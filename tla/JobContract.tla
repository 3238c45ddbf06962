----------------------------- MODULE JobContract -----------------------------
(***************************************************************************)
(* What the jobs program promises about a job and the money paid for it,   *)
(* with no queues, runs, nodes, prices, access keys and clocks: the phases *)
(* a job goes through and who gets its deposit at the end of each.         *)
(*                                                                         *)
(* The vault of the market a job was listed on holds the deposit of the    *)
(* job.  The parties can add to it, divide it once, or take it back as a   *)
(* whole.  Whoever closes a market takes all that is in its vault; what    *)
(* its jobs are due stays due, and is paid if the vault is filled again.   *)
(* Only the market admin does otherwise.                                   *)
(***************************************************************************)
EXTENDS Integers

CONSTANTS
  Jobs,
  Vaults,  \* the vaults of markets
  Wallets, \* all other token accounts
  None     \* no vault, no wallet

VARIABLES
  phase,  \* where each job is in its life
  vault,  \* the vault that holds its deposit
  payer,  \* the wallet that paid it
  held,   \* the tokens it consists of: what the vault owes the job
  balance \* the tokens of each account

dealVars == <<phase, vault, payer, held>>
contractVars == <<phase, vault, payer, held, balance>>

-----------------------------------------------------------------------------
Accounts == Wallets \cup Vaults

\* A lost job is listed, and no node will ever be offered it again.
Listed == {"waiting", "running", "lost"}

Pay(balances, from, to, amount) ==
  [a \in DOMAIN balances |->
     balances[a] + (IF a = to THEN amount ELSE 0) - (IF a = from THEN amount ELSE 0)]

\* Job j is in phase new with a deposit of amount, still between its parties.
Becomes(j, new, amount) ==
  /\ phase' = [phase EXCEPT ![j] = new]
  /\ held' = [held EXCEPT ![j] = amount]
  /\ UNCHANGED <<vault, payer>>

\* Job j is over and forgotten, its name is free again.
Ends(j) ==
  /\ phase' = [phase EXCEPT ![j] = "none"]
  /\ held' = [held EXCEPT ![j] = 0]
  /\ vault' = [vault EXCEPT ![j] = None]
  /\ payer' = [payer EXCEPT ![j] = None]

\* The whole deposit of job j goes to one account.
Refund(j, to) ==
  /\ balance[vault[j]] >= held[j]
  /\ balance' = Pay(balance, vault[j], to, held[j])

-----------------------------------------------------------------------------
Init ==
  /\ phase = [j \in Jobs |-> "none"]
  /\ vault = [j \in Jobs |-> None]
  /\ payer = [j \in Jobs |-> None]
  /\ held = [j \in Jobs |-> 0]
  /\ balance \in [Accounts -> Nat]

\* A wallet pays the deposit; the job waits or runs (or is lost at once).
Submit(j) ==
  /\ phase[j] = "none"
  /\ phase'[j] \in Listed
  /\ vault'[j] \in Vaults /\ payer'[j] \in Wallets /\ held'[j] \in Nat
  /\ balance[payer'[j]] >= held'[j]
  /\ balance' = Pay(balance, payer'[j], vault'[j], held'[j])
  /\ phase' = [phase EXCEPT ![j] = phase'[j]]
  /\ vault' = [vault EXCEPT ![j] = vault'[j]]
  /\ payer' = [payer EXCEPT ![j] = payer'[j]]
  /\ held' = [held EXCEPT ![j] = held'[j]]

\* The payer adds to the deposit of a job that is not over.
Add(j) ==
  LET added == held'[j] - held[j] IN
  /\ phase[j] \in Listed
  /\ added \in Nat
  /\ Becomes(j, phase[j], held[j] + added)
  /\ balance[payer[j]] >= added
  /\ balance' = Pay(balance, payer[j], vault[j], added)

Start(j) ==
  /\ phase[j] = "waiting"
  /\ Becomes(j, "running", held[j])
  /\ UNCHANGED balance

\* A job that waits is taken back: its payer gets everything.
Withdraw(j) ==
  /\ phase[j] = "waiting"
  /\ Ends(j)
  /\ Refund(j, payer[j])

Stop(j) ==
  /\ phase[j] = "running"
  /\ Becomes(j, "stopped", held[j])
  /\ UNCHANGED balance

\* The project directs the deposit of a stopped job to any account.
Recover(j) ==
  /\ phase[j] = "stopped"
  /\ Ends(j)
  /\ \E a \in Accounts : Refund(j, a)

\* A running job ends: one account gets what was earned, the payer the rest.
Settle(j) ==
  /\ phase[j] = "running"
  /\ Becomes(j, "settled", 0)
  /\ balance[vault[j]] >= held[j]
  /\ \E a \in Accounts, earned \in 0 .. held[j] :
       balance' = Pay(Pay(balance, vault[j], a, earned),
                      vault[j], payer[j], held[j] - earned)

Forget(j) ==
  /\ phase[j] = "settled"
  /\ Ends(j)
  /\ UNCHANGED balance

\* A market is closed: its vault is emptied and no job waits there any more.
CloseVault(v) ==
  /\ phase' = [j \in Jobs |-> IF vault[j] = v /\ phase[j] = "waiting"
                              THEN "lost" ELSE phase[j]]
  /\ UNCHANGED <<vault, payer, held>>
  /\ \E a \in Accounts : balance' = Pay(balance, v, a, balance[v])

\* The market admin removes a job, whose deposit stays in the vault.
Remove(j) ==
  /\ phase[j] # "none"
  /\ Ends(j)
  /\ UNCHANGED balance

\* The market admin takes a job away from its node.
Lose(j) ==
  /\ phase[j] = "running"
  /\ Becomes(j, "lost", held[j])
  /\ UNCHANGED balance

-----------------------------------------------------------------------------
PartiesNext ==
  \/ \E j \in Jobs : \/ Submit(j) \/ Add(j) \/ Start(j) \/ Withdraw(j)
                     \/ Stop(j) \/ Recover(j) \/ Settle(j) \/ Forget(j)
  \/ \E v \in Vaults : CloseVault(v)

Next == PartiesNext \/ \E j \in Jobs : Remove(j) \/ Lose(j)

Spec == Init /\ [][Next]_contractVars

\* The contract while the market admin does not intervene.
SpecNoAdmin == Init /\ [][PartiesNext]_contractVars
=============================================================================
