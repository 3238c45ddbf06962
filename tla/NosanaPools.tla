----------------------------- MODULE NosanaPools -----------------------------
(***************************************************************************)
(* The nosana-pools program: a pool pays the tokens of its vault to a      *)
(* beneficiary, a fixed emission per second from its start time on.        *)
(* Anyone can fund a vault and anyone can ask a pool to pay.               *)
(*                                                                         *)
(* An instruction is one atomic transaction; what fails or panics leaves   *)
(* the state as it was.  The vault of pool p is named p.                   *)
(***************************************************************************)
EXTENDS Integers, FiniteSets

CONSTANTS
  Pools,        \* addresses of pool accounts
  Users,        \* wallets, each with a token account of its name
  Openers,      \* the users that open pools
  Payees,       \* token accounts that can become beneficiaries
  RewardsVault, \* the vault of the rewards program
  Funds,        \* Funds[u]: tokens of wallet u at the start
  Amounts,      \* amounts to fund a pool with
  Emissions,    \* emissions per second
  StartTimes,
  MaxU64,       \* the largest u64
  MaxTime,      \* bound on the clock
  None          \* no such account

ASSUME PoolAccountsAssumption ==
  /\ Users \cap Pools = {}
  /\ RewardsVault \notin Users \cup Pools
  /\ None \notin Users \cup Pools \cup {RewardsVault}
  /\ Openers \subseteq Users
  /\ Payees \subseteq Users \cup Pools \cup {RewardsVault}

ASSUME PoolNumbersAssumption ==
  /\ Funds \in [Users -> Nat]
  /\ Amounts \subseteq Nat /\ Emissions \subseteq Nat
  /\ StartTimes \subseteq Int
  /\ MaxU64 \in Nat /\ MaxTime \in Nat

VARIABLES
  pool,    \* PoolAccount of each pool address
  tokens,  \* balance of each token account
  now      \* Clock::unix_timestamp

poolVars == <<pool, tokens, now>>

-----------------------------------------------------------------------------
TokenAccounts == Users \cup Pools \cup {RewardsVault}

ClaimTypes == {"transfer", "addFee", "unknown"}

NoPool == [open |-> FALSE, authority |-> None, beneficiary |-> None,
           claimType |-> "unknown", claimed |-> 0, closeable |-> FALSE,
           emission |-> 0, startTime |-> 0]

IsOpen(p) == pool[p].open

\* A vault exists as long as its pool.
TokenAccountExists(a) == a \in Pools => IsOpen(a)

Move(from, to, amount) ==
  [a \in DOMAIN tokens |->
     tokens[a] + (IF a = to THEN amount ELSE 0) - (IF a = from THEN amount ELSE 0)]

\* The emission of pool p since its start.
Emitted(p) == (now - pool[p].startTime) * pool[p].emission

\* The u64 arithmetic of PoolAccount::claim does not overflow.
ClaimDefined(p) == pool[p].claimed <= Emitted(p) /\ Emitted(p) <= MaxU64

\* Faulty variants: earlier claims are not deducted; the balance of the vault
\* is no limit.
ClaimAll(p) == IF Emitted(p) <= tokens[p] THEN Emitted(p) ELSE tokens[p]
ClaimUncapped(p) == Emitted(p) - pool[p].claimed

\* What is due and available.
Claimable(p) ==
  LET due == Emitted(p) - pool[p].claimed
  IN  IF due <= tokens[p] THEN due ELSE tokens[p]

\* Faulty variant: everything counts as claimed, available or not.
RecordInFull(p) == [pool EXCEPT ![p].claimed = Emitted(p)]

\* The pool accounts after PoolAccount::claim.
RecordClaim(p) == [pool EXCEPT ![p].claimed = @ + Claimable(p)]

-----------------------------------------------------------------------------
PoolsInit ==
  /\ pool = [p \in Pools |-> NoPool]
  /\ tokens = [a \in TokenAccounts |-> IF a \in Users THEN Funds[a] ELSE 0]
  /\ now = 0

Tick ==
  /\ now < MaxTime
  /\ now' = now + 1
  /\ UNCHANGED <<pool, tokens>>

\* The vault is created with the pool, after the beneficiary has been read.
Open(u, p, beneficiary, emission, startTime, claimType, closeable) ==
  /\ ~ IsOpen(p)
  /\ TokenAccountExists(beneficiary)
  /\ pool' = [pool EXCEPT ![p] =
                [open |-> TRUE, authority |-> u, beneficiary |-> beneficiary,
                 claimType |-> claimType, claimed |-> 0,
                 closeable |-> closeable, emission |-> emission,
                 startTime |-> startTime]]
  /\ UNCHANGED <<tokens, now>>

\* A plain token transfer into the vault, outside of the program.
Fund(u, p, amount) ==
  /\ IsOpen(p)
  /\ tokens[u] >= amount
  /\ tokens' = Move(u, p, amount)
  /\ UNCHANGED <<pool, now>>

\* Less than one emission is not paid, whatever the beneficiary; the claim has
\* been recorded all the same.  The rewards program accepts its own vault only.
ClaimFee(p) ==
  /\ IsOpen(p)
  /\ now > pool[p].startTime
  /\ pool[p].claimType = "addFee"
  /\ pool[p].beneficiary # p
  /\ TokenAccountExists(pool[p].beneficiary)
  /\ ClaimDefined(p)
  /\ pool' = RecordClaim(p)
  /\ \/ /\ Claimable(p) < pool[p].emission
        /\ UNCHANGED tokens
     \/ /\ Claimable(p) >= pool[p].emission
        /\ pool[p].beneficiary = RewardsVault
        /\ tokens' = Move(p, RewardsVault, Claimable(p))
  /\ UNCHANGED now

\* The vault and the beneficiary are different mutable accounts.
ClaimTransfer(p) ==
  /\ IsOpen(p)
  /\ now > pool[p].startTime
  /\ pool[p].claimType = "transfer"
  /\ pool[p].beneficiary # p
  /\ TokenAccountExists(pool[p].beneficiary)
  /\ ClaimDefined(p)
  /\ Claimable(p) >= pool[p].emission
  /\ pool' = RecordClaim(p)
  /\ tokens' = Move(p, pool[p].beneficiary, Claimable(p))
  /\ UNCHANGED now

\* Faulty variant: any pool can be closed by its authority.
CloseUnchecked(u, p, to) ==
  /\ IsOpen(p)
  /\ u = pool[p].authority
  /\ to # p /\ TokenAccountExists(to)
  /\ pool' = [pool EXCEPT ![p] = NoPool]
  /\ tokens' = Move(p, to, tokens[p])
  /\ UNCHANGED now

\* The whole vault goes to the token account that the authority names.
Close(u, p, to) ==
  /\ IsOpen(p)
  /\ u = pool[p].authority
  /\ pool[p].closeable \/ tokens[p] = 0
  /\ to # p /\ TokenAccountExists(to)
  /\ pool' = [pool EXCEPT ![p] = NoPool]
  /\ tokens' = Move(p, to, tokens[p])
  /\ UNCHANGED now

\* The owner of the beneficiary account hands the pool on.
UpdateBeneficiary(u, p, beneficiary) ==
  /\ IsOpen(p)
  /\ pool[p].beneficiary = u
  /\ TokenAccountExists(beneficiary)
  /\ pool' = [pool EXCEPT ![p].beneficiary = beneficiary]
  /\ UNCHANGED <<tokens, now>>

-----------------------------------------------------------------------------
PoolNext(p) ==
  \/ \E u \in Openers, b \in Payees, e \in Emissions, t \in StartTimes,
        type \in ClaimTypes, closeable \in BOOLEAN :
       Open(u, p, b, e, t, type, closeable)
  \/ \E u \in Users, a \in Amounts : Fund(u, p, a)
  \/ ClaimFee(p)
  \/ ClaimTransfer(p)
  \/ \E u \in Openers, to \in Payees : Close(u, p, to)
  \/ \E u \in Users, b \in Payees : UpdateBeneficiary(u, p, b)

PoolsNext == Tick \/ \E p \in Pools : PoolNext(p)

PoolsSpec == PoolsInit /\ [][PoolsNext]_poolVars

-----------------------------------------------------------------------------
(* Safety *)

PoolType == [open: BOOLEAN, authority: Users \cup {None},
             beneficiary: TokenAccounts \cup {None}, claimType: ClaimTypes,
             claimed: Nat, closeable: BOOLEAN, emission: Nat, startTime: Int]

\* Accounts have the declared shape, an open pool names its beneficiary, no
\* balance is negative.
PoolsTypeOK ==
  /\ pool \in [Pools -> PoolType]
  /\ \A p \in Pools : IsOpen(p) => pool[p].beneficiary \in TokenAccounts
  /\ tokens \in [TokenAccounts -> Nat]
  /\ now \in Nat

\* A pool has never claimed more than it has emitted, so that the subtraction
\* in PoolAccount::claim never underflows and a claim is never blocked for good;
\* before the start nothing has been claimed.
ClaimedWithinEmission ==
  \A p \in Pools :
    IF now > pool[p].startTime
    THEN pool[p].claimed <= Emitted(p)
    ELSE pool[p].claimed = 0

\* The inductive invariant.
PoolsIInv == PoolsTypeOK /\ ClaimedWithinEmission

-----------------------------------------------------------------------------
(* What a step may do *)

\* Tokens leave the vault of a pool that is not closeable to its beneficiary
\* only, and no more of them than were claimed within the emission, however
\* often the beneficiary, the balance and the callers change.
PaidByEmission ==
  [][\A p \in Pools :
       IsOpen(p) /\ ~ pool[p].closeable /\ tokens'[p] < tokens[p] =>
         LET paid == tokens[p] - tokens'[p]
             to   == pool[p].beneficiary
         IN  /\ to # p /\ tokens'[to] = tokens[to] + paid
             /\ paid = pool'[p].claimed - pool[p].claimed
             /\ pool'[p].claimed <= Emitted(p)]_poolVars

\* A transfer pool never counts tokens as claimed that have not left the vault:
\* what an underfunded pool could not pay stays due.
DueStaysDue ==
  [][\A p \in Pools :
       IsOpen(p) /\ pool[p].claimType = "transfer"
         /\ pool'[p].claimed > pool[p].claimed
       => pool'[p].claimed - pool[p].claimed = tokens[p] - tokens'[p]]_poolVars

-----------------------------------------------------------------------------
(* What the documentation says and the code does not do *)

\* docs/pools.md: claimedTokens is "the number of tokens that have been claimed".
\* What a pool counts as claimed has left its vault.
ClaimedIsPaid ==
  [][\A p \in Pools :
       IsOpen(p) /\ pool'[p].claimed > pool[p].claimed =>
         pool'[p].claimed - pool[p].claimed = tokens[p] - tokens'[p]]_poolVars
=============================================================================
