-------------------------- MODULE NosanaJobsContract --------------------------
(***************************************************************************)
(* The jobs program implements the contract about jobs and their deposits: *)
(* the refinement mapping from its accounts to JobContract.                *)
(***************************************************************************)
EXTENDS NosanaJobs

Running(j) == \E r \in Runs : run[r].job = j

\* A queued job that has neither a run nor a place is lost.
PhaseOfQueued(j) ==
  IF Running(j) THEN "running"
  ELSE IF InQueue(market[job[j].market], j) THEN "waiting" ELSE "lost"

PhaseOf(j) ==
  CASE job[j].state = "unused"  -> "none"
    [] job[j].state = "queued"  -> PhaseOfQueued(j)
    [] job[j].state = "done"    -> "settled"
    [] job[j].state = "stopped" -> "stopped"

JobPhases == [j \in Jobs |-> PhaseOf(j)]
JobVaults == [j \in Jobs |-> job[j].market]
JobPayers == [j \in Jobs |-> job[j].payer]
JobDeposits == [j \in Jobs |-> Escrow(j)]

Contract ==
  INSTANCE JobContract
    WITH Vaults  <- Markets,   Wallets <- Users,
         phase   <- JobPhases, vault   <- JobVaults,
         payer   <- JobPayers, held    <- JobDeposits,
         balance <- tokens

\* Every instruction is a step of the contract or none of its business: a job
\* starts only when it waits, its deposit is divided or returned once, from
\* the vault of the address it was paid to, and nothing else moves tokens out
\* of a vault but closing the market.
ImplementsContract == Contract!Spec

\* The same without the steps that only the market admin can take.
ImplementsContractNoAdmin == Contract!SpecNoAdmin

-----------------------------------------------------------------------------
(* What the mapping relies on *)

\* A job somebody paid for has a timeout that converts to u64, also after it
\* was extended: only the deposit of a free job, which is none, can be stuck in
\* Delist, Recover, End and Finish because of its timeout.
PaidJobsHaveDeposit ==
  \A j \in Jobs : Exists(j) /\ job[j].price # 0 => HasDeposit(job[j].timeout)

ContractInv == IInv /\ PaidJobsHaveDeposit
=============================================================================
