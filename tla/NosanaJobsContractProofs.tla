----------------------- MODULE NosanaJobsContractProofs -----------------------
(***************************************************************************)
(* TLAPS proofs that the jobs program implements JobContract, for every    *)
(* value of its constants, that it loses no address and no job, and that   *)
(* its vaults cover the deposits they hold for the jobs.                   *)
(***************************************************************************)
EXTENDS NosanaJobsContract, NosanaJobsProofs, FiniteSums

-----------------------------------------------------------------------------
(* What the contract does not see of a step *)

\* Nothing the contract says about job k changes.
Same(k) ==
  /\ PhaseOf(k)' = PhaseOf(k)
  /\ Escrow(k)' = Escrow(k)
  /\ job'[k].market = job[k].market
  /\ job'[k].payer = job[k].payer

LEMMA SameJob ==
  ASSUME TypeOK, NEW k \in Jobs,
         job'[k].state = job[k].state,
         job'[k].market = job[k].market,
         job'[k].payer = job[k].payer,
         job'[k].price = job[k].price,
         job'[k].timeout = job[k].timeout,
         job[k].state = "queued" =>
           /\ Running(k)' <=> Running(k)
           /\ InQueue(market'[job[k].market], k) <=> InQueue(market[job[k].market], k)
  PROVE  Same(k)
<1>1. job[k].state \in {"unused", "queued", "done", "stopped"}
  BY DEF TypeOK, JobType
<1>2. Escrow(k)' = Escrow(k)
  BY DEF Escrow
<1>3. job[k].state = "queued" => PhaseOfQueued(k)' = PhaseOfQueued(k)
  BY DEF PhaseOfQueued
<1>4. PhaseOf(k)' = PhaseOf(k)
  BY <1>1, <1>3 DEF PhaseOf
<1> QED
  BY <1>2, <1>4 DEF Same

LEMMA StutterStep ==
  ASSUME \A k \in Jobs : Same(k), tokens' = tokens
  PROVE  UNCHANGED Contract!contractVars
BY DEF Same, Contract!contractVars, JobPhases, JobVaults, JobPayers, JobDeposits

\* One job changes, and stays between its parties.
LEMMA BecomesStep ==
  ASSUME NEW j \in Jobs, NEW new, NEW amount,
         \A k \in Jobs \ {j} : Same(k),
         job'[j].market = job[j].market, job'[j].payer = job[j].payer,
         PhaseOf(j)' = new, Escrow(j)' = amount
  PROVE  Contract!Becomes(j, new, amount)
<1>1. JobPhases' = [JobPhases EXCEPT ![j] = new]
  BY DEF Same, JobPhases
<1>2. JobDeposits' = [JobDeposits EXCEPT ![j] = amount]
  BY DEF Same, JobDeposits
<1>3. JobVaults' = JobVaults /\ JobPayers' = JobPayers
  BY DEF Same, JobVaults, JobPayers
<1> QED
  BY <1>1, <1>2, <1>3 DEF Contract!Becomes

\* The account of one job is closed.
LEMMA EndsStep ==
  ASSUME NEW j \in Jobs, \A k \in Jobs \ {j} : Same(k), job'[j] = NoJob
  PROVE  Contract!Ends(j)
<1>0. /\ job'[j].state = "unused" /\ job'[j].market = None /\ job'[j].payer = None
  BY DEF NoJob
<1>1. PhaseOf(j)' = "none" /\ Escrow(j)' = 0
  BY <1>0 DEF PhaseOf, Escrow
<1>2. JobPhases' = [JobPhases EXCEPT ![j] = "none"]
  BY <1>1 DEF Same, JobPhases
<1>3. JobDeposits' = [JobDeposits EXCEPT ![j] = 0]
  BY <1>1 DEF Same, JobDeposits
<1>4. JobVaults' = [JobVaults EXCEPT ![j] = None]
  BY <1>0 DEF Same, JobVaults
<1>5. JobPayers' = [JobPayers EXCEPT ![j] = None]
  BY <1>0 DEF Same, JobPayers
<1> QED
  BY <1>2, <1>3, <1>4, <1>5 DEF Contract!Ends

\* A step that changes one queue and one job, or less than that.
LEMMA OthersSame ==
  ASSUME IInv, NEW j,
         \A k \in Jobs \ {j} : job'[k] = job[k] /\ (Running(k)' <=> Running(k)),
         \A m \in Markets, k \in Jobs \ {j} :
           InQueue(market'[m], k) <=> InQueue(market[m], k)
  PROVE  \A k \in Jobs \ {j} : Same(k)
<1> SUFFICES ASSUME NEW k \in Jobs \ {j}
             PROVE  Same(k)
  OBVIOUS
<1>1. Exists(k) => job[k].market \in Markets
  BY DEF IInv, JobsComplete
<1>2. job[k].state = "queued" => Exists(k)
  BY DEF Exists
<1> QED
  BY <1>1, <1>2, SameJob DEF IInv

\* A step that writes one job and no market.
LEMMA OtherJobsSame ==
  ASSUME IInv, NEW j \in Jobs, NEW new, market' = market,
         job' = [job EXCEPT ![j] = new],
         \A k \in Jobs \ {j} : Running(k)' <=> Running(k)
  PROVE  /\ \A k \in Jobs \ {j} : Same(k)
         /\ job'[j] = new
<1>1. job'[j] = new /\ \A k \in Jobs \ {j} : job'[k] = job[k]
  BY DEF IInv, TypeOK
<1> QED
  BY <1>1, OthersSame

\* A step that changes one queue, in which only the key j can come or go.
LEMMA OneQueueSame ==
  ASSUME IInv, NEW j, NEW m \in Markets,
         \A m2 \in Markets : m2 # m => market'[m2] = market[m2],
         \A k \in Jobs \ {j} : InQueue(market'[m], k) <=> InQueue(market[m], k),
         \A k \in Jobs \ {j} : job'[k] = job[k],
         \A k \in Jobs \ {j} : Running(k)' <=> Running(k)
  PROVE  \A k \in Jobs \ {j} : Same(k)
<1>1. \A m2 \in Markets, k \in Jobs \ {j} :
        InQueue(market'[m2], k) <=> InQueue(market[m2], k)
  OBVIOUS
<1> QED
  BY <1>1, OthersSame

LEMMA MarketWritten ==
  ASSUME IInv, NEW m \in Markets, NEW new, market' = [market EXCEPT ![m] = new]
  PROVE  market'[m] = new /\ \A m2 \in Markets : m2 # m => market'[m2] = market[m2]
BY DEF IInv, TypeOK

-----------------------------------------------------------------------------
(* Runs *)

LEMMA RunClosedFor ==
  ASSUME TypeOK, OneRunPerJob, NEW j \in Jobs, NEW r \in Runs, run[r].job = j,
         run' = [run EXCEPT ![r] = NoRun]
  PROVE  /\ \A k \in Jobs \ {j} : Running(k)' <=> Running(k)
         /\ ~ Running(j)'
<1>1. /\ run'[r].job = None
      /\ \A s \in Runs : s # r => run'[s] = run[s]
  BY DEF TypeOK, NoRun
<1>2. IsLive(r) /\ \A s \in Runs : run[s].job = j => s = r
  BY NoneAssumption DEF OneRunPerJob, IsLive, NoRun
<1>3. None \notin Jobs
  BY NoneAssumption
<1>4. ASSUME NEW k \in Jobs \ {j}
      PROVE  Running(k)' <=> Running(k)
  BY <1>1, <1>3 DEF Running
<1>5. ~ Running(j)'
  BY <1>1, <1>2, <1>3 DEF Running
<1> QED
  BY <1>4, <1>5

LEMMA RunStartedFor ==
  ASSUME TypeOK, NEW r \in Runs, NEW j \in Jobs, NEW node, StartRun(r, j, node)
  PROVE  /\ \A k \in Jobs \ {j} : Running(k)' <=> Running(k)
         /\ Running(j)'
<1>1. /\ run'[r].job = j /\ run[r].job = None
      /\ \A s \in Runs : s # r => run'[s] = run[s]
  BY DEF TypeOK, StartRun, IsLive, NoRun
<1> QED
  BY <1>1, NoneAssumption DEF Running

\* A job that runs is live, so it waits nowhere and is not settled.
LEMMA RunningJob ==
  ASSUME RunningJobNotSettled, NEW j \in Jobs, NEW r \in Runs, run[r].job = j
  PROVE  /\ job[j].state \in {"queued", "unused"}
         /\ \A m \in Markets : ~ InQueue(market[m], j)
<1>1. IsLive(r)
  BY NoneAssumption DEF IsLive, NoRun
<1> QED
  BY <1>1 DEF RunningJobNotSettled

LEMMA WaitingJobDoesNotRun ==
  ASSUME RunningJobNotSettled, NEW j \in Jobs, NEW m \in Markets,
         InQueue(market[m], j)
  PROVE  ~ Running(j)
BY RunningJob DEF Running

-----------------------------------------------------------------------------
(* Deposits *)

\* A transfer of the program is a payment of the contract.
LEMMA MoveIsPay ==
  ASSUME NEW balances, NEW from, NEW to, NEW amount
  PROVE  Move(balances, from, to, amount) = Contract!Pay(balances, from, to, amount)
BY DEF Move, Contract!Pay

LEMMA PayNothing ==
  ASSUME tokens \in [TokenAccounts -> Nat],
         NEW from \in TokenAccounts, NEW to \in TokenAccounts
  PROVE  Contract!Pay(tokens, from, to, 0) = tokens
BY DEF Contract!Pay

\* What the vault of its market owes a job that is not settled.
LEMMA DepositOwed ==
  ASSUME TypeOK, JobsComplete, NEW j \in Jobs,
         job[j].state \in {"queued", "stopped"}
  PROVE  /\ job[j].market \in Markets /\ job[j].payer \in Users
         /\ job[j].price \in Nat /\ job[j].timeout \in Int
         /\ Escrow(j) \in Nat
         /\ HasDeposit(job[j].timeout) => Escrow(j) = job[j].price * job[j].timeout
         /\ job[j].price = 0 => Escrow(j) = 0
         /\ tokens \in [TokenAccounts -> Nat]
<1>1. /\ job[j].price \in Nat /\ job[j].timeout \in Int
      /\ job[j].market \in Markets /\ job[j].payer \in Users
      /\ tokens \in [TokenAccounts -> Nat]
      /\ Exists(j)
  BY DEF TypeOK, JobType, JobsComplete, Exists
<1>2. Escrow(j) = IF job[j].timeout >= 0 THEN job[j].price * job[j].timeout ELSE 0
  BY <1>1 DEF Escrow
<1>3. CASE job[j].timeout >= 0
  <2>1. job[j].timeout \in Nat
    BY <1>1, <1>3
  <2>2. job[j].price * job[j].timeout \in Nat
    BY <1>1, <2>1, ProductNat
  <2> QED
    BY <1>1, <1>2, <1>3, <2>2 DEF HasDeposit
<1>4. CASE ~ (job[j].timeout >= 0)
  BY <1>1, <1>2, <1>4 DEF HasDeposit
<1> QED
  BY <1>3, <1>4

\* The deposit of a new job is paid.
LEMMA DepositPaid ==
  ASSUME tokens \in [TokenAccounts -> Nat],
         NEW payer \in Users, NEW m \in Markets, NEW price \in Nat,
         NEW timeout \in Int, NEW amount,
         amount = IF timeout >= 0 THEN price * timeout ELSE 0,
         PayDeposit(payer, m, price, timeout)
  PROVE  /\ amount \in Nat
         /\ tokens[payer] >= amount
         /\ tokens' = Contract!Pay(tokens, payer, m, amount)
<1>0. payer \in TokenAccounts /\ m \in TokenAccounts
  BY DEF TokenAccounts
<1>1. CASE price = 0
  <2>1. tokens' = tokens /\ amount = 0
    BY <1>1 DEF PayDeposit
  <2> QED
    BY <1>0, <2>1, PayNothing
<1>2. CASE price # 0
  <2>1. timeout \in Nat /\ amount = price * timeout
    BY <1>2 DEF PayDeposit, HasDeposit
  <2>2. amount \in Nat
    BY <2>1, ProductNat
  <2> QED
    BY <1>2, <2>1, <2>2 DEF PayDeposit, Move, Contract!Pay
<1> QED
  BY <1>1, <1>2

LEMMA DepositReturned ==
  ASSUME TypeOK, JobsComplete, NEW j \in Jobs,
         job[j].state \in {"queued", "stopped"},
         NEW to, ReturnDeposit(j, to)
  PROVE  Contract!Refund(j, to)
<1>1. Escrow(j) = job[j].price * job[j].timeout
  BY DepositOwed DEF ReturnDeposit
<1>2. JobVaults[j] = job[j].market /\ JobDeposits[j] = Escrow(j)
  BY DEF JobVaults, JobDeposits
<1>3. /\ tokens[job[j].market] >= Escrow(j)
      /\ tokens' = Contract!Pay(tokens, job[j].market, to, Escrow(j))
  BY <1>1 DEF ReturnDeposit, Move, Contract!Pay
<1> QED
  BY <1>2, <1>3 DEF Contract!Refund

\* The deposit of a running job is divided.
LEMMA DepositDivided ==
  ASSUME TypeOK, JobsComplete, NEW j \in Jobs,
         job[j].state = "queued",
         NEW user \in TokenAccounts, NEW start \in Nat, start <= now,
         Settle(j, start, user)
  PROVE  /\ tokens[job[j].market] >= Escrow(j)
         /\ \E earned \in 0 .. Escrow(j) :
              tokens' = Contract!Pay(Contract!Pay(tokens, job[j].market, user, earned),
                                     job[j].market, job[j].payer, Escrow(j) - earned)
<1> DEFINE amount == Reimbursement(job[j].price, job[j].timeout, start, now)
           total  == job[j].price * job[j].timeout
<1>1. /\ job[j].market \in TokenAccounts /\ job[j].payer \in TokenAccounts
      /\ job[j].price \in Nat /\ job[j].timeout \in Int
      /\ HasDeposit(job[j].timeout) => Escrow(j) = total
      /\ job[j].price = 0 => Escrow(j) = 0
      /\ tokens \in [TokenAccounts -> Nat] /\ now \in Nat
  BY DepositOwed DEF TokenAccounts, TypeOK
<1>2. CASE job[j].price = 0
  <2>1. tokens' = tokens /\ Escrow(j) = 0
    BY <1>1, <1>2 DEF Settle
  <2>2. /\ tokens[job[j].market] >= 0
        /\ tokens = Contract!Pay(Contract!Pay(tokens, job[j].market, user, 0),
                                 job[j].market, job[j].payer, 0)
    BY <1>1, PayNothing
  <2>3. 0 \in 0 .. Escrow(j) /\ Escrow(j) - 0 = 0
    BY <2>1
  <2> QED
    BY <2>1, <2>2, <2>3
<1>3. CASE job[j].price # 0
  <2>1. /\ HasDeposit(job[j].timeout)
        /\ tokens[job[j].market] >= total
        /\ tokens' = Move(Move(tokens, job[j].market, user, amount),
                          job[j].market, job[j].payer, total - amount)
    BY <1>3 DEF Settle
  <2>2. Escrow(j) = total /\ job[j].timeout \in Nat
    BY <1>1, <2>1 DEF HasDeposit
  <2>3. amount \in 0 .. total
    BY <1>1, <2>2, ReimbursementBounded
  <2> HIDE DEF amount, total
  <2> QED
    BY <2>1, <2>2, <2>3, MoveIsPay
<1> QED
  BY <1>2, <1>3

-----------------------------------------------------------------------------
(* Each instruction is one step of the contract *)

LEMMA MarketRecordRefines ==
  ASSUME ContractInv, NEW m \in Markets, NEW new,
         market' = [market EXCEPT ![m] = new],
         new.queue = market[m].queue,
         UNCHANGED <<job, run, tokens>>
  PROVE  UNCHANGED Contract!contractVars
<1>1. /\ market'[m] = new
      /\ \A m2 \in Markets : m2 # m => market'[m2] = market[m2]
  BY MarketWritten DEF ContractInv
<1>2. ASSUME NEW k \in Jobs
      PROVE  Same(k)
  <2>1. Exists(k) => job[k].market \in Markets
    BY DEF ContractInv, IInv, JobsComplete
  <2>2. job[k].state = "queued" =>
          (InQueue(market'[job[k].market], k) <=> InQueue(market[job[k].market], k))
    BY <1>1, <2>1 DEF InQueue, Exists
  <2>3. Running(k)' <=> Running(k)
    BY DEF Running
  <2> QED
    BY <2>2, <2>3, SameJob DEF ContractInv, IInv
<1> QED
  BY <1>2, StutterStep

LEMMA NewJobRefines ==
  ASSUME IInv, NEW j \in Jobs, NEW m \in Markets, NEW payer \in Payers,
         NEW p \in Projects, NEW t \in Timeouts,
         job[j] = NoJob,
         job' = [job EXCEPT ![j] = NewJob(m, payer, p, t)],
         PayDeposit(payer, m, market[m].terms.price, t),
         \A k \in Jobs \ {j} : Same(k)
  PROVE  Contract!Submit(j)
<1> DEFINE price == market[m].terms.price
<1>1. price \in Nat /\ payer \in Users /\ t \in Int /\ tokens \in [TokenAccounts -> Nat]
  BY NewJobKeeps, UsersAssumption, BoundsAssumption DEF IInv, TypeOK
<1>2. /\ job'[j].state = "queued" /\ job'[j].market = m /\ job'[j].payer = payer
      /\ job'[j].price = price /\ job'[j].timeout = t
  BY DEF IInv, TypeOK, NewJob, NoJob
<1> HIDE DEF price
<1>3. PhaseOf(j) = "none"
  BY DEF PhaseOf, NoJob
<1>4. PhaseOf(j)' \in Contract!Listed
  <2>1. PhaseOf(j)' = PhaseOfQueued(j)'
    BY <1>2 DEF PhaseOf
  <2> QED
    BY <2>1 DEF PhaseOfQueued, Contract!Listed
<1>5. Escrow(j)' = IF t >= 0 THEN price * t ELSE 0
  BY <1>2 DEF Escrow
<1>6. /\ Escrow(j)' \in Nat /\ tokens[payer] >= Escrow(j)'
      /\ tokens' = Contract!Pay(tokens, payer, m, Escrow(j)')
  BY <1>1, <1>5, DepositPaid DEF price
<1>7. /\ JobPhases' = [JobPhases EXCEPT ![j] = JobPhases'[j]]
      /\ JobPhases[j] = PhaseOf(j) /\ JobPhases'[j] = PhaseOf(j)'
  BY DEF Same, JobPhases
<1>8. /\ JobDeposits' = [JobDeposits EXCEPT ![j] = JobDeposits'[j]]
      /\ JobDeposits'[j] = Escrow(j)'
  BY DEF Same, JobDeposits
<1>9. /\ JobVaults' = [JobVaults EXCEPT ![j] = JobVaults'[j]]
      /\ JobVaults'[j] = m
  BY <1>2 DEF Same, JobVaults
<1>10. /\ JobPayers' = [JobPayers EXCEPT ![j] = JobPayers'[j]]
       /\ JobPayers'[j] = payer
  BY <1>2 DEF Same, JobPayers
<1> QED
  BY <1>1, <1>3, <1>4, <1>6, <1>7, <1>8, <1>9, <1>10 DEF Contract!Submit

\* A node does not share its address with a job.
LEMMA NodeIsNoJob == \A n \in Nodes : n \notin Jobs
BY UsersAssumption

\* A market that does not queue what it is given has an unknown type.
LEMMA UnknownTypes ==
  ASSUME NEW mk, ~ HasKnownType(mk)
  PROVE  mk.terms.jobType % RESTRICTED \notin JobTypes
BY DEF HasKnownType, JobTypeFrom, UnknownType, JobTypes, RESTRICTED

LEMMA ListRefines ==
  ASSUME IInv, FreshAddresses, NEW j \in Jobs, NEW m \in Markets,
         NEW payer \in Payers, NEW p \in Projects, NEW t \in Timeouts, NEW r \in Runs,
         List(j, m, payer, p, t, r)
  PROVE  /\ Contract!Submit(j)
         /\ \A k \in Jobs \ {j} : Same(k)
         /\ PhaseOf(j)' = "lost" => ListedOnUnknownType(j)
<1>1. /\ job[j] = NoJob /\ IsOpen(m)
      /\ job' = [job EXCEPT ![j] = NewJob(m, payer, p, t)]
      /\ PayDeposit(payer, m, market[m].terms.price, t)
  BY DEF List
<1>2. market[m] \in MarketType /\ WellFormedQueue(market[m]) /\ TypeOK
  BY DEF IInv, TypeOK, QueueConsistent
<1>3. \A k \in Jobs \ {j} : job'[k] = job[k]
  BY <1>1 DEF IInv, TypeOK
<1>4. /\ ~ InQueue(market[m], j)
      /\ job'[j].state = "queued" /\ job'[j].market = m /\ ~ Exists(j)
  <2>1. ~ InQueue(market[m], j)
    BY <1>1, ListedUnmentioned
  <2>2. job'[j].state = "queued" /\ job'[j].market = m /\ ~ Exists(j)
    BY <1>1, <1>2 DEF TypeOK, NewJob, NoJob, Exists
  <2> QED
    BY <2>1, <2>2
<1>5. CASE market[m].queueType \in {"job", "empty"}
  <2> DEFINE mk == AddToQueue(market[m], j, "job")
  <2>1. market' = [market EXCEPT ![m] = mk] /\ UNCHANGED run
    BY <1>5 DEF List
  <2>2. /\ mk.status = market[m].status
        /\ \A k : InQueue(mk, k) <=> InQueue(market[m], k)
                                     \/ (HasKnownType(market[m]) /\ k = j)
    BY <1>2, <1>4, <1>5, AddToQueueKeeps
  <2> HIDE DEF mk
  <2>3. \A k \in Jobs \ {j} : Running(k)' <=> Running(k)
    BY <2>1 DEF Running
  <2>4. market'[m] = mk /\ \A m2 \in Markets : m2 # m => market'[m2] = market[m2]
    BY <2>1, MarketWritten
  <2>5. \A k \in Jobs \ {j} : InQueue(market'[m], k) <=> InQueue(market[m], k)
    BY <2>2, <2>4
  <2>6. \A k \in Jobs \ {j} : Same(k)
    BY <1>3, <2>2, <2>3, <2>4, <2>5, OneQueueSame
  <2>7. PhaseOf(j)' = "lost" => ~ HasKnownType(market[m])
    BY <1>4, <2>2, <2>4 DEF PhaseOf, PhaseOfQueued
  <2>8. PhaseOf(j)' = "lost" => ListedOnUnknownType(j)
    BY <1>4, <2>7, UnknownTypes DEF ListedOnUnknownType
  <2> QED
    BY <1>1, <2>6, <2>8, NewJobRefines
<1>6. CASE market[m].queueType = "node"
  <2> DEFINE mk == PopFromQueue(market[m])
             n  == Head(market[m].queue)
  <2>1. market' = [market EXCEPT ![m] = mk] /\ StartRun(r, j, n)
    BY <1>6 DEF List
  <2>2. /\ mk.status = market[m].status /\ n \in Nodes
        /\ \A k : InQueue(mk, k) <=> InQueue(market[m], k) /\ k # n
    BY <1>2, <1>6, PopKeeps
  <2> HIDE DEF mk, n
  <2>3. (\A k \in Jobs \ {j} : Running(k)' <=> Running(k)) /\ Running(j)'
    BY <1>2, <2>1, RunStartedFor
  <2>4. market'[m] = mk /\ \A m2 \in Markets : m2 # m => market'[m2] = market[m2]
    BY <2>1, MarketWritten
  <2>5. \A k \in Jobs \ {j} : InQueue(market'[m], k) <=> InQueue(market[m], k)
    BY <2>2, <2>4, NodeIsNoJob
  <2>6. \A k \in Jobs \ {j} : Same(k)
    BY <1>3, <2>2, <2>3, <2>4, <2>5, OneQueueSame
  <2>7. PhaseOf(j)' # "lost"
    BY <1>4, <2>3 DEF PhaseOf, PhaseOfQueued
  <2> QED
    BY <1>1, <2>6, <2>7, NewJobRefines
<1> QED
  BY <1>5, <1>6 DEF List

LEMMA AssignRefines ==
  ASSUME IInv, NEW j \in Jobs, NEW m \in Markets, NEW payer \in Payers,
         NEW p \in Projects, NEW t \in Timeouts, NEW r \in Runs, NEW n \in Nodes,
         Assign(j, m, payer, p, t, r, n)
  PROVE  /\ Contract!Submit(j)
         /\ \A k \in Jobs \ {j} : Same(k)
         /\ PhaseOf(j)' = "lost" => ListedOnUnknownType(j)
<1> DEFINE mk == RemoveFromQueue(market[m], n)
<1>1. /\ job[j] = NoJob /\ IsOpen(m)
      /\ job' = [job EXCEPT ![j] = NewJob(m, payer, p, t)]
      /\ PayDeposit(payer, m, market[m].terms.price, t)
      /\ market' = [market EXCEPT ![m] = mk] /\ StartRun(r, j, n)
      /\ InQueue(market[m], n)
  BY DEF Assign
<1>2. market[m] \in MarketType /\ WellFormedQueue(market[m]) /\ TypeOK
  BY DEF IInv, TypeOK, QueueConsistent
<1>3. /\ mk.status = market[m].status
      /\ \A k : InQueue(mk, k) <=> InQueue(market[m], k) /\ k # n
  BY <1>1, <1>2, RemoveKeeps
<1> HIDE DEF mk
<1>4. (\A k \in Jobs \ {j} : Running(k)' <=> Running(k)) /\ Running(j)'
  BY <1>1, <1>2, RunStartedFor
<1>5. (\A k \in Jobs \ {j} : job'[k] = job[k]) /\ job'[j].state = "queued"
  BY <1>1, <1>2 DEF TypeOK, NewJob, NoJob
<1>6. market'[m] = mk /\ \A m2 \in Markets : m2 # m => market'[m2] = market[m2]
  BY <1>1, MarketWritten
<1>7. \A k \in Jobs \ {j} : InQueue(market'[m], k) <=> InQueue(market[m], k)
  BY <1>3, <1>6, NodeIsNoJob
<1>8. \A k \in Jobs \ {j} : Same(k)
  BY <1>3, <1>4, <1>5, <1>6, <1>7, OneQueueSame
<1>9. PhaseOf(j)' # "lost"
  BY <1>4, <1>5 DEF PhaseOf, PhaseOfQueued
<1> QED
  BY <1>1, <1>8, <1>9, NewJobRefines

LEMMA DelistRefines ==
  ASSUME IInv, NEW j \in Jobs, NEW p \in Projects, Delist(j, p)
  PROVE  Contract!Withdraw(j)
<1> DEFINE m  == job[j].market
           mk == RemoveFromQueue(market[m], j)
<1>1. /\ job[j].state = "queued" /\ IsOpen(m) /\ InQueue(market[m], j)
      /\ market' = [market EXCEPT ![m] = mk]
      /\ job' = [job EXCEPT ![j] = NoJob]
      /\ UNCHANGED run
      /\ IF job[j].price = 0 THEN UNCHANGED tokens ELSE ReturnDeposit(j, job[j].payer)
  BY DEF Delist
<1>2. /\ m \in Markets /\ TypeOK /\ JobsComplete /\ RunningJobNotSettled
      /\ job[j].payer \in Users
  BY <1>1 DEF IInv, SingleAssignment, JobsComplete, Exists
<1>3. market[m] \in MarketType /\ WellFormedQueue(market[m])
  BY <1>2 DEF IInv, TypeOK, QueueConsistent
<1>4. ~ Running(j)
  BY <1>1, <1>2, WaitingJobDoesNotRun
<1>5. JobPhases[j] = "waiting"
  BY <1>1, <1>4 DEF JobPhases, PhaseOf, PhaseOfQueued
<1>6. Contract!Refund(j, job[j].payer)
  <2>1. CASE job[j].price # 0
    BY <1>1, <1>2, <2>1, DepositReturned
  <2>2. CASE job[j].price = 0
    <3>1. Escrow(j) = 0 /\ tokens \in [TokenAccounts -> Nat] /\ tokens' = tokens
      BY <1>1, <1>2, <2>2, DepositOwed
    <3>2. m \in TokenAccounts /\ job[j].payer \in TokenAccounts
      BY <1>2 DEF TokenAccounts
    <3>3. tokens[m] >= 0 /\ tokens' = Contract!Pay(tokens, m, job[j].payer, 0)
      BY <3>1, <3>2, PayNothing
    <3>4. JobVaults[j] = m /\ JobDeposits[j] = 0
      BY <3>1 DEF JobVaults, JobDeposits
    <3> QED
      BY <3>3, <3>4 DEF Contract!Refund
  <2> QED
    BY <2>1, <2>2
<1>7. JobPayers[j] = job[j].payer
  BY DEF JobPayers
<1> HIDE DEF m
<1>8. /\ mk.status = market[m].status
      /\ \A k : InQueue(mk, k) <=> InQueue(market[m], k) /\ k # j
  BY <1>1, <1>3, RemoveKeeps
<1> HIDE DEF mk
<1>9. market'[m] = mk /\ \A m2 \in Markets : m2 # m => market'[m2] = market[m2]
  BY <1>1, <1>2, MarketWritten
<1>10. \A k \in Jobs \ {j} : InQueue(market'[m], k) <=> InQueue(market[m], k)
  BY <1>8, <1>9
<1>11. /\ job'[j] = NoJob
       /\ \A k \in Jobs \ {j} : job'[k] = job[k]
  BY <1>1, <1>2 DEF TypeOK
<1>12. \A k \in Jobs \ {j} : Running(k)' <=> Running(k)
  BY <1>1 DEF Running
<1>13. \A k \in Jobs \ {j} : Same(k)
  BY <1>2, <1>8, <1>9, <1>10, <1>11, <1>12, OneQueueSame
<1>14. Contract!Ends(j)
  BY <1>11, <1>13, EndsStep
<1> QED
  BY <1>5, <1>6, <1>7, <1>14 DEF Contract!Withdraw

LEMMA RecoverRefines ==
  ASSUME IInv, NEW j \in Jobs, NEW p \in Projects, NEW u \in TokenAccounts,
         Recover(j, p, u)
  PROVE  Contract!Recover(j)
<1>1. /\ job[j].state = "stopped" /\ IsOpen(job[j].market)
      /\ ReturnDeposit(j, u)
      /\ job' = [job EXCEPT ![j] = NoJob]
      /\ UNCHANGED <<market, run>>
  BY DEF Recover
<1>2. Contract!Refund(j, u)
  BY <1>1, DepositReturned DEF IInv
<1>3. \A k \in Jobs \ {j} : Running(k)' <=> Running(k)
  BY <1>1 DEF Running
<1>4. Contract!Ends(j)
  BY <1>1, <1>3, OtherJobsSame, EndsStep
<1>5. JobPhases[j] = "stopped"
  BY <1>1 DEF JobPhases, PhaseOf
<1> QED
  BY <1>2, <1>4, <1>5 DEF Contract!Recover, Contract!Accounts, TokenAccounts

LEMMA ExtendRefines ==
  ASSUME ContractInv, NEW j \in Jobs, NEW p \in Projects, NEW payer \in Payers,
         NEW t \in Timeouts, Extend(j, p, payer, t)
  PROVE  Contract!Add(j)
<1> DEFINE price == job[j].price
           old   == job[j].timeout
           m     == job[j].market
           added == Escrow(j)' - Escrow(j)
<1>1. /\ job[j].state = "queued" /\ IsOpen(m)
      /\ price = 0 \/ job[j].payer = payer
      /\ t > old
      /\ job' = [job EXCEPT ![j].timeout = t]
      /\ PayDeposit(payer, m, price, t - old)
      /\ UNCHANGED <<market, run>>
  BY DEF Extend
<1>2. /\ IInv /\ TypeOK /\ JobsComplete /\ Exists(j)
      /\ price # 0 => HasDeposit(old)
  BY <1>1 DEF ContractInv, IInv, Exists, PaidJobsHaveDeposit
<1>3. /\ m \in Markets /\ job[j].payer \in Users /\ price \in Nat /\ old \in Int
      /\ tokens \in [TokenAccounts -> Nat] /\ t \in Int
      /\ m \in TokenAccounts /\ job[j].payer \in TokenAccounts
  BY <1>1, <1>2, DepositOwed, BoundsAssumption DEF TokenAccounts
<1>4. /\ job'[j].state = "queued" /\ job'[j].market = m
      /\ job'[j].payer = job[j].payer /\ job'[j].price = price /\ job'[j].timeout = t
  BY <1>1, <1>2 DEF TypeOK, JobType
<1>5. /\ Escrow(j) = IF old >= 0 THEN price * old ELSE 0
      /\ Escrow(j)' = IF t >= 0 THEN price * t ELSE 0
  BY <1>1, <1>2, <1>4 DEF Escrow
<1> HIDE DEF price, old, m
<1>6. /\ added \in Nat /\ Escrow(j) \in Nat
      /\ tokens[job[j].payer] >= added
      /\ tokens' = Contract!Pay(tokens, job[j].payer, m, added)
  <2>1. CASE price = 0
    <3>1. tokens' = tokens
      BY <1>1, <2>1 DEF PayDeposit
    <3>2. Escrow(j) = 0 /\ Escrow(j)' = 0
      BY <1>3, <1>5, <2>1
    <3>3. added = 0
      BY <3>2
    <3> HIDE DEF added
    <3> QED
      BY <1>3, <3>1, <3>2, <3>3, PayNothing
  <2>2. CASE price # 0
    <3>1. old \in Nat /\ t \in Nat /\ t - old \in Nat
      BY <1>1, <1>2, <1>3, <2>2 DEF HasDeposit
    <3>2. price * old \in Nat /\ price * (t - old) \in Nat
      BY <1>3, <3>1, ProductNat
    <3>3. price * t = price * old + price * (t - old)
      BY <1>3, <3>1
    <3>4. Escrow(j) = price * old /\ Escrow(j)' = price * t
      BY <1>5, <3>1
    <3>5. added = price * (t - old)
      BY <3>2, <3>3, <3>4
    <3>6. job[j].payer = payer
      BY <1>1, <2>2
    <3>7. /\ tokens[payer] >= price * (t - old)
          /\ tokens' = Move(tokens, payer, m, price * (t - old))
      BY <1>1, <2>2 DEF PayDeposit
    <3> HIDE DEF added
    <3> QED
      BY <3>2, <3>4, <3>5, <3>6, <3>7, MoveIsPay
  <2> QED
    BY <2>1, <2>2
<1>7. \A k \in Jobs \ {j} : Running(k)' <=> Running(k)
  BY <1>1 DEF Running
<1>8. \A k \in Jobs \ {j} : Same(k)
  BY <1>1, <1>2, <1>7, OtherJobsSame
<1>9. PhaseOf(j)' = PhaseOf(j) /\ PhaseOf(j) \in Contract!Listed
  <2>1. PhaseOf(j)' = PhaseOfQueued(j)' /\ PhaseOf(j) = PhaseOfQueued(j)
    BY <1>1, <1>4 DEF PhaseOf
  <2>2. PhaseOfQueued(j)' = PhaseOfQueued(j)
    BY <1>1, <1>4 DEF PhaseOfQueued, Running, m
  <2>3. PhaseOfQueued(j) \in {"waiting", "running", "lost"}
    BY DEF PhaseOfQueued
  <2> QED
    BY <2>1, <2>2, <2>3 DEF Contract!Listed
<1>10. Escrow(j)' = Escrow(j) + added
  <2>1. Escrow(j)' \in Int
    BY <1>3, <1>5
  <2> QED
    BY <1>6, <2>1
<1>11. Contract!Becomes(j, PhaseOf(j), Escrow(j) + added)
  BY <1>4, <1>8, <1>9, <1>10, BecomesStep DEF m
<1>12. /\ JobPhases[j] = PhaseOf(j) /\ JobDeposits[j] = Escrow(j)
       /\ JobDeposits'[j] = Escrow(j)' /\ JobVaults[j] = m
       /\ JobPayers[j] = job[j].payer
  BY DEF JobPhases, JobDeposits, JobVaults, JobPayers, m
<1> QED
  BY <1>6, <1>9, <1>11, <1>12 DEF Contract!Add

\* End and Finish: the job becomes done, its run is closed, its deposit divided.
LEMMA SettlementRefines ==
  ASSUME IInv, NEW j \in Jobs, NEW r \in Runs, NEW user \in TokenAccounts, NEW new,
         Exists(j), IsOpen(job[j].market), run[r].job = j,
         job' = [job EXCEPT ![j] = new],
         new.state = "done", new.market = job[j].market, new.payer = job[j].payer,
         run' = [run EXCEPT ![r] = NoRun],
         Settle(j, run[r].time, user),
         UNCHANGED market
  PROVE  Contract!Settle(j)
<1>1. /\ TypeOK /\ JobsComplete /\ OneRunPerJob /\ RunningJobNotSettled /\ RunsInThePast
      /\ run[r].time \in Nat /\ run[r].time <= now
  BY DEF IInv, SingleAssignment, TypeOK, RunType, RunsInThePast
<1>2. job[j].state = "queued"
  BY <1>1, RunningJob DEF Exists
<1>3. (\A k \in Jobs \ {j} : Running(k)' <=> Running(k)) /\ ~ Running(j)'
  BY <1>1, RunClosedFor
<1>4. (\A k \in Jobs \ {j} : Same(k)) /\ job'[j] = new
  BY <1>3, OtherJobsSame
<1>5. PhaseOf(j) = "running" /\ PhaseOf(j)' = "settled"
  BY <1>2, <1>4 DEF PhaseOf, PhaseOfQueued, Running
<1>6. Escrow(j)' = 0
  BY <1>4 DEF Escrow
<1>7. Contract!Becomes(j, "settled", 0)
  BY <1>4, <1>5, <1>6, BecomesStep
<1>8. /\ tokens[job[j].market] >= Escrow(j)
      /\ \E earned \in 0 .. Escrow(j) :
           tokens' = Contract!Pay(Contract!Pay(tokens, job[j].market, user, earned),
                                  job[j].market, job[j].payer, Escrow(j) - earned)
  BY <1>1, <1>2, DepositDivided
<1>9. /\ JobPhases[j] = "running" /\ JobDeposits[j] = Escrow(j)
      /\ JobVaults[j] = job[j].market /\ JobPayers[j] = job[j].payer
  BY <1>5 DEF JobPhases, JobDeposits, JobVaults, JobPayers
<1>10. user \in Contract!Accounts
  BY DEF Contract!Accounts, TokenAccounts
<1> QED
  BY <1>7, <1>8, <1>9, <1>10 DEF Contract!Settle

LEMMA EndRefines ==
  ASSUME IInv, NEW j \in Jobs, NEW p \in Projects, NEW r \in Runs, End(j, p, r)
  PROVE  Contract!Settle(j)
<1> DEFINE new == [job[j] EXCEPT !.state = "done", !.timeStart = run[r].time,
                                 !.timeEnd = now, !.node = run[r].node]
<1>1. /\ Exists(j) /\ IsOpen(job[j].market) /\ run[r].job = j
      /\ job' = [job EXCEPT ![j] = new]
      /\ run' = [run EXCEPT ![r] = NoRun]
      /\ Settle(j, run[r].time, run[r].node)
      /\ UNCHANGED market
  BY DEF End
<1>2. run[r].node \in TokenAccounts
  <2>1. IsLive(r)
    BY <1>1, NoneAssumption DEF IsLive, NoRun
  <2> QED
    BY <2>1, UsersAssumption
       DEF IInv, SingleAssignment, RunningJobNotSettled, TokenAccounts
<1>3. /\ new.state = "done" /\ new.market = job[j].market
      /\ new.payer = job[j].payer
  BY DEF IInv, TypeOK, JobType
<1> HIDE DEF new
<1> QED
  BY <1>1, <1>2, <1>3, SettlementRefines

LEMMA FinishRefines ==
  ASSUME IInv, NEW j \in Jobs, NEW r \in Runs, NEW n \in Nodes,
         NEW u \in TokenAccounts, Finish(j, r, n, u)
  PROVE  Contract!Settle(j)
<1> DEFINE new == [job[j] EXCEPT !.state = "done", !.timeStart = run[r].time,
                                 !.timeEnd = now, !.node = n, !.result = TRUE]
<1>1. /\ Exists(j) /\ IsOpen(job[j].market) /\ run[r].job = j
      /\ job' = [job EXCEPT ![j] = new]
      /\ run' = [run EXCEPT ![r] = NoRun]
      /\ Settle(j, run[r].time, u)
      /\ UNCHANGED market
  BY DEF Finish, Exists
<1>2. /\ new.state = "done" /\ new.market = job[j].market
      /\ new.payer = job[j].payer
  BY DEF IInv, TypeOK, JobType
<1> HIDE DEF new
<1> QED
  BY <1>1, <1>2, SettlementRefines

\* The contract sees a node that joins a queue as nothing, and a node that
\* takes a job as the start of that job unless its account is gone.
LEMMA WorkRefines ==
  ASSUME IInv, NEW m \in Markets, NEW n \in Nodes, NEW r \in Runs, Work(m, n, r)
  PROVE  (\E j \in Jobs : Contract!Start(j)) \/ UNCHANGED Contract!contractVars
<1>1. UNCHANGED <<job, tokens>> /\ NodeMayEnter(m, n)
  BY DEF Work
<1>2. /\ market[m] \in MarketType /\ WellFormedQueue(market[m]) /\ TypeOK
      /\ RunningJobNotSettled /\ WaitingJobQueued
  BY DEF IInv, TypeOK, QueueConsistent, SingleAssignment
<1>3. CASE market[m].queueType \in {"node", "empty"}
  <2> DEFINE mk == AddToQueue(market[m], n, "node")
  <2>1. market' = [market EXCEPT ![m] = mk] /\ UNCHANGED run
    BY <1>3 DEF Work
  <2>2. ~ InQueue(market[m], n)
    BY <1>1, <1>3 DEF NodeMayEnter
  <2>3. /\ mk.status = market[m].status
        /\ \A k : InQueue(mk, k) <=> InQueue(market[m], k)
                                     \/ (HasKnownType(market[m]) /\ k = n)
    BY <1>2, <1>3, <2>2, AddToQueueKeeps
  <2> HIDE DEF mk
  <2>4. market'[m] = mk /\ \A m2 \in Markets : m2 # m => market'[m2] = market[m2]
    BY <2>1, MarketWritten
  <2>5. \A k \in Jobs \ {n} : InQueue(market'[m], k) <=> InQueue(market[m], k)
    BY <2>3, <2>4
  <2>6. /\ \A k \in Jobs \ {n} : Running(k)' <=> Running(k)
        /\ \A k \in Jobs \ {n} : job'[k] = job[k]
    BY <1>1, <2>1 DEF Running
  <2>7. \A k \in Jobs \ {n} : Same(k)
    BY <2>3, <2>4, <2>5, <2>6, OneQueueSame
  <2> QED
    BY <1>1, <2>7, NodeIsNoJob, StutterStep
<1>4. CASE market[m].queueType = "job"
  <2> DEFINE mk == PopFromQueue(market[m])
  <2>0. Head(market[m].queue) \in Jobs
    BY <1>2, <1>4, PopKeeps
  <2> PICK j \in Jobs : j = Head(market[m].queue)
    BY <2>0
  <2>1. market' = [market EXCEPT ![m] = mk] /\ StartRun(r, j, n)
    BY <1>4 DEF Work
  <2>2. /\ mk.status = market[m].status /\ j \in Jobs /\ InQueue(market[m], j)
        /\ \A k : InQueue(mk, k) <=> InQueue(market[m], k) /\ k # j
    BY <1>2, <1>4, PopKeeps
  <2> HIDE DEF mk
  <2>3. market'[m] = mk /\ \A m2 \in Markets : m2 # m => market'[m2] = market[m2]
    BY <2>1, MarketWritten
  <2>4. \A k \in Jobs \ {j} : InQueue(market'[m], k) <=> InQueue(market[m], k)
    BY <2>2, <2>3
  <2>5. (\A k \in Jobs \ {j} : Running(k)' <=> Running(k)) /\ Running(j)'
    BY <1>2, <2>1, <2>2, RunStartedFor
  <2>6. \A k \in Jobs \ {j} : job'[k] = job[k]
    BY <1>1
  <2>7. \A k \in Jobs \ {j} : Same(k)
    BY <2>2, <2>3, <2>4, <2>5, <2>6, OneQueueSame
  <2>8. /\ job[j].state \in {"queued", "unused"}
        /\ job[j].state = "queued" => job[j].market = m
        /\ ~ Running(j)
    BY <1>2, <2>2, WaitingJobDoesNotRun DEF WaitingJobQueued
  <2>9. CASE job[j].state = "queued"
    <3>1. PhaseOf(j) = "waiting" /\ PhaseOf(j)' = "running"
      BY <1>1, <2>2, <2>5, <2>8, <2>9 DEF PhaseOf, PhaseOfQueued
    <3>2. Escrow(j)' = Escrow(j)
      BY <1>1 DEF Escrow
    <3>3. Contract!Becomes(j, "running", Escrow(j))
      BY <1>1, <2>2, <2>7, <3>1, <3>2, BecomesStep
    <3>4. JobPhases[j] = "waiting" /\ JobDeposits[j] = Escrow(j)
      BY <2>2, <3>1 DEF JobPhases, JobDeposits
    <3>5. Contract!Start(j)
      BY <1>1, <3>3, <3>4 DEF Contract!Start
    <3> QED
      BY <2>2, <3>5
  <2>10. CASE job[j].state = "unused"
    <3>1. ~ Exists(j) /\ job'[j] = job[j]
      BY <1>1, <2>10 DEF Exists
    <3>2. Same(j)
      BY <1>2, <2>2, <2>10, <3>1, SameJob
    <3> QED
      BY <1>1, <2>7, <3>2, StutterStep
  <2> QED
    BY <2>8, <2>9, <2>10
<1> QED
  BY <1>3, <1>4 DEF Work

LEMMA StopRefines ==
  ASSUME IInv, NEW m \in Markets, NEW n \in Nodes, NEW s, Stop(m, n, s)
  PROVE  UNCHANGED Contract!contractVars
<1> DEFINE mk == RemoveFromQueue(market[m], n)
<1>1. /\ InQueue(market[m], n)
      /\ market' = [market EXCEPT ![m] = mk]
      /\ UNCHANGED <<job, run, tokens>>
  BY DEF Stop
<1>2. market[m] \in MarketType /\ WellFormedQueue(market[m])
  BY DEF IInv, TypeOK, QueueConsistent
<1>3. /\ mk.status = market[m].status
      /\ \A k : InQueue(mk, k) <=> InQueue(market[m], k) /\ k # n
  BY <1>1, <1>2, RemoveKeeps
<1> HIDE DEF mk
<1>4. market'[m] = mk /\ \A m2 \in Markets : m2 # m => market'[m2] = market[m2]
  BY <1>1, MarketWritten
<1>5. \A k \in Jobs \ {n} : InQueue(market'[m], k) <=> InQueue(market[m], k)
  BY <1>3, <1>4
<1>6. /\ \A k \in Jobs \ {n} : Running(k)' <=> Running(k)
      /\ \A k \in Jobs \ {n} : job'[k] = job[k]
  BY <1>1 DEF Running
<1>7. \A k \in Jobs \ {n} : Same(k)
  BY <1>3, <1>4, <1>5, <1>6, OneQueueSame
<1> QED
  BY <1>1, <1>7, NodeIsNoJob, StutterStep

LEMMA QuitRefines ==
  ASSUME IInv, NEW j \in Jobs, NEW r \in Runs, NEW n, Quit(j, r, n)
  PROVE  Contract!Stop(j)
<1> DEFINE new == [job[j] EXCEPT !.state = "stopped"]
<1>1. /\ Exists(j) /\ run[r].job = j
      /\ job' = [job EXCEPT ![j] = new]
      /\ run' = [run EXCEPT ![r] = NoRun]
      /\ UNCHANGED <<market, tokens>>
  BY DEF Quit
<1>2. /\ new.state = "stopped" /\ new.market = job[j].market
      /\ new.payer = job[j].payer /\ new.price = job[j].price
      /\ new.timeout = job[j].timeout
      /\ TypeOK /\ OneRunPerJob /\ RunningJobNotSettled
  BY DEF IInv, SingleAssignment, TypeOK, JobType
<1> HIDE DEF new
<1>3. job[j].state = "queued"
  BY <1>1, <1>2, RunningJob DEF Exists
<1>4. \A k \in Jobs \ {j} : Running(k)' <=> Running(k)
  BY <1>1, <1>2, RunClosedFor
<1>5. (\A k \in Jobs \ {j} : Same(k)) /\ job'[j] = new
  BY <1>1, <1>4, OtherJobsSame
<1>6. PhaseOf(j) = "running" /\ PhaseOf(j)' = "stopped"
  BY <1>1, <1>2, <1>3, <1>5 DEF PhaseOf, PhaseOfQueued, Running
<1>7. Escrow(j)' = Escrow(j)
  BY <1>1, <1>2, <1>3, <1>5 DEF Escrow
<1>8. Contract!Becomes(j, "stopped", Escrow(j))
  BY <1>2, <1>5, <1>6, <1>7, BecomesStep
<1>9. JobPhases[j] = "running" /\ JobDeposits[j] = Escrow(j)
  BY <1>6 DEF JobPhases, JobDeposits
<1> QED
  BY <1>1, <1>8, <1>9 DEF Contract!Stop

LEMMA CompleteRefines ==
  ASSUME IInv, NEW j \in Jobs, NEW n, Complete(j, n)
  PROVE  UNCHANGED Contract!contractVars
<1> DEFINE new == [job[j] EXCEPT !.result = TRUE]
<1>1. /\ job' = [job EXCEPT ![j] = new] /\ job[j].state = "done"
      /\ UNCHANGED <<market, run, tokens>>
  BY DEF Complete
<1>2. /\ new.state = job[j].state /\ new.market = job[j].market
      /\ new.payer = job[j].payer /\ new.price = job[j].price
      /\ new.timeout = job[j].timeout /\ TypeOK
  BY DEF IInv, TypeOK, JobType
<1> HIDE DEF new
<1>3. \A k \in Jobs \ {j} : Running(k)' <=> Running(k)
  BY <1>1 DEF Running
<1>4. (\A k \in Jobs \ {j} : Same(k)) /\ job'[j] = new
  BY <1>1, <1>3, OtherJobsSame
<1>5. Same(j)
  BY <1>1, <1>2, <1>4, SameJob
<1> QED
  BY <1>1, <1>4, <1>5, StutterStep

\* Clean and CleanAdmin.
LEMMA ForgottenJobRefines ==
  ASSUME IInv, NEW j \in Jobs, Exists(j),
         job' = [job EXCEPT ![j] = NoJob],
         UNCHANGED <<market, run, tokens>>
  PROVE  /\ Contract!Remove(j)
         /\ job[j].state = "done" => Contract!Forget(j)
<1>1. \A k \in Jobs \ {j} : Running(k)' <=> Running(k)
  BY DEF Running
<1>2. Contract!Ends(j)
  BY <1>1, OtherJobsSame, EndsStep
<1>3. job[j].state \in {"queued", "done", "stopped"}
  BY DEF IInv, TypeOK, JobType, Exists
<1>4. /\ JobPhases[j] = PhaseOf(j) /\ PhaseOf(j) # "none"
      /\ job[j].state = "done" => PhaseOf(j) = "settled"
  BY <1>3 DEF JobPhases, PhaseOf, PhaseOfQueued
<1> QED
  BY <1>2, <1>4 DEF Contract!Remove, Contract!Forget

\* The run the admin closes leaves its job behind, unless that is gone.
LEMMA QuitAdminRefines ==
  ASSUME IInv, NEW r \in Runs, QuitAdmin(r, MarketAdmin)
  PROVE  (\E j \in Jobs : Contract!Lose(j)) \/ UNCHANGED Contract!contractVars
<1> DEFINE j == run[r].job
<1>1. /\ IsLive(r) /\ run' = [run EXCEPT ![r] = NoRun]
      /\ UNCHANGED <<market, job, tokens>>
  BY DEF QuitAdmin
<1>2. /\ TypeOK /\ JobsComplete /\ OneRunPerJob /\ RunningJobNotSettled
      /\ j \in Jobs /\ job[j].state \in {"queued", "unused"}
      /\ \A m \in Markets : ~ InQueue(market[m], j)
  BY <1>1 DEF IInv, SingleAssignment, RunningJobNotSettled
<1> SUFFICES ASSUME NEW i \in Jobs, i = j
             PROVE  (\E k \in Jobs : Contract!Lose(k)) \/ UNCHANGED Contract!contractVars
  BY <1>2
<1>3. (\A k \in Jobs \ {i} : Running(k)' <=> Running(k)) /\ ~ Running(i)' /\ Running(i)
  BY <1>1, <1>2, RunClosedFor DEF Running
<1> HIDE DEF j
<1>4. \A k \in Jobs \ {i} : Same(k)
  BY <1>1, <1>3, OthersSame
<1>5. CASE job[i].state = "queued"
  <2>1. job[i].market \in Markets
    BY <1>2, <1>5 DEF JobsComplete, Exists
  <2>2. PhaseOf(i) = "running" /\ PhaseOf(i)' = "lost"
    BY <1>1, <1>2, <1>3, <1>5, <2>1 DEF PhaseOf, PhaseOfQueued, InQueue
  <2>3. Escrow(i)' = Escrow(i)
    BY <1>1 DEF Escrow
  <2>4. Contract!Becomes(i, "lost", Escrow(i))
    BY <1>1, <1>4, <2>2, <2>3, BecomesStep
  <2>5. JobPhases[i] = "running" /\ JobDeposits[i] = Escrow(i)
    BY <2>2 DEF JobPhases, JobDeposits
  <2>6. Contract!Lose(i)
    BY <1>1, <2>4, <2>5 DEF Contract!Lose
  <2> QED
    BY <2>6
<1>6. CASE job[i].state = "unused"
  <2>1. Same(i)
    BY <1>1, <1>2, <1>6, SameJob DEF Exists
  <2> QED
    BY <1>1, <1>4, <2>1, StutterStep
<1> QED
  BY <1>2, <1>5, <1>6

\* A vault is emptied as its market is closed.
ClosesVault(v) == Contract!CloseVault(v) /\ ~ IsOpen(v)'

LEMMA CloseMarketRefines ==
  ASSUME IInv, NEW m \in Markets, NEW user \in TokenAccounts, NEW supplied,
         CloseMarket(m, user, supplied)
  PROVE  ClosesVault(m)
<1>1. /\ tokens' = Contract!Pay(tokens, m, user, tokens[m])
      /\ market' = [market EXCEPT ![m] = NoMarket]
      /\ UNCHANGED <<job, run>>
  BY MoveIsPay DEF CloseMarket
<1>2. market'[m] = NoMarket /\ \A m2 \in Markets : m2 # m => market'[m2] = market[m2]
  BY <1>1, MarketWritten
<1>3. ASSUME NEW k \in Jobs
      PROVE  PhaseOf(k)' = IF job[k].market = m /\ PhaseOf(k) = "waiting"
                            THEN "lost" ELSE PhaseOf(k)
  <2>1. Exists(k) => job[k].market \in Markets
    BY DEF IInv, JobsComplete
  <2>2. Running(k)' <=> Running(k)
    BY <1>1 DEF Running
  <2>3. CASE job[k].market = m
    <3>1. ~ InQueue(market'[m], k)
      BY <1>2 DEF InQueue, NoMarket
    <3>2. job[k].state = "queued" =>
            PhaseOfQueued(k)' = IF PhaseOfQueued(k) = "waiting"
                                THEN "lost" ELSE PhaseOfQueued(k)
      BY <1>1, <2>2, <2>3, <3>1 DEF PhaseOfQueued
    <3>3. job[k].state \in {"unused", "queued", "done", "stopped"}
      BY DEF IInv, TypeOK, JobType
    <3>4. PhaseOf(k)' = IF PhaseOf(k) = "waiting" THEN "lost" ELSE PhaseOf(k)
      BY <1>1, <3>2, <3>3 DEF PhaseOf
    <3> QED
      BY <2>3, <3>4
  <2>4. CASE job[k].market # m
    <3>1. Exists(k) => market'[job[k].market] = market[job[k].market]
      BY <1>2, <2>1, <2>4
    <3>2. Same(k)
      BY <1>1, <2>2, <3>1, SameJob DEF IInv, Exists
    <3> QED
      BY <2>4, <3>2 DEF Same
  <2> QED
    BY <2>3, <2>4
<1>4. JobPhases' = [k \in Jobs |-> IF JobVaults[k] = m /\ JobPhases[k] = "waiting"
                                   THEN "lost" ELSE JobPhases[k]]
  BY <1>3 DEF JobPhases, JobVaults
<1>5. JobDeposits' = JobDeposits
  BY <1>1 DEF JobDeposits, Escrow
<1>6. JobVaults' = JobVaults /\ JobPayers' = JobPayers
  BY <1>1 DEF JobVaults, JobPayers
<1>7. market'[m].status # "open"
  BY <1>2 DEF NoMarket
<1> QED
  BY <1>1, <1>4, <1>5, <1>6, <1>7
     DEF ClosesVault, Contract!CloseVault, Contract!Accounts, TokenAccounts, IsOpen

-----------------------------------------------------------------------------
(* What the mapping relies on is an invariant *)

\* What a step makes of a job: nothing that matters for its deposit, a new job
\* that is paid for, or a closed account.
JobKept(j) ==
  \/ ~ Exists(j)'
  \/ /\ Exists(j)
     /\ job'[j].price = job[j].price /\ job'[j].timeout = job[j].timeout
  \/ job'[j].price # 0 => HasDeposit(job'[j].timeout)

LEMMA JobWritten ==
  ASSUME IInv, NEW j \in Jobs, NEW new, job' = [job EXCEPT ![j] = new]
  PROVE  /\ job'[j] = new
         /\ \A k \in Jobs : k # j => JobKept(k)
BY DEF IInv, TypeOK, JobKept, Exists

LEMMA JobsKept ==
  ASSUME ContractInv, [Next]_vars
  PROVE  \A j \in Jobs : JobKept(j)
<1> DEFINE Kept == \A j \in Jobs : JobKept(j)
<1>0. IInv /\ job \in [Jobs -> JobType]
  BY DEF ContractInv, IInv, TypeOK
<1>1. CASE UNCHANGED job
  BY <1>1 DEF JobKept, Exists
<1>2. ASSUME NEW j \in Jobs, job' = [job EXCEPT ![j] = NoJob]
      PROVE  Kept
  <2>1. job'[j] = NoJob /\ \A k \in Jobs : k # j => JobKept(k)
    BY <1>0, <1>2, JobWritten
  <2>2. ~ Exists(j)'
    BY <2>1 DEF Exists, NoJob
  <2> QED
    BY <2>1, <2>2 DEF JobKept
<1>3. ASSUME NEW j \in Jobs, Exists(j), NEW new, job' = [job EXCEPT ![j] = new],
             new.price = job[j].price, new.timeout = job[j].timeout
      PROVE  Kept
  <2>1. job'[j] = new /\ \A k \in Jobs : k # j => JobKept(k)
    BY <1>0, <1>3, JobWritten
  <2> QED
    BY <1>3, <2>1 DEF JobKept
<1>4. ASSUME NEW j \in Jobs, NEW m \in Markets, NEW payer \in Payers,
             NEW p \in Projects, NEW t \in Timeouts,
             job' = [job EXCEPT ![j] = NewJob(m, payer, p, t)],
             PayDeposit(payer, m, market[m].terms.price, t)
      PROVE  Kept
  <2>1. job'[j] = NewJob(m, payer, p, t) /\ \A k \in Jobs : k # j => JobKept(k)
    BY <1>0, <1>4, JobWritten
  <2>2. job'[j].price = market[m].terms.price /\ job'[j].timeout = t
    BY <2>1 DEF NewJob, NoJob
  <2>3. market[m].terms.price # 0 => HasDeposit(t)
    BY <1>4 DEF PayDeposit
  <2> QED
    BY <2>1, <2>2, <2>3 DEF JobKept
<1>5. ASSUME NEW j \in Jobs, NEW p \in Projects, NEW payer \in Payers,
             NEW t \in Timeouts, Extend(j, p, payer, t)
      PROVE  Kept
  <2> DEFINE new == [job[j] EXCEPT !.timeout = t]
  <2>1. /\ Exists(j) /\ job' = [job EXCEPT ![j] = new] /\ t > job[j].timeout
    BY <1>5 DEF Extend, Exists
  <2>2. job'[j] = new /\ \A k \in Jobs : k # j => JobKept(k)
    BY <1>0, <2>1, JobWritten
  <2>3. /\ new.price = job[j].price /\ new.timeout = t
        /\ job[j].timeout \in Int /\ t \in Int
    BY <1>0, BoundsAssumption DEF JobType
  <2> HIDE DEF new
  <2>4. job[j].price # 0 => HasDeposit(job[j].timeout)
    BY <2>1 DEF ContractInv, PaidJobsHaveDeposit
  <2>5. job[j].price # 0 => HasDeposit(t)
    BY <2>1, <2>3, <2>4 DEF HasDeposit
  <2> QED
    BY <2>2, <2>3, <2>5 DEF JobKept
<1>6. ASSUME NEW j \in Jobs, NEW p, NEW r, End(j, p, r)
      PROVE  Kept
  <2> DEFINE new == [job[j] EXCEPT !.state = "done", !.timeStart = run[r].time,
                                   !.timeEnd = now, !.node = run[r].node]
  <2>1. Exists(j) /\ job' = [job EXCEPT ![j] = new]
    BY <1>6 DEF End
  <2>2. new.price = job[j].price /\ new.timeout = job[j].timeout
    BY <1>0 DEF JobType
  <2> HIDE DEF new
  <2> QED
    BY <1>3, <2>1, <2>2
<1>7. ASSUME NEW j \in Jobs, NEW r, NEW n, NEW u, Finish(j, r, n, u)
      PROVE  Kept
  <2> DEFINE new == [job[j] EXCEPT !.state = "done", !.timeStart = run[r].time,
                                   !.timeEnd = now, !.node = n, !.result = TRUE]
  <2>1. Exists(j) /\ job' = [job EXCEPT ![j] = new]
    BY <1>7 DEF Finish, Exists
  <2>2. new.price = job[j].price /\ new.timeout = job[j].timeout
    BY <1>0 DEF JobType
  <2> HIDE DEF new
  <2> QED
    BY <1>3, <2>1, <2>2
<1>8. ASSUME NEW j \in Jobs, NEW r, NEW n, Quit(j, r, n)
      PROVE  Kept
  <2> DEFINE new == [job[j] EXCEPT !.state = "stopped"]
  <2>1. Exists(j) /\ job' = [job EXCEPT ![j] = new]
    BY <1>8 DEF Quit
  <2>2. new.price = job[j].price /\ new.timeout = job[j].timeout
    BY <1>0 DEF JobType
  <2> HIDE DEF new
  <2> QED
    BY <1>3, <2>1, <2>2
<1>9. ASSUME NEW j \in Jobs, NEW n, Complete(j, n)
      PROVE  Kept
  <2> DEFINE new == [job[j] EXCEPT !.result = TRUE]
  <2>1. Exists(j) /\ job' = [job EXCEPT ![j] = new]
    BY <1>9 DEF Complete, Exists
  <2>2. new.price = job[j].price /\ new.timeout = job[j].timeout
    BY <1>0 DEF JobType
  <2> HIDE DEF new
  <2> QED
    BY <1>3, <2>1, <2>2
<1>10. CASE UNCHANGED vars
  BY <1>1, <1>10 DEF vars
<1>11. CASE Next
  <2>1. CASE Tick
    BY <1>1, <2>1 DEF Tick
  <2>2. CASE MarketNext
    BY <1>1, <2>2 DEF MarketNext, Open, Update, SetSettings, CloseSettings, Close, CloseMarket
  <2>3. ASSUME NEW j \in Jobs, NEW p \in Projects, NEW m \in Markets,
               NEW payer \in Payers, NEW t \in Timeouts, NEW r \in Runs,
               \/ List(j, m, payer, p, t, r)
               \/ \E n \in Nodes : Assign(j, m, payer, p, t, r, n)
        PROVE  Kept
    BY <1>4, <2>3 DEF List, Assign
  <2>4. CASE ProjectNext
    BY <1>2, <1>5, <1>6, <2>3, <2>4 DEF ProjectNext, CreateNext, DealNext, Delist, Recover
  <2>5. CASE NodeNext
    BY <1>1, <1>7, <1>8, <1>9, <2>5 DEF NodeNext, Work, Stop
  <2>6. CASE AnyoneNext
    BY <1>2, <2>6 DEF AnyoneNext, Clean
  <2>7. CASE AdminNext
    BY <1>1, <1>2, <2>7 DEF AdminNext, CloseAdmin, CloseMarket, CleanAdmin, QuitAdmin
  <2> QED
    BY <1>11, <2>1, <2>2, <2>4, <2>5, <2>6, <2>7 DEF Next
<1> QED
  BY <1>10, <1>11

LEMMA InitContractInv == Init => ContractInv
<1>1. ASSUME Init PROVE \A j \in Jobs : ~ Exists(j)
  BY <1>1 DEF Init, Exists, NoJob
<1> QED
  BY <1>1, InitIInv DEF ContractInv, PaidJobsHaveDeposit

LEMMA NextContractInv == ContractInv /\ [FreshNext]_vars => ContractInv'
<1> SUFFICES ASSUME ContractInv, [FreshNext]_vars PROVE ContractInv'
  OBVIOUS
<1>1. IInv'
  BY NextIInv DEF ContractInv
<1>2. \A j \in Jobs : JobKept(j)
  BY JobsKept, FreshBoxSteps DEF ContractInv
<1>3. PaidJobsHaveDeposit'
  BY <1>2 DEF ContractInv, PaidJobsHaveDeposit, JobKept
<1> QED
  BY <1>1, <1>3 DEF ContractInv

LEMMA ContractInvHolds == SpecFresh => []ContractInv
<1>1. Init => ContractInv
  BY InitContractInv
<1>2. ContractInv /\ [FreshNext]_vars => ContractInv'
  BY NextContractInv
<1> QED
  BY <1>1, <1>2, PTL DEF SpecFresh

\* Whatever is listed and extended, a job that was paid for has a timeout whose
\* deposit can be computed: it never gets stuck on the conversion to u64.
THEOREM PaidJobsKeepDeposit == SpecFresh => []PaidJobsHaveDeposit
<1>1. ContractInv => PaidJobsHaveDeposit
  BY DEF ContractInv
<1> QED
  BY <1>1, ContractInvHolds, PTL

-----------------------------------------------------------------------------
(* The refinement *)

\* Open, Update, SetSettings and CloseSettings.
LEMMA AuthorityWrites ==
  ASSUME IInv, NEW m \in Markets, NEW a, NEW t, NEW k,
         Open(m, a, t) \/ Update(m, a, t) \/ SetSettings(m, a, k) \/ CloseSettings(m, a)
  PROVE  /\ \E new : market' = [market EXCEPT ![m] = new] /\ new.queue = market[m].queue
         /\ UNCHANGED <<job, run, tokens>>
<1>1. market[m] \in MarketType /\ market \in [Markets -> MarketType]
  BY DEF IInv, TypeOK
<1>2. CASE Open(m, a, t)
  <2> DEFINE byte == JobTypeFrom(t.jobType)
             new == [NoMarket EXCEPT !.status = "open", !.authority = a,
                                     !.terms = [t EXCEPT !.jobType = byte]]
  <2>1. /\ market' = [market EXCEPT ![m] = new] /\ market[m] = NoMarket
        /\ UNCHANGED <<job, run, tokens>>
    BY <1>2 DEF Open, NoMarket
  <2>2. new.queue = market[m].queue
    BY <2>1 DEF NoMarket
  <2> HIDE DEF new
  <2> QED
    BY <2>1, <2>2
<1>3. CASE Update(m, a, t)
  <2> DEFINE byte == UpdatedType(market[m], t.jobType)
             new == [market[m] EXCEPT !.terms = [t EXCEPT !.jobType = byte]]
  <2>1. market' = [market EXCEPT ![m] = new] /\ UNCHANGED <<job, run, tokens>>
    BY <1>1, <1>3 DEF Update, MarketType
  <2>2. new.queue = market[m].queue
    BY <1>1 DEF MarketType
  <2> HIDE DEF new
  <2> QED
    BY <2>1, <2>2
<1>4. CASE SetSettings(m, a, k) \/ CloseSettings(m, a)
  <2> PICK b : /\ market' = [market EXCEPT ![m].terms.jobType = WithFlag(@, b)]
               /\ UNCHANGED <<job, run, tokens>>
    BY <1>4 DEF SetSettings, CloseSettings
  <2> DEFINE byte == WithFlag(market[m].terms.jobType, b)
             new == [market[m] EXCEPT !.terms.jobType = byte]
  <2>1. market' = [market EXCEPT ![m] = new] /\ UNCHANGED <<job, run, tokens>>
    OBVIOUS
  <2>2. new.queue = market[m].queue
    BY <1>1 DEF MarketType
  <2> HIDE DEF new
  <2> QED
    BY <2>1, <2>2
<1> QED
  BY <1>2, <1>3, <1>4

LEMMA AuthorityRefines ==
  ASSUME ContractInv, NEW m \in Markets, NEW a, NEW t, NEW k,
         Open(m, a, t) \/ Update(m, a, t) \/ SetSettings(m, a, k) \/ CloseSettings(m, a)
  PROVE  UNCHANGED Contract!contractVars
BY AuthorityWrites, MarketRecordRefines DEF ContractInv

LEMMA ParametersRefine == UNCHANGED <<market, job, run, tokens>> =>
                            UNCHANGED Contract!contractVars
BY DEF Contract!contractVars, JobPhases, JobVaults, JobPayers, JobDeposits, PhaseOf,
       PhaseOfQueued, Running, InQueue, Escrow

\* What a step of the parties is for the contract.  A job that is submitted and
\* lost was listed on a market of unknown type.
SubmitsJob(j) ==
  Contract!Submit(j) /\ (PhaseOf(j)' = "lost" => ListedOnUnknownType(j))

ChangesDeal(j) ==
  \/ Contract!Add(j) \/ Contract!Start(j) \/ Contract!Withdraw(j) \/ Contract!Stop(j)
  \/ Contract!Recover(j) \/ Contract!Settle(j) \/ Contract!Forget(j)

PartiesStep ==
  \/ \E j \in Jobs : SubmitsJob(j) \/ ChangesDeal(j)
  \/ \E m \in Markets : ClosesVault(m)
  \/ UNCHANGED Contract!contractVars

\* A step of anyone but the market admin.
LEMMA NextNoAdminRefines ==
  ASSUME ContractInv, FreshAddresses, NextNoAdmin
  PROVE  PartiesStep
<1>0. IInv
  BY DEF ContractInv
<1>1. CASE Tick
  BY <1>1, ParametersRefine DEF Tick, PartiesStep
<1>2. CASE MarketNext
  <2>1. ASSUME NEW m \in Markets, NEW a \in Authorities,
               \/ \E t \in Terms : Open(m, a, t) \/ Update(m, a, t)
               \/ \E k \in Keys \cup {SystemKey} : SetSettings(m, a, k)
               \/ CloseSettings(m, a)
        PROVE  PartiesStep
    BY <2>1, AuthorityRefines DEF PartiesStep
  <2>2. ASSUME NEW m \in Markets, NEW a \in Authorities,
               NEW u \in Destinations(m), NEW s \in BOOLEAN, Close(m, a, u, s)
        PROVE  PartiesStep
    BY <1>0, <2>2, CloseMarketRefines, DestinationIsAccount DEF Close, PartiesStep
  <2> QED
    BY <1>2, <2>1, <2>2 DEF MarketNext
<1>3. CASE ProjectNext
  <2>1. ASSUME NEW j \in Jobs, NEW p \in Projects, NEW m \in Markets,
               NEW payer \in Payers, NEW t \in Timeouts, NEW r \in Runs,
               \/ List(j, m, payer, p, t, r)
               \/ \E n \in Nodes : Assign(j, m, payer, p, t, r, n)
        PROVE  PartiesStep
    <3>1. SubmitsJob(j)
      BY <1>0, <2>1, ListRefines, AssignRefines DEF SubmitsJob
    <3> QED
      BY <3>1 DEF PartiesStep
  <2>2. ASSUME NEW j \in Jobs, NEW p \in Projects,
               \/ Delist(j, p)
               \/ \E u \in TokenAccounts : Recover(j, p, u)
               \/ \E payer \in Payers, t \in Timeouts : Extend(j, p, payer, t)
               \/ \E r \in Runs : End(j, p, r)
        PROVE  PartiesStep
    <3>1. ChangesDeal(j)
      BY <1>0, <2>2, DelistRefines, RecoverRefines, ExtendRefines, EndRefines
         DEF ChangesDeal
    <3> QED
      BY <3>1 DEF PartiesStep
  <2> QED
    BY <1>3, <2>1, <2>2 DEF ProjectNext, CreateNext, DealNext
<1>4. CASE NodeNext
  <2>1. ASSUME NEW n \in Nodes, NEW m \in Markets, NEW r \in Runs, Work(m, n, r)
        PROVE  PartiesStep
    <3>1. (\E j \in Jobs : Contract!Start(j)) \/ UNCHANGED Contract!contractVars
      BY <1>0, <2>1, WorkRefines
    <3> QED
      BY <3>1 DEF PartiesStep, ChangesDeal
  <2>2. ASSUME NEW n \in Nodes, NEW m \in Markets, NEW s, Stop(m, n, s)
        PROVE  PartiesStep
    BY <1>0, <2>2, StopRefines DEF PartiesStep
  <2>3. ASSUME NEW n \in Nodes, NEW j \in Jobs, NEW r \in Runs,
               (\E u \in TokenAccounts : Finish(j, r, n, u)) \/ Quit(j, r, n)
        PROVE  PartiesStep
    <3>1. ChangesDeal(j)
      BY <1>0, <2>3, FinishRefines, QuitRefines DEF ChangesDeal
    <3> QED
      BY <3>1 DEF PartiesStep
  <2>4. ASSUME NEW n \in Nodes, NEW j \in Jobs, Complete(j, n)
        PROVE  PartiesStep
    BY <1>0, <2>4, CompleteRefines DEF PartiesStep
  <2> QED
    BY <1>4, <2>1, <2>2, <2>3, <2>4 DEF NodeNext
<1>5. CASE AnyoneNext
  <2>1. ASSUME NEW j \in Jobs, NEW m \in Markets, Clean(j, m)
        PROVE  PartiesStep
    <3>1. ChangesDeal(j)
      BY <1>0, <2>1, ForgottenJobRefines DEF Clean, Exists, ChangesDeal
    <3> QED
      BY <3>1 DEF PartiesStep
  <2> QED
    BY <1>5, <2>1 DEF AnyoneNext
<1> QED
  BY <1>1, <1>2, <1>3, <1>4, <1>5 DEF NextNoAdmin

\* A step of the market admin.
AdminStep ==
  \/ \E j \in Jobs : Contract!Remove(j) \/ Contract!Lose(j)
  \/ \E m \in Markets : ClosesVault(m)
  \/ UNCHANGED Contract!contractVars

LEMMA AdminRefines ==
  ASSUME IInv, AdminNext
  PROVE  AdminStep
<1>1. ASSUME NEW m \in Markets, NEW u \in Destinations(m), NEW s \in BOOLEAN,
             CloseAdmin(m, MarketAdmin, u, s)
      PROVE  AdminStep
  BY <1>1, CloseMarketRefines, DestinationIsAccount DEF CloseAdmin, AdminStep
<1>2. ASSUME NEW j \in Jobs, CleanAdmin(j, MarketAdmin)
      PROVE  AdminStep
  BY <1>2, ForgottenJobRefines DEF CleanAdmin, AdminStep
<1>3. ASSUME NEW r \in Runs, QuitAdmin(r, MarketAdmin)
      PROVE  AdminStep
  BY <1>3, QuitAdminRefines DEF AdminStep
<1> QED
  BY <1>1, <1>2, <1>3 DEF AdminNext

LEMMA PartiesStepIsContract ==
  PartiesStep => [Contract!PartiesNext]_(Contract!contractVars)
BY DEF PartiesStep, SubmitsJob, ChangesDeal, ClosesVault, Contract!PartiesNext

LEMMA InitRefines == Init => Contract!Init
<1> SUFFICES ASSUME Init PROVE Contract!Init
  OBVIOUS
<1>1. \A j \in Jobs : /\ job[j] = NoJob /\ job[j].state = "unused"
                      /\ job[j].market = None /\ job[j].payer = None
  BY DEF Init, NoJob
<1>2. \A j \in Jobs : PhaseOf(j) = "none" /\ Escrow(j) = 0
  BY <1>1 DEF PhaseOf, Escrow
<1>3. tokens \in [Users \cup Markets -> Nat]
  BY BoundsAssumption DEF Init, TokenAccounts
<1> QED
  BY <1>1, <1>2, <1>3
     DEF Contract!Init, Contract!Accounts, JobPhases, JobVaults, JobPayers, JobDeposits

LEMMA FreshNextRefines ==
  ASSUME ContractInv, [FreshNext]_vars
  PROVE  PartiesStep \/ AdminStep
<1>1. CASE UNCHANGED vars
  BY <1>1, ParametersRefine DEF vars, PartiesStep
<1>2. CASE FreshAddresses /\ NextNoAdmin
  BY <1>2, NextNoAdminRefines
<1>3. CASE AdminNext
  BY <1>3, AdminRefines DEF ContractInv
<1> QED
  BY <1>1, <1>2, <1>3, FreshBoxSteps DEF ContractInv, Next, NextNoAdmin

LEMMA NextRefines ==
  ContractInv /\ [FreshNext]_vars => [Contract!Next]_(Contract!contractVars)
<1>1. ASSUME AdminStep PROVE [Contract!Next]_(Contract!contractVars)
  BY <1>1 DEF AdminStep, ClosesVault, Contract!Next, Contract!PartiesNext
<1>2. ASSUME PartiesStep PROVE [Contract!Next]_(Contract!contractVars)
  BY <1>2, PartiesStepIsContract DEF Contract!Next
<1> QED
  BY <1>1, <1>2, FreshNextRefines

\* The jobs program implements the contract: every instruction takes each job
\* through the phases of the contract and its deposit where the contract says,
\* also when markets are closed over their jobs and opened again.
THEOREM ProgramImplementsContract == SpecFresh => ImplementsContract
<1>1. Init => Contract!Init
  BY InitRefines
<1>2. ContractInv /\ [FreshNext]_vars => [Contract!Next]_(Contract!contractVars)
  BY NextRefines
<1> QED
  BY <1>1, <1>2, ContractInvHolds, PTL DEF SpecFresh, ImplementsContract, Contract!Spec

-----------------------------------------------------------------------------
(* Without the market admin no address is mentioned after its job is gone *)

\* A step that forgets no job, and mentions only what was mentioned or exists.
LEMMA NoJobForgotten ==
  ASSUME MentionedJobsExist, \A k \in Jobs : Exists(k) => Exists(k)',
         \A m \in Markets, k \in Jobs :
           InQueue(market'[m], k) => InQueue(market[m], k) \/ Exists(k)',
         \A r \in Runs, k \in Jobs : run'[r].job = k => Mentioned(k) \/ Exists(k)'
  PROVE  \A k \in Jobs : Mentioned(k)' => Exists(k)'
<1>1. \A k \in Jobs : Mentioned(k) => Exists(k)
  BY DEF MentionedJobsExist, Exists
<1>2. \A k \in Jobs : Mentioned(k)' => Mentioned(k) \/ Exists(k)'
  BY DEF Mentioned
<1> QED
  BY <1>1, <1>2

\* The step writes one market; what its queue mentions was mentioned or exists.
LEMMA OneQueueWritten ==
  ASSUME IInv, MentionedJobsExist, NEW m \in Markets, NEW mk,
         market' = [market EXCEPT ![m] = mk],
         \A k \in Jobs : Exists(k) => Exists(k)',
         \A k \in Jobs : InQueue(mk, k) => InQueue(market[m], k) \/ Exists(k)',
         \A r \in Runs, k \in Jobs : run'[r].job = k => Mentioned(k) \/ Exists(k)'
  PROVE  \A k \in Jobs : Mentioned(k)' => Exists(k)'
<1>1. market'[m] = mk /\ \A m2 \in Markets : m2 # m => market'[m2] = market[m2]
  BY MarketWritten
<1>2. \A m2 \in Markets, k \in Jobs :
        InQueue(market'[m2], k) => InQueue(market[m2], k) \/ Exists(k)'
  BY <1>1
<1> QED
  BY <1>2, NoJobForgotten

\* A run that starts mentions a job that was mentioned or exists.
LEMMA RunStarts ==
  ASSUME IInv, NEW r \in Runs, NEW j, NEW n, StartRun(r, j, n),
         j \in Jobs => Mentioned(j) \/ Exists(j)'
  PROVE  \A s \in Runs, k \in Jobs : run'[s].job = k => Mentioned(k) \/ Exists(k)'
<1>1. /\ run'[r].job = j
      /\ \A s \in Runs : s # r => run'[s] = run[s]
  BY DEF IInv, TypeOK, StartRun
<1> QED
  BY <1>1 DEF Mentioned

LEMMA JobStays ==
  ASSUME IInv, NEW j \in Jobs, NEW new, job' = [job EXCEPT ![j] = new],
         new.state # "unused"
  PROVE  Exists(j)' /\ \A k \in Jobs : Exists(k) => Exists(k)'
BY DEF IInv, TypeOK, Exists

LEMMA NewJobExists ==
  ASSUME IInv, NEW j \in Jobs, NEW m, NEW payer, NEW p, NEW t,
         job' = [job EXCEPT ![j] = NewJob(m, payer, p, t)]
  PROVE  Exists(j)' /\ \A k \in Jobs : Exists(k) => Exists(k)'
<1>1. NewJob(m, payer, p, t).state = "queued"
  BY DEF NewJob, NoJob
<1> QED
  BY <1>1, JobStays

LEMMA RunsKept ==
  ASSUME TypeOK, \/ run' = run
                 \/ \E r \in Runs : run' = [run EXCEPT ![r] = NoRun]
  PROVE  \A s \in Runs, k \in Jobs : run'[s].job = k => Mentioned(k)
<1>1. \A s \in Runs : run'[s] = run[s] \/ run'[s].job = None
  BY DEF TypeOK, NoRun
<1> QED
  BY <1>1, NoneAssumption DEF Mentioned

\* Instructions of the market authority.
LEMMA AuthorityMentions ==
  ASSUME IInv, MentionedJobsExist, MarketNext
  PROVE  \A k \in Jobs : Mentioned(k)' => Exists(k)'
<1>1. /\ UNCHANGED <<job, run>> /\ TypeOK
      /\ market \in [Markets -> MarketType]
  BY DEF MarketNext, Open, Update, SetSettings, CloseSettings, Close, CloseMarket,
         IInv, TypeOK
<1>2. \A m \in Markets : market'[m].queue \in {market[m].queue, <<>>}
  <2>1. ASSUME NEW m \in Markets, NEW a, NEW t, NEW k,
               \/ Open(m, a, t) \/ Update(m, a, t)
               \/ SetSettings(m, a, k) \/ CloseSettings(m, a)
        PROVE  \A m2 \in Markets : market'[m2].queue = market[m2].queue
    <3>1. PICK new : /\ market' = [market EXCEPT ![m] = new]
                     /\ new.queue = market[m].queue
      BY <2>1, AuthorityWrites
    <3>2. market'[m] = new /\ \A m2 \in Markets : m2 # m => market'[m2] = market[m2]
      BY <3>1, MarketWritten
    <3> QED
      BY <3>1, <3>2
  <2>2. ASSUME NEW m \in Markets, NEW u, NEW s, CloseMarket(m, u, s)
        PROVE  \A m2 \in Markets : market'[m2].queue \in {market[m2].queue, <<>>}
    <3>1. market' = [market EXCEPT ![m] = NoMarket] /\ NoMarket.queue = <<>>
      BY <2>2 DEF CloseMarket, NoMarket
    <3>2. market'[m] = NoMarket /\ \A m2 \in Markets : m2 # m => market'[m2] = market[m2]
      BY <3>1, MarketWritten
    <3> QED
      BY <3>1, <3>2
  <2> QED
    BY <2>1, <2>2 DEF MarketNext, Close
<1>3. \A m \in Markets : \A k : InQueue(market'[m], k) => InQueue(market[m], k)
  BY <1>2 DEF InQueue
<1>4. \A k \in Jobs : Exists(k) => Exists(k)'
  BY <1>1 DEF Exists
<1>5. \A r \in Runs, k \in Jobs : run'[r].job = k => Mentioned(k)
  BY <1>1, RunsKept
<1> QED
  BY <1>3, <1>4, <1>5, NoJobForgotten

LEMMA ListMentions ==
  ASSUME IInv, MentionedJobsExist, NEW j \in Jobs, NEW m \in Markets, NEW payer,
         NEW p, NEW t, NEW r \in Runs, List(j, m, payer, p, t, r)
  PROVE  \A k \in Jobs : Mentioned(k)' => Exists(k)'
<1>1. market[m] \in MarketType /\ WellFormedQueue(market[m]) /\ TypeOK
  BY DEF IInv, TypeOK, QueueConsistent
<1>2. Exists(j)' /\ \A k \in Jobs : Exists(k) => Exists(k)'
  BY NewJobExists DEF List
<1>3. ~ InQueue(market[m], j)
  BY DEF MentionedJobsExist, Mentioned, List, NoJob
<1>4. CASE market[m].queueType \in {"job", "empty"}
  <2> DEFINE mk == AddToQueue(market[m], j, "job")
  <2>1. market' = [market EXCEPT ![m] = mk] /\ run' = run
    BY <1>4 DEF List
  <2>2. \A k : InQueue(mk, k) => InQueue(market[m], k) \/ k = j
    BY <1>1, <1>3, <1>4, AddToQueueKeeps
  <2> HIDE DEF mk
  <2>3. \A s \in Runs, k \in Jobs : run'[s].job = k => Mentioned(k)
    BY <1>1, <2>1, RunsKept
  <2> QED
    BY <1>2, <2>1, <2>2, <2>3, OneQueueWritten
<1>5. CASE market[m].queueType = "node"
  <2> DEFINE mk == PopFromQueue(market[m])
             n  == Head(market[m].queue)
  <2>1. market' = [market EXCEPT ![m] = mk] /\ StartRun(r, j, n)
    BY <1>5 DEF List
  <2>2. \A k : InQueue(mk, k) => InQueue(market[m], k)
    BY <1>1, <1>5, PopKeeps
  <2> HIDE DEF mk, n
  <2>3. \A s \in Runs, k \in Jobs : run'[s].job = k => Mentioned(k) \/ Exists(k)'
    BY <1>2, <2>1, RunStarts
  <2> QED
    BY <1>2, <2>1, <2>2, <2>3, OneQueueWritten
<1> QED
  BY <1>4, <1>5 DEF List

LEMMA AssignMentions ==
  ASSUME IInv, MentionedJobsExist, NEW j \in Jobs, NEW m \in Markets, NEW payer,
         NEW p, NEW t, NEW r \in Runs, NEW n, Assign(j, m, payer, p, t, r, n)
  PROVE  \A k \in Jobs : Mentioned(k)' => Exists(k)'
<1> DEFINE mk == RemoveFromQueue(market[m], n)
<1>1. market[m] \in MarketType /\ WellFormedQueue(market[m])
  BY DEF IInv, TypeOK, QueueConsistent
<1>2. Exists(j)' /\ \A k \in Jobs : Exists(k) => Exists(k)'
  BY NewJobExists DEF Assign
<1>3. market' = [market EXCEPT ![m] = mk] /\ StartRun(r, j, n) /\ InQueue(market[m], n)
  BY DEF Assign
<1>4. \A k : InQueue(mk, k) => InQueue(market[m], k)
  BY <1>1, <1>3, RemoveKeeps
<1> HIDE DEF mk
<1>5. \A s \in Runs, k \in Jobs : run'[s].job = k => Mentioned(k) \/ Exists(k)'
  BY <1>2, <1>3, RunStarts
<1> QED
  BY <1>2, <1>3, <1>4, <1>5, OneQueueWritten

LEMMA WorkMentions ==
  ASSUME IInv, MentionedJobsExist, NEW m \in Markets, NEW n \in Nodes, NEW r \in Runs,
         Work(m, n, r)
  PROVE  \A k \in Jobs : Mentioned(k)' => Exists(k)'
<1>1. market[m] \in MarketType /\ WellFormedQueue(market[m]) /\ TypeOK
  BY DEF IInv, TypeOK, QueueConsistent
<1>2. \A k \in Jobs : Exists(k) => Exists(k)'
  BY DEF Work, Exists
<1>3. CASE market[m].queueType \in {"node", "empty"}
  <2> DEFINE mk == AddToQueue(market[m], n, "node")
  <2>1. /\ market' = [market EXCEPT ![m] = mk] /\ run' = run
        /\ ~ InQueue(market[m], n)
    BY <1>3 DEF Work, NodeMayEnter
  <2>2. \A k : InQueue(mk, k) => InQueue(market[m], k) \/ k = n
    BY <1>1, <1>3, <2>1, AddToQueueKeeps
  <2> HIDE DEF mk
  <2>3. \A s \in Runs, k \in Jobs : run'[s].job = k => Mentioned(k)
    BY <1>1, <2>1, RunsKept
  <2> QED
    BY <1>2, <2>1, <2>2, <2>3, NodeIsNoJob, OneQueueWritten
<1>4. CASE market[m].queueType = "job"
  <2> DEFINE mk == PopFromQueue(market[m])
             j  == Head(market[m].queue)
  <2>1. market' = [market EXCEPT ![m] = mk] /\ StartRun(r, j, n)
    BY <1>4 DEF Work
  <2>2. /\ \A k : InQueue(mk, k) => InQueue(market[m], k)
        /\ InQueue(market[m], j)
    BY <1>1, <1>4, PopKeeps
  <2> HIDE DEF mk, j
  <2>3. j \in Jobs => Mentioned(j)
    BY <2>2 DEF Mentioned
  <2>4. \A s \in Runs, k \in Jobs : run'[s].job = k => Mentioned(k) \/ Exists(k)'
    BY <2>1, <2>3, RunStarts
  <2> QED
    BY <1>2, <2>1, <2>2, <2>4, OneQueueWritten
<1> QED
  BY <1>3, <1>4 DEF Work

LEMMA StopMentions ==
  ASSUME IInv, MentionedJobsExist, NEW m \in Markets, NEW n, NEW s, Stop(m, n, s)
  PROVE  \A k \in Jobs : Mentioned(k)' => Exists(k)'
<1> DEFINE mk == RemoveFromQueue(market[m], n)
<1>1. market[m] \in MarketType /\ WellFormedQueue(market[m]) /\ TypeOK
  BY DEF IInv, TypeOK, QueueConsistent
<1>2. /\ market' = [market EXCEPT ![m] = mk] /\ run' = run /\ InQueue(market[m], n)
      /\ \A k \in Jobs : Exists(k) => Exists(k)'
  BY DEF Stop, Exists
<1>3. \A k : InQueue(mk, k) => InQueue(market[m], k)
  BY <1>1, <1>2, RemoveKeeps
<1> HIDE DEF mk
<1>4. \A r \in Runs, k \in Jobs : run'[r].job = k => Mentioned(k)
  BY <1>1, <1>2, RunsKept
<1> QED
  BY <1>2, <1>3, <1>4, OneQueueWritten

\* Extend, End, Finish, Quit and Complete.
LEMMA JobUpdateMentions ==
  ASSUME IInv, MentionedJobsExist, NEW j \in Jobs, NEW new,
         job' = [job EXCEPT ![j] = new], new.state # "unused", market' = market,
         \/ run' = run
         \/ \E r \in Runs : run' = [run EXCEPT ![r] = NoRun]
  PROVE  \A k \in Jobs : Mentioned(k)' => Exists(k)'
<1>1. \A k \in Jobs : Exists(k) => Exists(k)'
  BY JobStays
<1>2. \A r \in Runs, k \in Jobs : run'[r].job = k => Mentioned(k)
  BY RunsKept DEF IInv
<1> QED
  BY <1>1, <1>2, NoJobForgotten

\* Recover and Clean: the job neither waited nor ran.
LEMMA JobClosedMentions ==
  ASSUME IInv, MentionedJobsExist, NEW j \in Jobs,
         job' = [job EXCEPT ![j] = NoJob], job[j].state # "queued",
         UNCHANGED <<market, run>>
  PROVE  \A k \in Jobs : Mentioned(k)' => Exists(k)'
<1>1. \A k \in Jobs : Mentioned(k)' => Mentioned(k)
  BY DEF Mentioned
<1>2. \A k \in Jobs \ {j} : job'[k] = job[k]
  BY DEF IInv, TypeOK
<1>3. ~ Mentioned(j)
  BY DEF MentionedJobsExist
<1>4. \A k \in Jobs : Mentioned(k) => Exists(k)
  BY DEF MentionedJobsExist, Exists
<1> QED
  BY <1>1, <1>2, <1>3, <1>4 DEF Exists

LEMMA DelistMentions ==
  ASSUME IInv, MentionedJobsExist, NEW j \in Jobs, NEW p, Delist(j, p)
  PROVE  \A k \in Jobs : Mentioned(k)' => Exists(k)'
<1> DEFINE m  == job[j].market
           mk == RemoveFromQueue(market[m], j)
<1>1. /\ job[j].state = "queued" /\ InQueue(market[m], j)
      /\ market' = [market EXCEPT ![m] = mk]
      /\ job' = [job EXCEPT ![j] = NoJob] /\ run' = run
  BY DEF Delist
<1>2. /\ m \in Markets /\ RunningJobNotSettled /\ WaitingJobQueued
  BY <1>1 DEF IInv, JobsComplete, SingleAssignment, Exists
<1>3. market[m] \in MarketType /\ WellFormedQueue(market[m])
  BY <1>2 DEF IInv, TypeOK, QueueConsistent
<1>4. \A k : InQueue(mk, k) <=> InQueue(market[m], k) /\ k # j
  BY <1>1, <1>3, RemoveKeeps
<1>5. ~ Running(j) /\ \A m2 \in Markets : InQueue(market[m2], j) => m2 = m
  BY <1>1, <1>2, WaitingJobDoesNotRun DEF WaitingJobQueued
<1> HIDE DEF m, mk
<1>6. market'[m] = mk /\ \A m2 \in Markets : m2 # m => market'[m2] = market[m2]
  BY <1>1, <1>2, MarketWritten
<1>7. \A k \in Jobs : Mentioned(k)' => Mentioned(k) /\ k # j
  <2>1. \A m2 \in Markets : \A k : InQueue(market'[m2], k) => InQueue(market[m2], k) /\ k # j
    BY <1>4, <1>5, <1>6
  <2> QED
    BY <1>1, <1>5, <2>1 DEF Mentioned, Running
<1>8. \A k \in Jobs \ {j} : job'[k] = job[k]
  BY <1>1 DEF IInv, TypeOK
<1> QED
  BY <1>7, <1>8 DEF MentionedJobsExist, Exists

LEMMA ProjectMentions ==
  ASSUME IInv, MentionedJobsExist, ProjectNext
  PROVE  \A k \in Jobs : Mentioned(k)' => Exists(k)'
<1> DEFINE Kept == \A k \in Jobs : Mentioned(k)' => Exists(k)'
<1>0. job \in [Jobs -> JobType]
  BY DEF IInv, TypeOK
<1>1. ASSUME NEW j \in Jobs, NEW p \in Projects, NEW m \in Markets,
             NEW payer \in Payers, NEW t \in Timeouts, NEW r \in Runs,
             \/ List(j, m, payer, p, t, r)
             \/ \E n \in Nodes : Assign(j, m, payer, p, t, r, n)
      PROVE  Kept
  BY <1>1, ListMentions, AssignMentions
<1>2. ASSUME NEW j \in Jobs, NEW p \in Projects,
             Delist(j, p) \/ \E u \in TokenAccounts : Recover(j, p, u)
      PROVE  Kept
  <2>1. ASSUME NEW u, Recover(j, p, u) PROVE Kept
    BY <2>1, JobClosedMentions DEF Recover
  <2> QED
    BY <1>2, <2>1, DelistMentions
<1>3. ASSUME NEW j \in Jobs, NEW p \in Projects, NEW payer \in Payers,
             NEW t \in Timeouts, Extend(j, p, payer, t)
      PROVE  Kept
  <2> DEFINE new == [job[j] EXCEPT !.timeout = t]
  <2>1. /\ job' = [job EXCEPT ![j] = new] /\ UNCHANGED <<market, run>>
        /\ job[j].state = "queued"
    BY <1>3 DEF Extend
  <2>2. new.state # "unused"
    BY <1>0, <2>1 DEF JobType
  <2> HIDE DEF new
  <2> QED
    BY <2>1, <2>2, JobUpdateMentions
<1>4. ASSUME NEW j \in Jobs, NEW p \in Projects, NEW r \in Runs, End(j, p, r)
      PROVE  Kept
  <2> DEFINE new == [job[j] EXCEPT !.state = "done", !.timeStart = run[r].time,
                                   !.timeEnd = now, !.node = run[r].node]
  <2>1. /\ job' = [job EXCEPT ![j] = new] /\ market' = market
        /\ run' = [run EXCEPT ![r] = NoRun]
    BY <1>4 DEF End
  <2>2. new.state # "unused"
    BY <1>0 DEF JobType
  <2> HIDE DEF new
  <2> QED
    BY <2>1, <2>2, JobUpdateMentions
<1> HIDE DEF Kept
<1>5. Kept
  BY <1>1, <1>2, <1>3, <1>4 DEF ProjectNext, CreateNext, DealNext
<1> QED
  BY <1>5 DEF Kept

LEMMA NodeMentions ==
  ASSUME IInv, MentionedJobsExist, NodeNext
  PROVE  \A k \in Jobs : Mentioned(k)' => Exists(k)'
<1> DEFINE Kept == \A k \in Jobs : Mentioned(k)' => Exists(k)'
<1>0. job \in [Jobs -> JobType]
  BY DEF IInv, TypeOK
<1>1. ASSUME NEW n \in Nodes, NEW m \in Markets,
             \/ \E r \in Runs : Work(m, n, r)
             \/ \E s \in Nodes \cup Authorities : Stop(m, n, s)
      PROVE  Kept
  BY <1>1, WorkMentions, StopMentions
<1>2. ASSUME NEW n \in Nodes, NEW j \in Jobs, NEW r \in Runs, NEW u, Finish(j, r, n, u)
      PROVE  Kept
  <2> DEFINE new == [job[j] EXCEPT !.state = "done", !.timeStart = run[r].time,
                                   !.timeEnd = now, !.node = n, !.result = TRUE]
  <2>1. /\ job' = [job EXCEPT ![j] = new] /\ market' = market
        /\ run' = [run EXCEPT ![r] = NoRun]
    BY <1>2 DEF Finish
  <2>2. new.state # "unused"
    BY <1>0 DEF JobType
  <2> HIDE DEF new
  <2> QED
    BY <2>1, <2>2, JobUpdateMentions
<1>3. ASSUME NEW n \in Nodes, NEW j \in Jobs, NEW r \in Runs, Quit(j, r, n)
      PROVE  Kept
  <2> DEFINE new == [job[j] EXCEPT !.state = "stopped"]
  <2>1. /\ job' = [job EXCEPT ![j] = new] /\ market' = market
        /\ run' = [run EXCEPT ![r] = NoRun]
    BY <1>3 DEF Quit
  <2>2. new.state # "unused"
    BY <1>0 DEF JobType
  <2> HIDE DEF new
  <2> QED
    BY <2>1, <2>2, JobUpdateMentions
<1>4. ASSUME NEW n \in Nodes, NEW j \in Jobs, Complete(j, n)
      PROVE  Kept
  <2> DEFINE new == [job[j] EXCEPT !.result = TRUE]
  <2>1. /\ job' = [job EXCEPT ![j] = new] /\ UNCHANGED <<market, run>>
        /\ job[j].state = "done"
    BY <1>4 DEF Complete
  <2>2. new.state # "unused"
    BY <1>0, <2>1 DEF JobType
  <2> HIDE DEF new
  <2> QED
    BY <2>1, <2>2, JobUpdateMentions
<1> HIDE DEF Kept
<1>5. Kept
  BY <1>1, <1>2, <1>3, <1>4 DEF NodeNext
<1> QED
  BY <1>5 DEF Kept

LEMMA NextMentions ==
  ASSUME IInv, MentionedJobsExist, [NextNoAdmin]_vars
  PROVE  \A k \in Jobs : Mentioned(k)' => Exists(k)'
<1>1. CASE Tick \/ UNCHANGED vars
  <2>1. UNCHANGED <<market, job, run>>
    BY <1>1 DEF Tick, vars
  <2> QED
    BY <2>1 DEF MentionedJobsExist, Mentioned, Exists
<1>2. CASE MarketNext
  BY <1>2, AuthorityMentions
<1>3. CASE ProjectNext
  BY <1>3, ProjectMentions
<1>4. CASE NodeNext
  BY <1>4, NodeMentions
<1>5. CASE AnyoneNext
  BY <1>5, JobClosedMentions DEF AnyoneNext, Clean
<1> QED
  BY <1>1, <1>2, <1>3, <1>4, <1>5 DEF NextNoAdmin

\* Without the admin every step uses fresh addresses.
LEMMA PartiesUseFreshAddresses ==
  MentionedJobsExist /\ [NextNoAdmin]_vars => [FreshNext]_vars
<1> SUFFICES ASSUME MentionedJobsExist, NextNoAdmin PROVE FreshNext
  BY DEF FreshNext
<1>1. ASSUME CreateNext PROVE FreshCreateNext
  <2>1. \A j \in Jobs : job[j] = NoJob => ~ Mentioned(j)
    BY NoAccounts DEF MentionedJobsExist
  <2> QED
    BY <1>1, <2>1 DEF CreateNext, FreshCreateNext, FreshList, FreshAssign, List, Assign
<1> QED
  BY <1>1 DEF NextNoAdmin, FreshNext, ProjectNext, FreshProjectNext

LEMMA NextMentionedJobsExist ==
  IInv /\ MentionedJobsExist /\ [NextNoAdmin]_vars => IInv' /\ MentionedJobsExist'
<1> SUFFICES ASSUME IInv, MentionedJobsExist, [NextNoAdmin]_vars
             PROVE  IInv' /\ MentionedJobsExist'
  OBVIOUS
<1>1. IInv'
  BY NextIInv, PartiesUseFreshAddresses
<1>2. ASSUME NEW k \in Jobs, Mentioned(k)'
      PROVE  job'[k].state \in {"queued", "unused"}
  <2>1. CASE \E m \in Markets : InQueue(market'[m], k)
    BY <1>1, <2>1 DEF IInv, SingleAssignment, WaitingJobQueued
  <2>2. CASE \E r \in Runs : run'[r].job = k
    <3>1. PICK r \in Runs : run'[r].job = k
      BY <2>2
    <3>2. IsLive(r)'
      BY <3>1, NoneAssumption DEF IsLive, NoRun
    <3> QED
      BY <1>1, <3>1, <3>2 DEF IInv, SingleAssignment, RunningJobNotSettled
  <2> QED
    BY <1>2, <2>1, <2>2 DEF Mentioned
<1>3. \A k \in Jobs : Mentioned(k)' => Exists(k)'
  BY NextMentions
<1>4. MentionedJobsExist'
  BY <1>2, <1>3 DEF MentionedJobsExist, Exists
<1> QED
  BY <1>1, <1>4

LEMMA InitMentionedJobsExist == Init => MentionedJobsExist
BY NoneAssumption DEF Init, MentionedJobsExist, Mentioned, InQueue, NoMarket, NoRun

\* While the market admin does not intervene, the head of a job queue is the
\* address of a queued job, although Work does not load its account: no order of
\* Delist, Recover, Clean, Quit and End leaves the address of a closed job behind.
THEOREM NoDanglingJobs == SpecNoAdmin => []MentionedJobsExist
<1> DEFINE Inv == IInv /\ MentionedJobsExist
<1>1. Init => Inv
  BY InitIInv, InitMentionedJobsExist
<1>2. Inv /\ [NextNoAdmin]_vars => Inv'
  BY NextMentionedJobsExist
<1>3. Inv => MentionedJobsExist
  OBVIOUS
<1> HIDE DEF Inv
<1> QED
  BY <1>1, <1>2, <1>3, PTL DEF SpecNoAdmin

\* So the parties alone never list a job at an address that is still mentioned:
\* what holds of SpecFresh holds of the program without the admin, with no
\* assumption about the addresses its clients choose.
THEOREM PartiesAreFresh == SpecNoAdmin => SpecFresh
<1>1. MentionedJobsExist /\ [NextNoAdmin]_vars => [FreshNext]_vars
  BY PartiesUseFreshAddresses
<1> QED
  BY <1>1, NoDanglingJobs, PTL DEF SpecNoAdmin, SpecFresh

LEMMA PartiesStepTaken ==
  ASSUME ContractInv, MentionedJobsExist, [NextNoAdmin]_vars
  PROVE  PartiesStep
<1>1. FreshAddresses
  BY DEF MentionedJobsExist, FreshAddresses, Exists
<1>2. CASE UNCHANGED vars
  BY <1>2, ParametersRefine DEF vars, PartiesStep
<1> QED
  BY <1>1, <1>2, NextNoAdminRefines

\* While the market admin does not intervene no job loses its node or its
\* account before it is settled, stopped or withdrawn.
THEOREM PartiesImplementContract == SpecNoAdmin => ImplementsContractNoAdmin
<1>1. Init => Contract!Init
  BY InitRefines
<1>2. ContractInv /\ MentionedJobsExist /\ [NextNoAdmin]_vars
        => [Contract!PartiesNext]_(Contract!contractVars)
  BY PartiesStepTaken, PartiesStepIsContract
<1> QED
  BY <1>1, <1>2, PartiesAreFresh, NoDanglingJobs, ContractInvHolds, PTL
     DEF SpecNoAdmin, ImplementsContractNoAdmin, Contract!SpecNoAdmin

-----------------------------------------------------------------------------
(* No job falls out of reach *)

LEMMA LostJobs ==
  ASSUME TypeOK, NEW j \in Jobs
  PROVE  PhaseOf(j) = "lost" <=> job[j].state = "queued" /\ ~ Reachable(j)
<1>1. job[j].state \in {"unused", "queued", "done", "stopped"}
  BY DEF TypeOK, JobType
<1> QED
  BY <1>1 DEF PhaseOf, PhaseOfQueued, Running, Reachable

LEMMA LostJobsNext ==
  \A j \in Jobs : TypeOK' => (PhaseOf(j)' = "lost" <=> job'[j].state = "queued" /\ ~ Reachable(j)')
<1> SUFFICES ASSUME NEW j \in Jobs, TypeOK'
             PROVE  PhaseOf(j)' = "lost" <=> job'[j].state = "queued" /\ ~ Reachable(j)'
  OBVIOUS
<1>1. job'[j].state \in {"unused", "queued", "done", "stopped"}
  BY DEF TypeOK, JobType
<1> QED
  BY <1>1 DEF PhaseOf, PhaseOfQueued, Running, Reachable

\* A step of the contract about one job, other than its submission, loses none.
LEMMA DealsKeepFromLoss ==
  ASSUME NEW k \in Jobs, ChangesDeal(k)
  PROVE  \A j \in Jobs : JobPhases'[j] = "lost" => JobPhases[j] = "lost"
<1>0. DOMAIN JobPhases = Jobs
  BY DEF JobPhases
<1>1. ASSUME NEW phase, NEW amount, Contract!Becomes(k, phase, amount),
             phase # "lost" \/ phase = JobPhases[k]
      PROVE  \A j \in Jobs : JobPhases'[j] = "lost" => JobPhases[j] = "lost"
  BY <1>0, <1>1 DEF Contract!Becomes
<1>2. ASSUME Contract!Ends(k)
      PROVE  \A j \in Jobs : JobPhases'[j] = "lost" => JobPhases[j] = "lost"
  BY <1>0, <1>2 DEF Contract!Ends
<1>3. CASE \/ Contract!Add(k) \/ Contract!Start(k) \/ Contract!Stop(k)
           \/ Contract!Settle(k)
  BY <1>1, <1>3 DEF Contract!Add, Contract!Start, Contract!Stop, Contract!Settle
<1>4. CASE Contract!Withdraw(k) \/ Contract!Recover(k) \/ Contract!Forget(k)
  BY <1>2, <1>4 DEF Contract!Withdraw, Contract!Recover, Contract!Forget
<1> QED
  BY <1>3, <1>4 DEF ChangesDeal

LEMMA PartiesKeepReach ==
  ASSUME ContractInv, TypeOK', PartiesStep, NEW j \in Jobs,
         job[j].state = "queued" => Reachable(j),
         job'[j].state = "queued", market'[job'[j].market].status = "open"
  PROVE  Reachable(j)' \/ ListedOnUnknownType(j)
<1> SUFFICES ASSUME PhaseOf(j)' = "lost" PROVE ListedOnUnknownType(j)
  BY LostJobsNext
<1>0. PhaseOf(j) # "lost"
  BY LostJobs DEF ContractInv, IInv
<1>1. /\ JobPhases[j] = PhaseOf(j) /\ JobPhases'[j] = PhaseOf(j)'
      /\ JobVaults[j] = job[j].market /\ JobVaults'[j] = job'[j].market
      /\ DOMAIN JobPhases = Jobs
  BY DEF JobPhases, JobVaults
<1>2. CASE UNCHANGED Contract!contractVars
  BY <1>0, <1>1, <1>2 DEF Contract!contractVars
<1>3. ASSUME NEW k \in Jobs, SubmitsJob(k) PROVE ListedOnUnknownType(j)
  <2>1. CASE k = j
    BY <1>3, <2>1 DEF SubmitsJob
  <2>2. CASE k # j
    <3>1. JobPhases' = [JobPhases EXCEPT ![k] = JobPhases'[k]]
      BY <1>3 DEF SubmitsJob, Contract!Submit
    <3> QED
      BY <1>0, <1>1, <2>2, <3>1
  <2> QED
    BY <2>1, <2>2
<1>4. ASSUME NEW k \in Jobs, ChangesDeal(k) PROVE ListedOnUnknownType(j)
  BY <1>0, <1>1, <1>4, DealsKeepFromLoss
<1>5. ASSUME NEW m \in Markets, ClosesVault(m) PROVE ListedOnUnknownType(j)
  <2>1. /\ JobVaults' = JobVaults /\ market'[m].status # "open"
        /\ JobPhases' = [i \in Jobs |-> IF JobVaults[i] = m /\ JobPhases[i] = "waiting"
                                        THEN "lost" ELSE JobPhases[i]]
    BY <1>5 DEF ClosesVault, Contract!CloseVault, IsOpen
  <2>2. JobVaults[j] = m
    BY <1>0, <1>1, <2>1
  <2> QED
    BY <1>1, <2>1, <2>2
<1> QED
  BY <1>2, <1>3, <1>4, <1>5 DEF PartiesStep

\* While the market admin does not intervene, whatever else is done with its
\* market except closing it, a job that waits or runs never drops out of the
\* queue without a run: no order of List, Assign, Work, Delist, Quit and Stop
\* loses it, in a market that was opened again neither.
THEOREM JobsStayReachable == SpecNoAdmin => StaysReachable
<1>1. ContractInv /\ ContractInv' /\ MentionedJobsExist /\ [NextNoAdmin]_vars =>
        [\A j \in Jobs :
           /\ job[j].state = "queued" => Reachable(j)
           /\ job'[j].state = "queued" /\ market'[job'[j].market].status = "open"
           => Reachable(j)' \/ ListedOnUnknownType(j)]_vars
  BY PartiesStepTaken, PartiesKeepReach DEF ContractInv, IInv
<1> QED
  BY <1>1, PartiesAreFresh, NoDanglingJobs, ContractInvHolds, PTL
     DEF SpecNoAdmin, StaysReachable

-----------------------------------------------------------------------------
(* The vaults cover the deposits: proved of the contract's steps, whatever *)
(* instruction of the program takes them                                   *)

\* The deposit of job j as far as it is in vault v.
DepositIn(v, j) == IF JobVaults[j] = v THEN JobDeposits[j] ELSE 0
DepositsIn(v) == [j \in Jobs |-> DepositIn(v, j)]

\* Vault v holds at least the deposits of its jobs.
VaultCovers(v) == SumFunctionOnSet(DepositsIn(v), Jobs) <= tokens[v]

\* The types of the contract's variables under the mapping.
LEMMA DealsTyped ==
  ASSUME ContractInv
  PROVE  /\ JobPhases = [j \in Jobs |-> JobPhases[j]]
         /\ JobVaults = [j \in Jobs |-> JobVaults[j]]
         /\ JobPayers = [j \in Jobs |-> JobPayers[j]]
         /\ JobDeposits \in [Jobs -> Nat]
         /\ tokens \in [TokenAccounts -> Nat]
         /\ \A j \in Jobs :
              \/ JobPhases[j] = "none" /\ JobDeposits[j] = 0
              \/ JobVaults[j] \in Markets /\ JobPayers[j] \in Users
<1>1. /\ job \in [Jobs -> JobType] /\ tokens \in [TokenAccounts -> Nat]
      /\ TypeOK /\ JobsComplete
  BY DEF ContractInv, IInv, TypeOK
<1>2. ASSUME NEW j \in Jobs PROVE Escrow(j) \in Nat
  <2>1. CASE job[j].state \in {"queued", "stopped"}
    BY <1>1, <2>1, DepositOwed
  <2>2. CASE job[j].state \notin {"queued", "stopped"}
    BY <2>2 DEF Escrow
  <2>. QED  BY <2>1, <2>2
<1>3. ASSUME NEW j \in Jobs, ~ Exists(j)
      PROVE  PhaseOf(j) = "none" /\ Escrow(j) = 0
  BY <1>1, <1>3 DEF Exists, PhaseOf, Escrow, JobType
<1>4. ASSUME NEW j \in Jobs, Exists(j)
      PROVE  job[j].market \in Markets /\ job[j].payer \in Users
  BY <1>1, <1>4 DEF JobsComplete
<1>. QED
  BY <1>1, <1>2, <1>3, <1>4 DEF JobPhases, JobVaults, JobPayers, JobDeposits

\* A payment takes from one account what it gives to another.
LEMMA PaymentMoves ==
  ASSUME NEW b \in [TokenAccounts -> Int], NEW amount \in Nat,
         NEW from \in TokenAccounts, NEW to \in TokenAccounts
  PROVE  /\ Contract!Pay(b, from, to, amount) \in [TokenAccounts -> Int]
         /\ Contract!Pay(b, from, to, amount)[from] >= b[from] - amount
         /\ \A a \in TokenAccounts \ {from} :
              Contract!Pay(b, from, to, amount)[a]
                = IF a = to THEN b[a] + amount ELSE b[a]
<1>. DEFINE more == Contract!Pay(b, from, to, amount)
<1>1. /\ more = [a \in TokenAccounts |->
                   b[a] + (IF a = to THEN amount ELSE 0)
                        - (IF a = from THEN amount ELSE 0)]
      /\ \A a \in TokenAccounts : b[a] \in Int
  BY DEF Contract!Pay
<1>. HIDE DEF more
<1>2. more \in [TokenAccounts -> Int] /\ more[from] >= b[from] - amount
  BY <1>1
<1>3. \A a \in TokenAccounts \ {from} :
        more[a] = IF a = to THEN b[a] + amount ELSE b[a]
  BY <1>1
<1>. QED  BY <1>2, <1>3 DEF more

\* The deal about one job changes, and vault v gets or keeps what its
\* deposits change by.
LEMMA OneDealChanges ==
  ASSUME ContractInv, NEW v \in Markets, VaultCovers(v),
         NEW j \in Jobs, NEW amount \in Nat, NEW w,
         JobDeposits' = [JobDeposits EXCEPT ![j] = amount],
         JobVaults' = [JobVaults EXCEPT ![j] = w],
         tokens'[v] \in Int,
         tokens'[v] - tokens[v] >= (IF w = v THEN amount ELSE 0) - DepositIn(v, j)
  PROVE  VaultCovers(v)'
<1>. DEFINE f == DepositsIn(v)
            g == DepositsIn(v)'
<1>1. /\ \A k \in Jobs : f[k] \in Nat /\ f[k] = DepositIn(v, k)
      /\ \A k \in Jobs \ {j} : g[k] = f[k]
      /\ g[j] = IF w = v THEN amount ELSE 0
      /\ tokens[v] \in Nat
  BY DealsTyped DEF DepositsIn, DepositIn, TokenAccounts
<1>2. SumFunctionOnSet(f, Jobs) <= tokens[v]
  BY DEF VaultCovers
<1>. HIDE DEF f, g
<1>3. SumFunctionOnSet(g, Jobs) = SumFunctionOnSet(f, Jobs) - f[j] + g[j]
  <2>1. \A k \in Jobs : f[k] \in Int
    BY <1>1
  <2>2. g[j] \in Int /\ \A k \in Jobs \ {j} : g[k] = f[k]
    BY <1>1
  <2>3. IsFiniteSet(Jobs)
    BY FiniteAssumption
  <2>. QED  BY <2>1, <2>2, <2>3, SumChanges
<1>4. SumFunctionOnSet(f, Jobs) \in Nat
  BY <1>1, FiniteAssumption, SumIsNat
<1>5. SumFunctionOnSet(g, Jobs) <= tokens'[v]
  BY <1>1, <1>2, <1>3, <1>4
<1>. QED  BY <1>5 DEF VaultCovers, g

LEMMA VaultIsNoWallet == \A v \in Markets : v \in TokenAccounts /\ v # None /\ v \notin Users
BY NoneAssumption, UsersAssumption DEF TokenAccounts

LEMMA SubmitCovers ==
  ASSUME ContractInv, NEW u \in Markets, VaultCovers(u),
         NEW j \in Jobs, Contract!Submit(j)
  PROVE  VaultCovers(u)'
<1>. DEFINE w == JobVaults'[j]
            p == JobPayers'[j]
            amount == JobDeposits'[j]
<1>1. /\ JobPhases[j] = "none" /\ w \in Markets /\ p \in Users /\ amount \in Nat
      /\ tokens' = Contract!Pay(tokens, p, w, amount)
      /\ JobVaults' = [JobVaults EXCEPT ![j] = w]
      /\ JobDeposits' = [JobDeposits EXCEPT ![j] = amount]
  BY DEF Contract!Submit
<1>. HIDE DEF w, p, amount
<1>2. tokens \in [TokenAccounts -> Nat] /\ JobDeposits \in [Jobs -> Nat]
  BY DealsTyped
<1>3. \A v \in Markets : DepositIn(v, j) \in Nat
  BY <1>2 DEF DepositIn
<1>4. p \in TokenAccounts /\ w \in TokenAccounts /\ \A v \in Markets : v # p
  BY <1>1, VaultIsNoWallet DEF TokenAccounts
<1>5. \A v \in Markets : /\ tokens'[v] = IF v = w THEN tokens[v] + amount ELSE tokens[v]
                         /\ tokens[v] \in Nat
  <2>1. tokens \in [TokenAccounts -> Int]
    BY <1>2
  <2>2. \A v \in TokenAccounts \ {p} :
          tokens'[v] = IF v = w THEN tokens[v] + amount ELSE tokens[v]
    BY <1>1, <1>4, <2>1, PaymentMoves
  <2>. QED  BY <1>2, <1>4, <2>2, VaultIsNoWallet
<1>6. \A v \in Markets :
        /\ tokens'[v] \in Int
        /\ tokens'[v] - tokens[v] >= (IF w = v THEN amount ELSE 0) - DepositIn(v, j)
  BY <1>1, <1>3, <1>5
<1>. QED  BY <1>1, <1>6, OneDealChanges

LEMMA AddCovers ==
  ASSUME ContractInv, NEW u \in Markets, VaultCovers(u),
         NEW j \in Jobs, Contract!Add(j)
  PROVE  VaultCovers(u)'
<1>. DEFINE w == JobVaults[j]
            p == JobPayers[j]
            old == JobDeposits[j]
            added == JobDeposits'[j] - JobDeposits[j]
<1>1. /\ JobPhases[j] \in {"waiting", "running", "lost"} /\ added \in Nat
      /\ tokens' = Contract!Pay(tokens, p, w, added)
      /\ JobVaults' = JobVaults
      /\ JobDeposits' = [JobDeposits EXCEPT ![j] = old + added]
  BY DEF Contract!Add, Contract!Becomes, Contract!Listed
<1>2. /\ tokens \in [TokenAccounts -> Nat] /\ old \in Nat
      /\ w \in Markets /\ p \in Users
      /\ JobVaults' = [JobVaults EXCEPT ![j] = w]
      /\ \A v \in Markets : DepositIn(v, j) = IF w = v THEN old ELSE 0
  BY <1>1, DealsTyped DEF DepositIn
<1>. HIDE DEF w, p, old, added
<1>4. p \in TokenAccounts /\ w \in TokenAccounts /\ \A v \in Markets : v # p
  BY <1>2, VaultIsNoWallet DEF TokenAccounts
<1>5. \A v \in Markets : /\ tokens'[v] = IF v = w THEN tokens[v] + added ELSE tokens[v]
                         /\ tokens[v] \in Nat
  <2>1. tokens \in [TokenAccounts -> Int]
    BY <1>2
  <2>2. \A v \in TokenAccounts \ {p} :
          tokens'[v] = IF v = w THEN tokens[v] + added ELSE tokens[v]
    BY <1>1, <1>4, <2>1, PaymentMoves
  <2>. QED  BY <1>2, <1>4, <2>2, VaultIsNoWallet
<1>6. /\ old + added \in Nat
      /\ \A v \in Markets :
           /\ tokens'[v] \in Int
           /\ tokens'[v] - tokens[v] >= (IF w = v THEN old + added ELSE 0) - DepositIn(v, j)
  BY <1>1, <1>2, <1>5
<1>. QED  BY <1>1, <1>2, <1>6, OneDealChanges

\* The deal ends, the deposit stays in the vault or leaves it as a whole.
LEMMA EndingCovers ==
  ASSUME ContractInv, NEW u \in Markets, VaultCovers(u),
         NEW j \in Jobs, Contract!Ends(j),
         \/ tokens' = tokens
         \/ /\ JobPhases[j] # "none"
            /\ \E a \in TokenAccounts : Contract!Refund(j, a)
  PROVE  VaultCovers(u)'
<1>. DEFINE w == JobVaults[j]
            old == JobDeposits[j]
<1>1. /\ tokens \in [TokenAccounts -> Nat] /\ old \in Nat /\ None \notin Markets
      /\ JobVaults' = [JobVaults EXCEPT ![j] = None]
      /\ JobDeposits' = [JobDeposits EXCEPT ![j] = 0]
      /\ \A v \in Markets : DepositIn(v, j) = IF w = v THEN old ELSE 0
  BY DealsTyped, NoneAssumption DEF DepositIn, Contract!Ends
<1>2. \A v \in Markets : /\ tokens'[v] \in Int /\ tokens[v] \in Nat
                         /\ tokens'[v] >= tokens[v] - DepositIn(v, j)
  <2>1. CASE tokens' = tokens
    BY <1>1, <2>1, VaultIsNoWallet
  <2>2. ASSUME NEW a \in TokenAccounts, Contract!Refund(j, a),
               JobPhases[j] # "none"
        PROVE  \A v \in Markets : /\ tokens'[v] \in Int /\ tokens[v] \in Nat
                                  /\ tokens'[v] >= tokens[v] - DepositIn(v, j)
    <3>1. tokens' = Contract!Pay(tokens, w, a, old) /\ w \in Markets
      BY <2>2, DealsTyped DEF Contract!Refund
    <3>. HIDE DEF w, old
    <3>2. /\ tokens' \in [TokenAccounts -> Int] /\ tokens'[w] >= tokens[w] - old
          /\ \A v \in TokenAccounts \ {w} :
               tokens'[v] = IF v = a THEN tokens[v] + old ELSE tokens[v]
      <4>1. tokens \in [TokenAccounts -> Int] /\ w \in TokenAccounts
        BY <1>1, <3>1, VaultIsNoWallet
      <4>2. old \in Nat
        BY <1>1
      <4>. QED  BY <3>1, <4>1, <4>2, PaymentMoves
    <3>3. ASSUME NEW v \in Markets
          PROVE  /\ tokens'[v] \in Int /\ tokens[v] \in Nat
                 /\ tokens'[v] >= tokens[v] - DepositIn(v, j)
      <4>1. v \in TokenAccounts /\ tokens[v] \in Nat
        BY <1>1, VaultIsNoWallet
      <4>. QED  BY <1>1, <3>2, <4>1
    <3>. QED  BY <3>3
  <2>. QED  BY <2>1, <2>2
<1>. HIDE DEF w, old
<1>3. \A v \in Markets :
        /\ tokens'[v] \in Int
        /\ tokens'[v] - tokens[v] >= (IF None = v THEN 0 ELSE 0) - DepositIn(v, j)
  BY <1>1, <1>2
<1>. QED  BY <1>1, <1>3, OneDealChanges

LEMMA SettleCovers ==
  ASSUME ContractInv, NEW u \in Markets, VaultCovers(u),
         NEW j \in Jobs, Contract!Settle(j)
  PROVE  VaultCovers(u)'
<1>. DEFINE w == JobVaults[j]
            p == JobPayers[j]
            old == JobDeposits[j]
<1>1. /\ JobPhases[j] = "running" /\ JobVaults' = JobVaults
      /\ JobDeposits' = [JobDeposits EXCEPT ![j] = 0]
  BY DEF Contract!Settle, Contract!Becomes
<1>2. /\ tokens \in [TokenAccounts -> Nat] /\ old \in Nat
      /\ w \in Markets /\ p \in Users
      /\ JobVaults' = [JobVaults EXCEPT ![j] = w]
      /\ \A v \in Markets : DepositIn(v, j) = IF w = v THEN old ELSE 0
  BY <1>1, DealsTyped DEF DepositIn
<1>3. PICK a \in TokenAccounts, earned \in 0 .. old :
        tokens' = Contract!Pay(Contract!Pay(tokens, w, a, earned), w, p, old - earned)
  BY DEF Contract!Settle, Contract!Accounts, TokenAccounts
<1>. DEFINE once == Contract!Pay(tokens, w, a, earned)
<1>. HIDE DEF w, p, old
<1>4. /\ earned \in Nat /\ old - earned \in Nat
      /\ w \in TokenAccounts /\ p \in TokenAccounts /\ p # w
  BY <1>2, <1>3, VaultIsNoWallet DEF TokenAccounts
<1>5. /\ once \in [TokenAccounts -> Int] /\ once[w] >= tokens[w] - earned
      /\ \A v \in TokenAccounts \ {w} :
           once[v] = IF v = a THEN tokens[v] + earned ELSE tokens[v]
  <2>1. tokens \in [TokenAccounts -> Int]
    BY <1>2
  <2>. QED  BY <1>4, <2>1, PaymentMoves
<1>6. tokens' = Contract!Pay(once, w, p, old - earned)
  BY <1>3
<1>. HIDE DEF once
<1>7. /\ tokens' \in [TokenAccounts -> Int]
      /\ tokens'[w] >= once[w] - (old - earned)
      /\ \A v \in TokenAccounts \ {w} :
           tokens'[v] = IF v = p THEN once[v] + (old - earned) ELSE once[v]
  BY <1>4, <1>5, <1>6, PaymentMoves
<1>8. ASSUME NEW v \in Markets
      PROVE  /\ tokens'[v] \in Int
             /\ tokens'[v] - tokens[v] >= (IF w = v THEN 0 ELSE 0) - DepositIn(v, j)
  <2>1. /\ v \in TokenAccounts /\ tokens[v] \in Nat /\ once[v] \in Int
        /\ tokens'[v] \in Int
    BY <1>2, <1>5, <1>7, VaultIsNoWallet
  <2>2. CASE v = w
    BY <1>2, <1>4, <1>5, <1>7, <2>1, <2>2
  <2>3. CASE v # w
    BY <1>2, <1>4, <1>5, <1>7, <2>1, <2>3
  <2>. QED  BY <2>2, <2>3
<1>. QED  BY <1>1, <1>2, <1>8, OneDealChanges

\* Start, Stop and Lose: the deposit stays where it is.
LEMMA KeepingCovers ==
  ASSUME NEW u, VaultCovers(u),
         JobVaults' = JobVaults, JobDeposits' = JobDeposits, tokens' = tokens
  PROVE  VaultCovers(u)'
BY DEF VaultCovers, DepositsIn, DepositIn

\* Whoever empties the vault of another market adds to this one or does not.
LEMMA CloseVaultCovers ==
  ASSUME ContractInv, NEW u \in Markets, VaultCovers(u),
         NEW v \in Markets, v # u, Contract!CloseVault(v)
  PROVE  VaultCovers(u)'
<1>1. /\ tokens \in [TokenAccounts -> Nat] /\ JobDeposits \in [Jobs -> Nat]
      /\ JobVaults' = JobVaults /\ JobDeposits' = JobDeposits
  BY DealsTyped DEF Contract!CloseVault
<1>2. PICK a \in TokenAccounts : tokens' = Contract!Pay(tokens, v, a, tokens[v])
  BY DEF Contract!CloseVault, Contract!Accounts, TokenAccounts
<1>3. /\ u \in TokenAccounts /\ v \in TokenAccounts
      /\ tokens[u] \in Nat /\ tokens[v] \in Nat
  BY <1>1, VaultIsNoWallet
<1>4. /\ tokens' \in [TokenAccounts -> Int]
      /\ tokens'[u] = IF u = a THEN tokens[u] + tokens[v] ELSE tokens[u]
  BY <1>1, <1>2, <1>3, PaymentMoves
<1>5. DepositsIn(u)' = DepositsIn(u)
  BY <1>1 DEF DepositsIn, DepositIn
<1>6. SumFunctionOnSet(DepositsIn(u), Jobs) \in Nat
  <2>1. \A j \in Jobs : DepositsIn(u)[j] \in Nat
    BY <1>1 DEF DepositsIn, DepositIn
  <2>. QED  BY <2>1, FiniteAssumption, SumIsNat
<1>. QED  BY <1>3, <1>4, <1>5, <1>6 DEF VaultCovers

LEMMA NextCovers ==
  ASSUME ContractInv, [FreshNext]_vars, NEW u \in Markets, VaultCovers(u), IsOpen(u)'
  PROVE  VaultCovers(u)'
<1>1. ASSUME NEW j \in Jobs, \/ SubmitsJob(j) \/ ChangesDeal(j)
                             \/ Contract!Remove(j) \/ Contract!Lose(j)
      PROVE  VaultCovers(u)'
  <2>1. CASE SubmitsJob(j)
    BY <2>1, SubmitCovers DEF SubmitsJob
  <2>2. CASE Contract!Add(j)
    BY <2>2, AddCovers
  <2>3. CASE Contract!Start(j) \/ Contract!Stop(j) \/ Contract!Lose(j)
    <3>1. /\ JobVaults' = JobVaults /\ tokens' = tokens
          /\ JobDeposits' = [JobDeposits EXCEPT ![j] = JobDeposits[j]]
      BY <2>3 DEF Contract!Start, Contract!Stop, Contract!Lose, Contract!Becomes
    <3>2. JobDeposits' = JobDeposits
      BY <3>1, DealsTyped
    <3>. QED  BY <3>1, <3>2, KeepingCovers
  <2>4. CASE Contract!Withdraw(j)
    <3>1. /\ JobPhases[j] = "waiting" /\ Contract!Ends(j)
          /\ Contract!Refund(j, JobPayers[j])
      BY <2>4 DEF Contract!Withdraw
    <3>2. JobPayers[j] \in TokenAccounts
      BY <3>1, DealsTyped DEF TokenAccounts
    <3>. QED  BY <3>1, <3>2, EndingCovers
  <2>5. CASE Contract!Recover(j)
    BY <2>5, EndingCovers DEF Contract!Recover, Contract!Accounts, TokenAccounts
  <2>6. CASE Contract!Settle(j)
    BY <2>6, SettleCovers
  <2>7. CASE Contract!Forget(j) \/ Contract!Remove(j)
    BY <2>7, EndingCovers DEF Contract!Forget, Contract!Remove
  <2>. QED  BY <1>1, <2>1, <2>2, <2>3, <2>4, <2>5, <2>6, <2>7 DEF ChangesDeal
<1>2. ASSUME NEW v \in Markets, ClosesVault(v) PROVE VaultCovers(u)'
  BY <1>2, CloseVaultCovers DEF ClosesVault
<1>3. CASE UNCHANGED Contract!contractVars
  BY <1>3, KeepingCovers DEF Contract!contractVars
<1>. QED
  BY <1>1, <1>2, <1>3, FreshNextRefines DEF PartiesStep, AdminStep

\* What a market owes is the sum of the deposits the contract has in its vault.
CoversMatch == \A m \in Markets : Covered(m) <=> VaultCovers(m)

LEMMA CoveredVaults == ContractInv => CoversMatch
<1>. SUFFICES ASSUME NEW m \in Markets, ContractInv
              PROVE  Covered(m) <=> VaultCovers(m)
  BY DEF CoversMatch
<1>1. Owed(m) = SumFunctionOnSet(DepositsIn(m), Jobs)
  BY DEF Owed, SumFunction, DepositsIn, DepositIn, JobDeposits, JobVaults
<1>2. tokens[m] \in Nat /\ SumFunctionOnSet(DepositsIn(m), Jobs) \in Nat
  <2>1. \A j \in Jobs : DepositsIn(m)[j] \in Nat
    BY DealsTyped DEF DepositsIn, DepositIn
  <2>. QED  BY <2>1, DealsTyped, VaultIsNoWallet, FiniteAssumption, SumIsNat
<1>. DEFINE sum == SumFunctionOnSet(DepositsIn(m), Jobs)
<1>3. /\ Covered(m) <=> tokens[m] >= sum
      /\ VaultCovers(m) <=> sum <= tokens[m]
  BY <1>1 DEF Covered, VaultCovers
<1>4. tokens[m] \in Nat /\ sum \in Nat
  BY <1>2
<1>. HIDE DEF sum
<1>. QED  BY <1>3, <1>4

LEMMA CoveredVaultsNext == ContractInv' => CoversMatch'
BY CoveredVaults, PTL

\* Once the vault of a market covers the deposits of the unsettled jobs that
\* name it, and it does when the market is opened over none, it covers them until
\* the market is closed, whatever the parties and the admin do.
THEOREM MarketsStaySolvent == SpecFresh => StaysSolvent
<1>1. ContractInv /\ ContractInv' /\ [FreshNext]_vars =>
        [\A m \in Markets : Covered(m) /\ IsOpen(m)' => Covered(m)']_vars
  BY NextCovers, CoveredVaults, CoveredVaultsNext DEF CoversMatch
<1>. QED  BY <1>1, ContractInvHolds, PTL DEF SpecFresh, StaysSolvent

\* What the guards of ReturnDeposit and Settle ask of a job and of its vault.
DepositIsPayable(j) ==
  /\ HasDeposit(job[j].timeout)
  /\ tokens[job[j].market] >= job[j].price * job[j].timeout

LEMMA OwedDepositIsPayable ==
  ASSUME ContractInv, NEW j \in Jobs, Covered(job[j].market),
         job[j].state \in {"queued", "stopped"}, job[j].price > 0
  PROVE  DepositIsPayable(j)
<1>. DEFINE m == job[j].market
            f == DepositsIn(m)
<1>1. /\ m \in Markets /\ IsFiniteSet(Jobs)
      /\ job[j].timeout \in Int /\ job[j].timeout >= 0 /\ HasDeposit(job[j].timeout)
  <2>1. job[j] \in JobType /\ Exists(j) /\ IInv
    BY DEF ContractInv, IInv, TypeOK, Exists
  <2>2. job[j].timeout \in Int /\ job[j].price \in Nat
    BY <2>1 DEF JobType
  <2>3. m \in Markets
    BY <2>1 DEF IInv, JobsComplete
  <2>4. HasDeposit(job[j].timeout)
    BY <2>1, <2>2 DEF ContractInv, PaidJobsHaveDeposit
  <2>. QED  BY <2>2, <2>3, <2>4, FiniteAssumption DEF HasDeposit
<1>2. f[j] = job[j].price * job[j].timeout
  <2>1. Escrow(j) = job[j].price * job[j].timeout
    BY <1>1 DEF Escrow
  <2>2. JobDeposits[j] = Escrow(j) /\ JobVaults[j] = m
    BY DEF JobDeposits, JobVaults
  <2>. QED  BY <2>1, <2>2 DEF DepositsIn, DepositIn
<1>3. \A i \in Jobs : f[i] \in Nat
  BY DealsTyped DEF DepositsIn, DepositIn
<1>4. SumFunctionOnSet(f, Jobs) <= tokens[m] /\ tokens[m] \in Nat
  BY <1>1, DealsTyped, VaultIsNoWallet, CoveredVaults DEF CoversMatch, VaultCovers
<1>. HIDE DEF f
<1>5. f[j] <= SumFunctionOnSet(f, Jobs) /\ SumFunctionOnSet(f, Jobs) \in Nat
  BY <1>1, <1>3, SumBounds, SumIsNat
<1>6. f[j] <= tokens[m]
  BY <1>3, <1>4, <1>5
<1>. QED  BY <1>1, <1>2, <1>6 DEF DepositIsPayable

\* As long as the market of a paid job that is queued or stopped is covered,
\* neither the conversion of the timeout nor the balance of the vault can
\* reject a Delist, Recover, End or Finish of that job: with MarketsStaySolvent,
\* from the opening of a market without old jobs to its closing.
THEOREM DepositsArePayable ==
  SpecFresh => [](\A j \in Jobs :
                    /\ job[j].state \in {"queued", "stopped"}
                    /\ Covered(job[j].market) /\ job[j].price > 0
                    => DepositIsPayable(j))
<1>1. ContractInv =>
        \A j \in Jobs :
          /\ job[j].state \in {"queued", "stopped"}
          /\ Covered(job[j].market) /\ job[j].price > 0
          => DepositIsPayable(j)
  BY OwedDepositIsPayable
<1>. QED  BY <1>1, ContractInvHolds, PTL
=============================================================================
