----------------------------- MODULE NosanaJobs -----------------------------
(***************************************************************************)
(* The nosana-jobs program: markets that match jobs to nodes through one   *)
(* queue, runs that bind a job to a node, and a token vault per market     *)
(* that holds the deposit of every job until it is settled.                *)
(*                                                                         *)
(* Every instruction is one atomic transaction: an error, a failed         *)
(* constraint or a panic (overflow checks are on) leaves the state as it   *)
(* was, so each of them is a guard.  Accounts are functions from addresses *)
(* to records.  The address of a closed account can be used again, for     *)
(* markets, jobs and runs alike.  Rent (lamports) is not modelled, the NOS *)
(* tokens are.                                                             *)
(***************************************************************************)
EXTENDS Integers, FiniteSets, SequencesExt

CONSTANTS
  Markets,       \* addresses of market accounts; the vault of m is named m
  Jobs,          \* addresses of job accounts
  Runs,          \* addresses of run accounts
  Users,         \* wallets: projects, payers, nodes, market authorities
  Nodes,         \* the users that work
  Projects,      \* the users that list jobs
  Payers,        \* the users that pay for jobs
  Authorities,   \* the users that open markets
  MarketAdmin,   \* id::MARKET_ADMIN
  Keys,          \* NFT collections
  SystemKey,     \* id::SYSTEM_PROGRAM used as an access key
  Holds,         \* Holds[u]: the collections user u holds an NFT of
  Xnos,          \* Xnos[u]: the xnos score of u's stake account
  Terms,         \* what a market can be opened with or updated to
  Timeouts,      \* timeouts a job can be listed with or extended to
  Funds,         \* Funds[u]: tokens in u's wallet at the start
  QueueCapacity, \* how many keys fit in a market account
  MaxTime,       \* bound on the clock
  None           \* an account that does not exist, a key that is not set

ASSUME UsersAssumption ==
  /\ Nodes \subseteq Users /\ Projects \subseteq Users
  /\ Payers \subseteq Users /\ Authorities \subseteq Users
  /\ Users \cap Markets = {} /\ Users \cap Jobs = {}

ASSUME FiniteAssumption ==
  IsFiniteSet(Users) /\ IsFiniteSet(Markets) /\ IsFiniteSet(Jobs)

ASSUME KeysAssumption ==
  /\ SystemKey \notin Keys
  /\ Holds \in [Users -> SUBSET Keys]
  /\ Xnos \in [Users -> Nat]

ASSUME TermsAssumption ==
  Terms \subseteq [price: Nat, expiration: Int, jobType: 0 .. 255,
                   accessKey: Keys \cup {SystemKey}, xnosMinimum: Nat]

ASSUME BoundsAssumption ==
  /\ Timeouts \subseteq Int
  /\ Funds \in [Users -> Nat]
  /\ QueueCapacity \in Nat
  /\ MaxTime \in Nat

ASSUME NoneAssumption ==
  /\ None \notin Markets /\ None \notin Jobs /\ None \notin Users
  /\ None \notin Keys /\ None # SystemKey

VARIABLES
  market,    \* MarketAccount of each market address
  settings,  \* project access key of each market's settings PDA, or None
  job,       \* JobAccount of each job address
  run,       \* RunAccount of each run address
  tokens,    \* NOS balance of each wallet and of each market vault
  now        \* Clock::unix_timestamp

vars == <<market, settings, job, run, tokens, now>>

-----------------------------------------------------------------------------
(* Accounts *)

TokenAccounts == Users \cup Markets

QueueTypes == {"job", "node", "empty"}

NoTerms == [price |-> 0, expiration |-> 0, jobType |-> 0,
            accessKey |-> SystemKey, xnosMinimum |-> 0]

NoMarket == [status |-> "unused", authority |-> None, terms |-> NoTerms,
             queueType |-> "empty", queue |-> <<>>]

NoJob == [state |-> "unused", market |-> None, payer |-> None,
          project |-> None, node |-> None, price |-> 0, timeout |-> 0,
          timeStart |-> 0, timeEnd |-> 0, result |-> FALSE]

NoRun == [job |-> None, node |-> None, time |-> 0]

IsOpen(m) == market[m].status = "open"
Exists(j) == job[j].state # "unused"
IsLive(r) == run[r] # NoRun

-----------------------------------------------------------------------------
(* MarketAccount: the byte job_type, whose high bit is the restricted flag *)

RESTRICTED == 128

JobTypes == 0 .. 4
UnknownType == RESTRICTED - 1

\* Faulty variant: an unknown type sets all bits.
JobTypeAllBits(byte) ==
  IF byte % RESTRICTED \in JobTypes THEN byte % RESTRICTED ELSE 255

\* JobType::from: the low bits, when they are a type.
JobTypeFrom(byte) ==
  IF byte % RESTRICTED \in JobTypes THEN byte % RESTRICTED ELSE UnknownType

IsRestricted(mk) == mk.terms.jobType >= RESTRICTED

\* Faulty variant: the byte is compared with its flag.
HasPlainType(mk) == mk.terms.jobType \in JobTypes

HasKnownType(mk) == JobTypeFrom(mk.terms.jobType) # UnknownType

\* byte | RESTRICTED and byte & !RESTRICTED.
WithFlag(byte, restricted) ==
  (byte % RESTRICTED) + (IF restricted THEN RESTRICTED ELSE 0)

\* Faulty variant: the flag is overwritten with the type.
UpdatedTypeAlone(mk, byte) == JobTypeFrom(byte)

\* (job_type & RESTRICTED) | JobType::from(byte): an update keeps the flag.
UpdatedType(mk, byte) ==
  IF IsRestricted(mk) THEN WithFlag(JobTypeFrom(byte), TRUE) ELSE JobTypeFrom(byte)

-----------------------------------------------------------------------------
(* MarketAccount: the queue *)

\* Faulty variant: a full queue drops the key and reports no error.
AddWhenRoom(mk, key, type) ==
  IF ~ HasKnownType(mk) \/ Len(mk.queue) >= QueueCapacity
  THEN mk
  ELSE [mk EXCEPT !.queueType = IF @ = "empty" THEN type ELSE @,
                  !.queue = Append(@, key)]

\* A market of unknown job type accepts the key and does not queue it.
AddToQueue(mk, key, type) ==
  IF ~ HasKnownType(mk)
  THEN mk
  ELSE [mk EXCEPT !.queueType = IF @ = "empty" THEN type ELSE @,
                  !.queue = Append(@, key)]

InQueue(mk, key) == \E i \in DOMAIN mk.queue : mk.queue[i] = key

\* The index find_in_queue returns: the first one.
Position(q, key) ==
  CHOOSE i \in DOMAIN q : q[i] = key /\ \A k \in 1 .. i - 1 : q[k] # key

\* Faulty variant: the type is left as it was when the last key leaves.
WithQueueStale(mk, q) == [mk EXCEPT !.queue = q]

WithQueue(mk, q) ==
  [mk EXCEPT !.queue = q,
             !.queueType = IF q = <<>> THEN "empty" ELSE @]

\* Faulty variant: Vec::swap_remove in place of Vec::remove.
RemoveSwapping(mk, key) ==
  WithQueue(mk, Front(ReplaceAt(mk.queue, Position(mk.queue, key),
                                Last(mk.queue))))

RemoveFromQueue(mk, key) ==
  WithQueue(mk, RemoveAt(mk.queue, Position(mk.queue, key)))

\* Faulty variants: the first key is used and the last one dropped; the type
\* is reset one key too soon.
PopLast(mk) == WithQueue(mk, Front(mk.queue))
PopTooSoon(mk) == [WithQueue(mk, Tail(mk.queue)) EXCEPT
                     !.queueType = IF Len(mk.queue) <= 2 THEN "empty" ELSE @]

PopFromQueue(mk) == WithQueue(mk, Tail(mk.queue))

\* The account is created with a fixed size; a longer queue fails to serialize.
Fits(mk) == Len(mk.queue) <= QueueCapacity

-----------------------------------------------------------------------------
(* Tokens *)

\* A transfer the source cannot cover fails, see the guards.
Move(balances, from, to, amount) ==
  [a \in DOMAIN balances |->
     balances[a] + (IF a = to THEN amount ELSE 0) - (IF a = from THEN amount ELSE 0)]

\* NOS token accounts a caller can name as destination beside the vault of m.
Destinations(m) == (Users \cup {v \in Markets : IsOpen(v)}) \ {m}

\* u64::try_from(timeout).unwrap(): a negative timeout has no deposit.
HasDeposit(timeout) == timeout >= 0

\* Faulty variant: the payer's balance is not checked.
PayUnchecked(payer, m, price, timeout) ==
  tokens' = Move(tokens, payer, m, price * timeout)

\* Faulty variant: a timeout without deposit is taken for one of nothing.
PaySaturating(payer, m, price, timeout) ==
  IF price = 0 \/ ~ HasDeposit(timeout)
  THEN UNCHANGED tokens
  ELSE /\ tokens[payer] >= price * timeout
       /\ tokens' = Move(tokens, payer, m, price * timeout)

\* A free job pays nothing, whatever its timeout.
PayDeposit(payer, m, price, timeout) ==
  IF price = 0
  THEN UNCHANGED tokens
  ELSE /\ HasDeposit(timeout)
       /\ tokens[payer] >= price * timeout
       /\ tokens' = Move(tokens, payer, m, price * timeout)

\* Faulty variant: refund at the price the market asks now.
ReturnAtMarketPrice(j, to) ==
  LET m == job[j].market IN
  /\ HasDeposit(job[j].timeout)
  /\ tokens[m] >= market[m].terms.price * job[j].timeout
  /\ tokens' = Move(tokens, m, to, market[m].terms.price * job[j].timeout)

\* The whole deposit of a job goes back.
ReturnDeposit(j, to) ==
  LET m == job[j].market IN
  /\ HasDeposit(job[j].timeout)
  /\ tokens[m] >= job[j].price * job[j].timeout
  /\ tokens' = Move(tokens, m, to, job[j].price * job[j].timeout)

\* Faulty variant: the node is paid for the whole timeout.
ReimburseInFull(price, timeout, start, end) == price * timeout

\* The part of the deposit of a job the node has earned.
Reimbursement(price, timeout, start, end) ==
  price * Min({end - start, timeout})

\* Pay the node what it earned and the payer what is left of the deposit.
Settle(j, start, user) ==
  LET b      == job[j]
      total  == b.price * b.timeout
      amount == Reimbursement(b.price, b.timeout, start, now)
  IN  IF b.price = 0
      THEN UNCHANGED tokens
      ELSE /\ HasDeposit(b.timeout)
           /\ tokens[b.market] >= total
           /\ tokens' = Move(Move(tokens, b.market, user, amount),
                             b.market, b.payer, total - amount)

-----------------------------------------------------------------------------
Init ==
  /\ market = [m \in Markets |-> NoMarket]
  /\ settings = [m \in Markets |-> None]
  /\ job = [j \in Jobs |-> NoJob]
  /\ run = [r \in Runs |-> NoRun]
  /\ tokens = [a \in TokenAccounts |-> IF a \in Users THEN Funds[a] ELSE 0]
  /\ now = 0

\* The clock: unix_timestamp never decreases.
Tick ==
  /\ now < MaxTime
  /\ now' = now + 1
  /\ UNCHANGED <<market, settings, job, run, tokens>>

-----------------------------------------------------------------------------
(* Instructions of the market authority *)

Open(m, authority, terms) ==
  /\ market[m] = NoMarket
  /\ market' = [market EXCEPT ![m] = [NoMarket EXCEPT !.status = "open",
                                                      !.authority = authority,
                                                      !.terms = terms,
                            !.terms.jobType = JobTypeFrom(terms.jobType)]]
  /\ UNCHANGED <<settings, job, run, tokens, now>>

Update(m, authority, terms) ==
  /\ IsOpen(m)
  /\ market[m].authority = authority
  /\ market' = [market EXCEPT
                   ![m].terms = terms,
                   ![m].terms.jobType = UpdatedType(market[m], terms.jobType)]
  /\ UNCHANGED <<settings, job, run, tokens, now>>

\* Creates the settings PDA if needed and marks the market as restricted.
SetSettings(m, authority, key) ==
  /\ IsOpen(m)
  /\ market[m].authority = authority
  /\ market' = [market EXCEPT ![m].terms.jobType = WithFlag(@, TRUE)]
  /\ settings' = [settings EXCEPT ![m] = key]
  /\ UNCHANGED <<job, run, tokens, now>>

CloseSettings(m, authority) ==
  /\ IsOpen(m)
  /\ market[m].authority = authority
  /\ settings[m] # None
  /\ market' = [market EXCEPT ![m].terms.jobType = WithFlag(@, FALSE)]
  /\ settings' = [settings EXCEPT ![m] = None]
  /\ UNCHANGED <<job, run, tokens, now>>

\* Faulty variant: a restricted market can be closed without its settings.
CloseWithoutSettings(m, user, supplied) ==
  /\ IsOpen(m)
  /\ tokens' = Move(tokens, m, user, tokens[m])
  /\ market' = [market EXCEPT ![m] = NoMarket]
  /\ settings' = IF supplied THEN [settings EXCEPT ![m] = None] ELSE settings
  /\ UNCHANGED <<job, run, now>>

\* The whole vault goes to user, whatever jobs it still backs.  The settings
\* PDA is an optional account: it is closed only when the caller supplies it.
CloseMarket(m, user, supplied) ==
  /\ IsOpen(m)
  /\ IsRestricted(market[m]) => supplied
  /\ tokens' = Move(tokens, m, user, tokens[m])
  /\ market' = [market EXCEPT ![m] = NoMarket]
  /\ settings' = IF supplied THEN [settings EXCEPT ![m] = None] ELSE settings
  /\ UNCHANGED <<job, run, now>>

Close(m, authority, user, supplied) ==
  /\ market[m].authority = authority
  /\ CloseMarket(m, user, supplied)

CloseAdmin(m, signer, user, supplied) ==
  /\ signer = MarketAdmin
  /\ CloseMarket(m, user, supplied)

-----------------------------------------------------------------------------
(* Instructions of projects *)

\* A restricted market admits holders of its project access key, and nobody
\* while that key is the system program.
Admits(m, project) ==
  IsRestricted(market[m]) =>
    /\ settings[m] \in Keys
    /\ settings[m] \in Holds[project]

NewJob(m, payer, project, timeout) ==
  [NoJob EXCEPT !.state = "queued", !.market = m, !.payer = payer,
                !.project = project, !.price = market[m].terms.price,
                !.timeout = timeout]

\* RunAccount::initialize and RunAccount::create on an unused address.
StartRun(r, j, node) ==
  /\ ~ IsLive(r)
  /\ run' = [run EXCEPT ![r] = [job |-> j, node |-> node, time |-> now]]

\* With no node waiting the job is queued, else the first node runs it.
List(j, m, payer, project, timeout, r) ==
  /\ job[j] = NoJob
  /\ IsOpen(m)
  /\ Admits(m, project)
  /\ \/ /\ market[m].queueType \in {"job", "empty"}
        /\ market' = [market EXCEPT ![m] = AddToQueue(@, j, "job")]
        /\ Fits(market'[m])
        /\ UNCHANGED run
     \/ /\ market[m].queueType = "node"
        /\ StartRun(r, j, Head(market[m].queue))
        /\ market' = [market EXCEPT ![m] = PopFromQueue(@)]
  /\ job' = [job EXCEPT ![j] = NewJob(m, payer, project, timeout)]
  /\ PayDeposit(payer, m, market[m].terms.price, timeout)
  /\ UNCHANGED <<settings, now>>

\* The project picks any waiting node.
Assign(j, m, payer, project, timeout, r, node) ==
  /\ job[j] = NoJob
  /\ IsOpen(m)
  /\ market[m].queueType = "node"
  /\ Admits(m, project)
  /\ InQueue(market[m], node)
  /\ StartRun(r, j, node)
  /\ market' = [market EXCEPT ![m] = RemoveFromQueue(@, node)]
  /\ job' = [job EXCEPT ![j] = NewJob(m, payer, project, timeout)]
  /\ PayDeposit(payer, m, market[m].terms.price, timeout)
  /\ UNCHANGED <<settings, now>>

\* Take a job that waits back out of the queue, with a full refund.
Delist(j, project) ==
  LET m == job[j].market IN
  /\ job[j].state = "queued"
  /\ job[j].project = project
  /\ IsOpen(m)
  /\ market[m].queueType = "job"
  /\ InQueue(market[m], j)
  /\ market' = [market EXCEPT ![m] = RemoveFromQueue(@, j)]
  /\ IF job[j].price = 0
     THEN UNCHANGED tokens
     ELSE ReturnDeposit(j, job[j].payer)
  /\ job' = [job EXCEPT ![j] = NoJob]
  /\ UNCHANGED <<settings, run, now>>

\* Faulty variant: the state of the job is not looked at.
RecoverAny(j, project, user) ==
  LET m == job[j].market IN
  /\ Exists(j)
  /\ job[j].project = project
  /\ IsOpen(m)
  /\ user \in Destinations(m)
  /\ ReturnDeposit(j, user)
  /\ job' = [job EXCEPT ![j] = NoJob]
  /\ UNCHANGED <<market, settings, run, now>>

\* Get the deposit of a quit job back, to any token account.
Recover(j, project, user) ==
  LET m == job[j].market IN
  /\ job[j].state = "stopped"
  /\ job[j].project = project
  /\ IsOpen(m)
  /\ user \in Destinations(m)
  /\ ReturnDeposit(j, user)
  /\ job' = [job EXCEPT ![j] = NoJob]
  /\ UNCHANGED <<market, settings, run, now>>

\* The payer pays for the added time, at the price the job was listed at.
Extend(j, project, payer, timeout) ==
  /\ job[j].state = "queued"
  /\ job[j].project = project
  /\ job[j].price = 0 \/ job[j].payer = payer
  /\ IsOpen(job[j].market)
  /\ timeout > job[j].timeout
  /\ job' = [job EXCEPT ![j].timeout = timeout]
  /\ PayDeposit(payer, job[j].market, job[j].price, timeout - job[j].timeout)
  /\ UNCHANGED <<market, settings, run, now>>

\* Faulty variant: the run is not closed, the next End settles again.
EndKeepingRun(j, project, r) ==
  /\ Exists(j)
  /\ job[j].project = project
  /\ IsOpen(job[j].market)
  /\ run[r].job = j
  /\ job' = [job EXCEPT ![j].state = "done",
                        ![j].timeStart = run[r].time,
                        ![j].timeEnd = now,
                        ![j].node = run[r].node]
  /\ UNCHANGED run
  /\ Settle(j, run[r].time, run[r].node)
  /\ UNCHANGED <<market, settings, now>>

\* The project ends a run.  The state of the job is not looked at.
End(j, project, r) ==
  /\ Exists(j)
  /\ job[j].project = project
  /\ IsOpen(job[j].market)
  /\ run[r].job = j
  /\ job' = [job EXCEPT ![j].state = "done",
                        ![j].timeStart = run[r].time,
                        ![j].timeEnd = now,
                        ![j].node = run[r].node]
  /\ run' = [run EXCEPT ![r] = NoRun]
  /\ Settle(j, run[r].time, run[r].node)
  /\ UNCHANGED <<market, settings, now>>

-----------------------------------------------------------------------------
(* Instructions of nodes *)

NodeMayEnter(m, node) ==
  /\ market[m].queueType # "job" => ~ InQueue(market[m], node)
  /\ Xnos[node] >= market[m].terms.xnosMinimum
  /\ \/ market[m].terms.accessKey = SystemKey
     \/ market[m].terms.accessKey \in Holds[node]

\* Run the job at the head of the queue, or wait in the queue for one.  That
\* the job account still exists is not checked.
Work(m, node, r) ==
  /\ IsOpen(m)
  /\ NodeMayEnter(m, node)
  /\ \/ /\ market[m].queueType \in {"node", "empty"}
        /\ market' = [market EXCEPT ![m] = AddToQueue(@, node, "node")]
        /\ Fits(market'[m])
        /\ UNCHANGED run
     \/ /\ market[m].queueType = "job"
        /\ StartRun(r, Head(market[m].queue), node)
        /\ market' = [market EXCEPT ![m] = PopFromQueue(@)]
  /\ UNCHANGED <<settings, job, tokens, now>>

\* A node leaves the queue, or the market authority takes it out.
Stop(m, node, signer) ==
  /\ IsOpen(m)
  /\ market[m].queueType = "node"
  /\ signer \in {market[m].authority, node}
  /\ InQueue(market[m], node)
  /\ market' = [market EXCEPT ![m] = RemoveFromQueue(@, node)]
  /\ UNCHANGED <<settings, job, run, tokens, now>>

\* The node posts a result and is paid, to any token account.
Finish(j, r, node, user) ==
  /\ job[j].state = "queued"
  /\ IsOpen(job[j].market)
  /\ run[r].job = j
  /\ run[r].node = node
  /\ user \in Destinations(job[j].market)
  /\ job' = [job EXCEPT ![j].state = "done",
                        ![j].timeStart = run[r].time,
                        ![j].timeEnd = now,
                        ![j].node = node,
                        ![j].result = TRUE]
  /\ run' = [run EXCEPT ![r] = NoRun]
  /\ Settle(j, run[r].time, user)
  /\ UNCHANGED <<market, settings, now>>

\* Faulty variant: the run is closed, the job is not stopped.
QuitRunOnly(j, r, node) ==
  /\ Exists(j)
  /\ run[r].job = j
  /\ run[r].node = node
  /\ run' = [run EXCEPT ![r] = NoRun]
  /\ UNCHANGED <<market, settings, job, tokens, now>>

\* The node gives the job up.  The state of the job is not looked at.
Quit(j, r, node) ==
  /\ Exists(j)
  /\ run[r].job = j
  /\ run[r].node = node
  /\ job' = [job EXCEPT ![j].state = "stopped"]
  /\ run' = [run EXCEPT ![r] = NoRun]
  /\ UNCHANGED <<market, settings, tokens, now>>

\* The node posts the result of a job the project has ended.
Complete(j, node) ==
  /\ job[j].state = "done"
  /\ job[j].node = node
  /\ ~ job[j].result
  /\ job' = [job EXCEPT ![j].result = TRUE]
  /\ UNCHANGED <<market, settings, run, tokens, now>>

-----------------------------------------------------------------------------
(* Instructions of anyone and of the market admin *)

\* The market that says how long a job is kept is any market account.
Clean(j, m) ==
  /\ job[j].state = "done"
  /\ IsOpen(m)
  /\ market[m].terms.expiration < now - job[j].timeEnd
  /\ job' = [job EXCEPT ![j] = NoJob]
  /\ UNCHANGED <<market, settings, run, tokens, now>>

\* Any job in any state; its deposit stays in the vault.
CleanAdmin(j, signer) ==
  /\ signer = MarketAdmin
  /\ Exists(j)
  /\ job' = [job EXCEPT ![j] = NoJob]
  /\ UNCHANGED <<market, settings, run, tokens, now>>

\* Any run; its job is left as it is.
QuitAdmin(r, signer) ==
  /\ signer = MarketAdmin
  /\ IsLive(r)
  /\ run' = [run EXCEPT ![r] = NoRun]
  /\ UNCHANGED <<market, settings, job, tokens, now>>

-----------------------------------------------------------------------------
MarketNext ==
  \E m \in Markets :
    \/ \E a \in Authorities :
         \/ \E t \in Terms : Open(m, a, t) \/ Update(m, a, t)
         \/ \E k \in Keys \cup {SystemKey} : SetSettings(m, a, k)
         \/ CloseSettings(m, a)
         \/ \E u \in Destinations(m), s \in BOOLEAN : Close(m, a, u, s)

CreateNext ==
  \E j \in Jobs, p \in Projects, m \in Markets, payer \in Payers,
     t \in Timeouts, r \in Runs :
    \/ List(j, m, payer, p, t, r)
    \/ \E n \in Nodes : Assign(j, m, payer, p, t, r, n)

DealNext ==
  \E j \in Jobs, p \in Projects :
    \/ Delist(j, p)
    \/ \E u \in TokenAccounts : Recover(j, p, u)
    \/ \E payer \in Payers, t \in Timeouts : Extend(j, p, payer, t)
    \/ \E r \in Runs : End(j, p, r)

ProjectNext == CreateNext \/ DealNext

NodeNext ==
  \E n \in Nodes :
    \/ \E m \in Markets, r \in Runs : Work(m, n, r)
    \/ \E m \in Markets, s \in Nodes \cup Authorities : Stop(m, n, s)
    \/ \E j \in Jobs, r \in Runs :
         \/ \E u \in TokenAccounts : Finish(j, r, n, u)
         \/ Quit(j, r, n)
    \/ \E j \in Jobs : Complete(j, n)

AnyoneNext == \E j \in Jobs, m \in Markets : Clean(j, m)

AdminNext ==
  \/ \E m \in Markets : \E u \in Destinations(m), s \in BOOLEAN :
       CloseAdmin(m, MarketAdmin, u, s)
  \/ \E j \in Jobs : CleanAdmin(j, MarketAdmin)
  \/ \E r \in Runs : QuitAdmin(r, MarketAdmin)

Next == Tick \/ MarketNext \/ ProjectNext \/ NodeNext \/ AnyoneNext \/ AdminNext

Spec == Init /\ [][Next]_vars

\* The queue of a market or a run holds the address of job j.
Mentioned(j) ==
  \/ \E m \in Markets : InQueue(market[m], j)
  \/ \E r \in Runs : run[r].job = j

\* No job is listed at an address that a queue or a run still mentions.
FreshList(j, m, payer, p, t, r) ==
  /\ ~ Mentioned(j)
  /\ List(j, m, payer, p, t, r)

FreshAssign(j, m, payer, p, t, r, n) ==
  /\ ~ Mentioned(j)
  /\ Assign(j, m, payer, p, t, r, n)

FreshCreateNext ==
  \E j \in Jobs, p \in Projects, m \in Markets, payer \in Payers,
     t \in Timeouts, r \in Runs :
    \/ FreshList(j, m, payer, p, t, r)
    \/ \E n \in Nodes : FreshAssign(j, m, payer, p, t, r, n)

FreshProjectNext == FreshCreateNext \/ DealNext

FreshNext ==
  Tick \/ MarketNext \/ FreshProjectNext \/ NodeNext \/ AnyoneNext \/ AdminNext

\* The program with clients that respect this.  A mentioned job without account
\* is what CleanAdmin leaves of a job that waits or runs, and nothing else: the
\* program without the admin has no other steps (MentionedJobsExist).
SpecFresh == Init /\ [][FreshNext]_vars

\* The same program while the market admin does not intervene.
NextNoAdmin == Tick \/ MarketNext \/ ProjectNext \/ NodeNext \/ AnyoneNext

SpecNoAdmin == Init /\ [][NextNoAdmin]_vars

\* Nodes keep working on every market and give up what they do not finish;
\* projects recover the deposits of what was given up.  Nothing else is fair:
\* payers, authorities and the clock may stop.
Fairness ==
  /\ \A m \in Markets : WF_vars(\E n \in Nodes, r \in Runs : Work(m, n, r))
  /\ \A r \in Runs : WF_vars(\E j \in Jobs, n \in Nodes : Quit(j, r, n))
  /\ \A j \in Jobs :
       WF_vars(\E p \in Projects, u \in TokenAccounts : Recover(j, p, u))

FairSpec == SpecNoAdmin /\ Fairness

-----------------------------------------------------------------------------
(* Safety *)

TermsType == [price: Nat, expiration: Int, jobType: 0 .. 255,
              accessKey: Keys \cup {SystemKey}, xnosMinimum: Nat]

MarketType == [status: {"unused", "open"},
               authority: Users \cup {None},
               terms: TermsType,
               queueType: QueueTypes,
               queue: Seq(Jobs \cup Nodes)]

JobType == [state: {"unused", "queued", "done", "stopped"},
            market: Markets \cup {None},
            payer: Users \cup {None},
            project: Users \cup {None},
            node: Nodes \cup {None},
            price: Nat, timeout: Int, timeStart: Nat, timeEnd: Nat,
            result: BOOLEAN]

RunType == [job: Jobs \cup {None}, node: Nodes \cup {None}, time: Nat]

\* Every account has the shape the program declares, balances are naturals.
TypeOK ==
  /\ market \in [Markets -> MarketType]
  /\ settings \in [Markets -> Keys \cup {SystemKey, None}]
  /\ job \in [Jobs -> JobType]
  /\ run \in [Runs -> RunType]
  /\ tokens \in [TokenAccounts -> Nat]
  /\ now \in Nat

WellFormedQueue(mk) ==
  /\ mk.queueType = "empty" <=> mk.queue = <<>>
  /\ mk.queueType = "job" => \A i \in DOMAIN mk.queue : mk.queue[i] \in Jobs
  /\ mk.queueType = "node" => \A i \in DOMAIN mk.queue : mk.queue[i] \in Nodes
  /\ IsInjective(mk.queue)

\* The queue type always tells what the queue holds (job keys, node keys or
\* nothing) and no key waits twice, through every List, Work, Assign, Delist
\* and Stop: the handlers look at the type only and pop without checking.
QueueConsistent == \A m \in Markets : WellFormedQueue(market[m])

\* A job has at most one run.
OneRunPerJob ==
  \A r1, r2 \in Runs : IsLive(r1) /\ run[r1].job = run[r2].job => r1 = r2

\* A job that runs is neither waiting nor settled.  End and Quit rely on this:
\* they do not look at the state of the job they pay for or stop.
RunningJobNotSettled ==
  \A r \in Runs : IsLive(r) =>
    /\ run[r].job \in Jobs
    /\ run[r].node \in Nodes
    /\ job[run[r].job].state \in {"queued", "unused"}
    /\ \A m \in Markets : ~ InQueue(market[m], run[r].job)

\* A job that waits is queued in its own market and nowhere else, unless the
\* market admin has removed its account.
WaitingJobQueued ==
  \A m \in Markets, j \in Jobs : InQueue(market[m], j) =>
    /\ job[j].state \in {"queued", "unused"}
    /\ job[j].state = "queued" => job[j].market = m
    /\ \A m2 \in Markets : InQueue(market[m2], j) => m2 = m

\* No job is ever handed to two nodes, waits while it runs, or can be settled
\* a second time.
SingleAssignment == OneRunPerJob /\ RunningJobNotSettled /\ WaitingJobQueued

\* What the vault of its market owes a job: the whole deposit until it is
\* settled, recovered or delisted.
Escrow(j) ==
  IF job[j].state \in {"queued", "stopped"} /\ job[j].timeout >= 0
  THEN job[j].price * job[j].timeout
  ELSE 0

Owed(m) ==
  SumFunction([j \in Jobs |-> IF job[j].market = m THEN Escrow(j) ELSE 0])

Covered(m) == tokens[m] >= Owed(m)

\* The restricted flag and the settings account, kept in two accounts and
\* written by four instructions, agree; a closed market leaves no settings.
RestrictedIffSettings ==
  \A m \in Markets : IsRestricted(market[m]) <=> settings[m] # None

\* Without the market admin, what waits or runs is a job that is queued: Work
\* starts the key at the head of the queue without loading the job account.
MentionedJobsExist == \A j \in Jobs : Mentioned(j) => job[j].state = "queued"

\* A job account that exists names a market and a payer.
JobsComplete ==
  \A j \in Jobs : Exists(j) => job[j].market \in Markets /\ job[j].payer \in Users

\* No run was started later than now: the time a node is paid for is not negative.
RunsInThePast == \A r \in Runs : run[r].time <= now

\* The inductive invariant.
IInv ==
  /\ TypeOK
  /\ JobsComplete
  /\ RunsInThePast
  /\ QueueConsistent
  /\ SingleAssignment

-----------------------------------------------------------------------------
(* What a step may do *)

\* The keys of q that are still in next stand there in the same order, and
\* a key that was not in q stands behind all of them.
KeepsOrder(q, next) ==
  /\ \A i, k \in DOMAIN q, a, b \in DOMAIN next :
       i < k /\ next[a] = q[i] /\ next[b] = q[k] => a < b
  /\ \A a \in DOMAIN next : next[a] \in Range(q) \/ a = Len(next)

\* A job that waited and now runs was the first of its queue.
StartsInTurn(m) ==
  \A j \in Jobs, r \in Runs :
    InQueue(market[m], j) /\ run'[r].job = j => j = Head(market[m].queue)

\* Keys join a queue at the back, those that stay keep their order, and a
\* waiting job starts only from the front: nobody is overtaken.
FirstComeFirstServed ==
  [][\A m \in Markets :
       KeepsOrder(market[m].queue, market'[m].queue) /\ StartsInTurn(m)]_vars

Started(j) == {r \in Runs : run[r].job = j}

\* The vault pays out exactly the deposit, and the payer gets back at least
\* all that the node did not earn in the time the run took.
PaidByTheClock(j, r) ==
  LET b      == job[j]
      total  == b.price * b.timeout
      ran    == now - run[r].time
      refund == tokens'[b.payer] - tokens[b.payer]
  IN  /\ tokens'[b.market] = tokens[b.market] - total
      /\ b.price # 0 => total - b.price * ran <= refund /\ refund <= total

\* A job that becomes done was running and waiting for its settlement, and
\* Finish or End divided its deposit by the time its run took.
SettledByTheClock ==
  [][\A j \in Jobs : job[j].state # "done" /\ job'[j].state = "done" =>
       /\ job[j].state = "queued"
       /\ \E r \in Started(j) : run'[r] = NoRun /\ PaidByTheClock(j, r)]_vars

\* A market opened while nothing is owed to jobs of its address covers the
\* deposits of all its unsettled jobs until it is closed, through price updates,
\* extensions, early ends and admin interventions: Delist, Recover, End and
\* Finish never fail for want of tokens.  A market that is closed over unsettled
\* jobs and opened again at the same address is not covered.
StaysSolvent ==
  [][\A m \in Markets : Covered(m) /\ IsOpen(m)' => Covered(m)']_vars

\* A node works on the job or will be offered it.
Reachable(j) ==
  \/ InQueue(market[job[j].market], j)
  \/ \E r \in Runs : run[r].job = j

ListedOnUnknownType(j) ==
  /\ ~ Exists(j)
  /\ market[job'[j].market].terms.jobType % RESTRICTED \notin JobTypes

\* While its market stays open a queued job stays in reach, and a new job is in
\* reach unless it is listed on a market of unknown type.
StaysReachable ==
  [][\A j \in Jobs :
       /\ job[j].state = "queued" => Reachable(j)
       /\ job'[j].state = "queued" /\ market'[job'[j].market].status = "open"
       => Reachable(j)' \/ ListedOnUnknownType(j)]_vars

-----------------------------------------------------------------------------
(* What the documentation says and the code does not do *)

\* docs/jobs.md: jobExpiration is the expiration time of the jobs of a market,
\* and error 6005 keeps a job that has not expired.  While its own market is
\* open, a done job is then cleaned only once that market's expiration is over.
CleanedAfterExpiration ==
  [][\A j \in Jobs :
       /\ job[j].state = "done" /\ job'[j].state = "unused"
       /\ IsOpen(job[j].market)
       => market[job[j].market].terms.expiration < now - job[j].timeEnd]_vars

-----------------------------------------------------------------------------
(* Liveness *)

\* Nodes that keep working take every waiting job out of the queue: the
\* queue starves no job.
QueuedJobsLeave ==
  \A m \in Markets, j \in Jobs :
    InQueue(market[m], j) ~> ~ InQueue(market[m], j)

StoppedWithDeposit(m, j) ==
  job[j].state = "stopped" /\ job[j].market = m /\ job[j].price # 0

\* A project that keeps asking gets the deposit of a stopped job back, however
\* the other jobs of the market are listed, delisted, settled and recovered
\* from the same vault, as long as the market is not closed.
StoppedJobsRecovered ==
  \A m \in Markets, j \in Jobs :
    StoppedWithDeposit(m, j) /\ Covered(m)
      ~> job[j].state # "stopped" \/ ~ IsOpen(m)
=============================================================================
