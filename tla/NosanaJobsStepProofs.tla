------------------------ MODULE NosanaJobsStepProofs ------------------------
(***************************************************************************)
(* TLAPS proofs of what a step of NosanaJobs may do: nobody is overtaken   *)
(* in a queue, and every settlement follows the clock.                     *)
(***************************************************************************)
EXTENDS NosanaJobsProofs

-----------------------------------------------------------------------------
(* Order: what a push, a pop and a removal leave of it *)

LEMMA SameOrder ==
  ASSUME NEW S, NEW q \in Seq(S), IsInjective(q)
  PROVE  KeepsOrder(q, q)
<1>1. \A i, a \in DOMAIN q : q[a] = q[i] => a = i
  BY DEF IsInjective
<1> QED
  BY <1>1 DEF KeepsOrder, Range

LEMMA EmptyOrder ==
  ASSUME NEW q
  PROVE  KeepsOrder(q, <<>>)
BY DEF KeepsOrder

\* The keys of next come from q by way of an increasing map.
LEMMA OrderMapped ==
  ASSUME NEW S, NEW q \in Seq(S), IsInjective(q), NEW next,
         NEW from, DOMAIN next \subseteq Nat,
         \A a \in DOMAIN next : from[a] \in DOMAIN q /\ next[a] = q[from[a]],
         \A a, b \in DOMAIN next : a <= b => from[a] <= from[b]
  PROVE  KeepsOrder(q, next)
<1>1. ASSUME NEW i \in DOMAIN q, NEW k \in DOMAIN q,
             NEW a \in DOMAIN next, NEW b \in DOMAIN next,
             i < k, next[a] = q[i], next[b] = q[k]
      PROVE  a < b
  <2>1. from[a] = i /\ from[b] = k
    BY <1>1 DEF IsInjective
  <2>2. i \in Nat /\ k \in Nat /\ a \in Nat /\ b \in Nat
    BY <1>1
  <2>3. ~ (b <= a)
    BY <1>1, <2>1, <2>2
  <2> QED
    BY <2>2, <2>3
<1>2. \A a \in DOMAIN next : next[a] \in Range(q)
  BY DEF Range
<1> QED
  BY <1>1, <1>2 DEF KeepsOrder

LEMMA AppendOrder ==
  ASSUME NEW S, NEW q \in Seq(S), NEW x \in S, IsInjective(q),
         \A i \in DOMAIN q : q[i] # x
  PROVE  KeepsOrder(q, Append(q, x))
<1> DEFINE next == Append(q, x)
<1>1. /\ DOMAIN q = 1 .. Len(q) /\ DOMAIN next = 1 .. Len(q) + 1
      /\ Len(next) = Len(q) + 1
      /\ \A i \in 1 .. Len(q) : next[i] = q[i]
      /\ next[Len(q) + 1] = x
      /\ Len(q) \in Nat
  OBVIOUS
<1> HIDE DEF next
<1>2. ASSUME NEW i \in DOMAIN q, NEW a \in DOMAIN next, next[a] = q[i]
      PROVE  a = i
  <2>1. a # Len(q) + 1
    BY <1>1, <1>2
  <2>2. a \in DOMAIN q /\ q[a] = q[i]
    BY <1>1, <1>2, <2>1
  <2> QED
    BY <2>2 DEF IsInjective
<1>3. ASSUME NEW a \in DOMAIN next, a # Len(next)
      PROVE  next[a] \in Range(q)
  <2>1. a \in DOMAIN q /\ next[a] = q[a]
    BY <1>1, <1>3
  <2> QED
    BY <2>1 DEF Range
<1> QED
  BY <1>2, <1>3 DEF KeepsOrder, next

LEMMA TailOrder ==
  ASSUME NEW S, NEW q \in Seq(S), q # <<>>, IsInjective(q)
  PROVE  KeepsOrder(q, Tail(q))
<1> DEFINE from == [a \in 1 .. Len(q) - 1 |-> a + 1]
<1>1. /\ DOMAIN q = 1 .. Len(q) /\ DOMAIN Tail(q) = 1 .. Len(q) - 1
      /\ \A a \in 1 .. Len(q) - 1 : Tail(q)[a] = q[a + 1] /\ a + 1 \in 1 .. Len(q)
  OBVIOUS
<1>2. \A a \in DOMAIN Tail(q) : from[a] \in DOMAIN q /\ Tail(q)[a] = q[from[a]]
  BY <1>1
<1>3. \A a, b \in DOMAIN Tail(q) : a <= b => from[a] <= from[b]
  BY <1>1
<1>4. DOMAIN Tail(q) \subseteq Nat
  BY <1>1
<1> HIDE DEF from
<1> QED
  BY <1>2, <1>3, <1>4, OrderMapped

LEMMA RemoveOrder ==
  ASSUME NEW S, NEW q \in Seq(S), IsInjective(q),
         NEW x, \E i \in DOMAIN q : q[i] = x
  PROVE  KeepsOrder(q, RemoveAt(q, Position(q, x)))
<1> DEFINE n == Position(q, x)
           p == RemoveAt(q, n)
           from == [a \in 1 .. Len(q) - 1 |-> IF a < n THEN a ELSE a + 1]
<1>1. /\ n \in 1 .. Len(q) /\ DOMAIN p = 1 .. Len(q) - 1
      /\ \A a \in 1 .. Len(q) - 1 : p[a] = IF a < n THEN q[a] ELSE q[a + 1]
  BY RemoveIndices
<1>2. DOMAIN q = 1 .. Len(q) /\ Len(q) \in Nat
  OBVIOUS
<1> HIDE DEF n, p
<1>3. \A a \in DOMAIN p : from[a] \in DOMAIN q /\ p[a] = q[from[a]]
  BY <1>1, <1>2
<1>4. \A a, b \in DOMAIN p : a <= b => from[a] <= from[b]
  BY <1>1
<1>5. DOMAIN p \subseteq Nat
  BY <1>1
<1> HIDE DEF from
<1>6. KeepsOrder(q, p)
  BY <1>3, <1>4, <1>5, OrderMapped
<1> QED
  BY <1>6 DEF p, n

-----------------------------------------------------------------------------
(* Order: what the queue operations of a market leave of it *)

LEMMA AddOrder ==
  ASSUME NEW mk \in MarketType, WellFormedQueue(mk), NEW type,
         NEW key \in Jobs \cup Nodes, ~ InQueue(mk, key)
  PROVE  KeepsOrder(mk.queue, AddToQueue(mk, key, type).queue)
<1>1. mk.queue \in Seq(Jobs \cup Nodes) /\ IsInjective(mk.queue)
  BY DEF MarketType, WellFormedQueue
<1>2. CASE ~ HasKnownType(mk)
  BY <1>1, <1>2, SameOrder DEF AddToQueue
<1>3. CASE HasKnownType(mk)
  <2>1. AddToQueue(mk, key, type).queue = Append(mk.queue, key)
    BY <1>3 DEF AddToQueue, MarketType
  <2> QED
    BY <1>1, <2>1, AppendOrder DEF InQueue
<1> QED
  BY <1>2, <1>3

LEMMA PopOrder ==
  ASSUME NEW mk \in MarketType, WellFormedQueue(mk), mk.queueType # "empty"
  PROVE  KeepsOrder(mk.queue, PopFromQueue(mk).queue)
<1>1. /\ mk.queue \in Seq(Jobs \cup Nodes) /\ IsInjective(mk.queue)
      /\ mk.queue # <<>>
  BY DEF MarketType, WellFormedQueue
<1>2. PopFromQueue(mk).queue = Tail(mk.queue)
  BY DEF PopFromQueue, WithQueue, MarketType
<1> QED
  BY <1>1, <1>2, TailOrder

LEMMA TakeOutOrder ==
  ASSUME NEW mk \in MarketType, WellFormedQueue(mk), NEW key, InQueue(mk, key)
  PROVE  KeepsOrder(mk.queue, RemoveFromQueue(mk, key).queue)
<1>1. mk.queue \in Seq(Jobs \cup Nodes) /\ IsInjective(mk.queue)
  BY DEF MarketType, WellFormedQueue
<1>2. /\ RemoveFromQueue(mk, key).queue = RemoveAt(mk.queue, Position(mk.queue, key))
      /\ \E i \in DOMAIN mk.queue : mk.queue[i] = key
  BY DEF RemoveFromQueue, WithQueue, MarketType, InQueue
<1> QED
  BY <1>1, <1>2, RemoveOrder

QueuesKeepOrder == \A m \in Markets : KeepsOrder(market[m].queue, market'[m].queue)

LEMMA QueuesUntouched ==
  ASSUME IInv, \A m \in Markets : market'[m].queue = market[m].queue
  PROVE  QueuesKeepOrder
<1>1. \A m \in Markets :
        market[m].queue \in Seq(Jobs \cup Nodes) /\ IsInjective(market[m].queue)
  BY DEF IInv, TypeOK, MarketType, QueueConsistent, WellFormedQueue
<1> QED
  BY <1>1, SameOrder DEF QueuesKeepOrder

LEMMA OneQueueChanges ==
  ASSUME IInv, NEW m \in Markets, NEW new,
         market' = [market EXCEPT ![m] = new],
         \/ new.queue = market[m].queue
         \/ KeepsOrder(market[m].queue, new.queue)
  PROVE  QueuesKeepOrder
<1>1. /\ market'[m] = new
      /\ \A m2 \in Markets : m2 # m => market'[m2] = market[m2]
  BY DEF IInv, TypeOK
<1>2. \A m2 \in Markets :
        market[m2].queue \in Seq(Jobs \cup Nodes) /\ IsInjective(market[m2].queue)
  BY DEF IInv, TypeOK, MarketType, QueueConsistent, WellFormedQueue
<1>3. \A m2 \in Markets : KeepsOrder(market[m2].queue, market[m2].queue)
  BY <1>2, SameOrder
<1> QED
  BY <1>1, <1>3 DEF QueuesKeepOrder

-----------------------------------------------------------------------------
(* Turns: which runs a step may start *)

AllStartInTurn == \A m \in Markets : StartsInTurn(m)

\* A waiting job has no run, so a step that starts none is in turn.
LEMMA NoRunStarts ==
  ASSUME IInv, \A r \in Runs : run'[r] = run[r] \/ run'[r] = NoRun
  PROVE  AllStartInTurn
<1> SUFFICES ASSUME NEW m \in Markets, NEW j \in Jobs, NEW r \in Runs,
                    InQueue(market[m], j), run'[r].job = j
             PROVE  FALSE
  BY DEF AllStartInTurn, StartsInTurn
<1>1. run[r].job = j
  BY NoneAssumption DEF NoRun
<1>2. IsLive(r)
  BY <1>1, NoneAssumption DEF IsLive, NoRun
<1> QED
  BY <1>1, <1>2 DEF IInv, SingleAssignment, RunningJobNotSettled

LEMMA OneRunStarts ==
  ASSUME IInv, NEW r \in Runs, NEW j \in Jobs, NEW n, StartRun(r, j, n),
         \A m \in Markets : InQueue(market[m], j) => j = Head(market[m].queue)
  PROVE  AllStartInTurn
<1> SUFFICES ASSUME NEW m \in Markets, NEW k \in Jobs, NEW r2 \in Runs,
                    InQueue(market[m], k), run'[r2].job = k
             PROVE  k = Head(market[m].queue)
  BY DEF AllStartInTurn, StartsInTurn
<1>1. /\ run'[r].job = j
      /\ \A r3 \in Runs : r3 # r => run'[r3] = run[r3]
  BY DEF IInv, TypeOK, StartRun
<1>2. CASE r2 = r
  BY <1>1, <1>2
<1>3. CASE r2 # r
  <2>1. run[r2].job = k
    BY <1>1, <1>3
  <2>2. IsLive(r2)
    BY <2>1, NoneAssumption DEF IsLive, NoRun
  <2> QED
    BY <2>1, <2>2 DEF IInv, SingleAssignment, RunningJobNotSettled
<1> QED
  BY <1>2, <1>3

-----------------------------------------------------------------------------
(* Nobody is overtaken: one lemma per instruction that moves a queue or a run *)

InOrder == QueuesKeepOrder /\ AllStartInTurn

\* A step that starts no run and writes no queue, but may close a run.
LEMMA QueuesLeftAlone ==
  ASSUME IInv, NEW m \in Markets, NEW new,
         \/ market' = market
         \/ /\ market' = [market EXCEPT ![m] = new]
            /\ new.queue = market[m].queue \/ new.queue = <<>>,
         \/ run' = run
         \/ \E r \in Runs : run' = [run EXCEPT ![r] = NoRun]
  PROVE  InOrder
<1>1. \A r \in Runs : run'[r] = run[r] \/ run'[r] = NoRun
  BY DEF IInv, TypeOK
<1>2. AllStartInTurn
  BY <1>1, NoRunStarts
<1>3. CASE market' = market
  BY <1>2, <1>3, QueuesUntouched DEF InOrder
<1>4. CASE /\ market' = [market EXCEPT ![m] = new]
           /\ new.queue = market[m].queue \/ new.queue = <<>>
  <2>1. new.queue = market[m].queue \/ KeepsOrder(market[m].queue, new.queue)
    BY <1>4, EmptyOrder
  <2>2. QueuesKeepOrder
    BY <1>4, <2>1, OneQueueChanges
  <2> QED
    BY <1>2, <2>2 DEF InOrder
<1> QED
  BY <1>3, <1>4

LEMMA WellFormedMarket ==
  ASSUME IInv, NEW m \in Markets
  PROVE  market[m] \in MarketType /\ WellFormedQueue(market[m])
BY DEF IInv, TypeOK, QueueConsistent

LEMMA ListInOrder ==
  ASSUME IInv, FreshAddresses, NEW j \in Jobs, NEW m \in Markets, NEW payer, NEW p, NEW t,
         NEW r \in Runs, List(j, m, payer, p, t, r)
  PROVE  InOrder
<1>1. \A m2 \in Markets : ~ InQueue(market[m2], j)
  BY ListedUnmentioned DEF List
<1>2. CASE /\ market' = [market EXCEPT ![m] = AddToQueue(market[m], j, "job")]
           /\ run' = run
  <2>1. QueuesKeepOrder
    BY <1>1, <1>2, WellFormedMarket, AddOrder, OneQueueChanges
  <2> QED
    BY <1>2, <2>1, NoRunStarts DEF InOrder
<1>3. CASE /\ market[m].queueType = "node"
           /\ market' = [market EXCEPT ![m] = PopFromQueue(market[m])]
           /\ StartRun(r, j, Head(market[m].queue))
  <2>1. QueuesKeepOrder
    BY <1>3, WellFormedMarket, PopOrder, OneQueueChanges
  <2> QED
    BY <1>1, <1>3, <2>1, OneRunStarts DEF InOrder
<1> QED
  BY <1>2, <1>3 DEF List

LEMMA AssignInOrder ==
  ASSUME IInv, FreshAddresses, NEW j \in Jobs, NEW m \in Markets, NEW payer, NEW p, NEW t,
         NEW r \in Runs, NEW n, Assign(j, m, payer, p, t, r, n)
  PROVE  InOrder
<1>1. /\ market' = [market EXCEPT ![m] = RemoveFromQueue(market[m], n)]
      /\ InQueue(market[m], n) /\ StartRun(r, j, n)
      /\ \A m2 \in Markets : ~ InQueue(market[m2], j)
  BY ListedUnmentioned DEF Assign
<1>2. QueuesKeepOrder
  BY <1>1, WellFormedMarket, TakeOutOrder, OneQueueChanges
<1> QED
  BY <1>1, <1>2, OneRunStarts DEF InOrder

LEMMA WorkInOrder ==
  ASSUME IInv, NEW m \in Markets, NEW n \in Nodes, NEW r \in Runs, Work(m, n, r)
  PROVE  InOrder
<1>1. CASE /\ market[m].queueType \in {"node", "empty"}
           /\ market' = [market EXCEPT ![m] = AddToQueue(market[m], n, "node")]
           /\ run' = run
  <2>1. ~ InQueue(market[m], n)
    BY <1>1 DEF Work, NodeMayEnter
  <2>2. QueuesKeepOrder
    BY <1>1, <2>1, WellFormedMarket, AddOrder, OneQueueChanges
  <2> QED
    BY <1>1, <2>2, NoRunStarts DEF InOrder
<1>2. CASE /\ market[m].queueType = "job"
           /\ StartRun(r, Head(market[m].queue), n)
           /\ market' = [market EXCEPT ![m] = PopFromQueue(market[m])]
  <2> DEFINE j == Head(market[m].queue)
  <2>1. j \in Jobs /\ InQueue(market[m], j)
    BY <1>2, WellFormedMarket, PopKeeps
  <2>2. \A m2 \in Markets : InQueue(market[m2], j) => m2 = m
    BY <2>1 DEF IInv, SingleAssignment, WaitingJobQueued
  <2>3. \A m2 \in Markets : InQueue(market[m2], j) => j = Head(market[m2].queue)
    BY <2>2
  <2>4. QueuesKeepOrder
    BY <1>2, WellFormedMarket, PopOrder, OneQueueChanges
  <2> HIDE DEF j
  <2>5. StartRun(r, j, n)
    BY <1>2 DEF j
  <2> QED
    BY <2>1, <2>3, <2>4, <2>5, OneRunStarts DEF InOrder
<1> QED
  BY <1>1, <1>2 DEF Work

\* Delist and Stop take a key out and start nothing.
LEMMA TakeOutInOrder ==
  ASSUME IInv, NEW m \in Markets, NEW key, InQueue(market[m], key),
         market' = [market EXCEPT ![m] = RemoveFromQueue(market[m], key)],
         run' = run
  PROVE  InOrder
<1>1. QueuesKeepOrder
  BY WellFormedMarket, TakeOutOrder, OneQueueChanges
<1> QED
  BY <1>1, NoRunStarts DEF InOrder

LEMMA MarketNextInOrder ==
  ASSUME IInv, MarketNext
  PROVE  InOrder
<1>1. PICK m \in Markets, a \in Authorities :
        \/ \E t \in Terms : Open(m, a, t) \/ Update(m, a, t)
        \/ \E k \in Keys \cup {SystemKey} : SetSettings(m, a, k)
        \/ CloseSettings(m, a)
        \/ \E u \in Destinations(m), s \in BOOLEAN : Close(m, a, u, s)
  BY DEF MarketNext
<1>0. market[m] \in MarketType
  BY WellFormedMarket
<1>2. ASSUME NEW t \in Terms, Open(m, a, t)
      PROVE  InOrder
  <2>1. PICK new : market' = [market EXCEPT ![m] = new] /\ new.queue = <<>>
    <3> DEFINE new == [NoMarket EXCEPT !.status = "open", !.authority = a,
                         !.terms = t, !.terms.jobType = JobTypeFrom(t.jobType)]
    <3>1. market' = [market EXCEPT ![m] = new] /\ new.queue = <<>>
      BY <1>2 DEF Open, NoMarket
    <3> QED
      BY <3>1
  <2> QED
    BY <1>2, <2>1, QueuesLeftAlone DEF Open
<1>3. ASSUME NEW mk, mk.queue = market[m].queue,
             market' = [market EXCEPT ![m] = mk], run' = run
      PROVE  InOrder
  BY <1>3, QueuesLeftAlone
<1>4. ASSUME NEW t \in Terms, Update(m, a, t)
      PROVE  InOrder
  <2> DEFINE new == [market[m] EXCEPT !.terms = t,
                       !.terms.jobType = UpdatedType(market[m], t.jobType)]
  <2>1. market' = [market EXCEPT ![m] = new] /\ new.queue = market[m].queue
    BY <1>0, <1>4 DEF Update, IInv, TypeOK, MarketType
  <2> QED
    BY <1>3, <1>4, <2>1 DEF Update
<1>5. ASSUME NEW flag \in BOOLEAN, run' = run,
             market' = [market EXCEPT ![m].terms.jobType = WithFlag(@, flag)]
      PROVE  InOrder
  <2> DEFINE new == [market[m] EXCEPT
                       !.terms.jobType = WithFlag(market[m].terms.jobType, flag)]
  <2>1. market' = [market EXCEPT ![m] = new] /\ new.queue = market[m].queue
    BY <1>0, <1>5 DEF IInv, TypeOK, MarketType
  <2> QED
    BY <1>3, <1>5, <2>1
<1>6. ASSUME NEW u, NEW s, CloseMarket(m, u, s)
      PROVE  InOrder
  <2>1. NoMarket.queue = <<>>
    BY DEF NoMarket
  <2> QED
    BY <1>6, <2>1, QueuesLeftAlone DEF CloseMarket
<1> QED
  BY <1>1, <1>2, <1>4, <1>5, <1>6 DEF SetSettings, CloseSettings, Close

LEMMA NextInOrder == IInv /\ [FreshNext]_vars => InOrder
<1> SUFFICES ASSUME IInv, [FreshNext]_vars PROVE InOrder
  OBVIOUS
<1>0. ASSUME market' = market,
             run' = run \/ \E r \in Runs : run' = [run EXCEPT ![r] = NoRun]
      PROVE  InOrder
  <2>1. CASE Markets = {}
    <3>1. \A r \in Runs : run'[r] = run[r] \/ run'[r] = NoRun
      BY <1>0 DEF IInv, TypeOK
    <3> QED
      BY <2>1, <3>1, NoRunStarts DEF InOrder, QueuesKeepOrder
  <2>2. CASE Markets # {}
    BY <1>0, <2>2, QueuesLeftAlone
  <2> QED
    BY <2>1, <2>2
<1>1. CASE Tick
  BY <1>0, <1>1 DEF Tick
<1>2. CASE MarketNext
  BY <1>2, MarketNextInOrder
<1>3. ASSUME ProjectNext, FreshAddresses PROVE InOrder
  <2>1. ASSUME NEW j \in Jobs, NEW p \in Projects, NEW m \in Markets,
               NEW payer \in Payers, NEW t \in Timeouts, NEW r \in Runs,
               \/ List(j, m, payer, p, t, r)
               \/ \E n \in Nodes : Assign(j, m, payer, p, t, r, n)
        PROVE  InOrder
    BY <1>3, <2>1, ListInOrder, AssignInOrder
  <2>2. ASSUME NEW j \in Jobs, NEW p \in Projects, Delist(j, p)
        PROVE  InOrder
    <3>1. job[j].market \in Markets
      BY <2>2 DEF Delist, IInv, JobsComplete, Exists
    <3> QED
      BY <2>2, <3>1, TakeOutInOrder DEF Delist
  <2>3. ASSUME NEW j \in Jobs, NEW p \in Projects,
               \/ \E u \in TokenAccounts : Recover(j, p, u)
               \/ \E payer \in Payers, t \in Timeouts : Extend(j, p, payer, t)
               \/ \E r \in Runs : End(j, p, r)
        PROVE  InOrder
    BY <1>0, <2>3 DEF Recover, Extend, End
  <2> QED
    BY <1>3, <2>1, <2>2, <2>3 DEF ProjectNext, CreateNext, DealNext
<1>4. CASE NodeNext
  <2>1. ASSUME NEW n \in Nodes, NEW m \in Markets, NEW r \in Runs, Work(m, n, r)
        PROVE  InOrder
    BY <2>1, WorkInOrder
  <2>2. ASSUME NEW n \in Nodes, NEW m \in Markets, NEW s, Stop(m, n, s)
        PROVE  InOrder
    BY <2>2, TakeOutInOrder DEF Stop
  <2>3. ASSUME NEW n \in Nodes, NEW j \in Jobs,
               \/ \E r \in Runs, u \in TokenAccounts : Finish(j, r, n, u)
               \/ \E r \in Runs : Quit(j, r, n)
               \/ Complete(j, n)
        PROVE  InOrder
    BY <1>0, <2>3 DEF Finish, Quit, Complete
  <2> QED
    BY <1>4, <2>1, <2>2, <2>3 DEF NodeNext
<1>5. CASE AnyoneNext
  BY <1>0, <1>5 DEF AnyoneNext, Clean
<1>6. CASE AdminNext
  <2>1. ASSUME NEW m \in Markets, NEW u, NEW s, CloseAdmin(m, MarketAdmin, u, s)
        PROVE  InOrder
    <3>1. NoMarket.queue = <<>>
      BY DEF NoMarket
    <3> QED
      BY <2>1, <3>1, QueuesLeftAlone DEF CloseAdmin, CloseMarket
  <2>2. ASSUME \/ \E j \in Jobs : CleanAdmin(j, MarketAdmin)
               \/ \E r \in Runs : QuitAdmin(r, MarketAdmin)
        PROVE  InOrder
    BY <1>0, <2>2 DEF CleanAdmin, QuitAdmin
  <2> QED
    BY <1>6, <2>1, <2>2 DEF AdminNext
<1>7. CASE UNCHANGED vars
  BY <1>0, <1>7 DEF vars
<1> QED
  BY <1>1, <1>2, <1>3, <1>4, <1>5, <1>6, <1>7, FreshBoxSteps DEF Next

\* In every market, of any size and with any number of jobs and nodes, those
\* who wait keep their order, newcomers stand at the back, and a waiting job
\* starts only when it is at the front: List, Assign, Work, Delist and Stop
\* let nobody overtake.
THEOREM NobodyIsOvertaken == SpecFresh => FirstComeFirstServed
<1>1. IInv /\ [FreshNext]_vars =>
        [\A m \in Markets :
           KeepsOrder(market[m].queue, market'[m].queue) /\ StartsInTurn(m)]_vars
  BY NextInOrder DEF InOrder, QueuesKeepOrder, AllStartInTurn
<1> QED
  BY <1>1, IInvHolds, PTL DEF SpecFresh, FirstComeFirstServed

-----------------------------------------------------------------------------
(* Settlements *)

\* What one transfer does to two different accounts.
LEMMA MoveBetween ==
  ASSUME NEW t \in [TokenAccounts -> Nat], NEW amount \in Nat,
         NEW from \in TokenAccounts, NEW to \in TokenAccounts, from # to
  PROVE  /\ Move(t, from, to, amount)[from] = t[from] - amount
         /\ Move(t, from, to, amount)[to] = t[to] + amount
         /\ \A a \in TokenAccounts \ {from, to} : Move(t, from, to, amount)[a] = t[a]
         /\ Move(t, from, to, amount) \in [TokenAccounts -> Int]
BY DEF Move

\* A node earns at most the price of the time that has passed.
LEMMA ReimbursementByTheClock ==
  ASSUME NEW price \in Nat, NEW timeout \in Nat,
         NEW start \in Nat, NEW end \in Nat, start <= end
  PROVE  /\ price * (end - start) \in Nat
         /\ Reimbursement(price, timeout, start, end) <= price * (end - start)
<1> DEFINE ran  == end - start
           paid == Min({ran, timeout})
<1>1. ran \in Nat
  OBVIOUS
<1> HIDE DEF ran
<1>2. paid \in {ran, timeout} /\ paid <= ran
  BY <1>1, MinOfTwo
<1>3. Reimbursement(price, timeout, start, end) = price * paid
  BY DEF Reimbursement, ran
<1> HIDE DEF paid
<1>4. paid \in Nat
  BY <1>1, <1>2
<1>5. price * ran \in Nat /\ price * paid <= price * ran
  BY <1>1, <1>2, <1>4, ProductNat, ProductMonotone
<1> QED
  BY <1>3, <1>5 DEF ran

\* The two transfers of a settlement, also when both go to the same wallet.
LEMMA SettlementDivides ==
  ASSUME TypeOK, JobsComplete, RunsInThePast, NEW j \in Jobs, NEW r \in Runs,
         Exists(j), NEW user \in TokenAccounts, user # job[j].market,
         Settle(j, run[r].time, user)
  PROVE  PaidByTheClock(j, r)
<1> DEFINE b      == job[j]
           start  == run[r].time
           total  == b.price * b.timeout
           earned == b.price * (now - start)
           amount == Reimbursement(b.price, b.timeout, start, now)
           once   == Move(tokens, b.market, user, amount)
           refund == tokens'[b.payer] - tokens[b.payer]
<1>1. /\ b.price \in Nat /\ b.timeout \in Int /\ now \in Nat
      /\ start \in Nat /\ start <= now
      /\ b.market \in TokenAccounts /\ b.payer \in TokenAccounts
      /\ b.payer # b.market
      /\ tokens \in [TokenAccounts -> Nat]
  BY UsersAssumption
     DEF TypeOK, JobsComplete, JobType, RunType, RunsInThePast, TokenAccounts
<1>2. CASE b.price = 0
  <2>1. tokens' = tokens /\ total = 0
    BY <1>1, <1>2 DEF Settle
  <2> QED
    BY <1>1, <1>2, <2>1 DEF PaidByTheClock
<1>3. CASE b.price # 0
  <2>1. /\ b.timeout \in Nat /\ tokens[b.market] >= total
        /\ tokens' = Move(once, b.market, b.payer, total - amount)
    BY <1>1, <1>3 DEF Settle, HasDeposit
  <2>2. /\ total \in Nat /\ amount \in 0 .. total
        /\ earned \in Nat /\ amount <= earned
    <3> HIDE DEF b, start
    <3> QED
      BY <1>1, <2>1, ReimbursementBounded, ReimbursementByTheClock
  <2> HIDE DEF total, earned, amount, b
  <2>3. /\ amount \in Nat /\ total \in Nat /\ total - amount \in Nat
        /\ amount <= earned /\ tokens[b.market] >= amount
        /\ tokens[b.market] \in Nat /\ tokens[user] \in Nat
        /\ tokens[b.payer] \in Nat /\ earned \in Nat
    BY <1>1, <2>1, <2>2
  <2>4. user # b.market
    BY DEF b
  <2>5. /\ once \in [TokenAccounts -> Nat]
        /\ once[b.market] = tokens[b.market] - amount
        /\ once[user] = tokens[user] + amount
        /\ \A a \in TokenAccounts \ {b.market, user} : once[a] = tokens[a]
    <3>1. once \in [TokenAccounts -> Nat]
      BY <1>1, <2>3, MoveKeepsNat
    <3>2. /\ once[b.market] = tokens[b.market] - amount
          /\ once[user] = tokens[user] + amount
          /\ \A a \in TokenAccounts \ {b.market, user} : once[a] = tokens[a]
      BY <1>1, <2>3, <2>4, MoveBetween
    <3> QED
      BY <3>1, <3>2
  <2> HIDE DEF once
  <2>6. /\ tokens'[b.market] = once[b.market] - (total - amount)
        /\ tokens'[b.payer] = once[b.payer] + (total - amount)
    BY <1>1, <2>1, <2>3, <2>5, MoveBetween
  <2>7. tokens'[b.market] = tokens[b.market] - total
    BY <2>3, <2>5, <2>6
  <2>8. total - earned <= refund /\ refund <= total
    <3>1. CASE b.payer = user
      BY <2>3, <2>5, <2>6, <3>1
    <3>2. CASE b.payer # user
      <4>1. once[b.payer] = tokens[b.payer]
        BY <1>1, <2>5, <3>2
      <4> QED
        BY <2>3, <2>6, <4>1
    <3> QED
      BY <3>1, <3>2
  <2> QED
    BY <2>7, <2>8 DEF PaidByTheClock, total, earned, b
<1> QED
  BY <1>2, <1>3

SettledInTime ==
  \A j \in Jobs : job[j].state # "done" /\ job'[j].state = "done" =>
    /\ job[j].state = "queued"
    /\ \E r \in Started(j) : run'[r] = NoRun /\ PaidByTheClock(j, r)

\* A step that makes no job done.
LEMMA NothingSettled ==
  ASSUME \A j \in Jobs : job'[j].state = "done" => job[j].state = "done"
  PROVE  SettledInTime
BY DEF SettledInTime

LEMMA OneJobWritten ==
  ASSUME IInv, NEW j \in Jobs, NEW new, job' = [job EXCEPT ![j] = new],
         new.state = "done" => job[j].state = "done"
  PROVE  SettledInTime
<1>1. job'[j] = new /\ \A k \in Jobs : k # j => job'[k] = job[k]
  BY DEF IInv, TypeOK
<1> QED
  BY <1>1, NothingSettled

\* End and Finish: the run of the job is closed and its deposit divided.
LEMMA RunSettled ==
  ASSUME IInv, NEW j \in Jobs, NEW r \in Runs, NEW new, run[r].job = j,
         Exists(j), job' = [job EXCEPT ![j] = new],
         run' = [run EXCEPT ![r] = NoRun],
         NEW user \in TokenAccounts, user # job[j].market,
         Settle(j, run[r].time, user)
  PROVE  SettledInTime
<1>1. \A k \in Jobs : k # j => job'[k] = job[k]
  BY DEF IInv, TypeOK
<1>2. IsLive(r)
  BY NoneAssumption DEF IsLive, NoRun
<1>3. job[j].state = "queued"
  BY <1>2 DEF IInv, SingleAssignment, RunningJobNotSettled, Exists
<1>4. r \in Started(j) /\ run'[r] = NoRun
  BY DEF Started, IInv, TypeOK
<1>5. PaidByTheClock(j, r)
  BY SettlementDivides DEF IInv
<1> QED
  BY <1>1, <1>3, <1>4, <1>5 DEF SettledInTime

LEMMA EndSettles ==
  ASSUME IInv, NEW j \in Jobs, NEW p, NEW r \in Runs, End(j, p, r)
  PROVE  SettledInTime
<1> DEFINE new == [job[j] EXCEPT !.state = "done", !.timeStart = run[r].time,
                                 !.timeEnd = now, !.node = run[r].node]
<1>1. /\ Exists(j) /\ run[r].job = j
      /\ run' = [run EXCEPT ![r] = NoRun]
      /\ Settle(j, run[r].time, run[r].node)
  BY DEF End
<1>2. job[j] \in JobType /\ job[j].market \in Markets
  BY <1>1 DEF IInv, TypeOK, JobsComplete
<1>3. job' = [job EXCEPT ![j] = new]
  BY <1>2 DEF End, IInv, TypeOK, JobType
<1>4. IsLive(r)
  BY <1>1, NoneAssumption DEF IsLive, NoRun
<1>5. run[r].node \in TokenAccounts /\ run[r].node # job[j].market
  BY <1>2, <1>4, UsersAssumption
     DEF IInv, SingleAssignment, RunningJobNotSettled, TokenAccounts
<1> HIDE DEF new
<1> QED
  BY <1>1, <1>3, <1>5, RunSettled

LEMMA FinishSettles ==
  ASSUME IInv, NEW j \in Jobs, NEW r \in Runs, NEW n,
         NEW u \in TokenAccounts, Finish(j, r, n, u)
  PROVE  SettledInTime
<1> DEFINE new == [job[j] EXCEPT !.state = "done", !.timeStart = run[r].time,
                                 !.timeEnd = now, !.node = n, !.result = TRUE]
<1>1. /\ Exists(j) /\ run[r].job = j
      /\ run' = [run EXCEPT ![r] = NoRun]
      /\ Settle(j, run[r].time, u) /\ u # job[j].market
  BY DEF Finish, Exists, Destinations
<1>2. job' = [job EXCEPT ![j] = new]
  BY DEF Finish, IInv, TypeOK, JobType
<1> HIDE DEF new
<1> QED
  BY <1>1, <1>2, RunSettled

LEMMA NewJobSettlesNothing ==
  ASSUME IInv, NEW j \in Jobs, NEW m, NEW payer, NEW p, NEW t,
         job' = [job EXCEPT ![j] = NewJob(m, payer, p, t)]
  PROVE  SettledInTime
<1>1. NewJob(m, payer, p, t).state # "done"
  BY DEF NewJob, NoJob
<1> QED
  BY <1>1, OneJobWritten

LEMMA ForgottenJobSettlesNothing ==
  ASSUME IInv, NEW j \in Jobs, job' = [job EXCEPT ![j] = NoJob]
  PROVE  SettledInTime
<1>1. NoJob.state # "done"
  BY DEF NoJob
<1> QED
  BY <1>1, OneJobWritten

LEMMA NextSettles == IInv /\ [FreshNext]_vars => SettledInTime
<1> SUFFICES ASSUME IInv, [FreshNext]_vars PROVE SettledInTime
  OBVIOUS
<1>0. ASSUME job' = job
      PROVE  SettledInTime
  BY <1>0, NothingSettled
<1>1. CASE Tick \/ MarketNext
  BY <1>0, <1>1 DEF Tick, MarketNext, Open, Update, SetSettings, CloseSettings,
                    Close, CloseMarket
<1>2. CASE ProjectNext
  <2>1. ASSUME NEW j \in Jobs, NEW p, NEW m, NEW payer, NEW t, NEW r,
               \/ List(j, m, payer, p, t, r)
               \/ \E n : Assign(j, m, payer, p, t, r, n)
        PROVE  SettledInTime
    BY <2>1, NewJobSettlesNothing DEF List, Assign
  <2>2. ASSUME NEW j \in Jobs, NEW p, Delist(j, p) \/ \E u : Recover(j, p, u)
        PROVE  SettledInTime
    BY <2>2, ForgottenJobSettlesNothing DEF Delist, Recover
  <2>3. ASSUME NEW j \in Jobs, NEW p, NEW payer, NEW t, Extend(j, p, payer, t)
        PROVE  SettledInTime
    <3> DEFINE new == [job[j] EXCEPT !.timeout = t]
    <3>1. job' = [job EXCEPT ![j] = new] /\ new.state = job[j].state
      BY <2>3 DEF Extend, IInv, TypeOK, JobType
    <3> QED
      BY <3>1, OneJobWritten
  <2>4. ASSUME NEW j \in Jobs, NEW p, NEW r \in Runs, End(j, p, r)
        PROVE  SettledInTime
    BY <2>4, EndSettles
  <2> QED
    BY <1>2, <2>1, <2>2, <2>3, <2>4 DEF ProjectNext, CreateNext, DealNext
<1>3. CASE NodeNext
  <2>1. ASSUME NEW m, NEW n, \/ \E r : Work(m, n, r)
                             \/ \E s : Stop(m, n, s)
        PROVE  SettledInTime
    BY <1>0, <2>1 DEF Work, Stop
  <2>2. ASSUME NEW j \in Jobs, NEW r \in Runs, NEW n,
               NEW u \in TokenAccounts, Finish(j, r, n, u)
        PROVE  SettledInTime
    BY <2>2, FinishSettles
  <2>3. ASSUME NEW j \in Jobs, NEW r, NEW n, Quit(j, r, n)
        PROVE  SettledInTime
    <3> DEFINE new == [job[j] EXCEPT !.state = "stopped"]
    <3>1. job' = [job EXCEPT ![j] = new] /\ new.state = "stopped"
      BY <2>3 DEF Quit, IInv, TypeOK, JobType
    <3> QED
      BY <3>1, OneJobWritten
  <2>4. ASSUME NEW j \in Jobs, NEW n, Complete(j, n)
        PROVE  SettledInTime
    <3> DEFINE new == [job[j] EXCEPT !.result = TRUE]
    <3>1. job' = [job EXCEPT ![j] = new] /\ new.state = job[j].state
      BY <2>4 DEF Complete, IInv, TypeOK, JobType
    <3> QED
      BY <3>1, OneJobWritten
  <2> QED
    BY <1>3, <2>1, <2>2, <2>3, <2>4 DEF NodeNext
<1>4. CASE AnyoneNext
  BY <1>4, ForgottenJobSettlesNothing DEF AnyoneNext, Clean
<1>5. CASE AdminNext
  BY <1>0, <1>5, ForgottenJobSettlesNothing
     DEF AdminNext, CloseAdmin, CloseMarket, CleanAdmin, QuitAdmin
<1>6. CASE UNCHANGED vars
  BY <1>0, <1>6 DEF vars
<1> QED
  BY <1>1, <1>2, <1>3, <1>4, <1>5, <1>6, FreshBoxSteps DEF Next

\* Only a queued job with a run becomes done, its run is closed with it, the
\* vault pays out exactly the deposit, and the payer keeps at least what the
\* time of the run did not cost, whatever Finish or End is given as arguments.
THEOREM SettlementsFollowTheClock == SpecFresh => SettledByTheClock
<1>1. IInv /\ [FreshNext]_vars =>
        [\A j \in Jobs : job[j].state # "done" /\ job'[j].state = "done" =>
           /\ job[j].state = "queued"
           /\ \E r \in Started(j) : run'[r] = NoRun /\ PaidByTheClock(j, r)]_vars
  BY NextSettles DEF SettledInTime
<1> QED
  BY <1>1, IInvHolds, PTL DEF SpecFresh, SettledByTheClock
=============================================================================
