-------------------------- MODULE NosanaJobsProofs --------------------------
(***************************************************************************)
(* TLAPS proofs about NosanaJobs, for every value of its constants.        *)
(***************************************************************************)
EXTENDS NosanaJobs, SequenceTheorems, TLAPS

-----------------------------------------------------------------------------
(* Queues: what a push, a pop and a removal leave in a sequence of keys *)

LEMMA AppendKeys ==
  ASSUME NEW S, NEW q \in Seq(S), NEW x \in S, IsInjective(q),
         \A i \in DOMAIN q : q[i] # x
  PROVE  /\ Append(q, x) \in Seq(S)
         /\ Append(q, x) # <<>>
         /\ IsInjective(Append(q, x))
         /\ \A i \in DOMAIN Append(q, x) :
              Append(q, x)[i] = x \/ \E k \in DOMAIN q : q[k] = Append(q, x)[i]
<1>1. /\ Append(q, x) \in Seq(S) /\ Append(q, x) # <<>>
      /\ DOMAIN q = 1 .. Len(q) /\ DOMAIN Append(q, x) = 1 .. Len(q) + 1
      /\ \A i \in 1 .. Len(q) : Append(q, x)[i] = q[i]
      /\ Append(q, x)[Len(q) + 1] = x
  OBVIOUS
<1>2. \A i \in 1 .. Len(q) + 1 : i \in 1 .. Len(q) \/ i = Len(q) + 1
  OBVIOUS
<1>3. 1 .. Len(q) \subseteq 1 .. Len(q) + 1 /\ Len(q) + 1 \in 1 .. Len(q) + 1
  OBVIOUS
<1> QED
  BY <1>1, <1>2, <1>3 DEF IsInjective

LEMMA AppendKeepsKeys ==
  ASSUME NEW S, NEW q \in Seq(S), NEW x \in S
  PROVE  /\ \A k \in DOMAIN q : k \in DOMAIN Append(q, x) /\ Append(q, x)[k] = q[k]
         /\ Len(q) + 1 \in DOMAIN Append(q, x) /\ Append(q, x)[Len(q) + 1] = x
  OBVIOUS

LEMMA TailKeys ==
  ASSUME NEW S, NEW q \in Seq(S), q # <<>>, IsInjective(q)
  PROVE  /\ Tail(q) \in Seq(S)
         /\ IsInjective(Tail(q))
         /\ Head(q) \in S
         /\ 1 \in DOMAIN q /\ q[1] = Head(q)
         /\ \A i \in DOMAIN Tail(q) :
              /\ Tail(q)[i] # Head(q)
              /\ \E k \in DOMAIN q : q[k] = Tail(q)[i]
         /\ \A k \in DOMAIN q :
              q[k] = Head(q) \/ \E i \in DOMAIN Tail(q) : Tail(q)[i] = q[k]
<1>1. /\ Tail(q) \in Seq(S) /\ Head(q) \in S /\ 1 \in DOMAIN q /\ q[1] = Head(q)
  OBVIOUS
<1>2. /\ DOMAIN q = 1 .. Len(q) /\ DOMAIN Tail(q) = 1 .. Len(q) - 1
      /\ \A i \in 1 .. Len(q) - 1 : Tail(q)[i] = q[i + 1] /\ i + 1 \in 1 .. Len(q)
  OBVIOUS
<1>3. IsInjective(Tail(q))
  BY <1>2 DEF IsInjective
<1>4. ASSUME NEW k \in 1 .. Len(q), k # 1
      PROVE  \E i \in 1 .. Len(q) - 1 : Tail(q)[i] = q[k]
  <2>1. k - 1 \in 1 .. Len(q) - 1 /\ (k - 1) + 1 = k
    BY <1>4
  <2> QED
    BY <1>2, <2>1
<1>5. \A i \in DOMAIN Tail(q) :
        Tail(q)[i] # Head(q) /\ \E k \in DOMAIN q : q[k] = Tail(q)[i]
  BY <1>1, <1>2 DEF IsInjective
<1>6. ASSUME NEW k \in DOMAIN q, q[k] # Head(q)
      PROVE  \E i \in DOMAIN Tail(q) : Tail(q)[i] = q[k]
  <2>1. k \in 1 .. Len(q) /\ k # 1
    BY <1>1, <1>2, <1>6
  <2>2. \E i \in 1 .. Len(q) - 1 : Tail(q)[i] = q[k]
    BY <1>4, <2>1
  <2> QED
    BY <1>2, <2>2, Zenon
<1> QED
  BY <1>1, <1>3, <1>5, <1>6

\* Removing the key at position n leaves the keys before it where they are and
\* moves the later ones up by one.
LEMMA RemoveIndices ==
  ASSUME NEW S, NEW q \in Seq(S), IsInjective(q),
         NEW x, \E i \in DOMAIN q : q[i] = x
  PROVE  LET n == Position(q, x)
             p == RemoveAt(q, n)
         IN  /\ n \in 1 .. Len(q) /\ q[n] = x
             /\ p \in Seq(S) /\ DOMAIN p = 1 .. Len(q) - 1 /\ Len(p) = Len(q) - 1
             /\ \A i \in 1 .. Len(q) - 1 : p[i] = IF i < n THEN q[i] ELSE q[i + 1]
<1> DEFINE n == Position(q, x)
           p == RemoveAt(q, n)
<1>1. n \in 1 .. Len(q) /\ q[n] = x
  BY DEF Position, IsInjective
<1> HIDE DEF n
<1> DEFINE front == SubSeq(q, 1, n - 1)
           back  == SubSeq(q, n + 1, Len(q))
<1>2. /\ front \in Seq(S) /\ Len(front) = n - 1
      /\ \A i \in 1 .. n - 1 : front[i] = q[i]
  BY <1>1
<1>3. /\ back \in Seq(S) /\ Len(back) = Len(q) - n
      /\ \A i \in 1 .. Len(q) - n : back[i] = q[n + i]
  BY <1>1
<1>4. p = front \o back
  BY DEF RemoveAt
<1> HIDE DEF p, front, back
<1>5. /\ p \in Seq(S) /\ Len(p) = Len(q) - 1 /\ DOMAIN p = 1 .. Len(q) - 1
      /\ \A i \in 1 .. Len(q) - 1 : p[i] = IF i < n THEN q[i] ELSE q[i + 1]
  <2>0. front \in Seq(S) /\ back \in Seq(S)
    BY <1>2, <1>3
  <2>1. p \in Seq(S) /\ Len(p) = Len(front) + Len(back)
    BY <2>0, <1>4, ConcatProperties, Zenon
  <2>2. \A i \in 1 .. Len(front) + Len(back) :
          p[i] = IF i <= Len(front) THEN front[i] ELSE back[i - Len(front)]
    BY <2>0, <1>4, ConcatProperties, Zenon
  <2>3. Len(p) = Len(q) - 1 /\ DOMAIN p = 1 .. Len(q) - 1
    BY <1>1, <1>2, <1>3, <2>1
  <2>4. ASSUME NEW i \in 1 .. Len(q) - 1, i < n
        PROVE  p[i] = q[i]
    <3>1. i \in 1 .. n - 1 /\ i <= n - 1
      BY <1>1, <2>4
    <3>2. i \in 1 .. Len(front) + Len(back) /\ i <= Len(front)
      BY <1>1, <1>2, <1>3, <3>1
    <3>3. p[i] = front[i]
      BY <2>2, <3>2
    <3>4. front[i] = q[i]
      BY <1>2, <3>1
    <3> QED
      BY <3>3, <3>4
  <2>5. ASSUME NEW i \in 1 .. Len(q) - 1, ~ (i < n)
        PROVE  p[i] = q[i + 1]
    <3>1. i - (n - 1) \in 1 .. Len(q) - n /\ ~ (i <= n - 1)
      BY <1>1, <2>5
    <3>2. p[i] = back[i - (n - 1)]
      <4>1. i \in 1 .. Len(front) + Len(back) /\ ~ (i <= Len(front))
        BY <1>1, <1>2, <1>3, <3>1
      <4>2. p[i] = back[i - Len(front)]
        BY <2>2, <4>1
      <4> QED
        BY <1>2, <4>2
    <3>3. back[i - (n - 1)] = q[n + (i - (n - 1))]
      BY <1>3, <3>1
    <3>4. n + (i - (n - 1)) = i + 1
      BY <1>1
    <3> QED
      BY <3>2, <3>3, <3>4
  <2> QED
    BY <2>1, <2>3, <2>4, <2>5
<1> QED
  BY <1>1, <1>5 DEF p, n

LEMMA RemoveKeys ==
  ASSUME NEW S, NEW q \in Seq(S), IsInjective(q),
         NEW x, \E i \in DOMAIN q : q[i] = x
  PROVE  LET p == RemoveAt(q, Position(q, x)) IN
         /\ p \in Seq(S)
         /\ IsInjective(p)
         /\ \A i \in DOMAIN p : p[i] # x /\ \E k \in DOMAIN q : q[k] = p[i]
         /\ \A k \in DOMAIN q : q[k] = x \/ \E i \in DOMAIN p : p[i] = q[k]
<1> DEFINE n == Position(q, x)
           p == RemoveAt(q, n)
<1>1. n \in 1 .. Len(q) /\ q[n] = x
  BY RemoveIndices
<1>5. /\ p \in Seq(S) /\ Len(p) = Len(q) - 1 /\ DOMAIN p = 1 .. Len(q) - 1
      /\ \A i \in 1 .. Len(q) - 1 : p[i] = IF i < n THEN q[i] ELSE q[i + 1]
  BY RemoveIndices
<1> HIDE DEF n, p
<1>6. \A i, k \in 1 .. Len(q) : q[i] = q[k] => i = k
  BY DEF IsInjective
<1>. DEFINE from(i) == IF i < n THEN i ELSE i + 1
<1>7. ASSUME NEW i \in DOMAIN p
      PROVE  from(i) \in 1 .. Len(q) /\ p[i] = q[from(i)] /\ from(i) # n
  <2>1. i \in 1 .. Len(q) - 1
    BY <1>5, <1>7
  <2>2. CASE i < n
    BY <1>1, <1>5, <2>1, <2>2
  <2>3. CASE ~ (i < n)
    BY <1>1, <1>5, <2>1, <2>3
  <2> QED
    BY <2>2, <2>3
<1>8. ASSUME NEW i \in DOMAIN p, NEW k \in DOMAIN p, p[i] = p[k]
      PROVE  i = k
  <2>1. from(i) = from(k)
    BY <1>6, <1>7, <1>8
  <2>2. i \in 1 .. Len(q) - 1 /\ k \in 1 .. Len(q) - 1
    BY <1>5, <1>8
  <2> QED
    BY <1>1, <2>1, <2>2
<1>9. \A i \in DOMAIN p : p[i] # x /\ \E k \in DOMAIN q : q[k] = p[i]
  <2>1. n \in 1 .. Len(q) /\ q[n] = x
    BY <1>1
  <2> HIDE DEF from
  <2> QED
    BY <1>6, <1>7, <2>1
<1>10. ASSUME NEW k \in DOMAIN q, q[k] # x
       PROVE  \E i \in DOMAIN p : p[i] = q[k]
  <2>0. k \in 1 .. Len(q) /\ k # n
    BY <1>1, <1>10
  <2>1. CASE k < n
    <3>1. k \in 1 .. Len(q) - 1 /\ p[k] = q[k]
      BY <1>1, <1>5, <2>0, <2>1
    <3> QED
      BY <1>5, <3>1
  <2>2. CASE k > n
    <3>1. k - 1 \in 1 .. Len(q) - 1 /\ ~ (k - 1 < n) /\ (k - 1) + 1 = k
      BY <1>1, <2>0, <2>2
    <3>2. p[k - 1] = q[k]
      BY <1>5, <3>1
    <3> QED
      BY <1>5, <3>1, <3>2
  <2> QED
    BY <1>1, <2>0, <2>1, <2>2
<1> QED
  BY <1>5, <1>8, <1>9, <1>10 DEF p, n, IsInjective
-----------------------------------------------------------------------------
(* MarketAccount: the byte that holds the job type and the restricted flag *)

LEMMA Remainders ==
  \A b \in 0 .. 255 :
    /\ b % RESTRICTED \in 0 .. RESTRICTED - 1
    /\ b < RESTRICTED => b % RESTRICTED = b
    /\ b >= RESTRICTED => b % RESTRICTED = b - RESTRICTED
BY DEF RESTRICTED

LEMMA JobTypeBytes ==
  /\ \A b \in 0 .. 255 : /\ JobTypeFrom(b) \in 0 .. RESTRICTED - 1
                         /\ JobTypeFrom(JobTypeFrom(b)) = JobTypeFrom(b)
  /\ \A b \in 0 .. 255, restricted \in BOOLEAN :
       /\ WithFlag(b, restricted) \in 0 .. 255
       /\ WithFlag(b, restricted) >= RESTRICTED <=> restricted
       /\ JobTypeFrom(WithFlag(b, restricted)) = JobTypeFrom(b)
BY Remainders DEF RESTRICTED, JobTypes, UnknownType, JobTypeFrom, WithFlag

\* What open and update store: the type the caller asked for, without its high bit.
LEMMA StoredTypes ==
  ASSUME NEW mk \in MarketType, NEW t \in Terms
  PROVE  /\ [t EXCEPT !.jobType = JobTypeFrom(t.jobType)] \in TermsType
         /\ [t EXCEPT !.jobType = UpdatedType(mk, t.jobType)] \in TermsType
         /\ JobTypeFrom(t.jobType) \in 0 .. RESTRICTED - 1
         /\ UpdatedType(mk, t.jobType) >= RESTRICTED <=> IsRestricted(mk)
         /\ JobTypeFrom(JobTypeFrom(t.jobType)) = JobTypeFrom(t.jobType)
         /\ JobTypeFrom(UpdatedType(mk, t.jobType)) = JobTypeFrom(t.jobType)
<1>1. t \in TermsType /\ t.jobType \in 0 .. 255
  BY TermsAssumption DEF TermsType
<1>2. /\ JobTypeFrom(t.jobType) \in 0 .. RESTRICTED - 1
      /\ JobTypeFrom(JobTypeFrom(t.jobType)) = JobTypeFrom(t.jobType)
  BY <1>1, JobTypeBytes
<1>3. JobTypeFrom(t.jobType) \in 0 .. 255 /\ RESTRICTED = 128
  BY <1>2 DEF RESTRICTED
<1>4. /\ UpdatedType(mk, t.jobType) \in 0 .. 255
      /\ UpdatedType(mk, t.jobType) >= RESTRICTED <=> IsRestricted(mk)
      /\ JobTypeFrom(UpdatedType(mk, t.jobType)) = JobTypeFrom(t.jobType)
  <2>1. CASE IsRestricted(mk)
    BY <1>2, <1>3, <2>1, JobTypeBytes DEF UpdatedType, IsRestricted
  <2>2. CASE ~ IsRestricted(mk)
    <3>1. UpdatedType(mk, t.jobType) = JobTypeFrom(t.jobType)
      BY <2>2 DEF UpdatedType
    <3>2. ~ (JobTypeFrom(t.jobType) >= RESTRICTED)
      BY <1>2, <1>3
    <3> QED
      BY <1>2, <1>3, <2>2, <3>1, <3>2
  <2> QED
    BY <2>1, <2>2
<1> QED
  BY <1>1, <1>2, <1>3, <1>4 DEF TermsType

-----------------------------------------------------------------------------
(* MarketAccount: what the queue operations do to a well-formed market *)

LEMMA AddToQueueKeeps ==
  ASSUME NEW mk \in MarketType, WellFormedQueue(mk),
         NEW key, NEW type,
         \/ type = "job" /\ key \in Jobs
         \/ type = "node" /\ key \in Nodes,
         mk.queueType \in {type, "empty"},
         ~ InQueue(mk, key)
  PROVE  LET new == AddToQueue(mk, key, type) IN
         /\ new \in MarketType
         /\ WellFormedQueue(new)
         /\ \A k : InQueue(new, k) <=> InQueue(mk, k) \/ (HasKnownType(mk) /\ k = key)
         /\ new.status = mk.status
<1> DEFINE new == AddToQueue(mk, key, type)
<1>1. CASE ~ HasKnownType(mk)
  BY <1>1 DEF AddToQueue
<1>2. CASE HasKnownType(mk)
  <2> DEFINE q == mk.queue
             p == Append(q, key)
  <2>1. /\ q \in Seq(Jobs \cup Nodes) /\ IsInjective(q)
        /\ \A i \in DOMAIN q : q[i] # key
    BY DEF MarketType, WellFormedQueue, InQueue
  <2>0. key \in Jobs \cup Nodes
    OBVIOUS
  <2>2. /\ p \in Seq(Jobs \cup Nodes) /\ p # <<>> /\ IsInjective(p)
        /\ \A i \in DOMAIN p : p[i] = key \/ \E k \in DOMAIN q : q[k] = p[i]
    BY <2>0, <2>1, AppendKeys
  <2>9. /\ \A k \in DOMAIN q : k \in DOMAIN p /\ p[k] = q[k]
        /\ Len(q) + 1 \in DOMAIN p /\ p[Len(q) + 1] = key
    BY <2>0, <2>1, AppendKeepsKeys
  <2>3. \A i \in DOMAIN q : type = "job" => q[i] \in Jobs
    BY DEF WellFormedQueue
  <2>4. \A i \in DOMAIN q : type = "node" => q[i] \in Nodes
    BY DEF WellFormedQueue
  <2>5. new = [mk EXCEPT !.queueType = type, !.queue = p]
    BY <1>2 DEF AddToQueue, MarketType
  <2>6. /\ new.queue = p /\ new.queueType = type /\ new.status = mk.status
        /\ new \in MarketType
    BY <2>2, <2>5 DEF MarketType, QueueTypes
  <2> HIDE DEF new, q, p
  <2>7. WellFormedQueue(new)
    BY <2>2, <2>3, <2>4, <2>6 DEF WellFormedQueue
  <2>8. \A k : InQueue(new, k) <=> InQueue(mk, k) \/ k = key
    BY <2>2, <2>9, <2>6 DEF InQueue, q
  <2> QED
    BY <1>2, <2>6, <2>7, <2>8 DEF new
<1> QED
  BY <1>1, <1>2

LEMMA WithQueueKeeps ==
  ASSUME NEW mk \in MarketType, WellFormedQueue(mk),
         NEW p \in Seq(Jobs \cup Nodes), IsInjective(p), mk.queue # <<>>,
         \A i \in DOMAIN p : \E k \in DOMAIN mk.queue : mk.queue[k] = p[i]
  PROVE  LET new == WithQueue(mk, p) IN
         /\ new \in MarketType
         /\ WellFormedQueue(new)
         /\ new.queue = p
         /\ new.status = mk.status
<1> DEFINE new == WithQueue(mk, p)
<1>1. /\ new.queue = p /\ new.status = mk.status /\ new \in MarketType
      /\ new.queueType = IF p = <<>> THEN "empty" ELSE mk.queueType
  BY DEF WithQueue, MarketType, QueueTypes
<1> HIDE DEF new
<1>2. mk.queueType # "empty"
  BY DEF WellFormedQueue
<1>3. WellFormedQueue(new)
  BY <1>1, <1>2 DEF WellFormedQueue
<1> QED
  BY <1>1, <1>3 DEF new

LEMMA PopKeeps ==
  ASSUME NEW mk \in MarketType, WellFormedQueue(mk), mk.queueType # "empty"
  PROVE  LET new == PopFromQueue(mk)
             key == Head(mk.queue)
         IN  /\ new \in MarketType
             /\ WellFormedQueue(new)
             /\ InQueue(mk, key)
             /\ mk.queueType = "job" => key \in Jobs
             /\ mk.queueType = "node" => key \in Nodes
             /\ \A k : InQueue(new, k) <=> InQueue(mk, k) /\ k # key
             /\ new.status = mk.status
<1> DEFINE q == mk.queue
           p == Tail(q)
<1>1. q \in Seq(Jobs \cup Nodes) /\ q # <<>> /\ IsInjective(q)
  BY DEF MarketType, WellFormedQueue
<1>2. /\ p \in Seq(Jobs \cup Nodes) /\ IsInjective(p)
      /\ 1 \in DOMAIN q /\ q[1] = Head(q)
      /\ \A i \in DOMAIN p : p[i] # Head(q) /\ \E k \in DOMAIN q : q[k] = p[i]
      /\ \A k \in DOMAIN q : q[k] = Head(q) \/ \E i \in DOMAIN p : p[i] = q[k]
  BY <1>1, TailKeys
<1> HIDE DEF p
<1>3. LET new == WithQueue(mk, p) IN
      /\ new \in MarketType /\ WellFormedQueue(new)
      /\ new.queue = p /\ new.status = mk.status
  BY <1>1, <1>2, WithQueueKeeps
<1>4. /\ InQueue(mk, Head(q))
      /\ mk.queueType = "job" => Head(q) \in Jobs
      /\ mk.queueType = "node" => Head(q) \in Nodes
  BY <1>2 DEF InQueue, WellFormedQueue
<1>5. \A k : InQueue(WithQueue(mk, p), k) <=> InQueue(mk, k) /\ k # Head(q)
  BY <1>2, <1>3 DEF InQueue
<1> QED
  BY <1>3, <1>4, <1>5 DEF PopFromQueue, p

LEMMA RemoveKeeps ==
  ASSUME NEW mk \in MarketType, WellFormedQueue(mk), NEW key, InQueue(mk, key)
  PROVE  LET new == RemoveFromQueue(mk, key) IN
         /\ new \in MarketType
         /\ WellFormedQueue(new)
         /\ \A k : InQueue(new, k) <=> InQueue(mk, k) /\ k # key
         /\ new.status = mk.status
<1> DEFINE q == mk.queue
           p == RemoveAt(q, Position(q, key))
<1>1. /\ q \in Seq(Jobs \cup Nodes) /\ IsInjective(q) /\ q # <<>>
      /\ \E i \in DOMAIN q : q[i] = key
  BY DEF MarketType, WellFormedQueue, InQueue
<1>2. /\ p \in Seq(Jobs \cup Nodes) /\ IsInjective(p)
      /\ \A i \in DOMAIN p : p[i] # key /\ \E k \in DOMAIN q : q[k] = p[i]
      /\ \A k \in DOMAIN q : q[k] = key \/ \E i \in DOMAIN p : p[i] = q[k]
  BY <1>1, RemoveKeys
<1> HIDE DEF p
<1>3. LET new == WithQueue(mk, p) IN
      /\ new \in MarketType /\ WellFormedQueue(new)
      /\ new.queue = p /\ new.status = mk.status
  BY <1>1, <1>2, WithQueueKeeps
<1>4. \A k : InQueue(WithQueue(mk, p), k) <=> InQueue(mk, k) /\ k # key
  BY <1>2, <1>3 DEF InQueue
<1> QED
  BY <1>3, <1>4 DEF RemoveFromQueue, p

-----------------------------------------------------------------------------
(* Tokens: a guarded transfer keeps every balance a natural number *)

LEMMA ProductNat ==
  ASSUME NEW a \in Nat, NEW b \in Nat
  PROVE  a * b \in Nat
  OBVIOUS

LEMMA ProductMonotone ==
  ASSUME NEW a \in Nat, NEW b \in Nat, NEW c \in Nat, b <= c
  PROVE  a * b <= a * c
<1>1. /\ c - b \in Nat /\ a * c = a * b + a * (c - b)
  OBVIOUS
<1>2. a * (c - b) \in Nat
  BY <1>1, ProductNat
<1> QED
  BY <1>1, <1>2, ProductNat

LEMMA MinOfTwo ==
  ASSUME NEW a \in Int, NEW b \in Int
  PROVE  Min({a, b}) \in {a, b} /\ Min({a, b}) <= a /\ Min({a, b}) <= b
<1>1. \E x \in {a, b} : \A y \in {a, b} : x <= y
  <2>1. CASE a <= b
    BY <2>1
  <2>2. CASE b <= a
    BY <2>2
  <2> QED
    BY <2>1, <2>2
<1> QED
  BY <1>1 DEF Min

LEMMA MoveKeepsNat ==
  ASSUME NEW t \in [TokenAccounts -> Nat], NEW amount \in Nat,
         NEW from \in TokenAccounts, NEW to \in TokenAccounts,
         t[from] >= amount
  PROVE  /\ Move(t, from, to, amount) \in [TokenAccounts -> Nat]
         /\ Move(t, from, to, amount)[from] >= t[from] - amount
<1>1. CASE from = to
  BY <1>1 DEF Move
<1>2. CASE from # to
  BY <1>2 DEF Move
<1> QED
  BY <1>1, <1>2

LEMMA PayDepositKeepsNat ==
  ASSUME tokens \in [TokenAccounts -> Nat],
         NEW payer \in Users, NEW m \in Markets,
         NEW price \in Nat, NEW timeout \in Int,
         PayDeposit(payer, m, price, timeout)
  PROVE  tokens' \in [TokenAccounts -> Nat]
<1>1. CASE price = 0
  BY <1>1 DEF PayDeposit
<1>2. CASE price # 0
  <2>1. /\ timeout \in Nat /\ tokens[payer] >= price * timeout
        /\ tokens' = Move(tokens, payer, m, price * timeout)
    BY <1>2 DEF PayDeposit, HasDeposit
  <2>2. price * timeout \in Nat
    BY <2>1, ProductNat
  <2> QED
    BY <2>1, <2>2, MoveKeepsNat DEF TokenAccounts
<1> QED
  BY <1>1, <1>2

LEMMA ReturnDepositKeepsNat ==
  ASSUME TypeOK, JobsComplete, NEW j \in Jobs, Exists(j),
         NEW to \in TokenAccounts, ReturnDeposit(j, to)
  PROVE  tokens' \in [TokenAccounts -> Nat]
<1> DEFINE total == job[j].price * job[j].timeout
<1>1. /\ job[j].price \in Nat /\ job[j].timeout \in Nat
      /\ job[j].market \in TokenAccounts
      /\ tokens \in [TokenAccounts -> Nat]
  BY DEF TypeOK, JobsComplete, JobType, ReturnDeposit, HasDeposit, TokenAccounts
<1>2. total \in Nat
  BY <1>1, ProductNat
<1>3. /\ tokens[job[j].market] >= total
      /\ tokens' = Move(tokens, job[j].market, to, total)
  BY DEF ReturnDeposit
<1> HIDE DEF total
<1> QED
  BY <1>1, <1>2, <1>3, MoveKeepsNat

\* A node never earns more than the deposit.
LEMMA ReimbursementBounded ==
  ASSUME NEW price \in Nat, NEW timeout \in Nat,
         NEW start \in Nat, NEW end \in Nat, start <= end
  PROVE  /\ price * timeout \in Nat
         /\ Reimbursement(price, timeout, start, end) \in 0 .. price * timeout
<1> DEFINE ran  == end - start
           paid == Min({ran, timeout})
<1>1. ran \in Int /\ ran >= 0 /\ timeout >= 0
  OBVIOUS
<1> HIDE DEF ran
<1>2. paid \in {ran, timeout} /\ paid <= timeout
  BY <1>1, MinOfTwo
<1>3. Reimbursement(price, timeout, start, end) = price * paid
  BY DEF Reimbursement, ran
<1> HIDE DEF paid
<1>4. paid \in Nat
  BY <1>1, <1>2
<1>5. price * timeout \in Nat /\ price * paid \in Nat /\ price * paid <= price * timeout
  BY <1>2, <1>4, ProductNat, ProductMonotone
<1> QED
  BY <1>3, <1>5

LEMMA SettleKeepsNat ==
  ASSUME TypeOK, JobsComplete, NEW j \in Jobs, Exists(j),
         NEW user \in TokenAccounts,
         NEW start \in Nat, start <= now, Settle(j, start, user)
  PROVE  tokens' \in [TokenAccounts -> Nat]
<1> DEFINE b      == job[j]
           total  == b.price * b.timeout
           amount == Reimbursement(b.price, b.timeout, start, now)
           once   == Move(tokens, b.market, user, amount)
<1>1. /\ b.price \in Nat /\ b.timeout \in Int /\ now \in Nat
      /\ b.market \in TokenAccounts /\ b.payer \in TokenAccounts
      /\ tokens \in [TokenAccounts -> Nat]
  BY DEF TypeOK, JobsComplete, JobType, TokenAccounts
<1>2. CASE b.price = 0
  BY <1>1, <1>2 DEF Settle
<1>3. CASE b.price # 0
  <2>1. /\ b.timeout \in Nat
        /\ tokens[b.market] >= total
        /\ tokens' = Move(once, b.market, b.payer, total - amount)
    BY <1>1, <1>3 DEF Settle, HasDeposit
  <2>2. total \in Nat /\ amount \in 0 .. total
    <3> HIDE DEF b
    <3> QED
      BY <1>1, <2>1, ReimbursementBounded
  <2> HIDE DEF total, amount, b
  <2>3. amount \in Nat /\ amount <= total /\ total \in Nat
    BY <2>2
  <2>4. once \in [TokenAccounts -> Nat] /\ once[b.market] >= tokens[b.market] - amount
    <3>1. tokens[b.market] >= amount
      BY <1>1, <2>1, <2>3
    <3> QED
      BY <1>1, <2>3, <3>1, MoveKeepsNat
  <2> HIDE DEF once
  <2>5. total - amount \in Nat /\ once[b.market] >= total - amount
    BY <1>1, <2>1, <2>3, <2>4
  <2> QED
    BY <1>1, <2>1, <2>4, <2>5, MoveKeepsNat
<1> QED
  BY <1>2, <1>3

-----------------------------------------------------------------------------
(* The inductive invariant: what the steps have in common *)

\* Replacing one market by one with a well-formed queue.
LEMMA MarketStep ==
  ASSUME IInv, NEW m \in Markets, NEW new \in MarketType, WellFormedQueue(new),
         market' = [market EXCEPT ![m] = new]
  PROVE  /\ market' \in [Markets -> MarketType]
         /\ QueueConsistent'
         /\ market'[m] = new
         /\ \A m2 \in Markets : m2 # m => market'[m2] = market[m2]
<1>1. market \in [Markets -> MarketType]
  BY DEF IInv, TypeOK
<1>2. /\ market' \in [Markets -> MarketType] /\ market'[m] = new
      /\ \A m2 \in Markets : m2 # m => market'[m2] = market[m2]
  BY <1>1
<1>3. QueueConsistent'
  BY <1>2 DEF IInv, QueueConsistent
<1> QED
  BY <1>2, <1>3

\* A step that starts no run and queues no job, and in which a job that still
\* waits or runs keeps its state and its market or loses its account.
LEMMA ShrinkingStep ==
  ASSUME IInv,
         \A m \in Markets, j \in Jobs :
           InQueue(market'[m], j) => InQueue(market[m], j),
         \A r \in Runs : run'[r] = run[r] \/ run'[r] = NoRun,
         \A j \in Jobs :
           \/ job'[j].state = job[j].state /\ job'[j].market = job[j].market
           \/ job'[j].state = "unused"
           \/ /\ \A m \in Markets : ~ InQueue(market'[m], j)
              /\ \A r \in Runs : run'[r].job # j
  PROVE  SingleAssignment'
<1>1. OneRunPerJob'
  BY NoneAssumption
     DEF IInv, SingleAssignment, OneRunPerJob, RunningJobNotSettled, IsLive, NoRun
<1>2. RunningJobNotSettled'
  BY DEF IInv, SingleAssignment, RunningJobNotSettled, IsLive
<1>3. WaitingJobQueued'
  BY DEF IInv, SingleAssignment, WaitingJobQueued
<1> QED
  BY <1>1, <1>2, <1>3 DEF SingleAssignment

\* A step that starts the run of a job which neither waits nor runs after it
\* was taken from the queues, if it waited at all.
LEMMA StartingStep ==
  ASSUME IInv, NEW j \in Jobs, NEW r \in Runs, NEW n \in Nodes,
         StartRun(r, j, n),
         \A r2 \in Runs : run[r2].job # j,
         \A m \in Markets : ~ InQueue(market'[m], j),
         \A m \in Markets, k \in Jobs :
           InQueue(market'[m], k) => InQueue(market[m], k),
         job'[j].state \in {"queued", "unused"},
         \A k \in Jobs : k # j => job'[k] = job[k]
  PROVE  /\ run' \in [Runs -> RunType]
         /\ SingleAssignment'
         /\ (now' = now) => RunsInThePast'
<1> DEFINE new == [job |-> j, node |-> n, time |-> now]
<1>1. run \in [Runs -> RunType] /\ now \in Nat
  BY DEF IInv, TypeOK
<1>2. /\ new \in RunType /\ new.job = j /\ new.node = n /\ new.time = now
      /\ new # NoRun /\ ~ IsLive(r)
      /\ run' = [run EXCEPT ![r] = new]
  BY <1>1, NoneAssumption DEF RunType, StartRun, NoRun
<1> HIDE DEF new
<1>3. /\ run' \in [Runs -> RunType] /\ run'[r] = new
      /\ \A r2 \in Runs : r2 # r => run'[r2] = run[r2]
  BY <1>1, <1>2
<1>4. OneRunPerJob'
  BY <1>2, <1>3 DEF IInv, SingleAssignment, OneRunPerJob, IsLive
<1>5. RunningJobNotSettled'
  <2> SUFFICES ASSUME NEW r2 \in Runs, run'[r2] # NoRun
               PROVE  /\ run'[r2].job \in Jobs
                      /\ run'[r2].node \in Nodes
                      /\ job'[run'[r2].job].state \in {"queued", "unused"}
                      /\ \A m \in Markets : ~ InQueue(market'[m], run'[r2].job)
    BY DEF RunningJobNotSettled, IsLive
  <2>1. CASE r2 = r
    BY <1>2, <1>3, <2>1
  <2>2. CASE r2 # r
    BY <1>3, <2>2 DEF IInv, SingleAssignment, RunningJobNotSettled, IsLive
  <2> QED
    BY <2>1, <2>2
<1>6. WaitingJobQueued'
  BY DEF IInv, SingleAssignment, WaitingJobQueued
<1>7. ASSUME now' = now
      PROVE  RunsInThePast'
  BY <1>1, <1>2, <1>3, <1>7 DEF IInv, RunsInThePast
<1> QED
  BY <1>3, <1>4, <1>5, <1>6, <1>7 DEF SingleAssignment

\* Replacing one job account.
LEMMA JobStep ==
  ASSUME IInv, NEW j \in Jobs, NEW new \in JobType,
         new.state \in {"queued", "done", "stopped"} =>
           new.market \in Markets /\ new.payer \in Users,
         job' = [job EXCEPT ![j] = new]
  PROVE  /\ job' \in [Jobs -> JobType]
         /\ JobsComplete'
         /\ job'[j] = new
         /\ \A k \in Jobs : k # j => job'[k] = job[k]
<1>1. job \in [Jobs -> JobType]
  BY DEF IInv, TypeOK
<1>2. /\ job' \in [Jobs -> JobType] /\ job'[j] = new
      /\ \A k \in Jobs : k # j => job'[k] = job[k]
  BY <1>1
<1>3. JobsComplete'
  BY <1>2 DEF IInv, JobsComplete, Exists, JobType
<1> QED
  BY <1>2, <1>3

\* Closing one run.
LEMMA RunClosed ==
  ASSUME IInv, NEW r \in Runs, run' = [run EXCEPT ![r] = NoRun],
         now' = now
  PROVE  /\ run' \in [Runs -> RunType]
         /\ RunsInThePast'
         /\ run'[r] = NoRun
         /\ \A r2 \in Runs : r2 # r => run'[r2] = run[r2]
<1>1. /\ run \in [Runs -> RunType] /\ now \in Nat
      /\ NoRun \in RunType /\ NoRun.time = 0
  BY DEF IInv, TypeOK, RunType, NoRun
<1> HIDE DEF NoRun
<1>2. /\ run' \in [Runs -> RunType] /\ run'[r] = NoRun
      /\ \A r2 \in Runs : r2 # r => run'[r2] = run[r2]
  BY <1>1
<1> QED
  BY <1>1, <1>2 DEF IInv, RunsInThePast

LEMMA NoAccounts ==
  /\ NoMarket \in MarketType /\ WellFormedQueue(NoMarket)
  /\ \A k : ~ InQueue(NoMarket, k)
  /\ NoJob \in JobType /\ NoJob.state = "unused"
<1>1. <<>> \in Seq(Jobs \cup Nodes) /\ DOMAIN <<>> = {}
  OBVIOUS
<1>0. NoTerms \in TermsType
  BY DEF NoTerms, TermsType
<1>2. NoMarket \in MarketType /\ NoMarket.queue = <<>> /\ NoMarket.queueType = "empty"
  BY <1>0, <1>1 DEF NoMarket, MarketType, QueueTypes
<1>3. NoJob \in JobType /\ NoJob.state = "unused"
  BY DEF NoJob, JobType
<1> HIDE DEF NoMarket, NoJob
<1>4. \A k : ~ InQueue(NoMarket, k)
  BY <1>1, <1>2 DEF InQueue
<1>5. WellFormedQueue(NoMarket)
  BY <1>1, <1>2 DEF WellFormedQueue, IsInjective
<1> QED
  BY <1>2, <1>3, <1>4, <1>5

-----------------------------------------------------------------------------
(* One lemma per instruction *)

LEMMA TickStep == IInv /\ Tick => IInv'
<1> SUFFICES ASSUME IInv, Tick PROVE IInv'
  OBVIOUS
<1>1. /\ UNCHANGED <<market, settings, job, run, tokens>> /\ now' = now + 1
      /\ now \in Nat
  BY DEF Tick, IInv, TypeOK
<1>2. TypeOK' /\ JobsComplete' /\ QueueConsistent'
  BY <1>1 DEF IInv, TypeOK, JobsComplete, Exists, QueueConsistent
<1>3. RunsInThePast'
  BY <1>1 DEF IInv, TypeOK, RunType, RunsInThePast
<1>4. SingleAssignment'
  BY <1>1, ShrinkingStep
<1> QED
  BY <1>2, <1>3, <1>4 DEF IInv

LEMMA OpenStep ==
  ASSUME IInv, NEW m \in Markets, NEW a \in Authorities, NEW t \in Terms,
         Open(m, a, t)
  PROVE  IInv'
<1> DEFINE stored == [t EXCEPT !.jobType = JobTypeFrom(t.jobType)]
           new == [NoMarket EXCEPT !.status = "open", !.authority = a,
                                   !.terms = stored]
<1>1. /\ UNCHANGED <<settings, job, run, tokens, now>>
      /\ market' = [market EXCEPT ![m] = new]
  BY DEF Open, NoMarket
<1>2. new \in MarketType /\ new.queue = <<>> /\ new.queueType = "empty"
  <2>1. /\ NoMarket \in MarketType /\ NoMarket.queue = <<>>
        /\ NoMarket.queueType = "empty" /\ a \in Users
    BY NoAccounts, UsersAssumption DEF NoMarket
  <2>2. stored \in TermsType
    BY <2>1, StoredTypes
  <2> HIDE DEF stored
  <2> QED
    BY <2>1, <2>2 DEF MarketType
<1> HIDE DEF new
<1>3. WellFormedQueue(new) /\ \A k : ~ InQueue(new, k)
  BY <1>2 DEF WellFormedQueue, InQueue, IsInjective
<1>4. /\ market' \in [Markets -> MarketType] /\ QueueConsistent'
      /\ market'[m] = new
      /\ \A m2 \in Markets : m2 # m => market'[m2] = market[m2]
  BY <1>1, <1>2, <1>3, MarketStep
<1>5. TypeOK' /\ JobsComplete' /\ RunsInThePast'
  BY <1>1, <1>4 DEF IInv, TypeOK, JobsComplete, Exists, RunsInThePast
<1>6. SingleAssignment'
  BY <1>1, <1>3, <1>4, ShrinkingStep
<1> QED
  BY <1>4, <1>5, <1>6 DEF IInv

\* A market whose queue is left alone or emptied, with jobs and runs unchanged.
LEMMA SettingsStep ==
  ASSUME IInv, NEW m \in Markets, NEW new \in MarketType,
         market' = [market EXCEPT ![m] = new],
         WellFormedQueue(new),
         \A k : InQueue(new, k) => InQueue(market[m], k),
         UNCHANGED <<job, run, now>>,
         settings' \in [Markets -> Keys \cup {SystemKey, None}],
         tokens' \in [TokenAccounts -> Nat]
  PROVE  IInv'
<1>1. /\ market' \in [Markets -> MarketType] /\ QueueConsistent'
      /\ market'[m] = new
      /\ \A m2 \in Markets : m2 # m => market'[m2] = market[m2]
  BY MarketStep
<1>2. TypeOK' /\ JobsComplete' /\ RunsInThePast'
  BY <1>1 DEF IInv, TypeOK, JobsComplete, Exists, RunsInThePast
<1>3. SingleAssignment'
  BY <1>1, ShrinkingStep
<1> QED
  BY <1>1, <1>2, <1>3 DEF IInv

LEMMA UpdateStep ==
  ASSUME IInv, NEW m \in Markets, NEW a \in Authorities, NEW t \in Terms,
         Update(m, a, t)
  PROVE  IInv'
<1> DEFINE stored == [t EXCEPT !.jobType = UpdatedType(market[m], t.jobType)]
           new == [market[m] EXCEPT !.terms = stored]
<1>1. /\ market[m] \in MarketType /\ WellFormedQueue(market[m])
      /\ market \in [Markets -> MarketType]
      /\ settings \in [Markets -> Keys \cup {SystemKey, None}]
      /\ tokens \in [TokenAccounts -> Nat]
  BY DEF IInv, TypeOK, QueueConsistent
<1>2. /\ new \in MarketType /\ new.queue = market[m].queue
      /\ new.queueType = market[m].queueType
  <2>1. stored \in TermsType
    BY <1>1, StoredTypes
  <2> HIDE DEF stored
  <2> QED
    BY <1>1, <2>1 DEF MarketType
<1>3. market' = [market EXCEPT ![m] = new]
  BY <1>1 DEF Update, MarketType
<1> HIDE DEF new
<1>4. WellFormedQueue(new) /\ \A k : InQueue(new, k) => InQueue(market[m], k)
  BY <1>1, <1>2 DEF WellFormedQueue, InQueue
<1> QED
  BY <1>1, <1>2, <1>3, <1>4, SettingsStep DEF Update

LEMMA RestrictStep ==
  ASSUME IInv, NEW m \in Markets, NEW b \in BOOLEAN,
         NEW key \in Keys \cup {SystemKey, None},
         market' = [market EXCEPT ![m].terms.jobType = WithFlag(@, b)],
         settings' = [settings EXCEPT ![m] = key],
         UNCHANGED <<job, run, tokens, now>>
  PROVE  IInv'
<1> DEFINE byte == WithFlag(market[m].terms.jobType, b)
           new == [market[m] EXCEPT !.terms.jobType = byte]
<1>1. /\ market[m] \in MarketType /\ WellFormedQueue(market[m])
      /\ market \in [Markets -> MarketType]
      /\ settings' \in [Markets -> Keys \cup {SystemKey, None}]
      /\ tokens' \in [TokenAccounts -> Nat]
  BY DEF IInv, TypeOK, QueueConsistent
<1>2. /\ new \in MarketType /\ new.queue = market[m].queue
      /\ new.queueType = market[m].queueType
  <2>1. byte \in 0 .. 255
    BY <1>1, JobTypeBytes DEF MarketType, TermsType
  <2> HIDE DEF byte
  <2> QED
    BY <1>1, <2>1 DEF MarketType, TermsType
<1>3. market' = [market EXCEPT ![m] = new]
  BY <1>1
<1> HIDE DEF new
<1>4. WellFormedQueue(new) /\ \A k : InQueue(new, k) => InQueue(market[m], k)
  BY <1>1, <1>2 DEF WellFormedQueue, InQueue
<1> QED
  BY <1>1, <1>2, <1>3, <1>4, SettingsStep

LEMMA CloseMarketStep ==
  ASSUME IInv, NEW m \in Markets, NEW user \in TokenAccounts,
         NEW supplied \in BOOLEAN, CloseMarket(m, user, supplied)
  PROVE  IInv'
<1>1. /\ market' = [market EXCEPT ![m] = NoMarket]
      /\ UNCHANGED <<job, run, now>>
      /\ tokens' = Move(tokens, m, user, tokens[m])
      /\ settings' = IF supplied THEN [settings EXCEPT ![m] = None] ELSE settings
  BY DEF CloseMarket
<1>2. settings' \in [Markets -> Keys \cup {SystemKey, None}]
  BY <1>1 DEF IInv, TypeOK
<1>3. /\ tokens \in [TokenAccounts -> Nat] /\ m \in TokenAccounts
      /\ tokens[m] \in Nat /\ tokens[m] >= tokens[m]
  BY DEF IInv, TypeOK, TokenAccounts
<1>4. tokens' \in [TokenAccounts -> Nat]
  BY <1>1, <1>3, MoveKeepsNat
<1> QED
  BY <1>1, <1>2, <1>4, NoAccounts, SettingsStep

\* The account List and Assign create.
LEMMA NewJobKeeps ==
  ASSUME IInv, NEW m \in Markets, NEW payer \in Payers, NEW p \in Projects,
         NEW t \in Timeouts
  PROVE  LET new == NewJob(m, payer, p, t) IN
         /\ new \in JobType
         /\ new.state = "queued" /\ new.market = m /\ new.payer \in Users
         /\ market[m].terms.price \in Nat
<1>1. market[m].terms.price \in Nat
  BY DEF IInv, TypeOK, MarketType, TermsType
<1>2. payer \in Users /\ p \in Users /\ t \in Int
  BY UsersAssumption, BoundsAssumption
<1>3. NoJob \in JobType
  BY NoAccounts
<1> HIDE DEF NoJob
<1> QED
  BY <1>1, <1>2, <1>3 DEF NewJob, JobType

\* An account is written at an address only where one exists or where no queue
\* and no run mentions the address.
FreshAddresses == \A j \in Jobs : Mentioned(j) /\ ~ Exists(j) => job'[j] = job[j]

LEMMA OneJobFresh ==
  ASSUME IInv, NEW j \in Jobs, Exists(j) \/ ~ Mentioned(j), NEW x,
         job' = [job EXCEPT ![j] = x]
  PROVE  FreshAddresses
<1>1. \A k \in Jobs : k # j => job'[k] = job[k]
  BY DEF IInv, TypeOK
<1> QED
  BY <1>1 DEF FreshAddresses

\* A step with fresh addresses is a step of the program.
LEMMA FreshSteps ==
  ASSUME IInv, FreshNext
  PROVE  Next /\ FreshAddresses
<1>0. job' = job => FreshAddresses
  BY DEF FreshAddresses
<1>1. CASE Tick
  BY <1>0, <1>1 DEF Tick, Next
<1>2. CASE MarketNext
  BY <1>0, <1>2 DEF MarketNext, Open, Update, SetSettings, CloseSettings, Close,
                    CloseMarket, Next
<1>3. CASE FreshCreateNext
  <2>1. CreateNext
    BY <1>3 DEF FreshCreateNext, FreshList, FreshAssign, CreateNext
  <2>2. FreshAddresses
    BY <1>3, OneJobFresh DEF FreshCreateNext, FreshList, FreshAssign, List, Assign
  <2> QED
    BY <2>1, <2>2 DEF Next, ProjectNext
<1>4. CASE DealNext
  <2>1. ASSUME NEW j \in Jobs, NEW p, Delist(j, p) \/ \E u : Recover(j, p, u)
        PROVE  FreshAddresses
    BY <2>1, OneJobFresh DEF Delist, Recover, Exists
  <2>2. ASSUME NEW j \in Jobs, NEW p,
               \/ \E payer, t : Extend(j, p, payer, t)
               \/ \E r : End(j, p, r)
        PROVE  FreshAddresses
    <3>1. Exists(j) /\ \A k \in Jobs : k # j => job'[k] = job[k]
      BY <2>2 DEF Extend, End, Exists, IInv, TypeOK
    <3> QED
      BY <3>1 DEF FreshAddresses
  <2> QED
    BY <1>4, <2>1, <2>2 DEF Next, ProjectNext, DealNext
<1>5. CASE NodeNext
  <2>1. ASSUME NEW n, NEW m, (\E r : Work(m, n, r)) \/ \E s : Stop(m, n, s)
        PROVE  FreshAddresses
    BY <1>0, <2>1 DEF Work, Stop
  <2>2. ASSUME NEW n, NEW j \in Jobs,
               \/ \E r, u : Finish(j, r, n, u)
               \/ \E r : Quit(j, r, n)
               \/ Complete(j, n)
        PROVE  FreshAddresses
    <3>1. Exists(j) /\ \A k \in Jobs : k # j => job'[k] = job[k]
      BY <2>2 DEF Finish, Quit, Complete, Exists, IInv, TypeOK
    <3> QED
      BY <3>1 DEF FreshAddresses
  <2> QED
    BY <1>5, <2>1, <2>2 DEF Next, NodeNext
<1>6. CASE AnyoneNext
  BY <1>6, OneJobFresh DEF AnyoneNext, Clean, Exists, Next
<1>7. CASE AdminNext
  BY <1>0, <1>7, OneJobFresh
     DEF AdminNext, CloseAdmin, CloseMarket, CleanAdmin, QuitAdmin, Next
<1> QED
  BY <1>1, <1>2, <1>3, <1>4, <1>5, <1>6, <1>7 DEF FreshNext, FreshProjectNext

LEMMA FreshBoxSteps ==
  ASSUME IInv, [FreshNext]_vars
  PROVE  (Next /\ FreshAddresses) \/ UNCHANGED vars
BY FreshSteps

\* An address at which a job is listed neither waits nor runs.
LEMMA UnusedJob ==
  ASSUME FreshAddresses, NEW j \in Jobs, job[j] = NoJob, job'[j].state = "queued"
  PROVE  /\ \A r \in Runs : run[r].job # j
         /\ \A m \in Markets : ~ InQueue(market[m], j)
<1>1. ~ Exists(j) /\ job'[j] # job[j]
  BY NoAccounts DEF Exists
<1> QED
  BY <1>1 DEF FreshAddresses, Mentioned

LEMMA ListedUnmentioned ==
  ASSUME IInv, FreshAddresses, NEW j \in Jobs, NEW m, NEW payer, NEW p, NEW t,
         job[j] = NoJob, job' = [job EXCEPT ![j] = NewJob(m, payer, p, t)]
  PROVE  /\ \A r \in Runs : run[r].job # j
         /\ \A m2 \in Markets : ~ InQueue(market[m2], j)
<1>1. NewJob(m, payer, p, t).state = "queued"
  BY DEF NewJob, NoJob
<1>2. job'[j].state = "queued"
  BY <1>1 DEF IInv, TypeOK
<1> QED
  BY <1>2, UnusedJob

LEMMA ListStep ==
  ASSUME IInv, FreshAddresses, NEW j \in Jobs, NEW m \in Markets, NEW payer \in Payers,
         NEW p \in Projects, NEW t \in Timeouts, NEW r \in Runs,
         List(j, m, payer, p, t, r)
  PROVE  IInv'
<1> DEFINE new == NewJob(m, payer, p, t)
<1>1. /\ job[j] = NoJob /\ job' = [job EXCEPT ![j] = new]
      /\ UNCHANGED <<settings, now>>
      /\ PayDeposit(payer, m, market[m].terms.price, t)
  BY DEF List
<1>2. /\ new \in JobType /\ new.state = "queued" /\ new.market = m
      /\ new.payer \in Users /\ market[m].terms.price \in Nat
  BY NewJobKeeps
<1> HIDE DEF new
<1>3. /\ job' \in [Jobs -> JobType] /\ JobsComplete' /\ job'[j] = new
      /\ \A k \in Jobs : k # j => job'[k] = job[k]
  BY <1>1, <1>2, JobStep
<1>4. tokens' \in [TokenAccounts -> Nat]
  <2>1. tokens \in [TokenAccounts -> Nat] /\ payer \in Users /\ t \in Int
    BY UsersAssumption, BoundsAssumption DEF IInv, TypeOK
  <2> QED
    BY <1>1, <1>2, <2>1, PayDepositKeepsNat
<1>5. /\ \A r2 \in Runs : run[r2].job # j
      /\ \A m2 \in Markets : ~ InQueue(market[m2], j)
  BY <1>1, <1>2, <1>3, UnusedJob
<1>6. market[m] \in MarketType /\ WellFormedQueue(market[m])
  BY DEF IInv, TypeOK, QueueConsistent
<1>7. settings' \in [Markets -> Keys \cup {SystemKey, None}] /\ now' \in Nat
  BY <1>1 DEF IInv, TypeOK
<1>8. CASE market[m].queueType \in {"job", "empty"}
  <2> DEFINE mk == AddToQueue(market[m], j, "job")
  <2>1. market' = [market EXCEPT ![m] = mk] /\ UNCHANGED run
    BY <1>8 DEF List
  <2>2. /\ mk \in MarketType /\ WellFormedQueue(mk)
        /\ \A k : InQueue(mk, k) => InQueue(market[m], k) \/ k = j
    BY <1>5, <1>6, <1>8, AddToQueueKeeps
  <2> HIDE DEF mk
  <2>3. /\ market' \in [Markets -> MarketType] /\ QueueConsistent'
        /\ market'[m] = mk
        /\ \A m2 \in Markets : m2 # m => market'[m2] = market[m2]
    BY <2>1, <2>2, MarketStep
  <2>4. TypeOK' /\ RunsInThePast'
    BY <1>1, <1>3, <1>4, <1>7, <2>1, <2>3 DEF IInv, TypeOK, RunsInThePast
  <2>5. OneRunPerJob'
    BY <2>1 DEF IInv, SingleAssignment, OneRunPerJob, IsLive
  <2>6. RunningJobNotSettled'
    <3> SUFFICES ASSUME NEW r2 \in Runs, run[r2] # NoRun
                 PROVE  /\ run[r2].job \in Jobs /\ run[r2].node \in Nodes
                        /\ job'[run[r2].job].state \in {"queued", "unused"}
                        /\ \A m2 \in Markets : ~ InQueue(market'[m2], run[r2].job)
      BY <2>1 DEF RunningJobNotSettled, IsLive
    <3> QED
      BY <1>3, <1>5, <2>2, <2>3
         DEF IInv, SingleAssignment, RunningJobNotSettled, IsLive
  <2>7. WaitingJobQueued'
    <3> SUFFICES ASSUME NEW m2 \in Markets, NEW k \in Jobs, InQueue(market'[m2], k)
                 PROVE  /\ job'[k].state \in {"queued", "unused"}
                        /\ job'[k].state = "queued" => job'[k].market = m2
                        /\ \A m3 \in Markets : InQueue(market'[m3], k) => m3 = m2
      BY DEF WaitingJobQueued
    <3>1. CASE k = j
      <4>1. m2 = m
        BY <1>5, <2>3, <3>1
      <4>2. \A m3 \in Markets : InQueue(market'[m3], k) => m3 = m
        BY <1>5, <2>3, <3>1
      <4> QED
        BY <1>2, <1>3, <3>1, <4>1, <4>2
    <3>2. CASE k # j
      <4>1. \A m3 \in Markets : InQueue(market'[m3], k) => InQueue(market[m3], k)
        BY <2>2, <2>3, <3>2
      <4> QED
        BY <1>3, <3>2, <4>1 DEF IInv, SingleAssignment, WaitingJobQueued
    <3> QED
      BY <3>1, <3>2
  <2> QED
    BY <1>3, <2>3, <2>4, <2>5, <2>6, <2>7 DEF IInv, SingleAssignment
<1>9. CASE market[m].queueType = "node"
  <2> DEFINE mk == PopFromQueue(market[m])
             n == Head(market[m].queue)
  <2>1. market' = [market EXCEPT ![m] = mk] /\ StartRun(r, j, n)
    BY <1>9 DEF List
  <2>2. /\ mk \in MarketType /\ WellFormedQueue(mk) /\ n \in Nodes
        /\ \A k : InQueue(mk, k) => InQueue(market[m], k)
    BY <1>6, <1>9, PopKeeps
  <2> HIDE DEF mk, n
  <2>3. /\ market' \in [Markets -> MarketType] /\ QueueConsistent'
        /\ market'[m] = mk
        /\ \A m2 \in Markets : m2 # m => market'[m2] = market[m2]
    BY <2>1, <2>2, MarketStep
  <2>4. \A m2 \in Markets : \A k : InQueue(market'[m2], k) => InQueue(market[m2], k)
    BY <2>2, <2>3
  <2>5. run' \in [Runs -> RunType] /\ SingleAssignment' /\ RunsInThePast'
    BY <1>1, <1>2, <1>3, <1>5, <2>1, <2>2, <2>4, StartingStep
  <2>6. TypeOK'
    BY <1>3, <1>4, <1>7, <2>3, <2>5 DEF TypeOK
  <2> QED
    BY <1>3, <2>3, <2>5, <2>6 DEF IInv
<1> QED
  BY <1>8, <1>9 DEF List

LEMMA AssignStep ==
  ASSUME IInv, FreshAddresses, NEW j \in Jobs, NEW m \in Markets, NEW payer \in Payers,
         NEW p \in Projects, NEW t \in Timeouts, NEW r \in Runs, NEW n \in Nodes,
         Assign(j, m, payer, p, t, r, n)
  PROVE  IInv'
<1> DEFINE new == NewJob(m, payer, p, t)
           mk  == RemoveFromQueue(market[m], n)
<1>1. /\ job[j] = NoJob /\ job' = [job EXCEPT ![j] = new]
      /\ market' = [market EXCEPT ![m] = mk] /\ StartRun(r, j, n)
      /\ InQueue(market[m], n)
      /\ UNCHANGED <<settings, now>>
      /\ PayDeposit(payer, m, market[m].terms.price, t)
  BY DEF Assign
<1>2. /\ new \in JobType /\ new.state = "queued" /\ new.market = m
      /\ new.payer \in Users /\ market[m].terms.price \in Nat
  BY NewJobKeeps
<1> HIDE DEF new
<1>3. /\ job' \in [Jobs -> JobType] /\ JobsComplete' /\ job'[j] = new
      /\ \A k \in Jobs : k # j => job'[k] = job[k]
  BY <1>1, <1>2, JobStep
<1>4. tokens' \in [TokenAccounts -> Nat]
  <2>1. tokens \in [TokenAccounts -> Nat] /\ payer \in Users /\ t \in Int
    BY UsersAssumption, BoundsAssumption DEF IInv, TypeOK
  <2> QED
    BY <1>1, <1>2, <2>1, PayDepositKeepsNat
<1>5. /\ \A r2 \in Runs : run[r2].job # j
      /\ \A m2 \in Markets : ~ InQueue(market[m2], j)
  BY <1>1, <1>2, <1>3, UnusedJob
<1>6. market[m] \in MarketType /\ WellFormedQueue(market[m])
  BY DEF IInv, TypeOK, QueueConsistent
<1>7. settings' \in [Markets -> Keys \cup {SystemKey, None}] /\ now' \in Nat
  BY <1>1 DEF IInv, TypeOK
<1>8. /\ mk \in MarketType /\ WellFormedQueue(mk)
      /\ \A k : InQueue(mk, k) => InQueue(market[m], k)
  BY <1>1, <1>6, RemoveKeeps
<1> HIDE DEF mk
<1>9. /\ market' \in [Markets -> MarketType] /\ QueueConsistent'
      /\ market'[m] = mk
      /\ \A m2 \in Markets : m2 # m => market'[m2] = market[m2]
  BY <1>1, <1>8, MarketStep
<1>10. \A m2 \in Markets : \A k : InQueue(market'[m2], k) => InQueue(market[m2], k)
  BY <1>8, <1>9
<1>11. run' \in [Runs -> RunType] /\ SingleAssignment' /\ RunsInThePast'
  BY <1>1, <1>2, <1>3, <1>5, <1>10, StartingStep
<1>12. TypeOK'
  BY <1>3, <1>4, <1>7, <1>9, <1>11 DEF TypeOK
<1> QED
  BY <1>3, <1>9, <1>11, <1>12 DEF IInv

LEMMA WorkStep ==
  ASSUME IInv, NEW m \in Markets, NEW n \in Nodes, NEW r \in Runs, Work(m, n, r)
  PROVE  IInv'
<1>1. /\ UNCHANGED <<settings, job, tokens, now>> /\ NodeMayEnter(m, n)
  BY DEF Work
<1>2. market[m] \in MarketType /\ WellFormedQueue(market[m])
  BY DEF IInv, TypeOK, QueueConsistent
<1>3. CASE market[m].queueType \in {"node", "empty"}
  <2> DEFINE mk == AddToQueue(market[m], n, "node")
  <2>1. market' = [market EXCEPT ![m] = mk] /\ UNCHANGED run
    BY <1>3 DEF Work
  <2>2. ~ InQueue(market[m], n)
    BY <1>1, <1>3 DEF NodeMayEnter
  <2>3. /\ mk \in MarketType /\ WellFormedQueue(mk)
        /\ \A k : InQueue(mk, k) => InQueue(market[m], k) \/ k = n
    BY <1>2, <1>3, <2>2, AddToQueueKeeps
  <2> HIDE DEF mk
  <2>4. /\ market' \in [Markets -> MarketType] /\ QueueConsistent'
        /\ market'[m] = mk
        /\ \A m2 \in Markets : m2 # m => market'[m2] = market[m2]
    BY <2>1, <2>3, MarketStep
  <2>5. n \notin Jobs
    BY UsersAssumption
  <2>6. \A m2 \in Markets, k \in Jobs :
          InQueue(market'[m2], k) => InQueue(market[m2], k)
    BY <2>3, <2>4, <2>5
  <2>7. SingleAssignment'
    BY <1>1, <2>1, <2>6, ShrinkingStep
  <2>8. TypeOK' /\ JobsComplete' /\ RunsInThePast'
    BY <1>1, <2>1, <2>4 DEF IInv, TypeOK, JobsComplete, Exists, RunsInThePast
  <2> QED
    BY <2>4, <2>7, <2>8 DEF IInv
<1>4. CASE market[m].queueType = "job"
  <2> DEFINE mk == PopFromQueue(market[m])
             j == Head(market[m].queue)
  <2>1. market' = [market EXCEPT ![m] = mk] /\ StartRun(r, j, n)
    BY <1>4 DEF Work
  <2>2. /\ mk \in MarketType /\ WellFormedQueue(mk) /\ j \in Jobs
        /\ InQueue(market[m], j)
        /\ \A k : InQueue(mk, k) => InQueue(market[m], k) /\ k # j
    BY <1>2, <1>4, PopKeeps
  <2> HIDE DEF mk, j
  <2>3. /\ market' \in [Markets -> MarketType] /\ QueueConsistent'
        /\ market'[m] = mk
        /\ \A m2 \in Markets : m2 # m => market'[m2] = market[m2]
    BY <2>1, <2>2, MarketStep
  <2>4. \A m2 \in Markets, k \in Jobs :
          InQueue(market'[m2], k) => InQueue(market[m2], k)
    BY <2>2, <2>3
  <2>5. ASSUME NEW r2 \in Runs, run[r2].job = j PROVE FALSE
    BY <2>2, <2>5, NoneAssumption
       DEF IInv, SingleAssignment, RunningJobNotSettled, IsLive, NoRun
  <2>6. /\ job[j].state \in {"queued", "unused"}
        /\ \A m2 \in Markets : InQueue(market[m2], j) => m2 = m
    BY <2>2 DEF IInv, SingleAssignment, WaitingJobQueued
  <2>7. \A m2 \in Markets : ~ InQueue(market'[m2], j)
    BY <2>2, <2>3, <2>4, <2>6
  <2>8. run' \in [Runs -> RunType] /\ SingleAssignment' /\ RunsInThePast'
    BY <1>1, <2>1, <2>2, <2>4, <2>5, <2>6, <2>7, StartingStep
  <2>9. TypeOK' /\ JobsComplete'
    BY <1>1, <2>3, <2>8 DEF IInv, TypeOK, JobsComplete, Exists
  <2> QED
    BY <2>3, <2>8, <2>9 DEF IInv
<1> QED
  BY <1>3, <1>4 DEF Work

\* Instructions that close or settle a job and start nothing: the market stays
\* as it is or loses keys from a queue.
LEMMA JobLeavesStep ==
  ASSUME IInv, NEW j \in Jobs, NEW new \in JobType,
         new.state \in {"queued", "done", "stopped"} =>
           new.market \in Markets /\ new.payer \in Users,
         job' = [job EXCEPT ![j] = new],
         \A m \in Markets, k \in Jobs :
           InQueue(market'[m], k) => InQueue(market[m], k),
         \A r \in Runs : run'[r] = run[r] \/ run'[r] = NoRun,
         \/ new.state = job[j].state /\ new.market = job[j].market
         \/ new.state = "unused"
         \/ /\ \A m \in Markets : ~ InQueue(market'[m], j)
            /\ \A r \in Runs : run'[r].job # j,
         market' \in [Markets -> MarketType], QueueConsistent',
         run' \in [Runs -> RunType], RunsInThePast',
         tokens' \in [TokenAccounts -> Nat],
         UNCHANGED <<settings, now>>
  PROVE  IInv'
<1>1. /\ job' \in [Jobs -> JobType] /\ JobsComplete' /\ job'[j] = new
      /\ \A k \in Jobs : k # j => job'[k] = job[k]
  BY JobStep
<1>2. SingleAssignment'
  BY <1>1, ShrinkingStep
<1>3. TypeOK'
  BY <1>1 DEF IInv, TypeOK
<1> QED
  BY <1>1, <1>2, <1>3 DEF IInv

\* The same when nothing but the job and the tokens change.
LEMMA JobOnlyStep ==
  ASSUME IInv, NEW j \in Jobs, NEW new \in JobType,
         new.state \in {"queued", "done", "stopped"} =>
           new.market \in Markets /\ new.payer \in Users,
         job' = [job EXCEPT ![j] = new],
         \/ new.state = job[j].state /\ new.market = job[j].market
         \/ new.state = "unused",
         tokens' \in [TokenAccounts -> Nat],
         UNCHANGED <<market, settings, run, now>>
  PROVE  IInv'
<1>1. /\ market' \in [Markets -> MarketType] /\ QueueConsistent'
      /\ run' \in [Runs -> RunType] /\ RunsInThePast'
  BY DEF IInv, TypeOK, QueueConsistent, RunsInThePast
<1> QED
  BY <1>1, JobLeavesStep

LEMMA DelistStep ==
  ASSUME IInv, NEW j \in Jobs, NEW p \in Projects, Delist(j, p)
  PROVE  IInv'
<1> DEFINE m  == job[j].market
           mk == RemoveFromQueue(market[m], j)
<1>1. /\ job[j].state = "queued" /\ Exists(j)
      /\ InQueue(market[m], j)
      /\ market' = [market EXCEPT ![m] = mk]
      /\ job' = [job EXCEPT ![j] = NoJob]
      /\ UNCHANGED <<settings, run, now>>
      /\ UNCHANGED tokens \/ ReturnDeposit(j, job[j].payer)
  BY DEF Delist, Exists
<1>2. m \in Markets /\ job[j].payer \in TokenAccounts
  BY <1>1 DEF IInv, JobsComplete, TokenAccounts
<1> HIDE DEF m
<1>3. market[m] \in MarketType /\ WellFormedQueue(market[m])
  BY <1>2 DEF IInv, TypeOK, QueueConsistent
<1>4. /\ mk \in MarketType /\ WellFormedQueue(mk)
      /\ \A k : InQueue(mk, k) => InQueue(market[m], k)
  BY <1>1, <1>3, RemoveKeeps
<1> HIDE DEF mk
<1>5. /\ market' \in [Markets -> MarketType] /\ QueueConsistent'
      /\ market'[m] = mk
      /\ \A m2 \in Markets : m2 # m => market'[m2] = market[m2]
  BY <1>1, <1>2, <1>4, MarketStep
<1>6. tokens' \in [TokenAccounts -> Nat]
  BY <1>1, <1>2, ReturnDepositKeepsNat DEF IInv, TypeOK
<1>7. run' \in [Runs -> RunType] /\ RunsInThePast'
  BY <1>1 DEF IInv, TypeOK, RunsInThePast
<1>8. \A m2 \in Markets, k \in Jobs :
        InQueue(market'[m2], k) => InQueue(market[m2], k)
  BY <1>4, <1>5
<1> QED
  BY <1>1, <1>5, <1>6, <1>7, <1>8, NoAccounts, JobLeavesStep

LEMMA RecoverStep ==
  ASSUME IInv, NEW j \in Jobs, NEW p \in Projects, NEW u \in TokenAccounts,
         Recover(j, p, u)
  PROVE  IInv'
<1>1. /\ Exists(j) /\ ReturnDeposit(j, u)
      /\ job' = [job EXCEPT ![j] = NoJob]
      /\ UNCHANGED <<market, settings, run, now>>
  BY DEF Recover, Exists
<1>2. tokens' \in [TokenAccounts -> Nat]
  BY <1>1, ReturnDepositKeepsNat DEF IInv
<1> QED
  BY <1>1, <1>2, NoAccounts, JobOnlyStep

LEMMA ExtendStep ==
  ASSUME IInv, NEW j \in Jobs, NEW p \in Projects, NEW payer \in Payers,
         NEW t \in Timeouts, Extend(j, p, payer, t)
  PROVE  IInv'
<1> DEFINE new == [job[j] EXCEPT !.timeout = t]
<1>1. /\ Exists(j) /\ job \in [Jobs -> JobType] /\ job[j] \in JobType
      /\ t \in Int /\ payer \in Users
      /\ job[j].market \in Markets /\ job[j].payer \in Users
      /\ tokens \in [TokenAccounts -> Nat]
  BY UsersAssumption, BoundsAssumption
     DEF Extend, Exists, IInv, TypeOK, JobsComplete
<1>2. /\ new \in JobType /\ new.state = job[j].state
      /\ new.market = job[j].market /\ new.payer = job[j].payer
  BY <1>1 DEF JobType
<1>3. job' = [job EXCEPT ![j] = new] /\ UNCHANGED <<market, settings, run, now>>
  BY <1>1 DEF Extend
<1> HIDE DEF new
<1>4. tokens' \in [TokenAccounts -> Nat]
  <2>1. /\ job[j].price \in Nat /\ t - job[j].timeout \in Int
        /\ PayDeposit(payer, job[j].market, job[j].price, t - job[j].timeout)
    BY <1>1 DEF Extend, JobType
  <2> QED
    BY <1>1, <2>1, PayDepositKeepsNat
<1> QED
  BY <1>1, <1>2, <1>3, <1>4, JobOnlyStep

\* A job that runs and whose run is closed: it neither waits nor runs after.
LEMMA RunEnds ==
  ASSUME IInv, NEW j \in Jobs, NEW r \in Runs, run[r].job = j,
         run' = [run EXCEPT ![r] = NoRun], UNCHANGED <<market, now>>
  PROVE  /\ market' \in [Markets -> MarketType] /\ QueueConsistent'
         /\ run' \in [Runs -> RunType] /\ RunsInThePast'
         /\ \A m \in Markets : ~ InQueue(market'[m], j)
         /\ \A r2 \in Runs : run'[r2].job # j
         /\ \A r2 \in Runs : run'[r2] = run[r2] \/ run'[r2] = NoRun
         /\ run[r].node \in Nodes /\ run[r].time \in Nat /\ run[r].time <= now
<1>1. /\ run' \in [Runs -> RunType] /\ RunsInThePast' /\ run'[r] = NoRun
      /\ \A r2 \in Runs : r2 # r => run'[r2] = run[r2]
  BY RunClosed
<1>2. IsLive(r) /\ run[r] \in RunType
  BY NoneAssumption DEF IsLive, NoRun, IInv, TypeOK
<1>3. \A r2 \in Runs : run'[r2].job # j
  BY <1>1, <1>2, NoneAssumption
     DEF IInv, SingleAssignment, OneRunPerJob, NoRun
<1>4. /\ \A m \in Markets : ~ InQueue(market'[m], j)
      /\ run[r].node \in Nodes
  BY <1>2 DEF IInv, SingleAssignment, RunningJobNotSettled
<1>5. market' \in [Markets -> MarketType] /\ QueueConsistent'
  BY DEF IInv, TypeOK, QueueConsistent
<1>6. run[r].time \in Nat /\ run[r].time <= now
  BY <1>2 DEF RunType, IInv, RunsInThePast
<1> QED
  BY <1>1, <1>3, <1>4, <1>5, <1>6

LEMMA EndStep ==
  ASSUME IInv, NEW j \in Jobs, NEW p \in Projects, NEW r \in Runs, End(j, p, r)
  PROVE  IInv'
<1> DEFINE new == [job[j] EXCEPT !.state = "done", !.timeStart = run[r].time,
                                 !.timeEnd = now, !.node = run[r].node]
<1>1. /\ Exists(j) /\ run[r].job = j
      /\ run' = [run EXCEPT ![r] = NoRun]
      /\ Settle(j, run[r].time, run[r].node)
      /\ UNCHANGED <<market, settings, now>>
  BY DEF End
<1>2. /\ market' \in [Markets -> MarketType] /\ QueueConsistent'
      /\ run' \in [Runs -> RunType] /\ RunsInThePast'
      /\ \A m \in Markets : ~ InQueue(market'[m], j)
      /\ \A r2 \in Runs : run'[r2].job # j
      /\ \A r2 \in Runs : run'[r2] = run[r2] \/ run'[r2] = NoRun
      /\ run[r].node \in Nodes /\ run[r].time \in Nat /\ run[r].time <= now
  BY <1>1, RunEnds
<1>3. /\ job \in [Jobs -> JobType] /\ job[j] \in JobType /\ now \in Nat
      /\ job[j].market \in Markets /\ job[j].payer \in Users
  BY <1>1 DEF IInv, TypeOK, JobsComplete
<1>4. new \in JobType /\ new.market \in Markets /\ new.payer \in Users
  BY <1>2, <1>3 DEF JobType
<1>5. job' = [job EXCEPT ![j] = new]
  BY <1>3 DEF End
<1> HIDE DEF new
<1>6. tokens' \in [TokenAccounts -> Nat]
  BY <1>1, <1>2, UsersAssumption, SettleKeepsNat DEF IInv, TokenAccounts
<1>7. \A m \in Markets, k \in Jobs :
        InQueue(market'[m], k) => InQueue(market[m], k)
  BY <1>1
<1> QED
  BY <1>1, <1>2, <1>4, <1>5, <1>6, <1>7, JobLeavesStep

LEMMA StopStep ==
  ASSUME IInv, NEW m \in Markets, NEW n \in Nodes, NEW signer, Stop(m, n, signer)
  PROVE  IInv'
<1> DEFINE mk == RemoveFromQueue(market[m], n)
<1>1. /\ InQueue(market[m], n) /\ market' = [market EXCEPT ![m] = mk]
      /\ UNCHANGED <<settings, job, run, tokens, now>>
  BY DEF Stop
<1>2. /\ market[m] \in MarketType /\ WellFormedQueue(market[m])
      /\ settings' \in [Markets -> Keys \cup {SystemKey, None}]
      /\ tokens' \in [TokenAccounts -> Nat]
  BY <1>1 DEF IInv, TypeOK, QueueConsistent
<1>3. /\ mk \in MarketType /\ WellFormedQueue(mk)
      /\ \A k : InQueue(mk, k) => InQueue(market[m], k)
  BY <1>1, <1>2, RemoveKeeps
<1> HIDE DEF mk
<1> QED
  BY <1>1, <1>2, <1>3, SettingsStep

LEMMA FinishStep ==
  ASSUME IInv, NEW j \in Jobs, NEW r \in Runs, NEW n \in Nodes,
         NEW u \in TokenAccounts, Finish(j, r, n, u)
  PROVE  IInv'
<1> DEFINE new == [job[j] EXCEPT !.state = "done", !.timeStart = run[r].time,
                                 !.timeEnd = now, !.node = n, !.result = TRUE]
<1>1. /\ Exists(j) /\ run[r].job = j
      /\ run' = [run EXCEPT ![r] = NoRun]
      /\ Settle(j, run[r].time, u)
      /\ UNCHANGED <<market, settings, now>>
  BY DEF Finish, Exists
<1>2. /\ market' \in [Markets -> MarketType] /\ QueueConsistent'
      /\ run' \in [Runs -> RunType] /\ RunsInThePast'
      /\ \A m \in Markets : ~ InQueue(market'[m], j)
      /\ \A r2 \in Runs : run'[r2].job # j
      /\ \A r2 \in Runs : run'[r2] = run[r2] \/ run'[r2] = NoRun
      /\ run[r].node \in Nodes /\ run[r].time \in Nat /\ run[r].time <= now
  BY <1>1, RunEnds
<1>3. /\ job \in [Jobs -> JobType] /\ job[j] \in JobType /\ now \in Nat
      /\ job[j].market \in Markets /\ job[j].payer \in Users
  BY <1>1 DEF IInv, TypeOK, JobsComplete
<1>4. new \in JobType /\ new.market \in Markets /\ new.payer \in Users
  BY <1>2, <1>3 DEF JobType
<1>5. job' = [job EXCEPT ![j] = new]
  BY <1>3 DEF Finish
<1> HIDE DEF new
<1>6. tokens' \in [TokenAccounts -> Nat]
  BY <1>1, <1>2, SettleKeepsNat DEF IInv
<1>7. \A m \in Markets, k \in Jobs :
        InQueue(market'[m], k) => InQueue(market[m], k)
  BY <1>1
<1> QED
  BY <1>1, <1>2, <1>4, <1>5, <1>6, <1>7, JobLeavesStep

LEMMA QuitStep ==
  ASSUME IInv, NEW j \in Jobs, NEW r \in Runs, NEW n \in Nodes, Quit(j, r, n)
  PROVE  IInv'
<1> DEFINE new == [job[j] EXCEPT !.state = "stopped"]
<1>1. /\ Exists(j) /\ run[r].job = j
      /\ run' = [run EXCEPT ![r] = NoRun]
      /\ UNCHANGED <<market, settings, tokens, now>>
  BY DEF Quit
<1>2. /\ market' \in [Markets -> MarketType] /\ QueueConsistent'
      /\ run' \in [Runs -> RunType] /\ RunsInThePast'
      /\ \A m \in Markets : ~ InQueue(market'[m], j)
      /\ \A r2 \in Runs : run'[r2].job # j
      /\ \A r2 \in Runs : run'[r2] = run[r2] \/ run'[r2] = NoRun
  BY <1>1, RunEnds
<1>3. /\ job \in [Jobs -> JobType] /\ job[j] \in JobType
      /\ job[j].market \in Markets /\ job[j].payer \in Users
      /\ tokens' \in [TokenAccounts -> Nat]
  BY <1>1 DEF IInv, TypeOK, JobsComplete
<1>4. new \in JobType /\ new.market \in Markets /\ new.payer \in Users
  BY <1>3 DEF JobType
<1>5. job' = [job EXCEPT ![j] = new]
  BY <1>3 DEF Quit
<1> HIDE DEF new
<1>6. \A m \in Markets, k \in Jobs :
        InQueue(market'[m], k) => InQueue(market[m], k)
  BY <1>1
<1> QED
  BY <1>1, <1>2, <1>3, <1>4, <1>5, <1>6, JobLeavesStep

LEMMA CompleteStep ==
  ASSUME IInv, NEW j \in Jobs, NEW n \in Nodes, Complete(j, n)
  PROVE  IInv'
<1> DEFINE new == [job[j] EXCEPT !.result = TRUE]
<1>1. /\ Exists(j) /\ job \in [Jobs -> JobType] /\ job[j] \in JobType
      /\ job[j].market \in Markets /\ job[j].payer \in Users
      /\ tokens' \in [TokenAccounts -> Nat]
  BY DEF Complete, Exists, IInv, TypeOK, JobsComplete
<1>2. /\ new \in JobType /\ new.state = job[j].state
      /\ new.market = job[j].market /\ new.payer = job[j].payer
  BY <1>1 DEF JobType
<1>3. job' = [job EXCEPT ![j] = new] /\ UNCHANGED <<market, settings, run, now>>
  BY <1>1 DEF Complete
<1> HIDE DEF new
<1> QED
  BY <1>1, <1>2, <1>3, JobOnlyStep

LEMMA CleanStep ==
  ASSUME IInv, NEW j \in Jobs, job' = [job EXCEPT ![j] = NoJob],
         UNCHANGED <<market, settings, run, tokens, now>>
  PROVE  IInv'
<1>1. tokens' \in [TokenAccounts -> Nat]
  BY DEF IInv, TypeOK
<1> QED
  BY <1>1, NoAccounts, JobOnlyStep

LEMMA QuitAdminStep ==
  ASSUME IInv, NEW r \in Runs, NEW signer, QuitAdmin(r, signer)
  PROVE  IInv'
<1>1. /\ run' = [run EXCEPT ![r] = NoRun]
      /\ UNCHANGED <<market, settings, job, tokens, now>>
  BY DEF QuitAdmin
<1>2. /\ run' \in [Runs -> RunType] /\ RunsInThePast' /\ run'[r] = NoRun
      /\ \A r2 \in Runs : r2 # r => run'[r2] = run[r2]
  BY <1>1, RunClosed
<1>3. SingleAssignment'
  BY <1>1, <1>2, ShrinkingStep
<1>4. TypeOK' /\ JobsComplete' /\ QueueConsistent'
  BY <1>1, <1>2 DEF IInv, TypeOK, JobsComplete, Exists, QueueConsistent
<1> QED
  BY <1>2, <1>3, <1>4 DEF IInv

-----------------------------------------------------------------------------
(* The invariant holds at the start and every step keeps it *)

LEMMA InitIInv == Init => IInv
<1> SUFFICES ASSUME Init PROVE IInv
  OBVIOUS
<1>1. /\ market \in [Markets -> MarketType] /\ QueueConsistent
      /\ \A m \in Markets : \A k : ~ InQueue(market[m], k)
  BY NoAccounts DEF Init, QueueConsistent
<1>2. /\ job \in [Jobs -> JobType] /\ \A j \in Jobs : job[j].state = "unused"
  BY NoAccounts DEF Init
<1>3. /\ run \in [Runs -> RunType] /\ now = 0
      /\ \A r \in Runs : run[r] = NoRun /\ run[r].time = 0
  BY DEF Init, RunType, NoRun
<1>4. /\ settings \in [Markets -> Keys \cup {SystemKey, None}]
      /\ tokens \in [TokenAccounts -> Nat]
  BY BoundsAssumption DEF Init, TokenAccounts
<1>5. TypeOK
  BY <1>1, <1>2, <1>3, <1>4 DEF TypeOK
<1>6. JobsComplete /\ RunsInThePast
  BY <1>2, <1>3 DEF JobsComplete, Exists, RunsInThePast
<1>7. SingleAssignment
  BY <1>1, <1>3
     DEF SingleAssignment, OneRunPerJob, RunningJobNotSettled,
         WaitingJobQueued, IsLive
<1> QED
  BY <1>1, <1>5, <1>6, <1>7 DEF IInv

LEMMA DestinationIsAccount ==
  ASSUME NEW m, NEW u \in Destinations(m)
  PROVE  u \in TokenAccounts
  BY DEF Destinations, TokenAccounts

LEMMA NextIInv == IInv /\ [FreshNext]_vars => IInv'
<1> SUFFICES ASSUME IInv, [FreshNext]_vars PROVE IInv'
  OBVIOUS
<1>1. CASE Tick
  BY <1>1, TickStep
<1>2. CASE MarketNext
  <2>1. ASSUME NEW m \in Markets, NEW a \in Authorities, NEW t \in Terms,
               Open(m, a, t) \/ Update(m, a, t)
        PROVE  IInv'
    BY <2>1, OpenStep, UpdateStep
  <2>2. ASSUME NEW m \in Markets, NEW a \in Authorities,
               NEW k \in Keys \cup {SystemKey}, SetSettings(m, a, k)
        PROVE  IInv'
    BY <2>2, RestrictStep DEF SetSettings
  <2>3. ASSUME NEW m \in Markets, NEW a \in Authorities, CloseSettings(m, a)
        PROVE  IInv'
    BY <2>3, RestrictStep DEF CloseSettings
  <2>4. ASSUME NEW m \in Markets, NEW a \in Authorities,
               NEW u \in Destinations(m), NEW s \in BOOLEAN, Close(m, a, u, s)
        PROVE  IInv'
    BY <2>4, CloseMarketStep, DestinationIsAccount DEF Close
  <2> QED
    BY <1>2, <2>1, <2>2, <2>3, <2>4 DEF MarketNext
<1>3. ASSUME ProjectNext, FreshAddresses PROVE IInv'
  <2>1. ASSUME NEW j \in Jobs, NEW p \in Projects, NEW m \in Markets,
               NEW payer \in Payers, NEW t \in Timeouts, NEW r \in Runs,
               \/ List(j, m, payer, p, t, r)
               \/ \E n \in Nodes : Assign(j, m, payer, p, t, r, n)
        PROVE  IInv'
    BY <1>3, <2>1, ListStep, AssignStep
  <2>2. ASSUME NEW j \in Jobs, NEW p \in Projects,
               \/ Delist(j, p)
               \/ \E u \in TokenAccounts : Recover(j, p, u)
               \/ \E payer \in Payers, t \in Timeouts : Extend(j, p, payer, t)
               \/ \E r \in Runs : End(j, p, r)
        PROVE  IInv'
    BY <2>2, DelistStep, RecoverStep, ExtendStep, EndStep
  <2> QED
    BY <1>3, <2>1, <2>2 DEF ProjectNext, CreateNext, DealNext
<1>4. CASE NodeNext
  <2>1. ASSUME NEW n \in Nodes,
               \/ \E m \in Markets, r \in Runs : Work(m, n, r)
               \/ \E m \in Markets, s \in Nodes \cup Authorities : Stop(m, n, s)
        PROVE  IInv'
    BY <2>1, WorkStep, StopStep
  <2>2. ASSUME NEW n \in Nodes, NEW j \in Jobs,
               \/ \E r \in Runs, u \in TokenAccounts : Finish(j, r, n, u)
               \/ \E r \in Runs : Quit(j, r, n)
               \/ Complete(j, n)
        PROVE  IInv'
    BY <2>2, FinishStep, QuitStep, CompleteStep
  <2> QED
    BY <1>4, <2>1, <2>2 DEF NodeNext
<1>5. CASE AnyoneNext
  BY <1>5, CleanStep DEF AnyoneNext, Clean
<1>6. CASE AdminNext
  <2>1. ASSUME NEW m \in Markets, NEW u \in Destinations(m), NEW s \in BOOLEAN,
               CloseAdmin(m, MarketAdmin, u, s)
        PROVE  IInv'
    BY <2>1, CloseMarketStep, DestinationIsAccount DEF CloseAdmin
  <2>2. ASSUME NEW j \in Jobs, CleanAdmin(j, MarketAdmin)
        PROVE  IInv'
    BY <2>2, CleanStep DEF CleanAdmin
  <2>3. ASSUME NEW r \in Runs, QuitAdmin(r, MarketAdmin)
        PROVE  IInv'
    BY <2>3, QuitAdminStep
  <2> QED
    BY <1>6, <2>1, <2>2, <2>3 DEF AdminNext
<1>7. CASE UNCHANGED vars
  <2>1. UNCHANGED <<market, settings, job, run, tokens, now>>
    BY <1>7 DEF vars
  <2>2. SingleAssignment'
    BY <2>1, ShrinkingStep
  <2> QED
    BY <2>1, <2>2
       DEF IInv, TypeOK, JobsComplete, Exists, RunsInThePast, QueueConsistent
<1> QED
  BY <1>1, <1>2, <1>3, <1>4, <1>5, <1>6, <1>7, FreshBoxSteps DEF Next

\* IInv, the conjunction of the facts the handlers rely on, is an invariant of
\* the program, whatever the number of markets, jobs, runs, nodes and users,
\* the terms, the timeouts and the queue capacity.
THEOREM IInvHolds == SpecFresh => []IInv
<1>1. Init => IInv
  BY InitIInv
<1>2. IInv /\ [FreshNext]_vars => IInv'
  BY NextIInv
<1> QED
  BY <1>1, <1>2, PTL DEF SpecFresh

\* Every account keeps the shape the program declares and no transfer leaves a
\* negative balance.
THEOREM TypeCorrect == SpecFresh => []TypeOK
<1>1. IInv => TypeOK
  BY DEF IInv
<1> QED
  BY <1>1, IInvHolds, PTL

\* The type of a queue tells what is in it, and no key is in it twice.
THEOREM QueueIsConsistent == SpecFresh => []QueueConsistent
<1>1. IInv => QueueConsistent
  BY DEF IInv
<1> QED
  BY <1>1, IInvHolds, PTL

\* No job is given to two nodes, runs while it waits, or is settled twice,
\* although End and Quit do not look at the state of the job.
THEOREM AssignedOnce == SpecFresh => []SingleAssignment
<1>1. IInv => SingleAssignment
  BY DEF IInv
<1> QED
  BY <1>1, IInvHolds, PTL

-----------------------------------------------------------------------------
(* The restricted flag and the settings account *)

LEMMA QueueOperationsKeepFlag ==
  ASSUME NEW mk \in MarketType
  PROVE  /\ \A key, type : IsRestricted(AddToQueue(mk, key, type)) <=> IsRestricted(mk)
         /\ IsRestricted(PopFromQueue(mk)) <=> IsRestricted(mk)
         /\ \A key : IsRestricted(RemoveFromQueue(mk, key)) <=> IsRestricted(mk)
<1>1. /\ \A key, type : AddToQueue(mk, key, type).terms = mk.terms
      /\ PopFromQueue(mk).terms = mk.terms
      /\ \A key : RemoveFromQueue(mk, key).terms = mk.terms
  BY DEF MarketType, AddToQueue, PopFromQueue, RemoveFromQueue, WithQueue
<1> QED
  BY <1>1 DEF IsRestricted

\* A step that changes one market but neither its flag nor any settings.
LEMMA FlagUntouched ==
  ASSUME TypeOK, RestrictedIffSettings, NEW m \in Markets, NEW new,
         IsRestricted(new) <=> IsRestricted(market[m]),
         market' = [market EXCEPT ![m] = new],
         UNCHANGED settings
  PROVE  RestrictedIffSettings'
<1>1. /\ market'[m] = new
      /\ \A m2 \in Markets : m2 # m => market'[m2] = market[m2]
  BY DEF TypeOK
<1> QED
  BY <1>1 DEF RestrictedIffSettings

LEMMA FlagWritten ==
  ASSUME TypeOK, RestrictedIffSettings, NEW m \in Markets, NEW new, NEW key,
         IsRestricted(new) <=> key # None,
         market' = [market EXCEPT ![m] = new],
         settings' = [settings EXCEPT ![m] = key]
  PROVE  RestrictedIffSettings'
<1>1. /\ market'[m] = new /\ settings'[m] = key
      /\ \A m2 \in Markets : m2 # m => /\ market'[m2] = market[m2]
                                       /\ settings'[m2] = settings[m2]
  BY DEF TypeOK
<1> QED
  BY <1>1 DEF RestrictedIffSettings

LEMMA CloseMarketFlag ==
  ASSUME TypeOK, RestrictedIffSettings, NEW m \in Markets, NEW u,
         NEW supplied \in BOOLEAN, CloseMarket(m, u, supplied)
  PROVE  RestrictedIffSettings'
<1>1. /\ IsRestricted(market[m]) => supplied
      /\ market' = [market EXCEPT ![m] = NoMarket]
      /\ settings' = IF supplied THEN [settings EXCEPT ![m] = None] ELSE settings
  BY DEF CloseMarket
<1>2. ~ IsRestricted(NoMarket)
  BY DEF NoMarket, NoTerms, IsRestricted, RESTRICTED
<1>3. CASE supplied
  BY <1>1, <1>2, <1>3, FlagWritten
<1>4. CASE ~ supplied
  BY <1>1, <1>2, <1>4, FlagUntouched
<1> QED
  BY <1>3, <1>4

LEMMA NextFlag ==
  IInv /\ RestrictedIffSettings /\ [FreshNext]_vars => RestrictedIffSettings'
<1> SUFFICES ASSUME IInv, RestrictedIffSettings, [FreshNext]_vars
             PROVE  RestrictedIffSettings'
  OBVIOUS
<1> USE DEF IInv
<1>1. ASSUME NEW m \in Markets PROVE market[m] \in MarketType
  BY <1>1 DEF TypeOK
<1>2. ASSUME UNCHANGED <<market, settings>> PROVE RestrictedIffSettings'
  BY <1>2 DEF RestrictedIffSettings
<1>3. CASE Tick
  BY <1>2, <1>3 DEF Tick
<1>4. CASE MarketNext
  <2>1. ASSUME NEW m \in Markets, NEW a \in Authorities, NEW t \in Terms,
               Open(m, a, t)
        PROVE  RestrictedIffSettings'
    <3> DEFINE byte == JobTypeFrom(t.jobType)
               new == [NoMarket EXCEPT !.status = "open", !.authority = a,
                                       !.terms = [t EXCEPT !.jobType = byte]]
    <3>1. IsRestricted(new) <=> IsRestricted(market[m])
      <4>1. t \in TermsType /\ byte \in 0 .. RESTRICTED - 1
        BY <1>1, TermsAssumption, StoredTypes DEF TermsType
      <4> HIDE DEF byte
      <4>2. new.terms.jobType = byte
        BY <4>1 DEF NoMarket, TermsType
      <4>3. market[m].terms.jobType = 0
        BY <2>1 DEF Open, NoMarket, NoTerms
      <4> HIDE DEF new
      <4> QED
        BY <4>1, <4>2, <4>3 DEF IsRestricted, RESTRICTED
    <3>2. market' = [market EXCEPT ![m] = new] /\ UNCHANGED settings
      BY <2>1 DEF Open, NoMarket
    <3> HIDE DEF new
    <3> QED
      BY <3>1, <3>2, FlagUntouched
  <2>2. ASSUME NEW m \in Markets, NEW a \in Authorities, NEW t \in Terms,
               Update(m, a, t)
        PROVE  RestrictedIffSettings'
    <3> DEFINE byte == UpdatedType(market[m], t.jobType)
               new == [market[m] EXCEPT !.terms = [t EXCEPT !.jobType = byte]]
    <3>1. IsRestricted(new) <=> IsRestricted(market[m])
      <4>1. t \in TermsType /\ (byte >= RESTRICTED <=> IsRestricted(market[m]))
        BY <1>1, TermsAssumption, StoredTypes DEF TermsType
      <4> HIDE DEF byte
      <4>2. new.terms.jobType = byte
        BY <1>1, <4>1 DEF MarketType, TermsType
      <4> QED
        BY <4>1, <4>2 DEF IsRestricted
    <3>2. market' = [market EXCEPT ![m] = new] /\ UNCHANGED settings
      BY <1>1, <2>2 DEF Update, TypeOK, MarketType
    <3> HIDE DEF new
    <3> QED
      BY <3>1, <3>2, FlagUntouched
  <2>3. ASSUME NEW m \in Markets, NEW a \in Authorities,
               NEW k \in Keys \cup {SystemKey}, SetSettings(m, a, k)
        PROVE  RestrictedIffSettings'
    <3> DEFINE byte == WithFlag(market[m].terms.jobType, TRUE)
               new == [market[m] EXCEPT !.terms.jobType = byte]
    <3>1. IsRestricted(new) /\ k # None
      <4>1. byte \in 0 .. 255 /\ (byte >= RESTRICTED <=> TRUE)
        BY <1>1, JobTypeBytes DEF MarketType, TermsType
      <4> HIDE DEF byte
      <4>2. new.terms.jobType = byte
        BY <1>1, <4>1 DEF MarketType, TermsType
      <4> QED
        BY <4>1, <4>2, NoneAssumption DEF IsRestricted
    <3>2. /\ market' = [market EXCEPT ![m] = new]
          /\ settings' = [settings EXCEPT ![m] = k]
      BY <2>3 DEF SetSettings, TypeOK
    <3> HIDE DEF new
    <3> QED
      BY <3>1, <3>2, FlagWritten
  <2>4. ASSUME NEW m \in Markets, NEW a \in Authorities, CloseSettings(m, a)
        PROVE  RestrictedIffSettings'
    <3> DEFINE byte == WithFlag(market[m].terms.jobType, FALSE)
               new == [market[m] EXCEPT !.terms.jobType = byte]
    <3>1. ~ IsRestricted(new)
      <4>1. byte \in 0 .. 255 /\ (byte >= RESTRICTED <=> FALSE)
        BY <1>1, JobTypeBytes DEF MarketType, TermsType
      <4> HIDE DEF byte
      <4>2. new.terms.jobType = byte
        BY <1>1, <4>1 DEF MarketType, TermsType
      <4> QED
        BY <4>1, <4>2 DEF IsRestricted
    <3>2. /\ market' = [market EXCEPT ![m] = new]
          /\ settings' = [settings EXCEPT ![m] = None]
      BY <2>4 DEF CloseSettings, TypeOK
    <3> HIDE DEF new
    <3> QED
      BY <3>1, <3>2, FlagWritten
  <2>5. ASSUME NEW m \in Markets, NEW a \in Authorities,
               NEW u \in Destinations(m), NEW s \in BOOLEAN, Close(m, a, u, s)
        PROVE  RestrictedIffSettings'
    BY <2>5, CloseMarketFlag DEF Close
  <2> QED
    BY <1>4, <2>1, <2>2, <2>3, <2>4, <2>5 DEF MarketNext
<1>5. CASE ProjectNext
  <2>1. ASSUME NEW j \in Jobs, NEW p \in Projects, NEW m \in Markets,
               NEW payer \in Payers, NEW t \in Timeouts, NEW r \in Runs,
               List(j, m, payer, p, t, r)
        PROVE  RestrictedIffSettings'
    BY <1>1, <2>1, QueueOperationsKeepFlag, FlagUntouched DEF List
  <2>2. ASSUME NEW j \in Jobs, NEW p \in Projects, NEW m \in Markets,
               NEW payer \in Payers, NEW t \in Timeouts, NEW r \in Runs,
               NEW n \in Nodes, Assign(j, m, payer, p, t, r, n)
        PROVE  RestrictedIffSettings'
    BY <1>1, <2>2, QueueOperationsKeepFlag, FlagUntouched DEF Assign
  <2>3. ASSUME NEW j \in Jobs, NEW p \in Projects, Delist(j, p)
        PROVE  RestrictedIffSettings'
    <3>1. job[j].market \in Markets
      BY <2>3 DEF Delist, Exists, JobsComplete
    <3> QED
      BY <1>1, <2>3, <3>1, QueueOperationsKeepFlag, FlagUntouched DEF Delist
  <2>4. ASSUME NEW j \in Jobs, NEW p \in Projects,
               \/ \E u \in TokenAccounts : Recover(j, p, u)
               \/ \E payer \in Payers, t \in Timeouts : Extend(j, p, payer, t)
               \/ \E r \in Runs : End(j, p, r)
        PROVE  RestrictedIffSettings'
    BY <1>2, <2>4 DEF Recover, Extend, End
  <2> QED
    BY <1>5, <2>1, <2>2, <2>3, <2>4 DEF ProjectNext, CreateNext, DealNext
<1>6. CASE NodeNext
  <2>1. ASSUME NEW m \in Markets, NEW n \in Nodes, NEW r \in Runs, Work(m, n, r)
        PROVE  RestrictedIffSettings'
    BY <1>1, <2>1, QueueOperationsKeepFlag, FlagUntouched DEF Work
  <2>2. ASSUME NEW m \in Markets, NEW n \in Nodes, NEW s, Stop(m, n, s)
        PROVE  RestrictedIffSettings'
    BY <1>1, <2>2, QueueOperationsKeepFlag, FlagUntouched DEF Stop
  <2>3. ASSUME NEW n \in Nodes, NEW j \in Jobs,
               \/ \E r \in Runs, u \in TokenAccounts : Finish(j, r, n, u)
               \/ \E r \in Runs : Quit(j, r, n)
               \/ Complete(j, n)
        PROVE  RestrictedIffSettings'
    BY <1>2, <2>3 DEF Finish, Quit, Complete
  <2> QED
    BY <1>6, <2>1, <2>2, <2>3 DEF NodeNext
<1>7. CASE AnyoneNext
  BY <1>2, <1>7 DEF AnyoneNext, Clean
<1>8. CASE AdminNext
  <2>1. ASSUME NEW m \in Markets, NEW u \in Destinations(m), NEW s \in BOOLEAN,
               CloseAdmin(m, MarketAdmin, u, s)
        PROVE  RestrictedIffSettings'
    BY <2>1, CloseMarketFlag DEF CloseAdmin
  <2> QED
    BY <1>2, <1>8, <2>1 DEF AdminNext, CleanAdmin, QuitAdmin
<1>9. CASE UNCHANGED vars
  BY <1>2, <1>9 DEF vars
<1> QED
  BY <1>3, <1>4, <1>5, <1>6, <1>7, <1>8, <1>9, FreshBoxSteps DEF Next

\* The flag of a market and its settings account are set and cleared together
\* and no settings account outlives its market.
THEOREM FlagMatchesSettings == SpecFresh => []RestrictedIffSettings
<1>1. Init => RestrictedIffSettings
  BY DEF Init, RestrictedIffSettings, NoMarket, NoTerms, IsRestricted, RESTRICTED
<1>2. IInv /\ RestrictedIffSettings /\ [FreshNext]_vars => RestrictedIffSettings'
  BY NextFlag
<1> QED
  BY <1>1, <1>2, IInvHolds, PTL DEF SpecFresh
=============================================================================
