-------------------------- MODULE NosanaPoolsProofs --------------------------
(***************************************************************************)
(* Proofs about NosanaPools: claims stay within the emission, and tokens   *)
(* leave a pool that is not closeable only as claimed emission.            *)
(***************************************************************************)
EXTENDS NosanaPools, TLAPS

\* A longer time emits at least as much.
LEMMA EmissionGrows ==
  ASSUME NEW e \in Nat, NEW a \in Nat, NEW b \in Nat, a <= b
  PROVE  a * e <= b * e /\ a * e \in Nat /\ b * e \in Nat
<1>1. (b - a) * e \in Nat
  OBVIOUS
<1>2. b * e = a * e + (b - a) * e
  OBVIOUS
<1>. QED  BY <1>1, <1>2

\* What a pool has emitted since its start is a number of tokens.
LEMMA EmittedIsNat ==
  ASSUME PoolsTypeOK, NEW p \in Pools, now > pool[p].startTime
  PROVE  Emitted(p) \in Nat
<1>1. pool[p].emission \in Nat /\ pool[p].startTime \in Int /\ now \in Nat
  BY DEF PoolsTypeOK, PoolType
<1>2. now - pool[p].startTime \in Nat
  BY <1>1
<1>. QED  BY <1>1, <1>2, EmissionGrows DEF Emitted

\* A claim takes no more than is due and no more than the vault holds.
LEMMA ClaimableBounds ==
  ASSUME PoolsTypeOK, NEW p \in Pools, now > pool[p].startTime, ClaimDefined(p)
  PROVE  /\ Claimable(p) \in Nat
         /\ Claimable(p) <= tokens[p]
         /\ pool[p].claimed + Claimable(p) <= Emitted(p)
<1>1. Emitted(p) \in Nat
  BY EmittedIsNat
<1>2. pool[p].claimed \in Nat /\ tokens[p] \in Nat
  BY DEF PoolsTypeOK, PoolType, TokenAccounts
<1>. QED  BY <1>1, <1>2 DEF Claimable, ClaimDefined

\* A transfer of tokens that are there.
LEMMA MoveBounds ==
  ASSUME PoolsTypeOK, NEW from \in TokenAccounts, NEW to \in TokenAccounts,
         from # to, NEW amount \in Nat, amount <= tokens[from]
  PROVE  /\ Move(from, to, amount) \in [TokenAccounts -> Nat]
         /\ Move(from, to, amount)[from] = tokens[from] - amount
         /\ Move(from, to, amount)[to] = tokens[to] + amount
         /\ \A a \in TokenAccounts \ {from} : Move(from, to, amount)[a] >= tokens[a]
BY DEF PoolsTypeOK, Move

-----------------------------------------------------------------------------
(* Type correctness and the bound on claims, one step per instruction *)

LEMMA PoolsInitIInv == PoolsInit => PoolsIInv
<1>. SUFFICES ASSUME PoolsInit PROVE PoolsIInv
  OBVIOUS
<1>1. NoPool \in PoolType
  BY DEF NoPool, PoolType, ClaimTypes
<1>2. tokens \in [TokenAccounts -> Nat]
  BY PoolNumbersAssumption DEF PoolsInit, TokenAccounts
<1>3. PoolsTypeOK
  BY <1>1, <1>2 DEF PoolsInit, PoolsTypeOK, NoPool, IsOpen
<1>4. ClaimedWithinEmission
  BY DEF PoolsInit, ClaimedWithinEmission, Emitted, NoPool
<1>. QED  BY <1>3, <1>4 DEF PoolsIInv

LEMMA TickIInv == PoolsIInv /\ Tick => PoolsIInv'
<1>. SUFFICES ASSUME PoolsIInv, Tick PROVE PoolsIInv'
  OBVIOUS
<1>1. PoolsTypeOK'
  BY DEF PoolsIInv, PoolsTypeOK, Tick, IsOpen
<1>2. ASSUME NEW p \in Pools
      PROVE  (IF now > pool[p].startTime
              THEN pool[p].claimed <= Emitted(p)
              ELSE pool[p].claimed = 0)'
  <2>1. pool[p].emission \in Nat /\ pool[p].startTime \in Int
          /\ pool[p].claimed \in Nat /\ now \in Nat
    BY DEF PoolsIInv, PoolsTypeOK, PoolType
  <2>2. pool' = pool /\ now' = now + 1
    BY DEF Tick
  <2>3. CASE now > pool[p].startTime
    <3>1. pool[p].claimed <= (now - pool[p].startTime) * pool[p].emission
      BY <2>3 DEF PoolsIInv, ClaimedWithinEmission, Emitted
    <3>2. /\ (now - pool[p].startTime) * pool[p].emission
                <= (now' - pool[p].startTime) * pool[p].emission
          /\ (now - pool[p].startTime) * pool[p].emission \in Nat
          /\ (now' - pool[p].startTime) * pool[p].emission \in Nat
      BY <2>1, <2>2, <2>3, EmissionGrows
    <3>3. pool[p].claimed <= (now' - pool[p].startTime) * pool[p].emission
      BY <2>1, <3>1, <3>2
    <3>. QED  BY <2>1, <2>2, <2>3, <3>3 DEF Emitted
  <2>4. CASE ~ (now > pool[p].startTime)
    <3>1. pool[p].claimed = 0
      BY <2>4 DEF PoolsIInv, ClaimedWithinEmission
    <3>2. CASE now' > pool[p].startTime
      <4>1. (now' - pool[p].startTime) * pool[p].emission \in Nat
        BY <2>1, <2>2, <3>2, EmissionGrows
      <4>. QED  BY <2>2, <3>1, <3>2, <4>1 DEF Emitted
    <3>. QED  BY <2>2, <3>1, <3>2
  <2>. QED  BY <2>3, <2>4
<1>. QED  BY <1>1, <1>2 DEF PoolsIInv, ClaimedWithinEmission

\* Instructions that leave the claimed tokens, the emission and the start of
\* every pool alone preserve the bound; a pool that is new has claimed nothing.
LEMMA ClaimsUntouched ==
  ASSUME PoolsIInv, PoolsTypeOK', now' = now,
         \A p \in Pools : \/ pool'[p].claimed = 0
                          \/ /\ pool'[p].claimed = pool[p].claimed
                             /\ pool'[p].emission = pool[p].emission
                             /\ pool'[p].startTime = pool[p].startTime
  PROVE  PoolsIInv'
<1>1. ASSUME NEW p \in Pools
      PROVE  (IF now > pool[p].startTime
              THEN pool[p].claimed <= Emitted(p)
              ELSE pool[p].claimed = 0)'
  <2>1. CASE pool'[p].claimed = 0
    <3>1. CASE (now > pool[p].startTime)'
      <4>1. Emitted(p)' \in Nat
        <5>1. (now - pool[p].startTime)' \in Nat /\ (pool[p].emission)' \in Nat
          BY <3>1 DEF PoolsTypeOK, PoolType
        <5>. QED  BY <5>1, EmissionGrows DEF Emitted
      <4>. QED  BY <2>1, <3>1, <4>1
    <3>. QED  BY <2>1, <3>1
  <2>2. CASE /\ pool'[p].claimed = pool[p].claimed
             /\ pool'[p].emission = pool[p].emission
             /\ pool'[p].startTime = pool[p].startTime
    BY <2>2 DEF PoolsIInv, ClaimedWithinEmission, Emitted
  <2>. QED  BY <2>1, <2>2
<1>. QED  BY <1>1 DEF PoolsIInv, ClaimedWithinEmission

\* A recorded claim keeps every pool within its emission.
LEMMA RecordClaimIInv ==
  ASSUME PoolsIInv, NEW p \in Pools, now > pool[p].startTime, ClaimDefined(p),
         pool' = RecordClaim(p), tokens' \in [TokenAccounts -> Nat], now' = now
  PROVE  PoolsIInv'
<1>1. /\ Claimable(p) \in Nat
      /\ pool[p].claimed + Claimable(p) <= Emitted(p)
  BY ClaimableBounds DEF PoolsIInv
<1>2. pool[p].claimed + Claimable(p) \in Nat
  BY <1>1 DEF PoolsIInv, PoolsTypeOK, PoolType
<1>3. pool' = [pool EXCEPT ![p].claimed = pool[p].claimed + Claimable(p)]
  BY DEF RecordClaim, PoolsIInv, PoolsTypeOK, PoolType
<1>4. PoolsTypeOK'
  BY <1>2, <1>3 DEF PoolsIInv, PoolsTypeOK, PoolType, IsOpen
<1>5. ASSUME NEW q \in Pools
      PROVE  (IF now > pool[q].startTime
              THEN pool[q].claimed <= Emitted(q)
              ELSE pool[q].claimed = 0)'
  <2>1. pool'[q].startTime = pool[q].startTime /\ pool'[q].emission = pool[q].emission
    BY <1>3 DEF PoolsIInv, PoolsTypeOK, PoolType
  <2>2. CASE q = p
    <3>1. pool'[p].claimed = pool[p].claimed + Claimable(p)
      BY <1>3 DEF PoolsIInv, PoolsTypeOK, PoolType
    <3>. QED  BY <1>1, <2>1, <2>2, <3>1 DEF Emitted
  <2>3. CASE q # p
    <3>1. pool'[q] = pool[q]
      BY <1>3, <2>3 DEF PoolsIInv, PoolsTypeOK
    <3>. QED  BY <3>1 DEF PoolsIInv, ClaimedWithinEmission, Emitted
  <2>. QED  BY <2>2, <2>3
<1>. QED  BY <1>4, <1>5 DEF PoolsIInv, ClaimedWithinEmission

LEMMA OpenIInv ==
  ASSUME PoolsIInv, NEW p \in Pools, NEW u \in Openers, NEW b \in Payees,
         NEW e \in Emissions, NEW t \in StartTimes, NEW type \in ClaimTypes,
         NEW closeable \in BOOLEAN, Open(u, p, b, e, t, type, closeable)
  PROVE  PoolsIInv'
<1>1. [open |-> TRUE, authority |-> u, beneficiary |-> b, claimType |-> type,
       claimed |-> 0, closeable |-> closeable, emission |-> e,
       startTime |-> t] \in PoolType
  BY PoolAccountsAssumption, PoolNumbersAssumption DEF PoolType, TokenAccounts
<1>2. PoolsTypeOK'
  BY <1>1, PoolAccountsAssumption DEF Open, PoolsIInv, PoolsTypeOK, IsOpen, TokenAccounts
<1>3. \A q \in Pools : pool'[q].claimed = 0 \/ pool'[q] = pool[q]
  BY DEF Open, PoolsIInv, PoolsTypeOK
<1>. QED  BY <1>2, <1>3, ClaimsUntouched DEF Open

LEMMA FundIInv ==
  ASSUME PoolsIInv, NEW p \in Pools, NEW u \in Users, NEW a \in Amounts,
         Fund(u, p, a)
  PROVE  PoolsIInv'
<1>1. Move(u, p, a) \in [TokenAccounts -> Nat]
  BY MoveBounds, PoolAccountsAssumption, PoolNumbersAssumption
     DEF PoolsIInv, PoolsTypeOK, Fund, TokenAccounts
<1>2. PoolsTypeOK'
  BY <1>1 DEF Fund, PoolsIInv, PoolsTypeOK, IsOpen
<1>. QED  BY <1>2, ClaimsUntouched DEF Fund

LEMMA ClaimFeeIInv ==
  ASSUME PoolsIInv, NEW p \in Pools, ClaimFee(p)
  PROVE  PoolsIInv'
<1>1. Claimable(p) \in Nat /\ Claimable(p) <= tokens[p]
  BY ClaimableBounds DEF PoolsIInv, ClaimFee
<1>2. RewardsVault \in TokenAccounts /\ p \in TokenAccounts /\ p # RewardsVault
  BY PoolAccountsAssumption DEF TokenAccounts
<1>3. Move(p, RewardsVault, Claimable(p)) \in [TokenAccounts -> Nat]
  BY <1>1, <1>2, MoveBounds DEF PoolsIInv
<1>4. tokens' \in [TokenAccounts -> Nat]
  BY <1>3 DEF ClaimFee, PoolsIInv, PoolsTypeOK
<1>. QED  BY <1>4, RecordClaimIInv DEF ClaimFee

LEMMA ClaimTransferIInv ==
  ASSUME PoolsIInv, NEW p \in Pools, ClaimTransfer(p)
  PROVE  PoolsIInv'
<1>1. Claimable(p) \in Nat /\ Claimable(p) <= tokens[p]
  BY ClaimableBounds DEF PoolsIInv, ClaimTransfer
<1>2. p \in TokenAccounts /\ pool[p].beneficiary \in TokenAccounts \cup {None}
  BY DEF PoolsIInv, PoolsTypeOK, PoolType, TokenAccounts
<1>3. tokens' \in [TokenAccounts -> Nat]
  BY <1>1, <1>2 DEF ClaimTransfer, Move, PoolsIInv, PoolsTypeOK
<1>. QED  BY <1>3, RecordClaimIInv DEF ClaimTransfer

LEMMA CloseIInv ==
  ASSUME PoolsIInv, NEW p \in Pools, NEW u \in Openers, NEW to \in Payees,
         Close(u, p, to)
  PROVE  PoolsIInv'
<1>1. p \in TokenAccounts /\ to \in TokenAccounts /\ to # p
  BY PoolAccountsAssumption DEF Close, TokenAccounts
<1>2. tokens[p] \in Nat
  BY <1>1 DEF PoolsIInv, PoolsTypeOK
<1>3. tokens' \in [TokenAccounts -> Nat]
  BY <1>1, <1>2, MoveBounds DEF Close, PoolsIInv
<1>4. NoPool \in PoolType
  BY DEF NoPool, PoolType, ClaimTypes
<1>5. PoolsTypeOK'
  BY <1>3, <1>4 DEF Close, PoolsIInv, PoolsTypeOK, IsOpen, NoPool
<1>6. \A q \in Pools : pool'[q].claimed = 0 \/ pool'[q] = pool[q]
  BY DEF Close, NoPool, PoolsIInv, PoolsTypeOK
<1>. QED  BY <1>5, <1>6, ClaimsUntouched DEF Close

LEMMA UpdateBeneficiaryIInv ==
  ASSUME PoolsIInv, NEW p \in Pools, NEW u \in Users, NEW b \in Payees,
         UpdateBeneficiary(u, p, b)
  PROVE  PoolsIInv'
<1>1. b \in TokenAccounts
  BY PoolAccountsAssumption DEF TokenAccounts
<1>2. PoolsTypeOK'
  BY <1>1 DEF UpdateBeneficiary, PoolsIInv, PoolsTypeOK, PoolType, IsOpen
<1>3. \A q \in Pools : /\ pool'[q].claimed = pool[q].claimed
                       /\ pool'[q].emission = pool[q].emission
                       /\ pool'[q].startTime = pool[q].startTime
  BY DEF UpdateBeneficiary, PoolsIInv, PoolsTypeOK, PoolType
<1>. QED  BY <1>2, <1>3, ClaimsUntouched DEF UpdateBeneficiary

LEMMA PoolsStepIInv == PoolsIInv /\ [PoolsNext]_poolVars => PoolsIInv'
<1>. SUFFICES ASSUME PoolsIInv, [PoolsNext]_poolVars PROVE PoolsIInv'
  OBVIOUS
<1>1. CASE Tick
  BY <1>1, TickIInv
<1>2. CASE \E p \in Pools : PoolNext(p)
  <2>. PICK p \in Pools : PoolNext(p)
    BY <1>2
  <2>. QED  BY OpenIInv, FundIInv, ClaimFeeIInv, ClaimTransferIInv, CloseIInv,
               UpdateBeneficiaryIInv DEF PoolNext
<1>3. CASE UNCHANGED poolVars
  BY <1>3 DEF poolVars, IsOpen, PoolsIInv, PoolsTypeOK, ClaimedWithinEmission, Emitted
<1>. QED  BY <1>1, <1>2, <1>3 DEF PoolsNext

\* The inductive invariant of the pools program.
THEOREM PoolsInvariant == PoolsSpec => []PoolsIInv
<1>. QED  BY PoolsInitIInv, PoolsStepIInv, PTL DEF PoolsSpec

\* Accounts keep their shape and no balance goes below zero.
THEOREM PoolsTypeCorrect == PoolsSpec => []PoolsTypeOK
<1>1. PoolsIInv => PoolsTypeOK
  BY DEF PoolsIInv
<1>. QED  BY <1>1, PoolsInvariant, PTL

\* PoolAccount::claim never underflows: no pool claims more than it has emitted.
THEOREM ClaimsWithinEmission == PoolsSpec => []ClaimedWithinEmission
<1>1. PoolsIInv => ClaimedWithinEmission
  BY DEF PoolsIInv
<1>. QED  BY <1>1, PoolsInvariant, PTL

-----------------------------------------------------------------------------
(* What a step may do *)

\* What one step does to pool p: see PaidByEmission.
PaysByEmission(p) ==
  IsOpen(p) /\ ~ pool[p].closeable /\ tokens'[p] < tokens[p] =>
    LET paid == tokens[p] - tokens'[p]
        to   == pool[p].beneficiary
    IN  /\ to # p /\ tokens'[to] = tokens[to] + paid
        /\ paid = pool'[p].claimed - pool[p].claimed
        /\ pool'[p].claimed <= Emitted(p)

\* A claim of pool p is paid to its beneficiary, and pays nothing out of others.
LEMMA ClaimPaysByEmission ==
  ASSUME PoolsIInv, NEW p \in Pools, now > pool[p].startTime, ClaimDefined(p),
         NEW to \in TokenAccounts, to = pool[p].beneficiary, to # p,
         pool' = RecordClaim(p), tokens' = Move(p, to, Claimable(p)),
         NEW q \in Pools
  PROVE  PaysByEmission(q)
<1>1. /\ Claimable(p) \in Nat /\ Claimable(p) <= tokens[p]
      /\ pool[p].claimed + Claimable(p) <= Emitted(p)
  BY ClaimableBounds DEF PoolsIInv
<1>2. p \in TokenAccounts /\ q \in TokenAccounts
  BY DEF TokenAccounts
<1>3. /\ tokens'[p] = tokens[p] - Claimable(p)
      /\ tokens'[to] = tokens[to] + Claimable(p)
      /\ q # p => tokens'[q] >= tokens[q]
  BY <1>1, <1>2, MoveBounds DEF PoolsIInv
<1>4. tokens[p] \in Nat /\ tokens[q] \in Nat /\ pool[p].claimed \in Nat
  BY <1>2 DEF PoolsIInv, PoolsTypeOK, PoolType
<1>5. pool'[p].claimed = pool[p].claimed + Claimable(p)
  BY DEF RecordClaim, PoolsIInv, PoolsTypeOK, PoolType
<1>6. CASE q = p
  BY <1>1, <1>3, <1>4, <1>5, <1>6 DEF PaysByEmission
<1>7. CASE q # p
  <2>1. tokens'[q] \in Int /\ ~ (tokens'[q] < tokens[q])
    BY <1>1, <1>2, <1>3, <1>4, <1>7, MoveBounds DEF PoolsIInv
  <2>. QED  BY <2>1 DEF PaysByEmission
<1>. QED  BY <1>6, <1>7

\* Without claims, a pool that is not closeable loses nothing.
LEMMA NothingLeaves ==
  ASSUME NEW q \in Pools, ~ (tokens'[q] < tokens[q])
  PROVE  PaysByEmission(q)
BY DEF PaysByEmission

\* One step of the program.
LEMMA StepPaysByEmission ==
  ASSUME PoolsIInv, [PoolsNext]_poolVars, NEW q \in Pools
  PROVE  PaysByEmission(q)
<1>. tokens[q] \in Nat /\ q \in TokenAccounts
  BY DEF PoolsIInv, PoolsTypeOK, TokenAccounts
<1>1. CASE tokens' = tokens
  BY <1>1, NothingLeaves
<1>2. ASSUME NEW p \in Pools, NEW u \in Users, NEW a \in Amounts, Fund(u, p, a)
      PROVE  PaysByEmission(q)
  <2>1. u \in TokenAccounts /\ p \in TokenAccounts /\ u # p /\ u # q /\ a \in Nat
    BY PoolAccountsAssumption, PoolNumbersAssumption DEF TokenAccounts
  <2>2. tokens'[q] \in Nat /\ tokens'[q] >= tokens[q]
    BY <1>2, <2>1, MoveBounds DEF PoolsIInv, Fund
  <2>. QED  BY <2>2, NothingLeaves
<1>3. ASSUME NEW p \in Pools, ClaimFee(p) PROVE PaysByEmission(q)
  <2>1. RewardsVault \in TokenAccounts /\ RewardsVault # p
    BY PoolAccountsAssumption DEF TokenAccounts
  <2>2. CASE /\ pool[p].beneficiary = RewardsVault
             /\ tokens' = Move(p, RewardsVault, Claimable(p))
    BY <1>3, <2>1, <2>2, ClaimPaysByEmission DEF ClaimFee
  <2>. QED  BY <1>1, <1>3, <2>2 DEF ClaimFee
<1>4. ASSUME NEW p \in Pools, ClaimTransfer(p) PROVE PaysByEmission(q)
  <2>1. pool[p].beneficiary \in TokenAccounts
    BY <1>4 DEF ClaimTransfer, PoolsIInv, PoolsTypeOK
  <2>. QED  BY <1>4, <2>1, ClaimPaysByEmission DEF ClaimTransfer
<1>5. ASSUME NEW p \in Pools, NEW u \in Openers, NEW to \in Payees, Close(u, p, to)
      PROVE  PaysByEmission(q)
  <2>1. p \in TokenAccounts /\ to \in TokenAccounts /\ to # p /\ tokens[p] \in Nat
    BY <1>5, PoolAccountsAssumption DEF Close, TokenAccounts, PoolsIInv, PoolsTypeOK
  <2>2. CASE q = p /\ pool[p].closeable
    BY <2>2 DEF PaysByEmission
  <2>3. CASE q # p
    <3>1. tokens'[q] \in Nat /\ tokens'[q] >= tokens[q]
      BY <1>5, <2>1, <2>3, MoveBounds DEF PoolsIInv, Close
    <3>. QED  BY <3>1, NothingLeaves
  <2>4. CASE q = p /\ tokens[p] = 0
    <3>1. tokens'[p] = 0
      BY <1>5, <2>1, <2>4, MoveBounds DEF PoolsIInv, Close
    <3>. QED  BY <2>4, <3>1, NothingLeaves
  <2>. QED  BY <1>5, <2>2, <2>3, <2>4 DEF Close
<1>6. CASE Tick
  BY <1>1, <1>6 DEF Tick
<1>7. CASE UNCHANGED poolVars
  BY <1>1, <1>7 DEF poolVars
<1>8. ASSUME NEW p \in Pools, PoolNext(p) PROVE PaysByEmission(q)
  BY <1>1, <1>2, <1>3, <1>4, <1>5, <1>8 DEF PoolNext, Open, UpdateBeneficiary
<1>. QED  BY <1>6, <1>7, <1>8 DEF PoolsNext

\* However often beneficiary, balance and callers change, tokens leave a pool
\* that is not closeable only to its beneficiary and within the emission.
THEOREM NonCloseablePoolsPayByEmission == PoolsSpec => PaidByEmission
<1>1. PoolsIInv /\ [PoolsNext]_poolVars
        => [\A p \in Pools :
              IsOpen(p) /\ ~ pool[p].closeable /\ tokens'[p] < tokens[p] =>
                LET paid == tokens[p] - tokens'[p]
                    to   == pool[p].beneficiary
                IN  /\ to # p /\ tokens'[to] = tokens[to] + paid
                    /\ paid = pool'[p].claimed - pool[p].claimed
                    /\ pool'[p].claimed <= Emitted(p)]_poolVars
  BY StepPaysByEmission DEF PaysByEmission
<1>. QED  BY <1>1, PoolsInvariant, PTL DEF PoolsSpec, PaidByEmission

\* What one step does to the debt of pool p: see DueStaysDue.
StaysDue(p) ==
  IsOpen(p) /\ pool[p].claimType = "transfer" /\ pool'[p].claimed > pool[p].claimed
    => pool'[p].claimed - pool[p].claimed = tokens[p] - tokens'[p]

\* A claim of pool p that is paid counts what has left the vault, and nothing
\* for other pools.
LEMMA PaidClaimStaysDue ==
  ASSUME PoolsIInv, NEW p \in Pools, now > pool[p].startTime, ClaimDefined(p),
         NEW to \in TokenAccounts, to # p,
         pool' = RecordClaim(p), tokens' = Move(p, to, Claimable(p)),
         NEW q \in Pools
  PROVE  StaysDue(q)
<1>1. Claimable(p) \in Nat /\ Claimable(p) <= tokens[p]
  BY ClaimableBounds DEF PoolsIInv
<1>2. p \in TokenAccounts
  BY DEF TokenAccounts
<1>3. tokens'[p] = tokens[p] - Claimable(p)
  BY <1>1, <1>2, MoveBounds DEF PoolsIInv
<1>4. tokens[p] \in Nat /\ pool[p].claimed \in Nat /\ pool[q].claimed \in Nat
  BY <1>2 DEF PoolsIInv, PoolsTypeOK, PoolType
<1>5. /\ pool'[p].claimed = pool[p].claimed + Claimable(p)
      /\ q # p => pool'[q] = pool[q]
  BY DEF RecordClaim, PoolsIInv, PoolsTypeOK, PoolType
<1>6. CASE q = p
  BY <1>1, <1>3, <1>4, <1>5, <1>6 DEF StaysDue
<1>7. CASE q # p
  BY <1>4, <1>5, <1>7 DEF StaysDue
<1>. QED  BY <1>6, <1>7

\* No other instruction counts anything as claimed.
LEMMA NothingClaimed ==
  ASSUME NEW q \in Pools, ~ (pool'[q].claimed > pool[q].claimed)
  PROVE  StaysDue(q)
BY DEF StaysDue

\* One step of the program.
LEMMA StepStaysDue ==
  ASSUME PoolsIInv, [PoolsNext]_poolVars, NEW q \in Pools
  PROVE  StaysDue(q)
<1>. pool[q].claimed \in Nat /\ pool \in [Pools -> PoolType]
  BY DEF PoolsIInv, PoolsTypeOK, PoolType
<1>1. CASE pool' = pool
  BY <1>1, NothingClaimed
<1>2. ASSUME NEW p \in Pools, ClaimFee(p) PROVE StaysDue(q)
  <2>1. CASE q = p
    BY <1>2, <2>1 DEF ClaimFee, StaysDue
  <2>2. CASE q # p
    <3>1. pool'[q] = pool[q]
      BY <1>2, <2>2 DEF ClaimFee, RecordClaim
    <3>. QED  BY <3>1, NothingClaimed
  <2>. QED  BY <2>1, <2>2
<1>3. ASSUME NEW p \in Pools, ClaimTransfer(p) PROVE StaysDue(q)
  <2>1. pool[p].beneficiary \in TokenAccounts
    BY <1>3 DEF ClaimTransfer, PoolsIInv, PoolsTypeOK
  <2>. QED  BY <1>3, <2>1, PaidClaimStaysDue DEF ClaimTransfer
<1>4. ASSUME NEW p \in Pools, NEW u \in Openers, NEW to \in Payees, Close(u, p, to)
      PROVE  StaysDue(q)
  <2>1. pool'[q] = IF q = p THEN NoPool ELSE pool[q]
    BY <1>4 DEF Close
  <2>2. ~ (pool'[q].claimed > pool[q].claimed)
    BY <2>1 DEF NoPool
  <2>. QED  BY <2>2, NothingClaimed
<1>5. ASSUME NEW p \in Pools, NEW u \in Openers, NEW b, NEW e, NEW t, NEW type,
             NEW closeable, Open(u, p, b, e, t, type, closeable)
      PROVE  StaysDue(q)
  <2>1. CASE q = p
    BY <1>5, <2>1 DEF Open, StaysDue
  <2>2. CASE q # p
    <3>1. pool'[q] = pool[q]
      BY <1>5, <2>2 DEF Open
    <3>. QED  BY <3>1, NothingClaimed
  <2>. QED  BY <2>1, <2>2
<1>6. ASSUME NEW p \in Pools, NEW u \in Users, NEW b, UpdateBeneficiary(u, p, b)
      PROVE  StaysDue(q)
  <2>1. pool'[q].claimed = pool[q].claimed
    BY <1>6 DEF UpdateBeneficiary, PoolType
  <2>. QED  BY <2>1, NothingClaimed
<1>7. ASSUME NEW p \in Pools, PoolNext(p) PROVE StaysDue(q)
  BY <1>1, <1>2, <1>3, <1>4, <1>5, <1>6, <1>7 DEF PoolNext, Fund
<1>. QED  BY <1>1, <1>7 DEF PoolsNext, Tick, poolVars

\* What an underfunded transfer pool could not pay stays due.
THEOREM UnderfundedPoolsStayDue == PoolsSpec => DueStaysDue
<1>1. PoolsIInv /\ [PoolsNext]_poolVars
        => [\A p \in Pools :
              IsOpen(p) /\ pool[p].claimType = "transfer"
                /\ pool'[p].claimed > pool[p].claimed
              => pool'[p].claimed - pool[p].claimed = tokens[p] - tokens'[p]]_poolVars
  BY StepStaysDue DEF StaysDue
<1>. QED  BY <1>1, PoolsInvariant, PTL DEF PoolsSpec, DueStaysDue
=============================================================================
