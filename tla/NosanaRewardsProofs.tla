------------------------- MODULE NosanaRewardsProofs -------------------------
(***************************************************************************)
(* Proofs about the composition of NosanaRewards and NosanaStaking: a      *)
(* reward account always has an active stake behind it, the totals are the *)
(* sums over the accounts, only a fee that is not fine ends the soundness  *)
(* of the pool, and the vault of a sound pool covers what all accounts     *)
(* have earned and nobody loses it.                                        *)
(***************************************************************************)
EXTENDS NosanaRewards, NosanaStakingProofs, FiniteSums

\* Accounts of the rewards program.
RewardsShape ==
  /\ reflection \in [open: BOOLEAN, rate: Nat, totalReflection: 0 .. MaxU128,
                     totalXnos: 0 .. MaxU128]
  /\ reward \in [Owners -> [open: BOOLEAN, reflection: Nat, xnos: Nat]]
  /\ pot \in Nat

\* The inductive invariant of the two programs together.
RewardsIInv == StakingIInv /\ RewardsShape /\ RewardNeedsStake

-----------------------------------------------------------------------------
(* The staking program, with a reward account in the way of unstake *)

\* An owner with a reward account cannot make the stake inactive.
LEMMA OwnerKeepsActive ==
  ASSUME StakingIInv, NEW o \in Owners, OwnerNext(o, HasReward(o)),
         NEW p \in Owners, HasReward(p), IsActive(p)
  PROVE  stake'[p].open /\ stake'[p].timeUnstake = 0
<1>1. stake \in [Owners -> StakeType]
  BY AccountByAccount
<1>2. stake[p].open /\ stake[p].timeUnstake = 0
  BY DEF IsActive, HasStake
<1>3. CASE p # o
  <2>1. stake'[p] = stake[p]
    BY <1>1, <1>3 DEF OwnerNext, Stake, Unstake, Restake, Topup, Extend, Close, Withdraw
  <2>. QED  BY <1>2, <2>1
<1>4. CASE p = o
  <2>1. ASSUME NEW a \in Amounts, Topup(o, a)
        PROVE  stake'[o].open /\ stake'[o].timeUnstake = 0
    BY <1>1, <1>2, <1>4, <2>1 DEF Topup, UpdateXnos, StakeType
  <2>2. ASSUME NEW d \in Durations, Extend(o, d)
        PROVE  stake'[o].open /\ stake'[o].timeUnstake = 0
    BY <1>1, <1>2, <1>4, <2>2 DEF Extend, UpdateXnos, StakeType
  <2>3. ASSUME NEW w \in Receivers, Withdraw(o, w)
        PROVE  stake'[o].open /\ stake'[o].timeUnstake = 0
    BY <1>2, <1>4, <2>3 DEF Withdraw
  <2>4. ~ (\E a \in Amounts, d \in Durations : Stake(o, a, d))
    BY <1>2, <1>4 DEF Stake, HasStake
  <2>5. ~ Unstake(o, HasReward(o)) /\ ~ Restake(o) /\ ~ Close(o)
    BY <1>2, <1>4 DEF Unstake, Restake, Close, IsUnstaked
  <2>. QED  BY <1>4, <2>1, <2>2, <2>3, <2>4, <2>5 DEF OwnerNext
<1>. QED  BY <1>3, <1>4

\* Slashing leaves an active stake active.
LEMMA SlasherKeepsActive ==
  ASSUME StakingIInv, SlasherNext, NEW p \in Owners, IsActive(p)
  PROVE  stake'[p].open /\ stake'[p].timeUnstake = 0
<1>1. stake \in [Owners -> StakeType]
  BY AccountByAccount
<1>2. stake[p].open /\ stake[p].timeUnstake = 0
  BY DEF IsActive, HasStake
<1>3. ASSUME NEW o \in Owners, NEW s \in Slashers, NEW a \in Amounts, Slash(o, s, a)
      PROVE  stake'[p].open /\ stake'[p].timeUnstake = 0
  <2>1. CASE p # o
    BY <1>1, <1>2, <1>3, <2>1 DEF Slash
  <2>2. CASE p = o
    BY <1>1, <1>2, <1>3, <2>2 DEF Slash, UpdateXnos, StakeType
  <2>. QED  BY <2>1, <2>2
<1>. QED  BY <1>2, <1>3 DEF SlasherNext, InitSettings, UpdateSettings

LEMMA StakeStepIInv ==
  ASSUME RewardsIInv, StakeStep
  PROVE  RewardsIInv'
<1>1. StakingIInv'
  BY TickIInv, OwnerIInv, SlasherIInv DEF StakeStep, RewardsIInv
<1>2. RewardsShape'
  BY DEF RewardsIInv, RewardsShape, StakeStep, rewardsVars
<1>3. ASSUME NEW p \in Owners, reward'[p].open
      PROVE  stake'[p].open /\ stake'[p].timeUnstake = 0
  <2>1. HasReward(p) /\ IsActive(p)
    BY <1>3 DEF StakeStep, rewardsVars, RewardsIInv, RewardNeedsStake, HasReward
  <2>2. CASE Tick
    BY <2>1, <2>2 DEF Tick, IsActive, HasStake
  <2>3. ASSUME NEW o \in Owners, OwnerNext(o, HasReward(o))
        PROVE  stake'[p].open /\ stake'[p].timeUnstake = 0
    BY <2>1, <2>3, OwnerKeepsActive DEF RewardsIInv
  <2>4. CASE SlasherNext
    BY <2>1, <2>4, SlasherKeepsActive DEF RewardsIInv
  <2>. QED  BY <2>2, <2>3, <2>4 DEF StakeStep
<1>4. RewardNeedsStake'
  BY <1>3 DEF RewardNeedsStake, HasReward, IsActive, HasStake
<1>. QED  BY <1>1, <1>2, <1>4 DEF RewardsIInv

-----------------------------------------------------------------------------
(* The rewards program *)

\* Wallets may change, stakes do not.
LEMMA WalletsOnly ==
  ASSUME StakingIInv, slashing' = slashing, stake' = stake, vault' = vault,
         now' = now, wallet' \in [Wallets -> Nat]
  PROVE  StakingIInv'
BY AccountByAccount, AccountByAccountNext

\* The first rate is a number.
LEMMA InitialRateIsNat == InitialRate \in Nat
<1>1. MaxU128 - (MaxU128 % Supply) \in Nat /\ Supply \in Nat \ {0}
  BY RewardsAssumption
<1>. QED  BY <1>1, DivIsNat DEF InitialRate

\* What a reward account can claim is a number of tokens.
LEMMA AmountIsNat ==
  ASSUME NEW b \in [open: BOOLEAN, reflection: Nat, xnos: Nat], NEW rate \in Nat,
         AmountDefined(b, rate)
  PROVE  Amount(b, rate) \in Nat
<1>1. b.reflection \div rate \in Nat
  BY DivIsNat DEF AmountDefined
<1>. QED  BY <1>1 DEF Amount, AmountDefined

\* Enter, Claim and Sync leave the pool with the points and the xnos of the new
\* reward account added.
LEMMA PoolAfterAdd ==
  ASSUME RewardsShape, NEW points, NEW removed, NEW xnos \in Nat, NEW more \in Nat,
         NEW p, p \in {reflection, RemoveAccount(reflection, points, removed)},
         reflection' = AddAccount(p, xnos, more), Fits(reflection')
  PROVE  /\ reflection' \in [open: BOOLEAN, rate: Nat,
                             totalReflection: 0 .. MaxU128,
                             totalXnos: 0 .. MaxU128]
         /\ Points(p, xnos + more) \in Nat
         /\ p.rate = reflection.rate
<1>1. p.rate = reflection.rate /\ p.rate \in Nat /\ p.open \in BOOLEAN
  BY DEF RewardsShape, RemoveAccount
<1>2. Points(p, xnos + more) \in Nat
  BY <1>1, ProductIsNat DEF Points
<1>3. DOMAIN p = {"open", "rate", "totalReflection", "totalXnos"}
  BY DEF RewardsShape, RemoveAccount
<1>4. /\ reflection' = [open |-> p.open, rate |-> p.rate,
                        totalReflection |-> reflection'.totalReflection,
                        totalXnos |-> reflection'.totalXnos]
  BY DEF RewardsShape, RemoveAccount, AddAccount
<1>. QED  BY <1>1, <1>2, <1>4 DEF Fits

\* A reward account that is opened or brought up to date for an active stake.
LEMMA AccountStep ==
  ASSUME RewardsIInv, NEW o \in Owners, IsActive(o), stake' = stake,
         NEW points \in Nat, NEW xnos \in Nat,
         reward' = [reward EXCEPT ![o] = [open |-> TRUE, reflection |-> points,
                                          xnos |-> xnos]]
  PROVE  /\ reward' \in [Owners -> [open: BOOLEAN, reflection: Nat, xnos: Nat]]
         /\ RewardNeedsStake'
BY DEF RewardsIInv, RewardsShape, RewardNeedsStake, HasReward, IsActive, HasStake

LEMMA EnterIInv ==
  ASSUME RewardsIInv, NEW o \in Owners, Enter(o)
  PROVE  RewardsIInv'
<1>1. stake[o].xnos \in Nat
  BY AccountByAccount DEF RewardsIInv, StakeType
<1>2. /\ reflection' \in [open: BOOLEAN, rate: Nat, totalReflection: 0 .. MaxU128,
                          totalXnos: 0 .. MaxU128]
      /\ Points(reflection, stake[o].xnos + 0) \in Nat
  BY <1>1, PoolAfterAdd DEF RewardsIInv, Enter
<1>3. Points(reflection, stake[o].xnos) \in Nat
  BY <1>1, <1>2
<1>4. /\ reward' \in [Owners -> [open: BOOLEAN, reflection: Nat, xnos: Nat]]
      /\ RewardNeedsStake'
  BY <1>1, <1>3, AccountStep DEF Enter, OpenReward, stakingVars
<1>5. StakingIInv'
  BY WalletsOnly, AccountByAccount DEF RewardsIInv, Enter, stakingVars
<1>. QED  BY <1>2, <1>4, <1>5 DEF RewardsIInv, RewardsShape, Enter

LEMMA ClaimIInv ==
  ASSUME RewardsIInv, NEW o \in Owners, NEW to \in Receivers, Claim(o, to)
  PROVE  RewardsIInv'
<1>. DEFINE amount == Amount(reward[o], reflection.rate)
            left   == RemoveAccount(reflection, reward[o].reflection,
                                    reward[o].xnos + amount)
            points == Points(left, stake[o].xnos)
<1>1. stake[o].xnos \in Nat /\ to \in Wallets
  BY AccountByAccount, StakingAccountsAssumption DEF RewardsIInv, StakeType
<1>2. amount \in Nat
  BY AmountIsNat DEF RewardsIInv, RewardsShape, Claim
<1>3. /\ reflection' = AddAccount(left, stake[o].xnos, 0) /\ Fits(reflection')
      /\ reward' = [reward EXCEPT ![o] = [open |-> TRUE, reflection |-> points,
                                          xnos |-> stake[o].xnos]]
      /\ pot >= amount /\ pot' = pot - amount
      /\ wallet' = [wallet EXCEPT ![to] = wallet[to] + amount]
  BY DEF Claim, OpenReward
<1>4. /\ reflection' \in [open: BOOLEAN, rate: Nat, totalReflection: 0 .. MaxU128,
                          totalXnos: 0 .. MaxU128]
      /\ Points(left, stake[o].xnos + 0) \in Nat
  BY <1>1, <1>3, PoolAfterAdd DEF RewardsIInv
<1>5. points \in Nat
  BY <1>1, <1>4
<1>. HIDE DEF amount, left, points
<1>6. /\ reward' \in [Owners -> [open: BOOLEAN, reflection: Nat, xnos: Nat]]
      /\ RewardNeedsStake'
  <2>1. HasReward(o) /\ IsActive(o) /\ stake' = stake
    BY DEF Claim
  <2>. QED  BY <1>1, <1>3, <1>4, <1>5, <2>1, AccountStep
<1>7. wallet' \in [Wallets -> Nat]
  BY <1>1, <1>2, <1>3, AccountByAccount DEF RewardsIInv
<1>8. StakingIInv'
  BY <1>7, WalletsOnly DEF RewardsIInv, Claim
<1>9. pot' \in Nat
  BY <1>2, <1>3 DEF RewardsIInv, RewardsShape
<1>. QED  BY <1>4, <1>6, <1>8, <1>9 DEF RewardsIInv, RewardsShape

LEMMA SyncIInv ==
  ASSUME RewardsIInv, NEW o \in Owners, Sync(o)
  PROVE  RewardsIInv'
<1>. DEFINE left   == RemoveAccount(reflection, reward[o].reflection,
                                    reward[o].xnos)
            amount == Amount(reward[o], left.rate)
            points == Points(left, stake[o].xnos + amount)
<1>1. stake[o].xnos \in Nat
  BY AccountByAccount DEF RewardsIInv, StakeType
<1>2. left.rate \in Nat
  BY DEF RewardsIInv, RewardsShape, RemoveAccount
<1>3. amount \in Nat
  BY <1>2, AmountIsNat DEF RewardsIInv, RewardsShape, Sync
<1>4. /\ reflection' = AddAccount(left, stake[o].xnos, amount)
      /\ Fits(reflection')
      /\ reward' = [reward EXCEPT ![o] = [open |-> TRUE, reflection |-> points,
                                          xnos |-> stake[o].xnos]]
  BY DEF Sync, OpenReward
<1>5. /\ reflection' \in [open: BOOLEAN, rate: Nat, totalReflection: 0 .. MaxU128,
                          totalXnos: 0 .. MaxU128]
      /\ points \in Nat
  BY <1>1, <1>3, <1>4, PoolAfterAdd DEF RewardsIInv
<1>. HIDE DEF amount, left, points
<1>6. /\ reward' \in [Owners -> [open: BOOLEAN, reflection: Nat, xnos: Nat]]
      /\ RewardNeedsStake'
  <2>1. HasReward(o) /\ IsActive(o) /\ stake' = stake
    BY DEF Sync, stakingVars
  <2>. QED  BY <1>1, <1>3, <1>4, <1>5, <2>1, AccountStep
<1>7. StakingIInv'
  BY WalletsOnly, AccountByAccount DEF RewardsIInv, Sync, stakingVars
<1>. QED  BY <1>5, <1>6, <1>7 DEF RewardsIInv, RewardsShape, Sync

LEMMA CloseRewardIInv ==
  ASSUME RewardsIInv, NEW o \in Owners, CloseReward(o)
  PROVE  RewardsIInv'
<1>1. reflection' \in [open: BOOLEAN, rate: Nat, totalReflection: 0 .. MaxU128,
                       totalXnos: 0 .. MaxU128]
  BY DEF RewardsIInv, RewardsShape, CloseReward, RemoveAccount, Fits
<1>2. /\ reward' \in [Owners -> [open: BOOLEAN, reflection: Nat, xnos: Nat]]
      /\ RewardNeedsStake'
  BY DEF RewardsIInv, RewardsShape, RewardNeedsStake, HasReward, IsActive,
         HasStake, CloseReward, NoReward, stakingVars
<1>3. StakingIInv'
  BY WalletsOnly, AccountByAccount DEF RewardsIInv, CloseReward, stakingVars
<1>. QED  BY <1>1, <1>2, <1>3 DEF RewardsIInv, RewardsShape, CloseReward

LEMMA AddFeeIInv ==
  ASSUME RewardsIInv, NEW w \in FeePayers, NEW fee \in Fees, AddFee(w, fee)
  PROVE  RewardsIInv'
<1>1. /\ w \in Wallets /\ fee \in Nat /\ pot \in Nat
      /\ reflection.totalReflection \in Nat /\ reflection.totalXnos \in Nat
  BY RewardsAssumption DEF RewardsIInv, RewardsShape
<1>2. reflection.totalReflection \div (reflection.totalXnos + fee) \in Nat
  BY <1>1, DivIsNat DEF AddFee
<1>3. reflection' \in [open: BOOLEAN, rate: Nat, totalReflection: 0 .. MaxU128,
                       totalXnos: 0 .. MaxU128]
  BY <1>2 DEF RewardsIInv, RewardsShape, AddFee, Fits
<1>4. wallet' \in [Wallets -> Nat] /\ pot' \in Nat
  BY <1>1, AccountByAccount DEF RewardsIInv, AddFee
<1>5. StakingIInv'
  BY <1>4, WalletsOnly DEF RewardsIInv, AddFee
<1>6. RewardNeedsStake'
  BY DEF RewardsIInv, RewardNeedsStake, HasReward, IsActive, HasStake, AddFee
<1>. QED  BY <1>3, <1>4, <1>5, <1>6 DEF RewardsIInv, RewardsShape, AddFee

LEMMA InitReflectionIInv ==
  ASSUME RewardsIInv, InitReflection
  PROVE  RewardsIInv'
<1>1. reflection' \in [open: BOOLEAN, rate: Nat, totalReflection: 0 .. MaxU128,
                       totalXnos: 0 .. MaxU128]
  <2>1. reflection' = [open |-> TRUE, rate |-> InitialRate,
                       totalReflection |-> 0, totalXnos |-> 0]
    BY DEF InitReflection, NoReflection
  <2>. QED  BY <2>1, InitialRateIsNat, RewardsAssumption
<1>2. StakingIInv'
  BY WalletsOnly, AccountByAccount DEF RewardsIInv, InitReflection, stakingVars
<1>3. RewardNeedsStake'
  BY DEF RewardsIInv, RewardNeedsStake, HasReward, IsActive, HasStake,
         InitReflection, stakingVars
<1>. QED  BY <1>1, <1>2, <1>3 DEF RewardsIInv, RewardsShape, InitReflection

-----------------------------------------------------------------------------
LEMMA RewardsInitIInv == Init => RewardsIInv
<1>. SUFFICES ASSUME Init PROVE RewardsIInv
  OBVIOUS
<1>1. StakingIInv
  BY StakingInitIInv DEF Init
<1>2. RewardsShape
  BY RewardsAssumption DEF Init, RewardsInit, RewardsShape, NoReflection, NoReward
<1>3. RewardNeedsStake
  BY DEF Init, RewardsInit, RewardNeedsStake, HasReward, NoReward
<1>. QED  BY <1>1, <1>2, <1>3 DEF RewardsIInv

LEMMA RewardsStepIInv == RewardsIInv /\ [Next]_vars => RewardsIInv'
<1>. SUFFICES ASSUME RewardsIInv, [Next]_vars PROVE RewardsIInv'
  OBVIOUS
<1>1. CASE InitReflection
  BY <1>1, InitReflectionIInv
<1>2. ASSUME NEW o \in Owners, StakerNext(o) PROVE RewardsIInv'
  BY <1>2, EnterIInv, ClaimIInv, SyncIInv, CloseRewardIInv DEF StakerNext
<1>3. CASE FeeNext
  BY <1>3, AddFeeIInv DEF FeeNext
<1>4. CASE StakeStep
  BY <1>4, StakeStepIInv
<1>5. CASE UNCHANGED vars
  <2>1. StakingIInv'
    BY <1>5, WalletsOnly, AccountByAccount DEF RewardsIInv, vars
  <2>. QED  BY <1>5, <2>1 DEF vars, RewardsIInv, RewardsShape, RewardNeedsStake,
                              HasReward, IsActive, HasStake
<1>. QED  BY <1>1, <1>2, <1>3, <1>4, <1>5 DEF Next

\* The two programs together: a reward account has an active stake behind it,
\* though each of them checks its own side only.
THEOREM RewardsNeedStakes == Spec => []RewardNeedsStake
<1>1. RewardsIInv => RewardNeedsStake
  BY DEF RewardsIInv
<1>. QED  BY <1>1, RewardsInitIInv, RewardsStepIInv, PTL DEF Spec

\* Accounts of both programs keep their shape; the totals stay within u128.
THEOREM RewardsTypeCorrect == Spec => []RewardsTypeOK
<1>1. RewardsIInv => RewardsTypeOK
  BY DEF RewardsIInv, RewardsShape, RewardsTypeOK, StakingIInv
<1>. QED  BY <1>1, RewardsInitIInv, RewardsStepIInv, PTL DEF Spec

-----------------------------------------------------------------------------
(* The totals are the sums over the accounts *)

\* The points and the scores of all accounts.
AllPoints == SumFunctionOnSet([o \in Owners |-> reward[o].reflection], Owners)
AllScores == SumFunctionOnSet([o \in Owners |-> reward[o].xnos], Owners)

\* What is not open is empty.
ClosedIsEmpty ==
  /\ \A o \in Owners : ~ HasReward(o) => reward[o] = NoReward
  /\ ~ reflection.open => pot = 0 /\ \A o \in Owners : ~ HasReward(o)

\* The inductive invariant: the totals are the sums over the accounts.
TotalsIInv ==
  /\ RewardsIInv
  /\ reflection.totalReflection = AllPoints
  /\ reflection.totalXnos = pot + AllScores
  /\ ClosedIsEmpty

\* The types of what the sums are made of.
LEMMA TotalsTyped ==
  ASSUME RewardsIInv
  PROVE  /\ \A o \in Owners : /\ reward[o].reflection \in Nat /\ reward[o].xnos \in Nat
                              /\ reward[o].open \in BOOLEAN
                              /\ stake[o].xnos \in Nat
         /\ reflection.rate \in Nat /\ reflection.open \in BOOLEAN
         /\ reflection.totalReflection \in Nat /\ reflection.totalXnos \in Nat
         /\ pot \in Nat /\ AllPoints \in Nat /\ AllScores \in Nat
         /\ reward \in [Owners -> [open: BOOLEAN, reflection: Nat, xnos: Nat]]
<1>1. RewardsShape /\ MaxU128 \in Nat
  BY RewardsAssumption DEF RewardsIInv
<1>2. \A o \in Owners : reward[o].reflection \in Nat /\ reward[o].xnos \in Nat
  BY <1>1 DEF RewardsShape
<1>3. AllPoints \in Nat /\ AllScores \in Nat
  BY <1>2, RewardsAssumption, SumIsNat DEF AllPoints, AllScores
<1>4. \A o \in Owners : stake[o].xnos \in Nat
  BY AccountByAccount DEF RewardsIInv, StakeType
<1>. QED  BY <1>1, <1>2, <1>3, <1>4 DEF RewardsShape

\* One account is written: the sums change by what it changes by.
LEMMA OneRewardChanges ==
  ASSUME RewardsIInv, NEW o \in Owners, NEW b,
         b.reflection \in Nat, b.xnos \in Nat,
         reward' = [reward EXCEPT ![o] = b]
  PROVE  /\ AllPoints' = AllPoints - reward[o].reflection + b.reflection
         /\ AllScores' = AllScores - reward[o].xnos + b.xnos
<1>. DEFINE f == [p \in Owners |-> reward[p].reflection]
            g == [p \in Owners |-> reward'[p].reflection]
            h == [p \in Owners |-> reward[p].xnos]
            k == [p \in Owners |-> reward'[p].xnos]
<1>1. /\ \A p \in Owners : f[p] \in Int /\ h[p] \in Int
      /\ f[o] = reward[o].reflection /\ h[o] = reward[o].xnos
      /\ g[o] = b.reflection /\ k[o] = b.xnos /\ g[o] \in Int /\ k[o] \in Int
      /\ \A p \in Owners \ {o} : g[p] = f[p] /\ k[p] = h[p]
  BY TotalsTyped
<1>2. IsFiniteSet(Owners)
  BY RewardsAssumption
<1>3. AllPoints = SumFunctionOnSet(f, Owners) /\ AllPoints' = SumFunctionOnSet(g, Owners)
  BY DEF AllPoints
<1>4. AllScores = SumFunctionOnSet(h, Owners) /\ AllScores' = SumFunctionOnSet(k, Owners)
  BY DEF AllScores
<1>. HIDE DEF f, g, h, k
<1>5. SumFunctionOnSet(g, Owners) = SumFunctionOnSet(f, Owners) - f[o] + g[o]
  BY <1>1, <1>2, SumChanges
<1>6. SumFunctionOnSet(k, Owners) = SumFunctionOnSet(h, Owners) - h[o] + k[o]
  BY <1>1, <1>2, SumChanges
<1>. QED  BY <1>1, <1>3, <1>4, <1>5, <1>6

LEMMA SumsKept ==
  ASSUME reward' = reward
  PROVE  AllPoints' = AllPoints /\ AllScores' = AllScores
BY DEF AllPoints, AllScores

\* A pool without accounts has neither points nor scores.
LEMMA NothingToSum ==
  ASSUME \A o \in Owners : reward[o] = NoReward
  PROVE  AllPoints = 0 /\ AllScores = 0
<1>. DEFINE f == [o \in Owners |-> reward[o].reflection]
            g == [o \in Owners |-> reward[o].xnos]
<1>1. \A o \in Owners : f[o] = 0 /\ g[o] = 0
  BY DEF NoReward
<1>2. /\ SumFunctionOnSet(f, Owners) = SumFunctionOnSet(f, {})
      /\ SumFunctionOnSet(g, Owners) = SumFunctionOnSet(g, {})
  <2>. HIDE DEF f, g
  <2>. QED  BY <1>1, RewardsAssumption, SumIgnoresZeros
<1>. QED  BY <1>2, SumEmpty DEF AllPoints, AllScores

\* What the four instructions of a staker do: account o is written, its old
\* points and xnos leave the pool, what is paid out with them, its new ones
\* enter it, and the rate stays.
Rewrites(o, b, paid) ==
  /\ reward' = [reward EXCEPT ![o] = b]
  /\ b \in [open: BOOLEAN, reflection: Nat, xnos: Nat]
  /\ b.open \/ b = NoReward
  /\ paid \in Nat /\ pot' = pot - paid
  /\ reflection.open /\ reflection'.open /\ reflection'.rate = reflection.rate
  /\ reflection'.totalReflection
       = reflection.totalReflection - reward[o].reflection + b.reflection
  /\ reflection'.totalXnos
       = reflection.totalXnos - reward[o].xnos - paid + b.xnos

\* The points an account had before it was opened are none.
LEMMA EnterWrites ==
  ASSUME RewardsIInv, ClosedIsEmpty, NEW o \in Owners, Enter(o)
  PROVE  /\ Rewrites(o, reward'[o], 0)
         /\ reward'[o].reflection = reflection.rate * reward'[o].xnos
         /\ reward[o].reflection = 0 /\ reward[o].xnos = 0
<1>. DEFINE xnos == stake[o].xnos
            points == xnos * reflection.rate
<1>1. /\ xnos \in Nat /\ reflection.rate \in Nat /\ pot \in Nat
      /\ reflection.totalReflection \in Nat /\ reflection.totalXnos \in Nat
      /\ reward[o] = NoReward /\ reward \in [Owners -> [open: BOOLEAN, reflection: Nat, xnos: Nat]]
  BY TotalsTyped DEF Enter, ClosedIsEmpty
<1>2. points \in Nat
  BY <1>1, ProductIsNat
<1>3. /\ reward' = [reward EXCEPT ![o] = [open |-> TRUE, reflection |-> points, xnos |-> xnos]]
      /\ pot' = pot /\ reflection.open
  BY DEF Enter, OpenReward, Points
<1>4. reflection' = [reflection EXCEPT
                       !.totalReflection = reflection.totalReflection + (xnos + 0) * reflection.rate,
                       !.totalXnos = reflection.totalXnos + xnos]
  BY DEF Enter, AddAccount, Points
<1>5. DOMAIN reflection = {"open", "rate", "totalReflection", "totalXnos"}
  BY DEF RewardsIInv, RewardsShape
<1>6. /\ reflection'.open = reflection.open /\ reflection'.rate = reflection.rate
      /\ reflection'.totalReflection = reflection.totalReflection + (xnos + 0) * reflection.rate
      /\ reflection'.totalXnos = reflection.totalXnos + xnos
  BY <1>4, <1>5
<1>7. (xnos + 0) * reflection.rate = points /\ reflection.rate * xnos = points
  BY <1>1
<1>. HIDE DEF xnos, points
<1>8. /\ reward'[o] = [open |-> TRUE, reflection |-> points, xnos |-> xnos]
      /\ reward' = [reward EXCEPT ![o] = reward'[o]]
  BY <1>1, <1>3
<1>9. Rewrites(o, reward'[o], 0)
  BY <1>1, <1>2, <1>3, <1>6, <1>7, <1>8 DEF Rewrites, NoReward
<1>. QED  BY <1>1, <1>7, <1>8, <1>9 DEF NoReward

\* What can be claimed is covered by the points of the account.
LEMMA AmountIsCovered ==
  ASSUME NEW b \in [open: BOOLEAN, reflection: Nat, xnos: Nat], NEW rate \in Nat,
         AmountDefined(b, rate)
  PROVE  /\ Amount(b, rate) \in Nat /\ b.xnos + Amount(b, rate) \in Nat
         /\ rate * (b.xnos + Amount(b, rate)) \in Nat
         /\ rate * (b.xnos + Amount(b, rate)) <= b.reflection
<1>1. /\ rate \in Nat \ {0} /\ b.reflection \in Nat /\ b.xnos \in Nat
      /\ Amount(b, rate) \in Nat
  BY AmountIsNat DEF AmountDefined
<1>2. b.reflection \div rate \in Nat /\ (b.reflection \div rate) * rate <= b.reflection
  BY <1>1, DivIsNat, QuotientBound
<1>3. b.xnos + Amount(b, rate) = b.reflection \div rate
  BY <1>1, <1>2 DEF Amount
<1>4. rate * (b.reflection \div rate) = (b.reflection \div rate) * rate
  BY <1>1, <1>2
<1>. QED  BY <1>1, <1>2, <1>3, <1>4, ProductIsNat

LEMMA ClaimWrites ==
  ASSUME RewardsIInv, ClosedIsEmpty, NEW o \in Owners, NEW to \in Receivers, Claim(o, to)
  PROVE  LET amount == Amount(reward[o], reflection.rate)
         IN  /\ Rewrites(o, reward'[o], amount)
             /\ reward'[o].reflection = reflection.rate * reward'[o].xnos
             /\ AmountDefined(reward[o], reflection.rate)
             /\ amount # 0
<1>. DEFINE amount == Amount(reward[o], reflection.rate)
            left   == RemoveAccount(reflection, reward[o].reflection, reward[o].xnos + amount)
            xnos   == stake[o].xnos
            points == xnos * reflection.rate
<1>1. /\ xnos \in Nat /\ reflection.rate \in Nat /\ pot \in Nat
      /\ reflection.totalReflection \in Nat /\ reflection.totalXnos \in Nat
      /\ reward \in [Owners -> [open: BOOLEAN, reflection: Nat, xnos: Nat]]
  BY TotalsTyped
<1>2. points \in Nat
  BY <1>1, ProductIsNat
<1>3. /\ HasReward(o) /\ AmountDefined(reward[o], reflection.rate) /\ amount # 0
      /\ reward' = [reward EXCEPT ![o] = [open |-> TRUE, reflection |-> Points(left, xnos),
                                          xnos |-> xnos]]
      /\ pot' = pot - amount
      /\ reflection' = AddAccount(left, xnos, 0)
  BY DEF Claim, OpenReward
<1>4. reflection.open
  BY <1>3 DEF ClosedIsEmpty
<1>5. amount \in Nat
  BY <1>1, <1>3, AmountIsCovered
<1>6. DOMAIN reflection = {"open", "rate", "totalReflection", "totalXnos"}
  BY DEF RewardsIInv, RewardsShape
<1>7. /\ left.rate = reflection.rate /\ left.open = reflection.open
      /\ left.totalReflection = reflection.totalReflection - reward[o].reflection
      /\ left.totalXnos = reflection.totalXnos - (reward[o].xnos + amount)
      /\ DOMAIN left = {"open", "rate", "totalReflection", "totalXnos"}
  BY <1>6 DEF RemoveAccount
<1>. HIDE DEF amount, left, xnos, points
<1>8. Points(left, xnos) = points /\ Points(left, xnos + 0) = points
      /\ reflection.rate * xnos = points
  BY <1>1, <1>7 DEF Points, points
<1>9. /\ reflection'.open = reflection.open /\ reflection'.rate = reflection.rate
      /\ reflection'.totalReflection
           = reflection.totalReflection - reward[o].reflection + points
      /\ reflection'.totalXnos = reflection.totalXnos - (reward[o].xnos + amount) + xnos
  BY <1>3, <1>7, <1>8 DEF AddAccount
<1>10. /\ reward'[o] = [open |-> TRUE, reflection |-> points, xnos |-> xnos]
       /\ reward' = [reward EXCEPT ![o] = reward'[o]]
  BY <1>1, <1>3, <1>8
<1>11. reflection'.totalXnos
         = reflection.totalXnos - reward[o].xnos - amount + reward'[o].xnos
  <2>1. reward[o].xnos \in Nat
    BY <1>1
  <2>. QED  BY <1>1, <1>5, <1>9, <1>10, <2>1
<1>12. Rewrites(o, reward'[o], amount)
  BY <1>2, <1>1, <1>3, <1>4, <1>5, <1>9, <1>10, <1>11 DEF Rewrites, NoReward
<1>. QED  BY <1>3, <1>8, <1>10, <1>12 DEF amount

LEMMA SyncWrites ==
  ASSUME RewardsIInv, ClosedIsEmpty, NEW o \in Owners, Sync(o)
  PROVE  LET amount == Amount(reward[o], reflection.rate)
         IN  /\ Rewrites(o, reward'[o], 0)
             /\ reward'[o].reflection = reflection.rate * (reward'[o].xnos + amount)
             /\ AmountDefined(reward[o], reflection.rate)
<1>. DEFINE left   == RemoveAccount(reflection, reward[o].reflection, reward[o].xnos)
            amount == Amount(reward[o], reflection.rate)
            xnos   == stake[o].xnos
            points == (xnos + amount) * reflection.rate
<1>1. /\ xnos \in Nat /\ reflection.rate \in Nat /\ pot \in Nat
      /\ reflection.totalReflection \in Nat /\ reflection.totalXnos \in Nat
      /\ reward \in [Owners -> [open: BOOLEAN, reflection: Nat, xnos: Nat]]
  BY TotalsTyped
<1>2. DOMAIN reflection = {"open", "rate", "totalReflection", "totalXnos"}
  BY DEF RewardsIInv, RewardsShape
<1>3. /\ left.rate = reflection.rate /\ left.open = reflection.open
      /\ left.totalReflection = reflection.totalReflection - reward[o].reflection
      /\ left.totalXnos = reflection.totalXnos - reward[o].xnos
      /\ DOMAIN left = {"open", "rate", "totalReflection", "totalXnos"}
  BY <1>2 DEF RemoveAccount
<1>4. /\ HasReward(o) /\ AmountDefined(reward[o], reflection.rate)
      /\ reward' = [reward EXCEPT ![o] = [open |-> TRUE, reflection |-> Points(left, xnos + amount),
                                          xnos |-> xnos]]
      /\ pot' = pot
      /\ reflection' = AddAccount(left, xnos, amount)
  BY <1>3 DEF Sync, OpenReward
<1>5. reflection.open
  BY <1>4 DEF ClosedIsEmpty
<1>6. amount \in Nat /\ points \in Nat
  BY <1>1, <1>4, AmountIsCovered, ProductIsNat
<1>. HIDE DEF amount, left, xnos, points
<1>7. Points(left, xnos + amount) = points /\ reflection.rate * (xnos + amount) = points
  BY <1>1, <1>3, <1>6 DEF Points, points
<1>8. /\ reflection'.open = reflection.open /\ reflection'.rate = reflection.rate
      /\ reflection'.totalReflection
           = reflection.totalReflection - reward[o].reflection + points
      /\ reflection'.totalXnos = reflection.totalXnos - reward[o].xnos + xnos
  BY <1>3, <1>4, <1>7 DEF AddAccount
<1>9. /\ reward'[o] = [open |-> TRUE, reflection |-> points, xnos |-> xnos]
      /\ reward' = [reward EXCEPT ![o] = reward'[o]]
  BY <1>1, <1>4, <1>7
<1>10. Rewrites(o, reward'[o], 0)
  BY <1>1, <1>4, <1>5, <1>6, <1>8, <1>9 DEF Rewrites, NoReward
<1>. QED  BY <1>4, <1>7, <1>9, <1>10 DEF amount

LEMMA CloseRewardWrites ==
  ASSUME RewardsIInv, ClosedIsEmpty, NEW o \in Owners, CloseReward(o)
  PROVE  Rewrites(o, NoReward, 0) /\ HasReward(o)
<1>1. /\ pot \in Nat
      /\ reflection.totalReflection \in Nat /\ reflection.totalXnos \in Nat
      /\ reward \in [Owners -> [open: BOOLEAN, reflection: Nat, xnos: Nat]]
  BY TotalsTyped
<1>2. DOMAIN reflection = {"open", "rate", "totalReflection", "totalXnos"}
  BY DEF RewardsIInv, RewardsShape
<1>3. /\ HasReward(o) /\ pot' = pot
      /\ reward' = [reward EXCEPT ![o] = NoReward]
      /\ reflection'.open = reflection.open /\ reflection'.rate = reflection.rate
      /\ reflection'.totalReflection = reflection.totalReflection - reward[o].reflection
      /\ reflection'.totalXnos = reflection.totalXnos - reward[o].xnos
  BY <1>2 DEF CloseReward, RemoveAccount
<1>4. reflection.open
  BY <1>3 DEF ClosedIsEmpty
<1>. QED  BY <1>1, <1>3, <1>4 DEF Rewrites, NoReward

\* Every instruction of a staker writes one account.
LEMMA StakerWrites ==
  ASSUME RewardsIInv, ClosedIsEmpty, NEW o \in Owners, StakerNext(o)
  PROVE  \E b, paid : Rewrites(o, b, paid)
BY EnterWrites, ClaimWrites, SyncWrites, CloseRewardWrites DEF StakerNext

LEMMA RewritesTotals ==
  ASSUME TotalsIInv, RewardsIInv', NEW o \in Owners, NEW b, NEW paid, Rewrites(o, b, paid)
  PROVE  TotalsIInv'
<1>1. /\ reward \in [Owners -> [open: BOOLEAN, reflection: Nat, xnos: Nat]]
      /\ pot \in Nat /\ AllPoints \in Nat /\ AllScores \in Nat
      /\ reward[o].reflection \in Nat /\ reward[o].xnos \in Nat
      /\ b.reflection \in Nat /\ b.xnos \in Nat /\ paid \in Nat
  BY TotalsTyped DEF TotalsIInv, Rewrites
<1>2. /\ AllPoints' = AllPoints - reward[o].reflection + b.reflection
      /\ AllScores' = AllScores - reward[o].xnos + b.xnos
  BY <1>1, OneRewardChanges DEF TotalsIInv, Rewrites
<1>3. /\ reflection.totalReflection = AllPoints
      /\ reflection.totalXnos = pot + AllScores
  BY DEF TotalsIInv
<1>4. /\ reflection'.totalReflection = AllPoints'
      /\ reflection'.totalXnos = pot' + AllScores'
  BY <1>1, <1>2, <1>3 DEF Rewrites
<1>5. ClosedIsEmpty'
  BY <1>1 DEF TotalsIInv, ClosedIsEmpty, Rewrites, HasReward
<1>. QED  BY <1>4, <1>5 DEF TotalsIInv

LEMMA RateIsNatNext == RewardsIInv' => reflection'.rate \in Nat
BY DEF RewardsIInv, RewardsShape

LEMMA FeeTotals ==
  ASSUME TotalsIInv, RewardsIInv', NEW w \in FeePayers, NEW fee \in Fees, AddFee(w, fee)
  PROVE  TotalsIInv'
<1>1. /\ fee \in Nat /\ pot \in Nat /\ AllScores \in Nat
      /\ reflection.totalXnos = pot + AllScores
      /\ reflection.totalReflection = AllPoints
  BY TotalsTyped, RewardsAssumption DEF TotalsIInv
<1>2. DOMAIN reflection = {"open", "rate", "totalReflection", "totalXnos"}
  BY DEF TotalsIInv, RewardsIInv, RewardsShape
<1>3. /\ reflection.open /\ reward' = reward /\ pot' = pot + fee
      /\ reflection'.open = reflection.open
      /\ reflection'.totalReflection = reflection.totalReflection
      /\ reflection'.totalXnos = reflection.totalXnos + fee
  BY <1>2 DEF AddFee
<1>4. AllPoints' = AllPoints /\ AllScores' = AllScores
  BY <1>3, SumsKept
<1>5. ClosedIsEmpty'
  BY <1>3 DEF TotalsIInv, ClosedIsEmpty, HasReward
<1>. QED  BY <1>1, <1>3, <1>4, <1>5 DEF TotalsIInv

LEMMA TotalsStep == TotalsIInv /\ [Next]_vars => TotalsIInv'
<1>. SUFFICES ASSUME TotalsIInv, [Next]_vars PROVE TotalsIInv'
  OBVIOUS
<1>1. RewardsIInv /\ RewardsIInv'
  BY RewardsStepIInv DEF TotalsIInv
<1>2. CASE InitReflection
  <2>1. /\ reflection'.totalReflection = 0 /\ reflection'.totalXnos = 0
        /\ reflection'.open /\ reward' = reward /\ pot' = pot
        /\ ~ reflection.open
    BY <1>2 DEF InitReflection, NoReflection
  <2>2. /\ pot = 0 /\ \A o \in Owners : reward[o] = NoReward
    BY <2>1 DEF TotalsIInv, ClosedIsEmpty
  <2>3. AllPoints' = 0 /\ AllScores' = 0
    BY <2>1, <2>2, NothingToSum, SumsKept
  <2>4. ClosedIsEmpty'
    BY <2>1, <2>2 DEF ClosedIsEmpty, HasReward
  <2>. QED  BY <1>1, <2>1, <2>2, <2>3, <2>4 DEF TotalsIInv
<1>3. ASSUME NEW o \in Owners, StakerNext(o) PROVE TotalsIInv'
  BY <1>1, <1>3, StakerWrites, RewritesTotals DEF TotalsIInv
<1>4. CASE FeeNext
  BY <1>1, <1>4, FeeTotals DEF FeeNext
<1>5. CASE StakeStep \/ UNCHANGED vars
  <2>1. reflection' = reflection /\ reward' = reward /\ pot' = pot
    BY <1>5 DEF StakeStep, rewardsVars, vars
  <2>. QED  BY <1>1, <2>1, SumsKept DEF TotalsIInv, ClosedIsEmpty, HasReward
<1>. QED  BY <1>2, <1>3, <1>4, <1>5 DEF Next

LEMMA TotalsInit == Init => TotalsIInv
<1>. SUFFICES ASSUME Init PROVE TotalsIInv
  OBVIOUS
<1>1. RewardsIInv
  BY RewardsInitIInv
<1>2. /\ reflection.totalReflection = 0 /\ reflection.totalXnos = 0 /\ pot = 0
      /\ \A o \in Owners : reward[o] = NoReward /\ ~ HasReward(o)
  BY DEF Init, RewardsInit, NoReflection, NoReward, HasReward
<1>3. AllPoints = 0 /\ AllScores = 0
  BY <1>2, NothingToSum
<1>. QED  BY <1>1, <1>2, <1>3 DEF TotalsIInv, ClosedIsEmpty

LEMMA TotalsIInvHolds == Spec => []TotalsIInv
BY TotalsInit, TotalsStep, PTL DEF Spec

\* All points are somebody's, and the xnos of the pool are the scores of the
\* accounts and the tokens in the vault, in every order of the instructions.
THEOREM TotalsStayInAgreement == Spec => []TotalsAgree
<1>1. TotalsIInv => TotalsAgree
  BY DEF TotalsIInv, TotalsAgree, AllPoints, AllScores, SumFunction
<1>. QED  BY <1>1, TotalsIInvHolds, PTL

-----------------------------------------------------------------------------
(* The points cover what the accounts have earned *)

\* The invariant of a sound pool, inductive as long as fees are fine.
FairIInv == TotalsIInv /\ PointsCoverScores /\ SurplusIsSmall

\* The types of the products the invariant compares.
LEMMA FairTyped ==
  ASSUME RewardsIInv
  PROVE  /\ Surplus \in Int /\ reflection.rate \in Nat
         /\ reflection.rate * Supply \in Nat
         /\ reflection.rate * reflection.totalXnos \in Nat
         /\ Supply \in Nat \ {0} /\ MaxU128 \in Nat
         /\ \A o \in Owners : reflection.rate * reward[o].xnos \in Nat
         /\ reflection.totalReflection \in 0 .. MaxU128
<1>1. /\ Supply \in Nat \ {0} /\ MaxU128 \in Nat
      /\ reflection.totalReflection \in 0 .. MaxU128
  BY RewardsAssumption DEF RewardsIInv, RewardsShape
<1>2. /\ reflection.rate * Supply \in Nat
      /\ reflection.rate * reflection.totalXnos \in Nat
      /\ \A o \in Owners : reflection.rate * reward[o].xnos \in Nat
  BY <1>1, TotalsTyped, ProductIsNat
<1>. QED  BY <1>1, <1>2, TotalsTyped DEF Surplus

\* An account is written so that its new points cover its new score, and the
\* surplus does not grow.
LEMMA RewritesFair ==
  ASSUME FairIInv, TotalsIInv', NEW o \in Owners, NEW b, NEW paid, Rewrites(o, b, paid),
         b.reflection >= reflection.rate * b.xnos,
         b.reflection + reflection.rate * (reward[o].xnos + paid)
           <= reward[o].reflection + reflection.rate * b.xnos
  PROVE  FairIInv'
<1>1. /\ reward \in [Owners -> [open: BOOLEAN, reflection: Nat, xnos: Nat]]
      /\ reward[o].reflection \in Nat /\ reward[o].xnos \in Nat
      /\ reflection.rate \in Nat
      /\ reflection.totalReflection \in Nat /\ reflection.totalXnos \in Nat
      /\ b.reflection \in Nat /\ b.xnos \in Nat /\ paid \in Nat
  BY TotalsTyped DEF FairIInv, TotalsIInv, Rewrites
<1>2. /\ reflection'.rate = reflection.rate
      /\ reward' = [reward EXCEPT ![o] = b]
      /\ reflection'.totalReflection
           = reflection.totalReflection - reward[o].reflection + b.reflection
      /\ reflection'.totalXnos
           = reflection.totalXnos - reward[o].xnos - paid + b.xnos
      /\ reflection.open
  BY DEF Rewrites
<1>3. PointsCoverScores'
  BY <1>1, <1>2 DEF FairIInv, PointsCoverScores
<1>4. Surplus' \in Int /\ Surplus' <= Surplus
  <2>. DEFINE r == reflection.rate
              X == reflection.totalXnos
              x == reward[o].xnos + paid
              y == b.xnos
  <2>1. r * ((X - x) + y) = r * X - r * x + r * y
    <3>1. \A m \in Nat : \A i, j, k \in Nat : m * ((i - j) + k) = m * i - m * j + m * k
      OBVIOUS
    <3>2. r \in Nat /\ X \in Nat /\ x \in Nat /\ y \in Nat
      BY <1>1
    <3>. HIDE DEF r, X, x, y
    <3>. QED  BY <3>1, <3>2
  <2>2. reflection'.totalXnos = (X - x) + y
    BY <1>1, <1>2
  <2>3. r * X \in Nat /\ r * x \in Nat /\ r * y \in Nat
    BY <1>1, ProductIsNat
  <2>4. /\ Surplus' = reflection'.totalReflection - r * reflection'.totalXnos
        /\ Surplus = reflection.totalReflection - r * X
    BY <1>2 DEF Surplus
  <2>5. b.reflection + r * x <= reward[o].reflection + r * y
    OBVIOUS
  <2>. HIDE DEF r, X, x, y
  <2>. QED  BY <1>1, <1>2, <2>1, <2>2, <2>3, <2>4, <2>5
<1>5. SurplusIsSmall'
  <2>1. /\ Surplus < reflection.rate
        /\ Surplus + reflection.rate * Supply <= MaxU128
    BY <1>2 DEF FairIInv, SurplusIsSmall
  <2>3. Surplus \in Int /\ reflection.rate * Supply \in Nat /\ MaxU128 \in Nat
    BY FairTyped DEF FairIInv, TotalsIInv
  <2>. QED  BY <1>1, <1>2, <1>4, <2>1, <2>3 DEF SurplusIsSmall
<1>. QED  BY <1>3, <1>5 DEF FairIInv

LEMMA Distributes ==
  ASSUME NEW a \in Nat, NEW b \in Nat, NEW c \in Nat
  PROVE  a * (b + c) = a * b + a * c
OBVIOUS

LEMMA RemainderBound ==
  ASSUME NEW a \in Nat, NEW b \in Nat \ {0}
  PROVE  a < (a \div b) * b + b
OBVIOUS

LEMMA ProductAtLeast ==
  ASSUME NEW a \in Nat, NEW b \in Nat \ {0}
  PROVE  a * b >= a
<1>1. \A n \in Nat : a * (n + 1) = a * n + a /\ a * n \in Nat
  OBVIOUS
<1>2. b = (b - 1) + 1 /\ b - 1 \in Nat
  OBVIOUS
<1>. QED  BY <1>1, <1>2

\* What a fee does to the rate r of T points for X xnos, when q is the new rate
\* and R the points of an account with x xnos.
LEMMA FeeLowersRate ==
  ASSUME NEW T \in Nat, NEW X \in Nat, NEW r \in Nat, NEW fee \in Nat \ {0},
         NEW q \in Nat, q = T \div (X + fee), q >= X + fee,
         T - r * X < r
  PROVE  q < r /\ T - q * (X + fee) \in Nat /\ T - q * (X + fee) < q
<1>. DEFINE Y == X + fee
<1>1. Y \in Nat \ {0} /\ q * Y \in Nat /\ r * X \in Nat /\ r * fee \in Nat
  BY ProductIsNat
<1>2. q * Y <= T
  BY <1>1, QuotientBound
<1>3. T < q * Y + Y
  BY <1>1, RemainderBound
<1>4. r * Y = r * X + r * fee
  BY Distributes
<1>5. r * fee >= r
  BY ProductAtLeast
<1>6. q * Y < r * Y
  BY <1>1, <1>2, <1>4, <1>5
<1>7. q < r
  <2>1. CASE q >= r
    <3>1. q * Y >= r * Y
      BY <1>1, <2>1, ProductBound
    <3>. QED  BY <1>1, <1>4, <1>6, <3>1
  <2>. QED  BY <2>1
<1>. QED  BY <1>1, <1>2, <1>3, <1>7

LEMMA FeeKeepsRoom ==
  ASSUME NEW T \in Nat, NEW X \in Nat, NEW r \in Nat, NEW fee \in Nat \ {0},
         NEW q \in Nat, q < r, NEW S \in Nat, NEW max \in Nat,
         T <= max, T - r * X + r * S <= max
  PROVE  T - q * (X + fee) + q * S <= max
<1>. DEFINE Y == X + fee
<1>1. /\ Y \in Nat /\ q * Y \in Nat /\ q * S \in Nat /\ r * X \in Nat
      /\ r * S \in Nat /\ r * fee \in Nat /\ r * Y \in Nat
  BY ProductIsNat
<1>2. CASE S <= Y
  <2>1. S * q <= Y * q
    BY <1>1, <1>2, ProductBound
  <2>2. S * q = q * S /\ Y * q = q * Y
    BY <1>1
  <2>. QED  BY <1>1, <2>1, <2>2
<1>3. CASE Y < S
  <2>. DEFINE d == r - q
  <2>1. d \in Nat /\ r = q + d
    OBVIOUS
  <2>2. S * d \in Nat /\ Y * d \in Nat /\ Y * d <= S * d
    BY <1>1, <1>3, <2>1, ProductIsNat, ProductBound
  <2>. HIDE DEF d
  <2>3. S * (q + d) = S * q + S * d /\ Y * (q + d) = Y * q + Y * d
    BY <1>1, <2>1, Distributes
  <2>4. /\ S * (q + d) = r * S /\ Y * (q + d) = r * Y
        /\ S * q = q * S /\ Y * q = q * Y
    BY <1>1, <2>1
  <2>5. r * Y = r * X + r * fee
    BY Distributes
  <2>. QED  BY <1>1, <2>2, <2>3, <2>4, <2>5
<1>. QED  BY <1>1, <1>2, <1>3

LEMMA FeeFair ==
  ASSUME FairIInv, TotalsIInv', NEW w \in FeePayers, NEW fee \in Fees, AddFee(w, fee),
         FineFee
  PROVE  FairIInv' /\ 0 < reflection'.rate /\ reflection'.rate < reflection.rate
<1>. DEFINE T == reflection.totalReflection
            X == reflection.totalXnos
            r == reflection.rate
            q == reflection'.rate
<1>1. RewardsIInv
  BY DEF FairIInv, TotalsIInv
<1>2. /\ T \in Nat /\ X \in Nat /\ r \in Nat /\ r * Supply \in Nat /\ T <= MaxU128
      /\ Supply \in Nat \ {0} /\ MaxU128 \in Nat
  BY <1>1, FairTyped, TotalsTyped
<1>3. DOMAIN reflection = {"open", "rate", "totalReflection", "totalXnos"}
  BY <1>1 DEF RewardsIInv, RewardsShape
<1>4. /\ reflection.open /\ reward' = reward
      /\ q = T \div (X + fee) /\ reflection'.totalXnos = X + fee
      /\ reflection'.totalReflection = T
  BY <1>3 DEF AddFee
<1>5. fee \in Nat \ {0} /\ q >= X + fee
  BY <1>4, RewardsAssumption DEF FineFee
<1>6. T - r * X < r /\ T - r * X + r * Supply <= MaxU128
  BY <1>4 DEF FairIInv, SurplusIsSmall, Surplus
<1>7. /\ Surplus' = T - q * (X + fee)
      /\ \A o \in Owners : /\ reward[o].reflection \in Nat /\ reward[o].xnos \in Nat
                           /\ reward[o].reflection >= r * reward[o].xnos
  BY <1>1, <1>4, TotalsTyped DEF Surplus, FairIInv, PointsCoverScores
<1>8. q \in Nat
  BY <1>2, <1>4, <1>5, DivIsNat
<1>. HIDE DEF T, X, r, q
<1>9. q < r /\ T - q * (X + fee) \in Nat /\ T - q * (X + fee) < q
  BY <1>2, <1>4, <1>5, <1>6, <1>8, FeeLowersRate
<1>10. T - q * (X + fee) + q * Supply <= MaxU128
  BY <1>2, <1>5, <1>6, <1>8, <1>9, FeeKeepsRoom
<1>11. SurplusIsSmall'
  BY <1>7, <1>9, <1>10 DEF SurplusIsSmall, q
<1>12. \A o \in Owners : reward[o].reflection >= q * reward[o].xnos
  <2>1. ASSUME NEW o \in Owners PROVE reward[o].reflection >= q * reward[o].xnos
    <3>1. q * reward[o].xnos <= r * reward[o].xnos
      BY <1>2, <1>7, <1>8, <1>9, ProductBound
    <3>2. q * reward[o].xnos \in Nat /\ r * reward[o].xnos \in Nat
      BY <1>2, <1>7, <1>8, ProductIsNat
    <3>. QED  BY <1>7, <3>1, <3>2
  <2>. QED  BY <2>1
<1>13. PointsCoverScores'
  BY <1>4, <1>12 DEF PointsCoverScores, q
<1>14. 0 < q /\ q < r
  BY <1>2, <1>5, <1>8, <1>9
<1>. QED  BY <1>11, <1>13, <1>14 DEF FairIInv, q, r

\* Enter, Claim, Sync and Close.
LEMMA StakerFair ==
  ASSUME FairIInv, TotalsIInv', NEW o \in Owners, StakerNext(o)
  PROVE  FairIInv'
<1>. DEFINE r == reflection.rate
            b == reward'[o]
            amount == Amount(reward[o], reflection.rate)
<1>1. /\ RewardsIInv /\ ClosedIsEmpty
      /\ reward[o] \in [open: BOOLEAN, reflection: Nat, xnos: Nat]
      /\ reward[o].reflection \in Nat /\ reward[o].xnos \in Nat /\ r \in Nat
      /\ reward[o].reflection >= r * reward[o].xnos
  BY TotalsTyped DEF FairIInv, TotalsIInv, PointsCoverScores
<1>2. CASE Enter(o)
  <2>1. /\ Rewrites(o, b, 0) /\ b.reflection = r * b.xnos
        /\ reward[o].reflection = 0 /\ reward[o].xnos = 0
    BY <1>1, <1>2, EnterWrites
  <2>2. r * b.xnos \in Nat /\ r * (0 + 0) = 0
    BY <1>1, <2>1, ProductIsNat DEF Rewrites
  <2>. HIDE DEF b
  <2>3. /\ b.reflection >= reflection.rate * b.xnos
        /\ b.reflection + reflection.rate * (reward[o].xnos + 0)
             <= reward[o].reflection + reflection.rate * b.xnos
    BY <2>1, <2>2
  <2>. QED  BY <2>1, <2>3, RewritesFair
<1>3. ASSUME NEW to \in Receivers, Claim(o, to) PROVE FairIInv'
  <2>1. /\ Rewrites(o, b, amount) /\ b.reflection = r * b.xnos
        /\ AmountDefined(reward[o], r)
    BY <1>1, <1>3, ClaimWrites
  <2>2. r * b.xnos \in Nat
    BY <1>1, <2>1, ProductIsNat DEF Rewrites
  <2>3. /\ r * (reward[o].xnos + amount) \in Nat
        /\ r * (reward[o].xnos + amount) <= reward[o].reflection
    BY <1>1, <2>1, AmountIsCovered
  <2>. HIDE DEF b, amount
  <2>4. /\ b.reflection >= reflection.rate * b.xnos
        /\ b.reflection + reflection.rate * (reward[o].xnos + amount)
             <= reward[o].reflection + reflection.rate * b.xnos
    BY <1>1, <2>1, <2>2, <2>3
  <2>. QED  BY <2>1, <2>4, RewritesFair
<1>4. CASE Sync(o)
  <2>1. /\ Rewrites(o, b, 0) /\ b.reflection = r * (b.xnos + amount)
        /\ AmountDefined(reward[o], r)
    BY <1>1, <1>4, SyncWrites
  <2>2. /\ r * (reward[o].xnos + amount) <= reward[o].reflection
        /\ amount \in Nat
    BY <1>1, <2>1, AmountIsCovered
  <2>3. b.xnos \in Nat
    BY <2>1 DEF Rewrites
  <2>. HIDE DEF b, amount
  <2>4. /\ r * b.xnos \in Nat /\ r * amount \in Nat /\ r * reward[o].xnos \in Nat
        /\ r * (b.xnos + amount) = r * b.xnos + r * amount
        /\ r * (reward[o].xnos + amount) = r * reward[o].xnos + r * amount
        /\ reward[o].xnos + 0 = reward[o].xnos
    BY <1>1, <2>2, <2>3, ProductIsNat, Distributes
  <2>5. /\ b.reflection >= reflection.rate * b.xnos
        /\ b.reflection + reflection.rate * (reward[o].xnos + 0)
             <= reward[o].reflection + reflection.rate * b.xnos
    BY <1>1, <2>1, <2>2, <2>4
  <2>. QED  BY <2>1, <2>5, RewritesFair
<1>5. CASE CloseReward(o)
  <2>1. Rewrites(o, NoReward, 0)
    BY <1>1, <1>5, CloseRewardWrites
  <2>2. NoReward.reflection = 0 /\ NoReward.xnos = 0 /\ r * 0 = 0
        /\ reward[o].xnos + 0 = reward[o].xnos /\ r * reward[o].xnos \in Nat
    BY <1>1, ProductIsNat DEF NoReward
  <2>3. /\ NoReward.reflection >= reflection.rate * NoReward.xnos
        /\ NoReward.reflection + reflection.rate * (reward[o].xnos + 0)
             <= reward[o].reflection + reflection.rate * NoReward.xnos
    BY <1>1, <2>2
  <2>. QED  BY <2>1, <2>3, RewritesFair
<1>. QED  BY <1>2, <1>3, <1>4, <1>5 DEF StakerNext

\* The first rate is not zero, and the whole supply at that rate fits into u128.
LEMMA InitialRateFits ==
  /\ InitialRate \in Nat /\ InitialRate > 0
  /\ InitialRate * Supply <= MaxU128 /\ InitialRate * 0 = 0
<1>. DEFINE a == MaxU128 - (MaxU128 % Supply)
<1>1. MaxU128 \in Nat /\ Supply \in Nat \ {0} /\ Supply <= MaxU128
  BY RewardsAssumption
<1>2. MaxU128 % Supply \in 0 .. Supply - 1
  BY <1>1
<1>3. a \in Nat /\ a <= MaxU128 /\ InitialRate = a \div Supply
  BY <1>1, <1>2 DEF InitialRate
<1>4. InitialRate \in Nat /\ InitialRate * Supply <= a /\ a < InitialRate * Supply + Supply
  BY <1>1, <1>3, DivIsNat, QuotientBound, RemainderBound
<1>5. InitialRate * Supply \in Nat
  BY <1>1, <1>4, ProductIsNat
<1>6. InitialRate > 0
  <2>1. CASE InitialRate = 0
    <3>1. a < Supply
      BY <1>1, <1>3, <1>4, <2>1
    <3>2. MaxU128 = (MaxU128 \div Supply) * Supply + (MaxU128 % Supply)
      BY <1>1
    <3>3. MaxU128 \div Supply \in Nat /\ (MaxU128 \div Supply) * Supply < Supply
      BY <1>1, <1>2, <3>1, <3>2, DivIsNat, ProductIsNat
    <3>4. MaxU128 \div Supply # 0
      BY <1>1, <1>2, <3>2
    <3>5. Supply * (MaxU128 \div Supply) >= Supply
      BY <1>1, <3>3, <3>4, ProductAtLeast
    <3>6. Supply * (MaxU128 \div Supply) = (MaxU128 \div Supply) * Supply
      BY <1>1, <3>3
    <3>. QED  BY <1>1, <3>3, <3>5, <3>6
  <2>. QED  BY <1>4, <2>1
<1>. QED  BY <1>1, <1>3, <1>4, <1>5, <1>6

LEMMA FairStep == FairIInv /\ [Next]_vars /\ [FineFee]_vars => FairIInv'
<1>. SUFFICES ASSUME FairIInv, [Next]_vars, [FineFee]_vars PROVE FairIInv'
  OBVIOUS
<1>1. TotalsIInv /\ TotalsIInv' /\ RewardsIInv
  BY TotalsStep DEF FairIInv, TotalsIInv
<1>2. CASE InitReflection
  <2>1. /\ reflection'.totalReflection = 0 /\ reflection'.totalXnos = 0
        /\ reflection'.rate = InitialRate /\ reward' = reward /\ ~ reflection.open
    BY <1>2 DEF InitReflection, NoReflection
  <2>2. \A o \in Owners : reward'[o].reflection = 0 /\ reward'[o].xnos = 0
    BY <1>1, <2>1 DEF TotalsIInv, ClosedIsEmpty, NoReward
  <2>3. /\ InitialRate \in Nat /\ InitialRate > 0
        /\ InitialRate * Supply <= MaxU128 /\ InitialRate * 0 = 0
    BY InitialRateFits
  <2>4. Surplus' = 0
    BY <2>1, <2>3 DEF Surplus
  <2>5. SurplusIsSmall'
    BY <2>1, <2>3, <2>4, RewardsAssumption, ProductIsNat DEF SurplusIsSmall
  <2>6. PointsCoverScores'
    BY <2>1, <2>2, <2>3 DEF PointsCoverScores
  <2>. QED  BY <1>1, <2>5, <2>6 DEF FairIInv
<1>3. ASSUME NEW o \in Owners, StakerNext(o) PROVE FairIInv'
  BY <1>1, <1>3, StakerFair
<1>4. CASE FeeNext /\ FineFee
  BY <1>1, <1>4, FeeFair DEF FeeNext
<1>5. CASE StakeStep \/ UNCHANGED vars
  <2>1. reflection' = reflection /\ reward' = reward /\ pot' = pot
    BY <1>5 DEF StakeStep, rewardsVars, vars
  <2>. QED  BY <1>1, <2>1 DEF FairIInv, PointsCoverScores, SurplusIsSmall, Surplus
<1>. QED  BY <1>2, <1>3, <1>4, <1>5 DEF Next

LEMMA SoundIsFair == TotalsIInv /\ SoundPool => FairIInv
BY DEF SoundPool, FairIInv

\* The pool stays sound through all instructions of all parties, in any order,
\* but for a fee that is zero or leaves fewer points per xnos than xnos.
THEOREM PoolStaysSound == Spec => StaysSound
<1>1. TotalsIInv /\ [Next]_vars => [SoundPool => SoundPool' \/ ~ FineFee]_vars
  <2>. SUFFICES ASSUME TotalsIInv, [Next]_vars, SoundPool, FineFee
                PROVE  SoundPool'
    OBVIOUS
  <2>1. FairIInv'
    BY FairStep, SoundIsFair
  <2>. QED  BY <2>1 DEF FairIInv, SoundPool
<1>. QED  BY <1>1, TotalsIInvHolds, PTL DEF Spec, StaysSound

LEMMA QuotientAtLeast ==
  ASSUME NEW a \in Nat, NEW b \in Nat \ {0}, NEW c \in Nat, b * c <= a
  PROVE  c <= a \div b
<1>. DEFINE q == a \div b
<1>1. q \in Nat /\ a < q * b + b
  BY DivIsNat, RemainderBound
<1>. HIDE DEF q
<1>2. CASE q < c
  <2>1. q + 1 \in Nat /\ q + 1 <= c
    BY <1>1, <1>2
  <2>2. (q + 1) * b <= c * b
    BY <2>1, ProductBound
  <2>3. (q + 1) * b = q * b + b /\ c * b = b * c
    BY <1>1
  <2>4. q * b \in Nat /\ b * c \in Nat
    BY <1>1, ProductIsNat
  <2>. QED  BY <1>1, <2>2, <2>3, <2>4
<1>. QED  BY <1>1, <1>2 DEF q

\* A pool with an account has a positive rate, and every account is worth its
\* score at least.
LEMMA FairAccount ==
  ASSUME FairIInv, NEW o \in Owners, HasReward(o)
  PROVE  /\ reflection.open /\ reflection.rate > 0
         /\ AmountDefined(reward[o], reflection.rate)
<1>1. /\ RewardsIInv /\ reflection.open
      /\ reward[o].reflection >= reflection.rate * reward[o].xnos
      /\ Surplus < reflection.rate
  BY DEF FairIInv, TotalsIInv, ClosedIsEmpty, PointsCoverScores, SurplusIsSmall
<1>2. /\ reflection.rate \in Nat /\ reflection.totalReflection \in Nat
      /\ reflection.totalXnos \in Nat
      /\ reward[o].reflection \in Nat /\ reward[o].xnos \in Nat
  BY <1>1, TotalsTyped
<1>3. reflection.rate > 0
  <2>1. CASE reflection.rate = 0
    <3>1. Surplus = reflection.totalReflection
      BY <1>2, <2>1 DEF Surplus
    <3>. QED  BY <1>1, <1>2, <2>1, <3>1
  <2>. QED  BY <1>2, <2>1
<1>4. reward[o].reflection \div reflection.rate >= reward[o].xnos
  BY <1>1, <1>2, <1>3, QuotientAtLeast
<1>. QED  BY <1>1, <1>3, <1>4 DEF AmountDefined

-----------------------------------------------------------------------------
(* The vault covers the rewards of all accounts together *)

\* What the points of an account are worth, the score included.
Worth(o) == IF HasReward(o) THEN reward[o].reflection \div reflection.rate ELSE 0

LEMMA PendingIsNat ==
  ASSUME RewardsIInv, NEW o \in Owners
  PROVE  Pending(o) \in Nat
BY TotalsTyped, AmountIsNat DEF Pending

LEMMA WorthOfAccount ==
  ASSUME FairIInv, reflection.open, NEW o \in Owners
  PROVE  /\ Worth(o) \in Nat /\ Worth(o) = Pending(o) + reward[o].xnos
         /\ reflection.rate * Worth(o) \in Nat
         /\ reflection.rate * Worth(o) <= reward[o].reflection
<1>1. /\ RewardsIInv /\ reflection.rate \in Nat
      /\ reward[o] \in [open: BOOLEAN, reflection: Nat, xnos: Nat]
      /\ reward[o].reflection \in Nat /\ reward[o].xnos \in Nat
  BY TotalsTyped DEF FairIInv, TotalsIInv
<1>2. CASE HasReward(o)
  <2>1. AmountDefined(reward[o], reflection.rate) /\ reflection.rate \in Nat \ {0}
    BY <1>1, <1>2, FairAccount
  <2>2. /\ reward[o].reflection \div reflection.rate \in Nat
        /\ (reward[o].reflection \div reflection.rate) * reflection.rate
             <= reward[o].reflection
    BY <1>1, <2>1, DivIsNat, QuotientBound
  <2>3. Worth(o) = reward[o].reflection \div reflection.rate
    BY <1>2 DEF Worth
  <2>4. Pending(o) = Worth(o) - reward[o].xnos
    BY <1>2, <2>1, <2>3 DEF Pending, Amount
  <2>5. Worth(o) \in Nat /\ Worth(o) * reflection.rate = reflection.rate * Worth(o)
    BY <1>1, <2>2, <2>3
  <2>. QED  BY <1>1, <2>2, <2>3, <2>4, <2>5, ProductIsNat
<1>3. CASE ~ HasReward(o)
  <2>1. reward[o].reflection = 0 /\ reward[o].xnos = 0
    BY <1>3 DEF FairIInv, TotalsIInv, ClosedIsEmpty, NoReward
  <2>2. Worth(o) = 0 /\ Pending(o) = 0 /\ reflection.rate * 0 = 0
    BY <1>1, <1>3 DEF Worth, Pending
  <2>. QED  BY <2>1, <2>2
<1>. QED  BY <1>2, <1>3

LEMMA FairPoolPays ==
  ASSUME FairIInv, reflection.open
  PROVE  SumFunctionOnSet([o \in Owners |-> Pending(o)], Owners) <= pot
<1>. DEFINE f == [o \in Owners |-> Pending(o)]
            x == [o \in Owners |-> reward[o].xnos]
            w == [o \in Owners |-> Worth(o)]
            c == [o \in Owners |-> reflection.rate * Worth(o)]
            p == [o \in Owners |-> reward[o].reflection]
            r == reflection.rate
            W == SumFunctionOnSet(w, Owners)
<1>1. RewardsIInv /\ IsFiniteSet(Owners)
  BY RewardsAssumption DEF FairIInv, TotalsIInv
<1>2. \A o \in Owners : /\ f[o] \in Nat /\ x[o] \in Nat /\ w[o] \in Nat
                        /\ c[o] \in Nat /\ p[o] \in Nat
                        /\ w[o] = f[o] + x[o] /\ c[o] = r * w[o] /\ c[o] <= p[o]
  BY <1>1, WorthOfAccount, PendingIsNat, TotalsTyped
<1>3. /\ reflection.totalReflection = SumFunctionOnSet(p, Owners)
      /\ reflection.totalXnos = pot + SumFunctionOnSet(x, Owners)
  BY DEF FairIInv, TotalsIInv, AllPoints, AllScores
<1>4. r \in Nat /\ pot \in Nat /\ reflection.totalXnos \in Nat
      /\ reflection.totalReflection \in Nat
  BY <1>1, TotalsTyped
<1>5. Surplus < r /\ Surplus = reflection.totalReflection - r * reflection.totalXnos
  BY DEF FairIInv, SurplusIsSmall, Surplus
<1>. HIDE DEF f, x, w, c, p, r
<1>6. W = SumFunctionOnSet(f, Owners) + SumFunctionOnSet(x, Owners)
  BY <1>1, <1>2, SumsAdd
<1>7. SumFunctionOnSet(c, Owners) = r * W
  BY <1>1, <1>2, <1>4, SumScales
<1>8. SumFunctionOnSet(c, Owners) <= SumFunctionOnSet(p, Owners)
  BY <1>1, <1>2, SumIsAtMost
<1>9. /\ SumFunctionOnSet(f, Owners) \in Nat /\ SumFunctionOnSet(x, Owners) \in Nat
      /\ W \in Nat
  BY <1>1, <1>2, SumIsNat
<1>. HIDE DEF W
<1>10. W <= reflection.totalXnos
  <2>. DEFINE X == reflection.totalXnos
  <2>1. CASE W > X
    <3>1. X + 1 \in Nat /\ X + 1 <= W
      BY <1>4, <1>9, <2>1
    <3>2. (X + 1) * r <= W * r
      BY <1>4, <1>9, <3>1, ProductBound
    <3>3. (X + 1) * r = r * X + r /\ W * r = r * W
      BY <1>4, <1>9
    <3>4. r * X \in Nat /\ r * W \in Nat
      BY <1>4, <1>9, ProductIsNat
    <3>5. r * W <= reflection.totalReflection
      BY <1>3, <1>7, <1>8
    <3>. HIDE DEF X
    <3>. QED  BY <1>4, <1>5, <3>2, <3>3, <3>4, <3>5 DEF X
  <2>. QED  BY <1>4, <1>9, <2>1
<1>11. SumFunctionOnSet(f, Owners) <= pot
  BY <1>3, <1>4, <1>6, <1>9, <1>10
<1>. QED  BY <1>11 DEF f

\* In a sound pool no claim fails because others have claimed before: the vault
\* covers what all accounts can claim together.
THEOREM PayoutsStayCovered == Spec => []PayoutsCovered
<1>1. ASSUME FairIInv PROVE PayoutsCovered
  <2>1. CASE reflection.open
    BY <1>1, <2>1, FairPoolPays DEF PayoutsCovered, SumFunction
  <2>2. CASE ~ reflection.open
    <3>. DEFINE f == [o \in Owners |-> Pending(o)]
    <3>1. pot = 0 /\ \A o \in Owners : f[o] = 0
      BY <1>1, <2>2 DEF FairIInv, TotalsIInv, ClosedIsEmpty, Pending
    <3>2. SumFunctionOnSet(f, Owners) = 0
      <4>. HIDE DEF f
      <4>1. SumFunctionOnSet(f, Owners) = SumFunctionOnSet(f, {})
        BY <3>1, RewardsAssumption, SumIgnoresZeros
      <4>. QED  BY <4>1, SumEmpty
    <3>. QED  BY <3>1, <3>2 DEF PayoutsCovered, SumFunction
  <2>. QED  BY <2>1, <2>2
<1>2. TotalsIInv => PayoutsCovered
  <2>1. CASE SoundPool
    BY <1>1, <2>1, SoundIsFair
  <2>2. CASE ~ SoundPool
    BY <2>2 DEF PayoutsCovered
  <2>. QED  BY <2>1, <2>2
<1>. QED  BY <1>2, TotalsIInvHolds, PTL

-----------------------------------------------------------------------------
(* The arithmetic locks nobody out *)

LEMMA FairPoolHasRoom ==
  ASSUME FairIInv, reflection.open, NEW o \in Owners
  PROVE  LET left == RemoveAccount(reflection, reward[o].reflection, reward[o].xnos)
         IN  /\ Fits(left)
             /\ left.totalXnos + stake[o].xnos <= Supply
                  => Fits(AddAccount(left, stake[o].xnos, Pending(o)))
<1>. DEFINE left == RemoveAccount(reflection, reward[o].reflection, reward[o].xnos)
            new  == AddAccount(left, stake[o].xnos, Pending(o))
            T == reflection.totalReflection
            X == reflection.totalXnos
            r == reflection.rate
            R == reward[o].reflection
            x == reward[o].xnos
            y == stake[o].xnos
            a == Pending(o)
<1>1. RewardsIInv /\ Supply <= MaxU128
  BY RewardsAssumption DEF FairIInv, TotalsIInv
<1>2. /\ T \in 0 .. MaxU128 /\ X \in 0 .. MaxU128 /\ r \in Nat /\ R \in Nat /\ x \in Nat
      /\ y \in Nat /\ a \in Nat /\ pot \in Nat /\ MaxU128 \in Nat /\ Supply \in Nat
  BY <1>1, TotalsTyped, FairTyped, PendingIsNat DEF RewardsIInv, RewardsShape
<1>3. DOMAIN reflection = {"open", "rate", "totalReflection", "totalXnos"}
  BY <1>1 DEF RewardsIInv, RewardsShape
<1>4. /\ left.totalReflection = T - R /\ left.totalXnos = X - x /\ left.rate = r
      /\ DOMAIN left = {"open", "rate", "totalReflection", "totalXnos"}
  BY <1>3 DEF RemoveAccount
<1>5. R <= T /\ x <= X
  <2>. DEFINE p == [q \in Owners |-> reward[q].reflection]
              s == [q \in Owners |-> reward[q].xnos]
  <2>1. /\ T = SumFunctionOnSet(p, Owners) /\ X = pot + SumFunctionOnSet(s, Owners)
        /\ p[o] = R /\ s[o] = x
        /\ \A q \in Owners : p[q] \in Nat /\ s[q] \in Nat
        /\ IsFiniteSet(Owners)
    BY <1>1, TotalsTyped, RewardsAssumption DEF FairIInv, TotalsIInv, AllPoints, AllScores
  <2>. HIDE DEF p, s, T, X, R, x
  <2>2. p[o] <= SumFunctionOnSet(p, Owners) /\ s[o] <= SumFunctionOnSet(s, Owners)
    BY <2>1, SumBounds
  <2>3. SumFunctionOnSet(s, Owners) \in Nat
    BY <2>1, SumIsNat
  <2>. QED  BY <1>2, <2>1, <2>2, <2>3
<1>6. r * (a + x) \in Nat /\ r * (a + x) <= R
  BY <1>1, WorthOfAccount
<1>7. T - r * X + r * Supply <= MaxU128
  BY DEF FairIInv, SurplusIsSmall, Surplus
<1>8. /\ new.totalReflection = (T - R) + (y + a) * r
      /\ new.totalXnos = (X - x) + y
  BY <1>4 DEF AddAccount, Points
<1>9. Fits(left)
  BY <1>2, <1>4, <1>5 DEF Fits
<1>. HIDE DEF left, new, T, X, r, R, x, y, a
<1>10. ASSUME (X - x) + y <= Supply PROVE Fits(new)
  <2>. DEFINE u == (X - x) + y
  <2>1. /\ u \in Nat /\ u + x = X + y
        /\ r * u \in Nat /\ r * x \in Nat /\ r * X \in Nat /\ r * y \in Nat /\ r * a \in Nat
        /\ r * Supply \in Nat
    BY <1>2, <1>5, ProductIsNat
  <2>2. /\ r * (u + x) = r * u + r * x /\ r * (X + y) = r * X + r * y
        /\ r * (a + x) = r * a + r * x /\ r * (y + a) = r * y + r * a
    BY <1>2, <2>1, Distributes
  <2>3. (y + a) * r = r * (y + a)
    BY <1>2
  <2>4. r * u <= r * Supply
    <3>1. u * r <= Supply * r
      BY <1>2, <1>10, <2>1, ProductBound
    <3>2. u * r = r * u /\ Supply * r = r * Supply
      BY <1>2, <2>1
    <3>. QED  BY <3>1, <3>2
  <2>5. r * u + r * x = r * X + r * y
    BY <2>1, <2>2
  <2>. HIDE DEF u
  <2>6. new.totalReflection \in Nat
    BY <1>2, <1>5, <1>8, <2>1, <2>2, <2>3
  <2>7. new.totalReflection <= MaxU128
    BY <1>2, <1>6, <1>7, <1>8, <2>1, <2>2, <2>3, <2>4, <2>5
  <2>8. new.totalXnos \in 0 .. MaxU128
    BY <1>1, <1>2, <1>8, <1>10, <2>1 DEF u
  <2>. QED  BY <1>2, <2>6, <2>7, <2>8 DEF Fits
<1>. QED  BY <1>4, <1>9, <1>10 DEF left, new, X, x, y, a

\* In a sound pool, as long as all scores together are within the supply, no
\* active staker is locked out of Enter and Sync, and nobody out of Close, by the
\* u128 arithmetic.
THEOREM PoolKeepsRoom == Spec => []PoolHasRoom
<1>1. TotalsIInv => PoolHasRoom
  BY FairPoolHasRoom, SoundIsFair DEF PoolHasRoom
<1>. QED  BY <1>1, TotalsIInvHolds, PTL

-----------------------------------------------------------------------------
(* Nobody takes away what an account has earned *)

\* Pending of an account with contents b.
PendingOf(b, rate) == IF b.open /\ AmountDefined(b, rate) THEN Amount(b, rate) ELSE 0

LEMMA PendingAt == \A o \in Owners : Pending(o) = PendingOf(reward[o], reflection.rate)
BY DEF Pending, PendingOf, HasReward

LEMMA PendingAtNext == \A o \in Owners : Pending(o)' = PendingOf(reward'[o], reflection'.rate)
BY DEF Pending, PendingOf, HasReward

\* A lower rate makes the points of an account worth more.
LEMMA LowerRatePaysMore ==
  ASSUME NEW b \in [open: BOOLEAN, reflection: Nat, xnos: Nat], b.open,
         NEW r \in Nat, NEW q \in Nat \ {0}, q <= r, AmountDefined(b, r)
  PROVE  PendingOf(b, q) >= PendingOf(b, r)
<1>. DEFINE R == b.reflection
            c == R \div r
<1>1. R \in Nat /\ b.xnos \in Nat /\ r \in Nat \ {0} /\ c >= b.xnos
  BY DEF AmountDefined
<1>2. c \in Nat /\ c * r <= R
  BY <1>1, DivIsNat, QuotientBound
<1>. HIDE DEF R, c
<1>3. q * c <= c * r /\ q * c \in Nat /\ c * r \in Nat
  <2>1. q * c <= r * c
    BY <1>1, <1>2, ProductBound
  <2>. QED  BY <1>1, <1>2, <2>1, ProductIsNat
<1>4. c <= R \div q /\ R \div q \in Nat
  BY <1>1, <1>2, <1>3, QuotientAtLeast, DivIsNat
<1>5. PendingOf(b, r) = c - b.xnos
  BY DEF PendingOf, Amount, R, c
<1>6. AmountDefined(b, q)
  BY <1>1, <1>2, <1>4 DEF AmountDefined, R
<1>7. PendingOf(b, q) = (R \div q) - b.xnos
  BY <1>6 DEF PendingOf, Amount, R
<1>. QED  BY <1>1, <1>2, <1>4, <1>5, <1>7

\* Points for a score and some more are worth that much more at least.
LEMMA CarriedOver ==
  ASSUME NEW b \in [open: BOOLEAN, reflection: Nat, xnos: Nat], b.open,
         NEW r \in Nat \ {0}, NEW amount \in Nat, b.reflection = r * (b.xnos + amount)
  PROVE  PendingOf(b, r) >= amount
<1>1. b.reflection \in Nat /\ b.xnos \in Nat /\ b.xnos + amount \in Nat
  OBVIOUS
<1>2. /\ b.xnos + amount <= b.reflection \div r /\ b.reflection \div r \in Nat
  BY <1>1, QuotientAtLeast, DivIsNat
<1>3. AmountDefined(b, r)
  BY <1>1, <1>2 DEF AmountDefined
<1>4. PendingOf(b, r) = b.reflection \div r - b.xnos
  BY <1>3 DEF PendingOf, Amount
<1>. QED  BY <1>1, <1>2, <1>4

\* A step that leaves account o open without paying it.
LEMMA StepKeepsPending ==
  ASSUME FairIInv, [Next]_vars, [FineFee]_vars, NEW o \in Owners,
         HasReward(o), reward'[o].open, reward'[o] = reward[o] \/ pot' = pot
  PROVE  Pending(o)' >= Pending(o)
<1>. DEFINE r == reflection.rate
            amount == Amount(reward[o], reflection.rate)
<1>1. /\ RewardsIInv /\ ClosedIsEmpty /\ TotalsIInv
      /\ reward \in [Owners -> [open: BOOLEAN, reflection: Nat, xnos: Nat]]
      /\ reward[o] \in [open: BOOLEAN, reflection: Nat, xnos: Nat] /\ reward[o].open
      /\ reflection.open /\ r \in Nat \ {0} /\ AmountDefined(reward[o], r)
      /\ pot \in Nat
  BY FairAccount, TotalsTyped DEF FairIInv, TotalsIInv, HasReward
<1>2. /\ Pending(o) = amount /\ Pending(o) = PendingOf(reward[o], r)
      /\ amount \in Nat
      /\ Pending(o)' = PendingOf(reward'[o], reflection'.rate)
  BY <1>1, PendingAt, PendingAtNext, AmountIsCovered DEF PendingOf
<1>3. CASE reward'[o] = reward[o] /\ reflection'.rate = r
  BY <1>2, <1>3
<1>4. ASSUME NEW p \in Owners, StakerNext(p), p # o PROVE Pending(o)' >= Pending(o)
  <2>1. reward'[o] = reward[o] /\ reflection'.rate = r
    BY <1>1, <1>4, StakerWrites DEF Rewrites
  <2>. QED  BY <1>3, <2>1
<1>5. ASSUME NEW to \in Receivers, Claim(o, to) PROVE FALSE
  <2>1. /\ Rewrites(o, reward'[o], amount)
        /\ reward'[o].reflection = r * reward'[o].xnos
        /\ amount # 0
    BY <1>1, <1>5, ClaimWrites
  <2>2. pot' = pot - amount
    BY <2>1 DEF Rewrites
  <2>3. reward[o].reflection = r * reward[o].xnos
    <3>1. pot' # pot
      <4>1. pot \in Nat
        BY <1>1
      <4>2. amount \in Nat /\ amount # 0
        BY <1>2, <2>1
      <4>. HIDE DEF amount
      <4>. QED  BY <2>2, <4>1, <4>2
    <3>2. reward'[o] = reward[o]
      BY <3>1
    <3>. QED  BY <2>1, <3>2
  <2>4. r * (reward[o].xnos + amount) <= reward[o].reflection
    BY <1>1, AmountIsCovered
  <2>5. reward[o].xnos \in Nat /\ amount \in Nat \ {0}
    BY <1>1, <1>2, <2>1
  <2>. HIDE DEF amount, r
  <2>6. /\ r * (reward[o].xnos + amount) = r * reward[o].xnos + r * amount
        /\ r * amount >= r /\ r * amount \in Nat /\ r * reward[o].xnos \in Nat
    BY <1>1, <2>5, Distributes, ProductAtLeast, ProductIsNat
  <2>. QED  BY <1>1, <2>3, <2>4, <2>6
<1>6. CASE Sync(o)
  <2>1. /\ Rewrites(o, reward'[o], 0)
        /\ reward'[o].reflection = r * (reward'[o].xnos + amount)
    BY <1>1, <1>6, SyncWrites
  <2>2. /\ reward'[o] \in [open: BOOLEAN, reflection: Nat, xnos: Nat]
        /\ reflection'.rate = r
    BY <2>1 DEF Rewrites
  <2>. HIDE DEF amount, r
  <2>3. PendingOf(reward'[o], r) >= amount
    BY <1>1, <1>2, <2>1, <2>2, CarriedOver
  <2>. QED  BY <1>2, <2>2, <2>3
<1>7. ASSUME NEW p \in Owners, StakerNext(p) PROVE Pending(o)' >= Pending(o)
  <2>1. ~ Enter(o)
    BY DEF Enter
  <2>2. ~ CloseReward(o)
    BY <1>1 DEF CloseReward, NoReward
  <2>. QED  BY <1>4, <1>5, <1>6, <1>7, <2>1, <2>2 DEF StakerNext
<1>8. ASSUME NEW w \in FeePayers, NEW fee \in Fees, AddFee(w, fee), FineFee
      PROVE  Pending(o)' >= Pending(o)
  <2>1. TotalsIInv' /\ reward' = reward
    BY <1>1, <1>8, TotalsStep DEF AddFee
  <2>2. 0 < reflection'.rate /\ reflection'.rate < r
    BY <1>8, <2>1, FeeFair
  <2>3. reflection'.rate \in Nat
    BY <2>1, RateIsNatNext DEF TotalsIInv
  <2>. QED  BY <1>1, <1>2, <2>1, <2>2, <2>3, LowerRatePaysMore
<1>9. ~ InitReflection
  BY <1>1 DEF InitReflection
<1>10. CASE StakeStep \/ UNCHANGED vars
  <2>1. reflection' = reflection /\ reward' = reward
    BY <1>10 DEF StakeStep, rewardsVars, vars
  <2>. QED  BY <1>3, <2>1
<1>. QED  BY <1>7, <1>8, <1>9, <1>10 DEF Next, FeeNext

\* In a sound pool, fine fees, and accounts that come, go and are brought up to
\* date, never lower the reward of another account; only its own Claim and Close
\* end it.
THEOREM NobodyLosesRewards == Spec => RewardsNeverLost
<1>1. TotalsIInv /\ [Next]_vars
      => [\A o \in Owners :
            /\ SoundPool /\ FineFee
            /\ HasReward(o) /\ reward'[o].open /\ (reward'[o] = reward[o] \/ pot' = pot)
            => Pending(o)' >= Pending(o)]_vars
  BY StepKeepsPending, SoundIsFair
<1>. QED  BY <1>1, TotalsIInvHolds, PTL DEF Spec, RewardsNeverLost
=============================================================================
