------------------------- MODULE NosanaStakingProofs -------------------------
(***************************************************************************)
(* Proofs about NosanaStaking: an active stake is backed by its vault and  *)
(* its score is that of its present amount and duration.                   *)
(***************************************************************************)
EXTENDS NosanaStaking, TLAPS

\* A quotient of natural numbers is one.
LEMMA DivIsNat ==
  ASSUME NEW a \in Nat, NEW b \in Nat \ {0}
  PROVE  a \div b \in Nat
OBVIOUS

LEMMA ProductIsNat ==
  ASSUME NEW a \in Nat, NEW b \in Nat
  PROVE  a * b \in Nat
OBVIOUS

\* A month is not zero seconds.
LEMMA XnosDivPositive == XnosDiv \in Nat \ {0}
BY StakingNumbersAssumption DEF XnosDiv

\* Every amount and duration has a score.
LEMMA ScoreIsNat ==
  ASSUME NEW amount \in Nat, NEW duration \in Nat
  PROVE  Score(amount, duration) \in Nat
<1>1. XnosPrecision \in Nat \ {0} /\ XnosDiv \in Nat \ {0}
  BY StakingNumbersAssumption, XnosDivPositive
<1>2. duration * XnosPrecision \in Nat
  BY <1>1, ProductIsNat
<1>3. (duration * XnosPrecision) \div XnosDiv \in Nat
  BY <1>1, <1>2, DivIsNat
<1>4. (duration * XnosPrecision) \div XnosDiv + XnosPrecision \in Nat
  BY <1>1, <1>3
<1>5. ((duration * XnosPrecision) \div XnosDiv + XnosPrecision) * amount \in Nat
  BY <1>4, ProductIsNat
<1>. QED  BY <1>1, <1>5, DivIsNat DEF Score

\* What is released is a number, positive or not.
LEMMA ReleasedIsInt ==
  ASSUME NEW b \in StakeType, NEW balance \in Nat, NEW elapsed \in Nat,
         ReleaseDefined(b, balance, elapsed)
  PROVE  Released(b, balance, elapsed) \in Nat
<1>1. CASE elapsed >= b.duration
  BY <1>1 DEF Released
<1>2. CASE elapsed < b.duration
  <2>1. /\ b.amount \in Nat /\ b.duration \in Nat \ {0}
        /\ Larger(b.amount, elapsed) \in Nat \ {0}
    BY <1>2 DEF StakeType, ReleaseDefined, Larger
  <2>2. MaxU64 \div Larger(b.amount, elapsed) \in Nat
    BY <2>1, DivIsNat, StakingNumbersAssumption
  <2>3. Precision(b, elapsed) \in Nat \ {0}
    BY <1>2, <2>2 DEF Precision, ReleaseDefined
  <2>4. (elapsed * Precision(b, elapsed)) \div b.duration \in Nat
    BY <2>1, <2>3, ProductIsNat, DivIsNat
  <2>5. (((elapsed * Precision(b, elapsed)) \div b.duration) * b.amount)
           \div Precision(b, elapsed) \in Nat
    BY <2>1, <2>3, <2>4, ProductIsNat, DivIsNat
  <2>6. Released(b, balance, elapsed) \in Int
    BY <1>2, <2>1, <2>5 DEF Released
  <2>. QED  BY <1>2, <2>6 DEF ReleaseDefined
<1>. QED  BY <1>1, <1>2 DEF StakeType

-----------------------------------------------------------------------------
(* One account *)

\* What the invariant says of the account b of owner o, with balance v at time t.
AccountOK(b, v, t) ==
  /\ b \in StakeType /\ v \in Nat
  /\ b.timeUnstake <= t
  /\ b.open /\ b.timeUnstake = 0 => v >= b.amount
  /\ b.xnos = IF b.open /\ b.timeUnstake = 0
              THEN Score(b.amount, b.duration)
              ELSE 0

\* The invariant account by account.
LEMMA AccountByAccount ==
  StakingIInv <=>
    /\ slashing \in [authority: Slashers \cup {None}, account: Treasuries]
    /\ wallet \in [Wallets -> Nat]
    /\ now \in Nat \ {0}
    /\ stake \in [Owners -> StakeType] /\ vault \in [Owners -> Nat]
    /\ \A o \in Owners : AccountOK(stake[o], vault[o], now)
BY DEF StakingIInv, StakingTypeOK, Backed, ScoreIsCurrent, UnstakedInThePast,
       AccountOK, IsActive, HasStake

LEMMA AccountByAccountNext ==
  StakingIInv' <=>
    /\ slashing' \in [authority: Slashers \cup {None}, account: Treasuries]
    /\ wallet' \in [Wallets -> Nat]
    /\ now' \in Nat \ {0}
    /\ stake' \in [Owners -> StakeType] /\ vault' \in [Owners -> Nat]
    /\ \A o \in Owners : AccountOK(stake'[o], vault'[o], now')
BY DEF StakingIInv, StakingTypeOK, Backed, ScoreIsCurrent, UnstakedInThePast,
       AccountOK, IsActive, HasStake

\* An account whose score has been recomputed is in order when it was opened
\* and is covered.
LEMMA UpdatedAccount ==
  ASSUME NEW b \in StakeType, b.open, NEW v \in Nat, NEW t \in Nat,
         b.timeUnstake <= t, b.timeUnstake = 0 => v >= b.amount
  PROVE  AccountOK(UpdateXnos(b), v, t)
<1>1. Score(b.amount, b.duration) \in Nat
  BY ScoreIsNat DEF StakeType
<1>. QED  BY <1>1 DEF AccountOK, UpdateXnos, StakeType

\* A step that changes the account and the vault of one owner at most.
LEMMA OneAccountStep ==
  ASSUME StakingIInv, NEW o \in Owners, NEW b, NEW v, AccountOK(b, v, now),
         stake' = [stake EXCEPT ![o] = b], vault' = [vault EXCEPT ![o] = v],
         wallet' \in [Wallets -> Nat], slashing' = slashing, now' = now
  PROVE  StakingIInv'
<1>1. b \in StakeType /\ v \in Nat
  BY DEF AccountOK
<1>2. stake' \in [Owners -> StakeType] /\ vault' \in [Owners -> Nat]
  BY <1>1, AccountByAccount
<1>3. \A p \in Owners : AccountOK(stake'[p], vault'[p], now')
  BY AccountByAccount
<1>. QED  BY <1>2, <1>3, AccountByAccount, AccountByAccountNext

-----------------------------------------------------------------------------
(* The steps, one by one *)

LEMMA StakingInitIInv == StakingInit => StakingIInv
<1>. SUFFICES ASSUME StakingInit PROVE StakingIInv
  OBVIOUS
<1>1. AccountOK(NoStake, 0, 1)
  BY DEF AccountOK, NoStake, StakeType
<1>2. NoSlashing \in [authority: Slashers \cup {None}, account: Treasuries]
  BY StakingAccountsAssumption DEF NoSlashing
<1>3. wallet \in [Wallets -> Nat]
  BY StakingAccountsAssumption DEF StakingInit
<1>. QED  BY <1>1, <1>2, <1>3, AccountByAccount DEF StakingInit, AccountOK

LEMMA TickIInv ==
  ASSUME StakingIInv, Tick
  PROVE  StakingIInv'
<1>1. \A o \in Owners : AccountOK(stake[o], vault[o], now')
  BY AccountByAccount DEF Tick, AccountOK, StakeType
<1>. QED  BY <1>1, AccountByAccount, AccountByAccountNext DEF Tick

LEMMA SettingsIInv ==
  ASSUME StakingIInv,
         NEW s \in Slashers, NEW n \in Slashers, NEW t \in Treasuries,
         InitSettings \/ UpdateSettings(s, n, t)
  PROVE  StakingIInv'
<1>1. slashing' \in [authority: Slashers \cup {None}, account: Treasuries]
  BY StakingAccountsAssumption DEF InitSettings, UpdateSettings
<1>. QED  BY <1>1, AccountByAccount, AccountByAccountNext
          DEF InitSettings, UpdateSettings

LEMMA StakeIInv ==
  ASSUME StakingIInv, NEW o \in Owners, NEW a \in Amounts, NEW d \in Durations,
         Stake(o, a, d)
  PROVE  StakingIInv'
<1>. DEFINE b == [NoStake EXCEPT !.open = TRUE, !.amount = a, !.duration = d]
<1>1. o \in Wallets /\ a \in Nat /\ d \in Nat /\ now \in Nat /\ vault[o] \in Nat
  BY StakingAccountsAssumption, StakingNumbersAssumption, AccountByAccount
<1>2. b \in StakeType /\ b.open /\ b.timeUnstake = 0 /\ b.amount = a
  BY <1>1 DEF NoStake, StakeType
<1>3. stake' = [stake EXCEPT ![o] = UpdateXnos(b)]
  BY DEF Stake
<1>. HIDE DEF b
<1>4. vault' = [vault EXCEPT ![o] = vault[o] + a]
  BY AccountByAccount DEF Stake
<1>5. AccountOK(UpdateXnos(b), vault[o] + a, now)
  BY <1>1, <1>2, UpdatedAccount
<1>6. wallet' \in [Wallets -> Nat]
  BY <1>1, AccountByAccount DEF Stake
<1>. QED  BY <1>3, <1>4, <1>5, <1>6, OneAccountStep DEF Stake

LEMMA UnstakeIInv ==
  ASSUME StakingIInv, NEW o \in Owners, NEW hasReward, Unstake(o, hasReward)
  PROVE  StakingIInv'
<1>. DEFINE b == [stake[o] EXCEPT !.timeUnstake = now]
<1>1. stake[o] \in StakeType /\ now \in Nat \ {0} /\ vault[o] \in Nat
  BY AccountByAccount
<1>2. b \in StakeType /\ b.open /\ b.timeUnstake = now
  BY <1>1 DEF StakeType, Unstake, IsActive, HasStake
<1>3. stake' = [stake EXCEPT ![o] = UpdateXnos(b)]
  BY DEF Unstake
<1>. HIDE DEF b
<1>4. vault' = [vault EXCEPT ![o] = vault[o]]
  BY AccountByAccount DEF Unstake
<1>5. AccountOK(UpdateXnos(b), vault[o], now)
  BY <1>1, <1>2, UpdatedAccount
<1>. QED  BY <1>3, <1>4, <1>5, OneAccountStep, AccountByAccount DEF Unstake

LEMMA RestakeIInv ==
  ASSUME StakingIInv, NEW o \in Owners, Restake(o)
  PROVE  StakingIInv'
<1>. DEFINE b == [stake[o] EXCEPT !.timeUnstake = 0, !.amount = vault[o]]
<1>1. stake[o] \in StakeType /\ now \in Nat \ {0} /\ vault[o] \in Nat
  BY AccountByAccount
<1>2. b \in StakeType /\ b.open /\ b.timeUnstake = 0 /\ b.amount = vault[o]
  BY <1>1 DEF StakeType, Restake, IsUnstaked, HasStake
<1>3. stake' = [stake EXCEPT ![o] = UpdateXnos(b)]
  BY DEF Restake
<1>. HIDE DEF b
<1>4. vault' = [vault EXCEPT ![o] = vault[o]]
  BY AccountByAccount DEF Restake
<1>5. AccountOK(UpdateXnos(b), vault[o], now)
  BY <1>1, <1>2, UpdatedAccount
<1>. QED  BY <1>3, <1>4, <1>5, OneAccountStep, AccountByAccount DEF Restake

LEMMA TopupIInv ==
  ASSUME StakingIInv, NEW o \in Owners, NEW a \in Amounts, Topup(o, a)
  PROVE  StakingIInv'
<1>. DEFINE b == [stake[o] EXCEPT !.amount = stake[o].amount + a]
<1>1. /\ o \in Wallets /\ a \in Nat /\ now \in Nat \ {0}
      /\ stake[o] \in StakeType /\ vault[o] \in Nat /\ stake[o].amount \in Nat
      /\ stake[o].open /\ stake[o].timeUnstake = 0
      /\ vault[o] >= stake[o].amount
  BY StakingAccountsAssumption, StakingNumbersAssumption, AccountByAccount
     DEF Topup, IsActive, HasStake, AccountOK, StakeType
<1>2. /\ b \in StakeType /\ b.open /\ b.timeUnstake = 0
      /\ b.amount = stake[o].amount + a
  BY <1>1 DEF StakeType
<1>3. stake' = [stake EXCEPT ![o] = UpdateXnos(b)]
  BY DEF Topup
<1>. HIDE DEF b
<1>4. vault' = [vault EXCEPT ![o] = vault[o] + a]
  BY AccountByAccount DEF Topup
<1>5. AccountOK(UpdateXnos(b), vault[o] + a, now)
  BY <1>1, <1>2, UpdatedAccount
<1>6. wallet' \in [Wallets -> Nat]
  BY <1>1, AccountByAccount DEF Topup
<1>. QED  BY <1>3, <1>4, <1>5, <1>6, OneAccountStep DEF Topup

LEMMA ExtendIInv ==
  ASSUME StakingIInv, NEW o \in Owners, NEW d \in Durations, Extend(o, d)
  PROVE  StakingIInv'
<1>. DEFINE b == [stake[o] EXCEPT !.duration = stake[o].duration + d]
<1>1. /\ d \in Nat /\ now \in Nat \ {0}
      /\ stake[o] \in StakeType /\ vault[o] \in Nat /\ stake[o].duration \in Nat
      /\ stake[o].open /\ stake[o].timeUnstake = 0
      /\ vault[o] >= stake[o].amount
  BY StakingNumbersAssumption, AccountByAccount
     DEF Extend, IsActive, HasStake, AccountOK, StakeType
<1>2. /\ b \in StakeType /\ b.open /\ b.timeUnstake = 0
      /\ b.amount = stake[o].amount
  BY <1>1 DEF StakeType
<1>3. stake' = [stake EXCEPT ![o] = UpdateXnos(b)]
  BY DEF Extend
<1>. HIDE DEF b
<1>4. vault' = [vault EXCEPT ![o] = vault[o]]
  BY AccountByAccount DEF Extend
<1>5. AccountOK(UpdateXnos(b), vault[o], now)
  BY <1>1, <1>2, UpdatedAccount
<1>. QED  BY <1>3, <1>4, <1>5, OneAccountStep, AccountByAccount DEF Extend

LEMMA CloseIInv ==
  ASSUME StakingIInv, NEW o \in Owners, Close(o)
  PROVE  StakingIInv'
<1>1. AccountOK(NoStake, vault[o], now)
  BY AccountByAccount DEF AccountOK, NoStake, StakeType
<1>2. /\ stake' = [stake EXCEPT ![o] = NoStake]
      /\ vault' = [vault EXCEPT ![o] = vault[o]]
  BY AccountByAccount DEF Close
<1>. QED  BY <1>1, <1>2, OneAccountStep, AccountByAccount DEF Close

\* An unstaked account is in order whatever its vault holds.
LEMMA UnstakedAccount ==
  ASSUME StakingIInv, NEW o \in Owners, IsUnstaked(o), NEW v \in Nat
  PROVE  AccountOK(stake[o], v, now)
BY AccountByAccount DEF AccountOK, IsUnstaked

LEMMA WithdrawIInv ==
  ASSUME StakingIInv, NEW o \in Owners, NEW to \in Receivers, Withdraw(o, to)
  PROVE  StakingIInv'
<1>. DEFINE elapsed == now - stake[o].timeUnstake
            amount  == Released(stake[o], vault[o], elapsed)
<1>1. /\ stake[o] \in StakeType /\ vault[o] \in Nat /\ to \in Wallets
      /\ elapsed \in Nat
  BY AccountByAccount, StakingAccountsAssumption DEF AccountOK, StakeType
<1>2. amount \in Nat /\ amount <= vault[o]
  BY <1>1, ReleasedIsInt DEF Withdraw
<1>3. /\ stake' = [stake EXCEPT ![o] = stake[o]]
      /\ vault' = [vault EXCEPT ![o] = vault[o] - amount]
      /\ wallet' = [wallet EXCEPT ![to] = wallet[to] + amount]
  BY AccountByAccount DEF Withdraw
<1>. HIDE DEF amount
<1>4. AccountOK(stake[o], vault[o] - amount, now)
  BY <1>1, <1>2, UnstakedAccount DEF Withdraw
<1>5. wallet' \in [Wallets -> Nat]
  BY <1>1, <1>2, <1>3, AccountByAccount
<1>. QED  BY <1>3, <1>4, <1>5, OneAccountStep DEF Withdraw

LEMMA SlashIInv ==
  ASSUME StakingIInv, NEW o \in Owners, NEW s \in Slashers, NEW a \in Amounts,
         Slash(o, s, a)
  PROVE  StakingIInv'
<1>. DEFINE b == [stake[o] EXCEPT !.amount = stake[o].amount - a]
<1>1. /\ a \in Nat /\ now \in Nat \ {0}
      /\ stake[o] \in StakeType /\ vault[o] \in Nat /\ stake[o].amount \in Nat
      /\ stake[o].open /\ stake[o].timeUnstake <= now
      /\ stake[o].timeUnstake = 0 => vault[o] >= stake[o].amount
  BY StakingNumbersAssumption, AccountByAccount
     DEF Slash, HasStake, AccountOK, StakeType
<1>2. a <= stake[o].amount /\ a <= vault[o] /\ vault[o] - a \in Nat
  BY <1>1 DEF Slash
<1>3. /\ b \in StakeType /\ b.open /\ b.timeUnstake = stake[o].timeUnstake
      /\ b.amount = stake[o].amount - a
  BY <1>1, <1>2 DEF StakeType
<1>4. stake' = [stake EXCEPT ![o] = UpdateXnos(b)]
  BY DEF Slash
<1>. HIDE DEF b
<1>5. /\ vault' = [vault EXCEPT ![o] = vault[o] - a]
      /\ wallet' = [wallet EXCEPT ![slashing.account]
                                    = wallet[slashing.account] + a]
  BY AccountByAccount DEF Slash
<1>6. b.timeUnstake = 0 => vault[o] - a >= b.amount
  BY <1>1, <1>2, <1>3
<1>7. AccountOK(UpdateXnos(b), vault[o] - a, now)
  BY <1>1, <1>2, <1>3, <1>6, UpdatedAccount
<1>8. wallet' \in [Wallets -> Nat]
  BY <1>1, <1>5, AccountByAccount, StakingAccountsAssumption
<1>. QED  BY <1>4, <1>5, <1>7, <1>8, OneAccountStep DEF Slash

LEMMA DepositIInv ==
  ASSUME StakingIInv, NEW w \in Depositors, NEW o \in Owners, NEW a \in Amounts,
         Deposit(w, o, a)
  PROVE  StakingIInv'
<1>1. /\ w \in Wallets /\ a \in Nat /\ vault[o] \in Nat
      /\ AccountOK(stake[o], vault[o], now)
  BY StakingAccountsAssumption, StakingNumbersAssumption, AccountByAccount
<1>2. AccountOK(stake[o], vault[o] + a, now)
  BY <1>1 DEF AccountOK, StakeType
<1>3. wallet' \in [Wallets -> Nat]
  BY <1>1, AccountByAccount DEF Deposit
<1>4. /\ stake' = [stake EXCEPT ![o] = stake[o]]
      /\ vault' = [vault EXCEPT ![o] = vault[o] + a]
  BY AccountByAccount DEF Deposit
<1>. QED  BY <1>2, <1>3, <1>4, OneAccountStep DEF Deposit

LEMMA OwnerIInv ==
  ASSUME StakingIInv, NEW o \in Owners, NEW hasReward, OwnerNext(o, hasReward)
  PROVE  StakingIInv'
BY StakeIInv, UnstakeIInv, RestakeIInv, TopupIInv, ExtendIInv, CloseIInv,
   WithdrawIInv DEF OwnerNext

LEMMA SlasherIInv ==
  ASSUME StakingIInv, SlasherNext
  PROVE  StakingIInv'
BY SettingsIInv, SlashIInv, StakingAccountsAssumption DEF SlasherNext

LEMMA StakingStepIInv == StakingIInv /\ [StakingNext]_stakingVars => StakingIInv'
<1>. SUFFICES ASSUME StakingIInv, [StakingNext]_stakingVars PROVE StakingIInv'
  OBVIOUS
<1>1. CASE UNCHANGED stakingVars
  BY <1>1, AccountByAccount, AccountByAccountNext DEF stakingVars
<1>2. CASE StakingNext
  BY <1>2, TickIInv, OwnerIInv, SlasherIInv, DepositIInv
     DEF StakingNext, DepositNext
<1>. QED  BY <1>1, <1>2

-----------------------------------------------------------------------------
\* The inductive invariant of the staking program.
THEOREM StakingInvariant == StakingSpec => []StakingIInv
<1>. QED  BY StakingInitIInv, StakingStepIInv, PTL DEF StakingSpec

\* Accounts keep their shape and no balance goes below zero.
THEOREM StakingTypeCorrect == StakingSpec => []StakingTypeOK
<1>1. StakingIInv => StakingTypeOK
  BY DEF StakingIInv
<1>. QED  BY <1>1, StakingInvariant, PTL

\* Whatever is withdrawn, restaked, slashed and deposited, the vault of an
\* active stake holds its amount.
THEOREM ActiveStakesAreBacked == StakingSpec => []Backed
<1>1. StakingIInv => Backed
  BY DEF StakingIInv
<1>. QED  BY <1>1, StakingInvariant, PTL

\* The score that other programs read is never stale.
THEOREM ScoresAreCurrent == StakingSpec => []ScoreIsCurrent
<1>1. StakingIInv => ScoreIsCurrent
  BY DEF StakingIInv
<1>. QED  BY <1>1, StakingInvariant, PTL

-----------------------------------------------------------------------------
(* What a step may do *)

\* Tokens leave a vault in a withdrawal or a slash of that stake, no other step.
LEMMA VaultDecreases ==
  ASSUME StakingIInv, [StakingNext]_stakingVars, NEW o \in Owners,
         vault'[o] < vault[o]
  PROVE  \/ \E w \in Receivers : Withdraw(o, w)
         \/ \E s \in Slashers, a \in Amounts : Slash(o, s, a)
<1>. vault \in [Owners -> Nat]
  BY DEF StakingIInv, StakingTypeOK
<1>1. ASSUME vault'[o] = vault[o] PROVE FALSE
  BY <1>1
<1>2. ASSUME NEW q \in Owners, NEW n, vault' = [vault EXCEPT ![q] = n], q # o
      PROVE  FALSE
  BY <1>1, <1>2
<1>3. ASSUME NEW q \in Owners, NEW a \in Amounts, vault' = [vault EXCEPT ![q] = @ + a]
      PROVE  FALSE
  <2>1. a \in Nat
    BY StakingNumbersAssumption
  <2>2. CASE q = o
    BY <1>3, <2>1, <2>2
  <2>. QED  BY <1>2, <1>3, <2>2
<1>4. ASSUME NEW q \in Owners, NEW hasReward, OwnerNext(q, hasReward)
      PROVE  \E w \in Receivers : Withdraw(o, w)
  <2>1. ASSUME NEW a \in Amounts, NEW d, Stake(q, a, d) PROVE FALSE
    BY <1>3, <2>1 DEF Stake
  <2>2. ASSUME NEW a \in Amounts, Topup(q, a) PROVE FALSE
    BY <1>3, <2>2 DEF Topup
  <2>3. ASSUME NEW w \in Receivers, Withdraw(q, w) PROVE q = o
    BY <1>2, <2>3 DEF Withdraw
  <2>4. ASSUME vault' = vault PROVE FALSE
    BY <1>1, <2>4
  <2>. QED  BY <1>4, <2>1, <2>2, <2>3, <2>4
            DEF OwnerNext, Unstake, Restake, Extend, Close
<1>5. ASSUME SlasherNext
      PROVE  \E s \in Slashers, a \in Amounts : Slash(o, s, a)
  <2>1. ASSUME NEW q \in Owners, NEW s, NEW a, Slash(q, s, a) PROVE q = o
    BY <1>2, <2>1 DEF Slash
  <2>. QED  BY <1>1, <1>5, <2>1 DEF SlasherNext, InitSettings, UpdateSettings
<1>6. ASSUME DepositNext PROVE FALSE
  <2>. PICK w \in Depositors, q \in Owners, a \in Amounts : Deposit(w, q, a)
    BY <1>6 DEF DepositNext
  <2>. QED  BY <1>3 DEF Deposit
<1>. QED  BY <1>1, <1>4, <1>5, <1>6 DEF StakingNext, Tick, stakingVars

\* What a slash takes is what the amount of the stake loses and the treasury gets.
LEMMA SlashedToTreasury ==
  ASSUME StakingIInv, NEW o \in Owners, NEW s, NEW a \in Amounts, Slash(o, s, a)
  PROVE  /\ vault[o] - vault'[o] = stake[o].amount - stake'[o].amount
         /\ wallet'[slashing.account] - wallet[slashing.account]
              = vault[o] - vault'[o]
<1>1. /\ a \in Nat /\ slashing.account \in Wallets
      /\ vault[o] \in Nat /\ stake[o].amount \in Nat
      /\ wallet[slashing.account] \in Nat
  BY StakingNumbersAssumption, StakingAccountsAssumption
     DEF StakingIInv, StakingTypeOK, StakeType
<1>2. /\ vault'[o] = vault[o] - a
      /\ wallet'[slashing.account] = wallet[slashing.account] + a
  BY <1>1 DEF Slash, StakingIInv, StakingTypeOK
<1>3. stake'[o].amount = stake[o].amount - a
  BY DEF Slash, StakingIInv, StakingTypeOK, StakeType, UpdateXnos
<1>. QED  BY <1>1, <1>2, <1>3

\* Tokens leave a vault only after unstake, or to the treasury.
THEOREM TokensAreLocked == StakingSpec => TokensLocked
<1>1. ASSUME StakingIInv, [StakingNext]_stakingVars, NEW o \in Owners,
             vault'[o] < vault[o]
      PROVE  \/ IsUnstaked(o)
             \/ /\ vault[o] - vault'[o] = stake[o].amount - stake'[o].amount
                /\ wallet'[slashing.account] - wallet[slashing.account]
                     = vault[o] - vault'[o]
  BY <1>1, VaultDecreases, SlashedToTreasury DEF Withdraw
<1>2. StakingIInv /\ [StakingNext]_stakingVars
        => [\A o \in Owners : vault'[o] < vault[o] =>
              \/ IsUnstaked(o)
              \/ /\ vault[o] - vault'[o] = stake[o].amount - stake'[o].amount
                 /\ wallet'[slashing.account] - wallet[slashing.account]
                      = vault[o] - vault'[o]]_stakingVars
  BY <1>1
<1>. QED  BY <1>2, StakingInvariant, PTL DEF StakingSpec, TokensLocked

\* Rounding down is in favour of the vault.
LEMMA QuotientBound ==
  ASSUME NEW a \in Nat, NEW b \in Nat \ {0}
  PROVE  (a \div b) * b <= a
OBVIOUS

LEMMA ProductBound ==
  ASSUME NEW a \in Nat, NEW b \in Nat, NEW c \in Nat, a <= b
  PROVE  a * c <= b * c
OBVIOUS

LEMMA ProductsCancel ==
  ASSUME NEW a \in Nat, NEW b \in Nat, NEW c \in Nat \ {0}, a * c <= b * c
  PROVE  a <= b
OBVIOUS

\* The two truncated quotients of StakeAccount::withdraw stay below the exact
\* one, whatever the precision.
LEMMA TruncatedSchedule ==
  ASSUME NEW amount \in Nat, NEW elapsed \in Nat, NEW duration \in Nat \ {0},
         NEW precision \in Nat \ {0}
  PROVE  ((((elapsed * precision) \div duration) * amount) \div precision) * duration
           <= amount * elapsed
<1>. DEFINE part  == (elapsed * precision) \div duration
            whole == (part * amount) \div precision
<1>1. elapsed * precision \in Nat /\ part \in Nat
  BY ProductIsNat, DivIsNat
<1>2. part * duration <= elapsed * precision
  BY <1>1, QuotientBound
<1>. HIDE DEF part
<1>3. part * amount \in Nat /\ whole \in Nat
  BY <1>1, ProductIsNat, DivIsNat
<1>4. whole * precision <= part * amount
  BY <1>3, QuotientBound
<1>. HIDE DEF whole
<1>5. (whole * precision) * duration <= (part * amount) * duration
  BY <1>3, <1>4, ProductIsNat, ProductBound
<1>6. (part * duration) * amount <= (elapsed * precision) * amount
  BY <1>1, <1>2, ProductIsNat, ProductBound
<1>7. /\ (whole * precision) * duration = (whole * duration) * precision
      /\ (part * amount) * duration = (part * duration) * amount
      /\ (elapsed * precision) * amount = (amount * elapsed) * precision
  BY <1>1, <1>3
<1>8. whole * duration \in Nat /\ amount * elapsed \in Nat
  BY <1>3, ProductIsNat
<1>9. (whole * duration) * precision <= (amount * elapsed) * precision
  <2>1. /\ (whole * duration) * precision \in Nat
        /\ (part * duration) * amount \in Nat
        /\ (amount * elapsed) * precision \in Nat
    BY <1>1, <1>8, ProductIsNat
  <2>. QED  BY <1>5, <1>6, <1>7, <2>1
<1>. QED  BY <1>8, <1>9, ProductsCancel DEF whole, part

\* A withdrawal before the end leaves what is not released.
LEMMA WithdrawnOnSchedule ==
  ASSUME StakingIInv, NEW o \in Owners, NEW to \in Receivers, Withdraw(o, to),
         now - stake[o].timeUnstake < stake[o].duration
  PROVE  (stake[o].amount - vault'[o]) * stake[o].duration
           <= stake[o].amount * (now - stake[o].timeUnstake)
<1>. DEFINE b       == stake[o]
            elapsed == now - b.timeUnstake
            whole   == (((elapsed * Precision(b, elapsed)) \div b.duration) * b.amount)
                         \div Precision(b, elapsed)
<1>1. /\ b.amount \in Nat /\ vault[o] \in Nat /\ elapsed \in Nat
      /\ b.duration \in Nat \ {0}
  BY DEF StakingIInv, StakingTypeOK, StakeType, UnstakedInThePast
<1>2. Precision(b, elapsed) \in Nat \ {0}
  <2>1. ReleaseDefined(b, vault[o], elapsed)
    BY DEF Withdraw
  <2>2. Larger(b.amount, elapsed) \in Nat \ {0} /\ Precision(b, elapsed) > 0
    BY <1>1, <2>1 DEF ReleaseDefined, Larger
  <2>3. MaxU64 \div Larger(b.amount, elapsed) \in Nat
    BY <2>2, DivIsNat, StakingNumbersAssumption
  <2>. QED  BY <2>2, <2>3 DEF Precision
<1>3. whole \in Nat
  BY <1>1, <1>2, ProductIsNat, DivIsNat
<1>4. whole * b.duration <= b.amount * elapsed
  BY <1>1, <1>2, TruncatedSchedule
<1>5. vault'[o] = vault[o] - (whole - (b.amount - vault[o]))
  BY <1>1 DEF Withdraw, Released, StakingIInv, StakingTypeOK
<1>. HIDE DEF whole
<1>6. b.amount - vault'[o] = whole
  BY <1>1, <1>3, <1>5
<1>. QED  BY <1>4, <1>6

\* However a stake was withdrawn from, slashed and restaked before, the total
\* taken out stays below the linear schedule.
THEOREM WithdrawalsFollowTheSchedule == StakingSpec => ReleasedOnSchedule
<1>1. ASSUME StakingIInv, [StakingNext]_stakingVars, NEW o \in Owners,
             stake'[o] = stake[o], vault'[o] < vault[o],
             now - stake[o].timeUnstake < stake[o].duration
      PROVE  (stake[o].amount - vault'[o]) * stake[o].duration
               <= stake[o].amount * (now - stake[o].timeUnstake)
  <2>1. ASSUME NEW s, NEW a \in Amounts, Slash(o, s, a) PROVE FALSE
    <3>1. vault[o] - vault'[o] = stake[o].amount - stake[o].amount
      BY <1>1, <2>1, SlashedToTreasury
    <3>2. vault[o] \in Nat /\ a \in Nat /\ vault'[o] = vault[o] - a
                          /\ stake[o].amount \in Nat
      BY <1>1, <2>1, StakingNumbersAssumption
         DEF Slash, StakingIInv, StakingTypeOK, StakeType
    <3>. QED  BY <1>1, <3>1, <3>2
  <2>. QED  BY <1>1, <2>1, VaultDecreases, WithdrawnOnSchedule
<1>2. StakingIInv /\ [StakingNext]_stakingVars
        => [\A o \in Owners :
              LET elapsed == now - stake[o].timeUnstake IN
              /\ IsUnstaked(o) /\ stake'[o] = stake[o]
              /\ vault'[o] < vault[o]
              /\ elapsed < stake[o].duration
              => (stake[o].amount - vault'[o]) * stake[o].duration
                   <= stake[o].amount * elapsed]_stakingVars
  BY <1>1
<1>. QED  BY <1>2, StakingInvariant, PTL DEF StakingSpec, ReleasedOnSchedule
=============================================================================
