---------------------------- MODULE NosanaRewards ----------------------------
(***************************************************************************)
(* The nosana-rewards program, composed with nosana-staking: the two read  *)
(* each other's accounts.  A staker that enters the reflection pool gets   *)
(* reflection points for the score of the stake, at the current rate.      *)
(* Fees lower the rate, so that the points of everybody are worth more     *)
(* xnos than before; the difference is the reward that can be claimed.     *)
(***************************************************************************)
EXTENDS NosanaStaking, FiniteSets

CONSTANTS
  Fees,      \* amounts to add as a fee
  FeePayers, \* token accounts that fees are paid from
  Supply,    \* NOS_TOTAL_SUPPLY
  MaxU128    \* the largest u128

ASSUME RewardsAssumption ==
  /\ Fees \subseteq Nat /\ FeePayers \subseteq Wallets
  /\ MaxU128 \in Nat /\ Supply \in 1 .. MaxU128
  /\ IsFiniteSet(Owners)

VARIABLES
  reflection,  \* the ReflectionAccount
  reward,      \* RewardAccount of each owner
  pot          \* balance of the vault of the rewards program

rewardsVars == <<reflection, reward, pot>>
vars == <<slashing, stake, vault, wallet, now, reflection, reward, pot>>

-----------------------------------------------------------------------------
(* ReflectionAccount and RewardAccount *)

NoReflection == [open |-> FALSE, rate |-> 0, totalReflection |-> 0,
                 totalXnos |-> 0]

NoReward == [open |-> FALSE, reflection |-> 0, xnos |-> 0]

OpenReward(points, xnos) ==
  [open |-> TRUE, reflection |-> points, xnos |-> xnos]

HasReward(o) == reward[o].open

InitialRate == (MaxU128 - (MaxU128 % Supply)) \div Supply

Points(p, xnos) == xnos * p.rate

\* Faulty variant: a new account gets its points at the first rate.
AddAtInitialRate(p, xnos, rewardXnos) ==
  [p EXCEPT !.totalReflection = @ + (xnos + rewardXnos) * InitialRate,
            !.totalXnos = @ + xnos]

\* add_rewards_account; the points are Points(p, xnos + rewardXnos).
AddAccount(p, xnos, rewardXnos) ==
  [p EXCEPT !.totalReflection = @ + Points(p, xnos + rewardXnos),
            !.totalXnos = @ + xnos]

\* Faulty variant: the points stay in the pool.
RemoveXnosOnly(p, points, xnos) == [p EXCEPT !.totalXnos = @ - xnos]

\* remove_rewards_account
RemoveAccount(p, points, xnos) ==
  [p EXCEPT !.totalReflection = @ - points, !.totalXnos = @ - xnos]

\* The u128 arithmetic of the two does not overflow.
Fits(p) ==
  /\ p.totalReflection \in 0 .. MaxU128
  /\ p.totalXnos \in 0 .. MaxU128

\* get_amount: what a reward account can claim; defined when the rate is not
\* zero and the difference is not negative.
Amount(b, rate) == b.reflection \div rate - b.xnos

AmountDefined(b, rate) == rate > 0 /\ b.reflection \div rate >= b.xnos

-----------------------------------------------------------------------------
RewardsInit ==
  /\ reflection = NoReflection
  /\ reward = [o \in Owners |-> NoReward]
  /\ pot = 0

Init == StakingInit /\ RewardsInit

\* Init: anyone, once.
InitReflection ==
  /\ ~ reflection.open
  /\ reflection' = [NoReflection EXCEPT !.open = TRUE, !.rate = InitialRate]
  /\ UNCHANGED <<reward, pot, stakingVars>>

Enter(o) ==
  /\ reflection.open
  /\ IsActive(o)
  /\ ~ HasReward(o)
  /\ reflection' = AddAccount(reflection, stake[o].xnos, 0)
  /\ Fits(reflection')
  /\ reward' = [reward EXCEPT ![o] =
                  OpenReward(Points(reflection, stake[o].xnos), stake[o].xnos)]
  /\ UNCHANGED <<pot, stakingVars>>

\* Faulty variant: the balance of the payer is not looked at.
AddFeeUnpaid(w, fee) ==
  /\ reflection.open
  /\ reflection.totalXnos + fee > 0
  /\ reflection' =
       [reflection EXCEPT
          !.totalXnos = @ + fee,
          !.rate = reflection.totalReflection
                     \div (reflection.totalXnos + fee)]
  /\ Fits(reflection')
  /\ wallet' = [wallet EXCEPT ![w] = @ - fee]
  /\ pot' = pot + fee
  /\ UNCHANGED <<slashing, stake, vault, now, reward>>

\* The rate is the quotient of the new totals; a pool without xnos panics.
AddFee(w, fee) ==
  /\ reflection.open
  /\ reflection.totalXnos + fee > 0
  /\ wallet[w] >= fee
  /\ reflection' =
       [reflection EXCEPT
          !.totalXnos = @ + fee,
          !.rate = reflection.totalReflection
                     \div (reflection.totalXnos + fee)]
  /\ Fits(reflection')
  /\ wallet' = [wallet EXCEPT ![w] = @ - fee]
  /\ pot' = pot + fee
  /\ UNCHANGED <<slashing, stake, vault, now, reward>>

\* Faulty variant: the reward is paid and its xnos stay in the pool.
ClaimKeepingXnos(o, to) ==
  LET amount == Amount(reward[o], reflection.rate)
      left   == RemoveAccount(reflection, reward[o].reflection, reward[o].xnos)
  IN  /\ HasReward(o)
      /\ IsActive(o)
      /\ stake[o].xnos >= reward[o].xnos
      /\ AmountDefined(reward[o], reflection.rate)
      /\ amount # 0
      /\ Fits(left)
      /\ reflection' = AddAccount(left, stake[o].xnos, 0)
      /\ Fits(reflection')
      /\ reward' = [reward EXCEPT ![o] =
                      OpenReward(Points(left, stake[o].xnos), stake[o].xnos)]
      /\ pot >= amount
      /\ pot' = pot - amount
      /\ wallet' = [wallet EXCEPT ![to] = @ + amount]
      /\ UNCHANGED <<slashing, stake, vault, now>>

\* Pay the reward and enter anew with the present score.  Not for a stake
\* that has decreased.  Nothing happens when there is nothing to pay.
Claim(o, to) ==
  LET amount == Amount(reward[o], reflection.rate)
      left   == RemoveAccount(reflection, reward[o].reflection,
                              reward[o].xnos + amount)
  IN  /\ HasReward(o)
      /\ IsActive(o)
      /\ stake[o].xnos >= reward[o].xnos
      /\ AmountDefined(reward[o], reflection.rate)
      /\ amount # 0
      /\ Fits(left)
      /\ reflection' = AddAccount(left, stake[o].xnos, 0)
      /\ Fits(reflection')
      /\ reward' = [reward EXCEPT ![o] =
                      OpenReward(Points(left, stake[o].xnos), stake[o].xnos)]
      /\ pot >= amount
      /\ pot' = pot - amount
      /\ wallet' = [wallet EXCEPT ![to] = @ + amount]
      /\ UNCHANGED <<slashing, stake, vault, now>>

\* Faulty variant: what has been earned so far is forgotten.
SyncWithoutReward(o) ==
  LET left == RemoveAccount(reflection, reward[o].reflection, reward[o].xnos)
  IN  /\ HasReward(o)
      /\ IsActive(o)
      /\ Fits(left)
      /\ AmountDefined(reward[o], left.rate)
      /\ reflection' = AddAccount(left, stake[o].xnos, 0)
      /\ Fits(reflection')
      /\ reward' = [reward EXCEPT ![o] =
                      OpenReward(Points(left, stake[o].xnos), stake[o].xnos)]
      /\ UNCHANGED <<pot, stakingVars>>

\* Anyone: bring the account up to date with the score of the stake, keeping
\* what has been earned so far.
Sync(o) ==
  LET left   == RemoveAccount(reflection, reward[o].reflection, reward[o].xnos)
      amount == Amount(reward[o], left.rate)
  IN  /\ HasReward(o)
      /\ IsActive(o)
      /\ Fits(left)
      /\ AmountDefined(reward[o], left.rate)
      /\ reflection' = AddAccount(left, stake[o].xnos, amount)
      /\ Fits(reflection')
      /\ reward' = [reward EXCEPT ![o] =
                      OpenReward(Points(left, stake[o].xnos + amount), stake[o].xnos)]
      /\ UNCHANGED <<pot, stakingVars>>

\* What has been earned and not claimed is left to the others.
CloseReward(o) ==
  LET left == RemoveAccount(reflection, reward[o].reflection, reward[o].xnos)
  IN  /\ HasReward(o)
      /\ Fits(left)
      /\ reflection' = left
      /\ reward' = [reward EXCEPT ![o] = NoReward]
      /\ UNCHANGED <<pot, stakingVars>>

-----------------------------------------------------------------------------
StakerNext(o) ==
  \/ Enter(o)
  \/ \E w \in Receivers : Claim(o, w)
  \/ Sync(o)
  \/ CloseReward(o)

FeeNext == \E w \in FeePayers, f \in Fees : AddFee(w, f)

StakeStep ==
  /\ \/ Tick
     \/ \E o \in Owners : OwnerNext(o, HasReward(o))
     \/ SlasherNext
  /\ UNCHANGED rewardsVars

Next ==
  \/ InitReflection
  \/ \E o \in Owners : StakerNext(o)
  \/ FeeNext
  \/ StakeStep

Spec == Init /\ [][Next]_vars

-----------------------------------------------------------------------------
(* Safety *)

\* Accounts have the declared shape and the totals stay within u128.
RewardsTypeOK ==
  /\ StakingTypeOK
  /\ reflection \in [open: BOOLEAN, rate: Nat, totalReflection: 0 .. MaxU128,
                     totalXnos: 0 .. MaxU128]
  /\ reward \in [Owners -> [open: BOOLEAN, reflection: Nat, xnos: Nat]]
  /\ pot \in Nat

\* Only an active stake has a reward account: the two programs check it in
\* opposite directions, enter on the stake and unstake on the reward account.
\* A score of zero therefore never earns rewards after unstake.
RewardNeedsStake == \A o \in Owners : HasReward(o) => IsActive(o)

\* The totals are those of the open accounts: all points are somebody's, and
\* the xnos are those of the accounts and the tokens in the vault.
TotalsAgree ==
  /\ reflection.totalReflection
       = SumFunction([o \in Owners |-> reward[o].reflection])
  /\ reflection.totalXnos
       = pot + SumFunction([o \in Owners |-> reward[o].xnos])

Pending(o) ==
  IF HasReward(o) /\ AmountDefined(reward[o], reflection.rate)
  THEN Amount(reward[o], reflection.rate)
  ELSE 0

\* The points that are worth no xnos at the present rate; negative when xnos
\* in the vault belong to nobody.
Surplus == reflection.totalReflection - reflection.rate * reflection.totalXnos

\* No account has fewer points than its score is worth: get_amount is defined.
PointsCoverScores ==
  \A o \in Owners : reward[o].reflection >= reflection.rate * reward[o].xnos

\* The surplus is not worth one xnos, and all points fit into u128 when the
\* scores are those of the whole supply.
SurplusIsSmall ==
  reflection.open => /\ Surplus < reflection.rate
                     /\ Surplus + reflection.rate * Supply <= MaxU128

\* A pool that works as intended.  No instruction checks this, and add_fee can
\* end it (StaysSound): then the next three properties say nothing.
SoundPool == PointsCoverScores /\ SurplusIsSmall

\* The vault of a sound pool covers the rewards of all accounts together: no
\* claim fails because others have claimed before.
PayoutsCovered ==
  SoundPool => SumFunction([o \in Owners |-> Pending(o)]) <= pot

\* In a sound pool, as long as all xnos together, those of the newcomer
\* included, are no more than the token supply the initial rate was chosen for,
\* the u128 arithmetic stops no active staker from entering, no account from
\* being brought up to date (with what it has earned) and none from being closed.
PoolHasRoom ==
  reflection.open /\ SoundPool => \A o \in Owners :
    LET left == RemoveAccount(reflection, reward[o].reflection, reward[o].xnos)
    IN  /\ Fits(left)
        /\ IsActive(o) /\ left.totalXnos + stake[o].xnos <= Supply
             => Fits(AddAccount(left, stake[o].xnos, Pending(o)))

-----------------------------------------------------------------------------
(* What a step may do *)

\* If the step is a fee, it is not zero and leaves the points fine enough: no
\* fewer of them per xnos than there are xnos.  add_fee checks neither.  A fee
\* for a pool without points leaves a rate of zero, for good; a fee of zero can
\* raise the rate.  Either puts get_amount out of reach of some account.
FineFee ==
  \A w \in FeePayers, fee \in Fees :
    AddFee(w, fee) => fee > 0 /\ reflection'.rate >= reflection'.totalXnos

\* Nothing but a fee that is not fine ends the soundness of the pool: no account
\* that enters, claims, is brought up to date, leaves with unclaimed rewards or
\* changes its stake, in any order and at any rate, and no other fee.
StaysSound == [][SoundPool => SoundPool' \/ ~ FineFee]_vars

\* In a sound pool, fine fees and accounts that come, go and change never take
\* away what another account has earned.  An account loses its reward only by
\* its own Claim.
RewardsNeverLost ==
  [][\A o \in Owners :
       /\ SoundPool /\ FineFee
       /\ HasReward(o) /\ reward'[o].open /\ (reward'[o] = reward[o] \/ pot' = pot)
       => Pending(o)' >= Pending(o)]_vars
=============================================================================
