---------------------------- MODULE NosanaStaking ----------------------------
(***************************************************************************)
(* The nosana-staking program: every owner has at most one stake account   *)
(* and one vault.  An active stake has a score (xnos) that grows with its  *)
(* amount and duration; after unstake the score is zero and the tokens are *)
(* released linearly over the duration.  The slashing authority can take   *)
(* tokens at any time.                                                     *)
(*                                                                         *)
(* An instruction is one atomic transaction.  Withdrawing straight into    *)
(* the vault of somebody else has the effect of Withdraw followed by       *)
(* Deposit and is not an action of its own.                                *)
(***************************************************************************)
EXTENDS Integers, Functions

CONSTANTS
  Wallets,       \* token accounts other than the vaults
  Owners,        \* wallets that stake; the stake and the vault of o are named o
  Treasuries,    \* token accounts that can receive slashed tokens
  FirstTreasury, \* id::TOKEN_ACCOUNT
  Receivers,     \* token accounts that withdrawals are paid to
  Depositors,    \* token accounts that deposits come from
  Slashers,      \* wallets that can be the slashing authority
  FirstSlasher,  \* id::AUTHORITY
  Funds,         \* Funds[w]: tokens of wallet w at the start
  Amounts,       \* amounts to stake, top up, slash and deposit
  Durations,     \* durations to stake for and to extend by
  DurationMin, DurationMax, XnosPrecision,
  MaxU64,        \* the largest u64
  MaxTime,       \* bound on the clock
  None           \* no such account

ASSUME StakingAccountsAssumption ==
  /\ Owners \subseteq Wallets /\ Treasuries \subseteq Wallets
  /\ FirstTreasury \in Treasuries
  /\ FirstSlasher \in Slashers
  /\ Receivers \subseteq Wallets /\ Depositors \subseteq Wallets
  /\ Funds \in [Wallets -> Nat]
  /\ None \notin Slashers

ASSUME StakingNumbersAssumption ==
  /\ Amounts \subseteq Nat /\ Durations \subseteq Nat
  /\ DurationMin \in Nat \ {0} /\ DurationMax \in Nat
  /\ DurationMax >= 3 \* so that XnosDiv is not zero
  /\ XnosPrecision \in Nat \ {0} /\ MaxU64 \in Nat \ {0} /\ MaxTime \in Nat

VARIABLES
  slashing,  \* the SettingsAccount
  stake,     \* StakeAccount of each owner
  vault,     \* balance of the vault of each owner
  wallet,    \* balance of every other token account
  now        \* Clock::unix_timestamp

stakingVars == <<slashing, stake, vault, wallet, now>>

-----------------------------------------------------------------------------
(* StakeAccount *)

NoStake == [open |-> FALSE, amount |-> 0, duration |-> 0, timeUnstake |-> 0,
            xnos |-> 0]

NoSlashing == [authority |-> None, account |-> FirstTreasury]

HasStake(o) == stake[o].open
IsActive(o) == HasStake(o) /\ stake[o].timeUnstake = 0
IsUnstaked(o) == HasStake(o) /\ stake[o].timeUnstake # 0

\* 0.25 growth per month
XnosDiv == (4 * DurationMax) \div 12

Score(amount, duration) ==
  (((duration * XnosPrecision) \div XnosDiv + XnosPrecision) * amount)
    \div XnosPrecision

\* Faulty variant: the score is left as it was.
KeepXnos(b) == b

\* Recompute the score of a stake that has changed.
UpdateXnos(b) ==
  [b EXCEPT !.xnos = IF b.timeUnstake # 0 THEN 0
                     ELSE Score(b.amount, b.duration)]

\* What has been released of a stake some time after unstake, in the integer
\* arithmetic of the code.
Larger(m, n) == IF m > n THEN m ELSE n

Precision(b, elapsed) == MaxU64 \div Larger(b.amount, elapsed) - 1

\* Faulty variant: the part that has been withdrawn before is not deducted.
ReleasedAgain(b, balance, elapsed) ==
  IF elapsed >= b.duration
  THEN balance
  ELSE (((elapsed * Precision(b, elapsed)) \div b.duration) * b.amount)
         \div Precision(b, elapsed)

\* Faulty variant: the schedule has no end.
ReleasedLinearly(b, balance, elapsed) ==
  (((elapsed * Precision(b, elapsed)) \div b.duration) * b.amount)
     \div Precision(b, elapsed) - (b.amount - balance)

Released(b, balance, elapsed) ==
  IF elapsed >= b.duration
  THEN balance
  ELSE (((elapsed * Precision(b, elapsed)) \div b.duration) * b.amount)
         \div Precision(b, elapsed) - (b.amount - balance)

\* The u64 subtractions and divisions of StakeAccount::withdraw do not panic.
ReleaseDefined(b, balance, elapsed) ==
  elapsed < b.duration =>
    /\ Larger(b.amount, elapsed) > 0
    /\ Precision(b, elapsed) > 0
    /\ balance <= b.amount
    /\ Released(b, balance, elapsed) >= 0

-----------------------------------------------------------------------------
StakingInit ==
  /\ slashing = NoSlashing
  /\ stake = [o \in Owners |-> NoStake]
  /\ vault = [o \in Owners |-> 0]
  /\ wallet = Funds
  /\ now = 1

Tick ==
  /\ now < MaxTime
  /\ now' = now + 1
  /\ UNCHANGED <<slashing, stake, vault, wallet>>

\* Init: anyone, once.
InitSettings ==
  /\ slashing = NoSlashing
  /\ slashing' = [authority |-> FirstSlasher, account |-> FirstTreasury]
  /\ UNCHANGED <<stake, vault, wallet, now>>

UpdateSettings(signer, authority, account) ==
  /\ slashing # NoSlashing
  /\ signer = slashing.authority
  /\ slashing' = [authority |-> authority, account |-> account]
  /\ UNCHANGED <<stake, vault, wallet, now>>

Stake(o, amount, duration) ==
  /\ ~ HasStake(o)
  /\ duration >= DurationMin /\ duration <= DurationMax
  /\ wallet[o] >= amount
  /\ stake' = [stake EXCEPT ![o] =
                 UpdateXnos([NoStake EXCEPT !.open = TRUE, !.amount = amount,
                                            !.duration = duration])]
  /\ wallet' = [wallet EXCEPT ![o] = @ - amount]
  /\ vault' = [vault EXCEPT ![o] = @ + amount]
  /\ UNCHANGED <<slashing, now>>

\* Faulty variant: the reward account is not looked at.
UnstakeUnchecked(o, hasReward) ==
  /\ IsActive(o)
  /\ stake' = [stake EXCEPT ![o] = UpdateXnos([@ EXCEPT !.timeUnstake = now])]
  /\ UNCHANGED <<slashing, vault, wallet, now>>

\* hasReward: o has a reward account in the rewards program.
Unstake(o, hasReward) ==
  /\ IsActive(o)
  /\ ~ hasReward
  /\ stake' = [stake EXCEPT ![o] = UpdateXnos([@ EXCEPT !.timeUnstake = now])]
  /\ UNCHANGED <<slashing, vault, wallet, now>>

\* Faulty variant: the amount is left as it was before withdrawals.
RestakeStale(o) ==
  /\ IsUnstaked(o)
  /\ stake' = [stake EXCEPT ![o] = UpdateXnos([@ EXCEPT !.timeUnstake = 0])]
  /\ UNCHANGED <<slashing, vault, wallet, now>>

\* Active again, with whatever the vault holds.
Restake(o) ==
  /\ IsUnstaked(o)
  /\ stake' = [stake EXCEPT ![o] = UpdateXnos([@ EXCEPT !.timeUnstake = 0,
                                                        !.amount = vault[o]])]
  /\ UNCHANGED <<slashing, vault, wallet, now>>

Topup(o, amount) ==
  /\ IsActive(o)
  /\ amount > 0
  /\ wallet[o] >= amount
  /\ stake' = [stake EXCEPT ![o] =
                 UpdateXnos([@ EXCEPT !.amount = stake[o].amount + amount])]
  /\ wallet' = [wallet EXCEPT ![o] = @ - amount]
  /\ vault' = [vault EXCEPT ![o] = @ + amount]
  /\ UNCHANGED <<slashing, now>>

Extend(o, duration) ==
  /\ IsActive(o)
  /\ duration > 0
  /\ stake[o].duration + duration <= DurationMax
  /\ stake' = [stake EXCEPT ![o] =
                 UpdateXnos([@ EXCEPT !.duration = stake[o].duration + duration])]
  /\ UNCHANGED <<slashing, vault, wallet, now>>

\* Both accounts are closed; the owner can stake anew.
Close(o) ==
  /\ IsUnstaked(o)
  /\ stake[o].timeUnstake + stake[o].duration < now
  /\ vault[o] = 0
  /\ stake' = [stake EXCEPT ![o] = NoStake]
  /\ UNCHANGED <<slashing, vault, wallet, now>>

\* Faulty variant: the time of unstake is not looked at.
WithdrawActive(o, to) ==
  LET elapsed == now - stake[o].timeUnstake
      amount  == Released(stake[o], vault[o], elapsed)
  IN  /\ HasStake(o)
      /\ vault[o] # 0
      /\ ReleaseDefined(stake[o], vault[o], elapsed)
      /\ vault[o] >= amount
      /\ vault' = [vault EXCEPT ![o] = @ - amount]
      /\ wallet' = [wallet EXCEPT ![to] = @ + amount]
      /\ UNCHANGED <<slashing, stake, now>>

\* The stake account is not changed by a withdrawal.
Withdraw(o, to) ==
  LET elapsed == now - stake[o].timeUnstake
      amount  == Released(stake[o], vault[o], elapsed)
  IN  /\ IsUnstaked(o)
      /\ vault[o] # 0
      /\ ReleaseDefined(stake[o], vault[o], elapsed)
      /\ vault[o] >= amount
      /\ vault' = [vault EXCEPT ![o] = @ - amount]
      /\ wallet' = [wallet EXCEPT ![to] = @ + amount]
      /\ UNCHANGED <<slashing, stake, now>>

\* Faulty variant: only the vault limits the amount.
SlashUnchecked(o, signer, amount) ==
  /\ slashing # NoSlashing
  /\ signer = slashing.authority
  /\ HasStake(o)
  /\ vault[o] >= amount
  /\ stake' = [stake EXCEPT ![o] =
                 UpdateXnos([@ EXCEPT !.amount = stake[o].amount - amount])]
  /\ vault' = [vault EXCEPT ![o] = @ - amount]
  /\ wallet' = [wallet EXCEPT ![slashing.account] = @ + amount]
  /\ UNCHANGED <<slashing, now>>

\* Active or not, up to the amount of the stake account.
Slash(o, signer, amount) ==
  /\ slashing # NoSlashing
  /\ signer = slashing.authority
  /\ HasStake(o)
  /\ amount <= stake[o].amount
  /\ vault[o] >= amount
  /\ stake' = [stake EXCEPT ![o] =
                 UpdateXnos([@ EXCEPT !.amount = stake[o].amount - amount])]
  /\ vault' = [vault EXCEPT ![o] = @ - amount]
  /\ wallet' = [wallet EXCEPT ![slashing.account] = @ + amount]
  /\ UNCHANGED <<slashing, now>>

\* A plain token transfer into a vault, outside of the program.
Deposit(w, o, amount) ==
  /\ HasStake(o)
  /\ amount > 0
  /\ wallet[w] >= amount
  /\ wallet' = [wallet EXCEPT ![w] = @ - amount]
  /\ vault' = [vault EXCEPT ![o] = @ + amount]
  /\ UNCHANGED <<slashing, stake, now>>

-----------------------------------------------------------------------------
OwnerNext(o, hasReward) ==
  \/ \E a \in Amounts, d \in Durations : Stake(o, a, d)
  \/ Unstake(o, hasReward)
  \/ Restake(o)
  \/ \E a \in Amounts : Topup(o, a)
  \/ \E d \in Durations : Extend(o, d)
  \/ Close(o)
  \/ \E w \in Receivers : Withdraw(o, w)

SlasherNext ==
  \/ InitSettings
  \/ \E s, n \in Slashers, t \in Treasuries : UpdateSettings(s, n, t)
  \/ \E o \in Owners, s \in Slashers, a \in Amounts : Slash(o, s, a)

DepositNext == \E w \in Depositors, o \in Owners, a \in Amounts : Deposit(w, o, a)

StakingNext ==
  \/ Tick
  \/ \E o \in Owners, hasReward \in BOOLEAN : OwnerNext(o, hasReward)
  \/ SlasherNext
  \/ DepositNext

StakingSpec == StakingInit /\ [][StakingNext]_stakingVars

\* Every stake that is unstaked has time to be released before the bound on
\* the clock.
EndsInTime ==
  \A o \in Owners : stake'[o].timeUnstake # 0 =>
    stake'[o].timeUnstake + stake'[o].duration <= MaxTime

\* Time passes, and an owner that has unstaked keeps withdrawing.
StakingFairness ==
  /\ WF_stakingVars(Tick)
  /\ \A o \in Owners : WF_stakingVars(\E w \in Receivers : Withdraw(o, w))

FairStakingSpec ==
  StakingInit /\ [][StakingNext /\ EndsInTime]_stakingVars /\ StakingFairness

-----------------------------------------------------------------------------
(* Safety *)

StakeType == [open: BOOLEAN, amount: Nat, duration: Nat, timeUnstake: Nat,
              xnos: Nat]

\* Accounts have the declared shape, no balance is negative.
StakingTypeOK ==
  /\ slashing \in [authority: Slashers \cup {None}, account: Treasuries]
  /\ stake \in [Owners -> StakeType]
  /\ vault \in [Owners -> Nat]
  /\ wallet \in [Wallets -> Nat]
  /\ now \in Nat \ {0}

\* An active stake is fully backed by its vault, after withdrawals, restakes
\* and slashing: its score never stands for tokens that have been withdrawn.
\* Slashing an active stake therefore never fails for want of tokens.
Backed == \A o \in Owners : IsActive(o) => vault[o] >= stake[o].amount

\* The score that nosana-jobs and nosana-rewards read is the one of the present
\* amount and duration, and zero from unstake on.
ScoreIsCurrent ==
  \A o \in Owners :
    stake[o].xnos = IF IsActive(o)
                    THEN Score(stake[o].amount, stake[o].duration)
                    ELSE 0

\* A stake that is unstaked was so at some time that is not in the future.
UnstakedInThePast == \A o \in Owners : stake[o].timeUnstake <= now

\* The inductive invariant.
StakingIInv == StakingTypeOK /\ Backed /\ ScoreIsCurrent /\ UnstakedInThePast

-----------------------------------------------------------------------------
(* What a step may do *)

\* Before the duration is over, a withdrawal leaves in the vault at least what
\* is not released yet: whatever was withdrawn, slashed or restaked before, the
\* total taken out stays below the linear schedule of the present stake.
ReleasedOnSchedule ==
  [][\A o \in Owners :
       LET elapsed == now - stake[o].timeUnstake IN
       /\ IsUnstaked(o) /\ stake'[o] = stake[o]
       /\ vault'[o] < vault[o]
       /\ elapsed < stake[o].duration
       => (stake[o].amount - vault'[o]) * stake[o].duration
            <= stake[o].amount * elapsed]_stakingVars

\* Tokens leave a vault only to be withdrawn by an owner who has unstaked or
\* to the treasury, together with the amount of the stake.
TokensLocked ==
  [][\A o \in Owners : vault'[o] < vault[o] =>
       \/ IsUnstaked(o)
       \/ /\ vault[o] - vault'[o] = stake[o].amount - stake'[o].amount
          /\ wallet'[slashing.account] - wallet[slashing.account]
               = vault[o] - vault'[o]]_stakingVars

-----------------------------------------------------------------------------
(* What the documentation says and the code does not do *)

\* lib.rs, docs/staking.md: "Withdraw NOS that is released after an unstake".
\* While more of a stake has been released than was taken out, the program can
\* compute the amount to withdraw.
ReleasedCanBeWithdrawn ==
  \A o \in Owners :
    LET b       == stake[o]
        elapsed == now - b.timeUnstake
    IN  /\ IsUnstaked(o) /\ vault[o] # 0 /\ b.amount # 0
        /\ (b.amount * elapsed) \div b.duration > Larger(0, b.amount - vault[o])
        => ReleaseDefined(b, vault[o], elapsed)

-----------------------------------------------------------------------------
(* Liveness *)

\* An owner who keeps withdrawing gets everything out, unless he restakes.
TokensReleased ==
  \A o \in Owners : IsUnstaked(o) ~> (vault[o] = 0 \/ ~ IsUnstaked(o))
=============================================================================
