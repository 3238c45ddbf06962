# Formal model of the Nosana programs

TLA+ models, model-checking runs and TLAPS proofs for the Solana programs in
`src/programs`.  The reference is the Rust code; the documentation and the tests
are used for what the programs are meant to promise.

## 1. Inventory

Every instruction of every program is one atomic transaction: it checks its
account constraints, runs its handler and its calls into other programs, and
either all of its effects happen or (on an error, a failed constraint or a
panic; overflow checks are on) none.  Concurrency is the order in which
transactions of independent signers land.

| Component | State it keeps | Operations | Talks to |
|---|---|---|---|
| `nosana-jobs` | `MarketAccount` (terms, one queue of job *or* node keys, its type), `MarketSettingsAccount` PDA, `JobAccount`, `RunAccount`, one token vault per market | `open update close close_admin set_settings close_settings list assign delist recover extend end work stop finish quit complete clean clean_admin quit_admin` | reads the stake account of nodes (`work`), token program, NFT metadata, `rewards.add_fee` (never, the fee fraction is 0) |
| `nosana-staking` | `StakeAccount` and vault per owner, one `SettingsAccount` | `init stake unstake restake topup extend close withdraw slash update_settings` | reads whether the owner's reward account exists (`unstake`) |
| `nosana-rewards` | `ReflectionAccount` (rate, totals) and its vault, `RewardAccount` per staker | `init enter add_fee claim sync close` | reads the stake account (`enter`, `claim`, `sync`) |
| `nosana-pools` | `PoolAccount` and vault | `open claim_fee claim_transfer close update_beneficiary` | calls `rewards.add_fee` (`claim_fee`) |
| `nosana-nodes` | `NodeAccount` per operator | `register audit update` | nothing |
| `common` | none | token transfer, account creation, PDAs, closed account test | token and system programs |
| `scripts`, `tests`, `docs` | none | clients of the programs | |

What is hard in them, and what makes them correct (each hazard is listed at its
line in `PROJECT.json`):

* **Jobs.** One vector holds either waiting jobs or waiting nodes and a type byte
  says which; five instructions change it and four of them trust the byte.  A job
  is represented in three places (its state, the queue, a run) and `end` and
  `quit` do not look at its state.  Deposits of many jobs, listed at different
  prices, lie in one vault.  A market can be closed over its jobs and its address
  opened again.  Correct means: a job is handed to one node at most, in the order
  of arrival; a vault that covers every unsettled deposit goes on doing so until
  its market is closed; each settlement divides exactly one deposit; no queued job
  of a market that stays open is lost.
* **Staking.** A linear release over the duration, interleaved with slashing,
  partial withdrawals, restakes and donations to the vault.  Correct means: the
  score is zero from `unstake` on, an active stake is fully backed by its vault,
  no withdrawal exceeds what has been released.
* **Rewards.** Shares are kept in *reflection*, which a global rate converts;
  integer divisions round, and a fee of any amount is accepted at any time.  Correct means:
  the vault can pay every claim, nobody loses what has been earned, no panic
  locks an account out, for as long as the fees allow it (section 5).
* **Pools.** A time-based emission, limited by what is in the vault.
* **Nodes.** Validation of self-declared properties, audited flag.

## 2. Plan

Done:

1. `NosanaJobs` (the core): the whole program, its invariants, action properties
   and liveness; `NosanaJobsProofs`: the inductive invariant;
   `NosanaJobsStepProofs`: the order of the queue and the settlements.
2. `NosanaStaking`, `NosanaPools`, `NosanaNodes`, each with its proofs.
3. `NosanaRewards`, which EXTENDS `NosanaStaking` and composes the two programs:
   `unstake`, `enter`, `claim` and `sync` read each other's accounts.
4. `FiniteSums`, the lemmas about sums over finite sets, and with them the
   solvency of the markets and of the rewards pool.
5. `JobContract`, the abstract specification of the life of a job and of its
   deposit, and `NosanaJobsContract`, the mapping under which `NosanaJobs`
   implements it; `NosanaJobsContractProofs`: the step simulation.

Left:

6. Jobs composed with staking (the score a node needs is read when it enters the
   queue only, the node may unstake afterwards), pools composed with rewards
   (`claim_fee` fails when `add_fee` does); an abstract vesting schedule
   implemented by `NosanaStaking`.
7. What `claim` needs of a sound pool as one theorem (its guard, put together from
   `PayoutsCovered` and `PoolHasRoom`).

The liveness properties (`QueuedJobsLeave`, `StoppedJobsRecovered`,
`TokensReleased`) stay with TLC: they need ENABLED, which is out of the prover's
reach.  Every other property of a passing run is a theorem.

| Module | Models | Proofs | Instances |
|---|---|---|---|
| `NosanaJobs` | `nosana-jobs` | `NosanaJobsProofs`, `NosanaJobsStepProofs` | `MCNosanaJobs` |
| `JobContract` | what `nosana-jobs` promises about one job and its deposit | | |
| `NosanaJobsContract` | the mapping from `NosanaJobs` to `JobContract` | `NosanaJobsContractProofs` | `MCNosanaJobs` |
| `NosanaStaking` | `nosana-staking` | `NosanaStakingProofs` | `MCNosanaStaking` |
| `NosanaRewards` | `nosana-rewards` with `nosana-staking` | `NosanaRewardsProofs` | `MCNosanaRewards` |
| `NosanaPools` | `nosana-pools` | `NosanaPoolsProofs` | `MCNosanaPools` |
| `NosanaNodes` | `nosana-nodes` | `NosanaNodesProofs` | `MCNosanaNodes` |
| `FiniteSums` | nothing: lemmas about `SumFunction` for the proofs | its own | |

### Sums: `FiniteSums`

What a vault owes and what all accounts hold are sums over sets of jobs, wallets
or stakers.  `SumFunctionOnSet` of the community modules folds over a set, one
element at a time, in an order that `CHOOSE` leaves open.  The usual induction over
finite sets takes a predicate as a parameter, which the provers cannot
instantiate; `SmallestFailure` replaces it.  The strict subsets of a finite set are
well founded, so if a statement fails for some subset, it fails for one all of
whose proper subsets have it, and one unfolding of the sum (`SumUnfolds`) refutes
that.  `SumExists` and `SumIsUnique` show first that the recursive definition
has exactly one solution, so that its value can be unfolded at all;
`SumTakesOut` makes it independent of the order.  From these follow the facts
the proofs use: how a sum changes with one or two values (`SumChanges`), bounds
(`SumBounds`, `SumIsAtMost`), and that it adds, scales and ignores zeros.

The sets summed over are assumed to be finite (`FiniteAssumption`,
`RewardsAssumption`), as the accounts of a chain are.

## 3. nosana-jobs: `NosanaJobs`

| TLA+ | Code |
|---|---|
| `market[m]` | `MarketAccount` at address `m`; `terms` are the fields `update` overwrites; `terms.jobType` is the byte `job_type`, whose low bits are the `JobType` (127 when it is none of the five) and whose high bit is the restricted flag |
| `settings[m]` | the project access key in the settings PDA of `m`, `None` when there is no such account |
| `job[j]`, `run[r]` | `JobAccount`, `RunAccount`; the address of a closed account, a market's included, can be used again |
| `tokens[u]`, `tokens[m]` | the NOS balance of wallet `u` and of the vault of market `m` |
| `now` | the clock sysvar |
| one action per instruction | account constraints are the guard, the handler the primed variables |

Design decisions:

* Anchor's `init` accepts every address that has no account, that of a closed
  market or job included.  So does the model: `Open` and `List` ask only that there
  is no account, and a market can be opened again over the jobs of the old one.
  Which addresses clients pick is a matter of the specification, see below.
* In `List` and `Work` the run address is only used when a run starts; a fresh
  one always exists, so the constraint that it is unused is part of `StartRun`.
* Anchor refuses the same mutable account under two names unless the field says
  `dup`: the vault of a market cannot be the destination of its own settlement,
  the vault of another market can (`Destinations`).
* `u64::try_from(timeout).unwrap()` panics for a negative timeout: `HasDeposit`.
  A free job may have one; then `recover`, which converts before it looks at the
  price, never succeeds.
* `price * timeout` cannot overflow at settlement: the product has been
  transferred when the job was listed.
* The network fee is `deposit.checked_div(0).unwrap_or(0)`, that is 0: the call
  of `rewards.add_fee` is unreachable and left out.
* The score in a node's stake account and the NFTs of a wallet are constants
  (`Xnos`, `Holds`).  Rent is not modelled.
* `Move` adds and subtracts in one expression, `b[a] + ... - ...`: when a wallet
  pays itself nothing changes, as in a token transfer.
* A queue longer than the account cannot be serialised and the transaction
  fails: `Fits`, with the constant `QueueCapacity` for 314.

### Properties

`QueueConsistent`, `SingleAssignment`, `RestrictedIffSettings`,
`MentionedJobsExist` and `PaidJobsHaveDeposit` are invariants;
`FirstComeFirstServed`, `SettledByTheClock`, `StaysSolvent` and `StaysReachable` say
what a step may do; `QueuedJobsLeave` and `StoppedJobsRecovered` are the liveness
properties; `ImplementsContract` and `ImplementsContractNoAdmin` are the refinement.
Each is stated in a comment above its definition.

`StaysSolvent` and `StaysReachable` are stated for a market from the moment it is
fine to the moment it is closed, because neither holds of all open markets.  Whoever
closes a market takes the whole vault; if its address is opened again while old
jobs are queued, running or stopped, then the new vault does not cover them and the
new queue does not hold them.  Anybody may do this with a market of his own:
open, list at a price, close, open.  No document or test promises otherwise (the test
that forbade closing over jobs is commented out), so the model has these states, the
runs reach them, and the properties say what is still true of them: a vault that
covers what the jobs of its address are owed goes on covering it, and a queued job
in reach of a node stays in reach.

### Three specifications

| | Steps | Used for |
|---|---|---|
| `Spec` | all instructions, any unused address | the program |
| `SpecFresh` | those of `Spec` but one: no job is listed at an address that a queue or a run still mentions although it has no account | every safety property with the market admin |
| `SpecNoAdmin` | `Spec` without the three instructions of the market admin | the properties the admin may break, liveness |

The step that `SpecFresh` leaves out needs two parties with special keys.  A
mentioned address without an account is what `clean_admin` leaves of a job that waits
or runs; then a client has to sign with the key pair of that old job again.
The program accepts it, the job then waits or runs twice, and `SingleAssignment`
fails.  Without the admin there is no such step: `MentionedJobsExist` is an invariant
of `SpecNoAdmin` (`NoDanglingJobs`), so every behaviour of `SpecNoAdmin` is one of
`SpecFresh` (`PartiesAreFresh`), and what is proved of `SpecFresh` holds of the
program without the admin with no condition on its clients.  The other addresses are
not restricted: closed markets, settled jobs and runs can all be used again.

### The contract: `JobContract`

`JobContract` knows no queues, runs, nodes, prices or clocks.  A job goes through
phases, and a deposit is held for it in one vault:

    new --Submit--> waiting --Start--> running --Settle--> settled --Forget--> gone
                       |                  |--Stop--> stopped --Recover--> gone
                       `--Withdraw--> gone

`Add` increases the deposit, `Settle` divides it between one account and the
payer, `Withdraw` and `Recover` return it whole.  No other step moves tokens out of
a vault but `CloseVault`, which empties it (the code does that on purpose).  What
the jobs of a closed market are due stays due from the vault of that address, and
is paid if the market is opened again and its vault filled.  `Remove` and `Lose` are the
two steps only the market admin takes: an account is deleted with its deposit in
the vault, a running job loses its node.  `gone` is `new`: the address is free.

The mapping (`NosanaJobsContract`):

| Contract | Program |
|---|---|
| `phase[j]` | a queued job is `running` when some run names it, `waiting` when its own market has it in the queue, `lost` when neither; the other phases are the states of the account |
| `held[j]` | `Escrow(j)`: `price * timeout` of the job account while it is queued or stopped, else 0 |
| `vault[j]`, `payer[j]` | the market and the payer in the job account |
| `balance` | `tokens` |

What is `lost` is in the contract because the code can lose jobs in three
ways: a job listed on a market of unknown type, a job that waits in a market that is
closed, and `quit_admin`.  `ImplementsContractNoAdmin` says that there is no
fourth: without the admin no sequence of the other instructions takes a job away from
its node or out of the queue, and `StaysReachable` that no job is lost while its
market stays open, but at its listing on a market of unknown type.

The mapping makes the hard cases visible as steps: `end` and `quit` do not look at
the state of the job, yet are `Settle` and `Stop` of a `running` one; `work` does not
look at the job account, yet a job it starts was `waiting` or is already gone;
`update` changes the price of the market and is a stutter.

### Runs

Deadlock is not checked: once every market is closed, or at the bound of the
clock, nothing need be enabled.

| Run | Instance | Shows |
|---|---|---|
| `jobs_queue` | 1 market, 4 jobs, 2 runs, 2 nodes, capacity 3, clock stopped | the queue holds jobs, then nodes, fills up, and no job is handed out twice or overtaken |
| `jobs_escrow` | 1 market, prices 0 and 2, 2 jobs, 2 runs, 1 node, timeouts -1, 1, 2, clock 0 to 2, 4 tokens | solvency, settlement and the refinement with updates, extensions, admin steps, a market that is closed and opened again, and runs shorter and longer than the timeout |
| `jobs_access` | 2 markets, no admin, access key, job type bytes 1, 129 (high bit set) and 255 (unknown, high bit set), 2 jobs, 1 run | restricted flag and settings, no job crosses markets, nothing mentions a job that is gone, no job is lost but by an unknown type or a closed market |
| `jobs_live` | 3 jobs, 2 runs, 2 nodes, capacity 2, no admin, fair nodes and projects, no symmetry | a full queue loses no job, every waiting job leaves the queue, every stopped job of a covered market is refunded |
| `jobs_clean` | 2 markets with different expirations | **violation**: `clean` accepts any market |

`StaysReachable` is stated for the behaviours without the admin because `quit_admin`
closes a run and leaves its job queued, in no queue: with the admin it fails.

In every run markets are opened again after they were closed, with
jobs of the old one left.  A queue of three is the shortest in which removing a key can
disturb the order of the others, and four jobs fill it while one runs; with three jobs,
`jobs_live` fills its queue of two while a job is listed.  A price beside zero and two
timeouts make a deposit differ from the current price in both directions; payer and
destination of a settlement are the same wallet or two; two ticks let a run end
before, at and after a timeout of one.

**Fairness** (`Fairness`): some node keeps calling `work` on each market, the
node of each run eventually gives it up (`quit`, which is always possible), and the
project of a stopped job keeps calling `recover`.  The code forces none of them; the
first two are what the node software does, and without them no job would ever
start, the third is in the interest of the project.  Nothing is assumed of payers,
authorities or the clock, nor that anybody lists, delists, ends or finishes a job.
Since `quit` is the only fair way for a run to end, `QueuedJobsLeave` does not
depend on solvency or on open accounts.  `StoppedJobsRecovered` does: its premise is
that the vault covers what it owes, and `recover` stays enabled only while the vault
holds the deposit, whatever else is paid out of it.

### Proofs

`NosanaJobsProofs`.  `IInvHolds` proves `SpecFresh => []IInv` for all values of the
constants that satisfy the assumptions.  The properties are not inductive by
themselves: that a job is
handed to one node only needs that a key is never twice in a queue, that a
waiting job is in the queue of its own market, and that a running or closed job
is in no queue (`SingleAssignment`, whose three parts support each other);
`TypeOK` needs that an existing job names a market and a payer (`JobsComplete`)
and that no run started in the future (`RunsInThePast`: otherwise the balance of
a node could become negative).  `IInv` is their conjunction.  Each instruction
has a lemma, and each lemma has one step per conjunct it disturbs; the lemmas
about `WithQueue`, `AddToQueue`, `RemoveFromQueue` and `PopFromQueue` say which
keys a queue keeps and that it stays well formed.  `FlagMatchesSettings`
(`RestrictedIffSettings`) is inductive together with `TypeOK`; `JobTypeBytes` and
`StoredTypes` say what the byte arithmetic of `open`, `update` and the settings
does to the flag and to the type, for all 256 bytes.

`NosanaJobsStepProofs`.  `NobodyIsOvertaken` proves `FirstComeFirstServed`.
`OrderMapped` reduces the order to an increasing map of positions, which a pop and a removal
in the middle have (`RemoveIndices`); it needs that no key is twice in a queue.
That a waiting job starts only from the front needs `SingleAssignment`: a waiting job
has no run, so the only run that names it afterwards is the one the step starts.
`SettlementsFollowTheClock` proves `SettledByTheClock`: the state `end` does not look at
can only be queued because the job has a run; `SettlementDivides` follows the two
transfers, also when node and payer are the same wallet, and
`ReimbursementByTheClock` bounds what the node earns by the time it ran.

`NosanaJobsContractProofs`.  `ProgramImplementsContract` and
`PartiesImplementContract` prove the refinement for all constants: initial states
map to initial states, and each instruction has a lemma that says which step of
the contract it is (`ListRefines`: `Submit`, `FinishRefines`: `Settle`, and so on).
The simulation relies on `ContractInv`, which is `IInv` with the fact that a job
somebody paid for has a timeout with a deposit (`PaidJobsHaveDeposit`, else the tokens
`extend` adds would not be the difference of two deposits).  `open` and `update` are
stutters, also at the address of an old market: the mapping reads nothing
of a market but its queue.

`NoDanglingJobs` proves `MentionedJobsExist`: every instruction that closes a job
account or ends its run takes it out of the queue before, and only a job that runs can be
ended, once.  `PartiesAreFresh` follows.  `JobsStayReachable` proves `StaysReachable`
from the steps of the contract: only `Submit` and `CloseVault` lead to `lost`.

`MarketsStaySolvent` proves `StaysSolvent`, over the steps of the contract rather than
those of the program: each changes one deposit or empties one vault, and the refinement
(`NextRefines`) says that they are all.  `VaultCovers` says that a vault holds what
the contract holds in it; `OneDealChanges` gives the effect of one deposit on the
sum, and `CoveredVaults` identifies it with `Covered`.  One lemma, `PaymentMoves`,
covers every transfer, a wallet that pays itself included.
`DepositsArePayable` says what cover is for: while the vault of its market covers what
it owes, neither the conversion of the timeout nor the balance rejects a delist,
recover, end or finish of a paid job.

Model-checked only: liveness (`QueuedJobsLeave`, `StoppedJobsRecovered`), which
is out of the prover's reach.  What `recover` needs of the tokens in
`StoppedJobsRecovered` is `MarketsStaySolvent` and `DepositsArePayable`.

## 4. nosana-staking: `NosanaStaking`

| TLA+ | Code |
|---|---|
| `stake[o]` | the `StakeAccount` of owner `o` (its address is derived from the owner, so there is one); `timeUnstake = 0` means active |
| `vault[o]` | the balance of the token account derived from the owner |
| `wallet[w]` | the balance of every other token account |
| `slashing` | the `SettingsAccount` |
| `UpdateXnos`, `Score` | `StakeAccount::update_xnos` with its integer divisions |
| `Released`, `ReleaseDefined` | `StakeAccount::withdraw` with its truncation; the second says that no subtraction or division panics |
| one action per instruction | `Deposit` is a plain token transfer into a vault |

`Unstake` takes as a parameter whether the owner has a reward account: here it is
arbitrary, in `NosanaRewards` it is that program's state.  `Receivers` and
`Depositors` limit who is paid and who deposits.  `MaxU64`, the precision and the durations
are constants; their assumptions are what the proofs need, and hold for the
values of the code.

Properties: `Backed` (an active stake is covered by its vault), `ScoreIsCurrent`
(the cached score), `ReleasedOnSchedule` (a withdrawal never leaves the vault with
less than what is not yet released), `TokensLocked` (tokens leave a vault only after
unstake or to the treasury) and the liveness property `TokensReleased`.

| Run | Instance | Shows |
|---|---|---|
| `staking` | 1 owner with 4 tokens, 2 treasuries of which one has a token to deposit, 2 slashing authorities, durations 2 and 3 of at most 3, clock 1 to 7 | the safety and action properties under every order of the instructions, and that all tokens are released |
| `staking_release` | the same | **violation**: released tokens that cannot be withdrawn |

Owners share nothing but the treasury and the settings, so one owner shows what
there is; two owners meet in `rewards`.  Four tokens and a duration of three give
truncated quotients, two partial withdrawals and a slash between them; the clock
lasts for two releases with a restake between.

**Fairness** (`StakingFairness`): time passes, and an owner who has unstaked keeps
withdrawing.  The clock is not up to the program, and withdrawing is in the
owner's interest.  `EndsInTime` keeps every release within the bound of the clock:
without it a release that starts at the bound would never end, which says nothing
of the code.  Nothing is assumed of slashing or deposits: `Withdraw` is enabled
after the duration whatever they did, because the whole balance is then paid.

**Disagreement** (`staking_release`): the subtraction of what has been withdrawn
is in u64 and panics when the vault holds more than the stake account says or when
a slash has lowered the schedule below what was taken out.  Nothing is lost, the
tokens can be withdrawn at the end of the duration (`TokensReleased`).

**Proofs** (`NosanaStakingProofs`): `StakingIInv` is inductive.  `Backed` needs
that a restake takes the balance as the amount and that a slash takes the same from
both; `ScoreIsCurrent` is kept by every instruction for itself, and
needs that the time of unstake is not 0, which is why the clock is positive;
`UnstakedInThePast` makes the elapsed time a natural number, without which the
type of a balance after a withdrawal could not be shown.

`TokensAreLocked` and `WithdrawalsFollowTheSchedule` are the two action properties.
Both start from `VaultDecreases`: only a withdrawal or a slash of the owner's own
stake lowers a balance.  `TruncatedSchedule` is the arithmetic of the second:
`withdraw` multiplies by a precision, divides by the duration, multiplies by the
amount and divides by the precision; both quotients are rounded down, so that the
result is at most the exact one for any positive precision.  Only the liveness property
is left to TLC.

## 5. nosana-rewards: `NosanaRewards`

| TLA+ | Code |
|---|---|
| `reflection` | the `ReflectionAccount`: rate and the two totals |
| `reward[o]` | the `RewardAccount` of owner `o`, one per owner |
| `pot` | the balance of the vault of the rewards program |
| `AddAccount`, `RemoveAccount`, `Amount` | the methods of the two accounts, with their integer division |
| `Fits`, `AmountDefined` | no u128 operation panics |
| `Enter`, `Claim`, `Sync`, `CloseReward`, `AddFee`, `InitReflection` | the instructions |
| `StakeStep` | a step of `nosana-staking`, with `hasReward` read from `reward` |

`Claim` does nothing when there is nothing to pay, which is a stutter.  `add_fee`
divides by the new total of xnos: a fee of zero for an empty pool panics.  Plain
transfers into the vault are left out, the program never reads the balance.

Fees are the delicate part.  `add_fee` accepts any amount at any time and sets the
rate to the quotient of the new totals.  The model and the run do the same
(`Fees = {0, 1}`), and in some of the states that follow `get_amount` panics or the
vault is short:

* A fee for a pool without points makes the rate zero.  Points at a rate of zero are
  zero, so it stays zero, and every `claim` and `sync` divides by it, for good.
* A fee can be so large, or come after so many others, that there are fewer points
  per xnos than xnos.  Rounding then loses more than one xnos: at a rate of 101, enter
  with 1 and add a fee of 20.  The rate becomes 4, and the 101 points are worth 25, a
  claim of 24 with 20 tokens in the vault.
* A fee of zero recomputes the rate from totals that have changed since, points
  included that earlier divisions left over, and can *raise* it.  In the run: the
  rate is 24 after two fees and two entries, a claim leaves 150 points for 6 xnos,
  and a fee of zero makes the rate 25.  An account that entered at 24 is then
  worth less than its score, and its `claim` and `sync` panic until a later fee.

No comment, document or test says what fees are allowed, so there is no claim to
refute.  The properties say what still holds:

* `SoundPool` is a state predicate: no account has fewer points than its score is worth
  (`PointsCoverScores`), and the points that are worth nothing at the present rate are
  few (`SurplusIsSmall`).  It holds at the start.
* `FineFee` is said of a step: if it is a fee, it is not zero and leaves a rate of at least
  the new total of xnos.
* `StaysSound`: nothing but a fee that is not fine ends `SoundPool`: no order of
  entering, claiming, syncing, closing, restaking and slashing does, and no other fee.
* `PayoutsCovered`, `PoolHasRoom` and `RewardsNeverLost` speak of sound pools, the last
  of steps that are not such a fee.

TLC refutes `PayoutsCovered` and `RewardsNeverLost` without their premises, so these are needed;
`RewardNeedsStake` and `TotalsAgree` have none.  How real are the fees that are not fine?
The rate starts at 3.4e24 and a total of xnos is at most about 4e14.  A fee
divides the rate by the factor by which it enlarges the total, so the rate stays above
the total for any fees whose factors multiply to less than about 1e10; nothing in
the program bounds that product.  A fee of zero, or a fee before the first staker
enters, can be added by anybody at any time.

`PoolHasRoom` is about u128: `INITIAL_RATE` is the largest rate at which the token supply has
points in a u128, and every addition that would overflow panics (`Fits`).  The
invariant says that as long as the xnos in the pool, the newcomer's included, are no
more than the supply, no panic keeps an active staker from entering, an account
from being synchronised with what it has earned, or an account from being closed.
The condition is a real one: a score can be up to four times the tokens of the stake, so
more than a fourth of the supply staked for the longest time exceeds it, and
`enter` then fails.

| Run | Instance | Shows |
|---|---|---|
| `rewards` | 2 stakers with 2 tokens and 1, a payer with 2 tokens, fees of 0 and 1 in any number and order, supply 10, largest u128 400 (initial rate 40), clock 1 to 2 | totals, soundness and what ends it, cover, room up to the supply; nobody loses earned rewards in a sound pool |

A rate of 40 against totals of up to 11 (more than the supply, so that both sides of the
condition of `PoolHasRoom` occur) is fine enough for two fees of 1 over scores of 3 and
6, each with a truncated quotient, and coarse enough for fees that end the
soundness: without points, of zero, and after others.  The run visits sound pools with
rewards to claim on both accounts as well as all that follows an unsound one, and the
actions are those of the program without a guard of the model's own.

**Proofs** (`NosanaRewardsProofs`, which uses the staking proofs):
`RewardsNeedStakes` and `RewardsTypeCorrect`, both for `Spec`, with no condition on
fees.  The inductive invariant is `StakingIInv`, the shape of the three rewards
variables and `RewardNeedsStake`; the last is kept because `Enter` requires an
active stake, `Unstake` requires that there is no reward account, and `Close` of a stake
requires that it has been unstaked before.

`TotalsStayInAgreement` (`TotalsAgree`) needs no condition on fees either.  It is
inductive with `ClosedIsEmpty`: without reward accounts, and before `init`,
nothing is left over.

`PoolStaysSound` (`StaysSound`) is the main theorem.  `PayoutsStayCovered`,
`PoolKeepsRoom` and `NobodyLosesRewards` are `PayoutsCovered`, `PoolHasRoom` and
`RewardsNeverLost`.  All four are theorems of `Spec`, for any finite set of stakers, any
scores and any fees; together they say that a pool whose fees have been fine so
far pays everybody.  The invariant of a sound pool (`FairIInv`) is `TotalsAgree` with
two facts about the rate r, which is at most T div X after a fee:

* `PointsCoverScores`: no account has fewer points than r times its score.  An
  account enters with exactly as many, and a fine fee only lowers the rate.
* `SurplusIsSmall`: let the surplus be T - r X, the points that are worth nothing at
  the present rate.  It is below r, less than what one xnos is worth, and with r times
  the supply still fits into u128.  A fine fee makes T - r X the remainder of
  the division by X, which is below X and so below r; this is where the condition is
  used.  Entering adds the same to both sides; a claim, a sync or a close
  only takes rounding losses out of the surplus.

That an account can be claimed or synchronised (`FairAccount`) follows from the first
fact, and `PayoutsCovered` from both: the accounts' worths times r add up to T at
most, which is less than r (X + 1), so the worths add up to X at most, which is the
scores and the vault (`FairPoolPays`).  `PoolHasRoom` follows from the second,
`RewardsNeverLost` from `LowerRatePaysMore`.

## 6. nosana-pools: `NosanaPools`

| TLA+ | Code |
|---|---|
| `pool[p]` | the `PoolAccount` at address `p`; its vault has the same name |
| `tokens[a]` | balances of wallets, of the vaults of pools, of the vault of the rewards program |
| `Claimable`, `RecordClaim`, `ClaimDefined` | `PoolAccount::claim` and its u64 arithmetic |
| one action per instruction | `Fund` is a plain token transfer |

A beneficiary is any token account, the vault of another pool included.  Anchor
refuses the vault as its own beneficiary (two mutable accounts of the same
address), so a pool that names itself never pays.  `claim_fee` calls
`rewards.add_fee`; the model moves the tokens, and a failure of the call aborts
the transaction, which is a stutter here.  The call comes after the early return: with less
than one emission to claim the instruction succeeds for every beneficiary, with more only
for the vault of the rewards program, the one `add_fee` accepts.  Anyone may claim, for anyone.

| Run | Instance | Shows |
|---|---|---|
| `pools` | 2 pools, 2 users with 4 tokens, emission 2, start at 1, clock 0 to 3, largest u64 5 | claims within the emission, payments of pools that cannot be closed, nothing due is forgotten |
| `pools_fee` | the same | **violation**: `claim_fee` counts tokens as claimed that it does not pay |

Amounts of 1 and 3 leave a vault with less than one emission, exactly enough and
more than is due.  The emission of these runs stays below the largest u64; the
guard `ClaimDefined` is there because the proofs hold for every bound.
`PaidByEmission` and `DueStaysDue` are action properties: they compare the vault
with `claimed` over one step, whatever the steps before.

**Proofs** (`NosanaPoolsProofs`): `PoolsIInv` (`PoolsTypeOK` and
`ClaimedWithinEmission`) is inductive as it stands: `claimed` is at most the emission
because a claim adds the minimum of what is due and available, and time only adds
to the emission.  `NonCloseablePoolsPayByEmission` (`PaidByEmission`) and
`UnderfundedPoolsStayDue` (`DueStaysDue`) follow from it, one step per action: every
property of the passing run is proved.

## 7. nosana-nodes: `NosanaNodes`

`node[a]` is the `NodeAccount` of operator `a`; `Register`, `Update` and `Audit`
are the instructions, `Accepts` the checks of `NodeAccount::update`, with the cast
of a country code to `u8` (`AsU8`).

| Run | Instance | Shows |
|---|---|---|
| `nodes_country` | 3 operators, an auditor, country codes 20, 231, 528 that exist, 0, 487 (low byte 231) and 999 (unknown) that do not, resources 0 and 1 | **violation**: a node in Ethiopia (231) cannot register, because 999 is 231 as a `u8` |
| `nodes_gpu` | the same | **violation**: a node registers without a GPU, although `errors.rs` and `docs/nodes.md` say that the value must be greater than zero; the test data has such a node |

There is no passing run: what the three instructions promise beyond their guards is
what these two say.  `NodesAreValid` (`NosanaNodesProofs`) proves for any set of codes without
the reserved one that what is registered has a known country and architecture and something of
the other four resources: the cast rejects too much and never accepts too much,
because both sides are cast after the conversion.

## 8. Not modelled

`scripts` and `tests` (clients of the programs), rent, account serialisation,
the contents of IPFS hashes, and `market.job_timeout`, which no instruction reads.
