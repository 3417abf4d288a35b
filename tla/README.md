# A formal model of rain-staking

rain-staking is a Go service that lets customers stake an asset through an
external provider. It keeps balances, stakes, rewards and an audit trail in
PostgreSQL; gRPC handlers, also behind an HTTP gateway, serve the requests, and
a background poller reconciles the stakes with the provider. No operation runs
in a database transaction: each is a sequence of statements and provider calls,
protected by a version column per row (optimistic locking). What holds when such
sequences interleave, fail half-way or are cut off is what these modules are
about.

Contents: 1 the system, 2 modules and code, 3 properties and runs, 4 bounds,
5 fairness, 6 proofs, 7 where code and documents disagree, 8 not modelled,
9 what is left.

## 1. The system

| component | state | operations | interacts with |
|---|---|---|---|
| `internal/domain` | none (methods on copies) | `NewStake`, `Delegate`, `Activate`, `Unstake`, `Withdraw`, `Fail`; `Hold`, `ConfirmStake`, `ReleaseHold`, `CompleteUnstake`, `AddReward` | called by services and poller |
| `internal/service` StakingService | none between requests | `CreateStake`, `Unstake`, two reads | repositories, provider, publisher |
| BalanceService | none | `CreateOrUpdateBalance`, two reads | repositories, publisher |
| RewardService | none | two reads | reward repository |
| `internal/worker` RewardPoller | one goroutine per process | a poll: DELEGATING, UNSTAKING, then ACTIVE stakes | repositories, provider, publisher |
| `internal/adapter/postgres`, `migrations`, `queries` | four tables | one statement per call | PostgreSQL |
| conversions (`postgres/convert.go`, `bitgo/client.go`) | none | decimals to `NUMERIC(36,18)` and to wei, and back | repositories, BitGo |
| `internal/adapter/mock` | a map in memory | `Stake`, `Unstake`, `GetStakeStatus`, `GetRewards` | lost on restart |
| `internal/adapter/bitgo` | none | the same four, over HTTP | one BitGo wallet for all customers |
| `internal/adapter/grpc`, `internal/auth`, `gen` | the calls in progress | interceptors, validation, owner checks, nine handlers, error mapping; the gateway | services |
| `cmd/stakingd` | the process: serving, draining, stopped | wiring, SIGTERM, `GracefulStop`, start | all of the above |

All shared state is in the four tables and at the provider. A goroutine reads
a row, changes a copy in memory and writes it back with
`WHERE version = $old`; between the read and the write, other requests, the
poller, and the pollers of other replicas may run. The provider is called in
the middle of `CreateStake` and `Unstake`, and before every write of the
poller.

What is hard in it:

* two tables change in one operation and nothing ties the two writes together;
* a copy may be old when it is written, in particular after a provider call;
* the idempotency key is looked up early and enforced late;
* a conflict is not retried anywhere: it fails the request, or is logged;
* a request's context may be cancelled, and the process may stop, between any
  two calls; on SIGTERM the gateway's calls are cut off, those over gRPC are
  waited for, and the poller is not;
* an owner check and the read it protects are two reads;
* an amount is rounded twice on its way to the row and twice on its way to the
  provider, by different code;
* two replicas poll the same rows, and a poll lists a hundred.

What makes each component correct:

* domain: no bucket goes negative; operations move funds and create none;
* stakes table: a row moves along the lifecycle, one edge and one version at a
  time, and is never set back;
* balances table: it changes as if each operation were atomic, at most once per
  stake, and only the operations the stake's state calls for;
* rewards: one row per stake and day, credited at most once, cumulative totals
  that add up;
* audit: no event without what it tells of, and an event for every change (which
  the code does not quite do: section 7);
* provider: one request per idempotency key; rows never ahead of the chain;
* poller: stakes leave the states it is responsible for, and get their rewards;
* server: a customer is told of their own stakes only (the code makes an exception
  of idempotency keys: section 7); the code of an answer says truly what was
  done; a process told to stop stops;
* conversions: rounding a hold takes nothing from a customer, and what the buckets
  hold is what was staked.

`PROJECT.json` lists every component with its status and every hazard with its
line and the properties aimed at it.

## 2. Modules and code

| module | models |
|---|---|
| `StakingDomain` | `internal/domain/stake.go`, `balance.go`: the methods as operators on records. `MayHold` etc. are the guards whose failure is the Go error. |
| `StakingStore` | the repositories, schema and queries; the local variables of the goroutines. |
| `StakingProvider` | the port and what is behind it: `"mock"`, `"bitgo"`, or `"port"`, any implementation that keeps the interface's promises. |
| `StakingService` | `CreateStake`, `Unstake`, `CreateOrUpdateBalance`, one action per call they make. |
| `RewardPoller` | the three loops of a poll. |
| `StakingSystem` | services and pollers together, with cancellation, crash, the network and the calendar; `Init`, `Next`, `Spec`, `FairSpec`. |
| `StakeLifecycle` | abstract: what the stakes table promises. |
| `AtomicLedger` | abstract: what the balances table promises. |
| `Totals` | sums of amounts, as the properties take them. |
| `StakingProperties` | the properties of `StakingSystem`, and the two refinement mappings. |
| `StakingApi` | the gRPC server over `StakingSystem`: tokens, interceptors, validation, owner checks, the nine handlers, error codes, the gateway, SIGTERM, exit and start. |
| `ApiProperties` | the properties of `StakingApi`, and its refinement of `StakingSystem`. |
| `StakingDecimals` | amounts with fractions: the rounding of the columns, of wei and of decimal division, along the paths an amount takes. |
| `MCStaking`, `MCApi` | the instances for TLC. |
| `*_proofs` | theorems (section 6). |

**State.** `stakes`, `balances`, `rewards`, `audit` are the tables. `terms`
holds the columns of a stake no UPDATE touches (account, amount, key); an entity
exists there from `NewStake` on, its row in `stakes` only from the INSERT.
Entities are numbered in the order they are made, which is taken for
`created_at`. An account is a (customer, asset) pair. `rewardSums` is the SUM
the reward query computes, kept as rows come in. `moved` and `credited` are
history variables: which balance operations of a stake, and which rewards,
reached the balances table. No guard reads them. `provider` is the status
at the far end, `unstakeCalls` counts accepted calls up to 2, `day` is today.

`work[a]` is the memory of goroutine `a`: a program counter and the local
variables of the function it is in (the copies `stake` and `bal`, the rows of a
list not yet visited, the reward entries not yet visited). A finished stake of a
list is removed from it, so the loop variable needs no counter.

**Actions.** Each call to a repository, the provider or the publisher is one
step; computation on local copies is joined to the call before it. So
`FetchBalance` is `GetByCustomerAndAsset`, `Hold` and `Version++`, and
`SaveHold` is the UPDATE. A failing branch is a disjunct: it does what the code
does on `err != nil` (return, `continue`, or log and go on). `StakeVersionMatches`
and `BalanceVersionMatches` are the WHERE clauses. The audit insert is a step
too, and its error is ignored as in the code.

**Faults** are switched on per instance: `"db"` any statement fails on its own
and is then not carried out (one carried out whose answer is lost is the
statement followed by `"cancel"` wherever the code gives up on an error);
`"provider"` a provider call fails, *with or without having been carried out*;
`"slash"` a stake fails at the provider after it was confirmed;
`"cancel"` a goroutine's context is cancelled, after which each of its calls
fails, and on every path of the code that ends it without further change;
`"crash"` all processes stop and start again, and the mock forgets its stakes.

**BitGo.** `GetStakeStatus` and `GetRewards` ignore the reference and answer for
the wallet: ACTIVE if any delegation is, and the rewards of all delegations that
show one, whatever their status. The model does the same; which of the delegations
that were ever active show a reward, and in which order, is the wallet's choice.

**Network.** What happens behind `"port"` and `"bitgo"` is not in the
repository: `Settle` makes a pending stake active or failed, and an unstaking one
withdrawn; `GiveUp`, with `"slash"`, fails one that is active or unstaking, since
the port has that status for any stake. They are marked external.

**The server.** `Admitted` is the chain of interceptors and the validation of a
message: it depends on what a request carries alone, so the requests that pass
are a constant set, `Accepted`, of records with the fields the handlers look at.
`calls[h]` is the request a handler goroutine serves. A request that names a
customer's account enters its service at once; one that names a stake reads the
row for its owner first (`LookUp`, `MayAddress`), and `Unstake` reads it a second
time in the service (`UnstakeOwned`). `Serve` is a step of the service together
with, if the request ends there, the code that `domainErrorToGRPC` makes of the
error of that step. `exposed`, `outcome` and `replayed` are histories: which method
told whom of a stake not theirs, how the `CreateStake` that made a stake was
answered, and which stakes answered one whose key was sent again. A request that is
refused or that only reads without telling of a stake changes nothing and is no
step. `Signal`, `PollerStops`, `GatewayCloses` and `Exit` are `main` after
SIGTERM, in its order.

Any customer may send any key, as the code lets them: it looks a key up without
regard to who sent it and answers OK with the stake that has it, in whatever state
that is.

**Decimals.** `StakingDecimals` counts in a unit finer than the column's last
place: `Place` units make one place (1 wei), `Grain` units one place of decimal
division (16 places). Wei are rounded as `StringFixed` does it, by digits, columns
half away from zero. It follows the amount of one account through `CreateStake`
(kept, refused, or rounded away to nothing), the poller, which goes by the row,
and `FetchReward`. Operations run one at a time there; their interleaving is the
subject of `StakingSystem`, in which amounts are whole.

## 3. Properties and runs

| run | question | checks |
|---|---|---|
| `MCCore` | two requests and the pollers of two replicas, no faults | `FundsAccounted`, `MovesFollowState`, `AuditFollowsFunds`, `AuditFollowsRows`, `LifecycleRefined`, `LedgerRefined` |
| `MCFaults` | one key for both requests; statement errors, refusals, lost answers, stakes that fail late, cancellation, crashes | `OneProviderStakePerKey`, `MovesFollowState`, `RowsFollowProvider`, `LedgerRefined`, `AuditIsTrue` |
| `MCMock` | mock provider, restarts, statement errors, balances overwritten beside everything else | `TypeOK`, `FundsAccounted`, `LedgerRefined` |
| `MCBitGo` | wallet-wide answers over two days, lost answers, from the first deposit on | `MovesFollowState`, `FundsAccounted`, `CumulativeIsTotal`, `LedgerRefined` |
| `MCApi` | every request there is, through the gateway, a server that is told to stop or dies | `ApiTypeOK`, `RefusalsLeaveNoTrace`, `OkIsDone`, `SystemImplemented` |
| `MCLiveness` | fair goroutines and provider, polls that list one stake, stakes that fail late | `StakesSettle`, `FirstStakesRecorded` |
| `MCServer` | two customers ask every method for everything, with one key that both may send, and the process is told to stop | `OnlyKeysExpose`, `StakesSettle`, `ShutdownCompletes` |
| `MCDecimals` | amounts below, at and above half a place, in any order of events | `DecimalsTypeOK`, `BucketsCoverRows`, `FundsAreBacked`, `RoundingNeverTakes`, `RoundingGivesOnlyHalves`, `RewardsTrackPayments` |
| `ViolRetry`, `ViolHalfDone`, `ViolFirstDeposit`, `ViolPending` | see section 7 | one each, violated |

The largest, `MCCore`, has 1.2 million states, `MCApi` and `MCBitGo` about 0.6
million each; they and `MCLiveness`, whose properties are temporal, take a minute or
two.

Tables:

* `TypeOK`: all variables have their types; in particular no bucket goes
  negative, in a row or in a copy.
* `LifecycleRefined`: the stakes table implements `StakeLifecycle`. A stale copy
  never undoes a later transition.
* `LedgerRefined`: the balances table implements `AtomicLedger`: no lost update,
  no operation of a stake twice, no reward credited twice or with another amount.
  It needs that no account is given a second first balance (`ViolFirstDeposit`);
  the runs have accounts seeded, or one handler only.
* `FundsAccounted`: each bucket is the sum of the operations saved, whether the
  first balance was there at the start or is made by a request (`Beginnings`).
  The `available` conjunct is dropped in instances whose requests may overwrite a
  balance (`MaxVersion` above 1); there `LedgerRefined` is what covers `available`.
* `MovesFollowState`: which operations may lie behind a stake in each state: not
  over means held and not released; confirmed only if it was active; released
  only if it failed. With `"db"` a PENDING stake may have been released too: on
  the provider-error path of `CreateStake` the update to FAILED may fail and the
  release still be saved. With two pollers a complete may come before the
  confirm, which the property allows.
* `AuditIsTrue`: with any faults, no event tells of what did not happen: an update
  that failed or lost its version check is not reported by a step further on.
* `AuditFollowsFunds`: without crashes, cancellation and statement errors (any of
  which can come between a write and its event) a stake is reported activated or
  withdrawn exactly when its funds moved, at the latest when the goroutine that
  moved them has published.
* `AuditFollowsRows`: without provider errors besides, the same of the rows that were
  submitted, whose unstake was requested, or that a poll found failed. It says
  nothing of rows that became ACTIVE or WITHDRAWN: their events wait for the balance,
  and are lost with it (`ViolHalfDone`).

Provider and rewards:

* `RowsFollowProvider`: ACTIVE means active on chain (or beyond), UNSTAKING that the
  provider was told to unstake or the stake failed there, WITHDRAWN means liquid, with
  any lost answers, for a provider that answers per stake. It is false for BitGo
  (section 7). It says nothing of PENDING and FAILED rows: of those the provider may
  know more than the row does (`ViolPending`, and a lost answer in section 7).
* `OneProviderStakePerKey`: at most one stake of a key reaches the provider.
* `CumulativeIsTotal`: with one poller and readable totals, a reward's
  cumulative amount is the total to its day. Two pollers, or a failed read of
  the total (taken for zero by the code), break it.

Server:

* `OnlyKeysExpose`: no answer tells a customer of a stake that is another's, but
  that of `CreateStake` to a key that has one (section 7).
* `RefusalsLeaveNoTrace`: a `CreateStake` answered NotFound, FailedPrecondition or
  Aborted left no row, no hold and no stake at the provider. (Internal promises
  nothing: a refusal by the provider leaves a FAILED row.)
* `OkIsDone`: what an answer OK of `CreateStake` is worth from then on. If the attempt
  made the stake: its funds were held, its row is past PENDING, the provider knows
  it. If it sent a key again: there is a row and a hold was made for it, no more; the
  stake may be PENDING and unknown to the provider, or FAILED and released.
* `SystemImplemented`: the server implements `StakingSystem`, so what is checked
  or proved of that holds of the server. (The stutter is named first in the
  formula because TLC tries the disjuncts in order.)

Decimals:

* `BucketsCoverRows`: pending and staked are the sums of the rows, so the poller,
  which goes by the rows, is never refused for want of funds.
* `FundsAreBacked`: pending and staked are, to the wei, what the provider was sent.
  Hold, row and wei round the amount in memory each for itself, the last by another
  method.
* `RoundingNeverTakes`, `RoundingGivesOnlyHalves`: by the rounding of holds the customer
  never loses any of the deposit and of what was credited, and gains at most one place
  for each stake whose amount was exactly half-way between two. What is lost before a
  reward is credited is the subject of the next.
* `RewardsTrackPayments`: rewards credited stray from those paid by at most half a
  place of the division each.

Liveness (section 5):

* `StakesSettle`: while the server runs, PENDING, DELEGATING and UNSTAKING stakes
  leave their state, except an unstake that failed at the provider, and the stakes
  behind as many of those as a poll lists (`Stuck`).
* `FirstStakesRecorded`: the oldest stakes, as many as a poll lists, get a row in the
  rewards table. The others do not, and the row may never be credited: section 7.
* `ShutdownCompletes`: `GracefulStop` ends.

Every property of a passing run has a mutant in `PROJECT.json`: a change of
one mapped definition, written next to it, under which the run fails.

## 4. Bounds

`MaxStakes` (1 or 2) entities, `MaxDay` (1 or 2) days, `MaxVersion` limits
only the requests that set a balance, `PollLimit` is the LIMIT of the list query
(100 in the code, 1 in `MCLiveness` so that it matters),
`MaxStops` how often the process is told to stop. `DefaultPage` and `MaxPage` are
20 and 100 in the code and 1 or 2 in the instances, so that a page can be full.
Keys and handlers are symmetric sets, so are pollers; the liveness runs use no
symmetry. Versions need no bound: every version is bounded by the number of
writes, which the number of stakes and days bounds.

Two stakes of one account are what it takes for one operation to disturb
another's copy of the balance, for a complete to draw on another stake's
`staked`, and for a list to be stale. Two handlers are what it takes for a retry
to overlap, and two pollers for a stake to be reconciled twice. `MCServer` has two
customers with an account each, one stake and one key, which is what it takes to ask
for another's stake and to send another's key; the other runs of the server have one
customer, since nothing they check depends on whose a stake is. Its two calls can race
for the stake and have to be waited for when the process is told to stop;
`MCLiveness` has two stakes, so that one can be behind the other, and no stop.
`RewardRate = 0` makes `NewReward` refuse the entry and keeps the other runs small.
`MCDecimals` has `Place = 20`, so that a digit of a wei is two units and amounts lie
below, at and above a half by less than a digit, and three stakes, so that the
rounding of one meets that of another. The theorems have none of these bounds.

## 5. Fairness

`FairSpec` adds weak fairness of each handler's next step once a request has
begun, of each poller, and of the network for each stake. The first two are the
Go scheduler and the poller's ticker, which fires for the life of the process;
the third says the network does not sit on a request forever. `FairApiSpec` says
the same of the server (`Proceed`, `Poll`, `ProviderSettles`) and adds that a
closed gateway connection ends its calls and that a process whose calls have ended
exits. Nothing starts a process again (`docker-compose.yml` has no restart policy),
so what the poller has to do is promised only while the process runs: `Stopped` is an
alternative in `StakesSettle` and `FirstStakesRecorded`. `MCLiveness` has no stop and
the alternative never holds there; `MCServer` has one, and a start that may follow.
Nothing makes requests arrive, and nothing makes signals or faults stop or happen. The
network settles what is pending or unstaking (`Settle`); that it fails a stake later
(`GiveUp`) may or may not happen. Both runs have no cancellation by clients, since a
cancelled request leaves a stake PENDING for good (`ViolPending`), and their clients
use gRPC, whose calls a shutdown waits for.

`StakesSettle` is about a provider that keeps the port's promises. With BitGo no
unstake is ever seen to end (section 7), and the mock forgets the stakes of a
process that ended, whose rows then stay as they are.

## 6. Proofs

Checked by TLAPS for any number of accounts, keys, stakes, handlers, pollers,
customers and days, and, where nothing else is said, any provider and any set of
faults, from the named assumptions on the constants.

| module | theorem | states |
|---|---|---|
| `StakingDomain_proofs` | `OperationsConserveFunds` | each balance operation keeps the sum of the buckets |
| `StakingTypes_proofs` | `TypeCorrect` | `Spec => []TypeOK` |
| `StakesTable_proofs` | `LifecycleImplemented` | `Spec => LifecycleRefined` |
| `Moves_proofs` | `MovesFollowRows` | `Spec => []MovesFollowState` |
| | `TrailIsTrue` | `Spec => []AuditIsTrue` |
| | `FundsAreTold` | `Spec => []AuditFollowsFunds`, if `Faults \cap {"db", "cancel", "crash"} = {}` |
| | `RowsAreTold` | `Spec => []AuditFollowsRows`, if also `~CallMayFail` |
| `Ledger_proofs` | `LedgerImplemented` | `Spec => LedgerRefined`, if `Seeded = Accounts` |
| | `FundsAreAccounted` | `Spec => []FundsAccounted`, if `Seeded = Accounts` |
| | `CumulativeAmounts` | `Spec => []CumulativeIsTotal`, if there is one poller and `"db" \notin Faults` |
| `Provider_proofs` | `StakedOnce` | `Spec => []OneProviderStakePerKey` |
| | `RowsFollow` | `Spec => []RowsFollowProvider`, if `Provider = "port"` |
| `StakingApi_proofs` | `ApiTypeCorrect`, `ServerImplements` | `ApiSpec => []ApiTypeOK`, `ApiSpec => SystemImplemented`, if `{"cancel", "crash"} \subseteq Faults` |
| | `OnlyKeysTell` | `ApiSpec => []OnlyKeysExpose`, under the same hypothesis |
| | `RefusedLeavesNothing` | `ApiSpec => []RefusalsLeaveNoTrace`, under the same hypothesis |
| | `AnsweredIsDone` | `ApiSpec => []OkIsDone`, under the same and `Provider # "mock"` |
| `StakingDecimals_proofs` | `DecimalsTypeCorrect`, `RowsCovered`, `NothingLost`, `LittleGained`, `FundsBacked` | the invariants of the same subjects, for any scale and amounts |
| | `RewardsTracked` | `DecimalsSpec => []RewardsTrackPayments`, if `Grain` is a multiple of `Place` |

The added hypotheses are what the code needs, not conveniences. Without a row
there is no version to compare, and two first deposits break the ledger
(`ViolFirstDeposit`); BitGo's answers are not about the stake; the mock provider
forgets its stakes when the process ends; a server whose clients hang up can only implement a system whose requests are cut off; a wei is
100 places of the division in the code. An event is lost when the process, the
request or the statement ends between the write it tells of and its INSERT, and
the provider-error path of `CreateStake` has none (section 7). A total whose read
fails counts as zero, and of two pollers each adds its reward to the total it read
before the other inserted; a process has one, and the repository's README
(`README.md:279`) leaves the election of one among replicas for later.

The arguments:

* **Types.** `TypeOK` is not inductive: an action reads
  `balances[work[a].account]` and `terms[work[a].id]`, which is of the right type
  only because the stake a goroutine is at was created. `Rooted` says so of rows,
  copies and lists; `TypeInv == TypeOK /\ Rooted` is inductive. The guards
  `MayHold`, `MayConfirmStake`, ... are what keeps buckets natural.
* **Stakes table.** A step that writes a row must be a move from the row's
  *current* state, while the code computed it from an older copy. `Copies` says
  that each copy about to be written either is a lifecycle move of the current
  row, or has a version the row has passed (`Leads`, `Current`). `ClaimsStay`:
  such a claim survives every change of the table, because each write raises
  the version. The version check then admits only the first kind
  (`UpdateTable`). `TableInv == TypeInv /\ Copies` is inductive.
* **Moves.** `MovesFollowState` relates two tables that are written one after
  the other, so `MoveInv` says for each program counter what the row and the
  moves of the goroutine's stake must be (`MoveOk`), that a stake not yet
  inserted or not yet DELEGATING has one goroutine at it only (`Alone`), and what
  a row admits with no goroutine at it (`RowOk`). The crux is that a goroutine
  about to confirm, release or complete is the only one that will: it is past a
  versioned write of the row, which nobody else can repeat.
* **Ledger.** The copy of a balance that is about to be written was computed from
  an older row. `LedgerInv` says of each copy that *if its version is the one
  after the row's*, then the row is what it was computed from, and the copy is the
  outcome of the operation on it (`Outcome`). A write that loses needs nothing;
  one that wins is the abstract step. `Moves_proofs` supplies that the operation
  was not done before, which the abstract ledger demands of each.
* **Provider.** `AnswerOk` says of each program counter what the provider has been
  told and has answered, and lets answers age: a status read is a status the
  stake has had, and the provider's statuses only advance, or end in FAILED
  before they are WITHDRAWN.
  `OneProviderStakePerKey` follows from the UNIQUE key, since the provider only
  hears of stakes with a row.
* **Server.** `ApiInv` ties the stage of a call to the program counter of its
  goroutine, and the stake of an open call to its caller. It is what makes
  hanging up on a call, at any stage, a step or a stutter of `StakingSystem`.
  `OnlyKeysExpose` rests on that the owner of a row never changes (`KeptTerms`), so
  that the second read after an owner check may be trusted.
* **Answers.** Neither answer property is inductive: a refused stake must also be
  out of reach of every goroutine. `AnswersInv` says of a refusal that nothing was
  done and that no request is still before its hold for that stake (`Traceless`).
  A save for a stake comes from a request at its hold, or from one whose operation
  presupposes an earlier hold (`MoveOk`), so nothing ever is done. `Aborted` never
  follows a hold: the write of DELEGATING cannot lose the version check, since the
  poller lists a row only once it is DELEGATING. Of an answer OK it says the row is
  past PENDING and known (`Done`), and rows and provider stakes do not go back. Of a
  key sent again it says that the row is there (`ReplaysGiven`), since no row is ever
  deleted (`RowsStay`); that a row implies a hold is `MoveInv`.
* **Audit trail.** `TrailStep` is what every step does to the trail, event by
  event: it tells only of what happened, undoes nothing that happened, forgets
  nothing unless a fault loses it, and what happens in it is told of from then on.
  `Told` counts the goroutine that is about to publish, so the gap between a write
  and its INSERT is in the property and not in the proof. That what happened stays
  so is the lifecycle's edges for rows and `MoveInv` for funds. `AuditIsTrue`
  follows by itself; the other two need the converse (`Complete`), inductive where
  nothing is forgotten. That only an error leads to the provider-error path
  (`FailsOnError`) is what the last one rests on.
* **Sums.** A sum is a fold, and the induction it calls for is out of the provers'
  reach as a scheme. `SumIsCount` goes round it: the sum of natural numbers is the
  number of elements of a set with `f[x]` pairs for each `x` (`Units`), whose
  cardinality the library knows, and of the sets for which the two would differ
  there is a smallest one (`LeastSubset`, from the well-foundedness of strict
  inclusion), which adding one element refutes. Then `SumAdd`, `SumRemove`, `SumSame`.
* **Funds.** `FundsInv` is `LedgerInv` with the equations of `FundsAccounted` for
  each account (`Books`), and a rewards table that is finite with one row per stake
  and day. `LedgerImplemented` has reduced every step to at most one operation of one
  stake on the current row, so each equation gains or loses one term on both sides.
  A reward credited is a term because CreateReward comes before it and the row is
  never changed.
* **Cumulative totals.** `SumsInv` says that `rewardSums` is the sum of the rows,
  that a total a poller has read is still that sum plus its entry, and that no row
  is of a later day than the entries in hand (`EntryOk`), so a new row is the last of
  its stake. With one poller nothing comes between the read and the INSERT.
* **Decimals.** Lemmas on `RoundTo` (it is within half a unit, monotone enough,
  idempotent, and it commutes with adding whole places), then `DecimalsInv`, which
  bounds the difference of balance and debt by what each stake's rounding may
  have added. `LittleGained` counts the halves with the cardinality theorems. For
  `RowsCovered` a step touches one row, so the sum of a state is that of the other
  rows in it and this row's share (`OneApart`, `BucketsMove`). `RoundingsAgree` shows
  that cutting after the first decimal and adding five rounds as half away from zero
  does, and with `RowsCovered` makes `FundsBacked`. For the rest, that a hold released
  on the copy cancels before anything is rounded (`RefusedKeeps`), and that pending
  covers what a failed stake gives back, are what it comes down to.

Every invariant and every refinement the passing runs check is proved. Only
model-checked: `FundsAccounted` where the first balance is made by a request
(`MCBitGo`), `LedgerRefined` in the same setting, and liveness (`StakesSettle`,
`FirstStakesRecorded`, `ShutdownCompletes`), which is out of the prover's reach, like
ENABLED. No module declares a RECURSIVE operator.

## 7. Where code and documents disagree

Runs whose property TLC finds violated (details under `findings`):

* `ViolRetry`: a retry beside its first attempt holds the amount a second time,
  is refused by the UNIQUE key, and does not release it.
* `ViolHalfDone`: the poller saves a stake's state, loses the version check on
  the balance and goes on with the next stake: nothing ever moves those funds, and no
  event ever tells of the change.
* `ViolFirstDeposit`: two first deposits; the second upserts over a balance that
  a stake is already held against.
* `ViolPending`: a request cut off after its INSERT leaves a PENDING stake, and
  no poll lists PENDING stakes.

`NothingIsHalfDone` says that between two polls, with no request in progress, the
state of each stake, its funds, its events and its rewards agree. `ViolHalfDone`
shows one way to break it, without faults. There are three more, which the same
property finds in other instances:

* any error of the provider call is taken for a refusal: when only the answer was lost
  (`bitgo/client.go:34`), the stake is FAILED and its funds are available again while
  the provider has them (`ReleasedIsLiquid`, with `Faults = {"provider"}`);
* a stake the provider refuses is FAILED without any event
  (`staking_service.go:97-113`), against "All state changes produce an append-only
  audit trail" (`docs/DESIGN.md:24`) (`EveryChangeIsTold`, with the same);
* a reward whose credit loses the version check is never credited: its row makes the
  next poll take it for a duplicate (`reward_poller.go:251-268`), against "Rewards are
  fetched, recorded (with cumulative tracking), and added to available balance"
  (`docs/TESTING.md:88`) (`RewardsAreCredited`, with `RewardRate = 1`).

Seen while modelling, and not given a run of their own:

* `CreateStake` looks its key up without the customer and answers with the stake that
  has it (`staking_service.go:50-57`), against "Handler-level checks ensure callers can
  only access their own stakes, balances, and rewards" (`README.md:154`);
* a key whose first attempt was answered with an error, because the provider refused or
  did not answer, is answered OK with the FAILED stake when it is sent again, against
  "retrying the same request returns the original response" (`docs/DECISIONS.md:64`),
  and cannot be used again;
* the oldest ACTIVE stakes fill every list, since they stay ACTIVE, and those beyond
  its LIMIT never get a reward (`reward_poller.go:211`), against "fetches and records
  daily rewards for active stakes" (`docs/DESIGN.md:22`);
* a status of FAILED is ignored for an UNSTAKING stake (`reward_poller.go:168`), which
  stays at the head of the list; as many of them as a poll lists keep every later
  unstake from being completed, against "handles failures" (`docs/DESIGN.md:21`);
* a total of rewards that cannot be read counts as zero, and the row inserted says the
  rewards begin anew (`reward_poller.go:234`);
* no status of the BitGo adapter is ever WITHDRAWN (`bitgo/client.go:86`), so an unstake
  that has ended at the network is never completed;
* two `Unstake` requests that overlap both reach the provider: the state is
  checked on copies and the version only afterwards;
* the loser of two requests with one key is answered Internal, although it is a
  retry of what succeeds;
* with BitGo one active delegation of the wallet makes every DELEGATING stake
  ACTIVE (`bitgo/client.go:89`), and the first ACTIVE stake of a poll is given the
  first reward of the wallet, whosever it is (`:111`);
* `ListStakes` and `ListRewardHistory` ignore their page token: every page is the
  first one;
* the rewards summary of a stake without a reward is an error, not an empty
  summary.

## 8. Not modelled

Configuration (environment variables read once), `tokengen` and `GenerateToken`,
the errors that end the process before it serves: they keep no state the rest
reads. Marshalling, headers, request ids, logging, descriptors and the generated
code's in-process variant, which nobody calls. The cryptography of JWT: a token
is what it carries. HTTP and JSON of the BitGo client. Timestamps other than the
order of creation, and the conversion of ids, texts and times, which keep their
value. The width of 36 digits of a column. Failures of PostgreSQL itself, beyond
statements that fail, and the connection pool. Nothing in the model panics, so
`RecoveryInterceptor` has no part.

## 9. What is left

1. Attribution of BitGo's rewards to stakes, and cumulative totals with two
   pollers: today's properties say what the wrong answers cannot break, not how
   wrong they are.
2. The connection pool and statement time-outs, if they are ever configured.
3. Proofs of `LedgerRefined` and `FundsAccounted` from the first deposit on: with
   one handler a second first deposit cannot overlap the first, which `LedgerInv`
   would have to say.
