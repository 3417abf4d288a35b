--------------------------- MODULE StakingDecimals ---------------------------
(***************************************************************************)
(* What happens to amounts on their way between the decimals of the code,  *)
(* which have any number of places, the NUMERIC(36, 18) columns, and the   *)
(* wei of the provider.  All amounts are counted in a unit finer than the  *)
(* column's, Place of which make one place of the column (1 wei), Grain of *)
(* which make one place of a decimal division (16 places, 100 wei).        *)
(*                                                                         *)
(* One account, one request or poll at a time: what concurrent ones do to  *)
(* each other is the subject of StakingSystem, where amounts are whole.    *)
(***************************************************************************)
EXTENDS StakingDomain, Totals, FiniteSets

CONSTANTS
    Place, Grain,
    Asked,       \* the amounts a request may ask for
    Paid,        \* the rewards the provider may report, in wei
    MaxStakes,   \* bound: CreateStake requests
    MaxRewards,  \* bound: rewards reported
    Opening      \* the available balance at first, in wei

StakeIds == 1 .. MaxStakes

\* A unit of the first decimal of a wei.
Tenth == Place \div 10

ASSUME DecimalsAssumption ==
    /\ Place \in Nat \ {0}
    /\ Place % 10 = 0
    /\ Grain \in Nat \ {0}
    /\ Asked \subseteq Nat \ {0}
    /\ Paid \subseteq Nat \ {0}
    /\ MaxStakes \in Nat
    /\ MaxRewards \in Nat
    /\ Opening \in Nat

VARIABLES
    balance,  \* the row of the balances table
    rows,     \* the stakes table: state and amount
    asked,    \* history: stake -> the amount its request asked for
    sent,     \* history: stake -> the amount the provider accepted
    paid,     \* history: what the provider reported in rewards
    credited, \* history: what rewards added to the balance
    reports   \* how many rewards were reported

vars == <<balance, rows, asked, sent, paid, credited, reports>>

NoRow == [state |-> "NONE", amount |-> 0]

-----------------------------------------------------------------------------
(* Conversions                                                             *)

\* To a multiple of unit, half away from zero.
RoundTo(x, unit) == ((2 * x + unit) \div (2 * unit)) * unit

\* Mutant: the column cuts the decimals off.
ToColumnCuts(x) == (x \div Place) * Place

\* A numeric column keeps 18 places; what is read back is what was kept.
ToColumn(x) == RoundTo(x, Place)

\* Mutant: the wei are cut off.
ToWeiCuts(x) == (x \div Place) * Place

\* StringFixed(0) of the amount times 10^18: the digits after the first
\* decimal are cut off, five is added to that one, and it is dropped.
ToWei(x) == ((x \div Tenth + 5) \div 10) * Place

\* Mutant: the division keeps a place less.
FromWeiCoarser(wei) == RoundTo(wei * Place, 2 * Grain)

\* Div of shopspring/decimal, which keeps DivisionPrecision places.
FromWei(wei) == RoundTo(wei * Place, Grain)

\* Mutant: pending is kept as it is.
StorePendingExact(b) == [b EXCEPT !.available = ToColumn(@), !.staked = ToColumn(@)]

Store(b) == [b EXCEPT !.available = ToColumn(@), !.staked = ToColumn(@),
                      !.pending = ToColumn(@)]

-----------------------------------------------------------------------------
(* CreateStake                                                             *)

\* Mutant: the row keeps every decimal of the amount.
InsertUnrounded(i, x, state) ==
    /\ ToColumn(x) > 0
    /\ rows' = [rows EXCEPT ![i] = [state |-> state, amount |-> x]]

\* The row keeps the amount of the column, which must be positive
\* (positive_amount).
Insert(i, x, state) ==
    /\ ToColumn(x) > 0
    /\ rows' = [rows EXCEPT ![i] = [state |-> state, amount |-> ToColumn(x)]]

\* The provider is asked for the amount in memory, not for that of the row.
Accepted(i, x) ==
    /\ Insert(i, x, "DELEGATING")
    /\ balance' = Store(Hold(balance, x))
    /\ sent' = [sent EXCEPT ![i] = ToWei(x)]

\* Mutant: the hold of the row, not that of the copy, is released.
RefusedReleasesRow(i, x) ==
    /\ Insert(i, x, "FAILED")
    /\ balance' = Store(ReleaseHold(Store(Hold(balance, x)), ToColumn(x)))
    /\ UNCHANGED sent

\* On a refusal the hold is released on the copy, which was never rounded.
Refused(i, x) ==
    /\ Insert(i, x, "FAILED")
    /\ balance' = Store(ReleaseHold(Hold(balance, x), x))
    /\ UNCHANGED sent

\* An amount that the column rounds to zero: the hold is saved, the row is not.
NotInserted(x) ==
    /\ ToColumn(x) = 0
    /\ balance' = Store(Hold(balance, x))
    /\ UNCHANGED <<rows, sent>>

CreateStake(i, x) ==
    /\ asked[i] = 0
    /\ MayHold(balance, x)
    /\ asked' = [asked EXCEPT ![i] = x]
    /\ Accepted(i, x) \/ Refused(i, x) \/ NotInserted(x)
    /\ UNCHANGED <<paid, credited, reports>>

-----------------------------------------------------------------------------
(* The poller: on the amount of the row                                    *)

Reconcile(i, from, to, b) ==
    /\ rows[i].state = from
    /\ rows' = [rows EXCEPT ![i].state = to]
    /\ balance' = Store(b)
    /\ UNCHANGED <<asked, sent, paid, credited, reports>>

Confirm(i) ==
    /\ MayConfirmStake(balance, rows[i].amount)
    /\ Reconcile(i, "DELEGATING", "ACTIVE", ConfirmStake(balance, rows[i].amount))

Fails(i) == Reconcile(i, "DELEGATING", "FAILED", ReleaseHold(balance, rows[i].amount))

\* Unstake and, later, the completion of it.
Complete(i) ==
    /\ MayCompleteUnstake(balance, rows[i].amount)
    /\ Reconcile(i, "ACTIVE", "WITHDRAWN", CompleteUnstake(balance, rows[i].amount))

\* NewReward refuses an amount that is not positive.
FetchReward(wei) ==
    /\ reports < MaxRewards
    /\ \E i \in StakeIds : rows[i].state = "ACTIVE"
    /\ reports' = reports + 1
    /\ paid' = paid + wei * Place
    /\ credited' = credited + ToColumn(FromWei(wei))
    /\ balance' = Store(AddReward(balance, FromWei(wei)))
    /\ UNCHANGED <<rows, asked, sent>>

-----------------------------------------------------------------------------
DecimalsInit ==
    /\ balance = [NewBalance EXCEPT !.available = Opening * Place]
    /\ rows = [i \in StakeIds |-> NoRow]
    /\ asked = [i \in StakeIds |-> 0]
    /\ sent = [i \in StakeIds |-> 0]
    /\ paid = 0
    /\ credited = 0
    /\ reports = 0

DecimalsNext ==
    \/ \E i \in StakeIds : \/ \E x \in Asked : CreateStake(i, x)
                           \/ Confirm(i) \/ Fails(i) \/ Complete(i)
    \/ \E wei \in Paid : FetchReward(wei)

DecimalsSpec == DecimalsInit /\ [][DecimalsNext]_vars

-----------------------------------------------------------------------------
(* What is checked                                                         *)

\* What the balances and stakes tables hold is whole in the column's places,
\* and never negative.
DecimalsTypeOK ==
    /\ balance \in Balances
    /\ \A f \in {"available", "staked", "pending"} : balance[f] % Place = 0
    /\ rows \in [StakeIds -> [state : StakeStates \cup {"NONE"}, amount : Nat]]
    /\ \A i \in StakeIds : rows[i].amount % Place = 0
    /\ asked \in [StakeIds -> Asked \cup {0}]
    /\ sent \in [StakeIds -> Nat]
    /\ paid \in Nat
    /\ credited \in Nat
    /\ reports \in 0 .. MaxRewards

RowAmounts == [i \in StakeIds |-> rows[i].amount]
SumOfRows(states) == SumOver(RowAmounts, {i \in StakeIds : rows[i].state \in states})

\* However the amount of a request is rounded on its way into the balance
\* and into the row, pending and staked are the sums of the stakes' rows: the
\* poller, which goes by the rows, is never refused for want of the funds.
BucketsCoverRows ==
    /\ balance.pending = SumOfRows({"DELEGATING"})
    /\ balance.staked = SumOfRows({"ACTIVE"})

SumOfSent(states) == SumOver(sent, {i \in StakeIds : rows[i].state \in states})

\* What the customer has pending and staked is, to the wei, what the provider
\* was given to stake, although the hold, the row and the request of the
\* provider each round the amount in memory for themselves, and wei and column
\* are rounded by different methods.
FundsAreBacked ==
    /\ balance.pending = SumOfSent({"DELEGATING"})
    /\ balance.staked = SumOfSent({"ACTIVE"})

\* Accepted stakes whose amount lay halfway between two places.
Halves == {i \in StakeIds : sent[i] # 0 /\ 2 * (asked[i] % Place) = Place}

OnBalance == balance.available + balance.staked + balance.pending
Owed == Opening * Place + credited

\* Rounding never costs the customer anything, in any of the ways a hold is
\* made and undone.
RoundingNeverTakes == OnBalance >= Owed

\* It brings at most one place of the column, with an accepted stake whose
\* amount lies halfway between two: both sides of the hold are then rounded up.
RoundingGivesOnlyHalves == OnBalance <= Owed + Place * Cardinality(Halves)

\* What rewards credit strays from what the provider paid by at most half a
\* place of the division for each.
RewardsTrackPayments ==
    /\ 2 * credited <= 2 * paid + reports * Grain
    /\ 2 * paid <= 2 * credited + reports * Grain
=============================================================================
