-------------------------- MODULE StakingProperties --------------------------
(***************************************************************************)
(* What is checked of StakingSystem.                                       *)
(***************************************************************************)
EXTENDS StakingSystem, Totals

-----------------------------------------------------------------------------
(* Types                                                                   *)

Terms == [account : Accounts, amount : Amounts, key : Keys]
Moves == {"hold", "confirm", "release", "complete"}

HandlerPcs == {"idle", "getBalance", "hold", "insert", "stake", "failing", "releasing",
               "saveDelegating", "publishCreated", "unstake", "saveUnstaking",
               "publishUnstake", "upsert", "publishBalance", "overwrite"}

PollerPcs == {"idle", "delegating", "saveActive", "confirm", "saveConfirm",
              "publishActivated", "saveFailed", "release", "saveRelease",
              "saveUnreleased", "publishFailed", "unstaking", "saveWithdrawn",
              "complete", "saveComplete", "publishWithdrawn", "rewards", "readTotal",
              "createReward", "addReward", "saveReward"}

Workspace ==
    [pc : HandlerPcs \cup PollerPcs, id : StakeIds \cup {0},
     account : Accounts \cup {NoAccount}, stake : Stakes, bal : Balances,
     list : [StakeIds -> Stakes], entries : Seq([day : Days, amount : Nat]),
     total : Nat]

\* Every table, history and local variable holds values of its type: no
\* bucket of a balance, in a row or in a goroutine's copy, is ever negative.
TypeOK ==
    /\ terms \in [StakeIds -> Terms \cup {NoTerms}]
    /\ stakes \in [StakeIds -> Stakes]
    /\ balances \in [Accounts -> Balances]
    /\ \A r \in rewards : /\ r.stake \in StakeIds
                          /\ r.day \in Days
                          /\ r.amount \in Nat
                          /\ r.cumulative \in Nat
    /\ rewardSums \in [StakeIds -> Nat]
    /\ moved \in [StakeIds -> SUBSET Moves]
    /\ credited \subseteq StakeIds \X Days
    /\ work \in [Actors -> Workspace]
    /\ provider \in [StakeIds -> ProviderStatuses \cup {"none"}]
    /\ unstakeCalls \in [StakeIds -> 0 .. 2]
    /\ day \in Days

-----------------------------------------------------------------------------
(* The stakes table                                                        *)

Lifecycle == INSTANCE StakeLifecycle WITH table <- stakes

\* The stakes table follows the lifecycle, one edge and one version at a
\* time, whatever handlers and pollers race for a row: a stale copy that a
\* list or a GetByID returned never undoes a later transition.
LifecycleRefined == Lifecycle!LifecycleSpec

\* At most one stake per idempotency key is submitted to the provider: the
\* row, and with it the UNIQUE key, is inserted before the provider is called.
OneProviderStakePerKey ==
    \A i, j \in StakeIds :
        /\ Knows(i)
        /\ Knows(j)
        /\ terms[i].key = terms[j].key
        => i = j

\* The statuses the provider may have given a stake, by the state of its row.
\* An active stake may fail at the provider, and no poll asks about it.
ProviderExpected ==
    [DELEGATING |-> {"PENDING", "ACTIVE", "FAILED"},
     ACTIVE |-> {"ACTIVE", "UNSTAKING", "WITHDRAWN", "FAILED"},
     UNSTAKING |-> {"UNSTAKING", "WITHDRAWN", "FAILED"},
     WITHDRAWN |-> {"WITHDRAWN"}]

\* A row never runs ahead of the provider: it is ACTIVE for no stake that is
\* still to be confirmed, UNSTAKING for none the provider was not told to
\* unstake (one that failed there meanwhile apart), and WITHDRAWN for none that
\* is not liquid, however the status calls, the unstake requests and the
\* writes of the rows interleave.
RowsFollowProvider ==
    \A i \in StakeIds :
        stakes[i].state \in DOMAIN ProviderExpected
          => provider[i] \in ProviderExpected[stakes[i].state]

-----------------------------------------------------------------------------
(* The balances table                                                      *)

Buckets(b) == [available |-> b.available, staked |-> b.staked, pending |-> b.pending]

Ledger == INSTANCE AtomicLedger WITH
    funds <- [a \in Accounts |-> Buckets(balances[a])],
    recorded <- rewards

\* The optimistic lock works: the balances table changes as if every balance
\* operation were one atomic step on the current row.  No update is lost, no
\* stake is held, confirmed, released or completed twice, and a reward is
\* credited at most once, with the amount of its row.
LedgerRefined == Ledger!LedgerSpec

StakesOf(acct) == {i \in StakeIds : terms[i].account = acct}
StakeAmounts == [i \in StakeIds |-> terms[i].amount]
TotalOf(op, acct) == SumOver(StakeAmounts, {i \in StakesOf(acct) : op \in moved[i]})

RewardAmounts == [r \in rewards |-> r.amount]
CreditedTo(acct) ==
    SumOver(RewardAmounts, {r \in rewards : /\ <<r.stake, r.day>> \in credited
                                            /\ terms[r.stake].account = acct})

\* The available funds a balance may have begun with.
Beginnings(acct) ==
    IF acct \in Seeded THEN {Opening}
    ELSE IF balances[acct] = NoBalance THEN {0} ELSE Deposits

\* Each bucket of a balance is what the operations saved so far add up to.
\* available is left out when CreateOrUpdateBalance may overwrite it, that
\* is, set more than the first balance of an account.
FundsAccounted ==
    \A acct \in Accounts :
        LET b == balances[acct] IN
        /\ b.pending + TotalOf("confirm", acct) + TotalOf("release", acct)
             = TotalOf("hold", acct)
        /\ b.staked + TotalOf("complete", acct) = TotalOf("confirm", acct)
        /\ MaxVersion <= 1 =>
             \E x \in Beginnings(acct) :
                b.available + TotalOf("hold", acct)
                  = x + TotalOf("release", acct) + TotalOf("complete", acct)
                      + CreditedTo(acct)

\* The balance operations a stake may have behind it, by its state.  A state
\* change is saved before the operation that goes with it, so the operation
\* may still be missing (or be lost for good).  A database error can lose the
\* update to FAILED of a refused stake and not the release that follows.
MovesAllowed ==
    [NONE |-> {{}, {"hold"}},
     PENDING |-> {{"hold"}} \cup (IF DbMayFail THEN {{"hold", "release"}} ELSE {}),
     DELEGATING |-> {{"hold"}},
     ACTIVE |-> {{"hold"}, {"hold", "confirm"}},
     UNSTAKING |-> {{"hold"}, {"hold", "confirm"}},
     WITHDRAWN |-> {{"hold"}, {"hold", "confirm"}, {"hold", "complete"},
                    {"hold", "confirm", "complete"}},
     FAILED |-> {{"hold"}, {"hold", "release"}}]

\* The rows and the buckets never contradict each other: a stake that is not
\* over is backed by a hold that was neither released nor completed, funds
\* are confirmed only for a stake that became active, completed only for one
\* that is withdrawn, released only for one that failed or was refused.
MovesFollowState == \A i \in StakeIds : moved[i] \in MovesAllowed[stakes[i].state]

-----------------------------------------------------------------------------
(* Rewards and the audit trail                                             *)

\* With one poller, cumulative_amount of a reward is the total of the
\* stake's rewards up to its day.
CumulativeIsTotal ==
    \A r \in rewards :
        r.cumulative = SumOver(RewardAmounts,
                            {q \in rewards : q.stake = r.stake /\ q.day <= r.day})

\* The events of a stake, and where the goroutine that saved the change is
\* that each event tells of, until it has published it.
StakeEvents == {"stake.created", "stake.activated", "stake.failed",
                "stake.unstake_requested", "stake.withdrawn"}

Tells(pc, event) ==
    \/ event = "stake.created" /\ pc = "publishCreated"
    \/ event = "stake.activated" /\ pc = "publishActivated"
    \/ event = "stake.failed" /\ pc \in {"release", "saveRelease", "saveUnreleased",
                                        "publishFailed"}
    \/ event = "stake.unstake_requested" /\ pc = "publishUnstake"
    \/ event = "stake.withdrawn" /\ pc = "publishWithdrawn"

\* What each event says of its stake.
Happened(i, event) ==
    \/ event = "stake.created" /\ stakes[i].state \notin {"NONE", "PENDING"}
    \/ event = "stake.activated" /\ "confirm" \in moved[i]
    \/ event = "stake.failed" /\ stakes[i].state = "FAILED"
    \/ event = "stake.unstake_requested" /\ stakes[i].state \in {"UNSTAKING", "WITHDRAWN"}
    \/ event = "stake.withdrawn" /\ "complete" \in moved[i]

Telling(i, event) == \E a \in Actors : Tells(work[a].pc, event) /\ work[a].id = i
Told(i, event) == <<i, event>> \in audit \/ Telling(i, event)

\* The audit trail says nothing of a stake that did not happen, whatever
\* fails: no statement that failed and no copy that lost its race is told of.
AuditIsTrue ==
    \A i \in StakeIds : \A e \in StakeEvents : <<i, e>> \in audit => Happened(i, e)

\* The audit trail records that a stake was activated or withdrawn exactly
\* when the funds moved with it, at the latest when the goroutine that moved
\* them has published.
AuditFollowsFunds ==
    \A i \in StakeIds : \A e \in {"stake.activated", "stake.withdrawn"} :
        Told(i, e) <=> Happened(i, e)

\* Of the changes of a row whose event is published whatever becomes of the
\* balance (it was submitted, its unstake was requested, a poll found it
\* failed) every one is in the trail, at the latest when the goroutine that
\* saved it has published, and no other.  "stake.activated" and
\* "stake.withdrawn" are not among them: they wait for the balance, and a row
\* whose balance update loses its race changes without an event
\* (EveryChangeIsTold).
AuditFollowsRows ==
    \A i \in StakeIds :
        \A e \in {"stake.created", "stake.unstake_requested", "stake.failed"} :
            Told(i, e) <=> Happened(i, e)

-----------------------------------------------------------------------------
(* What the documents say and the code does not do                         *)

StateIs(i, S) == stakes[i].state \in S
Quiet == \A a \in Actors : At(a, "idle")
Outstanding(i) == "hold" \in moved[i] /\ moved[i] \cap {"release", "complete"} = {}

\* "A network failure and client retry must not double-stake": when no
\* request is in progress, at most one hold is outstanding per key.
RetryHoldsOnce ==
    Quiet => \A i, j \in StakeIds :
                Outstanding(i) /\ Outstanding(j) /\ terms[i].key = terms[j].key => i = j

\* "Staked - locked in active stakes", "Pending - during PENDING/DELEGATING":
\* the buckets are those of the stakes' states.
MovesExpected ==
    [NONE |-> {}, PENDING |-> {"hold"}, DELEGATING |-> {"hold"},
     ACTIVE |-> {"hold", "confirm"}, UNSTAKING |-> {"hold", "confirm"},
     WITHDRAWN |-> {"hold", "confirm", "complete"}, FAILED |-> {"hold", "release"}]

BucketsMatchStates ==
    \A i \in StakeIds : stakes[i] # NoStake => moved[i] = MovesExpected[stakes[i].state]

\* "Available - liquid funds, can be staked or withdrawn": what was released to
\* available is not staked, or about to be, at the provider.
ReleasedIsLiquid ==
    \A i \in StakeIds : "release" \in moved[i] => provider[i] \in {"none", "FAILED"}

\* "All state changes produce an append-only audit trail": it has every change
\* a row went through.
EventsExpected ==
    [NONE |-> {}, PENDING |-> {}, DELEGATING |-> {"stake.created"},
     ACTIVE |-> {"stake.created", "stake.activated"},
     UNSTAKING |-> {"stake.created", "stake.activated", "stake.unstake_requested"},
     WITHDRAWN |-> {"stake.created", "stake.activated", "stake.unstake_requested",
                    "stake.withdrawn"},
     FAILED |-> {"stake.failed"}]

EveryChangeIsTold ==
    \A i \in StakeIds : \A e \in EventsExpected[stakes[i].state] : <<i, e>> \in audit

\* "Rewards are fetched, recorded ..., and added to available balance": every
\* reward recorded was added.
RewardsAreCredited == \A r \in rewards : <<r.stake, r.day>> \in credited

\* A conflict "forces a retry": between two polls, with no request in progress,
\* no operation is left half done.  State, funds, events and rewards, which are
\* saved one after the other, agree.
NothingIsHalfDone ==
    Quiet => BucketsMatchStates /\ ReleasedIsLiquid /\ EveryChangeIsTold /\ RewardsAreCredited

\* "Background poller reconciles stake state with the provider": also a stake
\* whose request was cut off before the provider's answer was saved.
PendingIsReconciled ==
    \A i \in StakeIds : StateIs(i, {"PENDING"}) ~> StateIs(i, {"DELEGATING", "FAILED"})
=============================================================================
