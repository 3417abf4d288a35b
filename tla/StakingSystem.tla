---------------------------- MODULE StakingSystem ----------------------------
(***************************************************************************)
(* cmd/stakingd: the request goroutines of the gRPC server and the reward  *)
(* pollers, over one database and one staking provider.                    *)
(***************************************************************************)
EXTENDS StakingService, RewardPoller

CONSTANTS
    Seeded,   \* the accounts that have a balance when the service starts
    Opening   \* the available balance of each of those

ASSUME SystemAssumption == Seeded \subseteq Accounts /\ Opening \in Nat

vars == <<terms, stakes, ledger, rewardTables, audit, work, providerVars>>

Init == StoreInit(Seeded, Opening) /\ ProviderInit

\* The context of a request or of the poller is cancelled (the client goes
\* away or its deadline passes, the service shuts down): every later call
\* of the goroutine fails, which on every path ends it with no further
\* change.
Abandon(a) ==
    /\ "cancel" \in Faults
    /\ ~At(a, "idle")
    /\ Return(a)
    /\ UNCHANGED <<terms, stakes, ledger, rewardTables, audit, providerVars>>

\* The process dies and is started again.
Crash ==
    /\ "crash" \in Faults
    /\ work' = [a \in Actors |-> Idle]
    /\ ProviderRestarts
    /\ UNCHANGED <<terms, stakes, ledger, rewardTables, audit>>

Environment ==
    /\ NextDay \/ \E i \in StakeIds : ProviderProgress(i)
    /\ UNCHANGED <<terms, stakes, ledger, rewardTables, audit, work>>

Next ==
    \/ \E h \in Handlers : Request(h) \/ HandlerStep(h)
    \/ \E p \in Pollers : PollerStep(p)
    \/ \E a \in Actors : Abandon(a)
    \/ Crash
    \/ Environment

Spec == Init /\ [][Next]_vars

\* A request that has begun goes on, the poll loop goes round, and the
\* network settles what it has accepted.
ProviderSettles(i) ==
    Settle(i) /\ UNCHANGED <<terms, stakes, ledger, rewardTables, audit, work>>

FairSpec ==
    /\ Spec
    /\ \A h \in Handlers : WF_vars(HandlerStep(h))
    /\ \A p \in Pollers : WF_vars(PollerStep(p))
    /\ \A i \in StakeIds : WF_vars(ProviderSettles(i))
=============================================================================
