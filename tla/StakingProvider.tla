--------------------------- MODULE StakingProvider ---------------------------
(***************************************************************************)
(* The staking provider behind port.StakingProvider, one of                *)
(*   "mock"   internal/adapter/mock: a map in memory, active at once;      *)
(*   "bitgo"  internal/adapter/bitgo in front of a BitGo wallet, whose     *)
(*            status and rewards calls ignore the reference they are given *)
(*            and answer for the wallet;                                   *)
(*   "port"   any implementation of the interface, as the tests' fakes:    *)
(*            a stake is pending, then active or failed, an unstake takes  *)
(*            a while to be withdrawn, and either may fail later.          *)
(* What happens at the far end of the network for "bitgo" and "port" is    *)
(* not code of the repository: ProviderProgress is modelled from the       *)
(* statuses the port and the client know.                                  *)
(***************************************************************************)
EXTENDS StakingStore, Functions

CONSTANTS
    Provider,    \* which adapter runs
    RewardRate,  \* reward per day and unit of stake; 0: rounds to nothing
    MaxDay       \* bound: the last day of a behaviour

ASSUME ProviderAssumption ==
    /\ Provider \in {"mock", "bitgo", "port"}
    /\ RewardRate \in Nat
    /\ MaxDay \in Nat \ {0}

VARIABLES
    provider,      \* stake entity -> its status at the provider
    unstakeCalls,  \* stake entity -> Unstake calls it accepted, 2 is "many"
    day            \* today

providerVars == <<provider, unstakeCalls, day>>

ProviderStatuses ==
    {"PENDING", "ACTIVE", "UNSTAKING", "WITHDRAWN", "FAILED"}

Days == 1 .. MaxDay

ProviderInit ==
    /\ provider = [i \in StakeIds |-> "none"]
    /\ unstakeCalls = [i \in StakeIds |-> 0]
    /\ day = 1

Knows(i) == provider[i] # "none"
CallMayFail == "provider" \in Faults /\ Provider # "mock"

\* The status a stake has as soon as the request is accepted.
AcceptedAs == IF Provider = "mock" THEN "ACTIVE" ELSE "PENDING"

ProviderAcceptsStake(i) ==
    /\ provider' = [provider EXCEPT ![i] = AcceptedAs]
    /\ UNCHANGED <<unstakeCalls, day>>

\* An error from Stake: refused, or accepted with the answer lost
\* (a timeout of the client).
ProviderFailsStake(i) ==
    /\ CallMayFail
    /\ \/ UNCHANGED providerVars
       \/ ProviderAcceptsStake(i)

MayUnstakeAt(i) == provider[i] \notin {"none", "FAILED"}

ProviderAcceptsUnstake(i) ==
    /\ MayUnstakeAt(i)
    /\ provider' = [provider EXCEPT ![i] =
            IF Provider = "mock" \/ @ = "WITHDRAWN" THEN "WITHDRAWN"
                                                    ELSE "UNSTAKING"]
    /\ unstakeCalls' = [unstakeCalls EXCEPT ![i] = IF @ = 2 THEN 2 ELSE @ + 1]
    /\ UNCHANGED day

ProviderFailsUnstake(i) ==
    \/ ~MayUnstakeAt(i) /\ UNCHANGED providerVars
    \/ CallMayFail /\ UNCHANGED providerVars
    \/ CallMayFail /\ ProviderAcceptsUnstake(i)

\* What GetStakeStatus can answer; "error" stands for a call that fails.
WalletStatus ==
    IF \E j \in StakeIds : provider[j] = "ACTIVE" THEN "ACTIVE" ELSE "PENDING"

StatusAnswers(i) ==
    (IF CallMayFail THEN {"error"} ELSE {})
    \cup
    (CASE Provider = "bitgo" -> {WalletStatus}
       [] Provider # "bitgo" /\ Knows(i) -> {provider[i]}
       [] OTHER -> {"error"})

\* What GetRewards can answer: sequences of entries, each with its day.
DailyReward(i) == RewardRate * terms[i].amount

\* The delegations that may show a reward: whatever has been active, in any
\* status, since only the amount is looked at.
Earning == {i \in StakeIds : provider[i] \notin {"none", "PENDING"} /\ DailyReward(i) > 0}

\* An entry for each delegation that does show one, in the wallet's order.
EntriesOf(S) ==
    {[n \in DOMAIN f |-> [day |-> day, amount |-> DailyReward(f[n])]] :
        f \in Bijection(1 .. Cardinality(S), S)}

WalletRewards == UNION {EntriesOf(S) : S \in SUBSET Earning}

RewardAnswers(i) ==
    (IF CallMayFail THEN {<<>>} ELSE {})
    \cup
    (IF Provider = "bitgo"
     THEN WalletRewards
     ELSE IF provider[i] = "ACTIVE"
          THEN {<<[day |-> day, amount |-> DailyReward(i)]>>}
          ELSE {<<>>})

-----------------------------------------------------------------------------
(* The far end of the network, and the calendar                            *)

\* How a request ends that the network has accepted.
Outcomes == [PENDING |-> {"ACTIVE", "FAILED"}, UNSTAKING |-> {"WITHDRAWN"}]

Settle(i) ==
    /\ Provider # "mock"
    /\ provider[i] \in DOMAIN Outcomes
    /\ \E s \in Outcomes[provider[i]] : provider' = [provider EXCEPT ![i] = s]
    /\ UNCHANGED <<unstakeCalls, day>>

\* A stake that was confirmed fails after all.
GiveUp(i) ==
    /\ "slash" \in Faults
    /\ Provider # "mock"
    /\ provider[i] \in {"ACTIVE", "UNSTAKING"}
    /\ provider' = [provider EXCEPT ![i] = "FAILED"]
    /\ UNCHANGED <<unstakeCalls, day>>

ProviderProgress(i) == Settle(i) \/ GiveUp(i)

NextDay ==
    /\ day < MaxDay
    /\ day' = day + 1
    /\ UNCHANGED <<provider, unstakeCalls>>

\* The mock keeps its stakes in the memory of the process.
ProviderRestarts ==
    /\ provider' = IF Provider = "mock" THEN [i \in StakeIds |-> "none"] ELSE provider
    /\ UNCHANGED <<unstakeCalls, day>>
=============================================================================
