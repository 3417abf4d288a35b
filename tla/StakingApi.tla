----------------------------- MODULE StakingApi -----------------------------
(***************************************************************************)
(* The service as its clients see it: the gRPC server with its chain of    *)
(* interceptors and its nine handlers, the HTTP gateway in front of it,    *)
(* and the start and stop of the process, over StakingSystem.              *)
(*                                                                         *)
(* A request is admitted or not by what it carries alone, so that much is  *)
(* a constant operator.  One that is reads and writes through the          *)
(* services, one statement or provider call per step, and ends with the    *)
(* status code that the error of its last step is mapped to.               *)
(***************************************************************************)
EXTENDS StakingProperties

CONSTANTS
    Customers, Nobody,
    Owner,       \* the customer of each account
    Transports,  \* subset of {"grpc", "http"}
    DefaultPage, \* 20 in the code
    MaxPage,     \* 100 in the code
    MaxStops     \* bound: how often the process is told to stop

ASSUME ApiAssumption ==
    /\ Nobody \notin Customers
    /\ Owner \in [Accounts -> Customers]
    /\ Transports \subseteq {"grpc", "http"}
    /\ DefaultPage \in Nat \ {0}
    /\ MaxPage \in Nat
    /\ MaxStops \in Nat

VARIABLES
    calls,    \* handler -> the request it is serving, or NoCall
    exposed,  \* history: which method told whom of which stake not theirs
    outcome,  \* history: stake entity -> the code its CreateStake ended with
    replayed, \* history: the stakes that answered a CreateStake sent again
    phase,    \* of the process: "serving", "draining" or "stopped"
    stops     \* how often it was told to stop

apiVars == <<calls, exposed, outcome, replayed, phase, stops>>

-----------------------------------------------------------------------------
(* What a request carries                                                  *)

\* A field that is absent or does not parse.
Missing == [account |-> NoAccount, stake |-> 0, amount |-> 0, key |-> NoKey, page |-> 0]

\* The fields that are looked at, by message; page is page_size.
AnyAccount == Accounts \cup {NoAccount}
AnyStake == StakeIds \cup {0}
AnyKey == Keys \cup {NoKey}
AnyPage == {0, 1, MaxPage, MaxPage + 1}

CreateStakeRequest == [account : AnyAccount, amount : Amounts \cup {0}, key : AnyKey]
GetStakeRequest == [stake : AnyStake]
ListStakesRequest == [account : AnyAccount, page : AnyPage]
UnstakeRequest == [stake : AnyStake, key : AnyKey]
CreateBalanceRequest == [account : AnyAccount, amount : Deposits \cup {0}]
GetBalanceRequest == [account : AnyAccount]
ListBalancesRequest == [account : AnyAccount]
GetRewardsSummaryRequest == [stake : AnyStake]
ListRewardHistoryRequest == [stake : AnyStake, page : AnyPage]

\* By method.
Messages ==
    [CreateStake |-> CreateStakeRequest, GetStake |-> GetStakeRequest,
     ListStakes |-> ListStakesRequest, Unstake |-> UnstakeRequest,
     CreateBalance |-> CreateBalanceRequest, GetBalance |-> GetBalanceRequest,
     ListBalances |-> ListBalancesRequest,
     GetRewardsSummary |-> GetRewardsSummaryRequest,
     ListRewardHistory |-> ListRewardHistoryRequest]

Tokens == [hmac : BOOLEAN, signed : BOOLEAN, expired : BOOLEAN,
           customer : Customers \cup {Nobody}]

Requests ==
    UNION {{[rpc |-> rpc, via |-> via, decodes |-> decodes, token |-> t, msg |-> m] :
               via \in Transports, decodes \in BOOLEAN, t \in Tokens, m \in Messages[rpc]} :
           rpc \in DOMAIN Messages}

ValidateToken(t) == t.hmac /\ t.signed /\ ~t.expired /\ t.customer # Nobody

ValidateRequest(m) ==
    \A f \in DOMAIN m : IF f = "page" THEN m.page <= MaxPage ELSE m[f] # Missing[f]

AuthorizeCustomer(caller, acct) == Owner[acct] = caller

\* A request that is not admitted is refused with Internal (or
\* InvalidArgument by the gateway), Unauthenticated, InvalidArgument or
\* NotFound, in this order, and nothing changes.
Admitted(r) ==
    /\ r.decodes
    /\ ValidateToken(r.token)
    /\ ValidateRequest(r.msg)
    /\ "account" \in DOMAIN r.msg => AuthorizeCustomer(r.token.customer, r.msg.account)

Accepted == {r \in Requests : Admitted(r)}

-----------------------------------------------------------------------------
(* Calls and answers                                                       *)

NoCall == [rpc |-> "none", caller |-> Nobody, via |-> "none", stage |-> "none", stake |-> 0]

Unheard == UNCHANGED <<exposed, outcome, replayed, phase, stops>>

Open(h, r, stage, i) ==
    /\ calls' = [calls EXCEPT ![h] = [rpc |-> r.rpc, caller |-> r.token.customer,
                                      via |-> r.via, stage |-> stage, stake |-> i]]
    /\ Unheard

\* The answer tells the caller of the stakes in S.
Tell(rpc, caller, S) ==
    exposed' = exposed \cup
        {<<rpc, caller, i>> : i \in {j \in S : Owner[terms[j].account] # caller}}

\* A request answered by the step that received it, with the stakes in S.
\* One that is answered with an error, or with no stake, changes nothing.
Respond(r, S) ==
    /\ Tell(r.rpc, r.token.customer, S)
    /\ replayed' = IF r.rpc = "CreateStake" THEN replayed \cup S ELSE replayed
    /\ UNCHANGED <<vars, calls, outcome, phase, stops>>

\* The last step of a call that was open.
Close(h, S) ==
    /\ calls' = [calls EXCEPT ![h] = NoCall]
    /\ Tell(calls[h].rpc, calls[h].caller, S)
    /\ UNCHANGED <<replayed, phase, stops>>

-----------------------------------------------------------------------------
(* Requests that name a customer                                           *)

\* A key that has a stake is answered OK with that stake, in whatever state it
\* is and whoever asks.
CreateStake(h, r) ==
    \/ /\ BeginCreateStake(h, r.msg.account, r.msg.amount, r.msg.key)
       /\ Open(h, r, "service", 0)
    \/ /\ KeyTaken(r.msg.key)
       /\ Respond(r, StakesWithKey(r.msg.key))

\* Mutant: a balance that exists is changed by one UPDATE of available, which
\* leaves the version as it is.
CreateBalanceUnversioned(h, r) ==
    /\ IF balances[r.msg.account] = NoBalance
       THEN BeginSetBalance(h, r.msg.account, r.msg.amount) /\ Open(h, r, "service", 0)
       ELSE /\ balances' = [balances EXCEPT ![r.msg.account].available = r.msg.amount]
            /\ UNCHANGED <<terms, stakes, moved, credited, rewardTables, audit, work,
                           providerVars, apiVars>>

CreateBalance(h, r) ==
    /\ BeginSetBalance(h, r.msg.account, r.msg.amount)
    /\ Open(h, r, "service", 0)

\* WHERE customer_id = $ [AND state = $] ORDER BY created_at DESC LIMIT $.
OwnStakes(caller, states) ==
    {i \in StakeIds : stakes[i].state \in states /\ Owner[terms[i].account] = caller}
FirstPage(S, limit) == {i \in S : Cardinality({j \in S : j > i}) < limit}

\* The offset is 0 whatever the page token, and the limit DefaultPage when no
\* page size is given.
PageLimit(m) == IF m.page = 0 THEN DefaultPage ELSE m.page

ListStakes(h, r) ==
    \E states \in {StakeStates} \cup {{s} : s \in StakeStates} :
        Respond(r, FirstPage(OwnStakes(r.token.customer, states), PageLimit(r.msg)))

-----------------------------------------------------------------------------
(* Requests that name a stake: its row is read for its owner first         *)

\* Mutant: the owner of the row is not compared with the caller.
MayAddressAny(caller, i) == stakes[i] # NoStake

MayAddress(caller, i) ==
    stakes[i] # NoStake /\ AuthorizeCustomer(caller, terms[i].account)

\* MAX(reward_date) of no rows is NULL, which does not scan into a string:
\* the summary of a stake without a reward is an error.
GetRewardsSummary(r) ==
    /\ r.rpc = "GetRewardsSummary"
    /\ HasReward(r.msg.stake)
    /\ Respond(r, {r.msg.stake})

\* A row keeps its owner, so that the two reads of a summary, or of a
\* history, are as good as one.
ReadStake(r) ==
    \/ r.rpc \in {"GetStake", "ListRewardHistory"} /\ Respond(r, {r.msg.stake})
    \/ GetRewardsSummary(r)

BeginOwned(h, r) ==
    /\ r.rpc = "Unstake"
    /\ Open(h, r, "owned", r.msg.stake)
    /\ UNCHANGED vars

LookUp(h, r) ==
    /\ MayAddress(r.token.customer, r.msg.stake)
    /\ ReadStake(r) \/ BeginOwned(h, r)

CloseUnstake(h, S) == Close(h, S) /\ UNCHANGED <<vars, outcome>>

\* The service reads the row a second time.
UnstakeOwned(h) ==
    LET i == calls[h].stake IN
    /\ calls[h].stage = "owned"
    /\ \/ /\ BeginUnstake(h, i)
          /\ calls' = [calls EXCEPT ![h].stage = "service"]
          /\ Unheard
       \/ /\ stakes[i].state \in {"UNSTAKING", "WITHDRAWN"}
          /\ CloseUnstake(h, {i})
       \/ /\ DbMayFail \/ stakes[i].state \in {"PENDING", "DELEGATING", "FAILED"}
          /\ CloseUnstake(h, {})

-----------------------------------------------------------------------------
(* The steps of the services, and the code that the last one ends with     *)

\* domainErrorToGRPC of the error that can end the step the handler is at.
ErrorCodes(h) ==
    (IF DbMayFail THEN {"Internal"} ELSE {})
    \cup
    (CASE At(h, "getBalance") ->
            IF balances[work[h].account] = NoBalance THEN {"NotFound"}
            ELSE IF ~MayHold(balances[work[h].account], AmountOf(h))
                 THEN {"FailedPrecondition"} ELSE {}
       [] work[h].pc \in {"hold", "overwrite"} ->
            IF BalanceVersionMatches(work[h].account, work[h].bal) THEN {} ELSE {"Aborted"}
       [] work[h].pc \in {"saveDelegating", "saveUnstaking"} ->
            IF StakeVersionMatches(work[h].id, work[h].stake) THEN {} ELSE {"Aborted"}
       [] work[h].pc \in {"insert", "releasing", "unstake"} -> {"Internal"}
       [] OTHER -> {})

\* A publisher's error is dropped; an overwrite has succeeded when it wrote.
EndCodes(h) ==
    IF \/ work[h].pc \in {"publishCreated", "publishUnstake", "publishBalance"}
       \/ At(h, "overwrite") /\ balances' # balances
    THEN {"OK"} ELSE ErrorCodes(h)

Ended(h) == work'[h].pc = "idle"

Serve(h) ==
    /\ calls[h].stage = "service"
    /\ HandlerStep(h)
    /\ \/ ~Ended(h) /\ Unheard /\ UNCHANGED calls
       \/ /\ Ended(h)
          /\ \E code \in EndCodes(h) :
                /\ Close(h, IF code = "OK" /\ work[h].id # 0 THEN {work[h].id} ELSE {})
                /\ outcome' = IF calls[h].rpc = "CreateStake"
                              THEN [outcome EXCEPT ![work[h].id] = code] ELSE outcome

\* GetBalance and ListBalances change nothing and tell of no stake.
Handle(h, r) ==
    \/ r.rpc = "CreateStake" /\ CreateStake(h, r)
    \/ r.rpc = "CreateBalance" /\ CreateBalance(h, r)
    \/ r.rpc = "ListStakes" /\ ListStakes(h, r)
    \/ "stake" \in DOMAIN r.msg /\ LookUp(h, r)

\* Mutant: requests are let in while the server is draining.
ReceiveAnyTime(h) ==
    /\ phase # "stopped"
    /\ calls[h] = NoCall
    /\ \E r \in Accepted : Handle(h, r)

\* Interceptors and handlers see a request only while the server serves.
Receive(h) ==
    /\ phase = "serving"
    /\ calls[h] = NoCall
    /\ \E r \in Accepted : Handle(h, r)

Proceed(h) == UnstakeOwned(h) \/ Serve(h)

-----------------------------------------------------------------------------
(* The process                                                             *)

Quietly == Unheard /\ UNCHANGED calls

\* Once its context is cancelled every call of the poller fails.
Poll(p) == phase = "serving" /\ PollerStep(p) /\ Quietly

Drop(a) ==
    /\ IF At(a, "idle") THEN UNCHANGED work ELSE Return(a)
    /\ UNCHANGED <<terms, stakes, ledger, rewardTables, audit, providerVars>>

\* Mutant: the services run in a context of their own.
HangUpDetached(h) ==
    /\ calls[h] # NoCall
    /\ calls' = [calls EXCEPT ![h] = NoCall]
    /\ Unheard
    /\ UNCHANGED vars

\* A call whose context is cancelled ends without further effect.
HangUp(h) ==
    /\ calls[h] # NoCall
    /\ calls' = [calls EXCEPT ![h] = NoCall]
    /\ Unheard
    /\ Drop(h)

\* The client goes away or its deadline passes.
ClientLeaves(h) == "cancel" \in Faults /\ HangUp(h)

\* cancel() closes the gateway's connection: its calls are cut off.
GatewayCloses(h) == phase = "draining" /\ calls[h].via = "http" /\ HangUp(h)

\* SIGTERM: cancel(), then GracefulStop.
Signal ==
    /\ phase = "serving"
    /\ stops < MaxStops
    /\ phase' = "draining"
    /\ stops' = stops + 1
    /\ UNCHANGED <<vars, calls, exposed, outcome, replayed>>

PollerStops(p) ==
    /\ phase = "draining"
    /\ ~At(p, "idle")
    /\ Drop(p)
    /\ Quietly

\* Mutant: Stop instead of GracefulStop.
ExitAtOnce ==
    /\ phase = "draining"
    /\ calls' = [h \in Handlers |-> NoCall]
    /\ phase' = "stopped"
    /\ work' = [a \in Actors |-> Idle]
    /\ ProviderRestarts
    /\ UNCHANGED <<terms, stakes, ledger, rewardTables, audit, exposed, outcome, replayed, stops>>

\* GracefulStop waits for the calls and nothing waits for the poller.
Exit ==
    /\ phase = "draining"
    /\ \A h \in Handlers : calls[h] = NoCall
    /\ phase' = "stopped"
    /\ work' = [a \in Actors |-> Idle]
    /\ ProviderRestarts
    /\ UNCHANGED <<terms, stakes, ledger, rewardTables, audit, calls, exposed, outcome, replayed,
                   stops>>

Start ==
    /\ phase = "stopped"
    /\ phase' = "serving"
    /\ UNCHANGED <<vars, calls, exposed, outcome, replayed, stops>>

ProcessDies ==
    /\ Crash
    /\ calls' = [h \in Handlers |-> NoCall]
    /\ phase' = "serving"
    /\ UNCHANGED <<exposed, outcome, replayed, stops>>

World == Environment /\ Quietly

-----------------------------------------------------------------------------
ApiInit ==
    /\ Init
    /\ calls = [h \in Handlers |-> NoCall]
    /\ exposed = {}
    /\ replayed = {}
    /\ outcome = [i \in StakeIds |-> "none"]
    /\ phase = "serving"
    /\ stops = 0

ApiNext ==
    \/ \E h \in Handlers : Receive(h) \/ Proceed(h) \/ ClientLeaves(h) \/ GatewayCloses(h)
    \/ \E p \in Pollers : Poll(p) \/ PollerStops(p)
    \/ Signal \/ Exit \/ Start
    \/ ProcessDies
    \/ World

allVars == <<vars, apiVars>>

ApiSpec == ApiInit /\ [][ApiNext]_allVars

\* The server goes on with the calls it has, the loop goes round, and a
\* process told to stop stops as soon as it can.  Nothing starts it again.
FairApiSpec ==
    /\ ApiSpec
    /\ \A h \in Handlers : WF_allVars(Proceed(h)) /\ WF_allVars(GatewayCloses(h))
    /\ \A p \in Pollers : WF_allVars(Poll(p))
    /\ \A i \in StakeIds : WF_allVars(ProviderSettles(i) /\ Quietly)
    /\ WF_allVars(Exit)
=============================================================================
