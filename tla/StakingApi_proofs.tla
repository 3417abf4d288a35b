-------------------------- MODULE StakingApi_proofs --------------------------
(***************************************************************************)
(* The server adds nothing to StakingSystem and tells nobody of another's  *)
(* stake except by its key, for every instance in which requests may be    *)
(* cut off and the process restarted, which is what the server does when   *)
(* it is stopped; and what an answer to a CreateStake says of the tables   *)
(* is true and stays true.                                                 *)
(***************************************************************************)
EXTENDS ApiProperties, Provider_proofs

Owns(c, i) == Created(i) /\ Owner[terms[i].account] = c

\* A call that has been let in works on stakes of its caller, and its
\* goroutine is at work once it has reached a service.
CallOk(h) ==
    /\ calls[h] \in Calls \cup {NoCall}
    /\ ~At(h, "idle") <=> calls[h].stage = "service"
    /\ calls[h].stage = "owned" => /\ calls[h].stake \in StakeIds
                                   /\ Owns(calls[h].caller, calls[h].stake)
    /\ calls[h].stage = "service" /\ work[h].id # 0 => Owns(calls[h].caller, work[h].id)

\* All there is to be told of another customer's stake.
ByKey == {"CreateStake"} \X Customers \X StakeIds

ApiInv ==
    /\ TypeInv
    /\ calls = [g \in Handlers |-> calls[g]]
    /\ \A h \in Handlers : CallOk(h)
    /\ exposed \subseteq ByKey
    /\ outcome \in [StakeIds -> Codes \cup {"none"}]
    /\ replayed \subseteq StakeIds
    /\ phase \in {"serving", "draining", "stopped"}
    /\ stops \in 0 .. MaxStops

-----------------------------------------------------------------------------
(* What is admitted                                                        *)

\* A message that passes validation names accounts, keys and amounts of the
\* instance, never a missing field.
LEMMA AcceptedMessages ==
    ASSUME NEW r \in Accepted
    PROVE  /\ r.rpc = "CreateStake" => /\ r.msg.account \in Accounts
                                       /\ r.msg.amount \in Amounts
                                       /\ r.msg.key \in Keys
                                       /\ Owner[r.msg.account] = r.token.customer
           /\ r.rpc = "CreateBalance" => /\ r.msg.account \in Accounts
                                         /\ r.msg.amount \in Deposits
           /\ "stake" \in DOMAIN r.msg => r.msg.stake \in StakeIds
<1>1. PICK rpc \in DOMAIN Messages :
         r \in {[rpc |-> rpc, via |-> via, decodes |-> decodes, token |-> t, msg |-> m] :
                  via \in Transports, decodes \in BOOLEAN, t \in Tokens, m \in Messages[rpc]}
  BY DEF Accepted, Requests
<1>2. r.rpc = rpc /\ r.msg \in Messages[rpc]
  BY <1>1
<1>3. /\ \A f \in DOMAIN r.msg : f # "page" => r.msg[f] # Missing[f]
      /\ "account" \in DOMAIN r.msg => Owner[r.msg.account] = r.token.customer
  BY DEF Accepted, Admitted, ValidateRequest, AuthorizeCustomer
<1>4. CASE rpc = "CreateStake"
  <2>1. r.msg \in CreateStakeRequest
    BY <1>2, <1>4 DEF Messages
  <2>2. DOMAIN r.msg = {"account", "amount", "key"}
    BY <2>1 DEF CreateStakeRequest
  <2>3. /\ r.msg.account # NoAccount
        /\ r.msg.amount # 0
        /\ r.msg.key # NoKey
    BY <1>3, <2>2 DEF Missing
  <2>. QED BY <1>2, <1>3, <1>4, <2>1, <2>2, <2>3 DEF CreateStakeRequest, AnyAccount, AnyKey
<1>5. CASE rpc = "CreateBalance"
  <2>1. r.msg \in CreateBalanceRequest
    BY <1>2, <1>5 DEF Messages
  <2>2. DOMAIN r.msg = {"account", "amount"}
    BY <2>1 DEF CreateBalanceRequest
  <2>3. r.msg.account # NoAccount /\ r.msg.amount # 0
    BY <1>3, <2>2 DEF Missing
  <2>. QED BY <1>2, <1>5, <2>1, <2>2, <2>3 DEF CreateBalanceRequest, AnyAccount
<1>6. ASSUME "stake" \in DOMAIN r.msg
      PROVE  r.msg.stake \in StakeIds
  <2>1. r.msg.stake # 0
    BY <1>3, <1>6 DEF Missing
  <2>2. rpc \notin {"CreateStake", "ListStakes", "CreateBalance", "GetBalance", "ListBalances"}
    <3>1. \A m \in CreateStakeRequest \cup ListStakesRequest \cup CreateBalanceRequest
                 \cup GetBalanceRequest \cup ListBalancesRequest : "stake" \notin DOMAIN m
      BY DEF CreateStakeRequest, ListStakesRequest, CreateBalanceRequest,
             GetBalanceRequest, ListBalancesRequest
    <3>2. /\ Messages["CreateStake"] = CreateStakeRequest
          /\ Messages["ListStakes"] = ListStakesRequest
          /\ Messages["CreateBalance"] = CreateBalanceRequest
          /\ Messages["GetBalance"] = GetBalanceRequest
          /\ Messages["ListBalances"] = ListBalancesRequest
      BY DEF Messages
    <3>. QED BY <1>2, <1>6, <3>1, <3>2
  <2>3. r.msg.stake \in AnyStake
    <3>1. rpc \in {"GetStake", "Unstake", "GetRewardsSummary", "ListRewardHistory"}
      BY <2>2 DEF Messages
    <3>2. r.msg \in GetStakeRequest \cup UnstakeRequest
                      \cup GetRewardsSummaryRequest \cup ListRewardHistoryRequest
      BY <1>2, <3>1 DEF Messages
    <3>. QED BY <3>2 DEF GetStakeRequest, UnstakeRequest, GetRewardsSummaryRequest,
                         ListRewardHistoryRequest
  <2>. QED BY <2>1, <2>3 DEF AnyStake
<1>. QED BY <1>2, <1>4, <1>5, <1>6

-----------------------------------------------------------------------------
(* Every step of the server is one of the system                           *)

\* A cut-off call is an abandoned goroutine, or nothing.
LEMMA DropMapped ==
    ASSUME NEW a \in Actors, "cancel" \in Faults, Drop(a)
    PROVE  UNCHANGED vars \/ Next
<1>1. CASE At(a, "idle")
  BY <1>1 DEF Drop, vars
<1>2. CASE ~At(a, "idle")
  <2>1. Abandon(a)
    BY <1>2 DEF Drop, Abandon
  <2>. QED BY <2>1 DEF Next
<1>. QED BY <1>1, <1>2

\* The first step of a call: a request of a client, or a read.
LEMMA HandleMapped ==
    ASSUME NEW h \in Handlers, NEW r \in Accepted, Handle(h, r)
    PROVE  UNCHANGED vars \/ Next
<1>1. CASE r.rpc = "CreateStake" /\ CreateStake(h, r)
  <2>1. CASE BeginCreateStake(h, r.msg.account, r.msg.amount, r.msg.key)
    <3>1. Request(h)
      BY <1>1, <2>1, AcceptedMessages DEF Request
    <3>. QED BY <3>1 DEF Next
  <2>2. CASE Respond(r, StakesWithKey(r.msg.key))
    BY <2>2 DEF Respond
  <2>. QED BY <1>1, <2>1, <2>2 DEF CreateStake
<1>2. CASE r.rpc = "CreateBalance" /\ CreateBalance(h, r)
  <2>1. Request(h)
    BY <1>2, AcceptedMessages DEF Request, CreateBalance
  <2>. QED BY <2>1 DEF Next
<1>3. CASE ListStakes(h, r)
  BY <1>3 DEF ListStakes, Respond
<1>4. CASE LookUp(h, r)
  BY <1>4 DEF LookUp, ReadStake, GetRewardsSummary, BeginOwned, Respond
<1>. QED BY <1>1, <1>2, <1>3, <1>4 DEF Handle

\* A call goes on as its goroutine does.
LEMMA ProceedMapped ==
    ASSUME ApiInv, NEW h \in Handlers, Proceed(h)
    PROVE  UNCHANGED vars \/ Next
<1>1. CASE UnstakeOwned(h)
  <2>1. calls[h].stake \in StakeIds
    BY <1>1 DEF UnstakeOwned, ApiInv, CallOk
  <2>2. CASE BeginUnstake(h, calls[h].stake)
    <3>1. Request(h)
      BY <2>1, <2>2 DEF Request
    <3>. QED BY <3>1 DEF Next
  <2>3. ASSUME NEW S, CloseUnstake(h, S)
        PROVE  UNCHANGED vars
    BY <2>3 DEF CloseUnstake
  <2>. QED BY <1>1, <2>2, <2>3 DEF UnstakeOwned
<1>2. CASE Serve(h)
  BY <1>2 DEF Serve, Next
<1>. QED BY <1>1, <1>2 DEF Proceed

\* And the stop of the process is a crash that comes when no call is left.
LEMMA StepMapped ==
    ASSUME ApiInv, {"cancel", "crash"} \subseteq Faults, [ApiNext]_allVars
    PROVE  UNCHANGED vars \/ Next
<1>. Handlers \subseteq Actors /\ Pollers \subseteq Actors
  BY DEF Actors
<1>1. ASSUME NEW h \in Handlers, Receive(h)
      PROVE  UNCHANGED vars \/ Next
  BY <1>1, HandleMapped DEF Receive
<1>2. ASSUME NEW h \in Handlers, ClientLeaves(h) \/ GatewayCloses(h)
      PROVE  UNCHANGED vars \/ Next
  BY <1>2, DropMapped DEF ClientLeaves, GatewayCloses, HangUp
<1>3. ASSUME NEW p \in Pollers, Poll(p)
      PROVE  Next
  BY <1>3 DEF Poll, Next
<1>4. ASSUME NEW p \in Pollers, PollerStops(p)
      PROVE  UNCHANGED vars \/ Next
  BY <1>4, DropMapped DEF PollerStops
<1>5. CASE Signal \/ Start
  BY <1>5 DEF Signal, Start
<1>6. CASE Exit \/ ProcessDies
  <2>1. Crash
    BY <1>6 DEF Exit, ProcessDies, Crash
  <2>. QED BY <2>1 DEF Next
<1>7. CASE World
  BY <1>7 DEF World, Next
<1>8. CASE UNCHANGED allVars
  BY <1>8 DEF allVars
<1>. QED
  BY <1>1, <1>2, <1>3, <1>4, <1>5, <1>6, <1>7, <1>8, ProceedMapped DEF ApiNext

-----------------------------------------------------------------------------
(* Whose stakes                                                            *)

\* A call that does not change stays what it is.
LEMMA CallStays ==
    ASSUME ApiInv, KeptTerms, NEW h \in Handlers,
           calls'[h] = calls[h], work'[h].id \in {work[h].id, 0},
           At(h, "idle")' = At(h, "idle")
    PROVE  CallOk(h)'
<1>1. CallOk(h) /\ h \in Actors
  BY DEF ApiInv, Actors
<1>2. work[h].id \in StakeIds \cup {0}
  BY <1>1, WorkspaceFields DEF ApiInv, TypeInv, TypeOK
<1>3. \A i \in StakeIds : Created(i) => terms'[i] = terms[i]
  BY DEF KeptTerms
<1>4. \A i \in StakeIds : \A c : Owns(c, i) => Owns(c, i)'
  BY <1>3 DEF Owns, Created
<1>5. /\ (calls[h] \in Calls \cup {NoCall})'
      /\ (~At(h, "idle") <=> calls[h].stage = "service")'
  BY <1>1 DEF CallOk, Calls, Rpcs
<1>6. /\ calls'[h].stage = "owned" => /\ calls'[h].stake \in StakeIds
                                      /\ Owns(calls[h].caller, calls[h].stake)'
      /\ calls'[h].stage = "service" /\ work'[h].id # 0
             => Owns(calls[h].caller, work[h].id)'
  BY <1>1, <1>2, <1>3 DEF CallOk, Owns, Created
<1>. QED BY <1>5, <1>6 DEF CallOk

\* One that is over makes no claim.
LEMMA EndedCall ==
    ASSUME NEW h \in Handlers, calls'[h] = NoCall, At(h, "idle")'
    PROVE  CallOk(h)'
  BY DEF CallOk, NoCall

\* A step of handler h is about its own call.
LEMMA HandlerCalls ==
    ASSUME ApiInv, KeptTerms, NEW h \in Handlers, NEW c,
           calls' = [calls EXCEPT ![h] = c] \/ calls' = calls,
           \A g \in Handlers : g # h => work'[g] = work[g],
           CallOk(h)'
    PROVE  calls' = [g \in Handlers |-> calls'[g]] /\ \A g \in Handlers : CallOk(g)'
<1>1. calls = [g \in Handlers |-> calls[g]]
  BY DEF ApiInv
<1>2. ASSUME NEW g \in Handlers, g # h
      PROVE  CallOk(g)'
  <2>1. calls'[g] = calls[g] /\ work'[g] = work[g]
    BY <1>1, <1>2
  <2>. QED BY <2>1, CallStays DEF At
<1>. QED BY <1>1, <1>2

\* To be told of stakes of one's own exposes nothing, and of any by their key
\* no more than ByKey.
LEMMA ToldOf ==
    ASSUME ApiInv, NEW rpc, NEW c \in Customers, NEW S \in SUBSET StakeIds,
           rpc = "CreateStake" \/ \A i \in S : Owner[terms[i].account] = c,
           Tell(rpc, c, S)
    PROVE  exposed' \subseteq ByKey
<1>1. \A i \in S : Owner[terms[i].account] # c => <<rpc, c, i>> \in ByKey
  BY DEF ByKey
<1>. QED BY <1>1 DEF Tell, ApiInv

\* A step of a request that has begun is about one stake, or is the last.
LEMMA HandlerStepKeeps ==
    ASSUME TypeInv, NEW h \in Handlers, HandlerStep(h)
    PROVE  /\ terms' = terms
           /\ work'[h].id \in {work[h].id, 0}
           /\ \A g \in Handlers : g # h => work'[g] = work[g]
<1>. h \in Actors /\ Handlers \subseteq Actors
  BY DEF Actors
<1>. DEFINE Stays(w) == w.id \in {work[h].id, 0}
<1>1. work \in Works /\ work[h] \in Workspace
  BY DEF TypeInv, TypeOK, Works
<1>2. Stays(Idle)
  BY DEF Idle
<1>3. /\ \A pc : Stays([work[h] EXCEPT !.pc = pc])
      /\ \A b, pc : Stays([work[h] EXCEPT !.bal = b, !.pc = pc])
      /\ \A s, pc : Stays([work[h] EXCEPT !.stake = s, !.pc = pc])
      /\ \A s, b, pc : Stays([work[h] EXCEPT !.stake = s, !.bal = b, !.pc = pc])
  BY <1>1 DEF Workspace
<1>. DEFINE Enters(w) == Become(h, w) /\ Stays(w)
<1>4. /\ Return(h) => \E w : Enters(w)
      /\ \A pc : Goto(h, pc) => \E w : Enters(w)
      /\ \A b, pc : Adjust(h, b, pc) => \E w : Enters(w)
      /\ \A s, pc : Become(h, [work[h] EXCEPT !.stake = s, !.pc = pc]) => \E w : Enters(w)
      /\ \A s, b, pc : Become(h, [work[h] EXCEPT !.stake = s, !.bal = b, !.pc = pc])
                         => \E w : Enters(w)
  <2>. HIDE DEF Stays
  <2>. QED BY <1>2, <1>3 DEF Return, Goto, Adjust
<1>. HIDE DEF Enters
<1>5. terms' = terms /\ \E w : Enters(w)
  <2>1. CASE FetchBalance(h) \/ SaveHold(h) \/ InsertStake(h)
    BY <1>4, <2>1 DEF FetchBalance, SaveHold, InsertStake
  <2>2. CASE CallStake(h)
    BY <1>4, <2>2 DEF CallStake
  <2>3. CASE CallUnstake(h)
    BY <1>4, <2>3 DEF CallUnstake
  <2>4. CASE SaveFailing(h) \/ SaveReleasing(h) \/ SaveDelegating(h) \/ PublishCreated(h)
    BY <1>4, <2>4 DEF SaveFailing, SaveReleasing, SaveDelegating, PublishCreated
  <2>5. CASE \/ SaveUnstaking(h) \/ PublishUnstakeRequested(h) \/ UpsertBalance(h)
             \/ PublishBalanceCreated(h) \/ OverwriteBalance(h)
    BY <1>4, <2>5 DEF SaveUnstaking, PublishUnstakeRequested, UpsertBalance,
                      PublishBalanceCreated, OverwriteBalance
  <2>. QED BY <2>1, <2>2, <2>3, <2>4, <2>5 DEF HandlerStep
<1>6. PICK w : Become(h, w) /\ Stays(w)
  BY <1>5 DEF Enters
<1>7. work'[h] = w /\ \A g \in Handlers : g # h => work'[g] = work[g]
  BY <1>1, <1>6 DEF Become, Works
<1>. QED BY <1>5, <1>6, <1>7

-----------------------------------------------------------------------------
(* Every step of the server keeps ApiInv                                   *)

Heard == /\ exposed' \subseteq ByKey
         /\ outcome' \in [StakeIds -> Codes \cup {"none"}]
         /\ replayed' \subseteq StakeIds
         /\ phase' \in {"serving", "draining", "stopped"}
         /\ stops' \in 0 .. MaxStops
CallsKept == calls' = [g \in Handlers |-> calls'[g]] /\ \A g \in Handlers : CallOk(g)'
Kept == KeptTerms /\ CallsKept /\ Heard

\* Who is let in is a customer, whose call is one of the nine methods.
LEMMA AcceptedCallers ==
    ASSUME NEW r \in Accepted
    PROVE  r.rpc \in Rpcs /\ r.via \in Transports /\ r.token.customer \in Customers
<1>1. PICK rpc \in DOMAIN Messages :
         r \in {[rpc |-> rpc, via |-> via, decodes |-> decodes, token |-> t, msg |-> m] :
                  via \in Transports, decodes \in BOOLEAN, t \in Tokens, m \in Messages[rpc]}
  BY DEF Accepted, Requests
<1>2. r.rpc = rpc /\ r.via \in Transports /\ r.token \in Tokens
  BY <1>1
<1>3. r.token.customer # Nobody
  BY DEF Accepted, Admitted, ValidateToken
<1>. QED BY <1>2, <1>3 DEF Tokens, Rpcs

\* A call is opened for its caller.
LEMMA OpenedCall ==
    ASSUME ApiInv, KeptTerms, NEW h \in Handlers, NEW r \in Accepted,
           NEW stage \in {"owned", "service"}, NEW i \in StakeIds \cup {0},
           Open(h, r, stage, i),
           ~At(h, "idle")' <=> stage = "service",
           stage = "owned" => i \in StakeIds /\ Owns(r.token.customer, i)',
           stage = "service" /\ work'[h].id # 0 => Owns(r.token.customer, work[h].id)',
           \A g \in Handlers : g # h => work'[g] = work[g]
    PROVE  CallsKept
<1>1. calls = [g \in Handlers |-> calls[g]]
  BY DEF ApiInv
<1>2. DEFINE c == [rpc |-> r.rpc, caller |-> r.token.customer, via |-> r.via,
                   stage |-> stage, stake |-> i]
<1>3. calls' = [calls EXCEPT ![h] = c]
  BY DEF Open
<1>4. /\ calls'[h] \in Calls
      /\ calls'[h].caller = r.token.customer
      /\ calls'[h].stage = stage
      /\ calls'[h].stake = i
  BY <1>1, <1>3, AcceptedCallers DEF Calls
<1>5. CallOk(h)'
  <2>1. (calls[h] \in Calls \cup {NoCall})'
    BY <1>4 DEF Calls, Rpcs
  <2>2. (~At(h, "idle") <=> calls[h].stage = "service")'
    BY <1>4
  <2>3. /\ (calls[h].stage = "owned")' => i \in StakeIds /\ Owns(r.token.customer, i)'
        /\ (calls[h].stage = "service" /\ work[h].id # 0)'
              => Owns(r.token.customer, work[h].id)'
    BY <1>4
  <2>. QED BY <1>4, <2>1, <2>2, <2>3 DEF CallOk, Owns
<1>. QED BY <1>3, <1>5, HandlerCalls DEF CallsKept

\* A request that agrees no terms leaves those there are.
LEMMA SameTerms ==
    ASSUME terms' = terms
    PROVE  KeptTerms
  BY DEF KeptTerms

\* A request that is answered at once leaves the calls alone.
LEMMA AnsweredCall ==
    ASSUME ApiInv, NEW r, r.token.customer \in Customers, NEW S \in SUBSET StakeIds,
           r.rpc = "CreateStake" \/ \A i \in S : Owner[terms[i].account] = r.token.customer,
           Respond(r, S)
    PROVE  Kept
<1>1. exposed' \subseteq ByKey /\ replayed' \subseteq StakeIds
  BY ToldOf DEF Respond, ApiInv
<1>2. KeptTerms /\ UNCHANGED <<terms, work, calls, outcome, phase, stops>>
  BY SameTerms DEF Respond, vars
<1>3. CallsKept
  <2>1. ASSUME NEW g \in Handlers
        PROVE  CallOk(g)'
    BY <1>2, CallStays DEF At
  <2>. QED BY <1>2, <2>1 DEF CallsKept, ApiInv
<1>. QED BY <1>1, <1>2, <1>3 DEF Kept, Heard, ApiInv

\* CreateStake agrees the terms of a new stake, or tells of the stored one.
LEMMA CreateStakeKeeps ==
    ASSUME ApiInv, NEW h \in Handlers, NEW r \in Accepted, r.rpc = "CreateStake",
           CreateStake(h, r)
    PROVE  Kept
<1>1. r.msg.account \in Accounts /\ Owner[r.msg.account] = r.token.customer
  BY AcceptedMessages
<1>2. CASE BeginCreateStake(h, r.msg.account, r.msg.amount, r.msg.key)
           /\ Open(h, r, "service", 0)
  <2>1. PICK i \in StakeIds :
           /\ ~Created(i)
           /\ terms' = [terms EXCEPT ![i] = [account |-> r.msg.account,
                                             amount |-> r.msg.amount, key |-> r.msg.key]]
           /\ Become(h, [Idle EXCEPT !.pc = "getBalance", !.id = i,
                                     !.account = r.msg.account, !.stake = NewStake])
    BY <1>2 DEF BeginCreateStake
  <2>2. /\ DOMAIN terms = StakeIds
        /\ work \in Works /\ h \in Actors /\ Handlers \subseteq Actors
    BY DEF ApiInv, TypeInv, TypeOK, Works, Actors
  <2>3. /\ terms'[i].account = r.msg.account /\ terms'[i].key = r.msg.key
        /\ \A j \in StakeIds : j # i => terms'[j] = terms[j]
    BY <2>1, <2>2
  <2>4. KeptTerms
    BY <2>1, <2>3 DEF KeptTerms
  <2>5. /\ work'[h].pc = "getBalance" /\ work'[h].id = i
        /\ \A g \in Handlers : g # h => work'[g] = work[g]
    BY <2>1, <2>2 DEF Become, Works, Idle
  <2>6. Created(i)'
    <3>1. r.msg.amount # 0 /\ terms'[i].amount = r.msg.amount
      BY <2>1, <2>2, AcceptedMessages, StoreAssumption
    <3>. QED BY <3>1 DEF Created, NoTerms
  <2>7. (~At(h, "idle"))' /\ Owns(r.token.customer, work[h].id)'
    BY <1>1, <2>3, <2>5, <2>6 DEF Owns, At
  <2>8. CallsKept
    BY <1>2, <2>4, <2>5, <2>7, OpenedCall
  <2>. QED BY <1>2, <2>4, <2>8 DEF Kept, Heard, Open, Unheard, ApiInv
<1>3. CASE Respond(r, StakesWithKey(r.msg.key))
  <2>1. StakesWithKey(r.msg.key) \in SUBSET StakeIds
    BY DEF StakesWithKey
  <2>. QED BY <1>3, <2>1, AcceptedCallers, AnsweredCall
<1>. QED BY <1>2, <1>3 DEF CreateStake

\* The other methods are answered at once, about stakes of their caller, or
\* open a call that works on none yet, or on one of the caller's.
LEMMA HandleKeeps ==
    ASSUME ApiInv, NEW h \in Handlers, calls[h] = NoCall, NEW r \in Accepted, Handle(h, r)
    PROVE  Kept
<1>. h \in Actors /\ Handlers \subseteq Actors /\ work \in Works
  BY DEF Actors, ApiInv, TypeInv, TypeOK, Works
<1>0. At(h, "idle")
  BY DEF ApiInv, CallOk, NoCall
<1>1. CASE r.rpc = "CreateStake" /\ CreateStake(h, r)
  BY <1>1, CreateStakeKeeps
<1>2. CASE r.rpc = "CreateBalance" /\ CreateBalance(h, r)
  <2>1. /\ work'[h].id = 0 /\ work'[h].pc \in {"upsert", "overwrite"}
        /\ \A g \in Handlers : g # h => work'[g] = work[g]
        /\ terms' = terms
    <3>. DEFINE Begun(pc, b) == [Idle EXCEPT !.pc = pc, !.account = r.msg.account, !.bal = b]
    <3>1. \A pc, b : Begun(pc, b).id = 0 /\ Begun(pc, b).pc = pc
      BY DEF Idle
    <3>2. \/ Become(h, Begun("upsert", [NewBalance EXCEPT !.available = r.msg.amount]))
          \/ Become(h, Begun("overwrite", NextVersion([balances[r.msg.account] EXCEPT
                                                          !.available = r.msg.amount])))
      BY <1>2 DEF CreateBalance, BeginSetBalance
    <3>. HIDE DEF Begun
    <3>3. \E pc \in {"upsert", "overwrite"} : \E b : Become(h, Begun(pc, b))
      BY <3>2
    <3>. QED BY <1>2, <3>1, <3>3 DEF CreateBalance, BeginSetBalance, Become, Works
  <2>2. Open(h, r, "service", 0)
    BY <1>2 DEF CreateBalance
  <2>3. KeptTerms /\ (~At(h, "idle"))'
    BY <2>1, SameTerms DEF At
  <2>4. CallsKept
    BY <2>1, <2>2, <2>3, OpenedCall
  <2>. QED BY <2>2, <2>3, <2>4 DEF Kept, Heard, Open, Unheard, ApiInv
<1>3. CASE ListStakes(h, r)
  <2>1. PICK states \in {StakeStates} \cup {{s} : s \in StakeStates} :
           Respond(r, FirstPage(OwnStakes(r.token.customer, states), PageLimit(r.msg)))
    BY <1>3 DEF ListStakes
  <2>2. ASSUME NEW i \in FirstPage(OwnStakes(r.token.customer, states), PageLimit(r.msg))
        PROVE  i \in StakeIds /\ Owner[terms[i].account] = r.token.customer
    BY DEF FirstPage, OwnStakes
  <2>. QED BY <2>1, <2>2, AcceptedCallers, AnsweredCall
<1>4. CASE "stake" \in DOMAIN r.msg /\ LookUp(h, r)
  <2>1. /\ r.msg.stake \in StakeIds
        /\ Owns(r.token.customer, r.msg.stake)
    BY <1>4, AcceptedMessages
       DEF LookUp, MayAddress, AuthorizeCustomer, Owns, ApiInv, TypeInv, Rooted
  <2>2. CASE ReadStake(r)
    <3>1. Respond(r, {r.msg.stake})
      BY <2>2 DEF ReadStake, GetRewardsSummary
    <3>. QED BY <2>1, <3>1, AcceptedCallers, AnsweredCall DEF Owns
  <2>3. CASE BeginOwned(h, r)
    <3>1. Open(h, r, "owned", r.msg.stake) /\ UNCHANGED <<terms, work>>
      BY <2>3 DEF BeginOwned, vars
    <3>2. KeptTerms /\ At(h, "idle")' /\ Owns(r.token.customer, r.msg.stake)'
      BY <1>0, <2>1, <3>1, SameTerms DEF At, Owns, Created
    <3>3. CallsKept
      BY <2>1, <3>1, <3>2, OpenedCall
    <3>. QED BY <3>1, <3>2, <3>3 DEF Kept, Heard, Open, Unheard, ApiInv
  <2>. QED BY <1>4, <2>2, <2>3 DEF LookUp
<1>. QED BY <1>1, <1>2, <1>3, <1>4 DEF Handle

\* A call that is over leaves the others alone.
LEMMA ClosedCall ==
    ASSUME ApiInv, KeptTerms, NEW h \in Handlers,
           calls' = [calls EXCEPT ![h] = NoCall], At(h, "idle")',
           \A g \in Handlers : g # h => work'[g] = work[g]
    PROVE  CallsKept
<1>1. calls'[h] = NoCall
  BY DEF ApiInv
<1>2. CallOk(h)'
  BY <1>1, EndedCall
<1>. QED BY <1>2, HandlerCalls DEF CallsKept

\* Unstake, after the row was read for its owner.
LEMMA UnstakeKeeps ==
    ASSUME ApiInv, NEW h \in Handlers, UnstakeOwned(h)
    PROVE  Kept
<1>. h \in Actors /\ Handlers \subseteq Actors /\ work \in Works
  BY DEF Actors, ApiInv, TypeInv, TypeOK, Works
<1>. DEFINE i == calls[h].stake
<1>1. /\ calls[h].stage = "owned" /\ At(h, "idle") /\ CallOk(h)
      /\ i \in StakeIds /\ Owns(calls[h].caller, i)
      /\ calls[h] \in Calls
  BY DEF UnstakeOwned, ApiInv, CallOk, NoCall
<1>2. CASE BeginUnstake(h, i) /\ calls' = [calls EXCEPT ![h].stage = "service"] /\ Unheard
  <2>1. /\ work'[h].id = i /\ work'[h].pc = "unstake" /\ terms' = terms
        /\ \A g \in Handlers : g # h => work'[g] = work[g]
    BY <1>2 DEF BeginUnstake, Become, Works, Idle
  <2>2. KeptTerms
    BY <2>1, SameTerms
  <2>3. /\ calls'[h] = [calls[h] EXCEPT !.stage = "service"]
        /\ calls' = [calls EXCEPT ![h] = calls'[h]]
    BY <1>2 DEF ApiInv
  <2>4. /\ calls'[h] \in Calls
        /\ calls'[h].stage = "service"
        /\ calls'[h].caller = calls[h].caller
    BY <1>1, <2>3 DEF Calls
  <2>5. CallOk(h)'
    <3>1. (calls[h] \in Calls \cup {NoCall})'
      BY <2>4 DEF Calls, Rpcs
    <3>2. (~At(h, "idle") <=> calls[h].stage = "service")'
      BY <2>1, <2>4 DEF At
    <3>3. Owns(calls[h].caller, work[h].id)'
      BY <1>1, <2>1, <2>4 DEF Owns, Created
    <3>. QED BY <2>4, <3>1, <3>2, <3>3 DEF CallOk
  <2>6. CallsKept
    BY <2>1, <2>2, <2>3, <2>5, HandlerCalls DEF CallsKept
  <2>. QED BY <1>2, <2>2, <2>6 DEF Kept, Heard, Unheard, ApiInv
<1>3. ASSUME NEW S \in {{i}, {}}, CloseUnstake(h, S)
      PROVE  Kept
  <2>1. /\ calls' = [calls EXCEPT ![h] = NoCall] /\ Tell(calls[h].rpc, calls[h].caller, S)
        /\ UNCHANGED <<terms, work, outcome, replayed, phase, stops>>
    BY <1>3 DEF CloseUnstake, Close, vars
  <2>2. exposed' \subseteq ByKey
    <3>1. calls[h].caller \in Customers /\ S \in SUBSET StakeIds
      BY <1>1 DEF Calls
    <3>. QED BY <1>1, <2>1, <3>1, ToldOf DEF Owns
  <2>3. KeptTerms /\ At(h, "idle")'
    BY <1>1, <2>1, SameTerms DEF At
  <2>4. CallsKept
    BY <2>1, <2>3, ClosedCall
  <2>. QED BY <2>1, <2>2, <2>3, <2>4 DEF Kept, Heard, ApiInv
<1>. QED BY <1>2, <1>3 DEF UnstakeOwned

\* A call ends with one of the five codes.
LEMMA EndsWithCode ==
    ASSUME NEW h \in Handlers
    PROVE  EndCodes(h) \subseteq Codes
  BY DEF EndCodes, ErrorCodes, Codes

\* A step of a service, the last of its call or not.
LEMMA ServeKeeps ==
    ASSUME ApiInv, NEW h \in Handlers, Serve(h)
    PROVE  Kept
<1>1. /\ calls[h].stage = "service" /\ HandlerStep(h)
      /\ CallOk(h) /\ calls[h] \in Calls
  BY DEF Serve, ApiInv, CallOk, NoCall
<1>2. /\ terms' = terms /\ KeptTerms
      /\ work'[h].id \in {work[h].id, 0}
      /\ \A g \in Handlers : g # h => work'[g] = work[g]
  BY <1>1, HandlerStepKeeps, SameTerms DEF ApiInv
<1>3. CASE ~Ended(h) /\ Unheard /\ UNCHANGED calls
  <2>1. At(h, "idle")' = At(h, "idle")
    BY <1>1, <1>3 DEF At, Ended, CallOk
  <2>2. CallOk(h)'
    BY <1>2, <1>3, <2>1, CallStays
  <2>3. CallsKept
    BY <1>2, <1>3, <2>2, HandlerCalls DEF CallsKept
  <2>. QED BY <1>2, <1>3, <2>3 DEF Kept, Heard, Unheard, ApiInv
<1>4. ASSUME Ended(h), NEW code \in EndCodes(h),
             Close(h, IF code = "OK" /\ work[h].id # 0 THEN {work[h].id} ELSE {}),
             outcome' = IF calls[h].rpc = "CreateStake"
                        THEN [outcome EXCEPT ![work[h].id] = code] ELSE outcome
      PROVE  Kept
  <2>1. calls' = [calls EXCEPT ![h] = NoCall] /\ UNCHANGED <<replayed, phase, stops>>
    BY <1>4 DEF Close
  <2>2. exposed' \subseteq ByKey
    <3>1. work[h].id # 0 => Owner[terms[work[h].id].account] = calls[h].caller
      BY <1>1 DEF CallOk, Owns
    <3>2. work[h].id \in StakeIds \cup {0} /\ calls[h].caller \in Customers
      BY <1>1, WorkspaceFields DEF ApiInv, TypeInv, TypeOK, Calls, Actors
    <3>. DEFINE S == IF code = "OK" /\ work[h].id # 0 THEN {work[h].id} ELSE {}
    <3>3. S \in SUBSET StakeIds /\ \A i \in S : Owner[terms[i].account] = calls[h].caller
      BY <3>1, <3>2
    <3>4. Tell(calls[h].rpc, calls[h].caller, S)
      BY <1>4 DEF Close
    <3>. HIDE DEF S
    <3>. QED BY <3>2, <3>3, <3>4, ToldOf
  <2>3. outcome' \in [StakeIds -> Codes \cup {"none"}]
    BY <1>4, EndsWithCode DEF ApiInv
  <2>4. At(h, "idle")'
    BY <1>4 DEF At, Ended
  <2>5. CallsKept
    BY <1>2, <2>1, <2>4, ClosedCall
  <2>. QED BY <1>2, <2>1, <2>2, <2>3, <2>5 DEF Kept, Heard, ApiInv
<1>. QED BY <1>3, <1>4 DEF Serve

\* A step of the poller is about its own memory and agrees no terms.
LEMMA PollerStepKeeps ==
    ASSUME NEW p \in Pollers, PollerStep(p)
    PROVE  terms' = terms /\ \E w : Become(p, w)
<1>1. /\ \A state, next : List(p, state, next) => \E w : Become(p, w)
      /\ \A i, next : DropStake(p, i, next) => \E w : Become(p, w)
      /\ \A next : Continue(p, next) => \E w : Become(p, w)
      /\ \A i, s, pc : Reconcile(p, i, s, pc) => \E w : Become(p, w)
      /\ \A pc : Goto(p, pc) => \E w : Become(p, w)
      /\ \A b, pc : Adjust(p, b, pc) => \E w : Become(p, w)
      /\ Return(p) => \E w : Become(p, w)
  BY DEF List, DropStake, Continue, Reconcile, Goto, Adjust, Return
<1>2. NextEntry(p) => \E w : Become(p, w)
  BY <1>1 DEF NextEntry
<1>3. CASE ListDelegating(p) \/ CheckDelegating(p)
  BY <1>1, <1>3 DEF ListDelegating, CheckDelegating
<1>4. CASE SaveActive(p) \/ FetchToConfirm(p) \/ SaveConfirm(p) \/ PublishActivated(p)
  BY <1>1, <1>4 DEF SaveActive, FetchToConfirm, SaveConfirm, PublishActivated
<1>5. CASE SaveFailed(p) \/ FetchToRelease(p) \/ SaveRelease(p) \/ PublishFailed(p)
  BY <1>1, <1>5 DEF SaveFailed, FetchToRelease, SaveRelease, PublishFailed
<1>6. CASE ListUnstaking(p) \/ CheckUnstaking(p)
  BY <1>1, <1>6 DEF ListUnstaking, CheckUnstaking
<1>7. CASE SaveWithdrawn(p) \/ FetchToComplete(p) \/ SaveComplete(p) \/ PublishWithdrawn(p)
  BY <1>1, <1>7 DEF SaveWithdrawn, FetchToComplete, SaveComplete, PublishWithdrawn
<1>8. CASE ListActive(p) \/ FetchRewards(p) \/ EndPoll(p)
  BY <1>1, <1>8 DEF ListActive, FetchRewards, EndPoll
<1>9. CASE ReadTotal(p) \/ CreateReward(p) \/ FetchToReward(p) \/ SaveReward(p)
  BY <1>1, <1>2, <1>9 DEF ReadTotal, CreateReward, FetchToReward, SaveReward
<1>. QED BY <1>3, <1>4, <1>5, <1>6, <1>7, <1>8, <1>9 DEF PollerStep

\* What the handlers have no part in leaves their calls as they are.
LEMMA QuietKeeps ==
    ASSUME ApiInv, terms' = terms, UNCHANGED apiVars,
           \A g \in Handlers : work'[g] = work[g]
    PROVE  Kept
<1>1. UNCHANGED <<calls, exposed, outcome, replayed, phase, stops>>
  BY DEF apiVars
<1>2. KeptTerms
  BY SameTerms
<1>3. ASSUME NEW g \in Handlers
      PROVE  CallOk(g)'
  BY <1>1, <1>2, CallStays DEF At
<1>. QED BY <1>1, <1>2, <1>3 DEF Kept, Heard, CallsKept, ApiInv

\* A call is cut off, with its goroutine.
LEMMA HangUpKeeps ==
    ASSUME ApiInv, NEW h \in Handlers, HangUp(h)
    PROVE  Kept
<1>. h \in Actors /\ Handlers \subseteq Actors /\ work \in Works
  BY DEF Actors, ApiInv, TypeInv, TypeOK, Works
<1>1. /\ calls' = [calls EXCEPT ![h] = NoCall] /\ Unheard /\ terms' = terms
      /\ IF At(h, "idle") THEN UNCHANGED work ELSE Become(h, Idle)
  BY DEF HangUp, Drop, Return
<1>2. At(h, "idle")' /\ \A g \in Handlers : g # h => work'[g] = work[g]
  BY <1>1 DEF At, Become, Works, Idle
<1>3. KeptTerms /\ CallsKept
  BY <1>1, <1>2, SameTerms, ClosedCall
<1>. QED BY <1>1, <1>3 DEF Kept, Heard, Unheard, ApiInv

\* The process ends: no call and no goroutine is left.
LEMMA StopKeeps ==
    ASSUME ApiInv, terms' = terms, \A h \in Handlers : calls'[h] = NoCall,
           calls' = [g \in Handlers |-> calls'[g]], work' = [a \in Actors |-> Idle],
           UNCHANGED <<exposed, outcome, replayed, stops>>,
           phase' \in {"serving", "draining", "stopped"}
    PROVE  Kept
<1>1. ASSUME NEW h \in Handlers
      PROVE  CallOk(h)'
  <2>1. At(h, "idle")'
    BY DEF At, Actors, Idle
  <2>. QED BY <2>1, EndedCall
<1>. QED BY <1>1, SameTerms DEF Kept, Heard, CallsKept, ApiInv

\* Whatever the step, the answers and the calls keep their order.
LEMMA StepKeeps ==
    ASSUME ApiInv, [ApiNext]_allVars
    PROVE  Kept
<1>. Handlers \subseteq Actors /\ Pollers \subseteq Actors /\ work \in Works
     /\ calls = [g \in Handlers |-> calls[g]]
  BY DEF Actors, ApiInv, TypeInv, TypeOK, Works
<1>1. ASSUME NEW h \in Handlers, Receive(h)
      PROVE  Kept
  BY <1>1, HandleKeeps DEF Receive
<1>2. ASSUME NEW h \in Handlers, Proceed(h)
      PROVE  Kept
  BY <1>2, UnstakeKeeps, ServeKeeps DEF Proceed
<1>3. ASSUME NEW h \in Handlers, ClientLeaves(h) \/ GatewayCloses(h)
      PROVE  Kept
  BY <1>3, HangUpKeeps DEF ClientLeaves, GatewayCloses
<1>4. ASSUME NEW p \in Pollers, Poll(p) \/ PollerStops(p)
      PROVE  Kept
  <2>1. /\ terms' = terms /\ UNCHANGED apiVars
        /\ UNCHANGED work \/ \E w : Become(p, w)
    BY <1>4, PollerStepKeeps
       DEF Poll, PollerStops, Drop, Return, Quietly, Unheard, apiVars
  <2>2. \A g \in Handlers : g # p
    BY StoreAssumption
  <2>3. \A g \in Handlers : work'[g] = work[g]
    BY <2>1, <2>2 DEF Become, Works
  <2>. QED BY <2>1, <2>3, QuietKeeps
<1>5. CASE Signal \/ Start
  <2>1. /\ UNCHANGED <<terms, work, calls, exposed, outcome, replayed>>
        /\ phase' \in {"serving", "draining", "stopped"}
        /\ stops' \in 0 .. MaxStops
    BY <1>5, ApiAssumption DEF Signal, Start, vars, ApiInv
  <2>2. KeptTerms
    BY <2>1, SameTerms
  <2>3. ASSUME NEW g \in Handlers
        PROVE  CallOk(g)'
    BY <2>1, <2>2, CallStays DEF At
  <2>. QED BY <2>1, <2>2, <2>3 DEF Kept, Heard, CallsKept, ApiInv
<1>6. CASE Exit
  BY <1>6, StopKeeps DEF Exit
<1>7. CASE ProcessDies
  BY <1>7, StopKeeps DEF ProcessDies, Crash
<1>8. CASE World
  BY <1>8, QuietKeeps DEF World, Environment, Quietly, Unheard, apiVars
<1>9. CASE UNCHANGED allVars
  BY <1>9, QuietKeeps DEF allVars, vars
<1>. QED BY <1>1, <1>2, <1>3, <1>4, <1>5, <1>6, <1>7, <1>8, <1>9 DEF ApiNext

\* At the start nobody calls and nobody was told anything.
LEMMA InitApiInv == ApiInit => ApiInv
<1>. SUFFICES ASSUME ApiInit
              PROVE  ApiInv
  OBVIOUS
<1>1. TypeInv /\ \A i \in StakeIds : ~Created(i)
  BY InitTypeInv DEF ApiInit, Init, StoreInit, Created
<1>2. \A h \in Handlers : CallOk(h)
  <2>1. ASSUME NEW h \in Handlers
        PROVE  calls[h] = NoCall /\ At(h, "idle")
    BY DEF ApiInit, Init, StoreInit, At, Actors, Idle
  <2>. QED BY <2>1 DEF CallOk, NoCall
<1>3. MaxStops \in Nat
  BY ApiAssumption
<1>. QED BY <1>1, <1>2, <1>3 DEF ApiInv, ApiInit

\* Every step of the server preserves the invariant and is one of the system.
LEMMA NextApiInv ==
    ASSUME {"cancel", "crash"} \subseteq Faults, ApiInv, [ApiNext]_allVars
    PROVE  ApiInv' /\ (UNCHANGED vars \/ Next)
<1>1. UNCHANGED vars \/ Next
  BY StepMapped
<1>2. TypeInv'
  BY <1>1, NextTypeInv DEF ApiInv
<1>3. Kept
  BY StepKeeps
<1>. QED BY <1>1, <1>2, <1>3 DEF ApiInv, Kept, Heard, CallsKept

-----------------------------------------------------------------------------
(* What an answer says of the tables                                       *)

\* Where the goroutine of a CreateStake may be, and where it has saved nothing.
CreatePcs == {"getBalance", "hold", "insert", "stake", "failing", "releasing",
              "saveDelegating", "publishCreated"}
FreshPcs == {"getBalance", "hold"}

\* Nothing was ever done for stake i, and no request is about to.
Traceless(i) ==
    /\ Created(i)
    /\ moved[i] = {}
    /\ \A h \in Handlers : work[h].pc \in FreshPcs => work[h].id # i

\* The stake is past PENDING and the provider has it.
Done(i) == Sent(stakes, i) /\ Knows(i)

\* The answers of CreateStake that say nothing was done.
Refusals == {"NotFound", "FailedPrecondition", "Aborted"}

\* Only an absent row has no state.
EmptyRows == \A i \in StakeIds : stakes[i].state = "NONE" => stakes[i] = NoStake

AnswersInv ==
    /\ ApiInv
    /\ ProviderInv
    /\ EmptyRows
    /\ \A h \in Handlers : calls[h].rpc = "CreateStake" => work[h].pc \in CreatePcs
    /\ \A i \in StakeIds :
          /\ outcome[i] \in Refusals => Traceless(i)
          /\ outcome[i] = "OK" /\ Provider # "mock" => Done(i)
          /\ i \in replayed => Present(stakes, i)

\* The path of a request: CreateStake stays on its own, and is fresh only
\* before its hold is saved.
LEMMA HandlerPath ==
    ASSUME work \in Works, NEW h \in Handlers, HandlerStep(h)
    PROVE  /\ work[h].pc \in CreatePcs => work'[h].pc \in CreatePcs \cup {"idle"}
           /\ work'[h].pc \in FreshPcs => /\ work[h].pc \in FreshPcs
                                          /\ work'[h].id = work[h].id
           /\ \A g \in Handlers : g # h => work'[g] = work[g]
<1>. h \in Actors /\ Handlers \subseteq Actors /\ work[h] \in Workspace
  BY DEF Actors, Works
<1>. DEFINE Goes(pc) == /\ work'[h].pc = pc
                        /\ work'[h].id = work[h].id
                        /\ \A g \in Handlers : g # h => work'[g] = work[g]
            Ends == /\ work'[h].pc = "idle"
                    /\ \A g \in Handlers : g # h => work'[g] = work[g]
<1>1. \A w : Become(h, w) => /\ work'[h] = w
                             /\ \A g \in Handlers : g # h => work'[g] = work[g]
  BY DEF Become, Works
<1>2. Return(h) => Ends
  BY <1>1 DEF Return, Idle
<1>3. ASSUME NEW pc, Goto(h, pc)
      PROVE  Goes(pc)
  <2>1. work'[h] = [work[h] EXCEPT !.pc = pc]
    BY <1>1, <1>3 DEF Goto
  <2>2. work'[h].pc = pc /\ work'[h].id = work[h].id
    BY <2>1 DEF Workspace
  <2>. QED BY <1>1, <1>3, <2>2 DEF Goto
<1>4. ASSUME NEW b, NEW pc, Adjust(h, b, pc)
      PROVE  Goes(pc)
  <2>1. work'[h] = [work[h] EXCEPT !.bal = NextVersion(b), !.pc = pc]
    BY <1>1, <1>4 DEF Adjust
  <2>2. work'[h].pc = pc /\ work'[h].id = work[h].id
    BY <2>1 DEF Workspace
  <2>. QED BY <1>1, <1>4, <2>2 DEF Adjust
<1>5. ASSUME NEW s, NEW pc, Become(h, [work[h] EXCEPT !.stake = s, !.pc = pc])
      PROVE  Goes(pc)
  <2>1. work'[h] = [work[h] EXCEPT !.stake = s, !.pc = pc]
    BY <1>1, <1>5
  <2>2. work'[h].pc = pc /\ work'[h].id = work[h].id
    BY <2>1 DEF Workspace
  <2>. QED BY <1>1, <1>5, <2>2
<1>6. ASSUME NEW s, NEW b, NEW pc,
             Become(h, [work[h] EXCEPT !.stake = s, !.bal = b, !.pc = pc])
      PROVE  Goes(pc)
  <2>1. work'[h] = [work[h] EXCEPT !.stake = s, !.bal = b, !.pc = pc]
    BY <1>1, <1>6
  <2>2. work'[h].pc = pc /\ work'[h].id = work[h].id
    BY <2>1 DEF Workspace
  <2>. QED BY <1>1, <1>6, <2>2
<1>. HIDE DEF Goes, Ends
<1>7. \/ Ends
      \/ At(h, "getBalance") /\ Goes("hold")
      \/ At(h, "hold") /\ Goes("insert")
      \/ At(h, "insert") /\ Goes("stake")
      \/ At(h, "stake") /\ (Goes("saveDelegating") \/ Goes("failing"))
      \/ At(h, "failing") /\ Goes("releasing")
      \/ At(h, "saveDelegating") /\ Goes("publishCreated")
      \/ /\ work[h].pc \in {"unstake", "saveUnstaking", "upsert"}
         /\ \E pc \in {"saveUnstaking", "publishUnstake", "publishBalance"} : Goes(pc)
  <2>1. CASE FetchBalance(h) \/ SaveHold(h) \/ InsertStake(h)
    BY <1>2, <1>3, <1>4, <2>1 DEF FetchBalance, SaveHold, InsertStake
  <2>2. CASE CallStake(h)
    BY <1>5, <1>6, <2>2 DEF CallStake
  <2>3. CASE SaveFailing(h) \/ SaveReleasing(h) \/ SaveDelegating(h) \/ PublishCreated(h)
    BY <1>2, <1>3, <2>3 DEF SaveFailing, SaveReleasing, SaveDelegating, PublishCreated
  <2>4. CASE CallUnstake(h) \/ SaveUnstaking(h) \/ PublishUnstakeRequested(h)
    BY <1>2, <1>3, <1>5, <2>4
       DEF CallUnstake, SaveUnstaking, PublishUnstakeRequested, At
  <2>5. CASE UpsertBalance(h) \/ PublishBalanceCreated(h) \/ OverwriteBalance(h)
    BY <1>2, <1>3, <2>5 DEF UpsertBalance, PublishBalanceCreated, OverwriteBalance, At
  <2>. QED BY <2>1, <2>2, <2>3, <2>4, <2>5 DEF HandlerStep
<1>. QED BY <1>7 DEF Goes, Ends, At, CreatePcs, FreshPcs

\* A handler saves an operation of the stake it is at, and at the end of a
\* request only a release.
LEMMA HandlerSaves ==
    ASSUME NEW h \in Handlers, HandlerStep(h)
    PROVE  \/ moved' = moved
           \/ \E op : At(h, "hold") /\ UpdateBalance(h, op) /\ Goto(h, "insert")
           \/ \E op : At(h, "releasing") /\ UpdateBalance(h, op)
<1>1. CASE SaveHold(h) \/ SaveReleasing(h)
  BY <1>1 DEF SaveHold, SaveReleasing, UpdateBalanceFails, ledger
<1>2. CASE FetchBalance(h) \/ InsertStake(h) \/ CallStake(h) \/ SaveFailing(h)
           \/ SaveDelegating(h) \/ PublishCreated(h)
  BY <1>2 DEF FetchBalance, InsertStake, CallStake, SaveFailing, SaveDelegating,
              PublishCreated, ledger
<1>3. CASE CallUnstake(h) \/ SaveUnstaking(h) \/ PublishUnstakeRequested(h)
           \/ UpsertBalance(h) \/ PublishBalanceCreated(h) \/ OverwriteBalance(h)
  BY <1>3 DEF CallUnstake, SaveUnstaking, PublishUnstakeRequested, UpsertBalance,
              PublishBalanceCreated, OverwriteBalance, UpdateBalanceFails, ledger
<1>. QED BY <1>1, <1>2, <1>3 DEF HandlerStep

\* A poller saves operations of stakes that are held.
LEMMA PollerSaves ==
    ASSUME NEW p \in Pollers, PollerStep(p)
    PROVE  \/ moved' = moved
           \/ /\ work[p].pc \in {"saveConfirm", "saveRelease", "saveComplete"}
              /\ \E op : UpdateBalance(p, op)
<1>1. CASE SaveConfirm(p) \/ SaveRelease(p) \/ SaveComplete(p)
  BY <1>1 DEF SaveConfirm, SaveRelease, SaveComplete, UpdateBalanceFails, ledger, At
<1>2. CASE ListDelegating(p) \/ CheckDelegating(p) \/ SaveActive(p) \/ FetchToConfirm(p)
           \/ PublishActivated(p) \/ SaveFailed(p) \/ FetchToRelease(p) \/ PublishFailed(p)
  BY <1>2 DEF ListDelegating, CheckDelegating, SaveActive, FetchToConfirm,
              PublishActivated, SaveFailed, FetchToRelease, PublishFailed, ledger
<1>3. CASE ListUnstaking(p) \/ CheckUnstaking(p) \/ SaveWithdrawn(p) \/ FetchToComplete(p)
           \/ PublishWithdrawn(p) \/ ListActive(p) \/ FetchRewards(p) \/ EndPoll(p)
  BY <1>3 DEF ListUnstaking, CheckUnstaking, SaveWithdrawn, FetchToComplete,
              PublishWithdrawn, ListActive, FetchRewards, EndPoll, ledger
<1>4. CASE ReadTotal(p) \/ CreateReward(p) \/ FetchToReward(p) \/ SaveReward(p)
  BY <1>4 DEF ReadTotal, CreateReward, FetchToReward, SaveReward, UpdateBalanceFails, ledger
<1>. QED BY <1>1, <1>2, <1>3, <1>4 DEF PollerStep

\* A request that begins is fresh for a new stake only, and saves nothing.
LEMMA RequestPath ==
    ASSUME work \in Works, NEW h \in Handlers, Request(h)
    PROVE  /\ moved' = moved
           /\ work'[h].pc \in FreshPcs => ~Created(work'[h].id)
           /\ \A g \in Handlers : g # h => work'[g] = work[g]
<1>. h \in Actors /\ Handlers \subseteq Actors
  BY DEF Actors
<1>1. \A w : Become(h, w) => /\ work'[h] = w
                             /\ \A g \in Handlers : g # h => work'[g] = work[g]
  BY DEF Become, Works
<1>. DEFINE Begun(pc, i, acct, s) == [Idle EXCEPT !.pc = pc, !.id = i, !.account = acct,
                                                  !.stake = s]
            Setting(pc, acct, b) == [Idle EXCEPT !.pc = pc, !.account = acct, !.bal = b]
<1>2. /\ \A pc, i, acct, s : Begun(pc, i, acct, s).pc = pc /\ Begun(pc, i, acct, s).id = i
      /\ \A pc, acct, b : Setting(pc, acct, b).pc = pc
  BY DEF Idle
<1>3. \/ \E i, acct : Become(h, Begun("getBalance", i, acct, NewStake)) /\ ~Created(i)
      \/ \E i, acct, s : Become(h, Begun("unstake", i, acct, s))
      \/ \E pc \in {"upsert", "overwrite"} : \E acct, b : Become(h, Setting(pc, acct, b))
  BY DEF Request, BeginCreateStake, BeginUnstake, BeginSetBalance
<1>4. moved' = moved
  BY DEF Request, BeginCreateStake, BeginUnstake, BeginSetBalance, ledger
<1>. HIDE DEF Begun, Setting
<1>5. CASE \E i, acct : Become(h, Begun("getBalance", i, acct, NewStake)) /\ ~Created(i)
  BY <1>1, <1>2, <1>4, <1>5
<1>6. CASE \E i, acct, s : Become(h, Begun("unstake", i, acct, s))
  BY <1>1, <1>2, <1>4, <1>6 DEF FreshPcs
<1>7. CASE \E pc \in {"upsert", "overwrite"} : \E acct, b : Become(h, Setting(pc, acct, b))
  BY <1>1, <1>2, <1>4, <1>7 DEF FreshPcs
<1>. QED BY <1>3, <1>5, <1>6, <1>7

\* An operation is saved for a stake only while its request is at hold, or
\* when its hold was saved before.
LEMMA TracelessSaves ==
    ASSUME ProviderInv, NEW i \in StakeIds, Traceless(i), NEW a \in Actors,
           work[a].pc \in {"releasing", "saveConfirm", "saveRelease", "saveComplete"}
               \/ (a \in Handlers /\ At(a, "hold")),
           NEW op, UpdateBalance(a, op)
    PROVE  moved'[i] = {}
<1>1. MoveOk(stakes, moved, work[a])
  BY AnswerReads
<1>2. work[a].id # i
  BY <1>1 DEF MoveOk, Traceless, ConfirmPcs, CompletePcs, FreshPcs, At
<1>3. DOMAIN moved = StakeIds
  BY AnswerReads, MoveReads DEF Histories
<1>. QED BY <1>2, <1>3 DEF UpdateBalance, Traceless

\* Once nothing was done, nothing ever is.
LEMMA TracelessStays ==
    ASSUME ProviderInv, KeptTerms, Next \/ UNCHANGED vars,
           NEW i \in StakeIds, Traceless(i)
    PROVE  Traceless(i)'
<1>0. /\ Created(i)'
      /\ work \in Works
      /\ Handlers \subseteq Actors /\ Pollers \subseteq Actors
  BY DEF KeptTerms, Traceless, Created, ProviderInv, MoveInv, TableInv, TypeInv, TypeOK,
         Works, Actors
<1>1. ASSUME moved'[i] = {},
             \A g \in Handlers : work'[g].pc \in FreshPcs => work'[g].id # i
      PROVE  Traceless(i)'
  BY <1>0, <1>1 DEF Traceless
<1>2. \A g \in Handlers : work[g].pc \in FreshPcs => work[g].id # i
  BY DEF Traceless
<1>3. ASSUME NEW h \in Handlers, HandlerStep(h)
      PROVE  Traceless(i)'
  <2>1. moved'[i] = {}
    <3>1. CASE moved' = moved
      BY <3>1 DEF Traceless
    <3>2. ASSUME NEW op, work[h].pc \in {"hold", "releasing"}, UpdateBalance(h, op)
          PROVE  moved'[i] = {}
      BY <1>0, <3>2, TracelessSaves DEF At
    <3>. QED BY <1>3, <3>1, <3>2, HandlerSaves DEF At
  <2>2. \A g \in Handlers : work'[g].pc \in FreshPcs => work'[g].id # i
    BY <1>0, <1>2, <1>3, HandlerPath
  <2>. QED BY <1>1, <2>1, <2>2
<1>4. ASSUME NEW h \in Handlers, Request(h)
      PROVE  Traceless(i)'
  BY <1>0, <1>1, <1>2, <1>4, RequestPath DEF Traceless
<1>5. ASSUME NEW p \in Pollers, PollerStep(p)
      PROVE  Traceless(i)'
  <2>1. moved'[i] = {}
    <3>1. CASE moved' = moved
      BY <3>1 DEF Traceless
    <3>2. ASSUME NEW op, work[p].pc \in {"saveConfirm", "saveRelease", "saveComplete"},
                 UpdateBalance(p, op)
          PROVE  moved'[i] = {}
      BY <1>0, <3>2, TracelessSaves
    <3>. QED BY <1>5, <3>1, <3>2, PollerSaves
  <2>2. \A g \in Handlers : g # p
    BY StoreAssumption
  <2>3. \A g \in Handlers : work'[g] = work[g]
    BY <1>0, <1>5, <2>2, PollerStepKeeps DEF Become, Works
  <2>. QED BY <1>1, <1>2, <2>1, <2>3
<1>6. CASE Crash \/ Environment \/ UNCHANGED vars \/ \E a \in Actors : Abandon(a)
  <2>1. moved' = moved
    BY <1>6 DEF Crash, Environment, Abandon, vars, ledger
  <2>2. \A g \in Handlers : work'[g] = work[g] \/ work'[g] = Idle
    BY <1>0, <1>6 DEF Crash, Environment, Abandon, vars, Return, Become, Works
  <2>3. Idle.pc \notin FreshPcs
    BY DEF Idle, FreshPcs
  <2>. QED BY <1>1, <1>2, <2>1, <2>2, <2>3 DEF Traceless
<1>. QED BY <1>3, <1>4, <1>5, <1>6 DEF Next

\* A provider outside the process forgets no stake.
LEMMA KnownStays ==
    ASSUME TypeOK, Provider # "mock", Next \/ UNCHANGED vars,
           NEW i \in StakeIds, Knows(i)
    PROVE  Knows(i)'
<1>0. DOMAIN provider = StakeIds
  BY DEF TypeOK
<1>1. CASE provider' = provider
  BY <1>1 DEF Knows
<1>2. ASSUME NEW j, ProviderAcceptsStake(j) \/ ProviderAcceptsUnstake(j) \/ ProviderProgress(j)
      PROVE  Knows(i)'
  BY <1>0, <1>2 DEF ProviderAcceptsStake, ProviderAcceptsUnstake, ProviderProgress, Settle,
                    GiveUp, Outcomes, Knows, AcceptedAs
<1>3. ASSUME NEW h \in Handlers, HandlerStep(h)
      PROVE  Knows(i)'
  <2>1. CASE CallStake(h) \/ CallUnstake(h)
    BY <1>1, <1>2, <2>1
       DEF CallStake, CallUnstake, ProviderFailsStake, ProviderFailsUnstake, providerVars
  <2>2. CASE FetchBalance(h) \/ SaveHold(h) \/ InsertStake(h) \/ SaveFailing(h)
             \/ SaveReleasing(h) \/ SaveDelegating(h) \/ PublishCreated(h)
    BY <1>1, <2>2 DEF FetchBalance, SaveHold, InsertStake, SaveFailing, SaveReleasing,
                      SaveDelegating, PublishCreated, providerVars
  <2>3. CASE SaveUnstaking(h) \/ PublishUnstakeRequested(h) \/ UpsertBalance(h)
             \/ PublishBalanceCreated(h) \/ OverwriteBalance(h)
    BY <1>1, <2>3 DEF SaveUnstaking, PublishUnstakeRequested, UpsertBalance,
                      PublishBalanceCreated, OverwriteBalance, providerVars
  <2>. QED BY <1>3, <2>1, <2>2, <2>3 DEF HandlerStep
<1>4. ASSUME NEW h \in Handlers, Request(h)
      PROVE  Knows(i)'
  BY <1>1, <1>4 DEF Request, BeginCreateStake, BeginUnstake, BeginSetBalance, providerVars
<1>5. ASSUME NEW p \in Pollers, PollerStep(p)
      PROVE  provider' = provider
  <2>1. CASE ListDelegating(p) \/ CheckDelegating(p) \/ SaveActive(p) \/ FetchToConfirm(p)
             \/ SaveConfirm(p) \/ PublishActivated(p) \/ SaveFailed(p) \/ FetchToRelease(p)
             \/ SaveRelease(p) \/ PublishFailed(p)
    BY <2>1 DEF ListDelegating, CheckDelegating, SaveActive, FetchToConfirm, SaveConfirm,
                PublishActivated, SaveFailed, FetchToRelease, SaveRelease, PublishFailed,
                providerVars
  <2>2. CASE ListUnstaking(p) \/ CheckUnstaking(p) \/ SaveWithdrawn(p) \/ FetchToComplete(p)
             \/ SaveComplete(p) \/ PublishWithdrawn(p)
    BY <2>2 DEF ListUnstaking, CheckUnstaking, SaveWithdrawn, FetchToComplete, SaveComplete,
                PublishWithdrawn, providerVars
  <2>3. CASE ListActive(p) \/ FetchRewards(p) \/ ReadTotal(p) \/ CreateReward(p)
             \/ FetchToReward(p) \/ SaveReward(p) \/ EndPoll(p)
    BY <2>3 DEF ListActive, FetchRewards, ReadTotal, CreateReward, FetchToReward,
                SaveReward, EndPoll, providerVars
  <2>. QED BY <1>5, <2>1, <2>2, <2>3 DEF PollerStep
<1>6. CASE Crash \/ Environment \/ UNCHANGED vars \/ \E a \in Actors : Abandon(a)
  BY <1>1, <1>2, <1>6
     DEF Crash, ProviderRestarts, Environment, NextDay, Abandon, vars, providerVars
<1>. QED BY <1>1, <1>3, <1>4, <1>5, <1>6 DEF Next

\* What was done stays done: a row never goes back to PENDING.
LEMMA DoneStays ==
    ASSUME ProviderInv, Provider # "mock", Next \/ UNCHANGED vars,
           NEW i \in StakeIds, Done(i)
    PROVE  Done(i)'
<1>1. TableInv /\ TypeOK /\ stakes \in Tables
  BY DEF ProviderInv, MoveInv, TableInv, TypeInv, TypeOK, Tables
<1>2. RowMoves(stakes, stakes')
  BY <1>1, NextTable, LifecycleRows
<1>3. Sent(stakes', i)
  BY <1>2 DEF Done, RowMoves, Sent, Lifecycle!Edges
<1>. QED BY <1>1, <1>3, KnownStays DEF Done, Sent

\* A row is in a state from its INSERT on.
LEMMA EmptyRowsStay ==
    ASSUME stakes \in Tables, [Lifecycle!LifecycleNext]_stakes, EmptyRows
    PROVE  EmptyRows'
<1>1. ASSUME NEW i \in StakeIds, Lifecycle!Appear(i)
      PROVE  EmptyRows'
  BY <1>1 DEF Lifecycle!Appear, Lifecycle!NewStake, EmptyRows, Tables
<1>2. ASSUME NEW i \in StakeIds, Lifecycle!Move(i)
      PROVE  EmptyRows'
  <2>1. PICK e \in Lifecycle!Edges :
           stakes' = [stakes EXCEPT ![i] = [state |-> e[2], version |-> stakes[i].version + 1]]
    BY <1>2 DEF Lifecycle!Move
  <2>2. e[2] # "NONE"
    BY DEF Lifecycle!Edges
  <2>. QED BY <2>1, <2>2 DEF EmptyRows, Tables
<1>. QED BY <1>1, <1>2 DEF Lifecycle!LifecycleNext, EmptyRows

\* The code of a CreateStake tells where its goroutine ended.
LEMMA EndOfCreate ==
    ASSUME ProviderInv, NEW h \in Handlers, work[h].pc \in CreatePcs,
           NEW code \in EndCodes(h)
    PROVE  /\ code \in Refusals => work[h].pc \in FreshPcs
           /\ code = "OK" => At(h, "publishCreated")
<1>. h \in Actors
  BY DEF Actors
<1>1. At(h, "saveDelegating") => StakeVersionMatches(work[h].id, work[h].stake)
  <2>1. At(h, "saveDelegating") => /\ work[h].id \in StakeIds
                                   /\ stakes[work[h].id].state = "PENDING"
                                   /\ work[h].stake.version = 2
    BY AnswerReads DEF At, MoveOk, AnswerPcs
  <2>2. \A i \in StakeIds : stakes[i].state = "PENDING" => stakes[i].version = 1
    BY DEF ProviderInv, MoveInv, RowOk
  <2>. QED BY <2>1, <2>2 DEF StakeVersionMatches
<1>2. CASE work[h].pc = "publishCreated"
  <2>1. code = "OK"
    BY <1>2 DEF EndCodes
  <2>. QED BY <1>2, <2>1 DEF Refusals, At
<1>3. CASE work[h].pc # "publishCreated"
  <2>1. code \in ErrorCodes(h)
    BY <1>3 DEF EndCodes, CreatePcs, At
  <2>2. code # "OK"
    BY <2>1 DEF ErrorCodes
  <2>3. work[h].pc \notin FreshPcs => code = "Internal"
    BY <1>1, <1>3, <2>1 DEF ErrorCodes, CreatePcs, FreshPcs, At
  <2>. QED BY <2>2, <2>3 DEF Refusals
<1>. QED BY <1>2, <1>3

\* A request that ends fresh has saved nothing, and no other request is at
\* its stake.
LEMMA EndsTraceless ==
    ASSUME ProviderInv, NEW h \in Handlers, HandlerStep(h), Ended(h),
           work[h].pc \in FreshPcs, NEW i, i = work[h].id
    PROVE  i \in StakeIds /\ Traceless(i)'
<1>. h \in Actors /\ Handlers \subseteq Actors /\ work \in Works
  BY DEF Actors, ProviderInv, MoveInv, TableInv, TypeInv, TypeOK, Works
<1>1. i \in StakeIds /\ Created(i)
  BY AnswerReads DEF FreshPcs, StakePcs, Pcs, HandlerPcs, PollerPcs
<1>2. moved[i] = {}
  BY AnswerReads DEF MoveOk, FreshPcs
<1>3. moved' = moved
  <2>1. ASSUME Goto(h, "insert")
        PROVE  FALSE
    BY <2>1 DEF Goto, Become, Works, Workspace, Ended
  <2>. QED BY <2>1, HandlerSaves DEF At, FreshPcs
<1>4. terms' = terms
  BY HandlerStepKeeps DEF ProviderInv, MoveInv, TableInv
<1>5. ASSUME NEW g \in Handlers, work'[g].pc \in FreshPcs
      PROVE  work'[g].id # i
  <2>1. g # h
    BY <1>5 DEF Ended, FreshPcs
  <2>2. work'[g] = work[g] /\ Apart(work[h], work[g])
    BY <2>1, HandlerPath, AnswerReads, MoveReads
  <2>. QED BY <1>5, <2>2 DEF Apart, FreshPcs, MakerPcs
<1>. QED BY <1>1, <1>2, <1>3, <1>4, <1>5 DEF Traceless, Created

\* The handlers of CreateStake keep to its path.
LEMMA CreatePathKept ==
    ASSUME AnswersInv, [ApiNext]_allVars, NEW h \in Handlers,
           calls'[h].rpc = "CreateStake"
    PROVE  work'[h].pc \in CreatePcs
<1>. /\ h \in Actors /\ Handlers \subseteq Actors /\ work \in Works
     /\ calls = [g \in Handlers |-> calls[g]]
  BY DEF Actors, AnswersInv, ApiInv, TypeInv, TypeOK, Works
<1>0. /\ ~(calls[h] = NoCall /\ calls[h].rpc = "CreateStake")
      /\ calls[h].rpc = "CreateStake" => work[h].pc \in CreatePcs
  BY DEF AnswersInv, NoCall
<1>1. CASE calls'[h] = calls[h] /\ work'[h] = work[h]
  BY <1>0, <1>1
<1>2. CASE calls'[h] = NoCall
  BY <1>2 DEF NoCall
<1>3. ASSUME NEW g \in Handlers, Receive(g)
      PROVE  work'[h].pc \in CreatePcs
  <2>1. PICK r \in Accepted : Handle(g, r)
    BY <1>3 DEF Receive
  <2>2. CASE UNCHANGED <<calls, work>>
    BY <1>1, <2>2
  <2>3. ASSUME NEW stage, NEW i, Open(g, r, stage, i), g # h \/ r.rpc # "CreateStake",
               UNCHANGED work \/ \E w : Become(g, w)
        PROVE  work'[h].pc \in CreatePcs
    <3>1. CASE g = h
      <4>1. calls'[h].rpc = r.rpc
        BY <2>3, <3>1 DEF Open
      <4>. QED BY <2>3, <3>1, <4>1
    <3>2. CASE g # h
      BY <1>1, <2>3, <3>2 DEF Open, Become, Works
    <3>. QED BY <3>1, <3>2
  <2>4. CASE r.rpc = "CreateStake" /\ CreateStake(g, r)
    <3>1. CASE BeginCreateStake(g, r.msg.account, r.msg.amount, r.msg.key)
                 /\ Open(g, r, "service", 0)
      <4>1. \E i : Become(g, [Idle EXCEPT !.pc = "getBalance", !.id = i,
                                          !.account = r.msg.account, !.stake = NewStake])
        BY <3>1 DEF BeginCreateStake
      <4>2. CASE g = h
        BY <4>1, <4>2 DEF Become, Works, Idle, CreatePcs
      <4>3. CASE g # h
        BY <2>3, <3>1, <4>1, <4>3
      <4>. QED BY <4>2, <4>3
    <3>2. CASE Respond(r, StakesWithKey(r.msg.key))
      BY <2>2, <3>2 DEF Respond, vars
    <3>. QED BY <2>4, <3>1, <3>2 DEF CreateStake
  <2>5. CASE r.rpc = "CreateBalance" /\ CreateBalance(g, r)
    BY <2>3, <2>5 DEF CreateBalance, BeginSetBalance
  <2>6. CASE ListStakes(g, r)
    BY <2>2, <2>6 DEF ListStakes, Respond, vars
  <2>7. CASE LookUp(g, r)
    BY <2>2, <2>3, <2>7
       DEF LookUp, ReadStake, GetRewardsSummary, BeginOwned, Respond, vars
  <2>. QED BY <2>1, <2>4, <2>5, <2>6, <2>7 DEF Handle
<1>4. ASSUME NEW g \in Handlers, UnstakeOwned(g)
      PROVE  work'[h].pc \in CreatePcs
  <2>1. /\ g # h => calls'[h] = calls[h] /\ work'[h] = work[h]
        /\ calls'[g] = NoCall \/ calls'[g].rpc = calls[g].rpc
    <3>1. CASE BeginUnstake(g, calls[g].stake)
                 /\ calls' = [calls EXCEPT ![g].stage = "service"]
      <4>1. calls[g] \in Calls \cup {NoCall}
        BY DEF AnswersInv, ApiInv, CallOk
      <4>2. calls'[g] = [calls[g] EXCEPT !.stage = "service"]
        BY <3>1
      <4>3. calls'[g].rpc = calls[g].rpc
        BY <4>1, <4>2 DEF Calls, NoCall
      <4>. QED BY <3>1, <4>3 DEF BeginUnstake, Become, Works
    <3>2. ASSUME NEW S, CloseUnstake(g, S)
          PROVE  /\ g # h => calls'[h] = calls[h] /\ work'[h] = work[h]
                 /\ calls'[g] = NoCall
      BY <3>2 DEF CloseUnstake, Close, vars
    <3>. QED BY <1>4, <3>1, <3>2 DEF UnstakeOwned
  <2>2. CASE g = h
    <3>1. calls[g].stage = "owned" /\ CallOk(g)
      BY <1>4 DEF UnstakeOwned, AnswersInv, ApiInv
    <3>2. At(g, "idle")
      BY <3>1 DEF CallOk
    <3>3. calls[g].rpc # "CreateStake"
      BY <1>0, <2>2, <3>2 DEF At, CreatePcs
    <3>. QED BY <1>2, <2>1, <2>2, <3>3
  <2>. QED BY <1>1, <2>1, <2>2
<1>5. ASSUME NEW g \in Handlers, Serve(g)
      PROVE  work'[h].pc \in CreatePcs
  <2>1. /\ HandlerStep(g)
        /\ calls' = calls \/ calls' = [calls EXCEPT ![g] = NoCall]
        /\ calls' = calls => work'[g].pc # "idle" \/ calls[g] = NoCall
    BY <1>5 DEF Serve, Close, Ended, Unheard
  <2>2. CASE g = h
    BY <1>0, <1>2, <2>1, <2>2, HandlerPath
  <2>3. CASE g # h
    BY <1>1, <2>1, <2>3, HandlerPath
  <2>. QED BY <2>2, <2>3
<1>6. ASSUME NEW g \in Handlers, HangUp(g)
      PROVE  work'[h].pc \in CreatePcs
  BY <1>1, <1>2, <1>6 DEF HangUp, Drop, Return, Become, Works
<1>7. ASSUME NEW p \in Pollers, Poll(p) \/ PollerStops(p)
      PROVE  work'[h].pc \in CreatePcs
  <2>1. /\ UNCHANGED calls
        /\ UNCHANGED work \/ \E w : Become(p, w)
    BY <1>7, PollerStepKeeps DEF Poll, PollerStops, Drop, Return, Quietly
  <2>2. h # p
    BY StoreAssumption
  <2>. QED BY <1>1, <2>1, <2>2 DEF Become, Works
<1>8. CASE Exit \/ ProcessDies
  BY <1>1, <1>2, <1>8 DEF Exit, ProcessDies, Idle
<1>9. CASE Signal \/ Start \/ World \/ UNCHANGED allVars
  BY <1>1, <1>9 DEF Signal, Start, World, Environment, Quietly, allVars, apiVars, vars
<1>. QED
  BY <1>3, <1>4, <1>5, <1>6, <1>7, <1>8, <1>9
     DEF ApiNext, Proceed, ClientLeaves, GatewayCloses

\* Answers are given by the steps that end a request.
LEMMA OutcomesGiven ==
    ASSUME [ApiNext]_allVars
    PROVE  \/ outcome' = outcome
           \/ \E h \in Handlers : \E code \in EndCodes(h) :
                 /\ calls[h].rpc = "CreateStake"
                 /\ HandlerStep(h)
                 /\ Ended(h)
                 /\ outcome' = [outcome EXCEPT ![work[h].id] = code]
<1>1. ASSUME NEW h \in Handlers, Receive(h) \/ UnstakeOwned(h)
      PROVE  outcome' = outcome
  BY <1>1 DEF Receive, Handle, CreateStake, CreateBalance, ListStakes, LookUp, ReadStake,
              GetRewardsSummary, BeginOwned, UnstakeOwned, CloseUnstake, Respond, Open, Unheard
<1>2. ASSUME NEW h \in Handlers, Serve(h)
      PROVE  \/ outcome' = outcome
             \/ \E code \in EndCodes(h) :
                   /\ calls[h].rpc = "CreateStake"
                   /\ HandlerStep(h)
                   /\ Ended(h)
                   /\ outcome' = [outcome EXCEPT ![work[h].id] = code]
  BY <1>2 DEF Serve, Unheard
<1>3. ASSUME NEW h \in Handlers, ClientLeaves(h) \/ GatewayCloses(h)
      PROVE  outcome' = outcome
  BY <1>3 DEF ClientLeaves, GatewayCloses, HangUp, Unheard
<1>4. ASSUME NEW p \in Pollers, Poll(p) \/ PollerStops(p)
      PROVE  outcome' = outcome
  BY <1>4 DEF Poll, PollerStops, Quietly, Unheard
<1>5. CASE Signal \/ Exit \/ Start \/ ProcessDies \/ World \/ UNCHANGED allVars
  BY <1>5 DEF Signal, Exit, Start, ProcessDies, World, Quietly, Unheard, allVars, apiVars
<1>. QED BY <1>1, <1>2, <1>3, <1>4, <1>5 DEF ApiNext, Proceed

\* A key is answered with the rows that have it.
LEMMA ReplaysGiven ==
    ASSUME EmptyRows, [ApiNext]_allVars
    PROVE  \A i \in replayed' : i \in replayed \/ Present(stakes, i)
<1>1. ASSUME NEW h \in Handlers, Receive(h)
      PROVE  \A i \in replayed' : i \in replayed \/ Present(stakes, i)
  <2>1. PICK r \in Accepted : Handle(h, r)
    BY <1>1 DEF Receive
  <2>2. CASE r.rpc = "CreateStake" /\ Respond(r, StakesWithKey(r.msg.key))
    BY <2>2 DEF Respond, StakesWithKey, EmptyRows, Present, NoStake
  <2>3. ASSUME r.rpc # "CreateStake", NEW S, Respond(r, S)
        PROVE  replayed' = replayed
    BY <2>3 DEF Respond
  <2>4. ASSUME NEW stage, NEW i, Open(h, r, stage, i)
        PROVE  replayed' = replayed
    BY <2>4 DEF Open, Unheard
  <2>5. CASE "stake" \in DOMAIN r.msg /\ LookUp(h, r)
    <3>1. CASE ReadStake(r)
      BY <2>3, <3>1 DEF ReadStake, GetRewardsSummary
    <3>2. CASE BeginOwned(h, r)
      BY <2>4, <3>2 DEF BeginOwned
    <3>. QED BY <2>5, <3>1, <3>2 DEF LookUp
  <2>. QED BY <2>1, <2>2, <2>3, <2>4, <2>5 DEF Handle, CreateStake, CreateBalance, ListStakes
<1>2. ASSUME NEW h \in Handlers, UnstakeOwned(h) \/ Serve(h)
      PROVE  replayed' = replayed
  BY <1>2 DEF UnstakeOwned, CloseUnstake, Serve, Close, Unheard
<1>3. ASSUME NEW h \in Handlers, ClientLeaves(h) \/ GatewayCloses(h)
      PROVE  replayed' = replayed
  BY <1>3 DEF ClientLeaves, GatewayCloses, HangUp, Unheard
<1>4. ASSUME NEW p \in Pollers, Poll(p) \/ PollerStops(p)
      PROVE  replayed' = replayed
  BY <1>4 DEF Poll, PollerStops, Quietly, Unheard
<1>5. CASE Signal \/ Exit \/ Start \/ ProcessDies \/ World \/ UNCHANGED allVars
  BY <1>5 DEF Signal, Exit, Start, ProcessDies, World, Quietly, Unheard, allVars, apiVars
<1>. QED BY <1>1, <1>2, <1>3, <1>4, <1>5 DEF ApiNext, Proceed

\* No row is deleted.
LEMMA RowsStay ==
    ASSUME ProviderInv, Next \/ UNCHANGED vars, NEW i \in StakeIds, Present(stakes, i)
    PROVE  Present(stakes', i)
<1>1. TableInv /\ stakes \in Tables
  BY DEF ProviderInv, MoveInv, TableInv, TypeInv, TypeOK, Tables
<1>2. RowMoves(stakes, stakes')
  BY <1>1, NextTable, LifecycleRows
<1>. QED BY <1>2 DEF RowMoves, Present, Lifecycle!Edges

\* At the start nothing was asked.
LEMMA InitAnswers == ApiInit => AnswersInv
<1>. SUFFICES ASSUME ApiInit
              PROVE  AnswersInv
  OBVIOUS
<1>1. ApiInv /\ ProviderInv
  BY InitApiInv, InitProvider DEF ApiInit
<1>2. /\ \A h \in Handlers : calls[h] = NoCall
      /\ \A i \in StakeIds : outcome[i] = "none"
      /\ replayed = {}
  BY DEF ApiInit
<1>3. EmptyRows
  BY DEF ApiInit, Init, StoreInit, EmptyRows
<1>. QED BY <1>1, <1>2, <1>3 DEF AnswersInv, NoCall, Refusals

\* Every step of the server preserves the invariant.
LEMMA NextAnswers ==
    ASSUME {"cancel", "crash"} \subseteq Faults, AnswersInv, [ApiNext]_allVars
    PROVE  AnswersInv'
<1>1. ApiInv /\ ProviderInv
  BY DEF AnswersInv
<1>2. ApiInv' /\ (Next \/ UNCHANGED vars) /\ KeptTerms
  BY <1>1, NextApiInv, StepKeeps DEF Kept
<1>3. ProviderInv'
  BY <1>1, <1>2, NextProvider
<1>4. ASSUME NEW i \in StakeIds
      PROVE  /\ outcome'[i] \in Refusals => Traceless(i)'
             /\ outcome'[i] = "OK" /\ Provider # "mock" => Done(i)'
  <2>1. CASE outcome'[i] = outcome[i]
    BY <1>1, <1>2, <2>1, TracelessStays, DoneStays DEF AnswersInv
  <2>2. ASSUME NEW h \in Handlers, NEW code \in EndCodes(h),
               calls[h].rpc = "CreateStake", HandlerStep(h), Ended(h), work[h].id = i,
               outcome'[i] = code
        PROVE  /\ outcome'[i] \in Refusals => Traceless(i)'
               /\ outcome'[i] = "OK" /\ Provider # "mock" => Done(i)'
    <3>1. /\ code \in Refusals => work[h].pc \in FreshPcs
          /\ code = "OK" => At(h, "publishCreated")
      BY <1>1, <2>2, EndOfCreate DEF AnswersInv
    <3>2. ASSUME At(h, "publishCreated"), Provider # "mock"
          PROVE  Done(i)
      <4>1. AnswerOk(stakes, provider, work[h])
        BY <1>1, AnswerReads DEF Actors
      <4>. QED BY <2>2, <3>2, <4>1 DEF AnswerOk, Done, Knows, At
    <3>. QED BY <1>1, <1>2, <2>2, <3>1, <3>2, EndsTraceless, DoneStays
  <2>3. outcome \in [StakeIds -> Codes \cup {"none"}]
    BY <1>1 DEF ApiInv
  <2>. QED BY <2>1, <2>2, <2>3, OutcomesGiven
<1>5. \A h \in Handlers : calls'[h].rpc = "CreateStake" => work'[h].pc \in CreatePcs
  BY CreatePathKept
<1>6. EmptyRows'
  <2>1. TableInv /\ stakes \in Tables
    BY <1>1 DEF ProviderInv, MoveInv, TableInv, TypeInv, TypeOK, Tables
  <2>. QED BY <1>2, <2>1, NextTable, EmptyRowsStay DEF AnswersInv
<1>7. \A i \in StakeIds : i \in replayed' => Present(stakes', i)
  BY <1>1, <1>2, ReplaysGiven, RowsStay DEF AnswersInv
<1>8. \A i \in StakeIds : Present(stakes, i)' <=> Present(stakes', i)
  BY DEF Present
<1>. QED BY <1>2, <1>3, <1>4, <1>5, <1>6, <1>7, <1>8 DEF AnswersInv

-----------------------------------------------------------------------------
(* The theorems                                                            *)

\* The server is one of the systems of StakingSystem: interceptors, owner
\* checks, gateway, drain and restart of the process add no step that a
\* request, a poll, a cancelled context or a crash could not take.
THEOREM ServerImplements ==
    ASSUME {"cancel", "crash"} \subseteq Faults
    PROVE  ApiSpec => SystemImplemented
<1>1. ApiInit => ApiInv /\ Init
  BY InitApiInv DEF ApiInit
<1>2. ApiInv /\ [ApiNext]_allVars => ApiInv' /\ [UNCHANGED vars \/ Next]_vars
  BY NextApiInv
<1>. QED BY <1>1, <1>2, PTL DEF ApiSpec, SystemImplemented

\* No answer but that of CreateStake to a key that has a stake tells a customer
\* of a stake of another, in any interleaving of the owner checks, the reads and
\* the writes.
THEOREM OnlyKeysTell ==
    ASSUME {"cancel", "crash"} \subseteq Faults
    PROVE  ApiSpec => []OnlyKeysExpose
<1>1. ApiInit => ApiInv
  BY InitApiInv
<1>2. ApiInv /\ [ApiNext]_allVars => ApiInv'
  BY NextApiInv
<1>3. ApiInv => OnlyKeysExpose
  BY DEF ApiInv, ByKey, OnlyKeysExpose
<1>. QED BY <1>1, <1>2, <1>3, PTL DEF ApiSpec

\* The calls stay in step with the goroutines that serve them.
THEOREM ApiTypeCorrect ==
    ASSUME {"cancel", "crash"} \subseteq Faults
    PROVE  ApiSpec => []ApiTypeOK
<1>1. ApiInit => ApiInv
  BY InitApiInv
<1>2. ApiInv /\ [ApiNext]_allVars => ApiInv'
  BY NextApiInv
<1>3. ApiInv => ApiTypeOK
  <2>1. ApiInv => calls \in [Handlers -> Calls \cup {NoCall}]
    BY DEF ApiInv, CallOk
  <2>2. ByKey \subseteq Rpcs \X Customers \X StakeIds
    BY DEF ByKey, Rpcs, Messages
  <2>. QED BY <2>1, <2>2 DEF ApiInv, ApiTypeOK, CallOk, TypeInv
<1>. QED BY <1>1, <1>2, <1>3, PTL DEF ApiSpec

\* A CreateStake that is answered NotFound, FailedPrecondition or Aborted left
\* no row, no hold and no stake at the provider, and nothing that was still
\* under way when the answer went out makes one later.
THEOREM RefusedLeavesNothing ==
    ASSUME {"cancel", "crash"} \subseteq Faults
    PROVE  ApiSpec => []RefusalsLeaveNoTrace
<1>1. ApiInit => AnswersInv
  BY InitAnswers
<1>2. AnswersInv /\ [ApiNext]_allVars => AnswersInv'
  BY NextAnswers
<1>3. ASSUME AnswersInv
      PROVE  RefusalsLeaveNoTrace
  <2>1. ASSUME NEW i \in StakeIds, moved[i] = {}
        PROVE  stakes[i].state = "NONE"
    <3>1. moved[i] \in MovesAllowed[stakes[i].state] /\ stakes \in Tables
      BY <1>3 DEF AnswersInv, ProviderInv, MoveInv, RowOk, TableInv, TypeInv, TypeOK, Tables
    <3>2. stakes[i].state \in {"NONE", "PENDING", "DELEGATING", "ACTIVE", "UNSTAKING",
                               "WITHDRAWN", "FAILED"}
      BY <3>1 DEF Tables, Stakes, StakeStates, LiveStates, TerminalStates
    <3>. QED BY <2>1, <3>1, <3>2 DEF MovesAllowed
  <2>2. \A i \in StakeIds : stakes[i].state = "NONE" => stakes[i] = NoStake /\ ~Knows(i)
    <3>1. stakes \in Tables /\ \A i \in StakeIds : Knows(i) => Present(stakes, i)
      BY <1>3 DEF AnswersInv, ProviderInv, MoveInv, TableInv, TypeInv, TypeOK, Tables
    <3>. QED BY <1>3, <3>1 DEF AnswersInv, EmptyRows, Present
  <2>. QED BY <1>3, <2>1, <2>2 DEF AnswersInv, RefusalsLeaveNoTrace, Refusals, Traceless
<1>. QED BY <1>1, <1>2, <1>3, PTL DEF ApiSpec

\* What an answer OK of CreateStake promises, with any provider that does not
\* lose its stakes with the process.  The attempt that made the stake: the funds
\* are held, the row has left PENDING, the provider knows the stake, and all of
\* it stays so.  An attempt that sent the key again: there is a row, and a hold
\* was made for it; nothing of its state, nor of the provider.
THEOREM AnsweredIsDone ==
    ASSUME {"cancel", "crash"} \subseteq Faults, Provider # "mock"
    PROVE  ApiSpec => []OkIsDone
<1>1. ApiInit => AnswersInv
  BY InitAnswers
<1>2. AnswersInv /\ [ApiNext]_allVars => AnswersInv'
  BY NextAnswers
<1>3. ASSUME AnswersInv
      PROVE  OkIsDone
  <2>1. ASSUME NEW i \in StakeIds, Done(i)
        PROVE  /\ "hold" \in moved[i]
               /\ stakes[i].state \notin {"NONE", "PENDING"}
               /\ Knows(i)
    <3>1. moved[i] \in MovesAllowed[stakes[i].state] /\ stakes \in Tables
      BY <1>3 DEF AnswersInv, ProviderInv, MoveInv, RowOk, TableInv, TypeInv, TypeOK, Tables
    <3>2. stakes[i].state \in {"DELEGATING", "ACTIVE", "UNSTAKING", "WITHDRAWN", "FAILED"}
      BY <2>1, <3>1 DEF Done, Sent, Tables, Stakes, StakeStates, LiveStates, TerminalStates
    <3>. QED BY <2>1, <3>1, <3>2 DEF MovesAllowed, Done, Sent
  <2>2. ASSUME NEW i \in StakeIds, Present(stakes, i)
        PROVE  "hold" \in moved[i] /\ stakes[i] # NoStake
    <3>1. moved[i] \in MovesAllowed[stakes[i].state] /\ stakes \in Tables
      BY <1>3 DEF AnswersInv, ProviderInv, MoveInv, RowOk, TableInv, TypeInv, TypeOK, Tables
    <3>2. stakes[i].state \in {"PENDING", "DELEGATING", "ACTIVE", "UNSTAKING", "WITHDRAWN",
                               "FAILED"}
      BY <2>2, <3>1 DEF Present, Tables, Stakes, StakeStates, LiveStates, TerminalStates
    <3>. QED BY <2>2, <3>1, <3>2 DEF MovesAllowed, Present, NoStake
  <2>. QED BY <1>3, <2>1, <2>2 DEF AnswersInv, OkIsDone
<1>. QED BY <1>1, <1>2, <1>3, PTL DEF ApiSpec
=============================================================================
