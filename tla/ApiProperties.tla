--------------------------- MODULE ApiProperties ---------------------------
(***************************************************************************)
(* What is checked of StakingApi.                                          *)
(***************************************************************************)
EXTENDS StakingApi

Rpcs == DOMAIN Messages
Codes == {"OK", "NotFound", "FailedPrecondition", "Aborted", "Internal"}
Calls == [rpc : Rpcs, caller : Customers, via : Transports, stage : {"owned", "service"},
          stake : StakeIds \cup {0}]

\* The calls in progress agree with the goroutines that serve them: a
\* handler is at work exactly when its call has reached a service.
ApiTypeOK ==
    /\ TypeOK
    /\ calls \in [Handlers -> Calls \cup {NoCall}]
    /\ \A h \in Handlers : ~At(h, "idle") <=> calls[h].stage = "service"
    /\ exposed \subseteq Rpcs \X Customers \X StakeIds
    /\ outcome \in [StakeIds -> Codes \cup {"none"}]
    /\ replayed \subseteq StakeIds
    /\ phase \in {"serving", "draining", "stopped"}
    /\ stops \in 0 .. MaxStops

\* An answer that tells of a stake goes to the customer who owns it, whenever
\* the row is read (authorizeCustomer, and the queries by customer_id), unless
\* the method is CreateStake, which asks for the key and not for the owner.
OnlyKeysExpose == \A e \in exposed : e[1] = "CreateStake"

\* A CreateStake that is answered NotFound, FailedPrecondition or Aborted,
\* the codes on which a client corrects its request or tries again, has left
\* nothing behind: no row, no hold, no stake at the provider.
RefusalsLeaveNoTrace ==
    \A i \in StakeIds :
        outcome[i] \in {"NotFound", "FailedPrecondition", "Aborted"}
          => stakes[i] = NoStake /\ moved[i] = {} /\ ~Knows(i)

\* What an answer OK of CreateStake promises, from then on.  Of the attempt
\* that made the stake: the funds were held, the row has left PENDING, and the
\* provider has the stake.  Of one that sent a key again: a row and a hold that
\* was made for it, no more; the stake may be PENDING and unknown to the
\* provider, or FAILED and released.
OkIsDone ==
    \A i \in StakeIds :
        /\ outcome[i] = "OK" => /\ "hold" \in moved[i]
                                /\ stakes[i].state \notin {"NONE", "PENDING"}
                                /\ Knows(i)
        /\ i \in replayed => "hold" \in moved[i] /\ stakes[i] # NoStake

\* Interceptors, owner checks, the gateway and the stop and start of the
\* process add nothing to what the services and the poller may do: every
\* behaviour of the server is one of StakingSystem, in which requests arrive
\* at any time, goroutines are cut off and the process is restarted.
SystemImplemented == Init /\ [][UNCHANGED vars \/ Next]_vars

-----------------------------------------------------------------------------
(* Liveness, under FairApiSpec                                             *)

\* Nothing starts a process again that was told to stop.
Stopped == phase = "stopped"

\* While the server runs, no stake stays in a state that the service itself has
\* to leave: one that is not confirmed gets its provider's answer and is
\* reconciled, an UNSTAKING one is withdrawn, even when a poll looks at fewer
\* stakes than there are.  The exceptions are an unstake that fails at the
\* provider, which no poll looks for, and the stakes behind as many of those
\* as a poll lists.
FailedUnstakes == {i \in StakeIds : StateIs(i, {"UNSTAKING"}) /\ provider[i] = "FAILED"}

Stuck(i) ==
    \/ i \in FailedUnstakes
    \/ Cardinality({j \in FailedUnstakes : j < i}) >= PollLimit

StakesSettle ==
    \A i \in StakeIds :
        /\ StateIs(i, {"PENDING", "DELEGATING"})
              ~> StateIs(i, {"ACTIVE", "FAILED"}) \/ Stopped
        /\ StateIs(i, {"UNSTAKING"})
              ~> StateIs(i, {"WITHDRAWN"}) \/ Stuck(i) \/ Stopped

\* The oldest stakes, as many as a poll lists, do not miss their rewards: while
\* the server runs, one that is ACTIVE gets a row in the rewards table, is
\* unstaked, or fails at the provider.  (Whether the row is also credited is
\* RewardsAreCredited.)
FirstStakesRecorded ==
    \A i \in StakeIds :
        i <= PollLimit /\ StateIs(i, {"ACTIVE"})
          ~> HasReward(i) \/ ~StateIs(i, {"ACTIVE"}) \/ provider[i] = "FAILED" \/ Stopped

\* GracefulStop terminates: no new calls come in, and those that run end.
ShutdownCompletes == phase = "draining" ~> Stopped
=============================================================================
