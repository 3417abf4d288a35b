--------------------------- MODULE StakeLifecycle ---------------------------
(***************************************************************************)
(* What the stakes table promises, whoever writes it and in whatever       *)
(* order: a row appears once, as PENDING with version 1, moves along the   *)
(* edges of the lifecycle one at a time, and its version counts the moves. *)
(* FAILED is reached only before the stake is confirmed: Fail would allow  *)
(* it from ACTIVE and UNSTAKING, but no caller does that.                  *)
(***************************************************************************)
EXTENDS StakingDomain

CONSTANT StakeIds

VARIABLE table

Edges == {<<"PENDING", "DELEGATING">>, <<"PENDING", "FAILED">>,
          <<"DELEGATING", "ACTIVE">>, <<"DELEGATING", "FAILED">>,
          <<"ACTIVE", "UNSTAKING">>, <<"UNSTAKING", "WITHDRAWN">>}

LifecycleInit == table = [i \in StakeIds |-> NoStake]

Appear(i) ==
    /\ table[i] = NoStake
    /\ table' = [table EXCEPT ![i] = NewStake]

Move(i) ==
    \E e \in Edges :
        /\ table[i].state = e[1]
        /\ table' = [table EXCEPT ![i] = [state |-> e[2],
                                          version |-> table[i].version + 1]]

LifecycleNext == \E i \in StakeIds : Appear(i) \/ Move(i)

LifecycleSpec == LifecycleInit /\ [][LifecycleNext]_table
=============================================================================
