--------------------------- MODULE StakingDomain ---------------------------
(***************************************************************************)
(* internal/domain: the lifecycle methods of a Stake and the arithmetic of *)
(* a Balance, as operators on records.  A Go method returns an error and   *)
(* leaves its receiver alone when its guard is false; here the guard is an *)
(* operator of its own (MayHold, MayConfirmStake, ...), which callers test *)
(* as the Go callers test err.  The two methods whose error the code       *)
(* ignores, Fail and ReleaseHold, are total: they return the record as it  *)
(* was.  Timestamps and free text are left out.                            *)
(***************************************************************************)
EXTENDS Naturals

LiveStates == {"PENDING", "DELEGATING", "ACTIVE", "UNSTAKING"}
TerminalStates == {"WITHDRAWN", "FAILED"}
StakeStates == LiveStates \cup TerminalStates

\* The mutable part of a stake; version 0 stands for "no such row".
Stakes == [state : StakeStates \cup {"NONE"}, version : Nat]
NoStake == [state |-> "NONE", version |-> 0]

Balances == [available : Nat, staked : Nat, pending : Nat, version : Nat]
NoBalance == [available |-> 0, staked |-> 0, pending |-> 0, version |-> 0]

-----------------------------------------------------------------------------
(* Stake                                                                   *)

NewStake == [state |-> "PENDING", version |-> 1]

IsTerminal(s) == s.state \in TerminalStates

MayUnstake(s) == s.state = "ACTIVE"

Delegate(s) == [s EXCEPT !.state = "DELEGATING"]
Activate(s) == [s EXCEPT !.state = "ACTIVE"]
Unstake(s) == [s EXCEPT !.state = "UNSTAKING"]
Withdraw(s) == [s EXCEPT !.state = "WITHDRAWN"]
Fail(s) == IF IsTerminal(s) THEN s ELSE [s EXCEPT !.state = "FAILED"]

\* stake.Version++ and balance.Version++ before every Update.
NextVersion(r) == [r EXCEPT !.version = @ + 1]

-----------------------------------------------------------------------------
(* Balance                                                                 *)

NewBalance == [NoBalance EXCEPT !.version = 1]

\* Mutant: the balance is not compared with the amount.
MayHoldUnchecked(b, x) == x > 0

MayHold(b, x) == x > 0 /\ b.available >= x
Hold(b, x) == [b EXCEPT !.available = @ - x, !.pending = @ + x]

MayConfirmStake(b, x) == x > 0 /\ b.pending >= x
ConfirmStake(b, x) == [b EXCEPT !.pending = @ - x, !.staked = @ + x]

MayReleaseHold(b, x) == x > 0 /\ b.pending >= x
ReleaseHold(b, x) ==
    IF MayReleaseHold(b, x)
    THEN [b EXCEPT !.pending = @ - x, !.available = @ + x]
    ELSE b

MayCompleteUnstake(b, x) == x > 0 /\ b.staked >= x
\* Mutant: the amount stays in staked.
CompleteUnstakeKeepsStaked(b, x) == [b EXCEPT !.available = @ + x]

CompleteUnstake(b, x) == [b EXCEPT !.staked = @ - x, !.available = @ + x]

AddReward(b, x) == [b EXCEPT !.available = @ + x]
=============================================================================
