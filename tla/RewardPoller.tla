---------------------------- MODULE RewardPoller ----------------------------
(***************************************************************************)
(* internal/worker: the RewardPoller goroutine.  A poll lists the          *)
(* DELEGATING stakes and reconciles them one by one with the provider,     *)
(* then the UNSTAKING ones, then fetches the rewards of the ACTIVE ones.   *)
(* The rows of a list are copies taken when the phase began.  Every error  *)
(* is logged and the loop goes on to the next stake (or the next reward):  *)
(* nothing of the stake is retried unless its row is listed again.         *)
(***************************************************************************)
EXTENDS StakingProvider

\* The loop is at the first stake of the list.
IsHead(p, i) ==
    /\ work[p].list[i] # NoStake
    /\ \A j \in StakeIds : work[p].list[j] # NoStake => i <= j

Listing(p, phase) == At(p, phase) /\ work[p].list = EmptyList

\* ListByState; on an error the phase is skipped.
List(p, state, phase) ==
    \E list \in {ListByState(state)} \cup (IF DbMayFail THEN {EmptyList} ELSE {}) :
        Become(p, [Idle EXCEPT !.pc = phase, !.list = list])

\* continue: the loop of the phase goes on after stake i.
DropStake(p, i, phase) ==
    Become(p, [Idle EXCEPT !.pc = phase,
                           !.list = [work[p].list EXCEPT ![i] = NoStake]])

Continue(p, phase) == DropStake(p, work[p].id, phase)

\* The copy of stake i is changed and about to be written.
Reconcile(p, i, s, pc) ==
    Become(p, [work[p] EXCEPT !.id = i, !.account = terms[i].account,
                              !.stake = NextVersion(s), !.pc = pc])

-----------------------------------------------------------------------------
(* reconcileDelegating                                                     *)

ListDelegating(p) ==
    /\ At(p, "idle")
    /\ List(p, "DELEGATING", "delegating")
    /\ UNCHANGED <<terms, stakes, ledger, rewardTables, audit, providerVars>>

CheckDelegating(p) ==
    /\ At(p, "delegating")
    /\ \E i \in StakeIds : IsHead(p, i) /\ \E status \in StatusAnswers(i) :
          \/ /\ status = "ACTIVE"
             /\ Reconcile(p, i, Activate(work[p].list[i]), "saveActive")
          \/ /\ status = "FAILED"
             /\ Reconcile(p, i, Fail(work[p].list[i]), "saveFailed")
          \/ /\ status \notin {"ACTIVE", "FAILED"}
             /\ DropStake(p, i, "delegating")
    /\ UNCHANGED <<terms, stakes, ledger, rewardTables, audit, providerVars>>

\* Mutant: no continue after the update of the stake failed.
SaveActiveGoesOn(p) ==
    /\ At(p, "saveActive")
    /\ UpdateStake(p) \/ UpdateStakeFails(p)
    /\ Goto(p, "confirm")
    /\ UNCHANGED <<terms, ledger, rewardTables, audit, providerVars>>

SaveActive(p) ==
    /\ At(p, "saveActive")
    /\ \/ UpdateStake(p) /\ Goto(p, "confirm")
       \/ UpdateStakeFails(p) /\ Continue(p, "delegating")
    /\ UNCHANGED <<terms, ledger, rewardTables, audit, providerVars>>

FetchToConfirm(p) ==
    LET b == balances[work[p].account] IN
    /\ At(p, "confirm")
    /\ \/ /\ MayConfirmStake(b, AmountOf(p))
          /\ Adjust(p, ConfirmStake(b, AmountOf(p)), "saveConfirm")
       \/ /\ DbMayFail \/ ~MayConfirmStake(b, AmountOf(p))
          /\ Continue(p, "delegating")
    /\ UNCHANGED <<terms, stakes, ledger, rewardTables, audit, providerVars>>

\* Mutant: no continue after the update of the balance failed.
SaveConfirmGoesOn(p) ==
    /\ At(p, "saveConfirm")
    /\ UpdateBalance(p, "confirm") \/ UpdateBalanceFails(p)
    /\ Goto(p, "publishActivated")
    /\ UNCHANGED <<terms, stakes, rewardTables, audit, providerVars>>

SaveConfirm(p) ==
    /\ At(p, "saveConfirm")
    /\ \/ UpdateBalance(p, "confirm") /\ Goto(p, "publishActivated")
       \/ UpdateBalanceFails(p) /\ Continue(p, "delegating")
    /\ UNCHANGED <<terms, stakes, rewardTables, audit, providerVars>>

PublishActivated(p) ==
    /\ At(p, "publishActivated")
    /\ Publish(work[p].id, "stake.activated")
    /\ Continue(p, "delegating")
    /\ UNCHANGED <<terms, stakes, ledger, rewardTables, providerVars>>

SaveFailed(p) ==
    /\ At(p, "saveFailed")
    /\ \/ UpdateStake(p) /\ Goto(p, "release")
       \/ UpdateStakeFails(p) /\ Continue(p, "delegating")
    /\ UNCHANGED <<terms, ledger, rewardTables, audit, providerVars>>

\* The error of ReleaseHold is ignored: the balance is then written back
\* with nothing but a new version.
FetchToRelease(p) ==
    LET b == balances[work[p].account] IN
    /\ At(p, "release")
    /\ \/ /\ MayReleaseHold(b, AmountOf(p))
          /\ Adjust(p, ReleaseHold(b, AmountOf(p)), "saveRelease")
       \/ /\ ~MayReleaseHold(b, AmountOf(p))
          /\ Adjust(p, ReleaseHold(b, AmountOf(p)), "saveUnreleased")
       \/ DbMayFail /\ Goto(p, "publishFailed")
    /\ UNCHANGED <<terms, stakes, ledger, rewardTables, audit, providerVars>>

\* "stake.failed" is published whether or not the balance was saved.
SaveRelease(p) ==
    /\ \/ At(p, "saveRelease") /\ UpdateBalance(p, "release")
       \/ At(p, "saveUnreleased") /\ WriteBalance(p) /\ UNCHANGED <<moved, credited>>
       \/ work[p].pc \in {"saveRelease", "saveUnreleased"} /\ UpdateBalanceFails(p)
    /\ Goto(p, "publishFailed")
    /\ UNCHANGED <<terms, stakes, rewardTables, audit, providerVars>>

PublishFailed(p) ==
    /\ At(p, "publishFailed")
    /\ Publish(work[p].id, "stake.failed")
    /\ Continue(p, "delegating")
    /\ UNCHANGED <<terms, stakes, ledger, rewardTables, providerVars>>

-----------------------------------------------------------------------------
(* reconcileUnstaking                                                      *)

ListUnstaking(p) ==
    /\ Listing(p, "delegating")
    /\ List(p, "UNSTAKING", "unstaking")
    /\ UNCHANGED <<terms, stakes, ledger, rewardTables, audit, providerVars>>

CheckUnstaking(p) ==
    /\ At(p, "unstaking")
    /\ \E i \in StakeIds : IsHead(p, i) /\ \E status \in StatusAnswers(i) :
          \/ /\ status = "WITHDRAWN"
             /\ Reconcile(p, i, Withdraw(work[p].list[i]), "saveWithdrawn")
          \/ /\ status # "WITHDRAWN"
             /\ DropStake(p, i, "unstaking")
    /\ UNCHANGED <<terms, stakes, ledger, rewardTables, audit, providerVars>>

SaveWithdrawn(p) ==
    /\ At(p, "saveWithdrawn")
    /\ \/ UpdateStake(p) /\ Goto(p, "complete")
       \/ UpdateStakeFails(p) /\ Continue(p, "unstaking")
    /\ UNCHANGED <<terms, ledger, rewardTables, audit, providerVars>>

FetchToComplete(p) ==
    LET b == balances[work[p].account] IN
    /\ At(p, "complete")
    /\ \/ /\ MayCompleteUnstake(b, AmountOf(p))
          /\ Adjust(p, CompleteUnstake(b, AmountOf(p)), "saveComplete")
       \/ /\ DbMayFail \/ ~MayCompleteUnstake(b, AmountOf(p))
          /\ Continue(p, "unstaking")
    /\ UNCHANGED <<terms, stakes, ledger, rewardTables, audit, providerVars>>

SaveComplete(p) ==
    /\ At(p, "saveComplete")
    /\ \/ UpdateBalance(p, "complete") /\ Goto(p, "publishWithdrawn")
       \/ UpdateBalanceFails(p) /\ Continue(p, "unstaking")
    /\ UNCHANGED <<terms, stakes, rewardTables, audit, providerVars>>

PublishWithdrawn(p) ==
    /\ At(p, "publishWithdrawn")
    /\ Publish(work[p].id, "stake.withdrawn")
    /\ Continue(p, "unstaking")
    /\ UNCHANGED <<terms, stakes, ledger, rewardTables, providerVars>>

-----------------------------------------------------------------------------
(* fetchRewards                                                            *)

ListActive(p) ==
    /\ Listing(p, "unstaking")
    /\ List(p, "ACTIVE", "rewards")
    /\ UNCHANGED <<terms, stakes, ledger, rewardTables, audit, providerVars>>

FetchRewards(p) ==
    /\ At(p, "rewards")
    /\ \E i \in StakeIds : IsHead(p, i) /\ \E answer \in RewardAnswers(i) :
          \/ /\ answer # <<>>
             /\ Become(p, [work[p] EXCEPT !.id = i, !.account = terms[i].account,
                                          !.entries = answer, !.pc = "readTotal"])
          \/ /\ answer = <<>>
             /\ DropStake(p, i, "rewards")
    /\ UNCHANGED <<terms, stakes, ledger, rewardTables, audit, providerVars>>

\* continue of the inner loop: the next entry, or the next stake.
NextEntry(p) ==
    \/ /\ Len(work[p].entries) > 1
       /\ Become(p, [work[p] EXCEPT !.entries = Tail(work[p].entries), !.total = 0,
                                    !.bal = NoBalance, !.pc = "readTotal"])
    \/ /\ Len(work[p].entries) <= 1
       /\ Continue(p, "rewards")

Entry(p) == Head(work[p].entries)

\* Mutant: the total so far is not read.
ReadNoTotal(p) ==
    /\ At(p, "readTotal")
    /\ Entry(p).amount > 0
    /\ Become(p, [work[p] EXCEPT !.total = Entry(p).amount, !.pc = "createReward"])
    /\ UNCHANGED <<terms, stakes, ledger, rewardTables, audit, providerVars>>

\* GetTotalByStakeID, an error counting as zero, and NewReward, which
\* refuses an amount that is not positive.
ReadTotal(p) ==
    /\ At(p, "readTotal")
    /\ \/ /\ Entry(p).amount > 0
          /\ \E sum \in {rewardSums[work[p].id]} \cup (IF DbMayFail THEN {0} ELSE {}) :
                Become(p, [work[p] EXCEPT !.total = sum + Entry(p).amount,
                                          !.pc = "createReward"])
       \/ /\ Entry(p).amount = 0
          /\ NextEntry(p)
    /\ UNCHANGED <<terms, stakes, ledger, rewardTables, audit, providerVars>>

\* rewardRepo.Create: refused by UNIQUE (stake_id, reward_date); any error
\* is taken for that one.
CreateReward(p) ==
    LET i == work[p].id
        e == Entry(p)
    IN
    /\ At(p, "createReward")
    /\ \/ /\ ~RewardExists(i, e.day)
          /\ InsertReward([stake |-> i, day |-> e.day, amount |-> e.amount,
                           cumulative |-> work[p].total])
          /\ Goto(p, "addReward")
       \/ /\ DbMayFail \/ RewardExists(i, e.day)
          /\ NextEntry(p)
          /\ UNCHANGED rewardTables
    /\ UNCHANGED <<terms, stakes, ledger, audit, providerVars>>

FetchToReward(p) ==
    LET b == balances[work[p].account] IN
    /\ At(p, "addReward")
    /\ \/ Adjust(p, AddReward(b, Entry(p).amount), "saveReward")
       \/ DbMayFail /\ NextEntry(p)
    /\ UNCHANGED <<terms, stakes, ledger, rewardTables, audit, providerVars>>

SaveReward(p) ==
    /\ At(p, "saveReward")
    /\ \/ /\ WriteBalance(p)
          /\ credited' = credited \cup {<<work[p].id, Entry(p).day>>}
          /\ UNCHANGED moved
       \/ UpdateBalanceFails(p)
    /\ NextEntry(p)
    /\ UNCHANGED <<terms, stakes, rewardTables, audit, providerVars>>

EndPoll(p) ==
    /\ Listing(p, "rewards")
    /\ Return(p)
    /\ UNCHANGED <<terms, stakes, ledger, rewardTables, audit, providerVars>>

-----------------------------------------------------------------------------
PollerStep(p) ==
    \/ ListDelegating(p) \/ CheckDelegating(p)
    \/ SaveActive(p) \/ FetchToConfirm(p) \/ SaveConfirm(p) \/ PublishActivated(p)
    \/ SaveFailed(p) \/ FetchToRelease(p) \/ SaveRelease(p) \/ PublishFailed(p)
    \/ ListUnstaking(p) \/ CheckUnstaking(p)
    \/ SaveWithdrawn(p) \/ FetchToComplete(p) \/ SaveComplete(p) \/ PublishWithdrawn(p)
    \/ ListActive(p) \/ FetchRewards(p)
    \/ ReadTotal(p) \/ CreateReward(p) \/ FetchToReward(p) \/ SaveReward(p)
    \/ EndPoll(p)
=============================================================================
