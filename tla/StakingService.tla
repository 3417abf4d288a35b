--------------------------- MODULE StakingService ---------------------------
(***************************************************************************)
(* internal/service: CreateStake, Unstake and CreateOrUpdateBalance as the *)
(* gRPC handler goroutines run them.  Every call to a repository, the      *)
(* provider or the publisher is a step of its own, so any two handlers,    *)
(* and a handler and the poller, interleave between any two calls.         *)
(***************************************************************************)
EXTENDS StakingProvider

CONSTANTS
    Deposits,    \* the values CreateOrUpdateBalance may set available to
    MaxVersion   \* bound: no such request for a balance of a higher version

ASSUME ServiceAssumption == Deposits \subseteq Nat /\ MaxVersion \in Nat

-----------------------------------------------------------------------------
(* StakingService.CreateStake                                              *)

\* The key is not in the table: NewStake makes the entity.  A key that is
\* returns the stored stake, which changes nothing.  NewStake refuses an
\* amount that is not positive.
BeginCreateStake(h, acct, x, k) ==
    /\ At(h, "idle")
    /\ ~KeyTaken(k)
    /\ x > 0
    /\ \E i \in StakeIds :
          /\ ~Created(i)
          /\ \A j \in StakeIds : j < i => Created(j)
          /\ terms' = [terms EXCEPT ![i] = [account |-> acct, amount |-> x, key |-> k]]
          /\ Become(h, [Idle EXCEPT !.pc = "getBalance", !.id = i,
                                    !.account = acct, !.stake = NewStake])
    /\ UNCHANGED <<stakes, ledger, rewardTables, audit, providerVars>>

\* GetByCustomerAndAsset, then Hold and Version++ on the copy.
FetchBalance(h) ==
    LET b == balances[work[h].account] IN
    /\ At(h, "getBalance")
    /\ \/ /\ b # NoBalance
          /\ MayHold(b, AmountOf(h))
          /\ Adjust(h, Hold(b, AmountOf(h)), "hold")
       \/ /\ DbMayFail \/ b = NoBalance \/ ~MayHold(b, AmountOf(h))
          /\ Return(h)
    /\ UNCHANGED <<terms, stakes, ledger, rewardTables, audit, providerVars>>

\* Mutant: the error of the update is only logged.
SaveHoldGoesOn(h) ==
    /\ At(h, "hold")
    /\ UpdateBalance(h, "hold") \/ UpdateBalanceFails(h)
    /\ Goto(h, "insert")
    /\ UNCHANGED <<terms, stakes, rewardTables, audit, providerVars>>

SaveHold(h) ==
    /\ At(h, "hold")
    /\ \/ UpdateBalance(h, "hold") /\ Goto(h, "insert")
       \/ UpdateBalanceFails(h) /\ Return(h)
    /\ UNCHANGED <<terms, stakes, rewardTables, audit, providerVars>>

\* Mutant: no UNIQUE (idempotency_key).
InsertStakeAnyKey(h) ==
    /\ At(h, "insert")
    /\ InsertStakeRow(work[h].id, work[h].stake)
    /\ Goto(h, "stake")
    /\ UNCHANGED <<terms, ledger, rewardTables, audit, providerVars>>

\* stakeRepo.Create: refused by the UNIQUE idempotency key.
InsertStake(h) ==
    LET i == work[h].id IN
    /\ At(h, "insert")
    /\ \/ /\ ~KeyTaken(terms[i].key)
          /\ InsertStakeRow(i, work[h].stake)
          /\ Goto(h, "stake")
       \/ /\ DbMayFail \/ KeyTaken(terms[i].key)
          /\ Return(h)
          /\ UNCHANGED stakes
    /\ UNCHANGED <<terms, ledger, rewardTables, audit, providerVars>>

\* Mutant: stake.Fail is forgotten when the provider fails.
CallStakeForgetsFail(h) ==
    LET i == work[h].id IN
    /\ At(h, "stake")
    /\ \/ /\ ProviderAcceptsStake(i)
          /\ Become(h, [work[h] EXCEPT !.stake = NextVersion(Delegate(work[h].stake)),
                                       !.pc = "saveDelegating"])
       \/ /\ ProviderFailsStake(i)
          /\ Become(h, [work[h] EXCEPT
                !.stake = NextVersion(work[h].stake),
                !.bal = NextVersion(ReleaseHold(work[h].bal, AmountOf(h))),
                !.pc = "failing"])
    /\ UNCHANGED <<terms, stakes, ledger, rewardTables, audit>>

\* provider.Stake; on an error the copies in memory, not the rows, become
\* FAILED and released.
CallStake(h) ==
    LET i == work[h].id IN
    /\ At(h, "stake")
    /\ \/ /\ ProviderAcceptsStake(i)
          /\ Become(h, [work[h] EXCEPT !.stake = NextVersion(Delegate(work[h].stake)),
                                       !.pc = "saveDelegating"])
       \/ /\ ProviderFailsStake(i)
          /\ Become(h, [work[h] EXCEPT
                !.stake = NextVersion(Fail(work[h].stake)),
                !.bal = NextVersion(ReleaseHold(work[h].bal, AmountOf(h))),
                !.pc = "failing"])
    /\ UNCHANGED <<terms, stakes, ledger, rewardTables, audit>>

\* Both failures of the provider-error path are only logged.
SaveFailing(h) ==
    /\ At(h, "failing")
    /\ UpdateStake(h) \/ UpdateStakeFails(h)
    /\ Goto(h, "releasing")
    /\ UNCHANGED <<terms, ledger, rewardTables, audit, providerVars>>

SaveReleasing(h) ==
    /\ At(h, "releasing")
    /\ UpdateBalance(h, "release") \/ UpdateBalanceFails(h)
    /\ Return(h)
    /\ UNCHANGED <<terms, stakes, rewardTables, audit, providerVars>>

SaveDelegating(h) ==
    /\ At(h, "saveDelegating")
    /\ \/ UpdateStake(h) /\ Goto(h, "publishCreated")
       \/ UpdateStakeFails(h) /\ Return(h)
    /\ UNCHANGED <<terms, ledger, rewardTables, audit, providerVars>>

PublishCreated(h) ==
    /\ At(h, "publishCreated")
    /\ Publish(work[h].id, "stake.created")
    /\ Return(h)
    /\ UNCHANGED <<terms, stakes, ledger, rewardTables, providerVars>>

-----------------------------------------------------------------------------
(* StakingService.Unstake                                                  *)

\* GetByID of an ACTIVE stake.  In every other state the call returns at
\* once, with the stake or with an error, and changes nothing.
BeginUnstake(h, i) ==
    /\ At(h, "idle")
    /\ MayUnstake(stakes[i])
    /\ Become(h, [Idle EXCEPT !.pc = "unstake", !.id = i,
                              !.account = terms[i].account,
                              !.stake = Unstake(stakes[i])])
    /\ UNCHANGED <<terms, stakes, ledger, rewardTables, audit, providerVars>>

\* Mutant: the error of provider.Unstake is only logged.
CallUnstakeGoesOn(h) ==
    LET i == work[h].id IN
    /\ At(h, "unstake")
    /\ ProviderAcceptsUnstake(i) \/ ProviderFailsUnstake(i)
    /\ Become(h, [work[h] EXCEPT !.stake = NextVersion(work[h].stake),
                                 !.pc = "saveUnstaking"])
    /\ UNCHANGED <<terms, stakes, ledger, rewardTables, audit>>

CallUnstake(h) ==
    LET i == work[h].id IN
    /\ At(h, "unstake")
    /\ \/ /\ ProviderAcceptsUnstake(i)
          /\ Become(h, [work[h] EXCEPT !.stake = NextVersion(work[h].stake),
                                       !.pc = "saveUnstaking"])
       \/ ProviderFailsUnstake(i) /\ Return(h)
    /\ UNCHANGED <<terms, stakes, ledger, rewardTables, audit>>

\* Mutant: the event is forgotten.
SaveUnstakingSilently(h) ==
    /\ At(h, "saveUnstaking")
    /\ UpdateStake(h) \/ UpdateStakeFails(h)
    /\ Return(h)
    /\ UNCHANGED <<terms, ledger, rewardTables, audit, providerVars>>

SaveUnstaking(h) ==
    /\ At(h, "saveUnstaking")
    /\ \/ UpdateStake(h) /\ Goto(h, "publishUnstake")
       \/ UpdateStakeFails(h) /\ Return(h)
    /\ UNCHANGED <<terms, ledger, rewardTables, audit, providerVars>>

PublishUnstakeRequested(h) ==
    /\ At(h, "publishUnstake")
    /\ Publish(work[h].id, "stake.unstake_requested")
    /\ Return(h)
    /\ UNCHANGED <<terms, stakes, ledger, rewardTables, providerVars>>

-----------------------------------------------------------------------------
(* BalanceService.CreateOrUpdateBalance                                    *)

BeginSetBalance(h, acct, x) ==
    LET b == balances[acct] IN
    /\ At(h, "idle")
    /\ b.version < MaxVersion
    /\ \/ /\ b = NoBalance
          /\ Become(h, [Idle EXCEPT !.pc = "upsert", !.account = acct,
                                    !.bal = [NewBalance EXCEPT !.available = x]])
       \/ /\ b # NoBalance
          /\ Become(h, [Idle EXCEPT !.pc = "overwrite", !.account = acct,
                                    !.bal = NextVersion([b EXCEPT !.available = x])])
    /\ UNCHANGED <<terms, stakes, ledger, rewardTables, audit, providerVars>>

UpsertBalance(h) ==
    /\ At(h, "upsert")
    /\ \/ /\ UpsertBalanceRow(work[h].account, work[h].bal)
          /\ Goto(h, "publishBalance")
       \/ DbMayFail /\ Return(h) /\ UNCHANGED balances
    /\ UNCHANGED <<terms, stakes, moved, credited, rewardTables, audit, providerVars>>

PublishBalanceCreated(h) ==
    /\ At(h, "publishBalance")
    /\ Publish(work[h].account, "balance.created")
    /\ Return(h)
    /\ UNCHANGED <<terms, stakes, ledger, rewardTables, providerVars>>

OverwriteBalance(h) ==
    /\ At(h, "overwrite")
    /\ \/ WriteBalance(h) /\ UNCHANGED <<moved, credited>>
       \/ UpdateBalanceFails(h)
    /\ Return(h)
    /\ UNCHANGED <<terms, stakes, rewardTables, audit, providerVars>>

-----------------------------------------------------------------------------
\* The steps of a request once it has begun.
HandlerStep(h) ==
    \/ FetchBalance(h) \/ SaveHold(h) \/ InsertStake(h) \/ CallStake(h)
    \/ SaveFailing(h) \/ SaveReleasing(h)
    \/ SaveDelegating(h) \/ PublishCreated(h)
    \/ CallUnstake(h) \/ SaveUnstaking(h) \/ PublishUnstakeRequested(h)
    \/ UpsertBalance(h) \/ PublishBalanceCreated(h) \/ OverwriteBalance(h)

Request(h) ==
    \/ \E acct \in Accounts, x \in Amounts, k \in Keys : BeginCreateStake(h, acct, x, k)
    \/ \E i \in StakeIds : BeginUnstake(h, i)
    \/ \E acct \in Accounts, x \in Deposits : BeginSetBalance(h, acct, x)
=============================================================================
