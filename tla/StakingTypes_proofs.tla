------------------------- MODULE StakingTypes_proofs -------------------------
(***************************************************************************)
(* Type correctness of StakingSystem for every instance.  TypeOK is not    *)
(* inductive: that a goroutine reads an account's balance and not nonsense *)
(* needs to know that the stake it is at has been created, which is what   *)
(* Rooted says.                                                            *)
(***************************************************************************)
EXTENDS StakingProperties, StakingDomain_proofs, FiniteSetTheorems

Pcs == HandlerPcs \cup PollerPcs

\* The steps of a goroutine that is at a stake, and those of the reward loop.
StakePcs == Pcs \ {"idle", "upsert", "publishBalance", "overwrite",
                   "delegating", "unstaking", "rewards"}
EntryPcs == {"readTotal", "createReward", "addReward", "saveReward"}

Located(w) ==
    /\ w.pc \in StakePcs => /\ w.id \in StakeIds
                            /\ Created(w.id)
                            /\ w.account = terms[w.id].account
    /\ w.pc \in {"upsert", "publishBalance", "overwrite"} => w.account \in Accounts
    /\ \A i \in StakeIds : w.list[i] # NoStake => Created(i)
    /\ w.pc \in EntryPcs => w.entries # <<>>

\* Every row and every goroutine refers to stakes that were created.
Rooted ==
    /\ \A i \in StakeIds : stakes[i] # NoStake => Created(i)
    /\ \A a \in Actors : Located(work[a])

TypeInv == TypeOK /\ Rooted

Lists == [StakeIds -> Stakes]
Entries == [day : Days, amount : Nat]
Works == [Actors -> Workspace]

-----------------------------------------------------------------------------
(* The local variables of a goroutine                                      *)

\* The fields of a goroutine's memory have their types.
LEMMA WorkspaceFields ==
    ASSUME NEW w \in Workspace
    PROVE  /\ w.pc \in Pcs
           /\ w.id \in StakeIds \cup {0}
           /\ w.account \in Accounts \cup {NoAccount}
           /\ w.stake \in Stakes
           /\ w.bal \in Balances
           /\ w.list \in Lists
           /\ w.entries \in Seq(Entries)
           /\ w.total \in Nat
  BY DEF Workspace, Pcs, Lists, Entries

\* A goroutine that is doing nothing is well typed.
LEMMA IdleType == Idle \in Workspace /\ EmptyList \in Lists
  BY DEF Idle, Workspace, Stakes, Balances, EmptyList, NoStake, NoBalance,
         HandlerPcs, Lists

\* So is one that has just begun something.
LEMMA BeginStakeType ==
    ASSUME NEW pc \in Pcs, NEW i \in StakeIds, NEW acct \in Accounts, NEW s \in Stakes
    PROVE  [Idle EXCEPT !.pc = pc, !.id = i, !.account = acct, !.stake = s] \in Workspace
  BY IdleType DEF Workspace, Pcs

\* A request that sets a balance begins with the balance to write.
LEMMA BeginBalanceType ==
    ASSUME NEW pc \in Pcs, NEW acct \in Accounts, NEW b \in Balances
    PROVE  [Idle EXCEPT !.pc = pc, !.account = acct, !.bal = b] \in Workspace
  BY IdleType DEF Workspace, Pcs

\* A phase of a poll begins with its list.
LEMMA BeginListType ==
    ASSUME NEW pc \in Pcs, NEW l \in Lists
    PROVE  [Idle EXCEPT !.pc = pc, !.list = l] \in Workspace
  BY IdleType DEF Workspace, Pcs, Lists

\* A new program counter.
LEMMA SetPcType ==
    ASSUME NEW w \in Workspace, NEW pc \in Pcs
    PROVE  [w EXCEPT !.pc = pc] \in Workspace
  BY DEF Workspace, Pcs

\* A new balance and a new program counter.
LEMMA SetBalType ==
    ASSUME NEW w \in Workspace, NEW pc \in Pcs, NEW b \in Balances
    PROVE  [w EXCEPT !.bal = b, !.pc = pc] \in Workspace
  BY DEF Workspace, Pcs

\* A new copy of the stake and a new program counter.
LEMMA SetStakeType ==
    ASSUME NEW w \in Workspace, NEW pc \in Pcs, NEW s \in Stakes
    PROVE  [w EXCEPT !.stake = s, !.pc = pc] \in Workspace
  BY DEF Workspace, Pcs

\* Both copies at once, as when the provider has failed the stake.
LEMMA SetStakeBalType ==
    ASSUME NEW w \in Workspace, NEW pc \in Pcs, NEW s \in Stakes, NEW b \in Balances
    PROVE  [w EXCEPT !.stake = s, !.bal = b, !.pc = pc] \in Workspace
  BY DEF Workspace, Pcs

\* The cumulative total about to be inserted.
LEMMA SetTotalType ==
    ASSUME NEW w \in Workspace, NEW pc \in Pcs, NEW n \in Nat
    PROVE  [w EXCEPT !.total = n, !.pc = pc] \in Workspace
  BY DEF Workspace, Pcs

\* The stake a loop has come to, with its account.
LEMMA SetTargetType ==
    ASSUME NEW w \in Workspace, NEW pc \in Pcs, NEW s \in Stakes,
           NEW i \in StakeIds, NEW acct \in Accounts
    PROVE  [w EXCEPT !.id = i, !.account = acct, !.stake = s, !.pc = pc] \in Workspace
  BY DEF Workspace, Pcs

\* The stake of the reward loop and the entries it was answered.
LEMMA SetEntriesType ==
    ASSUME NEW w \in Workspace, NEW pc \in Pcs, NEW e \in Seq(Entries),
           NEW i \in StakeIds, NEW acct \in Accounts
    PROVE  [w EXCEPT !.id = i, !.account = acct, !.entries = e, !.pc = pc] \in Workspace
  BY DEF Workspace, Pcs, Entries

\* The reward loop goes on to the next entry.
LEMMA NextEntriesType ==
    ASSUME NEW w \in Workspace, NEW pc \in Pcs, NEW e \in Seq(Entries),
           NEW n \in Nat, NEW b \in Balances
    PROVE  [w EXCEPT !.entries = e, !.total = n, !.bal = b, !.pc = pc] \in Workspace
  BY DEF Workspace, Pcs, Entries

\* Only goroutine a's memory changes when a step is taken.
LEMMA BecomeType ==
    ASSUME NEW a, NEW w \in Workspace, work \in Works, Become(a, w)
    PROVE  work' \in Works
  BY DEF Works, Become

-----------------------------------------------------------------------------
(* What a goroutine at a stake reads                                       *)

\* The stake a goroutine works on was created, so its account and amount
\* are proper, and the balance it reads is well typed.
LEMMA Reads ==
    ASSUME TypeInv, NEW a \in Actors, work[a].pc \in StakePcs
    PROVE  /\ work[a] \in Workspace
           /\ work[a].id \in StakeIds
           /\ terms[work[a].id] \in Terms
           /\ work[a].account \in Accounts
           /\ AmountOf(a) \in Nat
           /\ balances[work[a].account] \in Balances
<1>1. work[a] \in Workspace
  BY DEF TypeInv, TypeOK
<1>2. /\ work[a].id \in StakeIds
      /\ Created(work[a].id)
      /\ work[a].account = terms[work[a].id].account
  BY DEF TypeInv, Rooted, Located
<1>3. terms[work[a].id] \in Terms
  BY <1>2 DEF TypeInv, TypeOK, Created
<1>4. work[a].account \in Accounts /\ AmountOf(a) \in Nat
  BY <1>2, <1>3, StoreAssumption DEF Terms, AmountOf
<1>. QED BY <1>1, <1>2, <1>3, <1>4 DEF TypeInv, TypeOK

-----------------------------------------------------------------------------
(* The memory of the goroutines stays well typed                           *)

\* Goto and Return, whatever the goroutine.
LEMMA GotoReturnType ==
    ASSUME TypeInv, NEW a \in Actors, NEW pc \in Pcs, Goto(a, pc) \/ Return(a)
    PROVE  work' \in Works
<1>1. work \in Works /\ work[a] \in Workspace
  BY DEF TypeInv, TypeOK, Works
<1>2. [work[a] EXCEPT !.pc = pc] \in Workspace
  BY <1>1, SetPcType
<1>. QED BY <1>1, <1>2, IdleType, BecomeType DEF Goto, Return

\* The goroutine has read its balance and computed what to write.
LEMMA AdjustType ==
    ASSUME TypeInv, NEW a \in Actors, NEW pc \in Pcs, NEW b \in Balances,
           Adjust(a, b, pc)
    PROVE  work' \in Works
<1>1. work \in Works /\ work[a] \in Workspace
  BY DEF TypeInv, TypeOK, Works
<1>2. NextVersion(b) \in Balances
  BY NextVersionType
<1>3. [work[a] EXCEPT !.bal = NextVersion(b), !.pc = pc] \in Workspace
  BY <1>1, <1>2, SetBalType
<1>. QED BY <1>1, <1>3, BecomeType DEF Adjust

\* Requests leave the memory of the goroutines well typed.
LEMMA HandlerWork ==
    ASSUME TypeInv, NEW h \in Handlers, Request(h) \/ HandlerStep(h)
    PROVE  work' \in Works
<1>. h \in Actors /\ work \in Works /\ work[h] \in Workspace
  BY DEF Actors, TypeInv, TypeOK, Works
<1>. HandlerPcs \subseteq Pcs
  BY DEF Pcs
<1>1. ASSUME NEW acct \in Accounts, NEW x \in Amounts, NEW k \in Keys,
             BeginCreateStake(h, acct, x, k)
      PROVE  work' \in Works
  <2>1. PICK i \in StakeIds :
           Become(h, [Idle EXCEPT !.pc = "getBalance", !.id = i,
                                  !.account = acct, !.stake = NewStake])
    BY <1>1 DEF BeginCreateStake
  <2>2. NewStake \in Stakes /\ "getBalance" \in Pcs
    BY DEF NewStake, Stakes, StakeStates, LiveStates, HandlerPcs
  <2>3. [Idle EXCEPT !.pc = "getBalance", !.id = i, !.account = acct, !.stake = NewStake]
           \in Workspace
    BY <2>2, BeginStakeType
  <2>. QED BY <2>1, <2>3, BecomeType
<1>2. ASSUME NEW i \in StakeIds, BeginUnstake(h, i)
      PROVE  work' \in Works
  <2>1. Created(i) /\ stakes[i] \in Stakes
    BY <1>2 DEF BeginUnstake, MayUnstake, NoStake, TypeInv, TypeOK, Rooted
  <2>2. terms[i].account \in Accounts
    BY <2>1 DEF TypeInv, TypeOK, Created, Terms
  <2>3. Unstake(stakes[i]) \in Stakes /\ "unstake" \in Pcs
    BY <2>1, TransitionTypes DEF HandlerPcs
  <2>4. [Idle EXCEPT !.pc = "unstake", !.id = i, !.account = terms[i].account,
                     !.stake = Unstake(stakes[i])] \in Workspace
    BY <2>2, <2>3, BeginStakeType
  <2>. QED BY <1>2, <2>4, BecomeType DEF BeginUnstake
<1>3. ASSUME NEW acct \in Accounts, NEW x \in Deposits, BeginSetBalance(h, acct, x)
      PROVE  work' \in Works
  <2>1. x \in Nat /\ balances[acct] \in Balances /\ NewBalance \in Balances
    BY ServiceAssumption DEF TypeInv, TypeOK, NewBalance, NoBalance, Balances
  <2>2. /\ [NewBalance EXCEPT !.available = x] \in Balances
        /\ NextVersion([balances[acct] EXCEPT !.available = x]) \in Balances
    BY <2>1, BalanceUpdates, NextVersionType
  <2>3. {"upsert", "overwrite"} \subseteq Pcs
    BY DEF HandlerPcs
  <2>4. CASE Become(h, [Idle EXCEPT !.pc = "upsert", !.account = acct,
                                    !.bal = [NewBalance EXCEPT !.available = x]])
    BY <2>2, <2>3, <2>4, BeginBalanceType, BecomeType
  <2>5. CASE Become(h, [Idle EXCEPT !.pc = "overwrite", !.account = acct,
                          !.bal = NextVersion([balances[acct] EXCEPT !.available = x])])
    BY <2>2, <2>3, <2>5, BeginBalanceType, BecomeType
  <2>. QED BY <1>3, <2>4, <2>5 DEF BeginSetBalance
<1>4. CASE FetchBalance(h)
  <2>1. work[h].pc \in StakePcs /\ "hold" \in Pcs
    BY <1>4 DEF FetchBalance, At, StakePcs, HandlerPcs, Pcs
  <2>2. CASE Return(h)
    BY <2>1, <2>2, GotoReturnType
  <2>3. CASE /\ MayHold(balances[work[h].account], AmountOf(h))
             /\ Adjust(h, Hold(balances[work[h].account], AmountOf(h)), "hold")
    BY <2>1, <2>3, Reads, HoldType, AdjustType
  <2>. QED BY <1>4, <2>2, <2>3 DEF FetchBalance
<1>5. CASE SaveHold(h)
  BY <1>5, GotoReturnType DEF SaveHold, HandlerPcs
<1>6. CASE InsertStake(h)
  BY <1>6, GotoReturnType DEF InsertStake, InsertStakeRow, HandlerPcs
<1>7. CASE CallStake(h)
  <2>1. work[h].pc \in StakePcs /\ {"saveDelegating", "failing"} \subseteq Pcs
    BY <1>7 DEF CallStake, At, StakePcs, HandlerPcs, Pcs
  <2>2. work[h].stake \in Stakes /\ work[h].bal \in Balances /\ AmountOf(h) \in Nat
    BY <2>1, WorkspaceFields, Reads
  <2>3. CASE Become(h, [work[h] EXCEPT !.stake = NextVersion(Delegate(work[h].stake)),
                                       !.pc = "saveDelegating"])
    <3>1. NextVersion(Delegate(work[h].stake)) \in Stakes
      BY <2>2, TransitionTypes, NextVersionType
    <3>. QED BY <2>1, <2>3, <3>1, SetStakeType, BecomeType
  <2>4. CASE Become(h, [work[h] EXCEPT
                !.stake = NextVersion(Fail(work[h].stake)),
                !.bal = NextVersion(ReleaseHold(work[h].bal, AmountOf(h))),
                !.pc = "failing"])
    <3>1. /\ NextVersion(Fail(work[h].stake)) \in Stakes
          /\ NextVersion(ReleaseHold(work[h].bal, AmountOf(h))) \in Balances
      BY <2>2, TransitionTypes, NextVersionType, ReleaseHoldType
    <3>. QED BY <2>1, <2>4, <3>1, SetStakeBalType, BecomeType
  <2>. QED BY <1>7, <2>3, <2>4 DEF CallStake
<1>8. CASE SaveFailing(h) \/ SaveReleasing(h)
  BY <1>8, GotoReturnType DEF SaveFailing, SaveReleasing, HandlerPcs
<1>9. CASE SaveDelegating(h) \/ PublishCreated(h)
  BY <1>9, GotoReturnType DEF SaveDelegating, PublishCreated, HandlerPcs
<1>10. CASE CallUnstake(h)
  <2>1. CASE Return(h)
    BY <2>1, GotoReturnType DEF HandlerPcs
  <2>2. CASE Become(h, [work[h] EXCEPT !.stake = NextVersion(work[h].stake),
                                       !.pc = "saveUnstaking"])
    <3>1. NextVersion(work[h].stake) \in Stakes /\ "saveUnstaking" \in Pcs
      BY WorkspaceFields, NextVersionType DEF HandlerPcs
    <3>. QED BY <2>2, <3>1, SetStakeType, BecomeType
  <2>. QED BY <1>10, <2>1, <2>2 DEF CallUnstake
<1>11. CASE SaveUnstaking(h) \/ PublishUnstakeRequested(h)
  BY <1>11, GotoReturnType DEF SaveUnstaking, PublishUnstakeRequested, HandlerPcs
<1>12. CASE UpsertBalance(h) \/ PublishBalanceCreated(h) \/ OverwriteBalance(h)
  BY <1>12, GotoReturnType
     DEF UpsertBalance, UpsertBalanceRow, PublishBalanceCreated, OverwriteBalance, HandlerPcs
<1>. QED
  BY <1>1, <1>2, <1>3, <1>4, <1>5, <1>6, <1>7, <1>8, <1>9, <1>10, <1>11, <1>12
     DEF Request, HandlerStep

\* What the loop of a phase looks at: a created stake and its listed copy.
LEMMA HeadReads ==
    ASSUME TypeInv, NEW p \in Pollers, NEW i \in StakeIds, IsHead(p, i)
    PROVE  /\ work[p] \in Workspace
           /\ Created(i)
           /\ terms[i].account \in Accounts
           /\ terms[i].amount \in Nat
           /\ work[p].list[i] \in Stakes
<1>. p \in Actors
  BY DEF Actors
<1>1. work[p] \in Workspace /\ work[p].list \in Lists
  BY WorkspaceFields DEF TypeInv, TypeOK
<1>2. Created(i)
  BY DEF TypeInv, Rooted, Located, IsHead
<1>3. terms[i] \in Terms
  BY <1>2 DEF TypeInv, TypeOK, Created
<1>. QED BY <1>1, <1>2, <1>3, StoreAssumption DEF Lists, Terms

\* continue, whatever the loop.
LEMMA DropStakeType ==
    ASSUME TypeInv, NEW p \in Pollers, NEW i, NEW phase \in Pcs, DropStake(p, i, phase)
    PROVE  work' \in Works
<1>. p \in Actors
  BY DEF Actors
<1>1. work \in Works /\ work[p].list \in Lists
  BY WorkspaceFields DEF TypeInv, TypeOK, Works
<1>2. NoStake \in Stakes
  BY DEF NoStake, Stakes
<1>3. [work[p].list EXCEPT ![i] = NoStake] \in Lists
  BY <1>1, <1>2 DEF Lists
<1>4. [Idle EXCEPT !.pc = phase, !.list = [work[p].list EXCEPT ![i] = NoStake]] \in Workspace
  BY <1>3, BeginListType
<1>. QED BY <1>1, <1>4, BecomeType DEF DropStake

\* A phase begins with the rows of one state, or with none.
LEMMA ListType ==
    ASSUME TypeInv, NEW p \in Pollers, NEW state, NEW phase \in Pcs,
           List(p, state, phase)
    PROVE  work' \in Works
<1>. work \in Works
  BY DEF TypeInv, TypeOK, Works
<1>1. NoStake \in Stakes
  BY DEF NoStake, Stakes
<1>2. ListByState(state) \in Lists
  BY <1>1 DEF ListByState, OldestInState, Lists, TypeInv, TypeOK
<1>3. PICK list \in Lists : Become(p, [Idle EXCEPT !.pc = phase, !.list = list])
  BY <1>2, IdleType DEF List
<1>. QED BY <1>3, BeginListType, BecomeType

\* A listed stake is changed and about to be written.
LEMMA ReconcileType ==
    ASSUME TypeInv, NEW p \in Pollers, NEW i \in StakeIds, IsHead(p, i),
           NEW s \in Stakes, NEW pc \in Pcs, Reconcile(p, i, s, pc)
    PROVE  work' \in Works
<1>1. work \in Works
  BY DEF TypeInv, TypeOK, Works
<1>2. work[p] \in Workspace /\ terms[i].account \in Accounts /\ NextVersion(s) \in Stakes
  BY HeadReads, NextVersionType
<1>3. [work[p] EXCEPT !.id = i, !.account = terms[i].account,
                      !.stake = NextVersion(s), !.pc = pc] \in Workspace
  BY <1>2, SetTargetType
<1>. QED BY <1>1, <1>3, BecomeType DEF Reconcile

\* A reward is a natural number.
LEMMA DailyRewardType ==
    ASSUME TypeInv, NEW i \in StakeIds, Created(i)
    PROVE  DailyReward(i) \in Nat
<1>1. terms[i] \in Terms
  BY DEF TypeInv, TypeOK, Created
<1>2. terms[i].amount \in Nat
  BY <1>1, StoreAssumption DEF Terms
<1>3. \A x, y \in Nat : x * y \in Nat
  OBVIOUS
<1>. QED BY <1>2, <1>3, ProviderAssumption DEF DailyReward

\* Only a created stake earns: the row of an uncreated one has no amount.
LEMMA EarningType ==
    ASSUME TypeInv, NEW i \in StakeIds
    PROVE  DailyReward(i) \in Nat
<1>1. CASE Created(i)
  BY <1>1, DailyRewardType
<1>2. CASE ~Created(i)
  <2>1. terms[i].amount = 0
    BY <1>2 DEF Created, NoTerms
  <2>. QED BY <2>1, ProviderAssumption DEF DailyReward
<1>. QED BY <1>1, <1>2

\* The provider answers with sequences of entries.
LEMMA RewardAnswersType ==
    ASSUME TypeInv, NEW i \in StakeIds, Created(i), NEW answer \in RewardAnswers(i)
    PROVE  answer \in Seq(Entries)
<1>1. day \in Days
  BY DEF TypeInv, TypeOK
<1>2. CASE answer = <<>>
  BY <1>2
<1>3. CASE answer = <<[day |-> day, amount |-> DailyReward(i)]>>
  <2>1. [day |-> day, amount |-> DailyReward(i)] \in Entries
    BY <1>1, DailyRewardType DEF Entries
  <2>. QED BY <1>3, <2>1
<1>4. CASE answer \in WalletRewards
  <2>1. PICK S \in SUBSET Earning : answer \in EntriesOf(S)
    BY <1>4 DEF WalletRewards
  <2>2. PICK f \in Bijection(1 .. Cardinality(S), S) :
           answer = [n \in DOMAIN f |-> [day |-> day, amount |-> DailyReward(f[n])]]
    BY <2>1 DEF EntriesOf
  <2>3. f \in [1 .. Cardinality(S) -> S]
    BY <2>2 DEF Bijection, Injection, Surjection
  <2>4. Cardinality(S) \in Nat
    <3>1. IsFiniteSet(1 .. MaxStakes)
      BY FS_Interval, StoreAssumption
    <3>2. IsFiniteSet(S)
      BY <2>1, <3>1, FS_Subset DEF Earning, StakeIds
    <3>. QED BY <3>2, FS_CardinalityType
  <2>5. \A n \in 1 .. Cardinality(S) :
           [day |-> day, amount |-> DailyReward(f[n])] \in Entries
    BY <1>1, <2>1, <2>3, EarningType DEF Entries, Earning
  <2>6. answer \in [1 .. Cardinality(S) -> Entries]
    BY <2>2, <2>3, <2>5
  <2>. QED BY <2>4, <2>6
<1>. QED BY <1>2, <1>3, <1>4 DEF RewardAnswers

\* The entry the reward loop is at.
LEMMA EntryReads ==
    ASSUME TypeInv, NEW p \in Pollers, work[p].pc \in EntryPcs
    PROVE  /\ work[p] \in Workspace
           /\ work[p].entries \in Seq(Entries)
           /\ work[p].entries # <<>>
           /\ Entry(p) \in Entries
           /\ Entry(p).day \in Days
           /\ Entry(p).amount \in Nat
           /\ work[p].total \in Nat
<1>. p \in Actors
  BY DEF Actors
<1>1. work[p] \in Workspace /\ work[p].entries \in Seq(Entries) /\ work[p].total \in Nat
  BY WorkspaceFields DEF TypeInv, TypeOK
<1>2. work[p].entries # <<>>
  BY DEF TypeInv, Rooted, Located
<1>3. Entry(p) \in Entries
  BY <1>1, <1>2 DEF Entry
<1>. QED BY <1>1, <1>2, <1>3 DEF Entries

\* continue of the inner loop.
LEMMA NextEntryType ==
    ASSUME TypeInv, NEW p \in Pollers, work[p].pc \in EntryPcs, NextEntry(p)
    PROVE  work' \in Works
<1>1. work \in Works
  BY DEF TypeInv, TypeOK, Works
<1>2. {"readTotal", "rewards"} \subseteq Pcs
  BY DEF Pcs, PollerPcs
<1>3. CASE Continue(p, "rewards")
  BY <1>2, <1>3, DropStakeType DEF Continue
<1>4. CASE /\ Len(work[p].entries) > 1
           /\ Become(p, [work[p] EXCEPT !.entries = Tail(work[p].entries), !.total = 0,
                                        !.bal = NoBalance, !.pc = "readTotal"])
  <2>1. Tail(work[p].entries) \in Seq(Entries) /\ work[p] \in Workspace
    BY EntryReads
  <2>2. NoBalance \in Balances
    BY DEF NoBalance, Balances
  <2>3. [work[p] EXCEPT !.entries = Tail(work[p].entries), !.total = 0,
                        !.bal = NoBalance, !.pc = "readTotal"] \in Workspace
    BY <1>2, <2>1, <2>2, NextEntriesType
  <2>. QED BY <1>1, <1>4, <2>3, BecomeType
<1>. QED BY <1>3, <1>4 DEF NextEntry

\* The two list loops and the balance steps that follow a saved state.
LEMMA ReconcilerWork ==
    ASSUME TypeInv, NEW p \in Pollers,
           \/ ListDelegating(p) \/ CheckDelegating(p)
           \/ SaveActive(p) \/ FetchToConfirm(p) \/ SaveConfirm(p) \/ PublishActivated(p)
           \/ SaveFailed(p) \/ FetchToRelease(p) \/ SaveRelease(p) \/ PublishFailed(p)
           \/ ListUnstaking(p) \/ CheckUnstaking(p)
           \/ SaveWithdrawn(p) \/ FetchToComplete(p) \/ SaveComplete(p)
           \/ PublishWithdrawn(p)
    PROVE  work' \in Works
<1>. p \in Actors
  BY DEF Actors
<1>. PollerPcs \subseteq Pcs
  BY DEF Pcs
<1>0. {"delegating", "unstaking"} \subseteq Pcs
  BY DEF PollerPcs
<1>1. CASE ListDelegating(p) \/ ListUnstaking(p)
  BY <1>0, <1>1, ListType DEF ListDelegating, ListUnstaking
<1>2. CASE CheckDelegating(p)
  <2>1. PICK i \in StakeIds :
           /\ IsHead(p, i)
           /\ \/ Reconcile(p, i, Activate(work[p].list[i]), "saveActive")
              \/ Reconcile(p, i, Fail(work[p].list[i]), "saveFailed")
              \/ DropStake(p, i, "delegating")
    BY <1>2 DEF CheckDelegating
  <2>2. /\ Activate(work[p].list[i]) \in Stakes
        /\ Fail(work[p].list[i]) \in Stakes
        /\ {"saveActive", "saveFailed"} \subseteq Pcs
    BY <2>1, HeadReads, TransitionTypes DEF PollerPcs
  <2>. QED BY <1>0, <2>1, <2>2, ReconcileType, DropStakeType
<1>3. CASE CheckUnstaking(p)
  <2>1. PICK i \in StakeIds :
           /\ IsHead(p, i)
           /\ \/ Reconcile(p, i, Withdraw(work[p].list[i]), "saveWithdrawn")
              \/ DropStake(p, i, "unstaking")
    BY <1>3 DEF CheckUnstaking
  <2>2. Withdraw(work[p].list[i]) \in Stakes /\ "saveWithdrawn" \in Pcs
    BY <2>1, HeadReads, TransitionTypes DEF PollerPcs
  <2>. QED BY <1>0, <2>1, <2>2, ReconcileType, DropStakeType
<1>4. CASE SaveActive(p) \/ SaveConfirm(p) \/ PublishActivated(p)
  BY <1>0, <1>4, GotoReturnType, DropStakeType
     DEF SaveActive, SaveConfirm, PublishActivated, Continue, PollerPcs
<1>5. CASE SaveFailed(p) \/ SaveRelease(p) \/ PublishFailed(p)
  BY <1>0, <1>5, GotoReturnType, DropStakeType
     DEF SaveFailed, SaveRelease, PublishFailed, Continue, PollerPcs
<1>6. CASE SaveWithdrawn(p) \/ SaveComplete(p) \/ PublishWithdrawn(p)
  BY <1>0, <1>6, GotoReturnType, DropStakeType
     DEF SaveWithdrawn, SaveComplete, PublishWithdrawn, Continue, PollerPcs
<1>7. CASE FetchToConfirm(p)
  <2>1. work[p].pc \in StakePcs /\ "saveConfirm" \in Pcs
    BY <1>7 DEF FetchToConfirm, At, StakePcs, PollerPcs, Pcs
  <2>2. CASE Continue(p, "delegating")
    BY <1>0, <2>2, DropStakeType DEF Continue
  <2>3. CASE /\ MayConfirmStake(balances[work[p].account], AmountOf(p))
             /\ Adjust(p, ConfirmStake(balances[work[p].account], AmountOf(p)),
                       "saveConfirm")
    BY <2>1, <2>3, Reads, ConfirmStakeType, AdjustType
  <2>. QED BY <1>7, <2>2, <2>3 DEF FetchToConfirm
<1>8. CASE FetchToRelease(p)
  <2>1. /\ work[p].pc \in StakePcs
        /\ {"saveRelease", "saveUnreleased", "publishFailed"} \subseteq Pcs
    BY <1>8 DEF FetchToRelease, At, StakePcs, PollerPcs, Pcs
  <2>2. ReleaseHold(balances[work[p].account], AmountOf(p)) \in Balances
    BY <2>1, Reads, ReleaseHoldType
  <2>. QED BY <1>8, <2>1, <2>2, AdjustType, GotoReturnType DEF FetchToRelease
<1>9. CASE FetchToComplete(p)
  <2>1. work[p].pc \in StakePcs /\ "saveComplete" \in Pcs
    BY <1>9 DEF FetchToComplete, At, StakePcs, PollerPcs, Pcs
  <2>2. CASE Continue(p, "unstaking")
    BY <1>0, <2>2, DropStakeType DEF Continue
  <2>3. CASE /\ MayCompleteUnstake(balances[work[p].account], AmountOf(p))
             /\ Adjust(p, CompleteUnstake(balances[work[p].account], AmountOf(p)),
                       "saveComplete")
    BY <2>1, <2>3, Reads, CompleteUnstakeType, AdjustType
  <2>. QED BY <1>9, <2>2, <2>3 DEF FetchToComplete
<1>. QED BY <1>1, <1>2, <1>3, <1>4, <1>5, <1>6, <1>7, <1>8, <1>9

\* The reward loop.
LEMMA RewardWork ==
    ASSUME TypeInv, NEW p \in Pollers,
           \/ ListActive(p) \/ FetchRewards(p) \/ ReadTotal(p) \/ CreateReward(p)
           \/ FetchToReward(p) \/ SaveReward(p) \/ EndPoll(p)
    PROVE  work' \in Works
<1>. p \in Actors /\ work \in Works
  BY DEF Actors, TypeInv, TypeOK, Works
<1>. {"idle", "rewards", "readTotal", "createReward", "addReward", "saveReward"}
        \subseteq Pcs
  BY DEF Pcs, PollerPcs
<1>1. CASE ListActive(p)
  BY <1>1, ListType DEF ListActive
<1>2. CASE FetchRewards(p)
  <2>0. PICK i \in StakeIds :
           /\ IsHead(p, i)
           /\ \E answer \in RewardAnswers(i) :
                 \/ Become(p, [work[p] EXCEPT !.id = i, !.account = terms[i].account,
                                             !.entries = answer, !.pc = "readTotal"])
                 \/ DropStake(p, i, "rewards")
    BY <1>2 DEF FetchRewards
  <2>1. PICK answer \in RewardAnswers(i) :
           \/ Become(p, [work[p] EXCEPT !.id = i, !.account = terms[i].account,
                                        !.entries = answer, !.pc = "readTotal"])
           \/ DropStake(p, i, "rewards")
    BY <2>0
  <2>2. /\ work[p] \in Workspace
        /\ terms[i].account \in Accounts
        /\ answer \in Seq(Entries)
    BY <2>0, HeadReads, RewardAnswersType
  <2>3. [work[p] EXCEPT !.id = i, !.account = terms[i].account,
                        !.entries = answer, !.pc = "readTotal"] \in Workspace
    BY <2>2, SetEntriesType
  <2>. QED BY <2>1, <2>3, BecomeType, DropStakeType
<1>3. CASE ReadTotal(p)
  <2>1. work[p].pc \in EntryPcs
    BY <1>3 DEF ReadTotal, At, EntryPcs
  <2>2. CASE NextEntry(p)
    BY <2>1, <2>2, NextEntryType
  <2>3. ASSUME NEW sum \in {rewardSums[work[p].id], 0},
               Become(p, [work[p] EXCEPT !.total = sum + Entry(p).amount,
                                         !.pc = "createReward"])
        PROVE  work' \in Works
    <3>1. sum \in Nat
      <4>1. work[p].id \in StakeIds
        BY <2>1, Reads DEF EntryPcs, StakePcs, Pcs, PollerPcs
      <4>. QED BY <2>3, <4>1 DEF TypeInv, TypeOK
    <3>2. sum + Entry(p).amount \in Nat /\ work[p] \in Workspace
      BY <2>1, <3>1, EntryReads
    <3>3. [work[p] EXCEPT !.total = sum + Entry(p).amount, !.pc = "createReward"]
             \in Workspace
      BY <3>2, SetTotalType
    <3>. QED BY <2>3, <3>3, BecomeType
  <2>. QED BY <1>3, <2>2, <2>3 DEF ReadTotal
<1>4. CASE CreateReward(p)
  <2>1. work[p].pc \in EntryPcs
    BY <1>4 DEF CreateReward, At, EntryPcs
  <2>. QED BY <1>4, <2>1, GotoReturnType, NextEntryType DEF CreateReward
<1>5. CASE FetchToReward(p)
  <2>1. work[p].pc \in EntryPcs /\ work[p].pc \in StakePcs
    BY <1>5 DEF FetchToReward, At, EntryPcs, StakePcs, Pcs, PollerPcs
  <2>2. AddReward(balances[work[p].account], Entry(p).amount) \in Balances
    BY <2>1, Reads, EntryReads, AddRewardType
  <2>. QED BY <1>5, <2>1, <2>2, AdjustType, NextEntryType DEF FetchToReward
<1>6. CASE SaveReward(p)
  <2>1. work[p].pc \in EntryPcs
    BY <1>6 DEF SaveReward, WriteBalance, At, EntryPcs
  <2>. QED BY <1>6, <2>1, NextEntryType DEF SaveReward
<1>7. CASE EndPoll(p)
  BY <1>7, GotoReturnType DEF EndPoll
<1>. QED BY <1>1, <1>2, <1>3, <1>4, <1>5, <1>6, <1>7

\* Every step leaves the memory of the goroutines well typed.
LEMMA NextWork ==
    ASSUME TypeInv, [Next]_vars
    PROVE  work' \in Works
<1>. work \in Works
  BY DEF TypeInv, TypeOK, Works
<1>1. ASSUME NEW h \in Handlers, Request(h) \/ HandlerStep(h)
      PROVE  work' \in Works
  BY <1>1, HandlerWork
<1>2. ASSUME NEW p \in Pollers, PollerStep(p)
      PROVE  work' \in Works
  BY <1>2, ReconcilerWork, RewardWork DEF PollerStep
<1>3. ASSUME NEW a \in Actors, Abandon(a)
      PROVE  work' \in Works
  BY <1>3, IdleType, BecomeType DEF Abandon, Return
<1>4. CASE Crash
  BY <1>4, IdleType DEF Crash, Works
<1>5. CASE Environment \/ UNCHANGED vars
  BY <1>5 DEF Environment, vars
<1>. QED BY <1>1, <1>2, <1>3, <1>4, <1>5 DEF Next

-----------------------------------------------------------------------------
(* The tables, the histories and the provider stay well typed              *)

StoreTyped ==
    /\ terms \in [StakeIds -> Terms \cup {NoTerms}]
    /\ stakes \in [StakeIds -> Stakes]

LedgerTyped ==
    /\ balances \in [Accounts -> Balances]
    /\ moved \in [StakeIds -> SUBSET Moves]
    /\ credited \subseteq StakeIds \X Days

RewardsTyped ==
    /\ \A r \in rewards : /\ r.stake \in StakeIds
                          /\ r.day \in Days
                          /\ r.amount \in Nat
                          /\ r.cumulative \in Nat
    /\ rewardSums \in [StakeIds -> Nat]

ProviderTyped ==
    /\ provider \in [StakeIds -> ProviderStatuses \cup {"none"}]
    /\ unstakeCalls \in [StakeIds -> 0 .. 2]
    /\ day \in Days

\* The parts of TypeOK, one for each group of variables that steps leave alone.
LEMMA TypeParts ==
    TypeOK <=> StoreTyped /\ LedgerTyped /\ RewardsTyped /\ ProviderTyped /\ work \in Works
  BY DEF TypeOK, StoreTyped, LedgerTyped, RewardsTyped, ProviderTyped, Works

\* A group that a step leaves alone stays well typed.
LEMMA Untouched ==
    ASSUME TypeInv
    PROVE  /\ UNCHANGED <<terms, stakes>> => StoreTyped'
           /\ UNCHANGED ledger => LedgerTyped'
           /\ UNCHANGED rewardTables => RewardsTyped'
           /\ UNCHANGED providerVars => ProviderTyped'
<1>. StoreTyped /\ LedgerTyped /\ RewardsTyped /\ ProviderTyped
  BY TypeParts DEF TypeInv
<1>1. UNCHANGED <<terms, stakes>> => StoreTyped'
  BY DEF StoreTyped
<1>2. UNCHANGED ledger => LedgerTyped'
  BY DEF LedgerTyped, ledger
<1>3. UNCHANGED rewardTables => RewardsTyped'
  BY DEF RewardsTyped, rewardTables
<1>4. UNCHANGED providerVars => ProviderTyped'
  BY DEF ProviderTyped, providerVars
<1>. QED BY <1>1, <1>2, <1>3, <1>4

\* UPDATE stakes writes the goroutine's copy, or nothing.
LEMMA UpdateStakeTyped ==
    ASSUME TypeInv, NEW a \in Actors, UpdateStake(a) \/ UpdateStakeFails(a),
           UNCHANGED terms
    PROVE  StoreTyped'
<1>1. work[a].stake \in Stakes
  BY WorkspaceFields DEF TypeInv, TypeOK
<1>. QED BY <1>1 DEF TypeInv, TypeOK, StoreTyped, UpdateStake, UpdateStakeFails

\* UPDATE balances does the same, and the histories record what it carried.
LEMMA UpdateBalanceTyped ==
    ASSUME TypeInv, NEW a \in Actors,
           \/ \E op \in Moves : UpdateBalance(a, op)
           \/ UpdateBalanceFails(a)
           \/ WriteBalance(a) /\ UNCHANGED <<moved, credited>>
    PROVE  LedgerTyped'
<1>1. work[a].bal \in Balances
  BY WorkspaceFields DEF TypeInv, TypeOK
<1>2. WriteBalance(a) => balances' \in [Accounts -> Balances]
  BY <1>1 DEF TypeInv, TypeOK, WriteBalance
<1>3. CASE UpdateBalanceFails(a)
  BY <1>3, Untouched DEF UpdateBalanceFails
<1>4. ASSUME NEW op \in Moves, UpdateBalance(a, op)
      PROVE  LedgerTyped'
  <2>1. moved' \in [StakeIds -> SUBSET Moves]
    BY <1>4 DEF UpdateBalance, TypeInv, TypeOK
  <2>. QED BY <1>2, <1>4, <2>1 DEF UpdateBalance, LedgerTyped, TypeInv, TypeOK
<1>5. CASE WriteBalance(a) /\ UNCHANGED <<moved, credited>>
  BY <1>2, <1>5 DEF LedgerTyped, TypeInv, TypeOK
<1>. QED BY <1>3, <1>4, <1>5

\* The provider's memory after a call.
LEMMA ProviderCallTyped ==
    ASSUME TypeInv, NEW i,
           \/ ProviderAcceptsStake(i) \/ ProviderFailsStake(i)
           \/ ProviderAcceptsUnstake(i) \/ ProviderFailsUnstake(i)
    PROVE  ProviderTyped'
<1>1. CASE UNCHANGED providerVars
  BY <1>1, Untouched
<1>2. CASE ProviderAcceptsStake(i)
  BY <1>2 DEF ProviderAcceptsStake, AcceptedAs, ProviderTyped, ProviderStatuses,
              TypeInv, TypeOK
<1>3. CASE ProviderAcceptsUnstake(i)
  <2>1. provider' \in [StakeIds -> ProviderStatuses \cup {"none"}]
    BY <1>3 DEF ProviderAcceptsUnstake, ProviderStatuses, TypeInv, TypeOK
  <2>2. unstakeCalls' \in [StakeIds -> 0 .. 2]
    <3>. DEFINE Once(n) == IF n = 2 THEN 2 ELSE n + 1
    <3>1. \A n \in 0 .. 2 : Once(n) \in 0 .. 2
      OBVIOUS
    <3>2. unstakeCalls' = [unstakeCalls EXCEPT ![i] = Once(unstakeCalls[i])]
      BY <1>3 DEF ProviderAcceptsUnstake
    <3>3. unstakeCalls \in [StakeIds -> 0 .. 2]
      BY DEF TypeInv, TypeOK
    <3>. HIDE DEF Once
    <3>. QED BY <3>1, <3>2, <3>3
  <2>. QED BY <1>3, <2>1, <2>2 DEF ProviderAcceptsUnstake, ProviderTyped, TypeInv, TypeOK
<1>. QED BY <1>1, <1>2, <1>3 DEF ProviderFailsStake, ProviderFailsUnstake

\* A request or a step of a handler.
LEMMA HandlerTables ==
    ASSUME TypeInv, NEW h \in Handlers, Request(h) \/ HandlerStep(h)
    PROVE  StoreTyped' /\ LedgerTyped' /\ RewardsTyped' /\ ProviderTyped'
<1>. h \in Actors
  BY DEF Actors
<1>. {"hold", "release"} \subseteq Moves
  BY DEF Moves
<1>1. ASSUME NEW acct \in Accounts, NEW x \in Amounts, NEW k \in Keys,
             BeginCreateStake(h, acct, x, k)
      PROVE  StoreTyped' /\ LedgerTyped' /\ RewardsTyped' /\ ProviderTyped'
  <2>1. PICK i \in StakeIds :
           terms' = [terms EXCEPT ![i] = [account |-> acct, amount |-> x, key |-> k]]
    BY <1>1 DEF BeginCreateStake
  <2>2. StoreTyped'
    BY <1>1, <2>1 DEF BeginCreateStake, StoreTyped, TypeInv, TypeOK, Terms
  <2>. QED BY <1>1, <2>2, Untouched DEF BeginCreateStake
<1>2. CASE \/ \E i \in StakeIds : BeginUnstake(h, i)
           \/ \E acct \in Accounts, x \in Deposits : BeginSetBalance(h, acct, x)
           \/ FetchBalance(h)
           \/ PublishCreated(h) \/ PublishUnstakeRequested(h) \/ PublishBalanceCreated(h)
  BY <1>2, Untouched
     DEF BeginUnstake, BeginSetBalance, FetchBalance,
         PublishCreated, PublishUnstakeRequested, PublishBalanceCreated
<1>3. CASE SaveHold(h) \/ SaveReleasing(h)
  BY <1>3, Untouched, UpdateBalanceTyped DEF SaveHold, SaveReleasing
<1>4. CASE InsertStake(h)
  <2>1. work[h].stake \in Stakes
    BY WorkspaceFields DEF TypeInv, TypeOK
  <2>2. StoreTyped'
    BY <1>4, <2>1 DEF InsertStake, InsertStakeRow, StoreTyped, TypeInv, TypeOK
  <2>. QED BY <1>4, <2>2, Untouched DEF InsertStake, InsertStakeRow
<1>5. CASE SaveFailing(h) \/ SaveDelegating(h) \/ SaveUnstaking(h)
  BY <1>5, Untouched, UpdateStakeTyped DEF SaveFailing, SaveDelegating, SaveUnstaking
<1>6. CASE CallStake(h) \/ CallUnstake(h)
  BY <1>6, Untouched, ProviderCallTyped DEF CallStake, CallUnstake
<1>7. CASE UpsertBalance(h)
  <2>1. work[h].bal \in Balances
    BY WorkspaceFields DEF TypeInv, TypeOK
  <2>2. LedgerTyped'
    BY <1>7, <2>1 DEF UpsertBalance, UpsertBalanceRow, LedgerTyped, TypeInv, TypeOK
  <2>. QED BY <1>7, <2>2, Untouched DEF UpsertBalance, UpsertBalanceRow
<1>8. CASE OverwriteBalance(h)
  BY <1>8, Untouched, UpdateBalanceTyped DEF OverwriteBalance
<1>. QED BY <1>1, <1>2, <1>3, <1>4, <1>5, <1>6, <1>7, <1>8 DEF Request, HandlerStep

\* A step of a poller.
LEMMA PollerTables ==
    ASSUME TypeInv, NEW p \in Pollers, PollerStep(p)
    PROVE  StoreTyped' /\ LedgerTyped' /\ RewardsTyped' /\ ProviderTyped'
<1>. p \in Actors
  BY DEF Actors
<1>. {"confirm", "release", "complete"} \subseteq Moves
  BY DEF Moves
<1>1. CASE \/ ListDelegating(p) \/ ListUnstaking(p) \/ ListActive(p)
           \/ CheckDelegating(p) \/ CheckUnstaking(p) \/ FetchRewards(p)
  BY <1>1, Untouched DEF ListDelegating, ListUnstaking, ListActive,
                         CheckDelegating, CheckUnstaking, FetchRewards
<1>2. CASE \/ FetchToConfirm(p) \/ FetchToRelease(p) \/ FetchToComplete(p)
           \/ FetchToReward(p) \/ ReadTotal(p) \/ EndPoll(p)
  BY <1>2, Untouched DEF FetchToConfirm, FetchToRelease, FetchToComplete,
                         FetchToReward, ReadTotal, EndPoll
<1>3. CASE PublishActivated(p) \/ PublishFailed(p) \/ PublishWithdrawn(p)
  BY <1>3, Untouched DEF PublishActivated, PublishFailed, PublishWithdrawn
<1>4. CASE SaveActive(p) \/ SaveFailed(p) \/ SaveWithdrawn(p)
  BY <1>4, Untouched, UpdateStakeTyped DEF SaveActive, SaveFailed, SaveWithdrawn
<1>5. CASE SaveConfirm(p) \/ SaveRelease(p) \/ SaveComplete(p)
  BY <1>5, Untouched, UpdateBalanceTyped DEF SaveConfirm, SaveRelease, SaveComplete
<1>6. CASE CreateReward(p)
  <2>1. work[p].pc \in EntryPcs /\ work[p].pc \in StakePcs
    BY <1>6 DEF CreateReward, At, EntryPcs, StakePcs, Pcs, PollerPcs
  <2>. DEFINE r == [stake |-> work[p].id, day |-> Entry(p).day,
                    amount |-> Entry(p).amount, cumulative |-> work[p].total]
  <2>2. /\ r.stake \in StakeIds /\ r.day \in Days
        /\ r.amount \in Nat /\ r.cumulative \in Nat
    BY <2>1, Reads, EntryReads
  <2>3. InsertReward(r) \/ UNCHANGED rewardTables
    BY <1>6 DEF CreateReward
  <2>. HIDE DEF r
  <2>4. RewardsTyped'
    <3>1. CASE InsertReward(r)
      <4>1. rewardSums[r.stake] + r.amount \in Nat
        BY <2>2 DEF TypeInv, TypeOK
      <4>2. rewardSums' \in [StakeIds -> Nat]
        BY <3>1, <4>1 DEF InsertReward, TypeInv, TypeOK
      <4>. QED BY <2>2, <3>1, <4>2 DEF InsertReward, RewardsTyped, TypeInv, TypeOK
    <3>. QED BY <2>3, <3>1, Untouched
  <2>. QED BY <1>6, <2>4, Untouched DEF CreateReward
<1>7. CASE SaveReward(p)
  <2>1. /\ At(p, "saveReward")
        /\ \/ /\ WriteBalance(p)
              /\ credited' = credited \cup {<<work[p].id, Entry(p).day>>}
              /\ UNCHANGED moved
           \/ UpdateBalanceFails(p)
    BY <1>7 DEF SaveReward
  <2>2. <<work[p].id, Entry(p).day>> \in StakeIds \X Days /\ work[p].bal \in Balances
    <3>1. work[p].pc \in EntryPcs /\ work[p].pc \in StakePcs
      BY <2>1 DEF At, EntryPcs, StakePcs, Pcs, PollerPcs
    <3>. QED BY <3>1, Reads, EntryReads, WorkspaceFields
  <2>3. LedgerTyped'
    BY <2>1, <2>2, UpdateBalanceTyped DEF WriteBalance, LedgerTyped, TypeInv, TypeOK
  <2>. QED BY <1>7, <2>3, Untouched DEF SaveReward
<1>. QED BY <1>1, <1>2, <1>3, <1>4, <1>5, <1>6, <1>7 DEF PollerStep

\* Every step leaves every variable well typed.
LEMMA NextTyped ==
    ASSUME TypeInv, [Next]_vars
    PROVE  TypeOK'
<1>1. StoreTyped' /\ LedgerTyped' /\ RewardsTyped' /\ ProviderTyped'
  <2>1. ASSUME NEW a \in Actors, Abandon(a)
        PROVE  StoreTyped' /\ LedgerTyped' /\ RewardsTyped' /\ ProviderTyped'
    BY <2>1, Untouched DEF Abandon
  <2>2. CASE Crash
    <3>1. ProviderTyped'
      BY <2>2 DEF Crash, ProviderRestarts, ProviderTyped, TypeInv, TypeOK
    <3>. QED BY <2>2, <3>1, Untouched DEF Crash
  <2>3. CASE Environment
    <3>1. ASSUME NEW i \in StakeIds, ProviderProgress(i)
          PROVE  ProviderTyped'
      BY <3>1 DEF ProviderProgress, Settle, GiveUp, Outcomes, ProviderTyped, ProviderStatuses,
             TypeInv, TypeOK
    <3>2. ASSUME NextDay
          PROVE  ProviderTyped'
      BY <3>2, ProviderAssumption DEF NextDay, ProviderTyped, Days, TypeInv, TypeOK
    <3>. QED BY <2>3, <3>1, <3>2, Untouched DEF Environment
  <2>4. CASE UNCHANGED vars
    BY <2>4, Untouched DEF vars
  <2>. QED BY <2>1, <2>2, <2>3, <2>4, HandlerTables, PollerTables DEF Next
<1>2. work' \in Works
  BY NextWork
<1>3. TypeOK' <=> StoreTyped' /\ LedgerTyped' /\ RewardsTyped' /\ ProviderTyped'
                                /\ work' \in Works
  BY DEF TypeOK, StoreTyped, LedgerTyped, RewardsTyped, ProviderTyped, Works
<1>. QED BY <1>1, <1>2, <1>3

-----------------------------------------------------------------------------
(* Every goroutine stays at a stake that was created                       *)

RootedRows == \A i \in StakeIds : stakes[i] # NoStake => Created(i)

\* A goroutine that has ended is at no stake, one that has begun a loop has
\* listed created stakes only.
LEMMA LoopLocated ==
    /\ Located(Idle)
    /\ \A phase \in {"delegating", "unstaking", "rewards"}, l \in Lists :
          (\A i \in StakeIds : l[i] # NoStake => Created(i))
            => Located([Idle EXCEPT !.pc = phase, !.list = l])
<1>1. \A i \in StakeIds : EmptyList[i] = NoStake
  BY DEF EmptyList
<1>2. /\ Idle.pc = "idle" /\ Idle.list = EmptyList
      /\ \A phase, l : /\ [Idle EXCEPT !.pc = phase, !.list = l].pc = phase
                       /\ [Idle EXCEPT !.pc = phase, !.list = l].list = l
  BY DEF Idle
<1>. QED BY <1>1, <1>2 DEF Located, StakePcs, EntryPcs, Pcs, HandlerPcs, PollerPcs

\* A goroutine that goes on with its stake is still at it.
LEMMA SameStake ==
    ASSUME NEW w, NEW v, Located(w), w.pc \in StakePcs, v.pc \in StakePcs,
           v.id = w.id, v.account = w.account, v.list = w.list,
           v.pc \in EntryPcs => v.entries # <<>>
    PROVE  Located(v)
  BY DEF Located, StakePcs

\* Its next statement may come with a new copy of the stake or the balance,
\* or with a total.
LEMMA NextLocated ==
    ASSUME NEW w \in Workspace, Located(w), w.pc \in StakePcs,
           NEW pc \in StakePcs, pc \in EntryPcs => w.pc \in EntryPcs,
           NEW s, NEW b, NEW n
    PROVE  /\ Located([w EXCEPT !.pc = pc])
           /\ Located([w EXCEPT !.bal = b, !.pc = pc])
           /\ Located([w EXCEPT !.stake = s, !.pc = pc])
           /\ Located([w EXCEPT !.stake = s, !.bal = b, !.pc = pc])
           /\ Located([w EXCEPT !.total = n, !.pc = pc])
<1>1. pc \in EntryPcs => w.entries # <<>>
  BY DEF Located
<1>2. Located([w EXCEPT !.pc = pc])
  BY <1>1, SameStake DEF Workspace
<1>3. Located([w EXCEPT !.bal = b, !.pc = pc])
  BY <1>1, SameStake DEF Workspace
<1>4. Located([w EXCEPT !.stake = s, !.pc = pc])
  BY <1>1, SameStake DEF Workspace
<1>5. Located([w EXCEPT !.stake = s, !.bal = b, !.pc = pc])
  BY <1>1, SameStake DEF Workspace
<1>6. Located([w EXCEPT !.total = n, !.pc = pc])
  BY <1>1, SameStake DEF Workspace
<1>. QED BY <1>2, <1>3, <1>4, <1>5, <1>6

\* One goroutine steps and the stake entities stay as they are.
LEMMA StepRooted ==
    ASSUME TypeInv, NEW a \in Actors, NEW w, Become(a, w), Located(w),
           UNCHANGED terms, RootedRows'
    PROVE  Rooted'
<1>1. work'[a] = w /\ \A b \in Actors \ {a} : work'[b] = work[b]
  BY DEF Become, TypeInv, TypeOK
<1>2. \A b \in Actors : Located(work'[b])
  BY <1>1 DEF TypeInv, Rooted
<1>3. \A b \in Actors : Located(work[b])'
  BY <1>2 DEF Located, Created
<1>. QED BY <1>3 DEF Rooted, RootedRows

\* The rows that appear are those of created stakes.
LEMMA RowsStayRooted ==
    ASSUME TypeInv, UNCHANGED terms
    PROVE  /\ UNCHANGED stakes => RootedRows'
           /\ \A a \in Actors :
                 work[a].pc \in StakePcs /\ (UpdateStake(a) \/ UpdateStakeFails(a))
                   => RootedRows'
<1>1. RootedRows /\ \A i \in StakeIds : Created(i)' <=> Created(i)
  BY DEF TypeInv, Rooted, RootedRows, Created
<1>2. UNCHANGED stakes => RootedRows'
  BY <1>1 DEF RootedRows
<1>3. ASSUME NEW a \in Actors, work[a].pc \in StakePcs, UpdateStake(a)
      PROVE  RootedRows'
  <2>1. Created(work[a].id)
    BY <1>3 DEF TypeInv, Rooted, Located
  <2>2. \A i \in StakeIds : i # work[a].id => stakes'[i] = stakes[i]
    BY <1>3 DEF UpdateStake, TypeInv, TypeOK
  <2>. QED BY <1>1, <2>1, <2>2 DEF RootedRows
<1>. QED BY <1>2, <1>3 DEF UpdateStakeFails

\* Goto and Return, when the tables' stakes stay rooted.
LEMMA GotoRooted ==
    ASSUME TypeInv, NEW a \in Actors, UNCHANGED terms, RootedRows',
           \/ Return(a)
           \/ /\ work[a].pc \in StakePcs
              /\ \E pc \in StakePcs : /\ pc \in EntryPcs => work[a].pc \in EntryPcs
                                      /\ Goto(a, pc)
    PROVE  Rooted'
<1>1. work[a] \in Workspace /\ Located(work[a])
  BY DEF TypeInv, TypeOK, Rooted
<1>2. CASE Return(a)
  BY <1>2, LoopLocated, StepRooted DEF Return
<1>3. ASSUME work[a].pc \in StakePcs, NEW pc \in StakePcs,
             pc \in EntryPcs => work[a].pc \in EntryPcs, Goto(a, pc)
      PROVE  Rooted'
  <2>1. Located([work[a] EXCEPT !.pc = pc])
    BY <1>1, <1>3, NextLocated
  <2>. QED BY <1>3, <2>1, StepRooted DEF Goto
<1>. QED BY <1>2, <1>3

\* A balance was read and adjusted.
LEMMA AdjustRooted ==
    ASSUME TypeInv, NEW a \in Actors, UNCHANGED <<terms, stakes>>,
           work[a].pc \in StakePcs, NEW pc \in StakePcs,
           pc \in EntryPcs => work[a].pc \in EntryPcs, NEW b, Adjust(a, b, pc)
    PROVE  Rooted'
<1>1. work[a] \in Workspace /\ Located(work[a])
  BY DEF TypeInv, TypeOK, Rooted
<1>2. Located([work[a] EXCEPT !.bal = NextVersion(b), !.pc = pc])
  BY <1>1, NextLocated
<1>. QED BY <1>2, StepRooted, RowsStayRooted DEF Adjust

\* A new stake entity: nobody was at it, and its handler is.
LEMMA CreateRooted ==
    ASSUME TypeInv, NEW h \in Handlers, NEW acct \in Accounts,
           NEW x \in Amounts, NEW k \in Keys, BeginCreateStake(h, acct, x, k)
    PROVE  Rooted'
<1>. h \in Actors
  BY DEF Actors
<1>. DEFINE t == [account |-> acct, amount |-> x, key |-> k]
<1>1. PICK i \in StakeIds :
         /\ ~Created(i)
         /\ terms' = [terms EXCEPT ![i] = t]
         /\ Become(h, [Idle EXCEPT !.pc = "getBalance", !.id = i,
                                   !.account = acct, !.stake = NewStake])
  BY DEF BeginCreateStake
<1>2. t # NoTerms
  BY StoreAssumption DEF NoTerms
<1>3. /\ \A j \in StakeIds : Created(j) => terms'[j] = terms[j] /\ Created(j)'
      /\ terms'[i] = t /\ Created(i)'
  <2>. HIDE DEF t
  <2>. QED BY <1>1, <1>2 DEF Created, TypeInv, TypeOK
<1>4. ASSUME NEW b \in Actors, b # h
      PROVE  Located(work[b])'
  <2>1. work'[b] = work[b] /\ Located(work[b])
    BY <1>1, <1>4 DEF Become, TypeInv, TypeOK, Rooted
  <2>. QED BY <1>3, <2>1 DEF Located
<1>5. Located(work[h])'
  <2>1. /\ work'[h].pc = "getBalance" /\ work'[h].id = i
        /\ work'[h].account = acct /\ work'[h].list = EmptyList
    BY <1>1 DEF Become, TypeInv, TypeOK, Idle
  <2>2. "getBalance" \notin EntryPcs
    BY DEF EntryPcs
  <2>. QED BY <1>3, <2>1, <2>2 DEF Located, EmptyList
<1>6. stakes' = stakes
  BY DEF BeginCreateStake
<1>. QED BY <1>3, <1>4, <1>5, <1>6 DEF Rooted, TypeInv

\* A request or a step of a handler.
LEMMA HandlerRooted ==
    ASSUME TypeInv, NEW h \in Handlers, Request(h) \/ HandlerStep(h)
    PROVE  Rooted'
<1>. h \in Actors
  BY DEF Actors
<1>0. work[h] \in Workspace /\ Located(work[h])
  BY DEF TypeInv, TypeOK, Rooted
<1>1. CASE \E acct \in Accounts, x \in Amounts, k \in Keys : BeginCreateStake(h, acct, x, k)
  BY <1>1, CreateRooted
<1>2. ASSUME NEW i \in StakeIds, BeginUnstake(h, i)
      PROVE  Rooted'
  <2>. DEFINE w == [Idle EXCEPT !.pc = "unstake", !.id = i, !.account = terms[i].account,
                                !.stake = Unstake(stakes[i])]
  <2>1. Created(i)
    BY <1>2 DEF BeginUnstake, MayUnstake, NoStake, TypeInv, Rooted
  <2>2. w.pc = "unstake" /\ w.id = i /\ w.account = terms[i].account /\ w.list = EmptyList
    BY DEF Idle
  <2>. HIDE DEF w
  <2>3. Located(w)
    BY <2>1, <2>2 DEF Located, EmptyList, EntryPcs
  <2>4. Become(h, w)
    BY <1>2 DEF BeginUnstake, w
  <2>. QED BY <1>2, <2>3, <2>4, StepRooted, RowsStayRooted DEF BeginUnstake
<1>3. ASSUME NEW acct \in Accounts, NEW x \in Deposits, BeginSetBalance(h, acct, x)
      PROVE  Rooted'
  <2>1. \A b, pc : pc \in {"upsert", "overwrite"} =>
          LET w == [Idle EXCEPT !.pc = pc, !.account = acct, !.bal = b]
          IN  w.pc = pc /\ w.account = acct /\ w.list = EmptyList
    BY DEF Idle
  <2>2. \A b, pc : pc \in {"upsert", "overwrite"} =>
          Located([Idle EXCEPT !.pc = pc, !.account = acct, !.bal = b])
    BY <2>1 DEF Located, EmptyList, StakePcs, EntryPcs
  <2>. QED BY <1>3, <2>2, StepRooted, RowsStayRooted DEF BeginSetBalance
<1>4. CASE FetchBalance(h)
  <2>1. work[h].pc \in StakePcs /\ "hold" \in StakePcs \ EntryPcs
    BY <1>4 DEF FetchBalance, At, StakePcs, EntryPcs, HandlerPcs, Pcs
  <2>. QED BY <1>4, <2>1, AdjustRooted, GotoRooted, RowsStayRooted DEF FetchBalance
<1>5. CASE SaveHold(h) \/ SaveReleasing(h) \/ PublishCreated(h) \/ PublishUnstakeRequested(h)
  <2>1. SaveHold(h) => work[h].pc \in StakePcs /\ "insert" \in StakePcs \ EntryPcs
    BY DEF SaveHold, At, StakePcs, EntryPcs, HandlerPcs, Pcs
  <2>. QED BY <1>5, <2>1, GotoRooted, RowsStayRooted
           DEF SaveHold, SaveReleasing, PublishCreated, PublishUnstakeRequested
<1>6. CASE InsertStake(h)
  <2>1. work[h].pc \in StakePcs /\ "stake" \in StakePcs \ EntryPcs
    BY <1>6 DEF InsertStake, InsertStakeRow, At, StakePcs, EntryPcs, HandlerPcs, Pcs
  <2>2. Created(work[h].id)
    BY <1>0, <2>1 DEF Located
  <2>3. \A i \in StakeIds : i # work[h].id => stakes'[i] = stakes[i]
    BY <1>6 DEF InsertStake, InsertStakeRow, TypeInv, TypeOK
  <2>4. UNCHANGED terms /\ RootedRows'
    BY <1>6, <2>2, <2>3 DEF InsertStake, InsertStakeRow, RootedRows, Created, TypeInv, Rooted
  <2>. QED BY <1>6, <2>1, <2>4, GotoRooted DEF InsertStake, InsertStakeRow
<1>7. CASE SaveFailing(h) \/ SaveDelegating(h) \/ SaveUnstaking(h)
  <2>1. /\ work[h].pc \in StakePcs
        /\ {"releasing", "publishCreated", "publishUnstake"} \subseteq StakePcs \ EntryPcs
    BY <1>7 DEF SaveFailing, SaveDelegating, SaveUnstaking, At,
                StakePcs, EntryPcs, HandlerPcs, Pcs
  <2>2. UNCHANGED terms /\ RootedRows'
    BY <1>7, <2>1, RowsStayRooted DEF SaveFailing, SaveDelegating, SaveUnstaking
  <2>. QED BY <1>7, <2>1, <2>2, GotoRooted DEF SaveFailing, SaveDelegating, SaveUnstaking
<1>8. CASE CallStake(h)
  <2>1. work[h].pc \in StakePcs /\ {"saveDelegating", "failing"} \subseteq StakePcs \ EntryPcs
    BY <1>8 DEF CallStake, At, StakePcs, EntryPcs, HandlerPcs, Pcs
  <2>2. \A s, b : /\ Located([work[h] EXCEPT !.stake = s, !.pc = "saveDelegating"])
                  /\ Located([work[h] EXCEPT !.stake = s, !.bal = b, !.pc = "failing"])
    BY <1>0, <2>1, NextLocated
  <2>. QED BY <1>8, <2>2, StepRooted, RowsStayRooted DEF CallStake
<1>9. CASE CallUnstake(h)
  <2>1. work[h].pc \in StakePcs /\ "saveUnstaking" \in StakePcs \ EntryPcs
    BY <1>9 DEF CallUnstake, At, StakePcs, EntryPcs, HandlerPcs, Pcs
  <2>2. \A s : Located([work[h] EXCEPT !.stake = s, !.pc = "saveUnstaking"])
    BY <1>0, <2>1, NextLocated
  <2>. QED BY <1>9, <2>2, GotoRooted, StepRooted, RowsStayRooted DEF CallUnstake
<1>10. CASE UpsertBalance(h)
  <2>1. Located([work[h] EXCEPT !.pc = "publishBalance"])
    BY <1>0, <1>10 DEF UpsertBalance, UpsertBalanceRow, At, Located, Workspace, StakePcs, EntryPcs
  <2>. QED BY <1>10, <2>1, GotoRooted, StepRooted, RowsStayRooted DEF UpsertBalance, UpsertBalanceRow, Goto
<1>11. CASE PublishBalanceCreated(h) \/ OverwriteBalance(h)
  BY <1>11, GotoRooted, RowsStayRooted DEF PublishBalanceCreated, OverwriteBalance
<1>. QED
  BY <1>1, <1>2, <1>3, <1>4, <1>5, <1>6, <1>7, <1>8, <1>9, <1>10, <1>11
     DEF Request, HandlerStep

\* continue: the rest of the list is of created stakes.
LEMMA DropStakeRooted ==
    ASSUME TypeInv, NEW p \in Pollers, NEW i,
           NEW phase \in {"delegating", "unstaking", "rewards"},
           DropStake(p, i, phase), UNCHANGED terms, RootedRows'
    PROVE  Rooted'
<1>. p \in Actors
  BY DEF Actors
<1>1. work[p].list \in Lists /\ Located(work[p])
  BY WorkspaceFields DEF TypeInv, TypeOK, Rooted
<1>. DEFINE l == [work[p].list EXCEPT ![i] = NoStake]
<1>2. /\ l \in Lists
      /\ \A j \in StakeIds : l[j] # NoStake => Created(j)
  <2>1. NoStake \in Stakes
    BY DEF NoStake, Stakes
  <2>. QED BY <1>1, <2>1 DEF Located, Lists
<1>. HIDE DEF l
<1>3. Located([Idle EXCEPT !.pc = phase, !.list = l])
  BY <1>2, LoopLocated
<1>. QED BY <1>3, StepRooted DEF DropStake, l

\* A phase lists rows, which are those of created stakes.
LEMMA ListRooted ==
    ASSUME TypeInv, NEW p \in Pollers, NEW state,
           NEW phase \in {"delegating", "unstaking", "rewards"},
           List(p, state, phase), UNCHANGED <<terms, stakes>>
    PROVE  Rooted'
<1>. p \in Actors
  BY DEF Actors
<1>1. NoStake \in Stakes
  BY DEF NoStake, Stakes
<1>2. /\ ListByState(state) \in Lists
      /\ \A j \in StakeIds : ListByState(state)[j] # NoStake => Created(j)
  BY <1>1 DEF ListByState, OldestInState, Lists, TypeInv, TypeOK, Rooted
<1>3. EmptyList \in Lists /\ \A j \in StakeIds : EmptyList[j] = NoStake
  BY IdleType DEF EmptyList
<1>4. PICK l \in Lists : /\ Become(p, [Idle EXCEPT !.pc = phase, !.list = l])
                         /\ \A j \in StakeIds : l[j] # NoStake => Created(j)
  BY <1>2, <1>3 DEF List
<1>5. Located([Idle EXCEPT !.pc = phase, !.list = l])
  BY <1>4, LoopLocated
<1>. QED BY <1>4, <1>5, StepRooted, RowsStayRooted

\* The loop turns to a listed stake.
LEMMA TargetRooted ==
    ASSUME TypeInv, NEW p \in Pollers, NEW i \in StakeIds, IsHead(p, i),
           UNCHANGED <<terms, stakes>>,
           \/ \E s, pc : pc \in StakePcs \ EntryPcs /\ Reconcile(p, i, s, pc)
           \/ \E e : /\ e # <<>>
                    /\ Become(p, [work[p] EXCEPT !.id = i, !.account = terms[i].account,
                                                 !.entries = e, !.pc = "readTotal"])
    PROVE  Rooted'
<1>. p \in Actors
  BY DEF Actors
<1>1. work[p] \in Workspace /\ Located(work[p]) /\ Created(i)
  BY HeadReads DEF TypeInv, Rooted
<1>2. ASSUME NEW s, NEW pc \in StakePcs \ EntryPcs, Reconcile(p, i, s, pc)
      PROVE  Rooted'
  <2>. DEFINE w == [work[p] EXCEPT !.id = i, !.account = terms[i].account,
                                   !.stake = NextVersion(s), !.pc = pc]
  <2>1. w.id = i /\ w.account = terms[i].account /\ w.list = work[p].list /\ w.pc = pc
    BY <1>1 DEF Workspace
  <2>. HIDE DEF w
  <2>2. Located(w)
    BY <1>1, <1>2, <2>1 DEF Located, StakePcs
  <2>. QED BY <1>2, <2>2, StepRooted, RowsStayRooted DEF Reconcile, w
<1>3. ASSUME NEW e, e # <<>>,
             Become(p, [work[p] EXCEPT !.id = i, !.account = terms[i].account,
                                       !.entries = e, !.pc = "readTotal"])
      PROVE  Rooted'
  <2>. DEFINE w == [work[p] EXCEPT !.id = i, !.account = terms[i].account,
                                   !.entries = e, !.pc = "readTotal"]
  <2>1. /\ w.id = i /\ w.account = terms[i].account /\ w.list = work[p].list
        /\ w.pc = "readTotal" /\ w.entries = e
    BY <1>1 DEF Workspace
  <2>. HIDE DEF w
  <2>2. Located(w)
    BY <1>1, <1>3, <2>1 DEF Located
  <2>. QED BY <1>3, <2>2, StepRooted, RowsStayRooted DEF w
<1>. QED BY <1>2, <1>3

\* continue of the inner loop of the rewards.
LEMMA NextEntryRooted ==
    ASSUME TypeInv, NEW p \in Pollers, work[p].pc \in EntryPcs, NextEntry(p),
           UNCHANGED <<terms, stakes>>
    PROVE  Rooted'
<1>. p \in Actors
  BY DEF Actors
<1>1. /\ work[p] \in Workspace /\ Located(work[p])
      /\ work[p].entries \in Seq(Entries)
      /\ work[p].pc \in StakePcs
  BY EntryReads DEF TypeInv, Rooted, EntryPcs, StakePcs, Pcs, PollerPcs
<1>2. CASE Continue(p, "rewards")
  BY <1>2, DropStakeRooted, RowsStayRooted DEF Continue
<1>3. CASE /\ Len(work[p].entries) > 1
           /\ Become(p, [work[p] EXCEPT !.entries = Tail(work[p].entries), !.total = 0,
                                        !.bal = NoBalance, !.pc = "readTotal"])
  <2>. DEFINE w == [work[p] EXCEPT !.entries = Tail(work[p].entries), !.total = 0,
                                   !.bal = NoBalance, !.pc = "readTotal"]
  <2>1. Tail(work[p].entries) # <<>>
    <3>. DEFINE e == work[p].entries
    <3>1. e \in Seq(Entries) /\ Len(e) > 1
      BY <1>1, <1>3
    <3>. HIDE DEF e
    <3>2. Len(Tail(e)) = Len(e) - 1 /\ Len(e) \in Nat
      BY <3>1
    <3>3. Len(Tail(e)) # 0
      BY <3>1, <3>2
    <3>4. Len(<<>>) = 0
      OBVIOUS
    <3>5. Tail(e) # <<>>
      BY <3>3, <3>4
    <3>. QED BY <3>5 DEF e
  <2>2. /\ w.id = work[p].id /\ w.account = work[p].account /\ w.list = work[p].list
        /\ w.pc = "readTotal" /\ w.entries = Tail(work[p].entries)
    BY <1>1 DEF Workspace
  <2>. HIDE DEF w
  <2>3. "readTotal" \in StakePcs
    BY DEF StakePcs, Pcs, PollerPcs
  <2>4. Located(w)
    BY <1>1, <2>1, <2>2, <2>3, SameStake
  <2>. QED BY <1>3, <2>4, StepRooted, RowsStayRooted DEF w
<1>. QED BY <1>2, <1>3 DEF NextEntry

\* A step of a poller.
LEMMA PollerRooted ==
    ASSUME TypeInv, NEW p \in Pollers, PollerStep(p)
    PROVE  Rooted'
<1>. p \in Actors
  BY DEF Actors
<1>0. work[p] \in Workspace /\ Located(work[p])
  BY DEF TypeInv, TypeOK, Rooted
<1>1. CASE ListDelegating(p) \/ ListUnstaking(p) \/ ListActive(p)
  BY <1>1, ListRooted DEF ListDelegating, ListUnstaking, ListActive
<1>2. CASE CheckDelegating(p) \/ CheckUnstaking(p)
  <2>1. {"saveActive", "saveFailed", "saveWithdrawn"} \subseteq StakePcs \ EntryPcs
    BY DEF StakePcs, EntryPcs, PollerPcs, Pcs
  <2>2. PICK i \in StakeIds :
           /\ IsHead(p, i)
           /\ \/ \E s, pc : pc \in StakePcs \ EntryPcs /\ Reconcile(p, i, s, pc)
              \/ DropStake(p, i, "delegating")
              \/ DropStake(p, i, "unstaking")
    BY <1>2, <2>1 DEF CheckDelegating, CheckUnstaking
  <2>. QED BY <1>2, <2>2, TargetRooted, DropStakeRooted, RowsStayRooted
           DEF CheckDelegating, CheckUnstaking
<1>3. CASE FetchRewards(p)
  <2>1. PICK i \in StakeIds :
           /\ IsHead(p, i)
           /\ \/ \E e : /\ e # <<>>
                       /\ Become(p, [work[p] EXCEPT !.id = i,
                                                    !.account = terms[i].account,
                                                    !.entries = e, !.pc = "readTotal"])
              \/ DropStake(p, i, "rewards")
    BY <1>3 DEF FetchRewards
  <2>. QED BY <1>3, <2>1, TargetRooted, DropStakeRooted, RowsStayRooted DEF FetchRewards
<1>4. CASE SaveActive(p) \/ SaveFailed(p) \/ SaveWithdrawn(p)
  <2>1. /\ work[p].pc \in StakePcs
        /\ {"confirm", "release", "complete"} \subseteq StakePcs \ EntryPcs
    BY <1>4 DEF SaveActive, SaveFailed, SaveWithdrawn, At, StakePcs, EntryPcs,
                PollerPcs, Pcs
  <2>2. UNCHANGED terms /\ RootedRows'
    BY <1>4, <2>1, RowsStayRooted DEF SaveActive, SaveFailed, SaveWithdrawn
  <2>. QED BY <1>4, <2>1, <2>2, GotoRooted, DropStakeRooted
           DEF SaveActive, SaveFailed, SaveWithdrawn, Continue
<1>5. CASE FetchToConfirm(p) \/ FetchToRelease(p) \/ FetchToComplete(p)
  <2>1. /\ work[p].pc \in StakePcs
        /\ {"saveConfirm", "saveRelease", "saveUnreleased", "saveComplete", "publishFailed"}
              \subseteq StakePcs \ EntryPcs
    BY <1>5 DEF FetchToConfirm, FetchToRelease, FetchToComplete, At, StakePcs, EntryPcs,
                PollerPcs, Pcs
  <2>. QED BY <1>5, <2>1, AdjustRooted, GotoRooted, DropStakeRooted, RowsStayRooted
           DEF FetchToConfirm, FetchToRelease, FetchToComplete, Continue
<1>6. CASE SaveConfirm(p) \/ SaveRelease(p) \/ SaveComplete(p)
  <2>1. /\ work[p].pc \in StakePcs
        /\ {"publishActivated", "publishFailed", "publishWithdrawn"}
              \subseteq StakePcs \ EntryPcs
    BY <1>6 DEF SaveConfirm, SaveRelease, SaveComplete, At, StakePcs, EntryPcs,
                PollerPcs, Pcs
  <2>. QED BY <1>6, <2>1, GotoRooted, DropStakeRooted, RowsStayRooted
           DEF SaveConfirm, SaveRelease, SaveComplete, Continue
<1>7. CASE PublishActivated(p) \/ PublishFailed(p) \/ PublishWithdrawn(p)
  BY <1>7, DropStakeRooted, RowsStayRooted
     DEF PublishActivated, PublishFailed, PublishWithdrawn, Continue
<1>8. CASE ReadTotal(p)
  <2>1. /\ work[p].pc \in EntryPcs
        /\ EntryPcs \subseteq StakePcs
        /\ "createReward" \in EntryPcs
    BY <1>8 DEF ReadTotal, At, StakePcs, EntryPcs, PollerPcs, Pcs
  <2>2. \A n : Located([work[p] EXCEPT !.total = n, !.pc = "createReward"])
    BY <1>0, <2>1, NextLocated
  <2>. QED BY <1>8, <2>1, <2>2, StepRooted, NextEntryRooted, RowsStayRooted DEF ReadTotal
<1>9. CASE CreateReward(p)
  <2>1. /\ work[p].pc \in EntryPcs
        /\ EntryPcs \subseteq StakePcs
        /\ "addReward" \in EntryPcs
    BY <1>9 DEF CreateReward, At, StakePcs, EntryPcs, PollerPcs, Pcs
  <2>. QED BY <1>9, <2>1, GotoRooted, NextEntryRooted, RowsStayRooted DEF CreateReward
<1>10. CASE FetchToReward(p)
  <2>1. /\ work[p].pc \in EntryPcs
        /\ EntryPcs \subseteq StakePcs
        /\ "saveReward" \in EntryPcs
    BY <1>10 DEF FetchToReward, At, StakePcs, EntryPcs, PollerPcs, Pcs
  <2>. QED BY <1>10, <2>1, AdjustRooted, NextEntryRooted DEF FetchToReward
<1>11. CASE SaveReward(p)
  <2>1. work[p].pc \in EntryPcs
    BY <1>11 DEF SaveReward, At, EntryPcs
  <2>. QED BY <1>11, <2>1, NextEntryRooted DEF SaveReward
<1>12. CASE EndPoll(p)
  BY <1>12, GotoRooted, RowsStayRooted DEF EndPoll
<1>. QED
  BY <1>1, <1>2, <1>3, <1>4, <1>5, <1>6, <1>7, <1>8, <1>9, <1>10, <1>11, <1>12
     DEF PollerStep

-----------------------------------------------------------------------------
(* The theorem                                                             *)

\* The system starts with empty tables and idle goroutines.
LEMMA InitTypeInv == Init => TypeInv
<1>. SUFFICES ASSUME Init
              PROVE  TypeInv
  OBVIOUS
<1>. USE DEF Init, StoreInit, ProviderInit
<1>1. StoreTyped
  BY DEF StoreTyped, Stakes, NoStake
<1>2. LedgerTyped
  <2>1. NoBalance \in Balances /\ [NewBalance EXCEPT !.available = Opening] \in Balances
    BY SystemAssumption DEF NoBalance, NewBalance, Balances
  <2>2. balances \in [Accounts -> Balances]
    BY <2>1
  <2>. QED BY <2>2 DEF LedgerTyped
<1>3. RewardsTyped
  BY DEF RewardsTyped
<1>4. ProviderTyped
  BY ProviderAssumption DEF ProviderTyped, Days
<1>5. work \in Works
  BY IdleType DEF Works
<1>6. Rooted
  BY LoopLocated DEF Rooted
<1>. QED BY <1>1, <1>2, <1>3, <1>4, <1>5, <1>6, TypeParts DEF TypeInv

\* Every step preserves the invariant.
LEMMA NextTypeInv == TypeInv /\ [Next]_vars => TypeInv'
<1>. SUFFICES ASSUME TypeInv, [Next]_vars
              PROVE  TypeInv'
  OBVIOUS
<1>1. TypeOK'
  BY NextTyped
<1>2. Rooted'
  <2>1. ASSUME NEW a \in Actors, Abandon(a)
        PROVE  Rooted'
    BY <2>1, GotoRooted, RowsStayRooted DEF Abandon
  <2>2. CASE Crash
    <3>1. UNCHANGED <<terms, stakes>> /\ \A a \in Actors : work'[a] = Idle
      BY <2>2 DEF Crash
    <3>2. RootedRows' /\ \A a \in Actors : Located(work'[a])
      BY <3>1, LoopLocated, RowsStayRooted
    <3>. QED BY <3>1, <3>2 DEF Rooted, RootedRows, Located, Created
  <2>3. CASE Environment \/ UNCHANGED vars
    BY <2>3 DEF Environment, vars, TypeInv, Rooted, Located, Created
  <2>. QED BY <2>1, <2>2, <2>3, HandlerRooted, PollerRooted DEF Next
<1>. QED BY <1>1, <1>2 DEF TypeInv

\* Whatever handlers, pollers, provider, faults and bounds: no bucket of a
\* balance is ever negative, in the table or in a copy, every goroutine is
\* at a stake that exists, and every row has its type (the Balance and Stake
\* methods refuse what would break it, the callers look at the refusal).
THEOREM TypeCorrect == Spec => []TypeOK
<1>1. Init => TypeInv
  BY InitTypeInv
<1>2. TypeInv /\ [Next]_vars => TypeInv'
  BY NextTypeInv
<1>3. TypeInv => TypeOK
  BY DEF TypeInv
<1>. QED BY <1>1, <1>2, <1>3, PTL DEF Spec
=============================================================================
