-------------------------- MODULE StakesTable_proofs --------------------------
(***************************************************************************)
(* The stakes table follows the lifecycle, for every instance:             *)
(* StakingSystem implements StakeLifecycle.  What has to be known of a     *)
(* step that writes a row is that the copy was made of the row as it is.   *)
(* The version check only says that the versions agree; Copies says what   *)
(* the row's state then is.  It holds because every write raises the       *)
(* version, so a copy that is behind can never catch up.                   *)
(***************************************************************************)
EXTENDS StakingTypes_proofs

DelegatingPcs == {"delegating", "saveActive", "confirm", "saveConfirm",
                  "publishActivated", "saveFailed", "release", "saveRelease",
                  "saveUnreleased", "publishFailed"}
UnstakingPcs == {"unstaking", "saveWithdrawn", "complete", "saveComplete",
                 "publishWithdrawn"}
NewStakePcs == {"getBalance", "hold", "insert"}
CopyPcs == NewStakePcs \cup
           {"stake", "saveDelegating", "failing", "unstake", "saveUnstaking",
            "saveActive", "saveFailed", "saveWithdrawn"}

\* Row i of table t, if it still has version v, is in state src.
Current(t, i, v, src) ==
    /\ v <= t[i].version
    /\ v = t[i].version => t[i].state = src

\* Copy s can replace row i only as a move of the row from src to dst.
Leads(t, i, s, src, dst) ==
    /\ s.state = dst
    /\ s.version <= t[i].version + 1
    /\ s.version = t[i].version + 1 => t[i].state = src

ListOk(t, list, state) ==
    \A i \in StakeIds :
        list[i] # NoStake => /\ list[i].state = state
                             /\ Current(t, i, list[i].version, state)

StakeOk(t, w) ==
    /\ w.pc \in NewStakePcs => w.stake = NewStake
    /\ w.pc = "stake" => w.stake = NewStake /\ Current(t, w.id, 1, "PENDING")
    /\ w.pc = "saveDelegating" => Leads(t, w.id, w.stake, "PENDING", "DELEGATING")
    /\ w.pc = "failing" => Leads(t, w.id, w.stake, "PENDING", "FAILED")
    /\ w.pc = "unstake" => /\ w.stake.state = "UNSTAKING"
                           /\ Current(t, w.id, w.stake.version, "ACTIVE")
    /\ w.pc = "saveUnstaking" => Leads(t, w.id, w.stake, "ACTIVE", "UNSTAKING")
    /\ w.pc = "saveActive" => Leads(t, w.id, w.stake, "DELEGATING", "ACTIVE")
    /\ w.pc = "saveFailed" => Leads(t, w.id, w.stake, "DELEGATING", "FAILED")
    /\ w.pc = "saveWithdrawn" => Leads(t, w.id, w.stake, "UNSTAKING", "WITHDRAWN")

CopyOk(t, w) ==
    /\ w.pc \in DelegatingPcs => ListOk(t, w.list, "DELEGATING")
    /\ w.pc \in UnstakingPcs => ListOk(t, w.list, "UNSTAKING")
    /\ StakeOk(t, w)

\* No goroutine has a copy that could replace a row other than by a move of
\* the lifecycle.
Copies == \A a \in Actors : CopyOk(stakes, work[a])

TableInv == TypeInv /\ Copies

Tables == [StakeIds -> Stakes]

\* Rows are written with the next version, or not at all.
Grows(t, u) == \A i \in StakeIds : u[i] = t[i] \/ u[i].version = t[i].version + 1

-----------------------------------------------------------------------------
(* Copies that are behind stay behind                                      *)

\* What is known of the row a copy was made of survives any write.
LEMMA ClaimsStay ==
    ASSUME NEW t \in Tables, NEW u \in Tables, Grows(t, u), NEW i \in StakeIds
    PROVE  /\ \A v \in Nat : \A src : Current(t, i, v, src) => Current(u, i, v, src)
           /\ \A s \in Stakes : \A src, dst :
                 Leads(t, i, s, src, dst) => Leads(u, i, s, src, dst)
<1>1. t[i].version \in Nat /\ u[i].version \in Nat
  BY DEF Tables, Stakes
<1>2. u[i] = t[i] \/ u[i].version = t[i].version + 1
  BY DEF Grows
<1>3. ASSUME NEW v \in Nat, NEW src, Current(t, i, v, src)
      PROVE  Current(u, i, v, src)
  BY <1>1, <1>2, <1>3 DEF Current
<1>4. ASSUME NEW s \in Stakes, NEW src, NEW dst, Leads(t, i, s, src, dst)
      PROVE  Leads(u, i, s, src, dst)
  <2>1. s.version \in Nat
    BY DEF Stakes
  <2>. QED BY <1>1, <1>2, <1>4, <2>1 DEF Leads
<1>. QED BY <1>3, <1>4

\* A copy of the row as it is, changed as the methods of stake.go change it.
LEMMA NextLeads ==
    ASSUME NEW t \in Tables, NEW i \in StakeIds, NEW s \in Stakes, NEW src, NEW dst,
           Current(t, i, s.version, src)
    PROVE  Leads(t, i, NextVersion([s EXCEPT !.state = dst]), src, dst)
<1>. DEFINE d == NextVersion([s EXCEPT !.state = dst])
<1>1. d.state = dst /\ d.version = s.version + 1
  BY DEF NextVersion, Stakes
<1>. HIDE DEF d
<1>2. t[i].version \in Nat /\ s.version \in Nat
  BY DEF Tables, Stakes
<1>3. Leads(t, i, d, src, dst)
  BY <1>1, <1>2 DEF Leads, Current
<1>. QED BY <1>3 DEF d

\* So the memory of a goroutine that does not step stays good.
LEMMA CopyStays ==
    ASSUME NEW t \in Tables, NEW u \in Tables, Grows(t, u),
           NEW w \in Workspace, w.pc \in StakePcs => w.id \in StakeIds,
           CopyOk(t, w)
    PROVE  CopyOk(u, w)
<1>1. w.stake \in Stakes /\ w.list \in Lists
  BY WorkspaceFields
<1>2. w.stake.version \in Nat /\ \A i \in StakeIds : w.list[i].version \in Nat
  BY <1>1 DEF Lists, Stakes
<1>3. \A state : ListOk(t, w.list, state) => ListOk(u, w.list, state)
  BY <1>2, ClaimsStay DEF ListOk
<1>4. CASE w.pc \notin CopyPcs
  BY <1>3, <1>4 DEF CopyOk, StakeOk, CopyPcs, NewStakePcs
<1>5. CASE w.pc \in CopyPcs
  <2>1. w.id \in StakeIds
    BY <1>5 DEF CopyPcs, NewStakePcs, StakePcs, Pcs, HandlerPcs, PollerPcs
  <2>2. /\ \A src : Current(t, w.id, 1, src) => Current(u, w.id, 1, src)
        /\ \A src : Current(t, w.id, w.stake.version, src)
                      => Current(u, w.id, w.stake.version, src)
        /\ \A src, dst : Leads(t, w.id, w.stake, src, dst)
                      => Leads(u, w.id, w.stake, src, dst)
    BY <1>1, <1>2, <2>1, ClaimsStay
  <2>3. StakeOk(u, w)
    BY <2>2 DEF CopyOk, StakeOk
  <2>. QED BY <1>3, <2>3 DEF CopyOk
<1>. QED BY <1>4, <1>5

-----------------------------------------------------------------------------
(* A goroutine's next statement                                            *)

\* One that makes no claim about a row and stays in its phase.
LEMMA PlainCopy ==
    ASSUME NEW t, NEW w, NEW v, CopyOk(t, w), v.list = w.list,
           v.pc \in Pcs \ CopyPcs,
           v.pc \in DelegatingPcs => w.pc \in DelegatingPcs,
           v.pc \in UnstakingPcs => w.pc \in UnstakingPcs
    PROVE  CopyOk(t, v)
  BY DEF CopyOk, StakeOk, CopyPcs, NewStakePcs

\* A goroutine that ends, or is in no phase.
LEMMA FreeCopy ==
    ASSUME NEW t, NEW v, v.pc \in Pcs \ (CopyPcs \cup DelegatingPcs \cup UnstakingPcs)
    PROVE  CopyOk(t, v)
  BY DEF CopyOk, StakeOk, CopyPcs, NewStakePcs

\* A step of goroutine a, given what its memory becomes.
LEMMA StepCopies ==
    ASSUME TableInv, NEW a \in Actors, NEW w, Become(a, w), CopyOk(stakes', w),
           stakes' \in Tables, Grows(stakes, stakes')
    PROVE  Copies'
<1>1. work'[a] = w
  BY DEF Become, TableInv, TypeInv, TypeOK
<1>2. ASSUME NEW b \in Actors, b # a
      PROVE  CopyOk(stakes', work'[b])
  <2>1. work'[b] = work[b]
    BY <1>2 DEF Become, TableInv, TypeInv, TypeOK
  <2>2. /\ work[b] \in Workspace
        /\ work[b].pc \in StakePcs => work[b].id \in StakeIds
        /\ CopyOk(stakes, work[b])
        /\ stakes \in Tables
    BY DEF TableInv, TypeInv, TypeOK, Rooted, Located, Copies, Tables
  <2>. QED BY <2>1, <2>2, CopyStays
<1>3. \A b \in Actors : CopyOk(stakes', work'[b])
  BY <1>1, <1>2
<1>. QED BY <1>3 DEF Copies, CopyOk, StakeOk, ListOk, Current, Leads

\* The same when the table does not change.
LEMMA QuietCopies ==
    ASSUME TableInv, NEW a \in Actors, NEW w, Become(a, w), CopyOk(stakes, w),
           UNCHANGED stakes
    PROVE  Copies'
<1>1. stakes' \in Tables /\ Grows(stakes, stakes')
  BY DEF TableInv, TypeInv, TypeOK, Tables, Grows
<1>2. CopyOk(stakes', w)
  OBVIOUS
<1>. QED BY <1>1, <1>2, StepCopies

\* Goto, to a statement that makes no claim, and Return.
LEMMA GotoCopies ==
    ASSUME TableInv, NEW a \in Actors, stakes' \in Tables, Grows(stakes, stakes'),
           \/ Return(a)
           \/ \E pc \in Pcs \ CopyPcs :
                 /\ pc \in DelegatingPcs => work[a].pc \in DelegatingPcs
                 /\ pc \in UnstakingPcs => work[a].pc \in UnstakingPcs
                 /\ Goto(a, pc)
    PROVE  Copies'
<1>1. CASE Return(a)
  <2>1. Idle.pc \in Pcs \ (CopyPcs \cup DelegatingPcs \cup UnstakingPcs)
    BY DEF Idle, Pcs, HandlerPcs, CopyPcs, NewStakePcs, DelegatingPcs, UnstakingPcs
  <2>. QED BY <1>1, <2>1, FreeCopy, StepCopies DEF Return
<1>2. ASSUME NEW pc \in Pcs \ CopyPcs,
             pc \in DelegatingPcs => work[a].pc \in DelegatingPcs,
             pc \in UnstakingPcs => work[a].pc \in UnstakingPcs,
             Goto(a, pc)
      PROVE  Copies'
  <2>1. /\ work[a] \in Workspace
        /\ work[a].pc \in StakePcs => work[a].id \in StakeIds
        /\ CopyOk(stakes, work[a])
        /\ stakes \in Tables
    BY DEF TableInv, TypeInv, TypeOK, Rooted, Located, Copies, Tables
  <2>2. CopyOk(stakes', work[a])
    BY <2>1, CopyStays
  <2>. DEFINE v == [work[a] EXCEPT !.pc = pc]
  <2>3. v.pc = pc /\ v.list = work[a].list
    BY <2>1 DEF Workspace
  <2>. HIDE DEF v
  <2>4. CopyOk(stakes', v)
    BY <1>2, <2>2, <2>3, PlainCopy
  <2>. QED BY <1>2, <2>4, StepCopies DEF Goto, v
<1>. QED BY <1>1, <1>2

\* A balance was read and adjusted: the copy of the stake is as it was.
LEMMA AdjustCopies ==
    ASSUME TableInv, NEW a \in Actors, UNCHANGED stakes, NEW pc \in Pcs \ CopyPcs,
           pc \in DelegatingPcs => work[a].pc \in DelegatingPcs,
           pc \in UnstakingPcs => work[a].pc \in UnstakingPcs,
           NEW b, Adjust(a, b, pc)
    PROVE  Copies'
<1>1. work[a] \in Workspace /\ CopyOk(stakes, work[a])
  BY DEF TableInv, TypeInv, TypeOK, Copies
<1>. DEFINE v == [work[a] EXCEPT !.bal = NextVersion(b), !.pc = pc]
<1>2. v.pc = pc /\ v.list = work[a].list
  BY <1>1 DEF Workspace
<1>. HIDE DEF v
<1>3. CopyOk(stakes, v)
  BY <1>1, <1>2, PlainCopy
<1>. QED BY <1>3, QuietCopies DEF Adjust, v

\* continue: the rest of the list is as good as the list.
LEMMA DropStakeCopies ==
    ASSUME TableInv, NEW p \in Pollers, NEW i,
           NEW phase \in {"delegating", "unstaking", "rewards"},
           phase = "delegating" => work[p].pc \in DelegatingPcs,
           phase = "unstaking" => work[p].pc \in UnstakingPcs,
           DropStake(p, i, phase), stakes' \in Tables, Grows(stakes, stakes')
    PROVE  Copies'
<1>. p \in Actors
  BY DEF Actors
<1>1. /\ work[p] \in Workspace
      /\ work[p].pc \in StakePcs => work[p].id \in StakeIds
      /\ CopyOk(stakes, work[p])
      /\ stakes \in Tables
  BY DEF TableInv, TypeInv, TypeOK, Rooted, Located, Copies, Tables
<1>2. CopyOk(stakes', work[p]) /\ work[p].list \in Lists
  BY <1>1, CopyStays, WorkspaceFields
<1>. DEFINE l == [work[p].list EXCEPT ![i] = NoStake]
            v == [Idle EXCEPT !.pc = phase, !.list = l]
<1>3. \A state : ListOk(stakes', work[p].list, state) => ListOk(stakes', l, state)
  BY <1>2 DEF ListOk, Lists
<1>. HIDE DEF l
<1>4. v.pc = phase /\ v.list = l
  BY DEF Idle
<1>. HIDE DEF v
<1>5. CopyOk(stakes', v)
  BY <1>2, <1>3, <1>4
     DEF CopyOk, StakeOk, CopyPcs, NewStakePcs, DelegatingPcs, UnstakingPcs
<1>. QED BY <1>5, StepCopies DEF DropStake, l, v

\* A phase lists rows as they are.
LEMMA ListCopies ==
    ASSUME TableInv, NEW p \in Pollers, UNCHANGED stakes,
           \/ List(p, "DELEGATING", "delegating")
           \/ List(p, "UNSTAKING", "unstaking")
           \/ List(p, "ACTIVE", "rewards")
    PROVE  Copies'
<1>. p \in Actors
  BY DEF Actors
<1>1. ASSUME NEW state
      PROVE  ListOk(stakes, ListByState(state), state) /\ ListOk(stakes, EmptyList, state)
  <2>1. \A i \in StakeIds : stakes[i].version \in Nat
    BY DEF TableInv, TypeInv, TypeOK, Stakes
  <2>. QED BY <2>1 DEF ListOk, Current, ListByState, OldestInState, EmptyList
<1>2. \A phase, l : LET v == [Idle EXCEPT !.pc = phase, !.list = l]
                    IN  v.pc = phase /\ v.list = l
  BY DEF Idle
<1>3. \A l : /\ ListOk(stakes, l, "DELEGATING")
                 => CopyOk(stakes, [Idle EXCEPT !.pc = "delegating", !.list = l])
             /\ ListOk(stakes, l, "UNSTAKING")
                 => CopyOk(stakes, [Idle EXCEPT !.pc = "unstaking", !.list = l])
             /\ CopyOk(stakes, [Idle EXCEPT !.pc = "rewards", !.list = l])
  BY <1>2 DEF CopyOk, StakeOk, NewStakePcs, DelegatingPcs, UnstakingPcs
<1>. QED BY <1>1, <1>3, QuietCopies DEF List

-----------------------------------------------------------------------------
(* What a step does to the table and to the copies                         *)

TableStep == stakes' \in Tables /\ Grows(stakes, stakes') /\ [Lifecycle!LifecycleNext]_stakes

\* Most steps do nothing to the table.
LEMMA QuietTable ==
    ASSUME TableInv, UNCHANGED stakes
    PROVE  TableStep
  BY DEF TableStep, TableInv, TypeInv, TypeOK, Tables, Grows

\* UPDATE stakes writes a copy that leads from one state to the next.
LEMMA UpdateTable ==
    ASSUME TableInv, NEW a \in Actors, work[a].pc \in StakePcs,
           NEW src, NEW dst, <<src, dst>> \in Lifecycle!Edges,
           Leads(stakes, work[a].id, work[a].stake, src, dst),
           UpdateStake(a) \/ UpdateStakeFails(a)
    PROVE  TableStep
<1>. DEFINE i == work[a].id
<1>1. /\ i \in StakeIds /\ work[a].stake \in Stakes
      /\ stakes \in Tables
  BY WorkspaceFields DEF TableInv, TypeInv, TypeOK, Rooted, Located, Tables
<1>. HIDE DEF i
<1>2. CASE UpdateStakeFails(a)
  BY <1>2, QuietTable DEF UpdateStakeFails
<1>3. CASE UpdateStake(a)
  <2>1. /\ stakes[i].version + 1 = work[a].stake.version
        /\ stakes' = [stakes EXCEPT ![i] = work[a].stake]
    BY <1>3 DEF UpdateStake, StakeVersionMatches, i
  <2>2. stakes[i].state = src /\ work[a].stake.state = dst
    BY <2>1 DEF Leads, i
  <2>3. work[a].stake = [state |-> dst, version |-> stakes[i].version + 1]
    BY <1>1, <2>1, <2>2 DEF Stakes
  <2>4. Lifecycle!Move(i)
    <3>1. <<src, dst>>[1] = src /\ <<src, dst>>[2] = dst
      OBVIOUS
    <3>. QED BY <2>1, <2>2, <2>3, <3>1 DEF Lifecycle!Move
  <2>5. stakes' \in Tables /\ Grows(stakes, stakes')
    BY <1>1, <2>1 DEF Tables, Grows
  <2>. QED BY <1>1, <2>4, <2>5 DEF TableStep, Lifecycle!LifecycleNext
<1>. QED BY <1>2, <1>3

\* INSERT INTO stakes writes a row that was not there.
LEMMA InsertTable ==
    ASSUME TableInv, NEW h \in Handlers, InsertStake(h)
    PROVE  TableStep
<1>. h \in Actors
  BY DEF Actors
<1>1. /\ work[h].pc = "insert" /\ work[h].id \in StakeIds /\ stakes \in Tables
      /\ work[h].stake = NewStake
  BY DEF InsertStake, InsertStakeRow, At, TableInv, TypeInv, TypeOK, Rooted, Located, Tables,
         StakePcs, Pcs, HandlerPcs, Copies, CopyOk, StakeOk, NewStakePcs
<1>2. CASE UNCHANGED stakes
  BY <1>2, QuietTable
<1>3. CASE /\ ~KeyTaken(terms[work[h].id].key)
           /\ stakes' = [stakes EXCEPT ![work[h].id] = work[h].stake]
  <2>1. stakes[work[h].id] = NoStake
    BY <1>1, <1>3 DEF KeyTaken, StakesWithKey
  <2>2. Lifecycle!Appear(work[h].id)
    BY <1>1, <1>3, <2>1 DEF Lifecycle!Appear, Lifecycle!NoStake, Lifecycle!NewStake,
                           NoStake, NewStake
  <2>3. NewStake \in Stakes /\ NewStake.version = NoStake.version + 1
    BY DEF NewStake, NoStake, Stakes, StakeStates, LiveStates
  <2>4. stakes' \in Tables /\ Grows(stakes, stakes')
    BY <1>1, <1>3, <2>1, <2>3 DEF Tables, Grows
  <2>. QED BY <1>1, <2>2, <2>4 DEF TableStep, Lifecycle!LifecycleNext
<1>. QED BY <1>2, <1>3 DEF InsertStake, InsertStakeRow

\* A request, or a step of a handler.
LEMMA HandlerStakes ==
    ASSUME TableInv, NEW h \in Handlers, Request(h) \/ HandlerStep(h)
    PROVE  TableStep /\ Copies'
<1>. h \in Actors
  BY DEF Actors
<1>0. /\ work[h] \in Workspace /\ CopyOk(stakes, work[h])
      /\ work[h].pc \in StakePcs => work[h].id \in StakeIds
      /\ work[h].stake \in Stakes
      /\ stakes \in Tables
  BY WorkspaceFields DEF TableInv, TypeInv, TypeOK, Rooted, Located, Copies, Tables
<1>. \A pc \in {"insert", "hold", "stake", "releasing", "publishCreated", "publishUnstake",
                "saveDelegating", "failing", "saveUnstaking"} :
        pc \in Pcs /\ pc \notin DelegatingPcs /\ pc \notin UnstakingPcs
  BY DEF Pcs, HandlerPcs, DelegatingPcs, UnstakingPcs
<1>1. ASSUME NEW acct \in Accounts, NEW x \in Amounts, NEW k \in Keys,
             BeginCreateStake(h, acct, x, k)
      PROVE  TableStep /\ Copies'
  <2>1. PICK i \in StakeIds :
           Become(h, [Idle EXCEPT !.pc = "getBalance", !.id = i,
                                  !.account = acct, !.stake = NewStake])
    BY <1>1 DEF BeginCreateStake
  <2>. DEFINE w == [Idle EXCEPT !.pc = "getBalance", !.id = i,
                                !.account = acct, !.stake = NewStake]
  <2>2. w.pc = "getBalance" /\ w.stake = NewStake
    BY DEF Idle
  <2>. HIDE DEF w
  <2>3. CopyOk(stakes, w)
    BY <2>2 DEF CopyOk, StakeOk, DelegatingPcs, UnstakingPcs
  <2>. QED BY <1>1, <2>1, <2>3, QuietTable, QuietCopies DEF BeginCreateStake, w
<1>2. ASSUME NEW i \in StakeIds, BeginUnstake(h, i)
      PROVE  TableStep /\ Copies'
  <2>. DEFINE w == [Idle EXCEPT !.pc = "unstake", !.id = i, !.account = terms[i].account,
                                !.stake = Unstake(stakes[i])]
  <2>1. w.pc = "unstake" /\ w.id = i /\ w.stake = Unstake(stakes[i])
    BY DEF Idle
  <2>. HIDE DEF w
  <2>2. /\ Unstake(stakes[i]).state = "UNSTAKING"
        /\ Unstake(stakes[i]).version = stakes[i].version
        /\ stakes[i].version \in Nat
    BY <1>0 DEF Tables, Stakes, Unstake
  <2>3. Current(stakes, i, stakes[i].version, "ACTIVE")
    BY <1>2, <2>2 DEF BeginUnstake, MayUnstake, Current
  <2>4. CopyOk(stakes, w)
    BY <2>1, <2>2, <2>3 DEF CopyOk, StakeOk, NewStakePcs, DelegatingPcs, UnstakingPcs
  <2>. QED BY <1>2, <2>4, QuietTable, QuietCopies DEF BeginUnstake, w
<1>3. ASSUME NEW acct \in Accounts, NEW x \in Deposits, BeginSetBalance(h, acct, x)
      PROVE  TableStep /\ Copies'
  <2>1. \A b, pc : pc \in {"upsert", "overwrite"} =>
          [Idle EXCEPT !.pc = pc, !.account = acct, !.bal = b].pc = pc
    BY DEF Idle
  <2>2. {"upsert", "overwrite"} \subseteq Pcs \ (CopyPcs \cup DelegatingPcs \cup UnstakingPcs)
    BY DEF Pcs, HandlerPcs, CopyPcs, NewStakePcs, DelegatingPcs, UnstakingPcs
  <2>3. \A b, pc : pc \in {"upsert", "overwrite"} =>
          CopyOk(stakes, [Idle EXCEPT !.pc = pc, !.account = acct, !.bal = b])
    BY <2>1, <2>2, FreeCopy
  <2>. QED BY <1>3, <2>3, QuietTable, QuietCopies DEF BeginSetBalance
<1>4. CASE FetchBalance(h)
  <2>1. TableStep
    BY <1>4, QuietTable DEF FetchBalance
  <2>2. CASE Return(h)
    BY <2>1, <2>2, GotoCopies DEF TableStep
  <2>3. ASSUME NEW b, At(h, "getBalance"), Adjust(h, b, "hold")
        PROVE  Copies'
    <3>. DEFINE w == [work[h] EXCEPT !.bal = NextVersion(b), !.pc = "hold"]
    <3>1. w.pc = "hold" /\ w.stake = work[h].stake
      BY <1>0 DEF Workspace
    <3>2. work[h].stake = NewStake
      BY <1>0, <2>3 DEF At, CopyOk, StakeOk, NewStakePcs
    <3>. HIDE DEF w
    <3>3. CopyOk(stakes, w)
      BY <3>1, <3>2 DEF CopyOk, StakeOk, DelegatingPcs, UnstakingPcs
    <3>. QED BY <1>4, <2>3, <3>3, QuietCopies DEF FetchBalance, Adjust, w
  <2>. QED BY <1>4, <2>1, <2>2, <2>3 DEF FetchBalance
<1>5. CASE SaveHold(h)
  <2>1. TableStep
    BY <1>5, QuietTable DEF SaveHold
  <2>2. CASE Return(h)
    BY <2>1, <2>2, GotoCopies DEF TableStep
  <2>3. CASE Goto(h, "insert")
    <3>. DEFINE w == [work[h] EXCEPT !.pc = "insert"]
    <3>1. w.pc = "insert" /\ w.stake = work[h].stake
      BY <1>0 DEF Workspace
    <3>2. work[h].stake = NewStake
      BY <1>0, <1>5 DEF SaveHold, At, CopyOk, StakeOk, NewStakePcs
    <3>. HIDE DEF w
    <3>3. CopyOk(stakes, w)
      BY <3>1, <3>2 DEF CopyOk, StakeOk, DelegatingPcs, UnstakingPcs
    <3>. QED BY <1>5, <2>1, <2>3, <3>3, QuietCopies DEF SaveHold, Goto, w
  <2>. QED BY <1>5, <2>1, <2>2, <2>3 DEF SaveHold
<1>6. CASE InsertStake(h)
  <2>1. TableStep
    BY <1>6, InsertTable
  <2>2. CASE Return(h)
    BY <2>1, <2>2, GotoCopies DEF TableStep
  <2>3. CASE /\ stakes' = [stakes EXCEPT ![work[h].id] = work[h].stake]
             /\ Goto(h, "stake")
    <3>. DEFINE w == [work[h] EXCEPT !.pc = "stake"]
    <3>1. w.pc = "stake" /\ w.stake = work[h].stake /\ w.id = work[h].id
      BY <1>0 DEF Workspace
    <3>2. work[h].stake = NewStake /\ work[h].id \in StakeIds
      BY <1>0, <1>6 DEF InsertStake, InsertStakeRow, At, CopyOk, StakeOk, NewStakePcs, StakePcs, Pcs,
                        HandlerPcs
    <3>. HIDE DEF w
    <3>3. stakes'[work[h].id] = NewStake
      BY <1>0, <2>3, <3>2 DEF Tables
    <3>4. Current(stakes', work[h].id, 1, "PENDING")
      BY <3>3 DEF Current, NewStake
    <3>5. CopyOk(stakes', w)
      BY <3>1, <3>2, <3>4 DEF CopyOk, StakeOk, NewStakePcs, DelegatingPcs, UnstakingPcs
    <3>. QED BY <2>1, <2>3, <3>5, StepCopies DEF Goto, TableStep, w
  <2>. QED BY <1>6, <2>1, <2>2, <2>3 DEF InsertStake, InsertStakeRow
<1>7. CASE CallStake(h)
  <2>1. TableStep
    BY <1>7, QuietTable DEF CallStake
  <2>2. /\ work[h].stake = NewStake
        /\ Current(stakes, work[h].id, 1, "PENDING")
        /\ stakes[work[h].id].version \in Nat
    BY <1>0, <1>7 DEF CallStake, At, CopyOk, StakeOk, Tables, Stakes, StakePcs, Pcs,
                      HandlerPcs
  <2>3. /\ Leads(stakes, work[h].id, NextVersion(Delegate(work[h].stake)),
                 "PENDING", "DELEGATING")
        /\ Leads(stakes, work[h].id, NextVersion(Fail(work[h].stake)), "PENDING", "FAILED")
    <3>1. NewStake \in Stakes /\ NewStake.version = 1 /\ work[h].id \in StakeIds
      BY <1>0, <1>7, <2>2 DEF NewStake, CallStake, At, StakePcs, Pcs, HandlerPcs
    <3>2. /\ Delegate(NewStake) = [NewStake EXCEPT !.state = "DELEGATING"]
          /\ Fail(NewStake) = [NewStake EXCEPT !.state = "FAILED"]
      BY DEF Delegate, Fail, IsTerminal, TerminalStates, NewStake
    <3>. QED BY <1>0, <2>2, <3>1, <3>2, NextLeads
  <2>4. ASSUME NEW s, Leads(stakes, work[h].id, s, "PENDING", "DELEGATING"),
               Become(h, [work[h] EXCEPT !.stake = s, !.pc = "saveDelegating"])
        PROVE  Copies'
    <3>. DEFINE w == [work[h] EXCEPT !.stake = s, !.pc = "saveDelegating"]
    <3>1. w.pc = "saveDelegating" /\ w.stake = s /\ w.id = work[h].id
      BY <1>0 DEF Workspace
    <3>. HIDE DEF w
    <3>2. CopyOk(stakes, w)
      BY <2>4, <3>1 DEF CopyOk, StakeOk, NewStakePcs, DelegatingPcs, UnstakingPcs
    <3>. QED BY <1>7, <2>4, <3>2, QuietCopies DEF CallStake, w
  <2>5. ASSUME NEW s, NEW b, Leads(stakes, work[h].id, s, "PENDING", "FAILED"),
               Become(h, [work[h] EXCEPT !.stake = s, !.bal = b, !.pc = "failing"])
        PROVE  Copies'
    <3>. DEFINE w == [work[h] EXCEPT !.stake = s, !.bal = b, !.pc = "failing"]
    <3>1. w.pc = "failing" /\ w.stake = s /\ w.id = work[h].id
      BY <1>0 DEF Workspace
    <3>. HIDE DEF w
    <3>2. CopyOk(stakes, w)
      BY <2>5, <3>1 DEF CopyOk, StakeOk, NewStakePcs, DelegatingPcs, UnstakingPcs
    <3>. QED BY <1>7, <2>5, <3>2, QuietCopies DEF CallStake, w
  <2>. QED BY <1>7, <2>1, <2>3, <2>4, <2>5 DEF CallStake
<1>8. CASE CallUnstake(h)
  <2>1. TableStep
    BY <1>8, QuietTable DEF CallUnstake
  <2>2. CASE Return(h)
    BY <2>1, <2>2, GotoCopies DEF TableStep
  <2>3. CASE Become(h, [work[h] EXCEPT !.stake = NextVersion(work[h].stake),
                                       !.pc = "saveUnstaking"])
    <3>. DEFINE w == [work[h] EXCEPT !.stake = NextVersion(work[h].stake),
                                     !.pc = "saveUnstaking"]
    <3>1. /\ w.pc = "saveUnstaking" /\ w.id = work[h].id
          /\ w.stake = NextVersion(work[h].stake)
      BY <1>0 DEF Workspace
    <3>2. /\ work[h].stake.state = "UNSTAKING"
          /\ Current(stakes, work[h].id, work[h].stake.version, "ACTIVE")
          /\ stakes[work[h].id].version \in Nat /\ work[h].stake.version \in Nat
      BY <1>0, <1>8 DEF CallUnstake, At, CopyOk, StakeOk, Tables, Stakes, StakePcs, Pcs,
                        HandlerPcs
    <3>3. /\ NextVersion(work[h].stake).state = work[h].stake.state
          /\ NextVersion(work[h].stake).version = work[h].stake.version + 1
      BY <1>0 DEF NextVersion, Stakes
    <3>. HIDE DEF w
    <3>4. Leads(stakes, w.id, w.stake, "ACTIVE", "UNSTAKING")
      BY <3>1, <3>2, <3>3 DEF Leads, Current
    <3>5. CopyOk(stakes, w)
      BY <3>1, <3>4 DEF CopyOk, StakeOk, NewStakePcs, DelegatingPcs, UnstakingPcs
    <3>. QED BY <1>8, <2>1, <2>3, <3>5, QuietCopies DEF CallUnstake, w
  <2>. QED BY <1>8, <2>1, <2>2, <2>3 DEF CallUnstake
<1>9. CASE SaveFailing(h) \/ SaveDelegating(h) \/ SaveUnstaking(h)
  <2>1. PICK src, dst : /\ <<src, dst>> \in Lifecycle!Edges
                        /\ Leads(stakes, work[h].id, work[h].stake, src, dst)
                        /\ work[h].pc \in StakePcs
    BY <1>0, <1>9 DEF SaveFailing, SaveDelegating, SaveUnstaking, At, CopyOk, StakeOk,
                      Lifecycle!Edges, StakePcs, Pcs, HandlerPcs
  <2>2. TableStep
    BY <1>9, <2>1, UpdateTable DEF SaveFailing, SaveDelegating, SaveUnstaking
  <2>3. {"releasing", "publishCreated", "publishUnstake"} \subseteq Pcs \ CopyPcs
    BY DEF CopyPcs, NewStakePcs
  <2>. QED BY <1>9, <2>2, <2>3, GotoCopies
           DEF SaveFailing, SaveDelegating, SaveUnstaking, TableStep
<1>10. CASE \/ SaveReleasing(h) \/ PublishCreated(h) \/ PublishUnstakeRequested(h)
            \/ PublishBalanceCreated(h) \/ OverwriteBalance(h)
  BY <1>10, QuietTable, GotoCopies
     DEF TableStep, SaveReleasing, PublishCreated, PublishUnstakeRequested,
         PublishBalanceCreated, OverwriteBalance
<1>11. CASE UpsertBalance(h)
  <2>1. "publishBalance" \in Pcs \ (CopyPcs \cup DelegatingPcs \cup UnstakingPcs)
    BY DEF Pcs, HandlerPcs, CopyPcs, NewStakePcs, DelegatingPcs, UnstakingPcs
  <2>. QED BY <1>11, <2>1, QuietTable, GotoCopies DEF TableStep, UpsertBalance, UpsertBalanceRow
<1>. QED
  BY <1>1, <1>2, <1>3, <1>4, <1>5, <1>6, <1>7, <1>8, <1>9, <1>10, <1>11
     DEF Request, HandlerStep

\* A step of a poller.
LEMMA PollerStakes ==
    ASSUME TableInv, NEW p \in Pollers, PollerStep(p)
    PROVE  TableStep /\ Copies'
<1>. p \in Actors
  BY DEF Actors
<1>0. /\ work[p] \in Workspace /\ CopyOk(stakes, work[p])
      /\ work[p].pc \in StakePcs => work[p].id \in StakeIds
      /\ work[p].stake \in Stakes
      /\ stakes \in Tables
  BY WorkspaceFields DEF TableInv, TypeInv, TypeOK, Rooted, Located, Copies, Tables
<1>. UNCHANGED stakes => TableStep
  BY QuietTable
<1>. TableStep => stakes' \in Tables /\ Grows(stakes, stakes')
  BY DEF TableStep
<1>1. CASE ListDelegating(p) \/ ListUnstaking(p) \/ ListActive(p)
  BY <1>1, ListCopies DEF ListDelegating, ListUnstaking, ListActive
<1>2. ASSUME NEW i \in StakeIds, IsHead(p, i), UNCHANGED stakes,
             \/ /\ At(p, "delegating")
                /\ \/ Reconcile(p, i, Activate(work[p].list[i]), "saveActive")
                   \/ Reconcile(p, i, Fail(work[p].list[i]), "saveFailed")
             \/ /\ At(p, "unstaking")
                /\ Reconcile(p, i, Withdraw(work[p].list[i]), "saveWithdrawn")
      PROVE  Copies'
  <2>. DEFINE s == work[p].list[i]
  <2>1. s \in Stakes /\ s # NoStake
    BY <1>0, <1>2, WorkspaceFields DEF IsHead, Lists
  <2>. HIDE DEF s
  <2>4. \A src, dst : Current(stakes, i, s.version, src)
          => Leads(stakes, i, NextVersion([s EXCEPT !.state = dst]), src, dst)
    BY <1>0, <2>1, NextLeads
  <2>5. ASSUME NEW d, NEW pc, Reconcile(p, i, d, pc)
        PROVE  \E w : /\ Become(p, w)
                      /\ w.pc = pc /\ w.id = i /\ w.stake = NextVersion(d)
                      /\ w.list = work[p].list
    <3>. DEFINE w == [work[p] EXCEPT !.id = i, !.account = terms[i].account,
                                     !.stake = NextVersion(d), !.pc = pc]
    <3>1. /\ w.pc = pc /\ w.id = i /\ w.stake = NextVersion(d) /\ w.list = work[p].list
      BY <1>0 DEF Workspace
    <3>2. Become(p, w)
      BY <2>5 DEF Reconcile
    <3>. HIDE DEF w
    <3>. QED BY <3>1, <3>2
  <2>6. CASE At(p, "delegating")
    <3>1. ListOk(stakes, work[p].list, "DELEGATING")
      BY <1>0, <2>6 DEF At, CopyOk, DelegatingPcs
    <3>2. s.state = "DELEGATING" /\ Current(stakes, i, s.version, "DELEGATING")
      BY <2>1, <3>1 DEF ListOk, s
    <3>3. /\ Activate(s) = [s EXCEPT !.state = "ACTIVE"]
          /\ Fail(s) = [s EXCEPT !.state = "FAILED"]
      BY <3>2 DEF Activate, Fail, IsTerminal, TerminalStates
    <3>4. /\ Leads(stakes, i, NextVersion(Activate(s)), "DELEGATING", "ACTIVE")
          /\ Leads(stakes, i, NextVersion(Fail(s)), "DELEGATING", "FAILED")
      BY <2>4, <3>2, <3>3
    <3>5. PICK w : /\ Become(p, w) /\ w.id = i /\ w.list = work[p].list
                   /\ \/ w.pc = "saveActive" /\ w.stake = NextVersion(Activate(s))
                      \/ w.pc = "saveFailed" /\ w.stake = NextVersion(Fail(s))
      BY <1>2, <2>5, <2>6 DEF At, s
    <3>6. CopyOk(stakes, w)
      BY <3>1, <3>4, <3>5 DEF CopyOk, StakeOk, NewStakePcs, UnstakingPcs
    <3>. QED BY <1>2, <3>5, <3>6, QuietCopies
  <2>7. CASE At(p, "unstaking")
    <3>1. ListOk(stakes, work[p].list, "UNSTAKING")
      BY <1>0, <2>7 DEF At, CopyOk, UnstakingPcs
    <3>2. Current(stakes, i, s.version, "UNSTAKING")
      BY <2>1, <3>1 DEF ListOk, s
    <3>3. Leads(stakes, i, NextVersion(Withdraw(s)), "UNSTAKING", "WITHDRAWN")
      BY <2>4, <3>2 DEF Withdraw
    <3>4. PICK w : /\ Become(p, w) /\ w.id = i /\ w.list = work[p].list
                   /\ w.pc = "saveWithdrawn" /\ w.stake = NextVersion(Withdraw(s))
      BY <1>2, <2>5, <2>7 DEF At, s
    <3>5. CopyOk(stakes, w)
      BY <3>1, <3>3, <3>4 DEF CopyOk, StakeOk, NewStakePcs, DelegatingPcs
    <3>. QED BY <1>2, <3>4, <3>5, QuietCopies
  <2>. QED BY <1>2, <2>6, <2>7
<1>3. CASE CheckDelegating(p) \/ CheckUnstaking(p)
  <2>1. CheckDelegating(p) => work[p].pc \in DelegatingPcs
    BY DEF CheckDelegating, At, DelegatingPcs
  <2>2. CheckUnstaking(p) => work[p].pc \in UnstakingPcs
    BY DEF CheckUnstaking, At, UnstakingPcs
  <2>. QED BY <1>2, <1>3, <2>1, <2>2, DropStakeCopies DEF CheckDelegating, CheckUnstaking
<1>4. CASE SaveActive(p) \/ SaveFailed(p)
  <2>1. PICK src, dst : /\ <<src, dst>> \in Lifecycle!Edges
                        /\ Leads(stakes, work[p].id, work[p].stake, src, dst)
                        /\ work[p].pc \in StakePcs
                        /\ work[p].pc \in DelegatingPcs
    BY <1>0, <1>4 DEF SaveActive, SaveFailed, At, CopyOk, StakeOk, Lifecycle!Edges,
                      StakePcs, Pcs, PollerPcs, DelegatingPcs
  <2>2. TableStep
    BY <1>4, <2>1, UpdateTable DEF SaveActive, SaveFailed
  <2>3. /\ {"confirm", "release"} \subseteq Pcs \ CopyPcs
        /\ {"confirm", "release"} \cap UnstakingPcs = {}
    BY DEF Pcs, PollerPcs, CopyPcs, NewStakePcs, UnstakingPcs
  <2>. QED BY <1>4, <2>1, <2>2, <2>3, GotoCopies, DropStakeCopies
           DEF SaveActive, SaveFailed, Continue
<1>5. CASE SaveWithdrawn(p)
  <2>1. /\ Leads(stakes, work[p].id, work[p].stake, "UNSTAKING", "WITHDRAWN")
        /\ <<"UNSTAKING", "WITHDRAWN">> \in Lifecycle!Edges
        /\ work[p].pc \in StakePcs
        /\ work[p].pc \in UnstakingPcs
    BY <1>0, <1>5 DEF SaveWithdrawn, At, CopyOk, StakeOk, Lifecycle!Edges,
                      StakePcs, Pcs, PollerPcs, UnstakingPcs
  <2>2. TableStep
    BY <1>5, <2>1, UpdateTable DEF SaveWithdrawn
  <2>3. "complete" \in Pcs \ CopyPcs /\ "complete" \notin DelegatingPcs
    BY DEF Pcs, PollerPcs, CopyPcs, NewStakePcs, DelegatingPcs
  <2>. QED BY <1>5, <2>1, <2>2, <2>3, GotoCopies, DropStakeCopies DEF SaveWithdrawn, Continue
<1>6. CASE \/ FetchToConfirm(p) \/ SaveConfirm(p) \/ PublishActivated(p)
           \/ FetchToRelease(p) \/ SaveRelease(p) \/ PublishFailed(p)
  <2>1. UNCHANGED stakes /\ work[p].pc \in DelegatingPcs
    BY <1>6 DEF FetchToConfirm, SaveConfirm, PublishActivated, FetchToRelease,
                SaveRelease, PublishFailed, At, DelegatingPcs
  <2>2. /\ {"saveConfirm", "publishActivated", "saveRelease", "saveUnreleased",
            "publishFailed"} \subseteq Pcs \ CopyPcs
        /\ {"saveConfirm", "publishActivated", "saveRelease", "saveUnreleased",
            "publishFailed"} \cap UnstakingPcs = {}
    BY DEF Pcs, PollerPcs, CopyPcs, NewStakePcs, UnstakingPcs
  <2>. QED BY <1>6, <2>1, <2>2, GotoCopies, AdjustCopies, DropStakeCopies
           DEF FetchToConfirm, SaveConfirm, PublishActivated, FetchToRelease,
               SaveRelease, PublishFailed, Continue
<1>7. CASE FetchToComplete(p) \/ SaveComplete(p) \/ PublishWithdrawn(p)
  <2>1. UNCHANGED stakes /\ work[p].pc \in UnstakingPcs
    BY <1>7 DEF FetchToComplete, SaveComplete, PublishWithdrawn, At, UnstakingPcs
  <2>2. /\ {"saveComplete", "publishWithdrawn"} \subseteq Pcs \ CopyPcs
        /\ {"saveComplete", "publishWithdrawn"} \cap DelegatingPcs = {}
    BY DEF Pcs, PollerPcs, CopyPcs, NewStakePcs, DelegatingPcs
  <2>. QED BY <1>7, <2>1, <2>2, GotoCopies, AdjustCopies, DropStakeCopies
           DEF FetchToComplete, SaveComplete, PublishWithdrawn, Continue
<1>8. CASE \/ FetchRewards(p) \/ ReadTotal(p) \/ CreateReward(p) \/ FetchToReward(p)
           \/ SaveReward(p) \/ EndPoll(p)
  <2>1. UNCHANGED stakes
    BY <1>8 DEF FetchRewards, ReadTotal, CreateReward, FetchToReward, SaveReward, EndPoll
  <2>. DEFINE Free == Pcs \ (CopyPcs \cup DelegatingPcs \cup UnstakingPcs)
  <2>2. {"readTotal", "createReward", "addReward", "saveReward", "rewards"} \subseteq Free
    BY DEF Pcs, PollerPcs, CopyPcs, NewStakePcs, DelegatingPcs, UnstakingPcs
  <2>3. \A w : Become(p, w) /\ w.pc \in Free => Copies'
    BY <2>1, FreeCopy, QuietCopies
  <2>. HIDE DEF Free
  <2>4. \A i : DropStake(p, i, "rewards") => Copies'
    BY <2>1, DropStakeCopies
  <2>5. NextEntry(p) => Copies'
    <3>. DEFINE w == [work[p] EXCEPT !.entries = Tail(work[p].entries), !.total = 0,
                                     !.bal = NoBalance, !.pc = "readTotal"]
    <3>1. w.pc = "readTotal"
      BY <1>0 DEF Workspace
    <3>. HIDE DEF w
    <3>2. Become(p, w) => Copies'
      BY <2>2, <2>3, <3>1
    <3>. QED BY <2>4, <3>2 DEF NextEntry, Continue, w
  <2>6. ASSUME FetchRewards(p)
        PROVE  Copies'
    <3>1. \A i, e : [work[p] EXCEPT !.id = i, !.account = terms[i].account,
                                    !.entries = e, !.pc = "readTotal"].pc = "readTotal"
      BY <1>0 DEF Workspace
    <3>2. \A i, e : Become(p, [work[p] EXCEPT !.id = i, !.account = terms[i].account,
                                              !.entries = e, !.pc = "readTotal"])
                     => Copies'
      BY <2>2, <2>3, <3>1
    <3>. QED BY <2>4, <2>6, <3>2 DEF FetchRewards
  <2>7. ASSUME ReadTotal(p)
        PROVE  Copies'
    <3>1. \A n : [work[p] EXCEPT !.total = n, !.pc = "createReward"].pc = "createReward"
      BY <1>0 DEF Workspace
    <3>2. \A n : Become(p, [work[p] EXCEPT !.total = n, !.pc = "createReward"]) => Copies'
      BY <2>2, <2>3, <3>1
    <3>. QED BY <2>5, <2>7, <3>2 DEF ReadTotal
  <2>8. ASSUME CreateReward(p) \/ FetchToReward(p)
        PROVE  Copies'
    <3>1. \A b : /\ [work[p] EXCEPT !.pc = "addReward"].pc = "addReward"
                 /\ [work[p] EXCEPT !.bal = b, !.pc = "saveReward"].pc = "saveReward"
      BY <1>0 DEF Workspace
    <3>2. \A b : /\ Goto(p, "addReward") => Copies'
                 /\ Adjust(p, b, "saveReward") => Copies'
      BY <2>2, <2>3, <3>1 DEF Goto, Adjust
    <3>. QED BY <2>5, <2>8, <3>2 DEF CreateReward, FetchToReward
  <2>9. ASSUME SaveReward(p) \/ EndPoll(p)
        PROVE  Copies'
    BY <2>1, <2>5, <2>9, GotoCopies DEF SaveReward, EndPoll
  <2>. QED BY <1>8, <2>1, <2>6, <2>7, <2>8, <2>9
<1>. QED BY <1>1, <1>3, <1>4, <1>5, <1>6, <1>7, <1>8
         DEF PollerStep, ListDelegating, ListUnstaking, ListActive,
             CheckDelegating, CheckUnstaking

-----------------------------------------------------------------------------
(* The theorem                                                             *)

\* At the start there are no rows and no copies.
LEMMA InitTable == Init => TableInv /\ Lifecycle!LifecycleInit
<1>. SUFFICES ASSUME Init
              PROVE  TableInv /\ Lifecycle!LifecycleInit
  OBVIOUS
<1>1. Idle.pc \in Pcs \ (CopyPcs \cup DelegatingPcs \cup UnstakingPcs)
  BY DEF Idle, Pcs, HandlerPcs, CopyPcs, NewStakePcs, DelegatingPcs, UnstakingPcs
<1>2. Copies
  BY <1>1, FreeCopy DEF Copies, Init, StoreInit
<1>3. Lifecycle!LifecycleInit
  BY DEF Init, StoreInit, Lifecycle!LifecycleInit, Lifecycle!NoStake, NoStake
<1>. QED BY <1>2, <1>3, InitTypeInv DEF TableInv

\* Every step preserves the invariant and is a step of the lifecycle.
LEMMA NextTable == TableInv /\ [Next]_vars => TableInv' /\ [Lifecycle!LifecycleNext]_stakes
<1>. SUFFICES ASSUME TableInv, [Next]_vars
              PROVE  TableInv' /\ [Lifecycle!LifecycleNext]_stakes
  OBVIOUS
<1>1. TypeInv'
  BY NextTypeInv DEF TableInv
<1>2. TableStep /\ Copies'
  <2>1. ASSUME NEW h \in Handlers, Request(h) \/ HandlerStep(h)
        PROVE  TableStep /\ Copies'
    BY <2>1, HandlerStakes
  <2>2. ASSUME NEW p \in Pollers, PollerStep(p)
        PROVE  TableStep /\ Copies'
    BY <2>2, PollerStakes
  <2>3. ASSUME NEW a \in Actors, Abandon(a)
        PROVE  TableStep /\ Copies'
    BY <2>3, QuietTable, GotoCopies DEF Abandon, TableStep
  <2>4. CASE Crash
    <3>1. /\ UNCHANGED stakes
          /\ \A a \in Actors : work'[a] = Idle
      BY <2>4 DEF Crash
    <3>2. Idle.pc \in Pcs \ (CopyPcs \cup DelegatingPcs \cup UnstakingPcs)
      BY DEF Idle, Pcs, HandlerPcs, CopyPcs, NewStakePcs, DelegatingPcs, UnstakingPcs
    <3>3. \A a \in Actors : CopyOk(stakes', work'[a])
      BY <3>1, <3>2, FreeCopy
    <3>. QED BY <3>1, <3>3, QuietTable DEF Copies, CopyOk, StakeOk, ListOk, Current, Leads
  <2>5. CASE Environment \/ UNCHANGED vars
    <3>1. UNCHANGED <<stakes, work>>
      BY <2>5 DEF Environment, vars
    <3>. QED BY <3>1, QuietTable
             DEF TableInv, Copies, CopyOk, StakeOk, ListOk, Current, Leads
  <2>. QED BY <2>1, <2>2, <2>3, <2>4, <2>5 DEF Next
<1>. QED BY <1>1, <1>2 DEF TableInv, TableStep

\* Whatever handlers and pollers race for a row, and whatever fails: a row
\* appears once as PENDING, moves along one edge of the lifecycle at a time
\* and its version counts the moves.  A terminal row never changes, and a
\* stale copy of a list or of GetByID never undoes a later transition.
THEOREM LifecycleImplemented == Spec => LifecycleRefined
<1>1. Init => TableInv /\ Lifecycle!LifecycleInit
  BY InitTable
<1>2. TableInv /\ [Next]_vars => TableInv' /\ [Lifecycle!LifecycleNext]_stakes
  BY NextTable
<1>. QED BY <1>1, <1>2, PTL DEF Spec, LifecycleRefined, Lifecycle!LifecycleSpec
=============================================================================
