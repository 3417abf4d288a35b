----------------------------- MODULE Moves_proofs -----------------------------
(***************************************************************************)
(* Rows and buckets never contradict each other, for every instance.  The  *)
(* code keeps them apart, in two tables and two statements, and what holds *)
(* them together is where each goroutine is: MoveOk says, by program       *)
(* counter, in which state the row is and which balance operations are     *)
(* saved, and Alone that no second goroutine is about to do the same       *)
(* operation for the same stake.  The audit trail, which is kept apart as  *)
(* well, is the second half: what it tells of and what it leaves out.      *)
(***************************************************************************)
EXTENDS StakesTable_proofs

\* The goroutines that make or undo a hold, confirm it, complete a stake.
MakerPcs == {"getBalance", "hold", "insert", "stake", "saveDelegating", "failing",
             "releasing", "release", "saveRelease"}
ConfirmPcs == {"confirm", "saveConfirm"}
CompletePcs == {"complete", "saveComplete"}
MovePcs == MakerPcs \cup ConfirmPcs \cup CompletePcs

\* Where a stake whose provider refused it may be when the hold is released.
RefusedStates == {"FAILED"} \cup (IF DbMayFail THEN {"PENDING"} ELSE {})

\* What goroutine memory w may rely on, of table t and history m.
MoveOk(t, m, w) ==
    LET state == t[w.id].state
        done == m[w.id]
    IN
    /\ w.pc \in {"getBalance", "hold"} => state = "NONE" /\ done = {}
    /\ w.pc = "insert" => state = "NONE" /\ done = {"hold"}
    /\ w.pc \in {"stake", "saveDelegating", "failing"} => state = "PENDING" /\ done = {"hold"}
    /\ w.pc \in {"saveDelegating", "failing"} => w.stake.version = 2
    /\ w.pc = "releasing" => state \in RefusedStates /\ done = {"hold"}
    /\ w.pc \in {"release", "saveRelease"} => state = "FAILED" /\ done = {"hold"}
    /\ w.pc \in ConfirmPcs => /\ state \in {"ACTIVE", "UNSTAKING", "WITHDRAWN"}
                              /\ "hold" \in done
                              /\ "confirm" \notin done
                              /\ "release" \notin done
    /\ w.pc \in CompletePcs => /\ state = "WITHDRAWN"
                               /\ "hold" \in done
                               /\ "complete" \notin done
                               /\ "release" \notin done

\* No two goroutines are about to do the same for the same stake.
Apart(v, w) ==
    v.id = w.id => /\ ~(v.pc \in MakerPcs /\ w.pc \in MakerPcs)
                   /\ ~(v.pc \in ConfirmPcs /\ w.pc \in ConfirmPcs)
                   /\ ~(v.pc \in CompletePcs /\ w.pc \in CompletePcs)

Alone == \A a, b \in Actors : a # b => Apart(work[a], work[b])

\* What is known of a row by itself.
RowOk(t, m, i) ==
    /\ m[i] \in MovesAllowed[t[i].state]
    /\ t[i].state = "PENDING" => t[i].version = 1

MoveInv ==
    /\ TableInv
    /\ \A i \in StakeIds : RowOk(stakes, moved, i)
    /\ \A i \in StakeIds : ~Created(i) => moved[i] = {}
    /\ \A a \in Actors : MoveOk(stakes, moved, work[a])
    /\ Alone

Histories == [StakeIds -> SUBSET Moves]

-----------------------------------------------------------------------------
(* One step of one goroutine                                               *)

\* What has to be shown of a step.
LEMMA MoveParts ==
    ASSUME MoveInv, TableInv', NEW a \in Actors, NEW w, Become(a, w),
           \A i \in StakeIds : RowOk(stakes', moved', i),
           \A i \in StakeIds : ~Created(i)' => moved'[i] = {},
           MoveOk(stakes', moved', w),
           \A b \in Actors \ {a} : MoveOk(stakes', moved', work[b]) /\ Apart(w, work[b])
    PROVE  MoveInv'
<1>1. work'[a] = w /\ \A b \in Actors \ {a} : work'[b] = work[b]
  BY DEF Become, MoveInv, TableInv, TypeInv, TypeOK
<1>2. \A b \in Actors : MoveOk(stakes', moved', work'[b])
  BY <1>1
<1>3. \A b, c \in Actors : b # c => Apart(work'[b], work'[c])
  <2>1. \A u, v : Apart(u, v) <=> Apart(v, u)
    BY DEF Apart
  <2>2. ASSUME NEW b \in Actors, NEW c \in Actors, b # c
        PROVE  Apart(work'[b], work'[c])
    <3>1. CASE b # a /\ c # a
      BY <1>1, <2>2, <3>1 DEF MoveInv, Alone
    <3>2. CASE b = a
      BY <1>1, <2>2, <3>2
    <3>3. CASE c = a
      BY <1>1, <2>1, <2>2, <3>3
    <3>. QED BY <3>1, <3>2, <3>3
  <2>. QED BY <2>2
<1>. QED BY <1>2, <1>3 DEF MoveInv, MoveOk, RowOk, Alone, Apart

\* Where goroutines and tables are before the step.
LEMMA MoveReads ==
    ASSUME MoveInv, NEW a \in Actors
    PROVE  /\ TableInv
           /\ stakes \in Tables
           /\ moved \in Histories
           /\ work[a] \in Workspace
           /\ work[a].pc \in StakePcs => work[a].id \in StakeIds /\ Created(work[a].id)
           /\ MoveOk(stakes, moved, work[a])
           /\ CopyOk(stakes, work[a])
           /\ MovePcs \subseteq StakePcs
           /\ \A b \in Actors \ {a} : Apart(work[a], work[b])
<1>1. MovePcs \subseteq StakePcs
  BY DEF MovePcs, MakerPcs, ConfirmPcs, CompletePcs, StakePcs, Pcs, HandlerPcs, PollerPcs
<1>. QED BY <1>1 DEF MoveInv, TableInv, TypeInv, TypeOK, Rooted, Located, Copies, Tables,
                     Histories, Alone

\* A goroutine that makes no claim.
LEMMA Unclaimed ==
    ASSUME NEW w, w.pc \notin MovePcs
    PROVE  /\ \A t, m : MoveOk(t, m, w)
           /\ \A v : Apart(w, v) /\ Apart(v, w)
  BY DEF MoveOk, Apart, MovePcs, MakerPcs, ConfirmPcs, CompletePcs

\* The tables do not change and the goroutine makes no claim, or the one it
\* made, or one of the same kind.
LEMMA QuietMove ==
    ASSUME MoveInv, TableInv', NEW a \in Actors, NEW w, Become(a, w),
           UNCHANGED <<stakes, moved>>,
           \A i \in StakeIds : Created(i) => Created(i)',
           \/ w.pc \notin MovePcs
           \/ /\ w.id = work[a].id
              /\ MoveOk(stakes, moved, w)
              /\ \/ w.pc \in MakerPcs /\ work[a].pc \in MakerPcs
                 \/ w.pc \in ConfirmPcs /\ work[a].pc \in ConfirmPcs
                 \/ w.pc \in CompletePcs /\ work[a].pc \in CompletePcs
    PROVE  MoveInv'
<1>1. MoveOk(stakes', moved', w)
  BY Unclaimed
<1>2. \A b \in Actors \ {a} : Apart(w, work[b])
  <2>1. CASE w.pc \notin MovePcs
    BY <2>1, Unclaimed
  <2>2. CASE w.pc \in MovePcs
    BY <2>2, MoveReads DEF Apart, MakerPcs, ConfirmPcs, CompletePcs
  <2>. QED BY <2>1, <2>2
<1>3. /\ \A i \in StakeIds : RowOk(stakes', moved', i)
      /\ \A i \in StakeIds : ~Created(i)' => moved'[i] = {}
      /\ \A b \in Actors : MoveOk(stakes', moved', work[b])
  BY DEF MoveInv
<1>. QED BY <1>1, <1>2, <1>3, MoveParts

\* The goroutine writes row i.  Only the maker of a stake is at a PENDING
\* row, and what goroutines know of other rows survives the other moves.
LEMMA WriteMove ==
    ASSUME MoveInv, TableInv', NEW a \in Actors, NEW w, Become(a, w),
           UNCHANGED <<terms, moved>>,
           NEW i \in StakeIds, i = work[a].id, w.id = i,
           NEW s, stakes' = [stakes EXCEPT ![i] = s],
           \/ /\ work[a].pc \in {"saveDelegating", "failing"}
              /\ \/ s.state = "DELEGATING" /\ w.pc \notin MovePcs
                 \/ s.state = "FAILED" /\ w.pc = "releasing"
           \/ stakes[i].state = "ACTIVE" /\ s.state = "UNSTAKING" /\ w.pc \notin MovePcs
           \/ stakes[i].state = "DELEGATING" /\ s.state = "ACTIVE" /\ w.pc = "confirm"
           \/ stakes[i].state = "DELEGATING" /\ s.state = "FAILED" /\ w.pc = "release"
           \/ stakes[i].state = "UNSTAKING" /\ s.state = "WITHDRAWN" /\ w.pc = "complete"
    PROVE  MoveInv'
<1>. DEFINE src == stakes[i].state
            made == work[a].pc \in {"saveDelegating", "failing"}
<1>0. /\ stakes \in Tables /\ moved \in Histories
      /\ MoveOk(stakes, moved, work[a])
      /\ \A b \in Actors \ {a} : MoveOk(stakes, moved, work[b]) /\ Apart(work[a], work[b])
      /\ \A j \in StakeIds : RowOk(stakes, moved, j)
      /\ \A j \in StakeIds : ~Created(j)' => moved'[j] = {}
  BY MoveReads DEF MoveInv, Created
<1>1. /\ stakes'[i] = s /\ \A j \in StakeIds : j # i => stakes'[j] = stakes[j]
      /\ \A j : moved'[j] = moved[j]
      /\ \A j : j # i => stakes'[j] = stakes[j]
  BY <1>0 DEF Tables
<1>2. made => src = "PENDING" /\ moved[i] = {"hold"}
  BY <1>0 DEF MoveOk
<1>3. \A j \in StakeIds : RowOk(stakes', moved', j)
  <2>1. RowOk(stakes', moved', i)
    <3>1. moved'[i] = moved[i] /\ moved[i] \in MovesAllowed[src]
      BY <1>0, <1>1 DEF RowOk
    <3>2. moved[i] \in MovesAllowed[s.state] /\ s.state # "PENDING"
      <4>1. CASE made
        BY <1>2, <4>1 DEF MovesAllowed
      <4>2. CASE src = "ACTIVE"
        BY <1>2, <3>1, <4>2 DEF MovesAllowed
      <4>3. CASE src = "DELEGATING"
        BY <1>2, <3>1, <4>3 DEF MovesAllowed
      <4>4. CASE src = "UNSTAKING"
        BY <1>2, <3>1, <4>4 DEF MovesAllowed
      <4>. QED BY <4>1, <4>2, <4>3, <4>4
    <3>. QED BY <1>1, <3>1, <3>2 DEF RowOk
  <2>2. ASSUME NEW j \in StakeIds, j # i
        PROVE  RowOk(stakes', moved', j)
    <3>1. stakes'[j] = stakes[j] /\ moved'[j] = moved[j]
      BY <1>1, <2>2
    <3>. QED BY <1>0, <3>1 DEF RowOk
  <2>. QED BY <2>1, <2>2
<1>4. /\ src = "DELEGATING" => moved[i] = {"hold"}
      /\ src = "UNSTAKING" => moved[i] \in {{"hold"}, {"hold", "confirm"}}
  BY <1>0 DEF RowOk, MovesAllowed
<1>5. MoveOk(stakes', moved', w)
  BY <1>1, <1>2, <1>4, Unclaimed
     DEF MoveOk, RefusedStates, ConfirmPcs, CompletePcs, MovePcs, MakerPcs
<1>6. ASSUME NEW b \in Actors \ {a}
      PROVE  MoveOk(stakes', moved', work[b]) /\ Apart(w, work[b])
  <2>1. CASE work[b].id # i
    <3>1. stakes'[work[b].id] = stakes[work[b].id]
      BY <1>1, <2>1
    <3>2. MoveOk(stakes', moved', work[b])
      BY <1>0, <1>1, <3>1 DEF MoveOk
    <3>. QED BY <2>1, <3>2 DEF Apart
  <2>2. CASE work[b].id = i
    <3>1. made => work[b].pc \notin MakerPcs
      BY <1>0, <2>2 DEF Apart, MakerPcs
    <3>2. MoveOk(stakes', moved', work[b])
      BY <1>0, <1>1, <1>2, <2>2, <3>1
         DEF MoveOk, MakerPcs, ConfirmPcs, CompletePcs, RefusedStates
    <3>3. Apart(w, work[b])
      BY <1>0, <1>2, <2>2, <3>1
         DEF MoveOk, Apart, MovePcs, MakerPcs, ConfirmPcs, CompletePcs, RefusedStates
    <3>. QED BY <3>2, <3>3
  <2>. QED BY <2>1, <2>2
<1>. QED BY <1>0, <1>3, <1>5, <1>6, MoveParts

\* The goroutine saves a balance operation of stake i, which nobody else is
\* about to do, and which the others' operations do not rule out.
LEMMA OperationMove ==
    ASSUME MoveInv, TableInv', NEW a \in Actors, NEW w, Become(a, w),
           UNCHANGED <<terms, stakes>>,
           NEW i \in StakeIds, i = work[a].id, w.id = i \/ w.pc \notin MovePcs,
           NEW op, moved' = [moved EXCEPT ![i] = @ \cup {op}],
           \/ op = "hold" /\ work[a].pc = "hold" /\ w.pc = "insert"
           \/ op = "confirm" /\ work[a].pc = "saveConfirm" /\ w.pc \notin MovePcs
           \/ /\ op = "release" /\ work[a].pc \in {"saveRelease", "releasing"}
              /\ w.pc \notin MovePcs
           \/ op = "complete" /\ work[a].pc = "saveComplete" /\ w.pc \notin MovePcs
    PROVE  MoveInv'
<1>0. /\ stakes \in Tables /\ moved \in Histories
      /\ MoveOk(stakes, moved, work[a])
      /\ \A b \in Actors \ {a} : MoveOk(stakes, moved, work[b]) /\ Apart(work[a], work[b])
      /\ \A j \in StakeIds : RowOk(stakes, moved, j)
      /\ Created(i) /\ \A j \in StakeIds : ~Created(j) => moved[j] = {}
  <2>1. work[a].pc \in StakePcs
    BY DEF StakePcs, Pcs, HandlerPcs, PollerPcs
  <2>. QED BY <2>1, MoveReads DEF MoveInv
<1>1. /\ moved'[i] = moved[i] \cup {op} /\ \A j : j # i => moved'[j] = moved[j]
      /\ \A j : stakes'[j] = stakes[j]
      /\ \A j : Created(j)' <=> Created(j)
  BY <1>0 DEF Histories, Created
<1>2. RowOk(stakes', moved', i)
  <2>1. CASE op = "hold"
    BY <1>0, <1>1, <2>1 DEF MoveOk, RowOk, MovesAllowed
  <2>2. CASE op = "confirm"
    BY <1>0, <1>1, <2>2 DEF MoveOk, RowOk, MovesAllowed, ConfirmPcs
  <2>3. CASE op = "release"
    BY <1>0, <1>1, <2>3 DEF MoveOk, RowOk, MovesAllowed, RefusedStates
  <2>4. CASE op = "complete"
    BY <1>0, <1>1, <2>4 DEF MoveOk, RowOk, MovesAllowed, CompletePcs
  <2>. QED BY <2>1, <2>2, <2>3, <2>4
<1>3. \A j \in StakeIds : RowOk(stakes', moved', j)
  BY <1>0, <1>1, <1>2 DEF RowOk
<1>4. \A j \in StakeIds : ~Created(j)' => moved'[j] = {}
  BY <1>0, <1>1
<1>5. MoveOk(stakes', moved', w)
  <2>1. CASE w.pc \notin MovePcs
    BY <2>1, Unclaimed
  <2>2. CASE w.pc = "insert"
    <3>1. w.id = i /\ work[a].pc = "hold" /\ op = "hold"
      BY <2>2 DEF MovePcs, MakerPcs
    <3>2. stakes'[i].state = "NONE" /\ moved'[i] = {"hold"}
      BY <1>0, <1>1, <3>1 DEF MoveOk
    <3>. QED BY <2>2, <3>1, <3>2 DEF MoveOk, ConfirmPcs, CompletePcs
  <2>. QED BY <2>1, <2>2
<1>6. ASSUME NEW b \in Actors \ {a}
      PROVE  MoveOk(stakes', moved', work[b]) /\ Apart(w, work[b])
  <2>1. CASE work[b].id # i
    <3>1. moved'[work[b].id] = moved[work[b].id]
      BY <1>1, <2>1
    <3>2. MoveOk(stakes', moved', work[b])
      BY <1>0, <1>1, <3>1 DEF MoveOk
    <3>. QED BY <2>1, <3>2, Unclaimed DEF Apart
  <2>2. CASE work[b].id = i
    <3>1. Apart(work[a], work[b])
      BY <1>0
    <3>2. MoveOk(stakes', moved', work[b])
      <4>1. CASE op = "hold"
        BY <1>0, <1>1, <2>2, <3>1, <4>1 DEF MoveOk, Apart, MakerPcs, ConfirmPcs, CompletePcs
      <4>2. CASE op = "confirm"
        BY <1>0, <1>1, <2>2, <3>1, <4>2
           DEF MoveOk, Apart, MakerPcs, ConfirmPcs, CompletePcs, RefusedStates
      <4>3. CASE op = "release"
        BY <1>0, <1>1, <2>2, <3>1, <4>3
           DEF MoveOk, Apart, MakerPcs, ConfirmPcs, CompletePcs, RefusedStates
      <4>4. CASE op = "complete"
        BY <1>0, <1>1, <2>2, <3>1, <4>4
           DEF MoveOk, Apart, MakerPcs, ConfirmPcs, CompletePcs, RefusedStates
      <4>. QED BY <4>1, <4>2, <4>3, <4>4
    <3>3. Apart(w, work[b])
      BY <2>2, <3>1, Unclaimed DEF Apart, MakerPcs, ConfirmPcs, CompletePcs
    <3>. QED BY <3>2, <3>3
  <2>. QED BY <2>1, <2>2
<1>. QED BY <1>3, <1>4, <1>5, <1>6, MoveParts

\* A new stake has no row and no operation, and nobody is at it.
LEMMA BeginMove ==
    ASSUME MoveInv, TableInv', NEW h \in Handlers, NEW i \in StakeIds, ~Created(i),
           NEW w, Become(h, w), w.pc = "getBalance", w.id = i,
           UNCHANGED <<stakes, moved>>,
           \A j \in StakeIds : Created(j) => Created(j)'
    PROVE  MoveInv'
<1>. h \in Actors
  BY DEF Actors
<1>1. stakes[i] = NoStake /\ moved[i] = {}
  BY DEF MoveInv, TableInv, TypeInv, Rooted
<1>2. MoveOk(stakes', moved', w)
  BY <1>1 DEF MoveOk, NoStake, ConfirmPcs, CompletePcs
<1>3. ASSUME NEW b \in Actors \ {h}
      PROVE  MoveOk(stakes', moved', work[b]) /\ Apart(w, work[b])
  <2>1. MoveOk(stakes, moved, work[b])
    BY DEF MoveInv
  <2>2. work[b].pc \in MovePcs => work[b].id # i
    BY MoveReads
  <2>3. Apart(w, work[b])
    BY <2>2 DEF Apart, MovePcs
  <2>. QED BY <2>1, <2>3
<1>4. /\ \A j \in StakeIds : RowOk(stakes', moved', j)
      /\ \A j \in StakeIds : ~Created(j)' => moved'[j] = {}
  BY DEF MoveInv
<1>. QED BY <1>2, <1>3, <1>4, MoveParts

\* The row of a new stake is inserted.
LEMMA InsertMove ==
    ASSUME MoveInv, TableInv', NEW h \in Handlers, InsertStake(h)
    PROVE  MoveInv'
<1>. h \in Actors
  BY DEF Actors
<1>. DEFINE i == work[h].id
<1>0. /\ work[h].pc = "insert" /\ work[h].stake = NewStake /\ i \in StakeIds /\ Created(i)
      /\ stakes \in Tables /\ work[h] \in Workspace
      /\ MoveOk(stakes, moved, work[h])
      /\ \A b \in Actors \ {h} : MoveOk(stakes, moved, work[b]) /\ Apart(work[h], work[b])
      /\ \A j \in StakeIds : RowOk(stakes, moved, j)
      /\ \A j \in StakeIds : ~Created(j)' => moved'[j] = {}
      /\ UNCHANGED <<terms, moved>>
  <2>1. work[h].pc = "insert" /\ work[h].pc \in StakePcs /\ UNCHANGED <<terms, moved>>
    BY DEF InsertStake, At, StakePcs, Pcs, HandlerPcs, ledger
  <2>. QED BY <2>1, MoveReads DEF MoveInv, CopyOk, StakeOk, NewStakePcs, Created
<1>1. CASE Return(h) /\ UNCHANGED stakes
  <2>1. Idle.pc \notin MovePcs
    BY DEF Idle, MovePcs, MakerPcs, ConfirmPcs, CompletePcs
  <2>. QED BY <1>0, <1>1, <2>1, QuietMove DEF Return, Created
<1>2. CASE stakes' = [stakes EXCEPT ![i] = work[h].stake] /\ Goto(h, "stake")
  <2>. DEFINE w == [work[h] EXCEPT !.pc = "stake"]
  <2>1. w.pc = "stake" /\ w.id = i /\ Become(h, w)
    BY <1>0, <1>2 DEF Workspace, Goto
  <2>. HIDE DEF w
  <2>2. /\ stakes'[i] = NewStake /\ \A j : j # i => stakes'[j] = stakes[j]
        /\ \A j : moved'[j] = moved[j]
        /\ stakes[i].state = "NONE" /\ moved[i] = {"hold"}
    BY <1>0, <1>2 DEF Tables, MoveOk
  <2>3. \A j \in StakeIds : RowOk(stakes', moved', j)
    <3>1. RowOk(stakes', moved', i)
      BY <2>2 DEF RowOk, MovesAllowed, NewStake
    <3>2. ASSUME NEW j \in StakeIds, j # i
          PROVE  RowOk(stakes', moved', j)
      <4>1. stakes'[j] = stakes[j] /\ moved'[j] = moved[j]
        BY <2>2, <3>2
      <4>. QED BY <1>0, <4>1 DEF RowOk
    <3>. QED BY <3>1, <3>2
  <2>4. MoveOk(stakes', moved', w)
    BY <2>1, <2>2 DEF MoveOk, NewStake, ConfirmPcs, CompletePcs
  <2>5. ASSUME NEW b \in Actors \ {h}
        PROVE  MoveOk(stakes', moved', work[b]) /\ Apart(w, work[b])
    <3>1. CASE work[b].id # i
      <4>1. stakes'[work[b].id] = stakes[work[b].id]
        BY <2>2, <3>1
      <4>2. MoveOk(stakes', moved', work[b])
        BY <1>0, <2>2, <4>1 DEF MoveOk
      <4>. QED BY <2>1, <3>1, <4>2 DEF Apart
    <3>2. CASE work[b].id = i
      <4>1. work[b].pc \notin MovePcs
        BY <1>0, <2>2, <3>2 DEF Apart, MoveOk, MovePcs, MakerPcs, ConfirmPcs, CompletePcs
      <4>. QED BY <4>1, Unclaimed
    <3>. QED BY <3>1, <3>2
  <2>. QED BY <1>0, <2>1, <2>3, <2>4, <2>5, MoveParts
<1>. QED BY <1>1, <1>2 DEF InsertStake, InsertStakeRow

-----------------------------------------------------------------------------
(* The steps of the system                                                 *)

\* Where the steps of a goroutine lead, and what they leave in its memory.
LEMMA Onward ==
    ASSUME MoveInv, NEW a \in Actors
    PROVE  /\ \A pc : Goto(a, pc) =>
                 \E w : /\ Become(a, w) /\ w.pc = pc /\ w.id = work[a].id
                       /\ w.stake = work[a].stake
           /\ \A b, pc : Adjust(a, b, pc) =>
                 \E w : Become(a, w) /\ w.pc = pc /\ w.id = work[a].id
           /\ Return(a) => \E w : Become(a, w) /\ w.pc = "idle"
           /\ \A i, phase : DropStake(a, i, phase) => \E w : Become(a, w) /\ w.pc = phase
           /\ NextEntry(a) => \E w : Become(a, w) /\ w.pc \in {"readTotal", "rewards"}
<1>0. work[a] \in Workspace
  BY MoveReads
<1>1. ASSUME NEW pc, Goto(a, pc)
      PROVE  \E w : /\ Become(a, w) /\ w.pc = pc /\ w.id = work[a].id
                   /\ w.stake = work[a].stake
  <2>. DEFINE w == [work[a] EXCEPT !.pc = pc]
  <2>1. w.pc = pc /\ w.id = work[a].id /\ w.stake = work[a].stake
    BY <1>0 DEF Workspace
  <2>2. Become(a, w)
    BY <1>1 DEF Goto
  <2>. HIDE DEF w
  <2>. QED BY <2>1, <2>2
<1>2. ASSUME NEW b, NEW pc, Adjust(a, b, pc)
      PROVE  \E w : Become(a, w) /\ w.pc = pc /\ w.id = work[a].id
  <2>. DEFINE w == [work[a] EXCEPT !.bal = NextVersion(b), !.pc = pc]
  <2>1. w.pc = pc /\ w.id = work[a].id
    BY <1>0 DEF Workspace
  <2>2. Become(a, w)
    BY <1>2 DEF Adjust
  <2>. HIDE DEF w
  <2>. QED BY <2>1, <2>2
<1>3. Return(a) => \E w : Become(a, w) /\ w.pc = "idle"
  <2>1. Idle.pc = "idle"
    BY DEF Idle
  <2>. QED BY <2>1 DEF Return
<1>4. \A i, phase : DropStake(a, i, phase) => \E w : Become(a, w) /\ w.pc = phase
  <2>. SUFFICES ASSUME NEW i, NEW phase, DropStake(a, i, phase)
                PROVE  \E w : Become(a, w) /\ w.pc = phase
    OBVIOUS
  <2>. DEFINE w == [Idle EXCEPT !.pc = phase,
                                !.list = [work[a].list EXCEPT ![i] = NoStake]]
  <2>1. w.pc = phase
    BY DEF Idle
  <2>2. Become(a, w)
    BY DEF DropStake
  <2>. HIDE DEF w
  <2>. QED BY <2>1, <2>2
<1>5. ASSUME NextEntry(a)
      PROVE  \E w : Become(a, w) /\ w.pc \in {"readTotal", "rewards"}
  <2>. DEFINE w == [work[a] EXCEPT !.entries = Tail(work[a].entries), !.total = 0,
                                   !.bal = NoBalance, !.pc = "readTotal"]
  <2>1. w.pc = "readTotal"
    BY <1>0 DEF Workspace
  <2>2. Become(a, w) \/ Continue(a, "rewards")
    BY <1>5 DEF NextEntry
  <2>. HIDE DEF w
  <2>. QED BY <1>4, <2>1, <2>2 DEF Continue
<1>. QED BY <1>1, <1>2, <1>3, <1>4, <1>5

\* A step of a goroutine that leaves the tables alone and claims nothing.
LEMMA LeaveMove ==
    ASSUME MoveInv, TableInv', NEW a \in Actors, UNCHANGED <<terms, stakes, moved>>,
           NEW w, Become(a, w), w.pc \notin MovePcs
    PROVE  MoveInv'
  BY QuietMove DEF Created

\* A step of a handler goroutine.
LEMMA HandlerMoves ==
    ASSUME MoveInv, TableInv', NEW h \in Handlers, Request(h) \/ HandlerStep(h)
    PROVE  MoveInv'
<1>. h \in Actors
  BY DEF Actors
<1>0. /\ stakes \in Tables /\ moved \in Histories /\ work[h] \in Workspace
      /\ work[h].pc \in StakePcs => work[h].id \in StakeIds /\ Created(work[h].id)
      /\ MoveOk(stakes, moved, work[h]) /\ CopyOk(stakes, work[h])
      /\ \A i \in StakeIds : RowOk(stakes, moved, i)
  BY MoveReads DEF MoveInv
<1>1. {"idle", "publishCreated", "publishUnstake", "publishBalance", "unstake",
       "saveUnstaking", "overwrite", "upsert"} \cap MovePcs = {}
  BY DEF MovePcs, MakerPcs, ConfirmPcs, CompletePcs
<1>2. Return(h) /\ UNCHANGED <<terms, stakes, moved>> => MoveInv'
  BY <1>1, Onward, LeaveMove
<1>3. ASSUME NEW acct, NEW x, NEW k, BeginCreateStake(h, acct, x, k)
      PROVE  MoveInv'
  <2>1. PICK i \in StakeIds :
           /\ ~Created(i)
           /\ terms' = [terms EXCEPT ![i] = [account |-> acct, amount |-> x, key |-> k]]
           /\ Become(h, [Idle EXCEPT !.pc = "getBalance", !.id = i,
                                     !.account = acct, !.stake = NewStake])
    BY <1>3 DEF BeginCreateStake
  <2>. DEFINE w == [Idle EXCEPT !.pc = "getBalance", !.id = i,
                                !.account = acct, !.stake = NewStake]
  <2>2. w.pc = "getBalance" /\ w.id = i
    BY DEF Idle
  <2>3. UNCHANGED <<stakes, moved>>
    BY <1>3 DEF BeginCreateStake, ledger
  <2>4. \A j \in StakeIds : Created(j) => Created(j)'
    BY <2>1 DEF Created
  <2>. HIDE DEF w
  <2>. QED BY <2>1, <2>2, <2>3, <2>4, BeginMove DEF w
<1>4. ASSUME NEW i, BeginUnstake(h, i)
      PROVE  MoveInv'
  <2>. DEFINE w == [Idle EXCEPT !.pc = "unstake", !.id = i,
                                !.account = terms[i].account,
                                !.stake = Unstake(stakes[i])]
  <2>1. w.pc = "unstake"
    BY DEF Idle
  <2>2. Become(h, w) /\ UNCHANGED <<terms, stakes, moved>>
    BY <1>4 DEF BeginUnstake, ledger
  <2>. HIDE DEF w
  <2>. QED BY <1>1, <2>1, <2>2, LeaveMove
<1>5. ASSUME NEW acct, NEW x, BeginSetBalance(h, acct, x)
      PROVE  MoveInv'
  <2>1. \A b : /\ [Idle EXCEPT !.pc = "upsert", !.account = acct, !.bal = b].pc = "upsert"
               /\ [Idle EXCEPT !.pc = "overwrite", !.account = acct, !.bal = b].pc
                     = "overwrite"
    BY DEF Idle
  <2>2. PICK w : Become(h, w) /\ w.pc \in {"upsert", "overwrite"}
    BY <1>5, <2>1 DEF BeginSetBalance
  <2>. QED BY <1>1, <1>5, <2>2, LeaveMove DEF BeginSetBalance, ledger
<1>6. CASE FetchBalance(h)
  <2>1. UNCHANGED <<terms, stakes, moved>> /\ work[h].pc = "getBalance"
    BY <1>6 DEF FetchBalance, ledger, At
  <2>2. ASSUME NEW b, Adjust(h, b, "hold")
        PROVE  MoveInv'
    <3>1. PICK w : Become(h, w) /\ w.pc = "hold" /\ w.id = work[h].id
      BY <2>2, Onward
    <3>2. MoveOk(stakes, moved, w)
      BY <1>0, <2>1, <3>1 DEF MoveOk, ConfirmPcs, CompletePcs
    <3>. QED BY <2>1, <3>1, <3>2, QuietMove DEF MakerPcs, Created
  <2>. QED BY <1>2, <1>6, <2>1, <2>2 DEF FetchBalance
<1>7. CASE SaveHold(h)
  <2>1. UNCHANGED <<terms, stakes>> /\ work[h].pc = "hold"
    BY <1>7 DEF SaveHold, At
  <2>2. CASE UpdateBalance(h, "hold") /\ Goto(h, "insert")
    <3>1. PICK w : Become(h, w) /\ w.pc = "insert" /\ w.id = work[h].id
      BY <2>2, Onward
    <3>2. work[h].id \in StakeIds
      BY <1>0, <2>1 DEF StakePcs, Pcs, HandlerPcs
    <3>3. moved' = [moved EXCEPT ![work[h].id] = @ \cup {"hold"}]
      BY <2>2 DEF UpdateBalance
    <3>. QED BY <2>1, <3>1, <3>2, <3>3, OperationMove
  <2>3. CASE UpdateBalanceFails(h) /\ Return(h)
    BY <1>2, <2>1, <2>3 DEF UpdateBalanceFails, ledger
  <2>. QED BY <1>7, <2>2, <2>3 DEF SaveHold
<1>8. CASE InsertStake(h)
  BY <1>8, InsertMove
<1>9. CASE CallStake(h)
  <2>1. /\ UNCHANGED <<terms, stakes, moved>> /\ work[h].pc = "stake"
        /\ work[h].stake = NewStake
    BY <1>0, <1>9 DEF CallStake, ledger, At, CopyOk, StakeOk
  <2>2. /\ NextVersion(Fail(NewStake)).version = 2
        /\ NextVersion(Delegate(NewStake)).version = 2
    BY DEF NextVersion, Fail, Delegate, NewStake, IsTerminal, TerminalStates
  <2>. DEFINE accepted == [work[h] EXCEPT !.stake = NextVersion(Delegate(work[h].stake)),
                                          !.pc = "saveDelegating"]
              refused == [work[h] EXCEPT
                             !.stake = NextVersion(Fail(work[h].stake)),
                             !.bal = NextVersion(ReleaseHold(work[h].bal, AmountOf(h))),
                             !.pc = "failing"]
  <2>5. /\ accepted.pc = "saveDelegating" /\ accepted.id = work[h].id
        /\ refused.pc = "failing" /\ refused.id = work[h].id
        /\ refused.stake = NextVersion(Fail(work[h].stake))
        /\ accepted.stake = NextVersion(Delegate(work[h].stake))
    BY <1>0 DEF Workspace
  <2>6. Become(h, accepted) \/ Become(h, refused)
    BY <1>9, Zenon DEF CallStake
  <2>. HIDE DEF accepted, refused
  <2>3. PICK w : /\ Become(h, w) /\ w.id = work[h].id
                 /\ \/ w.pc = "saveDelegating" /\ w.stake = NextVersion(Delegate(NewStake))
                    \/ w.pc = "failing" /\ w.stake = NextVersion(Fail(NewStake))
    BY <2>1, <2>5, <2>6
  <2>4. MoveOk(stakes, moved, w)
    BY <1>0, <2>1, <2>2, <2>3 DEF MoveOk, ConfirmPcs, CompletePcs
  <2>. QED BY <2>1, <2>3, <2>4, QuietMove DEF MakerPcs, Created
<1>10. CASE SaveFailing(h)
  <2>. DEFINE i == work[h].id
  <2>1. /\ UNCHANGED <<terms, moved>> /\ work[h].pc = "failing" /\ i \in StakeIds
        /\ stakes[i].state = "PENDING" /\ moved[i] = {"hold"}
        /\ stakes[i].version = 1 /\ work[h].stake.version = 2
        /\ work[h].stake.state = "FAILED"
    <3>1. UNCHANGED <<terms, moved>> /\ work[h].pc = "failing"
      BY <1>10 DEF SaveFailing, At, ledger
    <3>2. i \in StakeIds
      BY <1>0, <3>1 DEF StakePcs, Pcs, HandlerPcs
    <3>. QED BY <1>0, <3>1, <3>2 DEF MoveOk, RowOk, CopyOk, StakeOk, Leads
  <2>2. PICK w : Become(h, w) /\ w.pc = "releasing" /\ w.id = i
    BY <1>10, Onward DEF SaveFailing
  <2>3. CASE UpdateStake(h)
    <3>1. stakes' = [stakes EXCEPT ![i] = work[h].stake]
      BY <2>3 DEF UpdateStake
    <3>. QED BY <2>1, <2>2, <3>1, WriteMove
  <2>4. CASE UpdateStakeFails(h)
    <3>1. UNCHANGED stakes /\ DbMayFail
      BY <2>1, <2>4 DEF UpdateStakeFails, StakeVersionMatches
    <3>2. MoveOk(stakes, moved, w)
      BY <2>1, <2>2, <3>1 DEF MoveOk, ConfirmPcs, CompletePcs, RefusedStates
    <3>. QED BY <2>1, <2>2, <3>1, <3>2, QuietMove DEF MakerPcs, Created
  <2>. QED BY <1>10, <2>3, <2>4 DEF SaveFailing
<1>11. CASE SaveReleasing(h)
  <2>1. /\ UNCHANGED <<terms, stakes>> /\ work[h].pc = "releasing"
        /\ work[h].id \in StakeIds /\ Return(h)
    BY <1>0, <1>11 DEF SaveReleasing, At, StakePcs, Pcs, HandlerPcs
  <2>2. CASE UpdateBalance(h, "release")
    <3>1. PICK w : Become(h, w) /\ w.pc = "idle"
      BY <2>1, Onward
    <3>2. moved' = [moved EXCEPT ![work[h].id] = @ \cup {"release"}]
      BY <2>2 DEF UpdateBalance
    <3>. QED BY <1>1, <2>1, <3>1, <3>2, OperationMove
  <2>3. CASE UpdateBalanceFails(h)
    BY <1>2, <2>1, <2>3 DEF UpdateBalanceFails, ledger
  <2>. QED BY <1>11, <2>2, <2>3 DEF SaveReleasing
<1>12. CASE SaveDelegating(h) \/ SaveUnstaking(h)
  <2>. DEFINE i == work[h].id
  <2>1. UNCHANGED <<terms, moved>>
    BY <1>12 DEF SaveDelegating, SaveUnstaking, ledger
  <2>2. CASE UpdateStakeFails(h) /\ Return(h)
    BY <1>2, <2>1, <2>2 DEF UpdateStakeFails
  <2>3. CASE At(h, "saveDelegating") /\ UpdateStake(h) /\ Goto(h, "publishCreated")
    <3>1. work[h].pc = "saveDelegating" /\ i \in StakeIds
      BY <1>0, <2>3 DEF At, StakePcs, Pcs, HandlerPcs
    <3>2. stakes' = [stakes EXCEPT ![i] = work[h].stake]
      BY <2>3 DEF UpdateStake
    <3>3. PICK w : Become(h, w) /\ w.pc = "publishCreated" /\ w.id = i
      BY <2>3, Onward
    <3>4. work[h].stake.state = "DELEGATING"
      BY <1>0, <3>1 DEF CopyOk, StakeOk, Leads
    <3>. QED BY <1>1, <2>1, <3>1, <3>2, <3>3, <3>4, WriteMove
  <2>4. CASE At(h, "saveUnstaking") /\ UpdateStake(h) /\ Goto(h, "publishUnstake")
    <3>1. work[h].pc = "saveUnstaking" /\ i \in StakeIds
      BY <1>0, <2>4 DEF At, StakePcs, Pcs, HandlerPcs
    <3>2. /\ stakes' = [stakes EXCEPT ![i] = work[h].stake]
          /\ work[h].stake.version = stakes[i].version + 1
      BY <2>4 DEF UpdateStake, StakeVersionMatches
    <3>3. PICK w : Become(h, w) /\ w.pc = "publishUnstake" /\ w.id = i
      BY <2>4, Onward
    <3>4. work[h].stake.state = "UNSTAKING" /\ stakes[i].state = "ACTIVE"
      BY <1>0, <3>1, <3>2 DEF CopyOk, StakeOk, Leads
    <3>. QED BY <1>1, <2>1, <3>1, <3>2, <3>3, <3>4, WriteMove
  <2>. QED BY <1>12, <2>2, <2>3, <2>4 DEF SaveDelegating, SaveUnstaking
<1>13. CASE CallUnstake(h)
  <2>1. UNCHANGED <<terms, stakes, moved>>
    BY <1>13 DEF CallUnstake, ledger
  <2>. DEFINE asked == [work[h] EXCEPT !.stake = NextVersion(work[h].stake),
                                       !.pc = "saveUnstaking"]
  <2>2. asked.pc = "saveUnstaking"
    BY <1>0 DEF Workspace
  <2>4. Become(h, asked) \/ Return(h)
    BY <1>13, Zenon DEF CallUnstake
  <2>. HIDE DEF asked
  <2>3. CASE \E w : Become(h, w) /\ w.pc = "saveUnstaking"
    BY <1>1, <2>1, <2>3, LeaveMove
  <2>. QED BY <1>2, <2>1, <2>2, <2>3, <2>4
<1>14. CASE \/ PublishCreated(h) \/ PublishUnstakeRequested(h) \/ PublishBalanceCreated(h)
            \/ OverwriteBalance(h)
  BY <1>2, <1>14 DEF PublishCreated, PublishUnstakeRequested, PublishBalanceCreated,
                     OverwriteBalance, UpdateBalanceFails, ledger
<1>15. CASE UpsertBalance(h)
  <2>1. UNCHANGED <<terms, stakes, moved>>
    BY <1>15 DEF UpsertBalance
  <2>2. Goto(h, "publishBalance") \/ Return(h)
    BY <1>15 DEF UpsertBalance
  <2>. QED BY <1>1, <1>2, <2>1, <2>2, Onward, LeaveMove
<1>. QED
  BY <1>3, <1>4, <1>5, <1>6, <1>7, <1>8, <1>9, <1>10, <1>11, <1>12, <1>13, <1>14, <1>15
     DEF Request, HandlerStep

\* A step of a poller.
LEMMA PollerMoves ==
    ASSUME MoveInv, TableInv', NEW p \in Pollers, PollerStep(p)
    PROVE  MoveInv'
<1>. p \in Actors
  BY DEF Actors
<1>0. /\ stakes \in Tables /\ moved \in Histories /\ work[p] \in Workspace
      /\ work[p].pc \in StakePcs => work[p].id \in StakeIds /\ Created(work[p].id)
      /\ MoveOk(stakes, moved, work[p]) /\ CopyOk(stakes, work[p])
  BY MoveReads
<1>. DEFINE Still == UNCHANGED <<terms, stakes, moved>>
            Plain == {"idle", "delegating", "saveActive", "publishActivated", "saveFailed",
                      "saveUnreleased", "publishFailed", "unstaking", "saveWithdrawn",
                      "publishWithdrawn", "rewards", "readTotal", "createReward",
                      "addReward", "saveReward"}
<1>1. Plain \cap MovePcs = {}
  BY DEF MovePcs, MakerPcs, ConfirmPcs, CompletePcs
<1>2. \A w : Still /\ Become(p, w) /\ w.pc \in Plain => MoveInv'
  BY <1>1, LeaveMove
<1>3. \A i : \A phase \in Plain : Still /\ DropStake(p, i, phase) => MoveInv'
  BY <1>2, Onward
<1>4. \A phase \in Plain : Still /\ (Continue(p, phase) \/ Goto(p, phase)) => MoveInv'
  BY <1>2, <1>3, Onward DEF Continue
<1>5. \A b : \A pc \in Plain : Still /\ Adjust(p, b, pc) => MoveInv'
  BY <1>2, Onward
<1>6. Still /\ NextEntry(p) => MoveInv'
  BY <1>2, Onward
<1>7. CASE ListDelegating(p) \/ ListUnstaking(p) \/ ListActive(p)
  <2>1. Still
    BY <1>7 DEF ListDelegating, ListUnstaking, ListActive, ledger
  <2>2. \A phase, list : [Idle EXCEPT !.pc = phase, !.list = list].pc = phase
    BY DEF Idle
  <2>3. \A state : \A phase \in Plain : List(p, state, phase) => MoveInv'
    BY <1>2, <2>1, <2>2 DEF List
  <2>. HIDE DEF Still
  <2>. QED BY <1>7, <2>3 DEF ListDelegating, ListUnstaking, ListActive
<1>8. CASE CheckDelegating(p) \/ CheckUnstaking(p)
  <2>1. Still
    BY <1>8 DEF CheckDelegating, CheckUnstaking, ledger
  <2>2. ASSUME NEW i, NEW s, NEW pc \in Plain, Reconcile(p, i, s, pc)
        PROVE  MoveInv'
    <3>. DEFINE w == [work[p] EXCEPT !.id = i, !.account = terms[i].account,
                                     !.stake = NextVersion(s), !.pc = pc]
    <3>1. w.pc = pc
      BY <1>0 DEF Workspace
    <3>2. Become(p, w)
      BY <2>2 DEF Reconcile
    <3>. HIDE DEF w, Plain, Still
    <3>. QED BY <1>2, <2>1, <2>2, <3>1, <3>2
  <2>. QED BY <1>3, <1>8, <2>1, <2>2 DEF CheckDelegating, CheckUnstaking
<1>9. CASE SaveActive(p) \/ SaveFailed(p) \/ SaveWithdrawn(p)
  <2>. DEFINE i == work[p].id
  <2>1. UNCHANGED <<terms, moved>> /\ i \in StakeIds
    BY <1>0, <1>9 DEF SaveActive, SaveFailed, SaveWithdrawn, ledger, At, StakePcs, Pcs,
                      PollerPcs
  <2>2. ASSUME NEW phase \in Plain, UpdateStakeFails(p), Continue(p, phase)
        PROVE  MoveInv'
    BY <1>4, <2>1, <2>2 DEF UpdateStakeFails
  <2>3. UpdateStake(p) => /\ stakes' = [stakes EXCEPT ![i] = work[p].stake]
                          /\ work[p].stake.version = stakes[i].version + 1
    BY DEF UpdateStake, StakeVersionMatches
  <2>4. CASE At(p, "saveActive") /\ UpdateStake(p) /\ Goto(p, "confirm")
    <3>1. work[p].stake.state = "ACTIVE" /\ stakes[i].state = "DELEGATING"
      BY <1>0, <2>3, <2>4 DEF CopyOk, StakeOk, Leads, At
    <3>2. PICK w : Become(p, w) /\ w.pc = "confirm" /\ w.id = i
      BY <2>4, Onward
    <3>. QED BY <2>1, <2>3, <2>4, <3>1, <3>2, WriteMove
  <2>5. CASE At(p, "saveFailed") /\ UpdateStake(p) /\ Goto(p, "release")
    <3>1. work[p].stake.state = "FAILED" /\ stakes[i].state = "DELEGATING"
      BY <1>0, <2>3, <2>5 DEF CopyOk, StakeOk, Leads, At
    <3>2. PICK w : Become(p, w) /\ w.pc = "release" /\ w.id = i
      BY <2>5, Onward
    <3>. QED BY <2>1, <2>3, <2>5, <3>1, <3>2, WriteMove
  <2>6. CASE At(p, "saveWithdrawn") /\ UpdateStake(p) /\ Goto(p, "complete")
    <3>1. work[p].stake.state = "WITHDRAWN" /\ stakes[i].state = "UNSTAKING"
      BY <1>0, <2>3, <2>6 DEF CopyOk, StakeOk, Leads, At
    <3>2. PICK w : Become(p, w) /\ w.pc = "complete" /\ w.id = i
      BY <2>6, Onward
    <3>. QED BY <2>1, <2>3, <2>6, <3>1, <3>2, WriteMove
  <2>. QED BY <1>9, <2>2, <2>4, <2>5, <2>6 DEF SaveActive, SaveFailed, SaveWithdrawn
<1>10. CASE FetchToConfirm(p) \/ FetchToRelease(p) \/ FetchToComplete(p)
  <2>1. Still
    BY <1>10 DEF FetchToConfirm, FetchToRelease, FetchToComplete, ledger
  <2>2. ASSUME NEW b,
               \/ At(p, "confirm") /\ Adjust(p, b, "saveConfirm")
               \/ At(p, "release") /\ Adjust(p, b, "saveRelease")
               \/ At(p, "complete") /\ Adjust(p, b, "saveComplete")
        PROVE  MoveInv'
    <3>1. PICK w : /\ Become(p, w) /\ w.id = work[p].id
                   /\ \/ work[p].pc = "confirm" /\ w.pc = "saveConfirm"
                      \/ work[p].pc = "release" /\ w.pc = "saveRelease"
                      \/ work[p].pc = "complete" /\ w.pc = "saveComplete"
      BY <2>2, Onward DEF At
    <3>2. MoveOk(stakes, moved, w)
      BY <1>0, <3>1 DEF MoveOk, ConfirmPcs, CompletePcs
    <3>. QED BY <2>1, <3>1, <3>2, QuietMove DEF Created, MakerPcs, ConfirmPcs, CompletePcs
  <2>3. ASSUME NEW phase \in Plain,
               Continue(p, phase) \/ Goto(p, phase) \/ \E b : Adjust(p, b, phase)
        PROVE  MoveInv'
    BY <1>4, <1>5, <2>1, <2>3
  <2>. QED BY <1>10, <2>2, <2>3 DEF FetchToConfirm, FetchToRelease, FetchToComplete
<1>11. CASE SaveConfirm(p) \/ SaveRelease(p) \/ SaveComplete(p)
  <2>1. UNCHANGED <<terms, stakes>> /\ work[p].pc \in StakePcs
    BY <1>11 DEF SaveConfirm, SaveRelease, SaveComplete, At, StakePcs, Pcs, PollerPcs
  <2>2. ASSUME NEW phase \in Plain, UNCHANGED moved, Continue(p, phase) \/ Goto(p, phase)
        PROVE  MoveInv'
    BY <1>4, <2>1, <2>2
  <2>3. ASSUME NEW phase \in Plain, NEW op, UpdateBalance(p, op),
               Continue(p, phase) \/ Goto(p, phase),
               \/ op = "confirm" /\ At(p, "saveConfirm")
               \/ op = "release" /\ At(p, "saveRelease")
               \/ op = "complete" /\ At(p, "saveComplete")
        PROVE  MoveInv'
    <3>1. PICK w : Become(p, w) /\ w.pc \notin MovePcs
      BY <1>1, <2>3, Onward DEF Continue
    <3>2. moved' = [moved EXCEPT ![work[p].id] = @ \cup {op}]
      BY <2>3 DEF UpdateBalance
    <3>. HIDE DEF Plain
    <3>. QED BY <1>0, <2>1, <2>3, <3>1, <3>2, OperationMove DEF At
  <2>4. UpdateBalanceFails(p) => UNCHANGED moved
    BY DEF UpdateBalanceFails, ledger
  <2>. QED BY <1>11, <2>2, <2>3, <2>4 DEF SaveConfirm, SaveRelease, SaveComplete
<1>12. CASE PublishActivated(p) \/ PublishFailed(p) \/ PublishWithdrawn(p)
  BY <1>4, <1>12 DEF PublishActivated, PublishFailed, PublishWithdrawn, ledger
<1>13. CASE FetchRewards(p) \/ ReadTotal(p)
  <2>1. Still
    BY <1>13 DEF FetchRewards, ReadTotal, ledger
  <2>2. \A i, e, n :
           /\ [work[p] EXCEPT !.id = i, !.account = terms[i].account,
                              !.entries = e, !.pc = "readTotal"].pc = "readTotal"
           /\ [work[p] EXCEPT !.total = n, !.pc = "createReward"].pc = "createReward"
    BY <1>0 DEF Workspace
  <2>3. \A i, e, n :
           /\ Become(p, [work[p] EXCEPT !.id = i, !.account = terms[i].account,
                                        !.entries = e, !.pc = "readTotal"]) => MoveInv'
           /\ Become(p, [work[p] EXCEPT !.total = n, !.pc = "createReward"]) => MoveInv'
    BY <1>2, <2>1, <2>2
  <2>. QED BY <1>3, <1>6, <1>13, <2>1, <2>3 DEF FetchRewards, ReadTotal
<1>14. CASE CreateReward(p) \/ FetchToReward(p) \/ SaveReward(p)
  <2>1. Still
    BY <1>14 DEF CreateReward, FetchToReward, SaveReward, UpdateBalanceFails, ledger
  <2>. QED BY <1>4, <1>5, <1>6, <1>14, <2>1 DEF CreateReward, FetchToReward, SaveReward
<1>15. CASE EndPoll(p)
  BY <1>2, <1>15, Onward DEF EndPoll, ledger
<1>. QED
  BY <1>7, <1>8, <1>9, <1>10, <1>11, <1>12, <1>13, <1>14, <1>15 DEF PollerStep

-----------------------------------------------------------------------------
(* The theorem                                                             *)

\* At the start there are no rows, no operations, and nobody is at work.
LEMMA InitMoves == Init => MoveInv
<1>. SUFFICES ASSUME Init
              PROVE  MoveInv
  OBVIOUS
<1>1. Idle.pc \notin MovePcs
  BY DEF Idle, MovePcs, MakerPcs, ConfirmPcs, CompletePcs
<1>2. /\ \A a \in Actors : work[a] = Idle
      /\ \A i \in StakeIds : stakes[i] = NoStake /\ moved[i] = {}
  BY DEF Init, StoreInit
<1>3. /\ \A a \in Actors : MoveOk(stakes, moved, work[a])
      /\ Alone
  BY <1>1, <1>2, Unclaimed DEF Alone
<1>4. \A i \in StakeIds : RowOk(stakes, moved, i)
  BY <1>2 DEF RowOk, NoStake, MovesAllowed
<1>. QED BY <1>2, <1>3, <1>4, InitTable DEF MoveInv

\* Every step preserves the invariant.
LEMMA NextMoves == MoveInv /\ [Next]_vars => MoveInv'
<1>. SUFFICES ASSUME MoveInv, [Next]_vars
              PROVE  MoveInv'
  OBVIOUS
<1>1. TableInv'
  BY NextTable DEF MoveInv
<1>2. ASSUME NEW a \in Actors, Abandon(a)
      PROVE  MoveInv'
  <2>1. "idle" \notin MovePcs
    BY DEF MovePcs, MakerPcs, ConfirmPcs, CompletePcs
  <2>2. UNCHANGED <<terms, stakes, moved>> /\ Return(a)
    BY <1>2 DEF Abandon, ledger
  <2>. QED BY <1>1, <2>1, <2>2, Onward, LeaveMove
<1>3. CASE Crash
  <2>1. Idle.pc \notin MovePcs
    BY DEF Idle, MovePcs, MakerPcs, ConfirmPcs, CompletePcs
  <2>2. UNCHANGED <<terms, stakes, moved>> /\ \A a \in Actors : work'[a] = Idle
    BY <1>3 DEF Crash, ledger
  <2>3. /\ \A a \in Actors : MoveOk(stakes', moved', work'[a])
        /\ \A a, b \in Actors : Apart(work'[a], work'[b])
    BY <2>1, <2>2, Unclaimed
  <2>. QED BY <1>1, <2>2, <2>3 DEF MoveInv, MoveOk, RowOk, Alone, Apart, Created
<1>4. CASE Environment \/ UNCHANGED vars
  <2>1. UNCHANGED <<terms, stakes, moved, work>>
    BY <1>4 DEF Environment, vars, ledger
  <2>. QED BY <1>1, <2>1 DEF MoveInv, MoveOk, RowOk, Alone, Apart, Created
<1>. QED BY <1>1, <1>2, <1>3, <1>4, HandlerMoves, PollerMoves DEF Next

\* Whatever handlers and pollers race and whatever fails between the row's
\* write and the balance's: a hold is released only for a stake that failed
\* (or was refused), confirmed only for one that became active, completed
\* only for one that is withdrawn, and no operation is saved without its hold.
THEOREM MovesFollowRows == Spec => []MovesFollowState
<1>1. Init => MoveInv
  BY InitMoves
<1>2. MoveInv /\ [Next]_vars => MoveInv'
  BY NextMoves
<1>3. MoveInv => MovesFollowState
  BY DEF MoveInv, RowOk, MovesFollowState
<1>. QED BY <1>1, <1>2, <1>3, PTL DEF Spec

-----------------------------------------------------------------------------
(* The audit trail                                                         *)

\* Where the poller is between the write of a FAILED row and its event.
ReleasePcs == {"release", "saveRelease", "saveUnreleased", "publishFailed"}

\* Where a goroutine still has an event to publish.
TellPcs == {"publishCreated", "publishActivated", "publishUnstake", "publishWithdrawn"}
              \cup ReleasePcs

\* Whether an event can be lost between the change it tells of and its row.
MayForget == Faults \cap {"db", "cancel", "crash"} # {}

\* The provider-error path tells nothing of the row it writes.
UntoldEvents == IF CallMayFail THEN {"stake.created", "stake.failed"} ELSE {}

\* What every step does to the trail: it tells only of what happened, it
\* undoes nothing that happened, it forgets nothing unless a fault loses it,
\* and what happens in it is told of from then on.
TrailStep ==
    \A i \in StakeIds : \A e \in StakeEvents :
        /\ Told(i, e)' => Told(i, e) \/ Happened(i, e)'
        /\ Happened(i, e) => Happened(i, e)'
        /\ Told(i, e) => Told(i, e)' \/ MayForget
        /\ Happened(i, e)' => Happened(i, e) \/ Told(i, e)' \/ e \in UntoldEvents

\* Only an error of the provider leads to its error path.
FailsOnError == \A a \in Actors : At(a, "failing") => CallMayFail

\* A place in the code tells of one event at most.
LEMMA OneEvent ==
    /\ \A pc, e, f : Tells(pc, e) /\ Tells(pc, f) => e = f
    /\ \A pc, e : Tells(pc, e) => pc \in TellPcs /\ e \in StakeEvents
  BY DEF Tells, TellPcs, ReleasePcs, StakeEvents

\* Which goroutine tells of what when one of them steps.
LEMMA TellingStep ==
    ASSUME MoveInv, NEW a \in Actors, NEW w, Become(a, w), NEW i, NEW e
    PROVE  /\ Telling(i, e) <=> \/ Tells(work[a].pc, e) /\ work[a].id = i
                                \/ \E b \in Actors \ {a} : Tells(work[b].pc, e) /\ work[b].id = i
           /\ Telling(i, e)' <=> \/ Tells(w.pc, e) /\ w.id = i
                                 \/ \E b \in Actors \ {a} : Tells(work[b].pc, e) /\ work[b].id = i
<1>1. work'[a] = w /\ \A b \in Actors \ {a} : work'[b] = work[b]
  BY DEF Become, MoveInv, TableInv, TypeInv, TypeOK
<1>. QED BY <1>1 DEF Telling

\* What happened does not come undone: rows follow the lifecycle and balance
\* operations are never taken back.
LEMMA HappenedStays ==
    ASSUME MoveInv, [Lifecycle!LifecycleNext]_stakes, NEW i \in StakeIds,
           moved[i] \subseteq moved'[i], NEW e, Happened(i, e)
    PROVE  Happened(i, e)'
<1>1. \/ stakes'[i] = stakes[i]
      \/ stakes[i].state = "NONE"
      \/ <<stakes[i].state, stakes'[i].state>> \in Lifecycle!Edges
  <2>1. stakes \in Tables
    BY MoveReads DEF MoveInv, TableInv, TypeInv, TypeOK, Tables
  <2>2. ASSUME NEW j \in StakeIds, Lifecycle!Appear(j)
        PROVE  stakes'[i] = stakes[i] \/ stakes[i].state = "NONE"
    BY <2>1, <2>2 DEF Lifecycle!Appear, Lifecycle!NoStake, Tables
  <2>3. ASSUME NEW j \in StakeIds, Lifecycle!Move(j)
        PROVE  \/ stakes'[i] = stakes[i]
               \/ <<stakes[i].state, stakes'[i].state>> \in Lifecycle!Edges
    <3>1. PICK x \in Lifecycle!Edges :
             /\ stakes[j].state = x[1]
             /\ stakes' = [stakes EXCEPT ![j] = [state |-> x[2],
                                                 version |-> stakes[j].version + 1]]
      BY <2>3 DEF Lifecycle!Move
    <3>2. x = <<x[1], x[2]>>
      BY DEF Lifecycle!Edges
    <3>3. j # i => stakes'[i] = stakes[i]
      BY <2>1, <3>1 DEF Tables
    <3>4. j = i => stakes'[i].state = x[2]
      BY <2>1, <3>1 DEF Tables
    <3>. QED BY <3>1, <3>2, <3>3, <3>4
  <2>. QED BY <2>2, <2>3 DEF Lifecycle!LifecycleNext
<1>2. <<stakes[i].state, stakes'[i].state>> \in Lifecycle!Edges =>
         /\ stakes[i].state \notin {"NONE", "FAILED", "WITHDRAWN"}
         /\ stakes'[i].state \notin {"NONE", "PENDING"}
         /\ stakes[i].state = "UNSTAKING" => stakes'[i].state = "WITHDRAWN"
  BY DEF Lifecycle!Edges
<1>. QED BY <1>1, <1>2 DEF Happened

\* A step that tells nothing and publishes nothing, and in which nothing
\* happens but what the provider-error path keeps to itself.
LEMMA SilentTrail ==
    ASSUME MoveInv, [Lifecycle!LifecycleNext]_stakes, NEW a \in Actors, NEW w, Become(a, w),
           w.pc \notin TellPcs, work[a].pc \in TellPcs => MayForget,
           \A i \in StakeIds : \A e \in StakeEvents : <<i, e>> \in audit' <=> <<i, e>> \in audit,
           \/ UNCHANGED moved
           \/ \E i, op : op \in {"hold", "release"} /\ moved' = [moved EXCEPT ![i] = @ \cup {op}],
           \A i \in StakeIds : \/ stakes'[i] = stakes[i]
                               \/ stakes'[i].state = "PENDING"
                               \/ CallMayFail /\ stakes'[i].state = "FAILED"
    PROVE  TrailStep
<1>. SUFFICES ASSUME NEW i \in StakeIds, NEW e \in StakeEvents
              PROVE  /\ Told(i, e)' => Told(i, e)
                     /\ Happened(i, e) => Happened(i, e)'
                     /\ Told(i, e) => Told(i, e)' \/ MayForget
                     /\ Happened(i, e)' => Happened(i, e) \/ e \in UntoldEvents
  BY DEF TrailStep
<1>1. /\ Telling(i, e)' => Telling(i, e)
      /\ Telling(i, e) => Telling(i, e)' \/ MayForget
  BY TellingStep, OneEvent
<1>2. /\ moved[i] \subseteq moved'[i]
      /\ "confirm" \in moved'[i] => "confirm" \in moved[i]
      /\ "complete" \in moved'[i] => "complete" \in moved[i]
  <2>1. moved \in Histories
    BY MoveReads
  <2>. QED BY <2>1 DEF Histories
<1>3. Happened(i, e) => Happened(i, e)'
  BY <1>2, HappenedStays
<1>4. Happened(i, e)' => Happened(i, e) \/ e \in UntoldEvents
  BY <1>2 DEF Happened, UntoldEvents
<1>. QED BY <1>1, <1>3, <1>4 DEF Told

\* A step of the poller on its way from the FAILED row to the event.
LEMMA ReleaseTrail ==
    ASSUME MoveInv, NEW a \in Actors, NEW w, Become(a, w), w.id = work[a].id,
           work[a].pc \in ReleasePcs, w.pc \in ReleasePcs,
           UNCHANGED <<stakes, audit>>,
           \/ UNCHANGED moved
           \/ \E i, op : op \in {"hold", "release"} /\ moved' = [moved EXCEPT ![i] = @ \cup {op}]
    PROVE  TrailStep
<1>. SUFFICES ASSUME NEW i \in StakeIds, NEW e \in StakeEvents
              PROVE  /\ Told(i, e)' <=> Told(i, e)
                     /\ Happened(i, e)' <=> Happened(i, e)
  BY DEF TrailStep
<1>1. Tells(w.pc, e) <=> Tells(work[a].pc, e)
  BY DEF Tells, ReleasePcs
<1>2. Telling(i, e)' <=> Telling(i, e)
  BY <1>1, TellingStep
<1>3. /\ "confirm" \in moved'[i] <=> "confirm" \in moved[i]
      /\ "complete" \in moved'[i] <=> "complete" \in moved[i]
  <2>1. moved \in Histories
    BY MoveReads
  <2>. QED BY <2>1 DEF Histories
<1>. QED BY <1>2, <1>3 DEF Told, Happened

\* A step in which event e of stake i happens, and after which the goroutine
\* tells of it.
LEMMA EventTrail ==
    ASSUME MoveInv, [Lifecycle!LifecycleNext]_stakes, NEW a \in Actors, NEW w, Become(a, w),
           NEW i \in StakeIds, i = work[a].id, w.id = i,
           work[a].pc \notin TellPcs, UNCHANGED audit,
           NEW e \in StakeEvents, Tells(w.pc, e), Happened(i, e)',
           \A j \in StakeIds : moved[j] \subseteq moved'[j],
           \A j \in StakeIds : \A f \in StakeEvents :
              Happened(j, f)' => Happened(j, f) \/ (j = i /\ f = e)
    PROVE  TrailStep
<1>. SUFFICES ASSUME NEW j \in StakeIds, NEW f \in StakeEvents
              PROVE  /\ Told(j, f)' => Told(j, f) \/ Happened(j, f)'
                     /\ Happened(j, f) => Happened(j, f)'
                     /\ Told(j, f) => Told(j, f)'
                     /\ Happened(j, f)' => Happened(j, f) \/ Told(j, f)'
  BY DEF TrailStep
<1>1. /\ Telling(j, f) => Telling(j, f)'
      /\ Telling(j, f)' => Telling(j, f) \/ (j = i /\ f = e)
      /\ Telling(i, e)'
  BY TellingStep, OneEvent
<1>2. Happened(j, f) => Happened(j, f)'
  BY HappenedStays
<1>. QED BY <1>1, <1>2 DEF Told

\* A goroutine publishes the event it has to tell of.
LEMMA PublishTrail ==
    ASSUME MoveInv, NEW a \in Actors, NEW w, Become(a, w), w.pc \notin TellPcs,
           UNCHANGED <<stakes, moved>>,
           NEW e, Tells(work[a].pc, e), Publish(work[a].id, e)
    PROVE  TrailStep
<1>. SUFFICES ASSUME NEW i \in StakeIds, NEW f \in StakeEvents
              PROVE  /\ Told(i, f)' => Told(i, f)
                     /\ Told(i, f) => Told(i, f)' \/ MayForget
                     /\ Happened(i, f)' <=> Happened(i, f)
  BY DEF TrailStep
<1>1. /\ audit \subseteq audit'
      /\ <<i, f>> \in audit' => <<i, f>> \in audit \/ (i = work[a].id /\ f = e)
      /\ <<work[a].id, e>> \in audit' \/ MayForget
  BY DEF Publish, DbMayFail, MayForget
<1>2. /\ Telling(i, f)' => Telling(i, f)
      /\ Telling(i, f) => Telling(i, f)' \/ (i = work[a].id /\ f = e)
      /\ Telling(work[a].id, e)
  BY TellingStep, OneEvent
<1>3. Happened(i, f)' <=> Happened(i, f)
  BY DEF Happened
<1>. QED BY <1>1, <1>2, <1>3 DEF Told

\* A step of a handler goroutine.
LEMMA HandlerTrail ==
    ASSUME MoveInv, FailsOnError, [Lifecycle!LifecycleNext]_stakes,
           NEW h \in Handlers, Request(h) \/ HandlerStep(h)
    PROVE  TrailStep /\ FailsOnError'
<1>. h \in Actors
  BY DEF Actors
<1>0. /\ stakes \in Tables /\ moved \in Histories /\ work[h] \in Workspace
      /\ work[h].pc \in StakePcs => work[h].id \in StakeIds
      /\ CopyOk(stakes, work[h])
  BY MoveReads
<1>. DEFINE Plain(w) == /\ w.pc \notin TellPcs
                        /\ w.pc = "failing" => CallMayFail
            Same == UNCHANGED <<stakes, moved, audit>>
<1>1. ASSUME NEW w, Become(h, w), w.pc = "failing" => CallMayFail
      PROVE  FailsOnError'
  <2>1. work'[h] = w /\ \A b \in Actors \ {h} : work'[b] = work[b]
    BY <1>1 DEF Become, MoveInv, TableInv, TypeInv, TypeOK
  <2>. QED BY <1>1, <2>1 DEF FailsOnError, At
<1>2. ASSUME NEW w, Become(h, w), Plain(w), Same, work[h].pc \notin TellPcs
      PROVE  TrailStep /\ FailsOnError'
  BY <1>1, <1>2, SilentTrail
<1>3. ASSUME Return(h), Same, work[h].pc \notin TellPcs
      PROVE  TrailStep /\ FailsOnError'
  <2>1. PICK w : Become(h, w) /\ w.pc = "idle"
    BY <1>3, Onward
  <2>2. Plain(w)
    BY <2>1 DEF TellPcs, ReleasePcs
  <2>. QED BY <1>2, <1>3, <2>1, <2>2
<1>4. ASSUME Request(h)
      PROVE  TrailStep /\ FailsOnError'
  <2>1. Same /\ At(h, "idle")
    BY <1>4 DEF Request, BeginCreateStake, BeginUnstake, BeginSetBalance, ledger
  <2>2. \E w : Become(h, w) /\ w.pc \in {"getBalance", "unstake", "upsert", "overwrite"}
    <3>1. ASSUME NEW i, NEW acct, NEW s, NEW b, NEW pc,
                 \/ Become(h, [Idle EXCEPT !.pc = pc, !.id = i, !.account = acct, !.stake = s])
                 \/ Become(h, [Idle EXCEPT !.pc = pc, !.account = acct, !.bal = b])
          PROVE  \E w : Become(h, w) /\ w.pc = pc
      <4>. DEFINE v == [Idle EXCEPT !.pc = pc, !.id = i, !.account = acct, !.stake = s]
                  u == [Idle EXCEPT !.pc = pc, !.account = acct, !.bal = b]
      <4>1. v.pc = pc /\ u.pc = pc
        BY DEF Idle
      <4>2. Become(h, v) \/ Become(h, u)
        BY <3>1
      <4>. HIDE DEF v, u
      <4>. QED BY <4>1, <4>2
    <3>2. ASSUME NEW acct, NEW x, NEW k, BeginCreateStake(h, acct, x, k)
          PROVE  \E w : Become(h, w) /\ w.pc = "getBalance"
      <4>1. PICK i : Become(h, [Idle EXCEPT !.pc = "getBalance", !.id = i,
                                            !.account = acct, !.stake = NewStake])
        BY <3>2 DEF BeginCreateStake
      <4>. QED BY <3>1, <4>1, Zenon
    <3>3. ASSUME NEW i, BeginUnstake(h, i)
          PROVE  \E w : Become(h, w) /\ w.pc = "unstake"
      <4>1. \E acct, s : Become(h, [Idle EXCEPT !.pc = "unstake", !.id = i,
                                                !.account = acct, !.stake = s])
        BY <3>3 DEF BeginUnstake
      <4>. QED BY <3>1, <4>1, Zenon
    <3>4. ASSUME NEW acct, NEW x, BeginSetBalance(h, acct, x)
          PROVE  \E w : Become(h, w) /\ w.pc \in {"upsert", "overwrite"}
      <4>1. \E b : \/ Become(h, [Idle EXCEPT !.pc = "upsert", !.account = acct, !.bal = b])
                   \/ Become(h, [Idle EXCEPT !.pc = "overwrite", !.account = acct, !.bal = b])
        BY <3>4, Zenon DEF BeginSetBalance
      <4>2. (\E w : Become(h, w) /\ w.pc = "upsert") \/ \E w : Become(h, w) /\ w.pc = "overwrite"
        BY <3>1, <4>1, Zenon
      <4>. QED BY <4>2
    <3>. QED BY <1>4, <3>2, <3>3, <3>4 DEF Request
  <2>3. {"getBalance", "unstake", "upsert", "overwrite", "idle"} \cap TellPcs = {}
    BY DEF TellPcs, ReleasePcs
  <2>. QED BY <1>2, <2>1, <2>2, <2>3 DEF At
<1>5. CASE FetchBalance(h)
  <2>1. Same /\ work[h].pc = "getBalance"
    BY <1>5 DEF FetchBalance, ledger, At
  <2>2. {"getBalance", "hold", "idle"} \cap TellPcs = {}
    BY DEF TellPcs, ReleasePcs
  <2>3. ASSUME NEW b, Adjust(h, b, "hold")
        PROVE  TrailStep /\ FailsOnError'
    BY <1>2, <2>1, <2>2, <2>3, Onward
  <2>. QED BY <1>3, <1>5, <2>1, <2>2, <2>3 DEF FetchBalance
<1>6. CASE SaveHold(h)
  <2>1. UNCHANGED <<stakes, audit>> /\ work[h].pc = "hold"
    BY <1>6 DEF SaveHold, At
  <2>2. {"hold", "insert"} \cap TellPcs = {}
    BY DEF TellPcs, ReleasePcs
  <2>3. CASE UpdateBalance(h, "hold") /\ Goto(h, "insert")
    <3>1. PICK w : Become(h, w) /\ w.pc = "insert"
      BY <2>3, Onward
    <3>2. moved' = [moved EXCEPT ![work[h].id] = @ \cup {"hold"}]
      BY <2>3 DEF UpdateBalance
    <3>. QED BY <1>1, <2>1, <2>2, <3>1, <3>2, SilentTrail
  <2>4. CASE UpdateBalanceFails(h) /\ Return(h)
    BY <1>3, <2>1, <2>2, <2>4 DEF UpdateBalanceFails, ledger
  <2>. QED BY <1>6, <2>3, <2>4 DEF SaveHold
<1>7. CASE InsertStake(h)
  <2>1. UNCHANGED <<moved, audit>> /\ work[h].pc = "insert"
    BY <1>7 DEF InsertStake, At, ledger
  <2>2. {"stake", "insert"} \cap TellPcs = {}
    BY DEF TellPcs, ReleasePcs
  <2>3. CASE InsertStakeRow(work[h].id, work[h].stake) /\ Goto(h, "stake")
    <3>1. PICK w : Become(h, w) /\ w.pc = "stake"
      BY <2>3, Onward
    <3>2. work[h].stake = NewStake /\ work[h].id \in StakeIds
      BY <1>0, <2>1 DEF CopyOk, StakeOk, NewStakePcs, StakePcs, Pcs, HandlerPcs
    <3>3. stakes' = [stakes EXCEPT ![work[h].id] = NewStake]
      BY <2>3, <3>2 DEF InsertStakeRow
    <3>4. \A i \in StakeIds : stakes'[i] = stakes[i] \/ stakes'[i].state = "PENDING"
      BY <1>0, <3>2, <3>3 DEF Tables, NewStake
    <3>. QED BY <1>1, <2>1, <2>2, <3>1, <3>4, SilentTrail
  <2>4. CASE UNCHANGED stakes /\ Return(h)
    BY <1>3, <2>1, <2>2, <2>4
  <2>. QED BY <1>7, <2>3, <2>4 DEF InsertStake
<1>8. CASE CallStake(h)
  <2>1. Same /\ work[h].pc = "stake"
    BY <1>8 DEF CallStake, At, ledger
  <2>2. {"stake", "saveDelegating", "failing"} \cap TellPcs = {}
    BY DEF TellPcs, ReleasePcs
  <2>3. ASSUME NEW s, NEW b, NEW pc,
               \/ Become(h, [work[h] EXCEPT !.stake = s, !.pc = pc])
               \/ Become(h, [work[h] EXCEPT !.stake = s, !.bal = b, !.pc = pc])
        PROVE  \E w : Become(h, w) /\ w.pc = pc
    <3>. DEFINE v == [work[h] EXCEPT !.stake = s, !.pc = pc]
                u == [work[h] EXCEPT !.stake = s, !.bal = b, !.pc = pc]
    <3>1. v.pc = pc /\ u.pc = pc
      BY <1>0 DEF Workspace
    <3>2. Become(h, v) \/ Become(h, u)
      BY <2>3
    <3>. HIDE DEF v, u
    <3>. QED BY <3>1, <3>2
  <2>4. \/ \E w : Become(h, w) /\ w.pc = "saveDelegating"
        \/ CallMayFail /\ \E w : Become(h, w) /\ w.pc = "failing"
    BY <1>8, <2>3, Zenon DEF CallStake, ProviderFailsStake
  <2>. QED BY <1>2, <2>1, <2>2, <2>4
<1>9. CASE SaveFailing(h)
  <2>1. UNCHANGED <<moved, audit>> /\ work[h].pc = "failing" /\ work[h].id \in StakeIds
    BY <1>0, <1>9 DEF SaveFailing, At, ledger, StakePcs, Pcs, HandlerPcs
  <2>2. CallMayFail
    BY <2>1 DEF FailsOnError, At
  <2>3. {"failing", "releasing"} \cap TellPcs = {}
    BY DEF TellPcs, ReleasePcs
  <2>4. PICK w : Become(h, w) /\ w.pc = "releasing"
    BY <1>9, Onward DEF SaveFailing
  <2>5. work[h].stake.state = "FAILED"
    BY <1>0, <2>1 DEF CopyOk, StakeOk, Leads
  <2>6. \/ stakes' = [stakes EXCEPT ![work[h].id] = work[h].stake]
        \/ UNCHANGED stakes
    BY <1>9 DEF SaveFailing, UpdateStake, UpdateStakeFails
  <2>7. \A i \in StakeIds : stakes'[i] = stakes[i] \/ stakes'[i].state = "FAILED"
    BY <1>0, <2>1, <2>5, <2>6 DEF Tables
  <2>. QED BY <1>1, <2>1, <2>2, <2>3, <2>4, <2>7, SilentTrail
<1>10. CASE SaveReleasing(h)
  <2>1. UNCHANGED <<stakes, audit>> /\ work[h].pc = "releasing" /\ Return(h)
    BY <1>10 DEF SaveReleasing, At
  <2>2. {"releasing", "idle"} \cap TellPcs = {}
    BY DEF TellPcs, ReleasePcs
  <2>3. PICK w : Become(h, w) /\ w.pc = "idle"
    BY <2>1, Onward
  <2>4. \/ moved' = [moved EXCEPT ![work[h].id] = @ \cup {"release"}]
        \/ UNCHANGED moved
    BY <1>10 DEF SaveReleasing, UpdateBalance, UpdateBalanceFails, ledger
  <2>. QED BY <1>1, <2>1, <2>2, <2>3, <2>4, SilentTrail
<1>11. CASE SaveDelegating(h) \/ SaveUnstaking(h)
  <2>1. /\ UNCHANGED <<moved, audit>> /\ work[h].pc \in {"saveDelegating", "saveUnstaking"}
        /\ work[h].id \in StakeIds
    BY <1>0, <1>11 DEF SaveDelegating, SaveUnstaking, At, ledger, StakePcs, Pcs, HandlerPcs
  <2>2. work[h].pc \notin TellPcs
    BY <2>1 DEF TellPcs, ReleasePcs
  <2>3. CASE UpdateStakeFails(h) /\ Return(h)
    BY <1>3, <2>1, <2>2, <2>3 DEF UpdateStakeFails
  <2>. PICK i \in StakeIds : i = work[h].id
    BY <2>1
  <2>4. UpdateStake(h) => /\ stakes' = [stakes EXCEPT ![i] = work[h].stake]
                          /\ work[h].stake.version = stakes[i].version + 1
    BY DEF UpdateStake, StakeVersionMatches
  <2>5. UpdateStake(h) => /\ stakes'[i].state = work[h].stake.state
                          /\ \A j \in StakeIds : j # i => stakes'[j] = stakes[j]
    BY <1>0, <2>1, <2>4 DEF Tables
  <2>6. CASE At(h, "saveDelegating") /\ UpdateStake(h) /\ Goto(h, "publishCreated")
    <3>1. work[h].stake.state = "DELEGATING"
      BY <1>0, <2>6 DEF CopyOk, StakeOk, Leads, At
    <3>2. PICK w : Become(h, w) /\ w.pc = "publishCreated" /\ w.id = i
      BY <2>6, Onward
    <3>3. Tells(w.pc, "stake.created") /\ "stake.created" \in StakeEvents
      BY <3>2 DEF Tells, StakeEvents
    <3>4. /\ Happened(i, "stake.created")'
          /\ \A j \in StakeIds : \A f \in StakeEvents :
                Happened(j, f)' => Happened(j, f) \/ (j = i /\ f = "stake.created")
      BY <2>1, <2>5, <2>6, <3>1 DEF Happened
    <3>. QED BY <1>1, <2>1, <2>2, <3>2, <3>3, <3>4, EventTrail
  <2>7. CASE At(h, "saveUnstaking") /\ UpdateStake(h) /\ Goto(h, "publishUnstake")
    <3>1. work[h].stake.state = "UNSTAKING" /\ stakes[i].state = "ACTIVE"
      BY <1>0, <2>4, <2>7 DEF CopyOk, StakeOk, Leads, At
    <3>2. PICK w : Become(h, w) /\ w.pc = "publishUnstake" /\ w.id = i
      BY <2>7, Onward
    <3>3. Tells(w.pc, "stake.unstake_requested") /\ "stake.unstake_requested" \in StakeEvents
      BY <3>2 DEF Tells, StakeEvents
    <3>4. /\ Happened(i, "stake.unstake_requested")'
          /\ \A j \in StakeIds : \A f \in StakeEvents :
                Happened(j, f)' => Happened(j, f)
                                     \/ (j = i /\ f = "stake.unstake_requested")
      BY <2>1, <2>5, <2>7, <3>1 DEF Happened
    <3>. QED BY <1>1, <2>1, <2>2, <3>2, <3>3, <3>4, EventTrail
  <2>. QED BY <1>11, <2>3, <2>6, <2>7 DEF SaveDelegating, SaveUnstaking
<1>12. CASE CallUnstake(h)
  <2>1. Same /\ work[h].pc = "unstake"
    BY <1>12 DEF CallUnstake, At, ledger
  <2>2. {"unstake", "saveUnstaking"} \cap TellPcs = {}
    BY DEF TellPcs, ReleasePcs
  <2>3. \A s : [work[h] EXCEPT !.stake = s, !.pc = "saveUnstaking"].pc = "saveUnstaking"
    BY <1>0 DEF Workspace
  <2>4. \A s : Become(h, [work[h] EXCEPT !.stake = s, !.pc = "saveUnstaking"])
                  => TrailStep /\ FailsOnError'
    BY <1>2, <2>1, <2>2, <2>3
  <2>. QED BY <1>3, <1>12, <2>1, <2>2, <2>4 DEF CallUnstake
<1>13. CASE PublishCreated(h) \/ PublishUnstakeRequested(h)
  <2>1. PICK e : /\ UNCHANGED <<stakes, moved>> /\ Return(h)
                 /\ Tells(work[h].pc, e)
                 /\ Publish(work[h].id, e)
    BY <1>13 DEF PublishCreated, PublishUnstakeRequested, At, ledger, Tells
  <2>2. PICK w : Become(h, w) /\ w.pc = "idle"
    BY <2>1, Onward
  <2>3. w.pc \notin TellPcs
    BY <2>2 DEF TellPcs, ReleasePcs
  <2>. QED BY <1>1, <2>1, <2>2, <2>3, PublishTrail
<1>14. CASE PublishBalanceCreated(h)
  <2>1. /\ UNCHANGED <<stakes, moved>> /\ Return(h) /\ work[h].pc = "publishBalance"
        /\ Publish(work[h].account, "balance.created")
    BY <1>14 DEF PublishBalanceCreated, At, ledger
  <2>2. PICK w : Become(h, w) /\ w.pc = "idle"
    BY <2>1, Onward
  <2>3. {"publishBalance", "idle"} \cap TellPcs = {}
    BY DEF TellPcs, ReleasePcs
  <2>4. \A i \in StakeIds : \A e \in StakeEvents : <<i, e>> \in audit' <=> <<i, e>> \in audit
    BY <2>1 DEF Publish, StakeEvents
  <2>. QED BY <1>1, <2>1, <2>2, <2>3, <2>4, SilentTrail
<1>15. CASE UpsertBalance(h) \/ OverwriteBalance(h)
  <2>1. Same /\ work[h].pc \in {"upsert", "overwrite"}
    BY <1>15 DEF UpsertBalance, OverwriteBalance, At, UpdateBalanceFails, ledger
  <2>2. {"upsert", "overwrite", "publishBalance"} \cap TellPcs = {}
    BY DEF TellPcs, ReleasePcs
  <2>3. Goto(h, "publishBalance") => TrailStep /\ FailsOnError'
    BY <1>2, <2>1, <2>2, Onward
  <2>. QED BY <1>3, <1>15, <2>1, <2>2, <2>3 DEF UpsertBalance, OverwriteBalance
<1>. QED
  BY <1>4, <1>5, <1>6, <1>7, <1>8, <1>9, <1>10, <1>11, <1>12, <1>13, <1>14, <1>15
     DEF HandlerStep

\* A step of a poller.
LEMMA PollerTrail ==
    ASSUME MoveInv, FailsOnError, [Lifecycle!LifecycleNext]_stakes,
           NEW p \in Pollers, PollerStep(p)
    PROVE  TrailStep /\ FailsOnError'
<1>. p \in Actors
  BY DEF Actors
<1>0. /\ stakes \in Tables /\ moved \in Histories /\ work[p] \in Workspace
      /\ work[p].pc \in StakePcs => work[p].id \in StakeIds
      /\ CopyOk(stakes, work[p])
  BY MoveReads
<1>. DEFINE Same == UNCHANGED <<stakes, moved, audit>>
            Plain == {"idle", "delegating", "saveActive", "confirm", "saveConfirm",
                      "saveFailed", "unstaking", "saveWithdrawn", "complete",
                      "saveComplete", "rewards", "readTotal", "createReward",
                      "addReward", "saveReward"}
<1>1. Plain \cap TellPcs = {} /\ "failing" \notin Plain /\ "failing" \notin TellPcs
  BY DEF TellPcs, ReleasePcs
<1>2. ASSUME NEW w, Become(p, w), w.pc # "failing"
      PROVE  FailsOnError'
  <2>1. work'[p] = w /\ \A b \in Actors \ {p} : work'[b] = work[b]
    BY <1>2 DEF Become, MoveInv, TableInv, TypeInv, TypeOK
  <2>. QED BY <1>2, <2>1 DEF FailsOnError, At
<1>3. ASSUME NEW w, Become(p, w), w.pc \in Plain, Same, work[p].pc \in Plain
      PROVE  TrailStep /\ FailsOnError'
  BY <1>1, <1>2, <1>3, SilentTrail
<1>4. ASSUME NEW pc \in Plain, Same, work[p].pc \in Plain,
             \/ Goto(p, pc) \/ Continue(p, pc) \/ NextEntry(p) \/ Return(p)
             \/ \E b : Adjust(p, b, pc)
             \/ \E i : DropStake(p, i, pc)
      PROVE  TrailStep /\ FailsOnError'
  <2>1. \E w : Become(p, w) /\ w.pc \in Plain
    BY <1>4, Onward DEF Continue
  <2>. QED BY <1>3, <1>4, <2>1
<1>5. CASE ListDelegating(p) \/ ListUnstaking(p) \/ ListActive(p)
  <2>1. Same /\ work[p].pc \in Plain
    BY <1>5 DEF ListDelegating, ListUnstaking, ListActive, ledger, Listing, At
  <2>2. ASSUME NEW state, NEW phase \in Plain, List(p, state, phase)
        PROVE  TrailStep /\ FailsOnError'
    <3>1. PICK list : Become(p, [Idle EXCEPT !.pc = phase, !.list = list])
      BY <2>2, Zenon DEF List
    <3>. DEFINE w == [Idle EXCEPT !.pc = phase, !.list = list]
    <3>2. w.pc = phase
      BY DEF Idle
    <3>. HIDE DEF w
    <3>. QED BY <1>3, <2>1, <3>1, <3>2 DEF w
  <2>. QED BY <1>5, <2>2 DEF ListDelegating, ListUnstaking, ListActive
<1>6. CASE CheckDelegating(p) \/ CheckUnstaking(p)
  <2>1. Same /\ work[p].pc \in Plain
    BY <1>6 DEF CheckDelegating, CheckUnstaking, ledger, At
  <2>2. ASSUME NEW i, NEW s, NEW pc \in Plain, Reconcile(p, i, s, pc)
        PROVE  TrailStep /\ FailsOnError'
    <3>. DEFINE w == [work[p] EXCEPT !.id = i, !.account = terms[i].account,
                                     !.stake = NextVersion(s), !.pc = pc]
    <3>1. w.pc = pc
      BY <1>0 DEF Workspace
    <3>2. Become(p, w)
      BY <2>2 DEF Reconcile
    <3>. HIDE DEF w, Plain, Same
    <3>. QED BY <1>3, <2>1, <2>2, <3>1, <3>2
  <2>3. ASSUME NEW i, NEW pc \in Plain, DropStake(p, i, pc)
        PROVE  TrailStep /\ FailsOnError'
    BY <1>4, <2>1, <2>3
  <2>4. \/ \E i, s : Reconcile(p, i, s, "saveActive")
        \/ \E i, s : Reconcile(p, i, s, "saveFailed")
        \/ \E i, s : Reconcile(p, i, s, "saveWithdrawn")
        \/ \E i : DropStake(p, i, "delegating")
        \/ \E i : DropStake(p, i, "unstaking")
    BY <1>6 DEF CheckDelegating, CheckUnstaking
  <2>. QED BY <2>2, <2>3, <2>4
<1>7. CASE SaveActive(p) \/ SaveFailed(p) \/ SaveWithdrawn(p)
  <2>1. /\ UNCHANGED <<moved, audit>> /\ work[p].id \in StakeIds
        /\ work[p].pc \in {"saveActive", "saveFailed", "saveWithdrawn"}
    BY <1>0, <1>7 DEF SaveActive, SaveFailed, SaveWithdrawn, ledger, At, StakePcs, Pcs,
                      PollerPcs
  <2>2. work[p].pc \in Plain
    BY <2>1
  <2>3. ASSUME NEW phase \in Plain, UpdateStakeFails(p), Continue(p, phase)
        PROVE  TrailStep /\ FailsOnError'
    BY <1>4, <2>1, <2>2, <2>3 DEF UpdateStakeFails
  <2>. PICK i \in StakeIds : i = work[p].id
    BY <2>1
  <2>4. UpdateStake(p) => /\ stakes' = [stakes EXCEPT ![i] = work[p].stake]
                          /\ work[p].stake.version = stakes[i].version + 1
    BY DEF UpdateStake, StakeVersionMatches
  <2>5. UpdateStake(p) => /\ stakes'[i].state = work[p].stake.state
                          /\ \A j \in StakeIds : j # i => stakes'[j] = stakes[j]
    BY <1>0, <2>1, <2>4 DEF Tables
  <2>6. CASE \/ At(p, "saveActive") /\ UpdateStake(p) /\ Goto(p, "confirm")
             \/ At(p, "saveWithdrawn") /\ UpdateStake(p) /\ Goto(p, "complete")
    <3>1. \/ work[p].stake.state = "ACTIVE" /\ stakes[i].state = "DELEGATING"
          \/ work[p].stake.state = "WITHDRAWN" /\ stakes[i].state = "UNSTAKING"
      BY <1>0, <2>4, <2>6 DEF CopyOk, StakeOk, Leads, At
    <3>2. PICK w : Become(p, w) /\ w.pc \in Plain
      BY <2>6, Onward
    <3>3. \A j \in StakeIds : \A f \in StakeEvents : Happened(j, f)' <=> Happened(j, f)
      BY <2>1, <2>5, <2>6, <3>1 DEF Happened
    <3>4. TrailStep
      <4>1. \A j \in StakeIds : \A f \in StakeEvents : Telling(j, f)' <=> Telling(j, f)
        BY <1>1, <2>2, <3>2, TellingStep, OneEvent
      <4>. QED BY <2>1, <3>3, <4>1 DEF TrailStep, Told
    <3>. QED BY <1>1, <1>2, <3>2, <3>4
  <2>7. CASE At(p, "saveFailed") /\ UpdateStake(p) /\ Goto(p, "release")
    <3>1. work[p].stake.state = "FAILED" /\ stakes[i].state = "DELEGATING"
      BY <1>0, <2>4, <2>7 DEF CopyOk, StakeOk, Leads, At
    <3>2. PICK w : Become(p, w) /\ w.pc = "release" /\ w.id = i
      BY <2>7, Onward
    <3>3. Tells(w.pc, "stake.failed") /\ "stake.failed" \in StakeEvents
      BY <3>2 DEF Tells, StakeEvents
    <3>4. /\ Happened(i, "stake.failed")'
          /\ \A j \in StakeIds : \A f \in StakeEvents :
                Happened(j, f)' => Happened(j, f) \/ (j = i /\ f = "stake.failed")
      BY <2>1, <2>5, <2>7, <3>1 DEF Happened
    <3>. QED BY <1>1, <1>2, <2>1, <2>2, <3>2, <3>3, <3>4, EventTrail
  <2>. QED BY <1>7, <2>3, <2>6, <2>7 DEF SaveActive, SaveFailed, SaveWithdrawn
<1>8. CASE FetchToConfirm(p) \/ FetchToComplete(p)
  <2>1. Same /\ work[p].pc \in Plain
    BY <1>8 DEF FetchToConfirm, FetchToComplete, ledger, At
  <2>2. \/ \E b : Adjust(p, b, "saveConfirm")
        \/ \E b : Adjust(p, b, "saveComplete")
        \/ Continue(p, "delegating")
        \/ Continue(p, "unstaking")
    BY <1>8 DEF FetchToConfirm, FetchToComplete
  <2>. QED BY <1>4, <2>1, <2>2
<1>9. CASE SaveConfirm(p) \/ SaveComplete(p)
  <2>1. UNCHANGED <<stakes, audit>> /\ work[p].id \in StakeIds /\ work[p].pc \in Plain
    BY <1>0, <1>9 DEF SaveConfirm, SaveComplete, At, StakePcs, Pcs, PollerPcs
  <2>2. ASSUME NEW phase \in Plain, UpdateBalanceFails(p), Continue(p, phase)
        PROVE  TrailStep /\ FailsOnError'
    BY <1>4, <2>1, <2>2 DEF UpdateBalanceFails, ledger
  <2>. PICK i \in StakeIds : i = work[p].id
    BY <2>1
  <2>3. ASSUME NEW op, NEW pc, NEW e, UpdateBalance(p, op), Goto(p, pc), Tells(pc, e),
               \/ op = "confirm" /\ e = "stake.activated"
               \/ op = "complete" /\ e = "stake.withdrawn"
        PROVE  TrailStep /\ FailsOnError'
    <3>1. PICK w : Become(p, w) /\ w.pc = pc /\ w.id = i
      BY <2>3, Onward
    <3>2. moved' = [moved EXCEPT ![i] = @ \cup {op}]
      BY <2>3 DEF UpdateBalance
    <3>3. /\ moved'[i] = moved[i] \cup {op}
          /\ \A j \in StakeIds : j # i => moved'[j] = moved[j]
      BY <1>0, <2>1, <3>2 DEF Histories
    <3>4. /\ Happened(i, e)'
          /\ \A j \in StakeIds : moved[j] \subseteq moved'[j]
          /\ \A j \in StakeIds : \A f \in StakeEvents :
                Happened(j, f)' => Happened(j, f) \/ (j = i /\ f = e)
      BY <2>1, <2>3, <3>3 DEF Happened
    <3>5. TrailStep
      BY <1>1, <2>1, <2>3, <3>1, <3>4, OneEvent, EventTrail
    <3>. QED BY <1>1, <1>2, <2>3, <3>1, <3>5, OneEvent
  <2>4. /\ Tells("publishActivated", "stake.activated")
        /\ Tells("publishWithdrawn", "stake.withdrawn")
    BY DEF Tells
  <2>. QED BY <1>9, <2>2, <2>3, <2>4 DEF SaveConfirm, SaveComplete
<1>10. CASE FetchToRelease(p) \/ SaveRelease(p)
  <2>1. UNCHANGED <<stakes, audit>> /\ work[p].pc \in ReleasePcs
    BY <1>10 DEF FetchToRelease, SaveRelease, At, ReleasePcs
  <2>2. \/ UNCHANGED moved
        \/ moved' = [moved EXCEPT ![work[p].id] = @ \cup {"release"}]
    BY <1>10 DEF FetchToRelease, SaveRelease, ledger, UpdateBalance, UpdateBalanceFails
  <2>3. \/ \E b : Adjust(p, b, "saveRelease")
        \/ \E b : Adjust(p, b, "saveUnreleased")
        \/ Goto(p, "publishFailed")
    BY <1>10 DEF FetchToRelease, SaveRelease
  <2>4. PICK w : /\ Become(p, w) /\ w.id = work[p].id
                 /\ w.pc \in {"saveRelease", "saveUnreleased", "publishFailed"}
    BY <2>3, Onward
  <2>5. w.pc \in ReleasePcs /\ w.pc # "failing"
    BY <2>4 DEF ReleasePcs
  <2>. QED BY <1>2, <2>1, <2>2, <2>4, <2>5, ReleaseTrail
<1>11. CASE PublishActivated(p) \/ PublishFailed(p) \/ PublishWithdrawn(p)
  <2>1. PICK e : /\ UNCHANGED <<stakes, moved>>
                 /\ Continue(p, "delegating") \/ Continue(p, "unstaking")
                 /\ Tells(work[p].pc, e)
                 /\ Publish(work[p].id, e)
    BY <1>11 DEF PublishActivated, PublishFailed, PublishWithdrawn, At, ledger, Tells
  <2>2. PICK w : Become(p, w) /\ w.pc \in Plain
    BY <2>1, Onward DEF Continue
  <2>. QED BY <1>1, <1>2, <2>1, <2>2, PublishTrail
<1>12. CASE FetchRewards(p) \/ ReadTotal(p)
  <2>1. Same /\ work[p].pc \in Plain
    BY <1>12 DEF FetchRewards, ReadTotal, ledger, At
  <2>2. ASSUME NEW i, NEW e, NEW n, NEW pc \in Plain,
               \/ Become(p, [work[p] EXCEPT !.id = i, !.account = terms[i].account,
                                            !.entries = e, !.pc = pc])
               \/ Become(p, [work[p] EXCEPT !.total = n, !.pc = pc])
        PROVE  TrailStep /\ FailsOnError'
    <3>. DEFINE v == [work[p] EXCEPT !.id = i, !.account = terms[i].account,
                                     !.entries = e, !.pc = pc]
                u == [work[p] EXCEPT !.total = n, !.pc = pc]
    <3>1. v.pc = pc /\ u.pc = pc
      BY <1>0 DEF Workspace
    <3>2. Become(p, v) \/ Become(p, u)
      BY <2>2
    <3>. HIDE DEF v, u, Plain, Same
    <3>. QED BY <1>3, <2>1, <2>2, <3>1, <3>2
  <2>3. /\ "readTotal" \in Plain /\ "createReward" \in Plain
    OBVIOUS
  <2>4. \A i : DropStake(p, i, "rewards") => TrailStep /\ FailsOnError'
    BY <1>4, <2>1
  <2>5. NextEntry(p) => TrailStep /\ FailsOnError'
    BY <1>4, <2>1
  <2>. HIDE DEF Plain, Same
  <2>. QED BY <1>12, <2>2, <2>3, <2>4, <2>5, Zenon DEF FetchRewards, ReadTotal
<1>13. CASE CreateReward(p) \/ FetchToReward(p) \/ SaveReward(p) \/ EndPoll(p)
  <2>1. Same /\ work[p].pc \in Plain
    BY <1>13 DEF CreateReward, FetchToReward, SaveReward, EndPoll, UpdateBalanceFails,
                 ledger, At, Listing
  <2>2. \/ Goto(p, "addReward") \/ NextEntry(p) \/ Return(p)
        \/ \E b : Adjust(p, b, "saveReward")
    BY <1>13 DEF CreateReward, FetchToReward, SaveReward, EndPoll
  <2>. QED BY <1>4, <2>1, <2>2
<1>. QED
  BY <1>5, <1>6, <1>7, <1>8, <1>9, <1>10, <1>11, <1>12, <1>13 DEF PollerStep

\* Every step of the system keeps the trail.
LEMMA NextTrail ==
    ASSUME MoveInv, FailsOnError, [Next]_vars
    PROVE  TrailStep /\ FailsOnError'
<1>0. /\ [Lifecycle!LifecycleNext]_stakes
      /\ work \in [Actors -> Workspace]
  BY NextTable DEF MoveInv, TableInv, TypeInv, TypeOK
<1>1. ASSUME NEW a \in Actors, Abandon(a)
      PROVE  TrailStep /\ FailsOnError'
  <2>1. UNCHANGED <<stakes, moved, audit>> /\ Return(a) /\ MayForget
    BY <1>1 DEF Abandon, ledger, MayForget
  <2>2. PICK w : Become(a, w) /\ w.pc = "idle"
    BY <2>1, Onward
  <2>3. w.pc \notin TellPcs
    BY <2>2 DEF TellPcs, ReleasePcs
  <2>4. TrailStep
    BY <1>0, <2>1, <2>2, <2>3, SilentTrail
  <2>5. FailsOnError'
    BY <1>0, <2>2 DEF FailsOnError, At, Become
  <2>. QED BY <2>4, <2>5
<1>2. CASE Crash
  <2>1. /\ UNCHANGED <<stakes, moved, audit>> /\ MayForget
        /\ \A a \in Actors : work'[a].pc = "idle"
    BY <1>2 DEF Crash, ledger, MayForget, Idle
  <2>2. \A i, e : ~Telling(i, e)'
    BY <2>1, OneEvent DEF Telling, TellPcs, ReleasePcs
  <2>3. TrailStep
    BY <2>1, <2>2 DEF TrailStep, Told, Happened
  <2>. QED BY <2>1, <2>3 DEF FailsOnError, At
<1>3. CASE Environment \/ UNCHANGED vars
  <2>1. UNCHANGED <<stakes, moved, audit, work>>
    BY <1>3 DEF Environment, vars, ledger
  <2>. QED BY <2>1 DEF TrailStep, Told, Telling, Happened, FailsOnError, At
<1>. QED BY <1>0, <1>1, <1>2, <1>3, HandlerTrail, PollerTrail DEF Next

\* What the trail is known to be after every step: nothing that did not
\* happen is in it or about to be.
TrailInv ==
    /\ MoveInv
    /\ FailsOnError
    /\ \A i \in StakeIds : \A e \in StakeEvents : Told(i, e) => Happened(i, e)

\* And, where no fault loses an event, nothing is missing that is not the
\* provider-error path's.
Complete ==
    \A i \in StakeIds : \A e \in StakeEvents :
        Happened(i, e) => Told(i, e) \/ e \in UntoldEvents

\* At the start nothing has happened and nothing is told.
LEMMA InitTrail == Init => TrailInv /\ Complete
<1>. SUFFICES ASSUME Init
              PROVE  TrailInv /\ Complete
  OBVIOUS
<1>1. /\ audit = {}
      /\ \A a \in Actors : work[a].pc = "idle"
      /\ \A i \in StakeIds : stakes[i].state = "NONE" /\ moved[i] = {}
  BY DEF Init, StoreInit, NoStake, Idle
<1>2. \A i, e : ~Told(i, e)
  BY <1>1, OneEvent DEF Told, Telling, TellPcs, ReleasePcs
<1>3. \A i \in StakeIds : \A e : ~Happened(i, e)
  BY <1>1 DEF Happened
<1>. QED BY <1>1, <1>2, <1>3, InitMoves DEF TrailInv, Complete, FailsOnError, At

\* Every step keeps the trail true.
LEMMA TrailStays == TrailInv /\ [Next]_vars => TrailInv'
<1>. SUFFICES ASSUME TrailInv, [Next]_vars
              PROVE  TrailInv'
  OBVIOUS
<1>1. TrailStep /\ FailsOnError' /\ MoveInv'
  BY NextTrail, NextMoves DEF TrailInv
<1>2. ASSUME NEW i \in StakeIds, NEW e \in StakeEvents, Told(i, e)'
      PROVE  Happened(i, e)'
  BY <1>1, <1>2 DEF TrailInv, TrailStep
<1>. QED BY <1>1, <1>2 DEF TrailInv

\* The audit trail is true: whatever fails, races or is cut off between a
\* write and its event, no row of audit_events tells of a change that the
\* stakes and balances tables do not have.
THEOREM TrailIsTrue == Spec => []AuditIsTrue
<1>1. TrailInv => AuditIsTrue
  BY DEF TrailInv, AuditIsTrue, Told
<1>. QED BY <1>1, InitTrail, TrailStays, PTL DEF Spec

\* Where no fault can cut a goroutine off and no statement fails, every step
\* keeps the trail complete.
LEMMA CompleteStays ==
    ASSUME ~MayForget
    PROVE  TrailInv /\ Complete /\ [Next]_vars => Complete'
<1>. SUFFICES ASSUME TrailInv, Complete, [Next]_vars
              PROVE  Complete'
  OBVIOUS
<1>1. TrailStep
  BY NextTrail DEF TrailInv
<1>2. ASSUME NEW i \in StakeIds, NEW e \in StakeEvents, Happened(i, e)'
      PROVE  Told(i, e)' \/ e \in UntoldEvents
  BY <1>1, <1>2 DEF Complete, TrailStep
<1>. QED BY <1>2 DEF Complete, UntoldEvents

\* Where no statement fails and nothing is cut off, the trail says exactly
\* when funds were confirmed and completed, whoever races, and also when the
\* provider's calls fail.
THEOREM FundsAreTold ==
    ASSUME Faults \cap {"db", "cancel", "crash"} = {}
    PROVE  Spec => []AuditFollowsFunds
<1>1. ~MayForget
  BY DEF MayForget
<1>2. TrailInv /\ Complete => AuditFollowsFunds
  BY DEF TrailInv, Complete, AuditFollowsFunds, UntoldEvents, StakeEvents
<1>. QED BY <1>1, <1>2, InitTrail, TrailStays, CompleteStays, PTL DEF Spec

\* And where the provider's calls do not fail either, the three events that do
\* not wait for the balance are those of the changes the rows went through: it
\* was submitted, its unstake was requested, a poll found it failed.
THEOREM RowsAreTold ==
    ASSUME Faults \cap {"db", "cancel", "crash"} = {}, ~CallMayFail
    PROVE  Spec => []AuditFollowsRows
<1>1. ~MayForget
  BY DEF MayForget
<1>2. TrailInv /\ Complete => AuditFollowsRows
  BY DEF TrailInv, Complete, AuditFollowsRows, UntoldEvents, StakeEvents
<1>. QED BY <1>1, <1>2, InitTrail, TrailStays, CompleteStays, PTL DEF Spec
=============================================================================
