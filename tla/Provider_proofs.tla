--------------------------- MODULE Provider_proofs ---------------------------
(***************************************************************************)
(* The stakes table and the provider, for every instance.  A row goes on   *)
(* only with an answer of the provider in hand, and the answer is still    *)
(* good when the row is written, because a stake goes through its statuses *)
(* in one direction (and may fail before it is withdrawn) and is unstaked  *)
(* only when its row said ACTIVE.                                          *)
(* AnswerOk says, by program counter, what an answer that a goroutine acts *)
(* on still tells of the provider.                                         *)
(***************************************************************************)
EXTENDS Moves_proofs

Confirmed == {"ACTIVE", "UNSTAKING", "WITHDRAWN"}
AnswerPcs == {"saveDelegating", "publishCreated", "unstake", "saveUnstaking", "saveActive", "saveWithdrawn"}

Present(t, i) == t[i].state # "NONE"
Sent(t, i) == t[i].state \notin {"NONE", "PENDING"}

\* What w may rely on, of table t and the provider's statuses q.
AnswerOk(t, q, w) ==
    /\ w.pc \in {"unstake", "saveUnstaking"} => t[w.id].state \in Confirmed
    /\ w.pc \in {"publishCreated", "saveActive", "saveWithdrawn"} => Sent(t, w.id)
    /\ Provider # "mock" /\ w.pc \in {"saveDelegating", "publishCreated"}
          => q[w.id] # "none"
    /\ Provider = "port" =>
          /\ w.pc = "saveDelegating" => q[w.id] \in {"PENDING", "ACTIVE", "FAILED"}
          /\ w.pc = "saveUnstaking" => q[w.id] \in {"UNSTAKING", "WITHDRAWN", "FAILED"}
          /\ w.pc = "saveActive" => q[w.id] \in Confirmed \cup {"FAILED"}
          /\ w.pc = "saveWithdrawn" => q[w.id] = "WITHDRAWN"
    /\ \A i \in StakeIds : w.list[i] # NoStake => Sent(t, i)

Expected(t, q, i) ==
    t[i].state \in DOMAIN ProviderExpected => q[i] \in ProviderExpected[t[i].state]

ProviderInv ==
    /\ MoveInv
    /\ \A i \in StakeIds : Knows(i) => Present(stakes, i)
    /\ \A i, j \in StakeIds :
          Present(stakes, i) /\ Present(stakes, j) /\ terms[i].key = terms[j].key => i = j
    /\ \A a \in Actors : AnswerOk(stakes, provider, work[a])
    /\ Provider = "port" => \A i \in StakeIds : Expected(stakes, provider, i)

\* How a step may change a row and a status.
RowMoves(t, u) ==
    \A i \in StakeIds :
        \/ u[i].state = t[i].state
        \/ t[i].state = "NONE" /\ u[i].state = "PENDING"
        \/ <<t[i].state, u[i].state>> \in Lifecycle!Edges

StatusMoves(t, q, r) ==
    \A i \in StakeIds :
        \/ r[i] = q[i]
        \/ Provider = "mock" /\ r[i] = "none"
        \/ t[i].state = "PENDING" /\ r[i] = AcceptedAs
        \/ /\ t[i].state \in Confirmed /\ q[i] \notin {"none", "FAILED"}
           /\ r[i] = IF Provider = "mock" \/ q[i] = "WITHDRAWN" THEN "WITHDRAWN"
                                                              ELSE "UNSTAKING"
        \/ q[i] = "PENDING" /\ r[i] \in {"ACTIVE", "FAILED"}
        \/ q[i] = "UNSTAKING" /\ r[i] = "WITHDRAWN"
        \/ q[i] \in {"ACTIVE", "UNSTAKING"} /\ r[i] = "FAILED"

KeptTerms == \A i \in StakeIds : Created(i) => terms'[i] = terms[i]

-----------------------------------------------------------------------------
(* One step of one goroutine                                               *)

\* A step of the lifecycle, row by row.
LEMMA LifecycleRows ==
    ASSUME stakes \in Tables, [Lifecycle!LifecycleNext]_stakes
    PROVE  RowMoves(stakes, stakes')
<1>1. ASSUME NEW i \in StakeIds, Lifecycle!Appear(i)
      PROVE  RowMoves(stakes, stakes')
  BY <1>1 DEF Lifecycle!Appear, Lifecycle!NoStake, Lifecycle!NewStake, RowMoves, Tables
<1>2. ASSUME NEW i \in StakeIds, Lifecycle!Move(i)
      PROVE  RowMoves(stakes, stakes')
  <2>1. PICK e \in Lifecycle!Edges :
           /\ stakes[i].state = e[1]
           /\ stakes' = [stakes EXCEPT ![i] = [state |-> e[2],
                                               version |-> stakes[i].version + 1]]
    BY <1>2 DEF Lifecycle!Move
  <2>2. stakes'[i].state = e[2] /\ \A j \in StakeIds \ {i} : stakes'[j] = stakes[j]
    BY <2>1 DEF Tables
  <2>3. <<e[1], e[2]>> \in Lifecycle!Edges
    BY <2>1 DEF Lifecycle!Edges
  <2>. QED BY <2>1, <2>2, <2>3 DEF RowMoves
<1>3. CASE UNCHANGED stakes
  BY <1>3 DEF RowMoves
<1>. QED BY <1>1, <1>2, <1>3 DEF Lifecycle!LifecycleNext

\* An answer stays good.
LEMMA AnswerStays ==
    ASSUME NEW t, NEW u, NEW q, NEW r, NEW w, RowMoves(t, u), StatusMoves(t, q, r),
           w.pc \in AnswerPcs => w.id \in StakeIds,
           w.pc = "saveDelegating" => t[w.id].state = "PENDING",
           AnswerOk(t, q, w)
    PROVE  AnswerOk(u, r, w)
<1>1. \A i \in StakeIds : /\ Sent(t, i) => Sent(u, i)
                          /\ t[i].state \in Confirmed => u[i].state \in Confirmed
  BY DEF RowMoves, Sent, Confirmed, Lifecycle!Edges
<1>2. CASE w.pc \notin AnswerPcs
  BY <1>1, <1>2 DEF AnswerOk, AnswerPcs
<1>3. CASE w.pc \in AnswerPcs
  <2>1. w.id \in StakeIds
    BY <1>3
  <2>2. ASSUME Provider = "port"
        PROVE  /\ w.pc = "saveDelegating" => r[w.id] \in {"PENDING", "ACTIVE", "FAILED"}
               /\ w.pc = "saveUnstaking" => r[w.id] \in {"UNSTAKING", "WITHDRAWN", "FAILED"}
               /\ w.pc = "saveActive" => r[w.id] \in Confirmed \cup {"FAILED"}
               /\ w.pc = "saveWithdrawn" => r[w.id] = "WITHDRAWN"
    BY <2>1, <2>2 DEF AnswerOk, StatusMoves, AcceptedAs, Confirmed, Sent
  <2>3. Provider # "mock" /\ w.pc \in {"saveDelegating", "publishCreated"} => r[w.id] # "none"
    BY <2>1 DEF AnswerOk, StatusMoves, AcceptedAs
  <2>. QED BY <1>1, <2>1, <2>2, <2>3 DEF AnswerOk
<1>. QED BY <1>2, <1>3

\* What is known of goroutines and tables before the step.
LEMMA AnswerReads ==
    ASSUME ProviderInv, NEW a \in Actors
    PROVE  /\ MoveInv
           /\ stakes \in Tables
           /\ work[a] \in Workspace
           /\ work[a].pc \in StakePcs => work[a].id \in StakeIds /\ Created(work[a].id)
           /\ work[a].pc \in AnswerPcs => work[a].id \in StakeIds
           /\ work[a].pc = "saveDelegating" => stakes[work[a].id].state = "PENDING"
           /\ AnswerOk(stakes, provider, work[a])
           /\ MoveOk(stakes, moved, work[a])
           /\ CopyOk(stakes, work[a])
           /\ provider \in [StakeIds -> ProviderStatuses \cup {"none"}]
<1>1. MoveInv
  BY DEF ProviderInv
<1>2. AnswerPcs \subseteq StakePcs
  BY DEF AnswerPcs, StakePcs, Pcs, HandlerPcs, PollerPcs
<1>. QED BY <1>1, <1>2, MoveReads
         DEF ProviderInv, MoveOk, MoveInv, TableInv, TypeInv, TypeOK

\* What has to be shown of a step.
LEMMA ProviderParts ==
    ASSUME ProviderInv, MoveInv', [Lifecycle!LifecycleNext]_stakes, KeptTerms,
           NEW a \in Actors, NEW w, Become(a, w),
           StatusMoves(stakes, provider, provider'),
           AnswerOk(stakes', provider', w),
           \A i \in StakeIds :
               \/ stakes'[i] = stakes[i]
               \/ Provider = "port" => Expected(stakes', provider', i),
           \A i \in StakeIds :
               \/ Present(stakes, i) \/ ~Present(stakes', i)
               \/ \A j \in StakeIds :
                     Present(stakes', j) /\ terms'[j].key = terms'[i].key => i = j
    PROVE  ProviderInv'
<1>1. work'[a] = w /\ \A b \in Actors \ {a} : work'[b] = work[b]
  BY DEF Become, ProviderInv, MoveInv, TableInv, TypeInv, TypeOK
<1>2. RowMoves(stakes, stakes')
  BY LifecycleRows DEF ProviderInv, MoveInv, TableInv, TypeInv, TypeOK, Tables
<1>3. \A b \in Actors : AnswerOk(stakes', provider', work'[b])
  <2>1. ASSUME NEW b \in Actors \ {a}
        PROVE  AnswerOk(stakes', provider', work[b])
    BY <1>2, AnswerReads, AnswerStays
  <2>. QED BY <1>1, <2>1
<1>4. \A i \in StakeIds : Present(stakes, i) => /\ Present(stakes', i)
                                                /\ Created(i)
                                                /\ terms'[i] = terms[i]
  BY <1>2 DEF RowMoves, Present, Lifecycle!Edges, KeptTerms, ProviderInv, MoveInv,
              TableInv, TypeInv, Rooted, NoStake
<1>5. \A i \in StakeIds : Knows(i)' => Present(stakes', i)
  <2>1. ASSUME NEW i \in StakeIds, provider'[i] # "none"
        PROVE  provider[i] # "none" \/ Present(stakes, i)
    BY <2>1 DEF StatusMoves, Present, Confirmed
  <2>. QED BY <1>4, <2>1 DEF ProviderInv, Knows
<1>6. \A i, j \in StakeIds :
         Present(stakes', i) /\ Present(stakes', j) /\ terms'[i].key = terms'[j].key => i = j
  BY <1>4 DEF ProviderInv
<1>7. ASSUME Provider = "port", NEW i \in StakeIds
      PROVE  Expected(stakes', provider', i)
  <2>1. CASE stakes'[i] = stakes[i]
    <3>1. Expected(stakes, provider, i)
      BY <1>7 DEF ProviderInv
    <3>2. \/ provider'[i] = provider[i]
          \/ stakes[i].state = "PENDING"
          \/ /\ stakes[i].state \in Confirmed
             /\ provider'[i] = IF provider[i] = "WITHDRAWN" THEN "WITHDRAWN" ELSE "UNSTAKING"
          \/ provider[i] = "PENDING" /\ provider'[i] \in {"ACTIVE", "FAILED"}
          \/ provider[i] = "UNSTAKING" /\ provider'[i] = "WITHDRAWN"
          \/ provider[i] \in {"ACTIVE", "UNSTAKING"} /\ provider'[i] = "FAILED"
      BY <1>7 DEF StatusMoves
    <3>3. Expected(stakes, provider', i)
      BY <3>1, <3>2 DEF Expected, ProviderExpected, Confirmed
    <3>. QED BY <2>1, <3>3 DEF Expected
  <2>. QED BY <1>7, <2>1
<1>. QED BY <1>3, <1>5, <1>6, <1>7
         DEF ProviderInv, AnswerOk, Expected, Present, Sent, Knows

\* A step that changes neither rows nor statuses.
LEMMA QuietProvider ==
    ASSUME ProviderInv, MoveInv', KeptTerms, UNCHANGED <<stakes, provider>>,
           NEW a \in Actors, NEW w, Become(a, w), AnswerOk(stakes, provider, w)
    PROVE  ProviderInv'
<1>1. StatusMoves(stakes, provider, provider')
  BY DEF StatusMoves
<1>2. \A i \in StakeIds : Present(stakes, i) \/ ~Present(stakes', i)
  BY DEF Present
<1>. QED BY <1>1, <1>2, ProviderParts

\* The memory of a goroutine that acts on no answer.
LEMMA NoAnswer ==
    ASSUME ProviderInv, NEW a \in Actors, NEW w, w.pc \notin AnswerPcs,
           \A i \in StakeIds : w.list[i] # NoStake => work[a].list[i] # NoStake
    PROVE  AnswerOk(stakes, provider, w)
  BY AnswerReads DEF AnswerOk, AnswerPcs

\* The row of stake i is written with an answer in hand.
LEMMA WriteProvider ==
    ASSUME ProviderInv, MoveInv', [Lifecycle!LifecycleNext]_stakes, UNCHANGED <<terms, provider>>,
           NEW a \in Actors, NEW w, Become(a, w), w.list = work[a].list,
           NEW i \in StakeIds, NEW s, stakes' = [stakes EXCEPT ![i] = s],
           Present(stakes, i),
           Provider = "port" /\ s.state \in DOMAIN ProviderExpected
              => provider[i] \in ProviderExpected[s.state],
           \/ w.pc \notin AnswerPcs
           \/ /\ w.pc = "publishCreated" /\ w.id = i
              /\ s.state = "DELEGATING"
              /\ Provider # "mock" => provider[i] # "none"
    PROVE  ProviderInv'
<1>1. stakes'[i] = s /\ \A j \in StakeIds \ {i} : stakes'[j] = stakes[j]
  BY AnswerReads DEF Tables
<1>2. RowMoves(stakes, stakes')
  BY AnswerReads, LifecycleRows
<1>3. StatusMoves(stakes, provider, provider')
  BY DEF StatusMoves
<1>4. AnswerOk(stakes', provider', w)
  <2>1. \A j \in StakeIds : w.list[j] # NoStake => Sent(stakes', j)
    BY <1>2, AnswerReads DEF AnswerOk, RowMoves, Sent, Lifecycle!Edges
  <2>2. CASE w.pc \notin AnswerPcs
    BY <2>1, <2>2 DEF AnswerOk, AnswerPcs
  <2>3. CASE w.pc = "publishCreated"
    BY <1>1, <2>1, <2>3 DEF AnswerOk, Sent, AnswerPcs
  <2>. QED BY <2>2, <2>3
<1>5. /\ \A j \in StakeIds : \/ stakes'[j] = stakes[j]
                             \/ Provider = "port" => Expected(stakes', provider', j)
      /\ \A j \in StakeIds : Present(stakes, j) \/ ~Present(stakes', j)
  BY <1>1 DEF Expected, Present
<1>6. KeptTerms
  BY DEF KeptTerms
<1>. QED BY <1>3, <1>4, <1>5, <1>6, ProviderParts

\* Where goroutines go on without an answer: what Goto, Return, continue and
\* the others leave in memory.
LEMMA Ongoing ==
    ASSUME ProviderInv, NEW a \in Actors
    PROVE  LET Ends(pc) == \E w : /\ Become(a, w) /\ w.pc = pc
                                  /\ \A i \in StakeIds :
                                        w.list[i] # NoStake => work[a].list[i] # NoStake
           IN  /\ Return(a) => Ends("idle")
               /\ \A pc : Goto(a, pc) => Ends(pc)
               /\ \A b, pc : Adjust(a, b, pc) => Ends(pc)
               /\ \A i, phase : DropStake(a, i, phase) => Ends(phase)
               /\ NextEntry(a) => Ends("readTotal") \/ Ends("rewards")
<1>0. work[a] \in Workspace /\ work[a].list \in Lists
  BY AnswerReads, WorkspaceFields
<1>. DEFINE Kept(l) == \A i \in StakeIds : l[i] # NoStake => work[a].list[i] # NoStake
            Ends(pc) == \E w : Become(a, w) /\ w.pc = pc /\ Kept(w.list)
<1>1. Return(a) => Ends("idle")
  <2>1. Idle.pc = "idle" /\ Kept(Idle.list)
    BY DEF Idle, EmptyList
  <2>. QED BY <2>1 DEF Return
<1>2. ASSUME NEW pc, Goto(a, pc)
      PROVE  Ends(pc)
  <2>. DEFINE w == [work[a] EXCEPT !.pc = pc]
  <2>1. w.pc = pc /\ Kept(w.list)
    BY <1>0 DEF Workspace
  <2>2. Become(a, w)
    BY <1>2 DEF Goto
  <2>. HIDE DEF w, Kept
  <2>. QED BY <2>1, <2>2
<1>3. ASSUME NEW b, NEW pc, Adjust(a, b, pc)
      PROVE  Ends(pc)
  <2>. DEFINE w == [work[a] EXCEPT !.bal = NextVersion(b), !.pc = pc]
  <2>1. w.pc = pc /\ Kept(w.list)
    BY <1>0 DEF Workspace
  <2>2. Become(a, w)
    BY <1>3 DEF Adjust
  <2>. HIDE DEF w, Kept
  <2>. QED BY <2>1, <2>2
<1>4. ASSUME NEW i, NEW phase, DropStake(a, i, phase)
      PROVE  Ends(phase)
  <2>. DEFINE l == [work[a].list EXCEPT ![i] = NoStake]
              w == [Idle EXCEPT !.pc = phase, !.list = l]
  <2>1. Kept(l)
    BY <1>0 DEF Lists
  <2>2. w.pc = phase /\ w.list = l
    BY DEF Idle
  <2>3. Become(a, w)
    BY <1>4 DEF DropStake
  <2>. HIDE DEF w, l, Kept
  <2>. QED BY <2>1, <2>2, <2>3
<1>5. ASSUME NextEntry(a)
      PROVE  Ends("readTotal") \/ Ends("rewards")
  <2>. DEFINE w == [work[a] EXCEPT !.entries = Tail(work[a].entries), !.total = 0,
                                   !.bal = NoBalance, !.pc = "readTotal"]
  <2>1. w.pc = "readTotal" /\ Kept(w.list)
    BY <1>0 DEF Workspace
  <2>2. Become(a, w) \/ DropStake(a, work[a].id, "rewards")
    BY <1>5 DEF NextEntry, Continue
  <2>. HIDE DEF w, Kept
  <2>. QED BY <1>4, <2>1, <2>2
<1>. QED BY <1>1, <1>2, <1>3, <1>4, <1>5

\* A step that only goes on.
LEMMA GoingOn ==
    ASSUME ProviderInv, MoveInv', UNCHANGED <<terms, stakes, provider>>, NEW a \in Actors
    PROVE  /\ Return(a) => ProviderInv'
           /\ \A pc : pc \notin AnswerPcs /\ Goto(a, pc) => ProviderInv'
           /\ \A b, pc : pc \notin AnswerPcs /\ Adjust(a, b, pc) => ProviderInv'
           /\ \A i, phase : phase \notin AnswerPcs /\ DropStake(a, i, phase) => ProviderInv'
           /\ NextEntry(a) => ProviderInv'
<1>1. ASSUME NEW w, Become(a, w), w.pc \notin AnswerPcs,
             \A i \in StakeIds : w.list[i] # NoStake => work[a].list[i] # NoStake
      PROVE  ProviderInv'
  BY <1>1, NoAnswer, QuietProvider DEF KeptTerms
<1>2. {"idle", "readTotal", "rewards"} \cap AnswerPcs = {}
  BY DEF AnswerPcs
<1>. QED BY <1>1, <1>2, Ongoing

\* A step that begins with an answer that is good now.
LEMMA TakeAnswer ==
    ASSUME ProviderInv, MoveInv', UNCHANGED <<terms, stakes, provider>>,
           NEW a \in Actors, NEW w, Become(a, w), AnswerOk(stakes, provider, w)
    PROVE  ProviderInv'
  BY QuietProvider DEF KeptTerms

\* A stake is created in the table, the first with its key.
LEMMA InsertProvider ==
    ASSUME ProviderInv, MoveInv', [Lifecycle!LifecycleNext]_stakes,
           NEW h \in Actors, InsertStake(h)
    PROVE  ProviderInv'
<1>. DEFINE i == work[h].id
<1>1. /\ UNCHANGED <<terms, provider>> /\ work[h].pc = "insert" /\ i \in StakeIds
      /\ work[h].stake = NewStake
  <2>1. UNCHANGED <<terms, provider>> /\ work[h].pc = "insert"
    BY DEF InsertStake, At, providerVars
  <2>. QED BY <2>1, AnswerReads DEF CopyOk, StakeOk, NewStakePcs, StakePcs, Pcs, HandlerPcs
<1>2. CASE Return(h) /\ UNCHANGED stakes
  BY <1>1, <1>2, GoingOn
<1>3. CASE ~KeyTaken(terms[i].key) /\ InsertStakeRow(i, work[h].stake) /\ Goto(h, "stake")
  <2>1. /\ stakes'[i] = NewStake
        /\ \A j \in StakeIds \ {i} : stakes'[j] = stakes[j]
    BY <1>1, <1>3, AnswerReads DEF InsertStakeRow, Tables
  <2>2. PICK w : /\ Become(h, w) /\ w.pc = "stake"
                 /\ \A j \in StakeIds : w.list[j] # NoStake => work[h].list[j] # NoStake
    BY <1>3, Ongoing
  <2>3. RowMoves(stakes, stakes')
    BY AnswerReads, LifecycleRows
  <2>4. StatusMoves(stakes, provider, provider')
    BY <1>1 DEF StatusMoves
  <2>5. AnswerOk(stakes', provider', w)
    <3>1. AnswerOk(stakes, provider, w)
      BY <2>2, NoAnswer DEF AnswerPcs
    <3>. QED BY <2>2, <2>3, <2>4, <3>1, AnswerStays DEF AnswerPcs
  <2>6. \A j \in StakeIds : \/ stakes'[j] = stakes[j]
                            \/ Provider = "port" => Expected(stakes', provider', j)
    BY <2>1 DEF Expected, ProviderExpected, NewStake
  <2>7. \A j \in StakeIds : Present(stakes, j) => terms[j].key # terms[i].key
    BY <1>3 DEF KeyTaken, StakesWithKey, Present, NoStake
  <2>8. \A j \in StakeIds :
           \/ Present(stakes, j) \/ ~Present(stakes', j)
           \/ \A k \in StakeIds :
                 Present(stakes', k) /\ terms'[k].key = terms'[j].key => j = k
    BY <1>1, <2>1, <2>7 DEF Present
  <2>9. KeptTerms
    BY <1>1 DEF KeptTerms
  <2>. QED BY <2>2, <2>4, <2>5, <2>6, <2>8, <2>9, ProviderParts
<1>. QED BY <1>2, <1>3 DEF InsertStake

\* A call to the provider changes the status of the goroutine's own stake.
LEMMA CallProvider ==
    ASSUME ProviderInv, MoveInv', UNCHANGED <<terms, stakes>>,
           NEW a \in Actors, NEW w, Become(a, w),
           StatusMoves(stakes, provider, provider'),
           AnswerOk(stakes, provider', w)
    PROVE  ProviderInv'
<1>1. /\ \A i \in StakeIds : stakes'[i] = stakes[i]
      /\ \A i \in StakeIds : Present(stakes, i) \/ ~Present(stakes', i)
      /\ KeptTerms
  BY DEF Present, KeptTerms
<1>. QED BY <1>1, ProviderParts

\* provider.Stake.
LEMMA StakeProvider ==
    ASSUME ProviderInv, MoveInv', NEW h \in Actors, CallStake(h)
    PROVE  ProviderInv'
<1>. DEFINE i == work[h].id
<1>1. /\ UNCHANGED <<terms, stakes>> /\ work[h].pc = "stake" /\ i \in StakeIds
      /\ stakes[i].state = "PENDING" /\ work[h] \in Workspace
  <2>1. UNCHANGED <<terms, stakes>> /\ work[h].pc = "stake"
    BY DEF CallStake, At
  <2>. QED BY <2>1, AnswerReads DEF MoveOk, StakePcs, Pcs, HandlerPcs
<1>. DEFINE accepted == [work[h] EXCEPT !.stake = NextVersion(Delegate(work[h].stake)),
                                        !.pc = "saveDelegating"]
            refused == [work[h] EXCEPT
                           !.stake = NextVersion(Fail(work[h].stake)),
                           !.bal = NextVersion(ReleaseHold(work[h].bal, AmountOf(h))),
                           !.pc = "failing"]
<1>2. /\ accepted.pc = "saveDelegating" /\ accepted.id = i /\ accepted.list = work[h].list
      /\ refused.pc = "failing" /\ refused.list = work[h].list
  BY <1>1 DEF Workspace
<1>3. \/ ProviderAcceptsStake(i) /\ Become(h, accepted)
      \/ ProviderFailsStake(i) /\ Become(h, refused)
  BY Zenon DEF CallStake
<1>. HIDE DEF accepted, refused
<1>4. ProviderAcceptsStake(i) =>
         /\ provider'[i] = AcceptedAs
         /\ \A j \in StakeIds \ {i} : provider'[j] = provider[j]
  BY <1>1, AnswerReads DEF ProviderAcceptsStake
<1>5. ProviderAcceptsStake(i) \/ ProviderFailsStake(i)
      => StatusMoves(stakes, provider, provider')
  BY <1>1, <1>4 DEF StatusMoves, ProviderFailsStake, providerVars
<1>6. \A j \in StakeIds : work[h].list[j] # NoStake => Sent(stakes, j)
  BY AnswerReads DEF AnswerOk
<1>7. CASE ProviderAcceptsStake(i) /\ Become(h, accepted)
  <2>1. AnswerOk(stakes, provider', accepted)
    BY <1>2, <1>4, <1>6, <1>7 DEF AnswerOk, AcceptedAs
  <2>. QED BY <1>1, <1>5, <1>7, <2>1, CallProvider
<1>8. CASE ProviderFailsStake(i) /\ Become(h, refused)
  <2>1. AnswerOk(stakes, provider', refused)
    BY <1>2, <1>6 DEF AnswerOk
  <2>. QED BY <1>1, <1>5, <1>8, <2>1, CallProvider
<1>. QED BY <1>3, <1>7, <1>8

\* provider.Unstake.
LEMMA UnstakeProvider ==
    ASSUME ProviderInv, MoveInv', NEW h \in Actors, CallUnstake(h)
    PROVE  ProviderInv'
<1>. DEFINE i == work[h].id
<1>1. /\ UNCHANGED <<terms, stakes>> /\ work[h].pc = "unstake" /\ i \in StakeIds
      /\ stakes[i].state \in Confirmed /\ work[h] \in Workspace
  <2>1. UNCHANGED <<terms, stakes>> /\ work[h].pc = "unstake"
    BY DEF CallUnstake, At
  <2>. QED BY <2>1, AnswerReads DEF AnswerOk, AnswerPcs
<1>. DEFINE asked == [work[h] EXCEPT !.stake = NextVersion(work[h].stake),
                                     !.pc = "saveUnstaking"]
<1>2. asked.pc = "saveUnstaking" /\ asked.id = i /\ asked.list = work[h].list
  BY <1>1 DEF Workspace
<1>3. \/ ProviderAcceptsUnstake(i) /\ Become(h, asked)
      \/ ProviderFailsUnstake(i) /\ Return(h)
  BY Zenon DEF CallUnstake
<1>. HIDE DEF asked
<1>4. ProviderAcceptsUnstake(i) =>
         /\ provider[i] \notin {"none", "FAILED"}
         /\ provider'[i] = IF Provider = "mock" \/ provider[i] = "WITHDRAWN"
                           THEN "WITHDRAWN" ELSE "UNSTAKING"
         /\ \A j \in StakeIds \ {i} : provider'[j] = provider[j]
  BY <1>1, AnswerReads DEF ProviderAcceptsUnstake, MayUnstakeAt
<1>5. ProviderAcceptsUnstake(i) \/ ProviderFailsUnstake(i)
      => StatusMoves(stakes, provider, provider')
  <2>1. ProviderAcceptsUnstake(i) => StatusMoves(stakes, provider, provider')
    BY <1>1, <1>4 DEF StatusMoves
  <2>2. UNCHANGED provider => StatusMoves(stakes, provider, provider')
    BY DEF StatusMoves
  <2>. QED BY <2>1, <2>2 DEF ProviderFailsUnstake, providerVars
<1>6. \A j \in StakeIds : work[h].list[j] # NoStake => Sent(stakes, j)
  BY AnswerReads DEF AnswerOk
<1>7. CASE ProviderAcceptsUnstake(i) /\ Become(h, asked)
  <2>1. AnswerOk(stakes, provider', asked)
    BY <1>1, <1>2, <1>4, <1>6, <1>7 DEF AnswerOk
  <2>. QED BY <1>1, <1>5, <1>7, <2>1, CallProvider
<1>8. CASE ProviderFailsUnstake(i) /\ Return(h)
  <2>1. Idle.pc = "idle" /\ \A j \in StakeIds : Idle.list[j] = NoStake
    BY DEF Idle, EmptyList
  <2>2. AnswerOk(stakes, provider', Idle)
    BY <2>1 DEF AnswerOk
  <2>. QED BY <1>1, <1>5, <1>8, <2>2, CallProvider DEF Return
<1>. QED BY <1>3, <1>7, <1>8

-----------------------------------------------------------------------------
(* One step of the system                                                  *)

\* A copy of the row is written, whatever the goroutine is.
LEMMA SaveProvider ==
    ASSUME ProviderInv, MoveInv', [Lifecycle!LifecycleNext]_stakes,
           UNCHANGED <<terms, provider>>, NEW a \in Actors,
           work[a].pc \in {"failing", "saveDelegating", "saveUnstaking",
                           "saveActive", "saveFailed", "saveWithdrawn"},
           UpdateStake(a), NEW pc, Goto(a, pc),
           pc \notin AnswerPcs \/ (pc = "publishCreated" /\ At(a, "saveDelegating"))
    PROVE  ProviderInv'
<1>. DEFINE i == work[a].id
            s == work[a].stake
<1>1. i \in StakeIds
  BY AnswerReads DEF StakePcs, Pcs, HandlerPcs, PollerPcs
<1>2. stakes' = [stakes EXCEPT ![i] = s] /\ s.version = stakes[i].version + 1
  BY DEF UpdateStake, StakeVersionMatches
<1>3. /\ Present(stakes, i)
      /\ Provider = "port" /\ s.state \in DOMAIN ProviderExpected
            => provider[i] \in ProviderExpected[s.state]
  BY <1>2, AnswerReads DEF CopyOk, StakeOk, Leads, AnswerOk, Present, ProviderExpected, Confirmed
<1>4. pc \in AnswerPcs => /\ pc = "publishCreated"
                          /\ s.state = "DELEGATING"
                          /\ Provider # "mock" => provider[i] # "none"
  BY AnswerReads DEF At, CopyOk, StakeOk, Leads, AnswerOk
<1>. DEFINE w == [work[a] EXCEPT !.pc = pc]
<1>5. w.pc = pc /\ w.id = i /\ w.list = work[a].list
  BY AnswerReads DEF Workspace
<1>6. Become(a, w)
  BY DEF Goto
<1>. HIDE DEF s, w, i
<1>7. \/ w.pc \notin AnswerPcs
      \/ /\ w.pc = "publishCreated" /\ w.id = i
         /\ s.state = "DELEGATING"
         /\ Provider # "mock" => provider[i] # "none"
  BY <1>4, <1>5
<1>. QED BY <1>1, <1>2, <1>3, <1>5, <1>6, <1>7, WriteProvider

\* A step of a handler goroutine.
LEMMA HandlerProvider ==
    ASSUME ProviderInv, MoveInv', [Lifecycle!LifecycleNext]_stakes,
           NEW h \in Handlers, Request(h) \/ HandlerStep(h)
    PROVE  ProviderInv'
<1>. h \in Actors
  BY DEF Actors
<1>. DEFINE Still == UNCHANGED <<terms, stakes, provider>>
<1>1. {"idle", "hold", "insert", "stake", "releasing", "publishUnstake",
       "publishBalance", "getBalance", "overwrite", "upsert"}
         \cap AnswerPcs = {}
  BY DEF AnswerPcs
<1>2. /\ Still /\ Return(h) => ProviderInv'
      /\ \A pc : Still /\ pc \notin AnswerPcs /\ Goto(h, pc) => ProviderInv'
      /\ \A b, pc : Still /\ pc \notin AnswerPcs /\ Adjust(h, b, pc) => ProviderInv'
  BY GoingOn
<1>3. ASSUME NEW acct, NEW x, NEW k, BeginCreateStake(h, acct, x, k)
      PROVE  ProviderInv'
  <2>1. PICK i \in StakeIds :
           /\ ~Created(i)
           /\ terms' = [terms EXCEPT ![i] = [account |-> acct, amount |-> x, key |-> k]]
           /\ Become(h, [Idle EXCEPT !.pc = "getBalance", !.id = i,
                                     !.account = acct, !.stake = NewStake])
    BY <1>3 DEF BeginCreateStake
  <2>. DEFINE w == [Idle EXCEPT !.pc = "getBalance", !.id = i,
                                !.account = acct, !.stake = NewStake]
  <2>2. w.pc = "getBalance" /\ \A j \in StakeIds : w.list[j] = NoStake
    BY DEF Idle, EmptyList
  <2>3. UNCHANGED <<stakes, provider>>
    BY <1>3 DEF BeginCreateStake, providerVars
  <2>4. KeptTerms
    BY <2>1 DEF KeptTerms
  <2>. HIDE DEF w
  <2>5. AnswerOk(stakes, provider, w)
    BY <2>2 DEF AnswerOk
  <2>. QED BY <2>1, <2>3, <2>4, <2>5, QuietProvider DEF w
<1>4. ASSUME NEW i \in StakeIds, BeginUnstake(h, i)
      PROVE  ProviderInv'
  <2>. DEFINE w == [Idle EXCEPT !.pc = "unstake", !.id = i,
                                !.account = terms[i].account,
                                !.stake = Unstake(stakes[i])]
  <2>1. w.pc = "unstake" /\ w.id = i /\ \A j \in StakeIds : w.list[j] = NoStake
    BY DEF Idle, EmptyList
  <2>2. Become(h, w) /\ Still /\ stakes[i].state \in Confirmed
    BY <1>4 DEF BeginUnstake, providerVars, MayUnstake, Confirmed
  <2>. HIDE DEF w
  <2>3. AnswerOk(stakes, provider, w)
    BY <2>1, <2>2 DEF AnswerOk
  <2>. QED BY <2>2, <2>3, TakeAnswer
<1>5. ASSUME NEW acct, NEW x, BeginSetBalance(h, acct, x)
      PROVE  ProviderInv'
  <2>1. \A b : LET v == [Idle EXCEPT !.pc = "upsert", !.account = acct, !.bal = b]
                   w == [Idle EXCEPT !.pc = "overwrite", !.account = acct, !.bal = b]
               IN  /\ v.pc = "upsert" /\ w.pc = "overwrite"
                   /\ v.list = EmptyList /\ w.list = EmptyList
    BY DEF Idle
  <2>2. PICK w : Become(h, w) /\ w.pc \in {"upsert", "overwrite"} /\ w.list = EmptyList
    BY <1>5, <2>1 DEF BeginSetBalance
  <2>3. AnswerOk(stakes, provider, w)
    BY <2>2 DEF AnswerOk, EmptyList
  <2>4. Still
    BY <1>5 DEF BeginSetBalance, providerVars
  <2>. QED BY <2>2, <2>3, <2>4, TakeAnswer
<1>6. CASE \/ FetchBalance(h) \/ SaveHold(h) \/ SaveReleasing(h) \/ PublishCreated(h)
           \/ PublishUnstakeRequested(h) \/ UpsertBalance(h) \/ PublishBalanceCreated(h)
           \/ OverwriteBalance(h)
  <2>1. Still
    BY <1>6 DEF FetchBalance, SaveHold, SaveReleasing, PublishCreated,
                PublishUnstakeRequested, UpsertBalance, PublishBalanceCreated,
                OverwriteBalance, providerVars
  <2>2. \/ Return(h) \/ Goto(h, "insert") \/ Goto(h, "publishBalance")
        \/ \E b : Adjust(h, b, "hold")
    BY <1>6 DEF FetchBalance, SaveHold, SaveReleasing, PublishCreated,
                PublishUnstakeRequested, UpsertBalance, PublishBalanceCreated,
                OverwriteBalance
  <2>. QED BY <1>1, <1>2, <2>1, <2>2
<1>7. CASE SaveFailing(h) \/ SaveDelegating(h) \/ SaveUnstaking(h)
  <2>1. /\ UNCHANGED <<terms, provider>>
        /\ work[h].pc \in {"failing", "saveDelegating", "saveUnstaking"}
    BY <1>7 DEF SaveFailing, SaveDelegating, SaveUnstaking, At, providerVars
  <2>2. CASE UpdateStakeFails(h) /\ (Return(h) \/ Goto(h, "releasing"))
    <3>1. Still
      BY <2>1, <2>2 DEF UpdateStakeFails
    <3>. QED BY <1>1, <1>2, <2>2, <3>1
  <2>3. CASE /\ UpdateStake(h)
             /\ \/ Goto(h, "releasing") \/ Goto(h, "publishUnstake")
                \/ At(h, "saveDelegating") /\ Goto(h, "publishCreated")
    <3>1. \A pc : (\/ pc \in {"releasing", "publishUnstake"}
                    \/ (pc = "publishCreated" /\ At(h, "saveDelegating")))
                   /\ Goto(h, pc) => ProviderInv'
      <4>1. ASSUME NEW pc, Goto(h, pc),
                   pc \notin AnswerPcs \/ (pc = "publishCreated" /\ At(h, "saveDelegating"))
            PROVE  ProviderInv'
        BY <2>1, <2>3, <4>1, SaveProvider
      <4>2. {"releasing", "publishUnstake"} \cap AnswerPcs = {}
        BY DEF AnswerPcs
      <4>. QED BY <4>1, <4>2
    <3>. QED BY <2>3, <3>1
  <2>. QED BY <1>7, <2>2, <2>3 DEF SaveFailing, SaveDelegating, SaveUnstaking
<1>8. CASE InsertStake(h)
  BY <1>8, InsertProvider
<1>9. CASE CallStake(h) \/ CallUnstake(h)
  BY <1>9, StakeProvider, UnstakeProvider
<1>. QED
  BY <1>3, <1>4, <1>5, <1>6, <1>7, <1>8, <1>9 DEF Request, HandlerStep

\* A phase of the poll lists rows of stakes that were sent to the provider.
LEMMA ListProvider ==
    ASSUME ProviderInv, MoveInv', UNCHANGED <<terms, stakes, provider>>,
           NEW p \in Actors, NEW state \in {"DELEGATING", "UNSTAKING", "ACTIVE"},
           NEW phase, phase \notin AnswerPcs, List(p, state, phase)
    PROVE  ProviderInv'
<1>1. \A i \in StakeIds : ListByState(state)[i] # NoStake => Sent(stakes, i)
  BY DEF ListByState, OldestInState, Sent
<1>2. PICK l : /\ Become(p, [Idle EXCEPT !.pc = phase, !.list = l])
               /\ \A i \in StakeIds : l[i] # NoStake => Sent(stakes, i)
  BY <1>1 DEF List, EmptyList
<1>. DEFINE w == [Idle EXCEPT !.pc = phase, !.list = l]
<1>3. w.pc = phase /\ w.list = l
  BY DEF Idle
<1>. HIDE DEF w
<1>4. AnswerOk(stakes, provider, w)
  BY <1>2, <1>3 DEF AnswerOk, AnswerPcs
<1>. QED BY <1>2, <1>4, TakeAnswer DEF w

\* A stake of the list is looked up at the provider.
LEMMA CheckProvider ==
    ASSUME ProviderInv, MoveInv', UNCHANGED <<terms, stakes, provider>>,
           NEW p \in Actors, NEW i \in StakeIds, IsHead(p, i),
           NEW status \in StatusAnswers(i), NEW s, NEW pc, Reconcile(p, i, s, pc),
           \/ pc = "saveActive" /\ status = "ACTIVE"
           \/ pc = "saveFailed"
           \/ pc = "saveWithdrawn" /\ status = "WITHDRAWN"
    PROVE  ProviderInv'
<1>1. work[p] \in Workspace /\ Sent(stakes, i)
      /\ \A j \in StakeIds : work[p].list[j] # NoStake => Sent(stakes, j)
  BY AnswerReads DEF AnswerOk, IsHead
<1>. DEFINE w == [work[p] EXCEPT !.id = i, !.account = terms[i].account,
                                 !.stake = NextVersion(s), !.pc = pc]
<1>2. w.pc = pc /\ w.id = i /\ w.list = work[p].list
  BY <1>1 DEF Workspace
<1>3. Become(p, w)
  BY DEF Reconcile
<1>4. Provider = "port" /\ status # "error" => provider[i] = status
  BY DEF StatusAnswers
<1>. HIDE DEF w
<1>5. AnswerOk(stakes, provider, w)
  BY <1>1, <1>2, <1>4 DEF AnswerOk, Confirmed
<1>. QED BY <1>3, <1>5, TakeAnswer

\* A step of a poller.
LEMMA PollerProvider ==
    ASSUME ProviderInv, MoveInv', [Lifecycle!LifecycleNext]_stakes,
           NEW p \in Pollers, PollerStep(p)
    PROVE  ProviderInv'
<1>. p \in Actors
  BY DEF Actors
<1>. DEFINE Still == UNCHANGED <<terms, stakes, provider>>
            Plain == {"idle", "delegating", "confirm", "saveConfirm", "publishActivated",
                      "saveFailed", "release", "saveRelease", "saveUnreleased",
                      "publishFailed", "unstaking", "complete", "saveComplete",
                      "publishWithdrawn", "rewards", "readTotal", "createReward",
                      "addReward", "saveReward"}
<1>1. Plain \cap AnswerPcs = {}
  BY DEF AnswerPcs
<1>2. Still => /\ Return(p) => ProviderInv'
               /\ \A pc \in Plain : Goto(p, pc) => ProviderInv'
               /\ \A b : \A pc \in Plain : Adjust(p, b, pc) => ProviderInv'
               /\ \A i : \A pc \in Plain : DropStake(p, i, pc) => ProviderInv'
               /\ NextEntry(p) => ProviderInv'
  BY <1>1, GoingOn
<1>3. Still => \A pc \in Plain : Continue(p, pc) => ProviderInv'
  BY <1>2 DEF Continue
<1>4. CASE ListDelegating(p) \/ ListUnstaking(p) \/ ListActive(p)
  <2>1. Still
    BY <1>4 DEF ListDelegating, ListUnstaking, ListActive, providerVars
  <2>. QED BY <1>1, <1>4, <2>1, ListProvider DEF ListDelegating, ListUnstaking, ListActive
<1>5. CASE CheckDelegating(p) \/ CheckUnstaking(p)
  <2>1. Still
    BY <1>5 DEF CheckDelegating, CheckUnstaking, providerVars
  <2>. QED BY <1>2, <1>5, <2>1, CheckProvider DEF CheckDelegating, CheckUnstaking
<1>6. CASE SaveActive(p) \/ SaveFailed(p) \/ SaveWithdrawn(p)
  <2>1. /\ UNCHANGED <<terms, provider>>
        /\ work[p].pc \in {"saveActive", "saveFailed", "saveWithdrawn"}
    BY <1>6 DEF SaveActive, SaveFailed, SaveWithdrawn, At, providerVars
  <2>2. ASSUME NEW pc \in Plain, UpdateStakeFails(p), Continue(p, pc)
        PROVE  ProviderInv'
    BY <1>3, <2>1, <2>2 DEF UpdateStakeFails
  <2>3. ASSUME NEW pc \in Plain, UpdateStake(p), Goto(p, pc)
        PROVE  ProviderInv'
    <3>1. pc \notin AnswerPcs
      BY <1>1
    <3>. QED BY <2>1, <2>3, <3>1, SaveProvider
  <2>. QED BY <1>6, <2>2, <2>3 DEF SaveActive, SaveFailed, SaveWithdrawn
<1>7. CASE \/ FetchToConfirm(p) \/ FetchToRelease(p) \/ FetchToComplete(p)
           \/ SaveConfirm(p) \/ SaveRelease(p) \/ SaveComplete(p)
           \/ PublishActivated(p) \/ PublishFailed(p) \/ PublishWithdrawn(p)
  <2>1. Still
    BY <1>7 DEF FetchToConfirm, FetchToRelease, FetchToComplete, SaveConfirm, SaveRelease,
                SaveComplete, PublishActivated, PublishFailed, PublishWithdrawn, providerVars
  <2>2. \E pc \in Plain : Goto(p, pc) \/ Continue(p, pc) \/ \E b : Adjust(p, b, pc)
    BY <1>7 DEF FetchToConfirm, FetchToRelease, FetchToComplete, SaveConfirm, SaveRelease,
                SaveComplete, PublishActivated, PublishFailed, PublishWithdrawn
  <2>. HIDE DEF Plain, Still
  <2>. QED BY <1>2, <1>3, <2>1, <2>2
<1>8. CASE FetchRewards(p) \/ ReadTotal(p)
  <2>1. Still
    BY <1>8 DEF FetchRewards, ReadTotal, providerVars
  <2>2. work[p] \in Workspace
    BY AnswerReads
  <2>3. \A i, e, n :
           LET v == [work[p] EXCEPT !.id = i, !.account = terms[i].account,
                                    !.entries = e, !.pc = "readTotal"]
               w == [work[p] EXCEPT !.total = n, !.pc = "createReward"]
           IN  /\ v.pc = "readTotal" /\ w.pc = "createReward"
               /\ v.list = work[p].list /\ w.list = work[p].list
    BY <2>2 DEF Workspace
  <2>4. \A w : /\ Become(p, w) /\ w.pc \in {"readTotal", "createReward"}
               /\ w.list = work[p].list
               => ProviderInv'
    BY <1>1, <2>1, NoAnswer, TakeAnswer
  <2>5. \A i, e, n :
           /\ Become(p, [work[p] EXCEPT !.id = i, !.account = terms[i].account,
                                        !.entries = e, !.pc = "readTotal"]) => ProviderInv'
           /\ Become(p, [work[p] EXCEPT !.total = n, !.pc = "createReward"]) => ProviderInv'
    BY <2>3, <2>4
  <2>. QED BY <1>2, <1>8, <2>1, <2>5 DEF FetchRewards, ReadTotal
<1>9. CASE CreateReward(p) \/ FetchToReward(p) \/ SaveReward(p) \/ EndPoll(p)
  <2>1. Still
    BY <1>9 DEF CreateReward, FetchToReward, SaveReward, EndPoll, providerVars
  <2>. QED BY <1>2, <1>9, <2>1 DEF CreateReward, FetchToReward, SaveReward, EndPoll
<1>. QED
  BY <1>4, <1>5, <1>6, <1>7, <1>8, <1>9 DEF PollerStep

\* Without a step of a goroutine: the provider settles, a day passes, or the
\* process dies.
LEMMA OutsideProvider ==
    ASSUME ProviderInv, MoveInv', Crash \/ Environment \/ UNCHANGED vars
    PROVE  ProviderInv'
<1>1. /\ UNCHANGED <<terms, stakes>>
      /\ \A a \in Actors : work'[a] = work[a] \/ work'[a] = Idle
  BY DEF Crash, Environment, vars
<1>2. /\ StatusMoves(stakes, provider, provider')
      /\ \A i \in StakeIds :
            \/ provider'[i] = provider[i] \/ provider'[i] = "none"
            \/ provider[i] = "PENDING" /\ provider'[i] \in {"ACTIVE", "FAILED"}
            \/ provider[i] = "UNSTAKING" /\ provider'[i] = "WITHDRAWN"
            \/ provider[i] \in {"ACTIVE", "UNSTAKING"} /\ provider'[i] = "FAILED"
      /\ Provider = "port" => \A i \in StakeIds : provider'[i] = "none"
                                => provider[i] = "none"
  <2>0. provider \in [StakeIds -> ProviderStatuses \cup {"none"}]
    BY DEF ProviderInv, MoveInv, TableInv, TypeInv, TypeOK
  <2>1. CASE Crash
    BY <2>1 DEF Crash, ProviderRestarts, StatusMoves
  <2>2. CASE UNCHANGED vars \/ NextDay
    BY <2>2 DEF vars, providerVars, NextDay, StatusMoves
  <2>3. ASSUME NEW i \in StakeIds, ProviderProgress(i)
        PROVE  \A j \in StakeIds :
                  \/ provider'[j] = provider[j]
                  \/ provider[j] = "PENDING" /\ provider'[j] \in {"ACTIVE", "FAILED"}
                  \/ provider[j] = "UNSTAKING" /\ provider'[j] = "WITHDRAWN"
                  \/ provider[j] \in {"ACTIVE", "UNSTAKING"} /\ provider'[j] = "FAILED"
    BY <2>0, <2>3 DEF ProviderProgress, Settle, GiveUp, Outcomes
  <2>. QED BY <2>1, <2>2, <2>3 DEF Environment, StatusMoves
<1>3. \A a \in Actors : AnswerOk(stakes', provider', work'[a])
  <2>1. AnswerOk(stakes, provider', Idle)
    BY DEF AnswerOk, Idle, EmptyList
  <2>2. ASSUME NEW a \in Actors
        PROVE  AnswerOk(stakes, provider', work[a])
    BY <1>2, AnswerReads, AnswerStays DEF RowMoves
  <2>. QED BY <1>1, <2>1, <2>2
<1>4. ASSUME Provider = "port", NEW i \in StakeIds
      PROVE  Expected(stakes, provider', i)
  BY <1>2, <1>4 DEF ProviderInv, Expected, ProviderExpected
<1>5. \A i \in StakeIds : Knows(i)' => Present(stakes, i)
  BY <1>2 DEF ProviderInv, Knows
<1>. QED BY <1>1, <1>3, <1>4, <1>5
         DEF ProviderInv, AnswerOk, Expected, Present, Sent

\* At the start no stake exists, here or there.
LEMMA InitProvider == Init => ProviderInv
<1>. SUFFICES ASSUME Init
              PROVE  ProviderInv
  OBVIOUS
<1>1. /\ \A i \in StakeIds : stakes[i] = NoStake /\ provider[i] = "none"
      /\ \A a \in Actors : work[a] = Idle
  BY DEF Init, StoreInit, ProviderInit
<1>2. \A a \in Actors : AnswerOk(stakes, provider, work[a])
  BY <1>1 DEF AnswerOk, Idle, EmptyList
<1>. QED BY <1>1, <1>2, InitMoves
         DEF ProviderInv, Knows, Present, Expected, ProviderExpected, NoStake

\* Every step preserves the invariant.
LEMMA NextProvider == ProviderInv /\ [Next]_vars => ProviderInv'
<1>. SUFFICES ASSUME ProviderInv, [Next]_vars
              PROVE  ProviderInv'
  OBVIOUS
<1>1. MoveInv' /\ [Lifecycle!LifecycleNext]_stakes
  BY NextMoves, NextTable DEF ProviderInv, MoveInv
<1>2. ASSUME NEW a \in Actors, Abandon(a)
      PROVE  ProviderInv'
  BY <1>1, <1>2, GoingOn DEF Abandon, providerVars
<1>. QED BY <1>1, <1>2, HandlerProvider, PollerProvider, OutsideProvider DEF Next

-----------------------------------------------------------------------------
(* The theorems                                                            *)

\* However many requests with one idempotency key race, and whatever fails or
\* crashes between the balance, the row and the call: the provider is never
\* asked to stake twice for one key, because it is only asked once the row is
\* in, and the table takes one row per key.
THEOREM StakedOnce == Spec => []OneProviderStakePerKey
<1>1. Init => ProviderInv
  BY InitProvider
<1>2. ProviderInv /\ [Next]_vars => ProviderInv'
  BY NextProvider
<1>3. ProviderInv => OneProviderStakePerKey
  BY DEF ProviderInv, OneProviderStakePerKey, Knows
<1>. QED BY <1>1, <1>2, <1>3, PTL DEF Spec

\* With a provider that answers for the stake it was asked about, a row never
\* runs ahead of it: it is ACTIVE only once confirmed and WITHDRAWN only once
\* liquid, however the answers of several goroutines interleave with the
\* writes they lead to.
THEOREM RowsFollow ==
    ASSUME Provider = "port"
    PROVE  Spec => []RowsFollowProvider
<1>1. Init => ProviderInv
  BY InitProvider
<1>2. ProviderInv /\ [Next]_vars => ProviderInv'
  BY NextProvider
<1>3. ProviderInv => RowsFollowProvider
  BY DEF ProviderInv, Expected, RowsFollowProvider
<1>. QED BY <1>1, <1>2, <1>3, PTL DEF Spec
=============================================================================
