---------------------------- MODULE Ledger_proofs ----------------------------
(***************************************************************************)
(* The optimistic lock works, for every instance: StakingSystem implements *)
(* AtomicLedger.  A balance operation is a read, a computation on a copy   *)
(* and a guarded write, and what the guard compares is a version.  BalOk   *)
(* says what equal versions mean: the copy is then what the operation      *)
(* makes of the row as it is.  It holds because every write of a row       *)
(* raises its version by one, so a copy that is behind stays behind.  That *)
(* an operation is saved once per stake comes from MoveInv, that a reward  *)
(* is credited once from UNIQUE (stake_id, reward_date).  From there on    *)
(* the balance rows can be summed up: every unit deposited and rewarded is *)
(* in a bucket, and the cumulative amounts are what the rewards add up to. *)
(***************************************************************************)
EXTENDS Moves_proofs

\* The goroutines about to write a balance, to compute one from what they
\* wrote, and to credit a reward.
WritePcs == {"hold", "failing", "releasing", "saveConfirm", "saveRelease",
             "saveUnreleased", "saveComplete", "saveReward", "overwrite"}
HeldPcs == {"insert", "stake"}
CreditPcs == {"addReward", "saveReward"}
ClaimPcs == WritePcs \cup HeldPcs \cup CreditPcs \cup {"upsert"}

\* The copy of w is what its operation makes of row b, for a stake of x.
Outcome(w, b, x) ==
    /\ w.pc = "hold" => MayHold(b, x) /\ w.bal = NextVersion(Hold(b, x))
    /\ w.pc \in {"failing", "releasing", "saveRelease"} =>
          MayReleaseHold(b, x) /\ w.bal = NextVersion(ReleaseHold(b, x))
    /\ w.pc = "saveConfirm" =>
          MayConfirmStake(b, x) /\ w.bal = NextVersion(ConfirmStake(b, x))
    /\ w.pc = "saveComplete" =>
          MayCompleteUnstake(b, x) /\ w.bal = NextVersion(CompleteUnstake(b, x))
    /\ w.pc = "saveUnreleased" => w.bal = NextVersion(b)
    /\ w.pc = "saveReward" => w.bal = NextVersion(AddReward(b, Head(w.entries).amount))
    /\ w.pc = "overwrite" =>
          /\ MaxVersion > 1
          /\ \E y \in Deposits : w.bal = NextVersion([b EXCEPT !.available = y])

\* What w knows of the row of its account.
BalOk(b, w, x) ==
    /\ w.pc \in WritePcs => /\ w.bal.version <= b.version + 1
                            /\ w.bal.version = b.version + 1 => Outcome(w, b, x)
    /\ w.pc \in HeldPcs => /\ w.bal.version <= b.version
                           /\ w.bal.version = b.version => w.bal = b
                           /\ x > 0
                           /\ w.bal.pending >= x
    /\ w.pc # "upsert"

\* The reward w is about to credit is recorded and not credited yet, and no
\* other goroutine is about to credit it.
CreditOk(rows, done, w) ==
    w.pc \in CreditPcs =>
        /\ \E r \in rows : /\ r.stake = w.id
                           /\ r.day = Head(w.entries).day
                           /\ r.amount = Head(w.entries).amount
        /\ <<w.id, Head(w.entries).day>> \notin done

Single(v, w) ==
    v.pc \in CreditPcs /\ w.pc \in CreditPcs /\ v.id = w.id
        => Head(v.entries).day # Head(w.entries).day

Recorded(rows, done) == \A c \in done : \E r \in rows : c = <<r.stake, r.day>>

LedgerInv ==
    /\ MoveInv
    /\ \A acct \in Accounts : balances[acct].version >= 1
    /\ \A a \in Actors : BalOk(balances[work[a].account], work[a], terms[work[a].id].amount)
    /\ \A a \in Actors : CreditOk(rewards, credited, work[a])
    /\ \A a, b \in Actors : a # b => Single(work[a], work[b])
    /\ Recorded(rewards, credited)

\* A row of balances is left alone or gets its next version.
BalancesGrow ==
    \A acct \in Accounts :
        \/ balances'[acct] = balances[acct]
        \/ balances'[acct].version = balances[acct].version + 1

\* The terms of a stake are never changed.
TermsStay == \A i \in StakeIds : Created(i) => terms'[i] = terms[i]

-----------------------------------------------------------------------------
(* One step of one goroutine                                               *)

\* What w knows of a row survives every write of the row.
LEMMA BalStays ==
    ASSUME NEW b \in Balances, NEW c \in Balances, c = b \/ c.version = b.version + 1,
           NEW w \in Workspace, NEW x, NEW y,
           w.pc \in (WritePcs \cup HeldPcs) \ {"overwrite"} => x = y,
           BalOk(b, w, x)
    PROVE  BalOk(c, w, y)
<1>1. b.version \in Nat /\ c.version \in Nat /\ w.bal.version \in Nat
  BY WorkspaceFields DEF Balances
<1>2. CASE c = b
  BY <1>2 DEF BalOk, Outcome, WritePcs, HeldPcs
<1>3. CASE c.version = b.version + 1
  <2>1. w.pc \in WritePcs => w.bal.version < c.version + 1
    BY <1>1, <1>3 DEF BalOk
  <2>2. w.pc \in HeldPcs => w.bal.version < c.version /\ x = y
    BY <1>1, <1>3 DEF BalOk, WritePcs, HeldPcs
  <2>. QED BY <1>1, <2>1, <2>2 DEF BalOk
<1>. QED BY <1>2, <1>3

\* What is known of a goroutine that is at a balance.
LEMMA LedgerReads ==
    ASSUME LedgerInv, NEW a \in Actors
    PROVE  /\ work[a] \in Workspace
           /\ work[a].pc \in StakePcs =>
                 /\ work[a].id \in StakeIds
                 /\ Created(work[a].id)
                 /\ work[a].account = terms[work[a].id].account
                 /\ terms[work[a].id].amount \in Nat \ {0}
           /\ work[a].pc \in StakePcs \cup {"overwrite"} => work[a].account \in Accounts
           /\ balances \in [Accounts -> Balances]
           /\ BalOk(balances[work[a].account], work[a], terms[work[a].id].amount)
           /\ MoveOk(stakes, moved, work[a])
           /\ CreditOk(rewards, credited, work[a])
           /\ (WritePcs \cup HeldPcs \cup CreditPcs) \ {"overwrite"} \subseteq StakePcs
<1>1. (WritePcs \cup HeldPcs \cup CreditPcs) \ {"overwrite"} \subseteq StakePcs
  BY DEF WritePcs, HeldPcs, CreditPcs, StakePcs, Pcs, HandlerPcs, PollerPcs
<1>2. TypeInv
  BY DEF LedgerInv, MoveInv, TableInv
<1>3. work[a].pc \in StakePcs => /\ work[a].account \in Accounts
                                 /\ terms[work[a].id].amount \in Nat \ {0}
  BY <1>2, Reads, StoreAssumption DEF Terms
<1>. QED BY <1>1, <1>2, <1>3 DEF LedgerInv, MoveInv, TypeInv, TypeOK, Rooted, Located

\* What has to be shown of a step.
LEMMA LedgerParts ==
    ASSUME LedgerInv, MoveInv', NEW a \in Actors, NEW w, Become(a, w),
           BalancesGrow, TermsStay,
           BalOk(balances'[w.account], w, terms'[w.id].amount),
           CreditOk(rewards', credited', w),
           \A b \in Actors \ {a} : CreditOk(rewards', credited', work[b]) /\ Single(w, work[b]),
           Recorded(rewards', credited')
    PROVE  LedgerInv'
<1>1. work'[a] = w /\ \A b \in Actors \ {a} : work'[b] = work[b]
  BY DEF Become, LedgerInv, MoveInv, TableInv, TypeInv, TypeOK
<1>2. balances \in [Accounts -> Balances] /\ balances' \in [Accounts -> Balances]
  BY DEF LedgerInv, MoveInv, TableInv, TypeInv, TypeOK
<1>3. \A acct \in Accounts : balances'[acct].version >= 1
  BY <1>2 DEF LedgerInv, BalancesGrow, Balances
<1>4. ASSUME NEW b \in Actors, b # a
      PROVE  BalOk(balances'[work[b].account], work[b], terms'[work[b].id].amount)
  <2>. DEFINE acct == work[b].account
              x == terms[work[b].id].amount
  <2>1. CASE work[b].pc \notin WritePcs \cup HeldPcs
    BY <2>1, LedgerReads DEF BalOk
  <2>2. CASE work[b].pc \in WritePcs \cup HeldPcs
    <3>1. work[b].pc \in StakePcs \/ work[b].pc = "overwrite"
      BY <2>2, LedgerReads
    <3>2. acct \in Accounts /\ work[b] \in Workspace /\ BalOk(balances[acct], work[b], x)
      BY <3>1, LedgerReads
    <3>3. work[b].pc \in (WritePcs \cup HeldPcs) \ {"overwrite"}
             => x = terms'[work[b].id].amount
      BY <3>1, LedgerReads DEF TermsStay
    <3>4. /\ balances[acct] \in Balances /\ balances'[acct] \in Balances
          /\ \/ balances'[acct] = balances[acct]
             \/ balances'[acct].version = balances[acct].version + 1
      BY <1>2, <3>2 DEF BalancesGrow
    <3>. HIDE DEF acct, x
    <3>5. BalOk(balances'[acct], work[b], terms'[work[b].id].amount)
      BY <3>2, <3>3, <3>4, BalStays
    <3>. QED BY <3>5 DEF acct
  <2>. QED BY <2>1, <2>2
<1>5. \A b \in Actors : BalOk(balances'[work'[b].account], work'[b],
                              terms'[work'[b].id].amount)
  BY <1>1, <1>4
<1>6. \A b \in Actors : CreditOk(rewards', credited', work'[b])
  BY <1>1
<1>7. \A b, c \in Actors : b # c => Single(work'[b], work'[c])
  <2>1. \A u, v : Single(u, v) <=> Single(v, u)
    BY DEF Single
  <2>2. ASSUME NEW b \in Actors, NEW c \in Actors, b # c
        PROVE  Single(work'[b], work'[c])
    <3>1. CASE b # a /\ c # a
      BY <1>1, <2>2, <3>1 DEF LedgerInv
    <3>2. CASE b = a
      BY <1>1, <2>2, <3>2
    <3>3. CASE c = a
      BY <1>1, <2>1, <2>2, <3>3
    <3>. QED BY <3>1, <3>2, <3>3
  <2>. QED BY <2>2
<1>. QED BY <1>3, <1>5, <1>6, <1>7
         DEF LedgerInv, BalOk, Outcome, CreditOk, Single, Recorded

\* A step that is not about rewards.
LEMMA BalanceStep ==
    ASSUME LedgerInv, MoveInv', NEW a \in Actors, NEW w, Become(a, w),
           BalancesGrow, TermsStay, UNCHANGED <<rewards, credited>>,
           BalOk(balances'[w.account], w, terms'[w.id].amount),
           w.pc \notin CreditPcs
    PROVE  LedgerInv'
<1>1. /\ CreditOk(rewards', credited', w)
      /\ \A b \in Actors \ {a} : CreditOk(rewards', credited', work[b]) /\ Single(w, work[b])
      /\ Recorded(rewards', credited')
  BY DEF LedgerInv, CreditOk, Single
<1>. QED BY <1>1, LedgerParts

\* A step that leaves the balances alone and claims nothing of one.
LEMMA PlainStep ==
    ASSUME LedgerInv, MoveInv', NEW a \in Actors, NEW w, Become(a, w),
           TermsStay, UNCHANGED <<balances, rewards, credited>>,
           w.pc \notin ClaimPcs
    PROVE  LedgerInv'
<1>1. BalOk(balances'[w.account], w, terms'[w.id].amount)
  BY DEF BalOk, ClaimPcs
<1>2. BalancesGrow
  BY DEF BalancesGrow
<1>. QED BY <1>1, <1>2, BalanceStep DEF ClaimPcs

\* The balance has been read and what to write computed.
LEMMA FetchStep ==
    ASSUME LedgerInv, MoveInv', NEW a \in Actors, NEW w, Become(a, w),
           TermsStay, UNCHANGED <<balances, rewards, credited>>,
           w.pc \in WritePcs \ CreditPcs,
           w.bal.version = balances[w.account].version + 1,
           w.account \in Accounts,
           Outcome(w, balances[w.account], terms'[w.id].amount)
    PROVE  LedgerInv'
<1>1. w.bal.version <= balances[w.account].version + 1
  BY DEF LedgerInv, MoveInv, TableInv, TypeInv, TypeOK, Balances
<1>2. BalOk(balances'[w.account], w, terms'[w.id].amount)
  BY <1>1 DEF BalOk, WritePcs, HeldPcs
<1>3. BalancesGrow
  BY DEF BalancesGrow
<1>. QED BY <1>2, <1>3, BalanceStep

\* The balance is written, and the goroutine claims nothing more.
LEMMA WriteStep ==
    ASSUME LedgerInv, MoveInv', NEW a \in Actors, work[a].pc \in WritePcs, WriteBalance(a),
           NEW w, Become(a, w), UNCHANGED <<terms, rewards, credited>>,
           w.pc \notin ClaimPcs
    PROVE  LedgerInv'
<1>1. BalancesGrow
  BY DEF BalancesGrow, WriteBalance, BalanceVersionMatches, LedgerInv, MoveInv, TableInv,
         TypeInv, TypeOK
<1>2. BalOk(balances'[w.account], w, terms'[w.id].amount) /\ TermsStay
  BY DEF BalOk, ClaimPcs, TermsStay
<1>. QED BY <1>1, <1>2, BalanceStep DEF ClaimPcs

-----------------------------------------------------------------------------
(* Steps of the ledger                                                     *)

Funds == [acct \in Accounts |-> Buckets(balances[acct])]

\* A step of the ledger, by whether it sets the available funds, which only a
\* request for a balance of a higher version than its first does.
LedgerMove ==
    \/ \E i \in StakeIds : \/ Ledger!Agree(i) \/ Ledger!DoHold(i) \/ Ledger!DoConfirm(i)
                           \/ Ledger!DoRelease(i) \/ Ledger!DoComplete(i)
    \/ Ledger!Record
    \/ \E r \in rewards : Ledger!DoCredit(r)
LedgerStep ==
    \/ [LedgerMove]_(Ledger!ledgerVars)
    \/ MaxVersion > 1 /\ \E acct \in Accounts, y \in Deposits : Ledger!DoSetAvailable(acct, y)

BucketSets == [available : Nat, staked : Nat, pending : Nat]

\* Two sets of buckets are the same if each bucket is.
LEMMA SameBuckets ==
    ASSUME NEW f \in BucketSets, NEW g \in BucketSets,
           f.available = g.available, f.staked = g.staked, f.pending = g.pending
    PROVE  f = g
<1>1. \A h \in BucketSets :
         h = [available |-> h.available, staked |-> h.staked, pending |-> h.pending]
  BY DEF BucketSets
<1>. QED BY <1>1

\* The buckets of a row do not depend on its version.
LEMMA BucketsOf ==
    ASSUME NEW b \in Balances
    PROVE  /\ Buckets(b) \in BucketSets
           /\ Buckets(NextVersion(b)) = Buckets(b)
           /\ Buckets(b).available = b.available
           /\ Buckets(b).staked = b.staked
           /\ Buckets(b).pending = b.pending
  BY DEF Balances, BucketSets, Buckets, NextVersion

\* Setting buckets of a set of buckets.
LEMMA BucketUpdates ==
    ASSUME NEW f \in BucketSets, NEW x \in Nat, NEW y \in Nat
    PROVE  /\ [f EXCEPT !.available = x, !.pending = y] \in BucketSets
           /\ [f EXCEPT !.pending = x, !.available = y] \in BucketSets
           /\ [f EXCEPT !.pending = x, !.staked = y] \in BucketSets
           /\ [f EXCEPT !.staked = x, !.available = y] \in BucketSets
           /\ [f EXCEPT !.available = x] \in BucketSets
  BY DEF BucketSets

\* Hold does to a row what it does to its buckets.
LEMMA HoldBuckets ==
    ASSUME NEW b \in Balances, NEW x \in Nat, MayHold(b, x)
    PROVE  /\ Ledger!MayHold(Buckets(b), x)
           /\ Buckets(NextVersion(Hold(b, x))) = Ledger!Hold(Buckets(b), x)
<1>. DEFINE f == Buckets(b)
<1>1. /\ f \in BucketSets /\ f.available = b.available /\ f.staked = b.staked
      /\ f.pending = b.pending
  BY BucketsOf
<1>. HIDE DEF f
<1>2. f.available - x \in Nat /\ f.pending + x \in Nat
  BY <1>1 DEF BucketSets, MayHold
<1>3. Ledger!Hold(f, x) \in BucketSets
  BY <1>1, <1>2, BucketUpdates DEF Ledger!Hold
<1>4. /\ Ledger!Hold(f, x).available = f.available - x
      /\ Ledger!Hold(f, x).staked = f.staked
      /\ Ledger!Hold(f, x).pending = f.pending + x
  BY <1>1 DEF BucketSets, Ledger!Hold
<1>5. /\ Hold(b, x).available = b.available - x
      /\ Hold(b, x).staked = b.staked
      /\ Hold(b, x).pending = b.pending + x
  BY DEF Balances, Hold
<1>6. Buckets(NextVersion(Hold(b, x))) = Ledger!Hold(f, x)
  BY <1>1, <1>3, <1>4, <1>5, HoldType, BucketsOf, SameBuckets
<1>7. Ledger!MayHold(f, x)
  BY <1>1 DEF MayHold, Ledger!MayHold
<1>. QED BY <1>6, <1>7 DEF f

\* So does ConfirmStake.
LEMMA ConfirmBuckets ==
    ASSUME NEW b \in Balances, NEW x \in Nat, MayConfirmStake(b, x)
    PROVE  /\ Ledger!MayConfirmStake(Buckets(b), x)
           /\ Buckets(NextVersion(ConfirmStake(b, x))) = Ledger!ConfirmStake(Buckets(b), x)
<1>. DEFINE f == Buckets(b)
<1>1. /\ f \in BucketSets /\ f.available = b.available /\ f.staked = b.staked
      /\ f.pending = b.pending
  BY BucketsOf
<1>. HIDE DEF f
<1>2. f.pending - x \in Nat /\ f.staked + x \in Nat
  BY <1>1 DEF BucketSets, MayConfirmStake
<1>3. Ledger!ConfirmStake(f, x) \in BucketSets
  BY <1>1, <1>2, BucketUpdates DEF Ledger!ConfirmStake
<1>4. /\ Ledger!ConfirmStake(f, x).available = f.available
      /\ Ledger!ConfirmStake(f, x).staked = f.staked + x
      /\ Ledger!ConfirmStake(f, x).pending = f.pending - x
  BY <1>1 DEF BucketSets, Ledger!ConfirmStake
<1>5. /\ ConfirmStake(b, x).available = b.available
      /\ ConfirmStake(b, x).staked = b.staked + x
      /\ ConfirmStake(b, x).pending = b.pending - x
  BY DEF Balances, ConfirmStake
<1>6. Buckets(NextVersion(ConfirmStake(b, x))) = Ledger!ConfirmStake(f, x)
  BY <1>1, <1>3, <1>4, <1>5, ConfirmStakeType, BucketsOf, SameBuckets
<1>7. Ledger!MayConfirmStake(f, x)
  BY <1>1 DEF MayConfirmStake, Ledger!MayConfirmStake
<1>. QED BY <1>6, <1>7 DEF f

\* So does ReleaseHold, where it does not refuse.
LEMMA ReleaseBuckets ==
    ASSUME NEW b \in Balances, NEW x \in Nat, MayReleaseHold(b, x)
    PROVE  /\ Ledger!MayReleaseHold(Buckets(b), x)
           /\ Buckets(NextVersion(ReleaseHold(b, x))) = Ledger!ReleaseHold(Buckets(b), x)
<1>. DEFINE f == Buckets(b)
<1>1. /\ f \in BucketSets /\ f.available = b.available /\ f.staked = b.staked
      /\ f.pending = b.pending
  BY BucketsOf
<1>. HIDE DEF f
<1>2. f.pending - x \in Nat /\ f.available + x \in Nat
  BY <1>1 DEF BucketSets, MayReleaseHold
<1>7. Ledger!MayReleaseHold(f, x)
  BY <1>1 DEF MayReleaseHold, Ledger!MayReleaseHold
<1>8. Ledger!ReleaseHold(f, x)
        = [f EXCEPT !.pending = f.pending - x, !.available = f.available + x]
  BY <1>7 DEF Ledger!ReleaseHold
<1>3. Ledger!ReleaseHold(f, x) \in BucketSets
  <2>1. [f EXCEPT !.pending = f.pending - x, !.available = f.available + x] \in BucketSets
    BY <1>1, <1>2, BucketUpdates
  <2>. QED BY <1>8, <2>1, Zenon
<1>4. /\ Ledger!ReleaseHold(f, x).available = f.available + x
      /\ Ledger!ReleaseHold(f, x).staked = f.staked
      /\ Ledger!ReleaseHold(f, x).pending = f.pending - x
  BY <1>1, <1>8 DEF BucketSets
<1>5. /\ ReleaseHold(b, x).available = b.available + x
      /\ ReleaseHold(b, x).staked = b.staked
      /\ ReleaseHold(b, x).pending = b.pending - x
  BY DEF Balances, ReleaseHold
<1>6. Buckets(NextVersion(ReleaseHold(b, x))) = Ledger!ReleaseHold(f, x)
  BY <1>1, <1>3, <1>4, <1>5, ReleaseHoldType, BucketsOf, SameBuckets
<1>. QED BY <1>6, <1>7 DEF f

\* So does CompleteUnstake.
LEMMA CompleteBuckets ==
    ASSUME NEW b \in Balances, NEW x \in Nat, MayCompleteUnstake(b, x)
    PROVE  /\ Ledger!MayCompleteUnstake(Buckets(b), x)
           /\ Buckets(NextVersion(CompleteUnstake(b, x)))
                = Ledger!CompleteUnstake(Buckets(b), x)
<1>. DEFINE f == Buckets(b)
<1>1. /\ f \in BucketSets /\ f.available = b.available /\ f.staked = b.staked
      /\ f.pending = b.pending
  BY BucketsOf
<1>. HIDE DEF f
<1>2. f.staked - x \in Nat /\ f.available + x \in Nat
  BY <1>1 DEF BucketSets, MayCompleteUnstake
<1>3. Ledger!CompleteUnstake(f, x) \in BucketSets
  BY <1>1, <1>2, BucketUpdates DEF Ledger!CompleteUnstake
<1>4. /\ Ledger!CompleteUnstake(f, x).available = f.available + x
      /\ Ledger!CompleteUnstake(f, x).staked = f.staked - x
      /\ Ledger!CompleteUnstake(f, x).pending = f.pending
  BY <1>1 DEF BucketSets, Ledger!CompleteUnstake
<1>5. /\ CompleteUnstake(b, x).available = b.available + x
      /\ CompleteUnstake(b, x).staked = b.staked - x
      /\ CompleteUnstake(b, x).pending = b.pending
  BY DEF Balances, CompleteUnstake
<1>6. Buckets(NextVersion(CompleteUnstake(b, x))) = Ledger!CompleteUnstake(f, x)
  BY <1>1, <1>3, <1>4, <1>5, CompleteUnstakeType, BucketsOf, SameBuckets
<1>7. Ledger!MayCompleteUnstake(f, x)
  BY <1>1 DEF MayCompleteUnstake, Ledger!MayCompleteUnstake
<1>. QED BY <1>6, <1>7 DEF f

\* So do AddReward and setting the available funds.
LEMMA AvailableBuckets ==
    ASSUME NEW b \in Balances, NEW x \in Nat
    PROVE  /\ Buckets(NextVersion(AddReward(b, x))) = Ledger!AddReward(Buckets(b), x)
           /\ Buckets(NextVersion([b EXCEPT !.available = x]))
                = [Buckets(b) EXCEPT !.available = x]
<1>. DEFINE f == Buckets(b)
            c == [b EXCEPT !.available = x]
            g == [f EXCEPT !.available = x]
<1>1. /\ f \in BucketSets /\ f.available = b.available /\ f.staked = b.staked
      /\ f.pending = b.pending
  BY BucketsOf
<1>. HIDE DEF f
<1>2. f.available + x \in Nat
  BY <1>1 DEF BucketSets
<1>3. Ledger!AddReward(f, x) \in BucketSets /\ g \in BucketSets
  BY <1>1, <1>2, BucketUpdates DEF Ledger!AddReward
<1>4. /\ Ledger!AddReward(f, x).available = f.available + x
      /\ Ledger!AddReward(f, x).staked = f.staked
      /\ Ledger!AddReward(f, x).pending = f.pending
      /\ g.available = x /\ g.staked = f.staked /\ g.pending = f.pending
  BY <1>1 DEF BucketSets, Ledger!AddReward
<1>5. /\ AddReward(b, x).available = b.available + x
      /\ AddReward(b, x).staked = b.staked
      /\ AddReward(b, x).pending = b.pending
      /\ c.available = x /\ c.staked = b.staked /\ c.pending = b.pending
      /\ c \in Balances
  BY DEF Balances, AddReward
<1>. HIDE DEF c, g
<1>6. Buckets(NextVersion(AddReward(b, x))) = Ledger!AddReward(f, x)
  BY <1>1, <1>3, <1>4, <1>5, AddRewardType, BucketsOf, SameBuckets
<1>7. Buckets(NextVersion(c)) = g
  BY <1>1, <1>3, <1>4, <1>5, BucketsOf, SameBuckets
<1>. QED BY <1>6, <1>7 DEF f, c, g

\* A row that is written gets its new buckets, the other rows keep theirs.
LEMMA FundsWritten ==
    ASSUME balances \in [Accounts -> Balances], NEW acct \in Accounts, NEW b,
           balances' = [balances EXCEPT ![acct] = b]
    PROVE  Funds' = [Funds EXCEPT ![acct] = Buckets(b)]
  BY DEF Funds, Buckets

\* No funds move.
LEMMA StillLedger ==
    ASSUME UNCHANGED <<terms, balances, rewards, moved, credited>>
    PROVE  LedgerStep
  BY DEF LedgerStep, Ledger!ledgerVars

\* A goroutine that succeeds in writing a balance writes the outcome of its
\* operation on the row as it is.
LEMMA WriteOutcome ==
    ASSUME LedgerInv, NEW a \in Actors, work[a].pc \in WritePcs, WriteBalance(a)
    PROVE  LET acct == work[a].account
               x == terms[work[a].id].amount
           IN  /\ acct \in Accounts
               /\ balances[acct] \in Balances
               /\ Outcome(work[a], balances[acct], x)
               /\ Funds[acct] = Buckets(balances[acct])
               /\ Funds' = [Funds EXCEPT ![acct] = Buckets(work[a].bal)]
<1>. DEFINE acct == work[a].account
            x == terms[work[a].id].amount
<1>1. acct \in Accounts /\ balances[acct] \in Balances
  BY LedgerReads DEF WritePcs
<1>2. Outcome(work[a], balances[acct], x)
  BY LedgerReads DEF WriteBalance, BalanceVersionMatches, BalOk
<1>3. Funds' = [Funds EXCEPT ![acct] = Buckets(work[a].bal)]
  BY <1>1, LedgerReads, FundsWritten DEF WriteBalance
<1>4. Funds[acct] = Buckets(balances[acct])
  BY <1>1 DEF Funds
<1>. QED BY <1>1, <1>2, <1>3, <1>4

\* An operation of a stake is one step of the ledger.
LEMMA OperationLedger ==
    ASSUME LedgerInv, NEW a \in Actors, NEW op, UpdateBalance(a, op),
           UNCHANGED <<terms, rewards>>,
           \/ op = "hold" /\ work[a].pc = "hold"
           \/ op = "confirm" /\ work[a].pc = "saveConfirm"
           \/ op = "release" /\ work[a].pc \in {"saveRelease", "releasing"}
           \/ op = "complete" /\ work[a].pc = "saveComplete"
    PROVE  LedgerStep
<1>. DEFINE i == work[a].id
            acct == work[a].account
            x == terms[i].amount
            f == Funds[acct]
<1>1. /\ work[a].pc \in WritePcs /\ work[a].pc \in StakePcs /\ WriteBalance(a)
      /\ UNCHANGED <<terms, rewards, credited>>
      /\ moved' = [moved EXCEPT ![i] = @ \cup {op}]
  BY DEF WritePcs, UpdateBalance, StakePcs, Pcs, HandlerPcs, PollerPcs
<1>2. /\ i \in StakeIds /\ Created(i) /\ acct = terms[i].account /\ x \in Nat
      /\ MoveOk(stakes, moved, work[a])
  BY <1>1, LedgerReads
<1>3. /\ acct \in Accounts /\ balances[acct] \in Balances
      /\ Outcome(work[a], balances[acct], x)
      /\ f = Buckets(balances[acct])
      /\ Funds' = [Funds EXCEPT ![acct] = Buckets(work[a].bal)]
  BY <1>1, WriteOutcome
<1>4. \A b : /\ Funds' = [Funds EXCEPT ![acct] = b]
             => Ledger!Apply(i, op, b)
  BY <1>1, <1>2 DEF Ledger!Apply, Funds, Buckets, Ledger!Buckets
<1>5. f = Ledger!FundsOf(i) /\ Ledger!Agreed(i)
  BY <1>2 DEF Ledger!FundsOf, Ledger!Agreed, Funds, Created
<1>. HIDE DEF f, acct, x, i
<1>6. CASE op = "hold"
  <2>1. moved[i] = {}
    BY <1>2, <1>6 DEF MoveOk, i
  <2>2. Ledger!MayHold(f, x) /\ Funds' = [Funds EXCEPT ![acct] = Ledger!Hold(f, x)]
    BY <1>2, <1>3, <1>6, HoldBuckets DEF Outcome
  <2>3. Ledger!DoHold(i)
    BY <1>4, <1>5, <1>6, <2>1, <2>2 DEF Ledger!DoHold, x
  <2>. QED BY <1>2, <2>3 DEF LedgerStep, LedgerMove
<1>7. CASE op = "confirm"
  <2>1. "hold" \in moved[i] /\ "confirm" \notin moved[i] /\ "release" \notin moved[i]
    BY <1>2, <1>7 DEF MoveOk, ConfirmPcs, i
  <2>2. /\ Ledger!MayConfirmStake(f, x)
        /\ Funds' = [Funds EXCEPT ![acct] = Ledger!ConfirmStake(f, x)]
    BY <1>2, <1>3, <1>7, ConfirmBuckets DEF Outcome
  <2>3. Ledger!DoConfirm(i)
    BY <1>4, <1>5, <1>7, <2>1, <2>2 DEF Ledger!DoConfirm, x
  <2>. QED BY <1>2, <2>3 DEF LedgerStep, LedgerMove
<1>8. CASE op = "release"
  <2>1. moved[i] = {"hold"}
    BY <1>2, <1>8 DEF MoveOk, i
  <2>2. /\ Ledger!MayReleaseHold(f, x)
        /\ Funds' = [Funds EXCEPT ![acct] = Ledger!ReleaseHold(f, x)]
    BY <1>2, <1>3, <1>8, ReleaseBuckets DEF Outcome
  <2>3. Ledger!DoRelease(i)
    BY <1>4, <1>5, <1>8, <2>1, <2>2 DEF Ledger!DoRelease, x
  <2>. QED BY <1>2, <2>3 DEF LedgerStep, LedgerMove
<1>9. CASE op = "complete"
  <2>1. "hold" \in moved[i] /\ "complete" \notin moved[i] /\ "release" \notin moved[i]
    BY <1>2, <1>9 DEF MoveOk, CompletePcs, i
  <2>2. /\ Ledger!MayCompleteUnstake(f, x)
        /\ Funds' = [Funds EXCEPT ![acct] = Ledger!CompleteUnstake(f, x)]
    BY <1>2, <1>3, <1>9, CompleteBuckets DEF Outcome
  <2>3. Ledger!DoComplete(i)
    BY <1>4, <1>5, <1>9, <2>1, <2>2 DEF Ledger!DoComplete, x
  <2>. QED BY <1>2, <2>3 DEF LedgerStep, LedgerMove
<1>. QED BY <1>6, <1>7, <1>8, <1>9

-----------------------------------------------------------------------------
(* The steps of the handlers                                               *)

\* What Goto and Adjust leave in a goroutine's memory.
LEMMA Carry ==
    ASSUME LedgerInv, NEW a \in Actors
    PROVE  /\ \A pc : Goto(a, pc) =>
                 \E w : /\ Become(a, w) /\ w.pc = pc /\ w.id = work[a].id
                       /\ w.account = work[a].account /\ w.bal = work[a].bal
                       /\ w.entries = work[a].entries
           /\ \A b, pc : Adjust(a, b, pc) =>
                 \E w : /\ Become(a, w) /\ w.pc = pc /\ w.id = work[a].id
                       /\ w.account = work[a].account /\ w.bal = NextVersion(b)
                       /\ w.entries = work[a].entries
<1>0. work[a] \in Workspace
  BY LedgerReads
<1>1. ASSUME NEW pc, Goto(a, pc)
      PROVE  \E w : /\ Become(a, w) /\ w.pc = pc /\ w.id = work[a].id
                   /\ w.account = work[a].account /\ w.bal = work[a].bal
                   /\ w.entries = work[a].entries
  <2>. DEFINE w == [work[a] EXCEPT !.pc = pc]
  <2>1. /\ w.pc = pc /\ w.id = work[a].id /\ w.account = work[a].account
        /\ w.bal = work[a].bal /\ w.entries = work[a].entries
    BY <1>0 DEF Workspace
  <2>2. Become(a, w)
    BY <1>1 DEF Goto
  <2>. HIDE DEF w
  <2>. QED BY <2>1, <2>2
<1>2. ASSUME NEW b, NEW pc, Adjust(a, b, pc)
      PROVE  \E w : /\ Become(a, w) /\ w.pc = pc /\ w.id = work[a].id
                   /\ w.account = work[a].account /\ w.bal = NextVersion(b)
                   /\ w.entries = work[a].entries
  <2>. DEFINE w == [work[a] EXCEPT !.bal = NextVersion(b), !.pc = pc]
  <2>1. /\ w.pc = pc /\ w.id = work[a].id /\ w.account = work[a].account
        /\ w.bal = NextVersion(b) /\ w.entries = work[a].entries
    BY <1>0 DEF Workspace
  <2>2. Become(a, w)
    BY <1>2 DEF Adjust
  <2>. HIDE DEF w
  <2>. QED BY <2>1, <2>2
<1>. QED BY <1>1, <1>2

\* An operation leaves the version to Version++.
LEMMA OutcomeVersion ==
    ASSUME NEW b \in Balances, NEW x \in Nat
    PROVE  /\ NextVersion(b).version = b.version + 1
           /\ MayHold(b, x) => NextVersion(Hold(b, x)).version = b.version + 1
           /\ MayConfirmStake(b, x) => NextVersion(ConfirmStake(b, x)).version = b.version + 1
           /\ NextVersion(ReleaseHold(b, x)).version = b.version + 1
           /\ MayCompleteUnstake(b, x) =>
                 NextVersion(CompleteUnstake(b, x)).version = b.version + 1
           /\ NextVersion(AddReward(b, x)).version = b.version + 1
           /\ NextVersion([b EXCEPT !.available = x]).version = b.version + 1
<1>1. \A c \in Balances : NextVersion(c).version = c.version + 1
  BY DEF Balances, NextVersion
<1>2. /\ Hold(b, x).version = b.version
      /\ ConfirmStake(b, x).version = b.version
      /\ ReleaseHold(b, x).version = b.version
      /\ CompleteUnstake(b, x).version = b.version
      /\ AddReward(b, x).version = b.version
      /\ [b EXCEPT !.available = x].version = b.version
  BY DEF Balances, Hold, ConfirmStake, ReleaseHold, CompleteUnstake, AddReward
<1>. QED BY <1>1, <1>2, BalanceUpdates, HoldType, ConfirmStakeType, ReleaseHoldType,
            CompleteUnstakeType, AddRewardType

\* Nothing of the ledger changes and the goroutine claims nothing.
LEMMA PlainLedger ==
    ASSUME LedgerInv, MoveInv', NEW a \in Actors, NEW w, Become(a, w), w.pc \notin ClaimPcs,
           UNCHANGED <<terms, balances, rewards, moved, credited>>
    PROVE  LedgerInv' /\ LedgerStep
  BY PlainStep, StillLedger DEF TermsStay

\* A step of a handler goroutine.
LEMMA HandlerLedger ==
    ASSUME LedgerInv, MoveInv', NEW h \in Handlers, Request(h) \/ HandlerStep(h)
    PROVE  LedgerInv' /\ LedgerStep
<1>. h \in Actors
  BY DEF Actors
<1>. DEFINE Still == UNCHANGED <<terms, balances, rewards, moved, credited>>
            acct == work[h].account
            row == balances[acct]
            x == terms[work[h].id].amount
<1>0. /\ work[h] \in Workspace /\ balances \in [Accounts -> Balances]
      /\ BalOk(row, work[h], x)
      /\ work[h].pc \in StakePcs =>
            /\ x \in Nat \ {0} /\ acct \in Accounts /\ row \in Balances
            /\ work[h].id \in StakeIds /\ Created(work[h].id)
  BY LedgerReads
<1>1. {"idle", "getBalance", "saveDelegating", "publishCreated", "unstake", "saveUnstaking",
       "publishUnstake", "publishBalance"} \cap ClaimPcs = {}
  BY DEF ClaimPcs, WritePcs, HeldPcs, CreditPcs
<1>2. Idle.pc = "idle"
  BY DEF Idle
<1>3. Return(h) /\ Still => LedgerInv' /\ LedgerStep
  BY <1>1, <1>2, PlainLedger DEF Return
<1>4. \A pc \in {"publishCreated", "publishUnstake", "publishBalance"} :
         Goto(h, pc) /\ Still => LedgerInv' /\ LedgerStep
  BY <1>1, Carry, PlainLedger
<1>5. ASSUME NEW acc, NEW y, NEW k, BeginCreateStake(h, acc, y, k)
      PROVE  LedgerInv' /\ LedgerStep
  <2>1. PICK i \in StakeIds :
           /\ ~Created(i)
           /\ terms' = [terms EXCEPT ![i] = [account |-> acc, amount |-> y, key |-> k]]
           /\ Become(h, [Idle EXCEPT !.pc = "getBalance", !.id = i,
                                     !.account = acc, !.stake = NewStake])
    BY <1>5 DEF BeginCreateStake
  <2>. DEFINE w == [Idle EXCEPT !.pc = "getBalance", !.id = i,
                                !.account = acc, !.stake = NewStake]
  <2>2. w.pc = "getBalance"
    BY DEF Idle
  <2>3. UNCHANGED <<balances, rewards, moved, credited>>
    BY <1>5 DEF BeginCreateStake, ledger, rewardTables
  <2>4. \A j \in StakeIds \ {i} : terms'[j] = terms[j]
    BY <2>1 DEF LedgerInv, MoveInv, TableInv, TypeInv, TypeOK
  <2>5. TermsStay
    BY <2>1, <2>4 DEF TermsStay
  <2>6. Ledger!Agree(i)
    BY <2>1, <2>3, <2>4 DEF Ledger!Agree, Created, NoTerms
  <2>7. LedgerStep
    BY <2>6 DEF LedgerStep, LedgerMove
  <2>. HIDE DEF w
  <2>. QED BY <1>1, <2>1, <2>2, <2>3, <2>5, <2>7, PlainStep DEF w
<1>6. ASSUME NEW i, BeginUnstake(h, i)
      PROVE  LedgerInv' /\ LedgerStep
  <2>. DEFINE w == [Idle EXCEPT !.pc = "unstake", !.id = i,
                                !.account = terms[i].account,
                                !.stake = Unstake(stakes[i])]
  <2>1. w.pc = "unstake"
    BY DEF Idle
  <2>2. Become(h, w) /\ Still
    BY <1>6 DEF BeginUnstake, ledger, rewardTables
  <2>. HIDE DEF w
  <2>. QED BY <1>1, <2>1, <2>2, PlainLedger
<1>7. ASSUME NEW acc \in Accounts, NEW y \in Deposits, BeginSetBalance(h, acc, y)
      PROVE  LedgerInv' /\ LedgerStep
  <2>. DEFINE b == balances[acc]
              w == [Idle EXCEPT !.pc = "overwrite", !.account = acc,
                                !.bal = NextVersion([b EXCEPT !.available = y])]
  <2>1. b \in Balances /\ b # NoBalance /\ y \in Nat
    BY <1>0, ServiceAssumption DEF LedgerInv, NoBalance
  <2>2. MaxVersion > 1
    BY <1>7, <2>1, ServiceAssumption DEF BeginSetBalance, LedgerInv, Balances
  <2>3. /\ w.pc = "overwrite" /\ w.account = acc
        /\ w.bal = NextVersion([b EXCEPT !.available = y])
    BY DEF Idle
  <2>4. Become(h, w) /\ Still
    BY <1>7, <2>1 DEF BeginSetBalance, ledger, rewardTables
  <2>. HIDE DEF w
  <2>5. w.bal.version = b.version + 1
    BY <2>1, <2>3, OutcomeVersion
  <2>6. Outcome(w, b, terms'[w.id].amount)
    BY <2>2, <2>3 DEF Outcome
  <2>7. LedgerInv'
    BY <2>3, <2>4, <2>5, <2>6, FetchStep DEF TermsStay, WritePcs, CreditPcs
  <2>. QED BY <2>4, <2>7, StillLedger
<1>8. CASE FetchBalance(h)
  <2>1. Still /\ work[h].pc = "getBalance" /\ work[h].pc \in StakePcs
    BY <1>8 DEF FetchBalance, ledger, rewardTables, At, StakePcs, Pcs, HandlerPcs
  <2>2. CASE MayHold(row, x) /\ Adjust(h, Hold(row, x), "hold")
    <3>1. PICK w : /\ Become(h, w) /\ w.pc = "hold" /\ w.id = work[h].id
                   /\ w.account = acct /\ w.bal = NextVersion(Hold(row, x))
      BY <2>2, Carry
    <3>2. w.bal.version = row.version + 1
      BY <1>0, <2>1, <2>2, <3>1, OutcomeVersion
    <3>3. Outcome(w, row, x)
      BY <2>2, <3>1 DEF Outcome
    <3>4. LedgerInv'
      BY <1>0, <2>1, <3>1, <3>2, <3>3, FetchStep DEF TermsStay, WritePcs, CreditPcs
    <3>. QED BY <2>1, <3>4, StillLedger
  <2>. QED BY <1>3, <1>8, <2>1, <2>2 DEF FetchBalance, AmountOf
<1>9. CASE SaveHold(h)
  <2>1. /\ UNCHANGED <<terms, rewards>> /\ work[h].pc = "hold" /\ work[h].pc \in StakePcs
        /\ work[h].pc \in WritePcs
    BY <1>9 DEF SaveHold, rewardTables, At, StakePcs, Pcs, HandlerPcs, WritePcs
  <2>2. CASE UpdateBalance(h, "hold") /\ Goto(h, "insert")
    <3>1. PICK w : /\ Become(h, w) /\ w.pc = "insert" /\ w.id = work[h].id
                   /\ w.account = acct /\ w.bal = work[h].bal
      BY <2>2, Carry
    <3>2. /\ balances' = [balances EXCEPT ![acct] = work[h].bal]
          /\ work[h].bal.version = row.version + 1
          /\ UNCHANGED credited
      BY <2>2 DEF UpdateBalance, WriteBalance, BalanceVersionMatches
    <3>3. MayHold(row, x) /\ work[h].bal = NextVersion(Hold(row, x))
      BY <1>0, <2>1, <3>2 DEF BalOk, Outcome
    <3>4. work[h].bal.pending >= x
      <4>1. Hold(row, x) \in Balances /\ Hold(row, x).pending = row.pending + x
        BY <1>0, <2>1, <3>3, HoldType DEF Balances, Hold
      <4>2. work[h].bal.pending = row.pending + x
        BY <3>3, <4>1 DEF NextVersion, Balances
      <4>. QED BY <1>0, <2>1, <4>2 DEF Balances
    <3>5. balances'[w.account] = w.bal /\ w.bal.version \in Nat
      BY <1>0, <2>1, <3>1, <3>2, WorkspaceFields DEF Balances
    <3>6. BalOk(balances'[w.account], w, terms'[w.id].amount)
      BY <1>0, <2>1, <3>1, <3>4, <3>5 DEF BalOk, WritePcs, HeldPcs
    <3>7. BalancesGrow /\ TermsStay
      BY <1>0, <2>1, <3>2 DEF BalancesGrow, TermsStay
    <3>8. LedgerInv'
      BY <2>1, <3>1, <3>2, <3>6, <3>7, BalanceStep DEF CreditPcs
    <3>. QED BY <2>1, <2>2, <3>8, OperationLedger
  <2>3. CASE UpdateBalanceFails(h) /\ Return(h)
    BY <1>3, <2>1, <2>3 DEF UpdateBalanceFails, ledger
  <2>. QED BY <1>9, <2>2, <2>3 DEF SaveHold
<1>10. CASE InsertStake(h)
  <2>1. Still /\ work[h].pc = "insert"
    BY <1>10 DEF InsertStake, ledger, rewardTables, At
  <2>2. CASE Goto(h, "stake")
    <3>1. PICK w : /\ Become(h, w) /\ w.pc = "stake" /\ w.id = work[h].id
                   /\ w.account = acct /\ w.bal = work[h].bal
      BY <2>2, Carry
    <3>2. BalOk(balances'[w.account], w, terms'[w.id].amount)
      BY <1>0, <2>1, <3>1 DEF BalOk, WritePcs, HeldPcs
    <3>3. BalancesGrow /\ TermsStay
      BY <2>1 DEF BalancesGrow, TermsStay
    <3>4. LedgerInv'
      BY <2>1, <3>1, <3>2, <3>3, BalanceStep DEF CreditPcs
    <3>. QED BY <2>1, <3>4, StillLedger
  <2>. QED BY <1>3, <1>10, <2>1, <2>2 DEF InsertStake
<1>11. CASE CallStake(h)
  <2>1. Still /\ work[h].pc = "stake" /\ work[h].pc \in StakePcs
    BY <1>11 DEF CallStake, ledger, rewardTables, At, StakePcs, Pcs, HandlerPcs
  <2>. DEFINE accepted == [work[h] EXCEPT !.stake = NextVersion(Delegate(work[h].stake)),
                                          !.pc = "saveDelegating"]
              refused == [work[h] EXCEPT
                             !.stake = NextVersion(Fail(work[h].stake)),
                             !.bal = NextVersion(ReleaseHold(work[h].bal, AmountOf(h))),
                             !.pc = "failing"]
  <2>2. /\ accepted.pc = "saveDelegating"
        /\ refused.pc = "failing" /\ refused.id = work[h].id
        /\ refused.account = work[h].account
        /\ refused.bal = NextVersion(ReleaseHold(work[h].bal, AmountOf(h)))
    BY <1>0 DEF Workspace
  <2>3. Become(h, accepted) \/ Become(h, refused)
    BY <1>11, Zenon DEF CallStake
  <2>. HIDE DEF accepted, refused
  <2>4. CASE Become(h, accepted)
    BY <1>1, <2>1, <2>2, <2>4, PlainLedger
  <2>5. CASE Become(h, refused)
    <3>1. /\ work[h].bal \in Balances /\ work[h].bal.version \in Nat
          /\ row.version \in Nat /\ work[h].bal.version <= row.version
          /\ work[h].bal.version = row.version => work[h].bal = row
          /\ MayReleaseHold(work[h].bal, x)
      BY <1>0, <2>1, WorkspaceFields DEF BalOk, HeldPcs, Balances, MayReleaseHold
    <3>2. refused.bal.version = work[h].bal.version + 1
      BY <1>0, <2>1, <2>2, <3>1, OutcomeVersion DEF AmountOf
    <3>3. refused.bal.version = row.version + 1 => Outcome(refused, row, x)
      BY <2>2, <3>1, <3>2 DEF Outcome, AmountOf
    <3>4. BalOk(balances'[refused.account], refused, terms'[refused.id].amount)
      BY <2>1, <2>2, <3>1, <3>2, <3>3 DEF BalOk, WritePcs, HeldPcs
    <3>5. BalancesGrow /\ TermsStay
      BY <2>1 DEF BalancesGrow, TermsStay
    <3>6. LedgerInv'
      BY <2>1, <2>2, <2>5, <3>4, <3>5, BalanceStep DEF CreditPcs
    <3>. QED BY <2>1, <3>6, StillLedger
  <2>. QED BY <2>3, <2>4, <2>5
<1>12. CASE SaveFailing(h)
  <2>1. Still /\ work[h].pc = "failing" /\ Goto(h, "releasing")
    BY <1>12 DEF SaveFailing, ledger, rewardTables, At
  <2>2. PICK w : /\ Become(h, w) /\ w.pc = "releasing" /\ w.id = work[h].id
                 /\ w.account = acct /\ w.bal = work[h].bal
    BY <2>1, Carry
  <2>3. BalOk(balances'[w.account], w, terms'[w.id].amount)
    BY <1>0, <2>1, <2>2 DEF BalOk, WritePcs, HeldPcs, Outcome
  <2>4. BalancesGrow /\ TermsStay
    BY <2>1 DEF BalancesGrow, TermsStay
  <2>5. LedgerInv'
    BY <2>1, <2>2, <2>3, <2>4, BalanceStep DEF CreditPcs
  <2>. QED BY <2>1, <2>5, StillLedger
<1>13. CASE SaveReleasing(h)
  <2>1. /\ UNCHANGED <<terms, rewards>> /\ work[h].pc = "releasing" /\ Return(h)
        /\ work[h].pc \in WritePcs
    BY <1>13 DEF SaveReleasing, rewardTables, At, WritePcs
  <2>2. CASE UpdateBalance(h, "release")
    <3>1. WriteBalance(h) /\ UNCHANGED credited
      BY <2>2 DEF UpdateBalance
    <3>2. LedgerInv'
      BY <1>1, <1>2, <2>1, <3>1, WriteStep DEF Return
    <3>. QED BY <2>1, <2>2, <3>2, OperationLedger
  <2>3. CASE UpdateBalanceFails(h)
    BY <1>3, <2>1, <2>3 DEF UpdateBalanceFails, ledger
  <2>. QED BY <1>13, <2>2, <2>3 DEF SaveReleasing
<1>14. CASE \/ SaveDelegating(h) \/ PublishCreated(h) \/ SaveUnstaking(h)
            \/ PublishUnstakeRequested(h) \/ PublishBalanceCreated(h)
  <2>1. Still
    BY <1>14 DEF SaveDelegating, PublishCreated, SaveUnstaking, PublishUnstakeRequested,
                 PublishBalanceCreated, ledger, rewardTables
  <2>2. Return(h) \/ Goto(h, "publishCreated") \/ Goto(h, "publishUnstake")
    BY <1>14 DEF SaveDelegating, PublishCreated, SaveUnstaking, PublishUnstakeRequested,
                 PublishBalanceCreated
  <2>. HIDE DEF Still
  <2>. QED BY <1>3, <1>4, <2>1, <2>2
<1>15. CASE CallUnstake(h)
  <2>1. Still
    BY <1>15 DEF CallUnstake, ledger, rewardTables
  <2>. DEFINE asked == [work[h] EXCEPT !.stake = NextVersion(work[h].stake),
                                       !.pc = "saveUnstaking"]
  <2>2. asked.pc = "saveUnstaking"
    BY <1>0 DEF Workspace
  <2>3. Become(h, asked) \/ Return(h)
    BY <1>15, Zenon DEF CallUnstake
  <2>. HIDE DEF asked
  <2>. QED BY <1>1, <1>3, <2>1, <2>2, <2>3, PlainLedger
<1>16. CASE UpsertBalance(h)
  BY <1>0, <1>16 DEF UpsertBalance, At, BalOk
<1>17. CASE OverwriteBalance(h)
  <2>1. /\ UNCHANGED <<terms, rewards>> /\ work[h].pc = "overwrite" /\ Return(h)
        /\ work[h].pc \in WritePcs
    BY <1>17 DEF OverwriteBalance, rewardTables, At, WritePcs
  <2>2. CASE WriteBalance(h) /\ UNCHANGED <<moved, credited>>
    <3>1. LedgerInv'
      BY <1>1, <1>2, <2>1, <2>2, WriteStep DEF Return
    <3>2. /\ acct \in Accounts /\ row \in Balances
          /\ Outcome(work[h], row, x)
          /\ Funds[acct] = Buckets(row)
          /\ Funds' = [Funds EXCEPT ![acct] = Buckets(work[h].bal)]
      BY <2>1, <2>2, WriteOutcome
    <3>3. PICK y \in Deposits : /\ MaxVersion > 1
                               /\ work[h].bal = NextVersion([row EXCEPT !.available = y])
      BY <2>1, <3>2 DEF Outcome
    <3>4. Buckets(work[h].bal) = [Funds[acct] EXCEPT !.available = y]
      BY <3>2, <3>3, AvailableBuckets, ServiceAssumption
    <3>5. Ledger!DoSetAvailable(acct, y)
      BY <2>1, <2>2, <3>2, <3>4 DEF Ledger!DoSetAvailable, Funds
    <3>. QED BY <3>1, <3>2, <3>3, <3>5 DEF LedgerStep
  <2>3. CASE UpdateBalanceFails(h)
    BY <1>3, <2>1, <2>3 DEF UpdateBalanceFails, ledger
  <2>. QED BY <1>17, <2>2, <2>3 DEF OverwriteBalance
<1>. QED
  BY <1>5, <1>6, <1>7, <1>8, <1>9, <1>10, <1>11, <1>12, <1>13, <1>14, <1>15, <1>16, <1>17
     DEF Request, HandlerStep

-----------------------------------------------------------------------------
(* The steps of the pollers                                                *)

\* The reward a goroutine is about to credit: its row is not lost, and the
\* goroutine is the only one that credits it.
LEMMA CreditLedger ==
    ASSUME LedgerInv, MoveInv', NEW p \in Pollers, SaveReward(p), WriteBalance(p),
           NEW w, Become(p, w), w.pc \notin ClaimPcs,
           credited' = credited \cup {<<work[p].id, Entry(p).day>>}, UNCHANGED moved
    PROVE  LedgerInv' /\ LedgerStep
<1>. p \in Actors
  BY DEF Actors
<1>. DEFINE i == work[p].id
            e == Head(work[p].entries)
            acct == work[p].account
            row == balances[acct]
<1>1. /\ UNCHANGED <<terms, rewards>> /\ work[p].pc = "saveReward"
      /\ work[p].pc \in WritePcs /\ work[p].pc \in CreditPcs /\ work[p].pc \in StakePcs
  BY DEF SaveReward, rewardTables, At, WritePcs, CreditPcs, StakePcs, Pcs, PollerPcs
<1>2. /\ balances' = [balances EXCEPT ![acct] = work[p].bal]
      /\ work[p].bal.version = row.version + 1
  BY DEF WriteBalance, BalanceVersionMatches
<1>3. /\ balances \in [Accounts -> Balances] /\ acct = terms[i].account
      /\ CreditOk(rewards, credited, work[p])
  BY <1>1, LedgerReads
<1>4. /\ acct \in Accounts /\ row \in Balances
      /\ work[p].bal = NextVersion(AddReward(row, e.amount))
      /\ Funds[acct] = Buckets(row)
      /\ Funds' = [Funds EXCEPT ![acct] = Buckets(work[p].bal)]
  BY <1>1, WriteOutcome DEF Outcome
<1>5. PICK r \in rewards : r.stake = i /\ r.day = e.day /\ r.amount = e.amount
  BY <1>1, <1>3 DEF CreditOk
<1>6. <<r.stake, r.day>> \notin credited /\ credited' = credited \cup {<<r.stake, r.day>>}
  BY <1>1, <1>3, <1>5 DEF CreditOk, Entry
<1>7. LedgerStep
  <2>1. r.amount \in Nat
    BY <1>5 DEF LedgerInv, MoveInv, TableInv, TypeInv, TypeOK
  <2>2. Funds' = [Funds EXCEPT ![terms[r.stake].account] = Ledger!AddReward(@, r.amount)]
    <3>1. Buckets(work[p].bal) = Ledger!AddReward(Funds[acct], r.amount)
      <4>1. work[p].bal = NextVersion(AddReward(row, r.amount))
        BY <1>4, <1>5
      <4>2. row \in Balances /\ Funds[acct] = Buckets(row)
        BY <1>4
      <4>. HIDE DEF row
      <4>3. Buckets(NextVersion(AddReward(row, r.amount)))
              = Ledger!AddReward(Buckets(row), r.amount)
        BY <2>1, <4>2, AvailableBuckets
      <4>. QED BY <4>1, <4>2, <4>3
    <3>2. terms[r.stake].account = acct
      BY <1>3, <1>5
    <3>. HIDE DEF acct
    <3>. QED BY <1>4, <3>1, <3>2
  <2>3. Ledger!DoCredit(r)
    BY <1>1, <1>6, <2>2 DEF Ledger!DoCredit, Funds
  <2>. QED BY <1>5, <2>3 DEF LedgerStep, LedgerMove
<1>8. BalancesGrow /\ TermsStay
  BY <1>1, <1>2, <1>3 DEF BalancesGrow, TermsStay
<1>9. BalOk(balances'[w.account], w, terms'[w.id].amount) /\ CreditOk(rewards', credited', w)
  BY DEF BalOk, CreditOk, ClaimPcs
<1>10. ASSUME NEW b \in Actors \ {p}
       PROVE  CreditOk(rewards', credited', work[b]) /\ Single(w, work[b])
  <2>1. CreditOk(rewards, credited, work[b]) /\ Single(work[p], work[b])
    BY DEF LedgerInv
  <2>2. CreditOk(rewards', credited', work[b])
    BY <1>1, <1>5, <1>6, <2>1 DEF CreditOk, Single
  <2>. QED BY <2>2 DEF Single, ClaimPcs
<1>11. Recorded(rewards', credited')
  BY <1>1, <1>5, <1>6 DEF LedgerInv, Recorded
<1>12. LedgerInv'
  BY <1>8, <1>9, <1>10, <1>11, LedgerParts
<1>. QED BY <1>7, <1>12

\* A reward is recorded: UNIQUE (stake_id, reward_date) makes it the first of
\* its day, so nobody else can be about to credit it.
LEMMA RecordLedger ==
    ASSUME LedgerInv, MoveInv', NEW p \in Pollers, CreateReward(p),
           ~RewardExists(work[p].id, Entry(p).day),
           InsertReward([stake |-> work[p].id, day |-> Entry(p).day,
                         amount |-> Entry(p).amount, cumulative |-> work[p].total]),
           Goto(p, "addReward")
    PROVE  LedgerInv' /\ LedgerStep
<1>. p \in Actors
  BY DEF Actors
<1>. DEFINE i == work[p].id
            e == Head(work[p].entries)
            r == [stake |-> i, day |-> e.day, amount |-> e.amount,
                  cumulative |-> work[p].total]
<1>1. UNCHANGED <<terms, balances, moved, credited>> /\ rewards' = rewards \cup {r}
  BY DEF CreateReward, ledger, InsertReward, Entry
<1>2. PICK w : /\ Become(p, w) /\ w.pc = "addReward" /\ w.id = i
               /\ w.entries = work[p].entries
  BY Carry
<1>3. r.stake = i /\ r.day = e.day /\ r.amount = e.amount
  OBVIOUS
<1>4. \A q \in rewards : ~(q.stake = i /\ q.day = e.day)
  BY DEF RewardExists, Entry
<1>. HIDE DEF r
<1>5. CreditOk(rewards', credited', w)
  BY <1>1, <1>2, <1>3, <1>4 DEF CreditOk, LedgerInv, Recorded
<1>6. ASSUME NEW b \in Actors \ {p}
      PROVE  CreditOk(rewards', credited', work[b]) /\ Single(w, work[b])
  <2>1. CreditOk(rewards, credited, work[b])
    BY DEF LedgerInv
  <2>2. CreditOk(rewards', credited', work[b])
    BY <1>1, <2>1 DEF CreditOk
  <2>3. Single(w, work[b])
    BY <1>2, <1>4, <2>1 DEF CreditOk, Single
  <2>. QED BY <2>2, <2>3
<1>7. Recorded(rewards', credited')
  BY <1>1 DEF LedgerInv, Recorded
<1>8. BalOk(balances'[w.account], w, terms'[w.id].amount) /\ BalancesGrow /\ TermsStay
  BY <1>1, <1>2 DEF BalOk, WritePcs, HeldPcs, BalancesGrow, TermsStay
<1>9. LedgerInv'
  BY <1>2, <1>5, <1>6, <1>7, <1>8, LedgerParts
<1>10. Ledger!Record
  BY <1>1 DEF Ledger!Record
<1>. QED BY <1>9, <1>10 DEF LedgerStep, LedgerMove

\* The balance is read to credit a reward that was just recorded.
LEMMA FetchRewardLedger ==
    ASSUME LedgerInv, MoveInv', NEW p \in Pollers, FetchToReward(p),
           Adjust(p, AddReward(balances[work[p].account], Entry(p).amount), "saveReward")
    PROVE  LedgerInv' /\ LedgerStep
<1>. p \in Actors
  BY DEF Actors
<1>. DEFINE acct == work[p].account
            row == balances[acct]
            y == Head(work[p].entries).amount
<1>1. /\ UNCHANGED <<terms, balances, rewards, moved, credited>>
      /\ work[p].pc = "addReward" /\ work[p].pc \in CreditPcs /\ work[p].pc \in StakePcs
  BY DEF FetchToReward, ledger, rewardTables, At, CreditPcs, StakePcs, Pcs, PollerPcs
<1>2. acct \in Accounts /\ row \in Balances /\ CreditOk(rewards, credited, work[p])
  BY <1>1, LedgerReads
<1>3. y \in Nat
  BY <1>1, <1>2 DEF CreditOk, LedgerInv, MoveInv, TableInv, TypeInv, TypeOK
<1>4. PICK w : /\ Become(p, w) /\ w.pc = "saveReward" /\ w.id = work[p].id
               /\ w.account = acct /\ w.entries = work[p].entries
               /\ w.bal = NextVersion(AddReward(row, y))
  BY Carry DEF Entry
<1>5. w.bal.version = row.version + 1 /\ row.version \in Nat
  BY <1>2, <1>3, <1>4, OutcomeVersion DEF Balances
<1>6. Outcome(w, row, terms[w.id].amount)
  BY <1>4 DEF Outcome
<1>7. BalOk(balances'[w.account], w, terms'[w.id].amount)
  BY <1>1, <1>4, <1>5, <1>6 DEF BalOk, WritePcs, HeldPcs
<1>8. CreditOk(rewards', credited', w)
  BY <1>1, <1>2, <1>4 DEF CreditOk
<1>9. ASSUME NEW b \in Actors \ {p}
      PROVE  CreditOk(rewards', credited', work[b]) /\ Single(w, work[b])
  <2>1. CreditOk(rewards, credited, work[b]) /\ Single(work[p], work[b])
    BY DEF LedgerInv
  <2>. QED BY <1>1, <1>4, <2>1 DEF CreditOk, Single
<1>10. BalancesGrow /\ TermsStay /\ Recorded(rewards', credited')
  BY <1>1 DEF BalancesGrow, TermsStay, LedgerInv
<1>11. LedgerInv'
  BY <1>4, <1>7, <1>8, <1>9, <1>10, LedgerParts
<1>. QED BY <1>1, <1>11, StillLedger

\* A step of a poller.
LEMMA PollerLedger ==
    ASSUME LedgerInv, MoveInv', NEW p \in Pollers, PollerStep(p)
    PROVE  LedgerInv' /\ LedgerStep
<1>. p \in Actors
  BY DEF Actors
<1>. DEFINE Still == UNCHANGED <<terms, balances, rewards, moved, credited>>
            acct == work[p].account
            row == balances[acct]
            x == terms[work[p].id].amount
            Plain == {"idle", "delegating", "saveActive", "confirm", "publishActivated",
                      "saveFailed", "release", "publishFailed", "unstaking",
                      "saveWithdrawn", "complete", "publishWithdrawn", "rewards",
                      "readTotal", "createReward"}
<1>0. /\ work[p] \in Workspace /\ balances \in [Accounts -> Balances]
      /\ work[p].pc \in StakePcs => x \in Nat /\ acct \in Accounts /\ row \in Balances
  BY LedgerReads
<1>1. Plain \cap ClaimPcs = {}
  BY DEF ClaimPcs, WritePcs, HeldPcs, CreditPcs
<1>2. \A w : Still /\ Become(p, w) /\ w.pc \in Plain => LedgerInv' /\ LedgerStep
  BY <1>1, PlainLedger
<1>3. MoveInv
  BY DEF LedgerInv
<1>4. \A i : \A phase \in Plain : Still /\ DropStake(p, i, phase) => LedgerInv' /\ LedgerStep
  BY <1>2, <1>3, Onward
<1>5. \A phase \in Plain : Still /\ (Continue(p, phase) \/ Goto(p, phase))
                             => LedgerInv' /\ LedgerStep
  BY <1>2, <1>4, Carry DEF Continue
<1>6. Still /\ NextEntry(p) => LedgerInv' /\ LedgerStep
  BY <1>2, <1>3, Onward
<1>7. CASE ListDelegating(p) \/ ListUnstaking(p) \/ ListActive(p)
  <2>1. Still
    BY <1>7 DEF ListDelegating, ListUnstaking, ListActive, ledger, rewardTables
  <2>2. \A phase, list : [Idle EXCEPT !.pc = phase, !.list = list].pc = phase
    BY DEF Idle
  <2>3. \A state : \A phase \in Plain : List(p, state, phase) => LedgerInv' /\ LedgerStep
    BY <1>2, <2>1, <2>2 DEF List
  <2>. HIDE DEF Still
  <2>. QED BY <1>7, <2>3 DEF ListDelegating, ListUnstaking, ListActive
<1>8. CASE CheckDelegating(p) \/ CheckUnstaking(p)
  <2>1. Still
    BY <1>8 DEF CheckDelegating, CheckUnstaking, ledger, rewardTables
  <2>2. ASSUME NEW i, NEW s, NEW pc \in Plain, Reconcile(p, i, s, pc)
        PROVE  LedgerInv' /\ LedgerStep
    <3>. DEFINE w == [work[p] EXCEPT !.id = i, !.account = terms[i].account,
                                     !.stake = NextVersion(s), !.pc = pc]
    <3>1. w.pc = pc
      BY <1>0 DEF Workspace
    <3>2. Become(p, w)
      BY <2>2 DEF Reconcile
    <3>. HIDE DEF w, Plain, Still
    <3>. QED BY <1>2, <2>1, <2>2, <3>1, <3>2
  <2>. QED BY <1>4, <1>8, <2>1, <2>2 DEF CheckDelegating, CheckUnstaking
<1>9. CASE \/ SaveActive(p) \/ SaveFailed(p) \/ SaveWithdrawn(p) \/ PublishActivated(p)
           \/ PublishFailed(p) \/ PublishWithdrawn(p)
  <2>1. Still
    BY <1>9 DEF SaveActive, SaveFailed, SaveWithdrawn, PublishActivated, PublishFailed,
                PublishWithdrawn, ledger, rewardTables
  <2>2. \E phase \in Plain : Continue(p, phase) \/ Goto(p, phase)
    BY <1>9 DEF SaveActive, SaveFailed, SaveWithdrawn, PublishActivated, PublishFailed,
                PublishWithdrawn
  <2>. HIDE DEF Still, Plain
  <2>. QED BY <1>5, <2>1, <2>2
<1>10. CASE FetchToConfirm(p) \/ FetchToRelease(p) \/ FetchToComplete(p)
  <2>1. Still /\ work[p].pc \in StakePcs
    BY <1>10 DEF FetchToConfirm, FetchToRelease, FetchToComplete, ledger, rewardTables, At,
                 StakePcs, Pcs, PollerPcs
  <2>2. ASSUME NEW b, NEW pc \in WritePcs \ CreditPcs, Adjust(p, b, pc),
               NextVersion(b).version = row.version + 1,
               \A w : w.pc = pc /\ w.bal = NextVersion(b) => Outcome(w, row, x)
        PROVE  LedgerInv' /\ LedgerStep
    <3>1. PICK w : /\ Become(p, w) /\ w.pc = pc /\ w.id = work[p].id
                   /\ w.account = acct /\ w.bal = NextVersion(b)
      BY <2>2, Carry
    <3>2. Outcome(w, balances[w.account], terms'[w.id].amount)
      BY <2>1, <2>2, <3>1
    <3>3. LedgerInv'
      BY <1>0, <2>1, <2>2, <3>1, <3>2, FetchStep DEF TermsStay
    <3>. QED BY <2>1, <3>3, StillLedger
  <2>3. CASE MayConfirmStake(row, x) /\ Adjust(p, ConfirmStake(row, x), "saveConfirm")
    <3>1. NextVersion(ConfirmStake(row, x)).version = row.version + 1
      BY <1>0, <2>1, <2>3, OutcomeVersion
    <3>2. \A w : w.pc = "saveConfirm" /\ w.bal = NextVersion(ConfirmStake(row, x))
                   => Outcome(w, row, x)
      BY <2>3 DEF Outcome
    <3>. QED BY <2>2, <2>3, <3>1, <3>2 DEF WritePcs, CreditPcs
  <2>4. CASE MayReleaseHold(row, x) /\ Adjust(p, ReleaseHold(row, x), "saveRelease")
    <3>1. NextVersion(ReleaseHold(row, x)).version = row.version + 1
      BY <1>0, <2>1, OutcomeVersion
    <3>2. \A w : w.pc = "saveRelease" /\ w.bal = NextVersion(ReleaseHold(row, x))
                   => Outcome(w, row, x)
      BY <2>4 DEF Outcome
    <3>. QED BY <2>2, <2>4, <3>1, <3>2 DEF WritePcs, CreditPcs
  <2>5. CASE ~MayReleaseHold(row, x) /\ Adjust(p, ReleaseHold(row, x), "saveUnreleased")
    <3>1. ReleaseHold(row, x) = row
      BY <2>5 DEF ReleaseHold
    <3>2. NextVersion(ReleaseHold(row, x)).version = row.version + 1
      BY <1>0, <2>1, OutcomeVersion
    <3>3. \A w : w.pc = "saveUnreleased" /\ w.bal = NextVersion(ReleaseHold(row, x))
                   => Outcome(w, row, x)
      BY <3>1 DEF Outcome
    <3>. QED BY <2>2, <2>5, <3>2, <3>3 DEF WritePcs, CreditPcs
  <2>6. CASE MayCompleteUnstake(row, x) /\ Adjust(p, CompleteUnstake(row, x), "saveComplete")
    <3>1. NextVersion(CompleteUnstake(row, x)).version = row.version + 1
      BY <1>0, <2>1, <2>6, OutcomeVersion
    <3>2. \A w : w.pc = "saveComplete" /\ w.bal = NextVersion(CompleteUnstake(row, x))
                   => Outcome(w, row, x)
      BY <2>6 DEF Outcome
    <3>. QED BY <2>2, <2>6, <3>1, <3>2 DEF WritePcs, CreditPcs
  <2>7. CASE \E phase \in Plain : Continue(p, phase) \/ Goto(p, phase)
    BY <1>5, <2>1, <2>7
  <2>8. CASE FetchToConfirm(p)
    BY <2>3, <2>7, <2>8 DEF FetchToConfirm, AmountOf
  <2>9. CASE FetchToRelease(p)
    BY <2>4, <2>5, <2>7, <2>9 DEF FetchToRelease, AmountOf
  <2>10. CASE FetchToComplete(p)
    BY <2>6, <2>7, <2>10 DEF FetchToComplete, AmountOf
  <2>. QED BY <1>10, <2>8, <2>9, <2>10
<1>11. CASE SaveConfirm(p) \/ SaveRelease(p) \/ SaveComplete(p)
  <2>1. UNCHANGED <<terms, rewards>> /\ work[p].pc \in WritePcs
    BY <1>11 DEF SaveConfirm, SaveRelease, SaveComplete, rewardTables, At, WritePcs
  <2>2. PICK phase \in Plain : Continue(p, phase) \/ Goto(p, phase)
    BY <1>11 DEF SaveConfirm, SaveRelease, SaveComplete
  <2>3. PICK w : Become(p, w) /\ w.pc \in Plain
    BY <1>3, <2>2, Carry, Onward DEF Continue
  <2>4. CASE UpdateBalanceFails(p)
    <3>1. Still
      BY <2>1, <2>4 DEF UpdateBalanceFails, ledger
    <3>. HIDE DEF Plain, Still
    <3>. QED BY <1>2, <2>3, <3>1
  <2>5. ASSUME NEW op, UpdateBalance(p, op),
               \/ op = "confirm" /\ At(p, "saveConfirm")
               \/ op = "release" /\ At(p, "saveRelease")
               \/ op = "complete" /\ At(p, "saveComplete")
        PROVE  LedgerInv' /\ LedgerStep
    <3>1. WriteBalance(p) /\ UNCHANGED credited
      BY <2>5 DEF UpdateBalance
    <3>2. LedgerInv'
      BY <1>1, <2>1, <2>3, <3>1, WriteStep
    <3>. QED BY <2>1, <2>5, <3>2, OperationLedger DEF At
  <2>6. CASE At(p, "saveUnreleased") /\ WriteBalance(p) /\ UNCHANGED <<moved, credited>>
    <3>1. LedgerInv'
      BY <1>1, <2>1, <2>3, <2>6, WriteStep
    <3>2. /\ acct \in Accounts /\ row \in Balances /\ work[p].bal = NextVersion(row)
          /\ Funds[acct] = Buckets(row)
          /\ Funds' = [Funds EXCEPT ![acct] = Buckets(work[p].bal)]
      BY <2>1, <2>6, WriteOutcome DEF Outcome, At
    <3>3. Funds' = Funds
      <4>1. Funds' = [Funds EXCEPT ![acct] = Funds[acct]]
        BY <3>2, BucketsOf
      <4>. QED BY <3>2, <4>1 DEF Funds
    <3>. QED BY <2>1, <2>6, <3>1, <3>3 DEF LedgerStep, Ledger!ledgerVars, Funds
  <2>. QED BY <1>11, <2>4, <2>5, <2>6 DEF SaveConfirm, SaveRelease, SaveComplete
<1>12. CASE FetchRewards(p) \/ ReadTotal(p)
  <2>1. Still
    BY <1>12 DEF FetchRewards, ReadTotal, ledger, rewardTables
  <2>2. \A i, e, n :
           /\ [work[p] EXCEPT !.id = i, !.account = terms[i].account,
                              !.entries = e, !.pc = "readTotal"].pc = "readTotal"
           /\ [work[p] EXCEPT !.total = n, !.pc = "createReward"].pc = "createReward"
    BY <1>0 DEF Workspace
  <2>3. \A i, e, n :
           /\ Become(p, [work[p] EXCEPT !.id = i, !.account = terms[i].account,
                                        !.entries = e, !.pc = "readTotal"])
                => LedgerInv' /\ LedgerStep
           /\ Become(p, [work[p] EXCEPT !.total = n, !.pc = "createReward"])
                => LedgerInv' /\ LedgerStep
    BY <1>2, <2>1, <2>2
  <2>. QED BY <1>4, <1>6, <1>12, <2>1, <2>3 DEF FetchRewards, ReadTotal
<1>13. CASE CreateReward(p)
  <2>1. UNCHANGED rewardTables => Still
    BY <1>13 DEF CreateReward, ledger, rewardTables
  <2>. QED BY <1>6, <1>13, <2>1, RecordLedger DEF CreateReward
<1>14. CASE FetchToReward(p)
  <2>1. Still
    BY <1>14 DEF FetchToReward, ledger, rewardTables
  <2>. QED BY <1>6, <1>14, <2>1, FetchRewardLedger DEF FetchToReward
<1>15. CASE SaveReward(p)
  <2>1. UpdateBalanceFails(p) => Still
    BY <1>15 DEF SaveReward, UpdateBalanceFails, ledger, rewardTables
  <2>2. NextEntry(p)
    BY <1>15 DEF SaveReward
  <2>3. PICK w : Become(p, w) /\ w.pc \in Plain
    BY <1>3, <2>2, Onward
  <2>. QED BY <1>1, <1>6, <1>15, <2>1, <2>2, <2>3, CreditLedger DEF SaveReward
<1>16. CASE EndPoll(p)
  BY <1>2, <1>3, <1>16, Onward DEF EndPoll, ledger, rewardTables
<1>. QED
  BY <1>7, <1>8, <1>9, <1>10, <1>11, <1>12, <1>13, <1>14, <1>15, <1>16 DEF PollerStep

-----------------------------------------------------------------------------
(* The theorem                                                             *)

\* At the start every account has its opening balance, of version 1.
LEMMA InitLedger ==
    ASSUME Seeded = Accounts, Init
    PROVE  LedgerInv /\ Ledger!LedgerInit
<1>1. Idle.pc = "idle"
  BY DEF Idle
<1>2. /\ \A a \in Actors : work[a] = Idle
      /\ balances = [acct \in Accounts |-> [NewBalance EXCEPT !.available = Opening]]
      /\ rewards = {} /\ credited = {} /\ moved = [i \in StakeIds |-> {}]
      /\ terms = [i \in StakeIds |-> NoTerms]
  BY DEF Init, StoreInit
<1>. DEFINE b == [NewBalance EXCEPT !.available = Opening]
<1>3. NewBalance = [available |-> 0, staked |-> 0, pending |-> 0, version |-> 1]
  BY DEF NewBalance, NoBalance
<1>4. /\ b.version = 1 /\ b.available = Opening /\ b.staked = 0 /\ b.pending = 0
  BY <1>3
<1>5. \A acct \in Accounts : balances[acct].version >= 1
  <2>1. \A acct \in Accounts : balances[acct].version = 1
    BY <1>2, <1>4
  <2>. QED BY <2>1
<1>6. /\ \A a \in Actors : BalOk(balances[work[a].account], work[a], terms[work[a].id].amount)
      /\ \A a \in Actors : CreditOk(rewards, credited, work[a])
      /\ \A a, c \in Actors : a # c => Single(work[a], work[c])
      /\ Recorded(rewards, credited)
  BY <1>1, <1>2 DEF BalOk, CreditOk, Single, Recorded, WritePcs, HeldPcs, CreditPcs
<1>7. Ledger!LedgerInit
  BY <1>2, <1>4 DEF Ledger!LedgerInit, Buckets
<1>. QED BY <1>5, <1>6, <1>7, InitMoves DEF LedgerInv

\* Every step preserves the invariant and is a step of the ledger.
LEMMA NextLedger == LedgerInv /\ [Next]_vars => LedgerInv' /\ LedgerStep
<1>. SUFFICES ASSUME LedgerInv, [Next]_vars
              PROVE  LedgerInv' /\ LedgerStep
  OBVIOUS
<1>1. MoveInv /\ MoveInv'
  BY NextMoves DEF LedgerInv
<1>2. ASSUME NEW a \in Actors, Abandon(a)
      PROVE  LedgerInv' /\ LedgerStep
  <2>1. "idle" \notin ClaimPcs
    BY DEF ClaimPcs, WritePcs, HeldPcs, CreditPcs
  <2>2. UNCHANGED <<terms, balances, rewards, moved, credited>> /\ Return(a)
    BY <1>2 DEF Abandon, ledger, rewardTables
  <2>. QED BY <1>1, <2>1, <2>2, Onward, PlainLedger
<1>3. CASE Crash
  <2>1. /\ UNCHANGED <<terms, balances, rewards, moved, credited>>
        /\ \A a \in Actors : work'[a] = Idle
    BY <1>3 DEF Crash, ledger, rewardTables
  <2>2. Idle.pc = "idle"
    BY DEF Idle
  <2>3. /\ \A a \in Actors : BalOk(balances'[work'[a].account], work'[a],
                                    terms'[work'[a].id].amount)
        /\ \A a \in Actors : CreditOk(rewards', credited', work'[a])
        /\ \A a, b \in Actors : Single(work'[a], work'[b])
    BY <2>1, <2>2 DEF BalOk, CreditOk, Single, WritePcs, HeldPcs, CreditPcs
  <2>. QED BY <1>1, <2>1, <2>3, StillLedger
           DEF LedgerInv, BalOk, Outcome, CreditOk, Single, Recorded
<1>4. CASE Environment \/ UNCHANGED vars
  <2>1. UNCHANGED <<terms, balances, rewards, moved, credited, work>>
    BY <1>4 DEF Environment, vars, ledger, rewardTables
  <2>. QED BY <1>1, <2>1, StillLedger
           DEF LedgerInv, BalOk, Outcome, CreditOk, Single, Recorded
<1>. QED BY <1>1, <1>2, <1>3, <1>4, HandlerLedger, PollerLedger DEF Next

\* Whatever handlers and pollers race for a balance, and whatever fails: the
\* balances table changes as if each operation were one atomic step on the
\* current row, no update is lost, no stake is held, confirmed, released or
\* completed twice, and a reward is credited at most once.  All accounts have
\* a balance at the start: without a row there is no version to compare.
THEOREM LedgerImplemented ==
    ASSUME Seeded = Accounts
    PROVE  Spec => LedgerRefined
<1>1. Init => LedgerInv /\ Ledger!LedgerInit
  BY InitLedger
<1>2. LedgerInv /\ [Next]_vars => LedgerInv' /\ [Ledger!LedgerNext]_(Ledger!ledgerVars)
  BY NextLedger DEF LedgerStep, LedgerMove, Ledger!LedgerNext
<1>. QED BY <1>1, <1>2, PTL DEF Spec, LedgerRefined, Ledger!LedgerSpec

-----------------------------------------------------------------------------
(* The rewards table                                                       *)

\* Finitely many rows, one for each stake and day.
UniqueRewards ==
    /\ IsFiniteSet(rewards)
    /\ \A q, r \in rewards : q.stake = r.stake /\ q.day = r.day => q = r

\* What CreateReward inserts.
NewReward(p) ==
    [stake |-> work[p].id, day |-> Entry(p).day, amount |-> Entry(p).amount,
     cumulative |-> work[p].total]

\* Only CreateReward inserts a reward, where UNIQUE (stake_id, reward_date)
\* lets it.
LEMMA RewardsStep ==
    ASSUME [Next]_vars
    PROVE  \/ UNCHANGED rewardTables
           \/ \E p \in Pollers : /\ CreateReward(p)
                                 /\ ~RewardExists(work[p].id, Entry(p).day)
                                 /\ InsertReward(NewReward(p))
                                 /\ Goto(p, "addReward")
<1>1. ASSUME NEW h \in Handlers, Request(h) \/ HandlerStep(h)
      PROVE  UNCHANGED rewardTables
  BY <1>1 DEF Request, HandlerStep, BeginCreateStake, BeginUnstake, BeginSetBalance,
     FetchBalance, SaveHold, InsertStake, CallStake, SaveFailing, SaveReleasing,
     SaveDelegating, PublishCreated, CallUnstake, SaveUnstaking, PublishUnstakeRequested,
     UpsertBalance, PublishBalanceCreated, OverwriteBalance
<1>2. ASSUME NEW p \in Pollers, PollerStep(p), ~CreateReward(p)
      PROVE  UNCHANGED rewardTables
  BY <1>2 DEF PollerStep, ListDelegating, CheckDelegating, SaveActive, FetchToConfirm,
     SaveConfirm, PublishActivated, SaveFailed, FetchToRelease, SaveRelease, PublishFailed,
     ListUnstaking, CheckUnstaking, SaveWithdrawn, FetchToComplete, SaveComplete,
     PublishWithdrawn, ListActive, FetchRewards, ReadTotal, FetchToReward, SaveReward, EndPoll
<1>3. CASE UNCHANGED vars \/ Crash \/ Environment \/ \E a \in Actors : Abandon(a)
  BY <1>3 DEF vars, Crash, Environment, Abandon
<1>4. ASSUME NEW p \in Pollers, CreateReward(p)
      PROVE  \/ UNCHANGED rewardTables
             \/ /\ ~RewardExists(work[p].id, Entry(p).day)
                /\ InsertReward(NewReward(p))
                /\ Goto(p, "addReward")
  BY <1>4 DEF CreateReward, NewReward
<1>. QED BY <1>1, <1>2, <1>3, <1>4 DEF Next

\* So there is one row for each stake and day.
LEMMA UniqueStays ==
    ASSUME UniqueRewards, [Next]_vars
    PROVE  UniqueRewards'
<1>1. CASE UNCHANGED rewardTables
  BY <1>1 DEF UniqueRewards, rewardTables
<1>2. ASSUME NEW p \in Pollers, ~RewardExists(work[p].id, Entry(p).day),
             InsertReward(NewReward(p))
      PROVE  UniqueRewards'
  <2>. DEFINE r == NewReward(p)
  <2>1. rewards' = rewards \cup {r} /\ r.stake = work[p].id /\ r.day = Entry(p).day
    BY <1>2 DEF InsertReward, NewReward
  <2>2. \A q \in rewards : ~(q.stake = r.stake /\ q.day = r.day)
    BY <1>2, <2>1 DEF RewardExists
  <2>. HIDE DEF r
  <2>3. IsFiniteSet(rewards')
    BY <2>1, FS_AddElement DEF UniqueRewards
  <2>. QED BY <2>1, <2>2, <2>3 DEF UniqueRewards
<1>. QED BY <1>1, <1>2, RewardsStep

-----------------------------------------------------------------------------
(* Every unit is accounted for                                             *)

\* The rewards are of stakes that exist.
RewardRows ==
    /\ UniqueRewards
    /\ \A r \in rewards : Created(r.stake)

\* The equations of FundsAccounted for the balance of one account.
Books(acct) ==
    LET b == Funds[acct] IN
    /\ b.pending + TotalOf("confirm", acct) + TotalOf("release", acct)
         = TotalOf("hold", acct)
    /\ b.staked + TotalOf("complete", acct) = TotalOf("confirm", acct)
    /\ MaxVersion <= 1 =>
          b.available + TotalOf("hold", acct)
            = Opening + TotalOf("release", acct) + TotalOf("complete", acct)
                + CreditedTo(acct)

FundsInv ==
    /\ LedgerInv
    /\ RewardRows
    /\ \A acct \in Accounts : Books(acct)

\* The stakes of an account that an operation was saved for.
Done(op, acct) == {i \in StakesOf(acct) : op \in moved[i]}

\* The rewards that were added to the balance of an account.
Paid(acct) == {r \in rewards : <<r.stake, r.day>> \in credited /\ terms[r.stake].account = acct}

\* A stake whose operations were saved exists; the amounts of stakes and of
\* rewards are natural numbers, and there are finitely many of either.
LEMMA Summable ==
    ASSUME LedgerInv, RewardRows, NEW op, NEW acct
    PROVE  /\ IsFiniteSet(Done(op, acct)) /\ Done(op, acct) \subseteq StakeIds
           /\ \A i \in StakeIds : StakeAmounts[i] \in Nat
           /\ \A i \in Done(op, acct) : Created(i)
           /\ TotalOf(op, acct) = SumOver(StakeAmounts, Done(op, acct))
           /\ TotalOf(op, acct) \in Nat
           /\ IsFiniteSet(Paid(acct)) /\ Paid(acct) \subseteq rewards
           /\ \A r \in rewards : RewardAmounts[r] = r.amount /\ r.amount \in Nat
           /\ CreditedTo(acct) = SumOver(RewardAmounts, Paid(acct))
           /\ CreditedTo(acct) \in Nat
<1>1. IsFiniteSet(StakeIds)
  BY FS_Interval, StoreAssumption DEF StakeIds
<1>2. IsFiniteSet(Done(op, acct)) /\ Done(op, acct) \subseteq StakeIds
  BY <1>1, FS_Subset DEF Done, StakesOf
<1>3. \A i \in StakeIds : terms[i].amount \in Nat
  <2>1. \A i \in StakeIds : terms[i] \in Terms \cup {NoTerms}
    BY DEF LedgerInv, MoveInv, TableInv, TypeInv, TypeOK
  <2>2. NoTerms.amount = 0
    BY DEF NoTerms
  <2>3. \A t \in Terms : t.amount \in Nat
    BY StoreAssumption DEF Terms
  <2>. QED BY <2>1, <2>2, <2>3
<1>4. \A i \in StakeIds : StakeAmounts[i] \in Nat
  BY <1>3 DEF StakeAmounts
<1>5. \A i \in Done(op, acct) : Created(i)
  BY DEF Done, StakesOf, LedgerInv, MoveInv
<1>6. TotalOf(op, acct) = SumOver(StakeAmounts, Done(op, acct))
  BY DEF TotalOf, Done
<1>7. TotalOf(op, acct) \in Nat
  BY <1>2, <1>4, <1>6, SumType
<1>8. IsFiniteSet(Paid(acct)) /\ Paid(acct) \subseteq rewards
  BY FS_Subset DEF Paid, RewardRows, UniqueRewards
<1>9. \A r \in rewards : RewardAmounts[r] = r.amount /\ r.amount \in Nat
  <2>1. \A r \in rewards : r.amount \in Nat
    BY DEF LedgerInv, MoveInv, TableInv, TypeInv, TypeOK
  <2>. QED BY <2>1 DEF RewardAmounts
<1>10. CreditedTo(acct) = SumOver(RewardAmounts, Paid(acct))
  BY DEF CreditedTo, Paid
<1>11. CreditedTo(acct) \in Nat
  BY <1>8, <1>9, <1>10, SumType
<1>. QED BY <1>2, <1>4, <1>5, <1>6, <1>7, <1>8, <1>9, <1>10, <1>11

\* A total depends on the operations of the stakes that exist.
LEMMA TotalStays ==
    ASSUME LedgerInv, RewardRows, LedgerInv', RewardRows', TermsStay, NEW op, NEW acct,
           \A i \in StakeIds : op \in moved'[i] <=> op \in moved[i]
    PROVE  TotalOf(op, acct)' = TotalOf(op, acct)
<1>1. \A i \in StakeIds : op \in moved[i] => terms'[i] = terms[i]
  BY DEF LedgerInv, MoveInv, TermsStay
<1>2. Done(op, acct)' = Done(op, acct)
  BY <1>1 DEF Done, StakesOf
<1>3. \A i \in Done(op, acct) : StakeAmounts[i] \in Nat /\ StakeAmounts[i] = StakeAmounts'[i]
  BY <1>1, Summable DEF Done, StakesOf, StakeAmounts
<1>4. IsFiniteSet(Done(op, acct))
  BY Summable
<1>5. SumOver(StakeAmounts', Done(op, acct)) = SumOver(StakeAmounts, Done(op, acct))
  BY <1>3, <1>4, SumSame
<1>6. TotalOf(op, acct)' = SumOver(StakeAmounts', Done(op, acct)')
  BY DEF TotalOf, Done
<1>7. TotalOf(op, acct) = SumOver(StakeAmounts, Done(op, acct))
  BY Summable
<1>. QED BY <1>2, <1>5, <1>6, <1>7, Zenon

\* Saving an operation of a stake adds its amount to that total of its
\* account, and to no other.
LEMMA TotalGrows ==
    ASSUME LedgerInv, RewardRows, LedgerInv', RewardRows', UNCHANGED terms,
           NEW i \in StakeIds, NEW op, op \notin moved[i],
           moved' = [moved EXCEPT ![i] = @ \cup {op}]
    PROVE  \A acct : /\ \A o : o # op => TotalOf(o, acct)' = TotalOf(o, acct)
                     /\ acct # terms[i].account => TotalOf(op, acct)' = TotalOf(op, acct)
                     /\ acct = terms[i].account =>
                           TotalOf(op, acct)' = TotalOf(op, acct) + terms[i].amount
<1>. SUFFICES ASSUME NEW acct
              PROVE  /\ \A o : o # op => TotalOf(o, acct)' = TotalOf(o, acct)
                     /\ acct # terms[i].account => TotalOf(op, acct)' = TotalOf(op, acct)
                     /\ acct = terms[i].account =>
                           TotalOf(op, acct)' = TotalOf(op, acct) + terms[i].amount
  OBVIOUS
<1>1. moved \in Histories /\ TermsStay
  BY DEF LedgerInv, MoveInv, TableInv, TypeInv, TypeOK, Histories, TermsStay
<1>2. moved'[i] = moved[i] \cup {op} /\ \A j \in StakeIds : j # i => moved'[j] = moved[j]
  BY <1>1 DEF Histories
<1>3. ASSUME NEW o, o # op
      PROVE  TotalOf(o, acct)' = TotalOf(o, acct)
  <2>1. \A j \in StakeIds : o \in moved'[j] <=> o \in moved[j]
    BY <1>2, <1>3
  <2>. QED BY <1>1, <2>1, TotalStays
<1>4. /\ IsFiniteSet(Done(op, acct)) /\ \A j \in StakeIds : StakeAmounts[j] \in Nat
      /\ Done(op, acct) \subseteq StakeIds
      /\ TotalOf(op, acct) = SumOver(StakeAmounts, Done(op, acct))
  BY Summable
<1>5. StakeAmounts' = StakeAmounts /\ StakeAmounts[i] = terms[i].amount
  BY DEF StakeAmounts
<1>6. TotalOf(op, acct)' = SumOver(StakeAmounts, Done(op, acct)')
  BY <1>5 DEF TotalOf, Done
<1>7. CASE acct # terms[i].account
  <2>1. Done(op, acct)' = Done(op, acct)
    BY <1>2, <1>7 DEF Done, StakesOf
  <2>. QED BY <1>3, <1>4, <1>6, <1>7, <2>1
<1>8. CASE acct = terms[i].account
  <2>1. Done(op, acct)' = Done(op, acct) \cup {i} /\ i \notin Done(op, acct)
    BY <1>2, <1>8 DEF Done, StakesOf
  <2>2. SumOver(StakeAmounts, Done(op, acct) \cup {i})
          = SumOver(StakeAmounts, Done(op, acct)) + StakeAmounts[i]
    <3>. HIDE DEF Done, StakeAmounts
    <3>. QED BY <1>4, <2>1, SumAdd
  <2>. QED BY <1>3, <1>4, <1>5, <1>6, <1>8, <2>1, <2>2
<1>. QED BY <1>7, <1>8

\* The terms of a stake are not changed by a step of the ledger.
LEMMA LedgerTerms ==
    ASSUME LedgerStep
    PROVE  TermsStay
<1>1. CASE UNCHANGED terms
  BY <1>1 DEF TermsStay
<1>2. ASSUME NEW i \in StakeIds, Ledger!Agree(i)
      PROVE  TermsStay
  BY <1>2 DEF Ledger!Agree, TermsStay, Created, NoTerms
<1>. QED
  BY <1>1, <1>2 DEF LedgerStep, LedgerMove, Ledger!ledgerVars, Ledger!Record, Ledger!DoCredit,
     Ledger!DoSetAvailable, Ledger!DoHold, Ledger!DoConfirm, Ledger!DoRelease,
     Ledger!DoComplete, Ledger!Apply

\* The rewards table stays rows of stakes that exist.
LEMMA RowsStay ==
    ASSUME LedgerInv, RewardRows, TermsStay, [Next]_vars
    PROVE  RewardRows'
<1>1. \A r \in rewards : r.stake \in StakeIds /\ Created(r.stake)'
  BY DEF RewardRows, LedgerInv, MoveInv, TableInv, TypeInv, TypeOK, TermsStay, Created
<1>2. UniqueRewards'
  BY UniqueStays DEF RewardRows
<1>3. CASE UNCHANGED rewardTables
  BY <1>1, <1>2, <1>3 DEF RewardRows, rewardTables, Created
<1>4. ASSUME NEW p \in Pollers, CreateReward(p), InsertReward(NewReward(p))
      PROVE  RewardRows'
  <2>. DEFINE r == NewReward(p)
  <2>1. rewards' = rewards \cup {r} /\ r.stake = work[p].id
    BY <1>4 DEF InsertReward, NewReward
  <2>2. r.stake \in StakeIds /\ terms'[r.stake] # NoTerms
    <3>1. p \in Actors /\ work[p].pc \in StakePcs
      BY <1>4 DEF CreateReward, At, Actors, StakePcs, Pcs, PollerPcs
    <3>. QED BY <2>1, <3>1, LedgerReads DEF TermsStay, Created
  <2>. HIDE DEF r
  <2>. QED BY <1>1, <1>2, <2>1, <2>2 DEF RewardRows, Created
<1>. QED BY <1>3, <1>4, RewardsStep

\* A reward that is recorded is not credited yet, so the totals of what is
\* credited stay.
LEMMA CreditedStays ==
    ASSUME LedgerInv, RewardRows, LedgerInv', RewardRows', TermsStay, NEW acct,
           rewards \subseteq rewards', UNCHANGED credited
    PROVE  CreditedTo(acct)' = CreditedTo(acct)
<1>1. ASSUME NEW r \in rewards', <<r.stake, r.day>> \in credited
      PROVE  r \in rewards
  <2>1. PICK q \in rewards : <<r.stake, r.day>> = <<q.stake, q.day>>
    BY <1>1 DEF LedgerInv, Recorded
  <2>2. r.stake = q.stake /\ r.day = q.day
    BY <2>1
  <2>. QED BY <2>2 DEF RewardRows, UniqueRewards
<1>2. \A r \in rewards : terms'[r.stake] = terms[r.stake]
  BY DEF RewardRows, TermsStay, LedgerInv, MoveInv, TableInv, TypeInv, TypeOK
<1>3. Paid(acct)' = Paid(acct)
  BY <1>1, <1>2 DEF Paid
<1>4. /\ IsFiniteSet(Paid(acct)) /\ Paid(acct) \subseteq rewards
      /\ \A r \in rewards : RewardAmounts[r] = r.amount /\ r.amount \in Nat
      /\ CreditedTo(acct) = SumOver(RewardAmounts, Paid(acct))
  BY Summable
<1>5. \A r \in rewards : RewardAmounts'[r] = r.amount
  BY DEF RewardAmounts
<1>6. SumOver(RewardAmounts, Paid(acct)) = SumOver(RewardAmounts', Paid(acct))
  BY <1>4, <1>5, SumSame
<1>7. CreditedTo(acct)' = SumOver(RewardAmounts', Paid(acct)')
  BY DEF CreditedTo, Paid
<1>. QED BY <1>3, <1>4, <1>6, <1>7, Zenon

\* A reward that is credited adds its amount to what its account was
\* credited.
LEMMA CreditedGrows ==
    ASSUME LedgerInv, RewardRows, UNCHANGED <<terms, rewards>>,
           NEW r \in rewards, <<r.stake, r.day>> \notin credited,
           credited' = credited \cup {<<r.stake, r.day>>}, NEW acct
    PROVE  /\ acct # terms[r.stake].account => CreditedTo(acct)' = CreditedTo(acct)
           /\ acct = terms[r.stake].account =>
                 CreditedTo(acct)' = CreditedTo(acct) + r.amount
<1>1. /\ IsFiniteSet(Paid(acct)) /\ Paid(acct) \subseteq rewards
      /\ \A q \in rewards : RewardAmounts[q] = q.amount /\ q.amount \in Nat
      /\ CreditedTo(acct) = SumOver(RewardAmounts, Paid(acct))
  BY Summable
<1>2. CreditedTo(acct)' = SumOver(RewardAmounts, Paid(acct)')
  BY DEF CreditedTo, Paid, RewardAmounts
<1>3. \A q \in rewards : <<q.stake, q.day>> \in credited'
                            <=> <<q.stake, q.day>> \in credited \/ q = r
  <2>1. \A q \in rewards : <<q.stake, q.day>> = <<r.stake, r.day>> => q = r
    BY DEF RewardRows, UniqueRewards
  <2>. QED BY <2>1
<1>4. CASE acct # terms[r.stake].account
  <2>1. Paid(acct)' = Paid(acct)
    BY <1>3, <1>4 DEF Paid
  <2>. QED BY <1>1, <1>2, <1>4, <2>1
<1>5. CASE acct = terms[r.stake].account
  <2>1. Paid(acct)' = Paid(acct) \cup {r} /\ r \notin Paid(acct)
    BY <1>3, <1>5 DEF Paid
  <2>2. SumOver(RewardAmounts, Paid(acct) \cup {r})
          = SumOver(RewardAmounts, Paid(acct)) + RewardAmounts[r]
    <3>. HIDE DEF Paid, RewardAmounts
    <3>. QED BY <1>1, <2>1, SumAdd
  <2>. QED BY <1>1, <1>2, <1>5, <2>1, <2>2
<1>. QED BY <1>4, <1>5

\* The buckets of every account, and of one that is written.
LEMMA FundsType ==
    ASSUME LedgerInv
    PROVE  /\ \A acct \in Accounts : Funds[acct] \in BucketSets
           /\ \A f \in BucketSets : f.available \in Nat /\ f.staked \in Nat /\ f.pending \in Nat
<1>1. \A acct \in Accounts : balances[acct] \in Balances
  BY DEF LedgerInv, MoveInv, TableInv, TypeInv, TypeOK
<1>2. \A acct \in Accounts : Funds[acct] = Buckets(balances[acct])
  BY DEF Funds
<1>3. \A f \in BucketSets : f.available \in Nat /\ f.staked \in Nat /\ f.pending \in Nat
  BY DEF BucketSets
<1>. QED BY <1>1, <1>2, <1>3, BucketsOf

\* An operation of a stake moves its amount between two buckets of its
\* account, and adds it to the total that says so.
LEMMA OperationBooks ==
    ASSUME FundsInv, LedgerInv', RewardRows', NEW i \in StakeIds,
           Ledger!DoHold(i) \/ Ledger!DoConfirm(i) \/ Ledger!DoRelease(i)
             \/ Ledger!DoComplete(i),
           NEW acct \in Accounts
    PROVE  Books(acct)'
<1>. DEFINE mine == terms[i].account
            x == terms[i].amount
            f == Funds[mine]
<1>1. PICK op, b :
         /\ op \in Moves
         /\ Ledger!Apply(i, op, b)
         /\ op \notin moved[i]
         /\ \/ op = "hold" /\ b = Ledger!Hold(f, x)
            \/ op = "confirm" /\ b = Ledger!ConfirmStake(f, x)
            \/ op = "release" /\ b = Ledger!ReleaseHold(f, x) /\ Ledger!MayReleaseHold(f, x)
            \/ op = "complete" /\ b = Ledger!CompleteUnstake(f, x)
         /\ op = "hold" => f.available >= x
         /\ op \in {"confirm", "release"} => f.pending >= x
         /\ op = "complete" => f.staked >= x
  <2>1. Ledger!FundsOf(i) = f
    BY DEF Ledger!FundsOf, Funds, Buckets, Ledger!Buckets
  <2>. HIDE DEF f, x
  <2>. QED
    BY <2>1 DEF Ledger!DoHold, Ledger!DoConfirm, Ledger!DoRelease, Ledger!DoComplete,
       Ledger!MayHold, Ledger!MayConfirmStake, Ledger!MayReleaseHold,
       Ledger!MayCompleteUnstake, Moves, x
<1>2. /\ UNCHANGED <<terms, rewards, credited>>
      /\ moved' = [moved EXCEPT ![i] = @ \cup {op}]
      /\ Funds' = [Funds EXCEPT ![mine] = b]
  BY <1>1 DEF Ledger!Apply, Funds, Buckets, Ledger!Buckets
<1>3. LedgerInv /\ RewardRows /\ Books(acct) /\ TermsStay
  BY <1>2 DEF FundsInv, TermsStay
<1>4. /\ \A o : o # op => TotalOf(o, acct)' = TotalOf(o, acct)
      /\ acct # mine => TotalOf(op, acct)' = TotalOf(op, acct)
      /\ acct = mine => TotalOf(op, acct)' = TotalOf(op, acct) + x
  BY <1>1, <1>2, <1>3, TotalGrows
<1>5. CreditedTo(acct)' = CreditedTo(acct)
  BY <1>2, <1>3, CreditedStays
<1>6. CreditedTo(acct) \in Nat /\ \A o : TotalOf(o, acct) \in Nat
  BY <1>3, Summable
<1>7. CASE acct # mine
  <2>1. Funds'[acct] = Funds[acct]
    BY <1>2, <1>7
  <2>2. \A o : TotalOf(o, acct)' = TotalOf(o, acct)
    BY <1>4, <1>7
  <2>. QED BY <1>3, <1>5, <2>1, <2>2 DEF Books
<1>8. CASE acct = mine
  <2>1. f \in BucketSets /\ f.available \in Nat /\ f.staked \in Nat /\ f.pending \in Nat
    BY <1>3, <1>8, FundsType
  <2>2. Funds'[acct] = b
    BY <1>2, <1>8 DEF Funds
  <2>3. x \in Nat
    BY <1>3, Summable DEF StakeAmounts
  <2>. DEFINE A == f.available
              S == f.staked
              P == f.pending
  <2>4. /\ op = "hold" => b.available = A - x /\ b.pending = P + x /\ b.staked = S
        /\ op = "confirm" => b.available = A /\ b.pending = P - x /\ b.staked = S + x
        /\ op = "release" => b.available = A + x /\ b.pending = P - x /\ b.staked = S
        /\ op = "complete" => b.available = A + x /\ b.pending = P /\ b.staked = S - x
    <3>. HIDE DEF f, x, mine
    <3>. QED BY <1>1, <2>1 DEF BucketSets, Ledger!Hold, Ledger!ConfirmStake,
                Ledger!ReleaseHold, Ledger!CompleteUnstake
  <2>. DEFINE hold == TotalOf("hold", acct)
              confirm == TotalOf("confirm", acct)
              release == TotalOf("release", acct)
              complete == TotalOf("complete", acct)
              credit == CreditedTo(acct)
  <2>5. /\ P + confirm + release = hold
        /\ S + complete = confirm
        /\ MaxVersion <= 1 => A + hold = Opening + release + complete + credit
    BY <1>3, <1>8 DEF Books
  <2>6. /\ TotalOf("hold", acct)' = IF op = "hold" THEN hold + x ELSE hold
        /\ TotalOf("confirm", acct)' = IF op = "confirm" THEN confirm + x ELSE confirm
        /\ TotalOf("release", acct)' = IF op = "release" THEN release + x ELSE release
        /\ TotalOf("complete", acct)' = IF op = "complete" THEN complete + x ELSE complete
        /\ CreditedTo(acct)' = credit
    BY <1>4, <1>5, <1>8
  <2>7. /\ hold \in Nat /\ confirm \in Nat /\ release \in Nat /\ complete \in Nat
        /\ credit \in Nat /\ A \in Nat /\ S \in Nat /\ P \in Nat /\ Opening \in Nat
        /\ (op = "hold" => A >= x) /\ (op = "complete" => S >= x)
        /\ (op \in {"confirm", "release"} => P >= x)
    BY <1>1, <1>6, <2>1, SystemAssumption
  <2>8. Books(acct)' <=>
          /\ b.pending + TotalOf("confirm", acct)' + TotalOf("release", acct)'
               = TotalOf("hold", acct)'
          /\ b.staked + TotalOf("complete", acct)' = TotalOf("confirm", acct)'
          /\ MaxVersion <= 1 =>
                b.available + TotalOf("hold", acct)'
                  = Opening + TotalOf("release", acct)' + TotalOf("complete", acct)'
                      + CreditedTo(acct)'
    BY <2>2 DEF Books
  <2>. HIDE DEF A, S, P, hold, confirm, release, complete, credit, x, f, mine
  <2>9. op \in {"hold", "confirm", "release", "complete"}
    BY <1>1 DEF Moves
  <2>10. CASE op = "hold"
    BY <2>3, <2>4, <2>5, <2>6, <2>7, <2>8, <2>10
  <2>11. CASE op = "confirm"
    BY <2>3, <2>4, <2>5, <2>6, <2>7, <2>8, <2>11
  <2>12. CASE op = "release"
    BY <2>3, <2>4, <2>5, <2>6, <2>7, <2>8, <2>12
  <2>13. CASE op = "complete"
    BY <2>3, <2>4, <2>5, <2>6, <2>7, <2>8, <2>13
  <2>. QED BY <2>9, <2>10, <2>11, <2>12, <2>13
<1>. QED BY <1>7, <1>8

\* Crediting a reward adds its amount to available and to what was credited.
LEMMA CreditBooks ==
    ASSUME FundsInv, LedgerInv', RewardRows', NEW r \in rewards, Ledger!DoCredit(r),
           NEW acct \in Accounts
    PROVE  Books(acct)'
<1>. DEFINE mine == terms[r.stake].account
            b == Ledger!AddReward(Funds[mine], r.amount)
<1>1. /\ UNCHANGED <<terms, rewards, moved>>
      /\ <<r.stake, r.day>> \notin credited
      /\ credited' = credited \cup {<<r.stake, r.day>>}
      /\ Funds' = [Funds EXCEPT ![mine] = b]
  BY DEF Ledger!DoCredit, Funds, Buckets, Ledger!Buckets
<1>2. LedgerInv /\ RewardRows /\ Books(acct) /\ TermsStay
  BY <1>1 DEF FundsInv, TermsStay
<1>3. \A o : TotalOf(o, acct)' = TotalOf(o, acct)
  BY <1>1, <1>2, TotalStays
<1>4. /\ acct # mine => CreditedTo(acct)' = CreditedTo(acct)
      /\ acct = mine => CreditedTo(acct)' = CreditedTo(acct) + r.amount
  BY <1>1, <1>2, CreditedGrows
<1>5. /\ CreditedTo(acct) \in Nat /\ r.amount \in Nat
      /\ \A o : TotalOf(o, acct) \in Nat
  BY <1>2, Summable
<1>6. CASE acct # mine
  <2>1. Funds'[acct] = Funds[acct] /\ CreditedTo(acct)' = CreditedTo(acct)
    BY <1>1, <1>4, <1>6
  <2>. QED BY <1>2, <1>3, <2>1 DEF Books
<1>7. CASE acct = mine
  <2>. DEFINE f == Funds[acct]
  <2>1. f \in BucketSets /\ f.available \in Nat
    BY <1>2, FundsType
  <2>2. Funds'[acct] = Ledger!AddReward(f, r.amount)
    BY <1>1, <1>7 DEF Funds
  <2>. HIDE DEF f
  <2>3. /\ Funds'[acct].available = f.available + r.amount
        /\ Funds'[acct].staked = f.staked /\ Funds'[acct].pending = f.pending
    BY <2>1, <2>2 DEF BucketSets, Ledger!AddReward
  <2>4. CreditedTo(acct)' = CreditedTo(acct) + r.amount
    BY <1>4, <1>7
  <2>. QED BY <1>2, <1>3, <1>5, <2>1, <2>3, <2>4, SystemAssumption DEF Books, f
<1>. QED BY <1>6, <1>7

\* Setting the available funds, which then do not count, changes no total.
LEMMA SetBooks ==
    ASSUME FundsInv, LedgerInv', RewardRows', MaxVersion > 1,
           NEW a \in Accounts, NEW y \in Deposits, Ledger!DoSetAvailable(a, y),
           NEW acct \in Accounts
    PROVE  Books(acct)'
<1>1. /\ UNCHANGED <<terms, rewards, moved, credited>>
      /\ Funds' = [Funds EXCEPT ![a].available = y]
  BY DEF Ledger!DoSetAvailable, Funds, Buckets, Ledger!Buckets
<1>2. LedgerInv /\ RewardRows /\ Books(acct) /\ TermsStay
  BY <1>1 DEF FundsInv, TermsStay
<1>3. \A o : TotalOf(o, acct)' = TotalOf(o, acct)
  BY <1>1, <1>2, TotalStays
<1>4. Funds[acct] \in BucketSets
  BY <1>2, FundsType
<1>5. Funds'[acct] = IF acct = a THEN [Funds[acct] EXCEPT !.available = y] ELSE Funds[acct]
  BY <1>1 DEF Funds
<1>6. Funds'[acct].staked = Funds[acct].staked /\ Funds'[acct].pending = Funds[acct].pending
  BY <1>4, <1>5 DEF BucketSets
<1>. QED BY <1>2, <1>3, <1>6, ServiceAssumption DEF Books

\* Nothing moves: a stake gets its terms, a reward is recorded, or neither.
LEMMA StillBooks ==
    ASSUME FundsInv, LedgerInv', RewardRows', TermsStay, rewards \subseteq rewards',
           UNCHANGED <<Funds, moved, credited>>, NEW acct \in Accounts
    PROVE  Books(acct)'
<1>1. LedgerInv /\ RewardRows /\ Books(acct)
  BY DEF FundsInv
<1>2. \A o : TotalOf(o, acct)' = TotalOf(o, acct)
  BY <1>1, TotalStays
<1>3. CreditedTo(acct)' = CreditedTo(acct)
  BY <1>1, CreditedStays
<1>. QED BY <1>1, <1>2, <1>3 DEF Books

\* At the start there is the opening balance and nothing to add to it.
LEMMA InitFunds ==
    ASSUME Seeded = Accounts, Init
    PROVE  FundsInv
<1>1. LedgerInv
  BY InitLedger
<1>2. /\ rewards = {} /\ credited = {} /\ moved = [i \in StakeIds |-> {}]
      /\ balances = [acct \in Accounts |-> [NewBalance EXCEPT !.available = Opening]]
  BY DEF Init, StoreInit
<1>3. RewardRows
  BY <1>2, FS_EmptySet DEF RewardRows, UniqueRewards
<1>4. ASSUME NEW acct \in Accounts
      PROVE  Books(acct)
  <2>1. NewBalance = [available |-> 0, staked |-> 0, pending |-> 0, version |-> 1]
    BY DEF NewBalance, NoBalance
  <2>2. /\ Funds[acct].available = Opening
        /\ Funds[acct].staked = 0 /\ Funds[acct].pending = 0
    BY <1>2, <2>1 DEF Funds, Buckets
  <2>3. ASSUME NEW op
        PROVE  TotalOf(op, acct) = 0
    <3>1. {i \in StakesOf(acct) : op \in moved[i]} = {}
      BY <1>2 DEF StakesOf
    <3>. QED BY <3>1, SumEmpty DEF TotalOf
  <2>4. CreditedTo(acct) = 0
    <3>1. {r \in rewards : /\ <<r.stake, r.day>> \in credited
                           /\ terms[r.stake].account = acct} = {}
      BY <1>2
    <3>. QED BY <3>1, SumEmpty DEF CreditedTo
  <2>. QED BY <2>2, <2>3, <2>4, SystemAssumption DEF Books
<1>. QED BY <1>1, <1>3, <1>4 DEF FundsInv

\* Every step keeps the books.
LEMMA NextFunds == FundsInv /\ [Next]_vars => FundsInv'
<1>. SUFFICES ASSUME FundsInv, [Next]_vars
              PROVE  FundsInv'
  OBVIOUS
<1>1. LedgerInv' /\ LedgerStep
  BY NextLedger DEF FundsInv
<1>2. TermsStay
  BY <1>1, LedgerTerms
<1>3. RewardRows'
  BY <1>2, RowsStay DEF FundsInv
<1>4. ASSUME NEW acct \in Accounts
      PROVE  Books(acct)'
  <2>1. CASE UNCHANGED Ledger!ledgerVars
    <3>1. rewards \subseteq rewards' /\ UNCHANGED <<Funds, moved, credited>>
      BY <2>1 DEF Ledger!ledgerVars, Funds
    <3>. QED BY <1>1, <1>2, <1>3, <3>1, StillBooks
  <2>2. CASE Ledger!Record \/ \E i \in StakeIds : Ledger!Agree(i)
    <3>1. rewards \subseteq rewards' /\ UNCHANGED <<Funds, moved, credited>>
      BY <2>2 DEF Ledger!Record, Ledger!Agree, Funds
    <3>. QED BY <1>1, <1>2, <1>3, <3>1, StillBooks
  <2>3. ASSUME NEW i \in StakeIds,
               Ledger!DoHold(i) \/ Ledger!DoConfirm(i) \/ Ledger!DoRelease(i)
                 \/ Ledger!DoComplete(i)
        PROVE  Books(acct)'
    BY <1>1, <1>3, <2>3, OperationBooks
  <2>4. ASSUME NEW r \in rewards, Ledger!DoCredit(r)
        PROVE  Books(acct)'
    BY <1>1, <1>3, <2>4, CreditBooks
  <2>5. ASSUME MaxVersion > 1,
               NEW a \in Accounts, NEW y \in Deposits, Ledger!DoSetAvailable(a, y)
        PROVE  Books(acct)'
    BY <1>1, <1>3, <2>5, SetBooks
  <2>. QED BY <1>1, <2>1, <2>2, <2>3, <2>4, <2>5 DEF LedgerStep, LedgerMove
<1>. QED BY <1>1, <1>3, <1>4 DEF FundsInv

\* Every bucket is what the operations saved so far add up to, whatever
\* interleaves and whatever fails: no operation is lost or counted twice.
\* All accounts have a balance at the start, as for LedgerImplemented.
THEOREM FundsAreAccounted ==
    ASSUME Seeded = Accounts
    PROVE  Spec => []FundsAccounted
<1>1. Init => FundsInv
  BY InitFunds
<1>2. FundsInv /\ [Next]_vars => FundsInv'
  BY NextFunds
<1>3. FundsInv => FundsAccounted
  <2>. SUFFICES ASSUME FundsInv, NEW acct \in Accounts
                PROVE  LET b == balances[acct] IN
                       /\ b.pending + TotalOf("confirm", acct) + TotalOf("release", acct)
                            = TotalOf("hold", acct)
                       /\ b.staked + TotalOf("complete", acct) = TotalOf("confirm", acct)
                       /\ MaxVersion <= 1 =>
                            \E x \in Beginnings(acct) :
                               b.available + TotalOf("hold", acct)
                                 = x + TotalOf("release", acct) + TotalOf("complete", acct)
                                     + CreditedTo(acct)
    BY DEF FundsAccounted
  <2>1. /\ Funds[acct].available = balances[acct].available
        /\ Funds[acct].staked = balances[acct].staked
        /\ Funds[acct].pending = balances[acct].pending
    BY DEF Funds, Buckets
  <2>2. Opening \in Beginnings(acct)
    BY DEF Beginnings
  <2>3. Books(acct)
    BY DEF FundsInv
  <2>. QED BY <2>1, <2>2, <2>3 DEF Books
<1>. QED BY <1>1, <1>2, <1>3, PTL DEF Spec

-----------------------------------------------------------------------------
(* The cumulative amounts                                                  *)

RewardsOf(i) == {r \in rewards : r.stake = i}

\* What a poller at a reward knows: its entries are of one day, and no reward
\* is of a later one; the total it has computed is still the right one.
EntryOk(w) ==
    /\ w.pc \in EntryPcs =>
          \E d \in Days : /\ d <= day
                          /\ \A k \in DOMAIN w.entries : w.entries[k].day = d
                          /\ \A r \in rewards : r.day <= d
    /\ w.pc = "createReward" => w.total = rewardSums[w.id] + Head(w.entries).amount

SumsInv ==
    /\ TypeInv
    /\ UniqueRewards
    /\ \A i \in StakeIds : rewardSums[i] = SumOver(RewardAmounts, RewardsOf(i))
    /\ \A r \in rewards : r.day <= day
    /\ \A p \in Pollers : EntryOk(work[p])
    /\ CumulativeIsTotal

\* Every provider answers with rewards of today.
LEMMA AnswersOfToday ==
    ASSUME NEW i, NEW answer \in RewardAnswers(i), NEW k \in DOMAIN answer
    PROVE  answer[k].day = day
<1>1. CASE answer = <<>>
  BY <1>1
<1>2. CASE answer = <<[day |-> day, amount |-> DailyReward(i)]>>
  BY <1>2
<1>3. CASE answer \in WalletRewards
  BY <1>3 DEF WalletRewards, EntriesOf
<1>. QED BY <1>1, <1>2, <1>3 DEF RewardAnswers

\* Where the reward loop of the only poller goes: it is over, or it has been
\* answered today's entries, or it goes on with those it has, and then its
\* total is the sum so far and the amount.
LEMMA RewardLoop ==
    ASSUME SumsInv, ~DbMayFail, NEW p \in Pollers, PollerStep(p)
    PROVE  /\ UNCHANGED day
           /\ \E w :
                /\ Become(p, w)
                /\ \/ w.pc \notin EntryPcs
                   \/ /\ w.pc = "readTotal"
                      /\ UNCHANGED rewardTables
                      /\ \A k \in DOMAIN w.entries : w.entries[k].day = day
                   \/ /\ work[p].pc \in EntryPcs /\ w.pc \in EntryPcs
                      /\ \A k \in DOMAIN w.entries :
                            \E j \in DOMAIN work[p].entries :
                               w.entries[k] = work[p].entries[j]
                      /\ w.pc = "createReward" =>
                            /\ UNCHANGED rewardTables
                            /\ w.total = rewardSums[w.id] + Head(w.entries).amount
<1>. DEFINE Loop(w) ==
              \/ w.pc \notin EntryPcs
              \/ /\ w.pc = "readTotal"
                 /\ UNCHANGED rewardTables
                 /\ \A k \in DOMAIN w.entries : w.entries[k].day = day
              \/ /\ work[p].pc \in EntryPcs /\ w.pc \in EntryPcs
                 /\ \A k \in DOMAIN w.entries :
                       \E j \in DOMAIN work[p].entries : w.entries[k] = work[p].entries[j]
                 /\ w.pc = "createReward" =>
                       /\ UNCHANGED rewardTables
                       /\ w.total = rewardSums[w.id] + Head(w.entries).amount
<1>. HIDE DEF Loop
<1>. p \in Actors
  BY DEF Actors
<1>0. work[p] \in Workspace /\ work[p].entries \in Seq(Entries)
  BY WorkspaceFields DEF SumsInv, TypeInv, TypeOK
<1>1. UNCHANGED day
  BY DEF PollerStep, ListDelegating, CheckDelegating, SaveActive, FetchToConfirm,
     SaveConfirm, PublishActivated, SaveFailed, FetchToRelease, SaveRelease, PublishFailed,
     ListUnstaking, CheckUnstaking, SaveWithdrawn, FetchToComplete, SaveComplete,
     PublishWithdrawn, ListActive, FetchRewards, ReadTotal, CreateReward, FetchToReward,
     SaveReward, EndPoll, providerVars
<1>. SUFFICES \E w : Become(p, w) /\ Loop(w)
  BY <1>1 DEF Loop
<1>2. ASSUME NEW pc, pc \notin EntryPcs,
             \/ Goto(p, pc) \/ Continue(p, pc)
             \/ \E b : Adjust(p, b, pc)
             \/ \E i : DropStake(p, i, pc)
             \/ \E i, s : Reconcile(p, i, s, pc)
             \/ \E state : List(p, state, pc)
      PROVE  \E w : Become(p, w) /\ Loop(w)
  <2>1. ASSUME NEW w, Become(p, w), w.pc = pc
        PROVE  \E v : Become(p, v) /\ Loop(v)
    BY <1>2, <2>1 DEF Loop
  <2>2. CASE Goto(p, pc)
    <3>. DEFINE w == [work[p] EXCEPT !.pc = pc]
    <3>1. w.pc = pc /\ Become(p, w)
      BY <1>0, <2>2 DEF Goto, Workspace
    <3>. HIDE DEF w
    <3>. QED BY <2>1, <3>1
  <2>3. ASSUME NEW b, Adjust(p, b, pc)
        PROVE  \E v : Become(p, v) /\ Loop(v)
    <3>. DEFINE w == [work[p] EXCEPT !.bal = NextVersion(b), !.pc = pc]
    <3>1. w.pc = pc /\ Become(p, w)
      BY <1>0, <2>3 DEF Adjust, Workspace
    <3>. HIDE DEF w
    <3>. QED BY <2>1, <3>1
  <2>4. ASSUME NEW i, DropStake(p, i, pc)
        PROVE  \E v : Become(p, v) /\ Loop(v)
    <3>. DEFINE w == [Idle EXCEPT !.pc = pc, !.list = [work[p].list EXCEPT ![i] = NoStake]]
    <3>1. w.pc = pc /\ Become(p, w)
      BY <2>4 DEF DropStake, Idle
    <3>. HIDE DEF w
    <3>. QED BY <2>1, <3>1
  <2>5. ASSUME NEW i, NEW s, Reconcile(p, i, s, pc)
        PROVE  \E v : Become(p, v) /\ Loop(v)
    <3>. DEFINE w == [work[p] EXCEPT !.id = i, !.account = terms[i].account,
                                     !.stake = NextVersion(s), !.pc = pc]
    <3>1. w.pc = pc /\ Become(p, w)
      BY <1>0, <2>5 DEF Reconcile, Workspace
    <3>. HIDE DEF w
    <3>. QED BY <2>1, <3>1
  <2>6. ASSUME NEW state, List(p, state, pc)
        PROVE  \E v : Become(p, v) /\ Loop(v)
    <3>1. PICK list : Become(p, [Idle EXCEPT !.pc = pc, !.list = list])
      BY <2>6, Zenon DEF List
    <3>. DEFINE w == [Idle EXCEPT !.pc = pc, !.list = list]
    <3>2. w.pc = pc /\ Become(p, w)
      BY <3>1 DEF Idle
    <3>. HIDE DEF w
    <3>. QED BY <2>1, <3>2
  <2>. QED BY <1>2, <2>2, <2>3, <2>4, <2>5, <2>6 DEF Continue
<1>3. ASSUME ~FetchRewards(p), ~ReadTotal(p), ~CreateReward(p), ~FetchToReward(p),
             ~SaveReward(p)
      PROVE  \E w : Become(p, w) /\ Loop(w)
  <2>. DEFINE Phases == {"idle", "delegating", "saveActive", "confirm", "saveConfirm",
                         "publishActivated", "saveFailed", "release", "saveRelease",
                         "saveUnreleased", "publishFailed", "unstaking", "saveWithdrawn",
                         "complete", "saveComplete", "publishWithdrawn", "rewards"}
  <2>1. Phases \cap EntryPcs = {}
    BY DEF EntryPcs
  <2>2. CASE Return(p)
    <3>1. Idle.pc \notin EntryPcs
      BY DEF Idle, EntryPcs
    <3>. QED BY <2>2, <3>1 DEF Return, Loop
  <2>3. CASE \E pc \in Phases : \/ Goto(p, pc) \/ Continue(p, pc)
                                \/ \E b : Adjust(p, b, pc)
                                \/ \E i : DropStake(p, i, pc)
                                \/ \E i, s : Reconcile(p, i, s, pc)
                                \/ \E state : List(p, state, pc)
    <3>. HIDE DEF Phases
    <3>. QED BY <1>2, <2>1, <2>3
  <2>4. \/ Return(p)
        \/ \E pc \in Phases : \/ Goto(p, pc) \/ Continue(p, pc)
                              \/ \E b : Adjust(p, b, pc)
                              \/ \E i : DropStake(p, i, pc)
                              \/ \E i, s : Reconcile(p, i, s, pc)
                              \/ \E state : List(p, state, pc)
    <3>1. CASE \/ ListDelegating(p) \/ CheckDelegating(p) \/ SaveActive(p)
               \/ FetchToConfirm(p) \/ SaveConfirm(p) \/ PublishActivated(p)
      BY <3>1 DEF ListDelegating, CheckDelegating, SaveActive, FetchToConfirm, SaveConfirm,
                  PublishActivated
    <3>2. CASE \/ SaveFailed(p) \/ FetchToRelease(p) \/ SaveRelease(p) \/ PublishFailed(p)
      BY <3>2 DEF SaveFailed, FetchToRelease, SaveRelease, PublishFailed
    <3>3. CASE \/ ListUnstaking(p) \/ CheckUnstaking(p) \/ SaveWithdrawn(p)
               \/ FetchToComplete(p) \/ SaveComplete(p) \/ PublishWithdrawn(p)
      BY <3>3 DEF ListUnstaking, CheckUnstaking, SaveWithdrawn, FetchToComplete,
                  SaveComplete, PublishWithdrawn
    <3>4. CASE ListActive(p) \/ EndPoll(p)
      BY <3>4 DEF ListActive, EndPoll
    <3>. QED BY <1>3, <3>1, <3>2, <3>3, <3>4 DEF PollerStep
  <2>. QED BY <2>2, <2>3, <2>4
<1>4. ASSUME NextEntry(p), work[p].pc \in EntryPcs
      PROVE  \E w : Become(p, w) /\ Loop(w)
  <2>1. "rewards" \notin EntryPcs /\ "readTotal" \in EntryPcs /\ "readTotal" # "createReward"
    BY DEF EntryPcs
  <2>2. CASE Continue(p, "rewards")
    BY <1>2, <2>1, <2>2
  <2>3. CASE /\ Len(work[p].entries) > 1
             /\ Become(p, [work[p] EXCEPT !.entries = Tail(work[p].entries), !.total = 0,
                                          !.bal = NoBalance, !.pc = "readTotal"])
    <3>. DEFINE w == [work[p] EXCEPT !.entries = Tail(work[p].entries), !.total = 0,
                                     !.bal = NoBalance, !.pc = "readTotal"]
                e == work[p].entries
    <3>1. w.pc = "readTotal" /\ w.entries = Tail(e) /\ Become(p, w)
      BY <1>0, <2>3 DEF Workspace
    <3>2. \A k \in DOMAIN Tail(e) : \E j \in DOMAIN e : Tail(e)[k] = e[j]
      <4>1. e \in Seq(Entries) /\ Len(e) > 1
        BY <1>0, <2>3
      <4>. HIDE DEF e
      <4>2. Len(e) \in Nat /\ Len(Tail(e)) = Len(e) - 1 /\ DOMAIN e = 1 .. Len(e)
            /\ DOMAIN Tail(e) = 1 .. Len(Tail(e))
        BY <4>1
      <4>3. ASSUME NEW k \in 1 .. Len(Tail(e))
            PROVE  k + 1 \in 1 .. Len(e) /\ Tail(e)[k] = e[k + 1]
        BY <4>1, <4>2, <4>3
      <4>. QED BY <4>2, <4>3
    <3>. HIDE DEF w
    <3>. QED BY <1>4, <2>1, <3>1, <3>2 DEF Loop
  <2>. QED BY <1>4, <2>2, <2>3 DEF NextEntry
<1>5. ASSUME NEW w, Become(p, w), w.entries = work[p].entries, work[p].pc \in EntryPcs,
             w.pc \in EntryPcs \ {"createReward"}
      PROVE  \E v : Become(p, v) /\ Loop(v)
  BY <1>5 DEF Loop
<1>6. CASE FetchRewards(p)
  <2>0. PICK i \in StakeIds : \E answer \in RewardAnswers(i) :
           \/ Become(p, [work[p] EXCEPT !.id = i, !.account = terms[i].account,
                                        !.entries = answer, !.pc = "readTotal"])
           \/ DropStake(p, i, "rewards")
    BY <1>6 DEF FetchRewards
  <2>1. PICK answer \in RewardAnswers(i) :
           \/ Become(p, [work[p] EXCEPT !.id = i, !.account = terms[i].account,
                                        !.entries = answer, !.pc = "readTotal"])
           \/ DropStake(p, i, "rewards")
    BY <2>0
  <2>2. CASE DropStake(p, i, "rewards")
    BY <1>2, <2>2 DEF EntryPcs
  <2>3. CASE Become(p, [work[p] EXCEPT !.id = i, !.account = terms[i].account,
                                       !.entries = answer, !.pc = "readTotal"])
    <3>. DEFINE w == [work[p] EXCEPT !.id = i, !.account = terms[i].account,
                                     !.entries = answer, !.pc = "readTotal"]
    <3>1. w.pc = "readTotal" /\ w.entries = answer /\ Become(p, w)
      BY <1>0, <2>3 DEF Workspace
    <3>. HIDE DEF w
    <3>2. \A k \in DOMAIN answer : answer[k].day = day
      BY AnswersOfToday
    <3>3. UNCHANGED rewardTables
      BY <1>6 DEF FetchRewards
    <3>. QED BY <3>1, <3>2, <3>3 DEF Loop
  <2>. QED BY <2>1, <2>2, <2>3
<1>7. CASE ReadTotal(p)
  <2>1. work[p].pc \in EntryPcs /\ UNCHANGED rewardTables
    BY <1>7 DEF ReadTotal, At, EntryPcs
  <2>2. CASE NextEntry(p)
    BY <1>4, <2>1, <2>2
  <2>3. CASE Become(p, [work[p] EXCEPT !.total = rewardSums[work[p].id] + Entry(p).amount,
                                       !.pc = "createReward"])
    <3>. DEFINE w == [work[p] EXCEPT !.total = rewardSums[work[p].id] + Entry(p).amount,
                                     !.pc = "createReward"]
    <3>1. /\ w.pc = "createReward" /\ w.id = work[p].id /\ w.entries = work[p].entries
          /\ w.total = rewardSums[work[p].id] + Entry(p).amount /\ Become(p, w)
      BY <1>0, <2>3 DEF Workspace
    <3>. HIDE DEF w
    <3>2. w.total = rewardSums[w.id] + Head(w.entries).amount
      BY <3>1 DEF Entry
    <3>3. w.pc \in EntryPcs
      BY <3>1 DEF EntryPcs
    <3>. QED BY <2>1, <3>1, <3>2, <3>3 DEF Loop
  <2>. QED BY <1>7, <2>2, <2>3 DEF ReadTotal
<1>8. CASE CreateReward(p) \/ FetchToReward(p) \/ SaveReward(p)
  <2>1. work[p].pc \in EntryPcs
    BY <1>8 DEF CreateReward, FetchToReward, SaveReward, At, EntryPcs
  <2>2. CASE NextEntry(p)
    BY <1>4, <2>1, <2>2
  <2>3. ASSUME NEW b, Goto(p, "addReward") \/ Adjust(p, b, "saveReward")
        PROVE  \E w : Become(p, w) /\ Loop(w)
    <3>. DEFINE v == [work[p] EXCEPT !.pc = "addReward"]
                u == [work[p] EXCEPT !.bal = NextVersion(b), !.pc = "saveReward"]
    <3>1. /\ v.entries = work[p].entries /\ v.pc \in EntryPcs \ {"createReward"}
          /\ u.entries = work[p].entries /\ u.pc \in EntryPcs \ {"createReward"}
          /\ Become(p, v) \/ Become(p, u)
      BY <1>0, <2>3 DEF Workspace, Goto, Adjust, EntryPcs
    <3>. HIDE DEF v, u
    <3>. QED BY <1>5, <2>1, <3>1
  <2>. QED BY <1>8, <2>2, <2>3 DEF CreateReward, FetchToReward, SaveReward
<1>. QED BY <1>3, <1>6, <1>7, <1>8

\* A reward is inserted by a poller that knows that no other is of a later
\* day: the totals stay those of the rows.
LEMMA InsertSums ==
    ASSUME SumsInv, NEW p \in Pollers, At(p, "createReward"),
           ~RewardExists(work[p].id, Entry(p).day), InsertReward(NewReward(p)), UNCHANGED day
    PROVE  /\ \A i \in StakeIds : rewardSums'[i] = SumOver(RewardAmounts', RewardsOf(i)')
           /\ \A r \in rewards' : r.day <= day
           /\ \A r \in rewards' : r.day <= Entry(p).day
           /\ CumulativeIsTotal'
<1>. p \in Actors
  BY DEF Actors
<1>0. work[p].pc \in EntryPcs /\ work[p].pc \in StakePcs
  BY DEF At, EntryPcs, StakePcs, Pcs, PollerPcs
<1>1. PICK r : r = NewReward(p)
  OBVIOUS
<1>2. /\ rewards' = rewards \cup {r}
      /\ rewardSums' = [rewardSums EXCEPT ![r.stake] = @ + r.amount]
      /\ r.stake = work[p].id /\ r.day = Entry(p).day /\ r.amount = Entry(p).amount
      /\ r.cumulative = work[p].total
  BY <1>1 DEF InsertReward, NewReward
<1>3. /\ r.stake \in StakeIds /\ r.day \in Days /\ r.amount \in Nat
      /\ rewardSums \in [StakeIds -> Nat]
      /\ \A q \in rewards : q.amount \in Nat /\ q.day \in Days
      /\ day \in Days
      /\ IsFiniteSet(rewards)
  BY <1>0, <1>2, Reads, EntryReads DEF SumsInv, TypeInv, TypeOK, UniqueRewards
<1>4. /\ r.day <= day
      /\ \A q \in rewards : q.day <= r.day
      /\ r.cumulative = rewardSums[r.stake] + r.amount
  <2>1. /\ \E d \in Days : /\ d <= day
                           /\ \A k \in DOMAIN work[p].entries : work[p].entries[k].day = d
                           /\ \A q \in rewards : q.day <= d
        /\ work[p].total = rewardSums[work[p].id] + Entry(p).amount
    BY <1>0 DEF SumsInv, EntryOk, At, Entry
  <2>2. work[p].entries \in Seq(Entries) /\ work[p].entries # <<>>
    BY <1>0, EntryReads DEF SumsInv
  <2>3. 1 \in DOMAIN work[p].entries /\ Head(work[p].entries) = work[p].entries[1]
    BY <2>2
  <2>. QED BY <1>2, <2>1, <2>3 DEF Entry
<1>5. /\ r \notin rewards
      /\ \A q \in rewards : q.stake = r.stake => q.day < r.day
  <2>1. \A q \in rewards : q.stake = r.stake => q.day # r.day
    BY <1>2 DEF RewardExists
  <2>. QED BY <1>3, <1>4, <2>1 DEF Days
<1>6. /\ \A q \in rewards : RewardAmounts[q] = q.amount /\ RewardAmounts'[q] = q.amount
      /\ RewardAmounts'[r] = r.amount
  BY <1>2 DEF RewardAmounts
<1>7. ASSUME NEW S \in SUBSET rewards
      PROVE  /\ SumOver(RewardAmounts', S) = SumOver(RewardAmounts, S)
             /\ SumOver(RewardAmounts', S \cup {r}) = SumOver(RewardAmounts, S) + r.amount
  <2>1. /\ IsFiniteSet(S) /\ r \notin S
        /\ \A q \in S : /\ RewardAmounts[q] \in Nat /\ RewardAmounts'[q] \in Nat
                        /\ RewardAmounts[q] = RewardAmounts'[q]
    BY <1>3, <1>5, <1>6, FS_Subset
  <2>2. SumOver(RewardAmounts', S) = SumOver(RewardAmounts, S)
    BY <2>1, SumSame, Zenon
  <2>3. SumOver(RewardAmounts', S \cup {r}) = SumOver(RewardAmounts', S) + RewardAmounts'[r]
    BY <1>3, <1>6, <2>1, SumAdd
  <2>. QED BY <1>6, <2>2, <2>3
<1>8. ASSUME NEW i \in StakeIds
      PROVE  rewardSums'[i] = SumOver(RewardAmounts', RewardsOf(i)')
  <2>1. RewardsOf(i) \in SUBSET rewards /\ rewardSums[i] = SumOver(RewardAmounts, RewardsOf(i))
    BY DEF SumsInv, RewardsOf
  <2>2. CASE i = r.stake
    <3>1. RewardsOf(i)' = RewardsOf(i) \cup {r}
      BY <1>2, <2>2 DEF RewardsOf
    <3>2. rewardSums'[i] = rewardSums[i] + r.amount
      BY <1>2, <1>3, <2>2
    <3>. QED BY <1>7, <2>1, <3>1, <3>2
  <2>3. CASE i # r.stake
    <3>1. RewardsOf(i)' = RewardsOf(i)
      BY <1>2, <2>3 DEF RewardsOf
    <3>2. rewardSums'[i] = rewardSums[i]
      BY <1>2, <1>3, <2>3
    <3>. QED BY <1>7, <2>1, <3>1, <3>2
  <2>. QED BY <2>2, <2>3
<1>9. /\ \A q \in rewards' : q.day <= day
      /\ \A q \in rewards' : q.day <= r.day
  BY <1>2, <1>3, <1>4 DEF SumsInv, Days
<1>10. ASSUME NEW q \in rewards'
       PROVE  q.cumulative = SumOver(RewardAmounts',
                                     {x \in rewards' : x.stake = q.stake /\ x.day <= q.day})
  <2>1. CASE q = r
    <3>1. {x \in rewards' : x.stake = q.stake /\ x.day <= q.day} = RewardsOf(r.stake) \cup {r}
      BY <1>2, <1>3, <1>9, <2>1 DEF RewardsOf
    <3>2. RewardsOf(r.stake) \in SUBSET rewards
      BY DEF RewardsOf
    <3>3. SumOver(RewardAmounts', RewardsOf(r.stake) \cup {r})
            = SumOver(RewardAmounts, RewardsOf(r.stake)) + r.amount
      BY <1>7, <3>2
    <3>4. rewardSums[r.stake] = SumOver(RewardAmounts, RewardsOf(r.stake))
      BY <1>3 DEF SumsInv
    <3>. QED BY <1>4, <2>1, <3>1, <3>3, <3>4
  <2>2. CASE q # r
    <3>1. q \in rewards
      BY <1>2, <2>2
    <3>2. {x \in rewards' : x.stake = q.stake /\ x.day <= q.day}
            = {x \in rewards : x.stake = q.stake /\ x.day <= q.day}
      BY <1>2, <1>3, <1>5, <3>1 DEF Days
    <3>3. {x \in rewards : x.stake = q.stake /\ x.day <= q.day} \in SUBSET rewards
      OBVIOUS
    <3>4. q.cumulative = SumOver(RewardAmounts,
                                 {x \in rewards : x.stake = q.stake /\ x.day <= q.day})
      BY <3>1 DEF SumsInv, CumulativeIsTotal
    <3>. QED BY <1>7, <3>2, <3>3, <3>4
  <2>. QED BY <2>1, <2>2
<1>. QED BY <1>2, <1>8, <1>9, <1>10 DEF CumulativeIsTotal

\* A handler does not touch a poller's memory, nor the calendar.
LEMMA HandlersApart ==
    ASSUME SumsInv, NEW h \in Handlers, Request(h) \/ HandlerStep(h)
    PROVE  UNCHANGED day /\ \A p \in Pollers : work'[p] = work[p]
<1>1. UNCHANGED day
  BY DEF Request, HandlerStep, BeginCreateStake, BeginUnstake, BeginSetBalance,
     FetchBalance, SaveHold, InsertStake, CallStake, SaveFailing, SaveReleasing,
     SaveDelegating, PublishCreated, CallUnstake, SaveUnstaking, PublishUnstakeRequested,
     UpsertBalance, PublishBalanceCreated, OverwriteBalance, providerVars,
     ProviderAcceptsStake, ProviderFailsStake, ProviderAcceptsUnstake, ProviderFailsUnstake
<1>2. \E w : Become(h, w)
  <2>1. \/ \E pc : Goto(h, pc)
        \/ Return(h)
        \/ \E b, pc : Adjust(h, b, pc)
        => \E w : Become(h, w)
    BY DEF Goto, Return, Adjust
  <2>2. CASE Request(h)
    BY <2>2 DEF Request, BeginCreateStake, BeginUnstake, BeginSetBalance
  <2>3. CASE CallStake(h) \/ CallUnstake(h)
    BY <2>1, <2>3 DEF CallStake, CallUnstake
  <2>4. CASE FetchBalance(h) \/ SaveHold(h) \/ InsertStake(h) \/ SaveFailing(h)
    BY <2>1, <2>4 DEF FetchBalance, SaveHold, InsertStake, SaveFailing
  <2>5. CASE \/ SaveReleasing(h) \/ SaveDelegating(h) \/ PublishCreated(h)
             \/ SaveUnstaking(h) \/ PublishUnstakeRequested(h)
    BY <2>1, <2>5 DEF SaveReleasing, SaveDelegating, PublishCreated, SaveUnstaking,
                      PublishUnstakeRequested
  <2>6. CASE UpsertBalance(h) \/ PublishBalanceCreated(h) \/ OverwriteBalance(h)
    BY <2>1, <2>6 DEF UpsertBalance, PublishBalanceCreated, OverwriteBalance
  <2>. QED BY <2>2, <2>3, <2>4, <2>5, <2>6 DEF HandlerStep
<1>3. work \in [Actors -> Workspace] /\ \A p \in Pollers : p \in Actors /\ p # h
  BY StoreAssumption DEF SumsInv, TypeInv, TypeOK, Actors
<1>. QED BY <1>1, <1>2, <1>3 DEF Become

\* A step that records no reward leaves the sums as they are.
LEMMA SumsStay ==
    ASSUME SumsInv, UNCHANGED rewardTables, day \in Days, day' \in Days, day' >= day
    PROVE  /\ \A i \in StakeIds : rewardSums'[i] = SumOver(RewardAmounts', RewardsOf(i)')
           /\ \A r \in rewards' : r.day <= day'
           /\ CumulativeIsTotal'
<1>1. RewardAmounts' = RewardAmounts /\ \A i \in StakeIds : RewardsOf(i)' = RewardsOf(i)
  BY DEF rewardTables, RewardAmounts, RewardsOf
<1>2. \A r \in rewards' : r.day <= day'
  <2>1. \A r \in rewards : r.day <= day'
    BY DEF SumsInv, TypeInv, TypeOK, Days
  <2>. QED BY <2>1 DEF rewardTables
<1>3. CumulativeIsTotal'
  BY <1>1 DEF SumsInv, rewardTables, CumulativeIsTotal
<1>. QED BY <1>1, <1>2, <1>3 DEF SumsInv, rewardTables

\* At the start there are no rewards.
LEMMA InitSums == Init => SumsInv
<1>. SUFFICES ASSUME Init
              PROVE  SumsInv
  OBVIOUS
<1>1. /\ rewards = {} /\ rewardSums = [i \in StakeIds |-> 0]
      /\ \A a \in Actors : work[a].pc = "idle"
  BY DEF Init, StoreInit, Idle
<1>2. UniqueRewards
  BY <1>1, FS_EmptySet DEF UniqueRewards
<1>3. \A i \in StakeIds : rewardSums[i] = SumOver(RewardAmounts, RewardsOf(i))
  <2>1. \A i \in StakeIds : RewardsOf(i) = {}
    BY <1>1 DEF RewardsOf
  <2>. QED BY <1>1, <2>1, SumEmpty
<1>4. \A p \in Pollers : EntryOk(work[p])
  BY <1>1 DEF EntryOk, EntryPcs, Actors
<1>. QED BY <1>1, <1>2, <1>3, <1>4, InitTypeInv DEF SumsInv, CumulativeIsTotal

\* Every step keeps the sums.
LEMMA NextSums ==
    ASSUME \A p, q \in Pollers : p = q, ~DbMayFail
    PROVE  SumsInv /\ [Next]_vars => SumsInv'
<1>. SUFFICES ASSUME SumsInv, [Next]_vars
              PROVE  SumsInv'
  OBVIOUS
<1>1. /\ TypeInv' /\ UniqueRewards'
      /\ day \in Days /\ day' \in Days /\ work \in [Actors -> Workspace]
  BY NextTypeInv, UniqueStays DEF SumsInv, TypeInv, TypeOK
<1>2. ASSUME NEW p \in Pollers, PollerStep(p)
      PROVE  SumsInv'
  <2>0. UNCHANGED day /\ p \in Actors
    BY <1>2, RewardLoop DEF Actors
  <2>1. PICK w :
           /\ Become(p, w)
           /\ \/ w.pc \notin EntryPcs
              \/ /\ w.pc = "readTotal"
                 /\ UNCHANGED rewardTables
                 /\ \A k \in DOMAIN w.entries : w.entries[k].day = day
              \/ /\ work[p].pc \in EntryPcs /\ w.pc \in EntryPcs
                 /\ \A k \in DOMAIN w.entries :
                       \E j \in DOMAIN work[p].entries : w.entries[k] = work[p].entries[j]
                 /\ w.pc = "createReward" =>
                       /\ UNCHANGED rewardTables
                       /\ w.total = rewardSums[w.id] + Head(w.entries).amount
    BY <1>2, RewardLoop
  <2>2. \A q \in Pollers : work'[q] = w
    BY <1>1, <2>0, <2>1 DEF Become
  <2>3. CASE UNCHANGED rewardTables
    <3>1. EntryOk(w)'
      <4>1. w.pc = "createReward" => w.total = rewardSums'[w.id] + Head(w.entries).amount
        BY <2>1, <2>3 DEF EntryPcs, rewardTables
      <4>2. ASSUME w.pc \in EntryPcs
            PROVE  \E d \in Days : /\ d <= day
                                   /\ \A k \in DOMAIN w.entries : w.entries[k].day = d
                                   /\ \A r \in rewards : r.day <= d
        <5>1. CASE \A k \in DOMAIN w.entries : w.entries[k].day = day
          BY <1>1, <5>1 DEF SumsInv, Days
        <5>2. CASE /\ work[p].pc \in EntryPcs
                   /\ \A k \in DOMAIN w.entries :
                         \E j \in DOMAIN work[p].entries : w.entries[k] = work[p].entries[j]
          BY <5>2 DEF SumsInv, EntryOk
        <5>. QED BY <2>1, <4>2, <5>1, <5>2
      <4>. QED BY <2>0, <2>3, <4>1, <4>2 DEF EntryOk, rewardTables
    <3>2. \A q \in Pollers : EntryOk(work[q])'
      BY <2>2, <3>1 DEF EntryOk
    <3>. QED BY <1>1, <2>0, <2>3, <3>2, SumsStay DEF SumsInv, Days
  <2>4. CASE ~UNCHANGED rewardTables
    <3>1. /\ At(p, "createReward") /\ InsertReward(NewReward(p))
          /\ ~RewardExists(work[p].id, Entry(p).day)
      BY <2>4, RewardsStep DEF CreateReward
    <3>2. /\ \A i \in StakeIds : rewardSums'[i] = SumOver(RewardAmounts', RewardsOf(i)')
          /\ \A r \in rewards' : r.day <= day
          /\ \A r \in rewards' : r.day <= Entry(p).day
          /\ CumulativeIsTotal'
      BY <2>0, <3>1, InsertSums
    <3>3. EntryOk(w)'
      <4>1. w.pc # "createReward"
        BY <2>1, <2>4 DEF EntryPcs
      <4>2. ASSUME w.pc \in EntryPcs
            PROVE  \E d \in Days : /\ d <= day
                                   /\ \A k \in DOMAIN w.entries : w.entries[k].day = d
                                   /\ \A r \in rewards' : r.day <= d
        <5>1. /\ work[p].pc \in EntryPcs
              /\ \A k \in DOMAIN w.entries :
                    \E j \in DOMAIN work[p].entries : w.entries[k] = work[p].entries[j]
          BY <2>1, <2>4, <4>2
        <5>2. PICK d \in Days : /\ d <= day
                                /\ \A k \in DOMAIN work[p].entries : work[p].entries[k].day = d
          BY <5>1 DEF SumsInv, EntryOk
        <5>3. work[p].entries \in Seq(Entries) /\ work[p].entries # <<>>
          BY <5>1, EntryReads DEF SumsInv
        <5>4. 1 \in DOMAIN work[p].entries /\ Head(work[p].entries) = work[p].entries[1]
          BY <5>3
        <5>5. Entry(p).day = d
          BY <5>2, <5>4 DEF Entry
        <5>. QED BY <3>2, <5>1, <5>2, <5>5
      <4>. QED BY <2>0, <4>1, <4>2 DEF EntryOk
    <3>4. \A q \in Pollers : EntryOk(work[q])'
      BY <2>2, <3>3 DEF EntryOk
    <3>. QED BY <1>1, <2>0, <3>2, <3>4 DEF SumsInv
  <2>. QED BY <2>3, <2>4
<1>3. ASSUME ~(\E p \in Pollers : PollerStep(p))
      PROVE  SumsInv'
  <2>1. UNCHANGED rewardTables
    BY <1>3, RewardsStep DEF PollerStep
  <2>2. day' >= day
    <3>1. NextDay => day' >= day
      BY <1>1 DEF NextDay, Days
    <3>2. CASE UNCHANGED day
      BY <1>1, <3>2 DEF Days
    <3>3. \/ UNCHANGED day
          \/ NextDay
      BY <1>3, HandlersApart
         DEF Next, Abandon, Crash, Environment, vars, providerVars, ProviderProgress,
             Settle, GiveUp, ProviderRestarts
    <3>. QED BY <3>1, <3>2, <3>3
  <2>3. \A p \in Pollers : work'[p] = work[p] \/ work'[p].pc = "idle"
    <3>1. ASSUME NEW a \in Actors, Abandon(a)
          PROVE  \A p \in Pollers : work'[p] = work[p] \/ work'[p].pc = "idle"
      BY <1>1, <3>1 DEF Abandon, Return, Become, Idle, Actors
    <3>2. CASE Crash
      BY <3>2 DEF Crash, Idle, Actors
    <3>3. CASE Environment \/ UNCHANGED vars
      BY <3>3 DEF Environment, vars
    <3>. QED BY <1>3, <3>1, <3>2, <3>3, HandlersApart DEF Next
  <2>4. ASSUME NEW p \in Pollers
        PROVE  EntryOk(work[p])'
    <3>1. CASE work'[p].pc = "idle"
      BY <3>1 DEF EntryOk, EntryPcs
    <3>2. CASE work'[p] = work[p]
      <4>1. EntryOk(work[p])
        BY DEF SumsInv
      <4>2. \A d \in Days : d <= day => d <= day'
        BY <1>1, <2>2 DEF Days
      <4>. QED BY <2>1, <3>2, <4>1, <4>2 DEF EntryOk, rewardTables
    <3>. QED BY <2>3, <3>1, <3>2
  <2>. QED BY <1>1, <2>1, <2>2, <2>4, SumsStay DEF SumsInv
<1>. QED BY <1>2, <1>3

\* With one poller, as one process of the service has, and a database that answers,
\* the cumulative amount of every reward is the total of the stake's rewards
\* up to its day, although it is computed from a SUM read in an earlier step
\* and whatever cuts polls short or fails at the provider in between.
THEOREM CumulativeAmounts ==
    ASSUME \A p, q \in Pollers : p = q, "db" \notin Faults
    PROVE  Spec => []CumulativeIsTotal
<1>1. SumsInv /\ [Next]_vars => SumsInv'
  BY NextSums DEF DbMayFail
<1>2. SumsInv => CumulativeIsTotal
  BY DEF SumsInv
<1>. QED BY <1>1, <1>2, InitSums, PTL DEF Spec
=============================================================================
