---------------------------- MODULE AtomicLedger ----------------------------
(***************************************************************************)
(* What the balances table promises: although every change is a read, a    *)
(* computation on a copy and a guarded write, with other goroutines in     *)
(* between, the table changes as if each balance operation were one atomic *)
(* step on the current row, and each stake's operations happen at most     *)
(* once, after its hold, and a release excludes confirm and complete.  It  *)
(* does not promise that an operation a stake's state calls for ever       *)
(* happens: a write that loses the version check is dropped by the code.   *)
(***************************************************************************)
EXTENDS StakingDomain

CONSTANTS Accounts, StakeIds, Days, Deposits, NoTerms, Opening

VARIABLES
    funds,     \* account -> [available, staked, pending]
    terms,     \* stake entity -> [account, amount, key], or NoTerms
    recorded,  \* the rewards table
    moved, credited

Buckets(b) == [available |-> b.available, staked |-> b.staked, pending |-> b.pending]

LedgerInit ==
    /\ funds = [a \in Accounts |-> [available |-> Opening, staked |-> 0, pending |-> 0]]
    /\ terms = [i \in StakeIds |-> NoTerms]
    /\ recorded = {}
    /\ moved = [i \in StakeIds |-> {}]
    /\ credited = {}

\* A stake entity gets its terms, a reward row is inserted: no funds move.
Agree(i) ==
    /\ terms[i] = NoTerms
    /\ \A j \in StakeIds \ {i} : terms'[j] = terms[j]
    /\ UNCHANGED <<funds, recorded, moved, credited>>

Record ==
    /\ recorded \subseteq recorded'
    /\ UNCHANGED <<funds, terms, moved, credited>>

Apply(i, op, b) ==
    /\ funds' = [funds EXCEPT ![terms[i].account] = b]
    /\ moved' = [moved EXCEPT ![i] = @ \cup {op}]
    /\ UNCHANGED <<terms, recorded, credited>>

FundsOf(i) == funds[terms[i].account]
Agreed(i) == terms[i] # NoTerms

DoHold(i) ==
    /\ Agreed(i)
    /\ "hold" \notin moved[i]
    /\ MayHold(FundsOf(i), terms[i].amount)
    /\ Apply(i, "hold", Hold(FundsOf(i), terms[i].amount))

\* With two pollers a confirm can come after the complete of its stake.
DoConfirm(i) ==
    /\ "hold" \in moved[i]
    /\ moved[i] \cap {"release", "confirm"} = {}
    /\ MayConfirmStake(FundsOf(i), terms[i].amount)
    /\ Apply(i, "confirm", ConfirmStake(FundsOf(i), terms[i].amount))

DoRelease(i) ==
    /\ moved[i] = {"hold"}
    /\ MayReleaseHold(FundsOf(i), terms[i].amount)
    /\ Apply(i, "release", ReleaseHold(FundsOf(i), terms[i].amount))

DoComplete(i) ==
    /\ "hold" \in moved[i]
    /\ moved[i] \cap {"release", "complete"} = {}
    /\ MayCompleteUnstake(FundsOf(i), terms[i].amount)
    /\ Apply(i, "complete", CompleteUnstake(FundsOf(i), terms[i].amount))

DoCredit(r) ==
    /\ <<r.stake, r.day>> \notin credited
    /\ credited' = credited \cup {<<r.stake, r.day>>}
    /\ funds' = [funds EXCEPT ![terms[r.stake].account] = AddReward(@, r.amount)]
    /\ UNCHANGED <<terms, recorded, moved>>

DoSetAvailable(a, x) ==
    /\ funds' = [funds EXCEPT ![a].available = x]
    /\ UNCHANGED <<terms, recorded, moved, credited>>

LedgerNext ==
    \/ \E i \in StakeIds : \/ Agree(i) \/ DoHold(i) \/ DoConfirm(i)
                           \/ DoRelease(i) \/ DoComplete(i)
    \/ Record
    \/ \E r \in recorded : DoCredit(r)
    \/ \E a \in Accounts, x \in Deposits : DoSetAvailable(a, x)

ledgerVars == <<funds, terms, recorded, moved, credited>>

LedgerSpec == LedgerInit /\ [][LedgerNext]_ledgerVars
=============================================================================
