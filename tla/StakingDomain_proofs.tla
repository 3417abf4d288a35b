------------------------ MODULE StakingDomain_proofs ------------------------
(***************************************************************************)
(* The balance and stake operators keep their types, and move funds        *)
(* between buckets without making or losing any; and sums, as the          *)
(* properties add up amounts, grow and shrink with their index set.        *)
(***************************************************************************)
EXTENDS StakingDomain, Totals, FiniteSetTheorems, TLAPS

\* A balance record has four natural numbers, and stays one when a bucket or
\* the version is set to a natural number.
LEMMA BalanceFields ==
    ASSUME NEW b \in Balances
    PROVE  /\ b.available \in Nat
           /\ b.staked \in Nat
           /\ b.pending \in Nat
           /\ b.version \in Nat
  BY DEF Balances

\* Setting buckets of a balance, as the methods of balance.go do, pairwise.
LEMMA BalanceUpdates ==
    ASSUME NEW b \in Balances, NEW x \in Nat, NEW y \in Nat
    PROVE  /\ [b EXCEPT !.available = x, !.pending = y] \in Balances
           /\ [b EXCEPT !.pending = x, !.available = y] \in Balances
           /\ [b EXCEPT !.pending = x, !.staked = y] \in Balances
           /\ [b EXCEPT !.staked = x, !.available = y] \in Balances
           /\ [b EXCEPT !.available = x] \in Balances
           /\ [b EXCEPT !.version = x] \in Balances
  BY DEF Balances

\* Hold (balance.go) leaves no bucket negative.
LEMMA HoldType ==
    ASSUME NEW b \in Balances, NEW x \in Nat, MayHold(b, x)
    PROVE  Hold(b, x) \in Balances
<1>1. b.available - x \in Nat /\ b.pending + x \in Nat
  BY BalanceFields DEF MayHold
<1>. QED BY <1>1, BalanceUpdates DEF Hold

\* ConfirmStake (balance.go) leaves no bucket negative.
LEMMA ConfirmStakeType ==
    ASSUME NEW b \in Balances, NEW x \in Nat, MayConfirmStake(b, x)
    PROVE  ConfirmStake(b, x) \in Balances
<1>1. b.pending - x \in Nat /\ b.staked + x \in Nat
  BY BalanceFields DEF MayConfirmStake
<1>. QED BY <1>1, BalanceUpdates DEF ConfirmStake

\* ReleaseHold (balance.go) leaves no bucket negative, also when it refuses.
LEMMA ReleaseHoldType ==
    ASSUME NEW b \in Balances, NEW x \in Nat
    PROVE  ReleaseHold(b, x) \in Balances
<1>1. CASE MayReleaseHold(b, x)
  <2>1. b.pending - x \in Nat /\ b.available + x \in Nat
    BY <1>1, BalanceFields DEF MayReleaseHold
  <2>. QED BY <1>1, <2>1, BalanceUpdates DEF ReleaseHold
<1>2. CASE ~MayReleaseHold(b, x)
  BY <1>2 DEF ReleaseHold
<1>. QED BY <1>1, <1>2

\* CompleteUnstake (balance.go) leaves no bucket negative.
LEMMA CompleteUnstakeType ==
    ASSUME NEW b \in Balances, NEW x \in Nat, MayCompleteUnstake(b, x)
    PROVE  CompleteUnstake(b, x) \in Balances
<1>1. b.staked - x \in Nat /\ b.available + x \in Nat
  BY BalanceFields DEF MayCompleteUnstake
<1>. QED BY <1>1, BalanceUpdates DEF CompleteUnstake

\* AddReward (balance.go) leaves no bucket negative.
LEMMA AddRewardType ==
    ASSUME NEW b \in Balances, NEW x \in Nat
    PROVE  AddReward(b, x) \in Balances
<1>1. b.available + x \in Nat
  BY BalanceFields
<1>. QED BY <1>1, BalanceUpdates DEF AddReward

\* Version++ of a balance and of a stake.
LEMMA NextVersionType ==
    /\ \A b \in Balances : NextVersion(b) \in Balances
    /\ \A s \in Stakes : NextVersion(s) \in Stakes
  BY DEF Balances, Stakes, NextVersion

\* The transitions of stake.go give a stake again.
LEMMA TransitionTypes ==
    ASSUME NEW s \in Stakes
    PROVE  /\ Delegate(s) \in Stakes
           /\ Activate(s) \in Stakes
           /\ Unstake(s) \in Stakes
           /\ Withdraw(s) \in Stakes
           /\ Fail(s) \in Stakes
  BY DEF Stakes, StakeStates, LiveStates, TerminalStates,
         Delegate, Activate, Unstake, Withdraw, Fail

Total(b) == b.available + b.staked + b.pending

\* Holding, confirming, releasing and completing move funds between the
\* buckets of a balance: the total the customer owns does not change, and the
\* version is left to the caller.
THEOREM OperationsConserveFunds ==
    ASSUME NEW b \in Balances, NEW x \in Nat
    PROVE  /\ MayHold(b, x) => Total(Hold(b, x)) = Total(b)
           /\ MayConfirmStake(b, x) => Total(ConfirmStake(b, x)) = Total(b)
           /\ Total(ReleaseHold(b, x)) = Total(b)
           /\ MayCompleteUnstake(b, x) => Total(CompleteUnstake(b, x)) = Total(b)
<1>1. Total(Hold(b, x)) = Total(b)
  BY DEF Balances, Total, Hold
<1>2. Total(ConfirmStake(b, x)) = Total(b)
  BY DEF Balances, Total, ConfirmStake
<1>3. Total(ReleaseHold(b, x)) = Total(b)
  BY DEF Balances, Total, ReleaseHold
<1>4. Total(CompleteUnstake(b, x)) = Total(b)
  BY DEF Balances, Total, CompleteUnstake
<1>. QED BY <1>1, <1>2, <1>3, <1>4

-----------------------------------------------------------------------------
(* Sums.  A sum is a fold over a finite set, and there is no induction     *)
(* principle to cite with a property as its parameter.  What is used       *)
(* instead: a set of sets that has a member has a smallest one, and a sum  *)
(* of natural numbers is the number of elements of a set, of which the     *)
(* library knows what adding an element does.                              *)

\* Of the subsets in T of a finite set, one has no other below it.
LEMMA LeastSubset ==
    ASSUME NEW S, IsFiniteSet(S), NEW T \in SUBSET SUBSET S, T # {}
    PROVE  \E A \in T : \A B \in T : B \subseteq A => B = A
<1>1. IsWellFoundedOn(StrictSubsetOrdering(S), SUBSET S)
  BY FS_StrictSubsetOrderingWellFounded, FS_FiniteSubsetsOfFinite
<1>2. PICK A \in T : \A B \in T : ~(<<B, A>> \in StrictSubsetOrdering(S))
  BY <1>1, WFMin
<1>3. \A B \in T : B \subseteq A /\ B # A => <<B, A>> \in StrictSubsetOrdering(S)
  BY DEF StrictSubsetOrdering
<1>4. \A B \in T : B \subseteq A => B = A
  BY <1>2, <1>3
<1>. QED BY <1>4

\* x stands for f[x] units.
Units(f, S) == {u \in S \X (Nat \ {0}) : u[2] <= f[u[1]]}
UnitsOf(f, x) == {x} \X (1 .. f[x])

\* One element more brings its units.
LEMMA UnitsAdd ==
    ASSUME NEW f, NEW S, NEW x, x \notin S, f[x] \in Nat,
           IsFiniteSet(Units(f, S))
    PROVE  /\ IsFiniteSet(Units(f, S \cup {x}))
           /\ Cardinality(Units(f, S \cup {x})) = Cardinality(Units(f, S)) + f[x]
<1>1. /\ IsFiniteSet(UnitsOf(f, x))
      /\ Cardinality(UnitsOf(f, x)) = f[x]
  <2>1. IsFiniteSet({x}) /\ Cardinality({x}) = 1
    BY FS_Singleton
  <2>2. IsFiniteSet(1 .. f[x]) /\ Cardinality(1 .. f[x]) = f[x]
    BY FS_Interval
  <2>3. /\ IsFiniteSet(UnitsOf(f, x))
        /\ Cardinality(UnitsOf(f, x)) = Cardinality({x}) * Cardinality(1 .. f[x])
    BY <2>1, <2>2, FS_Product DEF UnitsOf
  <2>4. 1 * f[x] = f[x]
    OBVIOUS
  <2>. QED BY <2>1, <2>2, <2>3, <2>4
<1>2. Units(f, S \cup {x}) = Units(f, S) \cup UnitsOf(f, x)
  BY DEF Units, UnitsOf
<1>3. Units(f, S) \cap UnitsOf(f, x) = {}
  BY DEF Units, UnitsOf
<1>4. Cardinality(Units(f, S)) \in Nat
  BY FS_CardinalityType
<1>5. /\ IsFiniteSet(Units(f, S) \cup UnitsOf(f, x))
      /\ Cardinality(Units(f, S) \cup UnitsOf(f, x))
           = Cardinality(Units(f, S)) + Cardinality(UnitsOf(f, x))
               - Cardinality(Units(f, S) \cap UnitsOf(f, x))
  BY <1>1, FS_Union
<1>6. Cardinality(Units(f, S) \cap UnitsOf(f, x)) = 0
  BY <1>3, FS_EmptySet
<1>7. Cardinality(Units(f, S) \cup UnitsOf(f, x)) = Cardinality(Units(f, S)) + f[x]
  BY <1>1, <1>4, <1>5, <1>6
<1>. QED BY <1>2, <1>5, <1>7, Zenon

\* Nothing has no units.
LEMMA UnitsNone ==
    ASSUME NEW f
    PROVE  IsFiniteSet(Units(f, {})) /\ Cardinality(Units(f, {})) = 0
<1>1. Units(f, {}) = {}
  BY DEF Units
<1>. QED BY <1>1, FS_EmptySet

\* Finitely many numbers have finitely many units: of the subsets of S with
\* more, the smallest would have one element too many.
LEMMA UnitsFinite ==
    ASSUME NEW f, NEW S, IsFiniteSet(S), \A x \in S : f[x] \in Nat
    PROVE  IsFiniteSet(Units(f, S))
<1>. SUFFICES ASSUME ~IsFiniteSet(Units(f, S))
              PROVE  FALSE
  OBVIOUS
<1>. DEFINE T == {A \in SUBSET S : ~IsFiniteSet(Units(f, A))}
<1>1. PICK A \in T : \A B \in T : B \subseteq A => B = A
  <2>1. S \in T
    OBVIOUS
  <2>2. T \in SUBSET SUBSET S
    OBVIOUS
  <2>. HIDE DEF T
  <2>. QED BY <2>1, <2>2, LeastSubset
<1>2. A # {}
  BY UnitsNone
<1>3. PICK x \in A : TRUE
  BY <1>2
<1>4. A \ {x} \notin T
  BY <1>1, <1>3
<1>5. IsFiniteSet(Units(f, A \ {x}))
  BY <1>4
<1>6. A = (A \ {x}) \cup {x} /\ f[x] \in Nat
  BY <1>3
<1>. QED BY <1>5, <1>6, UnitsAdd

\* The fold that MapThenSumSet is defined by exists, since the count of the
\* units is one, and any such fold is that count.
LEMMA SumIsCount ==
    ASSUME NEW f, NEW S, IsFiniteSet(S), \A x \in S : f[x] \in Nat
    PROVE  SumOver(f, S) = Cardinality(Units(f, S))
<1>. DEFINE Fold(g) == [s \in SUBSET S |->
                          IF s = {} THEN 0
                          ELSE f[CHOOSE x \in s : TRUE] + g[s \ {CHOOSE x \in s : TRUE}]]
            Counts == [s \in SUBSET S |-> Cardinality(Units(f, s))]
            sums == CHOOSE g : g = Fold(g)
<1>1. SumOver(f, S) = sums[S]
  BY DEF SumOver, MapThenSumSet, MapThenFoldSet
<1>2. \A s \in SUBSET S : /\ IsFiniteSet(s)
                          /\ IsFiniteSet(Units(f, s))
                          /\ Cardinality(Units(f, s)) \in Nat
  BY FS_Subset, UnitsFinite, FS_CardinalityType
<1>3. ASSUME NEW s \in SUBSET S, s # {}
      PROVE  LET x == CHOOSE x \in s : TRUE IN
             /\ x \in s
             /\ s \ {x} \in SUBSET S
             /\ Cardinality(Units(f, s)) = f[x] + Cardinality(Units(f, s \ {x}))
  <2>. DEFINE x == CHOOSE x \in s : TRUE
  <2>1. x \in s
    BY <1>3
  <2>. HIDE DEF x
  <2>2. s \ {x} \in SUBSET S /\ s = (s \ {x}) \cup {x} /\ f[x] \in Nat
    BY <2>1
  <2>3. Cardinality(Units(f, (s \ {x}) \cup {x})) = Cardinality(Units(f, s \ {x})) + f[x]
    BY <1>2, <2>2, UnitsAdd
  <2>4. Cardinality(Units(f, s \ {x})) \in Nat
    BY <1>2, <2>2
  <2>5. Cardinality(Units(f, s)) = Cardinality(Units(f, s \ {x})) + f[x]
    BY <2>2, <2>3, Zenon
  <2>6. Cardinality(Units(f, s)) = f[x] + Cardinality(Units(f, s \ {x}))
    BY <2>2, <2>4, <2>5
  <2>. QED BY <2>1, <2>2, <2>6 DEF x
<1>4. Counts = Fold(Counts)
  BY <1>3, UnitsNone
<1>5. sums = Fold(sums)
  BY <1>4
<1>. HIDE DEF sums
<1>6. \A s \in SUBSET S : sums[s] = Counts[s]
  <2>. DEFINE T == {s \in SUBSET S : sums[s] # Counts[s]}
  <2>. SUFFICES ASSUME T # {}
                PROVE  FALSE
    OBVIOUS
  <2>1. PICK A \in T : \A B \in T : B \subseteq A => B = A
    <3>1. T \in SUBSET SUBSET S
      OBVIOUS
    <3>. HIDE DEF T
    <3>. QED BY <3>1, LeastSubset
  <2>2. A # {}
    BY <1>4, <1>5
  <2>. DEFINE x == CHOOSE x \in A : TRUE
  <2>3. x \in A /\ A \ {x} \in SUBSET S
    BY <2>2
  <2>4. A \ {x} \notin T
    BY <2>1, <2>3
  <2>5. sums[A \ {x}] = Counts[A \ {x}]
    BY <2>3, <2>4
  <2>6. sums[A] = f[x] + sums[A \ {x}]
    BY <1>5, <2>2
  <2>7. Counts[A] = f[x] + Counts[A \ {x}]
    BY <1>4, <2>2
  <2>. QED BY <2>1, <2>5, <2>6, <2>7
<1>. QED BY <1>1, <1>6

\* The sum over no elements.
LEMMA SumEmpty ==
    ASSUME NEW f
    PROVE  SumOver(f, {}) = 0
<1>1. SumOver(f, {}) = Cardinality(Units(f, {}))
  BY SumIsCount, FS_EmptySet
<1>. QED BY <1>1, UnitsNone

\* A sum of natural numbers is one.
LEMMA SumType ==
    ASSUME NEW f, NEW S, IsFiniteSet(S), \A x \in S : f[x] \in Nat
    PROVE  SumOver(f, S) \in Nat
<1>1. Cardinality(Units(f, S)) \in Nat
  BY UnitsFinite, FS_CardinalityType
<1>. QED BY <1>1, SumIsCount

\* An element more adds its value.
LEMMA SumAdd ==
    ASSUME NEW f, NEW S, IsFiniteSet(S), \A y \in S : f[y] \in Nat,
           NEW x, x \notin S, f[x] \in Nat
    PROVE  SumOver(f, S \cup {x}) = SumOver(f, S) + f[x]
<1>1. IsFiniteSet(S \cup {x}) /\ \A y \in S \cup {x} : f[y] \in Nat
  BY FS_AddElement
<1>2. SumOver(f, S \cup {x}) = Cardinality(Units(f, S \cup {x}))
  BY <1>1, SumIsCount
<1>3. SumOver(f, S) = Cardinality(Units(f, S))
  BY SumIsCount
<1>4. Cardinality(Units(f, S \cup {x})) = Cardinality(Units(f, S)) + f[x]
  BY UnitsFinite, UnitsAdd
<1>. QED BY <1>2, <1>3, <1>4

\* An element less takes its value away.
LEMMA SumRemove ==
    ASSUME NEW f, NEW S, IsFiniteSet(S), \A y \in S : f[y] \in Nat, NEW x \in S
    PROVE  SumOver(f, S) = SumOver(f, S \ {x}) + f[x]
<1>1. IsFiniteSet(S \ {x}) /\ S = (S \ {x}) \cup {x}
  BY FS_Subset
<1>2. SumOver(f, (S \ {x}) \cup {x}) = SumOver(f, S \ {x}) + f[x]
  BY <1>1, SumAdd
<1>. QED BY <1>1, <1>2, Zenon

\* A sum depends on the values of its elements only.
LEMMA SumSame ==
    ASSUME NEW f, NEW g, NEW S, IsFiniteSet(S),
           \A x \in S : f[x] \in Nat /\ f[x] = g[x]
    PROVE  SumOver(f, S) = SumOver(g, S)
<1>1. Units(f, S) = Units(g, S)
  BY DEF Units
<1>2. SumOver(f, S) = Cardinality(Units(f, S)) /\ SumOver(g, S) = Cardinality(Units(g, S))
  BY SumIsCount
<1>. QED BY <1>1, <1>2, Zenon
=============================================================================
