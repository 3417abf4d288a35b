------------------------ MODULE StakingDecimals_proofs ------------------------
(***************************************************************************)
(* What the roundings do to the funds of a customer, for every width of    *)
(* the column and of the division and for any amounts.  The products are   *)
(* confined to the lemmas about Multiple; the rest is linear.              *)
(***************************************************************************)
EXTENDS StakingDecimals, StakingDomain_proofs, FiniteSetTheorems

Multiple(x, u) == \E k \in Nat : x = k * u

-----------------------------------------------------------------------------
(* Rounding                                                                *)

\* Multiples add up and subtract, and two that are less than a unit apart
\* are equal.
LEMMA Multiples ==
    ASSUME NEW u \in Nat \ {0}, NEW a \in Nat, NEW b \in Nat,
           Multiple(a, u), Multiple(b, u)
    PROVE  /\ Multiple(a + b, u)
           /\ a >= b => Multiple(a - b, u)
           /\ a < b + u => a <= b
           /\ a > 0 => a >= u
           /\ Multiple(0, u)
<1>1. PICK k \in Nat, l \in Nat : a = k * u /\ b = l * u
  BY DEF Multiple
<1>2. a + b = (k + l) * u /\ k + l \in Nat
  BY <1>1
<1>3. ASSUME a >= b
      PROVE  Multiple(a - b, u)
  <2>1. k >= l
    BY <1>1, <1>3
  <2>2. a - b = (k - l) * u /\ k - l \in Nat
    BY <1>1, <2>1
  <2>. QED BY <2>2 DEF Multiple
<1>4. ASSUME a < b + u
      PROVE  a <= b
  <2>1. k < l + 1
    BY <1>1, <1>4
  <2>. QED BY <1>1, <2>1
<1>5. a > 0 => a >= u
  BY <1>1
<1>6. 0 = 0 * u
  OBVIOUS
<1>. QED BY <1>2, <1>3, <1>4, <1>5, <1>6 DEF Multiple

\* The multiples are the numbers without remainder, and a remainder is less
\* than the unit.
LEMMA Remainders ==
    ASSUME NEW u \in Nat \ {0}, NEW x \in Nat
    PROVE  /\ x % u \in Nat /\ x % u < u /\ x % u <= x
           /\ Multiple(x - (x % u), u)
           /\ Multiple(x, u) <=> x % u = 0
<1>. DEFINE q == x \div u
            r == x % u
<1>1. /\ r \in Nat /\ r < u
      /\ q \in Nat
      /\ x = u * q + r
  <2>1. r \in Nat /\ r < u
    OBVIOUS
  <2>2. q \in Nat
    OBVIOUS
  <2>3. x = u * q + r
    OBVIOUS
  <2>. QED BY <2>1, <2>2, <2>3
<1>. HIDE DEF q, r
<1>2. q * u \in Nat /\ u * q = q * u
  BY <1>1
<1>3. x - r = q * u /\ r <= x /\ x - r \in Nat
  BY <1>1, <1>2
<1>4. Multiple(x - r, u)
  BY <1>1, <1>3 DEF Multiple
<1>5. Multiple(x, u) => r = 0
  <2>1. Multiple(x, u) => x <= x - r
    BY <1>1, <1>3, <1>4, Multiples
  <2>. QED BY <1>1, <2>1
<1>6. r = 0 => Multiple(x, u)
  BY <1>4
<1>. QED BY <1>1, <1>3, <1>4, <1>5, <1>6 DEF r

\* RoundTo gives a multiple at most half a unit away, and above x when x is
\* halfway between two.
LEMMA Rounded ==
    ASSUME NEW u \in Nat \ {0}, NEW x \in Nat
    PROVE  /\ RoundTo(x, u) \in Nat
           /\ Multiple(RoundTo(x, u), u)
           /\ 2 * x < 2 * RoundTo(x, u) + u
           /\ 2 * RoundTo(x, u) <= 2 * x + u
           /\ 2 * RoundTo(x, u) = 2 * x + u => 2 * (x % u) = u
<1>. DEFINE q == (2 * x + u) \div (2 * u)
<1>1. q \in Nat /\ (2 * u) * q <= 2 * x + u /\ 2 * x + u < (2 * u) * q + 2 * u
  OBVIOUS
<1>2. RoundTo(x, u) = q * u
  BY DEF RoundTo
<1>. HIDE DEF q
<1>3. q * u \in Nat /\ (2 * u) * q = 2 * (q * u)
  BY <1>1
<1>4. /\ RoundTo(x, u) \in Nat
      /\ Multiple(RoundTo(x, u), u)
      /\ 2 * x < 2 * RoundTo(x, u) + u
      /\ 2 * RoundTo(x, u) <= 2 * x + u
  BY <1>1, <1>2, <1>3 DEF Multiple
<1>5. ASSUME 2 * RoundTo(x, u) = 2 * x + u
      PROVE  2 * (x % u) = u
  <2>. DEFINE low == x - (x % u)
              up == RoundTo(x, u)
              r == x % u
  <2>1. /\ r \in Nat /\ r < u /\ r <= x
        /\ low = x - r /\ Multiple(low, u)
    BY Remainders
  <2>2. /\ up \in Nat /\ Multiple(up, u)
        /\ 2 * up = 2 * x + u
    BY <1>4, <1>5
  <2>. HIDE DEF low, up, r
  <2>3. low \in Nat /\ 2 * up = 2 * low + 2 * r + u /\ up > low /\ 2 * up < 2 * low + 3 * u
    BY <2>1, <2>2
  <2>4. up - low \in Nat /\ Multiple(up - low, u)
    BY <2>1, <2>2, <2>3, Multiples
  <2>5. up - low >= u
    <3>1. up - low > 0
      BY <2>2, <2>3
    <3>. QED BY <2>4, <3>1, Multiples
  <2>6. Multiple(u, u)
    <3>1. u = 1 * u
      OBVIOUS
    <3>. QED BY <3>1 DEF Multiple
  <2>7. up - low < u + u
    BY <2>2, <2>3
  <2>8. up - low <= u
    BY <2>4, <2>6, <2>7, Multiples
  <2>9. 2 * r = u
    BY <2>1, <2>2, <2>5, <2>8, <2>3
  <2>. QED BY <2>9 DEF r
<1>. QED BY <1>4, <1>5

-----------------------------------------------------------------------------
(* Amounts in the column                                                   *)

Whole(x) == x \in Nat /\ Multiple(x, Place)

\* What is whole comes back from the column as it was, and passes through
\* the rounding of what is added to it.
LEMMA WholeStays ==
    ASSUME NEW m \in Nat, NEW x \in Nat, Whole(m)
    PROVE  /\ Whole(ToColumn(x))
           /\ ToColumn(m) = m
           /\ ToColumn(m + x) = m + ToColumn(x)
           /\ Whole(m + ToColumn(x))
<1>. Place \in Nat \ {0}
  BY DecimalsAssumption
<1>1. \A y \in Nat : /\ Whole(ToColumn(y))
                     /\ 2 * y < 2 * ToColumn(y) + Place
                     /\ 2 * ToColumn(y) <= 2 * y + Place
  BY Rounded DEF ToColumn, Whole
<1>2. \A a, b \in Nat : Whole(a) /\ Whole(b) => Whole(a + b) /\ (a < b + Place => a <= b)
  BY Multiples DEF Whole
<1>3. ToColumn(m) = m
  <2>. DEFINE c == ToColumn(m)
  <2>1. Whole(c) /\ 2 * m < 2 * c + Place /\ 2 * c <= 2 * m + Place
    BY <1>1
  <2>. HIDE DEF c
  <2>2. c \in Nat /\ c < m + Place /\ m < c + Place
    BY <2>1 DEF Whole
  <2>3. c <= m /\ m <= c
    BY <1>2, <2>1, <2>2
  <2>. QED BY <2>2, <2>3 DEF c
<1>4. ToColumn(m + x) = m + ToColumn(x)
  <2>. DEFINE c == ToColumn(x)
              d == ToColumn(m + x)
  <2>1. /\ Whole(c) /\ 2 * x < 2 * c + Place /\ 2 * c <= 2 * x + Place
        /\ Whole(d) /\ 2 * (m + x) < 2 * d + Place /\ 2 * d <= 2 * (m + x) + Place
    BY <1>1
  <2>. HIDE DEF c, d
  <2>2. c \in Nat /\ d \in Nat /\ Whole(m + c) /\ m + c \in Nat
    BY <1>2, <2>1 DEF Whole
  <2>3. d < (m + c) + Place /\ m + c < d + Place
    BY <2>1, <2>2
  <2>4. d <= m + c /\ m + c <= d
    BY <1>2, <2>1, <2>2, <2>3
  <2>. QED BY <2>2, <2>4 DEF c, d
<1>. QED BY <1>1, <1>2, <1>3, <1>4 DEF Whole

\* Taking an amount from one bucket and adding it to another, each rounded,
\* loses nothing, and gains a place only when the amount is halfway.
LEMMA SplitRounds ==
    ASSUME NEW m \in Nat, NEW x \in Nat, Whole(m), x <= m
    PROVE  /\ ToColumn(m - x) + ToColumn(x) >= m
           /\ ToColumn(m - x) + ToColumn(x)
                <= m + (IF 2 * (x % Place) = Place THEN Place ELSE 0)
<1>. Place \in Nat \ {0}
  BY DecimalsAssumption
<1>. DEFINE c == ToColumn(x)
            d == ToColumn(m - x)
<1>1. /\ c \in Nat /\ 2 * x < 2 * c + Place /\ 2 * c <= 2 * x + Place
      /\ d \in Nat /\ 2 * (m - x) < 2 * d + Place /\ 2 * d <= 2 * (m - x) + Place
      /\ 2 * c = 2 * x + Place => 2 * (x % Place) = Place
      /\ Multiple(c, Place) /\ Multiple(d, Place)
  <2>1. m - x \in Nat
    OBVIOUS
  <2>. QED BY <2>1, Rounded DEF ToColumn
<1>. HIDE DEF c, d
<1>2. d + c \in Nat /\ Multiple(d + c, Place) /\ Multiple(m, Place) /\ Multiple(Place, Place)
  <2>1. Multiple(d + c, Place)
    BY <1>1, Multiples
  <2>2. Place = 1 * Place
    OBVIOUS
  <2>3. Multiple(Place, Place)
    BY <2>2 DEF Multiple
  <2>. QED BY <1>1, <2>1, <2>3 DEF Whole
<1>3. m <= d + c
  <2>1. m < (d + c) + Place
    BY <1>1
  <2>. QED BY <1>2, <2>1, Multiples
<1>4. d + c <= m + Place
  BY <1>1
<1>5. ASSUME 2 * (x % Place) # Place
      PROVE  d + c <= m
  <2>1. d + c < m + Place
    BY <1>1, <1>5
  <2>. QED BY <1>2, <2>1, Multiples
<1>. QED BY <1>1, <1>3, <1>4, <1>5 DEF c, d

\* The wei of an amount, which are rounded by the digit after the point, are
\* what the column rounds it to, for every amount.
LEMMA RoundingsAgree ==
    ASSUME NEW x \in Nat
    PROVE  ToWei(x) = ToColumn(x)
<1>. DEFINE T == Tenth
            a == x \div T
            w == (a + 5) \div 10
<1>1. T \in Nat \ {0} /\ Place = 10 * T
  BY DecimalsAssumption DEF Tenth
<1>. HIDE DEF T
<1>2. a \in Nat /\ T * a <= x /\ x < T * a + T
  BY <1>1
<1>. HIDE DEF a
<1>3. w \in Nat /\ 10 * w <= a + 5 /\ a + 5 <= 10 * w + 9
  BY <1>2
<1>4. ToWei(x) = w * Place
  BY DEF ToWei, T, a
<1>. HIDE DEF w
<1>. DEFINE y == T * w
            z == T * a
<1>5. y \in Nat /\ z \in Nat
  BY <1>1, <1>2, <1>3
<1>6. T * (10 * w) <= T * (a + 5) /\ T * (a + 5) <= T * (10 * w + 9)
  <2>1. \A m, n \in Nat : m <= n => T * m <= T * n
    BY <1>1
  <2>. QED BY <1>2, <1>3, <2>1
<1>7. 10 * y <= z + 5 * T /\ z + 5 * T <= 10 * y + 9 * T
  <2>1. T * (10 * w) = 10 * y
    BY <1>1, <1>3
  <2>2. T * (a + 5) = z + 5 * T
    BY <1>1, <1>2
  <2>3. T * (10 * w + 9) = 10 * y + 9 * T
    BY <1>1, <1>3
  <2>. QED BY <1>6, <2>1, <2>2, <2>3
<1>8. w * Place = 10 * y
  BY <1>1, <1>3
<1>. DEFINE v == ToWei(x)
            c == ToColumn(x)
<1>9. /\ v = 10 * y /\ v \in Nat
      /\ Multiple(v, Place)
  BY <1>3, <1>4, <1>5, <1>8 DEF Multiple
<1>10. /\ c \in Nat /\ Multiple(c, Place)
       /\ 2 * x < 2 * c + Place /\ 2 * c <= 2 * x + Place
  BY Rounded, DecimalsAssumption DEF ToColumn
<1>. HIDE DEF v, c, y, z
<1>11. 2 * v <= 2 * x + Place /\ 2 * x < 2 * v + Place
  BY <1>1, <1>2, <1>5, <1>7, <1>9 DEF z
<1>12. v < c + Place /\ c < v + Place
  BY <1>1, <1>9, <1>10, <1>11
<1>13. v <= c /\ c <= v
  <2>1. \A m, n \in Nat :
           Multiple(m, Place) /\ Multiple(n, Place) /\ m < n + Place => m <= n
    BY Multiples, DecimalsAssumption
  <2>. QED BY <1>9, <1>10, <1>12, <2>1
<1>. QED BY <1>9, <1>10, <1>13 DEF v, c

-----------------------------------------------------------------------------
(* The invariant                                                           *)

Bounds ==
    /\ \A i \in StakeIds : asked[i] = 0 => sent[i] = 0
    /\ RoundingNeverTakes
    /\ RoundingGivesOnlyHalves

DecimalsInv == DecimalsTypeOK /\ Bounds

WholeBalance(b) == b \in Balances /\ Whole(b.available) /\ Whole(b.staked) /\ Whole(b.pending)

\* A balance as its row has it.
LEMMA WholeRow ==
    ASSUME DecimalsTypeOK
    PROVE  /\ WholeBalance(balance)
           /\ \A i \in StakeIds : Whole(rows[i].amount)
<1>1. /\ balance \in Balances
      /\ balance.available % Place = 0
      /\ balance.staked % Place = 0
      /\ balance.pending % Place = 0
  BY DEF DecimalsTypeOK
<1>2. \A i \in StakeIds : rows[i].amount \in Nat /\ rows[i].amount % Place = 0
  BY DEF DecimalsTypeOK
<1>3. \A x \in Nat : x % Place = 0 => Whole(x)
  BY Remainders, DecimalsAssumption DEF Whole
<1>. QED BY <1>1, <1>2, <1>3, BalanceFields DEF WholeBalance

\* What a balance with nothing beyond the column's places is.
LEMMA RowIsWhole ==
    ASSUME NEW b, WholeBalance(b)
    PROVE  /\ b \in Balances
           /\ b.available % Place = 0
           /\ b.staked % Place = 0
           /\ b.pending % Place = 0
  BY Remainders, DecimalsAssumption DEF Whole, WholeBalance

\* Storing a whole balance changes nothing.
LEMMA StoreWhole ==
    ASSUME NEW b, WholeBalance(b)
    PROVE  Store(b) = b
<1>1. /\ ToColumn(b.available) = b.available
      /\ ToColumn(b.staked) = b.staked
      /\ ToColumn(b.pending) = b.pending
  BY WholeStays DEF WholeBalance, Whole
<1>. QED BY <1>1 DEF Store, WholeBalance, Balances

\* Hold, saved.
LEMMA StoreHold ==
    ASSUME NEW b, WholeBalance(b), NEW x \in Nat, MayHold(b, x)
    PROVE  LET s == Store(Hold(b, x)) IN
           /\ WholeBalance(s)
           /\ Total(s) >= Total(b)
           /\ Total(s) <= Total(b) + (IF 2 * (x % Place) = Place THEN Place ELSE 0)
           /\ ToColumn(x) = 0 => Total(s) = Total(b)
           /\ s.pending = b.pending + ToColumn(x)
           /\ s.staked = b.staked
<1>. DEFINE s == Store(Hold(b, x))
<1>1. /\ b \in Balances /\ b.available \in Nat /\ b.staked \in Nat /\ b.pending \in Nat
      /\ x <= b.available /\ b.available - x \in Nat
      /\ Whole(b.available) /\ Whole(b.staked) /\ Whole(b.pending)
  BY BalanceFields DEF WholeBalance, MayHold
<1>2. /\ s.available = ToColumn(b.available - x)
      /\ s.staked = ToColumn(b.staked)
      /\ s.pending = ToColumn(b.pending + x)
      /\ s.version = b.version
  BY <1>1 DEF Store, Hold, Balances
<1>3. /\ s.staked = b.staked
      /\ s.pending = b.pending + ToColumn(x)
      /\ Whole(s.available) /\ Whole(s.pending) /\ Whole(ToColumn(x))
  BY <1>1, <1>2, WholeStays
<1>4. s \in Balances
  <2>1. Hold(b, x) \in Balances
    BY <1>1, HoldType
  <2>2. s \in [available : Nat, staked : Nat, pending : Nat, version : Nat]
    BY <1>1, <1>2, <1>3, <2>1 DEF Store, Balances, Whole
  <2>. QED BY <2>2 DEF Balances
<1>5. /\ s.available + ToColumn(x) >= b.available
      /\ s.available + ToColumn(x)
           <= b.available + (IF 2 * (x % Place) = Place THEN Place ELSE 0)
  BY <1>1, <1>2, SplitRounds
<1>6. s.available \in Nat /\ ToColumn(x) \in Nat
  BY <1>3 DEF Whole
<1>7. /\ Total(s) = s.available + ToColumn(x) + b.staked + b.pending
      /\ Total(b) = b.available + b.staked + b.pending
  BY <1>1, <1>3, <1>6 DEF Total
<1>. HIDE DEF s
<1>8. ASSUME ToColumn(x) = 0
      PROVE  Total(s) = Total(b)
  <2>1. /\ b.available - x \in Nat
        /\ 2 * ToColumn(b.available - x) <= 2 * (b.available - x) + Place
    BY <1>1, Rounded, DecimalsAssumption DEF ToColumn
  <2>2. s.available < b.available + Place
    BY <1>1, <1>2, <1>6, <2>1, DecimalsAssumption
  <2>3. s.available <= b.available
    BY <1>1, <1>3, <1>6, <2>2, Multiples, DecimalsAssumption DEF Whole
  <2>. QED BY <1>1, <1>5, <1>6, <1>7, <1>8, <2>3
<1>9. /\ Total(s) >= Total(b)
      /\ Total(s) <= Total(b) + (IF 2 * (x % Place) = Place THEN Place ELSE 0)
  <2>. DEFINE g == IF 2 * (x % Place) = Place THEN Place ELSE 0
  <2>1. g \in Nat
    BY DecimalsAssumption
  <2>2. s.available + ToColumn(x) <= b.available + g
    BY <1>5
  <2>. HIDE DEF g
  <2>3. Total(s) <= Total(b) + g
    BY <1>1, <1>6, <1>7, <2>1, <2>2
  <2>4. Total(s) >= Total(b)
    BY <1>1, <1>5, <1>6, <1>7
  <2>. QED BY <2>3, <2>4 DEF g
<1>. QED BY <1>1, <1>3, <1>4, <1>8, <1>9 DEF s, WholeBalance

\* The operations of the poller go by the whole amount of a row, so that
\* they move funds and round nothing.
LEMMA StoreMoved ==
    ASSUME NEW b, WholeBalance(b), NEW x, Whole(x)
    PROVE  LET Moves(c) == /\ WholeBalance(Store(c))
                           /\ Total(Store(c)) = Total(b)
                           /\ Store(c) = c
           IN
           /\ MayConfirmStake(b, x) => Moves(ConfirmStake(b, x))
           /\ Moves(ReleaseHold(b, x))
           /\ MayCompleteUnstake(b, x) => Moves(CompleteUnstake(b, x))
<1>. DEFINE Moves(c) == /\ WholeBalance(Store(c))
                        /\ Total(Store(c)) = Total(b)
                        /\ Store(c) = c
<1>1. /\ b \in Balances /\ x \in Nat
      /\ b.available \in Nat /\ b.staked \in Nat /\ b.pending \in Nat
      /\ Whole(b.available) /\ Whole(b.staked) /\ Whole(b.pending)
  BY BalanceFields DEF WholeBalance, Whole
<1>2. \A m, n \in Nat : Whole(m) /\ Whole(n) => /\ Whole(m + n)
                                                /\ m >= n => Whole(m - n)
  BY Multiples, DecimalsAssumption DEF Whole
<1>3. ASSUME NEW c, WholeBalance(c), Total(c) = Total(b)
      PROVE  Moves(c)
  BY <1>3, StoreWhole
<1>. HIDE DEF Moves
<1>4. ASSUME MayConfirmStake(b, x)
      PROVE  Moves(ConfirmStake(b, x))
  <2>1. ConfirmStake(b, x) \in Balances /\ Total(ConfirmStake(b, x)) = Total(b)
    BY <1>1, <1>4, ConfirmStakeType, OperationsConserveFunds
  <2>2. b.pending >= x /\ Whole(b.pending - x) /\ Whole(b.staked + x)
    BY <1>1, <1>2, <1>4 DEF MayConfirmStake
  <2>3. WholeBalance(ConfirmStake(b, x))
    BY <1>1, <2>1, <2>2 DEF WholeBalance, ConfirmStake, Balances
  <2>. QED BY <1>3, <2>1, <2>3
<1>5. ASSUME MayCompleteUnstake(b, x)
      PROVE  Moves(CompleteUnstake(b, x))
  <2>1. CompleteUnstake(b, x) \in Balances /\ Total(CompleteUnstake(b, x)) = Total(b)
    BY <1>1, <1>5, CompleteUnstakeType, OperationsConserveFunds
  <2>2. b.staked >= x /\ Whole(b.staked - x) /\ Whole(b.available + x)
    BY <1>1, <1>2, <1>5 DEF MayCompleteUnstake
  <2>3. WholeBalance(CompleteUnstake(b, x))
    BY <1>1, <2>1, <2>2 DEF WholeBalance, CompleteUnstake, Balances
  <2>. QED BY <1>3, <2>1, <2>3
<1>6. CASE MayReleaseHold(b, x)
  <2>1. ReleaseHold(b, x) \in Balances /\ Total(ReleaseHold(b, x)) = Total(b)
    BY <1>1, ReleaseHoldType, OperationsConserveFunds
  <2>2. b.pending >= x /\ Whole(b.pending - x) /\ Whole(b.available + x)
    BY <1>1, <1>2, <1>6 DEF MayReleaseHold
  <2>3. WholeBalance(ReleaseHold(b, x))
    BY <1>1, <1>6, <2>1, <2>2 DEF WholeBalance, ReleaseHold, Balances
  <2>4. Moves(ReleaseHold(b, x))
    BY <1>3, <2>1, <2>3
  <2>. QED BY <1>4, <1>5, <2>4 DEF Moves
<1>7. CASE ~MayReleaseHold(b, x)
  <2>1. Moves(ReleaseHold(b, x))
    BY <1>3, <1>7 DEF ReleaseHold
  <2>. QED BY <1>4, <1>5, <2>1 DEF Moves
<1>. QED BY <1>6, <1>7

\* A reward adds what the column makes of it.
LEMMA StoreReward ==
    ASSUME NEW b, WholeBalance(b), NEW x \in Nat
    PROVE  /\ WholeBalance(Store(AddReward(b, x)))
           /\ Total(Store(AddReward(b, x))) = Total(b) + ToColumn(x)
           /\ ToColumn(x) \in Nat
           /\ Store(AddReward(b, x)).pending = b.pending
           /\ Store(AddReward(b, x)).staked = b.staked
<1>. DEFINE s == Store(AddReward(b, x))
<1>1. /\ b \in Balances /\ b.available \in Nat /\ b.staked \in Nat /\ b.pending \in Nat
      /\ Whole(b.available) /\ Whole(b.staked) /\ Whole(b.pending)
  BY BalanceFields DEF WholeBalance
<1>2. /\ s.available = ToColumn(b.available + x)
      /\ s.staked = ToColumn(b.staked)
      /\ s.pending = ToColumn(b.pending)
      /\ s = [b EXCEPT !.available = s.available, !.staked = s.staked, !.pending = s.pending]
  BY <1>1 DEF Store, AddReward, Balances
<1>3. /\ s.available = b.available + ToColumn(x) /\ Whole(s.available)
      /\ s.staked = b.staked /\ s.pending = b.pending
      /\ ToColumn(x) \in Nat
  <2>1. /\ ToColumn(b.available + x) = b.available + ToColumn(x)
        /\ Whole(b.available + ToColumn(x))
        /\ ToColumn(b.staked) = b.staked
        /\ ToColumn(b.pending) = b.pending
        /\ Whole(ToColumn(x))
    BY <1>1, WholeStays
  <2>. QED BY <1>2, <2>1 DEF Whole
<1>. HIDE DEF s
<1>4. s \in Balances
  <2>1. s.available \in Nat
    BY <1>3 DEF Whole
  <2>. QED BY <1>1, <1>2, <1>3, <2>1 DEF Balances
<1>. QED BY <1>1, <1>3, <1>4 DEF s, WholeBalance, Total

-----------------------------------------------------------------------------
(* Every step keeps it                                                     *)

\* The stakes that may have gained a place: the same, or one more.
LEMMA HalvesGrow ==
    ASSUME DecimalsTypeOK, NEW i \in StakeIds, sent[i] = 0,
           NEW x \in Asked, asked' = [asked EXCEPT ![i] = x],
           NEW n \in Nat, sent' = [sent EXCEPT ![i] = n]
    PROVE  /\ Cardinality(Halves) \in Nat
           /\ n = 0 => Halves' = Halves
           /\ n # 0 => Place * Cardinality(Halves')
                         = Place * Cardinality(Halves)
                             + (IF 2 * (x % Place) = Place THEN Place ELSE 0)
<1>1. IsFiniteSet(StakeIds)
  BY FS_Interval, DecimalsAssumption DEF StakeIds
<1>2. IsFiniteSet(Halves) /\ Cardinality(Halves) \in Nat
  BY <1>1, FS_Subset, FS_CardinalityType DEF Halves
<1>3. /\ asked'[i] = x /\ sent'[i] = n
      /\ \A j \in StakeIds : j # i => asked'[j] = asked[j] /\ sent'[j] = sent[j]
  BY DEF DecimalsTypeOK
<1>4. i \notin Halves
  BY DEF Halves
<1>5. CASE n # 0 /\ 2 * (x % Place) = Place
  <2>1. Halves' = Halves \cup {i}
    BY <1>3, <1>5 DEF Halves
  <2>2. Cardinality(Halves') = Cardinality(Halves) + 1
    BY <1>2, <1>4, <2>1, FS_AddElement
  <2>. QED BY <1>2, <1>5, <2>2, DecimalsAssumption
<1>6. CASE n = 0 \/ 2 * (x % Place) # Place
  <2>1. Halves' = Halves
    BY <1>3, <1>4, <1>6 DEF Halves
  <2>. QED BY <1>2, <1>6, <2>1, DecimalsAssumption
<1>. QED BY <1>2, <1>5, <1>6

\* A hold that is released on the same copy leaves the balance as it was:
\* the two cancel before anything is rounded.
LEMMA RefusedKeeps ==
    ASSUME NEW b, WholeBalance(b), NEW x \in Nat, MayHold(b, x)
    PROVE  Store(ReleaseHold(Hold(b, x), x)) = b
<1>1. /\ b \in Balances /\ b.available \in Nat /\ b.pending \in Nat
      /\ x > 0 /\ b.available >= x
  BY BalanceFields DEF WholeBalance, MayHold
<1>2. /\ Hold(b, x).available = b.available - x
      /\ Hold(b, x).pending = b.pending + x
      /\ Hold(b, x) = [b EXCEPT !.available = b.available - x, !.pending = b.pending + x]
  BY <1>1 DEF Hold, Balances
<1>3. /\ MayReleaseHold(Hold(b, x), x)
      /\ (b.pending + x) - x = b.pending
      /\ (b.available - x) + x = b.available
  BY <1>1, <1>2 DEF MayReleaseHold
<1>4. ReleaseHold(Hold(b, x), x) = b
  BY <1>1, <1>2, <1>3 DEF ReleaseHold, Balances
<1>. QED BY <1>4, StoreWhole

\* CreateStake, whatever becomes of it.
LEMMA CreateStakeInv ==
    ASSUME DecimalsInv, NEW i \in StakeIds, NEW x \in Asked, CreateStake(i, x)
    PROVE  DecimalsInv'
<1>. DEFINE gain == IF 2 * (x % Place) = Place THEN Place ELSE 0
            Table == {t \in [StakeIds -> [state : StakeStates \cup {"NONE"}, amount : Nat]] :
                        \A j \in StakeIds : t[j].amount % Place = 0}
<1>1. /\ x \in Nat /\ WholeBalance(balance) /\ MayHold(balance, x)
      /\ sent[i] = 0 /\ gain \in Nat /\ Place \in Nat \ {0}
  BY WholeRow, DecimalsAssumption DEF DecimalsInv, Bounds, CreateStake
<1>2. /\ asked' = [asked EXCEPT ![i] = x]
      /\ asked' \in [StakeIds -> Asked \cup {0}]
      /\ UNCHANGED <<paid, credited, reports>>
      /\ Owed' = Owed
  BY DEF CreateStake, DecimalsInv, DecimalsTypeOK, Owed
<1>3. /\ Whole(ToColumn(x)) /\ ToColumn(x) \in Nat
      /\ rows \in Table
      /\ \A s \in StakeStates :
            [rows EXCEPT ![i] = [state |-> s, amount |-> ToColumn(x)]] \in Table
  <2>1. Whole(ToColumn(x))
    BY <1>1, Rounded DEF ToColumn, Whole
  <2>2. ToColumn(x) \in Nat /\ ToColumn(x) % Place = 0
    BY <1>1, <2>1, Remainders DEF Whole
  <2>3. rows \in Table
    BY DEF DecimalsInv, DecimalsTypeOK
  <2>4. ASSUME NEW s \in StakeStates
        PROVE  [rows EXCEPT ![i] = [state |-> s, amount |-> ToColumn(x)]] \in Table
    BY <2>2, <2>3
  <2>. QED BY <2>1, <2>2, <2>3, <2>4
<1>4. /\ WholeBalance(Store(Hold(balance, x)))
      /\ Total(Store(Hold(balance, x))) >= Total(balance)
      /\ Total(Store(Hold(balance, x))) <= Total(balance) + gain
      /\ ToColumn(x) = 0 => Total(Store(Hold(balance, x))) = Total(balance)
  BY <1>1, StoreHold
<1>5. OnBalance = Total(balance) /\ OnBalance' = Total(balance')
  BY DEF OnBalance, Total
<1>6. /\ Total(balance) \in Nat /\ Total(balance) >= Owed
      /\ Total(balance) <= Owed + Place * Cardinality(Halves)
      /\ Owed \in Nat
  <2>1. Total(balance) \in Nat
    BY <1>1, BalanceFields DEF Total, WholeBalance
  <2>2. Owed \in Nat
    <3>1. Opening * Place \in Nat /\ credited \in Nat
      BY <1>1, DecimalsAssumption DEF DecimalsInv, DecimalsTypeOK
    <3>. QED BY <3>1 DEF Owed
  <2>. QED BY <1>5, <2>1, <2>2
           DEF DecimalsInv, Bounds, RoundingNeverTakes, RoundingGivesOnlyHalves
<1>7. ASSUME NEW n \in Nat, sent' = [sent EXCEPT ![i] = n],
             WholeBalance(balance'), Total(balance') >= Total(balance),
             n = 0 => Total(balance') = Total(balance),
             Total(balance') <= Total(balance) + gain,
             rows' \in Table
      PROVE  DecimalsInv'
  <2>1. /\ rows' \in [StakeIds -> [state : StakeStates \cup {"NONE"}, amount : Nat]]
        /\ \A j \in StakeIds : rows'[j].amount % Place = 0
    BY <1>7
  <2>2. DecimalsTypeOK'
    BY <1>2, <1>7, <2>1, RowIsWhole DEF DecimalsInv, DecimalsTypeOK
  <2>3. \A j \in StakeIds : asked'[j] = 0 => sent'[j] = 0
    BY <1>2, <1>7, DecimalsAssumption DEF DecimalsInv, DecimalsTypeOK, Bounds
  <2>. HIDE DEF gain
  <2>4. /\ Cardinality(Halves) \in Nat
        /\ n = 0 => Place * Cardinality(Halves)' = Place * Cardinality(Halves)
        /\ n # 0 => Place * Cardinality(Halves)' = Place * Cardinality(Halves) + gain
    BY <1>1, <1>2, <1>7, HalvesGrow DEF DecimalsInv, gain
  <2>5. Total(balance') \in Nat
    BY <1>7, BalanceFields DEF WholeBalance, Total
  <2>6. Total(balance') >= Owed
    BY <1>6, <1>7, <2>5
  <2>7. Total(balance') <= Owed + Place * Cardinality(Halves)'
    <3>. DEFINE c == Place * Cardinality(Halves)
                d == Place * Cardinality(Halves)'
    <3>1. c \in Nat
      BY <1>1, <2>4
    <3>2. (n = 0 => d = c) /\ (n # 0 => d = c + gain)
      BY <2>4
    <3>3. Total(balance) <= Owed + c
      BY <1>6
    <3>. HIDE DEF c, d
    <3>4. Total(balance') <= Owed + d
      BY <1>1, <1>6, <1>7, <2>5, <3>1, <3>2, <3>3
    <3>. QED BY <3>4 DEF d
  <2>. QED
    BY <1>2, <1>5, <2>2, <2>3, <2>6, <2>7
       DEF DecimalsInv, Bounds, RoundingNeverTakes, RoundingGivesOnlyHalves
<1>8. CASE Accepted(i, x)
  <2>1. /\ ToColumn(x) > 0 /\ sent' = [sent EXCEPT ![i] = ToColumn(x)]
        /\ balance' = Store(Hold(balance, x))
        /\ rows' = [rows EXCEPT ![i] = [state |-> "DELEGATING", amount |-> ToColumn(x)]]
    BY <1>8, RoundingsAgree, DecimalsAssumption DEF Accepted, Insert
  <2>2. rows' \in Table
    BY <1>3, <2>1 DEF StakeStates, LiveStates
  <2>. HIDE DEF gain, Table
  <2>. QED BY <1>3, <1>4, <1>7, <2>1, <2>2
<1>9. CASE Refused(i, x)
  <2>2. balance' = balance
    BY <1>1, <1>9, RefusedKeeps DEF Refused
  <2>3. PICK n \in Nat : n = 0 /\ sent' = [sent EXCEPT ![i] = n]
    BY <1>1, <1>9 DEF Refused, DecimalsInv, DecimalsTypeOK
  <2>4. rows' = [rows EXCEPT ![i] = [state |-> "FAILED", amount |-> ToColumn(x)]]
    BY <1>9 DEF Refused, Insert
  <2>5. rows' \in Table
    BY <1>3, <2>4 DEF StakeStates, TerminalStates
  <2>6. Total(balance') = Total(balance) /\ Total(balance) <= Total(balance) + gain
    BY <1>1, <1>6, <2>2
  <2>7. WholeBalance(balance') /\ Total(balance') >= Total(balance)
    BY <1>1, <1>6, <2>2
  <2>. HIDE DEF gain, Table
  <2>. QED BY <1>6, <1>7, <2>3, <2>5, <2>6, <2>7
<1>10. CASE NotInserted(x)
  <2>1. /\ balance' = Store(Hold(balance, x)) /\ ToColumn(x) = 0
        /\ rows' = rows /\ sent' = [sent EXCEPT ![i] = ToColumn(x)]
    BY <1>1, <1>10 DEF NotInserted, DecimalsInv, DecimalsTypeOK
  <2>2. rows' \in Table
    BY <1>3, <2>1
  <2>. HIDE DEF gain, Table
  <2>. QED BY <1>3, <1>4, <1>7, <2>1, <2>2
<1>. QED BY <1>8, <1>9, <1>10 DEF CreateStake

\* Confirm, Fails and Complete move whole amounts.
LEMMA ReconcileInv ==
    ASSUME DecimalsInv, NEW i \in StakeIds, Confirm(i) \/ Fails(i) \/ Complete(i)
    PROVE  DecimalsInv'
<1>1. WholeBalance(balance) /\ Whole(rows[i].amount)
  BY WholeRow DEF DecimalsInv
<1>2. /\ UNCHANGED <<asked, sent, paid, credited, reports>>
      /\ \E to \in StakeStates : rows' = [rows EXCEPT ![i].state = to]
      /\ WholeBalance(balance') /\ Total(balance') = Total(balance)
  <2>1. CASE Confirm(i)
    BY <1>1, <2>1, StoreMoved DEF Confirm, Reconcile, StakeStates, LiveStates
  <2>2. CASE Fails(i)
    BY <1>1, <2>2, StoreMoved DEF Fails, Reconcile, StakeStates, TerminalStates
  <2>3. CASE Complete(i)
    BY <1>1, <2>3, StoreMoved DEF Complete, Reconcile, StakeStates, TerminalStates
  <2>. QED BY <2>1, <2>2, <2>3
<1>3. /\ rows' \in [StakeIds -> [state : StakeStates \cup {"NONE"}, amount : Nat]]
      /\ \A j \in StakeIds : rows'[j].amount = rows[j].amount
  BY <1>2 DEF DecimalsInv, DecimalsTypeOK
<1>4. DecimalsTypeOK'
  BY <1>2, <1>3, RowIsWhole DEF DecimalsInv, DecimalsTypeOK
<1>5. OnBalance' = OnBalance /\ Halves' = Halves /\ Owed' = Owed
  BY <1>2 DEF OnBalance, Total, Halves, Owed
<1>. QED BY <1>2, <1>4, <1>5
         DEF DecimalsInv, Bounds, RoundingNeverTakes, RoundingGivesOnlyHalves

\* A reward adds to the balance what it adds to the credit.
LEMMA FetchRewardInv ==
    ASSUME DecimalsInv, NEW wei \in Paid, FetchReward(wei)
    PROVE  DecimalsInv'
<1>. DEFINE x == FromWei(wei)
<1>1. /\ x \in Nat /\ wei * Place \in Nat
      /\ WholeBalance(balance)
  <2>1. wei * Place \in Nat
    BY DecimalsAssumption
  <2>. QED BY <2>1, Rounded, WholeRow, DecimalsAssumption DEF FromWei, DecimalsInv
<1>2. /\ UNCHANGED <<rows, asked, sent>>
      /\ credited' = credited + ToColumn(x)
      /\ balance' = Store(AddReward(balance, x))
      /\ paid' = paid + wei * Place
      /\ reports < MaxRewards /\ reports' = reports + 1
  BY DEF FetchReward
<1>. HIDE DEF x
<1>3. /\ WholeBalance(balance') /\ Total(balance') = Total(balance) + ToColumn(x)
      /\ ToColumn(x) \in Nat
  BY <1>1, <1>2, StoreReward
<1>4. DecimalsTypeOK'
  <2>1. reports' \in 0 .. MaxRewards
    BY <1>2, DecimalsAssumption DEF DecimalsInv, DecimalsTypeOK
  <2>. QED BY <1>1, <1>2, <1>3, <2>1, RowIsWhole DEF DecimalsInv, DecimalsTypeOK
<1>5. Bounds'
  <2>. DEFINE c == Place * Cardinality(Halves)
              g == ToColumn(x)
              o == Opening * Place
  <2>1. /\ Halves' = Halves
        /\ OnBalance' = OnBalance + g
        /\ OnBalance = Total(balance) /\ OnBalance \in Nat
        /\ OnBalance >= o + credited /\ OnBalance <= o + credited + c
        /\ credited' = credited + g /\ g \in Nat /\ credited \in Nat
    <3>1. OnBalance = Total(balance) /\ OnBalance' = Total(balance')
      BY DEF OnBalance, Total
    <3>2. Total(balance) \in Nat
      BY <1>1, BalanceFields DEF Total, WholeBalance
    <3>3. Halves' = Halves
      BY <1>2 DEF Halves
    <3>. QED BY <1>2, <1>3, <3>1, <3>2, <3>3
             DEF DecimalsInv, DecimalsTypeOK, Bounds, RoundingNeverTakes,
                 RoundingGivesOnlyHalves, Owed
  <2>2. o \in Nat /\ c \in Nat /\ Owed' = o + credited' /\ c' = c
    <3>1. IsFiniteSet(StakeIds)
      BY FS_Interval, DecimalsAssumption DEF StakeIds
    <3>2. Cardinality(Halves) \in Nat
      BY <3>1, FS_Subset, FS_CardinalityType DEF Halves
    <3>. QED BY <2>1, <3>2, DecimalsAssumption DEF Owed
  <2>3. /\ Owed' = o + credited'
        /\ Place * Cardinality(Halves)' = c
    BY <2>2
  <2>. HIDE DEF c, g, o
  <2>4. OnBalance' >= o + credited' /\ OnBalance' <= o + credited' + c
    BY <2>1, <2>2
  <2>. QED BY <1>2, <2>3, <2>4
           DEF DecimalsInv, Bounds, RoundingNeverTakes, RoundingGivesOnlyHalves
<1>. QED BY <1>4, <1>5 DEF DecimalsInv

\* At the start the balance is the opening deposit, in whole places.
LEMMA InitDecimalsInv == DecimalsInit => DecimalsInv
<1>. SUFFICES ASSUME DecimalsInit
              PROVE  DecimalsInv
  OBVIOUS
<1>. DEFINE o == Opening * Place
<1>1. /\ o \in Nat /\ o % Place = 0 /\ 0 % Place = 0
  <2>1. Opening \in Nat /\ Place \in Nat \ {0}
    BY DecimalsAssumption
  <2>2. o \in Nat /\ Multiple(o, Place)
    BY <2>1 DEF Multiple
  <2>. QED BY <2>1, <2>2, Remainders
<1>. HIDE DEF o
<1>2. /\ balance \in Balances
      /\ balance.available = o /\ balance.staked = 0 /\ balance.pending = 0
  BY <1>1 DEF DecimalsInit, NewBalance, NoBalance, Balances, o
<1>3. /\ rows \in [StakeIds -> [state : StakeStates \cup {"NONE"}, amount : Nat]]
      /\ \A i \in StakeIds : rows[i].amount = 0
  BY DEF DecimalsInit, NoRow
<1>4. DecimalsTypeOK
  BY <1>1, <1>2, <1>3, DecimalsAssumption DEF DecimalsInit, DecimalsTypeOK
<1>5. Cardinality(Halves) = 0 /\ Owed = o /\ OnBalance = o
  <2>1. Halves = {}
    BY DEF Halves, DecimalsInit
  <2>. QED BY <1>1, <1>2, <2>1, FS_EmptySet DEF Owed, OnBalance, DecimalsInit, o
<1>. QED
  BY <1>1, <1>4, <1>5, DecimalsAssumption
     DEF DecimalsInv, Bounds, RoundingNeverTakes, RoundingGivesOnlyHalves, DecimalsInit

\* Every operation preserves the invariant.
LEMMA NextDecimalsInv == DecimalsInv /\ [DecimalsNext]_vars => DecimalsInv'
<1>. SUFFICES ASSUME DecimalsInv, [DecimalsNext]_vars
              PROVE  DecimalsInv'
  OBVIOUS
<1>1. CASE UNCHANGED vars
  BY <1>1 DEF vars, DecimalsInv, DecimalsTypeOK, Bounds, RoundingNeverTakes,
              RoundingGivesOnlyHalves, OnBalance, Owed, Halves
<1>. QED BY <1>1, CreateStakeInv, ReconcileInv, FetchRewardInv DEF DecimalsNext

\* Amounts in the tables are whole in the column's places and never
\* negative, whatever amounts are asked for and paid.
THEOREM DecimalsTypeCorrect == DecimalsSpec => []DecimalsTypeOK
<1>1. DecimalsInv => DecimalsTypeOK
  BY DEF DecimalsInv
<1>. QED BY <1>1, InitDecimalsInv, NextDecimalsInv, PTL DEF DecimalsSpec

\* Rounding never costs the customer anything.
THEOREM NothingLost == DecimalsSpec => []RoundingNeverTakes
<1>1. DecimalsInv => RoundingNeverTakes
  BY DEF DecimalsInv, Bounds
<1>. QED BY <1>1, InitDecimalsInv, NextDecimalsInv, PTL DEF DecimalsSpec

\* It brings at most one place for each accepted stake whose amount lay
\* halfway between two.
THEOREM LittleGained == DecimalsSpec => []RoundingGivesOnlyHalves
<1>1. DecimalsInv => RoundingGivesOnlyHalves
  BY DEF DecimalsInv, Bounds
<1>. QED BY <1>1, InitDecimalsInv, NextDecimalsInv, PTL DEF DecimalsSpec

\* What rewards credit stays within half a place of the division of what was
\* paid, for each, where a place of the division is a number of the column's.
THEOREM RewardsTracked ==
    ASSUME Multiple(Grain, Place)
    PROVE  DecimalsSpec => []RewardsTrackPayments
<1>1. DecimalsInit => RewardsTrackPayments
  BY DecimalsAssumption DEF DecimalsInit, RewardsTrackPayments
<1>2. ASSUME DecimalsInv, RewardsTrackPayments, NEW wei \in Paid, FetchReward(wei)
      PROVE  RewardsTrackPayments'
  <2>. DEFINE y == wei * Place
              x == FromWei(wei)
  <2>1. y \in Nat /\ Place \in Nat \ {0} /\ Grain \in Nat \ {0}
    BY DecimalsAssumption
  <2>2. /\ x \in Nat /\ Multiple(x, Grain)
        /\ 2 * y < 2 * x + Grain /\ 2 * x <= 2 * y + Grain
    BY <2>1, Rounded DEF FromWei
  <2>3. Whole(x)
    <3>1. PICK k \in Nat, l \in Nat : x = k * Grain /\ Grain = l * Place
      BY <2>2 DEF Multiple
    <3>2. x = (k * l) * Place /\ k * l \in Nat
      BY <2>1, <3>1
    <3>. QED BY <2>2, <3>2 DEF Whole, Multiple
  <2>4. ToColumn(x) = x
    BY <2>2, <2>3, WholeStays
  <2>5. /\ paid' = paid + y /\ credited' = credited + x /\ reports' = reports + 1
        /\ paid \in Nat /\ credited \in Nat /\ reports \in Nat
    BY <1>2, <2>4, DecimalsAssumption DEF FetchReward, DecimalsInv, DecimalsTypeOK
  <2>. HIDE DEF x, y
  <2>. DEFINE g == reports * Grain
  <2>6. g \in Nat /\ (reports + 1) * Grain = g + Grain
    BY <2>1, <2>5
  <2>7. 2 * credited <= 2 * paid + g /\ 2 * paid <= 2 * credited + g
    BY <1>2 DEF RewardsTrackPayments
  <2>. HIDE DEF g
  <2>8. /\ 2 * (credited + x) <= 2 * (paid + y) + (g + Grain)
        /\ 2 * (paid + y) <= 2 * (credited + x) + (g + Grain)
    BY <2>1, <2>2, <2>5, <2>6, <2>7
  <2>. QED BY <2>5, <2>6, <2>8 DEF RewardsTrackPayments
<1>3. DecimalsInv /\ RewardsTrackPayments /\ [DecimalsNext]_vars => RewardsTrackPayments'
  <2>1. ASSUME UNCHANGED <<paid, credited, reports>>, RewardsTrackPayments
        PROVE  RewardsTrackPayments'
    BY <2>1 DEF RewardsTrackPayments
  <2>2. \A i \in StakeIds : \A x : CreateStake(i, x) => UNCHANGED <<paid, credited, reports>>
    BY DEF CreateStake
  <2>3. \A i \in StakeIds : Confirm(i) \/ Fails(i) \/ Complete(i)
                               => UNCHANGED <<paid, credited, reports>>
    BY DEF Confirm, Fails, Complete, Reconcile
  <2>. QED BY <1>2, <2>1, <2>2, <2>3 DEF DecimalsNext, vars
<1>. QED BY <1>1, <1>3, InitDecimalsInv, NextDecimalsInv, PTL DEF DecimalsSpec

\* The provider stakes what the row records, and no later step changes either.
SentIsStored ==
    \A i \in StakeIds :
        rows[i].state \in {"DELEGATING", "ACTIVE", "WITHDRAWN"} => sent[i] = rows[i].amount

LEMMA SentAsStored == DecimalsSpec => [](DecimalsTypeOK /\ SentIsStored)
<1>. DEFINE Inv == /\ DecimalsInv
                   /\ SentIsStored
<1>1. DecimalsInit => Inv
  BY InitDecimalsInv DEF DecimalsInit, NoRow, SentIsStored
<1>2. Inv /\ [DecimalsNext]_vars => Inv'
  <2>. SUFFICES ASSUME DecimalsInv, SentIsStored, [DecimalsNext]_vars
                PROVE  SentIsStored'
    BY NextDecimalsInv
  <2>1. /\ rows \in [StakeIds -> [state : StakeStates \cup {"NONE"}, amount : Nat]]
        /\ sent \in [StakeIds -> Nat]
    BY DEF DecimalsInv, DecimalsTypeOK
  <2>2. ASSUME UNCHANGED <<rows, sent>>
        PROVE  SentIsStored'
    BY <2>2 DEF SentIsStored
  <2>3. ASSUME NEW i \in StakeIds, NEW x \in Asked, Accepted(i, x)
        PROVE  SentIsStored'
    <3>1. /\ rows'[i].amount = sent'[i]
          /\ \A j \in StakeIds \ {i} : rows'[j] = rows[j] /\ sent'[j] = sent[j]
      <4>1. ToWei(x) = ToColumn(x)
        BY RoundingsAgree, DecimalsAssumption
      <4>. QED BY <2>1, <2>3, <4>1 DEF Accepted, Insert
    <3>. QED BY <3>1 DEF SentIsStored
  <2>4. ASSUME NEW i \in StakeIds, NEW x \in Asked, Refused(i, x)
        PROVE  SentIsStored'
    <3>1. /\ rows'[i].state = "FAILED" /\ UNCHANGED sent
          /\ \A j \in StakeIds \ {i} : rows'[j] = rows[j]
      BY <2>1, <2>4 DEF Refused, Insert
    <3>. QED BY <3>1 DEF SentIsStored
  <2>5. ASSUME NEW i \in StakeIds, Confirm(i) \/ Fails(i) \/ Complete(i)
        PROVE  SentIsStored'
    <3>1. PICK from \in {"DELEGATING", "ACTIVE"}, to \in {"ACTIVE", "FAILED", "WITHDRAWN"} :
             \E b : Reconcile(i, from, to, b)
      BY <2>5 DEF Confirm, Fails, Complete
    <3>2. /\ rows[i].state \in {"DELEGATING", "ACTIVE"} /\ UNCHANGED sent
          /\ rows'[i].amount = rows[i].amount
          /\ \A j \in StakeIds \ {i} : rows'[j] = rows[j]
      BY <2>1, <3>1 DEF Reconcile
    <3>. QED BY <3>2 DEF SentIsStored
  <2>6. \A i \in StakeIds, x \in Asked : CreateStake(i, x) => SentIsStored'
    BY <2>2, <2>3, <2>4 DEF CreateStake, NotInserted
  <2>7. \A wei \in Paid : FetchReward(wei) => SentIsStored'
    BY <2>2 DEF FetchReward
  <2>. QED BY <2>2, <2>5, <2>6, <2>7 DEF DecimalsNext, vars
<1>3. Inv => DecimalsTypeOK /\ SentIsStored
  BY DEF DecimalsInv
<1>. QED BY <1>1, <1>2, <1>3, PTL DEF DecimalsSpec

-----------------------------------------------------------------------------
(* The buckets are the sums of the rows.  A step touches one row: the sum  *)
(* of a state is that of the other rows in it and, perhaps, this one.      *)

NoneAsked == \A i \in StakeIds : asked[i] = 0 => rows[i] = NoRow

Tables == [StakeIds -> [state : StakeStates \cup {"NONE"}, amount : Nat]]
Amounts(t) == [i \in StakeIds |-> t[i].amount]
Others(t, i, st) == SumOver(Amounts(t), {j \in StakeIds \ {i} : t[j].state = st})
Share(t, i, st) == IF t[i].state = st THEN t[i].amount ELSE 0

\* The sum of a state, with one row apart.
LEMMA OneApart ==
    ASSUME NEW t \in Tables, NEW i \in StakeIds, NEW st
    PROVE  /\ SumOver(Amounts(t), {j \in StakeIds : t[j].state \in {st}})
                = Others(t, i, st) + Share(t, i, st)
           /\ Others(t, i, st) \in Nat
           /\ Share(t, i, st) \in Nat
<1>. DEFINE S == {j \in StakeIds \ {i} : t[j].state = st}
            A == {j \in StakeIds : t[j].state \in {st}}
            f == Amounts(t)
<1>1. IsFiniteSet(S)
  <2>1. IsFiniteSet(StakeIds)
    BY FS_Interval, DecimalsAssumption DEF StakeIds
  <2>2. S \subseteq StakeIds
    OBVIOUS
  <2>. QED BY <2>1, <2>2, FS_Subset
<1>2. \A j \in StakeIds : f[j] = t[j].amount /\ f[j] \in Nat
  BY DEF Amounts, Tables
<1>3. Others(t, i, st) = SumOver(f, S) /\ SumOver(f, S) \in Nat
  BY <1>1, <1>2, SumType DEF Others
<1>4. CASE t[i].state = st
  <2>1. A = S \cup {i}
    BY <1>4
  <2>2. i \notin S /\ f[i] \in Nat /\ \A y \in S : f[y] \in Nat
    BY <1>2
  <2>. HIDE DEF S, f
  <2>3. SumOver(f, S \cup {i}) = SumOver(f, S) + f[i]
    BY <1>1, <2>2, SumAdd
  <2>4. SumOver(f, A) = SumOver(f, S) + t[i].amount
    BY <1>2, <2>1, <2>3
  <2>. QED BY <1>2, <1>3, <1>4, <2>4 DEF Share, f
<1>5. CASE t[i].state # st
  <2>1. A = S
    BY <1>5
  <2>2. SumOver(f, A) = SumOver(f, S) /\ Share(t, i, st) = 0
    BY <1>5, <2>1 DEF Share
  <2>. HIDE DEF S
  <2>. QED BY <1>3, <2>2
<1>. QED BY <1>4, <1>5

\* The other rows are not touched, nor is their sum.
LEMMA OthersStay ==
    ASSUME NEW t \in Tables, NEW u \in Tables, NEW i \in StakeIds, NEW st,
           \A j \in StakeIds \ {i} : t[j] = u[j]
    PROVE  Others(t, i, st) = Others(u, i, st)
<1>. DEFINE S == {j \in StakeIds \ {i} : t[j].state = st}
<1>1. IsFiniteSet(S)
  <2>1. IsFiniteSet(StakeIds)
    BY FS_Interval, DecimalsAssumption DEF StakeIds
  <2>2. S \subseteq StakeIds
    OBVIOUS
  <2>. QED BY <2>1, <2>2, FS_Subset
<1>2. \A j \in S : Amounts(t)[j] \in Nat /\ Amounts(t)[j] = Amounts(u)[j]
  BY DEF Amounts, Tables
<1>3. {j \in StakeIds \ {i} : u[j].state = st} = S
  OBVIOUS
<1>4. SumOver(Amounts(t), S) = SumOver(Amounts(u), S)
  BY <1>1, <1>2, SumSame
<1>. QED BY <1>3, <1>4 DEF Others

\* A step moves the buckets as it moves the row.
LEMMA BucketsMove ==
    ASSUME DecimalsTypeOK, DecimalsTypeOK', BucketsCoverRows,
           NEW i \in StakeIds, \A j \in StakeIds \ {i} : rows'[j] = rows[j],
           balance'.pending + Share(rows, i, "DELEGATING")
             = balance.pending + Share(rows', i, "DELEGATING"),
           balance'.staked + Share(rows, i, "ACTIVE")
             = balance.staked + Share(rows', i, "ACTIVE")
    PROVE  BucketsCoverRows'
<1>. DEFINE sum(t, st) == SumOver(Amounts(t), {j \in StakeIds : t[j].state \in {st}})
<1>1. /\ rows \in Tables /\ rows' \in Tables
      /\ balance'.pending \in Nat /\ balance'.staked \in Nat
  BY BalanceFields DEF DecimalsTypeOK, Tables
<1>2. ASSUME NEW st
      PROVE  /\ sum(rows, st) = Others(rows, i, st) + Share(rows, i, st)
             /\ sum(rows', st) = Others(rows, i, st) + Share(rows', i, st)
             /\ Others(rows, i, st) \in Nat
             /\ Share(rows, i, st) \in Nat /\ Share(rows', i, st) \in Nat
  <2>1. Others(rows', i, st) = Others(rows, i, st)
    BY <1>1, OthersStay
  <2>. QED BY <1>1, <2>1, OneApart
<1>3. /\ balance.pending = sum(rows, "DELEGATING")
      /\ balance.staked = sum(rows, "ACTIVE")
  BY DEF BucketsCoverRows, SumOfRows, RowAmounts, Amounts
<1>. HIDE DEF sum
<1>4. /\ balance'.pending = sum(rows', "DELEGATING")
      /\ balance'.staked = sum(rows', "ACTIVE")
  BY <1>1, <1>2, <1>3
<1>. QED BY <1>4 DEF BucketsCoverRows, SumOfRows, RowAmounts, Amounts, sum

\* CreateStake puts into pending what its row records, or neither.
LEMMA CreateStakeCovers ==
    ASSUME DecimalsInv, DecimalsTypeOK', NoneAsked, BucketsCoverRows,
           NEW i \in StakeIds, NEW x \in Asked, CreateStake(i, x)
    PROVE  BucketsCoverRows'
<1>1. /\ x \in Nat /\ WholeBalance(balance) /\ MayHold(balance, x)
      /\ balance.pending \in Nat /\ balance.staked \in Nat
      /\ rows \in Tables /\ rows[i] = NoRow
      /\ DecimalsTypeOK
  BY WholeRow, BalanceFields, DecimalsAssumption
     DEF DecimalsInv, DecimalsTypeOK, WholeBalance, CreateStake, NoneAsked, Tables
<1>2. /\ Share(rows, i, "DELEGATING") = 0
      /\ Share(rows, i, "ACTIVE") = 0
  BY <1>1 DEF Share, NoRow
<1>3. /\ Store(Hold(balance, x)).pending = balance.pending + ToColumn(x)
      /\ Store(Hold(balance, x)).staked = balance.staked
      /\ ToColumn(x) \in Nat
  BY <1>1, StoreHold, Rounded, DecimalsAssumption DEF ToColumn
<1>4. CASE Accepted(i, x)
  <2>1. /\ rows' = [rows EXCEPT ![i] = [state |-> "DELEGATING", amount |-> ToColumn(x)]]
        /\ balance' = Store(Hold(balance, x))
    BY <1>4 DEF Accepted, Insert
  <2>2. /\ rows'[i] = [state |-> "DELEGATING", amount |-> ToColumn(x)]
        /\ \A j \in StakeIds \ {i} : rows'[j] = rows[j]
    BY <1>1, <2>1 DEF Tables
  <2>3. Share(rows', i, "DELEGATING") = ToColumn(x) /\ Share(rows', i, "ACTIVE") = 0
    BY <2>2 DEF Share
  <2>4. /\ balance'.pending + Share(rows, i, "DELEGATING")
             = balance.pending + Share(rows', i, "DELEGATING")
        /\ balance'.staked + Share(rows, i, "ACTIVE")
             = balance.staked + Share(rows', i, "ACTIVE")
    BY <1>1, <1>2, <1>3, <2>1, <2>3
  <2>. QED BY <1>1, <2>2, <2>4, BucketsMove
<1>5. CASE Refused(i, x)
  <2>1. /\ rows' = [rows EXCEPT ![i] = [state |-> "FAILED", amount |-> ToColumn(x)]]
        /\ balance' = balance
    BY <1>1, <1>5, RefusedKeeps DEF Refused, Insert
  <2>2. /\ rows'[i] = [state |-> "FAILED", amount |-> ToColumn(x)]
        /\ \A j \in StakeIds \ {i} : rows'[j] = rows[j]
    BY <1>1, <2>1 DEF Tables
  <2>3. Share(rows', i, "DELEGATING") = 0 /\ Share(rows', i, "ACTIVE") = 0
    BY <2>2 DEF Share
  <2>. QED BY <1>1, <1>2, <2>1, <2>2, <2>3, BucketsMove
<1>6. CASE NotInserted(x)
  <2>1. rows' = rows /\ balance' = Store(Hold(balance, x)) /\ ToColumn(x) = 0
    BY <1>6 DEF NotInserted
  <2>2. balance'.pending = balance.pending /\ balance'.staked = balance.staked
    BY <1>1, <1>3, <2>1
  <2>. QED BY <2>1, <2>2 DEF BucketsCoverRows, SumOfRows, RowAmounts
<1>. QED BY <1>4, <1>5, <1>6 DEF CreateStake

\* The poller takes from a bucket what the row, leaving its state, takes from
\* the sum: that it is there is what lets the release of a hold go through.
LEMMA ReconcileCovers ==
    ASSUME DecimalsInv, DecimalsTypeOK', BucketsCoverRows,
           NEW i \in StakeIds, Confirm(i) \/ Fails(i) \/ Complete(i)
    PROVE  BucketsCoverRows'
<1>. DEFINE b == balance
            a == rows[i].amount
<1>1. /\ WholeBalance(b) /\ Whole(a) /\ a \in Nat
      /\ b \in Balances /\ b.available \in Nat /\ b.pending \in Nat /\ b.staked \in Nat
      /\ rows \in Tables /\ DecimalsTypeOK
  BY WholeRow, BalanceFields DEF DecimalsInv, DecimalsTypeOK, WholeBalance, Tables, Whole
<1>2. ASSUME NEW to, rows' = [rows EXCEPT ![i].state = to]
      PROVE  /\ rows'[i].state = to /\ rows'[i].amount = a
             /\ \A j \in StakeIds \ {i} : rows'[j] = rows[j]
  BY <1>1, <1>2 DEF Tables
<1>3. CASE Confirm(i)
  <2>1. /\ rows[i].state = "DELEGATING" /\ rows' = [rows EXCEPT ![i].state = "ACTIVE"]
        /\ balance' = ConfirmStake(b, a) /\ MayConfirmStake(b, a)
    BY <1>1, <1>3, StoreMoved DEF Confirm, Reconcile
  <2>2. balance'.pending = b.pending - a /\ balance'.staked = b.staked + a
    BY <1>1, <2>1 DEF ConfirmStake, Balances
  <2>3. /\ Share(rows, i, "DELEGATING") = a /\ Share(rows', i, "DELEGATING") = 0
        /\ Share(rows, i, "ACTIVE") = 0 /\ Share(rows', i, "ACTIVE") = a
    BY <1>2, <2>1 DEF Share
  <2>4. /\ balance'.pending + Share(rows, i, "DELEGATING")
             = balance.pending + Share(rows', i, "DELEGATING")
        /\ balance'.staked + Share(rows, i, "ACTIVE")
             = balance.staked + Share(rows', i, "ACTIVE")
    BY <1>1, <2>2, <2>3
  <2>5. \A j \in StakeIds \ {i} : rows'[j] = rows[j]
    BY <1>2, <2>1
  <2>. QED BY <1>1, <2>4, <2>5, BucketsMove
<1>4. CASE Fails(i)
  <2>1. /\ rows[i].state = "DELEGATING" /\ rows' = [rows EXCEPT ![i].state = "FAILED"]
        /\ balance' = ReleaseHold(b, a)
    BY <1>1, <1>4, StoreMoved DEF Fails, Reconcile
  <2>2. /\ Share(rows, i, "DELEGATING") = a /\ Share(rows', i, "DELEGATING") = 0
        /\ Share(rows, i, "ACTIVE") = 0 /\ Share(rows', i, "ACTIVE") = 0
    BY <1>2, <2>1 DEF Share
  <2>3. b.pending >= a
    <3>1. b.pending = Others(rows, i, "DELEGATING") + Share(rows, i, "DELEGATING")
      BY <1>1, OneApart DEF BucketsCoverRows, SumOfRows, RowAmounts, Amounts
    <3>2. Others(rows, i, "DELEGATING") \in Nat
      BY <1>1, OneApart
    <3>. QED BY <1>1, <2>2, <3>1, <3>2
  <2>4. balance'.pending = b.pending - a /\ balance'.staked = b.staked
    <3>1. CASE a > 0
      BY <1>1, <2>1, <2>3, <3>1 DEF ReleaseHold, MayReleaseHold, Balances
    <3>2. CASE a = 0
      BY <1>1, <2>1, <3>2 DEF ReleaseHold, MayReleaseHold
    <3>. QED BY <1>1, <3>1, <3>2
  <2>5. /\ balance'.pending + Share(rows, i, "DELEGATING")
             = balance.pending + Share(rows', i, "DELEGATING")
        /\ balance'.staked + Share(rows, i, "ACTIVE")
             = balance.staked + Share(rows', i, "ACTIVE")
    BY <1>1, <2>2, <2>4
  <2>6. \A j \in StakeIds \ {i} : rows'[j] = rows[j]
    BY <1>2, <2>1
  <2>. QED BY <1>1, <2>5, <2>6, BucketsMove
<1>5. CASE Complete(i)
  <2>1. /\ rows[i].state = "ACTIVE" /\ rows' = [rows EXCEPT ![i].state = "WITHDRAWN"]
        /\ balance' = CompleteUnstake(b, a) /\ MayCompleteUnstake(b, a)
    BY <1>1, <1>5, StoreMoved DEF Complete, Reconcile
  <2>2. balance'.pending = b.pending /\ balance'.staked = b.staked - a
    BY <1>1, <2>1 DEF CompleteUnstake, Balances
  <2>3. /\ Share(rows, i, "DELEGATING") = 0 /\ Share(rows', i, "DELEGATING") = 0
        /\ Share(rows, i, "ACTIVE") = a /\ Share(rows', i, "ACTIVE") = 0
    BY <1>2, <2>1 DEF Share
  <2>4. /\ balance'.pending + Share(rows, i, "DELEGATING")
             = balance.pending + Share(rows', i, "DELEGATING")
        /\ balance'.staked + Share(rows, i, "ACTIVE")
             = balance.staked + Share(rows', i, "ACTIVE")
    BY <1>1, <2>2, <2>3
  <2>5. \A j \in StakeIds \ {i} : rows'[j] = rows[j]
    BY <1>2, <2>1
  <2>. QED BY <1>1, <2>4, <2>5, BucketsMove
<1>. QED BY <1>3, <1>4, <1>5

\* However the amount of a request is rounded on its way into the balance and
\* into the row, pending and staked are the sums of the rows of the stakes
\* that are delegating and active.
THEOREM RowsCovered == DecimalsSpec => []BucketsCoverRows
<1>. DEFINE Inv == /\ DecimalsInv
                   /\ NoneAsked
                   /\ BucketsCoverRows
<1>1. DecimalsInit => Inv
  <2>. SUFFICES ASSUME DecimalsInit
                PROVE  NoneAsked /\ BucketsCoverRows
    BY InitDecimalsInv
  <2>1. \A i \in StakeIds : rows[i] = NoRow /\ asked[i] = 0
    BY DEF DecimalsInit
  <2>2. /\ {i \in StakeIds : rows[i].state \in {"DELEGATING"}} = {}
        /\ {i \in StakeIds : rows[i].state \in {"ACTIVE"}} = {}
    BY <2>1 DEF NoRow
  <2>3. balance.pending = 0 /\ balance.staked = 0
    BY DEF DecimalsInit, NewBalance, NoBalance
  <2>. QED BY <2>1, <2>2, <2>3, SumEmpty DEF NoneAsked, BucketsCoverRows, SumOfRows
<1>2. Inv /\ [DecimalsNext]_vars => Inv'
  <2>. SUFFICES ASSUME DecimalsInv, NoneAsked, BucketsCoverRows, [DecimalsNext]_vars
                PROVE  NoneAsked' /\ BucketsCoverRows'
    BY NextDecimalsInv
  <2>1. /\ DecimalsTypeOK'
        /\ rows \in Tables /\ asked \in [StakeIds -> Asked \cup {0}]
    <3>1. DecimalsTypeOK'
      BY NextDecimalsInv DEF DecimalsInv
    <3>2. rows \in Tables /\ asked \in [StakeIds -> Asked \cup {0}]
      BY DEF DecimalsInv, DecimalsTypeOK, Tables
    <3>. QED BY <3>1, <3>2
  <2>2. CASE UNCHANGED vars
    BY <2>2 DEF vars, NoneAsked, BucketsCoverRows, SumOfRows, RowAmounts
  <2>3. ASSUME NEW i \in StakeIds, NEW x \in Asked, CreateStake(i, x)
        PROVE  NoneAsked' /\ BucketsCoverRows'
    <3>1. /\ asked'[i] = x /\ x # 0
          /\ \A j \in StakeIds \ {i} : asked'[j] = asked[j] /\ rows'[j] = rows[j]
      BY <2>1, <2>3, DecimalsAssumption
         DEF CreateStake, Accepted, Refused, NotInserted, Insert, Tables
    <3>2. NoneAsked'
      BY <3>1 DEF NoneAsked
    <3>. QED BY <2>1, <2>3, <3>2, CreateStakeCovers
  <2>4. ASSUME NEW i \in StakeIds, Confirm(i) \/ Fails(i) \/ Complete(i)
        PROVE  NoneAsked' /\ BucketsCoverRows'
    <3>1. /\ asked' = asked /\ rows[i].state # "NONE"
          /\ \A j \in StakeIds \ {i} : rows'[j] = rows[j]
      BY <2>1, <2>4 DEF Confirm, Fails, Complete, Reconcile, Tables
    <3>2. NoneAsked'
      BY <3>1 DEF NoneAsked, NoRow
    <3>. QED BY <2>1, <2>4, <3>2, ReconcileCovers
  <2>5. ASSUME NEW wei \in Paid, FetchReward(wei)
        PROVE  NoneAsked' /\ BucketsCoverRows'
    <3>1. FromWei(wei) \in Nat /\ WholeBalance(balance)
      <4>1. wei * Place \in Nat
        BY DecimalsAssumption
      <4>. QED BY <4>1, Rounded, WholeRow, DecimalsAssumption DEF FromWei, DecimalsInv
    <3>2. /\ UNCHANGED <<rows, asked>>
          /\ balance'.pending = balance.pending /\ balance'.staked = balance.staked
      BY <2>5, <3>1, StoreReward DEF FetchReward
    <3>. QED BY <3>2 DEF NoneAsked, BucketsCoverRows, SumOfRows, RowAmounts
  <2>. QED BY <2>2, <2>3, <2>4, <2>5 DEF DecimalsNext
<1>3. Inv => BucketsCoverRows
  OBVIOUS
<1>. QED BY <1>1, <1>2, <1>3, PTL DEF DecimalsSpec

\* For every amount asked for, what the customer has pending and staked is to
\* the wei what the provider was given to stake: hold, row and wei are rounded
\* apart, the first two by the database and the last by its digits, and agree.
THEOREM FundsBacked == DecimalsSpec => []FundsAreBacked
<1>1. DecimalsTypeOK /\ SentIsStored /\ BucketsCoverRows => FundsAreBacked
  <2>. SUFFICES ASSUME DecimalsTypeOK, SentIsStored, BucketsCoverRows
                PROVE  FundsAreBacked
    OBVIOUS
  <2>1. ASSUME NEW st \in {"DELEGATING", "ACTIVE"}
        PROVE  SumOfSent({st}) = SumOfRows({st})
    <3>. DEFINE S == {i \in StakeIds : rows[i].state \in {st}}
    <3>1. IsFiniteSet(S)
      <4>1. IsFiniteSet(StakeIds)
        BY FS_Interval, DecimalsAssumption DEF StakeIds
      <4>2. S \subseteq StakeIds
        OBVIOUS
      <4>. QED BY <4>1, <4>2, FS_Subset
    <3>2. \A i \in S : RowAmounts[i] \in Nat /\ RowAmounts[i] = sent[i]
      BY DEF RowAmounts, DecimalsTypeOK, SentIsStored
    <3>. HIDE DEF S
    <3>3. SumOver(RowAmounts, S) = SumOver(sent, S)
      BY <3>1, <3>2, SumSame
    <3>. QED BY <3>3 DEF SumOfSent, SumOfRows, S
  <2>. QED BY <2>1 DEF BucketsCoverRows, FundsAreBacked
<1>. QED BY <1>1, SentAsStored, RowsCovered, PTL
=============================================================================
