-------------------------- MODULE ClassifierProofs --------------------------
(***************************************************************************)
(* What the classifier of pipeline/detect.py returns, for every price,     *)
(* quantity and confidence, and with it the invariants of MCClassifier     *)
(* for a product that is observed again and again, whatever the grid of    *)
(* its prices, quantities and confidences.                                 *)
(***************************************************************************)
EXTENDS MCClassifier, TLAPS

\* What SnapshotView.from_snapshot makes of a snapshot row.
IsView(v) ==
  /\ v = [text |-> v.text, price |-> v.price, quantity |-> v.quantity,
          unit |-> v.unit, conf |-> v.conf]
  /\ v.price \in Nat \cup {None} /\ v.quantity \in Nat \cup {None} /\ v.conf \in Nat

\* Rounding a fraction with a positive denominator gives an integer.
LEMMA RoundHalfUpType ==
  ASSUME NEW n \in Int, NEW d \in Nat \ {0}
  PROVE  RoundHalfUp(n, d) \in Int
BY DEF RoundHalfUp

\* The sign of a rounded fraction is the fraction's own, unless it rounds to zero.
LEMMA RoundHalfUpSign ==
  ASSUME NEW n \in Int, NEW d \in Nat \ {0}
  PROVE  /\ RoundHalfUp(n, d) > 0 => n > 0
         /\ RoundHalfUp(n, d) < 0 => n < 0
<1>1. CASE n >= 0
  <2>1. (2 * n + d) \div (2 * d) >= 0
    BY <1>1
  <2>2. n = 0 => (2 * n + d) \div (2 * d) = 0
    BY <1>1
  <2>3. QED BY <1>1, <2>1, <2>2 DEF RoundHalfUp
<1>2. CASE n < 0
  <2>1. (2 * (-n) + d) \div (2 * d) >= 0
    BY <1>2
  <2>2. QED BY <1>2, <2>1 DEF RoundHalfUp
<1>3. QED BY <1>1, <1>2

LEMMA PctChangeSign ==
  ASSUME NEW b \in Nat \cup {None}, NEW a \in Nat \cup {None}, PctChange(b, a) # None
  PROVE  /\ b \in Nat \ {0} /\ a \in Nat
         /\ PctChange(b, a) \in Int
         /\ PctChange(b, a) > 0 => a > b
         /\ PctChange(b, a) < 0 => a < b
<1>1. b \in Nat \ {0} /\ a \in Nat /\ PctChange(b, a) = RoundHalfUp(10000 * (a - b), b)
  BY DEF PctChange
<1>2. 10000 * (a - b) \in Int
  BY <1>1
<1>3. QED BY <1>1, <1>2, RoundHalfUpSign, RoundHalfUpType

\* Readings that can be compared have quantities, and so a percentage between them.
LEMMA ComparedQuantities ==
  ASSUME NEW b, IsView(b), NEW a, IsView(a), CanCompare(b, a)
  PROVE  /\ b.quantity \in Nat \ {0} /\ a.quantity \in Nat \ {0}
         /\ b.quantity # None /\ a.quantity # None
         /\ PctChange(b.quantity, a.quantity) \in Int
<1>1. /\ b.quantity \in Nat \ {0} /\ a.quantity \in Nat \ {0}
      /\ b.quantity # None /\ a.quantity # None
  BY DEF CanCompare, Comparable, IsView
<1>2. RoundHalfUp(10000 * (a.quantity - b.quantity), b.quantity) \in Int
  BY <1>1, RoundHalfUpType
<1>3. QED BY <1>1, <1>2 DEF PctChange

SizeMoves == {"shrink", "shrink_price_cut", "grow"}

\* A price-only draft is only made when the price moved, and its kind tells which way.
LEMMA PriceOnlyDirection ==
  ASSUME NEW b, IsView(b), NEW a, IsView(a), NEW s, NEW u, PriceMoved(b, a)
  PROVE  /\ PriceOnly(b, a, s, u).kind = "price_increase" => a.price > b.price
         /\ PriceOnly(b, a, s, u).kind = "price_decrease" => a.price < b.price
         /\ PriceOnly(b, a, s, u).kind \notin SizeMoves
<1> DEFINE pct == PctChange(b.price, a.price)
<1>1. pct # None /\ Abs(pct) >= 50
  BY DEF PriceMoved, PriceNoise
<1>2. b.price \in Nat \cup {None} /\ a.price \in Nat \cup {None}
  BY DEF IsView
<1>3. pct \in Int /\ (pct > 0 => a.price > b.price) /\ (pct < 0 => a.price < b.price)
  BY <1>1, <1>2, PctChangeSign
<1> HIDE DEF pct
<1>4. pct > 0 \/ pct < 0
  BY <1>1, <1>3 DEF Abs
<1>5. PriceOnly(b, a, s, u).kind = IF pct > 0 THEN "price_increase" ELSE "price_decrease"
  BY DEF PriceOnly, pct
<1>6. QED BY <1>3, <1>4, <1>5 DEF SizeMoves

(***************************************************************************)
(* The kind of a draft of classify_transition tells the truth about the    *)
(* direction: after a shrink there is less in the package, after a grow    *)
(* more, and a price-only kind has the sign of the price.  It follows that *)
(* no kind is its own reverse.                                             *)
(***************************************************************************)
THEOREM KindTellsDirection ==
  ASSUME NEW b, IsView(b), NEW a, IsView(a)
  PROVE  /\ Classify(b, a).kind \in {"shrink", "shrink_price_cut"} => a.quantity < b.quantity
         /\ Classify(b, a).kind = "grow" => a.quantity > b.quantity
         /\ Classify(b, a).kind = "price_increase" => a.price > b.price
         /\ Classify(b, a).kind = "price_decrease" => a.price < b.price
<1> DEFINE size == PctChange(b.quantity, a.quantity)
<1>1. CASE ~CanCompare(b, a)
  <2>1. Classify(b, a) = ClassifyUnreadable(b, a)
    BY <1>1 DEF Classify
  <2>2. CASE b.text = a.text /\ PriceMoved(b, a)
    <3>1. Classify(b, a) = PriceOnly(b, a, None, None)
      BY <2>1, <2>2 DEF ClassifyUnreadable
    <3>2. QED BY <2>2, <3>1, PriceOnlyDirection DEF SizeMoves
  <2>3. CASE ~(b.text = a.text /\ PriceMoved(b, a))
    <3>1. Classify(b, a).kind \in {"unreadable_size_change", "none"}
      BY <2>1, <2>3 DEF ClassifyUnreadable, NoDraft
    <3>2. QED BY <3>1
  <2>4. QED BY <2>2, <2>3
<1>2. CASE CanCompare(b, a) /\ Abs(size) < SizeNoise
  <2>1. Classify(b, a) = ClassifySameSize(b, a, size)
    BY <1>2 DEF Classify
  <2>2. CASE PriceMoved(b, a)
    <3>1. Classify(b, a) = PriceOnly(b, a, size, UnitPriceChange(b, a))
      BY <2>1, <2>2 DEF ClassifySameSize
    <3>2. QED BY <2>2, <3>1, PriceOnlyDirection DEF SizeMoves
  <2>3. CASE ~PriceMoved(b, a)
    <3>1. Classify(b, a).kind \in {"relabel", "none"}
      BY <2>1, <2>3 DEF ClassifySameSize, NoDraft
    <3>2. QED BY <3>1
  <2>4. QED BY <2>2, <2>3
<1>3. CASE CanCompare(b, a) /\ ~(Abs(size) < SizeNoise)
  <2>1. Classify(b, a).kind = SizeKind(size, UnitPriceChange(b, a))
    BY <1>3 DEF Classify, ClassifySizeMove
  <2>2. size # None /\ b.quantity \in Nat \ {0} /\ a.quantity \in Nat
    BY <1>3, NoneAssumption, ComparedQuantities
  <2>3. size \in Int /\ (size > 0 => a.quantity > b.quantity)
                     /\ (size < 0 => a.quantity < b.quantity)
    BY <2>2, PctChangeSign
  <2> HIDE DEF size
  <2>4. size > 0 \/ size < 0
    BY <1>3, <2>3 DEF Abs, SizeNoise
  <2>5. QED BY <2>1, <2>3, <2>4 DEF SizeKind
<1>4. QED BY <1>1, <1>2, <1>3

(***************************************************************************)
(* What holds of the publishing rule of docs/decisions.md:30 for every     *)
(* pair of snapshots: a change of size is only published when the readings *)
(* can be compared, both are confident, and the size moved by at least     *)
(* 0.5% and not more than 80%.                                             *)
(***************************************************************************)
THEOREM PublishedSizesAreSure ==
  ASSUME NEW b, IsView(b), NEW a, IsView(a),
         Classify(b, a).kind \in SizeMoves, Classify(b, a).status = "published"
  PROVE  /\ CanCompare(b, a) /\ Confident(b, a)
         /\ SizeNoise <= Abs(Classify(b, a).sizePct)
         /\ Abs(Classify(b, a).sizePct) <= SizeSuspect
<1> DEFINE size == PctChange(b.quantity, a.quantity)
<1>1. CASE ~CanCompare(b, a)
  <2>1. Classify(b, a) = ClassifyUnreadable(b, a)
    BY <1>1 DEF Classify
  <2>2. CASE b.text = a.text /\ PriceMoved(b, a)
    <3>1. Classify(b, a) = PriceOnly(b, a, None, None)
      BY <2>1, <2>2 DEF ClassifyUnreadable
    <3>2. QED BY <2>2, <3>1, PriceOnlyDirection
  <2>3. CASE ~(b.text = a.text /\ PriceMoved(b, a))
    BY <2>1, <2>3 DEF ClassifyUnreadable, NoDraft, SizeMoves
  <2>4. QED BY <2>2, <2>3
<1>2. CASE CanCompare(b, a) /\ Abs(size) < SizeNoise
  <2>1. Classify(b, a) = ClassifySameSize(b, a, size)
    BY <1>2 DEF Classify
  <2>2. CASE PriceMoved(b, a)
    <3>1. Classify(b, a) = PriceOnly(b, a, size, UnitPriceChange(b, a))
      BY <2>1, <2>2 DEF ClassifySameSize
    <3>2. QED BY <2>2, <3>1, PriceOnlyDirection
  <2>3. CASE ~PriceMoved(b, a)
    BY <2>1, <2>3 DEF ClassifySameSize, NoDraft, SizeMoves
  <2>4. QED BY <2>2, <2>3
<1>3. CASE CanCompare(b, a) /\ ~(Abs(size) < SizeNoise)
  <2>1. /\ Classify(b, a).sizePct = size
        /\ Classify(b, a).status = IF Confident(b, a) /\ Abs(size) <= SizeSuspect
                                   THEN "published" ELSE "needs_review"
    BY <1>3 DEF Classify, ClassifySizeMove
  <2>2. Confident(b, a) /\ Abs(size) <= SizeSuspect
    BY <2>1
  <2>3. size \in Int
    BY <1>3, ComparedQuantities
  <2> HIDE DEF size
  <2>4. SizeNoise <= Abs(size)
    BY <1>3, <2>3 DEF Abs, SizeNoise
  <2>5. QED BY <1>3, <2>1, <2>2, <2>4
<1>4. QED BY <1>1, <1>2, <1>3

---------------------------------------------------------------------------
(* Rounding                                                                *)

\* RoundHalfUp is off by at most half a unit: 2 * |n - r * d| <= d, and a
\* fraction rounds as its negative does.
LEMMA RoundHalfUpClose ==
  ASSUME NEW n \in Int, NEW d \in Nat \ {0}
  PROVE  /\ n >= 0 => /\ RoundHalfUp(n, d) >= 0
                      /\ 2 * (RoundHalfUp(n, d) * d) <= 2 * n + d
                      /\ 2 * n + d < 2 * (RoundHalfUp(n, d) * d) + 2 * d
         /\ RoundHalfUp(-n, d) = -RoundHalfUp(n, d)
<1>1. ASSUME NEW m \in Nat
      PROVE  /\ RoundHalfUp(m, d) \in Nat
             /\ 2 * (RoundHalfUp(m, d) * d) <= 2 * m + d
             /\ 2 * m + d < 2 * (RoundHalfUp(m, d) * d) + 2 * d
  <2> DEFINE q == (2 * m + d) \div (2 * d)
             e == 2 * d
             k == 2 * m + d
  <2>1. RoundHalfUp(m, d) = q
    BY DEF RoundHalfUp
  <2>2. k \in Nat /\ e \in Nat \ {0}
    OBVIOUS
  <2>3. q \in Nat /\ q * e <= k /\ k < q * e + e
    <3>1. ASSUME NEW x \in Nat, NEW y \in Nat \ {0}
          PROVE  (x \div y) \in Nat /\ (x \div y) * y <= x /\ x < (x \div y) * y + y
      OBVIOUS
    <3> HIDE DEF e, k
    <3>2. QED BY <2>2, <3>1 DEF e, k
  <2> HIDE DEF q
  <2>4. q * (2 * d) = 2 * (q * d)
    BY <2>3
  <2>5. QED BY <2>1, <2>3, <2>4
<1>2. n >= 0 => RoundHalfUp(-n, d) = -RoundHalfUp(n, d)
  BY DEF RoundHalfUp
<1>3. n < 0 => RoundHalfUp(-n, d) = -RoundHalfUp(n, d)
  BY DEF RoundHalfUp
<1>4. QED BY <1>1, <1>2, <1>3

\* A product grows with each factor.
LEMMA ProductsGrow ==
  ASSUME NEW x \in Int, NEW y \in Int, NEW k \in Nat
  PROVE  /\ x <= y => k * x <= k * y
         /\ x < y /\ k > 0 => k * x < k * y
  OBVIOUS

\* The quotient is the only number that fits.
LEMMA DivUnique ==
  ASSUME NEW x \in Nat, NEW y \in Nat \ {0}, NEW q \in Nat, q * y <= x, x < q * y + y
  PROVE  x \div y = q
<1> DEFINE p == x \div y
<1>1. p \in Nat /\ p * y <= x /\ x < p * y + y
  OBVIOUS
<1> HIDE DEF p
<1>2. CASE p < q
  <2>1. y * (p + 1) <= y * q
    BY <1>1, <1>2, ProductsGrow
  <2>2. y * (p + 1) = p * y + y /\ y * q = q * y
    BY <1>1
  <2>3. QED BY <1>1, <2>1, <2>2
<1>3. CASE q < p
  <2>1. y * (q + 1) <= y * p
    BY <1>1, <1>3, ProductsGrow
  <2>2. y * (q + 1) = q * y + y /\ y * p = p * y
    BY <1>1
  <2>3. QED BY <1>1, <2>1, <2>2
<1>4. QED BY <1>1, <1>2, <1>3 DEF p

\* A common factor does not change the quotient, nor the rounded fraction.
LEMMA DivScales ==
  ASSUME NEW x \in Nat, NEW y \in Nat \ {0}, NEW k \in Nat \ {0}
  PROVE  (k * x) \div (k * y) = x \div y
<1> DEFINE q == x \div y
<1>1. q \in Nat /\ q * y <= x /\ x < q * y + y
  OBVIOUS
<1> HIDE DEF q
<1>2. k * (q * y) <= k * x /\ k * x < k * (q * y + y)
  BY <1>1, ProductsGrow
<1>3. k * (q * y) = q * (k * y) /\ k * (q * y + y) = q * (k * y) + k * y
  BY <1>1
<1>4. k * x \in Nat /\ k * y \in Nat \ {0}
  OBVIOUS
<1>5. (k * x) \div (k * y) = q
  BY <1>1, <1>2, <1>3, <1>4, DivUnique
<1>6. QED BY <1>5 DEF q

LEMMA RoundHalfUpScales ==
  ASSUME NEW n \in Int, NEW d \in Nat \ {0}, NEW k \in Nat \ {0}
  PROVE  RoundHalfUp(k * n, k * d) = RoundHalfUp(n, d)
<1>1. ASSUME NEW m \in Nat PROVE RoundHalfUp(k * m, k * d) = RoundHalfUp(m, d)
  <2>1. k * m \in Nat
    OBVIOUS
  <2>2. 2 * (k * m) + k * d = k * (2 * m + d) /\ 2 * (k * d) = k * (2 * d)
    OBVIOUS
  <2>3. (k * (2 * m + d)) \div (k * (2 * d)) = (2 * m + d) \div (2 * d)
    <3>1. 2 * m + d \in Nat /\ 2 * d \in Nat \ {0}
      OBVIOUS
    <3>2. QED BY <3>1, DivScales
  <2>4. RoundHalfUp(k * m, k * d) = (2 * (k * m) + k * d) \div (2 * (k * d))
    BY <2>1 DEF RoundHalfUp
  <2>5. RoundHalfUp(m, d) = (2 * m + d) \div (2 * d)
    BY DEF RoundHalfUp
  <2>6. QED BY <2>2, <2>3, <2>4, <2>5
<1>2. CASE n >= 0
  BY <1>1, <1>2
<1>3. CASE n < 0
  <2>1. -n \in Nat /\ k * d \in Nat \ {0} /\ k * n \in Int /\ k * (-n) = -(k * n)
    BY <1>3
  <2>2. RoundHalfUp(k * (-n), k * d) = RoundHalfUp(-n, d)
    BY <1>1, <2>1
  <2>3. RoundHalfUp(-(k * n), k * d) = -RoundHalfUp(k * n, k * d)
    BY <2>1, RoundHalfUpClose
  <2>4. RoundHalfUp(-n, d) = -RoundHalfUp(n, d)
    BY RoundHalfUpClose
  <2>5. RoundHalfUp(k * n, k * d) \in Int /\ RoundHalfUp(n, d) \in Int
    BY <2>1, RoundHalfUpType
  <2>6. QED BY <2>1, <2>2, <2>3, <2>4, <2>5
<1>4. QED BY <1>2, <1>3

---------------------------------------------------------------------------
(* The unit of a quantity                                                  *)

\* The same package, its quantity held in a unit that is k times smaller.
Scaled(v, k) == [v EXCEPT !.quantity = IF @ = None THEN None ELSE k * @]

LEMMA ScaledView ==
  ASSUME NEW v, IsView(v), NEW k \in Nat \ {0}
  PROVE  /\ Scaled(v, k).text = v.text /\ Scaled(v, k).price = v.price
         /\ Scaled(v, k).unit = v.unit /\ Scaled(v, k).conf = v.conf
         /\ Scaled(v, k).quantity = IF v.quantity = None THEN None ELSE k * v.quantity
         /\ Comparable(Scaled(v, k)) <=> Comparable(v)
         /\ HasUnitPrice(Scaled(v, k)) <=> HasUnitPrice(v)
<1> DEFINE w == Scaled(v, k)
<1>1. /\ w.text = v.text /\ w.price = v.price /\ w.unit = v.unit /\ w.conf = v.conf
      /\ w.quantity = IF v.quantity = None THEN None ELSE k * v.quantity
  BY DEF Scaled, IsView
<1>2. v.quantity # None => v.quantity \in Nat /\ k * v.quantity \in Nat
                           /\ (k * v.quantity > 0 <=> v.quantity > 0)
  BY DEF IsView
<1> HIDE DEF w
<1>3. Comparable(w) <=> Comparable(v)
  <2>1. CASE v.quantity = None
    BY <1>1, <2>1 DEF Comparable
  <2>2. CASE v.quantity # None
    <3>1. w.quantity # None /\ w.quantity = k * v.quantity
      BY <1>1, <1>2, <2>2, NoneAssumption
    <3>2. QED BY <1>1, <1>2, <2>2, <3>1 DEF Comparable
  <2>3. QED BY <2>1, <2>2
<1>4. HasUnitPrice(w) <=> HasUnitPrice(v)
  BY <1>1, <1>3 DEF HasUnitPrice
<1>5. QED BY <1>1, <1>3, <1>4 DEF w

LEMMA ScaledPercentages ==
  ASSUME NEW b, IsView(b), NEW a, IsView(a), NEW k \in Nat \ {0}
  PROVE  /\ PctChange(Scaled(b, k).quantity, Scaled(a, k).quantity)
              = PctChange(b.quantity, a.quantity)
         /\ UnitPriceChange(Scaled(b, k), Scaled(a, k)) = UnitPriceChange(b, a)
<1> DEFINE B == Scaled(b, k)
           A == Scaled(a, k)
<1>1. /\ B.price = b.price /\ A.price = a.price
      /\ B.quantity = IF b.quantity = None THEN None ELSE k * b.quantity
      /\ A.quantity = IF a.quantity = None THEN None ELSE k * a.quantity
      /\ HasUnitPrice(B) <=> HasUnitPrice(b)
      /\ HasUnitPrice(A) <=> HasUnitPrice(a)
  BY ScaledView
<1> HIDE DEF A, B
<1>2. PctChange(B.quantity, A.quantity) = PctChange(b.quantity, a.quantity)
  <2>1. CASE b.quantity = None \/ a.quantity = None
    BY <1>1, <2>1 DEF PctChange
  <2>2. CASE b.quantity # None /\ a.quantity # None
    <3>1. /\ b.quantity \in Nat /\ a.quantity \in Nat
          /\ B.quantity = k * b.quantity /\ A.quantity = k * a.quantity
      BY <1>1, <2>2 DEF IsView
    <3>2. /\ B.quantity # None /\ A.quantity # None
          /\ B.quantity \in Nat /\ A.quantity \in Nat
      BY <3>1, NoneAssumption
    <3>3. B.quantity = 0 <=> b.quantity = 0
      BY <3>1
    <3>4. CASE b.quantity = 0
      BY <3>3, <3>4 DEF PctChange
    <3>5. CASE b.quantity # 0
      <4>1. 10000 * (A.quantity - B.quantity) = k * (10000 * (a.quantity - b.quantity))
        BY <3>1
      <4>2. 10000 * (a.quantity - b.quantity) \in Int /\ b.quantity \in Nat \ {0}
        BY <3>1, <3>5
      <4>3. RoundHalfUp(k * (10000 * (a.quantity - b.quantity)), k * b.quantity)
              = RoundHalfUp(10000 * (a.quantity - b.quantity), b.quantity)
        BY <4>2, RoundHalfUpScales
      <4>4. QED BY <2>2, <3>1, <3>2, <3>3, <3>5, <4>1, <4>3 DEF PctChange
    <3>6. QED BY <3>4, <3>5
  <2>3. QED BY <2>1, <2>2
<1>3. UnitPriceChange(B, A) = UnitPriceChange(b, a)
  <2>1. CASE ~HasUnitPrice(b) \/ ~HasUnitPrice(a) \/ b.price = 0
    BY <1>1, <2>1 DEF UnitPriceChange
  <2>2. CASE HasUnitPrice(b) /\ HasUnitPrice(a) /\ b.price # 0
    <3> DEFINE n == 10000 * (a.price * b.quantity - b.price * a.quantity)
               d == b.price * a.quantity
    <3>1. /\ b.price \in Nat \ {0} /\ a.price \in Nat
          /\ b.quantity \in Nat /\ a.quantity \in Nat \ {0}
          /\ B.quantity = k * b.quantity /\ A.quantity = k * a.quantity
      BY <1>1, <2>2 DEF HasUnitPrice, Comparable, IsView
    <3>2. /\ A.price * B.quantity = k * (a.price * b.quantity)
          /\ B.price * A.quantity = k * (b.price * a.quantity)
      BY <1>1, <3>1
    <3>3. n \in Int /\ d \in Nat \ {0}
      BY <3>1
    <3>4. 10000 * (A.price * B.quantity - B.price * A.quantity) = k * n
      <4>1. a.price * b.quantity \in Int /\ b.price * a.quantity \in Int
        BY <3>1
      <4>2. \A x \in Int, y \in Int : 10000 * (k * x - k * y) = k * (10000 * (x - y))
        OBVIOUS
      <4>3. QED BY <3>2, <4>1, <4>2
    <3> HIDE DEF n
    <3>5. RoundHalfUp(k * n, k * d) = RoundHalfUp(n, d)
      BY <3>3, RoundHalfUpScales
    <3>6. UnitPriceChange(B, A) = RoundHalfUp(k * n, k * d)
      BY <1>1, <2>2, <3>2, <3>4 DEF UnitPriceChange
    <3>7. UnitPriceChange(b, a) = RoundHalfUp(n, d)
      BY <2>2 DEF UnitPriceChange, n
    <3>8. QED BY <3>5, <3>6, <3>7
  <2>3. QED BY <2>1, <2>2
<1>4. QED BY <1>2, <1>3 DEF A, B

(***************************************************************************)
(* The thresholds of detect.py are relative: whatever unit a quantity is   *)
(* held in, the same two packages get the same draft.  Whole base units    *)
(* are therefore enough for the code's Decimal quantities: a smaller unit  *)
(* makes them whole.                                                       *)
(***************************************************************************)
THEOREM UnitDoesNotMatter ==
  ASSUME NEW b, IsView(b), NEW a, IsView(a), NEW k \in Nat \ {0}
  PROVE  Classify(Scaled(b, k), Scaled(a, k)) = Classify(b, a)
<1> DEFINE B == Scaled(b, k)
           A == Scaled(a, k)
<1>1. /\ B.text = b.text /\ B.price = b.price /\ B.unit = b.unit /\ B.conf = b.conf
      /\ A.text = a.text /\ A.price = a.price /\ A.unit = a.unit /\ A.conf = a.conf
      /\ Comparable(B) <=> Comparable(b)
      /\ Comparable(A) <=> Comparable(a)
  BY ScaledView
<1>2. /\ PctChange(B.quantity, A.quantity) = PctChange(b.quantity, a.quantity)
      /\ UnitPriceChange(B, A) = UnitPriceChange(b, a)
  BY ScaledPercentages
<1> HIDE DEF A, B
<1>3. /\ CanCompare(B, A) <=> CanCompare(b, a)
      /\ Confident(B, A) <=> Confident(b, a)
      /\ PriceMoved(B, A) <=> PriceMoved(b, a)
      /\ PctChange(B.price, A.price) = PctChange(b.price, a.price)
  BY <1>1 DEF CanCompare, Confident, PriceMoved
<1>4. \A s, u : PriceOnly(B, A, s, u) = PriceOnly(b, a, s, u)
  BY <1>3 DEF PriceOnly
<1>5. ClassifyUnreadable(B, A) = ClassifyUnreadable(b, a)
  BY <1>1, <1>3, <1>4 DEF ClassifyUnreadable
<1>6. \A s : ClassifySameSize(B, A, s) = ClassifySameSize(b, a, s)
  BY <1>1, <1>2, <1>3, <1>4 DEF ClassifySameSize
<1>7. \A s : ClassifySizeMove(B, A, s) = ClassifySizeMove(b, a, s)
  BY <1>2, <1>3 DEF ClassifySizeMove
<1>8. Classify(B, A) = Classify(b, a)
  BY <1>2, <1>3, <1>5, <1>6, <1>7 DEF Classify
<1>9. QED BY <1>8 DEF A, B

---------------------------------------------------------------------------
(* What the branches of classify_transition leave in a draft               *)

LEMMA DraftBranch ==
  ASSUME NEW b, IsView(b), NEW a, IsView(a)
  PROVE  /\ Classify(b, a).kind \in SizeMoves =>
              /\ CanCompare(b, a)
              /\ Classify(b, a).kind =
                   SizeKind(PctChange(b.quantity, a.quantity), UnitPriceChange(b, a))
         /\ Classify(b, a).kind \in {"price_increase", "price_decrease"} => PriceMoved(b, a)
         /\ Classify(b, a).kind = "none" =>
              /\ b.text = a.text /\ ~PriceMoved(b, a)
              /\ CanCompare(b, a) => Abs(PctChange(b.quantity, a.quantity)) < SizeNoise
<1> DEFINE size == PctChange(b.quantity, a.quantity)
           unit == UnitPriceChange(b, a)
<1>1. \A s, u : PriceOnly(b, a, s, u).kind \in {"price_increase", "price_decrease"}
  BY DEF PriceOnly
<1>2. CASE ~CanCompare(b, a)
  <2>1. Classify(b, a) = ClassifyUnreadable(b, a)
    BY <1>2 DEF Classify
  <2>2. QED BY <1>1, <1>2, <2>1 DEF ClassifyUnreadable, NoDraft, SizeMoves
<1>3. CASE CanCompare(b, a) /\ Abs(size) < SizeNoise
  <2>1. Classify(b, a) = ClassifySameSize(b, a, size)
    BY <1>3 DEF Classify
  <2>2. QED BY <1>1, <1>3, <2>1 DEF ClassifySameSize, NoDraft, SizeMoves
<1>4. CASE CanCompare(b, a) /\ ~(Abs(size) < SizeNoise)
  <2>1. Classify(b, a).kind = SizeKind(size, unit)
    BY <1>4 DEF Classify, ClassifySizeMove
  <2>2. SizeKind(size, unit) \in SizeMoves
    BY DEF SizeKind, SizeMoves
  <2> HIDE DEF size, unit
  <2>3. SizeKind(size, unit) \notin {"price_increase", "price_decrease", "none"}
    BY <2>2 DEF SizeMoves
  <2>4. QED BY <1>4, <2>1, <2>2, <2>3 DEF size, unit
<1>5. QED BY <1>2, <1>3, <1>4

LEMMA DraftColumns ==
  ASSUME NEW b, IsView(b), NEW a, IsView(a)
  PROVE  /\ Classify(b, a).sizePct # None =>
              Classify(b, a).sizePct = PctChange(b.quantity, a.quantity)
         /\ Classify(b, a).pricePct # None =>
              Classify(b, a).pricePct = PctChange(b.price, a.price)
         /\ Classify(b, a).unitPct # None =>
              Classify(b, a).unitPct = UnitPriceChange(b, a)
<1> DEFINE size == PctChange(b.quantity, a.quantity)
           unit == UnitPriceChange(b, a)
<1>1. \A s, u : /\ PriceOnly(b, a, s, u).sizePct = s
                /\ PriceOnly(b, a, s, u).unitPct = u
                /\ PriceOnly(b, a, s, u).pricePct = PctChange(b.price, a.price)
  BY DEF PriceOnly
<1>2. CASE ~CanCompare(b, a)
  <2>1. Classify(b, a) = ClassifyUnreadable(b, a)
    BY <1>2 DEF Classify
  <2>2. QED BY <1>1, <2>1 DEF ClassifyUnreadable, NoDraft
<1>3. CASE CanCompare(b, a) /\ Abs(size) < SizeNoise
  <2>1. Classify(b, a) = ClassifySameSize(b, a, size)
    BY <1>3 DEF Classify
  <2>2. QED BY <1>1, <2>1 DEF ClassifySameSize, NoDraft
<1>4. CASE CanCompare(b, a) /\ ~(Abs(size) < SizeNoise)
  BY <1>4 DEF Classify, ClassifySizeMove
<1>5. QED BY <1>2, <1>3, <1>4

\* A rounded change below the noise threshold is a change of less than half a percent.
LEMMA NoiseIsSmall ==
  ASSUME NEW x \in Int, NEW d \in Nat \ {0}, Abs(RoundHalfUp(10000 * x, d)) < 50
  PROVE  200 * Abs(x) < d
<1>1. ASSUME NEW m \in Nat, RoundHalfUp(m, d) <= 49
      PROVE  2 * m < 99 * d
  <2> DEFINE r == RoundHalfUp(m, d)
  <2>1. m \in Int /\ m >= 0
    OBVIOUS
  <2>2. r \in Int
    BY <2>1, RoundHalfUpType
  <2>3. 2 * m + d < 2 * (r * d) + 2 * d
    BY <2>1, RoundHalfUpClose
  <2> HIDE DEF r
  <2>4. r <= 49
    BY <1>1 DEF r
  <2>5. d * r <= d * 49 /\ d * r = r * d
    BY <2>2, <2>4, ProductsGrow
  <2>6. r * d \in Int
    BY <2>2
  <2>7. QED BY <2>3, <2>5, <2>6
<1>2. RoundHalfUp(10000 * x, d) \in Int
  BY RoundHalfUpType
<1>3. CASE x >= 0
  <2>1. 10000 * x \in Nat /\ RoundHalfUp(10000 * x, d) <= 49
    BY <1>2, <1>3 DEF Abs
  <2>2. 2 * (10000 * x) < 99 * d
    BY <1>1, <2>1
  <2>3. QED BY <1>3, <2>2 DEF Abs
<1>4. CASE x < 0
  <2> DEFINE m == -(10000 * x)
  <2>1. RoundHalfUp(m, d) = -RoundHalfUp(10000 * x, d)
    <3>1. 10000 * x \in Int
      OBVIOUS
    <3>2. QED BY <3>1, RoundHalfUpClose
  <2>2. m \in Nat /\ RoundHalfUp(m, d) <= 49
    BY <1>2, <1>4, <2>1 DEF Abs
  <2> HIDE DEF m
  <2>3. 2 * m < 99 * d
    BY <1>1, <2>2
  <2>4. QED BY <1>4, <2>3 DEF Abs, m
<1>5. QED BY <1>3, <1>4

(***************************************************************************)
(* classify_transition returns None only for noise: the label's text is    *)
(* the same, and the price, and the size where the readings can be         *)
(* compared, each moved by less than half a percent.                       *)
(***************************************************************************)
THEOREM SilenceIsNoise ==
  ASSUME NEW b, IsView(b), NEW a, IsView(a), Classify(b, a) = NoDraft
  PROVE  /\ b.text = a.text
         /\ b.price # None /\ a.price # None /\ b.price # 0
              => 200 * Abs(a.price - b.price) < b.price
         /\ CanCompare(b, a) => 200 * Abs(a.quantity - b.quantity) < b.quantity
<1>1. Classify(b, a).kind = "none"
  BY DEF NoDraft
<1>2. b.text = a.text /\ ~PriceMoved(b, a)
  BY <1>1, DraftBranch
<1>3. ASSUME b.price # None, a.price # None, b.price # 0
      PROVE  200 * Abs(a.price - b.price) < b.price
  <2>1. b.price \in Nat \ {0} /\ a.price \in Nat
    BY <1>3 DEF IsView
  <2>2. PctChange(b.price, a.price) = RoundHalfUp(10000 * (a.price - b.price), b.price)
    BY <1>3 DEF PctChange
  <2>3. RoundHalfUp(10000 * (a.price - b.price), b.price) \in Int
    BY <2>1, RoundHalfUpType
  <2>4. Abs(RoundHalfUp(10000 * (a.price - b.price), b.price)) < 50
    BY <1>2, <2>2, <2>3, NoneAssumption DEF PriceMoved, PriceNoise, Abs
  <2>5. QED BY <2>1, <2>4, NoiseIsSmall
<1>4. ASSUME CanCompare(b, a)
      PROVE  200 * Abs(a.quantity - b.quantity) < b.quantity
  <2>1. b.quantity \in Nat \ {0} /\ a.quantity \in Nat /\ b.quantity # None /\ a.quantity # None
    BY <1>4, ComparedQuantities
  <2>2. PctChange(b.quantity, a.quantity)
          = RoundHalfUp(10000 * (a.quantity - b.quantity), b.quantity)
    BY <2>1 DEF PctChange
  <2>3. Abs(RoundHalfUp(10000 * (a.quantity - b.quantity), b.quantity)) < 50
    BY <1>1, <1>4, <2>2, DraftBranch DEF SizeNoise
  <2>4. QED BY <2>1, <2>3, NoiseIsSmall
<1>5. QED BY <1>2, <1>3, <1>4

(***************************************************************************)
(* classify_transition, read backwards: a shrink is never a shrink again,  *)
(* and a grow or a price-only change never its own reverse.                *)
(***************************************************************************)
THEOREM NeverItsOwnReverse ==
  ASSUME NEW b, IsView(b), NEW a, IsView(a)
  PROVE  /\ Classify(b, a).kind \in {"shrink", "shrink_price_cut"}
              => Classify(a, b).kind \notin {"shrink", "shrink_price_cut"}
         /\ Classify(b, a).kind \in {"grow", "price_increase", "price_decrease"}
              => Classify(a, b).kind # Classify(b, a).kind
<1>1. Classify(b, a).kind \in SizeMoves => a.quantity \in Int /\ b.quantity \in Int
  BY DraftBranch, ComparedQuantities
<1>2. Classify(b, a).kind \in {"price_increase", "price_decrease"}
        => a.price \in Int /\ b.price \in Int
  BY DraftBranch DEF PriceMoved, PctChange, IsView
<1>3. QED BY <1>1, <1>2, KindTellsDirection DEF SizeMoves

(***************************************************************************)
(* SizeKind's use of unit_pct, in the shopper's terms: after a "shrink"    *)
(* the price per unit fell by less than half a percent or rose, and after  *)
(* a "shrink_price_cut" it really fell.                                    *)
(***************************************************************************)
THEOREM KindTellsUnitPrice ==
  ASSUME NEW b, IsView(b), NEW a, IsView(a),
         HasUnitPrice(b), HasUnitPrice(a), b.price > 0
  PROVE  LET was == b.price * a.quantity
             is  == a.price * b.quantity
         IN  /\ Classify(b, a).kind = "shrink" => 200 * is > 199 * was
             /\ Classify(b, a).kind = "shrink_price_cut" => is < was
<1> DEFINE was == b.price * a.quantity
           is  == a.price * b.quantity
           unit == RoundHalfUp(10000 * (is - was), was)
<1>1. /\ b.price \in Nat \ {0} /\ a.price \in Nat
      /\ b.quantity \in Nat \ {0} /\ a.quantity \in Nat \ {0}
  BY DEF HasUnitPrice, Comparable, IsView
<1>2. was \in Nat \ {0} /\ is \in Nat
  BY <1>1
<1>3. UnitPriceChange(b, a) = unit
  BY <1>1 DEF UnitPriceChange
<1> HIDE DEF was, is
<1>4. unit \in Int /\ unit # None
  BY <1>2, RoundHalfUpType, NoneAssumption
<1>5. ASSUME Classify(b, a).kind = "shrink" PROVE 200 * is > 199 * was
  <2>1. unit > -50
    BY <1>3, <1>4, <1>5, DraftBranch DEF SizeMoves, SizeKind, PriceNoise
  <2>2. CASE is >= was
    BY <1>2, <2>2
  <2>3. CASE is < was
    <3>1. unit <= 0
      <4>1. ~(unit > 0)
        BY <1>2, <2>3, RoundHalfUpSign
      <4>2. QED BY <1>4, <4>1
    <3>2. Abs(unit) < 50
      BY <1>4, <2>1, <3>1 DEF Abs
    <3>3. 200 * Abs(is - was) < was
      BY <1>2, <3>2, NoiseIsSmall
    <3>4. QED BY <1>2, <2>3, <3>3 DEF Abs
  <2>4. QED BY <1>2, <2>2, <2>3
<1>6. ASSUME Classify(b, a).kind = "shrink_price_cut" PROVE is < was
  <2>1. unit <= -50
    BY <1>3, <1>4, <1>6, DraftBranch DEF SizeMoves, SizeKind, PriceNoise
  <2>2. 10000 * (is - was) < 0
    BY <1>2, <1>4, <2>1, RoundHalfUpSign
  <2>3. QED BY <1>2, <2>2
<1>7. QED BY <1>5, <1>6 DEF was, is

\* A fraction and its rounding, multiplied out: they differ by at most half of d.
LEMMA RoundingError ==
  ASSUME NEW n \in Int, NEW d \in Nat \ {0}
  PROVE  2 * Abs(RoundHalfUp(n, d) * d - n) <= d
<1>1. ASSUME NEW m \in Nat
      PROVE  RoundHalfUp(m, d) \in Int /\ 2 * Abs(RoundHalfUp(m, d) * d - m) <= d
  <2>1. /\ RoundHalfUp(m, d) \in Int
        /\ 2 * (RoundHalfUp(m, d) * d) <= 2 * m + d
        /\ 2 * m + d < 2 * (RoundHalfUp(m, d) * d) + 2 * d
    <3>1. m \in Int /\ m >= 0
      OBVIOUS
    <3>2. QED BY <3>1, RoundHalfUpClose, RoundHalfUpType
  <2>2. RoundHalfUp(m, d) * d \in Int
    BY <2>1
  <2>3. QED BY <2>1, <2>2 DEF Abs
<1>2. CASE n >= 0
  BY <1>1, <1>2
<1>3. CASE n < 0
  <2> DEFINE r == RoundHalfUp(n, d)
  <2>1. -n \in Nat /\ RoundHalfUp(-n, d) = -r
    BY <1>3, RoundHalfUpClose
  <2>2. r \in Int
    BY RoundHalfUpType
  <2>3. 2 * Abs((-r) * d - (-n)) <= d
    BY <1>1, <2>1
  <2> HIDE DEF r
  <2>4. (-r) * d = -(r * d) /\ r * d \in Int
    BY <2>2
  <2>5. Abs((-r) * d - (-n)) = Abs(r * d - n)
    BY <2>2, <2>4 DEF Abs
  <2>6. QED BY <2>3, <2>5 DEF r
<1>4. QED BY <1>2, <1>3

\* A bound on twice a number, multiplied; and the bound of a product of two.
LEMMA BoundTimes ==
  ASSUME NEW c \in Nat, NEW w \in Nat, NEW v \in Int, -w <= 2 * v, 2 * v <= w
  PROVE  -(c * w) <= 2 * (c * v) /\ 2 * (c * v) <= c * w
<1>1. c * (-w) <= c * (2 * v) /\ c * (2 * v) <= c * w
  BY ProductsGrow
<1>2. c * (-w) = -(c * w) /\ c * (2 * v) = 2 * (c * v)
  OBVIOUS
<1>3. QED BY <1>1, <1>2

LEMMA BoundProduct ==
  ASSUME NEW w \in Nat, NEW x \in Int, -w <= 2 * x, 2 * x <= w,
         NEW m \in Nat, NEW y \in Int, -m <= 2 * y, 2 * y <= m
  PROVE  -(w * m) <= 4 * (x * y) /\ 4 * (x * y) <= w * m
<1>1. ASSUME NEW c \in Nat, c <= w
      PROVE  -(w * m) <= 2 * (c * y) /\ 2 * (c * y) <= w * m
  <2>1. -(c * m) <= 2 * (c * y) /\ 2 * (c * y) <= c * m
    BY BoundTimes
  <2>2. m * c <= m * w
    BY <1>1, ProductsGrow
  <2>3. m * c = c * m /\ m * w = w * m /\ c * y \in Int
    OBVIOUS
  <2>4. QED BY <2>1, <2>2, <2>3
<1>2. CASE x >= 0
  <2>1. 2 * x \in Nat /\ 2 * x <= w
    BY <1>2
  <2>2. -(w * m) <= 2 * ((2 * x) * y) /\ 2 * ((2 * x) * y) <= w * m
    BY <1>1, <2>1
  <2>3. 2 * ((2 * x) * y) = 4 * (x * y)
    OBVIOUS
  <2>4. QED BY <2>2, <2>3
<1>3. CASE x < 0
  <2>1. -(2 * x) \in Nat /\ -(2 * x) <= w
    BY <1>3
  <2>2. -(w * m) <= 2 * ((-(2 * x)) * y) /\ 2 * ((-(2 * x)) * y) <= w * m
    BY <1>1, <2>1
  <2>3. 2 * ((-(2 * x)) * y) = -(4 * (x * y)) /\ w * m \in Int /\ x * y \in Int
    OBVIOUS
  <2>4. QED BY <2>2, <2>3
<1>4. QED BY <1>2, <1>3

\* pct is, in hundredths of a percent, what there is of what there was,
\* rounded.
Rounds(pct, was, is) ==
  pct \in Int /\ 2 * Abs(pct * was - 10000 * is) <= was

\* (1 + size) (1 + unit price) = 1 + price, up to the rounding of each.
Agree(size, unit, price) ==
  2 * Abs(size * unit - 10000 * price) <= size + unit + 10001

\* The rounding errors of the three percentages, put together.  bp and ap are the two
\* prices, bq and aq the two quantities; x, y and z the errors, multiplied out.
LEMMA ErrorsTogether ==
  ASSUME NEW bp \in Nat \ {0}, NEW ap \in Nat, NEW bq \in Nat \ {0}, NEW aq \in Nat \ {0},
         NEW was, was = bp * aq, NEW is, is = ap * bq,
         NEW size, NEW price, NEW unit,
         Rounds(size, bq, aq), Rounds(price, bp, ap), Rounds(unit, was, is)
  PROVE  Agree(size, unit, price)
<1> DEFINE x == size * bq - 10000 * aq
           y == unit * (bp * aq) - 10000 * (ap * bq)
           z == price * bp - 10000 * ap
           D == size * unit - 10000 * price
           m == bp * aq
           M == bq * m
<1>0. /\ size \in Int /\ price \in Int /\ unit \in Int
      /\ 2 * Abs(x) <= bq /\ 2 * Abs(y) <= m /\ 2 * Abs(z) <= bp
  BY DEF Rounds
<1> USE <1>0
<1>1. x \in Int /\ y \in Int /\ z \in Int /\ D \in Int /\ m \in Nat \ {0} /\ M \in Nat \ {0}
  OBVIOUS
<1>2. size >= 0
  <2>1. size * bq \in Int /\ 2 * (size * bq) >= 20000 * aq - bq
    BY DEF Abs
  <2>2. bq * size > bq * (-1)
    BY <2>1
  <2>3. QED BY <2>2, ProductsGrow
<1>3. unit >= 0
  <2>1. unit * m \in Int /\ ap * bq \in Nat
    BY <1>1
  <2> HIDE DEF m
  <2>2. 2 * (unit * m) >= 20000 * (ap * bq) - m
    BY <1>1, <2>1 DEF Abs, m
  <2>3. m * unit > m * (-1)
    BY <1>1, <2>1, <2>2
  <2>4. QED BY <1>1, <2>3, ProductsGrow
\* the difference, over the common denominator
<1>4. M * D = (10000 * aq) * y + (unit * m) * x - (10000 * (aq * bq)) * z
  OBVIOUS
<1>5. (10000 * aq) * y = (size * bq) * y - x * y
  OBVIOUS
<1>6. /\ -bq <= 2 * x /\ 2 * x <= bq
      /\ -m <= 2 * y /\ 2 * y <= m
      /\ -bp <= 2 * z /\ 2 * z <= bp
  <2>1. 2 * Abs(x) <= bq /\ 2 * Abs(y) <= m /\ 2 * Abs(z) <= bp
    OBVIOUS
  <2> HIDE DEF x, y, z, m
  <2>2. QED BY <1>1, <2>1 DEF Abs
<1>7. /\ size * bq \in Nat /\ unit * m \in Nat /\ 10000 * (aq * bq) \in Nat
      /\ (size * bq) * m = M * size /\ (unit * m) * bq = M * unit
      /\ (10000 * (aq * bq)) * bp = M * 10000 /\ bq * m = M
  <2>1. /\ (size * bq) * m = M * size /\ (unit * m) * bq = M * unit
        /\ (10000 * (aq * bq)) * bp = M * 10000 /\ bq * m = M
    OBVIOUS
  <2> HIDE DEF m, M
  <2>2. size * bq \in Nat /\ unit * m \in Nat /\ 10000 * (aq * bq) \in Nat
    BY <1>1, <1>2, <1>3
  <2>3. QED BY <2>1, <2>2
<1> DEFINE t1 == (size * bq) * y
           t2 == x * y
           t3 == (unit * m) * x
           t4 == (10000 * (aq * bq)) * z
<1>8. M * D = t1 - t2 + t3 - t4
  <2>1. t1 \in Int /\ t2 \in Int /\ t3 \in Int /\ t4 \in Int
    OBVIOUS
  <2>2. QED BY <1>4, <1>5, <2>1
<1> HIDE DEF x, y, z, D, m, M
<1>9. /\ -(M * size) <= 2 * t1 /\ 2 * t1 <= M * size
      /\ -(M * unit) <= 2 * t3 /\ 2 * t3 <= M * unit
      /\ -(M * 10000) <= 2 * t4 /\ 2 * t4 <= M * 10000
      /\ -M <= 4 * t2 /\ 4 * t2 <= M
  <2>1. -(M * size) <= 2 * t1 /\ 2 * t1 <= M * size
    BY <1>1, <1>6, <1>7, BoundTimes
  <2>2. -(M * unit) <= 2 * t3 /\ 2 * t3 <= M * unit
    BY <1>1, <1>6, <1>7, BoundTimes
  <2>3. -(M * 10000) <= 2 * t4 /\ 2 * t4 <= M * 10000
    BY <1>1, <1>6, <1>7, BoundTimes
  <2>4. -M <= 4 * t2 /\ 4 * t2 <= M
    BY <1>1, <1>6, <1>7, BoundProduct
  <2>5. QED BY <2>1, <2>2, <2>3, <2>4
<1>10. t1 \in Int /\ t2 \in Int /\ t3 \in Int /\ t4 \in Int /\ M * size \in Int /\ M * unit \in Int
  BY <1>1
<1> HIDE DEF t1, t2, t3, t4
<1> DEFINE E == 2 * size + 2 * unit + 20001
<1>11. M * E = 2 * (M * size) + 2 * (M * unit) + 2 * (M * 10000) + M
  BY <1>1
<1>12. 4 * (M * D) <= M * E /\ -(M * E) <= 4 * (M * D)
  BY <1>1, <1>8, <1>9, <1>10, <1>11
<1> HIDE DEF E
<1>13. E \in Int
  BY DEF E
<1>14. 4 * D <= E
  <2>1. CASE E < 4 * D
    <3>1. M * E < M * (4 * D)
      BY <1>1, <1>13, <2>1, ProductsGrow
    <3>2. M * (4 * D) = 4 * (M * D)
      BY <1>1
    <3>3. QED BY <1>1, <1>12, <1>13, <3>1, <3>2
  <2>2. QED BY <1>1, <1>13, <2>1
<1>15. -E <= 4 * D
  <2>1. CASE 4 * D < -E
    <3>1. M * (4 * D) < M * (-E)
      BY <1>1, <1>13, <2>1, ProductsGrow
    <3>2. M * (4 * D) = 4 * (M * D) /\ M * (-E) = -(M * E)
      BY <1>1, <1>13
    <3>3. QED BY <1>1, <1>12, <1>13, <3>1, <3>2
  <2>2. QED BY <1>1, <1>13, <2>1
<1>16. 2 * Abs(D) <= size + unit + 10001
  BY <1>1, <1>14, <1>15 DEF E, Abs
<1>17. QED BY <1>16 DEF D, Agree

\* A rounded percentage change is the new amount's part of the old one, rounded.
LEMMA ChangeRounds ==
  ASSUME NEW was \in Nat \ {0}, NEW is \in Nat,
         NEW pct, pct = 10000 + RoundHalfUp(10000 * (is - was), was)
  PROVE  Rounds(pct, was, is)
<1> DEFINE n == 10000 * (is - was)
           r == RoundHalfUp(n, was)
<1>1. n \in Int
  OBVIOUS
<1> HIDE DEF n
<1>2. r \in Int
  BY <1>1, RoundHalfUpType
<1>3. 2 * Abs(r * was - n) <= was
  BY <1>1, RoundingError
<1> HIDE DEF r
<1>4. (10000 + r) * was - 10000 * is = r * was - n
  BY <1>2 DEF n
<1>5. QED BY <1>2, <1>3, <1>4 DEF r, n, Rounds

(***************************************************************************)
(* The size, price and unit price percentages of a draft of                *)
(* classify_transition are about the same two packages: (1 + size)         *)
(* (1 + unit price) = 1 + price, up to the rounding of each.               *)
(***************************************************************************)
THEOREM DraftPercentagesAgree ==
  ASSUME NEW b, IsView(b), NEW a, IsView(a),
         Classify(b, a).sizePct # None, Classify(b, a).pricePct # None,
         Classify(b, a).unitPct # None
  PROVE  LET size  == 10000 + Classify(b, a).sizePct
             price == 10000 + Classify(b, a).pricePct
             unit  == 10000 + Classify(b, a).unitPct
         IN  2 * Abs(size * unit - 10000 * price) <= size + unit + 10001
<1> DEFINE size  == RoundHalfUp(10000 * (a.quantity - b.quantity), b.quantity)
           price == RoundHalfUp(10000 * (a.price - b.price), b.price)
           was == b.price * a.quantity
           is  == a.price * b.quantity
           unit  == RoundHalfUp(10000 * (is - was), was)
<1>1. HasUnitPrice(b) /\ HasUnitPrice(a) /\ b.price # 0
  BY DraftColumns DEF UnitPriceChange
<1>2. /\ b.price \in Nat \ {0} /\ a.price \in Nat /\ b.price # None /\ a.price # None
      /\ b.quantity \in Nat \ {0} /\ a.quantity \in Nat \ {0}
      /\ b.quantity # None /\ a.quantity # None
  BY <1>1 DEF HasUnitPrice, Comparable, IsView
<1>3. /\ Classify(b, a).sizePct = size
      /\ Classify(b, a).pricePct = price
      /\ Classify(b, a).unitPct = unit
  BY <1>1, <1>2, DraftColumns DEF PctChange, UnitPriceChange
<1>4. was \in Nat \ {0} /\ is \in Nat
  BY <1>2
<1> DEFINE S == 10000 + size
           P == 10000 + price
           U == 10000 + unit
<1>5. Rounds(S, b.quantity, a.quantity)
  BY <1>2, ChangeRounds
<1>6. Rounds(P, b.price, a.price)
  BY <1>2, ChangeRounds
<1>7. Rounds(U, was, is)
  <2> HIDE DEF was, is
  <2>1. QED BY <1>4, ChangeRounds
<1> HIDE DEF S, P, U
<1>8. Agree(S, U, P)
  <2>1. ASSUME NEW bp \in Nat \ {0}, NEW ap \in Nat, NEW bq \in Nat \ {0}, NEW aq \in Nat \ {0},
               bp = b.price, ap = a.price, bq = b.quantity, aq = a.quantity
        PROVE  Agree(S, U, P)
    <3>1. was = bp * aq /\ is = ap * bq
      BY <2>1
    <3>2. Rounds(S, bq, aq) /\ Rounds(P, bp, ap) /\ Rounds(U, was, is)
      BY <1>5, <1>6, <1>7, <2>1
    <3> HIDE DEF was, is
    <3>3. QED BY <3>1, <3>2, ErrorsTogether
  <2>2. QED BY <1>2, <2>1
<1>9. QED BY <1>3, <1>8 DEF S, P, U, Agree

\* The grid is made of snapshots.
LEMMA GridViews == \A v \in Views : IsView(v)
<1>1. \A r \in Readings : r.quantity \in Nat \cup {None} /\ r.conf \in Nat
  <2>1. ASSUME NEW r \in [quantity : Quantities, unit : {"g"}, conf : Confidences]
        PROVE  r.quantity \in Nat /\ r.conf \in Nat
    BY GridAssumption
  <2>2. QED BY <2>1 DEF Readings, Unparsed
<1>2. ASSUME NEW t \in {"old", "new"}, NEW p \in Prices, NEW r \in Readings
      PROVE  IsView(View(t, p, r))
  BY <1>1, GridAssumption DEF View, IsView
<1>3. QED BY <1>2 DEF Views

\* Two consecutive snapshots, whichever observation the product is at.
Observed == IsView(before) /\ IsView(after)

LEMMA ObservedInit == Init => Observed
  BY GridViews DEF Init, Observed

LEMMA ObservedNext == Observed /\ [Next]_vars => Observed'
  BY GridViews DEF Next, vars, Observed

(***************************************************************************)
(* classify_transition, whatever a product's snapshots are: no change is   *)
(* its own reverse.                                                        *)
(***************************************************************************)
THEOREM ReverseDiffers == Spec => []NoChangeIsItsOwnReverse
<1>1. Observed => NoChangeIsItsOwnReverse
  BY NeverItsOwnReverse DEF Observed, NoChangeIsItsOwnReverse, Draft, Reversed, Shrinks
<1>2. QED BY ObservedInit, ObservedNext, <1>1, PTL DEF Spec

(***************************************************************************)
(* classify_transition returns None only where nothing but noise moved.    *)
(***************************************************************************)
THEOREM SilentOnNoise == Spec => []SilentOnlyOnNoise
<1>1. Observed => SilentOnlyOnNoise
  BY SilenceIsNoise DEF Observed, SilentOnlyOnNoise, Draft
<1>2. QED BY ObservedInit, ObservedNext, <1>1, PTL DEF Spec

(***************************************************************************)
(* The thresholds of detect.py are relative: the draft does not depend on  *)
(* the unit the quantities are held in.                                    *)
(***************************************************************************)
THEOREM UnitIrrelevant == Spec => []UnitOfQuantityIrrelevant
<1>1. \A v : Finer(v) = Scaled(v, 2)
  BY DEF Finer, Scaled
<1>2. Observed => Classify(Finer(before), Finer(after)) = Classify(before, after)
  <2>1. Observed => Classify(Scaled(before, 2), Scaled(after, 2)) = Classify(before, after)
    BY UnitDoesNotMatter DEF Observed
  <2>2. QED BY <1>1, <2>1
<1>3. Observed => UnitOfQuantityIrrelevant
  BY <1>2 DEF UnitOfQuantityIrrelevant, Draft
<1>4. QED BY ObservedInit, ObservedNext, <1>3, PTL DEF Spec

(***************************************************************************)
(* A "shrink" and a "shrink_price_cut" of SizeKind tell the truth about    *)
(* the price per unit.                                                     *)
(***************************************************************************)
THEOREM UnitPriceTold == Spec => []ShrinkKindMatchesUnitPrice
<1>1. Observed => ShrinkKindMatchesUnitPrice
  BY KindTellsUnitPrice DEF Observed, ShrinkKindMatchesUnitPrice, Draft
<1>2. QED BY ObservedInit, ObservedNext, <1>1, PTL DEF Spec

(***************************************************************************)
(* The three percentages of a draft are about the same two packages.       *)
(***************************************************************************)
THEOREM PercentagesTold == Spec => []PercentagesAgree
<1>1. Observed => PercentagesAgree
  BY DraftPercentagesAgree DEF Observed, PercentagesAgree, Draft
<1>2. QED BY ObservedInit, ObservedNext, <1>1, PTL DEF Spec
=============================================================================
