----------------------------- MODULE ChartProofs -----------------------------
(***************************************************************************)
(* Lemmas about ChartLayout and SwarmLayout, for any dots, stage, label    *)
(* and lists: orders and extremes of finite sets, the search for a free    *)
(* height, the columns off the scale, the radius, the rows of the chart's  *)
(* texts, and the chart as a whole.                                        *)
(***************************************************************************)
EXTENDS ChartLayout, FiniteSetTheorems, SequenceTheorems, TLAPS

---------------------------------------------------------------------------
(* Numbers and sequences                                                   *)

\* A function on 1..n is a sequence of n elements.
LEMMA ListOf ==
  ASSUME NEW n \in Nat, NEW f, DOMAIN f = 1..n, f = [i \in 1..n |-> f[i]]
  PROVE  f \in Seq({f[i] : i \in 1..n}) /\ Len(f) = n
<1> DEFINE V == {f[i] : i \in 1..n}
<1>1. f \in [1..n -> V]
  OBVIOUS
<1>2. f \in Seq(V)
  BY <1>1
<1>3. QED BY <1>2

\* Division with a remainder, as SMT needs it spelled out.
LEMMA Quotient ==
  ASSUME NEW x \in Nat, NEW y \in Nat \ {0}
  PROVE  /\ x \div y \in Nat /\ (x \div y) * y <= x /\ x < (x \div y) * y + y
         /\ x < y => x \div y = 0 /\ x % y = x
<1>1. x \div y \in Nat /\ (x \div y) * y <= x /\ x < (x \div y) * y + y
  OBVIOUS
<1>2. ASSUME x < y
      PROVE  x \div y = 0 /\ x % y = x
  BY <1>2
<1>3. QED BY <1>1, <1>2

\* A product grows with its factor.
LEMMA ProductsGrow ==
  ASSUME NEW x \in Int, NEW y \in Int, NEW k \in Nat
  PROVE  /\ x <= y => k * x <= k * y
         /\ x < y /\ k > 0 => k * x < k * y
  OBVIOUS

\* Equal factors cancel in a comparison.
LEMMA FactorsCompare ==
  ASSUME NEW x \in Int, NEW y \in Int, NEW k \in Nat \ {0}
  PROVE  /\ k * x <= k * y => x <= y
         /\ k * x < k * y => x < y
<1>1. y < x => k * y < k * x
  BY ProductsGrow
<1>2. y <= x => k * y <= k * x
  BY ProductsGrow
<1>3. k * x \in Int /\ k * y \in Int
  OBVIOUS
<1> DEFINE p == k * x
           q == k * y
<1>4. p \in Int /\ q \in Int /\ (y < x => q < p) /\ (y <= x => q <= p)
  BY <1>1, <1>2, <1>3
<1> HIDE DEF p, q
<1>5. (p <= q => x <= y) /\ (p < q => x < y)
  BY <1>4
<1>6. QED BY <1>5 DEF p, q

\* A finite set has finitely many images.
LEMMA ValuesFinite ==
  ASSUME NEW S, IsFiniteSet(S), NEW f
  PROVE  IsFiniteSet({f[x] : x \in S})
<1> DEFINE T == {f[x] : x \in S}
           h == [x \in S |-> f[x]]
<1>1. h \in [S -> T] /\ \A y \in T : \E x \in S : h[x] = y
  OBVIOUS
<1> HIDE DEF h, T
<1>2. h \in Surjection(S, T)
  BY <1>1 DEF Surjection
<1>3. IsFiniteSet(T)
  BY <1>2, FS_Surjection
<1>4. QED BY <1>3 DEF T

---------------------------------------------------------------------------
(* Orders                                                                  *)

\* R is a strict total order of S.
IsOrder(R, S) ==
  /\ \A x \in S : <<x, x>> \notin R
  /\ \A x, y \in S : x # y => <<x, y>> \in R \/ <<y, x>> \in R
  /\ \A x, y, z \in S : <<x, y>> \in R /\ <<y, z>> \in R => <<x, z>> \in R

Below(R, S, x) == {y \in S : <<y, x>> \in R}

\* An element's place is the number of those before it.
Place(R, S, x) == Cardinality(Below(R, S, x))

\* What stands earlier has the lower place.
LEMMA PlacesDiffer ==
  ASSUME NEW S, IsFiniteSet(S), NEW R, IsOrder(R, S), NEW x \in S, NEW y \in S, <<x, y>> \in R
  PROVE  Place(R, S, x) < Place(R, S, y)
<1>1. Below(R, S, x) \subseteq Below(R, S, y) /\ x \in Below(R, S, y) /\ x \notin Below(R, S, x)
  BY DEF Below, IsOrder
<1>2. IsFiniteSet(Below(R, S, y)) /\ IsFiniteSet(Below(R, S, x))
  BY FS_Subset DEF Below
<1>3. /\ Place(R, S, x) <= Place(R, S, y)
      /\ Place(R, S, x) # Place(R, S, y)
      /\ Place(R, S, x) \in Nat /\ Place(R, S, y) \in Nat
  BY <1>1, <1>2, FS_Subset, FS_CardinalityType DEF Place
<1>4. QED BY <1>3

\* A place is a number below the number of elements.
LEMMA PlaceType ==
  ASSUME NEW S, IsFiniteSet(S), NEW R, IsOrder(R, S), NEW x \in S
  PROVE  Place(R, S, x) \in 0..(Cardinality(S) - 1)
<1>1. Below(R, S, x) \in SUBSET (S \ {x})
  BY DEF Below, IsOrder
<1>2. IsFiniteSet(S \ {x}) /\ Cardinality(S \ {x}) = Cardinality(S) - 1 /\ Cardinality(S) \in Nat
  BY FS_RemoveElement, FS_CardinalityType
<1>3. Place(R, S, x) \in Nat /\ Place(R, S, x) <= Cardinality(S) - 1
  BY <1>1, <1>2, FS_Subset, FS_CardinalityType DEF Place
<1>4. QED BY <1>2, <1>3

\* Every place has exactly one element.
LEMMA PlacesAreTaken ==
  ASSUME NEW S, IsFiniteSet(S), NEW R, IsOrder(R, S)
  PROVE  /\ \A x, y \in S : Place(R, S, x) = Place(R, S, y) => x = y
         /\ \A i \in 1..Cardinality(S) : \E x \in S : Place(R, S, x) = i - 1
<1> DEFINE n == Cardinality(S)
           f == [x \in S |-> Place(R, S, x)]
<1>1. n \in Nat
  BY FS_CardinalityType
<1>2. \A x \in S : Place(R, S, x) \in 0..(n - 1)
  BY PlaceType
<1>3. \A x, y \in S : Place(R, S, x) = Place(R, S, y) => x = y
  <2>1. SUFFICES ASSUME NEW x \in S, NEW y \in S, x # y, Place(R, S, x) = Place(R, S, y)
                 PROVE  FALSE
    OBVIOUS
  <2>2. Place(R, S, x) \in Nat /\ Place(R, S, y) \in Nat
    BY <1>1, <1>2
  <2>3. <<x, y>> \in R \/ <<y, x>> \in R
    BY <2>1 DEF IsOrder
  <2>4. QED BY <2>1, <2>2, <2>3, PlacesDiffer
<1>4. IsFiniteSet(0..(n - 1)) /\ Cardinality(0..(n - 1)) = n
  BY <1>1, FS_Interval
<1>5. f \in Injection(S, 0..(n - 1))
  <2>1. f \in [S -> 0..(n - 1)]
    BY <1>2
  <2>2. \A x, y \in S : f[x] = f[y] => x = y
    BY <1>3
  <2> HIDE DEF f
  <2>3. QED BY <2>1, <2>2 DEF Injection, IsInjective
<1>6. f \in Surjection(S, 0..(n - 1))
  <2> HIDE DEF f
  <2>1. QED BY <1>4, <1>5, FS_Injection
<1>7. ASSUME NEW i \in 1..n
      PROVE  \E x \in S : Place(R, S, x) = i - 1
  <2>1. i - 1 \in 0..(n - 1)
    BY <1>1
  <2>2. \E x \in S : f[x] = i - 1
    BY <1>6, <2>1 DEF Surjection
  <2>3. QED BY <2>2
<1>8. QED BY <1>3, <1>7

\* A function on 1..n is a list of length n.
LEMMA ListType ==
  ASSUME NEW n \in Nat, NEW S, NEW f \in [1..n -> S]
  PROVE  f \in Seq(S) /\ Len(f) = n
  OBVIOUS

\* What InOrder lists: every element once.
LEMMA AllListed ==
  ASSUME NEW S, IsFiniteSet(S), NEW R, IsOrder(R, S),
         NEW f \in [1..Cardinality(S) -> S],
         \A i \in 1..Cardinality(S) : Place(R, S, f[i]) = i - 1
  PROVE  /\ f \in Seq(S) /\ Len(f) = Cardinality(S) /\ Len(f) \in Nat
         /\ Range(f) = S
         /\ \A i, j \in 1..Cardinality(S) : f[i] = f[j] => i = j
<1> DEFINE n == Cardinality(S)
<1>1. n \in Nat
  BY FS_CardinalityType
<1>2. \A i \in 1..n : f[i] \in S /\ Place(R, S, f[i]) = i - 1
  OBVIOUS
<1>3. f \in [1..n -> S]
  BY <1>2
<1> HIDE DEF n
<1>4. f \in Seq(S) /\ Len(f) = n
  BY <1>1, <1>3, ListType
<1>5. \A x \in S : \E i \in 1..n : f[i] = x
  <2>1. SUFFICES ASSUME NEW x \in S PROVE \E i \in 1..n : f[i] = x
    OBVIOUS
  <2>2. Place(R, S, x) \in 0..(n - 1)
    BY PlaceType DEF n
  <2>3. Place(R, S, x) + 1 \in 1..n /\ (Place(R, S, x) + 1) - 1 = Place(R, S, x)
    BY <1>1, <2>2
  <2>4. Place(R, S, f[Place(R, S, x) + 1]) = Place(R, S, x) /\ f[Place(R, S, x) + 1] \in S
    BY <1>2, <2>3
  <2>5. f[Place(R, S, x) + 1] = x
    BY <2>4, PlacesAreTaken
  <2>6. QED BY <2>3, <2>5
<1>6. Range(f) = S
  BY <1>3, <1>5 DEF Range
<1>7. \A i, j \in 1..n : f[i] = f[j] => i = j
  <2>1. SUFFICES ASSUME NEW i \in 1..n, NEW j \in 1..n, f[i] = f[j] PROVE i = j
    OBVIOUS
  <2>2. i - 1 = j - 1 /\ i \in Int /\ j \in Int
    BY <1>1, <1>2, <2>1
  <2>3. QED BY <2>2
<1>8. QED BY <1>1, <1>4, <1>6, <1>7 DEF n

\* The first of some.
LEMMA FirstExists ==
  ASSUME NEW S, IsFiniteSet(S), NEW R, IsOrder(R, S), S # {}
  PROVE  \E x \in S : \A y \in S \ {x} : <<x, y>> \in R
<1>1. Cardinality(S) \in Nat /\ Cardinality(S) # 0
  BY FS_CardinalityType, FS_EmptySet
<1>2. 1 \in 1..Cardinality(S) /\ 1 - 1 = 0
  BY <1>1
<1>3. PICK x \in S : Place(R, S, x) = 0
  BY <1>2, PlacesAreTaken
<1>4. IsFiniteSet(Below(R, S, x))
  BY FS_Subset DEF Below
<1>5. Below(R, S, x) = {}
  BY <1>3, <1>4, FS_EmptySet DEF Place
<1>6. \A y \in S \ {x} : <<x, y>> \in R
  BY <1>5 DEF Below, IsOrder
<1>7. QED BY <1>6

---------------------------------------------------------------------------
(* Extremes                                                                *)

\* Max of the community modules, for a finite set of integers.
LEMMA MaxOfFinite ==
  ASSUME NEW S, S \subseteq Int, IsFiniteSet(S), S # {}
  PROVE  Max(S) \in S /\ \A y \in S : Max(S) >= y
<1> DEFINE R == {p \in S \X S : p[1] > p[2]}
<1>1. \A x, y \in S : <<x, y>> \in R <=> x > y
  OBVIOUS
<1> HIDE DEF R
<1>2. IsOrder(R, S)
  <2>1. /\ \A x \in S : ~(x > x)
        /\ \A x, y \in S : x # y => x > y \/ y > x
        /\ \A x, y, z \in S : x > y /\ y > z => x > z
    OBVIOUS
  <2>2. QED BY <1>1, <2>1 DEF IsOrder
<1>3. PICK x \in S : \A y \in S \ {x} : <<x, y>> \in R
  BY <1>2, FirstExists
<1>4. \A y \in S : x >= y
  <2>1. \A y \in S \ {x} : x > y
    BY <1>1, <1>3
  <2>2. QED BY <2>1
<1>5. QED BY <1>4 DEF Max

\* Min likewise.
LEMMA MinOfFinite ==
  ASSUME NEW S, S \subseteq Int, IsFiniteSet(S), S # {}
  PROVE  Min(S) \in S /\ \A y \in S : Min(S) <= y
<1> DEFINE R == {p \in S \X S : p[1] < p[2]}
<1>1. \A x, y \in S : <<x, y>> \in R <=> x < y
  OBVIOUS
<1> HIDE DEF R
<1>2. IsOrder(R, S)
  <2>1. /\ \A x \in S : ~(x < x)
        /\ \A x, y \in S : x # y => x < y \/ y < x
        /\ \A x, y, z \in S : x < y /\ y < z => x < z
    OBVIOUS
  <2>2. QED BY <1>1, <2>1 DEF IsOrder
<1>3. PICK x \in S : \A y \in S \ {x} : <<x, y>> \in R
  BY <1>2, FirstExists
<1>4. \A y \in S : x <= y
  <2>1. \A y \in S \ {x} : x < y
    BY <1>1, <1>3
  <2>2. QED BY <2>1
<1>5. QED BY <1>4 DEF Min

\* The larger of two numbers and the smaller.
LEMMA OfTwo ==
  ASSUME NEW x \in Int, NEW y \in Int
  PROVE  /\ Max({x, y}) = IF x >= y THEN x ELSE y
         /\ Min({x, y}) = IF x <= y THEN x ELSE y
<1> DEFINE S == {x, y}
<1>1. IsFiniteSet(S)
  <2>1. IsFiniteSet(({} \cup {x}) \cup {y})
    BY FS_EmptySet, FS_AddElement
  <2>2. ({} \cup {x}) \cup {y} = S
    OBVIOUS
  <2>3. QED BY <2>1, <2>2
<1>2. S \subseteq Int /\ S # {} /\ \A z : z \in S <=> z = x \/ z = y
  OBVIOUS
<1> HIDE DEF S
<1>3. Max(S) \in S /\ \A z \in S : Max(S) >= z
  BY <1>1, <1>2, MaxOfFinite
<1>4. Min(S) \in S /\ \A z \in S : Min(S) <= z
  BY <1>1, <1>2, MinOfFinite
<1>5. Max(S) = IF x >= y THEN x ELSE y
  BY <1>2, <1>3
<1>6. Min(S) = IF x <= y THEN x ELSE y
  BY <1>2, <1>4
<1>7. QED BY <1>5, <1>6 DEF S

\* A set of places that holds every place before one of its own is an initial segment.
LEMMA FirstOnes ==
  ASSUME NEW n \in Nat, NEW J \in SUBSET (1..n),
         \A i, j \in 1..n : i < j /\ j \in J => i \in J
  PROVE  IsFiniteSet(J) /\ Cardinality(J) \in Nat /\ J = 1..Cardinality(J)
<1>1. IsFiniteSet(1..n)
  BY FS_Interval
<1>2. IsFiniteSet(J) /\ Cardinality(J) \in Nat
  BY <1>1, FS_Subset, FS_CardinalityType
<1>3. CASE J = {}
  <2>1. Cardinality(J) = 0
    BY <1>3, FS_EmptySet
  <2>2. QED BY <1>2, <1>3, <2>1
<1>4. CASE J # {}
  <2> DEFINE m == Max(J)
  <2>1. m \in J /\ \A j \in J : m >= j
    <3>1. J \subseteq Int
      OBVIOUS
    <3>2. QED BY <1>2, <1>4, <3>1, MaxOfFinite
  <2> HIDE DEF m
  <2>2. m \in Nat /\ m >= 1 /\ m <= n
    BY <2>1
  <2>3. J = 1..m
    <3>1. ASSUME NEW i \in 1..m PROVE i \in J
      <4>1. i = m \/ (i < m /\ i \in 1..n /\ m \in 1..n)
        BY <2>2
      <4>2. QED BY <2>1, <4>1
    <3>2. ASSUME NEW i \in J PROVE i \in 1..m
      BY <2>1, <2>2
    <3>3. QED BY <3>1, <3>2
  <2>4. Cardinality(1..m) = m
    BY <2>2, FS_Interval
  <2>5. QED BY <1>2, <2>3, <2>4
<1>5. QED BY <1>3, <1>4

---------------------------------------------------------------------------
(* Recursion                                                               *)

\* Induction, for a set of numbers up to n.
LEMMA Upto ==
  ASSUME NEW n \in Nat, NEW S, 0 \in S, \A i \in 1..n : i - 1 \in S => i \in S
  PROVE  0..n \subseteq S
<1> DEFINE T == (0..n) \ S
<1> SUFFICES ASSUME T # {} PROVE FALSE
  OBVIOUS
<1>1. T \subseteq Int /\ IsFiniteSet(T)
  <2>1. IsFiniteSet(0..n) /\ 0..n \subseteq Int
    BY FS_Interval
  <2>2. QED BY <2>1, FS_Subset
<1> DEFINE m == Min(T)
<1> HIDE DEF T
<1>2. m \in T /\ \A k \in T : m <= k
  BY <1>1, MinOfFinite
<1>3. T \subseteq 0..n /\ \A k \in 0..n : k \notin T => k \in S
  BY DEF T
<1> HIDE DEF m
<1>4. m \in 1..n /\ m \notin S
  BY <1>2, <1>3 DEF T
<1>5. m - 1 \in 0..n /\ m - 1 \notin T
  BY <1>2, <1>4
<1>6. QED BY <1>3, <1>4, <1>5

StepsIn(n, S) == [1..n -> [S -> S]]
IsIteration(f, n, S, a, step) ==
  f \in [0..n -> S] /\ f[0] = a /\ \A i \in 1..n : f[i] = step[i][f[i - 1]]

\* Steps can be taken one after the other.
LEMMA Iterates ==
  ASSUME NEW n \in Nat, NEW S, NEW a \in S, NEW step \in StepsIn(n, S)
  PROVE  \E f : IsIteration(f, n, S, a, step)
<1>0. step \in [1..n -> [S -> S]]
  BY DEF StepsIn
<1> DEFINE Iterated(m, f) == f[0] = a /\ \A i \in 1..n : i <= m => f[i] = step[i][f[i - 1]]
           T == {m \in 0..n : \E f \in [0..n -> S] : Iterated(m, f)}
<1>1. 0 \in T
  <2>1. Iterated(0, [i \in 0..n |-> a])
    OBVIOUS
  <2>2. [i \in 0..n |-> a] \in [0..n -> S] /\ 0 \in 0..n
    OBVIOUS
  <2>3. QED BY <2>1, <2>2
<1>2. ASSUME NEW m \in 1..n, m - 1 \in T PROVE m \in T
  <2>1. PICK f \in [0..n -> S] : Iterated(m - 1, f)
    BY <1>2
  <2> DEFINE g == [f EXCEPT ![m] = step[m][f[m - 1]]]
  <2>2. m - 1 \in 0..n /\ f[m - 1] \in S /\ step[m] \in [S -> S]
    BY <1>0
  <2>3. g \in [0..n -> S]
    BY <2>2
  <2>4. g[0] = a /\ g[m] = step[m][f[m - 1]] /\ \A i \in 0..n : i # m => g[i] = f[i]
    BY <2>1
  <2>5. ASSUME NEW i \in 1..n, i <= m PROVE g[i] = step[i][g[i - 1]]
    <3>1. i - 1 \in 0..n /\ i - 1 # m
      BY <2>5
    <3>2. CASE i = m
      BY <2>4, <3>1, <3>2
    <3>3. CASE i # m
      <4>1. i <= m - 1 /\ i \in 0..n
        BY <2>5, <3>3
      <4>2. f[i] = step[i][f[i - 1]]
        BY <2>1, <4>1
      <4>3. QED BY <2>4, <3>1, <3>3, <4>1, <4>2
    <3>4. QED BY <3>2, <3>3
  <2> HIDE DEF g
  <2>6. Iterated(m, g)
    BY <2>4, <2>5
  <2>7. QED BY <2>3, <2>6
<1> HIDE DEF T
<1>3. 0..n \subseteq T
  BY <1>1, <1>2, Upto
<1>4. n \in T
  BY <1>3
<1>5. QED BY <1>4 DEF T, IsIteration

---------------------------------------------------------------------------
(* The dots by value                                                       *)

\* Dots or places, no two of one product.
AreMoves(T) ==
  /\ IsFiniteSet(T)
  /\ \A d \in T : d.id \in Int /\ d.value \in Int
  /\ \A d, e \in T : d.id = e.id => d = e

ValueBefore(a, b) == a.value < b.value \/ (a.value = b.value /\ a.id < b.id)
ValuePairs(T) == {r \in T \X T : ValueBefore(r[1], r[2])}

\* Value, then id, orders the dots.
LEMMA MovesOrdered ==
  ASSUME NEW T, AreMoves(T)
  PROVE  IsOrder(ValuePairs(T), T)
<1>1. \A a, b \in T : <<a, b>> \in ValuePairs(T) <=> ValueBefore(a, b)
  BY DEF ValuePairs
<1>2. \A a \in T : a.id \in Int /\ a.value \in Int
  BY DEF AreMoves
<1>3. \A a \in T : ~ValueBefore(a, a)
  BY <1>2 DEF ValueBefore
<1>4. \A a, b \in T : a # b => ValueBefore(a, b) \/ ValueBefore(b, a)
  <2>1. SUFFICES ASSUME NEW a \in T, NEW b \in T, a # b PROVE ValueBefore(a, b) \/ ValueBefore(b, a)
    OBVIOUS
  <2>2. a.id # b.id
    BY <2>1 DEF AreMoves
  <2>3. QED BY <1>2, <2>2 DEF ValueBefore
<1>5. \A a, b, c \in T : ValueBefore(a, b) /\ ValueBefore(b, c) => ValueBefore(a, c)
  BY <1>2 DEF ValueBefore
<1>6. QED BY <1>1, <1>3, <1>4, <1>5 DEF IsOrder

\* Each of T once, in the order of the values.
InValueOrder(s, T) ==
  /\ s \in Seq(T) /\ Len(s) \in Nat /\ Len(s) = Cardinality(T) /\ DOMAIN s = 1..Len(s)
  /\ \A i \in 1..Len(s) : s[i] \in T
  /\ \A d \in T : \E i \in 1..Len(s) : s[i] = d
  /\ \A i, j \in 1..Len(s) : i < j => ValueBefore(s[i], s[j])

\* Sorting by value lists every dot once and in that order.
LEMMA SortedByValue ==
  ASSUME NEW T, AreMoves(T)
  PROVE  InValueOrder(SortByValue(T), T)
<1> DEFINE n == Cardinality(T)
           R == ValuePairs(T)
           s == SortByValue(T)
           Before(x) == {y \in T : ValueBefore(y, x)}
<1>1. IsOrder(R, T) /\ IsFiniteSet(T)
  BY MovesOrdered DEF AreMoves
<1>2. \A x \in T : Before(x) = Below(R, T, x)
  BY DEF Below, ValuePairs
<1>3. s = [i \in 1..n |-> CHOOSE x \in T : Cardinality(Before(x)) = i - 1]
  BY DEF SortByValue, InOrder, ValueBefore
<1>4. n \in Nat
  BY <1>1, FS_CardinalityType
<1>5. \A x, y \in T : <<x, y>> \in R <=> ValueBefore(x, y)
  BY DEF ValuePairs
<1> HIDE DEF R, Before
<1>6. \A i \in 1..n : \E x \in T : Cardinality(Before(x)) = i - 1
  BY <1>1, <1>2, PlacesAreTaken DEF Place
<1> HIDE DEF s
<1>7. \A i \in 1..n : s[i] \in T /\ Cardinality(Before(s[i])) = i - 1
  BY <1>3, <1>6
<1>8. \A i \in 1..n : s[i] \in T /\ Place(R, T, s[i]) = i - 1
  BY <1>2, <1>7 DEF Place
<1>9. s \in [1..n -> T]
  BY <1>3, <1>7
<1>10. s \in Seq(T) /\ Len(s) = n /\ Range(s) = T /\ DOMAIN s = 1..n
  <2>1. s \in Seq(T) /\ Len(s) = n
    BY <1>4, <1>9, ListType
  <2>2. Range(s) = T
    BY <1>1, <1>8, <1>9, AllListed
  <2>3. QED BY <1>9, <2>1, <2>2
<1>11. ASSUME NEW i \in 1..n, NEW j \in 1..n, i < j PROVE ValueBefore(s[i], s[j])
  <2>1. s[i] \in T /\ s[j] \in T /\ Place(R, T, s[i]) = i - 1 /\ Place(R, T, s[j]) = j - 1
    BY <1>8
  <2>2. s[i] # s[j] /\ ~(Place(R, T, s[j]) < Place(R, T, s[i]))
    BY <1>4, <1>11, <2>1
  <2>3. <<s[j], s[i]>> \notin R
    BY <1>1, <2>1, <2>2, PlacesDiffer
  <2>4. <<s[i], s[j]>> \in R
    BY <1>1, <2>1, <2>2, <2>3 DEF IsOrder
  <2>5. QED BY <1>5, <2>1, <2>4
<1>12. \A d \in T : \E i \in 1..n : s[i] = d
  BY <1>10 DEF Range
<1>13. InValueOrder(s, T)
  BY <1>4, <1>8, <1>10, <1>11, <1>12 DEF InValueOrder
<1>14. QED BY <1>13 DEF s

---------------------------------------------------------------------------
(* The search for a free height                                            *)

\* A difference of at least d has a square of at least d's.
LEMMA SquaresGrow ==
  ASSUME NEW a \in Int, NEW d \in Nat, a >= d \/ -a >= d
  PROVE  a * a \in Nat /\ d * d \in Nat /\ a * a >= d * d
<1>1. ASSUME NEW b \in Nat, b >= d
      PROVE  b * b \in Nat /\ d * d \in Nat /\ b * b >= d * d
  <2>1. d * d <= d * b /\ b * d <= b * b
    BY <1>1, ProductsGrow
  <2>2. QED BY <2>1
<1>2. CASE a >= d
  BY <1>1, <1>2
<1>3. CASE -a >= d
  <2>1. (-a) * (-a) \in Nat /\ d * d \in Nat /\ (-a) * (-a) >= d * d
    BY <1>1, <1>3
  <2>2. QED BY <2>1
<1>4. QED BY <1>2, <1>3

\* Where two dots do not touch.
FarApart(p, q, D) == (p.x - q.x) * (p.x - q.x) + (p.y - q.y) * (p.y - q.y) >= D * D

\* Two places are far apart when they are so in one coordinate.
LEMMA ApartAcross ==
  ASSUME NEW p, NEW q, p.x \in Int, p.y \in Int, q.x \in Int, q.y \in Int, NEW D \in Nat,
         \/ p.x - q.x >= D \/ q.x - p.x >= D \/ p.y - q.y >= D \/ q.y - p.y >= D
  PROVE  FarApart(p, q, D)
<1> DEFINE a == p.x - q.x
           b == p.y - q.y
<1>1. a \in Int /\ b \in Int
  OBVIOUS
<1>2. (a >= D \/ -a >= D) \/ (b >= D \/ -b >= D)
  OBVIOUS
<1>3. FarApart(p, q, D) <=> a * a + b * b >= D * D
  BY DEF FarApart
<1> HIDE DEF a, b
<1>4. 0 \in Nat /\ (a >= 0 \/ -a >= 0) /\ (b >= 0 \/ -b >= 0)
  BY <1>1
<1>5. a * a \in Nat /\ b * b \in Nat /\ D * D \in Nat
  BY <1>1, <1>4, SquaresGrow
<1>6. a * a >= D * D \/ b * b >= D * D
  BY <1>1, <1>2, SquaresGrow
<1>7. QED BY <1>3, <1>5, <1>6

\* Far apart means far apart by less as well, whichever of the two comes first.
LEMMA SmallerApart ==
  ASSUME NEW p, NEW q, p.x \in Int, p.y \in Int, q.x \in Int, q.y \in Int,
         NEW D \in Nat, NEW d \in Nat, d <= D, FarApart(p, q, D)
  PROVE  FarApart(p, q, d) /\ FarApart(q, p, D)
<1> DEFINE a == p.x - q.x
           b == p.y - q.y
<1>1. a \in Int /\ b \in Int /\ q.x - p.x = -a /\ q.y - p.y = -b
  OBVIOUS
<1>2. D * D >= d * d /\ D * D \in Nat /\ d * d \in Nat
  BY SquaresGrow
<1>3. (-a) * (-a) = a * a /\ (-b) * (-b) = b * b
  BY <1>1
<1>4. /\ FarApart(p, q, D) <=> a * a + b * b >= D * D
      /\ FarApart(p, q, d) <=> a * a + b * b >= d * d
      /\ FarApart(q, p, D) <=> (-a) * (-a) + (-b) * (-b) >= D * D
  BY <1>1 DEF FarApart
<1>5. a * a \in Int /\ b * b \in Int
  BY <1>1
<1> HIDE DEF a, b
<1>6. QED BY <1>2, <1>3, <1>4, <1>5

\* The heights tried are whole pixels, each one once.
LEMMA TriedHeights ==
  /\ \A k \in Nat : \E h \in Int : Tried(k) = 10 * h
  /\ \A j, k \in Nat : Tried(j) = Tried(k) => j = k
<1> DEFINE h(k) == IF k % 2 = 1 THEN (k + 1) \div 2 ELSE -(k \div 2)
<1>1. ASSUME NEW k \in Nat PROVE h(k) \in Int /\ Tried(k) = 10 * h(k)
  BY DEF Tried, Px
<1>2. ASSUME NEW j \in Nat, NEW k \in Nat, h(j) = h(k) PROVE j = k
  BY <1>2
<1> HIDE DEF h
<1>3. ASSUME NEW j \in Nat, NEW k \in Nat, Tried(j) = Tried(k) PROVE j = k
  BY <1>1, <1>2, <1>3
<1>4. QED BY <1>1, <1>3

\* A height found is free, and the middle is what remains.
LEMMA FirstFree ==
  ASSUME NEW s, NEW x, NEW D
  PROVE  /\ \E h \in Int : FreeY(s, x, D) = 10 * h
         /\ (\E k \in 0..(MaxTries - 1) : Free(s, x, Tried(k), D)) => Free(s, x, FreeY(s, x, D), D)
<1> DEFINE tries == 0..(MaxTries - 1)
           IsFree(k) == Free(s, x, Tried(k), D)
<1>1. MaxTries \in Nat \ {0} /\ IsFiniteSet(tries) /\ tries \subseteq Int
  BY SwarmAssumption, FS_Interval
<1>2. CASE ~\E k \in tries : IsFree(k)
  <2>1. FreeY(s, x, D) = 0
    BY <1>2 DEF FreeY
  <2>2. QED BY <1>2, <2>1
<1>3. CASE \E k \in tries : IsFree(k)
  <2>1. \E k \in tries : IsFree(k) /\ \A j \in 0..(k - 1) : ~IsFree(j)
    <3> DEFINE K == {k \in tries : IsFree(k)}
               m == Min(K)
    <3>1. K \subseteq Int /\ IsFiniteSet(K) /\ K # {}
      BY <1>1, <1>3, FS_Subset
    <3>2. m \in K /\ \A k \in K : m <= k
      BY <3>1, MinOfFinite
    <3> HIDE DEF m
    <3>3. ASSUME NEW j \in 0..(m - 1) PROVE ~IsFree(j)
      <4>1. j \in tries /\ ~(m <= j)
        BY <1>1, <3>2
      <4>2. QED BY <3>2, <4>1
    <3>4. QED BY <3>2, <3>3
  <2> DEFINE c == CHOOSE k \in tries : IsFree(k) /\ \A j \in 0..(k - 1) : ~IsFree(j)
  <2>2. c \in tries /\ IsFree(c)
    <3> HIDE DEF IsFree, tries
    <3>1. QED BY <2>1
  <2>3. FreeY(s, x, D) = Tried(c)
    BY <1>3 DEF FreeY
  <2> HIDE DEF c
  <2>4. c \in Nat
    BY <1>1, <2>2
  <2>5. QED BY <2>2, <2>3, <2>4, TriedHeights
<1>4. QED BY <1>2, <1>3

\* Places of dots, at whole pixels from the middle.
ArePlaces(s) ==
  /\ Len(s) \in Nat /\ DOMAIN s = 1..Len(s)
  /\ \A i \in 1..Len(s) : s[i].x \in Int /\ \E h \in Int : s[i].y = 10 * h

\* What is no wider than 16 px blocks only what is around it.
Around(s, x) == {i \in DOMAIN s : s[i].x - x <= 160 /\ x - s[i].x <= 160}

\* freeY gives up only where more dots are around than its tries can rule out heights for.
LEMMA FreeFound ==
  ASSUME NEW s, ArePlaces(s), NEW x \in Int, NEW D \in Nat, D <= 160,
         31 * Cardinality(Around(s, x)) < MaxTries
  PROVE  Free(s, x, FreeY(s, x, D), D) /\ \E h \in Int : FreeY(s, x, D) = 10 * h
<1> DEFINE tries == 0..(MaxTries - 1)
           IsFree(k) == Free(s, x, Tried(k), D)
           I == Around(s, x)
<1>1. MaxTries \in Nat \ {0} /\ IsFiniteSet(tries) /\ Cardinality(tries) = MaxTries
  <2>1. MaxTries \in Nat \ {0}
    BY SwarmAssumption
  <2>2. MaxTries - 1 \in Int /\ 0 \in Int
    BY <2>1
  <2>3. IsFiniteSet(tries) /\ Cardinality(tries) = IF 0 > MaxTries - 1 THEN 0 ELSE (MaxTries - 1) - 0 + 1
    BY <2>2, FS_Interval
  <2>4. QED BY <2>1, <2>3
<1>2. IsFiniteSet(I) /\ Cardinality(I) \in Nat /\ I \subseteq 1..Len(s)
      /\ 31 * Cardinality(I) < MaxTries
  <2>1. I \subseteq 1..Len(s) /\ Len(s) \in Int /\ 1 \in Int
    BY DEF Around, ArePlaces
  <2> HIDE DEF I
  <2>2. IsFiniteSet(1..Len(s))
    BY <2>1, FS_Interval
  <2>3. IsFiniteSet(I) /\ Cardinality(I) \in Nat
    BY <2>1, <2>2, FS_Subset, FS_CardinalityType
  <2>4. QED BY <2>1, <2>3 DEF I
<1> DEFINE Heights == (-15)..15
<1>3. IsFiniteSet(Heights) /\ Cardinality(Heights) = 31
  <2>1. -15 \in Int /\ 15 \in Int
    OBVIOUS
  <2>2. IsFiniteSet(Heights) /\ Cardinality(Heights) = IF -15 > 15 THEN 0 ELSE 15 - (-15) + 1
    BY <2>1, FS_Interval
  <2>3. QED BY <2>2
<1>4. IsFiniteSet(I \X Heights) /\ Cardinality(I \X Heights) = 31 * Cardinality(I)
  <2>1. IsFiniteSet(I \X Heights) /\ Cardinality(I \X Heights) = Cardinality(I) * Cardinality(Heights)
    BY <1>2, <1>3, FS_Product
  <2>2. QED BY <1>2, <1>3, <2>1
<1>5. \E k \in tries : IsFree(k)
  <2>1. SUFFICES ASSUME \A k \in tries : ~IsFree(k) PROVE FALSE
    OBVIOUS
  <2> DEFINE Blocks(k, b) == Tried(k) = s[b[1]].y + 10 * b[2]
  <2>2. ASSUME NEW k \in tries PROVE \E b \in I \X Heights : Blocks(k, b)
    <3>1. k \in Nat
      BY <1>1
    <3>2. PICK h \in Int : Tried(k) = 10 * h
      BY <3>1, TriedHeights
    <3>3. PICK i \in DOMAIN s : ~((s[i].x - x) * (s[i].x - x) + (s[i].y - Tried(k)) * (s[i].y - Tried(k)) >= D * D)
      BY <2>1 DEF Free
    <3>4. i \in 1..Len(s) /\ s[i].x \in Int
      BY <3>3 DEF ArePlaces
    <3>5. PICK g \in Int : s[i].y = 10 * g
      BY <3>4 DEF ArePlaces
    <3> DEFINE p == [x |-> x, y |-> Tried(k)]
    <3>6. p.x = x /\ p.y = Tried(k) /\ p.x \in Int /\ p.y \in Int /\ s[i].y \in Int
      BY <3>2, <3>5
    <3>7. ~FarApart(s[i], p, D)
      BY <3>3, <3>6 DEF FarApart
    <3> HIDE DEF p
    <3>8. ~(s[i].x - p.x >= D) /\ ~(p.x - s[i].x >= D) /\ ~(s[i].y - p.y >= D) /\ ~(p.y - s[i].y >= D)
      BY <3>4, <3>6, <3>7, ApartAcross
    <3>9. i \in I /\ h - g \in Heights
      <4>1. s[i].x - x <= 160 /\ x - s[i].x <= 160
        BY <3>4, <3>6, <3>8
      <4>2. 10 * g - 10 * h < 160 /\ 10 * h - 10 * g < 160
        BY <3>2, <3>5, <3>6, <3>8
      <4>3. i \in I
        BY <3>3, <4>1 DEF Around
      <4>4. h - g \in Heights
        BY <4>2
      <4>5. QED BY <4>3, <4>4
    <3>10. Blocks(k, <<i, h - g>>)
      BY <3>2, <3>5
    <3>11. QED BY <3>9, <3>10
  <2> DEFINE f == [k \in tries |-> CHOOSE b \in I \X Heights : Blocks(k, b)]
  <2>3. ASSUME NEW k \in tries PROVE f[k] \in I \X Heights /\ Blocks(k, f[k])
    BY <2>2
  <2>4. f \in [tries -> I \X Heights]
    BY <2>3
  <2>5. ASSUME NEW j \in tries, NEW k \in tries, f[j] = f[k] PROVE j = k
    <3>1. Tried(j) = Tried(k)
      BY <2>3, <2>5
    <3>2. j \in Nat /\ k \in Nat
      BY <1>1
    <3>3. QED BY <3>1, <3>2, TriedHeights
  <2> HIDE DEF f, I, Heights, tries
  <2>6. Cardinality(I \X Heights) < Cardinality(tries)
    BY <1>1, <1>2, <1>4
  <2>7. \E j, k \in tries : j # k /\ f[j] = f[k]
    BY <1>1, <1>4, <2>4, <2>6, FS_PigeonHole
  <2>8. QED BY <2>5, <2>7
<1>6. QED BY <1>5, FirstFree

---------------------------------------------------------------------------
(* The dots on the axis                                                    *)

PlaceRecords == [id : Int, x : Int, y : Int]

\* No place of the axis is so crowded that the search gives up.
Uncrowded(T) ==
  \A d \in T : 31 * Cardinality({e \in T : e.x - d.x <= 160 /\ d.x - e.x <= 160}) <= MaxTries

\* The first m of s, the dots T in their order, have their places.
IsPlaced(P, s, m, T, D) ==
  /\ P \in Seq(PlaceRecords) /\ Len(P) = m
  /\ \A i \in 1..m : P[i].id = s[i].id /\ P[i].x = s[i].x /\ \E h \in Int : P[i].y = 10 * h
  /\ Uncrowded(T) => \A i, j \in 1..m : i < j => FarApart(P[i], P[j], D)

PlaceNext(s, D, before, m) ==
  Append(before, [id |-> s[m].id, x |-> s[m].x, y |-> FreeY(before, s[m].x, D)])

\* Placing one more dot keeps the placed ones as they are and the new one clear of them.
LEMMA NextPlaced ==
  ASSUME NEW T, AreMoves(T), \A d \in T : d.x \in Int, NEW s, InValueOrder(s, T),
         NEW D \in Nat, D <= 160, NEW m \in 1..Len(s), NEW P, IsPlaced(P, s, m - 1, T, D)
  PROVE  IsPlaced(PlaceNext(s, D, P, m), s, m, T, D)
<1> DEFINE d == s[m]
           new == [id |-> d.id, x |-> d.x, y |-> FreeY(P, d.x, D)]
           Q == Append(P, new)
<1>1. d \in T /\ d.id \in Int /\ d.x \in Int /\ m \in Nat /\ m - 1 \in Nat /\ Len(s) \in Nat
  BY DEF InValueOrder, AreMoves
<1>2. P \in Seq(PlaceRecords) /\ Len(P) = m - 1 /\ DOMAIN P = 1..(m - 1)
  BY DEF IsPlaced
<1>3. \A i \in 1..(m - 1) : i \in 1..Len(s) /\ s[i] \in T /\ P[i].x = s[i].x /\ P[i].x \in Int
  BY <1>1 DEF IsPlaced, InValueOrder
<1>4. ArePlaces(P)
  BY <1>1, <1>2, <1>3 DEF ArePlaces, IsPlaced
<1>5. ASSUME Uncrowded(T) PROVE 31 * Cardinality(Around(P, d.x)) < MaxTries
  <2> DEFINE I == Around(P, d.x)
             C == {e \in T : e.x - d.x <= 160 /\ d.x - e.x <= 160}
             f == [i \in I |-> s[i]]
  <2>1. 31 * Cardinality(C) <= MaxTries
    BY <1>1, <1>5 DEF Uncrowded
  <2>2. IsFiniteSet(C) /\ d \in C /\ Cardinality(C) \in Nat
    BY <1>1, FS_Subset, FS_CardinalityType DEF AreMoves
  <2>3. IsFiniteSet(C \ {d}) /\ Cardinality(C \ {d}) = Cardinality(C) - 1
    <3> HIDE DEF C, d
    <3>1. QED BY <2>2, FS_RemoveElement
  <2>4. ASSUME NEW i \in I PROVE s[i] \in C \ {d}
    <3>1. i \in 1..(m - 1) /\ P[i].x - d.x <= 160 /\ d.x - P[i].x <= 160
      BY <1>2, <2>4 DEF Around
    <3>2. s[i] \in C
      BY <1>3, <3>1
    <3>3. ValueBefore(s[i], d)
      BY <1>1, <3>1 DEF InValueOrder
    <3>4. ~ValueBefore(d, d)
      BY <1>1 DEF ValueBefore, AreMoves
    <3>5. QED BY <3>2, <3>3, <3>4
  <2>5. ASSUME NEW i \in I, NEW j \in I, s[i] = s[j] PROVE i = j
    <3>1. i \in 1..Len(s) /\ j \in 1..Len(s) /\ i \in Int /\ j \in Int
      BY <1>1, <1>2 DEF Around
    <3>2. ~ValueBefore(s[i], s[i])
      BY <3>1 DEF ValueBefore, AreMoves, InValueOrder
    <3>3. ~(i < j) /\ ~(j < i)
      BY <2>5, <3>1, <3>2 DEF InValueOrder
    <3>4. QED BY <3>1, <3>3
  <2>6. f \in Injection(I, C \ {d})
    <3>1. f \in [I -> C \ {d}] /\ \A i, j \in I : f[i] = f[j] => i = j
      BY <2>4, <2>5
    <3> HIDE DEF f, I, C
    <3>2. QED BY <3>1 DEF Injection, IsInjective
  <2> HIDE DEF f, I, C
  <2>7. IsFiniteSet(I) /\ Cardinality(I) <= Cardinality(C) - 1
    BY <2>3, <2>6, FS_Injection
  <2>8. Cardinality(I) \in Nat
    BY <2>7, FS_CardinalityType
  <2>9. MaxTries \in Nat
    BY SwarmAssumption
  <2>10. 31 * Cardinality(I) < MaxTries
    BY <2>1, <2>2, <2>7, <2>8, <2>9
  <2>11. QED BY <2>10 DEF I
<1> DEFINE y == FreeY(P, d.x, D)
<1>6. (Uncrowded(T) => Free(P, d.x, y, D)) /\ \E h \in Int : y = 10 * h
  <2> HIDE DEF d
  <2>1. QED BY <1>1, <1>4, <1>5, FreeFound, FirstFree
<1>7. PlaceNext(s, D, P, m) = Q
  BY DEF PlaceNext
<1> HIDE DEF y
<1>8. y \in Int
  BY <1>6
<1>9. new.id = d.id /\ new.x = d.x /\ new.y = y /\ new \in PlaceRecords
  BY <1>1, <1>8 DEF y, PlaceRecords
<1> HIDE DEF new, d
<1>10. /\ Q \in Seq(PlaceRecords) /\ Len(Q) = m
       /\ Q[m] = new /\ \A i \in 1..(m - 1) : Q[i] = P[i]
  BY <1>1, <1>2, <1>9
<1> HIDE DEF Q
<1>11. ASSUME NEW i \in 1..m
       PROVE  Q[i].id = s[i].id /\ Q[i].x = s[i].x /\ \E h \in Int : Q[i].y = 10 * h
  <2>1. CASE i = m
    BY <1>6, <1>9, <1>10, <2>1 DEF d
  <2>2. CASE i # m
    <3>1. i \in 1..(m - 1)
      BY <1>1, <2>2
    <3>2. QED BY <1>10, <3>1 DEF IsPlaced
  <2>3. QED BY <2>1, <2>2
<1>12. ASSUME NEW i \in 1..m, NEW j \in 1..m, i < j, Uncrowded(T) PROVE FarApart(Q[i], Q[j], D)
  <2>1. i \in 1..(m - 1)
    BY <1>1, <1>12
  <2>2. CASE j = m
    <3>1. (P[i].x - d.x) * (P[i].x - d.x) + (P[i].y - y) * (P[i].y - y) >= D * D
      BY <1>2, <1>6, <1>12, <2>1 DEF Free
    <3>2. QED BY <1>9, <1>10, <2>1, <2>2, <3>1 DEF FarApart
  <2>3. CASE j # m
    <3>1. j \in 1..(m - 1)
      BY <1>1, <2>3
    <3>2. QED BY <1>10, <1>12, <2>1, <3>1 DEF IsPlaced
  <2>4. QED BY <2>2, <2>3
<1>13. QED BY <1>7, <1>10, <1>11, <1>12 DEF IsPlaced

\* Each dot of the axis, at its value and clear of the others.
LEMMA PlacedInScale ==
  ASSUME NEW T, AreMoves(T), \A d \in T : d.x \in Int,
         NEW D \in Nat, D <= 160
  PROVE  IsPlaced(PlaceInScale(T, D), SortByValue(T), Cardinality(T), T, D)
<1> DEFINE s == SortByValue(T)
           n == Len(s)
           Eq(f) == f = [m \in 0..n |-> IF m = 0 THEN <<>> ELSE PlaceNext(s, D, f[m - 1], m)]
           placed == CHOOSE f : Eq(f)
<1>1. InValueOrder(s, T)
  BY SortedByValue
<1>2. PlaceInScale(T, D) = placed[n]
  BY DEF PlaceInScale, PlaceNext
<1> HIDE DEF s
<1>3. n \in Nat /\ n = Cardinality(T) /\ \A m \in 1..n : s[m] \in T
  BY <1>1 DEF InValueOrder
<1>4. \E f : Eq(f)
  <2> DEFINE S == Seq(PlaceRecords)
             step == [m \in 1..n |-> [P \in S |-> PlaceNext(s, D, P, m)]]
  <2>1. ASSUME NEW m \in 1..n, NEW P \in S PROVE PlaceNext(s, D, P, m) \in S
    <3> DEFINE y == FreeY(P, s[m].x, D)
    <3>1. y \in Int
      BY FirstFree
    <3> HIDE DEF y
    <3>2. s[m].id \in Int /\ s[m].x \in Int
      BY <1>3 DEF AreMoves
    <3>3. [id |-> s[m].id, x |-> s[m].x, y |-> y] \in PlaceRecords
      BY <3>1, <3>2 DEF PlaceRecords
    <3>4. QED BY <3>3 DEF PlaceNext, y
  <2>2. step \in StepsIn(n, S)
    BY <2>1 DEF StepsIn
  <2>3. <<>> \in S
    OBVIOUS
  <2> HIDE DEF S, n, step
  <2>4. PICK f : IsIteration(f, n, S, <<>>, step)
    BY <1>3, <2>2, <2>3, Iterates
  <2>5. ASSUME NEW i \in 1..n PROVE f[i] = PlaceNext(s, D, f[i - 1], i)
    <3>1. i - 1 \in 0..n /\ f \in [0..n -> S] /\ f[i] = step[i][f[i - 1]]
      BY <1>3, <2>4 DEF IsIteration
    <3>2. f[i - 1] \in S
      BY <3>1
    <3>3. QED BY <3>1, <3>2 DEF step
  <2>6. ASSUME NEW i \in 0..n PROVE f[i] = IF i = 0 THEN <<>> ELSE PlaceNext(s, D, f[i - 1], i)
    <3>1. CASE i = 0
      BY <2>4, <3>1 DEF IsIteration
    <3>2. CASE i # 0
      <4>1. i \in 1..n
        BY <1>3, <3>2
      <4>2. QED BY <2>5, <3>2, <4>1
    <3>3. QED BY <3>1, <3>2
  <2>7. f = [m \in 0..n |-> f[m]]
    BY <2>4 DEF IsIteration
  <2>8. Eq(f)
    BY <2>6, <2>7
  <2>9. QED BY <2>8
<1>5. Eq(placed)
  <2> HIDE DEF Eq
  <2>1. QED BY <1>4
<1> HIDE DEF placed
<1>6. placed[0] = <<>> /\ \A m \in 1..n : placed[m] = PlaceNext(s, D, placed[m - 1], m)
  <2>1. \A m \in 0..n : placed[m] = IF m = 0 THEN <<>> ELSE PlaceNext(s, D, placed[m - 1], m)
    BY <1>5
  <2>2. QED BY <1>3, <2>1
<1> DEFINE M == {m \in 0..n : IsPlaced(placed[m], s, m, T, D)}
<1>7. 0 \in M
  <2>1. <<>> \in Seq(PlaceRecords) /\ Len(<<>>) = 0 /\ 0 \in 0..n
    BY <1>3
  <2>2. 1..0 = {}
    OBVIOUS
  <2>3. IsPlaced(placed[0], s, 0, T, D)
    BY <1>6, <2>1, <2>2 DEF IsPlaced
  <2>4. QED BY <2>1, <2>3
<1>8. ASSUME NEW m \in 1..n, m - 1 \in M PROVE m \in M
  <2>1. IsPlaced(placed[m], s, m, T, D)
    BY <1>1, <1>6, <1>8, NextPlaced
  <2>2. QED BY <2>1
<1> HIDE DEF M
<1>9. 0..n \subseteq M
  <2> HIDE DEF n
  <2>1. QED BY <1>3, <1>7, <1>8, Upto
<1>10. n \in M
  BY <1>3, <1>9
<1>11. IsPlaced(placed[n], s, n, T, D)
  BY <1>10 DEF M
<1>12. QED BY <1>2, <1>3, <1>11 DEF s

---------------------------------------------------------------------------
(* The columns off the scale                                               *)

\* Non-empty groups of T, one after the other in the order of the values.
IsGroups(g, T) ==
  /\ g \in Seq(Seq(T))
  /\ \A k \in 1..Len(g) : g[k] \in Seq(T) /\ Len(g[k]) \in Nat \ {0}
  /\ \A d \in T : \E k \in 1..Len(g) : \E j \in 1..Len(g[k]) : g[k][j] = d
  /\ \A k, l \in 1..Len(g) : \A i \in 1..Len(g[k]), j \in 1..Len(g[l]) :
       k < l \/ (k = l /\ i < j) => ValueBefore(g[k][i], g[l][j])

\* A dot not below any before it joins the last group or opens one of its own.
LEMMA AddedToGroups ==
  ASSUME NEW T, NEW g, IsGroups(g, T), NEW d, \A e \in T : ValueBefore(e, d)
  PROVE  IsGroups(AddToGroups(g, d), T \cup {d})
<1> DEFINE U == T \cup {d}
           n == Len(g)
<1>1. g \in Seq(Seq(U)) /\ n \in Nat /\ DOMAIN g = 1..n
  BY DEF IsGroups
<1>2. \A k \in 1..n : g[k] \in Seq(U) /\ Len(g[k]) \in Nat \ {0} /\ \A i \in 1..Len(g[k]) : g[k][i] \in T
  <2>1. SUFFICES ASSUME NEW k \in 1..n
                 PROVE  g[k] \in Seq(U) /\ Len(g[k]) \in Nat \ {0} /\ \A i \in 1..Len(g[k]) : g[k][i] \in T
    OBVIOUS
  <2>2. g[k] \in Seq(T) /\ Len(g[k]) \in Nat \ {0}
    BY DEF IsGroups
  <2>3. QED BY <2>2
<1>3. d \in U
  OBVIOUS
\* The new dot is the last one of the last group, or a group of its own.
<1>4. ASSUME NEW h, h \in Seq(Seq(U)), NEW m \in Nat \ {0}, NEW w \in Nat \ {0}, Len(h) = m,
             n <= m,
             \A k \in 1..m : h[k] \in Seq(U) /\ Len(h[k]) \in Nat \ {0},
             \A k \in 1..n : Len(g[k]) <= Len(h[k]) /\ \A i \in 1..Len(g[k]) : h[k][i] = g[k][i],
             \A k \in 1..m : \A i \in 1..Len(h[k]) :
               (k = m /\ i = w) \/ (k \in 1..n /\ i \in 1..Len(g[k])),
             Len(h[m]) = w, h[m][w] = d
      PROVE  IsGroups(h, U)
  <2>1. ASSUME NEW e \in U PROVE \E k \in 1..m : \E j \in 1..Len(h[k]) : h[k][j] = e
    <3>1. CASE e \in T
      <4>0. PICK k \in 1..n : \E j \in 1..Len(g[k]) : g[k][j] = e
        BY <3>1 DEF IsGroups
      <4>1. PICK j \in 1..Len(g[k]) : g[k][j] = e
        BY <4>0
      <4>2. k \in 1..m /\ Len(g[k]) <= Len(h[k]) /\ h[k][j] = g[k][j] /\ Len(h[k]) \in Nat /\ Len(g[k]) \in Nat
        BY <1>1, <1>2, <1>4
      <4>3. j \in 1..Len(h[k])
        BY <4>2
      <4>4. QED BY <4>1, <4>2, <4>3
    <3>2. CASE e = d
      <4>1. m \in 1..m /\ w \in 1..Len(h[m])
        BY <1>4
      <4>2. QED BY <1>4, <3>2, <4>1
    <3>3. QED BY <3>1, <3>2
  <2>2. ASSUME NEW k \in 1..m, NEW l \in 1..m, NEW i \in 1..Len(h[k]), NEW j \in 1..Len(h[l]),
               k < l \/ (k = l /\ i < j)
        PROVE  ValueBefore(h[k][i], h[l][j])
    <3>0. k \in Nat /\ l \in Nat /\ i \in Nat /\ j \in Nat /\ i <= Len(h[k]) /\ j <= Len(h[l])
          /\ Len(h[k]) \in Nat /\ Len(h[l]) \in Nat
      BY <1>4
    <3>1. ~(k = m /\ i = w)
      BY <1>4, <2>2, <3>0
    <3>2. k \in 1..n /\ i \in 1..Len(g[k]) /\ h[k][i] = g[k][i] /\ g[k][i] \in T
      BY <1>2, <1>4, <3>1
    <3>3. CASE l = m /\ j = w
      BY <1>4, <3>2, <3>3
    <3>4. CASE ~(l = m /\ j = w)
      <4>1. l \in 1..n /\ j \in 1..Len(g[l]) /\ h[l][j] = g[l][j]
        BY <1>4, <3>4
      <4>2. ValueBefore(g[k][i], g[l][j])
        BY <2>2, <3>2, <4>1 DEF IsGroups
      <4>3. QED BY <3>2, <4>1, <4>2
    <3>5. QED BY <3>3, <3>4
  <2>3. QED BY <1>4, <2>1, <2>2 DEF IsGroups
<1>5. CASE g # <<>> /\ d.value - Last(g)[1].value < 5
  <2> DEFINE a == g[n]
             b == Append(a, d)
             h == [g EXCEPT ![n] = b]
  <2>1. AddToGroups(g, d) = h
    BY <1>5 DEF AddToGroups
  <2>2. n \in 1..n
    BY <1>1, <1>5
  <2>3. a \in Seq(U) /\ Len(a) \in Nat \ {0}
    BY <1>2, <2>2
  <2>4. /\ b \in Seq(U) /\ Len(b) = Len(a) + 1
        /\ b[Len(a) + 1] = d /\ \A i \in 1..Len(a) : b[i] = a[i]
    <3> HIDE DEF a, U
    <3>1. QED BY <1>3, <2>3, AppendProperties
  <2> HIDE DEF b
  <2>5. h \in Seq(Seq(U)) /\ Len(h) = n /\ h[n] = b /\ \A k \in 1..n : k # n => h[k] = g[k]
    <3> HIDE DEF U
    <3>1. QED BY <1>1, <2>2, <2>4, ExceptSeq
  <2> DEFINE w == Len(a) + 1
  <2>6. w \in Nat \ {0} /\ n \in Nat \ {0} /\ Len(h[n]) = w /\ h[n][w] = d
    BY <2>2, <2>3, <2>4, <2>5
  <2>7. \A k \in 1..n : h[k] \in Seq(U) /\ Len(h[k]) \in Nat \ {0}
    BY <1>2, <2>4, <2>5, <2>6
  <2>8. \A k \in 1..n : Len(g[k]) <= Len(h[k]) /\ \A i \in 1..Len(g[k]) : h[k][i] = g[k][i]
    <3>1. SUFFICES ASSUME NEW k \in 1..n
                   PROVE  Len(g[k]) <= Len(h[k]) /\ \A i \in 1..Len(g[k]) : h[k][i] = g[k][i]
      OBVIOUS
    <3>2. CASE k = n
      BY <2>3, <2>4, <2>5, <3>2
    <3>3. CASE k # n
      BY <1>2, <2>5, <3>3
    <3>4. QED BY <3>2, <3>3
  <2>9. \A k \in 1..n : \A i \in 1..Len(h[k]) : (k = n /\ i = w) \/ (k \in 1..n /\ i \in 1..Len(g[k]))
    <3>1. SUFFICES ASSUME NEW k \in 1..n, NEW i \in 1..Len(h[k])
                   PROVE  (k = n /\ i = w) \/ i \in 1..Len(g[k])
      OBVIOUS
    <3>2. CASE k = n
      BY <2>3, <2>4, <2>5, <3>2
    <3>3. CASE k # n
      BY <2>5, <3>3
    <3>4. QED BY <3>2, <3>3
  <2> HIDE DEF h, w, a, U
  <2>10. IsGroups(h, U)
    <3> HIDE DEF n
    <3>1. n <= n
      BY <1>1
    <3>2. QED BY <1>4, <2>5, <2>6, <2>7, <2>8, <2>9, <3>1
  <2>11. QED BY <2>1, <2>10 DEF U
<1>6. CASE ~(g # <<>> /\ d.value - Last(g)[1].value < 5)
  <2> DEFINE b == <<d>>
             h == Append(g, b)
             m == n + 1
  <2>1. AddToGroups(g, d) = h
    BY <1>6 DEF AddToGroups
  <2>2. b \in Seq(U) /\ Len(b) = 1 /\ b[1] = d
    BY <1>3
  <2> HIDE DEF b
  <2>3. h \in Seq(Seq(U)) /\ Len(h) = m /\ h[m] = b /\ \A k \in 1..n : h[k] = g[k]
    <3> HIDE DEF U
    <3>1. QED BY <1>1, <2>2, AppendProperties
  <2> HIDE DEF h
  <2>4. \A k \in 1..m : k = m \/ k \in 1..n
    BY <1>1
  <2>5. m \in Nat \ {0} /\ n <= m
    BY <1>1
  <2> HIDE DEF m, U
  <2>6. \A k \in 1..m : h[k] \in Seq(U) /\ Len(h[k]) \in Nat \ {0}
    <3>1. SUFFICES ASSUME NEW k \in 1..m PROVE h[k] \in Seq(U) /\ Len(h[k]) \in Nat \ {0}
      OBVIOUS
    <3>2. CASE k = m
      <4>1. h[k] = b
        BY <2>3, <3>2
      <4>2. Len(b) \in Nat \ {0} /\ b \in Seq(U)
        BY <2>2
      <4>3. QED BY <4>1, <4>2
    <3>3. CASE k \in 1..n
      BY <1>2, <2>3, <3>3
    <3>4. QED BY <2>4, <3>2, <3>3
  <2>7. \A k \in 1..n : Len(g[k]) <= Len(h[k]) /\ \A i \in 1..Len(g[k]) : h[k][i] = g[k][i]
    BY <1>2, <2>3
  <2>8. \A k \in 1..m : \A i \in 1..Len(h[k]) : (k = m /\ i = 1) \/ (k \in 1..n /\ i \in 1..Len(g[k]))
    <3>1. SUFFICES ASSUME NEW k \in 1..m, NEW i \in 1..Len(h[k])
                   PROVE  (k = m /\ i = 1) \/ (k \in 1..n /\ i \in 1..Len(g[k]))
      OBVIOUS
    <3>2. CASE k = m
      <4>1. Len(h[k]) = 1
        BY <2>2, <2>3, <3>2
      <4>2. QED BY <3>2, <4>1
    <3>3. CASE k \in 1..n
      BY <2>3, <3>3
    <3>4. QED BY <2>4, <3>2, <3>3
  <2>9. IsGroups(h, U)
    BY <1>4, <2>2, <2>3, <2>5, <2>6, <2>7, <2>8
  <2>10. QED BY <2>1, <2>9 DEF U
<1>7. QED BY <1>5, <1>6

\* The groups hold dots.
LEMMA GroupsType ==
  ASSUME NEW T, NEW g \in Seq(Seq(T)), NEW d \in T
  PROVE  AddToGroups(g, d) \in Seq(Seq(T))
<1> DEFINE n == Len(g)
<1>1. CASE g # <<>> /\ d.value - Last(g)[1].value < 5
  <2> DEFINE b == Append(g[n], d)
  <2>1. n \in 1..n
    BY <1>1
  <2>2. b \in Seq(T)
    BY <2>1
  <2> HIDE DEF b
  <2>3. [g EXCEPT ![n] = b] \in Seq(Seq(T))
    BY <2>1, <2>2
  <2>4. AddToGroups(g, d) = [g EXCEPT ![n] = b]
    BY <1>1 DEF AddToGroups, b
  <2>5. QED BY <2>3, <2>4
<1>2. CASE ~(g # <<>> /\ d.value - Last(g)[1].value < 5)
  <2>1. AddToGroups(g, d) = Append(g, <<d>>)
    BY <1>2 DEF AddToGroups
  <2>2. QED BY <2>1
<1>3. QED BY <1>1, <1>2

\* The groups of offColumns part the dots by value.
LEMMA Grouped ==
  ASSUME NEW T, AreMoves(T), NEW s, InValueOrder(s, T)
  PROVE  IsGroups(Groups(s), T)
<1> DEFINE n == Len(s)
           Eq(f) == f = [m \in 0..n |-> IF m = 0 THEN <<>> ELSE AddToGroups(f[m - 1], s[m])]
           groups == CHOOSE f : Eq(f)
<1>1. Groups(s) = groups[n]
  BY DEF Groups
<1>2. n \in Nat /\ \A m \in 1..n : s[m] \in T
  BY DEF InValueOrder
<1>3. \E f : Eq(f)
  <2> DEFINE S == Seq(Seq(T))
             step == [m \in 1..n |-> [g \in S |-> AddToGroups(g, s[m])]]
  <2>1. ASSUME NEW m \in 1..n, NEW g \in S PROVE AddToGroups(g, s[m]) \in S
    BY <1>2, GroupsType
  <2>2. step \in StepsIn(n, S)
    BY <2>1 DEF StepsIn
  <2>3. <<>> \in S
    OBVIOUS
  <2> HIDE DEF S, n, step
  <2>4. PICK f : IsIteration(f, n, S, <<>>, step)
    BY <1>2, <2>2, <2>3, Iterates
  <2>5. ASSUME NEW i \in 1..n PROVE f[i] = AddToGroups(f[i - 1], s[i])
    <3>1. i - 1 \in 0..n /\ f \in [0..n -> S] /\ f[i] = step[i][f[i - 1]]
      BY <1>2, <2>4 DEF IsIteration
    <3>2. f[i - 1] \in S
      BY <3>1
    <3>3. QED BY <3>1, <3>2 DEF step
  <2>6. ASSUME NEW i \in 0..n PROVE f[i] = IF i = 0 THEN <<>> ELSE AddToGroups(f[i - 1], s[i])
    <3>1. CASE i = 0
      BY <2>4, <3>1 DEF IsIteration
    <3>2. CASE i # 0
      <4>1. i \in 1..n
        BY <1>2, <3>2
      <4>2. QED BY <2>5, <3>2, <4>1
    <3>3. QED BY <3>1, <3>2
  <2>7. f = [m \in 0..n |-> f[m]]
    BY <2>4 DEF IsIteration
  <2>8. Eq(f)
    BY <2>6, <2>7
  <2>9. QED BY <2>8
<1>4. Eq(groups)
  <2> HIDE DEF Eq
  <2>1. QED BY <1>3
<1> HIDE DEF groups
<1>5. groups[0] = <<>> /\ \A m \in 1..n : groups[m] = AddToGroups(groups[m - 1], s[m])
  <2>1. \A m \in 0..n : groups[m] = IF m = 0 THEN <<>> ELSE AddToGroups(groups[m - 1], s[m])
    BY <1>4
  <2>2. QED BY <1>2, <2>1
<1> DEFINE First(m) == {s[i] : i \in 1..m}
           M == {m \in 0..n : IsGroups(groups[m], First(m))}
<1>6. 0 \in M
  <2>1. <<>> \in Seq(Seq(First(0))) /\ Len(<<>>) = 0 /\ 1..0 = {} /\ 0 \in 0..n
    BY <1>2
  <2>2. First(0) = {}
    BY <2>1
  <2> HIDE DEF First
  <2>3. IsGroups(groups[0], First(0))
    BY <1>5, <2>1, <2>2 DEF IsGroups
  <2>4. QED BY <2>1, <2>3
<1>7. ASSUME NEW m \in 1..n, m - 1 \in M PROVE m \in M
  <2>1. \A e \in First(m - 1) : ValueBefore(e, s[m])
    <3>1. SUFFICES ASSUME NEW i \in 1..(m - 1) PROVE ValueBefore(s[i], s[m])
      OBVIOUS
    <3>2. i \in 1..n /\ i < m
      BY <1>2
    <3>3. QED BY <3>2 DEF InValueOrder
  <2>2. First(m) = First(m - 1) \cup {s[m]}
    <3>1. 1..m = 1..(m - 1) \cup {m}
      BY <1>2
    <3>2. QED BY <3>1
  <2> HIDE DEF First
  <2>3. IsGroups(AddToGroups(groups[m - 1], s[m]), First(m - 1) \cup {s[m]})
    BY <1>7, <2>1, AddedToGroups
  <2>4. m \in 0..n
    BY <1>2
  <2>5. QED BY <1>5, <2>2, <2>3, <2>4
<1> HIDE DEF M
<1>8. 0..n \subseteq M
  <2> HIDE DEF n
  <2>1. QED BY <1>2, <1>6, <1>7, Upto
<1>9. n \in M
  BY <1>2, <1>8
<1>10. First(n) = T
  BY DEF InValueOrder
<1>11. QED BY <1>1, <1>9, <1>10 DEF M

\* Merging two neighbours keeps the parting and leaves one group fewer.
LEMMA Merged ==
  ASSUME NEW T, AreMoves(T), NEW g, IsGroups(g, T), Len(g) > 3
  PROVE  IsGroups(MergeClosest(g), T) /\ Len(MergeClosest(g)) = Len(g) - 1
<1> DEFINE n == Len(g)
           Gap(i) == g[i + 1][1].value - g[i][1].value
           pairs  == 1..(n - 1)
           closest == {i \in pairs : \A j \in pairs : Gap(i) <= Gap(j)}
           best   == Min(closest)
           e(i) == CASE i < best -> g[i] [] i = best -> g[i] \o g[i + 1] [] i > best -> g[i + 1]
           h == [i \in pairs |-> e(i)]
<1>1. MergeClosest(g) = h
  BY DEF MergeClosest
<1>2. n \in Nat /\ n > 3 /\ n - 1 \in Nat
  BY DEF IsGroups
<1>3. \A i \in 1..n : g[i] \in Seq(T) /\ Len(g[i]) \in Nat \ {0}
  BY DEF IsGroups
<1>4. best \in pairs
  <2>1. \A i \in pairs : Gap(i) \in Int
    <3>1. \A i \in 1..n : g[i][1] \in T
      BY <1>3
    <3>2. \A i \in 1..n : g[i][1].value \in Int
      BY <3>1 DEF AreMoves
    <3>3. \A i \in pairs : i \in 1..n /\ i + 1 \in 1..n
      BY <1>2
    <3>4. QED BY <3>2, <3>3
  <2> DEFINE gap == [i \in pairs |-> Gap(i)]
             V == {gap[i] : i \in pairs}
  <2>2. \A i \in pairs : gap[i] \in Int
    BY <2>1
  <2>3. IsFiniteSet(pairs) /\ 1 \in pairs /\ pairs \subseteq Int
    BY <1>2, FS_Interval
  <2> HIDE DEF gap
  <2>4. IsFiniteSet(V)
    <3> HIDE DEF pairs
    <3>1. QED BY <2>3, ValuesFinite
  <2>5. V \subseteq Int /\ V # {}
    BY <2>2, <2>3
  <2> DEFINE v == Min(V)
  <2> HIDE DEF V
  <2>6. v \in V /\ \A w \in V : v <= w
    BY <2>4, <2>5, MinOfFinite
  <2> HIDE DEF v
  <2>7. PICK i \in pairs : v = gap[i]
    BY <2>6 DEF V
  <2>8. \A j \in pairs : gap[i] <= gap[j]
    BY <2>6, <2>7 DEF V
  <2>9. i \in closest
    BY <2>8 DEF gap
  <2>10. closest \subseteq Int /\ IsFiniteSet(closest) /\ closest # {}
    <3>1. closest \subseteq pairs
      OBVIOUS
    <3> HIDE DEF closest, pairs
    <3>2. QED BY <2>3, <2>9, <3>1, FS_Subset
  <2> HIDE DEF closest
  <2>11. best \in closest
    BY <2>10, MinOfFinite
  <2>12. QED BY <2>11 DEF closest
<1> HIDE DEF best
<1> DEFINE c == g[best] \o g[best + 1]
           a == Len(g[best])
<1>5. best \in 1..n /\ best + 1 \in 1..n /\ best \in Nat
  BY <1>2, <1>4
<1>6. a \in Nat \ {0} /\ Len(g[best + 1]) \in Nat \ {0}
  BY <1>3, <1>5
<1>7. /\ c \in Seq(T) /\ Len(c) = a + Len(g[best + 1])
      /\ \A i \in 1..(a + Len(g[best + 1])) : c[i] = IF i <= a THEN g[best][i] ELSE g[best + 1][i - a]
  BY <1>3, <1>5, ConcatProperties
<1>8. \A i \in pairs : /\ i < best => h[i] = g[i]
                       /\ i = best => h[i] = c
                       /\ i > best => h[i] = g[i + 1]
  <2>1. ASSUME NEW i \in Int
        PROVE  /\ i < best => e(i) = g[i]
               /\ i = best => e(i) = c
               /\ i > best => e(i) = g[i + 1]
    <3>1. CASE i < best
      <4>1. ~(i = best) /\ ~(i > best)
        BY <1>5, <3>1
      <4>2. QED BY <3>1, <4>1
    <3>2. CASE i = best
      <4>1. ~(i < best) /\ ~(i > best)
        BY <1>5, <3>2
      <4>2. QED BY <3>2, <4>1
    <3>3. CASE i > best
      <4>1. ~(i = best) /\ ~(i < best)
        BY <1>5, <3>3
      <4>2. QED BY <3>3, <4>1
    <3>4. QED BY <1>5, <3>1, <3>2, <3>3
  <2>2. \A i \in pairs : i \in Int
    BY <1>2
  <2> HIDE DEF e, c
  <2>3. QED BY <2>1, <2>2
<1> HIDE DEF e
<1> HIDE DEF c
<1>9. \A i \in pairs : h[i] \in Seq(T) /\ Len(h[i]) \in Nat \ {0}
  <2>1. SUFFICES ASSUME NEW i \in pairs PROVE h[i] \in Seq(T) /\ Len(h[i]) \in Nat \ {0}
    OBVIOUS
  <2>2. i \in 1..n /\ i + 1 \in 1..n
    BY <1>2
  <2>3. CASE i < best
    BY <1>3, <1>8, <2>2, <2>3
  <2>4. CASE i = best
    <3>1. h[i] = c
      BY <1>8, <2>4
    <3>2. Len(c) \in Nat \ {0}
      <4> HIDE DEF a
      <4>1. QED BY <1>6, <1>7
    <3>3. QED BY <1>7, <3>1, <3>2
  <2>5. CASE i > best
    BY <1>3, <1>8, <2>2, <2>5
  <2>6. i \in Int
    BY <1>2
  <2>7. QED BY <1>5, <2>3, <2>4, <2>5, <2>6
<1>10. h \in [pairs -> Seq(T)]
  <2>1. \A i \in pairs : e(i) \in Seq(T)
    BY <1>9
  <2>2. QED BY <2>1
<1> HIDE DEF h, a
<1>11. h \in Seq(Seq(T)) /\ Len(h) = n - 1
  <2> DEFINE p == n - 1
  <2>1. h \in [1..p -> Seq(T)] /\ p \in Nat
    BY <1>2, <1>10
  <2> HIDE DEF p
  <2>2. h \in Seq(Seq(T)) /\ Len(h) = p
    BY <2>1, ListType
  <2>3. QED BY <2>2 DEF p
\* Where a dot of h was in g.
<1> DEFINE From(i, j) == CASE i < best -> <<i, j>>
                           [] i = best -> IF j <= a THEN <<best, j>> ELSE <<best + 1, j - a>>
                           [] i > best -> <<i + 1, j>>
<1>12. ASSUME NEW i \in pairs, NEW j \in 1..Len(h[i])
       PROVE  /\ From(i, j)[1] \in 1..n /\ From(i, j)[2] \in 1..Len(g[From(i, j)[1]])
              /\ h[i][j] = g[From(i, j)[1]][From(i, j)[2]]
  <2>1. i \in 1..n /\ i + 1 \in 1..n /\ i \in Int
    BY <1>2
  <2>2. CASE i < best
    BY <1>8, <2>1, <2>2
  <2>3. CASE i = best
    <3>1. h[i] = c /\ j \in 1..(a + Len(g[best + 1]))
      BY <1>7, <1>8, <1>12, <2>3
    <3>2. CASE j <= a
      <4>1. c[j] = g[best][j] /\ j \in 1..a /\ j \in Int /\ From(i, j)[1] = best /\ From(i, j)[2] = j
        BY <1>6, <1>7, <2>3, <3>1, <3>2
      <4> HIDE DEF From
      <4>2. QED BY <1>5, <3>1, <4>1 DEF a
    <3>3. CASE ~(j <= a)
      <4>1. j - a \in 1..Len(g[best + 1]) /\ j \in Int
        BY <1>6, <3>1, <3>3
      <4>2. c[j] = g[best + 1][j - a]
        BY <1>7, <3>1, <3>3
      <4>3. ~(i < best) /\ ~(i > best)
        BY <1>5, <2>3
      <4>4. From(i, j) = <<best + 1, j - a>>
        BY <2>3, <3>3, <4>3
      <4> HIDE DEF From
      <4>5. From(i, j)[1] = best + 1 /\ From(i, j)[2] = j - a
        BY <4>4
      <4>6. QED BY <1>5, <3>1, <4>1, <4>2, <4>5
    <3>4. QED BY <3>2, <3>3
  <2>4. CASE i > best
    BY <1>5, <1>8, <2>1, <2>4
  <2>5. QED BY <1>5, <2>1, <2>2, <2>3, <2>4
<1>13. ASSUME NEW k \in pairs, NEW l \in pairs, NEW i \in 1..Len(h[k]), NEW j \in 1..Len(h[l]),
              k < l \/ (k = l /\ i < j)
       PROVE  ValueBefore(h[k][i], h[l][j])
  <2>1. /\ From(k, i)[1] \in 1..n /\ From(k, i)[2] \in 1..Len(g[From(k, i)[1]])
        /\ h[k][i] = g[From(k, i)[1]][From(k, i)[2]]
        /\ From(l, j)[1] \in 1..n /\ From(l, j)[2] \in 1..Len(g[From(l, j)[1]])
        /\ h[l][j] = g[From(l, j)[1]][From(l, j)[2]]
    <3> HIDE DEF From
    <3>1. QED BY <1>12
  <2>2. From(k, i)[1] < From(l, j)[1] \/ (From(k, i)[1] = From(l, j)[1] /\ From(k, i)[2] < From(l, j)[2])
    <3>1. k \in Int /\ l \in Int /\ i \in Int /\ j \in Int
      BY <1>2
    <3>2. QED BY <1>5, <1>6, <1>13, <3>1
  <2> DEFINE k1 == From(k, i)[1]
             k2 == From(k, i)[2]
             l1 == From(l, j)[1]
             l2 == From(l, j)[2]
  <2> HIDE DEF k1, k2, l1, l2
  <2>3. /\ k1 \in 1..n /\ k2 \in 1..Len(g[k1]) /\ h[k][i] = g[k1][k2]
        /\ l1 \in 1..n /\ l2 \in 1..Len(g[l1]) /\ h[l][j] = g[l1][l2]
        /\ k1 < l1 \/ (k1 = l1 /\ k2 < l2)
    BY <2>1, <2>2 DEF k1, k2, l1, l2
  <2>4. ValueBefore(g[k1][k2], g[l1][l2])
    BY <2>3 DEF IsGroups
  <2>5. QED BY <2>3, <2>4
<1> HIDE DEF From
<1>14. ASSUME NEW d \in T PROVE \E i \in pairs : \E j \in 1..Len(h[i]) : h[i][j] = d
  <2>1. PICK k \in 1..n : \E j \in 1..Len(g[k]) : g[k][j] = d
    BY DEF IsGroups
  <2>2. PICK j \in 1..Len(g[k]) : g[k][j] = d
    BY <2>1
  <2>3. k \in Nat /\ Len(g[k]) \in Nat
    BY <1>3
  <2>4. CASE k < best
    <3>1. k \in pairs
      BY <1>2, <1>4, <2>3, <2>4
    <3>2. h[k] = g[k]
      BY <1>8, <2>4, <3>1
    <3>3. QED BY <2>2, <3>1, <3>2
  <2>5. CASE k = best
    <3>1. h[best] = c /\ best \in pairs
      BY <1>4, <1>8
    <3>2. j \in 1..(a + Len(g[best + 1])) /\ j <= a
      <4>1. j \in 1..a
        BY <2>5 DEF a
      <4>2. QED BY <1>6, <4>1
    <3>3. c[j] = d /\ j \in 1..Len(c)
      BY <1>7, <2>2, <2>5, <3>2
    <3>4. QED BY <3>1, <3>3
  <2>6. CASE k = best + 1
    <3>1. h[best] = c /\ best \in pairs
      BY <1>4, <1>8
    <3> DEFINE i == a + j
    <3>2. i \in 1..(a + Len(g[best + 1])) /\ ~(i <= a) /\ i - a = j
      BY <1>6, <2>6
    <3> HIDE DEF i
    <3>3. c[i] = g[best + 1][i - a] /\ i \in 1..Len(c)
      BY <1>7, <3>2
    <3>4. c[i] = d
      BY <2>2, <2>6, <3>2, <3>3
    <3>5. QED BY <3>1, <3>3, <3>4
  <2>7. CASE k > best + 1
    <3>1. k - 1 \in pairs /\ k - 1 > best /\ k - 1 + 1 = k
      BY <1>2, <1>5, <2>3, <2>7
    <3>2. h[k - 1] = g[k]
      BY <1>8, <3>1
    <3>3. QED BY <2>2, <3>1, <3>2
  <2>8. QED BY <1>5, <2>3, <2>4, <2>5, <2>6, <2>7
<1>15. IsGroups(h, T)
  BY <1>9, <1>11, <1>13, <1>14 DEF IsGroups
<1>16. QED BY <1>1, <1>11, <1>15

MergeOne(g) == IF Len(g) <= 3 THEN g ELSE MergeClosest(g)

\* So does a round of offColumns' while loop, where it does anything.
LEMMA MergedOne ==
  ASSUME NEW T, AreMoves(T), NEW g, IsGroups(g, T)
  PROVE  /\ IsGroups(MergeOne(g), T)
         /\ Len(MergeOne(g)) <= 3 \/ Len(MergeOne(g)) = Len(g) - 1
<1>1. CASE Len(g) <= 3
  BY <1>1 DEF MergeOne
<1>2. CASE ~(Len(g) <= 3)
  <2>1. Len(g) \in Nat
    BY DEF IsGroups
  <2>2. Len(g) > 3
    BY <1>2, <2>1
  <2>3. QED BY <1>2, <2>2, Merged DEF MergeOne
<1>3. QED BY <1>1, <1>2

\* The loop ends with three groups at most.
LEMMA ThreeAtMost ==
  ASSUME NEW T, AreMoves(T), NEW g, IsGroups(g, T)
  PROVE  IsGroups(AtMostThree(g), T) /\ Len(AtMostThree(g)) <= 3
<1> DEFINE n == Len(g)
           Eq(f) == f = [m \in 0..n |-> IF m = 0 THEN g ELSE IF Len(f[m - 1]) <= 3 THEN f[m - 1]
                                                             ELSE MergeClosest(f[m - 1])]
           merged == CHOOSE f : Eq(f)
<1>1. AtMostThree(g) = merged[n]
  BY DEF AtMostThree
<1>2. n \in Nat
  BY DEF IsGroups
<1>3. \E f : Eq(f)
  <2> DEFINE S == {h \in Seq(Seq(T)) : IsGroups(h, T)}
             step == [m \in 1..n |-> [h \in S |-> MergeOne(h)]]
  <2>1. ASSUME NEW h \in S PROVE MergeOne(h) \in S
    <3>1. IsGroups(MergeOne(h), T)
      BY MergedOne
    <3>2. QED BY <3>1 DEF IsGroups
  <2>2. step \in StepsIn(n, S)
    BY <2>1 DEF StepsIn
  <2>3. g \in S
    BY DEF IsGroups
  <2> HIDE DEF S, n, step
  <2>4. PICK f : IsIteration(f, n, S, g, step)
    BY <1>2, <2>2, <2>3, Iterates
  <2>5. ASSUME NEW i \in 1..n PROVE f[i] = MergeOne(f[i - 1])
    <3>1. i - 1 \in 0..n /\ f \in [0..n -> S] /\ f[i] = step[i][f[i - 1]]
      BY <1>2, <2>4 DEF IsIteration
    <3>2. f[i - 1] \in S
      BY <3>1
    <3>3. QED BY <3>1, <3>2 DEF step
  <2>6. ASSUME NEW i \in 0..n
        PROVE  f[i] = IF i = 0 THEN g ELSE IF Len(f[i - 1]) <= 3 THEN f[i - 1] ELSE MergeClosest(f[i - 1])
    <3>1. CASE i = 0
      BY <2>4, <3>1 DEF IsIteration
    <3>2. CASE i # 0
      <4>1. i \in 1..n
        BY <1>2, <3>2
      <4>2. QED BY <2>5, <3>2, <4>1 DEF MergeOne
    <3>3. QED BY <3>1, <3>2
  <2>7. f = [m \in 0..n |-> f[m]]
    BY <2>4 DEF IsIteration
  <2>8. Eq(f)
    BY <2>6, <2>7
  <2>9. QED BY <2>8
<1>4. Eq(merged)
  <2> HIDE DEF Eq
  <2>1. QED BY <1>3
<1> HIDE DEF merged
<1>5. merged[0] = g /\ \A m \in 1..n : merged[m] = MergeOne(merged[m - 1])
  <2>1. \A m \in 0..n : merged[m] = IF m = 0 THEN g ELSE MergeOne(merged[m - 1])
    BY <1>4 DEF MergeOne
  <2>2. QED BY <1>2, <2>1
<1> DEFINE M == {m \in 0..n : /\ IsGroups(merged[m], T)
                              /\ Len(merged[m]) <= 3 \/ Len(merged[m]) = n - m}
<1>6. 0 \in M
  BY <1>2, <1>5
<1>7. ASSUME NEW m \in 1..n, m - 1 \in M PROVE m \in M
  <2> DEFINE h == merged[m - 1]
  <2>1. IsGroups(h, T) /\ (Len(h) <= 3 \/ Len(h) = n - (m - 1))
    BY <1>7
  <2>2. merged[m] = MergeOne(h)
    BY <1>5
  <2> HIDE DEF h
  <2>3. IsGroups(MergeOne(h), T) /\ (Len(MergeOne(h)) <= 3 \/ Len(MergeOne(h)) = Len(h) - 1)
    BY <2>1, MergedOne
  <2>4. m \in 0..n /\ n - (m - 1) - 1 = n - m /\ Len(h) \in Nat
    BY <1>2, <2>1 DEF IsGroups
  <2>5. Len(MergeOne(h)) <= 3 \/ Len(MergeOne(h)) = n - m
    <3>1. CASE Len(h) <= 3
      BY <2>4, <3>1, <2>3 DEF MergeOne
    <3>2. CASE Len(h) = n - (m - 1)
      BY <2>3, <2>4, <3>2
    <3>3. QED BY <2>1, <3>1, <3>2
  <2>6. QED BY <2>2, <2>3, <2>4, <2>5
<1> HIDE DEF M
<1>8. 0..n \subseteq M
  <2> HIDE DEF n
  <2>1. QED BY <1>2, <1>6, <1>7, Upto
<1>9. n \in M
  BY <1>2, <1>8
<1>10. IsGroups(merged[n], T) /\ (Len(merged[n]) <= 3 \/ Len(merged[n]) = n - n)
  BY <1>9 DEF M
<1>11. Len(merged[n]) <= 3
  BY <1>2, <1>10
<1>12. QED BY <1>1, <1>10, <1>11

\* Columns of T's dots from x0 to x1: one in the middle, two at the ends or three at equal distances.
IsColumns(c, T, x0, x1) ==
  /\ Len(c) \in 1..3 /\ DOMAIN c = 1..Len(c) /\ c = [k \in 1..Len(c) |-> c[k]]
  /\ \A k \in 1..Len(c) :
       c[k] = [x |-> c[k].x, value |-> c[k].value, ids |-> c[k].ids] /\ c[k].value \in Int
  /\ \A k \in 1..Len(c) :
       c[k].x = IF Len(c) = 1 THEN (x0 + x1) \div 2 ELSE x0 + ((x1 - x0) * (k - 1)) \div (Len(c) - 1)
  /\ \A k \in 1..Len(c) : Len(c[k].ids) \in Nat \ {0} /\ DOMAIN c[k].ids = 1..Len(c[k].ids)
  /\ \A k \in 1..Len(c) : c[k].ids = [j \in 1..Len(c[k].ids) |-> c[k].ids[j]]
  /\ \A k \in 1..Len(c) : \A j \in 1..Len(c[k].ids) : \E d \in T : c[k].ids[j] = d.id
  /\ \A d \in T : \E k \in 1..Len(c) : \E j \in 1..Len(c[k].ids) : c[k].ids[j] = d.id
  /\ \A k, l \in 1..Len(c) : \A i \in 1..Len(c[k].ids), j \in 1..Len(c[l].ids) : \A d, e \in T :
       (k < l \/ (k = l /\ i < j)) /\ c[k].ids[i] = d.id /\ c[l].ids[j] = e.id => ValueBefore(d, e)

\* The sum behind a column's mean is an integer.
LEMMA SumType ==
  ASSUME NEW T, \A d \in T : d.value \in Int, NEW s \in Seq(T)
  PROVE  ValueSum(s) \in Int
<1> DEFINE n == Len(s)
           Eq(f) == f = [i \in 0..n |-> IF i = 0 THEN 0 ELSE f[i - 1] + s[i].value]
           sum == CHOOSE f : Eq(f)
<1>1. ValueSum(s) = sum[n]
  BY DEF ValueSum
<1>2. n \in Nat /\ \A i \in 1..n : s[i].value \in Int
  OBVIOUS
<1>3. \E f : Eq(f)
  <2> DEFINE step == [i \in 1..n |-> [k \in Int |-> k + s[i].value]]
  <2>1. step \in StepsIn(n, Int)
    BY <1>2 DEF StepsIn
  <2> HIDE DEF n, step
  <2>2. PICK f : IsIteration(f, n, Int, 0, step)
    BY <1>2, <2>1, Iterates
  <2>3. ASSUME NEW i \in 0..n PROVE f[i] = IF i = 0 THEN 0 ELSE f[i - 1] + s[i].value
    <3>1. CASE i = 0
      BY <2>2, <3>1 DEF IsIteration
    <3>2. CASE i # 0
      <4>1. i \in 1..n /\ i - 1 \in 0..n
        BY <1>2, <3>2
      <4>2. f[i] = step[i][f[i - 1]] /\ f[i - 1] \in Int
        BY <2>2, <4>1 DEF IsIteration
      <4>3. QED BY <3>2, <4>1, <4>2 DEF step
    <3>3. QED BY <3>1, <3>2
  <2>4. f \in [0..n -> Int]
    BY <2>2 DEF IsIteration
  <2>5. Eq(f)
    BY <2>3, <2>4
  <2>6. QED BY <2>5
<1>4. Eq(sum)
  BY <1>3
<1> HIDE DEF sum, n
<1> DEFINE S == {i \in 0..n : sum[i] \in Int}
<1>5. 0 \in S
  BY <1>2, <1>4
<1>6. ASSUME NEW i \in 1..n, i - 1 \in S PROVE i \in S
  <2>1. i \in 0..n /\ i # 0
    BY <1>2
  <2>2. sum[i] = sum[i - 1] + s[i].value
    BY <1>4, <2>1
  <2>3. QED BY <1>2, <1>6, <2>1, <2>2
<1> HIDE DEF S
<1>7. 0..n \subseteq S
  BY <1>2, <1>5, <1>6, Upto
<1>8. n \in S
  BY <1>2, <1>7
<1>9. QED BY <1>1, <1>8 DEF S

\* offColumns lists every dot once, lower values in columns further left.
LEMMA ColumnsFound ==
  ASSUME NEW T, AreMoves(T), T # {}, NEW x0, NEW x1
  PROVE  IsColumns(OffColumns(T, x0, x1), T, x0, x1)
<1> DEFINE s == SortByValue(T)
           g == AtMostThree(Groups(s))
           n == Len(g)
           c == OffColumns(T, x0, x1)
<1>1. IsGroups(g, T) /\ n <= 3
  BY SortedByValue, Grouped, ThreeAtMost
<1>2. c = Columns(g, x0, x1)
  BY DEF OffColumns
<1> HIDE DEF g
<1> DEFINE x(k) == IF n = 1 THEN (x0 + x1) \div 2 ELSE x0 + ((x1 - x0) * (k - 1)) \div (n - 1)
           mean(k) == ValueSum(g[k]) \div Len(g[k])
           ids(k) == [j \in DOMAIN g[k] |-> g[k][j].id]
<1>3. c = [k \in 1..n |-> [x |-> x(k), value |-> mean(k), ids |-> ids(k)]]
  BY <1>2 DEF Columns
<1> HIDE DEF c, x, mean
<1>4. n \in 1..3 /\ n \in Nat
  <2>1. n \in Nat
    BY <1>1 DEF IsGroups
  <2>2. PICK d \in T : TRUE
    OBVIOUS
  <2>3. PICK k \in 1..n : \E j \in 1..Len(g[k]) : g[k][j] = d
    BY <1>1, <2>2 DEF IsGroups
  <2> HIDE DEF n
  <2>4. QED BY <1>1, <2>1, <2>3
<1>5. DOMAIN c = 1..n /\ Len(c) = n
  <2>1. DOMAIN c = 1..n /\ c = [k \in 1..n |-> c[k]]
    BY <1>3
  <2> HIDE DEF n
  <2>2. QED BY <1>4, <2>1, ListOf
<1>6. \A k \in 1..n : c[k].x = x(k) /\ c[k].ids = ids(k)
  <2> HIDE DEF ids
  <2>1. QED BY <1>3
<1>7. \A k \in 1..n : /\ Len(g[k]) \in Nat \ {0} /\ DOMAIN g[k] = 1..Len(g[k])
                      /\ \A j \in 1..Len(g[k]) : g[k][j] \in T
  BY <1>1 DEF IsGroups
<1>8. \A k \in 1..n : /\ DOMAIN c[k].ids = 1..Len(g[k]) /\ Len(c[k].ids) = Len(g[k])
                      /\ \A j \in 1..Len(g[k]) : c[k].ids[j] = g[k][j].id
  <2>1. SUFFICES ASSUME NEW k \in 1..n
                 PROVE  /\ DOMAIN c[k].ids = 1..Len(g[k]) /\ Len(c[k].ids) = Len(g[k])
                        /\ \A j \in 1..Len(g[k]) : c[k].ids[j] = g[k][j].id
    OBVIOUS
  <2>2. c[k].ids = ids(k) /\ DOMAIN g[k] = 1..Len(g[k]) /\ Len(g[k]) \in Nat
    BY <1>6, <1>7
  <2> DEFINE w == Len(g[k])
             f == ids(k)
  <2>3. DOMAIN f = 1..w /\ f = [j \in 1..w |-> f[j]] /\ \A j \in 1..w : f[j] = g[k][j].id
    BY <2>2
  <2> HIDE DEF f, w
  <2>4. w \in Nat
    BY <2>2 DEF w
  <2>5. Len(f) = w
    BY <2>3, <2>4, ListOf
  <2>6. QED BY <2>2, <2>3, <2>5 DEF f, w
<1>9. \A k \in 1..n : c[k].ids = [j \in 1..Len(c[k].ids) |-> c[k].ids[j]]
  <2>1. SUFFICES ASSUME NEW k \in 1..n PROVE c[k].ids = [j \in 1..Len(c[k].ids) |-> c[k].ids[j]]
    OBVIOUS
  <2> DEFINE f == c[k].ids
             m == Len(f)
  <2>2. f = [j \in DOMAIN g[k] |-> g[k][j].id] /\ DOMAIN f = 1..m
    BY <1>6, <1>8
  <2> HIDE DEF f, m
  <2>3. f = [j \in DOMAIN f |-> f[j]]
    BY <2>2
  <2>4. f = [j \in 1..m |-> f[j]]
    BY <2>2, <2>3
  <2>5. QED BY <2>4 DEF f, m
<1>10. \A d \in T : \E k \in 1..n : \E j \in 1..Len(g[k]) : g[k][j] = d
  BY <1>1 DEF IsGroups
<1>11. ASSUME NEW k \in 1..n, NEW l \in 1..n, NEW i \in 1..Len(g[k]), NEW j \in 1..Len(g[l]),
              NEW d \in T, NEW e \in T,
              k < l \/ (k = l /\ i < j), c[k].ids[i] = d.id, c[l].ids[j] = e.id
       PROVE  ValueBefore(d, e)
  <2>1. ValueBefore(g[k][i], g[l][j])
    BY <1>1, <1>11 DEF IsGroups
  <2>2. g[k][i] \in T /\ g[l][j] \in T /\ g[k][i].id = d.id /\ g[l][j].id = e.id
    BY <1>7, <1>8, <1>11
  <2>3. g[k][i] = d /\ g[l][j] = e
    BY <2>2 DEF AreMoves
  <2>4. QED BY <2>1, <2>3
<1> HIDE DEF n
<1>12. \A d \in T : \E k \in 1..n : \E j \in 1..Len(c[k].ids) : c[k].ids[j] = d.id
  <2>1. SUFFICES ASSUME NEW d \in T PROVE \E k \in 1..n : \E j \in 1..Len(c[k].ids) : c[k].ids[j] = d.id
    OBVIOUS
  <2>2. PICK k \in 1..n : \E j \in 1..Len(g[k]) : g[k][j] = d
    BY <1>10
  <2>3. PICK j \in 1..Len(g[k]) : g[k][j] = d
    BY <2>2
  <2>4. QED BY <1>8, <2>3
<1>13. /\ \A k \in 1..n : c[k].x = IF n = 1 THEN (x0 + x1) \div 2 ELSE x0 + ((x1 - x0) * (k - 1)) \div (n - 1)
       /\ \A k \in 1..n : Len(c[k].ids) \in Nat \ {0} /\ DOMAIN c[k].ids = 1..Len(c[k].ids)
       /\ \A k \in 1..n : \A j \in 1..Len(c[k].ids) : \E d \in T : c[k].ids[j] = d.id
  <2>1. \A k \in 1..n : c[k].x = IF n = 1 THEN (x0 + x1) \div 2 ELSE x0 + ((x1 - x0) * (k - 1)) \div (n - 1)
    BY <1>6 DEF x
  <2>2. \A k \in 1..n : Len(c[k].ids) \in Nat \ {0} /\ DOMAIN c[k].ids = 1..Len(c[k].ids)
    BY <1>7, <1>8
  <2>3. \A k \in 1..n : \A j \in 1..Len(c[k].ids) : \E d \in T : c[k].ids[j] = d.id
    BY <1>7, <1>8
  <2>4. QED BY <2>1, <2>2, <2>3
<1>14. \A k, l \in 1..n : \A i \in 1..Len(c[k].ids), j \in 1..Len(c[l].ids) : \A d, e \in T :
         (k < l \/ (k = l /\ i < j)) /\ c[k].ids[i] = d.id /\ c[l].ids[j] = e.id => ValueBefore(d, e)
  BY <1>8, <1>11
<1>15. c = [k \in 1..n |-> c[k]]
  BY <1>3
<1>16. \A k \in 1..n : c[k] = [x |-> c[k].x, value |-> c[k].value, ids |-> c[k].ids] /\ c[k].value \in Int
  <2>1. ASSUME NEW k \in 1..n PROVE mean(k) \in Int
    <3>1. g[k] \in Seq(T) /\ Len(g[k]) \in Nat \ {0}
      BY <1>1 DEF IsGroups, n
    <3>2. ValueSum(g[k]) \in Int
      BY <3>1, SumType DEF AreMoves
    <3>3. QED BY <3>1, <3>2 DEF mean
  <2>2. QED BY <1>3, <2>1
<1>17. IsColumns(c, T, x0, x1)
  BY <1>4, <1>5, <1>9, <1>12, <1>13, <1>14, <1>15, <1>16 DEF IsColumns
<1>18. QED BY <1>17 DEF c

---------------------------------------------------------------------------
(* The places of all dots                                                  *)

\* Each dot of T has one place in Q, and their order is that of the values.
HavePlaces(Q, T) ==
  /\ \A p \in Q : p \in PlaceRecords /\ p.id \in Int /\ p.x \in Int /\ p.y \in Int /\ \E d \in T : p.id = d.id
  /\ \A d \in T : \E p \in Q : p.id = d.id
  /\ \A p, q \in Q : p.id = q.id => p = q
  /\ \A p, q \in Q : \A d, e \in T : p.id = d.id /\ q.id = e.id /\ d.value < e.value => p.x <= q.x

AllApart(Q, D) == \A p, q \in Q : p.id # q.id => FarApart(p, q, D)

\* Places of two sets of dots, one left of the other, are places of both.
LEMMA PlacesJoined ==
  ASSUME NEW S, NEW T, NEW A, NEW B, HavePlaces(A, S), HavePlaces(B, T),
         \A d \in S, e \in T : d.id # e.id /\ ~(e.value < d.value),
         \A p \in A, q \in B : p.x <= q.x
  PROVE  HavePlaces(A \cup B, S \cup T)
<1>1. \A p \in A : \A d \in S \cup T : p.id = d.id => d \in S
  BY DEF HavePlaces
<1>2. \A q \in B : \A e \in S \cup T : q.id = e.id => e \in T
  BY DEF HavePlaces
<1>3. \A p \in A, q \in B : p.id # q.id
  BY DEF HavePlaces
<1>4. ASSUME NEW p \in A \cup B, NEW q \in A \cup B, NEW d \in S \cup T, NEW e \in S \cup T,
             p.id = d.id, q.id = e.id, d.value < e.value
      PROVE  p.x <= q.x
  <2>1. CASE p \in A /\ q \in A
    BY <1>1, <1>4, <2>1 DEF HavePlaces
  <2>2. CASE p \in A /\ q \in B
    BY <2>2
  <2>3. CASE p \in B /\ q \in A
    BY <1>1, <1>2, <1>4, <2>3
  <2>4. CASE p \in B /\ q \in B
    BY <1>2, <1>4, <2>4 DEF HavePlaces
  <2>5. QED BY <2>1, <2>2, <2>3, <2>4
<1>5. \A p \in A \cup B : /\ p \in PlaceRecords /\ p.id \in Int /\ p.x \in Int /\ p.y \in Int
                         /\ \E d \in S \cup T : p.id = d.id
  BY DEF HavePlaces
<1>6. \A d \in S \cup T : \E p \in A \cup B : p.id = d.id
  BY DEF HavePlaces
<1>7. \A p, q \in A \cup B : p.id = q.id => p = q
  BY <1>3 DEF HavePlaces
<1>8. QED BY <1>4, <1>5, <1>6, <1>7 DEF HavePlaces

\* Two sets of places, one by D left of the other, keep D apart together.
LEMMA ApartJoined ==
  ASSUME NEW A, NEW B, NEW D \in Nat, AllApart(A, D), AllApart(B, D),
         \A p \in A \cup B : p.x \in Int /\ p.y \in Int,
         \A p \in A, q \in B : q.x - p.x >= D
  PROVE  AllApart(A \cup B, D)
<1>1. ASSUME NEW p \in A, NEW q \in B PROVE FarApart(p, q, D) /\ FarApart(q, p, D)
  BY ApartAcross
<1>2. QED BY <1>1 DEF AllApart

\* Finitely many dots have finitely many places.
LEMMA PlacesFinite ==
  ASSUME NEW T, IsFiniteSet(T), NEW Q, HavePlaces(Q, T)
  PROVE  IsFiniteSet(Q)
<1> DEFINE f == [d \in T |-> CHOOSE p \in Q : p.id = d.id]
           V == {f[d] : d \in T}
<1>1. \A d \in T : f[d] \in Q /\ f[d].id = d.id
  BY DEF HavePlaces
<1> HIDE DEF f
<1>2. IsFiniteSet(V)
  BY ValuesFinite
<1>3. Q \subseteq V
  BY <1>1 DEF HavePlaces
<1> HIDE DEF V
<1>4. QED BY <1>2, <1>3, FS_Subset

\* No dots have no places.
LEMMA NoPlaces == HavePlaces({}, {}) /\ \A D : AllApart({}, D)
  BY DEF HavePlaces, AllApart

\* Columns 32 px wide or more keep clear of each other.
LEMMA ColumnsFit ==
  ASSUME NEW T, NEW z0 \in Int, NEW z1 \in Int, z1 - z0 >= 320, NEW c, IsColumns(c, T, z0, z1)
  PROVE  /\ \A k \in 1..Len(c) : c[k].x \in z0..z1
         /\ \A k, l \in 1..Len(c) : k < l => c[l].x - c[k].x >= 160
<1> DEFINE w == z1 - z0
           n == Len(c)
<1>1. w \in Nat /\ w >= 320 /\ n \in 1..3
  <2>1. n \in 1..3
    BY DEF IsColumns
  <2>2. QED BY <2>1
<1>2. \A k \in 1..n : c[k].x = IF n = 1 THEN (z0 + z1) \div 2 ELSE z0 + (w * (k - 1)) \div (n - 1)
  BY DEF IsColumns
<1> HIDE DEF n
<1>3. CASE n = 1
  <2>1. \A k \in 1..n : c[k].x = (z0 + z1) \div 2
    BY <1>2, <1>3
  <2>2. (z0 + z1) \div 2 \in z0..z1
    OBVIOUS
  <2>3. QED BY <1>3, <2>1, <2>2 DEF n
<1>4. CASE n = 2
  <2>1. c[1].x = z0 + (w * 0) \div 1 /\ c[2].x = z0 + (w * 1) \div 1
    BY <1>2, <1>4
  <2>2. c[1].x = z0 /\ c[2].x = z1
    BY <1>1, <2>1
  <2>3. \A k \in 1..n : k = 1 \/ k = 2
    BY <1>4
  <2>4. w = z1 - z0
    OBVIOUS
  <2> HIDE DEF w
  <2>5. \A k \in 1..n : c[k].x \in z0..z1
    BY <1>1, <2>2, <2>3, <2>4
  <2>6. \A k, l \in 1..n : k < l => c[l].x - c[k].x >= 160
    BY <1>1, <2>2, <2>3, <2>4
  <2>7. QED BY <2>5, <2>6 DEF n
<1>5. CASE n = 3
  <2>1. c[1].x = z0 + (w * 0) \div 2 /\ c[2].x = z0 + (w * 1) \div 2 /\ c[3].x = z0 + (w * 2) \div 2
    BY <1>2, <1>5
  <2>2. c[1].x = z0 /\ c[2].x = z0 + w \div 2 /\ c[3].x = z1
    BY <1>1, <2>1
  <2>3. w \div 2 \in Int /\ 2 * (w \div 2) <= w /\ w <= 2 * (w \div 2) + 1
    BY <1>1
  <2>4. \A k \in 1..n : k = 1 \/ k = 2 \/ k = 3
    BY <1>5
  <2>5. w = z1 - z0
    OBVIOUS
  <2> DEFINE v == w \div 2
  <2>6. c[2].x = z0 + v /\ v \in Int /\ 2 * v <= w /\ w <= 2 * v + 1
    BY <2>2, <2>3
  <2> HIDE DEF v, w
  <2>7. \A k \in 1..n : c[k].x \in z0..z1
    BY <1>1, <2>2, <2>4, <2>5, <2>6
  <2>8. \A k, l \in 1..n : k < l => c[l].x - c[k].x >= 160
    BY <1>1, <2>2, <2>4, <2>5, <2>6
  <2>9. QED BY <2>7, <2>8 DEF n
<1>6. QED BY <1>1, <1>3, <1>4, <1>5

ColumnPlaces(c, D) == UNION {PlaceColumn(k, D) : k \in Range(c)}

\* The columns of a zone at least 32 px wide keep its dots apart and in the zone.
LEMMA ColumnsPlaced ==
  ASSUME NEW T, AreMoves(T), NEW z0 \in Int, NEW z1 \in Int, z1 - z0 >= 320,
         NEW c, IsColumns(c, T, z0, z1), NEW D \in Nat, D <= 160, D % 2 = 0
  PROVE  /\ HavePlaces(ColumnPlaces(c, D), T)
         /\ AllApart(ColumnPlaces(c, D), D)
         /\ \A p \in ColumnPlaces(c, D) : p.x \in z0..z1
<1> DEFINE n == Len(c)
           m(k) == Len(c[k].ids)
           y(k, j) == ((2 * j - 1 - m(k)) * D) \div 2
           at(k, j) == [id |-> c[k].ids[j], x |-> c[k].x, y |-> y(k, j)]
           Q == ColumnPlaces(c, D)
<1>1. /\ n \in Nat /\ DOMAIN c = 1..n
      /\ \A k \in 1..n : m(k) \in Nat /\ DOMAIN c[k].ids = 1..m(k)
      /\ \A k \in 1..n : \A j \in 1..m(k) : \E d \in T : c[k].ids[j] = d.id
      /\ \A d \in T : \E k \in 1..n : \E j \in 1..m(k) : c[k].ids[j] = d.id
  BY DEF IsColumns
<1>2. \A k, l \in 1..n : \A i \in 1..m(k), j \in 1..m(l) : \A d, e \in T :
         (k < l \/ (k = l /\ i < j)) /\ c[k].ids[i] = d.id /\ c[l].ids[j] = e.id => ValueBefore(d, e)
  BY DEF IsColumns
<1>3. /\ \A k \in 1..n : c[k].x \in z0..z1 /\ c[k].x \in Int
      /\ \A k, l \in 1..n : k < l => c[l].x - c[k].x >= 160
  <2>1. \A k \in 1..n : c[k].x \in z0..z1
    BY ColumnsFit
  <2>2. \A x \in z0..z1 : x \in Int
    OBVIOUS
  <2>3. \A k, l \in 1..n : k < l => c[l].x - c[k].x >= 160
    BY ColumnsFit
  <2>4. QED BY <2>1, <2>2, <2>3
<1>4. \A d \in T : d.id \in Int /\ d.value \in Int
  BY DEF AreMoves
<1>5. \A p : p \in Q <=> \E k \in 1..n : \E j \in 1..m(k) : p = at(k, j)
  <2>1. \A k \in 1..n : PlaceColumn(c[k], D) = {at(k, j) : j \in 1..m(k)}
    BY <1>1 DEF PlaceColumn
  <2>2. Q = UNION {PlaceColumn(c[k], D) : k \in 1..n}
    BY <1>1 DEF ColumnPlaces, Range
  <2> HIDE DEF Q, at, m
  <2>3. QED BY <2>1, <2>2
<1>6. \A k \in 1..n : \A j \in 1..m(k) : y(k, j) \in Int
  <2>1. SUFFICES ASSUME NEW k \in 1..n, NEW j \in 1..m(k) PROVE y(k, j) \in Int
    OBVIOUS
  <2> DEFINE t == (2 * j - 1 - m(k)) * D
  <2>2. m(k) \in Int /\ j \in Int
    BY <1>1
  <2> HIDE DEF m
  <2>3. t \in Int
    BY <2>2
  <2>4. y(k, j) = t \div 2
    OBVIOUS
  <2> HIDE DEF t, y
  <2>5. QED BY <2>3, <2>4
<1>7. \A k \in 1..n : \A i, j \in 1..m(k) : i < j => y(k, j) - y(k, i) >= D
  <2>1. SUFFICES ASSUME NEW k \in 1..n, NEW i \in 1..m(k), NEW j \in 1..m(k), i < j
                 PROVE  y(k, j) - y(k, i) >= D
    OBVIOUS
  <2>2. PICK h \in Nat : D = 2 * h
    <3>1. D \div 2 \in Nat /\ D = 2 * (D \div 2)
      OBVIOUS
    <3>2. QED BY <3>1
  <2> DEFINE a == 2 * i - 1 - m(k)
             b == 2 * j - 1 - m(k)
  <2>3. a \in Int /\ b \in Int /\ b >= a + 2
    BY <1>1, <2>1
  <2>4. y(k, i) = (a * D) \div 2 /\ y(k, j) = (b * D) \div 2
    OBVIOUS
  <2> HIDE DEF a, b, y
  <2>5. a * D = 2 * (h * a) /\ b * D = 2 * (h * b) /\ h * a \in Int /\ h * b \in Int
    BY <2>2, <2>3
  <2>6. y(k, i) = h * a /\ y(k, j) = h * b
    BY <2>4, <2>5
  <2>7. h * (a + 2) <= h * b
    <3>1. a + 2 \in Int
      BY <2>3
    <3>2. QED BY <2>3, <3>1, ProductsGrow
  <2>8. h * (a + 2) = h * a + 2 * h
    BY <2>3
  <2>9. QED BY <2>2, <2>5, <2>6, <2>7, <2>8
<1> HIDE DEF y
<1>8. \A k \in 1..n : \A j \in 1..m(k) :
        at(k, j).id = c[k].ids[j] /\ at(k, j).x = c[k].x /\ at(k, j).y = y(k, j)
  OBVIOUS
<1> HIDE DEF at, Q
<1>9. ASSUME NEW k \in 1..n, NEW l \in 1..n, NEW i \in 1..m(k), NEW j \in 1..m(l),
             k < l \/ (k = l /\ i < j)
      PROVE  /\ FarApart(at(k, i), at(l, j), D) /\ FarApart(at(l, j), at(k, i), D)
             /\ at(k, i).x <= at(l, j).x
             /\ \A d, e \in T : at(k, i).id = d.id /\ at(l, j).id = e.id => ValueBefore(d, e)
  <2> DEFINE p == at(k, i)
             q == at(l, j)
  <2>1. p.x = c[k].x /\ p.y = y(k, i) /\ q.x = c[l].x /\ q.y = y(l, j)
    BY <1>8
  <2>2. p.id = c[k].ids[i] /\ q.id = c[l].ids[j]
    BY <1>8
  <2> HIDE DEF p, q
  <2>3. p.x \in Int /\ p.y \in Int /\ q.x \in Int /\ q.y \in Int
    BY <1>3, <1>6, <2>1
  <2>4. q.x - p.x >= D \/ q.y - p.y >= D
    <3>1. CASE k < l
      <4>1. c[l].x - c[k].x >= 160
        BY <1>3, <3>1
      <4>2. QED BY <2>1, <2>3, <4>1
    <3>2. CASE k = l /\ i < j
      <4>1. y(k, j) - y(k, i) >= D
        BY <1>7, <3>2
      <4>2. QED BY <2>1, <2>3, <3>2, <4>1
    <3>3. QED BY <1>9, <3>1, <3>2
  <2>5. FarApart(p, q, D) /\ FarApart(q, p, D)
    BY <2>3, <2>4, ApartAcross
  <2>6. p.x <= q.x
    <3>1. CASE k < l
      <4>1. c[l].x - c[k].x >= 160
        BY <1>3, <3>1
      <4>2. QED BY <2>1, <2>3, <4>1
    <3>2. CASE k = l
      BY <2>1, <2>3, <3>2
    <3>3. QED BY <1>9, <3>1, <3>2
  <2>7. \A d, e \in T : p.id = d.id /\ q.id = e.id => ValueBefore(d, e)
    BY <1>9, <1>2, <2>2
  <2>8. QED BY <2>5, <2>6, <2>7 DEF p, q
<1> DEFINE ComesFirst(p, q) == p.x <= q.x /\ \A d, e \in T : p.id = d.id /\ q.id = e.id => ValueBefore(d, e)
<1>10. \A k, l \in 1..n : \A i \in 1..m(k), j \in 1..m(l) : k < l \/ (k = l /\ i < j) =>
         /\ FarApart(at(k, i), at(l, j), D) /\ FarApart(at(l, j), at(k, i), D)
         /\ ComesFirst(at(k, i), at(l, j))
  BY <1>9
<1> HIDE DEF ComesFirst
<1>11. \A p \in Q : /\ p \in PlaceRecords /\ p.id \in Int /\ p.x \in Int /\ p.y \in Int
                    /\ p.x \in z0..z1 /\ \E d \in T : p.id = d.id
  <2>1. SUFFICES ASSUME NEW k \in 1..n, NEW j \in 1..m(k)
                 PROVE  /\ at(k, j) \in PlaceRecords /\ at(k, j).id \in Int /\ at(k, j).x \in Int /\ at(k, j).y \in Int
                        /\ at(k, j).x \in z0..z1 /\ \E d \in T : at(k, j).id = d.id
    BY <1>5
  <2>2. PICK d \in T : c[k].ids[j] = d.id
    BY <1>1
  <2>3. at(k, j).id = d.id
    BY <1>8, <2>2
  <2>4. at(k, j).x \in Int /\ at(k, j).x \in z0..z1
    BY <1>3, <1>8
  <2>5. at(k, j).y \in Int
    BY <1>6, <1>8
  <2>6. at(k, j) \in PlaceRecords
    <3>1. at(k, j) = [id |-> at(k, j).id, x |-> at(k, j).x, y |-> at(k, j).y]
      BY DEF at
    <3>2. QED BY <1>4, <2>3, <2>4, <2>5, <3>1 DEF PlaceRecords
  <2>7. QED BY <1>4, <2>3, <2>4, <2>5, <2>6
<1>12. \A d \in T : \E p \in Q : p.id = d.id
  <2>1. SUFFICES ASSUME NEW d \in T PROVE \E p \in Q : p.id = d.id
    OBVIOUS
  <2>2. PICK k \in 1..n : \E j \in 1..m(k) : c[k].ids[j] = d.id
    BY <1>1
  <2>3. PICK j \in 1..m(k) : c[k].ids[j] = d.id
    BY <2>2
  <2>4. at(k, j) \in Q /\ at(k, j).id = d.id
    BY <1>5, <1>8, <2>3
  <2>5. QED BY <2>4
\* Of two places one comes first, in a column or by the column.
<1>13. ASSUME NEW p \in Q, NEW q \in Q, p # q
       PROVE  FarApart(p, q, D) /\ (ComesFirst(p, q) \/ ComesFirst(q, p))
  <2>1. PICK k \in 1..n : \E i \in 1..m(k) : p = at(k, i)
    BY <1>5
  <2>2. PICK i \in 1..m(k) : p = at(k, i)
    BY <2>1
  <2>3. PICK l \in 1..n : \E j \in 1..m(l) : q = at(l, j)
    BY <1>5
  <2>4. PICK j \in 1..m(l) : q = at(l, j)
    BY <2>3
  <2>5. k \in Int /\ l \in Int /\ i \in Int /\ j \in Int
    BY <1>1
  <2>6. (k < l \/ (k = l /\ i < j)) \/ (l < k \/ (l = k /\ j < i))
    BY <1>13, <2>2, <2>4, <2>5
  <2>7. CASE k < l \/ (k = l /\ i < j)
    BY <1>10, <2>2, <2>4, <2>7
  <2>8. CASE l < k \/ (l = k /\ j < i)
    BY <1>10, <2>2, <2>4, <2>8
  <2>9. QED BY <2>6, <2>7, <2>8
<1>14. \A d \in T : ~ValueBefore(d, d)
  BY <1>4 DEF ValueBefore
<1>15. \A p, q \in Q : p.id = q.id => p = q
  BY <1>11, <1>13, <1>14 DEF ComesFirst
<1>16. ASSUME NEW p \in Q, NEW q \in Q, NEW d \in T, NEW e \in T,
              p.id = d.id, q.id = e.id, d.value < e.value
       PROVE  p.x <= q.x
  <2>1. ~ValueBefore(e, d)
    BY <1>4, <1>16 DEF ValueBefore
  <2>2. d.id # e.id \/ d = e
    BY DEF AreMoves
  <2>3. ~(d.value < d.value)
    BY <1>4
  <2>4. p # q
    BY <1>16, <2>2, <2>3
  <2>5. ComesFirst(p, q) \/ ComesFirst(q, p)
    BY <1>13, <2>4
  <2>6. QED BY <1>16, <2>1, <2>5 DEF ComesFirst
<1>17. HavePlaces(Q, T)
  BY <1>11, <1>12, <1>15, <1>16 DEF HavePlaces
<1>18. AllApart(Q, D)
  BY <1>13 DEF AllApart
<1>19. QED BY <1>11, <1>17, <1>18 DEF Q

\* The dots on the scale get their own x, and keep apart where they are not too many.
LEMMA ScalePlaced ==
  ASSUME NEW T, AreMoves(T), \A d \in T : d.x \in Int,
         \A d, e \in T : d.value <= e.value => d.x <= e.x,
         NEW D \in Nat, D <= 160
  PROVE  /\ HavePlaces(Range(PlaceInScale(T, D)), T)
         /\ \A p \in Range(PlaceInScale(T, D)) : \A d \in T : p.id = d.id => p.x = d.x
         /\ Uncrowded(T) => AllApart(Range(PlaceInScale(T, D)), D)
<1> DEFINE P == PlaceInScale(T, D)
           s == SortByValue(T)
           n == Cardinality(T)
           Q == Range(P)
<1>1. InValueOrder(s, T) /\ IsPlaced(P, s, n, T, D)
  BY SortedByValue, PlacedInScale
<1> HIDE DEF P, s
<1>2. /\ n \in Nat /\ Len(s) = n /\ DOMAIN P = 1..n /\ \A i \in 1..n : P[i] \in PlaceRecords /\ s[i] \in T
  BY <1>1 DEF InValueOrder, IsPlaced
<1>3. \A i \in 1..n : P[i].id = s[i].id /\ P[i].x = s[i].x
  BY <1>1 DEF IsPlaced
<1>4. \A d \in T : \E i \in 1..n : s[i] = d
  BY <1>1, <1>2 DEF InValueOrder
<1>5. \A i, j \in 1..n : i < j => ValueBefore(s[i], s[j])
  BY <1>1, <1>2 DEF InValueOrder
<1>6. \A i, j \in 1..n : P[i].id = P[j].id => i = j
  <2>1. SUFFICES ASSUME NEW i \in 1..n, NEW j \in 1..n, P[i].id = P[j].id PROVE i = j
    OBVIOUS
  <2>2. s[i] = s[j] /\ s[i] \in T
    BY <1>2, <1>3, <2>1 DEF AreMoves
  <2>3. ~ValueBefore(s[i], s[i])
    BY <2>2 DEF ValueBefore, AreMoves
  <2>4. i \in Int /\ j \in Int /\ ~(i < j) /\ ~(j < i)
    BY <1>2, <1>5, <2>2, <2>3
  <2>5. QED BY <2>4
<1>7. \A p : p \in Q <=> \E i \in 1..n : p = P[i]
  BY <1>2 DEF Range
<1> HIDE DEF Q, n
<1>8. \A p \in Q : p \in PlaceRecords /\ p.id \in Int /\ p.x \in Int /\ p.y \in Int /\ \E d \in T : p.id = d.id
  <2>1. SUFFICES ASSUME NEW i \in 1..n
                 PROVE  /\ P[i] \in PlaceRecords /\ P[i].id \in Int /\ P[i].x \in Int /\ P[i].y \in Int
                        /\ \E d \in T : P[i].id = d.id
    BY <1>7
  <2>2. QED BY <1>2, <1>3 DEF PlaceRecords
<1>9. \A d \in T : \E p \in Q : p.id = d.id
  BY <1>3, <1>4, <1>7
<1>10. \A p, q \in Q : p.id = q.id => p = q
  BY <1>6, <1>7
<1>11. \A p \in Q : \A d \in T : p.id = d.id => p.x = d.x
  <2>1. SUFFICES ASSUME NEW i \in 1..n, NEW d \in T, P[i].id = d.id PROVE P[i].x = d.x
    BY <1>7
  <2>2. s[i] = d
    BY <1>2, <1>3, <2>1 DEF AreMoves
  <2>3. QED BY <1>3, <2>2
<1>12. \A p, q \in Q : \A d, e \in T : p.id = d.id /\ q.id = e.id /\ d.value < e.value => p.x <= q.x
  <2>1. SUFFICES ASSUME NEW p \in Q, NEW q \in Q, NEW d \in T, NEW e \in T,
                        p.id = d.id, q.id = e.id, d.value < e.value
                 PROVE  p.x <= q.x
    OBVIOUS
  <2>2. d.value <= e.value
    BY <2>1 DEF AreMoves
  <2>3. QED BY <1>11, <2>1, <2>2
<1>13. HavePlaces(Q, T)
  BY <1>8, <1>9, <1>10, <1>12 DEF HavePlaces
<1>14. ASSUME Uncrowded(T) PROVE AllApart(Q, D)
  <2>1. SUFFICES ASSUME NEW i \in 1..n, NEW j \in 1..n, P[i].id # P[j].id PROVE FarApart(P[i], P[j], D)
    BY <1>7 DEF AllApart
  <2>2. i \in Int /\ j \in Int /\ i # j
    BY <1>2, <2>1 DEF n
  <2>3. \A k, l \in 1..n : k < l => FarApart(P[k], P[l], D)
    BY <1>1, <1>14 DEF IsPlaced
  <2>4. CASE i < j
    BY <2>3, <2>4
  <2>5. CASE j < i
    <3>1. FarApart(P[j], P[i], D)
      BY <2>3, <2>5
    <3>2. P[i].x \in Int /\ P[i].y \in Int /\ P[j].x \in Int /\ P[j].y \in Int
      BY <1>2 DEF PlaceRecords
    <3>3. QED BY <3>1, <3>2, SmallerApart
  <2>6. QED BY <2>2, <2>4, <2>5
<1>15. QED BY <1>11, <1>13, <1>14 DEF Q, P

---------------------------------------------------------------------------
(* The axis and its zones                                                  *)

\* The end of the axis is between 10% and 50% and no dot on the scale is beyond it.
LEMMA CapBounds ==
  ASSUME NEW V, V \subseteq Int, \A v \in V : Magnitude(v) <= OffScale
  PROVE  CapFor(V) \in 100..500 /\ \A v \in V : Magnitude(v) <= CapFor(V)
<1> DEFINE C == {s \in {100, 150, 200, 250, 300, 400, 500} : \A v \in V : Magnitude(v) <= s} \cup {500}
<1>1. C \subseteq 100..500 /\ C \subseteq Int /\ 500 \in C
  OBVIOUS
<1>2. IsFiniteSet(C)
  <2>1. IsFiniteSet(100..500)
    <3> DEFINE low == 100
               high == 500
    <3>1. low \in Int /\ high \in Int
      OBVIOUS
    <3> HIDE DEF low, high
    <3>2. IsFiniteSet(low..high)
      BY <3>1, FS_Interval
    <3>3. QED BY <3>2 DEF low, high
  <2>2. QED BY <1>1, <2>1, FS_Subset
<1>3. \A s \in C : \A v \in V : Magnitude(v) <= s
  <2>1. \A v \in V : Magnitude(v) <= 500
    BY ValuesAssumption, SwarmAssumption DEF Magnitude
  <2>2. QED BY <2>1
<1>4. CapFor(V) = Min(C)
  BY DEF CapFor
<1> HIDE DEF C
<1>5. Min(C) \in C
  BY <1>1, <1>2, MinOfFinite
<1>6. QED BY <1>1, <1>3, <1>4, <1>5

\* A stage at least 200 px wide, 560 px unless narrow.
IsDrawnOn(g) ==
  /\ g.width \in Nat /\ g.height \in Nat /\ g.narrow \in BOOLEAN
  /\ g.width >= 2000 /\ (~g.narrow => g.width >= 5600)

BeyondRight(T) == {d \in T : d.value > OffScale}
BeyondLeft(T) == {d \in T : d.value < -OffScale}
OnScale(T) == {d \in T : ~IsOffScale(d.value)}

\* Dots beyond both ends need 284 px of a narrow stage.
ZonesFit(T, g) == g.narrow /\ BeyondRight(T) # {} /\ BeyondLeft(T) # {} => g.width >= 2840

\* A zone has the columns of T between z0 and z1.
IsZone(z, T, low, high) ==
  IF T = {} THEN z = None
  ELSE /\ z # None /\ z.x0 \in Int /\ z.x1 \in Int
       /\ \E z0, z1 \in low..high : z1 - z0 >= 320 /\ IsColumns(z.columns, T, z0, z1)

IsAxis(a, T, g) ==
  /\ a.cap \in 100..500 /\ \A d \in OnScale(T) : Magnitude(d.value) <= a.cap
  /\ a.x0 \in Int /\ a.x1 \in Int /\ a.x0 >= 80 /\ a.x1 <= g.width - 80 /\ a.x1 - a.x0 >= 400
  /\ ~g.narrow => a.x0 >= 120 /\ a.x1 <= g.width - 120
  /\ a.x0 + a.x1 >= 800 /\ a.x0 + a.x1 <= 2 * g.width - 800
  /\ IsZone(a.right, BeyondRight(T), a.x1 + 360, g.width - 180)
  /\ IsZone(a.left, BeyondLeft(T), 180, a.x0 - 360)

\* A zone's columns stay between its ends.
LEMMA ZoneFound ==
  ASSUME NEW T, AreMoves(T), NEW x0 \in Int, NEW x1 \in Int, NEW inset \in Nat,
         NEW low \in Int, NEW high \in Int,
         T # {} => low <= x0 + inset /\ x1 - inset <= high /\ (x1 - inset) - (x0 + inset) >= 320
  PROVE  IsZone(Zone(T, x0, x1, inset), T, low, high)
<1>1. CASE T = {}
  BY <1>1 DEF Zone, IsZone
<1>2. CASE T # {}
  <2> DEFINE z0 == x0 + inset
             z1 == x1 - inset
             c == OffColumns(T, z0, z1)
             z == [x0 |-> x0, x1 |-> x1, columns |-> c]
  <2>1. Zone(T, x0, x1, inset) = z
    BY <1>2 DEF Zone
  <2>2. z0 \in Int /\ z1 \in Int /\ z0 \in low..high /\ z1 \in low..high /\ z1 - z0 >= 320
    BY <1>2
  <2>3. IsColumns(c, T, z0, z1)
    BY <1>2, ColumnsFound
  <2>4. \A k \in 1..Len(c) : c[k].x \in z0..z1
    BY <2>2, <2>3, ColumnsFit
  <2> HIDE DEF c, z0, z1
  <2>5. \A k \in 1..Len(c) : c[k] \in [x : Int, value : Int, ids : Seq(Int)]
    <3>1. SUFFICES ASSUME NEW k \in 1..Len(c) PROVE c[k] \in [x : Int, value : Int, ids : Seq(Int)]
      OBVIOUS
    <3>2. c[k].x \in Int /\ c[k].value \in Int /\ c[k] = [x |-> c[k].x, value |-> c[k].value, ids |-> c[k].ids]
      BY <2>2, <2>3, <2>4 DEF IsColumns
    <3>3. c[k].ids \in Seq(Int)
      <4> DEFINE s == c[k].ids
                 m == Len(s)
      <4>1. m \in Nat /\ DOMAIN s = 1..m /\ \A j \in 1..m : \E d \in T : s[j] = d.id
        BY <2>3 DEF IsColumns
      <4>2. \A j \in 1..m : s[j] \in Int
        BY <4>1 DEF AreMoves
      <4>3. s = [j \in 1..m |-> s[j]]
        <5>1. \A l \in 1..Len(c) : c[l].ids = [j \in 1..Len(c[l].ids) |-> c[l].ids[j]]
          BY <2>3 DEF IsColumns
        <5>2. QED BY <5>1
      <4> HIDE DEF m
      <4>4. s \in [1..m -> Int]
        BY <4>1, <4>2, <4>3
      <4>5. QED BY <4>1, <4>4, ListType
    <3>4. QED BY <3>2, <3>3
  <2>6. c \in Seq([x : Int, value : Int, ids : Seq(Int)])
    <3> DEFINE m == Len(c)
               R == [x : Int, value : Int, ids : Seq(Int)]
    <3>1. m \in Nat /\ c = [k \in 1..m |-> c[k]]
      BY <2>3 DEF IsColumns
    <3>2. \A k \in 1..m : c[k] \in R
      BY <2>5
    <3> HIDE DEF m, R
    <3>3. c \in [1..m -> R]
      BY <3>1, <3>2
    <3>4. c \in Seq(R)
      BY <3>1, <3>3, ListType
    <3>5. QED BY <3>4 DEF R
  <2>7. z # None
    BY <2>6, SwarmAssumption
  <2>8. z.columns = c /\ z.x0 \in Int /\ z.x1 \in Int
    OBVIOUS
  <2> HIDE DEF z
  <2>9. QED BY <1>2, <2>1, <2>2, <2>3, <2>7, <2>8 DEF IsZone
<1>3. QED BY <1>1, <1>2

\* Some of the dots are dots.
LEMMA SomeMoves ==
  ASSUME NEW T, AreMoves(T), NEW S \in SUBSET T
  PROVE  AreMoves(S)
<1>1. IsFiniteSet(S)
  BY FS_Subset DEF AreMoves
<1>2. QED BY <1>1 DEF AreMoves

\* The axis keeps both zones clear of the scale and of the stage's edges.
LEMMA AxisFound ==
  ASSUME NEW T, AreMoves(T), NEW g, IsDrawnOn(g), ZonesFit(T, g)
  PROVE  IsAxis(AxisOf(T, g), T, g)
<1> DEFINE a == AxisOf(T, g)
           R == BeyondRight(T)
           L == BeyondLeft(T)
           narrow == g.narrow
           width == g.width
           gap == IF narrow THEN 300 ELSE 480
           pad == IF narrow THEN 80 ELSE 120
           beyond == IF narrow THEN 1140 ELSE 1760
           edge == IF narrow THEN 40 ELSE 80
           inset == IF narrow THEN 60 ELSE 100
           x0 == pad + (IF L # {} THEN beyond ELSE 0)
           x1 == Max({x0 + 400, width - pad - (IF R # {} THEN beyond ELSE 0)})
<1>1. /\ a.cap = CapFor({d.value : d \in OnScale(T)})
      /\ a.x0 = x0 /\ a.x1 = x1
      /\ a.right = Zone(R, x1 + gap, width - pad - edge, inset)
      /\ a.left = Zone(L, pad + edge, x0 - gap, inset)
  BY DEF AxisOf, OnScale, BeyondRight, BeyondLeft, Px
<1>2. width \in Nat /\ width >= 2000 /\ narrow \in BOOLEAN /\ (~narrow => width >= 5600)
      /\ (narrow /\ R # {} /\ L # {} => width >= 2840)
  BY DEF IsDrawnOn, ZonesFit
<1>3. AreMoves(R) /\ AreMoves(L)
  BY SomeMoves DEF BeyondRight, BeyondLeft
<1> HIDE DEF a, R, L, width, narrow
<1>4. x0 \in Int /\ x0 >= pad /\ pad \in Nat
  OBVIOUS
<1>5. x1 = width - pad - (IF R # {} THEN beyond ELSE 0)
  <2> DEFINE b == width - pad - (IF R # {} THEN beyond ELSE 0)
  <2>1. b \in Int /\ x0 + 400 \in Int
    BY <1>2
  <2>2. x0 + 400 <= b
    BY <1>2
  <2>3. x1 = Max({x0 + 400, b})
    OBVIOUS
  <2> HIDE DEF b, x0, x1
  <2>4. IsFiniteSet({x0 + 400, b}) /\ {x0 + 400, b} \subseteq Int /\ {x0 + 400, b} # {}
    <3>1. IsFiniteSet({x0 + 400}) /\ IsFiniteSet({x0 + 400} \cup {b})
      <4>1. IsFiniteSet({} \cup {x0 + 400})
        BY FS_EmptySet, FS_AddElement
      <4>2. {} \cup {x0 + 400} = {x0 + 400}
        OBVIOUS
      <4>3. QED BY <4>1, <4>2, FS_AddElement
    <3>2. {x0 + 400} \cup {b} = {x0 + 400, b}
      OBVIOUS
    <3>3. IsFiniteSet({x0 + 400, b})
      BY <3>1, <3>2
    <3>4. {x0 + 400, b} \subseteq Int
      BY <2>1
    <3>5. QED BY <3>3, <3>4
  <2>5. x1 \in {x0 + 400, b} /\ \A y \in {x0 + 400, b} : x1 >= y
    BY <2>3, <2>4, MaxOfFinite
  <2>6. x1 = b
    BY <2>1, <2>2, <2>5
  <2>7. QED BY <2>6 DEF b
<1> HIDE DEF x1
<1>6. x1 \in Int /\ x1 <= width - pad /\ x1 - x0 >= 400
  BY <1>2, <1>4, <1>5
<1>7. IsZone(a.right, R, x1 + 360, width - 180)
  <2>1. R # {} => x1 = width - pad - beyond
    BY <1>5
  <2>2. R # {} => /\ x1 + 360 <= x1 + gap + inset /\ width - pad - edge - inset <= width - 180
                  /\ (width - pad - edge - inset) - (x1 + gap + inset) >= 320
    BY <1>2, <1>6, <2>1
  <2>3. /\ x1 + gap \in Int /\ width - pad - edge \in Int /\ inset \in Nat
        /\ x1 + 360 \in Int /\ width - 180 \in Int
    BY <1>2, <1>6
  <2> DEFINE y0 == x1 + gap
             y1 == width - pad - edge
             low == x1 + 360
             high == width - 180
  <2>4. R # {} => low <= y0 + inset /\ y1 - inset <= high /\ (y1 - inset) - (y0 + inset) >= 320
    BY <2>2
  <2> HIDE DEF inset
  <2>5. y0 \in Int /\ y1 \in Int /\ low \in Int /\ high \in Int /\ a.right = Zone(R, y0, y1, inset)
    BY <1>1, <2>3
  <2> HIDE DEF y0, y1, low, high
  <2>6. IsZone(a.right, R, low, high)
    BY <1>3, <2>3, <2>4, <2>5, ZoneFound
  <2>7. QED BY <2>6 DEF low, high
<1>8. IsZone(a.left, L, 180, x0 - 360)
  <2>1. L # {} => x0 = pad + beyond
    OBVIOUS
  <2>2. L # {} => /\ 180 <= pad + edge + inset /\ x0 - gap - inset <= x0 - 360
                  /\ (x0 - gap - inset) - (pad + edge + inset) >= 320
    BY <2>1
  <2> DEFINE y0 == pad + edge
             y1 == x0 - gap
             high == x0 - 360
  <2>3. y0 \in Int /\ y1 \in Int /\ high \in Int /\ inset \in Nat
    BY <1>4
  <2>4. L # {} => 180 <= y0 + inset /\ y1 - inset <= high /\ (y1 - inset) - (y0 + inset) >= 320
    BY <2>2
  <2> HIDE DEF inset
  <2>5. a.left = Zone(L, y0, y1, inset)
    BY <1>1
  <2> HIDE DEF y0, y1, high
  <2>6. IsZone(a.left, L, 180, high)
    BY <1>3, <2>3, <2>4, <2>5, ZoneFound
  <2>7. QED BY <2>6 DEF high
<1>9. a.cap \in 100..500 /\ \A d \in OnScale(T) : Magnitude(d.value) <= a.cap
  <2> DEFINE V == {d.value : d \in OnScale(T)}
  <2>1. V \subseteq Int /\ \A v \in V : Magnitude(v) <= OffScale
    <3>1. ASSUME NEW d \in OnScale(T) PROVE d.value \in Int /\ Magnitude(d.value) <= OffScale
      <4>1. d.value \in Int /\ ~IsOffScale(d.value)
        BY DEF OnScale, AreMoves
      <4>2. QED BY <4>1, ValuesAssumption DEF IsOffScale, Magnitude
    <3>2. QED BY <3>1
  <2>2. CapFor(V) \in 100..500 /\ \A v \in V : Magnitude(v) <= CapFor(V)
    BY <2>1, CapBounds
  <2>3. \A d \in OnScale(T) : d.value \in V
    OBVIOUS
  <2>4. a.cap = CapFor(V)
    BY <1>1
  <2> HIDE DEF V
  <2>5. QED BY <2>2, <2>3, <2>4
<1>10. /\ x0 >= 80 /\ x1 <= width - 80 /\ (~narrow => x0 >= 120 /\ x1 <= width - 120)
  BY <1>2, <1>4, <1>6
<1>11. x0 + x1 >= 800 /\ x0 + x1 <= 2 * width - 800
  BY <1>2, <1>4, <1>5
<1> HIDE DEF x0
<1>12. /\ a.x0 \in Int /\ a.x1 \in Int /\ a.x0 >= 80 /\ a.x1 <= width - 80 /\ a.x1 - a.x0 >= 400
       /\ ~narrow => a.x0 >= 120 /\ a.x1 <= width - 120
       /\ a.x0 + a.x1 >= 800 /\ a.x0 + a.x1 <= 2 * width - 800
       /\ IsZone(a.right, R, a.x1 + 360, width - 180) /\ IsZone(a.left, L, 180, a.x0 - 360)
  BY <1>1, <1>4, <1>6, <1>7, <1>8, <1>10, <1>11
<1>13. IsAxis(a, T, g)
  BY <1>9, <1>12 DEF IsAxis, R, L, width, narrow
<1>14. QED BY <1>13 DEF a

---------------------------------------------------------------------------
(* The places of all dots at a radius                                      *)

\* A value is drawn on the axis, and a larger one no further left.
LEMMA ValueOnAxis ==
  ASSUME NEW a, a.x0 \in Int, a.x1 \in Int, a.x1 >= a.x0, a.cap \in 100..500,
         NEW u \in Int, NEW v \in Int, u <= v, Magnitude(u) <= a.cap, Magnitude(v) <= a.cap
  PROVE  /\ AtValue(a, u) \in a.x0..a.x1 /\ AtValue(a, v) \in a.x0..a.x1
         /\ AtValue(a, u) <= AtValue(a, v)
<1> DEFINE w == a.x1 - a.x0
           c == 2 * a.cap
           i == u + a.cap
           j == v + a.cap
           x0 == a.x0
<1>1. w \in Nat /\ c \in Nat \ {0} /\ i \in Nat /\ j \in Nat /\ i <= j /\ j <= c /\ x0 \in Int /\ a.x1 = x0 + w
  <2>1. a.cap \in Int /\ a.cap >= 100
    OBVIOUS
  <2>2. w \in Nat /\ c \in Nat \ {0} /\ x0 \in Int /\ a.x1 = x0 + w
    BY <2>1
  <2>3. i \in Nat /\ j \in Nat /\ i <= j /\ j <= c
    BY <2>1 DEF Magnitude
  <2>4. QED BY <2>2, <2>3
<1>2. AtValue(a, u) = x0 + (i * w) \div c /\ AtValue(a, v) = x0 + (j * w) \div c
  BY DEF AtValue
<1> HIDE DEF w, c, i, j, x0
<1> DEFINE m == i * w
           n == j * w
           p == m \div c
           q == n \div c
<1>3. m \in Nat /\ n \in Nat /\ m <= n /\ n <= c * w
  <2>1. m = w * i /\ n = w * j /\ c * w = w * c
    BY <1>1
  <2>2. w * i \in Nat /\ w * j \in Nat
    BY <1>1
  <2>3. w * i <= w * j /\ w * j <= w * c
    BY <1>1, ProductsGrow
  <2> HIDE DEF m, n
  <2>4. QED BY <2>1, <2>2, <2>3
<1> HIDE DEF m, n
<1>4. p \in Nat /\ q \in Nat /\ p * c <= m /\ m < p * c + c /\ q * c <= n /\ n < q * c + c
  BY <1>1, <1>3, Quotient
<1> HIDE DEF p, q
<1>5. q <= w
  <2>1. c * q <= c * w
    <3>1. q * c = c * q /\ c * q \in Int /\ c * w \in Int
      BY <1>1, <1>4
    <3>2. QED BY <1>3, <1>4, <3>1
  <2>2. QED BY <1>1, <1>4, <2>1, FactorsCompare
<1>6. p <= q
  <2>1. c * p < c * (q + 1)
    <3>1. p * c = c * p /\ q * c = c * q /\ c * (q + 1) = c * q + c /\ c * p \in Int /\ c * q \in Int
      BY <1>1, <1>4
    <3>2. QED BY <1>1, <1>3, <1>4, <3>1
  <2>2. p < q + 1
    BY <1>1, <1>4, <2>1, FactorsCompare
  <2>3. QED BY <1>4, <2>2
<1>7. AtValue(a, u) = x0 + p /\ AtValue(a, v) = x0 + q
  BY <1>2 DEF p, q, m, n
<1>8. QED BY <1>1, <1>4, <1>5, <1>6, <1>7 DEF x0

\* The dots of the axis, each at its value.
AlongAxis(T, a) == {[id |-> d.id, value |-> d.value, x |-> AtValue(a, d.value)] : d \in OnScale(T)}

\* Every dot is on the scale or beyond one of its ends.
LEMMA OnScaleType ==
  ASSUME NEW T, AreMoves(T)
  PROVE  /\ AreMoves(OnScale(T)) /\ AreMoves(BeyondLeft(T)) /\ AreMoves(BeyondRight(T))
         /\ T = BeyondLeft(T) \cup OnScale(T) \cup BeyondRight(T)
         /\ \A d \in BeyondLeft(T), e \in OnScale(T) : d.id # e.id /\ ~(e.value < d.value)
         /\ \A d \in BeyondLeft(T) \cup OnScale(T), e \in BeyondRight(T) : d.id # e.id /\ ~(e.value < d.value)
         /\ \A d \in T : IsOffScale(d.value) <=> d \in BeyondLeft(T) \cup BeyondRight(T)
<1>1. AreMoves(OnScale(T)) /\ AreMoves(BeyondLeft(T)) /\ AreMoves(BeyondRight(T))
  BY SomeMoves DEF OnScale, BeyondLeft, BeyondRight
<1>2. \A d \in T : IsOffScale(d.value) <=> (d.value < -OffScale \/ d.value > OffScale)
  BY ValuesAssumption DEF AreMoves, IsOffScale, Magnitude
<1>3. \A d \in T : d.value \in Int
  BY DEF AreMoves
<1>4. \A d, e \in T : d.id = e.id => d = e
  BY DEF AreMoves
<1>5. OffScale \in Nat
  BY ValuesAssumption
<1>6. T = BeyondLeft(T) \cup OnScale(T) \cup BeyondRight(T)
  BY <1>2 DEF OnScale, BeyondLeft, BeyondRight
<1>7. \A d \in T : IsOffScale(d.value) <=> d \in BeyondLeft(T) \cup BeyondRight(T)
  BY <1>2 DEF BeyondLeft, BeyondRight
<1>8. \A d, e \in T : e.value > d.value => d.id # e.id /\ ~(e.value < d.value)
  BY <1>3, <1>4
<1>9. \A d \in T : d \in BeyondLeft(T) <=> d.value < -OffScale
  BY DEF BeyondLeft
<1>10. \A d \in T : d \in BeyondRight(T) <=> d.value > OffScale
  BY DEF BeyondRight
<1>11. \A d \in T : d \in OnScale(T) <=> ~(d.value < -OffScale) /\ ~(d.value > OffScale)
  BY <1>2 DEF OnScale
<1>12. \A d \in BeyondLeft(T), e \in OnScale(T) : d.id # e.id /\ ~(e.value < d.value)
  BY <1>3, <1>5, <1>6, <1>8, <1>9, <1>11
<1>13. \A d \in BeyondLeft(T) \cup OnScale(T), e \in BeyondRight(T) : d.id # e.id /\ ~(e.value < d.value)
  BY <1>3, <1>5, <1>6, <1>8, <1>9, <1>10, <1>11
<1>14. QED BY <1>1, <1>6, <1>7, <1>12, <1>13

\* The dots on the scale are on the axis, in the order of their values.
LEMMA OnAxisType ==
  ASSUME NEW T, AreMoves(T), NEW g, NEW a, IsAxis(a, T, g)
  PROVE  /\ AreMoves(AlongAxis(T, a)) /\ \A d \in AlongAxis(T, a) : d.x \in a.x0..a.x1
         /\ \A d, e \in AlongAxis(T, a) : d.value <= e.value => d.x <= e.x
<1> DEFINE S == OnScale(T)
           f == [d \in S |-> [id |-> d.id, value |-> d.value, x |-> AtValue(a, d.value)]]
           O == AlongAxis(T, a)
<1>1. AreMoves(S)
  BY SomeMoves DEF OnScale
<1>2. O = {f[d] : d \in S}
  BY DEF AlongAxis
<1>3. \A d \in S : f[d].id = d.id /\ f[d].value = d.value /\ f[d].x = AtValue(a, d.value)
  OBVIOUS
<1>4. /\ a.x0 \in Int /\ a.x1 \in Int /\ a.x1 >= a.x0 /\ a.cap \in 100..500
      /\ \A d \in S : Magnitude(d.value) <= a.cap /\ d.value \in Int
  BY <1>1 DEF IsAxis, AreMoves
<1> HIDE DEF S, f, O
<1>5. IsFiniteSet(O)
  BY <1>1, <1>2, ValuesFinite DEF AreMoves
<1>6. \A d, e \in S : d.value <= e.value =>
         f[d].x \in a.x0..a.x1 /\ f[e].x \in a.x0..a.x1 /\ f[d].x <= f[e].x
  BY <1>3, <1>4, ValueOnAxis
<1>7. \A o \in O : \E d \in S : o = f[d]
  BY <1>2
<1>8. \A o \in O : o.x \in a.x0..a.x1
  <2>1. \A d \in S : d.value <= d.value
    BY <1>4
  <2>2. QED BY <1>6, <1>7, <2>1
<1>9. \A d, e \in O : d.value <= e.value => d.x <= e.x
  BY <1>3, <1>6, <1>7
<1>10. AreMoves(O)
  BY <1>1, <1>3, <1>5, <1>7 DEF AreMoves
<1>11. QED BY <1>8, <1>9, <1>10 DEF O

ZonePlaces(z, D) == IF z = None THEN {} ELSE ColumnPlaces(z.columns, D)

\* The dots of a zone have their places in it.
LEMMA ZonePlaced ==
  ASSUME NEW T, AreMoves(T), NEW z, NEW low \in Int, NEW high \in Int, IsZone(z, T, low, high),
         NEW D \in Nat, D <= 160, D % 2 = 0
  PROVE  /\ HavePlaces(ZonePlaces(z, D), T) /\ AllApart(ZonePlaces(z, D), D)
         /\ \A p \in ZonePlaces(z, D) : p.x \in low..high
<1>1. CASE T = {}
  BY <1>1, NoPlaces DEF IsZone, ZonePlaces
<1>2. CASE T # {}
  <2>1. PICK z0 \in low..high : \E z1 \in low..high : z1 - z0 >= 320 /\ IsColumns(z.columns, T, z0, z1)
    BY <1>2 DEF IsZone
  <2>2. PICK z1 \in low..high : z1 - z0 >= 320 /\ IsColumns(z.columns, T, z0, z1)
    BY <2>1
  <2>3. ZonePlaces(z, D) = ColumnPlaces(z.columns, D)
    BY <1>2 DEF IsZone, ZonePlaces
  <2>4. z0 \in Int /\ z1 \in Int
    OBVIOUS
  <2>5. /\ HavePlaces(ColumnPlaces(z.columns, D), T) /\ AllApart(ColumnPlaces(z.columns, D), D)
        /\ \A p \in ColumnPlaces(z.columns, D) : p.x \in z0..z1
    BY <2>2, <2>4, ColumnsPlaced
  <2>6. z0..z1 \subseteq low..high
    OBVIOUS
  <2>7. QED BY <2>3, <2>5, <2>6
<1>3. QED BY <1>1, <1>2

\* The places of the dots of the axis.
LEMMA AxisPlaced ==
  ASSUME NEW T, AreMoves(T), NEW g, NEW a, IsAxis(a, T, g), NEW D \in Nat, D <= 160
  PROVE  LET Q == Range(PlaceInScale(AlongAxis(T, a), D))
         IN  /\ HavePlaces(Q, OnScale(T))
             /\ \A p \in Q : p.x \in a.x0..a.x1
             /\ \A p \in Q : \A d \in OnScale(T) : p.id = d.id => p.x = AtValue(a, d.value)
             /\ Uncrowded(AlongAxis(T, a)) => AllApart(Q, D)
<1> DEFINE O == AlongAxis(T, a)
           S == OnScale(T)
           Q == Range(PlaceInScale(O, D))
<1>1. /\ AreMoves(O) /\ \A o \in O : o.x \in a.x0..a.x1
      /\ \A d, e \in O : d.value <= e.value => d.x <= e.x
  BY OnAxisType
<1>2. \A x \in a.x0..a.x1 : x \in Int
  BY DEF IsAxis
<1> DEFINE at(d) == [id |-> d.id, value |-> d.value, x |-> AtValue(a, d.value)]
<1>3. O = {at(d) : d \in S}
  BY DEF AlongAxis
<1>4. \A d \in S : at(d).id = d.id /\ at(d).value = d.value /\ at(d).x = AtValue(a, d.value)
  OBVIOUS
<1> HIDE DEF O, S, at
<1>5. /\ \A d \in S : \E o \in O : o.id = d.id /\ o.value = d.value /\ o.x = AtValue(a, d.value)
      /\ \A o \in O : \E d \in S : o.id = d.id /\ o.value = d.value /\ o.x = AtValue(a, d.value)
  BY <1>3, <1>4
<1>6. /\ HavePlaces(Q, O) /\ \A p \in Q : \A o \in O : p.id = o.id => p.x = o.x
      /\ Uncrowded(O) => AllApart(Q, D)
  BY <1>1, <1>2, ScalePlaced
<1> HIDE DEF Q
<1>7. \A p \in Q : p \in PlaceRecords /\ p.id \in Int /\ p.x \in Int /\ p.y \in Int /\ \E d \in S : p.id = d.id
  BY <1>5, <1>6 DEF HavePlaces
<1>8. \A d \in S : \E p \in Q : p.id = d.id
  BY <1>5, <1>6 DEF HavePlaces
<1>9. \A p, q \in Q : p.id = q.id => p = q
  BY <1>6 DEF HavePlaces
<1>10. ASSUME NEW p \in Q, NEW q \in Q, NEW d \in S, NEW e \in S, p.id = d.id, q.id = e.id, d.value < e.value
      PROVE  p.x <= q.x
  <2>1. PICK o \in O : o.id = d.id /\ o.value = d.value
    BY <1>5
  <2>2. PICK n \in O : n.id = e.id /\ n.value = e.value
    BY <1>5
  <2>3. QED BY <1>6, <1>10, <2>1, <2>2 DEF HavePlaces
<1>11. HavePlaces(Q, S)
  BY <1>7, <1>8, <1>9, <1>10 DEF HavePlaces
<1>12. \A p \in Q : p.x \in a.x0..a.x1
  <2>1. \A p \in Q : \E o \in O : p.id = o.id
    BY <1>6 DEF HavePlaces
  <2>2. QED BY <1>1, <1>6, <2>1
<1>13. \A p \in Q : \A d \in S : p.id = d.id => p.x = AtValue(a, d.value)
  BY <1>5, <1>6
<1>14. QED BY <1>6, <1>11, <1>12, <1>13 DEF Q, S, O

LargestRadius(narrow) == IF narrow THEN 56 ELSE 70

\* All dots around the middle line, none on another and each where its value belongs.
IsDrawing(P, T, a, g) ==
  /\ P = [r |-> P.r, dots |-> P.dots, minY |-> P.minY, maxY |-> P.maxY]
  /\ P.r \in 20..LargestRadius(g.narrow) /\ P.minY \in Int /\ P.maxY \in Int /\ P.maxY >= 0
  /\ HavePlaces(P.dots, T)
  /\ \A p \in P.dots : /\ P.minY <= p.y - P.r /\ p.y + P.r <= P.maxY
                       /\ p.x >= P.r /\ p.x + P.r <= g.width
  /\ \A p \in P.dots : \A d \in T : p.id = d.id =>
       IF IsOffScale(d.value) THEN p.x < a.x0 \/ p.x > a.x1
       ELSE p.x = AtValue(a, d.value) /\ p.x \in a.x0..a.x1
  /\ Uncrowded(AlongAxis(T, a)) => AllApart(P.dots, 2 * P.r)

\* Places D apart are apart by less.
LEMMA SmallerAllApart ==
  ASSUME NEW Q, NEW T, HavePlaces(Q, T), NEW D \in Nat, NEW d \in Nat, d <= D, AllApart(Q, D)
  PROVE  AllApart(Q, d)
<1>1. ASSUME NEW p \in Q, NEW q \in Q, p.id # q.id PROVE FarApart(p, q, d)
  <2>1. p.x \in Int /\ p.y \in Int /\ q.x \in Int /\ q.y \in Int /\ FarApart(p, q, D)
    BY <1>1 DEF HavePlaces, AllApart
  <2>2. QED BY <2>1, SmallerApart
<1>2. QED BY <1>1 DEF AllApart

\* The zones' dots and those of the axis.
DrawnAt(T, a, D) ==
  (ZonePlaces(a.left, D) \cup Range(PlaceInScale(AlongAxis(T, a), D))) \cup ZonePlaces(a.right, D)

\* All dots of a chart have places on the stage, and keep apart where none crowd the axis.
LEMMA DrawnTogether ==
  ASSUME NEW T, AreMoves(T), NEW g, IsDrawnOn(g), NEW a, IsAxis(a, T, g),
         NEW D \in Nat, D <= 160, D % 2 = 0
  PROVE  LET Q == DrawnAt(T, a, D)
         IN  /\ HavePlaces(Q, T)
             /\ \A p \in Q : /\ p.x >= LargestRadius(g.narrow) /\ p.x + LargestRadius(g.narrow) <= g.width
             /\ \A p \in Q : \A d \in T : p.id = d.id =>
                  IF IsOffScale(d.value) THEN p.x < a.x0 \/ p.x > a.x1
                  ELSE p.x = AtValue(a, d.value) /\ p.x \in a.x0..a.x1
             /\ Uncrowded(AlongAxis(T, a)) => AllApart(Q, D)
<1> DEFINE S == OnScale(T)
           L == BeyondLeft(T)
           R == BeyondRight(T)
           A == ZonePlaces(a.left, D)
           B == Range(PlaceInScale(AlongAxis(T, a), D))
           C == ZonePlaces(a.right, D)
           x0 == a.x0
           x1 == a.x1
           width == g.width
<1>1. /\ AreMoves(S) /\ AreMoves(L) /\ AreMoves(R) /\ T = L \cup S \cup R
      /\ \A d \in L, e \in S : d.id # e.id /\ ~(e.value < d.value)
      /\ \A d \in L \cup S, e \in R : d.id # e.id /\ ~(e.value < d.value)
      /\ \A d \in T : IsOffScale(d.value) <=> d \in L \cup R
  BY OnScaleType
<1>2. /\ x0 \in Int /\ x1 \in Int /\ width \in Int /\ x0 >= 80 /\ x1 <= width - 80 /\ x1 - x0 >= 400
      /\ (~g.narrow => x0 >= 120 /\ x1 <= width - 120)
      /\ g.narrow \in BOOLEAN
  BY DEF IsAxis, IsDrawnOn
<1>3. HavePlaces(A, L) /\ AllApart(A, D) /\ \A p \in A : p.x \in 180..(x0 - 360)
  <2> DEFINE low == 180
             high == x0 - 360
  <2>1. low \in Int /\ high \in Int
    BY <1>2
  <2>2. IsZone(a.left, L, low, high)
    BY DEF IsAxis
  <2> HIDE DEF L, low, high
  <2>3. QED BY <1>1, <2>1, <2>2, ZonePlaced DEF low, high
<1>4. HavePlaces(C, R) /\ AllApart(C, D) /\ \A p \in C : p.x \in (x1 + 360)..(width - 180)
  <2> DEFINE low == x1 + 360
             high == width - 180
  <2>1. low \in Int /\ high \in Int
    BY <1>2
  <2>2. IsZone(a.right, R, low, high)
    BY DEF IsAxis
  <2> HIDE DEF R, low, high
  <2>3. QED BY <1>1, <2>1, <2>2, ZonePlaced DEF low, high
<1>5. /\ HavePlaces(B, S) /\ \A p \in B : p.x \in x0..x1
      /\ \A p \in B : \A d \in S : p.id = d.id => p.x = AtValue(a, d.value)
      /\ Uncrowded(AlongAxis(T, a)) => AllApart(B, D)
  BY AxisPlaced
<1> HIDE DEF S, L, R, A, B, C, x0, x1, width
<1>6. /\ \A p \in A : p.x \in Int /\ p.x >= 180 /\ p.x <= x0 - 360
      /\ \A p \in B : p.x \in Int /\ p.x >= x0 /\ p.x <= x1
      /\ \A p \in C : p.x \in Int /\ p.x >= x1 + 360 /\ p.x <= width - 180
  BY <1>2, <1>3, <1>4, <1>5
<1>7. HavePlaces(A \cup B, L \cup S)
  <2>1. \A p \in A, q \in B : p.x <= q.x
    BY <1>2, <1>6
  <2>2. QED BY <1>1, <1>3, <1>5, <2>1, PlacesJoined
<1>8. HavePlaces((A \cup B) \cup C, T)
  <2>1. \A p \in A \cup B, q \in C : p.x <= q.x
    BY <1>2, <1>6
  <2>2. HavePlaces((A \cup B) \cup C, (L \cup S) \cup R)
    BY <1>1, <1>4, <1>7, <2>1, PlacesJoined
  <2>3. QED BY <1>1, <2>2
<1> DEFINE Q == (A \cup B) \cup C
           most == LargestRadius(g.narrow)
<1>9. \A p \in Q : p.x >= most /\ p.x + most <= width
  <2>1. most \in Nat /\ most <= 70 /\ most <= x0 /\ x1 + most <= width
    BY <1>2 DEF LargestRadius
  <2> HIDE DEF most
  <2>2. QED BY <1>2, <1>6, <2>1
<1>10. ASSUME NEW p \in Q, NEW d \in T, p.id = d.id
       PROVE  IF IsOffScale(d.value) THEN p.x < x0 \/ p.x > x1 ELSE p.x = AtValue(a, d.value) /\ p.x \in x0..x1
  <2>1. /\ p \in A => d \in L
        /\ p \in B => d \in S
        /\ p \in C => d \in R
    <3>1. /\ \A q \in A : \E e \in L : q.id = e.id
          /\ \A q \in B : \E e \in S : q.id = e.id
          /\ \A q \in C : \E e \in R : q.id = e.id
      BY <1>3, <1>4, <1>5 DEF HavePlaces
    <3>2. \A e \in T : e.id = d.id => e = d
      BY DEF AreMoves
    <3>3. QED BY <1>1, <1>10, <3>1, <3>2
  <2>2. CASE p \in A
    BY <1>1, <1>2, <1>6, <2>1, <2>2
  <2>3. CASE p \in B
    <3>1. ~IsOffScale(d.value)
      <4>1. d \in S /\ \A e \in L : d # e
        BY <1>1, <2>1, <2>3
      <4>2. \A e \in R : d # e
        BY <1>1, <4>1
      <4>3. QED BY <1>1, <4>1, <4>2
    <3>2. QED BY <1>5, <1>10, <2>1, <2>3, <3>1
  <2>4. CASE p \in C
    BY <1>1, <1>2, <1>6, <2>1, <2>4
  <2>5. QED BY <2>2, <2>3, <2>4
<1>11. ASSUME Uncrowded(AlongAxis(T, a)) PROVE AllApart(Q, D)
  <2>1. \A p \in A, q \in B : q.x - p.x >= D
    BY <1>2, <1>6
  <2>2. \A p \in A \cup B, q \in C : q.x - p.x >= D
    BY <1>2, <1>6
  <2>3. \A p \in Q : p.x \in Int /\ p.y \in Int
    BY <1>8 DEF HavePlaces
  <2>4. AllApart(B, D)
    BY <1>5, <1>11
  <2>5. AllApart(A \cup B, D)
    BY <1>3, <2>1, <2>3, <2>4, ApartJoined
  <2>6. QED BY <1>4, <2>2, <2>3, <2>5, ApartJoined
<1>12. DrawnAt(T, a, D) = Q
  BY DEF DrawnAt, Q, A, B, C
<1> HIDE DEF Q, most
<1>13. QED BY <1>8, <1>9, <1>10, <1>11, <1>12 DEF most, x0, x1, width, Q

\* The places placedAt collects are those of the scale and of both zones.
LEMMA DrawnPlaces ==
  ASSUME NEW T, NEW a, NEW D
  PROVE  Range(PlaceInScale(AlongAxis(T, a), D))
           \cup UNION {PlaceColumn(c, D) : c \in UNION {Range(z.columns) : z \in {a.left, a.right} \ {None}}}
         = DrawnAt(T, a, D)
<1> DEFINE B == Range(PlaceInScale(AlongAxis(T, a), D))
           zones == {a.left, a.right} \ {None}
           C == UNION {Range(z.columns) : z \in zones}
           U == UNION {PlaceColumn(c, D) : c \in C}
<1>1. \A p : p \in U <=> \E z \in zones : \E c \in Range(z.columns) : p \in PlaceColumn(c, D)
  OBVIOUS
<1>2. \A z : z \in zones <=> z # None /\ (z = a.left \/ z = a.right)
  OBVIOUS
<1>3. \A z : \A p : p \in ZonePlaces(z, D) <=> z # None /\ \E c \in Range(z.columns) : p \in PlaceColumn(c, D)
  BY DEF ZonePlaces, ColumnPlaces
<1> HIDE DEF B, U, zones
<1>4. \A p : p \in U <=> p \in ZonePlaces(a.left, D) \/ p \in ZonePlaces(a.right, D)
  BY <1>1, <1>2, <1>3
<1>5. B \cup U = DrawnAt(T, a, D)
  BY <1>4 DEF DrawnAt, B
<1>6. QED BY <1>5 DEF B, U, zones

\* placedAt is such a drawing at the radius it is given.
LEMMA PlacedAtFound ==
  ASSUME NEW T, AreMoves(T), NEW g, IsDrawnOn(g), NEW a, IsAxis(a, T, g), NEW r \in 20..LargestRadius(g.narrow)
  PROVE  LET P == PlacedAt(T, a, g.narrow, r) IN IsDrawing(P, T, a, g) /\ P.r = r
<1> DEFINE D == 2 * r + (IF g.narrow THEN 12 ELSE 16)
           P == PlacedAt(T, a, g.narrow, r)
           Q == DrawnAt(T, a, D)
           Y == {-D} \cup {p.y - r : p \in Q}
           Z == {D} \cup {p.y + r : p \in Q}
<1>1. /\ g.narrow \in BOOLEAN /\ r \in Nat /\ r >= 20
      /\ r <= LargestRadius(g.narrow) /\ LargestRadius(g.narrow) \in Nat
      /\ LargestRadius(g.narrow) = IF g.narrow THEN 56 ELSE 70
  BY DEF IsDrawnOn, LargestRadius
<1>2. D \in Nat /\ D <= 160 /\ D % 2 = 0 /\ 2 * r <= D
  <2>1. CASE g.narrow
    BY <1>1, <2>1
  <2>2. CASE ~g.narrow
    BY <1>1, <2>2
  <2>3. QED BY <2>1, <2>2
<1>3. P = [r |-> r, dots |-> Q, minY |-> Min(Y), maxY |-> Max(Z)]
  <2> DEFINE B == Range(PlaceInScale(AlongAxis(T, a), D))
             U == UNION {PlaceColumn(c, D) : c \in UNION {Range(z.columns) : z \in {a.left, a.right} \ {None}}}
             V == B \cup U
  <2>1. P = [r |-> r, dots |-> V, minY |-> Min({-D} \cup {p.y - r : p \in V}),
             maxY |-> Max({D} \cup {p.y + r : p \in V})]
    BY DEF PlacedAt, AlongAxis, OnScale
  <2>2. V = Q
    BY DrawnPlaces
  <2> HIDE DEF V, Q, D, P
  <2>3. QED BY <2>1, <2>2
<1> HIDE DEF D
<1>4. /\ HavePlaces(Q, T)
      /\ \A p \in Q : /\ p.x >= LargestRadius(g.narrow) /\ p.x + LargestRadius(g.narrow) <= g.width
      /\ \A p \in Q : \A d \in T : p.id = d.id =>
           IF IsOffScale(d.value) THEN p.x < a.x0 \/ p.x > a.x1
           ELSE p.x = AtValue(a, d.value) /\ p.x \in a.x0..a.x1
      /\ Uncrowded(AlongAxis(T, a)) => AllApart(Q, D)
  BY <1>2, DrawnTogether
<1> HIDE DEF P, Q
<1>5. \A p \in Q : p.x \in Int /\ p.y \in Int
  BY <1>4 DEF HavePlaces
<1>6. IsFiniteSet(Q)
  BY <1>4, PlacesFinite DEF AreMoves
<1>7. Y \subseteq Int /\ Z \subseteq Int /\ -D \in Y /\ D \in Z
  BY <1>1, <1>2, <1>5
<1>8. IsFiniteSet(Y) /\ IsFiniteSet(Z)
  <2> DEFINE low == [p \in Q |-> p.y - r]
             high == [p \in Q |-> p.y + r]
  <2>1. Y = {low[p] : p \in Q} \cup {-D} /\ Z = {high[p] : p \in Q} \cup {D}
    OBVIOUS
  <2> HIDE DEF low, high, Y, Z
  <2>2. IsFiniteSet({low[p] : p \in Q}) /\ IsFiniteSet({high[p] : p \in Q})
    BY <1>6, ValuesFinite
  <2>3. QED BY <2>1, <2>2, FS_AddElement
<1>9. \A p \in Q : p.y - r \in Y /\ p.y + r \in Z
  OBVIOUS
<1> HIDE DEF Y, Z
<1>10. Min(Y) \in Y /\ \A y \in Y : Min(Y) <= y
  BY <1>7, <1>8, MinOfFinite
<1>11. Max(Z) \in Z /\ \A y \in Z : Max(Z) >= y
  BY <1>7, <1>8, MaxOfFinite
<1>12. P.r = r /\ P.dots = Q /\ P.minY = Min(Y) /\ P.maxY = Max(Z)
       /\ P = [r |-> P.r, dots |-> P.dots, minY |-> P.minY, maxY |-> P.maxY]
  BY <1>3
<1>13. P.minY \in Int /\ P.maxY \in Int /\ P.maxY >= 0
  BY <1>2, <1>7, <1>10, <1>11, <1>12
<1>14. \A p \in Q : /\ P.minY <= p.y - P.r /\ p.y + P.r <= P.maxY
                    /\ p.x >= P.r /\ p.x + P.r <= g.width
  <2>1. g.width \in Int
    BY DEF IsDrawnOn
  <2>2. SUFFICES ASSUME NEW p \in Q
                 PROVE  /\ P.minY <= p.y - P.r /\ p.y + P.r <= P.maxY
                        /\ p.x >= P.r /\ p.x + P.r <= g.width
    OBVIOUS
  <2>3. Min(Y) <= p.y - r /\ p.y + r <= Max(Z)
    BY <1>7, <1>9, <1>10, <1>11
  <2>4. p.x >= r /\ p.x + r <= g.width
    BY <1>1, <1>4, <1>5, <2>1
  <2>5. QED BY <1>12, <2>3, <2>4
<1>15. Uncrowded(AlongAxis(T, a)) => AllApart(Q, 2 * P.r)
  <2>1. 2 * P.r \in Nat /\ 2 * P.r <= D
    BY <1>1, <1>2, <1>12
  <2>2. QED BY <1>2, <1>4, <2>1, SmallerAllApart
<1>16. P.r \in 20..LargestRadius(g.narrow)
  BY <1>12
<1>17. IsDrawing(P, T, a, g)
  BY <1>4, <1>12, <1>13, <1>14, <1>15, <1>16 DEF IsDrawing
<1>18. QED BY <1>12, <1>17 DEF P

\* A smaller radius is tried only down to 2 px.
LEMMA SmallerRadius ==
  ASSUME NEW r \in Nat, r >= 20
  PROVE  Smaller(r) \in Nat /\ Smaller(r) >= 20 /\ Smaller(r) <= r
<1> DEFINE b == (r * 85) \div 100
           S == {20, b}
<1>1. b \in Nat /\ b <= r
  OBVIOUS
<1>2. Smaller(r) = Max(S)
  BY DEF Smaller, Px
<1> HIDE DEF b
<1>3. IsFiniteSet(S)
  <2> DEFINE least == 20
  <2>1. IsFiniteSet({} \cup {least})
    BY FS_EmptySet, FS_AddElement
  <2>2. IsFiniteSet(({} \cup {least}) \cup {b})
    BY <2>1, FS_AddElement
  <2>3. ({} \cup {least}) \cup {b} = S
    OBVIOUS
  <2>4. QED BY <2>2, <2>3
<1>4. S \subseteq Int /\ 20 \in S /\ b \in S /\ \A y \in S : y = 20 \/ y = b
  BY <1>1
<1> HIDE DEF S
<1>5. Max(S) \in S /\ \A y \in S : Max(S) >= y
  BY <1>3, <1>4, MaxOfFinite
<1>6. (Max(S) = 20 \/ Max(S) = b) /\ Max(S) >= 20
  BY <1>4, <1>5
<1> DEFINE m == Smaller(r)
<1> HIDE DEF m
<1>7. (m = 20 \/ m = b) /\ m >= 20
  BY <1>2, <1>6 DEF m
<1>8. m \in Nat /\ m <= r
  BY <1>1, <1>7
<1>9. QED BY <1>7, <1>8 DEF m

\* A radius less than that of the places.
LEMMA RadiusLess ==
  ASSUME NEW T, NEW a, NEW g, IsDrawnOn(g), NEW P, IsDrawing(P, T, a, g),
         NEW r \in Nat, r >= 20, r <= P.r
  PROVE  IsDrawing([P EXCEPT !.r = r], T, a, g)
<1> DEFINE N == [P EXCEPT !.r = r]
<1>1. P = [r |-> P.r, dots |-> P.dots, minY |-> P.minY, maxY |-> P.maxY]
  BY DEF IsDrawing
<1>2. N.r = r /\ N.dots = P.dots /\ N.minY = P.minY /\ N.maxY = P.maxY
      /\ N = [r |-> N.r, dots |-> N.dots, minY |-> N.minY, maxY |-> N.maxY]
  BY <1>1
<1> HIDE DEF N
<1>3. P.r \in 20..LargestRadius(g.narrow) /\ P.minY \in Int /\ P.maxY \in Int /\ g.width \in Int
      /\ LargestRadius(g.narrow) \in Nat
  BY DEF IsDrawing, IsDrawnOn, LargestRadius
<1>4. \A p \in P.dots : p.x \in Int /\ p.y \in Int
  BY DEF IsDrawing, HavePlaces
<1>5. \A p \in P.dots : /\ N.minY <= p.y - N.r /\ p.y + N.r <= N.maxY
                        /\ p.x >= N.r /\ p.x + N.r <= g.width
  <2>1. \A p \in P.dots : /\ P.minY <= p.y - P.r /\ p.y + P.r <= P.maxY
                          /\ p.x >= P.r /\ p.x + P.r <= g.width
    BY DEF IsDrawing
  <2>2. QED BY <1>2, <1>3, <1>4, <2>1
<1>6. N.r \in 20..LargestRadius(g.narrow)
  BY <1>2, <1>3
<1>7. Uncrowded(AlongAxis(T, a)) => AllApart(P.dots, 2 * N.r)
  <2>1. 2 * N.r \in Nat /\ 2 * P.r \in Nat /\ 2 * N.r <= 2 * P.r
    BY <1>2, <1>3
  <2>2. HavePlaces(P.dots, T) /\ (Uncrowded(AlongAxis(T, a)) => AllApart(P.dots, 2 * P.r))
    BY DEF IsDrawing
  <2>3. QED BY <2>1, <2>2, SmallerAllApart
<1>8. /\ N.maxY >= 0 /\ HavePlaces(N.dots, T)
      /\ \A p \in N.dots : \A d \in T : p.id = d.id =>
           IF IsOffScale(d.value) THEN p.x < a.x0 \/ p.x > a.x1
           ELSE p.x = AtValue(a, d.value) /\ p.x \in a.x0..a.x1
  BY <1>2 DEF IsDrawing
<1>9. N.minY \in Int /\ N.maxY \in Int
  BY <1>2, <1>3
<1>10. IsDrawing(N, T, a, g)
  BY <1>2, <1>5, <1>6, <1>7, <1>8, <1>9 DEF IsDrawing
<1>11. QED BY <1>10 DEF N

\* Whichever radius fits, the drawing is one of placedAt's.
LEMMA FittedFound ==
  ASSUME NEW T, AreMoves(T), NEW g, IsDrawnOn(g), NEW a, IsAxis(a, T, g), NEW room
  PROVE  IsDrawing(Fitted(T, a, g.narrow, room), T, a, g)
<1> DEFINE narrow == g.narrow
           most == LargestRadius(narrow)
           At(r) == PlacedAt(T, a, narrow, r)
           Settled(p) == p.maxY - p.minY <= room \/ p.r <= Px(2)
           Next1(p) == IF Settled(p) THEN p ELSE At(Smaller(p.r))
           Eq(f) == f = [n \in 0..7 |-> IF n = 0 THEN At(most) ELSE Next1(f[n - 1])]
           attempt == CHOOSE f : Eq(f)
           last == attempt[7]
           F == Fitted(T, a, narrow, room)
           S == {At(r) : r \in 20..most}
<1>1. F = IF Settled(last) THEN last ELSE [last EXCEPT !.r = Smaller(@)]
  <2>1. most = IF narrow THEN 56 ELSE Px(7)
    BY DEF LargestRadius, Px
  <2>2. QED BY <2>1 DEF Fitted
<1>2. most \in 20..70
  BY DEF LargestRadius
<1> HIDE DEF most, F
<1>3. \A r \in 20..most : IsDrawing(At(r), T, a, g) /\ At(r).r = r
  BY PlacedAtFound DEF most
<1>4. \A r \in 20..most : Smaller(r) \in 20..most /\ Smaller(r) \in Nat /\ Smaller(r) <= r
  BY <1>2, SmallerRadius
<1> HIDE DEF At, Settled
<1>5. \A p \in S : Next1(p) \in S
  <2>1. SUFFICES ASSUME NEW r \in 20..most PROVE Next1(At(r)) \in S
    OBVIOUS
  <2>2. At(r).r = r /\ Smaller(r) \in 20..most
    BY <1>3, <1>4
  <2>3. CASE Settled(At(r))
    BY <2>3
  <2>4. CASE ~Settled(At(r))
    BY <2>2, <2>4
  <2>5. QED BY <2>3, <2>4
<1>6. At(most) \in S
  BY <1>2
<1>7. \A p \in S : IsDrawing(p, T, a, g) /\ p.r \in 20..most
  BY <1>3
<1> HIDE DEF S, Next1
<1>8. \E f : Eq(f)
  <2> DEFINE n == 7
             step == [i \in 1..n |-> [p \in S |-> Next1(p)]]
  <2>1. step \in StepsIn(n, S) /\ n \in Nat
    BY <1>5 DEF StepsIn
  <2>2. n = 7
    OBVIOUS
  <2> HIDE DEF step, n
  <2>3. PICK f : IsIteration(f, n, S, At(most), step)
    BY <1>6, <2>1, Iterates
  <2>4. f \in [0..n -> S] /\ f[0] = At(most) /\ \A i \in 1..n : f[i] = step[i][f[i - 1]]
    BY <2>3 DEF IsIteration
  <2>5. ASSUME NEW i \in 0..n PROVE f[i] = IF i = 0 THEN At(most) ELSE Next1(f[i - 1])
    <3>1. CASE i = 0
      BY <2>4, <3>1
    <3>2. CASE i # 0
      <4>1. i \in 1..n /\ i - 1 \in 0..n
        BY <2>1, <3>2
      <4>2. f[i] = step[i][f[i - 1]] /\ f[i - 1] \in S
        BY <2>4, <4>1
      <4>3. QED BY <3>2, <4>1, <4>2 DEF step
    <3>3. QED BY <3>1, <3>2
  <2>6. f = [i \in 0..n |-> IF i = 0 THEN At(most) ELSE Next1(f[i - 1])]
    BY <2>4, <2>5
  <2>7. QED BY <2>2, <2>6
<1>9. Eq(attempt)
  BY <1>8
<1>10. last \in S
  <2> DEFINE n == 7
             I == {i \in 0..n : attempt[i] \in S}
  <2>1. attempt = [i \in 0..n |-> IF i = 0 THEN At(most) ELSE Next1(attempt[i - 1])] /\ n \in Nat
    BY <1>9
  <2>2. last = attempt[n]
    OBVIOUS
  <2> HIDE DEF attempt, n, last
  <2>3. 0 \in I
    BY <1>6, <2>1
  <2>4. ASSUME NEW i \in 1..n, i - 1 \in I PROVE i \in I
    <3>1. i \in 0..n /\ i # 0
      BY <2>1
    <3>2. attempt[i] = Next1(attempt[i - 1])
      BY <2>1, <3>1
    <3>3. QED BY <1>5, <2>4, <3>1, <3>2
  <2> HIDE DEF I
  <2>5. 0..n \subseteq I
    BY <2>1, <2>3, <2>4, Upto
  <2>6. n \in 0..n
    BY <2>1
  <2>7. QED BY <2>2, <2>5, <2>6 DEF I
<1> HIDE DEF last
<1>11. IsDrawing(last, T, a, g) /\ last.r \in 20..most
  BY <1>7, <1>10
<1>12. CASE Settled(last)
  BY <1>1, <1>11, <1>12 DEF F
<1>13. CASE ~Settled(last)
  <2>1. Smaller(last.r) \in Nat /\ Smaller(last.r) >= 20 /\ Smaller(last.r) <= last.r
    <3>1. last.r \in Nat /\ last.r >= 20
      BY <1>2, <1>11
    <3>2. QED BY <3>1, SmallerRadius
  <2> DEFINE s == Smaller(last.r)
  <2>2. F = [last EXCEPT !.r = s]
    BY <1>1, <1>13
  <2> HIDE DEF s
  <2>3. IsDrawing([last EXCEPT !.r = s], T, a, g)
    BY <1>11, <2>1, RadiusLess DEF s
  <2>4. QED BY <2>2, <2>3 DEF F
<1>14. QED BY <1>12, <1>13

\* Rounding to a pixel moves a tenth of one by half a pixel at most.
LEMMA RoundPxNear ==
  ASSUME NEW n \in Int
  PROVE  RoundPx(n) \in Int /\ RoundPx(n) >= n - 4 /\ RoundPx(n) <= n + 5
BY DEF RoundPx

MovedBy(Q, h) == {[p EXCEPT !.y = @ + h] : p \in Q}

\* Dots moved together keep apart.
LEMMA PlacesMoved ==
  ASSUME NEW Q, NEW T, HavePlaces(Q, T), NEW h \in Int
  PROVE  /\ HavePlaces(MovedBy(Q, h), T)
         /\ \A n \in MovedBy(Q, h) : \E p \in Q : n.id = p.id /\ n.x = p.x /\ n.y = p.y + h
         /\ \A D : AllApart(Q, D) => AllApart(MovedBy(Q, h), D)
<1> DEFINE up(p) == [p EXCEPT !.y = @ + h]
           N == {up(p) : p \in Q}
<1>1. \A p \in Q : /\ up(p) \in PlaceRecords /\ up(p).id = p.id /\ up(p).x = p.x /\ up(p).y = p.y + h
                   /\ p.id \in Int /\ p.x \in Int /\ p.y \in Int
  BY DEF HavePlaces, PlaceRecords
<1>2. \A n \in N : \E p \in Q : n = up(p)
  OBVIOUS
<1>3. \A p \in Q : up(p) \in N
  OBVIOUS
<1> HIDE DEF up, N
<1>4. \A n \in N : n \in PlaceRecords /\ n.id \in Int /\ n.x \in Int /\ n.y \in Int /\ \E d \in T : n.id = d.id
  <2>1. SUFFICES ASSUME NEW p \in Q
                 PROVE  /\ up(p) \in PlaceRecords /\ up(p).id \in Int /\ up(p).x \in Int /\ up(p).y \in Int
                        /\ \E d \in T : up(p).id = d.id
    BY <1>2
  <2>2. \E d \in T : p.id = d.id
    BY DEF HavePlaces
  <2>3. QED BY <1>1, <2>2
<1>5. \A d \in T : \E n \in N : n.id = d.id
  <2>1. \A d \in T : \E p \in Q : p.id = d.id
    BY DEF HavePlaces
  <2>2. QED BY <1>1, <1>3, <2>1
<1>6. \A p, q \in Q : p.id = q.id => p = q
  BY DEF HavePlaces
<1>7. \A m, n \in N : m.id = n.id => m = n
  BY <1>1, <1>2, <1>6
<1>8. \A m, n \in N : \A d, e \in T : m.id = d.id /\ n.id = e.id /\ d.value < e.value => m.x <= n.x
  <2>1. \A p, q \in Q : \A d, e \in T : p.id = d.id /\ q.id = e.id /\ d.value < e.value => p.x <= q.x
    BY DEF HavePlaces
  <2>2. QED BY <1>1, <1>2, <2>1
<1>9. HavePlaces(N, T)
  BY <1>4, <1>5, <1>7, <1>8 DEF HavePlaces
<1>10. ASSUME NEW D, AllApart(Q, D) PROVE AllApart(N, D)
  <2>1. SUFFICES ASSUME NEW p \in Q, NEW q \in Q, p.id # q.id PROVE FarApart(up(p), up(q), D)
    BY <1>1, <1>2 DEF AllApart
  <2>2. FarApart(p, q, D)
    BY <1>10, <2>1 DEF AllApart
  <2>3. (p.y + h) - (q.y + h) = p.y - q.y
    BY <1>1
  <2>4. QED BY <1>1, <2>2, <2>3 DEF FarApart
<1>11. \A n \in N : \E p \in Q : n.id = p.id /\ n.x = p.x /\ n.y = p.y + h
  BY <1>1, <1>2
<1>12. MovedBy(Q, h) = N
  BY DEF MovedBy, N, up
<1>13. QED BY <1>9, <1>10, <1>11, <1>12

\* The swarm at its height: in the middle of the stage, or from top down.
IsSwarm(w, T, a, g, top) ==
  /\ w.r \in 20..70 /\ w.minY \in Int /\ w.maxY \in Int
  /\ w.x0 = a.x0 /\ w.x1 = a.x1 /\ w.cap = a.cap /\ w.right = a.right /\ w.left = a.left
  /\ HavePlaces(w.positions, T)
  /\ \A p \in w.positions : /\ w.minY <= p.y - w.r /\ p.y + w.r <= w.maxY
                            /\ p.x >= w.r /\ p.x + w.r <= g.width
  /\ \A p \in w.positions : \A d \in T : p.id = d.id =>
       IF IsOffScale(d.value) THEN p.x < a.x0 \/ p.x > a.x1
       ELSE p.x = AtValue(a, d.value) /\ p.x \in a.x0..a.x1
  /\ Uncrowded(AlongAxis(T, a)) => AllApart(w.positions, 2 * w.r)
  /\ IF top = None THEN w.maxY >= g.height \div 2 - 4 ELSE w.minY >= top - 4

\* The swarm moved to its height is still a drawing of the same dots.
LEMMA SwarmMoved ==
  ASSUME NEW T, NEW g, IsDrawnOn(g), NEW a, NEW P, IsDrawing(P, T, a, g), NEW top, top # None => top \in Int
  PROVE  IsSwarm(Moved(P, a, g, top), T, a, g, top)
<1> DEFINE h == IF top = None THEN g.height \div 2 ELSE top - P.minY
           cy == RoundPx(h)
           N == {[p EXCEPT !.y = @ + cy] : p \in P.dots}
           w == Moved(P, a, g, top)
<1>1. /\ w.r = P.r /\ w.minY = P.minY + cy /\ w.maxY = P.maxY + cy /\ w.positions = N
      /\ w.x0 = a.x0 /\ w.x1 = a.x1 /\ w.cap = a.cap /\ w.right = a.right /\ w.left = a.left
  BY DEF Moved
<1> HIDE DEF w
<1>2. /\ P.minY \in Int /\ P.maxY \in Int /\ P.maxY >= 0 /\ P.r \in 20..70
      /\ HavePlaces(P.dots, T) /\ g.height \in Nat
      /\ P.r \in Int
  BY DEF IsDrawing, IsDrawnOn, LargestRadius
<1>3. h \in Int
  BY <1>2
<1>4. cy \in Int /\ cy >= h - 4
  BY <1>3, RoundPxNear
<1>5. IF top = None THEN w.maxY >= g.height \div 2 - 4 ELSE w.minY >= top - 4
  <2>1. CASE top = None
    <3>1. h = g.height \div 2 /\ g.height \div 2 \in Int
      BY <1>2, <2>1
    <3> HIDE DEF h, cy
    <3>2. QED BY <1>1, <1>2, <1>4, <2>1, <3>1
  <2>2. CASE top # None
    <3>1. h = top - P.minY /\ top \in Int
      BY <2>2
    <3> HIDE DEF h, cy
    <3>2. QED BY <1>1, <1>2, <1>4, <2>2, <3>1
  <2>3. QED BY <2>1, <2>2
<1> HIDE DEF h, cy
<1>6. /\ HavePlaces(N, T) /\ \A n \in N : \E p \in P.dots : n.id = p.id /\ n.x = p.x /\ n.y = p.y + cy
      /\ \A D : AllApart(P.dots, D) => AllApart(N, D)
  <2>1. N = MovedBy(P.dots, cy)
    BY DEF N, MovedBy
  <2>2. HavePlaces(P.dots, T) /\ cy \in Int
    BY <1>2, <1>4
  <2>3. HavePlaces(MovedBy(P.dots, cy), T)
    BY <2>2, PlacesMoved
  <2>4. \A n \in MovedBy(P.dots, cy) : \E p \in P.dots : n.id = p.id /\ n.x = p.x /\ n.y = p.y + cy
    BY <2>2, PlacesMoved
  <2>5. \A D : AllApart(P.dots, D) => AllApart(MovedBy(P.dots, cy), D)
    BY <2>2, PlacesMoved
  <2>6. QED BY <2>1, <2>3, <2>4, <2>5
<1> HIDE DEF N
<1>7. \A n \in N : /\ w.minY <= n.y - w.r /\ n.y + w.r <= w.maxY
                   /\ n.x >= w.r /\ n.x + w.r <= g.width
  <2>1. SUFFICES ASSUME NEW n \in N
                 PROVE  /\ w.minY <= n.y - w.r /\ n.y + w.r <= w.maxY
                        /\ n.x >= w.r /\ n.x + w.r <= g.width
    OBVIOUS
  <2>2. PICK p \in P.dots : n.id = p.id /\ n.x = p.x /\ n.y = p.y + cy
    BY <1>6
  <2>3. /\ P.minY <= p.y - P.r /\ p.y + P.r <= P.maxY
        /\ p.x >= P.r /\ p.x + P.r <= g.width /\ p.y \in Int
    BY DEF IsDrawing, HavePlaces
  <2>4. QED BY <1>1, <1>2, <1>4, <2>2, <2>3
<1>8. \A n \in N : \A d \in T : n.id = d.id =>
        IF IsOffScale(d.value) THEN n.x < a.x0 \/ n.x > a.x1
        ELSE n.x = AtValue(a, d.value) /\ n.x \in a.x0..a.x1
  <2>1. SUFFICES ASSUME NEW n \in N, NEW d \in T, n.id = d.id
                 PROVE  IF IsOffScale(d.value) THEN n.x < a.x0 \/ n.x > a.x1
                        ELSE n.x = AtValue(a, d.value) /\ n.x \in a.x0..a.x1
    OBVIOUS
  <2>2. PICK p \in P.dots : n.id = p.id /\ n.x = p.x
    BY <1>6
  <2>3. IF IsOffScale(d.value) THEN p.x < a.x0 \/ p.x > a.x1
        ELSE p.x = AtValue(a, d.value) /\ p.x \in a.x0..a.x1
    BY <2>1, <2>2 DEF IsDrawing
  <2>4. QED BY <2>2, <2>3
<1>9. Uncrowded(AlongAxis(T, a)) => AllApart(N, 2 * w.r)
  BY <1>1, <1>6 DEF IsDrawing
<1>10. w.r \in 20..70 /\ w.minY \in Int /\ w.maxY \in Int
  BY <1>1, <1>2, <1>4
<1>11. IsSwarm(w, T, a, g, top)
  BY <1>1, <1>5, <1>6, <1>7, <1>8, <1>9, <1>10 DEF IsSwarm
<1>12. QED BY <1>11 DEF w

\* layoutSwarm draws every dot, wherever the chart is to begin.
LEMMA SwarmPlaced ==
  ASSUME NEW T, AreMoves(T), NEW g, IsDrawnOn(g), ZonesFit(T, g), NEW top, top # None => top \in Int, NEW bottom
  PROVE  IsSwarm(LayoutSwarm(T, g, top, bottom), T, AxisOf(T, g), g, top)
<1> DEFINE a == AxisOf(T, g)
           room == IF top = None THEN (g.height * 36) \div 100 ELSE Max({Px(40), g.height - top - bottom})
           F == Fitted(T, a, g.narrow, room)
<1>1. IsAxis(a, T, g)
  BY AxisFound
<1>2. LayoutSwarm(T, g, top, bottom) = Moved(F, a, g, top)
  BY DEF LayoutSwarm, SwarmOn
<1> HIDE DEF a, room
<1>3. IsDrawing(F, T, a, g)
  BY <1>1, FittedFound
<1> HIDE DEF F
<1>4. IsSwarm(Moved(F, a, g, top), T, a, g, top)
  BY <1>3, SwarmMoved
<1>5. QED BY <1>2, <1>4 DEF a

---------------------------------------------------------------------------
(* The rows of the chart's texts                                           *)

\* The number of a text's characters.
LEMMA CharsType ==
  ASSUME NEW text \in Seq(Word)
  PROVE  Chars(text) \in Int
<1> DEFINE n == Len(text)
           Eq(f) == f = [i \in 0..n |-> IF i = 0 THEN n - 1 ELSE f[i - 1] + text[i].chars]
           sum == CHOOSE f : Eq(f)
<1>1. Chars(text) = sum[n]
  BY DEF Chars
<1>2. n \in Nat /\ \A i \in 1..n : text[i].chars \in Int
  <2>1. n \in Nat /\ \A i \in 1..n : text[i] \in Word
    OBVIOUS
  <2> HIDE DEF n
  <2>2. QED BY <2>1 DEF Word
<1>3. \E f : Eq(f)
  <2> DEFINE step == [i \in 1..n |-> [k \in Int |-> k + text[i].chars]]
  <2>1. step \in StepsIn(n, Int) /\ n - 1 \in Int
    BY <1>2 DEF StepsIn
  <2> HIDE DEF n, step
  <2>2. PICK f : IsIteration(f, n, Int, n - 1, step)
    BY <1>2, <2>1, Iterates
  <2>3. ASSUME NEW i \in 0..n PROVE f[i] = IF i = 0 THEN n - 1 ELSE f[i - 1] + text[i].chars
    <3>1. CASE i = 0
      BY <2>2, <3>1 DEF IsIteration
    <3>2. CASE i # 0
      <4>1. i \in 1..n /\ i - 1 \in 0..n
        BY <1>2, <3>2
      <4>2. f[i] = step[i][f[i - 1]] /\ f[i - 1] \in Int
        BY <2>2, <4>1 DEF IsIteration
      <4>3. QED BY <3>2, <4>1, <4>2 DEF step
    <3>3. QED BY <3>1, <3>2
  <2>4. f \in [0..n -> Int]
    BY <2>2 DEF IsIteration
  <2>5. Eq(f)
    BY <2>3, <2>4
  <2>6. QED BY <2>5
<1>4. Eq(sum)
  BY <1>3
<1> HIDE DEF sum, n
<1> DEFINE S == {i \in 0..n : sum[i] \in Int}
<1>5. 0 \in S
  BY <1>2, <1>4
<1>6. ASSUME NEW i \in 1..n, i - 1 \in S PROVE i \in S
  <2>1. i \in 0..n /\ i # 0
    BY <1>2
  <2>2. sum[i] = sum[i - 1] + text[i].chars
    BY <1>4, <2>1
  <2>3. QED BY <1>2, <1>6, <2>1, <2>2
<1> HIDE DEF S
<1>7. 0..n \subseteq S
  BY <1>2, <1>5, <1>6, Upto
<1>8. n \in S
  BY <1>2, <1>7
<1>9. QED BY <1>1, <1>8 DEF S

\* A text's width is a whole number.
LEMMA MeasureType ==
  ASSUME NEW text \in Seq(Word), NEW px \in Int, NEW bold
  PROVE  Measure(text, px, bold) \in Int
<1> DEFINE c == Chars(text)
<1>1. c \in Int
  BY CharsType
<1>2. c * px \in Int
  <2> HIDE DEF c
  <2>1. QED BY <1>1
<1> DEFINE a == c * px
<1>3. Measure(text, px, bold) = IF bold THEN a * 6 ELSE (a * 11) \div 2
  BY DEF Measure
<1> HIDE DEF a
<1>4. a \in Int
  BY <1>2 DEF a
<1>5. a * 6 \in Int /\ (a * 11) \div 2 \in Int
  BY <1>4
<1>6. QED BY <1>3, <1>5

\* Wrapped text is a list of lines, of one at least unless there are no words.
LEMMA WrapType ==
  ASSUME NEW A, NEW text \in Seq(A), NEW max, NEW px, NEW bold
  PROVE  /\ WrapText(text, max, px, bold) \in Seq(Seq(A))
         /\ text # <<>> => WrapText(text, max, px, bold) # <<>>
<1> DEFINE n == Len(text)
           S == Seq(Seq(A))
           Add(lines, w) == AddWord(lines, w, max, px, bold)
           Eq(f) == f = [i \in 0..n |-> IF i = 0 THEN <<>> ELSE Add(f[i - 1], text[i])]
           lines == CHOOSE f : Eq(f)
<1>1. WrapText(text, max, px, bold) = lines[n]
  BY DEF WrapText
<1>2. n \in Nat /\ (\A i \in 1..n : text[i] \in A) /\ (text # <<>> => n # 0)
  OBVIOUS
<1>3. ASSUME NEW s \in S, NEW w \in A PROVE Add(s, w) \in S /\ Add(s, w) # <<>>
  <2> DEFINE long == Measure(Append(Last(s), w), px, bold) > max
  <2>1. Add(s, w) = IF s = <<>> \/ long THEN Append(s, <<w>>) ELSE [s EXCEPT ![Len(s)] = Append(@, w)]
    BY DEF AddWord
  <2> HIDE DEF long, Add
  <2>2. CASE s = <<>> \/ long
    <3> DEFINE t == Append(s, <<w>>)
    <3>1. t \in S /\ Len(t) # 0
      OBVIOUS
    <3> HIDE DEF t
    <3>2. t # <<>>
      BY <3>1
    <3>3. QED BY <2>1, <2>2, <3>1, <3>2 DEF t
  <2>3. CASE ~(s = <<>> \/ long)
    <3>1. Len(s) \in 1..Len(s) /\ s[Len(s)] \in Seq(A)
      BY <2>3
    <3>2. Append(s[Len(s)], w) \in Seq(A)
      BY <3>1
    <3>3. Add(s, w) = [s EXCEPT ![Len(s)] = Append(s[Len(s)], w)]
      BY <2>1, <2>3
    <3>4. Add(s, w) \in S /\ Len(Add(s, w)) = Len(s)
      BY <3>1, <3>2, <3>3
    <3>5. QED BY <2>3, <3>1, <3>4
  <2>4. QED BY <2>2, <2>3
<1> HIDE DEF Add
<1>4. <<>> \in S
  OBVIOUS
<1> HIDE DEF n, S
<1>5. \E f : Eq(f)
  <2> DEFINE step == [i \in 1..n |-> [s \in S |-> Add(s, text[i])]]
  <2>1. step \in StepsIn(n, S)
    BY <1>2, <1>3 DEF StepsIn
  <2> HIDE DEF step
  <2>2. PICK f : IsIteration(f, n, S, <<>>, step)
    BY <1>2, <1>4, <2>1, Iterates
  <2>3. f \in [0..n -> S] /\ f[0] = <<>> /\ \A i \in 1..n : f[i] = step[i][f[i - 1]]
    BY <2>2 DEF IsIteration
  <2>4. ASSUME NEW i \in 0..n PROVE f[i] = IF i = 0 THEN <<>> ELSE Add(f[i - 1], text[i])
    <3>1. CASE i = 0
      BY <2>3, <3>1
    <3>2. CASE i # 0
      <4>1. i \in 1..n /\ i - 1 \in 0..n
        BY <1>2, <3>2
      <4>2. f[i] = step[i][f[i - 1]] /\ f[i - 1] \in S
        BY <2>3, <4>1
      <4>3. QED BY <3>2, <4>1, <4>2 DEF step
    <3>3. QED BY <3>1, <3>2
  <2>5. Eq(f)
    BY <2>3, <2>4
  <2>6. QED BY <2>5
<1>6. Eq(lines)
  BY <1>5
<1> HIDE DEF lines
<1> DEFINE I == {i \in 0..n : lines[i] \in S /\ (i # 0 => lines[i] # <<>>)}
<1>7. 0 \in I
  BY <1>2, <1>4, <1>6
<1>8. ASSUME NEW i \in 1..n, i - 1 \in I PROVE i \in I
  <2>1. i \in 0..n /\ i # 0
    BY <1>2
  <2>2. lines[i] = Add(lines[i - 1], text[i])
    BY <1>6, <2>1
  <2>3. QED BY <1>2, <1>3, <1>8, <2>1, <2>2
<1> HIDE DEF I
<1>9. 0..n \subseteq I
  BY <1>2, <1>7, <1>8, Upto
<1>10. n \in I
  BY <1>2, <1>9
<1>11. QED BY <1>1, <1>2, <1>10 DEF I, S

\* So is text wrapped evenly.
LEMMA BalancedType ==
  ASSUME NEW A, NEW text \in Seq(A), NEW max, NEW px, NEW bold
  PROVE  /\ BalancedWrap(text, max, px, bold) \in Seq(Seq(A))
         /\ text # <<>> => BalancedWrap(text, max, px, bold) # <<>>
BY WrapType DEF BalancedWrap, Balanced

\* A label's texts: its name, its price or none, and its percentage.
IsNamed(label) ==
  /\ label.words \in Seq(Word) /\ label.lead \in 0..Len(label.words)
  /\ label.price \in Seq(Word) /\ label.percent \in Seq(Word)

\* And a product's name.
LEMMA NameType ==
  ASSUME NEW label, IsNamed(label), NEW max, NEW px
  PROVE  RowsOfName(label, max, px) \in Seq(Seq(Word))
<1> DEFINE words == label.words
           lead == label.lead
           n == Len(words)
           full == BalancedWrap(words, max, px, TRUE)
           short(i) == SubSeq(words, 1, lead) \o <<W(1)>> \o SubSeq(words, i, n)
           Cut(i) == BalancedWrap(short(i), max, px, TRUE)
           cuts == {i \in (lead + 2)..n : ~words[i].joins /\ Len(Cut(i)) <= NameRows}
<1>1. RowsOfName(label, max, px) = IF Len(full) <= NameRows \/ cuts = {} THEN full ELSE Cut(Min(cuts))
  BY DEF RowsOfName
<1>2. words \in Seq(Word) /\ n \in Nat /\ lead \in 0..n
  BY DEF IsNamed
<1>3. full \in Seq(Seq(Word))
  BY <1>2, BalancedType
<1>4. \A i \in (lead + 2)..n : Cut(i) \in Seq(Seq(Word))
  <2>1. SUFFICES ASSUME NEW i \in (lead + 2)..n PROVE Cut(i) \in Seq(Seq(Word))
    OBVIOUS
  <2>2. SubSeq(words, 1, lead) \in Seq(Word)
    BY <1>2
  <2>3. i \in 1..n
    BY <1>2
  <2>4. SubSeq(words, i, n) \in Seq(Word)
    BY <1>2, <2>3
  <2>5. <<W(1)>> \in Seq(Word)
    BY DEF W, Word
  <2> HIDE DEF words, lead, n
  <2>6. short(i) \in Seq(Word)
    BY <2>2, <2>4, <2>5
  <2> HIDE DEF short
  <2>7. QED BY <2>6, BalancedType
<1> HIDE DEF full, Cut
<1>5. cuts \subseteq Int /\ cuts \subseteq (lead + 2)..n /\ IsFiniteSet(cuts)
  <2>1. cuts \subseteq (lead + 2)..n /\ (lead + 2)..n \subseteq Int /\ lead + 2 \in Int /\ n \in Int
    BY <1>2
  <2> HIDE DEF cuts, lead, n
  <2>2. IsFiniteSet((lead + 2)..n)
    BY <2>1, FS_Interval
  <2>3. QED BY <2>1, <2>2, FS_Subset
<1> HIDE DEF cuts
<1>6. cuts # {} => Min(cuts) \in cuts
  BY <1>5, MinOfFinite
<1>7. QED BY <1>1, <1>3, <1>4, <1>5, <1>6

RowRecords == [text : Seq(Word), bold : BOOLEAN]
AreRows(rows) == rows \in Seq(RowRecords) /\ rows # <<>>

\* The lines of a text as rows.
LEMMA RowsListed ==
  ASSUME NEW lines \in Seq(Seq(Word)), NEW bold \in BOOLEAN
  PROVE  AsRows(lines, bold) \in Seq(RowRecords) /\ (lines # <<>> => AsRows(lines, bold) # <<>>)
<1> DEFINE n == Len(lines)
           rows == AsRows(lines, bold)
<1>1. n \in Nat /\ rows = [i \in 1..n |-> Row(lines[i], bold)] /\ \A i \in 1..n : lines[i] \in Seq(Word)
  BY DEF AsRows
<1>2. \A i \in 1..n : Row(lines[i], bold) \in RowRecords
  BY <1>1 DEF Row, RowRecords
<1>3. lines # <<>> => n # 0
  OBVIOUS
<1> HIDE DEF n, rows
<1>4. rows \in [1..n -> RowRecords]
  BY <1>1, <1>2
<1>5. rows \in Seq(RowRecords) /\ Len(rows) = n
  BY <1>1, <1>4, ListType
<1>6. QED BY <1>3, <1>5 DEF rows

\* Rows below others.
LEMMA RowsJoined ==
  ASSUME NEW s \in Seq(RowRecords), NEW t \in Seq(RowRecords), s # <<>> \/ t # <<>>
  PROVE  AreRows(s \o t)
<1>1. s \o t \in Seq(RowRecords) /\ Len(s \o t) = Len(s) + Len(t) /\ Len(s) \in Nat /\ Len(t) \in Nat
  OBVIOUS
<1>2. (s # <<>> => Len(s) # 0) /\ (t # <<>> => Len(t) # 0)
  OBVIOUS
<1>3. Len(s \o t) # 0
  BY <1>1, <1>2
<1>4. s \o t # <<>>
  BY <1>3
<1>5. QED BY <1>1, <1>4 DEF AreRows

\* The widest of some rows has a width.
LEMMA RowsWidthType ==
  ASSUME NEW rows, AreRows(rows), NEW px \in Int
  PROVE  RowsWidth(rows, px) \in Int
<1> DEFINE n == Len(rows)
           f == [i \in 1..n |-> Measure(rows[i].text, px, rows[i].bold)]
           V == {f[i] : i \in 1..n}
<1>1. n \in Nat /\ n # 0 /\ DOMAIN rows = 1..n
  BY DEF AreRows
<1>2. RowsWidth(rows, px) = Max(V)
  <2>1. V = {Measure(rows[i].text, px, rows[i].bold) : i \in DOMAIN rows}
    BY <1>1
  <2>2. QED BY <2>1 DEF RowsWidth
<1>3. \A i \in 1..n : f[i] \in Int
  <2>1. SUFFICES ASSUME NEW i \in 1..n PROVE Measure(rows[i].text, px, rows[i].bold) \in Int
    OBVIOUS
  <2>2. rows[i] \in RowRecords
    BY DEF AreRows
  <2>3. rows[i].text \in Seq(Word)
    BY <2>2 DEF RowRecords
  <2>4. QED BY <2>3, MeasureType
<1> HIDE DEF n, f
<1>4. IsFiniteSet(V)
  <2>1. IsFiniteSet(1..n)
    BY <1>1, FS_Interval
  <2>2. QED BY <2>1, ValuesFinite
<1>5. V \subseteq Int /\ V # {}
  <2>1. 1 \in 1..n
    BY <1>1
  <2>2. QED BY <1>3, <2>1
<1> HIDE DEF V
<1>6. Max(V) \in V
  BY <1>4, <1>5, MaxOfFinite
<1>7. QED BY <1>2, <1>5, <1>6

\* A row of words.
LEMMA OneRow ==
  ASSUME NEW text \in Seq(Word)
  PROVE  Row(text, FALSE) \in RowRecords
BY DEF Row, RowRecords

\* An annotation has rows of words, one at least.
LEMMA LabelRows ==
  ASSUME NEW label, IsNamed(label), NEW narrow, NEW max, NEW px
  PROVE  AreRows(AnnotationRows(label, narrow, max, px))
<1> DEFINE name == AsRows(RowsOfName(label, max, px), TRUE)
           k == Len(label.price)
           said == Front(label.price) \o <<W(Last(label.price).chars + 1)>> \o label.percent
           last == IF label.price = <<>> THEN <<Row(label.percent, FALSE)>>
                   ELSE IF narrow THEN <<Row(label.price, FALSE), Row(label.percent, FALSE)>>
                   ELSE <<Row(said, FALSE)>>
<1>1. AnnotationRows(label, narrow, max, px) = name \o last
  BY DEF AnnotationRows
<1>2. name \in Seq(RowRecords)
  BY NameType, RowsListed
<1>3. label.price \in Seq(Word) /\ label.percent \in Seq(Word)
  BY DEF IsNamed
<1>4. label.price # <<>> => said \in Seq(Word)
  <2>1. SUFFICES ASSUME label.price # <<>> PROVE said \in Seq(Word)
    OBVIOUS
  <2> DEFINE s == label.price
             front == Front(s)
             comma == <<W(Last(s).chars + 1)>>
             percent == label.percent
  <2>2. s \in Seq(Word) /\ k \in Nat /\ k >= 1
    BY <1>3, <2>1
  <2>3. front \in Seq(Word)
    <3>1. front = SubSeq(s, 1, k - 1)
      BY DEF Front
    <3>2. SubSeq(s, 1, k - 1) \in Seq(Word)
      BY <2>2
    <3>3. QED BY <3>1, <3>2
  <2>4. comma \in Seq(Word)
    <3>1. s[k] \in Word
      BY <2>2
    <3>2. s[k].chars + 1 \in Nat
      BY <3>1 DEF Word
    <3>3. W(s[k].chars + 1) \in Word
      BY <3>2 DEF W, Word
    <3>4. comma = <<W(s[k].chars + 1)>>
      BY DEF Last
    <3>5. QED BY <3>3, <3>4
  <2>5. said = front \o comma \o percent
    OBVIOUS
  <2> HIDE DEF front, comma, said, percent
  <2>6. front \o comma \in Seq(Word)
    BY <2>3, <2>4
  <2>7. percent \in Seq(Word)
    BY <1>3 DEF percent
  <2>8. QED BY <2>5, <2>6, <2>7
<1> HIDE DEF said
<1>5. last \in Seq(RowRecords) /\ last # <<>>
  <2>1. /\ Row(label.percent, FALSE) \in RowRecords /\ Row(label.price, FALSE) \in RowRecords
        /\ label.price # <<>> => Row(said, FALSE) \in RowRecords
    BY <1>3, <1>4, OneRow
  <2>2. /\ \A a \in RowRecords : <<a>> \in Seq(RowRecords) /\ <<a>> # <<>>
        /\ \A a, b \in RowRecords : <<a, b>> \in Seq(RowRecords) /\ <<a, b>> # <<>>
    OBVIOUS
  <2>3. QED BY <2>1, <2>2
<1> HIDE DEF name, last
<1>6. AreRows(name \o last)
  BY <1>2, <1>5, RowsJoined
<1>7. QED BY <1>1, <1>6

\* The words a sentence is made of.
LEMMA WordsType ==
  ASSUME NEW lengths \in Seq(Nat)
  PROVE  Words(lengths) \in Seq(Word) /\ (lengths # <<>> => Words(lengths) # <<>>)
<1> DEFINE n == Len(lengths)
           f == Words(lengths)
<1>1. /\ n \in Nat /\ f = [i \in 1..n |-> W(lengths[i])] /\ (lengths # <<>> => n # 0)
      /\ \A i \in 1..n : lengths[i] \in Nat
  BY DEF Words
<1>2. \A i \in 1..n : W(lengths[i]) \in Word
  BY <1>1 DEF W, Word
<1> HIDE DEF n, f
<1>3. f \in [1..n -> Word]
  BY <1>1, <1>2
<1>4. f \in Seq(Word) /\ Len(f) = n
  BY <1>1, <1>3, ListType
<1>5. lengths # <<>> => f # <<>>
  BY <1>1, <1>4
<1>6. QED BY <1>4, <1>5 DEF f

---------------------------------------------------------------------------
(* Where the chart's texts stand                                           *)

\* Boxes with sides.
AreBoxes(S) ==
  IsFiniteSet(S) /\ \A b \in S : b.x0 \in Int /\ b.x1 \in Int /\ b.top \in Int /\ b.bottom \in Int

AreSizes(m) ==
  /\ m.px \in {12, 13} /\ m.width \in Int /\ m.gap \in Int
  /\ m.rowH \in Int /\ m.ascent \in Int /\ m.descent \in Int /\ m.leaderGap \in Nat
  /\ m.zero \in Int /\ m.zero >= 80 /\ m.axis \in Int /\ m.axis >= 120 /\ m.bottom \in Int

\* The sizes of the chart's texts are whole numbers.
LEMMA SizesType ==
  ASSUME NEW g, IsDrawnOn(g)
  PROVE  AreSizes(SizesOn(g)) /\ SizesOn(g).width = g.width
<1> DEFINE m == SizesOn(g)
<1>1. /\ m.rowH = IF g.narrow THEN 140 ELSE 160
      /\ m.ascent = RoundPx((m.px * 74) \div 10) /\ m.descent = RoundPx((m.px * 22) \div 10)
      /\ m.leaderGap = IF g.narrow THEN 60 ELSE 90
      /\ m.gap = IF g.narrow THEN 40 ELSE 60
      /\ m.zero = IF g.narrow THEN 80 ELSE 140
      /\ m.bottom = m.axis + m.caption + RoundPx(3 * m.px) + 40
      /\ m.px = IF g.narrow THEN 12 ELSE 13
      /\ m.width = g.width
  BY DEF SizesOn, Px
<1>2. /\ m.axis = CASE g.narrow -> 120 [] ~g.narrow /\ g.compact -> 180 [] OTHER -> 260
      /\ m.caption = CASE g.narrow -> 340 [] ~g.narrow /\ g.compact -> 400 [] OTHER -> 460
  BY DEF SizesOn, Px
<1> HIDE DEF m
<1>3. m.axis \in Int /\ m.axis >= 120 /\ m.caption \in Int
  <2>1. CASE g.narrow
    BY <1>2, <2>1
  <2>2. CASE ~g.narrow /\ g.compact
    BY <1>2, <2>2
  <2>3. CASE ~g.narrow /\ ~g.compact
    BY <1>2, <2>3
  <2>4. QED BY <2>1, <2>2, <2>3
<1>4. m.px \in {12, 13} /\ m.ascent \in Int /\ m.descent \in Int /\ RoundPx(3 * m.px) \in Int
  <2>1. m.px \in {12, 13}
    BY <1>1
  <2>2. (m.px * 74) \div 10 \in Int /\ (m.px * 22) \div 10 \in Int /\ 3 * m.px \in Int
    BY <2>1
  <2>3. QED BY <1>1, <2>1, <2>2, RoundPxNear
<1>5. m.bottom \in Int
  BY <1>1, <1>3, <1>4
<1>6. m.width = g.width /\ m.width \in Int
  BY <1>1 DEF IsDrawnOn
<1>7. AreSizes(m)
  BY <1>1, <1>3, <1>4, <1>5, <1>6 DEF AreSizes
<1>8. QED BY <1>6, <1>7 DEF m

\* One of some boxes is the highest.
LEMMA LowestTop ==
  ASSUME NEW S, AreBoxes(S), S # {}
  PROVE  \E b \in S : Min({h.top : h \in S}) = b.top
<1> DEFINE f == [b \in S |-> b.top]
           V == {h.top : h \in S}
<1>1. V = {f[b] : b \in S} /\ V \subseteq Int /\ V # {}
  BY DEF AreBoxes
<1> HIDE DEF f
<1>2. IsFiniteSet({f[b] : b \in S})
  BY ValuesFinite DEF AreBoxes
<1>3. Min(V) \in V
  BY <1>1, <1>2, MinOfFinite
<1>4. QED BY <1>3

\* A name with its box; its leader reaches no less far down than its letters.
IsName(b, m) ==
  /\ b.x0 \in Int /\ b.x1 \in Int /\ b.top \in Int /\ b.bottom \in Int /\ b.base \in Int
  /\ b.base + m.descent <= b.bottom

\* A name's letters and a box do not meet.
IsClearOf(b, o, m) ==
  b.x0 >= o.x1 \/ b.x1 <= o.x0 \/ b.top >= o.bottom \/ b.base + m.descent <= o.top

\* What a label at a height may still hit: boxes that begin above its lower end.
InReach(taken, base, m) == {o \in taken : base + m.descent > o.top - 40}

\* Lifting a label above a box it reached puts that box out of its reach, and none within.
LEMMA LiftedOnce ==
  ASSUME NEW taken, AreBoxes(taken), NEW m, AreSizes(m), NEW base \in Int,
         NEW o \in InReach(taken, base, m), NEW next, next = o.top - 60 - m.descent - m.leaderGap
  PROVE  next \in Int /\ InReach(taken, next, m) \subseteq InReach(taken, base, m) \ {o}
<1>1. o.top \in Int /\ m.descent \in Int /\ m.leaderGap \in Nat /\ base + m.descent > o.top - 40
  BY DEF AreBoxes, AreSizes, InReach
<1>2. next \in Int /\ next < base /\ ~(next + m.descent > o.top - 40)
  BY <1>1
<1>3. ASSUME NEW q \in InReach(taken, next, m) PROVE q \in InReach(taken, base, m) \ {o}
  <2>1. q \in taken /\ q.top \in Int /\ next + m.descent > q.top - 40
    BY DEF InReach, AreBoxes
  <2>2. base + m.descent > q.top - 40
    BY <1>1, <1>2, <2>1
  <2>3. QED BY <1>2, <2>1, <2>2 DEF InReach
<1>4. QED BY <1>2, <1>3

\* What reach loses a box each time is empty before long.
LEMMA ReachShrinks ==
  ASSUME NEW taken, IsFiniteSet(taken), NEW S \in SUBSET taken, NEW o \in S, NEW R \in SUBSET (S \ {o}),
         NEW n \in Int, Cardinality(S) <= n
  PROVE  Cardinality(R) <= n - 1
<1>1. IsFiniteSet(S) /\ Cardinality(S) \in Nat
  BY FS_Subset, FS_CardinalityType
<1>2. IsFiniteSet(S \ {o}) /\ Cardinality(S \ {o}) = Cardinality(S) - 1
  BY <1>1, FS_RemoveElement
<1>3. IsFiniteSet(R) /\ Cardinality(R) <= Cardinality(S \ {o})
  BY <1>2, FS_Subset
<1>4. Cardinality(R) \in Nat
  BY <1>3, FS_CardinalityType
<1>5. QED BY <1>1, <1>2, <1>3, <1>4

\* A label among eight others at most is clear of them once it has been lifted eight times.
LEMMA LiftedClear ==
  ASSUME NEW l, Len(l.rows) \in Int, NEW w \in Int, NEW box, box.x0 \in Int, NEW start \in Int,
         NEW m, AreSizes(m), NEW taken, AreBoxes(taken), Cardinality(taken) <= 8
  PROVE  LET b == Lifted(l, w, box, start, m, taken)
         IN  /\ b.x0 = box.x0 /\ b.x1 = box.x0 + w /\ IsName(b, m)
             /\ \A o \in taken : IsClearOf(b, o, m)
<1> DEFINE b == Lifted(l, w, box, start, m, taken)
           hit(base) == HitsAt(box.x0, w, base, l.rows, m, taken)
           Above(base) == IF hit(base) = {} THEN base
                          ELSE Min({h.top : h \in hit(base)}) - Px(6) - m.descent - m.leaderGap
           Eq(f) == f = [i \in 0..8 |-> IF i = 0 THEN start ELSE Above(f[i - 1])]
           lift == CHOOSE f : Eq(f)
           reach(base) == InReach(taken, base, m)
<1>1. /\ b.base = lift[8] /\ b.top = TopOf(lift[8], l.rows, m) /\ b.x0 = box.x0 /\ b.x1 = box.x0 + w
      /\ b.bottom = lift[8] + Max({m.descent, m.leaderGap})
  BY DEF Lifted
<1> HIDE DEF b
<1>2. /\ m.descent \in Int /\ m.leaderGap \in Int /\ m.ascent \in Int /\ m.rowH \in Int
      /\ IsFiniteSet(taken)
  BY DEF AreSizes, AreBoxes
<1>3. ASSUME NEW base \in Int
      PROVE  /\ hit(base) \in SUBSET reach(base)
             /\ hit(base) = {} => \A o \in taken :
                  \/ box.x0 >= o.x1 \/ box.x0 + w <= o.x0
                  \/ TopOf(base, l.rows, m) >= o.bottom \/ base + m.descent <= o.top
  <2> DEFINE top == TopOf(base, l.rows, m)
  <2>1. top \in Int
    BY <1>2 DEF TopOf
  <2>2. hit(base) = {o \in taken : /\ box.x0 < o.x1 + 120 /\ box.x0 + w > o.x0 - 120
                                   /\ top < o.bottom + 40 /\ base + m.descent > o.top - 40}
    BY DEF HitsAt, Hits, Px
  <2> HIDE DEF hit, top
  <2>3. hit(base) \in SUBSET reach(base)
    BY <2>2 DEF InReach
  <2>4. ASSUME hit(base) = {}, NEW o \in taken
        PROVE  box.x0 >= o.x1 \/ box.x0 + w <= o.x0 \/ top >= o.bottom \/ base + m.descent <= o.top
    <3>1. o.x0 \in Int /\ o.x1 \in Int /\ o.top \in Int /\ o.bottom \in Int
      BY DEF AreBoxes
    <3>2. ~(/\ box.x0 < o.x1 + 120 /\ box.x0 + w > o.x0 - 120
            /\ top < o.bottom + 40 /\ base + m.descent > o.top - 40)
      BY <2>2, <2>4
    <3>3. QED BY <1>2, <2>1, <3>1, <3>2
  <2>5. QED BY <2>3, <2>4 DEF top
<1> HIDE DEF hit
<1>4. ASSUME NEW base \in Int, hit(base) # {}
      PROVE  Above(base) \in Int /\ \E o \in reach(base) : reach(Above(base)) \subseteq reach(base) \ {o}
  <2>1. Above(base) = Min({h.top : h \in hit(base)}) - 60 - m.descent - m.leaderGap
    BY <1>4 DEF Px
  <2> DEFINE H == hit(base)
             next == Above(base)
  <2>2. /\ H \in SUBSET InReach(taken, base, m) /\ H # {} /\ H \subseteq taken
        /\ next = Min({h.top : h \in H}) - 60 - m.descent - m.leaderGap
    BY <1>3, <1>4, <2>1 DEF InReach
  <2> HIDE DEF H, next
  <2>3. AreBoxes(H)
    BY <2>2, FS_Subset DEF AreBoxes
  <2>4. PICK o \in H : Min({h.top : h \in H}) = o.top
    BY <2>2, <2>3, LowestTop
  <2>5. o \in InReach(taken, base, m) /\ next = o.top - 60 - m.descent - m.leaderGap
    BY <2>2, <2>4
  <2>6. next \in Int /\ InReach(taken, next, m) \subseteq InReach(taken, base, m) \ {o}
    BY <2>5, LiftedOnce
  <2>7. QED BY <2>5, <2>6 DEF next
<1>5. \A base \in Int : hit(base) = {} => Above(base) = base
  OBVIOUS
<1> HIDE DEF Above, reach
<1>6. \A base \in Int : Above(base) \in Int
  BY <1>4, <1>5
<1> DEFINE n == 8
<1>7. \E f : Eq(f)
  <2> DEFINE step == [i \in 1..n |-> [k \in Int |-> Above(k)]]
  <2>1. step \in StepsIn(n, Int) /\ n \in Nat
    BY <1>6 DEF StepsIn
  <2>2. n = 8
    OBVIOUS
  <2> HIDE DEF step, n
  <2>3. PICK f : IsIteration(f, n, Int, start, step)
    BY <2>1, Iterates
  <2>4. f \in [0..n -> Int] /\ f[0] = start /\ \A i \in 1..n : f[i] = step[i][f[i - 1]]
    BY <2>3 DEF IsIteration
  <2>5. ASSUME NEW i \in 0..n PROVE f[i] = IF i = 0 THEN start ELSE Above(f[i - 1])
    <3>1. CASE i = 0
      BY <2>4, <3>1
    <3>2. CASE i # 0
      <4>1. i \in 1..n /\ i - 1 \in 0..n
        BY <2>1, <3>2
      <4>2. f[i] = step[i][f[i - 1]] /\ f[i - 1] \in Int
        BY <2>4, <4>1
      <4>3. QED BY <3>2, <4>1, <4>2 DEF step
    <3>3. QED BY <3>1, <3>2
  <2>6. f = [i \in 0..n |-> IF i = 0 THEN start ELSE Above(f[i - 1])]
    BY <2>4, <2>5
  <2>7. QED BY <2>2, <2>6
<1>8. Eq(lift)
  BY <1>7
<1> DEFINE Good(i) == lift[i] \in Int /\ (hit(lift[i]) # {} => Cardinality(reach(lift[i])) <= n - i)
           I == {i \in 0..n : Good(i)}
<1>9. Good(8)
  <2>1. lift = [i \in 0..n |-> IF i = 0 THEN start ELSE Above(lift[i - 1])] /\ n \in Nat
    BY <1>8
  <2>2. n = 8
    OBVIOUS
  <2> HIDE DEF lift
  <2>3. 0 \in I
    <3>1. lift[0] = start
      BY <2>1
    <3>2. Cardinality(reach(start)) <= n - 0
      <4>1. reach(start) \in SUBSET taken
        BY DEF reach, InReach
      <4>2. Cardinality(reach(start)) <= Cardinality(taken) /\ IsFiniteSet(reach(start))
        BY <1>2, <4>1, FS_Subset
      <4>3. Cardinality(reach(start)) \in Nat /\ Cardinality(taken) \in Nat
        BY <1>2, <4>2, FS_CardinalityType
      <4>4. QED BY <4>2, <4>3
    <3> HIDE DEF n
    <3>3. QED BY <2>1, <3>1, <3>2
  <2> HIDE DEF n
  <2>4. ASSUME NEW i \in 1..n, i - 1 \in I PROVE i \in I
    <3> DEFINE k == lift[i - 1]
    <3>1. i \in 0..n /\ i # 0 /\ i \in Int /\ n \in Int
      BY <2>1
    <3>2. lift[i] = Above(k) /\ k \in Int /\ (hit(k) # {} => Cardinality(reach(k)) <= n - (i - 1))
      BY <2>1, <2>4, <3>1
    <3> HIDE DEF k
    <3>3. CASE hit(k) = {}
      BY <1>5, <3>1, <3>2, <3>3
    <3>4. CASE hit(k) # {}
      <4>1. PICK o \in reach(k) : reach(Above(k)) \subseteq reach(k) \ {o}
        BY <1>4, <3>2, <3>4
      <4>2. reach(k) \in SUBSET taken
        BY DEF reach, InReach
      <4>3. n - (i - 1) \in Int /\ (n - (i - 1)) - 1 = n - i
        BY <3>1
      <4>4. Cardinality(reach(Above(k))) <= (n - (i - 1)) - 1
        BY <1>2, <3>2, <3>4, <4>1, <4>2, <4>3, ReachShrinks
      <4>5. QED BY <1>6, <3>1, <3>2, <4>3, <4>4
    <3>5. QED BY <3>3, <3>4
  <2> HIDE DEF I
  <2>5. 0..n \subseteq I
    BY <2>1, <2>3, <2>4, Upto
  <2>6. n \in 0..n
    BY <2>1
  <2>7. QED BY <2>2, <2>5, <2>6 DEF I
<1>10. lift[8] \in Int /\ hit(lift[8]) = {}
  <2> DEFINE k == lift[8]
  <2>1. k \in Int /\ (hit(k) # {} => Cardinality(reach(k)) <= 0)
    BY <1>9
  <2> HIDE DEF k
  <2>2. hit(k) \subseteq reach(k) /\ reach(k) \in SUBSET taken
    BY <1>3, <2>1 DEF reach, InReach
  <2>3. IsFiniteSet(reach(k))
    BY <1>2, <2>2, FS_Subset
  <2>4. Cardinality(reach(k)) <= 0 => reach(k) = {}
    BY <2>3, FS_CardinalityType, FS_EmptySet
  <2>5. QED BY <2>1, <2>2, <2>4 DEF k
<1> HIDE DEF lift
<1>11. \A o \in taken : IsClearOf(b, o, m)
  BY <1>1, <1>3, <1>10 DEF IsClearOf
<1>12. IsName(b, m)
  <2>1. b.top \in Int
    BY <1>1, <1>2, <1>10 DEF TopOf
  <2>2. Max({m.descent, m.leaderGap}) = IF m.descent >= m.leaderGap THEN m.descent ELSE m.leaderGap
    BY <1>2, OfTwo
  <2>3. b.bottom \in Int /\ b.base \in Int /\ b.base + m.descent <= b.bottom
    BY <1>1, <1>2, <1>10, <2>2
  <2>4. QED BY <1>1, <2>1, <2>3 DEF IsName
<1>13. QED BY <1>1, <1>11, <1>12 DEF b

\* A label no wider than the stage stands on it, beside its dot or slid inside.
LEMMA BesideFits ==
  ASSUME NEW l, l.dot.x \in Int, NEW m, AreSizes(m), NEW w \in Int, w <= m.width, NEW start, NEW taken
  PROVE  LET b == BesideDot(l, w, start, m, taken)
         IN  b.x0 \in Int /\ b.x0 >= 0 /\ b.x0 + w <= m.width
<1> DEFINE b == BesideDot(l, w, start, m, taken)
           Beside(s) == [anchor |-> s, x0 |-> IF s = "start" THEN l.dot.x + m.gap ELSE l.dot.x - m.gap - w]
           other == IF l.prefer = "start" THEN "end" ELSE "start"
           sides == <<Beside(l.prefer), Beside(other)>>
           inside == {i \in 1..2 : sides[i].x0 >= 0 /\ sides[i].x0 + w <= m.width}
           clear == {i \in inside : HitsAt(sides[i].x0, w, start, l.rows, m, taken) = {}}
           slid == [Beside(l.prefer) EXCEPT !.x0 = Max({0, Min({m.width - w, @})})]
<1>1. b = IF clear # {} THEN sides[Min(clear)] ELSE IF inside # {} THEN sides[Min(inside)] ELSE slid
  BY DEF BesideDot
<1> HIDE DEF b
<1>2. m.gap \in Int /\ m.width \in Int
  BY DEF AreSizes
<1>3. \A s : Beside(s).x0 \in Int
  BY <1>2
<1>4. sides[1] = Beside(l.prefer) /\ sides[2] = Beside(other)
  OBVIOUS
<1>5. clear \subseteq inside /\ inside \subseteq 1..2
  OBVIOUS
<1>6. \A i \in inside : sides[i].x0 \in Int /\ sides[i].x0 >= 0 /\ sides[i].x0 + w <= m.width
  <2>1. \A i \in 1..2 : i = 1 \/ i = 2
    OBVIOUS
  <2> HIDE DEF sides, Beside
  <2>2. QED BY <1>3, <1>4, <2>1
<1>7. slid.x0 \in Int /\ slid.x0 >= 0 /\ slid.x0 + w <= m.width
  <2> DEFINE x == Beside(l.prefer).x0
             y == m.width - w
             z == Min({y, x})
  <2>1. slid.x0 = Max({0, z})
    OBVIOUS
  <2>2. x \in Int /\ y \in Int /\ y >= 0
    BY <1>2, <1>3
  <2> HIDE DEF slid, x
  <2>3. y + w = m.width
    BY <1>2
  <2> HIDE DEF y
  <2>4. z = IF y <= x THEN y ELSE x
    BY <2>2, OfTwo
  <2> HIDE DEF z
  <2>5. z \in Int /\ z <= y
    BY <2>2, <2>4
  <2>6. Max({0, z}) = IF 0 >= z THEN 0 ELSE z
    BY <2>5, OfTwo
  <2>7. slid.x0 \in Int /\ slid.x0 >= 0 /\ slid.x0 <= y
    BY <2>1, <2>2, <2>5, <2>6
  <2>8. QED BY <1>2, <2>2, <2>3, <2>7
<1> HIDE DEF sides, slid, clear, inside, Beside
<1>8. \A S : S \subseteq 1..2 /\ S # {} => Min(S) \in S
  <2>1. SUFFICES ASSUME NEW S, S \subseteq 1..2, S # {} PROVE Min(S) \in S
    OBVIOUS
  <2> DEFINE one == 1
             two == 2
  <2>2. one \in Int /\ two \in Int /\ S \subseteq one..two
    BY <2>1
  <2> HIDE DEF one, two
  <2>3. IsFiniteSet(one..two) /\ one..two \subseteq Int
    BY <2>2, FS_Interval
  <2>4. IsFiniteSet(S) /\ S \subseteq Int
    BY <2>2, <2>3, FS_Subset
  <2>5. QED BY <2>1, <2>4, MinOfFinite
<1>9. (clear # {} => Min(clear) \in inside) /\ (inside # {} => Min(inside) \in inside)
  BY <1>5, <1>8
<1>10. QED BY <1>1, <1>6, <1>7, <1>9 DEF b

\* A list of any length.
IsList(s) == \E S : s \in Seq(S)

\* What a list's elements are, and how many.
LEMMA ListedValues ==
  ASSUME NEW s, IsList(s)
  PROVE  /\ Len(s) \in Nat /\ DOMAIN s = 1..Len(s) /\ Range(s) = {s[i] : i \in 1..Len(s)}
         /\ IsFiniteSet(Range(s)) /\ Cardinality(Range(s)) <= Len(s)
<1>1. PICK S : s \in Seq(S)
  BY DEF IsList
<1> DEFINE n == Len(s)
           D == 1..n
           R == Range(s)
<1>2. n \in Nat /\ DOMAIN s = D
  BY <1>1
<1>3. R = {s[i] : i \in D}
  BY <1>2 DEF Range
<1>4. IsFiniteSet(D) /\ Cardinality(D) = n
  <2> HIDE DEF n
  <2>1. QED BY <1>2, FS_Interval
<1> DEFINE h == [i \in D |-> s[i]]
<1>5. h \in [D -> R] /\ \A y \in R : \E i \in D : h[i] = y
  BY <1>3
<1> HIDE DEF h, D, R, n
<1>6. h \in Surjection(D, R)
  BY <1>5 DEF Surjection
<1>7. IsFiniteSet(R) /\ Cardinality(R) <= n
  BY <1>4, <1>6, FS_Surjection
<1>8. QED BY <1>2, <1>3, <1>7 DEF D, R, n

\* A label as chartLayout hands it over.
IsLabel(l) == AreRows(l.rows) /\ l.dot.x \in Int

\* Names on the stage, each clear of the ones before it and of the boxes of S.
AreNames(s, S, m) ==
  /\ IsList(s)
  /\ \A i \in 1..Len(s) :
       /\ IsName(s[i], m) /\ s[i].x0 >= 0 /\ s[i].x1 <= m.width
       /\ \A o \in S : IsClearOf(s[i], o, m)
       /\ \A j \in 1..Len(s) : j < i => IsClearOf(s[i], s[j], m)

\* Names are boxes.
LEMMA NamesAreBoxes ==
  ASSUME NEW s, NEW S, NEW m, AreNames(s, S, m)
  PROVE  AreBoxes(Range(s)) /\ Cardinality(Range(s)) <= Len(s) /\ Len(s) \in Nat
<1>1. /\ Len(s) \in Nat /\ Range(s) = {s[i] : i \in 1..Len(s)}
      /\ IsFiniteSet(Range(s)) /\ Cardinality(Range(s)) <= Len(s)
  BY ListedValues DEF AreNames
<1>2. \A i \in 1..Len(s) : IsName(s[i], m)
  BY DEF AreNames
<1>3. \A b \in Range(s) : IsName(b, m)
  BY <1>1, <1>2
<1>4. QED BY <1>1, <1>3 DEF AreBoxes, IsName

\* A label placed after others is clear of them and on the stage.
LEMMA OnePlaced ==
  ASSUME NEW l, IsLabel(l), NEW start \in Int, NEW m, AreSizes(m), NEW taken, AreBoxes(taken),
         Cardinality(taken) <= 8
  PROVE  LET b == PlaceOne(l, Min({m.width, RowsWidth(l.rows, m.px)}), start, m, taken)
         IN  IsName(b, m) /\ b.x0 >= 0 /\ b.x1 <= m.width /\ \A o \in taken : IsClearOf(b, o, m)
<1> DEFINE wide == RowsWidth(l.rows, m.px)
           w == Min({m.width, wide})
           box == BesideDot(l, w, start, m, taken)
           b == Lifted(l, w, box, start, m, taken)
<1>1. PlaceOne(l, w, start, m, taken) = b
  BY DEF PlaceOne
<1>2. m.px \in Int /\ m.width \in Int
  BY DEF AreSizes
<1>3. wide \in Int
  BY <1>2, RowsWidthType DEF IsLabel
<1> HIDE DEF wide
<1>4. w \in Int /\ w <= m.width
  <2>1. w = IF m.width <= wide THEN m.width ELSE wide
    BY <1>2, <1>3, OfTwo
  <2>2. QED BY <1>2, <1>3, <2>1
<1> HIDE DEF w
<1>5. box.x0 \in Int /\ box.x0 >= 0 /\ box.x0 + w <= m.width
  BY <1>4, BesideFits DEF IsLabel
<1> HIDE DEF box
<1>6. Len(l.rows) \in Int
  BY DEF IsLabel, AreRows
<1>7. b.x0 = box.x0 /\ b.x1 = box.x0 + w /\ IsName(b, m) /\ \A o \in taken : IsClearOf(b, o, m)
  BY <1>4, <1>5, <1>6, LiftedClear
<1> HIDE DEF b
<1>8. QED BY <1>1, <1>5, <1>7 DEF w, wide

\* A name clear of those before it joins them.
LEMMA NameJoins ==
  ASSUME NEW s, NEW S, NEW m, AreNames(s, S, m), NEW b, IsName(b, m), b.x0 >= 0, b.x1 <= m.width,
         \A o \in Range(s) \cup S : IsClearOf(b, o, m)
  PROVE  AreNames(Append(s, b), S, m) /\ Len(Append(s, b)) = Len(s) + 1
<1> DEFINE n == Len(s)
           t == Append(s, b)
<1>1. PICK V : s \in Seq(V)
  BY DEF AreNames, IsList
<1>2. s \in Seq(V \cup {b})
  BY <1>1
<1>3. /\ n \in Nat /\ t \in Seq(V \cup {b}) /\ Len(t) = n + 1 /\ t[n + 1] = b
      /\ \A i \in 1..n : t[i] = s[i] /\ s[i] \in Range(s)
  <2>1. n \in Nat /\ t \in Seq(V \cup {b}) /\ Len(t) = n + 1 /\ t[n + 1] = b /\ \A i \in 1..n : t[i] = s[i]
    BY <1>2
  <2>2. \A i \in 1..n : s[i] \in Range(s)
    BY <1>1 DEF Range
  <2>3. QED BY <2>1, <2>2
<1> HIDE DEF n, t
<1>4. \A i \in 1..n :
        /\ IsName(s[i], m) /\ s[i].x0 >= 0 /\ s[i].x1 <= m.width
        /\ \A o \in S : IsClearOf(s[i], o, m)
        /\ \A j \in 1..n : j < i => IsClearOf(s[i], s[j], m)
  BY DEF AreNames, n
<1>5. ASSUME NEW i \in 1..(n + 1)
      PROVE  /\ IsName(t[i], m) /\ t[i].x0 >= 0 /\ t[i].x1 <= m.width
             /\ \A o \in S : IsClearOf(t[i], o, m)
             /\ \A j \in 1..(n + 1) : j < i => IsClearOf(t[i], t[j], m)
  <2>1. CASE i = n + 1
    <3>1. t[i] = b
      BY <1>3, <2>1
    <3>2. \A j \in 1..(n + 1) : j < i => j \in 1..n
      BY <1>3, <2>1
    <3>3. \A j \in 1..(n + 1) : j < i => t[j] \in Range(s)
      BY <1>3, <3>2
    <3>4. QED BY <3>1, <3>3
  <2>2. CASE i # n + 1
    <3>1. i \in 1..n /\ t[i] = s[i]
      BY <1>3, <2>2
    <3>2. \A j \in 1..(n + 1) : j < i => j \in 1..n /\ t[j] = s[j]
      BY <1>3, <3>1
    <3>3. QED BY <1>4, <3>1, <3>2
  <2>3. QED BY <2>1, <2>2
<1>6. IsList(t)
  BY <1>3 DEF IsList
<1>7. QED BY <1>3, <1>5, <1>6 DEF AreNames, n, t

\* placeAnnotations keeps its word for the two labels it is given.
LEMMA NamesPlaced ==
  ASSUME NEW labels, IsList(labels), Len(labels) \in 0..2, \A i \in 1..Len(labels) : IsLabel(labels[i]),
         NEW start \in Int, NEW m, AreSizes(m), NEW obstacles, AreBoxes(obstacles), Cardinality(obstacles) <= 1
  PROVE  AreNames(PlaceAnnotations(labels, start, m, obstacles), obstacles, m)
<1> DEFINE n == Len(labels)
           One(i, s) == PlaceOne(labels[i], Min({m.width, RowsWidth(labels[i].rows, m.px)}), start, m,
                                 Range(s) \cup obstacles)
           Add(i, s) == Append(s, One(i, s))
           Eq(f) == f = [i \in 0..n |-> IF i = 0 THEN <<>> ELSE Add(i, f[i - 1])]
           placed == CHOOSE f : Eq(f)
           first == Add(1, <<>>)
           both == Add(2, first)
<1>1. PlaceAnnotations(labels, start, m, obstacles) = placed[n] /\ n \in 0..2
  BY DEF PlaceAnnotations
<1>2. ASSUME NEW i \in 1..n, NEW s, AreNames(s, obstacles, m), Len(s) = i - 1
      PROVE  AreNames(Add(i, s), obstacles, m) /\ Len(Add(i, s)) = i
  <2> DEFINE b == One(i, s)
             taken == Range(s) \cup obstacles
  <2>1. i \in 1..2
    BY <1>1
  <2>2. AreBoxes(Range(s)) /\ Cardinality(Range(s)) <= 1
    <3>1. AreBoxes(Range(s)) /\ Cardinality(Range(s)) <= i - 1
      BY <1>2, NamesAreBoxes
    <3>2. Cardinality(Range(s)) \in Nat
      BY <3>1, FS_CardinalityType DEF AreBoxes
    <3>3. QED BY <2>1, <3>1, <3>2
  <2>3. AreBoxes(taken) /\ Cardinality(taken) <= 8
    <3>1. IsFiniteSet(Range(s)) /\ IsFiniteSet(obstacles)
      BY <2>2 DEF AreBoxes
    <3>2. /\ IsFiniteSet(taken) /\ Cardinality(Range(s)) \in Nat /\ Cardinality(obstacles) \in Nat
          /\ Cardinality(taken) = Cardinality(Range(s)) + Cardinality(obstacles) - Cardinality(Range(s) \cap obstacles)
      BY <3>1, FS_Union, FS_CardinalityType
    <3>3. Cardinality(Range(s) \cap obstacles) \in Nat
      <4>1. Range(s) \cap obstacles \in SUBSET obstacles
        OBVIOUS
      <4>2. IsFiniteSet(Range(s) \cap obstacles)
        BY <3>1, <4>1, FS_Subset
      <4>3. QED BY <4>2, FS_CardinalityType
    <3>4. Cardinality(taken) <= 8
      BY <2>2, <3>2, <3>3
    <3>5. \A o \in taken : o \in Range(s) \/ o \in obstacles
      OBVIOUS
    <3> HIDE DEF taken
    <3>6. QED BY <2>2, <3>2, <3>4, <3>5 DEF AreBoxes
  <2>4. IsName(b, m) /\ b.x0 >= 0 /\ b.x1 <= m.width /\ \A o \in taken : IsClearOf(b, o, m)
    BY <2>3, OnePlaced
  <2>5. Add(i, s) = Append(s, b)
    OBVIOUS
  <2> HIDE DEF b, Add, One
  <2>6. AreNames(Append(s, b), obstacles, m) /\ Len(Append(s, b)) = Len(s) + 1
    BY <1>2, <2>4, NameJoins
  <2>7. QED BY <1>2, <2>1, <2>5, <2>6
<1> HIDE DEF Add, n
<1>3. Eq(placed)
  <2> DEFINE f == [i \in 0..n |-> IF i = 0 THEN <<>> ELSE IF i = 1 THEN first ELSE both]
  <2>1. \A i \in 0..n : i = 0 \/ i = 1 \/ i = 2
    BY <1>1
  <2>2. first = Add(1, <<>>) /\ both = Add(2, first)
    OBVIOUS
  <2> HIDE DEF first, both
  <2>3. ASSUME NEW i \in 0..n PROVE f[i] = IF i = 0 THEN <<>> ELSE Add(i, f[i - 1])
    <3>1. CASE i = 0
      BY <3>1
    <3>2. CASE i = 1
      <4>1. 0 \in 0..n /\ f[0] = <<>> /\ f[i] = first
        BY <1>1, <3>2
      <4> HIDE DEF f
      <4>2. i - 1 = 0 /\ i # 0
        BY <3>2
      <4>3. QED BY <2>2, <3>2, <4>1, <4>2
    <3>3. CASE i = 2
      <4>1. f[1] = first /\ f[i] = both
        BY <1>1, <3>3
      <4> HIDE DEF f
      <4>2. i - 1 = 1 /\ i # 0
        BY <3>3
      <4>3. QED BY <2>2, <3>3, <4>1, <4>2
    <3>4. QED BY <2>1, <3>1, <3>2, <3>3
  <2>4. f = [i \in 0..n |-> f[i]]
    OBVIOUS
  <2> HIDE DEF f
  <2>5. Eq(f)
    BY <2>3, <2>4
  <2>6. QED BY <2>5
<1> HIDE DEF placed
<1>4. placed[0] = <<>> /\ \A i \in 1..n : placed[i] = Add(i, placed[i - 1])
  <2>1. placed[0] = <<>>
    BY <1>1, <1>3
  <2>2. \A i \in 1..n : i \in 0..n /\ i # 0
    BY <1>1
  <2>3. QED BY <1>3, <2>1, <2>2
<1> DEFINE I == {i \in 0..n : AreNames(placed[i], obstacles, m) /\ Len(placed[i]) = i}
<1>5. 0 \in I
  <2>1. <<>> \in Seq({}) /\ Len(<<>>) = 0
    OBVIOUS
  <2>2. AreNames(<<>>, obstacles, m)
    BY <2>1 DEF AreNames, IsList
  <2>3. QED BY <1>1, <1>4, <2>1, <2>2
<1>6. ASSUME NEW i \in 1..n, i - 1 \in I PROVE i \in I
  BY <1>1, <1>2, <1>4, <1>6
<1> HIDE DEF I
<1>7. 0..n \subseteq I
  BY <1>1, <1>5, <1>6, Upto
<1>8. n \in I
  BY <1>1, <1>7
<1>9. QED BY <1>1, <1>8 DEF I

IdsIn(z) == UNION {Range(c.ids) : c \in Range(z.columns)}
ZoneTop(z, Q, r) == Min({p.y - r : p \in {q \in Q : q.id \in IdsIn(z)}})

\* A zone's topmost dot has a height.
LEMMA OffTop ==
  ASSUME NEW T, AreMoves(T), NEW S \in SUBSET T, NEW z, NEW low, NEW high, IsZone(z, S, low, high), z # None,
         NEW Q, HavePlaces(Q, T), NEW r \in Int
  PROVE  ZoneTop(z, Q, r) \in Int
<1> DEFINE ids == IdsIn(z)
           B == {q \in Q : q.id \in ids}
           f == [p \in B |-> p.y - r]
           V == {p.y - r : p \in B}
<1>1. \E k \in ids : \E d \in T : d.id = k
  <2>1. S # {} /\ \E z0, z1 : IsColumns(z.columns, S, z0, z1)
    BY DEF IsZone
  <2> DEFINE c == z.columns
  <2>2. PICK z0, z1 : IsColumns(c, S, z0, z1)
    BY <2>1
  <2>3. Len(c) \in 1..3 /\ DOMAIN c = 1..Len(c)
    BY <2>2 DEF IsColumns
  <2>4. \A k \in 1..Len(c) : Len(c[k].ids) \in Nat \ {0} /\ DOMAIN c[k].ids = 1..Len(c[k].ids)
    BY <2>2 DEF IsColumns
  <2>5. \A k \in 1..Len(c) : \A j \in 1..Len(c[k].ids) : \E d \in S : c[k].ids[j] = d.id
    BY <2>2 DEF IsColumns
  <2> HIDE DEF c
  <2>6. 1 \in 1..Len(c) /\ 1 \in 1..Len(c[1].ids)
    BY <2>3, <2>4
  <2>7. c[1] \in Range(c) /\ c[1].ids[1] \in Range(c[1].ids)
    BY <2>3, <2>4, <2>6 DEF Range
  <2>8. c[1].ids[1] \in ids
    BY <2>7 DEF c, IdsIn
  <2>9. \E d \in S : c[1].ids[1] = d.id
    BY <2>5, <2>6
  <2>10. QED BY <2>8, <2>9
<1> HIDE DEF ids
<1>2. V # {}
  <2>1. \E q \in Q : q.id \in ids
    BY <1>1 DEF HavePlaces
  <2>2. QED BY <2>1
<1>3. V \subseteq Int
  BY DEF HavePlaces
<1>4. IsFiniteSet(V)
  <2>1. IsFiniteSet(Q)
    BY PlacesFinite DEF AreMoves
  <2>2. IsFiniteSet(B)
    BY <2>1, FS_Subset
  <2>3. V = {f[p] : p \in B}
    OBVIOUS
  <2> HIDE DEF V, f, B
  <2>4. QED BY <2>2, <2>3, ValuesFinite
<1>5. Min(V) \in Int
  BY <1>2, <1>3, <1>4, MinOfFinite
<1>6. QED BY <1>5 DEF ids, ZoneTop

\* So has the label of the dots off the scale, the only one of its kind.
LEMMA OffPlaced ==
  ASSUME NEW T, AreMoves(T), NEW g, NEW a, IsAxis(a, T, g), NEW top, NEW w, IsSwarm(w, T, a, g, top),
         NEW count, NEW text \in Seq(Word), NEW m, AreSizes(m)
  PROVE  AreBoxes(OffLabel(w, count, text, m)) /\ Cardinality(OffLabel(w, count, text, m)) <= 1
<1> DEFINE zone == IF w.right # None THEN w.right ELSE w.left
           maxWidth == IF w.right # None THEN zone.x1 - (w.x1 + Px(6)) ELSE w.x0 - Px(6) - zone.x0
           said == Words(<<1, 3, 3, 5>>)
           rows == AsRows(BalancedWrap(said, maxWidth, m.px, TRUE), TRUE)
                     \o AsRows(BalancedWrap(text, maxWidth, m.px, FALSE), FALSE)
           box == OffBox(w, zone, rows, m)
<1>1. OffLabel(w, count, text, m) = IF zone = None \/ count = 0 THEN {} ELSE {box}
  BY DEF OffLabel
<1>2. AreRows(rows)
  <2>1. said \in Seq(Word) /\ said # <<>>
    <3>1. <<1, 3, 3, 5>> \in Seq(Nat) /\ <<1, 3, 3, 5>> # <<>>
      OBVIOUS
    <3>2. QED BY <3>1, WordsType
  <2> DEFINE s == AsRows(BalancedWrap(said, maxWidth, m.px, TRUE), TRUE)
             t == AsRows(BalancedWrap(text, maxWidth, m.px, FALSE), FALSE)
  <2> HIDE DEF said, maxWidth
  <2>2. s \in Seq(RowRecords) /\ s # <<>>
    BY <2>1, BalancedType, RowsListed
  <2>3. t \in Seq(RowRecords)
    BY BalancedType, RowsListed
  <2>4. rows = s \o t
    OBVIOUS
  <2> HIDE DEF s, t, rows
  <2>5. QED BY <2>2, <2>3, <2>4, RowsJoined
<1> HIDE DEF rows
<1> DEFINE wide == RowsWidth(rows, m.px)
<1>3. wide \in Int /\ Len(rows) \in Nat
  <2>1. m.px \in Int
    BY DEF AreSizes
  <2>2. QED BY <1>2, <2>1, RowsWidthType DEF AreRows
<1>4. zone # None => box.x0 \in Int /\ box.x1 \in Int /\ box.top \in Int /\ box.bottom \in Int
  <2>1. SUFFICES ASSUME zone # None
                 PROVE  box.x0 \in Int /\ box.x1 \in Int /\ box.top \in Int /\ box.bottom \in Int
    OBVIOUS
  <2> DEFINE high == ZoneTop(zone, w.positions, w.r)
             base == RoundPx(high - (IF m.narrow THEN Px(8) ELSE Px(12)))
  <2>2. /\ box.top = base - (Len(rows) - 1) * m.rowH - (m.rowH * 7) \div 10 /\ box.bottom = base + 40
        /\ box.x0 = IF zone = w.right THEN zone.x1 - wide ELSE zone.x0
        /\ box.x1 = IF zone = w.right THEN zone.x1 ELSE zone.x0 + wide
    BY DEF OffBox, ZoneTop, IdsIn, Px
  <2> HIDE DEF box
  <2>3. high \in Int /\ zone.x0 \in Int /\ zone.x1 \in Int
    <3>1. HavePlaces(w.positions, T) /\ w.r \in Int /\ w.right = a.right /\ w.left = a.left
      <4>1. HavePlaces(w.positions, T) /\ w.right = a.right /\ w.left = a.left
        BY DEF IsSwarm
      <4>2. w.r \in 20..70
        BY DEF IsSwarm
      <4>3. \A n \in 20..70 : n \in Int
        OBVIOUS
      <4>4. w.r \in Int
        BY <4>2, <4>3
      <4>5. QED BY <4>1, <4>4
    <3>2. CASE w.right # None
      <4>1. IsZone(zone, BeyondRight(T), a.x1 + 360, g.width - 180) /\ BeyondRight(T) \in SUBSET T
        BY <3>1, <3>2 DEF IsAxis, BeyondRight
      <4> HIDE DEF zone
      <4>2. QED BY <2>1, <3>1, <4>1, OffTop DEF IsZone
    <3>3. CASE w.right = None
      <4>1. IsZone(zone, BeyondLeft(T), 180, a.x0 - 360) /\ BeyondLeft(T) \in SUBSET T
        BY <3>1, <3>3 DEF IsAxis, BeyondLeft
      <4> HIDE DEF zone
      <4>2. QED BY <2>1, <3>1, <4>1, OffTop DEF IsZone
    <3>4. QED BY <3>2, <3>3
  <2> HIDE DEF high
  <2>4. base \in Int
    <3>1. high - (IF m.narrow THEN Px(8) ELSE Px(12)) \in Int
      BY <2>3 DEF Px
    <3>2. QED BY <3>1, RoundPxNear
  <2> HIDE DEF base, wide, zone
  <2>5. box.top \in Int /\ box.bottom \in Int
    <3>1. m.rowH \in Int /\ Len(rows) - 1 \in Int
      BY <1>3 DEF AreSizes
    <3>2. (Len(rows) - 1) * m.rowH \in Int /\ (m.rowH * 7) \div 10 \in Int
      BY <3>1
    <3>3. QED BY <2>2, <2>4, <3>2
  <2>6. QED BY <1>3, <2>2, <2>3, <2>5
<1>5. CASE zone = None \/ count = 0
  BY <1>1, <1>5, FS_EmptySet DEF AreBoxes
<1>6. CASE ~(zone = None \/ count = 0)
  <2>1. /\ box.x0 \in Int /\ box.x1 \in Int /\ box.top \in Int /\ box.bottom \in Int
        /\ OffLabel(w, count, text, m) = {} \cup {box}
    BY <1>1, <1>4, <1>6
  <2> HIDE DEF box
  <2>2. IsFiniteSet({} \cup {box}) /\ Cardinality({} \cup {box}) <= 1
    <3>1. IsFiniteSet({}) /\ Cardinality({}) = 0
      BY FS_EmptySet
    <3>2. /\ IsFiniteSet({} \cup {box})
          /\ Cardinality({} \cup {box}) = IF box \in {} THEN Cardinality({}) ELSE Cardinality({}) + 1
      BY <3>1, FS_AddElement
    <3>3. QED BY <3>1, <3>2
  <2>3. \A b \in {} \cup {box} : b = box
    OBVIOUS
  <2>4. AreBoxes({} \cup {box})
    BY <2>1, <2>2, <2>3 DEF AreBoxes
  <2>5. QED BY <2>1, <2>2, <2>4
<1>7. QED BY <1>5, <1>6

\* A side has one annotation or none.
LEMMA OneLabel ==
  ASSUME NEW w, NEW T, HavePlaces(w.positions, T), NEW label, label # None => IsNamed(label), NEW side, NEW m
  PROVE  LET L == Labelled(w, label, side, m)
         IN  IsList(L) /\ Len(L) \in 0..1 /\ \A i \in 1..Len(L) : IsLabel(L[i])
<1> DEFINE L == Labelled(w, label, side, m)
           none == label = None \/ ~\E p \in w.positions : p.id = label.id
           rows == AnnotationRows(label, m.narrow, m.maxWidth, m.px)
           dot == CHOOSE p \in w.positions : p.id = label.id
           l == [id |-> label.id, rows |-> rows, prefer |-> side, dot |-> dot]
<1>1. L = IF none THEN <<>> ELSE <<l>>
  BY DEF Labelled
<1>2. ~none => AreRows(rows)
  BY LabelRows
<1>3. ~none => dot.x \in Int
  BY DEF HavePlaces
<1> HIDE DEF rows, dot
<1>4. l.rows = rows /\ l.dot = dot
  OBVIOUS
<1>5. ~none => IsLabel(l)
  <2> HIDE DEF l
  <2>1. QED BY <1>2, <1>3, <1>4 DEF IsLabel
<1> HIDE DEF none, l, L
<1>6. CASE none
  <2>1. L = <<>> /\ <<>> \in Seq({})
    BY <1>1, <1>6
  <2>2. IsList(L) /\ Len(L) = 0
    BY <2>1 DEF IsList
  <2>3. QED BY <2>2 DEF L
<1>7. CASE ~none
  <2>1. L = <<l>> /\ <<l>> \in Seq({l})
    BY <1>1, <1>7
  <2>2. IsList(L) /\ Len(L) = 1 /\ L[1] = l
    BY <2>1 DEF IsList
  <2>3. \A i \in 1..1 : i = 1
    OBVIOUS
  <2>4. QED BY <1>5, <1>7, <2>2, <2>3 DEF L
<1>8. QED BY <1>6, <1>7

\* The chart has at most two.
LEMMA BothLabels ==
  ASSUME NEW s, IsList(s), Len(s) \in 0..1, \A i \in 1..Len(s) : IsLabel(s[i]),
         NEW t, IsList(t), Len(t) \in 0..1, \A i \in 1..Len(t) : IsLabel(t[i])
  PROVE  IsList(s \o t) /\ Len(s \o t) \in 0..2 /\ \A i \in 1..Len(s \o t) : IsLabel((s \o t)[i])
<1>1. PICK S : s \in Seq(S)
  BY DEF IsList
<1>2. PICK T : t \in Seq(T)
  BY DEF IsList
<1>3. Len(s \o t) = Len(s) + Len(t)
  BY <1>1, <1>2
<1>4. \A i \in 1..Len(s \o t) : (s \o t)[i] = IF i <= Len(s) THEN s[i] ELSE t[i - Len(s)]
  BY <1>1, <1>2
<1>5. \A i \in 1..Len(s \o t) : i <= Len(s) => i \in 1..Len(s)
  BY <1>3
<1>6. \A i \in 1..Len(s \o t) : ~(i <= Len(s)) => i - Len(s) \in 1..Len(t)
  BY <1>3
<1>7. IsList(s \o t)
  <2>1. s \in Seq(S \cup T) /\ t \in Seq(S \cup T)
    BY <1>1, <1>2
  <2>2. s \o t \in Seq(S \cup T)
    BY <2>1
  <2>3. QED BY <2>2 DEF IsList
<1>8. \A i \in 1..Len(s \o t) : IsLabel((s \o t)[i])
  BY <1>4, <1>5, <1>6
<1>9. Len(s \o t) \in 0..2
  <2> DEFINE a == Len(s)
             b == Len(t)
  <2>1. a \in 0..1 /\ b \in 0..1 /\ Len(s \o t) = a + b
    BY <1>3
  <2> HIDE DEF a, b
  <2>2. a + b \in 0..2
    BY <2>1
  <2>3. QED BY <2>1, <2>2
<1>10. QED BY <1>7, <1>8, <1>9

\* Where the captions meet, and where they end.
CaptionsStand(c, width) == c[1].x0 >= 0 /\ c[2].x1 <= width /\ c[1].x1 <= c[2].x0

\* Around a zero 40 px or more from the stage's edges the captions do not meet.
LEMMA CaptionsPlaced ==
  ASSUME NEW zeroX \in Int, NEW width \in Int, NEW px \in {12, 13},
         width >= 2000, zeroX >= 399, zeroX <= width - 399
  PROVE  CaptionsStand(Captions(zeroX, width, px), width)
<1> DEFINE long == 21 * px * 6
           short == 6 * px * 6
           longFits == zeroX - 100 - long >= 0 /\ zeroX + 100 + long <= width
           w == IF longFits THEN long ELSE short
           end == Max({w, zeroX - 100})
           start == Min({width - w, zeroX + 100})
           c == Captions(zeroX, width, px)
<1>1. c = <<[x0 |-> end - w, x1 |-> end], [x0 |-> start, x1 |-> start + w]>>
  <2>1. w = (IF longFits THEN 21 ELSE 6) * px * 6
    OBVIOUS
  <2> HIDE DEF w, long
  <2>2. QED BY <2>1 DEF Captions, Px, long
<1> HIDE DEF c
<1>2. short \in 432..468 /\ long \in Int /\ long >= 0
  <2>1. px = 12 \/ px = 13
    OBVIOUS
  <2>2. QED BY <2>1
<1> HIDE DEF short, long
<1>3. /\ w \in Int /\ w >= 0 /\ w <= zeroX + 100 /\ zeroX - 100 <= width - w /\ w <= width - w
  <2>1. CASE longFits
    BY <1>2, <2>1
  <2>2. CASE ~longFits
    BY <1>2, <2>2
  <2>3. QED BY <2>1, <2>2
<1> HIDE DEF w
<1>4. end = IF w >= zeroX - 100 THEN w ELSE zeroX - 100
  BY <1>3, OfTwo
<1>5. start = IF width - w <= zeroX + 100 THEN width - w ELSE zeroX + 100
  BY <1>3, OfTwo
<1> HIDE DEF end, start
<1>6. end \in Int /\ start \in Int /\ end - w >= 0 /\ start + w <= width /\ end <= start
  BY <1>3, <1>4, <1>5
<1>7. c[1].x0 = end - w /\ c[1].x1 = end /\ c[2].x0 = start /\ c[2].x1 = start + w
  BY <1>1
<1>8. QED BY <1>6, <1>7 DEF CaptionsStand, c

\* Zero is in the middle of the axis.
LEMMA ZeroInTheMiddle ==
  ASSUME NEW a, a.x0 \in Int, a.x1 \in Int, a.x0 <= a.x1, a.cap \in 100..500
  PROVE  /\ AtValue(a, 0) \in Int
         /\ 2 * AtValue(a, 0) >= a.x0 + a.x1 - 1 /\ 2 * AtValue(a, 0) <= a.x0 + a.x1
<1> DEFINE c == a.cap
           x0 == a.x0
           w == a.x1 - a.x0
           q == (c * w) \div (2 * c)
<1>1. c \in Nat /\ c > 0 /\ w \in Nat /\ x0 \in Int
  <2>1. c \in Int /\ c >= 100
    OBVIOUS
  <2>2. QED BY <2>1
<1>2. AtValue(a, 0) = x0 + q
  <2>1. 0 + c = c
    BY <1>1
  <2>2. AtValue(a, 0) = x0 + ((0 + c) * w) \div (2 * c)
    BY DEF AtValue
  <2> HIDE DEF c, x0, w
  <2>3. QED BY <2>1, <2>2
<1> HIDE DEF c, w, x0
<1>3. c * w \in Nat /\ 2 * c \in Nat \ {0}
  BY <1>1
<1> DEFINE p == c * w
           d == 2 * c
<1> HIDE DEF p, d
<1>4. q = p \div d
  BY DEF p, d
<1> HIDE DEF q
<1>5. q \in Nat /\ q * d <= p /\ p < q * d + d
  BY <1>3, <1>4, Quotient DEF p, d
<1>6. q * d = c * (2 * q) /\ q * d + d = c * (2 * q + 2)
  BY <1>1, <1>5 DEF d
<1>7. c * (2 * q) <= c * w /\ c * w < c * (2 * q + 2)
  BY <1>5, <1>6 DEF p
<1>8. 2 * q <= w /\ w < 2 * q + 2
  BY <1>1, <1>5, <1>7, FactorsCompare
<1>9. AtValue(a, 0) \in Int /\ 2 * AtValue(a, 0) = 2 * x0 + 2 * q
  BY <1>1, <1>2, <1>5
<1>10. a.x0 + a.x1 = 2 * x0 + w
  BY <1>1 DEF x0, w
<1>11. QED BY <1>1, <1>5, <1>8, <1>9, <1>10

---------------------------------------------------------------------------
(* The swarm of a chart                                                    *)

\* What a chart is drawn from.
IsIn(in) ==
  /\ AreMoves(in.dots) /\ in.offText \in Seq(Word)
  /\ (in.down # None => IsNamed(in.down)) /\ (in.up # None => IsNamed(in.up))

IsPlacing(P, in, g, m, top) ==
  /\ P.highest \in Int /\ IsSwarm(P.swarm, in.dots, AxisOf(in.dots, g), g, top)
  /\ AreNames(P.annotations, P.off, m)

\* placeChart draws the dots as layoutSwarm does and its names clear of each other.
LEMMA ChartPlaced ==
  ASSUME NEW in, IsIn(in), NEW g, IsDrawnOn(g), ZonesFit(in.dots, g), NEW m, AreSizes(m),
         NEW top, top # None => top \in Int
  PROVE  IsPlacing(PlaceChart(in, g, top, m), in, g, m, top)
<1> DEFINE T == in.dots
           a == AxisOf(T, g)
           w == LayoutSwarm(T, g, top, m.bottom)
           off == OffLabel(w, in.offCount, in.offText, m)
           labels == Labelled(w, in.down, "start", m) \o Labelled(w, in.up, "end", m)
           start == w.minY - (IF m.narrow THEN Px(14) ELSE Px(24))
           placed == PlaceAnnotations(labels, start, m, off)
           P == PlaceChart(in, g, top, m)
           S == Range(placed) \cup off
           f == [b \in S |-> b.top]
           V == {w.minY - m.zero} \cup {b.top : b \in S}
<1>1. P.swarm = w /\ P.highest = Min(V) /\ P.annotations = placed /\ P.off = off
  BY DEF PlaceChart, Labels, WithLabels, Placement
<1> HIDE DEF P
<1>2. AreMoves(T) /\ IsAxis(a, T, g)
  BY AxisFound DEF IsIn
<1>3. IsSwarm(w, T, a, g, top)
  BY <1>2, SwarmPlaced
<1> HIDE DEF w, a
<1>4. w.minY \in Int /\ HavePlaces(w.positions, T)
  BY <1>3 DEF IsSwarm
<1>5. AreBoxes(off) /\ Cardinality(off) <= 1
  BY <1>2, <1>3, OffPlaced DEF IsIn
<1> HIDE DEF off
<1>6. IsList(labels) /\ Len(labels) \in 0..2 /\ \A i \in 1..Len(labels) : IsLabel(labels[i])
  <2> DEFINE s == Labelled(w, in.down, "start", m)
             t == Labelled(w, in.up, "end", m)
  <2>1. IsList(s) /\ Len(s) \in 0..1 /\ \A i \in 1..Len(s) : IsLabel(s[i])
    BY <1>4, OneLabel DEF IsIn
  <2>2. IsList(t) /\ Len(t) \in 0..1 /\ \A i \in 1..Len(t) : IsLabel(t[i])
    BY <1>4, OneLabel DEF IsIn
  <2>3. labels = s \o t
    OBVIOUS
  <2> HIDE DEF s, t, labels
  <2>4. QED BY <2>1, <2>2, <2>3, BothLabels
<1> HIDE DEF labels
<1>7. start \in Int
  BY <1>4 DEF Px
<1> HIDE DEF start
<1>8. AreNames(placed, off, m)
  BY <1>5, <1>6, <1>7, NamesPlaced
<1> HIDE DEF placed
<1>9. AreBoxes(S)
  <2>1. AreBoxes(Range(placed))
    BY <1>8, NamesAreBoxes
  <2>2. QED BY <1>5, <2>1, FS_Union DEF AreBoxes
<1>10. w.minY - m.zero \in Int
  BY <1>4 DEF AreSizes
<1>11. \A b \in S : b.top \in Int
  BY <1>9 DEF AreBoxes
<1>12. \A b \in S : f[b] = b.top
  OBVIOUS
<1> DEFINE U == {b.top : b \in S}
<1>13. U = {f[b] : b \in S} /\ U \subseteq Int
  BY <1>11, <1>12
<1>14. V = U \cup {w.minY - m.zero}
  OBVIOUS
<1> HIDE DEF S, V, f, U
<1>15. V \subseteq Int /\ V # {} /\ V = {f[b] : b \in S} \cup {w.minY - m.zero}
  BY <1>10, <1>13, <1>14
<1>16. IsFiniteSet(V)
  <2>1. IsFiniteSet({f[b] : b \in S})
    BY <1>9, ValuesFinite DEF AreBoxes
  <2>2. QED BY <1>15, <2>1, FS_AddElement
<1>17. Min(V) \in Int
  BY <1>15, <1>16, MinOfFinite
<1>18. IsPlacing(P, in, g, m, top)
  BY <1>1, <1>3, <1>8, <1>17 DEF IsPlacing, a
<1>19. QED BY <1>18 DEF P

\* On a compact stage the swarm stays 12 px below the stage's top.
Tops == {t \in Int : t >= 120}

\* The passes of chartLayout end with a chart that begins at some height.
LEMMA PassesEnd ==
  ASSUME NEW in, IsIn(in), NEW g, IsDrawnOn(g), ZonesFit(in.dots, g), NEW m, AreSizes(m)
  PROVE  \E t \in Tops : Passes(in, g, m) = PlaceChart(in, g, t, m)
<1> DEFINE At(t) == PlaceChart(in, g, t, m)
           R == {At(t) : t \in Tops}
           S == [top : Tops, result : R \cup {None}, settled : BOOLEAN]
           begin == [top |-> Px(60), result |-> None, settled |-> FALSE]
           Go(acc) == IF acc.settled THEN acc ELSE Shifted(acc, At(acc.top), m)
           Eq(f) == f = [i \in 0..4 |-> IF i = 0 THEN begin ELSE Go(f[i - 1])]
           pass == CHOOSE f : Eq(f)
           n == 4
           Good(s) == s \in S /\ (s.settled => s.result \in R)
<1>1. Passes(in, g, m) = pass[4].result
  BY DEF Passes
<1>2. \A t \in Tops : At(t).highest \in Int
  <2>1. \A t \in Tops : t \in Int
    BY DEF Tops
  <2>2. QED BY <2>1, ChartPlaced DEF IsPlacing
<1> HIDE DEF At
<1>3. ASSUME NEW acc \in S, ~acc.settled
      PROVE  Shifted(acc, At(acc.top), m) \in S /\ Shifted(acc, At(acc.top), m).result \in R
  <2> DEFINE t == acc.top
             r == At(t)
             shift == Px(4) - r.highest
             next == Max({m.zero + Px(4), t + shift})
  <2>1. t \in Tops
    BY <1>3
  <2>2. r \in R
    BY <2>1
  <2>3. t \in Int /\ r.highest \in Int
    BY <1>2, <2>1 DEF Tops
  <2>4. next \in Tops
    <3> DEFINE x == m.zero + Px(4)
               y == t + shift
    <3>1. x \in Int /\ y \in Int /\ x >= 120
      BY <2>3 DEF AreSizes, Px
    <3> HIDE DEF x, y
    <3>2. Max({x, y}) \in Int /\ Max({x, y}) >= x
      BY <3>1, OfTwo
    <3>3. next = Max({x, y})
      BY DEF x, y
    <3> HIDE DEF next
    <3>4. QED BY <3>1, <3>2, <3>3 DEF Tops
  <2>5. Shifted(acc, r, m) = IF Magnitude(shift) < Px(1) THEN [top |-> t, result |-> r, settled |-> TRUE]
                             ELSE [top |-> next, result |-> r, settled |-> FALSE]
    BY DEF Shifted
  <2> HIDE DEF t, r, shift, next, R
  <2>6. QED BY <2>1, <2>2, <2>4, <2>5 DEF t, r
<1>4. \A s \in S : Go(s) \in S
  BY <1>3
<1>5. begin \in S /\ begin.settled = FALSE
  BY DEF Tops, Px
<1>6. \A s \in S : Good(s) => Good(Go(s)) /\ Go(s).result \in R
  BY <1>3
<1> HIDE DEF S, R, Go, begin
<1>7. \E f : Eq(f)
  <2> DEFINE step == [i \in 1..n |-> [s \in S |-> Go(s)]]
  <2>1. step \in StepsIn(n, S) /\ n \in Nat
    BY <1>4 DEF StepsIn
  <2>2. n = 4
    OBVIOUS
  <2> HIDE DEF step, n
  <2>3. PICK f : IsIteration(f, n, S, begin, step)
    BY <1>5, <2>1, Iterates
  <2>4. f \in [0..n -> S] /\ f[0] = begin /\ \A i \in 1..n : f[i] = step[i][f[i - 1]]
    BY <2>3 DEF IsIteration
  <2>5. ASSUME NEW i \in 0..n PROVE f[i] = IF i = 0 THEN begin ELSE Go(f[i - 1])
    <3>1. CASE i = 0
      BY <2>4, <3>1
    <3>2. CASE i # 0
      <4>1. i \in 1..n /\ i - 1 \in 0..n
        BY <2>1, <3>2
      <4>2. f[i] = step[i][f[i - 1]] /\ f[i - 1] \in S
        BY <2>4, <4>1
      <4>3. QED BY <3>2, <4>1, <4>2 DEF step
    <3>3. QED BY <3>1, <3>2
  <2>6. f = [i \in 0..n |-> IF i = 0 THEN begin ELSE Go(f[i - 1])]
    BY <2>4, <2>5
  <2>7. QED BY <2>2, <2>6
<1>8. Eq(pass)
  BY <1>7
<1> DEFINE I == {i \in 0..n : Good(pass[i]) /\ (i > 0 => pass[i].result \in R)}
<1>9. n \in I
  <2>1. pass = [i \in 0..n |-> IF i = 0 THEN begin ELSE Go(pass[i - 1])] /\ n \in Nat
    BY <1>8
  <2> HIDE DEF pass, n
  <2>2. 0 \in I
    BY <1>5, <2>1
  <2>3. ASSUME NEW i \in 1..n, i - 1 \in I PROVE i \in I
    <3>1. i \in 0..n /\ i # 0
      BY <2>1
    <3>2. pass[i] = Go(pass[i - 1])
      BY <2>1, <3>1
    <3>3. Good(pass[i - 1])
      BY <2>3
    <3>4. QED BY <1>6, <3>1, <3>2, <3>3
  <2> HIDE DEF I
  <2>4. 0..n \subseteq I
    BY <2>1, <2>2, <2>3, Upto
  <2>5. QED BY <2>1, <2>4
<1>10. pass[4].result \in R
  BY <1>9
<1>11. QED BY <1>1, <1>10 DEF R, At

\* The chart's swarm, below top on a compact stage and in the middle of another, and its texts.
IsChart(c, in, g, top) ==
  /\ IsSwarm(c.swarm, in.dots, AxisOf(in.dots, g), g, top)
  /\ IF g.compact THEN top \in Tops ELSE top = None
  /\ c.axisY \in Int /\ c.axisY >= c.swarm.maxY
  /\ AreNames(c.annotations, c.off, SizesOn(g)) /\ c.descent = SizesOn(g).descent
  /\ SizesOn(g).width = g.width /\ SizesOn(g).descent \in Int
  /\ CaptionsStand(c.captions, g.width)

\* So does centring it.
LEMMA CentredFound ==
  ASSUME NEW in, IsIn(in), NEW g, IsDrawnOn(g), ZonesFit(in.dots, g), NEW m, AreSizes(m)
  PROVE  \E t \in Tops : Centred(in, g, Passes(in, g, m), m) = PlaceChart(in, g, t, m)
<1>1. PICK t \in Tops : Passes(in, g, m) = PlaceChart(in, g, t, m)
  BY PassesEnd
<1> DEFINE P == PlaceChart(in, g, t, m)
           w == P.swarm
           spare == Px((g.height - w.maxY - m.bottom) \div 20)
           top == RoundPx(w.minY + spare)
<1>2. t \in Int /\ t >= 120 /\ t # None
  BY SwarmAssumption DEF Tops
<1>3. IsSwarm(w, in.dots, AxisOf(in.dots, g), g, t)
  BY <1>2, ChartPlaced DEF IsPlacing
<1>4. w.minY \in Int /\ w.maxY \in Int /\ w.minY >= 116 /\ g.height \in Int /\ m.bottom \in Int
  BY <1>2, <1>3 DEF IsSwarm, IsDrawnOn, AreSizes
<1>5. Centred(in, g, P, m) = IF spare > Px(6) THEN PlaceChart(in, g, top, m) ELSE P
  BY DEF Centred
<1> HIDE DEF P, w
<1>6. ASSUME spare > Px(6) PROVE top \in Tops
  <2>1. spare \in Int /\ spare > 60
    BY <1>4, <1>6 DEF Px
  <2> HIDE DEF spare
  <2>2. w.minY + spare \in Int /\ w.minY + spare >= 176
    BY <1>4, <2>1
  <2>3. top \in Int /\ top >= (w.minY + spare) - 4
    BY <2>2, RoundPxNear
  <2> HIDE DEF top
  <2>4. QED BY <1>4, <2>1, <2>2, <2>3 DEF Tops
<1> HIDE DEF spare, top
<1>7. QED BY <1>1, <1>5, <1>6 DEF P, top

\* chartLayout's chart is placeChart's from some height.
LEMMA ChartFound ==
  ASSUME NEW in, IsIn(in), NEW g, IsDrawnOn(g), ZonesFit(in.dots, g), g.compact \in BOOLEAN
  PROVE  \E top : IsChart(ChartOf(in, g), in, g, top)
<1> DEFINE m == SizesOn(g)
           c == ChartOf(in, g)
<1>1. AreSizes(m) /\ m.width = g.width
  BY SizesType
<1>2. c = Assembled(IF g.compact THEN Centred(in, g, Passes(in, g, m), m) ELSE PlaceChart(in, g, None, m), m)
  BY DEF ChartOf, ChartWith
<1> HIDE DEF m, c
<1>3. PICK top : /\ c = Assembled(PlaceChart(in, g, top, m), m) /\ (top # None => top \in Int)
                 /\ IF g.compact THEN top \in Tops ELSE top = None
  <2>1. CASE g.compact
    <3>1. PICK t \in Tops : Centred(in, g, Passes(in, g, m), m) = PlaceChart(in, g, t, m)
      BY <1>1, CentredFound
    <3>2. t \in Int
      BY DEF Tops
    <3>3. QED BY <1>2, <2>1, <3>1, <3>2
  <2>2. CASE ~g.compact
    BY <1>2, <2>2
  <2>3. QED BY <2>1, <2>2
<1> DEFINE P == PlaceChart(in, g, top, m)
           w == P.swarm
<1>4. IsSwarm(w, in.dots, AxisOf(in.dots, g), g, top) /\ AreNames(P.annotations, P.off, m)
  BY <1>1, <1>3, ChartPlaced DEF IsPlacing
<1>5. /\ c.swarm = w /\ c.axisY = RoundPx(w.maxY + m.axis) /\ c.annotations = P.annotations /\ c.off = P.off
      /\ c.descent = m.descent /\ c.captions = Captions(AtValue(w, 0), m.width, m.px)
  BY <1>3 DEF Assembled
<1> HIDE DEF P, w
<1>6. w.maxY \in Int /\ m.axis \in Int /\ m.axis >= 120
  BY <1>1, <1>4 DEF IsSwarm, AreSizes
<1>7. c.axisY \in Int /\ c.axisY >= (w.maxY + m.axis) - 4
  BY <1>5, <1>6, RoundPxNear
<1>8. c.axisY >= w.maxY
  BY <1>6, <1>7
<1>9. CaptionsStand(c.captions, g.width)
  <2> DEFINE a == AxisOf(in.dots, g)
             z == AtValue(w, 0)
  <2>1. IsAxis(a, in.dots, g) /\ g.width \in Nat /\ g.width >= 2000
    BY AxisFound DEF IsIn, IsDrawnOn
  <2>2. w.x0 = a.x0 /\ w.x1 = a.x1 /\ w.cap = a.cap
    BY <1>4 DEF IsSwarm
  <2>3. /\ w.x0 \in Int /\ w.x1 \in Int /\ w.x0 <= w.x1 /\ w.cap \in 100..500
        /\ w.x0 + w.x1 >= 800 /\ w.x0 + w.x1 <= 2 * g.width - 800
    BY <2>1, <2>2 DEF IsAxis
  <2> HIDE DEF a, z
  <2>4. z \in Int /\ 2 * z >= w.x0 + w.x1 - 1 /\ 2 * z <= w.x0 + w.x1
    BY <2>3, ZeroInTheMiddle DEF z
  <2>5. z >= 399 /\ z <= g.width - 399
    BY <2>1, <2>3, <2>4
  <2>6. CaptionsStand(Captions(z, g.width, m.px), g.width)
    BY <1>1, <2>1, <2>4, <2>5, CaptionsPlaced DEF AreSizes
  <2>7. QED BY <1>1, <1>5, <2>6 DEF z
<1>10. m.descent \in Int
  BY <1>1 DEF AreSizes
<1>11. QED BY <1>1, <1>3, <1>4, <1>5, <1>7, <1>8, <1>9, <1>10 DEF IsChart, c, m

\* Two sets with a one-to-one map between them.
LEMMA AsMany ==
  ASSUME NEW S, NEW T, IsFiniteSet(T), NEW f \in [S -> T], \A x, y \in S : f[x] = f[y] => x = y
  PROVE  IsFiniteSet(S) /\ Cardinality(S) <= Cardinality(T) /\ Cardinality(S) \in Nat /\ Cardinality(T) \in Nat
<1>1. f \in Injection(S, T)
  BY DEF Injection, IsInjective
<1>2. IsFiniteSet(S) /\ Cardinality(S) <= Cardinality(T)
  BY <1>1, FS_Injection
<1>3. QED BY <1>2, FS_CardinalityType

\* Where the dots drawn on the axis leave each other room.
DrawnLoosely(w) ==
  \A p \in w.positions :
    p.x \in w.x0..w.x1 =>
      31 * Cardinality({q \in w.positions : q.x - p.x <= 160 /\ p.x - q.x <= 160}) <= MaxTries

\* A swarm with few dots around each is not crowded on its axis.
LEMMA LooseOnAxis ==
  ASSUME NEW T, AreMoves(T), NEW g, NEW a, IsAxis(a, T, g), NEW top,
         NEW w, IsSwarm(w, T, a, g, top), DrawnLoosely(w)
  PROVE  Uncrowded(AlongAxis(T, a))
<1> DEFINE O == AlongAxis(T, a)
           Q == w.positions
           Near(d) == {e \in O : e.x - d.x <= 160 /\ d.x - e.x <= 160}
           NearPlace(p) == {q \in Q : q.x - p.x <= 160 /\ p.x - q.x <= 160}
           f == [e \in O |-> CHOOSE q \in Q : q.id = e.id]
<1>1. HavePlaces(Q, T) /\ IsFiniteSet(Q)
  BY PlacesFinite DEF IsSwarm, AreMoves
<1>2. AreMoves(O)
  BY OnAxisType
<1>3. ASSUME NEW e \in O PROVE f[e] \in Q /\ f[e].id = e.id /\ f[e].x = e.x /\ f[e].x \in w.x0..w.x1
  <2>1. PICK d \in T : e.id = d.id /\ e.x = AtValue(a, d.value) /\ ~IsOffScale(d.value)
    BY DEF AlongAxis, OnScale
  <2>2. \E q \in Q : q.id = e.id
    BY <1>1, <2>1 DEF HavePlaces
  <2>3. f[e] \in Q /\ f[e].id = e.id
    BY <2>2
  <2>4. f[e].x = AtValue(a, d.value) /\ f[e].x \in a.x0..a.x1 /\ w.x0 = a.x0 /\ w.x1 = a.x1
    BY <2>1, <2>3 DEF IsSwarm
  <2>5. QED BY <2>1, <2>3, <2>4
<1> HIDE DEF O, Q, f
<1>4. ASSUME NEW d \in O PROVE 31 * Cardinality(Near(d)) <= MaxTries
  <2> DEFINE N == Near(d)
             A == NearPlace(f[d])
             h == [e \in N |-> f[e]]
  <2>1. IsFiniteSet(A)
    BY <1>1, FS_Subset
  <2>2. \A e \in N : f[e] \in A
    BY <1>3, <1>4
  <2>3. h \in [N -> A]
    BY <2>2
  <2>4. \A x, y \in N : h[x] = h[y] => x = y
    BY <1>2, <1>3 DEF AreMoves
  <2>5. 31 * Cardinality(A) <= MaxTries
    BY <1>3, <1>4 DEF DrawnLoosely, Q
  <2> HIDE DEF N, A, h
  <2>6. Cardinality(N) <= Cardinality(A) /\ Cardinality(N) \in Nat /\ Cardinality(A) \in Nat
    BY <2>1, <2>3, <2>4, AsMany
  <2>7. MaxTries \in Nat
    BY SwarmAssumption
  <2>8. 31 * Cardinality(N) <= MaxTries
    BY <2>5, <2>6, <2>7
  <2>9. QED BY <2>8 DEF N
<1>5. QED BY <1>4 DEF Uncrowded, O
=============================================================================
