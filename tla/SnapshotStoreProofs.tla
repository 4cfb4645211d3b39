------------------------ MODULE SnapshotStoreProofs ------------------------
(***************************************************************************)
(* Proofs about SnapshotStore, for every number of jobs, labels, prices    *)
(* and readings: the types of its rows; that overlapping refreshes read    *)
(* the latest row; that jobs run one at a time leave a chain of snapshots  *)
(* with every change on record; that no observation is lost; and that      *)
(* published changes agree with the parses they link to.                   *)
(***************************************************************************)
EXTENDS SnapshotStore, FiniteSetTheorems,
        SequenceTheorems, WellFoundedInduction, TLAPS

---------------------------------------------------------------------------
(* latest_snapshot returns a row whenever there is one                     *)

\* A nonempty row of numbers has a last greatest one.
LEMMA LastGreatestExists ==
  ASSUME NEW n \in Nat \ {0}, NEW f \in [1..n -> Nat]
  PROVE  \E i \in 1..n : \A j \in 1..n : f[j] < f[i] \/ (f[j] = f[i] /\ j <= i)
<1> DEFINE Above(i) == {j \in 1..n : f[j] > f[i] \/ (f[j] = f[i] /\ j > i)}
           T == {Above(i) : i \in 1..n}
<1>1. IsFiniteSet(1..n)
  BY FS_Interval
<1>2. \A i \in 1..n : IsFiniteSet(Above(i))
  <2>1. \A U \in SUBSET (1..n) : IsFiniteSet(U)
    BY <1>1, FS_Subset
  <2>2. \A i \in 1..n : Above(i) \in SUBSET (1..n)
    OBVIOUS
  <2>3. QED BY <2>1, <2>2
<1>3. T \subseteq FiniteSubsetsOf(1..n) /\ T # {}
  <2>1. T \subseteq FiniteSubsetsOf(1..n)
    BY <1>2, Zenon DEF FiniteSubsetsOf
  <2>2. Above(1) \in T
    OBVIOUS
  <2>3. QED BY <2>1, <2>2
<1>4. IsWellFoundedOn(StrictSubsetOrdering(1..n), FiniteSubsetsOf(1..n))
  BY FS_StrictSubsetOrderingWellFounded
<1>5. PICK U \in T : \A V \in T : ~(<<V, U>> \in StrictSubsetOrdering(1..n))
  <2> HIDE DEF T
  <2> QED BY <1>3, <1>4, WFMin
<1>6. PICK m \in 1..n : U = Above(m)
  OBVIOUS
<1>7. \A j \in Above(m) : Above(j) \in T /\ Above(j) \subseteq Above(m) /\ j \notin Above(j)
  OBVIOUS
<1>8. Above(m) = {}
  <2>1. SUFFICES ASSUME NEW j \in Above(m) PROVE FALSE
    OBVIOUS
  <2>2. /\ Above(j) \in T /\ Above(j) \subseteq Above(m)
        /\ j \notin Above(j) /\ Above(j) # Above(m)
    BY <1>7, <2>1
  <2>3. <<Above(j), Above(m)>> \in StrictSubsetOrdering(1..n)
    BY <2>2, Zenon DEF StrictSubsetOrdering
  <2>4. QED BY <1>5, <1>6, <2>2, <2>3
<1>9. \A j \in 1..n : f[j] < f[m] \/ (f[j] = f[m] /\ j <= m)
  <2>1. \A j \in 1..n : f[j] \in Nat /\ f[m] \in Nat
    OBVIOUS
  <2>2. QED BY <1>8, <2>1
<1>10. QED BY <1>9, Zenon

\* latest_snapshot: the id of an existing row, 0 exactly when there is none.
LEMMA LatestSnapshotType ==
  ASSUME snaps \in Seq(Snapshot)
  PROVE  /\ snaps = <<>> => LatestSnapshot = 0
         /\ snaps # <<>> => /\ LatestSnapshot \in 1..Len(snaps)
                            /\ \A j \in 1..Len(snaps) :
                                 \/ snaps[j].last < snaps[LatestSnapshot].last
                                 \/ /\ snaps[j].last = snaps[LatestSnapshot].last
                                    /\ j <= LatestSnapshot
<1>1. CASE snaps = <<>>
  BY <1>1 DEF LatestSnapshot
<1>2. CASE snaps # <<>>
  <2>1. DOMAIN snaps = 1..Len(snaps) /\ Len(snaps) \in Nat \ {0}
    BY <1>2, EmptySeq, LenProperties
  <2>2. [i \in 1..Len(snaps) |-> snaps[i].last] \in [1..Len(snaps) -> Nat]
    <3>1. \A i \in 1..Len(snaps) : snaps[i] \in Snapshot
      BY ElementOfSeq
    <3>2. \A i \in 1..Len(snaps) : snaps[i].last \in Nat
      BY <3>1 DEF Snapshot
    <3>3. QED BY <3>2
  <2>3. \E i \in DOMAIN snaps : \A j \in DOMAIN snaps :
          \/ snaps[j].last < snaps[i].last
          \/ snaps[j].last = snaps[i].last /\ j <= i
    <3> DEFINE f == [i \in 1..Len(snaps) |-> snaps[i].last]
    <3>1. \E i \in 1..Len(snaps) : \A j \in 1..Len(snaps) :
            f[j] < f[i] \/ (f[j] = f[i] /\ j <= i)
      <4> HIDE DEF f
      <4> QED BY <2>1, <2>2, LastGreatestExists DEF f
    <3>2. \A i \in 1..Len(snaps) : f[i] = snaps[i].last
      OBVIOUS
    <3> HIDE DEF f
    <3>3. QED BY <2>1, <3>1, <3>2
  <2>4. QED BY <1>2, <2>1, <2>3, Zenon DEF LatestSnapshot
<1>3. QED BY <1>1, <1>2

---------------------------------------------------------------------------
(* Type correctness                                                        *)

\* A job that holds a reading holds a catalog reading, and a transaction
\* points at a row that exists: what the types of the rows written rest on.
HoldsReading(w) == pc[w] \in {"fetched", "read", "resolved"}
JobsOK ==
  \A w \in Workers :
    /\ HoldsReading(w) => fetched[w] \in Reading
    /\ txn[w].latest <= Len(snaps)

TypeInv == TypeOK /\ JobsOK

LEMMA NoTransactionType == NoTransaction \in Transaction
BY DEF NoTransaction, Transaction, Parse

LEMMA InitTypeInv == Init => TypeInv
<1> SUFFICES ASSUME Init PROVE TypeInv
  OBVIOUS
<1> USE DEF Init
<1>1. seen \in Nat /\ clock \in Nat
  OBVIOUS
<1>2. snaps \in Seq(Snapshot) /\ Len(snaps) = 0
  BY EmptySeq
<1>3. txn \in [Workers -> Transaction]
  BY NoTransactionType
<1>4. JobsOK
  BY <1>2 DEF JobsOK, HoldsReading, NoTransaction
<1>5. TypeOK
  BY <1>1, <1>2, <1>3 DEF TypeOK, Parse, Steps
<1>6. QED BY <1>4, <1>5 DEF TypeInv

\* What resolve_size may return is a parse or nothing.
LEMMA ResolutionsType ==
  ASSUME TypeOK, NEW l \in Labels
  PROVE  Resolutions(l) \subseteq Resolution
<1>1. CASE parses[l] # None
  BY <1>1 DEF TypeOK, Resolutions, Resolution, Parse
<1>2. CASE parses[l] = None
  <2>1. parser[l] \in Parse /\ None \in Parse
    BY DEF TypeOK, Parse
  <2>2. [parse |-> parser[l], inserts |-> TRUE] \in Resolution /\ NoResolution \in Resolution
    BY <2>1 DEF Resolution, NoResolution
  <2>3. QED BY <1>2, <2>2 DEF Resolutions
<1>3. QED BY <1>1, <1>2

\* A finished or abandoned run leaves well-typed jobs behind.
LEMMA EndOfRunType ==
  ASSUME TypeInv, NEW w \in Workers, EndOfRun(w), Len(snaps) <= Len(snaps')
  PROVE  /\ pc' \in [Workers -> Steps]
         /\ now' \in [Workers -> Nat]
         /\ fetched' \in [Workers -> Reading \cup {None}]
         /\ txn' \in [Workers -> Transaction]
         /\ snaps' \in Seq(Snapshot) => JobsOK'
<1> USE DEF TypeInv, TypeOK, EndOfRun
<1>1. /\ pc' \in [Workers -> Steps] /\ now' \in [Workers -> Nat]
      /\ fetched' \in [Workers -> Reading \cup {None}]
  BY DEF Steps
<1>2. txn' \in [Workers -> Transaction]
  BY NoTransactionType
<1>3. ASSUME NEW v \in Workers, snaps' \in Seq(Snapshot)
      PROVE  /\ HoldsReading(v)' => fetched'[v] \in Reading
             /\ txn'[v].latest <= Len(snaps')
  <2>1. CASE v = w
    BY <1>3, <2>1, LenProperties DEF HoldsReading, NoTransaction
  <2>2. CASE v # w
    <3>1. Len(snaps) \in Nat /\ Len(snaps') \in Nat /\ txn[v].latest \in Nat
      BY <1>3, LenProperties DEF Transaction
    <3>2. QED BY <2>2, <3>1 DEF JobsOK, HoldsReading
  <2>3. QED BY <2>1, <2>2
<1>4. QED BY <1>1, <1>2, <1>3 DEF JobsOK

LEMMA LeaveType ==
  ASSUME TypeInv, NEW w \in Workers, Leave(w), Len(snaps) <= Len(snaps')
  PROVE  /\ pc' \in [Workers -> Steps]
         /\ now' \in [Workers -> Nat]
         /\ fetched' \in [Workers -> Reading \cup {None}]
         /\ txn' \in [Workers -> Transaction]
         /\ snaps' \in Seq(Snapshot) => JobsOK'
<1>1. CASE w \in Refreshers
  BY <1>1, EndOfRunType DEF Leave
<1>2. CASE w \notin Refreshers
  <2> USE <1>2 DEF TypeInv, TypeOK, Leave
  <2>1. /\ pc' \in [Workers -> Steps] /\ now' \in [Workers -> Nat]
        /\ fetched' \in [Workers -> Reading \cup {None}]
    BY DEF Steps
  <2>2. txn' \in [Workers -> Transaction]
    BY NoTransactionType
  <2>3. ASSUME NEW v \in Workers, snaps' \in Seq(Snapshot)
        PROVE  /\ HoldsReading(v)' => fetched'[v] \in Reading
               /\ txn'[v].latest <= Len(snaps')
    <3>1. CASE v = w
      BY <2>3, <3>1, LenProperties DEF HoldsReading, NoTransaction
    <3>2. CASE v # w
      <4>1. Len(snaps) \in Nat /\ Len(snaps') \in Nat /\ txn[v].latest \in Nat
        BY <2>3, LenProperties DEF Transaction
      <4>2. QED BY <3>2, <4>1 DEF JobsOK, HoldsReading
    <3>3. QED BY <3>1, <3>2
  <2>4. QED BY <2>1, <2>2, <2>3 DEF JobsOK
<1>3. QED BY <1>1, <1>2

\* A snapshot row with some columns written is a snapshot row.
LEMMA SnapshotUpdates ==
  ASSUME NEW r \in Snapshot, NEW b \in BOOLEAN, NEW t \in Nat, NEW n \in Nat
  PROVE  /\ [r EXCEPT !.parsed = b] \in Snapshot
         /\ [r EXCEPT !.last = t, !.observations = n] \in Snapshot
BY DEF Snapshot

\* The rows a transaction writes.  Where it has a latest snapshot that row exists.
LEMMA WrittenRowsType ==
  ASSUME TypeInv, NEW w \in Workers
  PROVE  /\ BeforeInserted(w) \in [Labels -> Parse]
         /\ BothInserted(w) \in [Labels -> Parse]
         /\ ParseFilled(w) \in Seq(Snapshot) /\ Len(ParseFilled(w)) = Len(snaps)
         /\ txn[w].latest # 0 =>
              /\ Extended(w) \in Seq(Snapshot) /\ Len(Extended(w)) = Len(snaps)
              /\ Extended(w)[txn[w].latest].parsed \in BOOLEAN
<1> USE DEF TypeInv, TypeOK
<1>1. /\ DOMAIN snaps = 1..Len(snaps) /\ Len(snaps) \in Nat
      /\ \A i \in 1..Len(snaps) : snaps[i] \in Snapshot
  BY LenProperties, ElementOfSeq
<1>2. txn[w] \in Transaction /\ now[w] \in Nat
  OBVIOUS
<1>3. txn[w].latest # 0 => txn[w].latest \in 1..Len(snaps)
  BY <1>1, <1>2 DEF JobsOK, Transaction
<1>4. BeforeInserted(w) \in [Labels -> Parse]
  BY <1>2 DEF BeforeInserted, Transaction
<1>5. BothInserted(w) \in [Labels -> Parse]
  BY <1>2, <1>4 DEF BothInserted, Transaction
<1>6. ParseFilled(w) \in Seq(Snapshot) /\ Len(ParseFilled(w)) = Len(snaps)
  <2>1. CASE txn[w].latest = 0
    BY <2>1 DEF ParseFilled
  <2>2. CASE txn[w].latest # 0
    <3> DEFINE row == [snaps[txn[w].latest] EXCEPT
                         !.parsed = @ \/ txn[w].before # None]
    <3>1. row \in Snapshot
      <4>1. snaps[txn[w].latest] \in Snapshot
        BY <1>1, <1>3, <2>2
      <4>2. (snaps[txn[w].latest].parsed \/ txn[w].before # None) \in BOOLEAN
        BY Zenon
      <4>3. QED BY <4>1, <4>2, SnapshotUpdates, Zenon
    <3>2. ParseFilled(w) = [snaps EXCEPT ![txn[w].latest] = row]
      BY <2>2 DEF ParseFilled
    <3> HIDE DEF row
    <3>3. QED BY <1>3, <2>2, <3>1, <3>2, ExceptSeq
  <2>3. QED BY <2>1, <2>2
<1>7. ASSUME txn[w].latest # 0
      PROVE  /\ Extended(w) \in Seq(Snapshot) /\ Len(Extended(w)) = Len(snaps)
             /\ Extended(w)[txn[w].latest].parsed \in BOOLEAN
  <2> DEFINE row == [snaps[txn[w].latest] EXCEPT
                       !.last = now[w], !.observations = txn[w].observations + 1]
  <2>1. row \in Snapshot
    <3>1. snaps[txn[w].latest] \in Snapshot
      BY <1>1, <1>3, <1>7
    <3>2. now[w] \in Nat /\ txn[w].observations + 1 \in Nat
      BY <1>2 DEF Transaction
    <3>3. QED BY <3>1, <3>2, SnapshotUpdates, Zenon
  <2>2. Extended(w) = [snaps EXCEPT ![txn[w].latest] = row]
    BY <1>1, <1>3, <1>7 DEF Extended
  <2> HIDE DEF row
  <2>3. Extended(w) \in Seq(Snapshot) /\ Len(Extended(w)) = Len(snaps)
    BY <1>3, <1>7, <2>1, <2>2, ExceptSeq
  <2>4. Extended(w)[txn[w].latest] \in Snapshot
    BY <1>3, <1>7, <2>3, ElementOfSeq
  <2>5. QED BY <2>3, <2>4 DEF Snapshot
<1>8. QED BY <1>4, <1>5, <1>6, <1>7

\* What SnapshotView.from_snapshot makes of a snapshot row.
IsView(v) ==
  /\ v = [text |-> v.text, price |-> v.price, quantity |-> v.quantity,
          unit |-> v.unit, conf |-> v.conf]
  /\ v.price \in Nat \cup {None} /\ v.quantity \in Nat \cup {None} /\ v.conf \in Nat

Percent == Int \cup {None}

\* Rounding a fraction with a positive denominator gives an integer.
LEMMA RoundHalfUpType ==
  ASSUME NEW n \in Int, NEW d \in Nat \ {0}
  PROVE  RoundHalfUp(n, d) \in Int
BY DEF RoundHalfUp

\* pct_change of two prices, or of two quantities, is a percentage or None.
LEMMA PctChangeType ==
  ASSUME NEW b \in Nat \cup {None}, NEW a \in Nat \cup {None}
  PROVE  PctChange(b, a) \in Percent
<1>1. CASE b = None \/ a = None \/ b = 0
  BY <1>1 DEF PctChange, Percent
<1>2. CASE b # None /\ a # None /\ b # 0
  <2>1. 10000 * (a - b) \in Int /\ b \in Nat \ {0}
    BY <1>2
  <2>2. RoundHalfUp(10000 * (a - b), b) \in Int
    BY <2>1, RoundHalfUpType
  <2>3. QED BY <1>2, <2>2 DEF PctChange, Percent
<1>3. QED BY <1>1, <1>2

\* The change of the unit price is a percentage, or None when one is missing.
LEMMA UnitPriceChangeType ==
  ASSUME NEW b, IsView(b), NEW a, IsView(a)
  PROVE  UnitPriceChange(b, a) \in Percent
<1>1. CASE ~HasUnitPrice(b) \/ ~HasUnitPrice(a) \/ b.price = 0
  BY <1>1 DEF UnitPriceChange, Percent
<1>2. CASE HasUnitPrice(b) /\ HasUnitPrice(a) /\ b.price # 0
  <2>1. /\ b.price \in Nat \ {0} /\ a.price \in Nat
        /\ b.quantity \in Nat /\ a.quantity \in Nat \ {0}
    BY <1>2 DEF HasUnitPrice, Comparable, IsView
  <2>2. 10000 * (a.price * b.quantity - b.price * a.quantity) \in Int
    BY <2>1
  <2>3. b.price * a.quantity \in Nat \ {0}
    BY <2>1
  <2>4. RoundHalfUp(10000 * (a.price * b.quantity - b.price * a.quantity),
                    b.price * a.quantity) \in Int
    BY <2>2, <2>3, RoundHalfUpType
  <2>5. QED BY <1>2, <2>4 DEF UnitPriceChange, Percent
<1>3. QED BY <1>1, <1>2

\* classify_transition returns a draft with a known kind and status, or none.
THEOREM ClassifyType ==
  ASSUME NEW b, IsView(b), NEW a, IsView(a)
  PROVE  Classify(b, a) \in Drafts \cup {NoDraft}
<1> DEFINE price == PctChange(b.price, a.price)
           size  == PctChange(b.quantity, a.quantity)
           unit  == UnitPriceChange(b, a)
<1>1. price \in Percent /\ size \in Percent /\ unit \in Percent
  BY PctChangeType, UnitPriceChangeType DEF IsView
<1>2. \A s \in Percent, u \in Percent : PriceOnly(b, a, s, u) \in Drafts
  BY <1>1 DEF PriceOnly, Drafts, Kinds, Statuses, Percent
<1>3. ClassifyUnreadable(b, a) \in Drafts \cup {NoDraft}
  BY <1>1, <1>2 DEF ClassifyUnreadable, Drafts, Kinds, Statuses, Percent
<1>4. ClassifySameSize(b, a, size) \in Drafts \cup {NoDraft}
  BY <1>1, <1>2 DEF ClassifySameSize, Drafts, Kinds, Statuses, Percent
<1>5. ClassifySizeMove(b, a, size) \in Drafts
  BY <1>1 DEF ClassifySizeMove, SizeKind, Drafts, Kinds, Statuses, Percent
<1>6. QED BY <1>3, <1>4, <1>5 DEF Classify

\* SnapshotView.from_snapshot gives the classifier what it expects.
LEMMA SnapshotViewType ==
  ASSUME NEW l \in Labels, NEW c \in Prices, NEW q \in Parse
  PROVE  IsView(SnapshotView(l, c, q))
<1>1. c \in Nat \cup {None}
  BY SnapshotStoreAssumption
<1>2. CASE q = None
  BY <1>1, <1>2 DEF SnapshotView, IsView
<1>3. CASE q # None
  <2>1. q \in [quantity : Nat \cup {None}, unit : STRING \cup {None}, conf : Nat]
    BY <1>3, SnapshotStoreAssumption DEF Parse
  <2>2. QED BY <1>1, <1>3, <2>1 DEF SnapshotView, IsView
<1>4. QED BY <1>2, <1>3

\* The rows observe_product adds in a new state are well typed.
LEMMA NewRowsType ==
  ASSUME TypeInv, NEW w \in Workers, pc[w] = "resolved"
  PROVE  NewSnapshot(w) \in Snapshot /\ NewChanges(w) \subseteq Change
<1> USE DEF TypeInv, TypeOK
<1>1. /\ DOMAIN snaps = 1..Len(snaps) /\ Len(snaps) \in Nat
      /\ \A i \in 1..Len(snaps) : snaps[i] \in Snapshot
  BY LenProperties, ElementOfSeq
<1>2. txn[w] \in Transaction /\ now[w] \in Nat /\ fetched[w] \in Reading
  BY DEF JobsOK, HoldsReading
<1>3. NewSnapshot(w) \in Snapshot
  <2>1. (txn[w].after # None) \in BOOLEAN
    OBVIOUS
  <2>2. fetched[w].label \in Labels /\ fetched[w].price \in Prices
    BY <1>2 DEF Reading
  <2>3. QED BY <1>2, <2>1, <2>2 DEF NewSnapshot, Snapshot
<1>4. ASSUME txn[w].latest # 0, Draft(w) # NoDraft
      PROVE  ChangeRow(w) \in Change
  <2>1. snaps[txn[w].latest] \in Snapshot
    BY <1>1, <1>2, <1>4 DEF JobsOK, Transaction
  <2>2. Draft(w) \in Drafts \cup {NoDraft}
    <3> DEFINE b == SnapshotView(snaps[txn[w].latest].label,
                                 snaps[txn[w].latest].price, txn[w].before)
               a == SnapshotView(fetched[w].label, fetched[w].price, txn[w].after)
    <3>1. IsView(b) /\ IsView(a)
      BY <1>2, <2>1, SnapshotViewType DEF Snapshot, Reading, Transaction
    <3>2. Draft(w) = Classify(b, a)
      BY DEF Draft
    <3> HIDE DEF b, a
    <3>3. QED BY <3>1, <3>2, ClassifyType
  <2>3. Draft(w).kind \in Kinds /\ Draft(w).status \in Statuses
    BY <1>4, <2>2 DEF Drafts
  <2>4. \A q \in Parse : Quantity(q) \in Nat \cup {None}
    BY SnapshotStoreAssumption DEF Parse, Quantity
  <2>5. (Draft(w).sizePct # None) \in BOOLEAN
    OBVIOUS
  <2>6. txn[w].latest \in Nat /\ txn[w].before \in Parse /\ txn[w].after \in Parse
    BY <1>2 DEF Transaction
  <2>7. QED BY <1>1, <2>3, <2>4, <2>5, <2>6 DEF ChangeRow, Change
<1>5. QED BY <1>3, <1>4 DEF NewChanges

\* The commits leave well-typed snapshots, as many as before or one more.
LEMMA CommittedSnapsType ==
  ASSUME TypeInv, NEW w \in Workers
  PROVE  /\ CommitSameState(w) => snaps' \in Seq(Snapshot) /\ Len(snaps') = Len(snaps)
         /\ CommitNewState(w) => snaps' \in Seq(Snapshot) /\ Len(snaps') = Len(snaps) + 1
         /\ FailBasketSameState(w) => snaps' \in Seq(Snapshot) /\ Len(snaps') = Len(snaps)
         /\ FailBasketNewState(w) => snaps' \in Seq(Snapshot) /\ Len(snaps') = Len(snaps)
<1>1. ASSUME CommitSameState(w)
      PROVE  snaps' \in Seq(Snapshot) /\ Len(snaps') = Len(snaps)
  <2> DEFINE i == txn[w].latest
             row == [Extended(w)[i] EXCEPT !.parsed = @ \/ txn[w].before # None]
  <2>1. i # 0 /\ i \in Nat /\ i <= Len(snaps)
    BY <1>1 DEF CommitSameState, SameState, TypeInv, TypeOK, JobsOK, Transaction
  <2>2. Extended(w) \in Seq(Snapshot) /\ Len(Extended(w)) = Len(snaps)
    BY <2>1, WrittenRowsType
  <2>3. i \in 1..Len(Extended(w))
    BY <2>1, <2>2, LenProperties
  <2>4. Extended(w)[i] \in Snapshot
    BY <2>2, <2>3, ElementOfSeq
  <2>5. (Extended(w)[i].parsed \/ txn[w].before # None) \in BOOLEAN
    BY Zenon
  <2>6. row \in Snapshot
    BY <2>4, <2>5, SnapshotUpdates, Zenon
  <2>7. snaps' = [Extended(w) EXCEPT ![i] = row]
    BY <1>1 DEF CommitSameState
  <2> HIDE DEF row, i
  <2>8. QED BY <2>2, <2>3, <2>6, <2>7, ExceptSeq
<1>2. ASSUME CommitNewState(w)
      PROVE  snaps' \in Seq(Snapshot) /\ Len(snaps') = Len(snaps) + 1
  <2>1. NewSnapshot(w) \in Snapshot
    BY <1>2, NewRowsType DEF CommitNewState
  <2>2. ParseFilled(w) \in Seq(Snapshot) /\ Len(ParseFilled(w)) = Len(snaps)
    BY WrittenRowsType
  <2>3. snaps' = Append(ParseFilled(w), NewSnapshot(w))
    BY <1>2 DEF CommitNewState
  <2>4. QED BY <2>1, <2>2, <2>3, AppendProperties
<1>3. ASSUME FailBasketSameState(w)
      PROVE  snaps' \in Seq(Snapshot) /\ Len(snaps') = Len(snaps)
  BY <1>3, WrittenRowsType DEF FailBasketSameState, LatestUnparsed
<1>4. ASSUME FailBasketNewState(w)
      PROVE  snaps' \in Seq(Snapshot) /\ Len(snaps') = Len(snaps)
  BY <1>4, WrittenRowsType DEF FailBasketNewState
<1>5. QED BY <1>1, <1>2, <1>3, <1>4

\* A transaction with the parse of the new state: nothing else in it changes.
WithAfter(t, q, b) == [t EXCEPT !.after = q, !.afterNew = b]

LEMMA WithAfterFields ==
  \A t \in Transaction, q \in Parse, b \in BOOLEAN :
    LET u == WithAfter(t, q, b)
    IN  /\ u \in Transaction
        /\ u.locked = t.locked /\ u.latest = t.latest
        /\ u.observations = t.observations
        /\ u.before = t.before /\ u.beforeNew = t.beforeNew
        /\ u.after = q /\ u.afterNew = b
BY DEF Transaction, WithAfter

\* What Resolve changes: the parse of the new state in its own transaction.
LEMMA ResolvedTransaction ==
  ASSUME TypeInv, NEW w \in Workers, Resolve(w)
  PROVE  \E r \in Resolution :
           /\ r \in IF Held(w) THEN {[parse |-> txn[w].before, inserts |-> FALSE]}
                    ELSE Resolutions(fetched[w].label)
           /\ txn' \in [Workers -> Transaction]
           /\ \A v \in Workers : v # w => txn'[v] = txn[v]
           /\ txn'[w].locked = txn[w].locked /\ txn'[w].latest = txn[w].latest
           /\ txn'[w].observations = txn[w].observations
           /\ txn'[w].before = txn[w].before /\ txn'[w].beforeNew = txn[w].beforeNew
           /\ txn'[w].after = r.parse /\ txn'[w].afterNew = r.inserts
<1>1. txn \in [Workers -> Transaction] /\ txn[w] \in Transaction
      /\ fetched[w] \in Reading /\ pc[w] = "read"
  BY DEF Resolve, TypeInv, TypeOK, JobsOK, HoldsReading
<1>2. PICK r \in IF Held(w) THEN {[parse |-> txn[w].before, inserts |-> FALSE]}
                 ELSE Resolutions(fetched[w].label) :
        txn' = [txn EXCEPT ![w].after = r.parse, ![w].afterNew = r.inserts]
  BY Zenon DEF Resolve
<1>3. r \in Resolution
  <2>1. CASE Held(w)
    BY <1>1, <1>2, <2>1 DEF Resolution, Transaction
  <2>2. CASE ~Held(w)
    <3>1. Resolutions(fetched[w].label) \subseteq Resolution
      BY <1>1, ResolutionsType DEF Reading, TypeInv
    <3>2. r \in Resolutions(fetched[w].label)
      BY <1>2, <2>2
    <3>3. QED BY <3>1, <3>2
  <2>3. QED BY <2>1, <2>2
<1>4. r.parse \in Parse /\ r.inserts \in BOOLEAN
  BY <1>3 DEF Resolution
<1> DEFINE t == WithAfter(txn[w], r.parse, r.inserts)
<1>5. t = [txn[w] EXCEPT !.after = r.parse, !.afterNew = r.inserts]
  BY Zenon DEF WithAfter
<1>6. txn' = [txn EXCEPT ![w] = t]
  BY <1>2, <1>5, Zenon
<1> HIDE DEF t
<1>7. /\ t \in Transaction
      /\ t.locked = txn[w].locked /\ t.latest = txn[w].latest
      /\ t.observations = txn[w].observations
      /\ t.before = txn[w].before /\ t.beforeNew = txn[w].beforeNew
      /\ t.after = r.parse /\ t.afterNew = r.inserts
  BY <1>1, <1>4, WithAfterFields DEF t
<1>8. txn'[w] = t /\ txn' \in [Workers -> Transaction]
      /\ \A v \in Workers : v # w => txn'[v] = txn[v]
  BY <1>1, <1>6, <1>7
<1>9. QED BY <1>2, <1>3, <1>7, <1>8, Zenon

\* Steps of a job before the transaction ends.
LEMMA OpenJobTypeStep ==
  ASSUME TypeInv, NEW w \in Workers, StartRun(w) \/ Fetch(w) \/ Begin(w) \/ Resolve(w)
  PROVE  TypeInv'
<1> USE DEF TypeInv, TypeOK, dbVars, envVars, jobVars
<1>0. Len(snaps) \in Nat
  BY LenProperties
<1>1. CASE StartRun(w)
  <2>1. JobsOK'
    BY <1>1 DEF StartRun, JobsOK, HoldsReading
  <2>2. QED BY <1>1, <2>1 DEF StartRun, Steps
<1>2. CASE Fetch(w)
  <2>1. fetched' \in [Workers -> Reading \cup {None}] /\ fetched'[w] \in Reading
    BY <1>2 DEF Fetch
  <2>2. JobsOK'
    BY <1>2, <2>1 DEF Fetch, JobsOK, HoldsReading
  <2>3. QED BY <1>2, <2>1, <2>2 DEF Fetch, Steps
<1>3. CASE Begin(w)
  <2>1. PICK lock \in UpdatesProduct(w), r \in LatestResolutions :
          txn' = [txn EXCEPT ![w] =
            [latest |-> LatestSnapshot, locked |-> lock,
             observations |-> IF LatestSnapshot = 0 THEN 0
                              ELSE snaps[LatestSnapshot].observations,
             before |-> r.parse, beforeNew |-> r.inserts,
             after |-> None, afterNew |-> FALSE]]
    BY <1>3 DEF Begin
  <2>2. LatestSnapshot \in Nat /\ LatestSnapshot <= Len(snaps)
    BY <1>0, LatestSnapshotType
  <2>3. LatestSnapshot # 0 => snaps[LatestSnapshot] \in Snapshot
    BY <1>0, <2>2, ElementOfSeq
  <2>4. r \in Resolution
    <3>1. CASE LatestSnapshot = 0
      <4>1. NoResolution \in Resolution
        BY DEF Resolution, NoResolution, Parse
      <4>2. QED BY <3>1, <4>1 DEF LatestResolutions
    <3>2. CASE LatestSnapshot # 0
      <4>1. snaps[LatestSnapshot].label \in Labels
        BY <2>3, <3>2 DEF Snapshot
      <4>2. r \in Resolutions(snaps[LatestSnapshot].label)
        BY <3>2 DEF LatestResolutions
      <4>3. QED BY <4>1, <4>2, ResolutionsType
    <3>3. QED BY <3>1, <3>2
  <2>5. lock \in BOOLEAN
    BY DEF UpdatesProduct
  <2>6. txn' \in [Workers -> Transaction]
    BY <2>1, <2>2, <2>3, <2>4, <2>5 DEF Transaction, Resolution, Snapshot, Parse
  <2>7. JobsOK'
    BY <1>3, <2>1, <2>2 DEF Begin, JobsOK, HoldsReading
  <2>8. QED BY <1>3, <2>6, <2>7 DEF Begin, Steps
<1>4. CASE Resolve(w)
  <2>1. /\ pc' = [pc EXCEPT ![w] = "resolved"] /\ pc[w] = "read"
        /\ UNCHANGED <<dbVars, envVars, now, fetched, clock, reparse, commits>>
    BY <1>4, Zenon DEF Resolve
  <2>2. txn' \in [Workers -> Transaction]
        /\ \A v \in Workers : txn'[v].latest = txn[v].latest
    BY <1>4, ResolvedTransaction, Zenon
  <2>3. JobsOK'
    BY <2>1, <2>2 DEF JobsOK, HoldsReading
  <2>4. QED BY <2>1, <2>2, <2>3 DEF Steps
<1>5. QED BY <1>1, <1>2, <1>3, <1>4

\* Steps that end a run or a transaction.
LEMMA EndJobTypeStep ==
  ASSUME TypeInv, NEW w \in Workers,
         \/ FinishRun(w) \/ CommitSameState(w) \/ CommitNewState(w) \/ FailRefresh(w)
         \/ FailBasketSameState(w) \/ FailBasketNewState(w) \/ Kill(w)
  PROVE  TypeInv'
<1>0. Len(snaps) \in Nat /\ snaps \in Seq(Snapshot)
  BY LenProperties DEF TypeInv, TypeOK
<1>1. CASE FinishRun(w)
  <2>1. EndOfRun(w) /\ snaps' = snaps
    BY <1>1 DEF FinishRun, dbVars
  <2>2. QED BY <1>0, <1>1, <2>1, EndOfRunType
            DEF FinishRun, TypeInv, TypeOK, dbVars, envVars
<1>2. CASE CommitSameState(w)
  <2>1. snaps' \in Seq(Snapshot) /\ Len(snaps') = Len(snaps) /\ Leave(w)
    BY <1>2, CommittedSnapsType DEF CommitSameState
  <2>2. parses' \in [Labels -> Parse] /\ seen' \in Nat /\ commits' \in Nat
    <3>1. /\ parses' = BeforeInserted(w) /\ commits' = commits + 1
          /\ TouchProduct(w)
      BY <1>2, Zenon DEF CommitSameState
    <3>2. QED BY <3>1, WrittenRowsType DEF TouchProduct, TypeInv, TypeOK
  <2>3. UNCHANGED <<changes, envVars, clock, reparse>>
    BY <1>2, Zenon DEF CommitSameState
  <2>4. QED BY <1>0, <2>1, <2>2, <2>3, LeaveType DEF TypeInv, TypeOK, envVars
<1>3. CASE CommitNewState(w)
  <2>1. snaps' \in Seq(Snapshot) /\ Len(snaps') = Len(snaps) + 1 /\ Leave(w)
    BY <1>3, CommittedSnapsType DEF CommitNewState
  <2>2. parses' \in [Labels -> Parse] /\ seen' \in Nat /\ commits' \in Nat
    BY <1>3, WrittenRowsType DEF CommitNewState, TouchProduct, TypeInv, TypeOK
  <2>3. changes' \subseteq Change
    BY <1>3, NewRowsType DEF CommitNewState, TypeInv, TypeOK
  <2>4. QED BY <1>0, <1>3, <2>1, <2>2, <2>3, LeaveType
            DEF CommitNewState, TypeInv, TypeOK, envVars
<1>4. CASE FailRefresh(w)
  <2>1. Leave(w) /\ snaps' = snaps
    BY <1>4 DEF FailRefresh, dbVars
  <2>2. QED BY <1>0, <1>4, <2>1, LeaveType
            DEF FailRefresh, TypeInv, TypeOK, dbVars, envVars
<1>5. CASE FailBasketSameState(w)
  <2>1. snaps' \in Seq(Snapshot) /\ Len(snaps') = Len(snaps) /\ Leave(w)
    BY <1>5, CommittedSnapsType DEF FailBasketSameState
  <2>2. seen' \in Nat /\ commits' \in Nat
    BY <1>5 DEF FailBasketSameState, TouchProduct, TypeInv, TypeOK
  <2>3. QED BY <1>0, <1>5, <2>1, <2>2, LeaveType
            DEF FailBasketSameState, TypeInv, TypeOK, envVars
<1>6. CASE FailBasketNewState(w)
  <2>1. snaps' \in Seq(Snapshot) /\ Len(snaps') = Len(snaps) /\ Leave(w)
    BY <1>6, CommittedSnapsType DEF FailBasketNewState
  <2>2. parses' \in [Labels -> Parse] /\ seen' \in Nat
    BY <1>6, WrittenRowsType DEF FailBasketNewState, TouchProduct, TypeInv, TypeOK
  <2>3. QED BY <1>0, <1>6, <2>1, <2>2, LeaveType
            DEF FailBasketNewState, TypeInv, TypeOK, envVars
<1>7. CASE Kill(w)
  <2>1. EndOfRun(w) /\ snaps' = snaps
    BY <1>7 DEF Kill, dbVars
  <2>2. QED BY <1>0, <1>7, <2>1, EndOfRunType
            DEF Kill, TypeInv, TypeOK, dbVars, envVars
<1>8. QED BY <1>1, <1>2, <1>3, <1>4, <1>5, <1>6, <1>7

\* Ticking a row off the reparse command's list, and with its row revised.
Commands == [on : BOOLEAN, todo : SUBSET Labels, revised : SUBSET Labels]
Ticked(r, l) == [r EXCEPT !.todo = @ \ {l}]
TickedRead(r, l) ==
  [r EXCEPT !.todo = @ \ {l},
            !.revised = IF parser[l] = parses[l] THEN @ ELSE @ \cup {l}]

LEMMA TickedType ==
  \A r \in Commands, l \in Labels : Ticked(r, l) \in Commands /\ TickedRead(r, l) \in Commands
BY DEF Commands, Ticked, TickedRead

\* Deploys and the reparse command.
LEMMA OtherTypeStep ==
  ASSUME TypeInv, Deploy \/ Reparse
  PROVE  TypeInv'
<1> USE DEF TypeInv, TypeOK, JobsOK, HoldsReading, dbVars, envVars, jobVars
<1>1. CASE Deploy
  BY <1>1 DEF Deploy
<1>2. CASE ReparseStart
  BY <1>2 DEF ReparseStart
<1>3. ASSUME NEW l \in Labels, ReparseRow(l) PROVE TypeInv'
  <2>1. parses' \in [Labels -> Parse]
    BY <1>3 DEF ReparseRow, Parse
  <2>2. reparse' \in [on : BOOLEAN, todo : SUBSET Labels, revised : SUBSET Labels]
    <3>1. reparse' = Ticked(reparse, l) \/ reparse' = TickedRead(reparse, l)
      BY <1>3, Zenon DEF ReparseRow, Ticked, TickedRead
    <3>2. reparse \in Commands
      BY DEF Commands
    <3>3. reparse' \in Commands
      BY <3>1, <3>2, TickedType
    <3>4. QED BY <3>3 DEF Commands
  <2>3. QED BY <1>3, <2>1, <2>2 DEF ReparseRow
<1>4. CASE ReparseDemote
  <2>1. \A c \in Change : Demoted(c) \in Change
    BY DEF Demoted, Change, Statuses
  <2>2. changes' \subseteq Change
    BY <1>4, <2>1 DEF ReparseDemote
  <2>3. QED BY <1>4, <2>2 DEF ReparseDemote
<1>5. CASE ReparseFail
  BY <1>5 DEF ReparseFail
<1>6. QED BY <1>1, <1>2, <1>3, <1>4, <1>5 DEF Reparse

\* Every step keeps the types.
LEMMA TypeInvStep == TypeInv /\ [Next]_vars => TypeInv'
<1> SUFFICES ASSUME TypeInv, [Next]_vars PROVE TypeInv'
  OBVIOUS
<1>1. CASE Deploy \/ Reparse
  BY <1>1, OtherTypeStep
<1>2. ASSUME NEW w \in Workers, Job(w) PROVE TypeInv'
  BY <1>2, OpenJobTypeStep, EndJobTypeStep DEF Job
<1>3. CASE UNCHANGED vars
  BY <1>3 DEF TypeInv, TypeOK, JobsOK, HoldsReading, vars, dbVars, envVars, jobVars
<1>4. QED BY <1>1, <1>2, <1>3 DEF Next

(***************************************************************************)
(* Type correctness of the store and of the jobs: every row observe.py and *)
(* maintenance.py write is of its type, whatever jobs run and fail.        *)
(***************************************************************************)
THEOREM TypeCorrect == Spec => []TypeOK
<1>1. TypeInv => TypeOK
  BY DEF TypeInv
<1>2. Spec => []TypeInv
  BY InitTypeInv, TypeInvStep, PTL DEF Spec
<1>3. QED BY <1>1, <1>2, PTL

---------------------------------------------------------------------------
(* Overlapping refreshes are serialised by the touched product row         *)

(***************************************************************************)
(* Why a refresh always holds the row lock while it observes: the start    *)
(* times of the running refreshes differ from each other and from the      *)
(* product's last_seen_at, so the autoflushed UPDATE is never left out.    *)
(***************************************************************************)
StartTimesDiffer ==
  /\ seen <= clock
  /\ \A w \in Workers : pc[w] # "idle" =>
       /\ now[w] <= clock /\ now[w] # seen
       /\ \A v \in Workers : pc[v] # "idle" /\ v # w => now[v] # now[w]

OneAtATime ==
  \A w \in Workers : InTransaction(w) =>
    /\ txn[w].locked
    /\ \A v \in Workers : InTransaction(v) => v = w

StableInv == TypeInv /\ StartTimesDiffer /\ OneAtATime /\ LatestStable

LEMMA InitStableInv == Init => StableInv
<1> SUFFICES ASSUME Init PROVE StableInv
  OBVIOUS
<1>1. StartTimesDiffer /\ OneAtATime /\ LatestStable
  BY DEF Init, StartTimesDiffer, OneAtATime, LatestStable, InTransaction
<1>2. QED BY <1>1, InitTypeInv DEF StableInv

\* A run that ends without a commit takes nothing from the others.
LEMMA EndOfRunStable ==
  ASSUME StableInv, NEW w \in Workers, EndOfRun(w), UNCHANGED <<seen, snaps, clock>>
  PROVE  StartTimesDiffer' /\ OneAtATime' /\ LatestStable'
<1> USE DEF StableInv, TypeInv, TypeOK, EndOfRun
<1>1. \A v \in Workers : pc'[v] # "idle" =>
        v # w /\ pc'[v] = pc[v] /\ now'[v] = now[v] /\ txn'[v] = txn[v]
  OBVIOUS
<1>2. \A v \in Workers : InTransaction(v)' => InTransaction(v) /\ txn'[v] = txn[v]
  BY <1>1 DEF InTransaction
<1>3. LatestSnapshot' = LatestSnapshot
  BY DEF LatestSnapshot
<1>4. StartTimesDiffer'
  BY <1>1 DEF StartTimesDiffer
<1>5. OneAtATime'
  BY <1>2 DEF OneAtATime
<1>6. LatestStable'
  BY <1>2, <1>3 DEF LatestStable
<1>7. QED BY <1>4, <1>5, <1>6

\* Steps that write no row: nothing another transaction read changes.
LEMMA QuietStableStep ==
  ASSUME StableInv, Baskets = {}, NEW w \in Workers,
         StartRun(w) \/ Fetch(w) \/ FinishRun(w) \/ FailRefresh(w) \/ Kill(w)
  PROVE  StartTimesDiffer' /\ OneAtATime' /\ LatestStable'
<1>1. CASE StartRun(w) \/ Fetch(w)
  <2>1. \A v \in Workers : InTransaction(v)' => InTransaction(v)
    BY <1>1 DEF InTransaction, StartRun, Fetch, StableInv, TypeInv, TypeOK
  <2>2. snaps' = snaps /\ txn' = txn /\ seen' = seen /\ LatestSnapshot' = LatestSnapshot
    <3>1. snaps' = snaps /\ txn' = txn /\ seen' = seen
      BY <1>1 DEF StartRun, Fetch, dbVars
    <3>2. QED BY <3>1 DEF LatestSnapshot
  <2>3. OneAtATime' /\ LatestStable'
    BY <2>1, <2>2 DEF OneAtATime, LatestStable, StableInv
  <2>4. CASE StartRun(w)
    <3>1. clock \in Nat /\ clock' = clock + 1 /\ pc[w] = "idle"
      BY <2>4 DEF StartRun, StableInv, TypeInv, TypeOK
    <3>2. \A v \in Workers : /\ now[v] \in Nat
                             /\ now'[v] = IF v = w THEN clock + 1 ELSE now[v]
                             /\ pc'[v] = IF v = w THEN "search" ELSE pc[v]
      BY <2>4 DEF StartRun, StableInv, TypeInv, TypeOK
    <3>3. StartTimesDiffer'
      <4>1. seen \in Nat /\ seen <= clock
        BY DEF StartTimesDiffer, StableInv, TypeInv, TypeOK
      <4>2. ASSUME NEW v \in Workers, pc'[v] # "idle"
            PROVE  now'[v] <= clock' /\ now'[v] # seen'
        BY <2>2, <3>1, <3>2, <4>1, <4>2 DEF StartTimesDiffer, StableInv
      <4>3. ASSUME NEW v \in Workers, pc'[v] # "idle",
                   NEW u \in Workers, pc'[u] # "idle", u # v
            PROVE  now'[u] # now'[v]
        <5>1. \A x \in Workers : x # w /\ pc'[x] # "idle" => now'[x] <= clock
          BY <3>2 DEF StartTimesDiffer, StableInv
        <5>2. CASE u # w /\ v # w
          BY <3>2, <4>3, <5>2 DEF StartTimesDiffer, StableInv
        <5>3. CASE u = w \/ v = w
          BY <3>1, <3>2, <4>3, <5>1, <5>3
        <5>4. QED BY <5>2, <5>3
      <4>4. QED BY <2>2, <3>1, <4>1, <4>2, <4>3 DEF StartTimesDiffer
    <3>4. QED BY <2>3, <3>3
  <2>5. CASE Fetch(w)
    <3>1. now' = now /\ clock' = clock
          /\ \A v \in Workers : pc'[v] # "idle" => pc[v] # "idle"
      BY <2>5 DEF Fetch, StableInv, TypeInv, TypeOK
    <3>2. QED BY <2>2, <2>3, <3>1 DEF StartTimesDiffer, StableInv
  <2>6. QED BY <1>1, <2>4, <2>5
<1>2. CASE FinishRun(w) \/ FailRefresh(w) \/ Kill(w)
  <2>1. EndOfRun(w) /\ UNCHANGED <<seen, snaps, clock>>
    BY <1>2 DEF FinishRun, FailRefresh, Kill, Leave, dbVars
  <2>2. QED BY <2>1, EndOfRunStable
<1>3. QED BY <1>1, <1>2

\* Begin takes the lock and reads the latest row.
LEMMA BeginStableStep ==
  ASSUME StableInv, NEW w \in Workers, Begin(w)
  PROVE  StartTimesDiffer' /\ OneAtATime' /\ LatestStable'
<1>1. seen # now[w] /\ UpdatesProduct(w) = {TRUE}
  BY DEF StableInv, StartTimesDiffer, Begin, UpdatesProduct
<1>2. RowFree
  BY <1>1 DEF Begin
<1>3. \A v \in Workers : ~InTransaction(v)
  BY <1>2 DEF RowFree, StableInv, OneAtATime
<1>4. /\ txn'[w].locked /\ txn'[w].latest = LatestSnapshot
      /\ LatestSnapshot # 0 =>
           txn'[w].observations = snaps[LatestSnapshot].observations
  BY <1>1 DEF Begin, StableInv, TypeInv, TypeOK
<1>5. \A v \in Workers : InTransaction(v)' => v = w
  BY <1>3 DEF Begin, InTransaction, StableInv, TypeInv, TypeOK
<1>6. snaps' = snaps /\ LatestSnapshot' = LatestSnapshot
  BY DEF Begin, dbVars, LatestSnapshot
<1>7. StartTimesDiffer'
  BY DEF StableInv, StartTimesDiffer, Begin, TypeInv, TypeOK, dbVars
<1>8. QED BY <1>4, <1>5, <1>6, <1>7 DEF OneAtATime, LatestStable

\* Resolve writes only what the transaction holds of the new state.
LEMMA ResolveStableStep ==
  ASSUME StableInv, NEW w \in Workers, Resolve(w)
  PROVE  StartTimesDiffer' /\ OneAtATime' /\ LatestStable'
<1>1. /\ pc[w] = "read" /\ pc' = [pc EXCEPT ![w] = "resolved"]
      /\ UNCHANGED <<dbVars, envVars, now, fetched, clock, reparse, commits>>
  BY Zenon DEF Resolve
<1>2. \A v \in Workers : /\ txn'[v].locked = txn[v].locked
                         /\ txn'[v].latest = txn[v].latest
                         /\ txn'[v].observations = txn[v].observations
  BY ResolvedTransaction, Zenon DEF StableInv
<1>3. \A v \in Workers : (InTransaction(v)' <=> InTransaction(v))
                         /\ (pc'[v] = "idle" <=> pc[v] = "idle")
  BY <1>1 DEF InTransaction, StableInv, TypeInv, TypeOK
<1>4. LatestSnapshot' = LatestSnapshot /\ snaps' = snaps
  BY <1>1 DEF dbVars, LatestSnapshot
<1>5. StartTimesDiffer'
  BY <1>1, <1>3 DEF StableInv, StartTimesDiffer, dbVars
<1>6. QED BY <1>2, <1>3, <1>4, <1>5 DEF StableInv, OneAtATime, LatestStable

\* A commit ends the only transaction there is and moves last_seen_at to its start.
LEMMA CommitStableStep ==
  ASSUME StableInv, Baskets = {}, NEW w \in Workers,
         CommitSameState(w) \/ CommitNewState(w)
  PROVE  StartTimesDiffer' /\ OneAtATime' /\ LatestStable'
<1>1. InTransaction(w) /\ EndOfRun(w) /\ TouchProduct(w) /\ clock' = clock
  <2>1. w \in Refreshers
    BY DEF Workers
  <2>2. QED BY <2>1, Zenon DEF CommitSameState, CommitNewState, InTransaction, Leave
<1>2. seen' = now[w]
  BY <1>1 DEF TouchProduct, StableInv, OneAtATime
<1>3. \A v \in Workers : ~InTransaction(v)'
  BY <1>1 DEF EndOfRun, InTransaction, StableInv, OneAtATime, TypeInv, TypeOK
<1>4. StartTimesDiffer'
  BY <1>1, <1>2 DEF StableInv, StartTimesDiffer, EndOfRun, InTransaction, TypeInv, TypeOK
<1>5. QED BY <1>3, <1>4 DEF OneAtATime, LatestStable

LEMMA StableInvStep ==
  ASSUME Baskets = {}, StableInv, [Next]_vars
  PROVE  StableInv'
<1>1. TypeInv'
  BY TypeInvStep DEF StableInv
<1>2. ASSUME NEW w \in Workers, Job(w)
      PROVE  StartTimesDiffer' /\ OneAtATime' /\ LatestStable'
  <2>1. ~FailBasketSameState(w) /\ ~FailBasketNewState(w)
    BY Zenon DEF FailBasketSameState, FailBasketNewState
  <2>2. QED BY <1>2, <2>1, QuietStableStep, BeginStableStep, ResolveStableStep,
               CommitStableStep DEF Job
<1>3. ASSUME UNCHANGED <<seen, snaps, pc, now, txn, clock>>
      PROVE  StartTimesDiffer' /\ OneAtATime' /\ LatestStable'
  BY <1>3 DEF StableInv, StartTimesDiffer, OneAtATime, LatestStable, InTransaction,
              LatestSnapshot
<1>4. Deploy \/ Reparse \/ UNCHANGED vars =>
        UNCHANGED <<seen, snaps, pc, now, txn, clock>>
  BY Zenon DEF Deploy, Reparse, ReparseStart, ReparseRow, ReparseDemote, ReparseFail,
               vars, dbVars, jobVars
<1>5. QED BY <1>1, <1>2, <1>3, <1>4 DEF Next, StableInv

(***************************************************************************)
(* Any number of refreshes may overlap, with any reparse beside them: what *)
(* an observation read of the latest snapshot is still there when it       *)
(* commits.  (A basket build can meet a product twice under one start      *)
(* time, and is left out.)                                                 *)
(***************************************************************************)
THEOREM RefreshesReadTheLatest ==
  ASSUME Baskets = {}
  PROVE  Spec => []LatestStable
<1>1. StableInv => LatestStable
  BY DEF StableInv
<1>2. StableInv /\ [Next]_vars => StableInv'
  BY StableInvStep
<1>3. QED BY <1>1, <1>2, InitStableInv, PTL DEF Spec

---------------------------------------------------------------------------
(* What the steps of a job leave alone                                     *)

\* A job touches no other job's locals or transaction.
LEMMA JobFrame ==
  ASSUME TypeInv, NEW w \in Workers, Job(w)
  PROVE  \A v \in Workers : v # w =>
           /\ pc'[v] = pc[v] /\ now'[v] = now[v]
           /\ fetched'[v] = fetched[v] /\ txn'[v] = txn[v]
<1> USE DEF TypeInv, TypeOK
<1>1. CASE Resolve(w)
  BY <1>1, ResolvedTransaction, Zenon DEF Resolve
<1>2. CASE StartRun(w) \/ Fetch(w)
  BY <1>2 DEF StartRun, Fetch
<1>3. CASE Begin(w)
  BY <1>3 DEF Begin
<1>4. ASSUME EndOfRun(w)
      PROVE  \A v \in Workers : v # w =>
               /\ pc'[v] = pc[v] /\ now'[v] = now[v]
               /\ fetched'[v] = fetched[v] /\ txn'[v] = txn[v]
  BY <1>4 DEF EndOfRun
<1>5. ASSUME Leave(w)
      PROVE  \A v \in Workers : v # w =>
               /\ pc'[v] = pc[v] /\ now'[v] = now[v]
               /\ fetched'[v] = fetched[v] /\ txn'[v] = txn[v]
  BY <1>4, <1>5 DEF Leave
<1>6. CASE FinishRun(w) \/ Kill(w)
  BY <1>4, <1>6, Zenon DEF FinishRun, Kill
<1>7. CASE \/ CommitSameState(w) \/ CommitNewState(w) \/ FailRefresh(w)
           \/ FailBasketSameState(w) \/ FailBasketNewState(w)
  BY <1>5, <1>7, Zenon DEF CommitSameState, CommitNewState, FailRefresh,
                           FailBasketSameState, FailBasketNewState
<1>8. QED BY <1>1, <1>2, <1>3, <1>6, <1>7 DEF Job

\* The steps that write no row and leave the job outside a transaction.
QuietJob(w) ==
  StartRun(w) \/ Fetch(w) \/ FinishRun(w) \/ FailRefresh(w) \/ Kill(w)

\* The steps that end a transaction with a commit.
CommitJob(w) ==
  \/ CommitSameState(w) \/ CommitNewState(w)
  \/ FailBasketSameState(w) \/ FailBasketNewState(w)

LEMMA JobCases ==
  ASSUME NEW w \in Workers, Job(w)
  PROVE  QuietJob(w) \/ Begin(w) \/ Resolve(w) \/ CommitJob(w)
BY Zenon DEF Job, QuietJob, CommitJob

LEMMA QuietJobFrame ==
  ASSUME TypeInv, NEW w \in Workers, QuietJob(w)
  PROVE  /\ UNCHANGED <<dbVars, envVars, commits, reparse>>
         /\ ~InTransaction(w)'
<1> USE DEF TypeInv, TypeOK, InTransaction
<1>1. CASE StartRun(w) \/ Fetch(w)
  BY <1>1 DEF StartRun, Fetch
<1>2. CASE FinishRun(w) \/ Kill(w)
  BY <1>2 DEF FinishRun, Kill, EndOfRun
<1>3. CASE FailRefresh(w)
  BY <1>3 DEF FailRefresh, Leave, EndOfRun
<1>4. QED BY <1>1, <1>2, <1>3 DEF QuietJob

LEMMA LeaveEnds ==
  ASSUME TypeInv, NEW w \in Workers, Leave(w)
  PROVE  /\ pc'[w] \in {"idle", "search"}
         /\ pc'[w] # "idle" => now'[w] = now[w]
BY DEF TypeInv, TypeOK, Leave, EndOfRun

LEMMA CommitJobFrame ==
  ASSUME TypeInv, NEW w \in Workers, CommitJob(w)
  PROVE  /\ InTransaction(w) /\ ~InTransaction(w)'
         /\ pc'[w] # "idle" => now'[w] = now[w]
         /\ UNCHANGED <<clock, reparse, envVars>>
<1>1. InTransaction(w) /\ Leave(w) /\ UNCHANGED <<clock, reparse, envVars>>
  BY Zenon DEF CommitJob, CommitSameState, CommitNewState, InTransaction,
               FailBasketSameState, FailBasketNewState
<1>2. QED BY <1>1, LeaveEnds DEF InTransaction

\* Deploys, the reparse command and stuttering leave the jobs and the snapshots alone.
LEMMA OtherFrame ==
  ASSUME Deploy \/ Reparse \/ UNCHANGED vars
  PROVE  UNCHANGED <<seen, snaps, jobVars, clock, commits>>
BY Zenon DEF Deploy, Reparse, ReparseStart, ReparseRow, ReparseDemote, ReparseFail,
             vars, dbVars

---------------------------------------------------------------------------
(* What a commit writes to the snapshots, row by row                       *)

RowsOK == /\ DOMAIN snaps = 1..Len(snaps) /\ Len(snaps) \in Nat
          /\ \A i \in 1..Len(snaps) : snaps[i] \in Snapshot

LEMMA RowsAreOK == TypeInv => RowsOK
BY LenProperties, ElementOfSeq DEF TypeInv, TypeOK, RowsOK

\* The parsed flag a transaction leaves on row i.
Filled(w, i) == snaps[i].parsed \/ (i = txn[w].latest /\ txn[w].before # None)

\* Columns of a row that no transaction changes, and those only an extension does.
SameIdentity(r, s) == r.label = s.label /\ r.price = s.price /\ r.first = s.first
SameSpan(r, s) == r.last = s.last /\ r.observations = s.observations

LEMMA FilledRows ==
  ASSUME TypeInv, NEW w \in Workers
  PROVE  \A i \in 1..Len(snaps) :
           /\ SameIdentity(ParseFilled(w)[i], snaps[i])
           /\ SameSpan(ParseFilled(w)[i], snaps[i])
           /\ ParseFilled(w)[i].parsed <=> Filled(w, i)
<1> USE RowsAreOK DEF RowsOK, SameIdentity, SameSpan, Filled, ParseFilled
<1>1. \A i \in 1..Len(snaps) : i # 0
  OBVIOUS
<1>2. txn[w].latest # 0 => txn[w].latest \in 1..Len(snaps)
  BY DEF TypeInv, TypeOK, JobsOK, Transaction
<1>3. CASE txn[w].latest = 0
  BY <1>1, <1>3
<1>4. CASE txn[w].latest # 0
  <2>1. snaps[txn[w].latest] \in Snapshot
    BY <1>2, <1>4
  <2>2. QED BY <1>2, <1>4, <2>1 DEF Snapshot
<1>5. QED BY <1>3, <1>4

\* The row an unchanged state extends.
LEMMA ExtendedRows ==
  ASSUME TypeInv, NEW w \in Workers, txn[w].latest # 0
  PROVE  /\ txn[w].latest \in 1..Len(snaps)
         /\ \A i \in 1..Len(snaps) :
              /\ SameIdentity(Extended(w)[i], snaps[i])
              /\ Extended(w)[i].parsed = snaps[i].parsed
              /\ i # txn[w].latest => SameSpan(Extended(w)[i], snaps[i])
              /\ i = txn[w].latest =>
                   /\ Extended(w)[i].last = now[w]
                   /\ Extended(w)[i].observations = txn[w].observations + 1
<1> USE RowsAreOK DEF RowsOK, SameIdentity, SameSpan, Extended
<1>1. txn[w].latest \in 1..Len(snaps)
  BY DEF TypeInv, TypeOK, JobsOK, Transaction
<1>2. snaps[txn[w].latest] \in Snapshot
  BY <1>1
<1>3. QED BY <1>1, <1>2 DEF Snapshot

\* A commit in an unchanged state: the latest row is extended, and may be linked.
LEMMA SameStateRows ==
  ASSUME TypeInv, NEW w \in Workers, CommitSameState(w) \/ FailBasketSameState(w)
  PROVE  /\ txn[w].latest \in 1..Len(snaps) /\ Len(snaps') = Len(snaps)
         /\ \A i \in 1..Len(snaps) :
              /\ SameIdentity(snaps'[i], snaps[i])
              /\ snaps[i].parsed => snaps'[i].parsed
              /\ CommitSameState(w) => (snaps'[i].parsed <=> Filled(w, i))
              /\ i # txn[w].latest => SameSpan(snaps'[i], snaps[i])
              /\ i = txn[w].latest =>
                   /\ snaps'[i].last = now[w]
                   /\ snaps'[i].observations = txn[w].observations + 1
<1> DEFINE k == txn[w].latest
<1>1. k # 0
  BY DEF CommitSameState, FailBasketSameState, SameState
<1>2. k \in 1..Len(snaps) /\ Len(snaps') = Len(snaps)
  BY <1>1, ExtendedRows, CommittedSnapsType
<1>3. Extended(w) \in Seq(Snapshot) /\ Len(Extended(w)) = Len(snaps)
  BY <1>1, WrittenRowsType
<1>4. CASE CommitSameState(w)
  <2>1. snaps' = [Extended(w) EXCEPT ![k].parsed = @ \/ txn[w].before # None]
    BY <1>4 DEF CommitSameState
  <2>2. /\ DOMAIN Extended(w) = 1..Len(snaps)
        /\ Extended(w)[k] \in Snapshot
    BY <1>2, <1>3, LenProperties, ElementOfSeq
  <2>3. \A i \in 1..Len(snaps) :
          /\ SameIdentity(snaps'[i], Extended(w)[i]) /\ SameSpan(snaps'[i], Extended(w)[i])
          /\ snaps'[i].parsed <=> (Extended(w)[i].parsed \/ (i = k /\ txn[w].before # None))
    BY <1>2, <2>1, <2>2 DEF SameIdentity, SameSpan, Snapshot
  <2>4. QED BY <1>1, <1>2, <2>3, ExtendedRows DEF SameIdentity, SameSpan, Filled
<1>5. CASE FailBasketSameState(w) /\ ~CommitSameState(w)
  <2>1. snaps' = Extended(w)
    BY <1>5 DEF FailBasketSameState
  <2>2. QED BY <1>1, <1>2, <1>5, <2>1, ExtendedRows
<1>6. QED BY <1>4, <1>5

\* A commit in a new state, and a basket's that lost the new one: no span changes.
LEMMA NewStateRows ==
  ASSUME TypeInv, NEW w \in Workers, CommitNewState(w) \/ FailBasketNewState(w)
  PROVE  /\ \A i \in 1..Len(snaps) :
              /\ SameIdentity(snaps'[i], snaps[i]) /\ SameSpan(snaps'[i], snaps[i])
              /\ snaps'[i].parsed <=> Filled(w, i)
         /\ CommitNewState(w) =>
              Len(snaps') = Len(snaps) + 1 /\ snaps'[Len(snaps) + 1] = NewSnapshot(w)
         /\ ~CommitNewState(w) => Len(snaps') = Len(snaps)
<1>1. ParseFilled(w) \in Seq(Snapshot) /\ Len(ParseFilled(w)) = Len(snaps)
  BY WrittenRowsType
<1>2. CASE CommitNewState(w)
  <2>1. snaps' = Append(ParseFilled(w), NewSnapshot(w)) /\ NewSnapshot(w) \in Snapshot
    BY <1>2, NewRowsType DEF CommitNewState
  <2>2. /\ Len(snaps') = Len(snaps) + 1
        /\ snaps'[Len(snaps) + 1] = NewSnapshot(w)
        /\ \A i \in 1..Len(snaps) : snaps'[i] = ParseFilled(w)[i]
    BY <1>1, <2>1, AppendProperties
  <2>3. QED BY <1>2, <2>2, FilledRows
<1>3. CASE FailBasketNewState(w) /\ ~CommitNewState(w)
  <2>1. snaps' = ParseFilled(w)
    BY <1>3 DEF FailBasketNewState
  <2>2. QED BY <1>1, <1>3, <2>1, FilledRows
<1>4. QED BY <1>2, <1>3
---------------------------------------------------------------------------
(* Jobs one at a time: the history is a chain of snapshots                 *)

\* The schedule: one run at a time, stamped with the latest start time.
OneJob == \A v, w \in Workers : pc[v] # "idle" /\ pc[w] # "idle" => v = w
RunsByTheClock == \A w \in Workers : pc[w] # "idle" => now[w] = clock

\* The intervals of observation follow each other, and nothing is seen ahead of time.
InOrder ==
  \A i \in 1..Len(snaps) :
    /\ snaps[i].first <= snaps[i].last /\ snaps[i].last <= clock
    /\ \A j \in 1..Len(snaps) : i < j => snaps[i].last <= snaps[j].first

NeighboursDiffer ==
  \A i \in 1..(Len(snaps) - 1) :
    snaps[i].label # snaps[i + 1].label \/ snaps[i].price # snaps[i + 1].price

\* What a transaction holds: the last row, its counter, and a state that differs
\* from it once the new state's parse is resolved.
ReadsTheLast ==
  \A w \in Workers : InTransaction(w) =>
    /\ txn[w].latest = Len(snaps)
    /\ Len(snaps) # 0 => txn[w].observations = snaps[Len(snaps)].observations
    /\ pc[w] = "resolved" => ~SameState(w)

ChainInv ==
  /\ TypeInv /\ OneJob /\ RunsByTheClock /\ InOrder /\ NeighboursDiffer
  /\ ReadsTheLast /\ ConsecutiveChanges /\ EveryMoveRecorded

LEMMA InitChainInv == Init => ChainInv
<1> SUFFICES ASSUME Init PROVE ChainInv
  OBVIOUS
<1>1. Len(snaps) = 0
  BY EmptySeq DEF Init
<1>2. OneJob /\ RunsByTheClock /\ ReadsTheLast /\ ConsecutiveChanges
  BY DEF Init, OneJob, RunsByTheClock, ReadsTheLast, ConsecutiveChanges, InTransaction
<1>3. InOrder /\ NeighboursDiffer /\ EveryMoveRecorded
  BY <1>1 DEF InOrder, NeighboursDiffer, EveryMoveRecorded
<1>4. QED BY <1>2, <1>3, InitTypeInv DEF ChainInv

\* While the rows are in order, the last one is the latest.
LEMMA LatestIsLast ==
  ASSUME TypeInv, InOrder
  PROVE  LatestSnapshot = Len(snaps)
<1> USE RowsAreOK DEF RowsOK
<1>1. CASE snaps = <<>>
  BY <1>1, LatestSnapshotType, EmptySeq DEF TypeInv, TypeOK
<1>2. CASE snaps # <<>>
  <2> DEFINE m == LatestSnapshot
             n == Len(snaps)
  <2>1. /\ m \in 1..n
        /\ \A j \in 1..n : \/ snaps[j].last < snaps[m].last
                           \/ snaps[j].last = snaps[m].last /\ j <= m
    BY <1>2, LatestSnapshotType DEF TypeInv, TypeOK
  <2> HIDE DEF m
  <2>2. n \in Nat /\ n \in 1..n /\ m \in 1..n
        /\ snaps[n] \in Snapshot /\ snaps[m] \in Snapshot
    BY <2>1
  <2>3. /\ snaps[n].last \in Nat /\ snaps[n].first \in Nat /\ snaps[m].last \in Nat
    BY <2>2 DEF Snapshot
  <2>4. m < n => snaps[m].last <= snaps[n].last
    <3>1. m < n => snaps[m].last <= snaps[n].first
      BY <2>2 DEF InOrder
    <3>2. snaps[n].first <= snaps[n].last
      BY <2>2 DEF InOrder
    <3>3. QED BY <2>3, <3>1, <3>2
  <2>5. ~(m < n)
    BY <2>1, <2>2, <2>3, <2>4
  <2>6. m = n
    <3> HIDE DEF n
    <3> QED BY <2>2, <2>5
  <2>7. QED BY <2>6 DEF m, n
<1>3. QED BY <1>1, <1>2

\* No draft: the size text is the same and the price has not moved.
LEMMA NoDraftNoMove ==
  ASSUME NEW b, NEW a, Classify(b, a) = NoDraft
  PROVE  b.text = a.text /\ ~PriceMoved(b, a)
<1>1. Classify(b, a).kind = "none"
  BY DEF NoDraft
<1>2. \A s, u : PriceOnly(b, a, s, u).kind # "none"
  BY DEF PriceOnly
<1>3. \A s, u : SizeKind(s, u) # "none"
  BY DEF SizeKind
<1>4. CASE ~CanCompare(b, a)
  BY <1>1, <1>2, <1>4 DEF Classify, ClassifyUnreadable
<1>5. CASE CanCompare(b, a)
  BY <1>1, <1>2, <1>3, <1>5 DEF Classify, ClassifySameSize, ClassifySizeMove
<1>6. QED BY <1>4, <1>5

\* Only the start of a run moves the clock or makes an idle job a running one.
LEMMA JobKeepsTime ==
  ASSUME TypeInv, NEW w \in Workers, Job(w), ~StartRun(w)
  PROVE  clock' = clock /\ (pc'[w] # "idle" => pc[w] # "idle" /\ now'[w] = now[w])
<1> USE DEF TypeInv, TypeOK
<1>1. CASE Fetch(w) \/ Begin(w) \/ Resolve(w)
  BY <1>1 DEF Fetch, Begin, Resolve
<1>2. CASE FinishRun(w) \/ Kill(w)
  BY <1>2 DEF FinishRun, Kill, EndOfRun
<1>3. CASE FailRefresh(w)
  BY <1>3 DEF FailRefresh, Leave, EndOfRun
<1>4. CASE CommitJob(w)
  BY <1>4, CommitJobFrame DEF InTransaction
<1>5. QED BY <1>1, <1>2, <1>3, <1>4 DEF Job, CommitJob

LEMMA ScheduleStep ==
  ASSUME ~Overlap, ChainInv, [Next]_vars
  PROVE  OneJob' /\ RunsByTheClock' /\ clock' \in Nat /\ clock <= clock'
<1>0. clock \in Nat /\ OneJob /\ RunsByTheClock /\ TypeInv
  BY DEF ChainInv, TypeInv, TypeOK
<1>1. ASSUME NEW w \in Workers, StartRun(w)
      PROVE  OneJob' /\ RunsByTheClock' /\ clock' \in Nat /\ clock <= clock'
  <2>1. /\ clock' = clock + 1
        /\ \A v \in Workers : pc[v] = "idle"
        /\ \A v \in Workers : pc'[v] = IF v = w THEN "search" ELSE pc[v]
        /\ now'[w] = clock + 1
    BY <1>0, <1>1 DEF StartRun, TypeInv, TypeOK
  <2>2. QED BY <1>0, <2>1 DEF OneJob, RunsByTheClock
<1>2. ASSUME NEW w \in Workers, Job(w), ~StartRun(w)
      PROVE  OneJob' /\ RunsByTheClock' /\ clock' \in Nat /\ clock <= clock'
  <2>1. /\ clock' = clock
        /\ \A v \in Workers : pc'[v] # "idle" => pc[v] # "idle" /\ now'[v] = now[v]
    BY <1>0, <1>2, JobFrame, JobKeepsTime
  <2>2. QED BY <1>0, <2>1 DEF OneJob, RunsByTheClock
<1>3. CASE Deploy \/ Reparse \/ UNCHANGED vars
  BY <1>0, <1>3, OtherFrame DEF OneJob, RunsByTheClock, jobVars
<1>4. QED BY <1>1, <1>2, <1>3 DEF Next

\* A new state becomes the next link: what it differs in from the last one, and
\* the change recorded when the classifier does not take the difference for noise.
LEMMA NewLink ==
  ASSUME ChainInv, NEW w \in Workers, CommitNewState(w), Len(snaps) # 0
  PROVE  LET n == Len(snaps)
         IN  /\ \/ snaps[n].label # NewSnapshot(w).label
                \/ snaps[n].price # NewSnapshot(w).price
             /\ \/ snaps[n].label.text # NewSnapshot(w).label.text
                \/ PriceMoved(snaps[n], NewSnapshot(w))
                => \E c \in changes' : c.before = n /\ c.after = n + 1
<1> DEFINE n == Len(snaps)
           b == SnapshotView(snaps[n].label, snaps[n].price, txn[w].before)
           a == SnapshotView(fetched[w].label, fetched[w].price, txn[w].after)
<1>1. pc[w] = "resolved" /\ changes' = changes \cup NewChanges(w)
  BY DEF CommitNewState
<1>2. txn[w].latest = n /\ ~SameState(w)
  BY <1>1 DEF ChainInv, ReadsTheLast, InTransaction
<1>3. snaps[n].label # NewSnapshot(w).label \/ snaps[n].price # NewSnapshot(w).price
  BY <1>2 DEF SameState, NewSnapshot
<1>4. ASSUME \/ snaps[n].label.text # NewSnapshot(w).label.text
             \/ PriceMoved(snaps[n], NewSnapshot(w))
      PROVE  \E c \in changes' : c.before = n /\ c.after = n + 1
  <2>1. b.text # a.text \/ PriceMoved(b, a)
    BY <1>4 DEF SnapshotView, NewSnapshot, PriceMoved
  <2>2. Draft(w) = Classify(b, a)
    BY <1>2 DEF Draft
  <2> HIDE DEF a, b
  <2>3. Draft(w) # NoDraft
    BY <2>1, <2>2, NoDraftNoMove
  <2>4. ChangeRow(w) \in changes'
    BY <1>1, <1>2, <2>3 DEF NewChanges
  <2>5. ChangeRow(w).before = n /\ ChangeRow(w).after = n + 1
    BY <1>2 DEF ChangeRow
  <2>6. QED BY <2>4, <2>5
<1>5. QED BY <1>3, <1>4

\* What a commit does to the chain: at most the end of the last interval moves, to
\* the present, and at most one link is added.
LEMMA CommitOnChain ==
  ASSUME ChainInv, NEW w \in Workers, CommitJob(w)
  PROVE  LET n == Len(snaps)
         IN  /\ \A i \in 1..n : SameIdentity(snaps'[i], snaps[i])
             /\ \A i \in 1..n : \/ snaps'[i].last = snaps[i].last
                                \/ i = n /\ snaps'[i].last = clock
             /\ changes \subseteq changes'
             /\ \A c \in changes' : c \in changes \/ c.after = c.before + 1
             /\ \/ Len(snaps') = n
                \/ /\ Len(snaps') = n + 1 /\ CommitNewState(w)
                   /\ snaps'[n + 1] = NewSnapshot(w)
<1> DEFINE n == Len(snaps)
<1>0. TypeInv /\ InTransaction(w) /\ txn[w].latest = n /\ now[w] = clock
  BY CommitJobFrame DEF ChainInv, ReadsTheLast, RunsByTheClock, InTransaction
<1>1. CASE CommitSameState(w) \/ FailBasketSameState(w)
  <2>1. changes' = changes
    BY <1>1 DEF CommitSameState, FailBasketSameState
  <2>2. QED BY <1>0, <1>1, <2>1, SameStateRows DEF SameSpan
<1>2. CASE CommitNewState(w) \/ FailBasketNewState(w)
  <2>1. changes' = changes \/ (changes' = changes \cup NewChanges(w))
    BY <1>2 DEF CommitNewState, FailBasketNewState
  <2>2. \A c \in NewChanges(w) : c.after = c.before + 1
    BY <1>0 DEF NewChanges, ChangeRow
  <2>3. QED BY <1>0, <1>2, <2>1, <2>2, NewStateRows DEF SameSpan
<1>3. QED BY <1>1, <1>2 DEF CommitJob
\* The prefix of the chain keeps its labels and prices, and what is recorded of it.
LEMMA PrefixKept ==
  ASSUME ChainInv, TypeInv', NEW n \in 0..Len(snaps), Len(snaps') >= n,
         \A i \in 1..n : SameIdentity(snaps'[i], snaps[i]),
         \A c \in changes : \E d \in changes' : d.before = c.before /\ d.after = c.after
  PROVE  \A i \in 1..(n - 1) :
           /\ snaps'[i].label # snaps'[i + 1].label \/ snaps'[i].price # snaps'[i + 1].price
           /\ \/ snaps'[i].label.text # snaps'[i + 1].label.text
              \/ PriceMoved(snaps'[i], snaps'[i + 1])
              => \E d \in changes' : d.before = i /\ d.after = i + 1
<1> SUFFICES ASSUME NEW i \in 1..(n - 1)
             PROVE  /\ \/ snaps'[i].label # snaps'[i + 1].label
                       \/ snaps'[i].price # snaps'[i + 1].price
                    /\ \/ snaps'[i].label.text # snaps'[i + 1].label.text
                       \/ PriceMoved(snaps'[i], snaps'[i + 1])
                       => \E d \in changes' : d.before = i /\ d.after = i + 1
  OBVIOUS
<1>1. Len(snaps) \in Nat /\ i \in 1..n /\ i + 1 \in 1..n /\ i \in 1..(Len(snaps) - 1)
  BY RowsAreOK DEF RowsOK, ChainInv
<1>2. SameIdentity(snaps'[i], snaps[i]) /\ SameIdentity(snaps'[i + 1], snaps[i + 1])
  BY <1>1
<1>3. PriceMoved(snaps'[i], snaps'[i + 1]) <=> PriceMoved(snaps[i], snaps[i + 1])
  BY <1>2 DEF PriceMoved, SameIdentity
<1>4. \/ snaps'[i].label # snaps'[i + 1].label
      \/ snaps'[i].price # snaps'[i + 1].price
  BY <1>1, <1>2 DEF ChainInv, NeighboursDiffer, SameIdentity
<1>5. ASSUME \/ snaps'[i].label.text # snaps'[i + 1].label.text
             \/ PriceMoved(snaps'[i], snaps'[i + 1])
      PROVE  \E d \in changes' : d.before = i /\ d.after = i + 1
  <2>1. \/ snaps[i].label.text # snaps[i + 1].label.text
        \/ PriceMoved(snaps[i], snaps[i + 1])
    BY <1>2, <1>3, <1>5 DEF SameIdentity
  <2>2. \E c \in changes : c.before = i /\ c.after = i + 1
    BY <1>1, <2>1 DEF ChainInv, EveryMoveRecorded
  <2>3. QED BY <2>2
<1>6. QED BY <1>4, <1>5

LEMMA ChainRowsStep ==
  ASSUME ~Overlap, ChainInv, TypeInv', clock' \in Nat, clock <= clock', [Next]_vars
  PROVE  InOrder' /\ NeighboursDiffer' /\ ConsecutiveChanges' /\ EveryMoveRecorded'
<1> DEFINE n == Len(snaps)
<1>0. TypeInv /\ n \in Nat /\ Len(snaps') \in Nat /\ clock \in Nat
      /\ \A i \in 1..n : snaps[i].first \in Nat /\ snaps[i].last \in Nat
  BY RowsAreOK, LenProperties DEF ChainInv, TypeInv, TypeOK, RowsOK, Snapshot
<1>1. ASSUME snaps' = snaps,
             \A c \in changes : \E d \in changes' : d.before = c.before /\ d.after = c.after,
             \A d \in changes' : \E c \in changes : d.before = c.before /\ d.after = c.after
      PROVE  InOrder' /\ NeighboursDiffer' /\ ConsecutiveChanges' /\ EveryMoveRecorded'
  <2>1. InOrder'
    BY <1>0, <1>1 DEF ChainInv, InOrder
  <2>2. NeighboursDiffer' /\ EveryMoveRecorded'
    <3>1. \A i \in 1..n : SameIdentity(snaps'[i], snaps[i])
      BY <1>1 DEF SameIdentity
    <3>2. n \in 0..n /\ Len(snaps') >= n /\ Len(snaps') = n
      BY <1>0, <1>1
    <3>3. QED BY <1>0, <1>1, <3>1, <3>2, PrefixKept DEF NeighboursDiffer, EveryMoveRecorded
  <2>3. ConsecutiveChanges'
    BY <1>1 DEF ChainInv, ConsecutiveChanges
  <2>4. QED BY <2>1, <2>2, <2>3
<1>2. ASSUME NEW w \in Workers, CommitJob(w)
      PROVE  InOrder' /\ NeighboursDiffer' /\ ConsecutiveChanges' /\ EveryMoveRecorded'
  <2>1. /\ \A i \in 1..n : SameIdentity(snaps'[i], snaps[i])
        /\ \A i \in 1..n : \/ snaps'[i].last = snaps[i].last
                           \/ i = n /\ snaps'[i].last = clock
        /\ changes \subseteq changes'
        /\ \A c \in changes' : c \in changes \/ c.after = c.before + 1
        /\ \/ Len(snaps') = n
           \/ /\ Len(snaps') = n + 1 /\ CommitNewState(w)
              /\ snaps'[n + 1] = NewSnapshot(w)
    BY <1>2, CommitOnChain
  <2>2. now[w] = clock /\ clock' = clock
    BY <1>0, <1>2, CommitJobFrame DEF ChainInv, RunsByTheClock, InTransaction
  <2>3. \A i \in 1..n :
          /\ snaps'[i].first = snaps[i].first
          /\ snaps[i].last <= snaps'[i].last /\ snaps'[i].last <= clock
          /\ snaps'[i].last \in Nat
    BY <1>0, <2>1 DEF ChainInv, InOrder, SameIdentity
  <2>4. Len(snaps') = n + 1 => snaps'[n + 1].first = clock /\ snaps'[n + 1].last = clock
    BY <1>0, <2>1, <2>2 DEF NewSnapshot
  <2>5. InOrder'
    <3>1. ASSUME NEW i \in 1..Len(snaps')
          PROVE  snaps'[i].first <= snaps'[i].last /\ snaps'[i].last <= clock'
      <4>1. CASE i \in 1..n
        BY <1>0, <2>2, <2>3, <4>1 DEF ChainInv, InOrder
      <4>2. CASE i = n + 1
        BY <1>0, <2>1, <2>2, <2>4, <3>1, <4>2
      <4>3. QED BY <1>0, <2>1, <4>1, <4>2
    <3>2. ASSUME NEW i \in 1..Len(snaps'), NEW j \in 1..Len(snaps'), i < j
          PROVE  snaps'[i].last <= snaps'[j].first
      <4>1. CASE j \in 1..n
        <5>1. i \in 1..n /\ i # n
          BY <1>0, <3>2, <4>1
        <5>2. QED BY <1>0, <2>1, <2>3, <3>2, <4>1, <5>1 DEF ChainInv, InOrder
      <4>2. CASE j = n + 1
        BY <1>0, <2>1, <2>3, <2>4, <3>2, <4>2
      <4>3. QED BY <1>0, <2>1, <4>1, <4>2
    <3>3. QED BY <3>1, <3>2 DEF InOrder
  <2>6. n \in 0..n /\ Len(snaps') >= n
        /\ \A c \in changes : \E d \in changes' : d.before = c.before /\ d.after = c.after
    BY <1>0, <2>1
  <2>7. NeighboursDiffer' /\ EveryMoveRecorded'
    <3>1. \A i \in 1..(n - 1) :
            /\ \/ snaps'[i].label # snaps'[i + 1].label
               \/ snaps'[i].price # snaps'[i + 1].price
            /\ \/ snaps'[i].label.text # snaps'[i + 1].label.text
               \/ PriceMoved(snaps'[i], snaps'[i + 1])
               => \E d \in changes' : d.before = i /\ d.after = i + 1
      BY <2>1, <2>6, PrefixKept
    <3>2. ASSUME Len(snaps') = n + 1, n # 0
          PROVE  /\ \/ snaps'[n].label # snaps'[n + 1].label
                    \/ snaps'[n].price # snaps'[n + 1].price
                 /\ \/ snaps'[n].label.text # snaps'[n + 1].label.text
                    \/ PriceMoved(snaps'[n], snaps'[n + 1])
                    => \E d \in changes' : d.before = n /\ d.after = n + 1
      <4>1. SameIdentity(snaps'[n], snaps[n]) /\ snaps'[n + 1] = NewSnapshot(w)
            /\ CommitNewState(w)
        BY <1>0, <2>1, <3>2
      <4>2. PriceMoved(snaps'[n], snaps'[n + 1]) <=> PriceMoved(snaps[n], NewSnapshot(w))
        BY <4>1 DEF PriceMoved, SameIdentity
      <4>3. QED BY <3>2, <4>1, <4>2, NewLink DEF SameIdentity
    <3>3. \A i \in 1..(Len(snaps') - 1) : i \in 1..(n - 1) \/ (i = n /\ Len(snaps') = n + 1)
      BY <1>0, <2>1
    <3>4. ASSUME NEW i \in 1..(Len(snaps') - 1)
          PROVE  /\ \/ snaps'[i].label # snaps'[i + 1].label
                    \/ snaps'[i].price # snaps'[i + 1].price
                 /\ \/ snaps'[i].label.text # snaps'[i + 1].label.text
                    \/ PriceMoved(snaps'[i], snaps'[i + 1])
                    => \E d \in changes' : d.before = i /\ d.after = i + 1
      <4>1. CASE i \in 1..(n - 1)
        BY <3>1, <4>1
      <4>2. CASE i = n /\ Len(snaps') = n + 1
        BY <1>0, <3>2, <4>2
      <4>3. QED BY <3>3, <4>1, <4>2
    <3>5. QED BY <3>4 DEF NeighboursDiffer, EveryMoveRecorded
  <2>8. ConsecutiveChanges'
    BY <2>1 DEF ChainInv, ConsecutiveChanges
  <2>9. QED BY <2>5, <2>7, <2>8
<1>3. ASSUME NEW w \in Workers, Job(w), ~CommitJob(w)
      PROVE  snaps' = snaps /\ changes' = changes
  <2>1. QuietJob(w) \/ Begin(w) \/ Resolve(w)
    BY <1>3, JobCases
  <2>2. UNCHANGED dbVars
    BY <1>0, <2>1, QuietJobFrame, Zenon DEF Begin, Resolve
  <2>3. QED BY <2>2 DEF dbVars
<1>4. CASE Deploy \/ Reparse \/ UNCHANGED vars
  <2>1. snaps' = snaps
    BY <1>4, OtherFrame
  <2>2. changes' = changes \/ changes' = {Demoted(c) : c \in changes}
    BY <1>4, Zenon DEF Deploy, Reparse, ReparseStart, ReparseRow, ReparseDemote,
                       ReparseFail, vars, dbVars
  <2>3. \A c \in Change : Demoted(c).before = c.before /\ Demoted(c).after = c.after
    BY DEF Demoted, Change
  <2>4. changes \subseteq Change
    BY <1>0 DEF TypeInv, TypeOK
  <2>5. QED BY <1>1, <2>1, <2>2, <2>3, <2>4
<1>5. QED BY <1>1, <1>2, <1>3, <1>4 DEF Next
\* A transaction reads the last row, and keeps it: no other job runs beside it.
LEMMA ReadsTheLastStep ==
  ASSUME ~Overlap, ChainInv, TypeInv', OneJob', [Next]_vars
  PROVE  ReadsTheLast'
<1> DEFINE n == Len(snaps)
<1>0. TypeInv /\ OneJob /\ n \in Nat
  BY RowsAreOK DEF ChainInv, RowsOK
<1>1. ASSUME NEW w \in Workers, QuietJob(w) \/ CommitJob(w)
      PROVE  ReadsTheLast'
  <2>1. Job(w)
    BY <1>1 DEF QuietJob, CommitJob, Job
  <2>2. ~InTransaction(w)'
    BY <1>0, <1>1, QuietJobFrame, CommitJobFrame
  <2>3. CASE CommitJob(w)
    <3>1. pc[w] # "idle" /\ \A v \in Workers : v # w => pc'[v] = pc[v]
      BY <1>0, <2>1, <2>3, JobFrame, CommitJobFrame DEF InTransaction
    <3>2. \A v \in Workers : ~InTransaction(v)'
      BY <1>0, <2>2, <3>1 DEF InTransaction, OneJob
    <3>3. QED BY <3>2 DEF ReadsTheLast
  <2>4. CASE QuietJob(w)
    <3>1. snaps' = snaps
      BY <1>0, <2>4, QuietJobFrame DEF dbVars
    <3>2. \A v \in Workers : v # w =>
            pc'[v] = pc[v] /\ txn'[v] = txn[v] /\ fetched'[v] = fetched[v]
      BY <1>0, <2>1, JobFrame
    <3>3. QED BY <2>2, <3>1, <3>2 DEF ChainInv, ReadsTheLast, InTransaction, SameState
  <2>5. QED BY <1>1, <2>3, <2>4
<1>2. ASSUME NEW w \in Workers, Begin(w)
      PROVE  ReadsTheLast'
  <2>1. LatestSnapshot = n
    BY <1>0, LatestIsLast DEF ChainInv
  <2>2. /\ snaps' = snaps /\ pc'[w] = "read" /\ pc[w] = "fetched"
        /\ txn'[w].latest = n
        /\ n # 0 => txn'[w].observations = snaps[n].observations
        /\ \A v \in Workers : v # w => pc'[v] = pc[v]
    BY <1>0, <1>2, <2>1 DEF Begin, dbVars, TypeInv, TypeOK
  <2>3. \A v \in Workers : v # w => ~InTransaction(v)'
    BY <1>0, <2>2 DEF InTransaction, OneJob
  <2>4. QED BY <2>2, <2>3 DEF ReadsTheLast
<1>3. ASSUME NEW w \in Workers, Resolve(w)
      PROVE  ReadsTheLast'
  <2>1. /\ pc[w] = "read" /\ ~SameState(w) /\ snaps' = snaps /\ fetched' = fetched
        /\ pc' = [pc EXCEPT ![w] = "resolved"]
    BY <1>3, Zenon DEF Resolve, dbVars
  <2>2. \A v \in Workers : /\ txn'[v].latest = txn[v].latest
                           /\ txn'[v].observations = txn[v].observations
    BY <1>0, <1>3, ResolvedTransaction, Zenon
  <2>3. \A v \in Workers : v # w => ~InTransaction(v) /\ pc'[v] = pc[v]
    BY <1>0, <2>1 DEF InTransaction, OneJob, TypeInv, TypeOK
  <2>4. ~SameState(w)'
    BY <2>1, <2>2 DEF SameState
  <2>5. QED BY <2>1, <2>2, <2>3, <2>4 DEF ChainInv, ReadsTheLast, InTransaction
<1>4. CASE Deploy \/ Reparse \/ UNCHANGED vars
  <2>1. UNCHANGED <<snaps, jobVars>>
    BY <1>4, OtherFrame
  <2>2. QED BY <2>1 DEF ChainInv, ReadsTheLast, InTransaction, SameState, jobVars
<1>5. QED BY <1>1, <1>2, <1>3, <1>4, JobCases DEF Next

LEMMA ChainInvStep ==
  ASSUME ~Overlap, ChainInv, [Next]_vars
  PROVE  ChainInv'
<1>1. TypeInv'
  BY TypeInvStep DEF ChainInv
<1>2. OneJob' /\ RunsByTheClock' /\ clock' \in Nat /\ clock <= clock'
  BY ScheduleStep
<1>3. QED BY <1>1, <1>2, ChainRowsStep, ReadsTheLastStep DEF ChainInv

LEMMA ChainInvariant ==
  ASSUME ~Overlap
  PROVE  Spec => []ChainInv
<1>1. ChainInv /\ [Next]_vars => ChainInv'
  BY ChainInvStep
<1>2. QED BY <1>1, InitChainInv, PTL DEF Spec

(***************************************************************************)
(* With one job at a time, as the schedule runs them, every Change row of  *)
(* observe_product is about two consecutive snapshots, whatever fails, is  *)
(* killed or reparsed on the way.                                          *)
(***************************************************************************)
THEOREM ChangesAreConsecutive ==
  ASSUME ~Overlap
  PROVE  Spec => []ConsecutiveChanges
<1>1. ChainInv => ConsecutiveChanges
  BY DEF ChainInv
<1>2. QED BY <1>1, ChainInvariant, PTL

(***************************************************************************)
(* With one job at a time there is one snapshot per state change: two      *)
(* neighbours differ, and their intervals of observation do not overlap.   *)
(***************************************************************************)
THEOREM SnapshotsFollowTheTimeline ==
  ASSUME ~Overlap
  PROVE  Spec => []SnapshotsTellTheTimeline
<1>1. ChainInv => SnapshotsTellTheTimeline
  <2> SUFFICES ASSUME ChainInv, NEW i \in 1..(Len(snaps) - 1)
               PROVE  /\ \/ snaps[i].label # snaps[i + 1].label
                         \/ snaps[i].price # snaps[i + 1].price
                      /\ snaps[i].first <= snaps[i].last
                      /\ snaps[i].last <= snaps[i + 1].first
    BY DEF SnapshotsTellTheTimeline
  <2>1. Len(snaps) \in Nat /\ i \in 1..Len(snaps) /\ i + 1 \in 1..Len(snaps) /\ i < i + 1
    BY RowsAreOK DEF ChainInv, RowsOK
  <2>2. QED BY <2>1 DEF ChainInv, InOrder, NeighboursDiffer
<1>2. QED BY <1>1, ChainInvariant, PTL

(***************************************************************************)
(* With one job at a time no move is missed: between two neighbouring      *)
(* snapshots that differ in their size text, or in price by more than      *)
(* noise, the change is on record.                                         *)
(***************************************************************************)
THEOREM NoMoveIsMissed ==
  ASSUME ~Overlap
  PROVE  Spec => []EveryMoveRecorded
<1>1. ChainInv => EveryMoveRecorded
  BY DEF ChainInv
<1>2. QED BY <1>1, ChainInvariant, PTL

---------------------------------------------------------------------------
(* One transaction at a time, and what it read is what the table holds     *)

\* Either no basket runs, so that the product's row lock serialises the jobs, or
\* the schedule does.
OneTransaction ==
  \A v, w \in Workers : InTransaction(v) /\ InTransaction(w) => v = w

TransactionInv == TypeInv /\ OneTransaction /\ LatestStable

LEMMA TransactionInvariant ==
  ASSUME Baskets = {} \/ ~Overlap
  PROVE  Spec => []TransactionInv
<1>1. CASE Baskets = {}
  <2>1. StableInv /\ [Next]_vars => StableInv'
    BY <1>1, StableInvStep
  <2>2. StableInv => TransactionInv
    BY DEF StableInv, TransactionInv, OneTransaction, OneAtATime
  <2>3. QED BY <2>1, <2>2, InitStableInv, PTL DEF Spec
<1>2. CASE ~Overlap
  <2>1. ChainInv => TransactionInv
    <3> SUFFICES ASSUME ChainInv PROVE TransactionInv
      OBVIOUS
    <3>1. LatestSnapshot = Len(snaps)
      BY LatestIsLast DEF ChainInv
    <3>2. OneTransaction
      BY DEF ChainInv, OneJob, OneTransaction, InTransaction
    <3>3. LatestStable
      BY <3>1 DEF ChainInv, ReadsTheLast, LatestStable
    <3>4. QED BY <3>2, <3>3 DEF ChainInv, TransactionInv
  <2>2. Spec => []ChainInv
    BY <1>2, ChainInvariant
  <2>3. QED BY <2>1, <2>2, PTL
<1>3. QED BY <1>1, <1>2
---------------------------------------------------------------------------
(* Sums of a column                                                        *)

\* The least number of a nonempty set of naturals.
LEMMA LeastNatural ==
  ASSUME NEW S, S \subseteq Nat, S # {}
  PROVE  \E m \in S : \A k \in S : m <= k
<1> DEFINE R == OpToRel(<, Nat)
<1>1. IsWellFoundedOn(R, Nat)
  BY NatLessThanWellFounded
<1>2. \A x, y \in Nat : x < y => <<x, y>> \in R
  BY DEF OpToRel
<1> HIDE DEF R
<1>3. PICK m \in S : \A y \in S : ~(<<y, m>> \in R)
  BY <1>1, WFMin
<1>4. \A k \in S : ~(k < m)
  BY <1>2, <1>3
<1>5. QED BY <1>4

\* Induction, for a set of numbers.
LEMMA AllNaturals ==
  ASSUME NEW S, 0 \in S, \A n \in Nat : n \in S => n + 1 \in S
  PROVE  Nat \subseteq S
<1> SUFFICES ASSUME Nat \ S # {} PROVE FALSE
  OBVIOUS
<1>1. PICK m \in Nat \ S : \A k \in Nat \ S : m <= k
  BY LeastNatural
<1>2. m # 0 /\ m - 1 \in Nat /\ m - 1 \in S
  BY <1>1
<1>3. QED BY <1>2

\* The observations of the first i rows, for every i: NoLostObservation's total.
Totals(s) ==
  CHOOSE total : total = [i \in 0..Len(s) |->
    IF i = 0 THEN 0 ELSE total[i - 1] + s[i].observations]

LEMMA ObservationsType ==
  ASSUME NEW s \in Seq(Snapshot)
  PROVE  Len(s) \in Nat /\ \A i \in 1..Len(s) : s[i].observations \in Nat
<1>1. Len(s) \in Nat /\ \A i \in 1..Len(s) : s[i] \in Snapshot
  BY LenProperties, ElementOfSeq
<1>2. QED BY <1>1 DEF Snapshot

\* The recursive definition has a solution.
LEMMA TotalsDef ==
  ASSUME NEW s \in Seq(Snapshot)
  PROVE  /\ Totals(s) \in [0..Len(s) -> Nat]
         /\ Totals(s)[0] = 0
         /\ \A i \in 1..Len(s) : Totals(s)[i] = Totals(s)[i - 1] + s[i].observations
<1> DEFINE N == Len(s)
           Upto(n, t) == \A i \in 1..N : i <= n => t[i] = t[i - 1] + s[i].observations
           S == {n \in Nat : \E t \in [0..N -> Nat] : t[0] = 0 /\ Upto(n, t)}
<1>0. N \in Nat /\ \A i \in 1..N : s[i].observations \in Nat
  BY ObservationsType
<1> HIDE DEF N
<1>1. 0 \in S
  <2> DEFINE t == [i \in 0..N |-> 0]
  <2>1. t \in [0..N -> Nat] /\ t[0] = 0 /\ Upto(0, t)
    BY <1>0
  <2> HIDE DEF t
  <2>2. QED BY <2>1
<1>2. ASSUME NEW n \in Nat, n \in S PROVE n + 1 \in S
  <2>1. PICK t \in [0..N -> Nat] : t[0] = 0 /\ Upto(n, t)
    BY <1>2
  <2> DEFINE u == [i \in 0..N |-> IF i = n + 1 THEN t[n] + s[n + 1].observations
                                  ELSE t[i]]
  <2>2. u \in [0..N -> Nat]
    BY <1>0
  <2>3. u[0] = 0 /\ Upto(n + 1, u)
    BY <1>0, <2>1
  <2> HIDE DEF u
  <2>4. \E v \in [0..N -> Nat] : v[0] = 0 /\ Upto(n + 1, v)
    BY <2>2, <2>3, Zenon
  <2>5. n + 1 \in Nat
    OBVIOUS
  <2> HIDE DEF Upto
  <2>6. QED BY <2>4, <2>5
<1>3. N \in S
  <2> HIDE DEF S
  <2> QED BY <1>0, <1>1, <1>2, AllNaturals
<1>4. PICK t \in [0..N -> Nat] : t[0] = 0 /\ Upto(N, t)
  BY <1>3
<1>5. t = [i \in 0..N |-> IF i = 0 THEN 0 ELSE t[i - 1] + s[i].observations]
  BY <1>0, <1>4
<1>6. Totals(s) = [i \in 0..N |-> IF i = 0 THEN 0
                                  ELSE Totals(s)[i - 1] + s[i].observations]
  BY <1>5, Zenon DEF Totals, N
<1> DEFINE T == Totals(s)
           V == {n \in Nat : n <= N => T[n] \in Nat}
<1>7. T = [i \in 0..N |-> IF i = 0 THEN 0 ELSE T[i - 1] + s[i].observations]
  BY <1>6
<1> HIDE DEF T
<1>8. T[0] = 0 /\ \A i \in 1..N : T[i] = T[i - 1] + s[i].observations
  BY <1>0, <1>7
<1>9. \A n \in 0..N : T[n] \in Nat
  <2>1. 0 \in V
    BY <1>8
  <2>2. ASSUME NEW n \in Nat, n \in V PROVE n + 1 \in V
    <3>1. ASSUME n + 1 <= N PROVE T[n + 1] \in Nat
      <4>1. n + 1 \in 1..N /\ (n + 1) - 1 = n /\ n <= N
        BY <1>0, <3>1
      <4>2. T[n + 1] = T[n] + s[n + 1].observations
        BY <1>8, <4>1
      <4>3. QED BY <1>0, <2>2, <4>1, <4>2
    <3>2. QED BY <3>1
  <2> HIDE DEF V
  <2>3. Nat \subseteq V
    BY <2>1, <2>2, AllNaturals
  <2>4. QED BY <1>0, <2>3 DEF V
<1>10. T \in [0..N -> Nat]
  BY <1>7, <1>9
<1>11. QED BY <1>8, <1>10 DEF T, N

\* Counting one row up by one raises the totals from that row on by one, and
\* counting none (k = 0) leaves them.
LEMMA TotalsCountUp ==
  ASSUME NEW s \in Seq(Snapshot), NEW r \in Seq(Snapshot), Len(r) >= Len(s),
         NEW k \in 0..Len(s),
         \A i \in 1..Len(s) :
           r[i].observations = s[i].observations + (IF i = k THEN 1 ELSE 0)
  PROVE  Totals(r)[Len(s)] = Totals(s)[Len(s)] + (IF k = 0 THEN 0 ELSE 1)
<1> DEFINE N == Len(s)
           R == Totals(r)
           T == Totals(s)
           V == {n \in Nat : n <= N =>
                   R[n] = T[n] + (IF k # 0 /\ k <= n THEN 1 ELSE 0)}
<1>1. /\ N \in Nat /\ Len(r) \in Nat
      /\ \A i \in 1..N : s[i].observations \in Nat
      /\ \A i \in 1..Len(r) : r[i].observations \in Nat
  BY ObservationsType
<1>2. /\ R \in [0..Len(r) -> Nat] /\ R[0] = 0
      /\ \A i \in 1..Len(r) : R[i] = R[i - 1] + r[i].observations
  BY TotalsDef
<1>3. /\ T \in [0..N -> Nat] /\ T[0] = 0
      /\ \A i \in 1..N : T[i] = T[i - 1] + s[i].observations
  BY TotalsDef
<1>4. k \in 0..N /\ Len(r) >= N
      /\ \A i \in 1..N : r[i].observations = s[i].observations + (IF i = k THEN 1 ELSE 0)
  OBVIOUS
<1> HIDE DEF N, R, T
<1>5. 0 \in V
  BY <1>2, <1>3, <1>4
<1>6. ASSUME NEW n \in Nat, n \in V, n + 1 <= N
      PROVE  R[n + 1] = T[n + 1] + (IF k # 0 /\ k <= n + 1 THEN 1 ELSE 0)
  <2>1. /\ n + 1 \in 1..N /\ n + 1 \in 1..Len(r) /\ (n + 1) - 1 = n
        /\ n \in 0..N /\ n \in 0..Len(r)
    BY <1>1, <1>4, <1>6
  <2>2. /\ R[n + 1] = R[n] + r[n + 1].observations
        /\ T[n + 1] = T[n] + s[n + 1].observations
        /\ r[n + 1].observations = s[n + 1].observations + (IF n + 1 = k THEN 1 ELSE 0)
    BY <1>2, <1>3, <1>4, <2>1
  <2>3. R[n] = T[n] + (IF k # 0 /\ k <= n THEN 1 ELSE 0) /\ T[n] \in Nat
    BY <1>1, <1>3, <1>6, <2>1
  <2>4. s[n + 1].observations \in Nat /\ k \in Nat
    BY <1>1, <1>4, <2>1
  <2> DEFINE a == R[n]
             b == T[n]
             c == r[n + 1].observations
             d == s[n + 1].observations
             e == R[n + 1]
             f == T[n + 1]
  <2>5. /\ e = a + c /\ f = b + d /\ b \in Nat /\ d \in Nat /\ k \in Nat
        /\ a = b + (IF k # 0 /\ k <= n THEN 1 ELSE 0)
        /\ c = d + (IF n + 1 = k THEN 1 ELSE 0)
    BY <2>2, <2>3, <2>4
  <2> HIDE DEF a, b, c, d, e, f
  <2>6. e = f + (IF k # 0 /\ k <= n + 1 THEN 1 ELSE 0)
    <3>1. CASE k = 0
      BY <2>5, <3>1
    <3>2. CASE k # 0 /\ k <= n
      BY <2>5, <3>2
    <3>3. CASE k = n + 1
      BY <2>5, <3>3
    <3>4. CASE k > n + 1
      BY <2>5, <3>4
    <3>5. QED BY <2>5, <3>1, <3>2, <3>3, <3>4
  <2>7. QED BY <2>6 DEF e, f
<1>7. \A n \in Nat : n \in V => n + 1 \in V
  BY <1>6
<1>8. N \in V
  <2> HIDE DEF V
  <2> QED BY <1>1, <1>5, <1>7, AllNaturals
<1>9. QED BY <1>1, <1>4, <1>8 DEF N, R, T

\* A new row adds its own observations.
LEMMA TotalsNewRow ==
  ASSUME NEW s \in Seq(Snapshot), NEW r \in Seq(Snapshot), Len(r) = Len(s) + 1,
         \A i \in 1..Len(s) : r[i].observations = s[i].observations
  PROVE  Totals(r)[Len(r)] = Totals(s)[Len(s)] + r[Len(r)].observations
<1>1. Len(s) \in Nat /\ \A i \in 1..Len(s) : s[i].observations \in Nat
  BY ObservationsType
<1>2. Totals(r)[Len(s)] = Totals(s)[Len(s)] + 0
  <2>1. 0 \in 0..Len(s) /\ \A i \in 1..Len(s) :
          r[i].observations = s[i].observations + (IF i = 0 THEN 1 ELSE 0)
    BY <1>1
  <2>2. Len(r) >= Len(s)
    BY <1>1
  <2>3. QED BY <2>1, <2>2, TotalsCountUp
<1>3. Totals(s)[Len(s)] \in Nat
  BY <1>1, TotalsDef
<1>4. Len(r) \in 1..Len(r) /\ Len(r) - 1 = Len(s)
  BY <1>1
<1>5. Totals(r)[Len(r)] = Totals(r)[Len(r) - 1] + r[Len(r)].observations
  BY <1>4, TotalsDef
<1>6. QED BY <1>2, <1>3, <1>4, <1>5
---------------------------------------------------------------------------
(* No observation is lost                                                  *)

AllCounted == Totals(snaps)[Len(snaps)] = commits

LEMMA InitAllCounted == Init => AllCounted
<1> SUFFICES ASSUME Init PROVE AllCounted
  OBVIOUS
<1>1. snaps \in Seq(Snapshot) /\ Len(snaps) = 0 /\ commits = 0
  BY EmptySeq DEF Init
<1>2. QED BY <1>1, TotalsDef DEF AllCounted

\* Rows that keep their counters keep their total.
LEMMA SameTotal ==
  ASSUME TypeInv, TypeInv', Len(snaps') = Len(snaps),
         \A i \in 1..Len(snaps) : snaps'[i].observations = snaps[i].observations
  PROVE  Totals(snaps')[Len(snaps')] = Totals(snaps)[Len(snaps)]
<1>1. snaps \in Seq(Snapshot) /\ snaps' \in Seq(Snapshot) /\ Len(snaps') >= Len(snaps)
  BY LenProperties DEF TypeInv, TypeOK
<1>2. Len(snaps) \in Nat /\ \A i \in 1..Len(snaps) : snaps[i].observations \in Nat
  BY <1>1, ObservationsType
<1>3. 0 \in 0..Len(snaps) /\ \A i \in 1..Len(snaps) :
        snaps'[i].observations = snaps[i].observations + (IF i = 0 THEN 1 ELSE 0)
  BY <1>2
<1>4. Totals(snaps')[Len(snaps)] = Totals(snaps)[Len(snaps)] + 0
  BY <1>1, <1>3, TotalsCountUp
<1>5. Totals(snaps)[Len(snaps)] \in Nat
  BY <1>1, <1>2, TotalsDef
<1>6. QED BY <1>4, <1>5

LEMMA AllCountedStep ==
  ASSUME TransactionInv, TypeInv', AllCounted, [Next]_vars
  PROVE  AllCounted'
<1> DEFINE n == Len(snaps)
<1>0. /\ TypeInv /\ snaps \in Seq(Snapshot) /\ snaps' \in Seq(Snapshot)
      /\ n \in Nat /\ Len(snaps') \in Nat /\ commits \in Nat
      /\ \A i \in 1..n : snaps[i].observations \in Nat
      /\ Totals(snaps)[n] = commits
  BY ObservationsType DEF TransactionInv, TypeInv, TypeOK, AllCounted
<1>1. ASSUME NEW w \in Workers, CommitSameState(w) \/ FailBasketSameState(w)
      PROVE  AllCounted'
  <2> DEFINE k == txn[w].latest
  <2>1. /\ k \in 1..n /\ Len(snaps') = n
        /\ \A i \in 1..n :
             /\ i # k => SameSpan(snaps'[i], snaps[i])
             /\ i = k => snaps'[i].observations = txn[w].observations + 1
    BY <1>0, <1>1, SameStateRows
  <2>2. txn[w].observations = snaps[k].observations
    <3>1. InTransaction(w)
      BY <1>1 DEF CommitSameState, FailBasketSameState, InTransaction
    <3>2. QED BY <2>1, <3>1 DEF TransactionInv, LatestStable
  <2>3. \A i \in 1..n :
          snaps'[i].observations = snaps[i].observations + (IF i = k THEN 1 ELSE 0)
    BY <1>0, <2>1, <2>2 DEF SameSpan
  <2>4. k \in 0..n /\ k # 0 /\ Len(snaps') >= n
    BY <1>0, <2>1
  <2>5. Totals(snaps')[n] = Totals(snaps)[n] + 1
    <3> HIDE DEF k
    <3> QED BY <1>0, <2>3, <2>4, TotalsCountUp
  <2>6. commits' = commits + 1
    BY <1>1 DEF CommitSameState, FailBasketSameState
  <2>7. QED BY <1>0, <2>1, <2>5, <2>6 DEF AllCounted
<1>2. ASSUME NEW w \in Workers, CommitNewState(w)
      PROVE  AllCounted'
  <2>1. /\ Len(snaps') = n + 1 /\ snaps'[n + 1] = NewSnapshot(w)
        /\ \A i \in 1..n : snaps'[i].observations = snaps[i].observations
    BY <1>0, <1>2, NewStateRows DEF SameSpan
  <2>2. NewSnapshot(w).observations = 1
    BY DEF NewSnapshot
  <2>3. Totals(snaps')[Len(snaps')] = Totals(snaps)[n] + snaps'[Len(snaps')].observations
    BY <1>0, <2>1, TotalsNewRow
  <2>4. commits' = commits + 1
    BY <1>2 DEF CommitNewState
  <2>5. QED BY <1>0, <2>1, <2>2, <2>3, <2>4 DEF AllCounted
<1>3. ASSUME NEW w \in Workers, FailBasketNewState(w), ~CommitNewState(w)
      PROVE  AllCounted'
  <2>1. /\ Len(snaps') = n
        /\ \A i \in 1..n : snaps'[i].observations = snaps[i].observations
    BY <1>0, <1>3, NewStateRows DEF SameSpan
  <2>2. commits' = commits
    BY <1>3 DEF FailBasketNewState
  <2>3. QED BY <1>0, <2>1, <2>2, SameTotal DEF AllCounted
<1>4. ASSUME NEW w \in Workers, QuietJob(w) \/ Begin(w) \/ Resolve(w)
      PROVE  AllCounted'
  <2>1. UNCHANGED <<dbVars, commits>>
    BY <1>0, <1>4, QuietJobFrame, Zenon DEF Begin, Resolve
  <2>2. QED BY <2>1 DEF AllCounted, dbVars
<1>5. CASE Deploy \/ Reparse \/ UNCHANGED vars
  BY <1>5, OtherFrame DEF AllCounted
<1>6. QED BY <1>1, <1>2, <1>3, <1>4, <1>5, JobCases DEF Next, CommitJob

(***************************************************************************)
(* The observations counters add up to the committed observations: no      *)
(* "latest.observations += 1" overwrites another, whether the refreshes    *)
(* overlap (the touched product row serialises them) or the schedule runs  *)
(* one job at a time.                                                      *)
(***************************************************************************)
THEOREM NoObservationIsLost ==
  ASSUME Baskets = {} \/ ~Overlap
  PROVE  Spec => []NoLostObservation
<1>1. AllCounted => NoLostObservation
  BY DEF AllCounted, Totals, NoLostObservation
<1>2. TransactionInv /\ TransactionInv' /\ AllCounted /\ [Next]_vars => AllCounted'
  BY AllCountedStep DEF TransactionInv
<1>3. Spec => []TransactionInv
  BY TransactionInvariant
<1>4. QED BY <1>1, <1>2, <1>3, InitAllCounted, PTL DEF Spec

---------------------------------------------------------------------------
(* The published evidence                                                  *)

\* The parses an open transaction holds are the table's, or its own to insert.
ParsesHeld ==
  \A w \in Workers : InTransaction(w) =>
    /\ txn[w].latest = 0 => txn[w].before = None
    /\ txn[w].beforeNew => txn[w].before # None
    /\ txn[w].before # None /\ ~txn[w].beforeNew =>
         parses[snaps[txn[w].latest].label] = txn[w].before
    /\ pc[w] = "resolved" =>
         /\ txn[w].after # None /\ ~txn[w].afterNew =>
              \/ parses[fetched[w].label] = txn[w].after
              \/ /\ txn[w].beforeNew /\ txn[w].after = txn[w].before
                 /\ snaps[txn[w].latest].label = fetched[w].label
         /\ txn[w].afterNew =>
              /\ txn[w].after # None
              /\ txn[w].beforeNew => snaps[txn[w].latest].label # fetched[w].label

\* While a reparse is on no job runs, and it leaves no list of revised rows behind.
ReparsedAlone ==
  /\ reparse.on => \A w \in Workers : pc[w] = "idle"
  /\ ~reparse.on => reparse.revised = {}

\* Snapshot i is linked to a parse that holds quantity q, or is about to be demoted.
Backed(i, q) ==
  /\ i \in 1..Len(snaps) /\ snaps[i].parsed /\ q # None
  /\ snaps[i].label \in reparse.revised \/ Quantity(parses[snaps[i].label]) = q

EvidenceBacked ==
  \A c \in changes : c.status = "published" /\ c.sized =>
    Backed(c.before, c.beforeQuantity) /\ Backed(c.after, c.afterQuantity)

EvidenceInv == ParsesHeld /\ ReparsedAlone /\ EvidenceBacked

LEMMA InitEvidenceInv == Init => EvidenceInv
<1> SUFFICES ASSUME Init PROVE EvidenceInv
  OBVIOUS
<1>1. QED BY DEF Init, EvidenceInv, ParsesHeld, ReparsedAlone, EvidenceBacked, InTransaction

LEMMA EvidenceInvAgrees == EvidenceInv => EvidenceAgrees
BY DEF EvidenceInv, EvidenceBacked, Backed, EvidenceAgrees, SideAgrees

\* A draft with a size percentage was made from two known quantities.
LEMMA SizedDraft ==
  ASSUME NEW b, NEW a, Classify(b, a).sizePct # None
  PROVE  b.quantity # None /\ a.quantity # None
<1>1. CASE CanCompare(b, a)
  BY <1>1 DEF CanCompare, Comparable
<1>2. CASE ~CanCompare(b, a)
  BY <1>2 DEF Classify, ClassifyUnreadable, PriceOnly, NoDraft
<1>3. QED BY <1>1, <1>2
LEMMA ReparsedAloneStep ==
  ASSUME ReparseAlone, ~ReparseFails, TypeInv, ReparsedAlone, [Next]_vars
  PROVE  ReparsedAlone'
<1>1. ASSUME NEW w \in Workers, Job(w) PROVE ReparsedAlone'
  <2>1. reparse' = reparse
    <3>1. QuietJob(w) \/ Begin(w) \/ Resolve(w) \/ CommitJob(w)
      BY <1>1, JobCases
    <3>2. QED BY <3>1, QuietJobFrame, CommitJobFrame, Zenon DEF Begin, Resolve
  <2>2. ~reparse.on
    <3>1. CASE pc[w] # "idle"
      BY <3>1 DEF ReparsedAlone
    <3>2. CASE pc[w] = "idle"
      <4>1. StartRun(w)
        BY <1>1, <3>2 DEF Job, Fetch, FinishRun, Begin, Resolve, CommitSameState,
             CommitNewState, FailRefresh, FailBasketSameState, FailBasketNewState, Kill,
             InTransaction
      <4>2. QED BY <4>1 DEF StartRun
    <3>3. QED BY <3>1, <3>2
  <2>3. QED BY <2>1, <2>2 DEF ReparsedAlone
<1>2. CASE Deploy \/ UNCHANGED vars
  <2>1. reparse' = reparse /\ pc' = pc
    BY <1>2, Zenon DEF Deploy, vars, jobVars
  <2>2. QED BY <2>1 DEF ReparsedAlone
<1>3. CASE Reparse
  <2>1. pc' = pc
    BY <1>3, OtherFrame DEF jobVars
  <2>2. CASE ReparseStart
    BY <2>1, <2>2 DEF ReparseStart, ReparsedAlone
  <2>3. ASSUME NEW l \in Labels, ReparseRow(l) PROVE ReparsedAlone'
    <3>1. reparse.on
      BY <2>3 DEF ReparseRow
    <3>2. reparse' = Ticked(reparse, l) \/ reparse' = TickedRead(reparse, l)
      BY <2>3, Zenon DEF ReparseRow, Ticked, TickedRead
    <3>3. \A r \in Commands : Ticked(r, l).on = r.on /\ TickedRead(r, l).on = r.on
      BY DEF Commands, Ticked, TickedRead
    <3>4. reparse \in Commands
      BY DEF TypeInv, TypeOK, Commands
    <3>5. reparse'.on
      BY <3>1, <3>2, <3>3, <3>4
    <3>6. QED BY <2>1, <3>1, <3>5 DEF ReparsedAlone
  <2>4. CASE ReparseDemote
    BY <2>4 DEF ReparseDemote, ReparsedAlone
  <2>5. QED BY <1>3, <2>2, <2>3, <2>4 DEF Reparse, ReparseFail
<1>4. QED BY <1>1, <1>2, <1>3 DEF Next

\* What resolve_size hands out: the table's row, or one to insert, or nothing.
LEMMA ResolutionsMean ==
  ASSUME TypeInv, NEW l \in Labels, NEW r \in Resolutions(l)
  PROVE  /\ r.inserts => r.parse # None /\ parses[l] = None
         /\ ~r.inserts => r.parse = None \/ r.parse = parses[l]
<1>1. parser[l] # None
  BY SnapshotStoreAssumption DEF TypeInv, TypeOK
<1>2. QED BY <1>1 DEF Resolutions, NoResolution

LEMMA ParsesHeldStep ==
  ASSUME TransactionInv, TransactionInv', ReparsedAlone, ParsesHeld, [Next]_vars
  PROVE  ParsesHeld'
<1>0. TypeInv /\ TypeInv' /\ OneTransaction /\ OneTransaction'
  BY DEF TransactionInv
<1>1. ASSUME NEW w \in Workers, QuietJob(w) PROVE ParsesHeld'
  <2>1. UNCHANGED <<snaps, parses>> /\ ~InTransaction(w)'
    BY <1>0, <1>1, QuietJobFrame DEF dbVars
  <2>2. \A v \in Workers : v # w =>
          pc'[v] = pc[v] /\ fetched'[v] = fetched[v] /\ txn'[v] = txn[v]
    BY <1>0, <1>1, JobFrame DEF QuietJob, Job
  <2>3. QED BY <2>1, <2>2 DEF ParsesHeld, InTransaction
<1>2. ASSUME NEW w \in Workers, CommitJob(w) PROVE ParsesHeld'
  <2>1. InTransaction(w) /\ ~InTransaction(w)'
    BY <1>0, <1>2, CommitJobFrame
  <2>2. \A v \in Workers : v # w => pc'[v] = pc[v]
    BY <1>0, <1>2, JobFrame DEF CommitJob, Job
  <2>3. \A v \in Workers : ~InTransaction(v)'
    BY <1>0, <2>1, <2>2 DEF InTransaction, OneTransaction
  <2>4. QED BY <2>3 DEF ParsesHeld
<1>3. ASSUME NEW w \in Workers, Begin(w) PROVE ParsesHeld'
  <2>1. PICK r \in LatestResolutions :
          /\ txn'[w].latest = LatestSnapshot
          /\ txn'[w].before = r.parse /\ txn'[w].beforeNew = r.inserts
    BY <1>0, <1>3 DEF Begin, TypeInv, TypeOK
  <2>2. pc'[w] = "read" /\ UNCHANGED <<snaps, parses>>
    BY <1>0, <1>3 DEF Begin, dbVars, TypeInv, TypeOK
  <2>3. \A v \in Workers : InTransaction(v)' => v = w
    BY <1>0, <2>2 DEF OneTransaction, InTransaction
  <2>4. /\ LatestSnapshot = 0 => r.parse = None /\ ~r.inserts
        /\ LatestSnapshot # 0 => r \in Resolutions(snaps[LatestSnapshot].label)
    BY DEF LatestResolutions, NoResolution
  <2>5. LatestSnapshot # 0 => snaps[LatestSnapshot].label \in Labels
    <3>1. LatestSnapshot # 0 => LatestSnapshot \in 1..Len(snaps)
      BY <1>0, LatestSnapshotType DEF TypeInv, TypeOK
    <3>2. QED BY <1>0, <3>1, RowsAreOK DEF RowsOK, Snapshot
  <2>6. /\ r.inserts => r.parse # None
        /\ r.parse # None /\ ~r.inserts => parses[snaps[LatestSnapshot].label] = r.parse
    BY <1>0, <2>4, <2>5, ResolutionsMean
  <2>7. QED BY <2>1, <2>2, <2>3, <2>4, <2>6 DEF ParsesHeld
<1>4. ASSUME NEW w \in Workers, Resolve(w) PROVE ParsesHeld'
  <2>1. /\ pc[w] = "read" /\ pc' = [pc EXCEPT ![w] = "resolved"]
        /\ UNCHANGED <<snaps, parses, fetched>>
    BY <1>4, Zenon DEF Resolve, dbVars
  <2>2. PICK r \in Resolution :
          /\ r \in IF Held(w) THEN {[parse |-> txn[w].before, inserts |-> FALSE]}
                   ELSE Resolutions(fetched[w].label)
          /\ txn'[w].latest = txn[w].latest
          /\ txn'[w].before = txn[w].before /\ txn'[w].beforeNew = txn[w].beforeNew
          /\ txn'[w].after = r.parse /\ txn'[w].afterNew = r.inserts
    BY <1>0, <1>4, ResolvedTransaction, Zenon
  <2>3. InTransaction(w) /\ pc'[w] = "resolved"
    BY <1>0, <2>1 DEF InTransaction, TypeInv, TypeOK
  <2>4. \A v \in Workers : InTransaction(v)' => v = w
    BY <1>0, <2>3 DEF OneTransaction, InTransaction
  <2>5. fetched[w].label \in Labels
    BY <1>0, <2>1 DEF TypeInv, JobsOK, HoldsReading, Reading
  <2>6. CASE Held(w)
    <3>1. r.parse = txn[w].before /\ ~r.inserts
      BY <2>2, <2>6
    <3>2. QED BY <2>1, <2>2, <2>3, <2>4, <2>6, <3>1 DEF ParsesHeld, Held
  <2>7. CASE ~Held(w)
    <3>1. r \in Resolutions(fetched[w].label)
      BY <2>2, <2>7
    <3>2. /\ r.inserts => r.parse # None /\ parses[fetched[w].label] = None
          /\ ~r.inserts => r.parse = None \/ r.parse = parses[fetched[w].label]
      BY <1>0, <2>5, <3>1, ResolutionsMean
    <3>3. txn[w].beforeNew => snaps[txn[w].latest].label # fetched[w].label
      BY <2>3, <2>7 DEF ParsesHeld, Held
    <3>4. QED BY <2>1, <2>2, <2>3, <2>4, <3>2, <3>3 DEF ParsesHeld
  <2>8. QED BY <2>6, <2>7
<1>5. CASE Deploy \/ UNCHANGED vars
  <2>1. UNCHANGED <<pc, fetched, txn, snaps, parses>>
    BY <1>5, Zenon DEF Deploy, vars, dbVars, jobVars
  <2>2. QED BY <2>1 DEF ParsesHeld, InTransaction
<1>6. CASE Reparse
  <2>1. UNCHANGED <<pc, fetched, txn, snaps>>
    BY <1>6, OtherFrame DEF jobVars
  <2>2. CASE ReparseStart
    <3>1. parses' = parses
      BY <2>2 DEF ReparseStart, dbVars
    <3>2. QED BY <2>1, <3>1 DEF ParsesHeld, InTransaction
  <2>3. CASE ~ReparseStart
    <3>1. reparse.on
      BY <1>6, <2>3 DEF Reparse, ReparseRow, ReparseDemote, ReparseFail
    <3>2. QED BY <2>1, <3>1 DEF ReparsedAlone, ParsesHeld, InTransaction
  <2>4. QED BY <2>2, <2>3
<1>7. QED BY <1>1, <1>2, <1>3, <1>4, <1>5, <1>6, JobCases DEF Next
\* A committed transaction inserts parses only where there was none, and leaves in
\* the table what it held.
LEMMA ParsesCommitted ==
  ASSUME TypeInv, ParsesHeld, NEW w \in Workers, CommitJob(w)
  PROVE  /\ \A l \in Labels : parses[l] # None => parses'[l] = parses[l]
         /\ CommitNewState(w) =>
              /\ txn[w].latest = 0 => txn[w].before = None
              /\ txn[w].before # None =>
                   parses'[snaps[txn[w].latest].label] = txn[w].before
              /\ txn[w].after # None => parses'[fetched[w].label] = txn[w].after
<1> DEFINE old == snaps[txn[w].latest].label
           new == fetched[w].label
<1>0. InTransaction(w) /\ parses \in [Labels -> Parse]
  BY CommitJobFrame DEF TypeInv, TypeOK
<1>1. /\ txn[w].latest = 0 => txn[w].before = None
      /\ txn[w].beforeNew => txn[w].before # None
      /\ txn[w].before # None /\ ~txn[w].beforeNew => parses[old] = txn[w].before
      /\ pc[w] = "resolved" =>
           /\ txn[w].after # None /\ ~txn[w].afterNew =>
                \/ parses[new] = txn[w].after
                \/ /\ txn[w].beforeNew /\ txn[w].after = txn[w].before
                   /\ old = new
           /\ txn[w].afterNew =>
                /\ txn[w].after # None
                /\ txn[w].beforeNew => old # new
  BY <1>0, Zenon DEF ParsesHeld
<1>2. txn[w].before # None => old \in Labels
  <2>1. txn[w].latest # 0 => txn[w].latest \in 1..Len(snaps)
    BY DEF TypeInv, TypeOK, JobsOK, Transaction
  <2>2. QED BY <1>1, <2>1, RowsAreOK DEF RowsOK, Snapshot
<1>3. new \in Labels
  BY <1>0 DEF TypeInv, JobsOK, HoldsReading, Reading, InTransaction
<1> HIDE DEF old, new
<1>4. BeforeInserted(w) = IF txn[w].beforeNew THEN [parses EXCEPT ![old] = txn[w].before]
                          ELSE parses
  BY DEF BeforeInserted, old
<1>5. BothInserted(w) = IF txn[w].afterNew
                        THEN [BeforeInserted(w) EXCEPT ![new] = txn[w].after]
                        ELSE BeforeInserted(w)
  BY DEF BothInserted, new
<1>6. InsertsAllowed(w) => /\ txn[w].beforeNew => parses[old] = None
                           /\ txn[w].afterNew  => parses[new] = None
  BY DEF InsertsAllowed, old, new
<1>7. CASE CommitNewState(w)
  <2>1. InsertsAllowed(w) /\ parses' = BothInserted(w) /\ pc[w] = "resolved"
    BY <1>7 DEF CommitNewState
  <2>2. /\ \A l \in Labels : parses[l] # None => parses'[l] = parses[l]
        /\ txn[w].before # None => parses'[old] = txn[w].before
        /\ txn[w].after # None => parses'[new] = txn[w].after
    BY <1>0, <1>1, <1>2, <1>3, <1>4, <1>5, <1>6, <2>1
  <2>3. QED BY <1>1, <2>2 DEF old, new
<1>8. CASE ~CommitNewState(w)
  <2>1. parses' = parses \/ (InsertsAllowed(w) /\ parses' = BeforeInserted(w))
    BY <1>8 DEF CommitJob, CommitSameState, FailBasketSameState, FailBasketNewState
  <2>2. \A l \in Labels : parses[l] # None => parses'[l] = parses[l]
    BY <1>0, <1>2, <1>1, <1>4, <1>6, <2>1
  <2>3. QED BY <1>8, <2>2
<1>9. QED BY <1>7, <1>8

\* The snapshots a commit leaves keep their labels and their links.
LEMMA LinksCommitted ==
  ASSUME TypeInv, NEW w \in Workers, CommitJob(w)
  PROVE  /\ Len(snaps') >= Len(snaps) /\ Len(snaps) \in Nat
         /\ \A i \in 1..Len(snaps) :
              snaps'[i].label = snaps[i].label /\ (snaps[i].parsed => snaps'[i].parsed)
<1>1. Len(snaps) \in Nat
  BY RowsAreOK DEF RowsOK
<1>2. CASE CommitSameState(w) \/ FailBasketSameState(w)
  BY <1>1, <1>2, SameStateRows DEF SameIdentity
<1>3. CASE CommitNewState(w) \/ FailBasketNewState(w)
  BY <1>1, <1>3, NewStateRows DEF SameIdentity, Filled
<1>4. QED BY <1>2, <1>3 DEF CommitJob

LEMMA BackedLater ==
  ASSUME NEW i, NEW q, i \in 1..Len(snaps'), snaps'[i].parsed, q # None,
         Quantity(parses'[snaps'[i].label]) = q
  PROVE  Backed(i, q)'
BY DEF Backed, Quantity

\* The change of a new state is backed by the parses the transaction held.
LEMMA NewChangeBacked ==
  ASSUME TypeInv, TypeInv', ParsesHeld, NEW w \in Workers, CommitNewState(w),
         NEW c \in NewChanges(w), c.sized
  PROVE  Backed(c.before, c.beforeQuantity)' /\ Backed(c.after, c.afterQuantity)'
<1> DEFINE k == txn[w].latest
           n == Len(snaps)
           b == SnapshotView(snaps[k].label, snaps[k].price, txn[w].before)
           a == SnapshotView(fetched[w].label, fetched[w].price, txn[w].after)
<1>1. c = ChangeRow(w) /\ k # 0
  BY DEF NewChanges
<1>2. /\ c.before = k /\ c.after = n + 1 /\ Draft(w).sizePct # None
      /\ c.beforeQuantity = Quantity(txn[w].before)
      /\ c.afterQuantity = Quantity(txn[w].after)
  BY <1>1 DEF ChangeRow
<1>3. b.quantity # None /\ a.quantity # None
  BY <1>2, SizedDraft DEF Draft
<1>4. /\ Quantity(txn[w].before) # None /\ Quantity(txn[w].after) # None
      /\ txn[w].before # None /\ txn[w].after # None
  BY <1>3 DEF SnapshotView, Quantity
<1>5. /\ k \in 1..n /\ n \in Nat /\ Len(snaps') = n + 1
      /\ snaps'[k].label = snaps[k].label /\ snaps'[k].parsed
      /\ snaps'[n + 1] = NewSnapshot(w)
  <2>1. k \in 1..n /\ n \in Nat
    BY <1>1, RowsAreOK DEF RowsOK, TypeInv, TypeOK, JobsOK, Transaction
  <2>2. QED BY <1>4, <2>1, NewStateRows DEF SameIdentity, Filled
<1>6. snaps'[n + 1].label = fetched[w].label /\ snaps'[n + 1].parsed
  <2>1. NewSnapshot(w).label = fetched[w].label
        /\ NewSnapshot(w).parsed = (txn[w].after # None)
    BY DEF NewSnapshot
  <2>2. NewSnapshot(w).parsed
    BY <1>4, <2>1, Zenon
  <2>3. QED BY <1>5, <2>1, <2>2
<1>7. parses'[snaps[k].label] = txn[w].before /\ parses'[fetched[w].label] = txn[w].after
  BY <1>4, ParsesCommitted DEF CommitJob
<1> HIDE DEF k, n
<1>8. Backed(c.before, c.beforeQuantity)'
  <2>1. /\ c.before \in 1..Len(snaps') /\ snaps'[c.before].parsed
        /\ c.beforeQuantity # None
        /\ Quantity(parses'[snaps'[c.before].label]) = c.beforeQuantity
    BY <1>2, <1>4, <1>5, <1>7
  <2>2. QED BY <2>1, BackedLater
<1>9. Backed(c.after, c.afterQuantity)'
  <2>1. /\ c.after \in 1..Len(snaps') /\ snaps'[c.after].parsed
        /\ c.afterQuantity # None
        /\ Quantity(parses'[snaps'[c.after].label]) = c.afterQuantity
    BY <1>2, <1>4, <1>5, <1>6, <1>7
  <2>2. QED BY <2>1, BackedLater
<1>10. QED BY <1>8, <1>9

LEMMA EvidenceBackedStep ==
  ASSUME ReparseAlone, ~ReparseFails, TypeInv, TypeInv', ReparsedAlone, ParsesHeld,
         EvidenceBacked, [Next]_vars
  PROVE  EvidenceBacked'
<1>1. ASSUME NEW w \in Workers, CommitJob(w) PROVE EvidenceBacked'
  <2>1. reparse' = reparse /\ reparse.revised = {}
    <3>1. reparse' = reparse /\ InTransaction(w)
      BY <1>1, CommitJobFrame
    <3>2. QED BY <3>1 DEF ReparsedAlone, InTransaction
  <2>2. /\ \A l \in Labels : parses[l] # None => parses'[l] = parses[l]
        /\ Len(snaps') >= Len(snaps) /\ Len(snaps) \in Nat /\ Len(snaps') \in Nat
        /\ \A i \in 1..Len(snaps) :
             snaps'[i].label = snaps[i].label /\ (snaps[i].parsed => snaps'[i].parsed)
        /\ \A i \in 1..Len(snaps) : snaps[i].label \in Labels
    <3>1. Len(snaps') \in Nat
      BY LenProperties DEF TypeInv, TypeOK
    <3>2. \A i \in 1..Len(snaps) : snaps[i].label \in Labels
      BY RowsAreOK DEF RowsOK, Snapshot
    <3>3. QED BY <1>1, <3>1, <3>2, ParsesCommitted, LinksCommitted
  <2>3. ASSUME NEW i, NEW q, Backed(i, q) PROVE Backed(i, q)'
    <3>1. i \in 1..Len(snaps') /\ i \in 1..Len(snaps) /\ snaps'[i].parsed /\ q # None
      BY <2>2, <2>3 DEF Backed
    <3>2. Quantity(parses[snaps[i].label]) = q
      BY <2>1, <2>3 DEF Backed
    <3>3. parses[snaps[i].label] # None
      BY <3>1, <3>2 DEF Quantity
    <3>4. parses'[snaps'[i].label] = parses[snaps[i].label]
      BY <2>2, <3>1, <3>3
    <3>5. QED BY <3>1, <3>2, <3>4 DEF Backed, Quantity
  <2>4. changes' = changes \/ (CommitNewState(w) /\ changes' = changes \cup NewChanges(w))
    BY <1>1 DEF CommitJob, CommitSameState, CommitNewState, FailBasketSameState,
                FailBasketNewState
  <2>5. QED BY <2>3, <2>4, NewChangeBacked DEF EvidenceBacked
<1>2. ASSUME UNCHANGED <<dbVars, reparse>> PROVE EvidenceBacked'
  BY <1>2 DEF EvidenceBacked, Backed, dbVars
<1>3. ASSUME NEW w \in Workers, QuietJob(w) \/ Begin(w) \/ Resolve(w)
      PROVE  EvidenceBacked'
  <2>1. UNCHANGED <<dbVars, reparse>>
    BY <1>3, QuietJobFrame, Zenon DEF Begin, Resolve
  <2>2. QED BY <1>2, <2>1
<1>4. CASE Deploy \/ UNCHANGED vars
  BY <1>2, <1>4, Zenon DEF Deploy, vars
<1>5. CASE ReparseStart
  BY <1>5 DEF ReparseStart, ReparsedAlone, EvidenceBacked, Backed, dbVars
<1>6. ASSUME NEW l \in Labels, ReparseRow(l) PROVE EvidenceBacked'
  <2>1. snaps' = snaps /\ changes' = changes
    BY <1>6 DEF ReparseRow
  <2>2. reparse \in Commands /\ parses \in [Labels -> Parse]
    BY DEF TypeInv, TypeOK, Commands
  <2>3. /\ \A m \in Labels : parses'[m] = parses[m] \/ m \in reparse'.revised
        /\ reparse.revised \subseteq reparse'.revised
    <3>1. \/ /\ parses' = [parses EXCEPT ![l] = parser[l]]
             /\ reparse' = TickedRead(reparse, l)
          \/ parses' = parses /\ reparse' = Ticked(reparse, l)
      BY <1>6, Zenon DEF ReparseRow, Ticked, TickedRead
    <3>2. /\ Ticked(reparse, l).revised = reparse.revised
          /\ TickedRead(reparse, l).revised = IF parser[l] = parses[l] THEN reparse.revised
                                              ELSE reparse.revised \cup {l}
      BY <2>2 DEF Commands, Ticked, TickedRead
    <3>3. QED BY <2>2, <3>1, <3>2
  <2>4. \A i \in 1..Len(snaps) : snaps[i].label \in Labels
    BY RowsAreOK DEF RowsOK, Snapshot
  <2>5. \A i, q : Backed(i, q) => Backed(i, q)'
    BY <2>1, <2>3, <2>4 DEF Backed, Quantity
  <2>6. QED BY <2>1, <2>5 DEF EvidenceBacked
<1>7. CASE ReparseDemote
  <2>1. /\ changes' = {Demoted(c) : c \in changes} /\ UNCHANGED <<snaps, parses>>
        /\ reparse'.revised = {} /\ changes \subseteq Change
    BY <1>7 DEF ReparseDemote, TypeInv, TypeOK
  <2>2. \A d \in changes' : d.status = "published" => d \in changes /\ ~Affected(d)
    <3>1. \A c \in Change : Demoted(c).status = "published" => ~Affected(c) /\ Demoted(c) = c
      BY DEF Demoted, Change, Affected
    <3>2. QED BY <2>1, <3>1
  <2>3. ASSUME NEW d \in changes', d.status = "published", d.sized
        PROVE  Backed(d.before, d.beforeQuantity)' /\ Backed(d.after, d.afterQuantity)'
    <3>1. /\ Backed(d.before, d.beforeQuantity) /\ Backed(d.after, d.afterQuantity)
          /\ ~Affected(d)
      BY <2>2, <2>3 DEF EvidenceBacked
    <3>2. /\ snaps[d.before].label \notin reparse.revised
          /\ snaps[d.after].label \notin reparse.revised
      BY <2>3, <3>1 DEF Affected, Backed
    <3>3. QED BY <2>1, <3>1, <3>2 DEF Backed
  <2>4. QED BY <2>3 DEF EvidenceBacked
<1>8. QED BY <1>1, <1>2, <1>3, <1>4, <1>5, <1>6, <1>7, JobCases
          DEF Next, Reparse, ReparseFail

(***************************************************************************)
(* What the feed publishes agrees with its evidence: while nobody runs a   *)
(* job beside the reparse command and it is not interrupted, the stored    *)
(* quantities of every published change are those of the SizeParse rows    *)
(* its snapshots link to, or the command has still to demote it.  (The     *)
(* ReparseInterrupted run shows what an interruption does to it.)          *)
(***************************************************************************)
THEOREM PublishedEvidenceAgrees ==
  ASSUME Baskets = {} \/ ~Overlap, ReparseAlone, ~ReparseFails
  PROVE  Spec => []EvidenceAgrees
<1>1. TransactionInv /\ TransactionInv' /\ EvidenceInv /\ [Next]_vars => EvidenceInv'
  BY ReparsedAloneStep, ParsesHeldStep, EvidenceBackedStep DEF TransactionInv, EvidenceInv
<1>2. Spec => []TransactionInv
  BY TransactionInvariant
<1>3. QED BY <1>1, <1>2, InitEvidenceInv, EvidenceInvAgrees, PTL DEF Spec
=============================================================================
