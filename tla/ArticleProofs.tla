---------------------------- MODULE ArticleProofs ----------------------------
(***************************************************************************)
(* Proofs about Article: for any feed, category and address, the table's   *)
(* counts and controls keep their word, the story's numbers are those of   *)
(* the graphic's dots, and on any stage every product has its place in the *)
(* grid and, where the chart is roomy, every changed one in the swarm.     *)
(***************************************************************************)
EXTENDS Article, ChartProofs

---------------------------------------------------------------------------
(* The address                                                             *)

\* Whatever an address says, it names a view.
LEMMA ParseType ==
  ASSUME NEW params \in Addresses
  PROVE  Parse(params) \in Views
<1>1. DefaultView.kind = "all" /\ DefaultView.sort = "when" /\ DefaultView.descending \in BOOLEAN
  BY DEF DefaultView
<1>2. "all" \in FeedKinds /\ "when" \in SortKeys
  BY DEF FeedKinds, SortKeys
<1>3. params.category \in Categories \cup {Unknown, None}
  BY DEF Addresses
<1>4. params.sort # None => params.sort.minus \in BOOLEAN
  BY DEF Addresses, Sorts
<1>5. QED BY <1>1, <1>2, <1>3, <1>4 DEF Parse, Views

\* The address written keeps the parameters that are not the table's.
LEMMA SerializeType ==
  ASSUME NEW v \in Views, NEW base \in Addresses
  PROVE  Serialize(v, base) \in Addresses /\ Serialize(v, base).other = base.other
<1>1. [key |-> v.sort, minus |-> v.descending] \in Sorts
  BY DEF Views, Sorts
<1>2. v.kind \in FeedKinds /\ v.category \in Categories \cup {Unknown, None} /\ base.other \in Others
  BY DEF Views, Addresses
<1>3. QED BY <1>1, <1>2 DEF Serialize, Addresses

(***************************************************************************)
(* tableState.ts:19-41: reading back what was written gives the view that  *)
(* was written, though only what differs from the default is in it: a      *)
(* default left out is never taken for something else, and an order kept   *)
(* under another column is not lost.                                       *)
(***************************************************************************)
THEOREM AddressKeepsTheView ==
  ASSUME NEW v \in Views, NEW base \in Addresses
  PROVE  Parse(Serialize(v, base)) = v
<1> DEFINE sort == [key |-> v.sort, minus |-> v.descending]
           params == Serialize(v, base)
<1>1. v.kind \in FeedKinds /\ v.sort \in SortKeys /\ v.descending \in BOOLEAN
  BY DEF Views
<1>2. sort \in Sorts /\ sort # None /\ sort.key = v.sort /\ sort.minus = v.descending
  BY <1>1, NoneIsNoSort DEF Sorts
<1>3. /\ params.kind = IF v.kind = "all" THEN None ELSE v.kind
      /\ params.category = v.category
      /\ params.sort = IF v.sort = "when" /\ v.descending = TRUE THEN None ELSE sort
  BY DEF Serialize, DefaultView
<1> HIDE DEF sort, params
<1>4. Parse(params).kind = v.kind
  BY <1>1, <1>3, TableAssumption DEF Parse, DefaultView
<1>5. Parse(params).category = v.category
  BY <1>3 DEF Parse
<1>6. Parse(params).sort = v.sort
  BY <1>1, <1>2, <1>3 DEF Parse, DefaultView
<1>7. Parse(params).descending = v.descending
  BY <1>1, <1>2, <1>3 DEF Parse, DefaultView
<1>8. Parse(params) = [kind |-> Parse(params).kind, category |-> Parse(params).category,
                       sort |-> Parse(params).sort, descending |-> Parse(params).descending]
  BY DEF Parse
<1>9. v = [kind |-> v.kind, category |-> v.category, sort |-> v.sort, descending |-> v.descending]
  BY DEF Views
<1>10. QED BY <1>4, <1>5, <1>6, <1>7, <1>8, <1>9 DEF params

(***************************************************************************)
(* ChangesSection.tsx:142-158: using a control leads to the view it asked  *)
(* for, and what else the address holds stays.                             *)
(***************************************************************************)
THEOREM ControlsLeadThere ==
  ASSUME address \in Addresses, NEW v \in Views, Update(v)
  PROVE  address' \in Addresses /\ View' = v /\ address'.other = address.other
<1>1. address' = Serialize(v, address)
  BY DEF Update, SetParams
<1>2. QED BY <1>1, SerializeType, AddressKeepsTheView DEF View

---------------------------------------------------------------------------
(* The rows                                                                *)

\* An order of a set has as many places as the set has elements.
LEMMA PlacesOfRows ==
  ASSUME NEW all, NEW s \in SUBSET DOMAIN all, IsFiniteSet(DOMAIN all), NEW v
  PROVE  /\ Len(SortChanges(all, s, v)) = Cardinality(s)
         /\ DOMAIN SortChanges(all, s, v) = 1..Cardinality(s)
         /\ SortChanges(all, s, v) \in Seq(Range(SortChanges(all, s, v)))
<1> DEFINE rows == SortChanges(all, s, v)
           n == Cardinality(s)
<1>1. n \in Nat
  BY FS_Subset, FS_CardinalityType
<1>2. DOMAIN rows = 1..n /\ rows = [i \in 1..n |-> rows[i]]
  BY DEF SortChanges, InOrder
<1> HIDE DEF rows, n
<1>3. {rows[i] : i \in 1..n} = Range(rows)
  BY <1>2 DEF Range
<1>4. rows \in Seq({rows[i] : i \in 1..n}) /\ Len(rows) = n
  BY <1>1, <1>2, ListOf
<1>5. QED BY <1>2, <1>3, <1>4 DEF rows, n

\* The first n rows are a prefix of the rows.
LEMMA PrefixShown ==
  ASSUME NEW V, NEW rows \in Seq(V), NEW n \in Nat, n <= Len(rows)
  PROVE  IsPrefix(SubSeq(rows, 1, n), rows)
<1>1. SubSeq(rows, 1, n) = [i \in 1..n |-> rows[i]] /\ Len(rows) \in Nat
  OBVIOUS
<1>2. Len(SubSeq(rows, 1, n)) = n /\ SubSeq(rows, 1, n) \in Seq(V)
  OBVIOUS
<1>3. SubSeq(SubSeq(rows, 1, n), 1, n) = SubSeq(rows, 1, n)
  BY <1>1, <1>2
<1>4. QED BY <1>2, <1>3 DEF IsPrefix

\* The rows of a feed: a view keeps finitely many.
LEMMA KeptRows ==
  ASSUME NEW all \in Seq(Change), NEW kind, NEW category
  PROVE  /\ IsFiniteSet(DOMAIN all)
         /\ FilterChanges(all, kind, category) \in SUBSET DOMAIN all
<1>1. DOMAIN all = 1..Len(all) /\ Len(all) \in Nat
  OBVIOUS
<1>2. IsFiniteSet(DOMAIN all)
  BY <1>1, FS_Interval
<1>3. QED BY <1>2 DEF FilterChanges

\* The table has as many rows as changes pass its filter.
LEMMA RowsKept ==
  ASSUME NEW all \in Seq(Change), NEW v
  PROVE  Len(Rows(all, v)) = Cardinality(FilterChanges(all, v.kind, v.category))
  BY KeptRows, PlacesOfRows DEF Rows

\* What is shown are the first of the rows.
LEMMA ShownIsPrefix ==
  ASSUME NEW all \in Seq(Change), NEW v
  PROVE  IsPrefix(Shown(all, v), Rows(all, v))
<1> DEFINE rows == Rows(all, v)
           n == IF showAll THEN Len(rows) ELSE Min({PageRows, Len(rows)})
<1>1. rows \in Seq(Range(rows))
  BY KeptRows, PlacesOfRows DEF Rows
<1>2. Len(rows) \in Nat /\ PageRows \in Nat
  BY <1>1, TableAssumption
<1>3. n \in Nat /\ n <= Len(rows)
  <2>1. ASSUME NEW a \in Nat, NEW b \in Nat
        PROVE  Min({a, b}) \in {a, b} /\ Min({a, b}) <= b
    <3>1. \E x \in {a, b} : \A y \in {a, b} : x <= y
      <4>1. CASE a <= b
        BY <4>1
      <4>2. CASE ~(a <= b)
        BY <4>2
      <4>3. QED BY <4>1, <4>2
    <3>2. QED BY <3>1 DEF Min
  <2> HIDE DEF rows
  <2>2. QED BY <1>2, <2>1
<1>4. Shown(all, v) = SubSeq(rows, 1, n)
  <2>1. CASE showAll
    <3>1. SubSeq(rows, 1, Len(rows)) = rows
      BY <1>1
    <3>2. QED BY <2>1, <3>1 DEF Shown
  <2>2. CASE ~showAll
    BY <2>2 DEF Shown
  <2>3. QED BY <2>1, <2>2
<1> HIDE DEF rows, n
<1>5. IsPrefix(SubSeq(rows, 1, n), rows)
  BY <1>1, <1>3, PrefixShown
<1>6. QED BY <1>4, <1>5 DEF rows

\* The number on a chip counts the rows its view has.
LEMMA ChipCounts ==
  ASSUME NEW all \in Seq(Change), NEW v \in Views, NEW k \in FeedKinds
  PROVE  ByKind(all, v)[k] = Len(Rows(all, [v EXCEPT !.kind = k]))
<1> DEFINE here == FilterChanges(all, "all", v.category)
           w == [v EXCEPT !.kind = k]
<1>1. w.kind = k /\ w.category = v.category
  BY DEF Views
<1>2. Members(k) \subseteq Members("all")
  BY DEF Members, FeedKinds
<1>3. {i \in here : all[i].kind \in Members(k)} = FilterChanges(all, k, v.category)
  BY <1>2 DEF FilterChanges
<1>4. ByKind(all, v)[k] = Cardinality({i \in here : all[i].kind \in Members(k)})
  BY DEF ByKind
<1>5. Len(Rows(all, w)) = Cardinality(FilterChanges(all, w.kind, w.category))
  BY RowsKept
<1>6. QED BY <1>1, <1>3, <1>4, <1>5

\* The number beside an option counts the rows its view has.
LEMMA OptionCounts ==
  ASSUME NEW all \in Seq(Change), NEW v \in Views, NEW c, c # None
  PROVE  CategoryCount(all, v, c) = Len(Rows(all, [v EXCEPT !.category = c]))
<1> DEFINE w == [v EXCEPT !.category = c]
<1>1. w.kind = v.kind /\ w.category = c
  BY DEF Views
<1>2. {i \in FilterChanges(all, v.kind, None) : Category[all[i].product] = c}
        = FilterChanges(all, v.kind, c)
  BY DEF FilterChanges
<1>3. Len(Rows(all, w)) = Cardinality(FilterChanges(all, w.kind, w.category))
  BY RowsKept
<1>4. QED BY <1>1, <1>2, <1>3 DEF CategoryCount

\* The options of the list.
LEMMA OptionsType ==
  ASSUME NEW all \in Seq(Change), NEW v \in Views
  PROVE  CategoryNames(all, v) \subseteq (Categories \cup {Unknown}) \ {None}
<1>1. \A i \in DOMAIN all : Category[all[i].product] \in Categories
  <2>1. \A i \in DOMAIN all : all[i] \in Change
    OBVIOUS
  <2>2. QED BY <2>1, ChangesAssumption DEF Change
<1>2. v.category \in Categories \cup {Unknown, None}
  BY DEF Views
<1>3. QED BY <1>1, <1>2, ChangesAssumption, TableAssumption DEF CategoryNames

\* The views the controls ask for.
LEMMA AskedType ==
  ASSUME NEW v \in Views
  PROVE  /\ \A k \in FeedKinds : [v EXCEPT !.kind = k] \in Views
         /\ \A c \in Categories \cup {Unknown, None} : [v EXCEPT !.category = c] \in Views
         /\ \A k \in SortKeys, down \in BOOLEAN : SortedBy(v, k, down) \in Views
         /\ DefaultView \in Views
<1>1. DefaultView \in Views
  BY DEF DefaultView, Views, FeedKinds, SortKeys
<1>2. QED BY <1>1 DEF Views, SortedBy

\* The page's parts are made of one feed, the address is one the site writes or was linked to.
ArticleInv ==
  /\ feed \in Feeds /\ address \in Addresses
  /\ changes \in {None, feed.changes}
  /\ story # None =>
       /\ changes = feed.changes /\ story = Story(Range(feed.changes))
       /\ dots = DotsOf(Range(feed.changes), story, feed.field, Gone)

\* Each control keeps the invariant.
LEMMA UpdateInv ==
  ASSUME ArticleInv, NEW v \in Views, Update(v), UNCHANGED <<feed, pictureVars>>
  PROVE  ArticleInv'
<1>1. address' \in Addresses
  BY SerializeType DEF ArticleInv, Update, SetParams
<1>2. QED BY <1>1 DEF ArticleInv, Update, SetParams, pictureVars

\* The page opens in the invariant.
LEMMA ArticleInitInv == Init => ArticleInv
  BY ArticleAssumption DEF Init, ArticleInv

\* Every step keeps it.
LEMMA ArticleNextInv == ArticleInv /\ [Next]_vars => ArticleInv'
<1> SUFFICES ASSUME ArticleInv, [Next]_vars PROVE ArticleInv'
  OBVIOUS
<1>1. CASE Render
  BY <1>1 DEF Render, ArticleInv
<1>2. CASE Resize
  BY <1>2 DEF Resize, ArticleInv, tableVars
<1>3. CASE AtTable
  <2>1. UNCHANGED <<feed, pictureVars>>
    BY <1>3 DEF AtTable
  <2>2. View \in Views
    BY ParseType DEF View, ArticleInv
  <2>3. changes # None => changes \in Seq(Change)
    BY ArticleAssumption DEF ArticleInv
  <2>4. ASSUME NEW v \in Views, Update(v)
        PROVE  ArticleInv'
    BY <2>1, <2>4, UpdateInv
  <2>5. CASE ChooseKind \/ SortByColumn \/ SortByOption \/ ShowEveryChange
    <3>1. PICK v \in Views : Update(v)
      <4>1. CASE ChooseKind
        BY <2>2, <4>1, AskedType DEF ChooseKind
      <4>2. CASE SortByColumn
        <5>1. PICK column \in SortKeys, down \in BOOLEAN :
                Update(SortedBy(View, column, down))
          <6>1. View.descending \in BOOLEAN
            BY <2>2 DEF Views
          <6>2. QED BY <4>2, <6>1 DEF SortByColumn
        <5>2. QED BY <2>2, <5>1, AskedType
      <4>3. CASE SortByOption
        BY <2>2, <4>3, AskedType DEF SortByOption
      <4>4. CASE ShowEveryChange
        BY <2>2, <4>4, AskedType DEF ShowEveryChange
      <4>5. QED BY <2>5, <4>1, <4>2, <4>3, <4>4
    <3>2. QED BY <2>4, <3>1
  <2>6. CASE ChooseCategory
    <3>1. PICK c \in CategoryNames(changes, View) \cup {None} : Update([View EXCEPT !.category = c])
      BY <2>6 DEF ChooseCategory
    <3>2. c \in Categories \cup {Unknown, None}
      BY <2>2, <2>3, <2>6, <3>1, OptionsType DEF ChooseCategory, Ready
    <3>3. QED BY <2>2, <2>4, <3>1, <3>2, AskedType
  <2>7. CASE ShowAll
    BY <2>1, <2>7 DEF ShowAll, ArticleInv, pictureVars
  <2>8. CASE Follow(Links)
    <3>1. address' \in Addresses /\ UNCHANGED changes
      BY <2>8, ArticleAssumption DEF Follow, SetParams
    <3>2. QED BY <2>1, <3>1 DEF ArticleInv, pictureVars
  <2>9. QED BY <1>3, <2>5, <2>6, <2>7, <2>8 DEF AtTable, TableStep
<1>4. CASE UNCHANGED vars
  BY <1>4 DEF vars, tableVars, pictureVars, ArticleInv
<1>5. QED BY <1>1, <1>2, <1>3, <1>4 DEF Next

(***************************************************************************)
(* ChangesSection.tsx:142-222 over tableState.ts: for any feed, any        *)
(* categories and any address, known to the site or not, the number on a   *)
(* chip or an option is the number of rows its view shows, the controls    *)
(* lead where they say, and a page of the table is a prefix of its rows.   *)
(***************************************************************************)
THEOREM TheTableKeepsItsWord == Spec => []CountsKeepTheirWord
<1>1. ArticleInv => CountsKeepTheirWord
  <2> DEFINE Back(v) == Parse(Serialize(v, address))
  <2> SUFFICES ASSUME ArticleInv, Ready
               PROVE  /\ \A v \in Asked : Back(v) = v /\ Serialize(v, address).other = address.other
                      /\ \A k \in FeedKinds :
                           ByKind(changes, View)[k] = Len(Rows(changes, Back([View EXCEPT !.kind = k])))
                      /\ \A c \in CategoryNames(changes, View) :
                           CategoryCount(changes, View, c)
                             = Len(Rows(changes, Back([View EXCEPT !.category = c])))
                      /\ IsPrefix(Shown(changes, View), Rows(changes, View))
    BY DEF CountsKeepTheirWord
  <2>1. address \in Addresses /\ View \in Views
    BY ParseType DEF ArticleInv, View
  <2>2. changes \in Seq(Change)
    BY ArticleAssumption DEF ArticleInv, Ready
  <2>3. CategoryNames(changes, View) \subseteq (Categories \cup {Unknown}) \ {None}
    BY <2>1, <2>2, OptionsType
  <2>4. Asked \subseteq Views
    <3>1. /\ \A k \in FeedKinds : [View EXCEPT !.kind = k] \in Views
          /\ \A c \in CategoryNames(changes, View) \cup {None} : [View EXCEPT !.category = c] \in Views
          /\ \A k \in SortKeys, down \in BOOLEAN :
               SortedBy(View, k, down) \in Views
      BY <2>1, <2>3, AskedType
    <3>2. {[View EXCEPT !.kind = k] : k \in FeedKinds} \subseteq Views
      BY <3>1
    <3>3. {[View EXCEPT !.category = c] : c \in CategoryNames(changes, View) \cup {None}} \subseteq Views
      BY <3>1
    <3>4. {SortedBy(View, k, down) : k \in SortKeys, down \in BOOLEAN} \subseteq Views
      BY <3>1
    <3>5. QED BY <3>2, <3>3, <3>4 DEF Asked
  <2>5. \A v \in Views : Back(v) = v /\ Serialize(v, address).other = address.other
    BY <2>1, AddressKeepsTheView, SerializeType
  <2> HIDE DEF Back
  <2>6. ASSUME NEW k \in FeedKinds
        PROVE  ByKind(changes, View)[k] = Len(Rows(changes, Back([View EXCEPT !.kind = k])))
    <3>1. Back([View EXCEPT !.kind = k]) = [View EXCEPT !.kind = k]
      BY <2>1, <2>5, AskedType
    <3>2. QED BY <2>1, <2>2, <3>1, ChipCounts
  <2>7. ASSUME NEW c \in CategoryNames(changes, View)
        PROVE  CategoryCount(changes, View, c)
                 = Len(Rows(changes, Back([View EXCEPT !.category = c])))
    <3>1. Back([View EXCEPT !.category = c]) = [View EXCEPT !.category = c]
      BY <2>1, <2>3, <2>5, AskedType
    <3>2. c # None
      BY <2>3
    <3>3. QED BY <2>1, <2>2, <3>1, <3>2, OptionCounts
  <2>8. QED BY <2>2, <2>4, <2>5, <2>6, <2>7, ShownIsPrefix
<1>2. QED BY ArticleInitInv, ArticleNextInv, <1>1, PTL DEF Spec

---------------------------------------------------------------------------
(* The feed's changes                                                      *)

\* Finitely many changes, each with its id.
IsFeed(S) == IsFiniteSet(S) /\ S \subseteq Change /\ \A c, d \in S : c.id = d.id => c = d

\* Some changes of a feed are a feed.
LEMMA PartOfFeed ==
  ASSUME NEW S, IsFeed(S), NEW T \in SUBSET S
  PROVE  IsFeed(T)
  BY FS_Subset DEF IsFeed

\* The loaded changes are a feed.
LEMMA FeedIsFeed ==
  ASSUME NEW f \in Feeds
  PROVE  IsFeed(Range(f.changes))
<1> DEFINE s == f.changes
<1>1. s \in Seq(Change) /\ \A i, j \in DOMAIN s : s[i].id = s[j].id => i = j
  BY ArticleAssumption
<1> HIDE DEF s
<1>2. Len(s) \in Nat /\ DOMAIN s = 1..Len(s) /\ s \in [1..Len(s) -> Change]
  BY <1>1
<1>3. IsFiniteSet(1..Len(s))
  BY <1>2, FS_Interval
<1>4. s \in Surjection(1..Len(s), Range(s))
  BY <1>2 DEF Surjection, Range
<1>5. IsFiniteSet(Range(s))
  BY <1>3, <1>4, FS_Surjection
<1>6. Range(s) \subseteq Change
  BY <1>2 DEF Range
<1>7. \A c, d \in Range(s) : c.id = d.id => c = d
  BY <1>1 DEF Range
<1>8. QED BY <1>5, <1>6, <1>7 DEF IsFeed, s

NewerIn(S) == {p \in S \X S : Newer(p[1], p[2])}

\* The keys of the order are numbers.
LEMMA NewerType ==
  ASSUME NEW S, IsFeed(S)
  PROVE  \A c \in S : c.id \in Nat /\ c.detected \in Nat
  BY DEF IsFeed, Change

\* Newer orders the changes of a feed.
LEMMA NewerOrders ==
  ASSUME NEW S, IsFeed(S)
  PROVE  IsOrder(NewerIn(S), S)
<1>1. \A c \in S : c.id \in Nat /\ c.detected \in Nat
  BY NewerType
<1>2. \A c, d \in S : c.id = d.id => c = d
  BY DEF IsFeed
<1>3. \A c, d \in S : <<c, d>> \in NewerIn(S) <=> Newer(c, d)
  BY DEF NewerIn
<1>4. \A x \in S : ~Newer(x, x)
  BY <1>1 DEF Newer
<1>5. \A x, y \in S : x # y => Newer(x, y) \/ Newer(y, x)
  BY <1>1, <1>2 DEF Newer
<1>6. \A x, y, z \in S : Newer(x, y) /\ Newer(y, z) => Newer(x, z)
  BY <1>1 DEF Newer
<1>7. QED BY <1>3, <1>4, <1>5, <1>6 DEF IsOrder

\* A feed with a change has a newest one.
LEMMA NewestExists ==
  ASSUME NEW S, IsFeed(S), S # {}
  PROVE  \E c \in S : \A d \in S : ~Newer(d, c)
<1>1. PICK c \in S : \A d \in S \ {c} : <<c, d>> \in NewerIn(S)
  BY NewerOrders, FirstExists DEF IsFeed
<1>2. ASSUME NEW d \in S
      PROVE  ~Newer(d, c)
  <2>1. c.id \in Nat /\ c.detected \in Nat /\ d.id \in Nat /\ d.detected \in Nat
    BY NewerType
  <2>2. d # c => Newer(c, d)
    BY <1>1 DEF NewerIn
  <2>3. QED BY <2>1, <2>2 DEF Newer
<1>3. QED BY <1>2

(***************************************************************************)
(* changes.ts, latestByProduct: every product of the feed has exactly one  *)
(* newest change.                                                          *)
(***************************************************************************)
LEMMA OneNewestChange ==
  ASSUME NEW S, IsFeed(S)
  PROVE  /\ LatestByProduct(S) \subseteq S /\ IsFeed(LatestByProduct(S))
         /\ \A c, d \in LatestByProduct(S) : c.product = d.product => c = d
         /\ \A c \in S : \E d \in LatestByProduct(S) : d.product = c.product
         /\ Ids(LatestByProduct(S)) = Ids(S)
<1>1. LatestByProduct(S) \subseteq S
  BY DEF LatestByProduct
<1>2. ASSUME NEW c \in LatestByProduct(S), NEW d \in LatestByProduct(S), c.product = d.product
      PROVE  c = d
  <2>1. ~Newer(c, d) /\ ~Newer(d, c) /\ c \in S /\ d \in S
    BY <1>2 DEF LatestByProduct
  <2>2. QED BY <2>1, NewerOrders DEF IsOrder, NewerIn
<1>3. ASSUME NEW c \in S
      PROVE  \E d \in LatestByProduct(S) : d.product = c.product
  <2> DEFINE T == {e \in S : e.product = c.product}
  <2>1. IsFeed(T) /\ T # {}
    BY PartOfFeed
  <2>2. PICK d \in T : \A e \in T : ~Newer(e, d)
    BY <2>1, NewestExists
  <2>3. d \in LatestByProduct(S)
    BY <2>2 DEF LatestByProduct
  <2>4. QED BY <2>3
<1>4. Ids(LatestByProduct(S)) = Ids(S)
  BY <1>1, <1>3 DEF Ids
<1>5. QED BY <1>1, <1>2, <1>3, <1>4, PartOfFeed

\* One change per product: as many products as changes.
LEMMA AsManyProducts ==
  ASSUME NEW T, IsFiniteSet(T), \A c, d \in T : c.product = d.product => c = d
  PROVE  IsFiniteSet(Ids(T)) /\ Cardinality(Ids(T)) = Cardinality(T)
<1> DEFINE f == [c \in T |-> c.product]
<1>1. f \in Bijection(T, Ids(T))
  <2>1. f \in [T -> Ids(T)] /\ DOMAIN f = T
    BY DEF Ids
  <2>2. \A c, d \in T : f[c] = f[d] => c = d
    OBVIOUS
  <2>3. \A p \in Ids(T) : \E c \in T : f[c] = p
    BY DEF Ids
  <2> HIDE DEF f
  <2>4. QED BY <2>1, <2>2, <2>3 DEF Bijection, Injection, Surjection, IsInjective
<1> HIDE DEF f
<1>2. ExistsBijection(T, Ids(T))
  BY <1>1 DEF ExistsBijection
<1>3. QED BY <1>2, FS_Bijection

---------------------------------------------------------------------------
(* The cards                                                               *)

ShrinkOrder(G) ==
  {p \in G \X G : UnitPct(p[1]) > UnitPct(p[2])
                    \/ (UnitPct(p[1]) = UnitPct(p[2]) /\ Newer(p[1], p[2]))}
GrowOrder(G) ==
  {p \in G \X G : UnitPct(p[1]) < UnitPct(p[2])
                    \/ (UnitPct(p[1]) = UnitPct(p[2]) /\ Newer(p[1], p[2]))}

\* The cards' sort orders the changes.
LEMMA CardOrders ==
  ASSUME NEW G, IsFeed(G)
  PROVE  IsOrder(ShrinkOrder(G), G) /\ IsOrder(GrowOrder(G), G)
<1>1. \A c \in G : UnitPct(c) \in Int
  BY DEF IsFeed, Change, UnitPct
<1>2. /\ \A x \in G : ~Newer(x, x)
      /\ \A x, y \in G : x # y => Newer(x, y) \/ Newer(y, x)
      /\ \A x, y, z \in G : Newer(x, y) /\ Newer(y, z) => Newer(x, z)
  <2>1. \A x, y \in G : <<x, y>> \in NewerIn(G) <=> Newer(x, y)
    BY DEF NewerIn
  <2>2. QED BY <2>1, NewerOrders DEF IsOrder
<1> DEFINE Worse(x, y) == UnitPct(x) > UnitPct(y) \/ (UnitPct(x) = UnitPct(y) /\ Newer(x, y))
           Better(x, y) == UnitPct(x) < UnitPct(y) \/ (UnitPct(x) = UnitPct(y) /\ Newer(x, y))
<1>3. IsOrder(ShrinkOrder(G), G)
  <2>1. \A x, y \in G : <<x, y>> \in ShrinkOrder(G) <=> Worse(x, y)
    BY DEF ShrinkOrder
  <2>2. /\ \A x \in G : ~Worse(x, x)
        /\ \A x, y \in G : x # y => Worse(x, y) \/ Worse(y, x)
        /\ \A x, y, z \in G : Worse(x, y) /\ Worse(y, z) => Worse(x, z)
    BY <1>1, <1>2
  <2> HIDE DEF Worse
  <2>3. QED BY <2>1, <2>2 DEF IsOrder
<1>4. IsOrder(GrowOrder(G), G)
  <2>1. \A x, y \in G : <<x, y>> \in GrowOrder(G) <=> Better(x, y)
    BY DEF GrowOrder
  <2>2. /\ \A x \in G : ~Better(x, x)
        /\ \A x, y \in G : x # y => Better(x, y) \/ Better(y, x)
        /\ \A x, y, z \in G : Better(x, y) /\ Better(y, z) => Better(x, z)
    BY <1>1, <1>2
  <2> HIDE DEF Better
  <2>3. QED BY <2>1, <2>2 DEF IsOrder
<1>5. QED BY <1>3, <1>4

ShrinkCards(S) == Of(SizeChanges(S), SizeDown)
GrowCards(S) == Of(SizeChanges(S), {"grow"})

\* The changes with a card, one to a product.
LEMMA CardedChanges ==
  ASSUME NEW S, IsFeed(S)
  PROVE  /\ IsFeed(SizeChanges(S)) /\ IsFeed(ShrinkCards(S)) /\ IsFeed(GrowCards(S))
         /\ SizeChanges(S) \subseteq S
         /\ ShrinkCards(S) \cup GrowCards(S) = SizeChanges(S)
         /\ ShrinkCards(S) \cap GrowCards(S) = {}
         /\ \A c, d \in SizeChanges(S) : c.product = d.product => c = d
<1>1. IsFeed(Of(S, SizeKinds))
  BY PartOfFeed DEF Of
<1>2. /\ SizeChanges(S) \subseteq Of(S, SizeKinds) /\ IsFeed(SizeChanges(S))
      /\ \A c, d \in SizeChanges(S) : c.product = d.product => c = d
  BY <1>1, OneNewestChange DEF SizeChanges
<1>3. IsFeed(ShrinkCards(S)) /\ IsFeed(GrowCards(S))
  BY <1>2, PartOfFeed DEF ShrinkCards, GrowCards, Of
<1>4. SizeChanges(S) \subseteq S /\ \A c \in SizeChanges(S) : c.kind \in SizeKinds
  BY <1>2 DEF Of
<1>5. /\ ShrinkCards(S) \cup GrowCards(S) = SizeChanges(S)
      /\ ShrinkCards(S) \cap GrowCards(S) = {}
  BY <1>4 DEF ShrinkCards, GrowCards, Of, SizeKinds, SizeDown
<1>6. QED BY <1>2, <1>3, <1>4, <1>5

\* The cards of the two groups: each change of a group is on one of them.
LEMMA ShrinksListed ==
  ASSUME NEW S, IsFeed(S)
  PROVE  /\ Shrinks(S) \in Seq(ShrinkCards(S)) /\ Len(Shrinks(S)) = Cardinality(ShrinkCards(S))
         /\ Range(Shrinks(S)) = ShrinkCards(S)
<1> DEFINE G == ShrinkCards(S)
           R == ShrinkOrder(G)
           f == Shrinks(S)
           Before(x) == {y \in G : UnitPct(y) > UnitPct(x) \/ (UnitPct(y) = UnitPct(x) /\ Newer(y, x))}
<1>1. IsFeed(G) /\ IsFiniteSet(G) /\ IsOrder(R, G)
  BY CardedChanges, CardOrders DEF IsFeed
<1>2. \A x \in G : Before(x) = Below(R, G, x)
  BY DEF Below, ShrinkOrder
<1>3. f = [i \in 1..Cardinality(G) |-> CHOOSE x \in G : Cardinality(Before(x)) = i - 1]
  BY DEF Shrinks, InOrder, ShrinkCards
<1> HIDE DEF G, R, Before
<1>4. \A i \in 1..Cardinality(G) : \E x \in G : Cardinality(Before(x)) = i - 1
  BY <1>1, <1>2, PlacesAreTaken DEF Place
<1> HIDE DEF f
<1>5. \A i \in 1..Cardinality(G) : f[i] \in G /\ Cardinality(Before(f[i])) = i - 1
  BY <1>3, <1>4
<1>6. \A i \in 1..Cardinality(G) : f[i] \in G /\ Place(R, G, f[i]) = i - 1
  BY <1>2, <1>5 DEF Place
<1>7. f \in [1..Cardinality(G) -> G]
  BY <1>3, <1>5
<1>8. f \in Seq(G) /\ Len(f) = Cardinality(G) /\ Range(f) = G
  BY <1>1, <1>6, <1>7, AllListed
<1>9. QED BY <1>8 DEF f, G

\* The growing cards likewise.
LEMMA GrowsListed ==
  ASSUME NEW S, IsFeed(S)
  PROVE  /\ Grows(S) \in Seq(GrowCards(S)) /\ Len(Grows(S)) = Cardinality(GrowCards(S))
         /\ Range(Grows(S)) = GrowCards(S)
<1> DEFINE G == GrowCards(S)
           R == GrowOrder(G)
           f == Grows(S)
           Before(x) == {y \in G : UnitPct(y) < UnitPct(x) \/ (UnitPct(y) = UnitPct(x) /\ Newer(y, x))}
<1>1. IsFeed(G) /\ IsFiniteSet(G) /\ IsOrder(R, G)
  BY CardedChanges, CardOrders DEF IsFeed
<1>2. \A x \in G : Before(x) = Below(R, G, x)
  BY DEF Below, GrowOrder
<1>3. f = [i \in 1..Cardinality(G) |-> CHOOSE x \in G : Cardinality(Before(x)) = i - 1]
  BY DEF Grows, InOrder, GrowCards
<1> HIDE DEF G, R, Before
<1>4. \A i \in 1..Cardinality(G) : \E x \in G : Cardinality(Before(x)) = i - 1
  BY <1>1, <1>2, PlacesAreTaken DEF Place
<1> HIDE DEF f
<1>5. \A i \in 1..Cardinality(G) : f[i] \in G /\ Cardinality(Before(f[i])) = i - 1
  BY <1>3, <1>4
<1>6. \A i \in 1..Cardinality(G) : f[i] \in G /\ Place(R, G, f[i]) = i - 1
  BY <1>2, <1>5 DEF Place
<1>7. f \in [1..Cardinality(G) -> G]
  BY <1>3, <1>5
<1>8. f \in Seq(G) /\ Len(f) = Cardinality(G) /\ Range(f) = G
  BY <1>1, <1>6, <1>7, AllListed
<1>9. QED BY <1>8 DEF f, G

\* The products of a list of changes.
LEMMA ProductsOf ==
  ASSUME NEW G, NEW s \in Seq(G), Range(s) = G,
         NEW t, t = [i \in DOMAIN s |-> s[i].product]
  PROVE  Len(t) = Len(s) /\ Range(t) = Ids(G)
<1>1. Len(s) \in Nat /\ DOMAIN s = 1..Len(s)
  OBVIOUS
<1>2. DOMAIN t = 1..Len(s) /\ t = [i \in 1..Len(s) |-> t[i]] /\ \A i \in 1..Len(s) : t[i] = s[i].product
  BY <1>1
<1>3. Len(t) = Len(s)
  BY <1>1, <1>2, ListOf
<1>4. Range(t) = Ids(G)
  BY <1>1, <1>2 DEF Range, Ids
<1>5. QED BY <1>3, <1>4

\* Cards and carded products of a story.
LEMMA CardsOfStory ==
  ASSUME NEW S, IsFeed(S)
  PROVE  /\ Len(Story(S).shrinks) = Cardinality(ShrinkCards(S))
         /\ Len(Story(S).grows) = Cardinality(GrowCards(S))
         /\ Range(Story(S).shrinks) = Ids(ShrinkCards(S))
         /\ Range(Story(S).grows) = Ids(GrowCards(S))
         /\ Counts(S).shrinks = Cardinality(ShrinkCards(S))
         /\ Counts(S).grows = Cardinality(GrowCards(S))
         /\ Cardinality(ShrinkCards(S)) \in Nat /\ Cardinality(GrowCards(S)) \in Nat
         /\ Cardinality(ShrinkCards(S)) + Cardinality(GrowCards(S))
              = Cardinality(Ids(ShrinkCards(S)) \cup Ids(GrowCards(S)))
<1>1. /\ Story(S).shrinks = [i \in DOMAIN Shrinks(S) |-> Shrinks(S)[i].product]
      /\ Story(S).grows = [i \in DOMAIN Grows(S) |-> Grows(S)[i].product]
  BY DEF Story
<1>2. /\ Len(Story(S).shrinks) = Cardinality(ShrinkCards(S))
      /\ Range(Story(S).shrinks) = Ids(ShrinkCards(S))
  BY <1>1, ShrinksListed, ProductsOf
<1>3. /\ Len(Story(S).grows) = Cardinality(GrowCards(S))
      /\ Range(Story(S).grows) = Ids(GrowCards(S))
  BY <1>1, GrowsListed, ProductsOf
<1>4. Counts(S).shrinks = Len(Shrinks(S)) /\ Counts(S).grows = Len(Grows(S))
  BY DEF Counts
<1>5. IsFiniteSet(ShrinkCards(S)) /\ IsFiniteSet(GrowCards(S)) /\ IsFiniteSet(SizeChanges(S))
  BY CardedChanges DEF IsFeed
<1>6. Cardinality(ShrinkCards(S)) \in Nat /\ Cardinality(GrowCards(S)) \in Nat
  BY <1>5, FS_CardinalityType
<1>7. Cardinality(SizeChanges(S)) = Cardinality(ShrinkCards(S)) + Cardinality(GrowCards(S))
  <2>1. Cardinality({}) = 0
    BY FS_EmptySet
  <2>2. Cardinality(ShrinkCards(S) \cup GrowCards(S))
          = Cardinality(ShrinkCards(S)) + Cardinality(GrowCards(S)) - Cardinality({})
    BY <1>5, FS_Union, CardedChanges
  <2>3. ShrinkCards(S) \cup GrowCards(S) = SizeChanges(S)
    BY CardedChanges
  <2>4. QED BY <1>6, <2>1, <2>2, <2>3
<1>8. Ids(ShrinkCards(S)) \cup Ids(GrowCards(S)) = Ids(SizeChanges(S))
  <2>1. ShrinkCards(S) \cup GrowCards(S) = SizeChanges(S)
    BY CardedChanges
  <2>2. QED BY <2>1 DEF Ids
<1>9. Cardinality(Ids(SizeChanges(S))) = Cardinality(SizeChanges(S))
  BY <1>5, AsManyProducts, CardedChanges
<1>10. QED BY <1>2, <1>3, <1>4, <1>6, <1>7, <1>8, <1>9, ShrinksListed, GrowsListed

---------------------------------------------------------------------------
(* The numbers of a sentence                                               *)

IsClauses(cs) ==
  /\ Len(cs) \in 0..4 /\ DOMAIN cs = 1..Len(cs)
  /\ \A i \in 1..Len(cs) : cs[i].n \in Nat

\* The number of the i-th clause, if it is among s.
Number(cs, s, i) == IF i \in s THEN cs[i].n ELSE 0
Sum4(cs, s) == Number(cs, s, 1) + Number(cs, s, 2) + Number(cs, s, 3) + Number(cs, s, 4)

\* Max of at most four places.
LEMMA MaxOfFour ==
  ASSUME NEW s, s \subseteq 1..4, s # {}
  PROVE  Max(s) \in s /\ \A y \in s : Max(s) >= y
<1>1. \E x \in s : \A y \in s : x >= y
  <2>1. CASE 4 \in s
    BY <2>1
  <2>2. CASE 4 \notin s /\ 3 \in s
    BY <2>2
  <2>3. CASE 4 \notin s /\ 3 \notin s /\ 2 \in s
    BY <2>3
  <2>4. CASE 4 \notin s /\ 3 \notin s /\ 2 \notin s
    <3>1. \A x \in s : x = 1
      BY <2>4
    <3>2. \A x, y \in s : x >= y
      BY <3>1
    <3>3. QED BY <3>2
  <2>5. QED BY <2>1, <2>2, <2>3, <2>4
<1>2. QED BY <1>1 DEF Max

\* Total adds up the numbers.
LEMMA TotalAddsUp ==
  ASSUME NEW cs, IsClauses(cs)
  PROVE  Total(cs) = Sum4(cs, DOMAIN cs) /\ Total(cs) \in Nat
<1> DEFINE D == DOMAIN cs
           Step(t) == t = [s \in SUBSET D |->
                             IF s = {} THEN 0 ELSE t[s \ {Max(s)}] + cs[Max(s)].n]
           iter == CHOOSE t : Step(t)
           sum == [s \in SUBSET D |-> Sum4(cs, s)]
<1>1. Total(cs) = iter[D]
  BY DEF Total, FoldLeft, MapThenFoldSet
<1>2. D \subseteq 1..4 /\ \A i \in D : cs[i].n \in Nat
  BY DEF IsClauses
<1>3. \A s \in SUBSET D : s # {} => Max(s) \in s /\ s \ {Max(s)} \in SUBSET D
  BY <1>2, MaxOfFour
<1> HIDE DEF D
<1>4. \A s \in SUBSET D : \A x \in s : Sum4(cs, s) = Sum4(cs, s \ {x}) + cs[x].n
  <2>1. SUFFICES ASSUME NEW s \in SUBSET D, NEW x \in s
                 PROVE  Sum4(cs, s) = Sum4(cs, s \ {x}) + cs[x].n
    OBVIOUS
  <2>2. x \in 1..4 /\ cs[x].n \in Nat
    BY <1>2
  <2>3. \A i \in {1, 2, 3, 4} : Number(cs, s, i) \in Nat /\ Number(cs, s \ {x}, i) \in Nat
    BY <1>2 DEF Number
  <2>4. \A i \in {1, 2, 3, 4} :
          Number(cs, s, i) = Number(cs, s \ {x}, i) + (IF i = x THEN cs[x].n ELSE 0)
    <3>1. SUFFICES ASSUME NEW i \in {1, 2, 3, 4}
                   PROVE  Number(cs, s, i) = Number(cs, s \ {x}, i) + (IF i = x THEN cs[x].n ELSE 0)
      OBVIOUS
    <3>2. CASE i = x
      <4>1. Number(cs, s, i) = cs[x].n /\ Number(cs, s \ {x}, i) = 0
        BY <3>2 DEF Number
      <4>2. QED BY <2>2, <3>2, <4>1
    <3>3. CASE i # x
      <4>1. Number(cs, s, i) = Number(cs, s \ {x}, i)
        BY <3>3 DEF Number
      <4>2. QED BY <2>3, <3>3, <4>1
    <3>4. QED BY <3>2, <3>3
  <2>5. (x = 1 \/ x = 2 \/ x = 3 \/ x = 4) /\ x \in Nat
    BY <2>2
  <2>6. /\ Number(cs, s, 1) = Number(cs, s \ {x}, 1) + (IF 1 = x THEN cs[x].n ELSE 0)
        /\ Number(cs, s, 2) = Number(cs, s \ {x}, 2) + (IF 2 = x THEN cs[x].n ELSE 0)
        /\ Number(cs, s, 3) = Number(cs, s \ {x}, 3) + (IF 3 = x THEN cs[x].n ELSE 0)
        /\ Number(cs, s, 4) = Number(cs, s \ {x}, 4) + (IF 4 = x THEN cs[x].n ELSE 0)
    BY <2>4
  <2>7. /\ Number(cs, s \ {x}, 1) \in Nat /\ Number(cs, s \ {x}, 2) \in Nat
        /\ Number(cs, s \ {x}, 3) \in Nat /\ Number(cs, s \ {x}, 4) \in Nat
    BY <2>3
  <2>8. QED BY <2>2, <2>5, <2>6, <2>7 DEF Sum4
<1>5. Sum4(cs, {}) = 0
  BY DEF Sum4, Number
<1>6. Step(sum)
  <2>1. ASSUME NEW s \in SUBSET D
        PROVE  sum[s] = IF s = {} THEN 0 ELSE sum[s \ {Max(s)}] + cs[Max(s)].n
    BY <1>3, <1>4, <1>5
  <2>2. sum = [s \in SUBSET D |-> sum[s]]
    OBVIOUS
  <2> HIDE DEF sum
  <2>3. QED BY <2>1, <2>2
<1>7. Step(iter)
  <2> HIDE DEF sum
  <2>1. QED BY <1>6
<1> HIDE DEF iter, sum
<1>8. \A s \in SUBSET D : iter[s] = IF s = {} THEN 0 ELSE iter[s \ {Max(s)}] + cs[Max(s)].n
  BY <1>7
<1>9. \A k \in 0..4 : k <= Len(cs) => iter[1..k] = Sum4(cs, 1..k)
  <2>1. D = 1..Len(cs) /\ Len(cs) \in 0..4
    BY DEF IsClauses, D
  <2>2. iter[1..0] = Sum4(cs, 1..0)
    <3>1. 1..0 = {}
      OBVIOUS
    <3>2. QED BY <1>5, <1>8, <3>1
  <2>3. ASSUME NEW k \in 1..4, k <= Len(cs), iter[1..(k - 1)] = Sum4(cs, 1..(k - 1))
        PROVE  iter[1..k] = Sum4(cs, 1..k)
    <3>1. 1..k \in SUBSET D /\ 1..k # {} /\ k \in 1..k
      BY <2>1, <2>3
    <3>2. Max(1..k) = k
      <4>1. Max(1..k) \in 1..k /\ Max(1..k) >= k
        BY <1>2, <3>1, MaxOfFour
      <4>2. QED BY <4>1
    <3>3. (1..k) \ {k} = 1..(k - 1)
      OBVIOUS
    <3>4. iter[1..k] = iter[1..(k - 1)] + cs[k].n
      BY <1>8, <3>1, <3>2, <3>3
    <3>5. Sum4(cs, 1..k) = Sum4(cs, 1..(k - 1)) + cs[k].n
      BY <1>4, <3>1, <3>3
    <3>6. QED BY <2>3, <3>4, <3>5
  <2>4. 1 <= Len(cs) => iter[1..1] = Sum4(cs, 1..1)
    BY <2>2, <2>3, 1 - 1 = 0
  <2>5. 2 <= Len(cs) => iter[1..2] = Sum4(cs, 1..2)
    <3>1. 2 - 1 = 1 /\ (2 <= Len(cs) => 1 <= Len(cs))
      BY <2>1
    <3>2. QED BY <2>3, <2>4, <3>1
  <2>6. 3 <= Len(cs) => iter[1..3] = Sum4(cs, 1..3)
    <3>1. 3 - 1 = 2 /\ (3 <= Len(cs) => 2 <= Len(cs))
      BY <2>1
    <3>2. QED BY <2>3, <2>5, <3>1
  <2>7. 4 <= Len(cs) => iter[1..4] = Sum4(cs, 1..4)
    <3>1. 4 - 1 = 3 /\ (4 <= Len(cs) => 3 <= Len(cs))
      BY <2>1
    <3>2. QED BY <2>3, <2>6, <3>1
  <2>8. \A k \in 0..4 : k = 0 \/ k = 1 \/ k = 2 \/ k = 3 \/ k = 4
    OBVIOUS
  <2>9. QED BY <2>2, <2>4, <2>5, <2>6, <2>7, <2>8
<1>10. D = 1..Len(cs) /\ Len(cs) \in 0..4 /\ Len(cs) <= Len(cs)
  BY DEF IsClauses, D
<1>11. iter[D] = Sum4(cs, D)
  BY <1>9, <1>10
<1>12. Sum4(cs, D) \in Nat
  <2>1. \A i \in {1, 2, 3, 4} : Number(cs, D, i) \in Nat
    BY <1>2 DEF Number
  <2>2. QED BY <2>1 DEF Sum4
<1>13. QED BY <1>1, <1>11, <1>12 DEF D

\* The numbers of two lists of clauses are those of the one after the other.
LEMMA JoinTotals ==
  ASSUME NEW V, \A c \in V : c.n \in Nat, NEW a \in Seq(V), NEW b \in Seq(V), Len(a) + Len(b) <= 4
  PROVE  Total(a \o b) = Total(a) + Total(b)
<1> DEFINE c == a \o b
<1>1. /\ Len(a) \in Nat /\ Len(b) \in Nat /\ DOMAIN a = 1..Len(a) /\ DOMAIN b = 1..Len(b)
      /\ c \in Seq(V) /\ Len(c) = Len(a) + Len(b) /\ DOMAIN c = 1..Len(c)
      /\ \A i \in 1..Len(a) : a[i] \in V /\ c[i] = a[i]
      /\ \A i \in 1..Len(b) : b[i] \in V /\ c[Len(a) + i] = b[i]
      /\ \A i \in 1..Len(c) : c[i] \in V
  OBVIOUS
<1> HIDE DEF c
<1>2. Len(a) \in 0..4 /\ Len(b) \in 0..4 /\ Len(c) \in 0..4
  <2>1. \A m, n \in Nat : m + n <= 4 => m \in 0..4 /\ n \in 0..4 /\ m + n \in 0..4
    OBVIOUS
  <2>2. QED BY <1>1, <2>1
<1>3. IsClauses(a) /\ IsClauses(b) /\ IsClauses(c)
  BY <1>1, <1>2 DEF IsClauses
<1>4. Sum4(c, DOMAIN c) = Sum4(a, DOMAIN a) + Sum4(b, DOMAIN b)
  <2> DEFINE N(d, i) == IF i <= Len(d) THEN d[i].n ELSE 0
  <2>1. ASSUME NEW d, IsClauses(d)
        PROVE  /\ Sum4(d, DOMAIN d) = N(d, 1) + N(d, 2) + N(d, 3) + N(d, 4)
               /\ \A i \in {1, 2, 3, 4} : N(d, i) \in Nat
    <3>1. DOMAIN d = 1..Len(d) /\ Len(d) \in Nat /\ \A i \in 1..Len(d) : d[i].n \in Nat
      BY <2>1 DEF IsClauses
    <3>2. \A i \in {1, 2, 3, 4} : Number(d, DOMAIN d, i) = N(d, i)
      BY <3>1 DEF Number
    <3>3. \A i \in {1, 2, 3, 4} : N(d, i) \in Nat
      BY <3>1
    <3> HIDE DEF N
    <3>4. QED BY <3>2, <3>3 DEF Sum4
  <2>2. /\ Sum4(a, DOMAIN a) = N(a, 1) + N(a, 2) + N(a, 3) + N(a, 4)
        /\ Sum4(b, DOMAIN b) = N(b, 1) + N(b, 2) + N(b, 3) + N(b, 4)
        /\ Sum4(c, DOMAIN c) = N(c, 1) + N(c, 2) + N(c, 3) + N(c, 4)
    BY <1>3, <2>1
  <2>3. \A i \in 1..Len(a) : N(c, i) = N(a, i)
    BY <1>1, <1>2
  <2>4. \A i \in 1..Len(b) : N(c, Len(a) + i) = N(b, i)
    BY <1>1, <1>2
  <2>5. \A i \in 1..4 : /\ i > Len(a) => N(a, i) = 0
                        /\ i > Len(b) => N(b, i) = 0
                        /\ i > Len(c) => N(c, i) = 0
    BY <1>2
  <2>6. \A i \in 1..4 : N(a, i) \in Nat /\ N(b, i) \in Nat /\ N(c, i) \in Nat
    BY <1>3, <2>1
  <2> HIDE DEF N
  <2>8. CASE Len(a) = 0
    <3>1. \A i \in 1..4 : N(a, i) = 0 /\ N(c, i) = N(b, i)
      <4>1. SUFFICES ASSUME NEW i \in 1..4 PROVE N(a, i) = 0 /\ N(c, i) = N(b, i)
        OBVIOUS
      <4>2. N(a, i) = 0 /\ (i > Len(b) => N(b, i) = 0 /\ N(c, i) = 0)
        BY <1>1, <2>5, <2>8
      <4>3. i <= Len(b) => N(c, i) = N(b, i)
        <5>1. i <= Len(b) => i \in 1..Len(b) /\ 0 + i = i
          BY <1>1
        <5>2. QED BY <2>4, <2>8, <5>1
      <4>4. QED BY <1>2, <4>2, <4>3
    <3>2. QED BY <2>2, <2>6, <3>1
  <2>9. CASE Len(b) = 0
    <3>1. \A i \in 1..4 : N(b, i) = 0 /\ N(c, i) = N(a, i)
      <4>1. SUFFICES ASSUME NEW i \in 1..4 PROVE N(b, i) = 0 /\ N(c, i) = N(a, i)
        OBVIOUS
      <4>2. N(b, i) = 0 /\ (i > Len(a) => N(a, i) = 0 /\ N(c, i) = 0)
        BY <1>1, <2>5, <2>9
      <4>3. i <= Len(a) => N(c, i) = N(a, i)
        BY <1>1, <2>3
      <4>4. QED BY <1>2, <4>2, <4>3
    <3>2. QED BY <2>2, <2>6, <3>1
  <2>10. CASE Len(a) = 1 /\ Len(b) \in 1..3
    <3>1. /\ N(c, 1) = N(a, 1) /\ N(a, 2) = 0 /\ N(a, 3) = 0 /\ N(a, 4) = 0
          /\ N(c, 2) = N(b, 1) /\ N(c, 3) = N(b, 2) /\ N(c, 4) = N(b, 3) /\ N(b, 4) = 0
      BY <1>1, <2>3, <2>4, <2>5, <2>10
    <3>2. QED BY <2>2, <2>6, <3>1
  <2>11. CASE Len(a) = 2 /\ Len(b) \in 1..2
    <3>1. /\ N(c, 1) = N(a, 1) /\ N(c, 2) = N(a, 2) /\ N(a, 3) = 0 /\ N(a, 4) = 0
          /\ N(c, 3) = N(b, 1) /\ N(c, 4) = N(b, 2) /\ N(b, 3) = 0 /\ N(b, 4) = 0
      BY <1>1, <2>3, <2>4, <2>5, <2>11
    <3>2. QED BY <2>2, <2>6, <3>1
  <2>12. CASE Len(a) = 3 /\ Len(b) = 1
    <3>1. /\ N(c, 1) = N(a, 1) /\ N(c, 2) = N(a, 2) /\ N(c, 3) = N(a, 3) /\ N(a, 4) = 0
          /\ N(c, 4) = N(b, 1) /\ N(b, 2) = 0 /\ N(b, 3) = 0 /\ N(b, 4) = 0
      BY <1>1, <2>3, <2>4, <2>5, <2>12
    <3>2. QED BY <2>2, <2>6, <3>1
  <2>13. \A m, n \in Nat : m + n <= 4 =>
           \/ m = 0 \/ n = 0 \/ (m = 1 /\ n \in 1..3) \/ (m = 2 /\ n \in 1..2) \/ (m = 3 /\ n = 1)
    OBVIOUS
  <2>14. \/ Len(a) = 0 \/ Len(b) = 0 \/ (Len(a) = 1 /\ Len(b) \in 1..3)
         \/ (Len(a) = 2 /\ Len(b) \in 1..2) \/ (Len(a) = 3 /\ Len(b) = 1)
    BY <1>1, <2>13
  <2>15. QED BY <2>8, <2>9, <2>10, <2>11, <2>12, <2>14
<1>5. Total(c) = Total(a) + Total(b)
  BY <1>3, <1>4, TotalAddsUp
<1>6. QED BY <1>5 DEF c

\* The numbers of no clause and of one.
LEMMA TotalOfOne ==
  /\ Total(<<>>) = 0
  /\ \A c : c.n \in Nat => Total(<<c>>) = c.n
<1>1. Total(<<>>) = 0
  <2>1. IsClauses(<<>>) /\ DOMAIN <<>> = {}
    BY DEF IsClauses
  <2>2. QED BY <2>1, TotalAddsUp DEF Sum4, Number
<1>2. ASSUME NEW c, c.n \in Nat
      PROVE  Total(<<c>>) = c.n
  <2>1. IsClauses(<<c>>) /\ DOMAIN <<c>> = {1} /\ <<c>>[1] = c
    BY <1>2 DEF IsClauses
  <2>2. Total(<<c>>) = Sum4(<<c>>, {1})
    BY <2>1, TotalAddsUp
  <2>3. QED BY <1>2, <2>1, <2>2 DEF Sum4, Number
<1>3. QED BY <1>1, <1>2

\* A count is said unless it is zero.
LEMMA SaidIfAny ==
  ASSUME NEW form, NEW n \in Nat
  PROVE  /\ SayIfAny(form, n) \in Seq({Say(form, n)})
         /\ Len(SayIfAny(form, n)) \in Nat /\ Len(SayIfAny(form, n)) <= 1
         /\ Total(SayIfAny(form, n)) = n /\ (SayIfAny(form, n) = <<>> <=> n = 0)
<1> DEFINE said == SayIfAny(form, n)
<1>1. Say(form, n).n = n
  BY DEF Say
<1>2. CASE n > 0
  <2>1. said = <<Say(form, n)>> /\ Total(<<Say(form, n)>>) = n
    BY <1>1, <1>2, TotalOfOne DEF SayIfAny
  <2>2. <<Say(form, n)>> \in Seq({Say(form, n)}) /\ Len(<<Say(form, n)>>) = 1
        /\ <<Say(form, n)>> # <<>>
    OBVIOUS
  <2> HIDE DEF said
  <2>3. said \in Seq({Say(form, n)}) /\ Len(said) = 1 /\ said # <<>> /\ Total(said) = n
    BY <2>1, <2>2
  <2>4. QED BY <1>2, <2>3 DEF said
<1>3. CASE n = 0
  <2>1. said = <<>>
    BY <1>3 DEF SayIfAny
  <2>2. <<>> \in Seq({Say(form, n)}) /\ Len(<<>>) = 0
    OBVIOUS
  <2> HIDE DEF said
  <2>3. said \in Seq({Say(form, n)}) /\ Len(said) = 0 /\ said = <<>> /\ Total(said) = 0
    BY <2>1, <2>2, TotalOfOne
  <2>4. QED BY <1>3, <2>3 DEF said
<1>4. QED BY <1>2, <1>3

SayBoth(f, m, g, n) == SayIfAny(f, m) \o SayIfAny(g, n)

\* Two counts said together add up.
LEMMA SaidOfTwo ==
  ASSUME NEW m \in Nat, NEW n \in Nat, NEW f, NEW g
  PROVE  /\ SayBoth(f, m, g, n) \in Seq({Say(f, m), Say(g, n)})
         /\ Len(SayBoth(f, m, g, n)) \in Nat /\ Len(SayBoth(f, m, g, n)) <= 2
         /\ Total(SayBoth(f, m, g, n)) = m + n
         /\ (SayBoth(f, m, g, n) = <<>> <=> m = 0 /\ n = 0)
<1> DEFINE V == {Say(f, m), Say(g, n)}
           a == SayIfAny(f, m)
           b == SayIfAny(g, n)
<1>1. /\ a \in Seq({Say(f, m)}) /\ Len(a) \in Nat /\ Len(a) <= 1 /\ Total(a) = m /\ (a = <<>> <=> m = 0)
      /\ b \in Seq({Say(g, n)}) /\ Len(b) \in Nat /\ Len(b) <= 1 /\ Total(b) = n /\ (b = <<>> <=> n = 0)
  BY SaidIfAny
<1>2. {Say(f, m)} \subseteq V /\ {Say(g, n)} \subseteq V /\ \A c \in V : c.n \in Nat
  BY DEF Say
<1> HIDE DEF a, b, V
<1>3. a \in Seq(V) /\ b \in Seq(V)
  BY <1>1, <1>2
<1>4. Len(a) + Len(b) <= 4 /\ Len(a) + Len(b) <= 2 /\ Len(a) + Len(b) \in Nat
  <2>1. \A i, j \in Nat : i <= 1 /\ j <= 1 => i + j <= 4 /\ i + j <= 2 /\ i + j \in Nat
    OBVIOUS
  <2>2. QED BY <1>1, <2>1
<1>5. Total(a \o b) = m + n
  BY <1>1, <1>2, <1>3, <1>4, JoinTotals
<1>6. a \o b \in Seq(V) /\ Len(a \o b) = Len(a) + Len(b)
  BY <1>3
<1>7. a \o b = <<>> <=> a = <<>> /\ b = <<>>
  BY <1>3
<1>8. SayBoth(f, m, g, n) = a \o b
  BY DEF SayBoth, a, b
<1>9. QED BY <1>1, <1>4, <1>5, <1>6, <1>7, <1>8 DEF V

(***************************************************************************)
(* story.ts, headlineFor: the numbers in the headline, whichever of its    *)
(* forms it takes, are those of the price moves and of the size cards.     *)
(***************************************************************************)
LEMMA HeadlineAddsUp ==
  ASSUME NEW k, k.priceUp \in Nat, k.priceDown \in Nat, k.shrinks \in Nat, k.grows \in Nat
  PROVE  Total(Headline(k)) = k.priceUp + k.priceDown + (k.shrinks + k.grows)
<1> DEFINE prices == SayBoth("prices_rose", k.priceUp, "prices_fell", k.priceDown)
           pair   == SayBoth("sizes_down", k.shrinks, "sizes_up", k.grows)
           one    == Say("sizes_changed", k.shrinks + k.grows)
           sizes  == IF k.shrinks > 0 /\ k.grows > 0 THEN <<one>> ELSE pair
           none   == Say("no_price_moved", 0)
           nothing == Say("nothing_changed", 0)
           P == {Say("prices_rose", k.priceUp), Say("prices_fell", k.priceDown)}
           Q == {Say("sizes_down", k.shrinks), Say("sizes_up", k.grows)}
           V == P \cup Q \cup {one, none}
<1>1. Headline(k) = IF prices = <<>> /\ sizes = <<>> THEN <<nothing>>
                    ELSE IF prices = <<>> THEN <<none>> \o sizes ELSE prices \o sizes
  BY DEF Headline, SayBoth
<1>2. one.n = k.shrinks + k.grows /\ none.n = 0 /\ nothing.n = 0
  BY DEF Say
<1>3. \A c \in P \cup Q : c.n \in Nat
  <2>1. /\ Say("prices_rose", k.priceUp).n = k.priceUp /\ Say("prices_fell", k.priceDown).n = k.priceDown
        /\ Say("sizes_down", k.shrinks).n = k.shrinks /\ Say("sizes_up", k.grows).n = k.grows
    BY DEF Say
  <2>2. QED BY <2>1
<1>4. /\ prices \in Seq(P) /\ Len(prices) \in Nat /\ Len(prices) <= 2
      /\ Total(prices) = k.priceUp + k.priceDown
      /\ (prices = <<>> <=> k.priceUp = 0 /\ k.priceDown = 0)
  <2>1. /\ prices \in Seq({Say("prices_rose", k.priceUp), Say("prices_fell", k.priceDown)})
        /\ Len(prices) \in Nat /\ Len(prices) <= 2
    BY SaidOfTwo
  <2>2. Total(SayBoth("prices_rose", k.priceUp, "prices_fell", k.priceDown)) = k.priceUp + k.priceDown
    BY SaidOfTwo
  <2>3. SayBoth("prices_rose", k.priceUp, "prices_fell", k.priceDown) = <<>>
          <=> k.priceUp = 0 /\ k.priceDown = 0
    BY SaidOfTwo
  <2>4. QED BY <2>1, <2>2, <2>3
<1>5. /\ pair \in Seq(Q) /\ Len(pair) \in Nat /\ Len(pair) <= 2
      /\ Total(pair) = k.shrinks + k.grows
      /\ (pair = <<>> <=> k.shrinks = 0 /\ k.grows = 0)
  <2>1. /\ pair \in Seq({Say("sizes_down", k.shrinks), Say("sizes_up", k.grows)})
        /\ Len(pair) \in Nat /\ Len(pair) <= 2
    BY SaidOfTwo
  <2>2. Total(SayBoth("sizes_down", k.shrinks, "sizes_up", k.grows)) = k.shrinks + k.grows
    BY SaidOfTwo
  <2>3. SayBoth("sizes_down", k.shrinks, "sizes_up", k.grows) = <<>> <=> k.shrinks = 0 /\ k.grows = 0
    BY SaidOfTwo
  <2>4. QED BY <2>1, <2>2, <2>3
<1> HIDE DEF prices, pair, one, none, nothing, P, Q
<1>6. k.shrinks + k.grows \in Nat /\ k.priceUp + k.priceDown \in Nat
  OBVIOUS
<1>7. \A c \in V : c.n \in Nat
  BY <1>2, <1>3, <1>6
<1>8. /\ <<one>> \in Seq(V) /\ <<none>> \in Seq(V) /\ <<one>> # <<>>
      /\ Len(<<one>>) = 1 /\ Len(<<none>>) = 1
  OBVIOUS
<1>9. Total(<<one>>) = k.shrinks + k.grows /\ Total(<<none>>) = 0 /\ Total(<<nothing>>) = 0
  BY <1>2, <1>6, TotalOfOne
<1>10. prices \in Seq(V) /\ pair \in Seq(V)
  BY <1>4, <1>5
<1> HIDE DEF V
<1>11. /\ sizes \in Seq(V) /\ Len(sizes) \in Nat /\ Len(sizes) <= 2
       /\ Total(sizes) = k.shrinks + k.grows
       /\ (sizes = <<>> <=> k.shrinks = 0 /\ k.grows = 0)
  <2>1. CASE k.shrinks > 0 /\ k.grows > 0
    <3>1. sizes = <<one>>
      BY <2>1
    <3> HIDE DEF sizes
    <3>2. Len(sizes) = 1 /\ sizes \in Seq(V) /\ sizes # <<>> /\ Total(sizes) = k.shrinks + k.grows
      BY <1>8, <1>9, <3>1
    <3>3. QED BY <2>1, <3>2
  <2>2. CASE ~(k.shrinks > 0 /\ k.grows > 0)
    <3>1. sizes = pair
      BY <2>2
    <3>2. QED BY <1>5, <1>10, <3>1
  <2>3. QED BY <2>1, <2>2
<1> HIDE DEF sizes
<1>12. Total(<<none>> \o sizes) = Total(<<none>>) + Total(sizes)
  <2>1. Len(<<none>>) + Len(sizes) <= 4
    BY <1>8, <1>11
  <2>2. QED BY <1>7, <1>8, <1>11, <2>1, JoinTotals
<1>13. Total(prices \o sizes) = Total(prices) + Total(sizes)
  <2>1. \A i, j \in Nat : i <= 2 /\ j <= 2 => i + j <= 4
    OBVIOUS
  <2>2. Len(prices) + Len(sizes) <= 4
    BY <1>4, <1>11, <2>1
  <2>3. QED BY <1>7, <1>10, <1>11, <2>2, JoinTotals
<1>14. CASE prices = <<>> /\ sizes = <<>>
  BY <1>1, <1>4, <1>9, <1>11, <1>14
<1>15. CASE prices = <<>> /\ sizes # <<>>
  <2>1. Total(Headline(k)) = 0 + Total(sizes) /\ k.priceUp = 0 /\ k.priceDown = 0
    BY <1>1, <1>4, <1>9, <1>12, <1>15
  <2>2. QED BY <1>11, <2>1
<1>16. CASE prices # <<>>
  <2>1. Total(Headline(k)) = Total(prices) + Total(sizes)
    BY <1>1, <1>13, <1>16
  <2>2. QED BY <1>4, <1>11, <2>1
<1>17. QED BY <1>14, <1>15, <1>16

\* colorSentence counts the dots of both colours.
LEMMA ColorAddsUp ==
  ASSUME NEW k, k.up \in Nat, k.down \in Nat
  PROVE  Total(ColorSentence(k)) = k.up + k.down
<1>1. ColorSentence(k) = SayBoth("up", k.up, "down", k.down)
  BY DEF ColorSentence, SayBoth
<1>2. Total(SayBoth("up", k.up, "down", k.down)) = k.up + k.down
  BY SaidOfTwo
<1>3. QED BY <1>1, <1>2

---------------------------------------------------------------------------
(* The dots                                                                *)

\* A product's change is its newest, if the feed has one.
LEMMA ChangeOfProduct ==
  ASSUME NEW S, IsFeed(S)
  PROVE  /\ \A p \in Ids(S) : ChangeOf(S, p) \in LatestByProduct(S) /\ ChangeOf(S, p).product = p
         /\ \A p : p \notin Ids(S) => ChangeOf(S, p) = None
         /\ \A c \in LatestByProduct(S) : c.product \in Ids(S) /\ ChangeOf(S, c.product) = c
<1>1. ASSUME NEW p \in Ids(S)
      PROVE  ChangeOf(S, p) \in LatestByProduct(S) /\ ChangeOf(S, p).product = p
  <2>1. \E c \in LatestByProduct(S) : c.product = p
    BY OneNewestChange DEF Ids
  <2>2. ChangeOf(S, p) = CHOOSE c \in LatestByProduct(S) : c.product = p
    BY DEF ChangeOf
  <2>3. QED BY <2>1, <2>2
<1>2. \A p : p \notin Ids(S) => ChangeOf(S, p) = None
  BY DEF ChangeOf
<1>3. ASSUME NEW c \in LatestByProduct(S)
      PROVE  c.product \in Ids(S) /\ ChangeOf(S, c.product) = c
  <2>1. c.product \in Ids(S)
    BY <1>3, OneNewestChange DEF Ids
  <2>2. QED BY <1>1, <2>1, OneNewestChange
<1>4. QED BY <1>1, <1>2, <1>3

\* What a change says of itself.
LEMMA ChangeTypes ==
  ASSUME NEW c \in Change
  PROVE  /\ UnitChangePct(c) \in Int /\ Direction(c) \in {"more", "less"}
         /\ c.product \in Products /\ c.product # None /\ c # None /\ c.kind \in Kinds
<1>1. /\ c.unitPct \in Int \cup {None} /\ c.pricePct \in Int
      /\ c.product \in Products /\ c.kind \in Kinds
  BY DEF Change
<1>2. UnitChangePct(c) \in Int
  BY <1>1 DEF UnitChangePct
<1>3. KindDirection(c.kind) \in {"more", "less"}
  BY <1>1 DEF KindDirection, Kinds, SizeKinds, SizeDown
<1>4. Direction(c) \in {"more", "less"}
  BY <1>3 DEF Direction
<1>5. c.product # None /\ c # None
  BY <1>1, ArticleAssumption, ChangesAssumption
<1>6. QED BY <1>1, <1>2, <1>4, <1>5

\* The story, its feed's changes and the dots as one render makes them.
Told(S, field) ==
  /\ IsFeed(S) /\ field \in [Products -> Kinds \cup {None, Gone}]
  /\ story = Story(S) /\ dots = DotsOf(S, story, field, Gone)

\* The dot of a product, changed or not.
LEMMA DotOfProduct ==
  ASSUME NEW S, NEW field, Told(S, field)
  PROVE  /\ DOMAIN dots = {p \in Products : field[p] # Gone}
         /\ \A p \in DOMAIN dots :
              /\ p \in Ids(S) => dots[p].value = UnitChangePct(ChangeOf(S, p))
              /\ p \in Ids(S) => dots[p].direction = Direction(ChangeOf(S, p))
              /\ p \notin Ids(S) => dots[p].value = 0
              /\ p \notin Ids(S) /\ field[p] = None => dots[p].direction = None
              /\ (dots[p].sizeKind # None) = (p \in Carded)
<1>1. /\ DOMAIN dots = {p \in Products : field[p] # Gone}
      /\ \A p \in DOMAIN dots : dots[p] = DotOf(S, story, field, p)
  BY DEF Told, DotsOf
<1>2. SUFFICES ASSUME NEW p \in DOMAIN dots
               PROVE  /\ p \in Ids(S) => dots[p].value = UnitChangePct(ChangeOf(S, p))
                      /\ p \in Ids(S) => dots[p].direction = Direction(ChangeOf(S, p))
                      /\ p \notin Ids(S) => dots[p].value = 0
                      /\ p \notin Ids(S) /\ field[p] = None => dots[p].direction = None
                      /\ (dots[p].sizeKind # None) = (p \in Carded)
  BY <1>1
<1> DEFINE c == ChangeOf(S, p)
           way == IF c # None THEN Direction(c) ELSE KindDirection(field[p])
<1> DEFINE dot == DotOf(S, story, field, p)
           group == CASE p \in Range(story.shrinks) -> "shrink"
                      [] p \in Range(story.grows) \ Range(story.shrinks) -> "grow"
                      [] OTHER -> None
<1>3. dot = [direction |-> IF way = "flat" THEN None ELSE way, sizeKind |-> group,
             value |-> IF c # None THEN UnitChangePct(c) ELSE 0]
  BY DEF DotOf
<1>4. dots[p] = dot
  BY <1>1
<1>5. /\ dots[p].direction = IF way = "flat" THEN None ELSE way
      /\ dots[p].value = IF c # None THEN UnitChangePct(c) ELSE 0
      /\ dots[p].sizeKind = group
  <2> HIDE DEF way, group, dot, c
  <2>1. QED BY <1>3, <1>4
<1> HIDE DEF dot
<1>6. (dots[p].sizeKind # None) = (p \in Carded)
  <2>1. None # "shrink" /\ None # "grow"
    BY ArticleAssumption DEF Kinds, SizeKinds, SizeDown
  <2>2. QED BY <1>5, <2>1 DEF Carded
<1>7. p \in Ids(S) => c # None /\ Direction(c) \in {"more", "less"}
  <2>1. LatestByProduct(S) \subseteq Change
    BY OneNewestChange DEF Told, IsFeed
  <2>2. QED BY <2>1, ChangeOfProduct, ChangeTypes DEF Told
<1>8. p \notin Ids(S) => c = None
  BY ChangeOfProduct DEF Told
<1>9. KindDirection(None) = "flat"
  BY ArticleAssumption DEF KindDirection, Kinds, SizeKinds, SizeDown
<1> HIDE DEF c
<1>10. QED BY <1>5, <1>6, <1>7, <1>8, <1>9 DEF c

\* What two lists hold, one after the other.
LEMMA RangeOfTwo ==
  ASSUME NEW V, NEW s \in Seq(V), NEW t \in Seq(V)
  PROVE  s \o t \in Seq(V) /\ Range(s \o t) = Range(s) \cup Range(t)
<1>1. /\ Len(s) \in Nat /\ Len(t) \in Nat /\ DOMAIN s = 1..Len(s) /\ DOMAIN t = 1..Len(t)
      /\ s \o t \in Seq(V) /\ Len(s \o t) = Len(s) + Len(t) /\ DOMAIN (s \o t) = 1..Len(s \o t)
      /\ \A i \in 1..Len(s) : (s \o t)[i] = s[i]
      /\ \A i \in 1..Len(t) : (s \o t)[Len(s) + i] = t[i]
  OBVIOUS
<1> DEFINE u == s \o t
<1> HIDE DEF u
<1>2. \A i \in 1..(Len(s) + Len(t)) :
        i \in 1..Len(s) \/ \E j \in 1..Len(t) : i = Len(s) + j
  <2>1. SUFFICES ASSUME NEW i \in 1..(Len(s) + Len(t)), i \notin 1..Len(s)
                 PROVE  \E j \in 1..Len(t) : i = Len(s) + j
    OBVIOUS
  <2>2. i - Len(s) \in 1..Len(t) /\ i = Len(s) + (i - Len(s))
    BY <1>1, <2>1
  <2>3. QED BY <2>2
<1>3. /\ \A i \in 1..Len(s) : i \in 1..(Len(s) + Len(t))
      /\ \A i \in 1..Len(t) : Len(s) + i \in 1..(Len(s) + Len(t))
  BY <1>1
<1>4. /\ DOMAIN u = 1..(Len(s) + Len(t))
      /\ \A i \in 1..Len(s) : u[i] = s[i]
      /\ \A i \in 1..Len(t) : u[Len(s) + i] = t[i]
  BY <1>1 DEF u
<1>5. ASSUME NEW x \in Range(u)
      PROVE  x \in Range(s) \cup Range(t)
  <2>1. PICK i \in 1..(Len(s) + Len(t)) : u[i] = x
    BY <1>4 DEF Range
  <2>2. CASE i \in 1..Len(s)
    BY <1>1, <1>4, <2>1, <2>2 DEF Range
  <2>3. CASE \E j \in 1..Len(t) : i = Len(s) + j
    BY <1>1, <1>4, <2>1, <2>3 DEF Range
  <2>4. QED BY <1>2, <2>2, <2>3
<1>6. \A x \in Range(s) \cup Range(t) : x \in Range(u)
  <2>1. ASSUME NEW i \in 1..Len(s)
        PROVE  s[i] \in Range(u)
    <3>1. i \in 1..(Len(s) + Len(t)) /\ u[i] = s[i]
      BY <1>3, <1>4
    <3>2. QED BY <1>4, <3>1 DEF Range
  <2>2. ASSUME NEW i \in 1..Len(t)
        PROVE  t[i] \in Range(u)
    <3>1. Len(s) + i \in 1..(Len(s) + Len(t)) /\ u[Len(s) + i] = t[i]
      BY <1>3, <1>4
    <3>2. QED BY <1>4, <3>1 DEF Range
  <2>3. QED BY <1>1, <2>1, <2>2 DEF Range
<1>7. Range(u) = Range(s) \cup Range(t)
  BY <1>5, <1>6
<1>8. QED BY <1>1, <1>7 DEF u

\* A group's step is there when it has cards.
LEMMA StepsOfCards ==
  ASSUME NEW k, k.shrinks \in Nat, k.grows \in Nat
  PROVE  {"shrinks", "grows"} \cap Range(StepsOf(k)) = {} <=> k.shrinks = 0 /\ k.grows = 0
<1> DEFINE first == <<"grid", "changed", "swarm">>
           down  == IF k.shrinks > 0 THEN <<"shrinks">> ELSE <<>>
           up    == IF k.grows > 0 THEN <<"grows">> ELSE <<>>
           last  == <<"end">>
           StepKinds == {"grid", "changed", "swarm", "shrinks", "grows", "end"}
<1>1. StepsOf(k) = first \o down \o up \o last
  BY DEF StepsOf
<1>2. /\ first \in Seq(StepKinds) /\ down \in Seq(StepKinds) /\ up \in Seq(StepKinds) /\ last \in Seq(StepKinds)
  <2>1. first \in Seq(StepKinds) /\ last \in Seq(StepKinds)
    OBVIOUS
  <2>2. <<"shrinks">> \in Seq(StepKinds) /\ <<"grows">> \in Seq(StepKinds) /\ <<>> \in Seq(StepKinds)
    OBVIOUS
  <2>3. QED BY <2>1, <2>2
<1>3. /\ Range(first) = {"grid", "changed", "swarm"} /\ Range(last) = {"end"}
  BY DEF Range
<1>4. Range(down) = IF k.shrinks > 0 THEN {"shrinks"} ELSE {}
  BY DEF Range
<1>5. Range(up) = IF k.grows > 0 THEN {"grows"} ELSE {}
  BY DEF Range
<1> HIDE DEF first, down, up, last, StepKinds
<1>6. Range(StepsOf(k)) = Range(first) \cup Range(down) \cup Range(up) \cup Range(last)
  <2> DEFINE two == first \o down
             three == two \o up
  <2>1. StepsOf(k) = three \o last
    BY <1>1
  <2>2. two \in Seq(StepKinds) /\ Range(two) = Range(first) \cup Range(down)
    BY <1>2, RangeOfTwo
  <2> HIDE DEF two
  <2>3. three \in Seq(StepKinds) /\ Range(three) = Range(two) \cup Range(up)
    BY <1>2, <2>2, RangeOfTwo
  <2> HIDE DEF three
  <2>4. Range(three \o last) = Range(three) \cup Range(last)
    BY <1>2, <2>3, RangeOfTwo
  <2>5. QED BY <2>1, <2>2, <2>3, <2>4
<1>7. "shrinks" \in Range(StepsOf(k)) <=> k.shrinks > 0
  BY <1>3, <1>4, <1>5, <1>6
<1>8. "grows" \in Range(StepsOf(k)) <=> k.grows > 0
  BY <1>3, <1>4, <1>5, <1>6
<1>9. QED BY <1>7, <1>8

---------------------------------------------------------------------------
(* The story's numbers                                                     *)

\* The story's counts are numbers.
LEMMA CountTypes ==
  ASSUME NEW S, IsFeed(S)
  PROVE  LET k == Counts(S) IN
         /\ IsFiniteSet(LatestByProduct(S)) /\ IsFiniteSet(PriceMoves(S))
         /\ k.changed \in Nat /\ k.up \in Nat /\ k.down \in Nat
         /\ k.priceUp \in Nat /\ k.priceDown \in Nat /\ k.priceMoves \in Nat /\ k.sizeDots \in Nat
<1> DEFINE latest == LatestByProduct(S)
           moves == PriceMoves(S)
<1>1. IsFiniteSet(latest) /\ IsFiniteSet(moves)
  BY OneNewestChange, PartOfFeed DEF IsFeed, PriceMoves
<1>2. /\ IsFiniteSet({c \in latest : Direction(c) = "more"})
      /\ IsFiniteSet({c \in latest : Direction(c) = "less"})
      /\ IsFiniteSet(Of(latest, SizeKinds))
      /\ IsFiniteSet(Of(moves, {"price_increase"})) /\ IsFiniteSet(Of(moves, {"price_decrease"}))
  BY <1>1, FS_Subset DEF Of
<1>3. QED BY <1>1, <1>2, FS_CardinalityType DEF Counts

\* Every changed product is counted on one side.
LEMMA EverySideCounted ==
  ASSUME NEW S, IsFeed(S)
  PROVE  Counts(S).up + Counts(S).down = Counts(S).changed
<1> DEFINE latest == LatestByProduct(S)
           M == {c \in latest : Direction(c) = "more"}
           L == {c \in latest : Direction(c) = "less"}
<1>1. \A c \in latest : Direction(c) \in {"more", "less"}
  BY OneNewestChange, ChangeTypes DEF IsFeed
<1>2. M \cup L = latest /\ M \cap L = {}
  BY <1>1
<1>3. IsFiniteSet(M) /\ IsFiniteSet(L)
  BY CountTypes, FS_Subset
<1>4. /\ Cardinality(M \cup L) = Cardinality(M) + Cardinality(L) - Cardinality(M \cap L)
      /\ Cardinality(M) \in Nat /\ Cardinality(L) \in Nat
  BY <1>3, FS_Union, FS_CardinalityType
<1>5. Counts(S).up = Cardinality(M) /\ Counts(S).down = Cardinality(L)
      /\ Counts(S).changed = Cardinality(latest)
  BY DEF Counts
<1> HIDE DEF M, L, latest
<1>6. Cardinality(latest) = Cardinality(M) + Cardinality(L)
  <2>1. Cardinality(M \cap L) = 0
    BY <1>2, FS_EmptySet
  <2>2. Cardinality(M \cup L) = Cardinality(latest)
    BY <1>2
  <2>3. Cardinality(latest) = Cardinality(M) + Cardinality(L) - 0
    BY <1>4, <2>1, <2>2
  <2>4. QED BY <1>4, <2>3
<1>7. QED BY <1>5, <1>6

(***************************************************************************)
(* story.ts, buildStory and colorSentence: cards, headline, steps and      *)
(* sides of any feed.                                                      *)
(***************************************************************************)
LEMMA NumbersOfStory ==
  ASSUME NEW S, NEW field, Told(S, field)
  PROVE  /\ Len(story.shrinks) + Len(story.grows) = Cardinality(Carded)
         /\ Total(story.headline)
              = story.counts.priceUp + story.counts.priceDown + Cardinality(Carded)
         /\ {"shrinks", "grows"} \cap Range(story.steps) = {} <=> Carded = {}
         /\ story.counts.up + story.counts.down = story.counts.changed
         /\ Total(story.color) = story.counts.changed
<1> DEFINE k == Counts(S)
<1>1. /\ IsFeed(S) /\ story.counts = k /\ story.headline = Headline(k) /\ story.color = ColorSentence(k)
      /\ story.steps = StepsOf(k)
      /\ story.shrinks = Story(S).shrinks /\ story.grows = Story(S).grows
  BY DEF Told, Story
<1>2. /\ k.shrinks = Len(story.shrinks) /\ k.grows = Len(story.grows)
      /\ k.shrinks \in Nat /\ k.grows \in Nat
      /\ k.shrinks + k.grows = Cardinality(Carded)
  BY <1>1, CardsOfStory DEF Carded
<1>3. /\ k.up \in Nat /\ k.down \in Nat /\ k.priceUp \in Nat /\ k.priceDown \in Nat
      /\ k.up + k.down = k.changed
  BY <1>1, CountTypes, EverySideCounted
<1>4. Carded = {} <=> k.shrinks = 0 /\ k.grows = 0
  <2>1. IsFiniteSet(Carded)
    <3>1. IsFiniteSet(ShrinkCards(S)) /\ IsFiniteSet(GrowCards(S))
      BY <1>1, CardedChanges DEF IsFeed
    <3>2. IsFiniteSet(Ids(ShrinkCards(S))) /\ IsFiniteSet(Ids(GrowCards(S)))
      <4>1. \A c, d \in ShrinkCards(S) \cup GrowCards(S) : c.product = d.product => c = d
        BY <1>1, CardedChanges
      <4>2. QED BY <3>1, <4>1, AsManyProducts
    <3>3. QED BY <1>1, <3>2, FS_Union, CardsOfStory DEF Carded
  <2>2. Carded = {} <=> Cardinality(Carded) = 0
    BY <2>1, FS_EmptySet
  <2>3. \A m, n \in Nat : m + n = 0 <=> m = 0 /\ n = 0
    OBVIOUS
  <2>4. QED BY <1>2, <2>2, <2>3
<1> HIDE DEF k
<1>5. Total(Headline(k)) = k.priceUp + k.priceDown + (k.shrinks + k.grows)
  BY <1>2, <1>3, HeadlineAddsUp
<1>6. Total(ColorSentence(k)) = k.up + k.down
  BY <1>3, ColorAddsUp
<1>7. {"shrinks", "grows"} \cap Range(StepsOf(k)) = {} <=> k.shrinks = 0 /\ k.grows = 0
  BY <1>2, StepsOfCards
<1>8. QED BY <1>1, <1>2, <1>3, <1>4, <1>5, <1>6, <1>7

---------------------------------------------------------------------------
(* The named moves                                                         *)

MoveOrder(T, sign) ==
  {p \in T \X T : sign * UnitChangePct(p[1]) > sign * UnitChangePct(p[2])
                    \/ (sign * UnitChangePct(p[1]) = sign * UnitChangePct(p[2]) /\ Newer(p[1], p[2]))}

\* FirstOf names the product of one of the largest moves.
LEMMA FirstIsLargest ==
  ASSUME NEW T, IsFeed(T), T # {}, NEW sign \in {1, -1}
  PROVE  \E c \in T : /\ FirstOf(T, sign) = c.product
                      /\ \A d \in T : sign * UnitChangePct(c) >= sign * UnitChangePct(d)
<1> DEFINE Move(c) == sign * UnitChangePct(c)
           Before(x, y) == Move(x) > Move(y) \/ (Move(x) = Move(y) /\ Newer(x, y))
           R == MoveOrder(T, sign)
<1>1. \A c \in T : Move(c) \in Int
  BY ChangeTypes DEF IsFeed
<1>2. \A x, y \in T : <<x, y>> \in R <=> Before(x, y)
  BY DEF MoveOrder
<1>3. IsOrder(R, T)
  <2>1. /\ \A x \in T : ~Newer(x, x)
        /\ \A x, y \in T : x # y => Newer(x, y) \/ Newer(y, x)
        /\ \A x, y, z \in T : Newer(x, y) /\ Newer(y, z) => Newer(x, z)
    <3>1. \A x, y \in T : <<x, y>> \in NewerIn(T) <=> Newer(x, y)
      BY DEF NewerIn
    <3>2. QED BY <3>1, NewerOrders DEF IsOrder
  <2> HIDE DEF Move
  <2>2. /\ \A x \in T : ~Before(x, x)
        /\ \A x, y \in T : x # y => Before(x, y) \/ Before(y, x)
        /\ \A x, y, z \in T : Before(x, y) /\ Before(y, z) => Before(x, z)
    BY <1>1, <2>1
  <2> HIDE DEF Before, R
  <2>3. QED BY <1>2, <2>2 DEF IsOrder
<1>4. \E c \in T : \A d \in T \ {c} : Before(c, d)
  <2>1. PICK c \in T : \A d \in T \ {c} : <<c, d>> \in R
    BY <1>3, FirstExists DEF IsFeed
  <2> HIDE DEF Before, R
  <2>2. QED BY <1>2, <2>1
<1>5. FirstOf(T, sign) = (CHOOSE c \in T : \A d \in T \ {c} : Before(c, d)).product
  BY DEF FirstOf
<1> HIDE DEF R
<1>6. PICK c \in T : /\ FirstOf(T, sign) = c.product
                     /\ \A d \in T \ {c} : Before(c, d)
  <2> HIDE DEF Before
  <2>1. QED BY <1>4, <1>5
<1>7. \A d \in T : Move(c) >= Move(d)
  <2> HIDE DEF Move
  <2>1. QED BY <1>1, <1>6
<1>8. QED BY <1>6, <1>7

\* The products on the axis.
OnAxis(S) == {p \in Ids(S) \cap DOMAIN dots : ~IsOffScale(dots[p].value)}

\* What the axis holds are the changes in scale.
LEMMA AxisInScale ==
  ASSUME NEW S, NEW field, Told(S, field)
  PROVE  \A p \in OnAxis(S) :
           /\ ChangeOf(S, p) \in InScale(S) /\ ChangeOf(S, p).product = p
           /\ dots[p].value = UnitChangePct(ChangeOf(S, p)) /\ dots[p].value \in Int
           /\ p \in Products /\ p # None
<1>1. SUFFICES ASSUME NEW p \in OnAxis(S)
               PROVE  /\ ChangeOf(S, p) \in InScale(S) /\ ChangeOf(S, p).product = p
                      /\ dots[p].value = UnitChangePct(ChangeOf(S, p)) /\ dots[p].value \in Int
                      /\ p \in Products /\ p # None
  OBVIOUS
<1>2. /\ p \in Ids(S) /\ p \in DOMAIN dots /\ ~IsOffScale(dots[p].value) /\ IsFeed(S)
  BY DEF OnAxis, Told
<1>3. dots[p].value = UnitChangePct(ChangeOf(S, p))
  BY <1>2, DotOfProduct
<1>4. /\ ChangeOf(S, p) \in LatestByProduct(S) /\ ChangeOf(S, p).product = p
      /\ ChangeOf(S, p) \in Change
  BY <1>2, ChangeOfProduct, OneNewestChange DEF IsFeed
<1>5. ChangeOf(S, p) \in InScale(S)
  BY <1>2, <1>3, <1>4 DEF InScale
<1>6. dots[p].value \in Int /\ p \in Products /\ p # None
  BY <1>3, <1>4, ChangeTypes
<1>7. QED BY <1>3, <1>4, <1>5, <1>6

\* The changes one way on the axis, and the one that is named.
Rises(S) == {c \in InScale(S) : UnitChangePct(c) > 0}
Falls(S) == {c \in InScale(S) : UnitChangePct(c) < 0}

\* The products named are the largest rise and the largest fall.
LEMMA NamedMoves ==
  ASSUME NEW S, IsFeed(S)
  PROVE  /\ (Up(S) = None) = (Rises(S) = {})
         /\ Rises(S) # {} => \E c \in Rises(S) :
              Up(S) = c.product /\ \A d \in Rises(S) : UnitChangePct(c) >= UnitChangePct(d)
         /\ (Down(S) = None) = (Falls(S) = {})
         /\ Falls(S) # {} => \E c \in Falls(S) :
              Down(S) = c.product /\ \A d \in Falls(S) : UnitChangePct(c) <= UnitChangePct(d)
<1>1. /\ IsFeed(Rises(S)) /\ IsFeed(Falls(S))
      /\ Rises(S) \subseteq Change /\ Falls(S) \subseteq Change
  <2>1. Rises(S) \subseteq S /\ Falls(S) \subseteq S
    BY OneNewestChange DEF Rises, Falls, InScale
  <2>2. QED BY <2>1, PartOfFeed DEF IsFeed
<1>2. \A c \in Rises(S) \cup Falls(S) : UnitChangePct(c) \in Int /\ c.product # None
  BY <1>1, ChangeTypes
<1>3. Up(S) = FirstOf(Rises(S), 1) /\ Down(S) = FirstOf(Falls(S), -1)
  BY DEF Up, Down, Rises, Falls
<1>4. /\ Rises(S) = {} => Up(S) = None
      /\ Falls(S) = {} => Down(S) = None
  BY <1>3 DEF FirstOf
<1>5. ASSUME Rises(S) # {}
      PROVE  \E c \in Rises(S) :
               Up(S) = c.product /\ \A d \in Rises(S) : UnitChangePct(c) >= UnitChangePct(d)
  <2>1. PICK c \in Rises(S) : /\ Up(S) = c.product
                              /\ \A d \in Rises(S) : 1 * UnitChangePct(c) >= 1 * UnitChangePct(d)
    BY <1>1, <1>3, <1>5, FirstIsLargest
  <2>2. \A i \in Int : 1 * i = i
    OBVIOUS
  <2>3. QED BY <1>2, <2>1, <2>2
<1>6. ASSUME Falls(S) # {}
      PROVE  \E c \in Falls(S) :
               Down(S) = c.product /\ \A d \in Falls(S) : UnitChangePct(c) <= UnitChangePct(d)
  <2>1. PICK c \in Falls(S) : /\ Down(S) = c.product
                              /\ \A d \in Falls(S) : (-1) * UnitChangePct(c) >= (-1) * UnitChangePct(d)
    BY <1>1, <1>3, <1>6, FirstIsLargest
  <2>2. \A i, j \in Int : (-1) * i >= (-1) * j => i <= j
    OBVIOUS
  <2>3. QED BY <1>2, <2>1, <2>2
<1>7. QED BY <1>2, <1>4, <1>5, <1>6

(***************************************************************************)
(* story.ts, buildStory: the products the chart names are the extremes of  *)
(* its axis, and what it counts as off the scale is what is not on it.     *)
(***************************************************************************)
LEMMA ExtremesOfAxis ==
  ASSUME NEW S, NEW field, Told(S, field)
  PROVE  /\ story.up \in OnAxis(S) => \A p \in OnAxis(S) : dots[p].value <= dots[story.up].value
         /\ story.down \in OnAxis(S) => \A p \in OnAxis(S) : dots[p].value >= dots[story.down].value
         /\ story.offScale \cap DOMAIN dots = {p \in DOMAIN dots : IsOffScale(dots[p].value)}
<1>1. /\ IsFeed(S) /\ story.up = Up(S) /\ story.down = Down(S)
      /\ story.offScale = Ids(LatestByProduct(S) \ InScale(S))
  BY DEF Told, Story
<1>2. ASSUME story.up \in OnAxis(S), NEW p \in OnAxis(S)
      PROVE  dots[p].value <= dots[story.up].value
  <2>1. PICK c \in Rises(S) :
          Up(S) = c.product /\ \A d \in Rises(S) : UnitChangePct(c) >= UnitChangePct(d)
    BY <1>1, <1>2, AxisInScale, NamedMoves
  <2>2. ChangeOf(S, story.up) = c
    BY <1>1, <2>1, ChangeOfProduct DEF Rises, InScale
  <2>3. dots[story.up].value = UnitChangePct(c) /\ UnitChangePct(c) \in Int /\ UnitChangePct(c) > 0
    BY <1>2, <2>2, AxisInScale DEF Rises
  <2>4. /\ dots[p].value = UnitChangePct(ChangeOf(S, p)) /\ dots[p].value \in Int
        /\ ChangeOf(S, p) \in InScale(S)
    BY <1>2, AxisInScale
  <2>5. CASE dots[p].value > 0
    <3>1. ChangeOf(S, p) \in Rises(S)
      BY <2>4, <2>5 DEF Rises
    <3>2. QED BY <2>1, <2>3, <2>4, <3>1
  <2>6. CASE ~(dots[p].value > 0)
    BY <2>3, <2>4, <2>6
  <2>7. QED BY <2>5, <2>6
<1>3. ASSUME story.down \in OnAxis(S), NEW p \in OnAxis(S)
      PROVE  dots[p].value >= dots[story.down].value
  <2>1. PICK c \in Falls(S) :
          Down(S) = c.product /\ \A d \in Falls(S) : UnitChangePct(c) <= UnitChangePct(d)
    BY <1>1, <1>3, AxisInScale, NamedMoves
  <2>2. ChangeOf(S, story.down) = c
    BY <1>1, <2>1, ChangeOfProduct DEF Falls, InScale
  <2>3. dots[story.down].value = UnitChangePct(c) /\ UnitChangePct(c) \in Int /\ UnitChangePct(c) < 0
    BY <1>3, <2>2, AxisInScale DEF Falls
  <2>4. /\ dots[p].value = UnitChangePct(ChangeOf(S, p)) /\ dots[p].value \in Int
        /\ ChangeOf(S, p) \in InScale(S)
    BY <1>3, AxisInScale
  <2>5. CASE dots[p].value < 0
    <3>1. ChangeOf(S, p) \in Falls(S)
      BY <2>4, <2>5 DEF Falls
    <3>2. QED BY <2>1, <2>3, <2>4, <3>1
  <2>6. CASE ~(dots[p].value < 0)
    BY <2>3, <2>4, <2>6
  <2>7. QED BY <2>5, <2>6
<1>4. ASSUME NEW p \in DOMAIN dots
      PROVE  p \in story.offScale <=> IsOffScale(dots[p].value)
  <2>1. CASE p \notin Ids(S)
    <3>1. dots[p].value = 0
      BY <2>1, DotOfProduct
    <3>2. ~IsOffScale(0)
      BY ValuesAssumption DEF IsOffScale, Magnitude
    <3>3. p \notin story.offScale
      BY <1>1, <2>1, ChangeOfProduct DEF Ids
    <3>4. QED BY <3>1, <3>2, <3>3
  <2>2. CASE p \in Ids(S)
    <3>1. /\ ChangeOf(S, p) \in LatestByProduct(S) /\ ChangeOf(S, p).product = p
          /\ dots[p].value = UnitChangePct(ChangeOf(S, p))
      BY <1>1, <2>2, ChangeOfProduct, DotOfProduct
    <3>2. p \in story.offScale <=> ChangeOf(S, p) \notin InScale(S)
      BY <1>1, <3>1, ChangeOfProduct DEF Ids
    <3>3. QED BY <3>1, <3>2 DEF InScale
  <2>3. QED BY <2>1, <2>2
<1>5. story.offScale \cap DOMAIN dots = {p \in DOMAIN dots : IsOffScale(dots[p].value)}
  BY <1>4
<1>6. QED BY <1>2, <1>3, <1>5

\* swarmText speaks of sizes alone when no price moved.
LEMMA SwarmOfSizes ==
  ASSUME NEW moves \in Nat, NEW k, k.priceMoves = moves, NEW text, text = SwarmText(k),
         text.form = "all_are_sizes"
  PROVE  moves = 0 /\ text.n = k.sizeDots
<1>1. \A form, n : Say(form, n).form = form /\ Say(form, n).n = n
  BY DEF Say
<1>2. CASE moves >= 3
  <2>1. text = Say("median", moves)
    BY <1>2 DEF SwarmText
  <2>2. QED BY <1>1, <2>1
<1>3. CASE moves \in 1..2
  <2>1. text = Say("price_moves", moves)
    BY <1>3 DEF SwarmText
  <2>2. QED BY <1>1, <2>1
<1>4. CASE moves = 0 /\ k.sizeDots > 0
  <2>1. text = Say("all_are_sizes", k.sizeDots)
    BY <1>4 DEF SwarmText
  <2>2. QED BY <1>1, <1>4, <2>1
<1>5. CASE moves = 0 /\ ~(k.sizeDots > 0)
  <2>1. text = Say("empty", 0)
    BY <1>5 DEF SwarmText
  <2>2. QED BY <1>1, <2>1
<1>6. QED BY <1>2, <1>3, <1>4, <1>5

\* All changes are sizes: then the dots of size changes are all of them.
LEMMA AllAreSizes ==
  ASSUME NEW S, IsFeed(S), SwarmText(Counts(S)).form = "all_are_sizes"
  PROVE  SwarmText(Counts(S)).n = Counts(S).changed
<1> DEFINE k == Counts(S)
           latest == LatestByProduct(S)
<1>1. k.priceMoves \in Nat /\ IsFiniteSet(PriceMoves(S))
  BY CountTypes
<1>2. /\ k.priceMoves = Cardinality(PriceMoves(S)) /\ k.changed = Cardinality(latest)
      /\ k.sizeDots = Cardinality(Of(latest, SizeKinds))
  BY DEF Counts
<1>3. k.priceMoves = 0 /\ SwarmText(k).n = k.sizeDots
  <2> HIDE DEF k
  <2>1. SwarmText(k).form = "all_are_sizes"
    BY DEF k
  <2>2. QED BY <1>1, <2>1, SwarmOfSizes
<1>4. PriceMoves(S) = {}
  BY <1>1, <1>2, <1>3, FS_EmptySet
<1>5. Of(latest, SizeKinds) = latest
  BY <1>4, OneNewestChange DEF PriceMoves, Of
<1>6. QED BY <1>2, <1>3, <1>5 DEF k

\* A side's number against its dots: a product the field dropped has none.
LEMMA KnownDots ==
  ASSUME NEW S, NEW field, Told(S, field), NEW way \in {"more", "less"}
  PROVE  LET up == Cardinality({c \in LatestByProduct(S) : Direction(c) = way})
         IN  Cardinality(Dotted(way) \cap Ids(S))
               \in up - Cardinality(Ids(S) \ DOMAIN dots) .. up
<1> DEFINE latest == LatestByProduct(S)
           On == {c \in latest : Direction(c) = way}
           A == Ids(On)
           D == Dotted(way) \cap Ids(S)
           G == Ids(S) \ DOMAIN dots
<1>1. IsFeed(S)
  BY DEF Told
<1>2. IsFiniteSet(On) /\ \A c, d \in On : c.product = d.product => c = d
  BY <1>1, CountTypes, OneNewestChange, FS_Subset
<1>3. IsFiniteSet(A) /\ Cardinality(A) = Cardinality(On)
  <2> HIDE DEF On
  <2>1. QED BY <1>2, AsManyProducts
<1>4. \A p \in Ids(S) : p \in A <=> Direction(ChangeOf(S, p)) = way
  <2>1. ASSUME NEW p \in Ids(S), Direction(ChangeOf(S, p)) = way
        PROVE  p \in A
    <3>1. ChangeOf(S, p) \in latest /\ ChangeOf(S, p).product = p
      BY <1>1, ChangeOfProduct
    <3>2. QED BY <2>1, <3>1 DEF Ids
  <2>2. ASSUME NEW p \in A
        PROVE  Direction(ChangeOf(S, p)) = way
    <3>1. PICK c \in latest : c.product = p /\ Direction(c) = way
      BY DEF Ids
    <3>2. QED BY <1>1, <3>1, ChangeOfProduct
  <2>3. QED BY <2>1, <2>2
<1>5. \A p \in DOMAIN dots \cap Ids(S) : dots[p].direction = Direction(ChangeOf(S, p))
  BY DotOfProduct
<1>6. A \subseteq Ids(S)
  BY OneNewestChange, <1>1 DEF Ids, LatestByProduct
<1> HIDE DEF A
<1>7. D \subseteq A /\ A \subseteq D \cup G
  BY <1>4, <1>5, <1>6 DEF Dotted
<1>8. IsFiniteSet(G)
  <2>1. Ids(S) = Ids(latest) /\ IsFiniteSet(Ids(latest))
    BY <1>1, CountTypes, OneNewestChange, AsManyProducts, ChangeOfProduct
  <2>2. QED BY <2>1, FS_Subset
<1> HIDE DEF D, G, On
<1>9. IsFiniteSet(D) /\ Cardinality(D) <= Cardinality(A)
  BY <1>3, <1>7, FS_Subset
<1>10. IsFiniteSet(D \cup G) /\ Cardinality(D \cup G) <= Cardinality(D) + Cardinality(G)
  <2>1. /\ Cardinality(D \cup G) = Cardinality(D) + Cardinality(G) - Cardinality(D \cap G)
        /\ IsFiniteSet(D \cup G) /\ IsFiniteSet(D \cap G)
    BY <1>8, <1>9, FS_Union, FS_Intersection
  <2>2. Cardinality(D \cap G) \in Nat /\ Cardinality(D) \in Nat /\ Cardinality(G) \in Nat
    BY <1>8, <1>9, <2>1, FS_CardinalityType
  <2>3. QED BY <2>1, <2>2
<1>11. Cardinality(A) <= Cardinality(D \cup G)
  BY <1>7, <1>10, FS_Subset
<1>12. /\ Cardinality(A) \in Nat /\ Cardinality(D) \in Nat /\ Cardinality(G) \in Nat
       /\ Cardinality(D \cup G) \in Nat
  BY <1>3, <1>8, <1>9, <1>10, FS_CardinalityType
<1>13. Cardinality(D) \in Cardinality(On) - Cardinality(G) .. Cardinality(On)
  BY <1>3, <1>9, <1>10, <1>11, <1>12
<1>14. QED BY <1>13 DEF D, G, On

(***************************************************************************)
(* When the field and the feed tell of the same changed products, the two  *)
(* colours' dots are as many as the story says, and the moves it names are *)
(* on the axis.                                                            *)
(***************************************************************************)
LEMMA DotsCounted ==
  ASSUME NEW S, NEW field, Told(S, field),
         {p \in Products : field[p] \notin {None, Gone}} = Ids(S)
  PROVE  /\ story.counts.up = Cardinality(Dotted("more"))
         /\ story.counts.down = Cardinality(Dotted("less"))
         /\ \A p \in {story.up, story.down} \ {None} : p \in OnAxis(S)
         /\ {story.up, story.down} = {None} => \A p \in OnAxis(S) : dots[p].value = 0
<1> DEFINE latest == LatestByProduct(S)
           On(way) == {c \in latest : Direction(c) = way}
<1>1. /\ IsFeed(S) /\ story.up = Up(S) /\ story.down = Down(S) /\ story.counts = Counts(S)
      /\ Counts(S).up = Cardinality(On("more")) /\ Counts(S).down = Cardinality(On("less"))
  BY DEF Told, Story, Counts
<1>2. Ids(S) \subseteq DOMAIN dots /\ \A p \in DOMAIN dots \ Ids(S) : field[p] = None
  <2>1. DOMAIN dots = {p \in Products : field[p] # Gone}
    BY DotOfProduct
  <2>2. QED BY <2>1
<1>3. \A p \in DOMAIN dots :
        /\ p \in Ids(S) => /\ dots[p].value = UnitChangePct(ChangeOf(S, p))
                           /\ dots[p].direction = Direction(ChangeOf(S, p))
        /\ p \notin Ids(S) => dots[p].direction = None
  <2>1. \A p \in DOMAIN dots : p \in Ids(S) => dots[p].value = UnitChangePct(ChangeOf(S, p))
    BY DotOfProduct
  <2>2. \A p \in DOMAIN dots : p \in Ids(S) => dots[p].direction = Direction(ChangeOf(S, p))
    BY DotOfProduct
  <2>3. \A p \in DOMAIN dots : p \notin Ids(S) /\ field[p] = None => dots[p].direction = None
    BY DotOfProduct
  <2>4. QED BY <1>2, <2>1, <2>2, <2>3
<1>4. ASSUME NEW way \in {"more", "less"}
      PROVE  Cardinality(On(way)) = Cardinality(Dotted(way))
  <2>1. Dotted(way) = Ids(On(way))
    <3>1. ASSUME NEW p \in Dotted(way)
          PROVE  p \in Ids(On(way))
      <4>1. p \in DOMAIN dots /\ dots[p].direction = way
        BY <3>1 DEF Dotted
      <4>2. way # None
        BY ArticleAssumption
      <4>3. p \in Ids(S) /\ Direction(ChangeOf(S, p)) = way
        BY <1>3, <4>1, <4>2
      <4>4. ChangeOf(S, p) \in On(way) /\ ChangeOf(S, p).product = p
        BY <1>1, <4>3, ChangeOfProduct
      <4> HIDE DEF On
      <4>5. QED BY <4>4 DEF Ids
    <3>2. ASSUME NEW p \in Ids(On(way))
          PROVE  p \in Dotted(way)
      <4>1. PICK c \in latest : c.product = p /\ Direction(c) = way
        BY <3>2 DEF Ids
      <4>2. p \in Ids(S) /\ ChangeOf(S, p) = c
        BY <1>1, <4>1, ChangeOfProduct
      <4>3. dots[p].direction = way
        BY <1>2, <1>3, <4>1, <4>2
      <4>4. QED BY <1>2, <4>2, <4>3 DEF Dotted
    <3>3. QED BY <3>1, <3>2
  <2>2. IsFiniteSet(On(way))
    BY <1>1, CountTypes, FS_Subset
  <2>3. \A c, d \in On(way) : c.product = d.product => c = d
    BY <1>1, OneNewestChange
  <2> HIDE DEF On
  <2>4. QED BY <2>1, <2>2, <2>3, AsManyProducts
<1>5. ASSUME NEW c \in InScale(S)
      PROVE  c.product \in OnAxis(S) /\ dots[c.product].value = UnitChangePct(c)
  <2>1. c \in latest /\ ~IsOffScale(UnitChangePct(c))
    BY DEF InScale
  <2>2. c.product \in Ids(S) /\ ChangeOf(S, c.product) = c
    BY <1>1, <2>1, ChangeOfProduct
  <2>3. QED BY <1>2, <1>3, <2>1, <2>2 DEF OnAxis
<1>6. ASSUME NEW p \in {story.up, story.down} \ {None}
      PROVE  p \in OnAxis(S)
  <2>1. \E c \in InScale(S) : c.product = p
    <3>1. CASE p = story.up
      BY <1>1, <1>6, <3>1, NamedMoves DEF Rises
    <3>2. CASE p = story.down
      BY <1>1, <1>6, <3>2, NamedMoves DEF Falls
    <3>3. QED BY <3>1, <3>2
  <2>2. QED BY <1>5, <2>1
<1>7. ASSUME {story.up, story.down} = {None}, NEW p \in OnAxis(S)
      PROVE  dots[p].value = 0
  <2>1. Rises(S) = {} /\ Falls(S) = {}
    BY <1>1, <1>7, NamedMoves
  <2>2. /\ ChangeOf(S, p) \in InScale(S) /\ dots[p].value = UnitChangePct(ChangeOf(S, p))
        /\ dots[p].value \in Int
    BY AxisInScale
  <2>3. ~(dots[p].value > 0) /\ ~(dots[p].value < 0)
    BY <2>1, <2>2 DEF Rises, Falls
  <2>4. QED BY <2>2, <2>3
<1>8. QED BY <1>1, <1>4, <1>6, <1>7

(***************************************************************************)
(* story.ts:5-8 with HomePage.tsx, for any products, feeds and scale and   *)
(* however many changes a product had: the cards, the headline's and the   *)
(* sides' sums and the named moves on the axis are those of the dots, and  *)
(* the dots of one side are as many as its number says, less at most the   *)
(* products the field dropped, not counting moves the feed does not have.  *)
(* When the endpoints agree the numbers are exactly those of the dots:     *)
(* StoryTellsTheDots.                                                      *)
(***************************************************************************)
THEOREM TheWordsMatchTheGraphic == Spec => []StoryTellsTheDots
<1>1. ArticleInv => StoryTellsTheDots
  <2> SUFFICES ASSUME ArticleInv, story # None PROVE StoryTellsTheDots
    BY DEF StoryTellsTheDots
  <2> DEFINE S == Range(feed.changes)
             k == story.counts
  <2>1. Told(S, feed.field) /\ changes = feed.changes
    BY FeedIsFeed, ArticleAssumption DEF ArticleInv, Told
  <2>2. OnAxis(S) = {p \in Ids(Range(changes)) \cap DOMAIN dots : ~IsOffScale(dots[p].value)}
    BY <2>1 DEF OnAxis
  <2> HIDE DEF S
  <2>3. /\ Len(story.shrinks) + Len(story.grows) = Cardinality(Carded)
        /\ Total(story.headline) = k.priceUp + k.priceDown + Cardinality(Carded)
        /\ {"shrinks", "grows"} \cap Range(story.steps) = {} <=> Carded = {}
        /\ k.up + k.down = k.changed /\ Total(story.color) = k.changed
    BY <2>1, NumbersOfStory
  <2>4. \A p \in DOMAIN dots : (dots[p].sizeKind # None) = (p \in Carded)
    BY <2>1, DotOfProduct
  <2>5. /\ story.up \in OnAxis(S) => \A p \in OnAxis(S) : dots[p].value <= dots[story.up].value
        /\ story.down \in OnAxis(S) => \A p \in OnAxis(S) : dots[p].value >= dots[story.down].value
        /\ story.offScale \cap DOMAIN dots = {p \in DOMAIN dots : IsOffScale(dots[p].value)}
    BY <2>1, ExtremesOfAxis
  <2>6. FeedsAgree =>
          /\ k.up = Cardinality(Dotted("more")) /\ k.down = Cardinality(Dotted("less"))
          /\ \A p \in {story.up, story.down} \ {None} : p \in OnAxis(S)
          /\ {story.up, story.down} = {None} => \A p \in OnAxis(S) : dots[p].value = 0
    BY <2>1, DotsCounted DEF FeedsAgree, S
  <2>7. /\ Cardinality(Dotted("more") \cap Ids(S)) \in k.up - Cardinality(Ids(S) \ DOMAIN dots) .. k.up
        /\ Cardinality(Dotted("less") \cap Ids(S)) \in k.down - Cardinality(Ids(S) \ DOMAIN dots) .. k.down
    <3>1. /\ k.up = Cardinality({c \in LatestByProduct(S) : Direction(c) = "more"})
          /\ k.down = Cardinality({c \in LatestByProduct(S) : Direction(c) = "less"})
      BY <2>1 DEF Told, Story, Counts
    <3>2. QED BY <2>1, <3>1, KnownDots
  <2>8. Range(changes) = S
    BY <2>1 DEF S
  <2>9. story.swarm.form = "all_are_sizes" => story.swarm.n = k.changed
    <3>1. story.swarm = SwarmText(Counts(S)) /\ k = Counts(S) /\ IsFeed(S)
      BY <2>1 DEF Told, Story
    <3>2. QED BY <3>1, AllAreSizes
  <2> HIDE DEF k
  <2>10. QED
    BY <2>2, <2>3, <2>4, <2>5, <2>6, <2>7, <2>8, <2>9 DEF StoryTellsTheDots, k
<1>2. QED BY ArticleInitInv, ArticleNextInv, <1>1, PTL DEF Spec

---------------------------------------------------------------------------
(* Quotients                                                               *)

\* Rows and columns.
LEMMA CeilBounds ==
  ASSUME NEW n \in Nat, NEW d \in Nat \ {0}
  PROVE  /\ Ceil(n, d) \in Nat /\ n <= d * Ceil(n, d) /\ d * Ceil(n, d) < n + d
         /\ n > 0 => Ceil(n, d) > 0
<1> DEFINE m == n + d - 1
           q == m \div d
<1>1. m \in Nat
  OBVIOUS
<1>2. q \in Nat /\ q * d <= m /\ m < q * d + d
  BY <1>1, Quotient
<1>3. Ceil(n, d) = q
  BY DEF Ceil
<1> HIDE DEF q
<1>4. q * d = d * q /\ d * q \in Nat
  BY <1>2
<1>5. n <= d * q /\ d * q < n + d
  BY <1>2, <1>4
<1>6. n > 0 => q > 0
  <2>1. q = 0 => d * q = 0
    OBVIOUS
  <2>2. QED BY <1>2, <1>5, <2>1
<1>7. QED BY <1>2, <1>3, <1>5, <1>6

\* The quotient rounded up is the least that will do.
LEMMA CeilLeast ==
  ASSUME NEW n \in Nat, NEW d \in Nat \ {0}, NEW c \in Nat, n <= d * c
  PROVE  Ceil(n, d) <= c
<1>1. Ceil(n, d) \in Nat /\ d * Ceil(n, d) < n + d
  BY CeilBounds
<1>2. d * (c + 1) = d * c + d /\ d * c \in Nat /\ d * Ceil(n, d) \in Nat
  BY <1>1
<1>3. d * Ceil(n, d) < d * (c + 1)
  BY <1>1, <1>2
<1>4. Ceil(n, d) < c + 1
  BY <1>1, <1>3, FactorsCompare
<1>5. QED BY <1>1, <1>4

\* It grows with the dividend.
LEMMA CeilGrows ==
  ASSUME NEW m \in Nat, NEW n \in Nat, m <= n, NEW d \in Nat \ {0}
  PROVE  Ceil(m, d) <= Ceil(n, d)
<1>1. Ceil(n, d) \in Nat /\ n <= d * Ceil(n, d)
  BY CeilBounds
<1>2. m <= d * Ceil(n, d)
  BY <1>1
<1>3. QED BY <1>1, <1>2, CeilLeast

\* The column of the n-th of a block's dots is one of the first Ceil(n, d).
LEMMA ColumnOf ==
  ASSUME NEW n \in Nat \ {0}, NEW d \in Nat \ {0}, NEW c \in Nat
  PROVE  /\ (n - 1) \div d \in Nat
         /\ n <= d * c => (n - 1) \div d + 1 <= c
         /\ n > d * c => c <= (n - 1) \div d
<1> DEFINE m == n - 1
           q == m \div d
<1>1. m \in Nat
  OBVIOUS
<1>2. q \in Nat /\ q * d <= m /\ m < q * d + d
  BY <1>1, Quotient
<1>3. m + 1 = n
  OBVIOUS
<1> HIDE DEF q, m
<1>4. /\ q * d = d * q /\ d * q \in Nat /\ d * (q + 1) = d * q + d /\ d * c \in Nat
  BY <1>2
<1>5. n <= d * c => q + 1 <= c
  <2>1. SUFFICES ASSUME n <= d * c PROVE q < c
    BY <1>2
  <2>2. d * q < d * c
    BY <1>1, <1>2, <1>3, <1>4, <2>1
  <2>3. QED BY <1>2, <2>2, FactorsCompare
<1>6. n > d * c => c <= q
  <2>1. SUFFICES ASSUME n > d * c PROVE c < q + 1
    BY <1>2
  <2>2. d * c < d * (q + 1)
    BY <1>1, <1>2, <1>3, <1>4, <2>1
  <2>3. QED BY <1>2, <2>2, FactorsCompare
<1>7. QED BY <1>2, <1>5, <1>6 DEF q, m

---------------------------------------------------------------------------
(* Blocks                                                                  *)

\* Blocks to lay out, each with a dot at least.
AreBlocks(blocks) ==
  /\ Len(blocks) \in Nat \ {0} /\ DOMAIN blocks = 1..Len(blocks)
  /\ \A k \in 1..Len(blocks) : blocks[k].count \in Nat \ {0} /\ blocks[k].changes \in Nat

\* No block has more dots than the largest.
LEMMA LargestBounds ==
  ASSUME NEW blocks, AreBlocks(blocks)
  PROVE  /\ Largest(blocks) \in Nat \ {0}
         /\ \A k \in 1..Len(blocks) : blocks[k].count <= Largest(blocks)
<1> DEFINE n == Len(blocks)
           C == {b.count : b \in Range(blocks)}
           f == [k \in 1..n |-> blocks[k].count]
<1>1. n \in Nat /\ DOMAIN blocks = 1..n /\ \A k \in 1..n : blocks[k].count \in Nat \ {0}
  BY DEF AreBlocks
<1>2. C = {blocks[k].count : k \in 1..n}
  BY <1>1 DEF Range
<1>3. IsFiniteSet(C)
  <2>1. IsFiniteSet(1..n)
    BY <1>1, FS_Interval
  <2>2. f \in Surjection(1..n, C)
    <3>1. f \in [1..n -> C]
      BY <1>2
    <3>2. \A c \in C : \E k \in 1..n : f[k] = c
      BY <1>2
    <3> HIDE DEF f, C
    <3>3. QED BY <3>1, <3>2 DEF Surjection
  <2> HIDE DEF f, C
  <2>3. QED BY <2>1, <2>2, FS_Surjection
<1>4. IsFiniteSet({1} \cup C)
  BY <1>3, FS_Singleton, FS_Union
<1>5. {1} \cup C \subseteq Nat \ {0} /\ {1} \cup C # {}
  BY <1>1, <1>2
<1>6. Largest(blocks) = Max({1} \cup C)
  BY DEF Largest
<1> HIDE DEF C
<1>7. Max({1} \cup C) \in {1} \cup C /\ \A y \in {1} \cup C : Max({1} \cup C) >= y
  BY <1>4, <1>5, MaxOfFinite
<1>8. \A k \in 1..n : blocks[k].count \in {1} \cup C
  BY <1>2
<1>9. QED BY <1>5, <1>6, <1>7, <1>8

\* Where a laid out block ends.
RightEdge(g, b)  == DotX(g, b, b.count) + g.pitch \div 2
BottomEdge(g, b) == DotY(g, b, Min({b.count, g.rows})) + g.pitch \div 2

\* Two halves of the pitch are no more than it.
LEMMA HalfPitch ==
  ASSUME NEW pitch \in Nat
  PROVE  pitch \div 2 \in Nat /\ pitch \div 2 + pitch \div 2 <= pitch
  OBVIOUS

\* A block is no wider than its columns and no higher than its rows.
LEMMA BlockEdges ==
  ASSUME NEW g, g.rows \in Nat \ {0}, g.pitch \in Nat,
         NEW b, b.x \in Nat, b.y \in Nat, b.count \in Nat \ {0},
         NEW cols \in Nat, b.count <= g.rows * cols
  PROVE  /\ RightEdge(g, b) \in Nat /\ RightEdge(g, b) <= b.x + cols * g.pitch
         /\ BottomEdge(g, b) \in Nat /\ BottomEdge(g, b) <= b.y + g.rows * g.pitch
<1> DEFINE half == g.pitch \div 2
           q == (b.count - 1) \div g.rows
           i == Min({b.count, g.rows})
           s == (i - 1) % g.rows
<1>1. half \in Nat /\ half + half <= g.pitch
  BY HalfPitch
<1>2. q \in Nat /\ q + 1 <= cols
  BY ColumnOf
<1>3. i \in Nat \ {0} /\ i <= g.rows
  <2>1. IsFiniteSet({b.count} \cup {g.rows})
    BY FS_Singleton, FS_Union
  <2>2. {b.count} \cup {g.rows} = {b.count, g.rows}
    OBVIOUS
  <2>3. IsFiniteSet({b.count, g.rows})
    BY <2>1, <2>2
  <2>4. {b.count, g.rows} \subseteq Int /\ {b.count, g.rows} # {}
    OBVIOUS
  <2>5. i \in {b.count, g.rows} /\ \A y \in {b.count, g.rows} : i <= y
    BY <2>3, <2>4, MinOfFinite
  <2> HIDE DEF i
  <2>6. QED BY <2>5
<1> HIDE DEF i
<1>4. s \in Nat /\ s + 1 <= g.rows
  <2>1. i - 1 \in Nat /\ i - 1 < g.rows
    BY <1>3
  <2>2. s = i - 1
    BY <2>1, Quotient
  <2>3. QED BY <1>3, <2>2
<1>5. RightEdge(g, b) = b.x + q * g.pitch + half + half
  BY DEF RightEdge, DotX
<1>6. BottomEdge(g, b) = b.y + s * g.pitch + half + half
  BY DEF BottomEdge, DotY, i
<1> HIDE DEF half, q, s
<1> DEFINE p == g.pitch
<1>7. \A m \in Nat, n \in Nat : m + 1 <= n => m * p + p <= n * p /\ m * p \in Nat /\ n * p \in Nat
  <2>1. SUFFICES ASSUME NEW m \in Nat, NEW n \in Nat, m + 1 <= n
                 PROVE  m * p + p <= n * p /\ m * p \in Nat /\ n * p \in Nat
    OBVIOUS
  <2>2. p * (m + 1) <= p * n
    BY <2>1, ProductsGrow
  <2>3. p * (m + 1) = m * p + p /\ p * n = n * p
    OBVIOUS
  <2>4. QED BY <2>2, <2>3
<1>8. q * p + p <= cols * p /\ q * p \in Nat /\ cols * p \in Nat
  BY <1>2, <1>7
<1>9. s * p + p <= g.rows * p /\ s * p \in Nat /\ g.rows * p \in Nat
  BY <1>4, <1>7
<1>10. QED BY <1>1, <1>5, <1>6, <1>8, <1>9

---------------------------------------------------------------------------
(* The wide layout                                                         *)

\* A stage's size.
IsStage(size) ==
  size.width \in Nat /\ size.width >= 2000 /\ size.height \in Nat /\ size.narrow \in BOOLEAN

\* A pitch rounded down still fits.
LEMMA RoundedDown ==
  ASSUME NEW x \in Int, NEW y \in Nat \ {0}, NEW f \in Int, f <= x \div y
  PROVE  y * f <= x
<1> DEFINE q == x \div y
<1>1. q \in Int /\ q * y <= x
  OBVIOUS
<1>2. f <= q
  OBVIOUS
<1> HIDE DEF q
<1>3. y * f <= y * q /\ y * q = q * y /\ y * f \in Int /\ y * q \in Int
  BY <1>1, <1>2, ProductsGrow
<1>4. QED BY <1>1, <1>3

\* The pitch a number of rows allows: the dots of the largest block beside the labels, and all
\* the blocks below each other.
LEMMA FitFacts ==
  ASSUME NEW blocks, AreBlocks(blocks), NEW size, IsStage(size), NEW rows \in Nat \ {0}
  PROVE  /\ Fit(blocks, size, rows) \in Int
         /\ Ceil(Largest(blocks), rows) * Fit(blocks, size, rows) <= size.width - 1720
         /\ (rows * Len(blocks)) * Fit(blocks, size, rows) <= size.height - 60 - 120 * (Len(blocks) - 1)
<1> DEFINE n == Len(blocks)
           cols == Ceil(Largest(blocks), rows)
           wide == (size.width - 1720) \div cols
           room == size.height - 60 - 120 * (n - 1)
           high == room \div (rows * n)
           F == {120, wide, high}
<1>1. n \in Nat \ {0} /\ Largest(blocks) \in Nat \ {0}
  BY LargestBounds DEF AreBlocks
<1>2. cols \in Nat \ {0}
  <2>1. Largest(blocks) \in Nat /\ Largest(blocks) > 0
    BY <1>1
  <2>2. cols \in Nat /\ cols > 0
    BY <2>1, CeilBounds
  <2>3. QED BY <2>2
<1>3. rows * n \in Nat \ {0}
  <2>1. rows * 1 <= rows * n /\ rows * n \in Nat
    BY <1>1, ProductsGrow
  <2>2. QED BY <2>1
<1>4. size.width - 1720 \in Int /\ room \in Int
  BY <1>1 DEF IsStage
<1> HIDE DEF cols, room
<1>5. wide \in Int /\ high \in Int
  BY <1>2, <1>3, <1>4
<1>6. Fit(blocks, size, rows) = Min(F)
  BY DEF Fit, Px, LabelWidth, cols, room
<1> HIDE DEF wide, high
<1>7. F = {120} \cup ({wide} \cup {high})
  OBVIOUS
<1>8. IsFiniteSet({wide} \cup {high})
  BY FS_Singleton, FS_Union
<1>9. IsFiniteSet({120} \cup ({wide} \cup {high}))
  BY <1>8, FS_Singleton, FS_Union
<1>10. IsFiniteSet(F) /\ F \subseteq Int /\ F # {}
  BY <1>5, <1>7, <1>9
<1> HIDE DEF F
<1>11. Min(F) \in F /\ \A y \in F : Min(F) <= y
  BY <1>10, MinOfFinite
<1>12. Fit(blocks, size, rows) \in Int
  BY <1>6, <1>10, <1>11
<1>13. Fit(blocks, size, rows) <= wide /\ Fit(blocks, size, rows) <= high
  BY <1>6, <1>11 DEF F
<1>14. cols * Fit(blocks, size, rows) <= size.width - 1720
  BY <1>2, <1>4, <1>12, <1>13, RoundedDown DEF wide
<1>15. (rows * n) * Fit(blocks, size, rows) <= room
  BY <1>3, <1>4, <1>12, <1>13, RoundedDown DEF high
<1>16. QED BY <1>12, <1>14, <1>15 DEF room, cols

\* The wide layout has three to six rows, at the pitch that fits them.
LEMMA WideRowsFound ==
  ASSUME NEW blocks, AreBlocks(blocks), NEW size, IsStage(size)
  PROVE  /\ WideRows(blocks, size).rows \in 3..6 /\ WideRows(blocks, size).pitch \in Nat
         /\ WideRows(blocks, size).pitch # 0 =>
              WideRows(blocks, size).pitch = Fit(blocks, size, WideRows(blocks, size).rows)
<1> DEFINE F == [rows \in 3..6 |-> Fit(blocks, size, rows)]
           P == {0} \cup {F[rows] : rows \in 3..6}
           pitch == Max(P)
           S == {rows \in 3..6 : F[rows] = pitch}
           found == IF pitch = 0 THEN 4 ELSE Min(S)
<1>1. \A rows \in 3..6 : F[rows] = Fit(blocks, size, rows) /\ F[rows] \in Int
  <2>1. SUFFICES ASSUME NEW rows \in 3..6 PROVE F[rows] = Fit(blocks, size, rows) /\ F[rows] \in Int
    OBVIOUS
  <2>2. rows \in Nat \ {0}
    OBVIOUS
  <2>3. Fit(blocks, size, rows) \in Int
    BY <2>2, FitFacts
  <2>4. F[rows] = Fit(blocks, size, rows)
    OBVIOUS
  <2> HIDE DEF F
  <2>5. QED BY <2>3, <2>4
<1>2. P = {0} \cup {Fit(blocks, size, rows) : rows \in RowsTried}
  BY <1>1 DEF RowsTried
<1>3. S = {rows \in RowsTried : Fit(blocks, size, rows) = pitch}
  BY <1>1 DEF RowsTried
<1>4. WideRows(blocks, size) = [pitch |-> pitch, rows |-> found]
  <2> HIDE DEF F
  <2>1. QED BY <1>2, <1>3 DEF WideRows
<1>5. IsFiniteSet(3..6)
  <2>1. \A lo, hi \in Int : IsFiniteSet(lo..hi)
    BY FS_Interval
  <2>2. 3 \in Int /\ 6 \in Int
    OBVIOUS
  <2>3. QED BY <2>1, <2>2, Zenon
<1>6. IsFiniteSet(P)
  <2> HIDE DEF F
  <2>1. IsFiniteSet({F[rows] : rows \in 3..6})
    BY <1>5, ValuesFinite
  <2>2. QED BY <2>1, FS_Singleton, FS_Union
<1> HIDE DEF F
<1>7. P \subseteq Int /\ P # {}
  BY <1>1
<1>8. pitch \in P /\ pitch \in Nat
  <2>1. Max(P) \in P /\ \A y \in P : Max(P) >= y
    BY <1>6, <1>7, MaxOfFinite
  <2>2. QED BY <1>7, <2>1
<1> HIDE DEF pitch
<1>9. pitch # 0 => found \in 3..6 /\ F[found] = pitch
  <2>1. SUFFICES ASSUME pitch # 0 PROVE Min(S) \in S
    OBVIOUS
  <2>2. S # {} /\ S \subseteq 3..6 /\ S \subseteq Int
    BY <1>8, <2>1
  <2>3. IsFiniteSet(S)
    BY <1>5, <2>2, FS_Subset
  <2>4. QED BY <2>2, <2>3, MinOfFinite
<1>10. pitch = 0 => found \in 3..6
  OBVIOUS
<1> HIDE DEF found
<1>11. QED BY <1>1, <1>4, <1>8, <1>9, <1>10

\* Steps of p are p apart.
LEMMA StepsApart ==
  ASSUME NEW p \in Nat, NEW m \in Nat, NEW n \in Nat
  PROVE  /\ m * p \in Nat /\ n * p \in Nat
         /\ m + 1 <= n => m * p + p <= n * p
         /\ m <= n => m * p <= n * p
<1>1. p * (m + 1) = m * p + p /\ p * n = n * p /\ p * m = m * p
  OBVIOUS
<1>2. m * p \in Nat /\ n * p \in Nat
  OBVIOUS
<1>3. m + 1 <= n => p * (m + 1) <= p * n
  BY ProductsGrow
<1>4. m <= n => p * m <= p * n
  BY ProductsGrow
<1>5. QED BY <1>1, <1>2, <1>3, <1>4

\* grid.ts, wideLayout: what it makes of its blocks.
IsWide(g, blocks, size) ==
  /\ g.rows \in 3..6 /\ g.pitch \in Nat /\ g.pitch >= 30
  /\ g.fits => g.pitch = Fit(blocks, size, g.rows)
  /\ DOMAIN g.blocks = 1..Len(blocks)
  /\ \A k \in 1..Len(blocks) :
       /\ g.blocks[k].x = 1720 /\ g.blocks[k].y = 30 + (k - 1) * (g.rows * g.pitch + 120)
       /\ g.blocks[k].ids = blocks[k].ids /\ g.blocks[k].count = blocks[k].count
       /\ g.blocks[k].changeX = 1720 + Ceil(blocks[k].changes, g.rows) * g.pitch + 50

\* wideLayout stacks the blocks in rows of that pitch.
LEMMA WideShape ==
  ASSUME NEW blocks, AreBlocks(blocks), NEW size, IsStage(size)
  PROVE  IsWide(WideLayout(blocks, size), blocks, size)
<1> DEFINE g == WideLayout(blocks, size)
<1> DEFINE best  == WideRows(blocks, size)
           pitch == Max({Px(3), best.pitch})
           placed == [k \in DOMAIN blocks |->
              [x |-> LabelWidth, y |-> Px(3) + (k - 1) * (best.rows * pitch + Px(12)),
               ids |-> blocks[k].ids, count |-> blocks[k].count,
               changeX |-> LabelWidth + Ceil(blocks[k].changes, best.rows) * pitch + Px(5)]]
<1>1. best.rows \in 3..6 /\ best.pitch \in Nat
      /\ (best.pitch # 0 => best.pitch = Fit(blocks, size, best.rows))
  BY WideRowsFound
<1>2. Px(3) = 30 /\ Px(12) = 120 /\ LabelWidth = 1720 /\ Px(5) = 50
  BY DEF Px, LabelWidth
<1>3. g = [rows |-> best.rows, pitch |-> pitch, r |-> (pitch * 37) \div 100, fits |-> best.pitch >= Px(3),
           blocks |-> placed]
  BY DEF WideLayout
<1>4. pitch \in {30, best.pitch} /\ pitch >= 30 /\ pitch >= best.pitch
  <2> HIDE DEF best
  <2>1. IsFiniteSet({30} \cup {best.pitch})
    BY FS_Singleton, FS_Union
  <2>2. {30} \cup {best.pitch} = {30, best.pitch}
    OBVIOUS
  <2>3. IsFiniteSet({30, best.pitch})
    BY <2>1, <2>2
  <2>4. {30, best.pitch} \subseteq Int /\ {30, best.pitch} # {}
    BY <1>1
  <2>5. /\ Max({30, best.pitch}) \in {30, best.pitch}
        /\ \A y \in {30, best.pitch} : Max({30, best.pitch}) >= y
    BY <2>3, <2>4, MaxOfFinite
  <2>6. QED BY <1>2, <2>5
<1> HIDE DEF best, pitch
<1>5. DOMAIN blocks = 1..Len(blocks)
  BY DEF AreBlocks
<1>6. pitch \in Nat /\ (best.pitch >= 30 => pitch = best.pitch /\ best.pitch # 0)
  BY <1>1, <1>4
<1>7. /\ DOMAIN placed = 1..Len(blocks)
      /\ \A k \in 1..Len(blocks) :
           /\ placed[k].x = 1720 /\ placed[k].y = 30 + (k - 1) * (best.rows * pitch + 120)
           /\ placed[k].ids = blocks[k].ids /\ placed[k].count = blocks[k].count
           /\ placed[k].changeX = 1720 + Ceil(blocks[k].changes, best.rows) * pitch + 50
  BY <1>2, <1>5
<1> HIDE DEF placed
<1> HIDE DEF g
<1>8. g.rows = best.rows /\ g.pitch = pitch /\ g.blocks = placed
  BY <1>3
<1>9. g.fits => best.pitch >= 30
  BY <1>2, <1>3
<1>10. IsWide(g, blocks, size)
  BY <1>1, <1>4, <1>6, <1>7, <1>8, <1>9 DEF IsWide
<1>11. QED BY <1>10 DEF g

\* Its blocks keep clear of each other, and on the stage where they fit.
LEMMA WidePlaces ==
  ASSUME NEW blocks, AreBlocks(blocks), NEW size, IsStage(size),
         NEW g, IsWide(g, blocks, size)
  PROVE  /\ \A k, l \in 1..Len(blocks) :
              k < l => BottomEdge(g, g.blocks[k]) <= g.blocks[l].y
         /\ g.fits => \A k \in 1..Len(blocks) :
              RightEdge(g, g.blocks[k]) <= size.width /\ BottomEdge(g, g.blocks[k]) <= size.height
<1> DEFINE n == Len(blocks)
           tall == g.rows * g.pitch
           step == tall + 120
           cols == Ceil(Largest(blocks), g.rows)
<1>1. /\ g.rows \in 3..6 /\ g.pitch \in Nat /\ g.pitch >= 30
      /\ g.fits => g.pitch = Fit(blocks, size, g.rows)
      /\ \A k \in 1..n :
           /\ g.blocks[k].x = 1720 /\ g.blocks[k].y = 30 + (k - 1) * step
           /\ g.blocks[k].count = blocks[k].count
  BY DEF IsWide
<1>2. n \in Nat \ {0} /\ \A k \in 1..n : blocks[k].count \in Nat \ {0}
  BY DEF AreBlocks
<1>3. /\ Largest(blocks) \in Nat \ {0}
      /\ \A k \in 1..n : blocks[k].count <= Largest(blocks)
  BY LargestBounds
<1>4. g.rows \in Nat /\ g.rows > 0 /\ g.rows \in Nat \ {0} /\ tall \in Nat /\ step \in Nat
  <2>1. g.rows \in Nat /\ g.rows > 0
    BY <1>1
  <2>2. tall \in Nat
    BY <1>1, <2>1, StepsApart
  <2> HIDE DEF tall
  <2>3. QED BY <2>1, <2>2
<1>5. cols \in Nat /\ Largest(blocks) <= g.rows * cols /\ g.rows * cols \in Nat
  <2>1. cols \in Nat /\ Largest(blocks) <= g.rows * cols
    BY <1>3, <1>4, CeilBounds
  <2> HIDE DEF cols
  <2>2. QED BY <1>4, <2>1
<1> HIDE DEF step, cols
<1>6. ASSUME NEW k \in 1..n
      PROVE  /\ (k - 1) * step \in Nat
             /\ RightEdge(g, g.blocks[k]) \in Nat /\ RightEdge(g, g.blocks[k]) <= 1720 + cols * g.pitch
             /\ BottomEdge(g, g.blocks[k]) \in Nat
             /\ BottomEdge(g, g.blocks[k]) <= 30 + (k - 1) * step + tall
  <2> DEFINE b == g.blocks[k]
  <2>1. k - 1 \in Nat
    BY <1>2
  <2>2. (k - 1) * step \in Nat
    BY <1>4, <2>1, StepsApart
  <2>3. b.x \in Nat /\ b.y \in Nat /\ b.x = 1720 /\ b.y = 30 + (k - 1) * step
    BY <1>1, <2>2
  <2>4. b.count \in Nat \ {0} /\ b.count <= g.rows * cols
    BY <1>1, <1>2, <1>3, <1>5
  <2> HIDE DEF b
  <2>5. /\ RightEdge(g, b) \in Nat /\ RightEdge(g, b) <= b.x + cols * g.pitch
        /\ BottomEdge(g, b) \in Nat /\ BottomEdge(g, b) <= b.y + tall
    <3>1. /\ g.rows \in Nat \ {0} /\ g.pitch \in Nat /\ b.x \in Nat /\ b.y \in Nat
          /\ b.count \in Nat \ {0} /\ cols \in Nat /\ b.count <= g.rows * cols
      BY <1>1, <1>4, <1>5, <2>3, <2>4
    <3>2. QED BY <3>1, BlockEdges, Zenon
  <2>6. QED BY <2>2, <2>3, <2>5 DEF b
<1>7. ASSUME NEW k \in 1..n, NEW l \in 1..n, k < l
      PROVE  BottomEdge(g, g.blocks[k]) <= g.blocks[l].y
  <2>1. k - 1 \in Nat /\ l - 1 \in Nat /\ (k - 1) + 1 <= l - 1
    BY <1>2, <1>7
  <2>2. (k - 1) * step + step <= (l - 1) * step /\ (k - 1) * step \in Nat /\ (l - 1) * step \in Nat
    BY <1>4, <2>1, StepsApart
  <2>3. step = tall + 120
    BY DEF step
  <2>4. g.blocks[l].y = 30 + (l - 1) * step
    BY <1>1
  <2> HIDE DEF tall
  <2>5. QED BY <1>4, <1>6, <2>2, <2>3, <2>4
<1>8. ASSUME g.fits, NEW k \in 1..n
      PROVE  RightEdge(g, g.blocks[k]) <= size.width /\ BottomEdge(g, g.blocks[k]) <= size.height
  <2>0. g.pitch = Fit(blocks, size, g.rows)
    BY <1>1, <1>8
  <2>1. cols * Fit(blocks, size, g.rows) <= size.width - 1720
    <3>1. g.rows \in Nat \ {0}
      BY <1>4
    <3> DEFINE r == g.rows
    <3> HIDE DEF r
    <3>2. r \in Nat \ {0}
      BY <3>1 DEF r
    <3>3. Ceil(Largest(blocks), r) * Fit(blocks, size, r) <= size.width - 1720
      BY <3>2, FitFacts
    <3>4. QED BY <3>3 DEF r, cols
  <2>2. (g.rows * n) * Fit(blocks, size, g.rows) <= size.height - 60 - 120 * (n - 1)
    <3>1. g.rows \in Nat \ {0}
      BY <1>4
    <3> DEFINE r == g.rows
    <3> HIDE DEF r
    <3>2. r \in Nat \ {0}
      BY <3>1 DEF r
    <3>3. (r * n) * Fit(blocks, size, r) <= size.height - 60 - 120 * (n - 1)
      BY <3>2, FitFacts
    <3>4. QED BY <3>3 DEF r
  <2>3. (g.rows * n) * g.pitch = n * tall
    BY <1>1, <1>2, <1>4
  <2>4. (k - 1) * step + step <= n * step /\ n * step \in Nat
    BY <1>2, <1>4, StepsApart
  <2>5. n * step = n * tall + 120 * n
    BY <1>2, <1>4 DEF step
  <2>6. step = tall + 120
    BY DEF step
  <2>7. n * tall \in Nat /\ cols * g.pitch \in Nat
    BY <1>1, <1>2, <1>4, <1>5, StepsApart
  <2> HIDE DEF tall
  <2>8. size.width \in Nat /\ size.height \in Nat
    BY DEF IsStage
  <2>9. RightEdge(g, g.blocks[k]) <= size.width
    BY <1>6, <2>0, <2>1, <2>7, <2>8
  <2>10. BottomEdge(g, g.blocks[k]) <= size.height
    BY <1>2, <1>4, <1>6, <2>0, <2>2, <2>3, <2>4, <2>5, <2>6, <2>7, <2>8
  <2>11. QED BY <2>9, <2>10
<1>9. QED BY <1>7, <1>8

---------------------------------------------------------------------------
(* The narrow layout                                                       *)

\* The band of a block and its side.
LEMMA BandOf ==
  ASSUME NEW a \in {1, 2}, NEW m \in Nat
  PROVE  m \div a \in Nat /\ m % a \in 0..(a - 1)
<1>1. CASE a = 1
  BY <1>1
<1>2. CASE a = 2
  BY <1>2
<1>3. QED BY <1>1, <1>2

\* grid.ts, narrowLayout: what it makes of its blocks, with its number of columns.
IsNarrow(g, blocks, size, across, colW, cols) ==
  /\ across \in {1, 2} /\ colW = (size.width - 140 * (across - 1)) \div across
  /\ cols \in Nat /\ cols > 0 /\ g.rows = Ceil(Largest(blocks), cols) /\ g.pitch = colW \div cols
  /\ g.fits => Ceil(Len(blocks), across) * 190 * cols - 40 * cols
                  + Ceil(Len(blocks), across) * g.rows * colW <= (size.height - 20) * cols
  /\ DOMAIN g.blocks = 1..Len(blocks)
  /\ \A k \in 1..Len(blocks) :
       /\ g.blocks[k].x = ((k - 1) % across) * (colW + 140)
       /\ g.blocks[k].y = ((k - 1) \div across) * (g.rows * g.pitch + 190) + 150
       /\ g.blocks[k].ids = blocks[k].ids /\ g.blocks[k].count = blocks[k].count

\* narrowLayout puts the blocks in bands of one or two.
LEMMA NarrowShape ==
  ASSUME NEW blocks, AreBlocks(blocks), NEW size, IsStage(size)
  PROVE  \E across, colW, cols : IsNarrow(NarrowLayout(blocks, size), blocks, size, across, colW, cols)
<1> DEFINE g == NarrowLayout(blocks, size)
           across == IF Len(blocks) > 1 THEN 2 ELSE 1
           colW == (size.width - Px(14) * (across - 1)) \div across
           bands == Ceil(Len(blocks), across)
           Fits(c) == bands * Px(19) * c - Px(4) * c + bands * Ceil(Largest(blocks), c) * colW
                        <= (size.height - Px(2)) * c
           fitting == {c \in 8..399 : Fits(c)}
           cols == IF fitting = {} THEN 400 ELSE Min(fitting)
           rows == Ceil(Largest(blocks), cols)
           pitch == colW \div cols
           band == Px(15) + rows * pitch + Px(4)
           placed == [k \in DOMAIN blocks |->
             [x |-> ((k - 1) % across) * (colW + Px(14)),
              y |-> ((k - 1) \div across) * band + Px(15),
              ids |-> blocks[k].ids, count |-> blocks[k].count, changeX |-> 0]]
           small == Max({13, (pitch * 36) \div 100})
<1>1. g = [rows |-> rows, pitch |-> pitch, r |-> small, fits |-> fitting # {}, blocks |-> placed]
  BY DEF NarrowLayout
<1>2. across \in {1, 2}
  OBVIOUS
<1>3. Px(2) = 20 /\ Px(4) = 40 /\ Px(14) = 140 /\ Px(15) = 150 /\ Px(19) = 190
  BY DEF Px
<1>4. colW = (size.width - 140 * (across - 1)) \div across
  <2> HIDE DEF across
  <2>1. QED BY <1>3
<1> HIDE DEF across, colW, bands, g, small
<1>5. fitting # {} => cols \in 8..399 /\ Fits(cols)
  <2>1. fitting # {} => cols = Min(fitting)
    OBVIOUS
  <2> HIDE DEF cols
  <2>2. \A c \in fitting : c \in 8..399 /\ Fits(c)
    OBVIOUS
  <2> HIDE DEF Fits
  <2>3. fitting \subseteq 8..399 /\ fitting \subseteq Int
    OBVIOUS
  <2> HIDE DEF fitting
  <2>4. \A lo, hi \in Int : IsFiniteSet(lo..hi)
    BY FS_Interval
  <2>5. 8 \in Int /\ 399 \in Int
    OBVIOUS
  <2>6. IsFiniteSet(8..399)
    BY <2>4, <2>5, Zenon
  <2>7. IsFiniteSet(fitting)
    BY <2>3, <2>6, FS_Subset
  <2>8. fitting # {} => Min(fitting) \in fitting
    BY <2>3, <2>7, MinOfFinite
  <2>9. QED BY <2>1, <2>2, <2>8
<1> DEFINE fits == fitting # {}
<1>6. cols \in Nat /\ cols > 0
  <2>1. fitting = {} => cols = 400
    OBVIOUS
  <2> HIDE DEF cols, fitting
  <2>2. QED BY <1>5, <2>1
<1>7. fits => Fits(cols)
  BY <1>5
<1> HIDE DEF cols, fitting
<1>8. fits => bands * 190 * cols - 40 * cols + bands * rows * colW <= (size.height - 20) * cols
  BY <1>3, <1>7
<1>9. DOMAIN blocks = 1..Len(blocks)
  BY DEF AreBlocks
<1> HIDE DEF rows, pitch, fits
<1>10. /\ DOMAIN placed = 1..Len(blocks)
       /\ \A k \in 1..Len(blocks) :
            /\ placed[k].x = ((k - 1) % across) * (colW + 140)
            /\ placed[k].y = ((k - 1) \div across) * band + 150
            /\ placed[k].ids = blocks[k].ids /\ placed[k].count = blocks[k].count
  BY <1>3, <1>9
<1> HIDE DEF placed
<1>11. g.rows = rows /\ g.pitch = pitch /\ g.blocks = placed
  BY <1>1
<1>12. g.fits = fits
  BY <1>1 DEF fits
<1>13. rows \in Nat /\ pitch \in Nat
  <2>1. rows \in Nat
    BY <1>6, LargestBounds, CeilBounds DEF rows
  <2>2. size.width \in Nat /\ size.width >= 2000
    BY DEF IsStage
  <2>3. colW \in Nat
    BY <1>2, <1>4, <2>2
  <2>4. pitch \in Nat
    BY <1>6, <2>3, Quotient DEF pitch
  <2>5. QED BY <2>1, <2>4
<1>14. band = rows * pitch + 190
  <2>1. rows * pitch \in Nat
    BY <1>13, StepsApart
  <2>2. QED BY <1>3, <2>1
<1> HIDE DEF band
<1>15. IsNarrow(g, blocks, size, across, colW, cols)
  <2>1. g.rows = Ceil(Largest(blocks), cols) /\ g.pitch = colW \div cols
    BY <1>11 DEF rows, pitch
  <2>2. \A k \in 1..Len(blocks) :
          g.blocks[k].y = ((k - 1) \div across) * (g.rows * g.pitch + 190) + 150
    BY <1>10, <1>11, <1>14
  <2>3. g.fits => bands * 190 * cols - 40 * cols + bands * g.rows * colW <= (size.height - 20) * cols
    BY <1>8, <1>11, <1>12
  <2>4. QED BY <1>2, <1>4, <1>6, <1>10, <1>11, <2>1, <2>2, <2>3 DEF IsNarrow, bands
<1>16. QED BY <1>15 DEF g

\* Its blocks keep clear of each other, and on the stage where they fit.
LEMMA NarrowPlaces ==
  ASSUME NEW blocks, AreBlocks(blocks), NEW size, IsStage(size),
         NEW g, NEW across, NEW colW, NEW cols, IsNarrow(g, blocks, size, across, colW, cols)
  PROVE  /\ \A k, l \in 1..Len(blocks) :
              k < l => \/ RightEdge(g, g.blocks[k]) <= g.blocks[l].x
                       \/ BottomEdge(g, g.blocks[k]) <= g.blocks[l].y
         /\ g.fits => \A k \in 1..Len(blocks) :
              RightEdge(g, g.blocks[k]) <= size.width /\ BottomEdge(g, g.blocks[k]) <= size.height
<1> DEFINE n == Len(blocks)
           tall == g.rows * g.pitch
           band == tall + 190
           bands == Ceil(n, across)
           side(k) == (k - 1) % across
           row(k) == (k - 1) \div across
<1>1. /\ across \in {1, 2} /\ cols \in Nat /\ cols > 0
      /\ g.rows = Ceil(Largest(blocks), cols) /\ g.pitch = colW \div cols
      /\ \A k \in 1..n :
           /\ g.blocks[k].x = side(k) * (colW + 140) /\ g.blocks[k].y = row(k) * band + 150
           /\ g.blocks[k].count = blocks[k].count
  BY DEF IsNarrow
<1>2. n \in Nat /\ n > 0 /\ \A k \in 1..n : blocks[k].count \in Nat \ {0}
  BY DEF AreBlocks
<1>3. /\ Largest(blocks) \in Nat /\ Largest(blocks) > 0
      /\ \A k \in 1..n : blocks[k].count <= Largest(blocks)
  BY LargestBounds
<1>4. size.width \in Nat /\ size.width >= 2000 /\ size.height \in Nat
  BY DEF IsStage
<1>5. colW \in Nat /\ across * colW <= size.width - 140 * (across - 1)
  <2>1. colW = (size.width - 140 * (across - 1)) \div across
    BY DEF IsNarrow
  <2>2. CASE across = 1
    BY <1>4, <2>1, <2>2
  <2>3. CASE across = 2
    BY <1>4, <2>1, <2>3
  <2>4. QED BY <1>1, <2>2, <2>3
<1>6. cols \in Nat \ {0} /\ across \in Nat \ {0}
  BY <1>1
<1>7. g.rows \in Nat \ {0} /\ Largest(blocks) <= cols * g.rows
  <2> DEFINE rows == Ceil(Largest(blocks), cols)
  <2>1. rows \in Nat /\ Largest(blocks) <= cols * rows /\ rows > 0
    BY <1>6, <1>3, CeilBounds
  <2>2. g.rows = rows
    BY <1>1
  <2> HIDE DEF rows
  <2>3. QED BY <2>1, <2>2
<1>8. g.pitch \in Nat /\ cols * g.pitch <= colW
  <2>1. colW \div cols \in Nat /\ (colW \div cols) * cols <= colW
    BY <1>6, <1>5, Quotient
  <2>2. g.pitch \in Nat /\ g.pitch * cols <= colW
    BY <1>1, <2>1
  <2>3. g.pitch * cols = cols * g.pitch
    BY <1>1, <2>2
  <2>4. QED BY <2>2, <2>3
<1>9. tall \in Nat /\ cols * g.pitch \in Nat /\ cols * g.rows = g.rows * cols /\ g.rows * cols \in Nat
  <2>1. g.rows \in Nat
    BY <1>7
  <2>2. tall \in Nat
    BY <2>1, <1>8, StepsApart
  <2> HIDE DEF tall
  <2>3. QED BY <1>1, <1>8, <2>1, <2>2
<1>10. ASSUME NEW k \in 1..n
      PROVE  /\ side(k) \in 0..(across - 1) /\ row(k) \in Nat /\ row(k) * band \in Nat
             /\ side(k) * (colW + 140) \in Nat /\ band \in Nat
  <2>1. k - 1 \in Nat
    BY <1>2
  <2>2. side(k) \in 0..(across - 1) /\ row(k) \in Nat
    BY <1>1, <2>1, BandOf
  <2>3. band \in Nat /\ colW + 140 \in Nat /\ side(k) \in Nat
    <3>1. side(k) \in Nat
      BY <1>1, <2>2
    <3> HIDE DEF tall, side
    <3>2. QED BY <1>5, <1>9, <3>1
  <2> HIDE DEF band, side, row
  <2>4. QED BY <2>2, <2>3, StepsApart
<1>11. ASSUME NEW k \in 1..n
       PROVE  /\ RightEdge(g, g.blocks[k]) \in Nat
              /\ RightEdge(g, g.blocks[k]) <= side(k) * (colW + 140) + colW
              /\ BottomEdge(g, g.blocks[k]) \in Nat
              /\ BottomEdge(g, g.blocks[k]) <= row(k) * band + 150 + tall
  <2> DEFINE b == g.blocks[k]
  <2>1. b.x = side(k) * (colW + 140) /\ b.y = row(k) * band + 150
    BY <1>1
  <2>2. b.count \in Nat \ {0} /\ b.count <= Largest(blocks)
    BY <1>1, <1>2, <1>3
  <2> HIDE DEF b, side, row, band, tall
  <2>3. /\ g.rows \in Nat \ {0} /\ g.pitch \in Nat /\ b.x \in Nat /\ b.y \in Nat
        /\ b.count \in Nat \ {0} /\ cols \in Nat /\ b.count <= g.rows * cols
    <3>1. b.x \in Nat /\ b.y \in Nat
      BY <1>10, <2>1
    <3>2. b.count <= g.rows * cols
      BY <1>3, <1>7, <1>9, <2>2
    <3>3. QED BY <1>1, <1>7, <1>8, <2>2, <3>1, <3>2
  <2>4. /\ RightEdge(g, b) \in Nat /\ RightEdge(g, b) <= b.x + cols * g.pitch
        /\ BottomEdge(g, b) \in Nat /\ BottomEdge(g, b) <= b.y + tall
    BY <2>3, BlockEdges, Zenon DEF tall
  <2>5. RightEdge(g, b) <= b.x + colW
    BY <1>5, <1>8, <1>9, <2>3, <2>4
  <2>6. QED BY <2>1, <2>4, <2>5 DEF b
<1>12. ASSUME NEW k \in 1..n, NEW l \in 1..n, k < l
       PROVE  \/ RightEdge(g, g.blocks[k]) <= g.blocks[l].x
              \/ BottomEdge(g, g.blocks[k]) <= g.blocks[l].y
  <2>1. k - 1 \in Nat /\ l - 1 \in Nat /\ k - 1 < l - 1
    BY <1>2, <1>12
  <2>2. row(k) < row(l) \/ (across = 2 /\ row(k) = row(l) /\ side(k) = 0 /\ side(l) = 1)
    <3> DEFINE p == k - 1
               q == l - 1
    <3>1. p \in Nat /\ q \in Nat /\ p < q
      BY <2>1
    <3> HIDE DEF p, q
    <3>2. p \div across < q \div across
            \/ (across = 2 /\ p \div across = q \div across /\ p % across = 0 /\ q % across = 1)
      <4>1. CASE across = 1
        BY <3>1, <4>1
      <4>2. CASE across = 2
        BY <3>1, <4>2
      <4>3. QED BY <1>1, <4>1, <4>2
    <3>3. QED BY <3>2 DEF p, q
  <2>3. g.blocks[l].x = side(l) * (colW + 140) /\ g.blocks[l].y = row(l) * band + 150
    BY <1>1
  <2>4. band = tall + 190
    OBVIOUS
  <2> HIDE DEF side, row, tall, band
  <2>5. CASE row(k) < row(l)
    <3>1. row(k) \in Nat /\ row(l) \in Nat /\ band \in Nat
      BY <1>10
    <3>2. row(k) + 1 <= row(l)
      BY <2>5, <3>1
    <3>3. row(k) * band + band <= row(l) * band /\ row(k) * band \in Nat /\ row(l) * band \in Nat
      BY <3>1, <3>2, StepsApart
    <3>4. BottomEdge(g, g.blocks[k]) <= g.blocks[l].y
      BY <1>9, <1>11, <2>3, <2>4, <3>3
    <3>5. QED BY <3>4
  <2>6. CASE side(k) = 0 /\ side(l) = 1
    <3>1. RightEdge(g, g.blocks[k]) <= 0 * (colW + 140) + colW /\ RightEdge(g, g.blocks[k]) \in Nat
      BY <1>11, <2>6
    <3>2. g.blocks[l].x = 1 * (colW + 140)
      BY <2>3, <2>6
    <3>3. RightEdge(g, g.blocks[k]) <= g.blocks[l].x
      BY <1>5, <3>1, <3>2
    <3>4. QED BY <3>3
  <2>7. QED BY <2>2, <2>5, <2>6
<1>13. ASSUME g.fits, NEW k \in 1..n
       PROVE  RightEdge(g, g.blocks[k]) <= size.width
  <2>1. side(k) \in 0..(across - 1)
    BY <1>10
  <2>2. RightEdge(g, g.blocks[k]) <= side(k) * (colW + 140) + colW /\ RightEdge(g, g.blocks[k]) \in Nat
    BY <1>11
  <2> HIDE DEF side
  <2>3. CASE across = 1
    <3>1. side(k) = 0
      BY <2>1, <2>3
    <3>2. RightEdge(g, g.blocks[k]) <= 0 * (colW + 140) + colW
      BY <2>2, <3>1
    <3>3. QED BY <1>4, <1>5, <2>2, <2>3, <3>2
  <2>4. CASE across = 2
    <3>1. side(k) = 0 \/ side(k) = 1
      BY <2>1, <2>4
    <3>2. side(k) = 0 => RightEdge(g, g.blocks[k]) <= 0 * (colW + 140) + colW
      BY <2>2
    <3>3. side(k) = 1 => RightEdge(g, g.blocks[k]) <= 1 * (colW + 140) + colW
      BY <2>2
    <3>4. QED BY <1>4, <1>5, <2>2, <2>4, <3>1, <3>2, <3>3
  <2>5. QED BY <1>1, <2>3, <2>4
<1>14. ASSUME g.fits, NEW k \in 1..n
       PROVE  BottomEdge(g, g.blocks[k]) <= size.height
  <2>1. bands * 190 * cols - 40 * cols + bands * g.rows * colW <= (size.height - 20) * cols
    BY <1>14 DEF IsNarrow
  <2>2. bands \in Nat /\ n <= across * bands
    BY <1>6, <1>2, CeilBounds
  <2> HIDE DEF bands
  <2>3. k \in Nat \ {0} /\ across \in Nat \ {0} /\ k <= across * bands
    <3>1. across * bands \in Nat
      BY <1>1, <2>2
    <3>2. QED BY <1>1, <1>2, <2>2, <3>1
  <2>4. row(k) \in Nat /\ row(k) + 1 <= bands
    BY <2>2, <2>3, ColumnOf
  <2>5. row(k) * band + band <= bands * band /\ row(k) * band \in Nat /\ bands * band \in Nat
    <3>1. band \in Nat
      BY <1>10
    <3> HIDE DEF band, row
    <3>2. QED BY <2>2, <2>4, <3>1, StepsApart
  <2>6. bands * band - 40 <= size.height - 20
    <3> DEFINE high == bands * g.rows
    <3>1. high \in Nat
      BY <1>7, <2>2
    <3>2. high * (cols * g.pitch) <= high * colW
      BY <1>5, <1>8, <1>9, <3>1, ProductsGrow
    <3>3. high * (cols * g.pitch) = cols * (bands * tall)
      BY <1>1, <1>7, <1>8, <2>2
    <3>4. bands * g.rows * colW = high * colW
      OBVIOUS
    <3>5. cols * (bands * band - 40) = bands * 190 * cols - 40 * cols + cols * (bands * tall)
      <4>1. band = tall + 190
        OBVIOUS
      <4> HIDE DEF tall, band
      <4>2. bands * band = bands * tall + bands * 190
        BY <1>9, <2>2, <4>1
      <4>3. bands * tall \in Nat /\ bands * 190 \in Nat
        BY <1>9, <2>2
      <4>4. cols * (bands * band - 40) = cols * (bands * tall) + cols * (bands * 190) - cols * 40
        BY <1>1, <4>2, <4>3
      <4>5. cols * (bands * 190) = bands * 190 * cols
        BY <1>1, <2>2
      <4>6. QED BY <1>1, <4>3, <4>4, <4>5
    <3>6. (size.height - 20) * cols = cols * (size.height - 20)
      BY <1>1, <1>4
    <3>7. bands * band - 40 \in Int /\ size.height - 20 \in Int /\ cols \in Nat \ {0}
      <4> DEFINE edge == bands * band
      <4>1. edge \in Nat
        BY <2>5
      <4> HIDE DEF edge
      <4>2. edge - 40 \in Int
        BY <4>1
      <4>3. QED BY <1>6, <1>4, <4>2 DEF edge
    <3>8. cols * (bands * band - 40) <= cols * (size.height - 20)
      <4> DEFINE A == bands * 190 * cols - 40 * cols
                 B == high * colW
                 C == cols * (bands * tall)
                 D == cols * (size.height - 20)
      <4>1. A \in Int /\ B \in Int /\ C \in Int /\ D \in Int
        <5>1. bands * tall \in Nat
          BY <1>9, <2>2, StepsApart
        <5> HIDE DEF tall
        <5>2. C \in Int
          <6> DEFINE m == bands * tall
          <6>1. m \in Nat
            BY <5>1
          <6> HIDE DEF m
          <6>2. cols * m \in Int
            BY <1>1, <6>1
          <6>3. QED BY <6>2 DEF m
        <5>3. A \in Int /\ D \in Int
          BY <1>1, <1>4, <2>2
        <5> HIDE DEF high
        <5>4. B \in Int
          BY <1>5, <3>1
        <5>5. QED BY <5>2, <5>3, <5>4
      <4>2. C <= B
        BY <3>2, <3>3
      <4>3. A + B <= D
        BY <2>1, <3>4, <3>6
      <4>4. cols * (bands * band - 40) = A + C
        BY <3>5
      <4> HIDE DEF A, B, C, band, high
      <4>5. A + C <= D
        BY <4>1, <4>2, <4>3
      <4>6. QED BY <4>4, <4>5 DEF D
    <3> HIDE DEF band
    <3>9. QED BY <3>7, <3>8, FactorsCompare
  <2>7. BottomEdge(g, g.blocks[k]) <= row(k) * band + 150 + tall /\ BottomEdge(g, g.blocks[k]) \in Nat
    BY <1>11
  <2>8. band = tall + 190
    OBVIOUS
  <2> HIDE DEF row, tall, band
  <2>9. QED BY <1>4, <1>9, <2>5, <2>6, <2>7, <2>8
<1>15. QED BY <1>12, <1>13, <1>14

---------------------------------------------------------------------------
(* Either layout                                                           *)

IsLayout(g, blocks, size) ==
  /\ g.rows \in Nat /\ g.rows > 0 /\ g.pitch \in Nat
  /\ DOMAIN g.blocks = 1..Len(blocks)
  /\ \A k \in 1..Len(blocks) :
       g.blocks[k].ids = blocks[k].ids /\ g.blocks[k].count = blocks[k].count

(***************************************************************************)
(* grid.ts, layoutGrid: of two blocks one is past the other or below it,   *)
(* and where the dots have their size no block leaves the stage.           *)
(***************************************************************************)
LEMMA LayoutPlaces ==
  ASSUME NEW blocks, AreBlocks(blocks), NEW size, IsStage(size)
  PROVE  /\ IsLayout(LayoutGrid(blocks, size), blocks, size)
         /\ \A k, l \in 1..Len(blocks) :
              k < l =>
                \/ RightEdge(LayoutGrid(blocks, size), LayoutGrid(blocks, size).blocks[k])
                      <= LayoutGrid(blocks, size).blocks[l].x
                \/ BottomEdge(LayoutGrid(blocks, size), LayoutGrid(blocks, size).blocks[k])
                      <= LayoutGrid(blocks, size).blocks[l].y
         /\ LayoutGrid(blocks, size).fits => \A k \in 1..Len(blocks) :
              /\ RightEdge(LayoutGrid(blocks, size), LayoutGrid(blocks, size).blocks[k]) <= size.width
              /\ BottomEdge(LayoutGrid(blocks, size), LayoutGrid(blocks, size).blocks[k]) <= size.height
         /\ ~size.narrow => IsWide(LayoutGrid(blocks, size), blocks, size)
<1> DEFINE g == LayoutGrid(blocks, size)
<1>1. blocks # <<>>
  <2>1. Len(blocks) # 0
    BY DEF AreBlocks
  <2>2. QED BY <2>1
<1>2. size.narrow => g = NarrowLayout(blocks, size)
  BY <1>1 DEF LayoutGrid
<1>3. ~size.narrow => g = WideLayout(blocks, size)
  BY <1>1 DEF LayoutGrid
<1> HIDE DEF g
<1>4. ASSUME ~size.narrow
      PROVE  /\ IsLayout(g, blocks, size) /\ IsWide(g, blocks, size)
             /\ \A k, l \in 1..Len(blocks) : k < l => BottomEdge(g, g.blocks[k]) <= g.blocks[l].y
             /\ g.fits => \A k \in 1..Len(blocks) :
                  RightEdge(g, g.blocks[k]) <= size.width /\ BottomEdge(g, g.blocks[k]) <= size.height
  <2>1. IsWide(WideLayout(blocks, size), blocks, size)
    BY WideShape
  <2>2. IsWide(g, blocks, size)
    BY <1>3, <1>4, <2>1
  <2>3. IsLayout(g, blocks, size)
    BY <2>2 DEF IsWide, IsLayout
  <2>4. QED BY <2>2, <2>3, WidePlaces
<1>5. ASSUME size.narrow
      PROVE  /\ IsLayout(g, blocks, size)
             /\ \A k, l \in 1..Len(blocks) :
                  k < l => \/ RightEdge(g, g.blocks[k]) <= g.blocks[l].x
                           \/ BottomEdge(g, g.blocks[k]) <= g.blocks[l].y
             /\ g.fits => \A k \in 1..Len(blocks) :
                  RightEdge(g, g.blocks[k]) <= size.width /\ BottomEdge(g, g.blocks[k]) <= size.height
  <2>1. PICK across, colW, cols : IsNarrow(NarrowLayout(blocks, size), blocks, size, across, colW, cols)
    BY NarrowShape
  <2>2. IsNarrow(g, blocks, size, across, colW, cols)
    BY <1>2, <1>5, <2>1
  <2>3. g.rows \in Nat /\ g.rows > 0
    <3>1. cols \in Nat \ {0} /\ g.rows = Ceil(Largest(blocks), cols)
      BY <2>2 DEF IsNarrow
    <3>2. Largest(blocks) \in Nat /\ Largest(blocks) > 0
      BY LargestBounds
    <3> DEFINE rows == Ceil(Largest(blocks), cols)
    <3>3. rows \in Nat /\ rows > 0
      BY <3>1, <3>2, CeilBounds
    <3> HIDE DEF rows
    <3>4. g.rows = rows
      BY <3>1 DEF rows
    <3>5. QED BY <3>3, <3>4
  <2>4. g.pitch \in Nat
    <3>1. across \in {1, 2} /\ cols \in Nat \ {0} /\ g.pitch = colW \div cols
          /\ colW = (size.width - 140 * (across - 1)) \div across
      BY <2>2 DEF IsNarrow
    <3>2. size.width \in Nat /\ size.width >= 2000
      BY DEF IsStage
    <3>3. colW \in Nat
      <4>1. CASE across = 1
        BY <3>1, <3>2, <4>1
      <4>2. CASE across = 2
        BY <3>1, <3>2, <4>2
      <4>3. QED BY <3>1, <4>1, <4>2
    <3>4. colW \div cols \in Nat
      BY <3>1, <3>3, Quotient
    <3>5. QED BY <3>1, <3>4
  <2>5. IsLayout(g, blocks, size)
    BY <2>2, <2>3, <2>4 DEF IsNarrow, IsLayout
  <2>6. QED BY <2>2, <2>5, NarrowPlaces
<1>6. size.narrow \in BOOLEAN
  BY DEF IsStage
<1>7. QED BY <1>4, <1>5, <1>6 DEF g

---------------------------------------------------------------------------
(* The blocks' dots                                                        *)

DrawnIn(d, S) == {r \in S \X S : Drawn(d, r[1], r[2])}

\* The changed and the unchanged.
AreDots(d) ==
  /\ DOMAIN d \subseteq Int
  /\ \A p \in DOMAIN d : d[p].value \in Int /\ d[p].direction \in {"more", "less", None}

\* The order of drawing orders the dots of a block.
LEMMA DrawnOrders ==
  ASSUME NEW d, AreDots(d), NEW S \in SUBSET DOMAIN d
  PROVE  IsOrder(DrawnIn(d, S), S)
<1> DEFINE rank(p) == Rank(d[p])
           key(p) == IF rank(p) = 2 THEN 0 ELSE IF rank(p) = 0 THEN d[p].value ELSE 0 - d[p].value
           First(p, q) == \/ rank(p) < rank(q)
                          \/ rank(p) = rank(q) /\ (key(p) > key(q) \/ (key(p) = key(q) /\ p < q))
<1>1. \A p \in S : p \in Int /\ rank(p) \in {0, 1, 2} /\ d[p].value \in Int
  BY DEF AreDots, Rank
<1>2. \A p \in S : key(p) \in Int
  <2> HIDE DEF rank
  <2>1. QED BY <1>1
<1>3. \A p, q \in S : Drawn(d, p, q) <=> First(p, q)
  <2>1. SUFFICES ASSUME NEW p \in S, NEW q \in S PROVE Drawn(d, p, q) <=> First(p, q)
    OBVIOUS
  <2>2. /\ p \in Int /\ rank(p) \in {0, 1, 2} /\ d[p].value \in Int
        /\ q \in Int /\ rank(q) \in {0, 1, 2} /\ d[q].value \in Int
    BY <1>1
  <2> DEFINE move == IF rank(p) = 2 THEN 0
                     ELSE IF rank(p) = 0 THEN d[p].value - d[q].value ELSE d[q].value - d[p].value
  <2>3. Drawn(d, p, q) <=> \/ rank(p) < rank(q)
                           \/ rank(p) = rank(q) /\ (move > 0 \/ (move = 0 /\ p < q))
    BY DEF Drawn
  <2> HIDE DEF rank
  <2>4. rank(p) = rank(q) => (move > 0 <=> key(p) > key(q)) /\ (move = 0 <=> key(p) = key(q))
    BY <2>2
  <2> HIDE DEF move, key
  <2>5. QED BY <2>3, <2>4
<1>4. \A p, q \in S : <<p, q>> \in DrawnIn(d, S) <=> First(p, q)
  BY <1>3 DEF DrawnIn
<1> HIDE DEF rank, key
<1>5. /\ \A x \in S : ~First(x, x)
      /\ \A x, y \in S : x # y => First(x, y) \/ First(y, x)
  BY <1>1, <1>2
<1>6. \A x, y, z \in S : First(x, y) /\ First(y, z) => First(x, z)
  BY <1>1, <1>2
<1> HIDE DEF First
<1>7. QED BY <1>4, <1>5, <1>6 DEF IsOrder

\* Each of S once, none that changed after one that did not.
IsListed(ids, S, d) ==
  /\ Cardinality(S) \in Nat /\ DOMAIN ids = 1..Cardinality(S) /\ Range(ids) = S
  /\ \A i, j \in 1..Cardinality(S) : ids[i] = ids[j] => i = j
  /\ \A i, j \in 1..Cardinality(S) :
       i < j /\ d[ids[j]].direction # None => d[ids[i]].direction # None

(***************************************************************************)
(* gridCategories: a block has each of its dots once, none that changed    *)
(* after one that did not.                                                 *)
(***************************************************************************)
LEMMA BlockListed ==
  ASSUME NEW d, AreDots(d), NEW S \in SUBSET DOMAIN d, IsFiniteSet(S)
  PROVE  IsListed(InOrder(S, LAMBDA p, q : Drawn(d, p, q)), S, d)
<1> DEFINE n == Cardinality(S)
           R == DrawnIn(d, S)
           ids == InOrder(S, LAMBDA p, q : Drawn(d, p, q))
           Before(x) == {y \in S : Drawn(d, y, x)}
<1>1. IsOrder(R, S)
  BY DrawnOrders
<1>2. \A x \in S : Before(x) = Below(R, S, x)
  BY DEF Below, DrawnIn
<1>3. ids = [i \in 1..n |-> CHOOSE x \in S : Cardinality(Before(x)) = i - 1]
  BY DEF InOrder
<1>4. n \in Nat
  BY FS_CardinalityType
<1>5. \A x, y \in S : <<x, y>> \in R <=> Drawn(d, x, y)
  BY DEF DrawnIn
<1> HIDE DEF R, Before
<1>6. \A i \in 1..n : \E x \in S : Cardinality(Before(x)) = i - 1
  BY <1>1, <1>2, PlacesAreTaken DEF Place
<1> HIDE DEF ids
<1>7. \A i \in 1..n : ids[i] \in S /\ Cardinality(Before(ids[i])) = i - 1
  BY <1>3, <1>6
<1>8. \A i \in 1..n : ids[i] \in S /\ Place(R, S, ids[i]) = i - 1
  BY <1>2, <1>7 DEF Place
<1>9. ids \in [1..n -> S]
  BY <1>3, <1>7
<1>10. /\ Range(ids) = S
       /\ \A i, j \in 1..n : ids[i] = ids[j] => i = j
  <2>1. Range(ids) = S
    BY <1>1, <1>8, <1>9, AllListed
  <2>2. \A i, j \in 1..Cardinality(S) : ids[i] = ids[j] => i = j
    BY <1>1, <1>8, <1>9, AllListed
  <2>3. QED BY <2>1, <2>2
<1>11. ASSUME NEW i \in 1..n, NEW j \in 1..n, i < j, d[ids[j]].direction # None
       PROVE  d[ids[i]].direction # None
  <2>1. SUFFICES ASSUME d[ids[i]].direction = None PROVE FALSE
    OBVIOUS
  <2>2. ids[i] \in S /\ ids[j] \in S
    BY <1>8
  <2>3. None # "more" /\ None # "less"
    BY ArticleAssumption
  <2>4. Rank(d[ids[i]]) = 2 /\ Rank(d[ids[j]]) < 2
    <3>1. d[ids[j]].direction \in {"more", "less"}
      BY <1>11, <2>2 DEF AreDots
    <3>2. QED BY <2>1, <2>3, <3>1 DEF Rank
  <2>5. Drawn(d, ids[j], ids[i])
    BY <2>4 DEF Drawn
  <2>6. Place(R, S, ids[j]) < Place(R, S, ids[i])
    BY <1>1, <1>5, <2>2, <2>5, PlacesDiffer
  <2>7. QED BY <1>4, <1>8, <1>11, <2>6
<1>12. DOMAIN ids = 1..n
  BY <1>9
<1>13. IsListed(ids, S, d)
  BY <1>4, <1>10, <1>11, <1>12 DEF IsListed
<1>14. QED BY <1>13 DEF ids

---------------------------------------------------------------------------
(* The blocks                                                              *)

NamedIn(d, c) == {p \in DOMAIN d : Category[p] = c}
EventsIn(c) == {e \in Range(feed.changes) : Category[e.product] = c}

\* Any categories can be put in the order of their sizes.
LEMMA SizesSorted ==
  ASSUME NEW C, IsFiniteSet(C), NEW size \in [C -> Nat]
  PROVE  \E s \in SetToSeqs(C) : \A i, j \in DOMAIN s : i < j => size[s[i]] >= size[s[j]]
<1> DEFINE n == Cardinality(C)
<1>1. n \in Nat /\ ExistsBijection(1..n, C)
  BY FS_CardinalityType
<1>2. PICK f \in Bijection(1..n, C) : TRUE
  BY <1>1 DEF ExistsBijection
<1> DEFINE h == [c \in C |-> CHOOSE i \in 1..n : f[i] = c]
<1>3. \A c \in C : h[c] \in 1..n /\ f[h[c]] = c
  BY <1>2 DEF Bijection, Surjection
<1> HIDE DEF h
<1>4. /\ \A c \in C : h[c] \in Nat /\ size[c] \in Nat
      /\ \A c, e \in C : h[c] = h[e] => c = e
  BY <1>1, <1>3
<1> DEFINE First(c, e) == size[c] > size[e] \/ (size[c] = size[e] /\ h[c] < h[e])
           R == {r \in C \X C : First(r[1], r[2])}
<1>5. \A c, e \in C : <<c, e>> \in R <=> First(c, e)
  OBVIOUS
<1>6. /\ \A x \in C : ~First(x, x)
      /\ \A x, y \in C : x # y => First(x, y) \/ First(y, x)
      /\ \A x, y, z \in C : First(x, y) /\ First(y, z) => First(x, z)
  BY <1>4
<1>7. \A c, e \in C : First(c, e) => size[c] >= size[e]
  BY <1>4
<1> HIDE DEF First, R
<1>8. IsOrder(R, C)
  BY <1>5, <1>6 DEF IsOrder
<1> DEFINE s == [i \in 1..n |-> CHOOSE x \in C : Place(R, C, x) = i - 1]
<1>9. \A i \in 1..n : s[i] \in C /\ Place(R, C, s[i]) = i - 1
  <2>1. \A i \in 1..n : \E x \in C : Place(R, C, x) = i - 1
    BY <1>8, PlacesAreTaken
  <2>2. QED BY <2>1
<1>10. s \in [1..n -> C]
  BY <1>9
<1> HIDE DEF s
<1>11. \A i, j \in 1..Cardinality(C) : s[i] = s[j] => i = j
  BY <1>8, <1>9, <1>10, AllListed
<1>12. s \in SetToSeqs(C)
  BY <1>10, <1>11 DEF SetToSeqs
<1>13. ASSUME NEW i \in 1..n, NEW j \in 1..n, i < j
       PROVE  size[s[i]] >= size[s[j]]
  <2>1. s[i] \in C /\ s[j] \in C /\ Place(R, C, s[i]) = i - 1 /\ Place(R, C, s[j]) = j - 1
    BY <1>9
  <2>2. s[i] # s[j]
    BY <1>11, <1>13, <1>1
  <2>3. ~(<<s[j], s[i]>> \in R)
    <3>1. <<s[j], s[i]>> \in R => Place(R, C, s[j]) < Place(R, C, s[i])
      BY <1>8, <2>1, PlacesDiffer
    <3>2. QED BY <1>1, <1>13, <2>1, <3>1
  <2>4. First(s[i], s[j])
    BY <1>5, <1>8, <2>1, <2>2, <2>3 DEF IsOrder
  <2>5. QED BY <1>7, <2>1, <2>4
<1>14. QED BY <1>10, <1>12, <1>13

\* The blocks of some dots, each of the category at its place in the order.
IsBlocks(blocks, order, d) ==
  /\ Len(blocks) \in Nat /\ DOMAIN blocks = 1..Len(blocks)
  /\ blocks = <<>> \/ Len(blocks) > 0
  /\ \A k \in 1..Len(blocks) :
       /\ order[k] \in Categories
       /\ blocks[k].ids = InOrder(NamedIn(d, order[k]), LAMBDA p, q : Drawn(d, p, q))
       /\ blocks[k].count \in Nat \ {0} /\ blocks[k].count >= Cardinality(NamedIn(d, order[k]))
       /\ blocks[k].changes = ChangesCount(d, order[k])
  /\ \A k, l \in 1..Len(blocks) : order[k] = order[l] => k = l
  /\ \A c \in Categories : NamedIn(d, c) # {} => \E k \in 1..Len(blocks) : order[k] = c

\* Every category with a product has its block.
LEMMA CategoriesGetBlocks ==
  ASSUME feed \in Feeds, NEW d, IsFiniteSet(DOMAIN d)
  PROVE  \E order : IsBlocks(GridCategories(d), order, d)
<1> DEFINE size(c) == Cardinality(NamedIn(d, c)) + feed.quiet[c]
           C == {c \in Categories : size(c) > 0}
           sorted(s) == \A i, j \in DOMAIN s : i < j => size(s[i]) >= size(s[j])
           order == CHOOSE s \in SetToSeqs(C) : sorted(s)
           blocks == [k \in DOMAIN order |->
             [ids |-> InOrder(NamedIn(d, order[k]), LAMBDA p, q : Drawn(d, p, q)),
              count |-> size(order[k]), changes |-> ChangesCount(d, order[k])]]
<1>1. feed.quiet \in [Categories -> Nat] /\ IsFiniteSet(Categories)
  BY ArticleAssumption
<1>2. \A c \in Categories : IsFiniteSet(NamedIn(d, c)) /\ Cardinality(NamedIn(d, c)) \in Nat
  <2>1. \A c \in Categories : NamedIn(d, c) \subseteq DOMAIN d
    BY DEF NamedIn
  <2>2. QED BY <2>1, FS_Subset, FS_CardinalityType
<1>3. \A c \in Categories : size(c) \in Nat /\ size(c) >= Cardinality(NamedIn(d, c))
  BY <1>1, <1>2
<1> HIDE DEF size
<1>4. IsFiniteSet(C) /\ C \subseteq Categories
  BY <1>1, FS_Subset
<1>5. \E s \in SetToSeqs(C) : sorted(s)
  <2> DEFINE part == [c \in C |-> size(c)]
  <2>1. part \in [C -> Nat] /\ \A c \in C : part[c] = size(c)
    BY <1>3
  <2> HIDE DEF part, C
  <2>2. PICK s \in SetToSeqs(C) : \A i, j \in DOMAIN s : i < j => part[s[i]] >= part[s[j]]
    BY <1>4, <2>1, SizesSorted
  <2>3. \A i \in DOMAIN s : s[i] \in C
    BY DEF SetToSeqs
  <2>4. sorted(s)
    BY <2>1, <2>2, <2>3
  <2>5. QED BY <2>4
<1> DEFINE n == Cardinality(C)
<1>6. order \in SetToSeqs(C)
  <2> HIDE DEF C, sorted
  <2>1. QED BY <1>5
<1>7. n \in Nat
  BY <1>4, FS_CardinalityType
<1> HIDE DEF order, C
<1>8. order \in [1..n -> C] /\ \A k, l \in 1..n : order[k] = order[l] => k = l
  BY <1>6 DEF SetToSeqs
<1>9. \A c \in C : \E k \in 1..n : order[k] = c
  <2>1. order \in Injection(1..n, C)
    BY <1>8 DEF Injection, IsInjective
  <2>2. IsFiniteSet(1..n) /\ Cardinality(1..n) = n
    BY <1>7, FS_Interval
  <2>3. order \in Surjection(1..n, C)
    BY <1>4, <2>1, <2>2, FS_Injection
  <2>4. QED BY <2>3 DEF Surjection
<1>10. GridCategories(d) = blocks
  BY DEF GridCategories, NamedIn, order, C, size
<1>11. /\ DOMAIN blocks = 1..n
       /\ \A k \in 1..n :
            /\ blocks[k].ids = InOrder(NamedIn(d, order[k]), LAMBDA p, q : Drawn(d, p, q))
            /\ blocks[k].count = size(order[k]) /\ blocks[k].changes = ChangesCount(d, order[k])
  BY <1>8
<1>12. Len(blocks) = n
  BY <1>7, <1>8, ListType
<1>13. blocks = <<>> \/ n > 0
  <2>1. n = 0 => DOMAIN order = 1..0
    BY <1>8
  <2>2. DOMAIN order = 1..0 => blocks \in [1..0 -> {}]
    OBVIOUS
  <2> HIDE DEF blocks
  <2>3. blocks \in [1..0 -> {}] => blocks = <<>>
    OBVIOUS
  <2>4. QED BY <1>7, <2>1, <2>2, <2>3
<1> HIDE DEF blocks
<1>14. \A k \in 1..n : order[k] \in C
  BY <1>8
<1>15. \A c \in C : c \in Categories /\ size(c) \in Nat \ {0} /\ size(c) >= Cardinality(NamedIn(d, c))
  BY <1>3 DEF C
<1>16. ASSUME NEW c \in Categories, NamedIn(d, c) # {}
       PROVE  c \in C
  <2>1. Cardinality(NamedIn(d, c)) # 0
    BY <1>2, <1>16, FS_EmptySet
  <2>2. QED BY <1>2, <1>3, <2>1 DEF C
<1>17. IsBlocks(blocks, order, d)
  <2>1. \A k \in 1..n :
          /\ order[k] \in Categories
          /\ blocks[k].count \in Nat \ {0} /\ blocks[k].count >= Cardinality(NamedIn(d, order[k]))
    BY <1>11, <1>14, <1>15
  <2>2. \A c \in Categories : NamedIn(d, c) # {} => \E k \in 1..n : order[k] = c
    BY <1>9, <1>16
  <2>3. QED BY <1>7, <1>8, <1>11, <1>12, <1>13, <2>1, <2>2 DEF IsBlocks
<1>18. QED BY <1>10, <1>17

---------------------------------------------------------------------------
(* The changed dots of a block                                             *)

\* What is written past some columns of dots.
LEMMA WrittenPast ==
  ASSUME NEW g, g.rows \in Nat \ {0}, g.pitch \in Nat, NEW c \in Nat,
         NEW b, b.x = 1720, b.changeX = 1720 + c * g.pitch + 50,
         NEW j \in Nat \ {0}
  PROVE  /\ j <= g.rows * c => DotX(g, b, j) + g.pitch \div 2 < b.changeX
         /\ j > g.rows * c => b.changeX - 50 <= DotX(g, b, j) - g.pitch \div 2
<1> DEFINE half == g.pitch \div 2
           q == (j - 1) \div g.rows
           p == g.pitch
<1>1. half \in Nat /\ half + half <= p
  BY HalfPitch
<1>2. DotX(g, b, j) = 1720 + q * p + half
  BY DEF DotX
<1>3. b.changeX = 1720 + c * p + 50
  OBVIOUS
<1> HIDE DEF half
<1>4. /\ q \in Nat
      /\ j <= g.rows * c => q + 1 <= c
      /\ j > g.rows * c => c <= q
  BY ColumnOf
<1> HIDE DEF q
<1>5. /\ q * p \in Nat /\ c * p \in Nat
      /\ q + 1 <= c => q * p + p <= c * p
  BY <1>4, StepsApart
<1>6. c <= q => c * p <= q * p
  BY <1>4, StepsApart
<1>7. p \in Nat
  OBVIOUS
<1> HIDE DEF p
<1>8. j <= g.rows * c => DotX(g, b, j) + half < b.changeX
  BY <1>1, <1>2, <1>3, <1>4, <1>5, <1>7
<1>9. j > g.rows * c => b.changeX - 50 <= DotX(g, b, j) - half
  BY <1>1, <1>2, <1>3, <1>4, <1>5, <1>6
<1>10. QED BY <1>8, <1>9 DEF half

\* The graphic's dots are dots.
LEMMA DotTypes ==
  ASSUME NEW S, NEW field, Told(S, field)
  PROVE  AreDots(dots)
<1>1. DOMAIN dots = {p \in Products : field[p] # Gone}
  BY DotOfProduct
<1>2. DOMAIN dots \subseteq Int
  BY <1>1, ChangesAssumption
<1>3. ASSUME NEW p \in DOMAIN dots
      PROVE  dots[p].value \in Int /\ dots[p].direction \in {"more", "less", None}
  <2>1. CASE p \in Ids(S)
    <3>1. ChangeOf(S, p) \in Change
      BY <2>1, ChangeOfProduct, OneNewestChange DEF Told, IsFeed
    <3>2. dots[p].value = UnitChangePct(ChangeOf(S, p)) /\ dots[p].direction = Direction(ChangeOf(S, p))
      BY <2>1, DotOfProduct
    <3>3. QED BY <3>1, <3>2, ChangeTypes
  <2>2. CASE p \notin Ids(S)
    <3>1. dots[p].value = 0
      BY <2>2, DotOfProduct
    <3>2. ChangeOf(S, p) = None
      BY <2>2, ChangeOfProduct DEF Told
    <3> DEFINE way == KindDirection(field[p])
    <3>3. way \in {"more", "less", "flat"}
      BY DEF KindDirection
    <3>4. dots[p] = DotOf(S, story, field, p)
      BY DEF Told, DotsOf
    <3>5. DotOf(S, story, field, p).direction = IF way = "flat" THEN None ELSE way
      BY <3>2 DEF DotOf
    <3> HIDE DEF way
    <3>6. dots[p].direction \in {"more", "less", None}
      BY <3>3, <3>4, <3>5
    <3>7. QED BY <3>1, <3>6
  <2>3. QED BY <2>1, <2>2
<1>4. QED BY <1>2, <1>3 DEF AreDots

\* When the endpoints agree, a category's changed dots are the products of its changes.
LEMMA ColouredCounted ==
  ASSUME Told(Range(feed.changes), feed.field), FeedsAgree, NEW c \in Categories
  PROVE  /\ EventsIn(c) = {e \in Range(feed.changes) : e.product \in NamedIn(dots, c)}
         /\ Ids(EventsIn(c)) = {p \in NamedIn(dots, c) : dots[p].direction # None}
         /\ Cardinality(EventsIn(c)) \in Nat
         /\ Cardinality(Ids(EventsIn(c))) <= Cardinality(EventsIn(c))
<1> DEFINE S == Range(feed.changes)
           E == EventsIn(c)
<1>1. IsFeed(S) /\ {p \in Products : feed.field[p] \notin {None, Gone}} = Ids(S)
  BY DEF Told, FeedsAgree
<1>2. Told(S, feed.field) /\ E = {e \in S : Category[e.product] = c}
  BY DEF EventsIn
<1> HIDE DEF S, E
<1>3. DOMAIN dots = {p \in Products : feed.field[p] # Gone}
  <2> DEFINE field == feed.field
  <2> HIDE DEF field
  <2>1. Told(S, field)
    BY <1>2 DEF field
  <2>2. DOMAIN dots = {p \in Products : field[p] # Gone}
    BY <2>1, DotOfProduct
  <2>3. QED BY <2>2 DEF field
<1>4. Ids(S) \subseteq DOMAIN dots /\ \A p \in DOMAIN dots \ Ids(S) : feed.field[p] = None
  BY <1>1, <1>3
<1>5. \A e \in S : e.product \in Ids(S)
  BY DEF Ids
<1>6. E = {e \in S : e.product \in NamedIn(dots, c)}
  BY <1>2, <1>4, <1>5 DEF NamedIn
<1>7. \A p \in DOMAIN dots : dots[p].direction # None <=> p \in Ids(S)
  <2>1. ASSUME NEW p \in Ids(S) PROVE dots[p].direction # None
    <3>1. ChangeOf(S, p) \in Change
      BY <1>1, ChangeOfProduct, OneNewestChange DEF IsFeed
    <3>2. dots[p].direction = Direction(ChangeOf(S, p))
      BY <1>2, <1>4, DotOfProduct
    <3>3. None # "more" /\ None # "less"
      BY ArticleAssumption
    <3>4. QED BY <3>1, <3>2, <3>3, ChangeTypes
  <2>2. ASSUME NEW p \in DOMAIN dots, p \notin Ids(S) PROVE dots[p].direction = None
    BY <1>2, <1>4, <2>2, DotOfProduct
  <2>3. QED BY <2>1, <2>2
<1>8. Ids(E) = {p \in NamedIn(dots, c) : dots[p].direction # None}
  <2>1. Ids(E) = {p \in Ids(S) : Category[p] = c}
    BY <1>2 DEF Ids
  <2>2. QED BY <1>4, <1>7, <2>1 DEF NamedIn
<1>9. IsFiniteSet(E)
  BY <1>2, <1>1, FS_Subset DEF IsFeed
<1>10. Cardinality(E) \in Nat /\ Cardinality(Ids(E)) <= Cardinality(E)
  <2> DEFINE f == [e \in E |-> e.product]
  <2>1. f \in [E -> Ids(E)] /\ \A p \in Ids(E) : \E e \in E : f[e] = p
    BY DEF Ids
  <2> HIDE DEF f
  <2>2. f \in Surjection(E, Ids(E))
    BY <2>1 DEF Surjection
  <2>3. QED BY <1>9, <2>2, FS_Surjection, FS_CardinalityType
<1>11. QED BY <1>6, <1>8, <1>10 DEF E, S

---------------------------------------------------------------------------
(* The grid                                                                *)

\* The grid is of the stage and the dots one sees.
GridInv ==
  grid # None =>
    story # None /\ stage \in Stages /\ grid = LayoutGrid(GridCategories(dots), stage)

\* The blocks depend on the feed and the dots alone.
LEMMA SameBlocks ==
  ASSUME feed' = feed, dots' = dots
  PROVE  GridCategories(dots)' = GridCategories(dots)
  BY DEF GridCategories, ChangesCount, Drawn, Rank, InOrder

\* No grid is laid out at first.
LEMMA GridInitInv == Init => GridInv
  BY DEF Init, GridInv

\* Every step keeps the grid that of the dots and the stage.
LEMMA GridNextInv == ArticleInv /\ GridInv /\ [Next]_vars => GridInv'
<1> SUFFICES ASSUME ArticleInv, GridInv, [Next]_vars PROVE GridInv'
  OBVIOUS
<1>1. ASSUME feed' = feed, dots' = dots, story' = story, stage' = stage, grid' = grid
      PROVE  GridInv'
  <2>1. GridCategories(dots)' = GridCategories(dots)
    BY <1>1, SameBlocks
  <2>2. QED BY <1>1, <2>1 DEF GridInv
<1>2. CASE Render
  <2>1. feed' = feed /\ stage' = stage /\ grid' = grid
    BY <1>2 DEF Render
  <2>2. CASE grid = None
    BY <2>1, <2>2 DEF GridInv
  <2>3. CASE grid # None
    <3>1. /\ story = Story(Range(feed.changes))
          /\ dots = DotsOf(Range(feed.changes), story, feed.field, Gone)
      BY <2>3 DEF GridInv, ArticleInv
    <3>2. /\ story' = Story(Range(feed.changes))
          /\ dots' = DotsOf(Range(feed.changes), story', feed.field, Gone)
      BY <1>2 DEF Render
    <3>3. story' = story /\ dots' = dots
      BY <3>1, <3>2
    <3>4. QED BY <1>1, <2>1, <3>3
  <2>4. QED BY <2>2, <2>3
<1>3. CASE Resize
  <2>1. /\ feed' = feed /\ dots' = dots /\ story' = story /\ story # None
        /\ stage' \in Stages /\ grid' = LayoutGrid(GridCategories(dots), stage')
    BY <1>3 DEF Resize
  <2>2. GridCategories(dots)' = GridCategories(dots)
    BY <2>1, SameBlocks
  <2>3. QED BY <2>1, <2>2 DEF GridInv
<1>4. CASE AtTable
  BY <1>1, <1>4 DEF AtTable, pictureVars
<1>5. CASE UNCHANGED vars
  BY <1>1, <1>5 DEF vars, pictureVars
<1>6. QED BY <1>2, <1>3, <1>4, <1>5 DEF Next

\* The layout of some blocks.
IsGrid(g, blocks, size) ==
  /\ IsLayout(g, blocks, size)
  /\ \A k, l \in 1..Len(blocks) :
       k < l => \/ RightEdge(g, g.blocks[k]) <= g.blocks[l].x
                \/ BottomEdge(g, g.blocks[k]) <= g.blocks[l].y
  /\ g.fits => \A k \in 1..Len(blocks) :
       RightEdge(g, g.blocks[k]) <= size.width /\ BottomEdge(g, g.blocks[k]) <= size.height
  /\ ~size.narrow => \A k \in 1..Len(blocks) :
       /\ g.blocks[k].x = 1720
       /\ g.blocks[k].changeX = 1720 + Ceil(blocks[k].changes, g.rows) * g.pitch + 50

\* Either layout keeps its blocks apart.
LEMMA GridPlaces ==
  ASSUME NEW blocks, blocks = <<>> \/ AreBlocks(blocks), NEW size, IsStage(size)
  PROVE  IsGrid(LayoutGrid(blocks, size), blocks, size)
<1> DEFINE g == LayoutGrid(blocks, size)
<1>1. CASE blocks = <<>>
  <2>1. g = NoLayout /\ NoLayout.rows = 1 /\ NoLayout.pitch = 60 /\ NoLayout.blocks = <<>>
    BY <1>1 DEF LayoutGrid, NoLayout, Px
  <2> HIDE DEF g
  <2>2. g.rows = 1 /\ g.pitch = 60 /\ DOMAIN g.blocks = 1..0 /\ Len(blocks) = 0
    BY <1>1, <2>1
  <2>3. 1..Len(blocks) = {}
    BY <2>2
  <2>4. IsLayout(g, blocks, size)
    BY <2>2, <2>3 DEF IsLayout
  <2>5. IsGrid(g, blocks, size)
    BY <2>3, <2>4 DEF IsGrid
  <2>6. QED BY <2>5 DEF g
<1>2. CASE AreBlocks(blocks)
  <2>1. /\ IsLayout(g, blocks, size)
        /\ \A k, l \in 1..Len(blocks) :
             k < l => \/ RightEdge(g, g.blocks[k]) <= g.blocks[l].x
                      \/ BottomEdge(g, g.blocks[k]) <= g.blocks[l].y
        /\ g.fits => \A k \in 1..Len(blocks) :
             RightEdge(g, g.blocks[k]) <= size.width /\ BottomEdge(g, g.blocks[k]) <= size.height
        /\ ~size.narrow => IsWide(g, blocks, size)
    BY <1>2, LayoutPlaces
  <2> HIDE DEF g
  <2>2. IsGrid(g, blocks, size)
    BY <2>1 DEF IsGrid, IsWide
  <2>3. QED BY <2>2 DEF g
<1>3. QED BY <1>1, <1>2

\* The dots of the blocks: those of the stage, each once.
LEMMA DotsInBlocks ==
  ASSUME AreDots(dots), IsFiniteSet(DOMAIN dots), DOMAIN dots \subseteq Products,
         NEW order, NEW blocks, IsBlocks(blocks, order, dots)
  PROVE  /\ \A k \in 1..Len(blocks) : IsListed(blocks[k].ids, NamedIn(dots, order[k]), dots)
         /\ \A p \in DOMAIN dots : \E k \in 1..Len(blocks) : p \in Range(blocks[k].ids)
         /\ \A k \in 1..Len(blocks) : Range(blocks[k].ids) \subseteq DOMAIN dots
         /\ \A k, l \in 1..Len(blocks) :
              Range(blocks[k].ids) \cap Range(blocks[l].ids) # {} => k = l
<1>1. /\ \A k \in 1..Len(blocks) :
           /\ order[k] \in Categories
           /\ blocks[k].ids = InOrder(NamedIn(dots, order[k]), LAMBDA p, q : Drawn(dots, p, q))
      /\ \A k, l \in 1..Len(blocks) : order[k] = order[l] => k = l
      /\ \A c \in Categories : NamedIn(dots, c) # {} => \E k \in 1..Len(blocks) : order[k] = c
  BY DEF IsBlocks
<1>2. ASSUME NEW k \in 1..Len(blocks)
      PROVE  IsListed(blocks[k].ids, NamedIn(dots, order[k]), dots)
  <2>1. NamedIn(dots, order[k]) \in SUBSET DOMAIN dots
    BY DEF NamedIn
  <2>2. IsFiniteSet(NamedIn(dots, order[k]))
    BY <2>1, FS_Subset
  <2>3. IsListed(InOrder(NamedIn(dots, order[k]), LAMBDA p, q : Drawn(dots, p, q)),
                 NamedIn(dots, order[k]), dots)
    BY <2>1, <2>2, BlockListed
  <2>4. QED BY <1>1, <2>3
<1>3. \A k \in 1..Len(blocks) : Range(blocks[k].ids) = NamedIn(dots, order[k])
  BY <1>2 DEF IsListed
<1>4. ASSUME NEW p \in DOMAIN dots
      PROVE  \E k \in 1..Len(blocks) : p \in Range(blocks[k].ids)
  <2>1. Category[p] \in Categories
    BY ChangesAssumption
  <2>2. p \in NamedIn(dots, Category[p])
    BY DEF NamedIn
  <2>3. PICK k \in 1..Len(blocks) : order[k] = Category[p]
    BY <1>1, <2>1, <2>2
  <2>4. QED BY <1>3, <2>2, <2>3
<1>5. \A k \in 1..Len(blocks) : Range(blocks[k].ids) \subseteq DOMAIN dots
  BY <1>3 DEF NamedIn
<1>6. ASSUME NEW k \in 1..Len(blocks), NEW l \in 1..Len(blocks),
             NEW p \in Range(blocks[k].ids) \cap Range(blocks[l].ids)
      PROVE  k = l
  <2>1. Category[p] = order[k] /\ Category[p] = order[l]
    BY <1>3 DEF NamedIn
  <2>2. QED BY <1>1, <2>1
<1>7. QED BY <1>2, <1>4, <1>5, <1>6

\* The box of a block, and its changed dots.
BoxOf(b) == [x0 |-> b.x, x1 |-> RightEdge(grid, b), top |-> b.y, bottom |-> BottomEdge(grid, b)]
ColouredIn(b) == {j \in DOMAIN b.ids : dots[b.ids[j]].direction # None}
EventsOf(b) == {c \in Range(feed.changes) : c.product \in Range(b.ids)}

\* A block of the grid, with the category it is of.
IsBlock(b, c, count) ==
  /\ c \in Categories /\ IsListed(b.ids, NamedIn(dots, c), dots)
  /\ grid.rows \in Nat /\ grid.rows > 0 /\ grid.pitch \in Nat
  /\ count = ChangesCount(dots, c)

\* The coloured dots of a block are its first.
LEMMA ColouredFirst ==
  ASSUME NEW b, NEW c, NEW count, IsBlock(b, c, count)
  PROVE  /\ IsFiniteSet(ColouredIn(b)) /\ Cardinality(ColouredIn(b)) \in Nat
         /\ ColouredIn(b) = 1..Cardinality(ColouredIn(b)) /\ ColouredIn(b) \subseteq Nat \ {0}
         /\ DOMAIN b.ids \subseteq Nat \ {0}
<1> DEFINE n == Cardinality(NamedIn(dots, c))
           J == ColouredIn(b)
<1>1. n \in Nat /\ DOMAIN b.ids = 1..n
  BY DEF IsBlock, IsListed
<1>2. \A i, j \in 1..n :
        i < j /\ dots[b.ids[j]].direction # None => dots[b.ids[i]].direction # None
  BY DEF IsBlock, IsListed
<1>3. J \subseteq 1..n /\ \A i, j \in 1..n : i < j /\ j \in J => i \in J
  BY <1>1, <1>2 DEF ColouredIn
<1> HIDE DEF n, J
<1>4. IsFiniteSet(J) /\ Cardinality(J) \in Nat /\ J = 1..Cardinality(J)
  BY <1>1, <1>3, FirstOnes
<1>5. QED BY <1>1, <1>3, <1>4 DEF J

\* As many changed dots as products with changes, and as a category that is not listed counts.
LEMMA ColouredProducts ==
  ASSUME Told(Range(feed.changes), feed.field),
         NEW b, NEW c, NEW count, IsBlock(b, c, count), CountAgrees(c)
  PROVE  /\ count \in Nat /\ Cardinality(ColouredIn(b)) <= count
         /\ feed.categories[c] = None \/ Cardinality(EventsOf(b)) = Cardinality(Ids(EventsOf(b)))
              => count = Cardinality(ColouredIn(b))
<1> DEFINE J == ColouredIn(b)
           T == {p \in NamedIn(dots, c) : dots[p].direction # None}
           f == [j \in J |-> b.ids[j]]
<1>1. c \in Categories /\ IsListed(b.ids, NamedIn(dots, c), dots) /\ count = ChangesCount(dots, c)
  BY DEF IsBlock
<1>2. feed.categories[c] = None => count = Cardinality(T)
  <2>1. T = {p \in DOMAIN dots : Category[p] = c /\ dots[p].direction # None}
    BY DEF NamedIn
  <2> HIDE DEF T
  <2>2. QED BY <1>1, <2>1 DEF ChangesCount
<1>3. /\ Range(b.ids) = NamedIn(dots, c)
      /\ \A i, j \in DOMAIN b.ids : b.ids[i] = b.ids[j] => i = j
  BY <1>1 DEF IsListed
<1>4. feed.categories[c] # None =>
        /\ EventsOf(b) = EventsIn(c) /\ Ids(EventsIn(c)) = T
        /\ count = Cardinality(EventsIn(c)) /\ count \in Nat /\ Cardinality(T) <= count
  <2>1. ASSUME feed.categories[c] # None
        PROVE  FeedsAgree /\ count = Cardinality(EventsIn(c))
    BY <1>1, <2>1 DEF CountAgrees, ChangesCount, EventsIn
  <2>2. FeedsAgree =>
          /\ EventsIn(c) = {e \in Range(feed.changes) : e.product \in NamedIn(dots, c)}
          /\ Ids(EventsIn(c)) = T
          /\ Cardinality(EventsIn(c)) \in Nat
          /\ Cardinality(Ids(EventsIn(c))) <= Cardinality(EventsIn(c))
    BY <1>1, ColouredCounted
  <2> HIDE DEF T
  <2>3. QED BY <1>3, <2>1, <2>2 DEF EventsOf
<1>5. IsFiniteSet(J) /\ Cardinality(J) \in Nat
  BY ColouredFirst
<1>6. J \subseteq DOMAIN b.ids /\ \A j \in DOMAIN b.ids : j \in J <=> dots[b.ids[j]].direction # None
  BY DEF ColouredIn
<1>7. \A j \in DOMAIN b.ids : b.ids[j] \in NamedIn(dots, c)
  BY <1>3 DEF Range
<1>8. \A p \in NamedIn(dots, c) : \E j \in DOMAIN b.ids : b.ids[j] = p
  BY <1>3 DEF Range
<1>9. /\ f \in [J -> T] /\ DOMAIN f = J
      /\ \A i, j \in J : f[i] = f[j] => i = j
      /\ \A p \in T : \E j \in J : f[j] = p
  <2> HIDE DEF J
  <2>1. \A j \in J : f[j] = b.ids[j] /\ f[j] \in T
    BY <1>6, <1>7
  <2>2. f \in [J -> T] /\ DOMAIN f = J
    BY <2>1
  <2>3. \A p \in T : \E j \in J : f[j] = p
    BY <1>6, <1>8
  <2> HIDE DEF f
  <2>4. QED BY <1>3, <1>6, <2>1, <2>2, <2>3
<1> HIDE DEF J, T, f
<1>10. f \in Bijection(J, T)
  BY <1>9 DEF Bijection, Injection, Surjection, IsInjective
<1>11. ExistsBijection(J, T)
  BY <1>10 DEF ExistsBijection
<1>12. Cardinality(T) = Cardinality(J)
  BY <1>5, <1>11, FS_Bijection
<1>13. QED BY <1>2, <1>4, <1>5, <1>12 DEF J

\* Where the count beside a block is written.
IsWritten(b, count) ==
  b.x = 1720 /\ b.changeX = 1720 + Ceil(count, grid.rows) * grid.pitch + 50

\* grid.ts:19: the count of changes is past the changed dots, and just past them.
LEMMA CountPlaced ==
  ASSUME Told(Range(feed.changes), feed.field),
         NEW b, NEW c, NEW count, IsBlock(b, c, count), IsWritten(b, count), CountAgrees(c)
  PROVE  /\ \A j \in ColouredIn(b) : DotX(grid, b, j) + grid.pitch \div 2 < b.changeX
         /\ feed.categories[c] = None \/ Cardinality(EventsOf(b)) = Cardinality(Ids(EventsOf(b))) =>
              \A j \in DOMAIN b.ids \ ColouredIn(b) :
                j > grid.rows * Ceil(Cardinality(ColouredIn(b)), grid.rows)
                  => b.changeX - 50 <= DotX(grid, b, j) - grid.pitch \div 2
<1> DEFINE m == Cardinality(ColouredIn(b))
           rows == grid.rows
           past == Ceil(count, rows)
           exact == feed.categories[c] = None \/ Cardinality(EventsOf(b)) = Cardinality(Ids(EventsOf(b)))
<1>1. count \in Nat /\ m \in Nat /\ m <= count /\ (exact => m = count)
  BY ColouredProducts, ColouredFirst
<1>2. ColouredIn(b) = 1..m /\ DOMAIN b.ids \subseteq Nat \ {0}
  BY ColouredFirst
<1>3. rows \in Nat \ {0} /\ grid.pitch \in Nat
  BY DEF IsBlock
<1>4. past \in Nat /\ count <= rows * past
  <2> HIDE DEF rows
  <2>1. QED BY <1>1, <1>3, CeilBounds
<1>5. b.x = 1720 /\ b.changeX = 1720 + past * grid.pitch + 50
  BY DEF IsWritten
<1> HIDE DEF past, m, exact
<1>6. ASSUME NEW j \in Nat \ {0}
      PROVE  /\ j <= rows * past => DotX(grid, b, j) + grid.pitch \div 2 < b.changeX
             /\ j > rows * past => b.changeX - 50 <= DotX(grid, b, j) - grid.pitch \div 2
  BY <1>3, <1>4, <1>5, WrittenPast
<1>7. ASSUME NEW j \in ColouredIn(b)
      PROVE  DotX(grid, b, j) + grid.pitch \div 2 < b.changeX
  <2>1. j \in Nat \ {0} /\ j <= m
    BY <1>1, <1>2
  <2>2. rows * past \in Nat
    BY <1>3, <1>4
  <2>3. j <= rows * past
    BY <1>1, <1>4, <2>1, <2>2
  <2>4. QED BY <1>6, <2>1, <2>3
<1>8. ASSUME exact, NEW j \in DOMAIN b.ids \ ColouredIn(b), j > rows * Ceil(m, rows)
      PROVE  b.changeX - 50 <= DotX(grid, b, j) - grid.pitch \div 2
  <2>1. m = count
    BY <1>1, <1>8
  <2>2. j > rows * past /\ j \in Nat \ {0}
    BY <1>2, <1>8, <2>1 DEF past
  <2>3. QED BY <1>6, <2>2
<1>9. QED BY <1>7, <1>8 DEF m, exact

\* The grid of a field told by the story tells it.
LEMMA GridOfField ==
  ASSUME feed \in Feeds, Told(Range(feed.changes), feed.field), IsStage(stage),
         NEW blocks, NEW order, IsBlocks(blocks, order, dots), IsGrid(grid, blocks, stage)
  PROVE  GridTellsTheField
<1> DEFINE n == Len(blocks)
           B(k) == grid.blocks[k]
<1>1. AreDots(dots) /\ IsFiniteSet(DOMAIN dots) /\ DOMAIN dots \subseteq Products
  <2>1. DOMAIN dots \subseteq Products
    BY DotOfProduct
  <2>2. QED BY <2>1, DotTypes, ArticleAssumption, FS_Subset
<1>2. /\ DOMAIN grid.blocks = 1..n
      /\ \A k \in 1..n : B(k).ids = blocks[k].ids /\ B(k).count = blocks[k].count
      /\ grid.rows \in Nat /\ grid.rows > 0 /\ grid.pitch \in Nat
  BY DEF IsGrid, IsLayout
<1>3. n \in Nat
  BY DEF IsBlocks
<1>4. /\ \A k \in 1..n : IsListed(B(k).ids, NamedIn(dots, order[k]), dots)
      /\ \A p \in DOMAIN dots : \E k \in 1..n : p \in Range(B(k).ids)
      /\ \A k \in 1..n : Range(B(k).ids) \subseteq DOMAIN dots
      /\ \A k, l \in 1..n : Range(B(k).ids) \cap Range(B(l).ids) # {} => k = l
  <2>1. \A k \in 1..n : IsListed(blocks[k].ids, NamedIn(dots, order[k]), dots)
    BY <1>1, DotsInBlocks
  <2>2. \A p \in DOMAIN dots : \E k \in 1..n : p \in Range(blocks[k].ids)
    BY <1>1, DotsInBlocks
  <2>3. \A k \in 1..n : Range(blocks[k].ids) \subseteq DOMAIN dots
    BY <1>1, DotsInBlocks
  <2>4. \A k, l \in 1..n : Range(blocks[k].ids) \cap Range(blocks[l].ids) # {} => k = l
    BY <1>1, DotsInBlocks
  <2>5. \A k \in 1..n : B(k).ids = blocks[k].ids
    BY <1>2
  <2> HIDE DEF B, n
  <2>6. QED BY <2>1, <2>2, <2>3, <2>4, <2>5
<1>5. Range(grid.blocks) = {B(k) : k \in 1..n}
  BY <1>2 DEF Range
<1>6. \A k \in 1..n : IsBlock(B(k), order[k], blocks[k].changes)
  <2>1. \A k \in 1..n : order[k] \in Categories /\ blocks[k].changes = ChangesCount(dots, order[k])
    BY DEF IsBlocks
  <2>2. QED BY <1>2, <1>4, <2>1 DEF IsBlock
<1>7. UNION {Range(b.ids) : b \in Range(grid.blocks)} = DOMAIN dots
  <2>1. {Range(b.ids) : b \in Range(grid.blocks)} = {Range(B(k).ids) : k \in 1..n}
    BY <1>5
  <2>2. UNION {Range(B(k).ids) : k \in 1..n} = DOMAIN dots
    <3> HIDE DEF B, n
    <3>1. \A x \in UNION {Range(B(k).ids) : k \in 1..n} : x \in DOMAIN dots
      BY <1>4
    <3>2. \A x \in DOMAIN dots : x \in UNION {Range(B(k).ids) : k \in 1..n}
      BY <1>4
    <3>3. QED BY <3>1, <3>2
  <2>3. QED BY <2>1, <2>2
<1>8. ASSUME NEW k \in 1..n, NEW l \in 1..n,
             NEW i \in DOMAIN B(k).ids, NEW j \in DOMAIN B(l).ids, B(k).ids[i] = B(l).ids[j]
      PROVE  k = l /\ i = j
  <2>1. B(k).ids[i] \in Range(B(k).ids) /\ B(l).ids[j] \in Range(B(l).ids)
    BY DEF Range
  <2>2. k = l
    BY <1>4, <1>8, <2>1
  <2>3. \A x, y \in DOMAIN B(k).ids : B(k).ids[x] = B(k).ids[y] => x = y
    <3>1. IsListed(B(k).ids, NamedIn(dots, order[k]), dots)
      BY <1>4
    <3> HIDE DEF B
    <3>2. QED BY <3>1 DEF IsListed
  <2>4. QED BY <1>8, <2>2, <2>3
<1>9. ASSUME NEW k \in 1..n, NEW l \in 1..n, k < l
      PROVE  Clear(BoxOf(B(k)), BoxOf(B(l))) /\ Clear(BoxOf(B(l)), BoxOf(B(k)))
  <2>1. RightEdge(grid, B(k)) <= B(l).x \/ BottomEdge(grid, B(k)) <= B(l).y
    BY <1>9 DEF IsGrid
  <2>2. QED BY <2>1 DEF Clear, BoxOf
<1>10. ASSUME NEW b \in Range(grid.blocks), NEW c \in Range(grid.blocks), b # c
       PROVE  Clear(BoxOf(b), BoxOf(c))
  <2>1. PICK k \in 1..n, l \in 1..n : b = B(k) /\ c = B(l)
    BY <1>5
  <2>2. k # l
    BY <1>10, <2>1
  <2>3. k < l \/ l < k
    BY <1>3, <2>2
  <2>4. QED BY <1>9, <2>1, <2>3
<1>11. ASSUME NEW b \in Range(grid.blocks)
       PROVE  /\ ColouredIn(b) = 1..Cardinality(ColouredIn(b))
              /\ grid.fits => RightEdge(grid, b) <= stage.width /\ BottomEdge(grid, b) <= stage.height
              /\ ~stage.narrow =>
                   /\ \A j \in ColouredIn(b) :
                        CountAgrees(Category[b.ids[j]])
                          => DotX(grid, b, j) + grid.pitch \div 2 < b.changeX
                   /\ \A j \in DOMAIN b.ids \ ColouredIn(b) :
                        /\ CountAgrees(Category[b.ids[j]])
                        /\ \/ feed.categories[Category[b.ids[j]]] = None
                           \/ Cardinality(EventsOf(b)) = Cardinality(Ids(EventsOf(b)))
                        /\ j > grid.rows * Ceil(Cardinality(ColouredIn(b)), grid.rows)
                        => b.changeX - 50 <= DotX(grid, b, j) - grid.pitch \div 2
  <2>1. PICK k \in 1..n : b = B(k)
    BY <1>5
  <2>2. IsBlock(b, order[k], blocks[k].changes)
    BY <1>6, <2>1
  <2>3. ColouredIn(b) = 1..Cardinality(ColouredIn(b))
    BY <2>2, ColouredFirst
  <2>4. grid.fits => RightEdge(grid, b) <= stage.width /\ BottomEdge(grid, b) <= stage.height
    BY <2>1 DEF IsGrid
  <2>5. ~stage.narrow => IsWritten(b, blocks[k].changes)
    BY <2>1 DEF IsGrid, IsWritten
  <2>6. ColouredIn(b) \subseteq DOMAIN b.ids /\ \A j \in DOMAIN b.ids : Category[b.ids[j]] = order[k]
    <3>1. \A j \in DOMAIN b.ids : b.ids[j] \in NamedIn(dots, order[k])
      BY <2>2 DEF IsBlock, IsListed, Range
    <3>2. QED BY <3>1 DEF ColouredIn, NamedIn
  <2>7. ASSUME ~stage.narrow, CountAgrees(order[k])
        PROVE  /\ \A j \in ColouredIn(b) : DotX(grid, b, j) + grid.pitch \div 2 < b.changeX
               /\ \/ feed.categories[order[k]] = None
                  \/ Cardinality(EventsOf(b)) = Cardinality(Ids(EventsOf(b)))
                  => \A j \in DOMAIN b.ids \ ColouredIn(b) :
                       j > grid.rows * Ceil(Cardinality(ColouredIn(b)), grid.rows)
                         => b.changeX - 50 <= DotX(grid, b, j) - grid.pitch \div 2
    BY <2>2, <2>5, <2>7, CountPlaced
  <2>8. QED BY <2>3, <2>4, <2>6, <2>7
<1> HIDE DEF n, B
<1>12. \A k, l \in DOMAIN grid.blocks :
         \A i \in DOMAIN grid.blocks[k].ids, j \in DOMAIN grid.blocks[l].ids :
           grid.blocks[k].ids[i] = grid.blocks[l].ids[j] => k = l /\ i = j
  BY <1>2, <1>8 DEF B
<1>13. Px(5) = 50
  BY DEF Px
<1>14. QED
  BY <1>7, <1>10, <1>11, <1>12, <1>13
     DEF GridTellsTheField, BoxOf, RightEdge, BottomEdge, ColouredIn, EventsOf

(***************************************************************************)
(* grid.ts:6, 19 and 102 with Graphic.tsx's gridCategories: for any        *)
(* catalog, any feed and any stage, every product has one place in the     *)
(* grid, the changed ones first in their block, and blocks keep clear of   *)
(* each other and, at 3 px a dot, of the stage's edges.  On a wide stage   *)
(* the count stands past the changed dots of a category whose count agrees *)
(* with them (CountAgrees): GridTellsTheField.                             *)
(***************************************************************************)
THEOREM TheGridTellsTheField == Spec => []GridTellsTheField
<1>1. ArticleInv /\ GridInv => GridTellsTheField
  <2> SUFFICES ASSUME ArticleInv, GridInv, grid # None PROVE GridTellsTheField
    BY DEF GridTellsTheField
  <2>1. feed \in Feeds /\ stage \in Stages /\ grid = LayoutGrid(GridCategories(dots), stage)
    BY DEF ArticleInv, GridInv
  <2>2. Told(Range(feed.changes), feed.field)
    BY FeedIsFeed, ArticleAssumption DEF ArticleInv, GridInv, Told
  <2>3. IsStage(stage)
    BY <2>1, ArticleAssumption DEF IsStage, Px
  <2>4. IsFiniteSet(DOMAIN dots)
    <3>1. DOMAIN dots \subseteq Products
      BY <2>2, DotOfProduct
    <3>2. QED BY <3>1, ArticleAssumption, FS_Subset
  <2> DEFINE blocks == GridCategories(dots)
  <2>5. PICK order : IsBlocks(blocks, order, dots)
    BY <2>1, <2>4, CategoriesGetBlocks
  <2> HIDE DEF blocks
  <2>6. blocks = <<>> \/ AreBlocks(blocks)
    <3>1. \A c \in Categories : ChangesCount(dots, c) \in Nat
      <4>1. \A c \in Categories : feed.categories[c] \in Nat \cup {None}
        BY <2>1, ArticleAssumption
      <4>2. \A c : Cardinality({p \in DOMAIN dots : Category[p] = c /\ dots[p].direction # None}) \in Nat
        BY <2>4, FS_Subset, FS_CardinalityType
      <4>3. QED BY <4>1, <4>2 DEF ChangesCount
    <3>2. \A k \in 1..Len(blocks) :
            order[k] \in Categories /\ blocks[k].changes = ChangesCount(dots, order[k])
      BY <2>5 DEF IsBlocks
    <3>3. \A k \in 1..Len(blocks) : blocks[k].changes \in Nat
      BY <3>1, <3>2
    <3>4. /\ blocks = <<>> \/ Len(blocks) > 0
          /\ Len(blocks) \in Nat /\ DOMAIN blocks = 1..Len(blocks)
          /\ \A k \in 1..Len(blocks) : blocks[k].count \in Nat \ {0}
      BY <2>5 DEF IsBlocks
    <3>5. QED BY <3>3, <3>4 DEF AreBlocks
  <2>7. IsGrid(LayoutGrid(blocks, stage), blocks, stage)
    BY <2>3, <2>6, GridPlaces
  <2>8. IsGrid(grid, blocks, stage)
    BY <2>1, <2>7 DEF blocks
  <2>9. QED BY <2>1, <2>2, <2>3, <2>5, <2>8, GridOfField
<1>2. QED BY ArticleInitInv, ArticleNextInv, GridInitInv, GridNextInv, <1>1, PTL DEF Spec

---------------------------------------------------------------------------
(* The chart on the stage                                                  *)

\* What Draw gives layoutSwarmChart.
DrawnFrom(s, d) ==
  [dots |-> SwarmDots(d), down |-> LabelOf(Range(feed.changes), s.down),
   up |-> LabelOf(Range(feed.changes), s.up),
   offCount |-> Cardinality(s.offScale), offText |-> OffText(s)]

\* The chart is of the stage and the dots one sees.
ChartInv ==
  chart # None => story # None /\ stage \in Stages /\ chart = Draw(story, dots, stage)

\* No chart is laid out at first.
LEMMA ChartInitInv == Init => ChartInv
  BY DEF Init, ChartInv

\* Every step keeps the chart that of the dots and the stage.
LEMMA ChartNextInv == ArticleInv /\ ChartInv /\ [Next]_vars => ChartInv'
<1> SUFFICES ASSUME ArticleInv, ChartInv, [Next]_vars PROVE ChartInv'
  OBVIOUS
<1>1. ASSUME feed' = feed, dots' = dots, story' = story, stage' = stage, chart' = chart
      PROVE  ChartInv'
  BY <1>1 DEF ChartInv, Draw, LabelOf, OffText
<1>2. CASE Render
  <2>1. feed' = feed /\ stage' = stage /\ chart' = chart
    BY <1>2 DEF Render
  <2>2. CASE chart = None
    BY <2>1, <2>2 DEF ChartInv
  <2>3. CASE chart # None
    <3>1. /\ story = Story(Range(feed.changes))
          /\ dots = DotsOf(Range(feed.changes), story, feed.field, Gone)
      BY <2>3 DEF ChartInv, ArticleInv
    <3>2. /\ story' = Story(Range(feed.changes))
          /\ dots' = DotsOf(Range(feed.changes), story', feed.field, Gone)
      BY <1>2 DEF Render
    <3>3. story' = story /\ dots' = dots
      BY <3>1, <3>2
    <3>4. QED BY <1>1, <2>1, <3>3
  <2>4. QED BY <2>2, <2>3
<1>3. CASE Resize
  <2>1. /\ feed' = feed /\ dots' = dots /\ story' = story /\ story # None
        /\ stage' \in Stages /\ chart' = Draw(story, dots, stage')
    BY <1>3 DEF Resize
  <2>2. QED BY <2>1 DEF ChartInv, Draw, LabelOf, OffText
<1>4. CASE AtTable
  BY <1>1, <1>4 DEF AtTable, pictureVars
<1>5. CASE UNCHANGED vars
  BY <1>1, <1>5 DEF vars, pictureVars
<1>6. QED BY <1>2, <1>3, <1>4, <1>5 DEF Next

\* A stage as measure has it.
IsMeasured(g) ==
  /\ IsDrawnOn(g) /\ g.height >= 2000 /\ g.compact \in BOOLEAN

\* The stages are ones a chart can be drawn on.
LEMMA StagesMeasured == \A g \in Stages : IsMeasured(g)
<1> SUFFICES ASSUME NEW g \in Stages PROVE IsMeasured(g)
  OBVIOUS
<1>1. /\ g.width \in Nat /\ g.width >= 2000 /\ g.height \in Nat /\ g.height >= 2000
      /\ g.narrow \in BOOLEAN /\ g.compact \in BOOLEAN /\ (g.narrow <=> g.width < 5600)
  BY ArticleAssumption, ChartAssumption DEF Px
<1>2. ~g.narrow => g.width >= 5600
  BY <1>1
<1>3. QED BY <1>1, <1>2 DEF IsMeasured, IsDrawnOn

\* The dots on the chart are those of one product each.
LEMMA MovesOfDots ==
  ASSUME NEW d, AreDots(d), IsFiniteSet(DOMAIN d)
  PROVE  /\ AreMoves(SwarmDots(d))
         /\ \A e \in SwarmDots(d) : e.id \in DOMAIN d /\ e.value = d[e.id].value
         /\ {e.id : e \in SwarmDots(d)} = {p \in DOMAIN d : d[p].direction # None}
<1> DEFINE S == {p \in DOMAIN d : d[p].direction # None}
           f == [p \in S |-> [id |-> p, value |-> d[p].value]]
<1>1. SwarmDots(d) = {f[p] : p \in S}
  BY DEF SwarmDots
<1>2. \A p \in S : f[p].id = p /\ f[p].value = d[p].value /\ p \in Int /\ d[p].value \in Int /\ p \in DOMAIN d
  BY DEF AreDots
<1>3. IsFiniteSet(S)
  BY FS_Subset
<1> HIDE DEF S, f
<1>4. IsFiniteSet({f[p] : p \in S})
  BY <1>3, ValuesFinite
<1>5. AreMoves(SwarmDots(d))
  BY <1>1, <1>2, <1>4 DEF AreMoves
<1>6. {e.id : e \in SwarmDots(d)} = S
  BY <1>1, <1>2
<1>7. QED BY <1>1, <1>2, <1>5, <1>6 DEF S

\* The annotation of a product has its words.
LEMMA NamedLabel ==
  ASSUME NEW S, IsFeed(S), NEW p, p = None \/ \E c \in S : p = c.product
  PROVE  LabelOf(S, p) # None => IsNamed(LabelOf(S, p))
<1>1. CASE p = None
  BY <1>1 DEF LabelOf
<1>2. CASE p # None
  <2>1. p \in Products
    BY <1>2, ChangeTypes DEF IsFeed
  <2>2. Label[p].words \in Seq(Word) /\ Label[p].lead \in 0..Len(Label[p].words)
    BY <2>1, ChartAssumption
  <2> DEFINE once == ChangeOf(S, p).pricePct = 0
             sizeless == ChangeOf(S, p).unitPct = None
  <2>3. /\ LabelOf(S, p).words = Label[p].words /\ LabelOf(S, p).lead = Label[p].lead
        /\ LabelOf(S, p).price = IF once THEN Words(<<5>>) ELSE Words(<<5, 2, 5>>)
        /\ LabelOf(S, p).percent = IF sizeless THEN Words(<<6>>) ELSE Words(<<6, 3, 2>>)
    BY <1>2 DEF LabelOf
  <2> HIDE DEF once, sizeless
  <2>4. <<5>> \in Seq(Nat) /\ <<5, 2, 5>> \in Seq(Nat) /\ <<6>> \in Seq(Nat) /\ <<6, 3, 2>> \in Seq(Nat)
    OBVIOUS
  <2>5. /\ Words(<<5>>) \in Seq(Word) /\ Words(<<5, 2, 5>>) \in Seq(Word)
        /\ Words(<<6>>) \in Seq(Word) /\ Words(<<6, 3, 2>>) \in Seq(Word)
    BY <2>4, WordsType
  <2>6. QED BY <2>2, <2>3, <2>5 DEF IsNamed
<1>3. QED BY <1>1, <1>2

\* The chart is drawn from dots and texts of the kinds its lemmas ask for.
LEMMA DrawnFromStory ==
  ASSUME NEW field, Told(Range(feed.changes), field)
  PROVE  IsIn(DrawnFrom(story, dots))
<1> DEFINE S == Range(feed.changes)
           in == DrawnFrom(story, dots)
<1>1. IsFeed(S) /\ story.up = Up(S) /\ story.down = Down(S)
  BY DEF Told, Story
<1>2. in.dots = SwarmDots(dots) /\ in.offText = OffText(story)
      /\ in.down = LabelOf(S, Down(S)) /\ in.up = LabelOf(S, Up(S))
  BY <1>1 DEF DrawnFrom
<1> HIDE DEF S, in
<1>3. Rises(S) \subseteq S /\ Falls(S) \subseteq S
  BY <1>1, OneNewestChange DEF Rises, Falls, InScale
<1>4. Up(S) = None \/ \E c \in S : Up(S) = c.product
  BY <1>1, <1>3, NamedMoves
<1>5. Down(S) = None \/ \E c \in S : Down(S) = c.product
  BY <1>1, <1>3, NamedMoves
<1>6. (in.down # None => IsNamed(in.down)) /\ (in.up # None => IsNamed(in.up))
  BY <1>1, <1>2, <1>4, <1>5, NamedLabel
<1>7. in.offText \in Seq(Word)
  <2>1. <<6, 4, 4, 4>> \in Seq(Nat) /\ <<6, 4, 7>> \in Seq(Nat)
    OBVIOUS
  <2>2. Words(<<6, 4, 4, 4>>) \in Seq(Word) /\ Words(<<6, 4, 7>>) \in Seq(Word)
    BY <2>1, WordsType
  <2>3. QED BY <1>2, <2>2 DEF OffText
<1>8. AreMoves(in.dots)
  <2>1. AreDots(dots)
    BY DotTypes
  <2>2. DOMAIN dots \subseteq Products
    BY DotOfProduct
  <2>3. IsFiniteSet(DOMAIN dots)
    BY <2>2, ArticleAssumption, FS_Subset
  <2>4. QED BY <1>2, <2>1, <2>3, MovesOfDots
<1>9. QED BY <1>6, <1>7, <1>8 DEF IsIn, in

\* The chart of the stage keeps its dots apart.
LEMMA ApartOnStage ==
  ASSUME AreDots(dots), IsFiniteSet(DOMAIN dots), IsMeasured(stage), NEW in, in.dots = SwarmDots(dots),
         IsIn(in), chart # None, chart = ChartOf(in, stage), Roomy
  PROVE  DotsApart
<1> DEFINE T == SwarmDots(dots)
           a == AxisOf(T, stage)
           w == chart.swarm
           Q == w.positions
           Value(p) == dots[p.id].value
<1>1. /\ AreMoves(T) /\ \A e \in T : e.id \in DOMAIN dots /\ e.value = dots[e.id].value
      /\ {e.id : e \in T} = {p \in DOMAIN dots : dots[p].direction # None}
  BY MovesOfDots
<1>2. /\ \A p \in Q : p.x \in w.x0..w.x1 =>
           31 * Cardinality({q \in Q : Magnitude(q.x - p.x) <= 160}) <= MaxTries
      /\ (\E d, e \in T : d.value > OffScale /\ e.value < -OffScale) => stage.width >= 2840
      /\ ~stage.compact => w.maxY - w.minY <= (stage.height * 36) \div 100
  BY DEF Roomy, EndsFit, Px
<1>3. ZonesFit(in.dots, stage)
  BY <1>2 DEF ZonesFit, BeyondLeft, BeyondRight
<1>4. PICK top : IsChart(chart, in, stage, top)
  BY <1>3, ChartFound DEF IsMeasured
<1>5. IsSwarm(w, T, a, stage, top) /\ (IF stage.compact THEN top \in Tops ELSE top = None)
      /\ chart.axisY \in Int /\ chart.axisY >= w.maxY
  BY <1>4 DEF IsChart
<1>6. IsAxis(a, T, stage)
  BY <1>1, <1>3, AxisFound DEF IsMeasured
<1> HIDE DEF T, a, w
<1>7. /\ w.r \in 20..70 /\ w.minY \in Int /\ w.maxY \in Int /\ w.x0 = a.x0 /\ w.x1 = a.x1
      /\ HavePlaces(Q, T) /\ w.r \in Int
  BY <1>5 DEF IsSwarm
<1>8. \A p \in Q : p.id \in Int /\ p.x \in Int /\ p.y \in Int /\ \E d \in T : p.id = d.id
  BY <1>7 DEF HavePlaces
<1>9. DrawnLoosely(w)
  <2>1. SUFFICES ASSUME NEW p \in Q, p.x \in w.x0..w.x1
                 PROVE  31 * Cardinality({q \in Q : q.x - p.x <= 160 /\ p.x - q.x <= 160}) <= MaxTries
    BY DEF DrawnLoosely
  <2>2. \A q \in Q : Magnitude(q.x - p.x) <= 160 <=> q.x - p.x <= 160 /\ p.x - q.x <= 160
    BY <1>8, <2>1 DEF Magnitude
  <2> HIDE DEF Q
  <2>3. {q \in Q : q.x - p.x <= 160 /\ p.x - q.x <= 160} = {q \in Q : Magnitude(q.x - p.x) <= 160}
    BY <2>2
  <2>4. QED BY <1>2, <2>1, <2>3
<1>10. AllApart(Q, 2 * w.r)
  <2>1. Uncrowded(AlongAxis(T, a))
    BY <1>1, <1>5, <1>6, <1>9, LooseOnAxis
  <2>2. QED BY <1>5, <2>1 DEF IsSwarm
<1>11. w.minY >= 0
  <2>1. CASE stage.compact
    <3>1. top \in Int /\ top >= 120 /\ top # None
      BY <1>5, <2>1, SwarmAssumption DEF Tops
    <3>2. w.minY >= top - 4
      BY <1>5, <3>1 DEF IsSwarm
    <3>3. QED BY <1>7, <3>1, <3>2
  <2>2. CASE ~stage.compact
    <3>1. w.maxY >= stage.height \div 2 - 4
      BY <1>5, <2>2 DEF IsSwarm
    <3>2. w.maxY - w.minY <= (stage.height * 36) \div 100
      BY <1>2, <2>2
    <3>3. stage.height \in Nat /\ stage.height >= 2000
      BY DEF IsMeasured, IsDrawnOn
    <3> DEFINE h == stage.height
               half == h \div 2
               room == (h * 36) \div 100
    <3>4. half \in Int /\ room \in Int /\ 2 * half + 1 >= h /\ 100 * room <= 36 * h
      BY <3>3
    <3> HIDE DEF half, room, h
    <3>5. QED BY <1>7, <3>1, <3>2, <3>3, <3>4 DEF half, room, h
  <2>3. QED BY <2>1, <2>2 DEF IsMeasured
<1>12. {p.id : p \in Q} = Dotted("more") \cup Dotted("less")
  <2>1. \A q \in DOMAIN dots : dots[q].direction # None <=> dots[q].direction \in {"more", "less"}
    BY ArticleAssumption DEF AreDots
  <2>2. {p.id : p \in Q} = {d.id : d \in T}
    BY <1>7 DEF HavePlaces
  <2>3. QED BY <1>1, <2>1, <2>2 DEF Dotted
<1>13. ASSUME NEW p \in Q PROVE \E d \in T : p.id = d.id /\ d.value = Value(p) /\ d.value \in Int
  BY <1>1, <1>8 DEF AreMoves
<1>14. ASSUME NEW p \in Q, NEW q \in Q, p.id # q.id
       PROVE  /\ (p.x - q.x) * (p.x - q.x) + (p.y - q.y) * (p.y - q.y) >= (2 * w.r) * (2 * w.r)
              /\ Value(p) < Value(q) => p.x <= q.x
  <2>1. FarApart(p, q, 2 * w.r)
    BY <1>10, <1>14 DEF AllApart
  <2>2. Value(p) < Value(q) => p.x <= q.x
    <3>1. PICK d \in T : p.id = d.id /\ d.value = Value(p)
      BY <1>13
    <3>2. PICK e \in T : q.id = e.id /\ e.value = Value(q)
      BY <1>13
    <3>3. QED BY <1>7, <3>1, <3>2 DEF HavePlaces
  <2>3. QED BY <2>1, <2>2 DEF FarApart
<1>15. ASSUME NEW p \in Q
       PROVE  /\ p.x >= w.r /\ p.x + w.r <= stage.width
              /\ p.y >= w.r /\ p.y + w.r <= chart.axisY
              /\ IF IsOffScale(Value(p)) THEN p.x < w.x0 \/ p.x > w.x1 ELSE p.x \in w.x0..w.x1
  <2>1. PICK d \in T : p.id = d.id /\ d.value = Value(p)
    BY <1>13
  <2>2. IF IsOffScale(d.value) THEN p.x < a.x0 \/ p.x > a.x1 ELSE p.x \in a.x0..a.x1
    BY <1>5, <2>1 DEF IsSwarm
  <2>3. w.minY <= p.y - w.r /\ p.y + w.r <= w.maxY /\ p.x >= w.r /\ p.x + w.r <= stage.width
    BY <1>5 DEF IsSwarm
  <2>4. p.y >= w.r /\ p.y + w.r <= chart.axisY
    BY <1>5, <1>7, <1>8, <1>11, <2>3
  <2>5. QED BY <1>7, <2>1, <2>2, <2>3, <2>4
<1>16. QED BY <1>12, <1>14, <1>15 DEF DotsApart, w

\* The names and captions of the chart of the stage keep apart.
LEMMA NamesOnStage ==
  ASSUME AreDots(dots), IsFiniteSet(DOMAIN dots), IsMeasured(stage), NEW in, in.dots = SwarmDots(dots),
         IsIn(in), chart = ChartOf(in, stage), EndsFit
  PROVE  NamesApart /\ CaptionsApart
<1> DEFINE m == SizesOn(stage)
           s == chart.annotations
           n == Len(s)
<1>1. (\E d, e \in in.dots : d.value > OffScale /\ e.value < -OffScale) => stage.width >= 2840
  BY DEF EndsFit, Px
<1>2. ZonesFit(in.dots, stage)
  BY <1>1 DEF ZonesFit, BeyondLeft, BeyondRight
<1>3. PICK top : IsChart(chart, in, stage, top)
  BY <1>2, ChartFound DEF IsMeasured
<1>4. /\ AreNames(s, chart.off, m) /\ chart.descent = m.descent /\ m.width = stage.width /\ m.descent \in Int
      /\ CaptionsStand(chart.captions, stage.width)
  BY <1>3 DEF IsChart
<1>5. DOMAIN s = 1..n /\ n \in Nat
  BY <1>4, ListedValues DEF AreNames
<1> HIDE DEF m, n
<1>6. ASSUME NEW i \in 1..n
      PROVE  /\ IsName(s[i], m) /\ s[i].x0 >= 0 /\ s[i].x1 <= m.width
             /\ \A o \in chart.off : IsClearOf(s[i], o, m)
             /\ \A j \in 1..n : j < i => IsClearOf(s[i], s[j], m)
  BY <1>4 DEF AreNames, n
<1>7. ASSUME NEW i \in 1..n
      PROVE  /\ Written(s[i]).x0 = s[i].x0 /\ Written(s[i]).x1 = s[i].x1 /\ Written(s[i]).top = s[i].top
             /\ Written(s[i]).bottom = s[i].base + m.descent
  BY <1>4 DEF Written
<1>8. ASSUME NEW i \in 1..n, NEW o \in chart.off
      PROVE  Clear(Written(s[i]), o)
  BY <1>6, <1>7 DEF IsClearOf, Clear
<1>9. ASSUME NEW i \in 1..n, NEW j \in 1..n, i < j
      PROVE  Clear(Written(s[i]), Written(s[j]))
  <2>1. IsClearOf(s[j], s[i], m) /\ IsName(s[i], m) /\ IsName(s[j], m)
    BY <1>6, <1>9
  <2>2. /\ s[i].base + m.descent <= s[i].bottom /\ s[i].base \in Int /\ s[i].bottom \in Int
        /\ s[j].top \in Int /\ s[i].x1 \in Int /\ s[j].x0 \in Int /\ s[i].x0 \in Int /\ s[j].x1 \in Int
    BY <2>1 DEF IsName
  <2>3. CASE s[j].x0 >= s[i].x1
    BY <1>7, <2>2, <2>3 DEF Clear
  <2>4. CASE s[j].x1 <= s[i].x0
    BY <1>7, <2>2, <2>4 DEF Clear
  <2>5. CASE s[j].top >= s[i].bottom
    <3>1. s[i].base + m.descent <= s[j].top
      BY <1>4, <2>2, <2>5
    <3>2. QED BY <1>7, <3>1 DEF Clear
  <2>6. CASE s[j].base + m.descent <= s[i].top
    BY <1>7, <2>6 DEF Clear
  <2>7. QED BY <2>1, <2>3, <2>4, <2>5, <2>6 DEF IsClearOf
<1>10. NamesApart
  BY <1>4, <1>5, <1>6, <1>7, <1>8, <1>9 DEF NamesApart
<1>11. CaptionsApart
  BY <1>4 DEF CaptionsStand, CaptionsApart
<1>12. QED BY <1>10, <1>11

\* A chart is laid out with what its lemmas ask for.
LEMMA ChartDrawn ==
  ASSUME ArticleInv, ChartInv, chart # None
  PROVE  /\ AreDots(dots) /\ IsFiniteSet(DOMAIN dots) /\ IsMeasured(stage)
         /\ IsIn(DrawnFrom(story, dots)) /\ DrawnFrom(story, dots).dots = SwarmDots(dots)
         /\ chart = ChartOf(DrawnFrom(story, dots), stage)
<1>1. feed \in Feeds /\ story # None /\ stage \in Stages /\ chart = Draw(story, dots, stage)
  BY DEF ArticleInv, ChartInv
<1>2. Told(Range(feed.changes), feed.field)
  BY <1>1, FeedIsFeed, ArticleAssumption DEF ArticleInv, Told
<1>3. IsFiniteSet(DOMAIN dots)
  <2>1. DOMAIN dots \subseteq Products
    BY <1>2, DotOfProduct
  <2>2. QED BY <2>1, ArticleAssumption, FS_Subset
<1>4. AreDots(dots)
  BY <1>2, DotTypes
<1>5. IsMeasured(stage)
  BY <1>1, StagesMeasured
<1>6. IsIn(DrawnFrom(story, dots))
  BY <1>2, DrawnFromStory
<1>7. chart = ChartOf(DrawnFrom(story, dots), stage) /\ DrawnFrom(story, dots).dots = SwarmDots(dots)
  BY <1>1 DEF Draw, DrawnFrom
<1>8. QED BY <1>3, <1>4, <1>5, <1>6, <1>7

(***************************************************************************)
(* swarm.ts with chartLayout.ts and Graphic.tsx's swarmDots: for any feed, *)
(* any catalog and any stage on which the chart is Roomy, every coloured   *)
(* dot has a place of its own, in the order of the values, on the stage    *)
(* and above the axis: DotsApart.                                          *)
(***************************************************************************)
THEOREM TheDotsKeepApart == Spec => [](Roomy => DotsApart)
<1>1. ArticleInv /\ ChartInv => (Roomy => DotsApart)
  <2> SUFFICES ASSUME ArticleInv, ChartInv, chart # None, Roomy PROVE DotsApart
    BY DEF DotsApart
  <2> DEFINE in == DrawnFrom(story, dots)
  <2>1. /\ AreDots(dots) /\ IsFiniteSet(DOMAIN dots) /\ IsMeasured(stage)
        /\ IsIn(in) /\ in.dots = SwarmDots(dots) /\ chart = ChartOf(in, stage)
    BY ChartDrawn
  <2> HIDE DEF in
  <2>2. QED BY <2>1, ApartOnStage
<1>2. QED BY ArticleInitInv, ArticleNextInv, ChartInitInv, ChartNextInv, <1>1, PTL DEF Spec

(***************************************************************************)
(* annotate.ts: "labels never overlap and never leave [0, width]".  For    *)
(* any feed, catalog, names and stage, wherever the extremes are, the      *)
(* boxes of the extremes' names stand between the stage's sides and meet   *)
(* neither each other nor the off-scale count, however often they are      *)
(* lifted, and the captions stand on the stage, either side of each other. *)
(***************************************************************************)
THEOREM TheNamesKeepApart == Spec => [](chart # None /\ EndsFit => NamesApart /\ CaptionsApart)
<1>1. ArticleInv /\ ChartInv => (chart # None /\ EndsFit => NamesApart /\ CaptionsApart)
  <2> SUFFICES ASSUME ArticleInv, ChartInv, chart # None, EndsFit PROVE NamesApart /\ CaptionsApart
    OBVIOUS
  <2> DEFINE in == DrawnFrom(story, dots)
  <2>1. /\ AreDots(dots) /\ IsFiniteSet(DOMAIN dots) /\ IsMeasured(stage)
        /\ IsIn(in) /\ in.dots = SwarmDots(dots) /\ chart = ChartOf(in, stage)
    BY ChartDrawn
  <2> HIDE DEF in
  <2>2. QED BY <2>1, NamesOnStage
<1>2. QED BY ArticleInitInv, ArticleNextInv, ChartInitInv, ChartNextInv, <1>1, PTL DEF Spec
=============================================================================
