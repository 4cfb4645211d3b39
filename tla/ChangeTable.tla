---------------------------- MODULE ChangeTable -----------------------------
(***************************************************************************)
(* The table of every change (components/ChangesSection.tsx) and the view  *)
(* its address names (lib/tableState.ts).  The address is the state: each  *)
(* control writes a query string, and what is shown is read back from it.  *)
(***************************************************************************)
EXTENDS Changes

CONSTANTS
  PageRows,    \* PAGE_ROWS
  Others,      \* values of the query's other parameters
  Unknown      \* a parameter's value the site does not know

ASSUME TableAssumption ==
  /\ PageRows \in Nat \ {0}
  /\ Unknown # None /\ Unknown \notin Categories \cup FeedKinds \cup {"when", "unit", "product"}
  /\ None \notin FeedKinds

VARIABLES
  changes,     \* the feed, None while it loads
  address,     \* the query string
  showAll

tableVars == <<changes, address, showAll>>

SortKeys == {"when", "unit", "product"}

\* A sort parameter is a name with or without a minus; an empty one is like none.
Sorts == [key : SortKeys \cup {Unknown}, minus : BOOLEAN]
ASSUME NoneIsNoSort == None \notin Sorts
Addresses == [kind : FeedKinds \cup {Unknown, None}, category : Categories \cup {Unknown, None},
              sort : Sorts \cup {None}, other : Others]

\* TableState and DEFAULT_STATE
Views == [kind : FeedKinds, category : Categories \cup {Unknown, None},
          sort : SortKeys, descending : BOOLEAN]
DefaultView == [kind |-> "all", category |-> None, sort |-> "when", descending |-> TRUE]

\* parseTableState
Parse(params) ==
  [kind       |-> IF params.kind \in FeedKinds THEN params.kind ELSE DefaultView.kind,
   category   |-> params.category,
   sort       |-> IF params.sort # None /\ params.sort.key \in SortKeys
                  THEN params.sort.key ELSE DefaultView.sort,
   descending |-> IF params.sort # None THEN params.sort.minus ELSE DefaultView.descending]

\* serializeTableState: only what differs from the default is written.
Serialize(v, base) ==
  [kind     |-> IF v.kind = DefaultView.kind THEN None ELSE v.kind,
   category |-> v.category,
   sort     |-> IF v.sort = DefaultView.sort /\ v.descending = DefaultView.descending THEN None
                ELSE [key |-> v.sort, minus |-> v.descending],
   other    |-> base.other]

View == Parse(address)

\* The places in the feed of the rows a view keeps.
FilterChanges(all, kind, category) ==
  {i \in DOMAIN all : all[i].kind \in Members(kind) /\ category \in {None, Category[all[i].product]}}

\* What sortChanges compares, first to last.
SortKey(c, sort) ==
  CASE sort = "when" -> <<IF c.seen # None THEN c.seen ELSE c.detected, Magnitude(UnitChangePct(c))>>
    [] sort = "unit" -> <<UnitChangePct(c), c.product>>
    [] sort = "product" -> <<c.product>>

Precedes(k, l) == \E i \in DOMAIN k : k[i] < l[i] /\ \A j \in 1..(i - 1) : k[j] = l[j]

\* The comparator of sortChanges is negative; ids decide ties, whatever the direction.
RowBefore(a, b, v) ==
  LET k == SortKey(a, v.sort)
      l == SortKey(b, v.sort)
  IN  IF k = l THEN a.id < b.id ELSE IF v.descending THEN Precedes(l, k) ELSE Precedes(k, l)

\* The sort is stable.
SortChanges(all, places, v) ==
  LET order == InOrder(places, LAMBDA i, j : IF all[i] = all[j] THEN i < j
                                             ELSE RowBefore(all[i], all[j], v))
  IN  [n \in DOMAIN order |-> all[order[n]]]

Rows(all, v) == SortChanges(all, FilterChanges(all, v.kind, v.category), v)

Shown(all, v) ==
  LET rows == Rows(all, v)
  IN  IF showAll THEN rows ELSE SubSeq(rows, 1, Min({PageRows, Len(rows)}))

\* Mutant of ByKind: the chips count the whole feed.
ByKindAnywhere(all, v) == [k \in FeedKinds |-> Cardinality(FilterChanges(all, k, None))]

\* byKind: the number on each chip (countByKind).
ByKind(all, v) ==
  LET here == FilterChanges(all, "all", v.category)
  IN  [k \in FeedKinds |-> Cardinality({i \in here : all[i].kind \in Members(k)})]

\* categoryNames: the options of the list, the address's category among them.
CategoryNames(all, v) ==
  Categories \cup {Category[all[i].product] : i \in DOMAIN all} \cup ({v.category} \ {None})

\* categoryCounts: the number beside each option.
CategoryCount(all, v, category) ==
  Cardinality({i \in FilterChanges(all, v.kind, None) : Category[all[i].product] = category})

---------------------------------------------------------------------------
Ready == changes # None

\* setParams, the render with the new address, and the effect on stateKey.
SetParams(params) ==
  /\ address' = params
  /\ showAll' = (showAll /\ Parse(params) = View)
  /\ UNCHANGED changes

Update(v) == SetParams(Serialize(v, address))

\* A chip, disabled while the feed loads, as the lists are.
ChooseKind == Ready /\ \E k \in FeedKinds : Update([View EXCEPT !.kind = k])

ChooseCategory ==
  Ready /\ \E c \in CategoryNames(changes, View) \cup {None} : Update([View EXCEPT !.category = c])

SortedBy(v, key, down) == [v EXCEPT !.sort = key, !.descending = down]

\* onSort with defaultDescending: the column in use turns over.
SortByColumn ==
  \E column \in SortKeys :
    Update(SortedBy(View, column, IF View.sort = column THEN ~View.descending ELSE column # "product"))

\* parseSortValue of an option of the phone's list.
SortByOption ==
  Ready /\ \E key \in SortKeys, down \in BOOLEAN :
             Update(SortedBy(View, key, down))

\* The button of an empty table.
ShowEveryChange ==
  /\ Ready /\ Rows(changes, View) = <<>>
  /\ View.kind # "all" \/ View.category # None
  /\ Update(DefaultView)

ShowAll ==
  /\ Ready /\ ~showAll /\ Len(Rows(changes, View)) > PageRows
  /\ showAll' = TRUE
  /\ UNCHANGED <<changes, address>>

\* A link, or Back and Forward, to an address.
Follow(links) == \E params \in links : params # address /\ SetParams(params)

TableStep == ChooseKind \/ ChooseCategory \/ SortByColumn \/ SortByOption \/ ShowEveryChange \/ ShowAll
=============================================================================
