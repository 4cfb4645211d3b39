------------------------------ MODULE Changes -------------------------------
(***************************************************************************)
(* A published change as the site reads it (lib/changes.ts, lib/kinds.ts): *)
(* percentages in tenths, times as numbers, products numbered by name, so  *)
(* that comparing numbers is comparing descriptions.                       *)
(***************************************************************************)
EXTENDS Values, FiniteSets, SequencesExt

CONSTANTS
  Products,    \* the catalog's products, numbered in the order of their names
  Categories,
  Category     \* the category of each product

ASSUME ChangesAssumption ==
  /\ Products \subseteq Int
  /\ None \notin Categories
  /\ Category \in [Products -> Categories]

SizeDown  == {"shrink", "shrink_price_cut"}
SizeKinds == SizeDown \cup {"grow"}
Kinds     == SizeKinds \cup {"price_increase", "price_decrease"}

\* ChangeOut; seen is after_seen_at.
Change == [id : Nat, product : Products, kind : Kinds, unitPct : Int \cup {None},
           pricePct : Int, detected : Nat, seen : Nat \cup {None}]

UnitChangePct(c) == IF c.unitPct # None THEN c.unitPct ELSE c.pricePct

\* kindDirection
KindDirection(kind) ==
  CASE kind \in {"shrink", "price_increase"} -> "more"
    [] kind \in {"grow", "price_decrease", "shrink_price_cut"} -> "less"
    [] OTHER -> "flat"

Direction(c) ==
  IF UnitChangePct(c) = 0 THEN KindDirection(c.kind)
  ELSE IF UnitChangePct(c) > 0 THEN "more" ELSE "less"

\* compareNewest(a, b) < 0
Newer(a, b) == a.detected > b.detected \/ (a.detected = b.detected /\ a.id > b.id)

LatestByProduct(S) == {c \in S : \A d \in S : d.product = c.product => ~Newer(d, c)}

\* FEED_KIND_MEMBERS; no chip but All has the size cuts with a lower unit price.
Members(kind) == IF kind = "all" THEN Kinds ELSE {kind}
FeedKinds == {"all"} \cup (Kinds \ {"shrink_price_cut"})
=============================================================================
