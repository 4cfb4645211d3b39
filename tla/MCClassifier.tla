---------------------------- MODULE MCClassifier ----------------------------
(***************************************************************************)
(* Every pair of consecutive snapshots over a grid of readings, chosen so  *)
(* that each threshold of the classifier has a pair exactly on it and one  *)
(* on either side.                                                         *)
(***************************************************************************)
EXTENDS Classifier

CONSTANTS Prices,       \* regular prices in cents, None included
          Quantities,   \* total quantities in grams
          Confidences

ASSUME GridAssumption ==
  /\ Prices \subseteq Nat \cup {None}
  /\ Quantities \subseteq Nat
  /\ Confidences \subseteq Nat

VARIABLES before, after   \* two consecutive snapshots

vars == <<before, after>>

Unparsed == [quantity |-> None, unit |-> None, conf |-> 0]
Readings ==
  {Unparsed, [quantity |-> 200, unit |-> "ml", conf |-> 95]}
    \cup [quantity : Quantities, unit : {"g"}, conf : Confidences]

View(text, price, r) ==
  [text |-> text, price |-> price,
   quantity |-> r.quantity, unit |-> r.unit, conf |-> r.conf]
Views == {View(t, p, r) : t \in {"old", "new"}, p \in Prices, r \in Readings}

Init == before \in Views /\ after \in Views
\* The product is observed once more in another state.
Next == before' = after /\ after' \in Views
Spec == Init /\ [][Next]_vars

Draft    == Classify(before, after)
Reversed == Classify(after, before)
Shrinks  == {"shrink", "shrink_price_cut"}

(***************************************************************************)
(* Read backwards, a shrink is never a shrink and a price rise is never a  *)
(* price rise: the sign of a recorded change cannot depend on rounding at  *)
(* a threshold (classify_transition, detect.py).                           *)
(***************************************************************************)
NoChangeIsItsOwnReverse ==
  /\ Draft.kind \in Shrinks => Reversed.kind \notin Shrinks
  /\ Draft.kind \in {"grow", "price_increase", "price_decrease"}
       => Reversed.kind # Draft.kind

(***************************************************************************)
(* Nothing is passed over in silence: when classify_transition returns     *)
(* None the label's text is the same, the price moved by less than the     *)
(* noise threshold, and so did the size where both readings allow a        *)
(* comparison, whichever of the code's branches was taken.                 *)
(***************************************************************************)
SilentOnlyOnNoise ==
  Draft = NoDraft =>
    /\ before.text = after.text
    /\ before.price # None /\ after.price # None /\ before.price # 0
         => 200 * Abs(after.price - before.price) < before.price
    /\ CanCompare(before, after)
         => 200 * Abs(after.quantity - before.quantity) < before.quantity

(***************************************************************************)
(* The unit a quantity is held in does not matter: the same two packages   *)
(* in a unit half as large get the same draft (the noise and suspect       *)
(* thresholds of detect.py are relative).                                  *)
(***************************************************************************)
Finer(v) == [v EXCEPT !.quantity = IF @ = None THEN None ELSE 2 * @]
UnitOfQuantityIrrelevant ==
  /\ Classify(Finer(before), Finer(after)).kind = Draft.kind
  /\ Classify(Finer(before), Finer(after)).status = Draft.status
  /\ Classify(Finer(before), Finer(after)).sizePct = Draft.sizePct

(***************************************************************************)
(* The kind tells the shopper the truth about the price per unit: after a  *)
(* "shrink" it fell by less than half a percent or rose, and after a       *)
(* "shrink_price_cut" it really fell (SizeKind's use of unit_pct).         *)
(***************************************************************************)
ShrinkKindMatchesUnitPrice ==
  (HasUnitPrice(before) /\ HasUnitPrice(after) /\ before.price > 0) =>
    LET was == before.price * after.quantity
        is  == after.price * before.quantity
    IN  /\ Draft.kind = "shrink" => 200 * is > 199 * was
        /\ Draft.kind = "shrink_price_cut" => is < was

(***************************************************************************)
(* The three percentages a draft carries are about the same two packages:  *)
(* (1 + size)(1 + unit price) = 1 + price, up to the rounding of each.     *)
(***************************************************************************)
PercentagesAgree ==
  (Draft.sizePct # None /\ Draft.pricePct # None /\ Draft.unitPct # None) =>
    LET size  == 10000 + Draft.sizePct
        price == 10000 + Draft.pricePct
        unit  == 10000 + Draft.unitPct
    IN  2 * Abs(size * unit - 10000 * price) <= size + unit + 10001

(***************************************************************************)
(* docs/decisions.md:30: "A change is published only when both readings    *)
(* are comparable, both parses have confidence of at least 0.7, and the    *)
(* size moved by more than 0.5% and not more than 80%."                    *)
(***************************************************************************)
ConservativePublishing ==
  Draft.status = "published" =>
    /\ CanCompare(before, after)
    /\ Confident(before, after)
    /\ Abs(Draft.sizePct) > SizeNoise /\ Abs(Draft.sizePct) <= SizeSuspect
=============================================================================
