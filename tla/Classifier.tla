----------------------------- MODULE Classifier -----------------------------
(***************************************************************************)
(* The transition classifier of pipeline/detect.py: what, if anything, is  *)
(* recorded about two consecutive snapshots of one product, and whether    *)
(* the public feed shows it.                                               *)
(*                                                                         *)
(* Prices are whole cents, quantities whole base units, confidences whole  *)
(* hundredths and percentages whole hundredths of a percent (the code      *)
(* quantizes them to Decimal("0.01")).  None is Python's None.             *)
(***************************************************************************)
EXTENDS Integers

CONSTANT None   \* Python's None: no price, no reading, no percentage

ASSUME NoneAssumption == None \notin Int

SizeNoise         == 50     \* SIZE_NOISE_PCT, 0.5%
PriceNoise        == 50     \* PRICE_NOISE_PCT, 0.5%
SizeSuspect       == 8000   \* SIZE_SUSPECT_PCT, 80%
PublishConfidence == 70     \* PUBLISH_MIN_CONFIDENCE, 0.7

Kinds == {"shrink", "shrink_price_cut", "grow", "price_increase",
          "price_decrease", "relabel", "unreadable_size_change"}
Statuses == {"published", "needs_review", "hidden"}

\* What classify_transition reports when there is nothing worth recording.
NoDraft == [kind |-> "none", status |-> "none",
            sizePct |-> None, pricePct |-> None, unitPct |-> None]

Drafts == [kind : Kinds, status : Statuses, sizePct : Int \cup {None},
           pricePct : Int \cup {None}, unitPct : Int \cup {None}]

Abs(n) == IF n < 0 THEN -n ELSE n

\* n / d rounded to an integer, halves away from zero (ROUND_HALF_UP), d > 0.
RoundHalfUp(n, d) ==
  IF n >= 0 THEN (2 * n + d) \div (2 * d) ELSE -((2 * (-n) + d) \div (2 * d))

PctChange(before, after) ==
  IF before = None \/ after = None \/ before = 0
  THEN None
  ELSE RoundHalfUp(10000 * (after - before), before)

Comparable(v) == v.quantity # None /\ v.quantity > 0 /\ v.unit # None

HasUnitPrice(v) == v.price # None /\ Comparable(v)

\* Mutant of UnitPriceChange: the two unit prices swapped.
UnitPriceSwapped(b, a) ==
  IF ~HasUnitPrice(b) \/ ~HasUnitPrice(a) \/ b.price = 0
  THEN None
  ELSE RoundHalfUp(10000 * (b.price * a.quantity - a.price * b.quantity),
                   b.price * a.quantity)

\* pct_change of the two unit prices price / quantity, over a common denominator.
UnitPriceChange(b, a) ==
  IF ~HasUnitPrice(b) \/ ~HasUnitPrice(a) \/ b.price = 0
  THEN None
  ELSE RoundHalfUp(10000 * (a.price * b.quantity - b.price * a.quantity),
                   b.price * a.quantity)

\* Mutant of PriceMoved: a move of exactly the threshold is noise.
PriceMovedBeyond(b, a) ==
  /\ PctChange(b.price, a.price) # None
  /\ Abs(PctChange(b.price, a.price)) > PriceNoise

PriceMoved(b, a) ==
  /\ PctChange(b.price, a.price) # None
  /\ Abs(PctChange(b.price, a.price)) >= PriceNoise

CanCompare(b, a) == Comparable(b) /\ Comparable(a) /\ b.unit = a.unit

Confident(b, a) == b.conf >= PublishConfidence /\ a.conf >= PublishConfidence

\* _price_only: always published; the size columns are filled by the caller.
PriceOnly(b, a, sizePct, unitPct) ==
  LET pct == PctChange(b.price, a.price)
  IN  [kind |-> IF pct > 0 THEN "price_increase" ELSE "price_decrease",
       status |-> "published",
       sizePct |-> sizePct, pricePct |-> pct, unitPct |-> unitPct]

\* Mutant of ClassifyUnreadable: the label's text is not looked at.
UnreadablePriceOnly(b, a) ==
  IF PriceMoved(b, a) THEN PriceOnly(b, a, None, None) ELSE NoDraft

\* The readings cannot be compared: only the label's text and the price count.
ClassifyUnreadable(b, a) ==
  IF b.text # a.text
  THEN [kind |-> "unreadable_size_change", status |-> "needs_review",
        sizePct |-> None, pricePct |-> PctChange(b.price, a.price), unitPct |-> None]
  ELSE IF PriceMoved(b, a) THEN PriceOnly(b, a, None, None) ELSE NoDraft

\* The size moved by less than the noise threshold.
ClassifySameSize(b, a, sizePct) ==
  IF PriceMoved(b, a) THEN PriceOnly(b, a, sizePct, UnitPriceChange(b, a))
  ELSE IF b.text # a.text
  THEN [kind |-> "relabel", status |-> "hidden",
        sizePct |-> sizePct, pricePct |-> None, unitPct |-> None]
  ELSE NoDraft

\* Mutants of SizeKind: the tests in the other order, and a lost sign.
CutBeforeGrow(sizePct, unitPct) ==
  IF unitPct # None /\ unitPct <= -PriceNoise THEN "shrink_price_cut"
  ELSE IF sizePct >= 0 THEN "grow" ELSE "shrink"
CutWithoutSign(sizePct, unitPct) ==
  IF sizePct >= 0 THEN "grow"
  ELSE IF unitPct # None /\ unitPct <= PriceNoise THEN "shrink_price_cut"
  ELSE "shrink"

SizeKind(sizePct, unitPct) ==
  IF sizePct >= 0 THEN "grow"
  ELSE IF unitPct # None /\ unitPct <= -PriceNoise THEN "shrink_price_cut"
  ELSE "shrink"

ClassifySizeMove(b, a, sizePct) ==
  LET unitPct == UnitPriceChange(b, a)
  IN  [kind |-> SizeKind(sizePct, unitPct),
       status |-> IF Confident(b, a) /\ Abs(sizePct) <= SizeSuspect
                  THEN "published" ELSE "needs_review",
       sizePct |-> sizePct, pricePct |-> PctChange(b.price, a.price),
       unitPct |-> unitPct]

\* Mutant of Classify: size noise as an amount instead of a percentage.
ClassifyByAmount(b, a) ==
  IF ~CanCompare(b, a) THEN ClassifyUnreadable(b, a)
  ELSE LET sizePct == PctChange(b.quantity, a.quantity)
       IN  IF Abs(a.quantity - b.quantity) <= 1
           THEN ClassifySameSize(b, a, sizePct)
           ELSE ClassifySizeMove(b, a, sizePct)

\* classify_transition(before, after)
Classify(b, a) ==
  IF ~CanCompare(b, a) THEN ClassifyUnreadable(b, a)
  ELSE LET sizePct == PctChange(b.quantity, a.quantity)
       IN  IF Abs(sizePct) < SizeNoise
           THEN ClassifySameSize(b, a, sizePct)
           ELSE ClassifySizeMove(b, a, sizePct)
=============================================================================
