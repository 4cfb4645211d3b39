------------------------------ MODULE Graphic ------------------------------
(***************************************************************************)
(* The pinned graphic (components/Graphic.tsx) with the scroll effect that *)
(* chooses its step (StepScroll) and the canvas engine that draws it       *)
(* (DotRenderer).  React renders what was set later, in one commit with    *)
(* the layout effects, and runs the other effects after it, before the     *)
(* next commit; observers and animation frames come in between.  Tip and   *)
(* highlight are set by the same handlers as the renderer's marks and are  *)
(* taken as rendered at once.                                              *)
(***************************************************************************)
EXTENDS DotRenderer, StepScroll, Sequences

CONSTANTS
  StepList,    \* the story's steps: StepKind of each
  Undrawn,     \* the size cases of either step whose product the field no longer lists
  Rank,        \* each product's position in the keyboard order of each step
  Sizes,       \* stage sizes
  Stages,      \* the sizes the stage may have in each window
  Short,       \* those with compact: narrow, or lower than SHORT_BELOW
  Tall,        \* those the wide size cards do not fit in
  Seen,        \* offsets at which the stage is on the screen
  MaxMoves     \* bound: what the reader does

ASSUME GraphicAssumption ==
  /\ StepList \in Seq(Steps) /\ StepList # <<>>
  /\ Undrawn["shrinks"] \cap Dots = {} /\ Undrawn["grows"] \cap Dots = {}
  /\ LET Products == Dots \cup Undrawn["shrinks"] \cup Undrawn["grows"]
     IN  /\ None \notin Products
         /\ \A s \in Steps, d \in Products :
              Rank[s][d] \in Nat /\ \A e \in Products : Rank[s][d] = Rank[s][e] => d = e
  /\ None \notin Sizes /\ Short \subseteq Sizes /\ Tall \subseteq Sizes
  /\ Stages \in [Windows -> SUBSET Sizes]
  /\ \A w \in Windows : DOMAIN Lines[w] = DOMAIN StepList
  /\ MaxMoves \in Nat

ASSUME NoneIsNoRecord ==
  /\ None \notin [size : Sizes, measured : {"loading", "loaded"}, compact : BOOLEAN]
  /\ None \notin [id : Dots, tap : BOOLEAN]

VARIABLES
  stage,       \* the stage's size on the screen
  fonts,       \* the web font: "loading", "loaded"
  touch,       \* coarsePointer
  view,        \* rendered: Story's index, Graphic's size and cardsOverflow
  want,        \* the same with what was set since
  stepDue,     \* the step effect of the last commit has not run
  tip,         \* the tooltip's product and whether a tap opened it, None
  highlight,   \* the product the keyboard is on
  live,        \* the product announced last, None if none is
  moves

reactVars == <<view, want, stepDue>>
markVars  == <<tip, highlight, live>>
vars == <<rendererVars, scrollVars, stage, fonts, touch, reactVars, markVars, moves>>

Views == [index : DOMAIN StepList, size : Sizes \cup {None}, measured : {"loading", "loaded"},
          overflow : Sizes \cup {None}]

Kind(v) == StepList[v.index]

\* compactCards
Compact(v) == v.size # None /\ (v.size \in Short \/ v.overflow = v.size)

Geometry(v) == [size |-> v.size, measured |-> v.measured, compact |-> Compact(v)]

\* order: what the arrow keys walk through.  The size cases are the story's, of the changes feed;
\* the dots are the field's.
Order(step) ==
  CASE step \in {"grid", "end"} -> Dots
    [] step \in {"changed", "swarm"} -> Changed
    [] step = "shrinks" -> {d \in Dots : SizeKind[d] = "shrink"} \cup Undrawn["shrinks"]
    [] step = "grows" -> {d \in Dots : SizeKind[d] = "grow"} \cup Undrawn["grows"]

\* The first commit: no size yet, the first step, and Story's effect has looked it up.
Init ==
  /\ ScrollInit /\ RendererInit(StepList[1])
  /\ stage \in Stages[window] /\ fonts = "loading" /\ touch \in BOOLEAN
  /\ view = [index |-> 1, size |-> None, measured |-> "loading", overflow |-> None]
  /\ want = [view EXCEPT !.index = indexRef]
  /\ stepDue = FALSE
  /\ tip = None /\ highlight = None /\ live = None
  /\ moves = 0

---------------------------------------------------------------------------
(* Renders and effects                                                     *)

\* The deps of the layout effect: size, sizeKey, compactCards.
LayoutDue ==
  want.size # view.size \/ want.measured # view.measured \/ Compact(want) # Compact(view)

\* The wide cards are higher than the stage.
Overflows == ~Compact(want) /\ want.size \in Tall

\* Cards that do not fit are rendered again as rows, in this task.
LayoutEffect ==
  IF ~LayoutDue \/ want.size = None THEN UNCHANGED <<rendererVars, want>>
  ELSE IF Overflows
       THEN want' = [want EXCEPT !.overflow = want.size] /\ UNCHANGED rendererVars
       ELSE SetGeometry(Geometry(want)) /\ UNCHANGED want

Commit ==
  /\ want # view /\ ~stepDue
  /\ view' = want
  /\ stepDue' = (Kind(want) # Kind(view))
  /\ LayoutEffect
  /\ UNCHANGED <<scrollVars, stage, fonts, touch, markVars, moves>>

\* Mutant of StepEffect: the tooltip goes, its ring stays.
StepEffectKeepsRing ==
  /\ stepDue /\ stepDue' = FALSE
  /\ tip' = None /\ highlight' = None /\ highlighted' = None
  /\ Go(Kind(view), geometry, FALSE)
  /\ UNCHANGED <<live, hovered, reduced, visible, scrollVars, stage, fonts, touch, view, want, moves>>

\* The step effect; currentStep is another step whenever it runs.
StepEffect ==
  /\ stepDue /\ stepDue' = FALSE
  /\ tip' = None /\ highlight' = None
  /\ hovered' = None /\ highlighted' = None
  /\ Go(Kind(view), geometry, FALSE)
  /\ UNCHANGED <<live, reduced, visible, scrollVars, stage, fonts, touch, view, want, moves>>

\* A render asked for by a layout effect comes before anything else.
Urgent == want.overflow # view.overflow

---------------------------------------------------------------------------
(* The browser                                                             *)

Unmarked == UNCHANGED <<stage, touch, view, stepDue, markVars, moves>>

\* update of Story's effect: setIndex.
ScrollUpdate ==
  /\ Update
  /\ want' = [want EXCEPT !.index = indexRef']
  /\ UNCHANGED <<rendererVars, fonts>> /\ Unmarked

TurnListeners == Reanchor /\ UNCHANGED <<rendererVars, fonts, want>> /\ Unmarked

AnimationFrame == Tick /\ UNCHANGED <<scrollVars, fonts, want>> /\ Unmarked

\* Mutant of Measure: the stage is measured once.
MeasureOnce ==
  /\ want.size = None
  /\ want' = [want EXCEPT !.size = stage]
  /\ UNCHANGED <<rendererVars, scrollVars, fonts>> /\ Unmarked

\* The ResizeObserver, and the first measure: setSize.
Measure ==
  /\ want.size # stage
  /\ want' = [want EXCEPT !.size = stage]
  /\ UNCHANGED <<rendererVars, scrollVars, fonts>> /\ Unmarked

\* The IntersectionObserver.
Observe ==
  /\ visible # (scroll \in Seen)
  /\ SetVisible(scroll \in Seen)
  /\ UNCHANGED <<scrollVars, fonts, want>> /\ Unmarked

\* document.fonts.ready: the same size set anew; without a size it stays without.
FontsReady ==
  /\ fonts = "loading" /\ fonts' = "loaded"
  /\ want' = IF want.size = None THEN want ELSE [want EXCEPT !.measured = "loaded"]
  /\ UNCHANGED <<rendererVars, scrollVars>> /\ Unmarked

---------------------------------------------------------------------------
(* The reader                                                              *)

Move == moves < MaxMoves /\ moves' = moves + 1

\* Scrolling, turning and resizing the window, and the browser's bars.
MoveWindow ==
  /\ Move
  /\ \/ UNCHANGED stage /\ \E s \in Offsets : ScrollTo(s)
     \/ stage' \in Stages[window] /\ Nudge
     \/ \E s \in Offsets : Turn(s) /\ stage' \in Stages[window']
  /\ UNCHANGED <<rendererVars, fonts, touch, reactVars, markVars>>

\* The window stays as it is.
Still == Move /\ UNCHANGED <<scrollVars, stage, fonts, touch, reactVars>>

\* tip?.id
Tipped == IF tip = None THEN None ELSE tip.id

ShowTip(d, byTap) ==
  /\ tip' = [id |-> d, tap |-> byTap]
  /\ Mark(d, highlighted)
HideTip == tip' = None /\ Mark(None, highlighted)

\* onPointerMove and onPointerLeave: a mouse.
PointerMove ==
  /\ ~touch
  /\ \/ \E d \in Picked : d # Tipped /\ ShowTip(d, FALSE)
     \/ tip # None /\ ~tip.tap /\ HideTip
  /\ UNCHANGED <<highlight, live>> /\ Still

\* onClick: a tap names the product first.  Opening it is DrawerRoute's.
Click ==
  /\ \/ touch /\ \E d \in Picked : d # Tipped /\ ShowTip(d, TRUE)
     \/ tip # None /\ HideTip
  /\ UNCHANGED <<highlight, live>> /\ Still

\* Those an arrow, Home or End leads to: the first, the last, and the neighbours of the
\* highlighted one.
Reached(step) ==
  LET order == Order(step)
      Before(d, e) == Rank[step][d] < Rank[step][e]
      Strictly(d, e) == {c \in order : Before(d, c) /\ Before(c, e)}
  IN  {d \in order :
         \/ \A e \in order : ~Before(e, d)
         \/ \A e \in order : ~Before(d, e)
         \/ highlight \in order /\ highlight # d
              /\ Strictly(d, highlight) \cup Strictly(highlight, d) = {}}

\* setHighlight, showTip and announce: a case without a dot has no ring, and showTip and
\* announce return early.
Highlight(d) ==
  /\ highlight' = d
  /\ IF d \in Dots THEN tip' = [id |-> d, tap |-> FALSE] /\ live' = d /\ Mark(d, d)
     ELSE UNCHANGED <<tip, live>> /\ Mark(hovered, None)

\* onKeyDown; the effects of the last commit run before it.
Key ==
  /\ ~stepDue /\ Order(Kind(view)) # {}
  /\ \E d \in Reached(Kind(view)) : Highlight(d)
  /\ Still

Escape ==
  /\ ~stepDue /\ Order(Kind(view)) # {} /\ <<highlight, tip, live>> # <<None, None, None>>
  /\ highlight' = None /\ tip' = None /\ live' = None /\ Mark(None, None)
  /\ Still

\* onBlur
Blur ==
  /\ <<highlight, tip>> # <<None, None>> /\ highlight' = None
  /\ IF tip # None /\ ~tip.tap THEN tip' = None /\ Mark(None, None)
     ELSE UNCHANGED tip /\ Mark(hovered, None)
  /\ UNCHANGED live /\ Still

---------------------------------------------------------------------------
System ==
  \/ ScrollUpdate \/ TurnListeners \/ AnimationFrame
  \/ Measure \/ Observe \/ FontsReady
React == Commit \/ StepEffect
User == MoveWindow \/ PointerMove \/ Click \/ Key \/ Escape \/ Blur

Next == React \/ (~Urgent /\ (System \/ User))

Spec == Init /\ [][Next]_vars

(***************************************************************************)
(* Fairness: React commits what was set and runs its effects, and the      *)
(* browser delivers frames, listeners and observers to a page on screen.   *)
(***************************************************************************)
Fairness == WF_vars(React) /\ WF_vars(~Urgent /\ System)

FairSpec == Spec /\ Fairness

---------------------------------------------------------------------------
\* The renderer draws what is rendered: the step and, once measured, the layout.
Faithful == current = Kind(view) /\ geometry = Geometry(view)
Rendered == want = view /\ ~stepDue

(***************************************************************************)
(* The picture at rest is the step's: with nothing rendered or animated    *)
(* still to come every dot is at its place in the layout of the stage as   *)
(* last measured, and the dots one can see are all products, the changed   *)
(* ones, or the size cases, and on compact cards only the group whose      *)
(* cards are shown.  Frames are requested just while a tween is on.        *)
(***************************************************************************)
RestingPicture ==
  /\ tweening = frame
  /\ ~tweening /\ geometry # None => \A d \in Dots : dots[d].at = Target(d, current, geometry)
  /\ Rendered /\ view.size # None =>
       /\ Faithful
       /\ ~tweening =>
            {d \in Dots : dots[d].at.shade # "none"} =
              CASE current \in {"grid", "changed", "end"} -> Dots
                [] current = "swarm" -> Changed
                [] OTHER -> {d \in Dots : SizeKind[d] # None /\
                              (Compact(view) => d \in Order(current))}

(***************************************************************************)
(* Where the marks agree: the ring is around the dot the tooltip names,    *)
(* the keyboard's ring around the highlighted product's dot, which is the  *)
(* one announced last, so that Enter opens what was announced.  A size     *)
(* case whose product has no dot is highlighted without a ring, while the  *)
(* tooltip and the announcement stay with another product: only then do    *)
(* they part.  Once the step's effect has run the keyboard is on a product *)
(* of the step on screen.                                                  *)
(***************************************************************************)
MarksAgree ==
  /\ hovered = Tipped
  /\ highlighted = IF highlight \in Dots THEN highlight ELSE None
  /\ highlight \in Dots => live = highlight
  /\ ~stepDue /\ highlight # None => highlight \in Order(Kind(view))

(***************************************************************************)
(* When the reader stops, the picture catches up: the step at the trigger  *)
(* line, drawn on the stage as it is, whatever scrolls, turns, font loads  *)
(* and frames came in between.                                             *)
(***************************************************************************)
CaughtUp ==
  /\ indexRef = ActiveStep(window, scroll) /\ view.index = indexRef
  /\ view.size = stage /\ Rendered /\ Faithful /\ ~tweening
  /\ visible = (scroll \in Seen)
PictureCatchesUp == <>[]CaughtUp
=============================================================================
