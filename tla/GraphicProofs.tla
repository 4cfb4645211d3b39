--------------------------- MODULE GraphicProofs ---------------------------
(***************************************************************************)
(* Proofs about Graphic, for every story, set of products, window and      *)
(* stage, and any number of the reader's moves: a turn of the window keeps *)
(* the step, the marks agree, and the picture at rest is the step's.       *)
(***************************************************************************)
EXTENDS Graphic, WellFoundedInduction, TLAPS

---------------------------------------------------------------------------
(* The active step                                                         *)

\* The step looked up is one of the story's.
LEMMA ActiveStepType ==
  ASSUME NEW w \in Windows, NEW s \in Offsets
  PROVE  ActiveStep(w, s) \in DOMAIN StepList
<1> DEFINE Crossed == {i \in DOMAIN Lines[w] : Lines[w][i] < s} \cup {1}
<1>1. Crossed \subseteq 1..Len(StepList) /\ 1 \in Crossed /\ Len(StepList) \in Nat
      /\ DOMAIN StepList = 1..Len(StepList)
  BY GraphicAssumption
<1>2. \E m \in Crossed : \A i \in Crossed : m >= i
  <2> DEFINE Bounds == {u \in 1..Len(StepList) : \A i \in Crossed : u >= i}
  <2>1. Len(StepList) \in Bounds
    BY <1>1
  <2>2. Bounds \subseteq Nat /\ Bounds # {}
    BY <1>1, <2>1
  <2>3. PICK m \in Bounds : \A u \in Bounds : ~(<<u, m>> \in OpToRel(<, Nat))
    <3> HIDE DEF Bounds
    <3> QED BY <2>2, NatLessThanWellFounded, WFMin
  <2>4. m \in Crossed
    <3>1. SUFFICES ASSUME m \notin Crossed PROVE FALSE
      OBVIOUS
    <3>2. m - 1 \in Bounds
      BY <1>1, <2>1, <3>1
    <3>3. <<m - 1, m>> \in OpToRel(<, Nat)
      BY <2>2, <3>2 DEF OpToRel
    <3>4. QED BY <2>3, <3>2, <3>3
  <2>5. QED BY <2>4
<1>3. QED BY <1>1, <1>2 DEF ActiveStep, Max

\* Just past the line of a step, it is that step that is active.
LEMMA ActiveStepPastLine ==
  ASSUME NEW w \in Windows, NEW i \in DOMAIN StepList
  PROVE  ActiveStep(w, Lines[w][i] + 1) = i
<1> DEFINE Crossed == {j \in DOMAIN Lines[w] : Lines[w][j] < Lines[w][i] + 1} \cup {1}
<1>1. DOMAIN Lines[w] = 1..Len(StepList) /\ Len(StepList) \in Nat /\ i \in 1..Len(StepList)
  BY GraphicAssumption
<1>2. \A j \in DOMAIN Lines[w] : Lines[w][j] \in Int
      /\ \A k \in DOMAIN Lines[w] : j < k => Lines[w][j] < Lines[w][k]
  BY StepScrollAssumption
<1>3. i \in Crossed
  BY <1>1, <1>2
<1>4. \A j \in Crossed : i >= j
  BY <1>1, <1>2
<1>5. \A m \in Crossed : (\A j \in Crossed : m >= j) => m = i
  BY <1>1, <1>3, <1>4
<1> HIDE DEF Crossed
<1>6. Max(Crossed) = i
  BY <1>3, <1>4, <1>5 DEF Max
<1>7. QED BY <1>6 DEF ActiveStep, Crossed

---------------------------------------------------------------------------
(* A turn keeps the step                                                   *)

\* Until the reader scrolls or the window turns, the step last found is the active one.
ScrollInv ==
  /\ window \in Windows /\ scroll \in Offsets
  /\ indexRef \in DOMAIN StepList
  /\ ~read /\ ~turned => indexRef = ActiveStep(window, scroll)

\* Whatever the graphic does, its scroll effect does one of these or nothing.
ScrollStep ==
  \/ Update \/ Reanchor \/ Nudge
  \/ \E s \in Offsets : ScrollTo(s) \/ Turn(s)
  \/ UNCHANGED scrollVars

LEMMA NextScrolls == [Next]_vars => ScrollStep
<1>1. ASSUME System PROVE ScrollStep
  BY <1>1 DEF System, ScrollStep, ScrollUpdate, TurnListeners, AnimationFrame, Measure, Observe,
              FontsReady
<1>2. ASSUME React PROVE ScrollStep
  BY <1>2 DEF React, ScrollStep, Commit, StepEffect, scrollVars
<1>3. ASSUME User PROVE ScrollStep
  BY <1>3 DEF User, ScrollStep, MoveWindow, PointerMove, Click, Key, Escape, Blur, Still, scrollVars
<1>4. ASSUME UNCHANGED vars PROVE ScrollStep
  BY <1>4 DEF vars, ScrollStep
<1>5. QED BY <1>1, <1>2, <1>3, <1>4 DEF Next

LEMMA ScrollInitInv == Init => ScrollInv
  BY ActiveStepType DEF Init, ScrollInit, ScrollInv, Offsets

LEMMA ScrollStepInv == ScrollInv /\ ScrollStep => ScrollInv'
<1> SUFFICES ASSUME ScrollInv, ScrollStep PROVE ScrollInv'
  OBVIOUS
<1> USE DEF ScrollInv
<1>1. CASE Update
  BY <1>1, ActiveStepType DEF Update
<1>2. CASE Reanchor
  <2>1. Lines[window][indexRef] + 1 \in Offsets
    BY StepScrollAssumption, GraphicAssumption DEF Offsets
  <2>2. scroll' = Lines[window][indexRef] + 1 /\ window' = window /\ indexRef' = indexRef
    BY <1>2 DEF Reanchor
  <2>3. indexRef' = ActiveStep(window', scroll')
    BY <2>2, ActiveStepPastLine
  <2>4. QED BY <2>1, <2>2, <2>3
<1>3. CASE Nudge
  BY <1>3 DEF Nudge
<1>4. CASE \E s \in Offsets : ScrollTo(s)
  BY <1>4 DEF ScrollTo
<1>5. CASE \E s \in Offsets : Turn(s)
  BY <1>5 DEF Turn
<1>6. CASE UNCHANGED scrollVars
  BY <1>6 DEF scrollVars
<1>7. QED BY <1>1, <1>2, <1>3, <1>4, <1>5, <1>6 DEF ScrollStep

\* The active step changes only after the reader scrolled.
LEMMA ScrollStepKeeps == ScrollInv /\ ScrollStep => [indexRef' # indexRef => read]_scrollVars
<1> SUFFICES ASSUME ScrollInv, ScrollStep, indexRef' # indexRef PROVE read
  BY DEF scrollVars
<1>1. CASE Update
  BY <1>1 DEF Update, ScrollInv
<1>2. CASE ~Update
  BY <1>2 DEF ScrollStep, Reanchor, Nudge, ScrollTo, Turn, scrollVars
<1>3. QED BY <1>1, <1>2

(***************************************************************************)
(* Story.tsx:131: no turn of the window changes the active step, for every *)
(* layout of the article's steps in either shape of the window.            *)
(***************************************************************************)
THEOREM TurnsKeepTheStep == Spec => TurnKeepsTheStep
<1>1. ScrollInv /\ [Next]_vars => ScrollInv'
  BY NextScrolls, ScrollStepInv
<1>2. ScrollInv /\ [Next]_vars => [indexRef' # indexRef => read]_scrollVars
  BY NextScrolls, ScrollStepKeeps
<1>3. QED BY ScrollInitInv, <1>1, <1>2, PTL DEF Spec, TurnKeepsTheStep

---------------------------------------------------------------------------
(* The renderer                                                            *)

\* A dot at rest is at its target; a dot of a tween is on its way there.
RendererInv ==
  /\ reduced \in BOOLEAN /\ visible \in BOOLEAN
  /\ tweening \in BOOLEAN /\ frame = tweening /\ elapsed \in Nat
  /\ \A d \in Dots : dots[d].delay \in {0, 1}
  /\ geometry = None => ~tweening
  /\ geometry # None => \A d \in Dots :
       (IF tweening THEN dots[d].to ELSE dots[d].at) = Target(d, current, geometry)

LEMMA GoInv ==
  ASSUME RendererInv, NEW step, NEW g, NEW instant \in BOOLEAN, Go(step, g, instant),
         g = None => geometry = None, UNCHANGED <<reduced, visible>>
  PROVE  RendererInv'
<1>1. CASE g = None
  BY <1>1 DEF Go, RendererInv, tweenVars
<1>2. CASE g # None
  <2> DEFINE jump == instant \/ reduced \/ ~visible
  <2>1. /\ dots' = [d \in Dots |-> Aimed(d, Target(d, step, g), jump)]
        /\ tweening' = ~jump /\ frame' = ~jump
        /\ elapsed' = (IF jump THEN elapsed ELSE 0)
        /\ current' = step /\ geometry' = g
    BY <1>2 DEF Go
  <2>2. jump \in BOOLEAN
    BY DEF RendererInv
  <2>3. \A d \in Dots : /\ dots'[d].delay \in {0, 1}
                        /\ dots'[d].to = Target(d, step, g)
                        /\ jump => dots'[d].at = Target(d, step, g)
    <3> HIDE DEF jump
    <3> QED BY <2>1 DEF Aimed
  <2>4. QED BY <1>2, <2>1, <2>2, <2>3 DEF RendererInv
<1>3. QED BY <1>1, <1>2

LEMMA SetVisibleInv ==
  ASSUME RendererInv, NEW on \in BOOLEAN, SetVisible(on)
  PROVE  RendererInv'
<1>1. CASE ~on /\ tweening
  <2>1. \A d \in Dots : dots'[d].delay = dots[d].delay /\ dots'[d].at = dots[d].to
    BY <1>1 DEF SetVisible, Arrived, PutAt
  <2>2. QED BY <1>1, <2>1 DEF SetVisible, RendererInv
<1>2. CASE ~(~on /\ tweening)
  BY <1>2 DEF SetVisible, RendererInv, tweenVars
<1>3. QED BY <1>1, <1>2

LEMMA TickInv ==
  ASSUME RendererInv, Tick
  PROVE  RendererInv'
<1> DEFINE done(t) == \A d \in Dots : t - dots[d].delay >= Duration
<1>1. PICK t \in (elapsed + 1)..(Duration + 1) :
        /\ elapsed' = t
        /\ dots' = [d \in Dots |-> Moved(d, t)]
        /\ frame' = ~done(t) /\ tweening' = (tweening /\ ~done(t))
  BY DEF Tick
<1>2. t \in Nat /\ Duration \in Nat \ {0} /\ tweening /\ geometry # None
      /\ UNCHANGED <<reduced, visible, current, geometry>>
  BY DotRendererAssumption DEF Tick, RendererInv
<1>3. \A d \in Dots : /\ dots'[d].delay = dots[d].delay /\ dots'[d].to = dots[d].to
                      /\ t - dots[d].delay >= Duration => dots'[d].at = dots[d].to
  BY <1>1, <1>2 DEF Moved, PutAt, RendererInv
<1>4. QED BY <1>1, <1>2, <1>3 DEF RendererInv

---------------------------------------------------------------------------
(* What is rendered                                                        *)

\* The renderer follows what was committed; cards found too high come again as rows.
ViewInv ==
  /\ stage \in Sizes /\ view \in Views /\ want \in Views /\ stepDue \in BOOLEAN
  /\ ~stepDue => current = Kind(view)
  /\ view.size # None => want.size # None
  /\ view.size # None /\ ~Urgent => geometry = Geometry(view)
  /\ Urgent => /\ view.size # None /\ ~Compact(view)
               /\ want.size = view.size /\ want.overflow = view.size

\* A rendered layout is not null.
LEMMA GeometryIsNotNone ==
  ASSUME NEW v \in Views, v.size # None
  PROVE  Geometry(v) # None
<1>1. Geometry(v) \in [size : Sizes, measured : {"loading", "loaded"}, compact : BOOLEAN]
  BY DEF Geometry, Views, Compact
<1>2. QED BY <1>1, NoneIsNoRecord

\* Handlers that change what was set in one field, outside an urgent render.
LEMMA WantInv ==
  ASSUME ViewInv, ~Urgent, UNCHANGED <<view, stepDue, current, geometry>>, stage' \in Sizes,
         want' \in Views, want'.overflow = want.overflow,
         want.size # None => want'.size # None
  PROVE  ViewInv'
  BY DEF ViewInv, Urgent, Kind, Geometry, Compact

LEMMA CommitInv ==
  ASSUME ViewInv, RendererInv, Commit
  PROVE  ViewInv' /\ RendererInv'
<1> USE DEF ViewInv
<1>1. view' = want /\ ~stepDue /\ stepDue' = (Kind(want) # Kind(view)) /\ UNCHANGED stage
      /\ current = Kind(view)
  BY DEF Commit
<1>2. CASE ~LayoutDue
  <2>1. UNCHANGED <<rendererVars, want>> /\ ~Urgent
    BY <1>1, <1>2 DEF Commit, LayoutEffect, LayoutDue, Urgent, Compact
  <2>2. Geometry(want) = Geometry(view) /\ want.size = view.size
    BY <1>2 DEF LayoutDue, Geometry
  <2>3. RendererInv'
    BY <2>1 DEF RendererInv, rendererVars, tweenVars
  <2>4. ViewInv'
    BY <1>1, <2>1, <2>2 DEF rendererVars, Kind, Urgent, Geometry, Compact
  <2>5. QED BY <2>3, <2>4
<1>3. CASE want.size = None
  <2>1. UNCHANGED <<rendererVars, want>> /\ view.size = None
    BY <1>1, <1>3 DEF Commit, LayoutEffect
  <2>2. RendererInv'
    BY <2>1 DEF RendererInv, rendererVars, tweenVars
  <2>3. ViewInv'
    BY <1>1, <1>3, <2>1 DEF rendererVars, Kind, Urgent
  <2>4. QED BY <2>2, <2>3
<1>4. CASE LayoutDue /\ want.size # None /\ Overflows
  <2>1. UNCHANGED rendererVars /\ want' = [want EXCEPT !.overflow = want.size] /\ ~Compact(want)
    BY <1>4 DEF Commit, LayoutEffect, Overflows
  <2>2. RendererInv'
    BY <2>1 DEF RendererInv, rendererVars, tweenVars
  <2>3. want.overflow # want.size
    BY <1>4, <2>1 DEF Compact
  <2>4. want' \in Views /\ want'.size = want.size /\ want'.overflow = want.size
    BY <2>1 DEF Views
  <2>5. ViewInv'
    BY <1>1, <1>4, <2>1, <2>3, <2>4 DEF rendererVars, Kind, Urgent, Compact
  <2>6. QED BY <2>2, <2>5
<1>5. CASE LayoutDue /\ want.size # None /\ ~Overflows
  <2>1. SetGeometry(Geometry(want)) /\ UNCHANGED want
    BY <1>5 DEF Commit, LayoutEffect
  <2>2. Geometry(want) # None
    BY <1>5, GeometryIsNotNone
  <2>3. RendererInv'
    BY <2>1, <2>2, GoInv DEF SetGeometry
  <2>4. geometry' = Geometry(want) /\ current' = current
    BY <2>1 DEF SetGeometry, Go
  <2>5. ViewInv'
    BY <1>1, <1>5, <2>1, <2>4 DEF Kind, Urgent, Geometry, Compact
  <2>6. QED BY <2>3, <2>5
<1>6. QED BY <1>2, <1>3, <1>4, <1>5

LEMMA StepEffectInv ==
  ASSUME ViewInv, RendererInv, StepEffect
  PROVE  ViewInv' /\ RendererInv'
<1>1. Go(Kind(view), geometry, FALSE) /\ UNCHANGED <<reduced, visible, stage, view, want>>
      /\ stepDue' = FALSE
  BY DEF StepEffect
<1>2. RendererInv'
  BY <1>1, GoInv
<1>3. current' = Kind(view) /\ geometry' = geometry
  BY <1>1 DEF Go
<1>4. ViewInv'
  BY <1>1, <1>3 DEF ViewInv, Kind, Urgent, Geometry, Compact
<1>5. QED BY <1>2, <1>4

LEMMA SystemInv ==
  ASSUME ScrollInv, ViewInv, RendererInv, ~Urgent, System
  PROVE  ViewInv' /\ RendererInv'
<1> USE DEF Unmarked
<1>1. CASE ScrollUpdate
  <2>1. indexRef' \in DOMAIN StepList
    BY <1>1, ActiveStepType DEF ScrollUpdate, Update, ScrollInv
  <2>2. want' \in Views /\ want'.overflow = want.overflow /\ want'.size = want.size
    BY <1>1, <2>1 DEF ScrollUpdate, Views, ViewInv
  <2>3. UNCHANGED <<rendererVars, stage, view, stepDue>>
    BY <1>1 DEF ScrollUpdate
  <2>4. RendererInv'
    BY <2>3 DEF RendererInv, rendererVars, tweenVars
  <2>5. ViewInv'
    BY <2>2, <2>3, WantInv DEF rendererVars, ViewInv
  <2>6. QED BY <2>4, <2>5
<1>2. CASE TurnListeners
  <2>1. UNCHANGED <<rendererVars, want, stage, view, stepDue>>
    BY <1>2 DEF TurnListeners
  <2>2. RendererInv'
    BY <2>1 DEF RendererInv, rendererVars, tweenVars
  <2>3. QED BY <2>1, <2>2, WantInv DEF rendererVars, ViewInv
<1>3. CASE AnimationFrame
  <2>1. Tick /\ UNCHANGED <<want, stage, view, stepDue, current, geometry>>
    BY <1>3 DEF AnimationFrame, Tick
  <2>2. RendererInv'
    BY <2>1, TickInv
  <2>3. QED BY <2>1, <2>2, WantInv DEF ViewInv
<1>4. CASE Measure
  <2>1. want' \in Views /\ want'.overflow = want.overflow /\ want'.size = stage
    BY <1>4 DEF Measure, Views, ViewInv
  <2>2. UNCHANGED <<rendererVars, stage, view, stepDue>>
    BY <1>4 DEF Measure
  <2>3. RendererInv'
    BY <2>2 DEF RendererInv, rendererVars, tweenVars
  <2>4. stage # None
    BY GraphicAssumption DEF ViewInv
  <2>5. ViewInv'
    BY <2>1, <2>2, <2>4, WantInv DEF rendererVars, ViewInv
  <2>6. QED BY <2>3, <2>5
<1>5. CASE Observe
  <2> DEFINE on == scroll \in Seen
  <2>1. on \in BOOLEAN /\ SetVisible(on) /\ UNCHANGED <<want, stage, view, stepDue>>
    <3>1. on \in BOOLEAN
      BY SMT
    <3>2. SetVisible(on) /\ UNCHANGED <<want, stage, view, stepDue>>
      BY <1>5, Zenon DEF Observe
    <3>3. QED BY <3>1, <3>2
  <2> HIDE DEF on
  <2>2. RendererInv'
    BY <2>1, SetVisibleInv
  <2>3. UNCHANGED <<current, geometry>>
    BY <2>1 DEF SetVisible
  <2>4. QED BY <2>1, <2>2, <2>3, WantInv DEF ViewInv
<1>6. CASE FontsReady
  <2>1. want' \in Views /\ want'.overflow = want.overflow /\ want'.size = want.size
    BY <1>6 DEF FontsReady, Views, ViewInv
  <2>2. UNCHANGED <<rendererVars, stage, view, stepDue>>
    BY <1>6 DEF FontsReady
  <2>3. RendererInv'
    BY <2>2 DEF RendererInv, rendererVars, tweenVars
  <2>4. ViewInv'
    BY <2>1, <2>2, WantInv DEF rendererVars, ViewInv
  <2>5. QED BY <2>3, <2>4
<1>7. QED BY <1>1, <1>2, <1>3, <1>4, <1>5, <1>6 DEF System

\* Marks do not touch the tween, and a moved window leaves the stage one of its sizes.
LEMMA UserInv ==
  ASSUME ScrollInv, ViewInv, RendererInv, ~Urgent, User
  PROVE  ViewInv' /\ RendererInv'
<1>1. UNCHANGED <<reduced, current, geometry, tweenVars, visible, view, want, stepDue>>
  BY DEF User, MoveWindow, PointerMove, Click, Key, Escape, Blur, Still, ShowTip, HideTip,
         Highlight, Mark, rendererVars, reactVars
<1>2. stage' \in Sizes
  <2>1. \A w \in Windows : Stages[w] \subseteq Sizes
    BY GraphicAssumption
  <2>2. CASE MoveWindow
    BY <2>1, <2>2 DEF MoveWindow, Turn, ScrollInv, ViewInv
  <2>3. CASE ~MoveWindow
    BY <2>3 DEF User, PointerMove, Click, Key, Escape, Blur, Still, ViewInv
  <2>4. QED BY <2>2, <2>3
<1>3. RendererInv'
  BY <1>1 DEF RendererInv, tweenVars
<1>4. QED BY <1>1, <1>2, <1>3, WantInv DEF ViewInv

LEMMA PictureInit == Init => ViewInv /\ RendererInv
<1> SUFFICES ASSUME Init PROVE ViewInv /\ RendererInv
  OBVIOUS
<1>1. view \in Views /\ want \in Views /\ view.overflow = None /\ want.overflow = None
      /\ view.size = None
  <2>1. 1 \in DOMAIN StepList
    BY GraphicAssumption
  <2>2. indexRef \in DOMAIN StepList
    BY ScrollInitInv DEF ScrollInv
  <2>3. QED BY <2>1, <2>2 DEF Init, Views
<1>2. stage \in Sizes
  BY GraphicAssumption DEF Init, ScrollInit
<1>3. RendererInv
  BY DEF Init, RendererInit, RendererInv
<1>4. current = Kind(view)
  BY DEF Init, RendererInit, Kind
<1>5. QED BY <1>1, <1>2, <1>3, <1>4 DEF ViewInv, Urgent, Init

LEMMA PictureNext ==
  ASSUME ScrollInv, ViewInv, RendererInv, [Next]_vars
  PROVE  ViewInv' /\ RendererInv'
<1>1. CASE React
  BY <1>1, CommitInv, StepEffectInv DEF React
<1>2. CASE ~Urgent /\ System
  BY <1>2, SystemInv
<1>3. CASE ~Urgent /\ User
  BY <1>3, UserInv
<1>4. CASE UNCHANGED vars
  <2>1. RendererInv'
    BY <1>4 DEF RendererInv, vars, rendererVars, tweenVars
  <2>2. ViewInv'
    BY <1>4 DEF ViewInv, vars, rendererVars, reactVars, Urgent, Kind, Geometry, Compact
  <2>3. QED BY <2>1, <2>2
<1>5. QED BY <1>1, <1>2, <1>3, <1>4 DEF Next

\* At rest, the dots one can see are those the step is about.
LEMMA PictureAtRest ==
  ASSUME ViewInv, RendererInv
  PROVE  RestingPicture
<1>1. tweening = frame
  BY DEF RendererInv
<1>2. ~tweening /\ geometry # None => \A d \in Dots : dots[d].at = Target(d, current, geometry)
  BY DEF RendererInv
<1>3. ASSUME Rendered, view.size # None
      PROVE  Faithful
  BY <1>3 DEF ViewInv, Rendered, Urgent, Faithful
<1>4. ASSUME Rendered, view.size # None, ~tweening
      PROVE  {d \in Dots : dots[d].at.shade # "none"} =
               CASE current \in {"grid", "changed", "end"} -> Dots
                 [] current = "swarm" -> Changed
                 [] OTHER -> {d \in Dots : SizeKind[d] # None /\
                               (Compact(view) => d \in Order(current))}
  <2>1. current \in Steps /\ geometry = Geometry(view) /\ geometry # None
    <3>1. Faithful
      BY <1>3, <1>4
    <3>2. StepList[view.index] \in Steps
      BY GraphicAssumption DEF ViewInv, Views
    <3>3. Geometry(view) # None
      BY <1>4, GeometryIsNotNone DEF ViewInv
    <3>4. QED BY <3>1, <3>2, <3>3 DEF Faithful, Kind
  <2>2. \A d \in Dots : dots[d].at.shade = Target(d, current, geometry).shade
    BY <1>2, <1>4, <2>1
  <2>3. geometry.compact = Compact(view)
    BY <2>1 DEF Geometry
  <2>4. Changed \subseteq Dots
    BY DotRendererAssumption
  <2>5. CASE current \in {"grid", "changed", "end"}
    BY <2>2, <2>5 DEF Target, At
  <2>6. CASE current = "swarm"
    BY <2>2, <2>4, <2>6 DEF Target, At
  <2>7. CASE current = "shrinks"
    <3>1. \A d \in Dots : d \in Order(current) <=> SizeKind[d] = "shrink"
      BY <2>7, GraphicAssumption DEF Order
    <3>2. QED BY <2>2, <2>3, <2>7, <3>1 DEF Target, At
  <2>8. CASE current = "grows"
    <3>1. \A d \in Dots : d \in Order(current) <=> SizeKind[d] = "grow"
      BY <2>8, GraphicAssumption DEF Order
    <3>2. QED BY <2>2, <2>3, <2>8, <3>1, DotRendererAssumption DEF Target, At
  <2>9. QED BY <2>1, <2>5, <2>6, <2>7, <2>8 DEF Steps
<1>5. QED BY <1>1, <1>2, <1>3, <1>4 DEF RestingPicture

(***************************************************************************)
(* graphicRenderer.ts:136-146 and Graphic.tsx:272-321: whatever tweens,    *)
(* layouts and departures from the screen interrupted one another, the     *)
(* picture at rest is the one of the step and the stage last rendered.     *)
(***************************************************************************)
THEOREM PictureIsTheStep == Spec => []RestingPicture
<1>1. ScrollInv /\ ViewInv /\ RendererInv /\ [Next]_vars => (ScrollInv /\ ViewInv /\ RendererInv)'
  BY NextScrolls, ScrollStepInv, PictureNext
<1>2. Init => ScrollInv /\ ViewInv /\ RendererInv
  BY ScrollInitInv, PictureInit
<1>3. ViewInv /\ RendererInv => RestingPicture
  BY PictureAtRest
<1>4. QED BY <1>1, <1>2, <1>3, PTL DEF Spec

---------------------------------------------------------------------------
(* The marks                                                               *)

\* No dot is null.
LEMMA NoDotIsNone == None \notin Dots
  BY GraphicAssumption

LEMMA MarksInit == Init => MarksAgree
  BY NoDotIsNone DEF Init, RendererInit, MarksAgree, Tipped

LEMMA MarksNext ==
  ASSUME MarksAgree, ViewInv, [Next]_vars
  PROVE  MarksAgree'
<1> USE DEF MarksAgree
<1>1. CASE Commit
  <2>1. UNCHANGED <<hovered, highlighted, tip, highlight, live>>
    BY <1>1 DEF Commit, LayoutEffect, SetGeometry, rendererVars, markVars
  <2>2. ~stepDue /\ (~stepDue' => Kind(view)' = Kind(view))
    BY <1>1 DEF Commit, Kind
  <2>3. QED BY <2>1, <2>2 DEF Tipped
<1>2. CASE StepEffect
  BY <1>2, NoDotIsNone DEF StepEffect, Tipped
<1>3. CASE System
  <2>1. UNCHANGED <<hovered, highlighted, tip, highlight, live, stepDue, view>>
    BY <1>3 DEF System, ScrollUpdate, TurnListeners, AnimationFrame, Measure, Observe, FontsReady,
                Unmarked, SetVisible, Tick, rendererVars, markVars
  <2>2. QED BY <2>1 DEF Tipped, Kind
<1>4. CASE User
  <2>1. UNCHANGED <<stepDue, view>>
    BY <1>4 DEF User, MoveWindow, PointerMove, Click, Key, Escape, Blur, Still, reactVars
  <2>2. ASSUME NEW d, NEW byTap \in BOOLEAN, d \in Dots, tip' = [id |-> d, tap |-> byTap]
        PROVE  Tipped' = d
    <3>1. tip' \in [id : Dots, tap : BOOLEAN]
      BY <2>2
    <3>2. tip' # None /\ tip'.id = d
      BY <2>2, <3>1, NoneIsNoRecord
    <3>3. QED BY <3>2 DEF Tipped
  <2>3. Picked \subseteq Dots
    BY DEF Picked
  <2>4. CASE MoveWindow
    BY <2>1, <2>4 DEF MoveWindow, Tipped, Kind, rendererVars, markVars
  <2>5. CASE PointerMove
    <3>1. UNCHANGED <<highlight, highlighted, live>>
      BY <2>5 DEF PointerMove, ShowTip, HideTip, Mark
    <3>2. hovered' = Tipped'
      <4>1. CASE \E d \in Picked : ShowTip(d, FALSE)
        BY <2>2, <2>3, <4>1 DEF ShowTip, Mark
      <4>2. CASE HideTip
        BY <4>2 DEF HideTip, Mark, Tipped
      <4>3. QED BY <2>5, <4>1, <4>2 DEF PointerMove
    <3>3. QED BY <2>1, <3>1, <3>2 DEF Kind
  <2>6. CASE Click
    <3>1. UNCHANGED <<highlight, highlighted, live>>
      BY <2>6 DEF Click, ShowTip, HideTip, Mark
    <3>2. hovered' = Tipped'
      <4>1. CASE \E d \in Picked : ShowTip(d, TRUE)
        BY <2>2, <2>3, <4>1 DEF ShowTip, Mark
      <4>2. CASE HideTip
        BY <4>2 DEF HideTip, Mark, Tipped
      <4>3. QED BY <2>6, <4>1, <4>2 DEF Click
    <3>3. QED BY <2>1, <3>1, <3>2 DEF Kind
  <2>7. CASE Key
    <3>1. PICK d \in Reached(Kind(view)) : Highlight(d)
      BY <2>7 DEF Key
    <3>2. d \in Order(Kind(view)) /\ highlight' = d
      BY <3>1 DEF Reached, Highlight
    <3>3. CASE d \in Dots
      <4>1. hovered' = Tipped' /\ highlighted' = d /\ live' = d
        BY <2>2, <3>1, <3>3 DEF Highlight, Mark
      <4>2. QED BY <2>1, <3>2, <3>3, <4>1 DEF Kind
    <3>4. CASE d \notin Dots
      <4>1. hovered' = hovered /\ tip' = tip /\ highlighted' = None
        BY <3>1, <3>4 DEF Highlight, Mark
      <4>2. QED BY <2>1, <3>2, <3>4, <4>1 DEF Kind, Tipped
    <3>5. QED BY <3>3, <3>4
  <2>8. CASE Escape
    BY <2>1, <2>8, NoDotIsNone DEF Escape, Mark, Tipped
  <2>9. CASE Blur
    BY <2>1, <2>9, NoDotIsNone DEF Blur, Mark, Tipped
  <2>10. QED BY <1>4, <2>4, <2>5, <2>6, <2>7, <2>8, <2>9 DEF User
<1>5. CASE UNCHANGED vars
  BY <1>5 DEF vars, rendererVars, reactVars, markVars, Tipped, Kind
<1>6. QED BY <1>1, <1>2, <1>3, <1>4, <1>5 DEF Next, React

(***************************************************************************)
(* Graphic.tsx:324-332 and its pointer and key handlers: the ring is where *)
(* the tooltip is, the keyboard's ring and the announcement are of the     *)
(* highlighted product, or it is a size case without a dot, which has no   *)
(* ring; and the keyboard is on a product of the step on screen.           *)
(***************************************************************************)
THEOREM MarksAlwaysAgree == Spec => []MarksAgree
<1> DEFINE IInv == ScrollInv /\ ViewInv /\ RendererInv /\ MarksAgree
<1>1. IInv /\ [Next]_vars => IInv'
  BY NextScrolls, ScrollStepInv, PictureNext, MarksNext
<1>2. Init => IInv
  BY ScrollInitInv, PictureInit, MarksInit
<1>3. QED BY <1>1, <1>2, PTL DEF Spec
=============================================================================
