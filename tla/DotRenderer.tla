---------------------------- MODULE DotRenderer ----------------------------
(***************************************************************************)
(* The canvas engine of the pinned graphic (components/graphicRenderer.ts).*)
(* Every product is a dot on its way to a target; a new step, a new layout *)
(* and a stage that leaves the screen may each interrupt a tween.  A dot's *)
(* place is a name and the layout it was computed for; radius and color    *)
(* follow the place and are left out, and alpha is a shade:                *)
(*   "none" 0, "faint" 0.26 (not pickable), "dim" 0.34, "full" 1,          *)
(*   "some" anything on the way.                                           *)
(***************************************************************************)
EXTENDS Integers, FiniteSets

CONSTANTS
  None,        \* JavaScript's null
  Dots,        \* the products
  Changed,     \* those with a direction, "more" or "less"
  SizeKind,    \* "shrink", "grow" or None for each product
  Late,        \* dots whose tween is delayed: those on the right
  Duration     \* TWEEN_MS, in frames

ASSUME DotRendererAssumption ==
  /\ SizeKind \in [Dots -> {"shrink", "grow", None}]
  /\ \A d \in Dots : SizeKind[d] # None => d \in Changed
  /\ Changed \subseteq Dots /\ Late \subseteq Dots
  /\ Duration \in Nat \ {0}

VARIABLES
  reduced,      \* prefers-reduced-motion
  current,      \* the step drawn
  geometry,     \* the layout, None before the first
  dots,         \* each dot's from, to, delay, and where it is
  tweening,
  frame,        \* a tick is requested
  elapsed,      \* frames since the tween began
  visible,
  hovered,
  highlighted

tweenVars == <<dots, tweening, frame, elapsed>>
rendererVars == <<reduced, current, geometry, tweenVars, visible, hovered, highlighted>>

Steps == {"grid", "changed", "swarm", "shrinks", "grows", "end"}

At(place, g, shade) == [place |-> place, of |-> g, shade |-> shade]
Nowhere == At("nowhere", None, "none")

\* targetFor.  A size case is at its card; compact rows hide the group not shown.
Target(d, step, g) ==
  CASE step \in {"grid", "end"} -> At("grid", g, "full")
    [] step = "changed" -> At("grid", g, IF d \in Changed THEN "full" ELSE "dim")
    [] step = "swarm" -> IF d \in Changed THEN At("swarm", g, "full") ELSE At("grid", g, "none")
    [] step \in {"shrinks", "grows"} ->
         IF SizeKind[d] # None
         THEN At("card", g, IF (step = "shrinks") = (SizeKind[d] = "shrink") THEN "full"
                            ELSE IF g.compact THEN "none" ELSE "faint")
         ELSE At(IF d \in Changed THEN "swarm" ELSE "grid", g, "none")

\* apply, strictly between the ends of a tween.
Between(from, to) ==
  IF from = to THEN to
  ELSE At("between", None, IF from.shade = "none" /\ to.shade = "none" THEN "none" ELSE "some")

RendererInit(step) ==
  /\ reduced \in BOOLEAN
  /\ current = step /\ geometry = None
  /\ dots = [d \in Dots |-> [from |-> Nowhere, to |-> Nowhere, delay |-> 0, at |-> Nowhere]]
  /\ tweening = FALSE /\ frame = FALSE /\ elapsed = 0
  /\ visible = TRUE /\ hovered = None /\ highlighted = None

---------------------------------------------------------------------------
Aimed(d, to, jump) ==
  LET from == dots[d].at
      moves == <<from.place, from.of>> # <<to.place, to.of>>
  IN  [from |-> from, to |-> to, delay |-> IF moves /\ d \in Late THEN 1 ELSE 0,
       at |-> IF jump THEN to ELSE from]

\* Mutant of Go: the frame that was requested is not cancelled.
GoUncancelled(step, g, instant) ==
  /\ current' = step /\ geometry' = g
  /\ IF g = None THEN UNCHANGED tweenVars
     ELSE LET jump == instant \/ reduced \/ ~visible IN
          /\ dots' = [d \in Dots |-> Aimed(d, Target(d, step, g), jump)]
          /\ tweening' = ~jump
          /\ frame' = (frame \/ ~jump)
          /\ elapsed' = IF jump THEN elapsed ELSE 0

\* go: an animation of its own, or a jump.
Go(step, g, instant) ==
  /\ current' = step /\ geometry' = g
  /\ IF g = None THEN UNCHANGED tweenVars
     ELSE LET jump == instant \/ reduced \/ ~visible IN
          /\ dots' = [d \in Dots |-> Aimed(d, Target(d, step, g), jump)]
          /\ tweening' = ~jump
          /\ frame' = ~jump
          /\ elapsed' = IF jump THEN elapsed ELSE 0

SetGeometry(g) == Go(current, g, TRUE) /\ UNCHANGED <<reduced, visible, hovered, highlighted>>

\* A dot of the tween that is on, where apply puts it.
PutAt(dot, at) == [from |-> dot.from, to |-> dot.to, delay |-> dot.delay, at |-> at]

Arrived(d) == PutAt(dots[d], dots[d].to)

\* setVisible: a tween nobody watches is finished at once.
SetVisible(on) ==
  /\ visible' = on
  /\ IF ~on /\ tweening
     THEN /\ dots' = [d \in Dots |-> Arrived(d)]
          /\ tweening' = FALSE /\ frame' = FALSE
          /\ UNCHANGED elapsed
     ELSE UNCHANGED tweenVars
  /\ UNCHANGED <<reduced, current, geometry, hovered, highlighted>>

\* apply for a dot, t frames into the tween.
Moved(d, t) ==
  LET dot == dots[d]
      k == t - dot.delay
  IN  PutAt(dot, IF k <= 0 THEN dot.from
                 ELSE IF k >= Duration THEN dot.to ELSE Between(dot.from, dot.to))

\* tick; frames may be dropped.  The slowest dot takes Duration + 1.
Tick ==
  /\ frame
  /\ \E t \in (elapsed + 1)..(Duration + 1) :
       LET done == \A d \in Dots : t - dots[d].delay >= Duration IN
       /\ elapsed' = t
       /\ dots' = [d \in Dots |-> Moved(d, t)]
       /\ frame' = ~done /\ tweening' = (tweening /\ ~done)
  /\ UNCHANGED <<reduced, current, geometry, visible, hovered, highlighted>>

\* pick: what may be under the pointer.
Picked ==
  IF current \in {"shrinks", "grows"} THEN {}
  ELSE {d \in Dots : dots[d].at.shade \in {"dim", "full", "some"}}

\* setHover and setHighlight
Mark(hover, highlight) ==
  /\ hovered' = hover /\ highlighted' = highlight
  /\ UNCHANGED <<reduced, current, geometry, tweenVars, visible>>
=============================================================================
