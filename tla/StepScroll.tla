----------------------------- MODULE StepScroll -----------------------------
(***************************************************************************)
(* Which step of the story is active (the effect of components/Story.tsx): *)
(* the last one whose top has crossed the trigger line, looked up once a   *)
(* frame after a scroll, and put back past the line when the window turns. *)
(***************************************************************************)
EXTENDS Integers, FiniteSetsExt

CONSTANTS
  Windows,    \* shapes of the window: side by side, stacked
  Lines,      \* for each, the offset at which each step's top is at the trigger line
  MaxScroll   \* the document's end

ASSUME StepScrollAssumption ==
  /\ MaxScroll \in Nat
  /\ \A w \in Windows : \A i \in DOMAIN Lines[w] :
       /\ Lines[w][i] \in -1..(MaxScroll - 1)
       /\ \A j \in DOMAIN Lines[w] : i < j => Lines[w][i] < Lines[w][j]

VARIABLES
  window,        \* the window's shape
  scroll,        \* window.scrollY
  turned,        \* the window has turned and its listeners have not run
  scrollFrame,   \* the effect's animation frame is requested
  indexRef,      \* the step last found active
  read           \* history: the reader scrolled since then

scrollVars == <<window, scroll, turned, scrollFrame, indexRef, read>>

Offsets == 0..MaxScroll

\* activeStep: the first step is active before any has crossed the line.
ActiveStep(w, s) == Max({i \in DOMAIN Lines[w] : Lines[w][i] < s} \cup {1})

ScrollInit ==
  /\ window \in Windows /\ scroll \in Offsets
  /\ turned = FALSE /\ scrollFrame = FALSE
  /\ indexRef = ActiveStep(window, scroll) /\ read = FALSE

\* The reader scrolls: onScroll requests a frame unless one is.
ScrollTo(s) ==
  /\ s # scroll /\ scroll' = s
  /\ scrollFrame' = TRUE /\ read' = TRUE
  /\ UNCHANGED <<window, turned, indexRef>>

\* A browser bar slides away: the height changes by less than a quarter.
Nudge ==
  /\ scrollFrame' = TRUE
  /\ UNCHANGED <<window, scroll, turned, indexRef, read>>

\* The window turns; the browser leaves the article at any offset.
Turn(s) ==
  /\ \E w \in Windows \ {window} : window' = w
  /\ scroll' = s /\ turned' = TRUE
  /\ UNCHANGED <<scrollFrame, indexRef, read>>

\* Mutant of Reanchor: a turn only updates the active step.
ReanchorNothing ==
  /\ turned /\ turned' = FALSE
  /\ scrollFrame' = TRUE
  /\ UNCHANGED <<window, scroll, indexRef, read>>

\* reanchor: the active step's top goes to just past the line.
Reanchor ==
  /\ turned /\ turned' = FALSE
  /\ scroll' = Lines[window][indexRef] + 1
  /\ scrollFrame' = TRUE
  /\ UNCHANGED <<window, indexRef, read>>

\* update, in the frame; the listeners of a resize run before a frame's callbacks.
Update ==
  /\ scrollFrame /\ ~turned
  /\ scrollFrame' = FALSE
  /\ indexRef' = ActiveStep(window, scroll) /\ read' = FALSE
  /\ UNCHANGED <<window, scroll, turned>>

---------------------------------------------------------------------------
(***************************************************************************)
(* "The step that was active goes back to just past its trigger line"      *)
(* (Story.tsx:131): the active step changes only after the reader          *)
(* scrolled, never because the window turned under the story, at whatever  *)
(* offset the browser left it and whatever frames were on their way.       *)
(***************************************************************************)
TurnKeepsTheStep == [][indexRef' # indexRef => read]_scrollVars
=============================================================================
