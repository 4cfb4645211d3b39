---------------------------- MODULE DrawerRoute ----------------------------
(***************************************************************************)
(* A product's drawer as a place in the tab's history (lib/drawerRoute.ts, *)
(* components/ProductDrawer.tsx, App.tsx, Shell.tsx and the scroll effect  *)
(* of pages/HomePage.tsx).  The router changes the history at once and     *)
(* renders later; handlers see the location that is rendered.  history.go  *)
(* is carried out later too.  A commit is rendering with its layout        *)
(* effects; the effect of the drawer's hook runs after it, and before the  *)
(* next one.                                                               *)
(***************************************************************************)
EXTENDS UseApi

CONSTANTS
  Products,
  Filters,       \* query strings of the change table, "" included
  Sections,      \* fragments of the article
  MaxHistory     \* bound: entries of the tab's history

ASSUME DrawerRouteAssumption ==
  /\ "article" \notin Products /\ "elsewhere" \notin Products
  /\ "" \in Filters /\ MaxHistory \in Nat

VARIABLES
  history,   \* the tab's history: the first entry is another site's page
  at,        \* the current entry
  going,     \* history.go(-1) calls not yet carried out
  due,       \* the navigation to the entry that is not rendered yet, None if it is
  shown,     \* the rendered location
  nav,       \* the navigation that led to it: useNavigationType
  chunk,     \* the drawer's code: "absent", "loaded"
  reloaded,  \* sessionStorage's chunk-reload
  opener,    \* the module's opener: the product whose link was clicked
  drawer,    \* the mounted drawer: the product of the rendered address, what it shows, its
             \* opener, and the product the hook's last effect asked for
  asking,    \* the drawer's requests that have not settled
  landing,   \* landedOnKind, handled
  scroll,    \* where the last commit scrolled the article, None if nowhere
  early      \* the reader acted on a page that had not caught up with the history

drawerVars == <<history, at, going, due, shown, nav, chunk, reloaded, opener,
                drawer, asking, landing, scroll, early>>

Pages == {"article", "elsewhere"} \cup Products
Locations ==
  [page : Pages, filter : Filters, hash : Sections \cup {None}, fromArticle : BOOLEAN]
Navs == {"POP", "PUSH", "REPLACE"}
Views == [status : {"loading", "error"}, data : {None}] \cup [status : {"ok"}, data : Products]
Drawers == [id : Products, view : Views, opener : Products \cup {None},
            asked : Products \cup {None}]

ASSUME NoneIsNull == None \notin Navs /\ None \notin Drawers /\ None \notin Products

DrawerTypeOK ==
  /\ history \in Seq(Locations) /\ at \in DOMAIN history
  /\ going \in Nat /\ due \in Navs \cup {None}
  /\ shown \in Locations /\ nav \in Navs
  /\ chunk \in {"absent", "loaded"} /\ reloaded \in BOOLEAN
  /\ opener \in Products \cup {None}
  /\ drawer \in Drawers \cup {None}
  /\ asking \subseteq [query : Products, aborted : BOOLEAN]
  /\ landing \in [onKind : BOOLEAN, handled : BOOLEAN]
  /\ scroll \in Sections \cup {None, "changes"}
  /\ early \in BOOLEAN

Location(page, filter, hash, from) ==
  [page |-> page, filter |-> filter, hash |-> hash, fromArticle |-> from]
Elsewhere == Location("elsewhere", "", None, FALSE)

\* Mutant of IsDrawer: any path passes.
IsAnyPage(loc) == TRUE

\* isDrawerPath
IsDrawer(loc) == loc.page \in Products

\* The reader is on the site, on a page the router has rendered.
Here == at > 1
\* No drawer covers the article's links.
Uncovered == Here /\ drawer = None

\* A load of the document at loc: history and sessionStorage are all that stays.
Landing(loc) == [onKind |-> loc.hash = None /\ loc.filter # "", handled |-> FALSE]

DrawerInit ==
  /\ \E page \in {"article"} \cup Products, filter \in Filters, hash \in Sections \cup {None} :
       /\ page \in Products => hash = None
       /\ history = <<Elsewhere, Location(page, filter, hash, FALSE)>>
  /\ at = 2 /\ going = 0 /\ due = None
  /\ shown = history[2] /\ nav = "POP"
  /\ chunk = "absent" /\ reloaded = FALSE
  /\ opener = None /\ drawer = None /\ asking = {}
  /\ landing = Landing(shown)
  /\ scroll = None /\ early = FALSE

---------------------------------------------------------------------------
(* The router                                                              *)

Pushed(h, i, loc)   == Append(SubSeq(h, 1, i), loc)
Replaced(h, i, loc) == [h EXCEPT ![i] = loc]

Push(loc) ==
  /\ at < MaxHistory
  /\ history' = Pushed(history, at, loc) /\ at' = at + 1
  /\ due' = "PUSH"

Replace(loc) ==
  /\ history' = Replaced(history, at, loc) /\ UNCHANGED at
  /\ due' = "REPLACE"

\* A Link to the rendered address replaces its entry.
Link(loc) == IF loc = [shown EXCEPT !.fromArticle = FALSE] THEN Replace(loc) ELSE Push(loc)

---------------------------------------------------------------------------
(* What the reader does                                                    *)

\* Mutant of WithoutHash: the fragment stays on the article's entry.
WithHash(h) == h

\* useOpenProduct drops the fragment of the article's entry first.
WithoutHash(h) ==
  IF shown.hash = None THEN h
  ELSE Replaced(h, at, Location(shown.page, shown.filter, None, FALSE))

\* A handler runs while a location is still to be rendered.
Behind == due # None
Hasty  == early' = (early \/ Behind)

\* useOpenProduct: with a drawer's address already rendered its entry is replaced.
OpenProduct(p) ==
  /\ Uncovered
  /\ opener' = p
  /\ LET loc == Location(p, shown.filter, None, TRUE)
     IN  IF IsDrawer(shown)
         THEN Replace(loc)
         ELSE /\ at < MaxHistory
              /\ history' = Pushed(WithoutHash(history), at, loc) /\ at' = at + 1
              /\ due' = "PUSH"
  /\ early' = (early \/ Behind \/ IsDrawer(shown))
  /\ scroll' = None
  /\ UNCHANGED <<going, shown, nav, chunk, reloaded, drawer, asking, landing>>

\* The masthead's links to the article and its sections.
FollowLink(hash) ==
  /\ Uncovered
  /\ Link(Location("article", "", hash, FALSE)) /\ Hasty
  /\ scroll' = None
  /\ UNCHANGED <<going, shown, nav, chunk, reloaded, opener, drawer, asking, landing>>

\* The change table's filters: the query of the rendered address, no fragment, no state.
Filter(filter) ==
  /\ Uncovered
  /\ Push(Location(shown.page, filter, None, FALSE)) /\ Hasty
  /\ scroll' = None
  /\ UNCHANGED <<going, shown, nav, chunk, reloaded, opener, drawer, asking, landing>>

\* Escape, the Close button, the scrim.
Close ==
  /\ Here /\ drawer # None
  /\ IF shown.fromArticle
     THEN /\ going' = going + 1
          /\ UNCHANGED <<history, at, due>>
     ELSE /\ Replace(Location("article", shown.filter, None, FALSE))
          /\ UNCHANGED going
  /\ Hasty
  /\ scroll' = None
  /\ UNCHANGED <<shown, nav, chunk, reloaded, opener, drawer, asking, landing>>

GoTo(i) ==
  /\ i \in DOMAIN history
  /\ at' = i /\ due' = "POP" /\ scroll' = None
  /\ UNCHANGED <<history, shown, nav, chunk, reloaded, opener, drawer, asking, landing, early>>

\* history.go(-1) is carried out.
GoBack == Here /\ going > 0 /\ going' = going - 1 /\ GoTo(at - 1)

\* The browser's own buttons.
Browse(i) == Here /\ i \in {at - 1, at + 1} /\ GoTo(i) /\ UNCHANGED going
---------------------------------------------------------------------------
(* Commits: rendering and effects, with the article up or down             *)

\* The drawer on the page once loc is rendered: the child route, its chunk and the hook.
Mounts(loc, up, code) == up /\ IsDrawer(loc) /\ code = "loaded"

\* The hook's deps have changed since its last effect, or there was none yet.
EffectDue == drawer # None /\ drawer.asked # drawer.id

\* A drawer whose address changes keeps what it shows until the hook's effect has run.
DrawerCommit(loc, up, code) ==
  /\ ~EffectDue
  /\ IF ~Mounts(loc, up, code)
     THEN drawer' = None /\ asking' = Aborting(asking) /\ UNCHANGED opener
     ELSE /\ drawer' = IF drawer = None
                       THEN [id |-> loc.page, view |-> Loading, opener |-> opener, asked |-> None]
                       ELSE [drawer EXCEPT !.id = loc.page]
          /\ opener' = IF drawer = None THEN None ELSE opener
          /\ UNCHANGED asking

\* Mutant of WentBack: Back and Forward are not told from links.
WentBackNever(navigation) == FALSE

WentBack(navigation) == landing.handled /\ navigation = "POP"

\* HomePage's scroll effect; the shell's scrolls to the top only between pages.
ScrollEffect(loc, navigation, ready) ==
  LET target == IF ~ready \/ WentBack(navigation) THEN None
                ELSE IF loc.hash # None THEN loc.hash
                ELSE IF landing.onKind THEN "changes" ELSE None
  IN  /\ scroll' = target
      /\ landing' = [onKind  |-> landing.onKind /\ ~(target # None /\ loc.hash = None),
                     handled |-> landing.handled \/ ready]

\* The router's location is rendered.
Commit(up, ready) ==
  /\ Here /\ due # None
  /\ shown' = history[at] /\ nav' = due /\ due' = None
  /\ DrawerCommit(history[at], up, chunk)
  /\ ScrollEffect(history[at], due, ready)
  /\ UNCHANGED <<history, at, going, chunk, reloaded, early>>

\* The article's data arrived, failed or is asked for again.
ArticleCommit(up, ready) ==
  /\ Here
  /\ DrawerCommit(shown, up, chunk)
  /\ IF ready THEN ScrollEffect(shown, nav, ready) ELSE scroll' = None /\ UNCHANGED landing
  /\ UNCHANGED <<history, at, going, due, shown, nav, chunk, reloaded, early>>

\* The drawer's code arrives.
ChunkLoads(up) ==
  /\ Here /\ chunk = "absent" /\ chunk' = "loaded"
  /\ DrawerCommit(shown, up, "loaded")
  /\ scroll' = None
  /\ UNCHANGED <<history, at, going, due, shown, nav, reloaded, landing, early>>

\* The document is loaded again: what was in memory is lost.
Reload(again) ==
  /\ Here
  /\ reloaded' = again
  /\ shown' = history[at] /\ nav' = "POP" /\ due' = None
  /\ going' = 0 /\ chunk' = "absent"
  /\ opener' = None /\ drawer' = None /\ asking' = {}
  /\ landing' = Landing(history[at]) /\ scroll' = None
  /\ UNCHANGED <<history, at, early>>

\* vite:preloadError after a deploy: once per tab the document is loaded again.
ChunkFails == chunk = "absent" /\ ~reloaded /\ Reload(TRUE)

---------------------------------------------------------------------------
(* The drawer's request                                                    *)

\* The effect of useApi: loading is set, the last request aborted and the next one sent.
DrawerEffect ==
  /\ Here /\ EffectDue
  /\ drawer' = [drawer EXCEPT !.view = Loading, !.asked = drawer.id]
  /\ asking' = Asking(asking, drawer.id)
  /\ scroll' = None
  /\ UNCHANGED <<history, at, going, due, shown, nav, chunk, reloaded, opener,
                 landing, early>>

\* What is set while the effect is due is never rendered: the effect runs before and sets loading.
ProductSettles(r, result) ==
  /\ Here /\ r \in asking
  /\ asking' = asking \ {r}
  /\ drawer' = IF drawer = None \/ EffectDue THEN drawer
               ELSE [drawer EXCEPT !.view = Settled(@, r, result)]
  /\ scroll' = None
  /\ UNCHANGED <<history, at, going, due, shown, nav, chunk, reloaded, opener,
                 landing, early>>

ProductAnswers(r) == ProductSettles(r, Loaded(r.query))
ProductFails(r)   == ProductSettles(r, LoadFailed)

\* Retry in the drawer.  A click's render and effects are over before the next event, and an
\* effect still due runs first.
ProductRetry ==
  /\ Here /\ drawer # None /\ drawer.view.status = "error"
  /\ drawer' = [drawer EXCEPT !.view = Loading, !.asked = drawer.id]
  /\ asking' = Asking(IF EffectDue THEN Asking(asking, drawer.id) ELSE asking, drawer.id)
  /\ scroll' = None
  /\ UNCHANGED <<history, at, going, due, shown, nav, chunk, reloaded, opener,
                 landing, early>>

---------------------------------------------------------------------------
(***************************************************************************)
(* "closing can go back" (drawerRoute.ts:38): below every entry the app    *)
(* marked fromArticle is the article the drawer was opened over, with the  *)
(* same filters and no fragment, so one step back closes the drawer and    *)
(* leaves the reader where they were.  Not so when the reader acted on a   *)
(* page the router had not rendered yet, or opened a product while the     *)
(* drawer of another was still to come.                                    *)
(***************************************************************************)
BackIsTheArticle ==
  ~early => \A i \in DOMAIN history : history[i].fromArticle =>
    history[i - 1] = Location("article", history[i].filter, None, FALSE)

(***************************************************************************)
(* The drawer is its address's, and what it shows is the product it asked  *)
(* for last, or that it is loading or failed: an answer to an earlier      *)
(* address never replaces a later one's (useApi.ts:11), and while it is    *)
(* loading its request is alive.  What was asked for last is the address's *)
(* product once the hook's effect has run; between the render of another   *)
(* address and that effect the earlier product's body is still on the      *)
(* page under the later address.                                           *)
(***************************************************************************)
DrawerShowsItsProduct ==
  drawer # None /\ Here =>
    /\ drawer.id = shown.page
    /\ drawer.view.data \in {None, drawer.asked}
    /\ drawer.view.status = "loading" => EffectDue \/ Request(drawer.asked) \in asking
    /\ \A r \in asking : ~r.aborted => r.query = drawer.asked

(***************************************************************************)
(* "Opening or closing the product drawer keeps the article where it was"  *)
(* (Shell.tsx:24): once the landing was dealt with, no commit that mounts  *)
(* or unmounts the drawer scrolls, unless it renders a link to a section   *)
(* that was followed before the drawer had come.                           *)
(***************************************************************************)
DrawerKeepsThePlace ==
  [][landing.handled /\ ~landing.onKind /\ (drawer = None) # (drawer' = None)
       /\ (nav' = "POP" \/ shown'.hash = None)
       => scroll' = None]_drawerVars
=============================================================================
