---------------------------- MODULE ReaderProofs ----------------------------
(***************************************************************************)
(* Proofs about Reader, for every set of questions, products, sections and *)
(* feeds, and sessions of any length: one live question at a time, a       *)
(* drawer that shows its own product, a history that closes it, and a list *)
(* of changes that is complete.                                            *)
(***************************************************************************)
EXTENDS Reader, SequenceTheorems, TLAPS

\* An aborted request of the question section keeps its number, section and text.
LEMMA AbortedAsk ==
  ASSUME NEW r \in Asks
  PROVE  LET a == [r EXCEPT !.aborted = TRUE]
         IN  a \in Asks /\ a.aborted /\ a.n = r.n /\ a.of = r.of /\ a.question = r.question
  BY DEF Asks

---------------------------------------------------------------------------
(* The question section                                                    *)

\* A question on its way is the section's last, and shown as pending.
AskInv ==
  /\ mount.n \in Nat /\ mount.on \in BOOLEAN /\ asks \in Nat
  /\ mount.on <=> ~ArticleDown
  /\ sent \subseteq Asks
  /\ \A r \in sent : r.n <= asks
  /\ \A r, s \in sent : r.n = s.n => r = s
  /\ current # None => current \in 1..asks
  /\ OneLiveQuestion

\* Aborting one number's request.
LEMMA AbortAskSent ==
  ASSUME sent \subseteq Asks, \A r, s \in sent : r.n = s.n => r = s,
         \A r \in sent : r.n <= asks, NEW n
  PROVE  /\ AbortAsk(n) \subseteq Asks
         /\ \A a, b \in AbortAsk(n) : a.n = b.n => a = b
         /\ \A a \in AbortAsk(n) : a.n <= asks
         /\ \A a \in AbortAsk(n) : ~a.aborted => a \in sent /\ a.n # n
<1>1. ASSUME NEW a \in AbortAsk(n)
      PROVE  \E r \in sent : /\ a \in Asks /\ a.n = r.n
                             /\ IF r.n = n THEN a = [r EXCEPT !.aborted = TRUE] /\ a.aborted
                                ELSE a = r
  <2>1. PICK r \in sent : a = IF r.n = n THEN [r EXCEPT !.aborted = TRUE] ELSE r
    BY DEF AbortAsk
  <2>2. r \in Asks
    OBVIOUS
  <2>3. QED BY <2>1, <2>2, AbortedAsk
<1>2. AbortAsk(n) \subseteq Asks /\ \A a \in AbortAsk(n) : a.n <= asks
  BY <1>1
<1>3. ASSUME NEW a \in AbortAsk(n), NEW b \in AbortAsk(n), a.n = b.n
      PROVE  a = b
  <2>1. PICK r \in sent : a.n = r.n /\ a = IF r.n = n THEN [r EXCEPT !.aborted = TRUE] ELSE r
    BY <1>1
  <2>2. PICK s \in sent : b.n = s.n /\ b = IF s.n = n THEN [s EXCEPT !.aborted = TRUE] ELSE s
    BY <1>1
  <2>3. r = s
    BY <1>3, <2>1, <2>2
  <2>4. QED BY <2>1, <2>2, <2>3
<1>4. \A a \in AbortAsk(n) : ~a.aborted => a \in sent /\ a.n # n
  BY <1>1
<1>5. QED BY <1>2, <1>3, <1>4

LEMMA SubmitInv ==
  ASSUME AskInv, NEW q \in Questions \cup {Blank}, Submit(q), UNCHANGED pageVars
  PROVE  AskInv'
<1> USE DEF AskInv
<1> DEFINE new == [n |-> asks + 1, of |-> mount.n, question |-> q, aborted |-> FALSE]
<1>1. /\ mount.on /\ asked.status # "pending" /\ q \in Questions /\ asks < MaxAsks
      /\ asks' = asks + 1 /\ current' = asks + 1 /\ mount' = mount
      /\ sent' = AbortAsk(current) \cup {new}
      /\ asked' = [status |-> "pending", question |-> q]
      /\ ArticleDown' = ArticleDown
  BY DEF Submit, pageVars, ArticleDown
<1>2. new \in Asks /\ new.n = asks + 1 /\ new.of = mount.n /\ new.question = q
  BY <1>1, AskClientAssumption DEF Asks
<1>3. \A r \in sent : r.aborted
  BY <1>1 DEF OneLiveQuestion, Pending
<1>4. \A a \in AbortAsk(current) : a \in Asks /\ a.aborted /\ a.n <= asks /\ a.n \in Nat
  BY <1>3, AbortAskSent DEF Asks
<1>5. \A a, b \in AbortAsk(current) : a.n = b.n => a = b
  BY AbortAskSent
<1> HIDE DEF new
<1>6. sent' \subseteq Asks /\ \A r \in sent' : r.n <= asks'
  BY <1>1, <1>2, <1>4
<1>7. \A r, s \in sent' : r.n = s.n => r = s
  BY <1>1, <1>2, <1>4, <1>5
<1>8. OneLiveQuestion'
  BY <1>1, <1>2, <1>4 DEF OneLiveQuestion, Pending
<1>9. asks' \in Nat /\ current' \in 1..asks'
  BY <1>1
<1>10. mount' = mount /\ (mount'.on <=> ~ArticleDown')
  BY <1>1
<1>11. QED BY <1>6, <1>7, <1>8, <1>9, <1>10

\* A request that settles: the answer or the refusal of the live one ends it.
LEMMA SettleInv ==
  ASSUME AskInv, NEW r \in sent, UNCHANGED pageVars,
         (~r.aborted /\ AskAnswered(r)) \/ AskRejected(r)
  PROVE  AskInv'
<1> USE DEF AskInv
<1>1. sent' = sent \ {r} /\ UNCHANGED <<mount, current, asks>> /\ ArticleDown' = ArticleDown
  BY DEF AskAnswered, AskRejected, pageVars, ArticleDown
<1>2. ASSUME NEW s \in sent', ~s.aborted
      PROVE  asked' = asked
  <2>1. s \in sent /\ s # r /\ current = s.n
    BY <1>1, <1>2 DEF OneLiveQuestion
  <2>2. r.n # current
    BY <2>1
  <2>3. r.aborted
    BY <2>1, <2>2 DEF OneLiveQuestion
  <2>4. QED BY <2>2, <2>3 DEF AskRejected
<1>3. OneLiveQuestion'
  BY <1>1, <1>2 DEF OneLiveQuestion, Pending
<1>4. QED BY <1>1, <1>3

LEMMA TimeoutInv ==
  ASSUME AskInv, NEW r \in sent, AskTimeout(r), UNCHANGED pageVars
  PROVE  AskInv'
<1> USE DEF AskInv
<1>1. sent' = AbortAsk(r.n) /\ UNCHANGED <<mount, asked, current, asks>>
      /\ ArticleDown' = ArticleDown
  BY DEF AskTimeout, pageVars, ArticleDown
<1>2. OneLiveQuestion'
  BY <1>1, AbortAskSent DEF OneLiveQuestion, Pending
<1>3. QED BY <1>1, <1>2, AbortAskSent

\* The section follows the article off the page and back.
LEMMA FollowsInv ==
  ASSUME AskInv, AskFollows
  PROVE  AskInv'
<1> USE DEF AskInv
<1>1. CASE ArticleDown' /\ ~ArticleDown
  <2>1. mount' = [mount EXCEPT !.on = FALSE] /\ sent' = AbortAsk(current)
        /\ UNCHANGED <<asked, current, asks>>
    BY <1>1 DEF AskFollows, AskUnmount
  <2>2. \A a \in AbortAsk(current) : a.aborted
    BY AbortAskSent DEF OneLiveQuestion
  <2>3. mount'.n = mount.n /\ mount'.on = FALSE
    BY <2>1 
  <2>4. OneLiveQuestion'
    BY <2>1, <2>2 DEF OneLiveQuestion
  <2>5. QED BY <1>1, <2>1, <2>3, <2>4, AbortAskSent
<1>2. CASE ArticleDown /\ ~ArticleDown'
  <2>1. mount' = [n |-> mount.n + 1, on |-> TRUE] /\ asked' = Idle /\ current' = None
        /\ UNCHANGED <<sent, asks>>
    BY <1>2 DEF AskFollows, AskMount
  <2>2. \A r \in sent : r.aborted
    BY <1>2 DEF OneLiveQuestion, Pending
  <2>3. OneLiveQuestion'
    BY <2>1, <2>2 DEF OneLiveQuestion
  <2>4. QED BY <1>2, <2>1, <2>3
<1>3. CASE ArticleDown' = ArticleDown
  BY <1>3 DEF AskFollows, askVars, OneLiveQuestion, Pending
<1>4. QED BY <1>1, <1>2, <1>3 DEF ArticleDown

\* The feeds are as they were: so is the article, and what the section shows.
LEMMA AskKept ==
  ASSUME AskInv, UNCHANGED <<feed, askVars>>
  PROVE  AskInv'
  BY DEF AskInv, askVars, ArticleDown, OneLiveQuestion, Pending

LEMMA AskReloadInv ==
  ASSUME AskInv, PageReload, AskReload
  PROVE  AskInv'
<1>1. ~ArticleDown'
  BY DEF PageReload, LoadAgain, ArticleDown
<1>2. mount' = [n |-> mount.n + 1, on |-> TRUE] /\ current' = None /\ sent' = {} /\ asks' = asks
  BY DEF AskReload
<1>3. OneLiveQuestion'
  BY <1>2 DEF OneLiveQuestion
<1>4. QED BY <1>1, <1>2, <1>3 DEF AskInv

LEMMA AskInitInv == Init => AskInv
<1> SUFFICES ASSUME Init PROVE AskInv
  OBVIOUS
<1>1. ~ArticleDown
  BY DEF Init, PageInit, ArticleDown
<1>2. QED BY <1>1 DEF Init, AskInit, AskInv, OneLiveQuestion

LEMMA AskNextInv == AskInv /\ [Next]_vars => AskInv'
<1> SUFFICES ASSUME AskInv, [Next]_vars PROVE AskInv'
  OBVIOUS
<1>1. CASE Respond \/ RetryPage \/ Fail
  BY <1>1, FollowsInv DEF Respond, RetryPage, Fail, PageStep
<1>2. CASE ReloadDocument
  BY <1>2, AskReloadInv DEF ReloadDocument
<1>3. CASE Pipeline
  BY <1>3, AskKept DEF Pipeline, Publish, Withdraw
<1>4. CASE SubmitQuestion
  BY <1>4, SubmitInv DEF SubmitQuestion, AskPage
<1>5. CASE AnswerQuestion
  BY <1>5, SettleInv DEF AnswerQuestion, AskPage
<1>6. CASE GiveUp
  BY <1>6, SettleInv, TimeoutInv DEF GiveUp, AskPage
<1>7. CASE Router \/ DrawerEffects \/ ProductRequest \/ RetryProduct \/ Navigate \/ GoHome
           \/ CloseDrawer \/ UseBrowser \/ ProductTrouble
  <2>1. UNCHANGED <<pageVars, askVars>>
    BY <1>7 DEF Router, DrawerEffects, ProductRequest, RetryProduct, Navigate, GoHome, CloseDrawer,
                UseBrowser, ProductTrouble, DrawerStep
  <2>2. QED BY <2>1, AskKept DEF pageVars
<1>8. CASE UNCHANGED vars
  BY <1>8, AskKept DEF vars, pageVars
<1>9. QED BY <1>1, <1>2, <1>3, <1>4, <1>5, <1>6, <1>7, <1>8 DEF Next

(***************************************************************************)
(* AskSection.tsx:87-130: whatever fails, is given up, leaves the page or  *)
(* is loaded again, at most one question that costs the visitor one of the *)
(* day's is on its way, and it is the one the page shows as pending.       *)
(***************************************************************************)
THEOREM OneQuestionAtATime == Spec => []OneLiveQuestion
<1>1. AskInv => OneLiveQuestion
  BY DEF AskInv
<1>2. QED BY AskInitInv, AskNextInv, <1>1, PTL DEF Spec

---------------------------------------------------------------------------
(* The drawer                                                              *)

\* What the router and the article do to the drawer's part of the page.
DrawerNext ==
  \/ \E p \in Products : OpenProduct(p)
  \/ \E h \in Sections \cup {None} : FollowLink(h)
  \/ \E f \in Filters : Filter(f)
  \/ Close \/ GoBack \/ \E i \in DOMAIN history : Browse(i)
  \/ \E up \in BOOLEAN, ready \in BOOLEAN :
       Commit(up, ready) \/ ArticleCommit(up, ready) \/ ChunkLoads(up)
  \/ \E again \in BOOLEAN : Reload(again)
  \/ DrawerEffect
  \/ \E r \in asking : ProductAnswers(r) \/ ProductFails(r)
  \/ ProductRetry
  \/ UNCHANGED drawerVars

\* A step of the tab is one of these for the drawer.
LEMMA NextDraws ==
  ASSUME reloaded \in BOOLEAN, [Next]_vars
  PROVE  DrawerNext
<1> USE DEF DrawerNext
<1>1. CASE Respond \/ RetryPage \/ Fail
  <2>1. ArticleCommit(~ArticleDown', Ready' /\ ~Ready)
    BY <1>1 DEF Respond, RetryPage, Fail, PageStep
  <2>2. (~ArticleDown') \in BOOLEAN /\ (Ready' /\ ~Ready) \in BOOLEAN
    OBVIOUS
  <2>3. QED BY <2>1, <2>2
<1>2. CASE ReloadDocument
  BY <1>2 DEF ReloadDocument, ChunkFails
<1>3. CASE Router
  <2>1. (~ArticleDown) \in BOOLEAN /\ Ready \in BOOLEAN
    BY DEF Ready
  <2>2. GoBack \/ Commit(~ArticleDown, Ready) \/ ChunkLoads(~ArticleDown)
    BY <1>3 DEF Router, DrawerStep
  <2>3. QED BY <2>1, <2>2
<1>4. CASE \/ DrawerEffects \/ ProductRequest \/ ProductTrouble \/ RetryProduct
           \/ CloseDrawer \/ UseBrowser
  BY <1>4 DEF DrawerEffects, ProductRequest, ProductTrouble, RetryProduct, CloseDrawer, UseBrowser,
              DrawerStep
<1>5. CASE Navigate \/ GoHome
  BY <1>5 DEF Navigate, GoHome, DrawerStep
<1>6. CASE Pipeline \/ SubmitQuestion \/ AnswerQuestion \/ GiveUp
  BY <1>6 DEF Pipeline, SubmitQuestion, AnswerQuestion, GiveUp, AskPage
<1>7. CASE UNCHANGED vars
  BY <1>7 DEF vars
<1>8. QED BY <1>1, <1>2, <1>3, <1>4, <1>5, <1>6, <1>7 DEF Next

\* The drawer's requests are aborted, but for one for the product asked for last.
DrawerInv ==
  /\ reloaded \in BOOLEAN
  /\ shown \in Locations
  /\ opener \in Products \cup {None}
  /\ asking \subseteq [query : Products, aborted : BOOLEAN]
  /\ drawer # None => drawer \in Drawers
  /\ \A r \in asking : ~r.aborted => drawer # None /\ r.query = drawer.asked
  /\ DrawerShowsItsProduct

LEMMA ViewTypes == Loading \in Views /\ LoadFailed \in Views /\ \A p \in Products : Loaded(p) \in Views
<1>1. Loading \in [status : {"loading", "error"}, data : {None}]
  BY DEF Loading
<1>2. LoadFailed \in [status : {"loading", "error"}, data : {None}]
  BY DEF LoadFailed
<1>3. \A p \in Products : Loaded(p) \in [status : {"ok"}, data : Products]
  BY DEF Loaded
<1>4. QED BY <1>1, <1>2, <1>3 DEF Views

LEMMA AbortingAsks ==
  ASSUME asking \subseteq [query : Products, aborted : BOOLEAN]
  PROVE  \A a \in Aborting(asking) : a \in [query : Products, aborted : BOOLEAN] /\ a.aborted
<1>1. SUFFICES ASSUME NEW r \in asking
               PROVE  LET a == [r EXCEPT !.aborted = TRUE]
                      IN  a \in [query : Products, aborted : BOOLEAN] /\ a.aborted
  BY DEF Aborting
<1>2. r \in [query : Products, aborted : BOOLEAN]
  OBVIOUS
<1>3. QED BY <1>2

\* Rendering a location mounts its drawer, or changes the address of the one mounted.
LEMMA DrawerCommitInv ==
  ASSUME DrawerInv, NEW loc \in Locations, NEW up \in BOOLEAN, NEW code,
         Here /\ shown' = loc /\ DrawerCommit(loc, up, code) /\ reloaded' = reloaded
  PROVE  DrawerInv'
<1> USE DEF DrawerInv
<1>1. CASE ~Mounts(loc, up, code)
  <2>1. drawer' = None /\ asking' = Aborting(asking)
          /\ opener' = opener
    BY <1>1 DEF DrawerCommit
  <2>2. QED BY <2>1, AbortingAsks DEF DrawerShowsItsProduct
<1>2. CASE Mounts(loc, up, code) /\ drawer # None
  <2>1. drawer' = [drawer EXCEPT !.id = loc.page] /\ asking' = asking /\ loc.page \in Products
        /\ opener' \in Products \cup {None} /\ drawer.asked = drawer.id
    BY <1>2 DEF DrawerCommit, Mounts, IsDrawer, EffectDue
  <2>2. /\ drawer' \in Drawers /\ drawer'.id = loc.page
        /\ drawer'.asked = drawer.asked /\ drawer'.view = drawer.view
    BY <1>2, <2>1 DEF Drawers
  <2>3. drawer' # None
    BY <2>2, NoneIsNull
  <2>4. DrawerShowsItsProduct'
    BY <1>2, <2>1, <2>2 DEF DrawerShowsItsProduct, EffectDue
  <2>5. QED BY <1>2, <2>1, <2>2, <2>3, <2>4
<1>3. CASE Mounts(loc, up, code) /\ drawer = None
  <2>1. /\ drawer' = [id |-> loc.page, view |-> Loading, opener |-> opener, asked |-> None]
        /\ opener' = None /\ asking' = asking /\ loc.page \in Products
    BY <1>3 DEF DrawerCommit, Mounts, IsDrawer
  <2>2. drawer' \in Drawers
    BY <2>1, ViewTypes DEF Drawers
  <2>3. drawer' # None
    BY <2>2, NoneIsNull
  <2>4. EffectDue'
    BY <2>1, <2>3, NoneIsNull DEF EffectDue
  <2>5. \A r \in asking' : r.aborted
    BY <1>3, <2>1
  <2>6. DrawerShowsItsProduct'
    BY <2>1, <2>4, <2>5 DEF DrawerShowsItsProduct, Loading
  <2>7. QED BY <2>1, <2>2, <2>3, <2>5, <2>6
<1>4. QED BY <1>1, <1>2, <1>3

\* The drawer asks for the product of its address, and shows that it is loading.
LEMMA AskedInv ==
  ASSUME DrawerInv, Here, drawer # None, NEW requests,
         \A r \in requests : r \in [query : Products, aborted : BOOLEAN] /\ r.aborted,
         drawer' = [drawer EXCEPT !.view = Loading, !.asked = drawer.id],
         asking' = requests \cup {Request(drawer.id)},
         UNCHANGED <<at, shown, opener, reloaded>>
  PROVE  DrawerInv'
<1> USE DEF DrawerInv
<1>1. /\ drawer' \in Drawers /\ drawer'.view = Loading
      /\ drawer'.id = drawer.id /\ drawer'.asked = drawer.id
  BY ViewTypes DEF Drawers
<1>2. drawer' # None
  BY <1>1, NoneIsNull
<1>3. Request(drawer.id) \in [query : Products, aborted : BOOLEAN]
      /\ Request(drawer.id).query = drawer.id
  BY DEF Request, Drawers
<1>4. asking' \subseteq [query : Products, aborted : BOOLEAN]
      /\ \A r \in asking' : ~r.aborted => r.query = drawer.id
  BY <1>3
<1>5. DrawerShowsItsProduct'
  BY <1>1, <1>4 DEF DrawerShowsItsProduct, Loading, Here
<1>6. QED BY <1>1, <1>2, <1>4, <1>5

LEMMA DrawerEffectInv ==
  ASSUME DrawerInv, DrawerEffect
  PROVE  DrawerInv'
<1>1. asking \subseteq [query : Products, aborted : BOOLEAN]
  BY DEF DrawerInv
<1>2. QED BY <1>1, AbortingAsks, AskedInv DEF DrawerEffect, EffectDue, Asking

\* An answer to the live request is the drawer's product; others change nothing.
LEMMA ProductSettlesInv ==
  ASSUME DrawerInv, NEW r \in asking, NEW result \in Views,
         result.data \in {None, r.query}, result.status # "loading",
         ProductSettles(r, result)
  PROVE  DrawerInv'
<1> USE DEF DrawerInv
<1>1. asking' = asking \ {r} /\ UNCHANGED <<at, shown, opener, reloaded>> /\ Here
  BY DEF ProductSettles
<1>2. CASE drawer = None \/ EffectDue
  <2>1. drawer' = drawer
    BY <1>2 DEF ProductSettles
  <2>2. QED BY <1>1, <1>2, <2>1 DEF DrawerShowsItsProduct, EffectDue, Here
<1>3. CASE drawer # None /\ ~EffectDue
  <2> DEFINE v == Settled(drawer.view, r, result)
  <2>1. drawer' = [drawer EXCEPT !.view = v] /\ drawer \in Drawers
    BY <1>3 DEF ProductSettles
  <2>2. v \in Views
    BY <2>1 DEF Settled, Drawers
  <2> HIDE DEF v
  <2>3. /\ drawer' \in Drawers /\ drawer'.view = v
        /\ drawer'.id = drawer.id /\ drawer'.asked = drawer.asked
    BY <2>1, <2>2 DEF Drawers
  <2>4. drawer' # None
    BY <2>3, NoneIsNull
  <2>5. CASE r.aborted
    <3>1. v = drawer.view /\ ~Request(drawer.asked).aborted
      BY <2>5 DEF v, Settled, Request
    <3>2. QED BY <1>1, <1>3, <2>3, <2>4, <2>5, <3>1 DEF DrawerShowsItsProduct, EffectDue, Here
  <2>6. CASE ~r.aborted
    <3>1. v = result /\ r.query = drawer.asked
      BY <2>6 DEF v, Settled
    <3>2. QED BY <1>1, <1>3, <2>3, <2>4, <3>1 DEF DrawerShowsItsProduct, Here
  <2>7. QED BY <2>5, <2>6
<1>4. QED BY <1>2, <1>3

LEMMA ProductRetryInv ==
  ASSUME DrawerInv, ProductRetry
  PROVE  DrawerInv'
<1> DEFINE before == IF EffectDue THEN Asking(asking, drawer.id) ELSE asking
<1>1. asking \subseteq [query : Products, aborted : BOOLEAN] /\ drawer.id \in Products
  BY DEF DrawerInv, ProductRetry, Drawers
<1>2. Request(drawer.id) \in [query : Products, aborted : BOOLEAN]
  BY <1>1 DEF Request
<1>3. before \subseteq [query : Products, aborted : BOOLEAN]
  BY <1>1, <1>2, AbortingAsks DEF Asking
<1> HIDE DEF before
<1>4. \A a \in Aborting(before) : a \in [query : Products, aborted : BOOLEAN] /\ a.aborted
  <2>1. SUFFICES ASSUME NEW r \in before
                 PROVE  LET a == [r EXCEPT !.aborted = TRUE]
                        IN  a \in [query : Products, aborted : BOOLEAN] /\ a.aborted
    BY DEF Aborting
  <2>2. QED BY <1>3
<1>5. asking' = Aborting(before) \cup {Request(drawer.id)}
  BY DEF ProductRetry, Asking, before
<1>6. QED BY <1>4, <1>5, AskedInv DEF ProductRetry

\* What the reader and the browser do changes no more than where they are.
LEMMA DrawerStays ==
  ASSUME DrawerInv, Here, UNCHANGED <<shown, drawer, asking, reloaded>>,
         opener' \in Products \cup {None}
  PROVE  DrawerInv'
  BY DEF DrawerInv, DrawerShowsItsProduct, EffectDue, Here

---------------------------------------------------------------------------
(* The history                                                             *)

\* Below an entry marked fromArticle is the article it was opened over.
ToldAt(h, i) ==
  /\ h[i].page = "elsewhere" <=> i = 1
  /\ h[i].fromArticle =>
       /\ h[i].page \in Products /\ i > 1
       /\ h[i - 1] = Location("article", h[i].filter, None, FALSE)
Told(h) == \A i \in 1..Len(h) : ToldAt(h, i)

HistoryInv ==
  /\ DrawerInv
  /\ history \in Seq(Locations) /\ at \in 1..Len(history)
  /\ ~early => Told(history) /\ (due = None /\ Here => shown = history[at])

LEMMA LocationType ==
  ASSUME NEW page \in Pages, NEW filter \in Filters, NEW hash \in Sections \cup {None},
         NEW from \in BOOLEAN
  PROVE  /\ Location(page, filter, hash, from) \in Locations
         /\ Location(page, filter, hash, from).page = page
         /\ Location(page, filter, hash, from).filter = filter
         /\ Location(page, filter, hash, from).hash = hash
         /\ Location(page, filter, hash, from).fromArticle = from
  BY DEF Location, Locations

LEMMA PushedType ==
  ASSUME NEW h \in Seq(Locations), NEW i \in 1..Len(h), NEW loc \in Locations
  PROVE  /\ Pushed(h, i, loc) \in Seq(Locations) /\ Len(Pushed(h, i, loc)) = i + 1
         /\ \A j \in 1..i : Pushed(h, i, loc)[j] = h[j]
         /\ Pushed(h, i, loc)[i + 1] = loc
<1>1. /\ SubSeq(h, 1, i) \in Seq(Locations) /\ Len(SubSeq(h, 1, i)) = i
      /\ \A j \in 1..i : SubSeq(h, 1, i)[j] = h[j]
  OBVIOUS
<1>2. QED BY <1>1 DEF Pushed

LEMMA ReplacedType ==
  ASSUME NEW h \in Seq(Locations), NEW i \in 1..Len(h), NEW loc \in Locations
  PROVE  /\ Replaced(h, i, loc) \in Seq(Locations) /\ Len(Replaced(h, i, loc)) = Len(h)
         /\ \A j \in 1..Len(h) : Replaced(h, i, loc)[j] = IF j = i THEN loc ELSE h[j]
  BY DEF Replaced

\* A new entry on top: an unmarked one, or one over the article it names.
LEMMA PushTold ==
  ASSUME NEW h \in Seq(Locations), Told(h), NEW i \in 1..Len(h), NEW loc \in Locations,
         loc.page # "elsewhere",
         loc.fromArticle =>
           loc.page \in Products /\ h[i] = Location("article", loc.filter, None, FALSE)
  PROVE  Told(Pushed(h, i, loc))
<1> DEFINE g == Pushed(h, i, loc)
<1>1. /\ g \in Seq(Locations) /\ Len(g) = i + 1 /\ i \in Nat \ {0}
      /\ \A j \in 1..i : g[j] = h[j] /\ j \in 1..Len(h)
      /\ g[i + 1] = loc
  <2>1. Len(h) \in Nat
    OBVIOUS
  <2>2. QED BY <2>1, PushedType
<1> HIDE DEF g
<1>2. ASSUME NEW j \in 1..i
      PROVE  ToldAt(g, j)
  <2>1. g[j] = h[j] /\ j \in 1..Len(h) /\ (j > 1 => g[j - 1] = h[j - 1])
    BY <1>1
  <2>2. QED BY <2>1 DEF Told, ToldAt
<1>3. ASSUME NEW j \in 1..Len(g)
      PROVE  ToldAt(g, j)
  <2>1. CASE j \in 1..i
    BY <1>2, <2>1
  <2>2. CASE j = i + 1
    <3>1. g[j] = loc /\ g[j - 1] = h[i] /\ j > 1 /\ j # 1
      BY <1>1, <2>2
    <3>2. QED BY <3>1 DEF ToldAt
  <2>3. QED BY <1>1, <2>1, <2>2
<1>4. QED BY <1>3 DEF Told, g

\* An entry is replaced by an unmarked one: what is over a marked entry stays.
LEMMA ReplaceTold ==
  ASSUME NEW h \in Seq(Locations), Told(h), NEW i \in 2..Len(h), NEW loc \in Locations,
         loc.page # "elsewhere", ~loc.fromArticle,
         i + 1 \in 1..Len(h) => ~h[i + 1].fromArticle \/ loc = h[i]
  PROVE  Told(Replaced(h, i, loc))
<1> DEFINE g == Replaced(h, i, loc)
<1>1. /\ g \in Seq(Locations) /\ Len(g) = Len(h) /\ Len(h) \in Nat
      /\ \A j \in 1..Len(h) : g[j] = IF j = i THEN loc ELSE h[j]
  BY ReplacedType
<1> HIDE DEF g
<1>2. ASSUME NEW j \in 1..Len(h)
      PROVE  ToldAt(g, j)
  <2>1. CASE j = i
    <3>1. g[j] = loc /\ j # 1
      BY <1>1, <2>1
    <3>2. QED BY <3>1 DEF ToldAt
  <2>2. CASE j = i + 1
    <3>1. g[j] = h[j] /\ g[j - 1] = loc /\ j - 1 = i /\ (~h[j].fromArticle \/ loc = h[i])
      BY <1>1, <2>2
    <3>2. QED BY <2>2, <3>1 DEF Told, ToldAt
  <2>3. CASE j # i /\ j # i + 1
    <3>1. g[j] = h[j] /\ (j > 1 => g[j - 1] = h[j - 1])
      BY <1>1, <2>3
    <3>2. QED BY <3>1 DEF Told, ToldAt
  <2>4. QED BY <2>1, <2>2, <2>3
<1>3. QED BY <1>1, <1>2 DEF Told, g

\* Handlers that only look back at the address keep it as it is told.
LEMMA OpenProductTold ==
  ASSUME HistoryInv, NEW p \in Products, OpenProduct(p)
  PROVE  HistoryInv'
<1> USE DEF HistoryInv
<1> DEFINE loc == Location(p, shown.filter, None, TRUE)
           home == Location(shown.page, shown.filter, None, FALSE)
<1>1. /\ Here /\ UNCHANGED <<shown, drawer, asking, reloaded>> /\ opener' = p
      /\ early' = (early \/ Behind \/ IsDrawer(shown))
  BY DEF OpenProduct, Uncovered
<1>2. shown \in Locations /\ shown.filter \in Filters /\ shown.page \in Pages
      /\ shown.hash \in Sections \cup {None} /\ shown.fromArticle \in BOOLEAN
  BY DEF DrawerInv, Locations
<1>3. p \in Pages
  BY DEF Pages
<1>4. loc \in Locations /\ loc.page = p /\ loc.filter = shown.filter
  BY <1>2, <1>3 DEF Location, Locations
<1>5. home \in Locations /\ home.page = shown.page /\ ~home.fromArticle /\ home.hash = None
  BY <1>2 DEF Location, Locations
<1>6. DrawerInv'
  BY <1>1, DrawerStays
<1>7. Len(history) \in Nat /\ at \in 2..Len(history)
  BY <1>1 DEF Here
<1> HIDE DEF loc, home
<1>8. CASE IsDrawer(shown)
  <2>1. history' = Replaced(history, at, loc) /\ at' = at
    BY <1>8 DEF OpenProduct, Replace, loc
  <2>2. QED BY <1>1, <1>4, <1>6, <1>8, <2>1, ReplacedType
<1>9. CASE ~IsDrawer(shown)
  <2> DEFINE h == WithoutHash(history)
  <2>1. history' = Pushed(h, at, loc) /\ at' = at + 1 /\ due' = "PUSH"
    BY <1>9 DEF OpenProduct, loc
  <2>2. h = IF shown.hash = None THEN history ELSE Replaced(history, at, home)
    BY DEF WithoutHash, home
  <2>3. h \in Seq(Locations) /\ Len(h) = Len(history) /\ at \in 1..Len(h)
    BY <1>5, <1>7, <2>2, ReplacedType
  <2> HIDE DEF h
  <2>4. history' \in Seq(Locations) /\ at' \in 1..Len(history')
    BY <1>4, <1>7, <2>1, <2>3, PushedType
  <2>5. ASSUME ~early'
        PROVE  Told(history')
    <3>1. ~early /\ due = None /\ Told(history) /\ shown = history[at]
      BY <1>1, <2>5 DEF Behind
    <3>2. shown.page = "article" /\ ~shown.fromArticle
      <4>1. ToldAt(history, at)
        BY <1>7, <3>1 DEF Told
      <4>2. at # 1 /\ shown.page # "elsewhere"
        BY <1>7, <3>1, <4>1 DEF ToldAt
      <4>3. shown.page = "article"
        BY <1>2, <1>9, <4>2 DEF IsDrawer, Pages
      <4>4. ~shown.fromArticle
        BY <3>1, <4>1, <1>9 DEF ToldAt, IsDrawer
      <4>5. QED BY <4>3, <4>4
    <3>3. home = Location("article", shown.filter, None, FALSE)
      BY <3>2 DEF home
    <3>4. Told(h) /\ h[at] = home
      <4>1. CASE shown.hash = None
        <5>1. shown = home
          BY <1>2, <3>2, <4>1 DEF home, Location, Locations
        <5>2. QED BY <2>2, <3>1, <4>1, <5>1
      <4>2. CASE shown.hash # None
        <5>1. shown # home
          BY <1>5, <4>2
        <5>2. ASSUME at + 1 \in 1..Len(history), history[at + 1].fromArticle
              PROVE  FALSE
          <6> DEFINE i == at + 1
          <6>1. i \in 1..Len(history) /\ i - 1 = at
            BY <1>7, <5>2
          <6>2. ToldAt(history, i)
            BY <3>1, <6>1 DEF Told
          <6>3. history[at] = Location("article", history[i].filter, None, FALSE)
            BY <5>2, <6>1, <6>2 DEF ToldAt
          <6>4. shown.hash = None
            BY <3>1, <6>3 DEF Location
          <6>5. QED BY <4>2, <6>4
        <5>3. home.page # "elsewhere"
          BY <1>5, <3>2
        <5>4. Told(Replaced(history, at, home))
          BY <1>5, <1>7, <3>1, <5>2, <5>3, ReplaceTold
        <5>5. Replaced(history, at, home)[at] = home
          BY <1>5, <1>7 DEF Replaced
        <5>6. h = Replaced(history, at, home)
          BY <2>2, <4>2
        <5>7. QED BY <5>4, <5>5, <5>6
      <4>3. QED BY <4>1, <4>2
    <3>5. loc.page \in Products /\ loc.page # "elsewhere"
      BY <1>4, DrawerRouteAssumption
    <3>6. QED BY <1>4, <2>1, <2>3, <3>3, <3>4, <3>5, PushTold
  <2>6. due' # None
    BY <2>1, NoneIsNull DEF Navs
  <2>7. QED BY <1>6, <2>4, <2>5, <2>6
<1>10. QED BY <1>8, <1>9

\* The entry the reader acts on, when the router had caught up with the history.
LEMMA EntryShown ==
  ASSUME HistoryInv, Here, ~early, due = None
  PROVE  /\ Told(history) /\ shown = history[at] /\ at \in 2..Len(history)
         /\ shown \in Locations /\ shown.page # "elsewhere"
         /\ shown.fromArticle => shown.page \in Products
         /\ at + 1 \in 1..Len(history) /\ history[at + 1].fromArticle
              => shown.page = "article" /\ ~shown.fromArticle
<1> USE DEF HistoryInv
<1>1. Told(history) /\ shown = history[at] /\ shown \in Locations
  BY DEF DrawerInv
<1>2. Len(history) \in Nat /\ at \in 2..Len(history) /\ at # 1 /\ at \in 1..Len(history)
  BY DEF Here
<1>3. ToldAt(history, at)
  BY <1>1, <1>2 DEF Told
<1>4. shown.page # "elsewhere" /\ (shown.fromArticle => shown.page \in Products)
  BY <1>1, <1>2, <1>3 DEF ToldAt
<1>5. ASSUME at + 1 \in 1..Len(history), history[at + 1].fromArticle
      PROVE  shown.page = "article" /\ ~shown.fromArticle
  <2> DEFINE i == at + 1
  <2>1. i \in 1..Len(history) /\ i - 1 = at
    BY <1>2, <1>5
  <2>2. ToldAt(history, i)
    BY <1>1, <2>1 DEF Told
  <2>3. shown = Location("article", history[i].filter, None, FALSE)
    BY <1>1, <1>5, <2>1, <2>2 DEF ToldAt
  <2>4. QED BY <2>3 DEF Location
<1>6. QED BY <1>1, <1>2, <1>4, <1>5

\* An address that carries no mark is pushed or put in place of the rendered one.
LEMMA NavigationInv ==
  ASSUME HistoryInv, Here, UNCHANGED <<shown, drawer, asking, reloaded, opener>>, Hasty,
         NEW loc \in Locations, ~loc.fromArticle,
         ~early' => loc.page # "elsewhere",
         \/ Push(loc)
         \/ Replace(loc) /\ (~early' /\ at + 1 \in 1..Len(history) =>
                             ~history[at + 1].fromArticle \/ loc = shown)
  PROVE  HistoryInv'
<1> USE DEF HistoryInv
<1>1. DrawerInv'
  BY DrawerStays DEF DrawerInv
<1>2. Len(history) \in Nat /\ at \in 1..Len(history)
  OBVIOUS
<1>3. due' \in {"PUSH", "REPLACE"} /\ due' # None
  BY NoneIsNull DEF Push, Replace, Navs
<1>4. ~early' => Told(history) /\ shown = history[at] /\ at \in 2..Len(history)
  BY EntryShown DEF Hasty, Behind
<1>5. CASE Push(loc)
  <2>1. history' = Pushed(history, at, loc) /\ at' = at + 1
    BY <1>5 DEF Push
  <2>2. history' \in Seq(Locations) /\ at' \in 1..Len(history')
    BY <1>2, <2>1, PushedType
  <2>3. ~early' => Told(history')
    BY <1>2, <1>4, <2>1, PushTold
  <2>4. QED BY <1>1, <1>3, <2>2, <2>3
<1>6. CASE ~Push(loc)
  <2>1. history' = Replaced(history, at, loc) /\ at' = at
    BY <1>6 DEF Replace
  <2>2. history' \in Seq(Locations) /\ at' \in 1..Len(history')
    BY <1>2, <2>1, ReplacedType
  <2>3. ~early' => Told(history')
    BY <1>2, <1>4, <1>6, <2>1, ReplaceTold
  <2>4. QED BY <1>1, <1>3, <2>2, <2>3
<1>7. QED BY <1>5, <1>6

LEMMA FollowLinkTold ==
  ASSUME HistoryInv, NEW hash \in Sections \cup {None}, FollowLink(hash)
  PROVE  HistoryInv'
<1> DEFINE loc == Location("article", "", hash, FALSE)
<1>1. /\ Here /\ UNCHANGED <<shown, drawer, asking, reloaded, opener>> /\ Hasty
      /\ Link(loc)
  BY DEF FollowLink, Uncovered
<1>2. loc \in Locations /\ ~loc.fromArticle /\ loc.page # "elsewhere"
  BY DrawerRouteAssumption DEF Location, Locations, Pages
<1> HIDE DEF loc
<1>3. CASE loc = [shown EXCEPT !.fromArticle = FALSE]
  <2>1. Replace(loc)
    BY <1>1, <1>3 DEF Link
  <2>2. ASSUME ~early', at + 1 \in 1..Len(history), history[at + 1].fromArticle
        PROVE  loc = shown
    <3>1. shown \in Locations /\ ~shown.fromArticle
      BY <1>1, <2>2, EntryShown DEF Hasty, Behind
    <3>2. QED BY <1>3, <3>1 DEF Locations
  <2>3. QED BY <1>1, <1>2, <2>1, <2>2, NavigationInv
<1>4. CASE loc # [shown EXCEPT !.fromArticle = FALSE]
  BY <1>1, <1>2, <1>4, NavigationInv DEF Link
<1>5. QED BY <1>3, <1>4

LEMMA FilterTold ==
  ASSUME HistoryInv, NEW filter \in Filters, Filter(filter)
  PROVE  HistoryInv'
<1> DEFINE loc == Location(shown.page, filter, None, FALSE)
<1>1. /\ Here /\ UNCHANGED <<shown, drawer, asking, reloaded, opener>> /\ Hasty
      /\ Push(loc)
  BY DEF Filter, Uncovered
<1>2. shown \in Locations
  BY DEF HistoryInv, DrawerInv
<1>3. loc \in Locations /\ ~loc.fromArticle /\ loc.page = shown.page
  BY <1>2 DEF Location, Locations
<1> HIDE DEF loc
<1>4. ~early' => loc.page # "elsewhere"
  BY <1>1, <1>3, EntryShown DEF Hasty, Behind
<1>5. QED BY <1>1, <1>3, <1>4, NavigationInv

\* Closing replaces a drawer's entry only where no article is marked below it.
LEMMA CloseTold ==
  ASSUME HistoryInv, Close
  PROVE  HistoryInv'
<1> DEFINE loc == Location("article", shown.filter, None, FALSE)
<1>1. /\ Here /\ drawer # None /\ Hasty
      /\ UNCHANGED <<shown, drawer, asking, reloaded, opener>>
  BY DEF Close
<1>2. shown \in Locations /\ shown.page \in Products
  BY <1>1 DEF HistoryInv, DrawerInv, DrawerShowsItsProduct, Drawers
<1>3. loc \in Locations /\ ~loc.fromArticle /\ loc.page # "elsewhere"
  BY <1>2 DEF Location, Locations, Pages
<1>4. CASE shown.fromArticle
  <2>1. UNCHANGED <<history, at, due>>
    BY <1>4 DEF Close
  <2>2. DrawerInv'
    BY <1>1, DrawerStays DEF HistoryInv, DrawerInv
  <2>3. QED BY <1>1, <2>1, <2>2 DEF HistoryInv, Hasty, Here
<1> HIDE DEF loc
<1>5. CASE ~shown.fromArticle
  <2>1. Replace(loc)
    BY <1>5 DEF Close, loc
  <2>2. ~early' /\ at + 1 \in 1..Len(history) => ~history[at + 1].fromArticle
    BY <1>1, <1>2, DrawerRouteAssumption, EntryShown DEF Hasty, Behind
  <2>3. QED BY <1>1, <1>3, <2>1, <2>2, NavigationInv
<1>6. QED BY <1>4, <1>5

\* The browser's own navigation leaves the entries as they are.
LEMMA GoToTold ==
  ASSUME HistoryInv, Here, NEW i, GoTo(i)
  PROVE  HistoryInv'
<1>1. /\ i \in DOMAIN history /\ at' = i /\ due' = "POP"
      /\ UNCHANGED <<history, shown, drawer, asking, reloaded, opener, early>>
  BY DEF GoTo
<1>2. at' \in 1..Len(history') /\ due' # None
  BY <1>1, NoneIsNull DEF HistoryInv, Navs
<1>3. DrawerInv'
  BY <1>1 DEF HistoryInv, DrawerInv, DrawerShowsItsProduct, EffectDue, Here
<1>4. QED BY <1>1, <1>2, <1>3 DEF HistoryInv

\* The entry the tab is at is rendered.
LEMMA RenderedTold ==
  ASSUME HistoryInv, DrawerInv', UNCHANGED <<history, at, early>>, shown' = history[at]
  PROVE  HistoryInv'
  BY DEF HistoryInv

\* The history and what is rendered of it stay.
LEMMA KeptTold ==
  ASSUME HistoryInv, DrawerInv', UNCHANGED <<history, at, due, shown, early>>
  PROVE  HistoryInv'
  BY DEF HistoryInv, Here

LEMMA HistoryStep ==
  ASSUME HistoryInv, DrawerNext
  PROVE  HistoryInv'
<1>1. DrawerInv /\ shown \in Locations /\ history[at] \in Locations
  BY DEF HistoryInv, DrawerInv
<1>2. CASE \E p \in Products : OpenProduct(p)
  BY <1>2, OpenProductTold
<1>3. CASE \E h \in Sections \cup {None} : FollowLink(h)
  BY <1>3, FollowLinkTold
<1>4. CASE \E f \in Filters : Filter(f)
  BY <1>4, FilterTold
<1>5. CASE Close
  BY <1>5, CloseTold
<1>6. CASE GoBack \/ \E i \in DOMAIN history : Browse(i)
  BY <1>6, GoToTold DEF GoBack, Browse
<1>7. ASSUME NEW up \in BOOLEAN, NEW ready \in BOOLEAN, Commit(up, ready)
      PROVE  HistoryInv'
  BY <1>1, <1>7, DrawerCommitInv, RenderedTold DEF Commit
<1>8. ASSUME NEW up \in BOOLEAN, NEW ready \in BOOLEAN, ArticleCommit(up, ready)
      PROVE  HistoryInv'
  BY <1>1, <1>8, DrawerCommitInv, KeptTold DEF ArticleCommit
<1>9. ASSUME NEW up \in BOOLEAN, ChunkLoads(up)
      PROVE  HistoryInv'
  BY <1>1, <1>9, DrawerCommitInv, KeptTold DEF ChunkLoads
<1>10. ASSUME NEW again \in BOOLEAN, Reload(again)
       PROVE  HistoryInv'
  <2>1. DrawerInv'
    BY <1>1, <1>10 DEF Reload, DrawerInv, DrawerShowsItsProduct
  <2>2. QED BY <1>10, <2>1, RenderedTold DEF Reload
<1>11. ASSUME NEW r \in asking, ProductAnswers(r) \/ ProductFails(r)
       PROVE  HistoryInv'
  <2>1. r.query \in Products /\ Loaded(r.query) \in Views /\ LoadFailed \in Views
    BY <1>1, ViewTypes DEF DrawerInv
  <2>2. Loaded(r.query).data = r.query /\ Loaded(r.query).status # "loading"
        /\ LoadFailed.data = None /\ LoadFailed.status # "loading"
    BY DEF Loaded, LoadFailed
  <2>3. DrawerInv'
    BY <1>1, <1>11, <2>1, <2>2, ProductSettlesInv DEF ProductAnswers, ProductFails
  <2>4. UNCHANGED <<history, at, due, shown, early>>
    BY <1>11 DEF ProductAnswers, ProductFails, ProductSettles
  <2>5. QED BY <2>3, <2>4, KeptTold
<1>12. CASE ProductRetry
  BY <1>1, <1>12, ProductRetryInv, KeptTold DEF ProductRetry
<1>13. CASE UNCHANGED drawerVars
  BY <1>1, <1>13 DEF drawerVars, HistoryInv, DrawerInv, DrawerShowsItsProduct, EffectDue, Told,
                     ToldAt, Here
<1>14. CASE DrawerEffect
  BY <1>1, <1>14, DrawerEffectInv, KeptTold DEF DrawerEffect
<1>15. QED BY <1>2, <1>3, <1>4, <1>5, <1>6, <1>7, <1>8, <1>9, <1>10, <1>11, <1>12, <1>13, <1>14
       DEF DrawerNext

LEMMA HistoryInitInv == Init => HistoryInv
<1> SUFFICES ASSUME Init PROVE HistoryInv
  OBVIOUS
<1>1. PICK page \in {"article"} \cup Products, filter \in Filters, hash \in Sections \cup {None} :
        history = <<Elsewhere, Location(page, filter, hash, FALSE)>>
  BY DEF Init, DrawerInit
<1> DEFINE first == Location(page, filter, hash, FALSE)
<1>2. Elsewhere \in Locations /\ first \in Locations
  BY DrawerRouteAssumption DEF Elsewhere, Location, Locations, Pages
<1>3. Elsewhere.page = "elsewhere" /\ ~Elsewhere.fromArticle
      /\ first.page # "elsewhere" /\ ~first.fromArticle
  BY DrawerRouteAssumption DEF Elsewhere, Location
<1> HIDE DEF first
<1>4. history = <<Elsewhere, first>>
  BY <1>1 DEF first
<1>5. history \in Seq(Locations) /\ Len(history) = 2 /\ history[1] = Elsewhere
      /\ history[2] = first
  BY <1>2, <1>4
<1>6. Told(history)
  <2>1. \A i \in 1..Len(history) : i = 1 \/ i = 2
    BY <1>5
  <2>2. ToldAt(history, 1)
    BY <1>3, <1>5 DEF ToldAt
  <2>3. ToldAt(history, 2)
    BY <1>3, <1>5 DEF ToldAt
  <2>4. QED BY <2>1, <2>2, <2>3 DEF Told
<1>7. at = 2 /\ shown = first /\ drawer = None /\ asking = {} /\ opener = None
      /\ reloaded = FALSE
  BY <1>5 DEF Init, DrawerInit
<1>8. DrawerInv
  <2>1. reloaded \in BOOLEAN
    BY <1>7
  <2>2. QED BY <1>2, <1>7, <2>1 DEF DrawerInv, DrawerShowsItsProduct
<1>9. at \in 1..Len(history) /\ shown = history[at]
  BY <1>5, <1>7
<1>10. QED BY <1>5, <1>6, <1>8, <1>9 DEF HistoryInv

LEMMA HistoryNextInv == HistoryInv /\ [Next]_vars => HistoryInv'
<1>1. HistoryInv => reloaded \in BOOLEAN
  BY DEF HistoryInv, DrawerInv
<1>2. QED BY <1>1, NextDraws, HistoryStep

(***************************************************************************)
(* useApi.ts:11-44 and ProductDrawer.tsx:238-241: however its answers are  *)
(* ordered the drawer shows the product asked for last or none, and that   *)
(* is the one of its address but for the time between the render of        *)
(* another address and the effect that asks for it.                        *)
(***************************************************************************)
THEOREM DrawerIsOfItsAddress == Spec => []DrawerShowsItsProduct
<1>1. HistoryInv => DrawerShowsItsProduct
  BY DEF HistoryInv, DrawerInv
<1>2. QED BY HistoryInitInv, HistoryNextInv, <1>1, PTL DEF Spec

(***************************************************************************)
(* drawerRoute.ts:31-53: however the reader opens, follows, filters, goes  *)
(* back and reloads, one step back from a drawer the article opened is     *)
(* the article it was opened over.                                         *)
(***************************************************************************)
THEOREM ClosingGoesBack == Spec => []BackIsTheArticle
<1>1. HistoryInv => BackIsTheArticle
  <2> SUFFICES ASSUME HistoryInv, ~early, NEW i \in DOMAIN history, history[i].fromArticle
               PROVE  history[i - 1] = Location("article", history[i].filter, None, FALSE)
    BY DEF BackIsTheArticle
  <2>1. ToldAt(history, i)
    BY DEF HistoryInv, Told
  <2>2. QED BY <2>1 DEF ToldAt
<1>2. QED BY HistoryInitInv, HistoryNextInv, <1>1, PTL DEF Spec

\* A commit that mounts or unmounts the drawer does not scroll behind it.
LEMMA NoScroll ==
  ASSUME DrawerNext, landing.handled, ~landing.onKind, (drawer = None) # (drawer' = None),
         nav' = "POP" \/ shown'.hash = None
  PROVE  scroll' = None
<1>1. ASSUME NEW loc, NEW navigation, NEW ready, ScrollEffect(loc, navigation, ready),
             navigation = "POP" \/ loc.hash = None
      PROVE  scroll' = None
  BY <1>1 DEF ScrollEffect, WentBack
<1>2. ASSUME NEW up \in BOOLEAN, NEW ready \in BOOLEAN, Commit(up, ready)
      PROVE  scroll' = None
  BY <1>1, <1>2 DEF Commit
<1>3. ASSUME NEW up \in BOOLEAN, NEW ready \in BOOLEAN, ArticleCommit(up, ready)
      PROVE  scroll' = None
  BY <1>1, <1>3 DEF ArticleCommit
<1>4. CASE UNCHANGED drawerVars
  BY <1>4 DEF drawerVars
<1>5. QED BY <1>2, <1>3, <1>4
      DEF DrawerNext, OpenProduct, FollowLink, Filter, Close, GoBack, Browse, GoTo, ChunkLoads,
          Reload, DrawerEffect, ProductAnswers, ProductFails, ProductSettles, ProductRetry

(***************************************************************************)
(* HomePage.tsx:61-92 with Shell.tsx:24-32: opening and closing a drawer   *)
(* leaves the article behind it where it was.                              *)
(***************************************************************************)
THEOREM PlaceIsKept == Spec => DrawerKeepsThePlace
<1>1. HistoryInv /\ [Next]_vars =>
        [landing.handled /\ ~landing.onKind /\ (drawer = None) # (drawer' = None)
           /\ (nav' = "POP" \/ shown'.hash = None)
           => scroll' = None]_drawerVars
  BY NextDraws, NoScroll DEF HistoryInv, DrawerInv
<1>2. QED BY HistoryInitInv, HistoryNextInv, <1>1, PTL DEF Spec, DrawerKeepsThePlace

---------------------------------------------------------------------------
(* The walk over /changes                                                  *)

\* The rows an undisturbed walk has passed: what it wants of them it has.
Passed ==
  /\ wanted \subseteq Range(published)
  /\ \A i \in DOMAIN published :
       i <= Len(items) /\ published[i] \in wanted => published[i] \in Range(items)
  /\ counted => total = Len(published)

WalkInv ==
  /\ feed \in [Feeds -> {"loading", "ok", "error"}]
  /\ published \in Seq(Nat) /\ items \in Seq(Nat) /\ nextChange \in Nat
  /\ counted => feed["changes"] = "loading"
  /\ \A i \in DOMAIN published : published[i] < nextChange
  /\ \A x \in wanted : x \in Nat /\ x < nextChange
  /\ feed["changes"] = "loading" /\ ~disturbed => Passed
  /\ NoChangeLost

LEMMA MinOfTwo ==
  ASSUME NEW a \in Nat, NEW b \in Nat
  PROVE  Min({a, b}) = IF a <= b THEN a ELSE b
<1> DEFINE m == IF a <= b THEN a ELSE b
<1>1. m \in {a, b} /\ \A y \in {a, b} : m <= y
  OBVIOUS
<1>2. \A x \in {a, b} : (\A y \in {a, b} : x <= y) => x = m
  OBVIOUS
<1> HIDE DEF m
<1>3. QED BY <1>1, <1>2 DEF Min, m

\* A page continues the list where the walk stands; an empty one is its end.
LEMMA PageRows ==
  ASSUME WalkInv
  PROVE  /\ Page \in Seq(Nat)
         /\ \A i \in DOMAIN published :
              i \in Len(items) + 1 .. Len(items) + Len(Page) =>
                published[i] = Page[i - Len(items)]
         /\ Page = <<>> => Len(published) <= Len(items)
<1> USE DEF WalkInv
<1> DEFINE n == Len(items)
           k == Len(published)
           last == IF n + PageSize <= k THEN n + PageSize ELSE k
<1>1. n \in Nat /\ k \in Nat /\ n + PageSize \in Nat /\ PageSize > 0
  BY PageLoadAssumption
<1>2. Page = SubSeq(published, n + 1, last)
  BY <1>1, MinOfTwo DEF Page
<1>3. last \in Nat /\ last <= k /\ (last <= n => k <= n)
  BY <1>1, PageLoadAssumption
<1> HIDE DEF n, k, last
<1>4. Page \in Seq(Nat) /\ Len(Page) = (IF n + 1 <= last THEN last - n ELSE 0)
      /\ \A j \in 1..Len(Page) : Page[j] = published[n + j]
  BY <1>1, <1>2, <1>3 DEF k
<1>5. Page = <<>> => k <= n
  BY <1>1, <1>3, <1>4
<1>6. ASSUME NEW i \in DOMAIN published, i \in n + 1 .. n + Len(Page)
      PROVE  published[i] = Page[i - n]
  <2>1. i \in Int /\ Len(Page) \in Nat
    BY <1>4, <1>6
  <2>2. i - n \in 1..Len(Page) /\ n + (i - n) = i
    BY <1>1, <1>6, <2>1
  <2>3. QED BY <1>4, <2>2
<1>7. QED BY <1>4, <1>5, <1>6 DEF n, k

LEMMA ReadPageWalks ==
  ASSUME WalkInv, ReadPage
  PROVE  WalkInv'
<1> USE DEF WalkInv
<1>1. /\ counted /\ feed["changes"] = "loading" /\ items' = items \o Page /\ ~counted'
      /\ feed' = [feed EXCEPT !["changes"] = IF Whole(items \o Page) THEN "ok" ELSE @]
      /\ UNCHANGED <<published, nextChange, total, wanted, disturbed>>
  BY DEF ReadPage
<1>2. Page \in Seq(Nat) /\ items' \in Seq(Nat) /\ Len(items') = Len(items) + Len(Page)
      /\ Len(items) \in Nat /\ Len(Page) \in Nat /\ Len(published) \in Nat
  BY <1>1, PageRows
<1>3. /\ \A i \in 1..Len(items) : items'[i] = items[i]
      /\ \A i \in Len(items) + 1 .. Len(items') : items'[i] = Page[i - Len(items)]
  BY <1>1, <1>2
<1>4. Range(items) \subseteq Range(items')
  <2>1. DOMAIN items = 1..Len(items) /\ DOMAIN items' = 1..Len(items')
    BY <1>2
  <2>2. \A i \in 1..Len(items) : i \in 1..Len(items')
    BY <1>2
  <2>3. QED BY <1>3, <2>1, <2>2 DEF Range
<1>5. ASSUME Passed, NEW i \in DOMAIN published, i <= Len(items'), published[i] \in wanted
      PROVE  published[i] \in Range(items')
  <2>1. CASE i <= Len(items)
    BY <1>4, <1>5, <2>1 DEF Passed
  <2>2. CASE i > Len(items)
    <3>1. i \in Len(items) + 1 .. Len(items') /\ i \in DOMAIN items'
      BY <1>2, <1>5, <2>2
    <3>2. published[i] = items'[i]
      BY <1>2, <1>3, <3>1, PageRows
    <3>3. QED BY <3>1, <3>2 DEF Range
  <2>3. QED BY <1>2, <2>1, <2>2
<1>6. ~disturbed => Passed'
  BY <1>1, <1>5 DEF Passed
<1>7. ASSUME ~disturbed, feed'["changes"] = "ok"
      PROVE  wanted \subseteq Range(items')
  <2>1. Page = <<>> \/ Len(items') >= Len(published)
    BY <1>1, <1>7 DEF Whole, Passed
  <2>2. Len(published) <= Len(items')
    BY <1>2, <2>1, PageRows
  <2>3. SUFFICES ASSUME NEW x \in wanted PROVE x \in Range(items')
    OBVIOUS
  <2>4. PICK i \in DOMAIN published : published[i] = x
    BY <1>1, <1>7 DEF Passed, Range
  <2>5. i <= Len(items')
    BY <1>2, <2>2
  <2>6. QED BY <1>1, <1>5, <1>7, <2>4, <2>5
<1>8. NoChangeLost'
  BY <1>1, <1>7 DEF NoChangeLost
<1>9. feed' \in [Feeds -> {"loading", "ok", "error"}]
  BY <1>1
<1>10. QED BY <1>1, <1>2, <1>6, <1>8, <1>9

\* A change published between two pages moves what was passed by one place.
LEMMA PublishWalks ==
  ASSUME WalkInv, Publish
  PROVE  WalkInv'
<1> USE DEF WalkInv
<1>1. /\ published' = <<nextChange>> \o published /\ nextChange' = nextChange + 1
      /\ disturbed' = (disturbed \/ counted)
      /\ UNCHANGED <<feed, items, total, counted, wanted>>
  BY DEF Publish
<1>2. /\ published' \in Seq(Nat) /\ Len(published') = Len(published) + 1
      /\ Len(published) \in Nat /\ published'[1] = nextChange
      /\ \A i \in 1..Len(published) : published'[i + 1] = published[i]
  BY <1>1
<1>3. ASSUME NEW i \in DOMAIN published'
      PROVE  \/ i = 1 /\ published'[i] = nextChange
             \/ /\ i - 1 \in DOMAIN published /\ published'[i] = published[i - 1]
  <2>1. CASE i = 1
    BY <1>2, <2>1
  <2>2. CASE i # 1
    <3>1. i - 1 \in 1..Len(published) /\ (i - 1) + 1 = i
      BY <1>2, <2>2
    <3>2. QED BY <1>2, <3>1
  <2>3. QED BY <2>1, <2>2
<1>4. \A i \in DOMAIN published' : published'[i] < nextChange'
  <2>1. \A i \in DOMAIN published : published[i] \in Nat /\ published[i] < nextChange + 1
    OBVIOUS
  <2>2. QED BY <1>1, <1>3, <2>1
<1>5. ASSUME Passed, ~counted
      PROVE  Passed'
  <2>1. wanted \subseteq Range(published')
    <3>1. SUFFICES ASSUME NEW x \in wanted PROVE x \in Range(published')
      OBVIOUS
    <3>2. PICK i \in 1..Len(published) : published[i] = x
      BY <1>5 DEF Passed, Range
    <3>3. i + 1 \in DOMAIN published' /\ published'[i + 1] = x
      BY <1>2, <3>2
    <3>4. QED BY <3>3 DEF Range
  <2>2. ASSUME NEW i \in DOMAIN published', i <= Len(items), published'[i] \in wanted
        PROVE  published'[i] \in Range(items)
    <3>1. i - 1 \in DOMAIN published /\ published'[i] = published[i - 1]
      BY <1>3, <2>2
    <3>2. i - 1 <= Len(items)
      BY <1>2, <2>2
    <3>3. QED BY <1>5, <2>2, <3>1, <3>2 DEF Passed
  <2>3. QED BY <1>1, <1>5, <2>1, <2>2 DEF Passed
<1>6. feed'["changes"] = "loading" /\ ~disturbed' => Passed'
  BY <1>1, <1>5
<1>7. \A x \in wanted' : x \in Nat /\ x < nextChange'
  <2>1. \A x \in wanted : x \in Nat /\ x < nextChange + 1
    OBVIOUS
  <2>2. QED BY <1>1, <2>1
<1>8. NoChangeLost'
  BY <1>1 DEF NoChangeLost
<1>9. QED BY <1>1, <1>2, <1>4, <1>6, <1>7, <1>8

\* What is left when one row is taken out are rows that were there.
LEMMA RemovedRows ==
  ASSUME NEW s \in Seq(Nat), NEW i \in DOMAIN s
  PROVE  /\ RemoveAt(s, i) \in Seq(Nat)
         /\ \A j \in DOMAIN RemoveAt(s, i) : \E k \in DOMAIN s : RemoveAt(s, i)[j] = s[k]
<1> DEFINE n == Len(s)
           l == SubSeq(s, 1, i - 1)
           r == SubSeq(s, i + 1, n)
           t == RemoveAt(s, i)
<1>1. n \in Nat /\ i \in Int /\ 1 <= i /\ i <= n /\ \A j \in 1..n : s[j] \in Nat /\ j \in DOMAIN s
  OBVIOUS
<1>2. t = l \o r
  BY DEF RemoveAt
<1>3. l \in Seq(Nat) /\ Len(l) = i - 1 /\ \A j \in 1..(i - 1) : l[j] = s[j]
  OBVIOUS
<1>4. /\ r \in Seq(Nat) /\ Len(r) = (IF i + 1 <= n THEN n - (i + 1) + 1 ELSE 0)
      /\ \A j \in 1..(n - (i + 1) + 1) : r[j] = s[(i + 1) + j - 1]
  <2>1. i + 1 \in Int /\ n \in Int /\ \A j \in i + 1 .. n : s[j] \in Nat
    BY <1>1
  <2>2. QED BY <2>1, SubSeqProperties
<1> HIDE DEF n, l, r, t
<1>5. Len(r) = n - i
  BY <1>1, <1>4
<1>6. /\ t \in Seq(Nat) /\ Len(t) = Len(l) + Len(r)
      /\ \A j \in 1..(Len(l) + Len(r)) : t[j] = IF j <= Len(l) THEN l[j] ELSE r[j - Len(l)]
  BY <1>2, <1>3, <1>4, ConcatProperties
<1>7. Len(t) = n - 1
  BY <1>1, <1>3, <1>5, <1>6
<1>8. ASSUME NEW j \in 1..(n - 1)
      PROVE  \E k \in DOMAIN s : t[j] = s[k]
  <2>1. j \in Int /\ 1 <= j /\ j <= n - 1 /\ n - 1 \in Int
    BY <1>1
  <2>2. t[j] = IF j <= i - 1 THEN l[j] ELSE r[j - (i - 1)]
    BY <1>1, <1>3, <1>5, <1>6, <1>7, <2>1
  <2>3. CASE j <= i - 1
    <3>1. j \in 1..(i - 1) /\ j \in 1..n
      BY <1>1, <2>1, <2>3
    <3>2. t[j] = s[j]
      BY <1>3, <2>2, <2>3, <3>1
    <3>3. QED BY <1>1, <3>1, <3>2
  <2>4. CASE ~(j <= i - 1)
    <3>1. j - (i - 1) \in 1..(n - (i + 1) + 1) /\ (i + 1) + (j - (i - 1)) - 1 = j + 1
          /\ j + 1 \in 1..n
      <4>1. n \in Int /\ i \in Int
        BY <1>1
      <4>2. i <= j /\ j + 1 <= n
        BY <2>1, <2>4, <4>1
      <4>3. QED BY <2>1, <4>1, <4>2
    <3>2. t[j] = s[j + 1]
      BY <1>4, <2>2, <2>4, <3>1
    <3>3. QED BY <1>1, <3>1, <3>2
  <2>5. QED BY <2>3, <2>4
<1>9. QED BY <1>6, <1>7, <1>8 DEF t

\* A withdrawal during the walk is the case left out; at any other time it is past.
LEMMA WithdrawWalks ==
  ASSUME WalkInv, Withdraw
  PROVE  WalkInv'
<1> USE DEF WalkInv
<1>1. PICK i \in DOMAIN published : published' = RemoveAt(published, i)
  BY DEF Withdraw
<1>2. /\ disturbed' = (disturbed \/ feed["changes"] = "loading")
      /\ UNCHANGED <<feed, items, total, counted, wanted, nextChange>>
  BY DEF Withdraw
<1>3. published' \in Seq(Nat) /\ \A j \in DOMAIN published' : published'[j] < nextChange
  BY <1>1, RemovedRows
<1>4. ~(feed'["changes"] = "loading" /\ ~disturbed')
  BY <1>2
<1>5. NoChangeLost'
  BY <1>2 DEF NoChangeLost
<1>6. QED BY <1>2, <1>3, <1>4, <1>5

LEMMA CountWalks ==
  ASSUME WalkInv, CountChanges
  PROVE  WalkInv'
<1>1. /\ feed["changes"] = "loading" /\ total' = Len(published)
      /\ UNCHANGED <<feed, published, nextChange, items, wanted, disturbed>>
  BY DEF CountChanges
<1>2. QED BY <1>1 DEF WalkInv, Passed, NoChangeLost

\* A walk that begins wants what is published, and has passed nothing.
LEMMA LoadAgainWalks ==
  ASSUME WalkInv, NEW again \in SUBSET Feeds, LoadAgain(again)
  PROVE  WalkInv'
<1> USE DEF WalkInv
<1>1. /\ feed' = [f \in Feeds |-> IF f \in again THEN "loading" ELSE feed[f]]
      /\ UNCHANGED <<published, nextChange>> /\ "changes" \in Feeds
      /\ feed' \in [Feeds -> {"loading", "ok", "error"}]
  BY PageLoadAssumption DEF LoadAgain
<1>2. CASE "changes" \in again
  <2>1. items' = <<>> /\ ~counted' /\ wanted' = Range(published) /\ feed'["changes"] = "loading"
    BY <1>1, <1>2 DEF LoadAgain
  <2>2. items' \in Seq(Nat) /\ Len(items') = 0
    BY <2>1
  <2>3. \A x \in wanted' : x \in Nat /\ x < nextChange
    BY <2>1 DEF Range
  <2>4. \A i \in DOMAIN published : ~(i <= Len(items'))
    BY <2>2
  <2>5. Passed'
    BY <1>1, <2>1, <2>4 DEF Passed
  <2>6. QED BY <1>1, <2>1, <2>2, <2>3, <2>5 DEF NoChangeLost
<1>3. CASE "changes" \notin again
  <2>1. UNCHANGED <<items, total, counted, wanted, disturbed>> /\ feed'["changes"] = feed["changes"]
    BY <1>1, <1>3 DEF LoadAgain
  <2>2. QED BY <1>1, <2>1 DEF Passed, NoChangeLost
<1>4. QED BY <1>2, <1>3

LEMMA FeedWalks ==
  ASSUME WalkInv, NEW f \in Feeds, FeedAnswers(f) \/ FeedFails(f)
  PROVE  WalkInv'
<1> USE DEF WalkInv
<1>1. /\ UNCHANGED <<published, nextChange, items, total, wanted, disturbed>>
      /\ feed' \in [Feeds -> {"loading", "ok", "error"}]
  BY DEF FeedAnswers, FeedFails
<1>2. CASE f # "changes"
  <2>1. feed'["changes"] = feed["changes"]
    BY <1>2, PageLoadAssumption DEF FeedAnswers, FeedFails
  <2>2. counted' => counted
    BY DEF FeedAnswers, FeedFails
  <2>3. QED BY <1>1, <2>1, <2>2 DEF Passed, NoChangeLost
<1>3. CASE f = "changes"
  <2>1. feed'["changes"] = "error" /\ ~counted'
    BY <1>3, PageLoadAssumption DEF FeedAnswers, FeedFails
  <2>2. QED BY <1>1, <2>1 DEF NoChangeLost
<1>4. QED BY <1>2, <1>3

LEMMA WalkInitInv == Init => WalkInv
<1> SUFFICES ASSUME Init PROVE WalkInv
  OBVIOUS
<1>1. /\ feed = [f \in Feeds |-> "loading"] /\ "changes" \in Feeds /\ Already \in Nat
      /\ published = [i \in 1..Already |-> Already + 1 - i] /\ nextChange = Already + 1
      /\ items = <<>> /\ ~counted /\ wanted = 1..Already
  BY PageLoadAssumption DEF Init, PageInit
<1>2. published \in Seq(Nat) /\ DOMAIN published = 1..Already
  BY <1>1
<1>3. \A i \in 1..Already : published[i] = Already + 1 - i /\ published[i] < nextChange
  BY <1>1
<1>4. wanted \subseteq Range(published)
  <2>1. \A x \in 1..Already : Already + 1 - x \in 1..Already /\ published[Already + 1 - x] = x
    BY <1>1
  <2>2. QED BY <1>1, <1>2, <2>1 DEF Range
<1>5. Passed
  BY <1>1, <1>2, <1>4 DEF Passed
<1>6. QED BY <1>1, <1>2, <1>3, <1>5 DEF WalkInv, NoChangeLost

LEMMA WalkNextInv == WalkInv /\ [Next]_vars => WalkInv'
<1> SUFFICES ASSUME WalkInv, [Next]_vars PROVE WalkInv'
  OBVIOUS
<1>1. CASE Respond
  BY <1>1, FeedWalks, CountWalks, ReadPageWalks DEF Respond, PageStep
<1>2. CASE RetryPage
  BY <1>2, LoadAgainWalks DEF RetryPage, PageStep, Retry, Failed
<1>3. CASE Fail
  BY <1>3, FeedWalks DEF Fail, PageStep
<1>4. CASE ReloadDocument
  BY <1>4, LoadAgainWalks DEF ReloadDocument, PageReload
<1>5. CASE Pipeline
  BY <1>5, PublishWalks, WithdrawWalks DEF Pipeline
<1>6. CASE UNCHANGED pageVars
  BY <1>6 DEF pageVars, WalkInv, Passed, NoChangeLost
<1>7. CASE \/ SubmitQuestion \/ AnswerQuestion \/ GiveUp \/ Router \/ DrawerEffects
           \/ ProductRequest \/ RetryProduct \/ Navigate \/ GoHome \/ CloseDrawer \/ UseBrowser
           \/ ProductTrouble
  <2>1. UNCHANGED pageVars
    BY <1>7 DEF SubmitQuestion, AnswerQuestion, GiveUp, AskPage, Router, DrawerEffects,
                ProductRequest, RetryProduct, Navigate, GoHome, CloseDrawer, UseBrowser,
                ProductTrouble, DrawerStep
  <2>2. QED BY <1>6, <2>1
<1>8. QED BY <1>1, <1>2, <1>3, <1>4, <1>5, <1>6, <1>7 DEF Next, vars

(***************************************************************************)
(* client.ts:46-60: the list of every published change is complete, for    *)
(* any page size and however much is published while it is read.           *)
(***************************************************************************)
THEOREM EveryChangeIsRead == Spec => []NoChangeLost
<1>1. WalkInv => NoChangeLost
  BY DEF WalkInv
<1>2. QED BY WalkInitInv, WalkNextInv, <1>1, PTL DEF Spec

---------------------------------------------------------------------------
(* Types                                                                   *)

\* The types of the page's variables that WalkInv says nothing of.
PageRest ==
  /\ total \in Nat \cup {None} /\ counted \in BOOLEAN
  /\ withdrawn \in 0..MaxWithdrawn /\ disturbed \in BOOLEAN
  /\ failures \in 0..MaxFailures

LEMMA PageRestNext == WalkInv /\ PageRest /\ [Next]_vars => PageRest'
<1> SUFFICES ASSUME WalkInv, PageRest, [Next]_vars PROVE PageRest'
  OBVIOUS
<1> USE DEF PageRest
<1>1. CASE Respond
  <2>1. PICK f \in Feeds : FeedAnswers(f) \/ CountChanges \/ ReadPage
    BY <1>1, PageLoadAssumption DEF Respond, PageStep
  <2>2. Len(published) \in Nat
    BY DEF WalkInv
  <2>3. QED BY <2>1, <2>2 DEF FeedAnswers, CountChanges, ReadPage
<1>2. ASSUME NEW again, LoadAgain(again)
      PROVE  PageRest'
  BY <1>2 DEF LoadAgain
<1>3. CASE Fail
  <2>1. PICK f \in Feeds : FeedFails(f)
    BY <1>3 DEF Fail, PageStep
  <2>2. failures' = failures + 1 /\ failures < MaxFailures
        /\ counted' = (counted /\ f # "changes") /\ UNCHANGED <<total, withdrawn, disturbed>>
    BY <2>1 DEF FeedFails
  <2>3. QED BY <2>2, PageLoadAssumption
<1>4. CASE Pipeline
  <2>1. CASE Publish
    BY <2>1 DEF Publish
  <2>2. CASE Withdraw
    <3>1. withdrawn' = withdrawn + 1 /\ withdrawn < MaxWithdrawn
          /\ disturbed' = (disturbed \/ feed["changes"] = "loading")
          /\ UNCHANGED <<total, counted, failures>>
      BY <2>2 DEF Withdraw
    <3>2. QED BY <3>1, PageLoadAssumption
  <2>3. QED BY <1>4, <2>1, <2>2 DEF Pipeline
<1>5. CASE UNCHANGED pageVars
  BY <1>5 DEF pageVars
<1>6. CASE RetryPage \/ ReloadDocument
  BY <1>2, <1>6 DEF RetryPage, PageStep, Retry, ReloadDocument, PageReload
<1>7. CASE \/ SubmitQuestion \/ AnswerQuestion \/ GiveUp \/ Router \/ DrawerEffects
           \/ ProductRequest \/ RetryProduct \/ Navigate \/ GoHome \/ CloseDrawer \/ UseBrowser
           \/ ProductTrouble
  <2>1. UNCHANGED pageVars
    BY <1>7 DEF SubmitQuestion, AnswerQuestion, GiveUp, AskPage, Router, DrawerEffects,
                ProductRequest, RetryProduct, Navigate, GoHome, CloseDrawer, UseBrowser,
                ProductTrouble, DrawerStep
  <2>2. QED BY <1>5, <2>1
<1>8. QED BY <1>1, <1>3, <1>4, <1>5, <1>6, <1>7 DEF Next, vars

\* The types of the question section's variables, but for its requests.
AskRest ==
  /\ mount \in [n : Nat, on : BOOLEAN]
  /\ asked \in [status : {"idle", "pending", "answer", "error"}, question : Questions \cup {None}]
  /\ current \in 1..MaxAsks \cup {None}
  /\ asks \in 0..MaxAsks

\* What a settled request shows.
LEMMA ShowType ==
  ASSUME AskRest, NEW r \in Asks, NEW status \in {"answer", "error"}
  PROVE  Show(r, status) \in [status : {"idle", "pending", "answer", "error"},
                              question : Questions \cup {None}]
  BY DEF AskRest, Show, Asks

LEMMA AskRestNext == AskInv /\ AskRest /\ [Next]_vars => AskRest'
<1> SUFFICES ASSUME AskInv, AskRest, [Next]_vars PROVE AskRest'
  OBVIOUS
<1>1. CASE Respond \/ RetryPage \/ Fail
  <2>1. AskUnmount \/ AskMount \/ UNCHANGED askVars
    BY <1>1 DEF Respond, RetryPage, Fail, PageStep, AskFollows
  <2>2. CASE AskUnmount
    BY <2>2 DEF AskRest, AskUnmount
  <2>3. CASE AskMount
    BY <2>3 DEF AskRest, AskMount, Idle
  <2>4. QED BY <2>1, <2>2, <2>3 DEF AskRest, askVars
<1>2. CASE ReloadDocument
  BY <1>2 DEF ReloadDocument, AskReload, AskRest, Idle
<1>3. ASSUME NEW q \in Questions \cup {Blank}, Submit(q)
      PROVE  AskRest'
  <2>1. /\ q \in Questions /\ asks < MaxAsks /\ asks' = asks + 1 /\ current' = asks'
        /\ asked' = [status |-> "pending", question |-> q] /\ mount' = mount
    BY <1>3 DEF Submit
  <2>2. asks' \in 1..MaxAsks
    BY <2>1, AskClientAssumption DEF AskRest
  <2>3. QED BY <2>1, <2>2 DEF AskRest
<1>4. ASSUME NEW r \in sent, AskAnswered(r) \/ AskRejected(r)
      PROVE  AskRest'
  <2>1. r \in Asks
    BY DEF AskInv
  <2>2. asked' \in {asked, Show(r, "answer"), Show(r, "error")}
        /\ UNCHANGED <<mount, current, asks>>
    BY <1>4 DEF AskAnswered, AskRejected
  <2>3. QED BY <2>1, <2>2, ShowType DEF AskRest
<1>5. ASSUME NEW r \in sent, AskTimeout(r)
      PROVE  AskRest'
  BY <1>5 DEF AskTimeout, AskRest
<1>6. CASE UNCHANGED askVars
  BY <1>6 DEF askVars, AskRest
<1>7. CASE SubmitQuestion
  BY <1>3, <1>7 DEF SubmitQuestion, AskPage
<1>8. CASE AnswerQuestion
  BY <1>4, <1>8 DEF AnswerQuestion, AskPage
<1>9. CASE GiveUp
  BY <1>4, <1>5, <1>9 DEF GiveUp, AskPage
<1>10. CASE Pipeline \/ Router \/ DrawerEffects \/ ProductRequest \/ RetryProduct \/ Navigate
            \/ GoHome \/ CloseDrawer \/ UseBrowser \/ ProductTrouble
  <2>1. UNCHANGED askVars
    BY <1>10 DEF Pipeline, Router, DrawerEffects, ProductRequest, RetryProduct, Navigate, GoHome,
                 CloseDrawer, UseBrowser, ProductTrouble, DrawerStep
  <2>2. QED BY <1>6, <2>1
<1>11. QED BY <1>1, <1>2, <1>6, <1>7, <1>8, <1>9, <1>10 DEF Next, vars

\* The types of the drawer's variables that HistoryInv says nothing of.
DrawerRest ==
  /\ going \in Nat /\ due \in Navs \cup {None} /\ nav \in Navs
  /\ chunk \in {"absent", "loaded"}
  /\ landing \in [onKind : BOOLEAN, handled : BOOLEAN]
  /\ scroll \in Sections \cup {None, "changes"}
  /\ early \in BOOLEAN

LEMMA LandingType ==
  ASSUME NEW loc
  PROVE  Landing(loc) \in [onKind : BOOLEAN, handled : BOOLEAN]
  BY DEF Landing

LEMMA ScrollEffectType ==
  ASSUME DrawerRest, NEW loc \in Locations, NEW navigation, NEW ready \in BOOLEAN,
         ScrollEffect(loc, navigation, ready)
  PROVE  /\ landing' \in [onKind : BOOLEAN, handled : BOOLEAN]
         /\ scroll' \in Sections \cup {None, "changes"}
<1>1. loc.hash \in Sections \cup {None}
  BY DEF Locations
<1>2. scroll' \in {None, loc.hash, "changes"}
  BY DEF ScrollEffect
<1>3. PICK target : landing' = [onKind  |-> landing.onKind /\ ~(target # None /\ loc.hash = None),
                                handled |-> landing.handled \/ ready]
  BY DEF ScrollEffect
<1>4. landing' \in [onKind : BOOLEAN, handled : BOOLEAN]
  BY <1>3
<1>5. QED BY <1>1, <1>2, <1>4

LEMMA DrawerRestStep ==
  ASSUME HistoryInv, DrawerRest, DrawerNext
  PROVE  DrawerRest'
<1> USE DEF DrawerRest
<1>1. shown \in Locations /\ history[at] \in Locations
  BY DEF HistoryInv, DrawerInv
<1>2. CASE \/ \E p \in Products : OpenProduct(p)
           \/ \E h \in Sections \cup {None} : FollowLink(h)
           \/ \E f \in Filters : Filter(f)
           \/ Close
  <2>1. /\ UNCHANGED <<nav, chunk, landing>> /\ scroll' = None
        /\ going' \in {going, going + 1}
        /\ due' \in {due, "PUSH", "REPLACE"}
    BY <1>2 DEF OpenProduct, FollowLink, Filter, Close, Link, Push, Replace
  <2>2. early' \in BOOLEAN
    BY <1>2 DEF OpenProduct, FollowLink, Filter, Close, Hasty
  <2>3. QED BY <2>1, <2>2 DEF Navs
<1>3. CASE GoBack \/ \E i \in DOMAIN history : Browse(i)
  <2>1. /\ UNCHANGED <<nav, chunk, landing, early>> /\ scroll' = None /\ due' = "POP"
        /\ (going' = going \/ (going > 0 /\ going' = going - 1))
    BY <1>3 DEF GoBack, Browse, GoTo
  <2>2. QED BY <2>1 DEF Navs
<1>4. ASSUME NEW up \in BOOLEAN, NEW ready \in BOOLEAN, Commit(up, ready)
      PROVE  DrawerRest'
  <2>1. due # None /\ nav' = due /\ due' = None /\ UNCHANGED <<going, chunk, early>>
        /\ ScrollEffect(history[at], due, ready)
    BY <1>4 DEF Commit
  <2>2. QED BY <1>1, <2>1, ScrollEffectType
<1>5. ASSUME NEW up \in BOOLEAN, NEW ready \in BOOLEAN, ArticleCommit(up, ready)
      PROVE  DrawerRest'
  <2>1. UNCHANGED <<going, due, nav, chunk, early>>
    BY <1>5 DEF ArticleCommit
  <2>2. CASE ready
    BY <1>1, <1>5, <2>1, <2>2, ScrollEffectType DEF ArticleCommit
  <2>3. CASE ~ready
    BY <1>5, <2>1, <2>3 DEF ArticleCommit
  <2>4. QED BY <2>2, <2>3
<1>6. ASSUME NEW up \in BOOLEAN, ChunkLoads(up)
      PROVE  DrawerRest'
  BY <1>6 DEF ChunkLoads
<1>7. ASSUME NEW again \in BOOLEAN, Reload(again)
      PROVE  DrawerRest'
  BY <1>7, LandingType DEF Reload, Navs
<1>8. ASSUME NEW r \in asking, ProductAnswers(r) \/ ProductFails(r)
      PROVE  DrawerRest'
  BY <1>8 DEF ProductAnswers, ProductFails, ProductSettles
<1>9. CASE ProductRetry \/ DrawerEffect
  BY <1>9 DEF ProductRetry, DrawerEffect
<1>10. CASE UNCHANGED drawerVars
  BY <1>10 DEF drawerVars
<1>11. QED BY <1>2, <1>3, <1>4, <1>5, <1>6, <1>7, <1>8, <1>9, <1>10 DEF DrawerNext

\* All of the tab's invariants, with the types they leave open.
ReaderInv ==
  /\ WalkInv /\ AskInv /\ HistoryInv
  /\ PageRest /\ AskRest /\ DrawerRest
  /\ events \in 0..MaxEvents

LEMMA ReaderInitInv == Init => ReaderInv
<1> SUFFICES ASSUME Init PROVE ReaderInv
  OBVIOUS
<1>1. PageRest
  <2>1. total = None /\ counted = FALSE /\ withdrawn = 0 /\ disturbed = FALSE /\ failures = 0
    BY DEF Init, PageInit
  <2>2. 0 \in 0..MaxWithdrawn /\ 0 \in 0..MaxFailures
    BY PageLoadAssumption
  <2>3. counted \in BOOLEAN /\ disturbed \in BOOLEAN
    BY <2>1
  <2>4. QED BY <2>1, <2>2, <2>3 DEF PageRest
<1>2. AskRest
  BY AskClientAssumption DEF Init, AskInit, AskRest, Idle
<1>3. DrawerRest
  BY LandingType DEF Init, DrawerInit, DrawerRest, Navs
<1>4. events \in 0..MaxEvents
  BY ReaderAssumption DEF Init
<1>5. QED BY <1>1, <1>2, <1>3, <1>4, WalkInitInv, AskInitInv, HistoryInitInv DEF ReaderInv

LEMMA ReaderNextInv == ReaderInv /\ [Next]_vars => ReaderInv'
<1> SUFFICES ASSUME ReaderInv, [Next]_vars PROVE ReaderInv'
  OBVIOUS
<1> USE DEF ReaderInv
<1>1. events' \in 0..MaxEvents
  <2>1. events' = events \/ (events < MaxEvents /\ events' = events + 1)
    BY DEF Next, Quiet, Event, vars
  <2>2. QED BY <2>1, ReaderAssumption
<1>2. DrawerRest'
  BY NextDraws, DrawerRestStep DEF HistoryInv, DrawerInv
<1>3. QED BY <1>1, <1>2, WalkNextInv, AskNextInv, HistoryNextInv, PageRestNext, AskRestNext

(***************************************************************************)
(* The state of a tab keeps its types: no counter leaves its bounds, the   *)
(* drawer shows a product or none, and the history never runs out of the   *)
(* entry the tab is at (drawerRoute.ts, useApi.ts, AskSection.tsx).        *)
(***************************************************************************)
THEOREM Types == Spec => []TypeOK
<1>1. ReaderInv => TypeOK
  <2> SUFFICES ASSUME ReaderInv PROVE TypeOK
    OBVIOUS
  <2> USE DEF ReaderInv
  <2>1. PageTypeOK
    BY DEF PageTypeOK, PageRest, WalkInv
  <2>2. AskTypeOK
    BY DEF AskTypeOK, AskRest, AskInv
  <2>3. DrawerTypeOK
    BY DEF DrawerTypeOK, DrawerRest, HistoryInv, DrawerInv
  <2>4. QED BY <2>1, <2>2, <2>3 DEF TypeOK
<1>2. QED BY ReaderInitInv, ReaderNextInv, <1>1, PTL DEF Spec
=============================================================================
