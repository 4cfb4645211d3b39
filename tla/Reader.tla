------------------------------- MODULE Reader -------------------------------
(***************************************************************************)
(* One reader's tab: the article's loads, the question section and the     *)
(* product drawer together.  A load that fails takes the section and the   *)
(* drawer off the page (pages/HomePage.tsx), a retry brings them back, and *)
(* a document loaded again starts all three afresh.                        *)
(***************************************************************************)
EXTENDS PageLoad, AskClient, DrawerRoute

CONSTANT MaxEvents    \* bound: what the reader and the world do in one session

ASSUME ReaderAssumption == MaxEvents \in Nat

VARIABLE events

vars == <<pageVars, askVars, drawerVars, events>>

TypeOK == PageTypeOK /\ AskTypeOK /\ DrawerTypeOK /\ events \in 0..MaxEvents

Init == PageInit /\ AskInit /\ DrawerInit /\ events = 0

Event == events < MaxEvents /\ events' = events + 1
Quiet == UNCHANGED events

---------------------------------------------------------------------------
(* Steps that may change whether the article is on the page                *)

\* AskSection is a child of the article: it leaves and comes back with it.
AskFollows ==
  IF ArticleDown' /\ ~ArticleDown THEN AskUnmount
  ELSE IF ArticleDown /\ ~ArticleDown' THEN AskMount
  ELSE UNCHANGED askVars

\* HomePage renders what its feeds are now.
PageStep(step) ==
  /\ Here /\ step
  /\ AskFollows
  /\ ArticleCommit(~ArticleDown', Ready' /\ ~Ready)

Respond ==
  \/ \E f \in Feeds : PageStep(FeedAnswers(f))
  \/ PageStep(CountChanges)
  \/ PageStep(ReadPage)
RetryPage == PageStep(Retry)
Fail == \E f \in Feeds : PageStep(FeedFails(f))

\* The document is loaded again, by the reader or for a lost chunk.
ReloadDocument == (Reload(reloaded) \/ ChunkFails) /\ PageReload /\ AskReload

---------------------------------------------------------------------------
(* Steps of one component                                                  *)

\* Changes come and go at any time; only during a walk does it matter to the page.
Pipeline ==
  Here /\ feed["changes"] = "loading" /\ (Publish \/ Withdraw) /\ UNCHANGED <<askVars, drawerVars>>

AskPage(step) == Here /\ step /\ UNCHANGED <<pageVars, drawerVars>>
SubmitQuestion == \E q \in Questions \cup {Blank} : AskPage(Submit(q))
AnswerQuestion ==
  \E r \in sent : ~r.aborted /\ (AskPage(AskAnswered(r)) \/ AskPage(AskRejected(r)))
GiveUp == \E r \in sent : AskPage(AskTimeout(r)) \/ (r.aborted /\ AskPage(AskRejected(r)))

DrawerStep(step) == step /\ UNCHANGED <<pageVars, askVars>>
\* The article's links work while it is up.
Navigate ==
  /\ ~ArticleDown
  /\ \/ feed["changes"] = "ok" /\ \E p \in Products : DrawerStep(OpenProduct(p))
     \/ \E h \in Sections : DrawerStep(FollowLink(h))
     \/ \E f \in Filters : DrawerStep(Filter(f))
GoHome == DrawerStep(FollowLink(None))
CloseDrawer == DrawerStep(Close)
UseBrowser == \E i \in DOMAIN history : DrawerStep(Browse(i))
Router ==
  \/ DrawerStep(GoBack)
  \/ DrawerStep(Commit(~ArticleDown, Ready))
  \/ DrawerStep(ChunkLoads(~ArticleDown))
DrawerEffects == DrawerStep(DrawerEffect)
ProductRequest == \E r \in asking : DrawerStep(ProductAnswers(r))
ProductTrouble == \E r \in asking : ~r.aborted /\ DrawerStep(ProductFails(r))
RetryProduct == DrawerStep(ProductRetry)

---------------------------------------------------------------------------
Next ==
  \/ Quiet /\ (Respond \/ RetryPage \/ AnswerQuestion \/ GiveUp \/ Router \/ DrawerEffects
               \/ ProductRequest \/ RetryProduct)
  \/ Event /\ (Fail \/ ReloadDocument \/ Pipeline \/ SubmitQuestion \/ Navigate \/ GoHome
               \/ CloseDrawer \/ UseBrowser \/ ProductTrouble)

Spec == Init /\ [][Next]_vars

(***************************************************************************)
(* Fairness: the API answers or refuses what the page asked (a request     *)
(* without an answer is what the failures stand for), a timer fires, a     *)
(* reader whose article failed presses Retry, and React runs the effects   *)
(* of what it has rendered.                                                *)
(***************************************************************************)
Fairness ==
  /\ WF_vars(Quiet /\ Respond)
  /\ WF_vars(Quiet /\ RetryPage)
  /\ WF_vars(Quiet /\ GiveUp)
  /\ WF_vars(Quiet /\ DrawerEffects)

FairSpec == Spec /\ Fairness

---------------------------------------------------------------------------
(***************************************************************************)
(* A question never stays pending while the reader stays: an answer, an    *)
(* error or the sixty seconds end it, or the section leaves the page       *)
(* (AskSection.tsx:99-120).                                                *)
(***************************************************************************)
AskSettles == Pending /\ Here ~> ~(Pending /\ Here)

(***************************************************************************)
(* After failures the article comes back: the loop over the pages of       *)
(* /changes ends, and pressing Retry loads what is missing, until all of   *)
(* the article is there or the reader has left.                            *)
(***************************************************************************)
ArticleRecovers == <>[](Ready \/ ~Here)
=============================================================================
