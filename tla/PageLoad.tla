------------------------------ MODULE PageLoad ------------------------------
(***************************************************************************)
(* The loads behind the article (pages/HomePage.tsx): one useApi per feed, *)
(* whose parameters never change, and the walk of getAllChanges over the   *)
(* pages of /changes (api/client.ts) while the pipeline publishes and      *)
(* withdraws changes.  One feed in error replaces the whole article.       *)
(***************************************************************************)
EXTENDS UseApi, SequencesExt

CONSTANTS
  Feeds,          \* the requests of the page; "changes" is the one that pages
  PageSize,       \* PAGE_SIZE
  Already,        \* changes published before the page opens
  MaxPublished,   \* bound: changes ever published
  MaxWithdrawn,   \* bound: changes withdrawn by a reparse
  MaxFailures     \* bound: failed requests

ASSUME PageLoadAssumption ==
  /\ "changes" \in Feeds
  /\ PageSize \in Nat \ {0}
  /\ Already \in Nat /\ MaxPublished \in Nat /\ MaxWithdrawn \in Nat /\ MaxFailures \in Nat

VARIABLES
  feed,        \* the status of each feed
  published,   \* the rows of /changes, newest first
  nextChange,  \* the id of the next change
  items,       \* getAllChanges: the rows so far
  total,       \* getAllChanges: the last page's count, None before the first
  counted,     \* the count of the page being read was taken, its rows were not
  wanted,      \* the changes that were published when this walk began
  withdrawn,   \* how many changes were withdrawn
  disturbed,   \* the list moved in a way this walk cannot follow
  failures     \* requests that failed

pageVars == <<feed, published, nextChange, items, total, counted, wanted, withdrawn, disturbed, failures>>

PageTypeOK ==
  /\ feed \in [Feeds -> {"loading", "ok", "error"}]
  /\ published \in Seq(Nat) /\ nextChange \in Nat
  /\ items \in Seq(Nat) /\ total \in Nat \cup {None} /\ counted \in BOOLEAN
  /\ wanted \subseteq Nat
  /\ withdrawn \in 0..MaxWithdrawn /\ disturbed \in BOOLEAN
  /\ failures \in 0..MaxFailures

\* failure and ready of HomePage.
ArticleDown == \E f \in Feeds : feed[f] = "error"
Ready       == \A f \in Feeds : feed[f] = "ok"

PageInit ==
  /\ feed = [f \in Feeds |-> "loading"]
  /\ published = [i \in 1..Already |-> Already + 1 - i]
  /\ nextChange = Already + 1
  /\ items = <<>> /\ total = None /\ counted = FALSE
  /\ wanted = 1..Already
  /\ withdrawn = 0 /\ disturbed = FALSE
  /\ failures = 0

---------------------------------------------------------------------------
(* The server                                                              *)

\* A refresh publishes a change: the newest row comes first.
Publish ==
  /\ nextChange <= MaxPublished
  /\ published' = <<nextChange>> \o published
  /\ nextChange' = nextChange + 1
  \* The count and the rows of one page are two statements at READ COMMITTED.
  /\ disturbed' = (disturbed \/ counted)
  /\ UNCHANGED <<feed, items, total, counted, wanted, withdrawn, failures>>

\* A reparse demotes a published change.
Withdraw ==
  /\ withdrawn < MaxWithdrawn
  /\ \E i \in DOMAIN published : published' = RemoveAt(published, i)
  /\ withdrawn' = withdrawn + 1
  \* The rows behind it move up by one, past the offset.
  /\ disturbed' = (disturbed \/ feed["changes"] = "loading")
  /\ UNCHANGED <<feed, nextChange, items, total, counted, wanted, failures>>

---------------------------------------------------------------------------
(* getAllChanges: one page is a count and then a SELECT (api/queries.py)   *)

\* Mutant of CountChanges: the count of the first page is kept for the others.
CountChangesOnce ==
  /\ feed["changes"] = "loading" /\ ~counted
  /\ total' = IF total = None THEN Len(published) ELSE total
  /\ counted' = TRUE
  /\ UNCHANGED <<feed, published, nextChange, items, wanted, withdrawn, disturbed, failures>>

CountChanges ==
  /\ feed["changes"] = "loading" /\ ~counted
  /\ total' = Len(published)
  /\ counted' = TRUE
  /\ UNCHANGED <<feed, published, nextChange, items, wanted, withdrawn, disturbed, failures>>

\* The rows after the ones the client has: offset is their number.
Page == SubSeq(published, Len(items) + 1, Min({Len(items) + PageSize, Len(published)}))

Whole(rows) == Page = <<>> \/ Len(rows) >= total

ReadPage ==
  /\ counted
  /\ items' = items \o Page
  /\ feed' = [feed EXCEPT !["changes"] = IF Whole(items \o Page) THEN "ok" ELSE @]
  /\ counted' = FALSE
  /\ UNCHANGED <<published, nextChange, total, wanted, withdrawn, disturbed, failures>>

---------------------------------------------------------------------------
(* The hooks                                                               *)

FeedAnswers(f) ==
  /\ f # "changes" /\ feed[f] = "loading"
  /\ feed' = [feed EXCEPT ![f] = "ok"]
  /\ UNCHANGED <<published, nextChange, items, total, counted, wanted, withdrawn, disturbed, failures>>

FeedFails(f) ==
  /\ feed[f] = "loading" /\ failures < MaxFailures
  /\ feed' = [feed EXCEPT ![f] = "error"]
  /\ failures' = failures + 1
  /\ counted' = (counted /\ f # "changes")
  /\ UNCHANGED <<published, nextChange, items, total, wanted, withdrawn, disturbed>>

\* The effects of the feeds in again: getAllChanges starts from nothing.
LoadAgain(again) ==
  /\ feed' = [f \in Feeds |-> IF f \in again THEN "loading" ELSE feed[f]]
  /\ IF "changes" \in again
     THEN /\ items' = <<>> /\ total' = None /\ counted' = FALSE
          /\ wanted' = Range(published)
          /\ disturbed' = FALSE
     ELSE UNCHANGED <<items, total, counted, wanted, disturbed>>
  /\ UNCHANGED <<published, nextChange, withdrawn, failures>>

\* Mutant of Failed: the feed with a loader of its own is forgotten.
FailedSimple == {f \in Feeds \ {"changes"} : feed[f] = "error"}

Failed == {f \in Feeds : feed[f] = "error"}

\* The Retry button: the feeds in error are loaded again, the others kept.
Retry == ArticleDown /\ LoadAgain(Failed)

\* The document is loaded again.
PageReload == LoadAgain(Feeds)

---------------------------------------------------------------------------
(***************************************************************************)
(* The list the story, the table and the search work on is complete:       *)
(* every change that was published when its walk began is in it, whatever  *)
(* the pipeline published between two pages, unless a row was withdrawn    *)
(* during the walk or one published between a page's count and its rows    *)
(* ("Every published change", api/client.ts:46).                           *)
(***************************************************************************)
NoChangeLost ==
  feed["changes"] = "ok" /\ ~disturbed => wanted \subseteq Range(items)
=============================================================================
