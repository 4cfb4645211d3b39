# Shrinkflation Detector: formal models

TLA+ modules that model the core of this repository, TLC configurations that check them on small
instances, and proofs checked by TLAPS. Paths without a directory are under
`backend/src/shrinkflation/`.

## The system

| Component | State | Operations | Talks to |
| --- | --- | --- | --- |
| Refresh and basket runs (`pipeline/refresh.py`, `basket.py`, `runs.py`) | `pipeline_runs`, `products.active`, `products.last_seen_at` | daily refresh in batches, basket build by search term, deactivation, retry by the platform | Kroger client, snapshot store |
| Snapshot store (`pipeline/observe.py`) | `snapshots`, `changes` of a product | one observation is one transaction: extend the latest snapshot, or add one and classify the transition | classifier, size parses |
| Classifier (`pipeline/detect.py`) | none | `classify_transition(before, after)` | called by the store |
| Size parses (`sizes/`) | `size_parses`, one row per (text, name) | resolve (cache, rules, model), reparse, demote | LLM client, snapshot store |
| LLM client (`llm/client.py`) | `llm_calls`, a cached budget flag | check the daily spend, call, record, repair | DeepSeek |
| Ask route (`agent/routes.py`) | `visitor_budgets`, `ask_log` | count, log, answer, refund | agent loop |
| Agent loop (`agent/service.py`, `tools.py`) | messages of one question | rounds of model and tool calls | LLM client, database (read only) |
| Rate limiter (`api/limits.py`) | fixed-window counts in memory | hit, prune, evict | every request |
| Kroger client (`kroger/client.py`) | token, call counter | token renewal, retries, paging | Kroger |
| Read API (`api/`) | none | feed, catalog, search, stats | database |
| Article's loads (`frontend/src/`: `lib/useApi.ts`, `api/client.ts`, `pages/HomePage.tsx`) | requests in flight, each feed's status | loading, walking the pages of `/changes`, failing, Retry | Read API |
| Ask section (`AskSection.tsx`) | the pending question, its controller and timer | submit, abort, time out, leave the page | ask route |
| Product drawer (`ProductDrawer.tsx`, `lib/drawerRoute.ts`, `Shell.tsx`) | the tab's history, the drawer's request and code | open, follow links, close, reload, scroll | Read API, article |
| Change table (`ChangesSection.tsx`, `lib/tableState.ts`) | the address | filter, sort, show all | article's feeds |
| Story (`lib/story.ts`, `Story.tsx`) | the active step | buildStory, the step at the trigger line | graphic |
| Graphic (`Graphic.tsx`, `graphicRenderer.ts`) | dots and their tweens, hover, highlight, tip, stage size | steps, frames, resize, pointer, keyboard | layouts |
| Layouts (`lib/grid.ts`, `swarm.ts`, `chartLayout.ts`, `annotate.ts`, `text.ts`) | none | grid, swarm, axis, labels | called by the graphic |

A refresh reads every active product from Kroger and hands each reading to `observe_product`, which
touches the product, compares the reading with the latest snapshot, resolves size parses and
writes. `shrink reparse` later reads the cached labels again with a new parser and pulls the changes
that rest on a revised parse from the feed. The page and the agent read what these left.

What is hard here: jobs that overlap (a manual start beside the scheduled one) under READ
COMMITTED with no explicit locks; exceptions that are caught inside a session, or outside it; runs
that are killed and retried; commands that commit row by row; a daily budget that concurrent
requests count, refund and carry over midnight; decisions at rounding thresholds. In the browser: a
router that changes the history at once and renders later, requests that outlive what asked for them,
a list read page by page while it grows, an animation that effects, observers and frames interrupt in
any order, and searches for free places with many boundary cases. `PROJECT.json` lists each hazard at
its line with the properties that look for it.

What makes each component correct, in one line:

- classifier: signs, kinds, silence and percentages agree with the two packages;
- snapshot store: the snapshots tell the timeline, every move between them is recorded once, no
  observation is lost;
- size parses and reparse: what is published agrees with the parses it links to;
- runs: a product is given up only for a reason of its own, an "ok" run has a word on each product,
  listed products are read again and again;
- question budget: concurrent questions cannot exceed the limit, no request overwrites another's count;
- LLM spend: the cap is overshot by no more than the calls in flight;
- limiter: a window lets no more than its limit through, and eviction is the only exception;
- agent loop: ends within its rounds, every tool call answered before the next round;
- page and drawer: no stale response shown, no change lost by paging, one live question, a drawer
  that closes to the article where it was;
- table: the number a control shows is the number of rows it leads to;
- story and graphic: what the text says is what is drawn, and the picture comes to rest on the step
  at the trigger line;
- layouts: dots and labels do not overlap or leave the stage.

## Modules

| Module | Models | Checked by |
| --- | --- | --- |
| `Classifier` | `classify_transition` as operators | `MCClassifier`, proofs in `ClassifierProofs` |
| `SnapshotStore` | one product's rows, overlapping jobs, reparse; EXTENDS `Classifier` | `MCSnapshotStore`, proofs in `SnapshotStoreProofs` |
| `RefreshRun` | runs over all products, days, failures, deactivation | `MCRefreshRun`, proofs in `RefreshRunProofs` |
| `AskBudget` | `POST /api/ask` for one visitor | `MCAskBudget`, proofs in `AskBudgetProofs` |
| `Quota` | what the ask route promises; `AskBudget` implements it | property `ImplementsQuota`, proved |
| `UseApi` | one hook's requests, aborts and results, as operators | through `Reader` |
| `PageLoad` | the article's feeds and the walk of `getAllChanges` | through `Reader` |
| `AskClient` | the question section | through `Reader` |
| `DrawerRoute` | the tab's history and the drawer; EXTENDS `UseApi` | through `Reader` |
| `Reader` | one tab: composes `PageLoad`, `AskClient`, `DrawerRoute` | `MCReader`, proofs in `ReaderProofs` |
| `DotRenderer` | the canvas engine: targets, tweens, frames, marks | through `Graphic` |
| `StepScroll` | which step of the story is active | through `Graphic` |
| `Graphic` | React's renders and effects over both; composes `DotRenderer`, `StepScroll` | `MCGraphic`, proofs in `GraphicProofs` |
| `Values`, `Changes` | percentages and published changes as the page reads them | through `Article` |
| `ChangeTable` | the table and its address; EXTENDS `Changes` | through `Article` |
| `StoryText` | the story's counts, steps and sentences, and the dots | through `Article` |
| `SwarmLayout`, `ChartLayout`, `GridLayout` | places of dots and labels | through `Article`, lemmas in `ChartProofs` |
| `Article` | the page once its feeds are there; composes the seven above | `MCArticle`, proofs in `ArticleProofs` |

Definitions whose comment starts with "Mutant of" are not part of the specifications: each is a
plausible bug, and putting it in the place of the definition it names makes a property fail.

### Classifier

Prices are cents, quantities base units, confidences hundredths, percentages hundredths of a
percent, as the code quantizes them. `RoundHalfUp` is `Decimal.quantize(ROUND_HALF_UP)`: halves go
away from zero. The unit price percentage is computed over the common denominator of the two
fractions, where the code divides Decimals of 28 digits first. One operator per branch of
`classify_transition`; the evidence record and notes are left out.

`MCClassifier` walks every pair of views over prices 0, 100, 199, 200, 201 and none, quantities 39,
40, 199, 200, 201 of one unit, one of another and an unread one, confidences 69 and 70: each threshold
(0.5 %, 80 %, 0.7) has pairs exactly on it and on both sides.

### SnapshotStore

One product. `snaps` are its rows in id order, `changes` its changes, `parses` the cached parse of
each label (a label is the pair of size text and name), `parser` what the deployed parser makes of a
label now, `seen` the product's `last_seen_at`. Each job is a process: `StartRun` fixes `now`,
`Fetch` brings a reading (any label, any price), `Begin` is `observe_product` up to the comparison,
`Resolve` the parse of a new state, `CommitSameState` and `CommitNewState` the two ends, `FailRefresh`
the rollback, `FailBasketSameState` and `FailBasketNewState` the commits the basket makes of a
half-done observation (it catches the exception inside the session), `Kill` the end of the process.

Two choices carry the concurrency. An observation that moves `last_seen_at` holds the product's row
lock from `Begin` on, because SQLAlchemy flushes the UPDATE before the SELECT of the latest snapshot;
a basket that meets the product again under the same `now` has nothing to flush and takes no lock.
And each parse is read when the code reads it and inserted when the transaction commits, where the
unique index may refuse it.

`ModelRead` are the labels the rules leave to a model: the model may be unavailable, which leaves a
snapshot without a parse. Reparse is the command of `sizes/maintenance.py`: selection, one
transaction per row, one demotion at the end from a list in memory. `ReparseFails` lets it end early,
`ReparseAlone` forbids it beside a job.

### RefreshRun

All products, days, and one job at a time: the schedule starts the refresh once a day and the
platform starts it once more if it did not finish (`infra/main.bicep`). `age` is the whole days since
`last_seen_at`, capped just beyond `INACTIVE_AFTER`; at exactly `INACTIVE_AFTER` days the seconds by
which two runs started late decide, so either may happen. A batch is answered with the products the
catalog lists, fails (KrogerError: counted, the run goes on) or raises (any other HTTP error: the
process ends). `healthy` says whether Kroger, the model provider and the platform work: failures and
kills need it to be false. `dropped` and `failed` are history: why a product was not read since it
was last seen.

### AskBudget and Quota

One visitor (visitors share no row), requests as processes. `Consume` is the upsert, `StartLog` the
pending row, `Answer` the agent's outcome, `ReadBudget` and `FinishLog` the two halves of
`_finish_log` around its `FOR UPDATE`, `FinishWithoutRow` the case of a day without a row, whose tokens
no budget row has (`agent/routes.py:124-125`), `Lose` a crash between two transactions. `Quota` is the promise: a question is granted while fewer than
`Limit` are held, plus one for each question of an earlier day given back today. The refinement maps
what is held to the questions counted on the day, let through and not given back.

### Reader, with PageLoad, AskClient and DrawerRoute

One tab, from the first request to leaving the site. `PageLoad` has the status of each feed and, for
`/changes`, the walk of `getAllChanges`: a page is a count (`CountChanges`) and then the rows
(`ReadPage`), two statements at READ COMMITTED, with changes published and withdrawn between. Retry
loads the feeds in error again. `AskClient` has `sent`, the questions that can still answer, each with
the number of the submission and the mount of the section it belongs to. `DrawerRoute` has the tab's
`history` and the entry it is `at`, which change at once, and `shown`, what is rendered; `Behind` says
that they differ. `Commit` is a render with its layout effects, and with the passive ones but for that of
the drawer's hook, which is `DrawerEffect`: a drawer that is rendered for another product keeps what it
shows until this effect has set `loading` and asked again (`asked`, `EffectDue`). The effect runs before
the next commit and before a click's handler. `history.go` is carried out later (`going`, `GoBack`). `OpenProduct` and `Close` read the rendered location, as the handlers
do, so a reader faster than the router acts on an old one: `early` records that it happened.
`UseApi` is the rule of the hooks: an aborted request sets nothing.

`Reader` adds what ties them: a failed feed takes the section and the drawer off the page
(`AskFollows`, `ArticleCommit`), a Retry that succeeds brings them back, and a document loaded again,
by the reader or because the drawer's code could not be fetched (`ChunkFails`), starts all three
afresh.

Abstractions: documents other than the site's are terminal; a second failure of the drawer's code,
unknown routes and redirects are left out; the list of changes moves only during a walk, since
nothing reads it at other times; the tab opens on the article, plain, filtered or at a section, or on
one chosen product with a filter (a reload opens it without one too).

### Graphic, with DotRenderer and StepScroll

A dot's place is a name and the geometry it was computed for, and alpha is a shade; radius and color
follow the place. `Go`, `SetGeometry`, `SetVisible` and `Tick` are the engine's operations: each may
interrupt a tween and requests or drops frames as the code does. `StepScroll` has the scroll offset,
what the effect of `Story.tsx` last read, and the frame it looks the step up in. `Graphic` has `want`
(what was set) and `view` (what is rendered); `Commit` renders with the layout effect, `StepEffect`
runs after it, observers and frames come in between. Pointer and keyboard set the ring, the highlight,
the tip and the announcement (`live`). The keyboard's order in the two steps of size cases is the
story's, of `/changes`, and may have products that `/products` no longer lists (`Undrawn`): these are
highlighted, but have no dot, so that ring, tip and announcement do not follow (`Highlight`).

Abstractions: tip and highlight are rendered at once; the renderer is built once per mount; a small
resize does not move the trigger lines; opening a product is `DrawerRoute`'s matter.

### Article, with ChangeTable, StoryText and the layouts

`Article` takes the feeds, builds the story and the dots (`Render`), lays them out on a stage
(`Resize`) and works the table (`AtTable`). The address is the table's state: each control writes a
query string (`Serialize`) and what is shown is read back from it (`Parse`). A category's number of
changes is the one `/categories` answers, a response of its own, or else the number of its listed
products that changed (`ChangesCount`); `CountAgrees` says when it is that of the dots. `StoryText` keeps a
sentence as its form and the numbers in it. The layouts compute in tenths of a pixel and of a percent,
rounded down, with the character widths `textMeasure` falls back to without a canvas.

`GridLayout` searches the rows and columns as `lib/grid.ts` does; a block has the products the model
names and then those it only counts (`quiet`), so that blocks of hundreds cost nothing; without
any block there is `NoLayout`. `SwarmLayout`
places dots by value and searches free heights among all dots placed so far, where the code keeps a
window of those near enough to matter (`swarm.ts:154-157`): the places are the same, and a window that
moved on too early is not something the runs would find. `ChartLayout` wraps, flips, slides and lifts labels,
and separates ticks.

Abstractions: the bisection of `balancedWrap` is modelled by its result; `showAll`'s effect comes in
the step of the render; the feeds arrive together; the heights of the axis labels are left out; blocks of one
size come in either order.

## Runs

| Run | Expect | What it shows |
| --- | --- | --- |
| `classifier` | pass | no kind is its own reverse; silence means noise; units do not matter; kinds tell the truth about the unit price; the three percentages agree |
| `classifier_publishing` | violation | `docs/decisions.md:30` is not the rule the code applies: price moves are published whatever the readings |
| `snapshot_serial` | pass | jobs one at a time with every failure and a reparse at any time: consecutive changes, a timeline without overlap, every move recorded |
| `snapshot_reparse` | pass | two refreshes at once: what an observation read stays the latest, no observation is lost; a reparse that runs alone and to its end leaves nothing published that contradicts its parses |
| `reparse_interrupted` | violation | a reparse that ends early does |
| `refresh` | pass | deactivation has a reason, "ok" means every product was read or missing, listed products stay seen, dropped ones leave |
| `refresh_gives_up_listed` | violation | after `INACTIVE_AFTER` of failed reads a listed product is called "dropped from the listing" |
| `ask_budget` | pass | exact counters, bounded questions, the quota is implemented, across midnight |
| `ask_midnight_refund` | violation | a refund after midnight lets one question too many through |
| `reader` | pass | one live question, a list without losses, a drawer that shows its product, closes to the article and keeps its place; pending questions end and the article recovers |
| `graphic` | pass | the picture at rest is the step's, marks agree, a turn of the window keeps the step, the picture catches up |
| `article` | pass | counts keep their word, story and dots tell the same, the grid has every product in its place, dots and labels keep apart |

Bounds. `MaxRuns`, `MaxDeploys` and `MaxCommits` bound the store's runs, parser updates and committed
observations: three or four runs are enough for a snapshot, a change, a reparse and an observation
after it, which is the longest story a property tells. `MaxDays` and four requests let a question be
open at midnight beside a refused, a refunded and an accepted one. Two products and
`INACTIVE_AFTER` of two days give batches that fail beside batches that do not and ages on both sides
of the limit; the code's values (50 per batch, 14 days) only make the same stories longer.

`reader` has three events (`MaxEvents`: what the reader does, what fails, what the pipeline does)
beside any number of answers, commits and retries: open, go on before the commit, and close or reload
are three. A page of one row and two changes, one more published and one withdrawn, give a walk of
three pages that moves under it; two products, one filter, one section and four entries give every
kind of neighbour in the history (about 476,000 states, 2 minutes). Stories that need more events are
covered by the theorems of `ReaderProofs`, which have no bound. `graphic` has a story of three steps,
three dots (shrunk, grown, unchanged) and a shrunk product without one, two shapes of the window and three sizes of the stage, one
short and one the wide size cards do not fit in, with three moves (about 522,000 states).
`article` takes 581 sets of feeds, each at four addresses: every feed of up to two changes over nine
kinds of move; feeds where the field has dropped a product or knows of a newer change, and
`/categories` lists nothing or no change yet; axis extremes
from 1 % to 50 % with up to five moves beyond the scale; crowds of eight dots at one value and close
together; and a table with ties, a product twice and more rows than a page. There are five stages,
from a phone to a desktop, 288 to 782 px wide, and catalogs of none, a few, hundreds and more products
than fit. A resize lays the picture out anew from the size alone, so each stage is entered as the first
and after the smallest one; the table is worked before the picture, with which it shares nothing.
`GridTellsTheField` sets aside stages on which the dots would be under 3 px.

The bounded runs stop at their bounds, so they do not check for deadlock.

Fairness. In `RefreshRun`: days pass, the scheduler starts the day's first attempt, a running
job takes its steps (every request has a timeout). Days and starts are strongly fair because a basket
an operator starts can disable them now and then. Nothing is assumed of the catalog, the failures or
the operator. In `Reader`: the API answers or refuses (a request without an answer is what the
failures stand for), the question's timer fires or its abort is delivered, and a reader whose article
failed presses Retry, and React runs the effects of what it has rendered; nothing is assumed of the
reader otherwise, nor of the router. In `Graphic`:
React commits what was set and runs its effects, and the browser delivers frames, listeners and
observers; the tween lasts a fixed number of frames. `Article` states none.

## Findings

The four violation runs. Seen while modelling, and not run: a reparse started beside a running
observation also leaves a published change with old numbers (set `ReparseAlone` to FALSE in
`SnapshotReparse.cfg`); demoted changes are never re-established by a later refresh, although
`sizes/maintenance.py:33` says so, because a refresh never touches an existing change; two overlapping
runs where the older one commits last can classify a change against a snapshot that is not the
neighbour (`ConsecutiveChanges` with `Overlap`); a refused question raises the visitor's counter, so a
refund after it gives nothing back; an HTTP error that is not a KrogerError ends a refresh, where
`frontend/src/lib/story.ts:375` says it carries on.

Seen in the frontend, and not run:

- Paging: a change published between a page's count and its rows can cost the walk its last row, and
  one withdrawn during it moves a row past the offset. `NoChangeLost` sets both aside (`disturbed`).
  A change published between two pages gives one row twice; nothing removes it.
- `drawerRoute.ts:37`: a product opened while another drawer's address is rendered, but its code is
  not there yet, replaces an entry that was loaded directly and marks it as coming from the article,
  so Close leaves the site. Two clicks before a commit push two entries, and two closes go back twice.
  `BackIsTheArticle` sets readers who are `early` aside.
- Landing on an address with a filter and following a section's link before the data are there leaves
  `landedOnKind` set, and the next opening scrolls the article behind the drawer, which `Shell.tsx:24`
  rules out. `DrawerKeepsThePlace` sets such landings aside.
- `useApi.ts:25-26` sets `loading` in a passive effect: when the drawer's address changes to another
  product, the earlier product's body, or its error, is on the page under the later address for a frame.
  `DrawerShowsItsProduct` says that what is shown is what was asked for last, which is the address's
  product once the effect has run.
- A size case whose product `/products` no longer lists has no dot (`Graphic.tsx:219-220`): the keyboard
  highlights it without a ring, the tip and the announcement stay with the product before, and Enter
  opens the one that was not announced. `MarksAgree` says that the marks part only then.
- An answer finished on a day without a budget row has its tokens on no day
  (`agent/routes.py:124-125`); `TokensAccounted` says that its question was open at midnight.
- A feed that fails late takes the question section away with its pending question, which has been
  counted.
- Three columns of dots beyond the scale on one side of a phone's stage: `separateTicks` anchors a
  label over its neighbour and pushes the last one off the stage (`chartLayout.ts:1`). `LabelsApart`
  sets this aside (`ThreeColumnsOnPhone`).
- `FEED_KIND_MEMBERS.shrink` leaves out `shrink_price_cut`, so the chips do not add up to All, while
  the headline counts it among the sizes that went down. `/changes` does not filter inactive products
  and the field does, so the story may count more than is drawn; a category's count is of changes and
  stands further right than "just past the changed dots" (`grid.ts:19`) when a product changed twice, or
  anywhere when the cached `/categories` is older than the feeds, over changed dots too;
  a tie in `dekFor` counts changes and says products.
- `StepChart.tsx:21`: a price-only change next to a step between states that are not neighbours may be
  labelled against the step.

## Proofs

`ClassifierProofs`: for all views, the kind of a draft has the direction of the size or price it is about
(`KindTellsDirection`); a change of size is published only under the stated rule
(`PublishedSizesAreSure`: the part of `docs/decisions.md:30` that holds); the draft is the same in
every unit (`UnitDoesNotMatter`: quantities times any k); no draft is its own reverse's
(`NeverItsOwnReverse`); silence means noise (`SilenceIsNoise`); a shrink tells the truth about the unit
price (`KindTellsUnitPrice`); and the three percentages agree up to their rounding
(`DraftPercentagesAgree`). The last ones rest on what `RoundHalfUp` does: it is within half a unit of
the fraction, grows with it, and is the same for a fraction in other terms. The last five carry them to
the observed pairs, for every set of prices, quantities and confidences: each invariant of the
`classifier` run is a theorem.

`SnapshotStoreProofs`, for every value of the constants:

- `TypeCorrect`: `Spec => []TypeOK`. `TypeOK` alone is not inductive: that a job which holds a
  transaction holds a reading, and that its latest snapshot exists, is the conjunct `JobsOK`. The
  classifier returns a draft of its kinds, statuses and integer percentages, or none (`ClassifyType`). The
  lemma `LatestSnapshotType` shows that the CHOOSE of `LatestSnapshot` has a witness, from the
  well-foundedness of strict inclusion on finite sets.
- `RefreshesReadTheLatest`: `LatestStable` for any number of overlapping refreshes and any reparse
  beside them. The invariant is `StableInv`: distinct jobs have distinct start times no later than
  the clock, so that every refresh moves `last_seen_at` and takes the lock; at most one transaction is
  open; and what it read is still the latest.
- With one job at a time (`~Overlap`, as the schedule runs them), whatever fails, is killed or
  reparsed: `ChangesAreConsecutive`, `SnapshotsFollowTheTimeline` and `NoMoveIsMissed`. They are one
  invariant, `ChainInv`: the transaction that is open knows the end of the chain of snapshots, a
  product is seen no earlier than its last snapshot, and a new snapshot goes to the end with its change.
- `NoObservationIsLost`: the counters add up, for refreshes that overlap or with baskets if nothing
  does (`Baskets = {} \/ ~Overlap`; a basket that meets a product again takes no lock). The sum over the
  snapshots is a recursive function; that one counter raised by one raises it by one (`AllCounted`) is
  shown at the smallest index at which it would not hold.
- `PublishedEvidenceAgrees`: while the reparse runs alone and to its end (`ReparseAlone`,
  `~ReparseFails`), a published change has the quantities of its parses. `EvidenceInv` adds that the
  parses an open transaction read are still those, and that what a reparse revised it still has to demote.

`AskBudgetProofs`, for any number of requests and days, any limit and any cost: the types, that a
day's counter is exact (`CounterIsExact`), that what a day lets through is bounded (`DaysAreBounded`), and
the refinement (`QuotaImplemented`). The types need `RowsInv`: who holds the visitor's row, and what a
request in each state has opened, read and decided. The bound needs the exactness of the counter,
through cardinalities of sets of requests; `BudgetInv` is all of it. `TokensAreAccounted`: the row's
tokens are the sum over the answers finished on it, and an answer finished on no row was asked before
midnight. The sum is a fold over a set in no given order, so
the lemmas first show that a sum exists, that any two are equal, and that adding a request adds its cost.

`RefreshRunProofs`, for any catalog, batch size and `INACTIVE_AFTER`: the types, that only a missed
product is deactivated, and that an "ok" run read every product. `RunInv` adds to the types what a
running refresh knows: it asked for every active product that is not fresh, and each of these it is
done with was seen, was dropped, or failed with the run's errors noted.
`NotBeforeItsTime`: a product is inactive only when it has not been seen for `INACTIVE_AFTER`, whatever
fails (`InactiveInTime`). `ListedStaysActive` is the safety half of `ListedStaysSeen`, without any
fairness: while the services work and the catalog lists it, a product seen less than `INACTIVE_AFTER`
ago stays active. Its invariant is `Kept`: what was not seen today the running refresh has still to ask
for, so that its age is back at 0 before the run deactivates anything.

`ReaderProofs`, for any number of questions, products, sections, changes, pages and events:

- `Types`: type correctness of the tab with its three parts (`ReaderInv`).
- `OneQuestionAtATime`: a question that can still answer is the last one submitted, of the section now
  on the page, and shown as pending (`AskInv`).
- `DrawerIsOfItsAddress`: the requests that can still answer are for the product the drawer asked for
  last, which is what it shows if it shows one, and there are none without a drawer (`DrawerInv`). The
  drawer asked for the product of its address, or its effect is still due and runs before anything else
  that React does; what stands on the page in that frame is the earlier product's.
- `ClosingGoesBack`: an entry marked as coming from the article has the article below it. An entry is
  marked from what is rendered, so the invariant (`HistoryInv`) also says that what is rendered is the
  entry one is at unless a navigation is due, and says of every entry what the entry below it is (`Told`).
- `PlaceIsKept`: an action property: a commit that mounts or unmounts the drawer does not scroll.
- `EveryChangeIsRead`: the walk is complete. `WalkInv` says, of a walk that was not disturbed, that
  what it wants of the rows before its offset it has (`Passed`), and that a count taken is still the
  length of the list. A change published in between moves every row one further on, so that the walk
  meets a row again but never passes one by.

`GraphicProofs`, for any story, dots, windows and lines: `TurnsKeepTheStep` (`ScrollInv`: until the
reader scrolls or the window turns, the step last found is the one at the line), `PictureIsTheStep`
(`ViewInv`: the renderer follows what was committed, but for cards found too high, which come again
as rows before anything else; `RendererInv`: a dot is at its target, or its tween is on the way
there), and `MarksAlwaysAgree`, whose invariant needs `ViewInv`: ring and tip are one, ring, highlight and
announcement are one where the highlighted product has a dot.

`ArticleProofs`, for any products, categories, feeds, addresses, stages and scale:

- `TheTableKeepsItsWord`: `CountsKeepTheirWord`. What is written to an address is read back
  (`AddressKeepsTheView`), a control leads to the view it asks for (`ControlsLeadThere`), and the rows of
  that view are as many as the chip or the option said (`ChipCounts`, `OptionCounts`), for the reason
  that sorting keeps the rows and filters can be taken in either order.
- `TheWordsMatchTheGraphic`: `StoryTellsTheDots`. Every product of a feed has one newest change
  (`OneNewestChange`, from a general lemma about finite strict orders), so cards, sides and dots are
  counted over the same products; the numbers of the headline, whichever form it takes,
  add up (`HeadlineAddsUp`); a named move that is on the axis is its extreme (`NamedMoves`); the dots of
  a side are as many as its number says but for products the field dropped (`KnownDots`). That numbers
  and dots are the same is said under `FeedsAgree` only.
- `TheDotsKeepApart`: `Roomy => DotsApart`, for any dots, labels and stage (below).
- `TheNamesKeepApart`: `NamesApart` and `CaptionsApart`, the two parts of `LabelsApart` that hold on
  every stage with room for the zones its dots need (`EndsFit`, below).
- `TheGridTellsTheField`: `GridTellsTheField`, for any number of blocks and products in them. Each block
  lists the products of its category once, the changed ones first (`BlockListed`), and the blocks can be
  put in the order of their sizes (`SizesSorted`); dots are coloured as the feed counts them
  (`ColouredCounted`). The quotients of the two layouts then bound rows and columns, so that a block
  ends before the next begins and the last one on the stage (`WidePlaces`, `NarrowPlaces`), and the
  count of changes stands past the changed dots where it agrees with them (`CountPlaced`); of a count
  from an answer of another time the theorem says nothing.

The invariants are `ArticleInv`, table, story and dots are made of one feed, `GridInv`, the grid is
the layout of the dots and the stage one sees, and `ChartInv`, the chart is so likewise.
`ArticleAssumption` sets aside feeds in which a row was read twice (see Findings): `story.ts` would count
both, `Story` takes a set. It takes a catalog to be finite and a stage to be 200 px wide or more, as
`measure` sees to (`Graphic.tsx:247`). `ChartAssumption`, which only `TheDotsKeepApart` and `TheNamesKeepApart` need, adds the
other facts `measure` sets down: 200 px of height, narrow below 560 px and compact when narrow or below
480 px of height (`Graphic.tsx:248-253`); and that a name is a sequence of words with the brand in front.

`DotsApart` does not hold on every stage, since the code does not promise it there. `Roomy` says where
it does, by three conditions, each of which the code needs:

- `freeY` (`swarm.ts:158-172`) tries `MaxTries` heights a pixel apart and then takes the middle, free or
  not. A dot rules out at most 31 of them, so no dot on the axis may have more than `MaxTries / 31` dots
  within 16 px, 64 for the code's 2000.
- With dots beyond both ends of the scale, two zones and the 40 px the axis keeps at least do not fit
  in less than 284 px (`swarm.ts:113-119`, `Math.max(x0 + 40, ...)`).
- Where the swarm is centred and not put below its labels, it must be no higher than the 36% of the stage
  it asked for: after eight radii `layoutSwarm` draws it whatever its height.

The three hold in every one of the 7901 states of the `article` run (adding `INVARIANT Roomy` to
`Article.cfg` shows it), with crowded and narrow stages among them, so the theorem covers all the run does.

`ChartProofs` has the lemmas, none of them about `Article`. A loop of the code is a recursive function
of the number of rounds, and `Iterates` gives such a function its steps. Sorting lists each dot once in
the order of values (`SortedByValue`, from `FirstExists`: a finite order has a first element). A free
height exists because each of the other dots rules out an interval of them, and the heights tried are
more than the union of these intervals (`FreeFound`, by cardinalities); `NextPlaced` then carries "all
places so far are apart" through the loop. The groups of `offColumns` part the dots by value, merging
neighbours keeps that, and each round leaves one group fewer, so three are left (`ThreeAtMost`); their
columns are 16 px apart or more (`ColumnsPlaced`). `AxisFound` keeps zones, axis and edges clear of each
other, `DrawnTogether` joins the three parts, and `FittedFound` and `SwarmMoved` carry it over
the radii and the move to the swarm's height. In a compact chart the labels decide that
height: `ChartFound` follows the labels through `placeChart`'s passes to see that the swarm begins at
one of the heights `layoutSwarmChart` allows (`Tops`).

The same lemma carries what the labels are. Whatever the extreme, its name has a row at least
(`LabelRows`) and its box, which `annotate.ts:118` takes to be no wider than the stage, is beside its dot
or slid inside (`BesideFits`). That is what the theorem says of the stage's sides: a single word wider
than the stage is drawn past its box, by the code and in the model. `placeAnnotations` lifts a name over the boxes it meets, once per round. A lift puts
it clear of one box that was in reach and brings none into reach that was not (`LiftedOnce`,
`ReachShrinks`), so after as many rounds as there are boxes it is clear of all (`LiftedClear`), and
the eight rounds of `annotate.ts` suffice: the other name and the off-scale count are two boxes.
`NamesPlaced` carries "the names so far are apart" through the list, `BothLabels` adds the count, and
`CaptionsPlaced` has the captions end before and begin after zero, which stands between the axis's ends
(`ZeroInTheMiddle`).

The theorems assume the named assumptions of the modules' constants and nothing else than what their
ASSUME says. Left to TLC: the liveness properties (`ListedStaysSeen`, whose safety half is proved,
`DroppedIsDeactivated`, `AskSettles`, `ArticleRecovers`, `PictureCatchesUp`), which are out of the
prover's reach; `DotsApart` where a chart is not `Roomy`, which no state of the run is; and
of `LabelsApart` what is not true of every stage: that the ticks keep apart, that the off-scale count is
no wider than the stage, and that no label is above or below it (a stage may be too narrow or too low
for its words). These stay with the stages of the run.

## Plan

In this order, the most important behaviour first:

1. Done: `Classifier`, `SnapshotStore`, `RefreshRun`, `AskBudget` with `Quota`; the frontend as
   `Reader`, `Graphic` and `Article` with their parts; proofs of every safety property the passing runs
   check, but for the parts of `LabelsApart` named above.
2. `ModelSpend`: the spend cap, its cached check and concurrent calls; `RateLimiter`: windows and
   eviction; composed with the ask route. Overshoot is bounded by the calls in flight.
3. `AgentLoop`: rounds, forced first call, last round without tools.
4. `KrogerClient`: token, call budget, retries.
5. `SizeParser`: rules over tokens, multipack scope, escalation between models, against a reference
   definition.
6. Theorems: the stages on which the ticks keep apart too, from the widths of a stage's labels.

Not modelled: the LLM client, the agent loop, the Kroger client, the rate limiter and the size rules,
until the plan reaches them. Seen there: one `LlmClient` is shared by request threads, and
`_budget_ok` may be overwritten by another thread's older check between its assignment and its test
(`llm/client.py:158`).

Not planned: search, dates and formats of the page (wording); the focus trap and the drawer's own
chart; the freshness and method lines; drawing with WebGL or a canvas; migrations (generated), tracing
and configuration (no state), the tools' and the API's SQL other than `/changes` (read only).
