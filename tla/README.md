# Sakura Comic: a verification development of the Rust core

The repository is a reader for a Komga server.  Its logic lives in one Rust crate
(`src/android/komga_core`), driven by a Flutter app (`src/android/app`) through a
facade (`ffi/application.rs`).  The crate mirrors the server's library into SQLite,
follows its event stream, keeps the user's reading progress and sends it back through
an outbox, downloads books for offline reading, and feeds a reader with pages.  A Swift
implementation of the same contracts (`src/apple`) exists beside it; everything here is
translated from the Rust crate and from the Dart controllers that call it on timers.

Contents: [the system](#the-system) · [the plan](#the-plan) · [modules and
code](#modules-and-code) · [runs](#runs) · [fairness](#fairness) ·
[proofs](#proofs) · [where code and documents disagree](#where-code-and-documents-disagree) ·
[what is not modelled](#what-is-not-modelled) · [running it](#running-it)

## The system

Every call of the facade opens its own connection to one SQLite file, and no
transaction is held across an `await`.  Two process-wide locks exist: a `sync_lock` per
server around a bootstrap or a reconciliation, and a lock per server around a drain of the outbox.
Everything else that runs at the same time (event polls, download passes and sweeps,
the user's gestures, the reader) meets in the tables and in the file tree.

| component | state | operations | talks to | what is hard |
| --- | --- | --- | --- | --- |
| **Read progress and outbox** `store/outbox.rs`, `store/read_progress.rs`, `sync/upload.rs`, `api/mutation.rs` | `read_progress`, `pending_mutations`, the drain in progress | turn a page, mark read, mark unread, retry failed, drain, mirror write | the server (`GET book`, `PATCH`/`DELETE read-progress`); syncs and event refetches write the same rows | two awaits in the drain while the user goes on speaking; other devices; replay after a kill; requests that land after they timed out |
| **Event stream** `sync/sse.rs`, `ffi/application.rs` (`sse_*`), `live_sync.dart` | `SseSession` (phase, dirty set, next attempt, debt of a sweep), the table of parked sockets, the controller's state | poll, apply hints, reconcile handshake, resume, stop | mirror (targeted refetches, full sweeps) | the session travels over the FFI and comes back at the end of a tick; lifecycle changes in the middle; errors between steps |
| **Mirror syncs** `sync/full.rs`, `sync/reconcile.rs`, `store/sync_state.rs`, `store/prune.rs` | entity tables, `sync_state` (status and cursor per step), `deleted_entities` | bootstrap, reconcile, prune, event refetch, delete server | the server, by page and offset | paging over a list that changes; ends of the process between page, cursor and prune; resumption at a cursor of any age |
| **Offline downloads** `downloads/*.rs`, `ffi/application.rs` (`download_*`), `download_controller.dart` | `downloads`, `download_pages`, the tree of files | enqueue, pause, resume, retry, delete, pass, sweep, the reader's healing | the server (pages), the file system | a pass that holds no connection while it waits, racing the user and the sweep; rename and commit are two steps |
| **Reader session** `reader/session.rs`, `reader/throttle.rs`, `reader/paging.rs`, `store/position.rs`, `reader/series_override.rs`, `reader_controller.dart` | the live readers (page, layout, throttle), `reader_position`, the series' layout override | open, turn, step, relayout, mark, tick, background, close | outbox (local writes, upload requests) | the position and the statement are two transactions; the throttle's memory of what is owed beside the durable row; a close that comes after the book was opened again |
| **Page cache and loader** `reader/cache.rs`, `reader/loader.rs`, `reader/memory.rs`, `reader/integrity.rs`, `store/cache.rs` | two disk tiers, a ledger, a memory tier | lookup, store, promote, evict, prefetch pass, sweep, clear | downloads (read first), the server | file, ledger row and each row a trim drops are steps of their own; a pass writes over a snapshot; one budget over two tiers |
| **Windows and prefetch** `reader/window.rs`, `reader/prefetch.rs`, `reader_device.dart`, `reader_controller.dart` | the live session's plan; the controller's guess of the link, its tallies and reports | describe the device, turn, warm, relayout, resume, memory pressure | reader session, page cache | reports overtake one another; a link that is gone; a spread that becomes another one |
| **Frame parser** `api/sse.rs` | the open line and frame, events not yet taken | push bytes, take events | event stream | text cut anywhere; CR, LF and both |
| **Queries and the screens that show them** `store/query.rs`, `series_grid.dart`, `series_detail.dart` | the wall, the series page, the loads under way | search, filter, order, scroll, reload, read target | tables that syncs and readers write | several statements without a transaction; answers in any order; offsets into a list that changes |
| **Libraries, collections, read lists** `sync/*.rs`, `store/{libraries,collections,readlists,prune}.rs` | rows, member tables, tombstones, a cursor | the steps of both syncs, deletion of a member | mirror syncs | members that change without a stamp; cursors of any age |
| **Covers** `cache/*.rs`, `store/thumbnails.rs`, `ffi/application.rs` | files and rows | backfills, sweeps that prune, `delete_server` | mirror syncs, the server | file and row are two steps; paths collected by one step and removed by another |
| **Servers and credentials** `store/{servers,app_state,auth_state}.rs`, `api/series.rs`, `server_manager.dart`, `library_repository.dart`, `auth_store.dart` | profiles and the active pick, the keystore, the clean-up list, verdicts, pooled clients, the memo of the active server | add, update, switch, delete, retry clean-ups, request | every request | three stores without a common transaction; clears whose failure is swallowed; answers that belong to an older key |
| **Manifests, settings, client, index, schema, diagnostics, layout of the app, smoke programs, Swift mirror** | — | — | — | see [what is not modelled](#what-is-not-modelled) |

What makes each of the modelled ones correct:

- *Outbox.*  What the user said last about a book is what the server comes to hold,
  unless something later or a reason the server gave stands against it; a statement is
  never lost silently; the local row shows it until then; no row blocks the others.
- *Event stream.*  Events are hints and may be lost, but never a change: as long as a
  stream is promised something is left that will look at every book the mirror is behind
  on.  After a gap a sweep comes before the next hint.
- *Mirror.*  A sweep that saw everything leaves the mirror exact.  A failed, killed or
  resumed one costs time and never live data.  Rows do not go back.
- *Downloads.*  Books and pages move as the shared table
  (`specs/contracts/fixtures/downloads/states.json`) says; the user's pause holds;
  nothing that was fetched is lost; no page is stranded; sweeps make rows and files agree.
- *Reader.*  The place the user turned to survives screens that close late, layouts, marks and kills, as long as
  the user wants places restored; each turn is a queued statement before it is visible; and what a throttle
  forgot when it asked for an upload is delivered by the drain it asked for.
- *Page cache.*  Once the trims under way have ended the pool is within its budget, whoever trimmed by what it
  measured when; a guess goes before a page that was displayed; no cut page
  is shown; after any crash a sweep makes ledger and disk agree, and no file stays hidden from the budget.
- *Windows.*  A link that is gone costs one request, not one per page.
- *Frames.*  Events are exactly the whole frames of the text, wherever it is cut.
- *Wall and series page.*  What is shown belongs to what was asked for last, has no gap and no row
  twice, and no spinner stays; the book to go on with is the one the rule names.
- *Lists.*  An undisturbed reconciliation leaves lists, members and tombstones as on the server.
- *Covers.*  A cover is never shown for something else, and a row's file is there.
- *Servers.*  A saved server has its key, and its verdict is about that key; the pick is the user's last one, and the
  shelf is the picked server's.  The code clears verdicts and picks as best it can, and the properties name what that leaves.

## The plan

Order, with the most important behaviour first.  All of it is done.

1. `Outbox` with its abstract specification `LastWord`: the user's data, two awaits, an external writer.
2. `EventStream`: session, socket table, controller and sweeps as one system.
3. `MirrorSync`: both syncs, cursors, prunes and event writes.
4. `Downloads` with its abstract specification `DownloadTable`.
5. `Reading`: turns, marks, throttle, background and close.  It extends `Outbox` itself, not an
   abstraction of it, so its statements meet the real drain; `Paging` has the spreads.
6. `PageCache`: file, ledger, memory and budget.
7. `ReaderWindow`, `Frames`: how far ahead to download, and the transport of the event stream.
8. `Shelf`, `SeriesPage`: what screens do with reads that take several statements.
9. `Lists`, `Covers`, `Servers`: the rest of the mirror, and the servers it is a mirror of.
10. Proofs.  Done: `Outbox` (with its refinement of `LastWord`), `EventStream`, `MirrorSync`, `Downloads` (with its
   refinement of `DownloadTable`), `Servers`, `Reading` (which implements `Outbox`), `Covers`, `Lists`, `Shelf`,
   `SeriesPage`, `ReaderWindow`, `PageCache`, `Frames`, and what the shared functions compute (`SequenceProofs`); see [proofs](#proofs).
   Left to TLC: liveness.
   No module of this development has a `RECURSIVE` operator, so all of them can be proved about.

The modules are parameterised by the sets of books, series and statements and by every
limit the code has (attempts, pages per pass, events per poll); the limits' values in the code are
named beside the constants.  Bounds that exist only for model checking are constants whose
comment says *bound* and whose guard is in the action they bound.  Every module has a type
invariant, which is a theorem and stands first in the module's proofs; where no run below lists it, it was model-checked with the constants of
the module's configuration before it was proved.

## Modules and code

`PROJECT.json` maps each definition to the lines it is translated from.  Operators
marked FAULT are plausible slips of the definition after them; nothing uses them, and
each shows that a property notices when it takes the definition's place.

### `Backoff`, `Outbox`, `LastWord`, `OutboxProofs`, `MCOutbox`

| in the module | in the code |
| --- | --- |
| `local` | `read_progress`, one row per book |
| `queue`, `nextId` | `pending_mutations` and its rowid |
| `up` | a call of `upload_outbox` that holds the lock: the snapshot of due rows, the row in hand, what the re-fetch and the write answered |
| `called` | a drain that has read the clock and waits for the lock |
| `sweep` | a book a sync or an event refetch has read and not yet written |
| `remote`, `late` | external: the server's row and requests the app gave up on |
| `said`, `excuse` | history: the last statement, and the reasons the server has shown since then why it may leave the queue |
| `Say` | `upsert_local_read_progress`, `mark_read`, `mark_unread` with `enqueue_mutation`: one transaction |
| `BeginEntry`, `AnswerRefetch`, `ActOnAnswer`, `Serve`, `FinishEntry` | the loop of `upload_outbox`, cut at the awaits of `book` and of the write |
| `SweepFetch`, `SweepWrite` | `save_books_batch` → `upsert_synced_read_progress` with `sync_write_for` |

Statements carry a page in `0 .. LastPage`; time is a small clock that also numbers the
server's stamps; a stamp of the server and one of this device are comparable, as in the
code.  `LastWord` has two variables per book, the debt and the excuses, and five actions;
`Outbox` refines it with the debt read off the queue.

### `EventStream`, `EventStreamProofs`, `MCEventStream`

The module has no content: `behind` is the set of books whose mirror row is not what
the server has.  `wire` and `line` are the stream and the events nobody has read;
`socket` and `idle` are the process-wide table of `ffi/application.rs`; `saved` and `tick` are
the controller's `_state` and the tick under way, with the session in the middle of it;
`asked` is a `resume` waiting for its answer; `other` and `syncing` are sweeps of other
triggers and the `_syncing` flag of `series_grid.dart`.  One action per await of a tick:
`TickBegins` (claim and read, or `Reach` for a stream), `Opens`, `OpenFails` and `OpenRefused` (what the handshake
came to, if it ends), `ApplyBook`/`ApplyDeletion` (one hint each), `PollAnswers`
(park, close or back off), `SweepVisits`/`SweepEnds`, `TickReleases`.

Assumed: events arrive in the order of the changes; a sweep is a visit of every book in
any order.  `attempts` is kept as "there were failures" and `next_attempt_at` as "it
lies ahead"; the buffer of held-back events is left out because a session in the phase that fills it is never read.  How
text becomes events is `Frames`.

### `MirrorSync`, `MirrorSyncProofs`, `MCMirrorSync`

Of the six steps of a sync this module has two, series and books (`Lists` has three more);
books are listed series by series under a cursor both syncs share.  A row is the stamp of the
last change.  `task` holds both syncs, each at one of the points `enter`, `fetch`,
`save`, `checkpoint`, `prune`, `complete`; a page's answer, the write of it and the
cursor are three steps, and the server, event writes, failures and the end of the process may come
between any two.  `promised`, `lost`, `calm`, `shifted` and `steady` are history.

Assumed: the order of a listing is the order of ids; a page's save is one transaction; a prune together
with its tombstones is one step; a series the server does not have answers with an empty last page or
fails; a server that was deleted in the app is not added again.  `full.rs:5-8` says the checkpoint is
written "in that same transaction" as the page; the code writes it afterwards, and the module does as the code does.
`BootstrapMirrorsAll` shows that this is harmless.

### `Downloads`, `DownloadTable`, `DownloadsProofs`, `MCDownloads`

`line`, `state` and `parked` are the `downloads` table in order of position, `page` is
`download_pages`, `disk` the tree; a file is known by the edition of the book it was fetched from.
`pass` is a pass with the set of pages it has yet to fetch (`Job` is the next of them: from the reader's
page to the end, then what lies behind), at one of its points: planned, claimed, fetching, landing,
written, counting an attempt, exhausted, settling, resting.  `sweep` walks a list of books with
three points each (rows, files, settle) and is started by the first pass of a process or by
`download_list`.  `hand` is a gesture between its two steps: the read that decides and the transaction that writes (for delete, rows
and then files).  `ReaderHeals` is `usable_page`.  A fault is something that goes wrong a bounded number of times; a
refusal that is "lasting" (`Refused`) is out of that bound: a server that stays out of reach or a volume that stays full.

Assumed: one sweep at a time; one gesture at a time; the two statements of `delete_rows` are
one step, as are the rows of one book that a sweep takes back.  Left out: counters and byte budgets
(derived), the policies for link and free space and `allow_cellular` (they decide
whether a pass runs), manifests, sizes, media types and file extensions.

### `Paging`, `Reading`, `SequenceProofs`, `ReadingProofs`, `MCReading`

`Reading` extends `Outbox` and `Paging`: a turn's statement is `Outbox`'s `Say`, the controller's
upload is `Call`, and the drain, the sweeps and another device go on between any two steps of a session.
`live` is the registry of sessions with their throttles, `shelf` the position table, `override` the series' read
mode, `screen`, `closing` and `choosing` the screen and its controller; `writing` is a
session between its two transactions, during which the registry's mutex is held.  `place` is history.
`Opened` is `ReaderSession::open` with its three sources of a page, the saved row, the first page without one or with restoring off
(`Restores` says which values that setting may have), and the clamp to the manifest, for which a book may start
with a row left from a longer one (`Leftover`).  `SpreadsIn` pairs as the session does, by the mode and the first-page setting, with no page unpairable.
`Beat` is the tick of a throttle, `Flush` the drain a controller starts, `Background`, `Dispose` and `Close` the ends of a screen.
`Paging` is pure: `Pair` is the loop of `paging.rs` as a recursive function.  `SequenceProofs` says what it and `Sift` compute, for every module that uses them.

Assumed: all books are volumes of one series; the first-page setting and a book's page count do not change, but for that one
row.  Left out: the ratio within a page.

### `Sift`, `PageCache`, `MCPageCache`, `ScreensProofs`

A file is a directory, a page and a container; `disk` says what it holds, `rows` is the ledger.  A display call goes through
lookup, relocation, fetch, staging, landing (rename) and record; then `Measure` reads the total and the order of
`enforce_budget_except`, `Evict` drops one row after another, each a statement that commits by itself and deletes by key whatever row the
page has by then, and `Unlink` removes the files.  A prefetch pass does the same over a snapshot of the ledger inside one deferred transaction; a sweep takes
staging files, rows, files and the trim in turn; `clear_tier` deletes rows and then files.  `Fail`, `PassFail`, `SweepFail` and `Crash` come
between any two of these; `owed` is history: a trim ended before its time and none has measured since.  A page costs one unit of either
budget or is larger than both (`Large`).  Which of several rows of a tier is the oldest is left open.  `Without` is what `Sift` leaves of the memory tier.

Assumed: a budget does not change while the reader runs, and a trim's total, the pruning of rows without a file and the
order it then follows are read in one step; a row recorded between them belongs to a call that measures itself.

### `Sift`, `ReaderWindow`, `ScreensProofs`

`WindowPlan` is `window.rs`'s plan for a machine, a layout and a link, `PrefetchQueue` the order of a pass.
`reports` are calls of `reader_configure_device` under way: they land in any order or fail.  `words` is the link the
controller infers from `failures` and `slows`, `radio` what it really is.  Assumed: a turn, a relayout
and the fetch of a displayed page are one step each; a page on disk stays there.  The filters of `plan` and `windowed` are `Sift`.
`PlansFit` and `PassesStaySmall` are stated for the theorems and listed by no run.

### `Sift`, `Frames`, `ScreensProofs`

A field line is one symbol, a terminator is CR, LF or both; the text may stop anywhere.  `Push` is the parser's step,
`Meaning` the reference definition that the property compares it with: over the whole text, by places (`At`, `Blanks`, `Frame`, `Values`)
and without any state.  A text with two event fields in a frame is outside the property (`OneKindEach`), and inside `EventsAreStandard`, which fails.

### `Sift`, `Shelf`, `SeriesPage`, `ScreensProofs`

A query is a value that stands for server, text, filters and order; `Matches` gives its rows in order.  A `WHERE` under an `ORDER BY` is `Sift`: what is left of
a sequence, in its order, as a recursive function, for nothing can be proved about `SelectSeq`.  A load reads the
count, the rows and the covers in statements of their own and is dropped when its generation is not the wall's any more.
`SeriesPage` has the three reads of one series' page and the read target, each statement a step; sessions and syncs
commit in between.  `CurrentWall` and `NewestInProgress` are the guard and the rule the two properties are about.

### `Sift`, `Lists`, `Covers`, `Servers`, `UpkeepProofs`

`Lists` is one of three tables, chosen at the start (libraries have no members and no stamp), under one step of either sync:
`errand` is that step, with the rows and members it found at its beginning.  The server changes lists with and
without a new stamp, and a book or series deleted here takes its memberships along.  `MirrorSync` has the other steps;
a lock keeps them and these apart.

`Covers` follows files and rows through backfills that run side by side, a sweep that collects the paths of
what it prunes and removes the files at its end, and `delete_server`.  A file's content is the cover it was fetched for, or torn.

`Servers` follows gestures step by step through the keystore, the profile rows, the clean-up list and the
memo, with requests in flight that hold the key they read.  A key is known by the reference it is stored under.
`excuse` is history: what went wrong with a server's key, verdict or pick, which the properties
name one by one instead of holding in calm weather only.  `chosen` is the user's last pick as the user made it, beside `activePick`, the row in
`app_state`.  `NoteCleared` and `Unpicked` are the statements whose error `save_server` and `delete_server` swallow
(`let _ =`): they may fail, and the gesture goes on.

### `MCScreens`, `MCUpkeep`

Parts that share no state are checked side by side: a behaviour chooses one part at the
start and the others rest.  This is a union of models, not an interaction.  What does interact is
composed in one module (`Reading` with `Outbox`; syncs, event writes and deletions in `MirrorSync`;
passes, sweeps and gestures in `Downloads`).

## Runs

Every run below ends within minutes on two workers.  The passing ones between them take
every action of their modules.  `CHECK_DEADLOCK FALSE` is set where a behaviour may really end: the
user is silent, the bounds are used up, and nothing is owed.

### Outbox

| run | instance | checks | what it shows |
| --- | --- | --- | --- |
| `outbox_rough` | two books, one of them of a reflowable format; a kill, a wrongly inferred deletion, a request that is served after it timed out | `OneStatementPerBook`, `Inv`, `PendingFlagIsTruthful`, `DropsAreExcused` | the inductive invariant; one row per book and it is the last statement; the flag tells whether it is there; a statement leaves only for an excuse given after it was made |
| `outbox_live` | one book, timeouts, another device, a kill, fair drains and sweeps | `ShowsLastWord`, `OldWordStaysOld`, `KeepsItsPromise`, `EveryRowSettles`, `MirrorConverges` | no stale sweep takes the user's word back; no old word lands over a settled newer one; tables and drain implement `LastWord`; each waiting row is delivered, dropped or given up; then the local row comes to show the server's |
| `outbox_pruned` | one statement, one prune | `DrainNeverAborts` *(violated)* | a pruned and re-mirrored book leaves a row without a stamp; reading it aborts every drain |

Two statements are the least that make one supersede the other while either is in the
drain's hands; a third only repeats it.  Two attempts give a retry and a last attempt.
The backoff ladder is cut to 1 and 2 seconds; `BackoffBounds` is proved for all values.

### Event stream, lists, covers

| run | instance | checks | what it shows |
| --- | --- | --- | --- |
| `events_core` (`MCUpkeep`) | *stream:* two books, three changes, two breaks, refused handshakes; *lists:* two of them with two members, one to a page, two edits, a lost member, a stop; *covers:* a series and a book of one server and a series of another, one backfill, one mishap | `NothingForgotten`, `MirrorCatchesUp`, `ListsAgree`, `CoverIsShown` | whatever the mirror is behind on is named by an event, a hint or a sweep still to come, and under a ticking timer each such change reaches the mirror; an undisturbed reconciliation leaves lists, members and tombstones exact; what is in the mirror is shown its own cover |
| `events_rough` | two books; everything at once: failing refetches and sweeps, other sweeps, silence, background, foreground and dispose at any point of a tick, a database that does not open | `ClaimIsHeld`, `SweepBeforeHints` | the table of sockets keeps later polls out only after such a database; a reopened stream is not read before a sweep, or the report of one |

A poll reads at most 2 events here (64 in the code) and a stream survives 2 silent polls
(20), so that both limits are reached; three changes overfill one poll by one.  Two lists with one to a page put a
page boundary inside the list; two members are the least with an order.  Two backfills over two covers
with two mishaps were checked too.

### Mirror

| run | instance | checks | what it shows |
| --- | --- | --- | --- |
| `mirror_core` | two series with two and one books, one entity per page, two changes or removals, two failures or kills, deletion of the server, both syncs | `OnlyShiftsMislead`, `WholeSweepIsFull`, `RowNeverGoesBack`, `BootstrapMirrorsAll` | only an offset that moved can make a sweep delete a live book; an undisturbed sweep from the beginning leaves the mirror exact and no tombstone on a live row; rows do not go back; an interrupted bootstrap still mirrors all |
| `mirror_events` | the same library, one event refetch beside the syncs, two changes or removals, a kill | `MirrorConverges` | once the server rests the mirror converges |

A page of one entity makes two pages of a list with two entries, the least with a boundary inside a list;
two series make the cursor of the books step cross from one list to the next.

### Downloads

| run | instance | checks | what it shows |
| --- | --- | --- | --- |
| `downloads_core` | one book of two pages, two editions, four gestures, two faults out of failing writes, commits, damage and kills, any number of bad answers; one call at a time except that gestures come at any point of a pass | `NothingStranded`, `PauseHolds`, `DownloadsAreKept`, `SweepReconciles`, `KeepsToTheTable` | rows and states move as `DownloadTable` says; a pause holds; what was fetched is kept; no wanted page is out of a pass's reach; a sweep leaves rows and files in agreement |
| `downloads_live` | two books of one page, two gestures, one fault, and lasting refusals of the server, the network and the volume; gestures, sweeps and passes interleaved at will | `EveryBookComesToRest` | every queued book is completed, fails, or is paused or deleted by the user, unless passes are refused for ever |

Two pages are the least with a page that has landed and one that has not; two attempts
(3 in the code) give a page a second and last one; two editions let a new job meet old
files.  `downloads_live` leaves out damage to files, with which it does not end within minutes; it was checked with one gesture.
A lasting refusal is its only exception because the code makes it one: a refused write costs no attempt
([below](#where-code-and-documents-disagree)).  `downloads_core` leaves out a kill between the two statements of
`record_page_attempt` ("tear"), interleavings between the two steps of a gesture ("race"), gestures beside a
sweep ("meddle") and a sweep beside a pass ("list"): with them properties of the
run fail, and the configurations of the section on disagreements show how.

### Reader

| run | instance | checks | what it shows |
| --- | --- | --- | --- |
| `reading` | one book of three pages, opened with restoring on or off, single and double layout, two statements, a kill, a drain that only the reader calls for | `PlaceIsKept`, `TurnsAreStated`, `TurnsAreDelivered` | the place survives late closes, marks, layouts and kills, until the book is opened with restoring off; a turn is the queued statement before it is visible; what the throttle of an open reader owes leaves the queue although it forgets it when it asks |
| `page_cache_live` | one page, both tiers, whole, cut and failing answers, sweep and clear, one crash or error | `SweptCacheAgrees`, `AnswersAreWhole`, `HiddenBytesAreSwept` | an undisturbed sweep leaves ledger and disk in agreement and the pool within its budget; no display answers with a cut page of a container whose end is checked; hidden bytes are described or removed in the end |
| `screens` | *cache:* three pages, one of them larger than the pool, for a budget of two, one failing step; *window:* two pages, single and double, a link that comes and goes, two reports, two turns; *frames:* seven symbols of four field lines and the terminators; *wall:* three series, two queries, one row to a page, two loads from the beginning, one change by a sync; *series page:* two volumes and an extra, two filters, one book to a page, two loads, one write; *servers:* two, one of them saved, two gestures, a request, one kind of trouble | `TiersFit`, `SeenOutranksGuessed`, `OutageCostsOneRequest`, `EventsAreWholeFrames`, `WallIsHonest`, `TargetFollowsTheRule`, `CredentialsAgree`, `ShelfFollowsTheUser` | see [the system](#the-system); each part on its own |

Three pages are the least with a spread of two and one beside it, and the least that overfill a
budget of two while the page just written is kept; the one larger than the pool overfills it alone.  One failing step or crash can fall into each gap
between two statements; a second one only repeats it.
`TurnsAreDelivered` has no help but the reader's: the library's uploader, which starts a drain every 20 s, is not required to, and
no request fails, for a failed one is left to that uploader (`EveryRowSettles` of `outbox_live`).  The statement of a layout
choice, of a corrected page and of a late close is owed by no throttle and waits for the uploader as well.  Two reports are the least that overtake
each other; seven symbols hold two frames with a field, an end and a cut between them.  One row to a page puts a boundary
between any two rows.  Two gestures are the least that overlap; two requests at once were
checked without trouble.  Extras sort after the volumes and end the series page's order.

## Fairness

- *Outbox* (`FairSpec`).  Weak fairness of starting a drain (`live_sync.dart` starts one every 20 s,
  after a statement and on the return to the foreground), of the drain's own steps (each request is answered or times out), of
  the clock, and of sweeps.  Nothing of the user, of other devices, of kills or of late requests.
- *EventStream.*  `live_sync.dart` ticks every 5 s, `KomgaClient` gives a refetch and a sweep's requests 30 s, and a read
  of the stream waits 750 ms: weak fairness of a tick, of its refetches, sweep, reading and release, and of the clock reaching the
  next attempt.  Nothing is asked of the handshake: `SseClient` sets no timeout and `LiveSource::open` (`ffi/application.rs:1477-1480`) adds none, so `Opens`,
  `OpenFails` and `OpenRefused` may all be missing for ever, and `MirrorCatchesUp` names that as its one exception.
  Breaks are bounded in number and never required.
- *MirrorSync.*  Strong fairness of starting a reconciliation: triggers (start, return to the foreground, the
  stream's debt, a manual pull) keep coming, the lock is not held for ever and tokio's mutex
  is fair, but a start is not continuously enabled while the other sync runs.  Weak fairness of each
  sync's steps and of event writes.
- *Downloads.*  `DownloadController` ticks every second: it lists (and so sweeps), then
  pumps.  Weak fairness of pumping, of a pass's, a sweep's and a gesture's own steps, and of the
  expiry of a park.  Bad answers are not bounded, for the code bounds them itself, and neither are refusals of the server, the
  network or the volume; other faults are finite in number.
- *Reading.*  Weak fairness of a begun drain's steps and of the clock as for the outbox, of the second transaction of a session,
  of the throttle's tick (the controller's timer) and of the drain a controller is about to begin.  Nothing of the user's, and no
  drain that the reader did not call for.
- *PageCache.*  Strong fairness of a display call and of a sweep, because both may have to wait for a writer again and again and
  SQLite's busy timeout lets them in; a sweep is started by each report of the device.  Weak
  fairness of a pass and of the second half of a clear.
- *`MCUpkeep`.*  `EventStream`'s fairness, asked of the behaviours of the stream; lists and covers are checked for safety.
  `MCScreens` has no fairness.

## Proofs

Each theorem holds for every set of books, statements, series or servers, every limit of the code and every
bound of the model, from the module's own named assumption (`OutboxAssumption` and the like, which TLC
evaluates on every run).  A hypothesis, where there is one, says which of the world's troubles are left out; it is a
hypothesis of the theorem and not of the module, and with that trouble the property fails.
Every invariant below was first checked by TLC with the constants of the runs.

### Outbox (`OutboxProofs`)

| theorem | states | hypothesis |
| --- | --- | --- |
| `TypeCorrect` | `Spec => []TypeOK` | |
| `OneStatement` | `Spec => []OneStatementPerBook` | |
| `Invariant` | `Spec => []Inv` | |
| `NoStatementIsLost` | `Spec => DropsAreExcused` | |
| `FlagIsTruthful` | `Spec => []PendingFlagIsTruthful` | |
| `StampedRowsHold` | `Spec => []StampedRowsShow` | |
| `LastWordIsShown` | `Spec => []ShowsLastWord` | no wrong prune (`MaxPrunes = 0`) |
| `DrainCompletes` | `Spec => []DrainNeverAborts` | no wrong prune |
| `OldWordsOnlyComeLate` | `Spec => OldWordsComeLate` | |
| `OldWordsStayOld` | `Spec => OldWordStaysOld` | no abandoned request is served (`MaxLate = 0`) |
| `Refinement` | `Spec => KeepsItsPromise`, that is `LW!Spec` | |

*The argument.*  A row may be deleted in two places, after the re-fetch and after the
write.  Both act on something heard before an await, and both delete by id.  So what has to be known is that **what the
drain has heard about a row that is still queued was true of the server after the
statement was made** (`HeardSinceSaid`).  A newer statement replaces the row (`OneStatementPerBook`), so
an entry in hand that is still queued is the user's last statement, and the excuses
collected since then are excuses for it.  This needs ids that are never reused and a
snapshot whose entries are copies of rows (`IdsAreFresh`, `IdsNameRows`), a local stamp
that is the statement's own time (`StampsAgree`: the drain compares *that* with the server's
stamp), a judge that has seen the server's present state (`JudgeIsCurrent`), and the server's habit of
putting a completed book at its last page (`CompletedIsLastPage`: `remote_matches` compares pages, a statement
names none when it completes).  `Inv` is the conjunction.  `StepShape`, `ServerShape` and `DrainShape` sum up the actions by what they do to identities, to
the server and to the drain, so that most conjuncts are proved once per shape.

`PendingFlagIsTruthful` is inductive with `Inv`: a row's deletion lowers the flag only when no
other row of its book remains.  `Refinement` maps each step to a step of `LastWord` or a
stutter: a statement is `Speak`, a step of the server `Observe`, an excused deletion `Settle`, the
last attempt or a refusal `GiveUp`, `RetryFailed` `TakeUp`.

*What the screen shows* (`ShownInv`).  While something is queued, `sync_write_for` compares times, so a copy that a sweep
fetched before the statement loses by its stamp, provided no copy comes from the future (`ClockIsAhead`) and a copy that would win
is one the drain's judge has seen (`CopiesAreJudged`); hence `StampedRowsShow` without a hypothesis.  A wrongly
inferred deletion removes row and stamp, and the next sweep writes a row that has none: there the comparison is lost, the
screen shows the server's place, and the drain stops at the entry.  `LastWordIsShown` and `DrainCompletes` say
that this is the only way; `outbox_pruned` shows the way.

*Old statements* (`SnapshotIsAhead`).  An older statement can reach the server after a newer one only out of a drain's snapshot or
out of a request that timed out.  One drain works at a time, off one snapshot with one row a book, and drops a row it finds gone
from the queue; so a snapshot row that is not the user's last statement is there only while that statement is queued, for nothing but a later pass could
settle it.  Hence an older word lands while the newer one is still queued, and is put right by it, or it comes late
(`OldWordsComeLate`).  Without late service it never undoes a settled one.

### Event stream (`EventStreamProofs`)

| theorem | states | hypothesis |
| --- | --- | --- |
| `TypeCorrect` | `Spec => []TypeOK` | |
| `ClaimHolds` | `Spec => []ClaimIsHeld` | |
| `GapInvariant` | `Spec => []GapInv` | |
| `SweepComesFirst` | `Spec => SweepBeforeHints` | |
| `HintsAreEnough` | `Spec => []NothingForgotten` | `Rough \subseteq {"cut", "refuse", "quiet", "store"}` |

*The argument.*  The session is a value that exists up to three times: saved by the controller, in the hands of a
tick, and in the hands of a resume.  `GapInv` looks at every copy that a later poll could start from: after a gap each of them
is disconnected or still owes the sweep.  `NothingForgotten` needs that there is one sweep (`OneSweep`), what each phase says of
the socket and the stream (`Phases`), that a sweep under way has visited or will visit what was behind when it began
(`SweepCovers`), and when nothing is promised (`NoPromise`).  Its hypothesis leaves out failing refetches and
sweeps, sweeps of other triggers and the app's lifecycle: with any of these a change can be forgotten, as
`MCEventStreamRefused`, `MCEventStreamUnswept` and `MCEventStreamStopped` show.

### Mirror (`MirrorSyncProofs`)

| theorem | states | hypothesis |
| --- | --- | --- |
| `TypeCorrect` | `Spec => []TypeOK` | |
| `RowsNeverGoBack` | `Spec => RowNeverGoesBack` | no event refetch |
| `SweepsCover` | `Spec => []CoverInv` | no event refetch |
| `OnlyShiftsMisleadSweeps` | `Spec => []OnlyShiftsMislead` | no event refetch |
| `BootstrapIsComplete` | `Spec => BootstrapMirrorsAll` | no event refetch |
| `WholeSweepsAreFull` | `Spec => WholeSweepIsFull` | no event refetch |

*The argument.*  `CoverInv` relates the stored cursor, the task's own page and the server's listing: a promised book is
mirrored, or lies on a page that cursor and task have yet to come to; a book a sweep could wrongly delete is one it has seen or has
yet to come to.  A page is `rank \div PageSize`, where the rank is the number of entries before a book, so an addition
moves books to later pages only (`PagesGrow`) and a removal sets `shifted`.  The hypothesis (`"event" \notin Rough`) is needed: a refetch that a
sweep overtakes writes an older row, and a book an event writes behind a cursor is pruned by the sweep that resumes there.

*The whole sweep* (`SweptInv`).  A reconciliation that nothing disturbed has told the truth so far: what it has seen is on the server, with the
server's stamp in the mirror; what it has not seen is ahead of it (`SeriesSwept`, `BooksSwept`); what it has not touched has the stamp it had when the step
began, which is what makes it right to write only pages' changed rows.  At the prune nothing is ahead, so what goes is what the
server does not have.  It has to be known as well that a mirrored book has its series (`ShelvedInv`), for the books step lists
and prunes only the series it set out with; an event writes a book without its series, which is `MCMirrorSyncOrphan`.

### Downloads (`DownloadsProofs`)

| theorem | states | hypothesis |
| --- | --- | --- |
| `TypeCorrect` | `Spec => []TypeOK` | |
| `NothingIsStranded` | `Spec => []NothingStranded` | no kill inside `record_page_attempt` |
| `PauseIsTheUsers` | `Spec => PauseHolds` | |
| `SweepsReconcile` | `Spec => SweepReconciles` | |
| `FetchedIsKept` | `Spec => DownloadsAreKept` | no sweep beside a pass |
| `TableIsKept` | `Spec => KeepsToTheTable`, that is the rules of `DownloadTable` | no sweep beside a pass, no statement inside a gesture |

*The argument.*  A pass, a sweep and a gesture each read in one statement and write in a later one.  The invariants say what of
the reading still holds: a landing page's book is being downloaded or its transaction will find out that it is not (`LandingInv`);
an undisturbed sweep knows rows and files of the book it is at (`SweepInv`); the state about to be written is
one the table lets its writer give (`PassSettles`, `SweepSettles`, `HandInv`).  `RowMoves`, `FileMoves` and `StateMoves` say
once which step moves a row, a file and a state, so that no theorem walks through all actions again.  Each hypothesis is one of
the four interleavings `downloads_core` leaves out, and only where the property needs it: `PauseHolds` and `SweepReconciles` are proved with all
of them, which the run does not check.

### Servers (`UpkeepProofs`)

| theorem | states |
| --- | --- |
| `TypeCorrect` | `ServersSpec => []ServersTypeOK` |
| `KeyInvariant` | `ServersSpec => [](Typed /\ Fits /\ KeyInv)` |
| `CredentialsHold` | `ServersSpec => []CredentialsAgree` |
| `ShelfIsTheUsers` | `ServersSpec => []ShelfFollowsTheUser` |

*The argument.*  Three stores without a transaction are kept together by references that are never used twice.  A key is
*dead* when no row has it and no gesture that could still write it into one holds it, and dead keys stay dead (`DeadStays`).
`KeyInv` says that each gesture makes a key of its own, that what it has made is in the keystore until it is in a row, that a row's key is nobody's to
undo, and that only dead keys are spent or on the clean-up list; so no deletion, now or by a later retry, takes the key of a row.
`NoteInv` follows a verdict from the key its request read; `ChosenInv` says that the pick is the user's last one but for a deletion that
found its own server picked and has yet to clear it, `PickInv` and `MemoInv` name the gesture that will set right what the
shelf has wrong.  Where a clear fails or is cut off nothing will, and the same step writes the excuse the property asks for.  `GestureMoves` sums up the fifteen steps of a gesture.

### Reader (`SequenceProofs`, `ReadingProofs`)

| theorem | states | hypothesis |
| --- | --- | --- |
| `PagesAreDealtOnce` (`SequenceProofs`) | `Pair` puts every page of `1 .. count` into one spread, in order, none empty | |
| `ReaderTypes` | `ReadSpec => []ReadTypeOK` | |
| `PlaceHolds` | `ReadSpec => []PlaceIsKept` | no layout is the webtoon's (`"webtoon" \notin Modes`) |
| `TurnsHold` | `ReadSpec => []TurnsAreStated` | nothing but the reader makes statements (`Words = {}`) |
| `ReaderKeepsTheOutbox` | `ReadSpec => Under!Spec`, that is `Outbox`'s `Spec` with every statement allowed | |
| `OutboxUnderReader` | `ReadSpec => [](OneStatementPerBook /\ PendingFlagIsTruthful) /\ DropsAreExcused` | |
| `LastWordUnderReader` | `ReadSpec => []ShowsLastWord` | no wrong prune (`MaxPrunes = 0`) |

*The argument.*  `Pair` is recursive over the pages left.  The page at which its value would be missing or its spreads wrong, and which has the fewest pages
after it, is a contradiction; so the recursion has a value and the value lays the pages out (`DealingEnds`, `PairLaysOut`).  For the place it
has to be known that **an open session stands on the spread the user left, laid out in the saved row's mode** (`ReaderStands`),
so that what a close writes, of whichever screen and however late, only confirms the row; and that correcting a restored page to its spread's first page stays on
that spread (`SnapKeepsSpread`), which is where `PagesAreDealtOnce` is used.  For the statements: the second transaction of a save is due or has run
(`TurnUnderWay`).  A mark from a menu would rightly replace the reader's statement, hence the hypothesis of `TurnsHold`; the runs make the same choice.
That of `PlaceHolds` is there because a webtoon series unsets the first-page setting: a choice of that layout and back pairs the saved page by another
rule than it was left in, and TLC shows the spread drift.

`Reading` extends `Outbox`, so that every step of the reader is one of the outbox (`StepIsUnder`), of a user who may say any
intent at any time.  `Under` is that outbox with its theorems, and what is proved of it holds under the reader without another proof.

### Covers and lists (`UpkeepProofs`)

| theorem | states |
| --- | --- |
| `CoverTypes` | `CoversSpec => []CoversTypeOK` |
| `CoversAreShown` | `CoversSpec => []CoverIsShown` |
| `ListTypes` | `ListsSpec => []ListsTypeOK` |
| `ListsComeToAgree` | `ListsSpec => ListsAgree` |

*Covers* (`CoversInv`).  A file's name is the entity whose cover it is (`FilesAreTheirOwn`), so no interleaving can show another one's.  That
a row's file is there rests on two facts about steps still to come: what a sweep or the deletion of a server is about to remove belongs to nothing that
is mirrored (`DoomedIsUnmirrored`; false once a pruned entity comes back meanwhile, which the property excuses), and a backfill that is about to
write a row has its file on the disk (`NamedIsThere`).

*Lists* (`ListsInv`).  A reconciliation that nothing disturbed has seen exactly the pages before its cursor, agrees with the server on all of them, and has
left everything else as it found it (`CalmSweep`); a list gone from the mirror holds no members (`GoneHoldNothing`).  At the last page
nothing is unseen, so what is dropped is what the server does not have.  `PageIndexIs` and `PagesStay` are the arithmetic of paging: a page that is complete
stays so when the cursor moves on.  Members are compared as sets first and in order afterwards, as `sorted` does, and a list whose stamp did not move is compared too, which is what the mutant drops.

*The lists' types.*  `ListsTypeOK` says that no list holds a member twice, on the server or in the mirror: its members are an arrangement,
one of `SetToAllKPermutations(Member)`.  `IsArrangement` unfolds that to a sequence without repetition, and what `Sift` leaves of one is one.

### Screens and page cache (`ScreensProofs`)

| theorem | states | hypothesis |
| --- | --- | --- |
| `ShelfTypes` | `ShelfSpec => []ShelfTypeOK` | |
| `WallStaysHonest` | `ShelfSpec => []WallIsHonest` | |
| `WindowTypes` | `WindowSpec => []WindowTypeOK` | |
| `OutageStaysCheap` | `WindowSpec => []OutageCostsOneRequest` | |
| `PlanFitsTheDevice` | bounds of `WindowPlan` for every machine, layout and link | |
| `QueueServesTheScreen` | what `PrefetchQueue` asks for, and in which order, for every pairing of a book | |
| `PlansStayFit` | `WindowSpec => []PlansFit` | |
| `PassesAreSmall` | `WindowSpec => []PassesStaySmall` | |
| `SeriesPageTypes` | `SeriesPageSpec => []SeriesPageTypeOK` | |
| `TargetIsTheRules` | `SeriesPageSpec => []TargetFollowsTheRule` | |
| `CacheTypes` | `CacheSpec => []CacheTypeOK` | |
| `TiersHold` | `CacheSpec => []TiersFit` | |
| `SweepsLeaveAgreement` | `CacheSpec => []SweptCacheAgrees` | |
| `GuessesGoFirst` | `CacheSpec => SeenOutranksGuessed` | |
| `NoAnswerIsCut` | `CacheSpec => AnswersAreWhole` | |
| `FramesTypes` | `FramesSpec => []FramesTypeOK` | |
| `FramesBecomeEvents` | `FramesSpec => []EventsAreWholeFrames` | |

*The wall* (`ShelfInv`).  Loads are dropped when their generation is not the wall's, so of all that are under way at most one counts (`OneLoad`).
That one asks for what the wall stands for, from the place where the wall ends (`AsksStand`), and what it has read so far is still so while no sync
came between (`AsksRead`); so when it lands the wall is again the beginning of the result (`WallIsAPrefix`).

*The window* (`WindowInv`).  Once the core has been told of an outage the plan's window is empty, and an empty window makes an empty queue, for every profile and
layout (`PrefetchQueue` truncates to it); a pass that set out before has its one request and no more, because a failure ends it.

*Plan and queue* (`PassInv`).  `PlanIs` walks once through the four stages of `plan`: the cap of a plan that is wider than the screen is below the ceiling, hence below
what half the pool and two memory tiers hold.  The queue is the spreads around the reader, laid end to end by `FlattenSeq`, sifted of what is cached and truncated.  That the pages
of sequences laid end to end are theirs, in order, is shown by a least counterexample over the number of sequences (`Joined`, `TakenFrom`); since `Pair` deals each page once,
no page comes twice, and the spread on screen, which `Windowed` puts first, comes before all others.  A relayout keeps the plan that was made
for the old width, and `WindowFits` is about that width; a pass counts what it has fetched together with what it has yet to ask for (`Small`).

*The read target* (`PageInv`).  What a load has read while nobody committed is what the catalog says (`AimStands`).  The rest is about `Sift`: its
elements are those of the sequence that are kept (`SiftKeeps`), its first is the earliest of them (`SiftHead`), and each comes once (`SiftOnce`); hence the book at
place *i* of the order has *i*-1 before it (`PlaceIs`), and the two ways of the code to find a book, by the newest progress and by the first unread, name the
book of the rule (`RuleIsTheRule`).

*The cache's budgets* (`BudgetInv`).  A trim measures once and then drops row after row while others record, promote and drop, so it may end with
the pool over its budget; what it may not do is to be the last.  So: the pool is within its budget, or a trim ended early, or **somebody has yet to measure, or is dropping rows by
an order that knows every page the ledger has** (`TrimIsDue`).  Whoever records a page measures after it; a drop by key takes a page out of ledger and order alike;
a promotion replaces a row and adds no page.  When an order that knows every page is used up, what it leaves, hence the ledger, is within the
budget or the kept page alone (`EvictPool`, `SweepBudget`).  A pass is alone on its snapshot, and committing puts its view in the ledger's place: nobody can have
recorded a page meanwhile, or its first write would have been refused.  In memory a page comes in only after it was taken out, and `Sift` never lengthens (`SiftShrinks`, `SiftStaysApart`).

*The sweep* (`SweepStands`).  While a sweep is `alone`, what it has come past stays right: no staging file once it took those, no row without
its bytes once it read the rows, no file without a row once it walked the files; a trim takes the row first and the file at the next step, which is the one
exception the invariant names.  Nobody else drops or records, so its trim ends with what it measured less what it dropped, within the pool (`SweptCacheAgrees`
says so too).  Each step of somebody else that touches files or rows ends `alone`, as `NotAlone` says of every one of them.

*The trim* (`GuessesGoFirst`) rests on `CacheTyped` alone.  The comparison is between two successive ledgers, and among the rows the call measured
and the ledger still has: `Worst` names a displayed row only once no guessed one is left in the order.  Rows landed or promoted since are not in
it, which is why the property speaks of those measured (`SeenOutranksLanded` does not, and fails).

*Whole answers* (`WholeInv`).  The end of the process is the only step that cuts a file; it ends all calls too.  So it is enough
that a call which is about to answer has had its page checked (`CallsCarryWhole`): what is staged was checked, a promotion moves what a check let through, and a look-up
drops what fails it.  A WebP that was cut passes the check, so the property, like the proof, leaves WebP out by name (`CallsCarryWhole`); of WebP it is false
([below](#where-code-and-documents-disagree)).  A server that answers with a
PNG and later with a WebP of one page is included: the path a call ends with is that of the row or the bytes it holds itself (`Answered`), whatever
else lies beside it.  All containers that say where they end are one value, so a JPEG after a PNG is not told apart.

*The frame parser* (`FramesInv`).  The text grows by one symbol at a time, so it is enough to know what the parser holds between two of them:
the open line, and of each field **what the text says behind its last blank line** (`Holds`).  Adding a symbol to a text adds at most that one place to what
`Sift` leaves of its places (`AtGrows`); nothing earlier changes, because whether a line is blank and which frame it is in depends on what is before it
(`BlanksGrow`, `FrameStays`, `EventStays`).  So a symbol that is no blank line leaves `Meaning` as it was, and a blank line adds the event of the frame it ends if
there is data in it (`MeaningGrows`), which is what `Dispatch` returns (`BlankHeld`).  The LF of a CRLF is no symbol of the plain text (`PlainGrows`), and `sawCr` says just when one
would be.  The restriction to one event field in a frame is needed at that blank line and nowhere else: what is held of kinds is all of them, and the event has the last.

### Only model-checked

Every type invariant, every safety invariant and every action property that a passing run checks is a theorem.  Model-checked only is what needs fairness or
`ENABLED`, which is out of the prover's reach: `EveryRowSettles` and `MirrorConverges` of the outbox, `MirrorConverges` of the mirror,
`MirrorCatchesUp`, `EveryBookComesToRest`, `TurnsAreDelivered`, `HiddenBytesAreSwept`.

Functions of the model that run over a sequence are recursive over its length; that they have a value, and what the value is, is shown by a least counterexample,
since the library's induction theorems take an operator as a parameter.

Properties that are proved are model-checked as well.

## Where code and documents disagree

Each of these was met while translating.  The first is a run of the project.  Of the others most have a
configuration of their own, listed by name, which ends with a counterexample; where only a property is named, it fails
when it replaces the properties of the configuration in brackets (a state formula as an `INVARIANT`), with the constants changed as said there.
Paths are relative to `src/android/komga_core/src` unless they name another top directory.

**Outbox**

- `MCOutboxPruned`, `DrainNeverAborts`.  `local_action_time` reads `local_updated_at` as a `String`.  A row that
  prune deleted and a sweep mirrored again has NULL there, the query is an error and the drain stops at that entry
  on every pass.  The comment at `sync/upload.rs:195-197` says such an entry falls back to its own creation time.
- `OnlyOthersOvertake` [`MCOutboxLate`; `Words <- Turns`, `Faults <- None`, `MaxAttempts = 2`, `MaxLate = 0`].  Rule R4 (`store/outbox.rs:453`) drops a statement whenever the server's stamp
  is later, also when that stamp is the echo of this device's previous write.  `specs/contracts/offline-mutation/README.md:116-119`
  calls R4 "latest user action wins"; line 90 says the last action is what the server must become.
- `MCOutboxLate`, `OldWordStaysOld`.  A request that timed out and is served after a newer statement has settled leaves
  the older one on the server.  Lines 40-42 of the same contract rest replay on idempotence.
- `MCOutboxUnread`, `ClearingConverges`.  A book whose progress another device deleted comes without
  `readProgress`, and `store/books.rs:173` then leaves the local row.  `docs/sync-engine.md:4-6` says reconcile alone converges.

**Event stream**

- `MCEventStreamRefused`, `NothingForgotten`.  A failed refetch is counted in `books_deferred` and forgotten; the comment at
  `sync/sse.rs:396-398` says the caller queues it again.
- `MCEventStreamUnswept`, `SweptBeforeHints`.  `_reconcile` swallows every failure and the tick then calls `sseReconciled`;
  `android/app/lib/src/live_sync.dart:141-142` says the sweep closes the gap first.
- `SweptBeforeHints` [`MCEventStreamUnswept`; `Rough <- OthersCut`, `MaxCuts = 1`, `MaxRuns = 1`].  `_reconcile` returns at once while another sweep runs, and the debt counts as paid;
  `specs/contracts/reconnect/README.md:53-56` asks for a complete one after every reconnection.
- `MCEventStreamStopped`, `ResumeMakesUp`.  A tick dropped by `stop()` has consumed its events; `resume()` finds
  a connected session without debt.  `series_grid.dart:233-234` says that is why resume sweeps.
- `NoClaimIsLeaked` [`MCEventStreamStopped`; `Rough <- StoreOnly`].  `sse_poll` returns early when the database does not open and leaves the entry
  marked as being polled; the comment at `ffi/application.rs:1208-1209` says the socket goes back whether the tick worked or not.
- `NoStreamOutlivesItsOwner` [`MCEventStreamStopped`; `Rough <- DisposeOnly`, `CHECK_DEADLOCK FALSE`].  A poll under way during `sse_stop` parks its socket afterwards; comments at
  `ffi/application.rs:1292-1293` and `live_sync.dart:104` say no socket outlives its owner.
- `MCEventStreamBurst`, `BurstIsHandedBack`.  Reaching the limit of events per poll falls through to `close()` and
  a backoff; `ffi/application.rs:1442` calls it what a tick may consume "before handing control back".
- `HeartbeatKeepsStream` [`MCEventStreamBurst`; `Rough <- QuietnessOnly`].  Comment frames do not reset the idle count; `ffi/application.rs:1450-1452` says the limit
  is for a stream that has produced "not even a comment frame".
- `RefusedStaysParked` [`MCEventStreamRefused`; `Rough <- RefusalsOnly`].  After the sweep of a refused handshake `reconcile_done` sets the phase to
  connected; `docs/sync-engine.md:120-122` says the session stays in `ReconcileOnly`.
- `BackgroundClosesStream` [`MCEventStreamStopped`].  `stop()` leaves the socket parked and open;
  `specs/contracts/reconnect/README.md:59` says the background disconnects.

**Mirror**

- `MCMirrorSyncShifted`, `FailedSyncKeepsLiveBooks`.  The series step prunes before the later steps run; what a moved offset hid from it
  is deleted although the sync then fails.  `sync/reconcile.rs:15-17` says a failed reconciliation "can never delete local data the server still has".
- `MCMirrorSyncOvertaken`, `NeverDeletesLive`.  A book an event wrote after its series' page was read is pruned at the end of the step;
  `store/prune.rs:334` says rows "the server no longer reports" are removed.
- `SweepIsFull` [`MCMirrorSyncOvertaken`; `Rough <- BreaksOnly`, `MaxBreaks = 1`, `MaxHints = 0`].  A reconciliation starts its books step at whatever cursor an interrupted sync left;
  `sync/reconcile.rs:38-39` says every trigger is a full sweep.
- `ReturnedIsNotDeleted` [`MCMirrorSyncOrphan`; `Rough <- EventsAndRemovals`, `MaxHints = 1`, `MaxBreaks = 0`].  A `BookDeleted` event records type `book`, sweeps clear `books`;
  `store/prune.rs:140` says a re-added entity clears its tombstone.  (Without events it holds.)
- `UnlinkedIsEmpty` [`MCMirrorSyncShifted`; `Rough <- UnlinkOnly`, `CHECK_DEADLOCK FALSE`].  `delete_server` takes no lock; a sync goes on writing.
  `ffi/application.rs:119-121` says mirrored rows are removed.
- `MCMirrorSyncOrphan`, `MirrorConverges`.  An event writes a book whose series is gone, and no sweep lists it again;
  `specs/contracts/initial-sync/README.md:20-21` says there is no orphan book.

**Downloads**

- `MCDownloadsTorn`, `NothingStranded`.  A kill between the statement that counts the last attempt and the one that
  fails the page leaves a page nobody may fetch and a book that keeps its place in the queue; the comment at `downloads/store.rs:470-471` says the queue moves on.
- `FreshJob` [`MCDownloadsTorn`; `Rough <- Editions`].  A new job of a book whose files are in the tree adopts them in the next sweep;
  `downloads/store.rs:140` says re-enqueuing is a fresh job.
- `DownloadsAreKept` [`MCDownloadsTorn`; `Rough <- Sweeping`].  A sweep beside a pass adopts a page whose attempt the pass is counting; the page becomes failed
  and the next sweep deletes the good file.  `specs/contracts/fixtures/downloads/states.json`: "No automatic pass may remove a download."
- `KeepsToTheTable` [`MCDownloadsTorn`; `Rough <- Racing`].  `enqueue` checks the state outside its transaction; `downloads/store.rs:158-159` says it is refused while a pass holds the book.
- `OneInFlight` [`MCDownloadsTorn`; `Rough <- BadPages`].  A paused book whose pages fail goes on being requested;
  `downloads/engine.rs:13-15` says a pause costs at most the page in flight.
- `TreeIsOwned` [`MCDownloadsTorn`; `Rough <- Dying`].  Delete removes the rows first; `downloads/store.rs:708-710` says "the order matters".

**Reader session**

- `MCReadingExit`, `OnlyGesturesSpeak`.  Closing persists and states the page also when nobody has moved: a book that was opened and closed
  without a gesture sends its page, and so takes back what another device has said about it meanwhile.
  `specs/contracts/fixtures/reader/throttle.json:21` (T8): "Exit with nothing pending produces zero wire requests."
- `VolumesAgree` [`MCReadingExit`; `Book <- TwoBooks`, `MaxOthers = 0`].  A book is opened with the mode its position row saved, and paired by it while the screen shows the series' choice;
  `reader/series_override.rs:6-9` says a book no longer remembers its own mode, so that two volumes can never disagree.
- `LastSpreadFinishes` [`MCReadingExit`].  Turning to the double spread that ends with the last page states the page before it, and the
  book is not finished; `throttle.json` (T6) says the last page finishes it.

Also: `reader/session.rs:212-214` calls position and progress "the same call", which is two transactions; a late close takes the session of a newer screen out
of the registry; a relayout persists without telling the throttle.

**Page cache**

- `EveryAnswerIsWhole` [`MCPageCacheSnapshot`; `Format <- Webp`].  A cut WebP passes the checks, which refuse a file longer than the length it declares and not a shorter one
  (`reader/integrity.rs:333`, `:582`).
- `MCPageCacheSnapshot`, `PassKeepsItsPages`.  A pass whose snapshot another writer has passed cannot write the ledger, and its pages lie on the disk undescribed;
  `store/mod.rs:108-114` has the busy timeout prevent this, but a stale snapshot is refused without waiting.
- `SweepSparesDescribed` [`MCPageCacheSnapshot`].  The sweep reads the rows, then walks the files, and removes one that was recorded in between;
  `reader/cache.rs:542` says a file no row describes is deleted.

Also: the sweep removes the staging file of a store under way; a promotion renames a file whose row is gone; one page in both tiers leaves one file
undescribed; the controller's memo of paths can answer with a page that was evicted.

**Windows and frames** [`MCScreens`]

- `SettledLooksBack`.  Two quick turns report a moving reader, and nothing reports it again when it has come to rest: the plan keeps no page behind it.
  `specs/contracts/fixtures/reader/window.json:10`: "never zero while the reader is settled".
- `PlanFollowsTheLink`.  Reports overtake one another or fail, and the plan stays one for a link the controller does not believe in any more.
- `EventsAreStandard`.  A second `event` field is appended to the first; `api/sse.rs` calls itself a WHATWG frame parser, where it replaces it.

Also: the comment at `reader_controller.dart:655-660` has a pass fail on a dead link, but the core swallows the error of the fetch;
slow answers are forgotten only under memory pressure and on resume; an unknown size of memory counts as more than the smallest one.

**Wall and series page** [`MCScreens`]

- `ShownOnce`.  A sync between two pages moves the offset, and a series is shown twice.
- `DetailShowsItsFilter`.  `series_detail.dart`'s reloads have no generation: an older read that ends last shows its rows under the newer filter.
- `RereadIsEarned`.  `store/query.rs:477` and `:541` have "read again" mean that everything is finished; statements of different moments can say so of a series that never was.
- `CompleteIsWhole` [`MaxWrites = 2`].  `complete` compares counts, so one book gone and another one come look complete;
  `store/query.rs:509` says the mirror then has every book the server says the series has.

**Covers** [`MCUpkeep`]

- `MissingIsTakenUp`.  The backfill asks for series without a row; a row whose file vanished is never taken up, though `ffi/application.rs:413-417` says it is.
- `CoverIsWhole`.  A write that is cut off leaves a file that counts as the cover.
- `NoCoverOutlives`.  A backfill under way records the cover of an entity that was pruned meanwhile; `ffi/application.rs:657` says covers
  of pruned entities go too.  A sweep that fails after its prune forgets the paths it has collected.

**Servers** [`MCScreens`]

- `SecretsAreOwned`.  Overlapping updates and deletions, a read-back that throws and the end of the process leave secrets nothing names; the retry of
  clean-ups writes its list over an entry added meanwhile.  The profile of an add whose last step failed stays without its key
  (`server_manager.dart:64-80`), which `CredentialsAgree` excuses by name.
- `PoolForgets`.  A request that read its key before the server was deleted pools a client with it afterwards; `api/series.rs:134-136` says a deleted server
  cannot keep a usable credential alive.

Also: a late answer to the old key leaves its verdict after the new one was saved (`ffi/application.rs:103-105`); `delete_server` reads whether the server
was the active one before it deletes the row, so a switch in between dangles; when the process ends after that row, mirror, secret and pick stay and a second attempt does nothing.

**Read in the code and not shown by a configuration**

A foreground resume whose tick finds another in flight does nothing until the timer's next one; `user_set` ignores that its
write found another state, so a pause tapped at the wrong moment is lost; an enqueue of a known book keeps its old place in the queue; `usable_page`'s
"the next pass puts it right" does not hold for a completed book before the next sweep; a job started over between the read and the write of `settle`
may be called completed with pages pending; deleting a book while a sweep is at it leaves rows behind until the next enqueue and ends that sweep;
a link or space refusal for the first book of the queue keeps the others waiting.
`save_libraries_batch` is not one transaction; a bootstrap does not read list pages again that it has completed, so only a reconciliation makes lists agree;
`query_books` breaks no ties by id, so equal keys may swap between two pages.

## What is not modelled

`PROJECT.json` lists every component with its status and reason.

- *Generated bindings* (`ffi/generated`) and the facade's transfer records: conversions without state.  The facade's
  functions that hold state or order are modelled with their component.
- *Smoke programs* (`bin/*`), the fixture server, scripts and tests drive the core.  Together with the bindings they are
  a large part of the crate's lines and hold none of its behaviour.
- *API client and URLs* (`api/*`, without `sse.rs`): requests and JSON.  Answers and errors are choices of the modules that ask.
- *Manifests and settings:* parsing and clamping of stored documents.
- *Full-text index, schema, migrations:* rows written in the transactions `MirrorSync` stands for, and DDL.  Queries that read once and keep no
  state (collections, read lists, libraries, filter options) are left out; those a screen reads again are `Shelf` and `SeriesPage`.
- *Diagnostics:* log lines and counters nothing reads back.
- *Layout and navigation of the Flutter app.*
- *The Swift mirror* (`src/apple`): a second implementation against the same fixtures.

Inside the modelled components: the on-deck step of a sync and the throttle between sweeps; budgets, link and
space policy of the downloads; the ratio within a page; codecs' own checks and the count of damaged answers; decode slots; the demo
server; a profile whose address is edited.

## Running it

    tlc -workers 2 -config MCOutboxRough.cfg MCOutbox
    tlc -workers 2 -config MCScreens.cfg MCScreens
    tlapm OutboxProofs.tla        # and EventStreamProofs, MirrorSyncProofs, DownloadsProofs, SequenceProofs,
                              # ReadingProofs, UpkeepProofs, ScreensProofs

A configuration named after a module and a word belongs to that MC module
(`MCDownloadsTorn.cfg` to `MCDownloads`).  Those named under disagreements end with a
counterexample by design.
