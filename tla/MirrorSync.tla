----------------------------- MODULE MirrorSync -----------------------------
(***************************************************************************)
(* The mirror of one server's library in SQLite and the two syncs that     *)
(* keep it: the resumable bootstrap (sync/full.rs) and the reconciling     *)
(* sweep (sync/reconcile.rs), with the resume cursors they share           *)
(* (store/sync_state.rs), delete propagation (store/prune.rs) and the      *)
(* refetches of the event stream, which write past both of them            *)
(* (sync/sse.rs).                                                          *)
(*                                                                         *)
(* The server is read one page at a time, by offset, while it changes;     *)
(* whatever a sweep did not see is deleted here.  Between a page's answer  *)
(* and the write of it, between the write and the cursor, and between two  *)
(* pages, the server, the other writers and the end of the process may     *)
(* intervene.                                                              *)
(*                                                                         *)
(* Two of the six steps are modelled: series, which stands for the flat    *)
(* lists, and books, which are listed series by series and whose cursor    *)
(* both syncs share.  A row's content is the stamp of its last change;     *)
(* a series row has none.                                                  *)
(*                                                                         *)
(* Operators marked FAULT are plausible slips of the operator that follows *)
(* them and are used by no action.                                         *)
(***************************************************************************)
EXTENDS Naturals, FiniteSets, FiniteSetsExt

CONSTANTS
    Series,         \* remote ids of series; only their order matters
    PerSeries,      \* how many books a series may have
    Stock,          \* the books on the server at first
    PageSize,       \* books, or series, per request (100 in the code)
    Rough,          \* what may go wrong: a subset of Trouble
    MaxChanges,     \* bound: changes on the server in a behaviour
    MaxBreaks,      \* bound: steps that fail and processes that end
    MaxHints        \* bound: book events that are applied

\* "remove" and "drop": the server removes books, and series; "break": a request
\* or a write fails; "crash": the process ends; "event": the event stream writes
\* books; "unlink": the user deletes the server.
Trouble == {"remove", "drop", "break", "crash", "event", "unlink"}

\* A book is named by its series and its place in it.
Book == Series \X (1 .. PerSeries)

ASSUME MirrorAssumption ==
    /\ Series \subseteq Nat \ {0} /\ IsFiniteSet(Series)
    /\ {PerSeries, PageSize} \subseteq Nat \ {0}
    /\ Stock \subseteq Book
    /\ Rough \subseteq Trouble
    /\ {MaxChanges, MaxBreaks, MaxHints} \subseteq Nat

VARIABLES
    remote,     \* the server: its series, and the stamp of each book
    row,        \* the mirror's rows, the same way
    tomb,       \* deleted_entities, by entity_type: "series", "books", "book"
    state,      \* sync_state: status and sync_cursor of each step
    task,       \* the syncs: "bootstrap" and "reconcile"
    hint,       \* the event stream's refetch under way
    news,       \* book events not yet applied
    linked,     \* the server has not been deleted in the app
    clock,      \* the server's clock: it stamps every change
    spent,      \* bounds used up
    \* History, read by properties and by no action:
    promised    \* books on the server ever since the mirror was started over, in
                \* lists that no removal has shortened

vars == <<remote, row, tomb, state, task, hint, news, linked, clock, spent, promised>>

Absent == 0
Stamp == 0 .. 1 + MaxChanges
Library == [series : SUBSET Series, books : [Book -> Stamp]]
Nothing == [series |-> {}, books |-> [b \in Book |-> Absent]]
NoTombs == [series |-> {}, books |-> {}, book |-> {}]

Kept(lib) == {b \in Book : lib.books[b] # Absent}
In(s) == {b \in Book : b[1] = s}
\* The books of B are gone from lib, and so are the series of S.
Without(lib, S, B) ==
    [series |-> lib.series \ S,
     books  |-> [b \in Book |-> IF b \in B \/ b[1] \in S THEN Absent ELSE lib.books[b]]]

(***************************************************************************)
(* sync_state.  A cursor names the next page to fetch, and for books the   *)
(* series it is a page of.                                                 *)
(***************************************************************************)
Entity == {"series", "books"}
Status == {"none", "idle", "syncing", "error"}
Cursor == [series : {0} \cup Series, page : Nat]
NoCursor == [series |-> 0, page |-> 0]
NeverRun == [e \in Entity |-> [status |-> "none", cursor |-> NoCursor]]

BeginEntity(e) == [state EXCEPT ![e].status = "syncing"]

CheckpointEntity(e, s, p) ==
    [state EXCEPT ![e] = [status |-> "syncing", cursor |-> [series |-> s, page |-> p]]]

\* FAULT: the cursor of the finished sweep stays.
CompleteKeepingCursor(e) == [state EXCEPT ![e].status = "idle"]

CompleteEntity(e) == [state EXCEPT ![e] = [status |-> "idle", cursor |-> NoCursor]]

FailEntity(e) == [state EXCEPT ![e].status = "error"]

StepIsComplete(e) == state[e] = [status |-> "idle", cursor |-> NoCursor]

(***************************************************************************)
(* A sync under way.  at: the page it is at; left: the series it has yet   *)
(* to finish; scope: the series it set out to list; known: the rows it     *)
(* found; seen: the ids it was told of, or takes as told; answer: the page *)
(* that has arrived.  The rest is history.  resumed: a cursor was taken    *)
(* up; calm: nothing else changed the server or the mirror; shifted: the   *)
(* server removed something; steady: books it has had all along; lost:     *)
(* those of them this sync has deleted.                                    *)
(***************************************************************************)
Mode == {"bootstrap", "reconcile"}
Stage == {"idle", "enter", "fetch", "save", "checkpoint", "prune", "complete"}
Page == [series : SUBSET Series, books : [Book -> Stamp], last : BOOLEAN]
NoPage == [series |-> {}, books |-> [b \in Book |-> Absent], last |-> FALSE]

Task ==
    [stage : Stage, step : Entity, at : Cursor, left : SUBSET Series, scope : SUBSET Series,
     known : Library, seen : [series : SUBSET Series, books : SUBSET Book], answer : Page,
     resumed : BOOLEAN, calm : BOOLEAN, shifted : BOOLEAN,
     steady : SUBSET Book, lost : SUBSET Book]

Idle ==
    [stage |-> "idle", step |-> "series", at |-> NoCursor, left |-> {}, scope |-> {},
     known |-> Nothing, seen |-> [series |-> {}, books |-> {}], answer |-> NoPage,
     resumed |-> FALSE, calm |-> TRUE, shifted |-> FALSE, steady |-> {},
     lost |-> {}]

NoHint == [book |-> <<0, 0>>, stamp |-> Absent]
Hint == [book : Book, stamp : Stamp]

Init ==
    /\ remote = [series |-> Series, books |-> [b \in Book |-> IF b \in Stock THEN 1 ELSE Absent]]
    /\ row = Nothing /\ tomb = NoTombs /\ state = NeverRun
    /\ task = [m \in Mode |-> Idle]
    /\ hint = NoHint /\ news = {}
    /\ linked = TRUE
    /\ clock = 1
    /\ spent = [breaks |-> 0, hints |-> 0]
    /\ promised = Stock

(***************************************************************************)
(* The server.                                                             *)
(***************************************************************************)
Noticed(shift) ==
    [m \in Mode |-> IF task[m].stage = "idle" THEN Idle
                    ELSE [task[m] EXCEPT !.calm = FALSE, !.shifted = @ \/ shift,
                                         !.steady = @ \cap Kept(remote')]]

Tell(N) == news' = IF "event" \in Rough THEN news \cup N ELSE news

\* A book is added to a series or changed.
Publish(b) ==
    /\ clock <= MaxChanges
    /\ clock' = clock + 1
    /\ remote' = [remote EXCEPT !.series = @ \cup {b[1]}, !.books[b] = clock + 1]
    /\ Tell({[book |-> b, gone |-> FALSE]})
    /\ task' = Noticed(FALSE)
    /\ UNCHANGED <<row, tomb, state, hint, linked, spent, promised>>

\* Books, or whole series, leave the server; what is listed after them moves up.
Remove(S, B) ==
    /\ clock <= MaxChanges
    /\ S \subseteq remote.series /\ B \subseteq Kept(remote) /\ (S # {} \/ B # {})
    /\ clock' = clock + 1
    /\ remote' = Without(remote, S, B)
    /\ promised' = IF S # {} THEN {} ELSE promised \ UNION {In(b[1]) : b \in B}
    /\ Tell({[book |-> b, gone |-> TRUE] : b \in B})
    /\ task' = Noticed(TRUE)
    /\ UNCHANGED <<row, tomb, state, hint, linked, spent>>

\* A page by offset: the n-th hundred of what is listed now.
Slice(S, Before(_, _), n) ==
    {x \in S : Cardinality({y \in S : Before(y, x)}) \div PageSize = n}

SeriesPage(n) ==
    LET Less(x, y) == x < y IN
    [NoPage EXCEPT !.series = Slice(remote.series, Less, n),
                   !.last = Cardinality(remote.series) <= (n + 1) * PageSize]

BooksPage(s, n) ==
    LET listed == Kept(remote) \cap In(s)
        Less(x, y) == x[2] < y[2]
        page == Slice(listed, Less, n) IN
    [NoPage EXCEPT !.books = [b \in Book |-> IF b \in page THEN remote.books[b] ELSE Absent],
                   !.last = Cardinality(listed) <= (n + 1) * PageSize]

(***************************************************************************)
(* One sync.                                                               *)
(***************************************************************************)
\* FAULT: the syncs do not wait for each other.
LockPerSync(m) == task[m].stage = "idle"

\* sync_lock: one mutex per database and server serialises both syncs.
LockFree(m) == \A n \in Mode : task[n].stage = "idle"

\* A trigger fires.  Starting afresh forgets every cursor.
Start(m, fresh) ==
    /\ linked /\ LockFree(m)
    /\ fresh => m = "bootstrap"
    /\ state' = IF fresh THEN NeverRun ELSE state
    /\ promised' = IF fresh THEN Kept(remote) ELSE promised
    /\ task' = [task EXCEPT ![m] = [Idle EXCEPT !.stage = "enter", !.calm = hint = NoHint,
                                               !.steady = Kept(remote)]]
    /\ UNCHANGED <<remote, row, tomb, hint, news, linked, clock, spent>>

\* step_plan: the bootstrap does not repeat a step it has completed.
Skip(m) ==
    /\ task[m].stage = "enter" /\ m = "bootstrap" /\ StepIsComplete(task[m].step)
    /\ task' = [task EXCEPT ![m] = IF task[m].step = "series" THEN [@ EXCEPT !.step = "books"] ELSE Idle]
    /\ UNCHANGED <<remote, row, tomb, state, hint, news, linked, clock, spent, promised>>

Due(m, e) ==
    /\ task[m].stage = "enter" /\ task[m].step = e
    /\ m = "bootstrap" => ~StepIsComplete(e)

\* The bootstrap goes on from the stored page; a reconciliation lists all series.
EnterSeries(m) ==
    /\ Due(m, "series")
    /\ state' = BeginEntity("series")
    /\ LET from == IF m = "bootstrap" THEN state["series"].cursor ELSE NoCursor IN
       task' = [task EXCEPT ![m] = [@ EXCEPT !.stage = "fetch", !.at = from, !.known = row,
                                             !.resumed = from # NoCursor]]
    /\ UNCHANGED <<remote, row, tomb, hint, news, linked, clock, spent, promised>>

\* FAULT: the series in progress counts as finished.
LeftFromSteppingPast(ids, cursor) == {s \in ids : s > cursor.series}

\* The series in progress is entered again at its page.
LeftFrom(ids, cursor) == {s \in ids : s >= cursor.series}

\* FAULT: only what this run is told of counts.
SeededWithNothing(skipped, at) == {}

\* Ids of pages committed before the interruption: taken from the mirror.
Seeded(skipped, at) ==
    {b \in Kept(row) : b[1] \in skipped \/ (at.page > 0 /\ b[1] = at.series)}

EnterBooks(m) ==
    /\ Due(m, "books")
    /\ state' = BeginEntity("books")
    /\ LET cursor == state["books"].cursor
           left == LeftFrom(row.series, cursor)
           at == IF cursor.series \in left THEN cursor
                 ELSE IF left = {} THEN NoCursor
                 ELSE [series |-> Min(left), page |-> 0] IN
       task' = [task EXCEPT ![m] =
                  [@ EXCEPT !.stage = IF left = {} THEN "prune" ELSE "fetch",
                            !.at = at, !.left = left, !.scope = row.series, !.known = row,
                            !.seen.books = Seeded(row.series \ left, at),
                            !.resumed = task[m].resumed \/ cursor # NoCursor]]
    /\ UNCHANGED <<remote, row, tomb, hint, news, linked, clock, spent, promised>>

Fetch(m) ==
    /\ task[m].stage = "fetch"
    /\ LET at == task[m].at IN
       task' = [task EXCEPT ![m] =
                  [@ EXCEPT !.stage = "save",
                            !.answer = IF task[m].step = "series" THEN SeriesPage(at.page)
                                       ELSE BooksPage(at.series, at.page)]]
    /\ UNCHANGED <<remote, row, tomb, state, hint, news, linked, clock, spent, promised>>

\* FAULT: a book that is already mirrored is not written again.
DirtyIfAdded(m, b) ==
    LET t == task[m] IN t.answer.books[b] # Absent /\ (m = "bootstrap" \/ t.known.books[b] = Absent)

\* The bootstrap writes the whole page; a reconciliation what is new or has
\* another stamp than when the step began.
Dirty(m, b) ==
    LET t == task[m] IN
    t.answer.books[b] # Absent /\ (m = "bootstrap" \/ t.known.books[b] # t.answer.books[b])

\* FAULT: what is back on the server stays marked as deleted.
ClearedNot(t, m) == t

\* An id a reconciliation is told of is not deleted any more.
Cleared(t, m) ==
    IF m = "bootstrap" THEN t
    ELSE [t EXCEPT !.series = @ \ task[m].answer.series,
                   !.books = @ \ Kept(task[m].answer)]

\* One transaction for the rows of the page, then the tombstones.
Save(m) ==
    /\ task[m].stage = "save"
    /\ row' = [series |-> row.series \cup
                  (IF m = "bootstrap" THEN task[m].answer.series
                   ELSE task[m].answer.series \ task[m].known.series),
               books |-> [b \in Book |-> IF Dirty(m, b) THEN task[m].answer.books[b] ELSE row.books[b]]]
    /\ tomb' = Cleared(tomb, m)
    /\ task' = [task EXCEPT ![m].stage = "checkpoint",
                            ![m].seen.series = @ \cup task[m].answer.series,
                            ![m].seen.books = @ \cup Kept(task[m].answer)]
    /\ UNCHANGED <<remote, state, hint, news, linked, clock, spent, promised>>

\* Go on at a page, recorded as the cursor unless the step keeps none.
GoOn(m, s, p, recorded) ==
    /\ state' = IF recorded THEN CheckpointEntity(task[m].step, s, p) ELSE state
    /\ task' = [task EXCEPT ![m].stage = "fetch", ![m].at = [series |-> s, page |-> p],
                            ![m].left = {x \in @ : x >= s}, ![m].answer = NoPage]

\* A statement of its own: the process may have ended since the page was saved.
Checkpoint(m) ==
    /\ task[m].stage = "checkpoint"
    /\ LET t == task[m]
           later == t.left \ {t.at.series} IN
       \/ /\ ~t.answer.last
          /\ GoOn(m, t.at.series, t.at.page + 1, m = "bootstrap" \/ t.step = "books")
       \/ /\ t.answer.last /\ later # {}
          /\ GoOn(m, Min(later), 0, TRUE)
       \/ /\ t.answer.last /\ later = {}
          /\ task' = [task EXCEPT ![m].stage = "prune"] /\ UNCHANGED state
    /\ UNCHANGED <<remote, row, tomb, hint, news, linked, clock, spent, promised>>

\* delete_series takes the books along; the mirror's books of a series the step
\* did not set out to list are no evidence.
Prune(m) ==
    /\ task[m].stage = "prune"
    /\ LET t == task[m]
           S == IF m = "reconcile" /\ t.step = "series" THEN row.series \ t.seen.series ELSE {}
           B == IF m = "reconcile" /\ t.step = "books"
                THEN {b \in Kept(row) : b[1] \in t.scope /\ b \notin t.seen.books} ELSE {} IN
       /\ row' = Without(row, S, B)
       /\ tomb' = [tomb EXCEPT !.series = @ \cup S,
                               !.books = @ \cup B \cup {b \in Kept(row) : b[1] \in S}]
       /\ task' = [task EXCEPT ![m].stage = "complete",
                               ![m].lost = @ \cup (t.steady \cap (Kept(row) \ Kept(row')))]
    /\ UNCHANGED <<remote, state, hint, news, linked, clock, spent, promised>>

Complete(m) ==
    /\ task[m].stage = "complete"
    /\ state' = CompleteEntity(task[m].step)
    /\ task' = [task EXCEPT ![m] =
                  IF task[m].step = "series"
                  THEN [Idle EXCEPT !.stage = "enter", !.step = "books",
                                    !.resumed = task[m].resumed, !.calm = task[m].calm,
                                    !.shifted = task[m].shifted, !.steady = task[m].steady,
                                    !.lost = task[m].lost]
                  ELSE Idle]
    /\ UNCHANGED <<remote, row, tomb, hint, news, linked, clock, spent, promised>>

\* A request or a write fails: the step keeps its cursor, the sync is over.
Fails(m) ==
    /\ "break" \in Rough /\ spent.breaks < MaxBreaks
    /\ task[m].stage \in {"fetch", "save", "checkpoint", "prune"}
    /\ spent' = [spent EXCEPT !.breaks = @ + 1]
    /\ state' = FailEntity(task[m].step)
    /\ task' = [task EXCEPT ![m] = Idle]
    /\ UNCHANGED <<remote, row, tomb, hint, news, linked, clock, promised>>

\* The process ends: what was only in memory is gone, the database stays.
Crash ==
    /\ "crash" \in Rough /\ spent.breaks < MaxBreaks
    /\ \E m \in Mode : task[m].stage # "idle"
    /\ spent' = [spent EXCEPT !.breaks = @ + 1]
    /\ task' = [m \in Mode |-> Idle]
    /\ hint' = NoHint /\ news' = {}
    /\ UNCHANGED <<remote, row, tomb, state, linked, clock, promised>>

(***************************************************************************)
(* The event stream's writes, and the end of the link.                     *)
(***************************************************************************)
\* apply_dirty asks for the book the event names.
Refetch(n) ==
    /\ linked /\ n \in news /\ ~n.gone /\ hint = NoHint /\ spent.hints < MaxHints
    /\ news' = news \ {n}
    /\ spent' = [spent EXCEPT !.hints = @ + 1]
    /\ hint' = [book |-> n.book, stamp |-> remote.books[n.book]]
    /\ UNCHANGED <<remote, row, tomb, state, linked, clock, promised>>
    /\ task' = Noticed(FALSE)

\* note_book_deleted: the tombstone's type is "book".
Forget(b) ==
    /\ row' = Without(row, {}, {b})
    /\ tomb' = [tomb EXCEPT !.book = @ \cup {b}]

\* What came back is written, whatever a sweep has read or written since.
Apply ==
    /\ hint # NoHint
    /\ IF hint.stamp = Absent THEN Forget(hint.book)
       ELSE row' = [row EXCEPT !.books[hint.book] = hint.stamp] /\ UNCHANGED tomb
    /\ hint' = NoHint
    /\ UNCHANGED <<remote, state, news, linked, clock, spent, promised>>
    /\ task' = Noticed(FALSE)

\* An event that says a book is gone is believed at once.
ApplyGone(n) ==
    /\ linked /\ n \in news /\ n.gone /\ hint = NoHint /\ spent.hints < MaxHints
    /\ news' = news \ {n}
    /\ spent' = [spent EXCEPT !.hints = @ + 1]
    /\ Forget(n.book)
    /\ UNCHANGED <<remote, state, hint, linked, clock, promised>>
    /\ task' = Noticed(FALSE)

\* delete_server clears the mirror, the cursors and the tombstones.  It takes
\* no lock.
Unlink ==
    /\ "unlink" \in Rough /\ linked
    /\ linked' = FALSE
    /\ row' = Nothing /\ tomb' = NoTombs /\ state' = NeverRun
    /\ promised' = {}
    /\ UNCHANGED <<remote, hint, news, clock, spent>>
    /\ task' = Noticed(FALSE)

Step(m) ==
    \/ Skip(m) \/ EnterSeries(m) \/ EnterBooks(m) \/ Fetch(m)
    \/ Save(m) \/ Checkpoint(m) \/ Prune(m) \/ Complete(m)

World ==
    \/ \E b \in Book : Publish(b)
    \/ \E b \in Book : "remove" \in Rough /\ Remove({}, {b})
    \/ \E s \in Series : "drop" \in Rough /\ Remove({s}, In(s) \cap Kept(remote))
    \/ \E m \in Mode, fresh \in BOOLEAN : Start(m, fresh)
    \/ \E m \in Mode : Fails(m)
    \/ Crash \/ Unlink

Events == Apply \/ \E n \in news : Refetch(n) \/ ApplyGone(n)

Next == World \/ Events \/ \E m \in Mode : Step(m)

Spec == Init /\ [][Next]_vars

\* Triggers keep firing reconciliations, every request is answered or fails.
\* Nothing is asked of the server, of failures or of the user.
Fairness ==
    /\ SF_vars(Start("reconcile", FALSE))
    /\ \A m \in Mode : WF_vars(Step(m))
    /\ WF_vars(Events)

FairSpec == Spec /\ Fairness

(***************************************************************************)
(* Properties.                                                             *)
(***************************************************************************)
TypeOK ==
    /\ remote \in Library /\ row \in Library
    /\ tomb \in [series : SUBSET Series, books : SUBSET Book, book : SUBSET Book]
    /\ state \in [Entity -> [status : Status, cursor : Cursor]]
    /\ task \in [Mode -> Task]
    /\ hint \in Hint \cup {NoHint}
    /\ news \subseteq [book : Book, gone : BOOLEAN]
    /\ linked \in BOOLEAN
    /\ clock \in 1 .. 1 + MaxChanges
    /\ spent \in [{"breaks", "hints"} -> Nat]
    /\ promised \subseteq Book

\* A sync never deletes a book the server still has.
NeverDeletesLive ==
    [][\A m \in Mode : task[m].stage = "prune" => (Kept(row) \ Kept(row')) \cap Kept(remote) = {}]_vars

\* It deletes a book the server has had all along only if the server removed
\* something meanwhile: an offset that moved is the only way past such a book.
\* Failures, restarts and resumed cursors never are.
OnlyShiftsMislead == \A m \in Mode : task[m].lost # {} => task[m].shifted

\* A sync that fails has not deleted a book the server still has.
FailedSyncKeepsLiveBooks ==
    [][\A m \in Mode :
        state' # state /\ state'[task[m].step].status = "error" /\ task'[m].stage = "idle"
        => task[m].lost \cap Kept(remote) = {}]_vars

Finishes(m) == task[m].stage = "complete" /\ task[m].step = "books" /\ task'[m].stage = "idle"
               /\ state' # state

Mirrored == row' = remote
NoLiveTombs == tomb'.series \cap row'.series = {} /\ (tomb'.books \cup tomb'.book) \cap Kept(row') = {}

\* A reconciliation that finishes while nothing else moved leaves the mirror
\* exactly as the server is, also after any number of interrupted syncs.
SweepIsFull == [][Finishes("reconcile") /\ task["reconcile"].calm => Mirrored]_vars

\* It does so when it started from the beginning, and no mirrored entity is then
\* on record as deleted, one that came back to the server either.
WholeSweepIsFull ==
    [][Finishes("reconcile") /\ task["reconcile"].calm /\ ~task["reconcile"].resumed
        => Mirrored /\ NoLiveTombs]_vars

\* The second half alone, for the instance with events.
ReturnedIsNotDeleted ==
    [][Finishes("reconcile") /\ task["reconcile"].calm /\ ~task["reconcile"].resumed => NoLiveTombs]_vars

\* A mirrored stamp is never replaced by an older one.
RowNeverGoesBack ==
    [][\A b \in Book : row'.books[b] # Absent => row'.books[b] >= row.books[b]]_vars

\* When the bootstrap reaches its end, over whatever interruptions, it has
\* mirrored every book that was there from its beginning and that no removal
\* can have moved past it.
BootstrapMirrorsAll == [][Finishes("bootstrap") => promised \subseteq Kept(row')]_vars

\* Deleting a server deletes its rows for good.
UnlinkedIsEmpty == ~linked => row = Nothing

\* Once the server rests, its mirror becomes and stays what the server has,
\* unless the user has deleted the server.
MirrorConverges == <>[](linked => row = remote)
=============================================================================
