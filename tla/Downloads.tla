------------------------------ MODULE Downloads -----------------------------
(***************************************************************************)
(* Offline downloads of one server: the queue in SQLite                    *)
(* (downloads/store.rs), the bounded pass that fetches pages               *)
(* (downloads/engine.rs, downloads/queue.rs), the sweep that reconciles    *)
(* rows and files (downloads/recover.rs), the tree of files, and the       *)
(* gestures of the user (ffi/application.rs).                              *)
(*                                                                         *)
(* A pass holds no connection while it waits for the server, and the other *)
(* calls run on threads of their own: between any two statements of the    *)
(* pass, the sweep and a gesture the others may come.                      *)
(*                                                                         *)
(* A file is told by the edition of the book it was fetched from.  Byte    *)
(* budgets, sizes, media types, counters, manifests, the link and the free *)
(* space are left out: they only decide whether and how far a pass runs,   *)
(* or are derived.  A file name per page stands for all its extensions.    *)
(*                                                                         *)
(* Operators marked FAULT are plausible slips of the operator that follows *)
(* them and are used by no action.                                         *)
(***************************************************************************)
EXTENDS Naturals, FiniteSets, Sequences, SequencesExt

CONSTANTS
    Books,          \* books the user may download
    NoBook,         \* none of them
    LastPage,       \* pages per book
    MaxAttempts,    \* bad answers a page survives (3 in the code)
    BadRun,         \* bad answers in a row that end a pass (3 in the code)
    PassPages,      \* pages per pass (4 in the code)
    Rough,          \* what may happen: a subset of Trouble
    MaxEdition,     \* bound: editions of a book on the server
    MaxTaps,        \* bound: gestures
    MaxFaults       \* bound: faults, bad answers and lasting refusals aside

\* Of the server: "bad" pages, "down" or throttled, "gone", "blocked" credentials,
\* a new "edition".  Of the device: a "write" or commit that fails, "damage" to a
\* file, a "crash", and a "tear", a crash between two statements that belong
\* together.  Of the threads: "race", anything comes between the two steps of a
\* gesture, and a page is taken back between those of a settling; "meddle", a
\* gesture beside a sweep; "list", a sweep beside a pass.  "lasting": a refusal of
\* the server or of the volume comes back as often as it likes.
Trouble == {"bad", "down", "gone", "blocked", "edition", "write", "damage", "crash", "tear",
            "race", "meddle", "list", "lasting"}

Page == 1 .. LastPage

ASSUME DownloadsAssumption ==
    /\ IsFiniteSet(Books) /\ NoBook \notin Books
    /\ {LastPage, MaxAttempts, BadRun, PassPages, MaxEdition} \subseteq Nat \ {0}
    /\ Rough \subseteq Trouble
    /\ {MaxTaps, MaxFaults} \subseteq Nat

VARIABLES
    line,       \* the queue in order of position: the books that have a row
    state,      \* their state, "none" without a row
    parked,     \* books whose next_retry_at lies ahead
    page,       \* download_pages: a row per book and page
    disk,       \* the files of the tree
    edition,    \* the server: the current edition of each book
    pass,       \* the pass under way
    sweep,      \* the sweep under way
    swept,      \* this process has swept
    hand,       \* the gesture under way
    spent,      \* bounds used up
    asked       \* history: the edition a book had when its job was created

vars == <<line, state, parked, page, disk, edition, pass, sweep, swept, hand, spent, asked>>

(***************************************************************************)
(* Rows and files.                                                         *)
(***************************************************************************)
BookState == {"waiting", "downloading", "paused", "completed", "failed"}
\* held: the row names a file.
Row == [state : {"pending", "complete", "failed"}, attempts : 0 .. MaxAttempts, held : BOOLEAN]
NoRow == [state |-> "none", attempts |-> 0, held |-> FALSE]
Pending == [state |-> "pending", attempts |-> 0, held |-> FALSE]

Gone == 0
Broken == MaxEdition + 1
Usable == 1 .. MaxEdition
File == Gone .. Broken

Landed(row) == [row EXCEPT !.state = "complete", !.held = TRUE]

Having(b, s) == {p \in Page : page[b][p].state = s}

Candidates(b) == {p \in Having(b, "pending") : page[b][p].attempts < MaxAttempts}

\* What its rows make of a book.
DerivedFromPages(b) ==
    IF Having(b, "complete") = Page THEN "completed"
    ELSE IF Having(b, "complete") \cup Having(b, "failed") = Page THEN "failed"
    ELSE "waiting"

\* A pause stays; only the sweep, which has read the disk, may take a completion
\* back.
Derived(b, sweeping) ==
    IF state[b] = "paused" \/ (state[b] = "completed" /\ ~sweeping) THEN state[b]
    ELSE DerivedFromPages(b)

\* The moves of the table the pass and the sweep may settle with.
SettleMoves == {<<"downloading", "waiting">>, <<"downloading", "completed">>, <<"downloading", "failed">>,
                <<"waiting", "completed">>, <<"waiting", "failed">>, <<"failed", "waiting">>,
                <<"failed", "completed">>, <<"completed", "waiting">>}

\* FAULT: the state is written whatever it has become meanwhile.
StateUnless(b, was, to) == IF b \in Range(line) THEN [state EXCEPT ![b] = to] ELSE state

\* set_state: UPDATE ... WHERE state = was.
StateIf(b, was, to) == IF state[b] = was THEN [state EXCEPT ![b] = to] ELSE state

(***************************************************************************)
(* A pass, a sweep, a gesture.                                             *)
(***************************************************************************)
\* at: what comes next; jobs: the pages yet to fetch; from: the reader's page when
\* it was planned; got: the edition that has arrived; bad: bad answers in a row;
\* late: another connection has committed since this one's transaction began; was
\* and due: what settling has read.
NoPass == [at |-> "idle", book |-> NoBook, jobs |-> {}, from |-> 1, got |-> Gone, served |-> FALSE, bad |-> 0,
           terminal |-> FALSE, late |-> FALSE, was |-> "none", due |-> "none"]

PassPoints == {"idle", "sweep", "plan", "claim", "fetch", "land", "write", "commit",
               "burn", "exhaust", "settle", "rest"}

\* left: the books yet to sweep; judged: pages of the first whose rows named a
\* file; calm: nothing else has moved since the sweep came to it.
NoSweep == [by |-> "none", left |-> <<>>, at |-> "rows", judged |-> {}, was |-> "none",
            due |-> "none", calm |-> TRUE]

NoHand == [kind |-> "none", book |-> NoBook, was |-> "none"]

Init ==
    /\ line = <<>>
    /\ state = [b \in Books |-> "none"]
    /\ parked = {}
    /\ page = [b \in Books |-> [p \in Page |-> NoRow]]
    /\ disk = [b \in Books |-> [p \in Page |-> Gone]]
    /\ edition = [b \in Books |-> 1]
    /\ pass = NoPass /\ sweep = NoSweep /\ swept = FALSE /\ hand = NoHand
    /\ spent = [taps |-> 0, faults |-> 0]
    /\ asked = [b \in Books |-> Gone]

\* A statement of someone else: an open transaction of the pass can no longer
\* become a writing one, and the sweep is no longer alone.
PassOvertaken == IF pass.at \in {"write", "commit"} THEN [pass EXCEPT !.late = TRUE] ELSE pass
SweepOvertaken == IF sweep.by = "none" THEN sweep ELSE [sweep EXCEPT !.calm = FALSE]

\* Between the two steps of a gesture others come only in a race.
MayCome == hand.kind = "none" \/ "race" \in Rough

\* Nor are pages taken back between what a settling reads and what it writes.
MayTakeBack == (pass.at # "rest" /\ sweep.at # "rest") \/ "race" \in Rough

PassAt(point) == pass.at = point /\ MayCome
SweepAt(point) == sweep.by # "none" /\ sweep.left # <<>> /\ sweep.at = point /\ MayCome

(***************************************************************************)
(* The pass.  One at a time: the slot of download_pump.                    *)
(***************************************************************************)
Resumable == {b \in Range(line) : state[b] \in {"waiting", "downloading"}}

\* The one that is first in line.
FirstOf(B) == line[Min({i \in DOMAIN line : line[i] \in B})]

\* The first pass of a process sweeps before it plans.
Pump ==
    /\ PassAt("idle") /\ Resumable # {}
    /\ sweep.by = "none" \/ (swept /\ "list" \in Rough)
    /\ \/ /\ swept /\ pass' = [NoPass EXCEPT !.at = "plan"] /\ UNCHANGED <<sweep, swept>>
       \/ /\ ~swept /\ swept' = TRUE
          /\ sweep' = [NoSweep EXCEPT !.by = "pass", !.left = line]
          /\ pass' = [NoPass EXCEPT !.at = "sweep"]
    /\ UNCHANGED <<line, state, parked, page, disk, edition, hand, spent, asked>>

\* From where the reader is to the end, then what lies behind.
Sooner(p, q, from) == IF p >= from THEN q < from \/ p < q ELSE q < from /\ p < q

\* As many of the candidates as one pass may take.
Jobs(b, from) ==
    {p \in Candidates(b) :
        Cardinality({q \in Candidates(b) : Sooner(q, p, from)}) < PassPages}

\* The page a pass is at.
Job ==
    LET ahead == {p \in pass.jobs : p >= pass.from} IN
    Min(IF ahead = {} THEN pass.jobs ELSE ahead)

ToFetch(jobs) == IF jobs = {} THEN "settle" ELSE "fetch"

\* The first book that may run; from is the reader's page, 1 without a reader.
Plan(from) ==
    /\ PassAt("plan")
    /\ LET ready == Resumable \ parked
           b == FirstOf(ready)
           jobs == Jobs(b, from) IN
       pass' = IF ready = {} THEN NoPass
               ELSE [pass EXCEPT !.book = b, !.jobs = jobs, !.from = from,
                                 !.at = IF state[b] = "waiting" THEN "claim" ELSE ToFetch(jobs)]
    /\ UNCHANGED <<line, state, parked, page, disk, edition, sweep, swept, hand, spent, asked>>

\* A book that was paused or deleted meanwhile is not claimed.
Claim ==
    /\ PassAt("claim")
    /\ state' = StateIf(pass.book, "waiting", "downloading")
    /\ pass' = IF state[pass.book] = "waiting" THEN [pass EXCEPT !.at = ToFetch(pass.jobs)] ELSE NoPass
    /\ sweep' = SweepOvertaken
    /\ UNCHANGED <<line, parked, page, disk, edition, swept, hand, spent, asked>>

\* The wall clock has run out, and a page has been served.
Elapse ==
    /\ PassAt("fetch") /\ pass.served
    /\ pass' = [pass EXCEPT !.at = "settle"]
    /\ UNCHANGED <<line, state, parked, page, disk, edition, sweep, swept, hand, spent, asked>>

Answer ==
    /\ PassAt("fetch")
    /\ pass' = [pass EXCEPT !.at = "land", !.got = edition[pass.book]]
    /\ UNCHANGED <<line, state, parked, page, disk, edition, sweep, swept, hand, spent, asked>>

\* A page that arrived damaged, or an error about this page.
BadAnswer ==
    /\ PassAt("fetch") /\ "bad" \in Rough
    /\ pass' = [pass EXCEPT !.at = "burn"]
    /\ UNCHANGED <<line, state, parked, page, disk, edition, sweep, swept, hand, spent, asked>>

Fault(what) ==
    /\ what \in Rough /\ spent.faults < MaxFaults
    /\ spent' = [spent EXCEPT !.faults = @ + 1]

Refused(what) == Fault(what) \/ ({what, "lasting"} \subseteq Rough /\ UNCHANGED spent)

\* Not about this page: nothing is written for it and the pass ends.
Halt(what) ==
    /\ PassAt("fetch") /\ Refused(what)
    /\ pass' = [pass EXCEPT !.at = "settle", !.terminal = what = "gone"]
    /\ parked' = IF what = "blocked" THEN parked \cup Resumable ELSE parked
    /\ sweep' = IF what = "blocked" THEN SweepOvertaken ELSE sweep
    /\ UNCHANGED <<line, state, page, disk, edition, swept, hand, asked>>

\* FAULT: the state of the book is not looked at again.
MayLandBlindly(b) == b \in Range(line)

\* A pause or a deletion is noticed when the transaction of the next page opens.
MayLand(b) == state[b] = "downloading"

OpenLanding ==
    /\ PassAt("land")
    /\ pass' = [pass EXCEPT !.at = IF MayLand(pass.book) THEN "write" ELSE "settle", !.late = FALSE]
    /\ UNCHANGED <<line, state, parked, page, disk, edition, sweep, swept, hand, spent, asked>>

\* The file is staged, renamed and read back while the transaction is open.
WriteFile ==
    /\ PassAt("write")
    /\ disk' = [disk EXCEPT ![pass.book][Job] = pass.got]
    /\ pass' = [pass EXCEPT !.at = "commit"]
    /\ sweep' = SweepOvertaken
    /\ UNCHANGED <<line, state, parked, page, edition, swept, hand, spent, asked>>

\* The volume refuses, or a sweep took the staging file away.  Either ends the
\* pass and nothing more: what settling makes of the book's rows is its state.
WriteFails ==
    /\ PassAt("write")
    /\ \/ Refused("write")
       \/ sweep.by = "list" /\ sweep.at = "files" /\ UNCHANGED spent
    /\ pass' = [pass EXCEPT !.at = "settle"]
    /\ UNCHANGED <<line, state, parked, page, disk, edition, sweep, swept, hand, asked>>

NextPage ==
    LET jobs == pass.jobs \ {Job} IN
    [pass EXCEPT !.jobs = jobs, !.at = ToFetch(jobs), !.got = Gone]

\* A reading transaction becomes a writing one only on the newest snapshot.
Commits == ~pass.late

CommitRow ==
    /\ PassAt("commit") /\ Commits
    /\ page' = [page EXCEPT ![pass.book][Job] = Landed(@)]
    /\ pass' = [NextPage EXCEPT !.served = TRUE, !.bad = 0]
    /\ sweep' = SweepOvertaken
    /\ UNCHANGED <<line, state, parked, disk, edition, swept, hand, spent, asked>>

\* The bytes have landed and their row is lost.
CommitFails ==
    /\ PassAt("commit")
    /\ \/ ~Commits /\ UNCHANGED spent
       \/ Refused("write")
    /\ pass' = [pass EXCEPT !.at = "settle", !.late = FALSE]
    /\ UNCHANGED <<line, state, parked, page, disk, edition, sweep, swept, hand, asked>>

\* record_page_attempt, first statement.  A row that is gone is an error of the
\* pass itself: it ends and settles nothing.
Burn ==
    /\ PassAt("burn")
    /\ LET b == pass.book
           p == Job IN
       \/ /\ page[b][p].state # "none"
          /\ page' = [page EXCEPT ![b][p].attempts = @ + 1]
          /\ pass' = [pass EXCEPT !.at = "exhaust"]
       \/ /\ page[b][p].state = "none"
          /\ pass' = NoPass /\ UNCHANGED page
    /\ sweep' = SweepOvertaken
    /\ UNCHANGED <<line, state, parked, disk, edition, swept, hand, spent, asked>>

\* FAULT: the last attempt is one too many.
SpentTooLate(row) == row.attempts > MaxAttempts

Spent(row) == row.attempts >= MaxAttempts

\* Its second and third: at the limit the page has failed.
Exhaust ==
    /\ PassAt("exhaust")
    /\ LET b == pass.book
           p == Job IN
       \/ /\ page[b][p].state # "none"
          /\ page' = IF Spent(page[b][p]) THEN [page EXCEPT ![b][p].state = "failed"] ELSE page
          /\ pass' = IF pass.bad + 1 >= BadRun THEN [pass EXCEPT !.at = "settle", !.bad = 0]
                     ELSE [NextPage EXCEPT !.bad = @ + 1]
       \/ /\ page[b][p].state = "none"
          /\ pass' = NoPass /\ UNCHANGED page
    /\ sweep' = SweepOvertaken
    /\ UNCHANGED <<line, state, parked, disk, edition, swept, hand, spent, asked>>

\* settle: a terminal end is one optimistic statement; otherwise the state and
\* the rows are read, and what they amount to is written if the state still stands.
Settle ==
    /\ PassAt("settle")
    /\ LET b == pass.book IN
       \/ /\ pass.terminal
          /\ state' = IF state[b] \in {"downloading", "waiting"} THEN [state EXCEPT ![b] = "failed"] ELSE state
          /\ pass' = NoPass
          /\ sweep' = SweepOvertaken
       \/ /\ ~pass.terminal
          /\ pass' = IF state[b] = "none" THEN NoPass
                     ELSE [pass EXCEPT !.at = "rest", !.was = state[b], !.due = Derived(b, FALSE)]
          /\ UNCHANGED <<state, sweep>>
    /\ UNCHANGED <<line, parked, page, disk, edition, swept, hand, spent, asked>>

Rest ==
    /\ PassAt("rest")
    /\ state' = StateIf(pass.book, pass.was, pass.due)
    /\ pass' = NoPass
    /\ sweep' = SweepOvertaken
    /\ UNCHANGED <<line, parked, page, disk, edition, swept, hand, spent, asked>>

(***************************************************************************)
(* The sweep.                                                              *)
(***************************************************************************)
\* download_list sweeps once per process, the storage screen at will; one sweep
\* at a time is modelled.
StartSweep ==
    /\ MayCome /\ sweep.by = "none" /\ (pass.at = "idle" \/ "list" \in Rough)
    /\ \/ ~swept /\ swept' = TRUE /\ UNCHANGED spent
       \/ swept /\ swept' = FALSE /\ spent.taps < MaxTaps /\ spent' = [spent EXCEPT !.taps = @ + 1]
    /\ sweep' = [NoSweep EXCEPT !.by = "list", !.left = line]
    /\ UNCHANGED <<line, state, parked, page, disk, edition, pass, hand, asked>>

Whole(b, p) == disk[b][p] \in Usable

\* A complete row whose file is gone or broken goes back; a file under any
\* other row is debris.
SweepRows ==
    /\ SweepAt("rows")
    /\ LET b == Head(sweep.left)
           ghost == {p \in Having(b, "complete") : ~Whole(b, p)}
           debris == {p \in Page : page[b][p].held /\ page[b][p].state # "complete"} IN
       /\ page' = [page EXCEPT ![b] = [p \in Page |-> IF p \in ghost THEN Pending ELSE @[p]]]
       /\ disk' = [disk EXCEPT ![b] = [p \in Page |-> IF p \in ghost \cup debris THEN Gone ELSE @[p]]]
       /\ sweep' = [sweep EXCEPT !.at = "files", !.judged = {p \in Page : page[b][p].held}, !.calm = TRUE]
    /\ pass' = PassOvertaken
    /\ UNCHANGED <<line, state, parked, edition, swept, hand, spent, asked>>

\* FAULT: a file nobody accounts for is waste.
AdoptedNot(b, judged) == {}

\* A usable file without a row that names it has lost its row: it is adopted.
Adopted(b, judged) == {p \in Page \ judged : Whole(b, p)}

SweepFiles ==
    /\ SweepAt("files")
    /\ LET b == Head(sweep.left)
           mine == Adopted(b, sweep.judged) IN
       /\ page' = [page EXCEPT ![b] = [p \in Page |-> IF p \in mine THEN Landed(@[p]) ELSE @[p]]]
       /\ disk' = [disk EXCEPT ![b] = [p \in Page |-> IF p \notin sweep.judged \cup mine THEN Gone ELSE @[p]]]
    /\ sweep' = [sweep EXCEPT !.at = "settle"]
    /\ pass' = PassOvertaken
    /\ UNCHANGED <<line, state, parked, edition, swept, hand, spent, asked>>

\* A pass that waited for its sweep goes on, however the sweep ended.
SweepEnds ==
    /\ sweep' = NoSweep
    /\ pass' = IF pass.at = "sweep" THEN [pass EXCEPT !.at = "plan"] ELSE PassOvertaken

\* FAULT: the sweep takes no completion back.
SweepDerivedAsPass(b) == Derived(b, FALSE)

SweepDerived(b) == Derived(b, TRUE)

\* A book that was deleted meanwhile, or a move the table has not, is an error
\* of the sweep itself: the books left are not swept.
SweepSettle ==
    /\ SweepAt("settle")
    /\ LET b == Head(sweep.left)
           due == SweepDerived(b) IN
       IF state[b] # "none" /\ (due = state[b] \/ <<state[b], due>> \in SettleMoves)
       THEN /\ sweep' = [sweep EXCEPT !.at = "rest", !.was = state[b], !.due = due]
            /\ pass' = PassOvertaken
       ELSE SweepEnds
    /\ UNCHANGED <<line, state, parked, page, disk, edition, swept, hand, spent, asked>>

SweepRest ==
    /\ SweepAt("rest")
    /\ state' = StateIf(Head(sweep.left), sweep.was, sweep.due)
    /\ sweep' = [NoSweep EXCEPT !.by = sweep.by, !.left = Tail(sweep.left)]
    /\ pass' = PassOvertaken
    /\ UNCHANGED <<line, parked, page, disk, edition, swept, hand, spent, asked>>

SweepOver ==
    /\ sweep.by # "none" /\ sweep.left = <<>> /\ MayCome
    /\ SweepEnds
    /\ UNCHANGED <<line, state, parked, page, disk, edition, swept, hand, spent, asked>>

(***************************************************************************)
(* The user.  One gesture at a time; each is two steps, what it reads or   *)
(* does first and what it writes then.                                     *)
(***************************************************************************)
Tap(kind, b) ==
    /\ hand.kind = "none" /\ spent.taps < MaxTaps
    /\ sweep.by = "none" \/ "meddle" \in Rough
    /\ spent' = [spent EXCEPT !.taps = @ + 1]
    /\ hand' = [kind |-> kind, book |-> b, was |-> state[b]]

TapOnly(kind, b) ==
    /\ Tap(kind, b)
    /\ UNCHANGED <<line, state, parked, page, disk, edition, pass, sweep, swept, asked>>

Release ==
    /\ hand' = NoHand
    /\ pass' = PassOvertaken /\ sweep' = SweepOvertaken

\* What the table lets the user put back in the queue: anything a pass does not hold.
MayQueue(b) == state[b] \notin {"none", "downloading"}

TapEnqueue(b) == MayTakeBack /\ (state[b] = "none" \/ MayQueue(b)) /\ TapOnly("enqueue", b)

FreshRows(b) == [p \in Page |-> Pending]

\* One transaction, which does not look at the state again.  A row that exists
\* keeps its position.
Enqueue ==
    /\ hand.kind = "enqueue"
    /\ LET b == hand.book IN
       /\ line' = IF b \in Range(line) THEN line ELSE Append(line, b)
       /\ state' = [state EXCEPT ![b] = "waiting"]
       /\ parked' = parked \ {b}
       /\ page' = [page EXCEPT ![b] = FreshRows(b)]
       /\ asked' = [asked EXCEPT ![b] = edition[b]]
    /\ Release
    /\ UNCHANGED <<disk, edition, swept, spent>>

TapPause(b) == state[b] \in {"waiting", "downloading"} /\ TapOnly("pause", b)
TapResume(b) == MayQueue(b) /\ TapOnly("resume", b)

\* user_set: optimistic as well, and silent when the state has moved.
UserSet ==
    /\ hand.kind \in {"pause", "resume"}
    /\ state' = StateIf(hand.book, hand.was, IF hand.kind = "pause" THEN "paused" ELSE "waiting")
    /\ Release
    /\ UNCHANGED <<line, parked, page, disk, edition, swept, spent, asked>>

\* Retry puts the failed pages back, then a failed book, and clears the parks.
TapRetry(b) ==
    /\ state[b] # "none" /\ Tap("retry", b)
    /\ page' = [page EXCEPT ![b] = [p \in Page |->
                   IF @[p].state = "failed" THEN [Pending EXCEPT !.held = page[b][p].held] ELSE @[p]]]
    /\ pass' = PassOvertaken /\ sweep' = SweepOvertaken
    /\ UNCHANGED <<line, state, parked, disk, edition, swept, asked>>

Retry ==
    /\ hand.kind = "retry"
    /\ state' = StateIf(hand.book, "failed", "waiting")
    /\ parked' = {}
    /\ Release
    /\ UNCHANGED <<line, page, disk, edition, swept, spent, asked>>

RowsAfterDeleting(b) == [p \in Page |-> NoRow]

\* Delete: the rows first, the files after.
TapDelete(b) ==
    /\ state[b] # "none" /\ Tap("delete", b)
    /\ line' = RemoveFirst(line, b)
    /\ state' = [state EXCEPT ![b] = "none"]
    /\ parked' = parked \ {b}
    /\ page' = [page EXCEPT ![b] = RowsAfterDeleting(b)]
    /\ pass' = PassOvertaken /\ sweep' = SweepOvertaken
    /\ UNCHANGED <<disk, edition, swept, asked>>

RemoveTree ==
    /\ hand.kind = "delete"
    /\ disk' = [disk EXCEPT ![hand.book] = [p \in Page |-> Gone]]
    /\ hand' = NoHand
    /\ sweep' = SweepOvertaken
    /\ UNCHANGED <<line, state, parked, page, edition, pass, swept, spent, asked>>

\* usable_page: the reader looks at a downloaded page and finds it is not one.
ReaderHeals(b, p) ==
    /\ MayCome /\ MayTakeBack /\ page[b][p].state = "complete" /\ ~Whole(b, p)
    /\ page' = [page EXCEPT ![b][p] = Pending]
    /\ disk' = [disk EXCEPT ![b][p] = Gone]
    /\ pass' = PassOvertaken /\ sweep' = SweepOvertaken
    /\ UNCHANGED <<line, state, parked, edition, swept, hand, spent, asked>>

(***************************************************************************)
(* The world.                                                              *)
(***************************************************************************)
Publish(b) ==
    /\ MayCome /\ "edition" \in Rough /\ edition[b] < MaxEdition
    /\ edition' = [edition EXCEPT ![b] = @ + 1]
    /\ UNCHANGED <<line, state, parked, page, disk, pass, sweep, swept, hand, spent, asked>>

Damage(b, p, to) ==
    /\ MayCome /\ Whole(b, p) /\ Fault("damage")
    /\ disk' = [disk EXCEPT ![b][p] = to]
    /\ sweep' = SweepOvertaken
    /\ UNCHANGED <<line, state, parked, page, edition, pass, swept, hand, asked>>

\* The time of next_retry_at has come.
Expire(b) ==
    /\ MayCome /\ b \in parked
    /\ parked' = parked \ {b}
    /\ UNCHANGED <<line, state, page, disk, edition, pass, sweep, swept, hand, spent, asked>>

\* The process ends; only the database and the tree stay.
Crash ==
    /\ Fault("crash")
    /\ pass.at = "exhaust" => "tear" \in Rough
    /\ pass # NoPass \/ sweep # NoSweep \/ hand # NoHand \/ swept
    /\ pass' = NoPass /\ sweep' = NoSweep /\ swept' = FALSE /\ hand' = NoHand
    /\ UNCHANGED <<line, state, parked, page, disk, edition, asked>>

PassStep ==
    \/ \E from \in Page : Plan(from)
    \/ Claim \/ Answer \/ OpenLanding \/ WriteFile \/ CommitRow \/ CommitFails
    \/ Burn \/ Exhaust \/ Settle \/ Rest

SweepStep == SweepRows \/ SweepFiles \/ SweepSettle \/ SweepRest \/ SweepOver

HandStep == Enqueue \/ UserSet \/ Retry \/ RemoveTree

Trials == BadAnswer \/ WriteFails \/ \E what \in {"down", "gone", "blocked"} : Halt(what)

Gestures == \E b \in Books : TapEnqueue(b) \/ TapPause(b) \/ TapResume(b) \/ TapRetry(b) \/ TapDelete(b)

World ==
    \/ \E b \in Books, p \in Page : ReaderHeals(b, p) \/ \E to \in {Gone, Broken} : Damage(b, p, to)
    \/ \E b \in Books : Publish(b) \/ Expire(b)

Next == Pump \/ PassStep \/ Elapse \/ Trials \/ StartSweep \/ SweepStep \/ Gestures \/ HandStep \/ World \/ Crash

Spec == Init /\ [][Next]_vars

\* The ticker keeps pumping while the app is in front, every request is answered
\* or fails, every call runs to its end, time passes.
Fairness ==
    /\ WF_vars(Pump) /\ WF_vars(PassStep) /\ WF_vars(SweepStep)
    /\ WF_vars(HandStep)
    /\ \A b \in Books : WF_vars(Expire(b))

FairSpec == Spec /\ Fairness

(***************************************************************************)
(* Properties.                                                             *)
(***************************************************************************)
TypeOK ==
    /\ line \in Seq(Books) /\ Len(line) <= Cardinality(Books)
    /\ state \in [Books -> BookState \cup {"none"}]
    /\ \A b \in Books : state[b] # "none" <=> b \in Range(line)
    /\ parked \subseteq Range(line)
    /\ page \in [Books -> [Page -> Row \cup {NoRow}]]
    /\ disk \in [Books -> [Page -> File]]
    /\ edition \in [Books -> Usable]
    /\ pass.at \in PassPoints /\ pass.book \in Books \cup {NoBook} /\ pass.jobs \subseteq Page
    /\ sweep.by \in {"none", "pass", "list"} /\ sweep.left \in Seq(Books)
    /\ swept \in BOOLEAN
    /\ hand.kind \in {"none", "enqueue", "pause", "resume", "retry", "delete"}
    /\ spent.taps \in 0 .. MaxTaps /\ spent.faults \in 0 .. MaxFaults
    /\ asked \in [Books -> 0 .. MaxEdition]

\* Rows and states move as the table both platforms share lets them.
Table == INSTANCE DownloadTable WITH
    page <- [b \in Books |-> [p \in Page |-> page[b][p].state]]

KeepsToTheTable == Table!Spec

\* No gesture of the user is under way or ends in this step.
Untouched == hand' = hand

\* A pause is the user's: the program does not end it, and only a sweep, which
\* adopts what has landed, adds a page to it.
PauseHolds ==
    [][\A b \in Books : state[b] = "paused" /\ Untouched =>
        /\ state'[b] = "paused"
        /\ sweep.by = "none" => \A p \in Having(b, "complete")' : page[b][p].state = "complete"]_vars

\* What was fetched is not lost: a whole file that is a page of a download stays
\* one, and one whose row was lost stays in the tree, until the user deletes the
\* download or starts it over, or the device damages the file.
DownloadsAreKept ==
    [][\A b \in Books, p \in Page :
        Whole(b, p) /\ state[b] # "none" /\ spent' = spent /\ Untouched =>
        /\ page[b][p].state = "complete" => page'[b][p].state = "complete" /\ disk'[b][p] = disk[b][p]
        /\ page[b][p].state = "pending" /\ ~page[b][p].held => disk'[b][p] \in Usable]_vars

\* A page counts as downloaded only in the edition its job was created for, or a
\* newer one.
FreshJob ==
    \A b \in Books, p \in Page :
        page[b][p].state = "complete" /\ Whole(b, p) => disk[b][p] >= asked[b]

\* A page the queue still wants is one a pass may take.
NothingStranded ==
    \A b \in Books, p \in Page :
        page[b][p].state = "pending" /\ page[b][p].attempts >= MaxAttempts => pass.at = "exhaust"

\* A sweep that nobody disturbed leaves a book whose rows and files agree.
Agrees(b) ==
    /\ \A p \in Page : page'[b][p].state = "complete" <=> disk'[b][p] \in Usable
    /\ \A p \in Page : disk'[b][p] # Broken
    /\ state'[b] = "completed" <=> (state[b] # "paused" /\ \A p \in Page : disk'[b][p] \in Usable)

SweepReconciles ==
    [][sweep.by # "none" /\ sweep.at = "rest" /\ sweep'.at = "rows" /\ sweep.calm /\ Untouched
       /\ spent' = spent => Agrees(Head(sweep.left))]_vars

\* Every file of the tree belongs to a download, or to one being deleted.
TreeIsOwned ==
    \A b \in Books, p \in Page : disk[b][p] # Gone => state[b] # "none" \/ hand.kind = "delete"

\* After a pause a pass asks for no further page: the pause costs at most the one
\* in flight.
OneInFlight ==
    [][pass.at # "fetch" /\ pass'.at = "fetch" => state'[pass.book] = "downloading" \/ pass.at = "plan"]_vars

\* The server is out of reach or refuses, or the volume refuses a write or its commit.
Refusal ==
    \/ WriteFails
    \/ Commits /\ CommitFails
    \/ \E what \in {"down", "blocked"} : Halt(what)

\* Every book in the queue comes to rest: it is complete, it has failed, or the
\* user has paused or deleted it.  Unless passes are refused for ever: a refusal
\* costs no attempt and puts the book back in the queue.
EveryBookComesToRest ==
    \/ []<><<Refusal>>_vars
    \/ \A b \in Books : state[b] \in {"waiting", "downloading"} ~> state[b] \notin {"waiting", "downloading"}

\* A write the volume refuses ends the book, and is not asked for again.
RefusedWriteEndsTheBook ==
    [][WriteFails /\ sweep.by = "none" => pass'.terminal]_vars
=============================================================================
