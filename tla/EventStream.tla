----------------------------- MODULE EventStream -----------------------------
(***************************************************************************)
(* The event stream of one server: the session state machine               *)
(* (sync/sse.rs), the poll that carries it over the FFI and parks the      *)
(* socket between polls (ffi/application.rs), and the Dart controller that *)
(* calls it on a timer (app/lib/src/live_sync.dart) and runs the sweeps it *)
(* asks for (series_grid.dart).                                            *)
(*                                                                         *)
(* An event is a hint.  It carries no data: the book it names is fetched   *)
(* again, or the whole mirror is swept.  So the module keeps no content,   *)
(* only which books the mirror is behind on, and asks whether the client   *)
(* still has a reason to look at each of them.                             *)
(*                                                                         *)
(* A poll claims the socket, reads the stream or waits for a handshake,    *)
(* and then applies the hints one await at a time; the controller keeps    *)
(* the session the poll answered only at the end of its own tick, after    *)
(* the sweep.  The app's lifecycle, other sweeps and the server go on      *)
(* between these steps.                                                    *)
(*                                                                         *)
(* Operators marked FAULT are plausible slips of the operator that follows *)
(* them and are used by no action.                                         *)
(***************************************************************************)
EXTENDS Naturals, Sequences, FiniteSets, FiniteSetsExt

CONSTANTS
    Book,           \* books of the one server
    Rough,          \* what may go wrong: a subset of Trouble
    MaxPerPoll,     \* events one poll reads (64 in the code)
    MaxIdleTicks,   \* silent polls a parked stream survives (20 in the code)
    MaxChanges,     \* bound: changes on the server in a behaviour
    MaxCuts,        \* bound: streams and handshakes the network breaks
    MaxRuns         \* bound: sweeps others run, and returns to the foreground

\* "cut": the stream ends or a handshake fails; "refuse": a handshake answers
\* with something that is no event stream; "refetch": a book cannot be fetched;
\* "store": the database cannot be opened; "sweep": a sweep fails half way;
\* "others": other triggers run sweeps; "background": the app leaves the
\* foreground; "dispose": the screen goes away; "quiet": heartbeats are told
\* apart from silence.
Trouble == {"cut", "refuse", "refetch", "store", "sweep", "others", "background",
            "dispose", "quiet"}

ASSUME EventStreamAssumption ==
    /\ IsFiniteSet(Book)
    /\ Rough \subseteq Trouble
    /\ {MaxPerPoll, MaxIdleTicks} \subseteq Nat \ {0}
    /\ {MaxChanges, MaxCuts, MaxRuns} \subseteq Nat

\* What an event says, as classify sorts it: one book changed, one book is gone,
\* or anything broader, which only a sweep can settle.
Event == [kind : {"book", "deleted", "wide"}, book : Book]

Phase == {"disconnected", "reconciling", "connected", "reconcile-only"}

\* SseSession.  failed: attempts > 0.  resting: next_attempt_at is in the
\* future.  owes: reconcile_required.  The buffer of held-back events is left
\* out: a session that is reconciling is never read, so it stays empty.
Session == [phase : Phase, failed : BOOLEAN, resting : BOOLEAN, owes : BOOLEAN]

Fresh == [phase |-> "disconnected", failed |-> FALSE, resting |-> FALSE, owes |-> FALSE]

VARIABLES
    behind,     \* books whose mirror row is not what the server has
    gone,       \* books the server has deleted
    wire,       \* the stream the LiveSource holds: "none", "open", "cut"
    line,       \* events on it that no poll has read
    socket,     \* SSE_SOCKETS: "none", "ready" or "polling"
    idle,       \* silent polls counted beside the parked socket
    saved,      \* the controller's _state
    tick,       \* the tick under way (_busy)
    asked,      \* a resume waiting for its answer, and the session it was given
    app,        \* "running", "stopped", "disposed"
    other,      \* books a sweep run by another trigger has yet to visit
    syncing,    \* some sweep is running (_syncing)
    spent,      \* bounds used up
    \* History, read by properties and by no action:
    unheard,    \* books that changed while no stream had been promised
    heard,      \* the controller has held a connected session
    gap,        \* "open" since a stream was opened again, "unpaid" once a sweep
                \* was asked for and failed or was passed over, else "none"
    beat,       \* a frame, heartbeats included, arrived since the last poll
    silent      \* the last poll found an open stream and no new frame on it

wires == <<wire, line, socket, idle>>
loops == <<saved, tick, asked, app>>
sweeps == <<other, syncing>>
history == <<unheard, heard, gap, beat, silent>>
vars == <<behind, gone, wires, loops, sweeps, spent, history>>

\* The tick of live_sync.dart and the poll inside it.
NoTick == [stage |-> "none"]
TickOf(session, action, books, removed, wide) ==
    [stage |-> "apply", valid |-> TRUE, session |-> session, action |-> action,
     books |-> books, removed |-> removed, wide |-> wide,
     hints |-> books \cup removed, left |-> {}]

\* One resume at a time is under way (a bound: the code sets none).
NoResume == [under |-> FALSE]
ResumeOf(session) == [under |-> TRUE, valid |-> TRUE, session |-> session]

Tick == [stage : {"open", "apply", "sweep", "release"}, valid : BOOLEAN, session : Session,
         action : {"idle", "reconcile", "applied", "backing-off", "reconcile-only"},
         books : SUBSET Book, removed : SUBSET Book, wide : BOOLEAN, hints : SUBSET Book,
     left : SUBSET Book]
Resume == [under : {TRUE}, valid : BOOLEAN, session : Session]

Init ==
    /\ behind = {} /\ gone = {}
    /\ wire = "none" /\ line = <<>> /\ socket = "none" /\ idle = 0
    /\ saved = Fresh /\ tick = NoTick /\ asked = NoResume /\ app = "running"
    /\ other = {} /\ syncing = FALSE
    /\ spent = [changes |-> 0, cuts |-> 0, runs |-> 0, leaks |-> 0]
    /\ unheard = {} /\ heard = FALSE /\ gap = "none" /\ beat = FALSE /\ silent = FALSE

Spend(what, bound) ==
    /\ spent[what] < bound
    /\ spent' = [spent EXCEPT ![what] = @ + 1]

(***************************************************************************)
(* The session.                                                            *)
(***************************************************************************)
\* FAULT: a reconnection is trusted like a first connection.
NoteConnectedTrusting(s) ==
    [phase |-> "connected", failed |-> FALSE, resting |-> FALSE, owes |-> FALSE]

\* note_connected: only a first connection is trusted at once.
NoteConnected(s) ==
    LET again == s.failed \/ s.owes
    IN  [phase |-> IF again THEN "reconciling" ELSE "connected",
         failed |-> FALSE, resting |-> FALSE, owes |-> again]

\* FAULT: the lost stream leaves no debt.
NoteDisconnectedForgetting(s) ==
    [phase |-> "disconnected", failed |-> FALSE, resting |-> TRUE, owes |-> FALSE]

\* note_disconnected, penalised: losing a live stream leaves a sweep owed.
NoteDisconnected(s) ==
    [phase |-> "disconnected", failed |-> TRUE, resting |-> TRUE,
     owes |-> s.owes \/ s.phase \in {"connected", "reconciling"}]

\* into_reconcile_only, and the sweep advance_stream adds to it.
ParkedFor(s) == [s EXCEPT !.phase = "reconcile-only", !.resting = FALSE, !.owes = TRUE]

\* resume: due now, the debt kept.
Resumed(s) ==
    IF s.phase = "reconcile-only" THEN s
    ELSE [s EXCEPT !.failed = FALSE, !.resting = FALSE]

\* reconcile_done.
ReconcileDone(s) == [s EXCEPT !.owes = FALSE, !.phase = "connected"]

Due(s) == s.phase = "disconnected" /\ ~s.resting

(***************************************************************************)
(* The server and the network.                                             *)
(***************************************************************************)
\* The session the next poll will be given, as things stand.
Coming == IF tick.stage # "none" /\ tick.valid THEN tick.session ELSE saved

\* No stream has been promised: what changes now may be missed by design, until
\* some sweep comes along.
Unpromised ==
    Coming.phase = "reconcile-only" \/ (saved.phase = "disconnected" /\ ~saved.owes)

\* A book changes, and an event is put on the stream if there is one.
Change(b, kind) ==
    /\ b \notin gone
    /\ Spend("changes", MaxChanges)
    /\ behind' = behind \cup {b}
    /\ gone' = IF kind = "deleted" THEN gone \cup {b} ELSE gone
    /\ unheard' = IF Unpromised THEN unheard \cup {b} ELSE unheard
    /\ line' = IF wire = "open" THEN Append(line, [kind |-> kind, book |-> b]) ELSE line
    /\ beat' = (beat \/ (wire = "open" /\ "quiet" \in Rough))
    /\ UNCHANGED <<wire, socket, idle, loops, sweeps, heard, gap, silent>>

\* A heartbeat: a comment frame, which the parser counts and nobody is told of.
Heartbeat ==
    /\ "quiet" \in Rough
    /\ wire = "open"
    /\ beat' = TRUE
    /\ UNCHANGED <<behind, gone, wires, loops, sweeps, spent, unheard, heard, gap, silent>>

\* The stream ends; what was already sent can still be read.
Cut ==
    /\ "cut" \in Rough
    /\ wire = "open"
    /\ Spend("cuts", MaxCuts)
    /\ wire' = "cut"
    /\ UNCHANGED <<behind, gone, line, socket, idle, loops, sweeps, history>>

\* The clock passes every next_attempt_at there is.
Awake(s) == [s EXCEPT !.resting = FALSE]

BackoffElapses ==
    /\ saved.resting
    /\ saved' = Awake(saved)
    /\ tick' = IF tick.stage = "none" THEN tick ELSE [tick EXCEPT !.session = Awake(@)]
    /\ UNCHANGED <<behind, gone, wires, asked, app, sweeps, spent, history>>

(***************************************************************************)
(* The poll.                                                               *)
(***************************************************************************)
\* claim_socket: a parked stream, or a LiveSource that holds none.
Claimed == IF socket = "ready" THEN wire ELSE "none"
ClaimedLine == IF socket = "ready" THEN line ELSE <<>>

\* The events read_available takes off the stream, and whether it ended by
\* finding nothing more.  Any other end closes the stream.
Taken == SubSeq(ClaimedLine, 1, Min({MaxPerPoll, Len(ClaimedLine)}))
Drained == Claimed = "open" /\ Len(ClaimedLine) < MaxPerPoll

Said(kind, events) == {e.book : e \in {events[i] : i \in {j \in DOMAIN events : events[j].kind = kind}}}

\* DirtySet::merge.  Nothing follows the deletion of a book.
Removed(events) == Said("deleted", events)
Books(events) == Said("book", events) \ Removed(events)
NeedsSweep(events) == Said("wide", events) # {}

\* Bookkeeping of the history: what the wire has said since the last poll.
Listen ==
    /\ silent' = ("quiet" \in Rough /\ Claimed = "open" /\ ~beat)
    /\ beat' = FALSE

\* advance_stream on a connected session: read what is there.
Read(s) ==
    /\ s.phase = "connected"
    /\ LET events == Taken
           now == IF Drained THEN s ELSE NoteDisconnected(s)
           action == CASE ~Drained -> "backing-off"
                       [] Drained /\ events # <<>> -> "applied"
                       [] OTHER -> "idle"
       IN  /\ tick' = TickOf(now, action, Books(events), Removed(events), NeedsSweep(events))
           /\ wire' = IF Drained THEN "open" ELSE "none"
           /\ line' = IF Drained THEN SubSeq(ClaimedLine, Len(events) + 1, Len(ClaimedLine)) ELSE <<>>
           /\ UNCHANGED <<gap, spent>>

\* pump before its next attempt is due.
Wait(s) ==
    /\ s.phase = "disconnected" /\ ~Due(s)
    /\ tick' = TickOf(s, "idle", {}, {}, FALSE)
    /\ wire' = Claimed /\ line' = ClaimedLine
    /\ UNCHANGED <<gap, spent>>

\* pump, once its next attempt is due: source.open is awaited.
Reach(s) ==
    /\ Due(s)
    /\ tick' = [TickOf(s, "idle", {}, {}, FALSE) EXCEPT !.stage = "open"]
    /\ wire' = Claimed /\ line' = ClaimedLine
    /\ UNCHANGED <<gap, spent>>

\* tick, up to the point where the poll has read the stream and starts on the
\* hints.  A session that arrived here reconciling or reconcile-only would be
\* handed back as it is; the controller never keeps one.
Poll(s) ==
    /\ tick.stage = "none"
    /\ app # "disposed"
    /\ socket # "polling"
    /\ socket' = "polling"
    /\ Listen
    /\ Read(s) \/ Wait(s) \/ Reach(s)

TickBegins ==
    /\ app = "running"
    /\ Poll(saved)
    /\ UNCHANGED <<behind, gone, idle, saved, asked, app, sweeps, unheard, heard>>

\* pump: the three outcomes of the handshake.  Nothing bounds the wait for one:
\* connect's request has no timeout and open adds none.
Answered(session, action) == [tick EXCEPT !.stage = "apply", !.session = session, !.action = action]

\* Opening replaces the stream the LiveSource held.
Opens ==
    /\ tick.stage = "open"
    /\ tick' = LET now == NoteConnected(tick.session)
               IN  Answered(now, IF now.owes THEN "reconcile" ELSE "applied")
    /\ wire' = "open" /\ line' = <<>>
    /\ gap' = IF heard THEN "open" ELSE gap
    /\ UNCHANGED <<behind, gone, socket, idle, saved, asked, app, sweeps, spent, unheard, heard, beat, silent>>

OpenFails ==
    /\ "cut" \in Rough
    /\ tick.stage = "open"
    /\ Spend("cuts", MaxCuts)
    /\ tick' = Answered(NoteDisconnected(tick.session), "backing-off")
    /\ UNCHANGED <<behind, gone, wires, saved, asked, app, sweeps, history>>

OpenRefused ==
    /\ "refuse" \in Rough
    /\ tick.stage = "open"
    /\ tick' = Answered(ParkedFor(tick.session), "reconcile-only")
    /\ UNCHANGED <<behind, gone, wires, saved, asked, app, sweeps, spent, history>>

\* The mirror's row for b is what the server has now.
Refresh(b) ==
    /\ behind' = behind \ {b}
    /\ unheard' = unheard \ {b}

\* apply_dirty, one book: fetched and stored, or gone.
ApplyBook(b) ==
    /\ tick.stage = "apply" /\ b \in tick.books
    /\ tick' = [tick EXCEPT !.books = @ \ {b}]
    /\ Refresh(b)
    /\ UNCHANGED <<gone, wires, saved, asked, app, sweeps, spent, heard, gap, beat, silent>>

\* apply_dirty: the re-fetch fails.  The hint is counted, and forgotten.
RefuseHint(b) ==
    /\ "refetch" \in Rough
    /\ tick.stage = "apply" /\ b \in tick.books
    /\ tick' = [tick EXCEPT !.books = @ \ {b}]
    /\ UNCHANGED <<behind, gone, wires, saved, asked, app, sweeps, spent, history>>

\* note_book_deleted, after the books.
ApplyDeletion(b) ==
    /\ tick.stage = "apply" /\ tick.books = {} /\ b \in tick.removed
    /\ tick' = [tick EXCEPT !.removed = @ \ {b}]
    /\ Refresh(b)
    /\ UNCHANGED <<gone, wires, saved, asked, app, sweeps, spent, heard, gap, beat, silent>>

\* The database does not open for the hints: sse_poll returns early.  The
\* LiveSource is dropped; its entry in the table is not.
PollFails ==
    /\ "store" \in Rough
    /\ tick.stage = "apply" /\ tick.books \cup tick.removed = tick.hints
    /\ tick' = NoTick
    /\ wire' = "none" /\ line' = <<>>
    /\ Spend("leaks", MaxRuns)
    /\ UNCHANGED <<behind, gone, socket, idle, saved, asked, app, sweeps, history>>

\* settle_sweep.
OwesSweep(t) ==
    \/ t.wide
    \/ t.action = "reconcile"
    \/ t.action = "reconcile-only" /\ t.session.owes

Settled(t) ==
    CASE ~OwesSweep(t) -> t.session
      [] OwesSweep(t) /\ t.action = "reconcile" -> t.session
      [] OwesSweep(t) /\ t.action = "reconcile-only" -> [t.session EXCEPT !.owes = FALSE]
      [] OTHER -> ReconcileDone(t.session)

\* What the caller is told of as "idle": no sweep is owed and no hint was read.
Silent(t) == ~OwesSweep(t) /\ t.action \in {"idle", "applied"} /\ t.hints = {}

\* FAULT: only a stream worth keeping is taken out of the poll's hands.
ParkOnlyKept(keep, count) ==
    IF keep /\ count < MaxIdleTicks
      THEN socket' = "ready" /\ idle' = count /\ UNCHANGED <<wire, line>>
      ELSE idle' = 0 /\ wire' = "none" /\ line' = <<>> /\ UNCHANGED socket

\* park_socket, unless the entry is given up.
Park(keep, count) ==
    IF keep /\ count < MaxIdleTicks
      THEN /\ socket' = "ready"
           /\ idle' = count
           /\ UNCHANGED <<wire, line>>
      ELSE /\ socket' = "none"
           /\ idle' = 0
           /\ wire' = "none" /\ line' = <<>>

\* sse_resume touches neither the network nor the disk: its answer is taken to
\* arrive before the answers a tick waits for.
InOrder == ~asked.under

Keep(session) ==
    /\ saved' = session
    /\ heard' = (heard \/ session.phase = "connected")

\* The tick that owes a sweep runs it, unless some sweep is running already:
\* _reconcile then returns at once.
Sweeping(session) ==
    [tick EXCEPT !.session = session,
                 !.stage = IF syncing THEN "release" ELSE "sweep",
                 !.left = IF syncing THEN {} ELSE Book]

Unpaid == IF gap = "open" THEN "unpaid" ELSE gap

\* The poll answers and the controller hears it: a tick of an earlier
\* generation is dropped with the session it brought, and a poll that owes
\* nothing is over.
PollAnswers ==
    /\ tick.stage = "apply" /\ tick.books = {} /\ tick.removed = {}
    /\ InOrder
    /\ LET session == Settled(tick)
       IN  /\ Park(session.phase \in {"connected", "reconciling"},
                   IF Silent(tick) THEN idle + 1 ELSE 0)
           /\ CASE ~tick.valid ->
                      tick' = NoTick /\ UNCHANGED <<saved, heard, syncing, gap>>
                [] tick.valid /\ ~OwesSweep(tick) ->
                      tick' = NoTick /\ Keep(session) /\ UNCHANGED <<syncing, gap>>
                [] tick.valid /\ OwesSweep(tick) ->
                      /\ tick' = Sweeping(session)
                      /\ syncing' = TRUE
                      /\ gap' = IF syncing THEN Unpaid ELSE gap
                      /\ UNCHANGED <<saved, heard>>
    /\ UNCHANGED <<behind, gone, asked, app, other, spent, unheard, beat, silent>>

(***************************************************************************)
(* The rest of the tick: the sweep, and what follows it.                   *)
(***************************************************************************)
\* The sweep reads one book from the server and writes it.
SweepVisits(b) ==
    /\ tick.stage = "sweep" /\ b \in tick.left
    /\ tick' = [tick EXCEPT !.left = @ \ {b}]
    /\ Refresh(b)
    /\ UNCHANGED <<gone, wires, saved, asked, app, sweeps, spent, heard, gap, beat, silent>>

AfterSweep == IF tick.valid THEN [tick EXCEPT !.stage = "release", !.left = {}] ELSE NoTick

\* _reconcile: a sweep that ends well also resumes the stream, with the session
\* the controller holds at this moment.
Resuming == IF asked.under \/ app = "disposed" THEN asked ELSE ResumeOf(saved)

SweepEnds ==
    /\ tick.stage = "sweep" /\ tick.left = {}
    /\ tick' = AfterSweep
    /\ syncing' = FALSE
    /\ gap' = "none"
    /\ asked' = Resuming
    /\ UNCHANGED <<behind, gone, wires, saved, app, other, spent, unheard, heard, beat, silent>>

\* _reconcile catches every failure: the controller cannot tell.
SweepFails ==
    /\ "sweep" \in Rough
    /\ tick.stage = "sweep"
    /\ tick' = AfterSweep
    /\ syncing' = FALSE
    /\ gap' = Unpaid
    /\ UNCHANGED <<behind, gone, wires, saved, asked, app, other, spent, unheard, heard, beat, silent>>

\* sseReconciled, and the end of the tick.
TickReleases ==
    /\ tick.stage = "release"
    /\ InOrder
    /\ tick' = NoTick
    /\ IF tick.valid THEN Keep(ReconcileDone(tick.session)) ELSE UNCHANGED <<saved, heard>>
    /\ UNCHANGED <<behind, gone, wires, asked, app, sweeps, spent, unheard, gap, beat, silent>>

\* resume, once the core has answered: keep the resumed session, and tick.
ResumeAnswers ==
    /\ asked.under
    /\ asked' = NoResume
    /\ LET session == IF asked.valid THEN Resumed(asked.session) ELSE saved
       IN  /\ Keep(session)
           /\ \/ asked.valid /\ Poll(session)
              \/ /\ ~asked.valid \/ tick.stage # "none" \/ socket = "polling"
                 /\ UNCHANGED <<tick, wire, line, socket, gap, spent, beat, silent>>
    /\ UNCHANGED <<behind, gone, idle, app, sweeps, unheard>>

(***************************************************************************)
(* Sweeps of other triggers, and the app's lifecycle.                      *)
(***************************************************************************)
OtherSweeping == syncing /\ tick.stage # "sweep"

OtherBegins ==
    /\ "others" \in Rough
    /\ ~syncing /\ app # "disposed"
    /\ Spend("runs", MaxRuns)
    /\ other' = Book /\ syncing' = TRUE
    /\ UNCHANGED <<behind, gone, wires, loops, history>>

OtherVisits(b) ==
    /\ OtherSweeping /\ b \in other
    /\ other' = other \ {b}
    /\ Refresh(b)
    /\ UNCHANGED <<gone, wires, loops, syncing, spent, heard, gap, beat, silent>>

OtherEnds ==
    /\ OtherSweeping
    /\ other = {} \/ "sweep" \in Rough
    /\ other' = {} /\ syncing' = FALSE
    /\ asked' = IF other = {} THEN Resuming ELSE asked
    /\ UNCHANGED <<behind, gone, wires, saved, tick, app, spent, history>>

Invalid(t) == IF t.stage = "none" THEN t ELSE [t EXCEPT !.valid = FALSE]
Revoked(r) == IF r.under THEN [r EXCEPT !.valid = FALSE] ELSE r

\* stop: the timers go and what is under way is dropped when it answers.
GoesToBackground ==
    /\ "background" \in Rough
    /\ app = "running"
    /\ Spend("runs", MaxRuns)
    /\ app' = "stopped"
    /\ tick' = Invalid(tick) /\ asked' = Revoked(asked)
    /\ UNCHANGED <<behind, gone, wires, saved, sweeps, history>>

\* start, which ticks at once unless a tick is under way, and resume.
ComesToForeground ==
    /\ app = "stopped"
    /\ app' = "running"
    /\ asked' = ResumeOf(saved)
    /\ \/ Poll(saved)
       \/ /\ tick.stage # "none" \/ socket = "polling"
          /\ tick' = Invalid(tick)
          /\ UNCHANGED <<wire, line, socket, gap, spent, beat, silent>>
    /\ UNCHANGED <<behind, gone, idle, saved, sweeps, unheard, heard>>

\* dispose: stop, and sse_stop forgets the entry and what is parked in it.
Disposes ==
    /\ "dispose" \in Rough
    /\ app # "disposed"
    /\ app' = "disposed"
    /\ tick' = Invalid(tick) /\ asked' = Revoked(asked)
    /\ socket' = "none"
    /\ IF socket = "ready" THEN wire' = "none" /\ line' = <<>> ELSE UNCHANGED <<wire, line>>
    /\ UNCHANGED <<behind, gone, idle, saved, sweeps, spent, history>>

Core ==
    \/ TickBegins \/ Opens \/ PollAnswers \/ SweepEnds \/ TickReleases \/ ResumeAnswers
    \/ \E b \in Book : ApplyBook(b) \/ ApplyDeletion(b) \/ SweepVisits(b)

World ==
    \/ \E b \in Book, kind \in {"book", "deleted", "wide"} : Change(b, kind)
    \/ Heartbeat \/ Cut \/ OpenFails \/ OpenRefused \/ BackoffElapses \/ PollFails \/ SweepFails
    \/ \E b \in Book : RefuseHint(b) \/ OtherVisits(b)
    \/ OtherBegins \/ OtherEnds \/ GoesToBackground \/ ComesToForeground \/ Disposes

Next == Core \/ World

Spec == Init /\ [][Next]_vars

\* The timer fires every five seconds, the requests of the hints and the sweep end
\* (KomgaClient gives each thirty seconds), and the clock reaches the next
\* attempt.  Nothing is asked of the handshake, which has no timeout, of the
\* server, of the network's breaks or of the user.
Fairness ==
    /\ WF_vars(TickBegins) /\ WF_vars(PollAnswers) /\ WF_vars(SweepEnds)
    /\ WF_vars(TickReleases) /\ WF_vars(ResumeAnswers) /\ WF_vars(BackoffElapses)
    /\ \A b \in Book : WF_vars(ApplyBook(b)) /\ WF_vars(ApplyDeletion(b)) /\ WF_vars(SweepVisits(b))

FairSpec == Spec /\ Fairness

(***************************************************************************)
(* Properties.                                                             *)
(***************************************************************************)
TypeOK ==
    /\ behind \subseteq Book /\ gone \subseteq Book
    /\ wire \in {"none", "open", "cut"} /\ line \in Seq(Event)
    /\ socket \in {"none", "ready", "polling"} /\ idle \in 0 .. MaxIdleTicks
    /\ saved \in Session /\ tick \in Tick \cup {NoTick} /\ asked \in Resume \cup {NoResume}
    /\ app \in {"running", "stopped", "disposed"}
    /\ other \subseteq Book /\ syncing \in BOOLEAN
    /\ spent \in [{"changes", "cuts", "runs", "leaks"} -> Nat]
    /\ unheard \subseteq Book /\ {heard, beat, silent} \subseteq BOOLEAN
    /\ gap \in {"none", "open", "unpaid"}

\* The client still has a reason to look at b.
WillLook(b) ==
    \/ tick.stage = "apply" /\ b \in tick.books \cup tick.removed
    \/ tick.stage = "apply" /\ tick.valid /\ OwesSweep(tick)
    \/ tick.stage = "sweep" /\ b \in tick.left
    \/ OtherSweeping /\ b \in other
    \/ Coming.owes
    \/ /\ Coming.phase \in {"connected", "reconciling"}
       /\ \/ wire # "open"
          \/ \E i \in DOMAIN line : line[i].kind = "wide" \/ line[i].book = b

\* Events may be lost, but never a change: as long as a stream is promised, a
\* book the mirror is behind on is named by an event still to be read, by a
\* hint still to be applied or by a sweep still owed or under way.
NothingForgotten == \A b \in behind \ unheard : WillLook(b)

\* After the stream has been opened again, no event of it is taken before a
\* sweep was asked for and answered: what the break hid is unknowable.
SweepBeforeHints ==
    [][tick.stage = "none" /\ tick'.stage = "apply" /\ tick'.hints # {} => gap # "open"]_vars

\* Nor before that sweep has run to its end.
SweptBeforeHints ==
    [][tick.stage = "none" /\ tick'.stage = "apply" /\ tick'.hints # {} => gap = "none"]_vars

\* An entry marked as being polled belongs to a poll under way; it would keep
\* every later poll out otherwise.  Only a poll that could not open the database
\* for its hints leaves one behind.
ClaimIsHeld == socket = "polling" => tick.stage \in {"open", "apply"} \/ spent.leaks > 0

\* Not even such a poll does.
NoClaimIsLeaked == socket = "polling" => tick.stage \in {"open", "apply"}

\* Back in the foreground, with the resume answered, nothing the background hid
\* is left out of sight: resuming sweeps.
ResumeMakesUp == app = "running" /\ ~asked.under => NothingForgotten

\* Once the screen is gone and nothing is under way, no stream is left open.
NoStreamOutlivesItsOwner == app = "disposed" /\ tick.stage = "none" => wire = "none"

\* A poll that found the stream healthy leaves it open: events beyond its limit
\* wait for the next poll.
BurstIsHandedBack ==
    [][tick.stage = "none" /\ tick'.stage = "apply" /\ socket = "ready" /\ wire = "open"
        => wire' = "open"]_vars

\* A parked stream is given up for its silence only if it was silent: not when a
\* frame, be it a heartbeat, has arrived since the poll before.
HeartbeatKeepsStream ==
    [][tick.stage = "apply" /\ Silent(tick) /\ wire = "open" /\ wire' = "none"
        => silent]_vars

\* A handshake that found no event stream is the last one.
RefusedStaysParked ==
    [][tick.stage # "none" /\ tick.action = "reconcile-only" /\ tick'.stage = "none"
        => saved'.phase = "reconcile-only"]_vars

\* The app holds no stream while it is in the background.
BackgroundClosesStream == app = "stopped" /\ tick.stage = "none" => wire = "none"

\* Every change the mirror missed while a stream was promised reaches it, unless
\* the client waits for ever on one handshake: a server that accepts the
\* connection and says no more keeps the poll, and every later one, from ending.
MirrorCatchesUp ==
    \/ <>[](tick.stage = "open")
    \/ \A b \in Book : b \in behind \ unheard ~> b \notin behind
=============================================================================
