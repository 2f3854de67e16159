-------------------------------- MODULE Outbox --------------------------------
(***************************************************************************)
(* Read progress, its mutation outbox and the uploader that drains it      *)
(* (store/read_progress.rs, store/outbox.rs, sync/upload.rs,               *)
(* api/mutation.rs) against one server that other devices write to too.    *)
(*                                                                         *)
(* The database is one variable per table and every transaction is one     *)
(* step.  The uploader gives up the thread at its two awaits (the re-fetch *)
(* of the book and the write), so it is a process with a program counter:  *)
(* anything may happen between the step that asks and the step that acts   *)
(* on the answer.  A mirror sweep reads a page of books from the server    *)
(* and writes it later, with the same gap.  A crash loses the processes    *)
(* and keeps the tables.                                                   *)
(*                                                                         *)
(* Operators marked FAULT are plausible slips of the operator that follows *)
(* them.  No action uses them: they are there to be put in its place, to   *)
(* show that the properties notice.                                        *)
(***************************************************************************)
EXTENDS Backoff, FiniteSets

CONSTANTS
    Book,           \* books of the one server
    Reflowable,     \* those of a format the progress endpoint refuses
    LastPage,       \* every book's page count
    Words,          \* statements the user may make, a subset of Intent
    OtherWords,     \* statements other devices may make, a subset of Intent
    Faults,         \* which answers may go wrong: a subset of FaultKind
    MaxAttempts,    \* attempts before a row is given up (8 in the code)
    MaxStatements,  \* bound: statements the user makes in a behaviour
    MaxOthers,      \* bound: changes other devices make
    MaxPrunes,      \* bound: times a sweep infers a book's deletion
    MaxCrashes,     \* bound: kills of the app
    MaxLate         \* bound: abandoned requests still under way

Pages == 0 .. LastPage

\* What a statement asks of the server.  page 0 stands for "no page": the code
\* compares a missing page and page 0 as the same statement.
Intent ==
    [kind : {"progress"}, page : Pages, completed : BOOLEAN]
        \cup [kind : {"read"}, page : {0}, completed : {TRUE}]
        \cup [kind : {"unread"}, page : {0}, completed : {FALSE}]

\* "auth": 401 or 403; "net": no answer, 408, 429 or 5xx; "reject": 400.
FaultKind == {"auth", "net", "reject"}

ASSUME OutboxAssumption ==
    /\ Reflowable \subseteq Book
    /\ LastPage \in Nat \ {0}
    /\ Words \subseteq Intent
    /\ OtherWords \subseteq Intent
    /\ Faults \subseteq FaultKind
    /\ MaxAttempts \in Nat \ {0}
    /\ {MaxStatements, MaxOthers, MaxPrunes, MaxCrashes, MaxLate} \subseteq Nat

VARIABLES
    local,      \* read_progress: one row per book, or none (here = FALSE)
    queue,      \* pending_mutations
    nextId,     \* the id the next statement's row gets
    now,        \* wall clock
    called,     \* the clock reading of a drain waiting for the lock, or Null
    up,         \* the drain that holds the lock
    sweep,      \* per book, the copy a mirror sweep has fetched and not written
    remote,     \* the server's progress of each book
    late,       \* requests the app gave up on that the server may still serve
    spent,      \* how much of each bound has been used
    said,       \* history: the user's last statement about each book
    excuse      \* history: what the server has shown since that statement

tables == <<local, queue, nextId>>
vars == <<tables, now, called, up, sweep, remote, late, spent, said, excuse>>

-------------------------------------------------------------------------------
(* Types                                                                     *)

Stamp == Null .. Horizon

LocalRow ==
    [here : BOOLEAN, page : Pages, completed : BOOLEAN,
     localAt : Stamp, serverAt : Stamp, pending : BOOLEAN]

NoRow == [here |-> FALSE, page |-> 0, completed |-> FALSE,
          localAt |-> Null, serverAt |-> Null, pending |-> FALSE]

Entry ==
    [id : Nat \ {0}, book : Book, intent : Intent, createdAt : Instant,
     retries : Nat, state : {"pending", "failed"}, nextAt : Stamp]

\* The server's view of a book: at = Null when it holds no progress row; by is
\* the id of our statement that wrote it last, 0 for another device's (history:
\* the code cannot see it).
Remote ==
    [alive : BOOLEAN, page : Pages, completed : BOOLEAN, at : Stamp, by : Nat]

Untouched == [alive |-> TRUE, page |-> 0, completed |-> FALSE, at |-> Null,
              by |-> 0]

RefetchKind == {"none", "found", "notFound", "unauthorized", "unreachable"}
Attempt == {"none", "succeeded", "gone", "rejected", "retryable", "blocked"}

\* The drain: the snapshot of rows still to visit, the id of the row in hand,
\* when the user acted, the last re-fetch and the last reply.
Drain ==
    [pc : {"idle", "ready", "refetching", "answered", "sending", "replied"},
     at : Stamp, due : SUBSET Entry, cur : Nat, actAt : Stamp,
     kind : RefetchKind, answer : Remote, reply : Attempt]

Idle == [pc |-> "idle", at |-> Null, due |-> {}, cur |-> 0, actAt |-> Null,
         kind |-> "none", answer |-> Untouched, reply |-> "none"]

Request == [id : Nat \ {0}, book : Book, intent : Intent]

\* Why a statement may leave the queue: the server held what it asks for, or a
\* later change (of another device, or the echo of our own earlier statement),
\* or no such book, or there is nothing to send.
Excuses == {"held", "later", "echo", "gone", "void"}

Silence == [id |-> 0, at |-> Null,
            intent |-> [kind |-> "unread", page |-> 0, completed |-> FALSE]]

NoCopy == [full |-> FALSE, copy |-> Untouched]

TypeOK ==
    /\ local \in [Book -> LocalRow]
    /\ queue \subseteq Entry
    /\ nextId \in Nat \ {0}
    /\ now \in Instant
    /\ called \in Stamp
    /\ up \in Drain
    /\ sweep \in [Book -> [full : BOOLEAN, copy : Remote]]
    /\ remote \in [Book -> Remote]
    /\ late \subseteq Request
    /\ spent \in [{"others", "prunes", "crashes"} -> Nat]
    /\ said \in [Book -> [id : Nat, at : Stamp, intent : Intent]]
    /\ excuse \in [Book -> SUBSET Excuses]

Init ==
    /\ local = [b \in Book |-> NoRow]
    /\ queue = {}
    /\ nextId = 1
    /\ now = 1
    /\ called = Null
    /\ up = Idle
    /\ sweep = [b \in Book |-> NoCopy]
    /\ remote = [b \in Book |-> Untouched]
    /\ late = {}
    /\ spent = [k \in {"others", "prunes", "crashes"} |-> 0]
    /\ said = [b \in Book |-> Silence]
    /\ excuse = [b \in Book |-> {}]

-------------------------------------------------------------------------------
(* The server (external) and the judge that watches it                       *)

\* What the server stores for a statement: completed puts the page at the end,
\* a DELETE leaves no row.
StoredPage(i) == IF i.completed THEN LastPage ELSE i.page

Held(i, r) ==
    CASE i.kind = "progress" -> r.page = StoredPage(i) /\ r.completed = i.completed
      [] i.kind = "read"     -> r.completed
      [] i.kind = "unread"   -> ~r.completed /\ r.page = 0

After(r, i, id, at) ==
    [r EXCEPT !.page = StoredPage(i), !.completed = i.completed,
              !.at = IF i.kind = "unread" THEN Null ELSE at, !.by = id]

\* The excuses one look at the server gives for dropping statement s.
Judge(s, r) ==
    {x \in Excuses :
        \/ x = "gone" /\ ~r.alive
        \/ x = "held" /\ Held(s.intent, r)
        \/ x = "later" /\ s.intent.kind = "progress" /\ r.at > s.at /\ r.by = 0
        \/ x = "echo" /\ s.intent.kind = "progress" /\ r.at > s.at /\ r.by # 0
        \/ x = "void" /\ s.intent.kind = "progress" /\ s.intent.page < 1}

\* The server's row of b becomes r, and the judge sees it.
ServerShows(b, r) ==
    /\ remote' = [remote EXCEPT ![b] = r]
    /\ excuse' = [excuse EXCEPT ![b] = @ \cup Judge(said[b], r)]

-------------------------------------------------------------------------------
(* Local writes: upsert_local_read_progress, mark_read, mark_unread          *)

RowsOf(b) == {e \in queue : e.book = b}

\* FAULT: only rows still waiting are coalesced; given-up rows survive.
EnqueueBesideFailed(b, i) ==
    queue' = {e \in queue : e.book # b \/ e.state = "failed"}
                 \cup {[id |-> nextId, book |-> b, intent |-> i, createdAt |-> now,
                        retries |-> 0, state |-> "pending", nextAt |-> Null]}

\* enqueue_mutation: coalesce every queued row of the book, insert the new one.
Enqueue(b, i) ==
    queue' = (queue \ RowsOf(b))
                 \cup {[id |-> nextId, book |-> b, intent |-> i, createdAt |-> now,
                        retries |-> 0, state |-> "pending", nextAt |-> Null]}

\* FAULT: marks do not stamp the row.
StatedUnstamped(row, i) ==
    [row EXCEPT !.here = TRUE,
                !.page = IF i.kind = "read" THEN @ ELSE i.page,
                !.completed = i.completed,
                !.localAt = IF i.kind = "progress" THEN now ELSE @,
                !.pending = TRUE]

\* The local row: progress overwrites the page, mark-read keeps the page (or
\* has none), mark-unread resets it.
Stated(row, i) ==
    [row EXCEPT !.here = TRUE,
                !.page = IF i.kind = "read" THEN @ ELSE i.page,
                !.completed = i.completed,
                !.localAt = now,
                !.pending = TRUE]

Say(b, i) ==
    /\ nextId <= MaxStatements
    /\ local' = [local EXCEPT ![b] = Stated(@, i)]
    /\ Enqueue(b, i)
    /\ nextId' = nextId + 1
    /\ said' = [said EXCEPT ![b] = [id |-> nextId, at |-> now, intent |-> i]]
    /\ excuse' = [excuse EXCEPT ![b] = Judge(said'[b], remote[b])]
    /\ UNCHANGED <<now, called, up, sweep, remote, late, spent>>

Revived(e) == [e EXCEPT !.state = "pending", !.retries = 0, !.nextAt = Null]

\* The user asks for given-up rows to be tried again (retry_failed).
RetryFailed(b) ==
    /\ \E e \in RowsOf(b) : e.state = "failed"
    /\ queue' = {IF e.book = b /\ e.state = "failed" THEN Revived(e) ELSE e : e \in queue}
    /\ UNCHANGED <<local, nextId, now, called, up, sweep, remote, late, spent, said, excuse>>

-------------------------------------------------------------------------------
(* The mirror: upsert_synced_read_progress, and delete_book's effect on it   *)

\* A sweep (or a targeted re-fetch) has read the book; the write comes later.
SweepFetch(b) ==
    /\ ~sweep[b].full
    /\ remote[b].alive
    /\ sweep' = [sweep EXCEPT ![b] = [full |-> TRUE, copy |-> remote[b]]]
    /\ UNCHANGED <<tables, now, called, up, remote, late, spent, said, excuse>>

\* FAULT: only the newest time wins, whether or not anything is queued.
SyncWriteForNewer(b, r) ==
    IF ~local[b].here \/ r.at > local[b].localAt THEN "write" ELSE "block"

\* FAULT: given-up rows no longer hold the mirror back.
SyncWriteForWaiting(b, r) ==
    IF \A e \in RowsOf(b) : e.state = "failed" THEN "write"
    ELSE IF ~local[b].here \/ r.at > local[b].localAt THEN "writeKeepPending"
    ELSE "block"

\* sync_write_for.  A queued statement of any state counts, given-up ones too.
\* Reading a NULL local_updated_at is an error, not a missing row.
SyncWriteFor(b, r) ==
    IF RowsOf(b) = {} THEN "write"
    ELSE IF \A e \in RowsOf(b) : e.intent.kind # "progress" THEN "block"
    ELSE IF ~local[b].here THEN "writeKeepPending"
    ELSE IF local[b].localAt = Null THEN "error"
    ELSE IF r.at > local[b].localAt THEN "writeKeepPending" ELSE "block"

Mirrored(row, r, keep) ==
    [row EXCEPT !.here = TRUE, !.page = r.page, !.completed = r.completed,
                !.serverAt = r.at, !.pending = keep]

\* A book without progress writes nothing; an error fails the sweep's page.
SweepWrite(b) ==
    /\ sweep[b].full
    /\ sweep' = [sweep EXCEPT ![b] = NoCopy]
    /\ LET r == sweep[b].copy
           verdict == SyncWriteFor(b, r)
       IN  IF r.at # Null /\ verdict \in {"write", "writeKeepPending"}
             THEN local' = [local EXCEPT
                               ![b] = Mirrored(@, r, verdict = "writeKeepPending")]
             ELSE local' = local
    /\ UNCHANGED <<queue, nextId, now, called, up, remote, late, spent, said, excuse>>

\* A sweep infers the book's deletion (rightly or not) and deletes its row; the
\* outbox keeps its entry.
Prune(b) ==
    /\ local[b].here
    /\ spent["prunes"] < MaxPrunes
    /\ spent' = [spent EXCEPT !["prunes"] = @ + 1]
    /\ local' = [local EXCEPT ![b] = NoRow]
    /\ UNCHANGED <<queue, nextId, now, called, up, sweep, remote, late, said, excuse>>

-------------------------------------------------------------------------------
(* The drain: upload_outbox                                                  *)

\* A caller reads the clock, then waits for the lock of this server.
Call ==
    /\ called = Null
    /\ called' = now
    /\ UNCHANGED <<tables, now, up, sweep, remote, late, spent, said, excuse>>

Due(e, at) == e.state = "pending" /\ e.nextAt <= at

StartPass ==
    /\ called # Null
    /\ up.pc = "idle"
    /\ called' = Null
    /\ up' = [Idle EXCEPT !.pc = "ready", !.at = called,
                          !.due = {e \in queue : Due(e, called)}]
    /\ UNCHANGED <<tables, now, sweep, remote, late, spent, said, excuse>>

EndPass ==
    /\ up.pc = "ready"
    /\ up.due = {}
    /\ up' = Idle
    /\ UNCHANGED <<tables, now, called, sweep, remote, late, spent, said, excuse>>

InHand(e) == e \in up.due /\ e.id = up.cur

\* The pass is done with entry e and turns to the next one.
Drop(e) == [Idle EXCEPT !.pc = "ready", !.at = up.at, !.due = up.due \ {e}]

\* local_action_time, read before the re-fetch: a row that is gone falls back to
\* the entry's own stamp; a NULL stamp in a row that is there is an error that
\* ends the pass.
BeginEntry(e) ==
    /\ up.pc = "ready"
    /\ e \in up.due
    /\ \A f \in up.due : e.createdAt <= f.createdAt
    /\ LET row == local[e.book]
       IN  up' = IF row.here /\ row.localAt = Null THEN Idle
                 ELSE [up EXCEPT !.pc = "refetching", !.cur = e.id,
                                 !.actAt = IF row.here THEN row.localAt
                                                       ELSE e.createdAt]
    /\ UNCHANGED <<tables, now, called, sweep, remote, late, spent, said, excuse>>

\* The book as the server has it at some moment of the re-fetch, or a failure.
AnswerRefetch(e) ==
    /\ up.pc = "refetching"
    /\ InHand(e)
    /\ \E kind \in RefetchKind :
         /\ \/ kind = "found" /\ remote[e.book].alive
            \/ kind = "notFound" /\ ~remote[e.book].alive
            \/ kind = "unauthorized" /\ "auth" \in Faults
            \/ kind = "unreachable" /\ "net" \in Faults
         /\ up' = [up EXCEPT !.pc = "answered", !.kind = kind,
                             !.answer = IF kind = "found" THEN remote[e.book]
                                                               ELSE Untouched]
    /\ UNCHANGED <<tables, now, called, sweep, remote, late, spent, said, excuse>>

\* remote_matches
RemoteMatches(i, r) == r.completed = i.completed /\ r.page = i.page

\* decide: rules R1-R8 in the order the code matches them.
Decide(i, b, actAt, kind, r) ==
    IF kind = "notFound" THEN "dropGone"
    ELSE IF kind = "unauthorized" THEN "stop"
    ELSE IF kind = "unreachable" THEN "defer"
    ELSE IF i.kind \in {"read", "unread"} THEN "upload"
    ELSE IF i.page < 1 THEN "dropNoOp"
    ELSE IF b \in Reflowable THEN "park"
    ELSE IF RemoteMatches(i, r) THEN "dropSuccess"
    ELSE IF r.at > actAt THEN "dropRemoteWins"
    ELSE "upload"

\* apply_uploaded: a 204 has no body, so the server's stamp is unknown.
Uploaded(row) == [row EXCEPT !.pending = FALSE, !.serverAt = Null]

\* FAULT: every row of the book is deleted, whichever the server answered.
CompleteMutationByBook(e) ==
    /\ queue' = queue \ RowsOf(e.book)
    /\ local' = IF local[e.book].here
                  THEN [local EXCEPT ![e.book] = Uploaded(@)] ELSE local

\* FAULT: the flag is lowered although a newer row is queued.
CompleteMutationUnchecked(e) ==
    /\ queue' = {q \in queue : q.id # e.id}
    /\ local' = IF local[e.book].here
                  THEN [local EXCEPT ![e.book] = Uploaded(@)] ELSE local

\* complete_mutation: delete this row only; if the book has no other row, the
\* local row no longer waits for the server.
CompleteMutation(e) ==
    LET kept == {q \in queue : q.id # e.id}
    IN  /\ queue' = kept
        /\ IF {q \in kept : q.book = e.book} = {} /\ local[e.book].here
             THEN local' = [local EXCEPT ![e.book] = Uploaded(@)]
             ELSE local' = local

\* park_unsupported, and record_outcome's Rejected: the row gives up.
Parked(q) == [q EXCEPT !.state = "failed", !.nextAt = Null]

\* FAULT: a row the server refused is thrown away.
GiveUpForgetting(e) == queue' = {q \in queue : q.id # e.id}

GiveUp(e) == queue' = {IF q.id = e.id THEN Parked(q) ELSE q : q \in queue}

\* FAULT: the attempt is not counted, so no row is ever given up.
RetriedUncounted(q, attempts, at) ==
    [q EXCEPT !.state = "pending", !.nextAt = NextRetryAt(at, attempts)]

\* record_outcome's Retryable: counted from the snapshot's retry count, timed
\* from the pass's clock.
Retried(q, attempts, at) ==
    IF attempts >= MaxAttempts
      THEN [q EXCEPT !.retries = attempts, !.state = "failed", !.nextAt = Null]
      ELSE [q EXCEPT !.retries = attempts, !.state = "pending",
                     !.nextAt = NextRetryAt(at, attempts)]

Penalise(e) ==
    queue' = {IF q.id = e.id THEN Retried(q, e.retries + 1, up.at) ELSE q : q \in queue}

\* After the re-fetch the entry must still be queued: a newer statement may
\* have replaced it meanwhile.
ActOnAnswer(e) ==
    /\ up.pc = "answered"
    /\ InHand(e)
    /\ LET verdict == Decide(e.intent, e.book, up.actAt, up.kind, up.answer)
       IN  IF \A q \in queue : q.id # e.id
             THEN up' = Drop(e) /\ UNCHANGED <<local, queue>>
             ELSE \/ /\ verdict \in {"dropGone", "dropNoOp", "dropSuccess",
                                     "dropRemoteWins"}
                     /\ CompleteMutation(e)
                     /\ up' = Drop(e)
                  \/ /\ verdict = "park"
                     /\ GiveUp(e)
                     /\ up' = Drop(e)
                     /\ local' = local
                  \/ /\ verdict = "defer"
                     /\ Penalise(e)
                     /\ up' = Drop(e)
                     /\ local' = local
                  \/ /\ verdict = "stop"
                     /\ up' = Idle
                     /\ UNCHANGED <<local, queue>>
                  \/ /\ verdict = "upload"
                     /\ up' = [up EXCEPT !.pc = "sending"]
                     /\ UNCHANGED <<local, queue>>
    /\ UNCHANGED <<nextId, now, called, sweep, remote, late, spent, said, excuse>>

RequestOf(e) == [id |-> e.id, book |-> e.book, intent |-> e.intent]

Replied(reply) == up' = [up EXCEPT !.pc = "replied", !.reply = reply]

\* The write reaches the server and the answer comes back, or either is lost.
Serve(e) ==
    /\ up.pc = "sending"
    /\ InHand(e)
    /\ LET b == e.book
           landed == After(remote[b], e.intent, e.id, now)
       IN  \/ /\ remote[b].alive
              /\ ServerShows(b, landed)
              /\ \/ Replied("succeeded")
                 \/ "net" \in Faults /\ Replied("retryable")
              /\ late' = late
           \/ /\ ~remote[b].alive
              /\ Replied("gone")
              /\ UNCHANGED <<remote, late, excuse>>
           \/ /\ \/ "auth" \in Faults /\ Replied("blocked") /\ late' = late
                 \/ "reject" \in Faults /\ Replied("rejected") /\ late' = late
                 \/ /\ "net" \in Faults
                    /\ Replied("retryable")
                    /\ \/ late' = late
                       \/ Cardinality(late) < MaxLate /\ late' = late \cup {RequestOf(e)}
              /\ UNCHANGED <<remote, excuse>>
    /\ UNCHANGED <<tables, now, called, sweep, spent, said>>

FinishEntry(e) ==
    /\ up.pc = "replied"
    /\ InHand(e)
    /\ \/ /\ up.reply \in {"succeeded", "gone"}
          /\ CompleteMutation(e)
          /\ up' = Drop(e)
       \/ /\ up.reply = "blocked"
          /\ up' = Idle
          /\ UNCHANGED <<local, queue>>
       \/ /\ up.reply = "rejected"
          /\ GiveUp(e)
          /\ up' = Drop(e)
          /\ local' = local
       \/ /\ up.reply = "retryable"
          /\ Penalise(e)
          /\ up' = Drop(e)
          /\ local' = local
    /\ UNCHANGED <<nextId, now, called, sweep, remote, late, spent, said, excuse>>

-------------------------------------------------------------------------------
(* The environment                                                           *)

\* A request the app gave up on is served after all.
LateLands(m) ==
    /\ m \in late
    /\ late' = late \ {m}
    /\ IF remote[m.book].alive
         THEN ServerShows(m.book, After(remote[m.book], m.intent, m.id, now))
         ELSE UNCHANGED <<remote, excuse>>
    /\ UNCHANGED <<tables, now, called, up, sweep, spent, said>>

OtherSays(b, i) ==
    /\ spent["others"] < MaxOthers
    /\ remote[b].alive
    /\ spent' = [spent EXCEPT !["others"] = @ + 1]
    /\ ServerShows(b, After(remote[b], i, 0, now))
    /\ UNCHANGED <<tables, now, called, up, sweep, late, said>>

ServerDeletes(b) ==
    /\ spent["others"] < MaxOthers
    /\ remote[b].alive
    /\ spent' = [spent EXCEPT !["others"] = @ + 1]
    /\ ServerShows(b, [Untouched EXCEPT !.alive = FALSE])
    /\ UNCHANGED <<tables, now, called, up, sweep, late, said>>

Tick ==
    /\ now < Horizon
    /\ now' = now + 1
    /\ UNCHANGED <<tables, called, up, sweep, remote, late, spent, said, excuse>>

\* A kill loses what is in memory; a request on the wire may still be served.
Crash ==
    /\ spent["crashes"] < MaxCrashes
    /\ spent' = [spent EXCEPT !["crashes"] = @ + 1]
    /\ up' = Idle
    /\ called' = Null
    /\ sweep' = [b \in Book |-> NoCopy]
    /\ \/ late' = late
       \/ /\ up.pc = "sending"
          /\ Cardinality(late) < MaxLate
          /\ \E e \in up.due : InHand(e) /\ late' = late \cup {RequestOf(e)}
    /\ UNCHANGED <<tables, now, remote, said, excuse>>

Pass ==
    \/ StartPass \/ EndPass
    \/ \E e \in up.due : \/ BeginEntry(e) \/ AnswerRefetch(e) \/ ActOnAnswer(e)
                         \/ Serve(e) \/ FinishEntry(e)

User == \E b \in Book : RetryFailed(b) \/ \E i \in Words : Say(b, i)

Mirror == \E b \in Book : SweepFetch(b) \/ SweepWrite(b) \/ Prune(b)

World ==
    \/ \E m \in late : LateLands(m)
    \/ \E b \in Book : ServerDeletes(b) \/ \E i \in OtherWords : OtherSays(b, i)
    \/ Tick

Next == Call \/ Pass \/ User \/ Mirror \/ World \/ Crash

Spec == Init /\ [][Next]_vars

\* The app keeps starting drains and sweeps (its timers, returns to the
\* foreground and event ticks do), time passes, and the network answers or
\* fails every request.  The user, other devices, crashes and late requests owe
\* nothing.
Fairness ==
    /\ WF_vars(Call)
    /\ WF_vars(Pass)
    /\ WF_vars(Tick)
    /\ \A b \in Book : WF_vars(SweepFetch(b)) /\ WF_vars(SweepWrite(b))

FairSpec == Spec /\ Fairness

-------------------------------------------------------------------------------
(* Properties                                                                *)

\* What the outbox promises, without its tables and its processes.
LW == INSTANCE LastWord
        WITH debt <- [b \in Book |->
                        IF \E e \in queue : e.book = b /\ e.state = "pending" THEN "owed"
                        ELSE IF \E e \in queue : e.book = b THEN "givenUp"
                        ELSE "none"]

KeepsItsPromise == LW!Spec

Queued(b) == RowsOf(b) # {}

\* The device never owes the server more than the user's last statement about
\* a book: at most one row per book, and it is that statement.
OneStatementPerBook ==
    /\ \A e, f \in queue : e.book = f.book => e = f
    /\ \A e \in queue : /\ e.id = said[e.book].id
                        /\ e.intent = said[e.book].intent
                        /\ e.createdAt = said[e.book].at

\* The local row waits for the server exactly while a row is queued, whatever
\* was said, dropped, given up or mirrored while a drain was under way.
PendingFlagIsTruthful ==
    \A b \in Book : local[b].here => (local[b].pending <=> Queued(b))

\* A statement leaves the queue only for a newer one or with an excuse the
\* server gave after the statement was made: never on a stale answer, never
\* because of a crash, a sweep, a prune or another statement's reply.
Vanishes(e) == /\ \A q \in queue' : q.id # e.id
               /\ said'[e.book] = said[e.book]

DropsAreExcused == [][\A e \in queue : Vanishes(e) => excuse[e.book] # {}]_vars

\* Until the server shows a later change, the row on this device shows what the
\* user said last: no sweep, however stale its copy, takes it back.
ShowsLastWord ==
    \A e \in queue :
        /\ local[e.book].here
        /\ excuse[e.book] \cap {"later", "echo"} = {}
        => /\ local[e.book].completed = e.intent.completed
           /\ e.intent.kind # "read" => local[e.book].page = e.intent.page

\* A statement of ours never lands on the server over a newer one of ours that
\* has already been settled: the newer one is still there to be delivered.
OldWordStaysOld ==
    [][\A b \in Book :
          /\ remote'[b] # remote[b]
          /\ remote'[b].by \in 1 .. (said[b].id - 1)
          => \E e \in queue : e.id = said[b].id]_vars

\* Only another device's later action takes the place of the user's: the echo
\* of this device's own earlier statement is no reason to drop a newer one.
OnlyOthersOvertake ==
    [][\A e \in queue : Vanishes(e) => excuse[e.book] # {"echo"}]_vars

\* A queued row whose local row lost its stamp falls back to the row's own
\* time, so no entry can stop a drain.
DrainNeverAborts ==
    \A e \in queue : local[e.book].here => local[e.book].localAt # Null

\* Every row that is waiting is eventually delivered, dropped or given up.
EveryRowSettles ==
    \A b \in Book :
        (\E e \in RowsOf(b) : e.state = "pending")
            ~> (\A e \in RowsOf(b) : e.state = "failed")

\* Once nothing is owed, the local row comes to show what the server has.
Agrees(b) ==
    (remote[b].alive /\ remote[b].at # Null /\ ~Queued(b))
        => /\ local[b].here
           /\ local[b].page = remote[b].page
           /\ local[b].completed = remote[b].completed

MirrorConverges == <>[](\A b \in Book : Agrees(b))

\* The same for a book whose progress another device cleared: its row goes back
\* to unread here as well.
Cleared(b) ==
    (remote[b].alive /\ remote[b].at = Null /\ ~Queued(b) /\ local[b].here)
        => local[b].page = 0 /\ ~local[b].completed

ClearingConverges == <>[](\A b \in Book : Cleared(b))

-------------------------------------------------------------------------------
(* The inductive invariant behind DropsAreExcused                            *)

Live(e) == \E q \in queue : q.id = e.id

SameStatement(e, f) ==
    e.book = f.book /\ e.intent = f.intent /\ e.createdAt = f.createdAt

\* Ids are never reused: not by a row, a snapshot row or a statement.
IdsAreFresh ==
    /\ \A e \in queue \cup up.due : e.id < nextId
    /\ \A b \in Book : said[b].id < nextId

\* An id names one row, and the snapshot's copy of a row is a copy of it.
IdsNameRows ==
    /\ \A e, f \in queue : e.id = f.id => e = f
    /\ \A e, f \in up.due : e.id = f.id => e = f
    /\ \A e \in up.due : \A q \in queue : e.id = q.id => SameStatement(e, q)

\* The local stamp, when there is one, is the time of the queued statement.
StampsAgree ==
    \A e \in queue :
        local[e.book].localAt # Null => local[e.book].localAt = e.createdAt

\* The server puts a completed book at its last page.
CompletedIsLastPage ==
    /\ \A b \in Book : remote[b].completed => remote[b].page = LastPage
    /\ up.answer.completed => up.answer.page = LastPage

StatementOf(e) == [id |-> e.id, at |-> e.createdAt, intent |-> e.intent]

\* What the drain has heard about a row that is still queued was true of the
\* server at some moment after the statement was made.
HeardSinceSaid ==
    \A e \in up.due : (InHand(e) /\ Live(e)) =>
        /\ up.actAt = e.createdAt
        /\ up.pc = "answered" =>
               /\ up.kind # "none"
               /\ up.kind = "notFound" => "gone" \in excuse[e.book]
               /\ up.kind = "found" => Judge(StatementOf(e), up.answer) \subseteq excuse[e.book]
        /\ up.pc = "replied" =>
               /\ up.reply = "succeeded" => "held" \in excuse[e.book]
               /\ up.reply = "gone" => "gone" \in excuse[e.book]

\* The judge has seen the server's present state.
JudgeIsCurrent ==
    \A b \in Book : said[b].id # 0 => Judge(said[b], remote[b]) \subseteq excuse[b]

Inv ==
    /\ TypeOK
    /\ OneStatementPerBook
    /\ IdsAreFresh
    /\ IdsNameRows
    /\ StampsAgree
    /\ CompletedIsLastPage
    /\ HeardSinceSaid
    /\ JudgeIsCurrent
=============================================================================
