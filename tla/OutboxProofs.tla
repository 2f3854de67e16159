---------------------------- MODULE OutboxProofs ----------------------------
(***************************************************************************)
(* Theorems about Outbox, for every number of books, statements, attempts, *)
(* crashes, late requests and every horizon.                               *)
(***************************************************************************)
EXTENDS Outbox, FiniteSetTheorems, TLAPS

\* The backoff ladder never leaves its rails: whatever the retry count, the
\* delay is at least the base and at most the ceiling (backoff_seconds).
LEMMA BackoffBounds ==
    ASSUME NEW n \in Nat
    PROVE  BackoffSeconds(n) \in BaseSeconds .. MaxSeconds
<1>1. Exponent(n) + 1 \in 1 .. 17
  BY DEF Exponent, Earlier
<1>2. \A k \in 1 .. 17 : ShiftTable[k] \in Nat \ {0}
  BY DEF ShiftTable
<1>3. PICK s \in Nat \ {0} : s = ShiftTable[Exponent(n) + 1]
  BY <1>1, <1>2
<1>4. BaseSeconds * s \in Nat /\ BaseSeconds * s >= BaseSeconds
  BY <1>3, BackoffAssumption
<1> QED
  BY <1>3, <1>4, BackoffAssumption DEF BackoffSeconds, Earlier

\* A deadline is an instant, not before the attempt it follows.
LEMMA DeadlineIsInstant ==
    ASSUME NEW at \in Stamp, NEW n \in Nat
    PROVE  NextRetryAt(at, n) \in Instant /\ NextRetryAt(at, n) >= at
<1>1. BackoffSeconds(n) \in BaseSeconds .. MaxSeconds
  BY BackoffBounds
<1> QED
  BY <1>1, BackoffAssumption DEF NextRetryAt, Earlier, Stamp, Null, Instant

-------------------------------------------------------------------------------
(* Type correctness                                                          *)

LEMMA DefaultsAreTyped ==
    /\ NoRow \in LocalRow
    /\ Untouched \in Remote
    /\ Idle \in Drain
    /\ NoCopy \in [full : BOOLEAN, copy : Remote]
    /\ Silence \in [id : Nat, at : Stamp, intent : Intent]
<1>1. 0 \in Pages /\ Null \in Stamp
  BY OutboxAssumption, BackoffAssumption DEF Pages, Stamp, Null
<1>2. Untouched \in Remote
  BY <1>1 DEF Untouched, Remote
<1> QED
  BY <1>1, <1>2 DEF NoRow, LocalRow, Idle, Drain, RefetchKind, Attempt, NoCopy,
                    Silence, Intent

LEMMA IntentFields ==
    ASSUME NEW i \in Intent
    PROVE  /\ i.kind \in {"progress", "read", "unread"}
           /\ i.page \in Pages
           /\ i.completed \in BOOLEAN
           /\ i.kind = "read" => i.completed
           /\ i.kind = "unread" => ~i.completed /\ i.page = 0
<1>1. 0 \in Pages
  BY OutboxAssumption DEF Pages
<1> QED
  BY <1>1 DEF Intent

LEMMA ServerStaysTyped ==
    ASSUME NEW r \in Remote, NEW i \in Intent, NEW id \in Nat, NEW at \in Instant
    PROVE  After(r, i, id, at) \in Remote
<1>1. StoredPage(i) \in Pages /\ i.completed \in BOOLEAN
  BY IntentFields, OutboxAssumption DEF StoredPage, Pages
<1>2. Null \in Stamp /\ at \in Stamp
  BY BackoffAssumption DEF Null, Stamp, Instant
<1> QED
  BY <1>1, <1>2 DEF After, Remote

LEMMA ServerShowsTyped ==
    ASSUME TypeOK, NEW b \in Book, NEW r \in Remote, ServerShows(b, r)
    PROVE  /\ remote' \in [Book -> Remote]
           /\ excuse' \in [Book -> SUBSET Excuses]
<1>1. Judge(said[b], r) \subseteq Excuses
  BY DEF Judge
<1> QED
  BY <1>1 DEF TypeOK, ServerShows

\* Tables keep their types under the three ways a row's fate is recorded.
LEMMA RowsStayTyped ==
    ASSUME NEW q \in Entry
    PROVE  /\ Parked(q) \in Entry
           /\ Revived(q) \in Entry
           /\ \A n \in Nat, at \in Stamp : Retried(q, n, at) \in Entry
<1>1. Null \in Stamp
  BY BackoffAssumption DEF Stamp, Null
<1>2. Parked(q) \in Entry
  BY <1>1 DEF Parked, Entry
<1>3. Revived(q) \in Entry
  BY <1>1 DEF Revived, Entry
<1>4. ASSUME NEW n \in Nat, NEW at \in Stamp PROVE Retried(q, n, at) \in Entry
  <2>1. NextRetryAt(at, n) \in Instant
    BY DeadlineIsInstant
  <2>2. NextRetryAt(at, n) \in Stamp
    BY <2>1, BackoffAssumption DEF Stamp, Instant, Null
  <2> QED
    BY <1>1, <2>2 DEF Retried, Entry
<1> QED
  BY <1>2, <1>3, <1>4

LEMMA RowOutcomesTyped ==
    ASSUME TypeOK, NEW e \in Entry
    PROVE  /\ CompleteMutation(e) => queue' \subseteq Entry /\ local' \in [Book -> LocalRow]
           /\ GiveUp(e) => queue' \subseteq Entry
           /\ Penalise(e) => queue' \subseteq Entry
<1>1. ASSUME CompleteMutation(e) PROVE queue' \subseteq Entry
  BY <1>1 DEF CompleteMutation, TypeOK
<1>2. ASSUME CompleteMutation(e) PROVE local' \in [Book -> LocalRow]
  <2>1. Null \in Stamp
    BY BackoffAssumption DEF Stamp, Null
  <2>2. e.book \in Book /\ local[e.book] \in LocalRow
    BY DEF TypeOK, Entry
  <2>3. Uploaded(local[e.book]) \in LocalRow
    BY <2>1, <2>2 DEF Uploaded, LocalRow
  <2> QED
    BY <1>2, <2>3 DEF CompleteMutation, TypeOK
<1>3. ASSUME GiveUp(e) PROVE queue' \subseteq Entry
  BY <1>3, RowsStayTyped DEF GiveUp, TypeOK
<1>4. ASSUME Penalise(e) PROVE queue' \subseteq Entry
  <2>1. e.retries + 1 \in Nat /\ up.at \in Stamp
    BY DEF Entry, TypeOK, Drain
  <2>2. \A q \in queue : Retried(q, e.retries + 1, up.at) \in Entry
    BY <2>1, RowsStayTyped DEF TypeOK
  <2> QED
    BY <1>4, <2>2 DEF Penalise, TypeOK
<1> QED
  BY <1>1, <1>2, <1>3, <1>4

LEMMA DropTyped ==
    ASSUME TypeOK, NEW e \in up.due
    PROVE  Drop(e) \in Drain
BY DefaultsAreTyped DEF TypeOK, Drop, Drain, Idle

LEMMA TypeInductive == TypeOK /\ [Next]_vars => TypeOK'
<1> SUFFICES ASSUME TypeOK, [Next]_vars
             PROVE  TypeOK'
  OBVIOUS
<1> USE DefaultsAreTyped
<1>1. ASSUME NEW b \in Book, NEW i \in Words, Say(b, i) PROVE TypeOK'
  <2>1. i \in Intent
    BY OutboxAssumption
  <2>2. now \in Stamp /\ Null \in Stamp
    BY BackoffAssumption DEF TypeOK, Instant, Stamp, Null
  <2>3. Stated(local[b], i) \in LocalRow
    <3>1. local[b] \in LocalRow
      BY DEF TypeOK
    <3> QED
      BY <2>1, <2>2, <3>1, IntentFields DEF Stated, LocalRow
  <2>4. [id |-> nextId, book |-> b, intent |-> i, createdAt |-> now,
         retries |-> 0, state |-> "pending", nextAt |-> Null] \in Entry
    BY <2>1, <2>2 DEF TypeOK, Entry
  <2>5. queue' \subseteq Entry
    BY <1>1, <2>4 DEF Say, Enqueue, RowsOf, TypeOK
  <2>6. [id |-> nextId, at |-> now, intent |-> i] \in [id : Nat, at : Stamp, intent : Intent]
    BY <2>1, <2>2 DEF TypeOK
  <2>7. Judge(said'[b], remote[b]) \subseteq Excuses
    BY DEF Judge
  <2> QED
    BY <1>1, <2>3, <2>5, <2>6, <2>7 DEF Say, TypeOK
<1>2. ASSUME NEW b \in Book, RetryFailed(b) PROVE TypeOK'
  <2>1. queue' \subseteq Entry
    BY <1>2, RowsStayTyped DEF RetryFailed, TypeOK
  <2> QED
    BY <1>2, <2>1 DEF RetryFailed, TypeOK
<1>3. ASSUME NEW b \in Book, SweepFetch(b) PROVE TypeOK'
  BY <1>3 DEF SweepFetch, TypeOK, tables
<1>4. ASSUME NEW b \in Book, SweepWrite(b) PROVE TypeOK'
  <2>1. sweep[b].copy \in Remote
    BY DEF TypeOK
  <2>2. \A k \in BOOLEAN : Mirrored(local[b], sweep[b].copy, k) \in LocalRow
    BY <2>1 DEF TypeOK, Mirrored, LocalRow, Remote
  <2>3. local' \in [Book -> LocalRow]
    BY <1>4, <2>2 DEF SweepWrite, TypeOK
  <2> QED
    BY <1>4, <2>3 DEF SweepWrite, TypeOK
<1>5. ASSUME NEW b \in Book, Prune(b) PROVE TypeOK'
  BY <1>5 DEF Prune, TypeOK
<1>6. CASE Call
  BY <1>6, BackoffAssumption DEF Call, TypeOK, tables, Instant, Stamp, Null
<1>7. CASE StartPass
  BY <1>7, BackoffAssumption DEF StartPass, TypeOK, tables, Drain, Stamp, Null, Idle
<1>8. CASE EndPass
  BY <1>8 DEF EndPass, TypeOK, tables
<1>9. ASSUME NEW e \in up.due, BeginEntry(e) PROVE TypeOK'
  <2>1. e \in Entry
    BY DEF TypeOK, Drain
  <2>2. e.createdAt \in Stamp /\ local[e.book].localAt \in Stamp /\ e.id \in Nat
    BY <2>1, BackoffAssumption DEF Entry, TypeOK, LocalRow, Instant, Stamp, Null
  <2>3. up' \in Drain
    BY <1>9, <2>2 DEF BeginEntry, TypeOK, Drain
  <2> QED
    BY <1>9, <2>3 DEF BeginEntry, TypeOK, tables
<1>10. ASSUME NEW e \in up.due, AnswerRefetch(e) PROVE TypeOK'
  <2>1. remote[e.book] \in Remote
    BY DEF TypeOK, Drain, Entry
  <2> QED
    BY <1>10, <2>1 DEF AnswerRefetch, TypeOK, Drain, tables
<1>11. ASSUME NEW e \in up.due, ActOnAnswer(e) PROVE TypeOK'
  <2>1. e \in Entry /\ Drop(e) \in Drain
    BY DropTyped DEF TypeOK, Drain
  <2>2. [up EXCEPT !.pc = "sending"] \in Drain
    BY DEF TypeOK, Drain
  <2>3. up' \in Drain /\ queue' \subseteq Entry /\ local' \in [Book -> LocalRow]
    BY <1>11, <2>1, <2>2, RowOutcomesTyped DEF ActOnAnswer, TypeOK
  <2> QED
    BY <1>11, <2>3 DEF ActOnAnswer, TypeOK
<1>12. ASSUME NEW e \in up.due, Serve(e) PROVE TypeOK'
  <2>1. e \in Entry /\ e.book \in Book /\ remote[e.book] \in Remote
    BY DEF TypeOK, Drain, Entry
  <2>2. After(remote[e.book], e.intent, e.id, now) \in Remote
    BY <2>1, ServerStaysTyped DEF TypeOK, Entry
  <2>3. ASSUME NEW reply \in Attempt, Replied(reply)
        PROVE  up' \in Drain
    BY <2>3 DEF Replied, TypeOK, Drain
  <2>4. up' \in Drain
    BY <1>12, <2>3 DEF Serve, Attempt
  <2>5. late' \subseteq Request
    BY <1>12, <2>1 DEF Serve, TypeOK, RequestOf, Request, Entry
  <2>6. remote' \in [Book -> Remote] /\ excuse' \in [Book -> SUBSET Excuses]
    BY <1>12, <2>1, <2>2, ServerShowsTyped DEF Serve, TypeOK
  <2> QED
    BY <1>12, <2>4, <2>5, <2>6 DEF Serve, TypeOK, tables
<1>13. ASSUME NEW e \in up.due, FinishEntry(e) PROVE TypeOK'
  <2>1. e \in Entry /\ Drop(e) \in Drain
    BY DropTyped DEF TypeOK, Drain
  <2>2. up' \in Drain /\ queue' \subseteq Entry /\ local' \in [Book -> LocalRow]
    BY <1>13, <2>1, RowOutcomesTyped DEF FinishEntry, TypeOK
  <2> QED
    BY <1>13, <2>2 DEF FinishEntry, TypeOK
<1>14. ASSUME NEW m \in late, LateLands(m) PROVE TypeOK'
  <2>1. m \in Request /\ m.book \in Book /\ remote[m.book] \in Remote
    BY DEF TypeOK, Request
  <2>2. After(remote[m.book], m.intent, m.id, now) \in Remote
    BY <2>1, ServerStaysTyped DEF TypeOK, Request
  <2>3. remote' \in [Book -> Remote] /\ excuse' \in [Book -> SUBSET Excuses]
    BY <1>14, <2>1, <2>2, ServerShowsTyped DEF LateLands, TypeOK
  <2> QED
    BY <1>14, <2>3 DEF LateLands, TypeOK, tables
<1>15. ASSUME NEW b \in Book, NEW i \in OtherWords, OtherSays(b, i) PROVE TypeOK'
  <2>1. After(remote[b], i, 0, now) \in Remote
    BY OutboxAssumption, ServerStaysTyped DEF TypeOK
  <2>2. remote' \in [Book -> Remote] /\ excuse' \in [Book -> SUBSET Excuses]
    BY <1>15, <2>1, ServerShowsTyped DEF OtherSays
  <2> QED
    BY <1>15, <2>2 DEF OtherSays, TypeOK, tables
<1>16. ASSUME NEW b \in Book, ServerDeletes(b) PROVE TypeOK'
  <2>1. [Untouched EXCEPT !.alive = FALSE] \in Remote
    BY DEF Remote
  <2>2. remote' \in [Book -> Remote] /\ excuse' \in [Book -> SUBSET Excuses]
    BY <1>16, <2>1, ServerShowsTyped DEF ServerDeletes
  <2> QED
    BY <1>16, <2>2 DEF ServerDeletes, TypeOK, tables
<1>17. CASE Tick
  BY <1>17, BackoffAssumption DEF Tick, TypeOK, tables, Instant
<1>18. CASE Crash
  <2>1. late' \subseteq Request
    BY <1>18 DEF Crash, TypeOK, Drain, RequestOf, Request, Entry
  <2> QED
    BY <1>18, <2>1, BackoffAssumption DEF Crash, TypeOK, tables, Stamp, Null
<1>19. CASE UNCHANGED vars
  BY <1>19 DEF vars, tables, TypeOK
<1> QED
  BY <1>1, <1>2, <1>3, <1>4, <1>5, <1>6, <1>7, <1>8, <1>9, <1>10, <1>11, <1>12,
     <1>13, <1>14, <1>15, <1>16, <1>17, <1>18, <1>19
     DEF Next, Pass, User, Mirror, World

LEMMA InitTyped == Init => TypeOK
BY DefaultsAreTyped, BackoffAssumption DEF Init, TypeOK, Instant, Stamp, Null

\* Every table, process and history variable keeps its type.
THEOREM TypeCorrect == Spec => []TypeOK
BY InitTyped, TypeInductive, PTL DEF Spec

-------------------------------------------------------------------------------
(* Rows keep their identity                                                  *)

SameRow(q, r) == r.id = q.id /\ SameStatement(r, q)

\* What every step but a new statement does to the rows: none is new, none
\* changes its id or its statement, none is split.
RowsKept ==
    /\ \A r \in queue' : \E q \in queue : SameRow(q, r)
    /\ \A r, s \in queue' : r.id = s.id => r = s

LEMMA OutcomesKeepIdentity ==
    ASSUME NEW q \in Entry
    PROVE  /\ SameRow(q, Parked(q))
           /\ SameRow(q, Revived(q))
           /\ \A n, at : SameRow(q, Retried(q, n, at))
BY DEF SameRow, SameStatement, Parked, Revived, Retried, Entry

LEMMA RowsAreKept ==
    ASSUME TypeOK, IdsNameRows, NEW e \in Entry,
           \/ CompleteMutation(e) \/ GiveUp(e) \/ Penalise(e)
           \/ \E b \in Book : RetryFailed(b)
           \/ queue' = queue
    PROVE  RowsKept
<1> USE DEF IdsNameRows, TypeOK
<1>1. \A q \in queue : SameRow(q, q)
  BY DEF SameRow, SameStatement
<1>2. CASE CompleteMutation(e)
  BY <1>1, <1>2 DEF CompleteMutation, RowsKept
<1>3. CASE GiveUp(e)
  <2>1. \A q \in queue : SameRow(q, Parked(q))
    BY OutcomesKeepIdentity
  <2> QED
    BY <1>1, <1>3, <2>1 DEF GiveUp, RowsKept, SameRow
<1>4. CASE Penalise(e)
  <2>1. \A q \in queue : SameRow(q, Retried(q, e.retries + 1, up.at))
    BY OutcomesKeepIdentity
  <2> QED
    BY <1>1, <1>4, <2>1 DEF Penalise, RowsKept, SameRow
<1>5. CASE \E b \in Book : RetryFailed(b)
  <2>1. \A q \in queue : SameRow(q, Revived(q))
    BY OutcomesKeepIdentity
  <2> QED
    BY <1>1, <1>5, <2>1 DEF RetryFailed, RowsKept, SameRow
<1>6. CASE queue' = queue
  BY <1>1, <1>6 DEF RowsKept
<1> QED
  BY <1>2, <1>3, <1>4, <1>5, <1>6

\* How the drain's own steps move its snapshot.
LEMMA DrainMoves ==
    ASSUME TypeOK
    PROVE  /\ Idle.due = {} /\ Idle.cur = 0
           /\ \A e : Drop(e).due = up.due \ {e} /\ Drop(e).cur = 0
           /\ \A x : LET sent == [up EXCEPT !.pc = x]
                    IN  sent.due = up.due /\ sent.cur = up.cur
           /\ \A x, y : LET replied == [up EXCEPT !.pc = x, !.reply = y]
                       IN  replied.due = up.due /\ replied.cur = up.cur
           /\ \A x, y, z : LET asked == [up EXCEPT !.pc = x, !.cur = y, !.actAt = z]
                          IN  asked.due = up.due /\ asked.cur = y
           /\ \A x, y, z : LET heard == [up EXCEPT !.pc = x, !.kind = y, !.answer = z]
                          IN  heard.due = up.due /\ heard.cur = up.cur
<1>1. up \in Drain
  BY DEF TypeOK
<1>2. DOMAIN up = {"pc", "at", "due", "cur", "actAt", "kind", "answer", "reply"}
  BY <1>1 DEF Drain
<1> QED
  BY <1>2 DEF Idle, Drop

\* Every step is a new statement, the start of a drain, or keeps the rows and
\* takes nothing new into hand.
QuietStep == RowsKept /\ up'.due \subseteq up.due /\ UNCHANGED <<nextId, said>>

LEMMA StepShape ==
    ASSUME TypeOK, IdsNameRows, [Next]_vars
    PROVE  \/ \E b \in Book, i \in Words : Say(b, i)
           \/ StartPass
           \/ QuietStep
<1>1. ASSUME queue' = queue PROVE RowsKept
  BY <1>1 DEF RowsKept, IdsNameRows, SameRow, SameStatement
<1>2. \A e \in up.due : e \in Entry
  BY DEF TypeOK, Drain
<1>3. ASSUME NEW e \in up.due, ActOnAnswer(e) \/ FinishEntry(e) PROVE QuietStep
  <2>1. \/ CompleteMutation(e) \/ GiveUp(e) \/ Penalise(e) \/ queue' = queue
    BY <1>3 DEF ActOnAnswer, FinishEntry
  <2>2. RowsKept
    BY <1>2, <2>1, RowsAreKept
  <2>3. up'.due \subseteq up.due
    <3>1. \/ up' = Drop(e) \/ up' = Idle \/ up' = [up EXCEPT !.pc = "sending"]
      BY <1>3 DEF ActOnAnswer, FinishEntry
    <3>2. Drop(e).due \subseteq up.due /\ Idle.due \subseteq up.due
      BY DrainMoves
    <3>3. [up EXCEPT !.pc = "sending"].due \subseteq up.due
      BY DrainMoves
    <3> QED
      BY <3>1, <3>2, <3>3
  <2> QED
    BY <1>3, <2>2, <2>3 DEF QuietStep, ActOnAnswer, FinishEntry
<1>4. ASSUME NEW e \in up.due, BeginEntry(e) \/ AnswerRefetch(e) \/ Serve(e) PROVE QuietStep
  <2>1. CASE BeginEntry(e)
    BY <2>1, <1>1, DrainMoves DEF BeginEntry, QuietStep, tables
  <2>2. CASE AnswerRefetch(e)
    <3>1. \E kind, answer :
             up' = [up EXCEPT !.pc = "answered", !.kind = kind, !.answer = answer]
      BY <2>2 DEF AnswerRefetch
    <3>2. UNCHANGED <<queue, nextId, said>>
      BY <2>2 DEF AnswerRefetch, tables
    <3> QED
      BY <3>1, <3>2, <1>1, DrainMoves DEF QuietStep
  <2>3. CASE Serve(e)
    <3>1. \E reply : up' = [up EXCEPT !.pc = "replied", !.reply = reply]
      BY <2>3 DEF Serve, Replied
    <3> QED
      BY <2>3, <3>1, <1>1, DrainMoves DEF Serve, QuietStep, tables
  <2> QED
    BY <1>4, <2>1, <2>2, <2>3
<1>5. ASSUME NEW b \in Book, RetryFailed(b) PROVE QuietStep
  <2>1. queue # {}
    BY <1>5 DEF RetryFailed, RowsOf
  <2>2. RowsKept
    BY <1>5, <2>1, RowsAreKept DEF TypeOK
  <2> QED
    BY <1>5, <2>2 DEF QuietStep, RetryFailed
<1>6. ASSUME NEW b \in Book, SweepFetch(b) \/ SweepWrite(b) \/ Prune(b) PROVE QuietStep
  BY <1>1, <1>6 DEF QuietStep, SweepFetch, SweepWrite, Prune, tables
<1>7. ASSUME World PROVE QuietStep
  BY <1>1, <1>7 DEF QuietStep, World, LateLands, OtherSays, ServerDeletes, Tick, tables
<1>8. ASSUME Call \/ EndPass \/ Crash \/ UNCHANGED vars PROVE QuietStep
  BY <1>1, <1>8 DEF QuietStep, Call, EndPass, Crash, Idle, vars, tables
<1> QED
  BY <1>3, <1>4, <1>5, <1>6, <1>7, <1>8 DEF Next, Pass, User, Mirror

\* Ids and statements stay attached to their rows.
Identity == OneStatementPerBook /\ IdsAreFresh /\ IdsNameRows

LEMMA IdentityInductive ==
    ASSUME TypeOK, TypeOK', Identity, [Next]_vars
    PROVE  Identity'
<1> USE DEF Identity, OneStatementPerBook, IdsAreFresh, IdsNameRows
<1>1. ASSUME NEW b \in Book, NEW i \in Words, Say(b, i) PROVE Identity'
  <2> DEFINE new == [id |-> nextId, book |-> b, intent |-> i, createdAt |-> now,
                     retries |-> 0, state |-> "pending", nextAt |-> Null]
  <2>1. queue' = (queue \ RowsOf(b)) \cup {new}
    BY <1>1 DEF Say, Enqueue
  <2>2. said' = [said EXCEPT ![b] = [id |-> nextId, at |-> now, intent |-> i]]
        /\ nextId' = nextId + 1 /\ up' = up
    BY <1>1 DEF Say
  <2>3. \A q \in queue \ RowsOf(b) : q.book # b /\ q.book \in Book /\ q.id < nextId
    BY DEF RowsOf, TypeOK, Entry
  <2>4. new.id = nextId /\ new.book = b /\ new.intent = i /\ new.createdAt = now
    OBVIOUS
  <2> HIDE DEF new
  <2>5. OneStatementPerBook'
    <3>1. said'[b] = [id |-> nextId, at |-> now, intent |-> i]
      BY <2>2 DEF TypeOK
    <3>2. \A q \in queue \ RowsOf(b) : said'[q.book] = said[q.book]
      BY <2>2, <2>3 DEF TypeOK
    <3>3. \A e, f \in queue' : e.book = f.book => e = f
      BY <2>1, <2>3, <2>4
    <3>4. \A e \in queue' : /\ e.id = said'[e.book].id
                            /\ e.intent = said'[e.book].intent
                            /\ e.createdAt = said'[e.book].at
      BY <2>1, <2>4, <3>1, <3>2
    <3> QED
      BY <3>3, <3>4
  <2>6. IdsAreFresh'
    <3>1. \A e \in queue \cup up.due : e.id \in Nat /\ e.id < nextId
      BY DEF TypeOK, Entry, Drain
    <3>2. nextId \in Nat /\ nextId' = nextId + 1
      BY <2>2 DEF TypeOK
    <3>3. \A e \in queue' \cup up'.due : e.id < nextId'
      BY <2>1, <2>2, <2>4, <3>1, <3>2
    <3>4. \A c \in Book : said'[c].id < nextId'
      BY <2>2, <3>2 DEF TypeOK
    <3> QED
      BY <3>3, <3>4
  <2>7. IdsNameRows'
    <3>1. \A e \in up.due : e.id < nextId /\ e.id \in Nat /\ nextId \in Nat
      BY DEF TypeOK, Entry, Drain
    <3>2. \A e \in up.due : e.id # new.id
      BY <2>4, <3>1
    <3>3. \A q \in queue \ RowsOf(b) : q.id # new.id
      BY <2>3, <2>4 DEF TypeOK, Entry
    <3> QED
      BY <2>1, <2>2, <3>2, <3>3
  <2> QED
    BY <2>5, <2>6, <2>7
<1>2. ASSUME StartPass PROVE Identity'
  <2>1. up'.due \subseteq queue /\ UNCHANGED <<queue, nextId, said>>
    BY <1>2 DEF StartPass, tables, Idle
  <2> QED
    BY <2>1 DEF SameStatement
<1>3. ASSUME QuietStep PROVE Identity'
  <2>1. \A r \in queue' : \E q \in queue : SameRow(q, r)
    BY <1>3 DEF QuietStep, RowsKept
  <2>2. \A r, s \in queue' : r.id = s.id => r = s
    BY <1>3 DEF QuietStep, RowsKept
  <2>3. up'.due \subseteq up.due /\ UNCHANGED <<nextId, said>>
    BY <1>3 DEF QuietStep
  <2>4. OneStatementPerBook'
    BY <2>1, <2>2, <2>3 DEF SameRow, SameStatement
  <2>5. IdsAreFresh'
    BY <2>1, <2>3 DEF SameRow
  <2>6. IdsNameRows'
    BY <2>1, <2>2, <2>3 DEF SameRow, SameStatement
  <2> QED
    BY <2>4, <2>5, <2>6
<1> QED
  BY <1>1, <1>2, <1>3, StepShape

LEMMA InitIdentity == Init => Identity
BY DEF Init, Identity, OneStatementPerBook, IdsAreFresh, IdsNameRows, Silence, Idle

\* At most one row per book and it is the user's last statement about the book,
\* however many statements, drains, retries and crashes interleave
\* (enqueue_mutation coalesces in the transaction that writes the local row).
THEOREM OneStatement == Spec => []OneStatementPerBook
<1>1. TypeOK /\ Identity /\ [Next]_vars => (TypeOK /\ Identity)'
  BY TypeInductive, IdentityInductive
<1>2. Init => TypeOK /\ Identity
  BY InitTyped, InitIdentity
<1>3. TypeOK /\ Identity => OneStatementPerBook
  BY DEF Identity
<1> QED
  BY <1>1, <1>2, <1>3, PTL DEF Spec

-------------------------------------------------------------------------------
(* Stamps                                                                    *)

\* Only a statement stamps a local row; every other step keeps or loses it.
LEMMA StampsAreKept ==
    ASSUME TypeOK, TypeOK', [Next]_vars,
           ~ \E b \in Book, i \in Words : Say(b, i)
    PROVE  \A b \in Book : local'[b].localAt \in {Null, local[b].localAt}
<1>1. ASSUME NEW e \in up.due, CompleteMutation(e)
      PROVE  \A b \in Book : local'[b].localAt \in {Null, local[b].localAt}
  <2>1. Uploaded(local[e.book]).localAt = local[e.book].localAt
    BY DEF Uploaded, TypeOK, LocalRow, Drain, Entry
  <2> QED
    BY <1>1, <2>1 DEF CompleteMutation, TypeOK
<1>2. ASSUME NEW e \in up.due, ActOnAnswer(e) \/ FinishEntry(e)
      PROVE  CompleteMutation(e) \/ local' = local
  BY <1>2 DEF ActOnAnswer, FinishEntry
<1>3. ASSUME NEW b \in Book, SweepWrite(b)
      PROVE  \A c \in Book : local'[c].localAt \in {Null, local[c].localAt}
  <2>1. \A r, k : Mirrored(local[b], r, k).localAt = local[b].localAt
    BY DEF Mirrored, TypeOK, LocalRow
  <2> QED
    BY <1>3, <2>1 DEF SweepWrite, TypeOK
<1>4. ASSUME NEW b \in Book, Prune(b)
      PROVE  \A c \in Book : local'[c].localAt \in {Null, local[c].localAt}
  BY <1>4 DEF Prune, TypeOK, NoRow
<1>5. ASSUME \/ StartPass \/ EndPass \/ Call \/ World \/ Crash \/ UNCHANGED vars
             \/ \E b \in Book : RetryFailed(b) \/ SweepFetch(b)
             \/ \E e \in up.due : BeginEntry(e) \/ AnswerRefetch(e) \/ Serve(e)
      PROVE  local' = local
  BY <1>5 DEF StartPass, EndPass, Call, World, LateLands, OtherSays, ServerDeletes,
              Tick, Crash, RetryFailed, SweepFetch, BeginEntry, AnswerRefetch,
              Serve, tables, vars
<1> QED
  BY <1>1, <1>2, <1>3, <1>4, <1>5 DEF Next, Pass, User, Mirror

LEMMA StampsInductive ==
    ASSUME TypeOK, TypeOK', Identity, StampsAgree, [Next]_vars
    PROVE  StampsAgree'
<1> USE DEF StampsAgree
<1>1. ASSUME NEW b \in Book, NEW i \in Words, Say(b, i) PROVE StampsAgree'
  <2> DEFINE new == [id |-> nextId, book |-> b, intent |-> i, createdAt |-> now,
                     retries |-> 0, state |-> "pending", nextAt |-> Null]
  <2>1. queue' = (queue \ RowsOf(b)) \cup {new}
    BY <1>1 DEF Say, Enqueue
  <2>2. new.book = b /\ new.createdAt = now
    OBVIOUS
  <2>3. local'[b].localAt = now
    BY <1>1 DEF Say, Stated, TypeOK, LocalRow
  <2>4. \A c \in Book \ {b} : local'[c] = local[c]
    BY <1>1 DEF Say, TypeOK
  <2>5. \A q \in queue \ RowsOf(b) : q.book \in Book \ {b}
    BY DEF RowsOf, TypeOK, Entry
  <2> HIDE DEF new
  <2> QED
    BY <2>1, <2>2, <2>3, <2>4, <2>5
<1>2. ASSUME ~ \E b \in Book, i \in Words : Say(b, i) PROVE StampsAgree'
  <2>1. \A b \in Book : local'[b].localAt \in {Null, local[b].localAt}
    BY <1>2, StampsAreKept
  <2>2. \A r \in queue' : \E q \in queue : SameRow(q, r)
    <3>1. CASE StartPass
      BY <3>1 DEF StartPass, tables, SameRow, SameStatement
    <3>2. CASE QuietStep
      BY <3>2 DEF QuietStep, RowsKept
    <3> QED
      BY <1>2, <3>1, <3>2, StepShape DEF Identity
  <2>3. \A r \in queue' : r.book \in Book
    BY DEF TypeOK, Entry
  <2> QED
    BY <2>1, <2>2, <2>3 DEF SameRow, SameStatement
<1> QED
  BY <1>1, <1>2

-------------------------------------------------------------------------------
(* The judge                                                                 *)

LEMMA LandedShape ==
    ASSUME NEW r \in Remote, NEW i \in Intent, NEW id \in Nat, NEW at \in Instant
    PROVE  /\ Held(i, After(r, i, id, at))
           /\ After(r, i, id, at).completed => After(r, i, id, at).page = LastPage
<1>1. After(r, i, id, at).page = StoredPage(i) /\ After(r, i, id, at).completed = i.completed
  BY DEF After, Remote
<1>2. CASE i.kind = "progress"
  BY <1>1, <1>2 DEF Held, StoredPage
<1>3. CASE i.kind = "read"
  BY <1>1, <1>3, IntentFields DEF Held, StoredPage
<1>4. CASE i.kind = "unread"
  BY <1>1, <1>4, IntentFields DEF Held, StoredPage
<1> QED
  BY <1>2, <1>3, <1>4, IntentFields

\* Every step is a new statement, shows the judge a new server row that is at
\* its last page if it is completed, or leaves server and judge alone.
Shown(b, r) == ServerShows(b, r) /\ said' = said /\ (r.completed => r.page = LastPage)

LEMMA ServerShape ==
    ASSUME TypeOK, [Next]_vars
    PROVE  \/ \E b \in Book, i \in Words : Say(b, i)
           \/ \E b \in Book, r \in Remote : Shown(b, r)
           \/ UNCHANGED <<remote, excuse, said>>
<1>1. ASSUME NEW e \in up.due, Serve(e)
      PROVE  \/ \E b \in Book, r \in Remote : Shown(b, r)
             \/ UNCHANGED <<remote, excuse, said>>
  <2>1. e \in Entry /\ e.book \in Book /\ e.intent \in Intent /\ e.id \in Nat
    BY DEF TypeOK, Drain, Entry
  <2>2. remote[e.book] \in Remote /\ now \in Instant
    BY <2>1 DEF TypeOK
  <2>3. After(remote[e.book], e.intent, e.id, now) \in Remote
    BY <2>1, <2>2, ServerStaysTyped
  <2>4. \/ ServerShows(e.book, After(remote[e.book], e.intent, e.id, now))
        \/ UNCHANGED <<remote, excuse>>
    BY <1>1 DEF Serve
  <2>5. said' = said
    BY <1>1 DEF Serve
  <2> QED
    BY <2>1, <2>2, <2>3, <2>4, <2>5, LandedShape DEF Shown
<1>2. ASSUME NEW m \in late, LateLands(m)
      PROVE  \/ \E b \in Book, r \in Remote : Shown(b, r)
             \/ UNCHANGED <<remote, excuse, said>>
  <2>1. m.book \in Book /\ m.intent \in Intent /\ m.id \in Nat
    BY DEF TypeOK, Request
  <2>2. remote[m.book] \in Remote /\ now \in Instant
    BY <2>1 DEF TypeOK
  <2>3. After(remote[m.book], m.intent, m.id, now) \in Remote
    BY <2>1, <2>2, ServerStaysTyped
  <2>4. \/ ServerShows(m.book, After(remote[m.book], m.intent, m.id, now))
        \/ UNCHANGED <<remote, excuse>>
    BY <1>2 DEF LateLands
  <2>5. said' = said
    BY <1>2 DEF LateLands
  <2> QED
    BY <2>1, <2>2, <2>3, <2>4, <2>5, LandedShape DEF Shown
<1>3. ASSUME NEW b \in Book, NEW i \in OtherWords, OtherSays(b, i)
      PROVE  \E r \in Remote : Shown(b, r)
  <2>1. i \in Intent /\ remote[b] \in Remote /\ now \in Instant
    BY OutboxAssumption DEF TypeOK
  <2>2. After(remote[b], i, 0, now) \in Remote
    BY <2>1, ServerStaysTyped
  <2> QED
    BY <1>3, <2>1, <2>2, LandedShape DEF OtherSays, Shown
<1>4. ASSUME NEW b \in Book, ServerDeletes(b)
      PROVE  \E r \in Remote : Shown(b, r)
  <2>1. [Untouched EXCEPT !.alive = FALSE] \in Remote
    BY DefaultsAreTyped DEF Remote
  <2>2. [Untouched EXCEPT !.alive = FALSE].completed = FALSE
    BY DEF Untouched
  <2> QED
    BY <1>4, <2>1, <2>2 DEF ServerDeletes, Shown
<1>5. ASSUME \/ StartPass \/ EndPass \/ Call \/ Tick \/ Crash \/ Mirror \/ UNCHANGED vars
             \/ \E b \in Book : RetryFailed(b)
             \/ \E e \in up.due : BeginEntry(e) \/ AnswerRefetch(e) \/ ActOnAnswer(e)
                                    \/ FinishEntry(e)
      PROVE  UNCHANGED <<remote, excuse, said>>
  BY <1>5 DEF StartPass, EndPass, Call, Tick, Crash, Mirror, SweepFetch, SweepWrite,
              Prune, RetryFailed, BeginEntry, AnswerRefetch, ActOnAnswer, FinishEntry, vars
<1> QED
  BY <1>1, <1>2, <1>3, <1>4, <1>5 DEF Next, Pass, User, World

LEMMA JudgeInductive ==
    ASSUME TypeOK, JudgeIsCurrent, [Next]_vars
    PROVE  JudgeIsCurrent'
<1> USE DEF JudgeIsCurrent
<1>1. ASSUME NEW b \in Book, NEW i \in Words, Say(b, i) PROVE JudgeIsCurrent'
  <2>1. remote' = remote /\ excuse'[b] = Judge(said'[b], remote[b])
    BY <1>1 DEF Say, TypeOK
  <2>2. \A c \in Book \ {b} : said'[c] = said[c] /\ excuse'[c] = excuse[c]
    BY <1>1 DEF Say, TypeOK
  <2> QED
    BY <2>1, <2>2
<1>2. ASSUME NEW b \in Book, NEW r \in Remote, Shown(b, r) PROVE JudgeIsCurrent'
  <2>1. remote'[b] = r /\ excuse'[b] = excuse[b] \cup Judge(said[b], r) /\ said' = said
    BY <1>2 DEF Shown, ServerShows, TypeOK
  <2>2. \A c \in Book \ {b} : remote'[c] = remote[c] /\ excuse'[c] = excuse[c]
    BY <1>2 DEF Shown, ServerShows, TypeOK
  <2> QED
    BY <2>1, <2>2
<1>3. CASE UNCHANGED <<remote, excuse, said>>
  BY <1>3
<1> QED
  BY <1>1, <1>2, <1>3, ServerShape

\* Excuses pile up until the user speaks again.
LEMMA ExcusesGrow ==
    ASSUME TypeOK, [Next]_vars, NEW b \in Book, said'[b].id = said[b].id, Identity
    PROVE  excuse[b] \subseteq excuse'[b]
<1>1. ASSUME NEW c \in Book, NEW i \in Words, Say(c, i) PROVE excuse'[b] = excuse[b]
  <2>1. b # c
    <3>1. said'[c].id = nextId /\ said[c].id < nextId /\ nextId \in Nat
      BY <1>1 DEF Say, TypeOK, Identity, IdsAreFresh
    <3> QED
      BY <3>1 DEF TypeOK
  <2> QED
    BY <1>1, <2>1 DEF Say, TypeOK
<1>2. ASSUME NEW c \in Book, NEW r \in Remote, Shown(c, r) PROVE excuse[b] \subseteq excuse'[b]
  BY <1>2 DEF Shown, ServerShows, TypeOK
<1> QED
  BY <1>1, <1>2, ServerShape

-------------------------------------------------------------------------------
(* What the drain has heard                                                  *)

Reset == up'.cur = 0 /\ ~up'.answer.completed

\* What a step does to the drain.
LEMMA DrainShape ==
    ASSUME TypeOK, [Next]_vars
    PROVE  \/ up' = up
           \/ Reset
           \/ up' = [up EXCEPT !.pc = "sending"]
           \/ \E e \in up.due : \/ /\ BeginEntry(e)
                                   /\ up' # Idle
                                \/ AnswerRefetch(e)
                                \/ Serve(e)
<1>1. ASSUME up' = Idle PROVE Reset
  BY <1>1 DEF Reset, Idle, Untouched
<1>2. ASSUME NEW e \in up.due, up' = Drop(e) PROVE Reset
  BY <1>2 DEF Reset, Drop, Idle, Untouched
<1>3. CASE StartPass
  BY <1>3 DEF StartPass, Reset, Idle, Untouched
<1>4. CASE EndPass \/ Crash
  BY <1>1, <1>4 DEF EndPass, Crash
<1>5. ASSUME NEW e \in up.due, ActOnAnswer(e) \/ FinishEntry(e)
      PROVE  \/ Reset \/ up' = [up EXCEPT !.pc = "sending"]
  <2>1. \/ up' = Drop(e) \/ up' = Idle \/ up' = [up EXCEPT !.pc = "sending"]
    BY <1>5 DEF ActOnAnswer, FinishEntry
  <2> QED
    BY <1>1, <1>2, <2>1
<1>6. ASSUME NEW e \in up.due, BeginEntry(e), up' = Idle PROVE Reset
  BY <1>1, <1>6
<1>7. CASE Call \/ User \/ Mirror \/ World \/ UNCHANGED vars
  BY <1>7 DEF Call, User, Say, RetryFailed, Mirror, SweepFetch, SweepWrite, Prune,
              World, LateLands, OtherSays, ServerDeletes, Tick, vars
<1> QED
  BY <1>3, <1>4, <1>5, <1>6, <1>7 DEF Next, Pass

LEMMA CompletedInductive ==
    ASSUME TypeOK, CompletedIsLastPage, [Next]_vars
    PROVE  CompletedIsLastPage'
<1> USE DEF CompletedIsLastPage
<1>1. \A b \in Book : remote'[b].completed => remote'[b].page = LastPage
  <2>1. ASSUME NEW b \in Book, NEW r \in Remote, Shown(b, r)
        PROVE  \A c \in Book : remote'[c].completed => remote'[c].page = LastPage
    BY <2>1 DEF Shown, ServerShows, TypeOK
  <2>2. ASSUME NEW b \in Book, NEW i \in Words, Say(b, i) PROVE remote' = remote
    BY <2>2 DEF Say
  <2> QED
    BY <2>1, <2>2, ServerShape
<1>2. up'.answer.completed => up'.answer.page = LastPage
  <2>1. CASE Reset
    BY <2>1 DEF Reset
  <2>2. ASSUME NEW e \in up.due, AnswerRefetch(e)
        PROVE  up'.answer.completed => up'.answer.page = LastPage
    <3>1. e.book \in Book
      BY DEF TypeOK, Drain, Entry
    <3>2. up'.answer = remote[e.book] \/ up'.answer = Untouched
      BY <2>2 DEF AnswerRefetch, TypeOK, Drain
    <3> QED
      BY <3>1, <3>2 DEF Untouched
  <2>3. ASSUME NEW e \in up.due, (BeginEntry(e) /\ up' # Idle) \/ Serve(e)
        PROVE  up'.answer = up.answer
    BY <2>3 DEF BeginEntry, Serve, Replied, TypeOK, Drain
  <2>4. ASSUME up' = [up EXCEPT !.pc = "sending"] PROVE up'.answer = up.answer
    BY <2>4 DEF TypeOK, Drain
  <2> QED
    BY <2>1, <2>2, <2>3, <2>4, DrainShape
<1> QED
  BY <1>1, <1>2

\* What the invariant says of one row of the snapshot.
Heard(e) ==
    /\ up.actAt = e.createdAt
    /\ up.pc = "answered" =>
           /\ up.kind # "none"
           /\ up.kind = "notFound" => "gone" \in excuse[e.book]
           /\ up.kind = "found" => Judge(StatementOf(e), up.answer) \subseteq excuse[e.book]
    /\ up.pc = "replied" =>
           /\ up.reply = "succeeded" => "held" \in excuse[e.book]
           /\ up.reply = "gone" => "gone" \in excuse[e.book]

\* A snapshot row that is still queued is what the user said last.
LEMMA LiveIsSaid ==
    ASSUME TypeOK, Identity, NEW e \in up.due, Live(e)
    PROVE  /\ e.book \in Book
           /\ said[e.book].id = e.id /\ e.id # 0
           /\ said[e.book].intent = e.intent
           /\ said[e.book].at = e.createdAt
           /\ \A r : Judge(said[e.book], r) = Judge(StatementOf(e), r)
<1>1. PICK q \in queue : q.id = e.id
  BY DEF Live
<1>2. SameStatement(e, q) /\ q.id = said[q.book].id /\ q.intent = said[q.book].intent
      /\ q.createdAt = said[q.book].at
  BY <1>1 DEF Identity, IdsNameRows, OneStatementPerBook
<1>3. e.book \in Book /\ e.id # 0
  BY DEF TypeOK, Drain, Entry
<1> QED
  BY <1>1, <1>2, <1>3 DEF SameStatement, Judge, StatementOf

\* No step but a new statement brings a row back to the queue.
LEMMA LiveWasLive ==
    ASSUME TypeOK, Identity, TypeOK', Identity', [Next]_vars,
           NEW e \in up.due, e \in up'.due, Live(e)'
    PROVE  Live(e) /\ said'[e.book] = said[e.book]
<1>1. ASSUME NEW b \in Book, NEW i \in Words, Say(b, i)
      PROVE  Live(e) /\ said'[e.book] = said[e.book]
  <2>1. e.id < nextId /\ e.id \in Nat /\ nextId \in Nat /\ e.book \in Book
    BY DEF Identity, IdsAreFresh, TypeOK, Drain, Entry
  <2>2. PICK q \in queue' : q.id = e.id
    BY DEF Live
  <2>3. q \in queue /\ q.book # b
    BY <1>1, <2>1, <2>2 DEF Say, Enqueue, RowsOf
  <2>4. e.book = q.book
    BY <2>2, <2>3 DEF Identity, IdsNameRows, SameStatement
  <2> QED
    BY <1>1, <2>1, <2>2, <2>3, <2>4 DEF Live, Say, TypeOK
<1>2. ASSUME StartPass PROVE Live(e) /\ said'[e.book] = said[e.book]
  BY <1>2 DEF StartPass, tables, Live
<1>3. ASSUME QuietStep PROVE Live(e) /\ said'[e.book] = said[e.book]
  BY <1>3 DEF QuietStep, RowsKept, SameRow, Live
<1> QED
  BY <1>1, <1>2, <1>3, StepShape DEF Identity

LEMMA HeardAlong ==
    ASSUME TypeOK, Identity, TypeOK', Identity', [Next]_vars,
           NEW e \in up.due, e \in up'.due, Live(e)', Heard(e),
           up' = up \/ up' = [up EXCEPT !.pc = "sending"]
    PROVE  Heard(e)'
<1>1. excuse[e.book] \subseteq excuse'[e.book]
  <2>1. said'[e.book] = said[e.book] /\ e.book \in Book
    BY LiveWasLive DEF TypeOK, Drain, Entry
  <2> QED
    BY <2>1, ExcusesGrow
<1>2. CASE up' = up
  BY <1>1, <1>2 DEF Heard
<1>3. CASE up' = [up EXCEPT !.pc = "sending"]
  <2>1. up'.pc = "sending" /\ up'.actAt = up.actAt
    BY <1>3 DEF TypeOK, Drain
  <2> QED
    BY <2>1 DEF Heard
<1> QED
  BY <1>2, <1>3

LEMMA HeardAtBegin ==
    ASSUME TypeOK, Identity, StampsAgree, NEW e \in up.due, Live(e),
           BeginEntry(e), up' # Idle
    PROVE  Heard(e)'
<1>1. PICK q \in queue : q.id = e.id
  BY DEF Live
<1>2. q.book = e.book /\ q.createdAt = e.createdAt
  BY <1>1 DEF Identity, IdsNameRows, SameStatement
<1>3. local[e.book].localAt # Null => local[e.book].localAt = e.createdAt
  BY <1>2 DEF StampsAgree
<1>4. up'.pc = "refetching" /\ up'.actAt = e.createdAt
  BY <1>3 DEF BeginEntry, TypeOK, Drain
<1> QED
  BY <1>4 DEF Heard

LEMMA HeardAtAnswer ==
    ASSUME TypeOK, Identity, JudgeIsCurrent, NEW e \in up.due, Live(e), Heard(e),
           AnswerRefetch(e)
    PROVE  Heard(e)'
<1>1. Judge(StatementOf(e), remote[e.book]) \subseteq excuse[e.book]
  BY LiveIsSaid DEF JudgeIsCurrent
<1>2. excuse' = excuse
  BY DEF AnswerRefetch
<1>3. PICK kind \in RefetchKind :
         /\ \/ kind = "found" /\ remote[e.book].alive
            \/ kind = "notFound" /\ ~remote[e.book].alive
            \/ kind = "unauthorized"
            \/ kind = "unreachable"
         /\ up' = [up EXCEPT !.pc = "answered", !.kind = kind,
                             !.answer = IF kind = "found" THEN remote[e.book]
                                                               ELSE Untouched]
  BY DEF AnswerRefetch
<1>4. /\ up'.actAt = up.actAt /\ up'.pc = "answered" /\ up'.kind = kind
      /\ kind = "found" => up'.answer = remote[e.book]
  BY <1>3 DEF TypeOK, Drain
<1>5. up'.kind = "notFound" => "gone" \in excuse[e.book]
  <2>1. ~remote[e.book].alive => "gone" \in Judge(StatementOf(e), remote[e.book])
    BY DEF Judge, Excuses
  <2> QED
    BY <1>1, <1>3, <1>4, <2>1
<1>6. up'.kind = "found" => Judge(StatementOf(e), up'.answer) \subseteq excuse[e.book]
  BY <1>1, <1>4
<1>7. up'.kind # "none"
  BY <1>3, <1>4
<1> QED
  BY <1>2, <1>4, <1>5, <1>6, <1>7 DEF Heard, StatementOf

LEMMA HeardAtServe ==
    ASSUME TypeOK, Identity, JudgeIsCurrent, NEW e \in up.due, Live(e), Heard(e),
           Serve(e)
    PROVE  Heard(e)'
<1>1. e \in Entry /\ e.book \in Book /\ e.intent \in Intent /\ e.id \in Nat
  BY DEF TypeOK, Drain, Entry
<1>2. PICK reply : up' = [up EXCEPT !.pc = "replied", !.reply = reply]
  BY DEF Serve, Replied
<1>3. up'.actAt = up.actAt /\ up'.pc = "replied" /\ up'.reply = reply
  BY <1>2 DEF TypeOK, Drain
<1>4. ASSUME up'.reply = "succeeded" PROVE "held" \in excuse'[e.book]
  <2> DEFINE landed == After(remote[e.book], e.intent, e.id, now)
  <2>1. ServerShows(e.book, landed)
    BY <1>3, <1>4 DEF Serve, Replied, TypeOK, Drain
  <2>2. Held(e.intent, landed)
    BY <1>1, LandedShape DEF TypeOK
  <2>3. "held" \in Judge(said[e.book], landed)
    BY <2>2, LiveIsSaid DEF Judge, Excuses
  <2> QED
    BY <1>1, <2>1, <2>3 DEF ServerShows, TypeOK
<1>5. ASSUME up'.reply = "gone" PROVE "gone" \in excuse'[e.book]
  <2>1. ~remote[e.book].alive /\ excuse' = excuse
    BY <1>3, <1>5 DEF Serve, Replied, TypeOK, Drain
  <2>2. "gone" \in Judge(said[e.book], remote[e.book])
    BY <2>1 DEF Judge, Excuses
  <2> QED
    BY <1>1, <2>1, <2>2, LiveIsSaid DEF JudgeIsCurrent
<1> QED
  BY <1>3, <1>4, <1>5 DEF Heard

LEMMA HeardInductive ==
    ASSUME TypeOK, TypeOK', Identity, Identity', StampsAgree, JudgeIsCurrent,
           HeardSinceSaid, [Next]_vars
    PROVE  HeardSinceSaid'
<1> SUFFICES ASSUME NEW e \in up'.due, e.id = up'.cur, Live(e)'
             PROVE  Heard(e)'
  BY DEF HeardSinceSaid, InHand, Heard
<1>1. \A f \in up.due : f.id = up.cur /\ Live(f) => Heard(f)
  BY DEF HeardSinceSaid, InHand, Heard
<1>2. e.id # 0
  BY DEF TypeOK, Drain, Entry
<1>3. CASE up' = up
  <2>1. e \in up.due /\ e.id = up.cur
    BY <1>3
  <2> QED
    BY <1>1, <1>3, <2>1, LiveWasLive, HeardAlong
<1>4. CASE Reset
  BY <1>2, <1>4 DEF Reset
<1>5. CASE up' = [up EXCEPT !.pc = "sending"]
  <2>1. e \in up.due /\ e.id = up.cur
    BY <1>5 DEF TypeOK, Drain
  <2> QED
    BY <1>1, <1>5, <2>1, LiveWasLive, HeardAlong
<1>6. ASSUME NEW f \in up.due, BeginEntry(f), up' # Idle PROVE Heard(e)'
  <2>1. up'.due = up.due /\ up'.cur = f.id
    BY <1>6 DEF BeginEntry, TypeOK, Drain
  <2>2. e = f
    BY <2>1 DEF Identity, IdsNameRows
  <2> QED
    BY <1>6, <2>2, LiveWasLive, HeardAtBegin
<1>7. ASSUME NEW f \in up.due, AnswerRefetch(f) PROVE Heard(e)'
  <2>1. up'.due = up.due /\ up'.cur = up.cur /\ f.id = up.cur
    BY <1>7 DEF AnswerRefetch, InHand, TypeOK, Drain
  <2>2. e = f
    BY <2>1 DEF Identity, IdsNameRows
  <2>3. Live(f) /\ Heard(f)
    BY <1>1, <2>1, <2>2, LiveWasLive
  <2> QED
    BY <1>7, <2>2, <2>3, HeardAtAnswer
<1>8. ASSUME NEW f \in up.due, Serve(f) PROVE Heard(e)'
  <2>1. up'.due = up.due /\ up'.cur = up.cur /\ f.id = up.cur
    BY <1>8 DEF Serve, Replied, InHand, TypeOK, Drain
  <2>2. e = f
    BY <2>1 DEF Identity, IdsNameRows
  <2>3. Live(f) /\ Heard(f)
    BY <1>1, <2>1, <2>2, LiveWasLive
  <2> QED
    BY <1>8, <2>2, <2>3, HeardAtServe
<1> QED
  BY <1>3, <1>4, <1>5, <1>6, <1>7, <1>8, DrainShape

-------------------------------------------------------------------------------
(* The invariant, and the promise that no statement is lost                  *)

LEMMA InitInv == Init => Inv
<1> SUFFICES ASSUME Init PROVE Inv
  OBVIOUS
<1>1. TypeOK /\ Identity
  BY InitTyped, InitIdentity
<1>2. StampsAgree /\ HeardSinceSaid /\ JudgeIsCurrent
  BY DEF Init, StampsAgree, HeardSinceSaid, JudgeIsCurrent, Silence, Idle
<1>3. CompletedIsLastPage
  BY DEF Init, CompletedIsLastPage, Untouched, Idle
<1> QED
  BY <1>1, <1>2, <1>3 DEF Inv, Identity

LEMMA InvInductive == Inv /\ [Next]_vars => Inv'
<1> SUFFICES ASSUME Inv, [Next]_vars PROVE Inv'
  OBVIOUS
<1>1. TypeOK /\ Identity /\ StampsAgree /\ CompletedIsLastPage /\ HeardSinceSaid /\ JudgeIsCurrent
  BY DEF Inv, Identity
<1>2. TypeOK'
  BY <1>1, TypeInductive
<1>3. Identity'
  BY <1>1, <1>2, IdentityInductive
<1>4. StampsAgree' /\ CompletedIsLastPage' /\ HeardSinceSaid' /\ JudgeIsCurrent'
  BY <1>1, <1>2, <1>3, StampsInductive, CompletedInductive, HeardInductive, JudgeInductive
<1> QED
  BY <1>2, <1>3, <1>4 DEF Inv, Identity

\* The strengthened invariant: what the drain knows of a queued row was true of
\* the server at some moment after the user's statement.
THEOREM Invariant == Spec => []Inv
BY InitInv, InvInductive, PTL DEF Spec

\* A verdict that drops a statement is one the judge agrees with.
LEMMA DropVerdicts ==
    ASSUME Inv, NEW e \in up.due, InHand(e), Live(e), up.pc = "answered",
           Decide(e.intent, e.book, up.actAt, up.kind, up.answer)
               \in {"dropGone", "dropNoOp", "dropSuccess", "dropRemoteWins"}
    PROVE  excuse[e.book] # {}
<1> DEFINE verdict == Decide(e.intent, e.book, up.actAt, up.kind, up.answer)
<1>1. /\ up.actAt = e.createdAt /\ up.kind # "none"
      /\ up.kind = "notFound" => "gone" \in excuse[e.book]
      /\ up.kind = "found" => Judge(StatementOf(e), up.answer) \subseteq excuse[e.book]
  BY DEF Inv, HeardSinceSaid
<1>2. up.kind \in RefetchKind /\ e.intent \in Intent /\ up.answer \in Remote
  BY DEF Inv, TypeOK, Drain, Entry
<1>3. CASE verdict = "dropGone"
  BY <1>1, <1>3 DEF Decide
<1>4. ASSUME verdict \in {"dropNoOp", "dropSuccess", "dropRemoteWins"}
      PROVE  up.kind = "found" /\ e.intent.kind = "progress"
  BY <1>1, <1>2, <1>4, IntentFields DEF Decide, RefetchKind
<1>5. CASE verdict = "dropNoOp"
  <2>1. e.intent.page < 1
    BY <1>4, <1>5 DEF Decide
  <2>2. "void" \in Judge(StatementOf(e), up.answer)
    BY <1>4, <1>5, <2>1 DEF Judge, StatementOf, Excuses
  <2> QED
    BY <1>1, <1>4, <1>5, <2>2
<1>6. CASE verdict = "dropSuccess"
  <2>1. RemoteMatches(e.intent, up.answer)
    BY <1>4, <1>6 DEF Decide
  <2>2. up.answer.completed => up.answer.page = LastPage
    BY DEF Inv, CompletedIsLastPage
  <2>3. Held(e.intent, up.answer)
    BY <1>4, <1>6, <2>1, <2>2 DEF Held, StoredPage, RemoteMatches
  <2>4. "held" \in Judge(StatementOf(e), up.answer)
    BY <2>3 DEF Judge, StatementOf, Excuses
  <2> QED
    BY <1>1, <1>4, <1>6, <2>4
<1>7. CASE verdict = "dropRemoteWins"
  <2>1. up.answer.at > e.createdAt
    BY <1>1, <1>4, <1>7 DEF Decide
  <2>2. {"later", "echo"} \cap Judge(StatementOf(e), up.answer) # {}
    BY <1>4, <1>7, <2>1 DEF Judge, StatementOf, Excuses
  <2> QED
    BY <1>1, <1>4, <1>7, <2>2
<1> QED
  BY <1>3, <1>5, <1>6, <1>7

LEMMA ReplyVerdicts ==
    ASSUME Inv, NEW e \in up.due, InHand(e), Live(e), up.pc = "replied",
           up.reply \in {"succeeded", "gone"}
    PROVE  excuse[e.book] # {}
BY DEF Inv, HeardSinceSaid

\* A row that vanishes is the one in hand, settled by a verdict or a reply.
LEMMA VanishingIsSettling ==
    ASSUME Inv, Inv', [Next]_vars, NEW q \in queue, Vanishes(q)
    PROVE  excuse[q.book] # {}
<1>1. ASSUME NEW e \in up.due, ActOnAnswer(e) \/ FinishEntry(e) PROVE excuse[q.book] # {}
  <2>1. CASE GiveUp(e) \/ Penalise(e)
    <3>1. \A r \in queue : Parked(r).id = r.id /\ \A n, at : Retried(r, n, at).id = r.id
      BY OutcomesKeepIdentity DEF Inv, TypeOK, SameRow
    <3> QED
      BY <2>1, <3>1 DEF GiveUp, Penalise, Vanishes
  <2>2. CASE queue' = queue
    BY <2>2 DEF Vanishes
  <2>3. CASE CompleteMutation(e)
    <3>1. q.id = e.id
      BY <2>3 DEF CompleteMutation, Vanishes
    <3>2. Live(e) /\ q.book = e.book
      BY <3>1 DEF Live, Inv, IdsNameRows, SameStatement
    <3>3. CASE ActOnAnswer(e)
      <4>1. up.pc = "answered" /\ InHand(e)
        BY <3>3 DEF ActOnAnswer
      <4>2. CASE Decide(e.intent, e.book, up.actAt, up.kind, up.answer)
                   \in {"dropGone", "dropNoOp", "dropSuccess", "dropRemoteWins"}
        BY <3>2, <4>1, <4>2, DropVerdicts
      <4>3. CASE GiveUp(e) \/ Penalise(e) \/ queue' = queue
        BY <2>1, <2>2, <4>3
      <4> QED
        BY <3>3, <4>2, <4>3 DEF ActOnAnswer
    <3>4. CASE FinishEntry(e)
      <4>1. up.pc = "replied" /\ InHand(e)
        BY <3>4 DEF FinishEntry
      <4>2. CASE up.reply \in {"succeeded", "gone"}
        BY <3>2, <4>1, <4>2, ReplyVerdicts
      <4>3. CASE GiveUp(e) \/ Penalise(e) \/ queue' = queue
        BY <2>1, <2>2, <4>3
      <4> QED
        BY <3>4, <4>2, <4>3 DEF FinishEntry
    <3> QED
      BY <1>1, <3>3, <3>4
  <2> QED
    BY <1>1, <2>1, <2>2, <2>3 DEF ActOnAnswer, FinishEntry
<1>2. ASSUME NEW b \in Book, NEW i \in Words, Say(b, i) PROVE FALSE
  <2>1. q.book = b
    BY <1>2 DEF Say, Enqueue, RowsOf, Vanishes
  <2>2. said'[b].id = nextId
    BY <1>2 DEF Say, Inv, TypeOK
  <2>3. said[b].id < nextId /\ nextId \in Nat /\ said[b].id \in Nat
    BY DEF Inv, IdsAreFresh, TypeOK
  <2> QED
    BY <2>1, <2>2, <2>3 DEF Vanishes
<1>3. ASSUME NEW b \in Book, RetryFailed(b) PROVE FALSE
  <2>1. \A r \in queue : Revived(r).id = r.id
    BY OutcomesKeepIdentity DEF Inv, TypeOK, SameRow
  <2> QED
    BY <1>3, <2>1 DEF RetryFailed, Vanishes
<1>4. ASSUME \/ StartPass \/ EndPass \/ Call \/ World \/ Crash \/ Mirror \/ UNCHANGED vars
             \/ \E e \in up.due : BeginEntry(e) \/ AnswerRefetch(e) \/ Serve(e)
      PROVE  FALSE
  <2>1. queue' = queue
    BY <1>4 DEF StartPass, EndPass, Call, World, LateLands, OtherSays, ServerDeletes,
                Tick, Crash, Mirror, SweepFetch, SweepWrite, Prune, BeginEntry,
                AnswerRefetch, Serve, tables, vars
  <2> QED
    BY <2>1 DEF Vanishes
<1> QED
  BY <1>1, <1>2, <1>3, <1>4 DEF Next, Pass, User

\* The user's last statement about a book leaves the outbox only with an excuse
\* the server gave after it was made: no interleaving of statements with the
\* drain's two awaits, no crash, sweep, prune or late answer loses one.
THEOREM NoStatementIsLost == Spec => DropsAreExcused
<1>1. Inv /\ Inv' /\ [Next]_vars
          => [\A e \in queue : Vanishes(e) => excuse[e.book] # {}]_vars
  BY VanishingIsSettling
<1> QED
  BY <1>1, Invariant, InvInductive, PTL DEF Spec, DropsAreExcused

-------------------------------------------------------------------------------
(* The pending flag                                                          *)

\* Recording an outcome or asking for a retry keeps every book's rows.
LEMMA OutcomesKeepBooks ==
    ASSUME TypeOK, NEW e \in Entry, GiveUp(e) \/ Penalise(e) \/ \E b \in Book : RetryFailed(b)
    PROVE  \A b : Queued(b)' <=> Queued(b)
<1>1. \A q \in queue : /\ Parked(q).book = q.book /\ Revived(q).book = q.book
                       /\ \A n, at : Retried(q, n, at).book = q.book
  BY OutcomesKeepIdentity DEF TypeOK, SameRow, SameStatement
<1>2. CASE GiveUp(e)
  BY <1>1, <1>2 DEF GiveUp, Queued, RowsOf
<1>3. CASE Penalise(e)
  BY <1>1, <1>3 DEF Penalise, Queued, RowsOf
<1>4. CASE \E b \in Book : RetryFailed(b)
  BY <1>1, <1>4 DEF RetryFailed, Queued, RowsOf
<1> QED
  BY <1>2, <1>3, <1>4

\* Completing a row lowers the flag exactly when it was the book's only row.
LEMMA CompletionKeepsFlag ==
    ASSUME Inv, NEW e \in up.due, CompleteMutation(e), PendingFlagIsTruthful
    PROVE  PendingFlagIsTruthful'
<1> DEFINE kept == {q \in queue : q.id # e.id}
<1>1. queue' = kept /\ e.book \in Book
  BY DEF CompleteMutation, Inv, TypeOK, Drain, Entry
<1>2. \A q \in queue \ kept : q.book = e.book
  BY DEF Inv, IdsNameRows, SameStatement
<1>3. ASSUME NEW b \in Book, b # e.book
      PROVE  local'[b] = local[b] /\ (Queued(b)' <=> Queued(b))
  BY <1>1, <1>2, <1>3 DEF CompleteMutation, Queued, RowsOf, Inv, TypeOK
<1>4. CASE {q \in kept : q.book = e.book} = {}
  <2>1. ~Queued(e.book)'
    BY <1>1, <1>4 DEF Queued, RowsOf
  <2>2. local'[e.book].here => ~local'[e.book].pending
    <3>1. Uploaded(local[e.book]).pending = FALSE
      BY <1>1 DEF Uploaded, Inv, TypeOK, LocalRow
    <3> QED
      BY <1>1, <1>4, <3>1 DEF CompleteMutation, Inv, TypeOK
  <2> QED
    BY <1>3, <2>1, <2>2 DEF PendingFlagIsTruthful
<1>5. CASE {q \in kept : q.book = e.book} # {}
  <2>1. Queued(e.book)' /\ Queued(e.book)
    BY <1>1, <1>5 DEF Queued, RowsOf
  <2>2. local' = local
    BY <1>5 DEF CompleteMutation
  <2> QED
    BY <1>3, <2>1, <2>2 DEF PendingFlagIsTruthful
<1> QED
  BY <1>4, <1>5

LEMMA FlagInductive ==
    ASSUME Inv, Inv', PendingFlagIsTruthful, [Next]_vars
    PROVE  PendingFlagIsTruthful'
<1>1. ASSUME NEW b \in Book, NEW i \in Words, Say(b, i) PROVE PendingFlagIsTruthful'
  <2>1. local'[b].pending = TRUE
    BY <1>1 DEF Say, Stated, Inv, TypeOK, LocalRow
  <2>2. Queued(b)'
    <3> DEFINE new == [id |-> nextId, book |-> b, intent |-> i, createdAt |-> now,
                       retries |-> 0, state |-> "pending", nextAt |-> Null]
    <3>1. new \in queue' /\ new.book = b
      BY <1>1 DEF Say, Enqueue
    <3> QED
      BY <3>1 DEF Queued, RowsOf
  <2>3. \A c \in Book \ {b} : local'[c] = local[c] /\ (Queued(c)' <=> Queued(c))
    BY <1>1 DEF Say, Enqueue, Queued, RowsOf, Inv, TypeOK
  <2> QED
    BY <2>1, <2>2, <2>3 DEF PendingFlagIsTruthful
<1>2. ASSUME NEW b \in Book, RetryFailed(b) PROVE PendingFlagIsTruthful'
  <2>1. PICK e \in queue : TRUE
    BY <1>2 DEF RetryFailed, RowsOf
  <2>2. \A c : Queued(c)' <=> Queued(c)
    BY <1>2, <2>1, OutcomesKeepBooks DEF Inv, TypeOK
  <2>3. local' = local
    BY <1>2 DEF RetryFailed
  <2> QED
    BY <2>2, <2>3 DEF PendingFlagIsTruthful
<1>3. ASSUME NEW b \in Book, SweepWrite(b) PROVE PendingFlagIsTruthful'
  <2>1. \A c : Queued(c)' <=> Queued(c)
    BY <1>3 DEF SweepWrite, Queued, RowsOf
  <2>2. \A r, k : Mirrored(local[b], r, k).pending = k
    BY DEF Mirrored, Inv, TypeOK, LocalRow
  <2>3. CASE local' = local
    BY <2>1, <2>3 DEF PendingFlagIsTruthful
  <2>4. CASE local' # local
    <3> DEFINE r == sweep[b].copy
               verdict == SyncWriteFor(b, r)
               keep == verdict = "writeKeepPending"
    <3>1. /\ local' = [local EXCEPT ![b] = Mirrored(local[b], r, keep)]
          /\ verdict \in {"write", "writeKeepPending"}
      BY <1>3, <2>4 DEF SweepWrite
    <3>2. local'[b].pending = keep /\ \A c \in Book \ {b} : local'[c] = local[c]
      BY <2>2, <3>1 DEF Inv, TypeOK
    <3>3. verdict = "write" <=> ~Queued(b)
      BY DEF SyncWriteFor, Queued
    <3> HIDE DEF verdict
    <3>4. keep <=> Queued(b)
      BY <3>1, <3>3
    <3>5. local'[b].pending <=> Queued(b)
      BY ONLY <3>2, <3>4
    <3> QED
      BY <2>1, <3>2, <3>5 DEF PendingFlagIsTruthful
  <2> QED
    BY <2>3, <2>4
<1>4. ASSUME NEW b \in Book, Prune(b) PROVE PendingFlagIsTruthful'
  <2>1. queue' = queue /\ ~local'[b].here /\ \A c \in Book \ {b} : local'[c] = local[c]
    BY <1>4 DEF Prune, NoRow, Inv, TypeOK
  <2> QED
    BY <2>1 DEF PendingFlagIsTruthful, Queued, RowsOf
<1>5. ASSUME NEW e \in up.due, ActOnAnswer(e) \/ FinishEntry(e) PROVE PendingFlagIsTruthful'
  <2>1. CASE CompleteMutation(e)
    BY <2>1, CompletionKeepsFlag
  <2>2. CASE (GiveUp(e) \/ Penalise(e)) /\ local' = local
    <3>1. e \in Entry
      BY DEF Inv, TypeOK, Drain
    <3> QED
      BY <2>2, <3>1, OutcomesKeepBooks DEF Inv, PendingFlagIsTruthful
  <2>3. CASE queue' = queue /\ local' = local
    BY <2>3 DEF PendingFlagIsTruthful, Queued, RowsOf
  <2> QED
    BY <1>5, <2>1, <2>2, <2>3 DEF ActOnAnswer, FinishEntry
<1>6. ASSUME \/ StartPass \/ EndPass \/ Call \/ World \/ Crash \/ UNCHANGED vars
             \/ \E b \in Book : SweepFetch(b)
             \/ \E e \in up.due : BeginEntry(e) \/ AnswerRefetch(e) \/ Serve(e)
      PROVE  PendingFlagIsTruthful'
  <2>1. queue' = queue /\ local' = local
    BY <1>6 DEF StartPass, EndPass, Call, World, LateLands, OtherSays, ServerDeletes,
                Tick, Crash, SweepFetch, BeginEntry, AnswerRefetch, Serve, tables, vars
  <2> QED
    BY <2>1 DEF PendingFlagIsTruthful, Queued, RowsOf
<1> QED
  BY <1>1, <1>2, <1>3, <1>4, <1>5, <1>6 DEF Next, Pass, User, Mirror

\* The local row is marked as waiting exactly while a row of its book is queued
\* (complete_mutation, sync_write_for and the facade write both tables in one
\* transaction).
THEOREM FlagIsTruthful == Spec => []PendingFlagIsTruthful
<1>1. Init => PendingFlagIsTruthful
  BY DEF Init, PendingFlagIsTruthful, NoRow
<1>2. Inv /\ Inv' /\ PendingFlagIsTruthful /\ [Next]_vars => PendingFlagIsTruthful'
  BY FlagInductive
<1> QED
  BY <1>1, <1>2, Invariant, PTL DEF Spec

-------------------------------------------------------------------------------
(* What the row on this device shows                                         *)

\* The server has shown a later change than the user's last statement.
Overtaken(b) == excuse[b] \cap {"later", "echo"} # {}

Shows(row, i) == row.completed = i.completed /\ (i.kind # "read" => row.page = i.page)

\* No server copy is from the future, and a row that is gone has no stamp.
ClockIsAhead ==
    \A b \in Book : /\ remote[b].at <= now
                    /\ sweep[b].copy.at <= now
                    /\ ~local[b].here => local[b].localAt = Null

\* A sweep's copy that would win over the queued statement is one the judge has
\* seen, however long ago it was fetched.
CopiesAreJudged ==
    \A e \in queue :
        /\ sweep[e.book].full
        /\ e.intent.kind = "progress"
        /\ sweep[e.book].copy.at > e.createdAt
        => Overtaken(e.book)

\* ShowsLastWord for the rows that still carry the statement's stamp.
StampedRowsShow ==
    \A e \in queue :
        /\ local[e.book].here /\ local[e.book].localAt # Null
        /\ ~Overtaken(e.book)
        => Shows(local[e.book], e.intent)

ShownInv == ClockIsAhead /\ CopiesAreJudged /\ StampedRowsShow

\* Every queued statement has its stamped row.
QueuedRowsStand == \A e \in queue : local[e.book].here /\ local[e.book].localAt # Null

\* What a step does to a book's local row: a sweep that may write, a prune, a
\* completed statement, or nothing.
SweptTo(b, row) ==
    LET verdict == SyncWriteFor(b, sweep[b].copy)
    IN  /\ sweep[b].full
        /\ verdict \in {"write", "writeKeepPending"}
        /\ row.localAt = local[b].localAt

LEMMA LocalMoves ==
    ASSUME TypeOK, [Next]_vars, NEW b \in Book,
           ~ \E i \in Words : Say(b, i)
    PROVE  \/ local'[b] = local[b]
           \/ local'[b] = Uploaded(local[b]) /\ local[b].here
           \/ SweptTo(b, local'[b]) /\ local'[b].here
           \/ local'[b] = NoRow /\ spent["prunes"] < MaxPrunes
<1> DEFINE Goal == \/ local'[b] = local[b]
                   \/ local'[b] = Uploaded(local[b]) /\ local[b].here
                   \/ SweptTo(b, local'[b]) /\ local'[b].here
                   \/ local'[b] = NoRow /\ spent["prunes"] < MaxPrunes
<1>1. ASSUME NEW c \in Book, NEW i \in Words, Say(c, i) PROVE Goal
  BY <1>1 DEF Say, TypeOK
<1>2. ASSUME NEW e \in up.due, ActOnAnswer(e) \/ FinishEntry(e) PROVE Goal
  <2>1. CASE CompleteMutation(e)
    BY <2>1 DEF CompleteMutation, TypeOK
  <2>2. CASE local' = local
    BY <2>2
  <2> QED
    BY <1>2, <2>1, <2>2 DEF ActOnAnswer, FinishEntry
<1>3. ASSUME NEW c \in Book, SweepWrite(c) PROVE Goal
  <2>1. CASE local' = local
    BY <2>1
  <2>2. CASE local' # local
    <3>1. PICK k \in BOOLEAN : /\ local' = [local EXCEPT ![c] = Mirrored(local[c], sweep[c].copy, k)]
                               /\ SyncWriteFor(c, sweep[c].copy) \in {"write", "writeKeepPending"}
                               /\ sweep[c].full
      BY <1>3, <2>2 DEF SweepWrite
    <3>2. \A r, x : /\ Mirrored(local[c], r, x).localAt = local[c].localAt
                    /\ Mirrored(local[c], r, x).here
      BY DEF Mirrored, TypeOK, LocalRow
    <3>3. CASE c = b
      BY <3>1, <3>2, <3>3 DEF TypeOK, SweptTo
    <3>4. CASE c # b
      BY <3>1, <3>4 DEF TypeOK
    <3> QED
      BY <3>3, <3>4
  <2> QED
    BY <2>1, <2>2
<1>4. ASSUME NEW c \in Book, Prune(c) PROVE Goal
  BY <1>4 DEF Prune, TypeOK
<1>5. ASSUME \/ StartPass \/ EndPass \/ Call \/ World \/ Crash \/ UNCHANGED vars
             \/ \E c \in Book : RetryFailed(c) \/ SweepFetch(c)
             \/ \E e \in up.due : BeginEntry(e) \/ AnswerRefetch(e) \/ Serve(e)
      PROVE  local' = local
  BY <1>5 DEF StartPass, EndPass, Call, World, LateLands, OtherSays, ServerDeletes,
              Tick, Crash, RetryFailed, SweepFetch, BeginEntry, AnswerRefetch,
              Serve, tables, vars
<1> QED
  BY <1>1, <1>2, <1>3, <1>4, <1>5 DEF Next, Pass, User, Mirror

\* What a step does to a book's sweep: a fetch, or the copy stays or goes.
LEMMA SweepMoves ==
    ASSUME TypeOK, [Next]_vars, NEW b \in Book
    PROVE  /\ \/ sweep'[b] = sweep[b]
              \/ sweep'[b] = NoCopy
              \/ SweepFetch(b) /\ sweep'[b] = [full |-> TRUE, copy |-> remote[b]]
           /\ now <= now'
<1>0. now \in Nat
  BY BackoffAssumption DEF TypeOK, Instant
<1>1. ASSUME NEW c \in Book, SweepFetch(c)
      PROVE  /\ \/ sweep'[b] = sweep[b]
                \/ SweepFetch(b) /\ sweep'[b] = [full |-> TRUE, copy |-> remote[b]]
             /\ now <= now'
  <2>1. CASE c = b
    BY <1>0, <1>1, <2>1 DEF SweepFetch, TypeOK
  <2>2. CASE c # b
    BY <1>0, <1>1, <2>2 DEF SweepFetch, TypeOK
  <2> QED
    BY <2>1, <2>2
<1>2. ASSUME NEW c \in Book, SweepWrite(c)
      PROVE  (sweep'[b] = sweep[b] \/ sweep'[b] = NoCopy) /\ now <= now'
  BY <1>2 DEF SweepWrite, TypeOK, Instant
<1>3. CASE Crash
  BY <1>3 DEF Crash, TypeOK, Instant
<1>4. CASE Tick
  BY <1>4 DEF Tick, TypeOK, Instant
<1>5. ASSUME \/ StartPass \/ EndPass \/ Call \/ UNCHANGED vars
             \/ \E c \in Book : RetryFailed(c) \/ Prune(c) \/ \E i \in Words : Say(c, i)
             \/ \E e \in up.due : BeginEntry(e) \/ AnswerRefetch(e) \/ ActOnAnswer(e)
                                    \/ Serve(e) \/ FinishEntry(e)
             \/ \E m \in late : LateLands(m)
             \/ \E c \in Book : ServerDeletes(c) \/ \E i \in OtherWords : OtherSays(c, i)
      PROVE  sweep'[b] = sweep[b] /\ now <= now'
  <2>1. UNCHANGED <<sweep, now>>
    BY <1>5 DEF StartPass, EndPass, Call, LateLands, OtherSays, ServerDeletes, Say, Prune,
                RetryFailed, BeginEntry, AnswerRefetch, ActOnAnswer, FinishEntry, Serve,
                tables, vars
  <2> QED
    BY <1>0, <2>1
<1> QED
  BY <1>1, <1>2, <1>3, <1>4, <1>5 DEF Next, Pass, User, Mirror, World

\* A new server row bears a time that has come.
LEMMA ServerTimes ==
    ASSUME TypeOK, [Next]_vars, NEW b \in Book
    PROVE  remote'[b] = remote[b] \/ remote'[b].at = Null \/ remote'[b].at = now
<1> DEFINE Goal == remote'[b] = remote[b] \/ remote'[b].at = Null \/ remote'[b].at = now
<1>1. \A c \in Book : \A i, id : After(remote[c], i, id, now).at \in {Null, now}
  BY DEF After, TypeOK, Remote
<1>2. ASSUME NEW c \in Book, NEW r, ServerShows(c, r), r.at \in {Null, now} PROVE Goal
  BY <1>2 DEF ServerShows, TypeOK
<1>3. ASSUME NEW e \in up.due, Serve(e) PROVE Goal
  <2>1. e.book \in Book
    BY DEF TypeOK, Drain, Entry
  <2>2. remote' = remote \/ ServerShows(e.book, After(remote[e.book], e.intent, e.id, now))
    BY <1>3 DEF Serve
  <2> QED
    BY <1>1, <1>2, <2>1, <2>2
<1>4. ASSUME NEW m \in late, LateLands(m) PROVE Goal
  <2>1. m.book \in Book
    BY DEF TypeOK, Request
  <2>2. remote' = remote \/ ServerShows(m.book, After(remote[m.book], m.intent, m.id, now))
    BY <1>4 DEF LateLands
  <2> QED
    BY <1>1, <1>2, <2>1, <2>2
<1>5. ASSUME NEW c \in Book, NEW i \in OtherWords, OtherSays(c, i) PROVE Goal
  BY <1>1, <1>2, <1>5 DEF OtherSays
<1>6. ASSUME NEW c \in Book, ServerDeletes(c) PROVE Goal
  <2>1. [Untouched EXCEPT !.alive = FALSE].at = Null
    BY DEF Untouched
  <2> QED
    BY <1>2, <1>6, <2>1 DEF ServerDeletes
<1>7. ASSUME \/ StartPass \/ EndPass \/ Call \/ Tick \/ Crash \/ Mirror \/ UNCHANGED vars
             \/ \E c \in Book : RetryFailed(c) \/ \E i \in Words : Say(c, i)
             \/ \E e \in up.due : BeginEntry(e) \/ AnswerRefetch(e) \/ ActOnAnswer(e)
                                    \/ FinishEntry(e)
      PROVE  remote' = remote
  BY <1>7 DEF StartPass, EndPass, Call, Tick, Crash, Mirror, SweepFetch, SweepWrite, Say,
              Prune, RetryFailed, BeginEntry, AnswerRefetch, ActOnAnswer, FinishEntry, vars
<1> QED
  BY <1>3, <1>4, <1>5, <1>6, <1>7 DEF Next, Pass, User, World

LEMMA ClockInductive ==
    ASSUME TypeOK, TypeOK', ClockIsAhead, [Next]_vars
    PROVE  ClockIsAhead'
<1> SUFFICES ASSUME NEW b \in Book
             PROVE  /\ remote'[b].at <= now'
                    /\ sweep'[b].copy.at <= now'
                    /\ ~local'[b].here => local'[b].localAt = Null
  BY DEF ClockIsAhead
<1>1. /\ remote[b].at <= now /\ sweep[b].copy.at <= now
      /\ ~local[b].here => local[b].localAt = Null
  BY DEF ClockIsAhead
<1>2. /\ now \in Nat /\ now' \in Nat /\ now <= now' /\ Null <= now
      /\ remote[b].at \in Nat /\ sweep[b].copy.at \in Nat
  BY SweepMoves, BackoffAssumption DEF TypeOK, Instant, Remote, Stamp, Null
<1>3. remote'[b].at <= now'
  BY <1>1, <1>2, ServerTimes DEF Null
<1>4. sweep'[b].copy.at <= now'
  <2>1. NoCopy.copy.at = Null
    BY DEF NoCopy, Untouched
  <2>2. \/ sweep'[b].copy = sweep[b].copy
        \/ sweep'[b].copy = NoCopy.copy
        \/ sweep'[b].copy = remote[b]
    <3>1. [full |-> TRUE, copy |-> remote[b]].copy = remote[b]
      OBVIOUS
    <3> QED
      BY <3>1, SweepMoves
  <2> QED
    BY <1>1, <1>2, <2>1, <2>2 DEF Null
<1>5. ~local'[b].here => local'[b].localAt = Null
  <2>1. ASSUME NEW i \in Words, Say(b, i) PROVE local'[b].here
    BY <2>1 DEF Say, Stated, TypeOK, LocalRow
  <2>2. Uploaded(local[b]).here = local[b].here
    BY DEF Uploaded, TypeOK, LocalRow
  <2>3. NoRow.localAt = Null
    BY DEF NoRow
  <2> QED
    BY <1>1, <2>1, <2>2, <2>3, LocalMoves
<1> QED
  BY <1>3, <1>4, <1>5

\* A row that is queued after a step was queued before it with the same
\* statement, or is the new one.
LEMMA RowsComeFrom ==
    ASSUME TypeOK, TypeOK', Identity, [Next]_vars, NEW r \in queue'
    PROVE  \/ \E i \in Words : Say(r.book, i) /\ r.intent = i /\ r.createdAt = now
           \/ /\ \E q \in queue : SameRow(q, r)
              /\ ~ \E i \in Words : Say(r.book, i)
              /\ said'[r.book] = said[r.book]
<1>1. ASSUME NEW b \in Book, NEW i \in Words, Say(b, i)
      PROVE  \/ Say(r.book, i) /\ r.intent = i /\ r.createdAt = now
             \/ r \in queue /\ r.book # b /\ said'[r.book] = said[r.book]
  <2> DEFINE new == [id |-> nextId, book |-> b, intent |-> i, createdAt |-> now,
                     retries |-> 0, state |-> "pending", nextAt |-> Null]
  <2>1. r \in (queue \ RowsOf(b)) \cup {new}
    BY <1>1 DEF Say, Enqueue
  <2>2. new.book = b /\ new.intent = i /\ new.createdAt = now
    OBVIOUS
  <2>3. CASE r = new
    BY <1>1, <2>2, <2>3
  <2>4. CASE r \in queue \ RowsOf(b)
    BY <1>1, <2>4 DEF Say, RowsOf, TypeOK, Entry
  <2> QED
    BY <2>1, <2>3, <2>4
<1>2. ASSUME NEW b \in Book, NEW i \in Words, Say(b, i), NEW j \in Words, Say(r.book, j),
             r \in queue, r.book # b
      PROVE  FALSE
  <2>1. queue' = (queue \ RowsOf(b)) \cup
                   {[id |-> nextId, book |-> b, intent |-> i, createdAt |-> now,
                     retries |-> 0, state |-> "pending", nextAt |-> Null]}
    BY <1>2 DEF Say, Enqueue
  <2>2. said'[b].id = nextId /\ said'[b] = said[b]
    BY <1>2 DEF Say, TypeOK, Entry
  <2>3. said[b].id < nextId /\ nextId \in Nat /\ said[b].id \in Nat
    BY DEF Identity, IdsAreFresh, TypeOK
  <2> QED
    BY <2>2, <2>3
<1>3. SameRow(r, r)
  BY DEF SameRow, SameStatement
<1>4. ASSUME ~ \E b \in Book, i \in Words : Say(b, i), StartPass \/ QuietStep
      PROVE  (\E q \in queue : SameRow(q, r)) /\ said' = said
  BY <1>3, <1>4 DEF StartPass, QuietStep, RowsKept, tables
<1>5. CASE \E b \in Book, i \in Words : Say(b, i)
  BY <1>1, <1>2, <1>3, <1>5
<1>6. CASE ~ \E b \in Book, i \in Words : Say(b, i)
  <2>1. r.book \in Book
    BY DEF TypeOK, Entry
  <2> QED
    BY <1>4, <1>6, <2>1, StepShape DEF Identity
<1> QED
  BY <1>5, <1>6

LEMMA OvertakenStays ==
    ASSUME TypeOK, Identity, [Next]_vars, NEW b \in Book, said'[b] = said[b], Overtaken(b)
    PROVE  Overtaken(b)'
BY ExcusesGrow DEF Overtaken

LEMMA CopiesInductive ==
    ASSUME TypeOK, TypeOK', Identity, JudgeIsCurrent, ClockIsAhead, CopiesAreJudged,
           [Next]_vars
    PROVE  CopiesAreJudged'
<1> SUFFICES ASSUME NEW r \in queue', sweep'[r.book].full, r.intent.kind = "progress",
                    sweep'[r.book].copy.at > r.createdAt
             PROVE  Overtaken(r.book)'
  BY DEF CopiesAreJudged
<1>1. r.book \in Book
  BY DEF TypeOK, Entry
<1>2. ASSUME NEW i \in Words, Say(r.book, i), r.createdAt = now PROVE FALSE
  <2>1. sweep' = sweep /\ sweep[r.book].copy.at <= now
    BY <1>1, <1>2 DEF Say, ClockIsAhead
  <2>2. sweep[r.book].copy.at \in Nat /\ now \in Nat
    BY <1>1, BackoffAssumption DEF TypeOK, Remote, Stamp, Null, Instant
  <2> QED
    BY <1>2, <2>1, <2>2
<1>3. ASSUME NEW q \in queue, SameRow(q, r), said'[r.book] = said[r.book]
      PROVE  Overtaken(r.book)'
  <2>1. q.book = r.book /\ q.intent = r.intent /\ q.createdAt = r.createdAt
    BY <1>3 DEF SameRow, SameStatement
  <2>2. CASE sweep'[r.book] = sweep[r.book]
    <3>1. Overtaken(r.book)
      BY <2>1, <2>2 DEF CopiesAreJudged
    <3> QED
      BY <1>1, <1>3, <3>1, OvertakenStays
  <2>3. CASE SweepFetch(r.book) /\ sweep'[r.book] = [full |-> TRUE, copy |-> remote[r.book]]
    <3>1. said[r.book].id = q.id /\ said[r.book].at = q.createdAt
          /\ said[r.book].intent = q.intent /\ q.id # 0
      BY <2>1 DEF Identity, OneStatementPerBook, TypeOK, Entry
    <3>2. Judge(said[r.book], remote[r.book]) \subseteq excuse[r.book]
      BY <1>1, <3>1 DEF JudgeIsCurrent
    <3>3. remote[r.book].at > said[r.book].at
      BY <2>1, <2>3, <3>1
    <3>4. {"later", "echo"} \cap Judge(said[r.book], remote[r.book]) # {}
      BY <2>1, <3>1, <3>3 DEF Judge, Excuses
    <3>5. Overtaken(r.book)
      BY <3>2, <3>4 DEF Overtaken
    <3> QED
      BY <1>1, <1>3, <3>5, OvertakenStays
  <2>4. ~NoCopy.full
    BY DEF NoCopy
  <2> QED
    BY <1>1, <2>2, <2>3, <2>4, SweepMoves
<1> QED
  BY <1>2, <1>3, RowsComeFrom

\* A statement shows at once.
LEMMA StatedShows ==
    ASSUME NEW row \in LocalRow, NEW i \in Intent
    PROVE  Shows(Stated(row, i), i)
BY DEF Stated, LocalRow, Shows

\* A sweep that may write over a stamped row of a queued statement brings a
\* change the judge has seen.
LEMMA SweepsOvertake ==
    ASSUME TypeOK, Identity, StampsAgree, CopiesAreJudged, NEW q \in queue, NEW row,
           SweptTo(q.book, row), local[q.book].here, local[q.book].localAt # Null
    PROVE  Overtaken(q.book)
<1> DEFINE r == sweep[q.book].copy
<1>1. q \in RowsOf(q.book)
  BY DEF RowsOf
<1>2. \A e \in RowsOf(q.book) : e = q
  BY DEF RowsOf, Identity, OneStatementPerBook
<1>3. SyncWriteFor(q.book, r) \in {"write", "writeKeepPending"} /\ sweep[q.book].full
  BY DEF SweptTo
<1>4. q.intent.kind = "progress" /\ r.at > local[q.book].localAt
  BY <1>1, <1>2, <1>3 DEF SyncWriteFor
<1>5. local[q.book].localAt = q.createdAt
  BY DEF StampsAgree
<1> QED
  BY <1>3, <1>4, <1>5 DEF CopiesAreJudged

LEMMA ShowsInductive ==
    ASSUME TypeOK, TypeOK', Identity, StampsAgree, ClockIsAhead, CopiesAreJudged,
           StampedRowsShow, [Next]_vars
    PROVE  StampedRowsShow'
<1> SUFFICES ASSUME NEW r \in queue', local'[r.book].here, local'[r.book].localAt # Null,
                    ~Overtaken(r.book)'
             PROVE  Shows(local'[r.book], r.intent)
  BY DEF StampedRowsShow
<1>1. r.book \in Book
  BY DEF TypeOK, Entry
<1>2. ASSUME NEW i \in Words, Say(r.book, i), r.intent = i
      PROVE  Shows(local'[r.book], r.intent)
  <2>1. local'[r.book] = Stated(local[r.book], i) /\ i \in Intent
    BY <1>1, <1>2, OutboxAssumption DEF Say, TypeOK
  <2> QED
    BY <1>1, <1>2, <2>1, StatedShows DEF TypeOK
<1>3. ASSUME NEW q \in queue, SameRow(q, r), said'[r.book] = said[r.book],
             ~ \E i \in Words : Say(r.book, i)
      PROVE  Shows(local'[r.book], r.intent)
  <2>1. q.book = r.book /\ q.intent = r.intent
    BY <1>3 DEF SameRow, SameStatement
  <2>2. ~Overtaken(r.book)
    BY <1>1, <1>3, OvertakenStays
  <2>3. local[q.book].here /\ local[q.book].localAt # Null => Shows(local[r.book], r.intent)
    BY <2>1, <2>2 DEF StampedRowsShow
  <2>4. CASE local'[r.book] = local[r.book]
    BY <2>1, <2>3, <2>4
  <2>5. CASE local'[r.book] = Uploaded(local[r.book])
    <3>1. /\ Uploaded(local[r.book]).here = local[r.book].here
          /\ Uploaded(local[r.book]).localAt = local[r.book].localAt
          /\ Uploaded(local[r.book]).page = local[r.book].page
          /\ Uploaded(local[r.book]).completed = local[r.book].completed
      BY <1>1 DEF Uploaded, TypeOK, LocalRow
    <3> QED
      BY <2>1, <2>3, <2>5, <3>1 DEF Shows
  <2>6. CASE SweptTo(r.book, local'[r.book])
    <3>1. local[r.book].localAt # Null /\ local[r.book].here
      BY <1>1, <2>6 DEF SweptTo, ClockIsAhead
    <3> QED
      BY <2>1, <2>2, <2>6, <3>1, SweepsOvertake
  <2>7. CASE local'[r.book] = NoRow
    BY <2>7 DEF NoRow
  <2> QED
    BY <1>1, <1>3, <2>4, <2>5, <2>6, <2>7, LocalMoves
<1> QED
  BY <1>2, <1>3, RowsComeFrom

LEMMA ShownInductive == Inv /\ Inv' /\ ShownInv /\ [Next]_vars => ShownInv'
<1> SUFFICES ASSUME Inv, Inv', ShownInv, [Next]_vars PROVE ShownInv'
  OBVIOUS
<1>1. /\ TypeOK /\ TypeOK' /\ Identity /\ StampsAgree /\ JudgeIsCurrent
      /\ ClockIsAhead /\ CopiesAreJudged /\ StampedRowsShow
  BY DEF Inv, Identity, ShownInv
<1> QED
  BY <1>1, ClockInductive, CopiesInductive, ShowsInductive DEF ShownInv

LEMMA InitShown == Init => ShownInv
BY BackoffAssumption
   DEF Init, ShownInv, ClockIsAhead, CopiesAreJudged, StampedRowsShow, Untouched, NoCopy, NoRow, Null

LEMMA ShownThroughout == Spec => []ShownInv
BY Invariant, InvInductive, InitShown, ShownInductive, PTL DEF Spec

\* While the row on this device carries the stamp of the statement that is
\* queued, it shows that statement, unless the server has shown a later change:
\* no sweep takes it back, however stale its copy and however many prunes, kills
\* and late requests there were (sync_write_for compares times only while
\* something is queued).
THEOREM StampedRowsHold == Spec => []StampedRowsShow
BY ShownThroughout, PTL DEF ShownInv

\* Where no sweep infers a deletion, every queued statement has its row.
LEMMA StandInductive ==
    ASSUME MaxPrunes = 0, TypeOK, TypeOK', Identity, QueuedRowsStand, [Next]_vars
    PROVE  QueuedRowsStand'
<1> SUFFICES ASSUME NEW r \in queue'
             PROVE  local'[r.book].here /\ local'[r.book].localAt # Null
  BY DEF QueuedRowsStand
<1>1. r.book \in Book
  BY DEF TypeOK, Entry
<1>2. ASSUME NEW i \in Words, Say(r.book, i)
      PROVE  local'[r.book].here /\ local'[r.book].localAt # Null
  <2>1. local'[r.book].here /\ local'[r.book].localAt = now
    BY <1>1, <1>2 DEF Say, Stated, TypeOK, LocalRow
  <2> QED
    BY <2>1, BackoffAssumption DEF TypeOK, Instant, Null
<1>3. ASSUME NEW q \in queue, SameRow(q, r), ~ \E i \in Words : Say(r.book, i)
      PROVE  local'[r.book].here /\ local'[r.book].localAt # Null
  <2>1. local[r.book].here /\ local[r.book].localAt # Null
    BY <1>3 DEF SameRow, SameStatement, QueuedRowsStand
  <2>2. /\ Uploaded(local[r.book]).here = local[r.book].here
        /\ Uploaded(local[r.book]).localAt = local[r.book].localAt
    BY <1>1 DEF Uploaded, TypeOK, LocalRow
  <2>3. ~(spent["prunes"] < MaxPrunes)
    BY DEF TypeOK
  <2>4. SweptTo(r.book, local'[r.book]) => local'[r.book].localAt = local[r.book].localAt
    BY DEF SweptTo
  <2> QED
    BY <1>1, <1>3, <2>1, <2>2, <2>3, <2>4, LocalMoves
<1> QED
  BY <1>2, <1>3, RowsComeFrom

LEMMA StandsThroughout == ASSUME MaxPrunes = 0 PROVE Spec => []QueuedRowsStand
<1>1. Init => QueuedRowsStand
  BY DEF Init, QueuedRowsStand
<1>2. Inv /\ Inv' /\ QueuedRowsStand /\ [Next]_vars => QueuedRowsStand'
  BY StandInductive DEF Inv, Identity
<1> QED
  BY <1>1, <1>2, Invariant, PTL DEF Spec

\* The screen never forgets what the user said last: whatever drains, retries,
\* kills and stale sweeps do meanwhile, the row shows it until the server shows
\* a later change. A wrongly inferred deletion is the one step it does not
\* survive: the next sweep fills the row anew, without a stamp.
THEOREM LastWordIsShown == ASSUME MaxPrunes = 0 PROVE Spec => []ShowsLastWord
<1>1. ShownInv /\ QueuedRowsStand => ShowsLastWord
  BY DEF ShownInv, QueuedRowsStand, StampedRowsShow, ShowsLastWord, Shows, Overtaken
<1> QED
  BY <1>1, StandsThroughout, ShownThroughout, PTL

\* Nor does a drain then meet a row without its stamp.
THEOREM DrainCompletes == ASSUME MaxPrunes = 0 PROVE Spec => []DrainNeverAborts
<1>1. QueuedRowsStand => DrainNeverAborts
  BY DEF QueuedRowsStand, DrainNeverAborts
<1> QED
  BY <1>1, StandsThroughout, PTL

-------------------------------------------------------------------------------
(* Old words                                                                 *)

\* The snapshot holds one row a book, and a row that is not the user's last
\* statement is there only while that statement is queued.
SnapshotIsAhead ==
    /\ \A e, f \in up.due : e.book = f.book => e = f
    /\ \A e \in up.due : e.id # said[e.book].id => Queued(e.book)

\* A row leaves the queue for a newer statement of its book, or because the
\* drain settles its snapshot row of that id and drops it from the snapshot.
LEMMA GoneIsDropped ==
    ASSUME TypeOK, [Next]_vars, NEW q \in queue, \A r \in queue' : r.id # q.id
    PROVE  \/ \E i \in Words : Say(q.book, i)
           \/ \E e \in up.due : e.id = q.id /\ up'.due = up.due \ {e}
<1> DEFINE Goal == \/ \E i \in Words : Say(q.book, i)
                   \/ \E e \in up.due : e.id = q.id /\ up'.due = up.due \ {e}
<1>1. ASSUME NEW e \in up.due, ActOnAnswer(e) \/ FinishEntry(e) PROVE Goal
  <2>1. CASE GiveUp(e) \/ Penalise(e)
    <3>1. Parked(q).id = q.id /\ \A n, at : Retried(q, n, at).id = q.id
      BY OutcomesKeepIdentity DEF TypeOK, SameRow
    <3> QED
      BY <2>1, <3>1 DEF GiveUp, Penalise
  <2>2. CASE queue' = queue
    BY <2>2
  <2>3. CASE CompleteMutation(e) /\ up' = Drop(e)
    <3>1. q.id = e.id
      BY <2>3 DEF CompleteMutation
    <3> QED
      BY <2>3, <3>1, DrainMoves
  <2> QED
    BY <1>1, <2>1, <2>2, <2>3 DEF ActOnAnswer, FinishEntry
<1>2. ASSUME NEW b \in Book, NEW i \in Words, Say(b, i) PROVE Goal
  <2>1. q.book = b
    BY <1>2 DEF Say, Enqueue, RowsOf
  <2> QED
    BY <1>2, <2>1
<1>3. ASSUME NEW b \in Book, RetryFailed(b) PROVE Goal
  <2>1. Revived(q).id = q.id
    BY OutcomesKeepIdentity DEF TypeOK, SameRow
  <2> QED
    BY <1>3, <2>1 DEF RetryFailed
<1>4. ASSUME \/ StartPass \/ EndPass \/ Call \/ World \/ Crash \/ Mirror \/ UNCHANGED vars
             \/ \E e \in up.due : BeginEntry(e) \/ AnswerRefetch(e) \/ Serve(e)
      PROVE  queue' = queue
  BY <1>4 DEF StartPass, EndPass, Call, World, LateLands, OtherSays, ServerDeletes,
              Tick, Crash, Mirror, SweepFetch, SweepWrite, Prune, BeginEntry,
              AnswerRefetch, Serve, tables, vars
<1> QED
  BY <1>1, <1>2, <1>3, <1>4 DEF Next, Pass, User

LEMMA SnapshotInductive ==
    ASSUME TypeOK, TypeOK', Identity, SnapshotIsAhead, [Next]_vars
    PROVE  SnapshotIsAhead'
<1> USE DEF SnapshotIsAhead
<1>1. ASSUME StartPass PROVE SnapshotIsAhead'
  <2>1. up'.due \subseteq queue /\ UNCHANGED <<queue, said>>
    BY <1>1 DEF StartPass, tables, Idle
  <2> QED
    BY <2>1 DEF Identity, OneStatementPerBook
<1>2. ASSUME NEW b \in Book, NEW i \in Words, Say(b, i) PROVE SnapshotIsAhead'
  <2> DEFINE new == [id |-> nextId, book |-> b, intent |-> i, createdAt |-> now,
                     retries |-> 0, state |-> "pending", nextAt |-> Null]
  <2>1. up' = up /\ new \in queue' /\ new.book = b
    BY <1>2 DEF Say, Enqueue
  <2>2. \A c \in Book \ {b} : said'[c] = said[c] /\ (Queued(c) => Queued(c)')
    BY <1>2 DEF Say, Enqueue, Queued, RowsOf, TypeOK
  <2>3. Queued(b)'
    BY <2>1 DEF Queued, RowsOf
  <2> HIDE DEF new
  <2>4. \A e \in up.due : e.book \in Book
    BY DEF TypeOK, Drain, Entry
  <2> QED
    BY <2>1, <2>2, <2>3, <2>4
<1>3. ASSUME QuietStep, ~ \E b \in Book, i \in Words : Say(b, i) PROVE SnapshotIsAhead'
  <2> SUFFICES ASSUME NEW e \in up'.due, e.id # said'[e.book].id
               PROVE  Queued(e.book)'
    BY <1>3 DEF QuietStep
  <2>1. e \in up.due /\ said' = said
    BY <1>3 DEF QuietStep
  <2>2. PICK q \in queue : q.book = e.book
    BY <2>1 DEF Queued, RowsOf
  <2>3. q.book \in Book
    BY DEF TypeOK, Entry
  <2>4. CASE \E r \in queue' : r.id = q.id
    <3>1. PICK r \in queue' : r.id = q.id
      BY <2>4
    <3>2. PICK p \in queue : SameRow(p, r)
      BY <1>3 DEF QuietStep, RowsKept
    <3>3. p = q
      BY <3>1, <3>2 DEF SameRow, Identity, IdsNameRows
    <3> QED
      BY <2>2, <3>2, <3>3 DEF SameRow, SameStatement, Queued, RowsOf
  <2>5. CASE \A r \in queue' : r.id # q.id
    <3>1. PICK f \in up.due : f.id = q.id /\ up'.due = up.due \ {f}
      BY <1>3, <2>3, <2>5, GoneIsDropped
    <3>2. f.book = e.book
      BY <2>2, <3>1 DEF Identity, IdsNameRows, SameStatement
    <3>3. f = e
      BY <2>1, <3>2
    <3> QED
      BY <3>1, <3>3
  <2> QED
    BY <2>4, <2>5
<1> QED
  BY <1>1, <1>2, <1>3, StepShape DEF Identity

\* An older statement that changes the server is the drain's own, or a request
\* it had given up on.
LEMMA LandsFrom ==
    ASSUME TypeOK, [Next]_vars, NEW b \in Book, remote'[b] # remote[b]
    PROVE  /\ said' = said
           /\ \/ remote'[b].by = 0
              \/ \E e \in up.due : e.book = b /\ remote'[b].by = e.id
              \/ \E m \in late : m.book = b /\ remote'[b].by = m.id
<1> DEFINE Goal == /\ said' = said
                   /\ \/ remote'[b].by = 0
                      \/ \E e \in up.due : e.book = b /\ remote'[b].by = e.id
                      \/ \E m \in late : m.book = b /\ remote'[b].by = m.id
<1>1. \A c \in Book : \A i, id : After(remote[c], i, id, now).by = id
  BY DEF After, TypeOK, Remote
<1>2. ASSUME NEW c \in Book, NEW r, ServerShows(c, r)
      PROVE  c = b /\ remote'[b] = r
  BY <1>2 DEF ServerShows, TypeOK
<1>3. ASSUME NEW e \in up.due, Serve(e) PROVE Goal
  <2>1. e.book \in Book /\ said' = said
    BY <1>3 DEF Serve, TypeOK, Drain, Entry
  <2>2. remote' = remote \/ ServerShows(e.book, After(remote[e.book], e.intent, e.id, now))
    BY <1>3 DEF Serve
  <2>3. e.book = b /\ remote'[b] = After(remote[e.book], e.intent, e.id, now)
    BY <1>2, <2>1, <2>2
  <2> QED
    BY <1>1, <2>1, <2>3
<1>4. ASSUME NEW m \in late, LateLands(m) PROVE Goal
  <2>1. m.book \in Book /\ said' = said
    BY <1>4 DEF LateLands, TypeOK, Request
  <2>2. remote' = remote \/ ServerShows(m.book, After(remote[m.book], m.intent, m.id, now))
    BY <1>4 DEF LateLands
  <2>3. m.book = b /\ remote'[b] = After(remote[m.book], m.intent, m.id, now)
    BY <1>2, <2>1, <2>2
  <2> QED
    BY <1>1, <2>1, <2>3
<1>5. ASSUME NEW c \in Book, NEW i \in OtherWords, OtherSays(c, i) PROVE Goal
  BY <1>1, <1>2, <1>5 DEF OtherSays
<1>6. ASSUME NEW c \in Book, ServerDeletes(c) PROVE Goal
  <2>1. [Untouched EXCEPT !.alive = FALSE].by = 0
    BY DEF Untouched
  <2> QED
    BY <1>2, <1>6, <2>1 DEF ServerDeletes
<1>7. ASSUME \/ StartPass \/ EndPass \/ Call \/ Tick \/ Crash \/ Mirror \/ UNCHANGED vars
             \/ \E c \in Book : RetryFailed(c) \/ \E i \in Words : Say(c, i)
             \/ \E e \in up.due : BeginEntry(e) \/ AnswerRefetch(e) \/ ActOnAnswer(e)
                                    \/ FinishEntry(e)
      PROVE  remote' = remote
  BY <1>7 DEF StartPass, EndPass, Call, Tick, Crash, Mirror, SweepFetch, SweepWrite, Say,
              Prune, RetryFailed, BeginEntry, AnswerRefetch, ActOnAnswer, FinishEntry, vars
<1> QED
  BY <1>3, <1>4, <1>5, <1>6, <1>7 DEF Next, Pass, User, World

\* A request can be abandoned only where the bound leaves room for one.
LEMMA NoneAbandoned ==
    ASSUME MaxLate = 0, late = {}, [Next]_vars
    PROVE  late' = {}
<1>1. ~(Cardinality(late) < MaxLate)
  BY FS_EmptySet
<1>2. ASSUME NEW e \in up.due, Serve(e) PROVE late' = {}
  BY <1>1, <1>2 DEF Serve
<1>3. CASE Crash
  BY <1>1, <1>3 DEF Crash
<1>4. ASSUME NEW m \in late PROVE FALSE
  OBVIOUS
<1>5. ASSUME \/ StartPass \/ EndPass \/ Call \/ User \/ Tick \/ Mirror \/ UNCHANGED vars
             \/ \E e \in up.due : BeginEntry(e) \/ AnswerRefetch(e) \/ ActOnAnswer(e)
                                    \/ FinishEntry(e)
             \/ \E c \in Book : ServerDeletes(c) \/ \E i \in OtherWords : OtherSays(c, i)
      PROVE  late' = late
  BY <1>5 DEF StartPass, EndPass, Call, User, Tick, Mirror, SweepFetch, SweepWrite, Say,
              Prune, RetryFailed, BeginEntry, AnswerRefetch, ActOnAnswer, FinishEntry,
              ServerDeletes, OtherSays, vars
<1> QED
  BY <1>2, <1>3, <1>4, <1>5 DEF Next, Pass, World

LEMMA OldWordStep ==
    ASSUME Inv, SnapshotIsAhead, [Next]_vars, NEW b \in Book, remote'[b] # remote[b],
           remote'[b].by \in 1 .. (said[b].id - 1)
    PROVE  \/ \E e \in queue : e.id = said[b].id
           \/ \E m \in late : m.book = b /\ m.id = remote'[b].by
<1>1. remote'[b].by # 0 /\ remote'[b].by # said[b].id
  BY DEF Inv, TypeOK
<1>2. ASSUME NEW e \in up.due, e.book = b, remote'[b].by = e.id
      PROVE  \E q \in queue : q.id = said[b].id
  <2>1. Queued(b)
    BY <1>1, <1>2 DEF SnapshotIsAhead
  <2> QED
    BY <2>1 DEF Queued, RowsOf, Inv, OneStatementPerBook
<1> QED
  BY <1>1, <1>2, LandsFrom DEF Inv

LEMMA SnapshotThroughout == Spec => []SnapshotIsAhead
<1>1. Init => SnapshotIsAhead
  BY DEF Init, SnapshotIsAhead, Idle
<1>2. Inv /\ Inv' /\ SnapshotIsAhead /\ [Next]_vars => SnapshotIsAhead'
  BY SnapshotInductive DEF Inv, Identity
<1> QED
  BY <1>1, <1>2, Invariant, PTL DEF Spec

\* A statement of ours lands over a newer one only while the newer one is still
\* queued, or as a request the app gave up on.
OldWordsComeLate ==
    [][\A b \in Book :
          /\ remote'[b] # remote[b]
          /\ remote'[b].by \in 1 .. (said[b].id - 1)
          => \/ \E e \in queue : e.id = said[b].id
             \/ \E m \in late : m.book = b /\ m.id = remote'[b].by]_vars

\* An older statement of ours lands on the server only while the newer one is
\* still queued, or out of a request that was given up on.
THEOREM OldWordsOnlyComeLate == Spec => OldWordsComeLate
<1>1. Inv /\ SnapshotIsAhead /\ [Next]_vars
        => [\A b \in Book :
               /\ remote'[b] # remote[b]
               /\ remote'[b].by \in 1 .. (said[b].id - 1)
               => \/ \E e \in queue : e.id = said[b].id
                  \/ \E m \in late : m.book = b /\ m.id = remote'[b].by]_vars
  BY OldWordStep
<1> QED
  BY <1>1, SnapshotThroughout, Invariant, PTL DEF Spec, OldWordsComeLate

\* Where no abandoned request is ever served, a statement that is settled is
\* never undone by an older one of this device (one drain at a time, which
\* forgets a row it finds gone from the queue).
THEOREM OldWordsStayOld == ASSUME MaxLate = 0 PROVE Spec => OldWordStaysOld
<1>1. Spec => [](late = {})
  <2>1. Init => late = {}
    BY DEF Init
  <2>2. late = {} /\ [Next]_vars => (late = {})'
    BY NoneAbandoned
  <2> QED
    BY <2>1, <2>2, PTL DEF Spec
<1>2. Inv /\ SnapshotIsAhead /\ late = {} /\ [Next]_vars
        => [\A b \in Book :
               /\ remote'[b] # remote[b]
               /\ remote'[b].by \in 1 .. (said[b].id - 1)
               => \E e \in queue : e.id = said[b].id]_vars
  BY OldWordStep
<1> QED
  BY <1>1, <1>2, SnapshotThroughout, Invariant, PTL DEF Spec, OldWordStaysOld

-------------------------------------------------------------------------------
(* Refinement: the outbox implements LastWord                                *)

\* The debt of the refinement mapping.
Debt == [b \in Book |->
            IF \E e \in queue : e.book = b /\ e.state = "pending" THEN "owed"
            ELSE IF \E e \in queue : e.book = b THEN "givenUp"
            ELSE "none"]

Standing(q) == IF q.state = "pending" THEN "owed" ELSE "givenUp"

LEMMA DebtOfRow ==
    ASSUME TypeOK, OneStatementPerBook, NEW q \in queue
    PROVE  q.book \in Book /\ Debt[q.book] = Standing(q)
<1>1. q.book \in Book
  BY DEF TypeOK, Entry
<1>2. \A e \in queue : e.book = q.book => e = q
  BY DEF OneStatementPerBook
<1> QED
  BY <1>1, <1>2 DEF Debt, Standing

LEMMA DebtElsewhere ==
    ASSUME NEW b \in Book, \A c \in Book \ {b} : RowsOf(c)' = RowsOf(c)
    PROVE  Debt' = [Debt EXCEPT ![b] = Debt'[b]]
<1>1. ASSUME NEW c \in Book \ {b} PROVE Debt'[c] = Debt[c]
  <2>1. \A e : (e \in queue /\ e.book = c) <=> (e \in queue' /\ e.book = c)
    BY DEF RowsOf
  <2> QED
    BY <2>1 DEF Debt
<1>2. /\ Debt = [c \in Book |-> Debt[c]]
      /\ Debt' = [c \in Book |-> Debt'[c]]
  BY DEF Debt
<1>3. \A c \in Book : Debt'[c] = IF c = b THEN Debt'[b] ELSE Debt[c]
  BY <1>1
<1> QED
  BY <1>2, <1>3

LEMMA SpeakRefines ==
    ASSUME Inv, Inv', NEW b \in Book, NEW i \in Words, Say(b, i)
    PROVE  LW!Speak(b)
<1> DEFINE new == [id |-> nextId, book |-> b, intent |-> i, createdAt |-> now,
                   retries |-> 0, state |-> "pending", nextAt |-> Null]
<1>1. queue' = (queue \ RowsOf(b)) \cup {new}
  BY DEF Say, Enqueue
<1>2. new.book = b /\ new.state = "pending"
  OBVIOUS
<1> HIDE DEF new
<1>3. \A c \in Book \ {b} : RowsOf(c)' = RowsOf(c)
  BY <1>1, <1>2 DEF RowsOf
<1>4. Debt'[b] = "owed"
  BY <1>1, <1>2 DEF Debt
<1>5. Debt' = [Debt EXCEPT ![b] = "owed"]
  BY <1>3, <1>4, DebtElsewhere
<1>6. excuse' = [excuse EXCEPT ![b] = Judge(said'[b], remote[b])]
  BY DEF Say
<1>7. Judge(said'[b], remote[b]) \in SUBSET Excuses
  BY DEF Judge
<1> QED
  BY <1>5, <1>6, <1>7 DEF LW!Speak, Debt

LEMMA ObserveRefines ==
    ASSUME NEW b \in Book, NEW r \in Remote, ServerShows(b, r), queue' = queue
    PROVE  LW!Observe(b)
<1>1. excuse' = [excuse EXCEPT ![b] = excuse[b] \cup Judge(said[b], r)]
  BY DEF ServerShows
<1>2. Judge(said[b], r) \in SUBSET Excuses
  BY DEF Judge
<1>3. \E x \in SUBSET Excuses : excuse' = [excuse EXCEPT ![b] = excuse[b] \cup x]
  BY <1>1, <1>2
<1>4. Debt' = Debt
  BY DEF Debt
<1> QED
  BY <1>3, <1>4 DEF LW!Observe, Debt

\* Changing one row's state changes its book's debt to the new standing.
LEMMA StandingRefines ==
    ASSUME Inv, Inv', NEW q \in queue, NEW r, SameRow(q, r),
           queue' = {IF s.id = q.id THEN r ELSE s : s \in queue},
           excuse' = excuse
    PROVE  \/ LW!GiveUp(q.book) \/ LW!TakeUp(q.book)
           \/ UNCHANGED <<Debt, excuse>>
<1>1. \A s \in queue : s.id = q.id => s = q
  BY DEF Inv, IdsNameRows
<1>2. r \in queue' /\ r.book = q.book
  BY DEF SameRow, SameStatement
<1>3. q.book \in Book /\ Debt[q.book] = Standing(q)
  BY DebtOfRow DEF Inv
<1>4. Debt'[q.book] = Standing(r)
  <2>1. \A e \in queue' : e.book = r.book => e = r
    BY <1>2 DEF Inv, OneStatementPerBook
  <2> QED
    BY <1>2, <1>3, <2>1 DEF Debt, Standing
<1>5. \A c \in Book \ {q.book} : RowsOf(c)' = RowsOf(c)
  BY <1>1, <1>2 DEF RowsOf
<1>6. Debt' = [Debt EXCEPT ![q.book] = Standing(r)]
  BY <1>3, <1>4, <1>5, DebtElsewhere
<1>7. CASE Standing(r) = Standing(q)
  BY <1>3, <1>6, <1>7 DEF Debt
<1>8. CASE Standing(q) = "owed" /\ Standing(r) = "givenUp"
  BY <1>3, <1>6, <1>8 DEF LW!GiveUp, Debt
<1>9. CASE Standing(q) = "givenUp" /\ Standing(r) = "owed"
  BY <1>3, <1>6, <1>9 DEF LW!TakeUp, Debt
<1> QED
  BY <1>7, <1>8, <1>9 DEF Standing

LEMMA SettleRefines ==
    ASSUME Inv, Inv', [Next]_vars, NEW e \in up.due, Live(e), CompleteMutation(e),
           excuse' = excuse, said' = said
    PROVE  LW!Settle(e.book)
<1>1. PICK q \in queue : q.id = e.id
  BY DEF Live
<1>2. q.book = e.book
  BY <1>1 DEF Inv, IdsNameRows, SameStatement
<1>3. q.book \in Book /\ Debt[q.book] = Standing(q)
  BY DebtOfRow DEF Inv
<1>4. queue' = {s \in queue : s.id # q.id}
  BY <1>1 DEF CompleteMutation
<1>5. Vanishes(q)
  BY <1>3, <1>4 DEF Vanishes
<1>6. excuse[q.book] # {}
  BY <1>5, VanishingIsSettling
<1>7. \A s \in queue : s.id = q.id => s = q
  BY DEF Inv, IdsNameRows
<1>8. \A c \in Book \ {q.book} : RowsOf(c)' = RowsOf(c)
  BY <1>4, <1>7 DEF RowsOf
<1>9. Debt'[q.book] = "none"
  <2>1. \A s \in queue : s.book = q.book => s = q
    BY DEF Inv, OneStatementPerBook
  <2> QED
    BY <1>3, <1>4, <2>1 DEF Debt
<1>10. Debt' = [Debt EXCEPT ![q.book] = "none"]
  BY <1>3, <1>8, <1>9, DebtElsewhere
<1>11. Debt[q.book] # "none"
  BY <1>3 DEF Standing
<1> QED
  BY <1>2, <1>3, <1>6, <1>10, <1>11 DEF LW!Settle, Debt

\* A row an outcome is recorded for may have been replaced meanwhile.
LEMMA OutcomeRefines ==
    ASSUME Inv, Inv', [Next]_vars, NEW e \in up.due, ActOnAnswer(e) \/ FinishEntry(e)
    PROVE  LW!Next \/ UNCHANGED <<Debt, excuse>>
<1>1. excuse' = excuse /\ said' = said
  BY DEF ActOnAnswer, FinishEntry
<1>2. ASSUME queue' = queue PROVE UNCHANGED <<Debt, excuse>>
  BY <1>1, <1>2 DEF Debt
<1>3. CASE ~Live(e)
  <2>1. \A q \in queue : q.id # e.id
    BY <1>3 DEF Live
  <2>2. queue' = queue
    BY <2>1 DEF ActOnAnswer, FinishEntry, CompleteMutation, GiveUp, Penalise
  <2> QED
    BY <1>2, <2>2
<1>4. CASE Live(e)
  <2>1. PICK q \in queue : q.id = e.id
    BY <1>4 DEF Live
  <2>2. \A s \in queue : s.id = q.id => s = q
    BY <2>1 DEF Inv, IdsNameRows
  <2>3. q \in Entry /\ q.book \in Book
    BY DEF Inv, TypeOK, Entry
  <2>4. CASE CompleteMutation(e)
    <3>1. e.book \in Book
      BY DEF Inv, TypeOK, Drain, Entry
    <3> QED
      BY <1>1, <1>4, <2>4, <3>1, SettleRefines DEF LW!Next
  <2>5. CASE GiveUp(e)
    <3>1. queue' = {IF s.id = q.id THEN Parked(q) ELSE s : s \in queue}
      BY <2>1, <2>2, <2>5 DEF GiveUp
    <3>2. SameRow(q, Parked(q))
      BY <2>3, OutcomesKeepIdentity
    <3> QED
      BY <1>1, <2>3, <3>1, <3>2, StandingRefines DEF LW!Next
  <2>6. CASE Penalise(e)
    <3> DEFINE r == Retried(q, e.retries + 1, up.at)
    <3>1. queue' = {IF s.id = q.id THEN r ELSE s : s \in queue}
      BY <2>1, <2>2, <2>6 DEF Penalise
    <3>2. SameRow(q, r)
      BY <2>3, OutcomesKeepIdentity
    <3> HIDE DEF r
    <3> QED
      BY <1>1, <2>3, <3>1, <3>2, StandingRefines DEF LW!Next
  <2>7. CASE queue' = queue
    BY <1>2, <2>7
  <2> QED
    BY <2>4, <2>5, <2>6, <2>7 DEF ActOnAnswer, FinishEntry
<1> QED
  BY <1>3, <1>4

LEMMA RetryRefines ==
    ASSUME Inv, Inv', NEW b \in Book, RetryFailed(b)
    PROVE  LW!Next
<1>1. PICK q \in queue : q.book = b /\ q.state = "failed"
  BY DEF RetryFailed, RowsOf
<1>2. \A s \in queue : s.book = b => s = q
  BY <1>1 DEF Inv, OneStatementPerBook
<1>3. \A s \in queue : s.id = q.id => s = q
  BY DEF Inv, IdsNameRows
<1>4. queue' = {IF s.id = q.id THEN Revived(q) ELSE s : s \in queue}
  BY <1>1, <1>2, <1>3 DEF RetryFailed
<1>5. SameRow(q, Revived(q)) /\ q \in Entry
  BY OutcomesKeepIdentity DEF Inv, TypeOK
<1>6. excuse' = excuse
  BY DEF RetryFailed
<1>7. Debt[b] = "givenUp" /\ Debt'[b] = "owed"
  <2>1. Revived(q) \in queue' /\ Revived(q).book = b
    BY <1>1, <1>4, <1>5 DEF SameRow, SameStatement
  <2>2. Revived(q).state = "pending"
    BY <1>5 DEF Revived, Entry
  <2> QED
    BY <1>1, <1>2, <2>1, <2>2 DEF Debt
<1>8. \A c \in Book \ {b} : RowsOf(c)' = RowsOf(c)
  BY <1>1, <1>3, <1>4, <1>5 DEF RowsOf, SameRow, SameStatement
<1>9. Debt' = [Debt EXCEPT ![b] = "owed"]
  BY <1>7, <1>8, DebtElsewhere
<1> QED
  BY <1>6, <1>7, <1>9 DEF LW!Next, LW!TakeUp, Debt

LEMMA StepRefines ==
    ASSUME Inv, Inv', [Next]_vars
    PROVE  LW!Next \/ UNCHANGED <<Debt, excuse>>
<1>1. ASSUME NEW b \in Book, NEW i \in Words, Say(b, i) PROVE LW!Next
  BY <1>1, SpeakRefines DEF LW!Next
<1>2. ASSUME NEW e \in up.due, ActOnAnswer(e) \/ FinishEntry(e)
      PROVE  LW!Next \/ UNCHANGED <<Debt, excuse>>
  BY <1>2, OutcomeRefines
<1>3. ASSUME NEW b \in Book, RetryFailed(b) PROVE LW!Next
  BY <1>3, RetryRefines
<1>4. ASSUME \/ StartPass \/ EndPass \/ Call \/ World \/ Crash \/ Mirror \/ UNCHANGED vars
             \/ \E e \in up.due : BeginEntry(e) \/ AnswerRefetch(e) \/ Serve(e)
      PROVE  LW!Next \/ UNCHANGED <<Debt, excuse>>
  <2>1. queue' = queue /\ ~ \E b \in Book, i \in Words : Say(b, i)
    <3>1. queue' = queue
      BY <1>4 DEF StartPass, EndPass, Call, World, LateLands, OtherSays, ServerDeletes,
                  Tick, Crash, Mirror, SweepFetch, SweepWrite, Prune, BeginEntry,
                  AnswerRefetch, Serve, tables, vars
    <3>2. nextId' = nextId
      BY <1>4 DEF StartPass, EndPass, Call, World, LateLands, OtherSays, ServerDeletes,
                  Tick, Crash, Mirror, SweepFetch, SweepWrite, Prune, BeginEntry,
                  AnswerRefetch, Serve, tables, vars
    <3>3. ~ \E b \in Book, i \in Words : Say(b, i)
      BY <3>2 DEF Say, Inv, TypeOK
    <3> QED
      BY <3>1, <3>3
  <2>2. ASSUME NEW b \in Book, NEW r \in Remote, Shown(b, r) PROVE LW!Next
    BY <2>1, <2>2, ObserveRefines DEF Shown, LW!Next
  <2>3. CASE UNCHANGED <<remote, excuse, said>>
    BY <2>1, <2>3 DEF Debt
  <2> QED
    BY <2>1, <2>2, <2>3, ServerShape DEF Inv
<1> QED
  BY <1>1, <1>2, <1>3, <1>4 DEF Next, Pass, User

\* The two tables, the drain and its two awaits implement the promise that a
\* statement is owed until there is an excuse to forget it.
THEOREM Refinement == Spec => KeepsItsPromise
<1>1. Init => LW!Init
  BY DEF Init, LW!Init
<1>2. Inv /\ Inv' /\ [Next]_vars => [LW!Next]_<<Debt, excuse>>
  BY StepRefines
<1> QED
  BY <1>1, <1>2, Invariant, PTL DEF Spec, KeepsItsPromise, LW!Spec, Debt
=============================================================================
