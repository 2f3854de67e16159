-------------------------- MODULE EventStreamProofs --------------------------
(***************************************************************************)
(* Theorems about EventStream, for every set of books, every limit of a    *)
(* poll and every bound on changes, breaks and sweeps.                     *)
(***************************************************************************)
EXTENDS EventStream, TLAPS

-------------------------------------------------------------------------------
(* Sessions and the events a poll takes off the stream                       *)

LEMMA MinOfTwo ==
    ASSUME NEW m \in Nat, NEW n \in Nat
    PROVE  Min({m, n}) = IF m <= n THEN m ELSE n
<1>1. \E x \in {m, n} : \A y \in {m, n} : x =< y
  OBVIOUS
<1>2. Min({m, n}) \in {m, n} /\ \A y \in {m, n} : Min({m, n}) =< y
  BY <1>1 DEF Min
<1> QED
  BY <1>2

LEMMA SessionsTyped ==
    ASSUME NEW s \in Session
    PROVE  /\ NoteConnected(s) \in Session /\ NoteDisconnected(s) \in Session
           /\ ParkedFor(s) \in Session /\ Resumed(s) \in Session
           /\ ReconcileDone(s) \in Session /\ Awake(s) \in Session
           /\ [s EXCEPT !.owes = FALSE] \in Session
BY DEF Session, Phase, NoteConnected, NoteDisconnected, ParkedFor, Resumed, ReconcileDone, Awake

\* A poll takes a prefix of what the stream holds; a drained stream gives all of it.
LEMMA TakenIsPrefix ==
    ASSUME TypeOK
    PROVE  /\ ClaimedLine \in Seq(Event) /\ Taken \in Seq(Event)
           /\ SubSeq(ClaimedLine, Len(Taken) + 1, Len(ClaimedLine)) \in Seq(Event)
           /\ Claimed \in {"none", "open", "cut"}
           /\ Drained => Taken = ClaimedLine
<1> DEFINE n == Min({MaxPerPoll, Len(ClaimedLine)})
<1>1. ClaimedLine \in Seq(Event) /\ Claimed \in {"none", "open", "cut"}
  BY DEF TypeOK, ClaimedLine, Claimed
<1>2. n \in 0 .. Len(ClaimedLine) /\ (Len(ClaimedLine) < MaxPerPoll => n = Len(ClaimedLine))
  BY <1>1, MinOfTwo, EventStreamAssumption
<1>3. Taken = SubSeq(ClaimedLine, 1, n)
  BY DEF Taken
<1> HIDE DEF n
<1>4. Taken \in Seq(Event) /\ Len(Taken) = n
  BY <1>1, <1>2, <1>3
<1>5. SubSeq(ClaimedLine, Len(Taken) + 1, Len(ClaimedLine)) \in Seq(Event)
  BY <1>1, <1>2, <1>4
<1>6. Drained => Taken = ClaimedLine
  BY <1>1, <1>2, <1>3 DEF Drained
<1> QED
  BY <1>1, <1>4, <1>5, <1>6

\* Every event a poll has taken becomes a hint about its book, or a sweep.
LEMMA HintsCover ==
    ASSUME NEW events \in Seq(Event)
    PROVE  /\ Books(events) \subseteq Book /\ Removed(events) \subseteq Book
           /\ NeedsSweep(events) \in BOOLEAN
           /\ \A i \in DOMAIN events :
                 /\ NeedsSweep(events) \/ events[i].book \in Books(events) \cup Removed(events)
                 /\ events[i].kind = "wide" => NeedsSweep(events)
<1>1. \A i \in DOMAIN events : events[i] \in Event
  OBVIOUS
<1>2. \A kind \in {"book", "deleted", "wide"} : Said(kind, events) \subseteq Book
  BY <1>1 DEF Said, Event
<1>3. \A i \in DOMAIN events : events[i].book \in Said(events[i].kind, events)
  BY DEF Said
<1>4. \A i \in DOMAIN events : events[i].kind \in {"book", "deleted", "wide"}
  BY <1>1 DEF Event
<1> QED
  BY <1>2, <1>3, <1>4 DEF Books, Removed, NeedsSweep

LEMMA TickTyped ==
    ASSUME NEW s \in Session, NEW action \in {"idle", "reconcile", "applied", "backing-off", "reconcile-only"},
           NEW B \in SUBSET Book, NEW R \in SUBSET Book, NEW wide \in BOOLEAN
    PROVE  TickOf(s, action, B, R, wide) \in Tick
BY DEF TickOf, Tick

-------------------------------------------------------------------------------
(* Type correctness                                                          *)

LEMMA SpendTyped ==
    ASSUME TypeOK, NEW what \in {"changes", "cuts", "runs", "leaks"}, NEW bound, Spend(what, bound)
    PROVE  spent' \in [{"changes", "cuts", "runs", "leaks"} -> Nat]
BY DEF TypeOK, Spend

LEMMA PollTyped ==
    ASSUME TypeOK, NEW s \in Session, Poll(s)
    PROVE  /\ tick' \in Tick
           /\ wire' \in {"none", "open", "cut"} /\ line' \in Seq(Event)
           /\ socket' = "polling"
           /\ gap' \in {"none", "open", "unpaid"}
           /\ spent' \in [{"changes", "cuts", "runs", "leaks"} -> Nat]
           /\ beat' \in BOOLEAN /\ silent' \in BOOLEAN
<1>1. socket' = "polling" /\ beat' \in BOOLEAN /\ silent' \in BOOLEAN
  BY DEF Poll, Listen
<1>2. <<>> \in Seq(Event)
  OBVIOUS
<1> USE <1>2, TakenIsPrefix, SessionsTyped
<1>3. CASE Read(s)
  <2>1. /\ Books(Taken) \in SUBSET Book /\ Removed(Taken) \in SUBSET Book
        /\ NeedsSweep(Taken) \in BOOLEAN
    BY HintsCover
  <2>2. \A a \in {"idle", "applied", "backing-off"}, x \in Session :
           TickOf(x, a, Books(Taken), Removed(Taken), NeedsSweep(Taken)) \in Tick
    BY <2>1, TickTyped
  <2>3. tick' \in Tick
    BY <1>3, <2>2 DEF Read
  <2> QED
    BY <1>1, <1>3, <2>3 DEF Read, TypeOK
<1>4. CASE Wait(s)
  BY <1>1, <1>4, TickTyped DEF Wait, TypeOK
<1>5. CASE Reach(s)
  <2>1. TickOf(s, "idle", {}, {}, FALSE) \in Tick
    BY TickTyped
  <2>2. tick' \in Tick
    BY <1>5, <2>1 DEF Reach, Tick
  <2> QED
    BY <1>1, <1>5, <2>2 DEF Reach, TypeOK
<1> QED
  BY <1>3, <1>4, <1>5 DEF Poll

LEMMA AnsweredTyped ==
    ASSUME TypeOK, tick.stage = "open", NEW s \in Session,
           NEW action \in {"reconcile", "applied", "backing-off", "reconcile-only"}
    PROVE  /\ tick \in Tick /\ tick.session \in Session
           /\ Answered(s, action) \in Tick
           /\ Answered(s, action).stage = "apply" /\ Answered(s, action).session = s
           /\ Answered(s, action).action = action
           /\ \A t : t = Answered(s, action) =>
                 /\ t.valid = tick.valid /\ t.wide = tick.wide /\ t.left = tick.left
                 /\ t.books = tick.books /\ t.removed = tick.removed
<1>1. tick \in Tick
  BY DEF TypeOK, NoTick
<1> QED
  BY <1>1 DEF Answered, Tick

\* What becomes of a handshake: the poll goes on with the session it makes.
LEMMA HandshakeEnds ==
    ASSUME TypeOK, Opens \/ OpenFails \/ OpenRefused
    PROVE  \E s \in Session, action \in {"reconcile", "applied", "backing-off", "reconcile-only"} :
              /\ tick.stage = "open" /\ tick \in Tick /\ tick.session \in Session
              /\ tick' = Answered(s, action)
              /\ \/ /\ s = NoteConnected(tick.session)
                    /\ action = IF s.owes THEN "reconcile" ELSE "applied"
                    /\ wire' = "open" /\ line' = <<>> /\ spent' = spent
                    /\ gap' = IF heard THEN "open" ELSE gap
                 \/ /\ s = NoteDisconnected(tick.session) /\ action = "backing-off"
                    /\ UNCHANGED <<wire, line, gap>> /\ Spend("cuts", MaxCuts)
                 \/ /\ s = ParkedFor(tick.session) /\ action = "reconcile-only"
                    /\ UNCHANGED <<wire, line, gap, spent>>
              /\ UNCHANGED <<behind, gone, socket, idle, saved, asked, app, other, syncing,
                             unheard, heard, beat, silent>>
<1>1. tick.stage = "open" /\ tick \in Tick /\ tick.session \in Session
  BY DEF Opens, OpenFails, OpenRefused, TypeOK, NoTick, Tick
<1>2. UNCHANGED <<behind, gone, socket, idle, saved, asked, app, other, syncing, unheard, heard, beat, silent>>
  BY DEF Opens, OpenFails, OpenRefused, wires, sweeps, history
<1>3. CASE Opens
  <2> DEFINE now == NoteConnected(tick.session)
  <2>1. now \in Session
    BY <1>1, SessionsTyped
  <2>2. PICK action \in {"reconcile", "applied"} : action = IF now.owes THEN "reconcile" ELSE "applied"
    OBVIOUS
  <2>3. /\ tick' = Answered(now, action)
        /\ wire' = "open" /\ line' = <<>> /\ spent' = spent
        /\ gap' = IF heard THEN "open" ELSE gap
    BY <1>3, <2>2 DEF Opens
  <2> HIDE DEF now
  <2>4. WITNESS now \in Session, action \in {"reconcile", "applied", "backing-off", "reconcile-only"}
  <2> QED
    BY <1>1, <1>2, <2>2, <2>3 DEF now
<1>4. CASE OpenFails
  <2>1. NoteDisconnected(tick.session) \in Session
    BY <1>1, SessionsTyped
  <2>2. tick' = Answered(NoteDisconnected(tick.session), "backing-off") /\ UNCHANGED <<wire, line, gap>>
    BY <1>4 DEF OpenFails, wires, history
  <2>3. Spend("cuts", MaxCuts)
    BY <1>4 DEF OpenFails
  <2> QED
    BY <1>1, <1>2, <2>1, <2>2, <2>3
<1>5. CASE OpenRefused
  <2>1. ParkedFor(tick.session) \in Session
    BY <1>1, SessionsTyped
  <2>2. /\ tick' = Answered(ParkedFor(tick.session), "reconcile-only")
        /\ UNCHANGED <<wire, line, gap, spent>>
    BY <1>5 DEF OpenRefused, wires, history
  <2> QED
    BY <1>1, <1>2, <2>1, <2>2
<1> QED
  BY <1>3, <1>4, <1>5

LEMMA SettledTyped ==
    ASSUME NEW t \in Tick
    PROVE  Settled(t) \in Session
<1>1. t.session \in Session
  BY DEF Tick
<1> QED
  BY <1>1, SessionsTyped DEF Settled

LEMMA SessionAwake ==
    ASSUME NEW t \in Tick
    PROVE  /\ [t EXCEPT !.session = Awake(@)] \in Tick
           /\ [t EXCEPT !.valid = FALSE] \in Tick
           /\ \A b \in Book : [t EXCEPT !.books = @ \ {b}] \in Tick
           /\ \A b \in Book : [t EXCEPT !.removed = @ \ {b}] \in Tick
           /\ \A b \in Book : [t EXCEPT !.left = @ \ {b}] \in Tick
           /\ [t EXCEPT !.stage = "release", !.left = {}] \in Tick
<1>1. Awake(t.session) \in Session
  BY SessionsTyped DEF Tick
<1> QED
  BY <1>1 DEF Tick

LEMMA ParkTyped ==
    ASSUME TypeOK, NEW keep \in BOOLEAN, NEW count \in Nat, Park(keep, count)
    PROVE  /\ wire' \in {"none", "open", "cut"} /\ line' \in Seq(Event)
           /\ socket' \in {"none", "ready"} /\ idle' \in 0 .. MaxIdleTicks
<1>1. <<>> \in Seq(Event) /\ MaxIdleTicks \in Nat
  BY EventStreamAssumption
<1>2. CASE keep /\ count < MaxIdleTicks
  <2>1. socket' = "ready" /\ idle' = count /\ wire' = wire /\ line' = line
    BY <1>2 DEF Park
  <2>2. count \in 0 .. MaxIdleTicks
    BY <1>1, <1>2
  <2> QED
    BY <2>1, <2>2 DEF TypeOK
<1>3. CASE ~(keep /\ count < MaxIdleTicks)
  <2>1. socket' = "none" /\ idle' = 0 /\ wire' = "none" /\ line' = <<>>
    BY <1>3 DEF Park
  <2>2. 0 \in 0 .. MaxIdleTicks
    BY <1>1
  <2> QED
    BY <1>1, <2>1, <2>2
<1> QED
  BY <1>2, <1>3

\* What stands between two polls.
LEMMA Standing ==
    ASSUME TypeOK
    PROVE  /\ saved \in Session
           /\ tick.stage # "none" <=> tick \in Tick
           /\ tick.stage = "none" <=> tick = NoTick
           /\ asked.under <=> asked \in Resume
           /\ ~asked.under <=> asked = NoResume
           /\ Resuming \in Resume \cup {NoResume}
           /\ Invalid(tick) \in Tick \cup {NoTick} /\ Revoked(asked) \in Resume \cup {NoResume}
           /\ tick.stage # "none" => AfterSweep \in Tick \cup {NoTick}
<1>1. saved \in Session /\ tick \in Tick \cup {NoTick} /\ asked \in Resume \cup {NoResume}
  BY DEF TypeOK
<1>2. \A t \in Tick : t.stage # "none"
  BY DEF Tick
<1>3. NoTick.stage = "none" /\ NoResume.under = FALSE /\ \A r \in Resume : r.under
  BY DEF NoTick, NoResume, Resume
<1>4. ResumeOf(saved) \in Resume
  BY <1>1 DEF ResumeOf, Resume
<1>5. \A r \in Resume : [r EXCEPT !.valid = FALSE] \in Resume
  BY DEF Resume
<1> QED
  BY <1>1, <1>2, <1>3, <1>4, <1>5, SessionAwake DEF Resuming, Invalid, Revoked, AfterSweep

LEMMA TypeInductive == TypeOK /\ [Next]_vars => TypeOK'
<1> SUFFICES ASSUME TypeOK, [Next]_vars
             PROVE  TypeOK'
  OBVIOUS
<1> USE Standing, SessionsTyped
<1>1. CASE TickBegins
  <2>1. saved \in Session
    OBVIOUS
  <2> QED
    BY <1>1, <2>1, PollTyped DEF TickBegins, TypeOK, loops, sweeps
<1>2. CASE PollAnswers
  <2>1. tick \in Tick /\ Settled(tick) \in Session
    BY <1>2, SettledTyped DEF PollAnswers
  <2>2. /\ wire' \in {"none", "open", "cut"} /\ line' \in Seq(Event)
        /\ socket' \in {"none", "ready"} /\ idle' \in 0 .. MaxIdleTicks
    <3>1. idle + 1 \in Nat /\ 0 \in Nat
      BY EventStreamAssumption DEF TypeOK
    <3> DEFINE count == IF Silent(tick) THEN idle + 1 ELSE 0
    <3>2. count \in Nat
      BY <3>1
    <3> DEFINE keep == Settled(tick).phase \in {"connected", "reconciling"}
    <3>3. keep \in BOOLEAN /\ Park(keep, count)
      BY <1>2 DEF PollAnswers
    <3> HIDE DEF count, keep
    <3> QED
      BY <3>2, <3>3, ParkTyped
  <2>3. Sweeping(Settled(tick)) \in Tick
    BY <2>1 DEF Sweeping, Tick
  <2>4. /\ tick' \in Tick \cup {NoTick} /\ saved' \in Session
        /\ heard' \in BOOLEAN /\ syncing' \in BOOLEAN /\ gap' \in {"none", "open", "unpaid"}
    BY <1>2, <2>1, <2>3 DEF PollAnswers, Keep, Unpaid, TypeOK
  <2> QED
    BY <1>2, <2>2, <2>4 DEF PollAnswers, TypeOK
<1>3. CASE SweepEnds
  BY <1>3 DEF SweepEnds, TypeOK, wires
<1>4. CASE TickReleases
  <2>1. tick \in Tick /\ ReconcileDone(tick.session) \in Session
    BY <1>4 DEF TickReleases, Tick
  <2> QED
    BY <1>4, <2>1 DEF TickReleases, TypeOK, wires, sweeps, Keep
<1>5. CASE ResumeAnswers
  <2> DEFINE session == IF asked.valid THEN Resumed(asked.session) ELSE saved
  <2>1. session \in Session
    BY <1>5 DEF ResumeAnswers, Resume
  <2>2. saved' = session /\ heard' \in BOOLEAN /\ asked' = NoResume
    BY <1>5, <2>1 DEF ResumeAnswers, Keep, TypeOK
  <2>3. Poll(session) \/ UNCHANGED <<tick, wire, line, socket, gap, spent, beat, silent>>
    BY <1>5 DEF ResumeAnswers
  <2> HIDE DEF session
  <2>4. UNCHANGED <<behind, gone, idle, app, sweeps, unheard>>
    BY <1>5 DEF ResumeAnswers
  <2> QED
    BY <2>1, <2>2, <2>3, <2>4, PollTyped DEF TypeOK, sweeps
<1>6. ASSUME NEW b \in Book, ApplyBook(b)
      PROVE  TypeOK'
  BY <1>6, SessionAwake DEF ApplyBook, Refresh, TypeOK, wires, sweeps
<1>7. ASSUME NEW b \in Book, ApplyDeletion(b)
      PROVE  TypeOK'
  BY <1>7, SessionAwake DEF ApplyDeletion, Refresh, TypeOK, wires, sweeps
<1>8. ASSUME NEW b \in Book, SweepVisits(b)
      PROVE  TypeOK'
  BY <1>8, SessionAwake DEF SweepVisits, Refresh, TypeOK, wires, sweeps
<1>9. ASSUME NEW b \in Book, NEW kind \in {"book", "deleted", "wide"}, Change(b, kind)
      PROVE  TypeOK'
  <2>1. [kind |-> kind, book |-> b] \in Event
    BY DEF Event
  <2>2. line' \in Seq(Event)
    BY <1>9, <2>1 DEF Change, TypeOK
  <2>3. spent' \in [{"changes", "cuts", "runs", "leaks"} -> Nat]
    BY <1>9, SpendTyped DEF Change
  <2> QED
    BY <1>9, <2>2, <2>3 DEF Change, TypeOK, loops, sweeps
<1>10. CASE Heartbeat
  BY <1>10 DEF Heartbeat, TypeOK, wires, loops, sweeps
<1>11. CASE Cut
  <2>1. spent' \in [{"changes", "cuts", "runs", "leaks"} -> Nat]
    BY <1>11, SpendTyped DEF Cut
  <2> QED
    BY <1>11, <2>1 DEF Cut, TypeOK, loops, sweeps, history
<1>12. CASE BackoffElapses
  BY <1>12, SessionAwake DEF BackoffElapses, TypeOK, wires, sweeps, history
<1>13. CASE PollFails
  <2>1. spent' \in [{"changes", "cuts", "runs", "leaks"} -> Nat]
    BY <1>13, SpendTyped DEF PollFails
  <2>2. <<>> \in Seq(Event)
    OBVIOUS
  <2> QED
    BY <1>13, <2>1, <2>2 DEF PollFails, TypeOK, sweeps, history
<1>14. CASE SweepFails
  BY <1>14 DEF SweepFails, TypeOK, wires, Unpaid
<1>15. ASSUME NEW b \in Book, RefuseHint(b)
       PROVE  TypeOK'
  BY <1>15, SessionAwake DEF RefuseHint, TypeOK, wires, sweeps, history
<1>16. ASSUME NEW b \in Book, OtherVisits(b)
       PROVE  TypeOK'
  BY <1>16 DEF OtherVisits, Refresh, TypeOK, wires, loops
<1>17. CASE OtherBegins
  <2>1. spent' \in [{"changes", "cuts", "runs", "leaks"} -> Nat]
    BY <1>17, SpendTyped DEF OtherBegins
  <2> QED
    BY <1>17, <2>1 DEF OtherBegins, TypeOK, wires, loops, history
<1>18. CASE OtherEnds
  BY <1>18 DEF OtherEnds, TypeOK, wires, history
<1>19. CASE GoesToBackground
  <2>1. spent' \in [{"changes", "cuts", "runs", "leaks"} -> Nat]
    BY <1>19, SpendTyped DEF GoesToBackground
  <2> QED
    BY <1>19, <2>1 DEF GoesToBackground, TypeOK, wires, sweeps, history
<1>20. CASE ComesToForeground
  <2>1. ResumeOf(saved) \in Resume
    BY DEF ResumeOf, Resume
  <2>2. /\ app' = "running" /\ asked' = ResumeOf(saved)
        /\ UNCHANGED <<behind, gone, idle, saved, sweeps, unheard, heard>>
    BY <1>20 DEF ComesToForeground
  <2>3. CASE Poll(saved)
    BY <2>1, <2>2, <2>3, PollTyped DEF TypeOK, sweeps
  <2>4. CASE tick' = Invalid(tick) /\ UNCHANGED <<wire, line, socket, gap, spent, beat, silent>>
    BY <2>1, <2>2, <2>4 DEF TypeOK, sweeps
  <2> QED
    BY <1>20, <2>3, <2>4 DEF ComesToForeground
<1>21. CASE Disposes
  <2>1. <<>> \in Seq(Event)
    OBVIOUS
  <2> QED
    BY <1>21, <2>1 DEF Disposes, TypeOK, sweeps, history
<1>22. CASE UNCHANGED vars
  BY <1>22 DEF vars, wires, loops, sweeps, history, TypeOK
<1>23. CASE Opens \/ OpenFails \/ OpenRefused
  <2>1. PICK s \in Session, action \in {"reconcile", "applied", "backing-off", "reconcile-only"} :
           /\ tick.stage = "open" /\ tick' = Answered(s, action)
           /\ UNCHANGED <<behind, gone, socket, idle, saved, asked, app, other, syncing,
                          unheard, heard, beat, silent>>
           /\ wire' \in {wire, "open"} /\ line' \in {line, <<>>} /\ gap' \in {gap, "open"}
           /\ spent' = spent \/ Spend("cuts", MaxCuts)
    BY <1>23, HandshakeEnds
  <2>2. tick' \in Tick
    BY <2>1, AnsweredTyped
  <2>3. spent' \in [{"changes", "cuts", "runs", "leaks"} -> Nat]
    BY <2>1, SpendTyped DEF TypeOK
  <2>4. line' \in Seq(Event)
    <3>1. <<>> \in Seq(Event) /\ line \in Seq(Event)
      BY DEF TypeOK
    <3> QED
      BY <2>1, <3>1
  <2> QED
    BY <2>1, <2>2, <2>3, <2>4 DEF TypeOK
<1> QED
  BY <1>1, <1>2, <1>3, <1>4, <1>5, <1>6, <1>7, <1>8, <1>9, <1>10, <1>11, <1>12, <1>13,
     <1>14, <1>15, <1>16, <1>17, <1>18, <1>19, <1>20, <1>21, <1>22, <1>23
  DEF Next, Core, World

LEMMA InitTyped == Init => TypeOK
<1> SUFFICES ASSUME Init PROVE TypeOK
  OBVIOUS
<1>1. <<>> \in Seq(Event) /\ 0 \in 0 .. MaxIdleTicks
  BY EventStreamAssumption
<1>2. spent \in [{"changes", "cuts", "runs", "leaks"} -> Nat]
  BY DEF Init
<1>3. saved \in Session
  BY DEF Init, Fresh, Session, Phase
<1> QED
  BY <1>1, <1>2, <1>3 DEF Init, TypeOK

\* Every variable of the session machine, the poll and the controller keeps to the
\* values the code gives it; the other theorems rest on this one.
THEOREM TypeCorrect == Spec => []TypeOK
BY InitTyped, TypeInductive, PTL DEF Spec

-------------------------------------------------------------------------------
(* The claim of a poll                                                       *)

\* The count of polls that left their entry behind never goes back.
LEMMA LeaksGrow ==
    ASSUME TypeOK, NEW what \in {"changes", "cuts", "runs", "leaks"}, NEW bound, Spend(what, bound)
    PROVE  /\ {spent.leaks, spent'.leaks} \subseteq Nat /\ spent'.leaks >= spent.leaks
           /\ what = "leaks" => spent'.leaks > 0
BY DEF TypeOK, Spend

\* A poll that begins is under way, whatever becomes of its handshake.
LEMMA PollBegins ==
    ASSUME NEW s, Poll(s)
    PROVE  /\ tick.stage = "none" /\ socket # "polling"
           /\ tick'.stage \in {"open", "apply"} /\ tick'.valid
BY DEF Poll, Read, Wait, Reach, TickOf

LEMMA ClaimInductive == TypeOK /\ ClaimIsHeld /\ [Next]_vars => ClaimIsHeld'
<1> SUFFICES ASSUME TypeOK, ClaimIsHeld, [Next]_vars
             PROVE  ClaimIsHeld'
  OBVIOUS
<1> USE DEF ClaimIsHeld
<1>1. CASE TickBegins
  BY <1>1, PollBegins DEF TickBegins
<1>2. CASE PollAnswers
  BY <1>2 DEF PollAnswers, Park
<1>3. CASE SweepEnds
  BY <1>3 DEF SweepEnds, wires
<1>4. CASE TickReleases
  BY <1>4 DEF TickReleases, wires
<1>5. CASE ResumeAnswers
  BY <1>5, PollBegins DEF ResumeAnswers
<1>6. ASSUME NEW b \in Book, ApplyBook(b) \/ ApplyDeletion(b) \/ SweepVisits(b) \/ RefuseHint(b)
      PROVE  ClaimIsHeld'
  <2>1. tick \in Tick
    BY <1>6, Standing DEF ApplyBook, ApplyDeletion, SweepVisits, RefuseHint
  <2>2. tick'.stage = tick.stage
    BY <1>6, <2>1 DEF ApplyBook, ApplyDeletion, SweepVisits, RefuseHint, Tick
  <2> QED
    BY <1>6, <2>2 DEF ApplyBook, ApplyDeletion, SweepVisits, RefuseHint, wires
<1>7. ASSUME NEW b \in Book, NEW kind \in {"book", "deleted", "wide"}, Change(b, kind)
      PROVE  ClaimIsHeld'
  <2>1. {spent.leaks, spent'.leaks} \subseteq Nat /\ spent'.leaks >= spent.leaks
    BY <1>7, LeaksGrow DEF Change
  <2> QED
    BY <1>7, <2>1 DEF Change, loops
<1>8. CASE Heartbeat
  BY <1>8 DEF Heartbeat, wires, loops
<1>9. CASE Cut
  <2>1. {spent.leaks, spent'.leaks} \subseteq Nat /\ spent'.leaks >= spent.leaks
    BY <1>9, LeaksGrow DEF Cut
  <2> QED
    BY <1>9, <2>1 DEF Cut, loops
<1>10. CASE BackoffElapses
  <2>1. tick'.stage = tick.stage
    BY <1>10, Standing DEF BackoffElapses, Tick
  <2> QED
    BY <1>10, <2>1 DEF BackoffElapses, wires
<1>11. CASE PollFails
  <2>1. spent'.leaks > 0
    BY <1>11, LeaksGrow DEF PollFails
  <2> QED
    BY <2>1
<1>12. CASE SweepFails
  BY <1>12 DEF SweepFails, wires
<1>13. ASSUME NEW b \in Book, OtherVisits(b)
       PROVE  ClaimIsHeld'
  BY <1>13 DEF OtherVisits, wires, loops
<1>14. CASE OtherBegins
  <2>1. {spent.leaks, spent'.leaks} \subseteq Nat /\ spent'.leaks >= spent.leaks
    BY <1>14, LeaksGrow DEF OtherBegins
  <2> QED
    BY <1>14, <2>1 DEF OtherBegins, wires, loops
<1>15. CASE OtherEnds
  BY <1>15 DEF OtherEnds, wires
<1>16. CASE GoesToBackground
  <2>1. tick'.stage = tick.stage
    BY <1>16, Standing DEF GoesToBackground, Invalid, Tick
  <2>2. {spent.leaks, spent'.leaks} \subseteq Nat /\ spent'.leaks >= spent.leaks
    BY <1>16, LeaksGrow DEF GoesToBackground
  <2> QED
    BY <1>16, <2>1, <2>2 DEF GoesToBackground, wires
<1>17. CASE ComesToForeground
  <2>1. Invalid(tick).stage = tick.stage
    BY Standing DEF Invalid, Tick
  <2>2. CASE Poll(saved)
    BY <2>2, PollBegins
  <2>3. CASE tick' = Invalid(tick) /\ UNCHANGED <<wire, line, socket, gap, spent, beat, silent>>
    BY <2>1, <2>3
  <2> QED
    BY <1>17, <2>2, <2>3 DEF ComesToForeground
<1>18. CASE Disposes
  BY <1>18 DEF Disposes
<1>19. CASE UNCHANGED vars
  BY <1>19 DEF vars, wires, loops
<1>20. CASE Opens \/ OpenFails \/ OpenRefused
  <2>1. PICK s \in Session, action \in {"reconcile", "applied", "backing-off", "reconcile-only"} :
           tick.stage = "open" /\ tick' = Answered(s, action)
    BY <1>20, HandshakeEnds
  <2> QED
    BY <2>1, AnsweredTyped
<1> QED
  BY <1>1, <1>2, <1>3, <1>4, <1>5, <1>6, <1>7, <1>8, <1>9, <1>10, <1>11, <1>12, <1>13,
     <1>14, <1>15, <1>16, <1>17, <1>18, <1>19, <1>20
  DEF Next, Core, World

\* An entry of SSE_SOCKETS that says "polling" belongs to a poll under way, so that
\* no later poll is kept out for good: unless sse_poll returned early because the
\* database did not open, the one path of the code that leaves the mark behind.
THEOREM ClaimHolds == Spec => []ClaimIsHeld
<1>1. Init => ClaimIsHeld
  BY DEF Init, ClaimIsHeld
<1> QED
  BY <1>1, TypeCorrect, ClaimInductive, PTL DEF Spec

-------------------------------------------------------------------------------
(* A reopened stream and the sweep it owes                                   *)

\* Once the controller has held a connected session, a session without a stream
\* owes a sweep; and none counts as connected between a reopening and its sweep.
Paid(s) ==
    /\ heard /\ s.phase = "disconnected" => s.owes
    /\ gap = "open" => s.phase # "connected"

Held(s) == Paid(s) /\ (s.phase = "connected" => heard)

\* The sessions that may yet be polled, the one a resume was asked with among them:
\* nothing is kept between the asking and the answer, so that one is no older.
Debts ==
    /\ Held(saved)
    /\ asked.under /\ asked.valid => Held(asked.session) /\ asked.session.phase = saved.phase
    /\ tick.stage # "none" /\ tick.valid => Paid(tick.session)

GapInv ==
    /\ gap = "open" => heard
    /\ Debts
    /\ tick.stage = "open" =>
          saved.phase = "disconnected" /\ tick.session.phase = "disconnected" /\ ~tick.wide
    /\ tick.stage = "apply" /\ tick.wide => gap # "open"
    /\ tick.stage = "apply" /\ tick.action = "reconcile-only" => tick.session.phase = "reconcile-only"
    /\ tick.stage = "release" => gap # "open"

LEMMA SessionsOwe ==
    ASSUME NEW s \in Session, Held(s)
    PROVE  /\ Resumed(s).phase = s.phase /\ Held(Resumed(s))
           /\ Awake(s).phase = s.phase /\ Held(Awake(s))
           /\ s.phase \in {"connected", "disconnected"} => Paid(NoteDisconnected(s))
<1>1. Resumed(s).phase = s.phase /\ Resumed(s).owes = s.owes
  BY DEF Session, Resumed
<1>2. Awake(s).phase = s.phase /\ Awake(s).owes = s.owes
  BY DEF Session, Awake
<1>3. s.phase \in {"connected", "disconnected"} => Paid(NoteDisconnected(s))
  BY DEF Held, Paid, NoteDisconnected
<1> QED
  BY <1>1, <1>2, <1>3 DEF Held, Paid

\* Steps that leave the sessions alone, and of the tick only take hints or books away.
LEMMA GapFrame ==
    ASSUME TypeOK, GapInv, UNCHANGED <<gap, heard, saved, asked>>,
           \/ tick' = tick
           \/ tick' = NoTick
           \/ /\ tick \in Tick /\ tick' \in Tick
              /\ tick'.stage = tick.stage /\ tick'.valid = tick.valid
              /\ tick'.session = tick.session /\ tick'.wide = tick.wide /\ tick'.action = tick.action
    PROVE  GapInv'
BY DEF GapInv, Debts, Held, Paid, NoTick, Tick

\* A poll that begins: its own session is paid for, and only a session that had no
\* stream opens the gap.
LEMMA PollPays ==
    ASSUME TypeOK, NEW s \in Session, Held(s), gap = "open" => heard, Poll(s), heard' = heard
    PROVE  /\ Paid(tick.session)'
           /\ gap' = "open" => heard /\ s.phase # "connected"
           /\ gap' = gap
           /\ tick'.stage \in {"open", "apply"} /\ (tick'.wide => gap' # "open")
           /\ tick'.stage = "open" =>
                 s.phase = "disconnected" /\ tick'.session.phase = "disconnected" /\ ~tick'.wide
           /\ tick'.action = "reconcile-only" => tick'.session.phase = "reconcile-only"
<1>1. CASE Read(s)
  BY <1>1, SessionsOwe DEF Read, TickOf, Held, Paid
<1>2. CASE Wait(s)
  BY <1>2 DEF Wait, TickOf, Held, Paid
<1>3. CASE Reach(s)
  BY <1>3 DEF Reach, Due, TickOf, Held, Paid
<1> QED
  BY <1>1, <1>2, <1>3 DEF Poll

LEMMA PollInductive ==
    ASSUME TypeOK, GapInv, NEW s \in Session, Held(s), Poll(s),
           saved' = s, heard' = heard,
           asked'.under /\ asked'.valid => asked'.session = s
    PROVE  GapInv'
<1>1. /\ Paid(tick.session)'
      /\ gap' = "open" => heard /\ s.phase # "connected"
      /\ tick'.stage \in {"open", "apply"} /\ (tick'.wide => gap' # "open")
      /\ tick'.stage = "open" =>
            s.phase = "disconnected" /\ tick'.session.phase = "disconnected" /\ ~tick'.wide
      /\ tick'.action = "reconcile-only" => tick'.session.phase = "reconcile-only"
  BY PollPays DEF GapInv
<1> QED
  BY <1>1 DEF GapInv, Debts, Held, Paid

\* A handshake that ends makes a session that is paid for: one that is open again owes
\* its sweep, one that failed or was refused keeps its debt.
LEMMA GapHandshake ==
    ASSUME TypeOK, GapInv, Opens \/ OpenFails \/ OpenRefused
    PROVE  GapInv'
<1>1. PICK s \in Session, action \in {"reconcile", "applied", "backing-off", "reconcile-only"} :
         /\ tick.stage = "open" /\ tick \in Tick /\ tick.session \in Session
         /\ tick' = Answered(s, action)
         /\ \/ /\ s = NoteConnected(tick.session)
               /\ action = IF s.owes THEN "reconcile" ELSE "applied"
               /\ gap' = IF heard THEN "open" ELSE gap
            \/ s = NoteDisconnected(tick.session) /\ action = "backing-off" /\ gap' = gap
            \/ s = ParkedFor(tick.session) /\ action = "reconcile-only" /\ gap' = gap
         /\ UNCHANGED <<saved, asked, heard>>
  BY HandshakeEnds
<1>2. /\ tick'.stage = "apply" /\ tick'.session = s /\ tick'.action = action
      /\ tick'.valid = tick.valid /\ tick'.wide = tick.wide
  BY <1>1, AnsweredTyped
<1>3. /\ saved.phase = "disconnected" /\ tick.session.phase = "disconnected" /\ ~tick.wide
      /\ gap = "open" => heard
      /\ tick.valid => Paid(tick.session)
  BY <1>1 DEF GapInv, Debts
<1>4. /\ NoteDisconnected(tick.session).phase = "disconnected"
      /\ NoteDisconnected(tick.session).owes = tick.session.owes
      /\ ParkedFor(tick.session).phase = "reconcile-only"
      /\ tick.session.owes => NoteConnected(tick.session).phase = "reconciling"
      /\ NoteConnected(tick.session).phase \in {"connected", "reconciling"}
  BY <1>1, <1>3 DEF NoteDisconnected, ParkedFor, NoteConnected, Session
<1>5. tick.valid => Paid(s)'
  BY <1>1, <1>3, <1>4 DEF Paid
<1>6. gap' = "open" => heard
  BY <1>1, <1>3
<1>7. action = "reconcile-only" => s.phase = "reconcile-only"
  BY <1>1, <1>4
<1>8. Debts'
  BY <1>1, <1>2, <1>3, <1>5 DEF GapInv, Debts, Held, Paid
<1> QED
  BY <1>2, <1>3, <1>6, <1>7, <1>8, <1>1 DEF GapInv

LEMMA GapInductive == TypeOK /\ GapInv /\ [Next]_vars => GapInv'
<1> SUFFICES ASSUME TypeOK, GapInv, [Next]_vars
             PROVE  GapInv'
  OBVIOUS
<1> USE Standing
<1>1. CASE TickBegins
  <2>1. Held(saved) /\ (asked.under /\ asked.valid => asked.session.phase = saved.phase)
    BY DEF GapInv, Debts
  <2>2. UNCHANGED <<saved, heard, asked>> /\ Poll(saved)
    BY <1>1 DEF TickBegins
  <2>3. /\ Paid(tick.session)'
        /\ gap' = "open" => heard /\ saved.phase # "connected"
        /\ tick'.stage \in {"open", "apply"} /\ (tick'.wide => gap' # "open")
        /\ tick'.stage = "open" =>
              saved.phase = "disconnected" /\ tick'.session.phase = "disconnected" /\ ~tick'.wide
        /\ tick'.action = "reconcile-only" => tick'.session.phase = "reconcile-only"
    BY <2>1, <2>2, PollPays DEF GapInv
  <2> QED
    BY <2>2, <2>3 DEF GapInv, Debts, Held, Paid
<1>2. CASE PollAnswers
  <2>0. PICK session : session = Settled(tick)
    OBVIOUS
  <2>1. tick \in Tick /\ tick.stage = "apply" /\ ~asked.under /\ UNCHANGED asked
    BY <1>2 DEF PollAnswers, InOrder
  <2>2. CASE ~tick.valid
    BY <1>2, <2>1, <2>2, GapFrame DEF PollAnswers
  <2>3. CASE tick.valid /\ ~OwesSweep(tick)
    <3>1. session = tick.session
      BY <2>0, <2>3 DEF Settled
    <3>2. tick' = NoTick /\ saved' = tick.session /\ gap' = gap
          /\ heard' = (heard \/ tick.session.phase = "connected")
      BY <1>2, <2>0, <2>3, <3>1 DEF PollAnswers, Keep
    <3> QED
      BY <2>1, <2>3, <3>2 DEF GapInv, Debts, Held, Paid, NoTick
  <2>4. CASE tick.valid /\ OwesSweep(tick)
    <3>1. /\ tick' = Sweeping(session) /\ UNCHANGED <<saved, heard>>
          /\ gap' = IF syncing THEN Unpaid ELSE gap
      BY <1>2, <2>0, <2>4 DEF PollAnswers
    <3>2. tick'.session = session /\ tick'.stage = (IF syncing THEN "release" ELSE "sweep")
      BY <2>1, <3>1 DEF Sweeping, Tick
    <3>3. Unpaid # "open" /\ (gap' = "open" => gap = "open")
      BY <3>1 DEF Unpaid
    <3>4. session \in Session /\ tick.session \in Session
      BY <2>0, <2>1, SettledTyped DEF Tick
    <3>5. \/ session = tick.session
          \/ session.phase = "reconcile-only"
          \/ session.phase = "connected" /\ gap # "open"
      <4>1. CASE tick.action = "reconcile"
        BY <2>0, <2>4, <4>1 DEF Settled
      <4>2. CASE tick.action = "reconcile-only"
        BY <2>0, <2>1, <2>4, <3>4, <4>2 DEF Settled, GapInv, Session
      <4>3. CASE tick.action \notin {"reconcile", "reconcile-only"}
        <5>1. tick.wide
          BY <2>4, <4>3 DEF OwesSweep
        <5>2. session = ReconcileDone(tick.session)
          BY <2>0, <2>4, <4>3 DEF Settled
        <5> QED
          BY <2>1, <3>4, <5>1, <5>2 DEF GapInv, ReconcileDone, Session
      <4> QED
        BY <4>1, <4>2, <4>3
    <3>6. Paid(session)'
      <4>1. Paid(tick.session)
        BY <2>1, <2>4 DEF GapInv, Debts
      <4> QED
        BY <3>1, <3>3, <3>5, <4>1 DEF Paid
    <3> QED
      BY <2>1, <3>1, <3>2, <3>3, <3>6 DEF GapInv, Debts, Held, Paid
  <2> QED
    BY <2>2, <2>3, <2>4, <2>1 DEF Tick
<1>3. CASE SweepEnds
  <2>1. gap' = "none" /\ UNCHANGED <<saved, heard>>
    BY <1>3 DEF SweepEnds
  <2>2. asked' = asked \/ asked' = ResumeOf(saved)
    BY <1>3 DEF SweepEnds, Resuming
  <2>3. \/ tick' = NoTick
        \/ tick'.stage = "release" /\ tick'.session = tick.session /\ tick.valid /\ tick.stage = "sweep"
    BY <1>3 DEF SweepEnds, AfterSweep, Tick
  <2> QED
    BY <2>1, <2>2, <2>3 DEF GapInv, Debts, Held, Paid, ResumeOf, NoTick
<1>4. CASE TickReleases
  <2>1. tick \in Tick /\ tick.session \in Session /\ ~asked.under /\ gap # "open"
    BY <1>4 DEF TickReleases, Tick, InOrder, GapInv
  <2>2. ReconcileDone(tick.session).phase = "connected"
    BY <2>1 DEF ReconcileDone, Session
  <2>3. tick' = NoTick /\ UNCHANGED <<asked, gap>>
    BY <1>4 DEF TickReleases
  <2>4. CASE tick.valid
    <3>1. saved'.phase = "connected" /\ heard'
      BY <1>4, <2>2, <2>4 DEF TickReleases, Keep
    <3> QED
      BY <2>1, <2>3, <3>1 DEF GapInv, Debts, Held, Paid, NoTick
  <2>5. CASE ~tick.valid
    BY <1>4, <2>3, <2>5, GapFrame DEF TickReleases
  <2> QED
    BY <2>4, <2>5
<1>5. CASE ResumeAnswers
  <2> DEFINE session == IF asked.valid THEN Resumed(asked.session) ELSE saved
  <2>1. asked.under /\ asked \in Resume /\ asked' = NoResume /\ ~asked'.under
    BY <1>5 DEF ResumeAnswers, NoResume
  <2>2. session \in Session /\ Held(session) /\ session.phase = saved.phase
    BY <2>1, SessionsTyped, SessionsOwe DEF Resume, GapInv, Debts
  <2>3. saved' = session /\ heard' = heard
    BY <1>5, <2>2 DEF ResumeAnswers, Keep, Held, TypeOK
  <2>4. Poll(session) \/ UNCHANGED <<tick, gap>>
    BY <1>5 DEF ResumeAnswers
  <2> HIDE DEF session
  <2>5. CASE Poll(session)
    BY <2>1, <2>2, <2>3, <2>5, PollInductive
  <2>6. CASE UNCHANGED <<tick, gap>>
    BY <2>1, <2>2, <2>3, <2>6 DEF GapInv, Debts, Held, Paid
  <2> QED
    BY <2>4, <2>5, <2>6
<1>6. ASSUME NEW b \in Book, ApplyBook(b) \/ ApplyDeletion(b) \/ SweepVisits(b) \/ RefuseHint(b)
      PROVE  GapInv'
  <2>1. tick \in Tick
    BY <1>6 DEF ApplyBook, ApplyDeletion, SweepVisits, RefuseHint
  <2>2. UNCHANGED <<gap, heard, saved, asked>>
    BY <1>6 DEF ApplyBook, ApplyDeletion, SweepVisits, RefuseHint, history
  <2>3. /\ tick' \in Tick
        /\ tick'.stage = tick.stage /\ tick'.valid = tick.valid
        /\ tick'.session = tick.session /\ tick'.wide = tick.wide /\ tick'.action = tick.action
    <3>1. \/ tick' = [tick EXCEPT !.books = @ \ {b}]
          \/ tick' = [tick EXCEPT !.removed = @ \ {b}]
          \/ tick' = [tick EXCEPT !.left = @ \ {b}]
      BY <1>6 DEF ApplyBook, ApplyDeletion, SweepVisits, RefuseHint
    <3>2. tick' \in Tick
      BY <2>1, <3>1, SessionAwake
    <3> QED
      BY <2>1, <3>1, <3>2 DEF Tick
  <2> QED
    BY <2>1, <2>2, <2>3, GapFrame
<1>7. ASSUME NEW b \in Book, NEW kind \in {"book", "deleted", "wide"}, Change(b, kind) \/ OtherVisits(b)
      PROVE  GapInv'
  BY <1>7, GapFrame DEF Change, OtherVisits, loops
<1>8. CASE Heartbeat \/ Cut \/ PollFails \/ OtherBegins
  BY <1>8, GapFrame DEF Heartbeat, Cut, PollFails, OtherBegins, loops, history
<1>9. CASE BackoffElapses
  <2>1. saved' = Awake(saved) /\ Held(Awake(saved)) /\ Awake(saved).phase = saved.phase
    BY <1>9, SessionsOwe DEF BackoffElapses, GapInv, Debts
  <2>2. UNCHANGED <<gap, heard, asked>>
    BY <1>9 DEF BackoffElapses, history
  <2>3. CASE tick.stage = "none"
    BY <1>9, <2>1, <2>2, <2>3 DEF BackoffElapses, GapInv, Debts, Held, Paid
  <2>4. CASE tick.stage # "none"
    <3>1. tick \in Tick /\ tick.session \in Session
      BY <2>4 DEF Tick
    <3>2. tick' = [tick EXCEPT !.session = Awake(tick.session)]
      BY <1>9, <2>4 DEF BackoffElapses
    <3>3. /\ tick'.stage = tick.stage /\ tick'.valid = tick.valid
          /\ tick'.wide = tick.wide /\ tick'.action = tick.action
          /\ tick'.session = Awake(tick.session)
      BY <3>1, <3>2 DEF Tick
    <3>4. Awake(tick.session).phase = tick.session.phase /\ Awake(tick.session).owes = tick.session.owes
      BY <3>1 DEF Awake, Session
    <3> QED
      BY <2>1, <2>2, <2>4, <3>3, <3>4 DEF GapInv, Debts, Held, Paid
  <2> QED
    BY <2>3, <2>4
<1>10. CASE SweepFails
  <2>1. gap' = Unpaid /\ Unpaid # "open" /\ UNCHANGED <<saved, heard, asked>>
    BY <1>10 DEF SweepFails, Unpaid
  <2>2. \/ tick' = NoTick
        \/ tick'.stage = "release" /\ tick'.session = tick.session /\ tick.valid /\ tick.stage = "sweep"
    BY <1>10 DEF SweepFails, AfterSweep, Tick
  <2> QED
    BY <2>1, <2>2 DEF GapInv, Debts, Held, Paid, NoTick
<1>11. CASE OtherEnds
  <2>1. asked' = asked \/ asked' = ResumeOf(saved)
    BY <1>11 DEF OtherEnds, Resuming
  <2>2. UNCHANGED <<gap, heard, saved, tick>>
    BY <1>11 DEF OtherEnds, history
  <2> QED
    BY <2>1, <2>2 DEF GapInv, Debts, Held, Paid, ResumeOf
<1>12. ASSUME tick' = Invalid(tick), UNCHANGED <<gap, heard, saved>>,
              asked' = Revoked(asked) \/ asked' = ResumeOf(saved)
       PROVE  GapInv'
  <2>1. asked'.under /\ asked'.valid => asked' = ResumeOf(saved)
    BY <1>12 DEF Revoked, Resume
  <2>2. \/ tick' = tick /\ tick.stage = "none"
        \/ /\ tick'.stage = tick.stage /\ ~tick'.valid /\ tick'.wide = tick.wide
           /\ tick'.action = tick.action /\ tick'.session = tick.session
    BY <1>12 DEF Invalid, Tick
  <2> QED
    BY <1>12, <2>1, <2>2 DEF GapInv, Debts, Held, Paid, ResumeOf
<1>13. CASE GoesToBackground
  BY <1>12, <1>13 DEF GoesToBackground, history
<1>14. CASE ComesToForeground
  <2>1. UNCHANGED <<saved, heard>> /\ asked' = ResumeOf(saved)
    BY <1>14 DEF ComesToForeground
  <2>2. CASE Poll(saved)
    <3>1. Held(saved) /\ asked'.session = saved
      BY <2>1 DEF GapInv, Debts, ResumeOf
    <3> QED
      BY <2>1, <2>2, <3>1, PollInductive
  <2>3. CASE tick' = Invalid(tick) /\ UNCHANGED gap
    BY <1>12, <2>1, <2>3
  <2> QED
    BY <1>14, <2>2, <2>3 DEF ComesToForeground
<1>15. CASE Disposes
  BY <1>12, <1>15 DEF Disposes, history
<1>16. CASE UNCHANGED vars
  BY <1>16, GapFrame DEF vars, loops, history
<1>17. CASE Opens \/ OpenFails \/ OpenRefused
  BY <1>17, GapHandshake
<1> QED
  BY <1>1, <1>2, <1>3, <1>4, <1>5, <1>6, <1>7, <1>8, <1>9, <1>10, <1>11, <1>13, <1>14,
     <1>15, <1>16, <1>17
  DEF Next, Core, World

LEMMA InitGap == Init => GapInv
BY DEF Init, Fresh, NoTick, NoResume, GapInv, Debts, Held, Paid

(***************************************************************************)
(* After a gap the debt of a sweep travels with the session: no copy of it *)
(* that could still poll (the saved one, the one of a tick under way, the  *)
(* one a resume carries) is connected and without the debt, unless a sweep *)
(* has been reported since.                                                *)
(***************************************************************************)
THEOREM GapInvariant == Spec => []GapInv
BY InitGap, TypeCorrect, GapInductive, PTL DEF Spec

\* A tick begins with a poll of one of the sessions the invariant is about.
LEMMA TicksBegin ==
    ASSUME TypeOK, GapInv, [Next]_vars, tick.stage = "none", tick'.stage = "apply"
    PROVE  \E s \in Session : Held(s) /\ Poll(s)
<1> USE Standing
<1>1. CASE TickBegins
  BY <1>1 DEF TickBegins, GapInv, Debts
<1>2. CASE ResumeAnswers
  <2> DEFINE session == IF asked.valid THEN Resumed(asked.session) ELSE saved
  <2>1. session \in Session /\ Held(session)
    BY <1>2, SessionsTyped, SessionsOwe DEF ResumeAnswers, Resume, GapInv, Debts
  <2>2. Poll(session) \/ UNCHANGED tick
    BY <1>2 DEF ResumeAnswers
  <2> QED
    BY <2>1, <2>2
<1>3. CASE ComesToForeground
  <2>1. Invalid(tick).stage = "none"
    BY DEF Invalid
  <2> QED
    BY <1>3, <2>1 DEF ComesToForeground, GapInv, Debts
<1>4. CASE PollAnswers \/ SweepEnds \/ TickReleases \/ PollFails \/ SweepFails
  BY <1>4 DEF PollAnswers, SweepEnds, TickReleases, PollFails, SweepFails
<1>5. ASSUME NEW b \in Book, ApplyBook(b) \/ ApplyDeletion(b) \/ SweepVisits(b) \/ RefuseHint(b)
      PROVE  FALSE
  BY <1>5 DEF ApplyBook, ApplyDeletion, SweepVisits, RefuseHint
<1>6. ASSUME NEW b \in Book, NEW kind \in {"book", "deleted", "wide"}, Change(b, kind) \/ OtherVisits(b)
      PROVE  FALSE
  BY <1>6 DEF Change, OtherVisits, loops
<1>7. CASE Heartbeat \/ Cut \/ OtherBegins \/ OtherEnds \/ BackoffElapses
  BY <1>7 DEF Heartbeat, Cut, OtherBegins, OtherEnds, BackoffElapses, loops
<1>8. CASE GoesToBackground \/ Disposes
  BY <1>8 DEF GoesToBackground, Disposes, Invalid
<1>9. CASE UNCHANGED vars
  BY <1>9 DEF vars, loops
<1>10. CASE Opens \/ OpenFails \/ OpenRefused
  BY <1>10 DEF Opens, OpenFails, OpenRefused
<1> QED
  BY <1>1, <1>2, <1>3, <1>4, <1>5, <1>6, <1>7, <1>8, <1>9, <1>10 DEF Next, Core, World

\* Only a connected session has its stream read.
LEMMA HintsAreRead ==
    ASSUME NEW s, Poll(s), tick'.hints # {}
    PROVE  s.phase = "connected"
BY DEF Poll, Read, Wait, Reach, TickOf

\* After the stream has been opened again no event of it is taken before a sweep was
\* asked for and answered: whatever the failures, and also when the app's lifecycle,
\* other sweeps or a resume that was asked for earlier come between the reopening
\* and the sweep (note_connected, settle_sweep, live_sync.dart's _tick and resume).
THEOREM SweepComesFirst == Spec => SweepBeforeHints
<1>1. TypeOK /\ GapInv /\ [Next]_vars =>
        [tick.stage = "none" /\ tick'.stage = "apply" /\ tick'.hints # {} => gap # "open"]_vars
  <2> SUFFICES ASSUME TypeOK, GapInv, [Next]_vars,
                      tick.stage = "none", tick'.stage = "apply", tick'.hints # {}
               PROVE  gap # "open"
    OBVIOUS
  <2>1. PICK s \in Session : Held(s) /\ Poll(s)
    BY TicksBegin
  <2> QED
    BY <2>1, HintsAreRead DEF Held, Paid
<1> QED
  BY <1>1, TypeCorrect, GapInvariant, PTL DEF Spec, SweepBeforeHints

-------------------------------------------------------------------------------
(* Nothing is forgotten                                                      *)

\* Streams break, handshakes fail and the database does not open for hints, as often as
\* they like; sweeps and refetches succeed, and the app stays in front.
OnlyBreaks == Rough \subseteq {"cut", "refuse", "quiet", "store"}

\* What the stream will bring up, or will turn out to have lost.
InReach(b) == wire # "open" \/ \E i \in DOMAIN line : line[i].kind = "wide" \/ line[i].book = b

\* Sweeps are the tick's own, nothing is revoked, and a resume is asked for only
\* between the end of a sweep and the end of its tick.
OneSweep ==
    /\ app = "running" /\ other = {}
    /\ syncing <=> tick.stage = "sweep"
    /\ tick.stage # "none" => tick.valid
    /\ asked.under => asked.valid /\ tick.stage = "release"

\* Where a session stands at each point of a tick.  One that was never promised a
\* stream comes from a session that was not either.
Phases ==
    /\ saved.phase \in {"connected", "disconnected"}
    /\ tick.stage = "open" =>
          /\ saved.phase = "disconnected" /\ tick.session.phase = "disconnected"
          /\ tick.session.owes = saved.owes
    /\ tick.stage = "apply" =>
          /\ tick.session.phase = "reconciling" <=> tick.action = "reconcile"
          /\ tick.session.phase = "reconcile-only" <=> tick.action = "reconcile-only"
          /\ tick.action = "reconcile-only" => tick.session.owes
          /\ tick.session.phase = "disconnected" /\ ~tick.session.owes =>
                saved.phase = "disconnected" /\ ~saved.owes
    /\ tick.stage \in {"sweep", "release"} =>
          tick.session.phase \in {"connected", "reconciling", "reconcile-only"}

\* The debt is dropped at the end of a sweep: what it did not visit is in reach.
SweepCovers ==
    /\ tick.stage \in {"sweep", "release"} => \A b \in behind : b \in tick.left \/ InReach(b)
    /\ tick.stage = "release" => tick.left = {}

\* What the mirror is behind on before any stream was promised was never promised.
NoPromise ==
    tick.stage \in {"none", "open", "apply"} /\ saved.phase = "disconnected" /\ ~saved.owes =>
        behind \subseteq unheard

CalmInv == OneSweep /\ Phases /\ SweepCovers /\ NoPromise /\ NothingForgotten

LEMMA InitCalm == Init => CalmInv
BY DEF Init, Fresh, NoTick, NoResume, CalmInv, OneSweep, Phases, SweepCovers, NoPromise, NothingForgotten

LEMMA CalmSteps ==
    ASSUME OnlyBreaks, OneSweep, [Next]_vars
    PROVE  \/ TickBegins \/ Opens \/ OpenFails \/ OpenRefused \/ PollAnswers \/ SweepEnds \/ TickReleases \/ ResumeAnswers
           \/ \E b \in Book : ApplyBook(b) \/ ApplyDeletion(b) \/ SweepVisits(b)
           \/ \E b \in Book, kind \in {"book", "deleted", "wide"} : Change(b, kind)
           \/ Heartbeat \/ Cut \/ BackoffElapses \/ PollFails \/ UNCHANGED vars
<1>1. ~(SweepFails \/ OtherBegins \/ GoesToBackground \/ Disposes)
  BY DEF OnlyBreaks, SweepFails, OtherBegins, GoesToBackground, Disposes
<1>2. ~(OtherEnds \/ ComesToForeground)
  BY DEF OneSweep, OtherEnds, OtherSweeping, ComesToForeground
<1>3. \A b \in Book : ~(RefuseHint(b) \/ OtherVisits(b))
  BY DEF OnlyBreaks, OneSweep, RefuseHint, OtherVisits
<1> QED
  BY <1>1, <1>2, <1>3 DEF Next, Core, World

LEMMA CalmTickBegins ==
    ASSUME TypeOK, CalmInv, TickBegins
    PROVE  CalmInv'
<1>1. saved \in Session /\ tick = NoTick /\ tick.stage = "none" /\ Poll(saved)
  BY Standing, PollBegins DEF TickBegins
<1>2. /\ UNCHANGED <<behind, unheard, saved, asked, app, other, syncing>>
      /\ tick'.stage \in {"open", "apply"} /\ tick'.valid
  BY <1>1, PollBegins DEF TickBegins, sweeps
<1>3. OneSweep'
  BY <1>1, <1>2 DEF CalmInv, OneSweep
<1>4. saved.phase \in {"connected", "disconnected"}
  BY DEF CalmInv, Phases
<1>5. \A b \in behind \ unheard : saved.owes \/ (saved.phase = "connected" /\ InReach(b))
  BY <1>1, <1>4 DEF CalmInv, OneSweep, NothingForgotten, WillLook, Coming, InReach
<1>6. SUFFICES Phases' /\ \A b \in behind \ unheard : WillLook(b)'
  BY <1>1, <1>2, <1>3 DEF CalmInv, SweepCovers, NoPromise, NothingForgotten
<1>7. \A b : \/ tick'.session.owes
             \/ tick'.stage = "apply" /\ (b \in tick'.books \cup tick'.removed \/ OwesSweep(tick)')
          => WillLook(b)'
  BY <1>2 DEF WillLook, Coming, InReach, CalmInv, OneSweep
<1>8. CASE Read(saved)
  <2> DEFINE now == IF Drained THEN saved ELSE NoteDisconnected(saved)
             action == CASE ~Drained -> "backing-off"
                         [] Drained /\ Taken # <<>> -> "applied"
                         [] OTHER -> "idle"
  <2>1. /\ tick' = TickOf(now, action, Books(Taken), Removed(Taken), NeedsSweep(Taken))
        /\ saved.phase = "connected"
    BY <1>8 DEF Read
  <2>2. /\ tick'.session = now /\ tick'.action = action /\ tick'.wide = NeedsSweep(Taken)
        /\ tick'.books = Books(Taken) /\ tick'.removed = Removed(Taken)
        /\ tick'.stage = "apply"
    BY <2>1 DEF TickOf
  <2>3. action \notin {"reconcile", "reconcile-only"}
    OBVIOUS
  <2>4. ~Drained => now.owes /\ now.phase = "disconnected"
    BY <2>1 DEF NoteDisconnected
  <2>5. Drained => now = saved
    OBVIOUS
  <2> HIDE DEF now, action
  <2>6. Phases'
    BY <1>2, <1>4, <2>1, <2>2, <2>3, <2>4, <2>5 DEF Phases
  <2>7. ASSUME NEW b \in behind \ unheard PROVE WillLook(b)'
    <3>1. CASE ~Drained
      BY <1>7, <2>2, <2>4, <3>1
    <3>2. CASE Drained /\ saved.owes
      BY <1>7, <2>2, <2>5, <3>2
    <3>3. CASE Drained /\ ~saved.owes
      <4>1. Taken = line /\ Taken \in Seq(Event) /\ wire = "open"
        BY <3>3, TakenIsPrefix DEF Drained, Claimed, ClaimedLine
      <4>2. PICK i \in DOMAIN Taken : Taken[i].kind = "wide" \/ Taken[i].book = b
        BY <1>5, <3>3, <4>1 DEF InReach
      <4>3. NeedsSweep(Taken) \/ b \in Books(Taken) \cup Removed(Taken)
        BY <4>1, <4>2, HintsCover
      <4> QED
        BY <1>7, <2>2, <4>3 DEF OwesSweep
    <3> QED
      BY <3>1, <3>2, <3>3
  <2> QED
    BY <2>6, <2>7
<1>9. CASE ~Read(saved)
  <2>1. Wait(saved) \/ Reach(saved)
    BY <1>1, <1>9 DEF Poll
  <2>2. saved.phase = "disconnected"
    BY <2>1 DEF Wait, Reach, Due
  <2>3. tick'.session = saved /\ tick'.action = "idle"
    BY <2>1 DEF Wait, Reach, TickOf
  <2>4. Phases'
    BY <1>2, <1>4, <2>2, <2>3 DEF Phases
  <2> QED
    BY <1>5, <1>7, <2>2, <2>3, <2>4
<1> QED
  BY <1>8, <1>9

\* A handshake ends.  One that follows a lost stream opens into a debt, one that fails or
\* is refused keeps or makes one; only a first connection is trusted, and nothing was
\* promised before it.
LEMMA CalmHandshake ==
    ASSUME TypeOK, CalmInv, Opens \/ OpenFails \/ OpenRefused
    PROVE  CalmInv'
<1>1. PICK s \in Session, action \in {"reconcile", "applied", "backing-off", "reconcile-only"} :
         /\ tick.stage = "open" /\ tick \in Tick /\ tick.session \in Session
         /\ tick' = Answered(s, action)
         /\ \/ s = NoteConnected(tick.session) /\ action = IF s.owes THEN "reconcile" ELSE "applied"
            \/ s = NoteDisconnected(tick.session) /\ action = "backing-off"
            \/ s = ParkedFor(tick.session) /\ action = "reconcile-only"
         /\ UNCHANGED <<saved, asked, behind, unheard, app, other, syncing>>
  BY HandshakeEnds
<1>2. /\ tick'.stage = "apply" /\ tick'.session = s /\ tick'.action = action
      /\ tick'.valid = tick.valid
  BY <1>1, AnsweredTyped
<1>3. /\ saved.phase = "disconnected" /\ tick.session.phase = "disconnected"
      /\ tick.session.owes = saved.owes
  BY <1>1 DEF CalmInv, Phases
<1>4. /\ NoteDisconnected(tick.session).phase = "disconnected"
      /\ NoteDisconnected(tick.session).owes = saved.owes
      /\ ParkedFor(tick.session).phase = "reconcile-only" /\ ParkedFor(tick.session).owes
      /\ saved.owes => NoteConnected(tick.session).owes
      /\ NoteConnected(tick.session).phase =
            IF NoteConnected(tick.session).owes THEN "reconciling" ELSE "connected"
  BY <1>1, <1>3 DEF NoteDisconnected, ParkedFor, NoteConnected, Session
<1>5. OneSweep' /\ SweepCovers' /\ NoPromise'
  BY <1>1, <1>2 DEF CalmInv, OneSweep, SweepCovers, NoPromise
<1>6. Phases'
  BY <1>1, <1>2, <1>3, <1>4 DEF Phases
<1>7. ASSUME NEW b \in behind \ unheard PROVE WillLook(b)'
  <2>1. saved.owes
    BY <1>1, <1>3, <1>7 DEF CalmInv, NoPromise
  <2>2. s.owes /\ tick.valid
    BY <1>1, <1>4, <2>1 DEF CalmInv, OneSweep
  <2> QED
    BY <1>2, <2>2 DEF WillLook, Coming
<1> QED
  BY <1>1, <1>5, <1>6, <1>7 DEF CalmInv, NothingForgotten

LEMMA CalmPollAnswers ==
    ASSUME TypeOK, GapInv, CalmInv, PollAnswers
    PROVE  CalmInv'
<1>1. /\ tick \in Tick /\ tick.stage = "apply" /\ tick.valid /\ ~syncing /\ ~asked.under
      /\ tick.books = {} /\ tick.removed = {}
  BY Standing DEF PollAnswers, InOrder, CalmInv, OneSweep
<1>2. UNCHANGED <<behind, unheard, asked, app, other>>
  BY DEF PollAnswers
<1>3. wire' = "none" \/ UNCHANGED <<wire, line>>
  BY DEF PollAnswers, Park
<1>4. CASE ~OwesSweep(tick)
  <2>1. Settled(tick) = tick.session
    BY <1>4 DEF Settled
  <2>2. tick' = NoTick /\ saved' = tick.session /\ syncing' = syncing
    BY <1>1, <1>4, <2>1 DEF PollAnswers, Keep
  <2>3. tick.session.phase \in {"connected", "disconnected"}
    BY <1>1, <1>4 DEF CalmInv, Phases, OwesSweep, Tick, Session, Phase
  <2>4. \A b \in behind \ unheard : tick.session.owes \/ (tick.session.phase = "connected" /\ InReach(b))
    BY <1>1, <1>4, <2>3 DEF CalmInv, OneSweep, NothingForgotten, WillLook, Coming, InReach
  <2>5. \A b \in behind \ unheard : WillLook(b)'
    BY <1>3, <2>2, <2>4 DEF WillLook, Coming, InReach, NoTick
  <2> QED
    BY <1>1, <1>2, <2>2, <2>3, <2>5 DEF CalmInv, OneSweep, Phases, SweepCovers, NoPromise, NothingForgotten, NoTick
<1>5. CASE OwesSweep(tick)
  <2>0. PICK session : session = Settled(tick)
    OBVIOUS
  <2>1. tick' = Sweeping(session) /\ syncing' /\ saved' = saved
    BY <1>1, <1>5, <2>0 DEF PollAnswers
  <2>2. tick'.stage = "sweep" /\ tick'.left = Book /\ tick'.valid /\ tick'.session = session
    BY <1>1, <2>1 DEF Sweeping, Tick
  <2>3. session.phase \in {"connected", "reconciling", "reconcile-only"}
    <3>1. tick.session \in Session
      BY <1>1 DEF Tick
    <3> QED
      BY <1>1, <1>5, <2>0, <3>1 DEF Settled, ReconcileDone, CalmInv, Phases, Session
  <2>4. behind \subseteq Book
    BY DEF TypeOK
  <2> QED
    BY <1>1, <1>2, <2>1, <2>2, <2>3, <2>4
    DEF CalmInv, OneSweep, Phases, SweepCovers, NoPromise, NothingForgotten, WillLook
<1> QED
  BY <1>4, <1>5

LEMMA CalmSweepEnds ==
    ASSUME TypeOK, CalmInv, SweepEnds
    PROVE  CalmInv'
<1>1. /\ tick \in Tick /\ tick.stage = "sweep" /\ tick.valid /\ tick.left = {} /\ ~asked.under
      /\ app = "running" /\ other = {}
  BY Standing DEF SweepEnds, CalmInv, OneSweep
<1>2. /\ tick'.stage = "release" /\ tick'.valid /\ tick'.left = {} /\ tick'.session = tick.session
      /\ syncing' = FALSE
  BY <1>1 DEF SweepEnds, AfterSweep, Tick
<1>3. asked' = ResumeOf(saved)
  BY <1>1 DEF SweepEnds, Resuming
<1>4. UNCHANGED <<behind, unheard, wire, line, saved, app, other>>
  BY DEF SweepEnds, wires
<1> QED
  BY <1>1, <1>2, <1>3, <1>4
  DEF CalmInv, OneSweep, Phases, SweepCovers, NoPromise, NothingForgotten, WillLook, Coming, InReach, OtherSweeping,
      ResumeOf

LEMMA CalmTickReleases ==
    ASSUME TypeOK, CalmInv, TickReleases
    PROVE  CalmInv'
<1>1. tick \in Tick /\ tick.session \in Session /\ tick.stage = "release" /\ tick.valid /\ ~asked.under
  BY Standing DEF TickReleases, InOrder, CalmInv, OneSweep, Tick
<1>2. saved'.phase = "connected" /\ tick' = NoTick
  BY <1>1 DEF TickReleases, Keep, ReconcileDone, Session
<1>3. UNCHANGED <<behind, unheard, wire, line, asked, app, other, syncing>>
  BY DEF TickReleases, wires, sweeps
<1>4. \A b \in behind : InReach(b)
  BY <1>1 DEF CalmInv, SweepCovers
<1> QED
  BY <1>1, <1>2, <1>3, <1>4
  DEF CalmInv, OneSweep, Phases, SweepCovers, NoPromise, NothingForgotten, WillLook, Coming, InReach, NoTick

LEMMA CalmResumeAnswers ==
    ASSUME TypeOK, GapInv, CalmInv, ResumeAnswers
    PROVE  CalmInv'
<1>1. /\ tick.stage = "release" /\ tick.valid
      /\ asked.under /\ asked.valid /\ asked.session \in Session
  BY Standing DEF ResumeAnswers, CalmInv, OneSweep, Resume
<1>2. UNCHANGED <<behind, unheard, wire, line, tick, app, other, syncing>> /\ asked' = NoResume
  BY <1>1, PollBegins DEF ResumeAnswers, sweeps
<1>3. saved' = Resumed(asked.session)
  BY <1>1 DEF ResumeAnswers, Keep
<1>4. Resumed(asked.session).phase = asked.session.phase /\ asked.session.phase = saved.phase
  BY <1>1, SessionsOwe DEF GapInv, Debts
<1> QED
  BY <1>1, <1>2, <1>3, <1>4
  DEF CalmInv, OneSweep, Phases, SweepCovers, NoPromise, NothingForgotten, WillLook, Coming, InReach, OtherSweeping,
      NoResume

\* A book is looked at: by a hint, or by the sweep.
LEMMA CalmVisits ==
    ASSUME TypeOK, CalmInv, NEW b \in Book, ApplyBook(b) \/ ApplyDeletion(b) \/ SweepVisits(b)
    PROVE  CalmInv'
<1>1. tick \in Tick
  BY Standing DEF ApplyBook, ApplyDeletion, SweepVisits
<1>2. /\ behind' = behind \ {b} /\ unheard' = unheard \ {b}
      /\ UNCHANGED <<wire, line, saved, asked, app, other, syncing>>
  BY DEF ApplyBook, ApplyDeletion, SweepVisits, Refresh, wires, sweeps
<1>3. \/ tick' = [tick EXCEPT !.books = @ \ {b}]
      \/ tick' = [tick EXCEPT !.removed = @ \ {b}]
      \/ tick.stage = "sweep" /\ tick' = [tick EXCEPT !.left = @ \ {b}]
  BY DEF ApplyBook, ApplyDeletion, SweepVisits
<1>4. /\ tick'.stage = tick.stage /\ tick'.valid = tick.valid /\ tick'.session = tick.session
      /\ tick'.wide = tick.wide /\ tick'.action = tick.action
      /\ tick.books \ {b} \subseteq tick'.books /\ tick.removed \ {b} \subseteq tick'.removed
      /\ tick.left \ {b} \subseteq tick'.left /\ tick'.left \subseteq tick.left
  BY <1>1, <1>3 DEF Tick
<1>5. \A c \in behind' \ unheard' : WillLook(c)'
  <2> SUFFICES ASSUME NEW c \in behind \ unheard, c # b PROVE WillLook(c)'
    BY <1>2
  <2>1. WillLook(c)
    BY DEF CalmInv, NothingForgotten
  <2> QED
    BY <1>2, <1>4, <2>1 DEF WillLook, OwesSweep, OtherSweeping, Coming
<1>6. OneSweep' /\ Phases'
  BY <1>2, <1>4 DEF CalmInv, OneSweep, Phases
<1>7. SweepCovers' /\ NoPromise'
  BY <1>2, <1>4 DEF CalmInv, SweepCovers, NoPromise, InReach
<1> QED
  BY <1>5, <1>6, <1>7 DEF CalmInv, NothingForgotten

\* A change while a stream is promised is on the wire, or the wire is known to be lost.
LEMMA CalmChange ==
    ASSUME TypeOK, CalmInv, NEW b \in Book, NEW kind \in {"book", "deleted", "wide"}, Change(b, kind)
    PROVE  CalmInv'
<1>1. /\ behind' = behind \cup {b} /\ unheard' = IF Unpromised THEN unheard \cup {b} ELSE unheard
      /\ UNCHANGED <<wire, saved, tick, asked, app, other, syncing>>
      /\ line' = IF wire = "open" THEN Append(line, [kind |-> kind, book |-> b]) ELSE line
  BY DEF Change, loops, sweeps
<1>2. line \in Seq(Event) /\ [kind |-> kind, book |-> b] \in Event
  BY DEF TypeOK, Event
<1>3. InReach(b)' /\ \A c : InReach(c) => InReach(c)'
  <2>1. CASE wire # "open"
    BY <1>1, <2>1 DEF InReach
  <2>2. CASE wire = "open"
    <3>1. line' = Append(line, [kind |-> kind, book |-> b])
      BY <1>1, <2>2
    <3>2. /\ Len(line) + 1 \in DOMAIN line' /\ line'[Len(line) + 1] = [kind |-> kind, book |-> b]
          /\ \A i \in DOMAIN line : i \in DOMAIN line' /\ line'[i] = line[i]
      BY <1>2, <3>1
    <3> QED
      BY <1>1, <3>2 DEF InReach
  <2> QED
    BY <2>1, <2>2
<1>4. ASSUME NEW c \in behind, c \notin unheard' PROVE WillLook(c)'
  <2>1. WillLook(c)
    BY <1>1, <1>4 DEF CalmInv, NothingForgotten
  <2> QED
    BY <1>1, <1>3, <2>1 DEF WillLook, OwesSweep, OtherSweeping, Coming, InReach
<1>5. ASSUME b \notin unheard' PROVE WillLook(b)'
  <2>1. Coming.phase # "reconcile-only" /\ ~(saved.phase = "disconnected" /\ ~saved.owes)
    BY <1>1, <1>5 DEF Unpromised
  <2>2. Coming.phase \in Phase
    BY Standing DEF Coming, Tick, Session
  <2>3. Coming.owes \/ Coming.phase \in {"connected", "reconciling"}
    BY <2>1, <2>2, Standing DEF Coming, CalmInv, OneSweep, Phases, Phase, Tick
  <2> QED
    BY <1>1, <1>3, <2>3 DEF WillLook, Coming, InReach
<1>6. OneSweep' /\ Phases'
  BY <1>1 DEF CalmInv, OneSweep, Phases
<1>7. SweepCovers'
  BY <1>1, <1>3 DEF CalmInv, SweepCovers
<1>8. NoPromise'
  BY <1>1 DEF CalmInv, NoPromise, Unpromised
<1> QED
  BY <1>1, <1>4, <1>5, <1>6, <1>7, <1>8 DEF CalmInv, NothingForgotten

LEMMA CalmBackoff ==
    ASSUME TypeOK, CalmInv, BackoffElapses
    PROVE  CalmInv'
<1>1. UNCHANGED <<behind, unheard, wire, line, asked, app, other, syncing>>
  BY DEF BackoffElapses, wires, sweeps, history
<1>2. saved'.phase = saved.phase /\ saved'.owes = saved.owes
  BY Standing DEF BackoffElapses, Awake, Session
<1>3. CASE tick.stage = "none"
  <2>1. tick' = tick
    BY <1>3 DEF BackoffElapses
  <2> QED
    BY <1>1, <1>2, <1>3, <2>1
    DEF CalmInv, OneSweep, Phases, SweepCovers, NoPromise, NothingForgotten, WillLook, Coming, InReach, OtherSweeping
<1>4. CASE tick.stage # "none"
  <2>1. tick \in Tick /\ tick.session \in Session
    BY <1>4, Standing DEF Tick
  <2>2. tick' = [tick EXCEPT !.session = Awake(tick.session)]
    BY <1>4 DEF BackoffElapses
  <2>3. /\ tick'.stage = tick.stage /\ tick'.valid = tick.valid /\ tick'.wide = tick.wide
        /\ tick'.action = tick.action /\ tick'.books = tick.books /\ tick'.removed = tick.removed
        /\ tick'.left = tick.left
        /\ tick'.session.phase = tick.session.phase /\ tick'.session.owes = tick.session.owes
    BY <2>1, <2>2 DEF Tick, Awake, Session
  <2>4. OneSweep' /\ Phases' /\ SweepCovers' /\ NoPromise'
    BY <1>1, <1>2, <2>3 DEF CalmInv, OneSweep, Phases, SweepCovers, NoPromise, InReach
  <2>5. \A b \in behind \ unheard : WillLook(b)'
    BY <1>1, <1>2, <2>3 DEF CalmInv, NothingForgotten, WillLook, OwesSweep, Coming, OtherSweeping
  <2> QED
    BY <1>1, <2>4, <2>5 DEF CalmInv, NothingForgotten
<1> QED
  BY <1>3, <1>4

\* The hints of such a poll are gone, and the stream with them: a session that had one
\* finds it lost, a session that owed a sweep still owes it.
LEMMA CalmPollFails ==
    ASSUME TypeOK, CalmInv, PollFails
    PROVE  CalmInv'
<1>1. tick.stage = "apply" /\ ~syncing /\ ~asked.under /\ tick' = NoTick /\ wire' = "none"
  BY DEF PollFails, CalmInv, OneSweep
<1>2. UNCHANGED <<behind, unheard, saved, asked, app, other, syncing>>
  BY DEF PollFails, sweeps, history
<1>3. \A b \in behind \ unheard : WillLook(b)'
  BY <1>1, <1>2 DEF CalmInv, Phases, NoPromise, WillLook, Coming, NoTick
<1> QED
  BY <1>1, <1>2, <1>3 DEF CalmInv, OneSweep, Phases, SweepCovers, NoPromise, NothingForgotten, NoTick

LEMMA CalmInductive == OnlyBreaks /\ TypeOK /\ GapInv /\ CalmInv /\ [Next]_vars => CalmInv'
<1> SUFFICES ASSUME OnlyBreaks, TypeOK, GapInv, CalmInv, [Next]_vars
             PROVE  CalmInv'
  OBVIOUS
<1>1. OneSweep
  BY DEF CalmInv
<1>2. ASSUME UNCHANGED <<behind, unheard, line, loops, sweeps>>, wire' \in {wire, "cut"}
      PROVE  CalmInv'
  BY <1>2
  DEF CalmInv, OneSweep, Phases, SweepCovers, NoPromise, NothingForgotten, WillLook, Coming, InReach, OtherSweeping,
      OwesSweep, loops, sweeps
<1>3. Heartbeat \/ Cut \/ UNCHANGED vars => CalmInv'
  BY <1>2 DEF Heartbeat, Cut, vars, wires, history
<1> QED
  BY <1>1, <1>3, CalmSteps, CalmTickBegins, CalmHandshake, CalmPollAnswers, CalmSweepEnds, CalmTickReleases,
     CalmResumeAnswers, CalmVisits, CalmChange, CalmBackoff, CalmPollFails

\* Events may be lost, but never a change: when streams break, handshakes fail and polls
\* give up on a database that does not open, a book the mirror is behind on is named by an
\* event still to be read, by a hint still to be applied or by a sweep still owed or under
\* way, or its stream is lost and the next poll will find that out (session.rs, and
\* settle_sweep).  The hypothesis is about the world, not the program, and none of it can
\* be dropped: a refetch or a sweep that fails, a second trigger and the app's lifecycle do
\* make the client forget.
THEOREM HintsAreEnough ==
    ASSUME Rough \subseteq {"cut", "refuse", "quiet", "store"}
    PROVE  Spec => []NothingForgotten
<1>1. CalmInv => NothingForgotten
  BY DEF CalmInv
<1>2. OnlyBreaks
  BY DEF OnlyBreaks
<1> QED
  BY <1>1, <1>2, InitCalm, TypeCorrect, GapInvariant, CalmInductive, PTL DEF Spec
=============================================================================
