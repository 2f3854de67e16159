--------------------------- MODULE DownloadsProofs --------------------------
(***************************************************************************)
(* Proofs about Downloads, for every set of books, number of pages, limit  *)
(* of attempts, pages of a pass and number of editions, gestures and       *)
(* faults.                                                                 *)
(*                                                                         *)
(* A pass, a sweep and a gesture each read the state of a book in one      *)
(* statement and write it in a later one.  The invariants say what of the  *)
(* reading still holds in between: LandingInv for a landing page, SweepInv *)
(* for an undisturbed sweep, PassSettles and SweepSettles for the state    *)
(* about to be written, HandInv for a gesture.  RowMoves, FileMoves and    *)
(* StateMoves say once which steps move a row, a file and a state, and the *)
(* theorems look only at those.                                            *)
(***************************************************************************)
EXTENDS Downloads, FiniteSetTheorems, WellFoundedInduction, NaturalsInduction, TLAPS

\* What a pass, a sweep and a gesture hold.
Passing ==
    [at : PassPoints, book : Books \cup {NoBook}, jobs : SUBSET Page, from : Page,
     got : 0 .. MaxEdition, served : BOOLEAN, bad : Nat, terminal : BOOLEAN, late : BOOLEAN,
     was : BookState \cup {"none"}, due : BookState \cup {"none"}]

Sweeping ==
    [by : {"none", "pass", "list"}, left : Seq(Books), at : {"rows", "files", "settle", "rest"},
     judged : SUBSET Page, was : BookState \cup {"none"}, due : BookState \cup {"none"}, calm : BOOLEAN]

Handling ==
    [kind : {"none", "enqueue", "pause", "resume", "retry", "delete"}, book : Books \cup {NoBook},
     was : BookState \cup {"none"}]

\* A pass that has planned has a book, and one that is at a page has that page.
AtPage == {"fetch", "land", "write", "commit", "burn", "exhaust"}

LineTyped ==
    /\ line \in Seq(Books) /\ (\A i, j \in DOMAIN line : line[i] = line[j] => i = j)
    /\ state \in [Books -> BookState \cup {"none"}]
    /\ \A b \in Books : state[b] # "none" <=> b \in Range(line)
    /\ parked \subseteq Range(line)

FilesTyped ==
    /\ page \in [Books -> [Page -> Row \cup {NoRow}]]
    /\ disk \in [Books -> [Page -> File]]
    /\ edition \in [Books -> Usable] /\ asked \in [Books -> 0 .. MaxEdition]
    /\ swept \in BOOLEAN /\ spent \in [taps : 0 .. MaxTaps, faults : 0 .. MaxFaults]

PassTyped ==
    /\ pass \in Passing
    /\ pass.at \notin {"idle", "sweep", "plan"} => pass.book \in Books
    /\ pass.at \in AtPage => pass.jobs # {}
    /\ pass.at \in {"land", "write", "commit"} => pass.got \in Usable
    /\ pass.at = "rest" => pass.was # "none" /\ pass.due # "none"

SweepTyped ==
    /\ sweep \in Sweeping
    /\ sweep.at = "rest" => sweep.was # "none" /\ sweep.due # "none"

HandTyped ==
    /\ hand \in Handling
    /\ hand.kind # "none" => hand.book \in Books
    /\ hand.kind \in {"pause", "resume"} => hand.was # "none"

\* The pages yet to fetch can be tried once more; the one just tried may have had
\* its last attempt.
TriesLeft ==
    pass.at \in {"claim"} \cup AtPage =>
        \A p \in pass.jobs :
            page[pass.book][p].attempts < MaxAttempts \/ (pass.at = "exhaust" /\ p = Job)

Typed == LineTyped /\ FilesTyped /\ PassTyped /\ SweepTyped /\ HandTyped /\ TriesLeft

\* Only a page whose last attempt has just been counted is out of attempts and not
\* failed.
AttemptsInv ==
    \A b \in Books, p \in Page :
        page[b][p].state = "pending" /\ page[b][p].attempts >= MaxAttempts =>
            pass.at = "exhaust" /\ b = pass.book /\ p = Job

\* A landing page belongs to a book that is being downloaded, or its transaction
\* is too late; what was read paused is written paused.
LandingInv ==
    /\ pass.at \in {"write", "commit"} /\ ~pass.late => state[pass.book] = "downloading"
    /\ pass.at = "rest" /\ pass.was = "paused" => pass.due = "paused"
    /\ sweep.at = "rest" /\ sweep.was = "paused" => sweep.due = "paused"

\* What an undisturbed sweep knows of the book it is at.
Judged(b) ==
    \A p \in Page :
        IF p \in sweep.judged
        THEN IF page[b][p].state = "complete" THEN Whole(b, p) ELSE disk[b][p] = Gone
        ELSE page[b][p].state # "complete"

Settled(b) ==
    \A p \in Page : IF page[b][p].state = "complete" THEN Whole(b, p) ELSE disk[b][p] = Gone

SweepInv ==
    /\ \A b \in Books, p \in Page : page[b][p].state = "complete" => page[b][p].held
    /\ sweep.at # "rows" => sweep.left # <<>>
    /\ \A b \in Books : sweep.by # "none" /\ sweep.left # <<>> /\ b = Head(sweep.left) /\ sweep.calm =>
        /\ sweep.at = "files" => Judged(b)
        /\ sweep.at \in {"settle", "rest"} => Settled(b)
        /\ sweep.at = "rest" => sweep.was = state[b] /\ sweep.due = Derived(b, TRUE)

\* Passes and sweeps take turns.
TurnsInv ==
    /\ sweep.by # "none" => pass.at \in {"idle", "sweep"}
    /\ pass.at \in {"claim"} \cup AtPage => \A p \in pass.jobs : page[pass.book][p].state # "complete"

\* A book is in the queue exactly when its pages have rows.
NoneTogether == \A b \in Books, p \in Page : page[b][p].state = "none" <=> state[b] = "none"

\* A book that was deleted under a sweep leaves it nothing to adopt.
LeftInv ==
    \A b \in Range(sweep.left) :
        /\ sweep.by # "none"
        /\ state[b] = "none" => (hand.kind = "delete" /\ hand.book = b) \/ \A p \in Page : disk[b][p] = Gone

\* What a gesture has read still holds.
HandInv ==
    /\ hand.kind = "enqueue" => state[hand.book] # "downloading"
    /\ hand.kind = "pause" => hand.was \in {"waiting", "downloading"}
    /\ hand.kind = "resume" => hand.was \notin {"none", "downloading"}

Full(b) == \A p \in Page : page[b][p].state = "complete"

\* What a settling has read still holds where it matters.
PassSettles ==
    pass.at = "rest" =>
        /\ hand.kind # "enqueue"
        /\ pass.due = pass.was \/ <<pass.was, pass.due>> \in SettleMoves \ {<<"completed", "waiting">>}
        /\ pass.due = "completed" /\ pass.was # "completed" =>
             \A b \in Books : b = pass.book => state[b] = "none" \/ Full(b)

SweepSettles ==
    sweep.by # "none" /\ sweep.at = "rest" =>
        /\ hand.kind # "enqueue" /\ sweep.left # <<>>
        /\ sweep.due = sweep.was \/ <<sweep.was, sweep.due>> \in SettleMoves
        /\ \A b \in Books : b = Head(sweep.left) =>
             /\ sweep.due = "completed" => state[b] = "none" \/ Full(b)
             /\ sweep.due = "waiting" /\ sweep.was # "waiting" => ~Full(b)

TableInv == NoneTogether /\ LeftInv /\ HandInv /\ PassSettles /\ SweepSettles

--------------------------------------------------------------------------------
(* Types                                                                     *)

LEMMA MinIsMember ==
    ASSUME NEW S \in SUBSET Nat, S # {}
    PROVE  Min(S) \in S /\ \A s \in S : Min(S) <= s
<1>1. PICK x \in S : \A y \in S : ~(<<y, x>> \in OpToRel(<, Nat))
  BY NatLessThanWellFounded, WFMin, Zenon
<1>2. ASSUME NEW y \in Nat, NEW z \in Nat, y < z
      PROVE  <<y, z>> \in OpToRel(<, Nat)
  BY <1>2 DEF OpToRel
<1>3. \A y \in S : ~(y < x)
  BY <1>1, <1>2, Zenon
<1>4. \A y \in S : x <= y
  BY <1>3
<1> QED
  BY <1>4 DEF Min

LEMMA JobIsDue ==
    ASSUME pass.jobs \subseteq Page, pass.jobs # {}
    PROVE  Job \in pass.jobs
<1> DEFINE ahead == {p \in pass.jobs : p >= pass.from}
           due == IF ahead = {} THEN pass.jobs ELSE ahead
<1>1. due \in SUBSET Nat /\ due # {} /\ due \subseteq pass.jobs
  BY DownloadsAssumption DEF Page
<1>2. Job = Min(due)
  BY DEF Job
<1> HIDE DEF due
<1> QED
  BY <1>1, <1>2, MinIsMember

LEMMA FirstIsOne ==
    ASSUME NEW B, line \in Seq(Books), NEW b \in B, b \in Range(line)
    PROVE  FirstOf(B) \in B /\ FirstOf(B) \in Range(line)
<1> DEFINE at == {i \in DOMAIN line : line[i] \in B}
<1>1. at \in SUBSET Nat /\ at # {}
  BY DEF Range
<1>2. FirstOf(B) = line[Min(at)]
  BY DEF FirstOf
<1>3. Min(at) \in at
  <2> HIDE DEF at
  <2> QED
    BY <1>1, MinIsMember
<1> QED
  BY <1>2, <1>3 DEF Range

\* What a pass and a sweep that were overtaken are.
LEMMA OvertakenIs ==
    /\ PassTyped => /\ PassOvertaken \in Passing
                    /\ PassOvertaken = [pass EXCEPT !.late = @ \/ pass.at \in {"write", "commit"}]
    /\ SweepTyped => /\ SweepOvertaken \in Sweeping
                     /\ SweepOvertaken = [sweep EXCEPT !.calm = @ /\ sweep.by = "none"]
BY DEF PassTyped, SweepTyped, PassOvertaken, SweepOvertaken, Passing, Sweeping

LEMMA HandInductive ==
    ASSUME Typed, [Next]_vars
    PROVE  HandTyped'
<1>1. HandTyped
  BY DEF Typed
<1>2. ASSUME NEW b \in Books, NEW kind \in {"enqueue", "pause", "resume", "retry", "delete"},
             Tap(kind, b), kind \in {"pause", "resume"} => state[b] # "none"
      PROVE  HandTyped'
  BY <1>2 DEF Typed, LineTyped, HandTyped, Tap, Handling
<1>3. ASSUME hand' = hand \/ hand' = NoHand
      PROVE  HandTyped'
  BY <1>1, <1>3 DEF HandTyped, NoHand, Handling, BookState
<1>4. ASSUME Gestures
      PROVE  HandTyped'
  BY <1>2, <1>4 DEF Gestures, TapEnqueue, TapPause, TapResume, TapRetry, TapDelete, TapOnly, MayQueue
<1>5. HandStep => hand' = NoHand
  BY DEF HandStep, Enqueue, UserSet, Retry, RemoveTree, Release
<1>6. PassStep \/ Pump \/ Elapse => hand' = hand
  BY DEF PassStep, Plan, Claim, Answer, OpenLanding, WriteFile, CommitRow, CommitFails, Burn, Exhaust,
     Settle, Rest, Pump, Elapse
<1>7. Trials \/ StartSweep \/ SweepStep \/ World => hand' = hand
  BY DEF Trials, BadAnswer, WriteFails, Halt, StartSweep, SweepStep, SweepRows, SweepFiles,
     SweepSettle, SweepRest, SweepOver, World, ReaderHeals, Damage, Publish, Expire
<1>8. Crash => hand' = NoHand
  BY DEF Crash
<1> QED
  BY <1>3, <1>4, <1>5, <1>6, <1>7, <1>8 DEF Next, vars

LEMMA InLine == LineTyped => Range(line) \subseteq Books
BY DEF LineTyped, Range

LEMMA DerivedTyped ==
    ASSUME LineTyped, NEW b \in Books, NEW sweeping \in BOOLEAN
    PROVE  /\ Derived(b, sweeping) \in BookState \cup {"none"}
           /\ state[b] # "none" => Derived(b, sweeping) # "none"
BY DEF LineTyped, Derived, DerivedFromPages, BookState

LEMMA SweepInductive ==
    ASSUME Typed, [Next]_vars
    PROVE  SweepTyped'
<1>1. SweepTyped /\ LineTyped
  BY DEF Typed
<1>2. ASSUME sweep' = sweep \/ sweep' = SweepOvertaken \/ sweep' = NoSweep
      PROVE  SweepTyped'
  <2>1. NoSweep \in Sweeping /\ NoSweep.at # "rest"
    BY DEF NoSweep, Sweeping
  <2>2. SweepOvertaken \in Sweeping /\ SweepOvertaken.at = sweep.at
        /\ SweepOvertaken.was = sweep.was /\ SweepOvertaken.due = sweep.due
    BY <1>1 DEF SweepOvertaken, SweepTyped, Sweeping
  <2> QED
    BY <1>1, <1>2, <2>1, <2>2 DEF SweepTyped
<1>3. CASE Pump \/ StartSweep
  <2>1. ASSUME NEW by \in {"pass", "list"}, sweep' = [NoSweep EXCEPT !.by = by, !.left = line]
        PROVE  SweepTyped'
    BY <1>1, <2>1 DEF LineTyped, SweepTyped, Sweeping, NoSweep
  <2> QED
    BY <1>2, <1>3, <2>1 DEF Pump, StartSweep
<1>4. CASE SweepRows
  BY <1>1, <1>4 DEF SweepRows, SweepTyped, Sweeping
<1>5. CASE SweepFiles
  BY <1>1, <1>5 DEF SweepFiles, SweepTyped, Sweeping
<1>6. CASE SweepSettle
  <2>1. sweep.left # <<>> /\ Head(sweep.left) \in Books
    BY <1>1, <1>6 DEF SweepSettle, SweepAt, SweepTyped, Sweeping
  <2>2. CASE SweepEnds
    BY <1>2, <2>2 DEF SweepEnds
  <2>3. CASE ~SweepEnds
    <3>1. PICK b \in Books : b = Head(sweep.left)
      BY <2>1
    <3>2. PICK due : due = Derived(b, TRUE)
      OBVIOUS
    <3>3. state[b] # "none" /\ sweep' = [sweep EXCEPT !.at = "rest", !.was = state[b], !.due = due]
      BY <1>6, <2>3, <3>1, <3>2 DEF SweepSettle, SweepDerived
    <3>4. due \in BookState \cup {"none"} /\ due # "none" /\ state[b] \in BookState \cup {"none"}
      BY <1>1, <3>2, <3>3, DerivedTyped DEF LineTyped
    <3> QED
      BY <1>1, <3>3, <3>4 DEF SweepTyped, Sweeping
  <2> QED
    BY <2>2, <2>3
<1>7. CASE SweepRest
  <2>1. sweep.left \in Seq(Books) /\ Tail(sweep.left) \in Seq(Books) /\ sweep.by \in {"none", "pass", "list"}
    BY <1>1, <1>7 DEF SweepRest, SweepAt, SweepTyped, Sweeping
  <2> QED
    BY <1>7, <2>1 DEF SweepRest, SweepTyped, Sweeping, NoSweep
<1>8. CASE SweepOver
  BY <1>2, <1>8 DEF SweepOver, SweepEnds
<1>9. CASE PassStep \/ Elapse \/ Trials
  BY <1>2, <1>9 DEF PassStep, Plan, Claim, Answer, OpenLanding, WriteFile, CommitRow, CommitFails,
     Burn, Exhaust, Settle, Rest, Elapse, Trials, BadAnswer, WriteFails, Halt
<1>10. CASE Gestures \/ HandStep \/ Crash
  BY <1>2, <1>10 DEF Gestures, TapEnqueue, TapPause, TapResume, TapRetry, TapDelete, TapOnly, HandStep,
     Enqueue, UserSet, Retry, RemoveTree, Release, Crash
<1>11. CASE World \/ UNCHANGED vars
  BY <1>2, <1>11 DEF World, ReaderHeals, Damage, Publish, Expire, vars
<1> QED
  BY <1>3, <1>4, <1>5, <1>6, <1>7, <1>8, <1>9, <1>10, <1>11 DEF Next, SweepStep

LEMMA PassInductive ==
    ASSUME Typed, [Next]_vars
    PROVE  PassTyped'
<1>1. PassTyped /\ LineTyped /\ FilesTyped
  BY DEF Typed
<1>2. NoPass \in Passing
  BY DownloadsAssumption DEF NoPass, Passing, PassPoints, Page, BookState, Gone
<1>3. ASSUME pass' = pass \/ pass' = PassOvertaken \/ pass' = NoPass
      PROVE  PassTyped'
  <2>1. PassOvertaken \in Passing /\ PassOvertaken.at = pass.at /\ PassOvertaken.book = pass.book
        /\ PassOvertaken.jobs = pass.jobs /\ PassOvertaken.got = pass.got
        /\ PassOvertaken.was = pass.was /\ PassOvertaken.due = pass.due
    BY <1>1 DEF PassOvertaken, PassTyped, Passing
  <2>2. NoPass.at = "idle"
    BY DEF NoPass
  <2> QED
    BY <1>1, <1>2, <1>3, <2>1, <2>2 DEF PassTyped, AtPage
<1>4. CASE Pump
  BY ZenonT(40), <1>2, <1>3, <1>4 DEF Pump, PassTyped, Passing, NoPass, AtPage, PassPoints
<1>5. ASSUME NEW from \in Page, Plan(from)
      PROVE  PassTyped'
  <2> DEFINE ready == Resumable \ parked
             b == FirstOf(ready)
             jobs == Jobs(b, from)
  <2>1. CASE ready = {}
    BY <1>3, <1>5, <2>1 DEF Plan
  <2>2. CASE ready # {}
    <3>1. b \in Books
      <4>1. PICK x : x \in ready
        BY <2>2
      <4>2. b \in Range(line)
        BY <1>1, <4>1, FirstIsOne DEF LineTyped, Resumable
      <4> QED
        BY <1>1, <4>2, InLine
    <3>2. jobs \subseteq Page
      BY DEF Jobs, Candidates, Having
    <3>3. pass' = [pass EXCEPT !.book = b, !.jobs = jobs, !.from = from,
                               !.at = IF state[b] = "waiting" THEN "claim" ELSE ToFetch(jobs)]
      BY <1>5, <2>2 DEF Plan
    <3> HIDE DEF ready, b, jobs
    <3> QED
      BY <1>1, <3>1, <3>2, <3>3 DEF PassTyped, Passing, PassPoints, AtPage, ToFetch
  <2> QED
    BY <2>1, <2>2
<1>6. CASE Claim
  BY <1>1, <1>3, <1>6 DEF Claim, PassAt, PassTyped, Passing, AtPage, PassPoints, ToFetch
<1>7. CASE Elapse \/ BadAnswer \/ OpenLanding \/ WriteFile \/ WriteFails \/ CommitFails
  BY ZenonT(40), <1>1, <1>7 DEF Elapse, BadAnswer, OpenLanding, WriteFile, WriteFails, CommitFails, PassAt,
     PassTyped, Passing, AtPage, PassPoints
<1>8. CASE Answer
  <2>1. edition[pass.book] \in Usable /\ edition[pass.book] \in 0 .. MaxEdition
    BY <1>1, <1>8 DEF Answer, PassAt, PassTyped, FilesTyped, Usable
  <2> QED
    BY <1>1, <1>8, <2>1 DEF Answer, PassAt, PassTyped, Passing, AtPage, PassPoints
<1>9. ASSUME NEW what, Halt(what)
      PROVE  PassTyped'
  <2>1. PICK gone \in BOOLEAN : gone = (what = "gone")
    OBVIOUS
  <2> QED
    BY <1>1, <1>9, <2>1 DEF Halt, PassAt, PassTyped, Passing, AtPage, PassPoints
<1>10. ASSUME pass.at \in AtPage, NEW bad \in Nat, NEW served \in BOOLEAN,
              pass' = [NextPage EXCEPT !.bad = bad, !.served = served]
       PROVE  PassTyped'
  <2>1. PICK jobs \in SUBSET Page : jobs = pass.jobs \ {Job}
    BY <1>1 DEF PassTyped, Passing
  <2>2. pass' = [pass EXCEPT !.jobs = jobs, !.at = ToFetch(jobs), !.got = Gone, !.bad = bad, !.served = served]
    BY <1>1, <1>10, <2>1 DEF NextPage, PassTyped, Passing
  <2>3. ToFetch(jobs) \in {"settle", "fetch"} /\ (ToFetch(jobs) = "fetch" => jobs # {})
    BY DEF ToFetch
  <2>4. pass.book \in Books /\ Gone \in 0 .. MaxEdition
    BY <1>1, <1>10, DownloadsAssumption DEF PassTyped, AtPage, Gone
  <2> QED
    BY <1>1, <1>10, <2>2, <2>3, <2>4 DEF PassTyped, Passing, AtPage, PassPoints
<1>11. CASE CommitRow
  <2>1. pass' = [NextPage EXCEPT !.bad = 0, !.served = TRUE]
    BY <1>1, <1>11 DEF CommitRow, NextPage, PassTyped, Passing
  <2> QED
    BY <1>10, <1>11, <2>1 DEF CommitRow, PassAt, AtPage
<1>12. CASE Burn
  BY <1>1, <1>3, <1>12 DEF Burn, PassAt, PassTyped, Passing, AtPage, PassPoints
<1>13. CASE Exhaust
  <2>1. CASE pass' = [pass EXCEPT !.at = "settle", !.bad = 0]
    BY <1>1, <1>13, <2>1 DEF Exhaust, PassAt, PassTyped, Passing, AtPage, PassPoints
  <2>2. CASE pass' = [NextPage EXCEPT !.bad = @ + 1]
    <3>1. pass' = [NextPage EXCEPT !.bad = pass.bad + 1, !.served = pass.served] /\ pass.bad \in Nat
          /\ pass.served \in BOOLEAN
      BY <1>1, <2>2 DEF NextPage, PassTyped, Passing
    <3>2. pass.at \in AtPage /\ pass.bad + 1 \in Nat
      BY <1>13, <3>1 DEF Exhaust, PassAt, AtPage
    <3> QED
      BY <1>10, <3>1, <3>2
  <2> QED
    BY <1>3, <1>13, <2>1, <2>2 DEF Exhaust
<1>14. CASE Settle
  <2>1. CASE pass' = NoPass
    BY <1>3, <2>1
  <2>2. CASE pass' # NoPass
    <3>1. PICK b \in Books : b = pass.book
      BY <1>1, <1>14 DEF Settle, PassAt, PassTyped
    <3>2. PICK due : due = Derived(b, FALSE)
      OBVIOUS
    <3>3. state[b] # "none" /\ pass' = [pass EXCEPT !.at = "rest", !.was = state[b], !.due = due]
      BY <1>14, <2>2, <3>1, <3>2 DEF Settle
    <3>4. due \in BookState \cup {"none"} /\ due # "none" /\ state[b] \in BookState \cup {"none"}
      BY <1>1, <3>2, <3>3, DerivedTyped DEF LineTyped
    <3> QED
      BY <1>1, <1>14, <3>3, <3>4 DEF Settle, PassAt, PassTyped, Passing, AtPage, PassPoints
  <2> QED
    BY <2>1, <2>2
<1>15. CASE Rest \/ StartSweep \/ UNCHANGED vars
  BY <1>3, <1>15 DEF Rest, StartSweep, vars
<1>16. CASE SweepStep
  <2>1. SweepEnds => PassTyped'
    BY <1>1, <1>3 DEF SweepEnds, PassTyped, Passing, PassPoints, AtPage
  <2> QED
    BY <1>3, <1>16, <2>1 DEF SweepStep, SweepRows, SweepFiles, SweepSettle, SweepRest, SweepOver
<1>17. CASE Gestures \/ HandStep \/ Crash \/ World
  BY <1>3, <1>17 DEF Gestures, TapEnqueue, TapPause, TapResume, TapRetry, TapDelete, TapOnly, HandStep,
     Enqueue, UserSet, Retry, RemoveTree, Release, Crash, World, ReaderHeals, Damage, Publish, Expire
<1> QED
  BY <1>4, <1>5, <1>6, <1>7, <1>8, <1>9, <1>11, <1>12, <1>13, <1>14, <1>15, <1>16, <1>17
  DEF Next, PassStep, Trials

\* The queue closes up behind a book that leaves it.
LEMMA LineWithout ==
    ASSUME LineTyped, NEW b \in Range(line)
    PROVE  /\ RemoveFirst(line, b) \in Seq(Books)
           /\ \A i, j \in DOMAIN RemoveFirst(line, b) :
                RemoveFirst(line, b)[i] = RemoveFirst(line, b)[j] => i = j
           /\ Range(RemoveFirst(line, b)) = Range(line) \ {b}
<1> DEFINE at == {i \in 1 .. Len(line) : line[i] = b}
           k == Min(at)
           left == SubSeq(line, 1, k - 1) \o SubSeq(line, k + 1, Len(line))
<1>1. line \in Seq(Books) /\ (\A i, j \in DOMAIN line : line[i] = line[j] => i = j)
  BY DEF LineTyped
<1>2. at \in SUBSET Nat /\ at # {}
  BY <1>1 DEF Range
<1>3. k \in at
  <2> HIDE DEF at
  <2> QED
    BY <1>2, MinIsMember
<1>4. RemoveFirst(line, b) = left
  BY <1>2 DEF RemoveFirst, RemoveAt, SelectInSeq
<1> HIDE DEF k
<1>5. k \in 1 .. Len(line) /\ line[k] = b
  BY <1>3
<1>6. PICK front, back : front = SubSeq(line, 1, k - 1) /\ back = SubSeq(line, k + 1, Len(line))
  OBVIOUS
<1>7. k \in Nat /\ Len(line) \in Nat /\ k >= 1 /\ k <= Len(line)
  BY <1>1, <1>5
<1>8. front \in Seq(Books) /\ Len(front) = k - 1 /\ \A i \in 1 .. k - 1 : front[i] = line[i]
  BY <1>1, <1>6, <1>7
<1>9. back \in Seq(Books) /\ Len(back) = Len(line) - k /\ \A i \in 1 .. Len(line) - k : back[i] = line[k + i]
  BY <1>1, <1>6, <1>7
<1>10. left = front \o back
  BY <1>6
<1> HIDE DEF left
<1>11. left \in Seq(Books) /\ Len(left) = Len(line) - 1
  <2>1. front \o back \in Seq(Books) /\ Len(front \o back) = Len(front) + Len(back)
    BY <1>8, <1>9
  <2> QED
    BY <1>7, <1>8, <1>9, <1>10, <2>1
<1>12. \A i \in 1 .. Len(line) - 1 : left[i] = IF i < k THEN line[i] ELSE line[i + 1]
  <2> SUFFICES ASSUME NEW i \in 1 .. Len(line) - 1
               PROVE  left[i] = IF i < k THEN line[i] ELSE line[i + 1]
    OBVIOUS
  <2>1. CASE i < k
    BY <1>7, <1>8, <1>9, <1>10, <2>1
  <2>2. CASE i >= k
    <3>1. i - (k - 1) \in 1 .. Len(line) - k /\ left[i] = back[i - (k - 1)]
      BY <1>7, <1>8, <1>9, <1>10, <2>2
    <3>2. k + (i - (k - 1)) = i + 1
      BY <1>7
    <3> QED
      BY <1>7, <1>9, <2>2, <3>1, <3>2
  <2> QED
    BY <1>7, <2>1, <2>2
<1>13. \A i, j \in DOMAIN left : left[i] = left[j] => i = j
  <2> SUFFICES ASSUME NEW i \in 1 .. Len(line) - 1, NEW j \in 1 .. Len(line) - 1, left[i] = left[j]
               PROVE  i = j
    BY <1>11
  <2>1. PICK ii : ii = IF i < k THEN i ELSE i + 1
    OBVIOUS
  <2>2. PICK jj : jj = IF j < k THEN j ELSE j + 1
    OBVIOUS
  <2>3. left[i] = line[ii] /\ ii \in DOMAIN line
    BY <1>1, <1>12, <1>7, <2>1
  <2>4. left[j] = line[jj] /\ jj \in DOMAIN line
    BY <1>1, <1>12, <1>7, <2>2
  <2>5. ii = jj
    BY <1>1, <2>3, <2>4
  <2> QED
    BY <1>7, <2>1, <2>2, <2>5
<1>14. Range(left) = Range(line) \ {b}
  <2>1. \A i \in DOMAIN left : left[i] \in Range(line) \ {b}
    BY <1>1, <1>5, <1>11, <1>12 DEF Range
  <2>2. ASSUME NEW i \in DOMAIN line, i # k
        PROVE  \E j \in DOMAIN left : left[j] = line[i]
    <3>1. CASE i < k
      BY <1>1, <1>5, <1>11, <1>12, <3>1
    <3>2. CASE i > k
      <4>1. i - 1 \in 1 .. Len(line) - 1 /\ left[i - 1] = line[i]
        BY <1>1, <1>5, <1>12, <3>2
      <4> QED
        BY <1>11, <4>1
    <3> QED
      BY <1>1, <1>5, <2>2, <3>1, <3>2
  <2> QED
    BY <1>1, <1>5, <2>1, <2>2 DEF Range
<1> QED
  BY <1>4, <1>11, <1>13, <1>14

LEMMA LineIsShort == LineTyped => Len(line) <= Cardinality(Books)
<1> SUFFICES ASSUME LineTyped
             PROVE  Len(line) <= Cardinality(Books)
  OBVIOUS
<1>1. line \in Seq(Books) /\ (\A i, j \in DOMAIN line : line[i] = line[j] => i = j)
  BY DEF LineTyped
<1>2. line \in Injection(1 .. Len(line), Books)
  BY <1>1 DEF Injection, IsInjective
<1>3. Cardinality(1 .. Len(line)) <= Cardinality(Books)
  BY <1>2, FS_Injection, DownloadsAssumption
<1>4. Cardinality(1 .. Len(line)) = Len(line)
  <2>1. Len(line) \in Nat /\ Len(line) \in Int /\ 1 \in Int
    BY <1>1
  <2>2. Cardinality(1 .. Len(line)) = IF 1 > Len(line) THEN 0 ELSE Len(line) - 1 + 1
    BY <2>1, FS_Interval
  <2> QED
    BY <2>1, <2>2
<1> QED
  BY <1>3, <1>4

LEMMA LineStays ==
    ASSUME LineTyped, line' = line, parked' \subseteq Range(line),
           \/ state' = state
           \/ \E b, was, to : was # "none" /\ to \in BookState /\ state' = StateIf(b, was, to)
    PROVE  LineTyped'
<1>1. CASE state' = state
  BY <1>1 DEF LineTyped
<1>2. ASSUME NEW b, NEW was, NEW to, was # "none", to \in BookState, state' = StateIf(b, was, to)
      PROVE  LineTyped'
  <2>1. state' \in [Books -> BookState \cup {"none"}] /\ \A x \in Books : state'[x] = "none" <=> state[x] = "none"
    BY <1>2 DEF LineTyped, StateIf, BookState
  <2> QED
    BY <2>1 DEF LineTyped
<1> QED
  BY <1>1, <1>2

LEMMA LineInductive ==
    ASSUME Typed, [Next]_vars
    PROVE  LineTyped'
<1>1. LineTyped /\ PassTyped /\ SweepTyped /\ HandTyped
  BY DEF Typed
<1>2. parked \subseteq Range(line) /\ Resumable \subseteq Range(line)
  BY <1>1 DEF LineTyped, Resumable
<1>3. ASSUME UNCHANGED <<line, state, parked>>
      PROVE  LineTyped'
  BY <1>1, <1>2, <1>3, LineStays
<1>4. CASE Pump \/ (\E from \in Page : Plan(from)) \/ Elapse \/ StartSweep
  BY <1>3, <1>4 DEF Pump, Plan, Elapse, StartSweep
<1>5. CASE Claim
  BY <1>1, <1>2, <1>5, LineStays DEF Claim, BookState
<1>6. CASE Answer \/ OpenLanding \/ WriteFile \/ CommitRow \/ CommitFails \/ Burn \/ Exhaust
  BY <1>3, <1>6 DEF Answer, OpenLanding, WriteFile, CommitRow, CommitFails, Burn, Exhaust
<1>7. CASE Settle
  <2>1. CASE pass.terminal
    <3>1. state' = state \/ state' = StateIf(pass.book, state[pass.book], "failed")
      BY <1>7, <2>1 DEF Settle, StateIf
    <3>2. state' # state => state[pass.book] # "none"
      BY <1>7, <2>1 DEF Settle
    <3> QED
      BY <1>1, <1>2, <1>7, <3>1, <3>2, LineStays DEF Settle, BookState
  <2> QED
    BY <1>3, <1>7, <2>1 DEF Settle
<1>8. CASE Rest
  <2>1. pass.was # "none" /\ pass.due \in BookState
    BY <1>1, <1>8 DEF Rest, PassAt, PassTyped, Passing
  <2> QED
    BY <1>1, <1>2, <1>8, <2>1, LineStays DEF Rest
<1>9. CASE Trials
  <2>1. ASSUME NEW what, Halt(what)
        PROVE  LineTyped'
    <3>1. parked' \subseteq Range(line) /\ UNCHANGED <<line, state>>
      BY <1>2, <2>1 DEF Halt
    <3> QED
      BY <1>1, <3>1, LineStays
  <2> QED
    BY <1>3, <1>9, <2>1 DEF Trials, BadAnswer, WriteFails
<1>10. CASE SweepRows \/ SweepFiles \/ SweepSettle \/ SweepOver
  BY <1>3, <1>10 DEF SweepRows, SweepFiles, SweepSettle, SweepOver
<1>11. CASE SweepRest
  <2>1. sweep.was # "none" /\ sweep.due \in BookState
    BY <1>1, <1>11 DEF SweepRest, SweepAt, SweepTyped, Sweeping
  <2> QED
    BY <1>1, <1>2, <1>11, <2>1, LineStays DEF SweepRest
<1>12. CASE Enqueue
  <2>1. PICK b \in Books : b = hand.book
    BY <1>1, <1>12 DEF Enqueue, HandTyped
  <2>2. /\ line' = IF b \in Range(line) THEN line ELSE Append(line, b)
        /\ state' = [state EXCEPT ![b] = "waiting"] /\ parked' = parked \ {b}
    BY <1>12, <2>1 DEF Enqueue
  <2>3. line \in Seq(Books) /\ (\A i, j \in DOMAIN line : line[i] = line[j] => i = j)
    BY <1>1 DEF LineTyped
  <2>4. line' \in Seq(Books) /\ (\A i, j \in DOMAIN line' : line'[i] = line'[j] => i = j)
        /\ Range(line') = Range(line) \cup {b}
    <3>1. CASE b \in Range(line)
      BY <2>2, <2>3, <3>1
    <3>2. CASE b \notin Range(line)
      <4>1. line' \in Seq(Books) /\ Len(line') = Len(line) + 1
            /\ \A i \in 1 .. Len(line) + 1 : line'[i] = IF i = Len(line) + 1 THEN b ELSE line[i]
        BY <2>2, <2>3, <3>2
      <4>2. \A i \in 1 .. Len(line) : line[i] # b
        BY <2>3, <3>2 DEF Range
      <4>3. Range(line') = Range(line) \cup {b}
        <5>1. DOMAIN line' = 1 .. Len(line) + 1 /\ DOMAIN line = 1 .. Len(line) /\ Len(line) \in Nat
          BY <2>3, <4>1
        <5> QED
          BY <4>1, <5>1 DEF Range
      <4> QED
        BY <2>3, <4>1, <4>2, <4>3
    <3> QED
      BY <3>1, <3>2
  <2> QED
    BY <1>1, <2>2, <2>4 DEF LineTyped, BookState
<1>13. CASE UserSet
  <2>1. hand.was # "none"
    BY <1>1, <1>13 DEF UserSet, HandTyped
  <2> QED
    BY <1>1, <1>2, <1>13, <2>1, LineStays DEF UserSet, BookState
<1>14. CASE Retry \/ RemoveTree
  BY <1>1, <1>2, <1>14, LineStays DEF Retry, RemoveTree, BookState
<1>15. ASSUME NEW b \in Books, TapDelete(b)
       PROVE  LineTyped'
  <2>1. b \in Range(line) /\ line' = RemoveFirst(line, b) /\ parked' = parked \ {b}
        /\ state' = [state EXCEPT ![b] = "none"]
    BY <1>1, <1>15 DEF TapDelete, LineTyped
  <2>2. line' \in Seq(Books) /\ (\A i, j \in DOMAIN line' : line'[i] = line'[j] => i = j)
        /\ Range(line') = Range(line) \ {b}
    BY <1>1, <2>1, LineWithout
  <2> QED
    BY <1>1, <2>1, <2>2 DEF LineTyped
<1>16. CASE Gestures
  BY <1>3, <1>15, <1>16 DEF Gestures, TapEnqueue, TapPause, TapResume, TapRetry, TapOnly
<1>17. CASE World
  BY <1>1, <1>2, <1>17, LineStays DEF World, ReaderHeals, Damage, Publish, Expire
<1>18. CASE Crash \/ UNCHANGED vars
  BY <1>3, <1>18 DEF Crash, vars
<1> QED
  BY <1>4, <1>5, <1>6, <1>7, <1>8, <1>9, <1>10, <1>11, <1>12, <1>13, <1>14, <1>16, <1>17, <1>18
  DEF Next, PassStep, SweepStep, HandStep

\* A book's row of pages, or one page of it, is set.
LEMMA BookIsSet ==
    ASSUME NEW V, NEW f \in [Books -> [Page -> V]], NEW b \in Books, NEW g \in [Page -> V]
    PROVE  /\ [f EXCEPT ![b] = g] \in [Books -> [Page -> V]]
           /\ \A c \in Books : [f EXCEPT ![b] = g][c] = IF c = b THEN g ELSE f[c]
OBVIOUS

LEMMA PageIsSet ==
    ASSUME NEW V, NEW f \in [Books -> [Page -> V]], NEW b \in Books, NEW p \in Page, NEW v \in V
    PROVE  /\ [f EXCEPT ![b][p] = v] \in [Books -> [Page -> V]]
           /\ \A c \in Books, q \in Page : [f EXCEPT ![b][p] = v][c][q] = IF c = b /\ q = p THEN v ELSE f[c][q]
<1>1. PICK g : g = [f[b] EXCEPT ![p] = v]
  OBVIOUS
<1>2. g \in [Page -> V] /\ \A q \in Page : g[q] = IF q = p THEN v ELSE f[b][q]
  BY <1>1
<1>3. [f EXCEPT ![b][p] = v] = [f EXCEPT ![b] = g]
  BY <1>1
<1> QED
  BY <1>2, <1>3, BookIsSet

\* What becomes of a row.
LEMMA RowsAre ==
    /\ NoRow \notin Row /\ Pending \in Row /\ NoRow.state = "none"
    /\ \A r \in Row \cup {NoRow} :
         /\ r.state = "none" <=> r = NoRow
         /\ r.state \in {"none", "pending", "complete", "failed"}
         /\ r.held \in BOOLEAN /\ r.attempts \in 0 .. MaxAttempts
         /\ Landed(r) \in Row /\ Landed(r).state = "complete" /\ Landed(r).held /\ Landed(r).attempts = r.attempts
         /\ [Pending EXCEPT !.held = r.held] \in Row
<1>1. MaxAttempts \in Nat
  BY DownloadsAssumption
<1>2. NoRow \notin Row /\ Pending \in Row /\ NoRow.state = "none" /\ NoRow.held = FALSE /\ NoRow.attempts = 0
  BY <1>1 DEF NoRow, Pending, Row
<1>3. ASSUME NEW r \in Row
      PROVE  /\ r.state \in {"pending", "complete", "failed"}
             /\ r.held \in BOOLEAN /\ r.attempts \in 0 .. MaxAttempts
             /\ Landed(r) \in Row /\ Landed(r).state = "complete" /\ Landed(r).held /\ Landed(r).attempts = r.attempts
  BY DEF Row, Landed
<1>4. ASSUME NEW h \in BOOLEAN
      PROVE  [Pending EXCEPT !.held = h] \in Row
  BY <1>1 DEF Pending, Row
<1>5. Landed(NoRow) \in Row /\ Landed(NoRow).state = "complete" /\ Landed(NoRow).held /\ Landed(NoRow).attempts = 0
  <2>1. NoRow \in [state : {"none"}, attempts : 0 .. MaxAttempts, held : BOOLEAN] /\ NoRow.attempts = 0
    BY <1>1 DEF NoRow
  <2>2. ASSUME NEW r \in [state : {"none"}, attempts : 0 .. MaxAttempts, held : BOOLEAN]
        PROVE  Landed(r) \in Row /\ Landed(r).state = "complete" /\ Landed(r).held /\ Landed(r).attempts = r.attempts
    BY <1>1 DEF Landed, Row
  <2> QED
    BY <2>1, <2>2
<1>6. \A r \in Row \cup {NoRow} : r.held \in BOOLEAN /\ [Pending EXCEPT !.held = r.held] \in Row
  <2>1. \A r \in Row \cup {NoRow} : r.held \in BOOLEAN
    BY <1>2, <1>3
  <2> QED
    BY <1>4, <2>1
<1> QED
  BY <1>1, <1>2, <1>3, <1>5, <1>6

LEMMA FilesAre ==
    FilesTyped => /\ \A b \in Books, p \in Page : page[b][p] \in Row \cup {NoRow} /\ disk[b][p] \in File
                  /\ Gone \in File /\ Broken \in File /\ Usable \subseteq File
                  /\ Gone \notin Usable /\ Broken \notin Usable /\ Gone # Broken
                  /\ File = Usable \cup {Gone, Broken}
<1>1. MaxEdition \in Nat
  BY DownloadsAssumption
<1> QED
  BY <1>1 DEF FilesTyped, Gone, Broken, File, Usable

\* What the two halves of a sweep do to the rows and files of a book.
LEMMA SweepRowsIs ==
    ASSUME FilesTyped, SweepTyped, SweepRows
    PROVE  \E b \in Books :
           /\ sweep.by # "none" /\ sweep.left # <<>> /\ sweep.at = "rows" /\ MayCome /\ b = Head(sweep.left)
           /\ sweep' = [sweep EXCEPT !.at = "files", !.calm = TRUE, !.judged = {p \in Page : page[b][p].held}]
           /\ page' \in [Books -> [Page -> Row \cup {NoRow}]] /\ disk' \in [Books -> [Page -> File]]
           /\ \A c \in Books \ {b} : page'[c] = page[c] /\ disk'[c] = disk[c]
           /\ \A p \in Page :
                /\ page'[b][p] = IF page[b][p].state = "complete" /\ ~Whole(b, p) THEN Pending ELSE page[b][p]
                /\ disk'[b][p] = IF (page[b][p].state = "complete" /\ ~Whole(b, p))
                                    \/ (page[b][p].state # "complete" /\ page[b][p].held)
                                 THEN Gone ELSE disk[b][p]
<1>1. sweep.by # "none" /\ sweep.left # <<>> /\ sweep.at = "rows" /\ MayCome
  BY DEF SweepRows, SweepAt
<1>2. PICK b \in Books : b = Head(sweep.left)
  BY <1>1 DEF SweepTyped, Sweeping
<1> DEFINE ghost == {p \in Having(b, "complete") : ~Whole(b, p)}
           debris == {p \in Page : page[b][p].held /\ page[b][p].state # "complete"}
           rows == [p \in Page |-> IF p \in ghost THEN Pending ELSE page[b][p]]
           files == [p \in Page |-> IF p \in ghost \cup debris THEN Gone ELSE disk[b][p]]
<1>3. page' = [page EXCEPT ![b] = rows] /\ disk' = [disk EXCEPT ![b] = files]
  BY <1>2 DEF SweepRows, FilesTyped
<1>4. \A p \in Page : /\ p \in ghost <=> page[b][p].state = "complete" /\ ~Whole(b, p)
                      /\ p \in debris <=> page[b][p].held /\ page[b][p].state # "complete"
  BY DEF Having
<1>5. rows \in [Page -> Row \cup {NoRow}] /\ files \in [Page -> File]
  BY RowsAre, FilesAre
<1>6. sweep' = [sweep EXCEPT !.at = "files", !.calm = TRUE, !.judged = {p \in Page : page[b][p].held}]
  BY <1>2 DEF SweepRows, SweepTyped, Sweeping
<1>7. \A p \in Page : /\ rows[p] = IF page[b][p].state = "complete" /\ ~Whole(b, p) THEN Pending ELSE page[b][p]
                      /\ files[p] = IF (page[b][p].state = "complete" /\ ~Whole(b, p))
                                    \/ (page[b][p].state # "complete" /\ page[b][p].held)
                                 THEN Gone ELSE disk[b][p]
  BY <1>4
<1> HIDE DEF rows, files
<1>8. page' \in [Books -> [Page -> Row \cup {NoRow}]] /\ disk' \in [Books -> [Page -> File]]
      /\ (\A c \in Books : page'[c] = IF c = b THEN rows ELSE page[c])
      /\ (\A c \in Books : disk'[c] = IF c = b THEN files ELSE disk[c])
  BY <1>3, <1>5 DEF FilesTyped
<1>9. \A c \in Books \ {b} : page'[c] = page[c] /\ disk'[c] = disk[c]
  BY <1>8
<1>10. page'[b] = rows /\ disk'[b] = files
  BY <1>8
<1> WITNESS b \in Books
<1> QED
  BY <1>1, <1>2, <1>6, <1>7, <1>8, <1>9, <1>10

LEMMA SweepFilesIs ==
    ASSUME FilesTyped, SweepTyped, SweepFiles
    PROVE  \E b \in Books :
           /\ sweep.by # "none" /\ sweep.left # <<>> /\ sweep.at = "files" /\ MayCome /\ b = Head(sweep.left)
           /\ sweep' = [sweep EXCEPT !.at = "settle"]
           /\ page' \in [Books -> [Page -> Row \cup {NoRow}]] /\ disk' \in [Books -> [Page -> File]]
           /\ \A c \in Books \ {b} : page'[c] = page[c] /\ disk'[c] = disk[c]
           /\ \A p \in Page :
                /\ page'[b][p] = IF p \notin sweep.judged /\ Whole(b, p) THEN Landed(page[b][p]) ELSE page[b][p]
                /\ disk'[b][p] = IF p \notin sweep.judged /\ ~Whole(b, p) THEN Gone ELSE disk[b][p]
<1>1. sweep.by # "none" /\ sweep.left # <<>> /\ sweep.at = "files" /\ MayCome
  BY DEF SweepFiles, SweepAt
<1>2. PICK b \in Books : b = Head(sweep.left)
  BY <1>1 DEF SweepTyped, Sweeping
<1> DEFINE mine == Adopted(b, sweep.judged)
           rows == [p \in Page |-> IF p \in mine THEN Landed(page[b][p]) ELSE page[b][p]]
           files == [p \in Page |-> IF p \notin sweep.judged \cup mine THEN Gone ELSE disk[b][p]]
<1>3. page' = [page EXCEPT ![b] = rows] /\ disk' = [disk EXCEPT ![b] = files]
  BY <1>2 DEF SweepFiles, FilesTyped
<1>4. \A p \in Page : p \in mine <=> p \notin sweep.judged /\ Whole(b, p)
  BY DEF Adopted
<1>5. rows \in [Page -> Row \cup {NoRow}] /\ files \in [Page -> File]
  <2>1. \A p \in Page : Landed(page[b][p]) \in Row
    BY RowsAre, FilesAre
  <2> QED
    BY <2>1, FilesAre
<1>6. sweep' = [sweep EXCEPT !.at = "settle"]
  BY DEF SweepFiles
<1>7. \A p \in Page : /\ rows[p] = IF p \notin sweep.judged /\ Whole(b, p) THEN Landed(page[b][p]) ELSE page[b][p]
                      /\ files[p] = IF p \notin sweep.judged /\ ~Whole(b, p) THEN Gone ELSE disk[b][p]
  BY <1>4
<1> HIDE DEF rows, files
<1>8. page' \in [Books -> [Page -> Row \cup {NoRow}]] /\ disk' \in [Books -> [Page -> File]]
      /\ (\A c \in Books : page'[c] = IF c = b THEN rows ELSE page[c])
      /\ (\A c \in Books : disk'[c] = IF c = b THEN files ELSE disk[c])
  BY <1>3, <1>5 DEF FilesTyped
<1> QED
  BY <1>1, <1>2, <1>6, <1>7, <1>8

\* What the steps of a pass do to the row and the file of the page it is at.
LEMMA PassPageIs ==
    ASSUME Typed, CommitRow \/ WriteFile \/ Burn \/ Exhaust
    PROVE  \E b \in Books, p \in pass.jobs :
           /\ b = pass.book /\ p = Job /\ p \in Page
           /\ page' \in [Books -> [Page -> Row \cup {NoRow}]] /\ disk' \in [Books -> [Page -> File]]
           /\ \A c \in Books, q \in Page : c # b \/ q # p => page'[c][q] = page[c][q] /\ disk'[c][q] = disk[c][q]
           /\ CommitRow => page'[b][p] = Landed(page[b][p]) /\ disk' = disk
           /\ WriteFile => page' = page /\ disk'[b][p] = pass.got
           /\ Burn => /\ disk' = disk /\ page'[b][p].state = page[b][p].state /\ page'[b][p].held = page[b][p].held
                      /\ page[b][p].state = "none" => page' = page /\ pass' = NoPass
                      /\ page[b][p].state # "none" => pass' = [pass EXCEPT !.at = "exhaust"]
           /\ Exhaust => /\ disk' = disk /\ page'[b][p].held = page[b][p].held
                         /\ page'[b][p].attempts = page[b][p].attempts
                         /\ page[b][p].state = "none" => page' = page /\ pass' = NoPass
                         /\ page[b][p].state # "none" =>
                              page'[b][p].state = IF Spent(page[b][p]) THEN "failed" ELSE page[b][p].state
<1>1. LineTyped /\ FilesTyped /\ PassTyped /\ TriesLeft
  BY DEF Typed
<1>2. pass.at \in AtPage /\ pass.at # "claim"
  BY DEF CommitRow, WriteFile, Burn, Exhaust, PassAt, AtPage
<1>3. PICK b \in Books, p \in pass.jobs : b = pass.book /\ p = Job
  BY <1>1, <1>2, JobIsDue DEF PassTyped, Passing, AtPage
<1>4. p \in Page
  BY <1>1 DEF PassTyped, Passing
<1>5. page \in [Books -> [Page -> Row \cup {NoRow}]] /\ disk \in [Books -> [Page -> File]]
  BY <1>1 DEF FilesTyped
<1>6. page[b][p] \in Row \cup {NoRow} /\ disk[b][p] \in File /\ MaxAttempts \in Nat
  BY <1>4, <1>5, DownloadsAssumption
<1>7. ASSUME NEW v \in Row \cup {NoRow}, page' = [page EXCEPT ![b][p] = v], disk' = disk
      PROVE  /\ page' \in [Books -> [Page -> Row \cup {NoRow}]] /\ disk' \in [Books -> [Page -> File]]
             /\ page'[b][p] = v
             /\ \A c \in Books, q \in Page :
                  c # b \/ q # p => page'[c][q] = page[c][q] /\ disk'[c][q] = disk[c][q]
  <2>1. /\ page' \in [Books -> [Page -> Row \cup {NoRow}]]
        /\ \A c \in Books, q \in Page : page'[c][q] = IF c = b /\ q = p THEN v ELSE page[c][q]
    BY <1>4, <1>5, <1>7, PageIsSet
  <2> QED
    BY <1>4, <1>5, <1>7, <2>1
<1>8. ASSUME NEW r \in Row
      PROVE  /\ [r EXCEPT !.state = "failed"] \in Row /\ [r EXCEPT !.state = "failed"].state = "failed"
             /\ [r EXCEPT !.state = "failed"].held = r.held
             /\ [r EXCEPT !.state = "failed"].attempts = r.attempts
             /\ r.attempts < MaxAttempts =>
                  /\ [r EXCEPT !.attempts = r.attempts + 1] \in Row
                  /\ [r EXCEPT !.attempts = r.attempts + 1].state = r.state
                  /\ [r EXCEPT !.attempts = r.attempts + 1].held = r.held
  BY <1>6 DEF Row
<1>9. CASE CommitRow
  <2>1. page' = [page EXCEPT ![b][p] = Landed(page[b][p])] /\ disk' = disk /\ pass.at = "commit"
    BY <1>3, <1>9 DEF CommitRow, PassAt
  <2>2. Landed(page[b][p]) \in Row \cup {NoRow}
    BY <1>6, RowsAre
  <2>3. ~WriteFile /\ ~Burn /\ ~Exhaust
    BY <2>1 DEF WriteFile, Burn, Exhaust, PassAt
  <2>4. /\ page' \in [Books -> [Page -> Row \cup {NoRow}]] /\ disk' \in [Books -> [Page -> File]]
        /\ page'[b][p] = Landed(page[b][p])
        /\ \A c \in Books, q \in Page :
             c # b \/ q # p => page'[c][q] = page[c][q] /\ disk'[c][q] = disk[c][q]
    BY <1>7, <2>1, <2>2
  <2> QED
    BY <1>3, <1>4, <1>9, <2>1, <2>3, <2>4
<1>10. CASE WriteFile
  <2>1. disk' = [disk EXCEPT ![b][p] = pass.got] /\ page' = page /\ pass.at = "write"
    BY <1>3, <1>10 DEF WriteFile, PassAt
  <2>2. pass.got \in File
    BY <1>1, <2>1, FilesAre DEF PassTyped
  <2>3. /\ disk' \in [Books -> [Page -> File]]
        /\ \A c \in Books, q \in Page : disk'[c][q] = IF c = b /\ q = p THEN pass.got ELSE disk[c][q]
    BY <1>4, <1>5, <2>1, <2>2, PageIsSet
  <2>4. ~CommitRow /\ ~Burn /\ ~Exhaust
    BY <2>1 DEF CommitRow, Burn, Exhaust, PassAt
  <2>5. \A c \in Books, q \in Page : c # b \/ q # p => page'[c][q] = page[c][q] /\ disk'[c][q] = disk[c][q]
    BY <2>1, <2>3
  <2> QED
    BY <1>3, <1>4, <1>5, <2>1, <2>3, <2>4, <2>5
<1>11. CASE Burn
  <2>1. pass.at = "burn" /\ disk' = disk
    BY <1>11 DEF Burn, PassAt
  <2>2. ~CommitRow /\ ~WriteFile /\ ~Exhaust
    BY <2>1 DEF CommitRow, WriteFile, Exhaust, PassAt
  <2>3. CASE page[b][p].state = "none"
    <3>1. page' = page /\ pass' = NoPass
      BY <1>3, <1>11, <2>3 DEF Burn
    <3> QED
      BY <1>3, <1>4, <1>5, <2>1, <2>2, <2>3, <3>1
  <2>4. CASE page[b][p].state # "none"
    <3>1. PICK v : v = [page[b][p] EXCEPT !.attempts = page[b][p].attempts + 1]
      OBVIOUS
    <3>2. page' = [page EXCEPT ![b][p] = v] /\ pass' = [pass EXCEPT !.at = "exhaust"]
      BY <1>3, <1>11, <2>4, <3>1 DEF Burn
    <3>3. page[b][p].attempts < MaxAttempts
      BY <1>1, <1>2, <1>3, <2>1 DEF TriesLeft
    <3>4. v \in Row /\ v.state = page[b][p].state /\ v.held = page[b][p].held
      BY <1>6, <1>8, <2>4, <3>1, <3>3, RowsAre
    <3>5. page' \in [Books -> [Page -> Row \cup {NoRow}]] /\ disk' \in [Books -> [Page -> File]]
          /\ page'[b][p] = v
          /\ \A c \in Books, q \in Page :
               c # b \/ q # p => page'[c][q] = page[c][q] /\ disk'[c][q] = disk[c][q]
      BY <1>7, <2>1, <3>2, <3>4
    <3> QED
      BY <1>3, <1>4, <2>1, <2>2, <2>4, <3>2, <3>4, <3>5
  <2> QED
    BY <2>3, <2>4
<1>12. CASE Exhaust
  <2>1. pass.at = "exhaust" /\ disk' = disk
    BY <1>12 DEF Exhaust, PassAt
  <2>2. ~CommitRow /\ ~WriteFile /\ ~Burn
    BY <2>1 DEF CommitRow, WriteFile, Burn, PassAt
  <2>3. CASE page[b][p].state = "none"
    <3>1. page' = page /\ pass' = NoPass
      BY <1>3, <1>12, <2>3 DEF Exhaust
    <3> QED
      BY <1>3, <1>4, <1>5, <2>1, <2>2, <2>3, <3>1
  <2>4. CASE page[b][p].state # "none" /\ Spent(page[b][p])
    <3>1. PICK v : v = [page[b][p] EXCEPT !.state = "failed"]
      OBVIOUS
    <3>2. page' = [page EXCEPT ![b][p] = v]
      BY <1>3, <1>12, <2>4, <3>1 DEF Exhaust
    <3>3. v \in Row /\ v.state = "failed" /\ v.held = page[b][p].held /\ v.attempts = page[b][p].attempts
      BY <1>6, <1>8, <2>4, <3>1, RowsAre
    <3> QED
      BY ZenonT(40), <1>3, <1>4, <1>7, <2>1, <2>2, <2>4, <3>2, <3>3
  <2>5. CASE page[b][p].state # "none" /\ ~Spent(page[b][p])
    <3>1. page' = page
      BY <1>3, <1>12, <2>5 DEF Exhaust
    <3> QED
      BY <1>3, <1>4, <1>5, <2>1, <2>2, <2>5, <3>1
  <2> QED
    BY <2>3, <2>4, <2>5
<1> QED
  BY <1>9, <1>10, <1>11, <1>12

\* What the gestures and the reader do to them.
LEMMA GesturesPagesAre ==
    ASSUME Typed
    PROVE  /\ \A b \in Books : TapRetry(b) =>
                /\ page' \in [Books -> [Page -> Row \cup {NoRow}]] /\ disk' = disk
                /\ \A c \in Books \ {b} : page'[c] = page[c]
                /\ \A p \in Page :
                     IF page[b][p].state = "failed"
                     THEN page'[b][p].state = "pending" /\ page'[b][p].attempts = 0
                          /\ page'[b][p].held = page[b][p].held
                     ELSE page'[b][p] = page[b][p]
           /\ \A b \in Books : TapDelete(b) =>
                /\ page' \in [Books -> [Page -> Row \cup {NoRow}]] /\ disk' = disk
                /\ \A c \in Books \ {b} : page'[c] = page[c]
                /\ \A p \in Page : page'[b][p] = NoRow
           /\ \A b \in Books, p \in Page : ReaderHeals(b, p) =>
                /\ page' \in [Books -> [Page -> Row \cup {NoRow}]] /\ disk' \in [Books -> [Page -> File]]
                /\ page'[b][p] = Pending /\ disk'[b][p] = Gone
                /\ \A c \in Books, q \in Page : c # b \/ q # p => page'[c][q] = page[c][q] /\ disk'[c][q] = disk[c][q]
           /\ Enqueue =>
                /\ page' \in [Books -> [Page -> Row \cup {NoRow}]] /\ disk' = disk
                /\ \A c \in Books \ {hand.book} : page'[c] = page[c]
                /\ \A p \in Page : page'[hand.book][p] = Pending
           /\ RemoveTree =>
                /\ disk' \in [Books -> [Page -> File]] /\ page' = page
                /\ \A c \in Books \ {hand.book} : disk'[c] = disk[c]
                /\ \A p \in Page : disk'[hand.book][p] = Gone
<1>1. FilesTyped /\ HandTyped
  BY DEF Typed
<1>2. page \in [Books -> [Page -> Row \cup {NoRow}]] /\ disk \in [Books -> [Page -> File]]
  BY <1>1 DEF FilesTyped
<1>3. ASSUME NEW b \in Books, TapRetry(b)
      PROVE  /\ page' \in [Books -> [Page -> Row \cup {NoRow}]] /\ disk' = disk
             /\ \A c \in Books \ {b} : page'[c] = page[c]
             /\ \A p \in Page :
                     IF page[b][p].state = "failed"
                     THEN page'[b][p].state = "pending" /\ page'[b][p].attempts = 0
                          /\ page'[b][p].held = page[b][p].held
                     ELSE page'[b][p] = page[b][p]
  <2> DEFINE g == [p \in Page |-> IF page[b][p].state = "failed" THEN [Pending EXCEPT !.held = page[b][p].held]
                                  ELSE page[b][p]]
  <2>1. page' = [page EXCEPT ![b] = g] /\ disk' = disk
    BY <1>2, <1>3 DEF TapRetry
  <2>2. \A p \in Page : page[b][p] \in Row \cup {NoRow} /\ [Pending EXCEPT !.held = page[b][p].held] \in Row
    <3>1. \A p \in Page : page[b][p] \in Row \cup {NoRow}
      BY <1>2
    <3> QED
      BY <3>1, RowsAre
  <2>3. g \in [Page -> Row \cup {NoRow}]
    BY <2>2
  <2>4. \A p \in Page : IF page[b][p].state = "failed"
                     THEN g[p].state = "pending" /\ g[p].attempts = 0 /\ g[p].held = page[b][p].held
                     ELSE g[p] = page[b][p]
    BY DEF Pending
  <2> HIDE DEF g
  <2> QED
    BY <1>2, <2>1, <2>3, <2>4, BookIsSet
<1>4. ASSUME NEW b \in Books, TapDelete(b)
      PROVE  /\ page' \in [Books -> [Page -> Row \cup {NoRow}]] /\ disk' = disk
             /\ \A c \in Books \ {b} : page'[c] = page[c]
             /\ \A p \in Page : page'[b][p] = NoRow
  BY <1>2, <1>4, BookIsSet DEF TapDelete, RowsAfterDeleting
<1>5. ASSUME NEW b \in Books, NEW p \in Page, ReaderHeals(b, p)
      PROVE  /\ page' \in [Books -> [Page -> Row \cup {NoRow}]] /\ disk' \in [Books -> [Page -> File]]
             /\ page'[b][p] = Pending /\ disk'[b][p] = Gone
             /\ \A c \in Books, q \in Page : c # b \/ q # p => page'[c][q] = page[c][q] /\ disk'[c][q] = disk[c][q]
  <2>1. page' = [page EXCEPT ![b][p] = Pending] /\ disk' = [disk EXCEPT ![b][p] = Gone]
    BY <1>5 DEF ReaderHeals
  <2>2. Pending \in Row \cup {NoRow} /\ Gone \in File
    BY <1>1, RowsAre, FilesAre
  <2>3. /\ page' \in [Books -> [Page -> Row \cup {NoRow}]]
        /\ \A c \in Books, q \in Page : page'[c][q] = IF c = b /\ q = p THEN Pending ELSE page[c][q]
    BY <1>2, <2>1, <2>2, PageIsSet
  <2>4. /\ disk' \in [Books -> [Page -> File]]
        /\ \A c \in Books, q \in Page : disk'[c][q] = IF c = b /\ q = p THEN Gone ELSE disk[c][q]
    BY <1>2, <2>1, <2>2, PageIsSet
  <2> QED
    BY <2>3, <2>4
<1>6. ASSUME Enqueue
      PROVE  /\ page' \in [Books -> [Page -> Row \cup {NoRow}]] /\ disk' = disk
             /\ \A c \in Books \ {hand.book} : page'[c] = page[c]
             /\ \A p \in Page : page'[hand.book][p] = Pending
  <2>1. PICK b \in Books : b = hand.book
    BY <1>1, <1>6 DEF HandTyped, Enqueue
  <2>2. page' = [page EXCEPT ![b] = FreshRows(b)] /\ disk' = disk
    BY <1>6, <2>1 DEF Enqueue
  <2>3. FreshRows(b) \in [Page -> Row \cup {NoRow}] /\ \A p \in Page : FreshRows(b)[p] = Pending
    BY RowsAre DEF FreshRows
  <2> QED
    BY <1>2, <2>1, <2>2, <2>3, BookIsSet
<1>7. ASSUME RemoveTree
      PROVE  /\ disk' \in [Books -> [Page -> File]] /\ page' = page
             /\ \A c \in Books \ {hand.book} : disk'[c] = disk[c]
             /\ \A p \in Page : disk'[hand.book][p] = Gone
  <2>1. PICK b \in Books : b = hand.book
    BY <1>1, <1>7 DEF HandTyped, RemoveTree
  <2>2. disk' = [disk EXCEPT ![b] = [p \in Page |-> Gone]] /\ page' = page
    BY <1>7, <2>1 DEF RemoveTree
  <2>3. [p \in Page |-> Gone] \in [Page -> File]
    BY <1>1, FilesAre
  <2> QED
    BY <1>2, <2>1, <2>2, <2>3, BookIsSet
<1> QED
  BY <1>3, <1>4, <1>5, <1>6, <1>7

\* Only a bad answer costs an attempt.
LEMMA FilesInductive ==
    ASSUME Typed, [Next]_vars
    PROVE  /\ FilesTyped'
           /\ Burn \/ \A b \in Books, p \in Page : page'[b][p].attempts <= page[b][p].attempts
<1> DEFINE Fewer == \A b \in Books, p \in Page : page'[b][p].attempts <= page[b][p].attempts
<1>1. LineTyped /\ FilesTyped /\ PassTyped /\ SweepTyped /\ HandTyped /\ TriesLeft
  BY DEF Typed
<1>2. MaxAttempts \in Nat /\ MaxAttempts > 0 /\ MaxEdition \in Nat /\ MaxEdition > 0
      /\ MaxTaps \in Nat /\ MaxFaults \in Nat
  BY DownloadsAssumption
<1>3. \A r \in Row \cup {NoRow} :
        /\ r.attempts \in Nat /\ 0 <= r.attempts /\ r.attempts <= r.attempts
        /\ Landed(r).attempts <= r.attempts /\ Pending.attempts <= r.attempts /\ NoRow.attempts <= r.attempts
  <2>1. Pending.attempts = 0 /\ NoRow.attempts = 0
    BY DEF Pending, NoRow
  <2>2. \A r \in Row \cup {NoRow} : r.attempts \in 0 .. MaxAttempts /\ Landed(r).attempts = r.attempts
    BY RowsAre
  <2> QED
    BY <1>2, <2>1, <2>2
<1>4. \A b \in Books, p \in Page : page[b][p] \in Row \cup {NoRow}
  BY <1>1 DEF FilesTyped
<1>5. ASSUME page' = page
      PROVE  page' \in [Books -> [Page -> Row \cup {NoRow}]] /\ Fewer
  BY <1>1, <1>3, <1>4, <1>5 DEF FilesTyped
<1>6. ASSUME UNCHANGED <<edition, asked, swept, spent>>, page' \in [Books -> [Page -> Row \cup {NoRow}]],
             disk' \in [Books -> [Page -> File]]
      PROVE  FilesTyped'
  BY <1>1, <1>6 DEF FilesTyped
<1>7. ASSUME UNCHANGED <<page, disk, edition, asked, swept, spent>>
      PROVE  FilesTyped' /\ Fewer
  BY <1>1, <1>5, <1>6, <1>7 DEF FilesTyped
<1>8. ASSUME NEW what, Fault(what)
      PROVE  spent' \in [taps : 0 .. MaxTaps, faults : 0 .. MaxFaults]
  BY <1>1, <1>2, <1>8 DEF Fault, FilesTyped
<1>9. ASSUME NEW kind, NEW b, Tap(kind, b)
      PROVE  spent' \in [taps : 0 .. MaxTaps, faults : 0 .. MaxFaults]
  BY <1>1, <1>2, <1>9 DEF Tap, FilesTyped
<1>10. CASE Elapse \/ (\E from \in Page : Plan(from)) \/ Claim \/ Answer \/ OpenLanding \/ Settle \/ Rest
            \/ BadAnswer \/ SweepSettle \/ SweepRest \/ SweepOver \/ UserSet \/ Retry \/ UNCHANGED vars
  BY <1>7, <1>10 DEF Elapse, Plan, Claim, Answer, OpenLanding, Settle, Rest, BadAnswer, SweepSettle,
     SweepRest, SweepOver, UserSet, Retry, vars
<1>11. CASE Pump
  BY <1>1, <1>5, <1>11 DEF Pump, FilesTyped
<1>12. CASE WriteFails \/ CommitFails \/ \E what \in {"down", "gone", "blocked"} : Halt(what)
  <2>1. UNCHANGED <<page, disk, edition, asked, swept>> /\ (spent' = spent \/ \E what : Fault(what))
    BY <1>12 DEF WriteFails, CommitFails, Halt, Refused
  <2>2. spent' \in [taps : 0 .. MaxTaps, faults : 0 .. MaxFaults]
    BY <1>1, <1>8, <2>1 DEF FilesTyped
  <2> QED
    BY <1>1, <1>5, <2>1, <2>2 DEF FilesTyped
<1>13. CASE Crash
  <2>1. spent' \in [taps : 0 .. MaxTaps, faults : 0 .. MaxFaults]
    BY <1>8, <1>13 DEF Crash
  <2> QED
    BY <1>1, <1>5, <1>13, <2>1 DEF Crash, FilesTyped
<1>14. CASE CommitRow \/ WriteFile \/ Burn \/ Exhaust
  <2>1. UNCHANGED <<edition, asked, swept, spent>>
    BY <1>14 DEF CommitRow, WriteFile, Burn, Exhaust
  <2>2. PICK b \in Books, p \in pass.jobs :
           /\ page' \in [Books -> [Page -> Row \cup {NoRow}]] /\ disk' \in [Books -> [Page -> File]]
           /\ \A c \in Books, q \in Page : c # b \/ q # p => page'[c][q] = page[c][q]
           /\ CommitRow => page'[b][p] = Landed(page[b][p])
           /\ WriteFile => page' = page
           /\ Exhaust => page'[b][p].attempts = page[b][p].attempts
    BY <1>14, PassPageIs
  <2>3. ~Burn => Fewer
    <3> SUFFICES ASSUME ~Burn, NEW c \in Books, NEW q \in Page
                 PROVE  page'[c][q].attempts <= page[c][q].attempts
      OBVIOUS
    <3>1. page'[c][q] = page[c][q] \/ page'[c][q] = Landed(page[c][q]) \/ page'[c][q].attempts = page[c][q].attempts
      BY <1>14, <2>2
    <3> QED
      BY <1>3, <1>4, <3>1
  <2> QED
    BY <1>6, <2>1, <2>2, <2>3
<1>15. CASE StartSweep
  <2>1. spent' = spent \/ (spent.taps < MaxTaps /\ spent' = [spent EXCEPT !.taps = @ + 1])
    BY <1>15 DEF StartSweep
  <2>2. spent' \in [taps : 0 .. MaxTaps, faults : 0 .. MaxFaults]
    BY <1>1, <1>2, <2>1 DEF FilesTyped
  <2>3. swept' \in BOOLEAN
    BY <1>15 DEF StartSweep
  <2> QED
    BY <1>1, <1>5, <1>15, <2>2, <2>3 DEF StartSweep, FilesTyped
<1>16. CASE SweepRows
  <2>1. PICK b \in Books :
           /\ page' \in [Books -> [Page -> Row \cup {NoRow}]] /\ disk' \in [Books -> [Page -> File]]
           /\ \A c \in Books \ {b} : page'[c] = page[c]
           /\ \A p \in Page : page'[b][p] = Pending \/ page'[b][p] = page[b][p]
    BY ZenonT(40), <1>1, <1>16, SweepRowsIs
  <2>2. UNCHANGED <<edition, asked, swept, spent>>
    BY <1>16 DEF SweepRows
  <2> QED
    BY <1>3, <1>4, <1>6, <2>1, <2>2
<1>17. CASE SweepFiles
  <2>1. PICK b \in Books :
           /\ page' \in [Books -> [Page -> Row \cup {NoRow}]] /\ disk' \in [Books -> [Page -> File]]
           /\ \A c \in Books \ {b} : page'[c] = page[c]
           /\ \A p \in Page : page'[b][p] = Landed(page[b][p]) \/ page'[b][p] = page[b][p]
    BY <1>1, <1>17, SweepFilesIs
  <2>2. UNCHANGED <<edition, asked, swept, spent>>
    BY <1>17 DEF SweepFiles
  <2> QED
    BY <1>3, <1>4, <1>6, <2>1, <2>2
<1>18. CASE Enqueue
  <2>1. page' \in [Books -> [Page -> Row \cup {NoRow}]] /\ disk' = disk
        /\ \A b \in Books : page'[b] = page[b] \/ \A p \in Page : page'[b][p] = Pending
    BY <1>18, GesturesPagesAre
  <2>2. asked' \in [Books -> 0 .. MaxEdition]
    <3>1. edition[hand.book] \in 0 .. MaxEdition /\ asked' = [asked EXCEPT ![hand.book] = edition[hand.book]]
      BY <1>1, <1>18 DEF Enqueue, HandTyped, FilesTyped, Usable
    <3> QED
      BY <1>1, <3>1 DEF FilesTyped
  <2>3. Fewer
    BY <1>3, <1>4, <2>1
  <2> QED
    BY <1>1, <1>18, <2>1, <2>2, <2>3 DEF Enqueue, FilesTyped
<1>19. CASE RemoveTree
  <2>1. disk' \in [Books -> [Page -> File]] /\ page' = page
    BY <1>19, GesturesPagesAre
  <2> QED
    BY <1>1, <1>5, <1>19, <2>1 DEF RemoveTree, FilesTyped
<1>20. ASSUME NEW b \in Books, TapRetry(b) \/ TapDelete(b)
       PROVE  FilesTyped' /\ Fewer
  <2>1. page' \in [Books -> [Page -> Row \cup {NoRow}]] /\ disk' = disk
    BY <1>20, GesturesPagesAre
  <2>2. \A c \in Books, p \in Page :
          page'[c][p] = page[c][p] \/ page'[c][p] = NoRow \/ page'[c][p].attempts = 0
    BY <1>20, GesturesPagesAre
  <2>3. Fewer
    BY <1>3, <1>4, <2>2
  <2>4. spent' \in [taps : 0 .. MaxTaps, faults : 0 .. MaxFaults]
    BY <1>9, <1>20 DEF TapRetry, TapDelete
  <2> QED
    BY <1>1, <1>20, <2>1, <2>3, <2>4 DEF TapRetry, TapDelete, FilesTyped
<1>21. ASSUME NEW kind, NEW b \in Books, TapOnly(kind, b)
       PROVE  FilesTyped' /\ Fewer
  BY <1>1, <1>5, <1>9, <1>21 DEF TapOnly, FilesTyped
<1>22. CASE Gestures
  BY <1>20, <1>21, <1>22 DEF Gestures, TapEnqueue, TapPause, TapResume
<1>23. ASSUME NEW b \in Books, NEW p \in Page, ReaderHeals(b, p)
       PROVE  FilesTyped' /\ Fewer
  <2>1. /\ page' \in [Books -> [Page -> Row \cup {NoRow}]] /\ disk' \in [Books -> [Page -> File]]
        /\ \A c \in Books, q \in Page : page'[c][q] = page[c][q] \/ page'[c][q] = Pending
    BY <1>23, GesturesPagesAre
  <2> QED
    BY <1>3, <1>4, <1>6, <1>23, <2>1 DEF ReaderHeals
<1>24. ASSUME NEW b \in Books, NEW p \in Page, NEW to \in {Gone, Broken}, Damage(b, p, to)
       PROVE  FilesTyped' /\ UNCHANGED page
  <2>1. to \in File /\ disk' = [disk EXCEPT ![b][p] = to] /\ disk \in [Books -> [Page -> File]]
    BY <1>1, <1>24, FilesAre DEF Damage, FilesTyped
  <2>2. disk' \in [Books -> [Page -> File]]
    BY <2>1, PageIsSet
  <2>3. spent' \in [taps : 0 .. MaxTaps, faults : 0 .. MaxFaults]
    BY <1>8, <1>24 DEF Damage
  <2> QED
    BY <1>1, <1>24, <2>2, <2>3 DEF Damage, FilesTyped
<1>25. ASSUME NEW b \in Books, Publish(b) \/ Expire(b)
       PROVE  FilesTyped' /\ UNCHANGED page
  <2>1. UNCHANGED <<page, disk, asked, swept, spent>>
    BY <1>25 DEF Publish, Expire
  <2>2. edition' \in [Books -> Usable]
    <3>1. CASE Publish(b)
      <4>1. edition[b] + 1 \in Usable /\ edition' = [edition EXCEPT ![b] = edition[b] + 1]
        BY <1>1, <1>2, <3>1 DEF Publish, FilesTyped, Usable
      <4> QED
        BY <1>1, <4>1 DEF FilesTyped
    <3>2. CASE Expire(b)
      BY <1>1, <3>2 DEF Expire, FilesTyped
    <3> QED
      BY <1>25, <3>1, <3>2
  <2> QED
    BY <1>1, <2>1, <2>2 DEF FilesTyped
<1>26. CASE World
  BY <1>5, <1>23, <1>24, <1>25, <1>26 DEF World
<1> QED
  BY <1>10, <1>11, <1>12, <1>13, <1>14, <1>15, <1>16, <1>17, <1>18, <1>19, <1>22, <1>26
  DEF Next, PassStep, SweepStep, HandStep, Trials

\* The pages of a pass: those it has done leave, the others keep their attempts.
LEMMA TriesInductive ==
    ASSUME Typed, [Next]_vars
    PROVE  TriesLeft'
<1>1. LineTyped /\ FilesTyped /\ PassTyped /\ SweepTyped /\ HandTyped /\ TriesLeft
  BY DEF Typed
<1>2. MaxAttempts \in Nat /\ (\A r \in Row \cup {NoRow} : r.attempts \in Nat)
      /\ \A b \in Books, p \in Page : page[b][p].attempts \in Nat
  <2>1. MaxAttempts \in Nat /\ 0 .. MaxAttempts \subseteq Nat
    BY DownloadsAssumption
  <2>2. \A r \in Row \cup {NoRow} : r.attempts \in 0 .. MaxAttempts
    BY RowsAre
  <2>3. \A b \in Books, p \in Page : page[b][p] \in Row \cup {NoRow}
    BY <1>1, FilesAre
  <2> QED
    BY <2>1, <2>2, <2>3
<1>3. FilesTyped' /\ \A b \in Books, p \in Page : page'[b][p].attempts \in Nat
  <2>1. FilesTyped'
    BY FilesInductive
  <2>2. \A b \in Books, p \in Page : page'[b][p] \in Row \cup {NoRow}
    BY <2>1 DEF FilesTyped
  <2> QED
    BY <1>2, <2>1, <2>2
<1>4. ASSUME ~Burn, pass'.at \in {"claim"} \cup AtPage,
             pass.at \in {"claim"} \cup AtPage, pass'.book = pass.book,
             pass'.jobs \subseteq pass.jobs,
             pass.at = "exhaust" => Job \notin pass'.jobs \/ (pass'.at = "exhaust" /\ pass'.jobs = pass.jobs /\ pass'.from = pass.from)
      PROVE  TriesLeft'
  <2>1. pass.book \in Books /\ pass.jobs \subseteq Page
    BY <1>1, <1>4 DEF PassTyped, Passing, AtPage
  <2>2. \A p \in pass.jobs : page'[pass.book][p].attempts <= page[pass.book][p].attempts
    BY <1>4, <2>1, FilesInductive
  <2>3. \A p \in pass'.jobs : page'[pass.book][p].attempts < MaxAttempts
                              \/ (pass.at = "exhaust" /\ p = Job /\ pass'.at = "exhaust"
                                  /\ pass'.jobs = pass.jobs /\ pass'.from = pass.from)
    <3> SUFFICES ASSUME NEW p \in pass'.jobs
                 PROVE  page'[pass.book][p].attempts < MaxAttempts
                        \/ (pass.at = "exhaust" /\ p = Job /\ pass'.at = "exhaust"
                            /\ pass'.jobs = pass.jobs /\ pass'.from = pass.from)
      OBVIOUS
    <3>1. page[pass.book][p].attempts < MaxAttempts \/ (pass.at = "exhaust" /\ p = Job)
      BY <1>1, <1>4 DEF TriesLeft
    <3>2. p \in Page /\ page[pass.book][p].attempts \in Nat /\ page'[pass.book][p].attempts \in Nat
          /\ page'[pass.book][p].attempts <= page[pass.book][p].attempts
      BY <1>2, <1>3, <1>4, <2>1, <2>2
    <3> QED
      BY <1>2, <1>4, <3>1, <3>2
  <2>4. pass'.jobs = pass.jobs /\ pass'.from = pass.from => Job' = Job
    BY DEF Job
  <2> QED
    BY <1>4, <2>3, <2>4 DEF TriesLeft
<1>5. ASSUME pass'.at \notin {"claim"} \cup AtPage
      PROVE  TriesLeft'
  BY <1>5 DEF TriesLeft
<1>6. ASSUME ~Burn, pass' = pass \/ pass' = PassOvertaken \/ pass' = NoPass
      PROVE  TriesLeft'
  <2>1. PassOvertaken.at = pass.at /\ PassOvertaken.book = pass.book
        /\ PassOvertaken.jobs = pass.jobs /\ PassOvertaken.from = pass.from
    BY <1>1 DEF PassOvertaken, PassTyped, Passing
  <2>2. NoPass.at \notin {"claim"} \cup AtPage
    BY DEF NoPass, AtPage
  <2> QED
    BY <1>4, <1>5, <1>6, <2>1, <2>2
<1>7. CASE Burn
  <2>1. PICK b \in Books, p \in pass.jobs :
           /\ b = pass.book /\ p = Job
           /\ \A c \in Books, q \in Page : c # b \/ q # p => page'[c][q] = page[c][q]
           /\ page[b][p].state = "none" => page' = page /\ pass' = NoPass
           /\ page[b][p].state # "none" => pass' = [pass EXCEPT !.at = "exhaust"]
    BY <1>7, PassPageIs
  <2>2. CASE page[b][p].state = "none"
    BY <1>5, <2>1, <2>2 DEF NoPass, AtPage
  <2>3. CASE page[b][p].state # "none"
    <3>1. pass'.at = "exhaust" /\ pass'.book = b /\ pass'.jobs = pass.jobs /\ pass'.from = pass.from
      BY <1>1, <2>1, <2>3 DEF PassTyped, Passing
    <3>2. Job' = p
      BY <2>1, <3>1 DEF Job
    <3>3. \A q \in pass.jobs : q # p => page'[b][q].attempts < MaxAttempts
      BY <1>1, <1>7, <2>1 DEF TriesLeft, PassTyped, Passing, Burn, PassAt, AtPage
    <3> QED
      BY <3>1, <3>2, <3>3 DEF TriesLeft
  <2> QED
    BY <2>2, <2>3
<1>8. ASSUME NEW from \in Page, Plan(from)
      PROVE  TriesLeft'
  <2> DEFINE ready == Resumable \ parked
             b == FirstOf(ready)
             jobs == Jobs(b, from)
  <2>1. CASE ready = {}
    BY <1>5, <1>8, <2>1 DEF Plan, NoPass, AtPage
  <2>2. CASE ready # {}
    <3>1. PICK at : at = IF state[b] = "waiting" THEN "claim" ELSE ToFetch(jobs)
      OBVIOUS
    <3>2. pass' = [pass EXCEPT !.book = b, !.jobs = jobs, !.from = from, !.at = at] /\ page' = page
      BY <1>8, <2>2, <3>1 DEF Plan
    <3>3. \A p \in jobs : page[b][p].attempts < MaxAttempts
      BY DEF Jobs, Candidates
    <3> HIDE DEF ready, b, jobs
    <3>4. pass'.book = b /\ pass'.jobs = jobs
      BY <1>1, <3>2 DEF PassTyped, Passing
    <3> QED
      BY <3>2, <3>3, <3>4 DEF TriesLeft
  <2> QED
    BY <2>1, <2>2
<1>9. ASSUME pass.at \in AtPage, NEW bad, NEW served,
             pass' = [NextPage EXCEPT !.bad = bad, !.served = served], ~Burn
      PROVE  TriesLeft'
  <2>1. pass'.jobs = pass.jobs \ {Job} /\ pass'.book = pass.book /\ pass'.at = ToFetch(pass.jobs \ {Job})
    BY <1>1, <1>9 DEF NextPage, PassTyped, Passing
  <2> QED
    BY <1>4, <1>5, <1>9, <2>1
<1>10. CASE CommitRow
  <2>1. pass' = [NextPage EXCEPT !.bad = 0, !.served = TRUE] /\ pass.at \in AtPage /\ ~Burn
    BY <1>1, <1>10 DEF CommitRow, NextPage, PassTyped, Passing, PassAt, AtPage, Burn
  <2> QED
    BY <1>9, <2>1
<1>11. CASE Exhaust
  <2>1. pass.at \in AtPage /\ ~Burn
    BY <1>11 DEF Exhaust, Burn, PassAt, AtPage
  <2>2. CASE pass' = [NextPage EXCEPT !.bad = @ + 1]
    <3>1. pass' = [NextPage EXCEPT !.bad = pass.bad + 1, !.served = pass.served]
      BY <1>1, <2>2 DEF NextPage, PassTyped, Passing
    <3> QED
      BY <1>9, <2>1, <3>1
  <2>3. CASE pass' = NoPass \/ pass' = [pass EXCEPT !.at = "settle", !.bad = 0]
    <3>1. NoPass.at = "idle" /\ [pass EXCEPT !.at = "settle", !.bad = 0].at = "settle"
      BY <1>1 DEF NoPass, PassTyped, Passing
    <3> QED
      BY <1>5, <2>3, <3>1 DEF AtPage
  <2> QED
    BY <1>11, <2>2, <2>3 DEF Exhaust
<1>12. ASSUME ~Burn, pass'.book = pass.book, pass'.jobs = pass.jobs, pass.at \in {"claim"} \cup AtPage,
              pass.at # "exhaust"
       PROVE  TriesLeft'
  BY <1>4, <1>5, <1>12
<1>13. CASE Claim \/ Elapse \/ Answer \/ BadAnswer \/ OpenLanding \/ WriteFile \/ WriteFails \/ CommitFails
  <2>1. ~Burn /\ pass.at \in {"claim"} \cup AtPage /\ pass.at # "exhaust"
    BY <1>13 DEF Claim, Elapse, Answer, BadAnswer, OpenLanding, WriteFile, WriteFails, CommitFails, Burn,
       PassAt, AtPage
  <2>2. pass' = NoPass \/ (pass'.book = pass.book /\ pass'.jobs = pass.jobs)
    BY <1>1, <1>13 DEF Claim, Elapse, Answer, BadAnswer, OpenLanding, WriteFile, WriteFails, CommitFails,
       PassTyped, Passing
  <2> QED
    BY <1>6, <1>12, <2>1, <2>2
<1>14. ASSUME NEW what, Halt(what)
       PROVE  TriesLeft'
  <2>1. pass'.at = "settle"
    BY <1>1, <1>14 DEF Halt, PassTyped, Passing
  <2> QED
    BY <1>5, <2>1 DEF AtPage
<1>15. CASE Settle
  <2>1. PICK due : due = Derived(pass.book, FALSE)
    OBVIOUS
  <2>2. pass' = NoPass \/ pass' = [pass EXCEPT !.at = "rest", !.was = state[pass.book], !.due = due]
    BY <1>15, <2>1 DEF Settle
  <2>3. NoPass.at = "idle"
        /\ [pass EXCEPT !.at = "rest", !.was = state[pass.book], !.due = due].at = "rest"
    BY <1>1 DEF NoPass, PassTyped, Passing
  <2> QED
    BY <1>5, <2>2, <2>3 DEF AtPage
<1>16. CASE Pump
  <2>1. pass'.at \in {"sweep", "plan"}
    BY <1>16 DEF Pump, NoPass
  <2> QED
    BY <1>5, <2>1 DEF AtPage
<1>17. CASE ~Burn /\ (Rest \/ StartSweep \/ SweepStep \/ Gestures \/ HandStep \/ World \/ Crash \/ UNCHANGED vars)
  <2>1. SweepEnds => pass' = PassOvertaken \/ pass'.at = "plan"
    BY <1>1 DEF SweepEnds, PassTyped, Passing
  <2>2. pass' = pass \/ pass' = PassOvertaken \/ pass' = NoPass \/ pass'.at = "plan"
    BY <1>17, <2>1 DEF Rest, StartSweep, SweepStep, SweepRows, SweepFiles, SweepSettle, SweepRest, SweepOver,
       Gestures, TapEnqueue, TapPause, TapResume, TapRetry, TapDelete, TapOnly, HandStep,
       Enqueue, UserSet, Retry, RemoveTree, Release, World, ReaderHeals, Damage, Publish, Expire, Crash, vars
  <2> QED
    BY <1>5, <1>6, <1>17, <2>2 DEF AtPage
<1> QED
  BY <1>7, <1>8, <1>10, <1>11, <1>13, <1>14, <1>15, <1>16, <1>17 DEF Next, PassStep, Trials

LEMMA TypedInductive == Typed /\ [Next]_vars => Typed'
BY LineInductive, FilesInductive, PassInductive, SweepInductive, HandInductive, TriesInductive DEF Typed

LEMMA TypedAtFirst == Init => Typed
<1> SUFFICES ASSUME Init
             PROVE  Typed
  OBVIOUS
<1>1. MaxEdition \in Nat /\ MaxEdition > 0 /\ MaxTaps \in Nat /\ MaxFaults \in Nat /\ LastPage \in Nat /\ LastPage > 0
  BY DownloadsAssumption
<1>2. LineTyped
  BY DEF Init, LineTyped, Range
<1>3. FilesTyped
  <2>1. Gone \in File /\ 1 \in Usable /\ Gone \in 0 .. MaxEdition /\ NoRow \in Row \cup {NoRow}
    BY <1>1 DEF Gone, File, Broken, Usable
  <2>2. page \in [Books -> [Page -> Row \cup {NoRow}]] /\ disk \in [Books -> [Page -> File]]
    BY <2>1 DEF Init
  <2>3. edition \in [Books -> Usable] /\ asked \in [Books -> 0 .. MaxEdition]
    BY <2>1 DEF Init
  <2>4. swept \in BOOLEAN /\ spent \in [taps : 0 .. MaxTaps, faults : 0 .. MaxFaults]
    <3>1. 0 \in 0 .. MaxTaps /\ 0 \in 0 .. MaxFaults
      BY <1>1
    <3> QED
      BY <3>1 DEF Init
  <2> QED
    BY <2>2, <2>3, <2>4 DEF FilesTyped
<1>4. PassTyped
  BY <1>1 DEF Init, PassTyped, NoPass, Passing, PassPoints, AtPage, Page, BookState, Gone
<1>5. SweepTyped /\ HandTyped
  BY DEF Init, SweepTyped, HandTyped, NoSweep, NoHand, Sweeping, Handling, BookState
<1>6. TriesLeft
  BY DEF Init, TriesLeft, NoPass, AtPage
<1> QED
  BY <1>2, <1>3, <1>4, <1>5, <1>6 DEF Typed

LEMMA Types == Spec => []Typed
BY TypedAtFirst, TypedInductive, PTL DEF Spec

\* Every state is of the shape the model gives it: no book is in the queue twice or
\* parked outside it, no page has more attempts than it may have.
THEOREM TypeCorrect == Spec => []TypeOK
<1>1. Typed => TypeOK
  <2> SUFFICES ASSUME Typed
               PROVE  TypeOK
    OBVIOUS
  <2>1. pass.at \in PassPoints /\ pass.book \in Books \cup {NoBook} /\ pass.jobs \subseteq Page
    BY DEF Typed, PassTyped, Passing
  <2>2. sweep.by \in {"none", "pass", "list"} /\ sweep.left \in Seq(Books)
    BY DEF Typed, SweepTyped, Sweeping
  <2>3. hand.kind \in {"none", "enqueue", "pause", "resume", "retry", "delete"}
    BY DEF Typed, HandTyped, Handling
  <2> QED
    BY <2>1, <2>2, <2>3, LineIsShort DEF Typed, LineTyped, FilesTyped, TypeOK
<1> QED
  BY <1>1, Types, PTL

--------------------------------------------------------------------------------
(* Which step moves what                                                     *)

\* The actions that leave the rows and the files alone.
Quiet ==
    \/ Pump \/ (\E from \in Page : Plan(from)) \/ Claim \/ Elapse \/ Answer \/ BadAnswer \/ OpenLanding
    \/ WriteFails \/ CommitFails \/ Settle \/ Rest \/ (\E what \in {"down", "gone", "blocked"} : Halt(what))
    \/ StartSweep \/ SweepSettle \/ SweepRest \/ SweepOver \/ UserSet \/ Retry \/ Crash
    \/ (\E kind, b : TapOnly(kind, b)) \/ (\E b \in Books : Publish(b) \/ Expire(b)) \/ UNCHANGED vars

LEMMA QuietIsQuiet == Quiet => UNCHANGED <<page, disk>>
BY DEF Quiet, Pump, Plan, Claim, Elapse, Answer, BadAnswer, OpenLanding, WriteFails, CommitFails, Settle, Rest,
   Halt, StartSweep, SweepSettle, SweepRest, SweepOver, UserSet, Retry, Crash, TapOnly, Publish, Expire, vars

LEMMA StepsAre ==
    [Next]_vars =>
        \/ Quiet \/ CommitRow \/ WriteFile \/ Burn \/ Exhaust \/ SweepRows \/ SweepFiles
        \/ (\E b \in Books : TapRetry(b) \/ TapDelete(b)) \/ Enqueue \/ RemoveTree
        \/ (\E b \in Books, p \in Page : ReaderHeals(b, p))
        \/ (\E b \in Books, p \in Page, to \in {Gone, Broken} : Damage(b, p, to))
<1> SUFFICES ASSUME [Next]_vars
             PROVE  \/ Quiet \/ CommitRow \/ WriteFile \/ Burn \/ Exhaust \/ SweepRows \/ SweepFiles
                    \/ (\E b \in Books : TapRetry(b) \/ TapDelete(b)) \/ Enqueue \/ RemoveTree
                    \/ (\E b \in Books, p \in Page : ReaderHeals(b, p))
                    \/ (\E b \in Books, p \in Page, to \in {Gone, Broken} : Damage(b, p, to))
  OBVIOUS
<1>1. CASE PassStep \/ Pump \/ Elapse \/ Trials \/ StartSweep \/ SweepStep \/ HandStep \/ Crash \/ UNCHANGED vars
  BY <1>1, Zenon DEF PassStep, Trials, SweepStep, HandStep, Quiet
<1>2. CASE Gestures
  BY <1>2, Zenon DEF Gestures, TapEnqueue, TapPause, TapResume, Quiet
<1>3. CASE World
  BY <1>3, Zenon DEF World, Quiet
<1> QED
  BY <1>1, <1>2, <1>3, Zenon DEF Next

LEMMA RowMoves ==
    ASSUME Typed, [Next]_vars, NEW b \in Books, NEW p \in Page
    PROVE  \/ page'[b][p] = page[b][p]
           \/ CommitRow /\ b = pass.book /\ p = Job /\ page'[b][p] = Landed(page[b][p])
           \/ /\ Burn /\ b = pass.book /\ p = Job
              /\ page'[b][p].state = page[b][p].state /\ page'[b][p].held = page[b][p].held
              /\ page[b][p].state # "none" /\ pass' = [pass EXCEPT !.at = "exhaust"]
           \/ /\ Exhaust /\ b = pass.book /\ p = Job
              /\ page'[b][p].held = page[b][p].held /\ page'[b][p].state = "failed"
              /\ Spent(page[b][p]) /\ page[b][p].state # "none"
           \/ /\ SweepRows /\ b = Head(sweep.left) /\ page'[b][p] = Pending
              /\ page[b][p].state = "complete" /\ ~Whole(b, p)
           \/ /\ SweepFiles /\ b = Head(sweep.left) /\ page'[b][p] = Landed(page[b][p])
              /\ p \notin sweep.judged /\ Whole(b, p)
           \/ /\ TapRetry(b) /\ page[b][p].state = "failed" /\ page'[b][p].state = "pending"
              /\ page'[b][p].attempts = 0 /\ page'[b][p].held = page[b][p].held
           \/ TapDelete(b) /\ page'[b][p] = NoRow
           \/ ReaderHeals(b, p) /\ page'[b][p] = Pending
           \/ Enqueue /\ b = hand.book /\ page'[b][p] = Pending
<1>1. FilesTyped /\ SweepTyped
  BY DEF Typed
<1>2. CASE Quiet
  BY <1>2, QuietIsQuiet
<1>3. CASE CommitRow \/ WriteFile
  BY <1>3, PassPageIs
<1>4. CASE Burn
  BY <1>4, PassPageIs
<1>5. CASE Exhaust
  <2>1. PICK c \in Books, q \in pass.jobs :
           /\ c = pass.book /\ q = Job
           /\ page' \in [Books -> [Page -> Row \cup {NoRow}]]
           /\ \A d \in Books, r \in Page : d # c \/ r # q => page'[d][r] = page[d][r]
           /\ page'[c][q].held = page[c][q].held /\ page'[c][q].attempts = page[c][q].attempts
           /\ page[c][q].state = "none" => page' = page
           /\ page[c][q].state # "none" =>
                page'[c][q].state = IF Spent(page[c][q]) THEN "failed" ELSE page[c][q].state
    BY <1>5, PassPageIs
  <2>2. CASE b = c /\ p = q /\ page[c][q].state # "none" /\ ~Spent(page[c][q])
    BY <1>5, <2>1, <2>2 DEF Exhaust
  <2> QED
    BY <1>5, <2>1, <2>2
<1>6. CASE SweepRows
  BY <1>1, <1>6, SweepRowsIs
<1>7. CASE SweepFiles
  BY <1>1, <1>7, SweepFilesIs
<1>8. CASE \E c \in Books : TapRetry(c) \/ TapDelete(c)
  BY <1>8, GesturesPagesAre
<1>9. CASE Enqueue \/ RemoveTree
  BY <1>9, GesturesPagesAre
<1>10. CASE \E c \in Books, q \in Page : ReaderHeals(c, q)
  BY <1>10, GesturesPagesAre
<1>11. CASE \E c \in Books, q \in Page, to \in {Gone, Broken} : Damage(c, q, to)
  BY <1>11 DEF Damage
<1> QED
  BY <1>2, <1>3, <1>4, <1>5, <1>6, <1>7, <1>8, <1>9, <1>10, <1>11, StepsAre

LEMMA FileMoves ==
    ASSUME Typed, [Next]_vars, NEW b \in Books, NEW p \in Page
    PROVE  \/ disk'[b][p] = disk[b][p]
           \/ WriteFile /\ b = pass.book /\ p = Job /\ disk'[b][p] = pass.got
           \/ /\ SweepRows /\ b = Head(sweep.left) /\ disk'[b][p] = Gone
              /\ \/ page[b][p].state = "complete" /\ ~Whole(b, p)
                 \/ page[b][p].state # "complete" /\ page[b][p].held
           \/ SweepFiles /\ b = Head(sweep.left) /\ disk'[b][p] = Gone /\ p \notin sweep.judged /\ ~Whole(b, p)
           \/ RemoveTree /\ b = hand.book /\ disk'[b][p] = Gone
           \/ ReaderHeals(b, p) /\ disk'[b][p] = Gone
           \/ \E to \in {Gone, Broken} : Damage(b, p, to) /\ disk'[b][p] = to
<1>1. FilesTyped /\ SweepTyped
  BY DEF Typed
<1>2. CASE Quiet
  BY <1>2, QuietIsQuiet
<1>3. CASE CommitRow \/ WriteFile \/ Burn \/ Exhaust
  BY <1>3, PassPageIs
<1>4. CASE SweepRows
  BY <1>1, <1>4, SweepRowsIs
<1>5. CASE SweepFiles
  BY <1>1, <1>5, SweepFilesIs
<1>6. CASE \E c \in Books : TapRetry(c) \/ TapDelete(c)
  BY <1>6, GesturesPagesAre
<1>7. CASE Enqueue \/ RemoveTree
  BY <1>7, GesturesPagesAre
<1>8. CASE \E c \in Books, q \in Page : ReaderHeals(c, q)
  BY <1>8, GesturesPagesAre
<1>9. ASSUME NEW c \in Books, NEW q \in Page, NEW to \in {Gone, Broken}, Damage(c, q, to)
       PROVE  disk'[b][p] = disk[b][p] \/ (c = b /\ q = p /\ disk'[b][p] = to)
  <2>1. disk' = [disk EXCEPT ![c][q] = to] /\ disk \in [Books -> [Page -> File]] /\ to \in File
    BY <1>1, <1>9, FilesAre DEF Damage, FilesTyped
  <2> QED
    BY <2>1, PageIsSet
<1> QED
  BY <1>2, <1>3, <1>4, <1>5, <1>6, <1>7, <1>8, <1>9, StepsAre

LEMMA StateMoves ==
    ASSUME Typed, [Next]_vars, NEW b \in Books
    PROVE  \/ state'[b] = state[b]
           \/ Claim /\ b = pass.book /\ state[b] = "waiting" /\ state'[b] = "downloading"
           \/ Settle /\ pass.terminal /\ b = pass.book /\ state[b] \in {"downloading", "waiting"} /\ state'[b] = "failed"
           \/ Rest /\ b = pass.book /\ state[b] = pass.was /\ state'[b] = pass.due
           \/ SweepRest /\ b = Head(sweep.left) /\ state[b] = sweep.was /\ state'[b] = sweep.due
           \/ Enqueue /\ b = hand.book /\ state'[b] = "waiting"
           \/ /\ UserSet /\ b = hand.book /\ state[b] = hand.was
              /\ state'[b] = IF hand.kind = "pause" THEN "paused" ELSE "waiting"
           \/ Retry /\ b = hand.book /\ state[b] = "failed" /\ state'[b] = "waiting"
           \/ TapDelete(b) /\ state[b] # "none" /\ state'[b] = "none"
<1>1. LineTyped
  BY DEF Typed
<1>2. \A was, to, c : /\ StateIf(c, was, to)[b] = state[b] \/ (b = c /\ state[b] = was /\ StateIf(c, was, to)[b] = to)
  BY <1>1 DEF StateIf, LineTyped
<1>3. CASE Claim \/ Rest \/ SweepRest \/ UserSet \/ Retry
  BY <1>2, <1>3 DEF Claim, Rest, SweepRest, UserSet, Retry
<1>4. CASE Settle
  BY <1>1, <1>4 DEF Settle, LineTyped
<1>5. CASE Enqueue
  BY <1>1, <1>5 DEF Enqueue, LineTyped
<1>6. CASE \E c \in Books : TapRetry(c) \/ TapDelete(c)
  BY <1>1, <1>6 DEF TapRetry, TapDelete, LineTyped
<1>7. CASE \/ CommitRow \/ WriteFile \/ Burn \/ Exhaust \/ SweepRows \/ SweepFiles \/ RemoveTree
           \/ (\E c \in Books, p \in Page : ReaderHeals(c, p))
           \/ (\E c \in Books, p \in Page, to \in {Gone, Broken} : Damage(c, p, to))
  BY <1>7 DEF CommitRow, WriteFile, Burn, Exhaust, SweepRows, SweepFiles, RemoveTree, ReaderHeals, Damage
<1>8. CASE Quiet /\ ~(Claim \/ Rest \/ SweepRest \/ UserSet \/ Retry \/ Settle)
  BY <1>8 DEF Quiet, Pump, Plan, Elapse, Answer, BadAnswer, OpenLanding, WriteFails, CommitFails,
     Halt, StartSweep, SweepSettle, SweepOver, Crash, TapOnly, Publish, Expire, vars
<1> QED
  BY <1>3, <1>4, <1>5, <1>6, <1>7, <1>8, StepsAre

--------------------------------------------------------------------------------
(* Attempts                                                                  *)

\* A step that is not the second half of counting a bad answer leaves a pass that
\* has counted the first where it is.
LEMMA ExhaustStays ==
    ASSUME Typed, [Next]_vars, pass.at = "exhaust", ~Exhaust, "tear" \notin Rough
    PROVE  pass'.at = "exhaust" /\ pass'.book = pass.book /\ Job' = Job
<1>1. PassTyped
  BY DEF Typed
<1>2. PassOvertaken = pass
  BY DEF PassOvertaken
<1>3. pass' = pass
  <2>1. CASE Pump \/ Elapse \/ PassStep \/ Trials
    BY <2>1 DEF Pump, Elapse, PassStep, Trials, Plan, Claim, Answer, OpenLanding, WriteFile, CommitRow, CommitFails, Burn,
       Settle, Rest, BadAnswer, WriteFails, Halt, PassAt
  <2>2. CASE StartSweep \/ SweepStep \/ World \/ UNCHANGED vars
    BY <1>2, <2>2 DEF StartSweep, SweepStep, SweepRows, SweepFiles, SweepSettle, SweepRest, SweepOver, SweepEnds,
       World, ReaderHeals, Damage, Publish, Expire, vars
  <2>3. CASE Gestures \/ HandStep \/ Crash
    BY <1>2, <2>3 DEF Gestures, TapEnqueue, TapPause, TapResume, TapRetry, TapDelete, TapOnly,
       HandStep, Enqueue, UserSet, Retry, RemoveTree, Release, Crash
  <2> QED
    BY <2>1, <2>2, <2>3 DEF Next
<1> QED
  BY <1>3 DEF Job

LEMMA AttemptsInductive ==
    ASSUME Typed, AttemptsInv, [Next]_vars, "tear" \notin Rough
    PROVE  AttemptsInv'
<1> SUFFICES ASSUME NEW b \in Books, NEW p \in Page,
                    page'[b][p].state = "pending", page'[b][p].attempts >= MaxAttempts
             PROVE  pass'.at = "exhaust" /\ b = pass'.book /\ p = Job'
  BY DEF AttemptsInv
<1>1. PassTyped /\ MaxAttempts \in Nat /\ MaxAttempts > 0 /\ page[b][p] \in Row \cup {NoRow}
  BY DownloadsAssumption, FilesAre DEF Typed
<1>2. ~(page'[b][p] = Pending \/ page'[b][p] = NoRow \/ page'[b][p].attempts = 0)
      /\ page'[b][p] # Landed(page[b][p]) /\ page'[b][p].state # "failed"
  <2>1. Pending.attempts = 0 /\ NoRow.attempts = 0 /\ Landed(page[b][p]).state = "complete"
    BY <1>1, RowsAre DEF Pending, NoRow
  <2> QED
    BY <1>1, <2>1
<1>3. CASE Burn /\ b = pass.book /\ p = Job /\ pass' = [pass EXCEPT !.at = "exhaust"]
  BY <1>1, <1>3 DEF PassTyped, Passing, Job
<1>4. CASE page'[b][p] = page[b][p]
  <2>1. pass.at = "exhaust" /\ b = pass.book /\ p = Job
    BY <1>4 DEF AttemptsInv
  <2>2. CASE Exhaust
    <3>1. page'[b][p].state = IF Spent(page[b][p]) THEN "failed" ELSE page[b][p].state
      BY <1>4, <2>1, <2>2, PassPageIs
    <3> QED
      BY <1>2, <1>4, <3>1 DEF Spent
  <2> QED
    BY <2>1, <2>2, ExhaustStays
<1> QED
  BY <1>2, <1>3, <1>4, RowMoves

\* A page the queue still wants is one a pass may take: no bad answer, pause,
\* deletion, retry or sweep leaves a page that waits with no attempts left.  A crash
\* between the two statements of record_page_attempt ("tear") does.
THEOREM NothingIsStranded ==
    ASSUME "tear" \notin Rough
    PROVE  Spec => []NothingStranded
<1>1. Init => AttemptsInv
  BY DEF Init, AttemptsInv, NoRow
<1>2. Typed /\ AttemptsInv /\ [Next]_vars => AttemptsInv'
  BY AttemptsInductive
<1>3. AttemptsInv => NothingStranded
  BY DEF AttemptsInv, NothingStranded
<1> QED
  BY <1>1, <1>2, <1>3, Types, PTL DEF Spec

--------------------------------------------------------------------------------
(* Pauses                                                                    *)

LEMMA SettlePassIs ==
    ASSUME Typed, Settle
    PROVE  pass' = NoPass \/ /\ pass'.at = "rest" /\ pass'.book = pass.book /\ pass'.jobs = pass.jobs
                             /\ pass'.was = state[pass.book] /\ pass'.due = Derived(pass.book, FALSE)
                             /\ pass.at = "settle" /\ state[pass.book] # "none" /\ pass.book \in Books
                             /\ hand' = hand /\ MayCome /\ UNCHANGED <<page, state, sweep>>
<1>1. PassTyped
  BY DEF Typed
<1>2. pass.at = "settle" /\ hand' = hand /\ MayCome /\ page' = page /\ pass.book \in Books
  BY <1>1 DEF Settle, PassAt, PassTyped
<1>3. PICK due : due = Derived(pass.book, FALSE)
  OBVIOUS
<1>4. CASE pass' # NoPass
  <2>1. /\ pass' = [pass EXCEPT !.at = "rest", !.was = state[pass.book], !.due = due]
        /\ state[pass.book] # "none" /\ UNCHANGED <<state, sweep>>
    BY <1>3, <1>4 DEF Settle
  <2>2. pass'.at = "rest" /\ pass'.book = pass.book /\ pass'.jobs = pass.jobs
        /\ pass'.was = state[pass.book] /\ pass'.due = due
    BY <1>1, <2>1 DEF PassTyped, Passing
  <2> QED
    BY <1>2, <1>3, <2>1, <2>2
<1> QED
  BY <1>4

LEMMA SweepSettleIs ==
    ASSUME Typed, SweepSettle, sweep'.at = "rest"
    PROVE  /\ sweep.by # "none" /\ sweep.left # <<>> /\ sweep.at = "settle" /\ MayCome /\ Head(sweep.left) \in Books
           /\ sweep'.by = sweep.by /\ sweep'.left = sweep.left /\ sweep'.calm = sweep.calm
           /\ sweep'.was = state[Head(sweep.left)] /\ sweep'.due = Derived(Head(sweep.left), TRUE)
           /\ state[Head(sweep.left)] # "none"
           /\ sweep'.due = sweep'.was \/ <<sweep'.was, sweep'.due>> \in SettleMoves
           /\ UNCHANGED <<state, page, disk, hand>>
<1>1. SweepTyped
  BY DEF Typed
<1>2. PICK due : due = Derived(Head(sweep.left), TRUE)
  OBVIOUS
<1>3. /\ sweep' = [sweep EXCEPT !.at = "rest", !.was = state[Head(sweep.left)], !.due = due]
      /\ state[Head(sweep.left)] # "none"
      /\ due = state[Head(sweep.left)] \/ <<state[Head(sweep.left)], due>> \in SettleMoves
  <2>1. ~SweepEnds
    BY DEF SweepEnds, NoSweep
  <2>2. SweepDerived(Head(sweep.left)) = due
    BY <1>2 DEF SweepDerived
  <2> QED
    BY <2>1, <2>2 DEF SweepSettle
<1>4. sweep.by # "none" /\ sweep.left # <<>> /\ sweep.at = "settle" /\ MayCome /\ UNCHANGED <<state, page, disk, hand>>
  BY DEF SweepSettle, SweepAt
<1>5. sweep'.by = sweep.by /\ sweep'.left = sweep.left /\ sweep'.calm = sweep.calm
      /\ sweep'.was = state[Head(sweep.left)] /\ sweep'.due = due
  BY <1>1, <1>3 DEF SweepTyped, Sweeping
<1>6. Head(sweep.left) \in Books
  BY <1>1, <1>4 DEF SweepTyped, Sweeping
<1> QED
  BY <1>2, <1>3, <1>4, <1>5, <1>6

\* How a pass comes to the write and to the rest, and a sweep to the rest.
LEMMA PassComes ==
    ASSUME Typed, [Next]_vars
    PROVE  /\ pass'.at \in {"write", "commit"} /\ ~pass'.late =>
                /\ pass'.book = pass.book
                /\ \/ OpenLanding /\ MayLand(pass.book) /\ state' = state
                   \/ pass.at \in {"write", "commit"} /\ ~pass.late /\ state' = state
           /\ pass'.at = "rest" =>
                \/ Settle
                \/ /\ pass.at = "rest" /\ pass'.was = pass.was /\ pass'.due = pass.due
                   /\ pass'.book = pass.book /\ ~Rest /\ ~Crash
<1>1. PassTyped
  BY DEF Typed
<1>2. PassOvertaken.at = pass.at /\ PassOvertaken.book = pass.book /\ PassOvertaken.was = pass.was
      /\ PassOvertaken.due = pass.due /\ (pass.at \in {"write", "commit"} => PassOvertaken.late)
      /\ NoPass.at = "idle"
  BY <1>1 DEF PassOvertaken, PassTyped, Passing, NoPass
<1>3. CASE OpenLanding \/ WriteFile
  <2>1. pass'.book = pass.book /\ pass'.at # "rest" /\ state' = state
        /\ (OpenLanding => pass'.at # "commit" /\ (pass'.at = "write" => MayLand(pass.book)))
        /\ (WriteFile => pass'.late = pass.late /\ pass.at = "write")
    BY <1>1, <1>3 DEF OpenLanding, WriteFile, PassAt, PassTyped, Passing
  <2> QED
    BY <1>3, <2>1
<1>4. CASE Settle
  <2>1. pass'.at \in {"idle", "rest"}
    BY <1>2, <1>4, SettlePassIs
  <2> QED
    BY <1>4, <2>1
<1>5. CASE Pump \/ Claim \/ Elapse \/ Answer \/ CommitFails \/ BadAnswer \/ WriteFails
           \/ \E what \in {"down", "gone", "blocked"} : Halt(what)
  <2>1. pass'.at \in {"idle", "sweep", "plan", "claim", "fetch", "land", "burn", "settle"}
    BY <1>1, <1>2, <1>5 DEF Pump, Claim, Elapse, Answer, CommitFails, BadAnswer, WriteFails, Halt, PassAt, NoPass,
       PassTyped, Passing, ToFetch
  <2> QED
    BY <2>1
<1>6. ASSUME NEW from \in Page, Plan(from)
      PROVE  pass'.at \in {"idle", "claim", "fetch", "settle"}
  <2>1. PICK at \in {"claim", "fetch", "settle"} :
          \/ pass' = NoPass
          \/ pass' = [pass EXCEPT !.book = FirstOf(Resumable \ parked), !.jobs = Jobs(FirstOf(Resumable \ parked), from),
                                  !.from = from, !.at = at]
    BY <1>6 DEF Plan, ToFetch
  <2> QED
    BY <1>1, <1>2, <2>1 DEF PassTyped, Passing
<1>7. CASE Rest
  BY <1>2, <1>7 DEF Rest
<1>8. NextPage.at \in {"settle", "fetch"} /\ \A bad, served : [NextPage EXCEPT !.served = served, !.bad = bad].at = NextPage.at
  BY <1>1 DEF NextPage, ToFetch, PassTyped, Passing
<1>9. CASE CommitRow \/ Burn \/ Exhaust
  <2>1. CASE CommitRow
    BY <1>8, <2>1 DEF CommitRow
  <2>2. CASE Burn
    <3>1. pass'.at \in {"idle", "exhaust"}
      BY <1>1, <1>2, <2>2 DEF Burn, PassTyped, Passing
    <3> QED
      BY <2>2, <3>1
  <2>3. CASE Exhaust
    <3>1. [NextPage EXCEPT !.bad = @ + 1].at = NextPage.at /\ [pass EXCEPT !.at = "settle", !.bad = 0].at = "settle"
      BY <1>1 DEF NextPage, PassTyped, Passing
    <3> QED
      BY <1>2, <1>8, <2>3, <3>1 DEF Exhaust
  <2> QED
    BY <1>9, <2>1, <2>2, <2>3
<1>10. CASE StartSweep \/ SweepStep
  <2>1. SweepEnds => pass' = PassOvertaken \/ pass'.at = "plan"
    BY <1>1 DEF SweepEnds, PassTyped, Passing
  <2>2. pass' = PassOvertaken \/ pass'.at = "plan" \/ (pass' = pass /\ state' = state)
    BY <1>10, <2>1 DEF StartSweep, SweepStep, SweepRows, SweepFiles, SweepSettle, SweepRest, SweepOver
  <2>3. (~Rest /\ ~Crash) \/ pass' = NoPass
    BY DEF Rest, Crash
  <2> QED
    BY <1>2, <2>2, <2>3
<1>11. CASE Gestures \/ HandStep \/ World \/ UNCHANGED vars
  <2>1. pass' = PassOvertaken \/ (pass' = pass /\ state' = state)
    BY <1>11 DEF Gestures, TapEnqueue, TapPause, TapResume, TapRetry, TapDelete, TapOnly,
       HandStep, Enqueue, UserSet, Retry, RemoveTree, Release, World, ReaderHeals, Damage, Publish, Expire, vars
  <2>2. (~Rest /\ ~Crash) \/ pass' = NoPass
    BY DEF Rest, Crash
  <2> QED
    BY <1>2, <2>1, <2>2
<1>12. CASE Crash
  BY <1>2, <1>12 DEF Crash
<1> QED
  BY <1>3, <1>4, <1>5, <1>6, <1>7, <1>9, <1>10, <1>11, <1>12 DEF Next, PassStep, Trials

LEMMA SweepComes ==
    ASSUME Typed, [Next]_vars, sweep'.at = "rest"
    PROVE  \/ SweepSettle
           \/ /\ sweep.at = "rest" /\ sweep'.was = sweep.was /\ sweep'.due = sweep.due /\ sweep'.left = sweep.left
              /\ sweep'.by = sweep.by
              /\ sweep' = sweep \/ sweep'.by = "none" \/ ~sweep'.calm
              /\ ~SweepRest /\ ~SweepOver /\ ~Crash
<1>1. SweepTyped
  BY DEF Typed
<1>2. SweepOvertaken.at = sweep.at /\ SweepOvertaken.was = sweep.was /\ SweepOvertaken.due = sweep.due
      /\ SweepOvertaken.left = sweep.left /\ SweepOvertaken.by = sweep.by
      /\ (SweepOvertaken.by = "none" \/ ~SweepOvertaken.calm)
  BY <1>1 DEF SweepOvertaken, SweepTyped, Sweeping
<1>3. \A by, left : [NoSweep EXCEPT !.by = by, !.left = left].at = "rows"
  BY DEF NoSweep
<1>4. NoSweep.at = "rows"
  BY DEF NoSweep
<1>5. ~SweepRest /\ ~SweepOver /\ ~Crash
  BY <1>3, <1>4 DEF SweepRest, SweepOver, SweepEnds, Crash
<1>6. CASE StartSweep \/ Pump \/ SweepRest \/ SweepOver
  <2>1. sweep' = sweep \/ sweep' = NoSweep \/ \E by, left : sweep' = [NoSweep EXCEPT !.by = by, !.left = left]
    BY <1>6 DEF StartSweep, Pump, SweepRest, SweepOver, SweepEnds
  <2> QED
    BY <1>3, <1>4, <1>5, <2>1
<1>7. CASE SweepRows
  BY <1>1, <1>7 DEF SweepRows, SweepTyped, Sweeping
<1>8. CASE SweepFiles
  BY <1>1, <1>8 DEF SweepFiles, SweepTyped, Sweeping
<1>9. CASE PassStep \/ Elapse \/ Trials
  <2>1. sweep' = sweep \/ sweep' = SweepOvertaken
    BY <1>9 DEF PassStep, Plan, Claim, Answer, OpenLanding, WriteFile, CommitRow, CommitFails,
     Burn, Exhaust, Settle, Rest, Elapse, Trials, BadAnswer, WriteFails, Halt
  <2> QED
    BY <1>2, <1>5, <2>1
<1>10. CASE Gestures \/ HandStep \/ World \/ UNCHANGED vars
  <2>1. sweep' = sweep \/ sweep' = SweepOvertaken
    BY <1>10 DEF Gestures, TapEnqueue, TapPause, TapResume, TapRetry, TapDelete, TapOnly, HandStep,
     Enqueue, UserSet, Retry, RemoveTree, Release, World, ReaderHeals, Damage, Publish, Expire, vars
  <2> QED
    BY <1>2, <1>5, <2>1
<1> QED
  BY <1>5, <1>6, <1>7, <1>8, <1>9, <1>10 DEF Next, SweepStep

LEMMA LandingInductive ==
    ASSUME Typed, LandingInv, [Next]_vars
    PROVE  LandingInv'
<1>1. pass'.at \in {"write", "commit"} /\ ~pass'.late => state'[pass'.book] = "downloading"
  BY PassComes DEF LandingInv, MayLand
<1>2. pass'.at = "rest" /\ pass'.was = "paused" => pass'.due = "paused"
  <2>1. CASE Settle
    BY <2>1, SettlePassIs DEF Derived, NoPass
  <2> QED
    BY <2>1, PassComes DEF LandingInv
<1>3. sweep'.at = "rest" /\ sweep'.was = "paused" => sweep'.due = "paused"
  <2>1. CASE SweepSettle
    BY <2>1, SweepSettleIs DEF Derived
  <2> QED
    BY <2>1, SweepComes DEF LandingInv
<1> QED
  BY <1>1, <1>2, <1>3 DEF LandingInv

LEMMA Landings == Spec => []LandingInv
<1>1. Init => LandingInv
  BY DEF Init, LandingInv, NoPass, NoSweep
<1>2. Typed /\ LandingInv /\ [Next]_vars => LandingInv'
  BY LandingInductive
<1> QED
  BY <1>1, <1>2, Types, PTL DEF Spec

\* A step of a gesture moves the hand.
LEMMA HandMoves ==
    ASSUME Enqueue \/ UserSet \/ Retry \/ RemoveTree \/ \E b \in Books : TapDelete(b) \/ TapRetry(b)
    PROVE  hand' # hand
BY DEF Enqueue, UserSet, Retry, RemoveTree, TapDelete, TapRetry, Tap, Release, NoHand

\* A pause is the user's: whatever the pass had read before it, wherever its
\* transaction stood and whatever was lost, no step of the program ends it, and only
\* a sweep adds a page to the book.
THEOREM PauseIsTheUsers == Spec => PauseHolds
<1>1. ASSUME Typed, LandingInv, [Next]_vars, NEW b \in Books, state[b] = "paused", Untouched
      PROVE  /\ state'[b] = "paused"
             /\ sweep.by = "none" => \A p \in Having(b, "complete")' : page[b][p].state = "complete"
  <2>1. ~(Enqueue \/ UserSet \/ Retry \/ RemoveTree \/ TapDelete(b) \/ TapRetry(b))
    BY <1>1, HandMoves DEF Untouched
  <2>2. state'[b] = "paused"
    BY <1>1, <2>1, StateMoves DEF LandingInv, Rest, SweepRest, PassAt, SweepAt
  <2>3. ASSUME sweep.by = "none", NEW p \in Page, page'[b][p].state = "complete"
        PROVE  page[b][p].state = "complete"
    <3>1. ~SweepFiles
      BY <2>3 DEF SweepFiles, SweepAt
    <3>2. ~(CommitRow /\ b = pass.book)
      BY <1>1 DEF LandingInv, CommitRow, PassAt, Commits
    <3>3. page'[b][p] # Pending /\ page'[b][p].state # "failed"
      BY <2>3 DEF Pending
    <3> QED
      BY <1>1, <2>1, <2>3, <3>1, <3>2, <3>3, RowMoves
  <2> QED
    BY <2>2, <2>3 DEF Having
<1>2. Typed /\ LandingInv /\ [Next]_vars =>
        [\A b \in Books : state[b] = "paused" /\ Untouched =>
            /\ state'[b] = "paused"
            /\ sweep.by = "none" => \A p \in Having(b, "complete")' : page[b][p].state = "complete"]_vars
  BY <1>1
<1> QED
  BY <1>2, Types, Landings, PTL DEF Spec, PauseHolds

--------------------------------------------------------------------------------
(* The sweep                                                                 *)

\* A step that leaves a sweep calm is one of its own or moves nothing.
LEMMA CalmStays ==
    ASSUME Typed, [Next]_vars, sweep'.by # "none", sweep'.calm, sweep'.at # "rows"
    PROVE  (sweep' = sweep /\ UNCHANGED <<page, disk, state>>) \/ SweepRows \/ SweepFiles \/ SweepSettle
<1>1. SweepTyped
  BY DEF Typed
<1>2. SweepOvertaken.by = "none" \/ ~SweepOvertaken.calm
  BY <1>1 DEF SweepOvertaken, SweepTyped, Sweeping
<1>3. NoSweep.by = "none" /\ \A by, left : [NoSweep EXCEPT !.by = by, !.left = left].at = "rows"
  BY DEF NoSweep
<1>4. CASE StartSweep \/ Pump \/ SweepRest \/ SweepOver
  <2>1. SweepEnds => sweep' = NoSweep
    BY DEF SweepEnds
  <2>2. CASE StartSweep
    BY <1>3, <2>2 DEF StartSweep
  <2>3. CASE Pump
    <3>1. CASE sweep' = sweep
      BY <2>3, <3>1 DEF Pump
    <3>2. CASE sweep' # sweep
      <4>1. sweep' = [NoSweep EXCEPT !.by = "pass", !.left = line]
        BY <2>3, <3>2 DEF Pump
      <4> QED
        BY <1>3, <4>1
    <3> QED
      BY <3>1, <3>2
  <2>4. CASE SweepRest
    BY <1>3, <2>4 DEF SweepRest
  <2>5. CASE SweepOver
    BY <1>3, <2>1, <2>5 DEF SweepOver
  <2> QED
    BY <1>4, <2>2, <2>3, <2>4, <2>5
<1>5. CASE PassStep \/ Elapse \/ Trials
  <2>1. (sweep' = sweep /\ UNCHANGED <<page, disk, state>>) \/ sweep' = SweepOvertaken
    BY <1>5 DEF PassStep, Plan, Claim, Answer, OpenLanding, WriteFile, CommitRow, CommitFails,
     Burn, Exhaust, Settle, Rest, Elapse, Trials, BadAnswer, WriteFails, Halt
  <2> QED
    BY <1>2, <2>1
<1>6. CASE Gestures \/ HandStep \/ World \/ UNCHANGED vars
  <2>1. (sweep' = sweep /\ UNCHANGED <<page, disk, state>>) \/ sweep' = SweepOvertaken
    BY <1>6 DEF Gestures, TapEnqueue, TapPause, TapResume, TapRetry, TapDelete, TapOnly, HandStep,
     Enqueue, UserSet, Retry, RemoveTree, Release, World, ReaderHeals, Damage, Publish, Expire, vars
  <2> QED
    BY <1>2, <2>1
<1>7. CASE Crash
  BY <1>3, <1>7 DEF Crash
<1> QED
  BY <1>4, <1>5, <1>6, <1>7 DEF Next, SweepStep

LEMMA SweepLeftStays ==
    ASSUME Typed, [Next]_vars, sweep.at # "rows" => sweep.left # <<>>, sweep'.at # "rows"
    PROVE  sweep'.left # <<>>
<1>1. SweepTyped
  BY DEF Typed
<1>2. NoSweep.at = "rows" /\ \A by, left : [NoSweep EXCEPT !.by = by, !.left = left].at = "rows"
  BY DEF NoSweep
<1>3. SweepOvertaken.at = sweep.at /\ SweepOvertaken.left = sweep.left
  BY <1>1 DEF SweepOvertaken, SweepTyped, Sweeping
<1>4. CASE StartSweep \/ Pump \/ SweepRest \/ SweepOver \/ Crash
  <2>1. sweep' = sweep \/ sweep' = NoSweep \/ \E by, left : sweep' = [NoSweep EXCEPT !.by = by, !.left = left]
    BY <1>4 DEF StartSweep, Pump, SweepRest, SweepOver, SweepEnds, Crash
  <2> QED
    BY ZenonT(40), <1>2, <2>1
<1>5. CASE SweepRows \/ SweepFiles
  BY <1>1, <1>5 DEF SweepRows, SweepFiles, SweepAt, SweepTyped, Sweeping
<1>6. CASE SweepSettle
  <2>1. PICK was, due : sweep' = [sweep EXCEPT !.at = "rest", !.was = was, !.due = due]
    BY <1>2, <1>6, Zenon DEF SweepSettle, SweepEnds
  <2> QED
    BY <1>1, <1>6, <2>1 DEF SweepSettle, SweepAt, SweepTyped, Sweeping
<1>7. CASE PassStep \/ Elapse \/ Trials
  <2>1. sweep' = sweep \/ sweep' = SweepOvertaken
    BY <1>7 DEF PassStep, Plan, Claim, Answer, OpenLanding, WriteFile, CommitRow, CommitFails,
     Burn, Exhaust, Settle, Rest, Elapse, Trials, BadAnswer, WriteFails, Halt
  <2> QED
    BY <1>3, <2>1
<1>8. CASE Gestures \/ HandStep \/ World \/ UNCHANGED vars
  <2>1. sweep' = sweep \/ sweep' = SweepOvertaken
    BY <1>8 DEF Gestures, TapEnqueue, TapPause, TapResume, TapRetry, TapDelete, TapOnly, HandStep,
     Enqueue, UserSet, Retry, RemoveTree, Release, World, ReaderHeals, Damage, Publish, Expire, vars
  <2> QED
    BY <1>3, <2>1
<1> QED
  BY <1>4, <1>5, <1>6, <1>7, <1>8 DEF Next, SweepStep

LEMMA HeldInductive ==
    ASSUME Typed, [Next]_vars,
           \A b \in Books, p \in Page : page[b][p].state = "complete" => page[b][p].held
    PROVE  \A b \in Books, p \in Page : page'[b][p].state = "complete" => page'[b][p].held
<1> SUFFICES ASSUME NEW b \in Books, NEW p \in Page, page'[b][p].state = "complete"
             PROVE  page'[b][p].held
  OBVIOUS
<1>1. page[b][p] \in Row \cup {NoRow}
  BY FilesAre DEF Typed
<1>2. Landed(page[b][p]).held /\ Pending.state = "pending" /\ NoRow.state = "none"
  BY <1>1, RowsAre DEF Pending
<1> QED
  BY <1>2, RowMoves

LEMMA SweepInvInductive ==
    ASSUME Typed, SweepInv, [Next]_vars
    PROVE  SweepInv'
<1>1. FilesTyped /\ SweepTyped
  BY DEF Typed
<1>2. \A b \in Books, p \in Page : page[b][p].state = "complete" => page[b][p].held
  BY DEF SweepInv
<1>3. \A b \in Books, p \in Page : page'[b][p].state = "complete" => page'[b][p].held
  BY <1>2, HeldInductive
<1>4. sweep'.at # "rows" => sweep'.left # <<>>
  BY SweepLeftStays DEF SweepInv
<1>5. ASSUME sweep'.by # "none", sweep'.left # <<>>, sweep'.calm, NEW b \in Books, b = Head(sweep'.left)
      PROVE  /\ sweep'.at = "files" => Judged(b)'
             /\ sweep'.at \in {"settle", "rest"} => Settled(b)'
             /\ sweep'.at = "rest" => sweep'.was = state'[b] /\ sweep'.due = Derived(b, TRUE)'
  <2>1. CASE sweep'.at = "rows"
    BY <2>1
  <2>2. CASE sweep' = sweep /\ UNCHANGED <<page, disk, state>>
    <3>1. /\ sweep.at = "files" => Judged(b)
          /\ sweep.at \in {"settle", "rest"} => Settled(b)
          /\ sweep.at = "rest" => sweep.was = state[b] /\ sweep.due = Derived(b, TRUE)
      BY <1>5, <2>2 DEF SweepInv
    <3>2. Judged(b)' = Judged(b) /\ Settled(b)' = Settled(b) /\ Derived(b, TRUE)' = Derived(b, TRUE)
      BY <2>2 DEF Judged, Settled, Whole, Derived, DerivedFromPages, Having
    <3> QED
      BY <2>2, <3>1, <3>2
  <2>3. CASE SweepRows
    <3>1. PICK c \in Books :
           /\ c = Head(sweep.left)
           /\ sweep' = [sweep EXCEPT !.at = "files", !.calm = TRUE, !.judged = {p \in Page : page[c][p].held}]
           /\ \A p \in Page :
                /\ page'[c][p] = IF page[c][p].state = "complete" /\ ~Whole(c, p) THEN Pending ELSE page[c][p]
                /\ disk'[c][p] = IF (page[c][p].state = "complete" /\ ~Whole(c, p))
                                    \/ (page[c][p].state # "complete" /\ page[c][p].held)
                                 THEN Gone ELSE disk[c][p]
      BY <1>1, <2>3, SweepRowsIs
    <3>2. sweep'.at = "files" /\ sweep'.left = sweep.left /\ sweep'.judged = {p \in Page : page[c][p].held}
      BY <1>1, <3>1 DEF SweepTyped, Sweeping
    <3>3. b = c /\ \A p \in Page : p \in sweep'.judged <=> page[c][p].held
      BY <1>5, <3>1, <3>2
    <3>4. Judged(b)'
      <4> SUFFICES ASSUME NEW p \in Page
                   PROVE  IF p \in sweep'.judged
                          THEN IF page'[b][p].state = "complete" THEN disk'[b][p] \in Usable ELSE disk'[b][p] = Gone
                          ELSE page'[b][p].state # "complete"
        BY DEF Judged, Whole
      <4>1. Pending.state = "pending"
        BY DEF Pending
      <4> QED
        BY <1>2, <3>1, <3>3, <4>1 DEF Whole
    <3> QED
      BY <3>2, <3>4
  <2>4. CASE SweepFiles
    <3>1. PICK c \in Books :
           /\ c = Head(sweep.left) /\ sweep.by # "none" /\ sweep.left # <<>> /\ sweep.at = "files"
           /\ sweep' = [sweep EXCEPT !.at = "settle"]
           /\ \A p \in Page :
                /\ page'[c][p] = IF p \notin sweep.judged /\ Whole(c, p) THEN Landed(page[c][p]) ELSE page[c][p]
                /\ disk'[c][p] = IF p \notin sweep.judged /\ ~Whole(c, p) THEN Gone ELSE disk[c][p]
      BY <1>1, <2>4, SweepFilesIs
    <3>2. sweep'.at = "settle" /\ sweep'.left = sweep.left /\ sweep'.calm = sweep.calm
      BY <1>1, <3>1 DEF SweepTyped, Sweeping
    <3>3. b = c /\ Judged(b)
      BY <1>5, <3>1, <3>2 DEF SweepInv
    <3>4. Settled(b)'
      <4> SUFFICES ASSUME NEW p \in Page
                   PROVE  IF page'[b][p].state = "complete" THEN disk'[b][p] \in Usable ELSE disk'[b][p] = Gone
        BY DEF Settled, Whole
      <4>1. page[b][p] \in Row \cup {NoRow}
        BY <1>1, FilesAre
      <4>2. Landed(page[b][p]).state = "complete"
        BY <4>1, RowsAre
      <4> QED
        BY <3>1, <3>3, <4>2 DEF Judged, Whole
    <3> QED
      BY <3>2, <3>4
  <2>5. CASE SweepSettle /\ sweep'.at = "rest"
    <3>1. /\ sweep.by # "none" /\ sweep.left # <<>> /\ sweep.at = "settle" /\ sweep.calm /\ b = Head(sweep.left)
          /\ sweep'.was = state[b] /\ sweep'.due = Derived(b, TRUE) /\ UNCHANGED <<state, page, disk>>
      BY <1>5, <2>5, SweepSettleIs
    <3>2. Settled(b)
      BY <3>1 DEF SweepInv
    <3>3. Settled(b)' = Settled(b) /\ Derived(b, TRUE)' = Derived(b, TRUE)
      BY <3>1 DEF Settled, Whole, Derived, DerivedFromPages, Having
    <3> QED
      BY <2>5, <3>1, <3>2, <3>3
  <2>6. SweepSettle => sweep'.at = "rest" \/ sweep'.by = "none"
    <3> SUFFICES ASSUME SweepSettle
                 PROVE  sweep'.at = "rest" \/ sweep'.by = "none"
      OBVIOUS
    <3>1. \/ SweepEnds
          \/ \E was, due : sweep' = [sweep EXCEPT !.at = "rest", !.was = was, !.due = due]
      BY Zenon DEF SweepSettle
    <3>2. CASE SweepEnds
      BY <3>2 DEF SweepEnds, NoSweep
    <3>3. \A was, due : [sweep EXCEPT !.at = "rest", !.was = was, !.due = due].at = "rest"
      BY <1>1 DEF SweepTyped, Sweeping
    <3> QED
      BY <3>1, <3>2, <3>3
  <2> QED
    BY <1>5, <2>1, <2>2, <2>3, <2>4, <2>5, <2>6, CalmStays
<1>6. (\A b \in Books : sweep.by # "none" /\ sweep.left # <<>> /\ b = Head(sweep.left) /\ sweep.calm =>
        /\ sweep.at = "files" => Judged(b)
        /\ sweep.at \in {"settle", "rest"} => Settled(b)
        /\ sweep.at = "rest" => sweep.was = state[b] /\ sweep.due = Derived(b, TRUE))'
  BY <1>5
<1> QED
  BY <1>3, <1>4, <1>6 DEF SweepInv

\* A sweep nobody disturbed leaves a book whose rows and files agree: a page counts
\* as downloaded exactly when its file is whole, debris is gone, and the book is
\* complete exactly when all its pages are and the user has not paused it.
THEOREM SweepsReconcile == Spec => SweepReconciles
<1>1. Init => SweepInv
  BY DEF Init, SweepInv, NoRow, NoSweep
<1>2. ASSUME Typed, SweepInv, [Next]_vars,
             sweep.by # "none", sweep.at = "rest", sweep'.at = "rows", sweep.calm, Untouched, spent' = spent
      PROVE  Agrees(Head(sweep.left))
  <2>1. SweepTyped /\ FilesTyped /\ LineTyped
    BY <1>2 DEF Typed
  <2>2. PICK b \in Books : b = Head(sweep.left)
    BY <1>2, <2>1 DEF SweepInv, SweepTyped, Sweeping
  <2>3. SweepRest
    <3>1. SweepOvertaken.at = "rest"
      BY <1>2, <2>1 DEF SweepOvertaken, SweepTyped, Sweeping
    <3>2. ~(Pump \/ StartSweep) \/ sweep' = sweep
      BY <1>2 DEF Pump, StartSweep
    <3>3. ~Crash
      BY <1>2, <2>1 DEF Crash, Fault, FilesTyped
    <3>4. PassStep \/ Elapse \/ Trials => sweep' = sweep \/ sweep' = SweepOvertaken
      BY DEF PassStep, Plan, Claim, Answer, OpenLanding, WriteFile, CommitRow, CommitFails,
         Burn, Exhaust, Settle, Rest, Elapse, Trials, BadAnswer, WriteFails, Halt
    <3>5. Gestures \/ HandStep \/ World \/ UNCHANGED vars => sweep' = sweep \/ sweep' = SweepOvertaken
      BY DEF Gestures, TapEnqueue, TapPause, TapResume, TapRetry, TapDelete, TapOnly, HandStep,
         Enqueue, UserSet, Retry, RemoveTree, Release, World, ReaderHeals, Damage, Publish, Expire, vars
    <3>6. ~SweepRows /\ ~SweepFiles /\ ~SweepSettle /\ ~SweepOver
      BY <1>2 DEF SweepRows, SweepFiles, SweepSettle, SweepOver, SweepAt, SweepInv
    <3> QED
      BY <1>2, <3>1, <3>2, <3>3, <3>4, <3>5, <3>6 DEF Next, SweepStep
  <2>4. /\ \A p \in Page : IF page[b][p].state = "complete" THEN Whole(b, p) ELSE disk[b][p] = Gone
        /\ sweep.was = state[b] /\ sweep.due = Derived(b, TRUE)
    BY <1>2, <2>2 DEF SweepInv, Settled
  <2>5. page' = page /\ disk' = disk /\ state'[b] = Derived(b, TRUE)
    BY <2>1, <2>2, <2>3, <2>4 DEF SweepRest, StateIf, LineTyped
  <2>6. /\ Gone \notin Usable /\ Broken \notin Usable /\ Gone # Broken
    BY <2>1, FilesAre
  <2>7. Derived(b, TRUE) = "completed" <=> state[b] # "paused" /\ \A p \in Page : page[b][p].state = "complete"
    BY DEF Derived, DerivedFromPages, Having
  <2> QED
    BY <2>2, <2>4, <2>5, <2>6, <2>7 DEF Agrees, Whole
<1>3. Typed /\ SweepInv /\ [Next]_vars =>
        [sweep.by # "none" /\ sweep.at = "rest" /\ sweep'.at = "rows" /\ sweep.calm /\ Untouched
         /\ spent' = spent => Agrees(Head(sweep.left))]_vars
  BY <1>2
<1>4. Typed /\ SweepInv /\ [Next]_vars => SweepInv'
  BY SweepInvInductive
<1> QED
  BY <1>1, <1>3, <1>4, Types, PTL DEF Spec, SweepReconciles

--------------------------------------------------------------------------------
(* What was fetched                                                          *)

\* Once a pass has planned, its pages only become fewer, and the one that lands is
\* done.
LEMMA JobsShrink ==
    ASSUME Typed, [Next]_vars, pass'.at \in {"claim"} \cup AtPage
    PROVE  \/ \E from \in Page : Plan(from) /\ pass'.jobs \subseteq Candidates(pass'.book) /\ page' = page
           \/ /\ pass.at \in {"claim"} \cup AtPage /\ pass'.book = pass.book /\ pass'.jobs \subseteq pass.jobs
              /\ CommitRow => Job \notin pass'.jobs
<1>1. PassTyped
  BY DEF Typed
<1>2. NoPass.at = "idle" /\ PassOvertaken.at = pass.at /\ PassOvertaken.book = pass.book
      /\ PassOvertaken.jobs = pass.jobs
  BY <1>1 DEF PassOvertaken, PassTyped, Passing, NoPass
<1>3. ~(Pump \/ Settle \/ Rest \/ CommitFails \/ WriteFails \/ Crash)
      /\ \A what \in {"down", "gone", "blocked"} : ~Halt(what)
  <2>1. ~(Pump \/ Rest \/ CommitFails \/ WriteFails \/ Crash)
    BY <1>1, <1>2 DEF Pump, Rest, CommitFails, WriteFails, Crash, NoPass, PassTyped, Passing, AtPage
  <2>2. ~Settle
    BY <1>2, SettlePassIs DEF AtPage
  <2>3. ASSUME NEW what, Halt(what)
        PROVE  FALSE
    <3>1. pass'.at = "settle"
      BY <1>1, <2>3 DEF Halt, PassTyped, Passing
    <3> QED
      BY <3>1 DEF AtPage
  <2> QED
    BY <2>1, <2>2, <2>3
<1>4. ASSUME NEW from \in Page, Plan(from)
      PROVE  pass'.jobs \subseteq Candidates(pass'.book) /\ page' = page
  <2> DEFINE ready == Resumable \ parked
             b == FirstOf(ready)
             jobs == Jobs(b, from)
  <2>1. ready # {}
    BY <1>2, <1>4 DEF Plan, AtPage
  <2>2. PICK at : at = IF state[b] = "waiting" THEN "claim" ELSE ToFetch(jobs)
    OBVIOUS
  <2>3. pass' = [pass EXCEPT !.book = b, !.jobs = jobs, !.from = from, !.at = at] /\ page' = page
    BY <1>4, <2>1, <2>2 DEF Plan
  <2>4. jobs \subseteq Candidates(b)
    BY DEF Jobs
  <2> HIDE DEF ready, b, jobs
  <2>5. pass'.book = b /\ pass'.jobs = jobs
    BY <1>1, <2>3 DEF PassTyped, Passing
  <2> QED
    BY <2>3, <2>4, <2>5
<1>5. CASE Claim \/ Elapse \/ Answer \/ BadAnswer \/ OpenLanding \/ WriteFile
  <2>1. ~CommitRow /\ pass.at \in {"claim"} \cup AtPage
    BY <1>5 DEF Claim, Elapse, Answer, BadAnswer, OpenLanding, WriteFile, CommitRow, PassAt, AtPage
  <2>2. pass' = NoPass \/ (pass'.book = pass.book /\ pass'.jobs = pass.jobs)
    BY <1>1, <1>5 DEF Claim, Elapse, Answer, BadAnswer, OpenLanding, WriteFile, PassTyped, Passing
  <2> QED
    BY <1>2, <2>1, <2>2 DEF AtPage
<1>6. CASE CommitRow \/ Burn \/ Exhaust
  <2>1. pass.at \in AtPage
    BY <1>6 DEF CommitRow, Burn, Exhaust, PassAt, AtPage
  <2>2. \A bad, served : [NextPage EXCEPT !.served = served, !.bad = bad].book = pass.book
                         /\ [NextPage EXCEPT !.served = served, !.bad = bad].jobs = pass.jobs \ {Job}
    BY <1>1 DEF NextPage, PassTyped, Passing
  <2>3. [NextPage EXCEPT !.bad = @ + 1].book = pass.book /\ [NextPage EXCEPT !.bad = @ + 1].jobs = pass.jobs \ {Job}
    BY <1>1 DEF NextPage, PassTyped, Passing
  <2>4. [pass EXCEPT !.at = "exhaust"].book = pass.book /\ [pass EXCEPT !.at = "exhaust"].jobs = pass.jobs
        /\ [pass EXCEPT !.at = "settle", !.bad = 0].at = "settle"
    BY <1>1 DEF PassTyped, Passing
  <2>5. CASE CommitRow
    BY <2>1, <2>2, <2>5 DEF CommitRow
  <2>6. CASE ~CommitRow
    <3>1. pass' = NoPass \/ pass' = [NextPage EXCEPT !.bad = @ + 1] \/ pass' = [pass EXCEPT !.at = "exhaust"]
          \/ pass' = [pass EXCEPT !.at = "settle", !.bad = 0]
      BY <1>6, <2>6 DEF Burn, Exhaust
    <3> QED
      BY <1>2, <2>1, <2>3, <2>4, <2>6, <3>1 DEF AtPage
  <2> QED
    BY <2>5, <2>6
<1>7. CASE StartSweep \/ SweepStep
  <2>1. SweepEnds => pass' = PassOvertaken \/ pass'.at = "plan"
    BY <1>1 DEF SweepEnds, PassTyped, Passing
  <2>2. pass' = PassOvertaken \/ pass'.at = "plan" \/ pass' = pass
    BY <1>7, <2>1 DEF StartSweep, SweepStep, SweepRows, SweepFiles, SweepSettle, SweepRest, SweepOver
  <2>3. CASE CommitRow
    BY <1>6, <2>3
  <2> QED
    BY <1>2, <2>2, <2>3 DEF AtPage
<1>8. CASE Gestures \/ HandStep \/ World \/ UNCHANGED vars
  <2>1. pass' = PassOvertaken \/ pass' = pass
    BY <1>8 DEF Gestures, TapEnqueue, TapPause, TapResume, TapRetry, TapDelete, TapOnly,
       HandStep, Enqueue, UserSet, Retry, RemoveTree, Release, World, ReaderHeals, Damage, Publish, Expire, vars
  <2>2. CASE CommitRow
    BY <1>6, <2>2
  <2> QED
    BY <1>2, <2>1, <2>2
<1> QED
  BY <1>3, <1>4, <1>5, <1>6, <1>7, <1>8 DEF Next, PassStep, Trials

LEMMA TurnsInductive ==
    ASSUME Typed, TurnsInv, [Next]_vars, "list" \notin Rough
    PROVE  TurnsInv'
<1>1. PassTyped /\ SweepTyped /\ FilesTyped
  BY DEF Typed
<1>2. sweep'.by # "none" => pass'.at \in {"idle", "sweep"}
  <2> SUFFICES ASSUME sweep'.by # "none"
               PROVE  pass'.at \in {"idle", "sweep"}
    OBVIOUS
  <2>1. NoPass.at = "idle" /\ PassOvertaken.at = pass.at /\ SweepOvertaken.by = sweep.by /\ NoSweep.by = "none"
    BY <1>1 DEF PassOvertaken, SweepOvertaken, PassTyped, Passing, SweepTyped, Sweeping, NoPass, NoSweep
  <2>2. CASE Pump
    BY <2>2 DEF Pump, NoPass
  <2>3. CASE StartSweep
    BY <2>3 DEF StartSweep
  <2>4. CASE sweep.by # "none" /\ (pass' = pass \/ pass' = PassOvertaken \/ pass' = NoPass)
    BY <2>1, <2>4 DEF TurnsInv
  <2>5. CASE PassStep \/ Elapse \/ Trials
    <3>1. pass.at \notin {"idle", "sweep"}
      BY <2>5 DEF PassStep, Plan, Claim, Answer, OpenLanding, WriteFile, CommitRow, CommitFails,
         Burn, Exhaust, Settle, Rest, Elapse, Trials, BadAnswer, WriteFails, Halt, PassAt
    <3>2. sweep' = sweep \/ sweep' = SweepOvertaken
      BY <2>5 DEF PassStep, Plan, Claim, Answer, OpenLanding, WriteFile, CommitRow, CommitFails,
         Burn, Exhaust, Settle, Rest, Elapse, Trials, BadAnswer, WriteFails, Halt
    <3> QED
      BY <2>1, <3>1, <3>2 DEF TurnsInv
  <2>6. CASE SweepStep
    <3>1. ~SweepEnds
      BY <2>1 DEF SweepEnds
    <3>2. (pass' = pass \/ pass' = PassOvertaken) /\ sweep.by # "none"
      BY <2>6, <3>1 DEF SweepStep, SweepRows, SweepFiles, SweepSettle, SweepRest, SweepOver, SweepAt
    <3> QED
      BY <2>4, <3>2
  <2>7. CASE Gestures \/ HandStep \/ World \/ UNCHANGED vars
    <3>1. (pass' = pass \/ pass' = PassOvertaken) /\ (sweep' = sweep \/ sweep' = SweepOvertaken)
      BY <2>7 DEF Gestures, TapEnqueue, TapPause, TapResume, TapRetry, TapDelete, TapOnly, HandStep,
         Enqueue, UserSet, Retry, RemoveTree, Release, World, ReaderHeals, Damage, Publish, Expire, vars
    <3> QED
      BY <2>1, <2>4, <3>1
  <2>8. CASE Crash
    BY <2>1, <2>8 DEF Crash
  <2> QED
    BY <2>2, <2>3, <2>5, <2>6, <2>7, <2>8 DEF Next
<1>3. ASSUME pass'.at \in {"claim"} \cup AtPage, NEW p \in pass'.jobs
      PROVE  page'[pass'.book][p].state # "complete"
  <2>1. PassTyped'
    BY PassInductive
  <2>2. PICK b \in Books : b = pass'.book
    BY <1>3, <2>1 DEF PassTyped, AtPage
  <2>3. p \in Page
    BY <1>3, <2>1 DEF PassTyped, Passing
  <2>4. CASE \E from \in Page : Plan(from) /\ pass'.jobs \subseteq Candidates(pass'.book) /\ page' = page
    BY <2>4 DEF Candidates, Having
  <2>5. CASE /\ pass.at \in {"claim"} \cup AtPage /\ pass'.book = pass.book /\ pass'.jobs \subseteq pass.jobs
             /\ CommitRow => Job \notin pass'.jobs
    <3>1. page[b][p].state # "complete"
      BY <2>2, <2>5 DEF TurnsInv
    <3>2. ~(CommitRow /\ p = Job)
      BY <2>5
    <3>3. ~SweepFiles
      BY <2>5 DEF TurnsInv, SweepFiles, SweepAt, AtPage
    <3>4. Pending.state = "pending" /\ NoRow.state = "none"
      BY DEF Pending, NoRow
    <3> QED
      BY <2>2, <2>3, <3>1, <3>2, <3>3, <3>4, RowMoves
  <2> QED
    BY <1>3, <2>4, <2>5, JobsShrink
<1> QED
  BY <1>2, <1>3 DEF TurnsInv

\* What was fetched is not lost: while a sweep and a pass take turns, no step of
\* either touches a whole page of a download, or deletes a whole file whose row was
\* lost; the user and the device do.  A sweep beside a pass ("list") takes such a
\* file away between its landing and its row.
THEOREM FetchedIsKept ==
    ASSUME "list" \notin Rough
    PROVE  Spec => DownloadsAreKept
<1>1. Init => TurnsInv
  BY DEF Init, TurnsInv, NoPass, NoSweep, AtPage
<1>2. Typed /\ TurnsInv /\ [Next]_vars => TurnsInv'
  BY TurnsInductive
<1>3. ASSUME Typed, TurnsInv, [Next]_vars, NEW b \in Books, NEW p \in Page,
             Whole(b, p), state[b] # "none", spent' = spent, Untouched
      PROVE  /\ page[b][p].state = "complete" => page'[b][p].state = "complete" /\ disk'[b][p] = disk[b][p]
             /\ page[b][p].state = "pending" /\ ~page[b][p].held => disk'[b][p] \in Usable
  <2>1. PassTyped /\ FilesTyped
    BY <1>3 DEF Typed
  <2>2. ~(Enqueue \/ UserSet \/ Retry \/ RemoveTree \/ TapDelete(b) \/ TapRetry(b))
    BY <1>3, HandMoves DEF Untouched
  <2>3. ASSUME NEW what, Fault(what)
        PROVE  FALSE
    <3>1. spent.faults \in 0 .. MaxFaults /\ [spent EXCEPT !.faults = @ + 1].faults = spent.faults + 1
      BY <2>1 DEF FilesTyped
    <3>2. spent.faults + 1 = spent.faults
      BY <1>3, <2>3, <3>1 DEF Fault
    <3> QED
      BY <3>1, <3>2
  <2>4. ~ReaderHeals(b, p) /\ \A to : ~Damage(b, p, to)
    BY <1>3, <2>3 DEF ReaderHeals, Damage
  <2>5. WriteFile \/ Exhaust \/ CommitRow => page[pass.book][Job].state # "complete"
    <3>1. WriteFile \/ Exhaust \/ CommitRow => pass.at \in AtPage
      BY DEF WriteFile, Exhaust, CommitRow, PassAt, AtPage
    <3>2. pass.at \in AtPage => Job \in pass.jobs
      BY <2>1, JobIsDue DEF PassTyped, Passing
    <3> QED
      BY <1>3, <3>1, <3>2 DEF TurnsInv
  <2>6. WriteFile => pass.got \in Usable
    BY <2>1 DEF WriteFile, PassAt, PassTyped
  <2>7. page[b][p] \in Row \cup {NoRow}
    BY <2>1, FilesAre
  <2>8. page[b][p].state = "complete" => page'[b][p].state = "complete"
    BY <1>3, <2>2, <2>4, <2>5, <2>7, RowMoves, RowsAre
  <2>9. page[b][p].state = "complete" => disk'[b][p] = disk[b][p]
    BY <1>3, <2>2, <2>4, <2>5, FileMoves
  <2>10. page[b][p].state = "pending" /\ ~page[b][p].held => disk'[b][p] \in Usable
    BY <1>3, <2>2, <2>4, <2>6, FileMoves DEF Whole
  <2> QED
    BY <2>8, <2>9, <2>10
<1>4. Typed /\ TurnsInv /\ [Next]_vars =>
        [\A b \in Books, p \in Page :
            Whole(b, p) /\ state[b] # "none" /\ spent' = spent /\ Untouched =>
            /\ page[b][p].state = "complete" => page'[b][p].state = "complete" /\ disk'[b][p] = disk[b][p]
            /\ page[b][p].state = "pending" /\ ~page[b][p].held => disk'[b][p] \in Usable]_vars
  BY <1>3
<1> QED
  BY <1>1, <1>2, <1>4, Types, PTL DEF Spec, DownloadsAreKept

--------------------------------------------------------------------------------
(* The table                                                                 *)

\* While a gesture is between its two steps nothing else happens.
LEMMA HandAlone ==
    ASSUME [Next]_vars, "race" \notin Rough, hand.kind # "none"
    PROVE  HandStep \/ Crash \/ UNCHANGED vars
<1>1. ~MayCome
  BY DEF MayCome
<1>2. ~(PassStep \/ Pump \/ Elapse \/ Trials \/ SweepStep \/ StartSweep)
  BY <1>1 DEF PassStep, Plan, Claim, Answer, OpenLanding, WriteFile, CommitRow, CommitFails, Burn, Exhaust,
     Settle, Rest, Pump, Elapse, Trials, BadAnswer, WriteFails, Halt, PassAt,
     StartSweep, SweepStep, SweepRows, SweepFiles, SweepSettle, SweepRest, SweepOver, SweepAt
<1>3. ~(Gestures \/ World)
  BY <1>1 DEF Gestures, TapEnqueue, TapPause, TapResume, TapRetry, TapDelete, TapOnly, Tap,
     World, ReaderHeals, Damage, Publish, Expire
<1> QED
  BY <1>2, <1>3 DEF Next

\* A page is taken back by a sweep, the reader or the user, and appears only by
\* landing or adoption.
LEMMA CompletesMove ==
    ASSUME Typed, TurnsInv, [Next]_vars, NEW b \in Books, NEW p \in Page
    PROVE  /\ page[b][p].state = "complete" /\ page'[b][p].state # "complete" =>
                SweepRows \/ TapDelete(b) \/ ReaderHeals(b, p) \/ (Enqueue /\ b = hand.book)
           /\ page[b][p].state # "complete" /\ page'[b][p].state = "complete" =>
                (CommitRow /\ b = pass.book) \/ SweepFiles
<1>1. PassTyped /\ page[b][p] \in Row \cup {NoRow}
  BY FilesAre DEF Typed
<1>2. Landed(page[b][p]).state = "complete" /\ Pending.state = "pending" /\ NoRow.state = "none"
  BY <1>1, RowsAre DEF Pending
<1>3. Exhaust => page[pass.book][Job].state # "complete"
  <2>1. Exhaust => pass.at \in AtPage
    BY DEF Exhaust, PassAt, AtPage
  <2>2. pass.at \in AtPage => Job \in pass.jobs
    BY <1>1, JobIsDue DEF PassTyped, Passing
  <2> QED
    BY <2>1, <2>2 DEF TurnsInv
<1> QED
  BY <1>2, <1>3, RowMoves

LEMMA NoneTogetherInductive ==
    ASSUME Typed, LandingInv, NoneTogether, LeftInv, HandInv, [Next]_vars, "race" \notin Rough
    PROVE  NoneTogether'
<1> SUFFICES ASSUME NEW b \in Books, NEW p \in Page
             PROVE  page'[b][p].state = "none" <=> state'[b] = "none"
  BY DEF NoneTogether
<1>1. PassTyped /\ SweepTyped /\ FilesTyped /\ page[b][p] \in Row \cup {NoRow} /\ page'[b][p] \in Row \cup {NoRow}
  BY FilesAre, FilesInductive DEF Typed, FilesTyped
<1>2. Landed(page[b][p]).state = "complete" /\ Pending.state = "pending" /\ NoRow.state = "none"
  BY <1>1, RowsAre DEF Pending
<1>3. page[b][p].state = "none" <=> state[b] = "none"
  BY DEF NoneTogether
<1>4. CASE TapDelete(b)
  BY ZenonT(40), <1>2, <1>4, GesturesPagesAre, StateMoves DEF TapDelete, Typed, LineTyped
<1>5. CASE Enqueue /\ b = hand.book
  <2>1. page'[b][p] = Pending
    BY <1>5, GesturesPagesAre
  <2>2. state'[b] = "waiting"
    BY <1>5 DEF Enqueue, Typed, LineTyped
  <2> QED
    BY <1>2, <2>1, <2>2
<1>6. CASE ~TapDelete(b) /\ ~(Enqueue /\ b = hand.book)
  <2>1. state'[b] = "none" <=> state[b] = "none"
    BY <1>1, <1>6, StateMoves DEF PassTyped, SweepTyped, Rest, SweepRest, PassAt, SweepAt, UserSet, HandInv
  <2>2. page'[b][p].state = "none" => page[b][p].state = "none"
    BY <1>2, <1>6, RowMoves
  <2>3. ~(CommitRow /\ b = pass.book /\ state[b] = "none")
    BY DEF LandingInv, CommitRow, PassAt, Commits
  <2>4. ~(SweepFiles /\ b = Head(sweep.left) /\ Whole(b, p) /\ state[b] = "none")
    <3> SUFFICES ASSUME SweepFiles, b = Head(sweep.left), Whole(b, p), state[b] = "none"
                 PROVE  FALSE
      OBVIOUS
    <3>1. sweep.left # <<>> /\ hand.kind = "none"
      BY DEF SweepFiles, SweepAt, MayCome
    <3>2. b \in Range(sweep.left)
      BY <1>1, <3>1 DEF SweepTyped, Sweeping, Range
    <3> QED
      BY <1>1, <3>1, <3>2, FilesAre DEF LeftInv, Whole
  <2>5. page[b][p].state = "none" => page'[b][p].state = "none"
    BY <1>2, <1>3, <1>6, <2>3, <2>4, RowMoves DEF ReaderHeals
  <2> QED
    BY <1>3, <2>1, <2>2, <2>5
<1> QED
  BY <1>4, <1>5, <1>6

\* The books a sweep has yet to come to are among those it began with.
LEMMA LeftShrinks ==
    ASSUME Typed, [Next]_vars
    PROVE  \/ sweep'.left = line /\ UNCHANGED <<state, disk, hand>> /\ sweep'.by # "none"
           \/ Range(sweep'.left) \subseteq Range(sweep.left) /\ sweep'.by = sweep.by
           \/ sweep'.left = <<>>
<1>1. SweepTyped
  BY DEF Typed
<1>2. SweepOvertaken.left = sweep.left /\ SweepOvertaken.by = sweep.by /\ NoSweep.left = <<>>
  BY <1>1 DEF SweepOvertaken, SweepTyped, Sweeping, NoSweep
<1>3. CASE Pump \/ StartSweep
  <2>1. /\ UNCHANGED <<state, disk, hand>>
        /\ sweep' = sweep \/ \E by \in {"pass", "list"} : sweep' = [NoSweep EXCEPT !.by = by, !.left = line]
    BY <1>3 DEF Pump, StartSweep
  <2>2. \A by \in {"pass", "list"} :
          [NoSweep EXCEPT !.by = by, !.left = line].left = line /\ [NoSweep EXCEPT !.by = by, !.left = line].by # "none"
    BY DEF NoSweep
  <2>3. CASE sweep' = sweep
    BY <2>3
  <2>4. CASE sweep' # sweep
    <3>1. PICK by \in {"pass", "list"} : sweep' = [NoSweep EXCEPT !.by = by, !.left = line]
      BY <2>1, <2>4
    <3>2. sweep'.left = line /\ sweep'.by # "none"
      BY <2>2, <3>1
    <3> QED
      BY <2>1, <3>2
  <2> QED
    BY <2>3, <2>4
<1>4. CASE SweepRows \/ SweepFiles
  <2>1. sweep'.left = sweep.left /\ sweep'.by = sweep.by
    BY <1>1, <1>4 DEF SweepRows, SweepFiles, SweepTyped, Sweeping
  <2> QED
    BY <2>1
<1>5. CASE SweepSettle
  <2>1. \/ SweepEnds
        \/ \E was, due : sweep' = [sweep EXCEPT !.at = "rest", !.was = was, !.due = due]
    BY <1>5, Zenon DEF SweepSettle
  <2>2. CASE SweepEnds
    BY <1>2, <2>2 DEF SweepEnds
  <2>3. CASE ~SweepEnds
    <3>1. PICK was, due : sweep' = [sweep EXCEPT !.at = "rest", !.was = was, !.due = due]
      BY <2>1, <2>3
    <3>2. sweep'.left = sweep.left /\ sweep'.by = sweep.by
      BY <1>1, <3>1 DEF SweepTyped, Sweeping
    <3> QED
      BY <3>2
  <2> QED
    BY <2>2, <2>3
<1>6. CASE SweepRest
  <2>1. sweep.left \in Seq(Books) /\ sweep.left # <<>>
    BY <1>1, <1>6 DEF SweepRest, SweepAt, SweepTyped, Sweeping
  <2>2. Range(Tail(sweep.left)) \subseteq Range(sweep.left)
    BY <2>1 DEF Range
  <2>3. sweep'.left = Tail(sweep.left) /\ sweep'.by = sweep.by
    BY <1>6 DEF SweepRest, NoSweep
  <2> QED
    BY <2>2, <2>3
<1>7. CASE SweepOver \/ Crash
  BY <1>2, <1>7 DEF SweepOver, SweepEnds, Crash
<1>8. CASE PassStep \/ Elapse \/ Trials
  <2>1. sweep' = sweep \/ sweep' = SweepOvertaken
    BY <1>8 DEF PassStep, Plan, Claim, Answer, OpenLanding, WriteFile, CommitRow, CommitFails,
     Burn, Exhaust, Settle, Rest, Elapse, Trials, BadAnswer, WriteFails, Halt
  <2> QED
    BY <1>2, <2>1
<1>9. CASE Gestures \/ HandStep \/ World \/ UNCHANGED vars
  <2>1. sweep' = sweep \/ sweep' = SweepOvertaken
    BY <1>9 DEF Gestures, TapEnqueue, TapPause, TapResume, TapRetry, TapDelete, TapOnly, HandStep,
     Enqueue, UserSet, Retry, RemoveTree, Release, World, ReaderHeals, Damage, Publish, Expire, vars
  <2> QED
    BY <1>2, <2>1
<1> QED
  BY <1>3, <1>4, <1>5, <1>6, <1>7, <1>8, <1>9 DEF Next, SweepStep

LEMMA LeftInductive ==
    ASSUME Typed, TurnsInv, LeftInv, [Next]_vars, "race" \notin Rough
    PROVE  LeftInv'
<1>1. FilesTyped /\ LineTyped /\ SweepTyped /\ PassTyped /\ HandTyped /\ SweepTyped'
  BY SweepInductive DEF Typed
<1> SUFFICES ASSUME NEW b \in Range(sweep'.left)
             PROVE  /\ sweep'.by # "none"
                    /\ state'[b] = "none" =>
                         (hand'.kind = "delete" /\ hand'.book = b) \/ \A p \in Page : disk'[b][p] = Gone
  BY DEF LeftInv
<1>2. b \in Books
  BY <1>1 DEF SweepTyped, Sweeping, Range
<1>3. CASE sweep'.left = line /\ UNCHANGED <<state, disk, hand>> /\ sweep'.by # "none"
  BY <1>1, <1>2, <1>3 DEF LineTyped
<1>4. CASE sweep'.left = <<>>
  BY <1>4 DEF Range
<1>5. CASE b \in Range(sweep.left) /\ sweep'.by = sweep.by
  <2>1. sweep.by # "none"
    BY <1>5 DEF LeftInv
  <2>2. CASE state'[b] # "none"
    BY <1>5, <2>1, <2>2
  <2>3. CASE TapDelete(b)
    BY <1>5, <2>1, <2>3 DEF TapDelete, Tap
  <2>4. CASE state[b] = "none" /\ hand.kind = "delete" /\ hand.book = b /\ ~Crash
    <3>1. HandStep \/ UNCHANGED vars
      BY <2>4, HandAlone
    <3>2. HandStep => RemoveTree
      BY <2>4 DEF HandStep, Enqueue, UserSet, Retry
    <3>3. RemoveTree => \A p \in Page : disk'[b][p] = Gone
      BY <2>4, GesturesPagesAre
    <3> QED
      BY <1>5, <2>1, <2>4, <3>1, <3>2, <3>3 DEF vars
  <2>5. CASE Crash
    BY <1>5, <2>1, <2>5 DEF Crash, NoSweep
  <2>6. CASE state[b] = "none" /\ \A p \in Page : disk[b][p] = Gone
    <3>1. \A p \in Page : ~Whole(b, p)
      BY <1>1, <2>6, FilesAre DEF Whole
    <3>2. ~WriteFile
      BY <2>1 DEF TurnsInv, WriteFile, PassAt
    <3>3. \A p \in Page : disk'[b][p] = Gone
      BY <1>2, <2>6, <3>1, <3>2, FileMoves DEF Damage
    <3> QED
      BY <1>5, <2>1, <3>3
  <2>7. CASE state[b] # "none" /\ state'[b] = "none" /\ ~TapDelete(b)
    BY <1>1, <1>2, <2>7, StateMoves DEF PassTyped, SweepTyped, Rest, SweepRest, PassAt, SweepAt
  <2> QED
    BY <1>5, <2>2, <2>3, <2>4, <2>5, <2>6, <2>7 DEF LeftInv
<1> QED
  BY <1>3, <1>4, <1>5, LeftShrinks

LEMMA HandInvInductive ==
    ASSUME Typed, HandInv, [Next]_vars, "race" \notin Rough
    PROVE  HandInv'
<1>1. CASE hand.kind # "none"
  <2>1. HandStep \/ Crash => hand' = NoHand
    BY DEF HandStep, Enqueue, UserSet, Retry, RemoveTree, Release, Crash
  <2> QED
    BY <1>1, <2>1, HandAlone DEF HandInv, NoHand, vars
<1>2. CASE hand.kind = "none"
  <2>1. hand' = hand \/ hand' = NoHand \/ Gestures
    <3>1. PassStep \/ Pump \/ Elapse => hand' = hand
      BY DEF PassStep, Plan, Claim, Answer, OpenLanding, WriteFile, CommitRow, CommitFails, Burn, Exhaust,
         Settle, Rest, Pump, Elapse
    <3>2. Trials \/ StartSweep \/ SweepStep \/ World => hand' = hand
      BY DEF Trials, BadAnswer, WriteFails, Halt, StartSweep, SweepStep, SweepRows, SweepFiles,
         SweepSettle, SweepRest, SweepOver, World, ReaderHeals, Damage, Publish, Expire
    <3>3. HandStep \/ Crash => hand' = NoHand
      BY DEF HandStep, Enqueue, UserSet, Retry, RemoveTree, Release, Crash
    <3> QED
      BY <3>1, <3>2, <3>3 DEF Next, vars
  <2>2. CASE Gestures
    BY <2>2 DEF Gestures, TapEnqueue, TapPause, TapResume, TapRetry, TapDelete, TapOnly, Tap, MayQueue, HandInv
  <2> QED
    BY <1>2, <2>1, <2>2 DEF HandInv, NoHand
<1> QED
  BY <1>1, <1>2

\* What a settling may be left with: the rows of a book that is full stay complete
\* between what it reads and what it writes.
LEMMA FullStays ==
    ASSUME Typed, TurnsInv, [Next]_vars, "race" \notin Rough, "list" \notin Rough, hand.kind # "enqueue",
           pass.at = "rest" \/ (sweep.by # "none" /\ sweep.at = "rest"), NEW b \in Books
    PROVE  /\ state[b] = "none" \/ Full(b) => state'[b] = "none" \/ Full(b)'
           /\ sweep.by # "none" /\ ~Full(b) => ~Full(b)'
<1>1. ~SweepRows /\ ~SweepFiles
  BY DEF TurnsInv, SweepRows, SweepFiles, SweepAt
<1>2. \A p \in Page : ~ReaderHeals(b, p)
  <2>1. ASSUME NEW p \in Page, ReaderHeals(b, p)
        PROVE  sweep.at = "rest" /\ pass.at # "rest" /\ MayTakeBack
    BY <2>1 DEF ReaderHeals, MayTakeBack
  <2> QED
    BY <2>1 DEF MayTakeBack
<1>3. TapDelete(b) => state'[b] = "none"
  BY DEF TapDelete, Typed, LineTyped
<1>4. state[b] = "none" => state'[b] = "none"
  <2>1. ~Enqueue
    BY DEF Enqueue
  <2>2. PassTyped /\ SweepTyped /\ HandTyped
    BY DEF Typed
  <2> QED
    BY <2>1, <2>2, StateMoves DEF PassTyped, SweepTyped, HandTyped, Rest, SweepRest, PassAt, SweepAt, UserSet
<1>5. Full(b) => state'[b] = "none" \/ Full(b)'
  BY <1>1, <1>2, <1>3, CompletesMove DEF Full, Enqueue
<1>6. sweep.by # "none" => ~CommitRow
  BY DEF TurnsInv, CommitRow, PassAt
<1>7. sweep.by # "none" /\ ~Full(b) => ~Full(b)'
  BY <1>1, <1>6, CompletesMove DEF Full
<1> QED
  BY <1>4, <1>5, <1>7

\* A gesture that starts a download over waits for a settling.
LEMMA EnqueueWaits ==
    ASSUME [Next]_vars, "race" \notin Rough, hand.kind # "enqueue", hand'.kind = "enqueue"
    PROVE  pass.at # "rest" /\ sweep.at # "rest" /\ UNCHANGED <<pass, sweep>>
<1>1. HandStep \/ Crash => hand'.kind = "none"
  BY DEF HandStep, Enqueue, UserSet, Retry, RemoveTree, Release, Crash, NoHand
<1>2. ~(PassStep \/ Pump \/ Elapse)
  BY DEF PassStep, Plan, Claim, Answer, OpenLanding, WriteFile, CommitRow, CommitFails, Burn, Exhaust,
     Settle, Rest, Pump, Elapse
<1>3. ~(Trials \/ StartSweep \/ SweepStep \/ World \/ UNCHANGED vars)
  BY DEF Trials, BadAnswer, WriteFails, Halt, StartSweep, SweepStep, SweepRows, SweepFiles,
     SweepSettle, SweepRest, SweepOver, World, ReaderHeals, Damage, Publish, Expire, vars
<1>4. Gestures => MayTakeBack /\ UNCHANGED <<pass, sweep>>
  BY DEF Gestures, TapEnqueue, TapPause, TapResume, TapRetry, TapDelete, TapOnly, Tap
<1> QED
  BY <1>1, <1>2, <1>3, <1>4 DEF Next, MayTakeBack

LEMMA DerivedIs ==
    ASSUME NEW b \in Books
    PROVE  /\ DerivedFromPages(b) \in {"completed", "failed", "waiting"}
           /\ DerivedFromPages(b) = "completed" <=> Full(b)
BY DEF DerivedFromPages, Full, Having

LEMMA PassSettlesInductive ==
    ASSUME Typed, TurnsInv, HandInv, PassSettles, [Next]_vars, "race" \notin Rough, "list" \notin Rough
    PROVE  PassSettles'
<1> SUFFICES ASSUME pass'.at = "rest", NEW b \in Books, b = pass'.book
             PROVE  /\ hand'.kind # "enqueue"
                    /\ pass'.due = pass'.was \/ <<pass'.was, pass'.due>> \in SettleMoves \ {<<"completed", "waiting">>}
                    /\ pass'.due = "completed" /\ pass'.was # "completed" => state'[b] = "none" \/ Full(b)'
  <2>1. pass'.at = "rest" => pass'.book \in Books
    BY PassInductive DEF PassTyped
  <2> QED
    BY <2>1 DEF PassSettles
<1>1. CASE Settle
  <2>1. pass' # NoPass
    BY DEF NoPass
  <2>2. /\ b = pass.book /\ pass'.was = state[b] /\ pass'.due = Derived(b, FALSE) /\ state[b] # "none"
        /\ hand' = hand /\ MayCome /\ page' = page /\ state' = state
    BY <1>1, <2>1, SettlePassIs
  <2>3. state[b] \in BookState /\ hand.kind = "none"
    BY <2>2 DEF Typed, LineTyped, MayCome
  <2>4. Derived(b, FALSE) = IF state[b] \in {"paused", "completed"} THEN state[b] ELSE DerivedFromPages(b)
    BY DEF Derived
  <2>5. Derived(b, FALSE) = state[b]
        \/ <<state[b], Derived(b, FALSE)>> \in SettleMoves \ {<<"completed", "waiting">>}
    BY <2>3, <2>4, DerivedIs DEF SettleMoves, BookState
  <2>6. Derived(b, FALSE) = "completed" /\ state[b] # "completed" => Full(b)
    BY <2>4, DerivedIs
  <2>7. Full(b)' = Full(b)
    BY <2>2 DEF Full
  <2> QED
    BY <2>2, <2>3, <2>5, <2>6, <2>7
<1>2. CASE pass.at = "rest" /\ pass'.was = pass.was /\ pass'.due = pass.due /\ pass'.book = pass.book
  <2>1. hand.kind # "enqueue" /\ hand'.kind # "enqueue"
    BY <1>2, EnqueueWaits DEF PassSettles
  <2>2. state[b] = "none" \/ Full(b) => state'[b] = "none" \/ Full(b)'
    BY <1>2, <2>1, FullStays
  <2> QED
    BY <1>2, <2>1, <2>2 DEF PassSettles
<1> QED
  BY <1>1, <1>2, PassComes

LEMMA SweepSettlesInductive ==
    ASSUME Typed, TurnsInv, HandInv, SweepSettles, [Next]_vars, "race" \notin Rough, "list" \notin Rough
    PROVE  SweepSettles'
<1> SUFFICES ASSUME sweep'.by # "none", sweep'.at = "rest"
             PROVE  /\ hand'.kind # "enqueue" /\ sweep'.left # <<>>
                    /\ sweep'.due = sweep'.was \/ <<sweep'.was, sweep'.due>> \in SettleMoves
                    /\ \A b \in Books : b = Head(sweep'.left) =>
                         /\ sweep'.due = "completed" => state'[b] = "none" \/ Full(b)'
                         /\ sweep'.due = "waiting" /\ sweep'.was # "waiting" => ~Full(b)'
  BY DEF SweepSettles
<1>1. CASE SweepSettle
  <2>1. /\ sweep'.left = sweep.left /\ sweep.left # <<>> /\ Head(sweep.left) \in Books
        /\ sweep'.was = state[Head(sweep.left)] /\ sweep'.due = Derived(Head(sweep.left), TRUE)
        /\ sweep'.due = sweep'.was \/ <<sweep'.was, sweep'.due>> \in SettleMoves
        /\ hand' = hand /\ MayCome /\ page' = page
    BY <1>1, SweepSettleIs
  <2>2. hand.kind = "none"
    BY <2>1 DEF MayCome
  <2>3. ASSUME NEW b \in Books, b = Head(sweep'.left)
        PROVE  /\ sweep'.due = "completed" => state'[b] = "none" \/ Full(b)'
               /\ sweep'.due = "waiting" /\ sweep'.was # "waiting" => ~Full(b)'
    <3>1. Derived(b, TRUE) = IF state[b] = "paused" THEN state[b] ELSE DerivedFromPages(b)
      BY DEF Derived
    <3>2. (Derived(b, TRUE) = "completed" => Full(b)) /\ (Derived(b, TRUE) = "waiting" => ~Full(b))
      BY <3>1, DerivedIs
    <3>3. Full(b)' = Full(b)
      BY <2>1 DEF Full
    <3> QED
      BY <2>1, <2>3, <3>2, <3>3
  <2> QED
    BY <2>1, <2>2, <2>3
<1>2. CASE /\ sweep.at = "rest" /\ sweep'.was = sweep.was /\ sweep'.due = sweep.due /\ sweep'.left = sweep.left
           /\ sweep'.by = sweep.by
  <2>1. sweep.left # <<>> /\ hand.kind # "enqueue" /\ hand'.kind # "enqueue"
    BY <1>2, EnqueueWaits DEF SweepSettles
  <2>2. ASSUME NEW b \in Books, b = Head(sweep'.left)
        PROVE  /\ sweep'.due = "completed" => state'[b] = "none" \/ Full(b)'
               /\ sweep'.due = "waiting" /\ sweep'.was # "waiting" => ~Full(b)'
    <3>1. /\ state[b] = "none" \/ Full(b) => state'[b] = "none" \/ Full(b)'
          /\ ~Full(b) => ~Full(b)'
      BY <1>2, <2>1, FullStays
    <3> QED
      BY <1>2, <2>2, <3>1 DEF SweepSettles
  <2> QED
    BY <1>2, <2>1, <2>2 DEF SweepSettles
<1> QED
  BY <1>1, <1>2, SweepComes

LEMMA TableInductive ==
    ASSUME Typed, LandingInv, TurnsInv, TableInv, [Next]_vars, "race" \notin Rough, "list" \notin Rough
    PROVE  TableInv'
BY NoneTogetherInductive, LeftInductive, HandInvInductive, PassSettlesInductive, SweepSettlesInductive DEF TableInv

\* What the table sees of the rows.
Rows == [b \in Books |-> [p \in Page |-> page[b][p].state]]

\* A step that moves one book as the table lets the program, or the user, move it.
LEMMA ProgramMove ==
    ASSUME Typed, Typed', NEW b \in Books, hand' = hand,
           \A c \in Books \ {b} : state'[c] = state[c] /\ \A p \in Page : page'[c][p].state = page[c][p].state,
           state'[b] = state[b] \/ <<state[b], state'[b]>> \in Table!ByProgram,
           state'[b] = "completed" /\ state[b] # "completed" => Full(b),
           state[b] = "completed" /\ state'[b] = "waiting" => ~Full(b),
           \A p \in Page : page'[b][p].state = page[b][p].state
                           \/ <<page[b][p].state, page'[b][p].state>> \in Table!OfPages
    PROVE  Table!Next
<1>1. state' = [state EXCEPT ![b] = state'[b]]
  BY DEF Typed, LineTyped
<1>2. Rows' = [Rows EXCEPT ![b] = Rows'[b]]
  BY DEF Rows
<1>3. \A p \in Page : Rows[b][p] = page[b][p].state /\ Rows'[b][p] = page'[b][p].state
  BY DEF Rows
<1>4. Table!Program(b)
  BY <1>1, <1>2, <1>3 DEF Table!Program, Table!Whole, Rows, Full
<1> QED
  BY <1>4 DEF Table!Next

LEMMA GestureMove ==
    ASSUME Typed, Typed', NEW b \in Books, hand' # hand,
           \A c \in Books \ {b} : state'[c] = state[c] /\ \A p \in Page : page'[c][p].state = page[c][p].state,
           \/ /\ state'[b] = state[b] \/ <<state[b], state'[b]>> \in Table!ByUser
              /\ \A p \in Page : page'[b][p].state = page[b][p].state
                                 \/ (page[b][p].state = "failed" /\ page'[b][p].state = "pending")
           \/ /\ state'[b] = "waiting" /\ (state[b] = "waiting" \/ <<state[b], "waiting">> \in Table!ByUser)
              /\ \A p \in Page : page'[b][p].state = "pending"
           \/ state'[b] = "none" /\ \A p \in Page : page'[b][p].state = "none"
    PROVE  Table!Next
<1>1. state' = [state EXCEPT ![b] = state'[b]]
  BY DEF Typed, LineTyped
<1>2. Rows' = [Rows EXCEPT ![b] = Rows'[b]]
  BY DEF Rows
<1>3. \A p \in Page : Rows[b][p] = page[b][p].state /\ Rows'[b][p] = page'[b][p].state
  BY DEF Rows
<1>4. (\A p \in Page : page'[b][p].state = "pending") => Rows'[b] = [p \in Page |-> "pending"]
  BY DEF Rows
<1>5. (\A p \in Page : page'[b][p].state = "none") => Rows'[b] = [p \in Page |-> "none"]
  BY DEF Rows
<1>6. Table!Gesture(b)
  <2>1. CASE /\ state'[b] = state[b] \/ <<state[b], state'[b]>> \in Table!ByUser
             /\ \A p \in Page : page'[b][p].state = page[b][p].state
                                \/ (page[b][p].state = "failed" /\ page'[b][p].state = "pending")
    BY <1>1, <1>2, <1>3, <2>1 DEF Table!Gesture, Rows
  <2>2. CASE /\ state'[b] = "waiting" /\ (state[b] = "waiting" \/ <<state[b], "waiting">> \in Table!ByUser)
             /\ \A p \in Page : page'[b][p].state = "pending"
    BY <1>1, <1>2, <1>4, <2>2 DEF Table!Gesture, Rows
  <2>3. CASE state'[b] = "none" /\ \A p \in Page : page'[b][p].state = "none"
    BY <1>1, <1>2, <1>5, <2>3 DEF Table!Gesture, Rows
  <2> QED
    BY <2>1, <2>2, <2>3
<1> QED
  BY <1>6 DEF Table!Next

LEMMA TableStays ==
    ASSUME Typed, Typed', \A c \in Books : state'[c] = state[c] /\ \A p \in Page : page'[c][p].state = page[c][p].state
    PROVE  UNCHANGED <<state, Rows>>
BY DEF Typed, LineTyped, Rows

\* Every step of the downloads is a step of the table, or moves neither a state nor
\* a row.
LEMMA StepsOfTheTable ==
    ASSUME Typed, Typed', LandingInv, TurnsInv, TableInv, [Next]_vars, "race" \notin Rough, "list" \notin Rough
    PROVE  Table!Next \/ UNCHANGED <<state, Rows>>
<1>1. LineTyped /\ FilesTyped /\ PassTyped /\ SweepTyped /\ HandTyped
  BY DEF Typed
<1>2. \A b \in Books, p \in Page :
        /\ page[b][p] \in Row \cup {NoRow} /\ Landed(page[b][p]).state = "complete"
        /\ (page[b][p].state = "none" <=> state[b] = "none")
        /\ page[b][p].state \in {"none", "pending", "complete", "failed"}
  <2>1. \A b \in Books, p \in Page : page[b][p] \in Row \cup {NoRow}
    BY <1>1, FilesAre
  <2>2. \A b \in Books, p \in Page : page[b][p].state = "none" <=> state[b] = "none"
    BY DEF TableInv, NoneTogether
  <2>3. \A r \in Row \cup {NoRow} : Landed(r).state = "complete" /\ r.state \in {"none", "pending", "complete", "failed"}
    BY RowsAre
  <2> QED
    BY <2>1, <2>2, <2>3
<1>3. Pending.state = "pending" /\ NoRow.state = "none"
  BY RowsAre DEF Pending
<1>4. SettleMoves \subseteq Table!ByProgram
  BY DEF SettleMoves, Table!ByProgram
<1>5. CASE Claim \/ (Settle /\ pass.terminal)
  <2>1. PICK b \in Books : b = pass.book
    BY <1>1, <1>5 DEF Claim, Settle, PassAt, PassTyped
  <2>2. hand' = hand /\ page' = page
    BY <1>5 DEF Claim, Settle
  <2>3. \/ state' = StateIf(b, "waiting", "downloading")
        \/ state' = IF state[b] \in {"downloading", "waiting"} THEN [state EXCEPT ![b] = "failed"] ELSE state
    BY <1>5, <2>1 DEF Claim, Settle
  <2>4. \A c \in Books : state'[c] = state[c]
                         \/ (c = b /\ state[c] = "waiting" /\ state'[c] = "downloading")
                         \/ (c = b /\ state[c] \in {"downloading", "waiting"} /\ state'[c] = "failed")
    BY <1>1, <2>3 DEF StateIf, LineTyped
  <2>5. state'[b] = state[b] \/ <<state[b], state'[b]>> \in Table!ByProgram
    BY <2>4 DEF Table!ByProgram
  <2>6. \A c \in Books \ {b} : state'[c] = state[c] /\ \A p \in Page : page'[c][p].state = page[c][p].state
    BY <2>2, <2>4
  <2>7. (state'[b] = "completed" /\ state[b] # "completed" => Full(b))
        /\ (state[b] = "completed" /\ state'[b] = "waiting" => ~Full(b))
    BY <2>4
  <2> QED
    BY <2>2, <2>5, <2>6, <2>7, ProgramMove
<1>6. CASE Rest
  <2>1. PICK b \in Books : b = pass.book
    BY <1>1, <1>6 DEF Rest, PassAt, PassTyped
  <2>2. hand' = hand /\ page' = page /\ pass.at = "rest" /\ state' = StateIf(b, pass.was, pass.due)
    BY <1>6, <2>1 DEF Rest, PassAt
  <2>3. \A c \in Books \ {b} : state'[c] = state[c] /\ \A p \in Page : page'[c][p].state = page[c][p].state
    BY <1>1, <2>2 DEF StateIf, LineTyped
  <2>4. state'[b] = state[b] \/ (state[b] = pass.was /\ state'[b] = pass.due)
    BY <1>1, <2>2 DEF StateIf, LineTyped
  <2>5. /\ pass.was # "none"
        /\ pass.due = pass.was \/ <<pass.was, pass.due>> \in SettleMoves \ {<<"completed", "waiting">>}
        /\ pass.due = "completed" /\ pass.was # "completed" => state[b] = "none" \/ Full(b)
    BY <1>1, <2>1, <2>2 DEF TableInv, PassSettles, PassTyped
  <2>6. state'[b] = state[b] \/ <<state[b], state'[b]>> \in Table!ByProgram
    BY <1>4, <2>4, <2>5
  <2>7. (state'[b] = "completed" /\ state[b] # "completed" => Full(b))
        /\ (state[b] = "completed" /\ state'[b] = "waiting" => ~Full(b))
    BY <2>4, <2>5
  <2> QED
    BY <2>2, <2>3, <2>6, <2>7, ProgramMove
<1>7. CASE SweepRest
  <2>1. PICK b \in Books : b = Head(sweep.left)
    BY <1>1, <1>7 DEF SweepRest, SweepAt, SweepTyped, Sweeping
  <2>2. hand' = hand /\ page' = page /\ sweep.by # "none" /\ sweep.at = "rest"
        /\ state' = StateIf(b, sweep.was, sweep.due)
    BY <1>7, <2>1 DEF SweepRest, SweepAt
  <2>3. \A c \in Books \ {b} : state'[c] = state[c] /\ \A p \in Page : page'[c][p].state = page[c][p].state
    BY <1>1, <2>2 DEF StateIf, LineTyped
  <2>4. state'[b] = state[b] \/ (state[b] = sweep.was /\ state'[b] = sweep.due)
    BY <1>1, <2>2 DEF StateIf, LineTyped
  <2>5. /\ sweep.was # "none"
        /\ sweep.due = sweep.was \/ <<sweep.was, sweep.due>> \in SettleMoves
        /\ sweep.due = "completed" => state[b] = "none" \/ Full(b)
        /\ sweep.due = "waiting" /\ sweep.was # "waiting" => ~Full(b)
    BY <1>1, <2>1, <2>2 DEF TableInv, SweepSettles, SweepTyped
  <2>6. state'[b] = state[b] \/ <<state[b], state'[b]>> \in Table!ByProgram
    BY <1>4, <2>4, <2>5
  <2>7. (state'[b] = "completed" /\ state[b] # "completed" => Full(b))
        /\ (state[b] = "completed" /\ state'[b] = "waiting" => ~Full(b))
    BY <2>4, <2>5
  <2> QED
    BY <2>2, <2>3, <2>6, <2>7, ProgramMove
<1>8. ASSUME state' = state, hand' = hand, NEW b \in Books,
             \A c \in Books \ {b} : \A p \in Page : page'[c][p] = page[c][p],
             \A p \in Page : page'[b][p].state = page[b][p].state
                             \/ <<page[b][p].state, page'[b][p].state>> \in Table!OfPages
      PROVE  Table!Next
  <2>1. (state'[b] = "completed" /\ state[b] # "completed" => Full(b))
        /\ (state[b] = "completed" /\ state'[b] = "waiting" => ~Full(b))
    BY <1>8
  <2>2. \A c \in Books \ {b} : state'[c] = state[c] /\ \A p \in Page : page'[c][p].state = page[c][p].state
    BY <1>8
  <2> QED
    BY <1>8, <2>1, <2>2, ProgramMove
<1>9. CASE CommitRow \/ Burn \/ Exhaust
  <2>1. pass.at \in AtPage /\ state' = state /\ hand' = hand
    BY <1>9 DEF CommitRow, Burn, Exhaust, PassAt, AtPage
  <2>2. PICK b \in Books, p \in pass.jobs : 
          /\ b = pass.book /\ p = Job /\ p \in Page
          /\ \A c \in Books, q \in Page : c # b \/ q # p => page'[c][q] = page[c][q]
          /\ CommitRow => page'[b][p] = Landed(page[b][p])
          /\ Burn => page'[b][p].state = page[b][p].state
          /\ Exhaust /\ page[b][p].state = "none" => page' = page
          /\ Exhaust /\ page[b][p].state # "none" =>
               page'[b][p].state = IF Spent(page[b][p]) THEN "failed" ELSE page[b][p].state
    BY <1>9, PassPageIs
  <2>3. page[b][p].state # "complete"
    BY <2>1, <2>2 DEF TurnsInv
  <2>4. CommitRow => state[b] = "downloading"
    BY <2>2 DEF CommitRow, PassAt, Commits, LandingInv
  <2>5. page'[b][p].state = page[b][p].state
        \/ <<page[b][p].state, page'[b][p].state>> \in Table!OfPages
    BY <1>2, <1>9, <2>2, <2>3, <2>4 DEF Table!OfPages
  <2>6. \A q \in Page : page'[b][q].state = page[b][q].state
                        \/ <<page[b][q].state, page'[b][q].state>> \in Table!OfPages
    BY <2>2, <2>5
  <2> QED
    BY <1>8, <2>1, <2>2, <2>6
<1>10. CASE SweepRows
  <2>1. state' = state /\ hand' = hand
    BY <1>10 DEF SweepRows
  <2>2. PICK b \in Books :
          /\ \A c \in Books \ {b} : page'[c] = page[c]
          /\ \A p \in Page :
               page'[b][p] = IF page[b][p].state = "complete" /\ ~Whole(b, p) THEN Pending ELSE page[b][p]
    BY <1>1, <1>10, SweepRowsIs
  <2>3. \A p \in Page : page'[b][p].state = page[b][p].state
                        \/ <<page[b][p].state, page'[b][p].state>> \in Table!OfPages
    BY <1>3, <2>2 DEF Table!OfPages
  <2> QED
    BY <1>8, <2>1, <2>2, <2>3
<1>11. CASE SweepFiles
  <2>1. state' = state /\ hand' = hand
    BY <1>11 DEF SweepFiles
  <2>2. PICK b \in Books :
          /\ b = Head(sweep.left) /\ sweep.left # <<>> /\ sweep.by # "none" /\ MayCome
          /\ \A c \in Books \ {b} : page'[c] = page[c]
          /\ \A p \in Page :
               page'[b][p] = IF p \notin sweep.judged /\ Whole(b, p) THEN Landed(page[b][p]) ELSE page[b][p]
    BY <1>1, <1>11, SweepFilesIs
  <2>3. state[b] = "none" => \A p \in Page : ~Whole(b, p)
    <3>1. b \in Range(sweep.left) /\ hand.kind = "none"
      BY <1>1, <2>2 DEF SweepTyped, Sweeping, Range, MayCome
    <3> QED
      BY <1>1, <3>1, FilesAre DEF TableInv, LeftInv, Whole
  <2>4. \A p \in Page : page'[b][p].state = page[b][p].state
                        \/ <<page[b][p].state, page'[b][p].state>> \in Table!OfPages
    <3> SUFFICES ASSUME NEW p \in Page
                 PROVE  page'[b][p].state = page[b][p].state
                        \/ <<page[b][p].state, page'[b][p].state>> \in Table!OfPages
      OBVIOUS
    <3>1. CASE p \notin sweep.judged /\ Whole(b, p)
      <4>1. page[b][p].state \in {"pending", "complete", "failed"} /\ page'[b][p].state = "complete"
        BY <1>2, <2>2, <2>3, <3>1
      <4> QED
        BY <4>1 DEF Table!OfPages
    <3>2. CASE ~(p \notin sweep.judged /\ Whole(b, p))
      BY <2>2, <3>2
    <3> QED
      BY <3>1, <3>2
  <2> QED
    BY <1>8, <2>1, <2>2, <2>4
<1>12. ASSUME NEW b \in Books, NEW p \in Page, ReaderHeals(b, p)
       PROVE  Table!Next
  <2>1. state' = state /\ hand' = hand /\ page[b][p].state = "complete"
    BY <1>12 DEF ReaderHeals
  <2>2. page'[b][p] = Pending /\ \A c \in Books, q \in Page : c # b \/ q # p => page'[c][q] = page[c][q]
    BY <1>12, GesturesPagesAre
  <2>3. \A q \in Page : page'[b][q].state = page[b][q].state
                        \/ <<page[b][q].state, page'[b][q].state>> \in Table!OfPages
    BY <1>3, <2>1, <2>2 DEF Table!OfPages
  <2> QED
    BY <1>8, <2>1, <2>2, <2>3
<1>13. ASSUME NEW b \in Books, TapRetry(b)
       PROVE  Table!Next
  <2>1. hand' # hand /\ state' = state
    BY <1>13, HandMoves DEF TapRetry
  <2>2. /\ \A c \in Books \ {b} : page'[c] = page[c]
        /\ \A p \in Page : page'[b][p] = page[b][p]
                           \/ (page[b][p].state = "failed" /\ page'[b][p].state = "pending")
    BY <1>13, GesturesPagesAre
  <2> QED
    BY <2>1, <2>2, GestureMove
<1>14. ASSUME NEW b \in Books, TapDelete(b)
       PROVE  Table!Next
  <2>1. hand' # hand
    BY <1>14, HandMoves
  <2>2. (\A c \in Books \ {b} : page'[c] = page[c]) /\ \A p \in Page : page'[b][p].state = "none"
    BY <1>3, <1>14, GesturesPagesAre
  <2>3. state'[b] = "none" /\ \A c \in Books \ {b} : state'[c] = state[c]
    BY <1>1, <1>14 DEF TapDelete, LineTyped
  <2> QED
    BY <2>1, <2>2, <2>3, GestureMove
<1>15. CASE Enqueue
  <2>1. PICK b \in Books : b = hand.book
    BY <1>1, <1>15 DEF Enqueue, HandTyped
  <2>2. hand' # hand /\ state[b] # "downloading"
    BY <1>15, <2>1, HandMoves DEF TableInv, HandInv, Enqueue
  <2>3. (\A c \in Books \ {b} : page'[c] = page[c]) /\ \A p \in Page : page'[b][p].state = "pending"
    BY <1>3, <1>15, <2>1, GesturesPagesAre
  <2>4. state'[b] = "waiting" /\ \A c \in Books \ {b} : state'[c] = state[c]
    BY <1>1, <1>15, <2>1 DEF Enqueue, LineTyped
  <2>5. state[b] = "waiting" \/ <<state[b], "waiting">> \in Table!ByUser
    BY <1>1, <2>2 DEF LineTyped, BookState, Table!ByUser
  <2> QED
    BY <2>2, <2>3, <2>4, <2>5, GestureMove
<1>16. CASE UserSet \/ Retry
  <2>1. PICK b \in Books : b = hand.book
    BY <1>1, <1>16 DEF UserSet, Retry, HandTyped
  <2>2. hand' # hand /\ page' = page
    BY <1>16, HandMoves DEF UserSet, Retry
  <2>3. \A c \in Books \ {b} : state'[c] = state[c]
    BY <1>1, <1>16, <2>1 DEF UserSet, Retry, StateIf, LineTyped
  <2>4. CASE UserSet
    <3>1. state'[b] = state[b] \/ /\ state[b] = hand.was
                                  /\ state'[b] = IF hand.kind = "pause" THEN "paused" ELSE "waiting"
      BY <1>1, <2>1, <2>4 DEF UserSet, StateIf, LineTyped
    <3>2. hand.kind \in {"pause", "resume"} /\ state[b] \in BookState \cup {"none"}
      BY <1>1, <2>4 DEF UserSet, LineTyped
    <3>3. state'[b] = state[b] \/ <<state[b], state'[b]>> \in Table!ByUser
      BY <3>1, <3>2 DEF TableInv, HandInv, BookState, Table!ByUser
    <3> QED
      BY <2>2, <2>3, <3>3, GestureMove
  <2>5. CASE Retry
    <3>1. state'[b] = state[b] \/ (state[b] = "failed" /\ state'[b] = "waiting")
      BY <1>1, <2>1, <2>5 DEF Retry, StateIf, LineTyped
    <3>2. state'[b] = state[b] \/ <<state[b], state'[b]>> \in Table!ByUser
      BY <3>1 DEF Table!ByUser
    <3> QED
      BY <2>2, <2>3, <3>2, GestureMove
  <2> QED
    BY <1>16, <2>4, <2>5
<1>17. CASE WriteFile \/ RemoveTree
  <2>1. UNCHANGED <<state, page>>
    BY <1>17 DEF WriteFile, RemoveTree
  <2> QED
    BY <2>1, TableStays
<1>18. ASSUME NEW b \in Books, NEW p \in Page, NEW to, Damage(b, p, to)
       PROVE  UNCHANGED <<state, Rows>>
  <2>1. UNCHANGED <<state, page>>
    BY <1>18 DEF Damage
  <2> QED
    BY <2>1, TableStays
<1>19. CASE Quiet /\ ~(Claim \/ Rest \/ SweepRest \/ UserSet \/ Retry \/ (Settle /\ pass.terminal))
  <2>1. UNCHANGED <<state, page>>
    BY <1>19 DEF Quiet, Pump, Plan, Elapse, Answer, BadAnswer, OpenLanding, WriteFails, CommitFails, Settle,
       Halt, StartSweep, SweepSettle, SweepOver, Crash, TapOnly, Publish, Expire, vars
  <2> QED
    BY <2>1, TableStays
<1> QED
  BY <1>5, <1>6, <1>7, <1>9, <1>10, <1>11, <1>12, <1>13, <1>14, <1>15, <1>16, <1>17, <1>18, <1>19, StepsAre

\* The queue implements the table both platforms share: whatever a pass, a sweep
\* and the user do beside one another, a book and its pages move only as the table
\* lets the one who acts move them.  A gesture that another statement comes between
\* ("race") and a sweep beside a pass ("list") break it.
THEOREM TableIsKept ==
    ASSUME "race" \notin Rough, "list" \notin Rough
    PROVE  Spec => KeepsToTheTable
<1>1. Init => Table!Init
  <2> SUFFICES ASSUME Init
               PROVE  Table!Init
    OBVIOUS
  <2>1. state = [b \in Books |-> "none"] /\ \A b \in Books, p \in Page : page[b][p].state = "none"
    BY DEF Init, NoRow
  <2>2. Rows = [b \in Books |-> [p \in Page |-> "none"]]
    BY <2>1 DEF Rows
  <2> QED
    BY <2>1, <2>2 DEF Table!Init, Rows
<1>2. Init => TurnsInv /\ TableInv
  BY DEF Init, TurnsInv, NoPass, NoSweep, NoHand, NoRow, AtPage, TableInv, NoneTogether, LeftInv, HandInv,
     PassSettles, SweepSettles, Range
<1>3. Typed /\ TurnsInv /\ [Next]_vars => TurnsInv'
  BY TurnsInductive
<1>4. Typed /\ LandingInv /\ TurnsInv /\ TableInv /\ [Next]_vars => TableInv'
  BY TableInductive
<1>5. Typed /\ Typed' /\ LandingInv /\ TurnsInv /\ TableInv /\ [Next]_vars => [Table!Next]_<<state, Rows>>
  BY StepsOfTheTable
<1>6. [Table!Next]_<<state, Rows>> => [Table!Next]_<<state, [b \in Books |-> [p \in Page |-> page[b][p].state]]>>
  BY DEF Rows
<1> QED
  BY <1>1, <1>2, <1>3, <1>4, <1>5, <1>6, Types, Landings, PTL DEF Spec, KeepsToTheTable, Table!Spec

====
