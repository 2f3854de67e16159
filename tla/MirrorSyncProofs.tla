-------------------------- MODULE MirrorSyncProofs --------------------------
(***************************************************************************)
(* Proofs about MirrorSync, for every server, page size and number of      *)
(* failures.                                                               *)
(*                                                                         *)
(* What the syncs promise rests on one invariant, CoverInv: each promised  *)
(* book is mirrored, or on a page that the stored cursor and the sync      *)
(* under way have yet to come to; and each book a sweep could delete       *)
(* without reason is one it has seen or has yet to come to.  A page is     *)
(* reckoned by the offset the server lists a book at now, so the proofs    *)
(* need that an addition only moves books to later pages (PagesGrow).      *)
(***************************************************************************)
EXTENDS MirrorSync, FiniteSetTheorems, WellFoundedInduction, NaturalsInduction, TLAPS

-------------------------------------------------------------------------------
(* Finite sets and the least of them                                         *)

LEMMA BookFinite == IsFiniteSet(Book)
<1>1. IsFiniteSet(1 .. PerSeries)
  BY FS_Interval, MirrorAssumption
<1> QED
  BY <1>1, FS_Product, MirrorAssumption DEF Book

LEMMA MinIsMember ==
    ASSUME NEW S \in SUBSET Series, S # {}
    PROVE  Min(S) \in S /\ \A s \in S : Min(S) <= s
<1>1. PICK x \in S : \A y \in S : ~(<<y, x>> \in OpToRel(<, Nat))
  BY NatLessThanWellFounded, WFMin, MirrorAssumption, Zenon
<1>2. ASSUME NEW y \in Nat, NEW z \in Nat, y < z
      PROVE  <<y, z>> \in OpToRel(<, Nat)
  BY <1>2 DEF OpToRel
<1>3. S \subseteq Nat
  BY MirrorAssumption
<1>4. \A y \in S : ~(y < x)
  BY <1>1, <1>2, <1>3, Zenon
<1>5. \A y \in S : x <= y
  BY <1>3, <1>4
<1> QED
  BY <1>5 DEF Min

LEMMA IdleTyped == Idle \in Task /\ NoPage \in Page /\ Nothing \in Library /\ NoCursor \in Cursor
BY MirrorAssumption DEF Idle, Task, Stage, Entity, NoCursor, Cursor, Nothing, NoPage, Page, Library, Stamp, Absent

-------------------------------------------------------------------------------
(* Pages                                                                     *)

\* The page a series, or a book of its series, is listed on at present.
PageOfSeries(s) == Cardinality({y \in remote.series : y < s}) \div PageSize
PageOfBook(b) == Cardinality({y \in Kept(remote) \cap In(b[1]) : y[2] < b[2]}) \div PageSize


LEMMA SeriesPageIs ==
    ASSUME NEW n
    PROVE  /\ SeriesPage(n).series = {s \in remote.series : PageOfSeries(s) = n}
           /\ SeriesPage(n).books = [b \in Book |-> Absent]
           /\ SeriesPage(n).last = (Cardinality(remote.series) <= (n + 1) * PageSize)
BY DEF SeriesPage, Slice, PageOfSeries, NoPage

LEMMA BooksPageIs ==
    ASSUME NEW s, NEW n
    PROVE  /\ BooksPage(s, n).series = {}
           /\ \A b \in Book : BooksPage(s, n).books[b] =
                IF b \in Kept(remote) \cap In(s) /\ PageOfBook(b) = n
                THEN remote.books[b] ELSE Absent
           /\ BooksPage(s, n).last = (Cardinality(Kept(remote) \cap In(s)) <= (n + 1) * PageSize)
<1> DEFINE Less(x, y) == x[2] < y[2]
           listed == Kept(remote) \cap In(s)
<1>1. Slice(listed, Less, n) = {b \in listed : PageOfBook(b) = n}
  BY DEF Slice, PageOfBook, In
<1> QED
  BY <1>1 DEF BooksPage, NoPage

LEMMA BooksAnswered ==
    ASSUME NEW s, NEW n
    PROVE  \A b \in Book :
             /\ BooksPage(s, n).books[b] \in {Absent, remote.books[b]}
             /\ BooksPage(s, n).books[b] # Absent => b[1] = s
<1>1. \A b \in Book : BooksPage(s, n).books[b] =
        IF b \in Kept(remote) \cap In(s) /\ PageOfBook(b) = n THEN remote.books[b] ELSE Absent
  BY BooksPageIs
<1> QED
  BY <1>1 DEF In

LEMMA PagesTyped ==
    ASSUME remote \in Library, NEW n \in Nat, NEW s
    PROVE  SeriesPage(n) \in Page /\ BooksPage(s, n) \in Page
<1>1. ASSUME NEW S \in SUBSET Series, NEW last \in BOOLEAN
      PROVE  [NoPage EXCEPT !.series = S, !.last = last] \in Page
  BY IdleTyped DEF Page
<1>2. ASSUME NEW P, NEW last \in BOOLEAN
      PROVE  [NoPage EXCEPT !.books = [b \in Book |-> IF b \in P THEN remote.books[b] ELSE Absent],
                            !.last = last] \in Page
  <2>1. [b \in Book |-> IF b \in P THEN remote.books[b] ELSE Absent] \in [Book -> Stamp]
    BY MirrorAssumption DEF Library, Stamp, Absent
  <2> QED
    BY <2>1, IdleTyped DEF Page
<1>3. SeriesPage(n) \in Page
  <2> DEFINE Less(x, y) == x < y
             page == Slice(remote.series, Less, n)
             last == Cardinality(remote.series) <= (n + 1) * PageSize
  <2>1. page \in SUBSET Series
    BY DEF Slice, Library
  <2>2. SeriesPage(n) = [NoPage EXCEPT !.series = page, !.last = last]
    BY DEF SeriesPage
  <2>3. last \in BOOLEAN
    OBVIOUS
  <2> HIDE DEF page, last
  <2> QED
    BY <1>1, <2>1, <2>2, <2>3
<1>4. BooksPage(s, n) \in Page
  <2> DEFINE Less(x, y) == x[2] < y[2]
             page == Slice(Kept(remote) \cap In(s), Less, n)
             last == Cardinality(Kept(remote) \cap In(s)) <= (n + 1) * PageSize
  <2>1. BooksPage(s, n) = [NoPage EXCEPT !.books = [b \in Book |-> IF b \in page THEN remote.books[b] ELSE Absent],
                                         !.last = last]
    BY DEF BooksPage
  <2>2. last \in BOOLEAN
    OBVIOUS
  <2> HIDE DEF page, last
  <2>3. [NoPage EXCEPT !.books = [b \in Book |-> IF b \in page THEN remote.books[b] ELSE Absent],
                       !.last = last] \in Page
    BY <1>2, <2>2, Zenon
  <2> QED
    BY <2>1, <2>3, Zenon
<1> QED
  BY <1>3, <1>4

-------------------------------------------------------------------------------
(* Types                                                                     *)

LEMMA WithoutTyped ==
    ASSUME NEW lib \in Library, NEW S, NEW B
    PROVE  Without(lib, S, B) \in Library
BY MirrorAssumption DEF Without, Library, Stamp, Absent

LEMMA NoticedTyped ==
    ASSUME TypeOK, NEW shift \in BOOLEAN
    PROVE  Noticed(shift) \in [Mode -> Task]
<1>1. ASSUME NEW t \in Task
      PROVE  [t EXCEPT !.calm = FALSE, !.shifted = @ \/ shift, !.steady = @ \cap Kept(remote')] \in Task
  BY DEF Task
<1> QED
  BY <1>1, IdleTyped DEF Noticed, TypeOK

LEMMA StateTyped ==
    ASSUME TypeOK, NEW e \in Entity
    PROVE  /\ NeverRun \in [Entity -> [status : Status, cursor : Cursor]]
           /\ BeginEntity(e) \in [Entity -> [status : Status, cursor : Cursor]]
           /\ CompleteEntity(e) \in [Entity -> [status : Status, cursor : Cursor]]
           /\ FailEntity(e) \in [Entity -> [status : Status, cursor : Cursor]]
           /\ \A s \in {0} \cup Series, p \in Nat :
                CheckpointEntity(e, s, p) \in [Entity -> [status : Status, cursor : Cursor]]
BY DEF TypeOK, NeverRun, BeginEntity, CheckpointEntity, CompleteEntity, FailEntity, Status, Cursor, NoCursor

LEMMA InitTyped == Init => TypeOK
<1> SUFFICES ASSUME Init PROVE TypeOK
  OBVIOUS
<1>1. remote \in Library /\ Stock \subseteq Book
  BY MirrorAssumption DEF Init, Library, Stamp, Absent
<1>2. task \in [Mode -> Task] /\ row \in Library
  BY IdleTyped DEF Init
<1>3. state \in [Entity -> [status : Status, cursor : Cursor]]
  BY DEF Init, NeverRun, Status, Cursor, NoCursor
<1> QED
  BY <1>1, <1>2, <1>3, MirrorAssumption DEF Init, TypeOK, NoTombs

LEMMA WorldTyped ==
    ASSUME TypeOK, World
    PROVE  TypeOK'
<1> USE DEF TypeOK
<1>1. ASSUME NEW b \in Book, Publish(b)
      PROVE  TypeOK'
  <2>1. b[1] \in Series /\ clock + 1 \in Stamp /\ clock' \in 1 .. 1 + MaxChanges
    BY <1>1, MirrorAssumption DEF Publish, Book, Stamp
  <2>2. remote' \in Library
    BY <1>1, <2>1 DEF Publish, Library
  <2>3. [book |-> b, gone |-> FALSE] \in [book : Book, gone : BOOLEAN]
    OBVIOUS
  <2>4. news' \subseteq [book : Book, gone : BOOLEAN]
    BY <1>1, <2>3 DEF Publish, Tell
  <2> QED
    BY <1>1, <2>1, <2>2, <2>4, NoticedTyped DEF Publish
<1>2. ASSUME NEW S, NEW B, Remove(S, B)
      PROVE  TypeOK'
  <2>1. remote' \in Library
    BY <1>2, WithoutTyped DEF Remove
  <2>2. \A b \in B : [book |-> b, gone |-> TRUE] \in [book : Book, gone : BOOLEAN]
    BY <1>2 DEF Remove, Kept
  <2>3. news' \subseteq [book : Book, gone : BOOLEAN]
    BY <1>2, <2>2 DEF Remove, Tell
  <2>4. clock' \in 1 .. 1 + MaxChanges
    BY <1>2, MirrorAssumption DEF Remove
  <2>5. promised' \subseteq Book
    BY <1>2 DEF Remove
  <2>6. task' \in [Mode -> Task]
    BY <1>2, NoticedTyped DEF Remove
  <2> QED
    BY <1>2, <2>1, <2>3, <2>4, <2>5, <2>6 DEF Remove
<1>3. ASSUME NEW m \in Mode, NEW fresh \in BOOLEAN, Start(m, fresh)
      PROVE  TypeOK'
  <2>1. [Idle EXCEPT !.stage = "enter", !.calm = hint = NoHint, !.steady = Kept(remote)] \in Task
    BY IdleTyped DEF Task, Stage, Kept
  <2>2. Kept(remote) \subseteq Book
    BY DEF Kept
  <2> QED
    BY <1>3, <2>1, <2>2, StateTyped DEF Start, Entity
<1>4. ASSUME NEW m \in Mode, Fails(m)
      PROVE  TypeOK'
  <2>1. task[m].step \in Entity
    BY DEF Task
  <2>2. state' \in [Entity -> [status : Status, cursor : Cursor]]
    BY <1>4, <2>1, StateTyped DEF Fails
  <2>3. spent' \in [{"breaks", "hints"} -> Nat]
    BY <1>4 DEF Fails
  <2>4. task' \in [Mode -> Task]
    BY <1>4, IdleTyped DEF Fails
  <2> QED
    BY <1>4, <2>2, <2>3, <2>4 DEF Fails
<1>5. CASE Crash
  BY <1>5, IdleTyped DEF Crash
<1>6. CASE Unlink
  BY <1>6, IdleTyped, StateTyped, NoticedTyped DEF Unlink, NoTombs, Entity
<1> QED
  BY <1>1, <1>2, <1>3, <1>4, <1>5, <1>6 DEF World

\* A task stays one as its steps change it.
LEMMA TaskTyped ==
    ASSUME NEW t \in Task
    PROVE  /\ \A g \in Stage : [t EXCEPT !.stage = g] \in Task
           /\ \A a \in Page : [t EXCEPT !.stage = "save", !.answer = a] \in Task
           /\ [t EXCEPT !.step = "books"] \in Task
           /\ \A c \in Cursor, k \in Library, r \in BOOLEAN :
                [t EXCEPT !.stage = "fetch", !.at = c, !.known = k, !.resumed = r] \in Task
           /\ \A S \in SUBSET Series, B \in SUBSET Book :
                [t EXCEPT !.stage = "checkpoint", !.seen.series = S, !.seen.books = B] \in Task
           /\ \A B \in SUBSET Book : [t EXCEPT !.stage = "complete", !.lost = B] \in Task
<1>1. ASSUME NEW g \in Stage
      PROVE  [t EXCEPT !.stage = g] \in Task
  BY DEF Task
<1>2. ASSUME NEW a \in Page
      PROVE  [t EXCEPT !.stage = "save", !.answer = a] \in Task
  BY DEF Task, Stage
<1>3. [t EXCEPT !.step = "books"] \in Task
  BY DEF Task, Entity
<1>4. ASSUME NEW c \in Cursor, NEW k \in Library, NEW r \in BOOLEAN
      PROVE  [t EXCEPT !.stage = "fetch", !.at = c, !.known = k, !.resumed = r] \in Task
  BY DEF Task, Stage
<1>5. ASSUME NEW S \in SUBSET Series, NEW B \in SUBSET Book
      PROVE  [t EXCEPT !.stage = "checkpoint", !.seen.series = S, !.seen.books = B] \in Task
  BY DEF Task, Stage
<1>6. ASSUME NEW B \in SUBSET Book
      PROVE  [t EXCEPT !.stage = "complete", !.lost = B] \in Task
  BY DEF Task, Stage
<1> QED
  BY <1>1, <1>2, <1>3, <1>4, <1>5, <1>6

LEMMA BooksTaskTyped ==
    ASSUME NEW t \in Task, NEW g \in Stage, NEW c \in Cursor, NEW l \in SUBSET Series,
           NEW S \in SUBSET Series, NEW k \in Library, NEW B \in SUBSET Book, NEW r \in BOOLEAN
    PROVE  [t EXCEPT !.stage = g, !.at = c, !.left = l, !.scope = S, !.known = k,
                     !.seen.books = B, !.resumed = r] \in Task
BY DEF Task

LEMMA EntersTyped ==
    ASSUME TypeOK, NEW m \in Mode, EnterSeries(m) \/ EnterBooks(m)
    PROVE  TypeOK'
<1> USE DEF TypeOK
<1>1. CASE EnterSeries(m)
  <2> DEFINE from == IF m = "bootstrap" THEN state["series"].cursor ELSE NoCursor
             resumed == from # NoCursor
  <2>1. from \in Cursor
    BY IdleTyped DEF Entity
  <2>2. resumed \in BOOLEAN
    OBVIOUS
  <2>3. task' = [task EXCEPT ![m] = [task[m] EXCEPT !.stage = "fetch", !.at = from, !.known = row,
                                                    !.resumed = resumed]]
    BY <1>1 DEF EnterSeries
  <2> HIDE DEF from, resumed
  <2>4. [task[m] EXCEPT !.stage = "fetch", !.at = from, !.known = row, !.resumed = resumed] \in Task
    BY <2>1, <2>2, TaskTyped
  <2> QED
    BY <1>1, <2>3, <2>4, StateTyped DEF EnterSeries, Entity
<1>2. CASE EnterBooks(m)
  <2> DEFINE cursor == state["books"].cursor
             left == LeftFrom(row.series, cursor)
             at == IF cursor.series \in left THEN cursor
                   ELSE IF left = {} THEN NoCursor
                   ELSE [series |-> Min(left), page |-> 0]
             seeded == Seeded(row.series \ left, at)
             stage == IF left = {} THEN "prune" ELSE "fetch"
             resumed == task[m].resumed \/ cursor # NoCursor
  <2>1. left \in SUBSET Series /\ row.series \in SUBSET Series
    BY DEF LeftFrom, Library
  <2>2. at \in Cursor
    BY <2>1, MinIsMember, IdleTyped DEF Entity, Cursor
  <2>3. seeded \in SUBSET Book
    BY DEF Seeded, Kept
  <2>4. stage \in Stage /\ resumed \in BOOLEAN
    BY DEF Stage
  <2>5. task' = [task EXCEPT ![m] = [task[m] EXCEPT !.stage = stage, !.at = at, !.left = left,
                    !.scope = row.series, !.known = row, !.seen.books = seeded, !.resumed = resumed]]
    BY <1>2 DEF EnterBooks
  <2>6. state' = BeginEntity("books")
    BY <1>2 DEF EnterBooks
  <2> HIDE DEF stage, at, left, seeded, resumed
  <2>7. [task[m] EXCEPT !.stage = stage, !.at = at, !.left = left, !.scope = row.series,
                    !.known = row, !.seen.books = seeded, !.resumed = resumed] \in Task
    BY <2>1, <2>2, <2>3, <2>4, BooksTaskTyped
  <2> QED
    BY <1>2, <2>5, <2>6, <2>7, StateTyped DEF EnterBooks, Entity
<1> QED
  BY <1>1, <1>2

LEMMA StepTyped ==
    ASSUME TypeOK, NEW m \in Mode, Step(m)
    PROVE  TypeOK'
<1> USE DEF TypeOK
<1>1. CASE Skip(m)
  BY <1>1, TaskTyped, IdleTyped DEF Skip
<1>2. CASE EnterSeries(m) \/ EnterBooks(m)
  BY <1>2, EntersTyped
<1>3. CASE Fetch(m)
  <2>1. SeriesPage(task[m].at.page) \in Page /\ BooksPage(task[m].at.series, task[m].at.page) \in Page
    BY PagesTyped DEF Task, Cursor
  <2>2. task[m] \in Task
    OBVIOUS
  <2> QED
    BY <1>3, <2>1, <2>2, TaskTyped DEF Fetch
<1>4. CASE Save(m)
  <2>1. task[m].answer \in Page /\ Kept(task[m].answer) \subseteq Book
    BY DEF Task, Kept
  <2>2. row' \in Library
    BY <1>4, <2>1 DEF Save, Library, Page
  <2>3. tomb' \in [series : SUBSET Series, books : SUBSET Book, book : SUBSET Book]
    BY <1>4 DEF Save, Cleared
  <2>4. task' = [task EXCEPT ![m] = [task[m] EXCEPT !.stage = "checkpoint",
                    !.seen.series = task[m].seen.series \cup task[m].answer.series,
                    !.seen.books = task[m].seen.books \cup Kept(task[m].answer)]]
    BY <1>4 DEF Save
  <2>5. [task[m] EXCEPT !.stage = "checkpoint", !.seen.series = task[m].seen.series \cup task[m].answer.series,
                        !.seen.books = task[m].seen.books \cup Kept(task[m].answer)] \in Task
    <3>1. task[m].seen.series \cup task[m].answer.series \in SUBSET Series
      BY <2>1 DEF Task, Page
    <3>2. task[m].seen.books \cup Kept(task[m].answer) \in SUBSET Book
      BY <2>1 DEF Task
    <3> QED
      BY <3>1, <3>2, TaskTyped
  <2> QED
    BY <1>4, <2>2, <2>3, <2>4, <2>5 DEF Save
<1>5. CASE Checkpoint(m)
  <2> DEFINE t == task[m]
             later == t.left \ {t.at.series}
  <2>1. t \in Task /\ t.step \in Entity /\ t.at \in Cursor /\ t.left \in SUBSET Series
    BY DEF Task
  <2>2. ASSUME NEW s \in {0} \cup Series, NEW p \in Nat, NEW r \in BOOLEAN, GoOn(m, s, p, r)
        PROVE  /\ state' \in [Entity -> [status : Status, cursor : Cursor]]
               /\ task' \in [Mode -> Task]
    <3>1. state' \in [Entity -> [status : Status, cursor : Cursor]]
      BY <2>1, <2>2, StateTyped DEF GoOn
    <3>2. [series |-> s, page |-> p] \in Cursor
      BY DEF Cursor
    <3>3. task' = [task EXCEPT ![m] = [task[m] EXCEPT !.stage = "fetch", !.at = [series |-> s, page |-> p],
                                                !.left = {x \in task[m].left : x >= s}, !.answer = NoPage]]
      BY <2>2 DEF GoOn
    <3>4. [t EXCEPT !.stage = "fetch", !.at = [series |-> s, page |-> p],
                    !.left = {x \in task[m].left : x >= s}, !.answer = NoPage] \in Task
      BY <2>1, <3>2, IdleTyped DEF Task, Stage
    <3> QED
      BY <3>1, <3>3, <3>4
  <2>3. CASE ~t.answer.last
    <3> DEFINE recorded == m = "bootstrap" \/ t.step = "books"
    <3>1. GoOn(m, t.at.series, t.at.page + 1, recorded)
      BY <1>5, <2>3 DEF Checkpoint
    <3>2. recorded \in BOOLEAN /\ t.at.series \in {0} \cup Series /\ t.at.page + 1 \in Nat
      BY <2>1 DEF Cursor
    <3> HIDE DEF recorded, t
    <3>3. state' \in [Entity -> [status : Status, cursor : Cursor]] /\ task' \in [Mode -> Task]
      BY <2>2, <3>1, <3>2
    <3> QED
      BY <1>5, <3>3 DEF Checkpoint
  <2>4. CASE t.answer.last /\ later # {}
    <3>1. GoOn(m, Min(later), 0, TRUE)
      BY <1>5, <2>4 DEF Checkpoint
    <3>2. Min(later) \in {0} \cup Series
      BY <2>1, <2>4, MinIsMember
    <3>3. state' \in [Entity -> [status : Status, cursor : Cursor]] /\ task' \in [Mode -> Task]
      BY <2>2, <3>1, <3>2
    <3> QED
      BY <1>5, <3>3 DEF Checkpoint
  <2>5. CASE t.answer.last /\ later = {}
    BY <1>5, <2>1, <2>5, TaskTyped DEF Checkpoint, Stage
  <2> QED
    BY <1>5, <2>3, <2>4, <2>5
<1>6. CASE Prune(m)
  <2>1. row' \in Library
    BY <1>6, WithoutTyped DEF Prune
  <2>2. tomb' \in [series : SUBSET Series, books : SUBSET Book, book : SUBSET Book]
    BY <1>6 DEF Prune, Kept, Library
  <2>3. task' = [task EXCEPT ![m] = [task[m] EXCEPT !.stage = "complete",
                    !.lost = task[m].lost \cup (task[m].steady \cap (Kept(row) \ Kept(row')))]]
    BY <1>6 DEF Prune
  <2>4. [task[m] EXCEPT !.stage = "complete",
                        !.lost = task[m].lost \cup (task[m].steady \cap (Kept(row) \ Kept(row')))] \in Task
    <3>1. task[m].lost \cup (task[m].steady \cap (Kept(row) \ Kept(row'))) \in SUBSET Book
      BY DEF Task
    <3> QED
      BY <3>1, TaskTyped
  <2>5. task' \in [Mode -> Task]
    BY <2>3, <2>4
  <2> QED
    BY <1>6, <2>1, <2>2, <2>5 DEF Prune
<1>7. CASE Complete(m)
  <2>1. task[m] \in Task /\ task[m].step \in Entity
    BY DEF Task
  <2>2. [Idle EXCEPT !.stage = "enter", !.step = "books", !.resumed = task[m].resumed,
                     !.calm = task[m].calm, !.shifted = task[m].shifted,
                     !.steady = task[m].steady, !.lost = task[m].lost] \in Task
    BY <2>1, IdleTyped DEF Task, Stage, Entity
  <2> QED
    BY <1>7, <2>1, <2>2, IdleTyped, StateTyped DEF Complete
<1> QED
  BY <1>1, <1>2, <1>3, <1>4, <1>5, <1>6, <1>7 DEF Step

LEMMA EventsTyped ==
    ASSUME TypeOK, Events
    PROVE  TypeOK'
<1> USE DEF TypeOK
<1>1. CASE Apply
  <2>1. hint \in Hint
    BY <1>1 DEF Apply
  <2>2. row' \in Library /\ tomb' \in [series : SUBSET Series, books : SUBSET Book, book : SUBSET Book]
    BY <1>1, <2>1, WithoutTyped DEF Apply, Forget, Hint, Library
  <2> QED
    BY <1>1, <2>2, NoticedTyped DEF Apply
<1>2. ASSUME NEW n \in news, Refetch(n)
      PROVE  TypeOK'
  <2>1. hint' \in Hint
    BY <1>2 DEF Refetch, Hint, Library
  <2>2. spent' \in [{"breaks", "hints"} -> Nat]
    BY <1>2 DEF Refetch
  <2> QED
    BY <1>2, <2>1, <2>2, NoticedTyped DEF Refetch
<1>3. ASSUME NEW n \in news, ApplyGone(n)
      PROVE  TypeOK'
  <2>1. row' \in Library /\ tomb' \in [series : SUBSET Series, books : SUBSET Book, book : SUBSET Book]
    BY <1>3, WithoutTyped DEF ApplyGone, Forget
  <2>2. spent' \in [{"breaks", "hints"} -> Nat]
    BY <1>3 DEF ApplyGone
  <2> QED
    BY <1>3, <2>1, <2>2, NoticedTyped DEF ApplyGone
<1> QED
  BY <1>1, <1>2, <1>3 DEF Events

\* Every table, sync and history variable keeps its type.
THEOREM TypeCorrect == Spec => []TypeOK
<1>1. ASSUME TypeOK, [Next]_vars
      PROVE  TypeOK'
  <2>1. CASE UNCHANGED vars
    BY <1>1, <2>1 DEF vars, TypeOK
  <2> QED
    BY <1>1, <2>1, WorldTyped, EventsTyped, StepTyped DEF Next
<1> QED
  BY <1>1, InitTyped, PTL DEF Spec

-------------------------------------------------------------------------------
(* Places in a listing                                                       *)

LEMMA Division ==
    ASSUME NEW r \in Nat
    PROVE  /\ r \div PageSize \in Nat
           /\ \A q \in Nat : r <= q => r \div PageSize <= q \div PageSize
           /\ \A c \in Nat, n \in Nat : r < c /\ r \div PageSize > n => ~(c <= (n + 1) * PageSize)
<1>1. PageSize \in Nat /\ PageSize > 0
  BY MirrorAssumption
<1>2. \A q \in Nat : q \div PageSize \in Nat /\ (q \div PageSize) * PageSize <= q
                     /\ q < (q \div PageSize + 1) * PageSize
  BY <1>1
<1>3. ASSUME NEW q \in Nat, r <= q, q \div PageSize < r \div PageSize
      PROVE  FALSE
  <2>1. (q \div PageSize + 1) * PageSize <= (r \div PageSize) * PageSize
    BY <1>1, <1>2, <1>3
  <2> QED
    BY <1>1, <1>2, <1>3, <2>1
<1>4. ASSUME NEW c \in Nat, NEW n \in Nat, r < c, r \div PageSize > n
      PROVE  ~(c <= (n + 1) * PageSize)
  <2>1. (n + 1) * PageSize <= (r \div PageSize) * PageSize
    BY <1>1, <1>2, <1>4
  <2> QED
    BY <1>1, <1>2, <1>4, <2>1
<1> QED
  BY <1>2, <1>3, <1>4

\* A series moves to a later page only if others are added before it, and is on
\* the page asked for, or on a later one of a listing that goes on.
LEMMA SeriesListed ==
    ASSUME TypeOK, NEW s \in Series
    PROVE  /\ PageOfSeries(s) \in Nat
           /\ \A n \in Nat : s \in remote.series /\ PageOfSeries(s) >= n =>
                \/ s \in SeriesPage(n).series
                \/ (PageOfSeries(s) > n /\ ~SeriesPage(n).last)
<1> DEFINE before == {y \in remote.series : y < s}
<1>1. IsFiniteSet(remote.series) /\ Cardinality(remote.series) \in Nat
  BY MirrorAssumption, FS_Subset, FS_CardinalityType DEF TypeOK, Library
<1>2. IsFiniteSet(before) /\ Cardinality(before) \in Nat
  BY <1>1, FS_Subset, FS_CardinalityType
<1>3. s \in remote.series => Cardinality(before) < Cardinality(remote.series)
  <2> SUFFICES ASSUME s \in remote.series
               PROVE  Cardinality(before) < Cardinality(remote.series)
    OBVIOUS
  <2>1. before \in SUBSET remote.series /\ s \notin before
    BY MirrorAssumption
  <2> QED
    BY <1>1, <1>2, <2>1, FS_Subset
<1>4. PageOfSeries(s) = Cardinality(before) \div PageSize
  BY DEF PageOfSeries
<1> HIDE DEF before
<1>5. PageOfSeries(s) \in Nat
  BY <1>2, <1>4, Division
<1>6. ASSUME NEW n \in Nat, s \in remote.series, PageOfSeries(s) >= n
      PROVE  s \in SeriesPage(n).series \/ (PageOfSeries(s) > n /\ ~SeriesPage(n).last)
  <2>1. CASE PageOfSeries(s) = n
    BY <1>6, <2>1, SeriesPageIs
  <2>2. CASE PageOfSeries(s) > n
    <3>1. ~(Cardinality(remote.series) <= (n + 1) * PageSize)
      BY <1>1, <1>2, <1>3, <1>4, <1>6, <2>2, Division
    <3> QED
      BY <2>2, <3>1, SeriesPageIs
  <2> QED
    BY <1>5, <1>6, <2>1, <2>2
<1> QED
  BY <1>5, <1>6

LEMMA BookListed ==
    ASSUME TypeOK, NEW b \in Book
    PROVE  /\ PageOfBook(b) \in Nat
           /\ \A n \in Nat : b \in Kept(remote) /\ PageOfBook(b) >= n =>
                \/ b \in Kept(BooksPage(b[1], n))
                \/ (PageOfBook(b) > n /\ ~BooksPage(b[1], n).last)
<1> DEFINE listed == Kept(remote) \cap In(b[1])
           before == {y \in listed : y[2] < b[2]}
<1>1. IsFiniteSet(listed) /\ Cardinality(listed) \in Nat
  BY BookFinite, FS_Subset, FS_CardinalityType DEF Kept
<1>2. IsFiniteSet(before) /\ Cardinality(before) \in Nat
  BY <1>1, FS_Subset, FS_CardinalityType
<1>3. b \in Kept(remote) => b \in listed /\ Cardinality(before) < Cardinality(listed)
  <2> SUFFICES ASSUME b \in Kept(remote)
               PROVE  b \in listed /\ Cardinality(before) < Cardinality(listed)
    OBVIOUS
  <2>1. b \in listed /\ b[2] \in Nat
    BY MirrorAssumption DEF In, Book
  <2>2. before \in SUBSET listed /\ b \notin before
    BY <2>1
  <2> QED
    BY <1>1, <1>2, <2>1, <2>2, FS_Subset
<1>4. PageOfBook(b) = Cardinality(before) \div PageSize
  BY DEF PageOfBook
<1>5. ASSUME NEW n \in Nat
      PROVE  /\ b \in listed /\ PageOfBook(b) = n => b \in Kept(BooksPage(b[1], n))
             /\ BooksPage(b[1], n).last = (Cardinality(listed) <= (n + 1) * PageSize)
  <2>1. ASSUME b \in listed, PageOfBook(b) = n
        PROVE  b \in Kept(BooksPage(b[1], n))
    <3>1. BooksPage(b[1], n).books[b] = remote.books[b]
      BY <2>1, BooksPageIs
    <3> QED
      BY <2>1, <3>1 DEF Kept
  <2> QED
    BY <2>1, BooksPageIs
<1> HIDE DEF before, listed
<1>6. PageOfBook(b) \in Nat
  BY <1>2, <1>4, Division
<1>7. ASSUME NEW n \in Nat, b \in Kept(remote), PageOfBook(b) >= n
      PROVE  b \in Kept(BooksPage(b[1], n)) \/ (PageOfBook(b) > n /\ ~BooksPage(b[1], n).last)
  <2>1. CASE PageOfBook(b) = n
    BY <1>3, <1>5, <1>7, <2>1
  <2>2. CASE PageOfBook(b) > n
    <3>1. ~(Cardinality(listed) <= (n + 1) * PageSize)
      BY <1>1, <1>2, <1>3, <1>4, <1>7, <2>2, Division
    <3> QED
      BY <1>5, <2>2, <3>1
  <2> QED
    BY <1>6, <1>7, <2>1, <2>2
<1> QED
  BY <1>6, <1>7

LEMMA PagesGrow ==
    ASSUME TypeOK, TypeOK'
    PROVE  /\ \A s \in Series : /\ PageOfSeries(s) \in Nat /\ PageOfSeries(s)' \in Nat
                                /\ remote.series \subseteq remote'.series
                                     => PageOfSeries(s)' >= PageOfSeries(s)
           /\ \A b \in Book : /\ PageOfBook(b) \in Nat /\ PageOfBook(b)' \in Nat
                              /\ Kept(remote) \cap In(b[1]) \subseteq Kept(remote')
                                   => PageOfBook(b)' >= PageOfBook(b)
<1>1. ASSUME NEW s \in Series
      PROVE  /\ PageOfSeries(s) \in Nat /\ PageOfSeries(s)' \in Nat
             /\ remote.series \subseteq remote'.series => PageOfSeries(s)' >= PageOfSeries(s)
  <2> DEFINE before == {y \in remote.series : y < s}
             after == {y \in remote'.series : y < s}
  <2>1. IsFiniteSet(before) /\ IsFiniteSet(after)
    <3>1. before \in SUBSET Series /\ after \in SUBSET Series
      BY DEF TypeOK, Library
    <3> QED
      BY <3>1, MirrorAssumption, FS_Subset
  <2>2. Cardinality(before) \in Nat /\ Cardinality(after) \in Nat
    BY <2>1, FS_CardinalityType
  <2>3. remote.series \subseteq remote'.series => Cardinality(before) <= Cardinality(after)
    <3> SUFFICES ASSUME remote.series \subseteq remote'.series
                 PROVE  Cardinality(before) <= Cardinality(after)
      OBVIOUS
    <3>1. before \in SUBSET after
      OBVIOUS
    <3> QED
      BY <2>1, <3>1, FS_Subset
  <2>4. PageOfSeries(s) = Cardinality(before) \div PageSize /\ PageOfSeries(s)' = Cardinality(after) \div PageSize
    BY DEF PageOfSeries
  <2> HIDE DEF before, after
  <2> QED
    BY <2>2, <2>3, <2>4, Division
<1>2. ASSUME NEW b \in Book
      PROVE  /\ PageOfBook(b) \in Nat /\ PageOfBook(b)' \in Nat
             /\ Kept(remote) \cap In(b[1]) \subseteq Kept(remote') => PageOfBook(b)' >= PageOfBook(b)
  <2> DEFINE before == {y \in Kept(remote) \cap In(b[1]) : y[2] < b[2]}
             after == {y \in Kept(remote') \cap In(b[1]) : y[2] < b[2]}
  <2>1. IsFiniteSet(before) /\ IsFiniteSet(after)
    <3>1. before \in SUBSET Book /\ after \in SUBSET Book
      BY DEF In
    <3> QED
      BY <3>1, BookFinite, FS_Subset
  <2>2. Cardinality(before) \in Nat /\ Cardinality(after) \in Nat
    BY <2>1, FS_CardinalityType
  <2>3. Kept(remote) \cap In(b[1]) \subseteq Kept(remote') => Cardinality(before) <= Cardinality(after)
    <3> SUFFICES ASSUME Kept(remote) \cap In(b[1]) \subseteq Kept(remote')
                 PROVE  Cardinality(before) <= Cardinality(after)
      OBVIOUS
    <3>1. before \in SUBSET after
      OBVIOUS
    <3> QED
      BY <2>1, <3>1, FS_Subset
  <2>4. PageOfBook(b) = Cardinality(before) \div PageSize /\ PageOfBook(b)' = Cardinality(after) \div PageSize
    BY DEF PageOfBook
  <2> HIDE DEF before, after
  <2> QED
    BY <2>2, <2>3, <2>4, Division
<1> QED
  BY <1>1, <1>2

-------------------------------------------------------------------------------
(* One sync at a time, and no events                                         *)

\* The lock lets one sync in; one that is not under way holds nothing.
OneSync ==
    /\ \A m \in Mode : task[m].stage = "idle" => task[m] = Idle
    /\ \A m, n \in Mode : task[m].stage # "idle" /\ task[n].stage # "idle" => m = n

\* Without the event stream only syncs write the mirror.
NoEvents == hint = NoHint /\ news = {} /\ tomb.book = {}

\* The three ways on after a page: its next page, the next series, the prune.
WentOn(m, s, p) ==
    task' = [task EXCEPT ![m] = [task[m] EXCEPT !.stage = "fetch", !.at = [series |-> s, page |-> p],
                                                !.left = {x \in task[m].left : x >= s}, !.answer = NoPage]]

LEMMA WentOnIs ==
    ASSUME TypeOK, NEW m \in Mode, NEW s, NEW p, WentOn(m, s, p)
    PROVE  /\ \A n \in Mode : n # m => task'[n] = task[n]
           /\ task'[m].stage = "fetch" /\ task'[m].at = [series |-> s, page |-> p]
           /\ task'[m].left = {x \in task[m].left : x >= s} /\ task'[m].answer = NoPage
           /\ task'[m].step = task[m].step /\ task'[m].scope = task[m].scope
           /\ task'[m].known = task[m].known /\ task'[m].seen = task[m].seen
           /\ task'[m].resumed = task[m].resumed /\ task'[m].calm = task[m].calm
           /\ task'[m].shifted = task[m].shifted /\ task'[m].steady = task[m].steady
           /\ task'[m].lost = task[m].lost
<1>1. PICK left, at : left = {x \in task[m].left : x >= s} /\ at = [series |-> s, page |-> p]
  OBVIOUS
<1>2. task' = [task EXCEPT ![m] = [task[m] EXCEPT !.stage = "fetch", !.at = at, !.left = left,
                                                  !.answer = NoPage]]
  BY <1>1 DEF WentOn
<1>3. task[m] \in Task /\ task \in [Mode -> Task]
  BY DEF TypeOK
<1> QED
  BY <1>1, <1>2, <1>3 DEF Task

LEMMA CheckpointCases ==
    ASSUME TypeOK, NEW m \in Mode, Checkpoint(m)
    PROVE  LET t == task[m]
               later == t.left \ {t.at.series} IN
           /\ t.stage = "checkpoint" /\ task'[m].stage \in {"fetch", "prune"}
           /\ \/ /\ ~t.answer.last
                 /\ WentOn(m, t.at.series, t.at.page + 1)
                 /\ IF m = "bootstrap" \/ t.step = "books"
                    THEN state' = CheckpointEntity(t.step, t.at.series, t.at.page + 1)
                    ELSE UNCHANGED state
              \/ /\ t.answer.last /\ later # {}
                 /\ WentOn(m, Min(later), 0)
                 /\ state' = CheckpointEntity(t.step, Min(later), 0)
              \/ /\ t.answer.last /\ later = {}
                 /\ task' = [task EXCEPT ![m].stage = "prune"] /\ UNCHANGED state
<1> DEFINE t == task[m]
           later == t.left \ {t.at.series}
<1>1. CASE ~t.answer.last
  <2>1. WentOn(m, t.at.series, t.at.page + 1)
    BY <1>1 DEF Checkpoint, GoOn, WentOn
  <2> QED
    BY <1>1, <2>1, WentOnIs DEF Checkpoint, GoOn
<1>2. CASE t.answer.last /\ later # {}
  <2>1. WentOn(m, Min(later), 0)
    BY <1>2 DEF Checkpoint, GoOn, WentOn
  <2> QED
    BY <1>2, <2>1, WentOnIs DEF Checkpoint, GoOn
<1>3. CASE t.answer.last /\ later = {}
  <2>1. t.stage = "checkpoint" /\ task' = [task EXCEPT ![m].stage = "prune"] /\ UNCHANGED state
    BY <1>3 DEF Checkpoint
  <2>2. task'[m].stage = "prune"
    BY <2>1 DEF TypeOK, Task
  <2> QED
    BY <1>3, <2>1, <2>2
<1> QED
  BY <1>1, <1>2, <1>3 DEF Checkpoint

LEMMA StepIsOfOne ==
    ASSUME TypeOK, NEW m \in Mode, Step(m)
    PROVE  /\ task[m].stage # "idle" /\ (task'[m].stage = "idle" => task'[m] = Idle)
           /\ \A n \in Mode : n # m => task'[n] = task[n]
           /\ UNCHANGED <<remote, hint, news, linked, clock, spent, promised>>
<1>1. \E t : task' = [task EXCEPT ![m] = t]
  <2>1. CASE Skip(m)
    BY <2>1 DEF Skip
  <2>2. CASE EnterSeries(m) \/ EnterBooks(m)
    BY <2>2 DEF EnterSeries, EnterBooks
  <2>3. CASE Fetch(m) \/ Save(m)
    BY <2>3 DEF Fetch, Save, TypeOK
  <2>4. CASE Checkpoint(m)
    BY <2>4, CheckpointCases DEF WentOn, TypeOK
  <2>5. CASE Prune(m) \/ Complete(m)
    BY <2>5 DEF Prune, Complete, TypeOK
  <2> QED
    BY <2>1, <2>2, <2>3, <2>4, <2>5 DEF Step
<1>2. \A n \in Mode : n # m => task'[n] = task[n]
  BY <1>1 DEF TypeOK
<1>3. task[m].stage # "idle" /\ (task'[m].stage = "idle" => task'[m] = Idle)
  <2> USE DEF TypeOK, Task
  <2>1. CASE Skip(m)
    BY <2>1 DEF Skip, Idle
  <2>2. CASE EnterSeries(m)
    BY <2>2 DEF EnterSeries, Due
  <2>3. CASE EnterBooks(m)
    BY <2>3 DEF EnterBooks, Due
  <2>4. CASE Fetch(m)
    BY <2>4 DEF Fetch
  <2>5. CASE Save(m)
    BY <2>5 DEF Save
  <2>6. CASE Checkpoint(m)
    <3>1. task'[m].stage \in {"fetch", "prune"}
      BY <2>6, CheckpointCases
    <3> QED
      BY <2>6, <3>1 DEF Checkpoint
  <2>7. CASE Prune(m)
    BY <2>7 DEF Prune
  <2>8. CASE Complete(m)
    BY <2>8 DEF Complete, Idle
  <2> QED
    BY <2>1, <2>2, <2>3, <2>4, <2>5, <2>6, <2>7, <2>8 DEF Step
<1>4. UNCHANGED <<remote, hint, news, linked, clock, spent, promised>>
  BY DEF Step, Skip, EnterSeries, EnterBooks, Fetch, Save, Checkpoint, Prune, Complete
<1> QED
  BY <1>2, <1>3, <1>4

\* What anyone else does to a sync under way leaves its work alone.
LEMMA NoticedWork ==
    ASSUME TypeOK, NEW shift \in BOOLEAN, task' = Noticed(shift), NEW m \in Mode
    PROVE  /\ task'[m].stage = task[m].stage
           /\ task[m].stage = "idle" => task'[m] = Idle
           /\ task[m].stage # "idle" =>
                /\ task'[m].step = task[m].step /\ task'[m].at = task[m].at
                /\ task'[m].left = task[m].left /\ task'[m].scope = task[m].scope
                /\ task'[m].known = task[m].known /\ task'[m].seen = task[m].seen
                /\ task'[m].answer = task[m].answer /\ task'[m].resumed = task[m].resumed
                /\ task'[m].lost = task[m].lost
                /\ task'[m].calm = FALSE /\ task'[m].shifted = (task[m].shifted \/ shift)
                /\ task'[m].steady = task[m].steady \cap Kept(remote')
BY DEF TypeOK, Task, Noticed, Idle

LEMMA NoticedSteady ==
    ASSUME TypeOK, NEW shift \in BOOLEAN, task' = Noticed(shift)
    PROVE  \A m \in Mode : task'[m].steady \subseteq Kept(remote')
<1> SUFFICES ASSUME NEW m \in Mode
             PROVE  task'[m].steady \subseteq Kept(remote')
  OBVIOUS
<1>1. CASE task[m].stage = "idle"
  <2>1. task'[m] = Idle
    BY <1>1, NoticedWork
  <2> QED
    BY <2>1 DEF Idle
<1>2. CASE task[m].stage # "idle"
  BY <1>2, NoticedWork
<1> QED
  BY <1>1, <1>2

LEMMA OneSyncInductive ==
    ASSUME TypeOK, OneSync, [Next]_vars
    PROVE  OneSync'
<1>1. ASSUME NEW m \in Mode, Step(m)
      PROVE  OneSync'
  BY <1>1, StepIsOfOne DEF OneSync
<1>2. ASSUME NEW shift \in BOOLEAN, task' = Noticed(shift)
      PROVE  OneSync'
  <2>1. \A m \in Mode :
          task'[m].stage = task[m].stage /\ (task[m].stage = "idle" => task'[m] = Idle)
    BY <1>2, NoticedWork
  <2> QED
    BY <2>1 DEF OneSync
<1>3. ASSUME NEW m \in Mode, NEW fresh \in BOOLEAN, Start(m, fresh)
      PROVE  OneSync'
  BY <1>3, IdleTyped DEF Start, LockFree, OneSync, TypeOK, Idle
<1>4. ASSUME NEW m \in Mode, Fails(m)
      PROVE  OneSync'
  BY <1>4 DEF Fails, OneSync, TypeOK, Idle
<1>5. CASE Crash
  BY <1>5 DEF Crash, OneSync, Idle
<1>6. CASE UNCHANGED vars
  BY <1>6 DEF vars, OneSync
<1>7. Events \/ Unlink \/ (\E b \in Book : Publish(b)) \/ (\E S, B : Remove(S, B)) =>
        \E shift \in BOOLEAN : task' = Noticed(shift)
  BY DEF Events, Apply, Refetch, ApplyGone, Unlink, Publish, Remove
<1> QED
  BY <1>1, <1>2, <1>3, <1>4, <1>5, <1>6, <1>7 DEF Next, World

LEMMA NoEventsInductive ==
    ASSUME "event" \notin Rough, TypeOK, NoEvents, [Next]_vars
    PROVE  NoEvents' /\ ~Events
<1>1. ~Events
  BY DEF NoEvents, Events, Apply
<1>2. hint' = NoHint /\ news' = {}
  BY <1>1 DEF NoEvents, Next, World, Publish, Remove, Tell, Start, Fails, Crash, Unlink, vars,
     Step, Skip, EnterSeries, EnterBooks, Fetch, Save, Checkpoint, Prune, Complete
<1>3. tomb'.book = {}
  <2>1. ASSUME NEW m \in Mode, Save(m) \/ Prune(m)
        PROVE  tomb'.book = {}
    BY <2>1 DEF Save, Prune, Cleared, NoEvents, TypeOK
  <2>2. CASE Unlink
    BY <2>2 DEF Unlink, NoTombs
  <2>3. Unlink \/ (\E m \in Mode : Save(m) \/ Prune(m)) \/ UNCHANGED tomb
    BY <1>1 DEF Next, World, Publish, Remove, Start, Fails, Crash, vars,
       Step, Skip, EnterSeries, EnterBooks, Fetch, Checkpoint, Complete
  <2> QED
    BY <2>1, <2>2, <2>3 DEF NoEvents
<1> QED
  BY <1>1, <1>2, <1>3 DEF NoEvents

-------------------------------------------------------------------------------
(* What the steps of a sync do                                               *)

\* Its place and its history stay.
Same(m) ==
    /\ task'[m].step = task[m].step /\ task'[m].at = task[m].at
    /\ task'[m].left = task[m].left /\ task'[m].scope = task[m].scope
    /\ task'[m].known = task[m].known /\ task'[m].resumed = task[m].resumed
    /\ task'[m].calm = task[m].calm /\ task'[m].shifted = task[m].shifted
    /\ task'[m].steady = task[m].steady

LEMMA FetchIs ==
    ASSUME TypeOK, NEW m \in Mode, Fetch(m)
    PROVE  /\ task[m].stage = "fetch" /\ task'[m].stage = "save" /\ Same(m)
           /\ task'[m].seen = task[m].seen /\ task'[m].lost = task[m].lost
           /\ task'[m].answer = IF task[m].step = "series" THEN SeriesPage(task[m].at.page)
                                ELSE BooksPage(task[m].at.series, task[m].at.page)
BY DEF Fetch, Same, TypeOK, Task

LEMMA SaveIs ==
    ASSUME TypeOK, NEW m \in Mode, Save(m)
    PROVE  /\ task[m].stage = "save" /\ task'[m].stage = "checkpoint" /\ Same(m)
           /\ task'[m].answer = task[m].answer /\ task'[m].lost = task[m].lost
           /\ task'[m].seen.series = task[m].seen.series \cup task[m].answer.series
           /\ task'[m].seen.books = task[m].seen.books \cup Kept(task[m].answer)
           /\ row'.series = row.series \cup (IF m = "bootstrap" THEN task[m].answer.series
                                             ELSE task[m].answer.series \ task[m].known.series)
           /\ \A b \in Book : row'.books[b] = IF Dirty(m, b) THEN task[m].answer.books[b] ELSE row.books[b]
           /\ m = "reconcile" => tomb'.series = tomb.series \ task[m].answer.series
                                 /\ tomb'.books = tomb.books \ Kept(task[m].answer)
BY DEF Save, Same, Cleared, TypeOK, Task

LEMMA PruneIs ==
    ASSUME TypeOK, NEW m \in Mode, Prune(m)
    PROVE  LET t == task[m]
               S == IF m = "reconcile" /\ t.step = "series" THEN row.series \ t.seen.series ELSE {}
               B == IF m = "reconcile" /\ t.step = "books"
                    THEN {b \in Kept(row) : b[1] \in t.scope /\ b \notin t.seen.books} ELSE {} IN
           /\ t.stage = "prune" /\ task'[m].stage = "complete" /\ Same(m)
           /\ task'[m].answer = t.answer /\ task'[m].seen = t.seen
           /\ task'[m].lost = t.lost \cup (t.steady \cap (Kept(row) \ Kept(row')))
           /\ row'.series = row.series \ S
           /\ Kept(row') = {b \in Kept(row) : b \notin B /\ b[1] \notin S}
           /\ \A b \in Kept(row') : row'.books[b] = row.books[b]
           /\ tomb'.series = tomb.series \cup S
           /\ tomb'.books = tomb.books \cup B \cup {b \in Kept(row) : b[1] \in S}
           /\ UNCHANGED state
<1> DEFINE S == IF m = "reconcile" /\ task[m].step = "series" THEN row.series \ task[m].seen.series ELSE {}
           B == IF m = "reconcile" /\ task[m].step = "books"
                THEN {b \in Kept(row) : b[1] \in task[m].scope /\ b \notin task[m].seen.books} ELSE {}
<1>1. row' = Without(row, S, B)
  BY DEF Prune
<1>2. tomb' = [tomb EXCEPT !.series = @ \cup S, !.books = @ \cup B \cup {b \in Kept(row) : b[1] \in S}]
  BY DEF Prune
<1> HIDE DEF S, B
<1>3. /\ row'.series = row.series \ S
      /\ Kept(row') = {b \in Kept(row) : b \notin B /\ b[1] \notin S}
      /\ \A b \in Kept(row') : row'.books[b] = row.books[b]
  BY <1>1 DEF Without, Kept, TypeOK, Library, Absent
<1>4. /\ tomb'.series = tomb.series \cup S
      /\ tomb'.books = tomb.books \cup B \cup {b \in Kept(row) : b[1] \in S}
  BY <1>2 DEF TypeOK
<1>5. /\ task[m].stage = "prune" /\ task'[m].stage = "complete" /\ Same(m)
      /\ task'[m].answer = task[m].answer /\ task'[m].seen = task[m].seen
      /\ task'[m].lost = task[m].lost \cup (task[m].steady \cap (Kept(row) \ Kept(row')))
  BY DEF Prune, Same, TypeOK, Task
<1> QED
  BY <1>3, <1>4, <1>5 DEF S, B, Prune

-------------------------------------------------------------------------------
(* Stamps                                                                    *)

\* Nobody holds an older stamp of a book than the mirror does.
StampInv ==
    \A b \in Book :
        /\ row.books[b] <= clock /\ remote.books[b] <= clock
        /\ remote.books[b] # Absent => row.books[b] <= remote.books[b]
        /\ \A m \in Mode : task[m].stage = "save" /\ task[m].answer.books[b] # Absent =>
            /\ row.books[b] <= task[m].answer.books[b] /\ task[m].answer.books[b] <= clock
            /\ remote.books[b] # Absent => task[m].answer.books[b] <= remote.books[b]

StampStep == \A b \in Book : row'.books[b] # Absent => row'.books[b] >= row.books[b]

LEMMA StampTypes ==
    ASSUME TypeOK
    PROVE  /\ clock \in Nat
           /\ \A b \in Book : row.books[b] \in Nat /\ remote.books[b] \in Nat
           /\ \A m \in Mode, b \in Book : task[m].answer.books[b] \in Nat
BY MirrorAssumption DEF TypeOK, Library, Task, Page, Stamp

\* Whoever leaves rows, server and answers in hand alone leaves the stamps in order.
LEMMA StampFrame ==
    ASSUME TypeOK, StampInv, UNCHANGED <<row, remote, clock>>,
           \A m \in Mode : task'[m].stage = "save" => task[m].stage = "save" /\ task'[m].answer = task[m].answer
    PROVE  StampInv' /\ StampStep
BY StampTypes DEF StampInv, StampStep

LEMMA StampsOfStep ==
    ASSUME TypeOK, StampInv, OneSync, NEW m \in Mode, Step(m)
    PROVE  StampInv' /\ StampStep
<1>1. UNCHANGED <<remote, clock>> /\ \A n \in Mode : n # m => task[n].stage = "idle" /\ task'[n] = task[n]
  BY StepIsOfOne DEF OneSync
<1>2. CASE Fetch(m)
  <2>1. task'[m].stage = "save" /\ UNCHANGED row
    BY <1>2, FetchIs DEF Fetch
  <2>2. \A b \in Book : task'[m].answer.books[b] \in {Absent, remote.books[b]}
    <3>1. CASE task[m].step = "series"
      BY <1>2, <3>1, FetchIs, SeriesPageIs
    <3>2. CASE task[m].step # "series"
      <4>1. task'[m].answer = BooksPage(task[m].at.series, task[m].at.page)
        BY <1>2, <3>2, FetchIs
      <4>2. \A b \in Book : BooksPage(task[m].at.series, task[m].at.page).books[b] \in {Absent, remote.books[b]}
        BY BooksAnswered
      <4> QED
        BY <4>1, <4>2
    <3> QED
      BY <3>1, <3>2
  <2> QED
    BY <1>1, <2>1, <2>2, StampTypes DEF StampInv, StampStep, Absent
<1>3. CASE Save(m)
  <2>1. task[m].stage = "save" /\ task'[m].stage = "checkpoint"
    BY <1>3, SaveIs
  <2>2. \A b \in Book : \/ row'.books[b] = row.books[b]
                        \/ row'.books[b] = task[m].answer.books[b] /\ task[m].answer.books[b] # Absent
    BY <1>3, SaveIs DEF Dirty
  <2> QED
    BY <1>1, <2>1, <2>2, StampTypes DEF StampInv, StampStep
<1>4. CASE Prune(m)
  <2>1. task'[m].stage = "complete"
    BY <1>4, PruneIs
  <2>2. \A b \in Book : row'.books[b] \in {Absent, row.books[b]}
    BY <1>4, PruneIs DEF Kept
  <2> QED
    BY <1>1, <2>1, <2>2, StampTypes DEF StampInv, StampStep, Absent
<1>5. CASE Skip(m) \/ EnterSeries(m) \/ EnterBooks(m) \/ Checkpoint(m) \/ Complete(m)
  <2>1. task'[m].stage # "save"
    <3>1. CASE Skip(m)
      BY <3>1 DEF Skip, Idle, TypeOK, Task
    <3>2. CASE EnterSeries(m)
      BY <3>2 DEF EnterSeries, TypeOK, Task
    <3>3. CASE EnterBooks(m)
      BY <3>3 DEF EnterBooks, TypeOK, Task
    <3>4. CASE Checkpoint(m)
      BY <3>4, CheckpointCases
    <3>5. CASE Complete(m)
      BY <3>5 DEF Complete, Idle, TypeOK, Task
    <3> QED
      BY <1>5, <3>1, <3>2, <3>3, <3>4, <3>5
  <2>2. UNCHANGED row
    BY <1>5 DEF Skip, EnterSeries, EnterBooks, Checkpoint, Complete
  <2> QED
    BY <1>1, <2>1, <2>2, StampFrame
<1> QED
  BY <1>2, <1>3, <1>4, <1>5 DEF Step

LEMMA StampsOfWorld ==
    ASSUME TypeOK, TypeOK', StampInv, World
    PROVE  StampInv' /\ StampStep
<1>1. ASSUME NEW shift \in BOOLEAN, task' = Noticed(shift)
      PROVE  \A m \in Mode : task'[m].stage = "save" => task[m].stage = "save" /\ task'[m].answer = task[m].answer
  BY <1>1, NoticedWork
<1>2. ASSUME NEW b \in Book, Publish(b)
      PROVE  StampInv' /\ StampStep
  <2>1. clock' = clock + 1 /\ UNCHANGED row
    BY <1>2 DEF Publish
  <2>2. \A c \in Book : remote'.books[c] = IF c = b THEN clock + 1 ELSE remote.books[c]
    BY <1>2 DEF Publish, TypeOK, Library
  <2>3. \A m \in Mode : task'[m].stage = "save" => task[m].stage = "save" /\ task'[m].answer = task[m].answer
    BY <1>1, <1>2 DEF Publish
  <2> QED
    BY <2>1, <2>2, <2>3, StampTypes DEF StampInv, StampStep
<1>3. ASSUME NEW S, NEW B, Remove(S, B)
      PROVE  StampInv' /\ StampStep
  <2>1. clock' = clock + 1 /\ UNCHANGED row
    BY <1>3 DEF Remove
  <2>2. \A c \in Book : remote'.books[c] \in {Absent, remote.books[c]}
    BY <1>3 DEF Remove, Without, TypeOK, Library
  <2>3. \A m \in Mode : task'[m].stage = "save" => task[m].stage = "save" /\ task'[m].answer = task[m].answer
    BY <1>1, <1>3 DEF Remove
  <2> QED
    BY <2>1, <2>2, <2>3, StampTypes DEF StampInv, StampStep, Absent
<1>4. ASSUME NEW m \in Mode, NEW fresh \in BOOLEAN, Start(m, fresh)
      PROVE  StampInv' /\ StampStep
  <2>1. \A n \in Mode : task'[n].stage = "save" => task[n].stage = "save" /\ task'[n].answer = task[n].answer
    BY <1>4, IdleTyped DEF Start, TypeOK, Idle
  <2> QED
    BY <1>4, <2>1, StampFrame DEF Start
<1>5. ASSUME NEW m \in Mode, Fails(m)
      PROVE  StampInv' /\ StampStep
  <2>1. \A n \in Mode : task'[n].stage = "save" => task[n].stage = "save" /\ task'[n].answer = task[n].answer
    BY <1>5 DEF Fails, TypeOK, Idle
  <2> QED
    BY <1>5, <2>1, StampFrame DEF Fails
<1>6. CASE Crash
  BY <1>6, StampFrame DEF Crash, Idle
<1>7. CASE Unlink
  <2>1. UNCHANGED <<remote, clock>> /\ \A b \in Book : row'.books[b] = Absent
    BY <1>7 DEF Unlink, Nothing
  <2>2. \A m \in Mode : task'[m].stage = "save" => task[m].stage = "save" /\ task'[m].answer = task[m].answer
    BY <1>1, <1>7 DEF Unlink
  <2> QED
    BY <2>1, <2>2, StampTypes DEF StampInv, StampStep, Absent
<1> QED
  BY <1>2, <1>3, <1>4, <1>5, <1>6, <1>7 DEF World

LEMMA InitStamps == Init => StampInv /\ OneSync /\ NoEvents
BY DEF Init, StampInv, OneSync, NoEvents, Nothing, NoTombs, Idle, Absent, Mode

\* A mirrored stamp is never replaced by an older one as long as only syncs
\* write the mirror: the refetch of an event may be overtaken by a sweep.
THEOREM RowsNeverGoBack ==
    ASSUME "event" \notin Rough
    PROVE  Spec => RowNeverGoesBack
<1>1. ASSUME TypeOK, TypeOK', OneSync, NoEvents, StampInv, [Next]_vars
      PROVE  StampInv' /\ StampStep
  <2>1. CASE UNCHANGED vars
    BY <1>1, <2>1, StampFrame DEF vars
  <2> QED
    BY <1>1, <2>1, NoEventsInductive, StampsOfStep, StampsOfWorld DEF Next
<1>2. StampStep => [\A b \in Book : row'.books[b] # Absent => row'.books[b] >= row.books[b]]_vars
  BY DEF StampStep
<1> QED
  BY <1>1, <1>2, TypeCorrect, InitStamps, OneSyncInductive, NoEventsInductive, PTL DEF Spec, RowNeverGoesBack

-------------------------------------------------------------------------------
(* What a sync has yet to come to                                            *)

\* What is on page p of the listing the sync is at is yet to be told, or in
\* the answer the sync holds.
Ahead(t, p, answered) ==
    /\ t.stage \notin {"prune", "complete"}
    /\ t.stage = "fetch" => p >= t.at.page
    /\ t.stage = "save" => answered \/ (p > t.at.page /\ ~t.answer.last)
    /\ t.stage = "checkpoint" => p > t.at.page /\ ~t.answer.last

SeriesAhead(m, s) == Ahead(task[m], PageOfSeries(s), s \in task[m].answer.series)

BookAhead(m, b) ==
    /\ task[m].stage \notin {"prune", "complete"}
    /\ b[1] \in task[m].left
    /\ b[1] = task[m].at.series => Ahead(task[m], PageOfBook(b), b \in Kept(task[m].answer))

\* Nothing has moved the book's place to an earlier page under the sync's feet.
Sure(m, b) == b \in promised \/ (b \in task[m].steady /\ ~task[m].shifted)

ServerInv ==
    /\ \A b \in Kept(remote) : b[1] \in remote.series
    /\ promised \subseteq Kept(remote)
    /\ \A m \in Mode : task[m].steady \subseteq Kept(remote)

\* The series step will come to every promised series that is not mirrored, and
\* a sweep to every series of a sure book it has not been told of.
SeriesInv(m) ==
    task[m].step = "series" /\ task[m].stage # "idle" =>
        /\ task[m].left = {}
        /\ task[m].stage # "enter" =>
            \A b \in Book :
                /\ b \in promised /\ b[1] \notin row.series => SeriesAhead(m, b[1])
                /\ m = "reconcile" /\ Sure(m, b) /\ b[1] \notin task[m].seen.series
                     => SeriesAhead(m, b[1])
                /\ b \in promised /\ b[1] \in task[m].known.series => b[1] \in row.series

\* So will the books step to every promised book that is not mirrored, and a
\* sweep to every sure book it could delete.
BooksInv(m) ==
    task[m].step = "books" /\ task[m].stage # "idle" =>
        /\ \A b \in promised : b[1] \in row.series
        /\ task[m].stage # "enter" =>
            /\ \A s \in task[m].left : s >= task[m].at.series
            /\ \A b \in Book :
                /\ b \in promised /\ b \notin Kept(row) => BookAhead(m, b)
                /\ m = "reconcile" /\ Sure(m, b) /\ b \in Kept(row) /\ b[1] \in task[m].scope
                   /\ b \notin task[m].seen.books => BookAhead(m, b)
                /\ b \in promised /\ b \in Kept(task[m].known) => b \in Kept(row)

\* The stored cursors never point past what is promised and not mirrored.
CursorInv ==
    \A b \in promised :
        /\ StepIsComplete("series") => b[1] \in row.series
        /\ b[1] \notin row.series => PageOfSeries(b[1]) >= state["series"].cursor.page
        /\ b \notin Kept(row) =>
            \/ b[1] > state["books"].cursor.series
            \/ /\ b[1] = state["books"].cursor.series
               /\ PageOfBook(b) >= state["books"].cursor.page

CoverInv ==
    /\ ServerInv /\ CursorInv /\ OnlyShiftsMislead
    /\ \A m \in Mode : SeriesInv(m) /\ BooksInv(m)

LEMMA BookParts ==
    /\ \A b \in Book : b[1] \in Series /\ b[1] \in Nat /\ b[1] > 0
    /\ 0 \notin Series /\ Series \subseteq Nat
<1>1. 0 \notin Series /\ Series \subseteq Nat
  BY MirrorAssumption
<1>2. \A s \in Series : s \in Nat /\ s > 0
  BY MirrorAssumption
<1>3. \A b \in Book : b[1] \in Series
  BY DEF Book
<1> QED
  BY <1>1, <1>2, <1>3

LEMMA CursorParts == \A c \in Cursor : c.series \in Nat /\ c.page \in Nat
<1>1. \A s \in Series : s \in Nat
  BY MirrorAssumption
<1> QED
  BY <1>1 DEF Cursor

\* What happens around a sync keeps its place, as long as the books that stay sure
\* do not move to an earlier page.
LEMMA WorkFrame ==
    ASSUME TypeOK, TypeOK', CoverInv, NEW shift \in BOOLEAN, task' = Noticed(shift),
           promised' \subseteq promised, UNCHANGED state \/ promised' = {},
           row' = row \/ (promised' = {} /\ row' = Nothing),
           \A b \in Book : b \in promised' \/ ~shift =>
               remote.series \subseteq remote'.series /\ Kept(remote) \cap In(b[1]) \subseteq Kept(remote'),
           ServerInv'
    PROVE  CoverInv'
<1>1. \A b \in Book : b \in promised' \/ ~shift =>
        PageOfSeries(b[1])' >= PageOfSeries(b[1]) /\ PageOfBook(b)' >= PageOfBook(b)
  BY PagesGrow, BookParts
<1>2. \A b \in Book : /\ PageOfSeries(b[1]) \in Nat /\ PageOfSeries(b[1])' \in Nat
                      /\ PageOfBook(b) \in Nat /\ PageOfBook(b)' \in Nat
  BY PagesGrow, BookParts
<1>3. CursorInv'
  BY <1>1, <1>2 DEF CoverInv, CursorInv, StepIsComplete, Kept, Nothing, TypeOK, Cursor, Entity
<1>4. ASSUME NEW m \in Mode
      PROVE  SeriesInv(m)' /\ BooksInv(m)' /\ (task'[m].lost # {} => task'[m].shifted)
  <2>1. CASE task[m].stage = "idle"
    <3>1. task'[m] = Idle
      BY <2>1, NoticedWork
    <3>2. task'[m].stage = "idle" /\ task'[m].lost = {}
      BY <3>1 DEF Idle
    <3> QED
      BY <3>2 DEF SeriesInv, BooksInv
  <2>2. CASE task[m].stage # "idle"
    <3>1. /\ task'[m].stage = task[m].stage /\ task'[m].step = task[m].step /\ task'[m].at = task[m].at
          /\ task'[m].left = task[m].left /\ task'[m].scope = task[m].scope
          /\ task'[m].known = task[m].known /\ task'[m].seen = task[m].seen
          /\ task'[m].answer = task[m].answer /\ task'[m].lost = task[m].lost
          /\ task'[m].shifted = (task[m].shifted \/ shift)
          /\ task'[m].steady = task[m].steady \cap Kept(remote')
      BY <2>2, NoticedWork
    <3>2. ASSUME NEW b \in Book, Sure(m, b)'
          PROVE  Sure(m, b) /\ (b \in promised' \/ ~shift)
      BY <3>1, <3>2 DEF Sure
    <3>3. task[m].at.page \in Nat
      BY DEF TypeOK, Task, Cursor
    <3>4. ASSUME NEW b \in Book, b \in promised' \/ ~shift
          PROVE  /\ SeriesAhead(m, b[1]) => SeriesAhead(m, b[1])'
                 /\ BookAhead(m, b) => BookAhead(m, b)'
      BY <1>1, <1>2, <3>1, <3>3, <3>4 DEF SeriesAhead, BookAhead, Ahead, Kept
    <3>5. SeriesInv(m)'
      BY <3>1, <3>2, <3>4 DEF CoverInv, SeriesInv
    <3>6. BooksInv(m)'
      <4>1. CASE row' = row
        BY <3>1, <3>2, <3>4, <4>1 DEF CoverInv, BooksInv
      <4>2. CASE promised' = {} /\ row' = Nothing
        <5>1. Kept(row') = {}
          BY <4>2 DEF Kept, Nothing
        <5> QED
          BY <3>1, <4>2, <5>1 DEF CoverInv, BooksInv
      <4> QED
        BY <4>1, <4>2
    <3> QED
      BY <3>1, <3>5, <3>6 DEF CoverInv, OnlyShiftsMislead
  <2> QED
    BY <2>1, <2>2
<1> QED
  BY <1>3, <1>4 DEF CoverInv, OnlyShiftsMislead

LEMMA CoverOfWorld ==
    ASSUME TypeOK, TypeOK', OneSync, CoverInv, World
    PROVE  CoverInv'
<1>1. ASSUME NEW b \in Book, Publish(b)
      PROVE  CoverInv'
  <2>1. task' = Noticed(FALSE) /\ UNCHANGED <<state, row, promised>>
    BY <1>1 DEF Publish
  <2>2. remote'.series = remote.series \cup {b[1]} /\ Kept(remote') = Kept(remote) \cup {b}
    BY <1>1 DEF Publish, Kept, TypeOK, Library, Absent
  <2>3. \A m \in Mode : task'[m].steady \subseteq Kept(remote')
    BY <2>1, NoticedSteady
  <2>4. ServerInv'
    BY <2>1, <2>2, <2>3 DEF CoverInv, ServerInv
  <2> QED
    BY <2>1, <2>2, <2>4, WorkFrame
<1>2. ASSUME NEW S, NEW B, Remove(S, B), \E s \in Series : S = {} \/ S = {s}
      PROVE  CoverInv'
  <2>1. task' = Noticed(TRUE) /\ UNCHANGED <<state, row>>
    BY <1>2 DEF Remove
  <2>2. promised' = IF S # {} THEN {} ELSE promised \ UNION {In(b[1]) : b \in B}
    BY <1>2 DEF Remove
  <2>3. /\ remote'.series = remote.series \ S
        /\ Kept(remote') = {b \in Kept(remote) : b \notin B /\ b[1] \notin S}
    BY <1>2 DEF Remove, Without, Kept, TypeOK, Library, Absent
  <2>4. B \subseteq Book
    BY <1>2 DEF Remove, Kept
  <2>5. ASSUME NEW b \in promised'
        PROVE  /\ b \in promised /\ S = {} /\ remote'.series = remote.series
               /\ Kept(remote) \cap In(b[1]) \subseteq Kept(remote')
    <3>1. S = {} /\ b \in promised /\ \A c \in B : b \notin In(c[1])
      BY <2>2
    <3>2. b \in Book /\ \A c \in B : c[1] # b[1]
      BY <3>1, <2>4 DEF TypeOK, In
    <3> QED
      BY <2>3, <3>1, <3>2 DEF In
  <2>6. \A m \in Mode : task'[m].steady \subseteq Kept(remote')
    BY <2>1, NoticedSteady
  <2>7. promised' \subseteq Kept(remote')
    <3>1. \A b \in promised' : b \in Kept(remote) /\ b \in In(b[1])
      BY <2>5 DEF CoverInv, ServerInv, TypeOK, In
    <3> QED
      BY <2>5, <3>1
  <2>8. ServerInv'
    BY <2>3, <2>6, <2>7 DEF CoverInv, ServerInv
  <2> QED
    BY <2>1, <2>5, <2>8, WorkFrame
<1>3. ASSUME NEW m \in Mode, NEW fresh \in BOOLEAN, Start(m, fresh)
      PROVE  CoverInv'
  <2>1. /\ UNCHANGED <<remote, row>>
        /\ state' = (IF fresh THEN NeverRun ELSE state)
        /\ promised' = (IF fresh THEN Kept(remote) ELSE promised)
    BY <1>3 DEF Start
  <2>2. \A n \in Mode : task[n] = Idle
    BY <1>3 DEF Start, LockFree, OneSync
  <2>3. \A n \in Mode :
          /\ task'[n].stage \in {"idle", "enter"} /\ task'[n].step = "series" /\ task'[n].left = {}
          /\ task'[n].lost = {} /\ task'[n].steady \subseteq Kept(remote)
    BY <1>3, <2>2 DEF Start, TypeOK, Idle
  <2>4. \A n \in Mode : SeriesInv(n)' /\ BooksInv(n)'
    BY <2>3 DEF SeriesInv, BooksInv
  <2>5. ServerInv'
    BY <2>1, <2>3 DEF CoverInv, ServerInv
  <2>6. CursorInv'
    <3>1. CASE fresh
      <4>1. /\ ~StepIsComplete("series")'
            /\ state'["series"].cursor.page = 0 /\ state'["books"].cursor.series = 0
        BY <2>1, <3>1 DEF StepIsComplete, NeverRun, Entity, NoCursor
      <4>2. promised' \subseteq Book
        BY DEF TypeOK
      <4> QED
        BY <4>1, <4>2, PagesGrow, BookParts DEF CursorInv
    <3>2. CASE ~fresh
      BY <2>1, <3>2 DEF CoverInv, CursorInv, StepIsComplete, PageOfSeries, PageOfBook
    <3> QED
      BY <3>1, <3>2
  <2> QED
    BY <2>3, <2>4, <2>5, <2>6 DEF CoverInv, OnlyShiftsMislead
<1>4. ASSUME UNCHANGED <<remote, row, promised>>, \A n \in Mode : task'[n] = Idle,
             \A e \in Entity : state'[e] = state[e] \/ state'[e] = [state[e] EXCEPT !.status = "error"]
      PROVE  CoverInv'
  <2>1. \A n \in Mode : SeriesInv(n)' /\ BooksInv(n)' /\ task'[n].lost = {} /\ task'[n].steady = {}
    BY <1>4 DEF SeriesInv, BooksInv, Idle
  <2>2. /\ \A e \in Entity : state'[e].cursor = state[e].cursor
        /\ StepIsComplete("series")' => StepIsComplete("series")
    BY <1>4 DEF StepIsComplete, TypeOK, Entity
  <2>3. CursorInv'
    BY <1>4, <2>2 DEF CoverInv, CursorInv, PageOfSeries, PageOfBook, Entity
  <2>4. ServerInv'
    BY <1>4, <2>1 DEF CoverInv, ServerInv
  <2> QED
    BY <2>1, <2>3, <2>4 DEF CoverInv, OnlyShiftsMislead
<1>5. ASSUME NEW m \in Mode, Fails(m)
      PROVE  CoverInv'
  <2>1. \A n \in Mode : task'[n] = Idle
    BY <1>5 DEF Fails, OneSync, TypeOK
  <2>2. \A e \in Entity : state'[e] = state[e] \/ state'[e] = [state[e] EXCEPT !.status = "error"]
    BY <1>5 DEF Fails, FailEntity, TypeOK
  <2> QED
    BY <1>4, <1>5, <2>1, <2>2 DEF Fails
<1>6. CASE Crash
  BY <1>4, <1>6 DEF Crash
<1>7. CASE Unlink
  <2>1. task' = Noticed(FALSE) /\ promised' = {} /\ row' = Nothing /\ UNCHANGED remote
    BY <1>7 DEF Unlink
  <2>2. \A m \in Mode : task'[m].steady \subseteq Kept(remote')
    BY <2>1, NoticedSteady
  <2>3. ServerInv'
    BY <2>1, <2>2 DEF CoverInv, ServerInv
  <2> QED
    BY <2>1, <2>3, WorkFrame
<1> QED
  BY <1>1, <1>2, <1>3, <1>5, <1>6, <1>7, BookParts DEF World

\* A step concerns its own sync: the other one is not under way.
LEMMA CoverOfOne ==
    ASSUME TypeOK, OneSync, CoverInv, NEW m \in Mode, Step(m),
           task'[m].steady \subseteq task[m].steady,
           CursorInv', SeriesInv(m)', BooksInv(m)', task'[m].lost # {} => task'[m].shifted
    PROVE  CoverInv'
<1>1. UNCHANGED <<remote, promised>> /\ \A n \in Mode : n # m => task[n] = Idle /\ task'[n] = Idle
  BY StepIsOfOne DEF OneSync
<1>2. \A n \in Mode : n # m => /\ SeriesInv(n)' /\ BooksInv(n)'
                               /\ task'[n].steady = {} /\ task'[n].lost = {}
  BY <1>1 DEF SeriesInv, BooksInv, Idle
<1>3. ServerInv'
  BY <1>1, <1>2 DEF CoverInv, ServerInv
<1> QED
  BY <1>2, <1>3 DEF CoverInv, OnlyShiftsMislead

\* The server rests during a step.
LEMMA PagesStay ==
    ASSUME UNCHANGED remote
    PROVE  /\ \A s : PageOfSeries(s)' = PageOfSeries(s)
           /\ \A b : PageOfBook(b)' = PageOfBook(b)
BY DEF PageOfSeries, PageOfBook

\* What a sync has ahead of it stays ahead of it, or is in the answer it holds.
LEMMA AheadOfFetch ==
    ASSUME TypeOK, NEW m \in Mode, Fetch(m)
    PROVE  /\ \A s \in remote.series :
                task[m].step = "series" /\ SeriesAhead(m, s) => SeriesAhead(m, s)'
           /\ \A b \in Kept(remote) :
                task[m].step = "books" /\ BookAhead(m, b) => BookAhead(m, b)'
<1>1. /\ task[m].stage = "fetch" /\ task'[m].stage = "save" /\ Same(m)
      /\ UNCHANGED remote /\ task[m].at.page \in Nat
  BY FetchIs, CursorParts DEF Fetch, TypeOK, Task
<1>2. ASSUME NEW s \in remote.series, task[m].step = "series", SeriesAhead(m, s)
      PROVE  SeriesAhead(m, s)'
  <2>1. task'[m].answer = SeriesPage(task[m].at.page)
    BY <1>2, FetchIs
  <2>2. s \in Series /\ PageOfSeries(s) >= task[m].at.page
    BY <1>1, <1>2 DEF SeriesAhead, Ahead, TypeOK, Library
  <2>3. \/ s \in task'[m].answer.series
        \/ PageOfSeries(s) > task[m].at.page /\ ~task'[m].answer.last
    BY <1>1, <2>1, <2>2, SeriesListed
  <2> QED
    BY <1>1, <2>3, PagesStay DEF SeriesAhead, Ahead, Same
<1>3. ASSUME NEW b \in Kept(remote), task[m].step = "books", BookAhead(m, b)
      PROVE  BookAhead(m, b)'
  <2>1. b[1] \in task[m].left /\ b \in Book
    BY <1>3 DEF BookAhead, Kept
  <2>2. ASSUME b[1] = task[m].at.series
        PROVE  \/ b \in Kept(task'[m].answer)
               \/ PageOfBook(b) > task[m].at.page /\ ~task'[m].answer.last
    <3>1. task'[m].answer = BooksPage(b[1], task[m].at.page)
      BY <1>3, <2>2, FetchIs
    <3>2. PageOfBook(b) >= task[m].at.page
      BY <1>1, <1>3, <2>2 DEF BookAhead, Ahead
    <3> QED
      BY <1>1, <2>1, <3>1, <3>2, BookListed
  <2> QED
    BY <1>1, <2>1, <2>2, PagesStay DEF BookAhead, Ahead, Same
<1> QED
  BY <1>2, <1>3

LEMMA AheadOfSave ==
    ASSUME TypeOK, NEW m \in Mode, Save(m)
    PROVE  /\ \A s \in Series : SeriesAhead(m, s) /\ s \notin task[m].answer.series => SeriesAhead(m, s)'
           /\ \A b \in Book : BookAhead(m, b) /\ b \notin Kept(task[m].answer) => BookAhead(m, b)'
<1>1. /\ task[m].stage = "save" /\ task'[m].stage = "checkpoint" /\ Same(m)
      /\ task'[m].answer = task[m].answer /\ UNCHANGED remote
  BY SaveIs DEF Save
<1>2. ASSUME NEW s \in Series, SeriesAhead(m, s), s \notin task[m].answer.series
      PROVE  SeriesAhead(m, s)'
  BY <1>1, <1>2, PagesStay DEF SeriesAhead, Ahead, Same
<1>3. ASSUME NEW b \in Book, BookAhead(m, b), b \notin Kept(task[m].answer)
      PROVE  BookAhead(m, b)'
  BY <1>1, <1>3, PagesStay DEF BookAhead, Ahead, Same
<1> QED
  BY <1>2, <1>3

LEMMA CoverOfSkip ==
    ASSUME TypeOK, OneSync, CoverInv, NEW m \in Mode, Skip(m)
    PROVE  CoverInv'
<1>1. Step(m) /\ UNCHANGED <<remote, row, state, promised>>
  BY DEF Step, Skip
<1>2. CursorInv'
  BY <1>1, PagesStay DEF CoverInv, CursorInv, StepIsComplete
<1>3. CASE task[m].step = "series"
  <2>1. /\ task'[m].step = "books" /\ task'[m].stage = "enter" /\ task'[m].steady = task[m].steady
        /\ task'[m].lost = task[m].lost /\ task'[m].shifted = task[m].shifted
    BY <1>3 DEF Skip, TypeOK, Task
  <2>2. \A b \in promised : b[1] \in row.series
    BY <1>3 DEF Skip, CoverInv, CursorInv
  <2>3. SeriesInv(m)' /\ BooksInv(m)'
    BY <1>1, <2>1, <2>2 DEF SeriesInv, BooksInv
  <2> QED
    BY <1>1, <1>2, <2>1, <2>3, CoverOfOne DEF CoverInv, OnlyShiftsMislead
<1>4. CASE task[m].step # "series"
  <2>1. task'[m].stage = "idle" /\ task'[m].steady = {} /\ task'[m].lost = {}
    BY <1>4 DEF Skip, TypeOK, Idle
  <2>2. SeriesInv(m)' /\ BooksInv(m)'
    BY <2>1 DEF SeriesInv, BooksInv
  <2> QED
    BY <1>1, <1>2, <2>1, <2>2, CoverOfOne
<1> QED
  BY <1>3, <1>4

LEMMA CoverOfEnterSeries ==
    ASSUME TypeOK, OneSync, CoverInv, NEW m \in Mode, EnterSeries(m)
    PROVE  CoverInv'
<1> DEFINE from == IF m = "bootstrap" THEN state["series"].cursor ELSE NoCursor
<1>1. Step(m) /\ UNCHANGED <<remote, row, promised>> /\ state' = BeginEntity("series")
  BY DEF Step, EnterSeries
<1>2. /\ task[m].stage = "enter" /\ task[m].step = "series"
      /\ task'[m].stage = "fetch" /\ task'[m].step = "series" /\ task'[m].at = from
      /\ task'[m].left = task[m].left /\ task'[m].known = row /\ task'[m].steady = task[m].steady
      /\ task'[m].lost = task[m].lost /\ task'[m].shifted = task[m].shifted
  BY DEF EnterSeries, Due, TypeOK, Task
<1>3. /\ state'["series"].cursor = state["series"].cursor /\ state'["books"] = state["books"]
      /\ state'["series"].status = "syncing"
  BY <1>1 DEF BeginEntity, TypeOK, Entity
<1>4. CursorInv'
  BY <1>1, <1>3, PagesStay DEF CoverInv, CursorInv, StepIsComplete
<1>5. ASSUME NEW b \in Book,
             \/ b \in promised /\ b[1] \notin row.series
             \/ m = "reconcile"
      PROVE  SeriesAhead(m, b[1])'
  <2>1. PageOfSeries(b[1])' \in Nat /\ PageOfSeries(b[1])' = PageOfSeries(b[1])
    BY <1>1, SeriesListed, BookParts, PagesStay
  <2>2. PageOfSeries(b[1])' >= from.page
    <3>1. CASE m = "reconcile"
      BY <2>1, <3>1 DEF NoCursor
    <3>2. CASE m # "reconcile"
      BY <1>5, <2>1, <3>2 DEF Mode, CoverInv, CursorInv
    <3> QED
      BY <3>1, <3>2
  <2> QED
    BY <1>2, <2>2 DEF SeriesAhead, Ahead
<1>6. SeriesInv(m)' /\ BooksInv(m)'
  BY <1>1, <1>2, <1>5 DEF CoverInv, SeriesInv, BooksInv
<1> QED
  BY <1>1, <1>2, <1>4, <1>6, CoverOfOne DEF CoverInv, OnlyShiftsMislead

LEMMA CoverOfEnterBooks ==
    ASSUME TypeOK, OneSync, CoverInv, NEW m \in Mode, EnterBooks(m)
    PROVE  CoverInv'
<1> DEFINE cursor == state["books"].cursor
           left == LeftFrom(row.series, cursor)
           at == IF cursor.series \in left THEN cursor
                 ELSE IF left = {} THEN NoCursor
                 ELSE [series |-> Min(left), page |-> 0]
<1>1. Step(m) /\ UNCHANGED <<remote, row, promised>> /\ state' = BeginEntity("books")
  BY DEF Step, EnterBooks
<1>2. /\ task[m].stage = "enter" /\ task[m].step = "books"
      /\ task'[m].stage = (IF left = {} THEN "prune" ELSE "fetch")
      /\ task'[m].step = "books" /\ task'[m].at = at /\ task'[m].left = left
      /\ task'[m].scope = row.series /\ task'[m].known = row
      /\ task'[m].seen.books = Seeded(row.series \ left, at)
      /\ task'[m].steady = task[m].steady
      /\ task'[m].lost = task[m].lost /\ task'[m].shifted = task[m].shifted
  <2> DEFINE stage == IF left = {} THEN "prune" ELSE "fetch"
             seeded == Seeded(row.series \ left, at)
             resumed == task[m].resumed \/ cursor # NoCursor
  <2>1. task' = [task EXCEPT ![m] = [task[m] EXCEPT !.stage = stage, !.at = at, !.left = left,
                    !.scope = row.series, !.known = row, !.seen.books = seeded, !.resumed = resumed]]
    BY DEF EnterBooks
  <2>2. task[m] \in Task /\ task \in [Mode -> Task]
    BY DEF TypeOK
  <2>3. task[m].stage = "enter" /\ task[m].step = "books"
    BY DEF EnterBooks, Due
  <2> HIDE DEF stage, seeded, resumed, at, left
  <2>4. /\ task'[m].stage = stage /\ task'[m].step = task[m].step /\ task'[m].at = at
        /\ task'[m].left = left /\ task'[m].scope = row.series /\ task'[m].known = row
        /\ task'[m].seen.books = seeded /\ task'[m].steady = task[m].steady
        /\ task'[m].lost = task[m].lost /\ task'[m].shifted = task[m].shifted
    BY <2>1, <2>2 DEF Task
  <2> QED
    BY <2>3, <2>4 DEF stage, seeded
<1>3. /\ state'["books"].cursor = cursor /\ state'["series"] = state["series"]
  BY <1>1 DEF BeginEntity, TypeOK, Entity
<1>4. CursorInv'
  BY <1>1, <1>3, PagesStay DEF CoverInv, CursorInv, StepIsComplete
<1>5. /\ left = {s \in row.series : s >= cursor.series} /\ left \in SUBSET Series
      /\ cursor \in Cursor
  BY DEF LeftFrom, TypeOK, Library, Entity
<1>6. \A s \in left : s >= at.series
  BY <1>5, MinIsMember, BookParts
<1>7. \A b \in promised : b[1] \in row.series
  BY <1>2 DEF CoverInv, BooksInv
<1>8. ASSUME NEW b \in Book,
             \/ b \in promised /\ b \notin Kept(row)
             \/ b \in Kept(row) /\ b[1] \in row.series /\ b \notin Seeded(row.series \ left, at)
      PROVE  BookAhead(m, b)'
  <2>1. PageOfBook(b)' = PageOfBook(b) /\ PageOfBook(b) \in Nat /\ b[1] \in Nat
    BY <1>1, BookListed, BookParts, PagesStay
  <2>2. CASE b \in promised /\ b \notin Kept(row)
    <3>1. b[1] \in row.series /\ (b[1] > cursor.series \/ (b[1] = cursor.series /\ PageOfBook(b) >= cursor.page))
      BY <1>7, <2>2 DEF CoverInv, CursorInv
    <3>2. b[1] \in left /\ left # {}
      <4>1. cursor.series \in Nat
        BY <1>5, CursorParts
      <4> QED
        BY <1>5, <2>1, <3>1, <4>1
    <3>3. b[1] = at.series => PageOfBook(b) >= at.page
      <4>1. cursor.series \in Nat
        BY <1>5, CursorParts
      <4> QED
        BY <1>5, <2>1, <3>1, <3>2, <4>1
    <3> QED
      BY <1>2, <2>1, <3>2, <3>3 DEF BookAhead, Ahead
  <2>3. CASE b \in Kept(row) /\ b[1] \in row.series /\ b \notin Seeded(row.series \ left, at)
    <3>1. b[1] \in left /\ ~(at.page > 0 /\ b[1] = at.series)
      BY <2>3 DEF Seeded
    <3>2. at.page \in Nat
      BY <1>5 DEF Cursor, NoCursor
    <3>3. b[1] = at.series => PageOfBook(b) >= at.page
      BY <2>1, <3>1, <3>2
    <3>4. left # {}
      BY <3>1
    <3> QED
      BY <1>2, <2>1, <3>1, <3>3, <3>4 DEF BookAhead, Ahead
  <2> QED
    BY <1>8, <2>2, <2>3
<1>9. SeriesInv(m)' /\ BooksInv(m)'
  <2> HIDE DEF at, left
  <2> QED
    BY <1>1, <1>2, <1>6, <1>7, <1>8 DEF SeriesInv, BooksInv
<1> QED
  BY <1>1, <1>2, <1>4, <1>9, CoverOfOne DEF CoverInv, OnlyShiftsMislead

LEMMA CoverOfFetch ==
    ASSUME TypeOK, OneSync, CoverInv, NEW m \in Mode, Fetch(m)
    PROVE  CoverInv'
<1>1. Step(m) /\ UNCHANGED <<remote, row, state, promised>>
  BY DEF Step, Fetch
<1>2. /\ task[m].stage = "fetch" /\ task'[m].stage = "save" /\ Same(m)
      /\ task'[m].seen = task[m].seen /\ task'[m].lost = task[m].lost
  BY FetchIs
<1>3. CursorInv'
  BY <1>1, PagesStay DEF CoverInv, CursorInv, StepIsComplete
<1>4. \A b \in Kept(remote) : task[m].step = "series" /\ SeriesAhead(m, b[1]) => SeriesAhead(m, b[1])'
  BY AheadOfFetch DEF CoverInv, ServerInv
<1>5. \A b \in Kept(remote) : task[m].step = "books" /\ BookAhead(m, b) => BookAhead(m, b)'
  BY AheadOfFetch
<1>6. \A b \in Book : Sure(m, b)' => Sure(m, b) /\ b \in Kept(remote)
  BY <1>1, <1>2 DEF Sure, Same, CoverInv, ServerInv
<1>7. SeriesInv(m)'
  BY <1>1, <1>2, <1>4, <1>6 DEF Same, CoverInv, ServerInv, SeriesInv
<1>8. BooksInv(m)'
  BY <1>1, <1>2, <1>5, <1>6 DEF Same, CoverInv, ServerInv, BooksInv
<1> QED
  BY <1>1, <1>2, <1>3, <1>7, <1>8, CoverOfOne DEF Same, CoverInv, OnlyShiftsMislead

LEMMA CoverOfSave ==
    ASSUME TypeOK, OneSync, CoverInv, NEW m \in Mode, Save(m)
    PROVE  CoverInv'
<1>1. Step(m) /\ UNCHANGED <<remote, state, promised>>
  BY DEF Step, Save
<1>2. /\ task[m].stage = "save" /\ task'[m].stage = "checkpoint" /\ Same(m)
      /\ task'[m].answer = task[m].answer /\ task'[m].lost = task[m].lost
      /\ task'[m].seen.series = task[m].seen.series \cup task[m].answer.series
      /\ task'[m].seen.books = task[m].seen.books \cup Kept(task[m].answer)
      /\ row'.series = row.series \cup (IF m = "bootstrap" THEN task[m].answer.series
                                        ELSE task[m].answer.series \ task[m].known.series)
      /\ \A b \in Book : row'.books[b] = IF Dirty(m, b) THEN task[m].answer.books[b] ELSE row.books[b]
  BY SaveIs
<1>3. row.series \subseteq row'.series /\ Kept(row) \subseteq Kept(row')
  BY <1>2 DEF Kept, Dirty
<1>4. CursorInv'
  <2>1. \A b \in promised : b \in Book
    BY DEF TypeOK
  <2> QED
    BY <1>1, <1>3, <2>1, PagesStay DEF CoverInv, CursorInv, StepIsComplete
<1>5. \A b \in Book : Sure(m, b)' => Sure(m, b)
  BY <1>1, <1>2 DEF Sure, Same
<1>6. ASSUME NEW b \in Book, SeriesAhead(m, b[1]), b[1] \notin task[m].answer.series
      PROVE  SeriesAhead(m, b[1])'
  BY <1>6, AheadOfSave, BookParts
<1>7. ASSUME NEW b \in Book, BookAhead(m, b), b \notin Kept(task[m].answer)
      PROVE  BookAhead(m, b)'
  BY <1>7, AheadOfSave
<1>8. SeriesInv(m)'
  <2> SUFFICES ASSUME task[m].step = "series"
               PROVE  /\ task[m].left = {}
                      /\ \A b \in Book :
                          /\ b \in promised /\ b[1] \notin row'.series => SeriesAhead(m, b[1])'
                          /\ m = "reconcile" /\ Sure(m, b)' /\ b[1] \notin task'[m].seen.series
                               => SeriesAhead(m, b[1])'
                          /\ b \in promised /\ b[1] \in task[m].known.series => b[1] \in row'.series
    BY <1>1, <1>2 DEF SeriesInv, Same
  <2>1. /\ task[m].left = {}
        /\ \A b \in Book :
            /\ b \in promised /\ b[1] \notin row.series => SeriesAhead(m, b[1])
            /\ m = "reconcile" /\ Sure(m, b) /\ b[1] \notin task[m].seen.series => SeriesAhead(m, b[1])
            /\ b \in promised /\ b[1] \in task[m].known.series => b[1] \in row.series
    BY <1>2 DEF CoverInv, SeriesInv
  <2> QED
    BY <1>2, <1>3, <1>5, <1>6, <2>1
<1>9. BooksInv(m)'
  <2> SUFFICES ASSUME task[m].step = "books"
               PROVE  /\ \A b \in promised : b[1] \in row'.series
                      /\ \A s \in task[m].left : s >= task[m].at.series
                      /\ \A b \in Book :
                          /\ b \in promised /\ b \notin Kept(row') => BookAhead(m, b)'
                          /\ m = "reconcile" /\ Sure(m, b)' /\ b \in Kept(row') /\ b[1] \in task[m].scope
                             /\ b \notin task'[m].seen.books => BookAhead(m, b)'
                          /\ b \in promised /\ b \in Kept(task[m].known) => b \in Kept(row')
    BY <1>1, <1>2 DEF BooksInv, Same
  <2>1. /\ \A b \in promised : b[1] \in row.series
        /\ \A s \in task[m].left : s >= task[m].at.series
        /\ \A b \in Book :
            /\ b \in promised /\ b \notin Kept(row) => BookAhead(m, b)
            /\ m = "reconcile" /\ Sure(m, b) /\ b \in Kept(row) /\ b[1] \in task[m].scope
               /\ b \notin task[m].seen.books => BookAhead(m, b)
            /\ b \in promised /\ b \in Kept(task[m].known) => b \in Kept(row)
    BY <1>2 DEF CoverInv, BooksInv
  <2>2. ASSUME NEW b \in Book, b \in promised, b \notin Kept(row')
        PROVE  BookAhead(m, b)'
    <3>1. b \notin Kept(row) /\ b \notin Kept(task[m].known) /\ ~Dirty(m, b)
      BY <1>2, <1>3, <2>1, <2>2 DEF Kept, Dirty
    <3>2. b \notin Kept(task[m].answer)
      BY <3>1 DEF Dirty, Kept
    <3> QED
      BY <1>7, <2>1, <2>2, <3>1, <3>2
  <2>3. ASSUME NEW b \in Book, m = "reconcile", Sure(m, b)', b \in Kept(row'), b[1] \in task[m].scope,
               b \notin task'[m].seen.books
        PROVE  BookAhead(m, b)'
    <3>1. b \notin Kept(task[m].answer) /\ b \notin task[m].seen.books
      BY <1>2, <2>3
    <3>2. b \in Kept(row)
      BY <1>2, <2>3, <3>1 DEF Kept, Dirty
    <3> QED
      BY <1>5, <1>7, <2>1, <2>3, <3>1, <3>2
  <2> QED
    BY <1>3, <2>1, <2>2, <2>3
<1> QED
  BY <1>1, <1>2, <1>4, <1>8, <1>9, CoverOfOne DEF Same, CoverInv, OnlyShiftsMislead

LEMMA CoverOfCheckpoint ==
    ASSUME TypeOK, OneSync, CoverInv, NEW m \in Mode, Checkpoint(m)
    PROVE  CoverInv'
<1> DEFINE t == task[m]
           later == t.left \ {t.at.series}
<1>1. Step(m) /\ UNCHANGED <<remote, row, promised>>
  BY DEF Step, Checkpoint
<1>2. t.stage = "checkpoint" /\ t.left \in SUBSET Series /\ t.at \in Cursor /\ t.step \in Entity
  BY CheckpointCases DEF TypeOK, Task
<1>3. t.at.series \in Nat /\ t.at.page \in Nat
  BY <1>2, CursorParts
<1>4. \A b \in Book : b[1] \in Nat /\ PageOfSeries(b[1]) \in Nat /\ PageOfBook(b) \in Nat
  BY BookParts, SeriesListed, BookListed
<1>5. ASSUME NEW b \in Book, SeriesAhead(m, b[1])
      PROVE  PageOfSeries(b[1]) > t.at.page /\ ~t.answer.last
  BY <1>2, <1>5 DEF SeriesAhead, Ahead
<1>6. ASSUME NEW b \in Book, BookAhead(m, b)
      PROVE  b[1] \in t.left /\ (b[1] = t.at.series => PageOfBook(b) > t.at.page /\ ~t.answer.last)
  BY <1>2, <1>6 DEF BookAhead, Ahead
\* Wherever the sync goes on, what it had ahead of it still is, and what of that is
\* recorded is no further.
<1>7. ASSUME NEW s \in Nat, NEW p \in Nat, WentOn(m, s, p),
             state' = state \/ state' = CheckpointEntity(t.step, s, p),
             t.step = "series" => p <= t.at.page + 1,
             \A b \in Book : t.step = "books" /\ BookAhead(m, b) =>
                b[1] >= s /\ (b[1] = s => PageOfBook(b) >= p)
      PROVE  CoverInv'
  <2>1. /\ task'[m].stage = "fetch" /\ task'[m].at = [series |-> s, page |-> p]
        /\ task'[m].left = {x \in t.left : x >= s} /\ task'[m].step = t.step
        /\ task'[m].scope = t.scope /\ task'[m].known = t.known /\ task'[m].seen = t.seen
        /\ task'[m].shifted = t.shifted /\ task'[m].steady = t.steady /\ task'[m].lost = t.lost
    BY <1>7, WentOnIs
  <2>2. ASSUME NEW b \in Book, t.step = "series", SeriesAhead(m, b[1])
        PROVE  SeriesAhead(m, b[1])' /\ PageOfSeries(b[1]) >= p
    <3>1. PageOfSeries(b[1]) >= p
      BY <1>3, <1>4, <1>5, <1>7, <2>2
    <3> QED
      BY <1>1, <2>1, <3>1, PagesStay DEF SeriesAhead, Ahead
  <2>3. ASSUME NEW b \in Book, t.step = "books", BookAhead(m, b)
        PROVE  BookAhead(m, b)' /\ b[1] >= s /\ (b[1] = s => PageOfBook(b) >= p)
    <3>1. b[1] \in t.left /\ b[1] >= s /\ (b[1] = s => PageOfBook(b) >= p)
      BY <1>6, <1>7, <2>3
    <3> QED
      BY <1>1, <2>1, <3>1, PagesStay DEF BookAhead, Ahead
  <2>4. \A b \in Book : Sure(m, b)' => Sure(m, b)
    BY <1>1, <2>1 DEF Sure
  <2>5. SeriesInv(m)'
    BY <1>1, <1>2, <2>1, <2>2, <2>4 DEF CoverInv, SeriesInv
  <2>6. BooksInv(m)'
    <3> SUFFICES ASSUME t.step = "books"
                 PROVE  BooksInv(m)'
      BY <1>2, <2>1 DEF BooksInv, Entity
    <3>1. /\ \A b \in promised : b[1] \in row.series
          /\ \A b \in Book :
              /\ b \in promised /\ b \notin Kept(row) => BookAhead(m, b)
              /\ m = "reconcile" /\ Sure(m, b) /\ b \in Kept(row) /\ b[1] \in t.scope
                 /\ b \notin t.seen.books => BookAhead(m, b)
              /\ b \in promised /\ b \in Kept(t.known) => b \in Kept(row)
      BY <1>2 DEF CoverInv, BooksInv
    <3>2. \A x \in task'[m].left : x >= task'[m].at.series
      BY <2>1
    <3>3. \A b \in Book : BookAhead(m, b) => BookAhead(m, b)'
      BY <2>3
    <3> QED
      BY <1>1, <2>1, <2>4, <3>1, <3>2, <3>3 DEF BooksInv
  <2>7. CursorInv'
    <3>1. CASE state' = state
      BY <1>1, <3>1, PagesStay DEF CoverInv, CursorInv, StepIsComplete
    <3>2. CASE state' = CheckpointEntity("series", s, p) /\ t.step = "series"
      <4>1. /\ state'["series"].cursor.page = p /\ state'["series"].status = "syncing"
            /\ state'["books"] = state["books"]
        BY <3>2 DEF CheckpointEntity, TypeOK, Entity
      <4>2. \A b \in promised : b \in Book /\ (b[1] \notin row.series => PageOfSeries(b[1]) >= p)
        BY <1>2, <2>2, <3>2 DEF CoverInv, SeriesInv, TypeOK
      <4> QED
        BY <1>1, <4>1, <4>2, PagesStay DEF CoverInv, CursorInv, StepIsComplete
    <3>3. CASE state' = CheckpointEntity("books", s, p) /\ t.step = "books"
      <4>1. /\ state'["books"].cursor = [series |-> s, page |-> p]
            /\ state'["series"] = state["series"]
        BY <3>3 DEF CheckpointEntity, TypeOK, Entity
      <4>2. \A b \in promised : b \in Book /\ (b \notin Kept(row) => b[1] >= s /\ (b[1] = s => PageOfBook(b) >= p))
        BY <1>2, <2>3, <3>3 DEF CoverInv, BooksInv, TypeOK
      <4> QED
        BY <1>1, <1>4, <1>7, <4>1, <4>2, PagesStay DEF CoverInv, CursorInv, StepIsComplete
    <3> QED
      BY <1>2, <1>7, <3>1, <3>2, <3>3 DEF Entity
  <2> QED
    BY <1>1, <2>1, <2>5, <2>6, <2>7, CoverOfOne DEF CoverInv, OnlyShiftsMislead
<1>8. CASE ~t.answer.last
  <2>1. WentOn(m, t.at.series, t.at.page + 1)
    BY <1>8, CheckpointCases
  <2>2. state' = state \/ state' = CheckpointEntity(t.step, t.at.series, t.at.page + 1)
    BY <1>8, CheckpointCases
  <2>3. \A b \in Book : t.step = "books" /\ BookAhead(m, b) =>
          b[1] >= t.at.series /\ (b[1] = t.at.series => PageOfBook(b) >= t.at.page + 1)
    BY <1>2, <1>3, <1>4, <1>6 DEF CoverInv, BooksInv
  <2>6. t.at.page + 1 \in Nat
    BY <1>3
  <2>7. PICK p \in Nat : p = t.at.page + 1
    BY <2>6, Zenon
  <2>8. PICK s \in Nat : s = t.at.series
    BY <1>3, Zenon
  <2>4. s = t.at.series /\ p = t.at.page + 1
    BY <2>7, <2>8
  <2>5. /\ WentOn(m, s, p) /\ (state' = state \/ state' = CheckpointEntity(t.step, s, p))
        /\ p <= t.at.page + 1
        /\ \A b \in Book : t.step = "books" /\ BookAhead(m, b) =>
              b[1] >= s /\ (b[1] = s => PageOfBook(b) >= p)
    BY <1>3, <2>1, <2>2, <2>3, <2>4
  <2> HIDE DEF t
  <2> QED
    BY <1>7, <2>5
<1>9. CASE t.answer.last /\ later # {}
  <2>1. WentOn(m, Min(later), 0) /\ state' = CheckpointEntity(t.step, Min(later), 0)
    BY <1>9, CheckpointCases
  <2>2. t.step # "series"
    BY <1>2, <1>9 DEF CoverInv, SeriesInv
  <2>3. Min(later) \in Nat /\ \A s \in later : s >= Min(later)
    <3>1. later \in SUBSET Series /\ later # {}
      BY <1>2, <1>9
    <3> HIDE DEF later
    <3>2. Min(later) \in later /\ (\A s \in later : Min(later) <= s) /\ \A s \in later : s \in Nat
      BY <3>1, MinIsMember, BookParts
    <3> QED
      BY <3>1, <3>2
  <2>4. \A b \in Book : t.step = "books" /\ BookAhead(m, b) =>
          b[1] >= Min(later) /\ (b[1] = Min(later) => PageOfBook(b) >= 0)
    <3>1. \A b \in Book : BookAhead(m, b) => b[1] \in later
      BY <1>6, <1>9
    <3> QED
      BY <1>4, <2>3, <3>1
  <2>5. 0 \in Nat /\ (t.step = "series" => 0 <= t.at.page + 1)
    BY <2>2
  <2> HIDE DEF t, later
  <2> QED
    BY <1>7, <2>1, <2>3, <2>4, <2>5
<1>10. CASE t.answer.last /\ later = {}
  <2>1. task' = [task EXCEPT ![m].stage = "prune"] /\ UNCHANGED state
    BY <1>10, CheckpointCases
  <2>2. /\ task'[m].stage = "prune" /\ Same(m) /\ task'[m].seen = t.seen /\ task'[m].lost = t.lost
    BY <2>1 DEF Same, TypeOK, Task
  <2>3. \A b \in Book : ~SeriesAhead(m, b[1]) /\ ~BookAhead(m, b)
    BY <1>5, <1>6, <1>10
  <2>4. \A b \in Book : Sure(m, b)' => Sure(m, b)
    BY <1>1, <2>2 DEF Sure, Same
  <2>5. SeriesInv(m)' /\ BooksInv(m)'
    BY <1>1, <1>2, <2>2, <2>3, <2>4 DEF CoverInv, SeriesInv, BooksInv, Same
  <2>6. CursorInv'
    BY <1>1, <2>1, PagesStay DEF CoverInv, CursorInv, StepIsComplete
  <2> QED
    BY <1>1, <2>2, <2>5, <2>6, CoverOfOne DEF Same, CoverInv, OnlyShiftsMislead
<1> QED
  BY <1>8, <1>9, <1>10

LEMMA CoverOfPrune ==
    ASSUME TypeOK, OneSync, CoverInv, NEW m \in Mode, Prune(m)
    PROVE  CoverInv'
<1> DEFINE t == task[m]
           S == IF m = "reconcile" /\ t.step = "series" THEN row.series \ t.seen.series ELSE {}
           B == IF m = "reconcile" /\ t.step = "books"
                THEN {b \in Kept(row) : b[1] \in t.scope /\ b \notin t.seen.books} ELSE {}
<1>1. Step(m) /\ UNCHANGED <<remote, promised>>
  BY DEF Step, Prune
<1>2. /\ t.stage = "prune" /\ task'[m].stage = "complete" /\ Same(m) /\ task'[m].seen = t.seen
      /\ task'[m].lost = t.lost \cup (t.steady \cap (Kept(row) \ Kept(row')))
      /\ row'.series = row.series \ S
      /\ Kept(row') = {b \in Kept(row) : b \notin B /\ b[1] \notin S}
      /\ UNCHANGED state
  BY PruneIs
<1>3. \A b \in Book : ~SeriesAhead(m, b[1]) /\ ~BookAhead(m, b)
  BY <1>2 DEF SeriesAhead, BookAhead, Ahead
<1>4. ASSUME NEW b \in Book, Sure(m, b)
      PROVE  b[1] \notin S /\ b \notin B
  BY <1>2, <1>3, <1>4 DEF CoverInv, SeriesInv, BooksInv
<1>5. \A b \in Book : Sure(m, b)' => Sure(m, b)
  BY <1>1, <1>2 DEF Sure, Same
<1>6. \A b \in Book : Sure(m, b) => /\ b[1] \in row'.series <=> b[1] \in row.series
                                    /\ b \in Kept(row') <=> b \in Kept(row)
  BY <1>2, <1>4
<1>7. \A b \in promised : b \in Book /\ Sure(m, b)
  BY DEF Sure, TypeOK
<1> HIDE DEF S, B
<1>8. CursorInv'
  BY <1>1, <1>2, <1>6, <1>7, PagesStay DEF CoverInv, CursorInv, StepIsComplete
<1>9. SeriesInv(m)'
  BY <1>1, <1>2, <1>3, <1>5, <1>6, <1>7 DEF CoverInv, SeriesInv, Same
<1>10. Kept(row') \subseteq Kept(row)
  BY <1>2
<1>11. BooksInv(m)'
  BY <1>1, <1>2, <1>3, <1>5, <1>6, <1>7, <1>10 DEF CoverInv, BooksInv, Same
<1>12. task'[m].lost # {} => task'[m].shifted
  <2> SUFFICES ASSUME ~t.shifted
               PROVE  task'[m].lost = {}
    BY <1>2 DEF Same
  <2>1. \A b \in t.steady : b \in Book /\ Sure(m, b)
    BY DEF Sure, TypeOK, Task
  <2> QED
    BY <1>2, <1>6, <2>1 DEF CoverInv, OnlyShiftsMislead
<1> QED
  BY <1>1, <1>2, <1>8, <1>9, <1>11, <1>12, CoverOfOne DEF Same

LEMMA CoverOfComplete ==
    ASSUME TypeOK, OneSync, CoverInv, NEW m \in Mode, Complete(m)
    PROVE  CoverInv'
<1>1. Step(m) /\ UNCHANGED <<remote, row, promised>> /\ state' = CompleteEntity(task[m].step)
      /\ task[m].stage = "complete"
  BY DEF Step, Complete
<1>2. \A b \in Book : ~SeriesAhead(m, b[1]) /\ ~BookAhead(m, b)
  BY <1>1 DEF SeriesAhead, BookAhead, Ahead
<1>3. \A b \in promised : b \in Book /\ b[1] \in Nat /\ b[1] > 0 /\ PageOfSeries(b[1]) \in Nat
  BY BookParts, SeriesListed DEF TypeOK
<1>4. CASE task[m].step = "series"
  <2>1. /\ task'[m].step = "books" /\ task'[m].stage = "enter" /\ task'[m].steady = task[m].steady
        /\ task'[m].lost = task[m].lost /\ task'[m].shifted = task[m].shifted
    BY <1>4 DEF Complete, TypeOK, Idle
  <2>2. \A b \in promised : b[1] \in row.series
    BY <1>1, <1>2, <1>3, <1>4 DEF CoverInv, SeriesInv
  <2>3. SeriesInv(m)' /\ BooksInv(m)'
    BY <1>1, <2>1, <2>2 DEF SeriesInv, BooksInv
  <2>4. state'["books"] = state["books"]
    BY <1>1, <1>4 DEF CompleteEntity, TypeOK, Entity
  <2>5. CursorInv'
    BY <1>1, <2>2, <2>4, PagesStay DEF CoverInv, CursorInv
  <2> QED
    BY <1>1, <2>1, <2>3, <2>5, CoverOfOne DEF CoverInv, OnlyShiftsMislead
<1>5. CASE task[m].step # "series"
  <2>1. task'[m].stage = "idle" /\ task'[m].steady = {} /\ task'[m].lost = {}
    BY <1>5 DEF Complete, TypeOK, Idle
  <2>2. SeriesInv(m)' /\ BooksInv(m)'
    BY <2>1 DEF SeriesInv, BooksInv
  <2>3. state'["series"] = state["series"] /\ state'["books"].cursor = NoCursor
    BY <1>1, <1>5 DEF CompleteEntity, TypeOK, Task, Entity
  <2>4. CursorInv'
    BY <1>1, <1>3, <2>3, PagesStay DEF CoverInv, CursorInv, StepIsComplete, NoCursor
  <2> QED
    BY <1>1, <2>1, <2>2, <2>4, CoverOfOne
<1> QED
  BY <1>4, <1>5

LEMMA InitCover == Init => CoverInv
<1> SUFFICES ASSUME Init
             PROVE  CoverInv
  OBVIOUS
<1>1. Stock \subseteq Book /\ \A b \in Book : b[1] \in Series /\ b[1] > 0
  BY BookParts, MirrorAssumption
<1>2. TypeOK
  BY InitTyped
<1>3. ServerInv
  BY <1>1 DEF Init, ServerInv, Kept, Idle, Absent
<1>4. ~StepIsComplete("series") /\ state["series"].cursor.page = 0 /\ state["books"].cursor.series = 0
  BY DEF Init, StepIsComplete, NeverRun, Entity, NoCursor
<1>5. CursorInv
  BY <1>1, <1>2, <1>4, SeriesListed DEF CursorInv, Init
<1>6. \A m \in Mode : SeriesInv(m) /\ BooksInv(m) /\ task[m].lost = {}
  BY DEF Init, SeriesInv, BooksInv, Idle
<1> QED
  BY <1>3, <1>5, <1>6 DEF CoverInv, OnlyShiftsMislead

LEMMA CoverInductive ==
    ASSUME "event" \notin Rough, TypeOK, TypeOK', OneSync, NoEvents, CoverInv, [Next]_vars
    PROVE  CoverInv'
<1>1. CASE UNCHANGED vars
  BY <1>1, PagesStay DEF vars, CoverInv, ServerInv, CursorInv, SeriesInv, BooksInv, OnlyShiftsMislead,
     SeriesAhead, BookAhead, Sure, StepIsComplete
<1>2. CASE World
  BY <1>2, CoverOfWorld
<1>3. ASSUME NEW m \in Mode, Step(m)
      PROVE  CoverInv'
  BY <1>3, CoverOfSkip, CoverOfEnterSeries, CoverOfEnterBooks, CoverOfFetch, CoverOfSave,
     CoverOfCheckpoint, CoverOfPrune, CoverOfComplete DEF Step
<1> QED
  BY <1>1, <1>2, <1>3, NoEventsInductive DEF Next

\* Only its own last step ends a sync with a new state.
LEMMA FinishingStep ==
    ASSUME "event" \notin Rough, TypeOK, OneSync, NoEvents, Next, NEW m \in Mode, Finishes(m)
    PROVE  Complete(m)
<1>1. task[m].stage = "complete" /\ task'[m].stage = "idle" /\ state' # state
  BY DEF Finishes
<1>2. ~\E shift \in BOOLEAN : task' = Noticed(shift)
  BY <1>1, NoticedWork
<1>3. ~\E b \in Book : Publish(b)
  BY <1>2 DEF Publish
<1>4. ~\E S, B : Remove(S, B)
  BY <1>2 DEF Remove
<1>5. ~Unlink
  BY <1>2 DEF Unlink
<1>6. ~\E n \in Mode, fresh \in BOOLEAN : Start(n, fresh)
  BY <1>1 DEF Start, LockFree
<1>7. ~\E n \in Mode : Fails(n)
  BY <1>1 DEF Fails, OneSync
<1>8. ~Crash
  BY <1>1 DEF Crash
<1>9. ~World
  BY <1>3, <1>4, <1>5, <1>6, <1>7, <1>8 DEF World
<1>10. PICK n \in Mode : Step(n)
  BY <1>9, NoEventsInductive DEF Next
<1>11. n = m
  BY <1>1, <1>10, StepIsOfOne DEF OneSync
<1> QED
  BY <1>1, <1>10, <1>11 DEF Step, Skip, EnterSeries, EnterBooks, Due, Fetch, Save, Checkpoint, Prune

\* What the syncs still have ahead of them covers what they owe (sync/full.rs,
\* sync/reconcile.rs): as long as no event of the server is written past them, every
\* promised book is mirrored or ahead of the stored cursors and of the sync under
\* way, and a sweep has seen, or will see, every sure book it could delete.
THEOREM SweepsCover ==
    ASSUME "event" \notin Rough
    PROVE  Spec => []CoverInv
BY InitCover, InitStamps, TypeCorrect, OneSyncInductive, NoEventsInductive, CoverInductive, PTL DEF Spec

\* What a sweep deletes of the books the server has had since the sweep began,
\* it deletes only when the server has removed something meanwhile: failures,
\* ends of the process and resumed cursors never cost a book (sync/reconcile.rs).
THEOREM OnlyShiftsMisleadSweeps ==
    ASSUME "event" \notin Rough
    PROVE  Spec => []OnlyShiftsMislead
<1>1. CoverInv => OnlyShiftsMislead
  BY DEF CoverInv
<1> QED
  BY <1>1, SweepsCover, PTL

\* A bootstrap that reaches its end has mirrored every book that was there from
\* its beginning and that no removal can have moved past it, over whatever
\* interruptions (sync/full.rs).
THEOREM BootstrapIsComplete ==
    ASSUME "event" \notin Rough
    PROVE  Spec => BootstrapMirrorsAll
<1>1. ASSUME TypeOK, OneSync, NoEvents, CoverInv, [Next]_vars
      PROVE  [Finishes("bootstrap") => promised \subseteq Kept(row')]_vars
  <2> SUFFICES ASSUME Next, Finishes("bootstrap")
               PROVE  promised \subseteq Kept(row')
    BY <1>1 DEF vars
  <2>1. promised \subseteq Kept(row)
    <3>1. \A b \in Book : ~BookAhead("bootstrap", b)
      BY DEF Finishes, BookAhead
    <3> QED
      BY <1>1, <3>1 DEF Finishes, CoverInv, BooksInv, Mode, TypeOK
  <2>2. UNCHANGED row
    BY <1>1, FinishingStep DEF Mode, Complete
  <2> QED
    BY <2>1, <2>2 DEF Kept
<1> QED
  BY <1>1, InitStamps, TypeCorrect, OneSyncInductive, NoEventsInductive, SweepsCover, PTL DEF Spec, BootstrapMirrorsAll

-------------------------------------------------------------------------------
(* A sweep that nothing disturbed                                            *)

\* As long as the server is linked, a book is mirrored only with its series, and
\* a sync is at a series that is.
InSeries(t) ==
    t.step = "books" /\ t.stage \in {"fetch", "save", "checkpoint"} =>
        /\ t.at.series \in row.series /\ t.left \subseteq row.series
        /\ t.stage # "fetch" => \A b \in Kept(t.answer) : b[1] \in row.series

\* An answer is a page of what the step lists.
AnswersFit(t) ==
    t.stage \in {"save", "checkpoint"} =>
        IF t.step = "series" THEN Kept(t.answer) = {} ELSE t.answer.series = {}

ShelvedInv ==
    /\ \A m \in Mode : AnswersFit(task[m])
    /\ linked => /\ \A b \in Kept(row) : b[1] \in row.series
                 /\ \A m \in Mode : InSeries(task[m])

Sweep == task["reconcile"]

\* The sweep's own: nothing else has moved since it began.
Undisturbed == Sweep.stage # "idle" /\ Sweep.calm

\* The series step holds the server's series it has come to, and they are not
\* on record as deleted; when it is done the mirror has the server's series.
SeriesSwept ==
    Undisturbed =>
        /\ linked
        /\ Sweep.step = "series" /\ Sweep.stage = "enter" => Sweep.seen.series = {}
        /\ Sweep.step = "series" /\ Sweep.stage # "enter" =>
            /\ \A s \in remote.series : s \in Sweep.seen.series \/ SeriesAhead("reconcile", s)
            /\ Sweep.seen.series \subseteq remote.series
            /\ Sweep.stage \in {"save", "checkpoint"} => Sweep.answer.series \subseteq remote.series
            /\ tomb.series \cap Sweep.seen.series = {}
            /\ Sweep.stage # "complete" => row.series = Sweep.known.series \cup Sweep.seen.series
        /\ Sweep.step = "books" \/ Sweep.stage = "complete" =>
            row.series = remote.series /\ tomb.series \cap row.series = {}

\* The books step, gone through from its beginning, holds the server's stamps of
\* the books it has come to and the mirror's old ones of the rest; when it is
\* done the mirror has the server's books.
BooksSwept ==
    Undisturbed /\ ~Sweep.resumed /\ Sweep.step = "books" /\ Sweep.stage # "enter" =>
        /\ Sweep.scope = row.series
        /\ \A b \in Kept(remote) : b \in Sweep.seen.books \/ BookAhead("reconcile", b)
        /\ Sweep.stage \in {"save", "checkpoint"} =>
            \A b \in Kept(Sweep.answer) : Sweep.answer.books[b] = remote.books[b]
        /\ tomb.books \cap Sweep.seen.books = {}
        /\ \A b \in Sweep.seen.books : b \in Kept(remote) /\ row.books[b] = remote.books[b]
        /\ Sweep.stage # "complete" =>
            \A b \in Book : b \notin Sweep.seen.books => row.books[b] = Sweep.known.books[b]
        /\ Sweep.stage = "complete" => Kept(row) = Sweep.seen.books /\ Kept(remote) = Sweep.seen.books

SweptInv == ShelvedInv /\ SeriesSwept /\ BooksSwept

LEMMA SweepParts == "reconcile" \in Mode /\ "reconcile" # "bootstrap"
BY DEF Mode

\* Whatever else happens, a sweep is not undisturbed after it, or has just begun.
LEMMA WorldDisturbs ==
    ASSUME TypeOK, OneSync, World
    PROVE  \/ Sweep'.stage = "idle" \/ Sweep'.calm = FALSE
           \/ Sweep'.stage = "enter" /\ Sweep'.step = "series" /\ Sweep'.seen.series = {} /\ linked'
<1>1. ASSUME NEW shift \in BOOLEAN, task' = Noticed(shift)
      PROVE  Sweep'.stage = "idle" \/ Sweep'.calm = FALSE
  <2>1. Sweep'.stage = Sweep.stage /\ (Sweep.stage # "idle" => Sweep'.calm = FALSE)
    BY <1>1, NoticedWork, SweepParts DEF Sweep
  <2> QED
    BY <2>1
<1>2. ASSUME NEW m \in Mode, NEW fresh \in BOOLEAN, Start(m, fresh)
      PROVE  \/ Sweep'.stage = "idle"
             \/ Sweep'.stage = "enter" /\ Sweep'.step = "series" /\ Sweep'.seen.series = {} /\ linked'
  BY <1>2, SweepParts, IdleTyped DEF Start, LockFree, OneSync, TypeOK, Idle, Sweep
<1>3. ASSUME NEW m \in Mode, Fails(m) PROVE Sweep'.stage = "idle"
  BY <1>3, SweepParts DEF Fails, OneSync, TypeOK, Idle, Sweep
<1>4. CASE Crash
  BY <1>4, SweepParts DEF Crash, Idle, Sweep
<1>5. (\E b \in Book : Publish(b)) \/ (\E S, B : Remove(S, B)) \/ Unlink =>
        \E shift \in BOOLEAN : task' = Noticed(shift)
  BY DEF Publish, Remove, Unlink
<1> QED
  BY <1>1, <1>2, <1>3, <1>4, <1>5 DEF World

LEMMA ShelvedOfWorld ==
    ASSUME TypeOK, OneSync, ShelvedInv, World
    PROVE  ShelvedInv'
<1>1. ASSUME NEW shift \in BOOLEAN, task' = Noticed(shift), UNCHANGED <<row, linked>>
      PROVE  ShelvedInv'
  <2>1. ASSUME NEW m \in Mode
        PROVE  (InSeries(task[m]) => InSeries(task[m])') /\ (AnswersFit(task[m]) => AnswersFit(task[m])')
    <3>1. CASE task[m].stage = "idle"
      <4>1. task'[m].stage = "idle"
        BY <1>1, <3>1, NoticedWork
      <4> QED
        BY <4>1 DEF InSeries, AnswersFit
    <3>2. CASE task[m].stage # "idle"
      <4>1. /\ task'[m].stage = task[m].stage /\ task'[m].step = task[m].step
            /\ task'[m].at = task[m].at /\ task'[m].left = task[m].left
            /\ task'[m].answer = task[m].answer
        BY <1>1, <3>2, NoticedWork
      <4> QED
        BY <1>1, <4>1 DEF InSeries, AnswersFit
    <3> QED
      BY <3>1, <3>2
  <2> QED
    BY <1>1, <2>1 DEF ShelvedInv
<1>2. ASSUME UNCHANGED <<row, linked>>,
             \A m \in Mode : task'[m] = task[m] \/ task'[m].stage \in {"idle", "enter"}
      PROVE  ShelvedInv'
  BY <1>2 DEF ShelvedInv, InSeries, AnswersFit
<1>3. ASSUME NEW m \in Mode, NEW fresh \in BOOLEAN, Start(m, fresh)
      PROVE  \A n \in Mode : task'[n] = task[n] \/ task'[n].stage \in {"idle", "enter"}
  BY <1>3, IdleTyped DEF Start, TypeOK, Idle
<1>4. ASSUME NEW m \in Mode, Fails(m)
      PROVE  \A n \in Mode : task'[n] = task[n] \/ task'[n].stage \in {"idle", "enter"}
  BY <1>4 DEF Fails, TypeOK, Idle
<1>5. CASE Crash
  BY <1>2, <1>5 DEF Crash, Idle
<1>6. CASE Unlink
  <2>1. \A m \in Mode : AnswersFit(task[m]) => AnswersFit(task[m])'
    BY <1>6, NoticedWork DEF Unlink, AnswersFit, Idle
  <2> QED
    BY <1>6, <2>1 DEF Unlink, ShelvedInv
<1> QED
  BY <1>1, <1>2, <1>3, <1>4, <1>5, <1>6 DEF World, Publish, Remove, Start, Fails

LEMMA EnterBooksIs ==
    ASSUME TypeOK, NEW m \in Mode, EnterBooks(m)
    PROVE  LET cursor == state["books"].cursor
               left == LeftFrom(row.series, cursor)
               at == IF cursor.series \in left THEN cursor
                     ELSE IF left = {} THEN NoCursor
                     ELSE [series |-> Min(left), page |-> 0] IN
           /\ task[m].stage = "enter" /\ task[m].step = "books"
           /\ task'[m].stage = (IF left = {} THEN "prune" ELSE "fetch")
           /\ task'[m].step = "books" /\ task'[m].at = at /\ task'[m].left = left
           /\ task'[m].scope = row.series /\ task'[m].known = row
           /\ task'[m].seen.books = Seeded(row.series \ left, at)
           /\ task'[m].resumed = (task[m].resumed \/ cursor # NoCursor)
           /\ task'[m].calm = task[m].calm /\ task'[m].steady = task[m].steady
           /\ task'[m].lost = task[m].lost /\ task'[m].shifted = task[m].shifted
<1> DEFINE cursor == state["books"].cursor
           left == LeftFrom(row.series, cursor)
           at == IF cursor.series \in left THEN cursor
                 ELSE IF left = {} THEN NoCursor
                 ELSE [series |-> Min(left), page |-> 0]
           stage == IF left = {} THEN "prune" ELSE "fetch"
           seeded == Seeded(row.series \ left, at)
<1>1. PICK resumed \in BOOLEAN : resumed = (task[m].resumed \/ cursor # NoCursor)
  OBVIOUS
<1>2. task' = [task EXCEPT ![m] = [task[m] EXCEPT !.stage = stage, !.at = at, !.left = left,
                  !.scope = row.series, !.known = row, !.seen.books = seeded,
                  !.resumed = task[m].resumed \/ cursor # NoCursor]]
  BY DEF EnterBooks
<1>3. task[m] \in Task /\ task \in [Mode -> Task]
  BY DEF TypeOK
<1>4. task[m].stage = "enter" /\ task[m].step = "books"
  BY DEF EnterBooks, Due
<1> HIDE DEF stage, seeded, at, left, cursor
<1>5. /\ task'[m].stage = stage /\ task'[m].step = task[m].step /\ task'[m].at = at
      /\ task'[m].left = left /\ task'[m].scope = row.series /\ task'[m].known = row
      /\ task'[m].seen.books = seeded /\ task'[m].steady = task[m].steady
      /\ task'[m].lost = task[m].lost /\ task'[m].shifted = task[m].shifted
      /\ task'[m].calm = task[m].calm
      /\ task'[m].resumed = (task[m].resumed \/ cursor # NoCursor)
  BY <1>1, <1>2, <1>3 DEF Task
<1> QED
  BY <1>4, <1>5 DEF stage, seeded, at, left, cursor

LEMMA AnswersFitAfterStep ==
    ASSUME TypeOK, NEW m \in Mode, AnswersFit(task[m]), Step(m)
    PROVE  AnswersFit(task[m])'
<1> USE DEF TypeOK, Task
<1>1. CASE Fetch(m)
  <2>1. CASE task[m].step = "series"
    <3>1. task'[m].step = "series" /\ task'[m].answer = SeriesPage(task[m].at.page)
      BY <1>1, <2>1, FetchIs DEF Same
    <3>2. SeriesPage(task[m].at.page).books = [b \in Book |-> Absent]
      BY SeriesPageIs
    <3>3. Kept(task'[m].answer) = {}
      BY <3>1, <3>2 DEF Kept
    <3> QED
      BY <3>1, <3>3 DEF AnswersFit, Kept
  <2>2. CASE task[m].step # "series"
    <3>1. task'[m].step # "series" /\ task'[m].answer = BooksPage(task[m].at.series, task[m].at.page)
      BY <1>1, <2>2, FetchIs DEF Same
    <3>2. BooksPage(task[m].at.series, task[m].at.page).series = {}
      BY BooksPageIs
    <3> QED
      BY <3>1, <3>2 DEF AnswersFit
  <2> QED
    BY <2>1, <2>2
<1>2. CASE Save(m)
  BY <1>2, SaveIs DEF AnswersFit, Same
<1>3. CASE Checkpoint(m)
  BY <1>3, CheckpointCases DEF AnswersFit
<1>4. CASE Prune(m)
  BY <1>4, PruneIs DEF AnswersFit
<1>5. CASE Skip(m)
  BY <1>5 DEF Skip, Idle, AnswersFit
<1>6. CASE EnterSeries(m)
  BY <1>6 DEF EnterSeries, AnswersFit
<1>7. CASE EnterBooks(m)
  BY <1>7, EnterBooksIs DEF AnswersFit
<1>8. CASE Complete(m)
  BY <1>8 DEF Complete, Idle, AnswersFit
<1> QED
  BY <1>1, <1>2, <1>3, <1>4, <1>5, <1>6, <1>7, <1>8 DEF Step

LEMMA ShelvedOfStep ==
    ASSUME TypeOK, OneSync, ShelvedInv, NEW m \in Mode, Step(m)
    PROVE  ShelvedInv'
<1> SUFFICES ASSUME linked
             PROVE  /\ \A b \in Kept(row') : b[1] \in row'.series
                    /\ InSeries(task[m])'
  <2>1. linked' = linked /\ \A n \in Mode : n # m => task'[n] = Idle
    BY StepIsOfOne DEF OneSync
  <2>2. \A n \in Mode : n # m => InSeries(task[n])' /\ AnswersFit(task[n])'
    BY <2>1 DEF InSeries, AnswersFit, Idle
  <2> QED
    BY <2>1, <2>2, AnswersFitAfterStep DEF ShelvedInv
<1>1. (\A b \in Kept(row) : b[1] \in row.series) /\ InSeries(task[m])
  BY DEF ShelvedInv
<1>2. CASE Skip(m) \/ EnterSeries(m) \/ Complete(m)
  <2>1. UNCHANGED row
    BY <1>2 DEF Skip, EnterSeries, Complete
  <2>2. task'[m].stage \in {"idle", "enter"} \/ task'[m].step = "series"
    <3>1. CASE Skip(m)
      BY <3>1 DEF Skip, TypeOK, Task, Idle
    <3>2. CASE EnterSeries(m)
      BY <3>2 DEF EnterSeries, Due, TypeOK, Task
    <3>3. CASE Complete(m)
      BY <3>3 DEF Complete, TypeOK, Task, Idle
    <3> QED
      BY <1>2, <3>1, <3>2, <3>3
  <2> QED
    BY <1>1, <2>1, <2>2 DEF InSeries, Kept
<1>3. CASE EnterBooks(m)
  <2> DEFINE cursor == state["books"].cursor
             left == LeftFrom(row.series, cursor)
             at == IF cursor.series \in left THEN cursor
                   ELSE IF left = {} THEN NoCursor
                   ELSE [series |-> Min(left), page |-> 0]
  <2>1. /\ task'[m].stage = (IF left = {} THEN "prune" ELSE "fetch")
        /\ task'[m].at = at /\ task'[m].left = left
    BY <1>3, EnterBooksIs
  <2>2. left \subseteq row.series /\ left \in SUBSET Series
    BY DEF LeftFrom, TypeOK, Library
  <2>3. left # {} => at.series \in left
    BY <2>2, MinIsMember
  <2>4. UNCHANGED row
    BY <1>3 DEF EnterBooks
  <2> HIDE DEF left, at
  <2> QED
    BY <1>1, <2>1, <2>2, <2>3, <2>4 DEF InSeries, Kept
<1>4. CASE Fetch(m)
  <2>1. task[m].stage = "fetch" /\ task'[m].stage = "save" /\ Same(m) /\ UNCHANGED row
    BY <1>4, FetchIs DEF Fetch
  <2>2. task[m].step = "books" => \A b \in Kept(task'[m].answer) : b[1] = task[m].at.series
    BY <1>4, FetchIs, BooksAnswered DEF Entity, Kept
  <2> QED
    BY <1>1, <2>1, <2>2 DEF InSeries, Same, Kept
<1>5. CASE Save(m)
  <2>1. /\ task[m].stage = "save" /\ task'[m].stage = "checkpoint" /\ Same(m)
        /\ task'[m].answer = task[m].answer /\ row.series \subseteq row'.series
        /\ \A b \in Book : row'.books[b] = IF Dirty(m, b) THEN task[m].answer.books[b] ELSE row.books[b]
    BY <1>5, SaveIs
  <2>2. \A b \in Kept(row') : b \in Kept(row) \/ b \in Kept(task[m].answer)
    BY <2>1 DEF Kept, Dirty
  <2>3. \A b \in Kept(task[m].answer) : task[m].step = "books"
    BY <2>1 DEF ShelvedInv, AnswersFit, TypeOK, Task, Entity
  <2> QED
    BY <1>1, <2>1, <2>2, <2>3 DEF InSeries, Same
<1>6. CASE Checkpoint(m)
  <2> DEFINE t == task[m]
             later == t.left \ {t.at.series}
  <2>1. t.stage = "checkpoint" /\ task'[m].stage \in {"fetch", "prune"} /\ UNCHANGED row
    BY <1>6, CheckpointCases DEF Checkpoint
  <2>2. ASSUME NEW s \in row.series, NEW p, WentOn(m, s, p), t.step = "books" => t.left \subseteq row.series
        PROVE  InSeries(task[m])'
    <3>1. /\ task'[m].stage = "fetch" /\ task'[m].at = [series |-> s, page |-> p]
          /\ task'[m].left = {x \in t.left : x >= s} /\ task'[m].step = t.step
      BY <2>2, WentOnIs
    <3>2. task'[m].at.series = s /\ task'[m].left \subseteq t.left
      BY <3>1
    <3> QED
      BY <2>1, <2>2, <3>1, <3>2 DEF InSeries
  <2>3. ASSUME t.step # "books" PROVE InSeries(task[m])'
    <3>1. \A s, p : WentOn(m, s, p) => task'[m].step = t.step
      BY WentOnIs
    <3>2. task' = [task EXCEPT ![m].stage = "prune"] => task'[m].step = t.step
      BY DEF TypeOK, Task
    <3>3. \/ \E s, p : WentOn(m, s, p)
          \/ task' = [task EXCEPT ![m].stage = "prune"]
      BY <1>6, CheckpointCases
    <3>4. task'[m].step = t.step
      BY <3>1, <3>2, <3>3
    <3> QED
      BY <2>3, <3>4 DEF InSeries
  <2>4. ASSUME t.step = "books" /\ ~t.answer.last
        PROVE  InSeries(task[m])'
    BY <1>1, <1>6, <2>1, <2>2, <2>4, CheckpointCases DEF InSeries
  <2>5. ASSUME t.step = "books" /\ t.answer.last /\ later # {}
        PROVE  InSeries(task[m])'
    <3>1. later \in SUBSET Series
      BY DEF TypeOK, Task
    <3>2. Min(later) \in later
      BY <2>5, <3>1, MinIsMember
    <3>3. WentOn(m, Min(later), 0)
      BY <1>6, <2>5, CheckpointCases
    <3>4. t.left \subseteq row.series
      BY <1>1, <2>1, <2>5 DEF InSeries
    <3> QED
      BY <2>2, <3>2, <3>3, <3>4
  <2>6. ASSUME t.answer.last /\ later = {}
        PROVE  InSeries(task[m])'
    <3>1. task' = [task EXCEPT ![m].stage = "prune"]
      BY <1>6, <2>6, CheckpointCases
    <3>2. task'[m].stage = "prune"
      BY <3>1 DEF TypeOK, Task
    <3> QED
      BY <3>2 DEF InSeries
  <2>7. InSeries(task[m])'
    BY <2>3, <2>4, <2>5, <2>6
  <2>8. \A b \in Kept(row') : b[1] \in row'.series
    BY <1>1, <2>1 DEF Kept
  <2> QED
    BY <2>7, <2>8
<1>7. CASE Prune(m)
  <2> DEFINE S == IF m = "reconcile" /\ task[m].step = "series"
                  THEN row.series \ task[m].seen.series ELSE {}
  <2>1. task'[m].stage = "complete" /\ row'.series = row.series \ S
    BY <1>7, PruneIs
  <2>2. \A b \in Kept(row') : b \in Kept(row) /\ b[1] \notin S
    BY <1>7, PruneIs
  <2> HIDE DEF S
  <2>3. \A b \in Kept(row') : b[1] \in row'.series
    BY <1>1, <2>1, <2>2
  <2>4. InSeries(task[m])'
    BY <2>1 DEF InSeries
  <2> QED
    BY <2>3, <2>4
<1> QED
  BY <1>2, <1>3, <1>4, <1>5, <1>6, <1>7 DEF Step

\* The place goes on, everything else of the sync stays.
LEMMA CheckpointIs ==
    ASSUME TypeOK, NEW m \in Mode, Checkpoint(m)
    PROVE  /\ task[m].stage = "checkpoint" /\ task'[m].stage \in {"fetch", "prune"}
           /\ task'[m].step = task[m].step /\ task'[m].scope = task[m].scope
           /\ task'[m].known = task[m].known /\ task'[m].seen = task[m].seen
           /\ task'[m].resumed = task[m].resumed /\ task'[m].calm = task[m].calm
           /\ UNCHANGED <<remote, row, tomb, linked>>
<1>1. ASSUME NEW s, NEW p, WentOn(m, s, p)
      PROVE  /\ task'[m].step = task[m].step /\ task'[m].scope = task[m].scope
             /\ task'[m].known = task[m].known /\ task'[m].seen = task[m].seen
             /\ task'[m].resumed = task[m].resumed /\ task'[m].calm = task[m].calm
  BY <1>1, WentOnIs
<1>2. ASSUME task' = [task EXCEPT ![m].stage = "prune"]
      PROVE  /\ task'[m].step = task[m].step /\ task'[m].scope = task[m].scope
             /\ task'[m].known = task[m].known /\ task'[m].seen = task[m].seen
             /\ task'[m].resumed = task[m].resumed /\ task'[m].calm = task[m].calm
  BY <1>2 DEF TypeOK, Task
<1>3. (\E s, p : WentOn(m, s, p)) \/ task' = [task EXCEPT ![m].stage = "prune"]
  BY CheckpointCases
<1>4. task[m].stage = "checkpoint" /\ task'[m].stage \in {"fetch", "prune"}
  BY CheckpointCases
<1>5. UNCHANGED <<remote, row, tomb, linked>>
  BY DEF Checkpoint
<1> QED
  BY <1>1, <1>2, <1>3, <1>4, <1>5

LEMMA AheadOfCheckpoint ==
    ASSUME TypeOK, CoverInv, NEW m \in Mode, Checkpoint(m)
    PROVE  /\ \A s \in Series : task[m].step = "series" /\ SeriesAhead(m, s) => SeriesAhead(m, s)'
           /\ \A b \in Book : task[m].step = "books" /\ BookAhead(m, b) => BookAhead(m, b)'
<1> DEFINE t == task[m]
           later == t.left \ {t.at.series}
<1>1. t.stage = "checkpoint" /\ t.left \in SUBSET Series /\ t.at \in Cursor /\ UNCHANGED remote
  BY CheckpointCases DEF TypeOK, Task, Checkpoint
<1>2. t.at.series \in Nat /\ t.at.page \in Nat
  BY <1>1, CursorParts
<1>3. ASSUME NEW s \in Series, t.step = "series", SeriesAhead(m, s)
      PROVE  SeriesAhead(m, s)'
  <2>1. PageOfSeries(s) > t.at.page /\ ~t.answer.last /\ PageOfSeries(s) \in Nat
    BY <1>1, <1>3, SeriesListed DEF SeriesAhead, Ahead
  <2>2. WentOn(m, t.at.series, t.at.page + 1)
    BY <2>1, CheckpointCases
  <2>3. PICK p \in Nat : p = t.at.page + 1
    BY <1>2
  <2>4. task'[m].stage = "fetch" /\ task'[m].at = [series |-> t.at.series, page |-> p]
    BY <2>2, <2>3, WentOnIs
  <2>5. PageOfSeries(s) >= p
    BY <1>2, <2>1, <2>3
  <2> QED
    BY <1>1, <2>4, <2>5, PagesStay DEF SeriesAhead, Ahead
<1>4. ASSUME NEW b \in Book, t.step = "books", BookAhead(m, b)
      PROVE  BookAhead(m, b)'
  <2>1. b[1] \in t.left /\ (b[1] = t.at.series => PageOfBook(b) > t.at.page /\ ~t.answer.last)
    BY <1>1, <1>4 DEF BookAhead, Ahead
  <2>2. b[1] \in Nat /\ PageOfBook(b) \in Nat
    BY BookParts, BookListed
  <2>3. ASSUME NEW s \in Nat, NEW p \in Nat, WentOn(m, s, p), b[1] >= s, b[1] = s => PageOfBook(b) >= p
        PROVE  BookAhead(m, b)'
    <3>1. /\ task'[m].stage = "fetch" /\ task'[m].at = [series |-> s, page |-> p]
          /\ task'[m].left = {x \in t.left : x >= s}
      BY <2>3, WentOnIs
    <3> QED
      BY <1>1, <2>1, <2>3, <3>1, PagesStay DEF BookAhead, Ahead
  <2>4. ASSUME ~t.answer.last
        PROVE  BookAhead(m, b)'
    <3>1. WentOn(m, t.at.series, t.at.page + 1)
      BY <2>4, CheckpointCases
    <3>2. b[1] >= t.at.series
      BY <1>1, <1>4, <2>1 DEF CoverInv, BooksInv
    <3>3. b[1] = t.at.series => PageOfBook(b) >= t.at.page + 1
      BY <1>2, <2>1, <2>2
    <3>4. t.at.page + 1 \in Nat
      BY <1>2
    <3> QED
      BY <1>2, <2>3, <3>1, <3>2, <3>3, <3>4
  <2>5. ASSUME t.answer.last
        PROVE  BookAhead(m, b)'
    <3>1. b[1] \in later /\ later \in SUBSET Series
      BY <1>1, <2>1, <2>5
    <3>2. WentOn(m, Min(later), 0)
      BY <2>5, <3>1, CheckpointCases
    <3> HIDE DEF later
    <3>3. Min(later) \in Nat /\ b[1] >= Min(later)
      <4>1. Min(later) \in later /\ \A x \in later : Min(later) <= x
        BY <3>1, MinIsMember
      <4>2. Min(later) \in Nat
        BY <3>1, <4>1, BookParts
      <4> QED
        BY <2>2, <3>1, <4>1, <4>2
    <3>4. PageOfBook(b) >= 0 /\ 0 \in Nat
      BY <2>2
    <3> QED
      BY <2>3, <3>2, <3>3, <3>4
  <2> QED
    BY <2>4, <2>5
<1> QED
  BY <1>3, <1>4

\* Each step of the sweep keeps what it has swept.
LEMMA SweptOfEnterSeries ==
    ASSUME TypeOK, SweptInv, EnterSeries("reconcile")
    PROVE  SeriesSwept' /\ BooksSwept'
<1>1. /\ Sweep.stage = "enter" /\ Sweep.step = "series"
      /\ Sweep'.stage = "fetch" /\ Sweep'.step = "series" /\ Sweep'.at = NoCursor
      /\ Sweep'.known = row /\ Sweep'.seen = Sweep.seen /\ Sweep'.calm = Sweep.calm
      /\ UNCHANGED <<remote, row, tomb, linked>>
  BY SweepParts DEF EnterSeries, Due, Sweep, TypeOK, Task
<1>2. SeriesSwept'
  <2>1. \A s \in remote.series : SeriesAhead("reconcile", s)'
    <3>1. \A s \in remote.series : PageOfSeries(s) \in Nat /\ PageOfSeries(s)' = PageOfSeries(s)
      BY <1>1, SeriesListed, PagesStay DEF TypeOK, Library
    <3> QED
      BY <1>1, <3>1 DEF SeriesAhead, Ahead, Sweep, NoCursor
  <2> QED
    BY <1>1, <2>1 DEF SweptInv, SeriesSwept, Undisturbed
<1>3. BooksSwept'
  BY <1>1 DEF BooksSwept
<1> QED
  BY <1>2, <1>3

LEMMA SweptOfFetch ==
    ASSUME TypeOK, SweptInv, Fetch("reconcile")
    PROVE  SeriesSwept' /\ BooksSwept'
<1>1. /\ Sweep.stage = "fetch" /\ Sweep'.stage = "save"
      /\ Sweep'.step = Sweep.step /\ Sweep'.scope = Sweep.scope /\ Sweep'.known = Sweep.known
      /\ Sweep'.resumed = Sweep.resumed /\ Sweep'.calm = Sweep.calm /\ Sweep'.seen = Sweep.seen
      /\ Sweep'.answer = IF Sweep.step = "series" THEN SeriesPage(Sweep.at.page)
                         ELSE BooksPage(Sweep.at.series, Sweep.at.page)
      /\ Sweep.step \in Entity
      /\ UNCHANGED <<remote, row, tomb, linked>>
  BY FetchIs, SweepParts DEF Sweep, Same, Fetch, TypeOK, Task
<1>2. SeriesSwept'
  <2>1. Sweep.step = "series" => Sweep'.answer.series \subseteq remote.series
    BY <1>1, SeriesPageIs
  <2>2. Sweep.step = "series" =>
          \A s \in remote.series : SeriesAhead("reconcile", s) => SeriesAhead("reconcile", s)'
    BY AheadOfFetch, SweepParts DEF Sweep
  <2> QED
    BY <1>1, <2>1, <2>2 DEF SweptInv, SeriesSwept, Undisturbed
<1>3. BooksSwept'
  <2>1. Sweep.step = "books" => \A b \in Kept(Sweep'.answer) : Sweep'.answer.books[b] = remote.books[b]
    BY <1>1, BooksAnswered DEF Kept
  <2>2. Sweep.step = "books" =>
          \A b \in Kept(remote) : BookAhead("reconcile", b) => BookAhead("reconcile", b)'
    BY AheadOfFetch, SweepParts DEF Sweep
  <2> QED
    BY <1>1, <2>1, <2>2 DEF SweptInv, BooksSwept, Undisturbed
<1> QED
  BY <1>2, <1>3

LEMMA SweptOfSave ==
    ASSUME TypeOK, SweptInv, Save("reconcile")
    PROVE  SeriesSwept' /\ BooksSwept'
<1>1. /\ Sweep.stage = "save" /\ Sweep'.stage = "checkpoint"
      /\ Sweep'.step = Sweep.step /\ Sweep'.scope = Sweep.scope /\ Sweep'.known = Sweep.known
      /\ Sweep'.resumed = Sweep.resumed /\ Sweep'.calm = Sweep.calm /\ Sweep'.answer = Sweep.answer
      /\ Sweep'.seen.series = Sweep.seen.series \cup Sweep.answer.series
      /\ Sweep'.seen.books = Sweep.seen.books \cup Kept(Sweep.answer)
      /\ row'.series = row.series \cup (Sweep.answer.series \ Sweep.known.series)
      /\ tomb'.series = tomb.series \ Sweep.answer.series
      /\ tomb'.books = tomb.books \ Kept(Sweep.answer)
      /\ Sweep.step \in Entity
      /\ UNCHANGED <<remote, linked>>
  BY SaveIs, SweepParts DEF Sweep, Same, Save, TypeOK, Task
<1>2. \A b \in Book : row'.books[b] =
        IF Sweep.answer.books[b] # Absent /\ Sweep.known.books[b] # Sweep.answer.books[b]
        THEN Sweep.answer.books[b] ELSE row.books[b]
  BY SaveIs, SweepParts DEF Sweep, Dirty
<1>3. Sweep.step = "books" => Sweep.answer.series = {}
  BY <1>1, SweepParts DEF SweptInv, ShelvedInv, AnswersFit, Sweep
<1>4. SeriesSwept'
  <2>1. \A s \in Series : SeriesAhead("reconcile", s) /\ s \notin Sweep.answer.series
            => SeriesAhead("reconcile", s)'
    BY AheadOfSave, SweepParts DEF Sweep
  <2>2. remote.series \subseteq Series
    BY DEF TypeOK, Library
  <2> QED
    BY <1>1, <1>3, <2>1, <2>2 DEF SweptInv, SeriesSwept, Undisturbed, Entity
<1>5. ASSUME Undisturbed', ~Sweep'.resumed, Sweep'.step = "books"
      PROVE  /\ Sweep'.scope = row'.series
             /\ \A b \in Kept(remote') : b \in Sweep'.seen.books \/ BookAhead("reconcile", b)'
             /\ \A b \in Kept(Sweep'.answer) : Sweep'.answer.books[b] = remote'.books[b]
             /\ tomb'.books \cap Sweep'.seen.books = {}
             /\ \A b \in Sweep'.seen.books : b \in Kept(remote') /\ row'.books[b] = remote'.books[b]
             /\ \A b \in Book : b \notin Sweep'.seen.books => row'.books[b] = Sweep'.known.books[b]
  <2>1. /\ Sweep.scope = row.series
        /\ \A b \in Kept(remote) : b \in Sweep.seen.books \/ BookAhead("reconcile", b)
        /\ \A b \in Kept(Sweep.answer) : Sweep.answer.books[b] = remote.books[b]
        /\ tomb.books \cap Sweep.seen.books = {}
        /\ \A b \in Sweep.seen.books : b \in Kept(remote) /\ row.books[b] = remote.books[b]
        /\ \A b \in Book : b \notin Sweep.seen.books => row.books[b] = Sweep.known.books[b]
    BY <1>1, <1>5 DEF SweptInv, BooksSwept, Undisturbed
  <2>2. \A b \in Book : BookAhead("reconcile", b) /\ b \notin Kept(Sweep.answer)
            => BookAhead("reconcile", b)'
    BY AheadOfSave, SweepParts DEF Sweep
  <2>3. \A b \in Kept(remote') : b \in Sweep'.seen.books \/ BookAhead("reconcile", b)'
    BY <1>1, <2>1, <2>2 DEF Kept
  <2>4. \A b \in Kept(Sweep.answer) : b \in Book /\ Sweep.answer.books[b] # Absent
    BY DEF Kept
  <2>5. \A b \in Kept(Sweep.answer) : b \in Kept(remote) /\ row'.books[b] = remote.books[b]
    BY <1>2, <2>1, <2>4 DEF Kept
  <2>6. \A b \in Sweep.seen.books : row'.books[b] = remote.books[b]
    <3>1. \A b \in Sweep.seen.books : b \in Book
      BY <2>1 DEF Kept
    <3>2. \A b \in Book : Sweep.answer.books[b] # Absent => b \in Kept(Sweep.answer)
      BY DEF Kept
    <3> QED
      BY <1>2, <2>1, <2>5, <3>1, <3>2
  <2>7. \A b \in Book : b \notin Kept(Sweep.answer) => row'.books[b] = row.books[b]
    BY <1>2 DEF Kept
  <2> QED
    BY <1>1, <1>3, <1>5, <2>1, <2>3, <2>5, <2>6, <2>7
<1>6. BooksSwept'
  BY <1>1, <1>5 DEF BooksSwept
<1> QED
  BY <1>4, <1>6

LEMMA SweptOfCheckpoint ==
    ASSUME TypeOK, CoverInv, SweptInv, Checkpoint("reconcile")
    PROVE  SeriesSwept' /\ BooksSwept'
<1>1. /\ Sweep.stage = "checkpoint" /\ Sweep'.stage \in {"fetch", "prune"}
      /\ Sweep'.step = Sweep.step /\ Sweep'.scope = Sweep.scope /\ Sweep'.known = Sweep.known
      /\ Sweep'.resumed = Sweep.resumed /\ Sweep'.calm = Sweep.calm /\ Sweep'.seen = Sweep.seen
      /\ UNCHANGED <<remote, row, tomb, linked>>
  BY CheckpointIs, SweepParts DEF Sweep
<1>2. SeriesSwept'
  <2>1. Sweep.step = "series" =>
          \A s \in Series : SeriesAhead("reconcile", s) => SeriesAhead("reconcile", s)'
    BY AheadOfCheckpoint, SweepParts DEF Sweep
  <2>2. remote.series \subseteq Series
    BY DEF TypeOK, Library
  <2> QED
    BY <1>1, <2>1, <2>2 DEF SweptInv, SeriesSwept, Undisturbed
<1>3. BooksSwept'
  <2>1. Sweep.step = "books" =>
          \A b \in Kept(remote) : BookAhead("reconcile", b) => BookAhead("reconcile", b)'
    BY AheadOfCheckpoint, SweepParts DEF Sweep, Kept
  <2> QED
    BY <1>1, <2>1 DEF SweptInv, BooksSwept, Undisturbed
<1> QED
  BY <1>2, <1>3

LEMMA SweptOfPrune ==
    ASSUME TypeOK, SweptInv, Prune("reconcile")
    PROVE  SeriesSwept' /\ BooksSwept'
<1> DEFINE S == IF Sweep.step = "series" THEN row.series \ Sweep.seen.series ELSE {}
           B == IF Sweep.step = "books"
                THEN {b \in Kept(row) : b[1] \in Sweep.scope /\ b \notin Sweep.seen.books} ELSE {}
<1>1. /\ Sweep.stage = "prune" /\ Sweep'.stage = "complete"
      /\ Sweep'.step = Sweep.step /\ Sweep'.scope = Sweep.scope /\ Sweep'.known = Sweep.known
      /\ Sweep'.resumed = Sweep.resumed /\ Sweep'.calm = Sweep.calm /\ Sweep'.seen = Sweep.seen
      /\ row'.series = row.series \ S
      /\ Kept(row') = {b \in Kept(row) : b \notin B /\ b[1] \notin S}
      /\ \A b \in Kept(row') : row'.books[b] = row.books[b]
      /\ tomb'.series = tomb.series \cup S
      /\ tomb'.books = tomb.books \cup B \cup {b \in Kept(row) : b[1] \in S}
      /\ Sweep.step \in Entity
      /\ UNCHANGED <<remote, linked>>
  <2>1. /\ S = IF "reconcile" = "reconcile" /\ task["reconcile"].step = "series"
               THEN row.series \ task["reconcile"].seen.series ELSE {}
        /\ B = IF "reconcile" = "reconcile" /\ task["reconcile"].step = "books"
               THEN {b \in Kept(row) : b[1] \in task["reconcile"].scope /\ b \notin task["reconcile"].seen.books}
               ELSE {}
    BY DEF Sweep
  <2>2. Sweep.step \in Entity /\ UNCHANGED <<remote, linked>>
    BY SweepParts DEF Sweep, Prune, TypeOK, Task
  <2> HIDE DEF S, B
  <2>3. "reconcile" \in Mode
    BY SweepParts
  <2> QED
    BY <2>1, <2>2, <2>3, PruneIs DEF Sweep, Same
<1>2. /\ \A s : ~SeriesAhead("reconcile", s)
      /\ \A b : ~BookAhead("reconcile", b)
  BY <1>1 DEF SeriesAhead, BookAhead, Ahead, Sweep
<1>3. SeriesSwept'
  <2>1. CASE Sweep.step = "series"
    <3>1. S = row.series \ Sweep.seen.series
      BY <2>1
    <3> HIDE DEF S, B
    <3> QED
      BY <1>1, <1>2, <2>1, <3>1 DEF SweptInv, SeriesSwept, Undisturbed
  <2>2. CASE Sweep.step = "books"
    <3>1. S = {}
      BY <2>2
    <3> HIDE DEF S, B
    <3> QED
      BY <1>1, <2>2, <3>1 DEF SweptInv, SeriesSwept, Undisturbed
  <2> QED
    BY <1>1, <2>1, <2>2 DEF Entity
<1>4. ASSUME Undisturbed', ~Sweep'.resumed, Sweep'.step = "books"
      PROVE  /\ Sweep'.scope = row'.series
             /\ \A b \in Kept(remote') : b \in Sweep'.seen.books
             /\ tomb'.books \cap Sweep'.seen.books = {}
             /\ \A b \in Sweep'.seen.books : b \in Kept(remote') /\ row'.books[b] = remote'.books[b]
             /\ Kept(row') = Sweep'.seen.books /\ Kept(remote') = Sweep'.seen.books
  <2>1. /\ Sweep.scope = row.series
        /\ \A b \in Kept(remote) : b \in Sweep.seen.books
        /\ tomb.books \cap Sweep.seen.books = {}
        /\ \A b \in Sweep.seen.books : b \in Kept(remote) /\ row.books[b] = remote.books[b]
    BY <1>1, <1>2, <1>4 DEF SweptInv, BooksSwept, Undisturbed
  <2>2. \A b \in Kept(row) : b[1] \in row.series
    BY <1>1, <1>4 DEF SweptInv, ShelvedInv, SeriesSwept, Undisturbed
  <2>3. S = {} /\ B = {b \in Kept(row) : b \notin Sweep.seen.books}
    BY <1>1, <1>4, <2>1, <2>2
  <2> HIDE DEF S, B
  <2>4. \A b \in Sweep.seen.books : b \in Kept(row)
    BY <2>1 DEF Kept
  <2>5. Kept(row') = Sweep.seen.books
    BY <1>1, <2>3, <2>4
  <2>6. tomb'.books \cap Sweep.seen.books = {}
    BY <1>1, <2>1, <2>3
  <2> QED
    BY <1>1, <1>4, <2>1, <2>3, <2>5, <2>6
<1> HIDE DEF S, B
<1>5. BooksSwept'
  BY <1>1, <1>4 DEF BooksSwept
<1> QED
  BY <1>3, <1>5

LEMMA SweptOfEnterBooks ==
    ASSUME TypeOK, CoverInv, SweptInv, EnterBooks("reconcile")
    PROVE  SeriesSwept' /\ BooksSwept'
<1> DEFINE cursor == state["books"].cursor
           left == LeftFrom(row.series, cursor)
           at == IF cursor.series \in left THEN cursor
                 ELSE IF left = {} THEN NoCursor
                 ELSE [series |-> Min(left), page |-> 0]
<1>1. /\ Sweep.stage = "enter" /\ Sweep.step = "books"
      /\ Sweep'.stage = (IF left = {} THEN "prune" ELSE "fetch")
      /\ Sweep'.step = "books" /\ Sweep'.at = at /\ Sweep'.left = left
      /\ Sweep'.scope = row.series /\ Sweep'.known = row
      /\ Sweep'.seen.books = Seeded(row.series \ left, at)
      /\ Sweep'.resumed = (Sweep.resumed \/ cursor # NoCursor)
      /\ Sweep'.calm = Sweep.calm /\ UNCHANGED <<remote, row, tomb, linked>>
  BY EnterBooksIs, SweepParts DEF Sweep, EnterBooks
<1>2. SeriesSwept'
  <2> HIDE DEF cursor, left, at
  <2> QED
    BY <1>1 DEF SweptInv, SeriesSwept, Undisturbed
<1>3. ASSUME Undisturbed', ~Sweep'.resumed
      PROVE  /\ Sweep'.seen.books = {}
             /\ \A b \in Kept(remote) : BookAhead("reconcile", b)'
  <2>1. cursor = NoCursor /\ Sweep.calm /\ Sweep.stage # "idle"
    BY <1>1, <1>3 DEF Undisturbed
  <2>2. row.series = remote.series
    BY <1>1, <2>1 DEF SweptInv, SeriesSwept, Undisturbed
  <2>3. left = row.series
    <3>1. \A s \in row.series : s \in Series /\ s >= 0
      BY BookParts DEF TypeOK, Library
    <3> QED
      BY <2>1, <3>1 DEF LeftFrom, NoCursor
  <2>4. at.page = 0
    <3>1. cursor.series \notin left
      BY <2>1, <2>3, BookParts DEF NoCursor, TypeOK, Library
    <3> QED
      BY <3>1 DEF NoCursor
  <2> HIDE DEF cursor, left, at
  <2>5. Sweep'.seen.books = {}
    BY <1>1, <2>3, <2>4 DEF Seeded
  <2>6. ASSUME NEW b \in Kept(remote)
        PROVE  BookAhead("reconcile", b)'
    <3>1. b \in Book /\ b[1] \in left
      BY <2>2, <2>3 DEF Kept, CoverInv, ServerInv
    <3>2. Sweep'.stage = "fetch" /\ PageOfBook(b)' = PageOfBook(b) /\ PageOfBook(b) \in Nat
      BY <1>1, <3>1, BookListed, PagesStay
    <3> QED
      BY <1>1, <2>4, <3>1, <3>2 DEF BookAhead, Ahead, Sweep
  <2> QED
    BY <2>5, <2>6
<1>4. BooksSwept'
  <2> HIDE DEF cursor, left, at
  <2>1. Sweep'.stage \in {"prune", "fetch"}
    BY <1>1
  <2> QED
    BY <1>1, <1>3, <2>1 DEF BooksSwept
<1> QED
  BY <1>2, <1>4

LEMMA SweptOfComplete ==
    ASSUME TypeOK, SweptInv, Complete("reconcile")
    PROVE  SeriesSwept' /\ BooksSwept'
<1>1. CASE Sweep.step = "series"
  <2>1. /\ Sweep.stage = "complete" /\ Sweep'.stage = "enter" /\ Sweep'.step = "books"
        /\ Sweep'.calm = Sweep.calm /\ UNCHANGED <<remote, row, tomb, linked>>
    BY <1>1, SweepParts DEF Sweep, Complete, TypeOK, Idle
  <2> QED
    BY <1>1, <2>1 DEF SweptInv, SeriesSwept, BooksSwept, Undisturbed
<1>2. CASE Sweep.step # "series"
  <2>1. Sweep'.stage = "idle"
    BY <1>2, SweepParts DEF Sweep, Complete, TypeOK, Idle
  <2> QED
    BY <2>1 DEF SeriesSwept, BooksSwept, Undisturbed
<1> QED
  BY <1>1, <1>2

LEMMA SweptOfStep ==
    ASSUME TypeOK, OneSync, CoverInv, SweptInv, NEW m \in Mode, Step(m)
    PROVE  SweptInv'
<1>1. ShelvedInv'
  BY ShelvedOfStep DEF SweptInv
<1>2. CASE m = "reconcile"
  <2>1. ~Skip("reconcile")
    BY SweepParts DEF Skip
  <2> QED
    BY <1>1, <1>2, <2>1, SweptOfEnterSeries, SweptOfEnterBooks, SweptOfFetch, SweptOfSave,
       SweptOfCheckpoint, SweptOfPrune, SweptOfComplete DEF Step, SweptInv
<1>3. CASE m # "reconcile"
  <2>1. Sweep'.stage = "idle"
    BY <1>3, StepIsOfOne, SweepParts DEF OneSync, Sweep
  <2> QED
    BY <1>1, <2>1 DEF SweptInv, SeriesSwept, BooksSwept, Undisturbed
<1> QED
  BY <1>2, <1>3

LEMMA SweptInductive ==
    ASSUME "event" \notin Rough, TypeOK, OneSync, NoEvents, CoverInv, SweptInv, [Next]_vars
    PROVE  SweptInv'
<1>1. CASE UNCHANGED vars
  <2>1. /\ \A m \in Mode : \A s : SeriesAhead(m, s)' = SeriesAhead(m, s)
        /\ \A m \in Mode : \A b : BookAhead(m, b)' = BookAhead(m, b)
    BY <1>1, PagesStay DEF vars, SeriesAhead, BookAhead
  <2>2. ShelvedInv'
    BY <1>1 DEF vars, SweptInv, ShelvedInv, InSeries
  <2>3. SeriesSwept' /\ BooksSwept'
    BY <1>1, <2>1, SweepParts DEF vars, SweptInv, SeriesSwept, BooksSwept, Undisturbed, Sweep
  <2> QED
    BY <2>2, <2>3 DEF SweptInv
<1>2. CASE World
  <2>1. ShelvedInv'
    BY <1>2, ShelvedOfWorld DEF SweptInv
  <2>2. SeriesSwept' /\ BooksSwept'
    BY <1>2, WorldDisturbs DEF SeriesSwept, BooksSwept, Undisturbed
  <2> QED
    BY <2>1, <2>2 DEF SweptInv
<1>3. ASSUME NEW m \in Mode, Step(m)
      PROVE  SweptInv'
  BY <1>3, SweptOfStep
<1> QED
  BY <1>1, <1>2, <1>3, NoEventsInductive DEF Next

LEMMA InitSwept == Init => SweptInv
<1> SUFFICES ASSUME Init
             PROVE  SweptInv
  OBVIOUS
<1>1. \A m \in Mode : task[m].stage = "idle"
  BY DEF Init, Idle
<1>2. Kept(row) = {}
  BY DEF Init, Nothing, Kept
<1>3. ShelvedInv
  BY <1>1, <1>2 DEF ShelvedInv, AnswersFit, InSeries
<1> QED
  BY <1>1, <1>3, SweepParts DEF SweptInv, SeriesSwept, BooksSwept, Undisturbed, Sweep

\* A reconciliation that starts from the beginning and finishes while nothing else
\* moved leaves the mirror exactly as the server is, stamps included, whatever rows,
\* cursors and deletion marks interrupted syncs had left behind, and nothing the
\* mirror then holds is on record as deleted (sync/reconcile.rs).
THEOREM WholeSweepsAreFull ==
    ASSUME "event" \notin Rough
    PROVE  Spec => WholeSweepIsFull
<1>1. ASSUME TypeOK, OneSync, NoEvents, SweptInv, [Next]_vars
      PROVE  [Finishes("reconcile") /\ task["reconcile"].calm /\ ~task["reconcile"].resumed
                => Mirrored /\ NoLiveTombs]_vars
  <2> SUFFICES ASSUME Next, Finishes("reconcile"), Sweep.calm, ~Sweep.resumed
               PROVE  Mirrored /\ NoLiveTombs
    BY <1>1 DEF vars, Sweep
  <2>1. Sweep.stage = "complete" /\ Sweep.step = "books"
    BY DEF Finishes, Sweep
  <2>2. UNCHANGED <<row, remote, tomb>>
    BY <1>1, FinishingStep, SweepParts DEF Complete
  <2>3. /\ row.series = remote.series /\ tomb.series \cap row.series = {}
        /\ Kept(row) = Kept(remote) /\ tomb.books \cap Kept(row) = {}
        /\ \A b \in Kept(row) : row.books[b] = remote.books[b]
    BY <1>1, <2>1 DEF SweptInv, SeriesSwept, BooksSwept, Undisturbed
  <2>4. \A b \in Book : row.books[b] = remote.books[b]
    BY <2>3 DEF Kept
  <2>5. row.books \in [Book -> Stamp] /\ remote.books \in [Book -> Stamp]
    BY <1>1 DEF TypeOK, Library
  <2>6. row.books = remote.books
    BY <2>4, <2>5
  <2>7. row = remote
    BY <1>1, <2>3, <2>6 DEF TypeOK, Library
  <2>8. tomb.book = {}
    BY <1>1 DEF NoEvents
  <2> QED
    BY <2>2, <2>3, <2>7, <2>8 DEF Mirrored, NoLiveTombs, Kept
<1> QED
  BY <1>1, InitStamps, InitSwept, TypeCorrect, OneSyncInductive, NoEventsInductive, SweepsCover,
     SweptInductive, PTL DEF Spec, WholeSweepIsFull
=============================================================================
