---------------------------- MODULE ReadingProofs ----------------------------
(***************************************************************************)
(* Theorems about Paging and Reading, for every number of books, pages,    *)
(* statements and crashes.                                                 *)
(*                                                                         *)
(* How Pair deals the pages of a book is in SequenceProofs; what a mode    *)
(* makes of a place is here.                                               *)
(* Reading runs on top of Outbox, which it does not restrict: every step   *)
(* of the reader is a step of the outbox of a user who may say anything,   *)
(* so what OutboxProofs proves of that outbox holds under the reader.      *)
(***************************************************************************)
EXTENDS Reading, SequenceProofs

-------------------------------------------------------------------------------
(* Spreads of a book                                                         *)

LEMMA SpreadsAre ==
    ASSUME NEW mode, NEW single \in BOOLEAN
    PROVE  /\ SpreadsIn(mode, single) \in Seq(Seq(1 .. LastPage))
           /\ SpreadsIn(mode, single) # <<>>
           /\ \A i \in DOMAIN SpreadsIn(mode, single) :
                 /\ SpreadsIn(mode, single)[i][1] \in 1 .. LastPage
                 /\ IndexForPage(SpreadsIn(mode, single), SpreadsIn(mode, single)[i][1]) = i
<1>1. PICK spreads : spreads = SpreadsIn(mode, single)
  OBVIOUS
<1>2. LaysOut(spreads, 1, LastPage)
  BY <1>1, PairLaysOut, OutboxAssumption DEF SpreadsIn
<1>3. spreads \in Seq(Seq(1 .. LastPage))
  BY <1>2 DEF LaysOut
<1>4. spreads # <<>>
  <2>1. 1 \in 1 .. LastPage
    BY OutboxAssumption
  <2> QED
    BY <1>2, <2>1 DEF LaysOut
<1>5. ASSUME NEW i \in DOMAIN spreads
      PROVE  spreads[i][1] \in 1 .. LastPage /\ IndexForPage(spreads, spreads[i][1]) = i
  <2>1. spreads[i] \in Seq(1 .. LastPage) /\ spreads[i] # <<>>
    BY <1>2, <1>3 DEF LaysOut
  <2>2. 1 \in DOMAIN spreads[i] /\ spreads[i][1] \in 1 .. LastPage
    BY <2>1, FirstIsThere
  <2>3. spreads[i][1] \in PagesOf(spreads[i])
    BY <2>2 DEF PagesOf
  <2>4. ASSUME NEW j \in DOMAIN spreads, spreads[i][1] \in PagesOf(spreads[j])
        PROVE  j = i
    <3>1. i \in Nat /\ j \in Nat
      BY <1>3
    <3>2. ~(i < j) /\ ~(j < i)
      BY <1>2, <2>2, <2>3, <2>4 DEF LaysOut
    <3> QED
      BY <3>1, <3>2
  <2> QED
    BY <2>2, <2>3, <2>4 DEF IndexForPage
<1> QED
  BY <1>1, <1>3, <1>4, <1>5

LEMMA PageIsSpread ==
    ASSUME NEW mode, NEW single \in BOOLEAN, NEW page \in 1 .. LastPage
    PROVE  IndexForPage(SpreadsIn(mode, single), page) \in DOMAIN SpreadsIn(mode, single)
<1>1. PICK spreads : spreads = SpreadsIn(mode, single)
  OBVIOUS
<1>2. LaysOut(spreads, 1, LastPage)
  BY <1>1, PairLaysOut, OutboxAssumption DEF SpreadsIn
<1>3. \E i \in DOMAIN spreads : page \in PagesOf(spreads[i])
  BY <1>2 DEF LaysOut
<1> QED
  BY <1>1, <1>3 DEF IndexForPage

SameSpread(mode, p, q) ==
    IndexForPage(SpreadsIn(mode, FirstPageSingle), p) = IndexForPage(SpreadsIn(mode, FirstPageSingle), q)

\* A page snapped to the first one of its spread stays on that spread.
LEMMA SnapKeepsSpread ==
    ASSUME NEW mode, NEW single \in BOOLEAN, NEW page \in 1 .. LastPage, NEW fallback
    PROVE  LET spreads == SpreadsIn(mode, single)
               snapped == EntryPage(spreads, IndexForPage(spreads, page), fallback)
           IN  /\ snapped \in 1 .. LastPage
               /\ single = FirstPageSingle => SameSpread(mode, snapped, page)
<1>1. PICK spreads : spreads = SpreadsIn(mode, single)
  OBVIOUS
<1>2. PICK at : at = IndexForPage(spreads, page)
  OBVIOUS
<1>3. at \in DOMAIN spreads
  BY <1>1, <1>2, PageIsSpread
<1>4. spreads[at][1] \in 1 .. LastPage /\ IndexForPage(spreads, spreads[at][1]) = at
  BY <1>1, <1>3, SpreadsAre
<1> QED
  BY <1>1, <1>2, <1>3, <1>4 DEF EntryPage, SameSpread

-------------------------------------------------------------------------------
(* Types                                                                     *)

\* What the sessions read of the outbox.
Clocked ==
    /\ nextId \in Nat \ {0}
    /\ now \in Instant
    /\ said \in [Book -> [id : Nat, at : Stamp, intent : Intent]]

ReadTyped == ReadTypeOK /\ Clocked

LEMMA OutboxMoves ==
    ASSUME Below \/ Crash
    PROVE  /\ \/ said' = said /\ nextId' = nextId
              \/ \E b \in Book, i \in Words : Say(b, i)
           /\ now' = now \/ Tick
<1>1. ASSUME Call
      PROVE  said' = said /\ nextId' = nextId /\ now' = now
  BY <1>1 DEF Call, tables
<1>2. ASSUME Pass
      PROVE  said' = said /\ nextId' = nextId /\ now' = now
  BY <1>2 DEF Pass, StartPass, EndPass, BeginEntry, AnswerRefetch, ActOnAnswer, Serve, FinishEntry, tables
<1>3. ASSUME Mirror
      PROVE  said' = said /\ nextId' = nextId /\ now' = now
  BY <1>3 DEF Mirror, SweepFetch, SweepWrite, Prune, tables
<1>4. ASSUME World
      PROVE  said' = said /\ nextId' = nextId /\ (now' = now \/ Tick)
  BY <1>4 DEF World, LateLands, ServerDeletes, OtherSays, Tick, tables
<1>5. ASSUME Crash
      PROVE  said' = said /\ nextId' = nextId /\ now' = now
  BY <1>5 DEF Crash, tables
<1>6. ASSUME User
      PROVE  /\ (said' = said /\ nextId' = nextId) \/ \E b \in Book, i \in Words : Say(b, i)
             /\ now' = now
  BY <1>6 DEF User, RetryFailed, Say
<1> QED
  BY <1>1, <1>2, <1>3, <1>4, <1>5, <1>6 DEF Below

LEMMA SayClocked ==
    ASSUME Clocked, NEW b \in Book, NEW i \in Intent, Say(b, i)
    PROVE  Clocked'
<1>1. now \in Stamp
  BY DEF Clocked, Instant, Stamp, Null
<1> QED
  BY <1>1 DEF Clocked, Say

LEMMA BelowClocked ==
    ASSUME Clocked, Below \/ Crash
    PROVE  Clocked'
<1>1. CASE said' = said /\ nextId' = nextId
  <2>1. CASE now' = now
    BY <1>1, <2>1 DEF Clocked
  <2>2. CASE Tick
    <3>1. now' \in Instant
      BY <2>2, BackoffAssumption DEF Clocked, Tick, Instant
    <3> QED
      BY <1>1, <3>1 DEF Clocked
  <2> QED
    BY <2>1, <2>2, OutboxMoves
<1>2. CASE \E b \in Book, i \in Words : Say(b, i)
  BY <1>2, SayClocked, OutboxAssumption
<1> QED
  BY <1>1, <1>2, OutboxMoves

LEMMA PageKinds ==
    /\ 0 \in Pages
    /\ \A p \in 1 .. LastPage : p \in Pages /\ p # 0
    /\ \A p \in Pages : p # 0 => p \in 1 .. LastPage
    /\ Null \in Stamp
    /\ Instant \subseteq Stamp
BY OutboxAssumption, BackoffAssumption DEF Pages, Stamp, Instant, Null

LEMMA EffectiveTyped ==
    ASSUME ReadTypeOK
    PROVE  /\ Effective \in Modes /\ Effective \in ReadMode
           /\ FirstSingle \in BOOLEAN
           /\ "webtoon" \notin Modes => (FirstSingle <=> FirstPageSingle)
<1>1. Effective \in Modes /\ Effective \in ReadMode
  BY ReadingAssumption DEF ReadTypeOK, Effective
<1> QED
  BY <1>1 DEF FirstSingle

\* A restored session stands on the spread its row names.
LEMMA OpenedIs ==
    ASSUME ReadTypeOK, NEW b \in Book, NEW owed \in BOOLEAN, NEW restore \in BOOLEAN
    PROVE  /\ Opened(b, owed, restore) \in Session
           /\ Opened(b, owed, restore).page \in 1 .. LastPage
           /\ Opened(b, owed, restore).open /\ ~Opened(b, owed, restore).moved
           /\ (restore /\ shelf[b].here) => Opened(b, owed, restore).mode = shelf[b].mode
           /\ (restore /\ shelf[b].here /\ shelf[b].page \in 1 .. LastPage /\ "webtoon" \notin Modes) =>
                 SameSpread(shelf[b].mode, Opened(b, owed, restore).page, shelf[b].page)
<1>1. shelf[b] \in Position /\ LastPage \in Nat \ {0}
  BY OutboxAssumption DEF ReadTypeOK
<1>2. PICK saved \in BOOLEAN : saved <=> (restore /\ shelf[b].here)
  BY <1>1 DEF Position
<1>3. PICK single \in BOOLEAN : single <=> FirstSingle
  BY EffectiveTyped
<1>4. PICK mode \in ReadMode : mode = IF saved THEN shelf[b].mode ELSE Effective
  BY <1>1, EffectiveTyped DEF Position
<1> DEFINE wanted == IF saved /\ shelf[b].page > 0 THEN shelf[b].page ELSE 1
<1>5. PICK start \in 1 .. LastPage :
         /\ start = IF wanted > LastPage THEN LastPage ELSE wanted
         /\ (saved /\ shelf[b].page \in 1 .. LastPage) => start = shelf[b].page
  <2>1. shelf[b].page \in 0 .. LastPage + 1
    BY <1>1 DEF Position
  <2> QED
    BY <1>1, <2>1
<1>6. single = FirstSingle
  BY <1>3, EffectiveTyped
<1> DEFINE page == EntryPage(SpreadsIn(mode, single), IndexForPage(SpreadsIn(mode, single), start), start)
<1>7. Opened(b, owed, restore) =
         [open |-> TRUE, page |-> page, mode |-> mode, single |-> single, shown |-> Effective,
          heard |-> page, owes |-> owed, lastUpload |-> Null, moved |-> FALSE]
  BY <1>2, <1>4, <1>5, <1>6 DEF Opened
<1>8. page \in 1 .. LastPage /\ (single = FirstPageSingle => SameSpread(mode, page, start))
  BY SnapKeepsSpread
<1>9. "webtoon" \notin Modes => single = FirstPageSingle
  BY <1>3, EffectiveTyped, ReadingAssumption
<1> HIDE DEF page
<1>10. Opened(b, owed, restore) \in Session
  BY <1>7, <1>8, EffectiveTyped, PageKinds DEF Session
<1> QED
  BY <1>2, <1>4, <1>5, <1>7, <1>8, <1>9, <1>10

LEMMA SaveTyped ==
    ASSUME ReadTypeOK, NEW b \in Book, NEW session \in Session, NEW gesture \in BOOLEAN,
           NEW after \in {"open", "turn", "layout", "close"},
           SavePosition(b, session, after, gesture)
    PROVE  /\ shelf' \in [Book -> Position]
           /\ writing' \in Persisting
           /\ place' \in [Book -> Pages]
<1>1. session.page \in Pages /\ session.mode \in ReadMode /\ session.owes \in BOOLEAN
  BY DEF Session
<1>2. [here |-> TRUE, page |-> session.page, mode |-> session.mode] \in Position
  BY <1>1, OutboxAssumption DEF Position, Pages
<1>3. shelf' \in [Book -> Position]
  BY <1>2 DEF ReadTypeOK, SavePosition
<1>4. writing' \in Persisting
  BY <1>1 DEF SavePosition, Persisting
<1>5. place' \in [Book -> Pages]
  BY <1>1 DEF ReadTypeOK, SavePosition
<1> QED
  BY <1>3, <1>4, <1>5

LEMMA Defaults ==
    /\ NoSession \in Session /\ ~NoSession.open
    /\ NotWriting \in Persisting /\ ~NotWriting.on
<1>1. (CHOOSE b \in Book : TRUE) \in Book
  BY ReadingAssumption
<1> QED
  BY <1>1, PageKinds DEF NoSession, Session, ReadMode, NotWriting, Persisting

\* next and previous are turns to a page of the book.
LEMMA StepTurns ==
    ASSUME ReadTypeOK, NEW b \in Book, NEW forward \in BOOLEAN, Step(b, forward)
    PROVE  \E page \in 1 .. LastPage : TurnTo(b, page)
<1> DEFINE spreads == SpreadsIn(live[b].mode, live[b].single)
           at == IndexForPage(spreads, live[b].page)
           from == IF at = 0 THEN 1 ELSE at
           to == IF forward THEN (IF from = Len(spreads) THEN from ELSE from + 1)
                            ELSE (IF from = 1 THEN 1 ELSE from - 1)
<1>0. live[b].single \in BOOLEAN
  BY DEF ReadTyped, ReadTypeOK, Session
<1>1. spreads \in Seq(Seq(1 .. LastPage)) /\ spreads # <<>>
  BY <1>0, SpreadsAre
<1>2. at \in DOMAIN spreads \cup {0}
  BY DEF IndexForPage
<1>3. TurnTo(b, spreads[to][1])
  BY DEF Step
<1> HIDE DEF at
<1>4. from \in DOMAIN spreads
  <2> HIDE DEF spreads
  <2> QED
    BY <1>1, <1>2
<1> HIDE DEF from
<1>5. to \in DOMAIN spreads
  <2> HIDE DEF spreads
  <2> QED
    BY <1>1, <1>4
<1> HIDE DEF to
<1> QED
  BY <1>0, <1>3, <1>5, SpreadsAre

-------------------------------------------------------------------------------
(* Type correctness of the reader's tables, sessions and screens             *)

LEMMA InitReadTyped == ReadInit => ReadTyped
<1>1. SUFFICES ASSUME ReadInit PROVE ReadTyped
  OBVIOUS
<1>2. NoPosition \in Position /\ Leftover \in Position
  BY OutboxAssumption, ReadingAssumption DEF Position, ReadMode, NoPosition, Leftover
<1>3. ReadTypeOK
  BY <1>1, <1>2, PageKinds, Defaults DEF ReadInit, ReadTypeOK
<1>4. Silence \in [id : Nat, at : Stamp, intent : Intent]
  BY PageKinds DEF Silence, Intent
<1>5. Clocked
  BY <1>1, <1>4, BackoffAssumption DEF ReadInit, Init, Clocked, Instant
<1> QED
  BY <1>3, <1>5 DEF ReadTyped

LEMMA FlushedTyped ==
    ASSUME Clocked, NEW session \in Session
    PROVE  /\ Flushed(session) \in Session
           /\ Flushed(session) = [session EXCEPT !.owes = FALSE, !.lastUpload = now]
BY PageKinds DEF Clocked, Flushed, Session

LEMMA OpenTyped ==
    ASSUME ReadTyped, NEW b \in Book, NEW restore \in BOOLEAN, Open(b, restore)
    PROVE  ReadTypeOK'
<1>1. PICK session : session = Opened(b, RowsOf(b) # {}, restore)
  OBVIOUS
<1>2. session \in Session
  BY <1>1, OpenedIs DEF ReadTyped
<1>3. live' = [live EXCEPT ![b] = session]
  BY <1>1 DEF Open
<1>4. live' \in [Book -> Session]
  BY <1>2, <1>3 DEF ReadTyped, ReadTypeOK
<1>5. \/ SavePosition(b, session, "open", FALSE)
      \/ UNCHANGED <<shelf, writing>> /\ (place' = place \/ place' = [place EXCEPT ![b] = 0])
  BY <1>1 DEF Open
<1>6. /\ shelf' \in [Book -> Position]
      /\ writing' \in Persisting
      /\ place' \in [Book -> Pages]
  BY <1>2, <1>5, SaveTyped, PageKinds DEF ReadTyped, ReadTypeOK
<1> QED
  BY <1>4, <1>6 DEF ReadTyped, ReadTypeOK, Open

LEMMA TurnTyped ==
    ASSUME ReadTyped, NEW b \in Book, NEW page \in 1 .. LastPage, TurnTo(b, page)
    PROVE  ReadTypeOK'
<1>1. PICK session : session = [live[b] EXCEPT !.page = page, !.moved = TRUE]
  OBVIOUS
<1>2. session \in Session
  BY <1>1, PageKinds DEF ReadTyped, ReadTypeOK, Session
<1>3. live' = [live EXCEPT ![b] = session] /\ SavePosition(b, session, "turn", TRUE)
  BY <1>1 DEF TurnTo
<1>4. /\ shelf' \in [Book -> Position]
      /\ writing' \in Persisting
      /\ place' \in [Book -> Pages]
  BY <1>2, <1>3, SaveTyped DEF ReadTyped
<1> QED
  BY <1>2, <1>3, <1>4 DEF ReadTyped, ReadTypeOK, TurnTo

\* A session laid out anew stands on the first page of a spread.
LEMMA RelayoutIs ==
    ASSUME ReadTyped, NEW b \in Book, NEW mode \in Modes, Relayout(b, mode)
    PROVE  \E session \in Session :
              /\ session.page \in 1 .. LastPage
              /\ session.mode = mode /\ session.open = live[b].open /\ session.moved = live[b].moved
              /\ live' = [live EXCEPT ![b] = session]
              /\ SavePosition(b, session, "layout", TRUE)
<1> DEFINE spreads == SpreadsIn(mode, live[b].single)
           at == IndexForPage(spreads, live[b].page)
           page == EntryPage(spreads, IF at = 0 THEN 1 ELSE at, live[b].page)
           session == [live[b] EXCEPT !.page = page, !.mode = mode, !.shown = mode]
<1>0. live[b].single \in BOOLEAN
  BY DEF ReadTyped, ReadTypeOK, Session
<1>1. spreads \in Seq(Seq(1 .. LastPage)) /\ spreads # <<>>
  BY <1>0, SpreadsAre
<1>2. at \in DOMAIN spreads \cup {0}
  BY DEF IndexForPage
<1>3. 1 \in DOMAIN spreads
  <2> HIDE DEF spreads
  <2> QED
    BY <1>1
<1>4. page \in 1 .. LastPage
  <2> HIDE DEF at
  <2> QED
    BY <1>0, <1>2, <1>3, SpreadsAre DEF EntryPage
<1>5. live' = [live EXCEPT ![b] = session] /\ SavePosition(b, session, "layout", TRUE)
  BY DEF Relayout
<1> HIDE DEF page
<1>6. session \in Session /\ session.page = page /\ session.mode = mode
      /\ session.open = live[b].open /\ session.moved = live[b].moved
  BY <1>4, PageKinds, ReadingAssumption DEF ReadTyped, ReadTypeOK, Session
<1> HIDE DEF session
<1> QED
  BY <1>4, <1>5, <1>6

LEMMA RelayoutTyped ==
    ASSUME ReadTyped, NEW b \in Book, NEW mode \in Modes, Relayout(b, mode)
    PROVE  ReadTypeOK'
<1>1. PICK session \in Session :
         /\ live' = [live EXCEPT ![b] = session]
         /\ SavePosition(b, session, "layout", TRUE)
  BY RelayoutIs
<1>2. /\ shelf' \in [Book -> Position]
      /\ writing' \in Persisting
      /\ place' \in [Book -> Pages]
  BY <1>1, SaveTyped DEF ReadTyped
<1>3. choosing' \in [Book -> Modes \cup {"none"}]
  BY DEF Relayout, ReadTyped, ReadTypeOK
<1> QED
  BY <1>1, <1>2, <1>3 DEF ReadTyped, ReadTypeOK, Relayout

LEMMA MarkTyped ==
    ASSUME ReadTyped, NEW b \in Book, NEW kind \in {"read", "unread"}, Mark(b, kind)
    PROVE  ReadTypeOK'
<1>1. live[b] \in Session
  BY DEF ReadTyped, ReadTypeOK
<1>2. PICK session \in Session : session = Flushed(live[b])
  BY <1>1, FlushedTyped DEF ReadTyped
<1>3. /\ [session EXCEPT !.moved = FALSE] \in Session
      /\ [session EXCEPT !.page = 0, !.heard = 0, !.moved = FALSE] \in Session
  BY PageKinds DEF Session
<1>4. live' = [live EXCEPT ![b] =
                 IF kind = "read" THEN [session EXCEPT !.moved = FALSE]
                 ELSE [session EXCEPT !.page = 0, !.heard = 0, !.moved = FALSE]]
  BY <1>2 DEF Mark
<1>5. live' \in [Book -> Session]
  BY <1>3, <1>4 DEF ReadTyped, ReadTypeOK
<1>6. asks' \subseteq Book
  BY DEF Mark, AskedFor, ReadTyped, ReadTypeOK
<1> QED
  BY <1>5, <1>6 DEF Mark, ReadTyped, ReadTypeOK

LEMMA FlushTyped ==
    ASSUME ReadTyped, NEW b \in Book, Beat(b) \/ Background(b)
    PROVE  ReadTypeOK'
<1>1. live[b] \in Session
  BY DEF ReadTyped, ReadTypeOK
<1>2. PICK session \in Session : session = Flushed(live[b])
  BY <1>1, FlushedTyped DEF ReadTyped
<1>3. live' = [live EXCEPT ![b] = session]
  BY <1>2 DEF Beat, Background
<1> QED
  BY <1>3 DEF Beat, Background, AskedFor, ReadTyped, ReadTypeOK

LEMMA FlushMoves ==
    ASSUME ReadTyped, NEW b \in Book, Beat(b) \/ Background(b)
    PROVE  \A c \in Book : /\ live'[c].open = live[c].open
                            /\ live'[c].page = live[c].page
                            /\ live'[c].mode = live[c].mode
                            /\ live'[c].moved = live[c].moved
<1>1. live \in [Book -> Session]
  BY DEF ReadTyped, ReadTypeOK
<1>2. PICK session \in Session :
         session = Flushed(live[b]) /\ session = [live[b] EXCEPT !.owes = FALSE, !.lastUpload = now]
  BY <1>1, FlushedTyped DEF ReadTyped
<1>3. live' = [live EXCEPT ![b] = session]
  BY <1>2 DEF Beat, Background
<1>4. /\ session.open = live[b].open /\ session.page = live[b].page
      /\ session.mode = live[b].mode /\ session.moved = live[b].moved
  BY <1>1, <1>2 DEF Session
<1> QED
  BY <1>1, <1>3, <1>4

LEMMA CloseTyped ==
    ASSUME ReadTyped, NEW b \in Book, Close(b)
    PROVE  ReadTypeOK'
<1>1. \/ SavePosition(b, live[b], "close", FALSE)
      \/ UNCHANGED <<shelf, writing, place>>
  BY DEF Close
<1>2. live[b] \in Session
  BY DEF ReadTyped, ReadTypeOK
<1>3. /\ shelf' \in [Book -> Position]
      /\ writing' \in Persisting
      /\ place' \in [Book -> Pages]
  BY <1>1, <1>2, SaveTyped DEF ReadTyped, ReadTypeOK
<1>4. asks' \subseteq Book
  BY DEF Close, ReadTyped, ReadTypeOK
<1> QED
  BY <1>3, <1>4, Defaults DEF Close, ReadTyped, ReadTypeOK

LEMMA HeardTyped ==
    ASSUME NEW session \in Session, NEW page \in Pages
    PROVE  /\ Heard(session, page) \in Session
           /\ Heard(session, page).page = session.page
           /\ Heard(session, page).mode = session.mode
           /\ Heard(session, page).open = session.open
           /\ Heard(session, page).moved = session.moved
BY DEF Heard, Session

\* What the second transaction says.
Turned == [kind |-> "progress", page |-> writing.page, completed |-> Finishes(writing.page)]

LEMMA TurnedIs ==
    ASSUME ReadTyped
    PROVE  Turned \in Intent /\ (Turned.completed <=> writing.page = LastPage)
<1>1. writing.page \in Pages
  BY DEF ReadTyped, ReadTypeOK, Persisting
<1>2. Finishes(writing.page) \in BOOLEAN /\ (Finishes(writing.page) <=> writing.page = LastPage)
  BY <1>1, OutboxAssumption DEF Finishes, Pages
<1> QED
  BY <1>1, <1>2 DEF Turned, Intent

LEMMA ProgressMoves ==
    ASSUME ReadTyped, SaveProgress
    PROVE  /\ \A b \in Book : /\ live'[b].page = live[b].page
                              /\ live'[b].mode = live[b].mode
                              /\ live'[b].open = live[b].open
                              /\ live'[b].moved = live[b].moved
           /\ live' \in [Book -> Session]
           /\ writing.book \in Book
<1>1. writing.book \in Book /\ writing.page \in Pages
  BY DEF ReadTyped, ReadTypeOK, Persisting
<1>2. live[writing.book] \in Session
  BY <1>1 DEF ReadTyped, ReadTypeOK
<1>3. PICK heard \in Session :
         /\ heard = Heard(live[writing.book], writing.page)
         /\ heard.page = live[writing.book].page /\ heard.mode = live[writing.book].mode
         /\ heard.open = live[writing.book].open /\ heard.moved = live[writing.book].moved
  BY <1>1, <1>2, HeardTyped
<1>4. live' = live \/ live' = [live EXCEPT ![writing.book] = heard]
  BY <1>3 DEF SaveProgress
<1> QED
  BY <1>1, <1>3, <1>4 DEF ReadTyped, ReadTypeOK

LEMMA ProgressTyped ==
    ASSUME ReadTyped, SaveProgress
    PROVE  ReadTyped'
<1>1. writing.book \in Book
  BY ProgressMoves
<1>2. Clocked'
  <2>1. CASE WritesProgress(writing.book)
    <3>1. Say(writing.book, Turned)
      BY <2>1 DEF SaveProgress, Turned
    <3> QED
      BY <1>1, <3>1, TurnedIs, SayClocked DEF ReadTyped
  <2>2. CASE ~WritesProgress(writing.book)
    BY <2>2 DEF SaveProgress, vars, tables, ReadTyped, Clocked
  <2> QED
    BY <2>1, <2>2
<1>3. asks' \subseteq Book
  BY <1>1 DEF SaveProgress, ReadTyped, ReadTypeOK
<1>4. writing' \in Persisting
  BY Defaults DEF SaveProgress
<1> QED
  BY <1>2, <1>3, <1>4, ProgressMoves DEF SaveProgress, ReadTyped, ReadTypeOK

MarkIntent(kind) == [kind |-> kind, page |-> 0, completed |-> kind = "read"]

LEMMA MarkIntentTyped == \A kind \in {"read", "unread"} : MarkIntent(kind) \in Intent
BY DEF MarkIntent, Intent

LEMMA ReadTypeInductive == ReadTyped /\ [ReadNext]_rvars => ReadTyped'
<1>1. SUFFICES ASSUME ReadTyped, [ReadNext]_rvars PROVE ReadTyped'
  OBVIOUS
<1> USE <1>1
<1>2. ASSUME vars' = vars
      PROVE  Clocked'
  BY <1>2 DEF ReadTyped, Clocked, vars, tables
<1>3. ASSUME NEW b \in Book, Gesture(b)
      PROVE  ReadTyped'
  <2>1. CASE \E restore \in Restores : Open(b, restore)
    <3>1. vars' = vars
      BY <2>1 DEF Open
    <3> QED
      BY <2>1, <3>1, <1>2, OpenTyped, ReadingAssumption DEF ReadTyped
  <2>2. CASE Dispose(b)
    <3>1. ReadTypeOK' /\ vars' = vars
      BY <2>2 DEF Dispose, ReadTyped, ReadTypeOK
    <3> QED
      BY <3>1, <1>2 DEF ReadTyped
  <2>3. CASE Background(b)
    <3>1. vars' = vars
      BY <2>3 DEF Background
    <3> QED
      BY <2>3, <3>1, <1>2, FlushTyped DEF ReadTyped
  <2>4. CASE \E page \in 1 .. LastPage : TurnTo(b, page)
    <3>1. vars' = vars
      BY <2>4 DEF TurnTo
    <3> QED
      BY <2>4, <3>1, <1>2, TurnTyped DEF ReadTyped
  <2>5. CASE \E mode \in Modes : Relayout(b, mode)
    <3>1. vars' = vars
      BY <2>5 DEF Relayout
    <3> QED
      BY <2>5, <3>1, <1>2, RelayoutTyped DEF ReadTyped
  <2>6. CASE \E kind \in {"read", "unread"} : Mark(b, kind)
    <3>1. PICK kind \in {"read", "unread"} : Mark(b, kind)
      BY <2>6
    <3>2. vars' = vars \/ Say(b, MarkIntent(kind))
      BY <3>1 DEF Mark, MarkIntent
    <3>3. Clocked'
      BY <3>2, <1>2, SayClocked, MarkIntentTyped DEF ReadTyped
    <3> QED
      BY <3>1, <3>3, MarkTyped DEF ReadTyped
  <2> QED
    BY <1>3, <2>1, <2>2, <2>3, <2>4, <2>5, <2>6, StepTurns DEF Gesture, ReadTyped
<1>4. ASSUME NEW b \in Book, Machinery(b)
      PROVE  ReadTyped'
  <2>1. CASE RememberLayout(b)
    <3>1. ReadTypeOK' /\ vars' = vars
      BY <2>1 DEF RememberLayout, ReadTyped, ReadTypeOK
    <3> QED
      BY <3>1, <1>2 DEF ReadTyped
  <2>2. CASE Beat(b)
    <3>1. vars' = vars
      BY <2>2 DEF Beat
    <3> QED
      BY <2>2, <3>1, <1>2, FlushTyped DEF ReadTyped
  <2>3. CASE Close(b)
    <3>1. vars' = vars
      BY <2>3 DEF Close
    <3> QED
      BY <2>3, <3>1, <1>2, CloseTyped DEF ReadTyped
  <2>4. CASE Flush(b)
    <3>1. ReadTypeOK' /\ Call
      BY <2>4 DEF Flush, ReadTyped, ReadTypeOK
    <3> QED
      BY <3>1, BelowClocked DEF ReadTyped, Below
  <2> QED
    BY <1>4, <2>1, <2>2, <2>3, <2>4 DEF Machinery
<1>5. CASE SaveProgress
  BY <1>5, ProgressTyped
<1>6. CASE Below /\ UNCHANGED reader
  <2>1. ReadTypeOK'
    BY <1>6 DEF reader, ReadTyped, ReadTypeOK
  <2> QED
    BY <1>6, <2>1, BelowClocked DEF ReadTyped
<1>7. CASE ReadCrash
  <2>1. ReadTypeOK'
    BY <1>7, Defaults DEF ReadCrash, ReadTyped, ReadTypeOK
  <2>2. Crash
    BY <1>7 DEF ReadCrash
  <2> QED
    BY <2>1, <2>2, BelowClocked DEF ReadTyped
<1>8. CASE UNCHANGED rvars
  <2>1. ReadTypeOK' /\ vars' = vars
    BY <1>8 DEF rvars, reader, ReadTyped, ReadTypeOK
  <2> QED
    BY <2>1, <1>2 DEF ReadTyped
<1> QED
  BY <1>3, <1>4, <1>5, <1>6, <1>7, <1>8 DEF ReadNext

\* The reader's tables, sessions and screens keep their types: among others, a
\* saved page, a session's page and the page under way are pages of the book
\* whatever is opened, turned, laid out anew, marked or closed.
THEOREM ReaderTypes == ReadSpec => []ReadTypeOK
<1>1. ReadInit => ReadTyped
  BY InitReadTyped
<1>2. ReadTyped /\ [ReadNext]_rvars => ReadTyped'
  BY ReadTypeInductive
<1>3. ReadTyped => ReadTypeOK
  BY DEF ReadTyped
<1> QED
  BY <1>1, <1>2, <1>3, PTL DEF ReadSpec

-------------------------------------------------------------------------------
(* The place of the user                                                     *)

\* The page the user moved to, and the one saved for it, are pages of the book.
PlaceIsAPage ==
    \A b \in Book : place[b] # 0 => shelf[b].page \in 1 .. LastPage

\* An open session that stands on a page stands where its user moved to last,
\* laid out as the saved position is: a close can only confirm that position.
ReaderStands ==
    \A b \in Book : (live[b].open /\ place[b] # 0 /\ live[b].page # 0) =>
        /\ live[b].mode = shelf[b].mode
        /\ SameSpread(live[b].mode, live[b].page, place[b])

PlaceInv == ReadTyped /\ PlaceIsAPage /\ PlaceIsKept /\ ReaderStands

PlaceStands(b) ==
    /\ place[b] # 0 => /\ shelf[b].here
                       /\ shelf[b].page \in 1 .. LastPage
                       /\ SameSpread(shelf[b].mode, shelf[b].page, place[b])
    /\ (live[b].open /\ place[b] # 0 /\ live[b].page # 0) =>
          /\ live[b].mode = shelf[b].mode
          /\ SameSpread(live[b].mode, live[b].page, place[b])

LEMMA PlaceByBook ==
    PlaceIsAPage /\ PlaceIsKept /\ ReaderStands <=> \A b \in Book : PlaceStands(b)
BY DEF PlaceIsAPage, PlaceIsKept, ReaderStands, PlaceStands, SameSpread

\* A step that leaves the positions alone, and every session where it stands,
\* closes it or takes it off its page.
LEMMA PlaceUntouched ==
    ASSUME \A b \in Book : PlaceStands(b), shelf' = shelf, place' = place,
           \A b \in Book : \/ ~live'[b].open
                           \/ live'[b].page = 0
                           \/ /\ live[b].open
                              /\ live'[b].page = live[b].page
                              /\ live'[b].mode = live[b].mode
    PROVE  \A b \in Book : PlaceStands(b)'
<1> SUFFICES ASSUME NEW b \in Book PROVE PlaceStands(b)'
  OBVIOUS
<1> QED
  BY DEF PlaceStands

\* A gesture saves the page and the layout of the session it leaves.
LEMMA PlaceByGesture ==
    ASSUME ReadTyped, \A b \in Book : PlaceStands(b), NEW b \in Book, NEW session \in Session,
           session.page \in 1 .. LastPage,
           live' = [live EXCEPT ![b] = session],
           NEW after, SavePosition(b, session, after, TRUE)
    PROVE  \A c \in Book : PlaceStands(c)'
<1>1. /\ shelf' = [shelf EXCEPT ![b] = [here |-> TRUE, page |-> session.page, mode |-> session.mode]]
      /\ place' = [place EXCEPT ![b] = session.page]
  BY DEF SavePosition
<1>2. session.page # 0
  OBVIOUS
<1>3. /\ shelf \in [Book -> Position] /\ place \in [Book -> Pages] /\ live \in [Book -> Session]
  BY DEF ReadTyped, ReadTypeOK
<1>4. PlaceStands(b)'
  BY <1>1, <1>2, <1>3 DEF PlaceStands, SameSpread
<1>5. ASSUME NEW c \in Book, c # b
      PROVE  PlaceStands(c)'
  <2>1. shelf'[c] = shelf[c] /\ place'[c] = place[c] /\ live'[c] = live[c]
    BY <1>1, <1>3, <1>5
  <2> QED
    BY <2>1 DEF PlaceStands
<1> QED
  BY <1>4, <1>5

\* A session that stands where the user moved to saves that place again,
\* whether it goes on (an open that corrected its page) or ends (a close).
LEMMA PlaceConfirmed ==
    ASSUME ReadTyped, \A b \in Book : PlaceStands(b), NEW b \in Book,
           NEW session \in Session, session.page \in 1 .. LastPage,
           place[b] # 0 => SameSpread(session.mode, session.page, place[b]),
           NEW next \in Session, ~next.open \/ next = session,
           live' = [live EXCEPT ![b] = next],
           \/ /\ UNCHANGED <<shelf, place>>
              /\ (next.open /\ place[b] # 0) => session.mode = shelf[b].mode
           \/ \E after : SavePosition(b, session, after, FALSE)
    PROVE  \A c \in Book : PlaceStands(c)'
<1>1. /\ shelf \in [Book -> Position] /\ place \in [Book -> Pages] /\ live \in [Book -> Session]
  BY DEF ReadTyped, ReadTypeOK
<1>2. PlaceStands(b)
  OBVIOUS
<1>3. CASE UNCHANGED <<shelf, place>> /\ ((next.open /\ place[b] # 0) => session.mode = shelf[b].mode)
  <2>1. live'[b] = next /\ \A c \in Book : c # b => live'[c] = live[c]
    BY <1>1
  <2>2. PlaceStands(b)'
    BY <1>2, <1>3, <2>1 DEF PlaceStands
  <2>3. ASSUME NEW c \in Book, c # b
        PROVE  PlaceStands(c)'
    BY <1>3, <2>1, <2>3 DEF PlaceStands
  <2> QED
    BY <2>2, <2>3
<1>4. CASE \E after : SavePosition(b, session, after, FALSE)
  <2>1. /\ shelf' = [shelf EXCEPT ![b] = [here |-> TRUE, page |-> session.page, mode |-> session.mode]]
        /\ place' = place
    BY <1>4 DEF SavePosition
  <2>2. session.page # 0
    OBVIOUS
  <2>3. shelf'[b].here /\ shelf'[b].page = session.page /\ shelf'[b].mode = session.mode
    BY <1>1, <2>1
  <2>4. live'[b] = next
    BY <1>1
  <2>5. PlaceStands(b)'
    BY <2>1, <2>2, <2>3, <2>4 DEF PlaceStands
  <2>6. ASSUME NEW c \in Book, c # b
        PROVE  PlaceStands(c)'
    <3>1. shelf'[c] = shelf[c] /\ place'[c] = place[c] /\ live'[c] = live[c]
      BY <1>1, <2>1, <2>6
    <3> QED
      BY <3>1 DEF PlaceStands
  <2> QED
    BY <2>5, <2>6
<1> QED
  BY <1>3, <1>4

LEMMA OpenKeepsPlace ==
    ASSUME "webtoon" \notin Modes,
           ReadTyped, \A c \in Book : PlaceStands(c), NEW b \in Book,
           NEW restore \in BOOLEAN, Open(b, restore)
    PROVE  \A c \in Book : PlaceStands(c)'
<1>1. PICK owed \in BOOLEAN : owed = (RowsOf(b) # {})
  OBVIOUS
<1>2. PICK session : session = Opened(b, owed, restore)
  OBVIOUS
<1>3. PlaceStands(b)
  OBVIOUS
<1>4. /\ session \in Session /\ session.page \in 1 .. LastPage
      /\ (restore /\ shelf[b].here) => session.mode = shelf[b].mode
      /\ (restore /\ shelf[b].here /\ shelf[b].page \in 1 .. LastPage) =>
            SameSpread(shelf[b].mode, session.page, shelf[b].page)
  BY <1>2, OpenedIs DEF ReadTyped
<1>5. live' = [live EXCEPT ![b] = session]
  BY <1>1, <1>2 DEF Open
<1>6. CASE restore
  <2>1. place[b] # 0 => /\ session.mode = shelf[b].mode
                        /\ SameSpread(session.mode, session.page, place[b])
    BY <1>3, <1>4, <1>6 DEF PlaceStands, SameSpread
  <2>2. SavePosition(b, session, "open", FALSE) \/ UNCHANGED <<shelf, writing, place>>
    BY <1>1, <1>2, <1>6 DEF Open
  <2> QED
    BY <1>4, <1>5, <2>1, <2>2, PlaceConfirmed
<1>7. CASE ~restore
  <2>1. shelf' = shelf /\ place' = [place EXCEPT ![b] = 0]
    BY <1>1, <1>2, <1>7 DEF Open
  <2>2. live \in [Book -> Session] /\ place \in [Book -> Pages]
    BY DEF ReadTyped, ReadTypeOK
  <2>3. PlaceStands(b)'
    BY <2>1, <2>2 DEF PlaceStands
  <2>4. ASSUME NEW c \in Book, c # b
        PROVE  PlaceStands(c)'
    <3>1. place'[c] = place[c] /\ live'[c] = live[c]
      BY <1>5, <2>1, <2>2, <2>4
    <3> QED
      BY <2>1, <3>1 DEF PlaceStands
  <2> QED
    BY <2>3, <2>4
<1> QED
  BY <1>6, <1>7

LEMMA CloseKeepsPlace ==
    ASSUME ReadTyped, \A c \in Book : PlaceStands(c), NEW b \in Book, Close(b)
    PROVE  \A c \in Book : PlaceStands(c)'
<1>1. PlaceStands(b) /\ live \in [Book -> Session] /\ live[b] \in Session
  BY DEF ReadTyped, ReadTypeOK
<1>2. live' = [live EXCEPT ![b] = NoSession]
  BY DEF Close
<1>3. CASE live[b].open /\ live[b].page > 0
  <2>1. SavePosition(b, live[b], "close", FALSE)
    BY <1>3 DEF Close
  <2>2. live[b].page \in 1 .. LastPage
    BY <1>1, <1>3, PageKinds DEF Session, Pages
  <2>3. place[b] # 0 => SameSpread(live[b].mode, live[b].page, place[b])
    BY <1>1, <1>3, <2>2 DEF PlaceStands
  <2> QED
    BY <1>1, <1>2, <2>1, <2>2, <2>3, Defaults, PlaceConfirmed
<1>4. CASE ~(live[b].open /\ live[b].page > 0)
  <2>1. shelf' = shelf /\ place' = place
    BY <1>4 DEF Close
  <2>2. \A c \in Book : ~live'[c].open \/ live'[c] = live[c]
    BY <1>1, <1>2, Defaults
  <2>3. \A c \in Book : live[c].open \in BOOLEAN
    BY <1>1 DEF Session
  <2> QED
    BY <2>1, <2>2, <2>3, PlaceUntouched
<1> QED
  BY <1>3, <1>4

LEMMA TurnKeepsPlace ==
    ASSUME ReadTyped, \A c \in Book : PlaceStands(c), NEW b \in Book,
           NEW page \in 1 .. LastPage, TurnTo(b, page)
    PROVE  \A c \in Book : PlaceStands(c)'
<1>1. PICK session : session = [live[b] EXCEPT !.page = page, !.moved = TRUE]
  OBVIOUS
<1>2. session \in Session /\ session.page = page
  BY <1>1, PageKinds DEF ReadTyped, ReadTypeOK, Session
<1>3. live' = [live EXCEPT ![b] = session] /\ SavePosition(b, session, "turn", TRUE)
  BY <1>1 DEF TurnTo
<1> QED
  BY <1>2, <1>3, PlaceByGesture

LEMMA PlaceInductive ==
    ASSUME "webtoon" \notin Modes, ReadTyped, \A b \in Book : PlaceStands(b), [ReadNext]_rvars
    PROVE  \A b \in Book : PlaceStands(b)'
<1>1. live \in [Book -> Session] /\ \A b \in Book : live[b].open \in BOOLEAN
  BY DEF ReadTyped, ReadTypeOK, Session
<1>2. ASSUME shelf' = shelf, place' = place, live' = live
      PROVE  \A b \in Book : PlaceStands(b)'
  BY <1>1, <1>2, PlaceUntouched
<1>3. ASSUME NEW b \in Book, Gesture(b)
      PROVE  \A c \in Book : PlaceStands(c)'
  <2>1. CASE \E restore \in Restores : Open(b, restore)
    BY <2>1, OpenKeepsPlace, ReadingAssumption
  <2>2. CASE Dispose(b)
    BY <2>2, <1>2 DEF Dispose
  <2>3. CASE Background(b)
    <3>1. shelf' = shelf /\ place' = place
      BY <2>3 DEF Background
    <3> QED
      BY <1>1, <2>3, <3>1, FlushMoves, PlaceUntouched
  <2>4. CASE \E page \in 1 .. LastPage : TurnTo(b, page)
    BY <2>4, TurnKeepsPlace
  <2>5. CASE \E mode \in Modes : Relayout(b, mode)
    BY <2>5, RelayoutIs, PlaceByGesture
  <2>6. CASE \E kind \in {"read", "unread"} : Mark(b, kind)
    <3>1. PICK kind \in {"read", "unread"} : Mark(b, kind)
      BY <2>6
    <3>2. PICK session \in Session :
             session = Flushed(live[b]) /\ session = [live[b] EXCEPT !.owes = FALSE, !.lastUpload = now]
      BY <1>1, FlushedTyped DEF ReadTyped
    <3>3. live' = [live EXCEPT ![b] =
                     IF kind = "read" THEN [session EXCEPT !.moved = FALSE]
                     ELSE [session EXCEPT !.page = 0, !.heard = 0, !.moved = FALSE]]
      BY <3>1, <3>2 DEF Mark
    <3>4. \A c \in Book : \/ live'[c].page = 0
                          \/ /\ live'[c].open = live[c].open /\ live'[c].page = live[c].page
                             /\ live'[c].mode = live[c].mode
      BY <1>1, <3>2, <3>3 DEF Session
    <3>5. shelf' = shelf /\ place' = place
      BY <3>1 DEF Mark
    <3> QED
      BY <1>1, <3>4, <3>5, PlaceUntouched
  <2> QED
    BY <1>3, <2>1, <2>2, <2>3, <2>4, <2>5, <2>6, StepTurns DEF Gesture, ReadTyped
<1>4. ASSUME NEW b \in Book, Machinery(b)
      PROVE  \A c \in Book : PlaceStands(c)'
  <2>1. CASE RememberLayout(b)
    BY <2>1, <1>2 DEF RememberLayout
  <2>2. CASE Beat(b)
    <3>1. shelf' = shelf /\ place' = place
      BY <2>2 DEF Beat
    <3> QED
      BY <1>1, <2>2, <3>1, FlushMoves, PlaceUntouched
  <2>3. CASE Close(b)
    BY <2>3, CloseKeepsPlace
  <2>4. CASE Flush(b)
    BY <2>4, <1>2 DEF Flush
  <2> QED
    BY <1>4, <2>1, <2>2, <2>3, <2>4 DEF Machinery
<1>5. CASE SaveProgress
  <2>1. shelf' = shelf /\ place' = place
    BY <1>5 DEF SaveProgress
  <2> QED
    BY <1>1, <1>5, <2>1, ProgressMoves, PlaceUntouched
<1>6. CASE Below /\ UNCHANGED reader
  BY <1>6, <1>2 DEF reader
<1>7. CASE ReadCrash
  <2>1. shelf' = shelf /\ place' = place /\ \A b \in Book : ~live'[b].open
    BY <1>7, Defaults DEF ReadCrash
  <2> QED
    BY <2>1, PlaceUntouched
<1>8. CASE UNCHANGED rvars
  BY <1>8, <1>2 DEF rvars, reader
<1> QED
  BY <1>3, <1>4, <1>5, <1>6, <1>7, <1>8 DEF ReadNext

LEMMA PlaceInvInductive ==
    ASSUME "webtoon" \notin Modes
    PROVE  PlaceInv /\ [ReadNext]_rvars => PlaceInv'
<1>1. SUFFICES ASSUME PlaceInv, [ReadNext]_rvars PROVE PlaceInv'
  OBVIOUS
<1>2. ReadTyped /\ \A b \in Book : PlaceStands(b)
  BY <1>1, PlaceByBook DEF PlaceInv
<1>3. ReadTyped'
  BY <1>1, <1>2, ReadTypeInductive
<1>4. \A b \in Book : PlaceStands(b)'
  BY <1>1, <1>2, PlaceInductive
<1>5. (PlaceIsAPage /\ PlaceIsKept /\ ReaderStands)'
  BY <1>4 DEF PlaceIsAPage, PlaceIsKept, ReaderStands, PlaceStands, SameSpread
<1> QED
  BY <1>3, <1>5 DEF PlaceInv

LEMMA InitPlace == ReadInit => PlaceInv
<1>1. SUFFICES ASSUME ReadInit PROVE PlaceInv
  OBVIOUS
<1>2. \A b \in Book : place[b] = 0
  BY <1>1 DEF ReadInit
<1> QED
  BY <1>1, <1>2, InitReadTyped DEF PlaceInv, PlaceIsAPage, PlaceIsKept, ReaderStands

\* Where no series is read as a webtoon, the book opens again at the spread the
\* user moved to last, until it is opened with restoring off: no close of an older
\* screen, mark, kill, layout or correction of a restored page (session.rs,
\* position.rs) moves the stored position off it.
THEOREM PlaceHolds == ASSUME "webtoon" \notin Modes PROVE ReadSpec => []PlaceIsKept
<1>1. PlaceInv => PlaceIsKept
  BY DEF PlaceInv
<1> QED
  BY <1>1, InitPlace, PlaceInvInductive, PTL DEF ReadSpec

-------------------------------------------------------------------------------
(* What the turns say                                                        *)

\* The statement under way is the page its session stands on.
TurnUnderWay ==
    \A b \in Book : (live[b].open /\ live[b].moved /\ writing.on /\ writing.book = b) =>
        writing.page = live[b].page

TurnInv == ReadTyped /\ TurnUnderWay /\ TurnsAreStated

StandsStated(b) ==
    /\ said[b].id # 0
    /\ said[b].intent.kind = "progress"
    /\ said[b].intent.page = live[b].page
    /\ said[b].intent.completed = (live[b].page = LastPage)

TurnStands(b) ==
    /\ (live[b].open /\ live[b].moved /\ writing.on /\ writing.book = b) =>
          writing.page = live[b].page
    /\ (live[b].open /\ live[b].moved /\ WritesProgress(b) /\ ~(writing.on /\ writing.book = b)) =>
          StandsStated(b)

LEMMA TurnByBook ==
    TurnUnderWay /\ TurnsAreStated <=> \A b \in Book : TurnStands(b)
BY DEF TurnUnderWay, TurnsAreStated, TurnStands, StandsStated

\* A step of a session that says nothing, or that ends what it said.
LEMMA TurnUntouched ==
    ASSUME NEW b \in Book, TurnStands(b), said'[b] = said[b],
           writing' = writing \/ ~writing'.on \/ writing'.book # b,
           writing.on /\ writing.book = b => writing' = writing,
           \/ ~live'[b].open \/ ~live'[b].moved
           \/ /\ live[b].open /\ live[b].moved /\ live'[b].page = live[b].page
    PROVE  TurnStands(b)'
<1>1. CASE ~live'[b].open \/ ~live'[b].moved
  BY <1>1 DEF TurnStands
<1>2. CASE live[b].open /\ live[b].moved /\ live'[b].page = live[b].page
  BY <1>2 DEF TurnStands, StandsStated, WritesProgress
<1> QED
  BY <1>1, <1>2

\* A call about one book leaves what the others stand on alone.
LEMMA TurnElsewhere ==
    ASSUME ReadTyped, \A c \in Book : TurnStands(c), NEW b \in Book, ~writing.on,
           \A c \in Book : c # b => live'[c] = live[c] /\ said'[c] = said[c],
           \/ ~writing'.on
           \/ writing'.book = b
    PROVE  \A c \in Book : c # b => TurnStands(c)'
<1> SUFFICES ASSUME NEW c \in Book, c # b PROVE TurnStands(c)'
  OBVIOUS
<1>1. live[c] \in Session /\ live'[c] = live[c] /\ said'[c] = said[c]
  BY DEF ReadTyped, ReadTypeOK
<1>2. live[c].open \in BOOLEAN /\ live[c].moved \in BOOLEAN
  BY <1>1 DEF Session
<1>3. CASE live[c].open /\ live[c].moved
  BY <1>1, <1>3, TurnUntouched
<1>4. CASE ~(live[c].open /\ live[c].moved)
  BY <1>1, <1>2, <1>4, TurnUntouched
<1> QED
  BY <1>3, <1>4

\* A turn or a new layout: the statement that is about to be made is the page
\* the session stands on from now.
LEMMA TurnByGesture ==
    ASSUME ReadTyped, \A c \in Book : TurnStands(c), NEW b \in Book, ~writing.on, vars' = vars,
           NEW session \in Session, live' = [live EXCEPT ![b] = session],
           NEW after, SavePosition(b, session, after, TRUE)
    PROVE  \A c \in Book : TurnStands(c)'
<1>1. writing'.on /\ writing'.book = b /\ writing'.page = session.page
  BY DEF SavePosition
<1>2. live \in [Book -> Session] /\ said' = said
  BY DEF ReadTyped, ReadTypeOK, vars
<1>3. TurnStands(b)'
  BY <1>1, <1>2 DEF TurnStands
<1> QED
  BY <1>1, <1>2, <1>3, TurnElsewhere

LEMMA ProgressStates ==
    ASSUME ReadTyped, \A c \in Book : TurnStands(c), SaveProgress
    PROVE  \A c \in Book : TurnStands(c)'
<1>1. writing.on /\ ~writing'.on
  BY Defaults DEF SaveProgress
<1>2. PICK b \in Book : b = writing.book
  BY ProgressMoves
<1>3. \A c \in Book : /\ live'[c].page = live[c].page /\ live'[c].open = live[c].open
                      /\ live'[c].moved = live[c].moved
  BY ProgressMoves
<1>4. said \in [Book -> [id : Nat, at : Stamp, intent : Intent]] /\ nextId \in Nat \ {0}
  BY DEF ReadTyped, Clocked
<1>5. CASE WritesProgress(b)
  <2>1. Say(b, Turned)
    BY <1>2, <1>5 DEF SaveProgress, Turned
  <2>2. said' = [said EXCEPT ![b] = [id |-> nextId, at |-> now, intent |-> Turned]]
    BY <2>1 DEF Say
  <2>3. /\ said'[b].id = nextId /\ said'[b].intent = Turned
        /\ Turned.kind = "progress" /\ Turned.page = writing.page
        /\ Turned.completed = (writing.page = LastPage)
    <3>1. Turned.completed = Finishes(writing.page)
      BY DEF Turned
    <3>2. Finishes(writing.page) = (writing.page = LastPage)
      BY OutboxAssumption DEF Finishes, ReadTyped, ReadTypeOK, Persisting, Pages
    <3> QED
      BY <1>4, <2>2, <3>1, <3>2 DEF Turned
  <2>4. TurnStands(b)'
    <3>1. SUFFICES ASSUME live[b].open, live[b].moved
                   PROVE  StandsStated(b)'
      BY <1>1, <1>3 DEF TurnStands
    <3>2. writing.page = live[b].page /\ live'[b].page = live[b].page
      BY <1>1, <1>2, <1>3, <3>1 DEF TurnStands
    <3> QED
      BY <1>4, <2>3, <3>2 DEF StandsStated
  <2>5. ASSUME NEW c \in Book, c # b
        PROVE  TurnStands(c)'
    <3>1. said'[c] = said[c]
      BY <1>4, <2>2, <2>5
    <3> QED
      BY <1>1, <1>2, <1>3, <2>5, <3>1 DEF TurnStands, StandsStated, WritesProgress
  <2> QED
    BY <2>4, <2>5
<1>6. CASE ~WritesProgress(b)
  <2>1. said' = said
    BY <1>2, <1>6 DEF SaveProgress, vars
  <2> QED
    BY <1>1, <1>2, <1>3, <1>6, <2>1 DEF TurnStands, StandsStated, WritesProgress
<1> QED
  BY <1>5, <1>6

LEMMA TurnInductive ==
    ASSUME Words = {}, ReadTyped, \A b \in Book : TurnStands(b), [ReadNext]_rvars
    PROVE  \A b \in Book : TurnStands(b)'
<1>1. /\ live \in [Book -> Session]
      /\ \A b \in Book : live[b].open \in BOOLEAN /\ live[b].moved \in BOOLEAN
  BY DEF ReadTyped, ReadTypeOK, Session
<1>2. ASSUME said' = said, writing' = writing,
             \A b \in Book : /\ live'[b].open = live[b].open /\ live'[b].page = live[b].page
                             /\ live'[b].moved = live[b].moved
      PROVE  \A b \in Book : TurnStands(b)'
  BY <1>2 DEF TurnStands, StandsStated, WritesProgress
<1>3. ASSUME NEW b \in Book, Gesture(b)
      PROVE  \A c \in Book : TurnStands(c)'
  <2>1. CASE \E restore \in Restores : Open(b, restore)
    <3>0. PICK restore \in BOOLEAN : Open(b, restore)
      BY <2>1, ReadingAssumption
    <3>1. PICK session : session = Opened(b, RowsOf(b) # {}, restore)
      OBVIOUS
    <3>2. session \in Session /\ ~session.moved
      BY <3>1, OpenedIs DEF ReadTyped
    <3>3. /\ ~writing.on /\ said' = said
          /\ live' = [live EXCEPT ![b] = session]
          /\ writing' = writing \/ writing'.book = b
      BY <3>0, <3>1 DEF Open, SavePosition, vars
    <3>4. TurnStands(b)'
      BY <1>1, <3>2, <3>3 DEF TurnStands
    <3>5. \A c \in Book : c # b => TurnStands(c)'
      BY <1>1, <3>3, TurnElsewhere
    <3> QED
      BY <3>4, <3>5
  <2>2. CASE Dispose(b)
    BY <2>2, <1>2 DEF Dispose, vars
  <2>3. CASE Background(b)
    <3>1. said' = said /\ writing' = writing
      BY <2>3 DEF Background, vars
    <3> QED
      BY <2>3, <3>1, <1>2, FlushMoves
  <2>4. CASE \E page \in 1 .. LastPage : TurnTo(b, page)
    <3>1. PICK page \in 1 .. LastPage : TurnTo(b, page)
      BY <2>4
    <3>2. PICK session : session = [live[b] EXCEPT !.page = page, !.moved = TRUE]
      OBVIOUS
    <3>3. session \in Session
      BY <1>1, <3>2, PageKinds DEF Session
    <3>4. /\ ~writing.on /\ vars' = vars /\ live' = [live EXCEPT ![b] = session]
          /\ SavePosition(b, session, "turn", TRUE)
      BY <3>1, <3>2 DEF TurnTo, Reachable
    <3> QED
      BY <3>3, <3>4, TurnByGesture
  <2>5. CASE \E mode \in Modes : Relayout(b, mode)
    <3>1. ~writing.on /\ vars' = vars
      BY <2>5 DEF Relayout, Reachable
    <3> QED
      BY <2>5, <3>1, RelayoutIs, TurnByGesture
  <2>6. CASE \E kind \in {"read", "unread"} : Mark(b, kind)
    <3>1. PICK kind \in {"read", "unread"} : Mark(b, kind)
      BY <2>6
    <3>2. PICK session \in Session : session = Flushed(live[b])
      BY <1>1, FlushedTyped DEF ReadTyped
    <3>3. live' = [live EXCEPT ![b] =
                     IF kind = "read" THEN [session EXCEPT !.moved = FALSE]
                     ELSE [session EXCEPT !.page = 0, !.heard = 0, !.moved = FALSE]]
      BY <3>1, <3>2 DEF Mark
    <3>4. ~live'[b].moved /\ \A c \in Book : c # b => live'[c] = live[c]
      BY <1>1, <3>2, <3>3 DEF Session
    <3>5. ~writing.on /\ writing' = writing
      BY <3>1 DEF Mark, Reachable
    <3>6. said' = said \/ Say(b, MarkIntent(kind))
      BY <3>1 DEF Mark, MarkIntent, vars
    <3>7. \A c \in Book : c # b => said'[c] = said[c]
      BY <3>6 DEF Say, ReadTyped, Clocked
    <3>8. TurnStands(b)'
      BY <3>4 DEF TurnStands
    <3>9. \A c \in Book : c # b => TurnStands(c)'
      BY <3>4, <3>5, <3>7, TurnElsewhere
    <3> QED
      BY <3>8, <3>9
  <2> QED
    BY <1>3, <2>1, <2>2, <2>3, <2>4, <2>5, <2>6, StepTurns DEF Gesture, ReadTyped
<1>4. ASSUME NEW b \in Book, Machinery(b)
      PROVE  \A c \in Book : TurnStands(c)'
  <2>1. CASE RememberLayout(b)
    BY <2>1, <1>2 DEF RememberLayout, vars
  <2>2. CASE Beat(b)
    <3>1. said' = said /\ writing' = writing
      BY <2>2 DEF Beat, vars
    <3> QED
      BY <2>2, <3>1, <1>2, FlushMoves
  <2>3. CASE Close(b)
    <3>1. /\ ~writing.on /\ said' = said
          /\ live' = [live EXCEPT ![b] = NoSession]
          /\ writing' = writing \/ writing'.book = b
      BY <2>3 DEF Close, SavePosition, vars
    <3>2. ~live'[b].open
      BY <1>1, <3>1, Defaults
    <3>3. TurnStands(b)'
      BY <3>2 DEF TurnStands
    <3>4. \A c \in Book : c # b => TurnStands(c)'
      BY <1>1, <3>1, TurnElsewhere
    <3> QED
      BY <3>3, <3>4
  <2>4. CASE Flush(b)
    BY <2>4, <1>2 DEF Flush, Call, tables
  <2> QED
    BY <1>4, <2>1, <2>2, <2>3, <2>4 DEF Machinery
<1>5. CASE SaveProgress
  BY <1>5, ProgressStates
<1>6. CASE Below /\ UNCHANGED reader
  <2>1. said' = said
    BY <1>6, OutboxMoves
  <2> QED
    BY <1>6, <2>1, <1>2 DEF reader
<1>7. CASE ReadCrash
  <2>1. \A b \in Book : ~live'[b].open
    BY <1>7, Defaults DEF ReadCrash
  <2> QED
    BY <2>1 DEF TurnStands
<1>8. CASE UNCHANGED rvars
  BY <1>8, <1>2 DEF rvars, reader, vars
<1> QED
  BY <1>3, <1>4, <1>5, <1>6, <1>7, <1>8 DEF ReadNext

\* While a reader stands on a page the user turned to, and nothing but the reader
\* makes statements, the user's last statement about the book is that page,
\* finished exactly when it is the last one (persist_progress): whatever the
\* drain, a sweep, another device, a kill or another book's reader does meanwhile.
THEOREM TurnsHold == ASSUME Words = {} PROVE ReadSpec => []TurnsAreStated
<1>1. ReadInit => TurnInv
  <2>1. SUFFICES ASSUME ReadInit PROVE TurnInv
    OBVIOUS
  <2>2. \A b \in Book : ~live[b].open
    BY <2>1, Defaults DEF ReadInit
  <2> QED
    BY <2>1, <2>2, InitReadTyped DEF TurnInv, TurnUnderWay, TurnsAreStated
<1>2. TurnInv /\ [ReadNext]_rvars => TurnInv'
  <2>1. SUFFICES ASSUME TurnInv, [ReadNext]_rvars PROVE TurnInv'
    OBVIOUS
  <2>2. ReadTyped /\ \A b \in Book : TurnStands(b)
    BY <2>1, TurnByBook DEF TurnInv
  <2>3. ReadTyped'
    BY <2>1, <2>2, ReadTypeInductive
  <2>4. \A b \in Book : TurnStands(b)'
    BY <2>1, <2>2, TurnInductive
  <2>5. (TurnUnderWay /\ TurnsAreStated)'
    BY <2>4 DEF TurnUnderWay, TurnsAreStated, TurnStands, StandsStated
  <2> QED
    BY <2>3, <2>5 DEF TurnInv
<1>3. TurnInv => TurnsAreStated
  BY DEF TurnInv
<1> QED
  BY <1>1, <1>2, <1>3, PTL DEF ReadSpec

-------------------------------------------------------------------------------
(* The reader keeps the outbox's rules                                       *)

\* The outbox of a user who may say anything, and what is proved of it.
Under == INSTANCE OutboxProofs WITH Words <- Intent

LEMMA UnderAssumption ==
    /\ Reflowable \subseteq Book
    /\ LastPage \in Nat \ {0}
    /\ Intent \subseteq Under!Intent
    /\ OtherWords \subseteq Under!Intent
    /\ Faults \subseteq Under!FaultKind
    /\ MaxAttempts \in Nat \ {0}
    /\ {MaxStatements, MaxOthers, MaxPrunes, MaxCrashes, MaxLate} \subseteq Nat
BY OutboxAssumption DEF Under!Intent, Intent, Under!FaultKind, FaultKind, Pages, Under!Pages

LEMMA CardinalityIsUnder == \A S : Under!Cardinality(S) = Cardinality(S)
BY DEF Under!Cardinality, Cardinality

LEMMA VarsAreUnder == Under!vars = vars /\ Under!vars' = vars'
BY DEF Under!vars, vars, Under!tables, tables

LEMMA SayIsUnder ==
    ASSUME NEW b \in Book, NEW i \in Intent, Say(b, i)
    PROVE  Under!User
<1>1. Under!Say(b, i)
  BY DEF Say, Under!Say, Stated, Under!Stated, Enqueue, Under!Enqueue, RowsOf, Under!RowsOf,
         Null, Under!Null, Judge, Under!Judge, Held, Under!Held, StoredPage, Under!StoredPage,
         Excuses, Under!Excuses
<1> QED
  BY <1>1 DEF Under!User

LEMMA UserIsUnder == User => Under!User
<1>1. ASSUME NEW b \in Book, RetryFailed(b)
      PROVE  Under!RetryFailed(b)
  BY <1>1 DEF RetryFailed, Under!RetryFailed, RowsOf, Under!RowsOf, Revived, Under!Revived,
              Null, Under!Null
<1>2. ASSUME NEW b \in Book, NEW i \in Words, Say(b, i)
      PROVE  Under!User
  BY <1>2, SayIsUnder, OutboxAssumption
<1> QED
  BY <1>1, <1>2 DEF User, Under!User

LEMMA CallIsUnder == Call => Under!Call
BY DEF Call, Under!Call, tables, Under!tables, Null, Under!Null

LEMMA MirrorIsUnder == Mirror => Under!Mirror
<1>1. ASSUME NEW b \in Book, SweepFetch(b)
      PROVE  Under!SweepFetch(b)
  BY <1>1 DEF SweepFetch, Under!SweepFetch, tables, Under!tables
<1>2. ASSUME NEW b \in Book, SweepWrite(b)
      PROVE  Under!SweepWrite(b)
  BY <1>2 DEF SweepWrite, Under!SweepWrite, NoCopy, Under!NoCopy, Untouched, Under!Untouched,
              SyncWriteFor, Under!SyncWriteFor, RowsOf, Under!RowsOf, Null, Under!Null,
              Mirrored, Under!Mirrored
<1>3. ASSUME NEW b \in Book, Prune(b)
      PROVE  Under!Prune(b)
  BY <1>3 DEF Prune, Under!Prune, NoRow, Under!NoRow, Null, Under!Null
<1> QED
  BY <1>1, <1>2, <1>3 DEF Mirror, Under!Mirror

LEMMA ShownIsUnder ==
    ASSUME NEW b, NEW r, ServerShows(b, r)
    PROVE  Under!ServerShows(b, r)
BY DEF ServerShows, Under!ServerShows, Judge, Under!Judge, Held, Under!Held,
       StoredPage, Under!StoredPage, Excuses, Under!Excuses

LEMMA AfterIsUnder ==
    ASSUME NEW r, NEW i, NEW id, NEW at
    PROVE  Under!After(r, i, id, at) = After(r, i, id, at)
BY DEF After, Under!After, StoredPage, Under!StoredPage, Null, Under!Null

LEMMA WorldIsUnder == World => Under!World
<1>1. ASSUME NEW m \in late, LateLands(m)
      PROVE  Under!LateLands(m)
  BY <1>1, ShownIsUnder, AfterIsUnder DEF LateLands, Under!LateLands, tables, Under!tables
<1>2. ASSUME NEW b \in Book, ServerDeletes(b)
      PROVE  Under!ServerDeletes(b)
  BY <1>2, ShownIsUnder DEF ServerDeletes, Under!ServerDeletes, tables, Under!tables,
              Untouched, Under!Untouched, Null, Under!Null
<1>3. ASSUME NEW b \in Book, NEW i \in OtherWords, OtherSays(b, i)
      PROVE  Under!OtherSays(b, i)
  BY <1>3, ShownIsUnder, AfterIsUnder DEF OtherSays, Under!OtherSays, tables, Under!tables
<1>4. Tick => Under!Tick
  BY DEF Tick, Under!Tick, tables, Under!tables
<1> QED
  BY <1>1, <1>2, <1>3, <1>4 DEF World, Under!World

LEMMA IdleIsUnder == Under!Idle = Idle /\ Under!NoCopy = NoCopy
BY DEF Idle, Under!Idle, NoCopy, Under!NoCopy, Untouched, Under!Untouched, Null, Under!Null

LEMMA CrashIsUnder == Crash => Under!Crash
<1>1. SUFFICES ASSUME Crash PROVE Under!Crash
  OBVIOUS
<1>2. \A e : (Under!InHand(e) <=> InHand(e)) /\ Under!RequestOf(e) = RequestOf(e)
  BY DEF InHand, Under!InHand, RequestOf, Under!RequestOf
<1>3. Under!Null = Null
  BY DEF Null, Under!Null
<1>4. /\ spent["crashes"] < MaxCrashes
      /\ spent' = [spent EXCEPT !["crashes"] = @ + 1]
      /\ up' = Under!Idle /\ called' = Under!Null /\ sweep' = [b \in Book |-> Under!NoCopy]
      /\ UNCHANGED <<Under!tables, now, remote, said, excuse>>
  BY <1>1, <1>3, IdleIsUnder DEF Crash, tables, Under!tables
<1>5. \/ late' = late
      \/ /\ up.pc = "sending"
         /\ Under!Cardinality(late) < MaxLate
         /\ \E e \in up.due : Under!InHand(e) /\ late' = late \cup {Under!RequestOf(e)}
  BY <1>1, <1>2, CardinalityIsUnder DEF Crash
<1> QED
  BY <1>4, <1>5 DEF Under!Crash

LEMMA PassIsUnder == Pass => Under!Pass
<1>1. StartPass => Under!StartPass
  BY DEF StartPass, Under!StartPass, tables, Under!tables, Null, Under!Null, Due, Under!Due,
         Idle, Under!Idle, Untouched, Under!Untouched
<1>2. EndPass => Under!EndPass
  BY IdleIsUnder DEF EndPass, Under!EndPass, tables, Under!tables
<1>3. ASSUME NEW e \in up.due, BeginEntry(e)
      PROVE  Under!BeginEntry(e)
  BY <1>3, IdleIsUnder DEF BeginEntry, Under!BeginEntry, tables, Under!tables, Null, Under!Null
<1>4. ASSUME NEW e \in up.due, AnswerRefetch(e)
      PROVE  Under!AnswerRefetch(e)
  BY <1>4 DEF AnswerRefetch, Under!AnswerRefetch, tables, Under!tables, InHand, Under!InHand,
              RefetchKind, Under!RefetchKind, Untouched, Under!Untouched, Null, Under!Null
<1>5. ASSUME NEW e, CompleteMutation(e)
      PROVE  Under!CompleteMutation(e)
  BY <1>5 DEF CompleteMutation, Under!CompleteMutation, Uploaded, Under!Uploaded, Null, Under!Null
<1>6. ASSUME NEW e, GiveUp(e)
      PROVE  Under!GiveUp(e)
  BY <1>6 DEF GiveUp, Under!GiveUp, Parked, Under!Parked, Null, Under!Null
<1>7. ASSUME NEW e, Penalise(e)
      PROVE  Under!Penalise(e)
  <2>1. \A n : Under!BackoffSeconds(n) = BackoffSeconds(n)
    BY DEF BackoffSeconds, Under!BackoffSeconds, Exponent, Under!Exponent, ShiftTable,
           Under!ShiftTable, Earlier, Under!Earlier
  <2>2. \A at, n : Under!NextRetryAt(at, n) = NextRetryAt(at, n)
    BY <2>1 DEF NextRetryAt, Under!NextRetryAt, Earlier, Under!Earlier
  <2>3. \A q, n, at : Under!Retried(q, n, at) = Retried(q, n, at)
    BY <2>2 DEF Retried, Under!Retried, Null, Under!Null
  <2> QED
    BY <1>7, <2>3 DEF Penalise, Under!Penalise
<1>8. ASSUME NEW e
      PROVE  Under!Drop(e) = Drop(e) /\ (Under!InHand(e) <=> InHand(e))
  <2>2. Under!InHand(e) <=> InHand(e)
    BY DEF InHand, Under!InHand
  <2>3. Under!Drop(e) = Drop(e)
    BY IdleIsUnder DEF Drop, Under!Drop
  <2> QED
    BY <2>2, <2>3
<1>9. ASSUME NEW e \in up.due, ActOnAnswer(e)
      PROVE  Under!ActOnAnswer(e)
  <2>1. Under!Decide(e.intent, e.book, up.actAt, up.kind, up.answer)
          = Decide(e.intent, e.book, up.actAt, up.kind, up.answer)
    BY DEF Decide, Under!Decide, RemoteMatches, Under!RemoteMatches
  <2> QED
    BY <1>9, <2>1, <1>5, <1>6, <1>7, <1>8, IdleIsUnder DEF ActOnAnswer, Under!ActOnAnswer
<1>10. ASSUME NEW e \in up.due, Serve(e)
       PROVE  Under!Serve(e)
  <2>1. /\ \A x : Under!Replied(x) <=> Replied(x)
        /\ Under!RequestOf(e) = RequestOf(e)
    BY DEF Replied, Under!Replied, RequestOf, Under!RequestOf
  <2>2. PICK landed : landed = After(remote[e.book], e.intent, e.id, now)
    OBVIOUS
  <2>3. Under!After(remote[e.book], e.intent, e.id, now) = landed
    BY <2>2, AfterIsUnder
  <2>4. ServerShows(e.book, landed) => Under!ServerShows(e.book, landed)
    BY ShownIsUnder
  <2> QED
    BY <1>10, <1>8, <2>1, <2>2, <2>3, <2>4, CardinalityIsUnder DEF Serve, Under!Serve, tables, Under!tables
<1>11. ASSUME NEW e \in up.due, FinishEntry(e)
       PROVE  Under!FinishEntry(e)
  BY <1>11, <1>5, <1>6, <1>7, <1>8, IdleIsUnder DEF FinishEntry, Under!FinishEntry
<1> QED
  BY <1>1, <1>2, <1>3, <1>4, <1>9, <1>10, <1>11 DEF Pass, Under!Pass

LEMMA StepIsUnder == ReadTyped /\ [ReadNext]_rvars => [Under!Next]_Under!vars
<1>1. SUFFICES ASSUME ReadTyped, [ReadNext]_rvars PROVE Under!Next \/ vars' = vars
  BY VarsAreUnder
<1>2. ASSUME Below
      PROVE  Under!Next
  BY <1>2, CallIsUnder, PassIsUnder, UserIsUnder, MirrorIsUnder, WorldIsUnder DEF Below, Under!Next
<1>3. ASSUME NEW b \in Book, Gesture(b)
      PROVE  Under!Next \/ vars' = vars
  <2>1. ASSUME NEW kind \in {"read", "unread"}, Mark(b, kind)
        PROVE  Under!Next \/ vars' = vars
    <3>1. vars' = vars \/ Say(b, MarkIntent(kind))
      BY <2>1 DEF Mark, MarkIntent
    <3> QED
      BY <3>1, SayIsUnder, MarkIntentTyped DEF Under!Next
  <2>2. (\E restore \in Restores : Open(b, restore)) \/ Dispose(b) \/ Background(b) => vars' = vars
    BY DEF Open, Dispose, Background
  <2>3. ASSUME NEW page \in 1 .. LastPage, TurnTo(b, page)
        PROVE  vars' = vars
    BY <2>3 DEF TurnTo
  <2>4. ASSUME NEW mode \in Modes, Relayout(b, mode)
        PROVE  vars' = vars
    BY <2>4 DEF Relayout
  <2> QED
    BY <1>1, <1>3, <2>1, <2>2, <2>3, <2>4, StepTurns DEF Gesture, ReadTyped
<1>4. ASSUME NEW b \in Book, Machinery(b)
      PROVE  Under!Next \/ vars' = vars
  BY <1>2, <1>4 DEF Machinery, RememberLayout, Beat, Close, Flush, Below
<1>5. CASE SaveProgress
  <2>1. vars' = vars \/ Say(writing.book, Turned)
    BY <1>5 DEF SaveProgress, Turned
  <2> QED
    BY <1>1, <1>5, <2>1, SayIsUnder, TurnedIs, ProgressMoves DEF Under!Next
<1>6. CASE ReadCrash
  BY <1>6, CrashIsUnder DEF ReadCrash, Under!Next
<1>7. CASE UNCHANGED rvars
  BY <1>7 DEF rvars
<1> QED
  BY <1>1, <1>2, <1>3, <1>4, <1>5, <1>6, <1>7 DEF ReadNext

\* The reader is a user of the outbox: whatever its sessions, screens and timers
\* do, the tables and the drain below them take only steps of the outbox.
THEOREM ReaderKeepsTheOutbox == ReadSpec => Under!Spec
<1>1. ReadInit => Under!Init
  <2>1. ReadInit => Init
    BY DEF ReadInit
  <2>2. Init => Under!Init
    BY IdleIsUnder DEF Init, Under!Init, NoRow, Under!NoRow, Null, Under!Null,
        Untouched, Under!Untouched, Silence, Under!Silence
  <2> QED
    BY <2>1, <2>2
<1> QED
  BY <1>1, InitReadTyped, ReadTypeInductive, StepIsUnder, PTL DEF ReadSpec, Under!Spec

\* So the outbox's promises hold under the reader: one row per book and it is
\* the user's last statement, the pending flag is truthful, and no statement
\* leaves the queue without an excuse the server gave after it was made.
THEOREM OutboxUnderReader ==
    ReadSpec => [](OneStatementPerBook /\ PendingFlagIsTruthful) /\ DropsAreExcused
<1>1. Under!Spec => []Under!OneStatementPerBook
  BY Under!OneStatement, UnderAssumption, BackoffAssumption
<1>2. Under!Spec => []Under!PendingFlagIsTruthful
  BY Under!FlagIsTruthful, UnderAssumption, BackoffAssumption
<1>3. Under!Spec => Under!DropsAreExcused
  BY Under!NoStatementIsLost, UnderAssumption, BackoffAssumption
<1>4. Under!OneStatementPerBook => OneStatementPerBook
  BY DEF Under!OneStatementPerBook, OneStatementPerBook
<1>5. Under!PendingFlagIsTruthful => PendingFlagIsTruthful
  BY DEF Under!PendingFlagIsTruthful, PendingFlagIsTruthful, Under!Queued, Queued,
         Under!RowsOf, RowsOf
<1>6. [\A e \in queue : Under!Vanishes(e) => excuse[e.book] # {}]_Under!vars
        => [\A e \in queue : Vanishes(e) => excuse[e.book] # {}]_vars
  <2>1. \A e : Under!Vanishes(e) <=> Vanishes(e)
    BY DEF Under!Vanishes, Vanishes
  <2> QED
    BY <2>1, VarsAreUnder
<1> QED
  BY <1>1, <1>2, <1>3, <1>4, <1>5, <1>6, ReaderKeepsTheOutbox, PTL
     DEF DropsAreExcused, Under!DropsAreExcused

\* And the same with the hypothesis the outbox needs: where no sweep infers a
\* deletion, a book's row shows what the reader said last.
THEOREM LastWordUnderReader == ASSUME MaxPrunes = 0 PROVE ReadSpec => []ShowsLastWord
<1>1. Under!Spec => []Under!ShowsLastWord
  BY Under!LastWordIsShown, UnderAssumption, BackoffAssumption
<1>2. Under!ShowsLastWord => ShowsLastWord
  BY DEF Under!ShowsLastWord, ShowsLastWord
<1> QED
  BY <1>1, <1>2, ReaderKeepsTheOutbox, PTL
=============================================================================
