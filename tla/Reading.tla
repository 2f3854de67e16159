-------------------------------- MODULE Reading --------------------------------
(***************************************************************************)
(* The reader on top of the outbox: the live sessions and their throttles  *)
(* (reader/session.rs, reader/throttle.rs), the position table             *)
(* (store/position.rs), the per-series layout override                     *)
(* (reader/series_override.rs), the reader_* calls of ffi/application.rs   *)
(* and the screen's controller (reader_controller.dart).                   *)
(*                                                                         *)
(* A session persists in two transactions, the position row and then the   *)
(* progress row with its queued statement; they are two steps here, with   *)
(* the registry's mutex (writing) held between them.  Everything else of   *)
(* Outbox keeps running meanwhile.  All books are volumes of one series.   *)
(***************************************************************************)
EXTENDS Outbox, Paging

CONSTANTS
    GlobalMode,     \* the mode of the global settings document
    Modes,          \* layouts the user may choose, a subset of ReadMode
    FirstPageSingle, \* whether the global settings let a cover stand alone
    Restores,       \* values the restore-position setting may have at an opening
    Interval        \* least time between two timed uploads

ASSUME ReadingAssumption ==
    /\ Modes \subseteq ReadMode
    /\ GlobalMode \in Modes
    /\ FirstPageSingle \in BOOLEAN
    /\ GlobalMode = "webtoon" => ~FirstPageSingle  \* settings are sanitized
    /\ Restores \subseteq BOOLEAN
    /\ Book # {}
    /\ Interval \in Nat

VARIABLES
    shelf,      \* reader_position: one row per book, or none (here = FALSE)
    override,   \* the series' read mode, or "none"
    live,       \* the registry: the session of each open book
    writing,    \* the session between its two transactions, if any
    screen,     \* per book, whether its reader screen is up
    closing,    \* books whose screen has gone and whose close is under way
    choosing,   \* per book, the layout choice not yet saved for the series
    asks,       \* books whose controller is about to drain the outbox
    place       \* history: the page the user last moved to in each book, or 0

reader == <<shelf, override, live, writing, screen, closing, choosing, asks, place>>
rvars == <<vars, reader>>

-------------------------------------------------------------------------------
(* Types                                                                     *)

\* A row may be left from a manifest that had more pages.
Position == [here : BOOLEAN, page : 0 .. LastPage + 1, mode : ReadMode]

NoPosition == [here |-> FALSE, page |-> 0, mode |-> "single"]

Leftover == [here |-> TRUE, page |-> LastPage + 1, mode |-> GlobalMode]

\* mode and single pair the pages; shown is the mode the screen was told.  heard
\* is the throttle's own idea of the page, owes whether it holds a pending intent.
Session ==
    [open : BOOLEAN, page : Pages, mode : ReadMode, single : BOOLEAN, shown : ReadMode,
     heard : Pages, owes : BOOLEAN, lastUpload : Stamp, moved : BOOLEAN]

NoSession ==
    [open |-> FALSE, page |-> 0, mode |-> "single", single |-> TRUE, shown |-> "single",
     heard |-> 0, owes |-> FALSE, lastUpload |-> Null, moved |-> FALSE]

Persisting ==
    [on : BOOLEAN, book : Book, page : Pages, owes : BOOLEAN, gesture : BOOLEAN,
     after : {"open", "turn", "layout", "close"}]

NotWriting ==
    [on |-> FALSE, book |-> CHOOSE b \in Book : TRUE, page |-> 0, owes |-> FALSE,
     gesture |-> FALSE, after |-> "open"]

ReadTypeOK ==
    /\ shelf \in [Book -> Position]
    /\ override \in Modes \cup {"none"}
    /\ live \in [Book -> Session]
    /\ writing \in Persisting
    /\ screen \in [Book -> BOOLEAN]
    /\ closing \subseteq Book
    /\ choosing \in [Book -> Modes \cup {"none"}]
    /\ asks \subseteq Book
    /\ place \in [Book -> Pages]

ReadInit ==
    /\ Init
    /\ shelf \in [Book -> {NoPosition, Leftover}]
    /\ override = "none"
    /\ live = [b \in Book |-> NoSession]
    /\ writing = NotWriting
    /\ screen = [b \in Book |-> FALSE]
    /\ closing = {}
    /\ choosing = [b \in Book |-> "none"]
    /\ asks = {}
    /\ place = [b \in Book |-> 0]

-------------------------------------------------------------------------------
(* Persisting: position::save, then upsert_local_read_progress               *)

\* layout, for the pages of the manifest; the session knows of none that must
\* stand alone but the cover.
SpreadsIn(mode, single) == Pair(LastPage, mode, single, {})

WritesProgress(b) == b \notin Reflowable

\* The first transaction, the only one for a book of another format.
SavePosition(b, session, after, gesture) ==
    /\ nextId <= MaxStatements
    /\ shelf' = [shelf EXCEPT ![b] = [here |-> TRUE, page |-> session.page,
                                      mode |-> session.mode]]
    /\ writing' = [on |-> TRUE, book |-> b, page |-> session.page,
                   owes |-> session.owes, gesture |-> gesture, after |-> after]
    /\ place' = IF gesture THEN [place EXCEPT ![b] = session.page] ELSE place

\* FAULT: the throttle numbers the pages from one more.
HeardNext(session, page) == [session EXCEPT !.heard = page + 1, !.owes = TRUE]

\* record_page: the throttle ignores the page it has already heard of.
Heard(session, page) ==
    IF session.heard = page THEN session
    ELSE [session EXCEPT !.heard = page, !.owes = TRUE]

\* FAULT: one page more must be turned.
FinishesLate(page) == page > LastPage

Finishes(page) == page >= LastPage

\* The second transaction, then what the caller does with the result: a turn
\* tells the throttle, a close flushes it.
SaveProgress ==
    /\ writing.on
    /\ LET b == writing.book
       IN  /\ IF WritesProgress(b)
                THEN Say(b, [kind |-> "progress", page |-> writing.page,
                             completed |-> Finishes(writing.page)])
                ELSE UNCHANGED vars
           /\ live' = IF writing.after = "turn" /\ WritesProgress(b)
                        THEN [live EXCEPT ![b] = Heard(@, writing.page)]
                        ELSE live
           /\ asks' = IF writing.after = "close" /\ writing.owes THEN asks \cup {b}
                      ELSE asks
    /\ writing' = NotWriting
    /\ UNCHANGED <<shelf, override, screen, closing, choosing, place>>

-------------------------------------------------------------------------------
(* The session's operations                                                  *)

\* resolve_for_series: the series' choice, else the global setting.
Effective == IF override = "none" THEN GlobalMode ELSE override

\* A webtoon is a single column: its cover is not set apart.
FirstSingle == FirstPageSingle /\ Effective # "webtoon"

\* FAULT: the restored session stands at the start of the book.
OpenedAtStart(b, owed, restore) ==
    [open |-> TRUE, page |-> 1, mode |-> Effective, single |-> FirstSingle, shown |-> Effective,
     heard |-> 1, owes |-> owed, lastUpload |-> Null, moved |-> FALSE]

\* ReaderSession::open: the saved row, when it is to be restored, gives the page
\* and the pairing; the page is kept within the manifest and becomes the first
\* one of its spread.
Opened(b, owed, restore) ==
    LET saved == restore /\ shelf[b].here
        mode == IF saved THEN shelf[b].mode ELSE Effective
        wanted == IF saved /\ shelf[b].page > 0 THEN shelf[b].page ELSE 1
        start == IF wanted > LastPage THEN LastPage ELSE wanted
        spreads == SpreadsIn(mode, FirstSingle)
        page == EntryPage(spreads, IndexForPage(spreads, start), start)
    IN  [open |-> TRUE, page |-> page, mode |-> mode, single |-> FirstSingle, shown |-> Effective,
         heard |-> page, owes |-> owed, lastUpload |-> Null, moved |-> FALSE]

\* reader_open replaces whatever session the registry holds.  A page the
\* restore had to correct is persisted at once.  A user who wants no restoring
\* gives up the place.
Open(b, restore) ==
    /\ ~screen[b] /\ ~writing.on
    /\ LET session == Opened(b, RowsOf(b) # {}, restore)
       IN  /\ live' = [live EXCEPT ![b] = session]
           /\ IF restore /\ shelf[b].here /\ session.page # shelf[b].page
                THEN SavePosition(b, session, "open", FALSE)
                ELSE /\ place' = IF restore THEN place ELSE [place EXCEPT ![b] = 0]
                     /\ UNCHANGED <<shelf, writing>>
    /\ screen' = [screen EXCEPT ![b] = TRUE]
    /\ UNCHANGED <<vars, override, closing, choosing, asks>>

\* A call of the screen reaches a session: not when a late close took it away.
Reachable(b) == screen[b] /\ live[b].open /\ ~writing.on

\* turn_to: idempotent, and the spread follows the page.
TurnTo(b, page) ==
    /\ Reachable(b)
    /\ page # live[b].page
    /\ LET session == [live[b] EXCEPT !.page = page, !.moved = TRUE]
       IN  live' = [live EXCEPT ![b] = session] /\ SavePosition(b, session, "turn", TRUE)
    /\ UNCHANGED <<vars, override, screen, closing, choosing, asks>>

\* next and previous: to the first page of the neighbouring spread, clamped.
Step(b, forward) ==
    LET spreads == SpreadsIn(live[b].mode, live[b].single)
        at == IndexForPage(spreads, live[b].page)
        from == IF at = 0 THEN 1 ELSE at
        to == IF forward THEN (IF from = Len(spreads) THEN from ELSE from + 1)
                         ELSE (IF from = 1 THEN 1 ELSE from - 1)
    IN  TurnTo(b, spreads[to][1])

\* relayout keeps the spread, not the page, and does not tell the throttle.
Relayout(b, mode) ==
    /\ Reachable(b)
    /\ mode # live[b].shown
    /\ LET spreads == SpreadsIn(mode, live[b].single)
           at == IndexForPage(spreads, live[b].page)
           page == EntryPage(spreads, IF at = 0 THEN 1 ELSE at, live[b].page)
           session == [live[b] EXCEPT !.page = page, !.mode = mode, !.shown = mode]
       IN  live' = [live EXCEPT ![b] = session] /\ SavePosition(b, session, "layout", TRUE)
    /\ choosing' = [choosing EXCEPT ![b] = mode]
    /\ UNCHANGED <<vars, override, screen, closing, asks>>

\* The screen's callback saves the choice for the whole series.
RememberLayout(b) ==
    /\ choosing[b] # "none" /\ ~writing.on
    /\ override' = choosing[b]
    /\ choosing' = [choosing EXCEPT ![b] = "none"]
    /\ UNCHANGED <<vars, shelf, live, writing, screen, closing, asks, place>>

\* FAULT: the throttle never forgets that it owed something.
FlushedKeeping(session) == session

\* flush: the pending intent is taken and the time noted, before anything is
\* sent and whatever becomes of it.
Flushed(session) == [session EXCEPT !.owes = FALSE, !.lastUpload = now]

\* FAULT: the answer that an upload is due is dropped.
AskedNobody(b) == asks

\* The call said to upload now: the controller is about to drain the outbox.
AskedFor(b) == asks \cup {b}

Mark(b, kind) ==
    /\ Reachable(b)
    /\ IF WritesProgress(b)
         THEN Say(b, [kind |-> kind, page |-> 0, completed |-> kind = "read"])
         ELSE UNCHANGED vars
    /\ live' = [live EXCEPT ![b] =
                   IF kind = "read" THEN [Flushed(@) EXCEPT !.moved = FALSE]
                   ELSE [Flushed(@) EXCEPT !.page = 0, !.heard = 0, !.moved = FALSE]]
    /\ asks' = AskedFor(b)
    /\ UNCHANGED <<shelf, override, writing, screen, closing, choosing, place>>

\* FAULT: a throttle that has not uploaded yet waits for a first upload.
DueAfterFirst(session) == session.lastUpload # Null /\ now - session.lastUpload >= Interval

DueNow(session) == session.lastUpload = Null \/ now - session.lastUpload >= Interval

\* The screen's timer: the only caller that consults the interval.
Beat(b) ==
    /\ Reachable(b)
    /\ live[b].owes /\ DueNow(live[b])
    /\ live' = [live EXCEPT ![b] = Flushed(@)]
    /\ asks' = AskedFor(b)
    /\ UNCHANGED <<vars, shelf, override, writing, screen, closing, choosing, place>>

\* Backgrounding flushes at once and keeps the reader open.
Background(b) ==
    /\ Reachable(b)
    /\ live[b].owes
    /\ live' = [live EXCEPT ![b] = Flushed(@)]
    /\ asks' = AskedFor(b)
    /\ UNCHANGED <<vars, shelf, override, writing, screen, closing, choosing, place>>

\* The screen goes; its close is sent without waiting for it.
Dispose(b) ==
    /\ screen[b]
    /\ screen' = [screen EXCEPT ![b] = FALSE]
    /\ closing' = closing \cup {b}
    /\ UNCHANGED <<vars, shelf, override, live, writing, choosing, asks, place>>

\* reader_close: it takes whatever session the registry holds by then, one that
\* a newer screen of the same book opened too.  A session standing on a page
\* persists it once more; one that was marked unread does not.
Close(b) ==
    /\ b \in closing /\ ~writing.on
    /\ closing' = closing \ {b}
    /\ live' = [live EXCEPT ![b] = NoSession]
    /\ IF live[b].open /\ live[b].page > 0
         THEN SavePosition(b, live[b], "close", FALSE) /\ asks' = asks
         ELSE /\ asks' = IF live[b].owes THEN asks \cup {b} ELSE asks
              /\ UNCHANGED <<shelf, writing, place>>
    /\ UNCHANGED <<vars, override, screen, choosing>>

\* The controller's flushOutbox.
Flush(b) ==
    /\ b \in asks
    /\ Call
    /\ asks' = asks \ {b}
    /\ UNCHANGED <<shelf, override, live, writing, screen, closing, choosing, place>>

\* A kill: the tables stay, everything in memory goes.
ReadCrash ==
    /\ Crash
    /\ live' = [b \in Book |-> NoSession]
    /\ writing' = NotWriting
    /\ screen' = [b \in Book |-> FALSE]
    /\ closing' = {}
    /\ choosing' = [b \in Book |-> "none"]
    /\ asks' = {}
    /\ UNCHANGED <<shelf, override, place>>

Gesture(b) ==
    \/ \E restore \in Restores : Open(b, restore)
    \/ Dispose(b) \/ Background(b)
    \/ \E page \in 1 .. LastPage : TurnTo(b, page)
    \/ \E forward \in BOOLEAN : live[b].open /\ Step(b, forward)
    \/ \E mode \in Modes : Relayout(b, mode)
    \/ \E kind \in {"read", "unread"} : Mark(b, kind)

Machinery(b) == RememberLayout(b) \/ Beat(b) \/ Close(b) \/ Flush(b)

Below == Call \/ Pass \/ User \/ Mirror \/ World

ReadNext ==
    \/ \E b \in Book : Gesture(b) \/ Machinery(b)
    \/ SaveProgress
    \/ Below /\ UNCHANGED reader
    \/ ReadCrash

ReadSpec == ReadInit /\ [][ReadNext]_rvars

\* The screen's timer keeps beating, its callbacks run, and a drain that has been
\* called for runs.  Nobody but the reader need call for one.
ReadFairness ==
    /\ WF_rvars(Pass /\ UNCHANGED reader)
    /\ WF_rvars(Tick /\ UNCHANGED reader)
    /\ WF_rvars(SaveProgress)
    /\ \A b \in Book : WF_rvars(Beat(b)) /\ WF_rvars(Flush(b))

FairReadSpec == ReadSpec /\ ReadFairness

-------------------------------------------------------------------------------
(* Properties                                                                *)

\* The place the user moved to last is where the book opens again, until it is
\* opened with restoring off: no close of an older screen, no mark, no crash, no
\* layout and no correction of the restored page moves the stored position to
\* another spread, of a layout that does not depend on the series being a webtoon.
PlaceIsKept ==
    \A b \in Book : place[b] # 0 =>
        /\ shelf[b].here
        /\ LET spreads == SpreadsIn(shelf[b].mode, FirstPageSingle)
           IN  IndexForPage(spreads, shelf[b].page) = IndexForPage(spreads, place[b])

\* While a reader stands on a page the user turned to, the user's last statement
\* about the book is that page, finished when it is the last one: durable before
\* it is visible, whatever the drain, a sweep or another screen does meanwhile.
TurnsAreStated ==
    \A b \in Book :
        (live[b].open /\ live[b].moved /\ WritesProgress(b)
            /\ ~(writing.on /\ writing.book = b))
        => /\ said[b].id # 0
           /\ said[b].intent.kind = "progress"
           /\ said[b].intent.page = live[b].page
           /\ said[b].intent.completed = (live[b].page = LastPage)

\* What a reader that stays open owes for its turns reaches the server, with no
\* drain but those the reader itself calls for: the book's statement leaves the
\* queue.  Excepted is a statement that a layout, a corrected page or the close of
\* an older screen puts in its place, which no throttle owes; a drain whose
\* requests fail, which the reader does not repeat (Faults is empty); and the end
\* of the bounded clock.
TurnsAreDelivered ==
    \A b \in Book :
        live[b].owes /\ screen[b]
            ~> \/ RowsOf(b) = {} \/ ~screen[b]
               \/ writing.on /\ writing.after # "turn"
               \/ live[b].lastUpload + Interval > Horizon

\* With restoring off nothing is written back.
NothingIsWrittenBack == [][shelf' # shelf => TRUE \in Restores]_rvars

\* Leaving a book without a gesture says nothing to the server: a save that no
\* turn and no layout choice made adds no statement.
OnlyGesturesSpeak ==
    [][\A b \in Book : said'[b] # said[b] => ~writing.on \/ writing.gesture]_rvars

\* Two volumes of a series never disagree on the layout: an open book is paired
\* the way its screen says, which is the series' choice or the global one.
VolumesAgree ==
    \A b \in Book : (live[b].open /\ ~live[b].moved) => live[b].mode = live[b].shown

\* Turning to the spread that shows the last page finishes the book.
LastSpreadFinishes ==
    \A b \in Book :
        LET spreads == SpreadsIn(live[b].mode, live[b].single)
        IN  (live[b].open /\ live[b].moved /\ WritesProgress(b)
                /\ ~(writing.on /\ writing.book = b)
                /\ LastPage \in PagesOf(spreads[IndexForPage(spreads, live[b].page)]))
            => said[b].intent.completed
=============================================================================
