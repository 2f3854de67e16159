---------------------------------- MODULE Shelf ----------------------------------
(***************************************************************************)
(* The series wall (series_grid.dart) over the library query of the core    *)
(* (store/query.rs): a list the user narrows by typing, by filter, by order  *)
(* and by server, that grows a page at a time while it is scrolled, and that *)
(* a sync may change between any two statements of a read.                   *)
(*                                                                         *)
(* A query (server, search, filters and order) is a value; what it means is  *)
(* the order of all the rows that could ever match it, see Matches.          *)
(***************************************************************************)
EXTENDS Naturals, FiniteSets, SequencesExt, Sift

CONSTANTS
    Series,         \* rows the mirror may hold
    Query,          \* what the wall may be asked to show
    Matches,        \* [Query -> Seq(Series)]: the rows a query matches, in its order
    WallPage,       \* rows of one page (50 in the code)
    MaxResets,      \* bound: loads of the wall from its beginning
    MaxSyncs        \* bound: rows a sync adds or removes

ASSUME ShelfAssumption ==
    /\ Matches \in [Query -> Seq(Series)]
    /\ WallPage \in Nat \ {0}
    /\ MaxResets \in Nat \ {0} /\ MaxSyncs \in Nat

VARIABLES
    mirror,     \* rows stored
    wall,       \* the screen, see WallTypeOK
    debounce,   \* generation the search timer was set for, 0 when it is not set
    asks,       \* loads under way
    syncs       \* bound: changes made to the mirror

svars == <<mirror, wall, debounce, asks, syncs>>

\* One load: what it captured when it was issued, and what it has read so far.
WallAsk ==
    [generation : 1 .. MaxResets, query : Query, reset : BOOLEAN, offset : Nat,
     step : {"count", "rows", "covers"}, total : Nat, items : Seq(Series), steady : BOOLEAN]

\* steady is history: the mirror has not changed since the rows shown were read.
ShelfTypeOK ==
    /\ mirror \subseteq Series
    /\ wall.query \in Query
    /\ wall.generation \in 1 .. MaxResets
    /\ wall.shown \in Seq(Series)
    /\ {wall.resetting, wall.loadingMore, wall.error, wall.appendError, wall.steady}
         \subseteq BOOLEAN
    /\ debounce \in 0 .. MaxResets
    /\ asks \subseteq WallAsk

-------------------------------------------------------------------------------
(* The query                                                                 *)

\* The rows of the WHERE clause in the order of the ORDER BY.
Result(query) == Sift(Matches[query], mirror)

\* LIMIT and OFFSET.
PageOf(rowsFound, offset) ==
    SubSeq(rowsFound, offset + 1,
           IF offset + WallPage < Len(rowsFound) THEN offset + WallPage ELSE Len(rowsFound))

-------------------------------------------------------------------------------
(* The wall                                                                  *)

\* FAULT: every answer is taken for the current one.
AnyWall(generation) == TRUE

CurrentWall(generation) == generation = wall.generation

\* _beginWallReset: rows of another query leave the screen at once.
BeginWallReset(query) ==
    LET kept == [wall EXCEPT !.query = query, !.generation = @ + 1, !.resetting = TRUE,
                             !.loadingMore = FALSE, !.appendError = FALSE, !.error = FALSE]
    IN  IF query = wall.query THEN kept
        ELSE [kept EXCEPT !.shown = <<>>, !.total = 0, !.steady = TRUE]

\* What a load captures before its first await.
NewAsk(w, reset) ==
    [generation |-> w.generation, query |-> w.query, reset |-> reset,
     offset |-> IF reset THEN 0 ELSE Len(w.shown), step |-> "count", total |-> 0,
     items |-> <<>>, steady |-> TRUE]

\* _loadWall(reset: true): a filter, the order, a refresh after a sync, a retry.
LoadWall ==
    /\ wall.generation < MaxResets
    /\ \E query \in Query : wall' = BeginWallReset(query)
    /\ asks' = asks \cup {NewAsk(wall', TRUE)}
    /\ UNCHANGED <<mirror, debounce, syncs>>

\* _onSearchChanged: the load waits for the typing to pause.
SearchChanged ==
    /\ wall.generation < MaxResets
    /\ \E query \in Query : wall' = BeginWallReset(query)
    /\ debounce' = wall'.generation
    /\ UNCHANGED <<mirror, asks, syncs>>

\* The timer of _onSearchChanged: a reset that came in between has done its work.
SearchPaused ==
    /\ debounce > 0
    /\ debounce' = 0
    /\ IF CurrentWall(debounce)
       THEN /\ wall.generation < MaxResets
            /\ wall' = BeginWallReset(wall.query)
            /\ asks' = asks \cup {NewAsk(wall', TRUE)}
       ELSE UNCHANGED <<wall, asks>>
    /\ UNCHANGED <<mirror, syncs>>

\* _serverChanged: the timer is cancelled, the wall emptied, and loaded again.
ServerChanged ==
    /\ wall.generation + 1 < MaxResets
    /\ debounce' = 0
    /\ \E query \in Query :
          wall' = [BeginWallReset(query) EXCEPT !.generation = @ + 1, !.shown = <<>>,
                                                !.total = 0, !.steady = TRUE]
    /\ asks' = asks \cup {NewAsk(wall', TRUE)}
    /\ UNCHANGED <<mirror, syncs>>

MayLoadMore == ~wall.resetting /\ ~wall.loadingMore /\ Len(wall.shown) < wall.total

\* _loadMore: a tile near the end was built, or the user retries a failed page.
LoadMore ==
    /\ MayLoadMore
    /\ wall' = [wall EXCEPT !.loadingMore = TRUE, !.appendError = FALSE]
    /\ asks' = asks \cup {NewAsk(wall, FALSE)}
    /\ UNCHANGED <<mirror, debounce, syncs>>

\* query_series: the count is one statement, the page another.
CountRows(a) ==
    /\ a.step = "count"
    /\ asks' = (asks \ {a}) \cup
                 {[a EXCEPT !.step = "rows", !.total = Len(Result(a.query))]}
    /\ UNCHANGED <<mirror, wall, debounce, syncs>>

SelectRows(a) ==
    /\ a.step = "rows"
    /\ asks' = (asks \ {a}) \cup
                 {[a EXCEPT !.step = "covers", !.items = PageOf(Result(a.query), a.offset)]}
    /\ UNCHANGED <<mirror, wall, debounce, syncs>>

\* The load ends: `finally` puts both flags back, of the current load only.
Settled(a, w) ==
    IF CurrentWall(a.generation)
    THEN [w EXCEPT !.resetting = FALSE, !.loadingMore = FALSE]
    ELSE wall

\* The rows and their covers are there; an older load's are dropped, which the
\* check between the two asks only does sooner.
WallLands(a) ==
    /\ a.step = "covers"
    /\ asks' = asks \ {a}
    /\ wall' = Settled(a, [wall EXCEPT
                   !.shown = IF a.reset THEN a.items ELSE @ \o a.items,
                   !.total = a.total,
                   !.error = FALSE,
                   !.steady = a.steady /\ (a.reset \/ @)])
    /\ UNCHANGED <<mirror, debounce, syncs>>

\* A read of the rows or of the covers throws.
WallFails(a) ==
    /\ asks' = asks \ {a}
    /\ wall' = Settled(a, IF a.reset THEN [wall EXCEPT !.error = TRUE]
                                     ELSE [wall EXCEPT !.appendError = TRUE])
    /\ UNCHANGED <<mirror, debounce, syncs>>

\* A sync commits a row or prunes one, whatever the wall is reading.
SyncWrites ==
    /\ syncs < MaxSyncs
    /\ syncs' = syncs + 1
    /\ \E s \in Series :
          mirror' = IF s \in mirror THEN mirror \ {s} ELSE mirror \cup {s}
    /\ wall' = [wall EXCEPT !.steady = wall.shown = <<>> /\ wall.resetting]
    /\ asks' = {[a EXCEPT !.steady = @ /\ a.step = "count"] : a \in asks}
    /\ UNCHANGED debounce

\* The first load of the screen.
ShelfInit ==
    /\ mirror \in SUBSET Series
    /\ \E query \in Query :
          wall = [query |-> query, generation |-> 1, resetting |-> TRUE,
                  loadingMore |-> FALSE, error |-> FALSE, appendError |-> FALSE,
                  shown |-> <<>>, total |-> 0, steady |-> TRUE]
    /\ debounce = 0
    /\ asks = {NewAsk(wall, TRUE)}
    /\ syncs = 0

ShelfNext ==
    \/ LoadWall \/ SearchChanged \/ SearchPaused \/ ServerChanged \/ LoadMore \/ SyncWrites
    \/ \E a \in asks : CountRows(a) \/ SelectRows(a) \/ WallLands(a) \/ WallFails(a)

ShelfSpec == ShelfInit /\ [][ShelfNext]_svars

-------------------------------------------------------------------------------
(* Properties                                                                *)

\* Whatever order answers come in, and whichever fail: while no sync changes the
\* mirror, the wall shows the first rows of the query it stands for, each once,
\* and once it has loaded also how many there are.
WallIsAPrefix ==
    wall.steady =>
        /\ IsPrefix(wall.shown, Result(wall.query))
        /\ ~wall.resetting /\ ~wall.error =>
              /\ wall.total = Len(Result(wall.query))
              /\ wall.total > 0 => wall.shown # <<>>

\* The wall says that it is loading exactly while a load of what it shows is
\* under way or a pause in the typing is about to start one, and there is never
\* a second: no spinner stays for good and no page is appended twice.
SpinnerIsAnswered ==
    LET current == {a \in asks : CurrentWall(a.generation)}
    IN  /\ Cardinality(current) <= 1
        /\ wall.loadingMore <=> \E a \in current : ~a.reset
        /\ wall.resetting <=> (\E a \in current : a.reset) \/ CurrentWall(debounce)

\* What the wall shows and what it says of itself, together.
WallIsHonest == WallIsAPrefix /\ SpinnerIsAnswered

\* With a sync between two pages as well, no series is on the wall twice: not what
\* an offset into a changing list gives.
ShownOnce == \A i, j \in DOMAIN wall.shown : i # j => wall.shown[i] # wall.shown[j]
=============================================================================
