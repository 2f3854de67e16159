----------------------------- MODULE ScreensProofs -----------------------------
(*
  Proofs about the screens, the page cache under the reader and the frames of
  the event stream, each a behaviour of its own: the wall; the reader's window
  (the plan, the queue of a pass, the plan in force); the series page; the page
  cache; the parser.

  The cache's argument goes up in four steps.  The pool is within its budget or
  somebody has yet to measure, or drops rows by an order that knows every page the
  ledger has (TrimIsDue): whoever records a page after an order was made measures
  again, so of several trims the last one always knows them all.  A sweep nobody
  disturbs leaves the ledger and the files in agreement.  A trim takes guesses
  before displayed pages.  And what a page call answers is whole, since nothing
  but the end of the process cuts a file and nothing is promoted unchecked.

  The parser's is about a text that grows by one symbol: what it holds is what
  the text says behind its last blank line (Holds), and one more symbol adds at
  most one event to what the text means (MeaningGrows).
*)
EXTENDS PageCache, Shelf, SeriesPage, ReaderWindow, Frames, SequenceProofs, FiniteSetTheorems

-------------------------------------------------------------------------------
(* The wall                                                                  *)

\* Wall says of a generation only that it is a number: a reset that starts
\* another at once counts two.
Wall ==
    [query : Query, generation : Nat, resetting : BOOLEAN, loadingMore : BOOLEAN,
     error : BOOLEAN, appendError : BOOLEAN, shown : Seq(Series), total : Nat, steady : BOOLEAN]

ShelfTyped ==
    /\ mirror \subseteq Series
    /\ wall \in Wall
    /\ wall.generation \in 1 .. MaxResets
    /\ debounce \in 0 .. MaxResets
    /\ asks \subseteq WallAsk
    /\ syncs \in Nat

\* A load is of the wall's present or of an older state; if of the present one, it
\* asks for what the wall stands for, from where the wall ends.
AsksStand ==
    /\ debounce <= wall.generation
    /\ \A a \in asks :
          /\ a.generation <= wall.generation
          /\ a.reset => a.offset = 0
          /\ CurrentWall(a.generation) =>
                /\ a.query = wall.query
                /\ ~a.reset => a.offset = Len(wall.shown)

\* At most one load or timer is of the wall's present state, and the wall says so.
OneLoad ==
    /\ \A a, b \in asks : CurrentWall(a.generation) /\ CurrentWall(b.generation) => a = b
    /\ CurrentWall(debounce) => \A a \in asks : ~CurrentWall(a.generation)
    /\ wall.loadingMore <=> \E a \in asks : CurrentWall(a.generation) /\ ~a.reset
    /\ wall.resetting <=> \/ \E a \in asks : CurrentWall(a.generation) /\ a.reset
                          \/ CurrentWall(debounce)

\* What a load has read is still so, if no sync came in between.
AsksRead ==
    \A a \in asks : a.steady =>
        /\ a.step # "count" => a.total = Len(Result(a.query))
        /\ a.step = "covers" => a.items = PageOf(Result(a.query), a.offset)

ShelfInv == ShelfTyped /\ AsksStand /\ OneLoad /\ AsksRead /\ WallIsAPrefix

LEMMA ResultTyped ==
    ASSUME NEW q \in Query
    PROVE  Result(q) \in Seq(Series) /\ Len(Result(q)) \in Nat
<1>1. Matches[q] \in Seq(Series)
  BY ShelfAssumption
<1>2. Result(q) \in Seq(Series)
  BY <1>1, SiftKeeps DEF Result
<1> QED
  BY <1>2

LEMMA PageIs ==
    ASSUME NEW r \in Seq(Series), NEW offset \in Nat
    PROVE  /\ PageOf(r, offset) \in Seq(Series)
           /\ offset <= Len(r) =>
                 /\ Len(PageOf(r, offset)) <= Len(r) - offset
                 /\ \A i \in 1 .. Len(PageOf(r, offset)) : PageOf(r, offset)[i] = r[offset + i]
                 /\ offset < Len(r) => Len(PageOf(r, offset)) > 0
<1>1. WallPage \in Nat /\ WallPage > 0
  BY ShelfAssumption
<1>2. PICK last \in Nat : /\ last <= Len(r) /\ PageOf(r, offset) = SubSeq(r, offset + 1, last)
                          /\ offset < Len(r) => last > offset
                          /\ offset <= Len(r) => last >= offset
  BY <1>1 DEF PageOf
<1>3. SubSeq(r, offset + 1, last) \in Seq(Series)
  BY <1>2
<1>4. ASSUME offset <= Len(r)
      PROVE  /\ Len(SubSeq(r, offset + 1, last)) = last - offset
             /\ \A i \in 1 .. last - offset : SubSeq(r, offset + 1, last)[i] = r[offset + i]
  BY <1>2, <1>4
<1> QED
  BY <1>2, <1>3, <1>4

\* The next page after a prefix makes a longer prefix.
LEMMA PageJoins ==
    ASSUME NEW r \in Seq(Series), NEW w \in Seq(Series), IsPrefix(w, r)
    PROVE  LET more == w \o PageOf(r, Len(w))
           IN  /\ more \in Seq(Series) /\ IsPrefix(more, r)
               /\ Len(r) > 0 => more # <<>>
<1>1. Len(w) \in Nat /\ Len(w) <= Len(r) /\ Len(r) \in Nat
  BY DEF IsPrefix
<1>2. \A i \in 1 .. Len(w) : w[i] = r[i]
  <2>1. SubSeq(w, 1, Len(w)) = SubSeq(r, 1, Len(w))
    BY DEF IsPrefix
  <2>2. \A i \in 1 .. Len(w) : SubSeq(w, 1, Len(w))[i] = w[i] /\ SubSeq(r, 1, Len(w))[i] = r[i]
    BY <1>1
  <2> QED
    BY <2>1, <2>2
<1>3. PICK page : page = PageOf(r, Len(w))
  OBVIOUS
<1>4. /\ page \in Seq(Series) /\ Len(page) \in Nat /\ Len(page) <= Len(r) - Len(w)
      /\ \A i \in 1 .. Len(page) : page[i] = r[Len(w) + i]
      /\ Len(w) < Len(r) => Len(page) > 0
  BY <1>1, <1>3, PageIs
<1>5. PICK more : more = w \o page
  OBVIOUS
<1>6. /\ more \in Seq(Series) /\ Len(more) = Len(w) + Len(page)
      /\ \A i \in 1 .. Len(w) : more[i] = w[i]
      /\ \A i \in Len(w) + 1 .. Len(w) + Len(page) : more[i] = page[i - Len(w)]
  BY <1>4, <1>5
<1>7. \A i \in 1 .. Len(more) : more[i] = r[i]
  <2>1. ASSUME NEW i \in Len(w) + 1 .. Len(w) + Len(page) PROVE more[i] = r[i]
    <3>1. i - Len(w) \in 1 .. Len(page) /\ Len(w) + (i - Len(w)) = i
      BY <1>1, <1>4
    <3> QED
      BY <1>4, <1>6, <3>1
  <2>2. \A i \in 1 .. Len(more) : i \in 1 .. Len(w) \/ i \in Len(w) + 1 .. Len(w) + Len(page)
    BY <1>1, <1>4, <1>6
  <2> QED
    BY <1>2, <1>6, <2>1, <2>2
<1>8. Len(more) <= Len(r)
  BY <1>1, <1>4, <1>6
<1>9. SubSeq(more, 1, Len(more)) = SubSeq(r, 1, Len(more))
  <2>1. SubSeq(more, 1, Len(more)) \in Seq(Series) /\ SubSeq(r, 1, Len(more)) \in Seq(Series)
    <3>1. PICK n \in Nat : n = Len(more) /\ n <= Len(r)
      BY <1>6, <1>8
    <3>2. SubSeq(more, 1, n) \in Seq(Series)
      BY <1>6, <3>1
    <3>3. SubSeq(r, 1, n) \in Seq(Series)
      BY <3>1
    <3> QED
      BY <3>1, <3>2, <3>3
  <2>2. /\ Len(SubSeq(more, 1, Len(more))) = Len(more) /\ Len(SubSeq(r, 1, Len(more))) = Len(more)
        /\ \A i \in 1 .. Len(more) : SubSeq(more, 1, Len(more))[i] = more[i]
        /\ \A i \in 1 .. Len(more) : SubSeq(r, 1, Len(more))[i] = r[i]
    BY <1>6, <1>8
  <2> QED
    BY <1>7, <2>1, <2>2, SeqEqual
<1>10. Len(r) > 0 => Len(more) > 0
  BY <1>1, <1>4, <1>6
<1> QED
  BY <1>3, <1>5, <1>6, <1>8, <1>9, <1>10 DEF IsPrefix

LEMMA NewAskIs ==
    ASSUME NEW w \in Wall, w.generation \in 1 .. MaxResets, NEW reset \in BOOLEAN
    PROVE  /\ NewAsk(w, reset) \in WallAsk
           /\ NewAsk(w, reset).generation = w.generation /\ NewAsk(w, reset).query = w.query
           /\ NewAsk(w, reset).reset = reset
           /\ NewAsk(w, reset).offset = (IF reset THEN 0 ELSE Len(w.shown))
           /\ NewAsk(w, reset).step = "count" /\ NewAsk(w, reset).steady
<1>1. Len(w.shown) \in Nat /\ <<>> \in Seq(Series)
  BY DEF Wall
<1> QED
  BY <1>1 DEF NewAsk, Wall, WallAsk

LEMMA ResetIs ==
    ASSUME ShelfTyped, NEW query \in Query
    PROVE  /\ BeginWallReset(query) \in Wall
           /\ BeginWallReset(query).query = query
           /\ BeginWallReset(query).generation = wall.generation + 1
           /\ BeginWallReset(query).resetting /\ ~BeginWallReset(query).loadingMore
           /\ \/ BeginWallReset(query).shown = <<>>
              \/ /\ query = wall.query /\ BeginWallReset(query).shown = wall.shown
                 /\ BeginWallReset(query).steady = wall.steady
<1>1. <<>> \in Seq(Series) /\ wall.generation + 1 \in Nat
  BY DEF ShelfTyped
<1>2. CASE query = wall.query
  BY <1>1, <1>2 DEF BeginWallReset, ShelfTyped, Wall
<1>3. CASE query # wall.query
  BY <1>1, <1>3 DEF BeginWallReset, ShelfTyped, Wall
<1> QED
  BY <1>2, <1>3

\* The wall starts again: what is under way is of an older state from now on.
StartsAgain ==
    /\ mirror' = mirror /\ syncs' = syncs
    /\ wall' \in Wall /\ wall'.generation \in wall.generation + 1 .. MaxResets
    /\ wall'.resetting /\ ~wall'.loadingMore
    /\ \/ wall'.shown = <<>>
       \/ wall'.query = wall.query /\ wall'.shown = wall.shown /\ wall'.steady = wall.steady
    /\ \/ /\ asks' = asks \cup {NewAsk(wall', TRUE)}
          /\ debounce' \in {0, debounce}
       \/ asks' = asks /\ debounce' = wall'.generation

LEMMA EmptyIsPrefix ==
    ASSUME NEW r \in Seq(Series)
    PROVE  IsPrefix(<<>>, r)
<1>1. Len(<<>>) = 0 /\ <<>> \in Seq(Series) /\ Len(r) \in Nat
  OBVIOUS
<1>2. SubSeq(<<>>, 1, 0) = <<>> /\ SubSeq(r, 1, 0) = <<>>
  OBVIOUS
<1> QED
  BY <1>1, <1>2 DEF IsPrefix

LEMMA StartingAgain ==
    ASSUME ShelfInv, StartsAgain
    PROVE  ShelfInv'
<1>1. /\ wall \in Wall /\ wall.generation \in 1 .. MaxResets /\ debounce \in 0 .. MaxResets
      /\ debounce <= wall.generation /\ asks \subseteq WallAsk /\ MaxResets \in Nat
  BY ShelfAssumption DEF ShelfInv, ShelfTyped, AsksStand
<1>2. wall' \in Wall /\ wall'.generation \in 1 .. MaxResets /\ wall'.generation > wall.generation
  BY <1>1 DEF StartsAgain
<1>3. \A a \in asks : a.generation < wall'.generation /\ a.generation # wall'.generation
  BY <1>1, <1>2 DEF ShelfInv, AsksStand, WallAsk
<1>4. PICK new : new = NewAsk(wall', TRUE)
  OBVIOUS
<1>5. /\ new \in WallAsk /\ new.generation = wall'.generation /\ new.query = wall'.query
      /\ new.reset = TRUE /\ new.offset = 0 /\ new.step = "count"
  <2>1. ASSUME NEW w, w = wall' PROVE NewAsk(w, TRUE) \in WallAsk
                  /\ NewAsk(w, TRUE).generation = w.generation
                  /\ NewAsk(w, TRUE).query = w.query /\ NewAsk(w, TRUE).reset = TRUE
                  /\ NewAsk(w, TRUE).offset = 0 /\ NewAsk(w, TRUE).step = "count"
    BY <1>2, <2>1, NewAskIs
  <2> QED
    BY <1>4, <2>1
<1>6. \/ asks' = asks \cup {new} /\ debounce' \in {0, debounce}
      \/ asks' = asks /\ debounce' = wall'.generation
  BY <1>4 DEF StartsAgain
<1>7. ShelfTyped'
  BY <1>1, <1>2, <1>5, <1>6 DEF ShelfInv, ShelfTyped, StartsAgain
<1>8. AsksStand'
  <2>1. debounce' <= wall'.generation
    BY <1>1, <1>2, <1>6
  <2>2. \A a \in asks' : a \in asks \/ a = new
    BY <1>6
  <2>3. \A a \in asks' : /\ a.generation <= wall'.generation
                         /\ a.reset => a.offset = 0
    BY <1>1, <1>2, <1>3, <1>5, <2>2 DEF ShelfInv, AsksStand, WallAsk
  <2>4. \A a \in asks' : a.generation = wall'.generation => a.query = wall'.query /\ a.reset
    BY <1>3, <1>5, <2>2
  <2> QED
    BY <2>1, <2>3, <2>4 DEF AsksStand, CurrentWall
<1>9. OneLoad'
  <2>1. wall'.resetting /\ ~wall'.loadingMore /\ wall'.loadingMore = FALSE /\ wall'.resetting = TRUE
    BY <1>2 DEF StartsAgain, Wall
  <2>2. CASE asks' = asks \cup {new} /\ debounce' \in {0, debounce}
    <3>1. debounce' # wall'.generation
      BY <1>1, <1>2, <2>2
    <3>2. \A a \in asks' : a.generation = wall'.generation => a = new
      BY <1>3, <2>2
    <3>3. new \in asks'
      BY <2>2
    <3> QED
      BY <1>5, <2>1, <3>1, <3>2, <3>3 DEF OneLoad, CurrentWall
  <2>3. CASE asks' = asks /\ debounce' = wall'.generation
    <3>1. \A a \in asks' : a.generation # wall'.generation
      BY <1>3, <2>3
    <3> QED
      BY <2>1, <2>3, <3>1 DEF OneLoad, CurrentWall
  <2> QED
    BY <1>6, <2>2, <2>3
<1>10. AsksRead'
  <2>1. \A q : Result(q)' = Result(q)
    BY DEF Result, StartsAgain
  <2>2. \A a \in asks' : a \in asks \/ a = new
    BY <1>6
  <2>3. ASSUME NEW a \in asks', a.steady
        PROVE  /\ a.step # "count" => a.total = Len(Result(a.query))
               /\ a.step = "covers" => a.items = PageOf(Result(a.query), a.offset)
    BY <1>5, <2>2, <2>3 DEF ShelfInv, AsksRead
  <2> QED
    BY <2>1, <2>3 DEF AsksRead
<1>11. WallIsAPrefix'
  <2>1. \A q : Result(q)' = Result(q)
    BY DEF Result, StartsAgain
  <2>2. wall'.resetting /\ wall'.query \in Query
    BY <1>2 DEF StartsAgain, Wall
  <2>3. wall'.steady => IsPrefix(wall'.shown, Result(wall'.query))
    <3>1. Result(wall'.query) \in Seq(Series)
      BY <2>2, ResultTyped
    <3>2. CASE wall'.shown = <<>>
      BY <3>1, <3>2, EmptyIsPrefix
    <3>3. CASE wall'.query = wall.query /\ wall'.shown = wall.shown /\ wall'.steady = wall.steady
      BY <3>3 DEF ShelfInv, WallIsAPrefix
    <3> QED
      BY <3>2, <3>3 DEF StartsAgain
  <2> QED
    BY <2>1, <2>2, <2>3 DEF WallIsAPrefix
<1> QED
  BY <1>7, <1>8, <1>9, <1>10, <1>11 DEF ShelfInv

LEMMA LoadStarts ==
    ASSUME ShelfInv, LoadWall \/ SearchChanged \/ SearchPaused \/ ServerChanged
    PROVE  ShelfInv'
<1>1. /\ ShelfTyped /\ wall.generation \in 1 .. MaxResets /\ MaxResets \in Nat
      /\ wall.query \in Query /\ debounce <= wall.generation /\ debounce \in 0 .. MaxResets
  BY ShelfAssumption DEF ShelfInv, ShelfTyped, AsksStand, Wall
<1>2. ASSUME NEW query \in Query, NEW w, w = BeginWallReset(query), wall.generation < MaxResets,
             NEW v, v = wall', v = w, mirror' = mirror, syncs' = syncs,
             \/ asks' = asks \cup {NewAsk(wall', TRUE)} /\ debounce' \in {0, debounce}
             \/ asks' = asks /\ debounce' = wall'.generation
      PROVE  ShelfInv'
  <2>1. /\ w \in Wall /\ w.generation = wall.generation + 1 /\ w.resetting /\ ~w.loadingMore
        /\ \/ w.shown = <<>>
           \/ w.query = wall.query /\ w.shown = wall.shown /\ w.steady = wall.steady
    BY <1>1, <1>2, ResetIs
  <2>2. w.generation \in wall.generation + 1 .. MaxResets
    BY <1>1, <1>2, <2>1
  <2>3. StartsAgain
    BY <1>2, <2>1, <2>2 DEF StartsAgain
  <2> QED
    BY <2>3, StartingAgain
<1>3. CASE LoadWall
  BY <1>2, <1>3 DEF LoadWall
<1>4. CASE SearchChanged
  BY <1>2, <1>4 DEF SearchChanged
<1>5. CASE SearchPaused
  <2>1. CASE CurrentWall(debounce)
    BY <1>1, <1>2, <1>5, <2>1 DEF SearchPaused
  <2>2. CASE ~CurrentWall(debounce)
    <3>1. mirror' = mirror /\ wall' = wall /\ asks' = asks /\ syncs' = syncs /\ debounce' = 0
      BY <1>5, <2>2 DEF SearchPaused
    <3>2. ShelfTyped' /\ AsksStand' /\ AsksRead' /\ WallIsAPrefix'
      <4>1. ShelfTyped'
        BY <1>1, <3>1 DEF ShelfTyped
      <4>2. AsksStand'
        <5>1. debounce' <= wall'.generation
          BY <1>1, <3>1
        <5> QED
          BY <3>1, <5>1 DEF ShelfInv, AsksStand, CurrentWall
      <4>3. \A q : Result(q)' = Result(q)
        BY <3>1 DEF Result
      <4>4. AsksRead' /\ WallIsAPrefix'
        BY <3>1, <4>3 DEF ShelfInv, AsksRead, WallIsAPrefix
      <4> QED
        BY <4>1, <4>2, <4>4
    <3>3. debounce # wall.generation /\ 0 # wall.generation
      BY <1>1, <2>2 DEF CurrentWall
    <3>4. OneLoad'
      BY <3>1, <3>3 DEF ShelfInv, OneLoad, CurrentWall
    <3> QED
      BY <3>2, <3>4 DEF ShelfInv
  <2> QED
    BY <2>1, <2>2
<1>6. CASE ServerChanged
  <2>1. PICK query \in Query :
            wall' = [BeginWallReset(query) EXCEPT !.generation = @ + 1, !.shown = <<>>,
                                                  !.total = 0, !.steady = TRUE]
    BY <1>6 DEF ServerChanged
  <2>2. PICK w : w = BeginWallReset(query)
    OBVIOUS
  <2>3. w \in Wall /\ w.generation = wall.generation + 1 /\ w.resetting /\ ~w.loadingMore
    BY <1>1, <2>2, ResetIs
  <2>4. wall' = [w EXCEPT !.generation = @ + 1, !.shown = <<>>, !.total = 0, !.steady = TRUE]
    BY <2>1, <2>2
  <2>5. /\ wall' \in Wall /\ wall'.generation = wall.generation + 2 /\ wall'.resetting
        /\ ~wall'.loadingMore /\ wall'.shown = <<>>
    <3>1. <<>> \in Seq(Series) /\ w.generation + 1 = wall.generation + 2 /\ w.generation + 1 \in Nat
      BY <1>1, <2>3
    <3> QED
      BY <2>3, <2>4, <3>1 DEF Wall
  <2>6. wall'.generation \in wall.generation + 1 .. MaxResets
    <3>1. PICK g \in Nat : g = wall.generation
      BY <1>1
    <3>2. g + 1 < MaxResets
      BY <1>6, <3>1 DEF ServerChanged
    <3>3. g + 2 \in g + 1 .. MaxResets
      BY <1>1, <3>2
    <3> QED
      BY <2>5, <3>1, <3>3
  <2>7. StartsAgain
    BY <1>6, <2>5, <2>6 DEF ServerChanged, StartsAgain
  <2> QED
    BY <2>7, StartingAgain
<1> QED
  BY <1>3, <1>4, <1>5, <1>6

LEMMA MoreIsAsked ==
    ASSUME ShelfInv, LoadMore
    PROVE  ShelfInv'
<1>1. /\ wall \in Wall /\ wall.generation \in 1 .. MaxResets /\ debounce \in 0 .. MaxResets
      /\ asks \subseteq WallAsk /\ ~wall.resetting /\ ~wall.loadingMore
  BY DEF ShelfInv, ShelfTyped, LoadMore, MayLoadMore
<1>2. PICK new : new = NewAsk(wall, FALSE)
  OBVIOUS
<1>3. /\ new \in WallAsk /\ new.generation = wall.generation /\ new.query = wall.query
      /\ new.reset = FALSE /\ new.offset = Len(wall.shown) /\ new.step = "count"
  BY <1>1, <1>2, NewAskIs
<1>4. /\ asks' = asks \cup {new}
      /\ mirror' = mirror /\ debounce' = debounce /\ syncs' = syncs
  BY <1>2 DEF LoadMore
<1>5. wall' = [wall EXCEPT !.loadingMore = TRUE, !.appendError = FALSE]
  BY DEF LoadMore
<1>6. /\ wall' \in Wall /\ wall'.query = wall.query /\ wall'.generation = wall.generation
      /\ wall'.shown = wall.shown /\ wall'.total = wall.total /\ wall'.steady = wall.steady
      /\ wall'.resetting = wall.resetting /\ wall'.error = wall.error /\ wall'.loadingMore = TRUE
  BY <1>1, <1>5 DEF Wall
<1>7. \A a \in asks' : a \in asks \/ a = new
  BY <1>4
<1>8. \A a \in asks : a.generation # wall.generation
  <2>1. ASSUME NEW a \in asks, a.generation = wall.generation PROVE FALSE
    <3>1. a.reset \/ ~a.reset
      OBVIOUS
    <3> QED
      BY <1>1, <2>1, <3>1 DEF ShelfInv, OneLoad, CurrentWall
  <2> QED
    BY <2>1
<1>9. debounce # wall.generation
  BY <1>1 DEF ShelfInv, OneLoad, CurrentWall
<1>10. ShelfTyped'
  BY <1>3, <1>4, <1>6 DEF ShelfInv, ShelfTyped
<1>11. AsksStand'
  <2>1. ASSUME NEW a \in asks
        PROVE  /\ a.generation <= wall'.generation /\ a.generation # wall'.generation
               /\ a.reset => a.offset = 0
    BY <1>6, <1>8, <2>1 DEF ShelfInv, AsksStand
  <2>2. /\ new.generation <= wall'.generation /\ ~new.reset
        /\ new.query = wall'.query /\ new.offset = Len(wall'.shown)
    BY <1>1, <1>3, <1>6
  <2>3. debounce' <= wall'.generation
    BY <1>4, <1>6 DEF ShelfInv, AsksStand
  <2> QED
    BY <1>7, <2>1, <2>2, <2>3 DEF AsksStand, CurrentWall
<1>12. OneLoad'
  <2>1. \A a \in asks' : a.generation = wall'.generation => a = new
    BY <1>6, <1>7, <1>8
  <2>2. new \in asks' /\ new.generation = wall'.generation /\ new.reset = FALSE
    BY <1>3, <1>4, <1>6
  <2>3. debounce' # wall'.generation /\ wall'.resetting = FALSE /\ wall'.loadingMore = TRUE
    BY <1>1, <1>4, <1>6, <1>9 DEF Wall
  <2> QED
    BY <2>1, <2>2, <2>3 DEF OneLoad, CurrentWall
<1>13. \A q : Result(q)' = Result(q)
  BY <1>4 DEF Result
<1>14. AsksRead'
  BY <1>3, <1>7, <1>13 DEF ShelfInv, AsksRead
<1>15. WallIsAPrefix'
  BY <1>6, <1>13 DEF ShelfInv, WallIsAPrefix
<1> QED
  BY <1>10, <1>11, <1>12, <1>14, <1>15 DEF ShelfInv

\* A load reads on: it is the same load, of the same state of the wall.
ReadsOn(a, b) ==
    /\ a \in asks /\ asks' = (asks \ {a}) \cup {b}
    /\ b \in WallAsk /\ b.generation = a.generation /\ b.query = a.query
    /\ b.reset = a.reset /\ b.offset = a.offset /\ b.steady = a.steady
    /\ mirror' = mirror /\ wall' = wall /\ debounce' = debounce /\ syncs' = syncs

LEMMA ReadingOn ==
    ASSUME ShelfInv, NEW a, NEW b, ReadsOn(a, b),
           b.steady =>
              /\ b.step # "count" => b.total = Len(Result(b.query))
              /\ b.step = "covers" => b.items = PageOf(Result(b.query), b.offset)
    PROVE  ShelfInv'
<1>1. \A c \in asks' : (c \in asks /\ c # a) \/ c = b
  BY DEF ReadsOn
<1>2. ShelfTyped'
  BY DEF ReadsOn, ShelfInv, ShelfTyped
<1>3. AsksStand'
  <2>1. /\ a.generation <= wall.generation
        /\ a.reset => a.offset = 0
        /\ a.generation = wall.generation =>
              /\ a.query = wall.query
              /\ ~a.reset => a.offset = Len(wall.shown)
    BY DEF ReadsOn, ShelfInv, AsksStand, CurrentWall
  <2>2. /\ b.generation <= wall.generation
        /\ b.reset => b.offset = 0
        /\ b.generation = wall.generation =>
              /\ b.query = wall.query
              /\ ~b.reset => b.offset = Len(wall.shown)
    BY <2>1 DEF ReadsOn
  <2> QED
    BY <1>1, <2>2 DEF ReadsOn, ShelfInv, AsksStand, CurrentWall
<1>4. OneLoad'
  <2>1. a \in asks /\ b \in asks'
    BY DEF ReadsOn
  <2>2. \A c, d \in asks' : c.generation = wall.generation /\ d.generation = wall.generation => c = d
    BY <1>1, <2>1 DEF ReadsOn, ShelfInv, OneLoad, CurrentWall
  <2>3. debounce = wall.generation => \A c \in asks' : c.generation # wall.generation
    BY <1>1, <2>1 DEF ReadsOn, ShelfInv, OneLoad, CurrentWall
  <2>4. (\E c \in asks' : c.generation = wall.generation /\ ~c.reset)
          <=> (\E c \in asks : c.generation = wall.generation /\ ~c.reset)
    BY <1>1, <2>1 DEF ReadsOn
  <2>5. (\E c \in asks' : c.generation = wall.generation /\ c.reset)
          <=> (\E c \in asks : c.generation = wall.generation /\ c.reset)
    BY <1>1, <2>1 DEF ReadsOn
  <2>6. wall' = wall /\ debounce' = debounce
    BY DEF ReadsOn
  <2> QED
    BY <2>2, <2>3, <2>4, <2>5, <2>6 DEF ShelfInv, OneLoad, CurrentWall
<1>5. \A q : Result(q)' = Result(q)
  BY DEF ReadsOn, Result
<1>6. AsksRead'
  BY <1>1, <1>5 DEF ShelfInv, AsksRead
<1>7. WallIsAPrefix'
  BY <1>5 DEF ReadsOn, ShelfInv, WallIsAPrefix
<1> QED
  BY <1>2, <1>3, <1>4, <1>6, <1>7 DEF ShelfInv

LEMMA RowsAreRead ==
    ASSUME ShelfInv, NEW a \in asks, CountRows(a) \/ SelectRows(a)
    PROVE  ShelfInv'
<1>1. a \in WallAsk /\ a.query \in Query /\ a.offset \in Nat
  BY DEF ShelfInv, ShelfTyped, WallAsk
<1>2. PICK r : r = Result(a.query)
  OBVIOUS
<1>3. r \in Seq(Series) /\ Len(r) \in Nat
  BY <1>1, <1>2, ResultTyped
<1>4. CASE CountRows(a)
  <2>1. PICK b : b = [a EXCEPT !.step = "rows", !.total = Len(r)]
    OBVIOUS
  <2>2. /\ b \in WallAsk /\ b.generation = a.generation /\ b.query = a.query
        /\ b.reset = a.reset /\ b.offset = a.offset /\ b.steady = a.steady
        /\ b.step = "rows" /\ b.total = Len(r)
    BY <1>1, <1>3, <2>1 DEF WallAsk
  <2>3. ReadsOn(a, b)
    BY <1>2, <1>4, <2>1, <2>2 DEF CountRows, ReadsOn
  <2> QED
    BY <1>2, <2>2, <2>3, ReadingOn
<1>5. CASE SelectRows(a)
  <2>1. PICK page : page = PageOf(r, a.offset)
    OBVIOUS
  <2>2. page \in Seq(Series)
    BY <1>1, <1>3, <2>1, PageIs
  <2>3. PICK b : b = [a EXCEPT !.step = "covers", !.items = page]
    OBVIOUS
  <2>4. /\ b \in WallAsk /\ b.generation = a.generation /\ b.query = a.query
        /\ b.reset = a.reset /\ b.offset = a.offset /\ b.steady = a.steady
        /\ b.step = "covers" /\ b.items = page /\ b.total = a.total
    BY <1>1, <2>2, <2>3 DEF WallAsk
  <2>5. ReadsOn(a, b)
    BY <1>2, <1>5, <2>1, <2>3, <2>4 DEF SelectRows, ReadsOn
  <2>6. a.step = "rows" /\ (a.steady => a.total = Len(r))
    BY <1>2, <1>5 DEF SelectRows, ShelfInv, AsksRead
  <2> QED
    BY <1>2, <2>1, <2>4, <2>5, <2>6, ReadingOn
<1> QED
  BY <1>4, <1>5

\* A load ends; of the wall it says only what a current one may.
Finishes(a) ==
    /\ a \in asks /\ asks' = asks \ {a}
    /\ mirror' = mirror /\ debounce' = debounce /\ syncs' = syncs
    /\ wall' \in Wall /\ wall'.generation = wall.generation /\ wall'.query = wall.query
    /\ IF a.generation = wall.generation
       THEN wall'.resetting = FALSE /\ wall'.loadingMore = FALSE
       ELSE wall' = wall

LEMMA LoadEnds ==
    ASSUME ShelfInv, NEW a, Finishes(a), WallIsAPrefix'
    PROVE  ShelfInv'
<1>1. ShelfTyped'
  BY DEF Finishes, ShelfInv, ShelfTyped
<1>2. a \in asks /\ asks' = asks \ {a} /\ debounce' = debounce
  BY DEF Finishes
<1>3. \A q : Result(q)' = Result(q)
  BY DEF Finishes, Result
<1>4. AsksRead'
  BY <1>2, <1>3 DEF ShelfInv, AsksRead
<1>5. CASE a.generation = wall.generation
  <2>1. /\ wall'.generation = wall.generation /\ wall'.query = wall.query
        /\ wall'.resetting = FALSE /\ wall'.loadingMore = FALSE
    BY <1>5 DEF Finishes
  <2>2. \A b \in asks' : b.generation # wall.generation
    BY <1>2, <1>5 DEF ShelfInv, OneLoad, CurrentWall
  <2>3. debounce # wall.generation
    BY <1>2, <1>5 DEF ShelfInv, OneLoad, CurrentWall
  <2>4. AsksStand'
    BY <1>2, <2>1, <2>2 DEF ShelfInv, AsksStand, CurrentWall
  <2>5. OneLoad'
    BY <1>2, <2>1, <2>2, <2>3 DEF OneLoad, CurrentWall
  <2> QED
    BY <1>1, <1>4, <2>4, <2>5 DEF ShelfInv
<1>6. CASE a.generation # wall.generation
  <2>1. wall' = wall
    BY <1>6 DEF Finishes
  <2>2. AsksStand'
    BY <1>2, <2>1 DEF ShelfInv, AsksStand, CurrentWall
  <2>3. OneLoad'
    BY <1>2, <1>6, <2>1 DEF ShelfInv, OneLoad, CurrentWall
  <2> QED
    BY <1>1, <1>4, <2>2, <2>3 DEF ShelfInv
<1> QED
  BY <1>5, <1>6

LEMMA AnswerLands ==
    ASSUME ShelfInv, NEW a \in asks, WallLands(a)
    PROVE  ShelfInv'
<1>1. /\ wall \in Wall /\ a \in WallAsk /\ a.items \in Seq(Series) /\ a.total \in Nat
      /\ a.steady \in BOOLEAN /\ a.reset \in BOOLEAN /\ wall.query \in Query
      /\ wall.shown \in Seq(Series) /\ wall.steady \in BOOLEAN
  BY DEF ShelfInv, ShelfTyped, WallAsk, Wall
<1>2. mirror' = mirror /\ asks' = asks \ {a} /\ debounce' = debounce /\ syncs' = syncs
  BY DEF WallLands
<1>3. \A q : Result(q)' = Result(q)
  BY <1>2 DEF Result
<1>4. CASE a.generation # wall.generation
  <2>1. wall' = wall
    BY <1>4 DEF WallLands, Settled, CurrentWall
  <2>2. Finishes(a)
    BY <1>1, <1>2, <1>4, <2>1 DEF Finishes
  <2>3. WallIsAPrefix'
    BY <1>3, <2>1 DEF ShelfInv, WallIsAPrefix
  <2> QED
    BY <2>2, <2>3, LoadEnds
<1>5. CASE a.generation = wall.generation
  <2>1. PICK r : r = Result(wall.query)
    OBVIOUS
  <2>2. r \in Seq(Series) /\ Len(r) \in Nat
    BY <1>1, <2>1, ResultTyped
  <2>3. /\ a.query = wall.query
        /\ a.reset => a.offset = 0
        /\ ~a.reset => a.offset = Len(wall.shown)
    BY <1>5 DEF ShelfInv, AsksStand, CurrentWall
  <2>4. a.steady => a.total = Len(r) /\ a.items = PageOf(r, a.offset)
    BY <2>1, <2>3 DEF ShelfInv, AsksRead, WallLands
  <2>5. PICK more : more = wall.shown \o a.items
    OBVIOUS
  <2>6. more \in Seq(Series)
    BY <1>1, <2>5
  <2>7. PICK shown : shown = IF a.reset THEN a.items ELSE more
    OBVIOUS
  <2>8. shown \in Seq(Series)
    BY <1>1, <2>6, <2>7
  <2>9. PICK steady : steady = (a.steady /\ (a.reset \/ wall.steady))
    OBVIOUS
  <2>10. steady \in BOOLEAN
    BY <2>9
  <2>11. wall' = [wall EXCEPT !.shown = shown, !.total = a.total, !.error = FALSE,
                              !.steady = steady, !.resetting = FALSE, !.loadingMore = FALSE]
    BY <1>1, <1>5, <2>5, <2>7, <2>9 DEF WallLands, Settled, CurrentWall, Wall
  <2>12. /\ wall' \in Wall /\ wall'.generation = wall.generation /\ wall'.query = wall.query
         /\ wall'.resetting = FALSE /\ wall'.loadingMore = FALSE
         /\ wall'.shown = shown /\ wall'.total = a.total /\ wall'.steady = steady
    BY <1>1, <2>8, <2>10, <2>11 DEF Wall
  <2>13. Finishes(a)
    BY <1>2, <1>5, <2>12 DEF Finishes
  <2>14. ASSUME steady
         PROVE  /\ IsPrefix(shown, r)
                /\ a.total = Len(r)
                /\ Len(r) > 0 => shown # <<>>
    <3>1. a.steady /\ (a.reset \/ wall.steady)
      BY <2>9, <2>14
    <3>2. a.total = Len(r) /\ a.items = PageOf(r, a.offset)
      BY <2>4, <3>1
    <3>3. CASE a.reset
      <4>1. shown = PageOf(r, 0)
        BY <2>3, <2>7, <3>2, <3>3
      <4>2. <<>> \in Seq(Series) /\ Len(<<>>) = 0 /\ IsPrefix(<<>>, r)
        BY <2>2, EmptyIsPrefix
      <4>3. /\ IsPrefix(<<>> \o PageOf(r, 0), r)
            /\ Len(r) > 0 => <<>> \o PageOf(r, 0) # <<>>
        BY <2>2, <4>2, PageJoins
      <4>4. <<>> \o shown = shown
        BY <2>8
      <4> QED
        BY <3>2, <4>1, <4>3, <4>4
    <3>4. CASE ~a.reset
      <4>1. IsPrefix(wall.shown, r)
        BY <2>1, <3>1, <3>4 DEF ShelfInv, WallIsAPrefix
      <4>2. shown = wall.shown \o PageOf(r, Len(wall.shown))
        BY <2>3, <2>5, <2>7, <3>2, <3>4
      <4> QED
        BY <1>1, <2>2, <3>2, <4>1, <4>2, PageJoins
    <3> QED
      BY <3>3, <3>4
  <2>15. WallIsAPrefix'
    BY <1>3, <2>1, <2>12, <2>14 DEF WallIsAPrefix
  <2> QED
    BY <2>13, <2>15, LoadEnds
<1> QED
  BY <1>4, <1>5

LEMMA ReadFails ==
    ASSUME ShelfInv, NEW a \in asks, WallFails(a)
    PROVE  ShelfInv'
<1>1. wall \in Wall /\ a.reset \in BOOLEAN /\ wall.resetting \in BOOLEAN
  BY DEF ShelfInv, ShelfTyped, WallAsk, Wall
<1>2. mirror' = mirror /\ asks' = asks \ {a} /\ debounce' = debounce /\ syncs' = syncs
  BY DEF WallFails
<1>3. \A q : Result(q)' = Result(q)
  BY <1>2 DEF Result
<1>4. CASE a.generation # wall.generation
  <2>1. wall' = wall
    BY <1>4 DEF WallFails, Settled, CurrentWall
  <2>2. Finishes(a)
    BY <1>1, <1>2, <1>4, <2>1 DEF Finishes
  <2>3. WallIsAPrefix'
    BY <1>3, <2>1 DEF ShelfInv, WallIsAPrefix
  <2> QED
    BY <2>2, <2>3, LoadEnds
<1>5. CASE a.generation = wall.generation
  <2>1. PICK w : w = IF a.reset THEN [wall EXCEPT !.error = TRUE]
                                ELSE [wall EXCEPT !.appendError = TRUE]
    OBVIOUS
  <2>2. /\ w \in Wall /\ w.generation = wall.generation /\ w.query = wall.query
        /\ w.shown = wall.shown /\ w.total = wall.total /\ w.steady = wall.steady
        /\ ~a.reset => w.error = wall.error
        /\ a.reset => w.error
    BY <1>1, <2>1 DEF Wall
  <2>3. wall' = [w EXCEPT !.resetting = FALSE, !.loadingMore = FALSE]
    BY <1>5, <2>1 DEF WallFails, Settled, CurrentWall
  <2>4. /\ wall' \in Wall /\ wall'.generation = wall.generation /\ wall'.query = wall.query
        /\ wall'.resetting = FALSE /\ wall'.loadingMore = FALSE
        /\ wall'.shown = wall.shown /\ wall'.total = wall.total /\ wall'.steady = wall.steady
        /\ ~a.reset => wall'.error = wall.error
        /\ a.reset => wall'.error
    BY <2>2, <2>3 DEF Wall
  <2>5. Finishes(a)
    BY <1>2, <1>5, <2>4 DEF Finishes
  <2>6. ~a.reset => ~wall.resetting
    BY <1>5 DEF ShelfInv, OneLoad, CurrentWall
  <2>7. WallIsAPrefix'
    BY <1>3, <2>4, <2>6 DEF ShelfInv, WallIsAPrefix
  <2> QED
    BY <2>5, <2>7, LoadEnds
<1> QED
  BY <1>4, <1>5

\* What a sync leaves of a load: the same load, steady only before its first read.
Shaken(a) == [a EXCEPT !.steady = a.steady /\ a.step = "count"]

LEMMA ShakenIs ==
    ASSUME NEW a \in WallAsk
    PROVE  /\ Shaken(a) \in WallAsk
           /\ Shaken(a).generation = a.generation /\ Shaken(a).query = a.query
           /\ Shaken(a).reset = a.reset /\ Shaken(a).offset = a.offset
           /\ Shaken(a).step = a.step
           /\ Shaken(a).steady = (a.steady /\ a.step = "count")
BY DEF Shaken, WallAsk

\* A sync may change what any query finds, and says so to whoever has read.
LEMMA MirrorMoves ==
    ASSUME ShelfInv, SyncWrites
    PROVE  ShelfInv'
<1>1. wall \in Wall /\ asks \subseteq WallAsk /\ mirror \subseteq Series /\ syncs \in Nat
  BY DEF ShelfInv, ShelfTyped
<1>2. debounce' = debounce /\ syncs' = syncs + 1 /\ mirror' \subseteq Series
  BY <1>1 DEF SyncWrites
<1>3. PICK steady \in BOOLEAN : steady = (wall.shown = <<>> /\ wall.resetting)
  BY <1>1 DEF Wall
<1>4. wall' = [wall EXCEPT !.steady = steady]
  BY <1>3 DEF SyncWrites
<1>5. /\ wall' \in Wall /\ wall'.generation = wall.generation /\ wall'.query = wall.query
      /\ wall'.shown = wall.shown /\ wall'.total = wall.total /\ wall'.error = wall.error
      /\ wall'.resetting = wall.resetting /\ wall'.loadingMore = wall.loadingMore
      /\ wall'.steady = steady
  BY <1>1, <1>4 DEF Wall
<1>6. asks' = {Shaken(a) : a \in asks}
  BY DEF SyncWrites, Shaken
<1>7. \A b \in asks' : \E a \in asks : b = Shaken(a)
  BY <1>6
<1>8. \A a \in asks : Shaken(a) \in asks'
  BY <1>6
<1>9. \A a \in asks :
        /\ Shaken(a) \in WallAsk
        /\ Shaken(a).generation = a.generation /\ Shaken(a).query = a.query
        /\ Shaken(a).reset = a.reset /\ Shaken(a).offset = a.offset
        /\ Shaken(a).step = a.step
        /\ Shaken(a).steady => a.step = "count"
  BY <1>1, ShakenIs
<1>10. ShelfTyped'
  BY <1>1, <1>2, <1>5, <1>7, <1>9 DEF ShelfInv, ShelfTyped
<1>11. AsksStand'
  <2>1. ASSUME NEW b \in asks'
        PROVE  /\ b.generation <= wall'.generation
               /\ b.reset => b.offset = 0
               /\ b.generation = wall'.generation =>
                     /\ b.query = wall'.query
                     /\ ~b.reset => b.offset = Len(wall'.shown)
    <3>1. PICK a \in asks : b = Shaken(a)
      BY <1>7, <2>1
    <3> QED
      BY <1>5, <1>9, <3>1 DEF ShelfInv, AsksStand, CurrentWall
  <2> QED
    BY <1>2, <1>5, <2>1 DEF ShelfInv, AsksStand, CurrentWall
<1>12. OneLoad'
  <2>1. ASSUME NEW b \in asks', NEW c \in asks',
               b.generation = wall.generation, c.generation = wall.generation
        PROVE  b = c
    <3>1. PICK x \in asks : b = Shaken(x)
      BY <1>7
    <3>2. PICK y \in asks : c = Shaken(y)
      BY <1>7
    <3>3. x = y
      BY <1>9, <2>1, <3>1, <3>2 DEF ShelfInv, OneLoad, CurrentWall
    <3> QED
      BY <3>1, <3>2, <3>3
  <2>2. ASSUME debounce = wall.generation, NEW b \in asks' PROVE b.generation # wall.generation
    BY <1>7, <1>9, <2>2 DEF ShelfInv, OneLoad, CurrentWall
  <2>3. (\E b \in asks' : b.generation = wall.generation /\ ~b.reset)
          <=> (\E b \in asks : b.generation = wall.generation /\ ~b.reset)
    BY <1>7, <1>8, <1>9
  <2>4. (\E b \in asks' : b.generation = wall.generation /\ b.reset)
          <=> (\E b \in asks : b.generation = wall.generation /\ b.reset)
    BY <1>7, <1>8, <1>9
  <2> QED
    BY <1>2, <1>5, <2>1, <2>2, <2>3, <2>4 DEF ShelfInv, OneLoad, CurrentWall
<1>13. AsksRead'
  <2>1. \A b \in asks' : b.steady => b.step = "count"
    BY <1>7, <1>9
  <2> QED
    BY <2>1 DEF AsksRead
<1>14. WallIsAPrefix'
  <2>1. PICK query \in Query : query = wall.query
    BY <1>1 DEF Wall
  <2>2. Result(query)' = Sift(Matches[query], mirror')
    BY DEF Result
  <2>3. Matches[query] \in Seq(Series)
    BY ShelfAssumption
  <2>4. IsPrefix(<<>>, Result(query)')
    BY <2>2, <2>3, SiftKeeps, EmptyIsPrefix
  <2>5. steady => wall'.shown = <<>> /\ wall'.resetting
    BY <1>3, <1>5
  <2> QED
    BY <1>5, <2>1, <2>4, <2>5 DEF WallIsAPrefix, Result
<1> QED
  BY <1>10, <1>11, <1>12, <1>13, <1>14 DEF ShelfInv

LEMMA ShelfBegins ==
    ASSUME ShelfInit
    PROVE  ShelfInv
<1>1. PICK query \in Query :
          wall = [query |-> query, generation |-> 1, resetting |-> TRUE,
                  loadingMore |-> FALSE, error |-> FALSE, appendError |-> FALSE,
                  shown |-> <<>>, total |-> 0, steady |-> TRUE]
  BY DEF ShelfInit
<1>2. MaxResets \in Nat /\ 1 \in 1 .. MaxResets /\ 0 \in 0 .. MaxResets /\ <<>> \in Seq(Series)
  BY ShelfAssumption
<1>3. /\ wall \in Wall /\ wall.generation = 1 /\ wall.query = query /\ wall.shown = <<>>
      /\ wall.resetting = TRUE /\ wall.loadingMore = FALSE
  BY <1>1, <1>2 DEF Wall
<1>4. PICK new : new = NewAsk(wall, TRUE)
  OBVIOUS
<1>5. /\ new \in WallAsk /\ new.generation = 1 /\ new.query = query /\ new.reset = TRUE
      /\ new.offset = 0 /\ new.step = "count"
  BY <1>2, <1>3, <1>4, NewAskIs
<1>6. asks = {new} /\ debounce = 0 /\ syncs = 0 /\ mirror \subseteq Series
  BY <1>4 DEF ShelfInit
<1>7. ShelfTyped
  BY <1>2, <1>3, <1>5, <1>6 DEF ShelfTyped
<1>8. AsksStand
  BY <1>3, <1>5, <1>6 DEF AsksStand, CurrentWall
<1>9. OneLoad
  BY <1>3, <1>5, <1>6 DEF OneLoad, CurrentWall
<1>10. AsksRead
  BY <1>5, <1>6 DEF AsksRead
<1>11. WallIsAPrefix
  BY <1>3, EmptyIsPrefix, ResultTyped DEF WallIsAPrefix
<1> QED
  BY <1>7, <1>8, <1>9, <1>10, <1>11 DEF ShelfInv

LEMMA ShelfGoesOn ==
    ASSUME ShelfInv, [ShelfNext]_svars
    PROVE  ShelfInv'
<1>1. CASE LoadWall \/ SearchChanged \/ SearchPaused \/ ServerChanged
  BY <1>1, LoadStarts
<1>2. CASE LoadMore
  BY <1>2, MoreIsAsked
<1>3. CASE SyncWrites
  BY <1>3, MirrorMoves
<1>4. ASSUME NEW a \in asks, CountRows(a) \/ SelectRows(a) PROVE ShelfInv'
  BY <1>4, RowsAreRead
<1>5. ASSUME NEW a \in asks, WallLands(a) PROVE ShelfInv'
  BY <1>5, AnswerLands
<1>6. ASSUME NEW a \in asks, WallFails(a) PROVE ShelfInv'
  BY <1>6, ReadFails
<1>7. CASE UNCHANGED svars
  <2>1. /\ mirror' = mirror /\ wall' = wall /\ debounce' = debounce /\ asks' = asks
        /\ syncs' = syncs
    BY <1>7 DEF svars
  <2>2. \A q : Result(q)' = Result(q)
    BY <2>1 DEF Result
  <2> QED
    BY <2>1, <2>2 DEF ShelfInv, ShelfTyped, AsksStand, OneLoad, AsksRead, WallIsAPrefix,
                      CurrentWall
<1> QED
  BY <1>1, <1>2, <1>3, <1>4, <1>5, <1>6, <1>7 DEF ShelfNext

LEMMA WallInv == ShelfSpec => []ShelfInv
<1>1. ShelfInit => ShelfInv
  BY ShelfBegins
<1>2. ShelfInv /\ [ShelfNext]_svars => ShelfInv'
  BY ShelfGoesOn
<1> QED
  BY <1>1, <1>2, PTL DEF ShelfSpec

\* The type invariant of the wall, the loads of it and the search timer
\* (series_grid.dart).
THEOREM ShelfTypes == ShelfSpec => []ShelfTypeOK
<1>1. ShelfInv => ShelfTypeOK
  BY DEF ShelfInv, ShelfTyped, ShelfTypeOK, Wall
<1> QED
  BY <1>1, WallInv, PTL

\* Whatever is typed, chosen, scrolled and refreshed in whatever order, and
\* whichever load fails: while no sync came between, the wall is the beginning of
\* what it stands for, it says how many there are, and it says that it is loading
\* exactly while one load of its present state is under way.
THEOREM WallStaysHonest == ShelfSpec => []WallIsHonest
<1>1. ShelfInv => WallIsHonest
  <2>1. SUFFICES ASSUME ShelfInv PROVE SpinnerIsAnswered
    BY DEF ShelfInv, WallIsHonest
  <2> DEFINE current == {a \in asks : CurrentWall(a.generation)}
  <2>2. \A a, b \in current : a = b
    BY <2>1 DEF ShelfInv, OneLoad
  <2>3. Cardinality(current) <= 1
    <3>1. CASE current = {}
      BY <3>1, FS_EmptySet
    <3>2. CASE current # {}
      <4>1. PICK a : a \in current
        BY <3>2
      <4> HIDE DEF current
      <4>2. current = {a}
        BY <2>2, <4>1
      <4> QED
        BY <4>2, FS_Singleton
    <3> QED
      BY <3>1, <3>2
  <2>4. /\ wall.loadingMore <=> \E a \in current : ~a.reset
        /\ wall.resetting <=> (\E a \in current : a.reset) \/ CurrentWall(debounce)
    BY <2>1 DEF ShelfInv, OneLoad
  <2> QED
    BY <2>3, <2>4 DEF SpinnerIsAnswered
<1> QED
  BY <1>1, WallInv, PTL

-------------------------------------------------------------------------------
(* The reader's window                                                       *)

\* Told of the outage, the core plans nothing; what was under way has sent its
\* one request, or has none left to send.
WindowInv ==
    /\ "queue" \in DOMAIN warming /\ "on" \in DOMAIN warming
    /\ wasted \in {0, 1}
    /\ window.network = "offline" => window.cap = 0 /\ window.inFlight = 0
    /\ wasted = 1 => window.network = "offline" /\ warming.queue = <<>>

LEMMA NothingQueued ==
    ASSUME NEW spreads, NEW center, NEW w, NEW cached, w.cap = 0
    PROVE  PrefetchQueue(spreads, center, w, cached) = <<>>
<1>1. \A s : Truncated(s, 0) = <<>>
  BY DEF Truncated
<1> QED
  BY <1>1 DEF PrefetchQueue

LEMMA WarmsNothing ==
    ASSUME NEW mode, NEW center, NEW w, w.cap = 0, w.inFlight = 0, Warm(mode, center, w),
           "queue" \in DOMAIN warming, "on" \in DOMAIN warming
    PROVE  /\ "queue" \in DOMAIN warming' /\ "on" \in DOMAIN warming'
           /\ warming.queue = <<>> => warming'.queue = <<>>
<1>1. CASE warming.on
  BY <1>1 DEF Warm
<1>2. CASE ~warming.on
  <2>1. PICK queue : queue = PrefetchQueue(Spreads(mode), center, w, warm)
    OBVIOUS
  <2>2. queue = <<>>
    BY <2>1, NothingQueued
  <2>3. \A n : Truncated(<<>>, n) = <<>>
    BY DEF Truncated
  <2>4. warming' = [on |-> TRUE, got |-> {}, queue |-> Truncated(queue, Most(1, w.inFlight))]
    BY <1>2, <2>1 DEF Warm
  <2> QED
    BY <2>2, <2>3, <2>4
<1> QED
  BY <1>1, <1>2

LEMMA WarmsAny ==
    ASSUME NEW mode, NEW center, NEW w, Warm(mode, center, w),
           "queue" \in DOMAIN warming, "on" \in DOMAIN warming
    PROVE  "queue" \in DOMAIN warming' /\ "on" \in DOMAIN warming'
<1>1. CASE warming.on
  BY <1>1 DEF Warm
<1>2. CASE ~warming.on
  <2>1. PICK queue : warming' = [on |-> TRUE, got |-> {}, queue |-> queue]
    BY <1>2 DEF Warm
  <2> QED
    BY <2>1
<1> QED
  BY <1>1, <1>2

LEMMA OfflinePlan ==
    ASSUME NEW r, r.network = "offline"
    PROVE  Plan(r).cap = 0 /\ Plan(r).inFlight = 0
<1>1. Width(layout) \in {1, 2}
  BY DEF Width
<1>2. PICK width \in {1, 2} : width = Width(layout)
  BY <1>1
<1>3. PICK shaped : shaped = Shaped(machine, layout, width)
  OBVIOUS
<1>4. Linked(shaped, "offline", width) = [forward |-> 0, back |-> 0, cap |-> 0, inFlight |-> 0]
  BY DEF Linked
<1>5. PICK w : w = WindowPlan(machine, layout, width, "offline", r.stable)
  OBVIOUS
<1>6. w.cap = 0 /\ w.inFlight = 0
  BY <1>3, <1>4, <1>5 DEF WindowPlan, Steadied, Least
<1> QED
  BY <1>2, <1>5, <1>6 DEF Plan

LEMMA PlanSays ==
    ASSUME NEW r
    PROVE  Plan(r).network = r.network
BY DEF Plan

LEMMA WindowGoesOn ==
    ASSUME WindowInv, [WindowNext]_wvars
    PROVE  WindowInv'
<1> USE DEF WindowInv
<1>1. ASSUME NEW r \in reports, ReportLands(r) PROVE WindowInv'
  <2>1. PICK set \in BOOLEAN : window' = IF set THEN Plan(r) ELSE window
    BY <1>1 DEF ReportLands
  <2>2. window'.network = "offline" => window'.cap = 0 /\ window'.inFlight = 0
    BY <2>1, OfflinePlan, PlanSays
  <2>3. wasted' = IF window'.network = "offline" THEN wasted ELSE 0
    BY <1>1 DEF ReportLands
  <2>4. PICK w : w = window'
    OBVIOUS
  <2>5. Warm(layout, spread, w) \/ warming' = warming
    BY <1>1, <2>4 DEF ReportLands
  <2>6. "queue" \in DOMAIN warming' /\ "on" \in DOMAIN warming'
    BY <2>5, WarmsAny
  <2>7. CASE wasted = 0
    BY <2>2, <2>3, <2>6, <2>7
  <2>8. CASE wasted = 1 /\ window'.network = "offline"
    <3>1. warming'.queue = <<>>
      BY <2>2, <2>4, <2>5, <2>8, WarmsNothing
    <3> QED
      BY <2>2, <2>3, <2>6, <2>8, <3>1
  <2>9. CASE window'.network # "offline"
    BY <2>3, <2>6, <2>9
  <2> QED
    BY <2>7, <2>8, <2>9
<1>2. CASE WarmFetch
  <2>1. window' = window /\ warming.on /\ warming.queue # <<>> /\ wasted = 0
    BY <1>2 DEF WarmFetch
  <2>2. CASE radio = "down"
    <3>1. /\ warming' = [warming EXCEPT !.queue = <<>>]
          /\ wasted' = IF window.network = "offline" THEN Least(2, wasted + 1) ELSE 0
      BY <1>2, <2>2 DEF WarmFetch
    <3>2. Least(2, wasted + 1) = 1
      BY <2>1 DEF Least
    <3> QED
      BY <2>1, <3>1, <3>2
  <2>3. CASE radio # "down"
    BY <1>2, <2>1, <2>3 DEF WarmFetch
  <2> QED
    BY <2>2, <2>3
<1>3. CASE WarmEnd \/ WarmAborts
  BY <1>3 DEF WarmEnd, WarmAborts, NotWarming
<1>4. ASSUME NEW mode, NEW center, Warm(mode, center, window), window' = window, wasted' = wasted
      PROVE  WindowInv'
  <2>1. CASE window.network = "offline"
    BY <1>4, <2>1, WarmsNothing
  <2>2. CASE window.network # "offline"
    BY <1>4, <2>2, WarmsAny
  <2> QED
    BY <2>1, <2>2
<1>5. ASSUME NEW to \in 1 .. PageCount, Turn(to) PROVE WindowInv'
  BY <1>4, <1>5 DEF Turn
<1>6. ASSUME NEW mode \in Layouts, Relayout(mode) PROVE WindowInv'
  <2>1. PICK to : to = spread'
    OBVIOUS
  <2>2. Warm(mode, to, window)
    BY <1>6, <2>1 DEF Relayout
  <2> QED
    BY <1>4, <1>6, <2>2 DEF Relayout
<1>7. ASSUME window' = window /\ warming' = warming /\ wasted' = wasted
      PROVE  WindowInv'
  BY <1>7
<1>8. ASSUME NEW p \in 1 .. PageCount, Show(p) \/ ShowFails(p) PROVE WindowInv'
  BY <1>7, <1>8 DEF Show, ShowFails
<1>9. CASE Settle \/ Resume \/ Pressure
  BY <1>7, <1>9 DEF Settle, Resume, Pressure
<1>10. ASSUME NEW to \in Radios, RadioChanges(to) PROVE WindowInv'
  BY <1>7, <1>10 DEF RadioChanges
<1>11. CASE UNCHANGED wvars
  BY <1>7, <1>11 DEF wvars
<1> USE DEF WindowNext
<1> HIDE DEF WindowInv
<1> QED
  BY <1>1, <1>2, <1>3, <1>5, <1>6, <1>8, <1>9, <1>10, <1>11

\* Whatever the reader does and whenever its reports land: between the moment the
\* core has been told of an outage and the moment it is told of its end, passes
\* send at most one request (reader/prefetch.rs, reader_configure_device).
THEOREM OutageStaysCheap == WindowSpec => []OutageCostsOneRequest
<1>1. WindowInit => WindowInv
  BY DEF WindowInit, WindowInv, NoWindow, NotWarming, DefaultWindow
<1>2. WindowInv /\ [WindowNext]_wvars => WindowInv'
  BY WindowGoesOn
<1>3. WindowInv => OutageCostsOneRequest
  BY DEF WindowInv, OutageCostsOneRequest
<1> QED
  BY <1>1, <1>2, <1>3, PTL DEF WindowSpec

-------------------------------------------------------------------------------
(* The reader's window: what a plan may say                                  *)

LEMMA Divides ==
    ASSUME NEW a \in Nat, NEW c \in Nat \ {0}
    PROVE  a \div c \in Nat /\ (a \div c) * c <= a
<1>1. PICK q : q = a \div c
  OBVIOUS
<1>2. PICK r : r = a % c
  OBVIOUS
<1>3. q \in Nat /\ r \in Nat /\ a = q * c + r
  BY <1>1, <1>2
<1>4. PICK n : n = q * c
  OBVIOUS
<1>5. n \in Nat
  BY <1>3, <1>4
<1> QED
  BY <1>1, <1>3, <1>4, <1>5

\* A window that fits a device: room for the spread on screen and no more than
\* the ceiling.
Fitting(w, m, width) ==
    /\ w \in [forward : 1 .. 8, back : 0 .. 4, cap : Nat, inFlight : 1 .. 4]
    /\ width <= w.cap /\ w.cap <= Ceiling(m, width)

LEMMA TierIs ==
    ASSUME NEW m \in Machine
    PROVE  MemoryTier(m) \in Nat /\ PageCost(m) \in Nat \ {0}
<1>1. m.memory \in Nat /\ m.page \in Nat
  BY DEF Machine
<1>2. m.memory \div 8 \in Nat
  BY <1>1, Divides
<1> QED
  BY <1>1, <1>2 DEF MemoryTier, PageCost, Clamped, Least, Most

LEMMA CeilingIs ==
    ASSUME NEW m \in Machine, NEW width \in {1, 2}
    PROVE  Ceiling(m, width) \in Nat /\ width <= Ceiling(m, width)
<1>1. PICK tier : tier = MemoryTier(m)
  OBVIOUS
<1>2. PICK cost : cost = PageCost(m)
  OBVIOUS
<1>3. tier \in Nat /\ cost \in Nat \ {0}
  BY <1>1, <1>2, TierIs
<1>4. PICK a : a = (2 * tier) \div cost
  OBVIOUS
<1>5. Pool \div 2 \in Nat
  BY Divides DEF Pool
<1>6. PICK b : b = (Pool \div 2) \div cost
  OBVIOUS
<1>7. a \in Nat /\ b \in Nat
  BY <1>3, <1>4, <1>5, <1>6, Divides
<1>8. Ceiling(m, width) = Least(Most(width, a), Most(width, b))
  BY <1>1, <1>2, <1>4, <1>6 DEF Ceiling
<1> QED
  BY <1>7, <1>8 DEF Least, Most

LEMMA ShapedFits ==
    ASSUME NEW m \in Machine, NEW mode, NEW width \in {1, 2}
    PROVE  Fitting(Shaped(m, mode, width), m, width)
<1>1. PICK share : share = MemoryTier(m) \div PageCost(m)
  OBVIOUS
<1>2. share \in Nat
  BY <1>1, TierIs, Divides
<1>3. PICK fit : fit = Most(1, share)
  OBVIOUS
<1>4. fit \in Nat /\ fit \div 4 \in Nat
  <2>1. fit \in Nat
    BY <1>2, <1>3 DEF Most
  <2> QED
    BY <2>1, Divides
<1>5. PICK look : look = Most(1, fit \div 4)
  OBVIOUS
<1>6. look \in Nat /\ look \div width \in Nat
  <2>1. look \in Nat
    BY <1>4, <1>5 DEF Most
  <2> QED
    BY <2>1, Divides
<1>7. PICK ahead : ahead = Clamped(look \div width, 1, 8)
  OBVIOUS
<1>8. ahead \in 1 .. 8 /\ ahead \div 2 \in Nat
  <2>1. ahead \in 1 .. 8
    BY <1>6, <1>7 DEF Clamped, Least, Most
  <2> QED
    BY <2>1, Divides
<1>9. PICK behind : behind = Clamped(ahead \div 2, 1, 4)
  OBVIOUS
<1>10. behind \in 1 .. 4
  BY <1>8, <1>9 DEF Clamped, Least, Most
<1>11. PICK forward : forward = IF mode = "webtoon" THEN Clamped(2 * ahead, 1, 8) ELSE ahead
  OBVIOUS
<1>12. PICK back : back = IF mode = "webtoon" THEN Least(behind, 1) ELSE behind
  OBVIOUS
<1>13. forward \in 1 .. 8 /\ back \in 1 .. 4
  BY <1>8, <1>10, <1>11, <1>12 DEF Clamped, Least, Most
<1>14. PICK ceiling : ceiling = Ceiling(m, width)
  OBVIOUS
<1>15. ceiling \in Nat /\ width <= ceiling
  BY <1>14, CeilingIs
<1>16. PICK cap : cap = Least((1 + forward + back) * width, ceiling)
  OBVIOUS
<1>17. cap \in Nat /\ width <= cap /\ cap <= ceiling
  <2>1. PICK all : all = (1 + forward + back) * width
    OBVIOUS
  <2>2. all \in Nat /\ width <= all
    BY <1>13, <2>1
  <2> QED
    BY <1>15, <1>16, <2>1, <2>2 DEF Least
<1>18. Shaped(m, mode, width) =
          [forward |-> forward, back |-> back, cap |-> cap, inFlight |-> Least(cap, 4)]
  BY <1>1, <1>3, <1>5, <1>7, <1>9, <1>11, <1>12, <1>14, <1>16 DEF Shaped
<1>19. Least(cap, 4) \in 1 .. 4
  BY <1>17 DEF Least
<1> QED
  BY <1>13, <1>14, <1>17, <1>18, <1>19 DEF Fitting

\* A link, unless there is none, only takes from a window, and leaves the spread.
LEMMA LinkedFits ==
    ASSUME NEW m \in Machine, NEW width \in {1, 2}, NEW w, Fitting(w, m, width),
           NEW network \in Link \ {"offline"}
    PROVE  /\ Fitting(Linked(w, network, width), m, width)
           /\ Linked(w, network, width).cap <= w.cap
           /\ Linked(w, network, width).inFlight <= w.inFlight
<1>1. PICK ceiling : ceiling = Ceiling(m, width)
  OBVIOUS
<1>2. ceiling \in Nat
  BY <1>1, CeilingIs
<1>3. /\ w = [forward |-> w.forward, back |-> w.back, cap |-> w.cap, inFlight |-> w.inFlight]
      /\ w.forward \in 1 .. 8 /\ w.back \in 0 .. 4 /\ w.cap \in Nat /\ w.inFlight \in 1 .. 4
      /\ width <= w.cap /\ w.cap <= ceiling
  BY <1>1 DEF Fitting
<1>4. PICK v : v = Linked(w, network, width)
  OBVIOUS
<1>5. PICK near : near = [w EXCEPT !.forward = Least(@, 2), !.back = Least(@, 1)]
  OBVIOUS
<1>6. /\ near = [forward |-> Least(w.forward, 2), back |-> Least(w.back, 1), cap |-> w.cap,
                 inFlight |-> w.inFlight]
      /\ Least(w.forward, 2) \in 1 .. 8 /\ Least(w.back, 1) \in 0 .. 4
  <2>1. Least(w.forward, 2) \in 1 .. 8 /\ Least(w.back, 1) \in 0 .. 4
    BY <1>3 DEF Least
  <2>2. near = [w EXCEPT !.forward = Least(w.forward, 2), !.back = Least(w.back, 1)]
    BY <1>5
  <2> QED
    BY <1>3, <2>1, <2>2
<1>7. CASE network = "wifi"
  BY <1>1, <1>3, <1>4, <1>7 DEF Linked, Fitting
<1>8. CASE network = "weak"
  <2>1. v = [near EXCEPT !.cap = Least(@, 3), !.inFlight = 1]
    BY <1>4, <1>5, <1>8 DEF Linked
  <2>2. v = [forward |-> Least(w.forward, 2), back |-> Least(w.back, 1),
             cap |-> Least(w.cap, 3), inFlight |-> 1]
    BY <1>6, <2>1
  <2>3. Least(w.cap, 3) \in Nat /\ width <= Least(w.cap, 3) /\ Least(w.cap, 3) <= w.cap
    BY <1>3 DEF Least
  <2> QED
    BY <1>1, <1>2, <1>3, <1>4, <1>6, <2>2, <2>3 DEF Fitting
<1>9. CASE network = "cellular"
  <2>1. PICK half : half = w.cap \div 2
    OBVIOUS
  <2>2. half \in Nat /\ half <= w.cap
    <3>1. half \in Nat /\ half * 2 <= w.cap
      BY <1>3, <2>1, Divides
    <3> QED
      BY <1>3, <3>1
  <2>3. PICK cap : cap = Most(half, Least(width, 2))
    OBVIOUS
  <2>4. cap \in Nat /\ width <= cap /\ cap <= w.cap
    BY <1>3, <2>2, <2>3 DEF Least, Most
  <2>5. v = [w EXCEPT !.cap = cap, !.inFlight = Least(@, 2)]
    BY <1>4, <1>9, <2>1, <2>3 DEF Linked
  <2>6. v = [forward |-> w.forward, back |-> w.back, cap |-> cap, inFlight |-> Least(w.inFlight, 2)]
    BY <1>3, <2>5
  <2>7. Least(w.inFlight, 2) \in 1 .. 4 /\ Least(w.inFlight, 2) <= w.inFlight
    BY <1>3 DEF Least
  <2> QED
    BY <1>1, <1>2, <1>3, <1>4, <2>4, <2>6, <2>7 DEF Fitting
<1>10. CASE network = "unknown"
  <2>1. PICK all : all = (1 + near.forward + near.back) * width
    OBVIOUS
  <2>2. all \in Nat /\ width <= all
    BY <1>6, <2>1
  <2>3. PICK cap : cap = Least(w.cap, all)
    OBVIOUS
  <2>4. cap \in Nat /\ width <= cap /\ cap <= w.cap
    BY <1>3, <2>2, <2>3 DEF Least
  <2>5. v = [near EXCEPT !.cap = Least(@, all), !.inFlight = Least(@, 2)]
    BY <1>4, <1>5, <1>10, <2>1 DEF Linked
  <2>6. v = [forward |-> Least(w.forward, 2), back |-> Least(w.back, 1), cap |-> cap,
             inFlight |-> Least(w.inFlight, 2)]
    BY <1>6, <2>3, <2>5
  <2>7. Least(w.inFlight, 2) \in 1 .. 4 /\ Least(w.inFlight, 2) <= w.inFlight
    BY <1>3 DEF Least
  <2> QED
    BY <1>1, <1>2, <1>3, <1>4, <1>6, <2>4, <2>6, <2>7 DEF Fitting
<1> QED
  BY <1>7, <1>8, <1>9, <1>10 DEF Link

\* What a plan is, next to the best one for the device.
Planned(w, best, m, width, network, stable) ==
    /\ w \in [forward : 0 .. 8, back : 0 .. 4, cap : Nat, inFlight : 0 .. 4]
    /\ w.cap <= width \/ (/\ w.cap * PageCost(m) <= 2 * MemoryTier(m)
                          /\ w.cap * PageCost(m) <= Pool \div 2)
    /\ w.cap <= Ceiling(m, width)
    /\ w.cap <= best.cap /\ w.inFlight <= best.inFlight
    /\ ~stable => w.cap <= width /\ w.back = 0 /\ w.forward <= 1
    /\ IF network = "offline" THEN w.cap = 0 /\ w.inFlight = 0
       ELSE width <= w.cap /\ 1 <= w.inFlight /\ 1 <= w.forward

LEMMA PlanIs ==
    ASSUME NEW m \in Machine, NEW mode, NEW width \in {1, 2}, NEW network \in Link,
           NEW stable \in BOOLEAN
    PROVE  Planned(WindowPlan(m, mode, width, network, stable),
                   WindowPlan(m, mode, width, "wifi", TRUE), m, width, network, stable)
<1>1. PICK shaped : shaped = Shaped(m, mode, width)
  OBVIOUS
<1>2. PICK linked : linked = Linked(shaped, network, width)
  OBVIOUS
<1>3. PICK w : w = WindowPlan(m, mode, width, network, stable)
  OBVIOUS
<1>4. w = Steadied(linked, stable, width)
  BY <1>1, <1>2, <1>3 DEF WindowPlan
<1>5. PICK ceiling : ceiling = Ceiling(m, width)
  OBVIOUS
<1>6. ceiling \in Nat /\ width <= ceiling
  BY <1>5, CeilingIs
<1>7. Fitting(shaped, m, width)
  BY <1>1, ShapedFits
<1>8. WindowPlan(m, mode, width, "wifi", TRUE) = shaped
  BY <1>1 DEF WindowPlan, Linked, Steadied
<1>9. /\ shaped.cap \in Nat /\ shaped.inFlight \in 1 .. 4
      /\ width <= shaped.cap /\ shaped.cap <= ceiling
  BY <1>5, <1>7 DEF Fitting
<1>10. /\ linked \in [forward : 0 .. 8, back : 0 .. 4, cap : Nat, inFlight : 0 .. 4]
       /\ linked.cap <= shaped.cap /\ linked.inFlight <= shaped.inFlight
       /\ IF network = "offline" THEN linked.cap = 0 /\ linked.inFlight = 0
          ELSE width <= linked.cap /\ 1 <= linked.inFlight /\ 1 <= linked.forward
  <2>1. CASE network = "offline"
    <3>1. linked = [forward |-> 0, back |-> 0, cap |-> 0, inFlight |-> 0]
      BY <1>2, <2>1 DEF Linked
    <3> QED
      BY <1>9, <2>1, <3>1
  <2>2. CASE network # "offline"
    <3>1. /\ Fitting(linked, m, width)
          /\ linked.cap <= shaped.cap /\ linked.inFlight <= shaped.inFlight
      BY <1>2, <1>7, <2>2, LinkedFits
    <3> QED
      BY <2>2, <3>1 DEF Fitting
  <2> QED
    BY <2>1, <2>2
<1>11. /\ w \in [forward : 0 .. 8, back : 0 .. 4, cap : Nat, inFlight : 0 .. 4]
       /\ w.cap <= linked.cap /\ w.inFlight <= linked.inFlight
       /\ ~stable => w.cap <= width /\ w.back = 0 /\ w.forward <= 1
       /\ IF network = "offline" THEN w.cap = 0 /\ w.inFlight = 0
          ELSE width <= w.cap /\ 1 <= w.inFlight /\ 1 <= w.forward
  <2>1. CASE stable
    BY <1>4, <1>10, <2>1 DEF Steadied
  <2>2. CASE ~stable
    <3>1. w = [forward |-> Least(linked.forward, 1), back |-> 0, cap |-> Least(linked.cap, width),
               inFlight |-> Least(linked.inFlight, width)]
      BY <1>4, <2>2 DEF Steadied
    <3> QED
      BY <1>10, <2>2, <3>1 DEF Least
  <2> QED
    BY <2>1, <2>2
<1>12. w.cap <= shaped.cap /\ w.inFlight <= shaped.inFlight /\ w.cap <= ceiling
  BY <1>6, <1>9, <1>10, <1>11
<1>13. ASSUME ~(w.cap <= width)
       PROVE  w.cap * PageCost(m) <= 2 * MemoryTier(m) /\ w.cap * PageCost(m) <= Pool \div 2
  <2>1. PICK cost : cost = PageCost(m)
    OBVIOUS
  <2>2. PICK tier : tier = 2 * MemoryTier(m)
    OBVIOUS
  <2>3. PICK half : half = Pool \div 2
    OBVIOUS
  <2>4. cost \in Nat \ {0} /\ tier \in Nat /\ half \in Nat
    <3>1. half \in Nat
      BY <2>3, Divides DEF Pool
    <3> QED
      BY <2>1, <2>2, <3>1, TierIs
  <2>5. ceiling = Least(Most(width, tier \div cost), Most(width, half \div cost))
    BY <1>5, <2>1, <2>2, <2>3 DEF Ceiling
  <2>6. ASSUME NEW a \in Nat, w.cap <= Most(width, a \div cost)
        PROVE  w.cap * cost <= a
    <3>1. PICK q : q = a \div cost
      OBVIOUS
    <3>2. q \in Nat /\ q * cost <= a
      BY <2>4, <3>1, Divides
    <3>3. w.cap <= q /\ w.cap \in Nat
      BY <1>11, <1>13, <2>6, <3>1, <3>2 DEF Most
    <3>4. PICK d \in Nat : q = w.cap + d
      <4>1. q - w.cap \in Nat /\ q = w.cap + (q - w.cap)
        BY <3>2, <3>3
      <4> QED
        BY <4>1
    <3>5. w.cap * cost \in Nat /\ d * cost \in Nat
      BY <2>4, <3>3
    <3>6. q * cost = w.cap * cost + d * cost
      BY <2>4, <3>3, <3>4
    <3> QED
      BY <3>2, <3>5, <3>6
  <2>7. tier \div cost \in Nat /\ half \div cost \in Nat
    BY <2>4, Divides
  <2>8. w.cap <= Most(width, tier \div cost) /\ w.cap <= Most(width, half \div cost)
    BY <1>11, <1>12, <2>5, <2>7 DEF Least, Most
  <2> QED
    BY <2>1, <2>2, <2>3, <2>4, <2>6, <2>8
<1> QED
  BY <1>3, <1>5, <1>8, <1>11, <1>12, <1>13 DEF Planned

\* A plan fits the device it is made for, whatever the mode, the link and the motion:
\* as long as there is a link it has room for the spread on screen; beyond that spread
\* its pages take at most twice the memory tier and half the pool; no link widens what
\* the best one would allow; mid-flip it is the spread alone; and offline it asks for
\* nothing (window::plan).
THEOREM PlanFitsTheDevice ==
    ASSUME NEW m \in Machine, NEW mode, NEW width \in {1, 2}, NEW network \in Link,
           NEW stable \in BOOLEAN
    PROVE  LET w == WindowPlan(m, mode, width, network, stable)
               best == WindowPlan(m, mode, width, "wifi", TRUE)
           IN  /\ w \in [forward : 0 .. 8, back : 0 .. 4, cap : Nat, inFlight : 0 .. 4]
               /\ w.cap <= width \/ (/\ w.cap * PageCost(m) <= 2 * MemoryTier(m)
                                     /\ w.cap * PageCost(m) <= Pool \div 2)
               /\ w.cap <= Ceiling(m, width)
               /\ w.cap <= best.cap /\ w.inFlight <= best.inFlight
               /\ ~stable => w.cap <= width /\ w.back = 0 /\ w.forward <= 1
               /\ IF network = "offline" THEN w.cap = 0 /\ w.inFlight = 0
                  ELSE width <= w.cap /\ 1 <= w.inFlight /\ 1 <= w.forward
<1>1. PICK w : w = WindowPlan(m, mode, width, network, stable)
  OBVIOUS
<1>2. PICK best : best = WindowPlan(m, mode, width, "wifi", TRUE)
  OBVIOUS
<1>3. Planned(w, best, m, width, network, stable)
  BY <1>1, <1>2, PlanIs
<1> QED
  BY <1>1, <1>2, <1>3 DEF Planned

-------------------------------------------------------------------------------
(* The reader's window: sequences laid end to end                            *)

\* What a sequence of length a followed by one of length b is.
Follows(all, r, s, a, b) ==
    /\ Len(all) = a + b
    /\ \A m \in 1 .. a : all[m] = r[m]
    /\ \A k \in 1 .. b : all[a + k] = s[k]

LEMMA ConcatFollows ==
    ASSUME NEW T, NEW r \in Seq(T), NEW s \in Seq(T)
    PROVE  r \o s \in Seq(T) /\ Follows(r \o s, r, s, Len(r), Len(s))
<1>1. PICK all : all = r \o s
  OBVIOUS
<1>2. Len(r) \in Nat /\ Len(s) \in Nat /\ all \in Seq(T) /\ Len(all) = Len(r) + Len(s)
  BY <1>1
<1>3. \A m \in 1 .. Len(r) : all[m] = r[m]
  BY <1>1
<1>4. \A k \in 1 .. Len(s) : all[Len(r) + k] = s[k]
  BY <1>1
<1> QED
  BY <1>1, <1>2, <1>3, <1>4 DEF Follows

\* One step of FlattenSeq's recursion.
JoinStep(seqs, f, i) == IF i = 1 THEN seqs[i] ELSE f[i - 1] \o seqs[i]

JoinsTo(f, seqs, n) == f = [i \in 1 .. n |-> JoinStep(seqs, f, i)]

\* row and place say which of the first n sequences each of r is from, and where.
TakenFrom(r, seqs, n, row, place) ==
    /\ row \in [1 .. Len(r) -> 1 .. n] /\ place \in [1 .. Len(r) -> Nat]
    /\ \A m \in 1 .. Len(r) :
          place[m] \in 1 .. Len(seqs[row[m]]) /\ r[m] = seqs[row[m]][place[m]]
    /\ \A l, m \in 1 .. Len(r) :
          l < m => row[l] < row[m] \/ (row[l] = row[m] /\ place[l] < place[m])
    /\ \A i \in 1 .. n : \A k \in 1 .. Len(seqs[i]) :
          \E m \in 1 .. Len(r) : row[m] = i /\ place[m] = k

Joined(r, seqs, n) == \E row, place : TakenFrom(r, seqs, n, row, place)

LEMMA JoinOne ==
    ASSUME NEW T, NEW seqs \in Seq(Seq(T)), NEW n \in Nat, n < Len(seqs),
           NEW r \in Seq(T), Joined(r, seqs, n)
    PROVE  r \o seqs[n + 1] \in Seq(T) /\ Joined(r \o seqs[n + 1], seqs, n + 1)
<1>1. PICK row, place : TakenFrom(r, seqs, n, row, place)
  BY DEF Joined
<1>2. PICK s : s = seqs[n + 1]
  OBVIOUS
<1>3. s \in Seq(T)
  <2>1. Len(seqs) \in Nat /\ n + 1 \in 1 .. Len(seqs)
    OBVIOUS
  <2> QED
    BY <1>2, <2>1
<1>4. PICK a : a = Len(r)
  OBVIOUS
<1>5. PICK b : b = Len(s)
  OBVIOUS
<1>6. PICK all : all = r \o s
  OBVIOUS
<1>7. /\ a \in Nat /\ b \in Nat
      /\ all \in Seq(T) /\ Len(all) = a + b
      /\ \A m \in 1 .. a : all[m] = r[m]
      /\ \A k \in 1 .. b : all[a + k] = s[k]
  BY <1>3, <1>4, <1>5, <1>6
<1>8. \A m \in 1 .. a + b : m \in 1 .. a \/ m - a \in 1 .. b
  BY <1>7
<1>9. PICK newRow : newRow = [m \in 1 .. a + b |-> IF m <= a THEN row[m] ELSE n + 1]
  OBVIOUS
<1>10. PICK newPlace : newPlace = [m \in 1 .. a + b |-> IF m <= a THEN place[m] ELSE m - a]
  OBVIOUS
<1>11. ASSUME NEW m \in 1 .. a
       PROVE  /\ newRow[m] = row[m] /\ newPlace[m] = place[m] /\ all[m] = r[m]
              /\ row[m] \in 1 .. n /\ place[m] \in Nat
              /\ place[m] \in 1 .. Len(seqs[row[m]]) /\ r[m] = seqs[row[m]][place[m]]
  <2>1. m \in 1 .. a + b /\ m <= a
    BY <1>7
  <2>2. newRow[m] = row[m] /\ newPlace[m] = place[m]
    BY <1>9, <1>10, <2>1
  <2> QED
    BY <1>1, <1>4, <1>7, <2>2 DEF TakenFrom
<1>12. ASSUME NEW m \in 1 .. a + b, m \notin 1 .. a
       PROVE  /\ newRow[m] = n + 1 /\ newPlace[m] = m - a /\ all[m] = s[m - a]
              /\ m - a \in 1 .. b
  <2>1. ~(m <= a) /\ m - a \in 1 .. b /\ a + (m - a) = m
    BY <1>7, <1>12
  <2>2. all[a + (m - a)] = s[m - a]
    BY <1>7, <2>1
  <2> QED
    BY <1>9, <1>10, <2>1, <2>2
<1>13. newRow \in [1 .. a + b -> 1 .. n + 1] /\ newPlace \in [1 .. a + b -> Nat]
  <2>1. ASSUME NEW m \in 1 .. a + b
        PROVE  newRow[m] \in 1 .. n + 1 /\ newPlace[m] \in Nat
    <3>1. CASE m \in 1 .. a
      BY <1>11, <3>1
    <3>2. CASE m \notin 1 .. a
      BY <1>7, <1>12, <3>2
    <3> QED
      BY <3>1, <3>2
  <2>2. newRow = [m \in 1 .. a + b |-> newRow[m]] /\ newPlace = [m \in 1 .. a + b |-> newPlace[m]]
    BY <1>9, <1>10
  <2> QED
    BY <2>1, <2>2
<1>14. ASSUME NEW m \in 1 .. a + b
       PROVE  newPlace[m] \in 1 .. Len(seqs[newRow[m]]) /\ all[m] = seqs[newRow[m]][newPlace[m]]
  <2>1. CASE m \in 1 .. a
    BY <1>11, <2>1
  <2>2. CASE m \notin 1 .. a
    BY <1>2, <1>5, <1>12, <2>2
  <2> QED
    BY <2>1, <2>2
<1>15. ASSUME NEW l \in 1 .. a + b, NEW m \in 1 .. a + b, l < m
       PROVE  newRow[l] < newRow[m] \/ (newRow[l] = newRow[m] /\ newPlace[l] < newPlace[m])
  <2>1. CASE m \in 1 .. a
    <3>1. l \in 1 .. a
      BY <1>7, <1>15, <2>1
    <3>2. row[l] < row[m] \/ (row[l] = row[m] /\ place[l] < place[m])
      BY <1>1, <1>4, <1>15, <2>1, <3>1 DEF TakenFrom
    <3>3. newRow[l] = row[l] /\ newPlace[l] = place[l]
      BY <1>11, <3>1
    <3>4. newRow[m] = row[m] /\ newPlace[m] = place[m]
      BY <1>11, <2>1
    <3>5. \A k \in 1 .. a : row[k] \in Nat /\ place[k] \in Nat
      BY <1>11
    <3> QED
      BY <2>1, <3>1, <3>2, <3>3, <3>4, <3>5
  <2>2. CASE m \notin 1 .. a /\ l \in 1 .. a
    <3>1. newRow[m] = n + 1
      BY <1>12, <2>2
    <3>2. newRow[l] \in 1 .. n
      BY <1>11, <2>2
    <3> QED
      BY <3>1, <3>2
  <2>3. CASE m \notin 1 .. a /\ l \notin 1 .. a
    BY <1>7, <1>12, <1>15, <2>3
  <2> QED
    BY <2>1, <2>2, <2>3
<1>16. ASSUME NEW i \in 1 .. n + 1, NEW k \in 1 .. Len(seqs[i])
       PROVE  \E m \in 1 .. a + b : newRow[m] = i /\ newPlace[m] = k
  <2>1. CASE i = n + 1
    <3>1. k \in 1 .. b
      BY <1>2, <1>5, <1>16, <2>1
    <3>2. a + k \in 1 .. a + b /\ a + k \notin 1 .. a /\ (a + k) - a = k
      BY <1>7, <3>1
    <3> QED
      BY <1>12, <2>1, <3>2
  <2>2. CASE i # n + 1
    <3>1. i \in 1 .. n
      BY <2>2
    <3>2. PICK m \in 1 .. a : row[m] = i /\ place[m] = k
      BY <1>1, <1>4, <1>16, <3>1 DEF TakenFrom
    <3>3. m \in 1 .. a + b
      BY <1>7
    <3> QED
      BY <1>11, <3>2, <3>3
  <2> QED
    BY <2>1, <2>2
<1>17. TakenFrom(all, seqs, n + 1, newRow, newPlace)
  <2>1. PICK c : c = a + b
    OBVIOUS
  <2>2. Len(all) = c
    BY <1>7, <2>1
  <2>3. newRow \in [1 .. c -> 1 .. n + 1] /\ newPlace \in [1 .. c -> Nat]
    BY <1>13, <2>1
  <2>4. \A m \in 1 .. c : /\ newPlace[m] \in 1 .. Len(seqs[newRow[m]])
                          /\ all[m] = seqs[newRow[m]][newPlace[m]]
    BY <1>14, <2>1
  <2>5. \A l, m \in 1 .. c : l < m =>
           newRow[l] < newRow[m] \/ (newRow[l] = newRow[m] /\ newPlace[l] < newPlace[m])
    BY <1>15, <2>1
  <2>6. \A i \in 1 .. n + 1 : \A k \in 1 .. Len(seqs[i]) :
           \E m \in 1 .. c : newRow[m] = i /\ newPlace[m] = k
    BY <1>16, <2>1
  <2> QED
    BY <2>2, <2>3, <2>4, <2>5, <2>6 DEF TakenFrom
<1> QED
  BY <1>2, <1>6, <1>7, <1>17 DEF Joined

LEMMA JoinGoesOn ==
    ASSUME NEW T, NEW seqs \in Seq(Seq(T))
    PROVE  \A n \in 1 .. Len(seqs) :
              \E f : JoinsTo(f, seqs, n) /\ f[n] \in Seq(T) /\ Joined(f[n], seqs, n)
<1> DEFINE Goes(n) == \E f : JoinsTo(f, seqs, n) /\ f[n] \in Seq(T) /\ Joined(f[n], seqs, n)
           bad == {n \in 1 .. Len(seqs) : ~Goes(n)}
<1>1. ASSUME 1 <= Len(seqs) PROVE Goes(1)
  <2> DEFINE f == [i \in 1 .. 1 |-> seqs[1]]
             none == [m \in 1 .. 0 |-> 1]
  <2>1. \A i \in 1 .. 1 : JoinStep(seqs, f, i) = seqs[1]
    BY DEF JoinStep
  <2>2. JoinsTo(f, seqs, 1) /\ f[1] = seqs[1]
    BY <2>1 DEF JoinsTo
  <2>3. Len(<<>>) = 0 /\ <<>> \in Seq(T)
    OBVIOUS
  <2>4. TakenFrom(<<>>, seqs, 0, none, none)
    BY <2>3 DEF TakenFrom
  <2>5. Len(seqs) \in Nat /\ 0 < Len(seqs) /\ 1 \in 1 .. Len(seqs)
    BY <1>1
  <2>6. Joined(<<>>, seqs, 0)
    BY <2>4 DEF Joined
  <2>7. <<>> \o seqs[0 + 1] \in Seq(T) /\ Joined(<<>> \o seqs[0 + 1], seqs, 0 + 1)
    BY <2>3, <2>5, <2>6, JoinOne
  <2>8. <<>> \o seqs[1] = seqs[1]
    BY <2>5
  <2>9. seqs[1] \in Seq(T) /\ Joined(seqs[1], seqs, 1)
    BY <2>7, <2>8
  <2> HIDE DEF f
  <2> QED
    BY <2>2, <2>9
<1>2. ASSUME NEW n \in Nat \ {0}, n < Len(seqs), Goes(n)
      PROVE  Goes(n + 1)
  <2>1. PICK f : JoinsTo(f, seqs, n) /\ f[n] \in Seq(T) /\ Joined(f[n], seqs, n)
    BY <1>2
  <2> DEFINE last == JoinStep(seqs, f, n + 1)
             g == [i \in 1 .. n + 1 |-> IF i = n + 1 THEN last ELSE f[i]]
  <2>2. last = f[n] \o seqs[n + 1]
    <3>1. n + 1 # 1 /\ (n + 1) - 1 = n
      BY <1>2
    <3> QED
      BY <3>1 DEF JoinStep
  <2>3. last \in Seq(T) /\ Joined(last, seqs, n + 1)
    BY <1>2, <2>1, <2>2, JoinOne
  <2> HIDE DEF last
  <2>4. \A i \in 1 .. n : f[i] = JoinStep(seqs, f, i)
    BY <2>1 DEF JoinsTo
  <2>5. \A i \in 1 .. n : g[i] = f[i]
    OBVIOUS
  <2>6. \A i \in 1 .. n + 1 : JoinStep(seqs, g, i) = JoinStep(seqs, f, i)
    <3>1. \A i \in 1 .. n + 1 : i # 1 => i - 1 \in 1 .. n
      OBVIOUS
    <3> HIDE DEF g
    <3> QED
      BY <2>5, <3>1 DEF JoinStep
  <2>7. \A i \in 1 .. n + 1 : g[i] = JoinStep(seqs, g, i)
    <3>1. g[n + 1] = JoinStep(seqs, f, n + 1)
      BY DEF last
    <3>2. \A i \in 1 .. n + 1 : i \in 1 .. n \/ i = n + 1
      OBVIOUS
    <3> HIDE DEF g
    <3> QED
      BY <2>4, <2>5, <2>6, <3>1, <3>2
  <2>8. JoinsTo(g, seqs, n + 1)
    <3>1. g = [i \in 1 .. n + 1 |-> g[i]]
      OBVIOUS
    <3> HIDE DEF g
    <3> QED
      BY <2>7, <3>1 DEF JoinsTo
  <2>9. g[n + 1] = last
    OBVIOUS
  <2> HIDE DEF g
  <2> QED
    BY <2>3, <2>8, <2>9
<1>3. bad = {}
  <2>1. SUFFICES ASSUME bad # {} PROVE FALSE
    OBVIOUS
  <2>2. PICK n \in bad : \A m \in bad : n <= m
    <3>1. bad \in SUBSET Nat
      OBVIOUS
    <3> HIDE DEF bad
    <3> QED
      BY <2>1, <3>1, LeastNat
  <2> HIDE DEF Goes
  <2>3. n \in 1 .. Len(seqs) /\ ~Goes(n) /\ n # 1
    BY <1>1
  <2>4. n - 1 \in Nat \ {0} /\ n - 1 < Len(seqs) /\ (n - 1) + 1 = n /\ n - 1 \in 1 .. Len(seqs)
    BY <2>3
  <2>5. Goes(n - 1)
    BY <2>2, <2>4
  <2> QED
    BY <1>2, <2>3, <2>4, <2>5
<1> HIDE DEF Goes
<1>4. \A n \in 1 .. Len(seqs) : Goes(n)
  BY <1>3
<1> QED
  BY <1>4 DEF Goes

\* FlattenSeq lays the sequences end to end: all their elements, in their order.
LEMMA FlattenJoins ==
    ASSUME NEW T, NEW seqs \in Seq(Seq(T)), seqs # <<>>
    PROVE  FlattenSeq(seqs) \in Seq(T) /\ Joined(FlattenSeq(seqs), seqs, Len(seqs))
<1> DEFINE flatten == CHOOSE f : JoinsTo(f, seqs, Len(seqs))
<1>1. Len(seqs) \in Nat /\ Len(seqs) # 0 /\ Len(seqs) \in 1 .. Len(seqs)
  BY EmptySeq
<1>2. FlattenSeq(seqs) = flatten[Len(seqs)]
  BY <1>1 DEF FlattenSeq, JoinsTo, JoinStep
<1>3. PICK f : /\ JoinsTo(f, seqs, Len(seqs))
               /\ f[Len(seqs)] \in Seq(T) /\ Joined(f[Len(seqs)], seqs, Len(seqs))
  BY <1>1, JoinGoesOn
<1>4. JoinsTo(flatten, seqs, Len(seqs))
  BY <1>3
<1> HIDE DEF flatten
<1>5. \A n \in 1 .. Len(seqs) : flatten[n] = f[n]
  <2> DEFINE bad == {n \in 1 .. Len(seqs) : flatten[n] # f[n]}
  <2>1. SUFFICES ASSUME bad # {} PROVE FALSE
    OBVIOUS
  <2>2. PICK n \in bad : \A m \in bad : n <= m
    <3>1. bad \in SUBSET Nat
      OBVIOUS
    <3> HIDE DEF bad
    <3> QED
      BY <2>1, <3>1, LeastNat
  <2>3. n \in 1 .. Len(seqs) /\ flatten[n] # f[n]
    OBVIOUS
  <2>4. flatten[n] = JoinStep(seqs, flatten, n) /\ f[n] = JoinStep(seqs, f, n)
    BY <1>3, <1>4, <2>3 DEF JoinsTo
  <2>5. n # 1 => flatten[n - 1] = f[n - 1]
    <3>1. n # 1 => n - 1 \in 1 .. Len(seqs) /\ ~(n <= n - 1)
      BY <2>3
    <3> QED
      BY <2>2, <3>1
  <2>6. JoinStep(seqs, flatten, n) = JoinStep(seqs, f, n)
    BY <2>5 DEF JoinStep
  <2> QED
    BY <2>3, <2>4, <2>6
<1> QED
  BY <1>1, <1>2, <1>3, <1>5

-------------------------------------------------------------------------------
(* The reader's window: the pages a pass asks for                            *)

\* The spreads of a window: of the book, each once, the one on screen first.
Around(near, count, center, forward, back) ==
    /\ near \in Seq(1 .. count) /\ Once(near)
    /\ 1 \in 1 .. Len(near) /\ near[1] = center
    /\ \A i \in 1 .. Len(near) : center - back <= near[i] /\ near[i] <= center + forward

LEMMA WindowedIs ==
    ASSUME NEW count \in Nat, NEW center \in 1 .. count, NEW forward \in Nat, NEW back \in Nat
    PROVE  Around(Windowed(count, center, forward, back), count, center, forward, back)
<1>0. PICK near : near = Windowed(count, center, forward, back)
  OBVIOUS
<1>1. PICK a : a = [i \in 1 .. forward |-> center + i]
  OBVIOUS
<1>2. PICK b : b = [i \in 1 .. back |-> center - i]
  OBVIOUS
<1>3. PICK s : s = <<center>> \o a \o b
  OBVIOUS
<1>4. near = Sift(s, 1 .. count)
  BY <1>0, <1>1, <1>2, <1>3 DEF Windowed
<1>5. /\ a \in Seq(Int) /\ Len(a) = forward /\ \A i \in 1 .. forward : a[i] = center + i
      /\ b \in Seq(Int) /\ Len(b) = back /\ \A i \in 1 .. back : b[i] = center - i
  BY <1>1, <1>2
<1>6. PICK t : t = <<center>> \o a
  OBVIOUS
<1>7. /\ t \in Seq(Int) /\ Len(t) = 1 + forward
      /\ \A i \in 1 .. 1 + forward : t[i] = center + (i - 1)
  <2>1. PICK one : one = <<center>>
    OBVIOUS
  <2>2. one \in Seq(Int) /\ Len(one) = 1 /\ one[1] = center
    BY <2>1
  <2>3. PICK Index : Index = Int
    OBVIOUS
  <2>4. one \in Seq(Index) /\ a \in Seq(Index) /\ Len(a) = forward
    BY <1>5, <2>2, <2>3
  <2>5. t \in Seq(Index) /\ Follows(t, one, a, 1, forward)
    BY <1>6, <2>1, <2>2, <2>4, ConcatFollows
  <2>6. Len(t) = 1 + forward /\ t[1] = center /\ \A k \in 1 .. forward : t[1 + k] = center + k
    <3>1. Len(t) = 1 + forward
      BY <2>5 DEF Follows
    <3>2. 1 \in 1 .. 1
      OBVIOUS
    <3>3. t[1] = one[1]
      BY <2>5, <3>2 DEF Follows
    <3>4. \A k \in 1 .. forward : t[1 + k] = a[k]
      BY <2>5 DEF Follows
    <3> QED
      BY <1>5, <2>2, <3>1, <3>3, <3>4
  <2>7. ASSUME NEW i \in 1 .. 1 + forward PROVE t[i] = center + (i - 1)
    <3>1. CASE i = 1
      BY <2>6, <3>1
    <3>2. CASE i # 1
      <4>1. i - 1 \in 1 .. forward /\ 1 + (i - 1) = i
        BY <3>2
      <4>2. t[1 + (i - 1)] = center + (i - 1)
        BY <2>6, <4>1
      <4> QED
        BY <4>1, <4>2
    <3> QED
      BY <3>1, <3>2
  <2> QED
    BY <2>3, <2>5, <2>6, <2>7
<1>8. s = t \o b
  BY <1>3, <1>6
<1>9. /\ s \in Seq(Int) /\ Len(s) = 1 + forward + back
      /\ \A i \in 1 .. 1 + forward + back :
            s[i] = IF i <= 1 + forward THEN center + (i - 1) ELSE center - (i - (1 + forward))
  <2>1. PICK Index : Index = Int
    OBVIOUS
  <2>2. t \in Seq(Index) /\ b \in Seq(Index) /\ Len(t) = 1 + forward /\ Len(b) = back
    BY <1>5, <1>7, <2>1
  <2>3. s \in Seq(Index) /\ Follows(s, t, b, 1 + forward, back)
    BY <1>8, <2>2, ConcatFollows
  <2>4. s \in Seq(Int) /\ Len(s) = 1 + forward + back
    BY <2>1, <2>3 DEF Follows
  <2>5. ASSUME NEW i \in 1 .. 1 + forward + back
        PROVE  s[i] = IF i <= 1 + forward THEN center + (i - 1) ELSE center - (i - (1 + forward))
    <3>1. CASE i <= 1 + forward
      <4>1. i \in 1 .. 1 + forward
        BY <3>1
      <4>2. s[i] = t[i]
        BY <2>3, <4>1 DEF Follows
      <4> QED
        BY <1>7, <3>1, <4>1, <4>2
    <3>2. CASE ~(i <= 1 + forward)
      <4>1. PICK k : k = i - (1 + forward)
        OBVIOUS
      <4>2. k \in 1 .. back /\ i = (1 + forward) + k
        BY <3>2, <4>1
      <4>3. s[(1 + forward) + k] = b[k]
        BY <2>3, <4>2 DEF Follows
      <4> QED
        BY <1>5, <3>2, <4>1, <4>2, <4>3
    <3> QED
      BY <3>1, <3>2
  <2> QED
    BY <2>4, <2>5
<1>10. PICK n : n = 1 + forward + back
  OBVIOUS
<1>11. n \in Nat /\ 1 \in 1 .. n /\ Len(s) = n
  BY <1>9, <1>10
<1>12. \A i \in 1 .. n :
          /\ s[i] \in Int /\ center - back <= s[i] /\ s[i] <= center + forward
          /\ i <= 1 + forward => s[i] = center + (i - 1)
          /\ ~(i <= 1 + forward) => s[i] = center - (i - (1 + forward))
  BY <1>9, <1>10
<1>13. \A i, j \in 1 .. n : s[i] = s[j] => i = j
  BY <1>11, <1>12
<1>14. Once(s)
  BY <1>11, <1>13 DEF Once
<1>15. s[1] = center
  BY <1>11, <1>12
<1>16. /\ near \in Seq(Int) /\ Once(near)
       /\ \A i \in 1 .. Len(near) : near[i] \in 1 .. count
       /\ \A k \in 1 .. Len(s) : s[k] \in 1 .. count => \E i \in 1 .. Len(near) : near[i] = s[k]
       /\ \A i, j \in 1 .. Len(near), k, l \in 1 .. Len(s) :
             near[i] = s[k] /\ near[j] = s[l] => (i < j <=> k < l)
  <2>1. PICK kept : kept = 1 .. count
    OBVIOUS
  <2>2. PICK Index : Index = Int
    OBVIOUS
  <2>3. s \in Seq(Index) /\ near = Sift(s, kept)
    BY <1>4, <1>9, <2>1, <2>2
  <2>4. /\ near \in Seq(Index) /\ Once(near)
        /\ \A i \in 1 .. Len(near) : near[i] \in kept
        /\ \A k \in 1 .. Len(s) : s[k] \in kept => \E i \in 1 .. Len(near) : near[i] = s[k]
        /\ \A i, j \in 1 .. Len(near), k, l \in 1 .. Len(s) :
              near[i] = s[k] /\ near[j] = s[l] => (i < j <=> k < l)
    BY <1>14, <2>3, SiftOnce
  <2> QED
    BY <2>1, <2>2, <2>4
<1>17. Len(near) \in Nat
  BY <1>16
<1>18. ASSUME NEW i \in 1 .. Len(near)
       PROVE  \E k \in 1 .. n : near[i] = s[k]
  <2>1. LeftOf(near, s, 1 .. count, n)
    BY <1>4, <1>9, <1>11, SiftKeeps
  <2>2. PICK at : ComesFrom(near, s, 1 .. count, n, at)
    BY <2>1 DEF LeftOf
  <2>3. near[i] = s[at[i]] /\ at[i] \in 1 .. n
    BY <2>2 DEF ComesFrom
  <2> QED
    BY <2>3
<1>19. PICK first \in 1 .. Len(near) : near[first] = s[1]
  BY <1>11, <1>15, <1>16
<1>20. first = 1
  <2>1. SUFFICES ASSUME first # 1 PROVE FALSE
    OBVIOUS
  <2>2. 1 \in 1 .. Len(near) /\ 1 < first
    BY <1>17, <2>1
  <2>3. PICK k \in 1 .. n : near[1] = s[k]
    BY <1>18, <2>2
  <2>4. k < 1
    BY <1>11, <1>16, <1>19, <2>2, <2>3
  <2> QED
    BY <2>4
<1>21. near \in Seq(1 .. count)
  <2>1. near = [i \in 1 .. Len(near) |-> near[i]]
    BY <1>16
  <2> QED
    BY <1>16, <1>17, <2>1
<1>22. \A i \in 1 .. Len(near) : center - back <= near[i] /\ near[i] <= center + forward
  BY <1>12, <1>18
<1>23. near \in Seq(1 .. count) /\ Once(near) /\ 1 \in 1 .. Len(near) /\ near[1] = center
  BY <1>15, <1>16, <1>19, <1>20, <1>21
<1> QED
  BY <1>0, <1>22, <1>23 DEF Around

\* The pages of some spreads of a layout, end to end: each once, spread by spread.
EndToEnd(pages, count, spreads, near) ==
    /\ pages \in Seq(1 .. count) /\ Once(pages)
    /\ \A m \in 1 .. Len(pages) :
          \E i \in 1 .. Len(near) : pages[m] \in PagesOf(spreads[near[i]])
    /\ \A page \in PagesOf(spreads[near[1]]), m \in 1 .. Len(pages) :
          \/ pages[m] \in PagesOf(spreads[near[1]])
          \/ \E l \in 1 .. Len(pages) : l < m /\ pages[l] = page

LEMMA PagesInOrder ==
    ASSUME NEW count \in Nat, NEW spreads, LaysOut(spreads, 1, count),
           NEW near \in Seq(1 .. Len(spreads)), Once(near), 1 \in 1 .. Len(near)
    PROVE  EndToEnd(FlattenSeq([i \in DOMAIN near |-> spreads[near[i]]]), count, spreads, near)
<1>0. PICK pages : pages = FlattenSeq([i \in DOMAIN near |-> spreads[near[i]]])
  OBVIOUS
<1>1. PICK n : n = Len(near)
  OBVIOUS
<1>2. n \in Nat /\ DOMAIN near = 1 .. n /\ 1 \in 1 .. n
  BY <1>1
<1>3. /\ spreads \in Seq(Seq(1 .. count)) /\ Len(spreads) \in Nat
      /\ DOMAIN spreads = 1 .. Len(spreads)
      /\ \A i \in 1 .. n : near[i] \in DOMAIN spreads
  <2>1. spreads \in Seq(Seq(1 .. count))
    BY DEF LaysOut
  <2>2. PICK last : last = Len(spreads)
    OBVIOUS
  <2>3. last \in Nat /\ DOMAIN spreads = 1 .. last
    BY <2>1, <2>2
  <2>4. near \in [1 .. n -> 1 .. Len(spreads)]
    <3>1. PICK Spread : Spread = 1 .. Len(spreads)
      OBVIOUS
    <3>2. near \in Seq(Spread)
      BY <3>1
    <3>3. near \in [1 .. n -> Spread]
      BY <1>1, <3>2
    <3> QED
      BY <3>1, <3>3
  <2>5. \A i \in 1 .. n : near[i] \in 1 .. last
    BY <2>2, <2>4
  <2> QED
    BY <2>1, <2>2, <2>3, <2>5
<1>4. \A i \in DOMAIN spreads : /\ spreads[i] \in Seq(1 .. count) /\ Once(spreads[i])
                                /\ DOMAIN spreads[i] = 1 .. Len(spreads[i])
  BY <1>3 DEF LaysOut
<1>5. PICK seqs : seqs = [i \in 1 .. n |-> spreads[near[i]]]
  OBVIOUS
<1> DEFINE DealtSpread == Seq(1 .. count)
<1>6. /\ seqs \in Seq(Seq(1 .. count)) /\ Len(seqs) = n /\ seqs # <<>>
      /\ \A i \in 1 .. n : seqs[i] = spreads[near[i]]
  <2>1. \A i \in 1 .. n : spreads[near[i]] \in Seq(1 .. count)
    BY <1>3, <1>4
  <2>2. seqs \in Seq(Seq(1 .. count)) /\ Len(seqs) = n
    <3>1. \A i \in 1 .. n : spreads[near[i]] \in DealtSpread
      BY <2>1
    <3> HIDE DEF DealtSpread
    <3>2. seqs \in Seq(DealtSpread) /\ Len(seqs) = n
      BY <1>2, <1>5, <3>1, SeqDef
    <3> QED
      BY <3>2 DEF DealtSpread
  <2>3. Len(<<>>) = 0
    OBVIOUS
  <2>4. seqs # <<>>
    BY <1>2, <2>2, <2>3
  <2>5. \A i \in 1 .. n : seqs[i] = spreads[near[i]]
    BY <1>5
  <2> QED
    BY <2>2, <2>4, <2>5
<1>7. pages = FlattenSeq(seqs)
  BY <1>0, <1>2, <1>5
<1>8. pages \in Seq(1 .. count) /\ Joined(pages, seqs, n)
  BY <1>6, <1>7, FlattenJoins
<1>9. PICK row, place : TakenFrom(pages, seqs, n, row, place)
  BY <1>8 DEF Joined
<1>10. ASSUME NEW m \in 1 .. Len(pages)
       PROVE  /\ row[m] \in 1 .. n /\ near[row[m]] \in DOMAIN spreads
              /\ place[m] \in 1 .. Len(spreads[near[row[m]]])
              /\ pages[m] = spreads[near[row[m]]][place[m]]
              /\ pages[m] \in PagesOf(spreads[near[row[m]]])
  <2>1. /\ row[m] \in 1 .. n /\ place[m] \in 1 .. Len(seqs[row[m]])
        /\ pages[m] = seqs[row[m]][place[m]]
    BY <1>9 DEF TakenFrom
  <2>2. seqs[row[m]] = spreads[near[row[m]]] /\ near[row[m]] \in DOMAIN spreads
    BY <1>3, <1>6, <2>1
  <2>3. place[m] \in DOMAIN spreads[near[row[m]]]
    BY <1>4, <2>1, <2>2
  <2> QED
    BY <2>1, <2>2, <2>3 DEF PagesOf
<1>11. \A l, m \in 1 .. Len(pages) :
          l < m => row[l] < row[m] \/ (row[l] = row[m] /\ place[l] < place[m])
  BY <1>9 DEF TakenFrom
<1>12. \A i, j \in DOMAIN spreads : i < j =>
          \A x \in PagesOf(spreads[i]), y \in PagesOf(spreads[j]) : x < y
  BY DEF LaysOut
<1>13. ASSUME NEW m \in 1 .. Len(pages) PROVE pages[m] \in Nat
  BY <1>8, <1>13
<1>14. ASSUME NEW l \in 1 .. Len(pages), NEW m \in 1 .. Len(pages), l < m
       PROVE  pages[l] # pages[m]
  <2>1. CASE row[l] < row[m]
    <3>1. near[row[l]] # near[row[m]]
      <4>1. row[l] # row[m]
        BY <1>10, <2>1
      <4> QED
        BY <1>1, <1>10, <4>1 DEF Once
    <3>2. near[row[l]] \in Nat /\ near[row[m]] \in Nat
      <4>1. PICK last : last = Len(spreads)
        OBVIOUS
      <4>2. near[row[l]] \in 1 .. last /\ near[row[m]] \in 1 .. last
        BY <1>3, <1>10, <4>1
      <4> QED
        BY <1>3, <4>1, <4>2
    <3>3. near[row[l]] < near[row[m]] \/ near[row[m]] < near[row[l]]
      BY <3>1, <3>2
    <3>4. pages[l] < pages[m] \/ pages[m] < pages[l]
      BY <1>10, <1>12, <3>3
    <3> QED
      BY <1>13, <3>4
  <2>2. CASE row[l] = row[m] /\ place[l] < place[m]
    <3>1. PICK shown : shown = spreads[near[row[m]]]
      OBVIOUS
    <3>2. /\ Once(shown) /\ place[l] \in 1 .. Len(shown) /\ place[m] \in 1 .. Len(shown)
          /\ pages[l] = shown[place[l]] /\ pages[m] = shown[place[m]]
      BY <1>4, <1>10, <2>2, <3>1
    <3>3. place[l] # place[m]
      BY <2>2, <3>2
    <3> QED
      BY <3>2, <3>3 DEF Once
  <2> QED
    BY <1>11, <1>14, <2>1, <2>2
<1>15. Once(pages)
  <2>1. ASSUME NEW l \in 1 .. Len(pages), NEW m \in 1 .. Len(pages), pages[l] = pages[m]
        PROVE  l = m
    <3>1. ~(l < m) /\ ~(m < l)
      BY <1>14, <2>1
    <3> QED
      BY <3>1
  <2> QED
    BY <2>1 DEF Once
<1>16. ASSUME NEW page \in PagesOf(spreads[near[1]]), NEW m \in 1 .. Len(pages),
              pages[m] \notin PagesOf(spreads[near[1]])
       PROVE  \E l \in 1 .. Len(pages) : l < m /\ pages[l] = page
  <2>1. near[1] \in DOMAIN spreads /\ seqs[1] = spreads[near[1]]
    BY <1>2, <1>3, <1>6
  <2>2. PICK k \in 1 .. Len(seqs[1]) : page = seqs[1][k]
    BY <1>4, <1>16, <2>1 DEF PagesOf
  <2>3. PICK l \in 1 .. Len(pages) : row[l] = 1 /\ place[l] = k
    <3>1. \A i \in 1 .. n : \A j \in 1 .. Len(seqs[i]) :
             \E l \in 1 .. Len(pages) : row[l] = i /\ place[l] = j
      BY <1>9 DEF TakenFrom
    <3> QED
      BY <1>2, <2>2, <3>1
  <2>4. pages[l] = page
    BY <1>10, <2>1, <2>2, <2>3
  <2>5. row[m] # 1 /\ row[m] \in 1 .. n
    BY <1>10, <1>16
  <2>6. l # m /\ ~(m < l)
    <3>1. m < l => row[m] < row[l] \/ row[m] = row[l]
      BY <1>11
    <3>2. row[l] = 1 /\ row[m] \in Nat /\ 1 < row[m]
      BY <1>2, <2>3, <2>5
    <3> QED
      BY <3>1, <3>2
  <2>7. l < m
    BY <2>6
  <2> QED
    BY <2>4, <2>7
<1>17. \A m \in 1 .. Len(pages) :
          \E i \in 1 .. Len(near) : pages[m] \in PagesOf(spreads[near[i]])
  BY <1>1, <1>10
<1>18. \A page \in PagesOf(spreads[near[1]]), m \in 1 .. Len(pages) :
          \/ pages[m] \in PagesOf(spreads[near[1]])
          \/ \E l \in 1 .. Len(pages) : l < m /\ pages[l] = page
  BY <1>16
<1>19. EndToEnd(pages, count, spreads, near)
  BY <1>8, <1>15, <1>17, <1>18 DEF EndToEnd
<1> QED
  BY <1>0, <1>19

\* What a pass asks for around a spread of a layout.
Asked(queue, count, spreads, here, w, cached) ==
    /\ queue \in Seq((1 .. count) \ cached)
    /\ Len(queue) <= w.cap
    /\ Once(queue)
    /\ \A m \in 1 .. Len(queue) :
          \E i \in DOMAIN spreads : /\ here - w.back <= i /\ i <= here + w.forward
                                    /\ queue[m] \in PagesOf(spreads[i])
    /\ \A page \in PagesOf(spreads[here]) \ cached, m \in 1 .. Len(queue) :
          \/ queue[m] \in PagesOf(spreads[here])
          \/ \E l \in 1 .. Len(queue) : l < m /\ queue[l] = page

\* A book that has pages has spreads.
LEMMA DealtIsThere ==
    ASSUME NEW count \in Nat \ {0}, NEW spreads, LaysOut(spreads, 1, count)
    PROVE  spreads # <<>>
<1>1. 1 \in 1 .. count
  OBVIOUS
<1>2. PICK i \in DOMAIN spreads : 1 \in PagesOf(spreads[i])
  BY <1>1 DEF LaysOut
<1> QED
  BY <1>2

LEMMA QueueAsks ==
    ASSUME NEW count \in Nat, NEW spreads, LaysOut(spreads, 1, count), spreads # <<>>,
           NEW center \in Nat \ {0}, NEW w, w.forward \in Nat, w.back \in Nat, w.cap \in Nat,
           NEW cached
    PROVE  Asked(PrefetchQueue(spreads, center, w, cached), count, spreads,
                 Least(center, Len(spreads)), w, cached)
<1>1. PICK queue : queue = PrefetchQueue(spreads, center, w, cached)
  OBVIOUS
<1>2. PICK here : here = Least(center, Len(spreads))
  OBVIOUS
<1>3. /\ spreads \in Seq(Seq(1 .. count)) /\ Len(spreads) \in Nat
      /\ DOMAIN spreads = 1 .. Len(spreads) /\ here \in 1 .. Len(spreads)
  <2>1. spreads \in Seq(Seq(1 .. count))
    BY DEF LaysOut
  <2>2. Len(spreads) \in Nat /\ Len(spreads) # 0 /\ DOMAIN spreads = 1 .. Len(spreads)
    BY <2>1, EmptySeq
  <2>3. PICK last : last = Len(spreads)
    OBVIOUS
  <2>4. last \in Nat \ {0} /\ here = Least(center, last)
    BY <1>2, <2>2, <2>3
  <2>5. here \in 1 .. last
    BY <2>4 DEF Least
  <2> QED
    BY <2>1, <2>2, <2>3, <2>5
<1>4. PICK near : near = Windowed(Len(spreads), here, w.forward, w.back)
  OBVIOUS
<1>5. /\ near \in Seq(1 .. Len(spreads)) /\ Once(near)
      /\ 1 \in 1 .. Len(near) /\ near[1] = here
      /\ \A i \in 1 .. Len(near) : here - w.back <= near[i] /\ near[i] <= here + w.forward
  <2>1. PICK last : last = Len(spreads)
    OBVIOUS
  <2>2. PICK forward : forward = w.forward
    OBVIOUS
  <2>3. PICK back : back = w.back
    OBVIOUS
  <2>4. last \in Nat /\ here \in 1 .. last /\ forward \in Nat /\ back \in Nat
    BY <1>3, <2>1, <2>2, <2>3
  <2>5. near = Windowed(last, here, forward, back)
    BY <1>4, <2>1, <2>2, <2>3
  <2>6. Around(near, last, here, forward, back)
    BY <2>4, <2>5, WindowedIs
  <2> QED
    BY <2>1, <2>2, <2>3, <2>6 DEF Around
<1>6. PICK pages : pages = FlattenSeq([i \in DOMAIN near |-> spreads[near[i]]])
  OBVIOUS
<1>7. /\ pages \in Seq(1 .. count) /\ Once(pages)
      /\ \A m \in 1 .. Len(pages) :
            \E i \in 1 .. Len(near) : pages[m] \in PagesOf(spreads[near[i]])
      /\ \A page \in PagesOf(spreads[here]), m \in 1 .. Len(pages) :
            \/ pages[m] \in PagesOf(spreads[here])
            \/ \E l \in 1 .. Len(pages) : l < m /\ pages[l] = page
  <2>1. near \in Seq(1 .. Len(spreads)) /\ Once(near) /\ 1 \in 1 .. Len(near)
    BY <1>5
  <2>2. EndToEnd(pages, count, spreads, near)
    BY <1>6, <2>1, PagesInOrder
  <2>3. near[1] = here
    BY <1>5
  <2> QED
    BY <2>2, <2>3 DEF EndToEnd
<1>8. PICK cold : cold = Sift(pages, Nat \ cached)
  OBVIOUS
<1>9. /\ cold \in Seq(1 .. count) /\ Once(cold)
      /\ \A i \in 1 .. Len(cold) : cold[i] \in Nat \ cached
      /\ \A k \in 1 .. Len(pages) : pages[k] \in Nat \ cached =>
            \E i \in 1 .. Len(cold) : cold[i] = pages[k]
      /\ \A i, j \in 1 .. Len(cold), k, l \in 1 .. Len(pages) :
            cold[i] = pages[k] /\ cold[j] = pages[l] => (i < j <=> k < l)
  <2>1. PICK PageNumber : PageNumber = 1 .. count
    OBVIOUS
  <2>2. PICK kept : kept = Nat \ cached
    OBVIOUS
  <2>3. pages \in Seq(PageNumber) /\ Once(pages) /\ cold = Sift(pages, kept)
    BY <1>7, <1>8, <2>1, <2>2
  <2>4. /\ cold \in Seq(PageNumber) /\ Once(cold)
        /\ \A i \in 1 .. Len(cold) : cold[i] \in kept
        /\ \A k \in 1 .. Len(pages) : pages[k] \in kept =>
              \E i \in 1 .. Len(cold) : cold[i] = pages[k]
        /\ \A i, j \in 1 .. Len(cold), k, l \in 1 .. Len(pages) :
              cold[i] = pages[k] /\ cold[j] = pages[l] => (i < j <=> k < l)
    BY <2>3, SiftOnce
  <2> QED
    BY <2>1, <2>2, <2>4
<1>10. ASSUME NEW i \in 1 .. Len(cold)
       PROVE  \E k \in 1 .. Len(pages) : cold[i] = pages[k]
  <2>1. LeftOf(cold, pages, Nat \ cached, Len(pages))
    BY <1>7, <1>8, SiftKeeps
  <2>2. PICK at : ComesFrom(cold, pages, Nat \ cached, Len(pages), at)
    BY <2>1 DEF LeftOf
  <2>3. cold[i] = pages[at[i]] /\ at[i] \in 1 .. Len(pages)
    BY <2>2 DEF ComesFrom
  <2> QED
    BY <2>3
<1>11. queue = Truncated(cold, w.cap)
  BY <1>1, <1>2, <1>4, <1>6, <1>8 DEF PrefetchQueue
<1>12. PICK n : n = Least(Len(cold), w.cap)
  OBVIOUS
<1>13. /\ n \in Nat /\ n <= w.cap /\ n <= Len(cold) /\ Len(cold) \in Nat
       /\ DOMAIN cold \cap 1 .. w.cap = 1 .. n
  <2>1. Len(cold) \in Nat /\ DOMAIN cold = 1 .. Len(cold)
    BY <1>9
  <2> QED
    BY <1>12, <2>1 DEF Least
<1>14. queue = [i \in 1 .. n |-> cold[i]]
  BY <1>11, <1>13 DEF Truncated
<1>15. ASSUME NEW i \in 1 .. n
       PROVE  i \in 1 .. Len(cold) /\ queue[i] = cold[i] /\ queue[i] \in (1 .. count) \ cached
  <2>1. i \in 1 .. Len(cold)
    BY <1>13
  <2>2. cold[i] \in 1 .. count /\ cold[i] \in Nat \ cached
    BY <1>9, <2>1
  <2> QED
    BY <1>14, <2>1, <2>2
<1>16. queue \in Seq((1 .. count) \ cached) /\ Len(queue) = n
  BY <1>13, <1>14, <1>15
<1>17. Once(queue)
  BY <1>9, <1>15, <1>16 DEF Once
<1>18. ASSUME NEW m \in 1 .. n
       PROVE  \E i \in DOMAIN spreads : /\ here - w.back <= i /\ i <= here + w.forward
                                        /\ queue[m] \in PagesOf(spreads[i])
  <2>1. PICK k \in 1 .. Len(pages) : queue[m] = pages[k]
    BY <1>10, <1>15
  <2>2. PICK i \in 1 .. Len(near) : pages[k] \in PagesOf(spreads[near[i]])
    BY <1>7
  <2>3. near[i] \in DOMAIN spreads
    <3>1. PICK Spread : Spread = 1 .. Len(spreads)
      OBVIOUS
    <3>2. near \in Seq(Spread) /\ DOMAIN spreads = Spread
      BY <1>3, <1>5, <3>1
    <3> QED
      BY <3>2
  <2> QED
    BY <1>5, <2>1, <2>2, <2>3
<1>19. ASSUME NEW page \in PagesOf(spreads[here]) \ cached, NEW m \in 1 .. n,
              queue[m] \notin PagesOf(spreads[here])
       PROVE  \E l \in 1 .. n : l < m /\ queue[l] = page
  <2>1. PICK k \in 1 .. Len(pages) : queue[m] = pages[k]
    BY <1>10, <1>15
  <2>2. PICK j \in 1 .. Len(pages) : j < k /\ pages[j] = page
    BY <1>7, <1>19, <2>1
  <2>3. pages[j] \in Nat \ cached
    BY <1>7, <2>2
  <2>4. PICK l \in 1 .. Len(cold) : cold[l] = pages[j]
    BY <1>9, <2>3
  <2>5. l < m
    BY <1>9, <1>15, <2>1, <2>2, <2>4
  <2>6. l \in 1 .. n
    BY <1>13, <2>5
  <2> QED
    BY <1>15, <2>2, <2>4, <2>5, <2>6
<1>20. \A m \in 1 .. Len(queue) :
          \E i \in DOMAIN spreads : /\ here - w.back <= i /\ i <= here + w.forward
                                    /\ queue[m] \in PagesOf(spreads[i])
  BY <1>16, <1>18
<1>21. \A page \in PagesOf(spreads[here]) \ cached, m \in 1 .. Len(queue) :
          \/ queue[m] \in PagesOf(spreads[here])
          \/ \E l \in 1 .. Len(queue) : l < m /\ queue[l] = page
  BY <1>16, <1>19
<1>22. Asked(queue, count, spreads, here, w, cached)
  BY <1>13, <1>16, <1>17, <1>20, <1>21 DEF Asked
<1> QED
  BY <1>1, <1>2, <1>22

\* What a pass asks for, whatever the book, its layout, the spread on screen, the plan and
\* the pages on disk: pages of the book that are not on disk, each once, no more than the
\* plan's cap and none outside its window; and no page of another spread before every page
\* missing from the one on screen (prefetch::plan).
THEOREM QueueServesTheScreen ==
    ASSUME NEW count \in Nat \ {0}, NEW mode, NEW firstPageSingle, NEW unpairable,
           NEW center \in Nat \ {0},
           NEW w, w.forward \in Nat, w.back \in Nat, w.cap \in Nat, NEW cached
    PROVE  LET spreads == Pair(count, mode, firstPageSingle, unpairable)
               here == Least(center, Len(spreads))
               queue == PrefetchQueue(spreads, center, w, cached)
           IN  /\ queue \in Seq((1 .. count) \ cached)
               /\ Len(queue) <= w.cap
               /\ \A l, m \in 1 .. Len(queue) : queue[l] = queue[m] => l = m
               /\ \A m \in 1 .. Len(queue) :
                     \E i \in DOMAIN spreads : /\ here - w.back <= i /\ i <= here + w.forward
                                               /\ queue[m] \in PagesOf(spreads[i])
               /\ \A page \in PagesOf(spreads[here]) \ cached, m \in 1 .. Len(queue) :
                     \/ queue[m] \in PagesOf(spreads[here])
                     \/ \E l \in 1 .. Len(queue) : l < m /\ queue[l] = page
<1>1. PICK spreads : spreads = Pair(count, mode, firstPageSingle, unpairable)
  OBVIOUS
<1>2. LaysOut(spreads, 1, count)
  BY <1>1, PairLaysOut
<1>3. spreads # <<>>
  BY <1>2, DealtIsThere
<1>4. PICK here : here = Least(center, Len(spreads))
  OBVIOUS
<1>5. PICK queue : queue = PrefetchQueue(spreads, center, w, cached)
  OBVIOUS
<1>6. Asked(queue, count, spreads, here, w, cached)
  BY <1>2, <1>3, <1>4, <1>5, QueueAsks
<1> QED
  BY <1>1, <1>4, <1>5, <1>6 DEF Asked, Once

-------------------------------------------------------------------------------
(* The reader's window: the plan in force and the pass under way             *)

\* A pass that pulls at most four pages, none of them twice.
Small(started) ==
    /\ Len(started.queue) + Cardinality(started.got) <= 4
    /\ \A i, j \in DOMAIN started.queue :
          /\ started.queue[i] \notin started.got
          /\ started.queue[i] = started.queue[j] => i = j

\* A plan that keeps to what the device may hold.
WindowFits(w) ==
    w.on =>
        /\ w.cap <= Ceiling(machine, w.width)
        /\ w.inFlight <= 4
        /\ w.network # "offline" => w.cap >= w.width /\ w.inFlight >= 1

\* inFlight is at most 4 also before the first plan: the stored settings are behind it.
PassInv ==
    /\ WindowTypeOK
    /\ WindowFits(window) /\ window.inFlight <= 4
    /\ Small(warming)

LEMMA SpreadsAre ==
    ASSUME NEW mode
    PROVE  /\ LaysOut(Spreads(mode), 1, PageCount)
           /\ Spreads(mode) # <<>> /\ 1 \in DOMAIN Spreads(mode)
<1>1. PICK spreads : spreads = Spreads(mode)
  OBVIOUS
<1>2. LaysOut(spreads, 1, PageCount)
  BY <1>1, PairLaysOut, ReaderWindowAssumption DEF Spreads
<1>3. spreads # <<>>
  BY <1>2, DealtIsThere, ReaderWindowAssumption
<1>4. spreads \in Seq(Seq(1 .. PageCount))
  BY <1>2 DEF LaysOut
<1>5. 1 \in DOMAIN spreads
  BY <1>3, <1>4, FirstIsThere
<1> QED
  BY <1>1, <1>2, <1>3, <1>5

\* A change of layout stays on a spread of the new one.
LEMMA EntryIsShown ==
    ASSUME NEW mode, NEW to, NEW i \in DOMAIN Spreads(mode)
    PROVE  IndexForPage(Spreads(to), EntryPage(Spreads(mode), i, 1)) \in DOMAIN Spreads(to)
<1>1. PICK spreads : spreads = Spreads(mode)
  OBVIOUS
<1>2. PICK next : next = Spreads(to)
  OBVIOUS
<1>3. LaysOut(spreads, 1, PageCount) /\ LaysOut(next, 1, PageCount)
  BY <1>1, <1>2, SpreadsAre
<1>4. spreads[i] \in Seq(1 .. PageCount) /\ spreads[i] # <<>> /\ i \in DOMAIN spreads
  BY <1>1, <1>3 DEF LaysOut
<1>5. spreads[i][1] \in 1 .. PageCount
  BY <1>4, FirstIsThere
<1>6. EntryPage(spreads, i, 1) = spreads[i][1]
  BY <1>4 DEF EntryPage
<1>7. PICK page : page = EntryPage(spreads, i, 1)
  OBVIOUS
<1>8. \E j \in DOMAIN next : page \in PagesOf(next[j])
  BY <1>3, <1>5, <1>6, <1>7 DEF LaysOut
<1>9. IndexForPage(next, page) \in DOMAIN next
  BY <1>8 DEF IndexForPage
<1> QED
  BY <1>1, <1>2, <1>7, <1>9

LEMMA PassStarts ==
    ASSUME NEW mode, NEW center \in Nat \ {0}, NEW w, w.forward \in Nat, w.back \in Nat,
           w.cap \in Nat, w.inFlight \in Nat, w.inFlight <= 4,
           warming \in Warming, Small(warming), Warm(mode, center, w)
    PROVE  warming' \in Warming /\ Small(warming')
<1>1. CASE warming.on
  BY <1>1 DEF Warm
<1>2. CASE ~warming.on
  <2>1. PICK spreads : spreads = Spreads(mode)
    OBVIOUS
  <2>2. PICK queue : queue = PrefetchQueue(spreads, center, w, warm)
    OBVIOUS
  <2>3. PICK budget : budget = Most(1, w.inFlight)
    OBVIOUS
  <2>4. budget \in Nat /\ budget <= 4
    BY <2>3 DEF Most
  <2>5. PICK pulled : pulled = Truncated(queue, budget)
    OBVIOUS
  <2>6. warming' = [on |-> TRUE, got |-> {}, queue |-> pulled]
    BY <1>2, <2>1, <2>2, <2>3, <2>5 DEF Warm
  <2>7. queue \in Seq((1 .. PageCount) \ warm) /\ Once(queue)
    <3>1. LaysOut(spreads, 1, PageCount) /\ spreads # <<>>
      BY <2>1, SpreadsAre
    <3>2. PICK here : here = Least(center, Len(spreads))
      OBVIOUS
    <3>3. Asked(queue, PageCount, spreads, here, w, warm)
      BY <2>2, <3>1, <3>2, QueueAsks, ReaderWindowAssumption
    <3> QED
      BY <3>3 DEF Asked
  <2>8. PICK n : n = Least(Len(queue), budget)
    OBVIOUS
  <2>9. /\ n \in Nat /\ n <= 4 /\ Len(queue) \in Nat /\ n <= Len(queue)
        /\ DOMAIN queue \cap 1 .. budget = 1 .. n
    <3>1. Len(queue) \in Nat /\ DOMAIN queue = 1 .. Len(queue)
      BY <2>7
    <3> QED
      BY <2>4, <2>8, <3>1 DEF Least
  <2>10. pulled = [i \in 1 .. n |-> queue[i]]
    BY <2>5, <2>9 DEF Truncated
  <2>11. \A i \in 1 .. n : /\ i \in 1 .. Len(queue)
                           /\ pulled[i] = queue[i] /\ queue[i] \in 1 .. PageCount
    <3>1. \A i \in 1 .. n : i \in 1 .. Len(queue)
      BY <2>9
    <3>2. PICK PageNumber : PageNumber = (1 .. PageCount) \ warm
      OBVIOUS
    <3>3. queue \in Seq(PageNumber)
      BY <2>7, <3>2
    <3>4. \A i \in 1 .. Len(queue) : queue[i] \in PageNumber
      BY <3>3
    <3> QED
      BY <2>10, <3>1, <3>2, <3>4
  <2>12. pulled \in Seq(1 .. PageCount) /\ Len(pulled) = n /\ DOMAIN pulled = 1 .. n
    BY <2>9, <2>10, <2>11
  <2>13. \A i, j \in 1 .. n : pulled[i] = pulled[j] => i = j
    BY <2>7, <2>11 DEF Once
  <2>14. PICK started : started = [on |-> TRUE, got |-> {}, queue |-> pulled]
    OBVIOUS
  <2>15. started.on = TRUE /\ started.got = {} /\ started.queue = pulled
    BY <2>14
  <2>16. Cardinality({}) = 0
    BY FS_EmptySet
  <2>17. Small(started)
    <3>1. Len(started.queue) + Cardinality(started.got) <= 4
      BY <2>9, <2>12, <2>15, <2>16
    <3> QED
      BY <2>12, <2>13, <2>15, <3>1 DEF Small
  <2>18. started \in Warming
    BY <2>12, <2>14 DEF Warming
  <2> QED
    BY <2>6, <2>14, <2>17, <2>18
<1> QED
  BY <1>1, <1>2

LEMMA PlanFits ==
    ASSUME NEW r \in Report, PassInv
    PROVE  Plan(r) \in Window /\ WindowFits(Plan(r)) /\ Plan(r).inFlight <= 4
<1>1. PICK width : width = Width(layout)
  OBVIOUS
<1>2. width \in {1, 2}
  BY <1>1 DEF Width
<1>3. machine \in Machine
  BY ReaderWindowAssumption DEF PassInv, WindowTypeOK
<1>4. r.network \in Link /\ r.stable \in BOOLEAN
  BY DEF Report
<1>5. PICK network : network = r.network
  OBVIOUS
<1>6. PICK w : w = WindowPlan(machine, layout, width, network, r.stable)
  OBVIOUS
<1>7. /\ w \in [forward : 0 .. 8, back : 0 .. 4, cap : Nat, inFlight : 0 .. 4]
      /\ w.cap <= Ceiling(machine, width)
      /\ network # "offline" => width <= w.cap /\ 1 <= w.inFlight
  <2>1. PICK m : m = machine
    OBVIOUS
  <2>2. PICK mode : mode = layout
    OBVIOUS
  <2>3. PICK stable : stable = r.stable
    OBVIOUS
  <2>4. m \in Machine /\ network \in Link /\ stable \in BOOLEAN
    BY <1>3, <1>4, <1>5, <2>1, <2>3
  <2>5. w = WindowPlan(m, mode, width, network, stable)
    BY <1>6, <2>1, <2>2, <2>3
  <2>6. PICK best : best = WindowPlan(m, mode, width, "wifi", TRUE)
    OBVIOUS
  <2>7. Planned(w, best, m, width, network, stable)
    BY <1>2, <2>4, <2>5, <2>6, PlanIs
  <2> QED
    BY <2>1, <2>7 DEF Planned
<1>8. PICK plan : plan = Plan(r)
  OBVIOUS
<1>9. plan = [on |-> TRUE, network |-> network, width |-> width, forward |-> w.forward,
              back |-> w.back, cap |-> w.cap, inFlight |-> w.inFlight]
  BY <1>1, <1>5, <1>6, <1>8 DEF Plan
<1>10. /\ w.forward \in Nat /\ w.back \in Nat /\ w.cap \in Nat
       /\ w.inFlight \in Nat /\ w.inFlight <= 4
  BY <1>7
<1>11. plan \in Window
  BY <1>2, <1>4, <1>5, <1>9, <1>10 DEF Window
<1>12. /\ plan.on /\ plan.network = network /\ plan.width = width /\ plan.cap = w.cap
       /\ plan.inFlight = w.inFlight
  BY <1>9
<1>13. WindowFits(plan) /\ plan.inFlight <= 4
  BY <1>2, <1>7, <1>10, <1>12 DEF WindowFits
<1> QED
  BY <1>8, <1>11, <1>13

LEMMA PassStartsSmall == ASSUME WindowInit PROVE PassInv
<1>1. Cardinality({}) = 0
  BY FS_EmptySet
<1>2. <<>> \in Seq(1 .. PageCount) /\ Len(<<>>) = 0 /\ DOMAIN <<>> = {}
  OBVIOUS
<1>3. warming.queue = <<>> /\ warming.got = {}
  BY DEF WindowInit, NotWarming
<1>4. warming \in Warming
  BY <1>2 DEF WindowInit, NotWarming, Warming
<1>5. Small(warming)
  BY <1>1, <1>2, <1>3 DEF Small
<1>6. window \in Window /\ ~window.on /\ window.inFlight <= 4
  BY DEF WindowInit, NoWindow, DefaultWindow, Window, Link
<1>7. spread \in DOMAIN Spreads(layout)
  BY SpreadsAre DEF WindowInit
<1>8. reports \subseteq Report
  BY DEF WindowInit, Report, Link
<1>9. machine \in Machines /\ layout \in Layouts
  BY DEF WindowInit
<1>10. radio \in Radios /\ turns \in 0 .. MaxTurns
  BY ReaderWindowAssumption DEF WindowInit
<1>11. /\ moving \in BOOLEAN /\ failures \in 0 .. 2 /\ slows \in 0 .. 3 /\ words \in Link
       /\ described \in BOOLEAN /\ warm \subseteq 1 .. PageCount /\ wasted \in 0 .. 2
  <2>1. moving = FALSE /\ described = FALSE
    BY DEF WindowInit
  <2>2. failures = 0 /\ slows = 0 /\ wasted = 0 /\ warm = {}
    BY DEF WindowInit
  <2>3. words = "wifi"
    BY DEF WindowInit
  <2>4. words \in Link
    BY <2>3 DEF Link
  <2>5. moving \in BOOLEAN /\ described \in BOOLEAN
    BY <2>1
  <2>6. failures \in 0 .. 2 /\ slows \in 0 .. 3 /\ wasted \in 0 .. 2 /\ warm \subseteq 1 .. PageCount
    BY <2>2
  <2> QED
    BY <2>4, <2>5, <2>6
<1>12. WindowTypeOK
  BY <1>4, <1>6, <1>7, <1>8, <1>9, <1>10, <1>11 DEF WindowTypeOK
<1> QED
  BY <1>5, <1>6, <1>12 DEF PassInv, WindowFits

\* The tallies and the verdict keep their ranges.
LEMMA RejudgeTypes ==
    ASSUME words \in Link, reports \subseteq Report, moving \in BOOLEAN, Rejudge
    PROVE  words' \in Link /\ reports' \subseteq Report
<1>1. words' \in Link
  BY DEF Rejudge, Infer, Link
<1>2. CASE words' = words
  BY <1>1, <1>2 DEF Rejudge
<1>3. CASE words' # words
  <2>1. reports' = reports \cup {[network |-> words', stable |-> ~moving, thenWarm |-> TRUE]}
    BY <1>3 DEF Rejudge, Reporting
  <2>2. [network |-> words', stable |-> ~moving, thenWarm |-> TRUE] \in Report
    BY <1>1 DEF Report
  <2> QED
    BY <1>1, <2>1, <2>2
<1> QED
  BY <1>2, <1>3

LEMMA PassStep == ASSUME PassInv, [WindowNext]_wvars PROVE PassInv'
<1>0. /\ WindowTypeOK
      /\ WindowFits(window) /\ window.inFlight <= 4
      /\ Small(warming)
  BY DEF PassInv
<1>t. /\ machine \in Machines /\ radio \in Radios /\ layout \in Layouts
      /\ spread \in DOMAIN Spreads(layout) /\ moving \in BOOLEAN
      /\ failures \in 0 .. 2 /\ slows \in 0 .. 3 /\ words \in Link
      /\ reports \subseteq Report /\ described \in BOOLEAN /\ window \in Window
      /\ warming \in Warming /\ warm \subseteq 1 .. PageCount
      /\ turns \in 0 .. MaxTurns /\ wasted \in 0 .. 2
  BY <1>0 DEF WindowTypeOK
<1>r. ASSUME NEW network \in Link, NEW stable \in BOOLEAN, NEW thenWarm \in BOOLEAN,
             Reporting(network, stable, thenWarm)
      PROVE  reports' \subseteq Report
  <2>1. [network |-> network, stable |-> stable, thenWarm |-> thenWarm] \in Report
    BY DEF Report
  <2> QED
    BY <1>t, <1>r, <2>1 DEF Reporting
<1>1. ASSUME NEW r \in reports, ReportLands(r) PROVE PassInv'
  <2>1. r \in Report
    BY <1>1, <1>t
  <2>2. PICK set \in BOOLEAN, answered \in BOOLEAN :
           /\ window' = IF set THEN Plan(r) ELSE window
           /\ described' = (described \/ answered)
    BY <1>1 DEF ReportLands
  <2>3. Plan(r) \in Window /\ WindowFits(Plan(r)) /\ Plan(r).inFlight <= 4
    BY <2>1, PlanFits
  <2>4. window' \in Window /\ window'.inFlight <= 4
    BY <1>0, <1>t, <2>2, <2>3
  <2>5. machine' = machine
    BY <1>1 DEF ReportLands
  <2>6. WindowFits(window)'
    <3>1. CASE set
      <4>1. window' = Plan(r)
        BY <2>2, <3>1
      <4>2. PICK w : w = Plan(r)
        OBVIOUS
      <4>3. window' = w /\ WindowFits(w)
        BY <2>3, <4>1, <4>2
      <4> QED
        BY <2>5, <4>3 DEF WindowFits, Ceiling, MemoryTier, PageCost
    <3>2. CASE ~set
      <4>1. window' = window
        BY <2>2, <3>2
      <4> QED
        BY <1>0, <2>5, <4>1 DEF WindowFits, Ceiling, MemoryTier, PageCost
    <3> QED
      BY <3>1, <3>2
  <2>7. warming' \in Warming /\ Small(warming)'
    <3>1. CASE r.thenWarm
      <4>1. PICK w : w = window'
        OBVIOUS
      <4>2. Warm(layout, spread, w)
        BY <1>1, <3>1, <4>1 DEF ReportLands
      <4>3. /\ w.forward \in Nat /\ w.back \in Nat /\ w.cap \in Nat
            /\ w.inFlight \in Nat /\ w.inFlight <= 4
        BY <2>4, <4>1 DEF Window
      <4>4. spread \in Nat \ {0}
        <5>1. spread \in DOMAIN Spreads(layout)
          BY <1>t
        <5> QED
          BY <5>1, SpreadsAre DEF LaysOut
      <4>5. warming \in Warming /\ Small(warming)
        BY <1>0, <1>t
      <4>6. warming' \in Warming /\ Small(warming')
        BY <4>2, <4>3, <4>4, <4>5, PassStarts
      <4> QED
        BY <4>6 DEF Small
    <3>2. CASE ~r.thenWarm
      <4>1. warming' = warming
        BY <1>1, <3>2 DEF ReportLands
      <4> QED
        BY <1>0, <1>t, <4>1 DEF Small
    <3> QED
      BY <3>1, <3>2
  <2>8. spread' \in DOMAIN Spreads(layout)'
    BY <1>1, <1>t DEF ReportLands, Spreads
  <2>9. reports' \subseteq Report /\ wasted' \in 0 .. 2 /\ described' \in BOOLEAN
    BY <1>1, <1>t, <2>2 DEF ReportLands
  <2>10. WindowTypeOK'
    BY <1>1, <1>t, <2>4, <2>7, <2>8, <2>9 DEF ReportLands, WindowTypeOK
  <2> QED
    BY <2>4, <2>6, <2>7, <2>10 DEF PassInv
<1>2. ASSUME UNCHANGED <<machine, layout, spread>> PROVE (spread \in DOMAIN Spreads(layout))'
  BY <1>2, <1>t DEF Spreads
<1>3. ASSUME UNCHANGED <<machine, window>>
      PROVE  (WindowFits(window) /\ window.inFlight <= 4)'
  BY <1>0, <1>3 DEF WindowFits, Ceiling, MemoryTier, PageCost
<1>4. ASSUME UNCHANGED warming PROVE Small(warming)'
  BY <1>0, <1>4 DEF Small
<1>5. /\ warming.queue \in Seq(1 .. PageCount) /\ warming.got \in SUBSET (1 .. PageCount)
      /\ warming = [on |-> warming.on, queue |-> warming.queue, got |-> warming.got]
      /\ warming.on \in BOOLEAN
  BY <1>t DEF Warming
<1>6. ASSUME WarmFetch PROVE PassInv'
  <2>1. PICK queue : queue = warming.queue
    OBVIOUS
  <2>2. PICK got : got = warming.got
    OBVIOUS
  <2>3. /\ queue \in Seq(1 .. PageCount) /\ queue # <<>> /\ got \in SUBSET (1 .. PageCount)
        /\ warming = [on |-> warming.on, queue |-> queue, got |-> got] /\ warming.on = TRUE
    BY <1>5, <1>6, <2>1, <2>2 DEF WarmFetch
  <2>4. /\ Len(queue) + Cardinality(got) <= 4
        /\ \A i, j \in DOMAIN queue : queue[i] \notin got /\ (queue[i] = queue[j] => i = j)
    BY <1>0, <2>1, <2>2 DEF Small
  <2>5. IsFiniteSet(got) /\ Cardinality(got) \in Nat
    <3>1. 1 \in Int /\ PageCount \in Int
      BY ReaderWindowAssumption
    <3>2. PICK book : book = 1 .. PageCount
      OBVIOUS
    <3>3. IsFiniteSet(book)
      BY <3>1, <3>2, FS_Interval
    <3>4. got \in SUBSET book
      BY <2>3, <3>2
    <3>5. IsFiniteSet(got)
      BY <3>3, <3>4, FS_Subset
    <3> QED
      BY <3>5, FS_CardinalityType
  <2>6. CASE radio = "down"
    <3>1. warming' = [on |-> TRUE, queue |-> <<>>, got |-> got]
      BY <1>6, <2>3, <2>6 DEF WarmFetch
    <3>2. <<>> \in Seq(1 .. PageCount) /\ Len(<<>>) = 0 /\ DOMAIN <<>> = {} /\ Len(queue) \in Nat
      BY <2>3
    <3>3. warming' \in Warming
      BY <2>3, <3>1, <3>2 DEF Warming
    <3>4. warming'.queue = <<>> /\ warming'.got = got
      BY <3>1
    <3>5. Small(warming)'
      BY <2>4, <2>5, <3>2, <3>4 DEF Small
    <3>6. wasted' \in 0 .. 2
      BY <1>6, <1>t, <2>6 DEF WarmFetch, Least
    <3>7. WindowTypeOK'
      BY <1>2, <1>6, <1>t, <3>3, <3>6 DEF WarmFetch, WindowTypeOK
    <3> QED
      BY <1>3, <1>6, <3>5, <3>7 DEF WarmFetch, PassInv
  <2>7. CASE radio # "down"
    <3>1. PICK page : page = Head(queue)
      OBVIOUS
    <3>2. PICK rest : rest = Tail(queue)
      OBVIOUS
    <3>3. PICK more : more = got \cup {page}
      OBVIOUS
    <3>4. /\ page = queue[1] /\ page \in 1 .. PageCount
          /\ rest \in Seq(1 .. PageCount) /\ Len(rest) = Len(queue) - 1 /\ Len(queue) \in Nat \ {0}
          /\ \A i \in 1 .. Len(rest) : rest[i] = queue[i + 1]
      <4>1. PICK PageNumber : PageNumber = 1 .. PageCount
        OBVIOUS
      <4>2. queue \in Seq(PageNumber) /\ queue # <<>>
        BY <2>3, <4>1
      <4>3. Len(queue) \in Nat \ {0} /\ Head(queue) = queue[1] /\ queue[1] \in PageNumber
        BY <4>2, EmptySeq, FirstIsThere
      <4>4. /\ rest \in Seq(PageNumber) /\ Len(rest) = Len(queue) - 1
            /\ \A i \in 1 .. Len(rest) : rest[i] = queue[i + 1]
        BY <3>2, <4>2, HeadTailProperties
      <4> QED
        BY <3>1, <4>1, <4>3, <4>4
    <3>5. warming' = [on |-> TRUE, queue |-> rest, got |-> more]
      <4>1. PICK before : before = warming
        OBVIOUS
      <4>2. before = [on |-> TRUE, queue |-> queue, got |-> got] /\ before.queue = queue
        BY <2>1, <2>3, <4>1
      <4>3. warming' = [before EXCEPT !.queue = Tail(@), !.got = @ \cup {Head(before.queue)}]
        BY <1>6, <2>7, <4>1 DEF WarmFetch
      <4>4. warming' = [on |-> TRUE, queue |-> Tail(queue), got |-> got \cup {Head(queue)}]
        BY <4>2, <4>3
      <4> QED
        BY <3>1, <3>2, <3>3, <4>4
    <3>6. warming'.queue = rest /\ warming'.got = more /\ warming' \in Warming
      BY <2>3, <3>3, <3>4, <3>5 DEF Warming
    <3>7. Cardinality(more) <= Cardinality(got) + 1 /\ Cardinality(more) \in Nat
      BY <2>5, <3>3, FS_AddElement
    <3>8. Len(rest) + Cardinality(more) <= 4
      BY <2>4, <2>5, <3>4, <3>7
    <3>9. ASSUME NEW i \in DOMAIN rest, NEW j \in DOMAIN rest
          PROVE  rest[i] \notin more /\ (rest[i] = rest[j] => i = j)
      <4>1. /\ i \in 1 .. Len(rest) /\ j \in 1 .. Len(rest)
            /\ DOMAIN queue = 1 .. Len(queue)
        BY <2>3, <3>4
      <4>2. /\ i + 1 \in DOMAIN queue /\ j + 1 \in DOMAIN queue /\ 1 \in DOMAIN queue
            /\ i + 1 # 1 /\ (i + 1 = j + 1 => i = j)
        BY <3>4, <4>1
      <4>3. rest[i] = queue[i + 1] /\ rest[j] = queue[j + 1]
        BY <3>4, <4>1
      <4>4. queue[i + 1] \notin got /\ queue[i + 1] # queue[1]
        BY <2>4, <4>2
      <4> QED
        BY <2>4, <3>3, <3>4, <4>2, <4>3, <4>4
    <3>10. Small(warming)'
      BY <3>6, <3>8, <3>9 DEF Small
    <3>11. WindowTypeOK'
      BY <1>2, <1>6, <1>t, <2>7, <3>6 DEF WarmFetch, WindowTypeOK
    <3> QED
      BY <1>3, <1>6, <3>10, <3>11 DEF WarmFetch, PassInv
  <2> QED
    BY <2>6, <2>7
<1>7. NotWarming \in Warming /\ Small(NotWarming)
  <2>1. Cardinality({}) = 0
    BY FS_EmptySet
  <2>2. <<>> \in Seq(1 .. PageCount) /\ Len(<<>>) = 0 /\ DOMAIN <<>> = {}
    OBVIOUS
  <2>3. NotWarming.queue = <<>> /\ NotWarming.got = {}
    BY DEF NotWarming
  <2>4. Small(NotWarming)
    BY <2>1, <2>2, <2>3 DEF Small
  <2> QED
    BY <2>2, <2>4 DEF NotWarming, Warming
<1>8. ASSUME WarmEnd \/ WarmAborts PROVE PassInv'
  <2>1. failures' \in 0 .. 2 /\ slows' \in 0 .. 3
    BY <1>8, <1>t DEF WarmEnd, WarmAborts, Least
  <2>2. words' \in Link /\ reports' \subseteq Report
    <3>1. Rejudge
      BY <1>8 DEF WarmEnd, WarmAborts
    <3> QED
      BY <1>t, <3>1, RejudgeTypes
  <2>3. warming' = NotWarming
    BY <1>8 DEF WarmEnd, WarmAborts
  <2>4. warming' \in Warming /\ Small(warming)'
    BY <1>7, <2>3 DEF Small
  <2>5. warm' \subseteq 1 .. PageCount
    BY <1>5, <1>8, <1>t DEF WarmEnd, WarmAborts
  <2>6. WindowTypeOK'
    BY <1>2, <1>8, <1>t, <2>1, <2>2, <2>4, <2>5 DEF WarmEnd, WarmAborts, WindowTypeOK
  <2> QED
    BY <1>3, <1>8, <2>4, <2>6 DEF WarmEnd, WarmAborts, PassInv
<1>9. ASSUME NEW p \in 1 .. PageCount, Show(p) PROVE PassInv'
  <2>1. failures' \in 0 .. 2 /\ slows' \in 0 .. 3
    BY <1>9, <1>t DEF Show, Least
  <2>2. WindowTypeOK'
    BY <1>2, <1>9, <1>t, <2>1 DEF Show, WindowTypeOK
  <2> QED
    BY <1>3, <1>4, <1>9, <2>2 DEF Show, PassInv
<1>10. ASSUME NEW p \in 1 .. PageCount, ShowFails(p) PROVE PassInv'
  <2>1. failures' \in 0 .. 2 /\ slows' \in 0 .. 3
    BY <1>10, <1>t DEF ShowFails, Least
  <2>2. words' \in Link /\ reports' \subseteq Report
    <3>1. Rejudge
      BY <1>10 DEF ShowFails
    <3> QED
      BY <1>t, <3>1, RejudgeTypes
  <2>3. WindowTypeOK'
    BY <1>2, <1>10, <1>t, <2>1, <2>2 DEF ShowFails, WindowTypeOK
  <2> QED
    BY <1>3, <1>4, <1>10, <2>3 DEF ShowFails, PassInv
<1>11. Gesture => turns' \in 0 .. MaxTurns
  BY <1>t, ReaderWindowAssumption DEF Gesture
<1>12. /\ window.forward \in Nat /\ window.back \in Nat /\ window.cap \in Nat
       /\ window.inFlight \in Nat /\ window.inFlight <= 4
  BY <1>0, <1>t DEF Window
<1>13. ASSUME NEW mode, NEW center \in DOMAIN Spreads(mode), Warm(mode, center, window)
       PROVE  warming' \in Warming /\ Small(warming)'
  <2>1. center \in Nat \ {0}
    BY SpreadsAre DEF LaysOut
  <2>2. warming \in Warming /\ Small(warming)
    BY <1>0, <1>t
  <2>3. warming' \in Warming /\ Small(warming')
    BY <1>12, <1>13, <2>1, <2>2, PassStarts
  <2> QED
    BY <2>3 DEF Small
<1>14. ASSUME NEW to \in 1 .. PageCount, Turn(to) PROVE PassInv'
  <2>1. to \in DOMAIN Spreads(layout) /\ Warm(layout, to, window)
    BY <1>14 DEF Turn
  <2>2. warming' \in Warming /\ Small(warming)'
    BY <1>13, <2>1
  <2>3. spread' \in DOMAIN Spreads(layout)'
    BY <1>14, <2>1 DEF Turn, Spreads
  <2>4. reports' \subseteq Report
    <3>1. CASE moving /\ described
      <4>1. Reporting(words, FALSE, FALSE)
        BY <1>14, <3>1 DEF Turn
      <4> QED
        BY <1>r, <1>t, <4>1
    <3>2. CASE ~(moving /\ described)
      BY <1>14, <1>t, <3>2 DEF Turn
    <3> QED
      BY <3>1, <3>2
  <2>5. turns' \in 0 .. MaxTurns
    BY <1>11, <1>14 DEF Turn
  <2>6. WindowTypeOK'
    BY <1>14, <1>t, <2>2, <2>3, <2>4, <2>5 DEF Turn, WindowTypeOK
  <2> QED
    BY <1>3, <1>14, <2>2, <2>6 DEF Turn, PassInv
<1>15. ASSUME Settle PROVE PassInv'
  <2>1. WindowTypeOK'
    BY <1>2, <1>15, <1>t DEF Settle, WindowTypeOK
  <2> QED
    BY <1>3, <1>4, <1>15, <2>1 DEF Settle, PassInv
<1>16. ASSUME NEW mode \in Layouts, Relayout(mode) PROVE PassInv'
  <2>1. PICK to : to = IndexForPage(Spreads(mode), EntryPage(Spreads(layout), spread, 1))
    OBVIOUS
  <2>2. to \in DOMAIN Spreads(mode)
    BY <1>t, <2>1, EntryIsShown
  <2>3. spread' = to /\ layout' = mode /\ Warm(mode, to, window)
    BY <1>16, <2>1 DEF Relayout
  <2>4. warming' \in Warming /\ Small(warming)'
    BY <1>13, <2>2, <2>3
  <2>5. spread' \in DOMAIN Spreads(layout)'
    BY <2>2, <2>3 DEF Spreads
  <2>6. WindowTypeOK'
    BY <1>11, <1>16, <1>t, <2>3, <2>4, <2>5 DEF Relayout, WindowTypeOK
  <2> QED
    BY <1>3, <1>16, <2>4, <2>6 DEF Relayout, PassInv
<1>17. ASSUME Resume \/ Pressure PROVE PassInv'
  <2>1. reports' \subseteq Report
    <3>1. "wifi" \in Link
      BY DEF Link
    <3>2. Reporting("wifi", TRUE, TRUE) \/ Reporting(words, TRUE, FALSE)
      BY <1>17 DEF Resume, Pressure
    <3> QED
      BY <1>r, <1>t, <3>1, <3>2
  <2>2. failures' \in 0 .. 2 /\ slows' \in 0 .. 3 /\ words' \in Link /\ moving' \in BOOLEAN
    <3>1. CASE Resume
      <4>1. failures' = 0 /\ slows' = 0 /\ words' = "wifi"
        BY <3>1 DEF Resume
      <4>2. moving' = FALSE
        BY <3>1 DEF Resume
      <4>3. words' \in Link
        BY <4>1 DEF Link
      <4>4. moving' \in BOOLEAN
        BY <4>2
      <4>5. failures' \in 0 .. 2 /\ slows' \in 0 .. 3
        BY <4>1
      <4> QED
        BY <4>3, <4>4, <4>5
    <3>2. CASE Pressure
      BY <1>t, <3>2 DEF Pressure
    <3> QED
      BY <1>17, <3>1, <3>2
  <2>3. turns' \in 0 .. MaxTurns
    BY <1>11, <1>17 DEF Resume, Pressure
  <2>4. WindowTypeOK'
    BY <1>2, <1>17, <1>t, <2>1, <2>2, <2>3 DEF Resume, Pressure, WindowTypeOK
  <2> QED
    BY <1>3, <1>4, <1>17, <2>4 DEF Resume, Pressure, PassInv
<1>18. ASSUME NEW to \in Radios, RadioChanges(to) PROVE PassInv'
  <2>1. WindowTypeOK'
    BY <1>2, <1>18, <1>t DEF RadioChanges, WindowTypeOK
  <2> QED
    BY <1>3, <1>4, <1>18, <2>1 DEF RadioChanges, PassInv
<1>19. CASE UNCHANGED wvars
  <2>1. WindowTypeOK'
    BY <1>2, <1>19, <1>t DEF wvars, WindowTypeOK
  <2> QED
    BY <1>3, <1>4, <1>19, <2>1 DEF wvars, PassInv
<1>20. CASE WindowNext
  BY <1>1, <1>6, <1>8, <1>9, <1>10, <1>14, <1>15, <1>16, <1>17, <1>18, <1>20 DEF WindowNext
<1> QED
  BY <1>19, <1>20

LEMMA PassInvariant == WindowSpec => []PassInv
<1>1. WindowInit => PassInv
  BY PassStartsSmall
<1>2. PassInv /\ [WindowNext]_wvars => PassInv'
  BY PassStep
<1> QED
  BY <1>1, <1>2, PTL DEF WindowSpec

\* The variables of the window keep their types: in particular the spread on screen stays
\* one of the layout's when the mode changes under it.
THEOREM WindowTypes == WindowSpec => []WindowTypeOK
<1>1. PassInv => WindowTypeOK
  BY DEF PassInv
<1> QED
  BY <1>1, PassInvariant, PTL

\* The plan in force always keeps to what the device may hold and leaves room for a
\* spread, whichever of the reports under way came last and however often the layout
\* changed since it was made.
THEOREM PlansStayFit == WindowSpec => []PlansFit
<1>1. PassInv => PlansFit
  BY DEF PassInv, WindowFits, PlansFit
<1> QED
  BY <1>1, PassInvariant, PTL

\* A pass never pulls more than four pages, nor one of them twice, also when the plan it
\* was begun under has been replaced (_warmWindow and reader_prefetch).
THEOREM PassesAreSmall == WindowSpec => []PassesStaySmall
<1>1. PassInv => PassesStaySmall
  BY DEF PassInv, Small, PassesStaySmall
<1> QED
  BY <1>1, PassInvariant, PTL

-------------------------------------------------------------------------------
(* The series page                                                           *)

LEMMA InOrderOnce ==
    /\ InOrder \in Seq(Book) /\ Once(InOrder)
    /\ \A b \in Book : \E k \in 1 .. Len(InOrder) : InOrder[k] = b
<1>1. /\ InOrder \in Seq(Book) /\ ToSet(InOrder) = Book /\ Len(InOrder) = Cardinality(Book)
      /\ Len(InOrder) \in Nat
  BY SeriesPageAssumption
<1>2. \A b \in Book : \E k \in 1 .. Len(InOrder) : InOrder[k] = b
  BY <1>1 DEF ToSet
<1>3. InOrder \in [1 .. Len(InOrder) -> Book]
  BY <1>1
<1>4. InOrder \in Surjection(1 .. Len(InOrder), Book)
  BY <1>2, <1>3 DEF Surjection
<1>5. IsFiniteSet(1 .. Len(InOrder)) /\ Cardinality(1 .. Len(InOrder)) = Len(InOrder)
  BY <1>1, FS_Interval
<1>6. InOrder \in Injection(1 .. Len(InOrder), Book)
  BY <1>1, <1>4, <1>5, FS_SurjSameCardinalityImpliesInj
<1> QED
  BY <1>1, <1>2, <1>3, <1>6 DEF Once, Injection, IsInjective

\* What the series page knows of its catalog.
CatalogStands ==
    /\ catalog \in Catalog
    /\ Once(catalog.recent)
    /\ \A b \in Book : \E k \in 1 .. Len(catalog.recent) : catalog.recent[k] = b

Ahead(r, i) == {r[j] : j \in 1 .. i - 1}

\* The book at place i has the i - 1 books before it before it.
LEMMA OrderedIs ==
    ASSUME CatalogStands, NEW r, r = Ordered(catalog)
    PROVE  /\ r \in Seq(Book) /\ Once(r)
           /\ \A i \in 1 .. Len(r) : r[i] \in catalog.books
           /\ \A b \in catalog.books : \E i \in 1 .. Len(r) : r[i] = b
           /\ \A i \in 1 .. Len(r) : Before(r[i]) = Ahead(r, i)
<1>1. catalog.books \subseteq Book
  BY DEF CatalogStands, Catalog
<1>2. /\ r \in Seq(Book) /\ Once(r) /\ Len(r) \in Nat
      /\ \A i \in 1 .. Len(r) : r[i] \in catalog.books
      /\ \A k \in 1 .. Len(InOrder) :
            InOrder[k] \in catalog.books => \E i \in 1 .. Len(r) : r[i] = InOrder[k]
      /\ \A i, j \in 1 .. Len(r), k, l \in 1 .. Len(InOrder) :
            r[i] = InOrder[k] /\ r[j] = InOrder[l] => (i < j <=> k < l)
  <2>1. r = Sift(InOrder, catalog.books) /\ InOrder \in Seq(Book) /\ Once(InOrder)
    BY InOrderOnce DEF Ordered
  <2>2. r \in Seq(Book) /\ Len(r) \in Nat
    BY <2>1, SiftKeeps
  <2> QED
    BY <2>1, <2>2, SiftOnce
<1>3. \A b \in catalog.books : \E i \in 1 .. Len(r) : r[i] = b
  BY <1>1, <1>2, InOrderOnce
<1>4. DOMAIN InOrder = 1 .. Len(InOrder)
  BY InOrderOnce
<1>5. ASSUME NEW i \in 1 .. Len(r) PROVE Before(r[i]) = Ahead(r, i)
  <2>1. ASSUME NEW o \in Before(r[i]) PROVE o \in Ahead(r, i)
    <3>1. PICK k, l \in 1 .. Len(InOrder) : k < l /\ InOrder[k] = o /\ InOrder[l] = r[i]
      BY <1>4, <2>1 DEF Before
    <3>2. PICK j \in 1 .. Len(r) : r[j] = o
      BY <1>3, <2>1 DEF Before
    <3>3. j < i
      BY <1>2, <3>1, <3>2
    <3> QED
      BY <1>2, <3>2, <3>3 DEF Ahead
  <2>2. ASSUME NEW j \in 1 .. i - 1 PROVE r[j] \in Before(r[i])
    <3>1. j \in 1 .. Len(r) /\ j < i
      BY <1>2
    <3>2. r[j] \in catalog.books /\ r[i] \in catalog.books /\ r[j] \in Book /\ r[i] \in Book
      BY <1>1, <1>2, <3>1
    <3>3. PICK k \in 1 .. Len(InOrder) : InOrder[k] = r[j]
      BY <3>2, InOrderOnce
    <3>4. PICK l \in 1 .. Len(InOrder) : InOrder[l] = r[i]
      BY <3>2, InOrderOnce
    <3>5. k < l
      BY <1>2, <3>1, <3>3, <3>4
    <3> QED
      BY <1>4, <3>2, <3>3, <3>4, <3>5 DEF Before
  <2> QED
    BY <2>1, <2>2 DEF Ahead
<1> QED
  BY <1>2, <1>3, <1>5

LEMMA PlaceIs ==
    ASSUME CatalogStands, NEW r, r = Ordered(catalog), NEW i \in 1 .. Len(r)
    PROVE  PositionIn(r, r[i]) = Cardinality(Before(r[i])) + 1 /\ PositionIn(r, r[i]) \in Nat
<1>1. /\ r \in Seq(Book) /\ Once(r) /\ Len(r) \in Nat
      /\ Before(r[i]) = Ahead(r, i)
  <2>1. /\ r \in Seq(Book) /\ Once(r)
        /\ \A n \in 1 .. Len(r) : Before(r[n]) = Ahead(r, n)
    BY OrderedIs
  <2> QED
    BY <2>1
<1>2. DOMAIN r = 1 .. Len(r) /\ r[i] \in ToSet(r)
  BY <1>1 DEF ToSet
<1>3. PositionIn(r, r[i]) = CHOOSE j \in 1 .. Len(r) : r[j] = r[i]
  BY <1>2 DEF PositionIn
<1>4. PositionIn(r, r[i]) = i
  BY <1>1, <1>3 DEF Once
<1>5. PICK f : f = [j \in 1 .. i - 1 |-> r[j]]
  OBVIOUS
<1>6. f \in [1 .. i - 1 -> Before(r[i])]
  BY <1>1, <1>5 DEF Ahead
<1>7. f \in Bijection(1 .. i - 1, Before(r[i]))
  <2>1. \A j \in 1 .. i - 1 : j \in 1 .. Len(r) /\ f[j] = r[j]
    BY <1>1, <1>5
  <2>2. f \in Injection(1 .. i - 1, Before(r[i]))
    BY <1>1, <1>6, <2>1 DEF Injection, IsInjective, Once
  <2>3. f \in Surjection(1 .. i - 1, Before(r[i]))
    BY <1>1, <1>6, <2>1 DEF Surjection, Ahead
  <2> QED
    BY <2>2, <2>3 DEF Bijection
<1>8. i - 1 \in Nat /\ ExistsBijection(1 .. i - 1, Before(r[i]))
  BY <1>7 DEF ExistsBijection
<1>9. Cardinality(Before(r[i])) = i - 1
  BY <1>8, FS_CountingElements
<1> QED
  BY <1>4, <1>9

RankOf(b) == CHOOSE i \in DOMAIN catalog.recent : catalog.recent[i] = b

\* What TargetFollowsTheRule says of a target.
RuleFor(t) ==
    LET begun == {b \in catalog.books : catalog.status[b] = "in_progress"}
    IN  /\ (t.intent = "empty") <=> (catalog.books = {})
        /\ t.intent # "empty" =>
              /\ t.book \in catalog.books
              /\ t.position = Cardinality(Before(t.book)) + 1
              /\ (t.intent = "continue") <=> (begun # {})
              /\ t.intent = "continue" =>
                    t.book \in begun /\ \A b \in begun : RankOf(t.book) <= RankOf(b)
              /\ t.intent = "start" =>
                    /\ catalog.status[t.book] = "unread"
                    /\ \A b \in Before(t.book) : catalog.status[b] = "read"
              /\ t.intent = "reread" =>
                    /\ Before(t.book) = {}
                    /\ \A b \in catalog.books : catalog.status[b] = "read"

LEMMA NewestIs ==
    ASSUME CatalogStands, NEW r, r = NewestInProgress(catalog)
    PROVE  /\ r = <<>> => \A b \in catalog.books : catalog.status[b] # "in_progress"
           /\ r # <<>> => /\ Head(r) \in catalog.books /\ catalog.status[Head(r)] = "in_progress"
                          /\ \A b \in catalog.books : catalog.status[b] = "in_progress" =>
                                RankOf(Head(r)) <= RankOf(b)
<1> DEFINE begun == {b \in catalog.books : catalog.status[b] = "in_progress"}
<1>1. /\ catalog.recent \in Seq(Book) /\ catalog.books \subseteq Book /\ Once(catalog.recent)
      /\ \A b \in Book : \E k \in 1 .. Len(catalog.recent) : catalog.recent[k] = b
  BY DEF CatalogStands, Catalog
<1>2. DOMAIN catalog.recent = 1 .. Len(catalog.recent) /\ r = Sift(catalog.recent, begun)
  BY <1>1 DEF NewestInProgress
<1>3. \A k \in 1 .. Len(catalog.recent) : RankOf(catalog.recent[k]) = k
  BY <1>1, <1>2 DEF RankOf, Once
<1>4. CASE r = <<>>
  <2>1. \A k \in 1 .. Len(catalog.recent) : catalog.recent[k] \notin begun
    <3> HIDE DEF begun
    <3> QED
      BY <1>1, <1>2, <1>4, SiftHead
  <2> QED
    BY <1>1, <1>4, <2>1
<1>5. CASE r # <<>>
  <2>1. PICK k \in 1 .. Len(catalog.recent) :
            /\ Head(r) = catalog.recent[k] /\ catalog.recent[k] \in begun
            /\ \A j \in 1 .. Len(catalog.recent) : catalog.recent[j] \in begun => k <= j
    <3> HIDE DEF begun
    <3> QED
      BY <1>1, <1>2, <1>5, SiftHead
  <2>2. ASSUME NEW b \in begun PROVE RankOf(Head(r)) <= RankOf(b)
    <3>1. PICK j \in 1 .. Len(catalog.recent) : catalog.recent[j] = b
      BY <1>1
    <3> QED
      BY <1>3, <2>1, <2>2, <3>1
  <2> QED
    BY <1>5, <2>1, <2>2
<1> QED
  BY <1>4, <1>5

\* The first unread of the order has only books before it that are not unread.
LEMMA UnreadIs ==
    ASSUME CatalogStands, NEW r, r = Ordered(catalog),
           NEW u, u = Sift(r, {b \in Book : catalog.status[b] = "unread"})
    PROVE  /\ u = <<>> => \A b \in catalog.books : catalog.status[b] # "unread"
           /\ u # <<>> => /\ Head(u) \in catalog.books
                          /\ catalog.status[Head(u)] = "unread"
                          /\ \A b \in Before(Head(u)) : catalog.status[b] # "unread"
<1> DEFINE unread == {b \in Book : catalog.status[b] = "unread"}
<1>1. /\ r \in Seq(Book) /\ \A i \in 1 .. Len(r) : r[i] \in catalog.books
      /\ \A b \in catalog.books : \E i \in 1 .. Len(r) : r[i] = b
      /\ \A i \in 1 .. Len(r) : Before(r[i]) = Ahead(r, i)
  <2>1. \A i \in 1 .. Len(r) : Before(r[i]) = Ahead(r, i)
    BY OrderedIs
  <2>2. /\ r \in Seq(Book) /\ \A i \in 1 .. Len(r) : r[i] \in catalog.books
        /\ \A b \in catalog.books : \E i \in 1 .. Len(r) : r[i] = b
    BY OrderedIs
  <2> QED
    BY <2>1, <2>2
<1>2. u = Sift(r, unread)
  OBVIOUS
<1>3. CASE u = <<>>
  <2>1. \A k \in 1 .. Len(r) : r[k] \notin unread
    <3>1. r \in Seq(Book)
      BY <1>1
    <3> HIDE DEF unread
    <3> QED
      BY <1>2, <1>3, <3>1, SiftHead
  <2> QED
    BY <1>1, <1>3, <2>1
<1>4. CASE u # <<>>
  <2>1. PICK k \in 1 .. Len(r) : /\ Head(u) = r[k] /\ r[k] \in unread
                                 /\ \A j \in 1 .. Len(r) : r[j] \in unread => k <= j
    <3>1. r \in Seq(Book)
      BY <1>1
    <3> HIDE DEF unread
    <3> QED
      BY <1>2, <1>4, <3>1, SiftHead
  <2>2. ASSUME NEW b \in Before(r[k]) PROVE catalog.status[b] # "unread"
    <3>1. b \in {r[j] : j \in 1 .. k - 1}
      BY <1>1 DEF Ahead
    <3>2. PICK j \in 1 .. k - 1 : b = r[j]
      BY <3>1
    <3>3. Len(r) \in Nat
      BY <1>1
    <3>4. j \in 1 .. Len(r) /\ ~(k <= j)
      BY <3>3
    <3>5. r[j] \in Book
      BY <1>1, <3>4
    <3> QED
      BY <2>1, <3>2, <3>4, <3>5
  <2>3. Head(u) \in catalog.books
    BY <1>1, <2>1
  <2> QED
    BY <1>4, <2>1, <2>2, <2>3
<1> QED
  BY <1>3, <1>4

\* The three ways to answer, by the catalog as it is.
LEMMA AimIsRight ==
    ASSUME CatalogStands, catalog.books # {}, NEW r, r = Ordered(catalog),
           NEW n, n = NewestInProgress(catalog),
           NEW u, u = Sift(r, {b \in Book : catalog.status[b] = "unread"}),
           NEW b, NEW intent,
           \/ n # <<>> /\ b = Head(n) /\ intent = "continue"
           \/ n = <<>> /\ u # <<>> /\ b = Head(u) /\ intent = "start"
           \/ n = <<>> /\ u = <<>> /\ b = Head(r) /\ intent = "reread",
           NEW t, t.book = b, t.intent = intent, t.position = PositionIn(r, b)
    PROVE  RuleFor(t)
<1>1. /\ r \in Seq(Book)
      /\ \A i \in 1 .. Len(r) : r[i] \in catalog.books
      /\ \A o \in catalog.books : \E i \in 1 .. Len(r) : r[i] = o
      /\ \A i \in 1 .. Len(r) : Before(r[i]) = Ahead(r, i)
  <2>1. \A i \in 1 .. Len(r) : Before(r[i]) = Ahead(r, i)
    BY OrderedIs
  <2>2. /\ r \in Seq(Book)
        /\ \A i \in 1 .. Len(r) : r[i] \in catalog.books
        /\ \A o \in catalog.books : \E i \in 1 .. Len(r) : r[i] = o
    BY OrderedIs
  <2> QED
    BY <2>1, <2>2
<1>2. /\ \A o : Before(o) \subseteq catalog.books
      /\ \A o \in catalog.books : catalog.status[o] \in Status
  BY DEF Before, CatalogStands, Catalog
<1>3. ASSUME NEW i \in 1 .. Len(r), b = r[i]
      PROVE  b \in catalog.books /\ t.position = Cardinality(Before(b)) + 1
  BY <1>1, <1>3, PlaceIs
<1>4. CASE n # <<>> /\ b = Head(n) /\ intent = "continue"
  <2>1. /\ b \in catalog.books /\ catalog.status[b] = "in_progress"
        /\ \A o \in catalog.books : catalog.status[o] = "in_progress" => RankOf(b) <= RankOf(o)
    BY <1>4, NewestIs
  <2>2. PICK i \in 1 .. Len(r) : b = r[i]
    BY <1>1, <2>1
  <2> QED
    BY <1>3, <1>4, <2>1, <2>2 DEF RuleFor
<1>5. CASE n = <<>> /\ u # <<>> /\ b = Head(u) /\ intent = "start"
  <2>1. \A o \in catalog.books : catalog.status[o] # "in_progress"
    BY <1>5, NewestIs
  <2>2. PICK i \in 1 .. Len(r) : b = r[i]
    <3>1. Head(u) \in catalog.books
      BY <1>5, UnreadIs
    <3> QED
      BY <1>1, <1>5, <3>1
  <2>3. catalog.status[b] = "unread" /\ \A o \in Before(b) : catalog.status[o] # "unread"
    BY <1>5, UnreadIs
  <2>4. \A o \in Before(b) : catalog.status[o] = "read"
    BY <1>2, <2>1, <2>3 DEF Status
  <2> QED
    BY <1>3, <1>5, <2>1, <2>2, <2>3, <2>4 DEF RuleFor
<1>6. CASE n = <<>> /\ u = <<>> /\ b = Head(r) /\ intent = "reread"
  <2>1. \A o \in catalog.books : catalog.status[o] # "in_progress" /\ catalog.status[o] # "unread"
    BY <1>6, NewestIs, UnreadIs
  <2>2. 1 \in 1 .. Len(r) /\ b = r[1]
    <3>1. r # <<>>
      BY <1>1
    <3> QED
      BY <1>1, <1>6, <3>1
  <2>3. Before(b) = {}
    <3>1. Ahead(r, 1) = {}
      BY DEF Ahead
    <3> QED
      BY <1>1, <2>2, <3>1
  <2>4. \A o \in catalog.books : catalog.status[o] = "read"
    BY <1>2, <2>1 DEF Status
  <2> QED
    BY <1>3, <1>6, <2>1, <2>2, <2>3, <2>4 DEF RuleFor
<1> QED
  BY <1>4, <1>5, <1>6

Detail ==
    [filter : Filter, shown : Seq(Book), total : Nat, of : Filter, target : Target]

Loading ==
    [id : Nat, kind : {"load", "reload", "more"}, filter : Filter, offset : Nat,
     step : {"count", "rows", "covers"}, total : Nat, items : Seq(Book),
     aim : {"complete", "order", "newest", "done"}, ordered : Seq(Book),
     statuses : [Book -> Status], target : Target]

PageTyped ==
    /\ server \subseteq Book
    /\ CatalogStands
    /\ detail \in Detail
    /\ loads \subseteq Loading
    /\ issued \in Nat

\* While nothing is committed, what a load has read of the catalog is so, and the
\* target it ends with is the right one.
AimStands(r) ==
    /\ r.aim = "newest" => r.ordered # <<>>
    /\ r.target.quiet /\ r.aim = "newest" =>
          r.ordered = Ordered(catalog) /\ r.statuses = catalog.status /\ catalog.books # {}
    /\ r.target.quiet /\ r.aim = "done" /\ r.target.intent # "none" => RuleFor(r.target)

ShownStands == detail.target.quiet /\ detail.target.intent # "none" => RuleFor(detail.target)

PageInv == PageTyped /\ (\A r \in loads : AimStands(r)) /\ ShownStands

LEMMA RuleIsTheRule == ShownStands => TargetFollowsTheRule
BY DEF ShownStands, RuleFor, RankOf, TargetFollowsTheRule

LEMMA NewLoadIs ==
    ASSUME PageTyped, NEW kind \in {"load", "reload", "more"}
    PROVE  /\ NewLoad(kind) \in Loading
           /\ NewLoad(kind).aim \in {"complete", "done"}
           /\ NewLoad(kind).target.intent = "none"
<1>1. detail \in Detail /\ issued + 1 \in Nat /\ detail.filter \in Filter /\ Len(detail.shown) \in Nat
  BY DEF PageTyped, Detail
<1>2. <<>> \in Seq(Book) /\ "unread" \in Status
  BY DEF Status
<1>3. [b \in Book |-> "unread"] \in [Book -> Status]
  BY <1>2
<1>4. PICK all \in BOOLEAN : all = (\A b \in catalog.books : catalog.status[b] = "read")
  OBVIOUS
<1>5. PICK t : t = [NoTarget EXCEPT !.allRead = all]
  OBVIOUS
<1>6. t \in Target /\ t.intent = "none"
  BY <1>5 DEF NoTarget, Target
<1>7. NewLoad(kind).target = t /\ NewLoad(kind).aim \in {"complete", "done"}
  BY <1>4, <1>5 DEF NewLoad
<1>8. NewLoad(kind) \in Loading
  BY <1>1, <1>2, <1>3, <1>4, <1>5, <1>6 DEF NewLoad, Loading
<1> QED
  BY <1>6, <1>7, <1>8

\* The catalog stays: what was right of it stays right.
LEMMA RuleStays ==
    ASSUME catalog' = catalog
    PROVE  /\ \A t : RuleFor(t)' <=> RuleFor(t)
           /\ \A r : AimStands(r)' <=> AimStands(r)
<1>1. Ordered(catalog)' = Ordered(catalog)
  BY DEF Ordered
<1>2. ASSUME NEW t PROVE RuleFor(t)' <=> RuleFor(t)
  BY DEF RuleFor, RankOf, Before
<1>3. ASSUME NEW r PROVE AimStands(r)' <=> AimStands(r)
  BY <1>1, <1>2 DEF AimStands
<1> QED
  BY <1>2, <1>3

\* Loads come and go and read on, and the screen takes over what one has read.
LoadsMove ==
    /\ server' = server /\ catalog' = catalog
    /\ issued' \in Nat
    /\ loads' \subseteq Loading /\ \A r \in loads' \ loads : AimStands(r)
    /\ detail' \in Detail
    /\ detail'.target = detail.target \/
         \E r \in loads : r.aim = "done" /\ detail'.target = r.target

LEMMA LoadsHaveMoved ==
    ASSUME PageInv, LoadsMove
    PROVE  PageInv'
<1>1. catalog' = catalog
  BY DEF LoadsMove
<1>2. PageTyped'
  BY DEF LoadsMove, PageInv, PageTyped, CatalogStands
<1>3. \A r \in loads' : AimStands(r)
  BY DEF LoadsMove, PageInv
<1>4. (\A r \in loads : AimStands(r))'
  BY <1>1, <1>3, RuleStays
<1>5. PICK t : t = detail'.target
  OBVIOUS
<1>6. t.quiet /\ t.intent # "none" => RuleFor(t)
  <2>1. CASE t = detail.target
    BY <2>1 DEF PageInv, ShownStands
  <2>2. CASE \E r \in loads : r.aim = "done" /\ t = r.target
    BY <2>2 DEF PageInv, AimStands
  <2> QED
    BY <1>5, <2>1, <2>2 DEF LoadsMove
<1>7. RuleFor(t)' <=> RuleFor(t)
  BY <1>1, RuleStays
<1>8. ShownStands'
  <2>1. ASSUME t.quiet, t.intent # "none" PROVE RuleFor(t)'
    BY <1>6, <1>7, <2>1
  <2> QED
    BY <1>5, <2>1 DEF ShownStands, RuleFor
<1> QED
  BY <1>2, <1>4, <1>8 DEF PageInv

LEMMA LoadBegins ==
    ASSUME PageInv, LoadDetail \/ LoadMoreBooks \/ ChooseFilter
    PROVE  PageInv'
<1>1. PageTyped /\ issued + 1 \in Nat /\ detail \in Detail /\ loads \subseteq Loading
  BY DEF PageInv, PageTyped
<1>2. ASSUME NEW n \in Loading, n.aim \in {"complete", "done"}, n.target.intent = "none",
             loads' = loads \cup {n}, issued' = issued + 1, server' = server,
             catalog' = catalog, detail' \in Detail, detail'.target = detail.target
      PROVE  PageInv'
  <2>1. AimStands(n)
    BY <1>2 DEF AimStands
  <2>2. LoadsMove
    BY <1>1, <1>2, <2>1 DEF LoadsMove
  <2> QED
    BY <2>2, LoadsHaveMoved
<1>3. ASSUME NEW kind \in {"load", "reload", "more"}, Begin(kind),
             server' = server, catalog' = catalog, detail' = detail
      PROVE  PageInv'
  <2>1. PICK n : n = NewLoad(kind)
    OBVIOUS
  <2>2. n \in Loading /\ n.aim \in {"complete", "done"} /\ n.target.intent = "none"
    BY <1>1, <2>1, NewLoadIs
  <2>3. loads' = loads \cup {n} /\ issued' = issued + 1
    BY <1>3, <2>1 DEF Begin
  <2> QED
    BY <1>1, <1>2, <1>3, <2>2, <2>3
<1>4. CASE LoadDetail
  BY <1>3, <1>4 DEF LoadDetail
<1>5. CASE LoadMoreBooks
  BY <1>3, <1>5 DEF LoadMoreBooks
<1>6. CASE ChooseFilter
  <2>1. PICK filter \in Chips :
            /\ detail' = [detail EXCEPT !.filter = filter]
            /\ loads' = loads \cup {[NewLoad("reload") EXCEPT !.filter = filter]}
    BY <1>6 DEF ChooseFilter
  <2>2. filter \in Filter
    BY SeriesPageAssumption DEF Filter, Status
  <2>3. PICK m : m = NewLoad("reload")
    OBVIOUS
  <2>4. m \in Loading /\ m.aim \in {"complete", "done"} /\ m.target.intent = "none"
    BY <1>1, <2>3, NewLoadIs
  <2>5. PICK n : n = [m EXCEPT !.filter = filter]
    OBVIOUS
  <2>6. n \in Loading /\ n.aim \in {"complete", "done"} /\ n.target.intent = "none"
    BY <2>2, <2>4, <2>5 DEF Loading
  <2>7. detail' \in Detail /\ detail'.target = detail.target
    BY <1>1, <2>1, <2>2 DEF Detail
  <2> QED
    BY <1>2, <1>6, <2>1, <2>3, <2>5, <2>6, <2>7 DEF ChooseFilter
<1> QED
  BY <1>4, <1>5, <1>6

\* A load reads on, and is what it must be.
LEMMA LoadReadsOn ==
    ASSUME PageInv, NEW r \in loads, NEW n \in Loading, Becomes(r, n), AimStands(n)
    PROVE  PageInv'
<1>1. LoadsMove
  BY DEF Becomes, PageInv, PageTyped, LoadsMove
<1> QED
  BY <1>1, LoadsHaveMoved

LEMMA FilteredTyped ==
    ASSUME CatalogStands, NEW filter
    PROVE  Filtered(catalog, filter) \in Seq(Book) /\ Len(Filtered(catalog, filter)) \in Nat
<1>1. PICK r : r = Ordered(catalog)
  OBVIOUS
<1>2. r \in Seq(Book)
  BY <1>1, OrderedIs
<1>3. PICK kept : Filtered(catalog, filter) = Sift(r, kept)
  BY <1>1 DEF Filtered
<1>4. Sift(r, kept) \in Seq(Book)
  BY <1>2, SiftKeeps
<1> QED
  BY <1>3, <1>4

LEMMA BooksAreRead ==
    ASSUME PageInv, NEW r \in loads, CountBooks(r) \/ SelectBooks(r)
    PROVE  PageInv'
<1>1. CatalogStands /\ r \in Loading /\ AimStands(r) /\ r.offset \in Nat /\ DetailPage \in Nat
  BY SeriesPageAssumption DEF PageInv, PageTyped, Loading
<1>2. PICK found : found = Filtered(catalog, r.filter)
  OBVIOUS
<1>3. found \in Seq(Book) /\ Len(found) \in Nat
  BY <1>1, <1>2, FilteredTyped
<1>4. CASE CountBooks(r)
  <2>1. PICK n : n = [r EXCEPT !.step = "rows", !.total = Len(found)]
    OBVIOUS
  <2>2. n \in Loading /\ n.aim = r.aim /\ n.ordered = r.ordered /\ n.statuses = r.statuses
        /\ n.target = r.target
    BY <1>1, <1>3, <2>1 DEF Loading
  <2>3. AimStands(n)
    BY <1>1, <2>2 DEF AimStands
  <2>4. Becomes(r, n)
    BY <1>2, <1>4, <2>1 DEF CountBooks
  <2> QED
    BY <2>2, <2>3, <2>4, LoadReadsOn
<1>5. CASE SelectBooks(r)
  <2>1. PICK last : last = IF r.offset + DetailPage < Len(found) THEN r.offset + DetailPage
                           ELSE Len(found)
    OBVIOUS
  <2>2. last \in Nat /\ last <= Len(found)
    BY <1>1, <1>3, <2>1
  <2>3. PICK items : items = SubSeq(found, r.offset + 1, last)
    OBVIOUS
  <2>4. items \in Seq(Book)
    BY <1>1, <1>3, <2>2, <2>3
  <2>5. PICK n : n = [r EXCEPT !.step = "covers", !.items = items]
    OBVIOUS
  <2>6. n \in Loading /\ n.aim = r.aim /\ n.ordered = r.ordered /\ n.statuses = r.statuses
        /\ n.target = r.target
    BY <1>1, <2>4, <2>5 DEF Loading
  <2>7. AimStands(n)
    BY <1>1, <2>6 DEF AimStands
  <2>8. Becomes(r, n)
    BY <1>2, <1>5, <2>1, <2>3, <2>5 DEF SelectBooks
  <2> QED
    BY <2>6, <2>7, <2>8, LoadReadsOn
<1> QED
  BY <1>4, <1>5

LEMMA CompleteIsRead ==
    ASSUME PageInv, NEW r \in loads, ReadComplete(r)
    PROVE  PageInv'
<1>1. r \in Loading /\ r.target \in Target
  BY DEF PageInv, PageTyped, Loading
<1>2. PICK complete \in BOOLEAN : complete = Complete(catalog, Ordered(catalog))
  BY DEF Complete
<1>3. PICK t : t = [r.target EXCEPT !.complete = complete]
  OBVIOUS
<1>4. t \in Target
  BY <1>1, <1>3 DEF Target
<1>5. PICK n : n = [r EXCEPT !.aim = "order", !.target = t]
  OBVIOUS
<1>6. n \in Loading /\ n.aim = "order"
  BY <1>1, <1>4, <1>5 DEF Loading
<1>7. Becomes(r, n)
  BY <1>1, <1>2, <1>3, <1>5 DEF ReadComplete, Loading
<1>8. AimStands(n)
  BY <1>6 DEF AimStands
<1> QED
  BY <1>6, <1>7, <1>8, LoadReadsOn

LEMMA OrderIsRead ==
    ASSUME PageInv, NEW r \in loads, ReadOrder(r)
    PROVE  PageInv'
<1>1. CatalogStands /\ r \in Loading /\ r.target \in Target /\ catalog \in Catalog
  BY DEF PageInv, PageTyped, Loading, CatalogStands
<1>2. CASE catalog.books = {}
  <2>1. PICK t : t = [r.target EXCEPT !.intent = "empty"]
    OBVIOUS
  <2>2. t \in Target /\ t.intent = "empty"
    BY <1>1, <2>1 DEF Target
  <2>3. PICK n : n = [r EXCEPT !.aim = "done", !.target = t]
    OBVIOUS
  <2>4. n \in Loading /\ n.aim = "done" /\ n.target = t
    BY <1>1, <2>2, <2>3 DEF Loading
  <2>5. Becomes(r, n)
    BY <1>1, <1>2, <2>1, <2>3 DEF ReadOrder, Loading
  <2>6. RuleFor(t)
    BY <1>2, <2>2 DEF RuleFor
  <2>7. AimStands(n)
    BY <2>4, <2>6 DEF AimStands
  <2> QED
    BY <2>4, <2>5, <2>7, LoadReadsOn
<1>3. CASE catalog.books # {}
  <2>1. PICK ordered : ordered = Ordered(catalog)
    OBVIOUS
  <2>2. ordered \in Seq(Book) /\ \A b \in catalog.books : \E i \in 1 .. Len(ordered) : ordered[i] = b
    BY <1>1, <2>1, OrderedIs
  <2>3. ordered # <<>>
    <3>1. PICK i \in 1 .. Len(ordered) : TRUE
      BY <1>3, <2>2
    <3> QED
      BY <3>1
  <2>4. PICK n : n = [r EXCEPT !.aim = "newest", !.ordered = ordered, !.statuses = catalog.status]
    OBVIOUS
  <2>5. /\ n \in Loading /\ n.aim = "newest" /\ n.ordered = ordered
        /\ n.statuses = catalog.status
    BY <1>1, <2>2, <2>4 DEF Loading, Catalog
  <2>6. Becomes(r, n)
    BY <1>3, <2>1, <2>4 DEF ReadOrder
  <2>7. AimStands(n)
    BY <1>3, <2>1, <2>3, <2>5 DEF AimStands
  <2> QED
    BY <2>5, <2>6, <2>7, LoadReadsOn
<1> QED
  BY <1>2, <1>3

LEMMA NewestIsRead ==
    ASSUME PageInv, NEW r \in loads, ReadNewest(r)
    PROVE  PageInv'
<1>1. /\ CatalogStands /\ r \in Loading /\ r.target \in Target /\ catalog \in Catalog
      /\ AimStands(r) /\ r.aim = "newest" /\ r.ordered \in Seq(Book) /\ r.ordered # <<>>
  BY DEF PageInv, PageTyped, Loading, CatalogStands, ReadNewest, AimStands
<1>2. PICK newest : newest = NewestInProgress(catalog)
  OBVIOUS
<1>3. PICK unread : unread = Sift(r.ordered, {b \in Book : r.statuses[b] = "unread"})
  OBVIOUS
<1>4. newest \in Seq(Book) /\ unread \in Seq(Book)
  <2>1. catalog.recent \in Seq(Book)
    BY <1>1 DEF Catalog
  <2>2. PICK kept : newest = Sift(catalog.recent, kept)
    BY <1>2 DEF NewestInProgress
  <2>3. Sift(catalog.recent, kept) \in Seq(Book)
    BY <2>1, SiftKeeps
  <2>4. PICK left : unread = Sift(r.ordered, left)
    BY <1>3
  <2>5. Sift(r.ordered, left) \in Seq(Book)
    BY <1>1, SiftKeeps
  <2> QED
    BY <2>2, <2>3, <2>4, <2>5
<1>5. PICK b, intent :
          \/ newest # <<>> /\ b = Head(newest) /\ intent = "continue"
          \/ newest = <<>> /\ unread # <<>> /\ b = Head(unread) /\ intent = "start"
          \/ newest = <<>> /\ unread = <<>> /\ b = Head(r.ordered) /\ intent = "reread"
  BY Zenon
<1>6. b \in Book /\ intent \in {"continue", "start", "reread"}
  BY <1>1, <1>4, <1>5
<1>7. PICK place : place = PositionIn(r.ordered, b)
  OBVIOUS
<1>8. place \in Nat
  <2>1. DOMAIN r.ordered \subseteq Nat
    BY <1>1
  <2>2. CASE b \in ToSet(r.ordered)
    <3>1. \E i \in DOMAIN r.ordered : r.ordered[i] = b
      BY <2>2 DEF ToSet
    <3> QED
      BY <1>7, <2>1, <2>2, <3>1 DEF PositionIn
  <2>3. CASE b \notin ToSet(r.ordered)
    BY <1>7, <2>3 DEF PositionIn
  <2> QED
    BY <2>2, <2>3
<1>9. PICK t : t = [r.target EXCEPT !.book = b, !.intent = intent, !.position = place]
  OBVIOUS
<1>10. t \in Target /\ t.book = b /\ t.intent = intent /\ t.position = place
       /\ t.quiet = r.target.quiet
  BY <1>1, <1>6, <1>8, <1>9 DEF Target
<1>11. PICK n : n = [r EXCEPT !.aim = "done", !.target = t]
  OBVIOUS
<1>12. n \in Loading /\ n.aim = "done" /\ n.target = t
  BY <1>1, <1>10, <1>11 DEF Loading
<1>13. [r EXCEPT !.aim = "done", !.target.book = b, !.target.intent = intent,
                 !.target.position = PositionIn(r.ordered, b)] = n
  BY <1>1, <1>7, <1>9, <1>11 DEF Loading, Target
<1>14. Becomes(r, n)
  BY <1>2, <1>3, <1>5, <1>13 DEF ReadNewest
<1>15. AimStands(n)
  <2>1. ASSUME t.quiet PROVE RuleFor(t)
    <3>1. r.ordered = Ordered(catalog) /\ r.statuses = catalog.status /\ catalog.books # {}
      BY <1>1, <1>10, <2>1 DEF AimStands
    <3>2. unread = Sift(r.ordered, {o \in Book : catalog.status[o] = "unread"})
      BY <1>3, <3>1
    <3> QED
      BY <1>1, <1>2, <1>5, <1>7, <1>10, <3>1, <3>2, AimIsRight
  <2> QED
    BY <1>12, <2>1 DEF AimStands
<1> QED
  BY <1>12, <1>14, <1>15, LoadReadsOn

LEMMA LoadIsOver ==
    ASSUME PageInv, NEW r \in loads, DetailLands(r) \/ DetailFails(r)
    PROVE  PageInv'
<1>1. /\ r \in Loading /\ detail \in Detail /\ detail.shown \in Seq(Book) /\ r.items \in Seq(Book)
      /\ issued \in Nat /\ loads \subseteq Loading
  BY DEF PageInv, PageTyped, Loading, Detail
<1>2. loads' = loads \ {r} /\ server' = server /\ catalog' = catalog /\ issued' = issued
  BY DEF DetailLands, DetailFails
<1>3. CASE DetailFails(r)
  <2>1. LoadsMove
    BY <1>1, <1>2, <1>3 DEF DetailFails, LoadsMove
  <2> QED
    BY <2>1, LoadsHaveMoved
<1>4. CASE DetailLands(r) /\ r.kind = "more"
  <2>1. PICK shown : shown = detail.shown \o r.items
    OBVIOUS
  <2>2. shown \in Seq(Book)
    BY <1>1, <2>1
  <2>3. detail' = [detail EXCEPT !.shown = shown]
    BY <1>4, <2>1 DEF DetailLands
  <2>4. detail' \in Detail /\ detail'.target = detail.target
    BY <1>1, <2>2, <2>3 DEF Detail
  <2>5. LoadsMove
    BY <1>1, <1>2, <2>4 DEF LoadsMove
  <2> QED
    BY <2>5, LoadsHaveMoved
<1>5. CASE DetailLands(r) /\ r.kind # "more"
  <2>1. PICK t : t = IF r.kind = "load" THEN r.target ELSE detail.target
    OBVIOUS
  <2>2. t \in Target /\ (t = r.target \/ t = detail.target)
    BY <1>1, <2>1 DEF Loading, Detail
  <2>3. detail' = [detail EXCEPT !.shown = r.items, !.total = r.total, !.of = r.filter, !.target = t]
    BY <1>5, <2>1 DEF DetailLands
  <2>4. detail' \in Detail /\ detail'.target = t
    BY <1>1, <2>2, <2>3 DEF Detail, Loading
  <2>5. r.aim = "done"
    BY <1>5 DEF DetailLands
  <2>6. LoadsMove
    BY <1>1, <1>2, <2>2, <2>4, <2>5 DEF LoadsMove
  <2> QED
    BY <2>6, LoadsHaveMoved
<1> QED
  BY <1>3, <1>4, <1>5

\* What a commit leaves of a load.
Disturbed(r, c) ==
    [r EXCEPT !.target.quiet = r.aim = "complete",
              !.target.allRead = @ \/ \A b \in c.books : c.status[b] = "read"]

LEMMA DisturbedIs ==
    ASSUME NEW r \in Loading, NEW c
    PROVE  /\ Disturbed(r, c) \in Loading /\ Disturbed(r, c).aim = r.aim
           /\ Disturbed(r, c).ordered = r.ordered
           /\ Disturbed(r, c).target.quiet = (r.aim = "complete")
<1>1. r.target \in Target
  BY DEF Loading
<1>2. PICK all \in BOOLEAN : all = (r.target.allRead \/ \A b \in c.books : c.status[b] = "read")
  OBVIOUS
<1>3. PICK quiet \in BOOLEAN : quiet = (r.aim = "complete")
  OBVIOUS
<1>4. PICK t : t = [r.target EXCEPT !.quiet = quiet, !.allRead = all]
  OBVIOUS
<1>5. t \in Target /\ t.quiet = quiet
  BY <1>1, <1>4 DEF Target
<1>6. Disturbed(r, c) = [r EXCEPT !.target = t]
  BY <1>1, <1>2, <1>3, <1>4 DEF Disturbed, Loading, Target
<1>7. [r EXCEPT !.target = t] \in Loading
  BY <1>5 DEF Loading
<1>8. /\ [r EXCEPT !.target = t].aim = r.aim /\ [r EXCEPT !.target = t].ordered = r.ordered
      /\ [r EXCEPT !.target = t].target = t
  BY DEF Loading
<1> QED
  BY <1>3, <1>5, <1>6, <1>7, <1>8

LEMMA CommitIsSeen ==
    ASSUME PageInv, NEW c \in Catalog, Once(c.recent),
           \A b \in Book : \E k \in 1 .. Len(c.recent) : c.recent[k] = b,
           Commits(c)
    PROVE  PageInv'
<1>1. /\ server \subseteq Book /\ issued \in Nat /\ loads \subseteq Loading /\ detail \in Detail
      /\ detail.target \in Target
  BY DEF PageInv, PageTyped, Detail
<1>2. catalog' = c /\ server' = server /\ issued' = issued
  BY DEF Commits
<1>3. CatalogStands'
  BY <1>2 DEF CatalogStands
<1>4. detail' = [detail EXCEPT !.target = [detail.target EXCEPT !.quiet = FALSE]]
  BY <1>1 DEF Commits, Detail, Target
<1>5. [detail.target EXCEPT !.quiet = FALSE] \in Target
  BY <1>1 DEF Target
<1>6. detail' \in Detail /\ detail'.target = [detail.target EXCEPT !.quiet = FALSE]
  BY <1>1, <1>4, <1>5 DEF Detail
<1>7. detail'.target.quiet = FALSE
  BY <1>1, <1>6 DEF Target
<1>8. loads' = {Disturbed(r, c) : r \in loads}
  BY DEF Commits, Disturbed
<1>9. ASSUME NEW n \in loads'
      PROVE  /\ n \in Loading /\ n.aim = "newest" => n.ordered # <<>>
             /\ n.target.quiet => n.aim = "complete"
  <2>1. PICK r \in loads : n = Disturbed(r, c)
    BY <1>8, <1>9
  <2>2. r \in Loading /\ AimStands(r)
    BY <1>1 DEF PageInv
  <2> QED
    BY <2>1, <2>2, DisturbedIs DEF AimStands
<1>10. PageTyped'
  <2>1. \A r \in loads : Disturbed(r, c) \in Loading
    BY <1>1, DisturbedIs
  <2> QED
    BY <1>1, <1>2, <1>3, <1>6, <1>8, <2>1 DEF PageTyped
<1>11. ASSUME NEW n \in loads' PROVE AimStands(n)'
  <2>1. PICK r \in loads : n = Disturbed(r, c)
    BY <1>8, <1>11
  <2>2. r \in Loading /\ AimStands(r)
    BY <1>1 DEF PageInv
  <2>3. n.aim = r.aim /\ n.ordered = r.ordered /\ n.target.quiet = (r.aim = "complete")
    BY <2>1, <2>2, DisturbedIs
  <2>4. n.aim = "newest" => n.ordered # <<>>
    BY <2>2, <2>3 DEF AimStands
  <2>5. n.target.quiet => n.aim = "complete"
    BY <2>3
  <2> QED
    BY <2>4, <2>5 DEF AimStands
<1>12. ShownStands'
  BY <1>7 DEF ShownStands
<1> QED
  BY <1>10, <1>11, <1>12 DEF PageInv

LEMMA OthersCommit ==
    ASSUME PageInv, SeriesRowArrives \/ BookArrives \/ BookPruned \/ ProgressWritten
    PROVE  PageInv'
<1>1. /\ catalog \in Catalog /\ server \subseteq Book /\ Once(catalog.recent)
      /\ \A b \in Book : \E k \in 1 .. Len(catalog.recent) : catalog.recent[k] = b
  BY DEF PageInv, PageTyped, CatalogStands
<1>2. ASSUME NEW c \in Catalog, c.recent = catalog.recent, Commits(c) PROVE PageInv'
  BY <1>1, <1>2, CommitIsSeen
<1>3. CASE SeriesRowArrives
  <2>1. PICK c : c = [catalog EXCEPT !.declared = server]
    OBVIOUS
  <2>2. c \in Catalog /\ c.recent = catalog.recent
    BY <1>1, <2>1 DEF Catalog
  <2> QED
    BY <1>2, <1>3, <2>1, <2>2 DEF SeriesRowArrives
<1>4. CASE BookArrives
  <2>1. PICK b \in server : Commits([catalog EXCEPT !.books = @ \cup {b}])
    BY <1>4 DEF BookArrives
  <2>2. PICK c : c = [catalog EXCEPT !.books = @ \cup {b}]
    OBVIOUS
  <2>3. c \in Catalog /\ c.recent = catalog.recent
    BY <1>1, <2>1, <2>2 DEF Catalog
  <2> QED
    BY <1>2, <2>1, <2>2, <2>3
<1>5. CASE BookPruned
  <2>1. PICK b : Commits([catalog EXCEPT !.books = @ \ {b}])
    BY <1>5 DEF BookPruned
  <2>2. PICK c : c = [catalog EXCEPT !.books = @ \ {b}]
    OBVIOUS
  <2>3. c \in Catalog /\ c.recent = catalog.recent
    BY <1>1, <2>2 DEF Catalog
  <2> QED
    BY <1>2, <2>1, <2>2, <2>3
<1>6. CASE ProgressWritten
  <2>1. PICK b \in catalog.books, status \in Status :
            Commits([catalog EXCEPT !.status[b] = status,
                                    !.recent = <<b>> \o Sift(@, Book \ {b})])
    BY <1>6 DEF ProgressWritten
  <2>2. b \in Book /\ catalog.status \in [Book -> Status] /\ catalog.recent \in Seq(Book)
    BY <1>1, <2>1 DEF Catalog
  <2>3. PICK others : others = Sift(catalog.recent, Book \ {b})
    OBVIOUS
  <2>4. /\ others \in Seq(Book) /\ Once(others)
        /\ \A i \in 1 .. Len(others) : others[i] \in Book \ {b}
        /\ \A k \in 1 .. Len(catalog.recent) : catalog.recent[k] \in Book \ {b} =>
              \E i \in 1 .. Len(others) : others[i] = catalog.recent[k]
    <3>1. PICK kept : kept = Book \ {b}
      OBVIOUS
    <3>2. others = Sift(catalog.recent, kept)
      BY <2>3, <3>1
    <3>3. /\ others \in Seq(Book) /\ Once(others)
          /\ \A i \in 1 .. Len(others) : others[i] \in kept
          /\ \A k \in 1 .. Len(catalog.recent) : catalog.recent[k] \in kept =>
                \E i \in 1 .. Len(others) : others[i] = catalog.recent[k]
      BY <1>1, <2>2, <3>2, SiftOnce
    <3> QED
      BY <3>1, <3>3
  <2>5. PICK recent : recent = <<b>> \o others
    OBVIOUS
  <2>6. /\ recent \in Seq(Book) /\ Len(recent) = Len(others) + 1 /\ Len(others) \in Nat
        /\ recent[1] = b
        /\ \A i \in 1 .. Len(others) : recent[i + 1] = others[i]
    BY <2>2, <2>4, <2>5
  <2>7. \A i \in 1 .. Len(recent) : i = 1 \/ (i - 1 \in 1 .. Len(others) /\ recent[i] = others[i - 1])
    <3>1. ASSUME NEW i \in 1 .. Len(recent), i # 1
          PROVE  i - 1 \in 1 .. Len(others) /\ recent[i] = others[i - 1]
      <4>1. i - 1 \in 1 .. Len(others) /\ (i - 1) + 1 = i
        BY <2>6, <3>1
      <4> QED
        BY <2>6, <4>1
    <3> QED
      BY <3>1
  <2>8. Once(recent)
    <3>1. ASSUME NEW i \in 1 .. Len(recent), NEW j \in 1 .. Len(recent), recent[i] = recent[j]
          PROVE  i = j
      <4>1. CASE i = 1 \/ j = 1
        BY <2>4, <2>6, <2>7, <3>1, <4>1
      <4>2. CASE i # 1 /\ j # 1
        <5>1. i - 1 \in 1 .. Len(others) /\ j - 1 \in 1 .. Len(others)
              /\ others[i - 1] = others[j - 1]
          BY <2>7, <3>1, <4>2
        <5>2. i - 1 = j - 1
          BY <2>4, <5>1 DEF Once
        <5> QED
          BY <2>6, <5>2
      <4> QED
        BY <4>1, <4>2
    <3> QED
      BY <3>1 DEF Once
  <2>9. ASSUME NEW o \in Book PROVE \E k \in 1 .. Len(recent) : recent[k] = o
    <3>1. CASE o = b
      BY <2>6, <3>1
    <3>2. CASE o # b
      <4>1. PICK k \in 1 .. Len(catalog.recent) : catalog.recent[k] = o
        BY <1>1
      <4>2. PICK i \in 1 .. Len(others) : others[i] = o
        BY <2>4, <3>2, <4>1
      <4>3. i + 1 \in 1 .. Len(recent)
        BY <2>6
      <4> QED
        BY <2>6, <4>2, <4>3
    <3> QED
      BY <3>1, <3>2
  <2>10. PICK c : c = [catalog EXCEPT !.status = [catalog.status EXCEPT ![b] = status],
                                      !.recent = recent]
    OBVIOUS
  <2>11. [catalog.status EXCEPT ![b] = status] \in [Book -> Status]
    BY <2>1, <2>2
  <2>12. c \in Catalog /\ c.recent = recent
    BY <1>1, <2>6, <2>10, <2>11 DEF Catalog
  <2>13. Commits(c)
    BY <1>1, <2>1, <2>2, <2>3, <2>5, <2>10 DEF Catalog
  <2> QED
    BY <2>8, <2>9, <2>12, <2>13, CommitIsSeen
<1> QED
  BY <1>3, <1>4, <1>5, <1>6

LEMMA PageBegins ==
    ASSUME SeriesPageInit
    PROVE  PageInv
<1>1. PICK status \in [Book -> Status] :
          catalog = [books |-> server, declared |-> server, status |-> status,
                     recent |-> Reverse(InOrder)]
  BY DEF SeriesPageInit
<1>2. PICK recent : recent = Reverse(InOrder)
  OBVIOUS
<1>3. PICK n \in Nat : n = Len(InOrder) /\ \A i \in 1 .. n : InOrder[i] \in Book
  BY InOrderOnce
<1>4. /\ recent \in Seq(Book) /\ Len(recent) = n
      /\ \A i \in 1 .. n : recent[i] = InOrder[(n - i) + 1]
  <2>1. recent = [i \in 1 .. n |-> InOrder[(n - i) + 1]]
    BY <1>2, <1>3 DEF Reverse
  <2>2. \A i \in 1 .. n : (n - i) + 1 \in 1 .. n
    BY <1>3
  <2>3. \A i \in 1 .. n : InOrder[(n - i) + 1] \in Book
    BY <1>3, <2>2
  <2> QED
    BY <2>1, <2>3
<1>5. Once(recent)
  <2>1. ASSUME NEW i \in 1 .. n, NEW j \in 1 .. n, recent[i] = recent[j] PROVE i = j
    <3>1. (n - i) + 1 \in 1 .. n /\ (n - j) + 1 \in 1 .. n
      BY <1>3
    <3>2. InOrder[(n - i) + 1] = InOrder[(n - j) + 1]
      BY <1>4, <2>1
    <3>3. (n - i) + 1 = (n - j) + 1
      BY <1>3, <3>1, <3>2, InOrderOnce DEF Once
    <3> QED
      BY <1>3, <3>3
  <2> QED
    BY <1>4, <2>1 DEF Once
<1>6. ASSUME NEW b \in Book PROVE \E k \in 1 .. Len(recent) : recent[k] = b
  <2>1. PICK l \in 1 .. n : InOrder[l] = b
    BY <1>3, InOrderOnce
  <2>2. (n - l) + 1 \in 1 .. n /\ (n - ((n - l) + 1)) + 1 = l
    BY <1>3
  <2> QED
    BY <1>4, <2>1, <2>2
<1>7. server \subseteq Book /\ loads = {} /\ issued = 0
  BY DEF SeriesPageInit
<1>8. CatalogStands
  BY <1>1, <1>2, <1>4, <1>5, <1>6, <1>7 DEF CatalogStands, Catalog
<1>9. detail \in Detail /\ detail.target.intent = "none"
  <2>1. NoTarget \in Target /\ NoTarget.intent = "none"
    BY DEF NoTarget, Target
  <2>2. <<>> \in Seq(Book)
    OBVIOUS
  <2>3. detail = [filter |-> "all", shown |-> <<>>, total |-> 0, of |-> "all", target |-> NoTarget]
    BY DEF SeriesPageInit
  <2> QED
    BY <2>1, <2>2, <2>3 DEF Detail, Filter
<1> QED
  BY <1>7, <1>8, <1>9 DEF PageInv, PageTyped, ShownStands

LEMMA PageGoesOn ==
    ASSUME PageInv, [SeriesPageNext]_pvars
    PROVE  PageInv'
<1>1. CASE LoadDetail \/ LoadMoreBooks \/ ChooseFilter
  BY <1>1, LoadBegins
<1>2. ASSUME NEW r \in loads, CountBooks(r) \/ SelectBooks(r) PROVE PageInv'
  BY <1>2, BooksAreRead
<1>3. ASSUME NEW r \in loads, ReadComplete(r) PROVE PageInv'
  BY <1>3, CompleteIsRead
<1>4. ASSUME NEW r \in loads, ReadOrder(r) PROVE PageInv'
  BY <1>4, OrderIsRead
<1>5. ASSUME NEW r \in loads, ReadNewest(r) PROVE PageInv'
  BY <1>5, NewestIsRead
<1>6. ASSUME NEW r \in loads, DetailLands(r) \/ DetailFails(r) PROVE PageInv'
  BY <1>6, LoadIsOver
<1>7. CASE SeriesRowArrives \/ BookArrives \/ BookPruned \/ ProgressWritten
  BY <1>7, OthersCommit
<1>8. ASSUME server' \subseteq Book, catalog' = catalog, detail' = detail, loads' = loads,
             issued' = issued
      PROVE  PageInv'
  <2>1. PageTyped' /\ detail' = detail
    BY <1>8 DEF PageInv, PageTyped, CatalogStands
  <2>2. (\A r \in loads : AimStands(r))'
    BY <1>8, RuleStays DEF PageInv
  <2>3. PICK t : t = detail.target
    OBVIOUS
  <2>4. RuleFor(t)' <=> RuleFor(t)
    BY <1>8, RuleStays
  <2>5. t.quiet /\ t.intent # "none" => RuleFor(t)
    BY <2>3 DEF PageInv, ShownStands
  <2>6. ShownStands'
    BY <1>8, <2>3, <2>4, <2>5 DEF ShownStands, RuleFor
  <2> QED
    BY <2>1, <2>2, <2>6 DEF PageInv
<1>9. CASE ServerEdits
  BY <1>8, <1>9 DEF ServerEdits
<1>10. CASE UNCHANGED pvars
  <2>1. server \subseteq Book
    BY DEF PageInv, PageTyped
  <2> QED
    BY <1>8, <1>10, <2>1 DEF pvars
<1> QED
  BY <1>1, <1>2, <1>3, <1>4, <1>5, <1>6, <1>7, <1>9, <1>10 DEF SeriesPageNext

LEMMA PageStands == SeriesPageSpec => []PageInv
<1>1. SeriesPageInit => PageInv
  BY PageBegins
<1>2. PageInv /\ [SeriesPageNext]_pvars => PageInv'
  BY PageGoesOn
<1> QED
  BY <1>1, <1>2, PTL DEF SeriesPageSpec

\* The type invariant of the series page, its reads and the catalog under it
\* (series_detail.dart).
THEOREM SeriesPageTypes == SeriesPageSpec => []SeriesPageTypeOK
<1>1. PageInv => SeriesPageTypeOK
  BY DEF PageInv, PageTyped, CatalogStands, Detail, SeriesPageTypeOK
<1> QED
  BY <1>1, PageStands, PTL

\* Whatever else the screen loads, and whoever commits before and after: a target
\* read while nobody committed is the book the rule says, at the place the list
\* gives it, for any series and any order of its books (series_read_target).
THEOREM TargetIsTheRules == SeriesPageSpec => []TargetFollowsTheRule
<1>1. PageInv => TargetFollowsTheRule
  BY RuleIsTheRule DEF PageInv
<1> QED
  BY <1>1, PageStands, PTL
-------------------------------------------------------------------------------
(* The page cache: ledger, memory and trims                                  *)

OnePerPage(view) == \A r, s \in view : r.file.page = s.file.page => r = s

\* A ledger, as committed or as a pass sees it.
Ledger(view) ==
    /\ view \subseteq Row
    /\ OnePerPage(view)
    /\ IsFiniteSet(view)

Tier(m) ==
    /\ m \in Seq(Bytes)
    /\ \A i, j \in DOMAIN m : m[i].page = m[j].page => i = j
    /\ Len(m) <= MemoryBudget

\* Sift leaves at most what there was, and less when it drops something.
LEMMA SiftShrinks ==
    ASSUME NEW T, NEW s \in Seq(T), NEW kept
    PROVE  /\ Len(Sift(s, kept)) <= Len(s)
           /\ (\E k \in 1 .. Len(s) : s[k] \notin kept) => Len(Sift(s, kept)) < Len(s)
<1>1. PICK r : r = Sift(s, kept)
  OBVIOUS
<1>2. r \in Seq(T) /\ LeftOf(r, s, kept, Len(s))
  BY <1>1, SiftKeeps
<1>3. PICK at : ComesFrom(r, s, kept, Len(s), at)
  BY <1>2 DEF LeftOf
<1>4. /\ Len(r) \in Nat /\ Len(s) \in Nat
      /\ at \in [1 .. Len(r) -> 1 .. Len(s)]
      /\ \A i, j \in 1 .. Len(r) : i < j => at[i] < at[j]
      /\ \A i \in 1 .. Len(r) : s[at[i]] \in kept
  BY <1>2, <1>3 DEF ComesFrom
<1>5. \A i, j \in 1 .. Len(r) : i # j => at[i] # at[j]
  <2>1. \A i, j \in 1 .. Len(r) : i # j => i < j \/ j < i
    BY <1>4
  <2>2. \A i \in 1 .. Len(r) : at[i] \in Int
    BY <1>4
  <2> QED
    BY <1>4, <2>1, <2>2
<1>6. at \in Injection(1 .. Len(r), 1 .. Len(s))
  BY <1>4, <1>5 DEF Injection, IsInjective
<1>7. /\ IsFiniteSet(1 .. Len(r)) /\ Cardinality(1 .. Len(r)) = Len(r)
      /\ IsFiniteSet(1 .. Len(s)) /\ Cardinality(1 .. Len(s)) = Len(s)
  <2>1. \A n \in Nat : IsFiniteSet(1 .. n) /\ Cardinality(1 .. n) = n
    <3>1. ASSUME NEW n \in Nat PROVE IsFiniteSet(1 .. n) /\ Cardinality(1 .. n) = n
      <4>1. 1 \in Int /\ n \in Int
        OBVIOUS
      <4>2. IsFiniteSet(1 .. n) /\ Cardinality(1 .. n) = IF 1 > n THEN 0 ELSE n - 1 + 1
        BY <4>1, FS_Interval, Zenon
      <4> QED
        BY <4>2
    <3> QED
      BY <3>1
  <2> QED
    BY <1>4, <2>1
<1>8. Len(r) <= Len(s)
  BY <1>6, <1>7, FS_Injection
<1>9. ASSUME NEW k \in 1 .. Len(s), s[k] \notin kept PROVE Len(r) # Len(s)
  <2>1. SUFFICES ASSUME Len(r) = Len(s) PROVE FALSE
    OBVIOUS
  <2>2. at \in Surjection(1 .. Len(r), 1 .. Len(s))
    BY <1>6, <1>7, <2>1, FS_Injection
  <2>3. PICK i \in 1 .. Len(r) : at[i] = k
    BY <1>9, <2>2 DEF Surjection
  <2> QED
    BY <1>4, <1>9, <2>3
<1> QED
  BY <1>1, <1>4, <1>8, <1>9

\* What is left of a sequence without repetitions has none.
LEMMA SiftStaysApart ==
    ASSUME NEW s \in Seq(Bytes), NEW kept,
           \A i, j \in 1 .. Len(s) : s[i].page = s[j].page => i = j
    PROVE  LET r == Sift(s, kept)
           IN  /\ \A i, j \in 1 .. Len(r) : r[i].page = r[j].page => i = j
               /\ \A i \in 1 .. Len(r) : r[i] \in kept
               /\ \A i \in 1 .. Len(r) : \E k \in 1 .. Len(s) : r[i] = s[k]
<1>1. PICK r : r = Sift(s, kept)
  OBVIOUS
<1>2. r \in Seq(Bytes) /\ LeftOf(r, s, kept, Len(s))
  BY <1>1, SiftKeeps
<1>3. PICK at : ComesFrom(r, s, kept, Len(s), at)
  BY <1>2 DEF LeftOf
<1>4. /\ Len(r) \in Nat
      /\ at \in [1 .. Len(r) -> 1 .. Len(s)]
      /\ \A i, j \in 1 .. Len(r) : i < j => at[i] < at[j]
      /\ \A i \in 1 .. Len(r) : r[i] = s[at[i]] /\ s[at[i]] \in kept
  BY <1>2, <1>3 DEF ComesFrom
<1>5. ASSUME NEW i \in 1 .. Len(r), NEW j \in 1 .. Len(r), r[i].page = r[j].page
      PROVE  i = j
  <2>1. at[i] \in 1 .. Len(s) /\ at[j] \in 1 .. Len(s) /\ at[i] = at[j]
    BY <1>4, <1>5
  <2>2. ~(i < j) /\ ~(j < i)
    BY <1>4, <2>1
  <2> QED
    BY <1>4, <2>2
<1>6. \A i \in 1 .. Len(r) : r[i] \in kept /\ \E k \in 1 .. Len(s) : r[i] = s[k]
  BY <1>4
<1> QED
  BY <1>1, <1>5, <1>6

\* The memory tier without some pages: no more than before, less when it held one.
LEMMA WithoutIs ==
    ASSUME NEW m, Tier(m), NEW pages
    PROVE  LET r == Without(m, pages)
           IN  /\ Tier(r)
               /\ \A i \in 1 .. Len(r) : r[i].page \notin pages
               /\ Len(r) <= Len(m)
               /\ (\E k \in 1 .. Len(m) : m[k].page \in pages) => Len(r) < Len(m)
<1>1. PICK kept : kept = {bytes \in Bytes : bytes.page \notin pages}
  OBVIOUS
<1>2. PICK r : r = Sift(m, kept)
  OBVIOUS
<1>3. m \in Seq(Bytes) /\ Len(m) \in Nat /\ DOMAIN m = 1 .. Len(m)
  BY DEF Tier
<1>4. r \in Seq(Bytes) /\ Len(r) \in Nat /\ DOMAIN r = 1 .. Len(r)
  BY <1>2, <1>3, SiftKeeps
<1>5. /\ \A i, j \in 1 .. Len(r) : r[i].page = r[j].page => i = j
      /\ \A i \in 1 .. Len(r) : r[i] \in kept
  <2>1. \A i, j \in 1 .. Len(m) : m[i].page = m[j].page => i = j
    BY <1>3 DEF Tier
  <2> QED
    BY <1>2, <1>3, <2>1, SiftStaysApart
<1>6. /\ Len(r) <= Len(m)
      /\ (\E k \in 1 .. Len(m) : m[k].page \in pages) => Len(r) < Len(m)
  <2>1. ASSUME NEW k \in 1 .. Len(m), m[k].page \in pages PROVE m[k] \notin kept
    BY <1>1, <2>1
  <2> QED
    BY <1>2, <1>3, <2>1, SiftShrinks
<1>7. MemoryBudget \in Nat
  BY PageCacheAssumption
<1>8. Tier(r)
  BY <1>3, <1>4, <1>5, <1>6, <1>7 DEF Tier
<1>9. Without(m, pages) = r
  BY <1>1, <1>2 DEF Without
<1> QED
  BY <1>1, <1>5, <1>6, <1>8, <1>9

\* One more entry, of a page the tier does not hold, where there is room for it.
LEMMA AppendIs ==
    ASSUME NEW m, Tier(m), Len(m) < MemoryBudget, NEW b \in Bytes,
           \A i \in 1 .. Len(m) : m[i].page # b.page
    PROVE  Tier(Append(m, b))
<1>1. PICK r : r = Append(m, b)
  OBVIOUS
<1>2. MemoryBudget \in Nat
  BY PageCacheAssumption
<1>3. /\ m \in Seq(Bytes) /\ Len(m) \in Nat /\ DOMAIN m = 1 .. Len(m)
      /\ r \in Seq(Bytes) /\ Len(r) = Len(m) + 1 /\ DOMAIN r = 1 .. Len(m) + 1
      /\ \A i \in 1 .. Len(m) : r[i] = m[i]
      /\ r[Len(m) + 1] = b
  BY <1>1 DEF Tier
<1>4. \A i \in 1 .. Len(m) + 1 : i \in 1 .. Len(m) \/ i = Len(m) + 1
  BY <1>3
<1>5. \A i, j \in 1 .. Len(m) : m[i].page = m[j].page => i = j
  BY <1>3 DEF Tier
<1>6. ASSUME NEW i \in DOMAIN r, NEW j \in DOMAIN r, r[i].page = r[j].page PROVE i = j
  <2>1. i \in 1 .. Len(m) /\ j \in 1 .. Len(m) => i = j
    BY <1>3, <1>5, <1>6
  <2>2. i \in 1 .. Len(m) /\ j = Len(m) + 1 => FALSE
    BY <1>3, <1>6
  <2>3. j \in 1 .. Len(m) /\ i = Len(m) + 1 => FALSE
    BY <1>3, <1>6
  <2> QED
    BY <1>3, <1>4, <2>1, <2>2, <2>3
<1>7. Len(r) <= MemoryBudget
  BY <1>2, <1>3
<1> QED
  BY <1>1, <1>3, <1>6, <1>7 DEF Tier

\* An insert keeps the tier within its budget, whatever it held before.
LEMMA InsertedIs ==
    ASSUME NEW m, Tier(m), NEW b \in Bytes
    PROVE  Tier(Inserted(m, b))
<1>1. MemoryBudget \in Nat
  BY PageCacheAssumption
<1>2. CASE MemoryBudget = 0 \/ b.page \in Large
  BY <1>2 DEF Inserted
<1>3. CASE ~(MemoryBudget = 0 \/ b.page \in Large)
  <2>1. PICK others : others = Without(m, {b.page})
    OBVIOUS
  <2>2. Tier(others) /\ \A i \in 1 .. Len(others) : others[i].page # b.page
    BY <2>1, WithoutIs
  <2>3. others \in Seq(Bytes) /\ Len(others) \in Nat /\ DOMAIN others = 1 .. Len(others)
    BY <2>2 DEF Tier
  <2>4. PICK room : room = IF Len(others) >= MemoryBudget THEN Tail(others) ELSE others
    OBVIOUS
  <2>5. Tier(room) /\ Len(room) < MemoryBudget /\ \A i \in 1 .. Len(room) : room[i].page # b.page
    <3>1. CASE Len(others) >= MemoryBudget
      <4>1. room = Tail(others) /\ Len(others) = MemoryBudget
        <5>1. Len(others) <= MemoryBudget
          BY <2>2 DEF Tier
        <5>2. room = Tail(others)
          BY <2>4, <3>1
        <5>3. Len(others) \in Nat
          BY <2>3
        <5>4. Len(others) = MemoryBudget
          BY <1>1, <3>1, <5>1, <5>3
        <5> QED
          BY <5>2, <5>4
      <4>2. /\ room \in Seq(Bytes) /\ Len(room) = Len(others) - 1 /\ DOMAIN room = 1 .. Len(others) - 1
            /\ \A i \in 1 .. Len(room) : room[i] = others[i + 1]
        BY <1>1, <1>3, <2>3, <4>1
      <4>3. \A i \in 1 .. Len(room) : i + 1 \in 1 .. Len(others)
        BY <2>3, <4>2
      <4>4. \A i, j \in 1 .. Len(room) : room[i].page = room[j].page => i = j
        <5>1. \A i, j \in 1 .. Len(room) : room[i].page = room[j].page => i + 1 = j + 1
          BY <2>2, <2>3, <4>2, <4>3 DEF Tier
        <5> QED
          BY <5>1
      <4>5. Len(room) < MemoryBudget
        BY <1>1, <1>3, <4>1, <4>2
      <4>6. \A i \in 1 .. Len(room) : room[i].page # b.page
        BY <2>2, <4>2, <4>3
      <4> QED
        BY <1>1, <4>2, <4>4, <4>5, <4>6 DEF Tier
    <3>2. CASE ~(Len(others) >= MemoryBudget)
      BY <1>1, <2>2, <2>3, <2>4, <3>2
    <3> QED
      BY <3>1, <3>2
  <2>6. Inserted(m, b) = Append(room, b)
    BY <1>3, <2>1, <2>4 DEF Inserted
  <2> QED
    BY <2>5, <2>6, AppendIs
<1> QED
  BY <1>2, <1>3

LEMMA TouchedIs ==
    ASSUME Tier(memory), NEW p
    PROVE  /\ Tier(Touched(p))
           /\ Resident(p) # {} => (CHOOSE b \in Resident(p) : TRUE) \in Bytes
           /\ Resident(p) # {} => (CHOOSE b \in Resident(p) : TRUE).page = p
<1>1. CASE Resident(p) = {}
  BY <1>1 DEF Touched
<1>2. CASE Resident(p) # {}
  <2>1. PICK b : b = CHOOSE x \in Resident(p) : TRUE
    OBVIOUS
  <2>2. b \in Resident(p)
    BY <1>2, <2>1
  <2>3. PICK k \in DOMAIN memory : memory[k].page = p /\ b = memory[k]
    BY <2>2 DEF Resident
  <2>4. /\ memory \in Seq(Bytes) /\ DOMAIN memory = 1 .. Len(memory) /\ Len(memory) \in Nat
        /\ Len(memory) <= MemoryBudget
    BY DEF Tier
  <2>5. b \in Bytes /\ b.page = p
    BY <2>3, <2>4
  <2>6. PICK others : others = Without(memory, {p})
    OBVIOUS
  <2>7. /\ Tier(others) /\ \A i \in 1 .. Len(others) : others[i].page # p
        /\ Len(others) < Len(memory)
    BY <2>3, <2>4, <2>6, WithoutIs
  <2>8. Len(others) \in Nat /\ MemoryBudget \in Nat
    BY <2>7, PageCacheAssumption DEF Tier
  <2>9. Touched(p) = Append(others, b)
    BY <1>2, <2>1, <2>6 DEF Touched
  <2>10. Tier(Append(others, b))
    BY <2>4, <2>5, <2>7, <2>8, AppendIs
  <2> QED
    BY <2>1, <2>5, <2>9, <2>10
<1> QED
  BY <1>1, <1>2

LEMMA RowsAre ==
    ASSUME NEW r \in Row
    PROVE  /\ r.file \in File /\ r.size \in Content
           /\ r.file.page \in Page /\ r.file.format \in Format
           /\ r.file.dir \in {"pages", "prefetch"}
BY DEF Row, File

\* A row replaces the row of its page; then no other row has that page.
LEMMA RecordedIs ==
    ASSUME NEW view, view \subseteq Row, OnePerPage(view), IsFiniteSet(view), NEW row \in Row
    PROVE  LET r == Recorded(view, row)
           IN  /\ r \subseteq Row /\ OnePerPage(r) /\ IsFiniteSet(r) /\ row \in r
               /\ \A x \in r : x.file.page = row.file.page => x = row
               /\ \A x \in r : x # row => x \in view
               /\ \A x \in view : x.file.page # row.file.page => x \in r
<1>1. PICK rest : rest = view \ RowsOfPage(view, row.file.page)
  OBVIOUS
<1>2. Recorded(view, row) = rest \cup {row}
  BY <1>1 DEF Recorded
<1>3. rest \subseteq view /\ \A x \in view : x \in rest <=> x.file.page # row.file.page
  BY <1>1 DEF RowsOfPage
<1>4. IsFiniteSet(rest) /\ IsFiniteSet(rest \cup {row})
  BY <1>3, FS_Subset, FS_AddElement
<1>5. rest \cup {row} \subseteq Row /\ OnePerPage(rest \cup {row})
  BY <1>3 DEF OnePerPage
<1> QED
  BY <1>2, <1>3, <1>4, <1>5

PagesIn(view) == {r.file.page : r \in view}

\* What every step but the pass's own does to the pass.
PassGoesOn == UNCHANGED pass \/ Wrote

\* Fewer pages fit where more do.
LEMMA FewerFit ==
    ASSUME NEW pages, pages \subseteq Page, NEW fewer \in SUBSET pages,
           Cardinality(pages) <= Budget, pages \cap Large = {}
    PROVE  Cardinality(fewer) <= Budget /\ fewer \cap Large = {}
<1>1. IsFiniteSet(pages)
  BY PageCacheAssumption, FS_Subset
<1>2. Cardinality(fewer) <= Cardinality(pages) /\ IsFiniteSet(fewer)
  BY <1>1, FS_Subset
<1>3. Cardinality(fewer) \in Nat /\ Cardinality(pages) \in Nat /\ Budget \in Nat
  BY <1>1, <1>2, FS_CardinalityType, PageCacheAssumption
<1> QED
  BY <1>2, <1>3

LEMMA PagesArePages ==
    ASSUME NEW view, view \subseteq Row
    PROVE  PagesIn(view) \subseteq Page
BY RowsAre DEF PagesIn

LEMMA FitsIs ==
    ASSUME NEW view
    PROVE  Fits(view) <=> Cardinality(PagesIn(view)) <= Budget /\ PagesIn(view) \cap Large = {}
BY DEF Fits, PagesIn

\* A ledger with no more pages than one that fits, fits too.
LEMMA FitsShrinks ==
    ASSUME NEW view, view \subseteq Row, Fits(view),
           NEW fewer, PagesIn(fewer) \subseteq PagesIn(view)
    PROVE  Fits(fewer)
<1>1. PICK pages : pages = PagesIn(view)
  OBVIOUS
<1>2. PICK some : some = PagesIn(fewer)
  OBVIOUS
<1>3. pages \subseteq Page /\ some \subseteq pages
  BY <1>1, <1>2, PagesArePages
<1>4. Cardinality(pages) <= Budget /\ pages \cap Large = {}
  BY <1>1, FitsIs
<1>5. Cardinality(some) <= Budget /\ some \cap Large = {}
  BY <1>3, <1>4, FewerFit
<1> QED
  BY <1>2, <1>5, FitsIs

LEMMA NothingFits == Fits({}) /\ Within({})
<1>1. PagesIn({}) = {} /\ Cardinality({}) = 0 /\ Budget \in Nat
  BY FS_EmptySet, PageCacheAssumption DEF PagesIn
<1>2. Fits({})
  BY <1>1, FitsIs
<1> QED
  BY <1>2 DEF Within

\* A ledger of one page has one row, or none.
LEMMA OnePageIs ==
    ASSUME NEW view, Ledger(view), NEW p, PagesIn(view) \subseteq {p}
    PROVE  Within(view)
<1>1. CASE view = {}
  BY <1>1, NothingFits
<1>2. CASE view # {}
  <2>1. PICK r : r \in view
    BY <1>2
  <2>2. \A s \in view : s.file.page = p
    BY DEF PagesIn
  <2>3. \A s \in view : s = r
    BY <2>1, <2>2 DEF Ledger, OnePerPage
  <2>4. view = {r}
    BY <2>1, <2>3
  <2>5. Cardinality(view) = 1
    BY <2>4, FS_Singleton
  <2> QED
    BY <2>5 DEF Within
<1> QED
  BY <1>1, <1>2

\* The same of a ledger within the pool, or with one page too large for it.
LEMMA WithinShrinks ==
    ASSUME NEW view, Ledger(view), Within(view),
           NEW fewer, Ledger(fewer), PagesIn(fewer) \subseteq PagesIn(view)
    PROVE  Within(fewer)
<1>1. CASE Fits(view)
  BY <1>1, FitsShrinks DEF Within, Ledger
<1>2. CASE Cardinality(view) = 1
  <2>1. PICK r : view = {r}
    BY <1>2, FS_Singleton DEF Ledger
  <2>2. PagesIn(view) = {r.file.page}
    BY <2>1 DEF PagesIn
  <2> QED
    BY <2>2, OnePageIs
<1> QED
  BY <1>1, <1>2 DEF Within

\* What is left of a row's page once a row of it is recorded: that row.
LEMMA RecordedPages ==
    ASSUME NEW view, view \subseteq Row, OnePerPage(view), IsFiniteSet(view), NEW row \in Row,
           RowsOfPage(view, row.file.page) # {}
    PROVE  PagesIn(Recorded(view, row)) \subseteq PagesIn(view)
<1>1. PICK old \in view : old.file.page = row.file.page
  BY DEF RowsOfPage
<1>2. \A x \in Recorded(view, row) : x = row \/ x \in view
  BY DEF Recorded
<1> QED
  BY <1>1, <1>2 DEF PagesIn

LEMMA MeasuredIs ==
    ASSUME NEW view
    PROVE  /\ Measured(view) \subseteq view
           /\ \A r \in view : Exists(r.file) => r \in Measured(view)
           /\ Fits(view) => Measured(view) = view
BY DEF Measured

\* One that may go, as long as what is left does not fit; a displayed page only once no
\* guessed one may go.
LEMMA WorstIs ==
    ASSUME NEW left, NEW keep
    PROVE  /\ \A r \in Worst(left, keep) :
                  /\ r \in left /\ r.file.page \notin keep
                  /\ ~Guess(r) => \A s \in left : s.file.page \notin keep => ~Guess(s)
           /\ Worst(left, keep) = {} => Fits(left) \/ PagesIn(left) \subseteq keep
<1>1. PICK evictable : evictable = {r \in left : r.file.page \notin keep}
  OBVIOUS
<1>2. CASE Fits(left)
  <2>1. Worst(left, keep) = {}
    BY <1>2 DEF Worst
  <2> QED
    BY <1>2, <2>1
<1>3. CASE ~Fits(left)
  <2>1. Worst(left, keep) = {r \in evictable : Guess(r) \/ \A s \in evictable : ~Guess(s)}
    BY <1>1, <1>3 DEF Worst
  <2> HIDE DEF Guess
  <2>2. ASSUME NEW r \in Worst(left, keep)
        PROVE  /\ r \in left /\ r.file.page \notin keep
               /\ ~Guess(r) => \A s \in left : s.file.page \notin keep => ~Guess(s)
    BY <1>1, <2>1, <2>2
  <2>3. Worst(left, keep) = {} => evictable = {}
    BY <2>1
  <2>4. evictable = {} => PagesIn(left) \subseteq keep
    BY <1>1 DEF PagesIn
  <2> QED
    BY <2>2, <2>3, <2>4
<1> QED
  BY <1>2, <1>3

LEMMA KeptIs == \A p : Kept(p) = {p}
BY DEF Kept

\* The end of a trim: within the pool, or the kept page alone.
LEMMA TrimEnds ==
    ASSUME NEW left, left \subseteq Row, NEW p, NEW keep \in SUBSET {p}, Worst(left, keep) = {},
           NEW view, Ledger(view), PagesIn(view) \subseteq PagesIn(left)
    PROVE  Within(view) /\ (keep = {} => Fits(view))
<1>1. Fits(left) \/ PagesIn(left) \subseteq keep
  BY WorstIs
<1>2. CASE Fits(left)
  BY <1>2, FitsShrinks DEF Within
<1>3. CASE PagesIn(left) \subseteq keep
  <2>1. PagesIn(view) \subseteq {p}
    BY <1>3
  <2>2. keep = {} => view = {}
    BY <1>3 DEF PagesIn
  <2> QED
    BY <2>1, <2>2, OnePageIs, NothingFits
<1> QED
  BY <1>1, <1>2, <1>3

\* Dropping a row from the ledger and from what is left of a trim's order: the ledger
\* keeps no page the order has not.
LEMMA DropsIs ==
    ASSUME NEW row, Drops(row), NEW left, row \in left
    PROVE  /\ rows' \subseteq rows /\ PassGoesOn
           /\ \A r \in rows : r \in rows' <=> r.file.page # row.file.page
           /\ PagesIn(rows) \subseteq PagesIn(left) => PagesIn(rows') \subseteq PagesIn(left \ {row})
<1>1. rows' = rows \ RowsOfPage(rows, row.file.page) /\ PassGoesOn
  BY DEF Drops, PassGoesOn
<1>2. rows' \subseteq rows /\ \A r \in rows : r \in rows' <=> r.file.page # row.file.page
  BY <1>1 DEF RowsOfPage
<1>3. ASSUME PagesIn(rows) \subseteq PagesIn(left), NEW q \in PagesIn(rows')
      PROVE  q \in PagesIn(left \ {row})
  <2>1. PICK r \in rows' : q = r.file.page
    BY DEF PagesIn
  <2>2. r \in rows /\ q # row.file.page
    BY <1>2, <2>1
  <2>3. PICK s \in left : s.file.page = q
    BY <1>3, <2>1, <2>2 DEF PagesIn
  <2> QED
    BY <2>2, <2>3 DEF PagesIn
<1> QED
  BY <1>1, <1>2, <1>3

-------------------------------------------------------------------------------
(* The page cache: what the steps keep                                       *)

\* What a call holds fits where it stands: it knows its page, then its bytes; what
\* it found are rows of its page.
CallStands(c) ==
    /\ c.pc \in {"file", "relocate", "fetch"} => c.bytes.page \in Page
    /\ c.pc \in {"stage", "land", "record", "measure", "evict", "unlink"} => c.bytes \in Bytes
    /\ c.pc = "relocate" => c.found # {}
    /\ \A r \in c.found : r.file.page = c.bytes.page
    /\ OnePerPage(c.left)

\* A pass carries whole pages only, for the store refuses others without a trace.
PassCarries ==
    /\ pass \in Passing
    /\ pass.pc \in {"land", "record", "evict", "unlink"} => pass.bytes \in Bytes
    /\ \A b \in pass.todo \cup {pass.bytes} : b.content # "short"
    /\ Ledger(pass.view)

\* What is counted, and what is remembered of trims.
Counts == owed \in BOOLEAN /\ mishaps \in 0 .. MaxMishaps

CacheTyped ==
    /\ disk \in [File -> Content \cup {"none"}]
    /\ parts \subseteq File
    /\ Ledger(rows)
    /\ Tier(memory)
    /\ viewer \in [Viewer -> Calling]
    /\ \A v \in Viewer : CallStands(viewer[v])
    /\ PassCarries
    /\ sweep \in Sweeping
    /\ clearing \subseteq File
    /\ Counts

LEMMA CountsRest ==
    ASSUME Counts, UNCHANGED <<owed, mishaps>>
    PROVE  Counts'
BY DEF Counts

LEMMA NothingStands ==
    /\ NoCall \in Calling /\ CallStands(NoCall)
    /\ NoPass \in Passing /\ Ledger(NoPass.view)
    /\ NoPass.bytes.content # "short" /\ NoPass.todo = {} /\ NoPass.pc = "idle"
    /\ NoSweep \in Sweeping
    /\ Ledger({}) /\ Tier(<<>>)
<1>1. NoCall \in Calling /\ CallStands(NoCall)
  BY DEF NoCall, Calling, CallStands, NoBytes, OnePerPage
<1>2. Ledger({})
  BY FS_EmptySet DEF Ledger, OnePerPage
<1>3. Tier(<<>>)
  BY PageCacheAssumption DEF Tier
<1>4. NoPass \in Passing /\ NoPass.view = {} /\ NoPass.todo = {} /\ NoPass.pc = "idle"
      /\ NoPass.bytes.content # "short"
  BY DEF NoPass, Passing, NoBytes
<1>5. NoSweep \in Sweeping
  BY DEF NoSweep, Sweeping
<1> QED
  BY <1>1, <1>2, <1>3, <1>4, <1>5

LEMMA InitCache == CacheInit => CacheTyped
<1>1. SUFFICES ASSUME CacheInit PROVE CacheTyped
  OBVIOUS
<1>2. Counts
  <2>1. owed \in BOOLEAN /\ mishaps = 0
    BY <1>1 DEF CacheInit
  <2>2. mishaps \in 0 .. MaxMishaps
    BY <2>1, PageCacheAssumption
  <2> QED
    BY <2>1, <2>2 DEF Counts
<1>3. disk \in [File -> Content \cup {"none"}] /\ parts \subseteq File /\ clearing \subseteq File
  BY <1>1 DEF CacheInit
<1>4. viewer \in [Viewer -> Calling] /\ \A v \in Viewer : CallStands(viewer[v])
  BY <1>1, NothingStands DEF CacheInit
<1>5. PassCarries
  BY <1>1, NothingStands DEF CacheInit, PassCarries
<1>6. Ledger(rows) /\ Tier(memory) /\ sweep \in Sweeping
  BY <1>1, NothingStands DEF CacheInit
<1> QED
  BY <1>2, <1>3, <1>4, <1>5, <1>6 DEF CacheTyped

LEMMA WroteCarries ==
    ASSUME PassCarries, Wrote
    PROVE  /\ PassCarries' /\ pass.tx # "write"
           /\ pass' = [pass EXCEPT !.stale = pass'.stale]
<1>1. PICK q : q = [pass EXCEPT !.stale = @ \/ pass.tx = "read"]
  OBVIOUS
<1>2. pass' = q /\ pass.tx # "write"
  BY <1>1 DEF Wrote
<1>3. /\ q \in Passing /\ q.pc = pass.pc /\ q.bytes = pass.bytes /\ q.todo = pass.todo
      /\ q.view = pass.view /\ q = [pass EXCEPT !.stale = q.stale]
  BY <1>1 DEF PassCarries, Passing
<1> QED
  BY <1>2, <1>3 DEF PassCarries, Ledger, OnePerPage

LEMMA NotAloneTyped ==
    ASSUME sweep \in Sweeping, NotAlone
    PROVE  sweep' \in Sweeping
BY NothingStands DEF NotAlone, Sweeping

LEMMA PassRests ==
    ASSUME PassCarries, PassGoesOn
    PROVE  PassCarries'
<1>1. CASE UNCHANGED pass
  BY <1>1 DEF PassCarries, Ledger, OnePerPage
<1> QED
  BY <1>1, WroteCarries DEF PassGoesOn

LEMMA PassStaysSo ==
    ASSUME PassCarries, PassGoesOn
    PROVE  /\ pass'.tx = pass.tx /\ pass'.view = pass.view
           /\ pass'.pc = pass.pc /\ pass'.torn = pass.torn
<1>1. CASE UNCHANGED pass
  BY <1>1
<1>2. CASE Wrote
  <2>1. pass' = [pass EXCEPT !.stale = pass'.stale]
    BY <1>2, WroteCarries
  <2> QED
    BY <2>1 DEF PassCarries, Passing
<1> QED
  BY <1>1, <1>2 DEF PassGoesOn

LEMMA EmptiedTyped ==
    ASSUME disk \in [File -> Content \cup {"none"}], NEW files
    PROVE  /\ Emptied(files) \in [File -> Content \cup {"none"}]
           /\ \A f \in File : Emptied(files)[f] = IF f \in files THEN "none" ELSE disk[f]
BY DEF Emptied

\* One call moves on and everything it touches keeps its type.
CallMoves(v, c) ==
    /\ c \in Calling /\ CallStands(c)
    /\ Calls(v, c)
    /\ disk' \in [File -> Content \cup {"none"}]
    /\ parts' \subseteq File
    /\ Ledger(rows')
    /\ Tier(memory')
    /\ PassGoesOn
    /\ NotAlone
    /\ UNCHANGED clearing
    /\ Counts'

LEMMA CallMovesTyped ==
    ASSUME CacheTyped, NEW v \in Viewer, NEW c, CallMoves(v, c)
    PROVE  CacheTyped'
<1>1. /\ viewer' = [viewer EXCEPT ![v] = c] /\ c \in Calling /\ CallStands(c)
      /\ clearing' = clearing /\ Counts'
  BY DEF CallMoves, Calls
<1>2. viewer' \in [Viewer -> Calling] /\ \A w \in Viewer : viewer'[w] = IF w = v THEN c ELSE viewer[w]
  BY <1>1 DEF CacheTyped
<1>3. \A w \in Viewer : CallStands(viewer'[w])
  BY <1>1, <1>2 DEF CacheTyped
<1>4. PassCarries'
  BY PassRests DEF CallMoves, CacheTyped
<1>5. sweep' \in Sweeping
  BY NotAloneTyped DEF CallMoves, CacheTyped
<1>6. /\ disk' \in [File -> Content \cup {"none"}] /\ parts' \subseteq File
      /\ Ledger(rows)' /\ Tier(memory)'
  BY DEF CallMoves, Ledger, OnePerPage, Tier
<1>7. (\A w \in Viewer : CallStands(viewer[w]))'
  BY <1>2, <1>3 DEF CallStands, OnePerPage
<1>8. clearing' \subseteq File
  BY <1>1 DEF CacheTyped
<1> QED
  BY <1>1, <1>2, <1>4, <1>5, <1>6, <1>7, <1>8 DEF CacheTyped

LEMMA CallTyped ==
    ASSUME CacheTyped, NEW v \in Viewer
    PROVE  /\ viewer[v] \in Calling /\ CallStands(viewer[v])
           /\ disk \in [File -> Content \cup {"none"}] /\ parts \subseteq File
           /\ Ledger(rows) /\ Tier(memory)
           /\ Counts /\ (UNCHANGED <<owed, mishaps>> => Counts')
BY CountsRest DEF CacheTyped

LEMMA AskMoves ==
    ASSUME CacheTyped, NEW v \in Viewer, NEW p \in Page, Ask(v, p)
    PROVE  \E c : CallMoves(v, c)
<1>1. PICK c : c = [NoCall EXCEPT !.pc = "file", !.bytes.page = p, !.found = RowsOfPage(rows, p)]
  OBVIOUS
<1>2. /\ Calls(v, c) /\ NotAlone
      /\ UNCHANGED <<disk, parts, rows, memory, pass, clearing, owed, mishaps>>
  BY <1>1 DEF Ask
<1>3. rows \subseteq Row
  BY DEF CacheTyped, Ledger
<1>4. c \in Calling
  BY <1>1, <1>3 DEF NoCall, NoBytes, Calling, RowsOfPage
<1>5. CallStands(c)
  BY <1>1 DEF CallStands, NoCall, NoBytes, RowsOfPage, OnePerPage
<1>6. CallMoves(v, c)
  BY <1>2, <1>4, <1>5, CallTyped DEF CallMoves, PassGoesOn
<1> QED
  BY <1>6

\* The row a call found, if it found one.
LEMMA FoundIs ==
    ASSUME CacheTyped, NEW v \in Viewer, viewer[v].found # {},
           NEW row, row = CHOOSE r \in viewer[v].found : TRUE
    PROVE  /\ row \in Row /\ row \in viewer[v].found
           /\ row.file \in File /\ row.file.page = viewer[v].bytes.page
<1>1. viewer[v] \in Calling /\ CallStands(viewer[v])
  BY CallTyped
<1>2. row \in viewer[v].found
  OBVIOUS
<1>3. row \in Row
  BY <1>1, <1>2 DEF Calling
<1> QED
  BY <1>1, <1>2, <1>3, RowsAre DEF CallStands

LEMMA AdvanceStands ==
    ASSUME NEW d \in Calling, CallStands(d), NEW pc,
           \/ pc = "fetch" /\ d.pc = "file"
           \/ pc = "land" /\ d.pc = "stage"
           \/ pc = "record" /\ d.pc = "land"
           \/ pc = "measure" /\ d.pc = "record"
    PROVE  LET c == [d EXCEPT !.pc = pc, !.found = {}]
           IN  c \in Calling /\ CallStands(c) /\ c.pc = pc /\ c.bytes = d.bytes
BY DEF Calling, CallStands

LEMMA FewerRows ==
    ASSUME NEW view, Ledger(view), NEW fewer \in SUBSET view
    PROVE  Ledger(fewer)
BY FS_Subset DEF Ledger, OnePerPage

LEMMA LookMoves ==
    ASSUME CacheTyped, NEW v \in Viewer, LookFile(v)
    PROVE  \E c : CallMoves(v, c)
<1> DEFINE p == viewer[v].bytes.page
           held == Resident(p)
           found == viewer[v].found
           row == CHOOSE r \in found : TRUE
           forget == rows \ RowsOfPage(rows, p)
           absent == \A r \in found : ~Exists(r.file)
           there == [Emptied({row.file}) EXCEPT ![[row.file EXCEPT !.dir = "pages"]] = disk[row.file]]
<1>1. viewer[v].pc = "file" /\ NotAlone /\ UNCHANGED <<parts, clearing, owed, mishaps>>
  BY DEF LookFile
<1>2. /\ viewer[v] \in Calling /\ CallStands(viewer[v])
      /\ disk \in [File -> Content \cup {"none"}] /\ parts \subseteq File
      /\ Ledger(rows) /\ Tier(memory)
  BY CallTyped
<1>3. p \in Page
  BY <1>1, <1>2 DEF CallStands
<1>4. Ledger(forget)
  <2>1. forget \subseteq rows
    OBVIOUS
  <2> QED
    BY <1>2, <2>1, FewerRows
<1>5. Tier(Without(memory, {p})) /\ Tier(Touched(p))
  BY <1>2, WithoutIs, TouchedIs
<1>6. CASE /\ absent /\ held # {}
           /\ memory' = Touched(p)
           /\ Calls(v, [NoCall EXCEPT !.pc = "stage", !.resident = TRUE,
                                      !.bytes = CHOOSE b \in held : TRUE])
           /\ UNCHANGED <<disk, rows, pass>>
  <2>1. PICK b : b = CHOOSE x \in held : TRUE
    OBVIOUS
  <2>2. b \in Bytes
    BY <1>2, <1>6, <2>1, TouchedIs
  <2>3. PICK c : c = [NoCall EXCEPT !.pc = "stage", !.resident = TRUE, !.bytes = b]
    OBVIOUS
  <2>4. c \in Calling /\ CallStands(c)
    BY <2>2, <2>3 DEF Calling, NoCall, NoBytes, CallStands, Bytes, OnePerPage
  <2>5. Calls(v, c)
    BY <1>6, <2>1, <2>3
  <2>6. CallMoves(v, c)
    BY <1>1, <1>2, <1>5, <1>6, <2>4, <2>5, CallTyped DEF CallMoves, PassGoesOn
  <2> QED
    BY <2>6
<1>7. CASE /\ Advance(v, "fetch") /\ (UNCHANGED pass \/ Wrote)
           /\ disk' \in [File -> Content \cup {"none"}]
           /\ rows' \in {rows, forget} /\ memory' \in {memory, Without(memory, {p})}
  <2>1. PICK c : c = [viewer[v] EXCEPT !.pc = "fetch", !.found = {}]
    OBVIOUS
  <2>2. c \in Calling /\ CallStands(c)
    BY <1>1, <1>2, <2>1, AdvanceStands
  <2>3. Calls(v, c)
    BY <1>7, <2>1 DEF Advance
  <2>4. Ledger(rows') /\ Tier(memory')
    BY <1>2, <1>4, <1>5, <1>7
  <2>5. CallMoves(v, c)
    BY <1>1, <1>2, <1>7, <2>2, <2>3, <2>4, CallTyped DEF CallMoves, PassGoesOn
  <2> QED
    BY <2>5
<1>8. CASE /\ ~absent /\ disk' = there
           /\ Calls(v, [viewer[v] EXCEPT !.pc = "relocate"])
           /\ UNCHANGED <<rows, memory, pass>>
  <2>1. found # {}
    BY <1>8
  <2>2. PICK r : r = row
    OBVIOUS
  <2>3. r.file \in File
    BY <2>1, <2>2, FoundIs
  <2>4. PICK c : c = [viewer[v] EXCEPT !.pc = "relocate"]
    OBVIOUS
  <2>5. c \in Calling /\ CallStands(c)
    BY <1>1, <1>2, <2>1, <2>4 DEF Calling, CallStands
  <2>6. PICK e : e = Emptied({r.file})
    OBVIOUS
  <2>7. e \in [File -> Content \cup {"none"}] /\ disk[r.file] \in Content \cup {"none"}
    BY <1>2, <2>3, <2>6, EmptiedTyped
  <2>8. disk' = [e EXCEPT ![[r.file EXCEPT !.dir = "pages"]] = disk[r.file]]
    BY <1>8, <2>2, <2>6
  <2>9. disk' \in [File -> Content \cup {"none"}]
    BY <2>7, <2>8
  <2>10. CallMoves(v, c)
    BY <1>1, <1>2, <1>8, <2>4, <2>5, <2>9, CallTyped DEF CallMoves, PassGoesOn
  <2> QED
    BY <2>10
<1>9. CASE Wrote /\ Calls(v, NoCall) /\ UNCHANGED <<disk, rows, memory>>
  <2>1. CallMoves(v, NoCall)
    BY <1>1, <1>2, <1>9, NothingStands, CallTyped DEF CallMoves, PassGoesOn
  <2> QED
    BY <2>1
<1>10. /\ disk' = disk => disk' \in [File -> Content \cup {"none"}]
       /\ disk' = Emptied({row.file}) => disk' \in [File -> Content \cup {"none"}]
  BY <1>2, EmptiedTyped
<1>11. \/ /\ absent /\ held # {}
          /\ memory' = Touched(p)
          /\ Calls(v, [NoCall EXCEPT !.pc = "stage", !.resident = TRUE,
                                     !.bytes = CHOOSE b \in held : TRUE])
          /\ UNCHANGED <<disk, rows, pass>>
       \/ /\ Advance(v, "fetch")
          /\ UNCHANGED <<disk, rows, memory, pass>>
       \/ /\ Wrote /\ rows' = forget
          /\ Advance(v, "fetch")
          /\ UNCHANGED <<disk, memory>>
       \/ /\ Wrote /\ rows' = forget
          /\ disk' = Emptied({row.file})
          /\ memory' = Without(memory, {p})
          /\ Advance(v, "fetch")
       \/ /\ ~absent /\ disk' = there
          /\ Calls(v, [viewer[v] EXCEPT !.pc = "relocate"])
          /\ UNCHANGED <<rows, memory, pass>>
       \/ /\ Wrote
          /\ Calls(v, NoCall)
          /\ UNCHANGED <<disk, rows, memory>>
  BY Zenon DEF LookFile
<1> HIDE DEF p, held, found, row, forget, absent, there
<1> QED
  BY <1>6, <1>7, <1>8, <1>9, <1>10, <1>11

LEMMA RelocateMoves ==
    ASSUME CacheTyped, NEW v \in Viewer, Relocate(v)
    PROVE  \E c : CallMoves(v, c)
<1>1. /\ viewer[v].pc = "relocate" /\ Calls(v, NoCall) /\ NotAlone
      /\ UNCHANGED <<disk, parts, clearing, owed, mishaps>>
  BY DEF Relocate
<1>2. /\ viewer[v] \in Calling /\ CallStands(viewer[v])
      /\ disk \in [File -> Content \cup {"none"}] /\ parts \subseteq File
      /\ Ledger(rows) /\ Tier(memory)
  BY CallTyped
<1>3. PICK now : now = RowsOfPage(rows, viewer[v].bytes.page)
  OBVIOUS
<1>4. CASE now = {}
  <2>1. UNCHANGED <<rows, memory, pass>>
    BY <1>3, <1>4 DEF Relocate
  <2>2. CallMoves(v, NoCall)
    BY <1>1, <1>2, <2>1, NothingStands, CallTyped DEF CallMoves, PassGoesOn
  <2> QED
    BY <2>2
<1>5. CASE now # {}
  <2>1. viewer[v].found # {}
    BY <1>1, <1>2 DEF CallStands
  <2>2. PICK old : old = CHOOSE r \in viewer[v].found : TRUE
    OBVIOUS
  <2>3. old.file \in File /\ old.file.page = viewer[v].bytes.page
    BY <2>1, <2>2, FoundIs
  <2>4. PICK size : size = (CHOOSE r \in now : TRUE).size
    OBVIOUS
  <2>5. size \in Content
    <3>1. PICK x : x = CHOOSE r \in now : TRUE
      OBVIOUS
    <3>2. x \in now
      BY <1>5, <3>1
    <3>3. x \in Row
      BY <1>2, <1>3, <3>2 DEF RowsOfPage, Ledger
    <3> QED
      BY <2>4, <3>1, <3>3, RowsAre
  <2>6. PICK row : row = [file |-> [old.file EXCEPT !.dir = "pages"], size |-> size]
    OBVIOUS
  <2>7. row \in Row /\ row.file.page = viewer[v].bytes.page
    <3>1. [old.file EXCEPT !.dir = "pages"] \in File
      BY <2>3 DEF File
    <3>2. [old.file EXCEPT !.dir = "pages"].page = old.file.page
      BY <2>3 DEF File
    <3> QED
      BY <2>3, <2>5, <2>6, <3>1, <3>2 DEF Row
  <2>8. Wrote /\ rows' = Recorded(rows, row) /\ memory' = Without(memory, {viewer[v].bytes.page})
    BY <1>3, <1>5, <2>2, <2>4, <2>6 DEF Relocate
  <2>9. PICK more : more = Recorded(rows, row)
    OBVIOUS
  <2>11. Ledger(more)
    BY <1>2, <2>7, <2>9, RecordedIs DEF Ledger
  <2>12. Tier(memory')
    BY <1>2, <2>8, WithoutIs
  <2>13. CallMoves(v, NoCall)
    BY <1>1, <1>2, <2>8, <2>9, <2>11, <2>12, NothingStands, CallTyped DEF CallMoves, PassGoesOn
  <2> QED
    BY <2>13
<1> QED
  BY <1>4, <1>5

LEMMA FetchMoves ==
    ASSUME CacheTyped, NEW v \in Viewer, Fetch(v)
    PROVE  \E c : CallMoves(v, c)
<1>1. /\ viewer[v].pc = "fetch" /\ NotAlone
      /\ UNCHANGED <<disk, parts, rows, memory, pass, clearing, owed, mishaps>>
  BY DEF Fetch
<1>2. /\ viewer[v] \in Calling /\ CallStands(viewer[v])
      /\ disk \in [File -> Content \cup {"none"}] /\ parts \subseteq File
      /\ Ledger(rows) /\ Tier(memory)
  BY CallTyped
<1>3. viewer[v].bytes.page \in Page
  BY <1>1, <1>2 DEF CallStands
<1>4. PICK answer \in Answers, format \in Format :
          IF answer = "error" THEN Calls(v, NoCall)
          ELSE Calls(v, [viewer[v] EXCEPT !.pc = "stage", !.bytes.format = format,
                                          !.bytes.content = answer])
  BY DEF Fetch
<1>5. CASE answer = "error"
  <2>1. CallMoves(v, NoCall)
    BY <1>1, <1>2, <1>4, <1>5, NothingStands, CallTyped DEF CallMoves, PassGoesOn
  <2> QED
    BY <2>1
<1>6. CASE answer # "error"
  <2>1. answer \in Content
    BY <1>6, PageCacheAssumption DEF Content
  <2>2. PICK c : c = [viewer[v] EXCEPT !.pc = "stage", !.bytes.format = format,
                                       !.bytes.content = answer]
    OBVIOUS
  <2>3. c \in Calling /\ CallStands(c)
    <3>1. c \in Calling /\ c.pc = "stage" /\ c.found = viewer[v].found /\ c.left = viewer[v].left
      BY <1>2, <2>1, <2>2 DEF Calling
    <3>2. c.bytes \in Bytes /\ c.bytes.page = viewer[v].bytes.page
      BY <1>2, <1>3, <2>1, <2>2 DEF Calling, Bytes
    <3> QED
      BY <1>2, <3>1, <3>2 DEF CallStands
  <2>4. Calls(v, c)
    BY <1>4, <1>6, <2>2
  <2>5. CallMoves(v, c)
    BY <1>1, <1>2, <2>3, <2>4, CallTyped DEF CallMoves, PassGoesOn
  <2> QED
    BY <2>5
<1> QED
  BY <1>5, <1>6

LEMMA FileOfIs ==
    ASSUME NEW dir \in {"pages", "prefetch"}, NEW b \in Bytes
    PROVE  /\ FileOf(dir, b) \in File /\ FileOf(dir, b).page = b.page
           /\ FileOf(dir, b).dir = dir /\ FileOf(dir, b).format = b.format
BY DEF FileOf, File, Bytes

LEMMA StageMoves ==
    ASSUME CacheTyped, NEW v \in Viewer, Stage(v)
    PROVE  \E c : CallMoves(v, c)
<1>1. /\ viewer[v].pc = "stage" /\ NotAlone
      /\ UNCHANGED <<rows, pass, clearing, owed, mishaps>>
  BY DEF Stage
<1>2. /\ viewer[v] \in Calling /\ CallStands(viewer[v])
      /\ disk \in [File -> Content \cup {"none"}] /\ parts \subseteq File
      /\ Ledger(rows) /\ Tier(memory)
  BY CallTyped
<1>3. PICK bytes : bytes = viewer[v].bytes
  OBVIOUS
<1>4. bytes \in Bytes
  BY <1>1, <1>2, <1>3 DEF CallStands
<1>5. CASE Refused(bytes)
  <2>1. Calls(v, NoCall) /\ UNCHANGED <<disk, parts, memory>>
    BY <1>3, <1>5 DEF Stage
  <2>2. CallMoves(v, NoCall)
    BY <1>1, <1>2, <2>1, NothingStands, CallTyped DEF CallMoves, PassGoesOn
  <2> QED
    BY <2>2
<1>6. CASE ~Refused(bytes)
  <2>1. PICK previous : previous = {r \in RowsOfPage(rows, bytes.page) : r.file.format # bytes.format}
    OBVIOUS
  <2>2. /\ disk' = Emptied(FilesOf(previous))
        /\ memory' = IF previous = {} THEN memory ELSE Without(memory, {bytes.page})
        /\ parts' = parts \cup {FileOf("pages", bytes)}
        /\ Advance(v, "land")
    BY <1>3, <1>6, <2>1 DEF Stage
  <2>3. PICK c : c = [viewer[v] EXCEPT !.pc = "land", !.found = {}]
    OBVIOUS
  <2>4. c \in Calling /\ CallStands(c) /\ Calls(v, c)
    BY <1>1, <1>2, <2>2, <2>3, AdvanceStands DEF Advance
  <2>5. disk' \in [File -> Content \cup {"none"}] /\ parts' \subseteq File
    BY <1>2, <1>4, <2>2, EmptiedTyped, FileOfIs
  <2>6. Tier(memory')
    BY <1>2, <2>2, WithoutIs
  <2>7. CallMoves(v, c)
    BY <1>1, <1>2, <2>4, <2>5, <2>6, CallTyped DEF CallMoves, PassGoesOn
  <2> QED
    BY <2>7
<1> QED
  BY <1>5, <1>6

LEMMA LandMoves ==
    ASSUME CacheTyped, NEW v \in Viewer, Land(v)
    PROVE  \E c : CallMoves(v, c)
<1>1. /\ viewer[v].pc = "land" /\ NotAlone
      /\ UNCHANGED <<rows, memory, pass, clearing, owed, mishaps>>
  BY DEF Land
<1>2. /\ viewer[v] \in Calling /\ CallStands(viewer[v])
      /\ disk \in [File -> Content \cup {"none"}] /\ parts \subseteq File
      /\ Ledger(rows) /\ Tier(memory)
  BY CallTyped
<1>3. PICK bytes : bytes = viewer[v].bytes
  OBVIOUS
<1>4. bytes \in Bytes /\ bytes.content \in Content
  BY <1>1, <1>2, <1>3 DEF CallStands, Bytes
<1>5. PICK file : file = FileOf("pages", bytes)
  OBVIOUS
<1>6. CASE file \in parts
  <2>1. disk' = [disk EXCEPT ![file] = bytes.content] /\ parts' = parts \ {file} /\ Advance(v, "record")
    BY <1>3, <1>5, <1>6 DEF Land
  <2>2. PICK c : c = [viewer[v] EXCEPT !.pc = "record", !.found = {}]
    OBVIOUS
  <2>3. c \in Calling /\ CallStands(c) /\ Calls(v, c)
    BY <1>1, <1>2, <2>1, <2>2, AdvanceStands DEF Advance
  <2>4. disk' \in [File -> Content \cup {"none"}] /\ parts' \subseteq File
    BY <1>2, <1>4, <2>1
  <2>5. CallMoves(v, c)
    BY <1>1, <1>2, <2>3, <2>4, CallTyped DEF CallMoves, PassGoesOn
  <2> QED
    BY <2>5
<1>7. CASE file \notin parts
  <2>1. Calls(v, NoCall) /\ UNCHANGED <<disk, parts>>
    BY <1>3, <1>5, <1>7 DEF Land
  <2>2. CallMoves(v, NoCall)
    BY <1>1, <1>2, <2>1, NothingStands, CallTyped DEF CallMoves, PassGoesOn
  <2> QED
    BY <2>2
<1> QED
  BY <1>6, <1>7

\* A row measured from a file that is there, and the ledger with it.
LEMMA MeasuredRow ==
    ASSUME disk \in [File -> Content \cup {"none"}], NEW view, Ledger(view),
           NEW file \in File, Exists(file)
    PROVE  LET row == [file |-> file, size |-> disk[file]]
           IN  row \in Row /\ Ledger(Recorded(view, row))
<1>1. PICK row : row = [file |-> file, size |-> disk[file]]
  OBVIOUS
<1>2. row \in Row
  BY <1>1 DEF Row, Exists
<1>3. Ledger(Recorded(view, row))
  BY <1>2, RecordedIs DEF Ledger
<1> QED
  BY <1>1, <1>2, <1>3

LEMMA RecordMoves ==
    ASSUME CacheTyped, NEW v \in Viewer, Record(v)
    PROVE  \E c : CallMoves(v, c)
<1>1. /\ viewer[v].pc = "record" /\ NotAlone
      /\ UNCHANGED <<disk, parts, memory, clearing, owed, mishaps>>
  BY DEF Record
<1>2. /\ viewer[v] \in Calling /\ CallStands(viewer[v])
      /\ disk \in [File -> Content \cup {"none"}] /\ parts \subseteq File
      /\ Ledger(rows) /\ Tier(memory)
  BY CallTyped
<1>3. PICK file : file = FileOf("pages", viewer[v].bytes)
  OBVIOUS
<1>4. file \in File
  BY <1>1, <1>2, <1>3, FileOfIs DEF CallStands
<1>5. CASE ~Exists(file)
  <2>1. Calls(v, NoCall) /\ UNCHANGED <<rows, pass>>
    BY <1>3, <1>5 DEF Record
  <2>2. CallMoves(v, NoCall)
    BY <1>1, <1>2, <2>1, NothingStands, CallTyped DEF CallMoves, PassGoesOn
  <2> QED
    BY <2>2
<1>6. CASE Exists(file)
  <2>1. /\ Wrote
        /\ rows' = Recorded(rows, [file |-> file, size |-> disk[file]])
        /\ Advance(v, "measure")
    BY <1>3, <1>6 DEF Record
  <2>2. Ledger(rows')
    BY <1>2, <1>4, <1>6, <2>1, MeasuredRow
  <2>3. PICK c : c = [viewer[v] EXCEPT !.pc = "measure", !.found = {}]
    OBVIOUS
  <2>4. c \in Calling /\ CallStands(c) /\ Calls(v, c)
    BY <1>1, <1>2, <2>1, <2>3, AdvanceStands DEF Advance
  <2>5. CallMoves(v, c)
    BY <1>1, <1>2, <2>1, <2>2, <2>4, CallTyped DEF CallMoves, PassGoesOn
  <2> QED
    BY <2>5
<1> QED
  BY <1>5, <1>6

LEMMA MeasureMoves ==
    ASSUME CacheTyped, NEW v \in Viewer, Measure(v)
    PROVE  \E c : CallMoves(v, c)
<1>1. /\ viewer[v].pc = "measure" /\ NotAlone /\ Measures
      /\ Calls(v, [viewer[v] EXCEPT !.pc = "evict", !.left = Measured(rows)])
      /\ UNCHANGED <<disk, parts, memory, clearing, mishaps>>
  BY DEF Measure
<1>2. /\ viewer[v] \in Calling /\ CallStands(viewer[v])
      /\ disk \in [File -> Content \cup {"none"}] /\ parts \subseteq File
      /\ Ledger(rows) /\ Tier(memory) /\ Counts
  BY CallTyped
<1>3. PICK left : left = Measured(rows)
  OBVIOUS
<1>4. left \subseteq rows /\ Ledger(left)
  BY <1>2, <1>3, MeasuredIs, FewerRows
<1>5. PICK c : c = [viewer[v] EXCEPT !.pc = "evict", !.left = left]
  OBVIOUS
<1>6. c \in Calling /\ CallStands(c)
  BY <1>1, <1>2, <1>4, <1>5 DEF Calling, CallStands, Ledger
<1>7. Counts'
  BY <1>1, <1>2 DEF Measures, Counts
<1>8. rows' = left /\ PassGoesOn
  BY <1>1, <1>3 DEF Measures, PassGoesOn
<1>9. CallMoves(v, c)
  BY <1>1, <1>2, <1>3, <1>4, <1>5, <1>6, <1>7, <1>8 DEF CallMoves
<1> QED
  BY <1>9

LEMMA EvictMoves ==
    ASSUME CacheTyped, NEW v \in Viewer, Evict(v)
    PROVE  \E c : CallMoves(v, c)
<1>1. /\ viewer[v].pc = "evict" /\ NotAlone
      /\ UNCHANGED <<disk, parts, memory, clearing, owed, mishaps>>
  BY DEF Evict
<1>2. /\ viewer[v] \in Calling /\ CallStands(viewer[v])
      /\ disk \in [File -> Content \cup {"none"}] /\ parts \subseteq File
      /\ Ledger(rows) /\ Tier(memory)
  BY CallTyped
<1>3. CASE /\ Calls(v, [viewer[v] EXCEPT !.pc = "unlink", !.left = {}])
           /\ UNCHANGED <<rows, pass>>
  <2>1. PICK c : c = [viewer[v] EXCEPT !.pc = "unlink", !.left = {}]
    OBVIOUS
  <2>2. c \in Calling /\ CallStands(c)
    BY <1>1, <1>2, <2>1 DEF Calling, CallStands, OnePerPage
  <2>3. CallMoves(v, c)
    BY <1>1, <1>2, <1>3, <2>1, <2>2, CallTyped DEF CallMoves, PassGoesOn
  <2> QED
    BY <2>3
<1>4. CASE \E row \in Worst(viewer[v].left, Kept(viewer[v].bytes.page)) :
              /\ Drops(row)
              /\ Calls(v, [viewer[v] EXCEPT !.left = @ \ {row}, !.victims = @ \cup {row.file}])
  <2>1. PICK row \in Worst(viewer[v].left, Kept(viewer[v].bytes.page)) :
              /\ Drops(row)
              /\ Calls(v, [viewer[v] EXCEPT !.left = @ \ {row}, !.victims = @ \cup {row.file}])
    BY <1>4
  <2>2. row \in viewer[v].left
    BY <2>1, WorstIs
  <2>3. row \in Row /\ row.file \in File
    BY <1>2, <2>2, RowsAre DEF Calling
  <2>4. PICK c : c = [viewer[v] EXCEPT !.left = @ \ {row}, !.victims = @ \cup {row.file}]
    OBVIOUS
  <2>5. c \in Calling /\ CallStands(c)
    BY <1>1, <1>2, <2>2, <2>3, <2>4 DEF Calling, CallStands, OnePerPage
  <2>6. rows' \subseteq rows /\ PassGoesOn
    BY <2>1, <2>2, DropsIs
  <2>7. Ledger(rows')
    BY <1>2, <2>6, FewerRows
  <2>8. CallMoves(v, c)
    BY <1>1, <1>2, <2>1, <2>4, <2>5, <2>6, <2>7, CallTyped DEF CallMoves
  <2> QED
    BY <2>8
<1> QED
  BY <1>3, <1>4 DEF Evict

LEMMA UnlinkMoves ==
    ASSUME CacheTyped, NEW v \in Viewer, Unlink(v)
    PROVE  \E c : CallMoves(v, c)
<1>1. /\ disk' = Emptied(viewer[v].victims)
      /\ memory' \in {memory, Without(memory, {viewer[v].bytes.page})}
      /\ Calls(v, NoCall) /\ NotAlone
      /\ UNCHANGED <<parts, rows, pass, clearing, owed, mishaps>>
  BY DEF Unlink
<1>2. /\ disk \in [File -> Content \cup {"none"}] /\ parts \subseteq File
      /\ Ledger(rows) /\ Tier(memory)
  BY CallTyped
<1>3. Tier(memory')
  BY <1>1, <1>2, WithoutIs
<1>4. disk' \in [File -> Content \cup {"none"}]
  BY <1>1, <1>2, EmptiedTyped
<1>5. CallMoves(v, NoCall)
  BY <1>1, <1>2, <1>3, <1>4, NothingStands, CallTyped DEF CallMoves, PassGoesOn
<1> QED
  BY <1>5

LEMMA FailMoves ==
    ASSUME CacheTyped, NEW v \in Viewer, Fail(v)
    PROVE  \E c : CallMoves(v, c)
<1>1. /\ Calls(v, NoCall) /\ NotAlone
      /\ mishaps < MaxMishaps /\ mishaps' = mishaps + 1
      /\ owed' = (owed \/ viewer[v].pc \in {"measure", "evict"})
      /\ UNCHANGED <<disk, parts, rows, memory, pass, clearing>>
  BY DEF Fail
<1>2. Counts'
  BY <1>1, CallTyped, PageCacheAssumption DEF Counts
<1>3. CallMoves(v, NoCall)
  BY <1>1, <1>2, CallTyped, NothingStands DEF CallMoves, PassGoesOn
<1> QED
  BY <1>3

\* The steps of one call.
CallSteps(v) == Display(v) \/ Fail(v) \/ \E p \in Page : Ask(v, p)

LEMMA CallStepMoves ==
    ASSUME CacheTyped, NEW v \in Viewer, CallSteps(v)
    PROVE  \E c : CallMoves(v, c)
BY AskMoves, LookMoves, RelocateMoves, FetchMoves, StageMoves, LandMoves, RecordMoves,
   MeasureMoves, EvictMoves, FailMoves, UnlinkMoves DEF Display, CallSteps

LEMMA DisplayTyped ==
    ASSUME CacheTyped, NEW v \in Viewer, CallSteps(v)
    PROVE  CacheTyped'
<1>1. PICK c : CallMoves(v, c)
  BY CallStepMoves
<1> QED
  BY <1>1, CallMovesTyped

LEMMA PartsTyped ==
    ASSUME CacheTyped,
           disk' \in [File -> Content \cup {"none"}], parts' \subseteq File,
           Ledger(rows'), Tier(memory'), viewer' = viewer, PassCarries',
           sweep' \in Sweeping, clearing' \subseteq File, Counts'
    PROVE  CacheTyped'
<1>1. Ledger(rows)' /\ Tier(memory)'
  BY DEF Ledger, OnePerPage, Tier
<1>2. (\A v \in Viewer : CallStands(viewer[v]))' /\ viewer' \in [Viewer -> Calling]
  BY DEF CacheTyped, CallStands, OnePerPage
<1> QED
  BY <1>1, <1>2 DEF CacheTyped

\* What a pass may become.
Carries(q) ==
    /\ q \in Passing
    /\ q.pc \in {"land", "record", "evict", "unlink"} => q.bytes \in Bytes
    /\ \A b \in q.todo \cup {q.bytes} : b.content # "short"
    /\ Ledger(q.view)

LEMMA CarriesIs ==
    /\ PassCarries <=> Carries(pass)
    /\ \A q : Carries(q) /\ pass' = q => PassCarries'
    /\ Carries(NoPass)
<1>1. \A q : Carries(q) /\ pass' = q => PassCarries'
  BY DEF PassCarries, Carries, Ledger, OnePerPage
<1>2. Carries(NoPass)
  BY NothingStands DEF Carries
<1> QED
  BY <1>1, <1>2 DEF PassCarries, Carries

PassMoves ==
    /\ \E q : Carries(q) /\ pass' = q
    /\ disk' \in [File -> Content \cup {"none"}]
    /\ parts' \subseteq File
    /\ Ledger(rows')
    /\ Tier(memory')
    /\ NotAlone
    /\ UNCHANGED <<viewer, clearing>>
    /\ Counts'

LEMMA PassMovesTyped ==
    ASSUME CacheTyped, PassMoves
    PROVE  CacheTyped'
<1>1. PassCarries'
  BY CarriesIs DEF PassMoves
<1>2. sweep' \in Sweeping
  BY NotAloneTyped DEF PassMoves, CacheTyped
<1> QED
  BY <1>1, <1>2, PartsTyped DEF PassMoves, CacheTyped

LEMMA PassTyped ==
    ASSUME CacheTyped
    PROVE  /\ Carries(pass) /\ pass \in Passing /\ Ledger(rows) /\ Tier(memory)
           /\ disk \in [File -> Content \cup {"none"}] /\ parts \subseteq File
           /\ Counts /\ (UNCHANGED <<owed, mishaps>> => Counts')
BY CarriesIs, CountsRest DEF CacheTyped, PassCarries

LEMMA PassFetchMoves ==
    ASSUME CacheTyped, PassFetch
    PROVE  PassMoves
<1>1. PICK todo \in SUBSET [page : Page, format : Format, content : {"whole"}] :
          pass' = [NoPass EXCEPT !.pc = "next", !.todo = todo]
  BY DEF PassFetch
<1>2. PICK q : q = [NoPass EXCEPT !.pc = "next", !.todo = todo]
  OBVIOUS
<1>3. todo \subseteq Bytes /\ \A b \in todo : b.content # "short"
  BY <1>1 DEF Bytes, Content
<1>4. /\ q \in Passing /\ q.pc = "next" /\ q.todo = todo /\ q.bytes = NoPass.bytes
      /\ q.view = NoPass.view
  BY <1>2, <1>3, NothingStands DEF Passing
<1>5. Carries(q)
  BY <1>3, <1>4, NothingStands DEF Carries
<1> QED
  BY <1>1, <1>2, <1>5, PassTyped DEF PassFetch, PassMoves

LEMMA PassStageMoves ==
    ASSUME CacheTyped, PassStage
    PROVE  PassMoves
<1>1. PICK bytes \in pass.todo :
          LET view == IF pass.tx = "none" THEN rows ELSE pass.view
              skip == RowsOfPage(view, bytes.page) # {}
          IN  /\ pass' = [pass EXCEPT !.todo = @ \ {bytes},
                             !.bytes = IF skip THEN NoBytes ELSE bytes,
                             !.tx = IF @ = "none" THEN "read" ELSE @,
                             !.view = view,
                             !.pc = IF skip THEN "next" ELSE "land"]
              /\ parts' = IF skip THEN parts ELSE parts \cup {FileOf("prefetch", bytes)}
  BY DEF PassStage
<1>2. PICK view : view = IF pass.tx = "none" THEN rows ELSE pass.view
  OBVIOUS
<1>3. PICK skip \in BOOLEAN : skip = (RowsOfPage(view, bytes.page) # {})
  OBVIOUS
<1>4. PICK held : held = IF skip THEN NoBytes ELSE bytes
  OBVIOUS
<1>5. PICK q : q = [pass EXCEPT !.todo = pass.todo \ {bytes}, !.bytes = held,
                                !.tx = IF pass.tx = "none" THEN "read" ELSE pass.tx,
                                !.view = view, !.pc = IF skip THEN "next" ELSE "land"]
  OBVIOUS
<1>6. pass' = q /\ parts' = IF skip THEN parts ELSE parts \cup {FileOf("prefetch", bytes)}
  BY <1>1, <1>2, <1>3, <1>4, <1>5
<1>7. Ledger(view) /\ view \subseteq Row
  BY <1>2, PassTyped DEF Carries, Ledger
<1>8. bytes \in Bytes /\ bytes.content # "short" /\ pass.todo \subseteq Bytes
  BY <1>1, PassTyped DEF Carries, Passing
<1>9. held.content # "short" /\ held \in Bytes \cup {NoBytes} /\ (~skip => held \in Bytes)
  BY <1>4, <1>8 DEF NoBytes
<1>10. /\ q \in Passing /\ q.view = view /\ q.bytes = held /\ q.todo = pass.todo \ {bytes}
       /\ q.pc = IF skip THEN "next" ELSE "land"
  <2>1. pass \in Passing /\ Ledger(rows)
    BY PassTyped
  <2> QED
    BY <1>5, <1>7, <1>9, <2>1 DEF Passing, Ledger
<1>11. Carries(q)
  BY <1>7, <1>9, <1>10, PassTyped DEF Carries
<1>12. parts' \subseteq File
  BY <1>6, <1>8, FileOfIs, PassTyped
<1> QED
  BY <1>6, <1>11, <1>12, PassTyped DEF PassStage, PassMoves

\* A pass that goes on to another page.
LEMMA PassGoesNext ==
    ASSUME CacheTyped
    PROVE  LET q == [pass EXCEPT !.pc = "next", !.bytes = NoBytes]
           IN  Carries(q) /\ Carries([pass EXCEPT !.pc = "next", !.bytes = NoBytes, !.victims = {}])
<1>1. Carries(pass) /\ pass \in Passing
  BY PassTyped
<1>2. NoBytes.content # "short"
  BY DEF NoBytes
<1>3. PICK q : q = [pass EXCEPT !.pc = "next", !.bytes = NoBytes]
  OBVIOUS
<1>4. PICK z : z = [pass EXCEPT !.pc = "next", !.bytes = NoBytes, !.victims = {}]
  OBVIOUS
<1>5. q \in Passing /\ q.pc = "next" /\ q.bytes = NoBytes /\ q.todo = pass.todo /\ q.view = pass.view
  BY <1>1, <1>3 DEF Passing
<1>6. z \in Passing /\ z.pc = "next" /\ z.bytes = NoBytes /\ z.todo = pass.todo /\ z.view = pass.view
  BY <1>1, <1>4 DEF Passing
<1>7. Carries(q) /\ Carries(z)
  BY <1>1, <1>2, <1>5, <1>6 DEF Carries
<1> QED
  BY <1>3, <1>4, <1>7

LEMMA PassLandMoves ==
    ASSUME CacheTyped, PassLand
    PROVE  PassMoves
<1>1. pass.pc = "land" /\ NotAlone /\ UNCHANGED <<rows, memory, viewer, clearing, owed, mishaps>>
  BY DEF PassLand
<1>2. Carries(pass) /\ pass \in Passing /\ pass.bytes \in Bytes /\ pass.bytes.content \in Content
  BY <1>1, PassTyped DEF Carries, Bytes
<1>3. PICK file : file = FileOf("prefetch", pass.bytes)
  OBVIOUS
<1>4. CASE file \in parts
  <2>1. /\ disk' = [disk EXCEPT ![file] = pass.bytes.content]
        /\ parts' = parts \ {file}
        /\ pass' = [pass EXCEPT !.pc = "record"]
    BY <1>3, <1>4 DEF PassLand
  <2>2. Carries([pass EXCEPT !.pc = "record"])
    BY <1>2 DEF Carries, Passing
  <2>3. disk' \in [File -> Content \cup {"none"}] /\ parts' \subseteq File
    BY <1>2, <2>1, PassTyped
  <2> QED
    BY <1>1, <2>1, <2>2, <2>3, PassTyped DEF PassMoves
<1>5. CASE file \notin parts
  <2>1. pass' = [pass EXCEPT !.pc = "next", !.bytes = NoBytes] /\ UNCHANGED <<disk, parts>>
    BY <1>3, <1>5 DEF PassLand
  <2> QED
    BY <1>1, <2>1, PassGoesNext, PassTyped DEF PassMoves
<1> QED
  BY <1>4, <1>5

LEMMA PassRecordMoves ==
    ASSUME CacheTyped, PassRecord
    PROVE  PassMoves
<1>1. pass.pc = "record" /\ NotAlone /\ UNCHANGED <<disk, parts, rows, memory, viewer, clearing, owed, mishaps>>
  BY DEF PassRecord
<1>2. Carries(pass) /\ pass \in Passing /\ pass.bytes \in Bytes
  BY <1>1, PassTyped DEF Carries
<1>3. PICK file : file = FileOf("prefetch", pass.bytes)
  OBVIOUS
<1>4. CASE ~Exists(file) \/ (pass.tx = "read" /\ pass.stale)
  <2>1. pass' = [pass EXCEPT !.pc = "next", !.bytes = NoBytes]
    BY <1>3, <1>4 DEF PassRecord
  <2> QED
    BY <1>1, <2>1, PassGoesNext, PassTyped DEF PassMoves
<1>5. CASE ~(~Exists(file) \/ (pass.tx = "read" /\ pass.stale))
  <2>1. PICK view : view = Measured(Recorded(pass.view, [file |-> file, size |-> disk[file]]))
    OBVIOUS
  <2>2. pass' = [pass EXCEPT !.pc = "evict", !.tx = "write", !.torn = FALSE, !.view = view]
    BY <1>3, <1>5, <2>1 DEF PassRecord
  <2>3. file \in File /\ Ledger(pass.view)
    BY <1>2, <1>3, FileOfIs DEF Carries
  <2>4. Ledger(view) /\ view \subseteq Row
    <3>1. PICK more : more = Recorded(pass.view, [file |-> file, size |-> disk[file]])
      OBVIOUS
    <3>2. Ledger(more)
      BY <1>5, <2>3, <3>1, MeasuredRow, PassTyped
    <3>3. view \subseteq more
      BY <2>1, <3>1, MeasuredIs
    <3> QED
      BY <3>2, <3>3, FewerRows DEF Ledger
  <2>5. PICK q : q = [pass EXCEPT !.pc = "evict", !.tx = "write", !.torn = FALSE, !.view = view]
    OBVIOUS
  <2>6. /\ q \in Passing /\ q.pc = "evict" /\ q.bytes = pass.bytes /\ q.todo = pass.todo
        /\ q.view = view
    BY <1>2, <2>4, <2>5 DEF Passing
  <2>7. Carries(q)
    BY <1>2, <2>4, <2>6 DEF Carries
  <2> QED
    BY <1>1, <2>2, <2>5, <2>7, PassTyped DEF PassMoves
<1> QED
  BY <1>4, <1>5

LEMMA PassEvictMoves ==
    ASSUME CacheTyped, PassEvict
    PROVE  PassMoves
<1>1. pass.pc = "evict" /\ NotAlone
      /\ UNCHANGED <<disk, parts, rows, memory, viewer, clearing, owed, mishaps>>
  BY DEF PassEvict
<1>2. Carries(pass) /\ pass \in Passing /\ pass.bytes \in Bytes /\ Ledger(pass.view)
  BY <1>1, PassTyped DEF Carries
<1>3. CASE pass' = [pass EXCEPT !.pc = "unlink"]
  <2>1. Carries([pass EXCEPT !.pc = "unlink"])
    BY <1>2 DEF Carries, Passing
  <2> QED
    BY <1>1, <1>3, <2>1, PassTyped DEF PassMoves
<1>4. CASE \E row \in Worst(pass.view, Kept(pass.bytes.page)) :
              pass' = [pass EXCEPT !.view = @ \ {row}, !.victims = @ \cup {row.file}]
  <2>1. PICK row \in Worst(pass.view, Kept(pass.bytes.page)) :
              pass' = [pass EXCEPT !.view = @ \ {row}, !.victims = @ \cup {row.file}]
    BY <1>4
  <2>2. row \in pass.view
    BY <2>1, WorstIs
  <2>3. row \in Row /\ row.file \in File
    BY <1>2, <2>2, RowsAre DEF Ledger
  <2>4. PICK view : view = pass.view \ {row}
    OBVIOUS
  <2>5. Ledger(view) /\ view \subseteq Row
    BY <1>2, <2>4, FewerRows DEF Ledger
  <2>6. PICK q : q = [pass EXCEPT !.view = view, !.victims = @ \cup {row.file}]
    OBVIOUS
  <2>7. /\ q \in Passing /\ q.pc = pass.pc /\ q.bytes = pass.bytes /\ q.todo = pass.todo
        /\ q.view = view
    BY <1>2, <2>3, <2>5, <2>6 DEF Passing
  <2>8. Carries(q)
    BY <1>2, <2>5, <2>7 DEF Carries
  <2> QED
    BY <1>1, <2>1, <2>4, <2>6, <2>8, PassTyped DEF PassMoves
<1> QED
  BY <1>3, <1>4 DEF PassEvict

LEMMA PassUnlinkMoves ==
    ASSUME CacheTyped, PassUnlink
    PROVE  PassMoves
<1>1. /\ pass.pc = "unlink" /\ NotAlone
      /\ disk' = Emptied(pass.victims)
      /\ memory' = Inserted(memory, pass.bytes)
      /\ pass' = [pass EXCEPT !.pc = "next", !.bytes = NoBytes, !.victims = {}]
      /\ UNCHANGED <<parts, rows, viewer, clearing, owed, mishaps>>
  BY DEF PassUnlink
<1>2. pass.bytes \in Bytes
  BY <1>1, PassTyped DEF Carries
<1>3. Tier(memory')
  BY <1>1, <1>2, InsertedIs, PassTyped
<1>4. disk' \in [File -> Content \cup {"none"}]
  BY <1>1, EmptiedTyped, PassTyped
<1> QED
  BY <1>1, <1>3, <1>4, PassGoesNext, PassTyped DEF PassMoves

LEMMA PassCommitMoves ==
    ASSUME CacheTyped, PassCommit
    PROVE  PassMoves
<1>1. /\ NotAlone /\ rows' \in {rows, pass.view} /\ pass' = NoPass
      /\ UNCHANGED <<disk, parts, memory, viewer, clearing, mishaps>>
      /\ owed' = IF pass.tx = "write" THEN pass.torn ELSE owed
  BY DEF PassCommit, Ended
<1>2. Ledger(rows')
  BY <1>1, PassTyped DEF Carries
<1>3. pass.torn \in BOOLEAN /\ Counts
  BY PassTyped DEF Passing
<1>4. Counts'
  BY <1>1, <1>3 DEF Counts
<1> QED
  BY <1>1, <1>2, <1>4, CarriesIs, PassTyped DEF PassMoves

LEMMA PassFailMoves ==
    ASSUME CacheTyped, PassFail
    PROVE  PassMoves
<1>1. /\ NotAlone /\ mishaps < MaxMishaps /\ mishaps' = mishaps + 1
      /\ UNCHANGED <<disk, parts, rows, memory, viewer, clearing, owed>>
  BY DEF PassFail
<1>2. Counts'
  BY <1>1, PassTyped, PageCacheAssumption DEF Counts
<1>3. CASE pass' = NoPass
  BY <1>1, <1>2, <1>3, CarriesIs, PassTyped DEF PassMoves
<1>4. CASE pass' = [pass EXCEPT !.pc = "next", !.bytes = NoBytes, !.victims = {},
                                !.torn = @ \/ pass.pc = "evict"]
  <2>1. Carries(pass) /\ pass \in Passing
    BY PassTyped
  <2>2. PICK torn \in BOOLEAN : torn = (pass.torn \/ pass.pc = "evict")
    OBVIOUS
  <2>3. PICK q : q = [pass EXCEPT !.pc = "next", !.bytes = NoBytes, !.victims = {}, !.torn = torn]
    OBVIOUS
  <2>4. /\ q \in Passing /\ q.pc = "next" /\ q.bytes = NoBytes /\ q.todo = pass.todo
        /\ q.view = pass.view
    BY <2>1, <2>3 DEF Passing
  <2>5. Carries(q)
    BY <2>1, <2>4 DEF Carries, NoBytes
  <2>6. pass' = q
    BY <1>4, <2>2, <2>3
  <2> QED
    BY <1>1, <1>2, <2>5, <2>6, PassTyped DEF PassMoves
<1> QED
  BY <1>3, <1>4 DEF PassFail

\* The steps of a pass.
PassSteps == PassFetch \/ Prefetch \/ PassFail

LEMMA PrefetchTyped ==
    ASSUME CacheTyped, PassSteps
    PROVE  PassMoves /\ CacheTyped'
<1>1. PassMoves
  BY PassFetchMoves, PassStageMoves, PassLandMoves, PassRecordMoves, PassEvictMoves,
     PassUnlinkMoves, PassCommitMoves, PassFailMoves DEF Prefetch, PassSteps
<1> QED
  BY <1>1, PassMovesTyped

\* The steps of a sweep.
SweepSteps == Sweep \/ SweepFail

LEMMA SweepTyped ==
    ASSUME CacheTyped, SweepSteps
    PROVE  /\ CacheTyped'
           /\ UNCHANGED <<viewer, memory, clearing>> /\ PassGoesOn
           /\ rows' \subseteq rows
<1>1. /\ sweep \in Sweeping /\ Ledger(rows) /\ rows \subseteq Row
      /\ disk \in [File -> Content \cup {"none"}] /\ parts \subseteq File
      /\ PassCarries /\ Tier(memory) /\ clearing \subseteq File /\ Counts
  BY DEF CacheTyped, Ledger
<1>2. UNCHANGED <<viewer, memory, clearing>>
  BY DEF SweepSteps, Sweep, SweepParts, SweepRows, SweepFiles, SweepMeasure, SweepEvict,
         SweepUnlink, SweepFail
<1>3. parts' \subseteq File
  BY <1>1 DEF SweepSteps, Sweep, SweepParts, SweepRows, SweepFiles, SweepMeasure, SweepEvict,
              SweepUnlink, SweepFail
<1>4. disk' \in [File -> Content \cup {"none"}]
  <2>1. disk' = disk \/ \E files : disk' = Emptied(files)
    BY DEF SweepSteps, Sweep, SweepParts, SweepRows, SweepFiles, SweepMeasure, SweepEvict,
           SweepUnlink, SweepFail
  <2> QED
    BY <1>1, <2>1, EmptiedTyped
<1>5. Counts'
  <2>1. CASE SweepMeasure
    BY <1>1, <2>1 DEF SweepMeasure, Measures, Counts
  <2>2. CASE SweepFail
    BY <1>1, <2>2, PageCacheAssumption DEF SweepFail, Counts
  <2>3. CASE ~SweepMeasure /\ ~SweepFail
    <3>1. UNCHANGED <<owed, mishaps>>
      BY <2>3 DEF SweepSteps, Sweep, SweepParts, SweepRows, SweepFiles, SweepEvict, SweepUnlink
    <3> QED
      BY <1>1, <3>1, CountsRest
  <2> QED
    BY <2>1, <2>2, <2>3
<1>6. rows' \subseteq rows /\ sweep' \in Sweeping /\ PassGoesOn
  <2>1. CASE SweepParts
    BY <1>1, <2>1, NothingStands DEF SweepParts, Sweeping, PassGoesOn
  <2>2. CASE SweepRows
    <3>1. PICK kept : kept = {r \in rows : Stays(r)}
      OBVIOUS
    <3>2. kept \subseteq rows /\ rows' = kept /\ PassGoesOn
      BY <2>2, <3>1 DEF SweepRows, PassGoesOn
    <3>3. FilesOf(kept) \subseteq File
      BY <1>1, <3>2, RowsAre DEF FilesOf
    <3>4. sweep' = [sweep EXCEPT !.pc = "files", !.live = FilesOf(kept)]
      BY <2>2, <3>1 DEF SweepRows
    <3>5. sweep' \in Sweeping
      BY <1>1, <3>3, <3>4 DEF Sweeping
    <3> QED
      BY <3>2, <3>5
  <2>3. CASE SweepFiles
    BY <1>1, <2>3 DEF SweepFiles, Sweeping, PassGoesOn
  <2>4. CASE SweepMeasure
    <3>1. PICK left : left = Measured(rows)
      OBVIOUS
    <3>2. left \subseteq rows
      BY <3>1, MeasuredIs
    <3>3. sweep' = [sweep EXCEPT !.pc = "evict", !.live = {}, !.left = left]
      BY <2>4, <3>1 DEF SweepMeasure
    <3>4. rows' = left /\ PassGoesOn
      BY <2>4, <3>1 DEF SweepMeasure, Measures, PassGoesOn
    <3>5. sweep' \in Sweeping
      BY <1>1, <3>2, <3>3 DEF Sweeping
    <3> QED
      BY <3>2, <3>4, <3>5
  <2>5. CASE SweepEvict
    <3>1. CASE UNCHANGED <<rows, pass>> /\ sweep' = [sweep EXCEPT !.pc = "unlink", !.left = {}]
      BY <1>1, <3>1 DEF Sweeping, PassGoesOn
    <3>2. CASE \E row \in Worst(sweep.left, {}) :
                  /\ Drops(row)
                  /\ sweep' = [sweep EXCEPT !.left = @ \ {row}, !.victims = @ \cup {row.file}]
      <4>1. PICK row \in Worst(sweep.left, {}) :
                  /\ Drops(row)
                  /\ sweep' = [sweep EXCEPT !.left = @ \ {row}, !.victims = @ \cup {row.file}]
        BY <3>2
      <4>2. row \in sweep.left
        BY <4>1, WorstIs
      <4>3. row \in Row /\ row.file \in File
        BY <1>1, <4>2, RowsAre DEF Sweeping
      <4>4. sweep' \in Sweeping
        BY <1>1, <4>1, <4>3 DEF Sweeping
      <4> QED
        BY <4>1, <4>2, <4>4, DropsIs
    <3> QED
      BY <2>5, <3>1, <3>2 DEF SweepEvict
  <2>6. CASE SweepUnlink
    BY <1>1, <2>6 DEF SweepUnlink, Sweeping, PassGoesOn
  <2>7. CASE SweepFail
    BY <1>1, <2>7, NothingStands DEF SweepFail, PassGoesOn
  <2> QED
    BY <2>1, <2>2, <2>3, <2>4, <2>5, <2>6, <2>7 DEF SweepSteps, Sweep
<1>7. Ledger(rows')
  BY <1>1, <1>6, FewerRows
<1>8. PassCarries'
  BY <1>1, <1>6, PassRests
<1>9. Tier(memory') /\ clearing' \subseteq File
  BY <1>1, <1>2
<1> QED
  BY <1>2, <1>3, <1>4, <1>5, <1>6, <1>7, <1>8, <1>9, PartsTyped

\* The clean-ups, and another writer.
Cleans == ClearRows \/ ClearFiles \/ Release \/ OtherWrite

LEMMA CleanTyped ==
    ASSUME CacheTyped, Cleans
    PROVE  /\ CacheTyped'
           /\ UNCHANGED <<viewer, parts, owed>> /\ (NotAlone \/ UNCHANGED sweep)
           /\ rows' \subseteq rows /\ pass'.tx = pass.tx /\ pass'.view = pass.view
           /\ pass'.pc = pass.pc /\ pass'.torn = pass.torn
<1>1. /\ sweep \in Sweeping /\ Ledger(rows) /\ rows \subseteq Row
      /\ disk \in [File -> Content \cup {"none"}] /\ parts \subseteq File
      /\ PassCarries /\ Tier(memory) /\ clearing \subseteq File
  BY DEF CacheTyped, Ledger
<1>2. UNCHANGED <<viewer, parts, owed, mishaps>> /\ (NotAlone \/ UNCHANGED sweep)
  BY DEF Cleans, ClearRows, ClearFiles, Release, OtherWrite
<1>3. sweep' \in Sweeping
  BY <1>1, <1>2, NotAloneTyped
<1>4. disk' \in [File -> Content \cup {"none"}]
  <2>1. disk' = disk \/ disk' = Emptied(clearing)
    BY DEF Cleans, ClearRows, ClearFiles, Release, OtherWrite
  <2> QED
    BY <1>1, <2>1, EmptiedTyped
<1>5. Tier(memory')
  <2>1. memory' = memory \/ \E pages : memory' = Without(memory, pages)
    BY DEF Cleans, ClearRows, ClearFiles, Release, OtherWrite
  <2> QED
    BY <1>1, <2>1, WithoutIs
<1>6. rows' \subseteq rows /\ Ledger(rows') /\ clearing' \subseteq File
  <2>1. CASE ClearRows
    <3>1. PICK guesses : guesses = {r \in rows : Guess(r)}
      OBVIOUS
    <3>2. rows' = rows \ guesses /\ clearing' = FilesOf(guesses)
      BY <2>1, <3>1 DEF ClearRows
    <3>3. FilesOf(guesses) \subseteq File
      BY <1>1, <3>1, RowsAre DEF FilesOf
    <3>4. rows \ guesses \subseteq rows
      OBVIOUS
    <3> QED
      BY <1>1, <3>2, <3>3, <3>4, FewerRows
  <2>2. CASE ~ClearRows
    BY <1>1, <2>2 DEF Cleans, ClearFiles, Release, OtherWrite
  <2> QED
    BY <2>1, <2>2
<1>7. /\ PassCarries' /\ pass'.tx = pass.tx /\ pass'.view = pass.view
      /\ pass'.pc = pass.pc /\ pass'.torn = pass.torn
  <2>1. CASE ~OtherWrite
    <3>1. PassGoesOn
      BY <2>1 DEF Cleans, ClearRows, ClearFiles, Release, PassGoesOn
    <3> QED
      BY <1>1, <3>1, PassRests, PassStaysSo
  <2>2. CASE OtherWrite
    <3>1. pass' = [pass EXCEPT !.stale = TRUE]
      BY <2>2 DEF OtherWrite
    <3>2. Carries(pass)
      BY <1>1, CarriesIs
    <3>3. PICK q : q = [pass EXCEPT !.stale = TRUE]
      OBVIOUS
    <3>4. /\ q \in Passing /\ q.tx = pass.tx /\ q.view = pass.view /\ q.pc = pass.pc
          /\ q.torn = pass.torn /\ q.todo = pass.todo /\ q.bytes = pass.bytes
      BY <3>2, <3>3 DEF Carries, Passing
    <3>5. Carries(q)
      BY <3>2, <3>4 DEF Carries
    <3> QED
      BY <3>1, <3>3, <3>4, <3>5, CarriesIs
  <2> QED
    BY <2>1, <2>2
<1>8. Counts'
  BY <1>2, CountsRest DEF CacheTyped
<1> QED
  BY <1>1, <1>2, <1>3, <1>4, <1>5, <1>6, <1>7, <1>8, PartsTyped

LEMMA CrashTyped ==
    ASSUME CacheTyped, Crash
    PROVE  CacheTyped'
<1>1. /\ mishaps < MaxMishaps /\ mishaps' = mishaps + 1 /\ owed' = (owed \/ Trimming)
      /\ memory' = <<>> /\ viewer' = [v \in Viewer |-> NoCall] /\ pass' = NoPass
      /\ sweep' = NoSweep /\ clearing' = {} /\ UNCHANGED <<parts, rows>>
  BY DEF Crash
<1>2. disk' \in [File -> Content \cup {"none"}]
  <2>1. PICK cut : disk' = [f \in File |-> IF f \in cut THEN "short" ELSE disk[f]]
    BY DEF Crash
  <2> QED
    BY <2>1 DEF CacheTyped, Content
<1>3. Counts'
  BY <1>1, PageCacheAssumption DEF CacheTyped, Counts
<1>4. viewer' \in [Viewer -> Calling] /\ \A v \in Viewer : viewer'[v] = NoCall
  BY <1>1, NothingStands
<1>5. (\A v \in Viewer : CallStands(viewer[v]))'
  BY <1>4, NothingStands DEF CallStands, OnePerPage
<1>6. PassCarries'
  BY <1>1, CarriesIs
<1>7. Ledger(rows)' /\ Tier(memory)' /\ parts' \subseteq File /\ clearing' \subseteq File
      /\ sweep' \in Sweeping
  <2>1. Ledger(rows)'
    BY <1>1 DEF CacheTyped, Ledger, OnePerPage
  <2>2. Tier(memory')
    BY <1>1, NothingStands
  <2> QED
    BY <1>1, <2>1, <2>2, NothingStands DEF CacheTyped, Tier
<1> QED
  BY <1>2, <1>3, <1>4, <1>5, <1>6, <1>7 DEF CacheTyped

LEMMA CacheStutters ==
    ASSUME CacheTyped, UNCHANGED cvars
    PROVE  CacheTyped'
<1>1. /\ disk' = disk /\ parts' = parts /\ rows' = rows /\ memory' = memory /\ viewer' = viewer
      /\ pass' = pass /\ sweep' = sweep /\ clearing' = clearing
      /\ owed' = owed /\ mishaps' = mishaps
  BY DEF cvars
<1>2. PassCarries' /\ Counts'
  BY <1>1, PassRests, CountsRest DEF PassGoesOn, CacheTyped
<1> QED
  BY <1>1, <1>2, PartsTyped DEF CacheTyped

\* Every step is one of these.
LEMMA StepsAre ==
    ASSUME [CacheNext]_cvars
    PROVE  \/ \E v \in Viewer : CallSteps(v)
           \/ PassSteps \/ SweepSteps \/ Cleans \/ Crash
           \/ UNCHANGED cvars
BY DEF CacheNext, CallSteps, PassSteps, SweepSteps, Cleans

LEMMA CacheTypeInductive == CacheTyped /\ [CacheNext]_cvars => CacheTyped'
<1>1. SUFFICES ASSUME CacheTyped, [CacheNext]_cvars PROVE CacheTyped'
  OBVIOUS
<1>2. CASE UNCHANGED cvars
  BY <1>1, <1>2, CacheStutters
<1>3. CASE \E v \in Viewer : CallSteps(v)
  BY <1>1, <1>3, DisplayTyped
<1>4. CASE PassSteps
  BY <1>1, <1>4, PrefetchTyped
<1>5. CASE SweepSteps
  BY <1>1, <1>5, SweepTyped
<1>6. CASE Cleans
  BY <1>1, <1>6, CleanTyped
<1>7. CASE Crash
  BY <1>1, <1>7, CrashTyped
<1> QED
  BY <1>1, <1>2, <1>3, <1>4, <1>5, <1>6, <1>7, StepsAre

LEMMA CacheIsTyped == CacheSpec => []CacheTyped
BY InitCache, CacheTypeInductive, PTL DEF CacheSpec

\* The type invariant of the page cache: the files, the ledger, the memory tier and
\* the calls, passes and sweeps at work on them (reader/cache.rs, reader/memory.rs).
THEOREM CacheTypes == CacheSpec => []CacheTypeOK
<1>1. CacheTyped => CacheTypeOK
  BY DEF CacheTyped, CacheTypeOK, Ledger, OnePerPage, Tier, PassCarries, Counts
<1> QED
  BY <1>1, CacheIsTyped, PTL

-------------------------------------------------------------------------------
(* The page cache: whoever trims last leaves the pool within its budget      *)

\* Somebody will still measure, or is dropping rows by an order that knows every page
\* the ledger has by now.
TrimIsDue ==
    \/ \E v \in Viewer : viewer[v].pc = "measure"
    \/ \E v \in Viewer :
          viewer[v].pc = "evict" /\ PagesIn(rows) \subseteq PagesIn(viewer[v].left)
    \/ sweep.pc = "evict" /\ PagesIn(rows) \subseteq PagesIn(sweep.left)

PoolStands == owed \/ TrimIsDue \/ Within(rows)

\* A pass that wrote is within the pool on its snapshot once it has trimmed.
ViewStands == pass.tx = "write" => pass.torn \/ pass.pc = "evict" \/ Within(pass.view)

BudgetInv == CacheTyped /\ PoolStands /\ ViewStands

LEMMA FewerPages ==
    ASSUME NEW view, NEW fewer \in SUBSET view
    PROVE  PagesIn(fewer) \subseteq PagesIn(view)
BY DEF PagesIn

\* A step that adds no page to the ledger, ends no trim and forgets nothing owed.
LEMMA PoolRests ==
    ASSUME CacheTyped, CacheTyped', PoolStands,
           PagesIn(rows') \subseteq PagesIn(rows), owed => owed',
           \A v \in Viewer : viewer[v].pc \in {"measure", "evict"} => viewer'[v] = viewer[v],
           sweep.pc = "evict" => sweep'.pc = "evict" /\ sweep'.left = sweep.left
    PROVE  PoolStands'
<1>1. Ledger(rows) /\ Ledger(rows')
  BY DEF CacheTyped, Ledger, OnePerPage
<1>2. CASE owed
  BY <1>2 DEF PoolStands
<1>3. CASE \E v \in Viewer : viewer[v].pc = "measure"
  <2>1. PICK v \in Viewer : viewer'[v].pc = "measure"
    BY <1>3
  <2> QED
    BY <2>1 DEF PoolStands, TrimIsDue
<1>4. CASE \E v \in Viewer :
              viewer[v].pc = "evict" /\ PagesIn(rows) \subseteq PagesIn(viewer[v].left)
  <2>1. PICK v \in Viewer :
              /\ viewer'[v].pc = "evict" /\ viewer'[v].left = viewer[v].left
              /\ PagesIn(rows) \subseteq PagesIn(viewer[v].left)
    BY <1>4
  <2>2. PagesIn(rows') \subseteq PagesIn(viewer'[v].left)
    BY <2>1
  <2> QED
    BY <2>1, <2>2 DEF PoolStands, TrimIsDue, PagesIn
<1>5. CASE sweep.pc = "evict" /\ PagesIn(rows) \subseteq PagesIn(sweep.left)
  <2>1. sweep'.pc = "evict" /\ PagesIn(rows') \subseteq PagesIn(sweep'.left)
    BY <1>5
  <2> QED
    BY <2>1 DEF PoolStands, TrimIsDue, PagesIn
<1>6. CASE Within(rows)
  <2>1. Within(rows')
    BY <1>1, <1>6, WithinShrinks
  <2> QED
    BY <2>1 DEF PoolStands, Within, Fits
<1> QED
  BY <1>2, <1>3, <1>4, <1>5, <1>6 DEF PoolStands, TrimIsDue

LEMMA WithinHolds ==
    ASSUME Within(rows')
    PROVE  PoolStands'
BY DEF PoolStands, Within, Fits

\* What the steps of a call leave to the others: the sweep's order, and other calls.
LEMMA OthersRest ==
    ASSUME CacheTyped, NEW v \in Viewer, NEW c, CallMoves(v, c)
    PROVE  /\ viewer'[v] = c /\ \A w \in Viewer \ {v} : viewer'[w] = viewer[w]
           /\ sweep.pc = "evict" => sweep'.pc = "evict" /\ sweep'.left = sweep.left
           /\ ViewStands => ViewStands'
<1>1. viewer'[v] = c /\ \A w \in Viewer \ {v} : viewer'[w] = viewer[w]
  BY DEF CallMoves, Calls, CacheTyped
<1>2. sweep.pc = "evict" => sweep'.pc = "evict" /\ sweep'.left = sweep.left
  BY DEF CallMoves, NotAlone, CacheTyped, Sweeping
<1>3. /\ pass'.tx = pass.tx /\ pass'.view = pass.view
      /\ pass'.pc = pass.pc /\ pass'.torn = pass.torn
  BY PassStaysSo DEF CallMoves, CacheTyped
<1>4. ViewStands => ViewStands'
  BY <1>3 DEF ViewStands, Within, Fits
<1> QED
  BY <1>1, <1>2, <1>4

\* A call that is not at its trim, and whose step adds no page to the ledger.
LEMMA QuietCalls ==
    ASSUME BudgetInv, CacheTyped', NEW v \in Viewer, NEW c, CallMoves(v, c),
           viewer[v].pc \notin {"measure", "evict"},
           PagesIn(rows') \subseteq PagesIn(rows), owed' = owed
    PROVE  PoolStands'
<1>1. CacheTyped /\ PoolStands
  BY DEF BudgetInv
<1>2. /\ \A w \in Viewer \ {v} : viewer'[w] = viewer[w]
      /\ sweep.pc = "evict" => sweep'.pc = "evict" /\ sweep'.left = sweep.left
  BY <1>1, OthersRest
<1>3. \A w \in Viewer : viewer[w].pc \in {"measure", "evict"} => viewer'[w] = viewer[w]
  BY <1>2
<1> QED
  BY <1>1, <1>2, <1>3, PoolRests

LEMMA RecordPool ==
    ASSUME BudgetInv, CacheTyped', NEW v \in Viewer, Record(v)
    PROVE  PoolStands'
<1>1. viewer[v].pc = "record" /\ owed' = owed /\ CacheTyped
  BY DEF Record, BudgetInv
<1>2. CASE Calls(v, NoCall) /\ UNCHANGED rows
  <2>1. PICK c : CallMoves(v, c)
    BY <1>1, RecordMoves
  <2> QED
    BY <1>1, <1>2, <2>1, QuietCalls
<1>3. CASE Advance(v, "measure")
  <2>1. viewer' = [viewer EXCEPT ![v] = [viewer[v] EXCEPT !.pc = "measure", !.found = {}]]
    BY <1>3 DEF Advance, Calls
  <2>2. viewer'[v].pc = "measure"
    BY <1>1, <2>1 DEF CacheTyped, Calling
  <2> QED
    BY <2>2 DEF PoolStands, TrimIsDue
<1> QED
  BY <1>2, <1>3 DEF Record

LEMMA MeasurePool ==
    ASSUME BudgetInv, NEW v \in Viewer, Measure(v)
    PROVE  PoolStands'
<1>1. viewer[v] \in Calling /\ viewer \in [Viewer -> Calling]
  BY DEF BudgetInv, CacheTyped
<1>2. PICK left : left = Measured(rows)
  OBVIOUS
<1>3. rows' = left /\ viewer' = [viewer EXCEPT ![v] = [viewer[v] EXCEPT !.pc = "evict", !.left = left]]
  BY <1>2 DEF Measure, Measures, Calls
<1>4. viewer'[v].pc = "evict" /\ viewer'[v].left = left
  BY <1>1, <1>3 DEF Calling
<1> QED
  BY <1>3, <1>4 DEF PoolStands, TrimIsDue, PagesIn

LEMMA EvictPool ==
    ASSUME BudgetInv, CacheTyped', NEW v \in Viewer, Evict(v)
    PROVE  PoolStands'
<1> DEFINE p == viewer[v].bytes.page
           left == viewer[v].left
<1>1. /\ CacheTyped /\ PoolStands /\ viewer[v] \in Calling /\ viewer[v].pc = "evict"
      /\ owed' = owed /\ left \subseteq Row /\ Ledger(rows)
  BY CallTyped DEF Evict, BudgetInv, Calling
<1>2. PICK c : CallMoves(v, c)
  BY <1>1, EvictMoves
<1>3. /\ viewer'[v] = c /\ \A w \in Viewer \ {v} : viewer'[w] = viewer[w]
      /\ sweep.pc = "evict" => sweep'.pc = "evict" /\ sweep'.left = sweep.left
      /\ Ledger(rows')
  BY <1>1, <1>2, OthersRest DEF CallMoves
<1>4. ASSUME PagesIn(rows') \subseteq PagesIn(rows), ~(PagesIn(rows) \subseteq PagesIn(left))
      PROVE  PoolStands'
  <2>1. CASE owed \/ Within(rows)
    BY <1>1, <1>3, <1>4, <2>1, WithinShrinks, WithinHolds DEF PoolStands
  <2>2. CASE \E w \in Viewer : viewer[w].pc = "measure"
    <3>1. PICK w \in Viewer : viewer[w].pc = "measure"
      BY <2>2
    <3>2. viewer'[w].pc = "measure"
      BY <1>1, <1>3, <3>1
    <3> QED
      BY <3>2 DEF PoolStands, TrimIsDue
  <2>3. CASE \E w \in Viewer : viewer[w].pc = "evict" /\ PagesIn(rows) \subseteq PagesIn(viewer[w].left)
    <3>1. PICK w \in Viewer : viewer[w].pc = "evict" /\ PagesIn(rows) \subseteq PagesIn(viewer[w].left)
      BY <2>3
    <3>2. viewer'[w] = viewer[w]
      BY <1>3, <1>4, <3>1
    <3>3. viewer'[w].pc = "evict" /\ PagesIn(rows') \subseteq PagesIn(viewer'[w].left)
      BY <1>4, <3>1, <3>2
    <3> QED
      BY <3>3 DEF PoolStands, TrimIsDue, PagesIn
  <2>4. CASE sweep.pc = "evict" /\ PagesIn(rows) \subseteq PagesIn(sweep.left)
    <3>1. sweep'.pc = "evict" /\ PagesIn(rows') \subseteq PagesIn(sweep'.left)
      BY <1>3, <1>4, <2>4
    <3> QED
      BY <3>1 DEF PoolStands, TrimIsDue, PagesIn
  <2> QED
    BY <1>1, <2>1, <2>2, <2>3, <2>4 DEF PoolStands, TrimIsDue
<1>5. CASE Worst(left, Kept(p)) = {} /\ UNCHANGED rows
  <2>1. CASE PagesIn(rows) \subseteq PagesIn(left)
    <3>1. Within(rows)
      BY <1>1, <1>5, <2>1, KeptIs, TrimEnds
    <3> QED
      BY <1>5, <3>1, WithinHolds
  <2> QED
    BY <1>4, <1>5, <2>1
<1>6. CASE \E row \in Worst(left, Kept(p)) :
              /\ Drops(row)
              /\ Calls(v, [viewer[v] EXCEPT !.left = @ \ {row}, !.victims = @ \cup {row.file}])
  <2>1. PICK row \in Worst(left, Kept(p)) :
              /\ Drops(row)
              /\ Calls(v, [viewer[v] EXCEPT !.left = @ \ {row}, !.victims = @ \cup {row.file}])
    BY <1>6
  <2>2. row \in left
    BY <2>1, WorstIs
  <2>3. /\ rows' \subseteq rows
        /\ PagesIn(rows) \subseteq PagesIn(left) => PagesIn(rows') \subseteq PagesIn(left \ {row})
    BY <2>1, <2>2, DropsIs
  <2>4. CASE PagesIn(rows) \subseteq PagesIn(left)
    <3>1. viewer'[v] = [viewer[v] EXCEPT !.left = @ \ {row}, !.victims = @ \cup {row.file}]
      BY <1>1, <2>1 DEF Calls, CacheTyped
    <3>2. viewer'[v].pc = "evict" /\ viewer'[v].left = left \ {row}
      BY <1>1, <3>1 DEF Calling
    <3>3. PagesIn(rows') \subseteq PagesIn(viewer'[v].left)
      BY <2>3, <2>4, <3>2
    <3> QED
      BY <3>2, <3>3 DEF PoolStands, TrimIsDue, PagesIn
  <2> QED
    BY <1>4, <2>3, <2>4, FewerPages
<1> QED
  BY <1>5, <1>6 DEF Evict

LEMMA FailPool ==
    ASSUME BudgetInv, CacheTyped', NEW v \in Viewer, Fail(v)
    PROVE  PoolStands'
<1>1. /\ CacheTyped /\ owed' = (owed \/ viewer[v].pc \in {"measure", "evict"})
      /\ rows' = rows
  BY DEF Fail, BudgetInv
<1>2. CASE viewer[v].pc \in {"measure", "evict"}
  BY <1>1, <1>2 DEF PoolStands
<1>3. CASE viewer[v].pc \notin {"measure", "evict"}
  <2>1. PICK c : CallMoves(v, c)
    BY <1>1, FailMoves
  <2>2. owed' = owed
    BY <1>1, <1>3 DEF CacheTyped, Counts
  <2> QED
    BY <1>1, <1>3, <2>1, <2>2, QuietCalls
<1> QED
  BY <1>2, <1>3

\* The other steps of a call.
LEMMA OtherPool ==
    ASSUME BudgetInv, CacheTyped', NEW v \in Viewer,
           \/ LookFile(v) \/ Relocate(v) \/ Fetch(v) \/ Stage(v) \/ Land(v) \/ Unlink(v)
           \/ \E p \in Page : Ask(v, p)
    PROVE  PoolStands'
<1>1. CacheTyped /\ Ledger(rows)
  BY DEF BudgetInv, CacheTyped
<1>2. PICK c : CallMoves(v, c)
  BY <1>1, CallStepMoves DEF CallSteps, Display
<1>3. viewer[v].pc \notin {"measure", "evict"} /\ owed' = owed
  BY DEF LookFile, Relocate, Fetch, Stage, Land, Unlink, Ask
<1>4. PagesIn(rows') \subseteq PagesIn(rows)
  <2>1. CASE Relocate(v)
    <3>1. PICK now : now = RowsOfPage(rows, viewer[v].bytes.page)
      OBVIOUS
    <3>2. CASE now = {}
      BY <2>1, <3>1, <3>2 DEF Relocate
    <3>3. CASE now # {}
      <4>1. PICK old : old = CHOOSE r \in viewer[v].found : TRUE
        OBVIOUS
      <4>2. PICK size : size = (CHOOSE r \in now : TRUE).size
        OBVIOUS
      <4>3. viewer[v].found # {} /\ old.file \in File /\ old.file.page = viewer[v].bytes.page
        <5>1. viewer[v].found # {}
          BY <1>1, <2>1, CallTyped DEF Relocate, CallStands
        <5> QED
          BY <1>1, <4>1, <5>1, FoundIs
      <4>4. PICK row : row = [file |-> [old.file EXCEPT !.dir = "pages"], size |-> size]
        OBVIOUS
      <4>5. rows' = Recorded(rows, row)
        BY <2>1, <3>1, <3>3, <4>1, <4>2, <4>4 DEF Relocate
      <4>6. row.file.page = viewer[v].bytes.page
        BY <4>3, <4>4 DEF File
      <4>7. \A x \in rows' : x = row \/ x \in rows
        BY <4>5 DEF Recorded
      <4>8. \E x \in rows : x.file.page = row.file.page
        BY <3>1, <3>3, <4>6 DEF RowsOfPage
      <4> QED
        BY <4>7, <4>8 DEF PagesIn
    <3> QED
      BY <3>2, <3>3
  <2>2. CASE ~Relocate(v)
    <3>1. rows' \subseteq rows
      <4>1. CASE LookFile(v)
        <5>1. rows' = rows \/ \E some : rows' = rows \ some
          BY <4>1, Zenon DEF LookFile
        <5> QED
          BY <5>1
      <4>2. CASE ~LookFile(v)
        BY <2>2, <4>2 DEF Fetch, Stage, Land, Unlink, Ask
      <4> QED
        BY <4>1, <4>2
    <3> QED
      BY <3>1, FewerPages
  <2> QED
    BY <2>1, <2>2
<1> QED
  BY <1>1, <1>2, <1>3, <1>4, QuietCalls

LEMMA CallsBudget ==
    ASSUME BudgetInv, CacheTyped', NEW v \in Viewer, CallSteps(v)
    PROVE  PoolStands' /\ ViewStands'
<1>1. PoolStands'
  BY RecordPool, MeasurePool, EvictPool, FailPool, OtherPool DEF CallSteps, Display
<1>2. PICK c : CallMoves(v, c)
  BY CallStepMoves DEF BudgetInv
<1> QED
  BY <1>1, <1>2, OthersRest DEF BudgetInv

\* A pass: the end of its trim leaves its view within the pool, and its commit puts
\* that view in the ledger's place.
LEMMA PassBudget ==
    ASSUME BudgetInv, CacheTyped', PassSteps
    PROVE  PoolStands' /\ ViewStands'
<1>1. /\ CacheTyped /\ PoolStands /\ ViewStands /\ pass \in Passing /\ Ledger(pass.view)
      /\ viewer' = viewer /\ NotAlone
  BY PrefetchTyped, PassTyped DEF BudgetInv, PassMoves, Carries
<1>2. sweep.pc = "evict" => sweep'.pc = "evict" /\ sweep'.left = sweep.left
  BY <1>1 DEF NotAlone, CacheTyped, Sweeping
<1>3. CASE PassCommit
  <2>1. /\ pass.pc = "next" /\ pass' = NoPass
        /\ rows' = IF pass.tx = "write" THEN pass.view ELSE rows
        /\ owed' = IF pass.tx = "write" THEN pass.torn ELSE owed
    BY <1>3 DEF PassCommit, Ended
  <2>2. ViewStands'
    BY <2>1 DEF ViewStands, NoPass
  <2>3. CASE pass.tx = "write"
    <3>1. rows' = pass.view
      BY <2>1, <2>3
    <3>2. owed' = pass.torn
      BY <2>1, <2>3
    <3>3. pass.torn \/ Within(pass.view)
      BY <1>1, <2>1, <2>3 DEF ViewStands
    <3>4. CASE pass.torn
      <4>1. owed'
        BY <3>2, <3>4, Zenon
      <4> QED
        BY <2>2, <4>1 DEF PoolStands
    <3>5. CASE Within(pass.view)
      <4>1. Within(rows')
        BY <3>1, <3>5 DEF Within, Fits
      <4> QED
        BY <2>2, <4>1, WithinHolds
    <3> QED
      BY <3>3, <3>4, <3>5
  <2>4. CASE pass.tx # "write"
    <3>1. rows' = rows /\ owed' = owed
      BY <2>1, <2>4
    <3> QED
      BY <1>1, <1>2, <2>2, <3>1, PoolRests
  <2> QED
    BY <2>3, <2>4
<1>4. CASE ~PassCommit
  <2>1. rows' = rows /\ owed' = owed
    BY <1>4 DEF PassSteps, Prefetch, PassFetch, PassStage, PassLand, PassRecord, PassEvict,
                PassUnlink, PassFail
  <2>2. PoolStands'
    BY <1>1, <1>2, <2>1, PoolRests
  <2>3. ASSUME NEW q, pass' = q, q.tx = "write" => q.torn \/ q.pc = "evict" \/ Within(q.view)
        PROVE  ViewStands'
    BY <2>3 DEF ViewStands, Within, Fits
  <2>4. CASE PassFetch
    <3>1. pass'.tx = "none"
      BY <2>4 DEF PassFetch, NoPass
    <3> QED
      BY <2>2, <3>1 DEF ViewStands
  <2>5. CASE PassStage
    <3>1. \/ pass'.tx # "write"
          \/ pass.tx = "write" /\ pass'.view = pass.view /\ pass'.torn = pass.torn
      BY <1>1, <2>5 DEF PassStage, Passing
    <3>2. pass.pc # "evict"
      BY <2>5 DEF PassStage
    <3> QED
      BY <1>1, <2>2, <2>3, <3>1, <3>2 DEF ViewStands
  <2>6. CASE PassLand
    <3>1. /\ pass'.tx = pass.tx /\ pass'.view = pass.view /\ pass'.torn = pass.torn
          /\ pass.pc # "evict"
      BY <1>1, <2>6 DEF PassLand, Passing
    <3> QED
      BY <1>1, <2>2, <2>3, <3>1 DEF ViewStands
  <2>7. CASE PassRecord
    <3>1. /\ pass.pc # "evict"
          /\ \/ pass' = [pass EXCEPT !.pc = "next", !.bytes = NoBytes]
             \/ \E view : pass' = [pass EXCEPT !.pc = "evict", !.tx = "write", !.torn = FALSE,
                                               !.view = view]
      BY <2>7 DEF PassRecord
    <3>2. CASE pass' = [pass EXCEPT !.pc = "next", !.bytes = NoBytes]
      <4>1. pass'.tx = pass.tx /\ pass'.view = pass.view /\ pass'.torn = pass.torn
        BY <1>1, <3>2 DEF Passing
      <4> QED
        BY <1>1, <2>2, <2>3, <3>1, <4>1 DEF ViewStands
    <3>3. CASE \E view : pass' = [pass EXCEPT !.pc = "evict", !.tx = "write", !.torn = FALSE,
                                              !.view = view]
      <4>1. pass'.pc = "evict"
        BY <1>1, <3>3 DEF Passing
      <4> QED
        BY <2>2, <4>1 DEF ViewStands
    <3> QED
      BY <3>1, <3>2, <3>3
  <2>8. CASE PassEvict
    <3>1. CASE Worst(pass.view, Kept(pass.bytes.page)) = {} /\ pass' = [pass EXCEPT !.pc = "unlink"]
      <4>1. Within(pass.view)
        <5>1. pass.view \subseteq Row
          BY <1>1 DEF Ledger
        <5> QED
          BY <1>1, <3>1, <5>1, KeptIs, TrimEnds
      <4>2. pass'.view = pass.view
        BY <1>1, <3>1 DEF Passing
      <4> QED
        BY <2>2, <2>3, <4>1, <4>2
    <3>2. CASE \E row : pass' = [pass EXCEPT !.view = @ \ {row}, !.victims = @ \cup {row.file}]
      <4>1. pass'.pc = "evict"
        BY <1>1, <2>8, <3>2 DEF PassEvict, Passing
      <4> QED
        BY <2>2, <4>1 DEF ViewStands
    <3> QED
      BY <2>8, <3>1, <3>2 DEF PassEvict
  <2>9. CASE PassUnlink
    <3>1. /\ pass'.tx = pass.tx /\ pass'.view = pass.view /\ pass'.torn = pass.torn
          /\ pass.pc # "evict"
      BY <1>1, <2>9 DEF PassUnlink, Passing
    <3> QED
      BY <1>1, <2>2, <2>3, <3>1 DEF ViewStands
  <2>10. CASE PassFail
    <3>1. CASE pass' = NoPass
      <4>1. pass'.tx = "none"
        BY <3>1 DEF NoPass
      <4> QED
        BY <2>2, <4>1 DEF ViewStands
    <3>2. CASE pass' = [pass EXCEPT !.pc = "next", !.bytes = NoBytes, !.victims = {},
                                    !.torn = @ \/ pass.pc = "evict"]
      <4>1. PICK torn \in BOOLEAN : torn = (pass.torn \/ pass.pc = "evict")
        OBVIOUS
      <4>2. pass' = [pass EXCEPT !.pc = "next", !.bytes = NoBytes, !.victims = {}, !.torn = torn]
        BY <3>2, <4>1
      <4>3. pass'.tx = pass.tx /\ pass'.view = pass.view /\ pass'.torn = torn
        BY <1>1, <4>2 DEF Passing
      <4> QED
        BY <1>1, <2>2, <2>3, <4>1, <4>3 DEF ViewStands
    <3> QED
      BY <2>10, <3>1, <3>2 DEF PassFail
  <2> QED
    BY <1>4, <2>4, <2>5, <2>6, <2>7, <2>8, <2>9, <2>10 DEF PassSteps, Prefetch
<1> QED
  BY <1>3, <1>4

LEMMA SweepBudget ==
    ASSUME BudgetInv, CacheTyped', SweepSteps
    PROVE  PoolStands' /\ ViewStands'
<1>1. /\ CacheTyped /\ PoolStands /\ ViewStands /\ sweep \in Sweeping /\ Ledger(rows)
      /\ viewer' = viewer /\ PassGoesOn /\ rows' \subseteq rows
  BY SweepTyped DEF BudgetInv, CacheTyped
<1>2. ViewStands'
  <2>1. /\ pass'.tx = pass.tx /\ pass'.view = pass.view
        /\ pass'.pc = pass.pc /\ pass'.torn = pass.torn
    BY <1>1, PassStaysSo DEF CacheTyped
  <2> QED
    BY <1>1, <2>1 DEF ViewStands, Within, Fits
<1>3. PagesIn(rows') \subseteq PagesIn(rows) /\ Ledger(rows')
  BY <1>1, FewerPages, FewerRows
<1>4. CASE SweepParts \/ SweepRows \/ SweepFiles \/ SweepUnlink
  <2>1. sweep.pc # "evict" /\ owed' = owed
    BY <1>4 DEF SweepParts, SweepRows, SweepFiles, SweepUnlink
  <2> QED
    BY <1>1, <1>2, <1>3, <2>1, PoolRests
<1>5. CASE SweepMeasure
  <2>1. PICK left : left = Measured(rows)
    OBVIOUS
  <2>2. rows' = left /\ sweep' = [sweep EXCEPT !.pc = "evict", !.live = {}, !.left = left]
    BY <1>5, <2>1 DEF SweepMeasure, Measures
  <2>3. sweep'.pc = "evict" /\ sweep'.left = left
    BY <1>1, <2>2 DEF Sweeping
  <2> QED
    BY <1>2, <2>2, <2>3 DEF PoolStands, TrimIsDue, PagesIn
<1>6. CASE SweepFail
  <2>1. owed' = (owed \/ sweep.pc = "evict")
    BY <1>6 DEF SweepFail
  <2>2. CASE sweep.pc = "evict"
    BY <1>2, <2>1, <2>2 DEF PoolStands
  <2>3. CASE sweep.pc # "evict"
    BY <1>1, <1>2, <1>3, <2>1, <2>3, PoolRests
  <2> QED
    BY <2>2, <2>3
<1>7. CASE SweepEvict
  <2>1. sweep.pc = "evict" /\ owed' = owed /\ sweep.left \subseteq Row
    BY <1>1, <1>7 DEF SweepEvict, Sweeping
  <2>2. CASE ~(PagesIn(rows) \subseteq PagesIn(sweep.left))
    <3>1. CASE owed \/ Within(rows)
      BY <1>1, <1>2, <1>3, <2>1, <3>1, WithinShrinks, WithinHolds DEF PoolStands
    <3>2. CASE \E w \in Viewer : viewer[w].pc = "measure"
      BY <1>1, <1>2, <3>2 DEF PoolStands, TrimIsDue
    <3>3. CASE \E w \in Viewer : viewer[w].pc = "evict" /\ PagesIn(rows) \subseteq PagesIn(viewer[w].left)
      <4>1. PICK w \in Viewer : viewer[w].pc = "evict" /\ PagesIn(rows) \subseteq PagesIn(viewer[w].left)
        BY <3>3
      <4>2. viewer'[w].pc = "evict" /\ PagesIn(rows') \subseteq PagesIn(viewer'[w].left)
        BY <1>1, <1>3, <4>1
      <4> QED
        BY <1>2, <4>2 DEF PoolStands, TrimIsDue, PagesIn
    <3> QED
      BY <1>1, <2>2, <3>1, <3>2, <3>3 DEF PoolStands, TrimIsDue
  <2>3. CASE PagesIn(rows) \subseteq PagesIn(sweep.left)
    <3>1. CASE Worst(sweep.left, {}) = {} /\ UNCHANGED rows
      <4>1. Within(rows)
        BY <1>1, <2>1, <2>3, <3>1, TrimEnds
      <4> QED
        BY <1>2, <3>1, <4>1, WithinHolds
    <3>2. CASE \E row \in Worst(sweep.left, {}) :
                  /\ Drops(row)
                  /\ sweep' = [sweep EXCEPT !.left = @ \ {row}, !.victims = @ \cup {row.file}]
      <4>1. PICK row \in Worst(sweep.left, {}) :
                  /\ Drops(row)
                  /\ sweep' = [sweep EXCEPT !.left = @ \ {row}, !.victims = @ \cup {row.file}]
        BY <3>2
      <4>2. row \in sweep.left
        BY <4>1, WorstIs
      <4>3. PagesIn(rows') \subseteq PagesIn(sweep.left \ {row})
        BY <2>3, <4>1, <4>2, DropsIs
      <4>4. sweep'.pc = "evict" /\ sweep'.left = sweep.left \ {row}
        BY <1>1, <2>1, <4>1 DEF Sweeping
      <4>5. PagesIn(rows') \subseteq PagesIn(sweep'.left)
        BY <4>3, <4>4
      <4> QED
        BY <1>2, <4>4, <4>5 DEF PoolStands, TrimIsDue, PagesIn
    <3> QED
      BY <1>7, <3>1, <3>2 DEF SweepEvict
  <2> QED
    BY <2>2, <2>3
<1> QED
  BY <1>4, <1>5, <1>6, <1>7 DEF SweepSteps, Sweep

LEMMA CrashBudget ==
    ASSUME BudgetInv, Crash
    PROVE  PoolStands' /\ ViewStands'
<1>1. PoolStands /\ pass' = NoPass /\ owed' = (owed \/ Trimming) /\ rows' = rows
  BY DEF BudgetInv, Crash
<1>2. ViewStands'
  BY <1>1 DEF ViewStands, NoPass
<1>3. CASE owed \/ TrimIsDue
  BY <1>1, <1>2, <1>3 DEF PoolStands, TrimIsDue, Trimming
<1>4. CASE Within(rows)
  BY <1>1, <1>2, <1>4, WithinHolds
<1> QED
  BY <1>1, <1>3, <1>4 DEF PoolStands

LEMMA BudgetInductive == BudgetInv /\ [CacheNext]_cvars => BudgetInv'
<1>1. SUFFICES ASSUME BudgetInv, [CacheNext]_cvars PROVE BudgetInv'
  OBVIOUS
<1>2. CacheTyped /\ CacheTyped' /\ PoolStands /\ ViewStands
  BY <1>1, CacheTypeInductive DEF BudgetInv
<1>3. SUFFICES PoolStands' /\ ViewStands'
  BY <1>2 DEF BudgetInv
<1>4. CASE Cleans
  <2>1. /\ viewer' = viewer /\ owed' = owed /\ rows' \subseteq rows
        /\ pass'.tx = pass.tx /\ pass'.view = pass.view
        /\ pass'.pc = pass.pc /\ pass'.torn = pass.torn
        /\ NotAlone \/ UNCHANGED sweep
    BY <1>2, <1>4, CleanTyped
  <2>2. sweep.pc = "evict" => sweep'.pc = "evict" /\ sweep'.left = sweep.left
    BY <1>2, <2>1 DEF NotAlone, CacheTyped, Sweeping
  <2>3. ViewStands'
    BY <1>2, <2>1 DEF ViewStands, Within, Fits
  <2> QED
    BY <1>2, <2>1, <2>2, <2>3, FewerPages, PoolRests
<1>5. CASE UNCHANGED cvars
  <2>1. /\ viewer' = viewer /\ owed' = owed /\ rows' = rows /\ pass' = pass /\ sweep' = sweep
    BY <1>5 DEF cvars
  <2>2. ViewStands'
    BY <1>2, <2>1 DEF ViewStands, Within, Fits
  <2> QED
    BY <1>2, <2>1, <2>2, PoolRests
<1> QED
  BY <1>1, <1>2, <1>4, <1>5, StepsAre, CallsBudget, PassBudget, SweepBudget, CrashBudget

\* Whichever of display calls, passes on their snapshots and sweeps trim, each by what
\* it measured, and whatever was recorded, promoted, cleared or lost meanwhile: once
\* the trims under way have ended the pool is within its budget, unless one of them
\* failed or died and none has measured since; a pass that trimmed to the end is on its
\* own snapshot; the memory tier always is (enforce_budget_except, insert).
THEOREM TiersHold == CacheSpec => []TiersFit
<1>1. CacheInit => BudgetInv
  <2>1. SUFFICES ASSUME CacheInit PROVE BudgetInv
    OBVIOUS
  <2>2. Within(rows) /\ pass.tx = "none"
    BY <2>1, NothingFits DEF CacheInit, NoPass
  <2> QED
    BY <2>1, <2>2, InitCache DEF BudgetInv, PoolStands, ViewStands
<1>2. BudgetInv => TiersFit
  <2>1. SUFFICES ASSUME BudgetInv PROVE TiersFit
    OBVIOUS
  <2>2. owed \/ Trimming \/ Within(rows)
    BY <2>1 DEF BudgetInv, PoolStands, TrimIsDue, Trimming
  <2>3. Len(memory) <= MemoryBudget
    BY <2>1 DEF BudgetInv, CacheTyped, Tier
  <2> QED
    BY <2>1, <2>2, <2>3 DEF BudgetInv, ViewStands, TiersFit
<1> QED
  BY <1>1, <1>2, BudgetInductive, PTL DEF CacheSpec

-------------------------------------------------------------------------------
(* The page cache: an undisturbed sweep                                      *)

Described == \A f \in File : Exists(f) <=> f \in FilesOf(rows)

\* The files there are: those of the ledger, and the victims.
Parted(files, victims) ==
    \A f \in File : /\ Exists(f) <=> f \in files \cup victims
                    /\ ~(f \in files /\ f \in victims)

\* As long as nobody disturbs it: what the sweep has come past is right and stays so.
SweepStands ==
    sweep.alone =>
        /\ ~Busy /\ parts = {}
        /\ sweep.pc \in {"files", "measure", "evict", "unlink", "done"}
              => \A r \in rows : disk[r.file] = r.size
        /\ sweep.pc = "files" => sweep.live = FilesOf(rows)
        /\ sweep.pc \in {"measure", "done"} => Described
        /\ sweep.pc \in {"rows", "files", "measure"} => sweep.victims = {}
        /\ sweep.pc = "evict" => rows = sweep.left
        /\ sweep.pc \in {"evict", "unlink"} => Parted(FilesOf(rows), sweep.victims)
        /\ sweep.pc \in {"unlink", "done"} => Fits(rows)

SweptInv == CacheTyped /\ SweepStands

LEMMA PassKeepsPlace ==
    ASSUME CacheTyped, PassGoesOn
    PROVE  pass'.pc = pass.pc
<1>1. CASE UNCHANGED pass
  BY <1>1
<1>2. CASE Wrote
  <2>1. pass' = [pass EXCEPT !.stale = pass'.stale]
    BY <1>2, WroteCarries DEF CacheTyped
  <2> QED
    BY <2>1, PassTyped DEF Passing
<1> QED
  BY <1>1, <1>2 DEF PassGoesOn

LEMMA SweepStaysQuiet ==
    ASSUME CacheTyped, SweepSteps
    PROVE  Busy' = Busy
<1>1. viewer' = viewer /\ clearing' = clearing /\ pass'.pc = pass.pc
  BY SweepTyped, PassKeepsPlace
<1> QED
  BY <1>1 DEF Busy

LEMMA NotAloneIs ==
    ASSUME CacheTyped, NotAlone \/ Crash \/ SweepFail
    PROVE  ~sweep'.alone
BY DEF NotAlone, Crash, SweepFail, NoSweep, CacheTyped, Sweeping

LEMMA SweepPartsStands ==
    ASSUME SweptInv, SweepParts
    PROVE  SweepStands'
<1>1. sweep' = [NoSweep EXCEPT !.pc = "rows", !.alone = ~Busy] /\ parts' = {}
  BY DEF SweepParts
<1>2. sweep'.pc = "rows" /\ (sweep'.alone <=> ~Busy) /\ sweep'.victims = {}
  BY <1>1 DEF NoSweep
<1>3. Busy' = Busy
  BY SweepStaysQuiet DEF SweptInv, SweepSteps, Sweep
<1> QED
  BY <1>1, <1>2, <1>3 DEF SweepStands

LEMMA SweepRowsIs == SweepRows => sweep.pc = "rows"
BY DEF SweepRows

LEMMA SweepRowsStands ==
    ASSUME SweptInv, SweepRows
    PROVE  SweepStands'
<1>1. PICK kept : kept = {r \in rows : Stays(r)}
  OBVIOUS
<1>2. /\ rows' = kept /\ disk' = Emptied(FilesOf(rows \ kept))
      /\ sweep' = [sweep EXCEPT !.pc = "files", !.live = FilesOf(kept)]
      /\ parts' = parts
  BY <1>1 DEF SweepRows
<1>3. /\ sweep'.pc = "files" /\ sweep'.live = FilesOf(kept) /\ sweep'.alone = sweep.alone
      /\ sweep.pc = "rows" /\ sweep'.victims = sweep.victims
  BY <1>2, SweepRowsIs DEF SweptInv, CacheTyped, Sweeping
<1>4. Busy' = Busy
  BY SweepStaysQuiet DEF SweptInv, SweepSteps, Sweep
<1>5. /\ rows \subseteq Row /\ OnePerPage(rows)
      /\ disk \in [File -> Content \cup {"none"}]
  BY DEF SweptInv, CacheTyped, Ledger
<1>6. ASSUME NEW r \in kept PROVE disk'[r.file] = r.size
  <2>1. r \in rows /\ disk[r.file] = r.size
    BY <1>1, <1>6 DEF Stays
  <2>2. r.file \notin FilesOf(rows \ kept)
    BY <1>5, <1>6, <2>1 DEF FilesOf, OnePerPage
  <2>3. r.file \in File
    BY <1>5, <2>1, RowsAre
  <2> QED
    BY <1>2, <1>5, <2>1, <2>2, <2>3, EmptiedTyped
<1>7. FilesOf(rows)' = FilesOf(kept)
  BY <1>2 DEF FilesOf
<1> QED
  BY <1>2, <1>3, <1>4, <1>6, <1>7 DEF SweepStands, SweptInv

LEMMA SweepFilesStands ==
    ASSUME SweptInv, SweepFiles
    PROVE  SweepStands'
<1>1. /\ sweep.pc = "files" /\ parts' = {} /\ rows' = rows
      /\ disk' = Emptied(File \ sweep.live)
      /\ sweep' = [sweep EXCEPT !.pc = "measure"]
  BY DEF SweepFiles, Walked
<1>2. sweep'.pc = "measure" /\ sweep'.alone = sweep.alone /\ sweep'.victims = sweep.victims
  BY <1>1 DEF SweptInv, CacheTyped, Sweeping
<1>3. Busy' = Busy
  BY SweepStaysQuiet DEF SweptInv, SweepSteps, Sweep
<1>4. rows \subseteq Row /\ disk \in [File -> Content \cup {"none"}]
  BY DEF SweptInv, CacheTyped, Ledger
<1>5. ASSUME sweep.alone
      PROVE  /\ \A r \in rows : disk'[r.file] = r.size
             /\ \A f \in File : disk'[f] # "none" <=> f \in FilesOf(rows)
  <2>1. sweep.live = FilesOf(rows) /\ \A r \in rows : disk[r.file] = r.size
    BY <1>1, <1>5 DEF SweptInv, SweepStands
  <2>2. \A f \in File : disk'[f] = IF f \in FilesOf(rows) THEN disk[f] ELSE "none"
    BY <1>1, <1>4, <2>1, EmptiedTyped
  <2>3. \A r \in rows : r.file \in File /\ r.file \in FilesOf(rows) /\ r.size # "none"
    BY <1>4, RowsAre DEF FilesOf, Content
  <2>4. \A f \in FilesOf(rows) : disk[f] # "none"
    BY <2>1, <2>3 DEF FilesOf
  <2> QED
    BY <2>1, <2>2, <2>3, <2>4
<1>6. FilesOf(rows)' = FilesOf(rows)
  BY <1>1 DEF FilesOf
<1>7. sweep.alone => Described'
  BY <1>5, <1>6 DEF Described, Exists
<1> QED
  BY <1>1, <1>2, <1>3, <1>5, <1>7 DEF SweepStands, SweptInv

LEMMA SweepMeasureStands ==
    ASSUME SweptInv, SweepMeasure
    PROVE  SweepStands'
<1>1. PICK left : left = Measured(rows)
  OBVIOUS
<1>2. /\ sweep.pc = "measure" /\ disk' = disk /\ parts' = parts /\ rows' = left
      /\ sweep' = [sweep EXCEPT !.pc = "evict", !.live = {}, !.left = left]
  BY <1>1 DEF SweepMeasure, Measures
<1>3. /\ sweep'.pc = "evict" /\ sweep'.alone = sweep.alone /\ sweep'.left = left
      /\ sweep'.victims = sweep.victims
  BY <1>2 DEF SweptInv, CacheTyped, Sweeping
<1>4. Busy' = Busy
  BY SweepStaysQuiet DEF SweptInv, SweepSteps, Sweep
<1>5. rows \subseteq Row
  BY DEF SweptInv, CacheTyped, Ledger
<1>6. ASSUME sweep.alone
      PROVE  /\ left = rows /\ Parted(FilesOf(rows), sweep.victims)
             /\ \A r \in rows : disk[r.file] = r.size
  <2>1. Described /\ sweep.victims = {} /\ \A r \in rows : disk[r.file] = r.size
    BY <1>2, <1>6 DEF SweptInv, SweepStands
  <2>2. \A r \in rows : Exists(r.file)
    BY <1>5, <2>1, RowsAre DEF Described, FilesOf
  <2>3. left = rows
    BY <1>1, <2>2, MeasuredIs
  <2> QED
    BY <2>1, <2>3 DEF Described, Parted
<1>7. sweep.alone => Parted(FilesOf(rows), sweep.victims)'
  BY <1>2, <1>3, <1>6 DEF Parted, FilesOf, Exists
<1> QED
  BY <1>2, <1>3, <1>4, <1>6, <1>7 DEF SweepStands, SweptInv

LEMMA SweepEvictStands ==
    ASSUME SweptInv, SweepEvict
    PROVE  SweepStands'
<1>1. /\ sweep.pc = "evict" /\ disk' = disk /\ parts' = parts /\ sweep \in Sweeping
      /\ rows \subseteq Row /\ OnePerPage(rows) /\ Ledger(rows)
  BY DEF SweepEvict, SweptInv, CacheTyped, Ledger
<1>2. Busy' = Busy
  BY SweepStaysQuiet DEF SweptInv, SweepSteps, Sweep
<1>3. CASE Worst(sweep.left, {}) = {} /\ UNCHANGED rows
           /\ sweep' = [sweep EXCEPT !.pc = "unlink", !.left = {}]
  <2>1. sweep'.pc = "unlink" /\ sweep'.alone = sweep.alone /\ sweep'.victims = sweep.victims
    BY <1>1, <1>3 DEF Sweeping
  <2>2. sweep.alone => Fits(rows)
    <3>1. SUFFICES ASSUME sweep.alone PROVE Fits(rows)
      OBVIOUS
    <3>2. rows = sweep.left
      BY <1>1, <3>1 DEF SweptInv, SweepStands
    <3>3. PagesIn(rows) \subseteq PagesIn(sweep.left)
      BY <3>2
    <3>4. {} \in SUBSET {sweep}
      OBVIOUS
    <3> QED
      BY <1>1, <1>3, <3>2, <3>3, <3>4, TrimEnds
  <2>3. sweep.alone => Fits(rows)'
    BY <1>3, <2>2 DEF Fits
  <2>4. sweep.alone => Parted(FilesOf(rows), sweep.victims)'
    BY <1>1, <1>3, <2>1 DEF SweptInv, SweepStands, Parted, FilesOf, Exists
  <2> QED
    BY <1>1, <1>2, <1>3, <2>1, <2>3, <2>4 DEF SweepStands, SweptInv
<1>4. CASE \E row \in Worst(sweep.left, {}) :
              /\ Drops(row)
              /\ sweep' = [sweep EXCEPT !.left = @ \ {row}, !.victims = @ \cup {row.file}]
  <2>1. PICK row \in Worst(sweep.left, {}) :
              /\ Drops(row)
              /\ sweep' = [sweep EXCEPT !.left = @ \ {row}, !.victims = @ \cup {row.file}]
    BY <1>4
  <2>2. row \in sweep.left
    BY <2>1, WorstIs
  <2>3. /\ sweep'.pc = "evict" /\ sweep'.alone = sweep.alone
        /\ sweep'.left = sweep.left \ {row} /\ sweep'.victims = sweep.victims \cup {row.file}
    BY <1>1, <2>1 DEF Sweeping
  <2>4. /\ rows' \subseteq rows
        /\ \A r \in rows : r \in rows' <=> r.file.page # row.file.page
    BY <2>1, <2>2, DropsIs
  <2>5. ASSUME sweep.alone
        PROVE  /\ rows' = sweep.left \ {row}
               /\ Parted(FilesOf(rows'), sweep.victims \cup {row.file})
               /\ \A r \in rows' : disk[r.file] = r.size
    <3>1. /\ rows = sweep.left /\ Parted(FilesOf(rows), sweep.victims)
          /\ \A r \in rows : disk[r.file] = r.size
      BY <1>1, <2>5 DEF SweptInv, SweepStands
    <3>2. \A r \in rows : r.file.page = row.file.page <=> r = row
      BY <1>1, <2>2, <3>1 DEF OnePerPage
    <3>3. rows' = rows \ {row}
      BY <2>4, <3>2
    <3>4. \A f : f \in FilesOf(rows) <=> f \in FilesOf(rows') \/ f = row.file
      BY <2>2, <3>1, <3>3 DEF FilesOf
    <3>5. row.file \notin FilesOf(rows')
      BY <2>2, <3>1, <3>2, <3>3 DEF FilesOf
    <3> QED
      BY <2>4, <3>1, <3>3, <3>4, <3>5 DEF Parted
  <2>6. sweep.alone => Parted(FilesOf(rows), sweep.victims)'
    BY <1>1, <2>3, <2>5 DEF Parted, FilesOf, Exists
  <2> QED
    BY <1>1, <1>2, <2>3, <2>5, <2>6 DEF SweepStands, SweptInv
<1> QED
  BY <1>3, <1>4 DEF SweepEvict

LEMMA SweepUnlinkStands ==
    ASSUME SweptInv, SweepUnlink
    PROVE  SweepStands'
<1>1. /\ sweep.pc = "unlink" /\ disk' = Emptied(sweep.victims)
      /\ sweep' = [sweep EXCEPT !.pc = "done", !.victims = {}]
      /\ parts' = parts /\ rows' = rows
  BY DEF SweepUnlink
<1>2. sweep'.pc = "done" /\ sweep'.alone = sweep.alone
  BY <1>1 DEF SweptInv, CacheTyped, Sweeping
<1>3. Busy' = Busy
  BY SweepStaysQuiet DEF SweptInv, SweepSteps, Sweep
<1>4. rows \subseteq Row /\ disk \in [File -> Content \cup {"none"}]
  BY DEF SweptInv, CacheTyped, Ledger
<1>5. \A f \in File : disk'[f] = IF f \in sweep.victims THEN "none" ELSE disk[f]
  BY <1>1, <1>4, EmptiedTyped
<1>6. ASSUME sweep.alone
      PROVE  /\ \A r \in rows : disk'[r.file] = r.size
             /\ \A f \in File : disk'[f] # "none" <=> f \in FilesOf(rows)
  <2>1. /\ \A r \in rows : disk[r.file] = r.size
        /\ \A f \in File : /\ disk[f] # "none" <=> f \in FilesOf(rows) \cup sweep.victims
                           /\ ~(f \in FilesOf(rows) /\ f \in sweep.victims)
    BY <1>1, <1>6 DEF SweptInv, SweepStands, Parted, Exists
  <2>2. \A r \in rows : r.file \in File /\ r.file \in FilesOf(rows)
    BY <1>4, RowsAre DEF FilesOf
  <2> QED
    BY <1>5, <2>1, <2>2
<1>7. FilesOf(rows)' = FilesOf(rows)
  BY <1>1 DEF FilesOf
<1>8. sweep.alone => Described'
  BY <1>6, <1>7 DEF Described, Exists
<1>9. sweep.alone => Fits(rows)'
  BY <1>1 DEF SweptInv, SweepStands, Fits
<1> QED
  BY <1>1, <1>2, <1>3, <1>6, <1>8, <1>9 DEF SweepStands, SweptInv

LEMMA SweptInductive == SweptInv /\ [CacheNext]_cvars => SweptInv'
<1>1. SUFFICES ASSUME SweptInv, [CacheNext]_cvars PROVE SweptInv'
  OBVIOUS
<1>2. CacheTyped /\ CacheTyped'
  BY <1>1, CacheTypeInductive DEF SweptInv
<1>3. SUFFICES SweepStands'
  BY <1>2 DEF SweptInv
<1>4. CASE Sweep
  BY <1>1, <1>4, SweepPartsStands, SweepRowsStands, SweepFilesStands, SweepMeasureStands,
     SweepEvictStands, SweepUnlinkStands DEF Sweep
<1>5. CASE NotAlone \/ Crash \/ SweepFail
  BY <1>2, <1>5, NotAloneIs DEF SweepStands
<1>6. CASE UNCHANGED cvars
  BY <1>1, <1>6 DEF SweptInv, SweepStands, cvars, Busy, Described, Parted, Exists, FilesOf, Fits
<1>7. CASE OtherWrite
  <2>1. pass' = [pass EXCEPT !.stale = TRUE] /\ pass \in Passing
    BY <1>2, <1>7, PassTyped DEF OtherWrite
  <2>2. pass'.pc = pass.pc
    BY <2>1 DEF Passing
  <2>3. UNCHANGED <<disk, parts, rows, viewer, sweep, clearing>>
    BY <1>7 DEF OtherWrite
  <2> QED
    BY <1>1, <2>2, <2>3 DEF SweptInv, SweepStands, Busy, Described, Parted, Exists, FilesOf, Fits
<1>8. Sweep \/ SweepFail \/ NotAlone \/ Crash \/ UNCHANGED cvars \/ OtherWrite
  <2>1. ASSUME NEW v \in Viewer, CallSteps(v) PROVE NotAlone
    BY <2>1 DEF CallSteps, Display, Ask, LookFile, Relocate, Fetch, Stage, Land, Record, Measure,
                Evict, Unlink, Fail
  <2>2. PassSteps => NotAlone
    BY DEF PassSteps, PassFetch, Prefetch, PassStage, PassLand, PassRecord, PassEvict, PassUnlink,
           PassCommit, PassFail
  <2>3. ClearRows \/ ClearFiles \/ Release => NotAlone
    BY DEF ClearRows, ClearFiles, Release
  <2> QED
    BY <1>1, <2>1, <2>2, <2>3, StepsAre DEF SweepSteps, Cleans
<1> QED
  BY <1>4, <1>5, <1>6, <1>7, <1>8

\* After any crash, error and race before it: a sweep nobody disturbed leaves every file
\* described, every row backed by the bytes it measured, no staging file and the pool
\* within its budget (reconcile in reader/cache.rs).
THEOREM SweepsLeaveAgreement == CacheSpec => []SweptCacheAgrees
<1>1. CacheInit => SweptInv
  BY InitCache DEF CacheInit, SweptInv, SweepStands, NoSweep
<1>2. SweptInv => SweptCacheAgrees
  <2>1. SUFFICES ASSUME SweptInv, sweep.pc = "done", sweep.alone
                 PROVE  /\ {f \in File : Exists(f)} = FilesOf(rows)
                        /\ \A r \in rows : disk[r.file] = r.size
                        /\ parts = {}
                        /\ Fits(rows)
    BY DEF SweptCacheAgrees
  <2>2. Described /\ (\A r \in rows : disk[r.file] = r.size) /\ parts = {} /\ Fits(rows)
    BY <2>1 DEF SweptInv, SweepStands
  <2>3. FilesOf(rows) \subseteq File
    BY <2>1, RowsAre DEF SweptInv, CacheTyped, Ledger, FilesOf
  <2> QED
    BY <2>2, <2>3 DEF Described
<1> QED
  BY <1>1, <1>2, SweptInductive, PTL DEF CacheSpec

-------------------------------------------------------------------------------
(* The page cache: what a step of a call does                                *)

\* A crash forgets every call.
LEMMA CrashIs == Crash => \A v \in Viewer : viewer'[v] = NoCall
BY DEF Crash

\* What goes wrong is counted.
LEMMA MishapsCount ==
    ASSUME CacheTyped, mishaps' = mishaps
    PROVE  ~Crash /\ \A v \in Viewer : ~Fail(v)
<1>1. mishaps \in Nat
  BY PageCacheAssumption DEF CacheTyped, Counts
<1>2. mishaps' # mishaps + 1
  BY <1>1
<1> QED
  BY <1>2 DEF Crash, Fail

\* A call's place changes only by the steps of that call, or with all of them by a crash.
LEMMA OneCallMoves ==
    ASSUME CacheTyped, [CacheNext]_cvars, NEW v \in Viewer, viewer'[v] # viewer[v], ~Crash
    PROVE  CallSteps(v)
<1>1. viewer' # viewer
  OBVIOUS
<1>2. ~PassSteps
  BY <1>1, PrefetchTyped DEF PassMoves
<1>3. ~SweepSteps
  BY <1>1, SweepTyped
<1>4. ~Cleans
  BY <1>1, CleanTyped
<1>5. PICK w \in Viewer : CallSteps(w)
  BY <1>1, <1>2, <1>3, <1>4, StepsAre DEF cvars
<1>6. PICK c : viewer' = [viewer EXCEPT ![w] = c]
  BY <1>5, CallStepMoves DEF CallMoves, Calls
<1>7. v = w
  BY <1>6 DEF CacheTyped
<1> QED
  BY <1>5, <1>7

\* From where to where each step of a call goes.
LEMMA CallGoes ==
    ASSUME CacheTyped, NEW v \in Viewer, NEW c, Calls(v, c)
    PROVE  viewer'[v] = c /\ \A w \in Viewer \ {v} : viewer'[w] = viewer[w]
BY DEF Calls, CacheTyped

\* A step of a trim keeps the page it was for, and takes guesses before what was
\* displayed, of the rows it measured.
LEMMA EvictOutranks ==
    ASSUME CacheTyped, NEW v \in Viewer, Evict(v), viewer'[v].pc = "evict"
    PROVE  LET p == viewer[v].bytes.page
               known == rows \cap viewer[v].left
           IN  /\ RowsOfPage(rows, p) \subseteq rows'
               /\ (\E r \in known \ rows' : ~Guess(r))
                     => \A r \in known \cap rows' : Guess(r) => r.file.page = p
<1>1. PICK p : p = viewer[v].bytes.page
  OBVIOUS
<1>2. PICK left : left = viewer[v].left
  OBVIOUS
<1>3. viewer[v] \in Calling /\ OnePerPage(left)
  BY <1>2, CallTyped DEF CallStands
<1>4. PICK row \in Worst(left, {p}) : Drops(row)
  <2>1. CASE Calls(v, [viewer[v] EXCEPT !.pc = "unlink", !.left = {}])
    <3>1. viewer'[v] = [viewer[v] EXCEPT !.pc = "unlink", !.left = {}]
      BY <2>1, CallGoes
    <3>2. viewer'[v].pc = "unlink"
      BY <1>3, <3>1 DEF Calling
    <3> QED
      BY <3>2
  <2>2. CASE \E row \in Worst(left, Kept(p)) : Drops(row)
    BY <2>2, KeptIs
  <2> QED
    BY <1>1, <1>2, <2>1, <2>2 DEF Evict
<1>5. /\ row \in left /\ row.file.page # p
      /\ ~Guess(row) => \A s \in left : s.file.page # p => ~Guess(s)
  BY <1>4, WorstIs
<1>6. \A r \in rows : r \in rows' <=> r.file.page # row.file.page
  BY <1>4, <1>5, DropsIs
<1> HIDE DEF Guess
<1>7. RowsOfPage(rows, p) \subseteq rows'
  BY <1>5, <1>6 DEF RowsOfPage
<1>8. ASSUME NEW r \in rows \cap left, r \notin rows', ~Guess(r),
             NEW s \in rows \cap left, Guess(s)
      PROVE  s.file.page = p
  <2>1. r = row
    BY <1>3, <1>5, <1>6, <1>8 DEF OnePerPage
  <2> QED
    BY <1>5, <1>8, <2>1
<1> QED
  BY <1>1, <1>2, <1>7, <1>8

\* Every page a call records survives the trim it triggers, and of the rows it measured
\* that trim drops a displayed one only when no guessed one is left to drop
\* (evictable_order in store/cache.rs).
THEOREM GuessesGoFirst == CacheSpec => SeenOutranksGuessed
<1>1. ASSUME CacheTyped, [CacheNext]_cvars, NEW v \in Viewer,
             viewer[v].pc = "evict", viewer'[v].pc = "evict", viewer'[v] # viewer[v]
      PROVE  Evict(v)
  <2>1. ~Crash
    BY <1>1, CrashIs DEF NoCall
  <2>2. CallSteps(v)
    BY <1>1, <2>1, OneCallMoves
  <2>3. ~Fail(v)
    <3>1. SUFFICES ASSUME Fail(v) PROVE FALSE
      OBVIOUS
    <3>2. viewer'[v] = NoCall
      BY <1>1, <3>1, CallGoes DEF Fail
    <3> QED
      BY <1>1, <3>2 DEF NoCall
  <2> QED
    BY <1>1, <2>2, <2>3
       DEF CallSteps, Display, Ask, LookFile, Relocate, Fetch, Stage, Land, Record, Measure, Unlink
<1>2. CacheTyped /\ [CacheNext]_cvars
        => [\A v \in Viewer :
              (viewer[v].pc = "evict" /\ viewer'[v].pc = "evict" /\ viewer'[v] # viewer[v])
              => LET p == viewer[v].bytes.page
                     known == rows \cap viewer[v].left
                 IN  /\ RowsOfPage(rows, p) \subseteq rows'
                     /\ (\E r \in known \ rows' : ~Guess(r))
                           => \A r \in known \cap rows' : Guess(r) => r.file.page = p]_cvars
  BY <1>1, EvictOutranks
<1> QED
  BY <1>2, CacheIsTyped, PTL DEF CacheSpec, SeenOutranksGuessed

-------------------------------------------------------------------------------
(* The page cache: no call answers with a cut page                           *)

\* Files of the containers whose end the checks look for.
Checked == {f \in File : f.format # "webp"}

\* What a call is about to land, or has landed or promoted, is whole.
CallsCarryWhole ==
    \A v \in Viewer :
        /\ viewer[v].pc = "land"
              => viewer[v].bytes.content # "short" \/ viewer[v].bytes.format = "webp"
        /\ (viewer[v].pc \in {"relocate", "record", "measure", "evict", "unlink"}
               /\ Answered(viewer[v]) \in Checked)
              => disk[Answered(viewer[v])] # "short"

WholeInv == CacheTyped /\ CallsCarryWhole

\* A hit answers with a page file.
LEMMA PromotedIs ==
    ASSUME CacheTyped, NEW v \in Viewer, viewer[v].found # {},
           NEW row, row = CHOOSE r \in viewer[v].found : TRUE
    PROVE  /\ Promoted(viewer[v].found) = [row.file EXCEPT !.dir = "pages"]
           /\ Promoted(viewer[v].found) \in File
           /\ Promoted(viewer[v].found).format = row.file.format
<1>1. Promoted(viewer[v].found) = [row.file EXCEPT !.dir = "pages"]
  BY DEF Promoted
<1>2. row.file \in File
  BY FoundIs
<1> QED
  BY <1>1, <1>2 DEF File

\* The first step of a hit: where it leads, and that a promoted file is whole.
LEMMA LookKeepsWhole ==
    ASSUME WholeInv, NEW v \in Viewer, LookFile(v)
    PROVE  /\ \A f \in Checked : disk[f] # "short" => disk'[f] # "short"
           /\ viewer'[v].pc \in {"stage", "fetch", "relocate", "idle"}
           /\ viewer'[v].pc = "relocate" => viewer'[v].found = viewer[v].found
           /\ viewer'[v].pc \in {"relocate", "idle"} =>
                 /\ Promoted(viewer[v].found) \in File
                 /\ Promoted(viewer[v].found) \in Checked
                       => disk'[Promoted(viewer[v].found)] # "short"
<1> DEFINE found == viewer[v].found
           row == CHOOSE r \in found : TRUE
           absent == \A r \in found : ~Exists(r.file)
           there == [Emptied({row.file}) EXCEPT ![[row.file EXCEPT !.dir = "pages"]] = disk[row.file]]
<1>1. CacheTyped /\ viewer[v] \in Calling /\ disk \in [File -> Content \cup {"none"}]
  BY CallTyped DEF WholeInv
<1>2. ASSUME found # {}
      PROVE  /\ row \in Row /\ row.file \in File
             /\ Promoted(found) = [row.file EXCEPT !.dir = "pages"]
             /\ Promoted(found) \in File /\ Promoted(found).format = row.file.format
  BY <1>1, <1>2, FoundIs, PromotedIs
<1>3. ASSUME ~Broken(row), row.file.format # "webp"
      PROVE  disk[row.file] # "short"
  BY <1>3 DEF Broken, Trailered
<1>4. CASE /\ disk' = disk
           /\ \E c : Calls(v, c) /\ c.pc \in {"stage", "fetch"}
  BY <1>1, <1>4, CallGoes
<1>5. CASE /\ disk' = Emptied({row.file})
           /\ \E c : Calls(v, c) /\ c.pc = "fetch"
  BY <1>1, <1>5, CallGoes, EmptiedTyped DEF Checked
<1>6. CASE /\ ~absent /\ ~Broken(row)
           /\ disk' = there
           /\ Calls(v, [viewer[v] EXCEPT !.pc = "relocate"])
  <2>1. found # {}
    BY <1>6
  <2>2. PICK r : r = row
    OBVIOUS
  <2>3. /\ r.file \in File /\ (r.file.format # "webp" => disk[r.file] # "short")
        /\ Promoted(found) = [r.file EXCEPT !.dir = "pages"]
        /\ Promoted(found) \in File /\ Promoted(found).format = r.file.format
    BY <1>2, <1>3, <1>6, <2>1, <2>2
  <2>4. PICK e : e = Emptied({r.file})
    OBVIOUS
  <2>5. PICK g : g = Promoted(found)
    OBVIOUS
  <2>6. g = [r.file EXCEPT !.dir = "pages"] /\ g \in File /\ g.format = r.file.format
    BY <2>3, <2>5
  <2>7. /\ e \in [File -> Content \cup {"none"}]
        /\ \A f \in File : e[f] = "none" \/ e[f] = disk[f]
    BY <1>1, <2>4, EmptiedTyped
  <2>8. disk' = [e EXCEPT ![g] = disk[r.file]]
    BY <1>6, <2>2, <2>4, <2>6
  <2>9. \A f \in File : disk'[f] = IF f = g THEN disk[r.file] ELSE e[f]
    BY <2>6, <2>7, <2>8
  <2>10. \A f \in Checked : disk[f] # "short" => disk'[f] # "short"
    BY <2>3, <2>6, <2>7, <2>9 DEF Checked
  <2>11. g \in Checked => disk'[g] # "short"
    BY <2>3, <2>6, <2>9 DEF Checked
  <2>12. viewer'[v] = [viewer[v] EXCEPT !.pc = "relocate"]
    BY <1>1, <1>6, CallGoes
  <2>13. viewer'[v].pc = "relocate" /\ viewer'[v].found = viewer[v].found
    BY <1>1, <2>12 DEF Calling
  <2> QED
    BY <2>5, <2>6, <2>10, <2>11, <2>13
<1>7. CASE /\ ~absent /\ ~Broken(row) /\ ~Guess(row)
           /\ disk' = disk /\ Calls(v, NoCall)
  <2>1. found # {}
    BY <1>7
  <2>2. PICK r : r = row
    OBVIOUS
  <2>3. /\ r.file \in File /\ (r.file.format # "webp" => disk[r.file] # "short")
        /\ Promoted(found) = [r.file EXCEPT !.dir = "pages"]
        /\ Promoted(found) \in File /\ Promoted(found).format = r.file.format
    BY <1>2, <1>3, <1>7, <2>1, <2>2
  <2>4. r.file.dir = "pages"
    BY <1>7, <2>2, <2>3 DEF Guess, File
  <2>5. Promoted(found) = r.file
    BY <2>3, <2>4 DEF File
  <2>6. viewer'[v].pc = "idle"
    BY <1>1, <1>7, CallGoes DEF NoCall
  <2> QED
    BY <1>7, <2>3, <2>5, <2>6 DEF Checked
<1>8. \/ /\ disk' = disk
         /\ \E c : Calls(v, c) /\ c.pc \in {"stage", "fetch"}
      \/ /\ disk' = Emptied({row.file})
         /\ \E c : Calls(v, c) /\ c.pc = "fetch"
      \/ /\ ~absent /\ ~Broken(row)
         /\ disk' = there
         /\ Calls(v, [viewer[v] EXCEPT !.pc = "relocate"])
      \/ /\ ~absent /\ ~Broken(row) /\ ~Guess(row)
         /\ disk' = disk /\ Calls(v, NoCall)
  <2>1. ASSUME Advance(v, "fetch") PROVE \E c : Calls(v, c) /\ c.pc = "fetch"
    <3>1. PICK c : c = [viewer[v] EXCEPT !.pc = "fetch", !.found = {}]
      OBVIOUS
    <3>2. c.pc = "fetch"
      BY <1>1, <3>1 DEF Calling
    <3>3. Calls(v, c)
      BY <2>1, <3>1 DEF Advance
    <3> QED
      BY <3>2, <3>3
  <2>2. ASSUME NEW b, Calls(v, [NoCall EXCEPT !.pc = "stage", !.resident = TRUE, !.bytes = b])
        PROVE  \E c : Calls(v, c) /\ c.pc = "stage"
    <3>1. PICK c : c = [NoCall EXCEPT !.pc = "stage", !.resident = TRUE, !.bytes = b]
      OBVIOUS
    <3>2. c.pc = "stage"
      BY <3>1 DEF NoCall
    <3> QED
      BY <2>2, <3>1, <3>2
  <2>3. \/ /\ disk' = disk
           /\ \E b : Calls(v, [NoCall EXCEPT !.pc = "stage", !.resident = TRUE, !.bytes = b])
        \/ disk' = disk /\ Advance(v, "fetch")
        \/ disk' = Emptied({row.file}) /\ Advance(v, "fetch")
        \/ /\ ~absent /\ ~Broken(row)
           /\ disk' = there
           /\ Calls(v, [viewer[v] EXCEPT !.pc = "relocate"])
        \/ /\ ~absent /\ ~Broken(row) /\ ~Guess(row)
           /\ disk' = disk /\ Calls(v, NoCall)
    BY Zenon DEF LookFile
  <2> HIDE DEF row, absent, there
  <2> QED
    BY <2>1, <2>2, <2>3
<1> HIDE DEF found, row, absent, there
<1> QED
  BY <1>4, <1>5, <1>6, <1>7, <1>8

\* The other steps of a call: no file becomes cut, and what the call has landed is whole.
LEMMA CallKeepsWhole ==
    ASSUME WholeInv, NEW v \in Viewer,
           \/ Relocate(v) \/ Fetch(v) \/ Stage(v) \/ Land(v) \/ Record(v) \/ Measure(v)
           \/ Evict(v) \/ Unlink(v) \/ Fail(v)
           \/ \E p \in Page : Ask(v, p)
    PROVE  /\ \A f \in Checked : disk[f] # "short" => disk'[f] # "short"
           /\ viewer'[v].pc = "land"
                 => viewer'[v].bytes.content # "short" \/ viewer'[v].bytes.format = "webp"
           /\ viewer'[v].pc # "relocate"
           /\ (viewer'[v].pc \in {"record", "measure", "evict", "unlink"}
                  /\ FileOf("pages", viewer'[v].bytes) \in Checked)
                 => disk'[FileOf("pages", viewer'[v].bytes)] # "short"
<1>1. /\ CacheTyped /\ viewer[v] \in Calling /\ CallStands(viewer[v])
      /\ disk \in [File -> Content \cup {"none"}]
  BY CallTyped DEF WholeInv
<1>2. CASE Calls(v, NoCall) /\ disk' = disk
  <2>1. viewer'[v].pc = "idle"
    BY <1>1, <1>2, CallGoes DEF NoCall
  <2> QED
    BY <1>2, <2>1
<1>3. CASE Relocate(v)
  BY <1>2, <1>3 DEF Relocate
<1>4. CASE Fetch(v)
  <2>1. PICK answer \in Answers, format \in Format :
            IF answer = "error" THEN Calls(v, NoCall)
            ELSE Calls(v, [viewer[v] EXCEPT !.pc = "stage", !.bytes.format = format,
                                            !.bytes.content = answer])
    BY <1>4 DEF Fetch
  <2>2. disk' = disk
    BY <1>4 DEF Fetch
  <2>3. PICK c : c = [viewer[v] EXCEPT !.pc = "stage", !.bytes.format = format,
                                       !.bytes.content = answer]
    OBVIOUS
  <2>4. c.pc = "stage"
    BY <1>1, <2>3 DEF Calling
  <2>5. CASE answer = "error"
    BY <1>2, <2>1, <2>2, <2>5
  <2>6. CASE answer # "error"
    <3>1. viewer'[v] = c
      BY <1>1, <2>1, <2>3, <2>6, CallGoes
    <3> QED
      BY <2>2, <2>4, <3>1
  <2> QED
    BY <2>5, <2>6
<1>5. CASE Stage(v)
  <2>1. viewer[v].pc = "stage"
    BY <1>5 DEF Stage
  <2>2. PICK bytes : bytes = viewer[v].bytes
    OBVIOUS
  <2>3. bytes \in Bytes
    BY <1>1, <2>1, <2>2 DEF CallStands
  <2>4. CASE Refused(bytes)
    BY <1>2, <1>5, <2>2, <2>4 DEF Stage
  <2>5. CASE ~Refused(bytes)
    <3>1. bytes.content # "short" \/ bytes.format = "webp"
      BY <2>5 DEF Refused, Trailered
    <3>2. Advance(v, "land") /\ \E files : disk' = Emptied(files)
      BY <1>5, <2>2, <2>5 DEF Stage
    <3>3. PICK c : c = [viewer[v] EXCEPT !.pc = "land", !.found = {}]
      OBVIOUS
    <3>4. viewer'[v] = c /\ c.pc = "land" /\ c.bytes = bytes
      BY <1>1, <2>1, <2>2, <3>2, <3>3, AdvanceStands, CallGoes DEF Advance
    <3>5. \A f \in Checked : disk[f] # "short" => disk'[f] # "short"
      BY <1>1, <3>2, EmptiedTyped DEF Checked
    <3> QED
      BY <3>1, <3>4, <3>5
  <2> QED
    BY <2>4, <2>5
<1>6. CASE Land(v)
  <2>1. viewer[v].pc = "land"
    BY <1>6 DEF Land
  <2>2. PICK bytes : bytes = viewer[v].bytes
    OBVIOUS
  <2>3. bytes \in Bytes /\ (bytes.content # "short" \/ bytes.format = "webp")
    BY <1>1, <2>1, <2>2 DEF CallStands, WholeInv, CallsCarryWhole
  <2>4. PICK file : file = FileOf("pages", bytes)
    OBVIOUS
  <2>5. file \in File /\ file.format = bytes.format
    BY <2>3, <2>4, FileOfIs
  <2>6. CASE file \notin parts
    BY <1>2, <1>6, <2>2, <2>4, <2>6 DEF Land
  <2>7. CASE file \in parts
    <3>1. disk' = [disk EXCEPT ![file] = bytes.content] /\ Advance(v, "record")
      BY <1>6, <2>2, <2>4, <2>7 DEF Land
    <3>2. \A f \in File : disk'[f] = IF f = file THEN bytes.content ELSE disk[f]
      BY <1>1, <2>5, <3>1
    <3>3. PICK c : c = [viewer[v] EXCEPT !.pc = "record", !.found = {}]
      OBVIOUS
    <3>4. viewer'[v] = c /\ c.pc = "record" /\ c.bytes = bytes
      BY <1>1, <2>1, <2>2, <3>1, <3>3, AdvanceStands, CallGoes DEF Advance
    <3>5. \A f \in Checked : f = file => disk'[f] # "short"
      BY <2>3, <2>5, <3>2 DEF Checked
    <3>6. \A f \in Checked : disk[f] # "short" => disk'[f] # "short"
      BY <3>2, <3>5 DEF Checked
    <3> QED
      BY <2>4, <3>4, <3>5, <3>6
  <2> QED
    BY <2>6, <2>7
<1>7. CASE Record(v) \/ Measure(v) \/ Evict(v)
  <2>1. viewer[v].pc \in {"record", "measure", "evict"} /\ disk' = disk
    BY <1>7 DEF Record, Measure, Evict
  <2>2. FileOf("pages", viewer[v].bytes) \in Checked
           => disk[FileOf("pages", viewer[v].bytes)] # "short"
    BY <1>1, <2>1 DEF WholeInv, CallsCarryWhole, Answered
  <2>4. ASSUME NEW c, Calls(v, c), c.pc \in {"measure", "evict", "unlink"}, c.bytes = viewer[v].bytes
        PROVE  viewer'[v].pc \in {"measure", "evict", "unlink"} /\ viewer'[v].bytes = viewer[v].bytes
    BY <1>1, <2>4, CallGoes
  <2>5. CASE Calls(v, [viewer[v] EXCEPT !.pc = "measure", !.found = {}])
    <3>1. PICK c : c = [viewer[v] EXCEPT !.pc = "measure", !.found = {}]
      OBVIOUS
    <3>2. c.pc = "measure" /\ c.bytes = viewer[v].bytes
      BY <1>1, <3>1 DEF Calling
    <3> QED
      BY <2>1, <2>2, <2>4, <2>5, <3>1, <3>2
  <2>6. ASSUME NEW left, Calls(v, [viewer[v] EXCEPT !.pc = "evict", !.left = left])
        PROVE  viewer'[v].pc \in {"measure", "evict", "unlink"} /\ viewer'[v].bytes = viewer[v].bytes
    <3>1. PICK c : c = [viewer[v] EXCEPT !.pc = "evict", !.left = left]
      OBVIOUS
    <3>2. c.pc = "evict" /\ c.bytes = viewer[v].bytes
      BY <1>1, <3>1 DEF Calling
    <3> QED
      BY <2>4, <2>6, <3>1, <3>2
  <2>7. CASE Calls(v, [viewer[v] EXCEPT !.pc = "unlink", !.left = {}])
    <3>1. PICK c : c = [viewer[v] EXCEPT !.pc = "unlink", !.left = {}]
      OBVIOUS
    <3>2. c.pc = "unlink" /\ c.bytes = viewer[v].bytes
      BY <1>1, <3>1 DEF Calling
    <3> QED
      BY <2>1, <2>2, <2>4, <2>7, <3>1, <3>2
  <2>8. ASSUME NEW row,
               Calls(v, [viewer[v] EXCEPT !.left = @ \ {row}, !.victims = @ \cup {row.file}]),
               viewer[v].pc = "evict"
        PROVE  viewer'[v].pc \in {"measure", "evict", "unlink"} /\ viewer'[v].bytes = viewer[v].bytes
    <3>1. PICK c : c = [viewer[v] EXCEPT !.left = @ \ {row}, !.victims = @ \cup {row.file}]
      OBVIOUS
    <3>2. c.pc = viewer[v].pc /\ c.bytes = viewer[v].bytes
      BY <1>1, <3>1 DEF Calling
    <3> QED
      BY <2>4, <2>8, <3>1, <3>2
  <2>9. CASE Evict(v)
    <3>1. viewer[v].pc = "evict"
      BY <2>9 DEF Evict
    <3>2. \/ Calls(v, [viewer[v] EXCEPT !.pc = "unlink", !.left = {}])
          \/ \E row : Calls(v, [viewer[v] EXCEPT !.left = @ \ {row}, !.victims = @ \cup {row.file}])
      BY <2>9 DEF Evict
    <3> QED
      BY <2>1, <2>2, <2>7, <2>8, <3>1, <3>2
  <2>10. CASE Measure(v)
    BY <2>1, <2>2, <2>6, <2>10 DEF Measure
  <2>11. CASE Record(v)
    <3>1. Calls(v, NoCall) \/ Calls(v, [viewer[v] EXCEPT !.pc = "measure", !.found = {}])
      BY <2>11 DEF Record, Advance
    <3> QED
      BY <1>2, <2>1, <2>5, <3>1
  <2> QED
    BY <1>7, <2>9, <2>10, <2>11
<1>8. CASE Unlink(v)
  <2>1. Calls(v, NoCall) /\ disk' = Emptied(viewer[v].victims)
    BY <1>8 DEF Unlink
  <2>2. viewer'[v].pc = "idle"
    BY <1>1, <2>1, CallGoes DEF NoCall
  <2> QED
    BY <1>1, <2>1, <2>2, EmptiedTyped DEF Checked
<1>9. CASE Fail(v)
  BY <1>2, <1>9 DEF Fail
<1>10. CASE \E p \in Page : Ask(v, p)
  <2>1. PICK p \in Page : Ask(v, p)
    BY <1>10
  <2>2. PICK c : c = [NoCall EXCEPT !.pc = "file", !.bytes.page = p, !.found = RowsOfPage(rows, p)]
    OBVIOUS
  <2>3. c.pc = "file"
    BY <2>2 DEF NoCall
  <2>4. viewer'[v] = c /\ disk' = disk
    BY <1>1, <2>1, <2>2, CallGoes DEF Ask
  <2> QED
    BY <2>3, <2>4
<1> QED
  BY <1>3, <1>4, <1>5, <1>6, <1>7, <1>8, <1>9, <1>10

\* Only the end of the process cuts a file whose end the checks look for.
LEMMA NothingIsCut ==
    ASSUME WholeInv, [CacheNext]_cvars, ~Crash
    PROVE  \A f \in Checked : disk[f] # "short" => disk'[f] # "short"
<1>1. CacheTyped /\ disk \in [File -> Content \cup {"none"}]
  BY DEF WholeInv, CacheTyped
<1>2. CASE \E v \in Viewer : CallSteps(v)
  BY <1>2, LookKeepsWhole, CallKeepsWhole DEF CallSteps, Display
<1>3. CASE disk' = disk \/ \E files : disk' = Emptied(files)
  BY <1>1, <1>3, EmptiedTyped DEF Checked
<1>4. CASE PassLand
  <2>1. pass.bytes.content # "short"
    BY <1>1 DEF CacheTyped, PassCarries
  <2>2. disk' = disk \/ \E f : disk' = [disk EXCEPT ![f] = pass.bytes.content]
    BY <1>4 DEF PassLand
  <2> QED
    BY <1>1, <2>1, <2>2 DEF Checked
<1>5. ASSUME (PassSteps /\ ~PassLand) \/ SweepSteps \/ Cleans
      PROVE  disk' = disk \/ \E files : disk' = Emptied(files)
  BY <1>5 DEF PassSteps, Prefetch, PassFetch, PassStage, PassRecord, PassEvict, PassUnlink, PassCommit,
     PassFail, SweepSteps, Sweep, SweepParts, SweepRows, SweepFiles, SweepMeasure, SweepEvict,
     SweepUnlink, SweepFail, Cleans, ClearRows, ClearFiles, Release, OtherWrite
<1>6. UNCHANGED cvars => disk' = disk
  BY DEF cvars
<1> QED
  BY <1>2, <1>3, <1>4, <1>5, <1>6, StepsAre

LEMMA WholeInductive ==
    ASSUME WholeInv, [CacheNext]_cvars
    PROVE  WholeInv'
<1>1. CacheTyped /\ CacheTyped'
  BY CacheTypeInductive DEF WholeInv
<1>2. SUFFICES ASSUME NEW v \in Viewer
               PROVE  /\ viewer'[v].pc = "land"
                            => viewer'[v].bytes.content # "short" \/ viewer'[v].bytes.format = "webp"
                      /\ (viewer'[v].pc \in {"relocate", "record", "measure", "evict", "unlink"}
                             /\ Answered(viewer'[v]) \in Checked)
                            => disk'[Answered(viewer'[v])] # "short"
  BY <1>1 DEF WholeInv, CallsCarryWhole
<1>3. CASE Crash
  <2>1. viewer'[v].pc = "idle"
    BY <1>3 DEF Crash, NoCall
  <2> QED
    BY <2>1
<1>4. CASE ~Crash /\ viewer'[v] = viewer[v]
  BY <1>4, NothingIsCut DEF WholeInv, CallsCarryWhole
<1>5. CASE ~Crash /\ viewer'[v] # viewer[v]
  <2>1. CallSteps(v)
    BY <1>1, <1>5, OneCallMoves
  <2>2. CASE LookFile(v)
    BY <2>2, LookKeepsWhole DEF Answered
  <2>3. CASE \/ Relocate(v) \/ Fetch(v) \/ Stage(v) \/ Land(v) \/ Record(v) \/ Measure(v)
             \/ Evict(v) \/ Unlink(v) \/ Fail(v)
             \/ \E p \in Page : Ask(v, p)
    BY <2>3, CallKeepsWhole DEF Answered
  <2> QED
    BY <2>1, <2>2, <2>3 DEF CallSteps, Display
<1> QED
  BY <1>3, <1>4, <1>5

\* Whatever races, promotions and evictions come between: what a display call returns
\* was not cut when it was checked and has not been cut since, unless the process died,
\* in every container whose end the checks look for (inspect, quick_check_file).
THEOREM NoAnswerIsCut == CacheSpec => AnswersAreWhole
<1>1. ASSUME WholeInv, [CacheNext]_cvars, NEW v \in Viewer, Returns(v),
             Answered(viewer[v]).format # "webp"
      PROVE  disk'[Answered(viewer[v])] # "short"
  <2>1. /\ CacheTyped /\ mishaps' = mishaps /\ viewer'[v].pc = "idle"
        /\ viewer[v].pc \in {"file", "relocate", "unlink"}
    BY <1>1 DEF WholeInv, Returns
  <2>2. viewer'[v] # viewer[v] /\ ~Crash /\ ~Fail(v)
    BY <2>1, MishapsCount
  <2>3. Display(v) \/ \E p \in Page : Ask(v, p)
    BY <1>1, <2>1, <2>2, OneCallMoves DEF CallSteps
  <2>4. LookFile(v) \/ Relocate(v) \/ Unlink(v)
    BY <2>1, <2>3 DEF Display, Ask, Fetch, Stage, Land, Record, Measure, Evict
  <2>5. CASE LookFile(v)
    <3>1. viewer[v].pc = "file"
      BY <2>5 DEF LookFile
    <3>2. Answered(viewer[v]) = Promoted(viewer[v].found)
      BY <3>1 DEF Answered
    <3> QED
      BY <1>1, <2>1, <2>5, <3>2, LookKeepsWhole DEF Checked
  <2>6. CASE Relocate(v) \/ Unlink(v)
    <3>1. viewer[v].pc \in {"relocate", "unlink"}
      BY <2>6 DEF Relocate, Unlink
    <3>2. Answered(viewer[v]) \in File
      <4>1. CASE viewer[v].pc = "relocate"
        <5>1. viewer[v].found # {}
          BY <2>1, <4>1, CallTyped DEF CallStands
        <5>2. PICK row : row = CHOOSE r \in viewer[v].found : TRUE
          OBVIOUS
        <5> QED
          BY <2>1, <4>1, <5>1, <5>2, PromotedIs DEF Answered
      <4>2. CASE viewer[v].pc = "unlink"
        BY <2>1, <4>2, CallTyped, FileOfIs DEF Answered, CallStands
      <4> QED
        BY <3>1, <4>1, <4>2
    <3>3. Answered(viewer[v]) \in Checked
      BY <1>1, <3>2 DEF Checked
    <3>4. disk[Answered(viewer[v])] # "short"
      BY <1>1, <3>1, <3>3 DEF WholeInv, CallsCarryWhole
    <3> QED
      BY <1>1, <2>6, <3>3, <3>4, CallKeepsWhole
  <2> QED
    BY <2>4, <2>5, <2>6
<1>2. WholeInv /\ [CacheNext]_cvars
        => [\A v \in Viewer :
              (Returns(v) /\ Answered(viewer[v]).format # "webp")
              => disk'[Answered(viewer[v])] # "short"]_cvars
  BY <1>1
<1>3. CacheInit => WholeInv
  BY InitCache DEF CacheInit, WholeInv, CallsCarryWhole, NoCall
<1>4. WholeInv /\ [CacheNext]_cvars => WholeInv'
  BY WholeInductive
<1> QED
  BY <1>2, <1>3, <1>4, PTL DEF CacheSpec, AnswersAreWhole

-------------------------------------------------------------------------------
(* Event frames: what a sequence has at some places                          *)

Places(n) == [i \in 1 .. n |-> i]

\* The first n elements are the same, and the same of them are kept.
Alike(n, s, kept, u, held) ==
    \A i \in 1 .. n : s[i] = u[i] /\ (s[i] \in kept <=> u[i] \in held)

\* The same of the first n places are chosen.
SameTo(n, chosen, held) == \A i \in 1 .. n : i \in chosen <=> i \in held

LEMMA SiftRuns ==
    ASSUME NEW T, NEW s \in Seq(T), NEW kept
    PROVE  \E f : SiftsTo(f, s, kept, Len(s)) /\ Sift(s, kept) = f[Len(s)]
<1> DEFINE upTo == CHOOSE f : SiftsTo(f, s, kept, Len(s))
<1>1. Sift(s, kept) = upTo[Len(s)]
  BY DEF Sift, SiftsTo, SiftStep
<1>2. Len(s) \in 0 .. Len(s)
  OBVIOUS
<1>3. \E f : SiftsTo(f, s, kept, Len(s))
  BY <1>2, SiftGoesOn
<1>4. SiftsTo(upTo, s, kept, Len(s))
  BY <1>3
<1> HIDE DEF upTo
<1> QED
  BY <1>1, <1>4

\* Two sequences that begin alike are sifted alike so far.
LEMMA SiftAgrees ==
    ASSUME NEW s, NEW u, NEW kept, NEW held, NEW a \in Nat, NEW b \in Nat,
           NEW f, SiftsTo(f, s, kept, a), NEW g, SiftsTo(g, u, held, b),
           NEW n \in Nat, n <= a, n <= b,
           Alike(n, s, kept, u, held)
    PROVE  \A i \in 0 .. n : f[i] = g[i]
<1> DEFINE bad == {i \in 0 .. n : f[i] # g[i]}
<1>1. SUFFICES ASSUME bad # {} PROVE FALSE
  OBVIOUS
<1>2. PICK i \in bad : \A j \in bad : i <= j
  <2>1. bad \in SUBSET Nat
    OBVIOUS
  <2> HIDE DEF bad
  <2> QED
    BY <1>1, <2>1, LeastNat
<1>3. i \in 0 .. n /\ f[i] # g[i] /\ i \in 0 .. a /\ i \in 0 .. b
  OBVIOUS
<1>4. f[i] = SiftStep(s, kept, f, i) /\ g[i] = SiftStep(u, held, g, i)
  BY <1>3 DEF SiftsTo
<1>5. i # 0 => f[i - 1] = g[i - 1]
  <2>1. i # 0 => i - 1 \in 0 .. n /\ ~(i <= i - 1)
    BY <1>3
  <2> QED
    BY <1>2, <2>1
<1>6. i # 0 => i \in 1 .. n
  BY <1>3
<1>7. SiftStep(s, kept, f, i) = SiftStep(u, held, g, i)
  BY <1>5, <1>6 DEF SiftStep, Alike
<1> QED
  BY <1>3, <1>4, <1>7

LEMMA PlacesAre ==
    ASSUME NEW n \in Nat
    PROVE  /\ Places(n) \in Seq(1 .. n) /\ Len(Places(n)) = n
           /\ \A i \in 1 .. n : Places(n)[i] = i
<1>1. Places(n) \in [1 .. n -> 1 .. n]
  BY DEF Places
<1>2. \A i \in 1 .. n : Places(n)[i] = i
  BY DEF Places
<1> QED
  BY <1>1, <1>2

\* Places are sifted from the left, and only those there are.
LEMMA PlacesSifted ==
    ASSUME NEW n \in Nat, NEW chosen
    PROVE  /\ Sift(Places(n), chosen) \in Seq(1 .. n)
           /\ \A held : SameTo(n, chosen, held)
                           => Sift(Places(n), chosen) = Sift(Places(n), held)
           /\ Sift(Places(n + 1), chosen) =
                 IF n + 1 \in chosen THEN Append(Sift(Places(n), chosen), n + 1)
                 ELSE Sift(Places(n), chosen)
<1>1. /\ Places(n) \in Seq(1 .. n) /\ Len(Places(n)) = n
      /\ \A i \in 1 .. n : Places(n)[i] = i
      /\ Places(n + 1) \in Seq(1 .. n + 1) /\ Len(Places(n + 1)) = n + 1
      /\ \A i \in 1 .. n + 1 : Places(n + 1)[i] = i
  BY PlacesAre
<1>2. Sift(Places(n), chosen) \in Seq(1 .. n)
  BY <1>1, SiftKeeps
<1>3. PICK f : SiftsTo(f, Places(n), chosen, n) /\ Sift(Places(n), chosen) = f[n]
  BY <1>1, SiftRuns
<1>4. ASSUME NEW held, SameTo(n, chosen, held)
      PROVE  Sift(Places(n), chosen) = Sift(Places(n), held)
  <2>1. PICK g : SiftsTo(g, Places(n), held, n) /\ Sift(Places(n), held) = g[n]
    BY <1>1, SiftRuns
  <2>2. Alike(n, Places(n), chosen, Places(n), held)
    BY <1>1, <1>4 DEF Alike, SameTo
  <2>3. \A i \in 0 .. n : f[i] = g[i]
    BY <1>3, <2>1, <2>2, SiftAgrees
  <2> QED
    BY <1>3, <2>1, <2>3
<1>5. PICK g : SiftsTo(g, Places(n + 1), chosen, n + 1) /\ Sift(Places(n + 1), chosen) = g[n + 1]
  BY <1>1, SiftRuns
<1>6. f[n] = g[n]
  <2>1. Alike(n, Places(n), chosen, Places(n + 1), chosen)
    BY <1>1 DEF Alike
  <2>2. n + 1 \in Nat /\ n <= n + 1
    OBVIOUS
  <2>3. \A i \in 0 .. n : f[i] = g[i]
    BY <1>3, <1>5, <2>1, <2>2, SiftAgrees
  <2> QED
    BY <2>3
<1>7. g[n + 1] = SiftStep(Places(n + 1), chosen, g, n + 1)
  BY <1>5 DEF SiftsTo
<1>8. (n + 1) - 1 = n /\ n + 1 # 0 /\ Places(n + 1)[n + 1] = n + 1
  BY <1>1
<1>9. g[n + 1] = IF n + 1 \in chosen THEN Append(g[n], n + 1) ELSE g[n]
  BY <1>7, <1>8 DEF SiftStep
<1> QED
  BY <1>2, <1>3, <1>4, <1>5, <1>6, <1>9

\* What At picks is read off the places.
LEMMA AtIs ==
    ASSUME NEW T, NEW t \in Seq(T), NEW chosen
    PROVE  /\ At(t, chosen) \in Seq(T)
           /\ Len(At(t, chosen)) = Len(Sift(Places(Len(t)), chosen))
           /\ \A k \in 1 .. Len(At(t, chosen)) :
                 At(t, chosen)[k] = t[Sift(Places(Len(t)), chosen)[k]]
           /\ At(t, chosen) = [k \in 1 .. Len(Sift(Places(Len(t)), chosen)) |->
                                  t[Sift(Places(Len(t)), chosen)[k]]]
<1>1. PICK at : at = Sift(Places(Len(t)), chosen)
  OBVIOUS
<1>2. Len(t) \in Nat /\ DOMAIN t = 1 .. Len(t)
  OBVIOUS
<1>3. at \in Seq(1 .. Len(t))
  BY <1>1, <1>2, PlacesSifted
<1>4. DOMAIN at = 1 .. Len(at) /\ Len(at) \in Nat
  BY <1>3
<1>5. At(t, chosen) = [k \in 1 .. Len(at) |-> t[at[k]]]
  BY <1>1, <1>2, <1>4 DEF At, Places
<1>6. \A k \in 1 .. Len(at) : t[at[k]] \in T
  BY <1>2, <1>3
<1>7. At(t, chosen) \in [1 .. Len(at) -> T]
  BY <1>5, <1>6
<1>8. At(t, chosen) \in Seq(T) /\ Len(At(t, chosen)) = Len(at)
  BY <1>4, <1>7
<1> QED
  BY <1>1, <1>5, <1>8

LEMMA AtSame ==
    ASSUME NEW T, NEW t \in Seq(T), NEW chosen, NEW held,
           SameTo(Len(t), chosen, held)
    PROVE  At(t, chosen) = At(t, held)
<1>1. Sift(Places(Len(t)), chosen) = Sift(Places(Len(t)), held)
  BY PlacesSifted
<1> QED
  BY <1>1, AtIs

LEMMA AtNone ==
    ASSUME NEW T, NEW t \in Seq(T), NEW chosen, \A i \in 1 .. Len(t) : i \notin chosen
    PROVE  At(t, chosen) = <<>>
<1> DEFINE places == Places(Len(t))
           at == Sift(places, chosen)
<1>1. /\ Len(t) \in Nat /\ places \in Seq(1 .. Len(t)) /\ Len(places) = Len(t)
      /\ \A i \in 1 .. Len(t) : places[i] = i
  BY PlacesAre
<1> HIDE DEF places
<1>2. at \in Seq(1 .. Len(t)) /\ LeftOf(at, places, chosen, Len(t))
  BY <1>1, SiftKeeps
<1> HIDE DEF at
<1>3. PICK from : ComesFrom(at, places, chosen, Len(t), from)
  BY <1>2 DEF LeftOf
<1>4. \A i \in 1 .. Len(at) : FALSE
  BY <1>1, <1>3 DEF ComesFrom
<1>5. Len(at) \in Nat
  BY <1>2
<1>6. Len(at) = 0
  BY <1>4, <1>5
<1>7. At(t, chosen) \in Seq(T) /\ Len(At(t, chosen)) = 0
  BY <1>6, AtIs DEF at, places
<1> QED
  BY <1>7

\* Another element is picked, or not; the rest stays.
LEMMA AtGrows ==
    ASSUME NEW T, NEW t \in Seq(T), NEW x \in T, NEW chosen, NEW held,
           SameTo(Len(t), chosen, held)
    PROVE  At(Append(t, x), chosen) =
              IF Len(t) + 1 \in chosen THEN Append(At(t, held), x) ELSE At(t, held)
<1>1. PICK n \in Nat : n = Len(t)
  OBVIOUS
<1>2. PICK u : u = Append(t, x)
  OBVIOUS
<1>3. /\ u \in Seq(T) /\ Len(u) = n + 1 /\ u[n + 1] = x
      /\ \A i \in 1 .. n : u[i] = t[i]
  BY <1>1, <1>2
<1>4. PICK at : at = Sift(Places(n), chosen)
  OBVIOUS
<1>5. at \in Seq(1 .. n) /\ at = Sift(Places(n), held)
  BY <1>1, <1>4, PlacesSifted
<1>6. PICK rest : rest = At(t, held)
  OBVIOUS
<1>7. /\ rest \in Seq(T) /\ Len(rest) = Len(at)
      /\ \A k \in 1 .. Len(at) : rest[k] = t[at[k]]
      /\ rest = [k \in 1 .. Len(at) |-> t[at[k]]]
  BY <1>1, <1>5, <1>6, AtIs
<1>8. \A k \in 1 .. Len(at) : at[k] \in 1 .. n
  BY <1>5
<1>9. CASE n + 1 \in chosen
  <2>1. PICK more : more = Append(at, n + 1)
    OBVIOUS
  <2>2. Sift(Places(n + 1), chosen) = more
    BY <1>4, <1>9, <2>1, PlacesSifted
  <2>3. /\ more \in Seq(1 .. n + 1) /\ Len(more) = Len(at) + 1 /\ Len(at) \in Nat
        /\ more[Len(at) + 1] = n + 1
        /\ \A k \in 1 .. Len(at) : more[k] = at[k]
    BY <1>5, <2>1
  <2>4. At(u, chosen) = [k \in 1 .. Len(more) |-> u[more[k]]]
    BY <1>3, <2>2, AtIs
  <2>5. At(u, chosen) \in Seq(T) /\ Len(At(u, chosen)) = Len(more)
    BY <1>3, <2>2, AtIs
  <2>6. \A k \in 1 .. Len(more) : At(u, chosen)[k] = u[more[k]]
    BY <2>4
  <2>7. PICK whole : whole = Append(rest, x)
    OBVIOUS
  <2>8. /\ whole \in Seq(T) /\ Len(whole) = Len(at) + 1 /\ whole[Len(at) + 1] = x
        /\ \A k \in 1 .. Len(at) : whole[k] = t[at[k]]
    BY <1>7, <2>7
  <2>9. \A k \in 1 .. Len(more) : k \in 1 .. Len(at) \/ k = Len(at) + 1
    BY <2>3
  <2>10. \A k \in 1 .. Len(at) : u[more[k]] = whole[k]
    BY <1>3, <1>8, <2>3, <2>8
  <2>11. u[more[Len(at) + 1]] = whole[Len(at) + 1]
    BY <1>3, <2>3, <2>8
  <2>12. \A k \in 1 .. Len(more) : At(u, chosen)[k] = whole[k]
    BY <2>6, <2>9, <2>10, <2>11
  <2>13. At(u, chosen) = whole
    BY <2>3, <2>5, <2>8, <2>12
  <2> QED
    BY <1>1, <1>2, <1>6, <1>9, <2>7, <2>13
<1>10. CASE n + 1 \notin chosen
  <2>1. Sift(Places(n + 1), chosen) = at
    BY <1>4, <1>10, PlacesSifted
  <2>2. At(u, chosen) = [k \in 1 .. Len(at) |-> u[at[k]]]
    BY <1>3, <2>1, AtIs
  <2>3. \A k \in 1 .. Len(at) : u[at[k]] = t[at[k]]
    BY <1>3, <1>8
  <2>4. At(u, chosen) = rest
    BY <1>7, <2>2, <2>3
  <2> QED
    BY <1>1, <1>2, <1>6, <1>10, <2>4
<1> QED
  BY <1>9, <1>10

\* The last element alone.
LEMMA AtLast ==
    ASSUME NEW T, NEW t \in Seq(T), NEW n \in Nat, Len(t) = n + 1, NEW chosen
    PROVE  At(t, chosen) =
              IF n + 1 \in chosen THEN Append(At(t, chosen \ {n + 1}), t[n + 1])
              ELSE At(t, chosen \ {n + 1})
<1>1. PICK front, x : front \in Seq(T) /\ x \in T /\ t = Append(front, x) /\ Len(front) = n
                        /\ x = t[n + 1]
  <2>1. PICK front : front = [i \in 1 .. n |-> t[i]]
    OBVIOUS
  <2>2. \A i \in 1 .. n : t[i] \in T
    OBVIOUS
  <2>3. front \in Seq(T) /\ Len(front) = n
    BY <2>1, <2>2
  <2>4. t[n + 1] \in T
    OBVIOUS
  <2>5. PICK whole : whole = Append(front, t[n + 1])
    OBVIOUS
  <2>6. /\ whole \in Seq(T) /\ Len(whole) = n + 1 /\ whole[n + 1] = t[n + 1]
        /\ \A i \in 1 .. n : whole[i] = t[i]
    BY <2>1, <2>3, <2>4, <2>5
  <2>7. \A i \in 1 .. n + 1 : i \in 1 .. n \/ i = n + 1
    OBVIOUS
  <2>8. whole = t
    BY <2>6, <2>7
  <2> QED
    BY <2>3, <2>4, <2>5, <2>8
<1>2. At(Append(front, x), chosen) = IF n + 1 \in chosen THEN Append(At(front, chosen), x)
                                     ELSE At(front, chosen)
  <2>1. SameTo(Len(front), chosen, chosen) /\ front \in Seq(T) /\ x \in T
    BY <1>1 DEF SameTo
  <2>2. At(Append(front, x), chosen) = IF Len(front) + 1 \in chosen THEN Append(At(front, chosen), x)
                                       ELSE At(front, chosen)
    <3>1. PICK held : held = chosen
      OBVIOUS
    <3>2. SameTo(Len(front), chosen, held)
      BY <2>1, <3>1
    <3>3. At(Append(front, x), chosen) = IF Len(front) + 1 \in chosen THEN Append(At(front, held), x)
                                         ELSE At(front, held)
      BY <2>1, <3>2, AtGrows
    <3> QED
      BY <3>1, <3>3
  <2> QED
    BY <1>1, <2>2
<1>3. SameTo(n, chosen \ {n + 1}, chosen)
  BY DEF SameTo
<1>4. At(Append(front, x), chosen \ {n + 1}) = At(front, chosen)
  <2>1. n + 1 \notin chosen \ {n + 1}
    OBVIOUS
  <2> QED
    BY <1>1, <1>3, <2>1, AtGrows
<1> QED
  BY <1>1, <1>2, <1>4

LEMMA SymbolIs ==
    /\ \A x \in Symbol : /\ x.value \in Value
                         /\ x \in Ends <=> x.name \in {"cr", "lf"}
                         /\ x = CR <=> x.name = "cr"
                         /\ x = LF <=> x.name = "lf"
                         /\ x # NoLine
    /\ CR \in Ends /\ LF \in Ends /\ CR # LF
    /\ Ends \subseteq Symbol /\ Fields \subseteq Symbol
<1>1. ASSUME NEW x \in Fields
      PROVE  /\ x.value \in Value
             /\ x.name \in {"data", "event", "id", "retry", "comment", "unknown"}
  BY FramesAssumption DEF Value
<1>2. \A x \in Symbol : x \in Fields \/ x = CR \/ x = LF
  BY DEF Symbol, Ends
<1>3. /\ CR.name = "cr" /\ LF.name = "lf" /\ NoLine.name = "none"
      /\ CR.value \in Value /\ LF.value \in Value
  BY DEF CR, LF, NoLine, Value, Unset
<1>4. \A x \in Symbol : /\ x.value \in Value
                        /\ x = CR <=> x.name = "cr"
                        /\ x = LF <=> x.name = "lf"
                        /\ x # NoLine
  BY <1>1, <1>2, <1>3
<1> QED
  BY <1>3, <1>4 DEF Symbol, Ends

\* The lines of a field, at the places given.
Lines(t, name, places) == {i \in places \cap DOMAIN t : t[i].name = name}

ValuesOf(lines) == [k \in DOMAIN lines |-> lines[k].value]

LEMMA ValuesAre ==
    ASSUME NEW lines \in Seq(Symbol), NEW x \in Symbol
    PROVE  /\ ValuesOf(lines) \in Seq(Value) /\ Len(ValuesOf(lines)) = Len(lines)
           /\ ValuesOf(Append(lines, x)) = Append(ValuesOf(lines), x.value)
<1>1. Len(lines) \in Nat /\ DOMAIN lines = 1 .. Len(lines)
  OBVIOUS
<1>2. PICK old : old = ValuesOf(lines)
  OBVIOUS
<1>3. old = [k \in 1 .. Len(lines) |-> lines[k].value]
  BY <1>1, <1>2 DEF ValuesOf
<1>4. \A k \in 1 .. Len(lines) : lines[k].value \in Value
  BY SymbolIs
<1>5. old \in [1 .. Len(lines) -> Value]
  BY <1>3, <1>4
<1>6. old \in Seq(Value) /\ Len(old) = Len(lines)
  BY <1>1, <1>5
<1>7. PICK more : more = Append(lines, x)
  OBVIOUS
<1>8. /\ more \in Seq(Symbol) /\ Len(more) = Len(lines) + 1 /\ DOMAIN more = 1 .. Len(lines) + 1
      /\ more[Len(lines) + 1] = x
      /\ \A k \in 1 .. Len(lines) : more[k] = lines[k]
  BY <1>1, <1>7
<1>9. PICK new : new = Append(old, x.value)
  OBVIOUS
<1>10. /\ new \in Seq(Value) /\ Len(new) = Len(lines) + 1 /\ DOMAIN new = 1 .. Len(lines) + 1
       /\ new[Len(lines) + 1] = x.value
       /\ \A k \in 1 .. Len(lines) : new[k] = lines[k].value
  <2>1. x.value \in Value
    BY SymbolIs
  <2> QED
    BY <1>3, <1>6, <1>9, <2>1
<1>11. ValuesOf(more) = [k \in 1 .. Len(lines) + 1 |-> more[k].value]
  BY <1>8 DEF ValuesOf
<1>12. \A k \in 1 .. Len(lines) + 1 : k \in 1 .. Len(lines) \/ k = Len(lines) + 1
  BY <1>1
<1>13. \A k \in 1 .. Len(lines) + 1 : more[k].value = new[k]
  BY <1>8, <1>10, <1>12
<1>14. new = [k \in 1 .. Len(lines) + 1 |-> new[k]]
  BY <1>10
<1>15. ValuesOf(more) = new
  BY <1>11, <1>13, <1>14
<1> QED
  BY <1>2, <1>6, <1>7, <1>9, <1>15

LEMMA ValuesTyped ==
    ASSUME NEW t \in Seq(Symbol), NEW name, NEW places
    PROVE  /\ Values(t, name, places) = ValuesOf(At(t, Lines(t, name, places)))
           /\ At(t, Lines(t, name, places)) \in Seq(Symbol)
           /\ Values(t, name, places) \in Seq(Value)
<1>1. At(t, Lines(t, name, places)) \in Seq(Symbol)
  BY AtIs
<1>2. CR \in Symbol
  BY SymbolIs
<1>3. Values(t, name, places) = ValuesOf(At(t, Lines(t, name, places)))
  BY DEF Values, ValuesOf, Lines
<1> QED
  BY <1>1, <1>2, <1>3, ValuesAre

LEMMA ValuesGrow ==
    ASSUME NEW t \in Seq(Symbol), NEW x \in Symbol, NEW name, NEW places, NEW held,
           SameTo(Len(t), places, held)
    PROVE  Values(Append(t, x), name, places) =
              IF Len(t) + 1 \in places /\ x.name = name
                THEN Append(Values(t, name, held), x.value)
                ELSE Values(t, name, held)
<1>1. PICK n \in Nat : n = Len(t)
  OBVIOUS
<1>2. PICK u : u = Append(t, x)
  OBVIOUS
<1>3. /\ u \in Seq(Symbol) /\ DOMAIN u = 1 .. n + 1 /\ u[n + 1] = x
      /\ DOMAIN t = 1 .. n
      /\ \A i \in 1 .. n : u[i] = t[i]
  BY <1>1, <1>2
<1>4. PICK new, old : new = Lines(u, name, places) /\ old = Lines(t, name, held)
  OBVIOUS
<1>5. SameTo(n, new, old)
  BY <1>1, <1>3, <1>4 DEF SameTo, Lines
<1>6. n + 1 \in new <=> n + 1 \in places /\ x.name = name
  BY <1>3, <1>4 DEF Lines
<1>7. At(u, new) = IF n + 1 \in new THEN Append(At(t, old), x) ELSE At(t, old)
  BY <1>1, <1>2, <1>5, AtGrows
<1>8. At(t, old) \in Seq(Symbol)
  BY AtIs
<1>9. Values(u, name, places) = ValuesOf(At(u, new)) /\ Values(t, name, held) = ValuesOf(At(t, old))
  BY <1>3, <1>4, ValuesTyped
<1>10. CASE n + 1 \in new
  BY <1>1, <1>2, <1>6, <1>7, <1>8, <1>9, <1>10, ValuesAre
<1>11. CASE n + 1 \notin new
  BY <1>1, <1>2, <1>6, <1>7, <1>9, <1>11
<1> QED
  BY <1>10, <1>11

LEMMA ValuesLast ==
    ASSUME NEW t \in Seq(Symbol), NEW n \in Nat, Len(t) = n + 1, NEW name, NEW places
    PROVE  Values(t, name, places) =
              IF n + 1 \in places /\ t[n + 1].name = name
                THEN Append(Values(t, name, places \ {n + 1}), t[n + 1].value)
                ELSE Values(t, name, places \ {n + 1})
<1>1. DOMAIN t = 1 .. n + 1 /\ t[n + 1] \in Symbol
  OBVIOUS
<1>2. PICK all, but : all = Lines(t, name, places) /\ but = Lines(t, name, places \ {n + 1})
  OBVIOUS
<1>3. but = all \ {n + 1}
  BY <1>2 DEF Lines
<1>4. n + 1 \in all <=> n + 1 \in places /\ t[n + 1].name = name
  BY <1>1, <1>2 DEF Lines
<1>5. At(t, all) = IF n + 1 \in all THEN Append(At(t, but), t[n + 1]) ELSE At(t, but)
  BY <1>3, AtLast
<1>6. At(t, but) \in Seq(Symbol)
  BY AtIs
<1>7. /\ Values(t, name, places) = ValuesOf(At(t, all))
      /\ Values(t, name, places \ {n + 1}) = ValuesOf(At(t, but))
  BY <1>2, ValuesTyped
<1>8. CASE n + 1 \in all
  BY <1>1, <1>4, <1>5, <1>6, <1>7, <1>8, ValuesAre
<1>9. CASE n + 1 \notin all
  BY <1>4, <1>5, <1>7, <1>9
<1> QED
  BY <1>8, <1>9

LEMMA NoValues ==
    ASSUME NEW t \in Seq(Symbol), NEW name, NEW places, \A i \in 1 .. Len(t) : i \notin places
    PROVE  Values(t, name, places) = <<>>
<1>1. \A i \in 1 .. Len(t) : i \notin Lines(t, name, places)
  BY DEF Lines
<1>2. At(t, Lines(t, name, places)) = <<>>
  BY <1>1, AtNone
<1>3. ValuesOf(<<>>) = <<>>
  BY DEF ValuesOf
<1> QED
  BY <1>2, <1>3, ValuesTyped

-------------------------------------------------------------------------------
(* Event frames: what a text means as it grows                               *)

\* A field line that no terminator has ended yet.
Pending(t) == IF t # <<>> /\ t[Len(t)] \notin Ends THEN {Len(t)} ELSE {}

\* The lines of the frame that has not ended yet.
OpenFrame(t) == Frame(t, Len(t) + 1) \ Pending(t)

Dispatched == {"event", "data", "id", "retry"}

LEMMA BlanksGrow ==
    ASSUME NEW t \in Seq(Symbol), NEW x \in Symbol
    PROVE  /\ Blanks(t) \subseteq 1 .. Len(t)
           /\ Blanks(Append(t, x)) \subseteq 1 .. Len(t) + 1
           /\ \A i \in 1 .. Len(t) : i \in Blanks(Append(t, x)) <=> i \in Blanks(t)
           /\ Len(t) + 1 \in Blanks(Append(t, x)) <=>
                 x \in Ends /\ (Len(t) = 0 \/ t[Len(t)] \in Ends)
<1>1. PICK n \in Nat : n = Len(t)
  OBVIOUS
<1>2. PICK u : u = Append(t, x)
  OBVIOUS
<1>3. /\ DOMAIN u = 1 .. n + 1 /\ u[n + 1] = x /\ DOMAIN t = 1 .. n
      /\ \A i \in 1 .. n : u[i] = t[i]
  BY <1>1, <1>2
<1>4. Blanks(t) \subseteq 1 .. n /\ Blanks(u) \subseteq 1 .. n + 1
  BY <1>3 DEF Blanks
<1>5. ASSUME NEW i \in 1 .. n PROVE i \in Blanks(u) <=> i \in Blanks(t)
  <2>1. u[i] = t[i] /\ (i # 1 => u[i - 1] = t[i - 1])
    BY <1>3
  <2> QED
    BY <1>3, <2>1 DEF Blanks
<1>6. n + 1 \in Blanks(u) <=> x \in Ends /\ (n = 0 \/ t[n] \in Ends)
  <2>1. n # 0 => u[(n + 1) - 1] = t[n]
    BY <1>3
  <2>2. n + 1 = 1 <=> n = 0
    OBVIOUS
  <2> QED
    BY <1>3, <2>1, <2>2 DEF Blanks
<1> QED
  BY <1>1, <1>2, <1>4, <1>5, <1>6

\* Frames that end by the next place are what they were.
LEMMA FrameStays ==
    ASSUME NEW t \in Seq(Symbol), NEW x \in Symbol, NEW end \in 1 .. Len(t) + 1
    PROVE  Frame(Append(t, x), end) = Frame(t, end)
<1>1. \A b : b \in Blanks(Append(t, x)) => b \in Blanks(t) \/ b = Len(t) + 1
  BY BlanksGrow
<1>2. \A b : b \in Blanks(t) => b \in Blanks(Append(t, x))
  BY BlanksGrow
<1>3. end <= Len(t) + 1
  OBVIOUS
<1> QED
  BY <1>1, <1>2, <1>3 DEF Frame

\* A field that is not dispatched adds nothing to the values of those that are.
LEMMA EndsSayNothing ==
    ASSUME NEW t \in Seq(Symbol), NEW x \in Ends, NEW name \in Dispatched,
           NEW places, NEW held, SameTo(Len(t), places, held)
    PROVE  Values(Append(t, x), name, places) = Values(t, name, held)
<1>1. x \in Symbol /\ x.name # name
  BY SymbolIs DEF Dispatched
<1> QED
  BY <1>1, ValuesGrow

LEMMA LatestIs ==
    ASSUME NEW s \in Seq(Value)
    PROVE  /\ LatestOf(s) \in Value
           /\ \A v \in Value : LatestOf(Append(s, v)) = v
           /\ s # <<>> => LatestOf(s) = s[Len(s)] /\ Last(s) = s[Len(s)]
<1>1. Unset \in Value
  BY DEF Value
<1>2. s # <<>> => Len(s) \in 1 .. Len(s)
  OBVIOUS
<1>3. s # <<>> => LatestOf(s) = s[Len(s)] /\ Last(s) = s[Len(s)]
  BY DEF LatestOf, Last
<1>4. ASSUME NEW v \in Value PROVE LatestOf(Append(s, v)) = v
  <2>1. PICK more : more = Append(s, v)
    OBVIOUS
  <2>2. more # <<>> /\ more[Len(more)] = v
    BY <2>1
  <2> QED
    BY <2>1, <2>2 DEF LatestOf, Last
<1>5. LatestOf(s) \in Value
  <2>1. CASE s = <<>>
    BY <1>1, <2>1 DEF LatestOf
  <2>2. CASE s # <<>>
    BY <1>2, <1>3, <2>2
  <2> QED
    BY <2>1, <2>2
<1> QED
  BY <1>3, <1>4, <1>5

LEMMA EventTyped ==
    ASSUME NEW t \in Seq(Symbol), NEW end
    PROVE  /\ EventAt(t, end) \in Event
           /\ EventAt(t, end).data = Values(t, "data", Frame(t, end))
<1>1. PICK kinds : kinds = Values(t, "event", Frame(t, end))
  OBVIOUS
<1>2. PICK data, ids, retries :
         /\ data = Values(t, "data", Frame(t, end))
         /\ ids = Values(t, "id", 1 .. end)
         /\ retries = Values(t, "retry", Frame(t, end))
  OBVIOUS
<1>3. /\ kinds \in Seq(Value) /\ data \in Seq(Value) /\ ids \in Seq(Value)
      /\ retries \in Seq(Value)
  BY <1>1, <1>2, ValuesTyped
<1>4. LatestOf(ids) \in Value /\ LatestOf(retries) \in Value
  BY <1>3, LatestIs
<1>5. kinds # <<>> => Last(kinds) \in Value
  <2>1. kinds # <<>> => Len(kinds) \in 1 .. Len(kinds)
    BY <1>3
  <2> QED
    BY <1>3, <2>1, LatestIs
<1>6. (IF kinds = <<>> THEN <<"message">> ELSE <<Last(kinds)>>) \in Seq(Value \cup {"message"})
  <2>1. PICK kind : kind = IF kinds = <<>> THEN "message" ELSE Last(kinds)
    OBVIOUS
  <2>2. kind \in Value \cup {"message"}
    BY <1>5, <2>1
  <2>3. <<kind>> \in Seq(Value \cup {"message"})
    BY <2>2
  <2> QED
    BY <2>1, <2>3
<1>7. EventAt(t, end) = [kind  |-> IF kinds = <<>> THEN <<"message">> ELSE <<Last(kinds)>>,
                         data  |-> data, id |-> LatestOf(ids), retry |-> LatestOf(retries)]
  BY <1>1, <1>2 DEF EventAt
<1> QED
  BY <1>2, <1>3, <1>4, <1>6, <1>7 DEF Event

LEMMA EventStays ==
    ASSUME NEW t \in Seq(Symbol), NEW x \in Symbol, NEW end \in 1 .. Len(t)
    PROVE  EventAt(Append(t, x), end) = EventAt(t, end)
<1>1. PICK n \in Nat : n = Len(t)
  OBVIOUS
<1>2. Frame(Append(t, x), end) = Frame(t, end)
  <2>1. end \in 1 .. Len(t) + 1
    OBVIOUS
  <2> QED
    BY <2>1, FrameStays
<1>3. n + 1 \notin Frame(t, end) /\ n + 1 \notin 1 .. end
  BY <1>1 DEF Frame
<1>4. SameTo(n, Frame(t, end), Frame(t, end)) /\ SameTo(n, 1 .. end, 1 .. end)
  BY DEF SameTo
<1>5. PICK frame, before : frame = Frame(t, end) /\ before = 1 .. end
  OBVIOUS
<1>6. \A name : /\ Values(Append(t, x), name, frame) = Values(t, name, frame)
                /\ Values(Append(t, x), name, before) = Values(t, name, before)
  BY <1>1, <1>3, <1>4, <1>5, ValuesGrow
<1> QED
  BY <1>2, <1>5, <1>6 DEF EventAt

LEMMA MeaningGrows ==
    ASSUME NEW t \in Seq(Symbol), NEW x \in Symbol
    PROVE  Meaning(Append(t, x)) =
              IF /\ Len(t) + 1 \in Blanks(Append(t, x))
                 /\ EventAt(Append(t, x), Len(t) + 1).data # <<>>
                THEN Append(Meaning(t), EventAt(Append(t, x), Len(t) + 1))
                ELSE Meaning(t)
<1>1. PICK n \in Nat : n = Len(t)
  OBVIOUS
<1>2. PICK u : u = Append(t, x)
  OBVIOUS
<1>3. u \in Seq(Symbol) /\ DOMAIN u = 1 .. n + 1 /\ DOMAIN t = 1 .. n
  BY <1>1, <1>2
<1>4. PICK old : old = [i \in 1 .. n |-> EventAt(t, i)]
  OBVIOUS
<1>5. PICK e : e = EventAt(u, n + 1)
  OBVIOUS
<1>6. old \in Seq(Event) /\ Len(old) = n /\ e \in Event
  <2>1. \A i \in 1 .. n : EventAt(t, i) \in Event
    BY EventTyped
  <2>2. old \in [1 .. n -> Event]
    BY <1>4, <2>1
  <2> QED
    BY <1>3, <1>5, <2>2, EventTyped
<1>7. PICK new : new = Append(old, e)
  OBVIOUS
<1>8. new = [i \in 1 .. n + 1 |-> EventAt(u, i)]
  <2>1. /\ new \in Seq(Event) /\ Len(new) = n + 1 /\ new[n + 1] = e
        /\ \A i \in 1 .. n : new[i] = EventAt(t, i)
    BY <1>4, <1>6, <1>7
  <2>2. \A i \in 1 .. n : EventAt(u, i) = EventAt(t, i)
    BY <1>1, <1>2, EventStays
  <2>3. \A i \in 1 .. n + 1 : i \in 1 .. n \/ i = n + 1
    OBVIOUS
  <2>4. \A i \in 1 .. n + 1 : new[i] = EventAt(u, i)
    BY <1>5, <2>1, <2>2, <2>3
  <2>5. new = [i \in 1 .. n + 1 |-> new[i]]
    BY <2>1
  <2> QED
    BY <2>4, <2>5
<1>9. PICK some, more : /\ some = {i \in Blanks(t) : EventAt(t, i).data # <<>>}
                        /\ more = {i \in Blanks(u) : EventAt(u, i).data # <<>>}
  OBVIOUS
<1>10. SameTo(n, more, some)
  <2>1. \A i \in 1 .. n : EventAt(u, i) = EventAt(t, i) /\ (i \in Blanks(u) <=> i \in Blanks(t))
    BY <1>1, <1>2, EventStays, BlanksGrow
  <2> QED
    BY <1>9, <2>1 DEF SameTo
<1>11. At(new, more) = IF n + 1 \in more THEN Append(At(old, some), e) ELSE At(old, some)
  BY <1>6, <1>7, <1>10, AtGrows
<1>12. Meaning(u) = At(new, more) /\ Meaning(t) = At(old, some)
  BY <1>3, <1>4, <1>8, <1>9 DEF Meaning
<1>13. n + 1 \in more <=> n + 1 \in Blanks(u) /\ e.data # <<>>
  BY <1>5, <1>9
<1> QED
  BY <1>1, <1>2, <1>5, <1>11, <1>12, <1>13

-------------------------------------------------------------------------------
(* Event frames: the parser keeps up with the text                           *)

PlainOf(s) == At(s, {i \in DOMAIN s : ~(s[i] = LF /\ i > 1 /\ s[i - 1] = CR)})

EndsInCR(s) == s # <<>> /\ s[Len(s)] = CR

OneKindIn(t) ==
    \A i, j \in DOMAIN t :
       (i < j /\ \A k \in {i, j} : t[k] \notin Ends /\ t[k].name = "event")
          => \E b \in Blanks(t) : i < b /\ b < j

\* What the parser holds is what the text says behind its last blank line.
Holds(t, p) ==
    /\ p.line = IF t # <<>> /\ t[Len(t)] \notin Ends THEN t[Len(t)] ELSE NoLine
    /\ p.data = Values(t, "data", OpenFrame(t))
    /\ p.kind = Values(t, "event", OpenFrame(t))
    /\ p.retry = LatestOf(Values(t, "retry", OpenFrame(t)))
    /\ p.id = LatestOf(Values(t, "id", (1 .. Len(t)) \ Pending(t)))

LEMMA PlainGrows ==
    ASSUME NEW s \in Seq(Symbol), NEW x \in Symbol
    PROVE  /\ PlainOf(s) \in Seq(Symbol)
           /\ PlainOf(Append(s, x)) =
                 IF x = LF /\ EndsInCR(s) THEN PlainOf(s) ELSE Append(PlainOf(s), x)
           /\ EndsInCR(Append(s, x)) <=> x = CR
<1>1. PICK n \in Nat : n = Len(s)
  OBVIOUS
<1>2. PICK u : u = Append(s, x)
  OBVIOUS
<1>3. /\ DOMAIN u = 1 .. n + 1 /\ u[n + 1] = x /\ DOMAIN s = 1 .. n
      /\ \A i \in 1 .. n : u[i] = s[i]
      /\ u # <<>> /\ Len(u) = n + 1
  BY <1>1, <1>2
<1>4. PICK old, new :
         /\ old = {i \in DOMAIN s : ~(s[i] = LF /\ i > 1 /\ s[i - 1] = CR)}
         /\ new = {i \in DOMAIN u : ~(u[i] = LF /\ i > 1 /\ u[i - 1] = CR)}
  OBVIOUS
<1>5. SameTo(n, new, old)
  <2>1. ASSUME NEW i \in 1 .. n PROVE i \in new <=> i \in old
    <3>1. u[i] = s[i] /\ (i > 1 => u[i - 1] = s[i - 1])
      BY <1>3
    <3> QED
      BY <1>3, <1>4, <3>1
  <2> QED
    BY <2>1 DEF SameTo
<1>6. n + 1 \in new <=> ~(x = LF /\ EndsInCR(s))
  <2>1. n > 0 => u[(n + 1) - 1] = s[n]
    BY <1>3
  <2>2. EndsInCR(s) <=> n > 0 /\ s[n] = CR
    BY <1>1 DEF EndsInCR
  <2> QED
    BY <1>3, <1>4, <2>1, <2>2
<1>7. At(u, new) = IF n + 1 \in new THEN Append(At(s, old), x) ELSE At(s, old)
  BY <1>1, <1>2, <1>5, AtGrows
<1>8. At(s, old) \in Seq(Symbol)
  BY AtIs
<1>9. PlainOf(s) = At(s, old) /\ PlainOf(u) = At(u, new)
  BY <1>4 DEF PlainOf
<1>10. EndsInCR(u) <=> x = CR
  BY <1>3 DEF EndsInCR
<1> QED
  BY <1>2, <1>6, <1>7, <1>8, <1>9, <1>10

\* A field line arrives.
LEMMA FieldHeld ==
    ASSUME NEW t \in Seq(Symbol), NEW p \in Parser, Holds(t, p),
           NEW x \in Fields, p.line = NoLine
    PROVE  /\ Holds(Append(t, x), [p EXCEPT !.line = x, !.sawCr = FALSE])
           /\ Meaning(Append(t, x)) = Meaning(t)
<1>1. PICK n \in Nat : n = Len(t)
  OBVIOUS
<1>2. PICK u : u = Append(t, x)
  OBVIOUS
<1>3. x \in Symbol /\ x \notin Ends
  <2>1. x \in Symbol /\ x.name \in {"data", "event", "id", "retry", "comment", "unknown"}
    BY SymbolIs, FramesAssumption
  <2> QED
    BY <2>1, SymbolIs
<1>4. u \in Seq(Symbol) /\ Len(u) = n + 1 /\ u[n + 1] = x /\ u # <<>>
  BY <1>1, <1>2, <1>3
<1>5. Pending(t) = {} /\ Pending(u) = {n + 1}
  <2>1. t # <<>> => t[n] \in Symbol
    BY <1>1
  <2>2. ~(t # <<>> /\ t[n] \notin Ends)
    BY <1>1, <2>1, SymbolIs DEF Holds
  <2> QED
    BY <1>1, <1>3, <1>4, <2>2 DEF Pending
<1>6. n + 1 \notin Blanks(u)
  BY <1>1, <1>2, <1>3, BlanksGrow
<1>7. \A b : b \in Blanks(u) <=> b \in Blanks(t)
  BY <1>1, <1>2, <1>3, <1>6, BlanksGrow
<1>8. \A b \in Blanks(t) : b \in Nat /\ b <= n
  BY <1>1, <1>3, BlanksGrow
<1>9. SameTo(n, OpenFrame(u), OpenFrame(t)) /\ n + 1 \notin OpenFrame(u)
  <2>1. \A i \in 1 .. n : i \in Frame(u, n + 2) <=> i \in Frame(t, n + 1)
    BY <1>7, <1>8 DEF Frame
  <2>2. OpenFrame(u) = Frame(u, n + 2) \ {n + 1} /\ OpenFrame(t) = Frame(t, n + 1)
    BY <1>1, <1>4, <1>5 DEF OpenFrame
  <2> QED
    BY <2>1, <2>2 DEF SameTo
<1>10. PICK frame, seen, behind, known :
          /\ frame = OpenFrame(u) /\ seen = OpenFrame(t)
          /\ behind = (1 .. n + 1) \ Pending(u) /\ known = (1 .. n) \ Pending(t)
  OBVIOUS
<1>11. SameTo(n, behind, known) /\ n + 1 \notin behind
  BY <1>5, <1>10 DEF SameTo
<1>12. \A name : /\ Values(u, name, frame) = Values(t, name, seen)
                 /\ Values(u, name, behind) = Values(t, name, known)
  BY <1>1, <1>2, <1>3, <1>9, <1>10, <1>11, ValuesGrow
<1>13. PICK q : q = [p EXCEPT !.line = x, !.sawCr = FALSE]
  OBVIOUS
<1>14. q.line = x /\ q.data = p.data /\ q.kind = p.kind /\ q.retry = p.retry /\ q.id = p.id
  BY <1>13 DEF Parser
<1>15. Holds(u, q)
  BY <1>1, <1>3, <1>4, <1>10, <1>12, <1>14 DEF Holds
<1>16. Meaning(u) = Meaning(t)
  BY <1>1, <1>2, <1>3, <1>6, MeaningGrows
<1> QED
  BY <1>2, <1>13, <1>15, <1>16

\* A line ends.
LEMMA LineHeld ==
    ASSUME NEW t \in Seq(Symbol), NEW p \in Parser, Holds(t, p),
           NEW x \in Ends, p.line # NoLine
    PROVE  /\ Holds(Append(t, x), ConsumeLine(p).parser) /\ ConsumeLine(p).events = <<>>
           /\ ConsumeLine(p).parser.sawCr = p.sawCr
           /\ Meaning(Append(t, x)) = Meaning(t)
<1>1. PICK n \in Nat : n = Len(t)
  OBVIOUS
<1>2. PICK u : u = Append(t, x)
  OBVIOUS
<1>3. x \in Symbol
  BY SymbolIs
<1>4. u \in Seq(Symbol) /\ Len(u) = n + 1 /\ u[n + 1] = x /\ u # <<>>
  BY <1>1, <1>2, <1>3
<1>5. /\ t # <<>> /\ p.line = t[n] /\ t[n] \notin Ends /\ n \in 1 .. n /\ n - 1 \in Nat
      /\ (n - 1) + 1 = n /\ t[n] \in Symbol
  BY <1>1 DEF Holds
<1>6. Pending(t) = {n} /\ Pending(u) = {}
  BY <1>1, <1>4, <1>5 DEF Pending
<1>7. n + 1 \notin Blanks(u) /\ n \notin Blanks(t)
  <2>1. n \notin Blanks(t)
    BY <1>5 DEF Blanks
  <2> QED
    BY <1>1, <1>2, <1>3, <1>5, <2>1, BlanksGrow
<1>8. \A b : b \in Blanks(u) <=> b \in Blanks(t)
  BY <1>1, <1>2, <1>3, <1>7, BlanksGrow
<1>9. \A b \in Blanks(t) : b \in Nat /\ b < n
  BY <1>1, <1>3, <1>7, BlanksGrow
<1>10. SameTo(n, OpenFrame(u), Frame(t, n + 1)) /\ OpenFrame(t) = Frame(t, n + 1) \ {n}
       /\ n \in Frame(t, n + 1)
  <2>1. \A i \in 1 .. n : i \in Frame(u, n + 2) <=> i \in Frame(t, n + 1)
    BY <1>8, <1>9 DEF Frame
  <2>2. OpenFrame(u) = Frame(u, n + 2) /\ OpenFrame(t) = Frame(t, n + 1) \ {n}
    BY <1>1, <1>4, <1>6 DEF OpenFrame
  <2>3. n \in Frame(t, n + 1)
    BY <1>5, <1>9 DEF Frame
  <2> QED
    BY <2>1, <2>2, <2>3 DEF SameTo
<1>11. PICK frame, seen, open : frame = OpenFrame(u) /\ seen = Frame(t, n + 1) /\ open = OpenFrame(t)
  OBVIOUS
<1>12. \A name \in Dispatched :
          Values(u, name, frame) = IF t[n].name = name THEN Append(Values(t, name, open), t[n].value)
                                   ELSE Values(t, name, open)
  <2>1. ASSUME NEW name \in Dispatched PROVE Values(u, name, frame) = Values(t, name, seen)
    BY <1>1, <1>2, <1>10, <1>11, <2>1, EndsSayNothing
  <2>2. \A name : Values(t, name, seen) =
                     IF n \in seen /\ t[n].name = name
                       THEN Append(Values(t, name, seen \ {n}), t[n].value)
                       ELSE Values(t, name, seen \ {n})
    <3>1. PICK m \in Nat : Len(t) = m + 1 /\ m + 1 = n
      BY <1>1, <1>5
    <3>2. \A name : Values(t, name, seen) =
                       IF m + 1 \in seen /\ t[m + 1].name = name
                         THEN Append(Values(t, name, seen \ {m + 1}), t[m + 1].value)
                         ELSE Values(t, name, seen \ {m + 1})
      BY <3>1, ValuesLast
    <3> QED
      BY <3>1, <3>2
  <2> QED
    BY <1>10, <1>11, <2>1, <2>2
<1>13. PICK all, but : all = 1 .. n + 1 /\ but = (1 .. n) \ {n}
  OBVIOUS
<1>14. Values(u, "id", all) = IF t[n].name = "id" THEN Append(Values(t, "id", but), t[n].value)
                              ELSE Values(t, "id", but)
  <2>1. PICK before : before = 1 .. n
    OBVIOUS
  <2>2. SameTo(n, all, before) /\ "id" \in Dispatched
    BY <1>13, <2>1 DEF SameTo, Dispatched
  <2>3. Values(u, "id", all) = Values(t, "id", before)
    BY <1>1, <1>2, <2>2, EndsSayNothing
  <2>4. Values(t, "id", before) = IF n \in before /\ t[n].name = "id"
                                    THEN Append(Values(t, "id", before \ {n}), t[n].value)
                                    ELSE Values(t, "id", before \ {n})
    <3>1. PICK m \in Nat : Len(t) = m + 1 /\ m + 1 = n
      BY <1>1, <1>5
    <3>2. PICK name : name = "id"
      OBVIOUS
    <3>3. Values(t, name, before) = IF m + 1 \in before /\ t[m + 1].name = name
                                      THEN Append(Values(t, name, before \ {m + 1}), t[m + 1].value)
                                      ELSE Values(t, name, before \ {m + 1})
      BY <3>1, ValuesLast
    <3> QED
      BY <3>1, <3>2, <3>3
  <2> QED
    BY <1>5, <1>13, <2>1, <2>3, <2>4
<1>15. t[n].value \in Value
  BY <1>5, SymbolIs
<1>16. \A name : Values(t, name, open) \in Seq(Value) /\ Values(t, name, but) \in Seq(Value)
  BY ValuesTyped
<1>17. LatestOf(Values(u, "id", all)) = IF t[n].name = "id" THEN t[n].value
                                        ELSE LatestOf(Values(t, "id", but))
  <2>1. PICK ids : ids = Values(t, "id", but)
    OBVIOUS
  <2>2. LatestOf(Append(ids, t[n].value)) = t[n].value
    BY <1>15, <1>16, <2>1, LatestIs
  <2> QED
    BY <1>14, <2>1, <2>2
<1>18. LatestOf(Values(u, "retry", frame)) = IF t[n].name = "retry" THEN t[n].value
                                             ELSE LatestOf(Values(t, "retry", open))
  <2>1. "retry" \in Dispatched
    BY DEF Dispatched
  <2>2. PICK retries : retries = Values(t, "retry", open)
    OBVIOUS
  <2>3. LatestOf(Append(retries, t[n].value)) = t[n].value
    BY <1>15, <1>16, <2>2, LatestIs
  <2> QED
    BY <1>12, <2>1, <2>2, <2>3
<1>19. /\ p.data = Values(t, "data", open) /\ p.kind = Values(t, "event", open)
       /\ p.retry = LatestOf(Values(t, "retry", open)) /\ p.id = LatestOf(Values(t, "id", but))
  BY <1>1, <1>6, <1>11, <1>13 DEF Holds
<1>20. PICK q : q = ConsumeLine(p).parser
  OBVIOUS
<1>21. /\ ConsumeLine(p).events = <<>>
       /\ q = LET r == [p EXCEPT !.line = NoLine] IN
                 CASE t[n].name = "event" -> [r EXCEPT !.kind = Append(@, t[n].value)]
                   [] t[n].name = "data" -> [r EXCEPT !.data = Append(@, t[n].value)]
                   [] t[n].name = "id" -> [r EXCEPT !.id = t[n].value]
                   [] t[n].name = "retry" -> [r EXCEPT !.retry = t[n].value]
                   [] OTHER -> r
  BY <1>5, <1>20 DEF ConsumeLine
<1>22. /\ q.line = NoLine /\ q.sawCr = p.sawCr
       /\ q.data = IF t[n].name = "data" THEN Append(p.data, t[n].value) ELSE p.data
       /\ q.kind = IF t[n].name = "event" THEN Append(p.kind, t[n].value) ELSE p.kind
       /\ q.retry = IF t[n].name = "retry" THEN t[n].value ELSE p.retry
       /\ q.id = IF t[n].name = "id" THEN t[n].value ELSE p.id
  BY <1>21 DEF Parser
<1>23. /\ q.data = Values(u, "data", frame) /\ q.kind = Values(u, "event", frame)
       /\ q.retry = LatestOf(Values(u, "retry", frame)) /\ q.id = LatestOf(Values(u, "id", all))
  BY <1>12, <1>17, <1>18, <1>19, <1>22 DEF Dispatched
<1>24. (1 .. Len(u)) \ Pending(u) = all
  BY <1>4, <1>6, <1>13
<1>25. Holds(u, q)
  BY <1>4, <1>11, <1>22, <1>23, <1>24 DEF Holds
<1>26. Meaning(u) = Meaning(t)
  BY <1>1, <1>2, <1>3, <1>7, MeaningGrows
<1> QED
  BY <1>2, <1>20, <1>21, <1>22, <1>25, <1>26

LEMMA ConsumeTyped ==
    ASSUME NEW p \in Parser
    PROVE  ConsumeLine(p).parser \in Parser /\ ConsumeLine(p).events \in Seq(Event)
<1>1. PICK q : q = [p EXCEPT !.line = NoLine]
  OBVIOUS
<1>2. /\ q \in Parser /\ q.kind = p.kind /\ q.data = p.data /\ q.id = p.id /\ q.retry = p.retry
  BY <1>1 DEF Parser
<1>3. Unset \in Value /\ <<>> \in Seq(Value)
  BY DEF Value
<1>4. CASE p.line = NoLine
  <2>1. /\ ConsumeLine(p).parser = [q EXCEPT !.kind = <<>>, !.data = <<>>, !.retry = Unset]
        /\ ConsumeLine(p).events =
              IF p.data = <<>> THEN <<>>
              ELSE <<[kind |-> IF p.kind = <<>> THEN <<"message">> ELSE p.kind,
                      data |-> p.data, id |-> p.id, retry |-> p.retry]>>
    BY <1>1, <1>2, <1>4 DEF ConsumeLine, Dispatch
  <2>2. ConsumeLine(p).parser \in Parser
    BY <1>2, <1>3, <2>1 DEF Parser
  <2>3. PICK kind : kind = IF p.kind = <<>> THEN <<"message">> ELSE p.kind
    OBVIOUS
  <2>4. kind \in Seq(Value \cup {"message"})
    <3>1. p.kind \in Seq(Value)
      BY DEF Parser
    <3>2. <<"message">> \in Seq(Value \cup {"message"})
      OBVIOUS
    <3>3. p.kind \in Seq(Value \cup {"message"})
      BY <3>1
    <3> QED
      BY <2>3, <3>2, <3>3
  <2>5. PICK event : event = [kind |-> kind, data |-> p.data, id |-> p.id, retry |-> p.retry]
    OBVIOUS
  <2>6. event \in Event
    BY <2>4, <2>5 DEF Event, Parser
  <2>7. <<>> \in Seq(Event) /\ <<event>> \in Seq(Event)
    BY <2>6
  <2>8. ConsumeLine(p).events = IF p.data = <<>> THEN <<>> ELSE <<event>>
    BY <2>1, <2>3, <2>5
  <2> QED
    BY <2>2, <2>7, <2>8
<1>5. CASE p.line # NoLine
  <2>1. PICK f : f = p.line
    OBVIOUS
  <2>2. f \in Fields /\ f.value \in Value
    BY <1>5, <2>1 DEF Parser, Value
  <2>3. /\ ConsumeLine(p).events = <<>>
        /\ ConsumeLine(p).parser =
              CASE f.name = "event" -> [q EXCEPT !.kind = Append(@, f.value)]
                [] f.name = "data" -> [q EXCEPT !.data = Append(@, f.value)]
                [] f.name = "id" -> [q EXCEPT !.id = f.value]
                [] f.name = "retry" -> [q EXCEPT !.retry = f.value]
                [] OTHER -> q
    BY <1>1, <1>5, <2>1 DEF ConsumeLine
  <2>4. Append(q.kind, f.value) \in Seq(Value) /\ Append(q.data, f.value) \in Seq(Value)
    <3>1. q.kind \in Seq(Value) /\ q.data \in Seq(Value)
      BY <1>2 DEF Parser
    <3> QED
      BY <2>2, <3>1
  <2>5. /\ [q EXCEPT !.kind = Append(@, f.value)] \in Parser
        /\ [q EXCEPT !.data = Append(@, f.value)] \in Parser
        /\ [q EXCEPT !.id = f.value] \in Parser /\ [q EXCEPT !.retry = f.value] \in Parser
    BY <1>2, <2>2, <2>4 DEF Parser
  <2>6. ConsumeLine(p).parser \in Parser
    BY <1>2, <2>3, <2>5
  <2> QED
    BY <2>3, <2>6
<1> QED
  BY <1>4, <1>5

\* Where no frame has two event fields, the open one has at most one.
LEMMA OneKindIs ==
    ASSUME NEW t \in Seq(Symbol), OneKindIn(t)
    PROVE  Len(Values(t, "event", Frame(t, Len(t) + 1))) <= 1
<1>1. PICK n \in Nat : n = Len(t)
  OBVIOUS
<1>2. DOMAIN t = 1 .. n
  BY <1>1
<1>3. PICK chosen : chosen = Lines(t, "event", Frame(t, n + 1))
  OBVIOUS
<1>4. PICK at : at = Sift(Places(n), chosen)
  OBVIOUS
<1>5. at \in Seq(1 .. n) /\ LeftOf(at, Places(n), chosen, n)
  <2>1. Places(n) \in Seq(1 .. n) /\ Len(Places(n)) = n
    BY PlacesAre
  <2> QED
    BY <1>4, <2>1, SiftKeeps
<1>6. PICK from : ComesFrom(at, Places(n), chosen, n, from)
  BY <1>5 DEF LeftOf
<1>7. \A i \in 1 .. Len(at) : from[i] \in 1 .. n /\ at[i] = from[i] /\ at[i] \in chosen
  <2>1. \A i \in 1 .. n : Places(n)[i] = i
    BY PlacesAre
  <2>2. \A i \in 1 .. Len(at) : from[i] \in 1 .. n
    BY <1>6 DEF ComesFrom
  <2>3. \A i \in 1 .. Len(at) : at[i] = Places(n)[from[i]] /\ Places(n)[from[i]] \in chosen
    BY <1>6 DEF ComesFrom
  <2> QED
    BY <2>1, <2>2, <2>3
<1>8. Len(at) \in Nat
  BY <1>5
<1>9. ASSUME Len(at) >= 2 PROVE FALSE
  <2>1. 1 \in 1 .. Len(at) /\ 2 \in 1 .. Len(at)
    BY <1>8, <1>9
  <2>2. PICK i, j : i = at[1] /\ j = at[2]
    OBVIOUS
  <2>3. i \in 1 .. n /\ j \in 1 .. n /\ i \in chosen /\ j \in chosen
    BY <1>7, <2>1, <2>2
  <2>4. i < j
    <3>1. from[1] < from[2]
      BY <1>6, <2>1 DEF ComesFrom
    <3> QED
      BY <1>7, <2>1, <2>2, <3>1
  <2>5. \A k \in {i, j} : t[k] \notin Ends /\ t[k].name = "event"
    <3>1. t[i].name = "event" /\ t[j].name = "event"
      BY <1>3, <2>3 DEF Lines
    <3>2. t[i] \in Symbol /\ t[j] \in Symbol
      BY <1>1, <2>3
    <3>3. t[i] \notin Ends /\ t[j] \notin Ends
      BY <3>1, <3>2, SymbolIs
    <3> QED
      BY <3>1, <3>3
  <2>6. PICK b \in Blanks(t) : i < b /\ b < j
    BY <1>2, <2>3, <2>4, <2>5 DEF OneKindIn
  <2>7. b \in 1 .. n
    BY <1>2, <2>6 DEF Blanks
  <2>8. b < i \/ n + 1 <= b
    BY <1>3, <2>3, <2>6 DEF Lines, Frame
  <2> QED
    BY <2>3, <2>6, <2>7, <2>8
<1>10. Len(at) <= 1
  BY <1>8, <1>9
<1>11. Len(At(t, chosen)) = Len(at)
  BY <1>1, <1>4, AtIs
<1>12. Len(Values(t, "event", Frame(t, n + 1))) = Len(At(t, chosen))
  <2>1. PICK lines : lines = At(t, chosen)
    OBVIOUS
  <2>2. lines \in Seq(Symbol) /\ Values(t, "event", Frame(t, n + 1)) = ValuesOf(lines)
    BY <1>3, <2>1, ValuesTyped
  <2>3. CR \in Symbol
    BY SymbolIs
  <2> QED
    BY <2>1, <2>2, <2>3, ValuesAre
<1> QED
  BY <1>1, <1>10, <1>11, <1>12

LEMMA OneKindWas ==
    ASSUME NEW t \in Seq(Symbol), NEW x \in Symbol, OneKindIn(Append(t, x))
    PROVE  OneKindIn(t)
<1>1. PICK n \in Nat : n = Len(t)
  OBVIOUS
<1>2. PICK u : u = Append(t, x)
  OBVIOUS
<1>3. DOMAIN u = 1 .. n + 1 /\ DOMAIN t = 1 .. n /\ \A i \in 1 .. n : u[i] = t[i]
  BY <1>1, <1>2
<1>4. SUFFICES ASSUME NEW i \in 1 .. n, NEW j \in 1 .. n, i < j,
                      \A k \in {i, j} : t[k] \notin Ends /\ t[k].name = "event"
               PROVE  \E b \in Blanks(t) : i < b /\ b < j
  BY <1>3 DEF OneKindIn
<1>5. \A k \in {i, j} : u[k] \notin Ends /\ u[k].name = "event"
  BY <1>3, <1>4
<1>6. PICK b \in Blanks(u) : i < b /\ b < j
  <2>1. i \in DOMAIN u /\ j \in DOMAIN u
    BY <1>3
  <2> QED
    BY <1>2, <1>4, <1>5, <2>1 DEF OneKindIn
<1>7. b \in 1 .. n
  <2>1. b \in 1 .. n + 1
    BY <1>3 DEF Blanks
  <2> QED
    BY <1>6, <2>1
<1>8. b \in Blanks(t)
  BY <1>1, <1>2, <1>7, BlanksGrow
<1> QED
  BY <1>6, <1>8

\* A blank line: the frame ends, and the next one has nothing yet.
LEMMA BlankHeld ==
    ASSUME NEW t \in Seq(Symbol), NEW p \in Parser, Holds(t, p),
           NEW x \in Ends, p.line = NoLine
    PROVE  /\ Holds(Append(t, x), ConsumeLine(p).parser)
           /\ ConsumeLine(p).parser.sawCr = p.sawCr
           /\ OneKindIn(t) => Meaning(Append(t, x)) = Meaning(t) \o ConsumeLine(p).events
<1>1. PICK n \in Nat : n = Len(t)
  OBVIOUS
<1>2. PICK u : u = Append(t, x)
  OBVIOUS
<1>3. x \in Symbol
  BY SymbolIs
<1>4. u \in Seq(Symbol) /\ Len(u) = n + 1 /\ u[n + 1] = x /\ u # <<>>
  BY <1>1, <1>2, <1>3
<1>5. (n = 0 \/ t[n] \in Ends) /\ Pending(t) = {} /\ Pending(u) = {}
  <2>1. t # <<>> => t[n] \in Symbol
    BY <1>1
  <2>2. ~(t # <<>> /\ t[n] \notin Ends)
    BY <1>1, <2>1, SymbolIs DEF Holds
  <2>3. t = <<>> => n = 0
    BY <1>1
  <2> QED
    BY <1>1, <1>4, <2>2, <2>3 DEF Pending
<1>6. n + 1 \in Blanks(u)
  BY <1>1, <1>2, <1>3, <1>5, BlanksGrow
<1>7. \A i \in 1 .. n + 1 : i \notin OpenFrame(u)
  <2>1. OpenFrame(u) = Frame(u, n + 2)
    BY <1>4, <1>5 DEF OpenFrame
  <2> QED
    BY <1>6, <2>1 DEF Frame
<1>8. PICK frame, seen : frame = OpenFrame(u) /\ seen = OpenFrame(t)
  OBVIOUS
<1>9. \A name : Values(u, name, frame) = <<>>
  BY <1>4, <1>7, <1>8, NoValues
<1>10. seen = Frame(t, n + 1) /\ Frame(u, n + 1) = seen
  <2>1. seen = Frame(t, n + 1)
    BY <1>1, <1>5, <1>8 DEF OpenFrame
  <2>2. n + 1 \in 1 .. Len(t) + 1 /\ n + 1 = Len(t) + 1
    BY <1>1
  <2>3. Frame(u, n + 1) = Frame(t, n + 1)
    BY <1>2, <1>3, <2>2, FrameStays
  <2> QED
    BY <2>1, <2>3
<1>11. \A name \in Dispatched : Values(u, name, seen) = Values(t, name, seen)
  <2>1. SameTo(n, seen, seen)
    BY DEF SameTo
  <2>2. PICK held : held = seen
    OBVIOUS
  <2>3. \A name \in Dispatched : Values(u, name, seen) = Values(t, name, held)
    BY <1>1, <1>2, <2>1, <2>2, EndsSayNothing
  <2> QED
    BY <2>2, <2>3
<1>12. PICK all, known : all = 1 .. n + 1 /\ known = 1 .. n
  OBVIOUS
<1>13. Values(u, "id", all) = Values(t, "id", known)
  <2>1. SameTo(n, all, known) /\ "id" \in Dispatched
    BY <1>12 DEF SameTo, Dispatched
  <2> QED
    BY <1>1, <1>2, <2>1, EndsSayNothing
<1>14. /\ p.data = Values(t, "data", seen) /\ p.kind = Values(t, "event", seen)
       /\ p.retry = LatestOf(Values(t, "retry", seen)) /\ p.id = LatestOf(Values(t, "id", known))
  <2>1. (1 .. Len(t)) \ Pending(t) = known
    BY <1>1, <1>5, <1>12
  <2> QED
    BY <1>8, <2>1 DEF Holds
<1>15. PICK q : q = ConsumeLine(p).parser
  OBVIOUS
<1>16. PICK event : event = [kind |-> IF p.kind = <<>> THEN <<"message">> ELSE p.kind,
                             data |-> p.data, id |-> p.id, retry |-> p.retry]
  OBVIOUS
<1>17. /\ q.line = NoLine /\ q.sawCr = p.sawCr /\ q.data = <<>> /\ q.kind = <<>>
       /\ q.retry = Unset /\ q.id = p.id
       /\ ConsumeLine(p).events = IF p.data = <<>> THEN <<>> ELSE <<event>>
  <2>1. PICK r : r = [p EXCEPT !.line = NoLine]
    OBVIOUS
  <2>2. /\ r \in Parser /\ r.line = NoLine /\ r.sawCr = p.sawCr /\ r.data = p.data
        /\ r.kind = p.kind /\ r.retry = p.retry /\ r.id = p.id
    BY <2>1 DEF Parser
  <2>3. /\ q = [r EXCEPT !.kind = <<>>, !.data = <<>>, !.retry = Unset]
        /\ ConsumeLine(p).events = IF p.data = <<>> THEN <<>> ELSE <<event>>
    BY <1>15, <1>16, <2>1, <2>2 DEF ConsumeLine, Dispatch
  <2> QED
    BY <2>2, <2>3 DEF Parser
<1>18. Holds(u, q)
  <2>1. LatestOf(<<>>) = Unset
    BY DEF LatestOf
  <2>2. (1 .. Len(u)) \ Pending(u) = all
    BY <1>4, <1>5, <1>12
  <2> QED
    BY <1>4, <1>8, <1>9, <1>13, <1>14, <1>17, <2>1, <2>2 DEF Holds
<1>19. ASSUME OneKindIn(t) PROVE EventAt(u, n + 1) = event
  <2>1. Len(p.kind) <= 1
    BY <1>1, <1>10, <1>14, <1>19, OneKindIs
  <2>2. p.kind \in Seq(Value)
    BY DEF Parser
  <2>3. p.kind # <<>> => <<Last(p.kind)>> = p.kind
    <3>1. SUFFICES ASSUME p.kind # <<>> PROVE <<Last(p.kind)>> = p.kind
      OBVIOUS
    <3>2. Len(p.kind) = 1
      <4>1. PICK kind \in Seq(Value) : kind = p.kind
        BY <2>2
      <4>2. Len(kind) \in Nat /\ Len(kind) # 0
        BY <3>1, <4>1
      <4>3. Len(kind) <= 1
        BY <2>1, <4>1
      <4>4. \A m \in Nat : m # 0 /\ m <= 1 => m = 1
        OBVIOUS
      <4>5. Len(kind) = 1
        BY <4>2, <4>3, <4>4, Zenon
      <4> QED
        BY <4>1, <4>5, Zenon
    <3>3. Last(p.kind) = p.kind[1]
      BY <3>2 DEF Last
    <3> QED
      BY <2>2, <3>2, <3>3
  <2>4. /\ Values(u, "event", Frame(u, n + 1)) = p.kind
        /\ Values(u, "data", Frame(u, n + 1)) = p.data
        /\ LatestOf(Values(u, "retry", Frame(u, n + 1))) = p.retry
    BY <1>10, <1>11, <1>14 DEF Dispatched
  <2>5. LatestOf(Values(u, "id", 1 .. n + 1)) = p.id
    BY <1>12, <1>13, <1>14
  <2> QED
    BY <1>16, <2>3, <2>4, <2>5 DEF EventAt
<1>20. ASSUME OneKindIn(t) PROVE Meaning(u) = Meaning(t) \o ConsumeLine(p).events
  <2>1. Meaning(u) = IF p.data # <<>> THEN Append(Meaning(t), event) ELSE Meaning(t)
    <3>1. event.data = p.data
      BY <1>16
    <3> QED
      BY <1>1, <1>2, <1>3, <1>6, <1>19, <1>20, <3>1, MeaningGrows
  <2>2. Meaning(t) \in Seq(Event)
    <3>1. PICK events : events = [i \in DOMAIN t |-> EventAt(t, i)]
      OBVIOUS
    <3>2. \A i \in DOMAIN t : EventAt(t, i) \in Event
      BY EventTyped
    <3>3. events \in Seq(Event)
      BY <1>1, <3>1, <3>2
    <3> QED
      BY <3>1, <3>3, AtIs DEF Meaning
  <2>3. event \in Event
    BY <1>2, <1>4, <1>19, <1>20, EventTyped
  <2> QED
    BY <1>17, <2>1, <2>2, <2>3
<1> QED
  BY <1>2, <1>15, <1>17, <1>18, <1>20

\* One symbol is read: the parser still holds what the text says, and what it
\* gives out is what the text says more.
LEMMA PushHeld ==
    ASSUME NEW s \in Seq(Symbol), NEW p \in Parser, Holds(PlainOf(s), p),
           p.sawCr <=> EndsInCR(s),
           NEW x \in Symbol, p.line = NoLine \/ x \in Ends
    PROVE  /\ Push(p, x).parser \in Parser /\ Push(p, x).events \in Seq(Event)
           /\ Holds(PlainOf(Append(s, x)), Push(p, x).parser)
           /\ Push(p, x).parser.sawCr <=> EndsInCR(Append(s, x))
           /\ OneKindIn(PlainOf(s)) =>
                 Meaning(PlainOf(Append(s, x))) = Meaning(PlainOf(s)) \o Push(p, x).events
<1>1. PICK t \in Seq(Symbol) : t = PlainOf(s)
  BY PlainGrows
<1>2. /\ PlainOf(Append(s, x)) = IF x = LF /\ p.sawCr THEN t ELSE Append(t, x)
      /\ EndsInCR(Append(s, x)) <=> x = CR
  BY <1>1, PlainGrows
<1>3. CR # LF /\ CR \in Ends /\ LF \in Ends
  BY SymbolIs
<1>4. Meaning(t) \in Seq(Event)
  <2>1. PICK events : events = [i \in DOMAIN t |-> EventAt(t, i)]
    OBVIOUS
  <2>2. \A i \in DOMAIN t : EventAt(t, i) \in Event
    BY EventTyped
  <2>3. events \in Seq(Event)
    BY <2>1, <2>2
  <2> QED
    BY <2>1, <2>3, AtIs DEF Meaning
<1>5. CASE x = LF /\ p.sawCr
  <2>1. PICK q : q = [p EXCEPT !.sawCr = FALSE]
    OBVIOUS
  <2>2. q \in Parser /\ ~q.sawCr /\ q.line = p.line /\ q.data = p.data /\ q.kind = p.kind
        /\ q.retry = p.retry /\ q.id = p.id
    BY <2>1 DEF Parser
  <2>3. Push(p, x) = [parser |-> q, events |-> <<>>]
    <3>1. x = LF /\ x # CR /\ p.sawCr = TRUE
      <4>1. p.sawCr \in BOOLEAN
        BY DEF Parser
      <4> QED
        BY <1>3, <1>5, <4>1
    <3>2. Push(p, x) = [parser |-> [p EXCEPT !.sawCr = FALSE], events |-> <<>>]
      BY <3>1 DEF Push
    <3> QED
      BY <2>1, <3>2
  <2>4. Push(p, x).parser = q /\ Push(p, x).events = <<>>
    BY <2>3
  <2>5. Holds(t, q)
    BY <1>1, <2>2 DEF Holds
  <2>6. <<>> \in Seq(Event) /\ Meaning(t) \o <<>> = Meaning(t)
    BY <1>4
  <2> QED
    BY <1>1, <1>2, <1>3, <1>5, <2>2, <2>4, <2>5, <2>6
<1>6. CASE x \in Ends /\ ~(x = LF /\ p.sawCr)
  <2>1. PICK q, events : q = ConsumeLine(p).parser /\ events = ConsumeLine(p).events
    OBVIOUS
  <2>2. PICK u : u = Append(t, x)
    OBVIOUS
  <2>3. q \in Parser /\ events \in Seq(Event)
    BY <2>1, ConsumeTyped
  <2>4. /\ Holds(u, q) /\ q.sawCr = p.sawCr
        /\ OneKindIn(t) => Meaning(u) = Meaning(t) \o events
    <3>1. CASE p.line = NoLine
      BY <1>1, <1>6, <2>1, <2>2, <3>1, BlankHeld
    <3>2. CASE p.line # NoLine
      <4>1. /\ Holds(u, q) /\ events = <<>> /\ q.sawCr = p.sawCr /\ Meaning(u) = Meaning(t)
        BY <1>1, <1>6, <2>1, <2>2, <3>2, LineHeld
      <4>2. Meaning(t) \o <<>> = Meaning(t)
        BY <1>4
      <4> QED
        BY <4>1, <4>2
    <3> QED
      BY <3>1, <3>2
  <2>5. CASE x = LF
    <3>1. Push(p, x) = ConsumeLine(p) /\ ~p.sawCr
      BY <1>3, <1>6, <2>5 DEF Push
    <3> QED
      BY <1>1, <1>2, <1>3, <1>6, <2>1, <2>2, <2>3, <2>4, <2>5, <3>1
  <2>6. CASE x = CR
    <3>1. Push(p, x) = [ConsumeLine(p) EXCEPT !.parser.sawCr = TRUE]
      BY <1>3, <2>6 DEF Push
    <3>2. ConsumeLine(p) \in [parser : {q}, events : {events}]
      BY <2>1 DEF ConsumeLine, Dispatch
    <3>3. PICK r : r = [q EXCEPT !.sawCr = TRUE]
      OBVIOUS
    <3>4. Push(p, x).parser = r /\ Push(p, x).events = events
      BY <3>1, <3>2, <3>3
    <3>5. r \in Parser /\ r.sawCr /\ r.line = q.line /\ r.data = q.data /\ r.kind = q.kind
          /\ r.retry = q.retry /\ r.id = q.id
      BY <2>3, <3>3 DEF Parser
    <3>6. Holds(u, r)
      BY <2>4, <3>5 DEF Holds
    <3> QED
      BY <1>1, <1>2, <1>3, <2>2, <2>3, <2>4, <2>6, <3>4, <3>5, <3>6
  <2> QED
    BY <1>6, <2>5, <2>6 DEF Ends
<1>7. CASE x \notin Ends
  <2>1. x \in Fields /\ p.line = NoLine /\ x # CR /\ x # LF
    BY <1>3, <1>7 DEF Symbol
  <2>2. PICK q : q = [p EXCEPT !.line = x, !.sawCr = FALSE]
    OBVIOUS
  <2>3. Push(p, x) = [parser |-> q, events |-> <<>>]
    BY <2>1, <2>2 DEF Push
  <2>4. Push(p, x).parser = q /\ Push(p, x).events = <<>>
    BY <2>3
  <2>5. q \in Parser /\ ~q.sawCr
    BY <2>1, <2>2 DEF Parser
  <2>6. Holds(Append(t, x), q) /\ Meaning(Append(t, x)) = Meaning(t)
    BY <1>1, <2>1, <2>2, FieldHeld
  <2>7. <<>> \in Seq(Event) /\ Meaning(t) \o <<>> = Meaning(t)
    BY <1>4
  <2> QED
    BY <1>1, <1>2, <2>1, <2>4, <2>5, <2>6, <2>7
<1> QED
  BY <1>5, <1>6, <1>7

-------------------------------------------------------------------------------
(* Event frames: the stream                                                  *)

FramesInv ==
    /\ FramesTypeOK
    /\ Holds(PlainOf(text), parser)
    /\ parser.sawCr <=> EndsInCR(text)
    /\ OneKindIn(PlainOf(text)) => taken \o ready = Meaning(PlainOf(text))

LEMMA NothingMeant ==
    /\ <<>> \in Seq(Symbol) /\ PlainOf(<<>>) = <<>> /\ ~EndsInCR(<<>>)
    /\ NewParser \in Parser /\ Holds(<<>>, NewParser) /\ ~NewParser.sawCr
    /\ Meaning(<<>>) = <<>> /\ <<>> \in Seq(Event)
<1>1. <<>> \in Seq(Symbol) /\ Len(<<>>) = 0 /\ DOMAIN <<>> = {} /\ <<>> \in Seq(Event)
  OBVIOUS
<1>2. \A i \in 1 .. 0 : FALSE
  OBVIOUS
<1>3. PICK none : none = <<>>
  OBVIOUS
<1>4. none \in Seq(Symbol) /\ Len(none) = 0 /\ DOMAIN none = {} /\ none \in Seq(Event)
  BY <1>1, <1>3
<1>5. \A chosen : At(none, chosen) = none
  BY <1>2, <1>3, <1>4, AtNone
<1>6. PlainOf(none) = none
  BY <1>5 DEF PlainOf
<1>7. Meaning(none) = none
  <2>1. [i \in DOMAIN none |-> EventAt(none, i)] = none
    BY <1>3, <1>4
  <2> QED
    BY <1>5, <2>1 DEF Meaning
<1>8. \A name, places : Values(none, name, places) = none
  BY <1>2, <1>3, <1>4, NoValues
<1>9. NewParser \in Parser
  <2>1. Unset \in Value /\ NoLine \in Fields \cup {NoLine} /\ <<>> \in Seq(Value)
    BY DEF Value
  <2> QED
    BY <2>1 DEF NewParser, Parser
<1>10. Holds(none, NewParser)
  BY <1>3, <1>8 DEF Holds, NewParser, LatestOf
<1>11. ~EndsInCR(none) /\ ~NewParser.sawCr
  BY <1>3 DEF EndsInCR, NewParser
<1> QED
  BY <1>1, <1>3, <1>6, <1>7, <1>9, <1>10, <1>11

LEMMA FramesBegin == FramesInit => FramesInv
<1>1. SUFFICES ASSUME FramesInit PROVE FramesInv
  OBVIOUS
<1>2. <<>> \o <<>> = <<>> /\ Len(<<>>) = 0
  OBVIOUS
<1>3. FramesTypeOK
  BY <1>1, <1>2, NothingMeant, FramesAssumption DEF FramesInit, FramesTypeOK
<1> QED
  BY <1>1, <1>2, <1>3, NothingMeant DEF FramesInit, FramesInv

LEMMA TextArrives ==
    ASSUME FramesInv, Arrive
    PROVE  FramesInv'
<1>1. PICK x \in Symbol : /\ parser.line = NoLine \/ x \in Ends
                          /\ text' = Append(text, x)
                          /\ parser' = Push(parser, x).parser
                          /\ ready' = ready \o Push(parser, x).events
  <2>1. Ends \subseteq Symbol
    BY SymbolIs
  <2> QED
    BY <2>1 DEF Arrive
<1>2. link' = link /\ taken' = taken /\ Len(text) < MaxText
  BY DEF Arrive
<1>3. /\ text \in Seq(Symbol) /\ parser \in Parser /\ ready \in Seq(Event) /\ taken \in Seq(Event)
      /\ Holds(PlainOf(text), parser) /\ (parser.sawCr <=> EndsInCR(text))
  BY DEF FramesInv, FramesTypeOK
<1>4. PICK q, events : q = Push(parser, x).parser /\ events = Push(parser, x).events
  OBVIOUS
<1>5. /\ q \in Parser /\ events \in Seq(Event)
      /\ Holds(PlainOf(Append(text, x)), q)
      /\ q.sawCr <=> EndsInCR(Append(text, x))
      /\ OneKindIn(PlainOf(text)) =>
            Meaning(PlainOf(Append(text, x))) = Meaning(PlainOf(text)) \o events
  BY <1>1, <1>3, <1>4, PushHeld
<1>6. text' \in Seq(Symbol) /\ Len(text') <= MaxText /\ ready' \in Seq(Event)
  <2>1. MaxText \in Nat /\ Len(text) \in Nat
    BY <1>3, FramesAssumption
  <2> QED
    BY <1>1, <1>2, <1>3, <1>4, <1>5, <2>1
<1>7. FramesTypeOK'
  BY <1>1, <1>2, <1>3, <1>4, <1>5, <1>6 DEF FramesInv, FramesTypeOK
<1>8. OneKindIn(PlainOf(text')) => OneKindIn(PlainOf(text))
  <2>1. PICK t \in Seq(Symbol) : t = PlainOf(text)
    BY <1>1, <1>3, PlainGrows
  <2>2. PlainOf(text') = t \/ PlainOf(text') = Append(t, x)
    BY <1>1, <1>3, <2>1, PlainGrows
  <2> QED
    BY <2>1, <2>2, OneKindWas
<1>9. OneKindIn(PlainOf(text')) => taken' \o ready' = Meaning(PlainOf(text'))
  <2>1. SUFFICES ASSUME OneKindIn(PlainOf(text')) PROVE taken' \o ready' = Meaning(PlainOf(text'))
    OBVIOUS
  <2>2. /\ taken \o ready = Meaning(PlainOf(text))
        /\ Meaning(PlainOf(text')) = Meaning(PlainOf(text)) \o events
    BY <1>1, <1>5, <1>8, <2>1 DEF FramesInv
  <2>3. taken \o (ready \o events) = (taken \o ready) \o events
    BY <1>3, <1>5
  <2> QED
    BY <1>1, <1>2, <1>4, <2>2, <2>3
<1> QED
  BY <1>1, <1>4, <1>5, <1>7, <1>9 DEF FramesInv

LEMMA FramesInductive ==
    ASSUME FramesInv, [FramesNext]_fvars
    PROVE  FramesInv'
<1>1. CASE Arrive
  BY <1>1, TextArrives
<1>2. CASE Connect
  <2>1. /\ text' = <<>> /\ parser' = NewParser /\ ready' = <<>> /\ taken' = <<>>
        /\ link' \in {"closed", "open", "authentication", "server", "compatibility"}
    BY <1>2 DEF Connect, Verdict
  <2>2. <<>> \o <<>> = <<>> /\ Len(<<>>) = 0
    OBVIOUS
  <2>3. FramesTypeOK'
    BY <2>1, <2>2, NothingMeant, FramesAssumption DEF FramesTypeOK
  <2> QED
    BY <2>1, <2>2, <2>3, NothingMeant DEF FramesInv
<1>3. CASE TakeEvent
  <2>1. ready \in Seq(Event) /\ taken \in Seq(Event) /\ ready # <<>>
    BY <1>3 DEF TakeEvent, FramesInv, FramesTypeOK
  <2>2. Tail(ready) \in Seq(Event) /\ Head(ready) \in Event
        /\ Append(taken, Head(ready)) \in Seq(Event)
    BY <2>1
  <2>3. Append(taken, Head(ready)) \o Tail(ready) = taken \o ready
    BY <2>1, <2>2
  <2> QED
    BY <1>3, <2>2, <2>3 DEF TakeEvent, FramesInv, FramesTypeOK
<1>4. CASE Cut
  BY <1>4 DEF Cut, FramesInv, FramesTypeOK
<1>5. CASE UNCHANGED fvars
  BY <1>5 DEF fvars, FramesInv, FramesTypeOK
<1> QED
  BY <1>1, <1>2, <1>3, <1>4, <1>5 DEF FramesNext

LEMMA FramesStand == FramesSpec => []FramesInv
BY FramesBegin, FramesInductive, PTL DEF FramesSpec

\* The type invariant of the event stream's transport: what was received, what the
\* parser holds and what was given out (SseParser and SseStream in api/sse.rs).
THEOREM FramesTypes == FramesSpec => []FramesTypeOK
<1>1. FramesInv => FramesTypeOK
  BY DEF FramesInv
<1> QED
  BY <1>1, FramesStand, PTL

\* However the text is cut and terminated, and however long it is: its whole frames with data
\* are events, in order, each with the last id seen and its own retry, and nothing
\* else is one (push, consume_line and dispatch in api/sse.rs).
THEOREM FramesBecomeEvents == FramesSpec => []EventsAreWholeFrames
<1>1. FramesInv => EventsAreWholeFrames
  BY DEF FramesInv, EventsAreWholeFrames, OneKindEach, OneKindIn, Plain, PlainOf
<1> QED
  BY <1>1, FramesStand, PTL

===============================================================================
