-------------------------------- MODULE Paging --------------------------------
(***************************************************************************)
(* How the pages of a book group into spreads and which gesture moves      *)
(* between them (reader/paging.rs).  Pages are numbered from 1; a layout   *)
(* is the sequence of its spreads, each a sequence of one or two pages in  *)
(* reading order.  Spread indices are one-based here, and 0 is "none".     *)
(***************************************************************************)
EXTENDS Integers, Sequences

ReadMode == {"single", "double", "webtoon"}
Direction == {"ltr", "rtl", "vertical"}

\* FAULT: the page after a pair is skipped.
PairSkipping(count, mode, firstPageSingle, unpairable) ==
    LET Double == mode = "double"
        from[p \in 1 .. count + 3] ==
            IF p > count THEN <<>>
            ELSE IF ~Double \/ p \in unpairable THEN <<<<p>>>> \o from[p + 1]
            ELSE <<<<p, p + 1>>>> \o from[p + 2]
    IN  from[1]

\* pair: a cover may stand alone; a page pairs with the next one unless either
\* must stand alone, and pairing resumes with the page that follows.
Pair(count, mode, firstPageSingle, unpairable) ==
    LET Alone(p) == \/ mode # "double"
                    \/ p \in unpairable
                    \/ p = 1 /\ firstPageSingle
                    \/ p = count
                    \/ p + 1 \in unpairable
        from[p \in 1 .. count + 2] ==
            IF p > count THEN <<>>
            ELSE IF Alone(p) THEN <<<<p>>>> \o from[p + 1]
            ELSE <<<<p, p + 1>>>> \o from[p + 2]
    IN  from[1]

AxisFor(mode, direction) ==
    IF mode = "webtoon" \/ direction = "vertical" THEN "vertical" ELSE "horizontal"

Layout(count, mode, direction, firstPageSingle, unpairable) ==
    LET axis == AxisFor(mode, direction)
    IN  [spreads  |-> Pair(count, mode, firstPageSingle, unpairable),
         axis     |-> axis,
         reversed |-> direction = "rtl" /\ axis = "horizontal"]

PagesOf(spread) == {spread[i] : i \in DOMAIN spread}

\* index_for_page
IndexForPage(spreads, page) ==
    IF \E i \in DOMAIN spreads : page \in PagesOf(spreads[i])
      THEN CHOOSE i \in DOMAIN spreads : page \in PagesOf(spreads[i])
      ELSE 0

\* entry_page, with the fallback its callers give it.
EntryPage(spreads, index, fallback) ==
    IF index \in DOMAIN spreads THEN spreads[index][1] ELSE fallback

\* visual_left_to_right: only a right-to-left horizontal spread is drawn reversed.
VisualLeftToRight(spread, axis, reversed) ==
    IF reversed /\ axis = "horizontal"
      THEN [i \in DOMAIN spread |-> spread[Len(spread) + 1 - i]]
      ELSE spread

\* nav: the swipe and the tap zone that advance, and those that go back.
Nav(axis, reversed) ==
    CASE axis = "vertical" ->
            [advance |-> "up", retreat |-> "down", tapNext |-> "bottom", tapPrev |-> "top"]
      [] axis = "horizontal" /\ reversed ->
            [advance |-> "right", retreat |-> "left", tapNext |-> "left", tapPrev |-> "right"]
      [] OTHER ->
            [advance |-> "left", retreat |-> "right", tapNext |-> "right", tapPrev |-> "left"]
=============================================================================
