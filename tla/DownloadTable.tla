--------------------------- MODULE DownloadTable ----------------------------
(***************************************************************************)
(* What the download queue promises of a book and its pages, whoever acts: *)
(* the transition table both platforms share                               *)
(* (specs/contracts/fixtures/downloads/states.json).  Who acts is told     *)
(* apart by the user's hand: it moves in every step of a gesture and rests *)
(* in every step of the program.                                           *)
(***************************************************************************)
CONSTANTS Books, Page

VARIABLES state, page, hand

\* The moves of a book, by the user's gestures and by the program alone.
ByUser == {<<"none", "waiting">>, <<"waiting", "paused">>, <<"downloading", "paused">>,
           <<"paused", "waiting">>, <<"failed", "waiting">>, <<"completed", "waiting">>}
ByProgram == {<<"waiting", "downloading">>, <<"downloading", "waiting">>,
              <<"downloading", "completed">>, <<"downloading", "failed">>,
              <<"waiting", "completed">>, <<"waiting", "failed">>,
              <<"failed", "waiting">>, <<"failed", "completed">>, <<"completed", "waiting">>}

\* The moves of a page by the program: it lands, fails for good, or is taken
\* back or adopted because the disk says so.
OfPages == {<<"pending", "complete">>, <<"pending", "failed">>,
            <<"complete", "pending">>, <<"failed", "complete">>}

Whole(b) == \A p \in Page : page[b][p] = "complete"

Init ==
    /\ state = [b \in Books |-> "none"]
    /\ page = [b \in Books |-> [p \in Page |-> "none"]]

\* A gesture is about one book: it moves it, tries its failed pages again, starts
\* it over, or deletes it.
Gesture(b) ==
    /\ hand' # hand
    /\ state' = [state EXCEPT ![b] = state'[b]] /\ page' = [page EXCEPT ![b] = page'[b]]
    /\ \/ /\ state'[b] = state[b] \/ <<state[b], state'[b]>> \in ByUser
          /\ \A p \in Page : page'[b][p] = page[b][p]
                             \/ (page[b][p] = "failed" /\ page'[b][p] = "pending")
       \/ /\ state'[b] = "waiting"
          /\ state[b] = "waiting" \/ <<state[b], "waiting">> \in ByUser
          /\ page'[b] = [p \in Page |-> "pending"]
       \/ state'[b] = "none" /\ page'[b] = [p \in Page |-> "none"]

\* The program keeps to its own moves, never leaves a pause, and calls a book
\* complete only when every page of it is.
Program(b) ==
    /\ hand' = hand
    /\ state' = [state EXCEPT ![b] = state'[b]] /\ page' = [page EXCEPT ![b] = page'[b]]
    /\ state'[b] = state[b] \/ <<state[b], state'[b]>> \in ByProgram
    /\ state'[b] = "completed" /\ state[b] # "completed" => Whole(b)
    /\ state[b] = "completed" /\ state'[b] = "waiting" => ~Whole(b)
    /\ \A p \in Page : page'[b][p] = page[b][p] \/ <<page[b][p], page'[b][p]>> \in OfPages

Next == \E b \in Books : Gesture(b) \/ Program(b)

Spec == Init /\ [][Next]_<<state, page>>
=============================================================================
