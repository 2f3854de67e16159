------------------------------- MODULE MCUpkeep --------------------------------
(* What keeps a server's mirror up: the event stream, the lists and the covers,   *)
(* side by side.  A behaviour is one of the three, chosen at the start, and the   *)
(* others rest.                                                                   *)
EXTENDS MCEventStream, Lists, Covers

VARIABLE part

TwoServersCovers == {<<"p1", "s">>, <<"p1", "b">>, <<"p2", "s">>}
ABooksCover == {<<"p1", "b">>}

Rests(aPart, restsSo) == part # aPart => restsSo

UpkeepInit ==
    /\ part \in {"events", "lists", "covers"}
    /\ Init
    /\ ListsInit
    /\ CoversInit
    /\ Rests("lists", kind = "libraries")

UpkeepNext ==
    /\ UNCHANGED part
    /\ \/ part = "events" /\ Next /\ UNCHANGED <<lvars, kvars>>
       \/ part = "lists" /\ ListsNext /\ UNCHANGED <<vars, kvars>>
       \/ part = "covers" /\ CoversNext /\ UNCHANGED <<vars, lvars>>

upkeepVars == <<part, vars, lvars, kvars>>

UpkeepSpec == UpkeepInit /\ [][UpkeepNext]_upkeepVars

\* The stream's fairness is asked of the behaviours of the stream.
FairUpkeepSpec == UpkeepSpec /\ (part = "events" => Fairness)
=============================================================================
