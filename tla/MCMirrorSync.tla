---------------------------- MODULE MCMirrorSync ----------------------------
(* Small instances of MirrorSync for TLC.                                    *)
EXTENDS MirrorSync, TLC

TwoSeries == {1, 2}
\* Series 1 has two pages of books, series 2 one.
ThreeBooks == {<<1, 1>>, <<1, 2>>, <<2, 1>>}
LongRun == {"remove", "drop", "break", "crash", "unlink"}
EventsAndKills == {"event", "remove", "crash"}
BreaksOnly == {"break"}
EventsOnly == {"event"}
EventsAndRemovals == {"event", "remove"}
EventsAndDrops == {"event", "drop"}
BreaksAndDrops == {"break", "drop"}
UnlinkOnly == {"unlink"}
=============================================================================
