---------------------------- MODULE MCEventStream ----------------------------
(* Small instances of EventStream for TLC.                                   *)
EXTENDS EventStream, TLC

CONSTANTS b1, b2

OneBook == {b1}
TwoBooks == {b1, b2}
Calm == {}
Anything == Trouble
Breaks == {"cut", "refuse"}
RefetchesOnly == {"refetch"}
BackgroundOnly == {"background"}
StoreOnly == {"store"}
DisposeOnly == {"dispose"}
QuietnessOnly == {"quiet"}
SweepsOnlyCut == {"sweep", "cut"}
OthersCut == {"others", "cut"}
RefusalsOnly == {"refuse"}
=============================================================================
