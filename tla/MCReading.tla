------------------------------ MODULE MCReading ------------------------------
(* Small instances of Reading for TLC.                                       *)
EXTENDS Reading, TLC

CONSTANTS b1, b2

OneBook == {b1}
TwoBooks == {b1, b2}
None == {}
SingleOrDouble == {"single", "double"}
AnyMode == ReadMode
Always == {TRUE}
Never == {FALSE}
Either == BOOLEAN
OtherFinishes == {[kind |-> "progress", page |-> LastPage, completed |-> TRUE]}
NetOnly == {"net"}
=============================================================================
