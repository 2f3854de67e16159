------------------------------- MODULE MCOutbox -------------------------------
(* Small instances of Outbox for TLC.                                        *)
EXTENDS Outbox, TLC

CONSTANTS b1, b2

Progress(p, c) == [kind |-> "progress", page |-> p, completed |-> c]
MarkRead == [kind |-> "read", page |-> 0, completed |-> TRUE]
MarkUnread == [kind |-> "unread", page |-> 0, completed |-> FALSE]

OneBook == {b1}
TwoBooks == {b1, b2}
None == {}

Turns == {Progress(1, FALSE), Progress(2, TRUE)}
OtherTurns == {Progress(2, TRUE)}
AllFaults == FaultKind
OneEpub == {b2}
TurnsAndMarks == {Progress(1, FALSE), Progress(2, TRUE), MarkRead, MarkUnread}
OtherMoves == {Progress(2, TRUE), MarkUnread}
NetOnly == {"net"}
NetAndReject == {"net", "reject"}
=============================================================================
