------------------------------- MODULE LastWord -------------------------------
(***************************************************************************)
(* What the mutation outbox promises about each book, and nothing of how.  *)
(* The user speaks; the server is seen to change; what was said last is    *)
(* owed until the server has given an excuse to forget it since it was     *)
(* said.  A debt may be given up and taken up again, never forgotten.      *)
(***************************************************************************)
EXTENDS Naturals

CONSTANTS Book, Excuses

VARIABLES
    debt,       \* per book: none, owed or givenUp
    excuse      \* per book: the excuses seen since the user last spoke

Init ==
    /\ debt = [b \in Book |-> "none"]
    /\ excuse = [b \in Book |-> {}]

Speak(b) ==
    /\ debt' = [debt EXCEPT ![b] = "owed"]
    /\ \E x \in SUBSET Excuses : excuse' = [excuse EXCEPT ![b] = x]

Observe(b) ==
    /\ \E x \in SUBSET Excuses : excuse' = [excuse EXCEPT ![b] = @ \cup x]
    /\ debt' = debt

Settle(b) ==
    /\ debt[b] # "none"
    /\ excuse[b] # {}
    /\ debt' = [debt EXCEPT ![b] = "none"]
    /\ excuse' = excuse

GiveUp(b) ==
    /\ debt[b] = "owed"
    /\ debt' = [debt EXCEPT ![b] = "givenUp"]
    /\ excuse' = excuse

TakeUp(b) ==
    /\ debt[b] = "givenUp"
    /\ debt' = [debt EXCEPT ![b] = "owed"]
    /\ excuse' = excuse

Next == \E b \in Book : Speak(b) \/ Observe(b) \/ Settle(b) \/ GiveUp(b) \/ TakeUp(b)

Spec == Init /\ [][Next]_<<debt, excuse>>
=============================================================================
