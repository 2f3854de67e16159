----------------------------- MODULE MCDownloads ----------------------------
(* Small instances of Downloads for TLC.                                     *)
EXTENDS Downloads, TLC

CONSTANTS b1, b2

OneBook == {b1}
TwoBooks == {b1, b2}
OnePass == Trouble \ {"tear", "race", "meddle", "list", "lasting"}
Torn == {"bad", "crash", "tear"}
Dying == {"crash"}
Editions == {"edition", "crash"}
Sweeping == {"bad", "list"}
Racing == {"race"}
BadPages == {"bad"}
Threads == Trouble \ {"tear", "damage"}
Refusing == {"write"}
=============================================================================
