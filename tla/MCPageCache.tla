------------------------------ MODULE MCPageCache ------------------------------
(* Small instances of PageCache for TLC.                                     *)
EXTENDS PageCache, TLC

CONSTANTS p1, p2, p3, v1

OnePage == {p1}
ThreePages == {p1, p2, p3}
OneViewer == {v1}
Png == {"png"}
Webp == {"webp"}
AllAnswers == {"whole", "short", "error"}
WholeOnly == {"whole"}
AllUpkeep == {"sweep", "clear"}
NoPage == {}
OnlySweep == {"sweep"}
LastPage == {p3}
BothMishaps == {"crash", "error"}
OnlyErrors == {"error"}
AnyPage == Permutations(Page \ Large)
=============================================================================
