--------------------------- MODULE MCTimeManager ---------------------------
(***************************************************************************)
(* Instances of TimeManager for TLC.                                       *)
(***************************************************************************)
EXTENDS TimeManager, TLC

CONSTANTS t1, t2, p1, p2

TwoTimers == {t1, t2}
OneThread == {p1}
TwoThreads == {p1, p2}
Sym == Permutations(TwoThreads) \cup Permutations(TwoTimers)
=============================================================================
