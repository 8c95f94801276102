------------------------------ MODULE MCDBPool -----------------------------
(***************************************************************************)
(* Instances of DBPool for TLC.                                            *)
(***************************************************************************)
EXTENDS DBPool

CONSTANTS c1, c2, c3

TwoClients == {c1, c2}
ThreeClients == {c1, c2, c3}

\* One connection, for which two of three clients wait.
OneConnection == {[min |-> 1, max |-> 1, increase |-> 1]}

\* Growth from nothing, by more than one.
FromNothing == {[min |-> 0, max |-> 2, increase |-> 2]}

\* Both, and growth while a connection is lent.
SeveralLimits == OneConnection \cup FromNothing \cup {[min |-> 1, max |-> 2, increase |-> 1]}
=============================================================================
