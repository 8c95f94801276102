------------------------- MODULE MCFdContextManager -------------------------
\* Instances of FdContextManager for TLC.
EXTENDS FdContextManager, TLC

R == {"READ"}
W == {"WRITE"}
RW == {"READ", "WRITE"}
Req(o, e) == [op |-> o, event |-> e]

\* Monitoring both directions, triggers for both, deletes.
EventRequests == {Req("ADD", R), Req("ADD", W), Req("DEL", R), Req("TRIGGER", RW)}

\* The same on a descriptor that is closed, both ways, and whose number is reused.
AllRequests == EventRequests \cup {Req("CLOSE", NONE), Req("CLOSE_NOCLOSEFD", NONE)}

Symmetry == Permutations(Threads)
=============================================================================
