------------------------------ MODULE FdSerial ------------------------------
(***************************************************************************)
(* What one FdContextManager promises its callers: the operations that     *)
(* threads register on a file descriptor take effect one at a time, in the *)
(* order in which they were registered, each exactly once, whichever       *)
(* thread happens to execute them.  FdContextManager.tla implements this   *)
(* specification.                                                          *)
(***************************************************************************)
EXTENDS Naturals, Sequences

CONSTANTS Requests      \* the operations callers may register

VARIABLES pending,      \* registered and not yet executed, oldest first
          issued,       \* how many operations have been registered
          event,        \* FdContext::m_event, a set of READ and WRITE
          cb,           \* FdContext::m_cb_read and m_cb_write
          fired         \* the callbacks the latest TRIGGER_TASK started

avars == <<pending, issued, event, cb, fired>>

Events == {"READ", "WRITE"}

\* A TaskCoro20 that is not legal (default constructed, reset, or moved from);
\* a legal one is named by the number of the operation that registered it.
NoTask == 0

\* FdContext::addEvent: with both bits, m_cb_write receives the task that
\* m_cb_read has already been moved from.
AddCb(c, e, id) ==
    [c EXCEPT !["READ"]  = IF "READ" \in e THEN id ELSE @,
              !["WRITE"] = IF "WRITE" \in e
                           THEN IF "READ" \in e THEN NoTask ELSE id
                           ELSE @]

\* FdContext::delEvent: every callback whose bit is now off is reset.
DelCb(c, left) == [k \in Events |-> IF k \in left THEN c[k] ELSE NoTask]

\* FdContext::reset.
ResetCb == [k \in Events |-> NoTask]

\* The FdContext after each kind of RegistedTask ran.
EventAfter(task, ev) ==
    CASE task.op = "ADD"     -> ev \cup task.event
      [] task.op = "DEL"     -> ev \ task.event
      [] task.op = "TRIGGER" -> ev
      [] OTHER               -> {}

CbAfter(task, ev, c) ==
    CASE task.op = "ADD"     -> AddCb(c, task.event, task.id)
      [] task.op = "DEL"     -> DelCb(c, ev \ task.event)
      [] task.op = "TRIGGER" -> c
      [] OTHER               -> ResetCb

\* FdContext::trigger starts a clone of every legal callback whose bit is
\* both monitored and triggered; it clears nothing.
Started(task, ev, c) ==
    IF task.op = "TRIGGER"
    THEN {c[k] : k \in ev \cap task.event} \ {NoTask}
    ELSE {}

-----------------------------------------------------------------------------

Init == /\ pending = <<>>
        /\ issued = 0
        /\ event = {}
        /\ cb = ResetCb
        /\ fired = {}

Register(req) ==
    /\ issued' = issued + 1
    /\ pending' = Append(pending, [op |-> req.op, event |-> req.event, id |-> issued + 1])
    /\ UNCHANGED <<event, cb, fired>>

Apply ==
    /\ pending # <<>>
    /\ pending' = Tail(pending)
    /\ event' = EventAfter(Head(pending), event)
    /\ cb' = CbAfter(Head(pending), event, cb)
    /\ fired' = Started(Head(pending), event, cb)
    /\ UNCHANGED issued

Next == (\E req \in Requests : Register(req)) \/ Apply

\* Every registered operation is executed in the end.
Spec == Init /\ [][Next]_avars /\ WF_avars(Apply)

\* Its safety part.
SafeSpec == Init /\ [][Next]_avars
=============================================================================
