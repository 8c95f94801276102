-------------------------- MODULE FdContextManager --------------------------
(***************************************************************************)
(* One FdContextManager of coroutine/coro20/fdContext.cc: the queue of     *)
(* operations registered on a file descriptor, the INIT/READY/BUSY state   *)
(* that elects the one thread which runs them, the FdContext they act on   *)
(* and the epoll interest that IOManager::stateSync keeps in step with it. *)
(*                                                                         *)
(* A thread's pc follows addTask and the functions it calls:               *)
(*   out       not inside addTask                                          *)
(*   casReady  before the compare-exchange of READY                        *)
(*   casInit   before the compare-exchange of INIT                         *)
(*   drain     before the splice in solveSingleTask                        *)
(*   run       inside its loop, before the next it->run()                  *)
(*   callback  inside a callback started by FdContext::trigger             *)
(*   sync      before m_cb, which is IOManager::stateSync                  *)
(*   close     before co_close                                             *)
(*   settle    before solveTasks assigns m_state                           *)
(*   recheck   before the addTask(nullptr) that ends solveTasks            *)
(***************************************************************************)
EXTENDS Naturals, Sequences, FiniteSets

CONSTANTS Threads,      \* scheduler threads that use the descriptor
          Requests,     \* the operations they may register
          MaxTasks,     \* bound on the operations registered in a behaviour
          MaxReopen,    \* bound on how often the kernel reuses the number
          MayThrow      \* may a callback leave by an exception

ASSUME RequestsAssumption ==
    \A r \in Requests :
        /\ r.op \in {"ADD", "DEL", "TRIGGER", "CLOSE", "CLOSE_NOCLOSEFD"}
        /\ r.event \subseteq {"READ", "WRITE"}

ASSUME BoundsAssumption == MaxTasks \in Nat /\ MaxReopen \in Nat /\ MayThrow \in BOOLEAN

VARIABLES
    m_state, m_tasks,       \* FdContextManager
    m_event, m_cb,          \* FdContext
    kernel, fdOpen, reopened,   \* the descriptor: epoll interest, is it open
    syncFailed,             \* has an epoll_ctl of stateSync failed
    pc, loop, inner, mine,  \* per thread: see above; which while of solveTasks;
                            \* has this addTask called solveTasks; its own task
    batch, cur, origin,     \* solveSingleTask's list, the running task and the
                            \* event mask that task read first
    issued, ran,            \* how many tasks were registered, which ran last
    fired,                  \* the callbacks the latest TRIGGER_TASK started
    thrown                  \* has an exception left solveSingleTask

manager  == <<m_state, m_tasks>>
context  == <<m_event, m_cb, fired>>
file     == <<kernel, fdOpen, reopened, syncFailed>>
locals   == <<loop, inner, mine, batch, cur, origin>>
vars == <<m_state, m_tasks, m_event, m_cb, kernel, fdOpen, reopened, syncFailed,
          pc, loop, inner, mine, batch, cur, origin, issued, ran, fired, thrown>>

Ops == {"ADD", "DEL", "TRIGGER", "CLOSE", "CLOSE_NOCLOSEFD"}
Event == SUBSET {"READ", "WRITE"}
NONE == {}
Task == [op : Ops, event : Event, id : Nat]
NoTask == [op |-> "TRIGGER", event |-> NONE, id |-> 0]

\* The queue in registration order: what a batch still holds, then m_tasks.
Solving(t) == pc[t] \in {"drain", "run", "callback", "sync", "close", "settle"}
Owners == {t \in Threads : Solving(t)}
Pending == IF Owners = {} THEN m_tasks ELSE batch[CHOOSE t \in Owners : TRUE] \o m_tasks

Serial == INSTANCE FdSerial WITH
    pending <- Pending, event <- m_event, cb <- m_cb

Init ==
    /\ m_state = "INIT" /\ m_tasks = <<>>
    /\ m_event = NONE /\ m_cb = Serial!ResetCb
    /\ kernel = NONE /\ fdOpen = TRUE /\ reopened = 0 /\ syncFailed = FALSE
    /\ pc = [t \in Threads |-> "out"]
    /\ loop = [t \in Threads |-> 1]
    /\ inner = [t \in Threads |-> FALSE]
    /\ mine = [t \in Threads |-> 0]
    /\ batch = [t \in Threads |-> <<>>]
    /\ cur = [t \in Threads |-> NoTask]
    /\ origin = [t \in Threads |-> NONE]
    /\ issued = 0 /\ ran = 0 /\ fired = {} /\ thrown = FALSE

Goto(t, label) == pc' = [pc EXCEPT ![t] = label]

-----------------------------------------------------------------------------
\* addTask

\* Mutant of Push: push_front instead of push_back.
PushFront(req) ==
    /\ issued < MaxTasks
    /\ issued' = issued + 1
    /\ m_tasks' = <<[op |-> req.op, event |-> req.event, id |-> issued + 1]>> \o m_tasks

\* Under m_task_mutex: create the RegistedTask and push it.
Push(req) ==
    /\ issued < MaxTasks
    /\ issued' = issued + 1
    /\ m_tasks' = Append(m_tasks, [op |-> req.op, event |-> req.event, id |-> issued + 1])

\* trigger, addEvent, delEvent, closeEvent or closeEventNoCloseFd from outside
\* (m_tasks is not empty after the push, so the early return is not taken).
AddTask(t, req) ==
    /\ pc[t] = "out"
    /\ Push(req)
    /\ mine' = [mine EXCEPT ![t] = issued + 1]
    /\ inner' = [inner EXCEPT ![t] = FALSE]
    /\ Goto(t, "casReady")
    /\ UNCHANGED <<m_state, context, file, loop, batch, cur, origin, ran, thrown>>

\* addTask(nullptr) at the end of solveTasks: return if the queue is empty.
Recheck(t) ==
    /\ pc[t] = "recheck"
    /\ Goto(t, IF m_tasks = <<>> THEN "out" ELSE "casReady")
    /\ UNCHANGED <<manager, context, file, locals, issued, ran, thrown>>

\* compare_exchange_strong(expected, BUSY), then solveTasks or the next label.
Elect(t, expected, next) ==
    /\ IF m_state = expected
       THEN /\ m_state' = "BUSY"
            /\ Goto(t, "drain")
            /\ loop' = [loop EXCEPT ![t] = 1]
            /\ inner' = [inner EXCEPT ![t] = TRUE]
       ELSE /\ Goto(t, next)
            /\ UNCHANGED <<m_state, loop, inner>>
    /\ UNCHANGED <<m_tasks, context, file, mine, batch, cur, origin, issued, ran, thrown>>

CasReady(t) == pc[t] = "casReady" /\ Elect(t, "READY", "casInit")

\* Mutant of CasInit: expected is not set to INIT again, so it still holds the
\* value that the failed first exchange stored in it.
CasInit_StaleExpected(t) == pc[t] = "casInit" /\ Elect(t, m_state, "out")

\* No code assigns ERROR, so after a failed second exchange addTask returns.
CasInit(t) == pc[t] = "casInit" /\ Elect(t, "INIT", "out")

-----------------------------------------------------------------------------
\* solveTasks and solveSingleTask

\* Mutant of Drain: one task is taken and solveTasks asks only once.
Drain_Once(t) ==
    /\ pc[t] = "drain"
    /\ IF m_tasks # <<>> /\ loop[t] = 1
       THEN /\ batch' = [batch EXCEPT ![t] = <<Head(m_tasks)>>]
            /\ m_tasks' = Tail(m_tasks)
            /\ Goto(t, "run")
            /\ loop' = [loop EXCEPT ![t] = 2]
       ELSE Goto(t, "settle") /\ UNCHANGED <<batch, m_tasks, loop>>
    /\ UNCHANGED <<m_state, context, file, inner, mine, cur, origin, issued, ran, thrown>>

\* Splice the whole queue into the local list.  An empty list ends the first
\* while and starts the second, or ends the second.
Drain(t) ==
    /\ pc[t] = "drain"
    /\ batch' = [batch EXCEPT ![t] = m_tasks]
    /\ m_tasks' = <<>>
    /\ IF m_tasks # <<>>
       THEN Goto(t, "run") /\ UNCHANGED loop
       ELSE /\ Goto(t, IF loop[t] = 1 THEN "drain" ELSE "settle")
            /\ loop' = [loop EXCEPT ![t] = 2]
    /\ UNCHANGED <<m_state, context, file, inner, mine, cur, origin, issued, ran, thrown>>

\* Mutant of Run: the local list is walked from the back.
Run_Backwards(t) ==
    LET task == batch[t][Len(batch[t])] IN
    /\ pc[t] = "run"
    /\ batch[t] # <<>>
    /\ batch' = [batch EXCEPT ![t] = SubSeq(@, 1, Len(@) - 1)]
    /\ cur' = [cur EXCEPT ![t] = task]
    /\ origin' = [origin EXCEPT ![t] = m_event]
    /\ m_event' = Serial!EventAfter(task, m_event)
    /\ m_cb' = Serial!CbAfter(task, m_event, m_cb)
    /\ fired' = Serial!Started(task, m_event, m_cb)
    /\ ran' = task.id
    /\ Goto(t, IF fired' # {} THEN "callback" ELSE "sync")
    /\ UNCHANGED <<manager, file, loop, inner, mine, issued, thrown>>

\* it->run() up to the change of the FdContext.
Run(t) ==
    LET task == Head(batch[t]) IN
    /\ pc[t] = "run"
    /\ batch[t] # <<>>
    /\ batch' = [batch EXCEPT ![t] = Tail(@)]
    /\ cur' = [cur EXCEPT ![t] = task]
    /\ origin' = [origin EXCEPT ![t] = m_event]
    /\ m_event' = Serial!EventAfter(task, m_event)
    /\ m_cb' = Serial!CbAfter(task, m_event, m_cb)
    /\ fired' = Serial!Started(task, m_event, m_cb)
    /\ ran' = task.id
    /\ Goto(t, IF fired' # {} THEN "callback" ELSE "sync")
    /\ UNCHANGED <<manager, file, loop, inner, mine, issued, thrown>>

\* A callback runs inside FdContext::trigger, on this thread.  It may register
\* operations on its own descriptor: m_state is BUSY, so both exchanges of that
\* addTask fail and the operation stays queued.
CallbackAddTask(t, req) ==
    /\ pc[t] = "callback"
    /\ m_state = "BUSY"
    /\ Push(req)
    /\ UNCHANGED <<m_state, context, file, pc, locals, ran, thrown>>

CallbackReturn(t) ==
    /\ pc[t] = "callback"
    /\ Goto(t, "sync")
    /\ UNCHANGED <<manager, context, file, locals, issued, ran, thrown>>

\* solveSingleTask logs the exception and throws it on: its list is destroyed
\* and m_state stays BUSY.
CallbackThrow(t) ==
    /\ MayThrow
    /\ pc[t] = "callback"
    /\ thrown' = TRUE
    /\ batch' = [batch EXCEPT ![t] = <<>>]
    /\ Goto(t, "out")
    /\ UNCHANGED <<manager, context, file, loop, inner, mine, cur, origin, issued, ran>>

\* Mutant of StateSync: a change of a mask that stays non-empty is not passed on.
StateSync_NoMod(old, new) ==
    LET accepted == fdOpen /\ (IF old = NONE THEN kernel = NONE ELSE kernel # NONE) IN
    IF new = old \/ (new # NONE /\ old # NONE)
    THEN UNCHANGED file
    ELSE /\ kernel' = IF accepted THEN new ELSE kernel
         /\ syncFailed' = (syncFailed \/ ~accepted)
         /\ UNCHANGED <<fdOpen, reopened>>

\* IOManager::stateSync: epoll_ctl ADD, MOD or DEL, chosen from the event mask
\* before and after the task.  The kernel refuses all three on a closed
\* descriptor, ADD on a monitored one, MOD and DEL on an unmonitored one; a
\* failure is only logged.
StateSync(old, new) ==
    LET accepted == fdOpen /\ (IF old = NONE THEN kernel = NONE ELSE kernel # NONE) IN
    IF new = old
    THEN UNCHANGED file
    ELSE /\ kernel' = IF accepted THEN new ELSE kernel
         /\ syncFailed' = (syncFailed \/ ~accepted)
         /\ UNCHANGED <<fdOpen, reopened>>

Sync(t) ==
    /\ pc[t] = "sync"
    /\ StateSync(origin[t], m_event)
    /\ Goto(t, IF cur[t].op \in {"CLOSE", "CLOSE_NOCLOSEFD"} THEN "close"
               ELSE IF batch[t] = <<>> THEN "drain" ELSE "run")
    /\ UNCHANGED <<manager, context, locals, issued, ran, thrown>>

\* co_close(fd) closes the descriptor, which ends its epoll registration;
\* co_close(fd, 1) leaves it open.
Close(t) ==
    /\ pc[t] = "close"
    /\ IF cur[t].op = "CLOSE"
       THEN kernel' = NONE /\ fdOpen' = FALSE
       ELSE UNCHANGED <<kernel, fdOpen>>
    /\ Goto(t, IF batch[t] = <<>> THEN "drain" ELSE "run")
    /\ UNCHANGED <<manager, context, reopened, syncFailed, locals, issued, ran, thrown>>

\* Mutant of Settle: the retired LOCK state is still assigned.
Settle_Lock(t) ==
    /\ pc[t] = "settle"
    /\ m_state' = "LOCK"
    /\ Goto(t, "recheck")
    /\ UNCHANGED <<m_tasks, context, file, locals, issued, ran, thrown>>

\* Mutant of Settle: solveTasks returns without the final addTask(nullptr).
Settle_NoRecheck(t) ==
    /\ pc[t] = "settle"
    /\ m_state' = IF m_event = NONE THEN "INIT" ELSE "READY"
    /\ Goto(t, "out")
    /\ UNCHANGED <<m_tasks, context, file, locals, issued, ran, thrown>>

\* The end of solveTasks: INIT if the FdContext monitors nothing, else READY.
Settle(t) ==
    /\ pc[t] = "settle"
    /\ m_state' = IF m_event = NONE THEN "INIT" ELSE "READY"
    /\ Goto(t, "recheck")
    /\ UNCHANGED <<m_tasks, context, file, locals, issued, ran, thrown>>

-----------------------------------------------------------------------------

\* socket(), accept() and the like hand out the number of a closed descriptor.
Reopen ==
    /\ ~fdOpen
    /\ reopened < MaxReopen
    /\ fdOpen' = TRUE
    /\ reopened' = reopened + 1
    /\ UNCHANGED <<manager, context, kernel, syncFailed, pc, locals, issued, ran, thrown>>

Step(t) == \/ Recheck(t) \/ CasReady(t) \/ CasInit(t)
           \/ Drain(t) \/ Run(t) \/ CallbackReturn(t) \/ CallbackThrow(t)
           \/ Sync(t) \/ Close(t) \/ Settle(t)

Next == \/ \E t \in Threads : Step(t)
        \/ \E t \in Threads, req \in Requests : AddTask(t, req) \/ CallbackAddTask(t, req)
        \/ Reopen

\* A thread inside addTask is running code and is scheduled again in the end;
\* nobody has to call, and nobody has to reopen.
Fairness == \A t \in Threads : WF_vars(Step(t))

Spec == Init /\ [][Next]_vars /\ Fairness

-----------------------------------------------------------------------------

\* Types: the values that addTask, solveTasks and the tasks they run may leave behind.
TypeOK ==
    /\ m_state \in {"INIT", "READY", "BUSY"}
    /\ m_tasks \in Seq(Task)
    /\ m_event \in Event
    /\ m_cb \in [{"READ", "WRITE"} -> Nat]
    /\ kernel \in Event /\ fdOpen \in BOOLEAN /\ reopened \in Nat /\ syncFailed \in BOOLEAN
    /\ pc \in [Threads -> {"out", "casReady", "casInit", "drain", "run", "callback",
                           "sync", "close", "settle", "recheck"}]
    /\ loop \in [Threads -> {1, 2}]
    /\ inner \in [Threads -> BOOLEAN]
    /\ mine \in [Threads -> Nat]
    /\ batch \in [Threads -> Seq(Task)]
    /\ cur \in [Threads -> Task]
    /\ origin \in [Threads -> Event]
    /\ issued \in Nat /\ ran \in Nat
    /\ fired \in SUBSET Nat
    /\ thrown \in BOOLEAN

\* At most one thread is between the successful exchange in addTask and the
\* assignment of m_state at the end of solveTasks, so FdContext, which has no
\* lock of its own, is never touched by two threads.
OneSolver == \A s, t \in Threads : Solving(s) /\ Solving(t) => s = t

\* No registered task is left behind: while the queue is not empty some thread
\* is still bound to look at it (it solves, is about to recheck, or is about to
\* try an exchange that can succeed), unless an exception left the manager BUSY.
NoTaskStranded ==
    m_tasks # <<>> /\ ~thrown =>
        \E t \in Threads :
            \/ Solving(t)
            \/ pc[t] = "recheck"
            \/ pc[t] = "casReady" /\ m_state # "BUSY"
            \/ pc[t] = "casInit" /\ m_state = "INIT"

\* "返回true表示已经执行" (fdContext.h): when addTask is about to return true,
\* that is after its solveTasks, the task it was given has run.
TrueMeansRun ==
    \A t \in Threads :
        inner[t] /\ pc[t] \in {"settle", "recheck", "casReady", "casInit"} => mine[t] <= ran

\* Between two tasks the kernel monitors an open descriptor for exactly the
\* events the FdContext holds, whichever threads ran the tasks and however
\* often the number was closed and reused, as long as no epoll_ctl failed.
KernelMatchesContext ==
    /\ fdOpen /\ ~syncFailed
    /\ \A t \in Threads : pc[t] # "sync"
    => kernel = m_event

\* An action property: tasks run one by one in the order they were registered;
\* none is skipped, none runs twice.
RunsInOrder == [][ran' # ran => ran' = ran + 1]_ran

\* Every registered task runs in the end, although the thread that registered it may
\* have left addTask without running it.
EveryTaskRuns == \A n \in 1..MaxTasks : issued >= n ~> ran >= n

\* FdContextManager implements the serial specification.
RefinesSerial == Serial!Spec
=============================================================================
