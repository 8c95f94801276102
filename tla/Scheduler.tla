----------------------------- MODULE Scheduler -----------------------------
(***************************************************************************)
(* The thread pool of coroutine/coro20: Scheduler::run and its TaskPool,   *)
(* with the idle and tickle of IOManager, which park a thread in           *)
(* epoll_wait and wake it through an edge-triggered eventfd.               *)
(*                                                                         *)
(* A worker's pc follows Scheduler::run:                                   *)
(*   top      while(!m_stop)            exec     the loop over work_list   *)
(*   idx      taskGet: m_loop_idx++     running  inside curr_task.start()  *)
(*   take     node->getTask             empty    m_stop was false: is the  *)
(*   sub      m_task_count -= rt                 count 0,                  *)
(*   again    the condition of the      auto     and is m_autoStop set?    *)
(*            inner while               more     getTaskCount()?           *)
(*   share    tickle? the count,        idle     entering IOManager::idle  *)
(*   others   and m_idleThreadCount     wait     in epoll_wait, holding    *)
(*   nudge    about to tickle                    m_mutex shared            *)
(*   exit     before the unique lock    drain    woken through the eventfd *)
(*   done     the thread has ended      drained  the eventfd has been read *)
(*                                      io       woken by other fds only   *)
(* A condition over several atomic variables has a label for each load.    *)
(* m_idleThreadCount, which is counted just outside the lock, changes with *)
(* it here: a thread that is counted and not in epoll_wait yet, or not any *)
(* more, only makes others tickle once more than needed.                   *)
(*                                                                         *)
(* schedule() is called by outside threads, by running tasks and by fd     *)
(* callbacks; call[p] is where p is inside it.                             *)
(***************************************************************************)
EXTENDS Integers, Sequences, SequencesExt, FiniteSets

CONSTANTS Workers,      \* the threads of the pool
          Callers,      \* other threads
          MaxTasks,     \* bound on the tasks scheduled
          GetNum,       \* M_SYLAR_SINGLE_GET_TASK_NUM
          CountRange,   \* 2^32, the range of m_task_count
          StopKinds,    \* which of "stop" and "autoStop" may be called
          Quiet         \* do other threads refrain from schedule during autoStop

ASSUME PoolAssumption ==
    /\ MaxTasks \in Nat /\ GetNum \in Nat \ {0}
    /\ CountRange \in Nat /\ CountRange > 2 * MaxTasks
    /\ StopKinds \subseteq {"stop", "autoStop"} /\ Quiet \in BOOLEAN

VARIABLES
    m_nodes, m_alloc_idx, m_loop_idx, m_task_count,             \* TaskPool
    m_autoStop, m_stop, m_threads_count, m_idleThreadCount,     \* Scheduler
    counter, ready,     \* is the eventfd's counter positive; is it in the epoll
                        \* ready list
    pc, slot, work, got,    \* workers: see above; the chosen node; work_list; rt
    call, node, item,       \* callers of schedule: see above; the chosen node;
                            \* the task
    stopper,            \* where the thread is that called stop or autoStop
    issued, executed    \* how many tasks were made; the ones that have run, in order

pool   == <<m_nodes, m_alloc_idx, m_loop_idx, m_task_count>>
flags  == <<m_autoStop, m_stop, m_threads_count, m_idleThreadCount>>
event  == <<counter, ready>>
worker == <<pc, slot, work, got>>
caller == <<call, node, item>>
ghost  == <<issued, executed>>
vars == <<m_nodes, m_alloc_idx, m_loop_idx, m_task_count, m_autoStop, m_stop,
          m_threads_count, m_idleThreadCount, counter, ready, pc, slot, work, got,
          call, node, item, stopper, issued, executed>>

N == Cardinality(Workers)
Procs == Workers \cup Callers
Tasks == 1..MaxTasks

\* The constructor: one node for each thread; start() has created the threads.
Init ==
    /\ m_nodes = [i \in 0..(N - 1) |-> <<>>]
    /\ m_alloc_idx = 0 /\ m_loop_idx = 0 /\ m_task_count = 0
    /\ m_autoStop = FALSE /\ m_stop = FALSE
    /\ m_threads_count = N /\ m_idleThreadCount = 0
    /\ counter = FALSE /\ ready = FALSE
    /\ pc = [w \in Workers |-> "top"]
    /\ slot = [w \in Workers |-> 0]
    /\ work = [w \in Workers |-> <<>>]
    /\ got = [w \in Workers |-> 0]
    /\ call = [p \in Procs |-> "out"]
    /\ node = [p \in Procs |-> 0]
    /\ item = [p \in Procs |-> 0]
    /\ stopper = "out"
    /\ issued = 0 /\ executed = <<>>

Goto(w, label) == pc' = [pc EXCEPT ![w] = label]
Call(p, label) == call' = [call EXCEPT ![p] = label]

\* write(m_eventFd): the counter grows, and epoll sees a new edge each time.
tickle == counter' = TRUE /\ ready' = TRUE

-----------------------------------------------------------------------------
\* schedule

\* Is p at a point where it may call schedule: outside, in a task, in a callback?
MayCall(p) ==
    IF p \in Workers THEN pc[p] \in {"running", "drain", "drained", "io"}
    ELSE ~(Quiet /\ m_autoStop)

\* schedule(task): scheduleNoLock drops the task once m_autoStop is set.
schedule(p) ==
    /\ call[p] = "out" /\ MayCall(p)
    /\ issued < MaxTasks
    /\ issued' = issued + 1
    /\ item' = [item EXCEPT ![p] = IF m_autoStop THEN 0 ELSE issued + 1]
    /\ Call(p, IF m_autoStop THEN "tickle" ELSE "alloc")
    /\ UNCHANGED <<pool, flags, event, worker, node, stopper, executed>>

\* taskAlloc: choose the node ...
AllocIdx(p) ==
    /\ call[p] = "alloc"
    /\ node' = [node EXCEPT ![p] = m_alloc_idx]
    /\ m_alloc_idx' = (m_alloc_idx + 1) % N
    /\ Call(p, "add")
    /\ UNCHANGED <<m_nodes, m_loop_idx, m_task_count, flags, event, worker, item, stopper, ghost>>

\* ... append to it ...
AddTask(p) ==
    /\ call[p] = "add"
    /\ m_nodes' = [m_nodes EXCEPT ![node[p]] = Append(@, item[p])]
    /\ node' = [node EXCEPT ![p] = 0] /\ item' = [item EXCEPT ![p] = 0]
    /\ Call(p, "count")
    /\ UNCHANGED <<m_alloc_idx, m_loop_idx, m_task_count, flags, event, worker, stopper, ghost>>

\* ... and count it.
AddCount(p) ==
    /\ call[p] = "count"
    /\ m_task_count' = (m_task_count + 1) % CountRange
    /\ Call(p, "tickle")
    /\ UNCHANGED <<m_nodes, m_alloc_idx, m_loop_idx, flags, event, worker, node, item,
                   stopper, ghost>>

\* schedule(begin, end) goes on to the next task before it tickles.
scheduleNext(p) ==
    /\ call[p] = "tickle"
    /\ issued < MaxTasks
    /\ issued' = issued + 1
    /\ item' = [item EXCEPT ![p] = IF m_autoStop THEN 0 ELSE issued + 1]
    /\ Call(p, IF m_autoStop THEN "tickle" ELSE "alloc")
    /\ UNCHANGED <<pool, flags, event, worker, node, stopper, executed>>

\* Mutant of CallTickle: tickle only if a thread is counted as idle.
CallTickle_IfIdle(p) ==
    /\ call[p] = "tickle"
    /\ IF m_idleThreadCount # 0 THEN tickle ELSE UNCHANGED event
    /\ Call(p, "out")
    /\ UNCHANGED <<pool, flags, worker, node, item, stopper, ghost>>

CallTickle(p) ==
    /\ call[p] = "tickle"
    /\ tickle
    /\ Call(p, "out")
    /\ UNCHANGED <<pool, flags, worker, node, item, stopper, ghost>>

-----------------------------------------------------------------------------
\* Scheduler::run

Top(w) ==
    /\ pc[w] = "top"
    /\ Goto(w, IF m_stop THEN "exit" ELSE "idx")
    /\ UNCHANGED <<pool, flags, event, slot, work, got, caller, stopper, ghost>>

\* taskGet: choose a node ...
LoopIdx(w) ==
    /\ pc[w] = "idx"
    /\ slot' = [slot EXCEPT ![w] = m_loop_idx]
    /\ m_loop_idx' = (m_loop_idx + 1) % N
    /\ Goto(w, "take")
    /\ UNCHANGED <<m_nodes, m_alloc_idx, m_task_count, flags, event, work, got, caller,
                   stopper, ghost>>

\* ... take at most GetNum tasks from its front ...
GetTask(w) ==
    LET queue == m_nodes[slot[w]]
        rt == IF Len(queue) < GetNum THEN Len(queue) ELSE GetNum IN
    /\ pc[w] = "take"
    /\ work' = [work EXCEPT ![w] = @ \o SubSeq(queue, 1, rt)]
    /\ m_nodes' = [m_nodes EXCEPT ![slot[w]] = SubSeq(queue, rt + 1, Len(queue))]
    /\ got' = [got EXCEPT ![w] = rt]
    /\ slot' = [slot EXCEPT ![w] = 0]
    /\ Goto(w, "sub")
    /\ UNCHANGED <<m_alloc_idx, m_loop_idx, m_task_count, flags, event, caller, stopper, ghost>>

\* Mutant of SubCount: the count is reduced by one, whatever was taken.
SubCount_One(w) ==
    /\ pc[w] = "sub"
    /\ m_task_count' = (m_task_count - (IF got[w] = 0 THEN 0 ELSE 1)) % CountRange
    /\ Goto(w, "again")
    /\ UNCHANGED <<m_nodes, m_alloc_idx, m_loop_idx, flags, event, slot, work, got, caller,
                   stopper, ghost>>

\* ... and take them off the count, which wraps if a caller has not counted its
\* task yet.
SubCount(w) ==
    /\ pc[w] = "sub"
    /\ m_task_count' = (m_task_count - got[w]) % CountRange
    /\ Goto(w, "again")
    /\ UNCHANGED <<m_nodes, m_alloc_idx, m_loop_idx, flags, event, slot, work, got, caller,
                   stopper, ghost>>

Again(w) ==
    /\ pc[w] = "again"
    /\ Goto(w, IF got[w] = 0 /\ m_task_count # 0 THEN "idx" ELSE "share")
    /\ got' = [got EXCEPT ![w] = 0]
    /\ UNCHANGED <<pool, flags, event, slot, work, caller, stopper, ghost>>

\* Is there more to do, and somebody to do it?
Share(w) ==
    /\ pc[w] = "share"
    /\ Goto(w, IF m_task_count # 0 THEN "others" ELSE "exec")
    /\ UNCHANGED <<pool, flags, event, slot, work, got, caller, stopper, ghost>>

Others(w) ==
    /\ pc[w] = "others"
    /\ Goto(w, IF m_idleThreadCount # 0 THEN "nudge" ELSE "exec")
    /\ UNCHANGED <<pool, flags, event, slot, work, got, caller, stopper, ghost>>

Nudge(w) ==
    /\ pc[w] = "nudge"
    /\ tickle
    /\ Goto(w, "exec")
    /\ UNCHANGED <<pool, flags, slot, work, got, caller, stopper, ghost>>

\* Mutant of Exec: the task stays in work_list.
Exec_Keep(w) ==
    /\ pc[w] = "exec" /\ work[w] # <<>>
    /\ executed' = Append(executed, Head(work[w]))
    /\ Goto(w, "running")
    /\ UNCHANGED <<pool, flags, event, slot, work, got, caller, stopper, issued>>

\* curr_task.start() ...
Exec(w) ==
    /\ pc[w] = "exec" /\ work[w] # <<>>
    /\ executed' = Append(executed, Head(work[w]))
    /\ work' = [work EXCEPT ![w] = Tail(@)]
    /\ Goto(w, "running")
    /\ UNCHANGED <<pool, flags, event, slot, got, caller, stopper, issued>>

\* ... returns when the task ends or suspends.
Return(w) ==
    /\ pc[w] = "running" /\ call[w] = "out"
    /\ Goto(w, "exec")
    /\ UNCHANGED <<pool, flags, event, slot, work, got, caller, stopper, ghost>>

\* Mutant of Decide: the loop over work_list may be left before the list is done.
Decide_Early(w) ==
    /\ pc[w] = "exec"
    /\ Goto(w, IF m_stop THEN "exit" ELSE "empty")
    /\ UNCHANGED <<pool, flags, event, slot, work, got, caller, stopper, ghost>>

\* The list is done. m_stop || (getTaskCount() == 0 && m_autoStop) is three loads, one
\* after the other: the count may be stale when m_autoStop is read.
Decide(w) ==
    /\ pc[w] = "exec" /\ work[w] = <<>>
    /\ Goto(w, IF m_stop THEN "exit" ELSE "empty")
    /\ UNCHANGED <<pool, flags, event, slot, work, got, caller, stopper, ghost>>

\* Mutant of DecideCount: the count is not looked at.
DecideCount_Any(w) ==
    /\ pc[w] = "empty"
    /\ Goto(w, "auto")
    /\ UNCHANGED <<pool, flags, event, slot, work, got, caller, stopper, ghost>>

DecideCount(w) ==
    /\ pc[w] = "empty"
    /\ Goto(w, IF m_task_count = 0 THEN "auto" ELSE "more")
    /\ UNCHANGED <<pool, flags, event, slot, work, got, caller, stopper, ghost>>

\* Mutant of DecideAuto: autoStop does not end the loop.
DecideAuto_Stay(w) ==
    /\ pc[w] = "auto"
    /\ Goto(w, "more")
    /\ UNCHANGED <<pool, flags, event, slot, work, got, caller, stopper, ghost>>

DecideAuto(w) ==
    /\ pc[w] = "auto"
    /\ Goto(w, IF m_autoStop THEN "exit" ELSE "more")
    /\ UNCHANGED <<pool, flags, event, slot, work, got, caller, stopper, ghost>>

More(w) ==
    /\ pc[w] = "more"
    /\ Goto(w, IF m_task_count # 0 THEN "top" ELSE "idle")
    /\ UNCHANGED <<pool, flags, event, slot, work, got, caller, stopper, ghost>>

\* IOManager::idle up to epoll_wait.
Idle(w) ==
    /\ pc[w] = "idle"
    /\ m_idleThreadCount' = m_idleThreadCount + 1
    /\ Goto(w, "wait")
    /\ UNCHANGED <<pool, m_autoStop, m_stop, m_threads_count, event, slot, work, got, caller,
                   stopper, ghost>>

\* Mutant of Leave: the thread is still counted as idle.
Leave_StillIdle(w, label) ==
    /\ pc[w] = "wait"
    /\ Goto(w, label)
    /\ UNCHANGED <<pool, flags, counter, slot, work, got, caller, stopper, ghost>>

\* epoll_wait returns, m_mutex is released.
Leave(w, label) ==
    /\ pc[w] = "wait"
    /\ m_idleThreadCount' = m_idleThreadCount - 1
    /\ Goto(w, label)
    /\ UNCHANGED <<pool, m_autoStop, m_stop, m_threads_count, counter, slot, work, got, caller,
                   stopper, ghost>>

\* The eventfd is ready: one waiter is told, and the edge is used up.
Wake(w) == ready /\ counter /\ Leave(w, "drain") /\ ready' = FALSE

\* An edge whose counter was read in the meantime is dropped inside epoll_wait.
DropEdge(w) ==
    /\ pc[w] = "wait" /\ ready /\ ~counter
    /\ ready' = FALSE
    /\ UNCHANGED <<pool, flags, counter, worker, caller, stopper, ghost>>

\* The timeout passes, or another descriptor is ready.
Timeout(w) == ~ready /\ Leave(w, "idle") /\ UNCHANGED ready
IoReady(w) == ~ready /\ Leave(w, "io") /\ UNCHANGED ready

\* Mutant of Drain: the loop in idle goes on although the eventfd was read.
Drain_Loop(w) ==
    /\ pc[w] = "drain" /\ call[w] = "out"
    /\ counter' = FALSE
    /\ Goto(w, "idle")
    /\ UNCHANGED <<pool, flags, ready, slot, work, got, caller, stopper, ghost>>

\* read(m_eventFd) until the counter is 0. Callbacks of other descriptors may run
\* before and after it.
Drain(w) ==
    /\ pc[w] = "drain" /\ call[w] = "out"
    /\ counter' = FALSE
    /\ Goto(w, "drained")
    /\ UNCHANGED <<pool, flags, ready, slot, work, got, caller, stopper, ghost>>

\* Every descriptor is served: back to run if the eventfd was one of them, else
\* epoll_wait again.
Served(w) ==
    /\ pc[w] \in {"drained", "io"} /\ call[w] = "out"
    /\ Goto(w, IF pc[w] = "drained" THEN "top" ELSE "idle")
    /\ UNCHANGED <<pool, flags, event, slot, work, got, caller, stopper, ghost>>

\* The end of run needs m_mutex for itself: no thread may be in epoll_wait.
Exit(w) ==
    /\ pc[w] = "exit"
    /\ \A v \in Workers : pc[v] # "wait"
    /\ m_threads_count' = m_threads_count - 1
    /\ Goto(w, "done")
    /\ UNCHANGED <<pool, m_autoStop, m_stop, m_idleThreadCount, event, slot, work, got, caller,
                   stopper, ghost>>

-----------------------------------------------------------------------------
\* stop and autoStop, called by a thread outside the pool

Flags(auto, stop) == m_autoStop' = auto /\ m_stop' = stop

autoStop ==
    /\ stopper = "out" /\ "autoStop" \in StopKinds
    /\ Quiet => \A p \in Callers : call[p] = "out"
    /\ Flags(TRUE, m_stop)
    /\ stopper' = "emptying"
    /\ UNCHANGED <<pool, m_threads_count, m_idleThreadCount, event, worker, caller, ghost>>

\* while(getTaskCount()) ends.
PoolEmpty ==
    /\ stopper = "emptying" /\ m_task_count = 0
    /\ stopper' = "leaving"
    /\ UNCHANGED <<pool, flags, event, worker, caller, ghost>>

\* while(m_threads_count) tickle(), in autoStop and in stop.
StopTickle ==
    /\ stopper \in {"leaving", "stopping"} /\ m_threads_count # 0
    /\ tickle
    /\ UNCHANGED <<pool, flags, worker, caller, stopper, ghost>>

\* stop() called outright, or by autoStop when the threads have left.
stop ==
    /\ \/ stopper = "out" /\ "stop" \in StopKinds
       \/ stopper = "leaving" /\ m_threads_count = 0
    /\ Flags(m_autoStop, TRUE)
    /\ stopper' = "stopping"
    /\ UNCHANGED <<pool, m_threads_count, m_idleThreadCount, event, worker, caller, ghost>>

\* The loop of stop() ends; the joins return once every thread has ended.
Stopped ==
    /\ stopper = "stopping" /\ m_threads_count = 0
    /\ \A w \in Workers : pc[w] = "done"
    /\ stopper' = "returned"
    /\ UNCHANGED <<pool, flags, event, worker, caller, ghost>>

-----------------------------------------------------------------------------
\* The steps a thread takes on its own, once started.
CallStep(p) == AllocIdx(p) \/ AddTask(p) \/ AddCount(p) \/ CallTickle(p)
RunStep(w) ==
    \/ Top(w) \/ LoopIdx(w) \/ GetTask(w) \/ SubCount(w) \/ Again(w)
    \/ Share(w) \/ Others(w) \/ Nudge(w) \/ Exec(w) \/ Return(w)
    \/ Decide(w) \/ DecideCount(w) \/ DecideAuto(w) \/ More(w) \/ Idle(w)
    \/ Wake(w) \/ DropEdge(w) \/ Drain(w) \/ Served(w) \/ Exit(w)
StopStep == PoolEmpty \/ StopTickle \/ (stopper = "leaving" /\ stop) \/ Stopped

Next ==
    \/ \E p \in Procs : schedule(p) \/ scheduleNext(p) \/ CallStep(p)
    \/ \E w \in Workers : RunStep(w) \/ Timeout(w) \/ IoReady(w)
    \/ autoStop \/ PoolEmpty \/ StopTickle \/ stop \/ Stopped

\* Every thread keeps running. Nothing forces a caller to schedule more, a
\* descriptor to become ready or somebody to stop the pool.
Fairness ==
    /\ \A p \in Procs : WF_vars(CallStep(p))
    /\ \A w \in Workers : WF_vars(RunStep(w))
    /\ WF_vars(StopStep)

Spec == Init /\ [][Next]_vars
FairSpec == Spec /\ Fairness

-----------------------------------------------------------------------------
\* Properties

Labels == {"top", "idx", "take", "sub", "again", "share", "others", "nudge", "exec",
           "running", "empty", "auto", "more", "idle", "wait", "drain", "drained", "io",
           "exit", "done"}

\* Types; the thread counters count the threads they are named for.
TypeOK ==
    /\ m_nodes \in [0..(N - 1) -> Seq(Tasks)]
    /\ m_alloc_idx \in 0..(N - 1) /\ m_loop_idx \in 0..(N - 1)
    /\ m_task_count \in 0..(CountRange - 1)
    /\ m_autoStop \in BOOLEAN /\ m_stop \in BOOLEAN
    /\ counter \in BOOLEAN /\ ready \in BOOLEAN
    /\ pc \in [Workers -> Labels]
    /\ m_threads_count = Cardinality({w \in Workers : pc[w] # "done"})
    /\ m_idleThreadCount = Cardinality({w \in Workers : pc[w] = "wait"})
    /\ slot \in [Workers -> 0..(N - 1)] /\ work \in [Workers -> Seq(Tasks)]
    /\ got \in [Workers -> 0..GetNum]
    /\ call \in [Procs -> {"out", "alloc", "add", "count", "tickle"}]
    /\ node \in [Procs -> 0..(N - 1)] /\ item \in [Procs -> 0..MaxTasks]
    /\ stopper \in {"out", "emptying", "leaving", "stopping", "returned"}
    /\ issued \in 0..MaxTasks /\ executed \in Seq(Tasks)

Queued == UNION {ToSet(m_nodes[i]) : i \in 0..(N - 1)}
Sum(f, S) == FoldFunctionOnSet(+, 0, f, S)

\* TaskPool's counter, whose updates are not atomic with those of the queues,
\* differs from the number of queued tasks only by the tasks that somebody has
\* added and not yet counted, or taken and not yet subtracted.
CountFollowsQueues ==
    LET added == Cardinality({p \in Procs : call[p] = "count"})
        taken == Sum([w \in Workers |-> IF pc[w] = "sub" THEN got[w] ELSE 0], Workers)
        queued == Sum([i \in 0..(N - 1) |-> Len(m_nodes[i])], 0..(N - 1)) IN
    m_task_count = (queued - added + taken) % CountRange

\* No wakeup is lost: while a task is queued, some thread is awake and will look
\* at the count again, or the eventfd is about to wake one, or a caller of schedule
\* has yet to tickle. (Threads that have left after a stop look at nothing.)
NoLostWakeup ==
    Queued # {} /\ ~m_stop /\ ~m_autoStop =>
        \/ \E w \in Workers : pc[w] \notin {"idle", "wait", "exit", "done"}
        \/ counter /\ ready
        \/ \E p \in Procs : call[p] # "out"

\* A scheduled task is started at most once, however many threads poll the nodes.
StartedOnce == IsInjective(executed)

\* Some worker has not gone as far as to read m_autoStop, or to leave.
Remains == \E w \in Workers : pc[w] \notin {"auto", "exit", "done"}

\* A task that has been put into the pool is started in the end: sleeping threads are
\* woken, and the search over the nodes finds it. The exceptions are stop(), and
\* workers that all read the count as 0 just before autoStop() (scheduler.cc:99).
EveryTaskRuns ==
    \A t \in Tasks : t \in Queued ~>
        \/ t \in ToSet(executed)
        \/ m_stop /\ ~m_autoStop
        \/ m_autoStop /\ ~Remains

\* While a soft stop finds a task in the pool, its last worker does not leave: only a
\* count that was read before autoStop() set the flag is stale. With EveryTaskRuns, what
\* is queued at the soft stop is run if one worker has read nothing yet.
SoftStopKeepsWorker == [][m_autoStop /\ Remains /\ Queued' # {} => Remains']_vars

\* stop() returns, and so does autoStop() once it has seen the count at 0: every thread
\* leaves epoll_wait, m_mutex and run().
StopReturns == stopper \in {"leaving", "stopping"} ~> stopper = "returned"

\* When autoStop() has returned, no task is left in a node or in a thread's work_list.
SoftStopLeavesNone ==
    m_autoStop /\ stopper = "returned" => Queued = {} /\ \A w \in Workers : work[w] = <<>>

\* "soft stop (run all tasks to the end)", the comment on m_autoStop (scheduler.h:101):
\* a task that is in the pool at a soft stop is run.
SoftStopFinishes == \A t \in Tasks : m_autoStop /\ t \in Queued ~> t \in ToSet(executed)

=============================================================================
