# A verification of the m_sylar coroutine library

m_sylar (`src/`) is a C++20 coroutine library: a thread pool that runs
coroutines, an epoll loop, hooked system calls, timers, database pools and
TCP, HTTP and WebSocket servers on top. This directory holds TLA+ models of its
concurrent parts, model-checked with TLC on small instances, and proofs, checked
with TLAPS, that hold for every instance. `PROJECT.json` lists the components,
the runs, the source lines that each definition models, the hazards of the code,
the mutants that show each property can fail, and the theorems.

## 1. The system and its parts

| Part | Source (under `src/sylar`) | What it keeps, what changes it | Here |
|---|---|---|---|
| FdContextManager, FdContext | `coroutine/coro20/fdContext.*` | the queue of operations on one descriptor, the election of the thread that runs them, the registered callbacks | `FdContextManager`, `FdSerial` |
| Scheduler, TaskPool | `coroutine/coro20/scheduler.*`, `taskPool.*` | run queues, their counter, the worker loop, two ways to stop | `Scheduler` |
| IOManager | `coroutine/coro20/ioManager.*` | epoll_wait, the wake-up eventfd (modelled in `Scheduler`), `stateSync` (in `FdContextManager`), the event interface over a table of descriptors (left) | partly |
| TimeManager, TimerBlock, TimeTask | `basic/timer/*` | timers in blocks of time, one timerfd | `TimeManager`; the timeout race is left |
| DBPool, MySQL and Redis pools | `DBPool/database.*`, `mysql.cc`, `redis.cc` | free list, counters, waiting callbacks | `DBPool` |
| PackedIDAllocator | `basic/tool.*` | a bitmap and the next free position | `PackedIDAllocator`, `IdPool` |
| Snowflake | `tools/Snowflake.hpp` | last timestamp and sequence | `Snowflake` |
| Task, promise, awaiters | `coroutine/coro20/task.hpp`, `fiber.*` | who destroys and who resumes a coroutine frame | planned |
| Hooked calls | `coroutine/coro20/hook.*` | I/O with time limits | planned |
| FdManager, FdCtx | `basic/fdManager.*` | table of descriptor contexts | planned |
| Thread, Semaphore | `basic/thread.*` | start-up handshake | planned, with `Scheduler` |
| Session, TcpServer, HttpServer, WsServer | `server/*` | accept loops, session tables, send buffer, close handshake | planned |
| WebSocket frames | `protocol/websocket/{websocket_parser,parser,WebSocket}.*` | incremental parser and builder | planned |
| MySQLStmt, results | `DBPool/mysql.{hpp,tpp}` | order of client-library calls | planned |
| Socket, Address, ByteArray, Config, Log, helpers | `basic/*` | system-call wrappers, conversion, output | not modelled |
| HTTP messages; sha1, md5, base64, common | `protocol/*` | third-party code (`THIRD_PARTY.md`) | not modelled |
| Message queue client | `middleware/mq` | a stub | not modelled |

How they interact. A worker of the **Scheduler** runs tasks and, when it finds
none, waits in **IOManager**'s epoll_wait. A ready descriptor becomes a
TRIGGER_TASK of its **FdContextManager**, which runs the registered callback; the
callback usually schedules a coroutine. **TimeManager** is such a descriptor: its
timerfd triggers `onTimerTriggered`, which schedules the timers that are due.
Hooked calls register an event and a timer and suspend. **DBPool** suspends a
query by queueing a callback that schedules the coroutine again.

## 2. Modules, state and actions

An action is a critical section, an operation on an atomic variable, or a step
between two of them. A condition over several atomic variables is several actions,
one for each load, and a critical section is cut where a thread without the lock can
come between its steps and be noticed. What is merged is harmless: `Scheduler` changes
`m_idleThreadCount`, which is counted just outside the lock around epoll_wait,
together with that lock; the loops of `stop` and `autoStop` test the number of threads
and tickle in one step; `init` of a pool, which precedes its use, is one step.
Variables and actions carry the names of the source; the values of `pc` name the place in the
function, and the header of the module lists them. The definitions named
`X_Something` that precede `X` are mutants of `X` and are not used.

**FdContextManager** (`fdContext.cc`). Threads call `addTask`, push under the
lock and then race for two compare-exchanges (`casReady`, `casInit`); the winner
splices the queue (`drain`) and runs the tasks one by one (`run`, with
`callback`, `sync` and `close` inside a task), assigns `m_state` (`settle`) and
looks again (`recheck`). Callbacks re-enter `addTask`. The epoll interest
(`kernel`) changes as `IOManager::stateSync` says. A closed descriptor's number
may be reused. A callback may throw, which leaves the manager BUSY for ever.

**FdSerial** is what callers may rely on: operations take effect one at a time,
in the order of registration, each exactly once. FdContextManager implements it
with `pending` mapped to the solver's list followed by `m_tasks`.

**Scheduler** (`scheduler.cc`, `scheduler.h`, `taskPool.cc`, idle and tickle of
`ioManager.cc`). Workers go through `run`; `schedule` is called by other threads,
by tasks and by callbacks of descriptors, for one task or a batch. Adding a task
and counting it are two steps, as are taking and subtracting. The eventfd is a
counter that is positive or not and an edge in the epoll ready list: a write makes a
new edge, one waiter uses it up, and an edge whose counter has been read is dropped.
A leaving worker needs the lock that waiting workers share. The condition under which
a worker leaves, `m_stop || (getTaskCount() == 0 && m_autoStop)`, is the three actions
`Decide`, `DecideCount` and `DecideAuto`: what was true of the count need not be true
any more when the flag is read.

**DBPool** (`database.tpp` and the `executeQuery` loops). Clients borrow, expand
or wait; a connection returns through `returnConn`, with or without a
reconnection, and `tickle` schedules waiters. `close` takes no lock, so it also
comes between the test and the push of `registeConnCb`, between the test and the
write of `m_state` in `returnConn` (`Settle`, `Reopen`) and between the test in
`borrowOneConn` and its write (`Fill`); CLOSING is then overwritten. The limits of a
pool are those of its constructor, chosen in `Init`. Clients start queries without
bound until `ArrivalsEnd`. `Spec` has connections that never
fail; `FailSpec` adds failures.

**TimeManager** (`timer.cc`, `timer_block.cc`, `timer_task.*`). Threads insert
and run timers; `onTimerTriggered` is one further process, since FdContextManager
runs the callbacks of a descriptor one at a time (theorem `MutualExclusion`). The
clock may advance between any two steps. A block that is removed from the map
while a thread holds a pointer to it becomes `Erased`. Re-arming the timerfd takes
back an expiration that epoll has not reported, as timerfd_settime does.

**PackedIDAllocator** (`tool.cc`). `alloc` and `free` hold one lock throughout
and are one step each. The bitmap grows until `MaxSize`, where the allocation of
memory fails and the position becomes (0, -1), from which `alloc` shifts by -1
(63 on x86-64). **IdPool** is the promise: no id is lent twice.

**Snowflake** (`Snowflake.hpp`). Several nodes, each with its clock, its lock held
throughout `nextid`; a node may restart, which forgets everything.

## 3. What the runs check

| Run | Instance | Shows |
|---|---|---|
| `fdctx_events` | 3 threads, 3 tasks of all five kinds, one reuse of the number, throwing callbacks; symmetric threads | one solver at a time; no task stranded; "true" from addTask means that the task ran; epoll in step with the FdContext; FIFO |
| `fdctx_refine` | 2 threads, 3 tasks | implements FdSerial; every registered task runs |
| `ids_alloc` | 2 clients, chunks of 2 bits, 1 to 4 chunks | implements IdPool; ids stay packed |
| `snowflake` | 3 nodes (two share a data center, two a worker number), 2 sequence numbers | ids increase; nodes are disjoint |
| `sched_run` | 2 workers, 1 other thread, 3 tasks, 2 taken at a time | the counter follows the queues; no wake-up lost; tasks start once; a soft stop that returns leaves nothing; its last worker stays while it finds a task |
| `sched_progress` | the same with 2 tasks, 1 taken at a time, fair | queued tasks start unless a stop overtakes them; stop returns, and autoStop once it has found the pool empty |
| `sched_stale_count` | 1 task, nobody calls schedule during autoStop, fair | *violated*: a task in the pool at the soft stop is never run |
| `db_lending` | 3 clients; pools of 0 to 2, 1 to 2 and 1 connections; any number of queries; close at any time | a connection has one user; none is lost; waiters are expected; queries end once no more arrive |
| `db_expand_fails` | 2 clients, failing connections | *violated*: an index out of range is lent |
| `timer_blocks` | 2 threads, 2 timers, blocks of 2 ms, one repetition; symmetric | a timer is in one place and never early; counter and alarm in step |
| `timer_progress` | 1 inserting thread against the callback, fair | a timer in the map is scheduled |
| `timer_erased` | 2 threads, 2 timers | *violated*: a timer gets into a removed block |

Why the bounds are enough. The hazards are races of two or three parties: three
threads suffice for a pusher, a solver that leaves and a third that changes
`m_state` between the two exchanges. Three tasks on two nodes put two tasks into
one node (`sched_run`); two tasks already make one read of the eventfd swallow two
tickles (`sched_progress`). Of three clients, two wait for a single connection, so that
one of them may be woken while the other stays queued and a newcomer takes the
connection; a pool that grows from one connection to two is expanded while the first
is lent. Two timers are
enough for one to be inserted while the other expires in the same block or in a
later one; the clock stops only while nothing is armed (`MaxTime`), so that every
alarm is reached. Counters of 32 or 64 bits are reduced modulo `CountRange`, which
is larger than any difference that occurs, so that a wrap below zero remains
visible. Two bits per chunk show both positions of a bit, and four chunks show
growth, reuse and failure.

Deadlock is not checked where the system may really stop (all tasks done, pool
stopped, bound reached); progress is checked as liveness instead. `ids_alloc`
checks it.

### Fairness

* FdContextManager: weak fairness of each thread's steps inside `addTask`; no call
  is forced. The operating system runs runnable threads.
* Scheduler: weak fairness of each worker, of each caller inside `schedule`, and of
  the thread inside stop. Timeouts of epoll_wait and other descriptors are not
  forced, so a lost wake-up is not repaired by chance.
* DBPool: weak fairness of each query and of reconnections; `close` is not forced.
  Nothing forces queries to arrive or to stop arriving: `QueriesEnd` says what happens
  once they do stop. While newcomers arrive, one of them may take the connection that a
  waiter was woken for, and the waiter queues again at the end; nothing in the code
  bounds how often, so no query is claimed to end before.
* TimeManager: the clock advances, the timerfd expires, epoll reports it, and
  threads inside the functions go on.

## 4. What is proved

The proofs hold for every number of threads, tasks, clients, nodes and chunks.

**FdContextManagerProofs.** Assumptions: the operations are of the five kinds
(`RequestsAssumption`). Proved: `TypeCorrect`, `MutualExclusion`,
`NothingStranded`, `TrueMeansExecuted`, `KernelInStep`, `InOrder`, and
`ImplementsSerial` (initial state and every step of FdSerial, for callbacks that
do not throw). The inductive invariant `IInv` adds to the checked invariants:
`BusyMeansSolver` (m_state is BUSY exactly while a thread solves, or for ever after an exception, which is why an
exchange can succeed for one thread only), `BatchShape`, `Numbered` (executed,
spliced and queued tasks are numbered without gaps, which gives the order) and
`KernelFollows` (how far epoll is behind inside a task, as long as the kernel has refused no epoll_ctl,
which stateSync only logs). One lemma for each action
shows that it preserves `IInv`; the refinement rests on `Numbered` and on the fact
that only the solver changes its list.

**PackedIDAllocatorProofs.** Assumptions: positive chunk width and initial size.
Proved: `TypeCorrect`, `IdsPacked`, `ImplementsPool`. Invariant: held ids are marked,
clients hold disjoint sets, the prepared position is free unless it is (0, -1), and,
until an expansion fails, everything in front of it is held.

**SnowflakeProofs.** Assumptions: the fields are not empty and the configured ids
fit them, as `init` demands. Proved: `TypeCorrect`, `IdsIncrease`, `NodesDisjoint`.
Invariant: each given id is composed of a time, the node's numbers and a sequence, and is
not ahead of (`last_timestamp_`, `sequence_`); clocks do not go back. Disjointness is
the uniqueness of that decomposition.

Only model-checked: everything about Scheduler, DBPool and TimeManager, and all
liveness properties, which the prover does not support.

## 5. Disagreements between the code and what it says

Shown by a run (see `findings`):

1. `sched_stale_count`: `scheduler.h:101` promises that a soft stop runs all tasks. A
   worker reads the count as 0 (`scheduler.cc:99`), `schedule()` and then `autoStop()`
   happen, the worker reads `m_autoStop` and leaves. If it was the last, the task is never
   run and `autoStop()` waits at `scheduler.cc:140` for ever. `SoftStopKeepsWorker` and
   `EveryTaskRuns` show, on their instances, that nothing else strands a task as long as
   `schedule` and `autoStop` do not overlap: one worker that has not read the count yet is
   enough.
2. `db_expand_fails`: the assertion at `database.tpp:174` fails after a connection
   failed inside `expand()`.
3. `timer_erased`: the comment at `timer.cc:110` says that the lock keeps timers out
   of blocks that are being removed; the insertion happens after the unlock.

Met while modelling, without a run of its own: `schedule` tests `m_autoStop` before it
adds the task (`scheduler.h:64`), so that a call from outside that overlaps `autoStop()`
leaves its task in the stopped pool (`SoftStopLeavesNone` fails when `Quiet` is FALSE); a
callback that `registeConnCb` pushes after `close()` has found the list empty is never
run, although `database.hpp:155` says that all are woken; an overdue timer may be dropped
(`timer.cc:448` against `docs/basic_modules/timer.md:179`); a timer may be run late
because of a stale `m_nextTimerTime`; a failed epoll_ctl leaves a context that
nothing monitors; a query that finds the pool closing stays suspended; `close()` is
undone when its CLOSING is overwritten by FULL or READY; a second
`init()` of a pool duplicates its free list; `free(getSize())` passes the range
check; `Redis::getInstance` creates the wrong pool. `hazards` has most of the places.

Assumptions that the passing runs make on purpose: other threads do not call
`schedule` during `autoStop` (`Quiet`); connections do not fail in `db_lending`;
no client frees an id it never got; a node restarts only after its clock has
passed its last id.

## 6. Plan

1. **TimeLimit**: `addEventWithTimeout` and `addTaskWithTimeout`, the exchange between
   event and timeout; then `do_io` and `co_connect` on top. Property: the callback runs
   exactly once and sees the right outcome. Proof: inductive invariant of the exchange.
2. **Task**: frame lifetime of Task, promise and awaiter (`task.hpp`): destroyed exactly
   once, never resumed after that, resumed at most once for each suspension. Proof of the same.
3. **WsSession** and **WsServer**: send buffer (frames in order, none stranded, never two
   writers), close handshake, session table, composed with `TimeManager` for the ping timer.
4. **IOManager**: event interface over a table of FdContextManagers (by `FdSerial`),
   with `ResizeEvents`, `addOnceEvent` and the reuse of descriptors; **FdManager**.
5. **TcpServer**, **HttpServer**, **Session**: accept loop, start and stop, the loop over a
   connection with its limits.
6. **WebSocket frames**: the incremental parser as a function, against a reference decoder
   on bounded inputs and all ways to cut them; **MySQLStmt** as a protocol of calls.
7. Proofs: `CountFollowsQueues` and `StartedOnce` of Scheduler, `Exclusive` and
   `Accounting` of DBPool, `OnePlace` and `NeverEarly` of TimeManager.

Runs of components that share an instance are to be merged as the project grows, so
that each run keeps asking a question of its own.
