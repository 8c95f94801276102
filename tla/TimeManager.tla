---------------------------- MODULE TimeManager ----------------------------
(***************************************************************************)
(* The timers of basic/timer: TimeManager, its TimerBlocks and one timerfd.*)
(*                                                                         *)
(* Threads add timers (insertTimeTask) and run the ones that are due       *)
(* (runTimeTask, which inserts a cyclic timer again). A thread's pc is     *)
(*   free     in no function of the module   put    TimerBlock::insert     *)
(*   run      in the timer's callback        check  execute_time <         *)
(*   insert   insertTimeTask begins                 m_nextTimerTime ?      *)
(*   get      getOrCreateTimerBlock begins   arm    updateTimerFd begins   *)
(*   find     the shared lock                set    the lock of the timerfd*)
(*   make     the unique lock                count  m_timerCount++         *)
(*                                                                         *)
(* onTimerTriggered runs on another worker, one call at a time, since      *)
(* FdContextManager serialises the callbacks of a descriptor; tpc is       *)
(*   idle, take (getAndRemove of the blocks in todo, then the unique lock),*)
(*   reset (m_nextTimerTime, still locked), arm, set, schedule.            *)
(*                                                                         *)
(* The clock may advance between any two steps.                            *)
(***************************************************************************)
EXTENDS Integers, FiniteSets, FiniteSetsExt

CONSTANTS Timers, Threads, NoTimer,
          Delays,           \* the ms given to TimeTask::create
          m_block_size_ms,
          MaxTime,          \* bound on the clock while nothing is armed
          MaxCycles,        \* bound on the insertions of cyclic timers after a run
          CountRange        \* 2^64, the range of m_timerCount

ASSUME TimeAssumption ==
    /\ NoTimer \notin Timers
    /\ Delays \subseteq Nat /\ m_block_size_ms \in Nat \ {0}
    /\ MaxTime \in Nat /\ MaxCycles \in Nat
    /\ CountRange \in Nat /\ CountRange > 2 * Cardinality(Timers)

VARIABLES
    now,                            \* GetCurrentMS()
    m_time_blocks, tasks,           \* the blocks in the map, by their start; which timer
                                    \* is in which block: a set of <<block, timer>>
    m_nextTimerTime, m_timerCount,
    armed, readable, triggers,      \* the timerfd: when it expires; epoll has an event;
                                    \* calls of onTimerTriggered that are queued
    closed,                         \* the timerfd is no longer monitored
    timer,                          \* a record for each TimeTask; see NewTimer
    ready,                          \* timers scheduled to run
    cycles,                         \* how often a cyclic timer was inserted again
    pc, cur, time, blk, delay,      \* a thread's timer, execute_time, block, it_value
    tpc, tnow, todo, expired, next, tdelay      \* onTimerTriggered

clock   == <<now, closed, cycles>>
blocks  == <<m_time_blocks, tasks>>
timerfd == <<armed, readable, m_nextTimerTime>>
local   == <<pc, cur, time, blk, delay>>
trigger == <<tpc, tnow, todo, expired, next, tdelay>>
vars == <<now, closed, cycles, m_time_blocks, tasks, armed, readable, m_nextTimerTime,
          m_timerCount, triggers, timer, ready, pc, cur, time, blk, delay, tpc, tnow, todo,
          expired, next, tdelay>>

Never == 999                 \* UINT64_MAX
NoBlock == -1
Erased == -2                 \* a block that was removed from the map

\* The start of the block of a time, m_base_time being 0.
BlockOf(ms) == (ms \div m_block_size_ms) * m_block_size_ms
EndOf(b) == b + m_block_size_ms

\* A TimeTask: m_execute_ms, m_intreval_ms, shouldReEnroll(), and whether it is yet
\* to be created. It is released when it will not be inserted again.
NewTimer == [ms |-> 0, interval |-> 0, cycle |-> FALSE, new |-> TRUE]
GoneTimer == [NewTimer EXCEPT !.new = FALSE]

\* init().
Init ==
    /\ now = 0 /\ closed = FALSE /\ cycles = 0
    /\ m_time_blocks = {} /\ tasks = {}
    /\ armed = Never /\ readable = FALSE /\ m_nextTimerTime = Never
    /\ m_timerCount = 0 /\ triggers = 0
    /\ timer = [t \in Timers |-> NewTimer]
    /\ ready = {}
    /\ pc = [p \in Threads |-> "free"]
    /\ cur = [p \in Threads |-> NoTimer]
    /\ time = [p \in Threads |-> 0]
    /\ blk = [p \in Threads |-> NoBlock]
    /\ delay = [p \in Threads |-> 0]
    /\ tpc = "idle" /\ tnow = 0 /\ todo = {} /\ expired = {} /\ next = Never /\ tdelay = 0

Goto(p, label) == pc' = [pc EXCEPT ![p] = label]
Done(p) ==
    /\ Goto(p, "free")
    /\ cur' = [cur EXCEPT ![p] = NoTimer] /\ time' = [time EXCEPT ![p] = 0]
    /\ blk' = [blk EXCEPT ![p] = NoBlock] /\ delay' = [delay EXCEPT ![p] = 0]

In(b) == {t \in Timers : <<b, t>> \in tasks}
Unlocked == tpc # "reset"       \* nobody holds m_mutex across a step but the trigger

-----------------------------------------------------------------------------
\* Adding a timer

\* TimeTask::create and addTimer or addConditionTimer.
addTimer(p, t) ==
    \E ms \in Delays, cycle \in BOOLEAN :
        /\ cycle => cycles < MaxCycles
        /\ pc[p] = "free" /\ timer[t].new
        /\ timer' = [timer EXCEPT ![t] = [ms |-> now + ms, interval |-> ms, cycle |-> cycle,
                                          new |-> FALSE]]
        /\ cur' = [cur EXCEPT ![p] = t]
        /\ Goto(p, "insert")
        /\ UNCHANGED <<clock, blocks, timerfd, m_timerCount, triggers, ready, time, blk, delay,
                       trigger>>

\* A timer that is due is scheduled at once.
insertTimeTask(p) ==
    LET t == cur[p] IN
    /\ pc[p] = "insert"
    /\ IF timer[t].ms <= now
       THEN /\ ready' = ready \cup {t}
            /\ Done(p)
       ELSE /\ time' = [time EXCEPT ![p] = timer[t].ms]
            /\ Goto(p, "get")
            /\ UNCHANGED <<ready, cur, blk, delay>>
    /\ UNCHANGED <<clock, blocks, timerfd, m_timerCount, triggers, timer, trigger>>

\* The clock is read again: a timer that has become overdue is dropped.
getOrCreateTimerBlock(p) ==
    /\ pc[p] = "get"
    /\ IF time[p] < now
       THEN timer' = [timer EXCEPT ![cur[p]] = GoneTimer] /\ Done(p)
       ELSE Goto(p, "find") /\ UNCHANGED <<timer, cur, time, blk, delay>>
    /\ UNCHANGED <<clock, blocks, timerfd, m_timerCount, triggers, ready, trigger>>

Find(p) ==
    LET b == BlockOf(time[p]) IN
    /\ pc[p] = "find" /\ Unlocked
    /\ IF b \in m_time_blocks
       THEN blk' = [blk EXCEPT ![p] = b] /\ Goto(p, "put")
       ELSE Goto(p, "make") /\ UNCHANGED blk
    /\ UNCHANGED <<clock, blocks, timerfd, m_timerCount, triggers, timer, ready, cur, time,
                   delay, trigger>>

\* Mutant of Make: a block of its own for each time.
Make_Unaligned(p) ==
    /\ pc[p] = "make" /\ Unlocked
    /\ m_time_blocks' = m_time_blocks \cup {time[p]}
    /\ blk' = [blk EXCEPT ![p] = time[p]]
    /\ Goto(p, "put")
    /\ UNCHANGED <<clock, tasks, timerfd, m_timerCount, triggers, timer, ready, cur, time,
                   delay, trigger>>

Make(p) ==
    LET b == BlockOf(time[p]) IN
    /\ pc[p] = "make" /\ Unlocked
    /\ m_time_blocks' = m_time_blocks \cup {b}
    /\ blk' = [blk EXCEPT ![p] = b]
    /\ Goto(p, "put")
    /\ UNCHANGED <<clock, tasks, timerfd, m_timerCount, triggers, timer, ready, cur, time,
                   delay, trigger>>

\* TimerBlock::insert, under the lock of the block only.
Put(p) ==
    /\ pc[p] = "put"
    /\ tasks' = tasks \cup {<<blk[p], cur[p]>>}
    /\ blk' = [blk EXCEPT ![p] = NoBlock] /\ cur' = [cur EXCEPT ![p] = NoTimer]
    /\ Goto(p, "check")
    /\ UNCHANGED <<clock, m_time_blocks, timerfd, m_timerCount, triggers, timer, ready, time,
                   delay, trigger>>

Check(p) ==
    /\ pc[p] = "check"
    /\ Goto(p, IF time[p] < m_nextTimerTime THEN "arm" ELSE "count")
    /\ UNCHANGED <<clock, blocks, timerfd, m_timerCount, triggers, timer, ready, cur, time,
                   blk, delay, trigger>>

\* updateTimerFd: the delay is computed from one reading of the clock ...
DelayUntil(ms) == IF ms <= now THEN 1 ELSE ms - now

\* ... and counts from the moment of timerfd_settime, which also takes back an
\* expiration that epoll has not reported yet.
SetTime(ms, d) ==
    IF ms >= m_nextTimerTime THEN UNCHANGED timerfd
    ELSE /\ armed' = now + d /\ readable' = FALSE
         /\ m_nextTimerTime' = ms

updateTimerFd(p) ==
    /\ pc[p] = "arm"
    /\ delay' = [delay EXCEPT ![p] = DelayUntil(time[p])]
    /\ Goto(p, "set")
    /\ UNCHANGED <<clock, blocks, timerfd, m_timerCount, triggers, timer, ready, cur, time,
                   blk, trigger>>

Set(p) ==
    /\ pc[p] = "set"
    /\ SetTime(time[p], delay[p])
    /\ Goto(p, "count")
    /\ UNCHANGED <<clock, blocks, m_timerCount, triggers, timer, ready, cur, time, blk, delay,
                   trigger>>

Count(p) ==
    /\ pc[p] = "count"
    /\ m_timerCount' = (m_timerCount + 1) % CountRange
    /\ Done(p)
    /\ UNCHANGED <<clock, blocks, timerfd, triggers, timer, ready, trigger>>

cancelTimer(t) ==
    /\ timer[t].cycle
    /\ timer' = [timer EXCEPT ![t].cycle = FALSE]
    /\ UNCHANGED <<clock, blocks, timerfd, m_timerCount, triggers, ready, local, trigger>>

-----------------------------------------------------------------------------
\* Running a timer

\* runTimeTask: the callback, canceled or not ...
runTimeTask(p, t) ==
    /\ pc[p] = "free" /\ t \in ready
    /\ ready' = ready \ {t}
    /\ cur' = [cur EXCEPT ![p] = t]
    /\ Goto(p, "run")
    /\ UNCHANGED <<clock, blocks, timerfd, m_timerCount, triggers, timer, time, blk, delay,
                   trigger>>

\* ... then TimeTask::next, and a cyclic timer is inserted again.
Ran(p) ==
    LET t == cur[p] IN
    /\ pc[p] = "run"
    /\ timer[t].cycle => cycles < MaxCycles
    /\ IF timer[t].cycle
       THEN /\ timer' = [timer EXCEPT ![t].ms = @ + timer[t].interval]
            /\ cycles' = cycles + 1
            /\ Goto(p, "insert")
            /\ UNCHANGED <<cur, time, blk, delay>>
       ELSE /\ timer' = [timer EXCEPT ![t] = GoneTimer]
            /\ Done(p)
            /\ UNCHANGED cycles
    /\ UNCHANGED <<now, closed, blocks, timerfd, m_timerCount, triggers, ready, trigger>>

-----------------------------------------------------------------------------
\* The timerfd and its callback

Tick ==
    /\ now < MaxTime \/ (armed # Never /\ now < armed)
    /\ now' = now + 1
    /\ UNCHANGED <<closed, cycles, blocks, timerfd, m_timerCount, triggers, timer, ready, local,
                   trigger>>

\* The time of the timerfd has come; it is not periodic.
Expire ==
    /\ armed <= now
    /\ armed' = Never /\ readable' = TRUE
    /\ UNCHANGED <<clock, blocks, m_nextTimerTime, m_timerCount, triggers, timer, ready, local,
                   trigger>>

\* epoll reports the edge and the worker queues a TRIGGER_TASK.
Deliver ==
    /\ readable /\ ~closed
    /\ readable' = FALSE /\ triggers' = triggers + 1
    /\ UNCHANGED <<clock, blocks, armed, m_nextTimerTime, m_timerCount, timer, ready, local,
                   trigger>>

\* close(): the event is deleted, behind the calls that are queued.
close ==
    /\ ~closed
    /\ closed' = TRUE
    /\ UNCHANGED <<now, cycles, blocks, timerfd, m_timerCount, triggers, timer, ready, local,
                   trigger>>

\* The blocks that begin before now.
onTimerTriggered ==
    /\ tpc = "idle" /\ triggers > 0
    /\ triggers' = triggers - 1
    /\ tnow' = now
    /\ todo' = {b \in m_time_blocks : b <= now}
    /\ tpc' = "take"
    /\ UNCHANGED <<clock, blocks, timerfd, m_timerCount, timer, ready, local, expired, next,
                   tdelay>>

\* Mutant of getAndRemove: the timers stay in the block.
getAndRemove_Keep ==
    LET b == Min(todo) IN
    /\ tpc = "take" /\ todo # {}
    /\ expired' = expired \cup {t \in In(b) : timer[t].ms <= tnow}
    /\ todo' = todo \ {b}
    /\ UNCHANGED <<clock, blocks, timerfd, m_timerCount, triggers, timer, ready, local, tpc,
                   tnow, next, tdelay>>

\* Mutant of getAndRemove: the ms of compensation is added to now.
getAndRemove_OneMs ==
    LET b == Min(todo)
        due == {t \in In(b) : timer[t].ms <= tnow + 1} IN
    /\ tpc = "take" /\ todo # {}
    /\ expired' = expired \cup due
    /\ tasks' = {e \in tasks : ~(e[1] = b /\ e[2] \in due)}
    /\ todo' = todo \ {b}
    /\ UNCHANGED <<clock, m_time_blocks, timerfd, m_timerCount, triggers, timer, ready, local,
                   tpc, tnow, next, tdelay>>

\* getAndRemove of one block.
getAndRemove ==
    LET b == Min(todo)
        due == {t \in In(b) : timer[t].ms <= tnow} IN
    /\ tpc = "take" /\ todo # {}
    /\ expired' = expired \cup due
    /\ tasks' = {e \in tasks : ~(e[1] = b /\ e[2] \in due)}
    /\ todo' = todo \ {b}
    /\ UNCHANGED <<clock, m_time_blocks, timerfd, m_timerCount, triggers, timer, ready, local,
                   tpc, tnow, next, tdelay>>


\* Under the lock: remove the blocks that are over or empty, look for the first
\* timer that is left. Threads that have found such a block go on using it.
Clean ==
    LET gone == {b \in m_time_blocks : EndOf(b) <= tnow \/ In(b) = {}}
        left == m_time_blocks \ gone
        Moved(b) == IF b \in gone THEN Erased ELSE b IN
    /\ tpc = "take" /\ todo = {}
    /\ m_time_blocks' = left
    /\ tasks' = {<<Moved(e[1]), e[2]>> : e \in tasks}
    /\ blk' = [p \in Threads |-> Moved(blk[p])]
    /\ next' = IF left = {} THEN Never ELSE Min({timer[t].ms : t \in In(Min(left))})
    /\ tpc' = "reset"
    /\ UNCHANGED <<clock, timerfd, m_timerCount, triggers, timer, ready, pc, cur, time, delay,
                   tnow, todo, expired, tdelay>>


\* ... and forget the time of the timerfd.
Reset ==
    /\ tpc = "reset"
    /\ m_nextTimerTime' = Never
    /\ tpc' = IF next = Never THEN "schedule" ELSE "arm"
    /\ tnow' = 0
    /\ UNCHANGED <<clock, blocks, armed, readable, m_timerCount, triggers, timer, ready, local,
                   todo, expired, next, tdelay>>

Rearm ==
    /\ tpc = "arm"
    /\ tdelay' = DelayUntil(next)
    /\ tpc' = "set"
    /\ UNCHANGED <<clock, blocks, timerfd, m_timerCount, triggers, timer, ready, local, tnow,
                   todo, expired, next>>

SetNext ==
    /\ tpc = "set"
    /\ SetTime(next, tdelay)
    /\ tpc' = "schedule" /\ next' = Never /\ tdelay' = 0
    /\ UNCHANGED <<clock, blocks, m_timerCount, triggers, timer, ready, local, tnow, todo,
                   expired>>

\* Mutant of Schedule: the timer is not counted off.
Schedule_NoCount ==
    \E t \in expired :
        /\ tpc = "schedule"
        /\ ready' = ready \cup {t}
        /\ expired' = expired \ {t}
        /\ UNCHANGED <<clock, blocks, timerfd, m_timerCount, triggers, timer, local, tpc, tnow,
                       todo, next, tdelay>>

\* Count off and schedule one timer.
Schedule ==
    \E t \in expired :
        /\ tpc = "schedule"
        /\ m_timerCount' = (m_timerCount - 1) % CountRange
        /\ ready' = ready \cup {t}
        /\ expired' = expired \ {t}
        /\ UNCHANGED <<clock, blocks, timerfd, triggers, timer, local, tpc, tnow, todo, next,
                       tdelay>>

Triggered ==
    /\ tpc = "schedule" /\ expired = {}
    /\ tpc' = "idle"
    /\ UNCHANGED <<clock, blocks, timerfd, m_timerCount, triggers, timer, ready, local, tnow,
                   todo, expired, next, tdelay>>

-----------------------------------------------------------------------------
InsertStep(p) ==
    \/ insertTimeTask(p) \/ getOrCreateTimerBlock(p) \/ Find(p) \/ Make(p) \/ Put(p)
    \/ Check(p) \/ updateTimerFd(p) \/ Set(p) \/ Count(p)
RunStep(p) == Ran(p) \/ \E t \in Timers : runTimeTask(p, t)
TriggerStep ==
    \/ onTimerTriggered \/ getAndRemove \/ Clean \/ Reset \/ Rearm \/ SetNext \/ Schedule
    \/ Triggered

Next ==
    \/ \E p \in Threads, t \in Timers : addTimer(p, t)
    \/ \E p \in Threads : InsertStep(p) \/ RunStep(p)
    \/ \E t \in Timers : cancelTimer(t)
    \/ Tick \/ Expire \/ Deliver \/ close
    \/ TriggerStep

\* The workers run, the clock advances, the timerfd expires and epoll reports it.
Fairness ==
    /\ \A p \in Threads : WF_vars(InsertStep(p)) /\ WF_vars(RunStep(p))
    /\ WF_vars(Tick) /\ WF_vars(Expire) /\ WF_vars(Deliver) /\ WF_vars(TriggerStep)

Spec == Init /\ [][Next]_vars
FairSpec == Spec /\ Fairness

-----------------------------------------------------------------------------
\* Properties

Stored == {e[2] : e \in tasks}
Handled == {cur[p] : p \in Threads}
Uncounted == {p \in Threads : pc[p] \in {"check", "arm", "set", "count"}}

\* Types.
TypeOK ==
    /\ now \in Nat /\ cycles \in 0..MaxCycles /\ closed \in BOOLEAN /\ readable \in BOOLEAN
    /\ armed \in Nat /\ m_nextTimerTime \in Nat /\ next \in Nat
    /\ triggers \in Nat /\ m_timerCount \in 0..(CountRange - 1)
    /\ \A b \in m_time_blocks : b = BlockOf(b)
    /\ tasks \subseteq (m_time_blocks \cup {Erased}) \X Timers
    /\ timer \in [Timers -> [ms : Nat, interval : Nat, cycle : BOOLEAN, new : BOOLEAN]]
    /\ ready \subseteq Timers /\ expired \subseteq Timers
    /\ pc \in [Threads -> {"free", "run", "insert", "get", "find", "make", "put", "check",
                           "arm", "set", "count"}]
    /\ \A p \in Threads : pc[p] = "put" => blk[p] \in m_time_blocks \cup {Erased}
    /\ tpc \in {"idle", "take", "reset", "arm", "set", "schedule"}
    /\ todo \subseteq m_time_blocks

\* A timer is in one place at a time, so that each insertion runs it at most once:
\* blocks, expired list, run queue and the threads that insert or run timers.
OnePlace ==
    /\ \A e, f \in tasks : e[2] = f[2] => e = f
    /\ Stored \cap expired = {} /\ Stored \cap ready = {} /\ expired \cap ready = {}
    /\ (Stored \cup expired \cup ready) \cap Handled = {}
    /\ \A p, q \in Threads : p # q /\ cur[p] = cur[q] => cur[p] = NoTimer

\* No timer is handed to the scheduler before its execute_time.
NeverEarly == [][\A t \in ready' \ ready : now >= timer[t].ms]_vars

\* getTimerCount() is the number of timers in blocks or about to be scheduled, up to
\* the threads that have yet to count what they stored. A timer that got into a removed
\* block stays in Stored: nobody counts it off, and getTimerCount() never returns to 0.
CountFollowsBlocks ==
    m_timerCount = (Cardinality(Stored) + Cardinality(expired)
                    - Cardinality(Uncounted)) % CountRange



\* The comment on the lock in onTimerTriggered: no timer gets into a block that is
\* being removed.
NoTimerErased == \A t \in Timers : <<Erased, t>> \notin tasks
=============================================================================
