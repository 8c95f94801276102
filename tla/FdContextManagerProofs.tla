----------------------- MODULE FdContextManagerProofs -----------------------
(***************************************************************************)
(* Proofs about FdContextManager, for any set of threads, any operations   *)
(* and any number of them.                                                 *)
(***************************************************************************)
EXTENDS FdContextManager, SequenceTheorems, TLAPS

-----------------------------------------------------------------------------
\* The inductive invariant.

\* m_state is BUSY exactly while a thread solves, and for ever once an exception
\* has left solveSingleTask.
BusyMeansSolver ==
    /\ \A t \in Threads : Solving(t) => m_state = "BUSY" /\ ~thrown
    /\ m_state = "BUSY" /\ ~thrown => \E t \in Threads : Solving(t)
    /\ thrown => m_state = "BUSY"

\* A local list is empty except while its tasks run.
BatchShape ==
    \A t \in Threads :
        /\ pc[t] \notin {"run", "callback", "sync", "close"} => batch[t] = <<>>
        /\ pc[t] = "run" => batch[t] # <<>>

\* Tasks are numbered without gaps: those that ran, those of the solver's list,
\* those of the queue.
Numbered ==
    /\ \A i \in 1..Len(m_tasks) : m_tasks[i].id = (issued - Len(m_tasks)) + i
    /\ \A t \in Threads : Solving(t) =>
           /\ \A i \in 1..Len(batch[t]) : batch[t][i].id = ran + i
           /\ issued - Len(m_tasks) = ran + Len(batch[t])
    /\ ~thrown /\ (\A t \in Threads : ~Solving(t)) => issued - Len(m_tasks) = ran
    /\ ran <= issued - Len(m_tasks)
    /\ \A t \in Threads : mine[t] <= issued

\* How far the epoll interest is behind the FdContext.
KernelFollows ==
    /\ \A t \in Threads :
          /\ pc[t] = "callback" => origin[t] = m_event
          /\ pc[t] = "sync" /\ ~syncFailed => kernel = origin[t]
          /\ pc[t] = "close" => m_event = NONE
          /\ pc[t] = "sync" /\ cur[t].op \in {"CLOSE", "CLOSE_NOCLOSEFD"} => m_event = NONE
          /\ pc[t] = "callback" => cur[t].op = "TRIGGER"
    /\ (\A t \in Threads : pc[t] # "sync") /\ ~syncFailed => kernel = m_event

IInv == /\ TypeOK /\ OneSolver /\ BusyMeansSolver /\ NoTaskStranded
        /\ BatchShape /\ Numbered /\ TrueMeansRun /\ KernelFollows

-----------------------------------------------------------------------------

LEMMA InitEstablishes == Init => IInv
<1> SUFFICES ASSUME Init PROVE IInv
  OBVIOUS
<1>1. TypeOK
  <2>1. inner \in [Threads -> BOOLEAN] /\ thrown \in BOOLEAN /\ fdOpen \in BOOLEAN /\ syncFailed \in BOOLEAN
    BY Zenon DEF Init
  <2>2. NoTask \in Task /\ NONE \in Event
    BY DEF NONE, Event, NoTask, Task, Ops
  <2>3. m_cb \in [{"READ", "WRITE"} -> Nat]
    BY DEF Init, Serial!ResetCb, Serial!Events, Serial!NoTask
  <2> QED  BY <2>1, <2>2, <2>3 DEF Init, TypeOK
<1>2. OneSolver /\ BusyMeansSolver /\ NoTaskStranded /\ BatchShape /\ TrueMeansRun /\ KernelFollows
  BY DEF Init, OneSolver, BusyMeansSolver, NoTaskStranded, BatchShape, TrueMeansRun, KernelFollows, Solving, NONE
<1>3. Numbered
  <2>1. Len(m_tasks) = 0 /\ issued = 0 /\ ran = 0
    BY DEF Init
  <2>2. \A t \in Threads : ~Solving(t) /\ mine[t] = 0
    BY DEF Init, Solving
  <2> QED  BY <2>1, <2>2 DEF Numbered
<1> QED  BY <1>1, <1>2, <1>3 DEF IInv

LEMMA PushType ==
    ASSUME m_tasks \in Seq(Task), issued \in Nat, NEW req \in Requests, Push(req)
    PROVE  /\ m_tasks' \in Seq(Task) /\ issued' \in Nat /\ issued' = issued + 1
           /\ Len(m_tasks') = Len(m_tasks) + 1
           /\ \A i \in 1..Len(m_tasks) : m_tasks'[i] = m_tasks[i]
           /\ m_tasks'[Len(m_tasks) + 1].id = issued + 1
           /\ m_tasks' # <<>>
<1> DEFINE new == [op |-> req.op, event |-> req.event, id |-> issued + 1]
<1>1. new \in Task
  BY RequestsAssumption DEF Task, Ops, Event
<1> QED  BY <1>1 DEF Push

LEMMA PushNumbered ==
    ASSUME TypeOK, Numbered, NEW req \in Requests, Push(req),
           batch' = batch, ran' = ran, thrown' = thrown,
           \A s \in Threads : Solving(s)' <=> Solving(s),
           \A s \in Threads : mine'[s] <= issued'
    PROVE  Numbered'
<1>a. /\ issued' = issued + 1 /\ Len(m_tasks') = Len(m_tasks) + 1
      /\ (\A i \in 1..Len(m_tasks) : m_tasks'[i] = m_tasks[i])
      /\ m_tasks'[Len(m_tasks) + 1].id = issued + 1
  BY PushType DEF TypeOK
<1>b. Len(m_tasks) \in Nat /\ issued \in Nat /\ ran \in Nat /\ \A s \in Threads : Len(batch[s]) \in Nat
  BY DEF TypeOK
<1>1. \A i \in 1..Len(m_tasks') : m_tasks'[i].id = (issued' - Len(m_tasks')) + i
  <2> TAKE i \in 1..Len(m_tasks')
  <2>1. CASE i \in 1..Len(m_tasks)
    <3>1. m_tasks'[i].id = (issued - Len(m_tasks)) + i
      BY <1>a, <2>1 DEF Numbered
    <3> QED  BY <1>a, <1>b, <2>1, <3>1
  <2>2. CASE i = Len(m_tasks) + 1
    BY <1>a, <1>b, <2>2
  <2> QED  BY <1>a, <1>b, <2>1, <2>2
<1>2. ran' <= issued' - Len(m_tasks')
  BY <1>a, <1>b DEF Numbered
<1>3. \A s \in Threads : Solving(s)' =>
         /\ \A i \in 1..Len(batch'[s]) : batch'[s][i].id = ran' + i
         /\ issued' - Len(m_tasks') = ran' + Len(batch'[s])
  <2> SUFFICES ASSUME NEW s \in Threads, Solving(s)'
               PROVE  /\ \A i \in 1..Len(batch[s]) : batch[s][i].id = ran + i
                      /\ issued' - Len(m_tasks') = ran + Len(batch[s])
    OBVIOUS
  <2>1. Solving(s)
    OBVIOUS
  <2>2. /\ \A i \in 1..Len(batch[s]) : batch[s][i].id = ran + i
        /\ issued - Len(m_tasks) = ran + Len(batch[s])
    BY <2>1 DEF Numbered
  <2>3. Len(batch[s]) \in Nat
    BY <1>b
  <2>4. issued' - Len(m_tasks') = ran + Len(batch[s])
    <3>1. issued - Len(m_tasks) = ran + Len(batch[s])
      BY <2>2
    <3>2. issued' = issued + 1 /\ Len(m_tasks') = Len(m_tasks) + 1
      BY <1>a
    <3>3. Len(m_tasks) \in Nat /\ issued \in Nat /\ ran \in Nat
      BY <1>b
    <3> QED  BY <2>3, <3>1, <3>2, <3>3
  <2> QED  BY <2>2, <2>4
<1>4. ~thrown' /\ (\A s \in Threads : ~Solving(s)') => issued' - Len(m_tasks') = ran'
  BY <1>a, <1>b DEF Numbered
<1> QED  BY <1>1, <1>2, <1>3, <1>4 DEF Numbered

LEMMA AddTaskPreserves ==
    ASSUME IInv, NEW t \in Threads, NEW req \in Requests, AddTask(t, req)
    PROVE  IInv'
<1> USE DEF IInv
<1>a. m_tasks' \in Seq(Task) /\ issued' \in Nat /\ issued' = issued + 1 /\ m_tasks' # <<>>
  BY PushType DEF AddTask, TypeOK
<1>b. \A s \in Threads : Solving(s)' <=> Solving(s)
  BY DEF AddTask, Solving, Goto, TypeOK
<1>1. TypeOK'
  <2>1. inner' \in [Threads -> BOOLEAN]
    BY Zenon DEF AddTask, TypeOK
  <2> QED  BY <1>a, <2>1 DEF AddTask, TypeOK, Goto, context, file
<1>2. OneSolver'
  BY <1>b DEF OneSolver
<1>3. BusyMeansSolver'
  BY <1>b DEF BusyMeansSolver, AddTask
<1>4. NoTaskStranded'
  BY <1>b DEF NoTaskStranded, BusyMeansSolver, AddTask, Goto, TypeOK
<1>5. BatchShape'
  BY DEF BatchShape, AddTask, Goto, TypeOK
<1>6. Numbered'
  <2>1. \A s \in Threads : mine'[s] <= issued'
    BY <1>a DEF AddTask, TypeOK, Numbered
  <2> QED  BY <1>b, <2>1, PushNumbered DEF AddTask
<1>7. TrueMeansRun'
  BY DEF TrueMeansRun, AddTask, Goto, TypeOK
<1>8. KernelFollows'
  BY DEF KernelFollows, AddTask, Goto, TypeOK, context, file
<1> QED  BY <1>1, <1>2, <1>3, <1>4, <1>5, <1>6, <1>7, <1>8

LEMMA CallbackAddTaskPreserves ==
    ASSUME IInv, NEW t \in Threads, NEW req \in Requests, CallbackAddTask(t, req)
    PROVE  IInv'
<1> USE DEF IInv
<1>a. m_tasks' \in Seq(Task) /\ issued' \in Nat /\ issued' = issued + 1 /\ m_tasks' # <<>>
  BY PushType DEF CallbackAddTask, TypeOK
<1>b. \A s \in Threads : Solving(s)' <=> Solving(s)
  BY DEF CallbackAddTask, Solving
<1>1. TypeOK'
  BY <1>a DEF CallbackAddTask, TypeOK, context, file, locals
<1>2. OneSolver'
  BY <1>b DEF OneSolver
<1>3. BusyMeansSolver'
  BY <1>b DEF BusyMeansSolver, CallbackAddTask
<1>4. NoTaskStranded'
  BY <1>b DEF NoTaskStranded, CallbackAddTask, Solving
<1>5. BatchShape'
  BY DEF BatchShape, CallbackAddTask, locals
<1>6. Numbered'
  <2>1. \A s \in Threads : mine'[s] <= issued'
    BY <1>a DEF CallbackAddTask, TypeOK, Numbered, locals
  <2> QED  BY <1>b, <2>1, PushNumbered DEF CallbackAddTask, locals
<1>7. TrueMeansRun'
  BY DEF TrueMeansRun, CallbackAddTask, locals
<1>8. KernelFollows'
  BY DEF KernelFollows, CallbackAddTask, context, file, locals
<1> QED  BY <1>1, <1>2, <1>3, <1>4, <1>5, <1>6, <1>7, <1>8

LEMMA RecheckPreserves ==
    ASSUME IInv, NEW t \in Threads, Recheck(t)
    PROVE  IInv'
<1> USE DEF IInv
<1>b. \A s \in Threads : Solving(s)' <=> Solving(s)
  BY DEF Recheck, Solving, Goto, TypeOK
<1>1. TypeOK'
  BY DEF Recheck, TypeOK, Goto, manager, context, file, locals
<1>2. OneSolver'
  BY <1>b DEF OneSolver
<1>3. BusyMeansSolver'
  BY <1>b DEF BusyMeansSolver, Recheck, manager
<1>4. NoTaskStranded'
  BY <1>b DEF NoTaskStranded, BusyMeansSolver, Recheck, Goto, TypeOK, manager
<1>5. BatchShape'
  BY DEF BatchShape, Recheck, Goto, TypeOK, locals
<1>6. Numbered'
  BY <1>b DEF Numbered, Recheck, manager, locals
<1>7. TrueMeansRun'
  BY DEF TrueMeansRun, Recheck, Goto, TypeOK, locals
<1>8. KernelFollows'
  BY DEF KernelFollows, Recheck, Goto, TypeOK, context, file, locals
<1> QED  BY <1>1, <1>2, <1>3, <1>4, <1>5, <1>6, <1>7, <1>8

\* compare_exchange of READY or of INIT.
LEMMA ElectPreserves ==
    ASSUME IInv, NEW t \in Threads, NEW expected \in {"READY", "INIT"}, NEW next \in {"casInit", "out"},
           \/ pc[t] = "casReady" /\ expected = "READY" /\ next = "casInit"
           \/ pc[t] = "casInit" /\ expected = "INIT" /\ next = "out",
           Elect(t, expected, next)
    PROVE  IInv'
<1> USE DEF IInv
<1>u. /\ UNCHANGED <<m_tasks, m_event, m_cb, fired, kernel, fdOpen, reopened, syncFailed>>
      /\ UNCHANGED <<mine, batch, cur, origin, issued, ran, thrown>>
  BY DEF Elect, context, file
<1>0. ~Solving(t)
  BY DEF Solving
<1>A. CASE m_state = expected
  <2>a. /\ m_state' = "BUSY" /\ pc' = [pc EXCEPT ![t] = "drain"]
        /\ loop' = [loop EXCEPT ![t] = 1] /\ inner' = [inner EXCEPT ![t] = TRUE]
    BY <1>A DEF Elect, Goto
  <2>b. \A s \in Threads : ~Solving(s)
    BY <1>A DEF BusyMeansSolver
  <2>c. \A s \in Threads : Solving(s)' <=> s = t
    BY <2>a, <2>b DEF Solving, TypeOK
  <2>d. ~thrown /\ batch[t] = <<>>
    BY <1>A DEF BusyMeansSolver, BatchShape
  <2>1. TypeOK'
    <3>1. inner' \in [Threads -> BOOLEAN]
      BY <2>a, Zenon DEF TypeOK
    <3> QED  BY <1>u, <2>a, <3>1 DEF TypeOK
  <2>2. OneSolver'
    BY <2>c DEF OneSolver
  <2>3. BusyMeansSolver' /\ NoTaskStranded'
    BY <1>u, <2>a, <2>c, <2>d DEF BusyMeansSolver, NoTaskStranded
  <2>4. BatchShape'
    BY <1>u, <2>a, <2>d DEF BatchShape, TypeOK
  <2>5. Numbered'
    <3>1. issued - Len(m_tasks) = ran
      BY <2>b, <2>d DEF Numbered
    <3>2. Len(batch'[t]) = 0
      BY <1>u, <2>d
    <3>3. issued' - Len(m_tasks') = ran' + Len(batch'[t])
      BY <1>u, <3>1, <3>2 DEF TypeOK
    <3>4. \A i \in 1..Len(batch'[t]) : batch'[t][i].id = ran' + i
      BY <3>2
    <3>5. \A s \in Threads : Solving(s)' => s = t
      BY <2>c
    <3>6. ~(\A s \in Threads : ~Solving(s)')
      BY <2>c
    <3>7. /\ \A i \in 1..Len(m_tasks') : m_tasks'[i].id = (issued' - Len(m_tasks')) + i
          /\ ran' <= issued' - Len(m_tasks')
          /\ \A s \in Threads : mine'[s] <= issued'
      BY <1>u DEF Numbered
    <3> QED  BY <3>3, <3>4, <3>5, <3>6, <3>7 DEF Numbered
  <2>6. TrueMeansRun'
    BY <1>u, <2>a DEF TrueMeansRun, TypeOK
  <2>7. KernelFollows'
    BY <1>u, <2>a DEF KernelFollows, TypeOK
  <2> QED  BY <2>1, <2>2, <2>3, <2>4, <2>5, <2>6, <2>7
<1>B. CASE m_state # expected
  <2>a. UNCHANGED <<m_state, loop, inner>> /\ pc' = [pc EXCEPT ![t] = next]
    BY <1>B DEF Elect, Goto
  <2>b. \A s \in Threads : Solving(s)' <=> Solving(s)
    BY <2>a DEF Solving, TypeOK
  <2>1. TypeOK'
    BY <1>u, <2>a DEF TypeOK
  <2>2. OneSolver' /\ BusyMeansSolver'
    BY <1>u, <2>a, <2>b DEF OneSolver, BusyMeansSolver
  <2>3. NoTaskStranded'
    BY <1>u, <2>a, <2>b, <1>B DEF NoTaskStranded, BusyMeansSolver, TypeOK
  <2>4. BatchShape' /\ TrueMeansRun'
    BY <1>u, <2>a DEF BatchShape, TrueMeansRun, TypeOK
  <2>5. Numbered'
    BY <1>u, <2>b DEF Numbered
  <2>6. KernelFollows'
    BY <1>u, <2>a DEF KernelFollows, TypeOK
  <2> QED  BY <2>1, <2>2, <2>3, <2>4, <2>5, <2>6
<1> QED  BY <1>A, <1>B

LEMMA DrainPreserves ==
    ASSUME IInv, NEW t \in Threads, Drain(t)
    PROVE  IInv'
<1> USE DEF IInv
<1>u. /\ UNCHANGED <<m_state, m_event, m_cb, fired, kernel, fdOpen, reopened, syncFailed>>
      /\ UNCHANGED <<inner, mine, cur, origin, issued, ran, thrown>>
      /\ m_tasks' = <<>> /\ batch' = [batch EXCEPT ![t] = m_tasks]
  BY DEF Drain, context, file
<1>p. pc' = [pc EXCEPT ![t] = IF m_tasks # <<>> THEN "run" ELSE IF loop[t] = 1 THEN "drain" ELSE "settle"]
  BY DEF Drain, Goto
<1>b. (\A s \in Threads : Solving(s)' <=> Solving(s)) /\ Solving(t)
  BY <1>p DEF Drain, Solving, TypeOK
<1>e. batch[t] = <<>> /\ issued - Len(m_tasks) = ran
  <2>1. batch[t] = <<>>
    BY DEF Drain, BatchShape
  <2>2. issued - Len(m_tasks) = ran + Len(batch[t])
    BY <1>b DEF Numbered
  <2> QED  BY <2>1, <2>2 DEF TypeOK
<1>1. TypeOK'
  <2>1. loop' \in [Threads -> {1, 2}]
    BY DEF Drain, TypeOK
  <2>2. batch' \in [Threads -> Seq(Task)] /\ m_tasks' \in Seq(Task)
    BY <1>u DEF TypeOK
  <2>3. pc' \in [Threads -> {"out", "casReady", "casInit", "drain", "run", "callback",
                            "sync", "close", "settle", "recheck"}]
    BY <1>p DEF TypeOK
  <2> QED  BY <1>u, <2>1, <2>2, <2>3 DEF TypeOK
<1>2. OneSolver' /\ BusyMeansSolver' /\ NoTaskStranded'
  BY <1>u, <1>b DEF OneSolver, BusyMeansSolver, NoTaskStranded
<1>3. BatchShape'
  BY <1>u, <1>p DEF BatchShape, TypeOK
<1>4. Numbered'
  <2>1. \A s \in Threads : Solving(s)' => s = t
    BY <1>b DEF OneSolver
  <2>2. batch'[t] = m_tasks /\ Len(m_tasks') = 0 /\ Len(m_tasks) \in Nat
    BY <1>u DEF TypeOK
  <2>3. \A i \in 1..Len(m_tasks) : m_tasks[i].id = ran + i
    BY <1>e, <2>2 DEF Numbered, TypeOK
  <2>4. \A s \in Threads : Solving(s)' =>
           /\ \A i \in 1..Len(batch'[s]) : batch'[s][i].id = ran' + i
           /\ issued' - Len(m_tasks') = ran' + Len(batch'[s])
    <3>1. /\ \A i \in 1..Len(batch'[t]) : batch'[t][i].id = ran' + i
          /\ issued' - Len(m_tasks') = ran' + Len(batch'[t])
      BY <1>u, <1>e, <2>2, <2>3 DEF TypeOK
    <3> QED  BY <2>1, <3>1
  <2>5. ran' <= issued' - Len(m_tasks') /\ \A s \in Threads : mine'[s] <= issued'
    BY <1>u, <1>e, <2>2 DEF Numbered, TypeOK
  <2>6. ~(\A s \in Threads : ~Solving(s)')
    BY <1>b
  <2>7. \A i \in 1..Len(m_tasks') : m_tasks'[i].id = (issued' - Len(m_tasks')) + i
    BY <2>2
  <2> QED  BY <2>4, <2>5, <2>6, <2>7 DEF Numbered
<1>5. TrueMeansRun'
  <2>1. m_tasks = <<>> => mine[t] <= ran
    BY <1>e DEF Numbered, TypeOK
  <2> QED  BY <1>u, <1>p, <2>1 DEF TrueMeansRun, TypeOK
<1>6. KernelFollows'
  BY <1>u, <1>p DEF KernelFollows, TypeOK, Drain
<1> QED  BY <1>1, <1>2, <1>3, <1>4, <1>5, <1>6

\* The FdContext stays well typed, and an operation that closes empties it.
LEMMA ContextType ==
    ASSUME NEW task \in Task, m_event \in Event, m_cb \in [{"READ", "WRITE"} -> Nat]
    PROVE  /\ Serial!EventAfter(task, m_event) \in Event
           /\ Serial!CbAfter(task, m_event, m_cb) \in [{"READ", "WRITE"} -> Nat]
           /\ Serial!Started(task, m_event, m_cb) \in SUBSET Nat
           /\ task.op \in {"CLOSE", "CLOSE_NOCLOSEFD"} => Serial!EventAfter(task, m_event) = NONE
           /\ Serial!Started(task, m_event, m_cb) # {} =>
                  task.op = "TRIGGER" /\ Serial!EventAfter(task, m_event) = m_event
<1>0. task.op \in Ops /\ task.event \in Event /\ task.id \in Nat
  BY DEF Task
<1>1. Serial!EventAfter(task, m_event) \in Event
  BY <1>0 DEF Serial!EventAfter, Event, Ops
<1>2. Serial!CbAfter(task, m_event, m_cb) \in [{"READ", "WRITE"} -> Nat]
  <2>1. Serial!AddCb(m_cb, task.event, task.id) \in [{"READ", "WRITE"} -> Nat]
    BY <1>0 DEF Serial!AddCb, Serial!NoTask
  <2>2. Serial!DelCb(m_cb, m_event \ task.event) \in [{"READ", "WRITE"} -> Nat]
    BY DEF Serial!DelCb, Serial!NoTask, Serial!Events
  <2>3. Serial!ResetCb \in [{"READ", "WRITE"} -> Nat]
    BY DEF Serial!ResetCb, Serial!NoTask, Serial!Events
  <2> QED  BY <1>0, <2>1, <2>2, <2>3 DEF Serial!CbAfter, Ops
<1>3. Serial!Started(task, m_event, m_cb) \in SUBSET Nat
  BY <1>0 DEF Serial!Started, Event
<1>4. task.op \in {"CLOSE", "CLOSE_NOCLOSEFD"} => Serial!EventAfter(task, m_event) = NONE
  BY DEF Serial!EventAfter, NONE
<1>5. Serial!Started(task, m_event, m_cb) # {} =>
          task.op = "TRIGGER" /\ Serial!EventAfter(task, m_event) = m_event
  BY DEF Serial!Started, Serial!EventAfter
<1> QED  BY <1>1, <1>2, <1>3, <1>4, <1>5

LEMMA RunPreserves ==
    ASSUME IInv, NEW t \in Threads, Run(t)
    PROVE  IInv' /\ ran' = ran + 1
<1> USE DEF IInv
<1> DEFINE task == Head(batch[t])
<1>u. /\ UNCHANGED <<m_state, m_tasks, kernel, fdOpen, reopened, syncFailed, loop, inner, mine, issued, thrown>>
      /\ batch[t] # <<>> /\ batch' = [batch EXCEPT ![t] = Tail(@)]
      /\ cur' = [cur EXCEPT ![t] = task] /\ origin' = [origin EXCEPT ![t] = m_event]
      /\ m_event' = Serial!EventAfter(task, m_event) /\ m_cb' = Serial!CbAfter(task, m_event, m_cb)
      /\ fired' = Serial!Started(task, m_event, m_cb) /\ ran' = task.id
      /\ pc' = [pc EXCEPT ![t] = IF fired' # {} THEN "callback" ELSE "sync"] /\ pc[t] = "run"
  BY DEF Run, manager, file, Goto
<1>t. task \in Task /\ Tail(batch[t]) \in Seq(Task) /\ batch[t] \in Seq(Task) /\ Len(batch[t]) > 0
      /\ Len(Tail(batch[t])) = Len(batch[t]) - 1 /\ task = batch[t][1]
      /\ \A i \in 1..Len(Tail(batch[t])) : Tail(batch[t])[i] = batch[t][i + 1]
  BY <1>u DEF TypeOK
<1>c. /\ m_event' \in Event /\ m_cb' \in [{"READ", "WRITE"} -> Nat] /\ fired' \in SUBSET Nat
      /\ task.op \in {"CLOSE", "CLOSE_NOCLOSEFD"} => m_event' = NONE
      /\ fired' # {} => task.op = "TRIGGER" /\ m_event' = m_event
  BY <1>u, <1>t, ContextType DEF TypeOK
<1>b. (\A s \in Threads : Solving(s)' <=> Solving(s)) /\ Solving(t)
  BY <1>u DEF Solving, TypeOK
<1>o. \A s \in Threads : Solving(s) => s = t
  BY <1>b DEF OneSolver
<1>r. ran' = ran + 1
  <2>1. \A i \in 1..Len(batch[t]) : batch[t][i].id = ran + i
    BY <1>b DEF Numbered
  <2> QED  BY <1>u, <1>t, <2>1
<1>1. TypeOK'
  <2>1. ran' \in Nat
    BY <1>r DEF TypeOK
  <2> QED  BY <1>u, <1>t, <1>c, <2>1 DEF TypeOK
<1>2. OneSolver' /\ BusyMeansSolver' /\ NoTaskStranded'
  BY <1>u, <1>b DEF OneSolver, BusyMeansSolver, NoTaskStranded
<1>3. BatchShape'
  BY <1>u DEF BatchShape, TypeOK
<1>4. Numbered'
  <2>1. Len(m_tasks) \in Nat /\ Len(batch[t]) \in Nat /\ ran \in Nat /\ issued \in Nat
    BY <1>t DEF TypeOK
  <2>2. /\ \A i \in 1..Len(batch[t]) : batch[t][i].id = ran + i
        /\ issued - Len(m_tasks) = ran + Len(batch[t])
    BY <1>b DEF Numbered
  <2>3. batch'[t] = Tail(batch[t])
    BY <1>u DEF TypeOK
  <2>4. \A i \in 1..Len(batch'[t]) : batch'[t][i].id = ran' + i
    <3> TAKE i \in 1..Len(batch'[t])
    <3>1. i \in Int /\ i + 1 \in 1..Len(batch[t])
      BY <1>t, <2>1, <2>3
    <3>2. batch'[t][i] = batch[t][i + 1]
      BY <1>t, <2>3
    <3>3. batch[t][i + 1].id = ran + (i + 1)
      BY <2>2, <3>1
    <3> QED  BY <1>r, <2>1, <3>1, <3>2, <3>3
  <2>5. issued' - Len(m_tasks') = ran' + Len(batch'[t])
    <3>1. Len(batch'[t]) = Len(batch[t]) - 1 /\ issued - Len(m_tasks) = ran + Len(batch[t])
      BY <1>t, <2>2, <2>3
    <3>2. issued' - Len(m_tasks') = issued - Len(m_tasks)
      BY <1>u
    <3>3. ran + Len(batch[t]) = (ran + 1) + (Len(batch[t]) - 1)
      <4>1. \A a, b \in Nat : a + b = (a + 1) + (b - 1)
        OBVIOUS
      <4> QED  BY ONLY <2>1, <4>1
    <3> QED  BY <1>r, <3>1, <3>2, <3>3
  <2>6. ran' <= issued' - Len(m_tasks') /\ \A s \in Threads : mine'[s] <= issued'
    <3>1. Len(batch'[t]) \in Nat /\ ran' \in Nat
      BY <1>t, <1>r, <2>1, <2>3
    <3>2. ran' <= ran' + Len(batch'[t])
      BY <3>1
    <3>3. \A s \in Threads : mine'[s] <= issued'
      BY <1>u DEF Numbered
    <3> QED  BY <2>5, <3>2, <3>3
  <2>7. \A i \in 1..Len(m_tasks') : m_tasks'[i].id = (issued' - Len(m_tasks')) + i
    BY <1>u DEF Numbered
  <2>8. ~(\A s \in Threads : ~Solving(s)')
    BY <1>b
  <2> QED  BY <1>b, <1>o, <2>4, <2>5, <2>6, <2>7, <2>8 DEF Numbered
<1>5. TrueMeansRun'
  BY <1>u, <1>r DEF TrueMeansRun, TypeOK
<1>6. KernelFollows'
  <2>1. ~syncFailed => kernel = m_event
    BY <1>b, <1>o, <1>u DEF KernelFollows, Solving
  <2>2. \A s \in Threads : s # t => pc'[s] \notin {"callback", "sync", "close"}
    BY <1>o, <1>u DEF Solving, TypeOK
  <2>3. origin'[t] = m_event /\ cur'[t] = task /\ pc'[t] \in {"callback", "sync"}
        /\ (pc'[t] = "callback" => fired' # {}) /\ UNCHANGED <<kernel, syncFailed>>
    BY <1>u DEF TypeOK
  <2>4. (\A s \in Threads : pc'[s] # "sync") => pc'[t] = "callback"
    BY <2>3
  <2> QED  BY <1>c, <2>1, <2>2, <2>3, <2>4 DEF KernelFollows
<1> QED  BY <1>r, <1>1, <1>2, <1>3, <1>4, <1>5, <1>6

LEMMA CallbackReturnPreserves ==
    ASSUME IInv, NEW t \in Threads, CallbackReturn(t)
    PROVE  IInv'
<1> USE DEF IInv
<1>u. /\ pc[t] = "callback" /\ pc' = [pc EXCEPT ![t] = "sync"]
      /\ UNCHANGED <<m_state, m_tasks, m_event, m_cb, fired, kernel, fdOpen, reopened, syncFailed>>
      /\ UNCHANGED <<loop, inner, mine, batch, cur, origin, issued, ran, thrown>>
  BY DEF CallbackReturn, Goto, manager, context, file, locals
<1>b. (\A s \in Threads : Solving(s)' <=> Solving(s)) /\ Solving(t)
  BY <1>u DEF Solving, TypeOK
<1>o. \A s \in Threads : s # t => ~Solving(s)
  BY <1>b DEF OneSolver
<1>1. TypeOK'
  BY <1>u DEF TypeOK
<1>2. OneSolver' /\ BusyMeansSolver' /\ NoTaskStranded'
  BY <1>u, <1>b DEF OneSolver, BusyMeansSolver, NoTaskStranded
<1>3. BatchShape' /\ TrueMeansRun'
  BY <1>u DEF BatchShape, TrueMeansRun, TypeOK
<1>4. Numbered'
  BY <1>u, <1>b DEF Numbered
<1>5. KernelFollows'
  <2>1. ~syncFailed => kernel = m_event
    BY <1>o, <1>u DEF KernelFollows, Solving
  <2>2. origin[t] = m_event /\ cur[t].op = "TRIGGER"
    BY <1>u DEF KernelFollows
  <2>3. \A s \in Threads : s # t => pc'[s] \notin {"callback", "sync", "close"}
    BY <1>o, <1>u DEF Solving, TypeOK
  <2>4. pc'[t] = "sync"
    BY <1>u DEF TypeOK
  <2> QED  BY <1>u, <2>1, <2>2, <2>3, <2>4 DEF KernelFollows
<1> QED  BY <1>1, <1>2, <1>3, <1>4, <1>5

LEMMA CallbackThrowPreserves ==
    ASSUME IInv, NEW t \in Threads, CallbackThrow(t)
    PROVE  IInv'
<1> USE DEF IInv
<1>u. /\ pc[t] = "callback" /\ pc' = [pc EXCEPT ![t] = "out"]
      /\ batch' = [batch EXCEPT ![t] = <<>>] /\ thrown' = TRUE
      /\ UNCHANGED <<m_state, m_tasks, m_event, m_cb, fired, kernel, fdOpen, reopened, syncFailed>>
      /\ UNCHANGED <<loop, inner, mine, cur, origin, issued, ran>>
  BY DEF CallbackThrow, Goto, manager, context, file
<1>0. Solving(t) /\ m_state = "BUSY"
  BY <1>u DEF Solving, BusyMeansSolver
<1>b. \A s \in Threads : ~Solving(s)'
  BY <1>0, <1>u DEF Solving, TypeOK, OneSolver
<1>1. TypeOK'
  BY <1>u DEF TypeOK
<1>2. OneSolver' /\ BusyMeansSolver' /\ NoTaskStranded'
  BY <1>u, <1>0, <1>b DEF OneSolver, BusyMeansSolver, NoTaskStranded
<1>3. BatchShape' /\ TrueMeansRun'
  BY <1>u DEF BatchShape, TrueMeansRun, TypeOK
<1>4. Numbered'
  BY <1>u, <1>b DEF Numbered
<1>5. KernelFollows'
  BY <1>u DEF KernelFollows, TypeOK
<1> QED  BY <1>1, <1>2, <1>3, <1>4, <1>5

LEMMA SyncPreserves ==
    ASSUME IInv, NEW t \in Threads, Sync(t)
    PROVE  IInv'
<1> USE DEF IInv
<1> DEFINE next == IF cur[t].op \in {"CLOSE", "CLOSE_NOCLOSEFD"} THEN "close"
                   ELSE IF batch[t] = <<>> THEN "drain" ELSE "run"
<1>u. /\ pc[t] = "sync" /\ pc' = [pc EXCEPT ![t] = next]
      /\ UNCHANGED <<m_state, m_tasks, m_event, m_cb, fired>>
      /\ UNCHANGED <<loop, inner, mine, batch, cur, origin, issued, ran, thrown>>
  BY DEF Sync, Goto, manager, context, locals
<1>k. /\ kernel' \in Event /\ syncFailed' \in BOOLEAN /\ fdOpen' \in BOOLEAN /\ reopened' \in Nat
      /\ ~syncFailed' => ~syncFailed /\ (kernel = origin[t] => kernel' = m_event)
  BY DEF Sync, StateSync, TypeOK, file
<1>b. (\A s \in Threads : Solving(s)' <=> Solving(s)) /\ Solving(t)
  BY <1>u DEF Solving, TypeOK
<1>o. \A s \in Threads : s # t => ~Solving(s)
  BY <1>b DEF OneSolver
<1>1. TypeOK'
  BY <1>u, <1>k DEF TypeOK
<1>2. OneSolver' /\ BusyMeansSolver' /\ NoTaskStranded'
  BY <1>u, <1>b DEF OneSolver, BusyMeansSolver, NoTaskStranded
<1>3. BatchShape' /\ TrueMeansRun'
  BY <1>u DEF BatchShape, TrueMeansRun, TypeOK
<1>4. Numbered'
  BY <1>u, <1>b DEF Numbered
<1>5. KernelFollows'
  <2>1. ~syncFailed => kernel = origin[t]
    BY <1>u DEF KernelFollows
  <2>2. ~syncFailed' => kernel' = m_event'
    BY <1>u, <1>k, <2>1
  <2>3. \A s \in Threads : s # t => pc'[s] \notin {"callback", "sync", "close"}
    BY <1>o, <1>u DEF Solving, TypeOK
  <2>4. pc'[t] = next /\ pc'[t] \notin {"callback", "sync"}
    BY <1>u DEF TypeOK
  <2>5. pc'[t] = "close" => m_event' = NONE
    <3>1. pc'[t] = "close" => cur[t].op \in {"CLOSE", "CLOSE_NOCLOSEFD"}
      BY <2>4
    <3>2. cur[t].op \in {"CLOSE", "CLOSE_NOCLOSEFD"} => m_event = NONE
      BY <1>u DEF KernelFollows
    <3> QED  BY <1>u, <3>1, <3>2
  <2> QED  BY <2>2, <2>3, <2>4, <2>5 DEF KernelFollows
<1> QED  BY <1>1, <1>2, <1>3, <1>4, <1>5

LEMMA ClosePreserves ==
    ASSUME IInv, NEW t \in Threads, Close(t)
    PROVE  IInv'
<1> USE DEF IInv
<1>u. /\ pc[t] = "close" /\ pc' = [pc EXCEPT ![t] = IF batch[t] = <<>> THEN "drain" ELSE "run"]
      /\ UNCHANGED <<m_state, m_tasks, m_event, m_cb, fired, reopened, syncFailed>>
      /\ UNCHANGED <<loop, inner, mine, batch, cur, origin, issued, ran, thrown>>
  BY DEF Close, Goto, manager, context, locals
<1>k. kernel' \in {kernel, NONE} /\ fdOpen' \in {fdOpen, FALSE}
  BY DEF Close
<1>b. (\A s \in Threads : Solving(s)' <=> Solving(s)) /\ Solving(t)
  BY <1>u DEF Solving, TypeOK
<1>o. \A s \in Threads : s # t => ~Solving(s)
  BY <1>b DEF OneSolver
<1>1. TypeOK'
  <2>1. kernel' \in Event /\ fdOpen' \in BOOLEAN
    BY <1>k DEF TypeOK, Event, NONE
  <2> QED  BY <1>u, <2>1 DEF TypeOK
<1>2. OneSolver' /\ BusyMeansSolver' /\ NoTaskStranded'
  BY <1>u, <1>b DEF OneSolver, BusyMeansSolver, NoTaskStranded
<1>3. BatchShape' /\ TrueMeansRun'
  BY <1>u DEF BatchShape, TrueMeansRun, TypeOK
<1>4. Numbered'
  BY <1>u, <1>b DEF Numbered
<1>5. KernelFollows'
  <2>1. ~syncFailed => kernel = m_event
    BY <1>o, <1>u DEF KernelFollows, Solving
  <2>2. m_event = NONE
    BY <1>u DEF KernelFollows
  <2>3. \A s \in Threads : pc'[s] \notin {"callback", "sync", "close"}
    BY <1>o, <1>u DEF Solving, TypeOK
  <2> QED  BY <1>u, <1>k, <2>1, <2>2, <2>3 DEF KernelFollows
<1> QED  BY <1>1, <1>2, <1>3, <1>4, <1>5

LEMMA SettlePreserves ==
    ASSUME IInv, NEW t \in Threads, Settle(t)
    PROVE  IInv'
<1> USE DEF IInv
<1>u. /\ pc[t] = "settle" /\ pc' = [pc EXCEPT ![t] = "recheck"]
      /\ m_state' \in {"INIT", "READY"}
      /\ UNCHANGED <<m_tasks, m_event, m_cb, fired, kernel, fdOpen, reopened, syncFailed>>
      /\ UNCHANGED <<loop, inner, mine, batch, cur, origin, issued, ran, thrown>>
  BY DEF Settle, Goto, context, file, locals
<1>0. Solving(t) /\ ~thrown /\ batch[t] = <<>>
  BY <1>u DEF Solving, BusyMeansSolver, BatchShape
<1>b. \A s \in Threads : ~Solving(s)'
  BY <1>0, <1>u DEF Solving, TypeOK, OneSolver
<1>1. TypeOK'
  BY <1>u DEF TypeOK
<1>2. OneSolver' /\ BusyMeansSolver'
  BY <1>u, <1>0, <1>b DEF OneSolver, BusyMeansSolver
<1>3. NoTaskStranded'
  BY <1>u DEF NoTaskStranded, TypeOK
<1>4. BatchShape' /\ TrueMeansRun'
  BY <1>u DEF BatchShape, TrueMeansRun, TypeOK
<1>5. Numbered'
  <2>1. issued - Len(m_tasks) = ran + Len(batch[t])
    BY <1>0 DEF Numbered
  <2>2. Len(batch[t]) = 0 /\ ran \in Nat
    BY <1>0 DEF TypeOK
  <2>3. issued - Len(m_tasks) = ran
    BY <2>1, <2>2
  <2> QED  BY <1>u, <1>b, <2>3 DEF Numbered
<1>6. KernelFollows'
  BY <1>u DEF KernelFollows, TypeOK
<1> QED  BY <1>1, <1>2, <1>3, <1>4, <1>5, <1>6

LEMMA ReopenPreserves ==
    ASSUME IInv, Reopen
    PROVE  IInv'
<1> USE DEF IInv
<1>u. /\ fdOpen' = TRUE /\ reopened' = reopened + 1
      /\ UNCHANGED <<m_state, m_tasks, m_event, m_cb, fired, kernel, syncFailed, pc>>
      /\ UNCHANGED <<loop, inner, mine, batch, cur, origin, issued, ran, thrown>>
  BY DEF Reopen, manager, context, locals
<1>b. \A s \in Threads : Solving(s)' <=> Solving(s)
  BY <1>u DEF Solving
<1>1. TypeOK'
  BY <1>u DEF TypeOK
<1>2. OneSolver' /\ BusyMeansSolver' /\ NoTaskStranded'
  BY <1>u, <1>b DEF OneSolver, BusyMeansSolver, NoTaskStranded
<1>3. BatchShape' /\ TrueMeansRun' /\ KernelFollows'
  BY <1>u DEF BatchShape, TrueMeansRun, KernelFollows
<1>4. Numbered'
  BY <1>u, <1>b DEF Numbered
<1> QED  BY <1>1, <1>2, <1>3, <1>4

\* Every step preserves the inductive invariant.
LEMMA NextPreserves == IInv /\ [Next]_vars => IInv'
<1> SUFFICES ASSUME IInv, [Next]_vars PROVE IInv'
  OBVIOUS
<1>1. CASE UNCHANGED vars
  <2>1. \A s \in Threads : Solving(s)' <=> Solving(s)
    BY <1>1 DEF vars, Solving
  <2>2. TypeOK'
    BY <1>1 DEF vars, IInv, TypeOK
  <2>3. OneSolver' /\ BusyMeansSolver' /\ NoTaskStranded'
    BY <1>1, <2>1 DEF vars, IInv, OneSolver, BusyMeansSolver, NoTaskStranded
  <2>4. BatchShape' /\ TrueMeansRun' /\ KernelFollows'
    BY <1>1 DEF vars, IInv, BatchShape, TrueMeansRun, KernelFollows
  <2>5. Numbered'
    BY <1>1, <2>1 DEF vars, IInv, Numbered
  <2> QED  BY <2>2, <2>3, <2>4, <2>5 DEF IInv
<1>2. CASE \E t \in Threads : Step(t)
  <2> PICK t \in Threads : Step(t)
    BY <1>2
  <2>1. CASE Recheck(t)
    BY <2>1, RecheckPreserves
  <2>2. CASE CasReady(t)
    BY <2>2, ElectPreserves DEF CasReady
  <2>3. CASE CasInit(t)
    BY <2>3, ElectPreserves DEF CasInit
  <2>4. CASE Drain(t)
    BY <2>4, DrainPreserves
  <2>5. CASE Run(t)
    BY <2>5, RunPreserves
  <2>6. CASE CallbackReturn(t)
    BY <2>6, CallbackReturnPreserves
  <2>7. CASE CallbackThrow(t)
    BY <2>7, CallbackThrowPreserves
  <2>8. CASE Sync(t)
    BY <2>8, SyncPreserves
  <2>9. CASE Close(t)
    BY <2>9, ClosePreserves
  <2>10. CASE Settle(t)
    BY <2>10, SettlePreserves
  <2> QED  BY <2>1, <2>2, <2>3, <2>4, <2>5, <2>6, <2>7, <2>8, <2>9, <2>10 DEF Step
<1>3. CASE \E t \in Threads, req \in Requests : AddTask(t, req) \/ CallbackAddTask(t, req)
  BY <1>3, AddTaskPreserves, CallbackAddTaskPreserves
<1>4. CASE Reopen
  BY <1>4, ReopenPreserves
<1> QED  BY <1>1, <1>2, <1>3, <1>4 DEF Next

LEMMA Invariance == Spec => []IInv
<1> QED  BY InitEstablishes, NextPreserves, PTL DEF Spec

-----------------------------------------------------------------------------

\* addTask and solveTasks keep every variable of the manager, the FdContext and
\* the threads inside its type.
THEOREM TypeCorrect == Spec => []TypeOK
<1>1. IInv => TypeOK
  BY DEF IInv
<1> QED  BY <1>1, Invariance, PTL

\* The exchange of m_state elects at most one thread to run solveTasks, for any
\* number of threads, although no lock is held while the tasks run.
THEOREM MutualExclusion == Spec => []OneSolver
<1>1. IInv => OneSolver
  BY DEF IInv
<1> QED  BY <1>1, Invariance, PTL

\* No task is stranded: as long as no callback throws out of solveSingleTask, a
\* non-empty queue always has a thread that is still bound to look at it.
THEOREM NothingStranded == Spec => []NoTaskStranded
<1>1. IInv => NoTaskStranded
  BY DEF IInv
<1> QED  BY <1>1, Invariance, PTL

\* When addTask returns true, its task has run.
THEOREM TrueMeansExecuted == Spec => []TrueMeansRun
<1>1. IInv => TrueMeansRun
  BY DEF IInv
<1> QED  BY <1>1, Invariance, PTL

\* Between two tasks epoll monitors an open descriptor for exactly the events of
\* its FdContext, as long as no epoll_ctl of stateSync failed.
THEOREM KernelInStep == Spec => []KernelMatchesContext
<1>1. IInv => KernelMatchesContext
  BY DEF IInv, KernelFollows, KernelMatchesContext
<1> QED  BY <1>1, Invariance, PTL

\* Tasks run one by one in registration order, none skipped, none repeated.
THEOREM InOrder == Spec => RunsInOrder
<1>1. IInv /\ [Next]_vars => [ran' # ran => ran' = ran + 1]_ran
  <2> SUFFICES ASSUME IInv, [Next]_vars, ran' # ran PROVE ran' = ran + 1
    OBVIOUS
  <2>1. PICK t \in Threads : Run(t)
    BY DEF Next, vars, Step, Recheck, CasReady, CasInit, Elect, Drain, CallbackReturn, CallbackThrow,
           Sync, Close, Settle, AddTask, CallbackAddTask, Reopen
  <2> QED  BY <2>1, RunPreserves
<1> QED  BY <1>1, Invariance, PTL DEF Spec, RunsInOrder

-----------------------------------------------------------------------------
\* Refinement of FdSerial.

\* What Pending is when one thread solves, and when none does.
LEMMA PendingOf ==
    ASSUME NEW S, NEW b, NEW q, NEW t, S = {t}
    PROVE  (IF S = {} THEN q ELSE b[CHOOSE s \in S : TRUE] \o q) = b[t] \o q
<1>1. (CHOOSE s \in S : TRUE) = t
  OBVIOUS
<1> QED  BY <1>1

LEMMA ConcatAppend ==
    ASSUME NEW S, NEW b \in Seq(S), NEW q \in Seq(S), NEW x \in S
    PROVE  b \o Append(q, x) = Append(b \o q, x)
OBVIOUS

LEMMA ConcatHeadTail ==
    ASSUME NEW S, NEW b \in Seq(S), NEW q \in Seq(S), b # <<>>
    PROVE  b \o q # <<>> /\ Head(b \o q) = Head(b) /\ Tail(b \o q) = Tail(b) \o q
<1>1. Len(b) \in Nat /\ Len(b) > 0
  OBVIOUS
<1>2. b \o q # <<>> /\ Head(b \o q) = Head(b)
  BY <1>1
<1>3. Tail(b \o q) = Tail(b) \o q
  <2>1. Tail(b \o q) \in Seq(S) /\ Tail(b) \o q \in Seq(S)
    BY <1>2
  <2>2. Len(Tail(b \o q)) = Len(Tail(b) \o q)
    BY <1>1, <1>2
  <2>3. \A i \in 1..Len(Tail(b \o q)) : Tail(b \o q)[i] = (Tail(b) \o q)[i]
    BY <1>1, <1>2
  <2> QED  BY <2>1, <2>2, <2>3, SeqEqual
<1> QED  BY <1>2, <1>3

\* A step that leaves the solver, its list and the queue alone leaves Pending alone.
LEMMA PendingSame ==
    ASSUME \A s \in Threads : Solving(s)' <=> Solving(s), batch' = batch, m_tasks' = m_tasks
    PROVE  Pending' = Pending
<1>1. Owners' = Owners
  BY DEF Owners
<1> QED  BY <1>1 DEF Pending

LEMMA PendingNobody ==
    ASSUME \A s \in Threads : ~Solving(s)
    PROVE  Pending = m_tasks
BY DEF Pending, Owners

LEMMA PendingSolver ==
    ASSUME OneSolver, NEW t \in Threads, Solving(t)
    PROVE  Pending = batch[t] \o m_tasks
<1>1. Owners = {t}
  BY DEF Owners, OneSolver
<1> QED  BY <1>1, PendingOf DEF Pending

LEMMA PushRegisters ==
    ASSUME IInv, NEW req \in Requests, Push(req), batch' = batch,
           \A s \in Threads : Solving(s)' <=> Solving(s),
           UNCHANGED <<m_event, m_cb, fired>>
    PROVE  Serial!Next
<1> USE DEF IInv
<1> DEFINE new == [op |-> req.op, event |-> req.event, id |-> issued + 1]
<1>0. new \in Task
  <2>1. issued + 1 \in Nat
    BY DEF TypeOK
  <2>2. req.op \in Ops /\ req.event \in Event
    BY RequestsAssumption DEF Ops, Event
  <2> QED  BY <2>1, <2>2 DEF Task
<1>1. Pending' = Append(Pending, new)
  <2>0. m_tasks' = Append(m_tasks, new)
    BY DEF Push
  <2>1. CASE \A s \in Threads : ~Solving(s)
    <3>1. Pending = m_tasks
      BY <2>1, PendingNobody
    <3>2. Owners' = {}
      BY <2>1 DEF Owners
    <3>3. Pending' = m_tasks'
      BY <3>2 DEF Pending
    <3> QED  BY <2>0, <3>1, <3>3
  <2>2. CASE \E s \in Threads : Solving(s)
    <3>1. PICK s \in Threads : Solving(s)
      BY <2>2
    <3>2. Pending = batch[s] \o m_tasks
      BY <3>1, PendingSolver
    <3>3. Owners' = {s}
      BY <3>1 DEF Owners, OneSolver
    <3>4. Pending' = batch[s] \o m_tasks'
      BY <3>3, PendingOf DEF Pending
    <3>5. batch[s] \o Append(m_tasks, new) = Append(batch[s] \o m_tasks, new)
      BY <1>0, ConcatAppend DEF TypeOK
    <3> QED  BY <2>0, <3>2, <3>4, <3>5
  <2> QED  BY <2>1, <2>2
<1>2. issued' = issued + 1
  BY DEF Push
<1> QED  BY <1>1, <1>2 DEF Serial!Next, Serial!Register

LEMMA RunApplies ==
    ASSUME IInv, NEW t \in Threads, Run(t)
    PROVE  Serial!Apply
<1> USE DEF IInv
<1>1. Solving(t) /\ batch[t] # <<>> /\ UNCHANGED <<m_tasks, issued>> /\ batch' = [batch EXCEPT ![t] = Tail(@)]
  BY DEF Run, Solving, manager
<1>2. Pending = batch[t] \o m_tasks
  BY <1>1, PendingSolver
<1>3. Owners' = {t}
  BY <1>1 DEF Run, Goto, Owners, Solving, OneSolver, TypeOK
<1>4. Pending' = Tail(batch[t]) \o m_tasks
  <2>1. batch'[t] = Tail(batch[t])
    BY <1>1 DEF TypeOK
  <2> QED  BY <1>1, <1>3, <2>1, PendingOf DEF Pending
<1>5. Pending # <<>> /\ Head(Pending) = Head(batch[t]) /\ Tail(Pending) = Tail(batch[t]) \o m_tasks
  BY <1>1, <1>2, ConcatHeadTail DEF TypeOK
<1>6. /\ m_event' = Serial!EventAfter(Head(batch[t]), m_event)
      /\ m_cb' = Serial!CbAfter(Head(batch[t]), m_event, m_cb)
      /\ fired' = Serial!Started(Head(batch[t]), m_event, m_cb)
  BY DEF Run
<1> QED  BY <1>1, <1>4, <1>5, <1>6 DEF Serial!Apply

\* Electing a thread, splicing and settling move tasks about but do not change
\* the queue as a whole.
LEMMA MovesStutter ==
    ASSUME IInv, NEW t \in Threads, CasReady(t) \/ CasInit(t) \/ Drain(t) \/ Settle(t)
    PROVE  Pending' = Pending
<1> USE DEF IInv
<1>t. m_tasks \in Seq(Task) /\ m_tasks \o <<>> = m_tasks /\ <<>> \o m_tasks = m_tasks
  <2>1. m_tasks \in Seq(Task)
    BY DEF TypeOK
  <2> QED  BY <2>1, ConcatEmptySeq
<1>1. ASSUME NEW expected \in {"READY", "INIT"}, NEW next \in {"casInit", "out"},
             pc[t] \in {"casReady", "casInit"}, Elect(t, expected, next)
      PROVE  Pending' = Pending
  <2>0. batch' = batch /\ m_tasks' = m_tasks
    BY <1>1 DEF Elect
  <2>1. CASE m_state = expected
    <3>1. \A s \in Threads : ~Solving(s)
      BY <1>1, <2>1 DEF BusyMeansSolver
    <3>2. Owners' = {t}
      BY <1>1, <2>1, <3>1 DEF Elect, Goto, Owners, Solving, TypeOK
    <3>3. batch[t] = <<>>
      BY <1>1 DEF BatchShape
    <3>4. Pending' = batch'[t] \o m_tasks'
      BY <3>2, PendingOf DEF Pending
    <3> QED  BY <1>t, <2>0, <3>1, <3>3, <3>4, PendingNobody
  <2>2. CASE m_state # expected
    <3>1. \A s \in Threads : Solving(s)' <=> Solving(s)
      BY <1>1, <2>2 DEF Elect, Goto, Solving, TypeOK
    <3> QED  BY <2>0, <3>1, PendingSame
  <2> QED  BY <2>1, <2>2
<1>2. CASE CasReady(t) \/ CasInit(t)
  BY <1>1, <1>2 DEF CasReady, CasInit
<1>3. CASE Drain(t)
  <2>1. Solving(t) /\ batch[t] = <<>> /\ m_tasks' = <<>> /\ batch' = [batch EXCEPT ![t] = m_tasks]
    BY <1>3 DEF Drain, Solving, BatchShape
  <2>2. Pending = batch[t] \o m_tasks
    BY <2>1, PendingSolver
  <2>3. Owners' = {t}
    <3>1. pc' = [pc EXCEPT ![t] = IF m_tasks # <<>> THEN "run" ELSE IF loop[t] = 1 THEN "drain" ELSE "settle"]
      BY <1>3 DEF Drain, Goto
    <3>2. \A s \in Threads : Solving(s)' <=> s = t
      BY <2>1, <3>1 DEF Solving, OneSolver, TypeOK
    <3> QED  BY <3>2 DEF Owners
  <2>4. Pending' = batch'[t] \o m_tasks'
    BY <2>3, PendingOf DEF Pending
  <2>5. batch'[t] = m_tasks
    BY <2>1 DEF TypeOK
  <2> QED  BY <1>t, <2>1, <2>2, <2>4, <2>5
<1>4. CASE Settle(t)
  <2>1. Solving(t) /\ batch[t] = <<>> /\ m_tasks' = m_tasks
    BY <1>4 DEF Settle, Solving, BatchShape
  <2>2. Pending = batch[t] \o m_tasks
    BY <2>1, PendingSolver
  <2>3. Owners' = {}
    BY <1>4, <2>1 DEF Settle, Goto, Owners, Solving, OneSolver, TypeOK
  <2>4. Pending' = m_tasks'
    BY <2>3 DEF Pending
  <2> QED  BY <1>t, <2>1, <2>2, <2>4
<1> QED  BY <1>2, <1>3, <1>4

\* Every step of the manager is a step of FdSerial or leaves its variables alone.
LEMMA StepSimulates ==
    ASSUME ~MayThrow, IInv, [Next]_vars
    PROVE  [Serial!Next]_(Serial!avars)
<1> DEFINE Quiet == UNCHANGED <<issued, m_event, m_cb, fired>> /\ Pending' = Pending
<1>q. Quiet => UNCHANGED Serial!avars
  BY DEF Serial!avars
<1>1. CASE UNCHANGED vars
  <2>1. \A s \in Threads : Solving(s)' <=> Solving(s)
    BY <1>1 DEF vars, Solving
  <2> QED  BY <1>1, <1>q, <2>1, PendingSame DEF vars
<1>2. CASE \E t \in Threads : Step(t)
  <2> PICK t \in Threads : Step(t)
    BY <1>2
  <2>1. CASE Run(t)
    BY <2>1, RunApplies DEF Serial!Next
  <2>2. CASE CasReady(t) \/ CasInit(t) \/ Drain(t) \/ Settle(t)
    BY <1>q, <2>2, MovesStutter DEF CasReady, CasInit, Elect, Drain, Settle, context
  <2>3. CASE Recheck(t) \/ CallbackReturn(t) \/ Sync(t) \/ Close(t)
    <3>1. \A s \in Threads : Solving(s)' <=> Solving(s)
      BY <2>3 DEF Recheck, CallbackReturn, Sync, Close, Goto, Solving, IInv, TypeOK
    <3>2. UNCHANGED <<batch, m_tasks, issued, m_event, m_cb, fired>>
      BY <2>3 DEF Recheck, CallbackReturn, Sync, Close, manager, context, locals
    <3> QED  BY <1>q, <3>1, <3>2, PendingSame
  <2>4. ~CallbackThrow(t)
    BY DEF CallbackThrow
  <2> QED  BY <2>1, <2>2, <2>3, <2>4 DEF Step
<1>3. ASSUME NEW t \in Threads, NEW req \in Requests, AddTask(t, req) \/ CallbackAddTask(t, req)
      PROVE  Serial!Next
  <2>1. \A s \in Threads : Solving(s)' <=> Solving(s)
    BY <1>3 DEF AddTask, CallbackAddTask, Goto, Solving, IInv, TypeOK
  <2>2. Push(req) /\ batch' = batch /\ UNCHANGED <<m_event, m_cb, fired>>
    BY <1>3 DEF AddTask, CallbackAddTask, context, locals
  <2> QED  BY <2>1, <2>2, PushRegisters
<1>4. CASE Reopen
  <2>1. UNCHANGED <<batch, m_tasks, issued, m_event, m_cb, fired, pc>>
    BY <1>4 DEF Reopen, manager, context, locals
  <2>2. \A s \in Threads : Solving(s)' <=> Solving(s)
    BY <2>1 DEF Solving
  <2> QED  BY <1>q, <2>1, <2>2, PendingSame
<1> QED  BY <1>1, <1>2, <1>3, <1>4 DEF Next

\* If no callback throws, the manager implements the serial specification: its
\* operations take effect one at a time in the order of registration.
THEOREM ImplementsSerial ==
    ASSUME ~MayThrow
    PROVE  Spec => Serial!SafeSpec
<1>1. Init => Serial!Init
  <2> SUFFICES ASSUME Init PROVE Serial!Init
    OBVIOUS
  <2>1. \A s \in Threads : ~Solving(s)
    BY DEF Init, Solving
  <2>2. Pending = <<>>
    BY <2>1, PendingNobody DEF Init
  <2> QED  BY <2>2 DEF Init, Serial!Init, NONE
<1>2. IInv /\ [Next]_vars => [Serial!Next]_(Serial!avars)
  BY StepSimulates
<1> QED  BY <1>1, <1>2, Invariance, PTL DEF Spec, Serial!SafeSpec
=============================================================================
