------------------------------ MODULE DBPool -------------------------------
(***************************************************************************)
(* The connection pool of DBPool/database.tpp and the queries of its two   *)
(* users, MySQLPoolManager and RedisPoolManager, which run the same loop:  *)
(* borrow a connection, else expand the pool, else wait for a callback.    *)
(*                                                                         *)
(* A client's pc follows executeQuery:                                     *)
(*   out       before the call             register   in registeConnCb     *)
(*   borrow    about to borrowOneConn      locking    it wants m_mutex     *)
(*   fill      has taken idx[c], with      locked     it holds m_mutex     *)
(*             m_mutex still locked        push       it found FULL        *)
(*   query     holds connection idx[c]     waiting    suspended, with its  *)
(*   return    the wrapper is destroyed               callback queued      *)
(*   settle    has put idx[c] back, with   woken      callback scheduled   *)
(*             m_mutex still locked        ok, failed query has returned   *)
(*   reopen    and has found FULL          lost       suspended, with no   *)
(*   tickle    tickle, up to its lock                 callback anywhere    *)
(*   wake      tickle, at its lock         expand     expand, up to its    *)
(*   reconnect returnConn, unlocked                   lock                 *)
(*   busy      nothing could be borrowed   expanding  expand, at its lock  *)
(* The thread that calls close has the pcs out, tickle, wake and ok.       *)
(* close() takes no lock: a critical section that reads m_state and acts   *)
(* on it later, or writes it after other steps, has a label in between.    *)
(***************************************************************************)
EXTENDS Integers, Sequences, SequencesExt, FiniteSets

CONSTANTS Clients, Closer,
          Limits        \* the limits that pools are made with

ASSUME PoolAssumption ==
    /\ \A limits \in Limits :
           /\ limits.min \in Nat /\ limits.max \in Nat \ {0} /\ limits.min <= limits.max
           /\ limits.increase \in Nat \ {0}
    /\ Closer \notin Clients

VARIABLES
    m_state, m_freeConnInfos, m_waitConnCb, m_connectorCount, m_busyConnCount,
    pc, idx,        \* see above; the connection of a client's wrapper, or -1
    m_minConnector, m_maxConnector, m_increaseNum,
    arriving        \* do clients go on to start queries

vars == <<m_state, m_freeConnInfos, m_waitConnCb, m_connectorCount, m_busyConnCount,
          pc, idx, m_minConnector, m_maxConnector, m_increaseNum, arriving>>
env == <<m_minConnector, m_maxConnector, m_increaseNum, arriving>>
conns == <<m_freeConnInfos, m_connectorCount, m_busyConnCount>>

Procs == Clients \cup {Closer}
Idxs == 0..(m_maxConnector - 1)
SmallerOf(a, b) == IF a < b THEN a ELSE b
UpTo(i, j) == [k \in 1..(j - i) |-> i + k - 1]     \* <<i, ..., j - 1>>

checkRunState == m_state \in {"READY", "FULL"}
Unlocked == \A c \in Clients : pc[c] \notin {"fill", "settle", "reopen", "locked", "push"}
Goto(p, label) == pc' = [pc EXCEPT ![p] = label]

\* The constructor.
Init ==
    /\ m_state = "INIT"
    /\ m_freeConnInfos = <<>> /\ m_waitConnCb = <<>>
    /\ m_connectorCount = 0 /\ m_busyConnCount = 0
    /\ pc = [p \in Procs |-> "out"]
    /\ idx = [c \in Clients |-> -1]
    /\ \E limits \in Limits :
           /\ m_minConnector = limits.min /\ m_maxConnector = limits.max
           /\ m_increaseNum = limits.increase
    /\ arriving = TRUE

\* init(), called once: connect the first m_minConnector connections.
init ==
    /\ m_state = "INIT"
    /\ m_freeConnInfos' = m_freeConnInfos \o UpTo(0, m_minConnector)
    /\ m_connectorCount' = m_minConnector
    /\ m_state' = "READY"
    /\ UNCHANGED <<m_waitConnCb, m_busyConnCount, pc, idx, env>>

\* init() of which the connection i fails.
initFailed ==
    \E i \in 0..(m_minConnector - 1) :
        /\ m_state = "INIT"
        /\ m_freeConnInfos' = m_freeConnInfos \o UpTo(0, i + 1)
        /\ m_state' = "ERROR"
        /\ UNCHANGED <<m_waitConnCb, m_connectorCount, m_busyConnCount, pc, idx, env>>

-----------------------------------------------------------------------------
\* executeQuery

executeQuery(c) ==
    /\ pc[c] \in {"out", "ok", "failed"}
    /\ arriving
    /\ Goto(c, IF checkRunState THEN "borrow" ELSE "failed")
    /\ UNCHANGED <<m_state, m_waitConnCb, conns, idx, env>>

\* No query is started any more.
ArrivalsEnd ==
    /\ arriving
    /\ arriving' = FALSE
    /\ UNCHANGED <<m_state, m_waitConnCb, conns, pc, idx, m_minConnector, m_maxConnector,
                   m_increaseNum>>

\* Mutant of borrowOneConn: the index stays in the free list.
borrowOneConn_NoPop(c) ==
    /\ pc[c] = "borrow" /\ Unlocked
    /\ IF m_state # "READY" \/ m_freeConnInfos = <<>>
       THEN Goto(c, "busy") /\ UNCHANGED <<m_busyConnCount, idx>>
       ELSE /\ idx' = [idx EXCEPT ![c] = Head(m_freeConnInfos)]
            /\ m_busyConnCount' = m_busyConnCount + 1
            /\ Goto(c, "fill")
    /\ UNCHANGED <<m_state, m_freeConnInfos, m_connectorCount, m_waitConnCb, env>>

\* Under the lock: lend the first free connection, if there is one ...
borrowOneConn(c) ==
    /\ pc[c] = "borrow" /\ Unlocked
    /\ IF m_state # "READY" \/ m_freeConnInfos = <<>>
       THEN Goto(c, "busy") /\ UNCHANGED <<conns, idx>>
       ELSE /\ idx' = [idx EXCEPT ![c] = Head(m_freeConnInfos)]
            /\ m_freeConnInfos' = Tail(m_freeConnInfos)
            /\ m_busyConnCount' = m_busyConnCount + 1
            /\ Goto(c, "fill")
            /\ UNCHANGED m_connectorCount
    /\ UNCHANGED <<m_state, m_waitConnCb, env>>

\* Mutant of Fill: the last free connection leaves the pool READY.
Fill_StayReady(c) ==
    /\ pc[c] = "fill"
    /\ Goto(c, "query")
    /\ UNCHANGED <<m_state, m_waitConnCb, conns, idx, env>>

\* ... and if it was the last, the pool is FULL, even if close() came in between.
Fill(c) ==
    /\ pc[c] = "fill"
    /\ m_state' = IF m_busyConnCount = m_connectorCount THEN "FULL" ELSE m_state
    /\ Goto(c, "query")
    /\ UNCHANGED <<m_waitConnCb, conns, idx, env>>

\* Nothing was lent: expand if there is room, wait otherwise.
Busy(c) ==
    /\ pc[c] = "busy"
    /\ Goto(c, IF m_maxConnector > m_connectorCount THEN "expand" ELSE "register")
    /\ UNCHANGED <<m_state, m_waitConnCb, conns, idx, env>>

\* expand() up to its lock: the state is tested, but the test has no effect.
expand(c) ==
    /\ pc[c] = "expand"
    /\ Goto(c, IF m_maxConnector = m_connectorCount THEN "borrow" ELSE "expanding")
    /\ UNCHANGED <<m_state, m_waitConnCb, conns, idx, env>>

\* Mutant of Expanding: the room is not computed again under the lock.
Expanding_NoLimit(c) ==
    /\ pc[c] = "expanding" /\ Unlocked
    /\ m_freeConnInfos' = m_freeConnInfos
                          \o UpTo(m_connectorCount, m_connectorCount + m_increaseNum)
    /\ m_connectorCount' = m_connectorCount + m_increaseNum
    /\ m_state' = IF m_connectorCount' > m_busyConnCount THEN "READY" ELSE m_state
    /\ Goto(c, "borrow")
    /\ UNCHANGED <<m_waitConnCb, m_busyConnCount, idx, env>>

\* Under the lock: connect the next connections. Nobody is woken.
Expanding(c) ==
    LET increaseNum == SmallerOf(m_increaseNum, m_maxConnector - m_connectorCount) IN
    /\ pc[c] = "expanding" /\ Unlocked
    /\ m_freeConnInfos' = m_freeConnInfos
                          \o UpTo(m_connectorCount, m_connectorCount + increaseNum)
    /\ m_connectorCount' = m_connectorCount + increaseNum
    /\ m_state' = IF m_connectorCount' > m_busyConnCount THEN "READY" ELSE m_state
    /\ Goto(c, "borrow")
    /\ UNCHANGED <<m_waitConnCb, m_busyConnCount, idx, env>>

\* expand() of which connection i fails: i is in the free list all the same.
ExpandingFailed(c) ==
    LET increaseNum == SmallerOf(m_increaseNum, m_maxConnector - m_connectorCount) IN
    \E i \in m_connectorCount..(m_connectorCount + increaseNum - 1) :
        /\ pc[c] = "expanding" /\ Unlocked
        /\ m_freeConnInfos' = m_freeConnInfos \o UpTo(m_connectorCount, i + 1)
        /\ m_connectorCount' = i
        /\ Goto(c, "borrow")
        /\ UNCHANGED <<m_state, m_waitConnCb, m_busyConnCount, idx, env>>

\* registeConnCb() tests the state. The awaiter ignores its -1 and stays suspended.
registeConnCb(c) ==
    /\ pc[c] = "register"
    /\ Goto(c, IF checkRunState THEN "locking" ELSE "lost")
    /\ UNCHANGED <<m_state, m_waitConnCb, conns, idx, env>>

Lock(c) ==
    /\ pc[c] = "locking" /\ Unlocked
    /\ Goto(c, "locked")
    /\ UNCHANGED <<m_state, m_waitConnCb, conns, idx, env>>

\* Mutant of TestFull: a callback is queued in every state.
TestFull_Always(c) ==
    /\ pc[c] = "locked"
    /\ Goto(c, "push")
    /\ UNCHANGED <<m_state, m_waitConnCb, conns, idx, env>>

\* Mutant of TestFull: the callback is not run at once.
TestFull_Drop(c) ==
    /\ pc[c] = "locked"
    /\ Goto(c, IF m_state # "FULL" THEN "lost" ELSE "push")
    /\ UNCHANGED <<m_state, m_waitConnCb, conns, idx, env>>

\* Under the lock: run the callback at once unless the pool is FULL ...
TestFull(c) ==
    /\ pc[c] = "locked"
    /\ Goto(c, IF m_state # "FULL" THEN "woken" ELSE "push")
    /\ UNCHANGED <<m_state, m_waitConnCb, conns, idx, env>>

\* ... else queue it. close() may set the state between the two.
Push(c) ==
    /\ pc[c] = "push"
    /\ m_waitConnCb' = Append(m_waitConnCb, c)
    /\ Goto(c, "waiting")
    /\ UNCHANGED <<m_state, conns, idx, env>>

\* The callback resumes the coroutine.
Resume(c) ==
    /\ pc[c] = "woken"
    /\ Goto(c, IF checkRunState THEN "borrow" ELSE "failed")
    /\ UNCHANGED <<m_state, m_waitConnCb, conns, idx, env>>

\* The query and the ROLLBACK end, whatever their outcome.
QueryEnds(c) ==
    /\ pc[c] = "query"
    /\ Goto(c, "return")
    /\ UNCHANGED <<m_state, m_waitConnCb, conns, idx, env>>

\* The connection of c is free again.
GiveBack(c) ==
    /\ m_freeConnInfos' = Append(m_freeConnInfos, idx[c])
    /\ m_busyConnCount' = m_busyConnCount - 1
    /\ Goto(c, "settle")
    /\ UNCHANGED m_connectorCount

\* returnConn(), by ~ConnectWrapper: nothing happens in a pool that is closed.
returnConn(c) ==
    /\ pc[c] = "return" /\ Unlocked
    /\ idx' = [idx EXCEPT ![c] = -1]
    /\ IF checkRunState THEN GiveBack(c) ELSE Goto(c, "ok") /\ UNCHANGED conns
    /\ UNCHANGED <<m_state, m_waitConnCb, env>>

\* Is the pool FULL? ...
Settle(c) ==
    /\ pc[c] = "settle"
    /\ Goto(c, IF m_state = "FULL" THEN "reopen" ELSE "tickle")
    /\ UNCHANGED <<m_state, m_waitConnCb, conns, idx, env>>

\* ... Then it is READY, even if close() came in between.
Reopen(c) ==
    /\ pc[c] = "reopen"
    /\ m_state' = "READY"
    /\ Goto(c, "tickle")
    /\ UNCHANGED <<m_waitConnCb, conns, idx, env>>

-----------------------------------------------------------------------------
\* tickle, by a client that returned a connection and by close

tickle(p) ==
    /\ pc[p] = "tickle"
    /\ Goto(p, IF m_waitConnCb = <<>> THEN "ok" ELSE "wake")
    /\ UNCHANGED <<m_state, m_waitConnCb, conns, idx, env>>

\* p is done and schedules the first n callbacks.
Schedule(p, n) ==
    /\ m_waitConnCb' = SubSeq(m_waitConnCb, n + 1, Len(m_waitConnCb))
    /\ pc' = [q \in Procs |-> IF q = p THEN "ok"
                              ELSE IF \E i \in 1..n : m_waitConnCb[i] = q THEN "woken"
                              ELSE pc[q]]

Wake(p) ==
    /\ pc[p] = "wake" /\ Unlocked
    /\ Schedule(p, IF m_state = "CLOSING" THEN Len(m_waitConnCb)
                   ELSE SmallerOf(Len(m_freeConnInfos), Len(m_waitConnCb)))
    /\ UNCHANGED <<m_state, conns, idx, env>>

\* close() takes no lock for the state.
close ==
    /\ pc[Closer] = "out"
    /\ m_state' = "CLOSING"
    /\ Goto(Closer, "tickle")
    /\ UNCHANGED <<m_waitConnCb, conns, idx, env>>

-----------------------------------------------------------------------------
\* returnConn() of a connection marked as timed out

\* The lock is given up for the new connection.
ReturnTimedOut(c) ==
    /\ pc[c] = "return" /\ Unlocked /\ checkRunState
    /\ Goto(c, "reconnect")
    /\ UNCHANGED <<m_state, m_waitConnCb, conns, idx, env>>

Reconnected(c) ==
    /\ pc[c] = "reconnect" /\ Unlocked
    /\ idx' = [idx EXCEPT ![c] = -1]
    /\ GiveBack(c)
    /\ UNCHANGED <<m_state, m_waitConnCb, env>>

\* The index is dropped, and the count no longer covers the indices that are lent.
ReconnectFailed(c) ==
    /\ pc[c] = "reconnect"
    /\ idx' = [idx EXCEPT ![c] = -1]
    /\ m_connectorCount' = m_connectorCount - 1
    /\ m_busyConnCount' = m_busyConnCount - 1
    /\ Goto(c, "ok")
    /\ UNCHANGED <<m_state, m_freeConnInfos, m_waitConnCb, env>>

-----------------------------------------------------------------------------
\* The steps of a query once it has started.
ClientStep(c) ==
    \/ borrowOneConn(c) \/ Fill(c) \/ Busy(c) \/ expand(c) \/ Expanding(c)
    \/ registeConnCb(c) \/ Lock(c) \/ TestFull(c) \/ Push(c) \/ Resume(c)
    \/ QueryEnds(c) \/ returnConn(c) \/ Settle(c) \/ Reopen(c) \/ tickle(c) \/ Wake(c)

\* Connections do not fail, but may time out and be replaced.
Next ==
    \/ init \/ ArrivalsEnd
    \/ \E c \in Clients :
           executeQuery(c) \/ ClientStep(c) \/ ReturnTimedOut(c) \/ Reconnected(c)
    \/ close \/ tickle(Closer) \/ Wake(Closer)

\* Connections may fail.
FailNext ==
    \/ Next
    \/ initFailed
    \/ \E c \in Clients : ExpandingFailed(c) \/ ReconnectFailed(c)

\* The threads of the IOManager run the coroutines, and queries and new connections
\* come to an end.
Fairness ==
    /\ WF_vars(init)
    /\ \A c \in Clients : WF_vars(ClientStep(c) \/ Reconnected(c))

Spec == Init /\ [][Next]_vars /\ Fairness
FailSpec == Init /\ [][FailNext]_vars

-----------------------------------------------------------------------------
\* Properties

Holds(c) == pc[c] \in {"fill", "query", "return", "reconnect"}

\* Types.
TypeOK ==
    /\ m_state \in {"INIT", "READY", "FULL", "CLOSING", "ERROR"}
    /\ m_freeConnInfos \in Seq(Idxs) /\ m_waitConnCb \in Seq(Clients)
    /\ m_connectorCount \in 0..m_maxConnector /\ m_busyConnCount \in 0..m_maxConnector
    /\ pc \in [Procs -> {"out", "borrow", "fill", "query", "return", "reconnect", "settle",
                         "reopen", "tickle", "wake", "busy",
                         "expand", "expanding", "register", "locking", "locked", "push",
                         "waiting", "woken", "ok", "failed", "lost"}]
    /\ idx \in [Clients -> Idxs \cup {-1}]
    /\ arriving \in BOOLEAN

closed == pc[Closer] # "out"

\* borrowOneConn lends a connection to one client at a time, whatever overlaps with
\* it: no two wrappers have the same connection, and none has a free one.
Exclusive ==
    /\ IsInjective(m_freeConnInfos)
    /\ \A c \in Clients : Holds(c) =>
           /\ idx[c] \notin ToSet(m_freeConnInfos)
           /\ \A d \in Clients \ {c} : Holds(d) => idx[c] # idx[d]

\* No connection is lost in a pool that is not closed: each one is free or lent and the
\* counters say how many there are; outside the critical sections of borrowOneConn and
\* returnConn the pool is FULL exactly while none is free.
Accounting ==
    LET holders == {c \in Clients : Holds(c)} IN
    ~closed =>
        /\ ToSet(m_freeConnInfos) \cup {idx[c] : c \in holders} = 0..(m_connectorCount - 1)
        /\ m_busyConnCount = Cardinality(holders)
        /\ m_connectorCount > 0 /\ (\A c \in Clients : pc[c] \notin {"fill", "settle", "reopen"})
               => (m_state = "FULL" <=> m_freeConnInfos = <<>>)

\* A queued callback is not forgotten, although tickle schedules no more of them than
\* connections are free: while one waits in a pool that is not closed, somebody holds a
\* connection, or has returned one and has yet to tickle, or was woken for one and is
\* going to borrow it (and to tickle when it returns it).
WaitersExpected ==
    m_waitConnCb # <<>> /\ ~closed =>
        \E c \in Clients :
            \/ Holds(c)
            \/ pc[c] \in {"settle", "reopen", "tickle", "wake"}
            \/ pc[c] \in {"woken", "borrow"} /\ m_freeConnInfos # <<>>

\* Once no new queries arrive, every query comes to an end, unless the pool is closed.
\* (While they do arrive, a newcomer may take the connection that a waiter was woken for,
\* and the waiter queues again behind the others; nothing bounds how often.)
QueriesEnd == ~arriving ~> closed \/ \A c \in Clients : pc[c] \in {"out", "ok", "failed"}

\* The assertion in borrowOneConn: the connection it is about to lend is one of the
\* first m_connectorCount.
BorrowInRange ==
    m_state = "READY" /\ m_freeConnInfos # <<>> => Head(m_freeConnInfos) < m_connectorCount
=============================================================================
