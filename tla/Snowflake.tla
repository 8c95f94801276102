----------------------------- MODULE Snowflake -----------------------------
(***************************************************************************)
(* The Snowflake generators of tools/Snowflake.hpp, one per node of a      *)
(* deployment.  nextid holds lock_ from its first to its last line, so at  *)
(* most one thread of a node is inside it: either it returns in one step,  *)
(* or it spins in wait_next_millis while the clock moves on.               *)
(***************************************************************************)
EXTENDS Integers, Sequences

CONSTANTS Nodes, WorkerId, DatacenterId,        \* the configuration of each node
          SEQUENCES, WORKERS, DATACENTERS,      \* how many values each field has:
                                                \* 1 << SEQUENCE_BITS and so on
          TWEPOCH,
          StartTimes,                           \* system_clock when the process starts
          MaxTime                               \* bound on the clocks

SEQUENCE_MASK == SEQUENCES - 1
MAX_WORKER_ID == WORKERS - 1
MAX_DATACENTER_ID == DATACENTERS - 1

\* The shifts, as factors.
WORKER_ID_SHIFT == SEQUENCES

\* Mutant of DATACENTER_ID_SHIFT: WORKER_ID_BITS is forgotten.
DATACENTER_ID_SHIFT_Short == SEQUENCES

DATACENTER_ID_SHIFT == SEQUENCES * WORKERS
TIMESTAMP_LEFT_SHIFT == SEQUENCES * WORKERS * DATACENTERS

ASSUME FieldsAssumption ==
    SEQUENCES \in Nat \ {0} /\ WORKERS \in Nat \ {0} /\ DATACENTERS \in Nat \ {0}

\* init() throws unless the configured ids fit their fields.
init ==
    \A n \in Nodes :
        /\ WorkerId[n] \in 0..MAX_WORKER_ID
        /\ DatacenterId[n] \in 0..MAX_DATACENTER_ID

ASSUME InitAssumption == init

ASSUME TimesAssumption == TWEPOCH \in Nat /\ StartTimes \subseteq Nat /\ MaxTime \in Nat

VARIABLES now,                          \* what millsecond() returns on each node
          last_timestamp_, sequence_,
          waiting,                      \* is a thread inside wait_next_millis
          given                         \* the ids each node has returned, in order

vars == <<now, last_timestamp_, sequence_, waiting, given>>

Init ==
    /\ now \in [Nodes -> StartTimes]
    /\ last_timestamp_ = [n \in Nodes |-> -1]
    /\ sequence_ = [n \in Nodes |-> 0]
    /\ waiting = [n \in Nodes |-> FALSE]
    /\ given = [n \in Nodes |-> <<>>]

\* The steady clock: start_millsecond_ plus what has passed since.
Tick(n) ==
    /\ now[n] < MaxTime
    /\ now' = [now EXCEPT ![n] = @ + 1]
    /\ UNCHANGED <<last_timestamp_, sequence_, waiting, given>>

\* The fields do not overlap, so | is +.
Id(n, timestamp, sequence) ==
    (timestamp - TWEPOCH) * TIMESTAMP_LEFT_SHIFT
    + DatacenterId[n] * DATACENTER_ID_SHIFT + WorkerId[n] * WORKER_ID_SHIFT + sequence

Return(n, timestamp, sequence) ==
    /\ last_timestamp_' = [last_timestamp_ EXCEPT ![n] = timestamp]
    /\ sequence_' = [sequence_ EXCEPT ![n] = sequence]
    /\ given' = [given EXCEPT ![n] = Append(@, Id(n, timestamp, sequence))]

\* Mutant of NextSequence: the sequence is not masked and runs into the next field.
NextSequence_NoMask(n) == sequence_[n] + 1

NextSequence(n) == (sequence_[n] + 1) % SEQUENCES

\* nextid, when it returns at once.
nextid(n) ==
    /\ ~waiting[n]
    /\ \/ /\ last_timestamp_[n] = now[n]
          /\ NextSequence(n) # 0
          /\ Return(n, now[n], NextSequence(n))
       \/ /\ last_timestamp_[n] # now[n]
          /\ Return(n, now[n], 0)
    /\ UNCHANGED <<now, waiting>>

\* nextid, when the sequence of this millisecond is used up.
nextidExhausted(n) ==
    /\ ~waiting[n]
    /\ last_timestamp_[n] = now[n]
    /\ NextSequence(n) = 0
    /\ sequence_' = [sequence_ EXCEPT ![n] = 0]
    /\ waiting' = [waiting EXCEPT ![n] = TRUE]
    /\ UNCHANGED <<now, last_timestamp_, given>>

\* Mutant of wait_next_millis: the loop ends at the old millisecond.
wait_next_millis_Early(n) ==
    /\ waiting[n]
    /\ now[n] >= last_timestamp_[n]
    /\ Return(n, now[n], 0)
    /\ waiting' = [waiting EXCEPT ![n] = FALSE]
    /\ UNCHANGED now

\* The loop ends and nextid returns.
wait_next_millis(n) ==
    /\ waiting[n]
    /\ now[n] > last_timestamp_[n]
    /\ Return(n, now[n], 0)
    /\ waiting' = [waiting EXCEPT ![n] = FALSE]
    /\ UNCHANGED now

\* The process ends, inside nextid or not, and starts again when the system clock
\* has moved past the last id (the class keeps nothing that could tell).
Restart(n) ==
    /\ now[n] > last_timestamp_[n]
    /\ last_timestamp_' = [last_timestamp_ EXCEPT ![n] = -1]
    /\ sequence_' = [sequence_ EXCEPT ![n] = 0]
    /\ waiting' = [waiting EXCEPT ![n] = FALSE]
    /\ UNCHANGED <<now, given>>

Next == \E n \in Nodes : \/ Tick(n) \/ nextid(n) \/ nextidExhausted(n)
                         \/ wait_next_millis(n) \/ Restart(n)

Spec == Init /\ [][Next]_vars

-----------------------------------------------------------------------------

\* Types: nextid keeps the sequence within its field.
TypeOK ==
    /\ now \in [Nodes -> Nat]
    /\ last_timestamp_ \in [Nodes -> Nat \cup {-1}]
    /\ sequence_ \in [Nodes -> 0..SEQUENCE_MASK]
    /\ waiting \in [Nodes -> BOOLEAN]
    /\ given \in [Nodes -> Seq(Int)]

\* Every id a node returns is greater than all ids it returned before, also when the
\* sequence of a millisecond overflows and when the process restarts.
Increasing ==
    \A n \in Nodes : \A i, j \in 1..Len(given[n]) : i < j => given[n][i] < given[n][j]

\* Nodes configured differently never return the same id.
Disjoint ==
    \A m, n \in Nodes :
        <<WorkerId[m], DatacenterId[m]>> # <<WorkerId[n], DatacenterId[n]>>
            => \A i \in 1..Len(given[m]), j \in 1..Len(given[n]) : given[m][i] # given[n][j]
=============================================================================
