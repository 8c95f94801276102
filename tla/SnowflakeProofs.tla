--------------------------- MODULE SnowflakeProofs ---------------------------
(***************************************************************************)
(* For every number of nodes and every size of the fields, the ids of a    *)
(* node increase and differently configured nodes never collide.           *)
(*                                                                         *)
(* Neither property is inductive: they follow from Traced, which says that *)
(* each id was built from a timestamp and a sequence number that lie       *)
(* behind the generator's present position.                                *)
(***************************************************************************)
EXTENDS Snowflake, TLAPS

\* (t, s) lies behind the position from which node n will build its next id.
Behind(n, t, s) ==
    IF last_timestamp_[n] = -1 THEN t < now[n]
    ELSE \/ t < last_timestamp_[n]
         \/ t = last_timestamp_[n] /\ (waiting[n] \/ s <= sequence_[n])

Traced ==
    \A n \in Nodes : \A i \in 1..Len(given[n]) :
        \E t \in Int, s \in 0..SEQUENCE_MASK : given[n][i] = Id(n, t, s) /\ Behind(n, t, s)

Clocks == \A n \in Nodes :
    /\ last_timestamp_[n] <= now[n]
    /\ waiting[n] => last_timestamp_[n] # -1

IInv == TypeOK /\ Clocks /\ Traced /\ Increasing

-----------------------------------------------------------------------------
\* Positional notation.

\* Of two digits' carriers the larger is larger by at least one unit.
LEMMA Carry == ASSUME NEW K \in Nat \ {0}, NEW a \in Int, NEW c \in Int, a < c
               PROVE  a * K + K <= c * K
OBVIOUS

\* The digits of a number are unique.
LEMMA Digits == ASSUME NEW K \in Nat \ {0}, NEW a \in Int, NEW c \in Int,
                       NEW b \in 0..(K - 1), NEW d \in 0..(K - 1)
                PROVE  /\ a * K + b = c * K + d => a = c /\ b = d
                       /\ a < c => a * K + b < c * K + d
<1>1. a < c => a * K + b < c * K + d
  BY Carry
<1>2. c < a => c * K + d < a * K + b
  BY Carry
<1> QED
  BY <1>1, <1>2

\* Counting modulo K.
LEMMA Counting == ASSUME NEW K \in Nat \ {0}, NEW x \in 0..(K - 1)
                  PROVE  /\ (x + 1) % K \in 0..(K - 1)
                         /\ (x + 1) % K # 0 => (x + 1) % K = x + 1
<1>1. CASE x + 1 < K
  BY <1>1
<1>2. CASE x + 1 = K
  BY <1>2
<1> QED
  BY <1>1, <1>2

\* An id written with one digit after the other.
LEMMA IdDigits == ASSUME NEW n \in Nodes, NEW t \in Int, NEW s \in 0..SEQUENCE_MASK
                  PROVE  Id(n, t, s) =
                    (((t - TWEPOCH) * DATACENTERS + DatacenterId[n]) * WORKERS + WorkerId[n])
                        * SEQUENCES + s
<1>1. DatacenterId[n] \in Int /\ WorkerId[n] \in Int
  BY InitAssumption, FieldsAssumption DEF init, MAX_WORKER_ID, MAX_DATACENTER_ID
<1>2. ASSUME NEW x \in Int, NEW y \in Int, NEW z \in Int,
             NEW S \in Int, NEW W \in Int, NEW D \in Int
      PROVE  x * (S * W * D) + y * (S * W) + z * S + s = ((x * D + y) * W + z) * S + s
  BY FieldsAssumption DEF SEQUENCE_MASK
<1> QED
  BY <1>1, <1>2, FieldsAssumption, TimesAssumption
  DEF Id, TIMESTAMP_LEFT_SHIFT, DATACENTER_ID_SHIFT, WORKER_ID_SHIFT

LEMMA IdType == ASSUME NEW n \in Nodes, NEW t \in Int, NEW s \in 0..SEQUENCE_MASK
                PROVE  Id(n, t, s) \in Int
BY InitAssumption, FieldsAssumption, TimesAssumption
DEF init, Id, TIMESTAMP_LEFT_SHIFT, DATACENTER_ID_SHIFT, WORKER_ID_SHIFT, SEQUENCE_MASK,
    MAX_WORKER_ID, MAX_DATACENTER_ID

\* A later timestamp, or a later sequence number at the same time, gives a larger id.
LEMMA IdOrder == ASSUME NEW n \in Nodes, NEW t \in Int, NEW u \in Int,
                        NEW s \in 0..SEQUENCE_MASK, NEW r \in 0..SEQUENCE_MASK,
                        t < u \/ (t = u /\ s < r)
                 PROVE  Id(n, t, s) < Id(n, u, r)
<1> DEFINE Upper(x) == ((x - TWEPOCH) * DATACENTERS + DatacenterId[n]) * WORKERS + WorkerId[n]
<1>1. /\ DatacenterId[n] \in 0..(DATACENTERS - 1) /\ WorkerId[n] \in 0..(WORKERS - 1)
      /\ TWEPOCH \in Nat
  BY InitAssumption, TimesAssumption DEF init, MAX_WORKER_ID, MAX_DATACENTER_ID
<1>2. Upper(t) \in Int /\ Upper(u) \in Int
  BY <1>1, FieldsAssumption
<1>3. CASE t < u
  <2>1. (t - TWEPOCH) * DATACENTERS + DatacenterId[n] < (u - TWEPOCH) * DATACENTERS + DatacenterId[n]
    BY <1>1, <1>3, Digits, FieldsAssumption
  <2>2. Upper(t) < Upper(u)
    <3> DEFINE a == (t - TWEPOCH) * DATACENTERS + DatacenterId[n]
               b == (u - TWEPOCH) * DATACENTERS + DatacenterId[n]
    <3>1. a \in Int /\ b \in Int /\ a < b
      BY <1>1, <2>1, FieldsAssumption
    <3> HIDE DEF a, b
    <3>2. a * WORKERS + WorkerId[n] < b * WORKERS + WorkerId[n]
      BY <1>1, <3>1, Digits, FieldsAssumption
    <3> QED
      BY <3>2 DEF a, b
  <2> HIDE DEF Upper
  <2>3. Upper(t) * SEQUENCES + s < Upper(u) * SEQUENCES + r
    BY <1>2, <2>2, Digits, FieldsAssumption DEF SEQUENCE_MASK
  <2> QED
    BY <2>3, IdDigits DEF Upper
<1>4. CASE t = u /\ s < r
  <2> HIDE DEF Upper
  <2>1. Upper(t) * SEQUENCES + s < Upper(t) * SEQUENCES + r
    BY <1>2, <1>4, FieldsAssumption DEF SEQUENCE_MASK
  <2> QED
    BY <2>1, <1>4, IdDigits DEF Upper
<1> QED
  BY <1>3, <1>4

\* Equal ids come from equally configured nodes.
LEMMA IdNode == ASSUME NEW m \in Nodes, NEW n \in Nodes, NEW t \in Int, NEW u \in Int,
                       NEW s \in 0..SEQUENCE_MASK, NEW r \in 0..SEQUENCE_MASK,
                       Id(m, t, s) = Id(n, u, r)
                PROVE  WorkerId[m] = WorkerId[n] /\ DatacenterId[m] = DatacenterId[n]
<1> DEFINE a == (t - TWEPOCH) * DATACENTERS + DatacenterId[m]
           b == (u - TWEPOCH) * DATACENTERS + DatacenterId[n]
           c == a * WORKERS + WorkerId[m]
           d == b * WORKERS + WorkerId[n]
<1>1. /\ DatacenterId[m] \in 0..(DATACENTERS - 1) /\ WorkerId[m] \in 0..(WORKERS - 1)
      /\ DatacenterId[n] \in 0..(DATACENTERS - 1) /\ WorkerId[n] \in 0..(WORKERS - 1)
      /\ TWEPOCH \in Nat
  BY InitAssumption, TimesAssumption DEF init, MAX_WORKER_ID, MAX_DATACENTER_ID
<1>2. a \in Int /\ b \in Int
  BY <1>1, FieldsAssumption
<1>3. c * SEQUENCES + s = d * SEQUENCES + r
  BY IdDigits
<1>4. a = b => DatacenterId[m] = DatacenterId[n]
  BY <1>1, Digits, FieldsAssumption
<1> HIDE DEF a, b
<1>5. c \in Int /\ d \in Int
  BY <1>1, <1>2, FieldsAssumption
<1>6. c = d => a = b /\ WorkerId[m] = WorkerId[n]
  BY <1>1, <1>2, Digits, FieldsAssumption
<1> HIDE DEF c, d
<1>7. c = d
  BY <1>3, <1>5, Digits, FieldsAssumption DEF SEQUENCE_MASK
<1> QED
  BY <1>4, <1>6, <1>7

-----------------------------------------------------------------------------
\* The invariant.

LEMMA InitIInv == Init => IInv
<1> SUFFICES ASSUME Init PROVE IInv
  OBVIOUS
<1>1. TypeOK
  <2>1. waiting \in [Nodes -> BOOLEAN]
    BY Zenon DEF Init
  <2>2. now \in [Nodes -> Nat]
    BY TimesAssumption DEF Init
  <2>3. last_timestamp_ \in [Nodes -> Nat \cup {-1}] /\ given \in [Nodes -> Seq(Int)]
    BY DEF Init
  <2>4. sequence_ \in [Nodes -> 0..SEQUENCE_MASK]
    BY FieldsAssumption DEF Init, SEQUENCE_MASK
  <2> QED
    BY <2>1, <2>2, <2>3, <2>4 DEF TypeOK
<1>2. Clocks
  <2>1. \A n \in Nodes : now[n] \in Nat /\ last_timestamp_[n] = -1
    BY <1>1 DEF Init, TypeOK
  <2>2. \A n \in Nodes : ~waiting[n]
    BY Zenon DEF Init
  <2>3. ASSUME NEW n \in Nodes PROVE last_timestamp_[n] <= now[n]
    <3>1. now[n] \in Nat /\ last_timestamp_[n] = -1
      BY <2>1
    <3>2. \A k \in Nat : -1 <= k
      OBVIOUS
    <3> QED
      BY ONLY <3>1, <3>2
  <2> QED
    BY <2>2, <2>3, Zenon DEF Clocks
<1>3. \A n \in Nodes : Len(given[n]) = 0
  BY DEF Init
<1> QED
  BY <1>1, <1>2, <1>3 DEF IInv, Traced, Increasing

\* Returning an id built from a position in front of everything that is behind keeps
\* the ids increasing and traced.
LEMMA ReturnKeeps ==
    ASSUME IInv, NEW n \in Nodes, NEW t \in Nat, NEW r \in 0..SEQUENCE_MASK, t = now[n],
           Return(n, t, r), UNCHANGED now, waiting' = [waiting EXCEPT ![n] = FALSE],
           \A u \in Int, s \in 0..SEQUENCE_MASK : Behind(n, u, s) => u < t \/ (u = t /\ s < r)
    PROVE  IInv'
<1> USE DEF IInv
<1>1. Id(n, t, r) \in Int
  BY IdType
<1>2. /\ given' = [given EXCEPT ![n] = Append(@, Id(n, t, r))]
      /\ last_timestamp_' = [last_timestamp_ EXCEPT ![n] = t]
      /\ sequence_' = [sequence_ EXCEPT ![n] = r]
      /\ now' = now /\ waiting' = [waiting EXCEPT ![n] = FALSE]
  BY DEF Return
<1>3. TypeOK'
  <2>1. waiting' \in [Nodes -> BOOLEAN]
    BY <1>2, Zenon DEF TypeOK
  <2> QED
    BY <1>1, <1>2, <2>1 DEF TypeOK
<1>4. Clocks'
  BY <1>2 DEF Clocks, TypeOK
<1>5. /\ \A m \in Nodes \ {n} : given'[m] = given[m]
      /\ Len(given'[n]) = Len(given[n]) + 1 /\ Len(given[n]) \in Nat
      /\ \A i \in 1..Len(given[n]) : given'[n][i] = given[n][i]
      /\ given'[n][Len(given[n]) + 1] = Id(n, t, r)
  BY <1>1, <1>2 DEF TypeOK
<1>6. \A u \in Int, s \in 0..SEQUENCE_MASK : Behind(n, u, s) => Behind(n, u, s)'
  BY <1>2, FieldsAssumption DEF TypeOK, Behind, SEQUENCE_MASK
<1>7. Behind(n, t, r)'
  BY <1>2 DEF TypeOK, Behind
<1>8. ASSUME NEW m \in Nodes \ {n}, NEW u \in Int, NEW s \in 0..SEQUENCE_MASK
      PROVE  Behind(m, u, s) => Behind(m, u, s)'
  BY <1>2 DEF TypeOK, Behind
<1>9. Traced'
  <2> SUFFICES ASSUME NEW m \in Nodes, NEW i \in 1..Len(given'[m])
               PROVE  \E u \in Int, s \in 0..SEQUENCE_MASK :
                          given'[m][i] = Id(m, u, s) /\ Behind(m, u, s)'
    BY DEF Traced, Id
  <2>1. CASE m # n
    BY <2>1, <1>5, <1>8 DEF Traced
  <2>2. CASE m = n /\ i <= Len(given[n])
    <3>1. i \in 1..Len(given[n])
      BY <2>2, <1>5
    <3>2. PICK u \in Int, s \in 0..SEQUENCE_MASK : given[n][i] = Id(n, u, s) /\ Behind(n, u, s)
      BY <3>1 DEF Traced
    <3> QED
      BY <2>2, <3>1, <3>2, <1>5, <1>6
  <2>3. CASE m = n /\ ~(i <= Len(given[n]))
    <3>1. i = Len(given[n]) + 1
      BY <2>3, <1>5
    <3> QED
      BY <2>3, <3>1, <1>5, <1>7
  <2> QED
    BY <2>1, <2>2, <2>3
<1>10. ASSUME NEW i \in 1..Len(given[n]) PROVE given[n][i] < Id(n, t, r)
  <2>1. PICK u \in Int, s \in 0..SEQUENCE_MASK : given[n][i] = Id(n, u, s) /\ Behind(n, u, s)
    BY DEF Traced
  <2>2. u < t \/ (u = t /\ s < r)
    BY <2>1
  <2> QED
    BY <2>1, <2>2, IdOrder
<1>11. Increasing'
  <2> SUFFICES ASSUME NEW m \in Nodes,
                      NEW i \in 1..Len(given'[m]), NEW j \in 1..Len(given'[m]), i < j
               PROVE  given'[m][i] < given'[m][j]
    BY DEF Increasing
  <2>1. CASE m # n
    BY <2>1, <1>5 DEF Increasing
  <2>2. CASE m = n /\ j <= Len(given[n])
    <3>1. i \in 1..Len(given[n]) /\ j \in 1..Len(given[n])
      BY <2>2, <1>5
    <3> QED
      BY <2>2, <3>1, <1>5 DEF Increasing
  <2>3. CASE m = n /\ ~(j <= Len(given[n]))
    <3>1. j = Len(given[n]) + 1 /\ i \in 1..Len(given[n])
      BY <2>3, <1>5
    <3> QED
      BY <2>3, <3>1, <1>5, <1>10
  <2> QED
    BY <2>1, <2>2, <2>3
<1> QED
  BY <1>3, <1>4, <1>9, <1>11

\* A step that returns no id keeps what is behind a node behind it.
LEMMA SilentKeeps ==
    ASSUME Traced, Increasing, UNCHANGED given,
           \A n \in Nodes, u \in Int, s \in 0..SEQUENCE_MASK : Behind(n, u, s) => Behind(n, u, s)'
    PROVE  Traced' /\ Increasing'
<1>1. Increasing'
  BY DEF Increasing
<1>2. Traced'
  <2> SUFFICES ASSUME NEW n \in Nodes, NEW i \in 1..Len(given[n])
               PROVE  \E u \in Int, s \in 0..SEQUENCE_MASK :
                          given[n][i] = Id(n, u, s) /\ Behind(n, u, s)'
    BY DEF Traced, Id
  <2> QED
    BY DEF Traced
<1> QED
  BY <1>1, <1>2

LEMMA NextIInv == IInv /\ [Next]_vars => IInv'
<1> SUFFICES ASSUME IInv, [Next]_vars PROVE IInv'
  OBVIOUS
<1> USE DEF IInv
<1>1. ASSUME NEW n \in Nodes, Tick(n) PROVE IInv'
  <2>1. TypeOK' /\ Clocks'
    BY <1>1 DEF Tick, TypeOK, Clocks
  <2>2. \A m \in Nodes, u \in Int, s \in 0..SEQUENCE_MASK : Behind(m, u, s) => Behind(m, u, s)'
    BY <1>1 DEF Tick, TypeOK, Behind
  <2>3. UNCHANGED given
    BY <1>1 DEF Tick
  <2> QED
    BY <2>1, <2>2, <2>3, SilentKeeps
<1>2. ASSUME NEW n \in Nodes, nextid(n) PROVE IInv'
  <2>1. now[n] \in Nat /\ UNCHANGED now /\ waiting' = [waiting EXCEPT ![n] = FALSE]
    BY <1>2, Zenon DEF nextid, TypeOK
  <2>2. CASE last_timestamp_[n] = now[n] /\ NextSequence(n) # 0
    <3>1. Return(n, now[n], NextSequence(n))
      BY <1>2, <2>2 DEF nextid
    <3>2. NextSequence(n) \in 0..SEQUENCE_MASK /\ NextSequence(n) = sequence_[n] + 1
      BY <2>2, Counting, FieldsAssumption DEF NextSequence, SEQUENCE_MASK, TypeOK
    <3>3. \A u \in Int, s \in 0..SEQUENCE_MASK :
              Behind(n, u, s) => u < now[n] \/ (u = now[n] /\ s < NextSequence(n))
      BY <1>2, <2>1, <2>2, <3>2, FieldsAssumption DEF nextid, Behind, TypeOK, SEQUENCE_MASK
    <3> QED
      BY <2>1, <3>1, <3>2, <3>3, ReturnKeeps
  <2>3. CASE last_timestamp_[n] # now[n]
    <3>1. Return(n, now[n], 0)
      BY <1>2, <2>3 DEF nextid
    <3>2. 0 \in 0..SEQUENCE_MASK
      BY FieldsAssumption DEF SEQUENCE_MASK
    <3>3. \A u \in Int, s \in 0..SEQUENCE_MASK :
              Behind(n, u, s) => u < now[n] \/ (u = now[n] /\ s < 0)
      BY <2>1, <2>3 DEF Behind, TypeOK, Clocks
    <3> QED
      BY <2>1, <3>1, <3>2, <3>3, ReturnKeeps
  <2> QED
    BY <1>2, <2>2, <2>3 DEF nextid
<1>3. ASSUME NEW n \in Nodes, nextidExhausted(n) PROVE IInv'
  <2>1. TypeOK' /\ Clocks'
    <3>1. waiting' \in [Nodes -> BOOLEAN]
      BY <1>3, Zenon DEF nextidExhausted, TypeOK
    <3> QED
      BY <1>3, <3>1, FieldsAssumption DEF nextidExhausted, TypeOK, Clocks, SEQUENCE_MASK
  <2>2. \A m \in Nodes, u \in Int, s \in 0..SEQUENCE_MASK : Behind(m, u, s) => Behind(m, u, s)'
    BY <1>3 DEF nextidExhausted, TypeOK, Behind
  <2>3. UNCHANGED given
    BY <1>3 DEF nextidExhausted
  <2> QED
    BY <2>1, <2>2, <2>3, SilentKeeps
<1>4. ASSUME NEW n \in Nodes, wait_next_millis(n) PROVE IInv'
  <2>1. 0 \in 0..SEQUENCE_MASK /\ now[n] \in Nat
    BY FieldsAssumption DEF SEQUENCE_MASK, TypeOK
  <2>2. \A u \in Int, s \in 0..SEQUENCE_MASK :
            Behind(n, u, s) => u < now[n] \/ (u = now[n] /\ s < 0)
    BY <1>4 DEF wait_next_millis, Behind, TypeOK, Clocks
  <2> QED
    BY <1>4, <2>1, <2>2, ReturnKeeps DEF wait_next_millis
<1>5. ASSUME NEW n \in Nodes, Restart(n) PROVE IInv'
  <2>1. TypeOK' /\ Clocks'
    <3>1. waiting' \in [Nodes -> BOOLEAN]
      BY <1>5, Zenon DEF Restart, TypeOK
    <3> QED
      BY <1>5, <3>1, FieldsAssumption DEF Restart, TypeOK, Clocks, SEQUENCE_MASK
  <2>2. \A m \in Nodes, u \in Int, s \in 0..SEQUENCE_MASK : Behind(m, u, s) => Behind(m, u, s)'
    BY <1>5 DEF Restart, TypeOK, Behind
  <2>3. UNCHANGED given
    BY <1>5 DEF Restart
  <2> QED
    BY <2>1, <2>2, <2>3, SilentKeeps
<1>6. CASE UNCHANGED vars
  <2>1. TypeOK' /\ Clocks'
    BY <1>6 DEF vars, TypeOK, Clocks
  <2>2. \A m \in Nodes, u \in Int, s \in 0..SEQUENCE_MASK : Behind(m, u, s) => Behind(m, u, s)'
    BY <1>6 DEF vars, Behind
  <2>3. UNCHANGED given
    BY <1>6 DEF vars
  <2> QED
    BY <2>1, <2>2, <2>3, SilentKeeps
<1> QED
  BY <1>1, <1>2, <1>3, <1>4, <1>5, <1>6 DEF Next

\* Ids that can be traced to their nodes collide only between equal configurations.
LEMMA TracedDisjoint == Traced => Disjoint
<1> SUFFICES ASSUME Traced, NEW m \in Nodes, NEW n \in Nodes,
                    <<WorkerId[m], DatacenterId[m]>> # <<WorkerId[n], DatacenterId[n]>>,
                    NEW i \in 1..Len(given[m]), NEW j \in 1..Len(given[n]),
                    given[m][i] = given[n][j]
             PROVE  FALSE
  BY DEF Disjoint
<1>1. PICK t \in Int, s \in 0..SEQUENCE_MASK : given[m][i] = Id(m, t, s)
  BY DEF Traced
<1>2. PICK u \in Int, r \in 0..SEQUENCE_MASK : given[n][j] = Id(n, u, r)
  BY DEF Traced
<1>3. Id(m, t, s) = Id(n, u, r)
  BY <1>1, <1>2
<1>4. WorkerId[m] = WorkerId[n] /\ DatacenterId[m] = DatacenterId[n]
  BY <1>3, IdNode
<1> QED
  BY <1>4

LEMMA Invariance == Spec => []IInv
BY InitIInv, NextIInv, PTL DEF Spec

\* nextid keeps its variables in their ranges; sequence_ stays within its field.
THEOREM TypeCorrect == Spec => []TypeOK
<1>1. IInv => TypeOK
  BY DEF IInv
<1> QED
  BY <1>1, Invariance, PTL

\* Each id nextid returns is greater than all the node returned before, for every
\* field size and through sequence overflows and restarts.
THEOREM IdsIncrease == Spec => []Increasing
<1>1. IInv => Increasing
  BY DEF IInv
<1> QED
  BY <1>1, Invariance, PTL

\* Nodes with different worker or data center ids never return the same id.
THEOREM NodesDisjoint == Spec => []Disjoint
<1>1. IInv => Disjoint
  BY TracedDisjoint DEF IInv
<1> QED
  BY <1>1, Invariance, PTL
=============================================================================
