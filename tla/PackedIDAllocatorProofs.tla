----------------------- MODULE PackedIDAllocatorProofs -----------------------
(***************************************************************************)
(* For every chunk width, every initial size and every limit of memory,    *)
(* the allocator implements the pool of ids and keeps the ids packed.      *)
(*                                                                         *)
(* The refinement needs to know that what a client holds is marked in the  *)
(* bitmap (Marked) by one client only (Apart), and that the prepared       *)
(* position is not (NextFree).  That ids are packed needs the converse:    *)
(* as long as no expansion has failed, all that is marked is held and so   *)
(* is every id in front of the prepared one (Dense).                       *)
(***************************************************************************)
EXTENDS PackedIDAllocator, TLAPS, WellFoundedInduction

\* Is id marked in the bitmap?
IsMarked(id) == id % W \in m_bit_map[id \div W]

Marked == \A c \in Clients : \A id \in held[c] : id \in 0..(getSize - 1) /\ IsMarked(id)

Apart == \A c, d \in Clients : \A id \in held[c] : id \in held[d] => c = d

NextFree ==
    /\ m_next_bit = -1 => m_next_chunk = 0
    /\ m_next_bit # -1 => m_next_bit \notin m_bit_map[m_next_chunk]

Dense ==
    ~expandFailed =>
        /\ m_next_bit # -1
        /\ \A id \in 0..(getSize - 1) : IsMarked(id) => id \in Held
        /\ \A id \in 0..(Id(m_next_chunk, m_next_bit) - 1) : id \in Held

IInv == TypeOK /\ Marked /\ Apart /\ NextFree /\ Dense

-----------------------------------------------------------------------------
\* Arithmetic: an id and its chunk and bit.

LEMMA Carry == ASSUME NEW a \in Int, NEW c \in Int, a < c
               PROVE  a * W + W <= c * W
BY AllocatorAssumption

LEMMA Division == ASSUME NEW id \in Nat
                  PROVE  /\ id \div W \in Nat /\ id % W \in Bits
                         /\ id = Id(id \div W, id % W)
BY AllocatorAssumption DEF Id, Bits

LEMMA Position ==
    ASSUME NEW chunk \in Nat, NEW bit \in Bits
    PROVE  /\ Id(chunk, bit) \in Nat
           /\ Id(chunk, bit) \div W = chunk /\ Id(chunk, bit) % W = bit
<1> DEFINE n == Id(chunk, bit)
<1>1. n \in Nat /\ n = chunk * W + bit
  BY AllocatorAssumption DEF Id, Bits
<1> HIDE DEF n
<1>2. n = (n \div W) * W + (n % W) /\ n % W \in 0..(W - 1) /\ n \div W \in Nat
  BY <1>1, Division DEF Id, Bits
<1>3. ~(chunk < n \div W)
  <2> SUFFICES ASSUME chunk < n \div W PROVE FALSE
    OBVIOUS
  <2>1. chunk * W + W <= (n \div W) * W
    BY <1>2, Carry
  <2> QED
    BY <2>1, <1>1, <1>2, AllocatorAssumption DEF Bits
<1>4. ~(n \div W < chunk)
  <2> SUFFICES ASSUME n \div W < chunk PROVE FALSE
    OBVIOUS
  <2>1. (n \div W) * W + W <= chunk * W
    BY <1>2, Carry
  <2> QED
    BY <2>1, <1>1, <1>2, AllocatorAssumption DEF Bits
<1>5. n \div W = chunk
  BY <1>2, <1>3, <1>4
<1> QED
  BY <1>1, <1>2, <1>5, AllocatorAssumption DEF Bits, n

\* The chunk of an id inside the bitmap exists, and an existing position is an id.
LEMMA InRange ==
    ASSUME NEW n \in Nat
    PROVE  /\ \A id \in 0..(n * W - 1) : id \in Nat /\ id \div W \in 0..(n - 1)
           /\ \A chunk \in 0..(n - 1), bit \in Bits : Id(chunk, bit) \in 0..(n * W - 1)
<1>1. ASSUME NEW id \in 0..(n * W - 1) PROVE id \in Nat /\ id \div W \in 0..(n - 1)
  <2>1. id \in Nat /\ id < n * W
    BY AllocatorAssumption
  <2>2. id \div W \in Nat /\ (id \div W) * W <= id
    BY <2>1, Division, AllocatorAssumption DEF Id, Bits
  <2>3. ~(n < id \div W)
    <3> SUFFICES ASSUME n < id \div W PROVE FALSE
      OBVIOUS
    <3>1. n * W + W <= (id \div W) * W
      BY <2>2, Carry
    <3> QED
      BY <3>1, <2>1, <2>2, AllocatorAssumption
  <2>4. id \div W # n
    BY <2>1, <2>2, AllocatorAssumption
  <2> QED
    BY <2>1, <2>2, <2>3, <2>4
<1>2. ASSUME NEW chunk \in 0..(n - 1), NEW bit \in Bits PROVE Id(chunk, bit) \in 0..(n * W - 1)
  <2>1. chunk * W + W <= n * W
    BY Carry
  <2> QED
    BY <2>1, Position, AllocatorAssumption DEF Id, Bits
<1> QED
  BY <1>1, <1>2

\* The order of ids is the order of their positions.
LEMMA Order ==
    ASSUME NEW id \in Nat, NEW chunk \in Nat, NEW bit \in Bits
    PROVE  id < Id(chunk, bit) <=> \/ id \div W < chunk
                                   \/ id \div W = chunk /\ id % W < bit
<1>1. /\ id \div W \in Nat /\ id % W \in 0..(W - 1)
      /\ id = (id \div W) * W + (id % W)
  BY Division DEF Id, Bits
<1>2. id \div W < chunk => (id \div W) * W + W <= chunk * W
  BY <1>1, Carry
<1>3. chunk < id \div W => chunk * W + W <= (id \div W) * W
  BY <1>1, Carry
<1>4. Id(chunk, bit) = chunk * W + bit /\ bit \in 0..(W - 1)
  BY DEF Id, Bits
<1>5. CASE id \div W < chunk
  BY <1>1, <1>2, <1>4, <1>5, AllocatorAssumption
<1>6. CASE chunk < id \div W
  BY <1>1, <1>3, <1>4, <1>6, AllocatorAssumption
<1>7. CASE id \div W = chunk
  BY <1>1, <1>4, <1>7, AllocatorAssumption
<1> QED
  BY <1>1, <1>5, <1>6, <1>7

\* A non-empty set of naturals has a least element.
LEMMA Least == ASSUME NEW S \in SUBSET Nat, S # {}
               PROVE  \E x \in S : \A y \in S : x <= y
<1>1. IsWellFoundedOn(OpToRel(<, Nat), Nat)
  BY NatLessThanWellFounded, Zenon
<1>2. PICK x \in S : \A y \in S : <<y, x>> \notin OpToRel(<, Nat)
  BY <1>1, WFMin, Zenon
<1>3. \A y \in S : ~(y < x)
  BY <1>2 DEF OpToRel
<1> QED
  BY <1>3

LEMMA FirstZeroDef ==
    ASSUME NEW chunk \in SUBSET Bits, chunk # Bits
    PROVE  /\ FirstZero(chunk) \in Bits \ chunk
           /\ \A k \in Bits \ chunk : FirstZero(chunk) <= k
<1>1. Bits \ chunk \in SUBSET Nat /\ Bits \ chunk # {}
  <2>1. \A b \in Bits : b \in Nat
    BY AllocatorAssumption DEF Bits
  <2> QED
    BY <2>1, Zenon
<1>2. \E b \in Bits \ chunk : \A k \in Bits \ chunk : b <= k
  BY <1>1, Least
<1> QED
  BY <1>2 DEF FirstZero

-----------------------------------------------------------------------------
\* The invariant.

LEMMA InitIInv == Init => IInv
<1> SUFFICES ASSUME Init PROVE IInv
  OBVIOUS
<1> USE DEF Init
<1>1. TypeOK
  <2>1. size \in Nat \ {0} /\ m_next_chunk \in 0..(size - 1) /\ m_next_bit \in -1..(W - 1)
    BY AllocatorAssumption
  <2>2. m_bit_map \in [0..(size - 1) -> SUBSET Bits]
    OBVIOUS
  <2>3. last \in [op : {"alloc", "free"}, id : Int, ret : Int]
    OBVIOUS
  <2> QED
    BY <2>1, <2>2, <2>3 DEF TypeOK
<1>2. \A chunk \in 0..(size - 1) : m_bit_map[chunk] = {}
  OBVIOUS
<1>3. NextFree
  BY <1>1, <1>2 DEF NextFree, TypeOK
<1>4. Marked /\ Apart
  BY DEF Marked, Apart
<1>5. Dense
  <2>1. \A id \in 0..(getSize - 1) : ~IsMarked(id)
    BY <1>1, <1>2, InRange DEF TypeOK, getSize, IsMarked
  <2>2. Id(m_next_chunk, m_next_bit) = 0
    BY AllocatorAssumption DEF Id
  <2> QED
    BY <2>1, <2>2 DEF Dense
<1> QED
  BY <1>1, <1>3, <1>4, <1>5 DEF IInv

\* Where the second half of alloc leaves the position: on a free bit, with no free
\* bit between the old position and it, or on -1 after a failed expansion.
LEMMA AdvanceFacts ==
    ASSUME TypeOK, NEW map \in [0..(size - 1) -> SUBSET Bits], Advance(map)
    PROVE  /\ size' \in Nat \ {0} /\ size <= size'
           /\ m_bit_map' \in [0..(size' - 1) -> SUBSET Bits]
           /\ \A i \in 0..(size' - 1) : m_bit_map'[i] = IF i < size THEN map[i] ELSE {}
           /\ m_next_chunk' \in 0..(size' - 1) /\ m_next_bit' \in -1..(W - 1)
           /\ error_code' \in {"SUCCESS", "INVALID_ID", "ALREADY_FREED", "EXPAND_FAILED"}
           /\ expandFailed' \in BOOLEAN /\ (expandFailed => expandFailed')
           /\ m_next_bit' = -1 => m_next_chunk' = 0 /\ expandFailed'
           /\ m_next_bit' # -1 => m_next_bit' \notin m_bit_map'[m_next_chunk']
           /\ m_next_bit' # -1 =>
                \A i \in m_next_chunk..(size' - 1), k \in Bits :
                    i < m_next_chunk' \/ (i = m_next_chunk' /\ k < m_next_bit')
                        => i < size /\ k \in map[i]
<1>t. /\ size \in Nat \ {0} /\ W \in Nat \ {0} /\ m_next_chunk \in 0..(size - 1)
      /\ error_code \in {"SUCCESS", "INVALID_ID", "ALREADY_FREED", "EXPAND_FAILED"}
  BY AllocatorAssumption DEF TypeOK
<1>e. expandFailed \in BOOLEAN
  BY Zenon DEF TypeOK
<1>1. CASE Open(map) # {}
  <2>1. Open(map) \in SUBSET Nat
    BY <1>t DEF Open
  <2>2. \E i \in Open(map) : \A j \in Open(map) : i <= j
    BY <1>1, <2>1, Least
  <2>3. /\ m_bit_map' = map /\ m_next_bit' = FirstZero(map[m_next_chunk'])
        /\ m_next_chunk' = CHOOSE i \in Open(map) : \A j \in Open(map) : i <= j
        /\ size' = size /\ error_code' = error_code /\ expandFailed' = expandFailed
    BY <1>1 DEF Advance
  <2>4. m_next_chunk' \in Open(map) /\ \A j \in Open(map) : m_next_chunk' <= j
    BY <2>2, <2>3
  <2>5. m_next_chunk' \in 0..(size - 1) /\ map[m_next_chunk'] # Bits
    BY <2>4, <1>t DEF Open
  <2>6. /\ m_next_bit' \in Bits \ map[m_next_chunk']
        /\ \A k \in Bits \ map[m_next_chunk'] : m_next_bit' <= k
    BY <2>3, <2>5, FirstZeroDef
  <2>7. m_next_bit' \in 0..(W - 1)
    BY <2>6 DEF Bits
  <2>8. ASSUME NEW i \in m_next_chunk..(size - 1), NEW k \in Bits, i < m_next_chunk'
        PROVE  k \in map[i]
    BY <2>4, <2>5, <2>8, <1>t DEF Open
  <2>9. ASSUME NEW k \in Bits, k < m_next_bit' PROVE k \in map[m_next_chunk']
    BY <2>6, <2>7, <2>9, <1>t DEF Bits
  <2>10. \A i \in m_next_chunk..(size - 1), k \in Bits :
             i < m_next_chunk' \/ (i = m_next_chunk' /\ k < m_next_bit') => i < size /\ k \in map[i]
    BY <2>8, <2>9, <1>t
  <2>11. m_next_bit' # -1 /\ m_next_bit' \in -1..(W - 1)
    BY <2>7, <1>t
  <2>12. \A i \in 0..(size' - 1) : m_bit_map'[i] = IF i < size THEN map[i] ELSE {}
    BY <2>3, <1>t
  <2>13. /\ size' \in Nat \ {0} /\ size <= size' /\ m_next_chunk' \in 0..(size' - 1)
         /\ m_bit_map' \in [0..(size' - 1) -> SUBSET Bits]
         /\ error_code' \in {"SUCCESS", "INVALID_ID", "ALREADY_FREED", "EXPAND_FAILED"}
    BY <1>t, <2>3, <2>5
  <2>14. expandFailed' \in BOOLEAN /\ (expandFailed => expandFailed')
    BY <1>e, <2>3, Zenon
  <2>15. m_next_bit' \notin m_bit_map'[m_next_chunk']
    BY <2>3, <2>6
  <2>16. \A i \in m_next_chunk..(size' - 1), k \in Bits :
             i < m_next_chunk' \/ (i = m_next_chunk' /\ k < m_next_bit') => i < size /\ k \in map[i]
    BY <2>3, <2>10
  <2> QED
    BY <2>11, <2>12, <2>13, <2>14, <2>15, <2>16, Zenon
<1>2. CASE Open(map) = {} /\ 2 * size <= MaxSize
  <2>1. /\ size' = 2 * size /\ m_next_chunk' = size /\ m_next_bit' = 0
        /\ m_bit_map' = [i \in 0..(2 * size - 1) |-> IF i < size THEN map[i] ELSE {}]
        /\ error_code' = error_code /\ expandFailed' = expandFailed
    BY <1>2, <1>t, AllocatorAssumption DEF Advance, expand
  <2>2. size' \in Nat \ {0} /\ size <= size' /\ m_next_chunk' \in 0..(size' - 1)
    BY <2>1, <1>t
  <2>3. \A i \in 0..(size' - 1) : m_bit_map'[i] = IF i < size THEN map[i] ELSE {}
    BY <2>1, <1>t
  <2>4. m_bit_map' \in [0..(size' - 1) -> SUBSET Bits]
    BY <2>1, <1>t
  <2>5. m_next_bit' \notin m_bit_map'[m_next_chunk']
    BY <2>1, <2>2, <2>3, <1>t
  <2>6. ASSUME NEW i \in m_next_chunk..(size' - 1), NEW k \in Bits,
               i < m_next_chunk' \/ (i = m_next_chunk' /\ k < m_next_bit')
        PROVE  i < size /\ k \in map[i]
    <3>1. i < size /\ i \in m_next_chunk..(size - 1)
      BY <2>1, <2>6, <1>t DEF Bits
    <3> QED
      BY <3>1, <1>2, <1>t DEF Open
  <2>7. m_next_bit' # -1 /\ m_next_bit' \in -1..(W - 1)
    BY <2>1, <1>t
  <2> QED
    BY <1>e, <1>t, <2>1, <2>2, <2>3, <2>4, <2>5, <2>6, <2>7
<1>3. CASE Open(map) = {} /\ ~(2 * size <= MaxSize)
  <2>1. /\ size' = size /\ m_next_chunk' = 0 /\ m_next_bit' = -1 /\ m_bit_map' = map
        /\ error_code' = "EXPAND_FAILED"
    BY <1>3, <1>t, AllocatorAssumption DEF Advance, expand
  <2>2. expandFailed' = TRUE
    BY <1>3, <1>t, AllocatorAssumption DEF Advance, expand
  <2>3. \A i \in 0..(size' - 1) : m_bit_map'[i] = IF i < size THEN map[i] ELSE {}
    BY <2>1, <1>t
  <2> QED
    BY <1>t, <2>1, <2>2, <2>3
<1> QED
  BY <1>1, <1>2, <1>3

\* alloc: the prepared id was free, is held afterwards, and the new position is as
\* the invariant wants it.
LEMMA AllocKeeps ==
    ASSUME IInv, NEW c \in Clients, alloc(c)
    PROVE  /\ IInv'
           /\ Pool!Alloc(c)
           /\ \A d \in Clients : \A id \in held'[d] \ held[d] :
                  ~expandFailed => \A j \in 0..(id - 1) : j \in Held
<1> USE DEF IInv
<1> DEFINE nid == Id(m_next_chunk, m_next_bit)
           map == [m_bit_map EXCEPT ![m_next_chunk] = @ \cup {Mask(m_next_bit)}]
<1>t. /\ size \in Nat \ {0} /\ W \in Nat \ {0} /\ m_next_chunk \in 0..(size - 1)
      /\ m_next_chunk \in Nat /\ m_next_bit \in -1..(W - 1)
      /\ m_bit_map \in [0..(size - 1) -> SUBSET Bits]
      /\ held \in [Clients -> SUBSET Nat]
  BY AllocatorAssumption DEF TypeOK
<1>m. Mask(m_next_bit) \in Bits /\ (m_next_bit # -1 => Mask(m_next_bit) = m_next_bit)
  BY <1>t DEF Mask, Bits
<1>1. map \in [0..(size - 1) -> SUBSET Bits]
  BY <1>t, <1>m
<1>2. m_next_bit = -1 => nid = -1
  BY <1>t DEF NextFree, Id
<1>3. m_next_bit # -1 => /\ m_next_bit \in Bits /\ nid \in 0..(size * W - 1) /\ nid \in Nat
                         /\ nid \div W = m_next_chunk /\ nid % W = m_next_bit
  <2> SUFFICES ASSUME m_next_bit # -1
               PROVE  /\ m_next_bit \in Bits /\ nid \in 0..(size * W - 1) /\ nid \in Nat
                      /\ nid \div W = m_next_chunk /\ nid % W = m_next_bit
    OBVIOUS
  <2>1. m_next_bit \in Bits
    BY <1>t DEF Bits
  <2>2. nid \in Nat /\ nid \div W = m_next_chunk /\ nid % W = m_next_bit
    BY <2>1, <1>t, Position
  <2>3. \A chunk \in 0..(size - 1), bit \in Bits : Id(chunk, bit) \in 0..(size * W - 1)
    BY <1>t, InRange
  <2> QED
    BY <2>1, <2>2, <2>3, <1>t
<1>4. m_next_bit # -1 => ~IsMarked(nid) /\ nid \notin Held
  BY <1>3 DEF NextFree, IsMarked, Marked, Held
<1>a. /\ Advance(map)
      /\ held' = IF nid = -1 THEN held ELSE [held EXCEPT ![c] = @ \cup {nid}]
      /\ last' = [op |-> "alloc", id |-> 0, ret |-> nid]
  BY DEF alloc
<1> HIDE DEF nid
<1>5. \A i \in 0..(size - 1) : m_bit_map[i] \subseteq map[i]
  BY <1>t
<1>6. m_next_bit # -1 => \A i \in 0..(size - 1) : \A k \in map[i] :
                             k \in m_bit_map[i] \/ (i = m_next_chunk /\ k = m_next_bit)
  BY <1>t, <1>m
<1>7. m_next_bit # -1 => m_next_bit \in map[m_next_chunk]
  BY <1>t, <1>m
<1> HIDE DEF map
<1>f. /\ size' \in Nat \ {0} /\ size <= size'
      /\ m_bit_map' \in [0..(size' - 1) -> SUBSET Bits]
      /\ \A i \in 0..(size' - 1) : m_bit_map'[i] = IF i < size THEN map[i] ELSE {}
      /\ m_next_chunk' \in 0..(size' - 1) /\ m_next_bit' \in -1..(W - 1)
      /\ error_code' \in {"SUCCESS", "INVALID_ID", "ALREADY_FREED", "EXPAND_FAILED"}
      /\ expandFailed' \in BOOLEAN /\ (expandFailed => expandFailed')
      /\ m_next_bit' = -1 => m_next_chunk' = 0 /\ expandFailed'
      /\ m_next_bit' # -1 => m_next_bit' \notin m_bit_map'[m_next_chunk']
      /\ m_next_bit' # -1 =>
           \A i \in m_next_chunk..(size' - 1), k \in Bits :
               i < m_next_chunk' \/ (i = m_next_chunk' /\ k < m_next_bit')
                   => i < size /\ k \in map[i]
  BY <1>1, <1>a, AdvanceFacts
<1>g. size' \in Nat \ {0} /\ m_next_chunk' \in 0..(size' - 1)
  BY <1>f, Zenon
<1>h. /\ \A d \in Clients : \A id \in held[d] : id \in held'[d]
      /\ \A d \in Clients : \A id \in held'[d] :
             id \in held[d] \/ (m_next_bit # -1 /\ d = c /\ id = nid)
      /\ m_next_bit # -1 => nid \in held'[c]
      /\ held' \in [Clients -> SUBSET Nat]
  <2>1. CASE m_next_bit = -1
    BY <2>1, <1>t, <1>2, <1>a
  <2>2. CASE m_next_bit # -1
    BY <2>2, <1>t, <1>3, <1>a
  <2> QED
    BY <2>1, <2>2
<1>8. TypeOK'
  <2>1. last' \in [op : {"alloc", "free"}, id : Int, ret : Int]
    BY <1>2, <1>3, <1>a
  <2> QED
    BY <2>1, <1>f, <1>h DEF TypeOK
<1>9. \A id \in 0..(size * W - 1) :
          id \in 0..(size' * W - 1) /\ id \in Nat /\ id \div W \in 0..(size - 1)
          /\ m_bit_map'[id \div W] = map[id \div W]
  <2> TAKE id \in 0..(size * W - 1)
  <2>1. id \in Nat /\ id \div W \in 0..(size - 1)
    BY <1>t, InRange
  <2>2. id % W \in Bits /\ id = Id(id \div W, id % W) /\ id \div W \in 0..(size' - 1)
    <3>1. \A n, m \in Nat \ {0} : n <= m => \A i \in 0..(n - 1) : i \in 0..(m - 1)
      OBVIOUS
    <3>2. size' \in Nat \ {0} /\ size <= size'
      BY <1>f, Zenon
    <3>3. id \div W \in 0..(size' - 1)
      BY ONLY <2>1, <3>1, <3>2, <1>t, Zenon
    <3> QED
      BY <2>1, <3>3, Division
  <2>3. id \in 0..(size' * W - 1)
    BY <2>2, <1>f, InRange
  <2>4. id \div W < size
    BY <2>1, <1>t
  <2>5. m_bit_map'[id \div W] = map[id \div W]
    BY <2>2, <2>4, <1>f
  <2> QED
    BY <2>1, <2>3, <2>5
<1>10. Marked'
  <2> SUFFICES ASSUME NEW d \in Clients, NEW id \in held'[d]
               PROVE  id \in 0..(size' * W - 1) /\ id % W \in m_bit_map'[id \div W]
    BY DEF Marked, getSize, IsMarked
  <2>1. CASE id \in held[d]
    BY <2>1, <1>5, <1>9 DEF Marked, getSize, IsMarked
  <2>2. CASE m_next_bit # -1 /\ id = nid
    BY <2>2, <1>3, <1>7, <1>9
  <2> QED
    BY <2>1, <2>2, <1>h
<1>11. Apart'
  <2> SUFFICES ASSUME NEW d \in Clients, NEW e \in Clients, NEW id,
                      id \in held'[d], id \in held'[e]
               PROVE  d = e
    BY DEF Apart
  <2>1. nid \notin Held => nid \notin held[d] /\ nid \notin held[e]
    BY DEF Held
  <2> QED
    BY <2>1, <1>4, <1>h DEF Apart
<1>12. NextFree'
  BY <1>f DEF NextFree
<1>13. ASSUME ~expandFailed' PROVE ~expandFailed /\ m_next_bit # -1 /\ m_next_bit' # -1
  BY <1>13, <1>f DEF Dense
<1>14. \A id : id \in Held \/ id = nid => (m_next_bit # -1 => id \in Held')
  BY <1>h DEF Held
<1>15. ASSUME ~expandFailed', NEW id \in 0..(size' * W - 1), id % W \in m_bit_map'[id \div W]
       PROVE  id \in Held'
  <2>1. id \in Nat /\ id \div W \in 0..(size' - 1) /\ id % W \in Bits
    BY <1>f, InRange, Division
  <2>2. id \div W < size /\ id % W \in map[id \div W]
    BY <1>15, <2>1, <1>f
  <2>3. id \div W \in 0..(size - 1)
    BY <2>1, <2>2, <1>t, <1>f
  <2>4. id \in 0..(size * W - 1)
    <3>1. id = Id(id \div W, id % W)
      BY <2>1, Division
    <3>2. \A chunk \in 0..(size - 1), bit \in Bits : Id(chunk, bit) \in 0..(size * W - 1)
      BY <1>t, InRange
    <3>3. Id(id \div W, id % W) \in 0..(size * W - 1)
      BY <2>1, <2>3, <3>2
    <3> QED
      BY <3>1, <3>3
  <2>5. IsMarked(id) \/ (id \div W = m_next_chunk /\ id % W = m_next_bit)
    BY <2>2, <2>3, <1>6, <1>13, <1>15 DEF IsMarked
  <2>6. IsMarked(id) => id \in Held
    BY <2>4, <1>13, <1>15 DEF Dense, getSize
  <2>7. id \div W = m_next_chunk /\ id % W = m_next_bit => id = nid
    BY <2>1, Division DEF nid
  <2> QED
    BY <2>5, <2>6, <2>7, <1>13, <1>14, <1>15
<1>16. ASSUME ~expandFailed', NEW id \in 0..(Id(m_next_chunk', m_next_bit') - 1)
       PROVE  id \in Held'
  <2>1. m_next_bit' \in Bits /\ m_next_chunk' \in Nat
    BY <1>13, <1>16, <1>f, <1>t DEF Bits
  <2>2. id \in Nat /\ id < Id(m_next_chunk', m_next_bit')
    BY <2>1, Position
  <2>3. id \div W \in Nat /\ id % W \in Bits /\ id = Id(id \div W, id % W)
    BY <2>2, Division
  <2>4. id \div W < m_next_chunk' \/ (id \div W = m_next_chunk' /\ id % W < m_next_bit')
    BY <2>1, <2>2, Order
  <2>5. CASE id < nid
    <3>1. nid \in Nat /\ ~expandFailed
      BY <1>3, <1>13, <1>16
    <3>2. id \in 0..(nid - 1)
      BY <2>2, <2>5, <3>1
    <3> QED
      BY <3>1, <3>2, <1>13, <1>14, <1>16 DEF Dense, nid
  <2>6. CASE ~(id < nid)
    <3>1. ~(id \div W < m_next_chunk)
      BY <2>2, <2>6, <1>3, <1>13, <1>16, <1>t, Order DEF nid
    <3>2. id \div W \in m_next_chunk..(size' - 1)
      <4>0. \A n \in Nat \ {0} : \A i \in 0..(n - 1) : i \in Int /\ i <= n - 1 /\ n \in Int
        OBVIOUS
      <4>1. m_next_chunk' \in Int /\ m_next_chunk' <= size' - 1 /\ size' \in Int
        BY <1>g, <4>0, Zenon
      <4>2. m_next_chunk \in Int /\ id \div W \in Int /\ m_next_chunk <= id \div W
        BY <2>3, <3>1, <1>t
      <4>3. \A q, ch, n \in Int : (q < ch \/ q = ch) /\ ch <= n - 1 => q <= n - 1
        OBVIOUS
      <4>4. id \div W <= size' - 1
        BY ONLY <2>4, <4>1, <4>2, <4>3
      <4> QED
        BY ONLY <4>1, <4>2, <4>4
    <3>3. id \div W < size /\ id % W \in map[id \div W]
      BY <2>3, <2>4, <3>2, <1>13, <1>16, <1>f
    <3>4. id \div W \in 0..(size' - 1)
      BY <3>2, <1>t, <1>f
    <3>5. id \in 0..(size' * W - 1) /\ id % W \in m_bit_map'[id \div W]
      <4>1. \A chunk \in 0..(size' - 1), bit \in Bits : Id(chunk, bit) \in 0..(size' * W - 1)
        BY <1>f, InRange
      <4>2. Id(id \div W, id % W) \in 0..(size' * W - 1)
        BY <2>3, <3>4, <4>1, Zenon
      <4>3. m_bit_map'[id \div W] = IF id \div W < size THEN map[id \div W] ELSE {}
        BY <3>4, <1>f, Zenon
      <4>4. id % W \in m_bit_map'[id \div W]
        BY <3>3, <4>3, Zenon
      <4> QED
        BY <2>3, <4>2, <4>4, Zenon
    <3> QED
      BY <3>5, <1>15, <1>16
  <2> QED
    BY <2>5, <2>6
<1>17. Dense'
  BY <1>13, <1>15, <1>16 DEF Dense, getSize, IsMarked, Id
<1>18. Pool!Alloc(c)
  <2>1. Pool!Held = Held
    BY DEF Pool!Held, Held
  <2>2. CASE m_next_bit = -1
    BY <2>2, <1>2, <1>a DEF Pool!Alloc
  <2>3. CASE m_next_bit # -1
    <3>1. nid \in Nat /\ nid # -1 /\ nid \notin Held
      BY <2>3, <1>3, <1>4
    <3> QED
      BY <2>1, <3>1, <1>a DEF Pool!Alloc
  <2> QED
    BY <2>2, <2>3
<1>19. ASSUME NEW d \in Clients, NEW id \in held'[d] \ held[d], ~expandFailed,
              NEW j \in 0..(id - 1)
       PROVE  j \in Held
  BY <1>19, <1>h DEF Dense, nid
<1> QED
  BY <1>8, <1>10, <1>11, <1>12, <1>17, <1>18, <1>19

\* A refused free changes nothing, and what it refuses is not held.
LEMMA RefusedFree ==
    ASSUME IInv, NEW c \in Clients, NEW id \in Nat, freeInvalid(c, id) \/ freeFreed(c, id)
    PROVE  IInv' /\ Pool!Free(c) /\ UNCHANGED held
<1> USE DEF IInv
<1>1. /\ size' = size /\ m_bit_map' = m_bit_map /\ m_next_chunk' = m_next_chunk
      /\ m_next_bit' = m_next_bit /\ expandFailed' = expandFailed /\ held' = held
      /\ last' = [op |-> "free", id |-> id, ret |-> -1]
      /\ error_code' \in {"SUCCESS", "INVALID_ID", "ALREADY_FREED", "EXPAND_FAILED"}
  BY DEF freeInvalid, freeFreed
<1>2. TypeOK'
  <2>1. last' \in [op : {"alloc", "free"}, id : Int, ret : Int]
    BY <1>1
  <2> QED
    BY <1>1, <2>1 DEF TypeOK
<1>3. Marked' /\ Apart' /\ NextFree' /\ Dense'
  BY <1>1 DEF Marked, Apart, NextFree, Dense, IsMarked, getSize, Held, Id
<1>4. id \notin Held
  <2> SUFFICES ASSUME NEW d \in Clients, id \in held[d] PROVE FALSE
    BY DEF Held
  <2>1. id \in 0..(size * W - 1) /\ IsMarked(id)
    BY DEF Marked, getSize
  <2>2. CASE freeInvalid(c, id)
    BY <2>1, <2>2, AllocatorAssumption DEF freeInvalid, OutOfRange, getSize, TypeOK
  <2>3. CASE freeFreed(c, id)
    <3>1. Chunk(id) = id \div W /\ Mask(Bit(id)) = id % W
      BY Division, AllocatorAssumption DEF Chunk, Bit, Mask, Bits
    <3> QED
      BY <2>1, <2>3, <3>1 DEF freeFreed, IsMarked
  <2> QED
    BY <2>2, <2>3
<1>5. Pool!Free(c)
  <2>1. Pool!Held = Held
    BY DEF Pool!Held, Held
  <2> QED
    BY <1>1, <1>4, <2>1 DEF Pool!Free
<1> QED
  BY <1>1, <1>2, <1>3, <1>5

\* free of an id that c holds or that nobody holds.
LEMMA FreeKeeps ==
    ASSUME IInv, NEW c \in Clients, NEW id \in Nat, id \in held[c] \/ id \notin Held,
           freeUsed(c, id)
    PROVE  IInv' /\ Pool!Free(c) /\ \A d \in Clients : held'[d] \subseteq held[d]
<1> USE DEF IInv
<1> DEFINE q == id \div W
           r == id % W
<1>t. /\ size \in Nat \ {0} /\ W \in Nat \ {0} /\ m_next_chunk \in 0..(size - 1)
      /\ m_next_chunk \in Nat /\ m_next_bit \in -1..(W - 1)
      /\ m_bit_map \in [0..(size - 1) -> SUBSET Bits]
      /\ held \in [Clients -> SUBSET Nat]
  BY AllocatorAssumption DEF TypeOK
<1>p. Chunk(id) = q /\ Bit(id) = r /\ Mask(Bit(id)) = r
  BY Division, AllocatorAssumption DEF Chunk, Bit, Mask, Bits
<1>q. q \in Nat /\ r \in Bits /\ r \in 0..(W - 1) /\ id = Id(q, r)
  BY Division DEF Bits
<1>r. id \in 0..(size * W - 1) /\ q \in 0..(size - 1)
  <2>1. id \in 0..(size * W - 1)
    BY <1>t DEF freeUsed, OutOfRange, getSize
  <2> QED
    BY <2>1, <1>t, InRange
<1>a. /\ size' = size /\ error_code' = error_code /\ expandFailed' = expandFailed
      /\ last' = [op |-> "free", id |-> id, ret |-> 0]
      /\ m_bit_map' = [m_bit_map EXCEPT ![q] = @ \ {r}]
      /\ held' = [held EXCEPT ![c] = @ \ {id}]
      /\ IF Before(q, r) THEN m_next_chunk' = q /\ m_next_bit' = r
         ELSE UNCHANGED <<m_next_chunk, m_next_bit>>
  BY <1>p DEF freeUsed, Cleared
<1>u. r \in m_bit_map[q]
  BY <1>p DEF freeUsed
<1>other. \A j \in Nat : j \div W = q /\ j % W = r => j = id
  BY <1>q, Division
<1> HIDE DEF q, r
<1>h. /\ \A d \in Clients : \A j \in held'[d] : j \in held[d] /\ j \in Nat /\ j # id
      /\ \A j \in Held : j # id => j \in Held'
      /\ held' \in [Clients -> SUBSET Nat]
  <2>1. ASSUME NEW d \in Clients, NEW j \in held'[d] PROVE j \in held[d] /\ j \in Nat /\ j # id
    <3>1. CASE d = c
      BY <3>1, <1>a, <1>t
    <3>2. CASE d # c
      BY <3>2, <1>a, <1>t DEF Apart, Held
    <3> QED
      BY <3>1, <3>2
  <2>2. ASSUME NEW j \in Held, j # id PROVE j \in Held'
    BY <2>2, <1>a, <1>t DEF Held
  <2>3. held' \in [Clients -> SUBSET Nat]
    BY <1>a, <1>t
  <2> QED
    BY <2>1, <2>2, <2>3
<1>b. /\ m_bit_map' \in [0..(size - 1) -> SUBSET Bits]
      /\ \A i \in 0..(size - 1) : m_bit_map'[i] \subseteq m_bit_map[i]
      /\ \A i \in 0..(size - 1) : \A k \in m_bit_map[i] :
             k \in m_bit_map'[i] \/ (i = q /\ k = r)
      /\ r \notin m_bit_map'[q]
  BY <1>a, <1>t, <1>r
<1>1. TypeOK'
  <2>1. m_next_chunk' \in 0..(size - 1) /\ m_next_bit' \in -1..(W - 1)
    <3>1. r \in -1..(W - 1)
      BY <1>q, <1>t
    <3> QED
      BY <1>a, <1>t, <1>r, <3>1
  <2>2. last' \in [op : {"alloc", "free"}, id : Int, ret : Int]
    BY <1>a
  <2> QED
    BY <2>1, <2>2, <1>a, <1>b, <1>h DEF TypeOK
<1>2. Marked'
  <2> SUFFICES ASSUME NEW d \in Clients, NEW j \in held'[d]
               PROVE  j \in 0..(size * W - 1) /\ j % W \in m_bit_map'[j \div W]
    BY <1>a DEF Marked, getSize, IsMarked
  <2>1. j \in held[d] /\ j \in Nat /\ j # id
    BY <1>h
  <2>2. j \in 0..(size * W - 1) /\ j % W \in m_bit_map[j \div W]
    BY <2>1 DEF Marked, getSize, IsMarked
  <2>3. j \div W \in 0..(size - 1)
    BY <2>2, <1>t, InRange
  <2> QED
    BY <2>1, <2>2, <2>3, <1>b, <1>other
<1>3. Apart'
  BY <1>h DEF Apart
<1>4. NextFree'
  <2>1. CASE Before(q, r)
    BY <2>1, <1>a, <1>b, <1>q, <1>t DEF NextFree
  <2>2. CASE ~Before(q, r)
    BY <2>2, <1>a, <1>b, <1>t DEF NextFree
  <2> QED
    BY <2>1, <2>2
<1>5. ASSUME ~expandFailed, NEW j \in 0..(size * W - 1), j % W \in m_bit_map'[j \div W]
      PROVE  j \in Held'
  <2>1. j \in Nat /\ j \div W \in 0..(size - 1)
    BY <1>t, InRange
  <2>2. j % W \in m_bit_map[j \div W] /\ j # id
    BY <2>1, <1>5, <1>b, <1>q DEF q, r
  <2>3. j \in Held
    BY <2>2, <1>5 DEF Dense, IsMarked, getSize
  <2> QED
    BY <2>2, <2>3, <1>h
<1>6. ASSUME ~expandFailed
      PROVE  /\ m_next_bit' # -1
             /\ \A j \in 0..(Id(m_next_chunk', m_next_bit') - 1) : j \in Held'
  <2>1. m_next_bit \in Bits /\ m_next_bit # -1
    BY <1>6, <1>t DEF Dense, Bits
  <2>2. id < Id(m_next_chunk, m_next_bit) <=> Before(q, r)
    BY <2>1, <1>t, Order DEF Before, q, r
  <2>3. Id(m_next_chunk, m_next_bit) \in Nat
    BY <2>1, <1>t, Position
  <2>4. CASE Before(q, r)
    <3>1. Id(m_next_chunk', m_next_bit') = id /\ m_next_bit' # -1
      BY <2>4, <1>a, <1>q, <1>t
    <3>2. \A j \in 0..(id - 1) : j \in Held /\ j # id
      BY <2>2, <2>3, <2>4, <1>6 DEF Dense
    <3> QED
      BY <3>1, <3>2, <1>h
  <2>5. CASE ~Before(q, r)
    <3>1. m_next_chunk' = m_next_chunk /\ m_next_bit' = m_next_bit
      BY <2>5, <1>a
    <3>2. \A j \in 0..(Id(m_next_chunk, m_next_bit) - 1) : j \in Held /\ j # id
      BY <2>2, <2>3, <2>5, <1>6 DEF Dense
    <3> QED
      BY <3>1, <3>2, <2>1, <1>h
  <2> QED
    BY <2>4, <2>5
<1>7. Dense'
  BY <1>5, <1>6, <1>a DEF Dense, getSize, IsMarked, Id
<1>8. Pool!Free(c)
  BY <1>a DEF Pool!Free
<1> QED
  BY <1>1, <1>2, <1>3, <1>4, <1>7, <1>8, <1>h

-----------------------------------------------------------------------------
\* The theorems.

\* What every step does: it keeps the invariant, is a step of the pool, and hands out
\* an id only when all smaller ones are held.
LEMMA StepFacts ==
    ASSUME IInv, Next
    PROVE  /\ IInv'
           /\ Pool!Next
           /\ \A d \in Clients : \A id \in held'[d] \ held[d] :
                  ~expandFailed => \A j \in 0..(id - 1) : j \in Held
<1>1. PICK c \in Clients :
          \/ alloc(c)
          \/ \E id \in 0..(getSize + 1) :
                 (id \in held[c] \/ id \notin Held \cup {getSize}) /\ free(c, id)
  BY DEF Next
<1>2. CASE alloc(c)
  <2>1. Pool!Next
    BY <1>2, AllocKeeps DEF Pool!Next
  <2> QED
    BY <1>2, <2>1, AllocKeeps
<1>3. ASSUME NEW id \in 0..(getSize + 1), id \in held[c] \/ id \notin Held \cup {getSize},
             free(c, id)
      PROVE  /\ IInv'
             /\ Pool!Next
             /\ \A d \in Clients : held'[d] \subseteq held[d]
  <2>1. id \in Nat /\ (id \in held[c] \/ id \notin Held)
    BY <1>3, AllocatorAssumption DEF IInv, TypeOK, getSize
  <2>2. CASE freeInvalid(c, id) \/ freeFreed(c, id)
    BY <2>1, <2>2, RefusedFree DEF Pool!Next
  <2>3. CASE freeUsed(c, id)
    BY <2>1, <2>3, FreeKeeps DEF Pool!Next
  <2> QED
    BY <1>3, <2>2, <2>3 DEF free
<1> QED
  BY <1>1, <1>2, <1>3

LEMMA NextIInv == IInv /\ [Next]_vars => IInv'
<1>1. ASSUME IInv, UNCHANGED vars PROVE IInv'
  BY <1>1 DEF vars, IInv, TypeOK, Marked, Apart, NextFree, Dense, IsMarked, getSize, Held, Id
<1> QED
  BY <1>1, StepFacts

LEMMA Invariance == Spec => []IInv
BY InitIInv, NextIInv, PTL DEF Spec

\* alloc and free keep their variables in range; in particular the prepared chunk
\* always exists.
THEOREM TypeCorrect == Spec => []TypeOK
<1>1. IInv => TypeOK
  BY DEF IInv
<1> QED
  BY <1>1, Invariance, PTL

\* alloc hands out the smallest id that nobody holds, until an expansion fails.
THEOREM IdsPacked == Spec => Packed
<1>1. IInv /\ [Next]_vars =>
        [\A c \in Clients : \A id \in held'[c] \ held[c] :
             ~expandFailed => \A j \in 0..(id - 1) : j \in Held]_vars
  BY StepFacts
<1> QED
  BY <1>1, Invariance, PTL DEF Spec, Packed

\* The allocator implements the pool of ids: no id is lent twice and no held id is
\* refused by free.
THEOREM ImplementsPool == Spec => RefinesIdPool
<1>1. Init => Pool!Init
  BY DEF Init, Pool!Init
<1>2. IInv /\ [Next]_vars => [Pool!Next]_<<held, last>>
  BY StepFacts DEF vars
<1> QED
  BY <1>1, <1>2, Invariance, PTL DEF Spec, RefinesIdPool, Pool!Spec
=============================================================================
