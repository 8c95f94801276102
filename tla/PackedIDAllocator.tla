-------------------------- MODULE PackedIDAllocator --------------------------
(***************************************************************************)
(* PackedIDAllocator of basic/tool.cc: session ids from a bitmap of chunks *)
(* of W bits (64 in the code), the position of the next id to hand out     *)
(* kept ahead of time.  alloc and free each hold m_global_mutex            *)
(* throughout, so each is one step.                                        *)
(***************************************************************************)
EXTENDS Integers

CONSTANTS Clients,      \* the callers
          W,            \* bits of one chunk
          InitSize,     \* the constructor's argument, in chunks
          MaxSize       \* the chunks that memory has room for

ASSUME AllocatorAssumption ==
    /\ W \in Nat \ {0}
    /\ InitSize \in Nat \ {0}
    /\ MaxSize \in Nat

VARIABLES size,                     \* m_bit_map.size()
          m_bit_map,                \* the set bits of each chunk
          m_next_chunk, m_next_bit,
          error_code,
          expandFailed,             \* has expand() ever failed
          held,                     \* the ids each client holds
          last                      \* the last call: its argument and its result

vars == <<size, m_bit_map, m_next_chunk, m_next_bit, error_code, expandFailed, held, last>>

Bits == 0..(W - 1)
Id(chunk, bit) == chunk * W + bit
getSize == size * W
Held == UNION {held[c] : c \in Clients}

Init ==
    /\ size = InitSize
    /\ m_bit_map = [i \in 0..(InitSize - 1) |-> {}]
    /\ m_next_chunk = 0 /\ m_next_bit = 0
    /\ error_code = "SUCCESS" /\ expandFailed = FALSE
    /\ held = [c \in Clients |-> {}]
    /\ last = [op |-> "free", id |-> 0, ret |-> -1]

\* std::countr_zero(~chunk).
FirstZero(chunk) == CHOOSE b \in Bits \ chunk : \A k \in Bits \ chunk : b <= k

\* 1ULL << m_next_bit: a shift by -1 is undefined, on x86-64 it is a shift by W-1.
Mask(bit) == IF bit = -1 THEN W - 1 ELSE bit

\* Mutant of Open: the scan starts behind the chunk of the id just given.
Open_SkipChunk(map) == {i \in (m_next_chunk + 1)..(size - 1) : map[i] # Bits}

\* The chunks from m_next_chunk on with a free bit.
Open(map) == {i \in m_next_chunk..(size - 1) : map[i] # Bits}

\* Mutant of expand: a failed resize does not undo the preset position.
expand_KeepPreset(map) ==
    \/ /\ 2 * size <= MaxSize
       /\ size' = 2 * size
       /\ m_bit_map' = [i \in 0..(2 * size - 1) |-> IF i < size THEN map[i] ELSE {}]
       /\ m_next_chunk' = size /\ m_next_bit' = 0
       /\ UNCHANGED <<error_code, expandFailed>>
    \/ /\ 2 * size > MaxSize
       /\ m_bit_map' = map
       /\ m_next_chunk' = size /\ m_next_bit' = 0
       /\ error_code' = "EXPAND_FAILED" /\ expandFailed' = TRUE
       /\ UNCHANGED size

\* Double the bitmap, the next id being the first of the new chunks; or, when
\* resize throws, leave the position that stands for failure.
expand(map) ==
    \/ /\ 2 * size <= MaxSize
       /\ size' = 2 * size
       /\ m_bit_map' = [i \in 0..(2 * size - 1) |-> IF i < size THEN map[i] ELSE {}]
       /\ m_next_chunk' = size /\ m_next_bit' = 0
       /\ UNCHANGED <<error_code, expandFailed>>
    \/ /\ 2 * size > MaxSize
       /\ m_bit_map' = map
       /\ m_next_chunk' = 0 /\ m_next_bit' = -1
       /\ error_code' = "EXPAND_FAILED" /\ expandFailed' = TRUE
       /\ UNCHANGED size

\* The second half of alloc: find the next free id, or expand.
Advance(map) ==
    \/ /\ Open(map) # {}
       /\ m_bit_map' = map
       /\ m_next_chunk' = CHOOSE i \in Open(map) : \A j \in Open(map) : i <= j
       /\ m_next_bit' = FirstZero(map[m_next_chunk'])
       /\ UNCHANGED <<size, error_code, expandFailed>>
    \/ Open(map) = {} /\ expand(map)

\* alloc returns the prepared id; -1 after a failed expansion.
alloc(c) ==
    LET id == Id(m_next_chunk, m_next_bit) IN
    /\ Advance([m_bit_map EXCEPT ![m_next_chunk] = @ \cup {Mask(m_next_bit)}])
    /\ held' = IF id = -1 THEN held ELSE [held EXCEPT ![c] = @ \cup {id}]
    /\ last' = [op |-> "alloc", id |-> 0, ret |-> id]

OutOfRange(id) == id > getSize

\* free refuses a number above getSize() ...
freeInvalid(c, id) ==
    /\ OutOfRange(id)
    /\ error_code' = "INVALID_ID"
    /\ last' = [op |-> "free", id |-> id, ret |-> -1]
    /\ UNCHANGED <<size, m_bit_map, m_next_chunk, m_next_bit, expandFailed, held>>

\* The chunk and bit of an id.
Chunk(id) == id \div W
Bit(id) == id % W

\* ... refuses an id that is not in use ...
freeFreed(c, id) ==
    /\ ~OutOfRange(id) /\ id # getSize
    /\ Mask(Bit(id)) \notin m_bit_map[Chunk(id)]
    /\ error_code' = "ALREADY_FREED"
    /\ last' = [op |-> "free", id |-> id, ret |-> -1]
    /\ UNCHANGED <<size, m_bit_map, m_next_chunk, m_next_bit, expandFailed, held>>

\* Is this position in front of the prepared one?
Before(chunk, bit) ==
    \/ chunk < m_next_chunk
    \/ chunk = m_next_chunk /\ bit < m_next_bit

\* Mutant of Cleared: the whole chunk is zeroed.
Cleared_Chunk(id) == [m_bit_map EXCEPT ![Chunk(id)] = {}]

\* m_bit_map[chunk_index] &= ~mask.
Cleared(id) == [m_bit_map EXCEPT ![Chunk(id)] = @ \ {Mask(Bit(id))}]

\* ... and takes one that is.
freeUsed(c, id) ==
    /\ ~OutOfRange(id) /\ id # getSize
    /\ Mask(Bit(id)) \in m_bit_map[Chunk(id)]
    /\ m_bit_map' = Cleared(id)
    /\ IF Before(Chunk(id), Bit(id))
       THEN m_next_chunk' = Chunk(id) /\ m_next_bit' = Bit(id)
       ELSE UNCHANGED <<m_next_chunk, m_next_bit>>
    /\ held' = [held EXCEPT ![c] = @ \ {id}]
    /\ last' = [op |-> "free", id |-> id, ret |-> 0]
    /\ UNCHANGED <<size, error_code, expandFailed>>

free(c, id) == freeInvalid(c, id) \/ freeFreed(c, id) \/ freeUsed(c, id)

\* A caller frees an id it holds, or one that nobody holds: a second time, or one
\* that is out of range. Nobody passes on getSize() or the -1 of a failed alloc,
\* which free takes for positions in or behind the bitmap.
Next == \E c \in Clients :
            \/ alloc(c)
            \/ \E id \in 0..(getSize + 1) :
                   (id \in held[c] \/ id \notin Held \cup {getSize}) /\ free(c, id)

Spec == Init /\ [][Next]_vars

Pool == INSTANCE IdPool

-----------------------------------------------------------------------------

\* Types: alloc, free and expand keep the prepared chunk inside the bitmap.
TypeOK ==
    /\ size \in Nat \ {0}
    /\ m_bit_map \in [0..(size - 1) -> SUBSET Bits]
    /\ m_next_chunk \in 0..(size - 1)
    /\ m_next_bit \in -1..(W - 1)
    /\ error_code \in {"SUCCESS", "INVALID_ID", "ALREADY_FREED", "EXPAND_FAILED"}
    /\ expandFailed \in BOOLEAN
    /\ held \in [Clients -> SUBSET Nat]
    /\ last \in [op : {"alloc", "free"}, id : Int, ret : Int]

\* The ids stay packed: alloc hands out the smallest id that is not held, as long
\* as no expansion has failed.
Packed == [][\A c \in Clients : \A id \in held'[c] \ held[c] :
                 ~expandFailed => \A j \in 0..(id - 1) : j \in Held]_vars

\* The allocator implements the pool of ids: what alloc returns is held by nobody,
\* in whatever order clients alloc and free and even after a failed expansion, and
\* free refuses no id that is held.
RefinesIdPool == Pool!Spec
=============================================================================
