------------------------------- MODULE IdPool -------------------------------
(***************************************************************************)
(* What PackedIDAllocator promises its users: alloc hands out an id nobody *)
(* holds, or fails with -1; free takes back an id (0), and refuses (-1)    *)
(* only what nobody holds.                                                 *)
(***************************************************************************)
EXTENDS Integers

CONSTANT Clients

VARIABLES held,     \* the ids each client was given and has not freed
          last      \* the last call: operation, argument, result

Held == UNION {held[c] : c \in Clients}

Init == held = [c \in Clients |-> {}] /\ last.ret = -1

Alloc(c) ==
    /\ last'.op = "alloc"
    /\ \/ last'.ret = -1 /\ UNCHANGED held
       \/ last'.ret \in Nat \ Held /\ held' = [held EXCEPT ![c] = @ \cup {last'.ret}]

Free(c) ==
    /\ last'.op = "free"
    /\ \/ last'.ret = -1 /\ last'.id \notin Held /\ UNCHANGED held
       \/ last'.ret = 0 /\ held' = [held EXCEPT ![c] = @ \ {last'.id}]

Next == \E c \in Clients : Alloc(c) \/ Free(c)

Spec == Init /\ [][Next]_<<held, last>>
=============================================================================
