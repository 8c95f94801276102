------------------------ MODULE MCPackedIDAllocator ------------------------
\* Instances of PackedIDAllocator for TLC.
EXTENDS PackedIDAllocator, TLC

Symmetry == Permutations(Clients)
=============================================================================
