------------------------ MODULE MCScanningAllocator ------------------------
(***************************************************************************)
(* The scanning allocator for TLC; threads and addresses are symmetric.    *)
(***************************************************************************)
EXTENDS ScanningAllocator, TLC

Alike == Permutations(Thread) \cup Permutations(Block)

=============================================================================
