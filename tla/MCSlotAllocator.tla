-------------------------- MODULE MCSlotAllocator --------------------------
(* Small instances of SlotAllocator: two processes or one, more sandboxes    *)
(* than slots so that indices are exhausted and reused.                      *)
EXTENDS SlotAllocator, TLC

Symmetry == Permutations(Procs \ Agents) \cup Permutations(Sandboxes)
=============================================================================
