---------------------------- MODULE MCMemoryJobs ----------------------------
(* Small instances of MemoryJobs: processes of one kind are interchangeable. *)
EXTENDS MemoryJobs, TLC

Symmetry == Permutations(Threads) \cup Permutations(Extractors) \cup Permutations(Consolidators)
=============================================================================
