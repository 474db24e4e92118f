---------------------------- MODULE MCAgentSlots ----------------------------
(* Calls are interchangeable, the names of the pool are, and so are threads  *)
(* that are stored, or are not, before the registry.                         *)
EXTENDS AgentSlots, TLC

Symmetry ==
  Permutations(Flows) \cup Permutations(Names)
    \cup Permutations(Stored) \cup Permutations(Threads \ Stored)
=============================================================================
