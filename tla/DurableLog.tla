----------------------------- MODULE DurableLog -----------------------------
(***************************************************************************)
(* What a rollout file promises: of the items recorded so far a prefix is  *)
(* stored, what a barrier confirmed is stored, and nothing that is stored  *)
(* is ever taken back.  Only a crash forgets items, and only unstored ones.*)
(***************************************************************************)
EXTENDS Naturals

VARIABLES recorded,   \* items handed to the recorder
          stored,     \* items in the file
          confirmed   \* items covered by a successful flush, persist or shutdown

vars == <<recorded, stored, confirmed>>

Init == recorded = 0 /\ stored = 0 /\ confirmed = 0

Record == recorded' > recorded /\ recorded' \in Nat /\ UNCHANGED <<stored, confirmed>>

Store == stored' \in (stored + 1)..recorded /\ UNCHANGED <<recorded, confirmed>>

Confirm == confirmed' \in (confirmed + 1)..stored /\ UNCHANGED <<recorded, stored>>

Crash == recorded' = stored /\ UNCHANGED <<stored, confirmed>>

Next == Record \/ Store \/ Confirm \/ Crash

Spec == Init /\ [][Next]_vars
=============================================================================
