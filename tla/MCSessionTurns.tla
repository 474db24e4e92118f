--------------------------- MODULE MCSessionTurns ---------------------------
EXTENDS SessionTurns, TLC

Symmetry == Permutations(Turns) \cup Permutations(Prompts)

\* Sub-ids are fresh and interchangeable, so a run without symmetry may hand
\* them out in a fixed order: an unused one is taken after those before it.
Order == CHOOSE f \in [Turns -> 1 .. Cardinality(Turns)] :
           \A t, u \in Turns : t # u => f[t] # f[u]

FirstUnused ==
  \A t, u \in Turns :
    Order[t] < Order[u] /\ pc[t] = "unused" /\ pc[u] = "unused" => pc'[u] = "unused"
=============================================================================
