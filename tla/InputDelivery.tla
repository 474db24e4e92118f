---------------------------- MODULE InputDelivery ----------------------------
(***************************************************************************)
(* What a codex-core Session promises for each input item (prompt, mail,   *)
(* injected response item): once accepted it is recorded in the            *)
(* conversation or given up, at most one of the two, and never taken back. *)
(***************************************************************************)
CONSTANT Items
VARIABLE status

Statuses == {"new", "accepted", "recorded", "dropped"}

\* An item no turn could take it to is recorded as soon as it is accepted.
Steps == {<<"new", "accepted">>, <<"new", "recorded">>,
          <<"accepted", "recorded">>, <<"accepted", "dropped">>}

Init == status = [i \in Items |-> "new"]

\* One step of the session may move several items at once.
Next ==
  /\ status' \in [Items -> Statuses]
  /\ \A i \in Items :
       status'[i] = status[i] \/ <<status[i], status'[i]>> \in Steps

Spec == Init /\ [][Next]_status
=============================================================================
