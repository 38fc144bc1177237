------------------------------ MODULE TaskLife ------------------------------
(***************************************************************************)
(* What the target promises about every SCSI command it takes in: it is    *)
(* executed at most once, answered at most once and only after it was      *)
(* executed; and a command that is dropped, because it was cleared, its    *)
(* connection went or its data never came, is neither executed nor         *)
(* answered afterwards.                                                    *)
(***************************************************************************)
CONSTANT Tasks
VARIABLE status

TypeOK == status \in [Tasks -> {"new", "pending", "executed", "answered", "dropped"}]

Init == status = [t \in Tasks |-> "new"]

Move(t, from, to) == status[t] = from /\ status' = [status EXCEPT ![t] = to]

Accept(t)  == Move(t, "new", "pending")
Execute(t) == Move(t, "pending", "executed")
Answer(t)  == Move(t, "executed", "answered")

(* One clear drops every task it meets, executed or not. *)
Drop(S) ==
  /\ \A t \in S : status[t] \in {"pending", "executed"}
  /\ status' = [t \in Tasks |-> IF t \in S THEN "dropped" ELSE status[t]]

Next ==
  \/ \E t \in Tasks : Accept(t) \/ Execute(t) \/ Answer(t)
  \/ \E S \in SUBSET Tasks : Drop(S)

Spec == Init /\ [][Next]_status

=============================================================================
