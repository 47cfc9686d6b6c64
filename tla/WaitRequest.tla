---------------------------- MODULE WaitRequest ----------------------------
(***************************************************************************)
(* What the wait-hook API promises of a request (the DOBBY_WAIT codes of   *)
(* dobby.h): it is installed at once or becomes pending, and a pending     *)
(* request ends in exactly one of installed, timed out and cancelled.      *)
(***************************************************************************)
CONSTANT Ids

VARIABLE status

Final == {"INSTALLED", "TIMEOUT", "CANCELLED"}

Init == status = [id \in Ids |-> "none"]

Submit(id) ==
  /\ status[id] = "none"
  /\ \E s \in {"PENDING", "INSTALLED"} : status' = [status EXCEPT ![id] = s]

Finish(id) ==
  /\ status[id] = "PENDING"
  /\ \E s \in Final : status' = [status EXCEPT ![id] = s]

\* One Cancel ends every request of the library it names.
Cancel(ids) ==
  /\ \A id \in ids : status[id] = "PENDING"
  /\ status' = [id \in Ids |-> IF id \in ids THEN "CANCELLED" ELSE status[id]]

Next ==
  \/ \E id \in Ids : Submit(id) \/ Finish(id)
  \/ \E ids \in SUBSET Ids : Cancel(ids)

Spec == Init /\ [][Next]_status
=============================================================================
