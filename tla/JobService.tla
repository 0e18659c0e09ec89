----------------------------- MODULE JobService -----------------------------
(***************************************************************************)
(* What the overlord promises a client about an import or a judge, one     *)
(* status per job id:                                                      *)
(*                                                                         *)
(*     free --> pending --> answered --> delivered                         *)
(*                     \--> lost                                           *)
(*                                                                         *)
(* A pending job is lost when the overlord drops it without an answer.     *)
(***************************************************************************)
CONSTANT Id

VARIABLE status

JobStatus == {"free", "pending", "answered", "delivered", "lost"}

Move(i, from, to) ==
    /\ status[i] = from
    /\ status' = [status EXCEPT ![i] = to]

Accept(i) == Move(i, "free", "pending")

Answer(i) == Move(i, "pending", "answered")

Lose(i) == Move(i, "pending", "lost")

(***************************************************************************)
(* A sync client is handed one answer, an async client all it has.         *)
(***************************************************************************)
Deliver(S) ==
    /\ \A i \in S : status[i] = "answered"
    /\ status' = [i \in Id |-> IF i \in S THEN "delivered" ELSE status[i]]

Init == status = [i \in Id |-> "free"]

Next ==
    \/ \E i \in Id : Accept(i) \/ Answer(i) \/ Lose(i)
    \/ \E S \in SUBSET Id : Deliver(S)

Spec == Init /\ [][Next]_status

=============================================================================
