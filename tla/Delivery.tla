------------------------------ MODULE Delivery ------------------------------
(***************************************************************************)
(* What the path from the webhook to the orchestrator promises of an       *)
(* event: once accepted it is held until it has been handled, at least     *)
(* once, or is among the dead letters; it may get lost only by eviction    *)
(* from a stream that is full.                                             *)
(***************************************************************************)
EXTENDS Naturals

CONSTANT Events

VARIABLES
  status,  \* where each event is
  times    \* how often it has been handled

Init == status = [e \in Events |-> "absent"] /\ times = [e \in Events |-> 0]

To(e, s) == status' = [status EXCEPT ![e] = s] /\ UNCHANGED times

Handle(e) == /\ status[e] = "held"
             /\ times' = [times EXCEPT ![e] = @ + 1] /\ UNCHANGED status

Finish(e) == status[e] = "held" /\ times[e] > 0 /\ To(e, "done")
Bury(e)   == status[e] = "held" /\ To(e, "buried")

\* An event comes in, and a full stream drops its oldest events.
Accept(a, E) ==
  /\ status[a] = "absent" /\ a \notin E /\ \A e \in E : status[e] = "held" /\ times[e] = 0
  /\ status' = [e \in Events |-> IF e \in E THEN "evicted"
                                 ELSE IF e = a THEN "held" ELSE status[e]]
  /\ UNCHANGED times

Next == \E e \in Events :
          \/ Handle(e) \/ Finish(e) \/ Bury(e)
          \/ \E E \in SUBSET Events : Accept(e, E)

Spec == Init /\ [][Next]_<<status, times>>
=============================================================================
