----------------------------- MODULE MCWorkflow -----------------------------
(* The deployments looked at: the legacy graph through a gateway with an     *)
(* acting reviewer, the same without a checkpoint store, the SWE-bench       *)
(* graph, a weak or dead token, a backend that serves another model, and the *)
(* two standalone modes.                                                     *)
EXTENDS Workflow

Legacy == [scm |-> "gitlab", depth |-> 0, ver |-> 0, gateway |-> TRUE, review |-> "acting",
           reflect |-> TRUE, checkpoint |-> TRUE, token |-> "ok", model |-> "match"]
Direct == [Legacy EXCEPT !.gateway = FALSE, !.review = "shadow", !.reflect = FALSE]
Local  == [Legacy EXCEPT !.scm = "local", !.gateway = FALSE, !.review = "off"]
Plain  == [Legacy EXCEPT !.scm = "plain", !.review = "off", !.reflect = FALSE]

MCConfs == {Legacy, [Legacy EXCEPT !.checkpoint = FALSE, !.review = "off"], Direct,
            [Legacy EXCEPT !.ver = 99], [Direct EXCEPT !.token = "weak"],
            [Direct EXCEPT !.token = "dead"], [Direct EXCEPT !.model = "mismatch"],
            Local, [Local EXCEPT !.depth = 1], Plain}

\* a user's repository with a history
LocalConfs == {[Local EXCEPT !.depth = 1]}
=============================================================================
