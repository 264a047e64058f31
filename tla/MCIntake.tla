------------------------------ MODULE MCIntake ------------------------------
(* Posts: a bug report signed with the key after the rotation, the CI result of *)
(* its fix branch, a body without object_attributes, a refused post.            *)
EXTENDS Intake

Plain == [attributes |-> TRUE, ref |-> "plain", pipeline |-> TRUE, failed |-> TRUE, of |-> 0]
Post(kid, body) ==
  [bearer |-> TRUE, kid |-> kid, claims |-> "ok", project |-> "same", body |-> body]

MCPosts   == 1..3
MCContent == <<Post("k2", Plain),
               Post("k2", [Plain EXCEPT !.ref = "fix", !.of = 1]),
               Post("k1", [Plain EXCEPT !.attributes = FALSE])>>
=============================================================================
