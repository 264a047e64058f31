----------------------------- MODULE MCGateway -----------------------------
(* Configuration files for the gateway: a ladder of a keyless and a keyed  *)
(* backend behind a shared cache, the same ladder replayed, a gateway      *)
(* without a cache, and a file that does not load.                         *)
EXTENDS LlmGateway

Azure  == [name |-> "azure", auth |-> "entra", key |-> FALSE,
           profile |-> "reasoning", priced |-> TRUE, reports |-> TRUE]
Vertex == [name |-> "vertex", auth |-> "gcp", key |-> FALSE,
           profile |-> "chat", priced |-> FALSE, reports |-> TRUE]
Keyed  == [name |-> "keyed", auth |-> "api_key", key |-> TRUE,
           profile |-> "chat", priced |-> TRUE, reports |-> FALSE]

Ladder(mode) ==
    [backends |-> <<Azure, Keyed>>, order |-> <<"azure", "keyed">>, advance |-> TRUE,
     mode |-> mode, db |-> TRUE, normalize |-> TRUE]
Direct ==
    [backends |-> <<Vertex>>, order |-> <<"vertex">>, advance |-> FALSE,
     mode |-> "disabled", db |-> FALSE, normalize |-> FALSE]
Unknown == [Direct EXCEPT !.order = <<"vertex", "azure">>]

MCFiles == {Ladder(mode) : mode \in {"record", "cache", "replay"}} \cup {Direct, Unknown}
=============================================================================
