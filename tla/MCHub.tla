------------------------------- MODULE MCHub --------------------------------
(* Instances of Hub. *)
EXTENDS Hub, TLC

CONSTANTS c1, c2, s1, s2

To(content, target) == [content |-> content, target |-> target]

\* a new schema for all, and maintenance mode, which removes c2 only
Maintenance == s1 :> <<To("schemaLoaded", Clients), To("kickNonAdmin", Clients)>>

\* a login that is disabled is on both clients
Disabled == s1 :> <<To("all", Clients)>> @@ s2 :> <<To("kick", Clients)>>
=============================================================================
