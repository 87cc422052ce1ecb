----------------------------- MODULE MasterRole -----------------------------
(* What a REI3 cluster promises about its master role, without the rows,     *)
(* events and tasks it is made of: see Cluster, which implements this.       *)
EXTENDS FiniteSets

CONSTANT Nodes

VARIABLES
    holder,      \* the node that holds the role, if any: a set
    present,     \* nodes that are taken to be there
    candidates,  \* nodes that found no holder present and may take the role
    entitled,    \* nodes that were given the role since their start
    acting       \* nodes that do the master's work

vars == <<holder, present, candidates, entitled, acting>>

Init == /\ holder = {} /\ present = {} /\ candidates = {}
        /\ entitled = {} /\ acting = {}

\* a node starts: it holds nothing and what it was given before is void
Start(n) ==
    /\ n \notin acting
    /\ holder' = holder \ {n}
    /\ entitled' = entitled \ {n}
    /\ UNCHANGED <<present, candidates, acting>>

\* a node goes: by a shutdown, or removed by an admin
Leave(n) ==
    /\ holder' = holder \ {n}
    /\ present' \in {present, present \ {n}}
    /\ UNCHANGED <<candidates, entitled, acting>>

\* its process ends, which the others do not notice
End(n) ==
    /\ candidates' = candidates \ {n}
    /\ acting' = acting \ {n}
    /\ UNCHANGED <<holder, present, entitled>>

Appear(n)    == present' = present \cup {n} /\ UNCHANGED <<holder, candidates, entitled, acting>>
Disappear(n) == present' = present \ {n} /\ UNCHANGED <<holder, candidates, entitled, acting>>

\* only while the holder is not present may a node want the role
Apply(n) ==
    /\ holder \cap present = {}
    /\ candidates' = candidates \cup {n}
    /\ UNCHANGED <<holder, present, entitled, acting>>

\* the role goes to one candidate, and from everybody else; or the candidate fails
Take(n) ==
    /\ n \in candidates
    /\ candidates' = candidates \ {n}
    /\ \/ holder' = {n} /\ entitled' = entitled \cup {n}
       \/ UNCHANGED <<holder, entitled>>
    /\ UNCHANGED <<present, acting>>

\* only who was given the role begins to act; a node may learn late that it is to stop
Act(n)    == n \in entitled /\ acting' = acting \cup {n} /\ UNCHANGED <<holder, present, candidates, entitled>>
GiveUp(n) == acting' = acting \ {n} /\ UNCHANGED <<holder, present, candidates, entitled>>

Next == \E n \in Nodes :
    \/ Start(n) \/ Leave(n) \/ End(n)
    \/ Appear(n) \/ Disappear(n)
    \/ Apply(n) \/ Take(n)
    \/ Act(n) \/ GiveUp(n)

Spec == Init /\ [][Next]_vars
=============================================================================
