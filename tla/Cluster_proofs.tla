--------------------------- MODULE Cluster_proofs ---------------------------
(* Proofs about Cluster, for every set of nodes and all bounds: the safety   *)
(* properties that its runs check on two nodes.                              *)
EXTENDS Cluster, TLAPS

LEMMA TypeInit == Init => TypeOK
BY ClusterAssumption DEF Init, TypeOK

\* Every variable keeps its type; only nodes with a row have checked in.
THEOREM TypeCorrect == Spec => []TypeOK
<1> USE ClusterAssumption DEF TypeOK
<1>1. Init => TypeOK
    BY TypeInit
<1>2. TypeOK /\ [Next]_vars => TypeOK'
  <2> SUFFICES ASSUME TypeOK, [Next]_vars PROVE TypeOK'
      OBVIOUS
  <2> USE DEF dbVars, tasks, history, bounds
  <2>1. ASSUME NEW n \in Nodes, StartNode(n) PROVE TypeOK'
      BY <2>1 DEF StartNode
  <2>2. ASSUME NEW n \in Nodes, StartDeletesEvents(n) PROVE TypeOK'
      BY <2>2 DEF StartDeletesEvents, MissedEvents
  <2>3. ASSUME NEW n \in Nodes, StopNode(n) PROVE TypeOK'
      BY <2>3 DEF StopNode
  <2>4. ASSUME NEW n \in Nodes, Exit(n) PROVE TypeOK'
      BY <2>4 DEF Exit
  <2>5. ASSUME NEW n \in Nodes, DelNode(n) PROVE TypeOK'
      BY <2>5 DEF Mishap, DelNode
  <2>6. ASSUME NEW n \in Nodes, BecomeMissing(n) PROVE TypeOK'
      BY <2>6 DEF Mishap, BecomeMissing
  <2>7. ASSUME NEW n \in Nodes, CheckInNode(n) PROVE TypeOK'
      BY <2>7 DEF CheckInNode, CheckIn
  <2>8. ASSUME NEW n \in Nodes, LookForMaster(n) PROVE TypeOK'
      BY <2>8 DEF LookForMaster
  <2>9. ASSUME NEW n \in Nodes, SwitchMaster(n) PROVE TypeOK'
    <3>1. NewMaster(n) \in [Nodes -> BOOLEAN] /\ NewEvents(n) \in [Nodes -> SUBSET BOOLEAN]
        BY DEF NewMaster, NewEvents
    <3> QED BY <2>9, <3>1 DEF SwitchMaster
  <2>10. ASSUME NEW n \in Nodes, CollectEvents(n) PROVE TypeOK'
      BY <2>10 DEF CollectEvents
  <2>11. ASSUME NEW n \in Nodes, DeleteEvents(n) PROVE TypeOK'
      BY <2>11 DEF DeleteEvents
  <2>12. ASSUME NEW n \in Nodes, HandleEvent(n) PROVE TypeOK'
    <3>1. PICK state \in inbox[n] :
            /\ role' = [role EXCEPT ![n] = state]
            /\ inbox' = [inbox EXCEPT ![n] = @ \ {state}]
            /\ process' = [process EXCEPT ![n] = IF inbox[n] = {state} THEN "idle" ELSE "handling"]
        BY <2>12 DEF HandleEvent
    <3> QED BY <2>12, <3>1 DEF HandleEvent
  <2>13. ASSUME NEW n \in Nodes, ProcessFails(n) PROVE TypeOK'
      BY <2>13 DEF Mishap, ProcessFails
  <2>14. CASE UNCHANGED vars
      BY <2>14 DEF vars
  <2> QED BY <2>1, <2>2, <2>3, <2>4, <2>5, <2>6, <2>7, <2>8, <2>9, <2>10, <2>11, <2>12, <2>13,
             <2>14 DEF Next, CheckInTask, EventTask
<1> QED BY <1>1, <1>2, PTL DEF Spec

\* The database has one master at most: a switch takes the role from all nodes
\* in the transaction that gives it to one, the other steps only take it away.
THEOREM OneMaster == Spec => []OneMasterRow
<1>1. Init => OneMasterRow
    BY DEF Init, OneMasterRow
<1>2. TypeOK /\ OneMasterRow /\ [Next]_vars => OneMasterRow'
  <2> SUFFICES ASSUME TypeOK, OneMasterRow, [Next]_vars PROVE OneMasterRow'
      OBVIOUS
  <2> USE DEF TypeOK, OneMasterRow, dbVars, tasks, history, bounds
  <2>1. ASSUME NEW n \in Nodes, StartNode(n) \/ StopNode(n) \/ DelNode(n) PROVE OneMasterRow'
    <3>1. master' = [master EXCEPT ![n] = FALSE]
        BY <2>1 DEF StartNode, StopNode, DelNode
    <3> QED BY <3>1
  <2>2. ASSUME NEW n \in Nodes, SwitchMaster(n) PROVE OneMasterRow'
      BY <2>2 DEF SwitchMaster, NewMaster
  <2>3. ASSUME NEW n \in Nodes,
               \/ StartDeletesEvents(n) \/ Exit(n) \/ BecomeMissing(n) \/ CheckInNode(n)
               \/ LookForMaster(n) \/ EventTask(n) \/ ProcessFails(n)
        PROVE  OneMasterRow'
    <3>1. UNCHANGED master
        BY <2>3 DEF StartDeletesEvents, Exit, BecomeMissing, CheckInNode, LookForMaster,
                    EventTask, CollectEvents, DeleteEvents, HandleEvent, ProcessFails
    <3> QED BY <3>1
  <2>4. CASE UNCHANGED vars
      BY <2>4 DEF vars
  <2> QED BY <2>1, <2>2, <2>3, <2>4 DEF Next, CheckInTask
<1> QED BY <1>1, <1>2, TypeCorrect, PTL DEF Spec

-----------------------------------------------------------------------------
(* What a node knows of its role.  The invariant is about one node: the step  *)
(* of another one leaves it alone, but for the switch of the role.            *)

\* A node that is up and lost nothing: if events wait for it the state of the
\* database is among them; if none do, it is what the node collected or has.
Told(p) ==
    /\ events[p] # {} => master[p] \in events[p]
    /\ process[p] = "idle" => inbox[p] = {} /\ (events[p] = {} => role[p] = master[p])
    /\ process[p] = "collected" => inbox[p] \in {{TRUE}, {FALSE}} /\ inbox[p] \subseteq events[p]
    /\ process[p] = "handling" =>
        inbox[p] \in {{TRUE}, {FALSE}} /\ (events[p] = {} => inbox[p] = {master[p]})

\* A node that does not run yet has no role and nothing collected, a node
\* without a row has no events: what a node handles was sent after its start.
Good(p) ==
    /\ status[p] \in {"down", "starting"} => ~role[p] /\ inbox[p] = {} /\ process[p] = "idle"
    /\ p \notin registered => events[p] = {}
    /\ TRUE \in events[p] => p \in assigned \/ status[p] \in {"down", "starting"}
    /\ TRUE \in inbox[p] => p \in assigned
    /\ role[p] => p \in assigned
    /\ status[p] = "starting" => ~master[p]
    /\ status[p] \in {"starting", "up"} /\ p \notin blurred => p \in registered
    /\ status[p] = "up" /\ p \notin blurred => Told(p)

AllGood == \A p \in Nodes : Good(p)

\* a step leaves a node alone
Same(p) ==
    /\ (p \in registered)' = (p \in registered) /\ (p \in blurred)' = (p \in blurred)
    /\ (p \in assigned)' = (p \in assigned)
    /\ master'[p] = master[p] /\ role'[p] = role[p] /\ status'[p] = status[p]
    /\ events'[p] = events[p] /\ inbox'[p] = inbox[p] /\ process'[p] = process[p]

LEMMA SameStaysGood ==
    ASSUME NEW p \in Nodes, Good(p), Same(p)
    PROVE  Good(p)'
BY DEF Good, Same, Told

\* Steps of one node leave the others alone.
LEMMA OthersSame ==
    ASSUME TypeOK, NEW n \in Nodes, NEW p \in Nodes \ {n},
           \/ StartNode(n) \/ StartDeletesEvents(n) \/ StopNode(n) \/ Exit(n) \/ DelNode(n)
           \/ CollectEvents(n) \/ DeleteEvents(n) \/ HandleEvent(n) \/ ProcessFails(n)
    PROVE  Same(p)
<1> USE DEF TypeOK, Same, dbVars, tasks, history, bounds
<1>1. CASE StartNode(n)
    BY <1>1 DEF StartNode
<1>2. CASE StartDeletesEvents(n)
    BY <1>2 DEF StartDeletesEvents
<1>3. CASE StopNode(n)
    BY <1>3 DEF StopNode
<1>4. CASE Exit(n)
    BY <1>4 DEF Exit
<1>5. CASE DelNode(n)
    BY <1>5 DEF DelNode
<1>6. CASE CollectEvents(n)
    BY <1>6 DEF CollectEvents
<1>7. CASE DeleteEvents(n)
    BY <1>7 DEF DeleteEvents
<1>8. CASE HandleEvent(n)
    BY <1>8 DEF HandleEvent
<1>9. CASE ProcessFails(n)
    BY <1>9 DEF ProcessFails
<1> QED BY <1>1, <1>2, <1>3, <1>4, <1>5, <1>6, <1>7, <1>8, <1>9

\* The node that makes the step stays good.
LEMMA ActorStaysGood ==
    ASSUME TypeOK, TypeOK', NEW n \in Nodes, Good(n),
           \/ StartNode(n) \/ StartDeletesEvents(n) \/ StopNode(n) \/ Exit(n) \/ DelNode(n)
           \/ CollectEvents(n) \/ DeleteEvents(n) \/ HandleEvent(n) \/ ProcessFails(n)
    PROVE  Good(n)'
<1>0. /\ role[n] \in BOOLEAN /\ master[n] \in BOOLEAN
      /\ events[n] \in SUBSET BOOLEAN /\ inbox[n] \in SUBSET BOOLEAN
      /\ status[n] \in {"down", "starting", "up", "stopping"}
      /\ process[n] \in {"idle", "collected", "handling"}
    BY DEF TypeOK
<1> USE DEF dbVars, tasks, history, bounds
<1>1. CASE StartNode(n)
  <2>1. /\ status[n] = "down" /\ n \in registered' /\ role'[n] = FALSE /\ master'[n] = FALSE
        /\ status'[n] = IF n \in registered THEN "starting" ELSE "up"
        /\ n \notin assigned'
        /\ events'[n] = events[n] /\ inbox'[n] = inbox[n] /\ process'[n] = process[n]
      BY <1>1 DEF StartNode, TypeOK
  <2> QED BY <2>1 DEF Good, Told
<1>2. CASE StartDeletesEvents(n)
  <2>1. /\ status[n] = "starting" /\ status'[n] = "up" /\ events'[n] = {}
        /\ UNCHANGED <<registered, master, role, process, inbox, blurred, assigned>>
      BY <1>2 DEF StartDeletesEvents, MissedEvents, TypeOK
  <2> QED BY <1>0, <2>1 DEF Good, Told
<1>3. CASE StopNode(n)
  <2>1. /\ status[n] = "up" /\ status'[n] = "stopping"
        /\ UNCHANGED <<registered, events, role, process, inbox, blurred, assigned>>
      BY <1>3 DEF StopNode, TypeOK
  <2> QED BY <2>1 DEF Good
<1>4. CASE Exit(n)
  <2>1. /\ status'[n] = "down" /\ role'[n] = FALSE /\ process'[n] = "idle" /\ inbox'[n] = {}
        /\ UNCHANGED <<registered, master, events, blurred, assigned>>
      BY <1>4 DEF Exit, TypeOK
  <2> QED BY <2>1 DEF Good
<1>5. CASE DelNode(n)
  <2>1. /\ n \in blurred' /\ master'[n] = FALSE /\ events'[n] = {}
        /\ UNCHANGED <<status, role, process, inbox, assigned>>
      BY <1>5 DEF DelNode, TypeOK
  <2> QED BY <2>1 DEF Good
<1>6. CASE CollectEvents(n)
  <2>1. /\ status[n] \in {"up", "stopping"} /\ process[n] = "idle" /\ events[n] # {}
        /\ process'[n] = "collected" /\ inbox'[n] = events[n]
        /\ blurred' = IF events[n] = BOOLEAN THEN blurred \cup {n} ELSE blurred
        /\ UNCHANGED <<registered, master, events, status, role, assigned>>
      BY <1>6 DEF CollectEvents, Alive, TypeOK
  <2>2. n \notin blurred' => events[n] \in {{TRUE}, {FALSE}}
      BY <1>0, <2>1
  <2> QED BY <2>1, <2>2 DEF Good, Told
<1>7. CASE DeleteEvents(n)
  <2>1. /\ status[n] \in {"up", "stopping"} /\ process[n] = "collected"
        /\ process'[n] = "handling" /\ events'[n] = {}
        /\ blurred' = IF events[n] \subseteq inbox[n] THEN blurred ELSE blurred \cup {n}
        /\ UNCHANGED <<registered, master, status, role, inbox, assigned>>
      BY <1>7 DEF DeleteEvents, Alive, TypeOK
  <2>2. status[n] = "up" /\ n \notin blurred' => inbox[n] = {master[n]}
      BY <1>0, <2>1 DEF Good, Told
  <2> QED BY <1>0, <2>1, <2>2 DEF Good, Told
<1>8. CASE HandleEvent(n)
  <2>1. PICK state \in inbox[n] :
            /\ role' = [role EXCEPT ![n] = state]
            /\ inbox' = [inbox EXCEPT ![n] = @ \ {state}]
            /\ process' = [process EXCEPT ![n] = IF inbox[n] = {state} THEN "idle" ELSE "handling"]
      BY <1>8 DEF HandleEvent
  <2>2. /\ status[n] \in {"up", "stopping"} /\ process[n] = "handling"
        /\ role'[n] = state /\ inbox'[n] = inbox[n] \ {state}
        /\ process'[n] = IF inbox[n] = {state} THEN "idle" ELSE "handling"
        /\ UNCHANGED <<registered, master, events, status, blurred, assigned>>
      BY <1>8, <2>1 DEF HandleEvent, Alive, TypeOK
  <2>3. state \in BOOLEAN /\ (state => n \in assigned)
      BY <1>0, <2>1 DEF Good
  <2>4. status[n] = "up" /\ n \notin blurred =>
            inbox[n] = {state} /\ (events[n] = {} => state = master[n])
      BY <2>1, <2>2 DEF Good, Told
  <2>5. status[n] = "up" /\ n \notin blurred => Told(n)'
      BY <2>2, <2>4 DEF Good, Told
  <2> QED BY <2>2, <2>3, <2>5 DEF Good
<1>9. CASE ProcessFails(n)
  <2>1. /\ status[n] \in {"up", "stopping"} /\ process[n] \in {"collected", "handling"}
        /\ process'[n] = "idle" /\ inbox'[n] = {}
        /\ blurred' = IF process[n] = "handling" THEN blurred \cup {n} ELSE blurred
        /\ UNCHANGED <<registered, master, events, status, role, assigned>>
      BY <1>9 DEF ProcessFails, Alive, TypeOK
  <2> QED BY <2>1 DEF Good, Told
<1> QED BY <1>1, <1>2, <1>3, <1>4, <1>5, <1>6, <1>7, <1>8, <1>9

\* A switch sends every node the state it has from now on.
LEMMA SwitchStaysGood ==
    ASSUME TypeOK, NEW n \in Nodes, SwitchMaster(n), NEW p \in Nodes, Good(p)
    PROVE  Good(p)'
<1>1. CASE n \notin registered
  <2>1. /\ registered' = registered /\ master' = master /\ events' = events /\ status' = status
        /\ role' = role /\ process' = process /\ inbox' = inbox
        /\ blurred' = blurred /\ assigned' = assigned
      BY <1>1 DEF SwitchMaster
  <2>2. Same(p)
      BY <2>1 DEF Same
  <2> QED BY <2>2, SameStaysGood
<1>2. CASE n \in registered
  <2>1. /\ master'[p] = (p = n)
        /\ events'[p] = IF p \in registered THEN events[p] \cup {p = n} ELSE events[p]
        /\ assigned' = assigned \cup {n} /\ status[n] \in {"up", "stopping"}
        /\ UNCHANGED <<registered, status, role, process, inbox, blurred>>
      BY <1>2 DEF SwitchMaster, NewMaster, NewEvents, Alive
  <2>2. status[p] = "starting" => p # n
      BY <2>1
  <2>3. status[p] = "up" /\ p \notin blurred => Told(p)'
    <3>1. CASE p \in registered
        BY <3>1, <2>1 DEF Good, Told
    <3>2. CASE p \notin registered
        BY <3>2, <2>1 DEF Good
    <3> QED BY <3>1, <3>2
  <2> QED BY <1>2, <2>1, <2>2, <2>3 DEF Good
<1> QED BY <1>1, <1>2

LEMMA AllGoodInvariant == Spec => []AllGood
<1>1. Init => AllGood
    BY DEF Init, AllGood, Good
<1>2. TypeOK /\ TypeOK' /\ AllGood /\ [Next]_vars => AllGood'
  <2> SUFFICES ASSUME TypeOK, TypeOK', AllGood, [Next]_vars, NEW p \in Nodes PROVE Good(p)'
      BY DEF AllGood
  <2>0. Good(p)
      BY DEF AllGood
  <2>1. ASSUME NEW n \in Nodes,
               \/ StartNode(n) \/ StartDeletesEvents(n) \/ StopNode(n) \/ Exit(n) \/ DelNode(n)
               \/ CollectEvents(n) \/ DeleteEvents(n) \/ HandleEvent(n) \/ ProcessFails(n)
        PROVE  Good(p)'
    <3>1. CASE p = n
        BY <2>0, <2>1, <3>1, ActorStaysGood
    <3>2. CASE p # n
        BY <2>0, <2>1, <3>2, OthersSame, SameStaysGood
    <3> QED BY <3>1, <3>2
  <2>2. ASSUME NEW n \in Nodes, BecomeMissing(n) \/ CheckInNode(n) \/ LookForMaster(n)
        PROVE  Good(p)'
    <3>1. /\ registered' = registered /\ master' = master /\ events' = events /\ status' = status
          /\ role' = role /\ process' = process /\ inbox' = inbox
          /\ blurred' = blurred /\ assigned' = assigned
      <4>1. CASE BecomeMissing(n)
          BY <4>1 DEF BecomeMissing, history, tasks
      <4>2. CASE CheckInNode(n)
          BY <4>2 DEF CheckInNode, history
      <4>3. CASE LookForMaster(n)
          BY <4>3 DEF LookForMaster, dbVars, history
      <4> QED BY <2>2, <4>1, <4>2, <4>3
    <3>2. Same(p)
        BY <3>1 DEF Same
    <3> QED BY <2>0, <3>2, SameStaysGood
  <2>3. ASSUME NEW n \in Nodes, SwitchMaster(n) PROVE Good(p)'
      BY <2>0, <2>3, SwitchStaysGood
  <2>4. CASE UNCHANGED vars
    <3>1. Same(p)
        BY <2>4 DEF vars, Same, dbVars, tasks, history
    <3> QED BY <2>0, <3>1, SameStaysGood
  <2> QED BY <2>1, <2>2, <2>3, <2>4 DEF Next, CheckInTask, EventTask
<1> QED BY <1>1, <1>2, TypeCorrect, PTL DEF Spec

\* A node has the role only if the database gave it to it since its start; what
\* was assigned before a crash or restart has no effect.
THEOREM RoleIsAssigned == Spec => []RoleWasAssigned
<1>1. AllGood => RoleWasAssigned
    BY DEF AllGood, Good, RoleWasAssigned
<1> QED BY <1>1, AllGoodInvariant, PTL

\* A running node agrees with the database on its role or is about to, but for
\* the four ways to lose the order or the presence of an event.
THEOREM RoleAgrees == Spec => []RoleFollowsDatabase
<1>1. TypeOK /\ AllGood => RoleFollowsDatabase
  <2> SUFFICES ASSUME TypeOK, AllGood, NEW n \in Nodes, status[n] = "up", n \notin blurred,
                      role[n] # master[n]
               PROVE  master[n] \in events[n] \cup inbox[n]
      BY DEF RoleFollowsDatabase
  <2>1. Told(n)
      BY DEF AllGood, Good
  <2>2. process[n] \in {"idle", "collected", "handling"}
      BY DEF TypeOK
  <2> QED BY <2>1, <2>2 DEF Told
<1> QED BY <1>1, AllGoodInvariant, TypeCorrect, PTL

-----------------------------------------------------------------------------
(* The detailed cluster implements the abstract role.                         *)

\* what MasterRole sees of a cluster
LEMMA RoleSame ==
    ASSUME UNCHANGED <<master, fresh, checkIn, assigned, role>>
    PROVE  UNCHANGED Role!vars
BY DEF Role!vars

\* Each step of a node is one of the role, or is not seen there.
LEMMA StepImplements ==
    ASSUME TypeOK, RoleWasAssigned, AllGood, NEW n \in Nodes,
           \/ StartNode(n) \/ StartDeletesEvents(n) \/ StopNode(n) \/ Exit(n)
           \/ DelNode(n) \/ BecomeMissing(n) \/ CheckInTask(n) \/ EventTask(n) \/ ProcessFails(n),
           RoleWasAssigned'
    PROVE  [Role!Next]_Role!vars
<1> USE DEF TypeOK, dbVars, tasks, history, bounds
<1>1. CASE StartNode(n)
  <2>1. ~role[n]
      BY <1>1 DEF StartNode, AllGood, Good
  <2>2. /\ master' = [master EXCEPT ![n] = FALSE] /\ role' = [role EXCEPT ![n] = FALSE]
        /\ assigned' = assigned \ {n} /\ fresh' = fresh /\ checkIn' = checkIn
      BY <1>1 DEF StartNode
  <2>3. Role!Start(n)
      BY <2>1, <2>2 DEF Role!Start
  <2> QED BY <2>3 DEF Role!Next
<1>2. CASE StopNode(n) \/ DelNode(n)
  <2>1. /\ master' = [master EXCEPT ![n] = FALSE] /\ fresh' \in {fresh, fresh \ {n}}
        /\ assigned' = assigned /\ role' = role /\ checkIn' = checkIn
      BY <1>2 DEF StopNode, DelNode
  <2>2. Role!Leave(n)
      BY <2>1 DEF Role!Leave
  <2> QED BY <2>2 DEF Role!Next
<1>3. CASE Exit(n)
  <2>1. /\ role' = [role EXCEPT ![n] = FALSE] /\ checkIn' = [checkIn EXCEPT ![n] = "idle"]
        /\ master' = master /\ fresh' = fresh /\ assigned' = assigned
      BY <1>3 DEF Exit
  <2>2. Role!End(n)
      BY <2>1 DEF Role!End
  <2> QED BY <2>2 DEF Role!Next
<1>4. CASE BecomeMissing(n)
  <2>1. Role!Disappear(n)
      BY <1>4 DEF BecomeMissing, Role!Disappear
  <2> QED BY <2>1 DEF Role!Next
<1>5. CASE CheckInNode(n)
  <2>1. {p \in Nodes : checkIn[p] = "accepted"}' = {p \in Nodes : checkIn[p] = "accepted"}
      BY <1>5 DEF CheckInNode
  <2>2. /\ fresh' = fresh \cup ({n} \cap registered)
        /\ master' = master /\ role' = role /\ assigned' = assigned
      BY <1>5 DEF CheckInNode, CheckIn
  <2>3. CASE n \in registered
    <3>1. Role!Appear(n)
        BY <2>1, <2>2, <2>3 DEF Role!Appear
    <3> QED BY <3>1 DEF Role!Next
  <2>4. CASE n \notin registered
      BY <2>1, <2>2, <2>4 DEF Role!vars
  <2> QED BY <2>3, <2>4
<1>6. CASE LookForMaster(n)
  <2>1. /\ checkIn' = [checkIn EXCEPT ![n] = IF MasterMissing THEN "accepted" ELSE "idle"]
        /\ checkIn[n] = "checkedIn"
        /\ master' = master /\ fresh' = fresh /\ role' = role /\ assigned' = assigned
      BY <1>6 DEF LookForMaster
  <2>2. CASE MasterMissing
    <3>1. {p \in Nodes : master[p]} \cap fresh = {}
        BY <2>2 DEF MasterMissing
    <3>2. {p \in Nodes : checkIn[p] = "accepted"}' = {p \in Nodes : checkIn[p] = "accepted"} \cup {n}
        BY <2>1, <2>2
    <3>3. Role!Apply(n)
        BY <2>1, <3>1, <3>2 DEF Role!Apply
    <3> QED BY <3>3 DEF Role!Next
  <2>3. CASE ~MasterMissing
    <3>1. {p \in Nodes : checkIn[p] = "accepted"}' = {p \in Nodes : checkIn[p] = "accepted"}
        BY <2>1, <2>3
    <3> QED BY <2>1, <3>1 DEF Role!vars
  <2> QED BY <2>2, <2>3
<1>7. CASE SwitchMaster(n)
  <2>1. /\ checkIn[n] = "accepted" /\ checkIn' = [checkIn EXCEPT ![n] = "idle"]
        /\ fresh' = fresh /\ role' = role
        /\ \/ master' = [m \in Nodes |-> m = n] /\ assigned' = assigned \cup {n}
           \/ master' = master /\ assigned' = assigned
      BY <1>7 DEF SwitchMaster, NewMaster
  <2>2. Role!Take(n)
      BY <2>1 DEF Role!Take
  <2> QED BY <2>2 DEF Role!Next
<1>8. CASE HandleEvent(n)
  <2>1. PICK state \in inbox[n] : role' = [role EXCEPT ![n] = state]
      BY <1>8 DEF HandleEvent
  <2>2. /\ master' = master /\ fresh' = fresh /\ checkIn' = checkIn /\ assigned' = assigned
      BY <1>8 DEF HandleEvent
  <2>3. CASE state
    <3>1. role'[n]
        BY <2>1, <2>3
    <3>2. n \in assigned
        BY <2>2, <3>1 DEF RoleWasAssigned
    <3>3. Role!Act(n)
        BY <2>1, <2>2, <2>3, <3>2 DEF Role!Act
    <3> QED BY <3>3 DEF Role!Next
  <2>4. CASE ~state
    <3>1. Role!GiveUp(n)
        BY <2>1, <2>2, <2>4 DEF Role!GiveUp
    <3> QED BY <3>1 DEF Role!Next
  <2> QED BY <2>3, <2>4
<1>9. CASE StartDeletesEvents(n) \/ CollectEvents(n) \/ DeleteEvents(n) \/ ProcessFails(n)
  <2>1. UNCHANGED <<master, fresh, checkIn, assigned, role>>
      BY <1>9 DEF StartDeletesEvents, CollectEvents, DeleteEvents, ProcessFails
  <2> QED BY <2>1, RoleSame
<1> QED BY <1>1, <1>2, <1>3, <1>4, <1>5, <1>6, <1>7, <1>8, <1>9 DEF CheckInTask, EventTask

\* The cluster implements the role of one master: see RoleIsImplemented.  It rests
\* on RoleWasAssigned, as a node begins to act when it handles an event, long after
\* the database gave it the role.
THEOREM ImplementsRole == Spec => RoleIsImplemented
<1>1. Init => Role!Init
    BY DEF Init, Role!Init
<1>2. /\ TypeOK /\ RoleWasAssigned /\ AllGood /\ [Next]_vars
      /\ RoleWasAssigned'
      => [Role!Next]_Role!vars
  <2> SUFFICES ASSUME TypeOK, RoleWasAssigned, AllGood, [Next]_vars, RoleWasAssigned'
               PROVE  [Role!Next]_Role!vars
      OBVIOUS
  <2>1. CASE Next
      BY <2>1, StepImplements DEF Next
  <2>2. CASE UNCHANGED vars
    <3>1. UNCHANGED <<master, fresh, checkIn, assigned, role>>
        BY <2>2 DEF vars, dbVars, tasks, history
    <3> QED BY <3>1, RoleSame
  <2> QED BY <2>1, <2>2
<1> QED BY <1>1, <1>2, TypeCorrect, RoleIsAssigned, AllGoodInvariant, PTL
        DEF Spec, RoleIsImplemented, Role!Spec
=============================================================================
