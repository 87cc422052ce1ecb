------------------------------- MODULE Cluster -------------------------------
(* The master role of a REI3 cluster: nodes share a database and nothing     *)
(* else.  A node checks in regularly and takes the role of a master that is  *)
(* missing (cluster/cluster_tasks.go, SQL function master_role_request); the *)
(* nodes learn who has it from rows of instance_cluster.node_event, which    *)
(* each collects, deletes and then handles (scheduler/scheduler_cluster.go). *)
(* One action is one statement to the database, or one local step.  The two  *)
(* tasks of a node, check-in and event processing, run at the same time.     *)
(* Events that have nothing to do with the role are left out.                *)
EXTENDS Naturals, FiniteSets

CONSTANTS
    Nodes,
    MaxStarts,   \* bound: starts of nodes
    Mishaps,     \* what may happen: nodes are deleted by an admin, running nodes
                 \* check in late, events fail while they are processed
    MaxMishaps   \* bound: how often, together

ASSUME ClusterAssumption ==
    Mishaps \subseteq {"delete", "late", "event"} /\ MaxStarts \in Nat /\ MaxMishaps \in Nat

VARIABLES
    \* the database
    registered,  \* nodes with a row in instance_cluster.node
    master,      \* node -> cluster_master
    fresh,       \* nodes with date_check_in within clusterNodeMissingAfter
    events,      \* node -> states of its "masterAssigned" events (no order, see there)
    \* the nodes
    status,      \* "down", "starting" (events not yet deleted), "up", "stopping"
    role,        \* node -> cache.isClusterMaster
    checkIn,     \* progress of task clusterCheckIn
    process,     \* progress of task clusterProcessEvents
    inbox,       \* node -> states it collected and did not handle yet
    \* history and bounds
    blurred,     \* nodes that lost or mixed up a state since their start
    assigned,    \* nodes the database made master since their start
    starts, mishaps

dbVars     == <<registered, master, fresh, events>>
tasks      == <<checkIn, process, inbox>>
history    == <<blurred, assigned>>
bounds     == <<starts, mishaps>>
vars       == <<dbVars, status, role, tasks, history, bounds>>

May(x)  == x \in Mishaps /\ mishaps < MaxMishaps
Mishap  == mishaps' = mishaps + 1

Alive(n) == status[n] \in {"up", "stopping"}    \* its goroutines run

\* mutant: the age of the master's check-in is not looked at
MasterNotThere == ~ \E m \in registered : master[m]

\* mutant: a node wants the role whoever has it
MasterIgnored == TRUE

\* no master has checked in lately
MasterMissing == ~ \E m \in registered : master[m] /\ m \in fresh

-----------------------------------------------------------------------------
(* Start and end of a node *)

\* StartNode, first statement: the row is inserted, or the role given up
StartNode(n) ==
    /\ status[n] = "down"
    /\ starts < MaxStarts
    /\ starts' = starts + 1
    /\ status' = [status EXCEPT ![n] = IF n \in registered THEN "starting" ELSE "up"]
    /\ registered' = registered \cup {n}
    /\ master' = [master EXCEPT ![n] = FALSE]
    /\ role' = [role EXCEPT ![n] = FALSE]
    /\ blurred' = blurred \ {n}
    /\ assigned' = assigned \ {n}
    /\ UNCHANGED <<fresh, events, tasks, mishaps>>

\* mutant: a starting node handles the events it missed
MissedEventsKept(n) == events[n]

\* what a starting node leaves of its events
MissedEvents(n) == {}

\* StartNode, second statement, of a known node: missed events are deleted
StartDeletesEvents(n) ==
    /\ status[n] = "starting"
    /\ status' = [status EXCEPT ![n] = "up"]
    /\ events' = [events EXCEPT ![n] = MissedEvents(n)]
    /\ UNCHANGED <<registered, master, fresh, role, tasks, history, bounds>>

\* shutdown: StopNode gives up the role, while tasks may still run
StopNode(n) ==
    /\ status[n] = "up"
    /\ status' = [status EXCEPT ![n] = "stopping"]
    /\ master' = [master EXCEPT ![n] = FALSE]
    /\ UNCHANGED <<registered, fresh, events, role, tasks, history, bounds>>

\* the process ends: after a shutdown, or at any time by a crash
Exit(n) ==
    /\ status[n] # "down"
    /\ status' = [status EXCEPT ![n] = "down"]
    /\ role' = [role EXCEPT ![n] = FALSE]
    /\ checkIn' = [checkIn EXCEPT ![n] = "idle"]
    /\ process' = [process EXCEPT ![n] = "idle"]
    /\ inbox' = [inbox EXCEPT ![n] = {}]
    /\ UNCHANGED <<dbVars, history, bounds>>

\* an admin deletes a node; its events go with it
DelNode(n) ==
    /\ n \in registered
    /\ May("delete") /\ Mishap
    /\ registered' = registered \ {n}
    /\ master' = [master EXCEPT ![n] = FALSE]
    /\ fresh' = fresh \ {n}
    /\ events' = [events EXCEPT ![n] = {}]
    /\ blurred' = blurred \cup {n}
    /\ UNCHANGED <<status, role, tasks, assigned, starts>>

\* time passes without a check-in; bounded for nodes that are up
BecomeMissing(n) ==
    /\ n \in fresh
    /\ fresh' = fresh \ {n}
    /\ \/ status[n] # "up" /\ UNCHANGED mishaps
       \/ status[n] = "up" /\ May("late") /\ Mishap
    /\ UNCHANGED <<registered, master, events, status, role, tasks, history, starts>>

-----------------------------------------------------------------------------
(* Task clusterCheckIn (CheckInNode) *)

\* mutant: the row is inserted if it is missing
CheckInAnyway(n) == fresh \cup {n}

\* the update finds no row of a deleted node
CheckIn(n) == fresh \cup ({n} \cap registered)

CheckInNode(n) ==
    /\ Alive(n)
    /\ checkIn[n] = "idle"
    /\ fresh' = CheckIn(n)
    /\ checkIn' = [checkIn EXCEPT ![n] = "checkedIn"]
    /\ UNCHANGED <<registered, master, events, status, role, process, inbox, history, bounds>>

\* select of the master's check-in, and the same look of master_role_request;
\* of two reads with nothing in between the second alone decides
LookForMaster(n) ==
    /\ Alive(n)
    /\ checkIn[n] = "checkedIn"
    /\ checkIn' = [checkIn EXCEPT ![n] = IF MasterMissing THEN "accepted" ELSE "idle"]
    /\ UNCHANGED <<dbVars, status, role, process, inbox, history, bounds>>

\* mutant: the role is not taken from the other nodes
NewMasterAdded(n) == [m \in Nodes |-> master[m] \/ (m = n /\ n \in registered)]

\* the nodes' rows after a switch to n: first all lose the role
NewMaster(n) == [m \in Nodes |-> m = n /\ n \in registered]

\* mutant: only the new master is told
NewEventsForMaster(n) == [m \in Nodes |-> IF m = n THEN events[m] \cup {TRUE} ELSE events[m]]

\* the events after a switch to n: every node is told its state
NewEvents(n) ==
    [m \in Nodes |-> IF m \in registered THEN events[m] \cup {m = n} ELSE events[m]]

\* the rest of master_role_request.  Not one step with the look: a concurrent
\* request looks at what was committed before, and then waits for the rows of
\* this one.  A deleted node fails, as its event violates a foreign key.
SwitchMaster(n) ==
    /\ Alive(n)
    /\ checkIn[n] = "accepted"
    /\ checkIn' = [checkIn EXCEPT ![n] = "idle"]
    /\ IF n \in registered
       THEN /\ master' = NewMaster(n)
            /\ events' = NewEvents(n)
            /\ assigned' = assigned \cup {n}
       ELSE UNCHANGED <<master, events, assigned>>
    /\ UNCHANGED <<registered, fresh, status, role, process, inbox, blurred, bounds>>

-----------------------------------------------------------------------------
(* Task clusterProcessEvents.  It collects rows without an order, so a node  *)
(* that finds two states handles them in any order: their set is enough.     *)

CollectEvents(n) ==
    /\ Alive(n)
    /\ process[n] = "idle"
    /\ events[n] # {}
    /\ process' = [process EXCEPT ![n] = "collected"]
    /\ inbox' = [inbox EXCEPT ![n] = events[n]]
    /\ blurred' = IF events[n] = BOOLEAN THEN blurred \cup {n} ELSE blurred
    /\ UNCHANGED <<dbVars, status, role, checkIn, assigned, bounds>>

\* deletes all events of the node, those not collected too
DeleteEvents(n) ==
    /\ Alive(n)
    /\ process[n] = "collected"
    /\ process' = [process EXCEPT ![n] = "handling"]
    /\ events' = [events EXCEPT ![n] = {}]
    /\ blurred' = IF events[n] \subseteq inbox[n] THEN blurred ELSE blurred \cup {n}
    /\ UNCHANGED <<registered, master, fresh, status, role, checkIn, inbox, assigned, bounds>>

\* MasterAssigned: the node takes or gives up the role
HandleEvent(n) ==
    /\ Alive(n)
    /\ process[n] = "handling"
    /\ \E state \in inbox[n] :
        /\ role' = [role EXCEPT ![n] = state]
        /\ inbox' = [inbox EXCEPT ![n] = @ \ {state}]
        /\ process' = [process EXCEPT ![n] = IF inbox[n] = {state} THEN "idle" ELSE "handling"]
    /\ UNCHANGED <<dbVars, status, checkIn, history, bounds>>

\* the delete fails: nothing is handled, the events stay
\* another event of the batch fails: the rest of the batch is dropped
ProcessFails(n) ==
    /\ Alive(n)
    /\ process[n] \in {"collected", "handling"}
    /\ May("event") /\ Mishap
    /\ process' = [process EXCEPT ![n] = "idle"]
    /\ inbox' = [inbox EXCEPT ![n] = {}]
    /\ blurred' = IF process[n] = "handling" THEN blurred \cup {n} ELSE blurred
    /\ UNCHANGED <<dbVars, status, role, checkIn, assigned, starts>>

-----------------------------------------------------------------------------
Init ==
    /\ registered = {} /\ fresh = {}
    /\ master = [n \in Nodes |-> FALSE]
    /\ events = [n \in Nodes |-> {}]
    /\ status = [n \in Nodes |-> "down"]
    /\ role = [n \in Nodes |-> FALSE]
    /\ checkIn = [n \in Nodes |-> "idle"]
    /\ process = [n \in Nodes |-> "idle"]
    /\ inbox = [n \in Nodes |-> {}]
    /\ blurred = {} /\ assigned = {}
    /\ starts = 0 /\ mishaps = 0

CheckInTask(n) == CheckInNode(n) \/ LookForMaster(n) \/ SwitchMaster(n)
EventTask(n)   == CollectEvents(n) \/ DeleteEvents(n) \/ HandleEvent(n)

Next == \E n \in Nodes :
    \/ StartNode(n) \/ StartDeletesEvents(n) \/ StopNode(n) \/ Exit(n)
    \/ DelNode(n) \/ BecomeMissing(n)
    \/ CheckInTask(n)
    \/ EventTask(n) \/ ProcessFails(n)

Spec == Init /\ [][Next]_vars

\* The scheduler runs both tasks again and again, a start and a shutdown come
\* to their end, and a node that does not run is missing sooner or later.
Fairness ==
    \A n \in Nodes :
        /\ WF_vars(CheckInTask(n))
        /\ WF_vars(EventTask(n))
        /\ WF_vars(StartDeletesEvents(n))
        /\ WF_vars(status[n] = "stopping" /\ Exit(n))
        /\ WF_vars(status[n] # "up" /\ BecomeMissing(n))

FairSpec == Spec /\ Fairness

-----------------------------------------------------------------------------
(* Properties *)

\* Types: among them, that only a node with a row counts as checked in.
TypeOK ==
    /\ registered \subseteq Nodes /\ fresh \subseteq registered
    /\ master \in [Nodes -> BOOLEAN] /\ role \in [Nodes -> BOOLEAN]
    /\ events \in [Nodes -> SUBSET BOOLEAN] /\ inbox \in [Nodes -> SUBSET BOOLEAN]
    /\ status \in [Nodes -> {"down", "starting", "up", "stopping"}]
    /\ checkIn \in [Nodes -> {"idle", "checkedIn", "accepted"}]
    /\ process \in [Nodes -> {"idle", "collected", "handling"}]
    /\ blurred \subseteq Nodes /\ assigned \subseteq Nodes
    /\ starts \in Nat /\ mishaps \in Nat

\* However many nodes request the role at the same time, start, stop or crash
\* in between, the database never has two masters.
OneMasterRow == \A m, n \in Nodes : master[m] /\ master[n] => m = n

\* A node never acts as master because of an event from before its start: it
\* has the role only if the database gave it the role since then.
RoleWasAssigned == \A n \in Nodes : role[n] => n \in assigned

\* A running node agrees with the database on its role, or the event that will
\* make it agree is waiting for it.  The exceptions are exactly these: it was
\* deleted while it ran, it collected two states at once (the order is lost),
\* an event arrived between collecting and deleting, or an error ended a batch.
RoleFollowsDatabase ==
    \A n \in Nodes :
        status[n] = "up" /\ n \notin blurred /\ role[n] # master[n]
            => master[n] \in events[n] \cup inbox[n]

Role == INSTANCE MasterRole WITH
    holder     <- {n \in Nodes : master[n]},
    present    <- fresh,
    candidates <- {n \in Nodes : checkIn[n] = "accepted"},
    entitled   <- assigned,
    acting     <- {n \in Nodes : role[n]}

\* The check-ins, role requests and events of the nodes implement the role of one
\* master: wanted only after a look that found no holder present, taken from all
\* others by who gets it, and exercised only by a node that got it since its start.
RoleIsImplemented == Role!Spec

SomeNodeUp == \E n \in registered : status[n] = "up"

\* If nodes keep running, the master of the database is in the end a running
\* node and stays it: a dead or deleted master is replaced, and requests of
\* several nodes do not take the role from each other forever.
MasterIsRunning == <>[]SomeNodeUp => <>[](\E n \in registered : master[n] /\ status[n] = "up")
=============================================================================
