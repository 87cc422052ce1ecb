-------------------------------- MODULE Hub ---------------------------------
(* The hub of websocket clients of one REI3 node                             *)
(* (handler/websocket/websocket.go, cluster.WebsocketClientEvents).          *)
(*                                                                           *)
(* One goroutine, the hub, adds and removes clients and passes events on.    *)
(* Each client has a reader and any number of goroutines that write to it,   *)
(* one at a time under its mutex write_mx; who finds a connection broken     *)
(* tells the hub through the unbuffered channel clientDel.  To remove a      *)
(* client the hub takes write_mx as well, and to tell of a new schema it     *)
(* takes read locks of the cache, one after another.  Who writes the cache   *)
(* is here only seen as a lock that is taken and given back; how it is, with *)
(* the slots of hubRequestLimit and the locks of requests, is SchemaReload.  *)
EXTENDS Naturals, Sequences, FiniteSets

CONSTANTS
    Clients,
    Admins,       \* clients whose login is an admin
    Fragile,      \* clients whose connection may break
    Blockable,    \* clients whose host may be blocked (bruteforce)
    Sources,      \* goroutines that send events
    Events,       \* source -> Seq of its events, [content, target]
    EventCap,     \* capacity of the channel cluster.WebsocketClientEvents
    Renewed,      \* locks of the cache that are taken for writing
    MaxRequests   \* bound: messages read from all clients

Contents == {"all", "schemaLoaded", "single", "kick", "kickNonAdmin"}

\* Schema_mx, preset_mx, caption_mx
CacheLocks == {"schema", "preset", "caption"}

ASSUME HubAssumption ==
    /\ Admins \subseteq Clients /\ Fragile \subseteq Clients /\ Blockable \subseteq Clients
    /\ Events \in [Sources -> Seq([content: Contents, target: SUBSET Clients])]
    /\ Renewed \subseteq CacheLocks
    /\ EventCap \in Nat \ {0} /\ MaxRequests \in Nat

VARIABLES
    clients,    \* hub.clients
    queue,      \* the channel WebsocketClientEvents: Seq of message ids
    sent,       \* source -> number of its events in the channel or out of it
    todo,       \* clients the hub has yet to look at for the current event
    current,    \* that event's id, of the last event if todo is empty
    reading,    \* locks of the cache the hub has yet to read under for that event
    closing,    \* the client whose write_mx the hub waits for, if any
    renewing,   \* locks of the cache that a writer has
    link,       \* client -> state of the connection
    reader,     \* client -> its reading goroutine
    ioFailure,  \* clients that failed to read or write
    requests,   \* number of messages read
    blocked,    \* client -> ids of requests that wait to send clientDel
    waiting,    \* client -> ids whose goroutine waits for write_mx
    writing,    \* client -> ids whose goroutine has write_mx, one at most
    failed,     \* of these: the write has failed, it waits to send clientDel
    owed, got   \* history, client -> events passed on to it, messages received

hub     == <<clients, todo, current, reading, closing>>
shared  == <<queue, sent, renewing>>
request == <<requests, blocked>>
writer  == <<waiting, writing, failed>>
vars    == <<hub, shared, link, reader, ioFailure, request, writer, owed, got>>

\* a message's id: what made it (a source or a client) and its number
EventIds   == UNION {{<<s, k>> : k \in DOMAIN Events[s]} : s \in Sources}
RequestIds == {<<c, k>> : c \in Clients, k \in 1 .. MaxRequests}
NoEvent    == <<>>
Event(id)  == Events[id[1]][id[2]]

With(f, c, id)    == [f EXCEPT ![c] = @ \cup {id}]
Without(f, c, id) == [f EXCEPT ![c] = @ \ {id}]

-----------------------------------------------------------------------------
(* Connections *)

\* Handler: the client is made and offered to the hub
Connect(c) ==
    /\ reader[c] = "none"
    /\ link' = [link EXCEPT ![c] = "open"]
    /\ reader' = [reader EXCEPT ![c] = "adding"]
    /\ UNCHANGED <<hub, shared, ioFailure, request, writer, owed, got>>

\* the network or the other side ends the connection
Break(c) ==
    /\ c \in Fragile
    /\ link[c] = "open"
    /\ link' = [link EXCEPT ![c] = "broken"]
    /\ UNCHANGED <<hub, shared, reader, ioFailure, request, writer, owed, got>>

\* a message is read, and handled in a goroutine that writes the response then;
\* how long it is handled makes no difference to one that waits for write_mx
ReadMessage(c) ==
    /\ reader[c] = "reading"
    /\ link[c] = "open"
    /\ requests < MaxRequests
    /\ requests' = requests + 1
    /\ waiting' = With(waiting, c, <<c, requests'>>)
    /\ UNCHANGED <<hub, shared, link, reader, ioFailure, blocked, writing, failed, owed, got>>

\* the same, if it is an authentication from a blocked host: the client is to be
\* removed first
ReadFromBlocked(c) ==
    /\ c \in Blockable
    /\ reader[c] = "reading"
    /\ link[c] = "open"
    /\ requests < MaxRequests
    /\ requests' = requests + 1
    /\ blocked' = With(blocked, c, <<c, requests'>>)
    /\ UNCHANGED <<hub, shared, link, reader, ioFailure, writer, owed, got>>

\* mutant: a reader that fails just ends
ReaderGone == "ended"

\* what a reader does when it fails: it waits to send clientDel
ReaderFailed == "reporting"

ReadFails(c) ==
    /\ reader[c] = "reading"
    /\ link[c] \in {"broken", "closed"}
    /\ ioFailure' = ioFailure \cup {c}
    /\ reader' = [reader EXCEPT ![c] = ReaderFailed]
    /\ UNCHANGED <<hub, shared, link, request, writer, owed, got>>

-----------------------------------------------------------------------------
(* Writing to a client *)

TakeLock(c, id) ==
    /\ id \in waiting[c]
    /\ writing[c] = {}
    /\ waiting' = Without(waiting, c, id)
    /\ writing' = With(writing, c, id)
    /\ UNCHANGED <<hub, shared, link, reader, ioFailure, request, failed, owed, got>>

\* the write succeeds: seen from here, also if the connection has just broken
Written(c, id) ==
    /\ id \in writing[c]
    /\ c \notin failed
    /\ link[c] # "closed"
    /\ writing' = Without(writing, c, id)
    /\ got' = IF link[c] = "open" THEN With(got, c, id) ELSE got
    /\ UNCHANGED <<hub, shared, link, reader, ioFailure, request, waiting, failed, owed>>

\* the write fails: write_mx is kept until the hub has taken the client
WriteFails(c, id) ==
    /\ id \in writing[c]
    /\ c \notin failed
    /\ link[c] # "open"
    /\ ioFailure' = ioFailure \cup {c}
    /\ failed' = failed \cup {c}
    /\ UNCHANGED <<hub, shared, link, reader, request, waiting, writing, owed, got>>

-----------------------------------------------------------------------------
(* Events *)

\* mutant: the channel has no limit
NoCap == TRUE

HasRoom == Len(queue) < EventCap

\* a source sends its events in order; it waits while the channel is full
Send(s) ==
    /\ sent[s] < Len(Events[s])
    /\ HasRoom
    /\ sent' = [sent EXCEPT ![s] = @ + 1]
    /\ queue' = Append(queue, <<s, sent'[s]>>)
    /\ UNCHANGED <<hub, renewing, link, reader, ioFailure, request, writer, owed, got>>

-----------------------------------------------------------------------------
(* The cache *)

RenewCache(l) ==
    /\ l \in Renewed \ renewing
    /\ renewing' = renewing \cup {l}
    /\ UNCHANGED <<hub, queue, sent, link, reader, ioFailure, request, writer, owed, got>>

CacheRenewed(l) ==
    /\ l \in renewing
    /\ renewing' = renewing \ {l}
    /\ UNCHANGED <<hub, queue, sent, link, reader, ioFailure, request, writer, owed, got>>

-----------------------------------------------------------------------------
(* The hub *)

\* it waits for a client to add, a client to remove, or an event
Selects == todo = {} /\ closing = {} /\ reading = <<>>

HubAdd(c) ==
    /\ Selects
    /\ reader[c] = "adding"
    /\ clients' = clients \cup {c}
    /\ reader' = [reader EXCEPT ![c] = "reading"]
    /\ UNCHANGED <<todo, current, reading, closing, shared, link, ioFailure, request, writer, owed, got>>

\* mutant: the lock is taken in any case
LocksAlways(c) == c \in clients

\* a close message is written, under write_mx, unless the client has failed
LocksToClose(c) == c \in clients /\ c \notin ioFailure

\* removeClient, up to the lock if it has to be taken
RemoveClient(c) ==
    IF LocksToClose(c)
    THEN /\ closing' = {c}
         /\ UNCHANGED <<clients, link>>
    ELSE /\ clients' = clients \ {c}
         /\ link' = IF c \in clients THEN [link EXCEPT ![c] = "closed"] ELSE link
         /\ UNCHANGED closing

\* removeClient, once the hub has got write_mx: lock, close message, unlock and
\* the rest are one step, as nobody can tell them apart
HubCloses(c) ==
    /\ c \in closing
    /\ writing[c] = {}
    /\ closing' = {}
    /\ clients' = clients \ {c}
    /\ link' = [link EXCEPT ![c] = "closed"]
    /\ UNCHANGED <<todo, current, reading, shared, reader, ioFailure, request, writer, owed, got>>

\* the hub takes a client from clientDel: its reader's
DelFromReader(c) ==
    /\ Selects
    /\ reader[c] = "reporting"
    /\ reader' = [reader EXCEPT ![c] = "ended"]
    /\ RemoveClient(c)
    /\ UNCHANGED <<todo, current, reading, shared, ioFailure, request, writer, owed, got>>

\* one from a writer, which gives back write_mx then
DelFromWriter(c) ==
    /\ Selects
    /\ c \in failed
    /\ failed' = failed \ {c}
    /\ writing' = [writing EXCEPT ![c] = {}]
    /\ RemoveClient(c)
    /\ UNCHANGED <<todo, current, reading, shared, reader, ioFailure, request, waiting, owed, got>>

\* one from a request of a blocked host, which writes an empty response then
DelFromRequest(c, id) ==
    /\ Selects
    /\ id \in blocked[c]
    /\ blocked' = Without(blocked, c, id)
    /\ waiting' = With(waiting, c, id)
    /\ RemoveClient(c)
    /\ UNCHANGED <<todo, current, reading, shared, reader, ioFailure, requests,
                   writing, failed, owed, got>>

\* what has to be read to tell of an event
Reads(id) == IF Event(id).content = "schemaLoaded" THEN <<"schema", "preset", "caption">> ELSE <<>>

\* the hub takes an event: the clients of its target that are there
HubEvent ==
    /\ Selects
    /\ queue # <<>>
    /\ queue' = Tail(queue)
    /\ current' = Head(queue)
    /\ reading' = Reads(current')
    /\ todo' = clients \cap Event(current').target
    /\ UNCHANGED <<clients, closing, sent, renewing, link, reader, ioFailure, request, writer, owed, got>>

\* RLock and RUnlock of the next lock of the cache
HubReads ==
    /\ reading # <<>>
    /\ Head(reading) \notin renewing
    /\ reading' = Tail(reading)
    /\ UNCHANGED <<clients, todo, current, closing, shared, link, reader, ioFailure, request,
                   writer, owed, got>>

Kicks(c, id) ==
    \/ Event(id).content = "kick"
    \/ Event(id).content = "kickNonAdmin" /\ c \notin Admins

HubKicks(c) ==
    /\ closing = {} /\ reading = <<>>
    /\ c \in todo
    /\ Kicks(c, current)
    /\ todo' = todo \ {c}
    /\ RemoveClient(c)
    /\ UNCHANGED <<current, reading, shared, reader, ioFailure, request, writer, owed, got>>

\* mutant: every message is for a single recipient
RestNever(c) == {}

\* whom the hub still looks at after it has passed the event on to a client
Rest(c) == IF Event(current).content = "single" THEN {} ELSE todo \ {c}

\* a goroutine is started that writes the message
HubTells(c) ==
    /\ closing = {} /\ reading = <<>>
    /\ c \in todo
    /\ ~Kicks(c, current)
    /\ todo' = Rest(c)
    /\ waiting' = With(waiting, c, current)
    /\ owed' = IF Event(current).content = "single" THEN With(owed, c, current)
               ELSE [d \in Clients |-> IF d \in todo /\ ~Kicks(d, current)
                                       THEN owed[d] \cup {current} ELSE owed[d]]
    /\ UNCHANGED <<clients, current, reading, closing, shared, link, reader, ioFailure, request,
                   writing, failed, got>>

-----------------------------------------------------------------------------
Init ==
    /\ clients = {} /\ todo = {} /\ current = NoEvent /\ reading = <<>> /\ closing = {}
    /\ queue = <<>> /\ sent = [s \in Sources |-> 0] /\ renewing = {}
    /\ link = [c \in Clients |-> "closed"] /\ reader = [c \in Clients |-> "none"]
    /\ ioFailure = {} /\ failed = {}
    /\ requests = 0
    /\ blocked = [c \in Clients |-> {}]
    /\ waiting = [c \in Clients |-> {}] /\ writing = [c \in Clients |-> {}]
    /\ owed = [c \in Clients |-> {}] /\ got = [c \in Clients |-> {}]

HubStep(c) ==
    \/ HubAdd(c) \/ HubCloses(c) \/ HubKicks(c) \/ HubTells(c)
    \/ DelFromReader(c) \/ DelFromWriter(c) \/ \E id \in blocked[c] : DelFromRequest(c, id)

Write(c, id) == Written(c, id) \/ WriteFails(c, id)

Next ==
    \/ HubEvent \/ HubReads
    \/ \E l \in Renewed : RenewCache(l) \/ CacheRenewed(l)
    \/ \E s \in Sources : Send(s)
    \/ \E c \in Clients :
        \/ Connect(c) \/ Break(c) \/ ReadMessage(c) \/ ReadFromBlocked(c) \/ ReadFails(c)
        \/ HubStep(c)
        \/ \E id \in waiting[c] : TakeLock(c, id)
        \/ \E id \in writing[c] : Write(c, id)

Spec == Init /\ [][Next]_vars

\* Every goroutine that can go on does: the select is random among what is
\* ready, and waiters for a mutex or a channel are served in their order.  Events
\* and messages need not come, and a source need not go on.  Who writes the cache
\* gives its lock back (SchemaReload says when not), and of an RWMutex who waits
\* to read is served before the next writer: hence SF.
Fairness ==
    /\ WF_vars(HubEvent) /\ SF_vars(HubReads)
    /\ \A l \in Renewed : WF_vars(CacheRenewed(l))
    /\ \A c \in Clients :
        /\ WF_vars(HubStep(c))
        /\ WF_vars(ReadFails(c))
        /\ WF_vars(\E id \in waiting[c] : TakeLock(c, id))
        /\ WF_vars(\E id \in writing[c] : Write(c, id))

FairSpec == Spec /\ Fairness

-----------------------------------------------------------------------------
(* Properties *)

\* Types: among them, that one client at a time is closed and written to, and that the
\* channel of events keeps its limit.
TypeOK ==
    /\ clients \subseteq Clients /\ todo \subseteq Clients
    /\ closing \subseteq clients /\ Cardinality(closing) <= 1
    /\ queue \in Seq(EventIds) /\ Len(queue) <= EventCap
    /\ sent \in [Sources -> Nat]
    /\ current \in EventIds \cup {NoEvent}
    /\ reading \in Seq(CacheLocks) /\ renewing \subseteq CacheLocks
    /\ link \in [Clients -> {"open", "broken", "closed"}]
    /\ reader \in [Clients -> {"none", "adding", "reading", "reporting", "ended"}]
    /\ ioFailure \subseteq Clients /\ failed \subseteq {c \in Clients : writing[c] # {}}
    /\ requests \in 0 .. MaxRequests
    /\ blocked \in [Clients -> SUBSET RequestIds]
    /\ waiting \in [Clients -> SUBSET (EventIds \cup RequestIds)]
    /\ \A c \in Clients : writing[c] \subseteq EventIds \cup RequestIds /\ Cardinality(writing[c]) <= 1
    /\ owed \in [Clients -> SUBSET EventIds] /\ got \in [Clients -> SUBSET (EventIds \cup RequestIds)]

\* The hub waits for the lock of a client whose holder waits for the hub: with that
\* the hub, and in time all that send it events, have stopped for good.
Stuck == closing \cap failed # {}

\* clients the hub removes though they have not failed: an event kicks them, or
\* their host is blocked
Removable == Blockable \cup {c \in Clients : \E id \in EventIds : c \in Event(id).target /\ Kicks(c, id)}

\* The hub gets stuck by nothing but a removal, by an event or of a blocked host, of
\* a client whose connection broke before the hub was told: a lost connection alone,
\* with whatever writes and requests under way, never does it.
HubStuckByRemovalOnly == \A c \in closing \cap failed : c \in Removable /\ link[c] = "broken"

\* A client whose connection is lost leaves the hub in the end, which also ends
\* its requests, whatever the hub, its writers and its requests are just at, unless
\* the hub gets stuck.
LostClientsLeave == \A c \in Fragile : link[c] = "broken" ~> c \notin clients \/ Stuck

\* Comment in hub.start: "disconnect and do not send message if kicked".  A client
\* the hub has begun to remove is disconnected in the end.
KickedClientsLeave == \A c \in Clients : c \in closing ~> c \notin clients

\* All events the hub has for a client that is connected arrive there in the end,
\* also if the cache is renewed meanwhile, unless the client is lost or removed, or
\* the hub gets stuck; no other client's slow or failing connection keeps them back.
EventsArrive == \A c \in Clients : owed[c] # {} ~> owed[c] \subseteq got[c] \/ link[c] # "open" \/ Stuck
=============================================================================
