----------------------------- MODULE Hub_proofs -----------------------------
(* The hub gets stuck by nothing but the removal of a client that was lost    *)
(* before the hub was told (module Hub), and the state keeps its types.      *)
EXTENDS Hub, FiniteSetTheorems, SequenceTheorems, TLAPS

-----------------------------------------------------------------------------
(* The invariant *)

Shape ==
    /\ clients \subseteq Clients /\ closing \subseteq clients
    /\ queue \in Seq(EventIds)
    /\ sent \in [Sources -> Nat]
    /\ requests \in Nat
    /\ link \in [Clients -> {"open", "broken", "closed"}]
    /\ reader \in [Clients -> {"none", "adding", "reading", "reporting", "ended"}]
    /\ blocked \in [Clients -> SUBSET RequestIds]
    /\ waiting \in [Clients -> SUBSET (EventIds \cup RequestIds)]
    /\ writing \in [Clients -> SUBSET (EventIds \cup RequestIds)]

\* who failed has said so before it waits for the hub
Said(c) == c \in failed \/ reader[c] = "reporting" => c \in ioFailure

\* before a client is offered to the hub nothing is done for it
Unknown(c) ==
    /\ reader[c] = "none" => blocked[c] = {} /\ waiting[c] = {} /\ writing[c] = {}
    /\ reader[c] \in {"none", "adding"} => c \notin clients /\ c \notin todo

\* the hub is at an event that is for the clients it has yet to look at
AtEvent(c) == c \in todo => current \in EventIds /\ c \in Event(current).target

\* who is in the hub, or about to be, has not been disconnected; a write fails
\* only on a connection that is lost
Linked(c) ==
    /\ c \in clients \/ reader[c] = "adding" => link[c] # "closed"
    /\ c \in failed => link[c] # "open" /\ writing[c] # {}

\* of a client that is not removed otherwise the hub takes no lock to remove it
NoLock(c) == c \notin Removable => blocked[c] = {} /\ c \notin closing

Good(c) == Said(c) /\ Unknown(c) /\ AtEvent(c) /\ Linked(c) /\ NoLock(c)

IInv == Shape /\ \A c \in Clients : Good(c)

-----------------------------------------------------------------------------
(* Steps *)

\* A client's set of messages keeps its type when it gets one more.
LEMMA WithType ==
    ASSUME NEW D, NEW S, NEW f \in [D -> SUBSET S], NEW c \in D, NEW id \in S
    PROVE  With(f, c, id) \in [D -> SUBSET S]
BY DEF With

\* The hub starts without clients.
LEMMA InitGood == Init => IInv
<1> SUFFICES ASSUME Init PROVE IInv
    OBVIOUS
<1>1. Shape
    BY EmptySeq DEF Init, Shape
<1>2. ASSUME NEW c \in Clients PROVE Good(c)
    BY <1>2 DEF Init, Good, Said, Unknown, AtEvent, Linked, NoLock
<1> QED BY <1>1, <1>2 DEF IInv

\* What the reader of a client, its writers and the network do.
LEMMA ClientStep ==
    ASSUME IInv, NEW c \in Clients,
           \/ Connect(c) \/ Break(c) \/ ReadMessage(c) \/ ReadFromBlocked(c) \/ ReadFails(c)
           \/ \E id \in waiting[c] : TakeLock(c, id)
           \/ \E id \in writing[c] : Write(c, id)
    PROVE  IInv'
<1> USE HubAssumption DEF IInv, hub, shared, request, writer
<1>1. CASE Connect(c)
  <2>1. Shape'
      BY <1>1 DEF Connect, Shape
  <2>2. ASSUME NEW d \in Clients PROVE Good(d)'
      BY <1>1, <2>2 DEF Connect, Shape, Good, Said, Unknown, AtEvent, Linked, NoLock
  <2> QED BY <2>1, <2>2
<1>2. CASE Break(c)
  <2>1. Shape'
      BY <1>2 DEF Break, Shape
  <2>2. ASSUME NEW d \in Clients PROVE Good(d)'
      BY <1>2, <2>2 DEF Break, Shape, Good, Said, Unknown, AtEvent, Linked, NoLock
  <2> QED BY <2>1, <2>2
<1>3. CASE ReadMessage(c)
  <2>1. Shape'
    <3>1. <<c, requests'>> \in RequestIds
        BY <1>3 DEF ReadMessage, Shape, RequestIds
    <3>2. waiting' \in [Clients -> SUBSET (EventIds \cup RequestIds)]
        BY <1>3, <3>1, WithType DEF ReadMessage, Shape
    <3>3. requests' \in Nat
        BY <1>3 DEF ReadMessage, Shape
    <3>4. UNCHANGED <<hub, queue, sent, link, reader, blocked, writing>>
        BY <1>3 DEF ReadMessage
    <3> QED BY <3>2, <3>3, <3>4 DEF Shape
  <2>2. ASSUME NEW d \in Clients PROVE Good(d)'
      BY <1>3, <2>2 DEF ReadMessage, Shape, With, Good, Said, Unknown, AtEvent, Linked, NoLock
  <2> QED BY <2>1, <2>2
<1>4. CASE ReadFromBlocked(c)
  <2>1. Shape'
    <3>1. <<c, requests'>> \in RequestIds
        BY <1>4 DEF ReadFromBlocked, Shape, RequestIds
    <3>2. blocked' \in [Clients -> SUBSET (RequestIds)]
        BY <1>4, <3>1, WithType DEF ReadFromBlocked, Shape
    <3>3. requests' \in Nat
        BY <1>4 DEF ReadFromBlocked, Shape
    <3>4. UNCHANGED <<hub, queue, sent, link, reader, waiting, writing>>
        BY <1>4 DEF ReadFromBlocked
    <3> QED BY <3>2, <3>3, <3>4 DEF Shape
  <2>2. ASSUME NEW d \in Clients PROVE Good(d)'
      BY <1>4, <2>2
         DEF ReadFromBlocked, Removable, Shape, With, Good, Said, Unknown, AtEvent, Linked, NoLock
  <2> QED BY <2>1, <2>2
<1>5. CASE ReadFails(c)
  <2>1. Shape'
      BY <1>5 DEF ReadFails, ReaderFailed, Shape
  <2>2. ASSUME NEW d \in Clients PROVE Good(d)'
      BY <1>5, <2>2 DEF ReadFails, ReaderFailed, Shape, Good, Said, Unknown, AtEvent, Linked, NoLock
  <2> QED BY <2>1, <2>2
<1>6. ASSUME NEW id \in waiting[c], TakeLock(c, id) PROVE IInv'
  <2>1. Shape'
      BY <1>6 DEF TakeLock, Shape, With, Without
  <2>2. ASSUME NEW d \in Clients PROVE Good(d)'
      BY <1>6, <2>2 DEF TakeLock, Shape, With, Without, Good, Said, Unknown, AtEvent, Linked, NoLock
  <2> QED BY <2>1, <2>2
<1>7. ASSUME NEW id \in writing[c], Written(c, id) PROVE IInv'
  <2>1. Shape'
      BY <1>7 DEF Written, Shape, Without
  <2>2. ASSUME NEW d \in Clients PROVE Good(d)'
      BY <1>7, <2>2 DEF Written, Shape, Without, Good, Said, Unknown, AtEvent, Linked, NoLock
  <2> QED BY <2>1, <2>2
<1>8. ASSUME NEW id \in writing[c], WriteFails(c, id) PROVE IInv'
  <2>1. Shape'
      BY <1>8 DEF WriteFails, Shape
  <2>2. ASSUME NEW d \in Clients PROVE Good(d)'
      BY <1>8, <2>2 DEF WriteFails, Shape, Good, Said, Unknown, AtEvent, Linked, NoLock
  <2> QED BY <2>1, <2>2
<1> QED BY <1>1, <1>2, <1>3, <1>4, <1>5, <1>6, <1>7, <1>8 DEF Write

\* removeClient of a client that has failed, or that may be removed otherwise
LEMMA RemoveGood ==
    ASSUME Shape, NEW c \in Clients, Good(c), RemoveClient(c), closing = {},
           c \notin Removable => c \in ioFailure
    PROVE  /\ closing' \subseteq clients'
           /\ link' \in [Clients -> {"open", "broken", "closed"}]
           /\ clients' \subseteq clients
           /\ \A d \in Clients \ {c} : link'[d] = link[d] /\ (d \in clients <=> d \in clients')
           /\ closing' = {c} \/ closing' = closing
           /\ c \notin Removable => c \notin closing'
           /\ c \in clients' \/ reader[c] = "adding" => link'[c] = link[c]
           /\ link'[c] \in {link[c], "closed"}
<1>1. CASE LocksToClose(c)
    BY <1>1 DEF RemoveClient, LocksToClose, Shape
<1>2. CASE ~LocksToClose(c)
    BY <1>2 DEF RemoveClient, Shape, Good, Unknown
<1> QED BY <1>1, <1>2

\* What the hub does with a client.
LEMMA HubKeepsGood ==
    ASSUME IInv, NEW c \in Clients, HubStep(c)
    PROVE  IInv'
<1> USE DEF IInv, hub, shared, request, writer
<1>1. CASE HubAdd(c)
  <2>1. Shape'
      BY <1>1 DEF HubAdd, Shape
  <2>2. ASSUME NEW d \in Clients PROVE Good(d)'
      BY <1>1, <2>2 DEF HubAdd, Selects, Shape, Good, Said, Unknown, AtEvent, Linked, NoLock
  <2> QED BY <2>1, <2>2
<1>2. CASE HubCloses(c)
  <2>1. Shape'
      BY <1>2 DEF HubCloses, Shape
  <2>2. ASSUME NEW d \in Clients PROVE Good(d)'
      BY <1>2, <2>2 DEF HubCloses, Shape, Good, Said, Unknown, AtEvent, Linked, NoLock
  <2> QED BY <2>1, <2>2
<1>3. CASE HubKicks(c)
  <2>1. c \in Removable
      BY <1>3 DEF HubKicks, Removable, Good, AtEvent
  <2>2. RemoveClient(c)
      BY <1>3 DEF HubKicks
  <2>3. Shape'
      BY <1>3, <2>1, <2>2, RemoveGood DEF HubKicks, Shape
  <2>4. ASSUME NEW d \in Clients PROVE Good(d)'
      BY <1>3, <2>1, <2>2, <2>4, RemoveGood
         DEF HubKicks, Good, Said, Unknown, AtEvent, Linked, NoLock
  <2> QED BY <2>3, <2>4
<1>4. CASE HubTells(c)
  <2>1. Shape'
    <3>1. current \in EventIds
        BY <1>4 DEF HubTells, Good, AtEvent
    <3> QED BY <1>4, <3>1 DEF HubTells, Shape, With
  <2>2. todo' \subseteq todo
      BY <1>4 DEF HubTells, Rest
  <2>3. ASSUME NEW d \in Clients PROVE Good(d)'
      BY <1>4, <2>2, <2>3 DEF HubTells, Shape, With, Good, Said, Unknown, AtEvent, Linked, NoLock
  <2> QED BY <2>1, <2>3
<1>5. CASE DelFromReader(c)
  <2>1. RemoveClient(c) /\ c \in ioFailure
      BY <1>5 DEF DelFromReader, Good, Said
  <2>2. Shape'
      BY <1>5, <2>1, RemoveGood DEF DelFromReader, Selects, Shape
  <2>3. ASSUME NEW d \in Clients PROVE Good(d)'
      BY <1>5, <2>1, <2>3, RemoveGood
         DEF DelFromReader, Selects, Shape, Good, Said, Unknown, AtEvent, Linked, NoLock
  <2> QED BY <2>2, <2>3
<1>6. CASE DelFromWriter(c)
  <2>1. RemoveClient(c) /\ c \in ioFailure
      BY <1>6 DEF DelFromWriter, Good, Said
  <2>2. Shape'
      BY <1>6, <2>1, RemoveGood DEF DelFromWriter, Selects, Shape
  <2>3. ASSUME NEW d \in Clients PROVE Good(d)'
      BY <1>6, <2>1, <2>3, RemoveGood
         DEF DelFromWriter, Selects, Shape, Good, Said, Unknown, AtEvent, Linked, NoLock
  <2> QED BY <2>2, <2>3
<1>7. ASSUME NEW id \in blocked[c], DelFromRequest(c, id) PROVE IInv'
  <2>1. RemoveClient(c) /\ c \in Removable
      BY <1>7 DEF DelFromRequest, Good, NoLock
  <2>2. Shape'
      BY <1>7, <2>1, RemoveGood DEF DelFromRequest, Selects, Shape, With, Without
  <2>3. ASSUME NEW d \in Clients PROVE Good(d)'
      BY <1>7, <2>1, <2>3, RemoveGood
         DEF DelFromRequest, Selects, Shape, With, Without, Good, Said, Unknown, AtEvent, Linked, NoLock
  <2> QED BY <2>2, <2>3
<1> QED BY <1>1, <1>2, <1>3, <1>4, <1>5, <1>6, <1>7 DEF HubStep

\* An event is sent, or the hub takes one: it is for the clients it looks at.  The
\* locks of the cache are none of the clients'.
LEMMA EventStep ==
    ASSUME IInv,
           \/ HubEvent \/ HubReads \/ \E s \in Sources : Send(s)
           \/ \E l \in Renewed : RenewCache(l) \/ CacheRenewed(l)
    PROVE  IInv'
<1> USE DEF IInv, hub, shared, request, writer
<1>1. CASE HubEvent
  <2>1. Head(queue) \in EventIds /\ Tail(queue) \in Seq(EventIds)
      BY <1>1, HeadTailProperties DEF HubEvent, Shape
  <2>2. Shape'
      BY <1>1, <2>1 DEF HubEvent, Shape
  <2>3. ASSUME NEW d \in Clients PROVE Good(d)'
      BY <1>1, <2>1, <2>3 DEF HubEvent, Good, Said, Unknown, AtEvent, Linked, NoLock
  <2> QED BY <2>2, <2>3
<1>2. ASSUME NEW s \in Sources, Send(s) PROVE IInv'
  <2>1. sent'[s] \in DOMAIN Events[s] /\ sent' \in [Sources -> Nat]
      BY <1>2, HubAssumption DEF Send, Shape
  <2>2. <<s, sent'[s]>> \in EventIds
      BY <2>1 DEF EventIds
  <2>3. queue' \in Seq(EventIds)
      BY <1>2, <2>2, AppendProperties DEF Send, Shape
  <2>4. Shape'
      BY <1>2, <2>1, <2>3 DEF Send, Shape
  <2>5. ASSUME NEW d \in Clients PROVE Good(d)'
      BY <1>2, <2>5 DEF Send, Good, Said, Unknown, AtEvent, Linked, NoLock
  <2> QED BY <2>4, <2>5
<1>3. ASSUME HubReads \/ \E l \in Renewed : RenewCache(l) \/ CacheRenewed(l) PROVE IInv'
  <2>1. UNCHANGED <<clients, todo, current, closing, queue, sent, link, reader, ioFailure,
                    request, writer>>
      BY <1>3 DEF HubReads, RenewCache, CacheRenewed
  <2> QED BY <2>1 DEF Shape, Good, Said, Unknown, AtEvent, Linked, NoLock
<1> QED BY <1>1, <1>2, <1>3

\* However many clients, events and sources there are, and whatever of them breaks,
\* is kicked or blocked: the hub waits for write_mx of a client whose writer waits
\* for the hub only if that client is one it removes otherwise, and its connection
\* was lost then.
THEOREM HubStuckOnlyByRemoval == Spec => []HubStuckByRemovalOnly
<1>1. Init => IInv
    BY InitGood
<1>2. IInv /\ [Next]_vars => IInv'
  <2> SUFFICES ASSUME IInv, [Next]_vars PROVE IInv'
      OBVIOUS
  <2>1. CASE HubEvent \/ HubReads \/ (\E s \in Sources : Send(s))
            \/ \E l \in Renewed : RenewCache(l) \/ CacheRenewed(l)
      BY <2>1, EventStep
  <2>2. ASSUME NEW c \in Clients, HubStep(c) PROVE IInv'
      BY <2>2, HubKeepsGood
  <2>3. ASSUME NEW c \in Clients,
               \/ Connect(c) \/ Break(c) \/ ReadMessage(c) \/ ReadFromBlocked(c) \/ ReadFails(c)
               \/ \E id \in waiting[c] : TakeLock(c, id)
               \/ \E id \in writing[c] : Write(c, id)
        PROVE IInv'
      BY <2>3, ClientStep
  <2>4. CASE UNCHANGED vars
      BY <2>4 DEF vars, hub, shared, request, writer, IInv, Shape, Good, Said, Unknown, AtEvent,
                  Linked, NoLock
  <2> QED BY <2>1, <2>2, <2>3, <2>4 DEF Next
<1>3. IInv => HubStuckByRemovalOnly
  <2> SUFFICES ASSUME IInv, NEW c \in closing \cap failed
               PROVE  c \in Removable /\ link[c] = "broken"
      BY DEF HubStuckByRemovalOnly
  <2>1. c \in clients /\ c \in Clients
      BY DEF IInv, Shape
  <2> QED BY <2>1 DEF IInv, Shape, Good, Linked, NoLock
<1> QED BY <1>1, <1>2, <1>3, PTL DEF Spec

-----------------------------------------------------------------------------
(* Types, whatever clients may break, are kicked or blocked *)

Ids == EventIds \cup RequestIds

HubTypes ==
    /\ clients \subseteq Clients /\ todo \subseteq Clients /\ closing \subseteq clients
    /\ closing = {} \/ \E c \in Clients : closing = {c}
    /\ current \in EventIds \cup {NoEvent} /\ (todo # {} => current \in EventIds)
    /\ reading \in Seq(CacheLocks)

ChannelTypes ==
    /\ queue \in Seq(EventIds) /\ Len(queue) <= EventCap
    /\ sent \in [Sources -> Nat]
    /\ renewing \subseteq CacheLocks

ClientTypes ==
    /\ link \in [Clients -> {"open", "broken", "closed"}]
    /\ reader \in [Clients -> {"none", "adding", "reading", "reporting", "ended"}]
    /\ ioFailure \subseteq Clients
    /\ requests \in 0 .. MaxRequests
    /\ blocked \in [Clients -> SUBSET RequestIds]

\* one goroutine at a time has the lock, also one whose write has failed
WriterTypes ==
    /\ waiting \in [Clients -> SUBSET Ids] /\ writing \in [Clients -> SUBSET Ids]
    /\ \A c \in Clients : writing[c] = {} \/ \E id \in Ids : writing[c] = {id}
    /\ failed \subseteq Clients /\ \A c \in failed : writing[c] # {}

HistoryTypes == owed \in [Clients -> SUBSET EventIds] /\ got \in [Clients -> SUBSET Ids]

Types == HubTypes /\ ChannelTypes /\ ClientTypes /\ WriterTypes /\ HistoryTypes

LEMMA TypesSame == Types /\ UNCHANGED vars => Types'
BY DEF Types, HubTypes, ChannelTypes, ClientTypes, WriterTypes, HistoryTypes, vars, hub, shared,
       request, writer

LEMMA RequestNumbered ==
    ASSUME Types, NEW c \in Clients, requests < MaxRequests, requests' = requests + 1
    PROVE  <<c, requests'>> \in RequestIds /\ requests' \in 0 .. MaxRequests
<1>1. requests' \in 1 .. MaxRequests /\ requests' \in 0 .. MaxRequests
    BY HubAssumption DEF Types, ClientTypes
<1> QED BY <1>1 DEF RequestIds

\* What the connection of a client, its reader and its writers do.
LEMMA TypesClient ==
    ASSUME Types, NEW c \in Clients,
           \/ Connect(c) \/ Break(c) \/ ReadMessage(c) \/ ReadFromBlocked(c) \/ ReadFails(c)
           \/ \E id \in waiting[c] : TakeLock(c, id)
           \/ \E id \in writing[c] : Write(c, id)
    PROVE  Types'
<1> USE DEF hub, shared, request, writer
<1>1. CASE Connect(c) \/ Break(c) \/ ReadFails(c)
  <2>1. UNCHANGED <<hub, shared, request, writer, owed, got>>
      BY <1>1 DEF Connect, Break, ReadFails
  <2>2. ClientTypes'
      BY <1>1 DEF Connect, Break, ReadFails, ReaderFailed, Types, ClientTypes
  <2> QED BY <2>1, <2>2 DEF Types, HubTypes, ChannelTypes, WriterTypes, HistoryTypes
<1>2. CASE ReadMessage(c)
  <2>1. /\ <<c, requests'>> \in RequestIds /\ requests' \in 0 .. MaxRequests
        /\ waiting' = With(waiting, c, <<c, requests'>>)
        /\ UNCHANGED <<hub, shared, link, reader, ioFailure, blocked, writing, failed, owed, got>>
      BY <1>2, RequestNumbered DEF ReadMessage
  <2>2. waiting' \in [Clients -> SUBSET Ids]
      BY <2>1, WithType DEF Types, WriterTypes, Ids
  <2> QED BY <2>1, <2>2 DEF Types, HubTypes, ChannelTypes, ClientTypes, WriterTypes, HistoryTypes
<1>3. CASE ReadFromBlocked(c)
  <2>1. /\ <<c, requests'>> \in RequestIds /\ requests' \in 0 .. MaxRequests
        /\ blocked' = With(blocked, c, <<c, requests'>>)
        /\ UNCHANGED <<hub, shared, link, reader, ioFailure, writer, owed, got>>
      BY <1>3, RequestNumbered DEF ReadFromBlocked
  <2>2. blocked' \in [Clients -> SUBSET RequestIds]
      BY <2>1, WithType DEF Types, ClientTypes
  <2> QED BY <2>1, <2>2 DEF Types, HubTypes, ChannelTypes, ClientTypes, WriterTypes, HistoryTypes
<1>4. ASSUME NEW id \in waiting[c], TakeLock(c, id) PROVE Types'
  <2>1. /\ writing[c] = {} /\ id \in Ids
        /\ waiting' = [waiting EXCEPT ![c] = @ \ {id}] /\ writing' = [writing EXCEPT ![c] = @ \cup {id}]
        /\ UNCHANGED <<hub, shared, link, reader, ioFailure, request, failed, owed, got>>
      BY <1>4 DEF TakeLock, With, Without, Types, WriterTypes
  <2>2. waiting' \in [Clients -> SUBSET Ids] /\ writing' \in [Clients -> SUBSET Ids]
      BY <2>1 DEF Types, WriterTypes
  <2>3. writing'[c] = {id} /\ \A d \in Clients \ {c} : writing'[d] = writing[d]
      BY <2>1 DEF Types, WriterTypes
  <2>4. WriterTypes'
      BY <2>1, <2>2, <2>3 DEF Types, WriterTypes
  <2> QED BY <2>1, <2>4 DEF Types, HubTypes, ChannelTypes, ClientTypes, HistoryTypes
<1>5. ASSUME NEW id \in writing[c], Written(c, id) PROVE Types'
  <2>1. /\ c \notin failed /\ writing' = [writing EXCEPT ![c] = @ \ {id}]
        /\ got' = IF link[c] = "open" THEN [got EXCEPT ![c] = @ \cup {id}] ELSE got
        /\ UNCHANGED <<hub, shared, link, reader, ioFailure, request, waiting, failed, owed>>
      BY <1>5 DEF Written, With, Without
  <2>2. id \in Ids /\ writing' \in [Clients -> SUBSET Ids] /\ got' \in [Clients -> SUBSET Ids]
      BY <1>5, <2>1 DEF Types, WriterTypes, HistoryTypes
  <2>3. writing'[c] = {} /\ \A d \in Clients \ {c} : writing'[d] = writing[d]
      BY <1>5, <2>1 DEF Types, WriterTypes
  <2>4. WriterTypes'
      BY <2>1, <2>2, <2>3 DEF Types, WriterTypes
  <2> QED BY <2>1, <2>2, <2>4 DEF Types, HubTypes, ChannelTypes, ClientTypes, HistoryTypes
<1>6. ASSUME NEW id \in writing[c], WriteFails(c, id) PROVE Types'
  <2>1. /\ ioFailure' = ioFailure \cup {c} /\ failed' = failed \cup {c} /\ writing[c] # {}
        /\ UNCHANGED <<hub, shared, link, reader, request, waiting, writing, owed, got>>
      BY <1>6 DEF WriteFails
  <2> QED BY <2>1 DEF Types, HubTypes, ChannelTypes, ClientTypes, WriterTypes, HistoryTypes
<1> QED BY <1>1, <1>2, <1>3, <1>4, <1>5, <1>6 DEF Write

LEMMA TypesRemove ==
    ASSUME Types, NEW c \in Clients, RemoveClient(c), closing = {}
    PROVE  /\ clients' \subseteq clients /\ closing' \subseteq clients'
           /\ closing' = {} \/ closing' = {c}
           /\ link' \in [Clients -> {"open", "broken", "closed"}]
<1>1. CASE LocksToClose(c)
    BY <1>1 DEF RemoveClient, LocksToClose, Types, ClientTypes
<1>2. CASE ~LocksToClose(c)
    BY <1>2 DEF RemoveClient, Types, ClientTypes
<1> QED BY <1>1, <1>2

\* What the hub does with a client.
LEMMA TypesHub ==
    ASSUME Types, NEW c \in Clients, HubStep(c) PROVE Types'
<1> USE DEF hub, shared, request, writer
<1>1. CASE HubAdd(c) \/ HubCloses(c)
  <2>1. /\ closing' = {} /\ clients' \subseteq Clients
        /\ UNCHANGED <<todo, current, reading, shared, ioFailure, request, writer, owed, got>>
      BY <1>1 DEF HubAdd, HubCloses, Selects, Types, HubTypes
  <2>2. ClientTypes'
      BY <1>1 DEF HubAdd, HubCloses, Types, ClientTypes
  <2> QED BY <2>1, <2>2 DEF Types, HubTypes, ChannelTypes, WriterTypes, HistoryTypes
<1>2. CASE HubKicks(c)
  <2>1. /\ closing = {} /\ RemoveClient(c) /\ todo' = todo \ {c}
        /\ UNCHANGED <<current, reading, shared, reader, ioFailure, request, writer, owed, got>>
      BY <1>2 DEF HubKicks
  <2>2. HubTypes' /\ ClientTypes'
      BY <2>1, TypesRemove DEF Types, HubTypes, ClientTypes
  <2> QED BY <2>1, <2>2 DEF Types, ChannelTypes, WriterTypes, HistoryTypes
<1>3. CASE HubTells(c)
  <2>1. /\ todo' \subseteq todo /\ current \in EventIds
        /\ waiting' = With(waiting, c, current)
        /\ UNCHANGED <<clients, current, reading, closing, shared, link, reader, ioFailure, request,
                       writing, failed, got>>
      BY <1>3 DEF HubTells, Rest, Types, HubTypes
  <2>2. owed' \in [Clients -> SUBSET EventIds]
      BY <1>3, <2>1 DEF HubTells, With, Types, HistoryTypes
  <2>3. waiting' \in [Clients -> SUBSET Ids]
      BY <2>1, WithType DEF Types, WriterTypes, Ids
  <2> QED BY <2>1, <2>2, <2>3 DEF Types, HubTypes, ChannelTypes, ClientTypes, WriterTypes, HistoryTypes
<1>4. CASE DelFromReader(c)
  <2>1. /\ todo = {} /\ closing = {} /\ RemoveClient(c) /\ reader' = [reader EXCEPT ![c] = "ended"]
        /\ UNCHANGED <<todo, current, reading, shared, ioFailure, request, writer, owed, got>>
      BY <1>4 DEF DelFromReader, Selects
  <2>2. HubTypes' /\ ClientTypes'
      BY <2>1, TypesRemove DEF Types, HubTypes, ClientTypes
  <2> QED BY <2>1, <2>2 DEF Types, ChannelTypes, WriterTypes, HistoryTypes
<1>5. CASE DelFromWriter(c)
  <2>1. /\ todo = {} /\ closing = {} /\ RemoveClient(c)
        /\ failed' = failed \ {c} /\ writing' = [writing EXCEPT ![c] = {}]
        /\ UNCHANGED <<todo, current, reading, shared, reader, ioFailure, request, waiting, owed, got>>
      BY <1>5 DEF DelFromWriter, Selects
  <2>2. HubTypes' /\ ClientTypes'
      BY <2>1, TypesRemove DEF Types, HubTypes, ClientTypes
  <2>3. WriterTypes'
      BY <2>1 DEF Types, WriterTypes
  <2> QED BY <2>1, <2>2, <2>3 DEF Types, ChannelTypes, HistoryTypes
<1>6. ASSUME NEW id \in blocked[c], DelFromRequest(c, id) PROVE Types'
  <2>1. /\ todo = {} /\ closing = {} /\ RemoveClient(c)
        /\ blocked' = Without(blocked, c, id) /\ waiting' = With(waiting, c, id)
        /\ UNCHANGED <<todo, current, reading, shared, reader, ioFailure, requests,
                       writing, failed, owed, got>>
      BY <1>6 DEF DelFromRequest, Selects
  <2>2. id \in Ids /\ blocked' \in [Clients -> SUBSET RequestIds]
      BY <1>6, <2>1 DEF Without, Types, ClientTypes, Ids
  <2>3. HubTypes' /\ ClientTypes'
      BY <2>1, <2>2, TypesRemove DEF Types, HubTypes, ClientTypes
  <2>4. waiting' \in [Clients -> SUBSET Ids]
      BY <2>1, <2>2, WithType DEF Types, WriterTypes
  <2> QED BY <2>1, <2>3, <2>4 DEF Types, ChannelTypes, WriterTypes, HistoryTypes
<1> QED BY <1>1, <1>2, <1>3, <1>4, <1>5, <1>6 DEF HubStep

LEMMA TypesEvent ==
    ASSUME Types,
           \/ HubEvent \/ HubReads \/ \E s \in Sources : Send(s)
           \/ \E l \in Renewed : RenewCache(l) \/ CacheRenewed(l)
    PROVE  Types'
<1> USE DEF hub, shared, request, writer
<1>1. CASE HubEvent
  <2>1. /\ queue # <<>> /\ queue' = Tail(queue) /\ current' = Head(queue)
        /\ todo' \subseteq clients
        /\ UNCHANGED <<clients, closing, sent, renewing, link, reader, ioFailure, request, writer, owed, got>>
      BY <1>1 DEF HubEvent
  <2>2. /\ Head(queue) \in EventIds /\ Tail(queue) \in Seq(EventIds)
        /\ Len(Tail(queue)) <= EventCap
      BY <2>1, HeadTailProperties, LenProperties, HubAssumption DEF Types, ChannelTypes
  <2>3. reading' \in Seq(CacheLocks)
    <3>1. reading' = Reads(current')
        BY <1>1 DEF HubEvent
    <3>2. /\ <<"schema", "preset", "caption">> \in Seq({"schema", "preset", "caption"})
          /\ <<>> \in Seq({"schema", "preset", "caption"})
        OBVIOUS
    <3> QED BY <3>1, <3>2 DEF Reads, CacheLocks
  <2> QED BY <2>1, <2>2, <2>3
      DEF Types, HubTypes, ChannelTypes, ClientTypes, WriterTypes, HistoryTypes
<1>2. ASSUME NEW s \in Sources, Send(s) PROVE Types'
  <2>1. sent'[s] \in DOMAIN Events[s] /\ sent' \in [Sources -> Nat]
      BY <1>2, HubAssumption DEF Send, Types, ChannelTypes
  <2>2. <<s, sent'[s]>> \in EventIds
      BY <2>1 DEF EventIds
  <2>3. queue' \in Seq(EventIds) /\ Len(queue') = Len(queue) + 1 /\ Len(queue) \in Nat
      BY <1>2, <2>2, AppendProperties, LenProperties DEF Send, Types, ChannelTypes
  <2>4. Len(queue') <= EventCap
      BY <1>2, <2>3, HubAssumption DEF Send, HasRoom
  <2>5. UNCHANGED <<hub, renewing, link, reader, ioFailure, request, writer, owed, got>>
      BY <1>2 DEF Send
  <2> QED BY <2>1, <2>3, <2>4, <2>5
      DEF Types, HubTypes, ChannelTypes, ClientTypes, WriterTypes, HistoryTypes
<1>3. CASE HubReads
  <2>1. /\ reading # <<>> /\ reading' = Tail(reading)
        /\ UNCHANGED <<clients, todo, current, closing, shared, link, reader, ioFailure, request,
                       writer, owed, got>>
      BY <1>3 DEF HubReads
  <2>2. reading' \in Seq(CacheLocks)
      BY <2>1, HeadTailProperties DEF Types, HubTypes
  <2> QED BY <2>1, <2>2 DEF Types, HubTypes, ChannelTypes, ClientTypes, WriterTypes, HistoryTypes
<1>4. ASSUME NEW l \in Renewed, RenewCache(l) \/ CacheRenewed(l) PROVE Types'
  <2>1. /\ renewing' \subseteq renewing \cup Renewed
        /\ UNCHANGED <<hub, queue, sent, link, reader, ioFailure, request, writer, owed, got>>
      BY <1>4 DEF RenewCache, CacheRenewed
  <2> QED BY <2>1, HubAssumption
      DEF Types, HubTypes, ChannelTypes, ClientTypes, WriterTypes, HistoryTypes
<1> QED BY <1>1, <1>2, <1>3, <1>4

\* The type invariant, among it that the hub closes one client at a time, that one
\* goroutine at a time has write_mx and that who failed still has it, for every
\* set of clients, events and sources, clients that get the hub stuck included.
THEOREM TypeCorrect == Spec => []TypeOK
<1>1. Init => Types
  <2> SUFFICES ASSUME Init PROVE Types
      OBVIOUS
  <2>1. queue \in Seq(EventIds) /\ Len(queue) = 0 /\ reading \in Seq(CacheLocks)
      BY EmptySeq DEF Init
  <2>2. EventCap \in Nat /\ MaxRequests \in Nat
      BY HubAssumption
  <2> QED BY <2>1, <2>2
      DEF Init, Types, HubTypes, ChannelTypes, ClientTypes, WriterTypes, HistoryTypes
<1>2. Types /\ [Next]_vars => Types'
    BY TypesClient, TypesHub, TypesEvent, TypesSame DEF Next
<1>3. Types => TypeOK
  <2> SUFFICES ASSUME Types PROVE TypeOK
      OBVIOUS
  <2>1. Cardinality(closing) <= 1
    <3>1. closing = {} \/ \E c \in Clients : closing = {c}
        BY DEF Types, HubTypes
    <3> QED BY <3>1, FS_EmptySet, FS_Singleton
  <2>2. \A c \in Clients : Cardinality(writing[c]) <= 1
      BY FS_EmptySet, FS_Singleton DEF Types, WriterTypes
  <2>3. \A c \in Clients : writing[c] \subseteq EventIds \cup RequestIds
      BY DEF Types, WriterTypes, Ids
  <2>4. waiting \in [Clients -> SUBSET (EventIds \cup RequestIds)]
        /\ got \in [Clients -> SUBSET (EventIds \cup RequestIds)]
      BY DEF Types, WriterTypes, HistoryTypes, Ids
  <2> QED BY <2>1, <2>2, <2>3, <2>4
      DEF Types, HubTypes, ChannelTypes, ClientTypes, WriterTypes, HistoryTypes, TypeOK
<1> QED BY <1>1, <1>2, <1>3, PTL DEF Spec
=============================================================================
