---------------------------- MODULE SchemaReload ----------------------------
(* The schema cache of a node while it is reloaded: goroutines ("tasks")     *)
(* that serve requests compete for the lock cache.Schema_mx, the connections *)
(* of the database pool, the ten slots of hubRequestLimit and two more locks *)
(* What a handler does with these is its program, a sequence of steps; each  *)
(* step is an action.  A query outside of a transaction is one step that     *)
(* needs a free connection; queries of a transaction use its own connection  *)
(* and are left out.  Schemas and what is built from them are versions.      *)
EXTENDS Naturals, Sequences, FiniteSets

CONSTANTS
    Tasks,          \* goroutines
    Programs,       \* what they may run
    PoolSize,       \* connections of the pool (default of pgx: max(4, CPUs))
    RequestLimit,   \* slots of hubRequestLimit (10)
    MaxRuns,        \* bound: programs run by all tasks
    MaxFailures,    \* bound: failed, aborted or timed out database calls
    None

Ops == {"slot", "unslot", "begin", "config", "end", "save", "saveElsewhere",
        "rlock", "runlock", "lock", "drain", "unlock", "read", "store", "json",
        "query", "metaQuery", "presetLock", "presetUnlock", "preset",
        "icsLock", "icsGet", "icsReset", "icsUnlock",
        "grant", "disable", "access", "renew", "roles", "build", "put"}

ASSUME SchemaReloadAssumption ==
    /\ Programs \subseteq Seq(Ops)
    /\ PoolSize \in Nat /\ RequestLimit \in Nat \ {0} /\ MaxRuns \in Nat /\ MaxFailures \in Nat
    /\ None \notin Tasks

VARIABLES
    todo,       \* task -> steps it has yet to do, <<>> if it is idle
    slots,      \* tasks that hold a slot of hubRequestLimit
    free,       \* free connections of the pool
    conns,      \* task -> connections its open transactions have
    \* cache.Schema_mx (sync.RWMutex)
    readers,    \* task -> read locks it holds
    writer,     \* task that holds the lock or is next to, or None
    waiting,    \* tasks that wait for a read lock
    left,       \* history: a goroutine ended without giving the lock back
    preset,     \* task that holds cache.preset_mx for writing, or None
    ics,        \* task that holds cache.ics_mx, or None
    \* versions
    db,         \* schema in the database
    dropped,    \* those that deleted an entity
    seen,       \* task -> version it has read, 0 if none
    cached,     \* ModuleIdMap, and what the other maps have of the entities there are
    relics,     \* deletions whose entity is in RelationIdMap, AttributeIdMap,
                \* RoleIdMap ... still, although the reload came after them
    json,       \* moduleIdMapJson
    icsField,   \* a calendar field in fieldIdMapIcs, 0 if it is not there
    access,     \* access of a login as built from the schema, 0 if not cached
    roles,      \* the login's roles in the database
    enabled,    \* the login is active
    seenRoles,  \* task -> those it has read, 0 if none
    granted,    \* the roles that its access is of
    crossed,    \* history: loads of its access overlapped, or a renewal found
                \* nothing in the cache while there was a load
    runs, failures

pool     == <<free, conns>>
locks    == <<readers, writer, waiting, left>>
mutexes  == <<preset, ics>>
stored   == <<db, dropped>>
maps     == <<cached, relics>>
schema   == <<stored, seen, maps, json, icsField>>
login    == <<roles, enabled, seenRoles, granted, crossed>>
versions == <<schema, access, login>>
vars     == <<todo, slots, pool, locks, mutexes, versions, runs, failures>>

-----------------------------------------------------------------------------
(* Programs *)

\* GetAccessById and RenewAccessById expand to this if they have to load
LoadAccess == <<"roles", "rlock", "build", "put", "runlock">>

\* ExecTransaction of a websocket request
Request(p) == <<"slot", "begin", "config">> \o p \o <<"end", "unslot">>

GetAccess == <<"access">>                                     \* lookup "access"
GetData   == <<"rlock", "access", "runlock">>                 \* Get_tx
SetData   == <<"rlock", "access", "preset", "runlock">>       \* Set_tx

\* renewIcsFields and renewPresetRecordIds
RenewCaches == <<"icsLock", "icsReset", "icsUnlock", "presetLock", "query", "presetUnlock">>

\* mutant: the new schema is read before the lock is taken
UpdateReadsEarly(meta) ==
    <<"read", "lock", "drain", "store", "unlock">> \o RenewCaches
    \o <<"lock", "drain", "json", "unlock", "query", "lock", "drain">>
    \o meta \o <<"unlock", "renew">>

\* mutant: the JSON copies are made before the schema is updated
UpdateCopiesEarly(meta) ==
    <<"lock", "drain", "json", "unlock",
      "lock", "drain", "read", "store", "unlock">> \o RenewCaches \o <<"query", "lock", "drain">>
    \o meta \o <<"unlock", "renew">>

\* mutant: the access is renewed before the lock is given back
UpdateRenewsLocked(meta) ==
    <<"lock", "drain", "read", "store", "renew", "unlock">> \o RenewCaches
    \o <<"lock", "drain", "json", "unlock", "query", "lock", "drain">>
    \o meta \o <<"unlock">>

\* UpdateSchema for one module, then RenewAccessAll; meta is the query for a
\* module that is not in moduleIdMapMeta yet
UpdateSchema(meta) ==
    <<"lock", "drain", "read", "store", "unlock">> \o RenewCaches
    \o <<"lock", "drain", "json", "unlock", "query", "lock", "drain">>
    \o meta \o <<"unlock", "renew">>

\* a builder saves a module and reloads it; events go to the other nodes
Save(meta) ==
    <<"slot", "begin", "config", "save", "unslot">>
    \o Request(<<"query">> \o UpdateSchema(meta))

\* event "schemaChanged" of another node
SchemaChangedElsewhere == <<"saveElsewhere">> \o UpdateSchema(<<>>)

\* mutant: the access is renewed before the roles are committed
RenewsEarly == <<"begin", "query", "renew", "grant">>

\* importLogin of LDAP, within the request of an admin: the login's roles change, then
\* its access is renewed
ImportLogin == <<"begin", "grant", "query", "renew">>

\* ... or, if the directory has it inactive, its sessions are kicked and that is all
ImportInactive == <<"begin", "disable", "query">>

\* DelLogsBackground, and the scheduler's load: queries under the read lock
Background == <<"rlock", "query", "runlock">>

\* Set_tx gets the old values of a record of a relation with logging
SetLoggedData == <<"rlock", "access", "preset">> \o GetData \o <<"runlock">>

\* handlers that keep the read lock for the transaction that gets their data: the API ...
Api == <<"rlock", "access", "query", "begin">> \o GetData \o <<"end", "runlock">>

\* ... and the calendar, which gets its field with GetCalendarField
IcsDownload == <<"rlock", "query", "icsLock", "icsGet", "icsUnlock", "begin">>
               \o GetData \o <<"end", "query", "runlock">>

-----------------------------------------------------------------------------
(* Steps *)

At(t, ops) == todo[t] # <<>> /\ Head(todo[t]) \in ops
Advance(t) == todo' = [todo EXCEPT ![t] = Tail(@)]

Run(t) ==
    /\ todo[t] = <<>>
    /\ runs < MaxRuns
    /\ runs' = runs + 1
    /\ \E p \in Programs : todo' = [todo EXCEPT ![t] = p]
    /\ UNCHANGED <<slots, pool, locks, mutexes, versions, failures>>

\* mutant: the number of concurrent requests is not limited
NoLimit == TRUE

SlotFree == Cardinality(slots) < RequestLimit

\* hubRequestLimit
TakeSlot(t) ==
    /\ At(t, {"slot"})
    /\ SlotFree
    /\ slots' = slots \cup {t}
    /\ Advance(t)
    /\ UNCHANGED <<pool, locks, mutexes, versions, runs, failures>>

FreeSlot(t) ==
    /\ At(t, {"unslot"})
    /\ slots' = slots \ {t}
    /\ Advance(t)
    /\ UNCHANGED <<pool, locks, mutexes, versions, runs, failures>>

Begin(t) ==
    /\ At(t, {"begin"})
    /\ free > 0
    /\ free' = free - 1
    /\ conns' = [conns EXCEPT ![t] = @ + 1]
    /\ Advance(t)
    /\ UNCHANGED <<slots, locks, mutexes, versions, runs, failures>>

SetConfig(t) ==
    /\ At(t, {"config"})
    /\ Advance(t)
    /\ UNCHANGED <<slots, pool, locks, mutexes, versions, runs, failures>>

\* a new schema; it may have deleted an entity
NewSchema ==
    /\ db' = db + 1
    /\ \E gone \in {{}, {db + 1}} : dropped' = dropped \cup gone

\* commit; with "save" of a new schema, with "grant" and "disable" of other roles
EndTransaction(t) ==
    /\ At(t, {"end", "save", "grant", "disable"})
    /\ free' = free + 1
    /\ conns' = [conns EXCEPT ![t] = @ - 1]
    /\ IF At(t, {"save"}) THEN NewSchema ELSE UNCHANGED stored
    /\ roles' = IF At(t, {"grant", "disable"}) THEN roles + 1 ELSE roles
    /\ enabled' = (At(t, {"grant"}) \/ (enabled /\ ~ At(t, {"disable"})))
    /\ Advance(t)
    /\ UNCHANGED <<slots, locks, mutexes, seen, maps, json, icsField, access,
                   seenRoles, granted, crossed, runs, failures>>

SaveElsewhere(t) ==
    /\ At(t, {"saveElsewhere"})
    /\ NewSchema
    /\ Advance(t)
    /\ UNCHANGED <<slots, pool, locks, mutexes, seen, maps, json, icsField, access, login,
                   runs, failures>>

\* RLock: a read lock is to be had unless a writer has the lock or waits for it
RLock(t) ==
    /\ At(t, {"rlock"})
    /\ IF writer = None
       THEN /\ readers' = [readers EXCEPT ![t] = @ + 1]
            /\ Advance(t)
            /\ UNCHANGED waiting
       ELSE /\ t \notin waiting
            /\ waiting' = waiting \cup {t}
            /\ UNCHANGED <<readers, todo>>
    /\ UNCHANGED <<slots, pool, writer, left, mutexes, versions, runs, failures>>

RUnlock(t) ==
    /\ At(t, {"runlock"})
    /\ readers' = [readers EXCEPT ![t] = @ - 1]
    /\ Advance(t)
    /\ UNCHANGED <<slots, pool, writer, waiting, left, mutexes, versions, runs, failures>>

\* Lock: first no other writer, from now on no new reader
Lock(t) ==
    /\ At(t, {"lock"})
    /\ writer = None
    /\ writer' = t
    /\ Advance(t)
    /\ UNCHANGED <<slots, pool, readers, waiting, left, mutexes, versions, runs, failures>>

\* then the readers of before have to leave
Drain(t) ==
    /\ At(t, {"drain"})
    /\ \A u \in Tasks : readers[u] = 0
    /\ Advance(t)
    /\ UNCHANGED <<slots, pool, locks, mutexes, versions, runs, failures>>

\* the readers that wait go first
GiveBackLock ==
    /\ writer' = None
    /\ readers' = [u \in Tasks |-> IF u \in waiting THEN readers[u] + 1 ELSE readers[u]]
    /\ waiting' = {}

Unlock(t) ==
    /\ At(t, {"unlock"})
    /\ GiveBackLock
    /\ todo' = [u \in Tasks |-> IF u \in waiting \cup {t} THEN Tail(todo[u]) ELSE todo[u]]
    /\ UNCHANGED <<slots, pool, left, mutexes, versions, runs, failures>>

Query(t) ==
    /\ At(t, {"query", "metaQuery"})
    /\ free > 0
    /\ Advance(t)
    /\ UNCHANGED <<slots, pool, locks, mutexes, versions, runs, failures>>

\* updateSchemaCache reads the module ...
ReadSchema(t) ==
    /\ At(t, {"read"})
    /\ free > 0
    /\ seen' = [seen EXCEPT ![t] = db]
    /\ Advance(t)
    /\ UNCHANGED <<slots, pool, locks, mutexes, stored, maps, json, icsField, access, login,
                   runs, failures>>

\* ... and adds what it read to the maps, or overwrites it; it deletes nothing
StoreSchema(t) ==
    /\ At(t, {"store"})
    /\ cached' = seen[t]
    /\ relics' = relics \cup {v \in dropped : v <= seen[t]}
    /\ seen' = [seen EXCEPT ![t] = 0]
    /\ Advance(t)
    /\ UNCHANGED <<slots, pool, locks, mutexes, stored, json, icsField, access, login,
                   runs, failures>>

CopyJson(t) ==
    /\ At(t, {"json"})
    /\ json' = cached
    /\ Advance(t)
    /\ UNCHANGED <<slots, pool, locks, mutexes, stored, seen, maps, icsField, access, login,
                   runs, failures>>

\* ics_mx
LockIcs(t) ==
    /\ At(t, {"icsLock"})
    /\ ics = None
    /\ ics' = t
    /\ Advance(t)
    /\ UNCHANGED <<slots, pool, locks, preset, versions, runs, failures>>

UnlockIcs(t) ==
    /\ At(t, {"icsUnlock"})
    /\ ics' = None
    /\ Advance(t)
    /\ UNCHANGED <<slots, pool, locks, preset, versions, runs, failures>>

\* GetCalendarField queries the field if the map does not have it
GetIcs(t) ==
    /\ At(t, {"icsGet"})
    /\ icsField # 0 \/ free > 0
    /\ icsField' = IF icsField = 0 THEN db ELSE icsField
    /\ Advance(t)
    /\ UNCHANGED <<slots, pool, locks, mutexes, stored, seen, maps, json, access, login,
                   runs, failures>>

ResetIcs(t) ==
    /\ At(t, {"icsReset"})
    /\ icsField' = 0
    /\ Advance(t)
    /\ UNCHANGED <<slots, pool, locks, mutexes, stored, seen, maps, json, access, login,
                   runs, failures>>

\* preset_mx
LockPresets(t) ==
    /\ At(t, {"presetLock"})
    /\ preset = None
    /\ preset' = t
    /\ Advance(t)
    /\ UNCHANGED <<slots, pool, locks, ics, versions, runs, failures>>

UnlockPresets(t) ==
    /\ At(t, {"presetUnlock"})
    /\ preset' = None
    /\ Advance(t)
    /\ UNCHANGED <<slots, pool, locks, ics, versions, runs, failures>>

GetPreset(t) ==
    /\ At(t, {"preset"})
    /\ preset = None
    /\ Advance(t)
    /\ UNCHANGED <<slots, pool, locks, mutexes, versions, runs, failures>>

\* load has read the roles
Loading == \E t \in Tasks : seenRoles[t] # 0

\* GetAccessById loads what is not cached, RenewAccessById and RenewAccessAll what is
LookAtAccess(t) ==
    /\ At(t, {"access", "renew"})
    /\ LET loads == At(t, {"renew"}) <=> access # 0
       IN  /\ todo' = [todo EXCEPT ![t] = IF loads THEN LoadAccess \o Tail(@) ELSE Tail(@)]
           /\ crossed' = (crossed \/ (At(t, {"renew"}) /\ ~loads /\ Loading))
    /\ UNCHANGED <<slots, pool, locks, mutexes, schema, access, roles, enabled, seenRoles,
                   granted, runs, failures>>

\* loadRoleIds, before the locks of load
LoadRoles(t) ==
    /\ At(t, {"roles"})
    /\ free > 0
    /\ seenRoles' = [seenRoles EXCEPT ![t] = roles]
    /\ crossed' = (crossed \/ Loading)
    /\ Advance(t)
    /\ UNCHANGED <<slots, pool, locks, mutexes, schema, access, roles, enabled, granted,
                   runs, failures>>

BuildAccess(t) ==
    /\ At(t, {"build"})
    /\ seen' = [seen EXCEPT ![t] = cached]
    /\ Advance(t)
    /\ UNCHANGED <<slots, pool, locks, mutexes, stored, maps, json, icsField, access, login,
                   runs, failures>>

PutAccess(t) ==
    /\ At(t, {"put"})
    /\ access' = seen[t] /\ granted' = seenRoles[t]
    /\ seen' = [seen EXCEPT ![t] = 0] /\ seenRoles' = [seenRoles EXCEPT ![t] = 0]
    /\ Advance(t)
    /\ UNCHANGED <<slots, pool, locks, mutexes, stored, maps, json, icsField, roles, enabled,
                   crossed, runs, failures>>

-----------------------------------------------------------------------------
(* Failures: the client is gone, a timeout, an error of the database.  The   *)
(* handler returns; what it deferred is done, the rest of its program is not *)

Fail(t, ops) ==
    /\ At(t, ops)
    /\ failures < MaxFailures
    /\ failures' = failures + 1
    /\ UNCHANGED <<versions, runs>>

\* deferred: the slot of the request, its read locks and the mutexes of caches
Leave(t) ==
    /\ slots' = slots \ {t}
    /\ preset' = IF preset = t THEN None ELSE preset
    /\ ics' = IF ics = t THEN None ELSE ics

\* open transactions are rolled back, that of an import within a request too
Rollback(t) == free' = free + conns[t] /\ conns' = [conns EXCEPT ![t] = 0]

\* ExecTransaction returns without a rollback: the connection is not given back
ConfigFails(t) ==
    /\ Fail(t, {"config"})
    /\ Leave(t)
    /\ todo' = [todo EXCEPT ![t] = <<>>]
    /\ conns' = [conns EXCEPT ![t] = 0]
    /\ UNCHANGED <<free, locks>>

\* no connection within the timeout, or an error.  The lock of updateSchemaCache
\* is deferred, the last one of UpdateSchema is not: it stays with the goroutine
CallFails(t) ==
    /\ Fail(t, {"begin", "end", "save", "grant", "disable", "query", "read", "metaQuery",
                "icsGet", "roles"})
    /\ ~ (At(t, {"icsGet"}) /\ icsField # 0)
    /\ ~ (At(t, {"read"}) /\ writer = t)
    /\ Leave(t)
    /\ todo' = [todo EXCEPT ![t] = <<>>]
    /\ readers' = [readers EXCEPT ![t] = 0]
    /\ Rollback(t)
    /\ left' = (left \/ writer = t)
    /\ UNCHANGED <<writer, waiting>>

ReadFailsLocked(t) ==
    /\ Fail(t, {"read"})
    /\ writer = t
    /\ Leave(t)
    /\ GiveBackLock
    /\ todo' = [u \in Tasks |-> IF u = t THEN <<>>
                               ELSE IF u \in waiting THEN Tail(todo[u]) ELSE todo[u]]
    /\ Rollback(t)
    /\ UNCHANGED left

-----------------------------------------------------------------------------
Init ==
    /\ todo = [t \in Tasks |-> <<>>]
    /\ slots = {}
    /\ free = PoolSize /\ conns = [t \in Tasks |-> 0]
    /\ readers = [t \in Tasks |-> 0] /\ writer = None /\ waiting = {} /\ left = FALSE
    /\ preset = None /\ ics = None
    /\ db = 1 /\ dropped = {}
    /\ cached = 1 /\ relics = {} /\ json = 1 /\ icsField = 0 /\ access = 0
    /\ seen = [t \in Tasks |-> 0]
    /\ roles = 1 /\ enabled = TRUE
    /\ seenRoles = [t \in Tasks |-> 0] /\ granted = 0 /\ crossed = FALSE
    /\ runs = 0 /\ failures = 0

Step(t) ==
    \/ TakeSlot(t) \/ FreeSlot(t)
    \/ Begin(t) \/ SetConfig(t) \/ EndTransaction(t) \/ SaveElsewhere(t)
    \/ RLock(t) \/ RUnlock(t) \/ Lock(t) \/ Drain(t) \/ Unlock(t)
    \/ Query(t) \/ ReadSchema(t) \/ StoreSchema(t) \/ CopyJson(t)
    \/ LockIcs(t) \/ UnlockIcs(t) \/ GetIcs(t) \/ ResetIcs(t)
    \/ LockPresets(t) \/ UnlockPresets(t) \/ GetPreset(t)
    \/ LookAtAccess(t) \/ LoadRoles(t) \/ BuildAccess(t) \/ PutAccess(t)

Failure(t) == ConfigFails(t) \/ CallFails(t) \/ ReadFailsLocked(t)

Next == \E t \in Tasks : Run(t) \/ Step(t) \/ Failure(t)

Spec == Init /\ [][Next]_vars

\* Go runs every goroutine that is not blocked.  Nothing relies on a timeout.
FairSpec == Spec /\ \A t \in Tasks : WF_vars(Step(t))

-----------------------------------------------------------------------------
(* Properties *)

\* Types: among them, that slots, connections and readers are never given back twice.
TypeOK ==
    /\ todo \in [Tasks -> Seq(Ops)]
    /\ slots \subseteq Tasks /\ Cardinality(slots) <= RequestLimit
    /\ free \in 0 .. PoolSize
    /\ conns \in [Tasks -> Nat] /\ readers \in [Tasks -> Nat]
    /\ writer \in Tasks \cup {None} /\ waiting \subseteq Tasks /\ left \in BOOLEAN
    /\ preset \in Tasks \cup {None} /\ ics \in Tasks \cup {None}
    /\ db \in Nat /\ dropped \subseteq Nat /\ cached \in Nat /\ relics \subseteq Nat
    /\ json \in Nat /\ icsField \in Nat /\ access \in Nat
    /\ seen \in [Tasks -> Nat]
    /\ roles \in Nat /\ enabled \in BOOLEAN
    /\ seenRoles \in [Tasks -> Nat] /\ granted \in Nat /\ crossed \in BOOLEAN
    /\ runs \in Nat /\ failures \in Nat

Idle(t) == todo[t] = <<>>

\* Reloads of several requests and of events of other nodes overlap, and they
\* hold no lock from their start to their end.  Yet neither the maps nor the
\* JSON copies nor the access of a login ever go back to an older schema.
CacheNeverGoesBack == [][cached' >= cached /\ json' >= json /\ access' >= access]_vars

\* After overlapping saves and reloads, none of which failed, what the maps have
\* of the entities there are, the JSON copies, the calendar fields and the access
\* of a login are of the last schema committed, on this node or on another.
\* Entities that were deleted are not gone: updateSchemaCache only adds to the
\* maps by ID, so each stays in them until the node is restarted.
SettledCacheIsCurrent ==
    failures = 0 /\ (\A t \in Tasks : Idle(t)) =>
        /\ cached = db /\ json = db /\ access \in {0, db} /\ icsField \in {0, db}
        /\ relics = dropped

\* importLogin: "commit before renewing access cache (to apply new permissions)".
\* However changes of roles, of the schema and requests of the login interleave,
\* its cached access is of its last roles in the end; unless two loads overlapped
\* (the first to read may be the last to store), or a renewal found nothing to
\* renew while a load with the old roles was on its way.  That of a login which
\* the import made inactive is not renewed: its sessions are kicked instead.
SettledAccessIsCurrent ==
    failures = 0 /\ ~crossed /\ enabled /\ (\A t \in Tasks : Idle(t)) /\ access # 0
        => granted = roles

\* what a goroutine waits for before its next step
Waits(t) ==
    \/ At(t, {"slot"}) /\ ~SlotFree
    \/ At(t, {"begin", "query", "metaQuery", "read", "roles"}) /\ free = 0
    \/ At(t, {"icsGet"}) /\ icsField = 0 /\ free = 0
    \/ At(t, {"rlock"}) /\ writer # None /\ t \in waiting
    \/ At(t, {"lock"}) /\ writer # None
    \/ At(t, {"drain"}) /\ \E u \in Tasks : readers[u] # 0
    \/ At(t, {"presetLock", "preset"}) /\ preset # None
    \/ At(t, {"icsLock"}) /\ ics # None

\* Goroutines can come to wait for each other in a circle: all connections are
\* taken by transactions whose handlers ask the pool for another one (or were
\* lost), the lock stayed with a goroutine that failed, or one with a read lock
\* asks for a second one behind a writer.  These are the only ways: of slots,
\* the two mutexes and the lock as such, also together, there is no circle.
NoOtherCircle ==
    (\E t \in Tasks : ~ Idle(t)) /\ (\A t \in Tasks : Idle(t) \/ Waits(t)) =>
        \/ free = 0
        \/ left
        \/ \E t \in waiting : readers[t] # 0

\* Comment of hubRequestLimit: with at most 10 requests at once, requests
\* during a schema reload do not hang the server.  All come to their end.
AllEnd == \A t \in Tasks : ~ Idle(t) ~> Idle(t)
=============================================================================
