------------------------------- MODULE Client -------------------------------
(* The browser page of REI3 from its start to its end: the websocket and its *)
(* transactions (www/websocket), the states of the app (comps/app.js), the   *)
(* login (comps/login.js) and the collections (comps/shared/collection.js).  *)
(*                                                                           *)
(* JavaScript runs one handler at a time, up to its end with the promises    *)
(* that are settled by then: each is one action.  All that it may change is  *)
(* in the record 'page', and functions of the code are operators that take   *)
(* a page and return it changed.  A handler waits for nothing: what it       *)
(* started (a request, a download) ends in a later one, whatever has         *)
(* happened to the connection, the session or the schema meanwhile.          *)
EXTENDS Integers, FiniteSets

CONSTANTS
    Links,          \* places for connections of the page at the same time, finitely many
    Modules,        \* modules (applications) of the server
    Cases           \* logins that are looked at, with their bounds

\* changes of the schema, other news of the server, requests of the app, logouts;
\* a connection that ends, is refused, takes longer than the reconnect loop, or is
\* reported closed only when the next one is open; a login, and a request of the
\* public data, that fails; a failing download of modules, of captions; a change of
\* the schema that is not dated anew; enter pressed again during a login
Bounded == {"schema", "news", "query", "logout", "break", "refused", "slow", "late",
            "badLogin", "public", "fetch", "captions", "undated", "again"}

\* a login: whether it is an admin and has access to collections, and whether
\* 'stay logged in' and a token are stored at first
Case == [admin: BOOLEAN, collections: BOOLEAN, keep: BOOLEAN, token: BOOLEAN,
         may: [Bounded -> Nat]]

ASSUME ClientAssumption ==
    /\ Links \subseteq Nat \ {0} /\ IsFiniteSet(Links) /\ 1 \in Links
    /\ Cases \subseteq Case /\ Cases # {}

VARIABLES
    page,     \* the page, see Page
    auth,     \* links the server has authenticated
    json,     \* module -> version of its schema the server hands out, 0: none
    meta,     \* module -> its date of change in the server's meta data, 0: none
    change,   \* where a change of the schema is: "none", "told", "json", "dated"
    told,     \* number of changes the page was told of
    login,    \* the case
    left,     \* what is bounded -> how often it may still happen
    cut       \* history: what was under way when its connection was given up

server == <<auth, json, meta, change, told, login>>
vars   == <<page, server, left, cut>>

Blocking    == {"authUser", "authToken", "app", "config", "access", "query"}
\* requests for which it matters when the server handles them
Timed       == {"public", "authUser", "authToken"}
Kinds       == Blocking \cup {"public", "start", "collections"}
NewsKinds   == {"schemaLoading", "schemaLoaded", "configChanged", "collectionChanged", "reauthorized"}
Versions    == [Modules -> Nat]
NoModules   == [m \in Modules |-> 0]

Page == [
    link: [Links -> {"none", "connecting", "open", "closing"}],
    conn: Links,                \* ws.conn
    transactions: SUBSET [id: Nat, kind: Kinds],    \* ws.transactions
    blockingCount: Nat,         \* ws.blockingCount
    wire: SUBSET [on: Links, id: Nat, kind: Kinds, state: {"asked", "done", "failed"}, meta: Versions],
    news: SUBSET [on: Links, kind: NewsKinds, nr: Nat, meta: Versions],
    busyCounter: Int,
    wsConnected: BOOLEAN, publicLoaded: BOOLEAN, schemaLoaded: BOOLEAN,
    loginReady: BOOLEAN, appReady: BOOLEAN,
    loading: BOOLEAN,           \* of the login
    token: BOOLEAN,             \* whether a token is stored
    tokenKeep: BOOLEAN,
    isAdmin: BOOLEAN,           \* stores, as of the last login
    access: BOOLEAN,            \* whether collections can be accessed
    moduleIdMapMeta: Versions,  \* known date of change
    moduleIdMap: Versions,      \* version of the module's schema
    fetches: SUBSET [id: Nat, new: Versions, get: SUBSET Modules, got: Versions],
    captions: Nat,              \* downloads of captions for initApp
    keys: Nat,                  \* key derivations for the login
    threw: BOOLEAN]             \* initSchema ended with an exception

FreeLinks(p) == {l \in Links : p.link[l] = "none"}
Least(S)     == CHOOSE n \in 1 .. Cardinality(S) + 1 : n \notin S

-----------------------------------------------------------------------------
(* websocket: functions of object ws *)

NewId(p) == Least({t.id : t \in p.transactions} \cup {w.id : w \in p.wire})

\* setInitErr: the login stops loading, if it is there
SetInitErr(p) == IF p.appReady THEN p ELSE [p EXCEPT !.loading = FALSE]

\* the login is gone, and what it waits for
Ready(p) == [p EXCEPT !.appReady = TRUE, !.loading = FALSE, !.keys = 0]

\* mutant: errors are only reported
RejectReports(p, kind) == IF kind = "start" THEN Ready(p) ELSE p

\* what the caller of a request does if it fails
Reject(p, kind) ==
    CASE kind \in {"authUser", "authToken"}     -> IF p.appReady THEN p ELSE [p EXCEPT !.loading = FALSE]
      [] kind \in {"public", "app"}             -> SetInitErr(p)
      [] kind = "start" /\ p.isAdmin            -> Ready(p)
      [] kind = "start" /\ ~p.isAdmin           -> SetInitErr(p)
      [] OTHER                                  -> p

\* ws.send: a connection that is not yet open throws (and the login's handler of
\* errors does then, as it expects a string), one that is closed drops the message
Send(p, kind) ==
    LET id     == NewId(p)
        stored == [p EXCEPT !.transactions = @ \cup {[id |-> id, kind |-> kind]}]
        counts == kind \in Blocking
    IN  IF p.link[p.conn] = "connecting"
        THEN IF kind \in {"authUser", "authToken"} THEN stored ELSE Reject(stored, kind)
        ELSE [stored EXCEPT
                !.wire = IF p.link[p.conn] # "open" THEN @
                         ELSE @ \cup {[on |-> p.conn, id |-> id, kind |-> kind,
                                       state |-> "asked", meta |-> NoModules]},
                !.blockingCount = IF counts THEN @ + 1 ELSE @,
                !.busyCounter = IF counts /\ p.blockingCount = 0 THEN @ + 1 ELSE @]

\* mutant: the input is not given free
ClearSilently(p) == [p EXCEPT !.blockingCount = 0, !.transactions = {}]

\* ws.clear, callback wsBlocking
Clear(p) == [p EXCEPT !.blockingCount = 0, !.transactions = {}, !.busyCounter = @ - 1]

\* mutant: any response ends a blocking transaction
UnblockAny(p, kind) == [p EXCEPT !.blockingCount = @ - 1]

\* received, up to the promise
Unblock(p, kind) ==
    IF kind \notin Blocking THEN p
    ELSE IF p.blockingCount > 1 THEN [p EXCEPT !.blockingCount = @ - 1]
    ELSE [p EXCEPT !.blockingCount = 0, !.busyCounter = @ - 1]

-----------------------------------------------------------------------------
(* comps/app.js *)

\* mutant: the app stays as it is until the connection is back
BrokenStays(p) ==
    [p EXCEPT !.busyCounter = 0, !.publicLoaded = FALSE, !.wsConnected = FALSE]

\* wsBroken.  If the app was ready the login is made anew: it forgets a token
\* that is not to be kept
WsBroken(p) ==
    [p EXCEPT !.busyCounter = 0, !.appReady = FALSE, !.loginReady = FALSE,
              !.publicLoaded = FALSE, !.wsConnected = FALSE,
              !.token = @ /\ (p.tokenKeep \/ ~p.appReady)]

\* wsConnect
WsConnect(p) ==
    LET l == CHOOSE l \in FreeLinks(p) : \A k \in FreeLinks(p) : l <= k
    IN  [p EXCEPT !.link[l] = "connecting", !.conn = l]

\* ws.close: the connection goes later
Close(p) ==
    WsBroken(Clear([p EXCEPT !.link[p.conn] = IF @ = "none" THEN @ ELSE "closing"]))

\* wsReconnect
WsReconnect(p) == WsConnect([Close(p) EXCEPT !.busyCounter = 0])

\* loginReady is set, and seen by the login if it is there
LoginReady(p) ==
    LET q == [p EXCEPT !.loginReady = TRUE]
    IN  IF p.appReady \/ ~p.token THEN q ELSE Send([q EXCEPT !.loading = TRUE], "authToken")

\* stateChange, once the schema is loaded or not needed yet
StateChange2(p) ==
    IF      ~p.wsConnected  THEN WsConnect(p)
    ELSE IF ~p.publicLoaded THEN Send(p, "public")
    ELSE IF ~p.loginReady   THEN LoginReady(p)
    ELSE p

\* mutant: the app does not go on from there
SchemaStored(p, new, get, got) ==
    [p EXCEPT !.moduleIdMap = [m \in Modules |-> IF m \in get THEN got[m] ELSE @[m]],
              !.moduleIdMapMeta = new, !.schemaLoaded = TRUE, !.busyCounter = @ - 1]

\* initSchema, when all modules have been received
SchemaDone(p, new, get, got) ==
    LET q == StateChange2([p EXCEPT
                !.moduleIdMap = [m \in Modules |-> IF m \in get THEN got[m] ELSE @[m]],
                !.moduleIdMapMeta = new, !.schemaLoaded = TRUE])
    IN  [q EXCEPT !.busyCounter = @ - 1]

\* mutant: a module that is known is not fetched
ModulesUnknown(p, new) == {m \in Modules : new[m] # 0 /\ p.moduleIdMap[m] = 0}

\* modules that are not known or updated
ModulesFetch(p, new) ==
    {m \in Modules : new[m] # 0 /\ (p.moduleIdMap[m] = 0 \/ p.moduleIdMapMeta[m] # new[m])}

\* a module that is there without meta data: metaOld is undefined
MetaUndefined(p, new) ==
    \E m \in Modules : new[m] # 0 /\ p.moduleIdMap[m] # 0 /\ p.moduleIdMapMeta[m] = 0

\* initSchema
InitSchema(p, new) ==
    LET busy    == [p EXCEPT !.busyCounter = @ + 1]
        removed == {m \in Modules : p.moduleIdMapMeta[m] # 0 /\ new[m] = 0}
        get     == ModulesFetch(p, new)
        kept    == [busy EXCEPT !.moduleIdMap = [m \in Modules |-> IF m \in removed THEN 0 ELSE @[m]]]
        fetch   == [id |-> Least({f.id : f \in p.fetches}), new |-> new, get |-> get, got |-> NoModules]
    IN  IF MetaUndefined(p, new) THEN [busy EXCEPT !.threw = TRUE]
        ELSE IF get = {} THEN SchemaDone(kept, new, {}, NoModules)
        ELSE [kept EXCEPT !.fetches = @ \cup {fetch}]

\* stateChange
StateChange(p) ==
    IF p.wsConnected /\ p.publicLoaded /\ ~p.schemaLoaded
    THEN InitSchema(p, p.moduleIdMapMeta) ELSE StateChange2(p)

\* updateCollections, 'kind' says who waits for it
UpdateCollections(p, kind) ==
    IF p.access THEN Send(p, kind)
    ELSE IF kind = "start" THEN Ready(p) ELSE p

\* appEnable, and initApp if the login is still there
AppEnable(p) == LET q == [p EXCEPT !.isAdmin = login.admin]
                IN  IF p.appReady THEN q ELSE Send(q, "app")

\* what the caller of a request does with the response
Resolve(p, w) ==
    CASE w.kind = "public"    -> StateChange([p EXCEPT !.moduleIdMapMeta = w.meta, !.publicLoaded = TRUE])
      [] w.kind = "authUser"  -> [p EXCEPT !.token = TRUE, !.keys = IF p.appReady THEN @ ELSE @ + 1]
      [] w.kind = "authToken" -> AppEnable(p)
      [] w.kind = "app"       -> [p EXCEPT !.access = login.collections, !.captions = @ + 1]
      [] w.kind = "start"     -> Ready(p)
      [] w.kind = "access"    -> UpdateCollections(p, "collections")
      [] OTHER                -> p

\* wsBackendRequest, from 'configChanged' on
ConfigChanged(p) == Send(IF p.isAdmin THEN Send(p, "config") ELSE p, "public")

\* wsBackendRequest
BackendRequest(p, n) ==
    CASE n.kind = "schemaLoading" -> [p EXCEPT !.busyCounter = @ + 1]
      [] n.kind = "schemaLoaded"  -> InitSchema([p EXCEPT !.busyCounter = @ - 1], n.meta)
      [] n.kind = "configChanged" -> ConfigChanged(p)
      [] n.kind = "collectionChanged" -> ConfigChanged(UpdateCollections(p, "collections"))
      [] n.kind = "reauthorized"  -> IF p.appReady THEN Send(p, "access") ELSE p

-----------------------------------------------------------------------------
(* Mishaps, and what they cut *)

May(x)    == left[x] > 0
Spend(x)  == left' = [left EXCEPT ![x] = @ - 1]

\* a login whose answer or keys the page waits for, a start of the app
Waits(p, kinds) == \E t \in p.transactions : t.kind \in kinds
LoggingIn       == page.keys > 0 \/ Waits(page, {"authUser"})
Starting        == page.captions > 0 \/ Waits(page, {"start"})

\* what is under way as the connection is given up
GivenUp == cut' = cut \cup {x \in {"login", "start"} : IF x = "login" THEN LoggingIn ELSE Starting}

\* a handler that finds the page not connected connects anew, over a connection
\* that may be there
Replaced == IF page'.conn = page.conn THEN {} ELSE {"replaced"}

\* the dates of change of the modules are taken without the modules
DatesOnly == IF page.schemaLoaded /\ page'.moduleIdMapMeta # page.moduleIdMapMeta
             THEN {"dates"} ELSE {}

\* the schema is looked at while modules are downloaded
Overlap == IF page.fetches # {} THEN {"overlap"} ELSE {}

\* a message overtakes an older one
Overtakes(n) == IF \E k \in page.news : k.on = n.on /\ k.kind = n.kind /\ k.nr < n.nr
                THEN {"overtaken"} ELSE {}

Note(S) == cut' = cut \cup S

-----------------------------------------------------------------------------
(* Actions of the page *)

\* bound: there is a place for the connection a handler may open
CanGoOn == page.wsConnected \/ FreeLinks(page) # {}

\* onopen
Open(l) ==
    /\ page.link[l] = "connecting"
    /\ IF \E k \in Links : page.link[k] = "closing"
       THEN May("late") /\ Spend("late") ELSE UNCHANGED left
    /\ page' = StateChange([page EXCEPT !.link[l] = "open", !.wsConnected = TRUE])
    /\ auth' = auth \ {l}
    /\ UNCHANGED <<json, meta, change, told, cut, login>>

\* onclose and onerror of any connection, also one the page has closed itself
OnClose(l) ==
    /\ \/ page.link[l] = "closing" /\ UNCHANGED left
       \/ page.link[l] = "open" /\ May("break") /\ Spend("break")
       \/ page.link[l] = "connecting" /\ May("refused") /\ Spend("refused")
    /\ page' = [WsBroken(page) EXCEPT
                    !.link[l] = "none",
                    !.wire = {w \in @ : w.on # l}, !.news = {n \in @ : n.on # l}]
    /\ GivenUp
    /\ UNCHANGED server

\* the reconnect loop, every two seconds
Tick ==
    /\ ~page.wsConnected
    /\ FreeLinks(page) # {}
    /\ IF page.link[page.conn] = "connecting" THEN May("slow") /\ Spend("slow") ELSE UNCHANGED left
    /\ page' = WsReconnect(page)
    /\ GivenUp
    /\ UNCHANGED server

\* a response.  One of a transaction that is not known is discarded
Receive(w) ==
    /\ page.link[w.on] = "open"
    /\ w.kind \in Timed => w.state # "asked"
    /\ CanGoOn
    /\ LET t  == {u \in page.transactions : u.id = w.id}
           p  == [page EXCEPT !.wire = @ \ {w}, !.transactions = @ \ t]
           q  == Unblock(p, w.kind)
           ok == IF w.kind \in Timed THEN w.state = "done" ELSE w.on \in auth
       IN  page' = IF t = {} THEN p ELSE IF ok THEN Resolve(q, w) ELSE Reject(q, w.kind)
    /\ Note(Replaced \cup IF w.kind = "public" THEN DatesOnly \cup Overlap ELSE {})
    /\ UNCHANGED <<server, left>>

\* a message the page has not asked for
ReceiveNews(n) ==
    /\ page.link[n.on] = "open"
    /\ CanGoOn
    /\ page' = BackendRequest([page EXCEPT !.news = @ \ {n}], n)
    /\ Note(Replaced \cup IF n.kind = "schemaLoaded" THEN Overlap \cup Overtakes(n) ELSE {})
    /\ UNCHANGED <<server, left>>

\* the key is derived from the password
KeysDerived ==
    /\ page.keys > 0
    /\ page' = AppEnable([page EXCEPT !.keys = @ - 1])
    /\ UNCHANGED <<server, left, cut>>

\* the captions have been downloaded for initApp, which goes on
CaptionsLoaded ==
    /\ page.captions > 0
    /\ page' = UpdateCollections([page EXCEPT !.captions = @ - 1], "start")
    /\ UNCHANGED <<server, left, cut>>

\* the server has none for initApp, which ends
CaptionsFail ==
    /\ page.captions > 0
    /\ May("captions") /\ Spend("captions")
    /\ page' = SetInitErr([page EXCEPT !.captions = @ - 1])
    /\ UNCHANGED <<server, cut>>

\* the server is not reached: nobody handles that, and initApp goes on waiting
CaptionsLost ==
    /\ page.captions > 0
    /\ May("captions") /\ Spend("captions")
    /\ page' = [page EXCEPT !.captions = @ - 1]
    /\ Note({"captions"})
    /\ UNCHANGED server

\* downloads of schema.json: the server answers one
FetchServed(f, m) ==
    /\ m \in f.get
    /\ f.got[m] = 0
    /\ json[m] # 0
    /\ page' = [page EXCEPT !.fetches = (@ \ {f}) \cup {[f EXCEPT !.got[m] = json[m]]}]
    /\ UNCHANGED <<server, left, cut>>

\* all are there
FetchDone(f) ==
    /\ \A m \in f.get : f.got[m] # 0
    /\ CanGoOn
    /\ page' = SchemaDone([page EXCEPT !.fetches = @ \ {f}], f.new, f.get, f.got)
    /\ Note(Replaced)
    /\ UNCHANGED <<server, left>>

\* one fails, as the module has gone or by chance
FetchFails(f) ==
    /\ \/ \E m \in f.get : f.got[m] = 0 /\ json[m] = 0 /\ UNCHANGED left
       \/ May("fetch") /\ Spend("fetch")
    /\ page' = [SetInitErr([page EXCEPT !.fetches = @ \ {f}]) EXCEPT !.busyCounter = @ - 1]
    /\ cut' = cut \cup {"fetch"}
    /\ UNCHANGED server

-----------------------------------------------------------------------------
(* Actions of the user *)

\* the overlay keeps the user from clicking, not from pressing enter once more
Login ==
    /\ ~page.appReady
    /\ page.wsConnected /\ page.loginReady
    /\ IF page.loading THEN May("again") /\ Spend("again") ELSE UNCHANGED left
    /\ page' = Send([page EXCEPT !.loading = TRUE], "authUser")
    /\ UNCHANGED <<server, cut>>

CanClick == page.appReady /\ page.busyCounter <= 0

\* sessionInvalid
Logout ==
    /\ CanClick
    /\ FreeLinks(page) # {}
    /\ May("logout") /\ Spend("logout")
    /\ page' = WsReconnect([page EXCEPT !.token = FALSE, !.tokenKeep = FALSE])
    /\ GivenUp
    /\ UNCHANGED server

\* any request of the app that blocks the input, from a form or a list
Query ==
    /\ CanClick
    /\ May("query") /\ Spend("query")
    /\ page' = Send(page, "query")
    /\ UNCHANGED <<server, cut>>

\* wsCancel
Cancel ==
    /\ page.appReady
    /\ page.busyCounter > 0
    /\ page' = Clear(page)
    /\ GivenUp
    /\ UNCHANGED <<server, left>>

-----------------------------------------------------------------------------
(* The server *)

Answer(w, state, data) ==
    [page EXCEPT !.wire = (@ \ {w}) \cup {[w EXCEPT !.state = state, !.meta = data]}]

\* a request is handled.  The others are so as well, any time before their
\* response: they fail if there is no login on the connection
Handle(w) ==
    /\ w.kind \in Timed
    /\ w.state = "asked"
    /\ \/ /\ w.kind = "public"
          /\ page' = Answer(w, "done", meta)
          /\ UNCHANGED <<auth, left, cut>>
       \/ /\ w.kind = "public"
          /\ May("public") /\ Spend("public")
          /\ page' = Answer(w, "failed", NoModules)
          /\ Note({"public"})
          /\ UNCHANGED auth
       \/ /\ w.kind \in {"authUser", "authToken"}
          /\ page' = Answer(w, "done", NoModules)
          /\ auth' = auth \cup {w.on}
          /\ UNCHANGED <<left, cut>>
       \/ /\ w.kind \in {"authUser", "authToken"}
          /\ May("badLogin") /\ Spend("badLogin")
          /\ page' = Answer(w, "failed", NoModules)
          /\ UNCHANGED <<auth, cut>>
    /\ UNCHANGED <<json, meta, change, told, login>>

\* the hub sends a message to every connection
Tell(kind) ==
    page' = [page EXCEPT !.news = @ \cup
                {[on |-> l, kind |-> kind, nr |-> told', meta |-> meta] :
                    l \in {l \in Links : page.link[l] = "open"}}]

\* SchemaChanged: the clients are told, the cache is updated, then its meta data
SchemaLoading ==
    /\ change = "none" /\ May("schema") /\ Spend("schema")
    /\ told' = told + 1
    /\ change' = "told"
    /\ Tell("schemaLoading")
    /\ UNCHANGED <<auth, json, meta, cut, login>>

\* UpdateSchema: the schema of a module is read anew
SchemaUpdate(m) ==
    /\ change = "told"
    /\ json' = [json EXCEPT ![m] = told]
    /\ change' = "json"
    /\ UNCHANGED <<page, auth, meta, told, left, cut, login>>

\* LoadModuleIdMapMeta: a module has been deleted
SchemaDelete(m) ==
    /\ change = "told" /\ meta[m] # 0
    /\ json' = [json EXCEPT ![m] = 0]
    /\ meta' = [meta EXCEPT ![m] = 0]
    /\ change' = "dated"
    /\ UNCHANGED <<page, auth, told, left, cut, login>>

\* then the date of change is set of this module, the last one that was read
SchemaDate(m) ==
    /\ change = "json" /\ \A k \in Modules : json[k] <= json[m]
    /\ change' = "dated"
    /\ meta' = [meta EXCEPT ![m] = json[m]]
    /\ UNCHANGED <<page, auth, json, told, left, cut, login>>

\* It stays as it was: dates are in seconds, and the last change was in the same
\* one; or UpdateSchema fails, after the schema was read or before.
SchemaUndated ==
    /\ change \in {"told", "json"}
    /\ May("undated") /\ Spend("undated")
    /\ change' = "dated"
    /\ UNCHANGED <<page, auth, json, meta, told, cut, login>>

\* the clients are told that it is over, however it went
SchemaLoaded ==
    /\ change = "dated"
    /\ change' = "none"
    /\ UNCHANGED told
    /\ Tell("schemaLoaded")
    /\ UNCHANGED <<auth, json, meta, left, cut, login>>

\* other changes the page is told of
News(kind) ==
    /\ May("news") /\ Spend("news")
    /\ told' = told + 1
    /\ Tell(kind)
    /\ UNCHANGED <<auth, json, meta, change, cut, login>>

-----------------------------------------------------------------------------
\* the page is mounted, and has begun to connect
Init ==
    /\ login \in Cases /\ left = login.may
    /\ page = WsConnect(
        [link |-> [l \in Links |-> "none"], conn |-> 1,
         transactions |-> {}, blockingCount |-> 0, wire |-> {}, news |-> {}, busyCounter |-> 0,
         wsConnected |-> FALSE, publicLoaded |-> FALSE, schemaLoaded |-> FALSE,
         loginReady |-> FALSE, appReady |-> FALSE,
         loading |-> FALSE, token |-> login.token /\ login.keep, tokenKeep |-> login.keep,
         isAdmin |-> FALSE, access |-> FALSE,
         moduleIdMapMeta |-> NoModules, moduleIdMap |-> NoModules,
         fetches |-> {}, captions |-> 0, keys |-> 0, threw |-> FALSE])
    /\ auth = {} /\ change = "none" /\ told = 1
    /\ json = [m \in Modules |-> 1] /\ meta = json
    /\ cut = {}

Fetching(f) == (\E m \in f.get : FetchServed(f, m)) \/ FetchDone(f) \/ FetchFails(f)

Next ==
    \/ \E l \in Links : Open(l) \/ OnClose(l)
    \/ Tick
    \/ \E w \in page.wire : Receive(w) \/ Handle(w)
    \/ \E n \in page.news : ReceiveNews(n)
    \/ KeysDerived \/ CaptionsLoaded \/ CaptionsFail \/ CaptionsLost
    \/ \E f \in page.fetches : Fetching(f)
    \/ Login \/ Logout \/ Query \/ Cancel
    \/ SchemaLoading \/ SchemaUndated \/ SchemaLoaded
    \/ \E m \in Modules : SchemaUpdate(m) \/ SchemaDelete(m) \/ SchemaDate(m)
    \/ \E kind \in NewsKinds \ {"schemaLoading", "schemaLoaded"} : News(kind)

Spec == Init /\ [][Next]_vars

\* a connection is opened, or reported closed after the page has closed it
Connection == \E l \in Links : Open(l) \/ (page.link[l] = "closing" /\ OnClose(l))

\* what the page waits for
Answers ==
    \/ \E w \in page.wire : Receive(w) \/ Handle(w)
    \/ \E n \in page.news : ReceiveNews(n)
    \/ \E f \in page.fetches : Fetching(f)
    \/ KeysDerived \/ CaptionsLoaded \/ CaptionsFail \/ CaptionsLost

\* The reconnect loop runs, and the browser and the server answer in time, in any
\* order.  The user does what he likes, and all mishaps may happen.
Fairness == WF_vars(Tick) /\ WF_vars(Connection) /\ WF_vars(Answers)

FairSpec == Spec /\ Fairness

-----------------------------------------------------------------------------
(* Properties *)

Causes == {"login", "start", "replaced", "dates", "overlap", "overtaken", "fetch", "captions", "public"}

\* Types: among them, that ws.blockingCount never falls below zero although answers,
\* cancelling and lost connections all count it down.
TypeOK ==
    /\ page \in Page
    /\ auth \subseteq Links
    /\ json \in Versions /\ meta \in Versions
    /\ change \in {"none", "told", "json", "dated"} /\ told \in Nat
    /\ login \in Case /\ left \in [Bounded -> Nat]
    /\ cut \subseteq Causes

\* Comment at appReady: "app is loaded and user authenticated".  The app is shown
\* only on a connection with a login.  A start of the app that is cut goes on
\* with the next connection; this holds if there was none.
AppIsAuthenticated ==
    cut \cap {"start", "replaced"} = {} => (page.appReady => page.conn \in auth)

\* While the input is blocked (and the connection is there) something is under way
\* that ends, so that neither cancelled requests nor lost or repeated connections
\* leave the user before an overlay that stays.  It does stay if initSchema ended
\* with an exception, or a handler connected anew beside a connection.
InputIsFreed ==
    page.busyCounter > 0 /\ page.wsConnected /\ "replaced" \notin cut =>
        \/ Waits(page, Blocking) \/ page.fetches # {} \/ page.threw
        \/ change # "none" \/ \E n \in page.news : n.kind = "schemaLoaded"

\* The same for the overlay of the login, unless a login was cut or the server was
\* not reached for the captions, which nobody handles.
LoginIsFreed ==
    page.loading /\ page.loginReady /\ cut \cap {"login", "captions"} = {} =>
        \/ page.keys > 0 \/ page.captions > 0
        \/ Waits(page, {"authUser", "authToken", "app", "start"})

\* nothing is on its way to the page
Settled ==
    /\ page.wsConnected /\ page.schemaLoaded /\ page.publicLoaded
    /\ page.wire = {} /\ page.news = {} /\ page.fetches = {} /\ change = "none"

\* Comment in initSchema: "compare new and known module meta data", "module not
\* known or updated, fetch".  A page that is told of all changes has each module as
\* it is on the server, if the server has dated its last change.
SchemaIsCurrent ==
    Settled => \A m \in Modules : meta[m] = json[m] => page.moduleIdMap[m] = json[m]

\* It has, unless the dates of change came without the modules (with the public
\* data, after a reconnect or a changed configuration), downloads failed or
\* overlapped, messages changed places, a handler connected anew beside a
\* connection, or initSchema ended with an exception.
SchemaFollows ==
    cut \cap {"dates", "overlap", "overtaken", "fetch", "replaced"} = {} /\ ~page.threw => SchemaIsCurrent

\* However the connection was lost, the page offers the login again, unless a
\* module could not be downloaded or the request of the public data failed, which
\* the page only reports, or a cut start or a handler that connects on its own went
\* on with the next connection.
LoginComesBack ==
    ~page.wsConnected ~> page.loginReady \/ cut \cap {"start", "replaced", "fetch", "public"} # {}
=============================================================================
