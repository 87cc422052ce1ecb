------------------------ MODULE ClientSchema_proofs ------------------------
(* Proof that a page that is told of all changes of the schema has the       *)
(* modules as they are on the server, for any connections and modules.       *)
EXTENDS Client_proofs

-----------------------------------------------------------------------------
(* What the functions of the page leave alone.                               *)

\* Only requests are sent, on open connections, and none is opened.
Asks(p, q) ==
    /\ \A l \in Links : q.link[l] = "open" => p.link[l] = "open"
    /\ \A w \in q.wire : w \in p.wire \/ (w.state = "asked" /\ w.meta = NoModules /\ p.link[w.on] = "open")

\* what the page knows of the schema
Shown(q, public, loaded, dates, modules, fetches) ==
    /\ q.publicLoaded = public /\ q.schemaLoaded = loaded
    /\ q.moduleIdMapMeta = dates /\ q.moduleIdMap = modules /\ q.fetches = fetches

SameSchema(p, q) == Shown(q, p.publicLoaded, p.schemaLoaded, p.moduleIdMapMeta, p.moduleIdMap, p.fetches)
Aside(p, q)      == SameSchema(p, q) /\ Asks(p, q)
SameWire(p, q)   == q.link = p.link /\ q.wire = p.wire

LEMMA AsksFirst ==
    ASSUME NEW p, NEW q, NEW r, Fits(r), Asks(p, q), Asks(q, r)
    PROVE  Asks(p, r)
<1>1. \A w \in r.wire : w.on \in Links
    BY PartsOfPage DEF Fits, Wires
<1> QED BY <1>1 DEF Asks

LEMMA AsideFirst ==
    ASSUME NEW p, NEW q, NEW r, Fits(r), Aside(p, q), Aside(q, r)
    PROVE  Aside(p, r)
BY AsksFirst DEF Aside, SameSchema, Shown

LEMMA SameIsAside ==
    ASSUME NEW p, NEW q, SameSchema(p, q), SameWire(p, q)
    PROVE  Aside(p, q)
BY DEF Aside, SameWire, Asks

LEMMA NothingAside ==
    ASSUME NEW p
    PROVE  Aside(p, p)
BY SameIsAside DEF SameSchema, SameWire, Shown

LEMMA ReadyAside ==
    ASSUME NEW p \in Page
    PROVE  Aside(p, Ready(p)) /\ Aside(p, [p EXCEPT !.loading = FALSE]) /\ Aside(p, SetInitErr(p))
<1> DEFINE q == [p EXCEPT !.loading = FALSE]
           r == [p EXCEPT !.appReady = TRUE, !.loading = FALSE, !.keys = 0]
<1>1. SameSchema(p, q) /\ SameWire(p, q)
    BY DEF Page, SameSchema, SameWire, Shown
<1>2. SameSchema(p, r) /\ SameWire(p, r)
    BY DEF Page, SameSchema, SameWire, Shown
<1>3. Ready(p) = r /\ SetInitErr(p) \in {p, q}
    BY DEF Ready, SetInitErr
<1> HIDE DEF q, r
<1>4. Aside(p, p) /\ Aside(p, q) /\ Aside(p, r)
    BY <1>1, <1>2, SameIsAside, NothingAside
<1> QED BY <1>3, <1>4 DEF q

LEMMA RejectAside ==
    ASSUME NEW p \in Page, NEW kind \in Kinds
    PROVE  Aside(p, Reject(p, kind))
<1>1. Reject(p, kind) \in {p, [p EXCEPT !.loading = FALSE], SetInitErr(p), Ready(p)}
  <2>1. p.isAdmin \in BOOLEAN
      BY PartsOfPage
  <2> QED BY <2>1 DEF Reject
<1> QED BY <1>1, ReadyAside, NothingAside

LEMMA SendAside ==
    ASSUME NEW p, Fits(p), NEW kind \in Kinds
    PROVE  Aside(p, Send(p, kind))
<1> DEFINE r == Stored(p, kind)
           q == Send(p, kind)
<1>1. p \in Page
    BY DEF Fits
<1>2. SameSchema(p, r) /\ SameWire(p, r)
    BY <1>1 DEF Stored, Page, SameSchema, SameWire, Shown
<1>3. Fits(r)
    BY StoredGoes
<1>4. CASE p.link[p.conn] = "connecting"
  <2>1. q \in {r, Reject(r, kind)}
      BY <1>4 DEF Send, Stored, Asked
  <2>2. r \in Page
      BY <1>3 DEF Fits
  <2> HIDE DEF r
  <2>3. Aside(p, r) /\ Aside(r, Reject(r, kind)) /\ Fits(Reject(r, kind))
      BY <1>2, <1>3, <2>2, SameIsAside, RejectAside, RejectGoes DEF Keeps
  <2>4. Aside(p, Reject(r, kind))
      BY <2>3, AsideFirst
  <2> QED BY <2>1, <2>3, <2>4 DEF q
<1>5. CASE p.link[p.conn] # "connecting"
  <2>1. q.wire = p.wire \cup Sent(p, kind) /\ q.link = p.link /\ q.fetches = p.fetches
      BY <1>5, SendDeparts DEF Departed, SameLinks
  <2>2. \A w \in Sent(p, kind) : w.state = "asked" /\ w.meta = NoModules /\ p.link[w.on] = "open"
      BY DEF Sent
  <2>3. Asks(p, q)
    <3> HIDE DEF q
    <3> QED BY <2>1, <2>2 DEF Asks
  <2>4. SameSchema(r, q)
    <3> DEFINE w == IF p.link[p.conn] # "open" THEN r.wire
                    ELSE r.wire \cup {[on |-> p.conn, id |-> NewId(p), kind |-> kind,
                                       state |-> "asked", meta |-> NoModules]}
               c == IF kind \in Blocking THEN r.blockingCount + 1 ELSE r.blockingCount
               b == IF kind \in Blocking /\ p.blockingCount = 0 THEN r.busyCounter + 1 ELSE r.busyCounter
    <3>1. q = [r EXCEPT !.wire = w, !.blockingCount = c, !.busyCounter = b]
        BY <1>5 DEF Send, Stored, Asked
    <3>2. r \in Page
        BY <1>3 DEF Fits
    <3> HIDE DEF r, q, w, c, b
    <3> QED BY <3>1, <3>2 DEF Page, SameSchema, Shown
  <2> QED BY <1>2, <2>3, <2>4 DEF Aside, SameSchema, Shown
<1> QED BY <1>4, <1>5

LEMMA ConnectAside ==
    ASSUME NEW p, Fits(p), FreeLinks(p) # {}
    PROVE  Aside(p, WsConnect(p))
<1> DEFINE l == CHOOSE l \in FreeLinks(p) : \A k \in FreeLinks(p) : l <= k
           f == [p.link EXCEPT ![l] = "connecting"]
           q == [p EXCEPT !.link = f, !.conn = l]
<1>1. p \in Page /\ p.link \in LinkStates
    BY PartsOfPage DEF Fits, LinkStates
<1>2. WsConnect(p) = q
    BY <1>1 DEF WsConnect
<1>3. \A k \in Links : f[k] = "open" => p.link[k] = "open"
    BY <1>1 DEF LinkStates
<1> HIDE DEF f, l
<1>4. SameSchema(p, q) /\ q.wire = p.wire /\ q.link = f
    BY <1>1 DEF Page, SameSchema, Shown
<1> HIDE DEF q
<1> QED BY <1>2, <1>3, <1>4 DEF Aside, Asks

LEMMA LoginReadyAside ==
    ASSUME NEW p, Fits(p)
    PROVE  Aside(p, LoginReady(p))
<1> DEFINE yes == TRUE
           q == [p EXCEPT !.loginReady = TRUE]
           r == [q EXCEPT !.loading = TRUE]
<1>1. p \in Page /\ p.loading \in BOOLEAN /\ p.token \in BOOLEAN /\ p.keys \in Nat /\ p.captions \in Nat
    BY PartsOfPage DEF Fits
<1>2. SameSchema(p, q) /\ SameWire(p, q) /\ SameSchema(p, r) /\ SameWire(p, r)
    BY <1>1 DEF Page, SameSchema, SameWire, Shown
<1>3. LoginReady(p) \in {q, Send(r, "authToken")}
    BY DEF LoginReady
<1>4. Fits(r)
  <2>1. r = WithLogin(p, yes, yes, p.token, p.keys, p.captions)
      BY <1>1, ReadyIsLogin
  <2>2. yes \in BOOLEAN
      OBVIOUS
  <2> HIDE DEF yes, r
  <2>3. HasLogin(p, r, yes, yes, p.token, p.keys, p.captions)
      BY <1>1, <2>1, <2>2, LoginServes
  <2> QED BY <2>3 DEF HasLogin, Serves
<1> HIDE DEF q, r
<1>5. Aside(p, q) /\ Aside(p, r)
    BY <1>2, SameIsAside
<1>6. Aside(r, Send(r, "authToken")) /\ Fits(Send(r, "authToken"))
    BY <1>4, SendAside, SendKeeps DEF Kinds, Blocking, Keeps
<1>7. Aside(p, Send(r, "authToken"))
    BY <1>5, <1>6, AsideFirst
<1> QED BY <1>3, <1>5, <1>7

\* The page goes on without a look at the schema.
LEMMA StateChange2Aside ==
    ASSUME NEW p, Fits(p), CanRun(p)
    PROVE  Aside(p, StateChange2(p))
<1>1. p.wsConnected \in BOOLEAN /\ p.publicLoaded \in BOOLEAN /\ p.loginReady \in BOOLEAN
    BY PartsOfPage DEF Fits
<1>2. CASE ~p.wsConnected
    BY <1>2, ConnectAside DEF StateChange2, CanRun
<1>3. CASE p.wsConnected
  <2>1. StateChange2(p) \in {Send(p, "public"), LoginReady(p), p}
      BY <1>3 DEF StateChange2
  <2> QED BY <2>1, SendAside, LoginReadyAside, NothingAside DEF Kinds
<1> QED BY <1>1, <1>2, <1>3

LEMMA CollectionsAside ==
    ASSUME NEW p, Fits(p), NEW kind \in {"start", "collections"}
    PROVE  Aside(p, UpdateCollections(p, kind))
<1>1. UpdateCollections(p, kind) \in {Send(p, kind), Ready(p), p}
    BY DEF UpdateCollections
<1>2. p \in Page /\ kind \in Kinds
    BY DEF Fits, Kinds
<1> QED BY <1>1, <1>2, SendAside, ReadyAside, NothingAside

LEMMA AppEnableAside ==
    ASSUME NEW p, Fits(p), login \in Case
    PROVE  Aside(p, AppEnable(p))
<1> DEFINE q == [p EXCEPT !.isAdmin = login.admin]
<1>1. p \in Page /\ p.publicLoaded \in BOOLEAN /\ p.schemaLoaded \in BOOLEAN /\ p.access \in BOOLEAN
      /\ p.moduleIdMapMeta \in Versions /\ p.moduleIdMap \in Versions /\ login.admin \in BOOLEAN
    BY PartsOfPage DEF Fits, Case
<1>2. SameSchema(p, q) /\ SameWire(p, q)
    BY <1>1 DEF Page, SameSchema, SameWire, Shown
<1>3. Fits(q)
  <2>1. q = WithSchema(p, p.publicLoaded, p.schemaLoaded, login.admin, p.access, p.moduleIdMapMeta, p.moduleIdMap)
      BY <1>1, AdminIsSchema
  <2> HIDE DEF q
  <2>2. Goes(p, q)
      BY <1>1, <2>1, SchemaGoes
  <2> QED BY <2>2 DEF Goes, Keeps
<1>4. AppEnable(p) \in {q, Send(q, "app")}
    BY DEF AppEnable
<1> HIDE DEF q
<1>5. Aside(p, q)
    BY <1>2, SameIsAside
<1>6. Aside(q, Send(q, "app")) /\ Fits(Send(q, "app"))
    BY <1>3, SendAside, SendKeeps DEF Kinds, Blocking, Keeps
<1> QED BY <1>4, <1>5, <1>6, AsideFirst

LEMMA ConfigAside ==
    ASSUME NEW p, Fits(p)
    PROVE  Aside(p, ConfigChanged(p))
<1> DEFINE q == IF p.isAdmin THEN Send(p, "config") ELSE p
<1>1. Aside(p, q) /\ Fits(q)
    BY SendAside, SendKeeps, NothingAside DEF Kinds, Blocking, Keeps
<1>2. ConfigChanged(p) = Send(q, "public")
    BY DEF ConfigChanged
<1> HIDE DEF q
<1>3. Aside(q, ConfigChanged(p)) /\ Fits(ConfigChanged(p))
    BY <1>1, <1>2, SendAside, SendKeeps DEF Kinds, Keeps
<1> QED BY <1>1, <1>3, AsideFirst

\* News other than that the schema is loaded.
LEMMA NewsAside ==
    ASSUME NEW p, Fits(p), NEW n \in Told, n.kind # "schemaLoaded"
    PROVE  Aside(p, BackendRequest(p, n))
<1>1. n.kind \in NewsKinds
    BY DEF Told
<1>2. CASE n.kind = "schemaLoading"
  <2> DEFINE q == [p EXCEPT !.busyCounter = @ + 1]
  <2>1. p \in Page
      BY DEF Fits
  <2>2. SameSchema(p, q) /\ SameWire(p, q)
      BY <2>1 DEF Page, SameSchema, SameWire, Shown
  <2>3. BackendRequest(p, n) = q
      BY <1>2 DEF BackendRequest
  <2> QED BY <2>2, <2>3, SameIsAside
<1>3. CASE n.kind = "configChanged"
    BY <1>3, ConfigAside DEF BackendRequest
<1>4. CASE n.kind = "collectionChanged"
  <2> DEFINE q == UpdateCollections(p, "collections")
  <2>1. BackendRequest(p, n) = ConfigChanged(q)
      BY <1>4 DEF BackendRequest
  <2>2. Aside(p, q) /\ Fits(q)
      BY CollectionsAside, CollectionsKeep DEF Keeps
  <2> HIDE DEF q
  <2>3. Aside(q, ConfigChanged(q)) /\ Fits(ConfigChanged(q))
      BY <2>2, ConfigAside, ConfigGoes DEF Goes, Keeps
  <2> QED BY <2>1, <2>2, <2>3, AsideFirst
<1>5. CASE n.kind = "reauthorized"
  <2>1. BackendRequest(p, n) \in {Send(p, "access"), p}
      BY <1>5 DEF BackendRequest
  <2> QED BY <2>1, SendAside, NothingAside DEF Kinds, Blocking
<1> QED BY <1>1, <1>2, <1>3, <1>4, <1>5 DEF NewsKinds

\* Responses other than the public data.
LEMMA ResolveAside ==
    ASSUME NEW p, Fits(p), login \in Case, NEW w \in Wires, w.kind # "public"
    PROVE  Aside(p, Resolve(p, w))
<1>1. p \in Page
    BY DEF Fits
<1>2. CASE w.kind = "authUser"
  <2> DEFINE q == [p EXCEPT !.token = TRUE, !.keys = IF p.appReady THEN @ ELSE @ + 1]
  <2>1. SameSchema(p, q) /\ SameWire(p, q)
      BY <1>1 DEF Page, SameSchema, SameWire, Shown
  <2>2. Resolve(p, w) = q
      BY <1>2 DEF Resolve
  <2> QED BY <2>1, <2>2, SameIsAside
<1>3. CASE w.kind = "authToken"
    BY <1>3, AppEnableAside DEF Resolve
<1>4. CASE w.kind = "app"
  <2> DEFINE q == [p EXCEPT !.access = login.collections, !.captions = @ + 1]
  <2>1. SameSchema(p, q) /\ SameWire(p, q)
      BY <1>1 DEF Page, SameSchema, SameWire, Shown
  <2>2. Resolve(p, w) = q
      BY <1>4 DEF Resolve
  <2> QED BY <2>1, <2>2, SameIsAside
<1>5. CASE w.kind = "start"
    BY <1>1, <1>5, ReadyAside DEF Resolve
<1>6. CASE w.kind = "access"
    BY <1>6, CollectionsAside DEF Resolve
<1>7. CASE w.kind \notin {"public", "authUser", "authToken", "app", "start", "access"}
  <2>1. Resolve(p, w) = p
      BY <1>7 DEF Resolve
  <2> QED BY <2>1, NothingAside
<1> QED BY <1>2, <1>3, <1>4, <1>5, <1>6, <1>7

-----------------------------------------------------------------------------
(* What the page knows when it has looked at the schema.                     *)

\* the modules of the page with those that were downloaded
Received(p, get, got) == [m \in Modules |-> IF m \in get THEN got[m] ELSE p.moduleIdMap[m]]

LEMMA SchemaDoneShows ==
    ASSUME NEW p, Fits(p), CanRun(p), NEW new \in Versions, NEW get, NEW got \in Versions
    PROVE  LET q == SchemaDone(p, new, get, got)
           IN  Shown(q, p.publicLoaded, TRUE, new, Received(p, get, got), p.fetches) /\ Asks(p, q)
<1> DEFINE yes == TRUE
           f == Received(p, get, got)
           s == [p EXCEPT !.moduleIdMap = f, !.moduleIdMapMeta = new, !.schemaLoaded = yes]
           r == StateChange2(s)
           q == [r EXCEPT !.busyCounter = @ - 1]
<1>1. /\ p \in Page /\ p.publicLoaded \in BOOLEAN /\ p.isAdmin \in BOOLEAN /\ p.access \in BOOLEAN
      /\ p.moduleIdMap \in Versions
    BY PartsOfPage DEF Fits
<1>2. f \in Versions /\ yes \in BOOLEAN
    BY <1>1 DEF Received, Versions
<1>3. SchemaDone(p, new, get, got) = q
    BY <1>1 DEF SchemaDone, Received
<1>4. s = WithSchema(p, p.publicLoaded, yes, p.isAdmin, p.access, new, f)
    BY <1>1, SchemaIsStored
<1> HIDE DEF f
<1>5. Shown(s, p.publicLoaded, yes, new, f, p.fetches) /\ SameWire(p, s)
    BY <1>1 DEF Page, Shown, SameWire
<1> HIDE DEF yes, s
<1>6. GoesBy(p, s, 0)
    BY <1>1, <1>2, <1>4, SchemaGoes, GoesByNone
<1>7. Fits(s) /\ CanRun(s)
    BY <1>6, CanStillRun DEF GoesBy, KeepsBy
<1>8. Aside(s, r) /\ Fits(r)
    BY <1>7, StateChange2Aside, StateChange2Runs DEF Runs, KeepsBy
<1> HIDE DEF r
<1>9. SameSchema(r, q) /\ SameWire(r, q)
    BY <1>8 DEF Fits, Page, SameSchema, SameWire, Shown
<1> HIDE DEF q
<1>10. Shown(q, p.publicLoaded, yes, new, f, p.fetches)
    BY <1>5, <1>8, <1>9 DEF Aside, SameSchema, Shown
<1>11. Asks(p, q)
    BY <1>5, <1>8, <1>9 DEF Aside, SameWire, Asks
<1> QED BY <1>3, <1>10, <1>11 DEF yes, f

\* initSchema: the modules are there, or those that are not are downloaded.
LEMMA InitSchemaShows ==
    ASSUME NEW p, Fits(p), CanRun(p), NEW new \in Versions, ~InitSchema(p, new).threw
    PROVE  LET q   == InitSchema(p, new)
               get == ModulesFetch(p, new)
           IN  /\ Asks(p, q)
               /\ get = {} => Shown(q, p.publicLoaded, TRUE, new, Kept(p, new), p.fetches)
               /\ get # {} => Shown(q, p.publicLoaded, p.schemaLoaded, p.moduleIdMapMeta, Kept(p, new),
                                    p.fetches \cup {FetchOf(p, new)})
<1> DEFINE busy == Busier(p, 1)
           f    == Kept(p, new)
           kept == [busy EXCEPT !.moduleIdMap = f]
           get  == ModulesFetch(p, new)
           one  == FetchOf(p, new)
           q    == InitSchema(p, new)
<1>1. p \in Page /\ p.moduleIdMap \in Versions
    BY PartsOfPage DEF Fits
<1>2. f \in Versions /\ NoModules \in Versions
    BY <1>1 DEF Kept, NoModules, Versions
<1>3. q = IF MetaUndefined(p, new) THEN [busy EXCEPT !.threw = TRUE]
          ELSE IF get = {} THEN SchemaDone(kept, new, {}, NoModules)
          ELSE [kept EXCEPT !.fetches = @ \cup {one}]
    BY <1>1, InitSchemaIs
<1>4. GoesBy(p, busy, 1)
    BY BusierGoes
<1>5. SameSchema(p, busy) /\ SameWire(p, busy)
    BY <1>1 DEF Busier, Page, SameSchema, SameWire, Shown
<1> HIDE DEF busy, f, get, one, q
<1>6. Fits(busy) /\ CanRun(busy) /\ busy \in Page
    BY <1>4, CanStillRun DEF GoesBy, KeepsBy, Fits
<1>7. ~MetaUndefined(p, new)
  <2>1. [busy EXCEPT !.threw = TRUE].threw
      BY <1>6 DEF Page
  <2> QED BY <1>3, <2>1 DEF q
<1>8. GoesBy(busy, kept, 0)
  <2>1. /\ busy.publicLoaded \in BOOLEAN /\ busy.schemaLoaded \in BOOLEAN
        /\ busy.isAdmin \in BOOLEAN /\ busy.access \in BOOLEAN /\ busy.moduleIdMapMeta \in Versions
      BY <1>6, PartsOfPage
  <2>2. kept = WithSchema(busy, busy.publicLoaded, busy.schemaLoaded, busy.isAdmin, busy.access, busy.moduleIdMapMeta, f)
      BY <1>6, SchemaIsStored
  <2> HIDE DEF kept
  <2> QED BY <1>2, <1>6, <2>1, <2>2, SchemaGoes, GoesByNone
<1>9. Shown(kept, p.publicLoaded, p.schemaLoaded, p.moduleIdMapMeta, f, p.fetches) /\ SameWire(p, kept)
    BY <1>5, <1>6 DEF Page, SameSchema, SameWire, Shown
<1> HIDE DEF kept
<1>10. Fits(kept) /\ CanRun(kept) /\ kept \in Page
    BY <1>6, <1>8, CanStillRun DEF GoesBy, KeepsBy, Fits
<1>11. CASE get = {}
  <2> DEFINE yes == TRUE
             none == {}
  <2>1. q = SchemaDone(kept, new, none, NoModules)
      BY <1>3, <1>7, <1>11
  <2>2. Received(kept, none, NoModules) = f
      BY <1>2, <1>9 DEF Received, Shown, Versions
  <2> HIDE DEF none
  <2>3. Shown(q, kept.publicLoaded, yes, new, f, kept.fetches) /\ Asks(kept, q)
      BY <1>2, <1>10, <2>1, <2>2, SchemaDoneShows
  <2> HIDE DEF yes
  <2>4. Shown(q, p.publicLoaded, yes, new, f, p.fetches) /\ Asks(p, q)
      BY <1>9, <2>3 DEF Shown, SameWire, Asks
  <2> QED BY <1>11, <2>4 DEF q, f, get, yes
<1>12. CASE get # {}
  <2>1. q = [kept EXCEPT !.fetches = @ \cup {one}]
      BY <1>3, <1>7, <1>12
  <2>2. Shown(q, p.publicLoaded, p.schemaLoaded, p.moduleIdMapMeta, f, p.fetches \cup {one}) /\ SameWire(p, q)
      BY <1>9, <1>10, <2>1 DEF Page, Shown, SameWire
  <2>3. Asks(p, q)
      BY <2>2 DEF SameWire, Asks
  <2> QED BY <1>12, <2>2, <2>3 DEF q, f, get, one
<1> QED BY <1>11, <1>12

-----------------------------------------------------------------------------
(* The modules the page has, or downloads.                                   *)

\* A download is of modules that are not known in the version asked for; the others are.
FetchFits(modules, f) ==
    \A m \in Modules :
        /\ f.new[m] = 0 => m \notin f.get /\ modules[m] = 0
        /\ f.new[m] # 0 /\ m \notin f.get => modules[m] # 0 /\ f.new[m] <= modules[m]
        /\ m \in f.get => f.got[m] = 0 \/ f.new[m] <= f.got[m]

\* modules are there in a version that is not older than their date of change
ModulesAre(modules, dates) ==
    \A m \in Modules : (dates[m] = 0 <=> modules[m] = 0) /\ dates[m] <= modules[m]

\* If nothing is downloaded, the modules are those of the dates of change.
ModulesFit(p) ==
    /\ ~p.schemaLoaded => p.moduleIdMap = NoModules
    /\ p.schemaLoaded /\ p.fetches = {} => ModulesAre(p.moduleIdMap, p.moduleIdMapMeta)
    /\ \A f, g \in p.fetches : f = g
    /\ \A f \in p.fetches : FetchFits(p.moduleIdMap, f)

\* the page has the dates of change v, or downloads their modules
Knows(p, v) ==
    \/ p.fetches = {} /\ p.schemaLoaded /\ p.moduleIdMapMeta = v
    \/ \E f \in p.fetches : f.new = v

\* no version is later than what was told, or than what the server hands out
Dated(v, t, j) == \A m \in Modules : v[m] <= t /\ (j[m] # 0 => v[m] <= j[m])

PageDated(p, t, j) ==
    /\ Dated(p.moduleIdMap, t, j) /\ Dated(p.moduleIdMapMeta, t, j)
    /\ \A w \in p.wire : Dated(w.meta, t, j)
    /\ \A n \in p.news : Dated(n.meta, t, j)
    /\ \A f \in p.fetches : Dated(f.new, t, j) /\ Dated(f.got, t, j)

LEMMA NoneDated ==
    ASSUME NEW t \in Nat, NEW j \in Versions
    PROVE  Dated(NoModules, t, j)
BY DEF Dated, NoModules, Versions

LEMMA DatedAfter ==
    ASSUME NEW p, NEW q, NEW t \in Nat, NEW j \in Versions, PageDated(p, t, j), Asks(p, q), q.news \subseteq p.news,
           Dated(q.moduleIdMap, t, j), Dated(q.moduleIdMapMeta, t, j),
           \A f \in q.fetches : Dated(f.new, t, j) /\ Dated(f.got, t, j)
    PROVE  PageDated(q, t, j)
BY NoneDated DEF PageDated, Asks

\* initSchema, when nothing is downloaded: the page has the modules of these dates, or
\* downloads what it has not.
LEMMA InitSchemaFits ==
    ASSUME NEW p, Fits(p), CanRun(p), NEW new \in Versions, ~InitSchema(p, new).threw,
           p.fetches = {}, ModulesFit(p)
    PROVE  LET q == InitSchema(p, new)
           IN  ModulesFit(q) /\ Knows(q, new) /\ q.publicLoaded = p.publicLoaded
<1> DEFINE q   == InitSchema(p, new)
           get == ModulesFetch(p, new)
           f   == Kept(p, new)
           one == FetchOf(p, new)
<1>1. /\ get = {} => Shown(q, p.publicLoaded, TRUE, new, f, p.fetches)
      /\ get # {} => Shown(q, p.publicLoaded, p.schemaLoaded, p.moduleIdMapMeta, f, p.fetches \cup {one})
    BY InitSchemaShows
<1>2. /\ p.moduleIdMap \in Versions /\ p.moduleIdMapMeta \in Versions /\ p.schemaLoaded \in BOOLEAN
    BY PartsOfPage DEF Fits
<1>3. \A m \in Modules : m \in get <=> new[m] # 0 /\ (p.moduleIdMap[m] = 0 \/ p.moduleIdMapMeta[m] # new[m])
    BY DEF ModulesFetch
<1>4. f \in Versions /\ \A m \in Modules :
        f[m] = IF p.moduleIdMapMeta[m] # 0 /\ new[m] = 0 THEN 0 ELSE p.moduleIdMap[m]
    BY <1>2 DEF Kept, Versions
<1>5. one.new = new /\ one.get = get /\ one.got = NoModules
    BY DEF FetchOf
<1> HIDE DEF q, get, f, one
<1>6. ASSUME NEW m \in Modules
      PROVE  /\ new[m] = 0 => m \notin get /\ f[m] = 0
             /\ new[m] # 0 /\ m \notin get => f[m] # 0 /\ new[m] <= f[m]
  <2>1. new[m] \in Nat /\ p.moduleIdMap[m] \in Nat /\ p.moduleIdMapMeta[m] \in Nat
      BY <1>2 DEF Versions
  <2>2. CASE p.schemaLoaded
    <3>1. (p.moduleIdMapMeta[m] = 0 <=> p.moduleIdMap[m] = 0) /\ p.moduleIdMapMeta[m] <= p.moduleIdMap[m]
        BY <2>2 DEF ModulesFit, ModulesAre
    <3> QED BY <1>3, <1>4, <2>1, <3>1
  <2>3. CASE ~p.schemaLoaded
    <3>1. p.moduleIdMap[m] = 0
        BY <2>3 DEF ModulesFit, NoModules
    <3> QED BY <1>3, <1>4, <2>1, <3>1
  <2> QED BY <2>2, <2>3
<1>7. CASE get = {}
  <2>1. Shown(q, p.publicLoaded, TRUE, new, f, p.fetches)
      BY <1>1, <1>7
  <2>2. ModulesAre(f, new)
    <3>1. ASSUME NEW m \in Modules PROVE (new[m] = 0 <=> f[m] = 0) /\ new[m] <= f[m]
      <4>1. new[m] \in Nat /\ f[m] \in Nat
          BY <1>4 DEF Versions
      <4> QED BY <1>6, <1>7, <4>1
    <3> QED BY <3>1 DEF ModulesAre
  <2> QED BY <2>1, <2>2 DEF Shown, ModulesFit, Knows, q
<1>8. CASE get # {}
  <2>1. Shown(q, p.publicLoaded, p.schemaLoaded, p.moduleIdMapMeta, f, {one})
      BY <1>1, <1>8
  <2>2. FetchFits(f, one)
    <3>1. \A m \in Modules : NoModules[m] = 0
        BY DEF NoModules
    <3> QED BY <1>5, <1>6, <3>1 DEF FetchFits
  <2>3. ~p.schemaLoaded => f = NoModules
    <3> SUFFICES ASSUME ~p.schemaLoaded PROVE f = NoModules
        OBVIOUS
    <3>1. p.moduleIdMap = NoModules
        BY DEF ModulesFit
    <3>2. \A m \in Modules : f[m] = 0
        BY <1>4, <3>1 DEF NoModules
    <3> QED BY <1>4, <3>2 DEF Versions, NoModules
  <2> QED BY <1>5, <2>1, <2>2, <2>3 DEF Shown, ModulesFit, Knows, q
<1> QED BY <1>7, <1>8

LEMMA InitSchemaDated ==
    ASSUME NEW p, Fits(p), CanRun(p), NEW new \in Versions, ~InitSchema(p, new).threw,
           NEW t \in Nat, NEW j \in Versions, PageDated(p, t, j), Dated(new, t, j)
    PROVE  PageDated(InitSchema(p, new), t, j) /\ Asks(p, InitSchema(p, new))
<1> DEFINE q   == InitSchema(p, new)
           get == ModulesFetch(p, new)
           f   == Kept(p, new)
           one == FetchOf(p, new)
<1>1. /\ get = {} => Shown(q, p.publicLoaded, TRUE, new, f, p.fetches)
      /\ get # {} => Shown(q, p.publicLoaded, p.schemaLoaded, p.moduleIdMapMeta, f, p.fetches \cup {one})
      /\ Asks(p, q)
    BY InitSchemaShows
<1>2. Dated(f, t, j)
    BY DEF PageDated, Dated, Kept, Versions
<1>3. one.new = new /\ one.got = NoModules
    BY DEF FetchOf
<1>4. q.news = p.news
    BY InitSchemaRuns DEF Runs, KeepsBy
<1> HIDE DEF q, get, f, one
<1>5. q.moduleIdMap = f /\ q.moduleIdMapMeta \in {new, p.moduleIdMapMeta} /\ q.fetches \subseteq p.fetches \cup {one}
    BY <1>1 DEF Shown
<1>6. PageDated(q, t, j)
    BY <1>1, <1>2, <1>3, <1>4, <1>5, DatedAfter, NoneDated DEF PageDated
<1> QED BY <1>1, <1>6 DEF q

-----------------------------------------------------------------------------
(* What the page knows of, and what is on its way.                           *)

\* responses with public data, which have the dates of change
Publics(p) == {w \in p.wire : w.on = p.conn /\ w.kind = "public" /\ w.state = "done"}

\* the page knows of the dates of change v, or is about to be told
Informed(p, v, c) == Knows(p, v) \/ c = "dated" \/ \E n \in Loaded(p) : n.meta = v

\* A page with public data is informed, and one that gets them has by then been so, or
\* the data are current.  Old news are followed by later ones.
Hears(p, v, c) ==
    /\ p.publicLoaded => p.link[p.conn] = "open" /\ Informed(p, v, c)
    /\ \A w \in Publics(p) : w.meta = v \/ Informed(p, v, c)
    /\ \A n \in Loaded(p) : n.meta = v \/ c = "dated" \/ \E k \in Loaded(p) : k.nr > n.nr /\ k.meta = v

\* requests are on connections that were open
WireFit(p) == \A w \in p.wire : p.link[w.on] \in {"open", "closing"}

Current ==
    /\ Dated(json, told, json) /\ Dated(meta, told, json) /\ PageDated(page, told, json)
    /\ WireFit(page) /\ ModulesFit(page) /\ Hears(page, meta, change)

LEMMA WireMoved ==
    ASSUME NEW p, NEW q, Fits(p), Fits(q), WireFit(p), Asks(p, q), Stays(p, q) \/ Connects(p, q)
    PROVE  WireFit(q)
<1>1. p.link \in LinkStates /\ q.wire \subseteq Wires
    BY PartsOfPage DEF Fits, LinkStates
<1>2. ASSUME NEW l \in Links, p.link[l] \in {"open", "closing"} PROVE q.link[l] = p.link[l]
    BY <1>1, <1>2 DEF Stays, Connects, LinkStates
<1>3. ASSUME NEW w \in q.wire PROVE p.link[w.on] \in {"open", "closing"}
    BY <1>3 DEF WireFit, Asks
<1> QED BY <1>1, <1>2, <1>3 DEF WireFit, Wires

\* nothing is heard on a connection that is not there
LEMMA NothingHeard ==
    ASSUME NEW p, NEW c, NEW t, Fits(p), WireFit(p), NewsFit(p, c, t), p.link[p.conn] \notin {"open", "closing"}
    PROVE  Publics(p) = {} /\ Loaded(p) = {}
BY DEF WireFit, NewsFit, Publics, Loaded

\* what is kept of the schema by a step that does not look at it
Keeps4(p, q) ==
    /\ q.schemaLoaded = p.schemaLoaded /\ q.moduleIdMapMeta = p.moduleIdMapMeta
    /\ q.moduleIdMap = p.moduleIdMap /\ q.fetches = p.fetches

LEMMA QuietCurrent ==
    ASSUME Base, Current, UNCHANGED <<json, meta, change, told>>,
           Asks(page, page'), page'.news \subseteq page.news, WireFit(page'), Keeps4(page, page'),
           page'.publicLoaded => page.publicLoaded /\ page'.link[page'.conn] = "open",
           \/ page'.conn = page.conn /\ Loaded(page') = Loaded(page)
           \/ Loaded(page') = {} /\ Publics(page') = {} /\ ~page'.publicLoaded
    PROVE  Current'
<1>1. told \in Nat /\ json \in Versions
    BY DEF Base, TypeOK
<1>2. PageDated(page', told', json')
  <2>1. PageDated(page, told, json)
      BY DEF Current
  <2>2. PageDated(page', told, json)
      BY <1>1, <2>1, DatedAfter DEF Keeps4, PageDated
  <2> QED BY <2>2
<1>3. ModulesFit(page')
    BY DEF Current, ModulesFit, Keeps4
<1>4. Knows(page', meta) <=> Knows(page, meta)
    BY DEF Knows, Keeps4
<1>5. Hears(page', meta, change)
  <2>1. CASE page'.conn = page.conn /\ Loaded(page') = Loaded(page)
    <3>1. Publics(page') \subseteq Publics(page)
        BY <2>1 DEF Publics, Asks
    <3>2. Informed(page', meta, change) <=> Informed(page, meta, change)
        BY <1>4, <2>1 DEF Informed
    <3> QED BY <2>1, <3>1, <3>2 DEF Current, Hears
  <2>2. CASE Loaded(page') = {} /\ Publics(page') = {} /\ ~page'.publicLoaded
      BY <2>2 DEF Hears
  <2> QED BY <2>1, <2>2
<1> QED BY <1>2, <1>3, <1>5 DEF Current

\* The actions that only call functions of the page, and not initSchema.
LEMMA AsideCurrent ==
    ASSUME Base, OneLink(page), Current, Acts, Aside(page, page'), UNCHANGED <<json, meta>>, "replaced" \notin cut'
    PROVE  Current'
<1>1. Fits(page) /\ Fits(page') /\ page'.news = page.news /\ UNCHANGED <<change, told>>
    BY DEF Base, Acts, KeepsBy, Serves
<1>2. Stays(page, page') \/ (Connects(page, page') /\ page'.conn = page.conn)
    BY DEF Acts, Moved
<1>3. page'.conn = page.conn /\ (page'.link[page'.conn] = "open" <=> page.link[page.conn] = "open")
    BY <1>1, <1>2, MovedLinks
<1>4. Asks(page, page') /\ Keeps4(page, page') /\ page'.publicLoaded = page.publicLoaded
    BY DEF Aside, SameSchema, Shown, Keeps4
<1>5. WireFit(page')
    BY <1>1, <1>2, <1>4, WireMoved DEF Current
<1>6. Loaded(page') = Loaded(page)
    BY <1>1, <1>3 DEF Loaded
<1> QED BY <1>1, <1>3, <1>4, <1>5, <1>6, QuietCurrent DEF Current, Hears

\* what the page waits for beside requests and modules
User == KeysDerived \/ CaptionsLoaded \/ CaptionsFail \/ CaptionsLost

LEMMA UserAside ==
    ASSUME TypeOK, Fits(page), User \/ Login \/ Query \/ Cancel
    PROVE  Aside(page, page')
<1>1. page \in Page /\ login \in Case
    BY DEF Fits, TypeOK
<1>2. CASE KeysDerived
  <2> DEFINE q == [page EXCEPT !.keys = @ - 1]
  <2>1. page.keys > 0 /\ page' = AppEnable(q)
      BY <1>2 DEF KeysDerived
  <2>2. SameSchema(page, q) /\ SameWire(page, q)
      BY <1>1 DEF Page, SameSchema, SameWire, Shown
  <2>3. Fits(q)
      BY <2>1, LoginIs DEF Serves
  <2> HIDE DEF q
  <2>4. Aside(page, q) /\ Aside(q, page') /\ Fits(page')
      BY <1>1, <2>1, <2>2, <2>3, SameIsAside, AppEnableAside, AppEnableGoes DEF Goes, Keeps
  <2> QED BY <2>4, AsideFirst
<1>3. CASE CaptionsLoaded
  <2> DEFINE q == [page EXCEPT !.captions = @ - 1]
  <2>1. page.captions > 0 /\ page' = UpdateCollections(q, "start")
      BY <1>3 DEF CaptionsLoaded
  <2>2. SameSchema(page, q) /\ SameWire(page, q)
      BY <1>1 DEF Page, SameSchema, SameWire, Shown
  <2>3. Fits(q)
      BY <2>1, LoginIs DEF Serves
  <2> HIDE DEF q
  <2>4. Aside(page, q) /\ Aside(q, page') /\ Fits(page')
      BY <2>1, <2>2, <2>3, SameIsAside, CollectionsAside, CollectionsKeep DEF Keeps
  <2> QED BY <2>4, AsideFirst
<1>7. CASE CaptionsFail \/ CaptionsLost
  <2> DEFINE q == [page EXCEPT !.captions = @ - 1]
  <2>1. page.captions > 0 /\ page' \in {q, SetInitErr(q)}
      BY <1>7 DEF CaptionsFail, CaptionsLost
  <2>2. SameSchema(page, q) /\ SameWire(page, q)
      BY <1>1 DEF Page, SameSchema, SameWire, Shown
  <2>3. Fits(q)
      BY <2>1, LoginIs DEF Serves
  <2> HIDE DEF q
  <2>4. q \in Page
      BY <2>3 DEF Fits
  <2>5. Aside(page, q) /\ Aside(q, SetInitErr(q)) /\ Fits(SetInitErr(q))
      BY <2>2, <2>3, <2>4, SameIsAside, ReadyAside, ErrorGoes DEF Goes, Keeps
  <2>6. Aside(page, SetInitErr(q))
      BY <2>5, AsideFirst
  <2> QED BY <2>1, <2>5, <2>6
<1>4. CASE Login
  <2> DEFINE q == [page EXCEPT !.loading = TRUE]
  <2>1. page' = Send(q, "authUser")
      BY <1>4 DEF Login
  <2>2. SameSchema(page, q) /\ SameWire(page, q)
      BY <1>1 DEF Page, SameSchema, SameWire, Shown
  <2>3. Fits(q)
      BY LoginIs DEF Serves
  <2> HIDE DEF q
  <2>4. Aside(page, q) /\ Aside(q, page') /\ Fits(page')
      BY <2>1, <2>2, <2>3, SameIsAside, SendAside, SendKeeps DEF Kinds, Blocking, Keeps
  <2> QED BY <2>4, AsideFirst
<1>5. CASE Query
    BY <1>5, SendAside DEF Query, Kinds, Blocking
<1>6. CASE Cancel
  <2>1. page' = [page EXCEPT !.blockingCount = 0, !.transactions = {}, !.busyCounter = @ - 1]
      BY <1>6 DEF Cancel, Clear
  <2>2. SameSchema(page, page') /\ SameWire(page, page')
      BY <1>1, <2>1 DEF Page, SameSchema, SameWire, Shown
  <2> QED BY <2>2, SameIsAside
<1> QED BY <1>2, <1>3, <1>4, <1>5, <1>6, <1>7 DEF User

LEMMA UserCurrent ==
    ASSUME Base, OneLink(page), Current, "replaced" \notin cut',
           User \/ Login \/ Query \/ Cancel
    PROVE  Current'
<1>1. TypeOK /\ Fits(page)
    BY DEF Base
<1>2. Acts /\ Aside(page, page')
    BY <1>1, UserAside, KeysActs, CaptionsActs, CaptionsFailActs, CaptionsLostActs, LoginActs, QueryActs, CancelActs
       DEF User
<1>3. UNCHANGED <<json, meta>>
    BY DEF User, KeysDerived, CaptionsLoaded, CaptionsFail, CaptionsLost, Login, Query, Cancel, server
<1> QED BY <1>2, <1>3, AsideCurrent

\* the page before the promise of a response ends
LEMMA UnblockAside ==
    ASSUME NEW p, Fits(p), NEW calls \in SUBSET p.transactions, NEW wire \in SUBSET p.wire, NEW kind
    PROVE  LET q == Unblock(WithCalls(p, calls, wire), kind)
           IN  Fits(q) /\ Aside(p, q) /\ q.link = p.link /\ q.conn = p.conn /\ q.wire = wire
<1> DEFINE r == WithCalls(p, calls, wire)
           q == Unblock(r, kind)
           s == [r EXCEPT !.blockingCount = @ - 1]
           t == [r EXCEPT !.blockingCount = 0, !.busyCounter = @ - 1]
<1>1. p \in Page
    BY DEF Fits
<1>2. SameSchema(p, r) /\ r.link = p.link /\ r.conn = p.conn /\ r.wire = wire
    BY <1>1 DEF WithCalls, Page, SameSchema, Shown
<1>3. Fits(r)
    BY FewerCallsFit
<1>4. q \in {r, s, t}
    BY DEF Unblock
<1> HIDE DEF r
<1>5. Fits(q)
    BY <1>3, UnblockIs
<1>6. SameSchema(r, s) /\ SameWire(r, s) /\ s.conn = r.conn
    BY <1>3 DEF Fits, Page, SameSchema, SameWire, Shown
<1>7. SameSchema(r, t) /\ SameWire(r, t) /\ t.conn = r.conn
    BY <1>3 DEF Fits, Page, SameSchema, SameWire, Shown
<1> HIDE DEF q, s, t
<1>8. SameSchema(p, q) /\ q.link = p.link /\ q.conn = p.conn /\ q.wire = wire
    BY <1>2, <1>4, <1>6, <1>7 DEF SameSchema, SameWire, Shown
<1>9. Asks(p, q)
    BY <1>8 DEF Asks
<1> QED BY <1>5, <1>8, <1>9 DEF Aside, q, r

\* A response that does not bring the public data, or is of no transaction.
LEMMA ReceiveAside ==
    ASSUME TypeOK, Fits(page), NEW w \in page.wire, Receive(w),
           w.kind # "public" \/ w.state # "done" \/ CallsOf(page, w) = {}
    PROVE  Aside(page, page')
<1> DEFINE t == CallsOf(page, w)
           r == WithCalls(page, page.transactions \ t, page.wire \ {w})
           q == Unblock(r, w.kind)
           ok == IF w.kind \in Timed THEN w.state = "done" ELSE w.on \in auth
<1>1. page' = IF t = {} THEN r ELSE IF ok THEN Resolve(q, w) ELSE Reject(q, w.kind)
    BY DEF Receive, CallsOf, WithCalls
<1>2. w \in Wires /\ w.kind \in Kinds /\ login \in Case /\ page \in Page
    BY PartsOfPage DEF Fits, TypeOK, Wires
<1>3. CanRun(page)
    BY DEF Receive, CanGoOn, CanRun
<1>4. CASE t = {}
  <2>1. page' = [page EXCEPT !.wire = page.wire \ {w}, !.transactions = page.transactions \ t]
      BY <1>1, <1>4 DEF WithCalls
  <2>2. SameSchema(page, page') /\ page'.link = page.link /\ page'.wire = page.wire \ {w}
      BY <1>2, <2>1 DEF Page, SameSchema, Shown
  <2> QED BY <2>2 DEF Aside, Asks
<1>5. CASE t # {}
  <2>1. Fits(q) /\ Aside(page, q)
      BY UnblockAside
  <2>2. page' = IF ok THEN Resolve(q, w) ELSE Reject(q, w.kind)
      BY <1>1, <1>5
  <2>3. ok => w.kind # "public"
      BY <1>5 DEF Timed
  <2> HIDE DEF q, ok, t
  <2>4. Aside(q, page')
    <3>1. q \in Page
        BY <2>1 DEF Fits
    <3> QED BY <1>2, <2>1, <2>2, <2>3, <3>1, ResolveAside, RejectAside
  <2>5. Fits(page')
      BY ReceiveActs DEF Acts, KeepsBy, Serves
  <2> QED BY <2>1, <2>4, <2>5, AsideFirst
<1> QED BY <1>4, <1>5

\* what is heard stays so, as long as the page is informed
LEMMA StillHears ==
    ASSUME NEW p, NEW q, NEW v, NEW c, Hears(p, v, c), Publics(q) \subseteq Publics(p), Loaded(q) = Loaded(p),
           Informed(p, v, c) => Informed(q, v, c),
           q.publicLoaded => q.link[q.conn] = "open" /\ Informed(q, v, c)
    PROVE  Hears(q, v, c)
BY DEF Hears

\* The public data are received.  What they say of the modules is looked at only the first
\* time; later it is what the page knows, or is noted.
LEMMA PublicCurrent ==
    ASSUME Base, OneLink(page), Current, ~page'.threw, NEW w \in page.wire, Receive(w),
           w.kind = "public", w.state = "done", CallsOf(page, w) # {},
           cut' \cap {"dates", "overlap", "replaced"} = {}
    PROVE  Current'
<1> DEFINE q == Unblock(WithCalls(page, page.transactions \ CallsOf(page, w), page.wire \ {w}), w.kind)
           r == [q EXCEPT !.moduleIdMapMeta = w.meta, !.publicLoaded = TRUE]
<1>1. TypeOK /\ Fits(page) /\ told \in Nat /\ json \in Versions
    BY DEF Base, TypeOK
<1>2. w \in Wires /\ w.meta \in Versions /\ w.on \in Links
    BY <1>1, PartsOfPage DEF Fits, Wires
<1>3. page.link[w.on] = "open" /\ CanRun(page) /\ UNCHANGED <<auth, json, meta, change, told, login>>
    BY DEF Receive, CanGoOn, CanRun, server
<1>4. page.fetches = {} /\ page'.conn = page.conn /\ (page.schemaLoaded => page'.moduleIdMapMeta = page.moduleIdMapMeta)
    BY DEF Receive, Note, Replaced, DatesOnly, Overlap
<1>5. w.on = page.conn
    BY <1>2, <1>3 DEF OneLink
<1>6. page' = StateChange(r)
  <2>1. page' = Resolve(q, w)
      BY DEF Receive, CallsOf, WithCalls, Timed
  <2> QED BY <2>1 DEF Resolve
<1>7. /\ Fits(q) /\ Aside(page, q) /\ q.link = page.link /\ q.conn = page.conn /\ q.wire = page.wire \ {w}
    BY <1>1, UnblockAside
<1> HIDE DEF q
<1>8. /\ Shown(r, TRUE, page.schemaLoaded, w.meta, page.moduleIdMap, {})
      /\ r.wire = q.wire /\ r.link = page.link /\ r.conn = page.conn /\ r.wsConnected = q.wsConnected
  <2>1. q \in Page
      BY <1>7 DEF Fits
  <2> QED BY <1>4, <1>7, <2>1 DEF Aside, SameSchema, Page, Shown
<1>9. Fits(r)
  <2> DEFINE yes == TRUE
  <2>1. /\ q \in Page /\ q.schemaLoaded \in BOOLEAN /\ q.isAdmin \in BOOLEAN /\ q.access \in BOOLEAN
        /\ q.moduleIdMap \in Versions /\ yes \in BOOLEAN
      BY <1>7, PartsOfPage DEF Fits
  <2>2. r = WithSchema(q, yes, q.schemaLoaded, q.isAdmin, q.access, w.meta, q.moduleIdMap)
      BY <2>1, SchemaIsStored
  <2> HIDE DEF yes, r
  <2>3. Goes(q, r)
      BY <1>2, <1>7, <2>1, <2>2, SchemaGoes
  <2> QED BY <2>3 DEF Goes, Keeps
<1> HIDE DEF r
<1>10. Acts /\ Fits(page') /\ page'.news = page.news /\ page'.wsConnected = page.wsConnected
    BY <1>1, ReceiveActs DEF Acts, KeepsBy, Serves
<1>11. Stays(page, page')
  <2>1. page.link \in LinkStates
      BY <1>1, PartsOfPage DEF Fits, LinkStates
  <2> QED BY <1>3, <1>4, <1>5, <1>10, <2>1 DEF Acts, Moved, Connects
<1>12. r.wsConnected \in BOOLEAN /\ CanRun(r)
  <2>1. r.wsConnected \in BOOLEAN
      BY <1>9, PartsOfPage DEF Fits
  <2>2. page.wsConnected = q.wsConnected
    <3>1. Serves(page, q, 0)
        BY <1>1, AnsweredServes DEF Answered, q
    <3> QED BY <3>1 DEF Serves
  <2> QED BY <1>3, <1>8, <2>1, <2>2 DEF CanRun, FreeLinks
<1>13. r.wsConnected
  <2> SUFFICES ASSUME ~r.wsConnected PROVE FALSE
      BY <1>12
  <2>1. page' = WsConnect(r) /\ FreeLinks(r) # {}
      BY <1>6, <1>12 DEF StateChange, StateChange2, CanRun
  <2>2. Connects(r, page')
      BY <1>9, <2>1, ConnectRuns
  <2> QED BY <1>3, <1>4, <1>5, <1>8, <2>2 DEF Connects
<1>14. Dated(w.meta, told, json) /\ PageDated(r, told, json) /\ Asks(page, r)
  <2>1. PageDated(page, told, json)
      BY DEF Current
  <2>2. r.news = page.news
    <3>1. q.news = page.news
      <4>1. Serves(page, q, 0)
          BY <1>1, AnsweredServes DEF Answered, q
      <4> QED BY <4>1 DEF Serves
    <3>2. r.news = q.news
        BY <1>7 DEF r, Fits, Page
    <3> QED BY <3>1, <3>2
  <2>3. Asks(page, r)
      BY <1>7, <1>8 DEF Asks
  <2> QED BY <1>1, <1>8, <2>1, <2>2, <2>3, DatedAfter DEF PageDated, Shown
<1>15. ModulesFit(page') /\ PageDated(page', told, json) /\ Asks(page, page') /\ page'.publicLoaded
       /\ (Informed(page, meta, change) \/ w.meta = meta => Informed(page', meta, change))
  <2>1. CASE ~page.schemaLoaded
    <3>1. page' = InitSchema(r, w.meta)
        BY <1>6, <1>8, <1>13, <2>1 DEF StateChange, Shown
    <3>2. ModulesFit(r)
        BY <1>8, <2>1 DEF Current, ModulesFit, Shown
    <3>3. ModulesFit(page') /\ Knows(page', w.meta) /\ page'.publicLoaded = r.publicLoaded
        BY <1>2, <1>8, <1>9, <1>12, <3>1, <3>2, InitSchemaFits DEF Shown
    <3>4. PageDated(page', told, json) /\ Asks(r, page')
        BY <1>1, <1>2, <1>9, <1>12, <1>14, <3>1, InitSchemaDated
    <3>5. ~Knows(page, meta)
        BY <1>4, <2>1 DEF Knows
    <3>6. Loaded(page') = Loaded(page)
        BY <1>4, <1>10 DEF Loaded
    <3>7. Asks(page, page')
        BY <1>10, <1>14, <3>4, AsksFirst
    <3> QED BY <1>8, <3>3, <3>4, <3>5, <3>6, <3>7 DEF Informed, Shown
  <2>2. CASE page.schemaLoaded
    <3>1. page' = StateChange2(r)
        BY <1>6, <1>8, <2>2 DEF StateChange, Shown
    <3>2. Aside(r, page')
        BY <1>9, <1>12, <3>1, StateChange2Aside
    <3>3. Keeps4(page, page') /\ page'.publicLoaded /\ page'.moduleIdMapMeta = w.meta
        BY <1>4, <1>8, <2>2, <3>2 DEF Aside, SameSchema, Shown, Keeps4
    <3>4. ModulesFit(page')
        BY <3>3 DEF Current, ModulesFit, Keeps4
    <3>5. w.meta = meta \/ Knows(page, meta) => Knows(page', meta)
        BY <1>4, <2>2, <3>3 DEF Knows, Keeps4
    <3>6. Loaded(page') = Loaded(page)
        BY <1>4, <1>10 DEF Loaded
    <3>7. Asks(page, page')
        BY <1>10, <1>14, <3>2, AsksFirst DEF Aside
    <3>8. PageDated(page', told, json)
        BY <1>1, <1>10, <3>3, <3>7, DatedAfter DEF Current, PageDated, Keeps4
    <3> QED BY <3>3, <3>4, <3>5, <3>6, <3>7, <3>8 DEF Informed
  <2> QED BY <2>1, <2>2
<1>16. w \in Publics(page) /\ Hears(page, meta, change)
    BY <1>5 DEF Publics, Current
<1>17. Informed(page', meta, change)
    BY <1>15, <1>16 DEF Hears
<1>18. Loaded(page') = Loaded(page) /\ Publics(page') \subseteq Publics(page) /\ page'.link[page'.conn] = "open"
    BY <1>3, <1>4, <1>5, <1>10, <1>11, <1>15 DEF Loaded, Publics, Asks, Stays
<1>19. Hears(page', meta, change)
    BY <1>16, <1>17, <1>18, StillHears
<1>20. WireFit(page')
    BY <1>1, <1>10, <1>11, <1>15, WireMoved DEF Current
<1> QED BY <1>3, <1>15, <1>19, <1>20 DEF Current

\* The page receives a response.
LEMMA ReceiveCurrent ==
    ASSUME Base, OneLink(page), Current, ~page'.threw, NEW w \in page.wire, Receive(w),
           cut' \cap {"dates", "overlap", "replaced"} = {}
    PROVE  Current'
<1>1. TypeOK /\ Fits(page) /\ UNCHANGED <<json, meta>> /\ w \in Wires
    BY PartsOfPage DEF Base, Fits, Receive, server
<1>2. CASE w.kind = "public" /\ w.state = "done" /\ CallsOf(page, w) # {}
    BY <1>2, PublicCurrent
<1>3. CASE w.kind # "public" \/ w.state # "done" \/ CallsOf(page, w) = {}
    BY <1>1, <1>3, ReceiveAside, ReceiveActs, AsideCurrent
<1> QED BY <1>2, <1>3

\* a page with other news
LEMMA OtherNews ==
    ASSUME NEW p, Fits(p), NEW s \in SUBSET Told, IsFiniteSet(s)
    PROVE  LET q == WithNews(p, s)
           IN  Fits(q) /\ q.news = s /\ Aside(p, q) /\ Stays(p, q) /\ q.wire = p.wire /\ q.wsConnected = p.wsConnected
<1> DEFINE q == WithNews(p, s)
<1>1. p \in Page
    BY DEF Fits
<1>2. SameSchema(p, q) /\ SameWire(p, q)
    BY <1>1 DEF WithNews, Page, SameSchema, SameWire, Shown
<1>3. Fits(q) /\ q.news = s /\ Stays(p, q) /\ q.wsConnected = p.wsConnected
    BY NewsFits
<1> HIDE DEF q
<1>4. Aside(p, q)
    BY <1>2, SameIsAside
<1> QED BY <1>2, <1>3, <1>4 DEF SameWire, q

\* The page receives news: of the schema, if it is not older than what is received after it.
LEMMA ReceiveNewsCurrent ==
    ASSUME Base, OneLink(page), Current, ~page'.threw, NEW n \in page.news, ReceiveNews(n),
           cut' \cap {"overlap", "overtaken", "replaced"} = {}
    PROVE  Current'
<1> DEFINE s == page.news \ {n}
           q == WithNews(page, s)
<1>1. TypeOK /\ Fits(page) /\ told \in Nat /\ json \in Versions
    BY DEF Base, TypeOK
<1>2. page.link[n.on] = "open" /\ CanRun(page) /\ page' = BackendRequest(q, n)
    BY DEF ReceiveNews, CanGoOn, CanRun, WithNews
<1>3. UNCHANGED <<auth, json, meta, change, told, login>> /\ page'.conn = page.conn
    BY DEF ReceiveNews, Note, Replaced, server
<1>4. page.news \subseteq Told /\ IsFiniteSet(page.news) /\ n \in Told /\ n.on \in Links /\ n.meta \in Versions
    BY <1>1, PartsOfPage DEF Fits, Told
<1>5. s \in SUBSET Told /\ IsFiniteSet(s) /\ s = page.news \ {n}
    BY <1>4, FS_Subset
<1>6. n.on = page.conn
    BY <1>2, <1>4 DEF OneLink
<1> HIDE DEF s
<1>7. Fits(q) /\ q.news = s /\ Aside(page, q) /\ Stays(page, q) /\ q.wire = page.wire /\ q.wsConnected = page.wsConnected
    BY <1>1, <1>5, OtherNews
<1> HIDE DEF q
<1>8. CanRun(q)
    BY <1>2, <1>7 DEF CanRun, FreeLinks, Stays
<1>9. Runs(q, page', Change(n))
    BY <1>2, <1>4, <1>7, <1>8, BackendRequestRuns
<1>10. Fits(page') /\ page'.news = s /\ (Stays(page, page') \/ (Connects(page, page') /\ page'.conn = page.conn))
    BY <1>3, <1>7, <1>9 DEF Runs, KeepsBy, Stays, Connects
<1>11. Stays(page, page')
  <2>1. page.link \in LinkStates
      BY <1>1, PartsOfPage DEF Fits, LinkStates
  <2> QED BY <1>2, <1>6, <1>10 DEF Connects
<1>12. PageDated(page, told, json) /\ Dated(n.meta, told, json)
    BY DEF Current, PageDated
<1>13. CASE n.kind # "schemaLoaded"
  <2>1. Aside(q, page')
      BY <1>2, <1>4, <1>7, <1>13, NewsAside
  <2>2. Aside(page, page')
      BY <1>7, <1>10, <2>1, AsideFirst
  <2>3. Loaded(page') = Loaded(page)
      BY <1>3, <1>5, <1>10, <1>13 DEF Loaded
  <2>4. WireFit(page')
      BY <1>1, <1>10, <2>2, WireMoved DEF Current, Aside
  <2>5. /\ Asks(page, page') /\ Keeps4(page, page') /\ page'.news \subseteq page.news
        /\ page'.publicLoaded => page.publicLoaded /\ page'.link[page'.conn] = "open"
      BY <1>2, <1>5, <1>6, <1>10, <1>11, <2>2 DEF Aside, SameSchema, Shown, Keeps4, Stays
  <2> QED BY <1>3, <2>3, <2>4, <2>5, QuietCurrent
<1>14. CASE n.kind = "schemaLoaded"
  <2> DEFINE r == Busier(q, -1)
  <2>1. page' = InitSchema(r, n.meta)
    <3>1. q \in Page /\ q.busyCounter \in Int
        BY <1>7, PartsOfPage DEF Fits
    <3>2. [q EXCEPT !.busyCounter = @ - 1] = r
        BY <3>1 DEF Busier
    <3> QED BY <1>2, <1>14, <3>2 DEF BackendRequest
  <2>2. page.fetches = {} /\ \A k \in page.news : k.on = n.on /\ k.kind = n.kind => ~(k.nr < n.nr)
    <3>1. Note(Replaced \cup Overlap \cup Overtakes(n))
        BY <1>14 DEF ReceiveNews
    <3>2. "overlap" \notin cut' /\ "overtaken" \notin cut'
        OBVIOUS
    <3> QED BY <3>1, <3>2 DEF Note, Overlap, Overtakes
  <2>3. GoesBy(q, r, -1)
      BY <1>7, BusierGoes
  <2>4. SameSchema(q, r) /\ SameWire(q, r)
    <3>1. q \in Page
        BY <1>7 DEF Fits
    <3> QED BY <3>1 DEF Busier, Page, SameSchema, SameWire, Shown
  <2> HIDE DEF r
  <2>5. Fits(r) /\ CanRun(r) /\ r.news = s
      BY <1>7, <1>8, <2>3, CanStillRun DEF GoesBy, KeepsBy
  <2>6. SameSchema(page, r) /\ r.wire = page.wire /\ Asks(page, r)
      BY <1>7, <2>4 DEF Aside, SameSchema, Shown, SameWire, Asks
  <2>7. ModulesFit(r) /\ r.fetches = {}
      BY <2>2, <2>6 DEF Current, ModulesFit, SameSchema, Shown
  <2>8. ModulesFit(page') /\ Knows(page', n.meta) /\ page'.publicLoaded = page.publicLoaded
    <3>1. ModulesFit(page') /\ Knows(page', n.meta) /\ page'.publicLoaded = r.publicLoaded
        BY <1>4, <2>1, <2>5, <2>7, InitSchemaFits
    <3> QED BY <2>6, <3>1 DEF SameSchema, Shown
  <2>9. PageDated(r, told, json)
      BY <1>5, <1>12, <2>5, <2>6 DEF PageDated, SameSchema, Shown
  <2>10. PageDated(page', told, json) /\ Asks(r, page')
      BY <1>1, <1>4, <1>12, <2>1, <2>5, <2>9, InitSchemaDated
  <2>11. Asks(page, page')
      BY <1>10, <2>6, <2>10, AsksFirst
  <2>12. WireFit(page')
      BY <1>1, <1>10, <2>11, WireMoved DEF Current
  <2>13. Loaded(page') = Loaded(page) \ {n} /\ n \in Loaded(page)
      BY <1>3, <1>5, <1>6, <1>10, <1>14 DEF Loaded
  <2>14. /\ \A k \in Loaded(page) : k.nr \in Nat /\ ~(k.nr < n.nr)
         /\ \A k \in Loaded(page) : k.meta = meta \/ change = "dated" \/ \E i \in Loaded(page) : i.nr > k.nr /\ i.meta = meta
      BY <1>4, <1>6, <1>14, <2>2 DEF Loaded, Told, Current, Hears
  <2>15. Informed(page', meta, change)
    <3>1. CASE n.meta = meta
        BY <2>8, <3>1 DEF Informed
    <3>2. CASE change = "dated"
        BY <3>2 DEF Informed
    <3>3. CASE \E i \in Loaded(page) : i.nr > n.nr /\ i.meta = meta
      <4>1. PICK i \in Loaded(page) : i.nr > n.nr /\ i.meta = meta
          BY <3>3
      <4>2. n.nr \in Nat /\ i # n
          BY <2>13, <2>14, <4>1
      <4> QED BY <2>13, <4>1, <4>2 DEF Informed
    <3> QED BY <2>13, <2>14, <3>1, <3>2, <3>3
  <2>16. ASSUME NEW k \in Loaded(page')
         PROVE  k.meta = meta \/ change = "dated" \/ \E i \in Loaded(page') : i.nr > k.nr /\ i.meta = meta
    <3>1. CASE \E i \in Loaded(page) : i.nr > k.nr /\ i.meta = meta
      <4>1. PICK i \in Loaded(page) : i.nr > k.nr /\ i.meta = meta
          BY <3>1
      <4>2. k \in Loaded(page) /\ k.nr \in Nat /\ n.nr \in Nat /\ ~(k.nr < n.nr) /\ i.nr \in Nat
          BY <2>13, <2>14, <2>16, <4>1
      <4>3. i # n
          BY <4>1, <4>2
      <4> QED BY <2>13, <4>1, <4>3
    <3> QED BY <2>13, <2>14, <2>16, <3>1
  <2>17. page'.link[page'.conn] = "open"
      BY <1>2, <1>6, <1>11 DEF Stays
  <2>18. Hears(page', meta, change)
      BY <2>15, <2>16, <2>17 DEF Hears
  <2> QED BY <1>3, <2>8, <2>10, <2>12, <2>18 DEF Current
<1> QED BY <1>13, <1>14

-----------------------------------------------------------------------------
(* Downloads.                                                                *)

\* The server hands out a module, in a version that is not older than the one asked for.
LEMMA FetchServedCurrent ==
    ASSUME Base, OneLink(page), Current, NEW f \in page.fetches, NEW m, FetchServed(f, m)
    PROVE  Current'
<1> DEFINE g == [f EXCEPT !.got[m] = json[m]]
           s == (page.fetches \ {f}) \cup {g}
<1>1. TypeOK /\ Fits(page) /\ page \in Page /\ told \in Nat /\ json \in Versions /\ page.fetches \subseteq Fetches
    BY PartsOfPage DEF Base, TypeOK, Fits
<1>2. /\ m \in f.get /\ json[m] # 0 /\ page' = [page EXCEPT !.fetches = s]
      /\ UNCHANGED <<json, meta, change, told>>
    BY DEF FetchServed, server
<1>3. f.new \in Versions /\ f.got \in Versions /\ f.get \subseteq Modules
    BY <1>1 DEF Fetches
<1>4. g.new = f.new /\ g.get = f.get /\ g.got = [f.got EXCEPT ![m] = json[m]]
    BY <1>1 DEF Fetches
<1>5. \A k \in Modules : g.got[k] = IF k = m THEN json[m] ELSE f.got[k]
    BY <1>3, <1>4 DEF Versions
<1> HIDE DEF g
<1>6. s = {g}
    BY DEF Current, ModulesFit
<1> HIDE DEF s
<1>7. /\ page'.publicLoaded = page.publicLoaded /\ page'.schemaLoaded = page.schemaLoaded
      /\ page'.moduleIdMapMeta = page.moduleIdMapMeta /\ page'.moduleIdMap = page.moduleIdMap /\ page'.fetches = {g}
      /\ page'.link = page.link /\ page'.conn = page.conn /\ page'.wire = page.wire /\ page'.news = page.news
    BY <1>1, <1>2, <1>6 DEF Page
<1>8. FetchFits(page.moduleIdMap, f) /\ PageDated(page, told, json) /\ Dated(json, told, json)
    BY DEF Current, ModulesFit
<1>9. FetchFits(page.moduleIdMap, g)
  <2>1. \A k \in Modules : f.new[k] \in Nat /\ json[k] \in Nat
      BY <1>1, <1>3 DEF Versions
  <2>2. m \in Modules /\ f.new[m] <= json[m]
      BY <1>2, <1>3, <1>8 DEF PageDated, Dated
  <2> QED BY <1>4, <1>5, <1>8, <2>1, <2>2 DEF FetchFits
<1>10. Dated(g.new, told, json) /\ Dated(g.got, told, json)
    BY <1>4, <1>5, <1>8 DEF PageDated, Dated
<1>11. PageDated(page', told, json)
    BY <1>7, <1>8, <1>10 DEF PageDated
<1>12. ModulesFit(page')
    BY <1>7, <1>9 DEF Current, ModulesFit
<1>13. Knows(page', meta) <=> Knows(page, meta)
  <2>1. page.fetches = {f}
      BY DEF Current, ModulesFit
  <2> QED BY <1>4, <1>7, <2>1 DEF Knows
<1>14. Loaded(page') = Loaded(page) /\ Publics(page') = Publics(page)
    BY <1>7 DEF Loaded, Publics
<1>15. Hears(page', meta, change)
    BY <1>7, <1>13, <1>14 DEF Current, Hears, Informed
<1>16. WireFit(page')
    BY <1>7 DEF Current, WireFit
<1> QED BY <1>2, <1>11, <1>12, <1>15, <1>16 DEF Current

\* All modules are there, and the page has those it knew of.
LEMMA FetchDoneCurrent ==
    ASSUME Base, OneLink(page), Current, NEW f \in page.fetches, FetchDone(f), "replaced" \notin cut'
    PROVE  Current'
<1> DEFINE none == {}
           q == WithFetches(page, none)
           h == Received(page, f.get, f.got)
<1>1. TypeOK /\ Fits(page) /\ page \in Page /\ told \in Nat /\ json \in Versions /\ page.fetches \subseteq Fetches
      /\ page.moduleIdMap \in Versions
    BY PartsOfPage DEF Base, TypeOK, Fits
<1>2. page.fetches = {f} /\ FetchFits(page.moduleIdMap, f)
    BY DEF Current, ModulesFit
<1>3. /\ \A m \in f.get : f.got[m] # 0
      /\ page' = SchemaDone(q, f.new, f.get, f.got)
      /\ UNCHANGED <<json, meta, change, told>>
      /\ page'.conn = page.conn /\ CanRun(page)
    BY <1>2 DEF FetchDone, WithFetches, server, Note, Replaced, CanGoOn, CanRun
<1>4. f.new \in Versions /\ f.got \in Versions
    BY <1>1 DEF Fetches
<1>5. Fits(q) /\ CanRun(q)
  <2>1. page.fetches \ {f} = none
      BY <1>2
  <2>2. GoesBy(page, q, 1)
      BY <1>1, <2>1, FetchGone
  <2> HIDE DEF q
  <2> QED BY <1>3, <2>2, CanStillRun DEF GoesBy, KeepsBy
<1>6. Shown(q, page.publicLoaded, page.schemaLoaded, page.moduleIdMapMeta, page.moduleIdMap, none) /\ SameWire(page, q)
    BY <1>1 DEF WithFetches, Page, Shown, SameWire
<1> HIDE DEF q, none
<1>7. Received(q, f.get, f.got) = h
    BY <1>6 DEF Shown, Received
<1> HIDE DEF h
<1>8. Shown(page', page.publicLoaded, TRUE, f.new, h, {}) /\ Asks(page, page')
  <2>1. Shown(page', q.publicLoaded, TRUE, f.new, h, q.fetches) /\ Asks(q, page')
      BY <1>3, <1>4, <1>5, <1>7, SchemaDoneShows
  <2> QED BY <1>6, <2>1 DEF Shown, SameWire, Asks, none
<1>9. \A m \in Modules : h[m] = IF m \in f.get THEN f.got[m] ELSE page.moduleIdMap[m]
    BY DEF h, Received
<1>10. ModulesAre(h, f.new)
  <2>1. \A m \in Modules : f.new[m] \in Nat /\ f.got[m] \in Nat /\ page.moduleIdMap[m] \in Nat
      BY <1>1, <1>4 DEF Versions
  <2> QED BY <1>2, <1>3, <1>9, <2>1 DEF ModulesAre, FetchFits
<1>11. Acts /\ Fits(page') /\ page'.news = page.news
    BY <1>1, FetchDoneActs DEF Acts, KeepsBy, Serves
<1>12. Stays(page, page') \/ (Connects(page, page') /\ page'.conn = page.conn)
    BY <1>3, <1>11 DEF Acts, Moved
<1>13. page'.link[page'.conn] = "open" <=> page.link[page.conn] = "open"
    BY <1>1, <1>11, <1>12, MovedLinks
<1>14. PageDated(page, told, json) /\ Dated(f.new, told, json) /\ Dated(f.got, told, json)
    BY DEF Current, PageDated
<1>15. PageDated(page', told, json)
  <2>1. Dated(h, told, json)
      BY <1>9, <1>14 DEF PageDated, Dated
  <2>2. page'.moduleIdMap = h /\ page'.moduleIdMapMeta = f.new /\ page'.fetches = {}
      BY <1>8 DEF Shown
  <2> QED BY <1>1, <1>8, <1>11, <1>14, <2>1, <2>2, DatedAfter
<1>16. ModulesFit(page') /\ Knows(page', f.new)
    BY <1>8, <1>10 DEF ModulesFit, Knows, Shown
<1>17. Knows(page, meta) => Knows(page', meta)
    BY <1>2, <1>16 DEF Knows
<1>18. Loaded(page') = Loaded(page) /\ Publics(page') \subseteq Publics(page) /\ page'.publicLoaded = page.publicLoaded
    BY <1>3, <1>8, <1>11 DEF Loaded, Publics, Asks, Shown
<1>19. Informed(page, meta, change) => Informed(page', meta, change)
    BY <1>17, <1>18 DEF Informed
<1>20. Hears(page', meta, change)
    BY <1>13, <1>18, <1>19, StillHears DEF Current, Hears
<1>21. WireFit(page')
    BY <1>1, <1>8, <1>11, <1>12, WireMoved DEF Current
<1> QED BY <1>3, <1>15, <1>16, <1>20, <1>21 DEF Current

-----------------------------------------------------------------------------
(* The server answers, and connections come and go.                          *)

\* The public data have the dates of change as they are then.
LEMMA HandleCurrent ==
    ASSUME Base, OneLink(page), Current, NEW w \in page.wire, Handle(w)
    PROVE  Current'
<1>1. TypeOK /\ page \in Page /\ told \in Nat /\ json \in Versions /\ meta \in Versions /\ page.wire \subseteq Wires
    BY PartsOfPage DEF Base, TypeOK, Fits
<1>2. PICK state \in {"done", "failed"}, data \in {meta, NoModules} :
        page' = Answer(w, state, data) /\ (w.kind = "public" /\ state = "done" => data = meta)
  <2>1. CASE w.kind = "public"
      BY <2>1 DEF Handle
  <2>2. CASE w.kind # "public"
      BY <2>2 DEF Handle
  <2> QED BY <2>1, <2>2
<1> DEFINE v == [w EXCEPT !.state = state, !.meta = data]
           s == (page.wire \ {w}) \cup {v}
<1>3. UNCHANGED <<json, meta, change, told>>
    BY DEF Handle
<1>4. v.on = w.on /\ v.kind = w.kind /\ v.meta = data /\ v.state = state
    BY <1>1 DEF Wires
<1>5. page' = [page EXCEPT !.wire = s]
    BY <1>2 DEF Answer
<1> HIDE DEF v
<1>6. \A x \in s : x = v \/ x \in page.wire
    OBVIOUS
<1> HIDE DEF s
<1>7. /\ page'.publicLoaded = page.publicLoaded /\ Keeps4(page, page') /\ page'.link = page.link
      /\ page'.conn = page.conn /\ page'.news = page.news /\ page'.wire = s
    BY <1>1, <1>5 DEF Page, Keeps4
<1>8. PageDated(page, told, json) /\ Dated(data, told, json)
    BY <1>1, <1>2, NoneDated DEF Current
<1>9. PageDated(page', told, json)
    BY <1>4, <1>6, <1>7, <1>8 DEF PageDated, Keeps4
<1>10. ModulesFit(page')
    BY <1>7 DEF Current, ModulesFit, Keeps4
<1>11. WireFit(page')
    BY <1>4, <1>6, <1>7 DEF Current, WireFit
<1>12. Loaded(page') = Loaded(page) /\ (Knows(page', meta) <=> Knows(page, meta))
    BY <1>7 DEF Loaded, Knows, Keeps4
<1>13. \A x \in Publics(page') : x \in Publics(page) \/ x.meta = meta
    BY <1>2, <1>4, <1>6, <1>7 DEF Publics
<1>14. Hears(page', meta, change)
    BY <1>7, <1>12, <1>13 DEF Current, Hears, Informed
<1> QED BY <1>3, <1>9, <1>10, <1>11, <1>14 DEF Current

\* A connection is open: the page asks for the public data first.
LEMMA OpenCurrent ==
    ASSUME Base, OneLink(page), AllOwed, "replaced" \notin cut, Current, ~page'.threw, NEW l \in Links, Open(l)
    PROVE  Current'
<1> DEFINE yes == TRUE
           f == [page.link EXCEPT ![l] = "open"]
           q == [page EXCEPT !.link = f, !.wsConnected = yes]
<1>1. TypeOK /\ Fits(page) /\ NewsFit(page, change, told) /\ page \in Page /\ page \in Parts /\ page.link \in LinkStates
      /\ page.conn \in Links
    BY PageHasParts, PartsOfPage DEF Base, Fits, LinkStates
<1>2. page.link[l] = "connecting" /\ l = page.conn /\ UNCHANGED <<json, meta, change, told, cut>>
      /\ page' = StateChange(q)
    BY DEF Open, OneLink
<1>3. Publics(page) = {} /\ Loaded(page) = {}
    BY <1>1, <1>2, NothingHeard DEF Current
<1>4. ~page.publicLoaded
    BY <1>2 DEF Current, Hears
<1>5. f \in LinkStates /\ yes \in BOOLEAN /\ yes /\ \A k \in Links : f[k] = IF k = l THEN "open" ELSE page.link[k]
    BY <1>1 DEF LinkStates
<1> HIDE DEF f, yes
<1>6. q \in Parts
    BY <1>1, <1>5 DEF Parts
<1>7. /\ q.link = f /\ q.conn = page.conn /\ q.news = page.news /\ q.wsConnected = yes
      /\ SameCalls(page, q) /\ SameBusy(page, q) /\ SameSchema(page, q)
    BY <1>1 DEF Page, SameCalls, SameBusy, SameSchema, Shown
<1> HIDE DEF q
<1>8. Fits(q) /\ CanRun(q)
    BY <1>1, <1>5, <1>6, <1>7, CallsFit, PageHasParts DEF SameBusy, CanRun
<1>9. ~q.publicLoaded /\ q.wsConnected
    BY <1>4, <1>5, <1>7 DEF SameSchema, Shown
<1>10. page' = Send(q, "public")
    BY <1>2, <1>9 DEF StateChange, StateChange2
<1>11. Aside(q, page') /\ Goes(q, page')
    BY <1>8, <1>10, SendAside, SendGoes DEF Kinds, Blocking
<1>12. /\ Fits(page') /\ page'.link = f /\ page'.conn = page.conn /\ page'.news = page.news
       /\ Keeps4(page, page') /\ ~page'.publicLoaded
    BY <1>7, <1>9, <1>11 DEF Goes, Keeps, Stays, Aside, SameSchema, Shown, Keeps4
<1>13. \A w \in page'.wire : w \in page.wire \/ (w.state = "asked" /\ w.meta = NoModules /\ f[w.on] = "open")
    BY <1>7, <1>11 DEF Aside, Asks, SameCalls
<1>14. told \in Nat /\ json \in Versions /\ PageDated(page, told, json)
    BY <1>1 DEF TypeOK, Current
<1>15. PageDated(page', told, json)
    BY <1>12, <1>13, <1>14, NoneDated DEF PageDated, Keeps4
<1>16. ModulesFit(page')
    BY <1>12 DEF Current, ModulesFit, Keeps4
<1>17. WireFit(page')
  <2>1. page.wire \subseteq Wires
      BY <1>1, PartsOfPage
  <2>2. \A w \in page.wire : w.on # l /\ f[w.on] \in {"open", "closing"}
      BY <1>2, <1>5, <2>1 DEF Current, WireFit, Wires
  <2> QED BY <1>12, <1>13, <2>2 DEF WireFit
<1>18. Loaded(page') = {} /\ Publics(page') = {}
    BY <1>3, <1>12, <1>13 DEF Loaded, Publics
<1>19. Hears(page', meta, change)
    BY <1>12, <1>18 DEF Hears
<1> QED BY <1>2, <1>15, <1>16, <1>17, <1>19 DEF Current

\* A connection ends, and what is under way on it.
LEMMA OnCloseCurrent ==
    ASSUME Base, OneLink(page), Current, NEW l \in Links, OnClose(l)
    PROVE  Current'
<1> DEFINE no   == FALSE
           zero == 0
           t    == page.token /\ (page.tokenKeep \/ ~page.appReady)
           q    == WsBroken(page)
           f    == [q.link EXCEPT ![l] = "none"]
           v    == {w \in q.wire : w.on # l}
           s    == {n \in q.news : n.on # l}
<1>1. TypeOK /\ Fits(page) /\ NewsFit(page, change, told) /\ page \in Page /\ page.link \in LinkStates
      /\ page.conn \in Links /\ page.wire \subseteq Wires /\ told \in Nat /\ json \in Versions
    BY PartsOfPage DEF Base, Fits, LinkStates, TypeOK
<1>2. UNCHANGED <<json, meta, change, told>> /\ page' = [q EXCEPT !.link = f, !.wire = v, !.news = s]
    BY DEF OnClose, server
<1>3. /\ q \in Page /\ q.link = page.link /\ q.conn = page.conn /\ q.news = page.news /\ q.wire = page.wire
      /\ q.fetches = page.fetches
    BY <1>1, WsBrokenIs DEF Broken, Fits, SameCalls
<1>4. Keeps4(page, q) /\ q.publicLoaded = FALSE
  <2>1. q = [page EXCEPT !.busyCounter = 0, !.appReady = FALSE, !.loginReady = FALSE,
              !.publicLoaded = FALSE, !.wsConnected = FALSE, !.token = t]
      BY <1>1 DEF WsBroken, Page
  <2> HIDE DEF q, t
  <2> QED BY <1>1, <2>1 DEF Page, Keeps4
<1>5. /\ v \subseteq page.wire /\ s \subseteq page.news /\ (\A w \in v : w.on # l) /\ (\A n \in s : n.on # l)
      /\ (\A n \in page.news : n.on # l => n \in s)
      /\ \A k \in Links : f[k] = IF k = l THEN "none" ELSE page.link[k]
    BY <1>1, <1>3 DEF LinkStates
<1> HIDE DEF q, f, v, s
<1>6. /\ page'.link = f /\ page'.wire = v /\ page'.news = s /\ page'.conn = page.conn
      /\ Keeps4(page, page') /\ page'.publicLoaded = FALSE
    BY <1>2, <1>3, <1>4 DEF Page, Keeps4
<1>7. Asks(page, page') /\ WireFit(page')
    BY <1>1, <1>5, <1>6 DEF Asks, WireFit, Current, Wires
<1>8. (page'.conn = page.conn /\ Loaded(page') = Loaded(page)) \/ (Loaded(page') = {} /\ Publics(page') = {} /\ ~page'.publicLoaded)
    BY <1>5, <1>6 DEF Loaded, Publics
<1> QED BY <1>2, <1>5, <1>6, <1>7, <1>8, QuietCurrent

\* what a page knows is there when it connects anew
LEMMA ReconnectShows ==
    ASSUME NEW p, Fits(p), FreeLinks(p) # {}
    PROVE  LET q == WsReconnect(p)
           IN  Keeps4(p, q) /\ q.wire = p.wire /\ q.publicLoaded = FALSE
<1> DEFINE q == WithLinks(p, Shut(p))
           r == Clear(q)
           t == r.token /\ (r.tokenKeep \/ ~r.appReady)
           s == [r EXCEPT !.busyCounter = 0, !.appReady = FALSE, !.loginReady = FALSE,
                          !.publicLoaded = FALSE, !.wsConnected = FALSE, !.token = t]
           u == [s EXCEPT !.busyCounter = 0]
           l == CHOOSE l \in FreeLinks(u) : \A k \in FreeLinks(u) : l <= k
           w == [u EXCEPT !.link[l] = "connecting", !.conn = l]
<1>1. p \in Page /\ p.link \in LinkStates /\ p.conn \in Links
    BY PartsOfPage DEF Fits, LinkStates
<1>2. WsReconnect(p) = w
  <2>1. Shut(p) = [p.link EXCEPT ![p.conn] = IF @ = "none" THEN @ ELSE "closing"]
      BY <1>1 DEF Shut, LinkStates
  <2>2. [p EXCEPT !.link[p.conn] = IF @ = "none" THEN @ ELSE "closing"] = q
      BY <1>1, <2>1 DEF WithLinks
  <2>3. Close(p) = WsBroken(r)
      BY <2>2 DEF Close
  <2> HIDE DEF q
  <2>4. WsBroken(r) = [r EXCEPT !.busyCounter = 0, !.appReady = FALSE, !.loginReady = FALSE, !.publicLoaded = FALSE,
                                !.wsConnected = FALSE, !.token = @ /\ (r.tokenKeep \/ ~r.appReady)]
      BY DEF WsBroken
  <2>5. r \in Page
    <3>1. Shut(p) \in LinkStates
        BY <1>1 DEF Shut, LinkStates
    <3>2. Fits(q)
        BY <3>1, LinksFit DEF q
    <3> QED BY <3>2, ClearIs DEF Cleared, Fits
  <2> HIDE DEF r
  <2>6. WsBroken(r) = s
      BY <2>4, <2>5 DEF Page
  <2> HIDE DEF s, t
  <2> QED BY <2>3, <2>6 DEF WsReconnect, WsConnect
<1>3. Keeps4(p, q) /\ q.wire = p.wire /\ Fits(q)
  <2>1. Shut(p) \in LinkStates
      BY <1>1 DEF Shut, LinkStates
  <2>2. Fits(q)
      BY <2>1, LinksFit
  <2> QED BY <1>1, <2>2 DEF WithLinks, Page, Keeps4
<1> HIDE DEF q
<1>4. Keeps4(q, r) /\ r.wire = q.wire /\ r \in Page
  <2>1. r \in Page
      BY <1>3, ClearIs DEF Cleared, Fits
  <2>2. q \in Page
      BY <1>3 DEF Fits
  <2> QED BY <2>1, <2>2 DEF Clear, Page, Keeps4
<1> HIDE DEF r, t, l
<1>5. Keeps4(r, w) /\ w.wire = r.wire /\ w.publicLoaded = FALSE
    BY <1>4 DEF Page, Keeps4
<1> HIDE DEF s, u, w
<1> QED BY <1>2, <1>3, <1>4, <1>5 DEF Keeps4

LEMMA ReconnectsCurrent ==
    ASSUME Base, Current, UNCHANGED <<json, meta, change, told>>, NEW p, Fits(p), Reconnects(p, page'),
           SameWire(page, p), p.conn = page.conn, p.news = page.news, Keeps4(page, p),
           Keeps4(p, page'), page'.wire = p.wire, page'.publicLoaded = FALSE
    PROVE  Current'
<1>1. Fits(page) /\ NewsFit(page, change, told)
    BY DEF Base
<1>2. page.link \in LinkStates /\ page.conn \in Links /\ page.wire \subseteq Wires
    BY <1>1, PartsOfPage DEF Fits, LinkStates
<1>3. NewsFit(p, change, told)
    BY <1>1 DEF NewsFit, SameWire
<1>4. NewsFit(page', change, told) /\ Fits(page')
    BY <1>3, ReconnectsSafe
<1>5. /\ page'.conn \in Links /\ \A k \in Links : page'.link[k] =
            IF k = page'.conn THEN "connecting"
            ELSE IF k = page.conn THEN IF page.link[k] = "none" THEN "none" ELSE "closing" ELSE page.link[k]
      /\ page.link[page'.conn] = "none" \/ page'.conn = page.conn
    BY <1>2 DEF Reconnects, Shut, SameWire, LinkStates
<1>6. Shut(p)[page'.conn] = "none"
    BY DEF Reconnects
<1>7. page.link[page'.conn] = "none"
    BY <1>2, <1>5, <1>6 DEF Shut, SameWire, LinkStates
<1>8. WireFit(page')
    BY <1>2, <1>5, <1>7 DEF Current, WireFit, SameWire, Wires
<1>9. Asks(page, page')
    BY <1>5 DEF Asks, SameWire
<1>10. Loaded(page') = {} /\ Publics(page') = {}
    BY <1>4, <1>5, <1>8, NothingHeard
<1>11. Keeps4(page, page') /\ page'.news \subseteq page.news
    BY DEF Keeps4, Reconnects
<1> QED BY <1>8, <1>9, <1>10, <1>11, QuietCurrent

LEMMA TickCurrent ==
    ASSUME Base, Current, Tick
    PROVE  Current'
<1>1. Fits(page)
    BY DEF Base
<1>2. UNCHANGED <<json, meta, change, told>> /\ page' = WsReconnect(page) /\ FreeLinks(page) # {}
    BY DEF Tick, server
<1>3. Reconnects(page, page') /\ Keeps4(page, page') /\ page'.wire = page.wire /\ page'.publicLoaded = FALSE
    BY <1>1, <1>2, ReconnectIs, ReconnectShows
<1>4. SameWire(page, page) /\ Keeps4(page, page)
    BY DEF SameWire, Keeps4
<1> QED BY <1>1, <1>2, <1>3, <1>4, ReconnectsCurrent

LEMMA LogoutCurrent ==
    ASSUME Base, Current, Logout
    PROVE  Current'
<1> DEFINE no == FALSE
           q  == [page EXCEPT !.token = no, !.tokenKeep = no]
<1>1. Fits(page) /\ page \in Page /\ page \in Parts /\ no \in BOOLEAN
    BY PageHasParts DEF Base, Fits
<1>2. UNCHANGED <<json, meta, change, told>> /\ page' = WsReconnect(q) /\ FreeLinks(page) # {}
    BY DEF Logout, server
<1> HIDE DEF no
<1>3. q \in Parts
    BY <1>1 DEF Parts
<1>4. /\ SameLinks(page, q) /\ SameCalls(page, q) /\ SameBusy(page, q)
      /\ SameWire(page, q) /\ Keeps4(page, q)
    BY <1>1 DEF Page, SameLinks, SameCalls, SameBusy, SameWire, Keeps4
<1> HIDE DEF q
<1>5. Fits(q) /\ FreeLinks(q) # {} /\ q.conn = page.conn /\ q.news = page.news
    BY <1>1, <1>2, <1>3, <1>4, CallsFit, PageHasParts DEF SameBusy, SameLinks, FreeLinks
<1>6. Reconnects(q, page') /\ Keeps4(q, page') /\ page'.wire = q.wire /\ page'.publicLoaded = FALSE
    BY <1>2, <1>5, ReconnectIs, ReconnectShows
<1> QED BY <1>2, <1>4, <1>5, <1>6, ReconnectsCurrent

-----------------------------------------------------------------------------
(* The schema changes.                                                       *)

LEMMA DatedLater ==
    ASSUME NEW v \in Versions, NEW t \in Nat, NEW u \in Nat, t <= u, NEW j, Dated(v, t, j)
    PROVE  Dated(v, u, j)
BY DEF Dated, Versions

\* The server tells every connection.
LEMMA TellShows ==
    ASSUME Base, Current, NEW kind \in NewsKinds, Tell(kind), UNCHANGED <<json, meta>>, told' \in Nat, told' >= told
    PROVE  /\ page'.news = page.news \cup Sends(kind) /\ Stays(page, page') /\ Keeps4(page, page')
           /\ page'.wire = page.wire /\ page'.publicLoaded = page.publicLoaded
           /\ Dated(json, told', json) /\ Dated(meta, told', json) /\ PageDated(page', told', json)
           /\ WireFit(page') /\ ModulesFit(page')
<1> DEFINE s == page.news \cup Sends(kind)
           t == told'
<1>1. TypeOK /\ Fits(page) /\ page \in Page /\ json \in Versions /\ meta \in Versions /\ told \in Nat /\ t \in Nat /\ told <= t
    BY DEF Base, TypeOK, Fits
<1>2. /\ page.wire \subseteq Wires /\ page.news \subseteq Told /\ page.fetches \subseteq Fetches
      /\ page.moduleIdMap \in Versions /\ page.moduleIdMapMeta \in Versions
    BY <1>1, PartsOfPage
<1>3. \A n \in Sends(kind) : n.meta = meta
    BY DEF Sends
<1>4. page' = [page EXCEPT !.news = s]
    BY DEF Tell, Sends
<1> HIDE DEF s
<1>5. /\ page'.news = s /\ Stays(page, page') /\ Keeps4(page, page')
      /\ page'.wire = page.wire /\ page'.publicLoaded = page.publicLoaded
    BY <1>1, <1>4 DEF Page, Stays, Keeps4
<1>6. Dated(json, told, json) /\ Dated(meta, told, json) /\ PageDated(page, told, json)
    BY DEF Current
<1> HIDE DEF t
<1>7. Dated(json, t, json) /\ Dated(meta, t, json)
    BY <1>1, <1>6, DatedLater
<1>8. PageDated(page', t, json)
  <2>1. Dated(page.moduleIdMap, t, json) /\ Dated(page.moduleIdMapMeta, t, json)
      BY <1>1, <1>2, <1>6, DatedLater DEF PageDated
  <2>2. \A w \in page.wire : Dated(w.meta, t, json)
      BY <1>1, <1>2, <1>6, DatedLater DEF PageDated, Wires
  <2>3. \A n \in page.news : Dated(n.meta, t, json)
      BY <1>1, <1>2, <1>6, DatedLater DEF PageDated, Told
  <2>4. \A f \in page.fetches : Dated(f.new, t, json) /\ Dated(f.got, t, json)
      BY <1>1, <1>2, <1>6, DatedLater DEF PageDated, Fetches
  <2>5. \A n \in s : Dated(n.meta, t, json)
      BY <1>3, <1>7, <2>3 DEF s
  <2> QED BY <1>5, <2>1, <2>2, <2>4, <2>5 DEF PageDated, Keeps4
<1>9. WireFit(page') /\ ModulesFit(page')
    BY <1>5 DEF Current, WireFit, ModulesFit, Keeps4, Stays
<1> QED BY <1>5, <1>7, <1>8, <1>9 DEF s, t

\* Of something else, or that a change begins.
LEMMA TellOtherCurrent ==
    ASSUME Base, Current, NEW kind \in NewsKinds, kind # "schemaLoaded", Tell(kind), UNCHANGED <<json, meta>>,
           told' \in Nat, told' >= told, change' = change \/ (change = "none" /\ change' = "told")
    PROVE  Current'
<1>1. /\ page'.news = page.news \cup Sends(kind) /\ Stays(page, page') /\ Keeps4(page, page')
      /\ page'.wire = page.wire /\ page'.publicLoaded = page.publicLoaded
      /\ Dated(json, told', json) /\ Dated(meta, told', json) /\ PageDated(page', told', json)
      /\ WireFit(page') /\ ModulesFit(page')
    BY TellShows
<1>2. \A n \in Sends(kind) : n.kind = kind
    BY DEF Sends
<1>3. Loaded(page') = Loaded(page) /\ Publics(page') = Publics(page) /\ (Knows(page', meta) <=> Knows(page, meta))
    BY <1>1, <1>2 DEF Loaded, Publics, Knows, Stays, Keeps4
<1>4. Hears(page, meta, change)
    BY DEF Current
<1>5. Hears(page', meta, change')
    BY <1>1, <1>3, <1>4 DEF Hears, Informed, Stays
<1> QED BY <1>1, <1>4, <1>5 DEF Current

\* That it has ended: with the dates of change as they are now, after older news.
LEMMA SchemaLoadedCurrent ==
    ASSUME Base, OneLink(page), Current, SchemaLoaded
    PROVE  Current'
<1> DEFINE kind == "schemaLoaded"
<1>1. TypeOK /\ Fits(page) /\ NewsFit(page, change, told) /\ told \in Nat
    BY DEF Base, TypeOK
<1>2. /\ change = "dated" /\ change' = "none" /\ told' = told /\ Tell(kind) /\ UNCHANGED <<json, meta>>
    BY DEF SchemaLoaded
<1>3. kind \in NewsKinds /\ told' \in Nat /\ told' >= told /\ kind = "schemaLoaded"
    BY <1>1, <1>2 DEF NewsKinds
<1> HIDE DEF kind
<1>4. /\ page'.news = page.news \cup Sends(kind) /\ Stays(page, page') /\ Keeps4(page, page')
      /\ page'.wire = page.wire /\ page'.publicLoaded = page.publicLoaded
      /\ Dated(json, told', json) /\ Dated(meta, told', json) /\ PageDated(page', told', json)
      /\ WireFit(page') /\ ModulesFit(page')
    BY <1>2, <1>3, TellShows
<1>5. \A n \in Sends(kind) : n.nr = told /\ n.kind = kind /\ n.meta = meta
    BY <1>2 DEF Sends
<1>6. ASSUME page.link[page.conn] = "open"
      PROVE  \E n \in Loaded(page') : n.nr = told /\ n.meta = meta
  <2>1. page.conn \in Links
      BY <1>1, PartsOfPage DEF Fits
  <2>2. PICK n \in Sends(kind) : n.on = page.conn
      BY <1>1, <1>3, <1>6, <2>1, SendsAre
  <2> QED BY <1>3, <1>4, <1>5, <2>2 DEF Loaded, Stays
<1>7. ASSUME page.link[page.conn] \in {"open", "closing"} PROVE page.link[page.conn] = "open"
    BY <1>7 DEF OneLink
<1>8. page'.publicLoaded => page'.link[page'.conn] = "open" /\ page.link[page.conn] = "open"
    BY <1>4 DEF Current, Hears, Stays
<1>9. Publics(page') # {} => page.link[page.conn] = "open"
    BY <1>4, <1>7 DEF Current, WireFit, Publics, Stays
<1>10. ASSUME NEW k \in Loaded(page')
       PROVE  k.meta = meta \/ \E i \in Loaded(page') : i.nr > k.nr /\ i.meta = meta
  <2>1. CASE k \in Sends(kind)
      BY <1>5, <2>1
  <2>2. CASE k \in page.news
    <3>1. k.kind = "schemaLoaded" /\ k.on = page.conn
        BY <1>4, <1>10 DEF Loaded, Stays
    <3>2. k.nr < told /\ page.link[page.conn] = "open"
        BY <1>1, <1>2, <1>7, <2>2, <3>1 DEF NewsFit
    <3>3. PICK i \in Loaded(page') : i.nr = told /\ i.meta = meta
        BY <1>6, <3>2
    <3>4. k.nr \in Nat
        BY <1>1, <2>2, PartsOfPage DEF Fits, Told
    <3> QED BY <1>1, <3>2, <3>3, <3>4
  <2> QED BY <1>4, <1>10, <2>1, <2>2 DEF Loaded
<1>11. Hears(page', meta, change')
    BY <1>6, <1>8, <1>9, <1>10 DEF Hears, Informed
<1> QED BY <1>2, <1>4, <1>11 DEF Current

\* The server reads a module anew, dates it, or a module has gone.
LEMMA ChangeCurrent ==
    ASSUME Base, Current, SchemaUndated \/ \E m \in Modules : SchemaUpdate(m) \/ SchemaDelete(m) \/ SchemaDate(m)
    PROVE  Current'
<1>1. TypeOK /\ Fits(page) /\ told \in Nat /\ json \in Versions /\ meta \in Versions
    BY DEF Base, TypeOK
<1>2. UNCHANGED <<page, told>>
    BY DEF SchemaUndated, SchemaDate, SchemaUpdate, SchemaDelete
<1>3. /\ Dated(json, told, json) /\ Dated(meta, told, json) /\ PageDated(page, told, json)
      /\ WireFit(page) /\ ModulesFit(page) /\ Hears(page, meta, change)
    BY DEF Current
<1>4. CASE SchemaUndated \/ \E m \in Modules : SchemaDate(m)
  <2>1. change' = "dated" /\ json' = json /\ (meta' = meta \/ \E m \in Modules : meta' = [meta EXCEPT ![m] = json[m]])
      BY <1>4 DEF SchemaUndated, SchemaDate
  <2>2. \A k \in Modules : meta'[k] \in {meta[k], json[k]}
      BY <1>1, <2>1 DEF Versions
  <2>3. Dated(meta', told, json)
      BY <1>3, <2>2 DEF Dated
  <2>4. Hears(page, meta', change')
      BY <1>3, <2>1 DEF Hears, Informed
  <2> QED BY <1>2, <1>3, <2>1, <2>3, <2>4 DEF Current
<1>5. CASE \E m \in Modules : SchemaUpdate(m) \/ SchemaDelete(m)
  <2>1. PICK m \in Modules : SchemaUpdate(m) \/ SchemaDelete(m)
      BY <1>5
  <2>2. json' \in {[json EXCEPT ![m] = told], [json EXCEPT ![m] = 0]}
      BY <2>1 DEF SchemaUpdate, SchemaDelete
  <2>3. \A k \in Modules : json'[k] = json[k] \/ (json'[k] = told \/ json'[k] = 0)
      BY <1>1, <2>2 DEF Versions
  <2>4. \A v \in Versions : Dated(v, told, json) => Dated(v, told, json')
      BY <1>1, <2>3 DEF Dated, Versions
  <2>5. Dated(json', told, json') /\ json' \in Versions
      BY <1>1, <1>3, <2>2 DEF Dated, Versions
  <2>6. PageDated(page, told, json')
    <3>1. /\ page.wire \subseteq Wires /\ page.news \subseteq Told /\ page.fetches \subseteq Fetches
          /\ page.moduleIdMap \in Versions /\ page.moduleIdMapMeta \in Versions
        BY <1>1, PartsOfPage DEF Fits
    <3>2. Dated(page.moduleIdMap, told, json') /\ Dated(page.moduleIdMapMeta, told, json')
        BY <1>3, <2>4, <3>1 DEF PageDated
    <3>3. \A w \in page.wire : Dated(w.meta, told, json')
        BY <1>3, <2>4, <3>1 DEF PageDated, Wires
    <3>4. \A n \in page.news : Dated(n.meta, told, json')
        BY <1>3, <2>4, <3>1 DEF PageDated, Told
    <3>5. \A f \in page.fetches : Dated(f.new, told, json') /\ Dated(f.got, told, json')
        BY <1>3, <2>4, <3>1 DEF PageDated, Fetches
    <3> QED BY <3>2, <3>3, <3>4, <3>5 DEF PageDated
  <2>7. CASE SchemaUpdate(m)
    <3>1. change = "told" /\ change' = "json" /\ meta' = meta
        BY <2>7 DEF SchemaUpdate
    <3>2. Hears(page, meta', change')
        BY <1>3, <3>1 DEF Hears, Informed
    <3> QED BY <1>1, <1>2, <1>3, <2>4, <2>5, <2>6, <3>1, <3>2 DEF Current
  <2>8. CASE SchemaDelete(m)
    <3>1. change = "told" /\ change' = "dated" /\ meta' = [meta EXCEPT ![m] = 0] /\ json' = [json EXCEPT ![m] = 0]
        BY <2>8 DEF SchemaDelete
    <3>2. Dated(meta', told, json')
      <4>1. \A k \in Modules : meta'[k] = (IF k = m THEN 0 ELSE meta[k]) /\ json'[k] = (IF k = m THEN 0 ELSE json[k])
          BY <1>1, <3>1 DEF Versions
      <4> QED BY <1>1, <1>3, <4>1 DEF Dated
    <3>3. Hears(page, meta', change')
        BY <1>3, <3>1 DEF Hears, Informed
    <3> QED BY <1>2, <1>3, <2>5, <2>6, <3>1, <3>2, <3>3 DEF Current
  <2> QED BY <2>1, <2>7, <2>8
<1> QED BY <1>4, <1>5

-----------------------------------------------------------------------------
(* Every step.                                                               *)

Missed == {"dates", "overlap", "overtaken", "fetch", "replaced"}
Fine   == cut \cap Missed = {} /\ ~page.threw

\* what was missed stays so
LEMMA FineBefore ==
    ASSUME Base, Next, Fine'
    PROVE  Fine
<1>1. TypeOK /\ Fits(page) /\ page \in Page
    BY DEF Base, Fits
<1>2. cut \subseteq cut'
  <2>1. CASE \/ \E l \in Links : OnClose(l)
             \/ Tick \/ Logout \/ Cancel
      BY <2>1, GivenUpNotes DEF OnClose, Tick, Logout, Cancel
  <2>2. CASE \/ \E w \in page.wire : Receive(w) \/ Handle(w)
             \/ \E n \in page.news : ReceiveNews(n)
             \/ \E f \in page.fetches : Fetching(f)
    <3>1. ASSUME NEW w \in page.wire, Receive(w) \/ Handle(w) PROVE cut \subseteq cut'
        BY <3>1 DEF Receive, Handle, Note
    <3>2. ASSUME NEW n \in page.news, ReceiveNews(n) PROVE cut \subseteq cut'
        BY <3>2 DEF ReceiveNews, Note
    <3>3. ASSUME NEW f \in page.fetches, Fetching(f) PROVE cut \subseteq cut'
        BY <3>3 DEF Fetching, FetchServed, FetchDone, FetchFails, Note
    <3> QED BY <2>2, <3>1, <3>2, <3>3
  <2>4. CASE CaptionsLost
      BY <2>4 DEF CaptionsLost, Note
  <2>3. CASE \/ \E l \in Links : Open(l)
             \/ KeysDerived \/ CaptionsLoaded \/ CaptionsFail \/ Login \/ Query
             \/ SchemaLoading \/ SchemaUndated \/ SchemaLoaded
             \/ \E m \in Modules : SchemaUpdate(m) \/ SchemaDelete(m) \/ SchemaDate(m)
             \/ \E kind \in NewsKinds \ {"schemaLoading", "schemaLoaded"} : News(kind)
    <3>1. cut' = cut
        BY <2>3 DEF Open, KeysDerived, CaptionsLoaded, CaptionsFail, Login, Query, SchemaLoading, SchemaUndated,
                    SchemaLoaded, SchemaUpdate, SchemaDelete, SchemaDate, News
    <3> QED BY <3>1
  <2> QED BY <2>1, <2>2, <2>3, <2>4 DEF Next
<1>3. ~page'.threw => ~page.threw
  <2> DEFINE Goal == ~page'.threw => ~page.threw
  <2>1. Acts => Goal
      BY DEF Acts, KeepsBy, Serves
  <2>2. page' = page => Goal
      OBVIOUS
  <2> HIDE DEF Goal
  <2>3. ASSUME NEW l \in Links, Open(l) PROVE Goal
    <3> DEFINE f == [page.link EXCEPT ![l] = "open"]
               yes == TRUE
               q == [page EXCEPT !.link = f, !.wsConnected = yes]
    <3>1. page.link \in LinkStates /\ page \in Parts
        BY <1>1, PageHasParts, PartsOfPage DEF LinkStates
    <3>2. f \in LinkStates /\ page' = StateChange(q) /\ yes \in BOOLEAN /\ yes
        BY <2>3, <3>1 DEF LinkStates, Open
    <3> HIDE DEF f, yes
    <3>3. q \in Parts
        BY <3>1, <3>2 DEF Parts
    <3>4. SameCalls(page, q) /\ q.news = page.news /\ q.fetches = page.fetches /\ q.threw = page.threw /\ q.wsConnected = yes
        BY <1>1 DEF Page, SameCalls
    <3> HIDE DEF q
    <3>5. Fits(q) /\ CanRun(q)
        BY <1>1, <3>2, <3>3, <3>4, CallsFit, PageHasParts DEF CanRun
    <3>6. Runs(q, page', 0)
        BY <3>2, <3>5, StateChangeRuns
    <3> QED BY <3>4, <3>6 DEF Runs, KeepsBy, Goal
  <2>4. ASSUME NEW l \in Links, OnClose(l) PROVE Goal
    <3> DEFINE q == WsBroken(page)
    <3>1. Broken(page, q)
        BY <1>1, WsBrokenIs
    <3>2. page' = [q EXCEPT !.link[l] = "none", !.wire = {w \in @ : w.on # l}, !.news = {n \in @ : n.on # l}]
        BY <2>4 DEF OnClose
    <3> HIDE DEF q
    <3>3. page'.threw = q.threw
        BY <3>1, <3>2 DEF Broken, Fits, Page
    <3> QED BY <3>1, <3>3 DEF Broken, Goal
  <2>5. ASSUME Tick PROVE Goal
    <3>1. Reconnects(page, page')
        BY <1>1, <2>5, ReconnectIs DEF Tick
    <3> QED BY <3>1 DEF Reconnects, Goal
  <2>6. ASSUME Logout PROVE Goal
    <3> DEFINE no == FALSE
               q  == [page EXCEPT !.token = no, !.tokenKeep = no]
    <3>1. page' = WsReconnect(q) /\ FreeLinks(page) # {} /\ page \in Parts /\ no \in BOOLEAN
        BY <1>1, <2>6, PageHasParts DEF Logout
    <3> HIDE DEF no
    <3>2. q \in Parts
        BY <3>1 DEF Parts
    <3>3. SameCalls(page, q) /\ q.news = page.news /\ q.fetches = page.fetches /\ q.threw = page.threw /\ q.link = page.link
        BY <1>1 DEF Page, SameCalls
    <3> HIDE DEF q
    <3>4. Fits(q) /\ FreeLinks(q) # {}
        BY <1>1, <3>1, <3>2, <3>3, CallsFit, PageHasParts DEF FreeLinks
    <3>5. Reconnects(q, page')
        BY <3>1, <3>4, ReconnectIs
    <3> QED BY <3>3, <3>5 DEF Reconnects, Goal
  <2>7. ASSUME NEW w \in page.wire, Receive(w) \/ Handle(w) PROVE Goal
      BY <1>1, <2>1, <2>7, ReceiveActs, HandleActs
  <2>8. ASSUME NEW n \in page.news, ReceiveNews(n) PROVE Goal
    <3> DEFINE s == page.news \ {n}
               q == WithNews(page, s)
    <3>1. CanRun(page) /\ page' = BackendRequest(q, n)
        BY <2>8 DEF ReceiveNews, CanGoOn, CanRun, WithNews
    <3>2. page.news \subseteq Told /\ IsFiniteSet(page.news) /\ n \in Told
        BY <1>1, PartsOfPage DEF Fits
    <3>3. s \in SUBSET Told /\ IsFiniteSet(s)
        BY <3>2, FS_Subset
    <3> HIDE DEF s
    <3>4. Fits(q) /\ Stays(page, q) /\ q.wsConnected = page.wsConnected /\ q.threw = page.threw
        BY <1>1, <3>3, NewsFits
    <3> HIDE DEF q
    <3>5. Runs(q, page', Change(n))
        BY <3>1, <3>2, <3>4, BackendRequestRuns DEF CanRun, FreeLinks, Stays
    <3> QED BY <3>4, <3>5 DEF Runs, KeepsBy, Goal
  <2>9. ASSUME NEW f \in page.fetches, Fetching(f) PROVE Goal
      BY <1>1, <2>1, <2>9, FetchServedActs, FetchDoneActs, FetchFailsActs DEF Fetching
  <2>10. ASSUME User \/ Login \/ Query \/ Cancel PROVE Goal
      BY <1>1, <2>1, <2>10, KeysActs, CaptionsActs, CaptionsFailActs, CaptionsLostActs, LoginActs, QueryActs, CancelActs
         DEF User
  <2>11. ASSUME \E kind : Tell(kind) PROVE Goal
    <3>1. page'.threw = page.threw
        BY <1>1, <2>11 DEF Tell, Page
    <3> QED BY <3>1 DEF Goal
  <2>12. ASSUME SchemaUndated \/ \E m \in Modules : SchemaUpdate(m) \/ SchemaDelete(m) \/ SchemaDate(m)
         PROVE  Goal
      BY <2>2, <2>12 DEF SchemaUndated, SchemaDate, SchemaUpdate, SchemaDelete
  <2>13. Goal
    <3>1. CASE SchemaLoading \/ SchemaLoaded \/ \E kind \in NewsKinds \ {"schemaLoading", "schemaLoaded"} : News(kind)
        BY <2>11, <3>1 DEF SchemaLoading, SchemaLoaded, News
    <3> QED BY <2>3, <2>4, <2>5, <2>6, <2>7, <2>8, <2>9, <2>10, <2>12, <3>1 DEF Next, User
  <2> QED BY <2>13 DEF Goal
<1> QED BY <1>2, <1>3 DEF Fine

SchemaInv == Fine => Current

LEMMA SchemaStep ==
    ASSUME Base, Invariants, SchemaInv, Next
    PROVE  SchemaInv'
<1> SUFFICES ASSUME Fine' PROVE Current'
    BY DEF SchemaInv
<1>1. /\ ~page'.threw /\ "replaced" \notin cut /\ "replaced" \notin cut' /\ "fetch" \notin cut'
      /\ cut' \cap {"dates", "overlap", "replaced"} = {} /\ cut' \cap {"overlap", "overtaken", "replaced"} = {}
    BY FineBefore DEF Fine, Missed
<1>2. Current
    BY FineBefore DEF SchemaInv
<1>3. AllOwed /\ OneLink(page)
    BY <1>1 DEF Invariants, AllOwed
<1>4. told \in Nat
    BY DEF Base, TypeOK
<1>5. CASE \E l \in Links : Open(l) \/ OnClose(l)
    BY <1>1, <1>2, <1>3, <1>5, OpenCurrent, OnCloseCurrent
<1>6. CASE Tick \/ Logout
    BY <1>2, <1>6, TickCurrent, LogoutCurrent
<1>7. CASE \E w \in page.wire : Receive(w) \/ Handle(w)
    BY <1>1, <1>2, <1>3, <1>7, ReceiveCurrent, HandleCurrent
<1>8. CASE \E n \in page.news : ReceiveNews(n)
    BY <1>1, <1>2, <1>3, <1>8, ReceiveNewsCurrent
<1>9. CASE \E f \in page.fetches : Fetching(f)
  <2>1. PICK f \in page.fetches : Fetching(f)
      BY <1>9
  <2>2. ~FetchFails(f)
      BY <1>1 DEF FetchFails
  <2> QED BY <1>1, <1>2, <1>3, <2>1, <2>2, FetchServedCurrent, FetchDoneCurrent DEF Fetching
<1>10. CASE User \/ Login \/ Query \/ Cancel
    BY <1>1, <1>2, <1>3, <1>10, UserCurrent
<1>11. CASE SchemaLoading
  <2> DEFINE kind == "schemaLoading"
  <2>1. Tell(kind) /\ UNCHANGED <<json, meta>> /\ told' = told + 1 /\ change = "none" /\ change' = "told"
      BY <1>11 DEF SchemaLoading
  <2>2. kind \in NewsKinds /\ kind # "schemaLoaded" /\ told' \in Nat /\ told' >= told
      BY <1>4, <2>1 DEF NewsKinds
  <2> HIDE DEF kind
  <2> QED BY <1>2, <2>1, <2>2, TellOtherCurrent
<1>12. CASE SchemaLoaded
    BY <1>2, <1>3, <1>12, SchemaLoadedCurrent
<1>13. CASE SchemaUndated \/ \E m \in Modules : SchemaUpdate(m) \/ SchemaDelete(m) \/ SchemaDate(m)
    BY <1>2, <1>13, ChangeCurrent
<1>14. CASE \E kind \in NewsKinds \ {"schemaLoading", "schemaLoaded"} : News(kind)
  <2>1. PICK kind \in NewsKinds \ {"schemaLoading", "schemaLoaded"} : News(kind)
      BY <1>14
  <2>2. Tell(kind) /\ UNCHANGED <<json, meta, change>> /\ told' = told + 1
      BY <2>1 DEF News
  <2>3. told' \in Nat /\ told' >= told
      BY <1>4, <2>2
  <2> QED BY <1>2, <2>1, <2>2, <2>3, TellOtherCurrent
<1> QED BY <1>5, <1>6, <1>7, <1>8, <1>9, <1>10, <1>11, <1>12, <1>13, <1>14 DEF Next, User

\* A page that has just been mounted knows nothing.
LEMMA SchemaInit ==
    ASSUME Init
    PROVE  Current
<1> DEFINE no   == FALSE
           zero == 0
           none == {}
           tok  == login.token /\ login.keep
           f    == [l \in Links |-> "none"]
           p    == [link |-> f, conn |-> 1,
                    transactions |-> none, blockingCount |-> zero, wire |-> none, news |-> none, busyCounter |-> zero,
                    wsConnected |-> no, publicLoaded |-> no, schemaLoaded |-> no,
                    loginReady |-> no, appReady |-> no,
                    loading |-> no, token |-> tok, tokenKeep |-> login.keep,
                    isAdmin |-> no, access |-> no,
                    moduleIdMapMeta |-> NoModules, moduleIdMap |-> NoModules,
                    fetches |-> none, captions |-> zero, keys |-> zero, threw |-> no]
           l    == CHOOSE l \in FreeLinks(p) : \A k \in FreeLinks(p) : l <= k
<1>1. /\ told = 1 /\ change = "none" /\ json = [m \in Modules |-> 1] /\ meta = json /\ page = WsConnect(p)
    BY DEF Init
<1>2. page = [p EXCEPT !.link[l] = "connecting", !.conn = l]
    BY <1>1 DEF WsConnect
<1>3. none = {} /\ no = FALSE /\ NoModules \in Versions /\ json \in Versions /\ told \in Nat
    BY <1>1 DEF NoModules, Versions
<1> HIDE DEF no, zero, none, tok, f, l
<1>4. /\ page.publicLoaded = no /\ page.schemaLoaded = no /\ page.moduleIdMapMeta = NoModules
      /\ page.moduleIdMap = NoModules /\ page.fetches = none /\ page.wire = none /\ page.news = none
    BY <1>2
<1> HIDE DEF p
<1>5. Dated(NoModules, told, json)
    BY <1>3, NoneDated
<1>6. Dated(json, told, json)
    BY <1>1 DEF Dated
<1>7. PageDated(page, told, json) /\ WireFit(page)
    BY <1>3, <1>4, <1>5 DEF PageDated, WireFit
<1>8. ModulesFit(page) /\ Hears(page, meta, change)
    BY <1>3, <1>4 DEF ModulesFit, Hears, Loaded, Publics
<1> QED BY <1>1, <1>6, <1>7, <1>8 DEF Current

\* A page that is settled has each module as it is on the server, if the server has dated
\* its last change, for any connections, modules and changes, if nothing was missed that
\* SchemaFollows names.
THEOREM SchemaIsFollowed == Spec => []SchemaFollows
<1>1. Init => SchemaInv
    BY SchemaInit DEF SchemaInv
<1>2. Base /\ Base' /\ Invariants /\ SchemaInv /\ [Next]_vars => SchemaInv'
  <2>1. ASSUME Base, Invariants, SchemaInv, Next PROVE SchemaInv'
      BY <2>1, SchemaStep
  <2>2. ASSUME SchemaInv, UNCHANGED vars PROVE SchemaInv'
      BY <2>2 DEF vars, server, SchemaInv, Fine, Current, Hears, Informed
  <2> QED BY <2>1, <2>2
<1>3. Base /\ SchemaInv => SchemaFollows
  <2> SUFFICES ASSUME Base, Current, Settled, NEW m \in Modules, meta[m] = json[m]
               PROVE  page.moduleIdMap[m] = json[m]
      BY DEF SchemaInv, Fine, Missed, SchemaFollows, SchemaIsCurrent
  <2>1. page.moduleIdMap \in Versions /\ json \in Versions
      BY PartsOfPage DEF Base, TypeOK
  <2>2. Informed(page, meta, change)
      BY DEF Settled, Current, Hears
  <2>3. page.moduleIdMapMeta = meta
      BY <2>2 DEF Informed, Loaded, Knows, Settled
  <2>4. ModulesAre(page.moduleIdMap, meta) /\ Dated(page.moduleIdMap, told, json)
      BY <2>3 DEF Settled, Current, ModulesFit, PageDated
  <2> QED BY <2>1, <2>4 DEF ModulesAre, Dated, Versions
<1> QED BY <1>1, <1>2, <1>3, InvariantsHold, PTL DEF Spec
=============================================================================
