---------------------------- MODULE Client_proofs ----------------------------
(* Proofs about Client, for any connections, modules and logins, whatever    *)
(* the bounds of the cases are.                                              *)
EXTENDS Client, FiniteSetTheorems, WellFoundedInduction, TLAPS

-----------------------------------------------------------------------------
(* The parts of a page.                                                      *)

Tickets == [id: Nat, kind: Kinds]
Wires   == [on: Links, id: Nat, kind: Kinds, state: {"asked", "done", "failed"}, meta: Versions]
Told    == [on: Links, kind: NewsKinds, nr: Nat, meta: Versions]
Fetches == [id: Nat, new: Versions, get: SUBSET Modules, got: Versions]

LinkStates == [Links -> {"none", "connecting", "open", "closing"}]

\* a page, by its parts
Parts == [
    link: LinkStates, conn: Links,
    transactions: SUBSET Tickets, blockingCount: Nat,
    wire: SUBSET Wires, news: SUBSET Told,
    busyCounter: Int,
    wsConnected: BOOLEAN, publicLoaded: BOOLEAN, schemaLoaded: BOOLEAN,
    loginReady: BOOLEAN, appReady: BOOLEAN, loading: BOOLEAN,
    token: BOOLEAN, tokenKeep: BOOLEAN, isAdmin: BOOLEAN, access: BOOLEAN,
    moduleIdMapMeta: Versions, moduleIdMap: Versions,
    fetches: SUBSET Fetches,
    captions: Nat, keys: Nat,
    threw: BOOLEAN]

LEMMA PageHasParts == Page = Parts
BY DEF Page, Parts, Tickets, Wires, Told, Fetches, LinkStates

\* Whatever is under way has a number of its own, and a response that of its request.
Fits(p) ==
    /\ p \in Page
    /\ IsFiniteSet(p.transactions) /\ IsFiniteSet(p.wire) /\ IsFiniteSet(p.news) /\ IsFiniteSet(p.fetches)
    /\ \A t, u \in p.transactions : t.id = u.id => t = u
    /\ \A v, w \in p.wire : v.id = w.id => v = w
    /\ \A t \in p.transactions, w \in p.wire : t.id = w.id => t.kind = w.kind
    /\ \A f, g \in p.fetches : f.id = g.id => f = g

LEMMA PartsOfPage ==
    ASSUME NEW p \in Page
    PROVE  /\ p.link \in [Links -> {"none", "connecting", "open", "closing"}] /\ p.conn \in Links
           /\ p.transactions \subseteq Tickets /\ p.wire \subseteq Wires /\ p.news \subseteq Told
           /\ p.fetches \subseteq Fetches
           /\ p.blockingCount \in Nat /\ p.busyCounter \in Int
           /\ p.wsConnected \in BOOLEAN /\ p.publicLoaded \in BOOLEAN /\ p.schemaLoaded \in BOOLEAN
           /\ p.loginReady \in BOOLEAN /\ p.appReady \in BOOLEAN /\ p.loading \in BOOLEAN
           /\ p.token \in BOOLEAN /\ p.tokenKeep \in BOOLEAN /\ p.isAdmin \in BOOLEAN /\ p.access \in BOOLEAN
           /\ p.moduleIdMapMeta \in Versions /\ p.moduleIdMap \in Versions
           /\ p.captions \in Nat /\ p.keys \in Nat /\ p.threw \in BOOLEAN
BY DEF Page, Tickets, Wires, Told, Fetches

\* what is counted: transactions that block the input, and reasons for it to be blocked
Blocks(p)  == {t \in p.transactions : t.kind \in Blocking}
Counted(p) == p.blockingCount <= Cardinality(Blocks(p))
One(b)     == IF b THEN 1 ELSE 0
Slack(p)   == p.busyCounter - One(p.blockingCount > 0) - Cardinality(p.fetches)

LEMMA CountsOfPage ==
    ASSUME NEW p, Fits(p)
    PROVE  /\ IsFiniteSet(Blocks(p)) /\ Cardinality(Blocks(p)) \in Nat
           /\ Cardinality(p.fetches) \in Nat /\ Slack(p) \in Int
           /\ p.blockingCount \in Nat /\ p.busyCounter \in Int
<1>1. IsFiniteSet(Blocks(p))
    BY FS_Subset DEF Blocks, Fits
<1>2. Cardinality(Blocks(p)) \in Nat /\ Cardinality(p.fetches) \in Nat
    BY <1>1, FS_CardinalityType DEF Fits
<1>3. p.blockingCount \in Nat /\ p.busyCounter \in Int
    BY PartsOfPage DEF Fits
<1> QED BY <1>1, <1>2, <1>3 DEF Slack, One

\* the app is started, or about to be
Started(p) == p.appReady \/ p.captions > 0 \/ Waits(p, {"start"})

\* The login does not wait for nothing, and signs in again with its token.
LoginGoesOn(p) ==
    /\ p.loading => ~p.appReady /\ (p.token \/ Waits(p, {"authUser"}))
    /\ p.loading /\ p.loginReady =>
        p.keys > 0 \/ p.captions > 0 \/ Waits(p, {"authUser", "authToken", "app", "start"})

\* what a function of the page keeps
Keeps(p, q) ==
    /\ Fits(q)
    /\ q.news = p.news /\ q.wsConnected = p.wsConnected
    /\ Counted(p) => Counted(q)
    /\ ~q.threw => ~p.threw /\ Slack(q) <= Slack(p)
    /\ LoginGoesOn(p) => LoginGoesOn(q)
Stays(p, q)     == q.link = p.link /\ q.conn = p.conn
StartsNot(p, q) == Started(q) => Started(p)
Goes(p, q)      == Keeps(p, q) /\ Stays(p, q) /\ StartsNot(p, q)

LEMMA KeepsFirst ==
    ASSUME NEW p, NEW q, NEW r, Fits(p), Keeps(p, q), Keeps(q, r)
    PROVE  Keeps(p, r)
<1>1. Slack(p) \in Int /\ Slack(q) \in Int /\ Slack(r) \in Int
    BY CountsOfPage DEF Keeps
<1> QED BY <1>1 DEF Keeps

LEMMA GoesFirst ==
    ASSUME NEW p, NEW q, NEW r, Fits(p), Goes(p, q), Goes(q, r)
    PROVE  Goes(p, r)
BY KeepsFirst DEF Goes, Stays, StartsNot

\* steps that change nothing that is counted
SameLinks(p, q) == q.link = p.link /\ q.conn = p.conn /\ q.news = p.news /\ q.wsConnected = p.wsConnected
SameCalls(p, q) == q.transactions = p.transactions /\ q.wire = p.wire
SameBusy(p, q)  == /\ q.blockingCount = p.blockingCount /\ q.busyCounter = p.busyCounter
                   /\ q.fetches = p.fetches /\ q.threw = p.threw
SameLogin(p, q) == /\ q.appReady = p.appReady /\ q.loading = p.loading /\ q.token = p.token
                   /\ q.keys = p.keys /\ q.captions = p.captions /\ q.loginReady = p.loginReady

LEMMA CallsFit ==
    ASSUME NEW p, NEW q \in Page, Fits(p), SameCalls(p, q), q.news = p.news, q.fetches = p.fetches
    PROVE  Fits(q)
BY DEF Fits, SameCalls

LEMMA SameGoes ==
    ASSUME NEW p, NEW q \in Page, Fits(p),
           SameLinks(p, q), SameCalls(p, q), SameBusy(p, q), SameLogin(p, q)
    PROVE  Goes(p, q)
<1>1. Fits(q)
    BY CallsFit DEF SameLinks, SameBusy
<1>2. Slack(q) = Slack(p) /\ Slack(p) \in Int /\ (Counted(p) <=> Counted(q))
    BY CountsOfPage DEF Slack, SameBusy, SameCalls, Counted, Blocks
<1>3. (LoginGoesOn(p) => LoginGoesOn(q)) /\ StartsNot(p, q)
    BY DEF LoginGoesOn, SameLogin, SameCalls, Waits, StartsNot, Started
<1> QED BY <1>1, <1>2, <1>3 DEF Goes, Keeps, Stays, SameLinks, SameBusy

-----------------------------------------------------------------------------
(* Requests.                                                                 *)

LEMMA LeastIsFree ==
    ASSUME NEW S, IsFiniteSet(S)
    PROVE  Least(S) \in Nat /\ Least(S) \notin S
<1>1. Cardinality(S) \in Nat
    BY FS_CardinalityType
<1>2. \E n \in 1 .. Cardinality(S) + 1 : n \notin S
  <2> SUFFICES ASSUME 1 .. Cardinality(S) + 1 \subseteq S PROVE FALSE
      OBVIOUS
  <2>1. Cardinality(1 .. Cardinality(S) + 1) <= Cardinality(S)
      BY FS_Subset
  <2>2. Cardinality(1 .. Cardinality(S) + 1) = Cardinality(S) + 1
      BY <1>1, FS_Interval
  <2> QED BY <1>1, <2>1, <2>2
<1> QED BY <1>1, <1>2 DEF Least

LEMMA IdIsFree ==
    ASSUME NEW p, Fits(p)
    PROVE  /\ NewId(p) \in Nat
           /\ \A t \in p.transactions : t.id # NewId(p)
           /\ \A w \in p.wire : w.id # NewId(p)
<1> DEFINE S == {t.id : t \in p.transactions}
           T == {w.id : w \in p.wire}
<1>1. IsFiniteSet(S)
  <2> DEFINE g == [t \in p.transactions |-> t.id]
  <2>1. g \in Surjection(p.transactions, S)
      BY DEF Surjection
  <2> QED BY <2>1, FS_Surjection DEF Fits
<1>2. IsFiniteSet(T)
  <2> DEFINE g == [w \in p.wire |-> w.id]
  <2>1. g \in Surjection(p.wire, T)
      BY DEF Surjection
  <2> QED BY <2>1, FS_Surjection DEF Fits
<1>3. IsFiniteSet(S \cup T)
    BY <1>1, <1>2, FS_Union
<1>4. NewId(p) \in Nat /\ NewId(p) \notin S \cup T
    BY <1>3, LeastIsFree DEF NewId
<1> QED BY <1>4

\* the request and the promise for its answer
Asked(p, kind) == [id |-> NewId(p), kind |-> kind]
Stored(p, kind) == [p EXCEPT !.transactions = @ \cup {Asked(p, kind)}]

LEMMA StoredGoes ==
    ASSUME NEW p, Fits(p), NEW kind \in Kinds
    PROVE  LET q == Stored(p, kind)
           IN  /\ Fits(q) /\ Keeps(p, q) /\ Stays(p, q) /\ (kind # "start" => StartsNot(p, q))
               /\ q.transactions = p.transactions \cup {Asked(p, kind)} /\ q.wire = p.wire
               /\ SameLinks(p, q) /\ SameBusy(p, q) /\ SameLogin(p, q)
<1> DEFINE q == Stored(p, kind)
           t == Asked(p, kind)
           s == p.transactions \cup {t}
<1>1. /\ t.id = NewId(p) /\ t.kind = kind /\ t \in Tickets /\ t \notin p.transactions
      /\ \A u \in p.transactions : u.id # t.id
      /\ \A w \in p.wire : w.id # t.id
    BY IdIsFree DEF Asked, Tickets
<1>2. p \in Page /\ p.transactions \subseteq Tickets
    BY PartsOfPage DEF Fits
<1>3. s \in SUBSET Tickets /\ IsFiniteSet(s)
    BY <1>1, <1>2, FS_AddElement DEF Fits
<1>4. q = [p EXCEPT !.transactions = s]
    BY DEF Stored
<1>5. s = p.transactions \cup {t}
    OBVIOUS
<1> HIDE DEF q, t, s
<1>6. q \in Page
    BY <1>2, <1>3, <1>4 DEF Page, Tickets
<1>7. q.transactions = s /\ q.wire = p.wire /\ SameLinks(p, q) /\ SameBusy(p, q) /\ SameLogin(p, q)
    BY <1>2, <1>4 DEF Page, SameLinks, SameBusy, SameLogin
<1>8. Fits(q)
    BY <1>1, <1>3, <1>5, <1>6, <1>7 DEF Fits, SameLinks, SameBusy
<1>9. Blocks(p) \subseteq Blocks(q)
    BY <1>5, <1>7 DEF Blocks
<1>10. Cardinality(Blocks(p)) <= Cardinality(Blocks(q)) /\ Cardinality(Blocks(p)) \in Nat /\ Cardinality(Blocks(q)) \in Nat
    BY <1>8, <1>9, CountsOfPage, FS_Subset
<1>11. Counted(p) => Counted(q)
    BY <1>7, <1>10, CountsOfPage DEF Counted, SameBusy
<1>12. \A K : (Waits(p, K) => Waits(q, K)) /\ (kind \notin K /\ Waits(q, K) => Waits(p, K))
    BY <1>1, <1>5, <1>7 DEF Waits
<1>13. LoginGoesOn(p) => LoginGoesOn(q)
    BY <1>7, <1>12 DEF LoginGoesOn, SameLogin
<1>14. kind # "start" => StartsNot(p, q)
    BY <1>7, <1>12 DEF StartsNot, Started, SameLogin
<1>15. Slack(q) = Slack(p) /\ Slack(p) \in Int
    BY <1>7, CountsOfPage DEF Slack, SameBusy
<1>16. Keeps(p, q) /\ Stays(p, q)
    BY <1>7, <1>8, <1>11, <1>13, <1>15 DEF Keeps, Stays, SameLinks, SameBusy
<1>17. Stored(p, kind) = q /\ Asked(p, kind) = t
    BY DEF q, t
<1> QED BY <1>5, <1>7, <1>8, <1>14, <1>16, <1>17

\* The login stops loading, or is over.
LEMMA ErrorGoes ==
    ASSUME NEW p, Fits(p)
    PROVE  Goes(p, SetInitErr(p)) /\ (p.appReady \/ ~SetInitErr(p).loading)
<1> DEFINE no == FALSE
           q  == [p EXCEPT !.loading = no]
<1>1. p \in Page /\ no \in BOOLEAN /\ ~no
    BY DEF Fits
<1> HIDE DEF no
<1>a. q \in Page
    BY <1>1 DEF Page
<1>b. /\ ~q.loading /\ SameLinks(p, q) /\ SameCalls(p, q) /\ SameBusy(p, q)
      /\ q.appReady = p.appReady /\ q.captions = p.captions
    BY <1>1 DEF Page, SameLinks, SameCalls, SameBusy
<1>c. q = [p EXCEPT !.loading = FALSE]
    BY DEF no
<1> HIDE DEF q
<1>2. /\ q \in Page /\ ~q.loading /\ SameLinks(p, q) /\ SameCalls(p, q) /\ SameBusy(p, q)
      /\ q.appReady = p.appReady /\ q.captions = p.captions
    BY <1>a, <1>b
<1>3. Fits(q)
    BY <1>2, CallsFit DEF SameLinks, SameBusy
<1>4. Slack(q) = Slack(p) /\ Slack(p) \in Int /\ (Counted(p) <=> Counted(q))
    BY <1>2, CountsOfPage DEF Slack, SameBusy, SameCalls, Counted, Blocks
<1>5. LoginGoesOn(q) /\ StartsNot(p, q)
    BY <1>2 DEF LoginGoesOn, SameCalls, Waits, StartsNot, Started
<1>6. Goes(p, q)
    BY <1>2, <1>3, <1>4, <1>5 DEF Goes, Keeps, Stays, SameLinks, SameBusy
<1>7. Goes(p, p)
    BY <1>1, SameGoes DEF SameLinks, SameCalls, SameBusy, SameLogin
<1> QED BY <1>2, <1>6, <1>7, <1>c DEF SetInitErr

LEMMA ReadyKeeps ==
    ASSUME NEW p, Fits(p)
    PROVE  Keeps(p, Ready(p)) /\ Stays(p, Ready(p)) /\ LoginGoesOn(Ready(p))
<1> DEFINE q == Ready(p)
<1> DEFINE zero == 0
           yes  == TRUE
           no   == FALSE
           r    == [p EXCEPT !.appReady = yes, !.loading = no, !.keys = zero]
<1>1. p \in Page /\ zero \in Nat /\ yes \in BOOLEAN /\ no \in BOOLEAN /\ ~no
    BY DEF Fits
<1>2. q = r
    BY DEF Ready
<1> HIDE DEF q, zero, yes, no
<1>b. r \in Page
  <2>1. p \in Parts
      BY <1>1, PageHasParts
  <2>2. r \in Parts
      BY <1>1, <2>1 DEF Parts
  <2> QED BY <2>2, PageHasParts
<1>a. q \in Page
    BY <1>2, <1>b
<1>3. ~q.loading /\ SameLinks(p, q) /\ SameCalls(p, q) /\ SameBusy(p, q)
    BY <1>1, <1>2 DEF Page, SameLinks, SameCalls, SameBusy
<1>4. Fits(q)
    BY <1>3, <1>a, CallsFit DEF SameLinks, SameBusy
<1>5. Slack(q) = Slack(p) /\ Slack(p) \in Int /\ (Counted(p) <=> Counted(q))
    BY <1>3, CountsOfPage DEF Slack, SameBusy, SameCalls, Counted, Blocks
<1>6. LoginGoesOn(q)
    BY <1>3 DEF LoginGoesOn
<1>7. Keeps(p, q) /\ Stays(p, q)
    BY <1>3, <1>4, <1>5, <1>6 DEF Keeps, Stays, SameLinks, SameBusy
<1> QED BY <1>6, <1>7 DEF q

LEMMA NothingGoes ==
    ASSUME NEW p, Fits(p)
    PROVE  Goes(p, p)
BY SameGoes DEF Fits, SameLinks, SameCalls, SameBusy, SameLogin

LEMMA RejectGoes ==
    ASSUME NEW p, Fits(p), NEW kind \in Kinds
    PROVE  /\ Keeps(p, Reject(p, kind)) /\ Stays(p, Reject(p, kind))
           /\ kind # "start" => StartsNot(p, Reject(p, kind))
           /\ kind \in {"authUser", "authToken", "public", "app", "start"} =>
                ~Reject(p, kind).loading \/ p.appReady
<1>1. Goes(p, p)
    BY NothingGoes
<1>2. Goes(p, SetInitErr(p)) /\ (p.appReady \/ ~SetInitErr(p).loading)
    BY ErrorGoes
<1>3. Keeps(p, Ready(p)) /\ Stays(p, Ready(p)) /\ (p.appReady \/ ~Ready(p).loading)
  <2>1. p.appReady \/ ~Ready(p).loading
      BY DEF Ready, Fits, Page
  <2> QED BY <2>1, ReadyKeeps
<1>4. CASE kind \in {"authUser", "authToken"}
  <2>1. Reject(p, kind) = SetInitErr(p)
      BY <1>4 DEF Reject, SetInitErr
  <2> QED BY <1>2, <1>4, <2>1 DEF Goes
<1>5. CASE kind \in {"public", "app"}
  <2>1. Reject(p, kind) = SetInitErr(p)
      BY <1>5 DEF Reject
  <2> QED BY <1>2, <1>5, <2>1 DEF Goes
<1>6. CASE kind = "start"
  <2>1. Reject(p, kind) \in {Ready(p), SetInitErr(p)}
      BY <1>6, PartsOfPage DEF Reject, Fits
  <2> QED BY <1>2, <1>3, <1>6, <2>1 DEF Goes
<1>7. CASE kind \notin {"authUser", "authToken", "public", "app", "start"}
  <2>1. Reject(p, kind) = p
      BY <1>7 DEF Reject
  <2> QED BY <1>1, <1>7, <2>1 DEF Goes
<1> QED BY <1>4, <1>5, <1>6, <1>7

\* what is written to the connection, if it is open
Sent(p, kind) ==
    IF p.link[p.conn] # "open" THEN {}
    ELSE {[on |-> p.conn, id |-> NewId(p), kind |-> kind, state |-> "asked", meta |-> NoModules]}

\* A request that is stored and, on an open connection, sent.
Departed(p, q, kind) ==
    /\ q.transactions = p.transactions \cup {Asked(p, kind)}
    /\ q.wire = p.wire \cup Sent(p, kind)
    /\ q.blockingCount = p.blockingCount + One(kind \in Blocking)
    /\ q.busyCounter = p.busyCounter + One(kind \in Blocking /\ p.blockingCount = 0)
    /\ q.fetches = p.fetches /\ q.threw = p.threw
    /\ SameLinks(p, q) /\ SameLogin(p, q)

LEMMA SendDeparts ==
    ASSUME NEW p, Fits(p), NEW kind \in Kinds, p.link[p.conn] # "connecting"
    PROVE  Send(p, kind) \in Page /\ Departed(p, Send(p, kind), kind)
<1> DEFINE t == Asked(p, kind)
           s == p.transactions \cup {t}
           w == p.wire \cup Sent(p, kind)
           c == p.blockingCount + One(kind \in Blocking)
           b == p.busyCounter + One(kind \in Blocking /\ p.blockingCount = 0)
           r == Stored(p, kind)
           q == [r EXCEPT !.wire = w, !.blockingCount = c, !.busyCounter = b]
<1>1. /\ p \in Page /\ p.transactions \subseteq Tickets /\ p.wire \subseteq Wires /\ p.conn \in Links
      /\ p.blockingCount \in Nat /\ p.busyCounter \in Int
    BY PartsOfPage DEF Fits
<1>2. NewId(p) \in Nat
    BY IdIsFree
<1>3. Sent(p, kind) \subseteq Wires
    BY <1>1, <1>2 DEF Sent, Wires, NoModules, Versions
<1>4. t \in Tickets
    BY <1>2 DEF Asked, Tickets
<1>5. s \in SUBSET Tickets /\ w \in SUBSET Wires
    BY <1>1, <1>3, <1>4
<1>6. c \in Nat /\ b \in Int
    BY <1>1 DEF One
<1>7. r = [p EXCEPT !.transactions = s]
    BY DEF Stored
<1>8. r.wire = p.wire /\ r.blockingCount = p.blockingCount /\ r.busyCounter = p.busyCounter
    BY <1>1, <1>7 DEF Page
<1>9. Send(p, kind) = q
  <2>1. Send(p, kind) =
            [r EXCEPT
                !.wire = IF p.link[p.conn] # "open" THEN r.wire
                         ELSE r.wire \cup {[on |-> p.conn, id |-> NewId(p), kind |-> kind,
                                            state |-> "asked", meta |-> NoModules]},
                !.blockingCount = IF kind \in Blocking THEN r.blockingCount + 1 ELSE r.blockingCount,
                !.busyCounter = IF kind \in Blocking /\ p.blockingCount = 0 THEN r.busyCounter + 1
                                ELSE r.busyCounter]
      BY DEF Send, Stored, Asked
  <2>2. w = IF p.link[p.conn] # "open" THEN r.wire
            ELSE r.wire \cup {[on |-> p.conn, id |-> NewId(p), kind |-> kind,
                               state |-> "asked", meta |-> NoModules]}
      BY <1>8 DEF Sent
  <2>3. c = IF kind \in Blocking THEN r.blockingCount + 1 ELSE r.blockingCount
      BY <1>1, <1>8 DEF One
  <2>4. b = IF kind \in Blocking /\ p.blockingCount = 0 THEN r.busyCounter + 1 ELSE r.busyCounter
      BY <1>1, <1>8 DEF One
  <2> HIDE DEF r, w, c, b
  <2> QED BY <2>1, <2>2, <2>3, <2>4
<1>10. Departed(p, [[p EXCEPT !.transactions = s] EXCEPT !.wire = w, !.blockingCount = c, !.busyCounter = b], kind)
  <2> HIDE DEF r
  <2> QED BY <1>1 DEF Page, Departed, SameLinks, SameLogin
<1> HIDE DEF s, w, c, b
<1>11. [[p EXCEPT !.transactions = s] EXCEPT !.wire = w, !.blockingCount = c, !.busyCounter = b] \in Page
  <2>1. p \in Parts
      BY <1>1, PageHasParts
  <2>2. [[p EXCEPT !.transactions = s] EXCEPT !.wire = w, !.blockingCount = c, !.busyCounter = b] \in Parts
      BY <1>5, <1>6, <2>1 DEF Parts
  <2> QED BY <2>2, PageHasParts
<1> HIDE DEF r
<1> QED BY <1>7, <1>9, <1>10, <1>11

LEMMA DepartedKeeps ==
    ASSUME NEW p, Fits(p), NEW kind \in Kinds, NEW q \in Page, Departed(p, q, kind)
    PROVE  Keeps(p, q) /\ Stays(p, q) /\ (kind # "start" => StartsNot(p, q)) /\ Waits(q, {kind})
<1> DEFINE t == Asked(p, kind)
           s == Sent(p, kind)
<1>1. /\ t.id = NewId(p) /\ t.kind = kind /\ t \notin p.transactions
      /\ \A u \in p.transactions : u.id # t.id
      /\ \A w \in p.wire : w.id # t.id
    BY IdIsFree DEF Asked
<1>2. IsFiniteSet(s) /\ \A w \in s : w.id = t.id /\ w.kind = kind /\ \A v \in s : v = w
  <2> DEFINE m == [on |-> p.conn, id |-> NewId(p), kind |-> kind, state |-> "asked", meta |-> NoModules]
  <2>1. s \in {{}, {m}}
      BY DEF Sent
  <2>2. m.id = t.id /\ m.kind = kind
      BY DEF Asked
  <2> HIDE DEF m, s, t
  <2> QED BY <2>1, <2>2, FS_EmptySet, FS_Singleton
<1>3. q.transactions = p.transactions \cup {t} /\ q.wire = p.wire \cup s
    BY DEF Departed
<1>4. q.news = p.news /\ q.fetches = p.fetches /\ q.threw = p.threw /\ SameLinks(p, q) /\ SameLogin(p, q)
    BY DEF Departed, SameLinks
<1> HIDE DEF t, s
<1>5. Fits(q)
  <2>c. IsFiniteSet(p.transactions) /\ IsFiniteSet(p.wire)
      BY DEF Fits
  <2>d. IsFiniteSet(p.transactions \cup {t}) /\ IsFiniteSet(p.wire \cup s)
      BY <1>2, <2>c, FS_AddElement, FS_Union
  <2>a. IsFiniteSet(q.transactions)
      BY <1>3, <2>d
  <2>b. IsFiniteSet(q.wire)
      BY <1>3, <2>d
  <2>1. /\ IsFiniteSet(q.transactions) /\ IsFiniteSet(q.wire) /\ IsFiniteSet(q.news) /\ IsFiniteSet(q.fetches)
      BY <1>4, <2>a, <2>b DEF Fits
  <2>2. \A u, v \in q.transactions : u.id = v.id => u = v
      BY <1>1, <1>3 DEF Fits
  <2>3. \A u, v \in q.wire : u.id = v.id => u = v
      BY <1>1, <1>2, <1>3 DEF Fits
  <2>4. \A u \in q.transactions, w \in q.wire : u.id = w.id => u.kind = w.kind
      BY <1>1, <1>2, <1>3 DEF Fits
  <2> QED BY <1>4, <2>1, <2>2, <2>3, <2>4 DEF Fits
<1>6. /\ p.blockingCount \in Nat /\ p.busyCounter \in Int /\ Slack(p) \in Int
      /\ IsFiniteSet(Blocks(p)) /\ Cardinality(Blocks(p)) \in Nat /\ Cardinality(p.fetches) \in Nat
    BY CountsOfPage
<1>7. Cardinality(Blocks(q)) = Cardinality(Blocks(p)) + One(kind \in Blocking)
  <2>1. CASE kind \in Blocking
    <3>1. Blocks(q) = Blocks(p) \cup {t} /\ t \notin Blocks(p)
        BY <1>1, <1>3, <2>1 DEF Blocks
    <3> QED BY <1>6, <2>1, <3>1, FS_AddElement DEF One
  <2>2. CASE kind \notin Blocking
    <3>1. Blocks(q) = Blocks(p)
        BY <1>1, <1>3, <2>2 DEF Blocks
    <3> QED BY <1>6, <2>2, <3>1 DEF One
  <2> QED BY <2>1, <2>2
<1>8. /\ q.blockingCount = p.blockingCount + One(kind \in Blocking)
      /\ q.busyCounter = p.busyCounter + One(kind \in Blocking /\ p.blockingCount = 0)
    BY DEF Departed
<1>9. Counted(p) => Counted(q)
    BY <1>6, <1>7, <1>8 DEF Counted, One
<1>10. Slack(q) = Slack(p)
    BY <1>4, <1>6, <1>8 DEF Slack, One
<1>11. \A K : (Waits(p, K) => Waits(q, K)) /\ (kind \notin K /\ Waits(q, K) => Waits(p, K))
    BY <1>1, <1>3 DEF Waits
<1>12. Waits(q, {kind})
    BY <1>1, <1>3 DEF Waits
<1>13. LoginGoesOn(p) => LoginGoesOn(q)
    BY <1>4, <1>11 DEF LoginGoesOn, SameLogin
<1>14. kind # "start" => StartsNot(p, q)
    BY <1>4, <1>11 DEF StartsNot, Started, SameLogin
<1> QED BY <1>4, <1>5, <1>6, <1>9, <1>10, <1>12, <1>13, <1>14 DEF Keeps, Stays, SameLinks

\* A login that has what it may sign in with.
LoginMay(p) == p.loading => ~p.appReady /\ (p.token \/ Waits(p, {"authUser"}))

\* A request is sent, waits for a connection, or fails at once.  One of the login keeps
\* the login waiting, if it does not fail.
LEMMA SendKeeps ==
    ASSUME NEW p, Fits(p), NEW kind \in Kinds
    PROVE  /\ Keeps(p, Send(p, kind)) /\ Stays(p, Send(p, kind))
           /\ kind # "start" => StartsNot(p, Send(p, kind))
           /\ LoginMay(p) /\ kind \in {"authUser", "authToken", "app", "start"} => LoginGoesOn(Send(p, kind))
           /\ p.loading /\ ~p.appReady /\ kind = "authUser" => LoginGoesOn(Send(p, kind))
<1> DEFINE q == Send(p, kind)
           r == Stored(p, kind)
<1>1. /\ Fits(r) /\ Keeps(p, r) /\ Stays(p, r) /\ (kind # "start" => StartsNot(p, r))
      /\ r.transactions = p.transactions \cup {Asked(p, kind)} /\ SameLogin(p, r)
    BY StoredGoes
<1>2. Asked(p, kind).kind = kind
    BY DEF Asked
<1>3. \A s : s.transactions = p.transactions \cup {Asked(p, kind)} /\ SameLogin(p, s) =>
        /\ LoginMay(p) /\ kind \in {"authUser", "authToken", "app", "start"} => LoginGoesOn(s)
        /\ p.loading /\ ~p.appReady /\ kind = "authUser" => LoginGoesOn(s)
    BY <1>2 DEF LoginMay, LoginGoesOn, SameLogin, Waits
<1> HIDE DEF r
<1>4. CASE p.link[p.conn] # "connecting"
  <2>1. q \in Page /\ Departed(p, q, kind)
      BY <1>4, SendDeparts
  <2> HIDE DEF q
  <2>2. Keeps(p, q) /\ Stays(p, q) /\ (kind # "start" => StartsNot(p, q))
      BY <2>1, DepartedKeeps
  <2>3. q.transactions = p.transactions \cup {Asked(p, kind)} /\ SameLogin(p, q)
      BY <2>1 DEF Departed
  <2> QED BY <1>3, <2>2, <2>3 DEF q
<1>5. CASE p.link[p.conn] = "connecting" /\ kind \in {"authUser", "authToken"}
  <2>1. q = r
      BY <1>5 DEF Send, Stored, Asked, r
  <2> QED BY <1>1, <1>3, <2>1 DEF q
<1>6. CASE p.link[p.conn] = "connecting" /\ kind \notin {"authUser", "authToken"}
  <2>1. q = Reject(r, kind)
      BY <1>6 DEF Send, Stored, Asked, r
  <2>2. /\ Keeps(r, q) /\ Stays(r, q) /\ (kind # "start" => StartsNot(r, q))
        /\ kind \in {"app", "start"} => ~q.loading \/ r.appReady
      BY <1>1, <2>1, RejectGoes
  <2>3. Keeps(p, q)
      BY <1>1, <2>2, KeepsFirst
  <2>4. LoginMay(p) /\ kind \in {"app", "start"} => LoginGoesOn(q)
    <3>1. CASE r.loading
      <4>1. LoginMay(p) /\ r.loading => ~r.appReady
          BY <1>1 DEF LoginMay, SameLogin
      <4> QED BY <2>2, <3>1, <4>1 DEF LoginGoesOn
    <3>2. CASE ~r.loading
      <4>1. LoginGoesOn(r)
          BY <3>2 DEF LoginGoesOn
      <4> QED BY <2>2, <4>1 DEF Keeps
    <3>3. r.loading \in BOOLEAN
        BY <1>1, PartsOfPage DEF Fits
    <3> QED BY <3>1, <3>2, <3>3
  <2> HIDE DEF q
  <2> QED BY <1>1, <1>6, <2>2, <2>3, <2>4 DEF q, Stays, StartsNot
<1> QED BY <1>4, <1>5, <1>6

-----------------------------------------------------------------------------
(* What a function of the page does to the counter of the overlay, and to    *)
(* the connections.                                                          *)

\* as Keeps, with d more reasons to block the input
KeepsBy(p, q, d) ==
    /\ Fits(q)
    /\ q.news = p.news /\ q.wsConnected = p.wsConnected
    /\ Counted(p) => Counted(q)
    /\ ~q.threw => ~p.threw /\ Slack(q) <= Slack(p) + d
    /\ LoginGoesOn(p) => LoginGoesOn(q)

\* the page connects anew
Connects(p, q) ==
    /\ q.conn \in Links /\ p.link[q.conn] = "none"
    /\ q.link = [p.link EXCEPT ![q.conn] = "connecting"]

GoesBy(p, q, d) == KeepsBy(p, q, d) /\ Stays(p, q) /\ StartsNot(p, q)
Runs(p, q, d) ==
    /\ KeepsBy(p, q, d) /\ StartsNot(p, q)
    /\ Stays(p, q) \/ (~p.wsConnected /\ Connects(p, q))

\* as CanGoOn
CanRun(p) == p.wsConnected \/ FreeLinks(p) # {}

LEMMA KeepsByNone ==
    ASSUME NEW p, NEW q, Fits(p)
    PROVE  Keeps(p, q) <=> KeepsBy(p, q, 0)
BY CountsOfPage DEF Keeps, KeepsBy

LEMMA KeepsByFirst ==
    ASSUME NEW p, NEW q, NEW r, NEW d \in Int, NEW e \in Int, Fits(p), KeepsBy(p, q, d), KeepsBy(q, r, e)
    PROVE  KeepsBy(p, r, d + e)
<1>1. Slack(p) \in Int /\ Slack(q) \in Int /\ Slack(r) \in Int
    BY CountsOfPage DEF KeepsBy
<1> QED BY <1>1 DEF KeepsBy

LEMMA RunsAfter ==
    ASSUME NEW p, NEW q, NEW r, NEW d \in Int, NEW e \in Int, Fits(p), GoesBy(p, q, d), Runs(q, r, e)
    PROVE  Runs(p, r, d + e)
<1>1. KeepsBy(p, r, d + e)
    BY KeepsByFirst DEF GoesBy, Runs
<1>2. StartsNot(p, r)
    BY DEF GoesBy, Runs, StartsNot
<1>3. Stays(p, r) \/ (~p.wsConnected /\ Connects(p, r))
    BY DEF GoesBy, Runs, Stays, Connects, KeepsBy
<1> QED BY <1>1, <1>2, <1>3 DEF Runs

LEMMA RunsBefore ==
    ASSUME NEW p, NEW q, NEW r, NEW d \in Int, NEW e \in Int, Fits(p), Runs(p, q, d), GoesBy(q, r, e)
    PROVE  Runs(p, r, d + e)
<1>1. KeepsBy(p, r, d + e)
    BY KeepsByFirst DEF GoesBy, Runs
<1>2. StartsNot(p, r)
    BY DEF GoesBy, Runs, StartsNot
<1>3. Stays(p, r) \/ (~p.wsConnected /\ Connects(p, r))
    BY DEF GoesBy, Runs, Stays, Connects, KeepsBy
<1> QED BY <1>1, <1>2, <1>3 DEF Runs

LEMMA GoesRuns ==
    ASSUME NEW p, NEW q, NEW d, GoesBy(p, q, d)
    PROVE  Runs(p, q, d)
BY DEF GoesBy, Runs

LEMMA GoesByNone ==
    ASSUME NEW p, NEW q, Fits(p), Goes(p, q)
    PROVE  GoesBy(p, q, 0)
BY KeepsByNone DEF Goes, GoesBy

LEMMA CanStillRun ==
    ASSUME NEW p, NEW q, NEW d, GoesBy(p, q, d), CanRun(p)
    PROVE  CanRun(q)
BY DEF GoesBy, KeepsBy, Stays, CanRun, FreeLinks

Busier(p, d) == [p EXCEPT !.busyCounter = @ + d]

LEMMA BusierGoes ==
    ASSUME NEW p, Fits(p), NEW d \in Int
    PROVE  GoesBy(p, Busier(p, d), d)
<1> DEFINE b == p.busyCounter + d
           q == [p EXCEPT !.busyCounter = b]
<1>1. p \in Page /\ p \in Parts
    BY PageHasParts DEF Fits
<1>2. b \in Int
    BY CountsOfPage
<1>3. Busier(p, d) = q
    BY DEF Busier
<1>4. b = p.busyCounter + d
    OBVIOUS
<1> HIDE DEF b
<1>5. q \in Parts
    BY <1>1, <1>2 DEF Parts
<1>6. /\ q.busyCounter = b /\ q.blockingCount = p.blockingCount /\ q.fetches = p.fetches /\ q.threw = p.threw
      /\ SameLinks(p, q) /\ SameCalls(p, q) /\ SameLogin(p, q)
    BY <1>1 DEF Page, SameLinks, SameCalls, SameLogin
<1> HIDE DEF q
<1>7. Fits(q)
    BY <1>5, <1>6, CallsFit, PageHasParts DEF SameLinks
<1>c. Cardinality(p.fetches) \in Nat /\ One(p.blockingCount > 0) \in Int /\ p.busyCounter \in Int /\ Slack(p) \in Int
    BY CountsOfPage DEF One
<1>d. Slack(q) = Slack(p) + d
    BY <1>4, <1>6, <1>c DEF Slack
<1>8. Slack(q) = Slack(p) + d /\ Slack(p) \in Int /\ (Counted(p) <=> Counted(q))
    BY <1>6, <1>c, <1>d DEF SameCalls, Counted, Blocks
<1>9. (LoginGoesOn(p) => LoginGoesOn(q)) /\ StartsNot(p, q)
    BY <1>6 DEF LoginGoesOn, SameLogin, SameCalls, Waits, StartsNot, Started
<1> QED BY <1>3, <1>6, <1>7, <1>8, <1>9 DEF GoesBy, KeepsBy, Stays, SameLinks

\* A set of numbers that is not empty has a least number.
LEMMA LeastOfNumbers ==
    ASSUME NEW S \in SUBSET Nat, S # {}
    PROVE  \E n \in S : \A k \in S : n <= k
<1> DEFINE R == {ss \in Nat \X Nat : ss[1] < ss[2]}
<1>1. OpToRel(<, Nat) = R
    BY DEF OpToRel
<1>3. \A k, n \in Nat : <<k, n>> \notin R => n <= k
    OBVIOUS
<1> HIDE DEF R
<1>2. IsWellFoundedOn(R, Nat)
    BY <1>1, NatLessThanWellFounded
<1>4. PICK n \in S : \A k \in S : ~(<<k, n>> \in R)
    BY <1>2, WFMin
<1> QED BY <1>3, <1>4

LEMMA LeastLink ==
    ASSUME NEW p, FreeLinks(p) # {}
    PROVE  \E l \in FreeLinks(p) : \A k \in FreeLinks(p) : l <= k
BY LeastOfNumbers, ClientAssumption DEF FreeLinks

LEMMA ConnectRuns ==
    ASSUME NEW p, Fits(p), FreeLinks(p) # {}
    PROVE  /\ Keeps(p, WsConnect(p)) /\ StartsNot(p, WsConnect(p)) /\ Connects(p, WsConnect(p))
           /\ SameCalls(p, WsConnect(p)) /\ SameBusy(p, WsConnect(p)) /\ SameLogin(p, WsConnect(p))
<1> DEFINE l == CHOOSE l \in FreeLinks(p) : \A k \in FreeLinks(p) : l <= k
           f == [p.link EXCEPT ![l] = "connecting"]
           q == [p EXCEPT !.link = f, !.conn = l]
<1>1. p \in Page /\ p \in Parts
    BY PageHasParts DEF Fits
<1>2. l \in FreeLinks(p)
    BY LeastLink
<1>3. l \in Links /\ p.link[l] = "none"
    BY <1>2 DEF FreeLinks
<1>4. f \in LinkStates
    BY <1>1, <1>3, PartsOfPage DEF LinkStates
<1>5. WsConnect(p) = q
    BY <1>1 DEF WsConnect
<1>6. f = [p.link EXCEPT ![l] = "connecting"]
    OBVIOUS
<1> HIDE DEF l, f
<1>7. q \in Parts
    BY <1>1, <1>3, <1>4 DEF Parts
<1>8. /\ q.link = f /\ q.conn = l /\ q.news = p.news /\ q.wsConnected = p.wsConnected
      /\ SameCalls(p, q) /\ SameBusy(p, q) /\ SameLogin(p, q)
    BY <1>1 DEF Page, SameBusy, SameCalls, SameLogin
<1> HIDE DEF q
<1>9. Fits(q)
    BY <1>7, <1>8, CallsFit, PageHasParts DEF SameBusy
<1>10. Slack(q) = Slack(p) /\ Slack(p) \in Int /\ (Counted(p) <=> Counted(q))
    BY <1>8, CountsOfPage DEF Slack, SameBusy, SameCalls, Counted, Blocks
<1>11. (LoginGoesOn(p) => LoginGoesOn(q)) /\ StartsNot(p, q)
    BY <1>8 DEF LoginGoesOn, SameLogin, SameCalls, Waits, StartsNot, Started
<1>12. Connects(p, q)
    BY <1>3, <1>6, <1>8 DEF Connects
<1>13. Keeps(p, q)
    BY <1>8, <1>9, <1>10, <1>11 DEF Keeps, SameBusy
<1> QED BY <1>5, <1>8, <1>11, <1>12, <1>13

\* as KeepsBy, whatever becomes of the login
Serves(p, q, d) ==
    /\ Fits(q)
    /\ q.news = p.news /\ q.wsConnected = p.wsConnected
    /\ Counted(p) => Counted(q)
    /\ ~q.threw => ~p.threw /\ Slack(q) <= Slack(p) + d

LEMMA ServesFirst ==
    ASSUME NEW p, NEW q, NEW r, NEW d \in Int, NEW e \in Int, Fits(p), Serves(p, q, d), Serves(q, r, e)
    PROVE  Serves(p, r, d + e)
<1>1. Slack(p) \in Int /\ Slack(q) \in Int /\ Slack(r) \in Int
    BY CountsOfPage DEF Serves
<1> QED BY <1>1 DEF Serves

LEMMA ServesKeeps ==
    ASSUME NEW p, NEW q, NEW d
    PROVE  KeepsBy(p, q, d) <=> Serves(p, q, d) /\ (LoginGoesOn(p) => LoginGoesOn(q))
BY DEF KeepsBy, Serves

LEMMA KeepsServes ==
    ASSUME NEW p, NEW q, Fits(p), Keeps(p, q)
    PROVE  Serves(p, q, 0)
BY KeepsByNone, ServesKeeps

LEMMA SameServes ==
    ASSUME NEW p, NEW q \in Page, Fits(p), SameLinks(p, q), SameCalls(p, q), SameBusy(p, q)
    PROVE  Serves(p, q, 0) /\ Stays(p, q)
<1>1. Fits(q)
    BY CallsFit DEF SameLinks, SameBusy
<1>2. Slack(q) = Slack(p) /\ Slack(p) \in Int /\ (Counted(p) <=> Counted(q))
    BY CountsOfPage DEF Slack, SameBusy, SameCalls, Counted, Blocks
<1> QED BY <1>1, <1>2 DEF Serves, Stays, SameLinks, SameBusy

\* a login with another state of its own
WithLogin(p, ready, loading, token, keys, captions) ==
    [p EXCEPT !.loginReady = ready, !.loading = loading, !.token = token, !.keys = keys, !.captions = captions]

HasLogin(p, q, ready, loading, token, keys, captions) ==
    /\ Serves(p, q, 0) /\ Stays(p, q) /\ SameCalls(p, q) /\ q.appReady = p.appReady /\ q.access = p.access
    /\ q.loginReady = ready /\ q.loading = loading /\ q.token = token
    /\ q.keys = keys /\ q.captions = captions

LEMMA LoginServes ==
    ASSUME NEW p, Fits(p), NEW ready \in BOOLEAN, NEW loading \in BOOLEAN, NEW token \in BOOLEAN,
           NEW keys \in Nat, NEW captions \in Nat
    PROVE  HasLogin(p, WithLogin(p, ready, loading, token, keys, captions), ready, loading, token, keys, captions)
<1> DEFINE q == [p EXCEPT !.loginReady = ready, !.loading = loading, !.token = token,
                          !.keys = keys, !.captions = captions]
<1>1. p \in Page /\ p \in Parts
    BY PageHasParts DEF Fits
<1>2. q \in Parts
    BY <1>1 DEF Parts
<1>3. /\ SameLinks(p, q) /\ SameCalls(p, q) /\ SameBusy(p, q) /\ q.appReady = p.appReady /\ q.access = p.access
      /\ q.loginReady = ready /\ q.loading = loading /\ q.token = token
      /\ q.keys = keys /\ q.captions = captions
    BY <1>1 DEF Page, SameLinks, SameCalls, SameBusy
<1>4. WithLogin(p, ready, loading, token, keys, captions) = q
    BY DEF WithLogin
<1> HIDE DEF q
<1>5. Serves(p, q, 0) /\ Stays(p, q)
    BY <1>2, <1>3, SameServes, PageHasParts
<1> QED BY <1>3, <1>4, <1>5 DEF HasLogin

\* a page with another state of what is shown
WithSchema(p, public, schema, admin, access, meta1, map1) ==
    [p EXCEPT !.publicLoaded = public, !.schemaLoaded = schema, !.isAdmin = admin, !.access = access,
              !.moduleIdMapMeta = meta1, !.moduleIdMap = map1]

LEMMA SchemaGoes ==
    ASSUME NEW p, Fits(p), NEW public \in BOOLEAN, NEW schema \in BOOLEAN, NEW admin \in BOOLEAN,
           NEW access \in BOOLEAN, NEW meta1 \in Versions, NEW map1 \in Versions
    PROVE  Goes(p, WithSchema(p, public, schema, admin, access, meta1, map1))
<1> DEFINE q == [p EXCEPT !.publicLoaded = public, !.schemaLoaded = schema, !.isAdmin = admin,
                          !.access = access, !.moduleIdMapMeta = meta1, !.moduleIdMap = map1]
<1>1. p \in Page /\ p \in Parts
    BY PageHasParts DEF Fits
<1>2. q \in Parts
    BY <1>1 DEF Parts
<1>3. SameLinks(p, q) /\ SameCalls(p, q) /\ SameBusy(p, q) /\ SameLogin(p, q)
    BY <1>1 DEF Page, SameLinks, SameCalls, SameBusy, SameLogin
<1>4. WithSchema(p, public, schema, admin, access, meta1, map1) = q
    BY DEF WithSchema
<1> HIDE DEF q
<1> QED BY <1>2, <1>3, <1>4, SameGoes, PageHasParts

LEMMA ReadyIsLogin ==
    ASSUME NEW p \in Page
    PROVE  /\ [p EXCEPT !.loginReady = TRUE] = WithLogin(p, TRUE, p.loading, p.token, p.keys, p.captions)
           /\ [[p EXCEPT !.loginReady = TRUE] EXCEPT !.loading = TRUE] =
                WithLogin(p, TRUE, TRUE, p.token, p.keys, p.captions)
BY DEF WithLogin, Page

LEMMA AdminIsSchema ==
    ASSUME NEW p \in Page, NEW a
    PROVE  [p EXCEPT !.isAdmin = a] = 
             WithSchema(p, p.publicLoaded, p.schemaLoaded, a, p.access, p.moduleIdMapMeta, p.moduleIdMap)
BY DEF WithSchema, Page

\* The login is offered, and made at once with a token.
LEMMA LoginReadyGoes ==
    ASSUME NEW p, Fits(p)
    PROVE  Goes(p, LoginReady(p))
<1> DEFINE yes == TRUE
           q == WithLogin(p, yes, p.loading, p.token, p.keys, p.captions)
           r == WithLogin(p, yes, yes, p.token, p.keys, p.captions)
           s == LoginReady(p)
<1>y. yes \in BOOLEAN /\ yes
    OBVIOUS
<1>4. s = IF p.appReady \/ ~p.token THEN q ELSE Send(r, "authToken")
  <2>1. p \in Page
      BY DEF Fits
  <2> QED BY <2>1, ReadyIsLogin DEF LoginReady
<1> HIDE DEF yes
<1>1. /\ p \in Page /\ p.loading \in BOOLEAN /\ p.token \in BOOLEAN /\ p.appReady \in BOOLEAN
      /\ p.keys \in Nat /\ p.captions \in Nat
    BY PartsOfPage DEF Fits
<1>2. /\ Serves(p, q, 0) /\ Stays(p, q) /\ SameCalls(p, q) /\ q.appReady = p.appReady
      /\ q.loginReady /\ q.loading = p.loading /\ q.token = p.token /\ q.keys = p.keys /\ q.captions = p.captions
  <2>1. HasLogin(p, q, yes, p.loading, p.token, p.keys, p.captions)
      BY <1>1, <1>y, LoginServes
  <2> QED BY <1>y, <2>1 DEF HasLogin
<1>3. /\ Serves(p, r, 0) /\ Stays(p, r) /\ SameCalls(p, r) /\ r.appReady = p.appReady
      /\ r.loginReady /\ r.loading /\ r.token = p.token /\ r.keys = p.keys /\ r.captions = p.captions
  <2>1. HasLogin(p, r, yes, yes, p.token, p.keys, p.captions)
      BY <1>1, <1>y, LoginServes
  <2> QED BY <1>y, <2>1 DEF HasLogin
<1> HIDE DEF q, r, s
<1>5. StartsNot(p, q) /\ StartsNot(p, r)
    BY <1>2, <1>3 DEF StartsNot, Started, SameCalls, Waits
<1>6. CASE p.appReady \/ ~p.token
  <2>1. s = q
      BY <1>4, <1>6
  <2>2. LoginGoesOn(p) => LoginGoesOn(q)
      BY <1>2, <1>6 DEF LoginGoesOn, SameCalls, Waits
  <2> QED BY <1>2, <1>5, <2>1, <2>2, KeepsByNone, ServesKeeps DEF Goes, s
<1>7. CASE ~(p.appReady \/ ~p.token)
  <2>1. s = Send(r, "authToken")
      BY <1>4, <1>7
  <2>2. Fits(r) /\ LoginMay(r)
      BY <1>3, <1>7 DEF Serves, LoginMay
  <2>3. Keeps(r, s) /\ Stays(r, s) /\ StartsNot(r, s) /\ LoginGoesOn(s)
      BY <2>1, <2>2, SendKeeps DEF Kinds, Blocking
  <2>4. Serves(p, s, 0)
    <3>1. Serves(r, s, 0)
        BY <2>2, <2>3, KeepsServes
    <3>2. Serves(p, s, 0 + 0)
        BY <1>3, <3>1, ServesFirst
    <3> QED BY <3>2
  <2>5. Keeps(p, s)
      BY <2>3, <2>4, KeepsByNone, ServesKeeps
  <2> QED BY <1>3, <1>5, <2>3, <2>5 DEF Goes, Stays, StartsNot, s
<1> QED BY <1>6, <1>7

LEMMA SendGoes ==
    ASSUME NEW p, Fits(p), NEW kind \in Kinds \ {"start"}
    PROVE  Goes(p, Send(p, kind))
BY SendKeeps DEF Goes

\* The page goes on: it connects, asks for the public data, or offers the login.
LEMMA StateChange2Runs ==
    ASSUME NEW p, Fits(p), CanRun(p)
    PROVE  Runs(p, StateChange2(p), 0)
<1>1. p.wsConnected \in BOOLEAN /\ p.publicLoaded \in BOOLEAN /\ p.loginReady \in BOOLEAN
    BY PartsOfPage DEF Fits
<1>2. CASE ~p.wsConnected
  <2>1. StateChange2(p) = WsConnect(p) /\ FreeLinks(p) # {}
      BY <1>2 DEF StateChange2, CanRun
  <2> QED BY <1>2, <2>1, ConnectRuns, KeepsByNone DEF Runs
<1>3. CASE p.wsConnected /\ ~p.publicLoaded
  <2>1. StateChange2(p) = Send(p, "public")
      BY <1>3 DEF StateChange2
  <2>2. Goes(p, Send(p, "public"))
      BY SendGoes DEF Kinds
  <2> QED BY <2>1, <2>2, GoesByNone, GoesRuns
<1>4. CASE p.wsConnected /\ p.publicLoaded /\ ~p.loginReady
  <2>1. StateChange2(p) = LoginReady(p)
      BY <1>4 DEF StateChange2
  <2> QED BY <2>1, LoginReadyGoes, GoesByNone, GoesRuns
<1>5. CASE p.wsConnected /\ p.publicLoaded /\ p.loginReady
  <2>1. StateChange2(p) = p
      BY <1>5 DEF StateChange2
  <2> QED BY <2>1, NothingGoes, GoesByNone, GoesRuns
<1> QED BY <1>1, <1>2, <1>3, <1>4, <1>5

LEMMA AppEnableGoes ==
    ASSUME NEW p, Fits(p), login \in Case
    PROVE  Goes(p, AppEnable(p)) /\ (LoginMay(p) => LoginGoesOn(AppEnable(p)))
<1> DEFINE q == WithSchema(p, p.publicLoaded, p.schemaLoaded, login.admin, p.access, p.moduleIdMapMeta, p.moduleIdMap)
<1>1. /\ p \in Page /\ p.publicLoaded \in BOOLEAN /\ p.schemaLoaded \in BOOLEAN /\ p.access \in BOOLEAN
      /\ p.moduleIdMapMeta \in Versions /\ p.moduleIdMap \in Versions /\ login.admin \in BOOLEAN
      /\ p.appReady \in BOOLEAN
    BY PartsOfPage DEF Fits, Case
<1>2. Goes(p, q)
    BY <1>1, SchemaGoes
<1>3. AppEnable(p) = IF p.appReady THEN q ELSE Send(q, "app")
    BY <1>1, AdminIsSchema DEF AppEnable
<1>4. SameCalls(p, q) /\ SameLogin(p, q)
    BY <1>1 DEF WithSchema, Page, SameCalls, SameLogin
<1> HIDE DEF q
<1>5. Fits(q) /\ (LoginMay(p) => LoginMay(q))
    BY <1>2, <1>4 DEF Goes, Keeps, LoginMay, SameCalls, SameLogin, Waits
<1>6. CASE p.appReady
  <2>1. AppEnable(p) = q
      BY <1>3, <1>6
  <2>2. LoginMay(p) => LoginGoesOn(p)
      BY <1>6 DEF LoginMay, LoginGoesOn
  <2> QED BY <1>2, <2>1, <2>2 DEF Goes, Keeps
<1>7. CASE ~p.appReady
  <2>1. AppEnable(p) = Send(q, "app")
      BY <1>3, <1>7
  <2>2. Goes(q, AppEnable(p)) /\ (LoginMay(q) => LoginGoesOn(AppEnable(p)))
      BY <1>5, <2>1, SendKeeps DEF Kinds, Blocking, Goes
  <2> QED BY <1>2, <1>5, <2>2, GoesFirst
<1> QED BY <1>6, <1>7

LEMMA CollectionsKeep ==
    ASSUME NEW p, Fits(p), NEW kind \in {"start", "collections"}
    PROVE  LET q == UpdateCollections(p, kind)
           IN  /\ Keeps(p, q) /\ Stays(p, q)
               /\ kind # "start" => StartsNot(p, q)
               /\ LoginMay(p) /\ kind = "start" => LoginGoesOn(q)
<1>1. p.access \in BOOLEAN
    BY PartsOfPage DEF Fits
<1>2. CASE p.access
  <2>1. UpdateCollections(p, kind) = Send(p, kind)
      BY <1>2 DEF UpdateCollections
  <2>2. kind \in Kinds
      BY DEF Kinds
  <2> QED BY <2>1, <2>2, SendKeeps
<1>3. CASE ~p.access /\ kind = "start"
  <2>1. UpdateCollections(p, kind) = Ready(p)
      BY <1>3 DEF UpdateCollections
  <2> QED BY <1>3, <2>1, ReadyKeeps
<1>4. CASE ~p.access /\ kind = "collections"
  <2>1. UpdateCollections(p, kind) = p
      BY <1>4 DEF UpdateCollections
  <2> QED BY <1>4, <2>1, NothingGoes DEF Goes
<1> QED BY <1>1, <1>2, <1>3, <1>4

LEMMA ConfigGoes ==
    ASSUME NEW p, Fits(p)
    PROVE  Goes(p, ConfigChanged(p))
<1> DEFINE q == IF p.isAdmin THEN Send(p, "config") ELSE p
<1>1. Goes(p, q)
    BY SendGoes, NothingGoes DEF Kinds, Blocking
<1>2. ConfigChanged(p) = Send(q, "public")
    BY DEF ConfigChanged
<1> HIDE DEF q
<1>3. Goes(q, ConfigChanged(p))
    BY <1>1, <1>2, SendGoes DEF Kinds, Goes, Keeps
<1> QED BY <1>1, <1>3, GoesFirst

-----------------------------------------------------------------------------
(* The schema.                                                               *)

LEMMA BusierIs ==
    ASSUME NEW p, Fits(p)
    PROVE  /\ [p EXCEPT !.busyCounter = @ - 1] = Busier(p, -1)
           /\ [p EXCEPT !.busyCounter = @ + 1] = Busier(p, 1)
<1>1. p.busyCounter \in Int
    BY CountsOfPage
<1>2. p.busyCounter - 1 = p.busyCounter + (-1)
    BY <1>1
<1> QED BY <1>2 DEF Busier

LEMMA SchemaIsStored ==
    ASSUME NEW p \in Page, NEW f, NEW new
    PROVE  /\ [p EXCEPT !.moduleIdMap = f, !.moduleIdMapMeta = new, !.schemaLoaded = TRUE] =
                WithSchema(p, p.publicLoaded, TRUE, p.isAdmin, p.access, new, f)
           /\ [p EXCEPT !.moduleIdMapMeta = new, !.publicLoaded = TRUE] =
                WithSchema(p, TRUE, p.schemaLoaded, p.isAdmin, p.access, new, p.moduleIdMap)
           /\ [p EXCEPT !.moduleIdMap = f] =
                WithSchema(p, p.publicLoaded, p.schemaLoaded, p.isAdmin, p.access, p.moduleIdMapMeta, f)
BY DEF WithSchema, Page

\* initSchema ends: the page goes on, and one reason to block the input is gone.
LEMMA SchemaDoneRuns ==
    ASSUME NEW p, Fits(p), CanRun(p), NEW new \in Versions, NEW get, NEW got \in Versions
    PROVE  Runs(p, SchemaDone(p, new, get, got), -1)
<1> DEFINE yes == TRUE
           f == [m \in Modules |-> IF m \in get THEN got[m] ELSE p.moduleIdMap[m]]
           q == WithSchema(p, p.publicLoaded, yes, p.isAdmin, p.access, new, f)
           r == StateChange2(q)
<1>1. /\ p \in Page /\ p.publicLoaded \in BOOLEAN /\ p.isAdmin \in BOOLEAN /\ p.access \in BOOLEAN
      /\ p.moduleIdMap \in Versions
    BY PartsOfPage DEF Fits
<1>2. f \in Versions /\ yes \in BOOLEAN
    BY <1>1 DEF Versions
<1>3. SchemaDone(p, new, get, got) = [r EXCEPT !.busyCounter = @ - 1]
    BY <1>1, SchemaIsStored DEF SchemaDone
<1> HIDE DEF yes, f
<1>4. GoesBy(p, q, 0)
    BY <1>1, <1>2, SchemaGoes, GoesByNone
<1> HIDE DEF q
<1>5. Fits(q) /\ CanRun(q)
    BY <1>4, CanStillRun DEF GoesBy, KeepsBy
<1>6. Runs(q, r, 0)
    BY <1>5, StateChange2Runs
<1> HIDE DEF r
<1>7. Fits(r)
    BY <1>6 DEF Runs, KeepsBy
<1>8. SchemaDone(p, new, get, got) = Busier(r, -1) /\ GoesBy(r, Busier(r, -1), -1)
    BY <1>3, <1>7, BusierIs, BusierGoes
<1>9. Runs(p, r, 0 + 0)
    BY <1>4, <1>6, RunsAfter
<1>10. Runs(p, SchemaDone(p, new, get, got), (0 + 0) + (-1))
    BY <1>8, <1>9, RunsBefore
<1> QED BY <1>10

Kept(p, new) ==
    LET removed == {m \in Modules : p.moduleIdMapMeta[m] # 0 /\ new[m] = 0}
    IN  [m \in Modules |-> IF m \in removed THEN 0 ELSE p.moduleIdMap[m]]
FetchOf(p, new) ==
    [id |-> Least({f.id : f \in p.fetches}), new |-> new, get |-> ModulesFetch(p, new), got |-> NoModules]

LEMMA InitSchemaIs ==
    ASSUME NEW p \in Page, NEW new
    PROVE  LET busy == Busier(p, 1)
               kept == [busy EXCEPT !.moduleIdMap = Kept(p, new)]
           IN  InitSchema(p, new) =
                IF MetaUndefined(p, new) THEN [busy EXCEPT !.threw = TRUE]
                ELSE IF ModulesFetch(p, new) = {} THEN SchemaDone(kept, new, {}, NoModules)
                ELSE [kept EXCEPT !.fetches = @ \cup {FetchOf(p, new)}]
<1> DEFINE busy == Busier(p, 1)
<1>1. busy.moduleIdMap = p.moduleIdMap
    BY DEF Busier, Page
<1>2. busy = [p EXCEPT !.busyCounter = @ + 1]
    BY DEF Busier
<1> QED BY <1>1, <1>2 DEF InitSchema, Kept, FetchOf

LEMMA FetchGoes ==
    ASSUME NEW p, Fits(p), NEW f \in Fetches, \A g \in p.fetches : g.id # f.id
    PROVE  GoesBy(p, [p EXCEPT !.fetches = @ \cup {f}], -1)
<1> DEFINE s == p.fetches \cup {f}
           q == [p EXCEPT !.fetches = s]
<1>1. p \in Page /\ p \in Parts /\ p.fetches \subseteq Fetches /\ f \notin p.fetches
    BY PageHasParts, PartsOfPage DEF Fits
<1>2. s \in SUBSET Fetches
    BY <1>1
<1>3. IsFiniteSet(p.fetches)
    BY DEF Fits
<1>4. IsFiniteSet(s) /\ Cardinality(s) = Cardinality(p.fetches) + 1
    BY <1>1, <1>3, FS_AddElement
<1>5. \A g, h \in s : g.id = h.id => g = h
    BY DEF Fits
<1> HIDE DEF s
<1>6. q \in Parts
    BY <1>1, <1>2 DEF Parts
<1>7. /\ q.fetches = s /\ q.blockingCount = p.blockingCount /\ q.busyCounter = p.busyCounter /\ q.threw = p.threw
      /\ SameLinks(p, q) /\ SameCalls(p, q) /\ SameLogin(p, q)
    BY <1>1 DEF Page, SameLinks, SameCalls, SameLogin
<1>8. q = [p EXCEPT !.fetches = @ \cup {f}]
    BY DEF s
<1> HIDE DEF q
<1>9. Fits(q)
  <2>1. q \in Page
      BY <1>6, PageHasParts
  <2> QED BY <1>4, <1>5, <1>7, <2>1 DEF Fits, SameLinks, SameCalls
<1>10. Slack(q) = Slack(p) + (-1) /\ Slack(p) \in Int /\ (Counted(p) <=> Counted(q))
  <2>1. /\ Cardinality(p.fetches) \in Nat /\ One(p.blockingCount > 0) \in Int /\ p.busyCounter \in Int
        /\ Slack(p) \in Int
      BY CountsOfPage DEF One
  <2>2. Slack(q) = Slack(p) + (-1)
      BY <1>4, <1>7, <2>1 DEF Slack
  <2> QED BY <1>7, <2>1, <2>2 DEF Counted, Blocks, SameCalls
<1>11. (LoginGoesOn(p) => LoginGoesOn(q)) /\ StartsNot(p, q)
    BY <1>7 DEF LoginGoesOn, SameLogin, SameCalls, Waits, StartsNot, Started
<1> QED BY <1>7, <1>8, <1>9, <1>10, <1>11 DEF GoesBy, KeepsBy, Stays, SameLinks

LEMMA ThrewGoes ==
    ASSUME NEW p, Fits(p)
    PROVE  GoesBy(p, [p EXCEPT !.threw = TRUE], -1)
<1> DEFINE yes == TRUE
           q == [p EXCEPT !.threw = yes]
<1>1. p \in Page /\ p \in Parts /\ yes \in BOOLEAN /\ yes
    BY PageHasParts DEF Fits
<1>2. q = [p EXCEPT !.threw = TRUE]
    OBVIOUS
<1> HIDE DEF yes
<1>3. q \in Parts
    BY <1>1 DEF Parts
<1>4. /\ q.fetches = p.fetches /\ q.blockingCount = p.blockingCount /\ q.busyCounter = p.busyCounter
      /\ SameLinks(p, q) /\ SameCalls(p, q) /\ SameLogin(p, q)
    BY <1>1 DEF Page, SameLinks, SameCalls, SameLogin
<1>5. q.threw
    BY <1>1 DEF Page
<1> HIDE DEF q
<1>6. Fits(q)
    BY <1>3, <1>4, CallsFit, PageHasParts DEF SameLinks
<1>7. Counted(p) <=> Counted(q)
    BY <1>4 DEF SameCalls, Counted, Blocks
<1>8. (LoginGoesOn(p) => LoginGoesOn(q)) /\ StartsNot(p, q)
    BY <1>4 DEF LoginGoesOn, SameLogin, SameCalls, Waits, StartsNot, Started
<1> QED BY <1>2, <1>4, <1>5, <1>6, <1>7, <1>8 DEF GoesBy, KeepsBy, Stays, SameLinks

\* initSchema: the input stays blocked as long as modules are downloaded.
LEMMA InitSchemaRuns ==
    ASSUME NEW p, Fits(p), CanRun(p), NEW new \in Versions
    PROVE  Runs(p, InitSchema(p, new), 0)
<1> DEFINE busy == Busier(p, 1)
           f    == Kept(p, new)
           kept == [busy EXCEPT !.moduleIdMap = f]
           get  == ModulesFetch(p, new)
           one  == FetchOf(p, new)
           q    == InitSchema(p, new)
<1>1. /\ p \in Page /\ p.moduleIdMap \in Versions /\ IsFiniteSet(p.fetches)
    BY PartsOfPage DEF Fits
<1>2. f \in Versions /\ NoModules \in Versions
    BY <1>1 DEF Kept, NoModules, Versions
<1>3. q = IF MetaUndefined(p, new) THEN [busy EXCEPT !.threw = TRUE]
          ELSE IF get = {} THEN SchemaDone(kept, new, {}, NoModules)
          ELSE [kept EXCEPT !.fetches = @ \cup {one}]
    BY <1>1, InitSchemaIs
<1>4. GoesBy(p, busy, 1)
    BY BusierGoes
<1>5. busy.fetches = p.fetches
    BY <1>1 DEF Busier, Page
<1>6. one \in Fetches /\ \A g \in p.fetches : g.id # one.id
  <2> DEFINE ids == {g.id : g \in p.fetches}
  <2>1. IsFiniteSet(ids)
    <3> DEFINE h == [g \in p.fetches |-> g.id]
    <3>1. h \in Surjection(p.fetches, ids)
        BY DEF Surjection
    <3> QED BY <1>1, <3>1, FS_Surjection
  <2>2. Least(ids) \in Nat /\ Least(ids) \notin ids
      BY <2>1, LeastIsFree
  <2>3. one.id = Least(ids) /\ one = [id |-> one.id, new |-> new, get |-> get, got |-> NoModules]
      BY DEF FetchOf
  <2>4. get \in SUBSET Modules
      BY DEF ModulesFetch
  <2>5. one.id \in Nat /\ \A g \in p.fetches : g.id # one.id
      BY <2>2, <2>3
  <2> HIDE DEF one, get
  <2> QED BY <1>2, <2>3, <2>4, <2>5 DEF Fetches
<1> HIDE DEF busy, f, get, one, q
<1>7. Fits(busy) /\ CanRun(busy)
    BY <1>4, CanStillRun DEF GoesBy, KeepsBy
<1>8. /\ busy \in Page /\ busy.publicLoaded \in BOOLEAN /\ busy.schemaLoaded \in BOOLEAN
      /\ busy.isAdmin \in BOOLEAN /\ busy.access \in BOOLEAN /\ busy.moduleIdMapMeta \in Versions
    BY <1>7, PartsOfPage DEF Fits
<1>9. GoesBy(busy, kept, 0)
  <2>1. kept = WithSchema(busy, busy.publicLoaded, busy.schemaLoaded, busy.isAdmin, busy.access, busy.moduleIdMapMeta, f)
      BY <1>8, SchemaIsStored
  <2> HIDE DEF kept
  <2> QED BY <1>2, <1>7, <1>8, <2>1, SchemaGoes, GoesByNone
<1>10. kept.fetches = p.fetches
    BY <1>5, <1>8 DEF Page
<1> HIDE DEF kept
<1>11. Fits(kept) /\ CanRun(kept)
    BY <1>7, <1>9, CanStillRun DEF GoesBy, KeepsBy
<1>12. CASE MetaUndefined(p, new)
  <2>1. q = [busy EXCEPT !.threw = TRUE]
      BY <1>3, <1>12
  <2>2. Runs(busy, q, -1)
      BY <1>7, <2>1, ThrewGoes, GoesRuns
  <2>3. Runs(p, q, 1 + (-1))
      BY <1>4, <2>2, RunsAfter
  <2> QED BY <2>3 DEF q
<1>13. CASE ~MetaUndefined(p, new)
  <2>1. Runs(kept, q, -1)
    <3>1. CASE get = {}
      <4>1. q = SchemaDone(kept, new, {}, NoModules)
          BY <1>3, <1>13, <3>1
      <4> QED BY <1>2, <1>11, <4>1, SchemaDoneRuns
    <3>2. CASE get # {}
      <4>1. q = [kept EXCEPT !.fetches = @ \cup {one}]
          BY <1>3, <1>13, <3>2
      <4> QED BY <1>6, <1>10, <1>11, <4>1, FetchGoes, GoesRuns
    <3> QED BY <3>1, <3>2
  <2>2. Runs(busy, q, 0 + (-1))
      BY <1>7, <1>9, <2>1, RunsAfter
  <2>3. Runs(p, q, 1 + (0 + (-1)))
      BY <1>4, <2>2, RunsAfter
  <2> QED BY <2>3 DEF q
<1> QED BY <1>12, <1>13

LEMMA StateChangeRuns ==
    ASSUME NEW p, Fits(p), CanRun(p)
    PROVE  Runs(p, StateChange(p), 0)
<1>1. p.moduleIdMapMeta \in Versions
    BY PartsOfPage DEF Fits
<1> QED BY <1>1, InitSchemaRuns, StateChange2Runs DEF StateChange

\* A message of the server.
Change(n) == CASE n.kind = "schemaLoading" -> 1 [] n.kind = "schemaLoaded" -> -1 [] OTHER -> 0

LEMMA BackendRequestRuns ==
    ASSUME NEW p, Fits(p), CanRun(p), NEW n \in Told
    PROVE  Runs(p, BackendRequest(p, n), Change(n))
<1>1. n.kind \in NewsKinds /\ n.meta \in Versions
    BY DEF Told
<1>2. CASE n.kind = "schemaLoading"
  <2>1. BackendRequest(p, n) = Busier(p, 1) /\ Change(n) = 1
      BY <1>2, BusierIs DEF BackendRequest, Change
  <2> QED BY <2>1, BusierGoes, GoesRuns
<1>3. CASE n.kind = "schemaLoaded"
  <2> DEFINE q == Busier(p, -1)
  <2>1. BackendRequest(p, n) = InitSchema(q, n.meta) /\ Change(n) = -1
      BY <1>3, BusierIs DEF BackendRequest, Change
  <2>2. GoesBy(p, q, -1)
      BY BusierGoes
  <2> HIDE DEF q
  <2>3. Fits(q) /\ CanRun(q)
      BY <2>2, CanStillRun DEF GoesBy, KeepsBy
  <2>4. Runs(q, InitSchema(q, n.meta), 0)
      BY <1>1, <2>3, InitSchemaRuns
  <2>5. Runs(p, InitSchema(q, n.meta), (-1) + 0)
      BY <2>2, <2>4, RunsAfter
  <2> QED BY <2>1, <2>5
<1>4. CASE n.kind = "configChanged"
  <2>1. BackendRequest(p, n) = ConfigChanged(p) /\ Change(n) = 0
      BY <1>4 DEF BackendRequest, Change
  <2> QED BY <2>1, ConfigGoes, GoesByNone, GoesRuns
<1>5. CASE n.kind = "collectionChanged"
  <2> DEFINE q == UpdateCollections(p, "collections")
  <2>1. BackendRequest(p, n) = ConfigChanged(q) /\ Change(n) = 0
      BY <1>5 DEF BackendRequest, Change
  <2>2. Goes(p, q)
      BY CollectionsKeep DEF Goes
  <2> HIDE DEF q
  <2>3. Goes(q, ConfigChanged(q))
      BY <2>2, ConfigGoes DEF Goes, Keeps
  <2> QED BY <2>1, <2>2, <2>3, GoesFirst, GoesByNone, GoesRuns
<1>6. CASE n.kind = "reauthorized"
  <2>1. BackendRequest(p, n) \in {Send(p, "access"), p} /\ Change(n) = 0
      BY <1>6 DEF BackendRequest, Change
  <2>2. Goes(p, BackendRequest(p, n))
      BY <2>1, SendGoes, NothingGoes DEF Kinds, Blocking
  <2> QED BY <2>1, <2>2, GoesByNone, GoesRuns
<1> QED BY <1>1, <1>2, <1>3, <1>4, <1>5, <1>6 DEF NewsKinds

-----------------------------------------------------------------------------
(* Responses.                                                                *)

WithCalls(p, calls, wire) == [p EXCEPT !.wire = wire, !.transactions = calls]

LEMMA FewerCallsFit ==
    ASSUME NEW p, Fits(p), NEW calls \in SUBSET p.transactions, NEW wire \in SUBSET p.wire
    PROVE  LET q == WithCalls(p, calls, wire)
           IN  /\ Fits(q) /\ q.transactions = calls /\ q.wire = wire
               /\ SameLinks(p, q) /\ SameBusy(p, q) /\ SameLogin(p, q)
<1> DEFINE q == [p EXCEPT !.wire = wire, !.transactions = calls]
<1>1. p \in Page /\ p \in Parts /\ p.transactions \subseteq Tickets /\ p.wire \subseteq Wires
    BY PageHasParts, PartsOfPage DEF Fits
<1>2. calls \in SUBSET Tickets /\ wire \in SUBSET Wires
    BY <1>1
<1>3. q \in Parts
    BY <1>1, <1>2 DEF Parts
<1>4. q.transactions = calls /\ q.wire = wire /\ SameLinks(p, q) /\ SameBusy(p, q) /\ SameLogin(p, q)
    BY <1>1 DEF Page, SameLinks, SameBusy, SameLogin
<1>5. WithCalls(p, calls, wire) = q
    BY DEF WithCalls
<1> HIDE DEF q
<1>6. IsFiniteSet(p.transactions) /\ IsFiniteSet(p.wire)
    BY DEF Fits
<1>7. IsFiniteSet(calls) /\ IsFiniteSet(wire)
    BY <1>6, FS_Subset
<1>8. Fits(q)
  <2>1. q \in Page
      BY <1>3, PageHasParts
  <2> QED BY <1>4, <1>7, <2>1 DEF Fits, SameLinks, SameBusy
<1> QED BY <1>4, <1>5, <1>8

LEMMA UnblockIs ==
    ASSUME NEW p, Fits(p), NEW kind
    PROVE  LET q == Unblock(p, kind)
           IN  /\ Fits(q) /\ SameLinks(p, q) /\ SameCalls(p, q) /\ SameLogin(p, q)
               /\ q.fetches = p.fetches /\ q.threw = p.threw
               /\ \/ kind \notin Blocking /\ q.blockingCount = p.blockingCount /\ q.busyCounter = p.busyCounter
                  \/ /\ kind \in Blocking /\ p.blockingCount > 1
                     /\ q.blockingCount = p.blockingCount - 1 /\ q.busyCounter = p.busyCounter
                  \/ /\ kind \in Blocking /\ p.blockingCount <= 1
                     /\ q.blockingCount = 0 /\ q.busyCounter = p.busyCounter - 1
<1> DEFINE q == Unblock(p, kind)
           c == p.blockingCount - 1
           b == p.busyCounter - 1
           z == 0
           r == [p EXCEPT !.blockingCount = c]
           s == [p EXCEPT !.blockingCount = z, !.busyCounter = b]
<1>1. p \in Page /\ p \in Parts /\ p.blockingCount \in Nat /\ p.busyCounter \in Int
    BY PageHasParts, CountsOfPage DEF Fits
<1>2. b \in Int /\ b = p.busyCounter - 1 /\ c = p.blockingCount - 1 /\ z \in Nat /\ z = 0
    BY <1>1
<1>3. p.blockingCount > 1 => c \in Nat
    BY <1>1
<1>4. q = IF kind \notin Blocking THEN p ELSE IF p.blockingCount > 1 THEN r ELSE s
    BY DEF Unblock
<1> HIDE DEF q, b, c, z
<1>5. SameLinks(p, r) /\ SameCalls(p, r) /\ SameLogin(p, r) /\ r.fetches = p.fetches /\ r.threw = p.threw
      /\ r.blockingCount = c /\ r.busyCounter = p.busyCounter
    BY <1>1 DEF Page, SameLinks, SameCalls, SameLogin
<1>6. SameLinks(p, s) /\ SameCalls(p, s) /\ SameLogin(p, s) /\ s.fetches = p.fetches /\ s.threw = p.threw
      /\ s.blockingCount = z /\ s.busyCounter = b
    BY <1>1 DEF Page, SameLinks, SameCalls, SameLogin
<1>7. c \in Nat => r \in Parts
    BY <1>1 DEF Parts
<1>8. s \in Parts
    BY <1>1, <1>2 DEF Parts
<1> HIDE DEF r, s
<1>9. c \in Nat => Fits(r)
    BY <1>5, <1>7, CallsFit, PageHasParts DEF SameLinks
<1>10. Fits(s)
    BY <1>6, <1>8, CallsFit, PageHasParts DEF SameLinks
<1>11. CASE kind \notin Blocking
  <2>1. q = p
      BY <1>4, <1>11
  <2> QED BY <1>11, <2>1 DEF q, SameLinks, SameCalls, SameLogin
<1>12. CASE kind \in Blocking /\ p.blockingCount > 1
  <2>1. q = r
      BY <1>4, <1>12
  <2> QED BY <1>2, <1>3, <1>5, <1>9, <1>12, <2>1 DEF q
<1>13. CASE kind \in Blocking /\ ~(p.blockingCount > 1)
  <2>1. q = s
      BY <1>4, <1>13
  <2>2. p.blockingCount <= 1
      BY <1>1, <1>13
  <2> QED BY <1>2, <1>6, <1>10, <1>13, <2>1, <2>2 DEF q
<1> QED BY <1>11, <1>12, <1>13

\* The transactions a response is of: one, of its kind, or none.
CallsOf(p, w) == {u \in p.transactions : u.id = w.id}

LEMMA CallIsOne ==
    ASSUME NEW p, Fits(p), NEW w \in p.wire, CallsOf(p, w) # {}
    PROVE  \E u \in p.transactions : CallsOf(p, w) = {u} /\ u.kind = w.kind
BY DEF Fits, CallsOf

\* A response that is of no transaction is discarded.
LEMMA DiscardGoes ==
    ASSUME NEW p, Fits(p), NEW wire \in SUBSET p.wire
    PROVE  Goes(p, WithCalls(p, p.transactions, wire))
<1> DEFINE q == WithCalls(p, p.transactions, wire)
<1>1. /\ Fits(q) /\ q.transactions = p.transactions /\ SameLinks(p, q) /\ SameBusy(p, q) /\ SameLogin(p, q)
    BY FewerCallsFit
<1> HIDE DEF q
<1>2. Slack(q) = Slack(p) /\ Slack(p) \in Int /\ (Counted(p) <=> Counted(q))
    BY <1>1, CountsOfPage DEF Slack, SameBusy, Counted, Blocks
<1>3. (LoginGoesOn(p) => LoginGoesOn(q)) /\ StartsNot(p, q)
    BY <1>1 DEF LoginGoesOn, SameLogin, Waits, StartsNot, Started
<1>4. Goes(p, q)
    BY <1>1, <1>2, <1>3 DEF Goes, Keeps, Stays, SameLinks, SameBusy
<1> QED BY <1>4 DEF q

\* the page when a response has been received, before its promise ends
Answered(p, w) == Unblock(WithCalls(p, p.transactions \ CallsOf(p, w), p.wire \ {w}), w.kind)

LEMMA AnsweredServes ==
    ASSUME NEW p, Fits(p), NEW w \in p.wire, CallsOf(p, w) # {}
    PROVE  LET q == Answered(p, w)
           IN  /\ Serves(p, q, 0) /\ Stays(p, q) /\ SameLogin(p, q)
               /\ w.kind \in Kinds /\ Waits(p, {w.kind})
               /\ \A K : w.kind \notin K => (Waits(q, K) <=> Waits(p, K))
               /\ \A K : Waits(q, K) => Waits(p, K)
<1> DEFINE r == WithCalls(p, p.transactions \ CallsOf(p, w), p.wire \ {w})
           q == Unblock(r, w.kind)
<1>1. PICK u \in p.transactions : CallsOf(p, w) = {u} /\ u.kind = w.kind
    BY CallIsOne
<1>2. /\ Fits(r) /\ r.transactions = p.transactions \ {u}
      /\ SameLinks(p, r) /\ SameBusy(p, r) /\ SameLogin(p, r)
    BY <1>1, FewerCallsFit
<1> HIDE DEF r
<1>3. /\ Fits(q) /\ SameLinks(r, q) /\ SameCalls(r, q) /\ SameLogin(r, q)
      /\ q.fetches = r.fetches /\ q.threw = r.threw
      /\ \/ w.kind \notin Blocking /\ q.blockingCount = r.blockingCount /\ q.busyCounter = r.busyCounter
         \/ /\ w.kind \in Blocking /\ r.blockingCount > 1
            /\ q.blockingCount = r.blockingCount - 1 /\ q.busyCounter = r.busyCounter
         \/ /\ w.kind \in Blocking /\ r.blockingCount <= 1
            /\ q.blockingCount = 0 /\ q.busyCounter = r.busyCounter - 1
    BY <1>2, UnblockIs
<1>4. Answered(p, w) = q
    BY DEF Answered, r
<1> HIDE DEF q
<1>5. /\ SameLinks(p, q) /\ SameLogin(p, q) /\ q.fetches = p.fetches /\ q.threw = p.threw
      /\ q.transactions = p.transactions \ {u}
    BY <1>2, <1>3 DEF SameLinks, SameLogin, SameCalls, SameBusy
<1>6. /\ \/ w.kind \notin Blocking /\ q.blockingCount = p.blockingCount /\ q.busyCounter = p.busyCounter
         \/ /\ w.kind \in Blocking /\ p.blockingCount > 1
            /\ q.blockingCount = p.blockingCount - 1 /\ q.busyCounter = p.busyCounter
         \/ /\ w.kind \in Blocking /\ p.blockingCount <= 1
            /\ q.blockingCount = 0 /\ q.busyCounter = p.busyCounter - 1
    BY <1>2, <1>3 DEF SameBusy
<1>7. /\ p.blockingCount \in Nat /\ p.busyCounter \in Int /\ Slack(p) \in Int
      /\ IsFiniteSet(Blocks(p)) /\ Cardinality(Blocks(p)) \in Nat /\ Cardinality(p.fetches) \in Nat
    BY CountsOfPage
<1>8. Cardinality(Blocks(q)) = Cardinality(Blocks(p)) - One(w.kind \in Blocking)
  <2>1. CASE w.kind \in Blocking
    <3>1. Blocks(q) = Blocks(p) \ {u} /\ u \in Blocks(p)
        BY <1>1, <1>5, <2>1 DEF Blocks
    <3> QED BY <1>7, <2>1, <3>1, FS_RemoveElement DEF One
  <2>2. CASE w.kind \notin Blocking
    <3>1. Blocks(q) = Blocks(p)
        BY <1>1, <1>5, <2>2 DEF Blocks
    <3> QED BY <1>7, <2>2, <3>1 DEF One
  <2> QED BY <2>1, <2>2
<1>9. Cardinality(Blocks(q)) \in Nat
    BY <1>3, CountsOfPage
<1>10. Counted(p) => Counted(q)
    BY <1>6, <1>7, <1>8, <1>9 DEF Counted, One
<1>11. Slack(q) <= Slack(p)
    BY <1>5, <1>6, <1>7 DEF Slack, One
<1>12. Serves(p, q, 0) /\ Stays(p, q)
    BY <1>3, <1>5, <1>7, <1>10, <1>11 DEF Serves, Stays, SameLinks
<1>13. /\ Waits(p, {w.kind})
       /\ \A K : w.kind \notin K => (Waits(q, K) <=> Waits(p, K))
       /\ \A K : Waits(q, K) => Waits(p, K)
    BY <1>1, <1>5 DEF Waits
<1>14. w.kind \in Kinds
    BY PartsOfPage DEF Fits, Wires
<1> QED BY <1>4, <1>5, <1>12, <1>13, <1>14

LoginKinds == {"authUser", "authToken", "app", "start"}

\* A promise ends.  The page may go on; only the answer to 'app' and the end of a start
\* let the app appear, and the login is not forgotten.
Ends(p, q, kind) ==
    /\ KeepsBy(p, q, 0)
    /\ Stays(p, q) \/ (~p.wsConnected /\ Connects(p, q))
    /\ kind \notin {"app", "start"} => StartsNot(p, q)
    /\ kind = "authUser" /\ (p.loading => ~p.appReady) => LoginGoesOn(q)
    /\ kind \in LoginKinds /\ LoginMay(p) => LoginGoesOn(q)

LEMMA RejectEnds ==
    ASSUME NEW p, Fits(p), NEW kind \in Kinds
    PROVE  Ends(p, Reject(p, kind), kind) /\ (kind # "start" => StartsNot(p, Reject(p, kind)))
<1> DEFINE q == Reject(p, kind)
<1>1. /\ Keeps(p, q) /\ Stays(p, q) /\ (kind # "start" => StartsNot(p, q))
      /\ kind \in LoginKinds => ~q.loading \/ p.appReady
    BY RejectGoes DEF LoginKinds
<1> HIDE DEF q
<1>2. KeepsBy(p, q, 0)
    BY <1>1, KeepsByNone
<1>3. p.loading \in BOOLEAN /\ p.appReady \in BOOLEAN
    BY PartsOfPage DEF Fits
<1>4. kind \in LoginKinds /\ (p.loading => ~p.appReady) => LoginGoesOn(q)
  <2>1. ~p.loading => LoginGoesOn(p)
      BY DEF LoginGoesOn
  <2>2. ~q.loading => LoginGoesOn(q)
      BY DEF LoginGoesOn
  <2> QED BY <1>1, <1>3, <2>1, <2>2 DEF Keeps
<1>5. LoginMay(p) => (p.loading => ~p.appReady)
    BY DEF LoginMay
<1>6. Ends(p, q, kind)
    BY <1>1, <1>2, <1>4, <1>5 DEF Ends, LoginKinds
<1> QED BY <1>1, <1>6 DEF q

LEMMA KeysAre ==
    ASSUME NEW p \in Page, NEW keys \in Nat, NEW captions \in Nat
    PROVE  /\ [p EXCEPT !.token = TRUE, !.keys = keys] =
                WithLogin(p, p.loginReady, p.loading, TRUE, keys, p.captions)
           /\ [p EXCEPT !.keys = keys] = WithLogin(p, p.loginReady, p.loading, p.token, keys, p.captions)
           /\ [p EXCEPT !.captions = captions] = WithLogin(p, p.loginReady, p.loading, p.token, p.keys, captions)
           /\ [p EXCEPT !.loading = TRUE] = WithLogin(p, p.loginReady, TRUE, p.token, p.keys, p.captions)
BY DEF WithLogin, Page

LEMMA AppIs ==
    ASSUME NEW p \in Page, NEW access
    PROVE  [p EXCEPT !.access = access] =
             WithSchema(p, p.publicLoaded, p.schemaLoaded, p.isAdmin, access, p.moduleIdMapMeta, p.moduleIdMap)
BY DEF WithSchema, Page

LEMMA UserEnds ==
    ASSUME NEW p, Fits(p)
    PROVE  Ends(p, [p EXCEPT !.token = TRUE, !.keys = IF p.appReady THEN @ ELSE @ + 1], "authUser")
<1> DEFINE yes == TRUE
           k == IF p.appReady THEN p.keys ELSE p.keys + 1
           q == WithLogin(p, p.loginReady, p.loading, yes, k, p.captions)
<1>1. /\ p \in Page /\ p.loginReady \in BOOLEAN /\ p.loading \in BOOLEAN /\ p.keys \in Nat
      /\ p.captions \in Nat /\ p.appReady \in BOOLEAN
    BY PartsOfPage DEF Fits
<1>2. k \in Nat /\ (~p.appReady => k > 0) /\ yes \in BOOLEAN /\ yes
    BY <1>1
<1>3. [p EXCEPT !.token = TRUE, !.keys = IF p.appReady THEN @ ELSE @ + 1] = q
    BY <1>1, <1>2, KeysAre
<1> HIDE DEF yes, k
<1>4. HasLogin(p, q, p.loginReady, p.loading, yes, k, p.captions)
    BY <1>1, <1>2, LoginServes
<1> HIDE DEF q
<1>5. /\ Serves(p, q, 0) /\ Stays(p, q) /\ SameCalls(p, q) /\ q.appReady = p.appReady
      /\ q.loading = p.loading /\ q.token /\ q.keys = k /\ q.captions = p.captions
    BY <1>2, <1>4 DEF HasLogin
<1>6. (p.loading => ~p.appReady) => LoginGoesOn(q)
    BY <1>2, <1>5 DEF LoginGoesOn
<1>7. LoginGoesOn(p) \/ LoginMay(p) => (p.loading => ~p.appReady)
    BY DEF LoginGoesOn, LoginMay
<1>8. StartsNot(p, q)
    BY <1>5 DEF StartsNot, Started, SameCalls, Waits
<1>9. Ends(p, q, "authUser")
    BY <1>5, <1>6, <1>7, <1>8, ServesKeeps DEF Ends
<1> QED BY <1>3, <1>9

LEMMA AppEnds ==
    ASSUME NEW p, Fits(p), login \in Case
    PROVE  Ends(p, [p EXCEPT !.access = login.collections, !.captions = @ + 1], "app")
<1> DEFINE c == p.captions + 1
           q == WithLogin(p, p.loginReady, p.loading, p.token, p.keys, c)
           r == WithSchema(q, q.publicLoaded, q.schemaLoaded, q.isAdmin, login.collections, q.moduleIdMapMeta, q.moduleIdMap)
<1>1. /\ p \in Page /\ p.loginReady \in BOOLEAN /\ p.loading \in BOOLEAN /\ p.token \in BOOLEAN /\ p.keys \in Nat
      /\ p.captions \in Nat /\ login.collections \in BOOLEAN
    BY PartsOfPage DEF Fits, Case
<1>2. c \in Nat /\ c > 0
    BY <1>1
<1>3. [p EXCEPT !.access = login.collections, !.captions = @ + 1] = r
  <2>1. [p EXCEPT !.captions = c] = q
      BY <1>1, <1>2, KeysAre
  <2>2. [p EXCEPT !.access = login.collections, !.captions = @ + 1] =
          [[p EXCEPT !.captions = c] EXCEPT !.access = login.collections]
      BY <1>1 DEF Page
  <2>3. q \in Page
    <3> HIDE DEF c
    <3>1. HasLogin(p, q, p.loginReady, p.loading, p.token, p.keys, c)
        BY <1>1, <1>2, LoginServes
    <3> HIDE DEF q
    <3> QED BY <3>1 DEF HasLogin, Serves, Fits
  <2> HIDE DEF q, c
  <2>4. [q EXCEPT !.access = login.collections] = r
      BY <2>3, AppIs
  <2> QED BY <2>1, <2>2, <2>4
<1> HIDE DEF c
<1>4. HasLogin(p, q, p.loginReady, p.loading, p.token, p.keys, c)
    BY <1>1, <1>2, LoginServes
<1> HIDE DEF q
<1>5. Fits(q)
    BY <1>4 DEF HasLogin, Serves
<1>6. /\ q.publicLoaded \in BOOLEAN /\ q.schemaLoaded \in BOOLEAN /\ q.isAdmin \in BOOLEAN
      /\ q.moduleIdMapMeta \in Versions /\ q.moduleIdMap \in Versions
    BY <1>5, PartsOfPage DEF Fits
<1>7. Goes(q, r)
    BY <1>1, <1>5, <1>6, SchemaGoes
<1> HIDE DEF r
<1>8. Serves(p, r, 0) /\ Stays(p, r)
  <2>1. Serves(q, r, 0)
      BY <1>5, <1>7, KeepsServes DEF Goes
  <2>2. Serves(p, r, 0 + 0)
      BY <1>4, <2>1, ServesFirst DEF HasLogin
  <2> QED BY <1>4, <1>7, <2>2 DEF HasLogin, Goes, Stays
<1>9. LoginMay(p) => LoginGoesOn(r)
  <2>1. LoginMay(p) => LoginGoesOn(q)
      BY <1>2, <1>4 DEF LoginMay, LoginGoesOn, HasLogin, SameCalls, Waits
  <2> QED BY <1>7, <2>1 DEF Goes, Keeps
<1>10. LoginGoesOn(p) => LoginMay(p)
    BY DEF LoginGoesOn, LoginMay
<1>11. Ends(p, r, "app")
    BY <1>8, <1>9, <1>10, ServesKeeps DEF Ends
<1> QED BY <1>3, <1>11

LEMMA RunsEnds ==
    ASSUME NEW p, NEW q, NEW kind, Runs(p, q, 0), kind \notin LoginKinds
    PROVE  Ends(p, q, kind)
BY DEF Runs, Ends, LoginKinds

LEMMA ResolveEnds ==
    ASSUME NEW p, Fits(p), CanRun(p), login \in Case, NEW w \in Wires
    PROVE  Ends(p, Resolve(p, w), w.kind)
<1>1. w.kind \in Kinds /\ w.meta \in Versions
    BY DEF Wires
<1>2. CASE w.kind = "public"
  <2> DEFINE yes == TRUE
             q == WithSchema(p, yes, p.schemaLoaded, p.isAdmin, p.access, w.meta, p.moduleIdMap)
  <2>1. /\ p \in Page /\ p.schemaLoaded \in BOOLEAN /\ p.isAdmin \in BOOLEAN /\ p.access \in BOOLEAN
        /\ p.moduleIdMap \in Versions /\ yes \in BOOLEAN
      BY PartsOfPage DEF Fits
  <2>2. Resolve(p, w) = StateChange(q)
      BY <1>2, <2>1, SchemaIsStored DEF Resolve
  <2> HIDE DEF yes
  <2>3. GoesBy(p, q, 0)
      BY <1>1, <2>1, SchemaGoes, GoesByNone
  <2> HIDE DEF q
  <2>4. Fits(q) /\ CanRun(q)
      BY <2>3, CanStillRun DEF GoesBy, KeepsBy
  <2>5. Runs(q, StateChange(q), 0)
      BY <2>4, StateChangeRuns
  <2>6. Runs(p, StateChange(q), 0 + 0)
      BY <2>3, <2>5, RunsAfter
  <2> QED BY <1>2, <2>2, <2>6, RunsEnds DEF LoginKinds
<1>3. CASE w.kind = "authUser"
  <2>1. Resolve(p, w) = [p EXCEPT !.token = TRUE, !.keys = IF p.appReady THEN @ ELSE @ + 1]
      BY <1>3 DEF Resolve
  <2> QED BY <1>3, <2>1, UserEnds
<1>4. CASE w.kind = "authToken"
  <2>1. Resolve(p, w) = AppEnable(p)
      BY <1>4 DEF Resolve
  <2>2. Goes(p, AppEnable(p)) /\ (LoginMay(p) => LoginGoesOn(AppEnable(p)))
      BY AppEnableGoes
  <2>3. KeepsBy(p, AppEnable(p), 0)
      BY <2>2, KeepsByNone DEF Goes
  <2> QED BY <1>4, <2>1, <2>2, <2>3 DEF Ends, Goes
<1>5. CASE w.kind = "app"
  <2>1. Resolve(p, w) = [p EXCEPT !.access = login.collections, !.captions = @ + 1]
      BY <1>5 DEF Resolve
  <2> QED BY <1>5, <2>1, AppEnds
<1>6. CASE w.kind = "start"
  <2>1. Resolve(p, w) = Ready(p)
      BY <1>6 DEF Resolve
  <2> QED BY <1>6, <2>1, ReadyKeeps, KeepsByNone DEF Ends
<1>7. CASE w.kind = "access"
  <2>1. Resolve(p, w) = UpdateCollections(p, "collections")
      BY <1>7 DEF Resolve
  <2>2. Goes(p, Resolve(p, w))
      BY <2>1, CollectionsKeep DEF Goes
  <2> QED BY <1>7, <2>2, GoesByNone, GoesRuns, RunsEnds DEF LoginKinds
<1>8. CASE w.kind \notin {"public", "authUser", "authToken", "app", "start", "access"}
  <2>1. Resolve(p, w) = p
      BY <1>8 DEF Resolve
  <2> QED BY <1>8, <2>1, NothingGoes, GoesByNone, GoesRuns, RunsEnds DEF LoginKinds
<1> QED BY <1>2, <1>3, <1>4, <1>5, <1>6, <1>7, <1>8

-----------------------------------------------------------------------------
(* A connection is lost or given up.                                         *)

\* The page without connection: what it waits for is there, but nothing is shown.
Broken(p, q) ==
    /\ Fits(q) /\ q.link = p.link /\ q.conn = p.conn /\ q.news = p.news /\ SameCalls(p, q)
    /\ q.fetches = p.fetches /\ q.threw = p.threw /\ q.blockingCount = p.blockingCount
    /\ q.loading = p.loading /\ q.keys = p.keys /\ q.captions = p.captions
    /\ q.busyCounter = 0 /\ ~q.wsConnected /\ ~q.appReady /\ ~q.loginReady
    /\ q.token <=> p.token /\ (p.tokenKeep \/ ~p.appReady)

LEMMA PartsOfBroken ==
    ASSUME NEW p \in Parts, NEW no \in BOOLEAN, NEW zero \in Int, NEW t \in BOOLEAN
    PROVE  [p EXCEPT !.busyCounter = zero, !.appReady = no, !.loginReady = no,
                     !.publicLoaded = no, !.wsConnected = no, !.token = t] \in Parts
BY DEF Parts

LEMMA WsBrokenIs ==
    ASSUME NEW p, Fits(p)
    PROVE  Broken(p, WsBroken(p))
<1> DEFINE no   == FALSE
           zero == 0
           t    == p.token /\ (p.tokenKeep \/ ~p.appReady)
           q    == [p EXCEPT !.busyCounter = zero, !.appReady = no, !.loginReady = no,
                             !.publicLoaded = no, !.wsConnected = no, !.token = t]
<1>1. p \in Page /\ p \in Parts
    BY PageHasParts DEF Fits
<1>2. t \in BOOLEAN /\ (t <=> p.token /\ (p.tokenKeep \/ ~p.appReady))
    OBVIOUS
<1>3. no \in BOOLEAN /\ ~no /\ zero \in Int /\ zero = 0
    OBVIOUS
<1>4. WsBroken(p) = q
    BY <1>1 DEF WsBroken, Page
<1> HIDE DEF t, no, zero
<1>5. q \in Parts
    BY <1>1, <1>2, <1>3, PartsOfBroken
<1>6. /\ q.link = p.link /\ q.conn = p.conn /\ q.news = p.news /\ SameCalls(p, q)
      /\ q.fetches = p.fetches /\ q.threw = p.threw /\ q.blockingCount = p.blockingCount
      /\ q.loading = p.loading /\ q.keys = p.keys /\ q.captions = p.captions
    BY <1>1 DEF Page, SameCalls
<1>7. /\ q.busyCounter = zero /\ q.wsConnected = no /\ q.appReady = no /\ q.loginReady = no /\ q.token = t
    BY <1>1 DEF Page
<1> HIDE DEF q
<1>8. Fits(q)
    BY <1>5, <1>6, CallsFit, PageHasParts
<1>9. /\ q.busyCounter = 0 /\ ~q.wsConnected /\ ~q.appReady /\ ~q.loginReady
      /\ (q.token <=> p.token /\ (p.tokenKeep \/ ~p.appReady))
    BY <1>2, <1>3, <1>7
<1> QED BY <1>4, <1>6, <1>8, <1>9 DEF Broken

\* nothing is asked any more
Cleared(p, q) ==
    /\ Fits(q) /\ q.link = p.link /\ q.conn = p.conn /\ q.news = p.news /\ q.wsConnected = p.wsConnected
    /\ q.transactions = {} /\ q.fetches = p.fetches /\ q.threw = p.threw
    /\ q.blockingCount = 0 /\ q.busyCounter = p.busyCounter - 1
    /\ q.token = p.token /\ q.tokenKeep = p.tokenKeep
    /\ q.appReady = p.appReady /\ q.loading = p.loading /\ q.keys = p.keys /\ q.captions = p.captions

LEMMA ClearIs ==
    ASSUME NEW p, Fits(p)
    PROVE  Cleared(p, Clear(p))
<1> DEFINE zero == 0
           none == {}
           b    == p.busyCounter - 1
           q    == [p EXCEPT !.blockingCount = zero, !.transactions = none, !.busyCounter = b]
<1>1. p \in Page /\ p \in Parts /\ p.busyCounter \in Int
    BY PageHasParts, CountsOfPage DEF Fits
<1>2. zero \in Nat /\ zero = 0 /\ none \in SUBSET Tickets /\ none = {} /\ b \in Int /\ b = p.busyCounter - 1
    BY <1>1
<1>3. Clear(p) = q
    BY DEF Clear
<1> HIDE DEF zero, none, b
<1>4. q \in Parts
    BY <1>1, <1>2 DEF Parts
<1>5. /\ q.link = p.link /\ q.conn = p.conn /\ q.news = p.news /\ q.wsConnected = p.wsConnected
      /\ q.wire = p.wire /\ q.fetches = p.fetches /\ q.threw = p.threw
      /\ q.appReady = p.appReady /\ q.loading = p.loading /\ q.keys = p.keys /\ q.captions = p.captions
      /\ q.token = p.token /\ q.tokenKeep = p.tokenKeep
    BY <1>1 DEF Page
<1>6. q.transactions = none /\ q.blockingCount = zero /\ q.busyCounter = b
    BY <1>1 DEF Page
<1> HIDE DEF q
<1>7. Fits(q)
  <2>1. q \in Page
      BY <1>4, PageHasParts
  <2>2. IsFiniteSet(q.transactions)
      BY <1>2, <1>6, FS_EmptySet
  <2> QED BY <1>2, <1>5, <1>6, <2>1, <2>2 DEF Fits
<1> QED BY <1>2, <1>3, <1>5, <1>6, <1>7 DEF Cleared

WithLinks(p, f) == [p EXCEPT !.link = f]

LEMMA LinksFit ==
    ASSUME NEW p, Fits(p), NEW f \in LinkStates
    PROVE  LET q == WithLinks(p, f)
           IN  /\ Fits(q) /\ q.link = f /\ q.conn = p.conn /\ q.news = p.news /\ q.wsConnected = p.wsConnected
               /\ SameCalls(p, q) /\ SameBusy(p, q) /\ SameLogin(p, q) /\ q.tokenKeep = p.tokenKeep
<1> DEFINE q == [p EXCEPT !.link = f]
<1>1. p \in Page /\ p \in Parts
    BY PageHasParts DEF Fits
<1>2. q \in Parts
    BY <1>1 DEF Parts
<1>3. /\ q.link = f /\ q.conn = p.conn /\ q.news = p.news /\ q.wsConnected = p.wsConnected
      /\ SameCalls(p, q) /\ SameBusy(p, q) /\ SameLogin(p, q) /\ q.tokenKeep = p.tokenKeep
    BY <1>1 DEF Page, SameCalls, SameBusy, SameLogin
<1>4. WithLinks(p, f) = q
    BY DEF WithLinks
<1> HIDE DEF q
<1>5. Fits(q)
    BY <1>2, <1>3, CallsFit, PageHasParts DEF SameBusy
<1> QED BY <1>3, <1>4, <1>5

\* The page gives its connection up.
Shut(p) == [p.link EXCEPT ![p.conn] = IF p.link[p.conn] = "none" THEN "none" ELSE "closing"]

GivesUp(p, q) ==
    /\ Fits(q) /\ q.link = Shut(p) /\ q.conn = p.conn /\ q.news = p.news
    /\ q.transactions = {} /\ q.fetches = p.fetches /\ q.threw = p.threw /\ q.blockingCount = 0
    /\ q.loading = p.loading /\ q.keys = p.keys /\ q.captions = p.captions
    /\ q.busyCounter = 0 /\ ~q.wsConnected /\ ~q.appReady /\ ~q.loginReady
    /\ q.token <=> p.token /\ (p.tokenKeep \/ ~p.appReady)

LEMMA CloseIs ==
    ASSUME NEW p, Fits(p)
    PROVE  GivesUp(p, Close(p))
<1> DEFINE f == Shut(p)
           q == WithLinks(p, f)
           r == Clear(q)
<1>1. p \in Page /\ p.link \in LinkStates /\ p.conn \in Links
    BY PartsOfPage DEF Fits, LinkStates
<1>2. f \in LinkStates
    BY <1>1 DEF Shut, LinkStates
<1>3. Close(p) = WsBroken(r)
  <2>1. f = [p.link EXCEPT ![p.conn] = IF @ = "none" THEN @ ELSE "closing"]
      BY <1>1 DEF Shut, LinkStates
  <2>2. [p EXCEPT !.link[p.conn] = IF @ = "none" THEN @ ELSE "closing"] = q
      BY <1>1, <2>1 DEF WithLinks
  <2> QED BY <2>2 DEF Close
<1> HIDE DEF f
<1>4. /\ Fits(q) /\ q.link = f /\ q.conn = p.conn /\ q.news = p.news /\ q.wsConnected = p.wsConnected
      /\ SameCalls(p, q) /\ SameBusy(p, q) /\ SameLogin(p, q) /\ q.tokenKeep = p.tokenKeep
    BY <1>2, LinksFit
<1> HIDE DEF q
<1>5. Cleared(q, r)
    BY <1>4, ClearIs
<1> HIDE DEF r
<1>6. Broken(r, Close(p))
    BY <1>3, <1>5, WsBrokenIs DEF Cleared
<1> QED BY <1>4, <1>5, <1>6 DEF GivesUp, Broken, Cleared, SameCalls, SameBusy, SameLogin, f

\* The page connects anew, whatever its connection was.
Reconnects(p, q) ==
    /\ Fits(q) /\ q.conn \in Links /\ Shut(p)[q.conn] = "none"
    /\ q.link = [Shut(p) EXCEPT ![q.conn] = "connecting"] /\ q.news = p.news
    /\ q.transactions = {} /\ q.fetches = p.fetches /\ q.threw = p.threw /\ q.blockingCount = 0
    /\ q.loading = p.loading /\ q.keys = p.keys /\ q.captions = p.captions
    /\ q.busyCounter = 0 /\ ~q.wsConnected /\ ~q.appReady /\ ~q.loginReady
    /\ q.token <=> p.token /\ (p.tokenKeep \/ ~p.appReady)

LEMMA ReconnectIs ==
    ASSUME NEW p, Fits(p), FreeLinks(p) # {}
    PROVE  Reconnects(p, WsReconnect(p))
<1> DEFINE q == Close(p)
           r == WsConnect(q)
<1>1. GivesUp(p, q)
    BY CloseIs
<1>2. WsReconnect(p) = r
  <2>1. [q EXCEPT !.busyCounter = 0] = q
      BY <1>1 DEF GivesUp, Fits, Page
  <2> QED BY <2>1 DEF WsReconnect
<1> HIDE DEF q
<1>3. FreeLinks(q) # {}
  <2>1. p.link \in LinkStates /\ p.conn \in Links
      BY PartsOfPage DEF Fits, LinkStates
  <2>2. PICK l \in Links : p.link[l] = "none"
      BY DEF FreeLinks
  <2>3. Shut(p)[l] = "none"
      BY <2>1, <2>2 DEF Shut, LinkStates
  <2> QED BY <1>1, <2>2, <2>3 DEF GivesUp, FreeLinks
<1>4. Fits(q)
    BY <1>1 DEF GivesUp
<1>5. /\ Keeps(q, r) /\ Connects(q, r) /\ SameCalls(q, r) /\ SameBusy(q, r) /\ SameLogin(q, r)
    BY <1>3, <1>4, ConnectRuns
<1> HIDE DEF r
<1> QED BY <1>1, <1>2, <1>5 DEF Reconnects, GivesUp, Keeps, Connects, SameCalls, SameBusy, SameLogin

-----------------------------------------------------------------------------
(* The actions that only call functions of the page.                         *)

\* a handler connects anew only if the page is not connected, and notes it
Moved(p, q) == Stays(p, q) \/ (~p.wsConnected /\ Connects(p, q) /\ (q.conn # p.conn => "replaced" \in cut'))

\* the app is started, or was, or there is a login
Begins == Started(page') => Started(page) \/ \E l \in auth : page.link[l] = "open"

\* a page that waits for captions for ever is noted
Acts ==
    /\ KeepsBy(page, page', 0) \/ (Serves(page, page', 0) /\ "captions" \in cut')
    /\ Moved(page, page') /\ Begins
    /\ change' = change /\ told' = told /\ auth \subseteq auth' /\ cut \subseteq cut'

LEMMA GoesActs ==
    ASSUME Fits(page), GoesBy(page, page', 0), UNCHANGED <<change, told, auth>>, cut \subseteq cut'
    PROVE  Acts
BY DEF Acts, GoesBy, Moved, Begins, StartsNot

LEMMA ReceiveActs ==
    ASSUME TypeOK, Fits(page), NEW w \in page.wire, Receive(w)
    PROVE  Acts
<1> DEFINE t == CallsOf(page, w)
           r == WithCalls(page, page.transactions \ t, page.wire \ {w})
           q == Unblock(r, w.kind)
           ok == IF w.kind \in Timed THEN w.state = "done" ELSE w.on \in auth
<1>1. /\ page' = IF t = {} THEN r ELSE IF ok THEN Resolve(q, w) ELSE Reject(q, w.kind)
      /\ page.link[w.on] = "open" /\ CanRun(page)
    BY DEF Receive, CallsOf, WithCalls, CanGoOn, CanRun
<1>2. UNCHANGED <<change, told, auth>> /\ cut \subseteq cut' /\ Replaced \subseteq cut'
    BY DEF Receive, Note, server
<1>3. w \in Wires /\ login \in Case
    BY PartsOfPage DEF Fits, TypeOK
<1>4. CASE t = {}
  <2>1. page' = WithCalls(page, page.transactions, page.wire \ {w})
      BY <1>1, <1>4
  <2>2. Goes(page, page')
      BY <2>1, DiscardGoes
  <2> QED BY <1>2, <2>2, GoesByNone, GoesActs
<1>5. CASE t # {}
  <2>1. /\ Serves(page, q, 0) /\ Stays(page, q) /\ SameLogin(page, q)
        /\ w.kind \in Kinds /\ Waits(page, {w.kind})
        /\ \A K : w.kind \notin K => (Waits(q, K) <=> Waits(page, K))
        /\ \A K : Waits(q, K) => Waits(page, K)
      BY <1>5, AnsweredServes DEF Answered
  <2>2. page' = IF ok THEN Resolve(q, w) ELSE Reject(q, w.kind)
      BY <1>1, <1>5
  <2> HIDE DEF q, ok
  <2>3. Fits(q) /\ CanRun(q)
      BY <1>1, <2>1 DEF Serves, Stays, CanRun, FreeLinks
  <2>4. Ends(q, page', w.kind) /\ (~ok /\ w.kind # "start" => StartsNot(q, page'))
      BY <1>3, <2>1, <2>2, <2>3, ResolveEnds, RejectEnds
  <2>5. LoginGoesOn(page) => LoginGoesOn(page')
    <3>1. CASE w.kind \notin LoginKinds
      <4>1. LoginGoesOn(page) => LoginGoesOn(q)
          BY <2>1, <3>1 DEF LoginGoesOn, LoginKinds, SameLogin
      <4> QED BY <2>4, <4>1 DEF Ends, KeepsBy
    <3>2. CASE w.kind = "authUser"
      <4>1. LoginGoesOn(page) => (q.loading => ~q.appReady)
          BY <2>1 DEF LoginGoesOn, SameLogin
      <4> QED BY <2>4, <3>2, <4>1 DEF Ends
    <3>3. CASE w.kind \in LoginKinds /\ w.kind # "authUser"
      <4>1. LoginGoesOn(page) => LoginMay(q)
          BY <2>1, <3>3 DEF LoginGoesOn, LoginMay, SameLogin
      <4> QED BY <2>4, <3>3, <4>1 DEF Ends
    <3> QED BY <3>1, <3>2, <3>3
  <2>6. KeepsBy(page, page', 0)
    <3>1. Serves(q, page', 0)
        BY <2>4, ServesKeeps DEF Ends
    <3>2. Serves(page, page', 0 + 0)
        BY <2>1, <3>1, ServesFirst
    <3> QED BY <2>5, <3>2, ServesKeeps
  <2>7. Moved(page, page')
    <3>1. page'.conn # page.conn => "replaced" \in cut'
        BY <1>2 DEF Replaced
    <3>2. q.wsConnected = page.wsConnected
        BY <2>1 DEF Serves
    <3> QED BY <2>1, <2>4, <3>1, <3>2 DEF Ends, Moved, Stays, Connects
  <2>8. Begins
    <3>1. Started(q) => Started(page)
        BY <2>1 DEF Started, SameLogin
    <3>2. CASE w.kind = "start"
      <4>1. Started(page)
          BY <2>1, <3>2 DEF Started
      <4> QED BY <4>1 DEF Begins
    <3>3. CASE w.kind = "app" /\ ok
      <4>1. w.on \in auth
          BY <3>3 DEF ok, Timed
      <4> QED BY <1>1, <4>1 DEF Begins
    <3>4. CASE ~(w.kind = "start") /\ ~(w.kind = "app" /\ ok)
      <4>1. StartsNot(q, page')
          BY <2>4, <3>4 DEF Ends
      <4> QED BY <3>1, <4>1 DEF Begins, StartsNot
    <3> QED BY <3>2, <3>3, <3>4
  <2> QED BY <1>2, <2>6, <2>7, <2>8 DEF Acts
<1> QED BY <1>4, <1>5

LEMMA LoginIs ==
    ASSUME NEW p, Fits(p)
    PROVE  /\ LET q == [p EXCEPT !.loading = TRUE]
              IN  Serves(p, q, 0) /\ Stays(p, q) /\ SameCalls(p, q) /\ q.loading /\ q.appReady = p.appReady
                    /\ q.captions = p.captions
           /\ p.keys > 0 => LET q == [p EXCEPT !.keys = @ - 1]
              IN  Serves(p, q, 0) /\ Stays(p, q) /\ SameCalls(p, q) /\ q.loading = p.loading /\ q.appReady = p.appReady
                    /\ q.captions = p.captions /\ q.token = p.token
           /\ p.captions > 0 => LET q == [p EXCEPT !.captions = @ - 1]
              IN  Serves(p, q, 0) /\ Stays(p, q) /\ SameCalls(p, q) /\ q.loading = p.loading /\ q.appReady = p.appReady
                    /\ q.token = p.token
<1>1. /\ p \in Page /\ p.loginReady \in BOOLEAN /\ p.loading \in BOOLEAN /\ p.token \in BOOLEAN
      /\ p.keys \in Nat /\ p.captions \in Nat
    BY PartsOfPage DEF Fits
<1> DEFINE yes == TRUE
           k == p.keys - 1
           c == p.captions - 1
           x == WithLogin(p, p.loginReady, yes, p.token, p.keys, p.captions)
           y == WithLogin(p, p.loginReady, p.loading, p.token, k, p.captions)
           z == WithLogin(p, p.loginReady, p.loading, p.token, p.keys, c)
<1>2. yes \in BOOLEAN /\ yes /\ (p.keys > 0 => k \in Nat) /\ (p.captions > 0 => c \in Nat)
    BY <1>1
<1>3. [p EXCEPT !.loading = TRUE] = x
    BY <1>1, KeysAre
<1>4. p.keys > 0 => [p EXCEPT !.keys = @ - 1] = y
    BY <1>1, <1>2, KeysAre
<1>5. p.captions > 0 => [p EXCEPT !.captions = @ - 1] = z
    BY <1>1, <1>2, KeysAre
<1> HIDE DEF yes, k, c
<1>6. HasLogin(p, x, p.loginReady, yes, p.token, p.keys, p.captions)
    BY <1>1, <1>2, LoginServes
<1>7. p.keys > 0 => HasLogin(p, y, p.loginReady, p.loading, p.token, k, p.captions)
    BY <1>1, <1>2, LoginServes
<1>8. p.captions > 0 => HasLogin(p, z, p.loginReady, p.loading, p.token, p.keys, c)
    BY <1>1, <1>2, LoginServes
<1> HIDE DEF x, y, z
<1>9. Serves(p, x, 0) /\ Stays(p, x) /\ SameCalls(p, x) /\ x.loading /\ x.appReady = p.appReady /\ x.captions = p.captions
    BY <1>2, <1>6 DEF HasLogin
<1>10. p.keys > 0 => Serves(p, y, 0) /\ Stays(p, y) /\ SameCalls(p, y) /\ y.loading = p.loading
                     /\ y.appReady = p.appReady /\ y.captions = p.captions /\ y.token = p.token
    BY <1>7 DEF HasLogin
<1>11. p.captions > 0 => Serves(p, z, 0) /\ Stays(p, z) /\ SameCalls(p, z) /\ z.loading = p.loading
                         /\ z.appReady = p.appReady /\ z.token = p.token
    BY <1>8 DEF HasLogin
<1> QED BY <1>3, <1>4, <1>5, <1>9, <1>10, <1>11

LEMMA KeysActs ==
    ASSUME TypeOK, Fits(page), KeysDerived
    PROVE  Acts
<1> DEFINE q == [page EXCEPT !.keys = @ - 1]
<1>1. /\ page.keys > 0 /\ page' = AppEnable(q) /\ UNCHANGED <<change, told, auth, cut>> /\ login \in Case
    BY DEF KeysDerived, TypeOK, server
<1>2. /\ Serves(page, q, 0) /\ Stays(page, q) /\ SameCalls(page, q) /\ q.loading = page.loading
      /\ q.appReady = page.appReady /\ q.captions = page.captions /\ q.token = page.token
    BY <1>1, LoginIs
<1> HIDE DEF q
<1>3. Fits(q) /\ (LoginGoesOn(page) => LoginMay(q)) /\ StartsNot(page, q)
    BY <1>2 DEF Serves, LoginGoesOn, LoginMay, SameCalls, Waits, StartsNot, Started
<1>4. Goes(q, page') /\ (LoginMay(q) => LoginGoesOn(page'))
    BY <1>1, <1>3, AppEnableGoes
<1>5. Serves(page, page', 0)
  <2>1. Serves(q, page', 0)
      BY <1>3, <1>4, KeepsServes DEF Goes
  <2>2. Serves(page, page', 0 + 0)
      BY <1>2, <2>1, ServesFirst
  <2> QED BY <2>2
<1>6. GoesBy(page, page', 0)
    BY <1>2, <1>3, <1>4, <1>5, ServesKeeps DEF GoesBy, Goes, Stays, StartsNot
<1> QED BY <1>1, <1>6, GoesActs

LEMMA CaptionsActs ==
    ASSUME TypeOK, Fits(page), CaptionsLoaded
    PROVE  Acts
<1> DEFINE q == [page EXCEPT !.captions = @ - 1]
<1>1. /\ page.captions > 0 /\ page' = UpdateCollections(q, "start") /\ UNCHANGED <<change, told, auth, cut>>
    BY DEF CaptionsLoaded, server
<1>2. /\ Serves(page, q, 0) /\ Stays(page, q) /\ SameCalls(page, q) /\ q.loading = page.loading
      /\ q.appReady = page.appReady /\ q.token = page.token
    BY <1>1, LoginIs
<1> HIDE DEF q
<1>3. Fits(q) /\ (LoginGoesOn(page) => LoginMay(q))
    BY <1>2 DEF Serves, LoginGoesOn, LoginMay, SameCalls, Waits
<1>4. Keeps(q, page') /\ Stays(q, page') /\ (LoginMay(q) => LoginGoesOn(page'))
    BY <1>1, <1>3, CollectionsKeep
<1>5. Serves(page, page', 0)
  <2>1. Serves(q, page', 0)
      BY <1>3, <1>4, KeepsServes
  <2>2. Serves(page, page', 0 + 0)
      BY <1>2, <2>1, ServesFirst
  <2> QED BY <2>2
<1>6. KeepsBy(page, page', 0) /\ Stays(page, page')
    BY <1>2, <1>3, <1>4, <1>5, ServesKeeps DEF Stays
<1>7. Started(page)
    BY <1>1 DEF Started
<1> QED BY <1>1, <1>6, <1>7 DEF Acts, Moved, Begins

LEMMA CaptionsFailActs ==
    ASSUME Fits(page), CaptionsFail
    PROVE  Acts
<1> DEFINE q == [page EXCEPT !.captions = @ - 1]
<1>1. page.captions > 0 /\ page' = SetInitErr(q) /\ UNCHANGED <<change, told, auth, cut>>
    BY DEF CaptionsFail, server
<1>2. /\ Serves(page, q, 0) /\ Stays(page, q) /\ SameCalls(page, q) /\ q.loading = page.loading
      /\ q.appReady = page.appReady /\ q.token = page.token
    BY <1>1, LoginIs
<1> HIDE DEF q
<1>3. Fits(q)
    BY <1>2 DEF Serves
<1>4. Goes(q, page') /\ (q.appReady \/ ~page'.loading)
    BY <1>1, <1>3, ErrorGoes
<1>5. Serves(page, page', 0)
  <2>1. Serves(q, page', 0)
      BY <1>3, <1>4, KeepsServes DEF Goes
  <2>2. Serves(page, page', 0 + 0)
      BY <1>2, <2>1, ServesFirst
  <2> QED BY <2>2
<1>6. LoginGoesOn(page) => LoginGoesOn(page')
  <2>1. CASE ~page'.loading
      BY <2>1 DEF LoginGoesOn
  <2>2. CASE q.appReady
    <3>1. page' = q
        BY <1>1, <2>2 DEF SetInitErr
    <3> QED BY <1>2, <2>2, <3>1 DEF LoginGoesOn
  <2> QED BY <1>4, <2>1, <2>2
<1>7. KeepsBy(page, page', 0) /\ Stays(page, page') /\ Started(page)
    BY <1>1, <1>2, <1>4, <1>5, <1>6, ServesKeeps DEF Goes, Stays, Started
<1> QED BY <1>1, <1>7 DEF Acts, Moved, Begins

LEMMA CaptionsLostActs ==
    ASSUME Fits(page), CaptionsLost
    PROVE  Acts
<1>1. /\ page.captions > 0 /\ page' = [page EXCEPT !.captions = @ - 1]
      /\ UNCHANGED <<change, told, auth>> /\ cut \subseteq cut' /\ "captions" \in cut'
    BY DEF CaptionsLost, Note, server
<1>2. Serves(page, page', 0) /\ Stays(page, page')
    BY <1>1, LoginIs
<1>3. Started(page)
    BY <1>1 DEF Started
<1> QED BY <1>1, <1>2, <1>3 DEF Acts, Moved, Begins

LEMMA LoginActs ==
    ASSUME TypeOK, Fits(page), Login
    PROVE  Acts
<1> DEFINE q == [page EXCEPT !.loading = TRUE]
<1>1. /\ ~page.appReady /\ page' = Send(q, "authUser") /\ UNCHANGED <<change, told, auth, cut>>
    BY DEF Login, server
<1>2. /\ Serves(page, q, 0) /\ Stays(page, q) /\ SameCalls(page, q) /\ q.loading
      /\ q.appReady = page.appReady /\ q.captions = page.captions
    BY LoginIs
<1> HIDE DEF q
<1>3. Fits(q) /\ StartsNot(page, q)
    BY <1>2 DEF Serves, SameCalls, Waits, StartsNot, Started
<1>4. Keeps(q, page') /\ Stays(q, page') /\ StartsNot(q, page') /\ LoginGoesOn(page')
    BY <1>1, <1>2, <1>3, SendKeeps DEF Kinds, Blocking
<1>5. Serves(page, page', 0)
  <2>1. Serves(q, page', 0)
      BY <1>3, <1>4, KeepsServes
  <2>2. Serves(page, page', 0 + 0)
      BY <1>2, <2>1, ServesFirst
  <2> QED BY <2>2
<1>6. GoesBy(page, page', 0)
    BY <1>2, <1>3, <1>4, <1>5, ServesKeeps DEF GoesBy, Stays, StartsNot
<1> QED BY <1>1, <1>6, GoesActs

LEMMA QueryActs ==
    ASSUME Fits(page), Query
    PROVE  Acts
<1>1. page' = Send(page, "query") /\ UNCHANGED <<change, told, auth, cut>>
    BY DEF Query, server
<1>2. Goes(page, page')
    BY <1>1, SendGoes DEF Kinds, Blocking
<1> QED BY <1>1, <1>2, GoesByNone, GoesActs

LEMMA CancelActs ==
    ASSUME Fits(page), Cancel
    PROVE  Acts
<1>1. /\ page.appReady /\ page' = Clear(page) /\ UNCHANGED <<change, told, auth>> /\ cut \subseteq cut'
    BY DEF Cancel, server, GivenUp
<1>2. Cleared(page, page')
    BY <1>1, ClearIs
<1>3. /\ page.blockingCount \in Nat /\ page.busyCounter \in Int /\ Cardinality(page.fetches) \in Nat
    BY CountsOfPage
<1>4. Slack(page') <= Slack(page)
    BY <1>2, <1>3 DEF Cleared, Slack, One
<1>5. Counted(page')
  <2>1. Cardinality(Blocks(page')) \in Nat
      BY <1>2, CountsOfPage DEF Cleared
  <2> QED BY <1>2, <2>1 DEF Cleared, Counted
<1>6. LoginGoesOn(page) => LoginGoesOn(page')
    BY <1>1, <1>2 DEF Cleared, LoginGoesOn
<1>7. StartsNot(page, page')
    BY <1>1 DEF StartsNot, Started
<1>8. GoesBy(page, page', 0)
  <2>1. Slack(page) \in Int
      BY CountsOfPage
  <2> QED BY <1>2, <1>4, <1>5, <1>6, <1>7, <2>1 DEF Cleared, GoesBy, KeepsBy, Stays
<1> QED BY <1>1, <1>8, GoesActs

\* other downloads, as many
WithFetches(p, s) == [p EXCEPT !.fetches = s]

LEMMA FetchesGo ==
    ASSUME NEW p, Fits(p), NEW s \in SUBSET Fetches, NEW d \in Int,
           IsFiniteSet(s), Cardinality(s) = Cardinality(p.fetches) - d,
           \A g, h \in s : g.id = h.id => g = h
    PROVE  GoesBy(p, WithFetches(p, s), d)
<1> DEFINE q == [p EXCEPT !.fetches = s]
<1>1. p \in Page /\ p \in Parts
    BY PageHasParts DEF Fits
<1>2. q \in Parts
    BY <1>1 DEF Parts
<1>3. /\ q.fetches = s /\ q.blockingCount = p.blockingCount /\ q.busyCounter = p.busyCounter /\ q.threw = p.threw
      /\ SameLinks(p, q) /\ SameCalls(p, q) /\ SameLogin(p, q)
    BY <1>1 DEF Page, SameLinks, SameCalls, SameLogin
<1>4. WithFetches(p, s) = q
    BY DEF WithFetches
<1> HIDE DEF q
<1>5. Fits(q)
  <2>1. q \in Page
      BY <1>2, PageHasParts
  <2> QED BY <1>3, <2>1 DEF Fits, SameLinks, SameCalls
<1>6. Slack(q) = Slack(p) + d /\ Slack(p) \in Int /\ (Counted(p) <=> Counted(q))
  <2>1. /\ Cardinality(p.fetches) \in Nat /\ One(p.blockingCount > 0) \in Int /\ p.busyCounter \in Int
        /\ Slack(p) \in Int
      BY CountsOfPage DEF One
  <2>2. Slack(q) = Slack(p) + d
      BY <1>3, <2>1 DEF Slack
  <2> QED BY <1>3, <2>1, <2>2 DEF Counted, Blocks, SameCalls
<1>7. (LoginGoesOn(p) => LoginGoesOn(q)) /\ StartsNot(p, q)
    BY <1>3 DEF LoginGoesOn, SameLogin, SameCalls, Waits, StartsNot, Started
<1> QED BY <1>3, <1>4, <1>5, <1>6, <1>7 DEF GoesBy, KeepsBy, Stays, SameLinks

LEMMA FetchGone ==
    ASSUME NEW p, Fits(p), NEW f \in p.fetches
    PROVE  GoesBy(p, WithFetches(p, p.fetches \ {f}), 1)
<1> DEFINE s == p.fetches \ {f}
<1>1. IsFiniteSet(p.fetches) /\ p.fetches \subseteq Fetches
    BY PartsOfPage DEF Fits
<1>2. IsFiniteSet(s) /\ Cardinality(s) = Cardinality(p.fetches) - 1
    BY <1>1, FS_RemoveElement
<1>3. s \in SUBSET Fetches /\ \A g, h \in s : g.id = h.id => g = h
    BY <1>1 DEF Fits
<1> HIDE DEF s
<1>4. GoesBy(p, WithFetches(p, s), 1)
    BY <1>2, <1>3, FetchesGo
<1> QED BY <1>4 DEF s

LEMMA FetchServedActs ==
    ASSUME TypeOK, Fits(page), NEW f \in page.fetches, NEW m, FetchServed(f, m)
    PROVE  Acts
<1> DEFINE g == [f EXCEPT !.got[m] = json[m]]
           r == page.fetches \ {f}
           s == r \cup {g}
<1>1. page' = WithFetches(page, s) /\ UNCHANGED <<change, told, auth, cut>> /\ m \in f.get
    BY DEF FetchServed, server, WithFetches
<1>2. IsFiniteSet(page.fetches) /\ page.fetches \subseteq Fetches /\ json \in Versions
    BY PartsOfPage DEF Fits, TypeOK
<1>3. g \in Fetches /\ g.id = f.id
  <2> DEFINE h == [f.got EXCEPT ![m] = json[m]]
  <2>1. f \in Fetches /\ m \in Modules /\ json[m] \in Nat
      BY <1>1, <1>2 DEF Fetches, Versions
  <2>2. h \in Versions
      BY <2>1 DEF Fetches, Versions
  <2>3. g = [f EXCEPT !.got = h]
      BY <2>1 DEF Fetches
  <2> HIDE DEF h, g
  <2> QED BY <2>1, <2>2, <2>3 DEF Fetches
<1> HIDE DEF g
<1>4. IsFiniteSet(r) /\ Cardinality(r) = Cardinality(page.fetches) - 1
    BY <1>2, FS_RemoveElement
<1>5. g \notin r
    BY <1>3 DEF Fits
<1>6. IsFiniteSet(s) /\ Cardinality(s) = Cardinality(r) + 1
    BY <1>4, <1>5, FS_AddElement
<1>7. Cardinality(page.fetches) \in Nat
    BY CountsOfPage
<1>8. Cardinality(s) = Cardinality(page.fetches) - 0
    BY <1>4, <1>6, <1>7
<1>9. s \in SUBSET Fetches /\ \A x, y \in s : x.id = y.id => x = y
    BY <1>2, <1>3 DEF Fits
<1> HIDE DEF s, r
<1>10. GoesBy(page, WithFetches(page, s), 0)
    BY <1>6, <1>8, <1>9, FetchesGo
<1> QED BY <1>1, <1>10, GoesActs

LEMMA RunsActs ==
    ASSUME Fits(page), Runs(page, page', 0), UNCHANGED <<change, told, auth>>,
           cut \subseteq cut', Replaced \subseteq cut'
    PROVE  Acts
<1>1. page'.conn # page.conn => "replaced" \in cut'
    BY DEF Replaced
<1>2. Moved(page, page')
    BY <1>1 DEF Moved, Runs
<1> QED BY <1>2 DEF Acts, Runs, Begins, StartsNot

LEMMA FetchDoneActs ==
    ASSUME Fits(page), NEW f \in page.fetches, FetchDone(f)
    PROVE  Acts
<1> DEFINE q == WithFetches(page, page.fetches \ {f})
<1>1. page' = SchemaDone(q, f.new, f.get, f.got) /\ CanRun(page)
    BY DEF FetchDone, WithFetches, CanGoOn, CanRun
<1>2. UNCHANGED <<change, told, auth>> /\ cut \subseteq cut' /\ Replaced \subseteq cut'
    BY DEF FetchDone, Note, server
<1>3. f.new \in Versions /\ f.got \in Versions
    BY PartsOfPage DEF Fits, Fetches
<1>4. GoesBy(page, q, 1)
    BY FetchGone
<1> HIDE DEF q
<1>5. Fits(q) /\ CanRun(q)
    BY <1>1, <1>4, CanStillRun DEF GoesBy, KeepsBy
<1>6. Runs(q, page', -1)
    BY <1>1, <1>3, <1>5, SchemaDoneRuns
<1>7. Runs(page, page', 1 + (-1))
    BY <1>4, <1>6, RunsAfter
<1>8. Runs(page, page', 0)
    BY <1>7
<1> QED BY <1>2, <1>8, RunsActs

LEMMA FetchFailsActs ==
    ASSUME Fits(page), NEW f \in page.fetches, FetchFails(f)
    PROVE  Acts
<1> DEFINE q == WithFetches(page, page.fetches \ {f})
           r == SetInitErr(q)
<1>1. page' = [r EXCEPT !.busyCounter = @ - 1]
    BY DEF FetchFails, WithFetches
<1>2. UNCHANGED <<change, told, auth>> /\ cut \subseteq cut'
    BY DEF FetchFails, server
<1>3. GoesBy(page, q, 1)
    BY FetchGone
<1> HIDE DEF q
<1>4. Fits(q)
    BY <1>3 DEF GoesBy, KeepsBy
<1>5. Goes(q, r)
    BY <1>4, ErrorGoes
<1>6. GoesBy(q, r, 0)
    BY <1>4, <1>5, GoesByNone
<1> HIDE DEF r
<1>7. Fits(r)
    BY <1>5 DEF Goes, Keeps
<1>8. GoesBy(r, page', -1)
    BY <1>1, <1>7, BusierIs, BusierGoes
<1>9. Runs(r, page', -1)
    BY <1>8, GoesRuns
<1>10. Runs(q, page', 0 + (-1))
    BY <1>4, <1>6, <1>9, RunsAfter
<1>11. Runs(page, page', 1 + (0 + (-1)))
    BY <1>3, <1>10, RunsAfter
<1>12. Runs(page, page', 0)
    BY <1>11
<1>13. Replaced \subseteq cut'
  <2>1. page'.conn = page.conn
      BY <1>3, <1>5, <1>8 DEF GoesBy, Goes, Stays
  <2> QED BY <2>1 DEF Replaced
<1> QED BY <1>2, <1>12, <1>13, RunsActs

LEMMA AnswerGoes ==
    ASSUME Fits(page), NEW w \in page.wire, NEW state \in {"asked", "done", "failed"}, NEW data \in Versions
    PROVE  Goes(page, Answer(w, state, data))
<1> DEFINE v == [w EXCEPT !.state = state, !.meta = data]
           s == (page.wire \ {w}) \cup {v}
           q == [page EXCEPT !.wire = s]
<1>1. page \in Page /\ page \in Parts /\ page.wire \subseteq Wires /\ IsFiniteSet(page.wire)
    BY PageHasParts, PartsOfPage DEF Fits
<1>2. v \in Wires /\ v.id = w.id /\ v.kind = w.kind
    BY <1>1 DEF Wires
<1>3. Answer(w, state, data) = q
    BY DEF Answer
<1> HIDE DEF v
<1>4. s \in SUBSET Wires
    BY <1>1, <1>2
<1>5. IsFiniteSet(s)
  <2>1. IsFiniteSet(page.wire \ {w})
      BY <1>1, FS_Difference, FS_Subset
  <2> QED BY <2>1, FS_AddElement
<1>6. \A x, y \in s : x.id = y.id => x = y
    BY <1>2 DEF Fits
<1>7. \A t \in page.transactions, x \in s : t.id = x.id => t.kind = x.kind
    BY <1>2 DEF Fits
<1> HIDE DEF s
<1>8. q \in Parts
    BY <1>1, <1>4 DEF Parts
<1>9. q.transactions = page.transactions /\ q.wire = s /\ SameLinks(page, q) /\ SameBusy(page, q) /\ SameLogin(page, q)
    BY <1>1 DEF Page, SameLinks, SameBusy, SameLogin
<1> HIDE DEF q
<1>10. Fits(q)
  <2>1. q \in Page
      BY <1>8, PageHasParts
  <2> QED BY <1>5, <1>6, <1>7, <1>9, <2>1 DEF Fits, SameLinks, SameBusy
<1>11. Slack(q) = Slack(page) /\ Slack(page) \in Int /\ (Counted(page) <=> Counted(q))
    BY <1>9, CountsOfPage DEF Slack, SameBusy, Counted, Blocks
<1>12. (LoginGoesOn(page) => LoginGoesOn(q)) /\ StartsNot(page, q)
    BY <1>9 DEF LoginGoesOn, SameLogin, Waits, StartsNot, Started
<1>13. Goes(page, q)
    BY <1>9, <1>10, <1>11, <1>12 DEF Goes, Keeps, Stays, SameLinks, SameBusy
<1> QED BY <1>3, <1>13

LEMMA HandleActs ==
    ASSUME TypeOK, Fits(page), NEW w \in page.wire, Handle(w)
    PROVE  Acts
<1>1. meta \in Versions /\ NoModules \in Versions
    BY DEF TypeOK, NoModules, Versions
<1>2. \E state \in {"done", "failed"}, data \in {meta, NoModules} : page' = Answer(w, state, data)
    BY DEF Handle
<1>3. Goes(page, page')
    BY <1>1, <1>2, AnswerGoes
<1>4. UNCHANGED <<change, told>> /\ auth \subseteq auth' /\ cut \subseteq cut'
    BY DEF Handle, Note
<1>5. GoesBy(page, page', 0)
    BY <1>3, GoesByNone
<1> QED BY <1>4, <1>5 DEF Acts, GoesBy, Moved, Begins, StartsNot

-----------------------------------------------------------------------------
(* The invariants.                                                           *)

\* News came after the connection was opened, and the news that the schema is loaded are
\* of a change before the one that is under way.
NewsFit(p, c, t) ==
    \A n \in p.news :
        /\ n.nr <= t /\ p.link[n.on] \in {"open", "closing"}
        /\ c # "none" /\ n.kind = "schemaLoaded" => n.nr < t

Base == TypeOK /\ Fits(page) /\ Counted(page) /\ NewsFit(page, change, told)

\* one connection is used
OneLink(p) ==
    /\ p.link[p.conn] # "closing"
    /\ \A l \in Links : l # p.conn => p.link[l] \in {"none", "closing"}

Loaded(p)  == {n \in p.news : n.on = p.conn /\ n.kind = "schemaLoaded"}
Loading(p) == {n \in p.news : n.on = p.conn /\ n.kind = "schemaLoading"}

\* what the server still owes the page: the end of a change it has told of
Due(p, c)  == One(c # "none") + Cardinality(Loaded(p)) - Cardinality(Loading(p))
Owed(p, c) ==
    /\ p.link[p.conn] # "open" => ~p.wsConnected /\ (~p.threw => Slack(p) <= 0)
    /\ p.wsConnected => (~p.threw => Slack(p) <= Due(p, c))
AllOwed == "replaced" \notin cut => OneLink(page) /\ Owed(page, change)

Shows(p, a) ==
    /\ p.link[p.conn] # "open" => ~Started(p)
    /\ Started(p) => p.conn \in a
AllShown == cut \cap {"start", "replaced"} = {} => OneLink(page) /\ Shows(page, auth)

AllSigned == cut \cap {"login", "captions"} = {} => LoginGoesOn(page)

Invariants == AllOwed /\ AllShown /\ AllSigned

LEMMA MovedLinks ==
    ASSUME NEW p, NEW q, Fits(p), Fits(q), OneLink(p), Stays(p, q) \/ (Connects(p, q) /\ q.conn = p.conn)
    PROVE  OneLink(q) /\ q.conn = p.conn /\ (q.link[q.conn] = "open" <=> p.link[p.conn] = "open")
<1>1. p.link \in LinkStates /\ p.conn \in Links
    BY PartsOfPage DEF Fits, LinkStates
<1> QED BY <1>1 DEF OneLink, Stays, Connects, LinkStates

LEMMA NewsMoved ==
    ASSUME NEW p, NEW q, NEW c, NEW t, Fits(p), q.news = p.news, Stays(p, q) \/ Connects(p, q), NewsFit(p, c, t)
    PROVE  NewsFit(q, c, t)
<1>1. p.link \in LinkStates /\ p.news \subseteq Told
    BY PartsOfPage DEF Fits, LinkStates
<1>2. ASSUME NEW n \in p.news PROVE q.link[n.on] = p.link[n.on]
    BY <1>1 DEF NewsFit, Stays, Connects, LinkStates, Told
<1> QED BY <1>2 DEF NewsFit

LEMMA DueIs ==
    ASSUME NEW p, Fits(p), NEW c
    PROVE  /\ IsFiniteSet(Loaded(p)) /\ IsFiniteSet(Loading(p)) /\ Cardinality(Loaded(p)) \in Nat
           /\ Cardinality(Loading(p)) \in Nat /\ Due(p, c) \in Int
<1>1. IsFiniteSet(p.news)
    BY DEF Fits
<1>2. IsFiniteSet(Loaded(p)) /\ IsFiniteSet(Loading(p))
    BY <1>1, FS_Subset DEF Loaded, Loading
<1>3. Cardinality(Loaded(p)) \in Nat /\ Cardinality(Loading(p)) \in Nat
    BY <1>2, FS_CardinalityType
<1> QED BY <1>2, <1>3 DEF Due, One

\* The actions that call functions of the page keep what holds of it.
LEMMA ActsSafe ==
    ASSUME Base, Acts
    PROVE  /\ Fits(page') /\ Counted(page') /\ NewsFit(page', change', told')
           /\ Invariants => Invariants'
<1>1. Fits(page) /\ Counted(page) /\ NewsFit(page, change, told)
    BY DEF Base
<1>2. /\ Fits(page') /\ Counted(page') /\ page'.news = page.news /\ page'.wsConnected = page.wsConnected
      /\ ~page'.threw => ~page.threw /\ Slack(page') <= Slack(page) + 0
      /\ LoginGoesOn(page) => LoginGoesOn(page') \/ "captions" \in cut'
      /\ change' = change /\ told' = told /\ auth \subseteq auth' /\ cut \subseteq cut'
    BY <1>1 DEF Acts, KeepsBy, Serves
<1>3. Stays(page, page') \/ Connects(page, page')
    BY DEF Acts, Moved
<1>4. NewsFit(page', change', told')
    BY <1>1, <1>2, <1>3, NewsMoved
<1>5. Slack(page) \in Int /\ Slack(page') \in Int
    BY <1>1, <1>2, CountsOfPage
<1>6. ASSUME "replaced" \notin cut', OneLink(page)
      PROVE  OneLink(page') /\ page'.conn = page.conn /\ (page'.link[page'.conn] = "open" <=> page.link[page.conn] = "open")
  <2>1. Stays(page, page') \/ (Connects(page, page') /\ page'.conn = page.conn)
      BY <1>6 DEF Acts, Moved
  <2> QED BY <1>1, <1>2, <1>6, <2>1, MovedLinks
<1>7. AllOwed => AllOwed'
  <2> SUFFICES ASSUME "replaced" \notin cut', OneLink(page), Owed(page, change)
               PROVE  OneLink(page') /\ Owed(page', change')
      BY <1>2 DEF AllOwed
  <2>1. OneLink(page') /\ page'.conn = page.conn /\ (page'.link[page'.conn] = "open" <=> page.link[page.conn] = "open")
      BY <1>6
  <2>2. Due(page', change') = Due(page, change)
      BY <1>2, <2>1 DEF Due, Loaded, Loading
  <2>3. Due(page, change) \in Int
      BY <1>1, DueIs
  <2> QED BY <1>2, <1>5, <2>1, <2>2, <2>3 DEF Owed
<1>8. AllShown => AllShown'
  <2> SUFFICES ASSUME cut' \cap {"start", "replaced"} = {}, OneLink(page), Shows(page, auth)
               PROVE  OneLink(page') /\ Shows(page', auth')
      BY <1>2 DEF AllShown
  <2>1. OneLink(page') /\ page'.conn = page.conn /\ (page'.link[page'.conn] = "open" <=> page.link[page.conn] = "open")
      BY <1>6
  <2>2. Started(page') => page.link[page.conn] = "open" /\ page.conn \in auth
    <3>1. CASE Started(page)
        BY <3>1 DEF Shows
    <3>2. CASE \E l \in auth : page.link[l] = "open"
      <4>1. auth \subseteq Links
          BY DEF Base, TypeOK
      <4> QED BY <3>2, <4>1 DEF OneLink
    <3> QED BY <3>1, <3>2 DEF Acts, Begins
  <2> QED BY <1>2, <2>1, <2>2 DEF Shows
<1>9. AllSigned => AllSigned'
    BY <1>2 DEF AllSigned
<1> QED BY <1>2, <1>4, <1>7, <1>8, <1>9 DEF Invariants

-----------------------------------------------------------------------------
(* News.                                                                     *)

WithNews(p, s) == [p EXCEPT !.news = s]

LEMMA NewsFits ==
    ASSUME NEW p, Fits(p), NEW s \in SUBSET Told, IsFiniteSet(s)
    PROVE  LET q == WithNews(p, s)
           IN  /\ Fits(q) /\ q.news = s /\ Stays(p, q) /\ q.wsConnected = p.wsConnected /\ q.threw = p.threw
               /\ Slack(q) = Slack(p) /\ (Counted(p) <=> Counted(q)) /\ (Started(p) <=> Started(q))
               /\ (LoginGoesOn(p) <=> LoginGoesOn(q))
<1> DEFINE q == [p EXCEPT !.news = s]
<1>1. p \in Page /\ p \in Parts
    BY PageHasParts DEF Fits
<1>2. q \in Parts
    BY <1>1 DEF Parts
<1>3. /\ q.news = s /\ q.link = p.link /\ q.conn = p.conn /\ q.wsConnected = p.wsConnected
      /\ SameCalls(p, q) /\ SameBusy(p, q) /\ SameLogin(p, q)
    BY <1>1 DEF Page, SameCalls, SameBusy, SameLogin
<1>4. WithNews(p, s) = q
    BY DEF WithNews
<1> HIDE DEF q
<1>5. Fits(q)
  <2>1. q \in Page
      BY <1>2, PageHasParts
  <2> QED BY <1>3, <2>1 DEF Fits, SameCalls, SameBusy
<1>6. Slack(q) = Slack(p) /\ (Counted(p) <=> Counted(q))
    BY <1>3 DEF Slack, SameBusy, SameCalls, Counted, Blocks
<1>7. (LoginGoesOn(p) <=> LoginGoesOn(q)) /\ (Started(p) <=> Started(q))
    BY <1>3 DEF LoginGoesOn, SameLogin, SameCalls, Waits, Started
<1> QED BY <1>3, <1>4, <1>5, <1>6, <1>7 DEF Stays, SameBusy

\* the page receives what it was told
LEMMA ReceiveNewsSafe ==
    ASSUME Base, NEW n \in page.news, ReceiveNews(n)
    PROVE  /\ Fits(page') /\ Counted(page') /\ NewsFit(page', change', told')
           /\ Invariants => Invariants'
<1> DEFINE s == page.news \ {n}
           q == WithNews(page, s)
           d == Change(n)
<1>1. Fits(page) /\ Counted(page) /\ NewsFit(page, change, told)
    BY DEF Base
<1>2. /\ page.link[n.on] = "open" /\ CanRun(page) /\ page' = BackendRequest(q, n)
    BY DEF ReceiveNews, CanGoOn, CanRun, WithNews
<1>3. UNCHANGED <<change, told, auth>> /\ cut \subseteq cut' /\ Replaced \subseteq cut'
    BY DEF ReceiveNews, Note, server
<1>4. page.news \subseteq Told /\ IsFiniteSet(page.news) /\ n \in Told
    BY <1>1, PartsOfPage DEF Fits
<1>5. s \in SUBSET Told /\ IsFiniteSet(s)
    BY <1>4, FS_Subset
<1>6. /\ Fits(q) /\ q.news = s /\ Stays(page, q) /\ q.wsConnected = page.wsConnected /\ q.threw = page.threw
      /\ Slack(q) = Slack(page) /\ (Counted(page) <=> Counted(q)) /\ (Started(page) <=> Started(q))
      /\ (LoginGoesOn(page) <=> LoginGoesOn(q))
    BY <1>1, <1>5, NewsFits
<1>7. CanRun(q)
    BY <1>2, <1>6 DEF CanRun, FreeLinks, Stays
<1> HIDE DEF q
<1>8. Runs(q, page', d)
    BY <1>2, <1>4, <1>6, <1>7, BackendRequestRuns
<1>9. d \in Int
    BY DEF Change
<1> HIDE DEF d
<1>10. /\ Fits(page') /\ Counted(page') /\ page'.news = s /\ page'.wsConnected = page.wsConnected
       /\ ~page'.threw => ~page.threw /\ Slack(page') <= Slack(page) + d
       /\ LoginGoesOn(page) => LoginGoesOn(page')
       /\ Started(page') => Started(page)
       /\ Stays(q, page') \/ Connects(q, page')
    BY <1>1, <1>6, <1>8 DEF Runs, KeepsBy, StartsNot
<1>11. NewsFit(page', change', told')
  <2>1. NewsFit(q, change, told)
      BY <1>1, <1>6 DEF NewsFit, Stays
  <2>2. page'.news = q.news
      BY <1>6, <1>10
  <2> QED BY <1>3, <1>6, <1>10, <2>1, <2>2, NewsMoved
<1>12. Slack(page) \in Int /\ Slack(page') \in Int
    BY <1>1, <1>10, CountsOfPage
<1>13. ASSUME "replaced" \notin cut', OneLink(page)
       PROVE  /\ OneLink(page') /\ page'.conn = page.conn /\ n.on = page.conn
              /\ page'.link[page'.conn] = "open" <=> page.link[page.conn] = "open"
  <2>1. page'.conn = page.conn
      BY <1>3, <1>13 DEF Replaced
  <2>2. OneLink(q) /\ q.conn = page.conn /\ q.link = page.link
      BY <1>6, <1>13 DEF OneLink, Stays
  <2>3. n.on = page.conn
      BY <1>2, <1>4, <1>13 DEF OneLink, Told
  <2> QED BY <1>6, <1>10, <2>1, <2>2, <2>3, MovedLinks
<1>14. AllOwed => AllOwed'
  <2> SUFFICES ASSUME "replaced" \notin cut', OneLink(page), Owed(page, change)
               PROVE  OneLink(page') /\ Owed(page', change')
      BY <1>3 DEF AllOwed
  <2>1. /\ OneLink(page') /\ page'.conn = page.conn /\ n.on = page.conn
        /\ page'.link[page'.conn] = "open" <=> page.link[page.conn] = "open"
      BY <1>13
  <2>2. Due(page', change') = Due(page, change) + d
    <3>1. /\ IsFiniteSet(Loaded(page)) /\ IsFiniteSet(Loading(page)) /\ Cardinality(Loaded(page)) \in Nat
          /\ Cardinality(Loading(page)) \in Nat
        BY <1>1, DueIs
    <3>2. Loaded(page') = Loaded(page) \ {n} /\ Loading(page') = Loading(page) \ {n}
        BY <1>10, <2>1 DEF Loaded, Loading
    <3>3. CASE n.kind = "schemaLoading"
      <4>1. n \in Loading(page) /\ n \notin Loaded(page) /\ d = 1
          BY <2>1, <3>3 DEF Loaded, Loading, Change, d
      <4>2. Cardinality(Loading(page')) = Cardinality(Loading(page)) - 1 /\ Loaded(page') = Loaded(page)
        <5>1. Cardinality(Loading(page) \ {n}) = Cardinality(Loading(page)) - 1
            BY <3>1, <4>1, FS_RemoveElement
        <5>2. Loaded(page) \ {n} = Loaded(page)
            BY <4>1
        <5> QED BY <3>2, <5>1, <5>2
      <4> QED BY <1>3, <3>1, <4>1, <4>2 DEF Due, One
    <3>4. CASE n.kind = "schemaLoaded"
      <4>1. n \in Loaded(page) /\ n \notin Loading(page) /\ d = -1
          BY <2>1, <3>4 DEF Loaded, Loading, Change, d
      <4>2. Cardinality(Loaded(page')) = Cardinality(Loaded(page)) - 1 /\ Loading(page') = Loading(page)
        <5>1. Cardinality(Loaded(page) \ {n}) = Cardinality(Loaded(page)) - 1
            BY <3>1, <4>1, FS_RemoveElement
        <5>2. Loading(page) \ {n} = Loading(page)
            BY <4>1
        <5> QED BY <3>2, <5>1, <5>2
      <4> QED BY <1>3, <3>1, <4>1, <4>2 DEF Due, One
    <3>5. CASE n.kind \notin {"schemaLoading", "schemaLoaded"}
      <4>1. n \notin Loaded(page) /\ n \notin Loading(page) /\ d = 0
          BY <3>5 DEF Loaded, Loading, Change, d
      <4>2. Loaded(page') = Loaded(page) /\ Loading(page') = Loading(page)
          BY <3>2, <4>1
      <4> QED BY <1>3, <3>1, <4>1, <4>2 DEF Due, One
    <3> QED BY <3>3, <3>4, <3>5
  <2>3. Due(page, change) \in Int
      BY <1>1, DueIs
  <2>4. page.link[page.conn] = "open"
      BY <1>2, <2>1
  <2> QED BY <1>9, <1>10, <1>12, <2>1, <2>2, <2>3, <2>4 DEF Owed
<1>15. AllShown => AllShown'
  <2> SUFFICES ASSUME cut' \cap {"start", "replaced"} = {}, OneLink(page), Shows(page, auth)
               PROVE  OneLink(page') /\ Shows(page', auth')
      BY <1>3 DEF AllShown
  <2>1. /\ OneLink(page') /\ page'.conn = page.conn
        /\ page'.link[page'.conn] = "open" <=> page.link[page.conn] = "open"
      BY <1>13
  <2> QED BY <1>3, <1>10, <2>1 DEF Shows
<1>16. AllSigned => AllSigned'
    BY <1>3, <1>10 DEF AllSigned
<1> QED BY <1>10, <1>11, <1>14, <1>15, <1>16 DEF Invariants

\* what the hub sends to every open connection
Sends(kind) ==
    {[on |-> l, kind |-> kind, nr |-> told', meta |-> meta] : l \in {l \in Links : page.link[l] = "open"}}

LEMMA SendsAre ==
    ASSUME TypeOK, told' \in Nat, NEW kind \in NewsKinds
    PROVE  /\ IsFiniteSet(Sends(kind)) /\ Sends(kind) \subseteq Told
           /\ \A n \in Sends(kind) : n.nr = told' /\ n.kind = kind /\ page.link[n.on] = "open"
           /\ \A l \in Links : page.link[l] = "open" =>
                \E n \in Sends(kind) : n.on = l /\ \A k \in Sends(kind) : k.on = l => k = n
<1> DEFINE S == {l \in Links : page.link[l] = "open"}
           t == told'
           g == [l \in S |-> [on |-> l, kind |-> kind, nr |-> t, meta |-> meta]]
<1>1. IsFiniteSet(S)
    BY ClientAssumption, FS_Subset
<1>2. g \in Surjection(S, Sends(kind))
    BY DEF Surjection, Sends
<1>3. IsFiniteSet(Sends(kind))
    BY <1>1, <1>2, FS_Surjection
<1>4. meta \in Versions
    BY DEF TypeOK
<1>5. Sends(kind) \subseteq Told
    BY <1>4 DEF Sends, Told
<1>6. \A n \in Sends(kind) : n.nr = told' /\ n.kind = kind /\ page.link[n.on] = "open"
    BY DEF Sends
<1>7. ASSUME NEW l \in Links, page.link[l] = "open"
      PROVE  \E n \in Sends(kind) : n.on = l /\ \A k \in Sends(kind) : k.on = l => k = n
  <2> DEFINE n == [on |-> l, kind |-> kind, nr |-> told', meta |-> meta]
  <2>1. n \in Sends(kind) /\ n.on = l
      BY <1>7 DEF Sends
  <2>2. \A k \in Sends(kind) : k.on = l => k = n
      BY DEF Sends
  <2> HIDE DEF n
  <2> QED BY <2>1, <2>2
<1> QED BY <1>3, <1>5, <1>6, <1>7

\* The server tells of a change, of its end, or of something else.
LEMMA TellSafe ==
    ASSUME Base, NEW kind \in NewsKinds, Tell(kind), UNCHANGED <<auth, cut>>, told' \in Nat, told' >= told,
           kind = "schemaLoading" => change = "none" /\ change' # "none" /\ told' > told,
           kind = "schemaLoaded" => change # "none" /\ change' = "none",
           kind \notin {"schemaLoading", "schemaLoaded"} => change' = change
    PROVE  /\ Fits(page') /\ Counted(page') /\ NewsFit(page', change', told')
           /\ Invariants => Invariants'
<1> DEFINE N == Sends(kind)
           s == page.news \cup N
<1>1. Fits(page) /\ Counted(page) /\ NewsFit(page, change, told) /\ TypeOK /\ told \in Nat
    BY DEF Base, TypeOK
<1>2. /\ IsFiniteSet(N) /\ N \subseteq Told
      /\ \A n \in N : n.nr = told' /\ n.kind = kind /\ page.link[n.on] = "open"
      /\ \A l \in Links : page.link[l] = "open" => \E n \in N : n.on = l /\ \A k \in N : k.on = l => k = n
    BY <1>1, SendsAre
<1>3. page' = WithNews(page, s)
    BY DEF Tell, WithNews, Sends
<1>4. page.news \subseteq Told /\ IsFiniteSet(page.news)
    BY <1>1, PartsOfPage DEF Fits
<1> HIDE DEF N
<1>5. s \in SUBSET Told /\ IsFiniteSet(s)
    BY <1>2, <1>4, FS_Union
<1>6. /\ Fits(page') /\ page'.news = s /\ Stays(page, page') /\ page'.wsConnected = page.wsConnected
      /\ page'.threw = page.threw /\ Slack(page') = Slack(page) /\ (Counted(page) <=> Counted(page'))
      /\ (Started(page) <=> Started(page')) /\ (LoginGoesOn(page) <=> LoginGoesOn(page'))
    BY <1>1, <1>3, <1>5, NewsFits
<1>7. NewsFit(page', change', told')
  <2>1. ASSUME NEW n \in page.news
        PROVE  /\ n.nr <= told' /\ page'.link[n.on] \in {"open", "closing"}
               /\ change' # "none" /\ n.kind = "schemaLoaded" => n.nr < told'
    <3>1. n.nr \in Nat /\ n.kind \in NewsKinds
        BY <1>4 DEF Told
    <3> QED BY <1>1, <1>6, <3>1 DEF NewsFit, Stays
  <2>2. ASSUME NEW n \in N
        PROVE  /\ n.nr <= told' /\ page'.link[n.on] \in {"open", "closing"}
               /\ change' # "none" /\ n.kind = "schemaLoaded" => n.nr < told'
      BY <1>2, <1>6 DEF Stays
  <2> QED BY <1>6, <2>1, <2>2 DEF NewsFit
<1>8. ASSUME OneLink(page), page.link[page.conn] = "open"
      PROVE  Due(page', change') = Due(page, change)
  <2>1. page.conn \in Links
      BY <1>1, PartsOfPage DEF Fits
  <2>2. PICK m \in N : m.on = page.conn /\ \A k \in N : k.on = page.conn => k = m
      BY <1>2, <1>8, <2>1
  <2>3. /\ IsFiniteSet(Loaded(page)) /\ IsFiniteSet(Loading(page)) /\ Cardinality(Loaded(page)) \in Nat
        /\ Cardinality(Loading(page)) \in Nat
      BY <1>1, DueIs
  <2>4. m.kind = kind /\ m.nr = told'
      BY <1>2
  <2>5. CASE kind = "schemaLoading"
    <3>1. Loading(page') = Loading(page) \cup {m} /\ Loaded(page') = Loaded(page)
        BY <1>2, <1>6, <2>2, <2>4, <2>5 DEF Loading, Loaded, Stays
    <3>2. m \notin Loading(page)
        BY <1>1, <2>4, <2>5 DEF NewsFit, Loading
    <3>3. Cardinality(Loading(page) \cup {m}) = Cardinality(Loading(page)) + 1
        BY <2>3, <3>2, FS_AddElement
    <3> QED BY <2>3, <2>5, <3>1, <3>3 DEF Due, One
  <2>6. CASE kind = "schemaLoaded"
    <3>1. Loaded(page') = Loaded(page) \cup {m} /\ Loading(page') = Loading(page)
        BY <1>2, <1>6, <2>2, <2>4, <2>6 DEF Loading, Loaded, Stays
    <3>2. m \notin Loaded(page)
      <4>1. ASSUME m \in Loaded(page) PROVE FALSE
        <5>1. m.nr < told /\ m.nr = told'
            BY <1>1, <2>4, <2>6, <4>1 DEF NewsFit, Loaded
        <5> QED BY <1>1, <5>1
      <4> QED BY <4>1
    <3>3. Cardinality(Loaded(page) \cup {m}) = Cardinality(Loaded(page)) + 1
        BY <2>3, <3>2, FS_AddElement
    <3> QED BY <2>3, <2>6, <3>1, <3>3 DEF Due, One
  <2>7. CASE kind \notin {"schemaLoading", "schemaLoaded"}
    <3>1. Loaded(page') = Loaded(page) /\ Loading(page') = Loading(page)
        BY <1>2, <1>6, <2>7 DEF Loading, Loaded, Stays
    <3> QED BY <2>7, <3>1 DEF Due, One
  <2> QED BY <2>5, <2>6, <2>7
<1>9. AllOwed => AllOwed'
  <2> SUFFICES ASSUME OneLink(page), Owed(page, change)
               PROVE  OneLink(page') /\ Owed(page', change')
      BY DEF AllOwed
  <2>1. OneLink(page')
      BY <1>6 DEF OneLink, Stays
  <2>2. page.wsConnected \in BOOLEAN
      BY <1>1, PartsOfPage DEF Fits
  <2>3. page.wsConnected => page.link[page.conn] = "open"
      BY <2>2 DEF Owed
  <2> QED BY <1>6, <1>8, <2>1, <2>3 DEF Owed, Stays
<1>10. AllShown => AllShown'
    BY <1>6 DEF AllShown, OneLink, Shows, Stays
<1>11. AllSigned => AllSigned'
    BY <1>6 DEF AllSigned
<1> QED BY <1>1, <1>6, <1>7, <1>9, <1>10, <1>11 DEF Invariants

\* A connection is open: one that was wanted, and no other, unless a handler replaced it.
LEMMA OpenSafe ==
    ASSUME Base, NEW l \in Links, Open(l)
    PROVE  /\ Fits(page') /\ Counted(page') /\ NewsFit(page', change', told')
           /\ Invariants => Invariants'
<1> DEFINE yes == TRUE
           f == [page.link EXCEPT ![l] = "open"]
           q == [page EXCEPT !.link = f, !.wsConnected = yes]
<1>1. Fits(page) /\ Counted(page) /\ NewsFit(page, change, told)
    BY DEF Base
<1>2. page.link[l] = "connecting" /\ auth' = auth \ {l} /\ UNCHANGED <<change, told, cut>>
    BY DEF Open
<1>3. /\ page \in Page /\ page \in Parts /\ page.link \in LinkStates /\ page.conn \in Links
      /\ page.news \subseteq Told
    BY <1>1, PageHasParts, PartsOfPage DEF Fits, LinkStates
<1>4. f \in LinkStates /\ yes \in BOOLEAN /\ yes /\ f = [page.link EXCEPT ![l] = "open"]
    BY <1>3 DEF LinkStates
<1>5. page' = StateChange(q)
    BY DEF Open
<1> HIDE DEF f, yes
<1>6. q \in Parts
    BY <1>3, <1>4 DEF Parts
<1>7. /\ q.link = f /\ q.conn = page.conn /\ q.news = page.news /\ q.wsConnected = yes
      /\ SameCalls(page, q) /\ SameBusy(page, q) /\ SameLogin(page, q)
    BY <1>3 DEF Page, SameCalls, SameBusy, SameLogin
<1> HIDE DEF q
<1>8. Fits(q) /\ CanRun(q)
    BY <1>1, <1>4, <1>6, <1>7, CallsFit, PageHasParts DEF SameBusy, CanRun
<1>9. Runs(q, page', 0)
    BY <1>5, <1>8, StateChangeRuns
<1>10. /\ Slack(q) = Slack(page) /\ (Counted(page) <=> Counted(q))
       /\ (Started(page) <=> Started(q)) /\ (LoginGoesOn(page) <=> LoginGoesOn(q)) /\ q.threw = page.threw
  <2>1. Slack(q) = Slack(page) /\ (Counted(page) <=> Counted(q)) /\ q.threw = page.threw
      BY <1>7 DEF Slack, SameBusy, SameCalls, Counted, Blocks
  <2> QED BY <1>7, <2>1 DEF LoginGoesOn, SameLogin, SameCalls, Waits, Started
<1>11. /\ Fits(page') /\ Counted(page') /\ page'.news = page.news
       /\ ~page'.threw => ~page.threw /\ Slack(page') <= Slack(page) + 0
       /\ LoginGoesOn(page) => LoginGoesOn(page')
       /\ Started(page') => Started(page)
       /\ page'.link = f /\ page'.conn = page.conn
    BY <1>1, <1>4, <1>7, <1>9, <1>10 DEF Runs, KeepsBy, StartsNot, Stays
<1>12. ASSUME NEW n \in page.news PROVE n.on # l /\ page'.link[n.on] = page.link[n.on]
    BY <1>1, <1>2, <1>3, <1>4, <1>11 DEF NewsFit, Told, LinkStates
<1>13. NewsFit(page', change', told')
    BY <1>1, <1>2, <1>11, <1>12 DEF NewsFit
<1>14. ASSUME OneLink(page)
       PROVE  l = page.conn /\ OneLink(page') /\ page'.link[page'.conn] = "open"
    BY <1>2, <1>3, <1>4, <1>11, <1>14 DEF OneLink, LinkStates
<1>15. AllOwed => AllOwed'
  <2> SUFFICES ASSUME OneLink(page), Owed(page, change)
               PROVE  OneLink(page') /\ Owed(page', change')
      BY <1>2 DEF AllOwed
  <2>1. l = page.conn /\ OneLink(page') /\ page'.link[page'.conn] = "open"
      BY <1>14
  <2>2. ~page.threw => Slack(page) <= 0
      BY <1>2, <2>1 DEF Owed
  <2>3. Loaded(page') = {} /\ Loading(page') = {}
      BY <1>11, <1>12, <2>1 DEF Loaded, Loading
  <2>4. Due(page', change') = One(change' # "none")
      BY <2>3, FS_EmptySet DEF Due, One
  <2>5. Slack(page) \in Int /\ Slack(page') \in Int
      BY <1>1, <1>11, CountsOfPage
  <2> QED BY <1>11, <2>1, <2>2, <2>4, <2>5 DEF Owed, One
<1>16. AllShown => AllShown'
  <2> SUFFICES ASSUME OneLink(page), Shows(page, auth)
               PROVE  OneLink(page') /\ Shows(page', auth')
      BY <1>2 DEF AllShown
  <2>1. ~Started(page)
      BY <1>2, <1>14 DEF Shows
  <2> QED BY <1>11, <1>14, <2>1 DEF Shows
<1>17. AllSigned => AllSigned'
    BY <1>2, <1>11 DEF AllSigned
<1> QED BY <1>11, <1>13, <1>15, <1>16, <1>17 DEF Invariants

-----------------------------------------------------------------------------
(* Connections that end.                                                     *)

\* what a start or a login loses is noted
LEMMA GivenUpNotes ==
    ASSUME GivenUp
    PROVE  /\ cut \subseteq cut'
           /\ "login" \notin cut' => ~LoggingIn
           /\ "start" \notin cut' => ~Starting
BY DEF GivenUp

LEMMA OnCloseSafe ==
    ASSUME Base, NEW l \in Links, OnClose(l)
    PROVE  /\ Fits(page') /\ Counted(page') /\ NewsFit(page', change', told')
           /\ Invariants => Invariants'
<1> DEFINE q == WsBroken(page)
           f == [q.link EXCEPT ![l] = "none"]
           v == {w \in q.wire : w.on # l}
           s == {n \in q.news : n.on # l}
           r == [q EXCEPT !.link = f, !.wire = v, !.news = s]
<1>1. Fits(page) /\ Counted(page) /\ NewsFit(page, change, told)
    BY DEF Base
<1>2. GivenUp /\ UNCHANGED <<change, told, auth>> /\ page.link[l] # "none"
    BY DEF OnClose, server
<1>3. Broken(page, q)
    BY <1>1, WsBrokenIs
<1>4. page' = r
    BY DEF OnClose
<1> HIDE DEF q
<1>5. /\ q \in Page /\ q \in Parts /\ q.link \in LinkStates /\ q.news \subseteq Told /\ q.wire \subseteq Wires
      /\ q.conn \in Links
    BY <1>3, PageHasParts, PartsOfPage DEF Broken, Fits, LinkStates
<1>6. f \in LinkStates /\ v \in SUBSET Wires /\ s \in SUBSET Told
    BY <1>5 DEF LinkStates
<1>7. v \subseteq q.wire /\ s \subseteq q.news /\ (\A n \in s : n.on # l) /\ f = [q.link EXCEPT ![l] = "none"]
    OBVIOUS
<1> HIDE DEF f, v, s
<1>8. r \in Parts
    BY <1>5, <1>6 DEF Parts
<1>9. /\ r.link = f /\ r.conn = q.conn /\ r.wire = v /\ r.news = s /\ r.transactions = q.transactions
      /\ r.wsConnected = q.wsConnected /\ SameBusy(q, r) /\ SameLogin(q, r)
    BY <1>5 DEF Page, SameBusy, SameLogin
<1> HIDE DEF r
<1>10. Fits(r)
  <2>1. r \in Page
      BY <1>8, PageHasParts
  <2>2. Fits(q)
      BY <1>3 DEF Broken
  <2>3. IsFiniteSet(q.wire) /\ IsFiniteSet(q.news)
      BY <2>2 DEF Fits
  <2>4. IsFiniteSet(v) /\ IsFiniteSet(s)
      BY <1>7, <2>3, FS_Subset
  <2> QED BY <1>7, <1>9, <2>1, <2>2, <2>4 DEF Fits, SameBusy
<1>11. /\ r.transactions = page.transactions /\ r.conn = page.conn /\ r.blockingCount = page.blockingCount
       /\ r.busyCounter = 0 /\ ~r.wsConnected /\ ~r.appReady /\ ~r.loginReady
       /\ r.loading = page.loading /\ r.captions = page.captions
       /\ r.link = [page.link EXCEPT ![l] = "none"] /\ r.news \subseteq page.news /\ \A n \in r.news : n.on # l
       /\ r.token <=> page.token /\ (page.tokenKeep \/ ~page.appReady)
    BY <1>3, <1>7, <1>9 DEF Broken, SameBusy, SameLogin, SameCalls
<1>12. Counted(r)
    BY <1>1, <1>11 DEF Counted, Blocks
<1>13. page.link \in LinkStates /\ page.news \subseteq Told
    BY <1>1, PartsOfPage DEF Fits, LinkStates
<1>14. NewsFit(r, change', told')
    BY <1>1, <1>2, <1>11, <1>13 DEF NewsFit, LinkStates, Told
<1>15. Slack(r) <= 0
  <2>1. Cardinality(r.fetches) \in Nat
      BY <1>10, CountsOfPage
  <2> QED BY <1>11, <2>1 DEF Slack, One
<1>16. OneLink(page) => OneLink(r)
    BY <1>5, <1>11, <1>13 DEF OneLink, LinkStates
<1>17. ("start" \notin cut' => ~Started(r)) /\ cut \subseteq cut'
    BY <1>2, <1>11, GivenUpNotes DEF Started, Starting, Waits
<1>18. LoginGoesOn(page) => LoginGoesOn(r)
    BY <1>11 DEF LoginGoesOn, Waits
<1>19. AllOwed => AllOwed'
    BY <1>4, <1>11, <1>15, <1>16, <1>17 DEF AllOwed, Owed
<1>20. AllShown => AllShown'
    BY <1>4, <1>16, <1>17 DEF AllShown, Shows
<1>21. AllSigned => AllSigned'
    BY <1>4, <1>17, <1>18 DEF AllSigned
<1> QED BY <1>4, <1>10, <1>12, <1>14, <1>19, <1>20, <1>21 DEF Invariants

\* what holds of a page that connects anew
LEMMA ReconnectsSafe ==
    ASSUME NEW p, NEW q, NEW c, NEW t, Fits(p), Reconnects(p, q), NewsFit(p, c, t)
    PROVE  /\ Fits(q) /\ Counted(q) /\ NewsFit(q, c, t) /\ (OneLink(p) => OneLink(q))
           /\ Slack(q) <= 0 /\ ~q.wsConnected /\ q.link[q.conn] # "open"
           /\ Started(q) => p.captions > 0
<1>1. p.link \in LinkStates /\ p.news \subseteq Told /\ p.conn \in Links
    BY PartsOfPage DEF Fits, LinkStates
<1>2. Fits(q) /\ q.blockingCount = 0 /\ q.busyCounter = 0 /\ q.transactions = {} /\ ~q.wsConnected /\ ~q.appReady
    BY DEF Reconnects
<1>3. Cardinality(q.fetches) \in Nat /\ Cardinality(Blocks(q)) \in Nat
    BY <1>2, CountsOfPage
<1>4. Counted(q) /\ Slack(q) <= 0
    BY <1>2, <1>3 DEF Counted, Slack, One
<1>5. NewsFit(q, c, t)
    BY <1>1 DEF NewsFit, Reconnects, Shut, LinkStates, Told
<1>6. OneLink(p) => OneLink(q)
    BY <1>1 DEF OneLink, Reconnects, Shut, LinkStates
<1>7. q.link[q.conn] # "open"
    BY <1>1 DEF Reconnects, Shut, LinkStates
<1>8. Started(q) => p.captions > 0
    BY <1>2 DEF Started, Waits, Reconnects
<1> QED BY <1>2, <1>4, <1>5, <1>6, <1>7, <1>8

LEMMA TickSafe ==
    ASSUME Base, Tick
    PROVE  /\ Fits(page') /\ Counted(page') /\ NewsFit(page', change', told')
           /\ Invariants => Invariants'
<1>1. Fits(page) /\ Counted(page) /\ NewsFit(page, change, told)
    BY DEF Base
<1>2. GivenUp /\ UNCHANGED <<change, told, auth>> /\ page' = WsReconnect(page) /\ FreeLinks(page) # {}
    BY DEF Tick, server
<1>3. Reconnects(page, page')
    BY <1>1, <1>2, ReconnectIs
<1>4. /\ Fits(page') /\ Counted(page') /\ NewsFit(page', change', told') /\ (OneLink(page) => OneLink(page'))
      /\ Slack(page') <= 0 /\ ~page'.wsConnected /\ page'.link[page'.conn] # "open"
      /\ Started(page') => page.captions > 0
    BY <1>1, <1>2, <1>3, ReconnectsSafe
<1>5. /\ cut \subseteq cut' /\ ("login" \notin cut' => ~LoggingIn) /\ ("start" \notin cut' => ~Starting)
    BY <1>2, GivenUpNotes
<1>6. AllOwed => AllOwed'
    BY <1>4, <1>5 DEF AllOwed, Owed
<1>7. AllShown => AllShown'
    BY <1>4, <1>5 DEF AllShown, Shows, Starting
<1>8. AllSigned => AllSigned'
    BY <1>3, <1>5 DEF AllSigned, LoggingIn, LoginGoesOn, Reconnects
<1> QED BY <1>4, <1>6, <1>7, <1>8 DEF Invariants

LEMMA LogoutSafe ==
    ASSUME Base, Logout
    PROVE  /\ Fits(page') /\ Counted(page') /\ NewsFit(page', change', told')
           /\ Invariants => Invariants'
<1> DEFINE no == FALSE
           q  == [page EXCEPT !.token = no, !.tokenKeep = no]
<1>1. Fits(page) /\ Counted(page) /\ NewsFit(page, change, told)
    BY DEF Base
<1>2. /\ GivenUp /\ UNCHANGED <<change, told, auth>> /\ page' = WsReconnect(q) /\ FreeLinks(page) # {}
      /\ page.appReady
    BY DEF Logout, CanClick, server
<1>3. page \in Page /\ page \in Parts /\ no \in BOOLEAN
    BY <1>1, PageHasParts DEF Fits
<1> HIDE DEF no
<1>4. q \in Parts
    BY <1>3 DEF Parts
<1>5. /\ SameLinks(page, q) /\ SameCalls(page, q) /\ SameBusy(page, q)
      /\ q.captions = page.captions /\ q.loading = page.loading
    BY <1>3 DEF Page, SameLinks, SameCalls, SameBusy
<1> HIDE DEF q
<1>6. Fits(q)
    BY <1>1, <1>4, <1>5, CallsFit, PageHasParts DEF SameBusy, SameLinks
<1>7. FreeLinks(q) # {} /\ NewsFit(q, change, told) /\ (OneLink(page) => OneLink(q))
    BY <1>1, <1>2, <1>5 DEF FreeLinks, NewsFit, OneLink, SameLinks
<1>8. Reconnects(q, page')
    BY <1>2, <1>6, <1>7, ReconnectIs
<1>9. /\ Fits(page') /\ Counted(page') /\ NewsFit(page', change', told') /\ (OneLink(q) => OneLink(page'))
      /\ Slack(page') <= 0 /\ ~page'.wsConnected /\ page'.link[page'.conn] # "open"
      /\ Started(page') => q.captions > 0
    BY <1>2, <1>6, <1>7, <1>8, ReconnectsSafe
<1>10. /\ cut \subseteq cut' /\ ("start" \notin cut' => ~Starting)
    BY <1>2, GivenUpNotes
<1>11. AllOwed => AllOwed'
    BY <1>7, <1>9, <1>10 DEF AllOwed, Owed
<1>12. AllShown => AllShown'
    BY <1>5, <1>7, <1>9, <1>10 DEF AllShown, Shows, Starting
<1>13. AllSigned => AllSigned'
    BY <1>2, <1>5, <1>8, <1>10 DEF AllSigned, LoginGoesOn, Reconnects
<1> QED BY <1>9, <1>11, <1>12, <1>13 DEF Invariants

-----------------------------------------------------------------------------
(* Every step.                                                               *)

\* the page, and what holds of it
LEMMA PageSafe ==
    ASSUME Base, Next
    PROVE  /\ Fits(page') /\ Counted(page') /\ NewsFit(page', change', told')
           /\ Invariants => Invariants'
<1> DEFINE Goal == /\ Fits(page') /\ Counted(page') /\ NewsFit(page', change', told')
                   /\ Invariants => Invariants'
<1>1. Acts => Goal
    BY ActsSafe
<1>2. TypeOK /\ Fits(page) /\ told \in Nat
    BY DEF Base, TypeOK
<1> HIDE DEF Goal
<1>3. ASSUME NEW l \in Links, Open(l) \/ OnClose(l) PROVE Goal
    BY <1>3, OpenSafe, OnCloseSafe DEF Goal
<1>4. ASSUME Tick PROVE Goal
    BY <1>4, TickSafe DEF Goal
<1>5. ASSUME NEW w \in page.wire, Receive(w) \/ Handle(w) PROVE Goal
    BY <1>1, <1>2, <1>5, ReceiveActs, HandleActs
<1>6. ASSUME NEW n \in page.news, ReceiveNews(n) PROVE Goal
    BY <1>6, ReceiveNewsSafe DEF Goal
<1>7. ASSUME KeysDerived \/ CaptionsLoaded \/ CaptionsFail \/ CaptionsLost PROVE Goal
    BY <1>1, <1>2, <1>7, KeysActs, CaptionsActs, CaptionsFailActs, CaptionsLostActs
<1>8. ASSUME NEW f \in page.fetches, Fetching(f) PROVE Goal
    BY <1>1, <1>2, <1>8, FetchServedActs, FetchDoneActs, FetchFailsActs DEF Fetching
<1>9. ASSUME Login \/ Query \/ Cancel PROVE Goal
    BY <1>1, <1>2, <1>9, LoginActs, QueryActs, CancelActs
<1>10. ASSUME Logout PROVE Goal
    BY <1>10, LogoutSafe DEF Goal
<1>11. ASSUME SchemaLoading PROVE Goal
  <2> DEFINE kind == "schemaLoading"
  <2>1. /\ Tell(kind) /\ UNCHANGED <<auth, cut>> /\ told' = told + 1
        /\ change = "none" /\ change' # "none"
      BY <1>11 DEF SchemaLoading
  <2>2. kind \in NewsKinds /\ kind = "schemaLoading" /\ kind # "schemaLoaded"
      BY DEF NewsKinds
  <2> HIDE DEF kind
  <2>3. told' \in Nat /\ told' >= told
      BY <1>2, <2>1
  <2> QED BY <1>2, <2>1, <2>2, <2>3, TellSafe DEF Goal
<1>12. ASSUME SchemaLoaded PROVE Goal
  <2> DEFINE kind == "schemaLoaded"
  <2>1. /\ Tell(kind) /\ UNCHANGED <<auth, cut>> /\ told' = told
        /\ change # "none" /\ change' = "none"
      BY <1>12 DEF SchemaLoaded
  <2>2. kind \in NewsKinds /\ kind = "schemaLoaded" /\ kind # "schemaLoading"
      BY DEF NewsKinds
  <2> HIDE DEF kind
  <2>3. told' \in Nat /\ told' >= told
      BY <1>2, <2>1
  <2> QED BY <1>2, <2>1, <2>2, <2>3, TellSafe DEF Goal
<1>13. ASSUME NEW kind \in NewsKinds \ {"schemaLoading", "schemaLoaded"}, News(kind) PROVE Goal
  <2>1. Tell(kind) /\ UNCHANGED <<auth, cut>> /\ told' = told + 1 /\ change' = change
      BY <1>13 DEF News
  <2> QED BY <1>2, <1>13, <2>1, TellSafe DEF Goal
<1>14. ASSUME SchemaUndated \/ \E m \in Modules : SchemaUpdate(m) \/ SchemaDelete(m) \/ SchemaDate(m)
       PROVE  Goal
  <2>1. UNCHANGED <<page, auth, told, cut>> /\ change # "none" /\ change' # "none"
      BY <1>14 DEF SchemaUndated, SchemaDate, SchemaUpdate, SchemaDelete
  <2>2. Fits(page') /\ Counted(page') /\ NewsFit(page', change', told')
      BY <2>1 DEF Base, NewsFit
  <2>3. Due(page, change') = Due(page, change)
      BY <2>1 DEF Due
  <2>4. Owed(page, change) <=> Owed(page, change')
      BY <2>3 DEF Owed
  <2>5. Invariants => Invariants'
      BY <2>1, <2>4 DEF Invariants, AllOwed, AllShown, AllSigned
  <2> QED BY <2>2, <2>5 DEF Goal
<1>15. Goal
  <2>1. CASE \/ \E l \in Links : Open(l) \/ OnClose(l)
             \/ \E w \in page.wire : Receive(w) \/ Handle(w)
             \/ \E n \in page.news : ReceiveNews(n)
             \/ \E f \in page.fetches : Fetching(f)
      BY <1>3, <1>5, <1>6, <1>8, <2>1
  <2>2. CASE Tick \/ KeysDerived \/ CaptionsLoaded \/ CaptionsFail \/ CaptionsLost \/ Login \/ Logout \/ Query \/ Cancel
      BY <1>4, <1>7, <1>9, <1>10, <2>2
  <2>3. CASE SchemaLoading \/ SchemaLoaded
      BY <1>11, <1>12, <2>3
  <2>4. CASE SchemaUndated \/ \E m \in Modules : SchemaUpdate(m) \/ SchemaDelete(m) \/ SchemaDate(m)
      BY <1>14, <2>4
  <2>5. CASE \E kind \in NewsKinds \ {"schemaLoading", "schemaLoaded"} : News(kind)
      BY <1>13, <2>5
  <2> QED BY <2>1, <2>2, <2>3, <2>4, <2>5 DEF Next
<1> QED BY <1>15 DEF Goal

\* what is not of the page keeps its types
LEMMA RestTyped ==
    ASSUME Base, Next
    PROVE  /\ auth' \subseteq Links /\ json' \in Versions /\ meta' \in Versions
           /\ change' \in {"none", "told", "json", "dated"} /\ told' \in Nat
           /\ login' \in Case /\ left' \in [Bounded -> Nat] /\ cut' \subseteq Causes
<1> DEFINE Rest == /\ auth' \subseteq Links /\ json' \in Versions /\ meta' \in Versions
                   /\ change' \in {"none", "told", "json", "dated"} /\ told' \in Nat
                   /\ login' \in Case
           Left == left' \in [Bounded -> Nat]
           Cut  == cut' \subseteq Causes
<1>1. /\ auth \subseteq Links /\ json \in Versions /\ meta \in Versions
      /\ change \in {"none", "told", "json", "dated"} /\ told \in Nat
      /\ login \in Case /\ left \in [Bounded -> Nat] /\ cut \subseteq Causes /\ Fits(page)
    BY DEF Base, TypeOK
<1>2. \A x \in Bounded : May(x) /\ Spend(x) => Left
    BY <1>1 DEF May, Spend
<1>3. left' = left => Left
    BY <1>1
<1>4. GivenUp \/ cut' = cut => Cut
    BY <1>1 DEF GivenUp, Causes
<1>5. \A S : S \subseteq Causes /\ Note(S) => Cut
    BY <1>1 DEF Note
<1>6. Replaced \subseteq Causes /\ DatesOnly \subseteq Causes /\ Overlap \subseteq Causes
    BY DEF Replaced, DatesOnly, Overlap, Causes
<1>7. \A n : Overtakes(n) \subseteq Causes
    BY DEF Overtakes, Causes
<1>8. UNCHANGED server => Rest
    BY <1>1 DEF server
<1> HIDE DEF Left, Cut
<1>9. ASSUME NEW l \in Links, Open(l) \/ OnClose(l) PROVE Rest /\ Left /\ Cut
  <2>1. CASE Open(l)
      BY <1>1, <1>2, <1>3, <1>4, <2>1 DEF Open, Bounded
  <2>2. CASE OnClose(l)
    <3>1. UNCHANGED server /\ GivenUp
        BY <2>2 DEF OnClose
    <3>2. Left
        BY <1>2, <1>3, <2>2 DEF OnClose, Bounded
    <3> QED BY <1>4, <1>8, <3>1, <3>2
  <2> QED BY <1>9, <2>1, <2>2
<1>10. ASSUME Tick \/ Logout \/ Cancel PROVE Rest /\ Left /\ Cut
  <2>1. UNCHANGED server /\ GivenUp
      BY <1>10 DEF Tick, Logout, Cancel
  <2>2. Left
      BY <1>2, <1>3, <1>10 DEF Tick, Logout, Cancel, Bounded
  <2> QED BY <1>4, <1>8, <2>1, <2>2
<1>11. ASSUME NEW w \in page.wire, Receive(w) PROVE Rest /\ Left /\ Cut
  <2> DEFINE S == Replaced \cup IF w.kind = "public" THEN DatesOnly \cup Overlap ELSE {}
  <2>1. UNCHANGED <<server, left>> /\ Note(S)
      BY <1>11 DEF Receive
  <2>2. S \subseteq Causes
      BY <1>6
  <2> QED BY <1>3, <1>5, <1>8, <2>1, <2>2
<1>12. ASSUME NEW w \in page.wire, Handle(w) PROVE Rest /\ Left /\ Cut
  <2>1. w.on \in Links
      BY <1>1, PartsOfPage DEF Fits, Wires
  <2>2. auth' \subseteq Links
      BY <1>1, <1>12, <2>1 DEF Handle
  <2>3. UNCHANGED <<json, meta, change, told, login>> /\ (cut' = cut \/ Note({"public"}))
      BY <1>12 DEF Handle
  <2>4. Left
      BY <1>2, <1>3, <1>12 DEF Handle, Bounded
  <2>5. Cut
      BY <1>4, <1>5, <2>3 DEF Causes
  <2> QED BY <1>1, <2>2, <2>3, <2>4, <2>5
<1>13. ASSUME NEW n \in page.news, ReceiveNews(n) PROVE Rest /\ Left /\ Cut
  <2> DEFINE S == Replaced \cup IF n.kind = "schemaLoaded" THEN Overlap \cup Overtakes(n) ELSE {}
  <2>1. UNCHANGED <<server, left>> /\ Note(S)
      BY <1>13 DEF ReceiveNews
  <2>2. S \subseteq Causes
      BY <1>6, <1>7
  <2> QED BY <1>3, <1>5, <1>8, <2>1, <2>2
<1>14. ASSUME KeysDerived \/ CaptionsLoaded \/ CaptionsFail \/ CaptionsLost PROVE Rest /\ Left /\ Cut
  <2>1. CASE KeysDerived \/ CaptionsLoaded
      BY <1>3, <1>4, <1>8, <2>1 DEF KeysDerived, CaptionsLoaded
  <2>2. CASE CaptionsFail \/ CaptionsLost
    <3>1. UNCHANGED server /\ (cut' = cut \/ Note({"captions"}))
        BY <2>2 DEF CaptionsFail, CaptionsLost
    <3>2. Left
        BY <1>2, <2>2 DEF CaptionsFail, CaptionsLost, Bounded
    <3>3. Cut
        BY <1>4, <1>5, <3>1 DEF Causes
    <3> QED BY <1>8, <3>1, <3>2, <3>3
  <2> QED BY <1>14, <2>1, <2>2
<1>15. ASSUME NEW f \in page.fetches, Fetching(f) PROVE Rest /\ Left /\ Cut
  <2>1. ASSUME NEW m \in f.get, FetchServed(f, m) PROVE Rest /\ Left /\ Cut
      BY <1>3, <1>4, <1>8, <2>1 DEF FetchServed
  <2>2. ASSUME FetchDone(f) PROVE Rest /\ Left /\ Cut
      BY <1>3, <1>5, <1>6, <1>8, <2>2 DEF FetchDone
  <2>3. ASSUME FetchFails(f) PROVE Rest /\ Left /\ Cut
    <3>1. UNCHANGED server /\ Cut
        BY <1>1, <2>3 DEF FetchFails, Causes, Cut
    <3>2. Left
        BY <1>2, <1>3, <2>3 DEF FetchFails, Bounded
    <3> QED BY <1>8, <3>1, <3>2
  <2> QED BY <1>15, <2>1, <2>2, <2>3 DEF Fetching
<1>16. ASSUME Login \/ Query PROVE Rest /\ Left /\ Cut
  <2>1. UNCHANGED server /\ cut' = cut
      BY <1>16 DEF Login, Query
  <2>2. Left
      BY <1>2, <1>3, <1>16 DEF Login, Query, Bounded
  <2> QED BY <1>4, <1>8, <2>1, <2>2
<1>17. ASSUME SchemaLoading \/ SchemaLoaded \/ SchemaUndated PROVE Rest /\ Left /\ Cut
  <2>1. cut' = cut /\ Rest
      BY <1>1, <1>17 DEF SchemaLoading, SchemaLoaded, SchemaUndated
  <2>2. Left
      BY <1>2, <1>3, <1>17 DEF SchemaLoading, SchemaLoaded, SchemaUndated, Bounded
  <2> QED BY <1>4, <2>1, <2>2
<1>18. ASSUME NEW m \in Modules, SchemaUpdate(m) \/ SchemaDelete(m) \/ SchemaDate(m)
       PROVE  Rest /\ Left /\ Cut
  <2>1. \A x \in {0, told, json[m]} : [json EXCEPT ![m] = x] \in Versions /\ [meta EXCEPT ![m] = x] \in Versions
      BY <1>1 DEF Versions
  <2>2. cut' = cut /\ left' = left /\ Rest
      BY <1>1, <1>18, <2>1 DEF SchemaUpdate, SchemaDelete, SchemaDate
  <2> QED BY <1>3, <1>4, <2>2
<1>19. ASSUME NEW kind \in NewsKinds \ {"schemaLoading", "schemaLoaded"}, News(kind) PROVE Rest /\ Left /\ Cut
  <2>1. cut' = cut /\ Rest
      BY <1>1, <1>19 DEF News
  <2>2. Left
      BY <1>2, <1>19 DEF News, Bounded
  <2> QED BY <1>4, <2>1, <2>2
<1> HIDE DEF Rest
<1>20. Rest /\ Left /\ Cut
    BY <1>9, <1>10, <1>11, <1>12, <1>13, <1>14, <1>15, <1>16, <1>17, <1>18, <1>19 DEF Next
<1> QED BY <1>20 DEF Rest, Left, Cut

\* the page is mounted
LEMMA InitHolds ==
    ASSUME Init
    PROVE  Base /\ Invariants
<1> DEFINE no   == FALSE
           zero == 0
           none == {}
           tok  == login.token /\ login.keep
           f    == [l \in Links |-> "none"]
           p    == [link |-> f, conn |-> 1,
                    transactions |-> none, blockingCount |-> zero, wire |-> none, news |-> none, busyCounter |-> zero,
                    wsConnected |-> no, publicLoaded |-> no, schemaLoaded |-> no,
                    loginReady |-> no, appReady |-> no,
                    loading |-> no, token |-> tok, tokenKeep |-> login.keep,
                    isAdmin |-> no, access |-> no,
                    moduleIdMapMeta |-> NoModules, moduleIdMap |-> NoModules,
                    fetches |-> none, captions |-> zero, keys |-> zero, threw |-> no]
<1>1. /\ login \in Case /\ left \in [Bounded -> Nat] /\ 1 \in Links
      /\ auth = {} /\ change = "none" /\ told = 1 /\ cut = {}
      /\ json = [m \in Modules |-> 1] /\ meta = json /\ page = WsConnect(p)
    BY ClientAssumption DEF Init, Case
<1>2. /\ no \in BOOLEAN /\ ~no /\ zero \in Nat /\ zero \in Int /\ zero = 0 /\ none = {} /\ tok \in BOOLEAN
      /\ login.keep \in BOOLEAN /\ f \in LinkStates /\ NoModules \in Versions /\ f = [l \in Links |-> "none"]
    BY <1>1 DEF Case, LinkStates, NoModules, Versions
<1> HIDE DEF no, zero, none, tok, f
<1>3. p \in Parts
  <2>1. none \in SUBSET Tickets /\ none \in SUBSET Wires /\ none \in SUBSET Told /\ none \in SUBSET Fetches
      BY <1>2
  <2> QED BY <1>1, <1>2, <2>1 DEF Parts
<1>4. /\ p.link = f /\ p.transactions = none /\ p.wire = none /\ p.news = none /\ p.fetches = none
      /\ p.blockingCount = zero /\ p.busyCounter = zero /\ p.captions = zero /\ p.wsConnected = no
      /\ p.appReady = no /\ p.loading = no
    OBVIOUS
<1> HIDE DEF p
<1>5. Fits(p)
  <2>1. p \in Page
      BY <1>3, PageHasParts
  <2>2. IsFiniteSet(none)
      BY <1>2, FS_EmptySet
  <2> QED BY <1>2, <1>4, <2>1, <2>2 DEF Fits
<1>6. FreeLinks(p) # {}
    BY <1>1, <1>2, <1>4 DEF FreeLinks
<1>7. /\ Keeps(p, page) /\ StartsNot(p, page) /\ Connects(p, page)
      /\ SameCalls(p, page) /\ SameBusy(p, page) /\ SameLogin(p, page)
    BY <1>1, <1>5, <1>6, ConnectRuns
<1>8. Fits(page) /\ page.news = {} /\ ~page.wsConnected
    BY <1>2, <1>4, <1>7 DEF Keeps
<1>9. Slack(page) <= 0 /\ Counted(page)
  <2>1. page.blockingCount = 0 /\ page.busyCounter = 0 /\ page.fetches = p.fetches
      BY <1>2, <1>4, <1>7 DEF SameBusy
  <2>2. Cardinality(page.fetches) \in Nat /\ Cardinality(Blocks(page)) \in Nat
      BY <1>8, CountsOfPage
  <2> QED BY <2>1, <2>2 DEF Slack, One, Counted
<1>10. ~Started(page)
    BY <1>2, <1>4, <1>7 DEF StartsNot, Started, Waits
<1>11. LoginGoesOn(page)
    BY <1>2, <1>4, <1>7 DEF SameLogin, LoginGoesOn
<1>12. OneLink(page) /\ page.link[page.conn] # "open"
    BY <1>2, <1>4, <1>7 DEF Connects, OneLink
<1>13. json \in Versions /\ meta \in Versions
    BY <1>1 DEF Versions
<1>14. TypeOK
    BY <1>1, <1>8, <1>13 DEF TypeOK, Fits
<1>15. Base
    BY <1>8, <1>9, <1>14 DEF Base, NewsFit
<1>16. AllOwed /\ AllShown /\ AllSigned
    BY <1>8, <1>9, <1>10, <1>11, <1>12 DEF AllOwed, Owed, AllShown, Shows, AllSigned
<1> QED BY <1>15, <1>16 DEF Invariants

LEMMA InvariantsHold == Spec => [](Base /\ Invariants)
<1>1. Init => Base /\ Invariants
    BY InitHolds
<1>2. ASSUME Base, Invariants, Next PROVE Base' /\ Invariants'
  <2>1. /\ Fits(page') /\ Counted(page') /\ NewsFit(page', change', told') /\ Invariants'
      BY <1>2, PageSafe
  <2>2. /\ auth' \subseteq Links /\ json' \in Versions /\ meta' \in Versions
        /\ change' \in {"none", "told", "json", "dated"} /\ told' \in Nat
        /\ login' \in Case /\ left' \in [Bounded -> Nat] /\ cut' \subseteq Causes
      BY <1>2, RestTyped
  <2>3. page' \in Page
      BY <2>1 DEF Fits
  <2>4. TypeOK'
      BY <2>2, <2>3 DEF TypeOK
  <2> QED BY <2>1, <2>4 DEF Base
<1>3. ASSUME Base, Invariants, UNCHANGED vars PROVE Base' /\ Invariants'
    BY <1>3 DEF vars, server, Base, Invariants, TypeOK, NewsFit, AllOwed, Owed, Due, AllShown, Shows, AllSigned
<1> QED BY <1>1, <1>2, <1>3, PTL DEF Spec

\* The types: whatever is asked, answered, cancelled and lost in whatever order, the count of
\* requests that block the input is never negative, and everything under way is well formed.
THEOREM TypeCorrect == Spec => []TypeOK
<1>1. Base => TypeOK
    BY DEF Base
<1> QED BY <1>1, InvariantsHold, PTL

\* The app is shown only on a connection with a login, for any number of connections that
\* come and go, if no start was cut and no handler replaced a connection.
THEOREM ShownWithLogin == Spec => []AppIsAuthenticated
<1>1. Invariants => AppIsAuthenticated
    BY DEF Invariants, AllShown, Shows, Started, AppIsAuthenticated
<1> QED BY <1>1, InvariantsHold, PTL

\* While the input is blocked on a connection, something is under way that ends: the counter
\* of the overlay is never higher than the requests, downloads and changes it is for.
THEOREM BlockedForSomething == Spec => []InputIsFreed
<1>1. Base /\ Invariants => InputIsFreed
  <2> SUFFICES ASSUME Base, Invariants, page.busyCounter > 0, page.wsConnected, "replaced" \notin cut,
                      ~Waits(page, Blocking), page.fetches = {}, ~page.threw, change = "none",
                      \A n \in page.news : n.kind # "schemaLoaded"
               PROVE  FALSE
      BY DEF InputIsFreed
  <2>1. Fits(page) /\ Counted(page) /\ Slack(page) <= Due(page, change)
      BY DEF Base, Invariants, AllOwed, Owed
  <2>2. Blocks(page) = {}
      BY DEF Blocks, Waits
  <2>3. page.blockingCount \in Nat /\ page.busyCounter \in Int
      BY <2>1, CountsOfPage
  <2>4. page.blockingCount = 0
      BY <2>1, <2>2, <2>3, FS_EmptySet DEF Counted
  <2>5. Slack(page) = page.busyCounter
      BY <2>3, <2>4, FS_EmptySet DEF Slack, One
  <2>6. Loaded(page) = {} /\ Cardinality(Loading(page)) \in Nat
      BY <2>1, DueIs DEF Loaded
  <2>7. Due(page, change) <= 0
      BY <2>6, FS_EmptySet DEF Due, One
  <2>8. Due(page, change) \in Int
      BY <2>1, DueIs
  <2> QED BY <2>1, <2>3, <2>5, <2>7, <2>8
<1> QED BY <1>1, InvariantsHold, PTL

\* The overlay of the login does not stay: the login waits for keys, captions or an answer,
\* unless it was cut or the server was not reached for the captions, even if handlers
\* replace connections.
THEOREM LoginEnds == Spec => []LoginIsFreed
<1>1. Invariants => LoginIsFreed
    BY DEF Invariants, AllSigned, LoginGoesOn, LoginIsFreed
<1> QED BY <1>1, InvariantsHold, PTL
=============================================================================
