-------------------------- MODULE RecordForm_proofs --------------------------
(* Proofs about RecordForm, for any number of records, openings, saves and   *)
(* requests, whatever the bounds of the cases are.                           *)
EXTENDS RecordForm, FiniteSetTheorems, TLAPS

-----------------------------------------------------------------------------
(* What the functions of the form do to each of its fields.                  *)

Finite(f)  == IsFiniteSet(f.wire) /\ IsFiniteSet(f.decrypts) /\ IsFiniteSet(f.saves)
Flight(f)  == f.wire \cup f.decrypts
Unused(f, nr) == nr \in Nat /\ \A x \in f.wire \cup f.decrypts \cup f.saves : x.nr # nr

\* a new request of a form
Asks(f, q, kind, id) ==
    /\ q \in Request /\ Unused(f, q.nr)
    /\ q.kind = kind /\ q.id = id /\ q.known /\ q.state = "asked" /\ q.rows = 0
    /\ q.opened = f.opened /\ q.values = Empty /\ q.rel1 = None

LEMMA LeastIsUnused ==
    ASSUME NEW S, IsFiniteSet(S)
    PROVE  Least(S) \in Nat /\ Least(S) \notin S
<1>1. Cardinality(S) \in Nat
    BY FS_CardinalityType
<1>2. \E n \in 0 .. Cardinality(S) : n \notin S
  <2> SUFFICES ASSUME 0 .. Cardinality(S) \subseteq S PROVE FALSE
      OBVIOUS
  <2>1. Cardinality(0 .. Cardinality(S)) <= Cardinality(S)
      BY FS_Subset
  <2>2. Cardinality(0 .. Cardinality(S)) = Cardinality(S) + 1
      BY <1>1, FS_Interval
  <2> QED BY <1>1, <2>1, <2>2
<1> QED BY <1>1, <1>2 DEF Least

LEMMA NrIsUnused ==
    ASSUME NEW f, Finite(f)
    PROVE  Unused(f, NewNr(f))
<1> DEFINE X == f.wire \cup f.decrypts \cup f.saves
           S == {x.nr : x \in X}
<1>1. IsFiniteSet(X)
    BY FS_Union DEF Finite
<1>2. IsFiniteSet(S)
  <2> DEFINE g == [x \in X |-> x.nr]
  <2>1. g \in Surjection(X, S)
      BY DEF Surjection
  <2> QED BY <1>1, <2>1, FS_Surjection
<1> QED BY <1>2, LeastIsUnused DEF Unused, NewNr

LEMMA PlainAsks ==
    ASSUME NEW f \in Form, Finite(f), NEW kind \in {"get", "sub", "keys", "set", "del"}, NEW id \in Nat
    PROVE  /\ Asks(f, Plain(f, kind, id), kind, id)
           /\ Plain(f, kind, id).shown = f.record
<1>1. f.opened \in Nat /\ f.record \in Nat /\ Empty \in Values
    BY DEF Form, Empty, Values, None
<1>2. Unused(f, NewNr(f)) /\ NewNr(f) \in Nat
    BY NrIsUnused DEF Unused
<1> DEFINE n == NewNr(f)
           p == [nr |-> n, kind |-> kind, known |-> TRUE,
                 state |-> "asked", id |-> id, rel1 |-> None, values |-> Empty, fields |-> {}, rows |-> 0,
                 keyOf |-> None, andNew |-> FALSE, opened |-> f.opened, shown |-> f.record, changed |-> {},
                 before |-> Empty]
<1> HIDE DEF n
<1>3. p \in Request
    BY <1>1, <1>2 DEF Request, None, n
<1>4. Asks(f, p, kind, id) /\ p.shown = f.record
    BY <1>2, <1>3 DEF Asks, n
<1> QED BY <1>4 DEF Plain, n

\* ResetRecordMeta and Get, the record of the form being none or not.
LEMMA ResetsMeta ==
    ASSUME NEW f \in Form
    PROVE  LET g == ResetRecordMeta(f)
           IN  /\ g \in Form /\ g.id[0] = None /\ g.id[1] = None /\ g.key = None /\ ~g.badLoad
               /\ g.record = f.record /\ g.opened = f.opened /\ g.asked = f.asked
               /\ g.updatingRecord = f.updatingRecord /\ g.loading = f.loading /\ g.new = f.new /\ g.old = f.old
               /\ g.wire = f.wire /\ g.decrypts = f.decrypts /\ g.saves = f.saves
<1> DEFINE none == [i \in 0 .. 1 |-> None]
<1>1. none \in [0 .. 1 -> Nat] /\ none[0] = None /\ none[1] = None
    BY DEF None
<1> HIDE DEF none
<1>2. [f EXCEPT !.badLoad = FALSE, !.id = none, !.key = None] \in Form
    BY <1>1 DEF Form, None
<1> QED BY <1>1, <1>2 DEF ResetRecordMeta, none, Form

LEMMA Sends ==
    ASSUME NEW f \in Form, NEW q \in Request
    PROVE  LET g == Send(f, q)
           IN  /\ g \in Form /\ g.wire = f.wire \cup {q}
               /\ g.record = f.record /\ g.opened = f.opened /\ g.asked = f.asked /\ g.loading = f.loading
               /\ g.updatingRecord = f.updatingRecord /\ g.new = f.new /\ g.old = f.old
               /\ g.id = f.id /\ g.key = f.key /\ g.badLoad = f.badLoad
               /\ g.decrypts = f.decrypts /\ g.saves = f.saves
BY DEF Form, Send

\* where a form gets its record anew: its ids and the request
Gets(f, g) ==
    /\ g \in Form
    /\ g.record = f.record /\ g.opened = f.opened /\ g.asked = f.asked
    /\ g.updatingRecord = f.updatingRecord /\ g.new = f.new /\ g.old = f.old
    /\ g.decrypts = f.decrypts /\ g.saves = f.saves
    /\ \/ /\ f.record = None
          /\ g.id[0] = None /\ g.id[1] = None /\ g.key = None /\ ~g.badLoad /\ ~g.loading /\ g.wire = f.wire
       \/ /\ f.record # None /\ g.loading = f.loading
          /\ g.id[0] = f.record /\ g.id[1] = f.id[1] /\ g.key = f.key /\ g.badLoad = f.badLoad
          /\ \E q \in Request : Asks(f, q, "get", f.record) /\ g.wire = f.wire \cup {q}

LEMMA GetGets ==
    ASSUME NEW f \in Form, Finite(f)
    PROVE  Gets(f, Get(f))
<1>1. CASE f.record = None
  <2> DEFINE m == ResetRecordMeta(f)
  <2>1. Get(f) = [m EXCEPT !.loading = FALSE]
      BY <1>1 DEF Get
  <2>2. /\ m \in Form /\ m.id[0] = None /\ m.id[1] = None /\ m.key = None /\ ~m.badLoad
        /\ m.record = f.record /\ m.opened = f.opened /\ m.asked = f.asked
        /\ m.updatingRecord = f.updatingRecord /\ m.new = f.new /\ m.old = f.old
        /\ m.wire = f.wire /\ m.decrypts = f.decrypts /\ m.saves = f.saves
      BY ResetsMeta
  <2> HIDE DEF m
  <2>3. [m EXCEPT !.loading = FALSE] \in Form
      BY <2>2 DEF Form
  <2> QED BY <1>1, <2>1, <2>2, <2>3 DEF Gets, Form
<1>2. CASE f.record # None
  <2> DEFINE m == [f EXCEPT !.id[0] = f.record]
             q == Plain(f, "get", f.record)
  <2>1. Get(f) = Send(m, q)
    <3>1. m.wire = f.wire /\ m.decrypts = f.decrypts /\ m.saves = f.saves /\ m.opened = f.opened /\ m.record = f.record
        BY DEF Form
    <3> QED BY <1>2 DEF Get
  <2>2. /\ m \in Form /\ m.id[0] = f.record /\ m.id[1] = f.id[1] /\ m.key = f.key /\ m.badLoad = f.badLoad
        /\ m.loading = f.loading
        /\ m.record = f.record /\ m.opened = f.opened /\ m.asked = f.asked
        /\ m.updatingRecord = f.updatingRecord /\ m.new = f.new /\ m.old = f.old
        /\ m.wire = f.wire /\ m.decrypts = f.decrypts /\ m.saves = f.saves
      BY DEF Form
  <2>3. Asks(f, q, "get", f.record) /\ q \in Request
    <3>1. f.record \in Nat
        BY DEF Form
    <3> QED BY <3>1, PlainAsks DEF Asks
  <2> HIDE DEF m, q
  <2>4. /\ Send(m, q) \in Form /\ Send(m, q).wire = m.wire \cup {q}
        /\ Send(m, q).record = m.record /\ Send(m, q).opened = m.opened /\ Send(m, q).asked = m.asked
        /\ Send(m, q).loading = m.loading
        /\ Send(m, q).updatingRecord = m.updatingRecord /\ Send(m, q).new = m.new /\ Send(m, q).old = m.old
        /\ Send(m, q).id = m.id /\ Send(m, q).key = m.key /\ Send(m, q).badLoad = m.badLoad
        /\ Send(m, q).decrypts = m.decrypts /\ Send(m, q).saves = m.saves
      BY <2>2, <2>3, Sends
  <2> QED BY <1>2, <2>1, <2>2, <2>3, <2>4 DEF Gets
<1> QED BY <1>1, <1>2

\* Reset opens a record or a new one.
Opens(f, g, n) ==
    /\ g \in Form
    /\ g.record = n /\ g.opened = f.opened + 1 /\ g.asked = f.asked
    /\ g.updatingRecord = f.updatingRecord /\ g.new = Empty /\ g.old = Empty
    /\ g.decrypts = f.decrypts /\ g.saves = f.saves
    /\ \/ /\ n = None
          /\ g.id[0] = None /\ g.id[1] = None /\ g.key = None /\ ~g.badLoad /\ ~g.loading /\ g.wire = f.wire
       \/ /\ n # None /\ g.loading
          /\ g.id[0] = n /\ g.id[1] = f.id[1] /\ g.key = f.key /\ g.badLoad = f.badLoad
          /\ \E q \in Request : /\ Unused(f, q.nr) /\ q.kind = "get" /\ q.id = n /\ q.known /\ q.state = "asked"
                                /\ q.rows = 0 /\ q.values = Empty /\ q.rel1 = None
                                /\ g.wire = f.wire \cup {q}

LEMMA ResetOpens ==
    ASSUME NEW f \in Form, Finite(f), NEW n \in Nat
    PROVE  Opens(f, Reset(f, n), n)
<1> DEFINE o == f.opened + 1
           m == [f EXCEPT !.record = n, !.loading = TRUE, !.new = Empty, !.old = Empty, !.opened = o]
<1>0. o \in Nat /\ Empty \in Values
    BY DEF Form, Empty, Values, None
<1>1. Reset(f, n) = Get(m)
    BY DEF Reset
<1> HIDE DEF o
<1>2. /\ m \in Form /\ m.record = n /\ m.opened = o /\ m.asked = f.asked
      /\ m.updatingRecord = f.updatingRecord /\ m.loading /\ m.new = Empty /\ m.old = Empty
      /\ m.id = f.id /\ m.key = f.key /\ m.badLoad = f.badLoad
      /\ m.wire = f.wire /\ m.decrypts = f.decrypts /\ m.saves = f.saves
    BY <1>0 DEF Form
<1> HIDE DEF m
<1> DEFINE g == Get(m)
<1>3. Gets(m, g)
    BY <1>2, GetGets DEF Finite
<1> HIDE DEF g
<1>4. n # None => g.loading
    BY <1>2, <1>3 DEF Gets
<1>5. ASSUME n = None PROVE Opens(f, g, n)
    BY <1>2, <1>3, <1>5 DEF Gets, Opens, o
<1>6. ASSUME n # None PROVE Opens(f, g, n)
  <2>1. PICK q \in Request : Asks(m, q, "get", n) /\ g.wire = f.wire \cup {q}
      BY <1>2, <1>3, <1>6 DEF Gets
  <2>2. Unused(f, q.nr)
      BY <1>2, <2>1 DEF Asks, Unused
  <2>3. /\ q.kind = "get" /\ q.id = n /\ q.known /\ q.state = "asked"
        /\ q.rows = 0 /\ q.values = Empty /\ q.rel1 = None
      BY <2>1 DEF Asks
  <2>4. /\ g \in Form /\ g.record = n /\ g.opened = f.opened + 1 /\ g.asked = f.asked
        /\ g.updatingRecord = f.updatingRecord /\ g.new = Empty /\ g.old = Empty
        /\ g.decrypts = f.decrypts /\ g.saves = f.saves
        /\ g.id[0] = n /\ g.id[1] = f.id[1] /\ g.key = f.key /\ g.badLoad = f.badLoad
      BY <1>2, <1>3, <1>6 DEF Gets, o
  <2> QED BY <1>4, <1>6, <2>1, <2>2, <2>3, <2>4 DEF Opens
<1> QED BY <1>1, <1>5, <1>6 DEF g

-----------------------------------------------------------------------------
(* What is shown.                                                            *)

\* the fields that only a load, a save or a deletion changes; the first of SameIds
\* says whether the ids are to come
SamePage(f, g) ==
    g.record = f.record /\ g.opened = f.opened /\ g.asked = f.asked /\ g.updatingRecord = f.updatingRecord
SameIds(f, g) ==
    g.loading = f.loading /\ g.id = f.id /\ g.key = f.key /\ g.badLoad = f.badLoad
SameValues(f, g) == g.new = f.new /\ g.old = f.old
SameTraffic(f, g) == g.wire = f.wire /\ g.decrypts = f.decrypts /\ g.saves = f.saves

\* a row of the record, which may have been decrypted in vain
ShowsRow(f, g, q) ==
    /\ g \in Form /\ SamePage(f, g) /\ SameTraffic(f, g)
    /\ g.id = f.id /\ g.badLoad = f.badLoad /\ ~g.loading
    /\ g.new = g.old /\ \A x \in {"ref", "other"} : g.new[x] = q.values[x]
    /\ g.key \in {None, IF encrypted THEN q.id ELSE None}

\* a row of the joined record
ShowsJoined(f, g, q) ==
    /\ g \in Form /\ SamePage(f, g) /\ SameTraffic(f, g)
    /\ g.id[0] = f.id[0] /\ g.id[1] = q.id /\ g.key = f.key /\ g.badLoad = f.badLoad
    /\ g.loading = f.loading
    /\ g.new["name"] = f.new["name"] /\ g.old["name"] = f.old["name"]
    /\ g.new["ref"] = f.new["ref"] /\ g.old["ref"] = f.old["ref"]
    /\ g.new["other"] = q.values["other"] /\ g.old["other"] = q.values["other"]

\* the row of the record that was asked for; it may be encrypted
LoadsRow(f, g, q) ==
    /\ g \in Form /\ SamePage(f, g)
    /\ g.id[0] = q.id /\ g.id[1] = q.values["ref"] /\ ~g.badLoad
    /\ g.wire = f.wire /\ g.saves = f.saves
    /\ \/ encrypted /\ g.key = None /\ g.decrypts = f.decrypts \cup {q} /\ SameValues(f, g) /\ g.loading
       \/ /\ ~encrypted /\ g.key = None /\ g.decrypts = f.decrypts /\ ~g.loading
          /\ g.new = g.old /\ \A x \in {"ref", "other"} : g.new[x] = q.values[x]

\* there is none
LoadsNone(f, g) ==
    /\ g \in Form /\ SamePage(f, g) /\ SameTraffic(f, g) /\ SameValues(f, g)
    /\ g.id[0] = None /\ g.id[1] = None /\ g.key = None /\ g.badLoad /\ ~g.loading

LEMMA ValuesShow ==
    ASSUME NEW f \in Form, NEW q \in Request, q.kind = "get"
    PROVE  ShowsRow(f, SetValues(f, q), q)
<1> DEFINE k == IF encrypted THEN q.id ELSE None
           v == q.values
<1>1. k \in Nat /\ v \in Values
    BY DEF Request, None
<1>2. SetValues(f, q) = [f EXCEPT !.new = v, !.old = v, !.loading = FALSE, !.key = k]
    BY DEF SetValues
<1> HIDE DEF k, v
<1>3. [f EXCEPT !.new = v, !.old = v, !.loading = FALSE, !.key = k] \in Form
    BY <1>1 DEF Form
<1>4. ShowsRow(f, [f EXCEPT !.new = v, !.old = v, !.loading = FALSE, !.key = k], q)
    BY <1>3, <1>1 DEF ShowsRow, SamePage, SameTraffic, Form, k, v
<1> QED BY <1>2, <1>4

LEMMA JoinedShows ==
    ASSUME NEW f \in Form, NEW q \in Request, q.kind = "sub"
    PROVE  ShowsJoined(f, SetRows(f, q), q)
<1> DEFINE v == q.values["other"]
           i == [f.id EXCEPT ![1] = q.id]
           n == [f.new EXCEPT !["other"] = v]
           o == [f.old EXCEPT !["other"] = v]
           g == [f EXCEPT !.id = i]
<1>1. /\ n \in Values /\ n["name"] = f.new["name"] /\ n["ref"] = f.new["ref"] /\ n["other"] = v
      /\ o \in Values /\ o["name"] = f.old["name"] /\ o["ref"] = f.old["ref"] /\ o["other"] = v
    BY DEF Form, Request, Values, Fields
<1>2. i \in [0 .. 1 -> Nat] /\ i[0] = f.id[0] /\ i[1] = q.id
    BY DEF Form, Request
<1>3. g.new = f.new /\ g.old = f.old
    BY DEF Form
<1>4. SetRows(f, q) = [g EXCEPT !.new = n, !.old = o]
    BY <1>3 DEF SetRows, SetValues
<1> HIDE DEF n, o, i, v
<1>5. [g EXCEPT !.new = n, !.old = o] \in Form
    BY <1>1, <1>2 DEF Form
<1>6. ShowsJoined(f, [g EXCEPT !.new = n, !.old = o], q)
    BY <1>1, <1>2, <1>5 DEF ShowsJoined, SamePage, SameTraffic, Form, v
<1> QED BY <1>4, <1>6

LEMMA RowsLoad ==
    ASSUME NEW f \in Form, NEW q \in Request, q.kind = "get", q.values["ref"] \in Nat
    PROVE  IF q.rows = 1 THEN LoadsRow(f, GetRows(f, q), q) ELSE LoadsNone(f, GetRows(f, q))
<1> DEFINE m == ResetRecordMeta(f)
<1>1. /\ m \in Form /\ m.id[0] = None /\ m.id[1] = None /\ m.key = None /\ ~m.badLoad
      /\ m.record = f.record /\ m.opened = f.opened /\ m.asked = f.asked
      /\ m.updatingRecord = f.updatingRecord /\ m.new = f.new /\ m.old = f.old
      /\ m.wire = f.wire /\ m.decrypts = f.decrypts /\ m.saves = f.saves
    BY ResetsMeta
<1>2. CASE q.rows # 1
  <2>1. GetRows(f, q) = [m EXCEPT !.badLoad = TRUE, !.loading = FALSE]
      BY <1>2 DEF GetRows
  <2> HIDE DEF m
  <2>2. [m EXCEPT !.badLoad = TRUE, !.loading = FALSE] \in Form
      BY <1>1 DEF Form
  <2>3. LoadsNone(f, [m EXCEPT !.badLoad = TRUE, !.loading = FALSE])
      BY <1>1, <2>2 DEF LoadsNone, SamePage, SameTraffic, SameValues, Form
  <2> QED BY <1>2, <2>1, <2>3
<1>3. CASE q.rows = 1
  <2> DEFINE l == [m EXCEPT !.loading = TRUE]
             i == [j \in 0 .. 1 |-> IF j = 0 THEN q.id ELSE q.values["ref"]]
             g == [l EXCEPT !.id = i]
  <2>1. GetRows(f, q) = IF encrypted THEN [g EXCEPT !.decrypts = @ \cup {q}] ELSE SetValues(g, q)
      BY <1>3 DEF GetRows, SetRows
  <2> SUFFICES LoadsRow(f, GetRows(f, q), q)
      BY <1>3
  <2>2. i \in [0 .. 1 -> Nat] /\ i[0] = q.id /\ i[1] = q.values["ref"]
      BY DEF Request
  <2> HIDE DEF m, i
  <2>3. /\ g \in Form /\ g.id = i /\ g.key = None /\ ~g.badLoad
        /\ g.record = f.record /\ g.opened = f.opened /\ g.asked = f.asked
        /\ g.updatingRecord = f.updatingRecord /\ g.new = f.new /\ g.old = f.old /\ g.loading
        /\ g.wire = f.wire /\ g.decrypts = f.decrypts /\ g.saves = f.saves
      BY <1>1, <2>2 DEF Form
  <2> HIDE DEF g
  <2>4. CASE encrypted
    <3>1. [g EXCEPT !.decrypts = @ \cup {q}] \in Form
        BY <2>3 DEF Form
    <3>2. LoadsRow(f, [g EXCEPT !.decrypts = @ \cup {q}], q)
        BY <2>2, <2>3, <2>4, <3>1 DEF LoadsRow, SamePage, SameValues, Form
    <3> QED BY <2>1, <2>4, <3>2
  <2>5. CASE ~encrypted
    <3>1. ShowsRow(g, SetValues(g, q), q)
        BY <2>3, ValuesShow
    <3> QED BY <2>1, <2>2, <2>3, <2>5, <3>1 DEF LoadsRow, ShowsRow, SamePage, SameTraffic
  <2> QED BY <2>4, <2>5
<1> QED BY <1>2, <1>3

-----------------------------------------------------------------------------
(* What is saved.                                                            *)

\* the request of a save, and the rest of the form as it was; 'first' is the field
\* the save has worked on already, saves are those that remain
SendsSet(f, g, first, id, name, keyOf, opened, shown, changed, before, saves) ==
    /\ g \in Form /\ SamePage(f, g) /\ SameIds(f, g) /\ SameValues(f, g)
    /\ g.decrypts = f.decrypts /\ g.saves = saves
    /\ \E q \in Request :
        /\ q.kind = "set" /\ q.known /\ q.state = "asked" /\ q.rows = 0
        /\ q.nr \in Nat /\ \A x \in f.wire \cup f.decrypts \cup saves : x.nr # q.nr
        /\ q.id = id /\ q.keyOf = keyOf /\ q.opened = opened /\ q.shown = shown
        /\ q.changed = changed /\ q.before = before
        /\ q.rel1 = f.id[1] /\ \A x \in {"ref", "other"} : q.values[x] = f.new[x]
        /\ first = "name" => q.values["name"] = name
        /\ q.fields = {first} \cup {field \in After(first) : ToWrite(f, field)}
        /\ g.wire = f.wire \cup {q}

LEMMA SetIsSent ==
    ASSUME NEW f \in Form, Finite(f), NEW s \in Save,
           \A x \in f.wire \cup f.decrypts \cup (f.saves \ {s}) : x.nr # NewNr(f)
    PROVE  SendsSet(f, SendSet(f, s), s.first, s.id, s.name, s.keyOf, s.opened, s.shown, s.changed, s.before, f.saves \ {s})
<1> DEFINE m == [f EXCEPT !.saves = @ \ {s}]
           v == IF s.first = "name" THEN [f.new EXCEPT !["name"] = s.name] ELSE f.new
           fs == {s.first} \cup {field \in After(s.first) : ToWrite(f, field)}
           b == s.before
           p == Plain(f, "set", s.id)
           r == [p EXCEPT !.rel1 = f.id[1], !.keyOf = s.keyOf, !.andNew = s.andNew, !.opened = s.opened,
                          !.values = v, !.fields = fs, !.shown = s.shown, !.changed = s.changed]
           q == [r EXCEPT !.before = b]
<1>1. SendSet(f, s) = Send(m, q)
    BY DEF SendSet
<1>2. /\ m \in Form /\ SamePage(f, m) /\ SameIds(f, m) /\ SameValues(f, m)
      /\ m.wire = f.wire /\ m.decrypts = f.decrypts /\ m.saves = f.saves \ {s}
    BY DEF Form, SamePage, SameIds, SameValues
<1>3. /\ v \in Values /\ \A x \in {"ref", "other"} : v[x] = f.new[x]
      /\ s.first = "name" => v["name"] = s.name
    BY DEF Form, Save, Values, Fields
<1>4. fs \subseteq Fields
    BY DEF After, Fields, Save
<1>5. /\ s.id \in Nat /\ s.keyOf \in Nat /\ s.andNew \in BOOLEAN /\ s.opened \in Nat /\ s.shown \in Nat
      /\ s.changed \subseteq Fields /\ b \in Values /\ f.id[1] \in Nat
    BY DEF Form, Save
<1>6. Asks(f, p, "set", s.id) /\ p.nr = NewNr(f)
    BY <1>5, PlainAsks DEF Plain
<1> HIDE DEF m, v, fs, p, b
<1> DEFINE r1 == f.id[1]
<1> HIDE DEF r1
<1>a. /\ r \in Request /\ r.kind = "set" /\ r.known /\ r.state = "asked" /\ r.rows = 0 /\ r.nr = p.nr
      /\ r.id = s.id /\ r.keyOf = s.keyOf /\ r.opened = s.opened /\ r.shown = s.shown /\ r.changed = s.changed
      /\ r.rel1 = f.id[1] /\ r.values = v /\ r.fields = fs
    BY <1>3, <1>4, <1>5, <1>6 DEF Asks, Request, r1
<1> HIDE DEF r
<1>7. /\ q \in Request /\ q.kind = "set" /\ q.known /\ q.state = "asked" /\ q.rows = 0 /\ q.nr = p.nr
      /\ q.id = s.id /\ q.keyOf = s.keyOf /\ q.opened = s.opened /\ q.shown = s.shown /\ q.changed = s.changed
      /\ q.before = b /\ q.rel1 = f.id[1] /\ q.values = v /\ q.fields = fs
    BY <1>5, <1>a DEF Request
<1> HIDE DEF q
<1>8. /\ Send(m, q) \in Form /\ Send(m, q).wire = m.wire \cup {q}
      /\ SamePage(m, Send(m, q)) /\ SameIds(m, Send(m, q)) /\ SameValues(m, Send(m, q))
      /\ Send(m, q).decrypts = m.decrypts /\ Send(m, q).saves = m.saves
    BY <1>2, <1>7, Sends DEF SamePage, SameIds, SameValues
<1> DEFINE g == Send(m, q)
<1>9. /\ g \in Form /\ SamePage(f, g) /\ SameIds(f, g) /\ SameValues(f, g)
      /\ g.decrypts = f.decrypts /\ g.saves = f.saves \ {s} /\ g.wire = f.wire \cup {q}
    BY <1>2, <1>8 DEF SamePage, SameIds, SameValues
<1> HIDE DEF g
<1>10. q.nr \in Nat /\ \A x \in f.wire \cup f.decrypts \cup (f.saves \ {s}) : x.nr # q.nr
    BY <1>6, <1>7 DEF Asks, Unused
<1>11. SendsSet(f, g, s.first, s.id, s.name, s.keyOf, s.opened, s.shown, s.changed, s.before, f.saves \ {s})
    BY <1>3, <1>7, <1>9, <1>10 DEF SendsSet, fs, b
<1> QED BY <1>1, <1>11 DEF g

\* a save that goes on: the value is encrypted first, or the request is sent
Encrypts(f, g, s) ==
    /\ g \in Form /\ SamePage(f, g) /\ SameIds(f, g) /\ SameValues(f, g)
    /\ g.wire = f.wire /\ g.decrypts = f.decrypts
    /\ encrypted /\ s.first = "name"
    /\ \E t \in Save : /\ t.step = "encrypt" /\ t.nr = s.nr /\ t.id = f.id[0] /\ t.keyOf = f.key
                       /\ t.name = f.new["name"] /\ t.first = s.first /\ t.opened = s.opened
                       /\ t.shown = s.shown /\ t.changed = s.changed /\ t.before = s.before
                       /\ g.saves = (f.saves \ {s}) \cup {t}

GoesOn(f, g, s) ==
    \/ Encrypts(f, g, s)
    \/ /\ ~(encrypted /\ s.first = "name" /\ f.new["name"] # None)
       /\ SendsSet(f, g, s.first, f.id[0], f.new["name"], None, s.opened, s.shown, s.changed, s.before, f.saves \ {s})

LEMMA FirstGoesOn ==
    ASSUME NEW f \in Form, Finite(f), NEW s \in Save, \A x \in f.saves : x.nr = s.nr => x = s
    PROVE  GoesOn(f, SetFirst(f, s), s)
<1> DEFINE i == f.id[0]
           n == f.new["name"]
           k == f.key
           t == [s EXCEPT !.step = "encrypt", !.id = i, !.name = n, !.keyOf = k]
           u == [t EXCEPT !.keyOf = None]
           g == [f EXCEPT !.saves = @ \ {s}]
<1>1. i \in Nat /\ n \in Int /\ k \in Nat
    BY DEF Form, Values, Fields
<1>2. SetFirst(f, s) = IF encrypted /\ s.first = "name" /\ n # None
                       THEN [g EXCEPT !.saves = @ \cup {t}] ELSE SendSet(g, u)
    BY DEF SetFirst
<1> HIDE DEF i, n, k
<1>3. /\ t \in Save /\ t.step = "encrypt" /\ t.nr = s.nr /\ t.id = i /\ t.name = n /\ t.keyOf = k /\ t.before = s.before
      /\ t.first = s.first /\ t.opened = s.opened /\ t.shown = s.shown /\ t.changed = s.changed
    BY <1>1 DEF Save
<1> HIDE DEF t
<1>4. /\ u \in Save /\ u.nr = s.nr /\ u.id = i /\ u.name = n /\ u.keyOf = None /\ u.before = s.before
      /\ u.first = s.first /\ u.opened = s.opened /\ u.shown = s.shown /\ u.changed = s.changed
    BY <1>3 DEF Save, None
<1>5. /\ g \in Form /\ SamePage(f, g) /\ SameIds(f, g) /\ SameValues(f, g)
      /\ g.wire = f.wire /\ g.decrypts = f.decrypts /\ g.saves = f.saves \ {s}
    BY DEF Form, SamePage, SameIds, SameValues
<1> HIDE DEF u, g
<1>6. CASE encrypted /\ s.first = "name" /\ n # None
  <2>1. [g EXCEPT !.saves = @ \cup {t}] \in Form
      BY <1>3, <1>5 DEF Form
  <2>2. Encrypts(f, [g EXCEPT !.saves = @ \cup {t}], s)
      BY <1>3, <1>5, <1>6, <2>1 DEF Encrypts, Form, SamePage, SameIds, SameValues, i, k, n
  <2> QED BY <1>2, <1>6, <2>2 DEF GoesOn
<1>7. CASE ~(encrypted /\ s.first = "name" /\ n # None)
  <2>1. g.saves \ {u} = f.saves \ {s}
      BY <1>4, <1>5
  <2>2. Finite(g)
      BY <1>5, FS_Subset DEF Finite
  <2>3. \A x \in g.wire \cup g.decrypts \cup (g.saves \ {u}) : x.nr # NewNr(g)
      BY <2>2, NrIsUnused DEF Unused
  <2>4. SendsSet(g, SendSet(g, u), u.first, u.id, u.name, u.keyOf, u.opened, u.shown, u.changed, u.before, g.saves \ {u})
      BY <1>4, <1>5, <2>2, <2>3, SetIsSent
  <2>5. \A x : ToWrite(g, x) = ToWrite(f, x)
      BY <1>5 DEF ToWrite, SameIds, SameValues
  <2>6. SendsSet(f, SendSet(g, u), s.first, f.id[0], f.new["name"], None, s.opened, s.shown, s.changed, s.before, f.saves \ {s})
      BY <1>4, <1>5, <2>1, <2>4, <2>5 DEF SendsSet, SamePage, SameIds, SameValues, i, n
  <2> QED BY <1>2, <1>7, <2>6 DEF GoesOn, n
<1> QED BY <1>6, <1>7

\* a save of what the form shows
Saves(f, s) ==
    /\ s \in Save /\ Unused(f, s.nr) /\ s.step = "keys"
    /\ s.first = (IF "name" \in Changes(f) THEN "name" ELSE IF "ref" \in Changes(f) THEN "ref" ELSE "other")
    /\ s.opened = f.opened /\ s.shown = f.record /\ s.changed = Changes(f) /\ s.before = f.old

\* the form of a save
Updating(f, m) ==
    /\ m \in Form /\ m.updatingRecord
    /\ m.record = f.record /\ m.opened = f.opened /\ m.asked = f.asked
    /\ SameIds(f, m) /\ SameValues(f, m) /\ SameTraffic(f, m)

\* It has no key and cannot be saved, asks for the keys of its readers, or goes on.
SaveFails(f, g) ==
    /\ encrypted /\ f.id[0] # None /\ f.key = None
    /\ g \in Form /\ ~g.updatingRecord
    /\ g.record = f.record /\ g.opened = f.opened /\ g.asked = f.asked
    /\ SameIds(f, g) /\ SameValues(f, g) /\ SameTraffic(f, g)

SaveAsksKeys(f, g) ==
    /\ encrypted /\ f.id[0] = None
    /\ g \in Form /\ g.updatingRecord
    /\ g.record = f.record /\ g.opened = f.opened /\ g.asked = f.asked
    /\ g.id = f.id /\ g.badLoad = f.badLoad /\ g.loading = f.loading /\ g.key = FreshKey /\ SameValues(f, g)
    /\ g.decrypts = f.decrypts
    /\ \E s \in Save, q \in Request :
        /\ Saves(f, s) /\ q.nr = s.nr
        /\ q.kind = "keys" /\ q.id = None /\ q.known /\ q.state = "asked" /\ q.rows = 0
        /\ q.opened = f.opened /\ q.values = Empty /\ q.rel1 = None
        /\ g.saves = f.saves \cup {s} /\ g.wire = f.wire \cup {q}

SaveGoesOn(f, g) ==
    /\ encrypted => f.id[0] # None /\ f.key # None
    /\ \E m, s : Updating(f, m) /\ Saves(f, s) /\ s \notin f.saves /\ GoesOn(m, g, s)

LEMMA SetSaves ==
    ASSUME NEW f \in Form, Finite(f), NEW andNew \in BOOLEAN
    PROVE  SaveFails(f, Set(f, andNew)) \/ SaveAsksKeys(f, Set(f, andNew)) \/ SaveGoesOn(f, Set(f, andNew))
<1> DEFINE c == Changes(f)
           fst == IF "name" \in c THEN "name" ELSE IF "ref" \in c THEN "ref" ELSE "other"
           nr == NewNr(f)
           s == [nr |-> nr, step |-> "keys", id |-> None, name |-> None, keyOf |-> None, andNew |-> andNew,
                 first |-> fst, opened |-> f.opened, shown |-> f.record, changed |-> c, before |-> f.old]
           m == [f EXCEPT !.updatingRecord = TRUE]
<1>1. /\ Set(f, andNew) =
           IF ~encrypted THEN SetFirst(m, s)
           ELSE IF f.id[0] = None
                THEN Send([m EXCEPT !.key = FreshKey, !.saves = @ \cup {s}], Plain(m, "keys", None))
           ELSE IF f.key = None THEN [m EXCEPT !.updatingRecord = FALSE]
           ELSE SetFirst(m, s)
    BY DEF Set
<1>2. c \subseteq Fields /\ fst \in Fields
    BY DEF Changes, Fields
<1>3. nr \in Nat /\ Unused(f, nr)
    BY NrIsUnused DEF Unused
<1>4. f.opened \in Nat /\ f.record \in Nat /\ f.old \in Values
    BY DEF Form
<1> HIDE DEF c, fst, nr
<1>5. /\ s \in Save /\ s.nr = nr /\ s.step = "keys" /\ s.first = fst
      /\ s.opened = f.opened /\ s.shown = f.record /\ s.changed = c /\ s.before = f.old
    BY <1>2, <1>3, <1>4 DEF Save, None
<1> HIDE DEF s
<1>6. Saves(f, s)
    BY <1>3, <1>5 DEF Saves, c, fst
<1>7. Updating(f, m)
    BY DEF Updating, SameIds, SameValues, SameTraffic, Form
<1>8. Plain(m, "keys", None) = Plain(f, "keys", None)
  <2>1. m.wire = f.wire /\ m.decrypts = f.decrypts /\ m.saves = f.saves /\ m.opened = f.opened /\ m.record = f.record
      BY DEF Form
  <2> QED BY <2>1 DEF Plain, NewNr
<1> HIDE DEF m
<1>9. s \notin f.saves /\ \A x \in f.saves : x.nr # s.nr
    BY <1>3, <1>5 DEF Unused
<1>10. CASE ~encrypted \/ (f.id[0] # None /\ f.key # None)
  <2>1. Set(f, andNew) = SetFirst(m, s)
      BY <1>1, <1>10
  <2>2. m \in Form /\ Finite(m) /\ \A x \in m.saves : x.nr = s.nr => x = s
      BY <1>7, <1>9 DEF Updating, SameTraffic, Finite
  <2>3. GoesOn(m, SetFirst(m, s), s)
      BY <1>5, <2>2, FirstGoesOn
  <2> QED BY <1>6, <1>7, <1>9, <1>10, <2>1, <2>3 DEF SaveGoesOn
<1>11. CASE encrypted /\ f.id[0] # None /\ f.key = None
  <2>1. Set(f, andNew) = [m EXCEPT !.updatingRecord = FALSE]
      BY <1>1, <1>11
  <2>2. SaveFails(f, [m EXCEPT !.updatingRecord = FALSE])
      BY <1>7, <1>11 DEF SaveFails, Updating, SameIds, SameValues, SameTraffic, Form
  <2> QED BY <2>1, <2>2
<1>12. CASE encrypted /\ f.id[0] = None
  <2> DEFINE q == Plain(f, "keys", None)
             k == FreshKey
             l == [m EXCEPT !.key = k, !.saves = @ \cup {s}]
  <2>1. Set(f, andNew) = Send(l, q)
      BY <1>1, <1>8, <1>12
  <2>2. Asks(f, q, "keys", None) /\ q.nr = nr
      BY PlainAsks DEF Plain, nr, None
  <2>3. k \in Nat
      BY RecordFormAssumption DEF FreshKey
  <2> HIDE DEF q, k
  <2>4. /\ l \in Form /\ l.updatingRecord /\ l.record = f.record /\ l.opened = f.opened /\ l.asked = f.asked
        /\ l.id = f.id /\ l.badLoad = f.badLoad /\ l.loading = f.loading /\ l.key = k /\ SameValues(f, l)
        /\ l.decrypts = f.decrypts /\ l.wire = f.wire /\ l.saves = f.saves \cup {s}
      BY <1>5, <1>7, <2>3 DEF Updating, SameIds, SameValues, SameTraffic, Form
  <2> HIDE DEF l
  <2> DEFINE g == Send(l, q)
  <2>5. /\ g \in Form /\ g.updatingRecord /\ g.record = f.record /\ g.opened = f.opened /\ g.asked = f.asked
        /\ g.id = f.id /\ g.badLoad = f.badLoad /\ g.loading = f.loading /\ g.key = k /\ SameValues(f, g)
        /\ g.decrypts = f.decrypts /\ g.wire = f.wire \cup {q} /\ g.saves = f.saves \cup {s}
      BY <2>2, <2>4, Sends DEF Asks, SameValues
  <2> HIDE DEF g
  <2>6. SaveAsksKeys(f, g)
      BY <1>5, <1>6, <1>12, <2>2, <2>5 DEF SaveAsksKeys, Asks, k
  <2> QED BY <2>1, <2>6 DEF g
<1> QED BY <1>10, <1>11, <1>12

\* The answer of a save: the record is opened, or loaded again, and nothing is updated.
Idles(f, g) ==
    /\ g \in Form /\ ~g.updatingRecord
    /\ g.record = f.record /\ g.opened = f.opened /\ g.asked = f.asked
    /\ SameIds(f, g) /\ SameValues(f, g) /\ SameTraffic(f, g)

OpensIdle(f, g, n) == \E h : Opens(f, h, n) /\ Idles(h, g)

\* its values are the original ones
IsSaved(f, m) ==
    /\ m \in Form /\ SamePage(f, m) /\ SameIds(f, m) /\ SameTraffic(f, m)
    /\ m.new = f.new /\ m.old = f.new

GetsIdle(f, g) == \E m, h : IsSaved(f, m) /\ Gets(m, h) /\ Idles(h, g)

LEMMA IdleIdles ==
    ASSUME NEW f \in Form
    PROVE  Idles(f, [f EXCEPT !.updatingRecord = FALSE])
<1>1. [f EXCEPT !.updatingRecord = FALSE] \in Form
    BY DEF Form
<1> QED BY <1>1 DEF Idles, SameIds, SameValues, SameTraffic, Form

LEMMA SetEnds ==
    ASSUME NEW f \in Form, Finite(f), NEW q \in Request
    PROVE  \/ \E n \in {None, q.id} : OpensIdle(f, SetDone(f, q), n)
           \/ f.record # None /\ GetsIdle(f, SetDone(f, q))
<1> DEFINE n == f.new
           m == [f EXCEPT !.old = n]
<1>1. SetDone(f, q) = [IF q.andNew THEN Reset(m, None) ELSE IF f.record = None THEN Reset(m, q.id) ELSE Get(m)
                         EXCEPT !.updatingRecord = FALSE]
    BY DEF SetDone
<1>2. n \in Values
    BY DEF Form
<1> HIDE DEF n
<1>3. IsSaved(f, m) /\ m \in Form /\ Finite(m)
    BY <1>2 DEF IsSaved, SamePage, SameIds, SameTraffic, Form, Finite, n
<1> HIDE DEF m
<1>4. ASSUME NEW i \in {None, q.id}, SetDone(f, q) = [Reset(m, i) EXCEPT !.updatingRecord = FALSE]
      PROVE  OpensIdle(f, SetDone(f, q), i)
  <2> DEFINE h == Reset(m, i)
  <2>1. i \in Nat
      BY DEF Request, None
  <2>2. Opens(m, h, i)
      BY <1>3, <2>1, ResetOpens
  <2> HIDE DEF h
  <2>3. Opens(f, h, i)
      BY <1>3, <2>2 DEF Opens, IsSaved, SamePage, SameIds, SameTraffic, Unused
  <2>4. Idles(h, [h EXCEPT !.updatingRecord = FALSE])
      BY <2>3, IdleIdles DEF Opens
  <2> QED BY <1>4, <2>3, <2>4 DEF OpensIdle, h
<1>5. ASSUME f.record # None, SetDone(f, q) = [Get(m) EXCEPT !.updatingRecord = FALSE]
      PROVE  GetsIdle(f, SetDone(f, q))
  <2> DEFINE h == Get(m)
  <2>1. Gets(m, h)
      BY <1>3, GetGets
  <2> HIDE DEF h
  <2>2. Idles(h, [h EXCEPT !.updatingRecord = FALSE])
      BY <2>1, IdleIdles DEF Gets
  <2> QED BY <1>3, <1>5, <2>1, <2>2 DEF GetsIdle, h
<1>6. CASE q.andNew
    BY <1>1, <1>4, <1>6
<1>7. CASE ~q.andNew /\ f.record = None
    BY <1>1, <1>4, <1>7
<1>8. CASE ~q.andNew /\ f.record # None
    BY <1>1, <1>5, <1>8
<1> QED BY <1>6, <1>7, <1>8

-----------------------------------------------------------------------------
(* The part of the invariant that says what is where.                        *)

\* Every request has a number of its own; a save that waits for keys has that of
\* its request.
Numbered(W, D, S) ==
    /\ IsFiniteSet(W) /\ IsFiniteSet(D) /\ IsFiniteSet(S)
    /\ W \cap D = {}
    /\ \A x, y \in W \cup D : x.nr = y.nr => x = y
    /\ \A s, t \in S : s.nr = t.nr => s = t
    /\ \A s \in S, q \in W \cup D : s.nr = q.nr => q.kind = "keys" /\ s.step = "keys"
    /\ \A s \in S : s.step = "keys" => \E q \in W : q.known /\ q.kind = "keys" /\ q.nr = s.nr
    /\ \A q \in W : q.known /\ q.kind = "keys" => \E s \in S : s.nr = q.nr
    /\ \A q \in D : q.kind = "get" /\ q.state = "done" /\ q.rows = 1
Numbers(f) == Numbered(f.wire, f.decrypts, f.saves)

\* Records that are referred to are there.
Rel1 == DOMAIN joined \cup {None}
RefsIn(f, R) ==
    /\ f.new["ref"] \in R /\ f.old["ref"] \in R /\ f.id[1] \in R
    /\ \A q \in Flight(f) : q.values["ref"] \in R /\ q.rel1 \in R /\ (q.kind = "sub" => q.id \in R)
RefsFit(f) == RefsIn(f, Rel1)
RecordsFit ==
    /\ \A r \in DOMAIN main : main[r].ref \in Rel1
    /\ 1 .. MaxJoined \subseteq DOMAIN joined

\* Values of a joined record are there only with it.
RowFits(v) == v["ref"] = None => v["other"] = None

\* A form of a record has its id, or has not found it; rows are of some record.
Named(f) ==
    /\ f.record # None /\ f.id[0] = None => f.badLoad
    /\ \A q \in Flight(f) : q.kind = "get" => q.id # None /\ RowFits(q.values)

Base ==
    /\ TypeOK /\ Finite(form) /\ IsFiniteSet(DOMAIN joined) /\ IsFiniteSet(created)
    /\ Numbers(form) /\ RefsFit(form) /\ RecordsFit /\ Named(form)

-----------------------------------------------------------------------------
(* Kinds of steps, as what they change of the form.                          *)

SameData == UNCHANGED data
Crosses(S) == crossed \cup S \subseteq crossed'

\* a field is typed; a related record is cleared or chosen
Typing ==
    /\ ~form.loading /\ SamePage(form, form') /\ SameIds(form, form') /\ SameTraffic(form, form') /\ form'.old = form.old
    /\ \E x \in {"name", "other"} : \A y \in Fields \ {x} : form'.new[y] = form.new[y]
    /\ SameData /\ crossed' = crossed

Relates(record) ==
    /\ Crosses((IF Loads \/ form.updatingRecord \/ form.saves # {} THEN {"related"} ELSE {})
               \cup (IF record = None /\ form.id[1] # None THEN {"cleared"} ELSE {}))
    /\ ~form.loading /\ ~form.badLoad /\ SamePage(form, form') /\ SameIds(form, form')
    /\ form'.decrypts = form.decrypts /\ form'.saves = form.saves
    /\ form'.new["ref"] = record /\ form'.old["ref"] = form.old["ref"]
    /\ form'.new["name"] = form.new["name"] /\ form'.old["name"] = form.old["name"]
    /\ SameData

Clearing ==
    /\ Relates(None)
    /\ form'.new["other"] = None /\ form'.old["other"] = None
    /\ form'.wire = form.wire

Relating == \E record \in 1 .. MaxJoined : \E q \in Request :
    /\ Relates(record)
    /\ form'.new["other"] = form.new["other"] /\ form'.old["other"] = form.old["other"]
    /\ Asks(form, q, "sub", record) /\ form'.wire = form.wire \cup {q}

\* a save starts
SaveStarts ==
    /\ SaveFails(form, form') \/ SaveAsksKeys(form, form') \/ SaveGoesOn(form, form')
    /\ Crosses(Early \cup AskedThen)
    /\ CanUpdate(form) \/ "function" \in crossed'
    /\ Changes(form) # {}
    /\ SameData

\* a record is opened, or loaded again
Opening  == \E n \in Nat : Opens(form, form', n) /\ Crosses(Switches \cup AskedThen) /\ SameData
LoadsAgain ==
    /\ Gets(form, form') /\ Crosses(Switches)
    /\ CanClick /\ form.record # None
    /\ SameData

\* the user is asked whether to delete it, and answers
Rests(f, g) ==
    /\ g.record = f.record /\ g.opened = f.opened
    /\ SameIds(f, g) /\ SameValues(f, g) /\ g.decrypts = f.decrypts /\ g.saves = f.saves

Asking ==
    /\ CanClick /\ CanUpdate(form) /\ form.record # None /\ form.id[0] # None
    /\ Rests(form, form') /\ form'.wire = form.wire
    /\ form'.updatingRecord = form.updatingRecord /\ form'.asked = form.record
    /\ SameData /\ crossed' = crossed

Answering ==
    /\ form.asked # None /\ form'.asked = None /\ Rests(form, form')
    /\ \/ form'.wire = form.wire /\ form'.updatingRecord = form.updatingRecord
       \/ form'.wire = form.wire /\ ~form'.updatingRecord /\ form.id[0] = None
       \/ /\ form'.updatingRecord /\ form.id[0] # None
          /\ \E q \in Request : /\ Asks(form, q, "del", form.id[0]) /\ q.shown = form.asked
                                /\ form'.wire = form.wire \cup {q}
    /\ SameData /\ crossed' = crossed

Forgotten(q) == [q EXCEPT !.known = FALSE]

Cancelling ==
    /\ SamePage(form, form') /\ SameIds(form, form') /\ SameValues(form, form')
    /\ form'.decrypts = form.decrypts
    /\ form'.wire = {Forgotten(q) : q \in form.wire}
    /\ form'.saves = {s \in form.saves : s.step # "keys"}
    /\ Crosses({"cancel"} \cup Unread({q.kind : q \in {p \in form.wire : p.known}})) /\ SameData

\* the server handles a request q, which becomes a
Handles(q, a) ==
    /\ q \in form.wire /\ q.state = "asked" /\ a \in Request
    /\ a.nr = q.nr /\ a.kind = q.kind /\ a.known = q.known /\ a.opened = q.opened
    /\ a.shown = q.shown /\ a.changed = q.changed /\ a.before = q.before /\ a.fields = q.fields /\ a.rel1 = q.rel1
    /\ SamePage(form, form') /\ SameIds(form, form') /\ SameValues(form, form')
    /\ form'.decrypts = form.decrypts /\ form'.saves = form.saves
    /\ form'.wire = (form.wire \ {q}) \cup {a}

Failing == \E q, a :
    /\ Handles(q, a) /\ a.state = "failed" /\ a.id = q.id /\ a.values = q.values
    /\ crossed' = crossed /\ SameData

Reading == \E q, a :
    /\ Handles(q, a) /\ a.state = "done" /\ a.id = q.id /\ q.kind \in {"get", "sub", "keys"}
    /\ a.values["ref"] \in Rel1 /\ (q.kind = "get" => a.values = q.values \/ RowFits(a.values))
    /\ q.kind = "sub" /\ q.id \in DOMAIN joined => a.rows = 1
    /\ crossed' = crossed /\ SameData

Writing == \E q, a :
    /\ Handles(q, a) /\ a.state = "done" /\ a.values = q.values /\ q.kind = "set"
    /\ created' = IF q.id = None THEN created \cup {<<q.opened, a.id>>} ELSE created
    /\ DOMAIN joined \subseteq DOMAIN joined' /\ crossed' = crossed

Deleting == \E q, a :
    /\ Handles(q, a) /\ a.state = "done" /\ a.id = q.id /\ a.values = q.values /\ q.kind = "del"
    /\ created' = created /\ joined' = joined /\ crossed' = crossed

\* a response: the form without the request
Lacks(f, m, q) ==
    /\ m \in Form /\ SamePage(f, m) /\ SameIds(f, m) /\ SameValues(f, m)
    /\ m.wire = f.wire \ {q} /\ m.decrypts = f.decrypts /\ m.saves = f.saves

\* it is not looked at
Dropping == \E q \in form.wire :
    /\ Lacks(form, form', q)
    /\ q.known => /\ q.kind \in {"get", "sub"}
                  /\ \/ q.state = "failed" /\ Crosses(Unread({q.kind}))
                     \/ q.kind = "sub" /\ q.state = "done" /\ q.rows # 1
    /\ Crosses({}) /\ SameData

Arriving(q) == q.known /\ q.state = "done" /\ SameData

LoadsNow == \E q \in form.wire : \E m :
    /\ Arriving(q) /\ q.kind = "get" /\ Lacks(form, m, q) /\ Crosses({})
    /\ IF q.rows = 1 THEN LoadsRow(m, form', q) ELSE LoadsNone(m, form')

JoinsNow == \E q \in form.wire : \E m :
    /\ Arriving(q) /\ q.kind = "sub" /\ Lacks(form, m, q) /\ Crosses({})
    /\ ShowsJoined(m, form', q)

KeysCome == \E q \in form.wire, s \in form.saves : \E m :
    /\ Arriving(q) /\ q.kind = "keys" /\ Lacks(form, m, q) /\ Crosses({})
    /\ s.nr = q.nr /\ GoesOn(m, form', s)

SetAnswered == \E q \in form.wire : \E m :
    /\ Arriving(q) /\ q.kind = "set" /\ Lacks(form, m, q)
    /\ \/ \E n \in {None, q.id} : OpensIdle(m, form', n) /\ Crosses(Switches \cup AskedThen)
       \/ form.record # None /\ GetsIdle(m, form') /\ Crosses(Switches)

DelAnswered == \E q \in form.wire : \E m :
    /\ Arriving(q) /\ q.kind = "del" /\ Lacks(form, m, q)
    /\ OpensIdle(m, form', None) /\ Crosses(Switches \cup AskedThen)

\* a request to save, to delete or for keys has failed
Rejected == \E q \in form.wire : \E m :
    /\ q.known /\ q.state = "failed" /\ q.kind \in {"set", "del", "keys"} /\ Lacks(form, m, q) /\ Crosses({})
    /\ form' \in Form /\ ~form'.updatingRecord
    /\ form'.record = m.record /\ form'.opened = m.opened /\ form'.asked = m.asked
    /\ SameIds(m, form') /\ SameValues(m, form') /\ form'.wire = m.wire /\ form'.decrypts = m.decrypts
    /\ form'.saves = IF q.kind = "keys" THEN {s \in form.saves : s.nr # q.nr} ELSE form.saves
    /\ SameData

\* rows are decrypted, or the form shows none of them; a value is encrypted, or
\* cannot be and is not saved
Decrypting == \E q \in form.decrypts : \E m :
    /\ m \in Form /\ SamePage(form, m) /\ SameIds(form, m) /\ SameValues(form, m)
    /\ m.wire = form.wire /\ m.decrypts = form.decrypts \ {q} /\ m.saves = form.saves
    /\ ShowsRow(m, form', q)
    /\ crossed' = crossed /\ SameData

Unreadable == \E q \in form.decrypts :
    /\ SamePage(form, form') /\ SameValues(form, form') /\ form'.id = form.id /\ form'.key = form.key
    /\ form'.badLoad /\ ~form'.loading
    /\ form'.wire = form.wire /\ form'.decrypts = form.decrypts \ {q} /\ form'.saves = form.saves
    /\ crossed' = crossed /\ SameData

Unencrypted == \E s \in form.saves :
    /\ s.step = "encrypt" /\ ~form'.updatingRecord
    /\ form'.record = form.record /\ form'.opened = form.opened /\ form'.asked = form.asked
    /\ SameIds(form, form') /\ SameValues(form, form')
    /\ form'.wire = form.wire /\ form'.decrypts = form.decrypts /\ form'.saves = form.saves \ {s}
    /\ crossed' = crossed /\ SameData

Encrypting == \E s \in form.saves :
    /\ s.step = "encrypt"
    /\ SendsSet(form, form', s.first, s.id, s.name, s.keyOf, s.opened, s.shown, s.changed, s.before, form.saves \ {s})
    /\ crossed' = crossed /\ SameData

Moving ==
    \/ Typing \/ Clearing \/ Relating \/ SaveStarts \/ Opening \/ LoadsAgain \/ Asking \/ Answering \/ Cancelling
    \/ Failing \/ Reading \/ Writing \/ Deleting
    \/ Dropping \/ LoadsNow \/ JoinsNow \/ KeysCome \/ SetAnswered \/ DelAnswered \/ Rejected
    \/ Decrypting \/ Unreadable \/ Encrypting \/ Unencrypted

LEMMA FormOfBase ==
    ASSUME Base
    PROVE  /\ form \in Form /\ Finite(form) /\ crossed \subseteq Causes /\ left \in [Bounded -> Nat]
           /\ form.wire \subseteq Request /\ form.decrypts \subseteq Request /\ form.saves \subseteq Save
           /\ form.record \in Nat /\ form.opened \in Nat /\ form.asked \in Nat
           /\ form.updatingRecord \in BOOLEAN /\ form.badLoad \in BOOLEAN
           /\ form.id \in [0 .. 1 -> Nat] /\ form.key \in Nat /\ form.new \in Values /\ form.old \in Values
BY DEF Base, TypeOK, Form

\* the page of the user
LEMMA UserMoves ==
    ASSUME Base
    PROVE  /\ \A field \in Fields : Type(field) => form' \in Form /\ Typing
           /\ \A record \in 0 .. MaxJoined : Relate(record) => form' \in Form /\ (Clearing \/ Relating)
           /\ \A andNew \in BOOLEAN : SaveRecord(andNew) => SaveStarts
           /\ \A record \in 0 .. MaxRecords : OpenRecord(record) => Opening
           /\ FunctionSaves => SaveStarts
           /\ OpenNew => Opening
           /\ Refresh => LoadsAgain
           /\ DelAsk => form' \in Form /\ Asking
           /\ Del => form' \in Form /\ Answering
           /\ Cancel => form' \in Form /\ Cancelling
<1>0. /\ form \in Form /\ Finite(form)
      /\ form.wire \subseteq Request /\ form.decrypts \subseteq Request /\ form.saves \subseteq Save
      /\ form.record \in Nat /\ form.opened \in Nat /\ form.asked \in Nat
      /\ form.id \in [0 .. 1 -> Nat] /\ form.key \in Nat /\ form.new \in Values /\ form.old \in Values
    BY FormOfBase
<1>1. ASSUME NEW field \in Fields, Type(field) PROVE form' \in Form /\ Typing
  <2>0. PICK value \in {Typed, form.old[field], None} : form' = [form EXCEPT !.new[field] = value]
      BY <1>1 DEF Type
  <2> DEFINE n == [form.new EXCEPT ![field] = value]
  <2>1. /\ n \in Values /\ \A y \in Fields \ {field} : n[y] = form.new[y]
        /\ field \in {"name", "other"}
    <3>1. value \in Int
        BY <1>0, <2>0 DEF Values, Typed, None
    <3> QED BY <1>0, <1>1, <3>1 DEF Type, Values, Fields
  <2>2. form' = [form EXCEPT !.new = n] /\ SameData /\ crossed' = crossed /\ ~form.loading
      BY <1>1, <2>0 DEF Type, SameData
  <2> HIDE DEF n
  <2>3. /\ form' \in Form /\ form'.new = n /\ form'.old = form.old
        /\ SamePage(form, form') /\ SameIds(form, form') /\ SameTraffic(form, form')
      BY <1>0, <2>1, <2>2 DEF Form, SamePage, SameIds, SameTraffic
  <2> QED BY <2>1, <2>2, <2>3 DEF Typing
<1>2. ASSUME NEW record \in 0 .. MaxJoined, Relate(record) PROVE form' \in Form /\ (Clearing \/ Relating)
  <2> DEFINE n == [form.new EXCEPT !["ref"] = record]
             m == [form EXCEPT !.new = n]
  <2>1. /\ n \in Values /\ n["ref"] = record /\ n["name"] = form.new["name"] /\ n["other"] = form.new["other"]
      BY <1>0 DEF Values, Fields
  <2>2. form' = GetFromSubJoin(m, record) /\ SameData /\ ~form.loading /\ ~form.badLoad
      BY <1>2 DEF Relate, SameData
  <2>3. Crosses((IF Loads \/ form.updatingRecord \/ form.saves # {} THEN {"related"} ELSE {})
                \cup (IF record = None /\ form.id[1] # None THEN {"cleared"} ELSE {}))
      BY <1>2 DEF Relate, Note, Crosses
  <2> HIDE DEF n
  <2>4. /\ m \in Form /\ m.new = n /\ m.old = form.old
        /\ SamePage(form, m) /\ SameIds(form, m) /\ SameTraffic(form, m)
      BY <1>0, <2>1 DEF Form, SamePage, SameIds, SameTraffic
  <2> HIDE DEF m
  <2>5. CASE record = None
    <3> DEFINE v == [m.new EXCEPT !["other"] = None]
               w == [m.old EXCEPT !["other"] = None]
    <3>1. form' = [m EXCEPT !.new = v, !.old = w]
        BY <2>2, <2>5 DEF GetFromSubJoin
    <3>2. /\ v \in Values /\ v["ref"] = None /\ v["name"] = form.new["name"] /\ v["other"] = None
          /\ w \in Values /\ w["ref"] = form.old["ref"] /\ w["name"] = form.old["name"] /\ w["other"] = None
        BY <1>0, <2>1, <2>4, <2>5 DEF Values, Fields, None
    <3> HIDE DEF v, w
    <3>3. /\ form' \in Form /\ form'.new = v /\ form'.old = w
          /\ SamePage(m, form') /\ SameIds(m, form') /\ SameTraffic(m, form')
        BY <2>4, <3>1, <3>2 DEF Form, SamePage, SameIds, SameTraffic
    <3>4. Relates(None)
        BY <2>2, <2>3, <2>4, <2>5, <3>2, <3>3 DEF Relates, SamePage, SameIds, SameTraffic
    <3>5. Clearing
        BY <2>4, <3>2, <3>3, <3>4 DEF Clearing, SameTraffic
    <3> QED BY <3>3, <3>5
  <2>6. CASE record # None
    <3> DEFINE q == Plain(form, "sub", record)
    <3>1. Plain(m, "sub", record) = q
        BY <2>4 DEF Plain, NewNr, SamePage, SameTraffic
    <3>2. Asks(form, q, "sub", record) /\ record \in 1 .. MaxJoined
      <4>1. record \in Nat /\ record \in 1 .. MaxJoined
          BY <2>6, RecordFormAssumption DEF None
      <4> QED BY <1>0, <4>1, PlainAsks
    <3>3. form' = Send(m, q)
        BY <2>2, <2>6, <3>1 DEF GetFromSubJoin
    <3> HIDE DEF q
    <3>4. /\ form' \in Form /\ form'.new = n /\ form'.old = form.old /\ form'.wire = form.wire \cup {q}
          /\ SamePage(form, form') /\ SameIds(form, form')
          /\ form'.decrypts = form.decrypts /\ form'.saves = form.saves
        BY <2>4, <3>2, <3>3, Sends DEF Asks, SamePage, SameIds, SameTraffic
    <3>5. Relates(record)
        BY <2>1, <2>2, <2>3, <3>4 DEF Relates
    <3> QED BY <2>1, <3>2, <3>4, <3>5 DEF Relating, Asks
  <2> QED BY <2>5, <2>6
<1>3. ASSUME NEW andNew \in BOOLEAN, form' = Set(form, andNew) 
      PROVE  SaveFails(form, form') \/ SaveAsksKeys(form, form') \/ SaveGoesOn(form, form')
    BY <1>0, <1>3, SetSaves
<1>4. ASSUME NEW andNew \in BOOLEAN, SaveRecord(andNew) PROVE SaveStarts
  <2>1. /\ form' = Set(form, andNew) /\ Crosses(Early \cup AskedThen) /\ CanUpdate(form) /\ Changes(form) # {} /\ SameData
      BY <1>4 DEF SaveRecord, Note, Crosses, SameData
  <2> QED BY <1>3, <2>1 DEF SaveStarts
<1>5. ASSUME FunctionSaves PROVE SaveStarts
  <2>1. /\ form' = Set(form, FALSE) /\ Crosses(Early \cup AskedThen) /\ "function" \in crossed'
        /\ Changes(form) # {} /\ SameData
      BY <1>5 DEF FunctionSaves, Note, Crosses, SameData
  <2> QED BY <1>3, <2>1 DEF SaveStarts
<1>6. ASSUME NEW record \in 0 .. MaxRecords, OpenRecord(record) PROVE Opening
  <2>1. record \in Nat /\ form' = Reset(form, record) /\ Crosses(Switches \cup AskedThen) /\ SameData
      BY <1>6 DEF OpenRecord, Note, Crosses, SameData
  <2>2. Opens(form, form', record)
      BY <1>0, <2>1, ResetOpens
  <2> QED BY <2>1, <2>2 DEF Opening
<1>7. ASSUME OpenNew PROVE Opening
  <2>1. None \in Nat /\ form' = Reset(form, None) /\ Crosses(Switches \cup AskedThen) /\ SameData
      BY <1>7 DEF OpenNew, Note, Crosses, SameData, None, CanClick, AskedThen
  <2>2. Opens(form, form', None)
      BY <1>0, <2>1, ResetOpens
  <2> QED BY <2>1, <2>2 DEF Opening
<1>8. ASSUME Refresh PROVE LoadsAgain
  <2>1. form' = Get(form) /\ Crosses(Switches) /\ SameData /\ CanClick /\ form.record # None
      BY <1>8 DEF Refresh, Note, Crosses, SameData
  <2>2. Gets(form, form')
      BY <1>0, <2>1, GetGets
  <2> QED BY <2>1, <2>2 DEF LoadsAgain
<1>9. ASSUME DelAsk PROVE form' \in Form /\ Asking
  <2> DEFINE a == form.record
  <2>1. form' = [form EXCEPT !.asked = a] /\ SameData /\ crossed' = crossed /\ a \in Nat
      BY <1>0, <1>9 DEF DelAsk, SameData
  <2> HIDE DEF a
  <2>2. /\ form' \in Form /\ form'.asked = a /\ Rests(form, form') /\ form'.wire = form.wire
        /\ form'.updatingRecord = form.updatingRecord
      BY <1>0, <2>1 DEF Form, Rests, SameIds, SameValues
  <2> QED BY <1>9, <2>1, <2>2 DEF Asking, DelAsk, a
<1>10. ASSUME Del PROVE form' \in Form /\ Answering
  <2> DEFINE f == [form EXCEPT !.asked = None]
             u == [f EXCEPT !.updatingRecord = TRUE]
             i == f.id[0]
             as == form.asked
             p == Plain(f, "del", i)
             q == [p EXCEPT !.shown = as]
  <2>1. /\ form.asked # None /\ SameData /\ crossed' = crossed
        /\ \/ form' = f
           \/ i = None /\ form' = [f EXCEPT !.updatingRecord = FALSE]
           \/ i # None /\ form' = Send(u, q)
      BY <1>10 DEF Del, SameData
  <2>2. /\ f \in Form /\ f.asked = None /\ Rests(form, f) /\ f.wire = form.wire
        /\ f.updatingRecord = form.updatingRecord
      BY <1>0 DEF Form, Rests, SameIds, SameValues, None
  <2>3. Finite(f) /\ i \in Nat /\ i = form.id[0] /\ as \in Nat
      BY <1>0, <2>2 DEF Finite, Rests, SameIds
  <2> HIDE DEF f, i, as
  <2>4. CASE form' = f
      BY <2>1, <2>2, <2>4 DEF Answering
  <2>5. CASE i = None /\ form' = [f EXCEPT !.updatingRecord = FALSE]
    <3>1. /\ form' \in Form /\ form'.asked = None /\ Rests(form, form') /\ form'.wire = form.wire
          /\ ~form'.updatingRecord
        BY <2>2, <2>5 DEF Form, Rests, SameIds, SameValues
    <3> QED BY <2>1, <2>3, <2>5, <3>1 DEF Answering
  <2>6. CASE i # None /\ form' = Send(u, q)
    <3>1. Asks(f, p, "del", i)
        BY <2>2, <2>3, PlainAsks
    <3> HIDE DEF p
    <3>2. Asks(f, q, "del", i) /\ q.shown = as
        BY <2>3, <3>1 DEF Asks, Unused, Request
    <3> HIDE DEF q
    <3>3. /\ u \in Form /\ u.asked = None /\ Rests(form, u) /\ u.wire = form.wire /\ u.updatingRecord
        BY <2>2 DEF Form, Rests, SameIds, SameValues
    <3> HIDE DEF u
    <3>4. /\ form' \in Form /\ form'.asked = None /\ Rests(form, form') /\ form'.wire = form.wire \cup {q}
          /\ form'.updatingRecord
        BY <2>6, <3>2, <3>3, Sends DEF Asks, Rests, SameIds, SameValues
    <3>5. Asks(form, q, "del", form.id[0]) /\ q \in Request
        BY <2>2, <2>3, <3>2 DEF Asks, Unused, Rests
    <3> QED BY <2>1, <2>3, <2>6, <3>2, <3>4, <3>5 DEF Answering, as
  <2> QED BY <2>1, <2>4, <2>5, <2>6
<1>11. ASSUME Cancel PROVE form' \in Form /\ Cancelling
  <2> DEFINE w == {Forgotten(q) : q \in form.wire}
             ss == {s \in form.saves : s.step # "keys"}
  <2>1. /\ form' = [form EXCEPT !.wire = w, !.saves = ss] /\ SameData
        /\ Crosses({"cancel"} \cup Unread({q.kind : q \in {p \in form.wire : p.known}}))
      BY <1>11 DEF Cancel, Note, Crosses, SameData, Forgotten
  <2>2. w \subseteq Request
    <3>1. ASSUME NEW q \in form.wire PROVE Forgotten(q) \in Request
      <4>1. q \in Request
          BY <1>0
      <4> QED BY <4>1 DEF Request, Forgotten
    <3> QED BY <3>1
  <2>3. ss \subseteq Save
      BY <1>0
  <2> HIDE DEF w, ss
  <2>4. /\ form' \in Form /\ form'.wire = w /\ form'.saves = ss /\ form'.decrypts = form.decrypts
        /\ SamePage(form, form') /\ SameIds(form, form') /\ SameValues(form, form')
      BY <1>0, <2>1, <2>2, <2>3 DEF Form, SamePage, SameIds, SameValues
  <2> QED BY <2>1, <2>4 DEF Cancelling, w, ss
<1> QED BY <1>1, <1>2, <1>4, <1>5, <1>6, <1>7, <1>8, <1>9, <1>10, <1>11

\* the server; q is what becomes of the request
LEMMA Becomes ==
    ASSUME Base, NEW q \in form.wire, q.state = "asked", NEW a \in Request,
           a.nr = q.nr, a.kind = q.kind, a.known = q.known, a.opened = q.opened,
           a.shown = q.shown, a.changed = q.changed, a.before = q.before, a.fields = q.fields, a.rel1 = q.rel1,
           form' = [form EXCEPT !.wire = (@ \ {q}) \cup {a}]
    PROVE  form' \in Form /\ Handles(q, a)
<1>1. form \in Form /\ form.wire \subseteq Request
    BY FormOfBase
<1>2. /\ form' \in Form /\ form'.wire = (form.wire \ {q}) \cup {a}
      /\ SamePage(form, form') /\ SameIds(form, form') /\ SameValues(form, form')
      /\ form'.decrypts = form.decrypts /\ form'.saves = form.saves
    BY <1>1 DEF Form, SamePage, SameIds, SameValues
<1> QED BY <1>2 DEF Handles

LEMMA DataOfBase ==
    ASSUME Base
    PROVE  /\ DOMAIN main \subseteq Nat /\ \A r \in DOMAIN main : main[r] \in [name: Int, ref: Nat] /\ main[r].ref \in Rel1
           /\ DOMAIN joined \subseteq Nat /\ \A r \in DOMAIN joined : joined[r] \in Int
           /\ IsFiniteSet(DOMAIN joined) /\ IsFiniteSet(created) /\ created \subseteq Nat \X Nat
           /\ Rel1 \subseteq Nat /\ None \in Rel1
           /\ main \in [DOMAIN main -> [name: Int, ref: Nat]] /\ joined \in [DOMAIN joined -> Int]
           /\ Cardinality(created) \in Nat /\ Cardinality(DOMAIN joined) \in Nat
BY FS_CardinalityType DEF Base, TypeOK, RecordsFit, Rel1, None

\* what is to be kept of the data
DataFits ==
    /\ DOMAIN main \subseteq Nat /\ main \in [DOMAIN main -> [name: Int, ref: Nat]]
    /\ DOMAIN joined \subseteq Nat /\ joined \in [DOMAIN joined -> Int]
    /\ created \subseteq Nat \X Nat /\ encrypted \in BOOLEAN
    /\ IsFiniteSet(DOMAIN joined) /\ IsFiniteSet(created) /\ RecordsFit

\* a request with the row that answers it
RowOf(q, row) == [q EXCEPT !.rows = 1, !.values = row]

LEMMA RowAnswers ==
    ASSUME NEW q \in Request, NEW row \in Values
    PROVE  LET b == RowOf(q, row)
           IN  /\ b \in Request /\ b.values = row /\ b.rows = 1
               /\ b.nr = q.nr /\ b.kind = q.kind /\ b.known = q.known /\ b.opened = q.opened /\ b.id = q.id
               /\ b.shown = q.shown /\ b.changed = q.changed /\ b.before = q.before /\ b.fields = q.fields /\ b.rel1 = q.rel1
<1> DEFINE one == 1
<1>1. one \in 0 .. 1 /\ RowOf(q, row) = [q EXCEPT !.rows = one, !.values = row]
    BY DEF RowOf
<1>2. one = 1
    OBVIOUS
<1> HIDE DEF one
<1>3. LET b == RowOf(q, row)
      IN  /\ b \in Request /\ b.values = row /\ b.rows = one
          /\ b.nr = q.nr /\ b.kind = q.kind /\ b.known = q.known /\ b.opened = q.opened /\ b.id = q.id
          /\ b.shown = q.shown /\ b.changed = q.changed /\ b.before = q.before /\ b.fields = q.fields /\ b.rel1 = q.rel1
    BY <1>1 DEF Request
<1> QED BY <1>2, <1>3

LEMMA ReadMoves ==
    ASSUME Base, NEW q \in form.wire, HandleGet(q)
    PROVE  form' \in Form /\ Reading
<1>0. /\ form.wire \subseteq Request /\ q \in Request /\ Numbers(form) /\ RefsFit(form)
    BY FormOfBase DEF Base
<1> DEFINE there == q.id \in (CASE q.kind = "get" -> DOMAIN main [] q.kind = "sub" -> DOMAIN joined
                                 [] q.kind = "keys" -> {})
           m     == main[q.id]
           subr  == [Empty EXCEPT !["other"] = joined[q.id]]
           getr  == [name |-> m.name, ref |-> m.ref, other |-> IF m.ref = None THEN None ELSE joined[m.ref]]
           row   == IF q.kind = "sub" THEN subr ELSE getr
           b     == IF there THEN [q EXCEPT !.rows = 1, !.values = row] ELSE q
           a     == [b EXCEPT !.state = "done"]
<1>1. /\ form' = [form EXCEPT !.wire = (@ \ {q}) \cup {a}] /\ q.state = "asked" /\ q.kind \in {"get", "sub", "keys"}
      /\ crossed' = crossed /\ SameData
    BY DEF HandleGet, Done, SameData
<1>2. ASSUME there PROVE row \in Values /\ row["ref"] \in Rel1 /\ (q.kind = "get" => RowFits(row))
  <2>1. CASE q.kind = "sub"
    <3>1. q.id \in DOMAIN joined
        BY <1>2, <2>1
    <3>2. joined[q.id] \in Int
        BY <3>1, DataOfBase
    <3>3. subr \in Values /\ subr["ref"] = None
        BY <3>2 DEF Empty, Values, Fields, None
    <3>4. None \in Rel1
        BY DataOfBase
    <3> QED BY <2>1, <3>3, <3>4
  <2>2. CASE q.kind # "sub"
    <3>1. q.kind = "get" /\ q.id \in DOMAIN main
        BY <1>1, <1>2, <2>2
    <3>2. m \in [name: Int, ref: Nat] /\ m.ref \in Rel1
        BY <3>1, DataOfBase
    <3> HIDE DEF m
    <3>3. (IF m.ref = None THEN None ELSE joined[m.ref]) \in Int
        BY <3>2, DataOfBase DEF Rel1, None
    <3>4. getr \in Values /\ getr["ref"] = m.ref /\ RowFits(getr)
        BY <3>2, <3>3 DEF Values, Fields, RowFits
    <3> QED BY <2>2, <3>2, <3>4
  <2> QED BY <2>1, <2>2
<1> HIDE DEF there, row
<1>b. b = IF there THEN RowOf(q, row) ELSE q
    BY DEF RowOf
<1> HIDE DEF b
<1>3. /\ b \in Request /\ b.nr = q.nr /\ b.kind = q.kind /\ b.known = q.known /\ b.opened = q.opened /\ b.id = q.id
      /\ b.shown = q.shown /\ b.changed = q.changed /\ b.before = q.before /\ b.fields = q.fields /\ b.rel1 = q.rel1
      /\ b.values["ref"] \in Rel1 /\ (q.kind = "get" => b.values = q.values \/ RowFits(b.values))
      /\ there => b.rows = 1
  <2>1. CASE there
    <3>1. row \in Values /\ row["ref"] \in Rel1 /\ (q.kind = "get" => RowFits(row)) /\ b = RowOf(q, row)
        BY <1>2, <1>b, <2>1
    <3>2. /\ b \in Request /\ b.values = row /\ b.rows = 1
          /\ b.nr = q.nr /\ b.kind = q.kind /\ b.known = q.known /\ b.opened = q.opened /\ b.id = q.id
          /\ b.shown = q.shown /\ b.changed = q.changed /\ b.before = q.before /\ b.fields = q.fields /\ b.rel1 = q.rel1
        BY <1>0, <3>1, RowAnswers
    <3> QED BY <3>1, <3>2
  <2>2. CASE ~there
    <3>1. b = q /\ q.values["ref"] \in Rel1
        BY <1>0, <1>b, <2>2 DEF RefsFit, RefsIn, Flight
    <3> QED BY <1>0, <2>2, <3>1
  <2> QED BY <2>1, <2>2
<1>4. /\ a \in Request /\ a.nr = q.nr /\ a.kind = q.kind /\ a.known = q.known /\ a.opened = q.opened /\ a.id = q.id
      /\ a.shown = q.shown /\ a.changed = q.changed /\ a.before = q.before /\ a.fields = q.fields /\ a.rel1 = q.rel1
      /\ a.values["ref"] \in Rel1 /\ a.state = "done"
      /\ (q.kind = "get" => a.values = q.values \/ RowFits(a.values))
      /\ there => a.rows = 1
    BY <1>3 DEF Request
<1>a. q.kind = "sub" /\ q.id \in DOMAIN joined => there
    BY DEF there
<1> HIDE DEF a
<1>5. form' \in Form /\ Handles(q, a)
    BY <1>1, <1>4, Becomes
<1> QED BY <1>1, <1>4, <1>a, <1>5 DEF Reading

LEMMA WriteMoves ==
    ASSUME Base, NEW q \in form.wire, HandleSet(q)
    PROVE  form' \in Form /\ Writing /\ DataFits'
<1>0. /\ form.wire \subseteq Request /\ q \in Request /\ RefsFit(form) /\ Base
    BY FormOfBase DEF Base
<1> DEFINE isNew  == q.id = None
           id     == IF isNew THEN MaxRecords + Cardinality(created) + 1 ELSE q.id
           rel1   == IF q.rel1 = None THEN Cardinality(DOMAIN joined) + 1 ELSE q.rel1
           value  == [field \in Fields |-> IF field \in q.fields THEN q.values[field] ELSE None]
           linked == isNew /\ "other" \in q.fields /\ value["ref"] = None
           a      == [[q EXCEPT !.id = id] EXCEPT !.state = "done"]
           new    == [name |-> value["name"], ref |-> IF linked THEN rel1 ELSE value["ref"]]
           old(r) == [x \in {"name", "ref"} |-> IF x \in q.fields THEN q.values[x] ELSE main[r][x]]
           J      == DOMAIN joined \cup {rel1}
<1>1. /\ form' = [form EXCEPT !.wire = (@ \ {q}) \cup {a}] /\ q.state = "asked" /\ q.kind = "set"
      /\ main' = [r \in DOMAIN main \cup (IF isNew THEN {id} ELSE {}) |->
                IF r # id THEN main[r] ELSE IF isNew THEN new ELSE old(r)]
      /\ joined' = IF "other" \notin q.fields THEN joined
                   ELSE [r \in J |-> IF r = rel1 THEN value["other"] ELSE joined[r]]
      /\ created' = IF isNew THEN created \cup {<<q.opened, id>>} ELSE created
      /\ crossed' = crossed /\ encrypted' = encrypted
    BY DEF HandleSet, Done
<1>2. /\ q.id \in Nat /\ q.opened \in Nat /\ q.values \in Values /\ q.rel1 \in Rel1 /\ q.values["ref"] \in Rel1
      /\ q.fields \subseteq Fields
    BY <1>0 DEF Request, RefsFit, RefsIn, Flight
<1>3. id \in Nat /\ rel1 \in Nat /\ MaxRecords \in Nat
    BY <1>2, DataOfBase, RecordFormAssumption
<1>4. /\ value \in Values /\ value["ref"] \in Rel1
    BY <1>2, DataOfBase DEF Values, Fields, None
<1> HIDE DEF isNew, id, rel1, value
<1>5. /\ a \in Request /\ a.nr = q.nr /\ a.kind = q.kind /\ a.known = q.known /\ a.opened = q.opened
      /\ a.shown = q.shown /\ a.changed = q.changed /\ a.before = q.before /\ a.fields = q.fields /\ a.rel1 = q.rel1
      /\ a.values = q.values /\ a.state = "done" /\ a.id = id
    BY <1>0, <1>3 DEF Request
<1> HIDE DEF a
<1>6. form' \in Form /\ Handles(q, a)
    BY <1>1, <1>5, Becomes
<1>7. /\ DOMAIN joined' = IF "other" \notin q.fields THEN DOMAIN joined ELSE J
      /\ DOMAIN joined \subseteq DOMAIN joined' /\ DOMAIN joined' \subseteq Nat
      /\ joined' \in [DOMAIN joined' -> Int] /\ IsFiniteSet(DOMAIN joined')
  <2>1. IsFiniteSet(J)
      BY DataOfBase, FS_AddElement
  <2>2. CASE "other" \notin q.fields
      BY <1>1, <2>2, DataOfBase
  <2>3. CASE "other" \in q.fields
    <3>1. joined' = [r \in J |-> IF r = rel1 THEN value["other"] ELSE joined[r]] /\ DOMAIN joined' = J
        BY <1>1, <2>3
    <3>2. value["other"] \in Int
        BY <1>4 DEF Values, Fields
    <3>3. joined' \in [J -> Int]
        BY <3>1, <3>2, DataOfBase
    <3>4. J \subseteq Nat
        BY <1>3, DataOfBase
    <3> HIDE DEF J
    <3>5. DOMAIN joined \subseteq J
        BY DEF J
    <3> QED BY <2>1, <2>3, <3>1, <3>3, <3>4, <3>5
  <2> QED BY <2>2, <2>3
<1>8. Rel1 \subseteq (DOMAIN joined') \cup {None}
    BY <1>7 DEF Rel1
<1>9. new \in [name: Int, ref: Nat] /\ new.ref \in (DOMAIN joined') \cup {None}
  <2>1. CASE linked
    <3>1. "other" \in q.fields /\ rel1 \in DOMAIN joined' /\ new.ref = rel1 /\ new.name = value["name"]
        BY <1>7, <2>1
    <3>2. value["name"] \in Int
        BY <1>4 DEF Values, Fields
    <3> QED BY <1>3, <2>1, <3>1, <3>2
  <2>2. CASE ~linked
    <3>1. new = [name |-> value["name"], ref |-> value["ref"]]
        BY <2>2
    <3>2. value["name"] \in Int /\ value["ref"] \in Nat
        BY <1>4, DataOfBase DEF Values, Fields
    <3> QED BY <1>4, <1>8, <3>1, <3>2
  <2> QED BY <2>1, <2>2
<1>10. ASSUME NEW r \in DOMAIN main PROVE old(r) \in [name: Int, ref: Nat] /\ old(r).ref \in (DOMAIN joined') \cup {None}
  <2>1. main[r] \in [name: Int, ref: Nat] /\ main[r].ref \in Rel1
      BY DataOfBase
  <2>2. q.values["name"] \in Int /\ q.values["ref"] \in Nat
      BY <1>2, DataOfBase DEF Values, Fields
  <2>3. /\ old(r) = [name |-> old(r)["name"], ref |-> old(r)["ref"]]
        /\ old(r)["name"] = (IF "name" \in q.fields THEN q.values["name"] ELSE main[r]["name"])
        /\ old(r)["ref"] = (IF "ref" \in q.fields THEN q.values["ref"] ELSE main[r]["ref"])
      OBVIOUS
  <2>4. old(r)["name"] \in Int /\ old(r)["ref"] \in Nat /\ old(r)["ref"] \in Rel1
      BY <1>2, <2>1, <2>2, <2>3
  <2> HIDE DEF old
  <2> QED BY <1>8, <2>3, <2>4
<1> HIDE DEF new, old
<1>11. /\ DOMAIN main' \subseteq Nat /\ main' \in [DOMAIN main' -> [name: Int, ref: Nat]]
       /\ \A r \in DOMAIN main' : main'[r].ref \in (DOMAIN joined') \cup {None}
  <2>1. DOMAIN main' = DOMAIN main \cup (IF isNew THEN {id} ELSE {})
      BY <1>1
  <2>2. ASSUME NEW r \in DOMAIN main' PROVE main'[r] \in [name: Int, ref: Nat] /\ main'[r].ref \in (DOMAIN joined') \cup {None}
    <3>1. CASE r # id
      <4>1. r \in DOMAIN main /\ main'[r] = main[r]
          BY <1>1, <2>1, <2>2, <3>1
      <4> QED BY <1>8, <4>1, DataOfBase
    <3>2. CASE r = id /\ isNew
        BY <1>1, <1>9, <2>1, <2>2, <3>2
    <3>3. CASE r = id /\ ~isNew
      <4>1. r \in DOMAIN main /\ main'[r] = old(r)
          BY <1>1, <2>1, <2>2, <3>3
      <4> QED BY <1>10, <4>1
    <3> QED BY <3>1, <3>2, <3>3
  <2>3. DOMAIN main' \subseteq Nat
      BY <1>3, <2>1, DataOfBase
  <2>4. main' = [r \in DOMAIN main' |-> main'[r]]
      BY <1>1
  <2> QED BY <2>2, <2>3, <2>4
<1>12. created' \subseteq Nat \X Nat /\ IsFiniteSet(created')
  <2> DEFINE c == <<q.opened, id>>
  <2>1. c \in Nat \X Nat
      BY <1>2, <1>3
  <2>2. created' = IF isNew THEN created \cup {c} ELSE created
      BY <1>1
  <2> HIDE DEF c
  <2>3. IsFiniteSet(created \cup {c}) /\ IsFiniteSet(created) /\ created \subseteq Nat \X Nat
      BY DataOfBase, FS_AddElement
  <2> QED BY <2>1, <2>2, <2>3
<1>13. RecordsFit'
    BY <1>7, <1>11, <1>0 DEF RecordsFit, Rel1, Base
<1>14. encrypted' \in BOOLEAN
    BY <1>0, <1>1 DEF Base, TypeOK
<1>15. DataFits'
    BY <1>7, <1>11, <1>12, <1>13, <1>14 DEF DataFits
<1>16. created' = IF q.id = None THEN created \cup {<<q.opened, a.id>>} ELSE created
    BY <1>1, <1>5 DEF isNew
<1> QED BY <1>1, <1>5, <1>6, <1>7, <1>15, <1>16 DEF Writing

LEMMA DelMoves ==
    ASSUME Base, NEW q \in form.wire, HandleDel(q)
    PROVE  form' \in Form /\ Deleting /\ DataFits'
<1>0. q \in Request /\ Base
    BY FormOfBase
<1> DEFINE a == [q EXCEPT !.state = "done"]
<1>1. /\ form' = [form EXCEPT !.wire = (@ \ {q}) \cup {a}] /\ q.state = "asked" /\ q.kind = "del"
      /\ main' = [r \in DOMAIN main \ {q.id} |-> main[r]]
      /\ joined' = joined /\ created' = created /\ crossed' = crossed /\ encrypted' = encrypted
    BY DEF HandleDel, Done
<1>2. /\ a \in Request /\ a.nr = q.nr /\ a.kind = q.kind /\ a.known = q.known /\ a.opened = q.opened
      /\ a.shown = q.shown /\ a.changed = q.changed /\ a.before = q.before /\ a.fields = q.fields /\ a.rel1 = q.rel1
      /\ a.values = q.values /\ a.state = "done" /\ a.id = q.id
    BY <1>0 DEF Request
<1> HIDE DEF a
<1>3. form' \in Form /\ Handles(q, a)
    BY <1>1, <1>2, Becomes
<1>4. /\ DOMAIN main' \subseteq Nat /\ main' \in [DOMAIN main' -> [name: Int, ref: Nat]]
      /\ \A r \in DOMAIN main' : main'[r].ref \in Rel1
  <2>1. DOMAIN main' = DOMAIN main \ {q.id} /\ \A r \in DOMAIN main' : main'[r] = main[r]
      BY <1>1
  <2>2. main' = [r \in DOMAIN main' |-> main'[r]]
      BY <1>1
  <2>3. \A r \in DOMAIN main' : main'[r] \in [name: Int, ref: Nat] /\ main'[r].ref \in Rel1
      BY <2>1, DataOfBase
  <2>4. DOMAIN main' \subseteq Nat
      BY <2>1, DataOfBase
  <2> QED BY <2>2, <2>3, <2>4
<1>5. RecordsFit'
    BY <1>0, <1>1, <1>4 DEF RecordsFit, Rel1, Base
<1>6. DataFits'
    BY <1>0, <1>1, <1>4, <1>5, DataOfBase DEF DataFits, Base, TypeOK
<1> QED BY <1>1, <1>2, <1>3, <1>6 DEF Deleting

LEMMA FailMoves ==
    ASSUME Base, NEW q \in form.wire, Fails(q)
    PROVE  form' \in Form /\ Failing
<1>0. q \in Request
    BY FormOfBase
<1> DEFINE a == [q EXCEPT !.state = "failed"]
<1>1. /\ form' = [form EXCEPT !.wire = (@ \ {q}) \cup {a}] /\ q.state = "asked"
      /\ crossed' = crossed /\ SameData
    BY DEF Fails, SameData
<1>2. /\ a \in Request /\ a.nr = q.nr /\ a.kind = q.kind /\ a.known = q.known /\ a.opened = q.opened
      /\ a.shown = q.shown /\ a.changed = q.changed /\ a.before = q.before /\ a.fields = q.fields /\ a.rel1 = q.rel1
      /\ a.values = q.values /\ a.state = "failed" /\ a.id = q.id
    BY <1>0 DEF Request
<1> HIDE DEF a
<1>3. form' \in Form /\ Handles(q, a)
    BY <1>1, <1>2, Becomes
<1> QED BY <1>1, <1>2, <1>3 DEF Failing

\* The browser takes the response of q.
LEMMA ReceiveMoves ==
    ASSUME Base, NEW q \in form.wire, Receive(q)
    PROVE  form' \in Form /\ (\/ Dropping \/ LoadsNow \/ JoinsNow \/ KeysCome
                              \/ SetAnswered \/ DelAnswered \/ Rejected)
<1>0. /\ form \in Form /\ Finite(form) /\ form.wire \subseteq Request /\ q \in Request
      /\ Numbers(form) /\ RefsFit(form) /\ form.saves \subseteq Save
    BY FormOfBase DEF Base
<1> DEFINE m == [form EXCEPT !.wire = @ \ {q}]
<1>1. /\ q.state # "asked"
      /\ form' = IF ~q.known THEN m ELSE IF q.state = "done" THEN Resolve(m, q) ELSE Reject(m, q)
      /\ SameData /\ Crosses({})
      /\ q.known /\ q.state = "done" /\ q.kind \in {"set", "del"} => Crosses(Switches)
      /\ q.known /\ q.state = "failed" => Crosses(Unread({q.kind}))
      /\ form'.opened # form.opened => Crosses(AskedThen)
    BY DEF Receive, Note, Crosses, SameData
<1>2. Lacks(form, m, q) /\ m \in Form
    BY <1>0 DEF Lacks, Form, SamePage, SameIds, SameValues
<1>3. Finite(m)
  <2>1. IsFiniteSet(form.wire \ {q})
      BY <1>0, FS_RemoveElement DEF Finite
  <2> QED BY <1>0, <1>2, <2>1 DEF Finite, Lacks
<1> HIDE DEF m
<1>4. CASE ~q.known
    BY <1>1, <1>2, <1>4 DEF Dropping
<1>5. CASE q.known /\ q.state = "failed"
  <2>1. form' = Reject(m, q)
      BY <1>1, <1>5
  <2>2. CASE q.kind \in {"get", "sub"}
    <3>1. form' = m /\ Crosses(Unread({q.kind}))
        BY <1>1, <1>5, <2>1, <2>2 DEF Reject
    <3> QED BY <1>1, <1>2, <1>5, <2>2, <3>1 DEF Dropping
  <2>3. CASE q.kind = "keys"
    <3> DEFINE ss == {s \in m.saves : s.nr # q.nr}
    <3>1. form' = [m EXCEPT !.updatingRecord = FALSE, !.saves = ss]
        BY <2>1, <2>3 DEF Reject
    <3>2. ss \subseteq Save /\ ss = {s \in form.saves : s.nr # q.nr}
        BY <1>0, <1>2 DEF Lacks
    <3>a. ss \in SUBSET Save
        BY <3>2
    <3> HIDE DEF ss
    <3>3. [m EXCEPT !.updatingRecord = FALSE, !.saves = ss] \in Form
        BY <1>2, <3>a DEF Form
    <3>4. /\ form' \in Form /\ ~form'.updatingRecord /\ form'.saves = ss
          /\ form'.record = m.record /\ form'.opened = m.opened /\ form'.asked = m.asked
          /\ SameIds(m, form') /\ SameValues(m, form') /\ form'.wire = m.wire /\ form'.decrypts = m.decrypts
        BY <1>2, <3>1, <3>3 DEF Form, SameIds, SameValues
    <3> QED BY <1>1, <1>2, <1>5, <2>3, <3>2, <3>4 DEF Rejected
  <2>4. CASE q.kind \in {"set", "del"}
    <3>1. form' = [m EXCEPT !.updatingRecord = FALSE]
        BY <2>1, <2>4 DEF Reject
    <3>2. Idles(m, form')
        BY <1>2, <3>1, IdleIdles
    <3>3. form'.saves = form.saves /\ q.kind # "keys"
        BY <1>2, <2>4, <3>2 DEF Idles, SameTraffic, Lacks
    <3> QED BY <1>1, <1>2, <1>5, <2>4, <3>2, <3>3 DEF Rejected, Idles, SameTraffic
  <2> QED BY <1>0, <2>2, <2>3, <2>4 DEF Request
<1>6. CASE q.known /\ q.state = "done"
  <2>1. form' = Resolve(m, q) /\ Arriving(q)
      BY <1>1, <1>6 DEF Arriving
  <2>2. CASE q.kind = "get"
    <3>1. form' = GetRows(m, q)
        BY <2>1, <2>2 DEF Resolve
    <3>2. q.values["ref"] \in Nat
        BY <1>0, DataOfBase DEF RefsFit, RefsIn, Flight
    <3>3. IF q.rows = 1 THEN LoadsRow(m, form', q) ELSE LoadsNone(m, form')
        BY <1>0, <1>2, <2>2, <3>1, <3>2, RowsLoad
    <3> QED BY <1>1, <1>2, <2>1, <2>2, <3>3 DEF LoadsNow, LoadsRow, LoadsNone
  <2>3. CASE q.kind = "sub"
    <3>1. CASE q.rows = 1
      <4>1. form' = SetRows(m, q)
          BY <2>1, <2>3, <3>1 DEF Resolve
      <4>2. ShowsJoined(m, form', q)
          BY <1>0, <1>2, <2>3, <4>1, JoinedShows
      <4> QED BY <1>1, <1>2, <2>1, <2>3, <4>2 DEF JoinsNow, ShowsJoined
    <3>2. CASE q.rows # 1
      <4>1. form' = m
          BY <2>1, <2>3, <3>2 DEF Resolve
      <4> QED BY <1>1, <1>2, <1>6, <2>3, <3>2, <4>1 DEF Dropping
    <3> QED BY <3>1, <3>2
  <2>4. CASE q.kind = "keys"
    <3>1. \E s \in m.saves : s.nr = q.nr
        BY <1>0, <1>2, <1>6, <2>4 DEF Numbers, Numbered, Lacks
    <3> DEFINE s == CHOOSE s \in m.saves : s.nr = q.nr
    <3>2. s \in m.saves /\ s.nr = q.nr
        BY <3>1
    <3>3. form' = SetFirst(m, s)
        BY <2>1, <2>4 DEF Resolve
    <3> HIDE DEF s
    <3>4. s \in form.saves /\ s \in Save /\ \A x \in m.saves : x.nr = s.nr => x = s
        BY <1>0, <1>2, <3>2 DEF Numbers, Numbered, Lacks
    <3>5. GoesOn(m, form', s)
        BY <1>2, <1>3, <3>3, <3>4, FirstGoesOn
    <3>6. form' \in Form
        BY <3>5 DEF GoesOn, Encrypts, SendsSet
    <3>7. KeysCome
        BY <1>1, <1>2, <2>1, <2>4, <3>2, <3>4, <3>5 DEF KeysCome
    <3> QED BY <3>6, <3>7
  <2>5. CASE q.kind = "set"
    <3>1. form' = SetDone(m, q) /\ Crosses(Switches)
        BY <1>1, <1>6, <2>1, <2>5 DEF Resolve
    <3>2. \/ \E n \in {None, q.id} : OpensIdle(m, form', n)
          \/ m.record # None /\ GetsIdle(m, form')
        BY <1>0, <1>2, <1>3, <3>1, SetEnds
    <3>3. CASE \E n \in {None, q.id} : OpensIdle(m, form', n)
      <4>1. form'.opened # form.opened /\ form' \in Form
          BY <1>2, <3>3 DEF OpensIdle, Opens, Idles, Lacks, SamePage, Form
      <4>2. Crosses(Switches \cup AskedThen)
          BY <1>1, <3>1, <4>1 DEF Crosses
      <4> QED BY <1>2, <2>1, <2>5, <3>3, <4>1, <4>2 DEF SetAnswered
    <3>4. CASE m.record # None /\ GetsIdle(m, form')
      <4>1. form.record # None /\ form' \in Form
          BY <1>2, <3>4 DEF Lacks, SamePage, GetsIdle, Idles
      <4> QED BY <1>2, <2>1, <2>5, <3>1, <3>4, <4>1 DEF SetAnswered
    <3> QED BY <3>2, <3>3, <3>4
  <2>6. CASE q.kind = "del"
    <3> DEFINE h == Reset(m, None)
    <3>1. form' = [h EXCEPT !.updatingRecord = FALSE] /\ Crosses(Switches)
        BY <1>1, <1>6, <2>1, <2>6 DEF Resolve
    <3>2. Opens(m, h, None)
        BY <1>2, <1>3, ResetOpens DEF None
    <3> HIDE DEF h
    <3>3. Idles(h, form')
        BY <3>1, <3>2, IdleIdles DEF Opens
    <3>4. OpensIdle(m, form', None)
        BY <3>2, <3>3 DEF OpensIdle
    <3>5. form'.opened # form.opened /\ form' \in Form
        BY <1>2, <3>2, <3>3 DEF Opens, Idles, Lacks, SamePage, Form
    <3>6. Crosses(Switches \cup AskedThen)
        BY <1>1, <3>1, <3>5 DEF Crosses
    <3> QED BY <1>2, <2>1, <2>6, <3>4, <3>5, <3>6 DEF DelAnswered
  <2> QED BY <1>0, <2>2, <2>3, <2>4, <2>5, <2>6 DEF Request
<1> QED BY <1>0, <1>1, <1>4, <1>5, <1>6 DEF Request

LEMMA DecryptedMoves ==
    ASSUME Base, NEW q \in form.decrypts, Decrypted(q)
    PROVE  form' \in Form /\ Decrypting
<1>0. form \in Form /\ q \in Request /\ q.kind = "get"
    BY FormOfBase DEF Base, Numbers, Numbered
<1> DEFINE m == [form EXCEPT !.decrypts = @ \ {q}]
<1>1. form' = SetValues(m, q) /\ crossed' = crossed /\ SameData
    BY DEF Decrypted, SameData
<1>2. /\ m \in Form /\ SamePage(form, m) /\ SameIds(form, m) /\ SameValues(form, m)
      /\ m.wire = form.wire /\ m.decrypts = form.decrypts \ {q} /\ m.saves = form.saves
    BY <1>0 DEF Form, SamePage, SameIds, SameValues
<1> HIDE DEF m
<1>3. ShowsRow(m, form', q)
    BY <1>0, <1>1, <1>2, ValuesShow
<1> QED BY <1>1, <1>2, <1>3 DEF Decrypting, ShowsRow

LEMMA DecryptFailsMoves ==
    ASSUME Base, NEW q \in form.decrypts, DecryptFails(q)
    PROVE  form' \in Form /\ (Decrypting \/ Unreadable)
<1>0. form \in Form /\ q \in Request /\ q.kind = "get"
    BY FormOfBase DEF Base, Numbers, Numbered
<1> DEFINE m     == [form EXCEPT !.decrypts = @ \ {q}]
           c     == IF q.values["name"] = None THEN None ELSE Cipher
           v     == [q.values EXCEPT !["name"] = c]
           row   == [q EXCEPT !.values = v]
           shows == SetValues(m, row)
<1>1. /\ form' \in {[m EXCEPT !.badLoad = TRUE, !.loading = FALSE], shows, [shows EXCEPT !.key = None]}
      /\ crossed' = crossed /\ SameData
    BY <1>0 DEF DecryptFails, SameData, Request
<1>2. /\ m \in Form /\ SamePage(form, m) /\ SameIds(form, m) /\ SameValues(form, m)
      /\ m.wire = form.wire /\ m.decrypts = form.decrypts \ {q} /\ m.saves = form.saves
    BY <1>0 DEF Form, SamePage, SameIds, SameValues
<1>3. c \in Int
    BY <1>0 DEF Request, Values, Fields, None, Cipher
<1> HIDE DEF m, c
<1>4. v \in Values /\ \A x \in {"ref", "other"} : v[x] = q.values[x]
    BY <1>0, <1>3 DEF Request, Values, Fields
<1> HIDE DEF v
<1>5. row \in Request /\ row.kind = "get" /\ row.id = q.id /\ row.values = v
    BY <1>0, <1>4 DEF Request
<1> HIDE DEF row
<1>6. ShowsRow(m, shows, row)
    BY <1>2, <1>5, ValuesShow
<1> HIDE DEF shows
<1>7. ShowsRow(m, shows, q)
    BY <1>4, <1>5, <1>6 DEF ShowsRow
<1>8. CASE form' = [m EXCEPT !.badLoad = TRUE, !.loading = FALSE]
  <2>1. /\ form' \in Form /\ form'.badLoad /\ ~form'.loading
        /\ SamePage(m, form') /\ SameValues(m, form') /\ SameTraffic(m, form')
        /\ form'.id = m.id /\ form'.key = m.key
      BY <1>2, <1>8 DEF Form, SamePage, SameValues, SameTraffic
  <2> QED BY <1>1, <1>2, <2>1 DEF Unreadable, SamePage, SameValues, SameTraffic, SameIds
<1>9. CASE form' = shows
    BY <1>1, <1>2, <1>7, <1>9 DEF Decrypting, ShowsRow
<1>10. CASE form' = [shows EXCEPT !.key = None]
  <2>1. /\ form' \in Form /\ form'.key = None /\ form'.id = shows.id /\ form'.badLoad = shows.badLoad
        /\ form'.loading = shows.loading
        /\ SamePage(shows, form') /\ SameValues(shows, form') /\ SameTraffic(shows, form')
      BY <1>7, <1>10 DEF ShowsRow, Form, None, SamePage, SameValues, SameTraffic
  <2>2. ShowsRow(m, form', q)
      BY <1>7, <2>1 DEF ShowsRow, SamePage, SameValues, SameTraffic
  <2> QED BY <1>1, <1>2, <2>1, <2>2 DEF Decrypting
<1> QED BY <1>1, <1>8, <1>9, <1>10

LEMMA EncryptedMoves ==
    ASSUME Base, NEW s \in form.saves, Encrypted(s)
    PROVE  form' \in Form /\ Encrypting
<1>0. form \in Form /\ Finite(form) /\ s \in Save
    BY FormOfBase
<1>1. form' = SendSet(form, s) /\ s.step = "encrypt" /\ crossed' = crossed /\ SameData
    BY DEF Encrypted, SameData
<1>2. \A x \in form.wire \cup form.decrypts \cup (form.saves \ {s}) : x.nr # NewNr(form)
    BY <1>0, NrIsUnused DEF Unused
<1>3. SendsSet(form, form', s.first, s.id, s.name, s.keyOf, s.opened, s.shown, s.changed, s.before, form.saves \ {s})
    BY <1>0, <1>1, <1>2, SetIsSent
<1> QED BY <1>1, <1>3 DEF Encrypting, SendsSet

LEMMA EncryptFailsMoves ==
    ASSUME Base, NEW s \in form.saves, EncryptFails(s)
    PROVE  form' \in Form /\ Unencrypted
<1>0. form \in Form
    BY FormOfBase
<1>1. /\ form' = [form EXCEPT !.saves = @ \ {s}, !.updatingRecord = FALSE]
      /\ s.step = "encrypt" /\ crossed' = crossed /\ SameData
    BY DEF EncryptFails, HandleEncErr, SameData
<1>2. /\ form' \in Form /\ ~form'.updatingRecord
      /\ form'.record = form.record /\ form'.opened = form.opened /\ form'.asked = form.asked
      /\ SameIds(form, form') /\ SameValues(form, form')
      /\ form'.wire = form.wire /\ form'.decrypts = form.decrypts /\ form'.saves = form.saves \ {s}
    BY <1>0, <1>1 DEF Form, SameIds, SameValues
<1> QED BY <1>1, <1>2 DEF Unencrypted

\* what is bounded, and the history
LEMMA SpendsFit ==
    ASSUME Base, NEW x \in Bounded, May(x), Spend(x)
    PROVE  left' \in [Bounded -> Nat]
<1>1. left \in [Bounded -> Nat] /\ left[x] - 1 \in Nat
    BY DEF Base, TypeOK, May
<1> QED BY <1>1 DEF Spend

LEMMA NotesFit ==
    ASSUME Base, Next
    PROVE  left' \in [Bounded -> Nat] /\ crossed' \subseteq Causes
<1>0. crossed \subseteq Causes /\ left \in [Bounded -> Nat]
    BY FormOfBase
<1>1. /\ Switches \subseteq Causes /\ Early \subseteq Causes /\ AskedThen \subseteq Causes
      /\ {"function"} \subseteq Causes /\ {"cancel"} \subseteq Causes /\ \A K : Unread(K) \subseteq Causes
      /\ {"related"} \subseteq Causes /\ {"cleared"} \subseteq Causes /\ {} \subseteq Causes
    BY DEF Causes, Switches, Early, AskedThen, Unread
<1>2. ASSUME NEW field \in Fields, Type(field) PROVE left' \in [Bounded -> Nat] /\ crossed' \subseteq Causes
  <2>1. "type" \in Bounded /\ May("type") /\ Spend("type") /\ crossed' = crossed
      BY <1>2 DEF Type, Bounded
  <2> QED BY <1>0, <2>1, SpendsFit
<1>3. ASSUME NEW record \in 0 .. MaxJoined, Relate(record) PROVE left' \in [Bounded -> Nat] /\ crossed' \subseteq Causes
  <2> DEFINE A == IF Loads \/ form.updatingRecord \/ form.saves # {} THEN {"related"} ELSE {}
             B == IF record = None /\ form.id[1] # None THEN {"cleared"} ELSE {}
  <2>1. "relate" \in Bounded /\ May("relate") /\ Spend("relate") /\ crossed' = crossed \cup (A \cup B)
      BY <1>3 DEF Relate, Bounded, Note
  <2>2. A \subseteq Causes /\ B \subseteq Causes
      BY <1>1
  <2> HIDE DEF A, B
  <2> QED BY <1>0, <2>1, <2>2, SpendsFit
<1>4. ASSUME NEW andNew \in BOOLEAN, SaveRecord(andNew) PROVE left' \in [Bounded -> Nat] /\ crossed' \subseteq Causes
  <2>1. "save" \in Bounded /\ May("save") /\ Spend("save") /\ crossed' = crossed \cup (Early \cup AskedThen)
      BY <1>4 DEF SaveRecord, Bounded, Note
  <2> QED BY <1>0, <1>1, <2>1, SpendsFit
<1>5. ASSUME FunctionSaves PROVE left' \in [Bounded -> Nat] /\ crossed' \subseteq Causes
  <2>1. "function" \in Bounded /\ May("function") /\ Spend("function")
        /\ crossed' = crossed \cup ({"function"} \cup Early \cup AskedThen)
      BY <1>5 DEF FunctionSaves, Bounded, Note
  <2> QED BY <1>0, <1>1, <2>1, SpendsFit
<1>6. ASSUME NEW record \in 0 .. MaxRecords, OpenRecord(record)
      PROVE  left' \in [Bounded -> Nat] /\ crossed' \subseteq Causes
  <2>1. "open" \in Bounded /\ May("open") /\ Spend("open") /\ crossed' = crossed \cup (Switches \cup AskedThen)
      BY <1>6 DEF OpenRecord, Bounded, Note
  <2> QED BY <1>0, <1>1, <2>1, SpendsFit
<1>7. ASSUME OpenNew PROVE left' \in [Bounded -> Nat] /\ crossed' \subseteq Causes
  <2>1. "open" \in Bounded /\ May("open") /\ Spend("open") /\ crossed' = crossed \cup Switches
      BY <1>7 DEF OpenNew, Bounded, Note
  <2> QED BY <1>0, <1>1, <2>1, SpendsFit
<1>8. ASSUME Refresh PROVE left' \in [Bounded -> Nat] /\ crossed' \subseteq Causes
  <2>1. "refresh" \in Bounded /\ May("refresh") /\ Spend("refresh") /\ crossed' = crossed \cup Switches
      BY <1>8 DEF Refresh, Bounded, Note
  <2> QED BY <1>0, <1>1, <2>1, SpendsFit
<1>9. ASSUME DelAsk PROVE left' \in [Bounded -> Nat] /\ crossed' \subseteq Causes
  <2>1. "delete" \in Bounded /\ May("delete") /\ Spend("delete") /\ crossed' = crossed
      BY <1>9 DEF DelAsk, Bounded
  <2> QED BY <1>0, <2>1, SpendsFit
<1>10. ASSUME Cancel PROVE left' \in [Bounded -> Nat] /\ crossed' \subseteq Causes
  <2> DEFINE A == Unread({q.kind : q \in {p \in form.wire : p.known}})
  <2>1. "cancel" \in Bounded /\ May("cancel") /\ Spend("cancel") /\ crossed' = crossed \cup ({"cancel"} \cup A)
      BY <1>10 DEF Cancel, Bounded, Note
  <2>2. A \subseteq Causes
      BY <1>1
  <2> HIDE DEF A
  <2> QED BY <1>0, <1>1, <2>1, <2>2, SpendsFit
<1>11. ASSUME NEW q \in form.wire, Fails(q) PROVE left' \in [Bounded -> Nat] /\ crossed' \subseteq Causes
  <2>1. "fail" \in Bounded /\ May("fail") /\ Spend("fail") /\ crossed' = crossed
      BY <1>11 DEF Fails, Bounded
  <2> QED BY <1>0, <1>1, <2>1, SpendsFit
<1>12. ASSUME NEW q \in form.wire, Receive(q) PROVE left' \in [Bounded -> Nat] /\ crossed' \subseteq Causes
  <2> DEFINE A == IF q.known /\ q.state = "done" /\ q.kind \in {"set", "del"} THEN Switches ELSE {}
             B == IF q.known /\ q.state = "failed" THEN Unread({q.kind}) ELSE {}
             C == IF form'.opened # form.opened THEN AskedThen ELSE {}
  <2>1. left' = left /\ crossed' = crossed \cup (A \cup B \cup C)
      BY <1>12 DEF Receive, Note
  <2>2. A \subseteq Causes /\ B \subseteq Causes /\ C \subseteq Causes
      BY <1>1
  <2> HIDE DEF A, B, C
  <2> QED BY <1>0, <2>1, <2>2
<1>13. ASSUME NEW q \in form.wire, Handle(q) PROVE left' \in [Bounded -> Nat] /\ crossed' \subseteq Causes
  <2>1. left' = left /\ crossed' = crossed
      BY <1>13 DEF Handle, HandleGet, HandleSet, HandleDel
  <2> QED BY <1>0, <2>1
<1>14. CASE Del
    BY <1>0, <1>14 DEF Del
<1>15. ASSUME NEW q \in form.decrypts, Decrypted(q) PROVE left' \in [Bounded -> Nat] /\ crossed' \subseteq Causes
    BY <1>0, <1>15 DEF Decrypted
<1>16. ASSUME NEW s \in form.saves, Encrypted(s) PROVE left' \in [Bounded -> Nat] /\ crossed' \subseteq Causes
    BY <1>0, <1>16 DEF Encrypted
<1>17. ASSUME NEW q \in form.decrypts, DecryptFails(q) PROVE left' \in [Bounded -> Nat] /\ crossed' \subseteq Causes
  <2>1. "crypt" \in Bounded /\ May("crypt") /\ Spend("crypt") /\ crossed' = crossed
      BY <1>17 DEF DecryptFails, Bounded
  <2> QED BY <1>0, <2>1, SpendsFit
<1>18. ASSUME NEW s \in form.saves, EncryptFails(s) PROVE left' \in [Bounded -> Nat] /\ crossed' \subseteq Causes
  <2>1. "crypt" \in Bounded /\ May("crypt") /\ Spend("crypt") /\ crossed' = crossed
      BY <1>18 DEF EncryptFails, Bounded
  <2> QED BY <1>0, <2>1, SpendsFit
<1> QED BY <1>2, <1>3, <1>4, <1>5, <1>6, <1>7, <1>8, <1>9, <1>10, <1>11, <1>12, <1>13, <1>14, <1>15, <1>16,
          <1>17, <1>18 DEF Next

LEMMA SameDataFits == ASSUME Base, SameData PROVE DataFits'
BY DEF Base, TypeOK, RecordsFit, Rel1, DataFits, SameData, data

\* Every step is of one of the kinds.
LEMMA Moves ==
    ASSUME Base, Next
    PROVE  form' \in Form /\ Moving /\ DataFits' /\ left' \in [Bounded -> Nat] /\ crossed' \subseteq Causes
<1>0. left' \in [Bounded -> Nat] /\ crossed' \subseteq Causes
    BY NotesFit
<1>1. ASSUME SaveStarts \/ Opening \/ LoadsAgain PROVE form' \in Form /\ DataFits'
  <2>1. SameData
      BY <1>1 DEF SaveStarts, Opening, LoadsAgain
  <2>2. form' \in Form
      BY <1>1 DEF SaveStarts, Opening, LoadsAgain, SaveFails, SaveAsksKeys, SaveGoesOn, GoesOn, Encrypts, SendsSet,
                  Opens, Gets
  <2> QED BY <2>1, <2>2, SameDataFits
<1>2. ASSUME NEW field \in Fields, Type(field) PROVE form' \in Form /\ Moving /\ DataFits'
  <2>1. form' \in Form /\ Typing
      BY <1>2, UserMoves
  <2> QED BY <2>1, SameDataFits DEF Typing, Moving
<1>3. ASSUME NEW record \in 0 .. MaxJoined, Relate(record) PROVE form' \in Form /\ Moving /\ DataFits'
  <2>1. form' \in Form /\ (Clearing \/ Relating)
      BY <1>3, UserMoves
  <2>2. SameData
      BY <2>1 DEF Clearing, Relating, Relates
  <2> QED BY <2>1, <2>2, SameDataFits DEF Moving
<1>4. ASSUME NEW andNew \in BOOLEAN, SaveRecord(andNew) PROVE form' \in Form /\ Moving /\ DataFits'
  <2>1. SaveStarts
      BY <1>4, UserMoves
  <2> QED BY <1>1, <2>1 DEF Moving
<1>5. ASSUME NEW record \in 0 .. MaxRecords, OpenRecord(record) PROVE form' \in Form /\ Moving /\ DataFits'
  <2>1. Opening
      BY <1>5, UserMoves
  <2> QED BY <1>1, <2>1 DEF Moving
<1>6. ASSUME FunctionSaves \/ OpenNew \/ Refresh PROVE form' \in Form /\ Moving /\ DataFits'
  <2>1. SaveStarts \/ Opening \/ LoadsAgain
      BY <1>6, UserMoves
  <2> QED BY <1>1, <2>1 DEF Moving
<1>7. ASSUME DelAsk \/ Del \/ Cancel PROVE form' \in Form /\ Moving /\ DataFits'
  <2>1. form' \in Form /\ (Asking \/ Answering \/ Cancelling)
      BY <1>7, UserMoves
  <2>2. SameData
      BY <2>1 DEF Asking, Answering, Cancelling
  <2> QED BY <2>1, <2>2, SameDataFits DEF Moving
<1>8. ASSUME NEW q \in form.wire, Handle(q) PROVE form' \in Form /\ Moving /\ DataFits'
  <2>1. CASE HandleGet(q)
      BY <2>1, ReadMoves, SameDataFits DEF Reading, Moving
  <2>2. CASE HandleSet(q)
      BY <2>2, WriteMoves DEF Moving
  <2>3. CASE HandleDel(q)
      BY <2>3, DelMoves DEF Moving
  <2> QED BY <1>8, <2>1, <2>2, <2>3 DEF Handle
<1>9. ASSUME NEW q \in form.wire, Fails(q) PROVE form' \in Form /\ Moving /\ DataFits'
    BY <1>9, FailMoves, SameDataFits DEF Failing, Moving
<1>10. ASSUME NEW q \in form.wire, Receive(q) PROVE form' \in Form /\ Moving /\ DataFits'
  <2>1. SameData
      BY <1>10 DEF Receive, SameData
  <2> QED BY <1>10, <2>1, ReceiveMoves, SameDataFits DEF Moving
<1>11. ASSUME NEW q \in form.decrypts, Decrypted(q) PROVE form' \in Form /\ Moving /\ DataFits'
    BY <1>11, DecryptedMoves, SameDataFits DEF Decrypting, Moving
<1>12. ASSUME NEW s \in form.saves, Encrypted(s) PROVE form' \in Form /\ Moving /\ DataFits'
    BY <1>12, EncryptedMoves, SameDataFits DEF Encrypting, Moving
<1>13. ASSUME NEW q \in form.decrypts, DecryptFails(q) PROVE form' \in Form /\ Moving /\ DataFits'
    BY <1>13, DecryptFailsMoves, SameDataFits DEF Decrypting, Unreadable, Moving
<1>14. ASSUME NEW s \in form.saves, EncryptFails(s) PROVE form' \in Form /\ Moving /\ DataFits'
    BY <1>14, EncryptFailsMoves, SameDataFits DEF Unencrypted, Moving
<1> QED BY <1>0, <1>2, <1>3, <1>4, <1>5, <1>6, <1>7, <1>8, <1>9, <1>10, <1>11, <1>12, <1>13, <1>14 DEF Next

-----------------------------------------------------------------------------
(* Requests and saves keep their numbers.                                    *)

LEMMA RequestGone ==
    ASSUME NEW W, NEW D, NEW S, Numbered(W, D, S), NEW q \in W, ~q.known \/ q.kind # "keys"
    PROVE  Numbered(W \ {q}, D, S)
BY FS_RemoveElement DEF Numbered

LEMMA KeysGone ==
    ASSUME NEW W, NEW D, NEW S, Numbered(W, D, S), NEW q \in W, q.known, q.kind = "keys",
           NEW s \in S, s.nr = q.nr
    PROVE  Numbered(W \ {q}, D, S \ {s})
<1> DEFINE V == W \ {q}
           T == S \ {s}
<1>1. IsFiniteSet(V) /\ IsFiniteSet(D) /\ IsFiniteSet(T) /\ V \cap D = {}
    BY FS_RemoveElement DEF Numbered
<1>2. \A x \in V : x \in W /\ x # q
    OBVIOUS
<1>3. \A x \in T : x \in S /\ x # s
    OBVIOUS
<1>4. ASSUME NEW t \in T, t.step = "keys" PROVE \E p \in V : p.known /\ p.kind = "keys" /\ p.nr = t.nr
  <2>1. PICK p \in W : p.known /\ p.kind = "keys" /\ p.nr = t.nr
      BY <1>3, <1>4 DEF Numbered
  <2>2. p # q
      BY <1>3, <2>1 DEF Numbered
  <2> QED BY <2>1, <2>2
<1>5. ASSUME NEW p \in V, p.known, p.kind = "keys" PROVE \E t \in T : t.nr = p.nr
  <2>1. PICK t \in S : t.nr = p.nr
      BY <1>2, <1>5 DEF Numbered
  <2>2. t # s
      BY <1>2, <2>1 DEF Numbered
  <2> QED BY <2>1, <2>2
<1> HIDE DEF V, T
<1>6. Numbered(V, D, T)
    BY <1>1, <1>2, <1>3, <1>4, <1>5 DEF Numbered
<1> QED BY <1>6 DEF V, T

LEMMA SaveGone ==
    ASSUME NEW W, NEW D, NEW S, Numbered(W, D, S), NEW s \in S, s.step # "keys"
    PROVE  Numbered(W, D, S \ {s})
BY FS_RemoveElement DEF Numbered

LEMMA RequestSent ==
    ASSUME NEW W, NEW D, NEW S, Numbered(W, D, S), NEW q, q.kind # "keys", 
           \A x \in W \cup D \cup S : x.nr # q.nr
    PROVE  Numbered(W \cup {q}, D, S)
BY FS_AddElement DEF Numbered

LEMMA SaveGoes ==
    ASSUME NEW W, NEW D, NEW S, Numbered(W, D, S), NEW t, t.step # "keys",
           \A x \in W \cup D \cup S : x.nr # t.nr
    PROVE  Numbered(W, D, S \cup {t})
BY FS_AddElement DEF Numbered

LEMMA KeysAsked ==
    ASSUME NEW W, NEW D, NEW S, Numbered(W, D, S), NEW q, q.kind = "keys", q.known, NEW s, s.step = "keys",
           s.nr = q.nr, \A x \in W \cup D \cup S : x.nr # q.nr
    PROVE  Numbered(W \cup {q}, D, S \cup {s})
BY FS_AddElement DEF Numbered

LEMMA RequestHandled ==
    ASSUME NEW W, NEW D, NEW S, Numbered(W, D, S), NEW q \in W, NEW a,
           a.nr = q.nr, a.kind = q.kind, a.known = q.known
    PROVE  Numbered((W \ {q}) \cup {a}, D, S)
<1>1. IsFiniteSet((W \ {q}) \cup {a})
    BY FS_RemoveElement, FS_AddElement DEF Numbered
<1> QED BY <1>1 DEF Numbered

LEMMA RowsCome ==
    ASSUME NEW W, NEW D, NEW S, Numbered(W, D, S), NEW q \in W, q.kind = "get", q.state = "done", q.rows = 1
    PROVE  Numbered(W \ {q}, D \cup {q}, S)
BY FS_RemoveElement, FS_AddElement DEF Numbered

LEMMA RowsShown ==
    ASSUME NEW W, NEW D, NEW S, Numbered(W, D, S), NEW q \in D
    PROVE  Numbered(W, D \ {q}, S)
BY FS_RemoveElement DEF Numbered

LEMMA AllForgotten ==
    ASSUME NEW W, W \subseteq Request, NEW D, NEW S, Numbered(W, D, S)
    PROVE  Numbered({Forgotten(q) : q \in W}, D, {s \in S : s.step # "keys"})
<1> DEFINE V == {Forgotten(q) : q \in W}
           T == {s \in S : s.step # "keys"}
<1>1. IsFiniteSet(V)
  <2> DEFINE g == [q \in W |-> Forgotten(q)]
  <2>1. g \in Surjection(W, V)
      BY DEF Surjection
  <2> QED BY <2>1, FS_Surjection DEF Numbered
<1>2. IsFiniteSet(T) /\ T \subseteq S
    BY FS_Subset DEF Numbered
<1>3. \A q \in W : ~Forgotten(q).known /\ Forgotten(q).nr = q.nr /\ Forgotten(q).kind = q.kind
    BY DEF Request, Forgotten
<1>a. \A v \in V : ~v.known /\ \E q \in W : v = Forgotten(q) /\ v.nr = q.nr /\ v.kind = q.kind
    BY <1>3
<1>4. \A s \in T : s \in S /\ s.step # "keys"
    OBVIOUS
<1> HIDE DEF V, T
<1>5. \A x, y \in V \cup D : x.nr = y.nr => x = y
    BY <1>a DEF Numbered
<1>6. \A s \in T, q \in V \cup D : s.nr # q.nr
    BY <1>a, <1>4 DEF Numbered
<1>7. Numbered(V, D, T)
    BY <1>1, <1>2, <1>a, <1>4, <1>5, <1>6 DEF Numbered
<1> QED BY <1>7 DEF V, T

\* the request of a save, or its value to be encrypted
LEMMA GoingOnNumbers ==
    ASSUME NEW f, NEW g, NEW s, GoesOn(f, g, s), Numbered(f.wire, f.decrypts, f.saves \ {s}),
           \A x \in f.wire \cup f.decrypts \cup (f.saves \ {s}) : x.nr # s.nr
    PROVE  Numbers(g)
<1>1. CASE Encrypts(f, g, s)
  <2>1. PICK t : t.step = "encrypt" /\ t.nr = s.nr /\ g.saves = (f.saves \ {s}) \cup {t}
      BY <1>1 DEF Encrypts
  <2>2. Numbered(f.wire, f.decrypts, (f.saves \ {s}) \cup {t})
      BY <2>1, SaveGoes
  <2> QED BY <1>1, <2>1, <2>2 DEF Numbers, Encrypts
<1>2. CASE SendsSet(f, g, s.first, f.id[0], f.new["name"], None, s.opened, s.shown, s.changed, s.before, f.saves \ {s})
  <2>1. PICK q : /\ q.kind = "set" /\ g.wire = f.wire \cup {q}
                 /\ \A x \in f.wire \cup f.decrypts \cup (f.saves \ {s}) : x.nr # q.nr
      BY <1>2 DEF SendsSet
  <2>2. Numbered(f.wire \cup {q}, f.decrypts, f.saves \ {s})
      BY <2>1, RequestSent
  <2> QED BY <1>2, <2>1, <2>2 DEF Numbers, SendsSet
<1> QED BY <1>1, <1>2 DEF GoesOn

LEMMA OpeningNumbers ==
    ASSUME NEW f, NEW g, NEW n, Numbers(f), Opens(f, g, n) \/ Gets(f, g)
    PROVE  Numbers(g)
<1>1. g.decrypts = f.decrypts /\ g.saves = f.saves
    BY DEF Opens, Gets
<1>2. CASE g.wire = f.wire
    BY <1>1, <1>2 DEF Numbers
<1>3. CASE \E q : q.kind = "get" /\ Unused(f, q.nr) /\ g.wire = f.wire \cup {q}
    BY <1>1, <1>3, RequestSent DEF Numbers, Unused
<1> QED BY <1>2, <1>3 DEF Opens, Gets, Asks

LEMMA NumbersKept ==
    ASSUME Base, Moving
    PROVE  Numbers(form')
<1>0. Numbers(form) /\ form.wire \subseteq Request
    BY FormOfBase DEF Base
<1>1. CASE Typing \/ Clearing \/ Asking
    BY <1>0, <1>1 DEF Typing, Clearing, Asking, SameTraffic, Relates, Rests, Numbers
<1>2. CASE Relating
  <2>1. PICK q : /\ Asks(form, q, "sub", q.id) /\ form'.wire = form.wire \cup {q}
                 /\ form'.decrypts = form.decrypts /\ form'.saves = form.saves
      BY <1>2 DEF Relating, Relates, Asks
  <2> QED BY <1>0, <2>1, RequestSent DEF Asks, Unused, Numbers
<1>3. CASE SaveStarts
  <2>1. CASE SaveFails(form, form')
      BY <1>0, <2>1 DEF SaveFails, SameTraffic, Numbers
  <2>2. CASE SaveAsksKeys(form, form')
    <3>1. PICK s, q : /\ Saves(form, s) /\ q.nr = s.nr /\ q.kind = "keys" /\ q.known
                      /\ form'.saves = form.saves \cup {s} /\ form'.wire = form.wire \cup {q}
        BY <2>2 DEF SaveAsksKeys
    <3> QED BY <1>0, <2>2, <3>1, KeysAsked DEF SaveAsksKeys, Saves, Unused, Numbers
  <2>3. CASE SaveGoesOn(form, form')
    <3>1. PICK m, s : Updating(form, m) /\ Saves(form, s) /\ s \notin form.saves /\ GoesOn(m, form', s)
        BY <2>3 DEF SaveGoesOn
    <3>2. m.saves \ {s} = form.saves /\ m.wire = form.wire /\ m.decrypts = form.decrypts
        BY <3>1 DEF Updating, SameTraffic
    <3>3. /\ Numbered(m.wire, m.decrypts, m.saves \ {s})
          /\ \A x \in m.wire \cup m.decrypts \cup (m.saves \ {s}) : x.nr # s.nr
        BY <1>0, <3>1, <3>2 DEF Numbers, Saves, Unused
    <3> QED BY <3>1, <3>3, GoingOnNumbers
  <2> QED BY <1>3, <2>1, <2>2, <2>3 DEF SaveStarts
<1>4. CASE Opening \/ LoadsAgain
    BY <1>0, <1>4, OpeningNumbers DEF Opening, LoadsAgain
<1>5. CASE Answering
  <2>1. CASE form'.wire = form.wire
      BY <1>0, <1>5, <2>1 DEF Answering, Rests, Numbers
  <2>2. CASE \E q : Asks(form, q, "del", form.id[0]) /\ form'.wire = form.wire \cup {q}
      BY <1>0, <1>5, <2>2, RequestSent DEF Answering, Rests, Numbers, Asks, Unused
  <2> QED BY <1>5, <2>1, <2>2 DEF Answering
<1>6. CASE Cancelling
    BY <1>0, <1>6, AllForgotten DEF Cancelling, Numbers
<1>7. CASE Failing \/ Reading \/ Writing \/ Deleting
  <2>1. PICK q, a : Handles(q, a)
      BY <1>7 DEF Failing, Reading, Writing, Deleting
  <2> QED BY <1>0, <2>1, RequestHandled DEF Handles, Numbers
<1>8. CASE Dropping
  <2>1. PICK q \in form.wire : Lacks(form, form', q) /\ (~q.known \/ q.kind \in {"get", "sub"})
      BY <1>8 DEF Dropping
  <2> QED BY <1>0, <2>1, RequestGone DEF Lacks, Numbers
<1>9. CASE LoadsNow
  <2>1. PICK q, m : /\ q \in form.wire
                    /\ Arriving(q) /\ q.kind = "get" /\ Lacks(form, m, q)
                    /\ IF q.rows = 1 THEN LoadsRow(m, form', q) ELSE LoadsNone(m, form')
      BY <1>9 DEF LoadsNow
  <2>2. Numbered(form.wire \ {q}, form.decrypts, form.saves)
      BY <1>0, <2>1, RequestGone DEF Numbers
  <2>3. CASE form'.wire = m.wire /\ form'.decrypts = m.decrypts /\ form'.saves = m.saves
      BY <2>1, <2>2, <2>3 DEF Lacks, Numbers
  <2>4. CASE q.rows = 1 /\ form'.wire = m.wire /\ form'.decrypts = m.decrypts \cup {q} /\ form'.saves = m.saves
      BY <1>0, <2>1, <2>4, RowsCome DEF Lacks, Numbers, Arriving
  <2> QED BY <2>1, <2>3, <2>4 DEF LoadsRow, LoadsNone, SameTraffic
<1>10. CASE JoinsNow
  <2>1. PICK q, m : /\ q \in form.wire
                    /\ q.kind = "sub" /\ Lacks(form, m, q) /\ ShowsJoined(m, form', q)
      BY <1>10 DEF JoinsNow
  <2>2. Numbered(form.wire \ {q}, form.decrypts, form.saves)
      BY <1>0, <2>1, RequestGone DEF Numbers
  <2> QED BY <2>1, <2>2 DEF Lacks, ShowsJoined, SameTraffic, Numbers
<1>11. CASE KeysCome
  <2>1. PICK q, s, m : /\ q \in form.wire /\ s \in form.saves
                       /\ Arriving(q) /\ q.kind = "keys" /\ Lacks(form, m, q) /\ s.nr = q.nr /\ GoesOn(m, form', s)
      BY <1>11 DEF KeysCome
  <2>2. /\ Numbered(form.wire \ {q}, form.decrypts, form.saves \ {s})
        /\ \A x \in (form.wire \ {q}) \cup form.decrypts \cup (form.saves \ {s}) : x.nr # s.nr
    <3>1. q.known /\ q.kind = "keys" /\ s.nr = q.nr /\ Numbered(form.wire, form.decrypts, form.saves)
        BY <1>0, <2>1 DEF Numbers, Arriving
    <3>2. Numbered(form.wire \ {q}, form.decrypts, form.saves \ {s})
        BY <2>1, <3>1, KeysGone
    <3>3. \A x \in (form.wire \ {q}) \cup form.decrypts \cup (form.saves \ {s}) : x.nr # s.nr
        BY <2>1, <3>1 DEF Numbered
    <3> QED BY <3>2, <3>3
  <2> QED BY <2>1, <2>2, GoingOnNumbers DEF Lacks
<1>12. CASE SetAnswered \/ DelAnswered
  <2>1. PICK q, m : /\ q \in form.wire
                    /\ q.kind \in {"set", "del"} /\ Lacks(form, m, q)
                    /\ (\E n : OpensIdle(m, form', n)) \/ GetsIdle(m, form')
      BY <1>12 DEF SetAnswered, DelAnswered
  <2>2. Numbered(form.wire \ {q}, form.decrypts, form.saves)
      BY <1>0, <2>1, RequestGone DEF Numbers
  <2>3. Numbers(m)
      BY <2>1, <2>2 DEF Lacks, Numbers
  <2>4. CASE \E n : OpensIdle(m, form', n)
    <3>1. PICK n, h : Opens(m, h, n) /\ Idles(h, form')
        BY <2>4 DEF OpensIdle
    <3>2. Numbers(h)
        BY <2>3, <3>1, OpeningNumbers
    <3> QED BY <3>1, <3>2 DEF Idles, SameTraffic, Numbers
  <2>5. CASE GetsIdle(m, form')
    <3>1. PICK l, h : IsSaved(m, l) /\ Gets(l, h) /\ Idles(h, form')
        BY <2>5 DEF GetsIdle
    <3>2. Numbers(l)
        BY <2>3, <3>1 DEF IsSaved, SameTraffic, Numbers
    <3>3. Numbers(h)
        BY <3>1, <3>2, OpeningNumbers
    <3> QED BY <3>1, <3>3 DEF Idles, SameTraffic, Numbers
  <2> QED BY <2>1, <2>4, <2>5
<1>13. CASE Rejected
  <2>1. PICK q, m : /\ q \in form.wire
                    /\ q.known /\ q.kind \in {"set", "del", "keys"} /\ Lacks(form, m, q)
                    /\ form'.wire = m.wire /\ form'.decrypts = m.decrypts
                    /\ form'.saves = IF q.kind = "keys" THEN {s \in form.saves : s.nr # q.nr} ELSE form.saves
      BY <1>13 DEF Rejected
  <2>2. CASE q.kind = "keys"
    <3>1. PICK s \in form.saves : s.nr = q.nr
        BY <1>0, <2>1, <2>2 DEF Numbers, Numbered
    <3>2. form'.saves = form.saves \ {s}
        BY <1>0, <2>1, <2>2, <3>1 DEF Numbers, Numbered
    <3> QED BY <1>0, <2>1, <2>2, <3>1, <3>2, KeysGone DEF Numbers, Lacks
  <2>3. CASE q.kind # "keys"
      BY <1>0, <2>1, <2>3, RequestGone DEF Numbers, Lacks
  <2> QED BY <2>2, <2>3
<1>14. CASE Decrypting
  <2>1. PICK q, m : /\ q \in form.decrypts
                    /\ m.wire = form.wire /\ m.decrypts = form.decrypts \ {q} /\ m.saves = form.saves
                    /\ ShowsRow(m, form', q)
      BY <1>14 DEF Decrypting
  <2>2. Numbered(form.wire, form.decrypts \ {q}, form.saves)
      BY <1>0, RowsShown DEF Numbers
  <2> QED BY <2>1, <2>2 DEF ShowsRow, SameTraffic, Numbers
<1>15. CASE Encrypting
  <2>1. PICK s \in form.saves :
             /\ s.step = "encrypt"
             /\ SendsSet(form, form', s.first, s.id, s.name, s.keyOf, s.opened, s.shown, s.changed, s.before, form.saves \ {s})
      BY <1>15 DEF Encrypting
  <2>2. Numbered(form.wire, form.decrypts, form.saves \ {s})
      BY <1>0, <2>1, SaveGone DEF Numbers
  <2>3. PICK q : /\ q.kind = "set" /\ form'.wire = form.wire \cup {q}
                 /\ form'.decrypts = form.decrypts /\ form'.saves = form.saves \ {s}
                 /\ \A x \in form.wire \cup form.decrypts \cup (form.saves \ {s}) : x.nr # q.nr
      BY <2>1 DEF SendsSet
  <2> QED BY <2>2, <2>3, RequestSent DEF Numbers
<1>16. CASE Unreadable
  <2>1. PICK q \in form.decrypts :
             form'.wire = form.wire /\ form'.decrypts = form.decrypts \ {q} /\ form'.saves = form.saves
      BY <1>16 DEF Unreadable
  <2> QED BY <1>0, <2>1, RowsShown DEF Numbers
<1>17. CASE Unencrypted
  <2>1. PICK s \in form.saves :
             /\ s.step = "encrypt"
             /\ form'.wire = form.wire /\ form'.decrypts = form.decrypts /\ form'.saves = form.saves \ {s}
      BY <1>17 DEF Unencrypted
  <2> QED BY <1>0, <2>1, SaveGone DEF Numbers
<1> QED BY <1>1, <1>2, <1>3, <1>4, <1>5, <1>6, <1>7, <1>8, <1>9, <1>10, <1>11, <1>12, <1>13, <1>14, <1>15,
          <1>16, <1>17 DEF Moving

-----------------------------------------------------------------------------
(* What the form refers to stays there; its ids are those of its record.     *)

LEMMA SendingRefs ==
    ASSUME NEW f, NEW g, NEW s, NEW id, NEW v, NEW k, NEW o, NEW w, NEW c, NEW b, NEW S, NEW R,
           SendsSet(f, g, s, id, v, k, o, w, c, b, S), RefsIn(f, R)
    PROVE  RefsIn(g, R)
BY DEF SendsSet, RefsIn, Flight, SameIds, SameValues

LEMMA GoingOnRefs ==
    ASSUME NEW f, NEW g, NEW s, GoesOn(f, g, s), NEW R, RefsIn(f, R)
    PROVE  RefsIn(g, R)
<1>1. CASE Encrypts(f, g, s)
    BY <1>1 DEF Encrypts, RefsIn, Flight, SameIds, SameValues
<1> QED BY <1>1, SendingRefs DEF GoesOn

LEMMA OpeningRefs ==
    ASSUME NEW f, NEW g, NEW n, Opens(f, g, n) \/ Gets(f, g), NEW R, None \in R, RefsIn(f, R)
    PROVE  RefsIn(g, R)
<1>1. /\ g.new["ref"] \in R /\ g.old["ref"] \in R /\ g.id[1] \in R /\ g.decrypts = f.decrypts
    BY DEF Opens, Gets, RefsIn, Empty, Fields
<1>2. CASE g.wire = f.wire
    BY <1>1, <1>2 DEF RefsIn, Flight
<1>3. CASE \E q : q.kind = "get" /\ q.values = Empty /\ q.rel1 = None /\ g.wire = f.wire \cup {q}
    BY <1>1, <1>3 DEF RefsIn, Flight, Empty, Fields
<1> QED BY <1>2, <1>3 DEF Opens, Gets, Asks

LEMMA RefsKept ==
    ASSUME Base, Moving
    PROVE  RefsIn(form', Rel1)
<1>0. RefsIn(form, Rel1) /\ None \in Rel1 /\ RecordsFit /\ form.wire \subseteq Request
    BY FormOfBase, DataOfBase DEF Base, RefsFit
<1>1. CASE Typing \/ Asking
    BY <1>0, <1>1 DEF Typing, Asking, SameTraffic, Rests, RefsIn, Flight, SameIds, SameValues, Fields
<1>2. CASE Clearing
    BY <1>0, <1>2 DEF Clearing, Relates, RefsIn, Flight, SameIds
<1>3. CASE Relating
  <2>1. PICK record, q : /\ record \in 1 .. MaxJoined
                         /\ form'.wire = form.wire \cup {q} /\ form'.decrypts = form.decrypts
                         /\ q.id = record /\ q.values = Empty /\ q.rel1 = None
                         /\ form'.new["ref"] = record /\ form'.old["ref"] = form.old["ref"] /\ form'.id = form.id
      BY <1>3 DEF Relating, Relates, Asks, SameIds
  <2>2. record \in Rel1
      BY <1>0, <2>1 DEF RecordsFit, Rel1
  <2> QED BY <1>0, <2>1, <2>2 DEF RefsIn, Flight, Empty, Fields
<1>4. CASE SaveStarts
  <2>1. CASE SaveFails(form, form')
      BY <1>0, <2>1 DEF SaveFails, SameTraffic, SameIds, SameValues, RefsIn, Flight
  <2>2. CASE SaveAsksKeys(form, form')
      BY <1>0, <2>2 DEF SaveAsksKeys, SameValues, RefsIn, Flight, Empty, Fields
  <2>3. CASE SaveGoesOn(form, form')
    <3>1. PICK m, s : Updating(form, m) /\ GoesOn(m, form', s)
        BY <2>3 DEF SaveGoesOn
    <3>2. RefsIn(m, Rel1)
        BY <1>0, <3>1 DEF Updating, SameTraffic, SameIds, SameValues, RefsIn, Flight
    <3> QED BY <3>1, <3>2, GoingOnRefs
  <2> QED BY <1>4, <2>1, <2>2, <2>3 DEF SaveStarts
<1>5. CASE Opening \/ LoadsAgain
    BY <1>0, <1>5, OpeningRefs DEF Opening, LoadsAgain
<1>6. CASE Answering
  <2>1. CASE form'.wire = form.wire
      BY <1>0, <1>6, <2>1 DEF Answering, Rests, SameIds, SameValues, RefsIn, Flight
  <2>2. CASE \E q : Asks(form, q, "del", form.id[0]) /\ form'.wire = form.wire \cup {q}
      BY <1>0, <1>6, <2>2 DEF Answering, Rests, SameIds, SameValues, RefsIn, Flight, Asks, Empty, Fields
  <2> QED BY <1>6, <2>1, <2>2 DEF Answering
<1>7. CASE Cancelling
  <2>1. \A q \in form.wire : /\ Forgotten(q).values = q.values /\ Forgotten(q).rel1 = q.rel1
                             /\ Forgotten(q).kind = q.kind /\ Forgotten(q).id = q.id
      BY <1>0 DEF Request, Forgotten
  <2> QED BY <1>0, <1>7, <2>1 DEF Cancelling, SameIds, SameValues, RefsIn, Flight
<1>8. CASE Failing \/ Reading \/ Writing \/ Deleting
  <2>1. PICK q, a : Handles(q, a) /\ a.values["ref"] \in Rel1 /\ (q.kind = "sub" => a.id = q.id)
      BY <1>0, <1>8 DEF Failing, Reading, Writing, Deleting, Handles, RefsIn, Flight
  <2> QED BY <1>0, <2>1 DEF Handles, SameIds, SameValues, RefsIn, Flight
<1>9. ASSUME NEW q \in form.wire, NEW m, Lacks(form, m, q) PROVE RefsIn(m, Rel1)
    BY <1>0, <1>9 DEF Lacks, SameIds, SameValues, RefsIn, Flight
<1>10. CASE Dropping
    BY <1>9, <1>10 DEF Dropping
<1>11. CASE LoadsNow
  <2>1. PICK q, m : /\ q \in form.wire
                    /\ Lacks(form, m, q)
                    /\ IF q.rows = 1 THEN LoadsRow(m, form', q) ELSE LoadsNone(m, form')
      BY <1>11 DEF LoadsNow
  <2>2. RefsIn(m, Rel1) /\ q.values["ref"] \in Rel1 /\ q.rel1 \in Rel1 /\ (q.kind = "sub" => q.id \in Rel1)
      BY <1>0, <1>9, <2>1 DEF RefsIn, Flight
  <2>3. CASE LoadsRow(m, form', q)
      BY <2>2, <2>3 DEF LoadsRow, RefsIn, Flight, SameValues
  <2>4. CASE LoadsNone(m, form')
      BY <1>0, <2>2, <2>4 DEF LoadsNone, RefsIn, Flight, SameValues, SameTraffic
  <2> QED BY <2>1, <2>3, <2>4
<1>12. CASE JoinsNow
  <2>1. PICK q, m : /\ q \in form.wire
                    /\ q.kind = "sub" /\ Lacks(form, m, q) /\ ShowsJoined(m, form', q)
      BY <1>12 DEF JoinsNow
  <2>2. RefsIn(m, Rel1) /\ q.id \in Rel1
      BY <1>0, <1>9, <2>1 DEF RefsIn, Flight
  <2> QED BY <2>1, <2>2 DEF ShowsJoined, SameTraffic, RefsIn, Flight
<1>13. CASE KeysCome
    BY <1>9, <1>13, GoingOnRefs DEF KeysCome
<1>14. CASE SetAnswered \/ DelAnswered
  <2>1. PICK q, m : /\ q \in form.wire
                    /\ Lacks(form, m, q)
                    /\ (\E n : OpensIdle(m, form', n)) \/ GetsIdle(m, form')
      BY <1>14 DEF SetAnswered, DelAnswered
  <2>2. RefsIn(m, Rel1)
      BY <1>9, <2>1
  <2>3. ASSUME NEW h, RefsIn(h, Rel1), Idles(h, form') PROVE RefsIn(form', Rel1)
      BY <2>3 DEF Idles, SameTraffic, SameIds, SameValues, RefsIn, Flight
  <2>4. CASE \E n : OpensIdle(m, form', n)
      BY <1>0, <2>2, <2>3, <2>4, OpeningRefs DEF OpensIdle
  <2>5. CASE GetsIdle(m, form')
    <3>1. PICK l, h : IsSaved(m, l) /\ Gets(l, h) /\ Idles(h, form')
        BY <2>5 DEF GetsIdle
    <3>2. RefsIn(l, Rel1)
        BY <2>2, <3>1 DEF IsSaved, SameTraffic, SameIds, RefsIn, Flight
    <3> QED BY <1>0, <2>3, <3>1, <3>2, OpeningRefs
  <2> QED BY <2>1, <2>4, <2>5
<1>15. CASE Rejected
  <2>1. PICK q, m : /\ q \in form.wire
                    /\ Lacks(form, m, q) /\ SameIds(m, form') /\ SameValues(m, form')
                    /\ form'.wire = m.wire /\ form'.decrypts = m.decrypts
      BY <1>15 DEF Rejected
  <2>2. RefsIn(m, Rel1)
      BY <1>9, <2>1
  <2> QED BY <2>1, <2>2 DEF SameIds, SameValues, RefsIn, Flight
<1>16. CASE Decrypting
  <2>1. PICK q, m : /\ q \in form.decrypts
                    /\ m.wire = form.wire /\ m.decrypts = form.decrypts \ {q} /\ SameIds(form, m) /\ ShowsRow(m, form', q)
      BY <1>16 DEF Decrypting
  <2>2. q.values["ref"] \in Rel1
      BY <1>0, <2>1 DEF RefsIn, Flight
  <2> QED BY <1>0, <2>1, <2>2 DEF ShowsRow, SameTraffic, SameIds, RefsIn, Flight
<1>17. CASE Encrypting
    BY <1>0, <1>17, SendingRefs DEF Encrypting
<1>18. CASE Unreadable
    BY <1>0, <1>18 DEF Unreadable, SameValues, RefsIn, Flight
<1>19. CASE Unencrypted
    BY <1>0, <1>19 DEF Unencrypted, SameIds, SameValues, RefsIn, Flight
<1> QED BY <1>1, <1>2, <1>3, <1>4, <1>5, <1>6, <1>7, <1>8, <1>10, <1>11, <1>12, <1>13, <1>14, <1>15, <1>16, <1>17,
          <1>18, <1>19 DEF Moving

LEMMA SendingNamed ==
    ASSUME NEW f, NEW g, NEW s, NEW id, NEW v, NEW k, NEW o, NEW w, NEW c, NEW b, NEW S,
           SendsSet(f, g, s, id, v, k, o, w, c, b, S), Named(f)
    PROVE  Named(g)
BY DEF SendsSet, Named, Flight, SameIds, SamePage

LEMMA GoingOnNamed ==
    ASSUME NEW f, NEW g, NEW s, GoesOn(f, g, s), Named(f)
    PROVE  Named(g)
<1>1. CASE Encrypts(f, g, s)
    BY <1>1 DEF Encrypts, Named, Flight, SameIds, SamePage
<1> QED BY <1>1, SendingNamed DEF GoesOn

LEMMA OpeningNamed ==
    ASSUME NEW f, NEW g, NEW n, Opens(f, g, n) \/ Gets(f, g), Named(f)
    PROVE  Named(g)
<1>1. g.record # None /\ g.id[0] = None => g.badLoad
    BY DEF Opens, Gets
<1>2. CASE g.wire = f.wire
    BY <1>1, <1>2 DEF Named, Flight, Opens, Gets
<1>3. CASE \E q : q.kind = "get" /\ q.id # None /\ q.values = Empty /\ g.wire = f.wire \cup {q}
  <2>1. RowFits(Empty)
      BY DEF RowFits, Empty, Fields
  <2> QED BY <1>1, <1>3, <2>1 DEF Named, Flight, Opens, Gets
<1> QED BY <1>2, <1>3 DEF Opens, Gets, Asks

LEMMA NamedKept ==
    ASSUME Base, Moving
    PROVE  Named(form')
<1>0. Named(form) /\ form.wire \subseteq Request
    BY FormOfBase DEF Base
<1>1. CASE Typing \/ Asking \/ Clearing
    BY <1>0, <1>1 DEF Typing, Asking, Clearing, Relates, SameTraffic, Rests, Named, Flight, SameIds, SamePage
<1>3. CASE Relating
    BY <1>0, <1>3 DEF Relating, Relates, Named, Flight, SameIds, SamePage, Asks
<1>4. CASE SaveStarts
  <2>1. CASE SaveFails(form, form')
      BY <1>0, <2>1 DEF SaveFails, SameTraffic, SameIds, Named, Flight
  <2>2. CASE SaveAsksKeys(form, form')
      BY <1>0, <2>2 DEF SaveAsksKeys, Named, Flight
  <2>3. CASE SaveGoesOn(form, form')
    <3>1. PICK m, s : Updating(form, m) /\ GoesOn(m, form', s)
        BY <2>3 DEF SaveGoesOn
    <3>2. Named(m)
        BY <1>0, <3>1 DEF Updating, SameTraffic, SameIds, Named, Flight
    <3> QED BY <3>1, <3>2, GoingOnNamed
  <2> QED BY <1>4, <2>1, <2>2, <2>3 DEF SaveStarts
<1>5. CASE Opening \/ LoadsAgain
    BY <1>0, <1>5, OpeningNamed DEF Opening, LoadsAgain
<1>6. CASE Answering
  <2>1. CASE form'.wire = form.wire
      BY <1>0, <1>6, <2>1 DEF Answering, Rests, SameIds, Named, Flight
  <2>2. CASE \E q : Asks(form, q, "del", form.id[0]) /\ form'.wire = form.wire \cup {q}
      BY <1>0, <1>6, <2>2 DEF Answering, Rests, SameIds, Named, Flight, Asks
  <2> QED BY <1>6, <2>1, <2>2 DEF Answering
<1>7. CASE Cancelling
  <2>1. \A q \in form.wire : /\ Forgotten(q).kind = q.kind /\ Forgotten(q).id = q.id
                             /\ Forgotten(q).values = q.values
      BY <1>0 DEF Request, Forgotten
  <2> QED BY <1>0, <1>7, <2>1 DEF Cancelling, SameIds, SamePage, Named, Flight
<1>8. CASE Failing \/ Reading \/ Writing \/ Deleting
  <2>1. PICK q, a : /\ Handles(q, a)
                    /\ q.kind = "get" => a.id = q.id /\ (a.values = q.values \/ RowFits(a.values))
      BY <1>0, <1>8 DEF Failing, Reading, Writing, Deleting, Handles
  <2> QED BY <1>0, <2>1 DEF Handles, SameIds, SamePage, Named, Flight
<1>9. ASSUME NEW q \in form.wire, NEW m, Lacks(form, m, q) PROVE Named(m)
    BY <1>0, <1>9 DEF Lacks, SameIds, SamePage, Named, Flight
<1>10. CASE Dropping
    BY <1>9, <1>10 DEF Dropping
<1>11. CASE LoadsNow
  <2>1. PICK q, m : /\ q \in form.wire
                    /\ Lacks(form, m, q) /\ q.kind = "get"
                    /\ IF q.rows = 1 THEN LoadsRow(m, form', q) ELSE LoadsNone(m, form')
      BY <1>11 DEF LoadsNow
  <2>2. Named(m) /\ q.id # None /\ RowFits(q.values)
      BY <1>0, <1>9, <2>1 DEF Named, Flight
  <2>3. CASE LoadsRow(m, form', q)
      BY <2>2, <2>3 DEF LoadsRow, Named, Flight
  <2>4. CASE LoadsNone(m, form')
      BY <1>0, <2>2, <2>4 DEF LoadsNone, Named, Flight, SameTraffic
  <2> QED BY <2>1, <2>3, <2>4
<1>12. CASE JoinsNow
  <2>1. PICK q, m : /\ q \in form.wire
                    /\ Lacks(form, m, q) /\ ShowsJoined(m, form', q)
      BY <1>12 DEF JoinsNow
  <2>2. Named(m)
      BY <1>9, <2>1
  <2> QED BY <2>1, <2>2 DEF ShowsJoined, SameTraffic, SamePage, Named, Flight
<1>13. CASE KeysCome
    BY <1>9, <1>13, GoingOnNamed DEF KeysCome
<1>14. CASE SetAnswered \/ DelAnswered
  <2>1. PICK q, m : /\ q \in form.wire
                    /\ Lacks(form, m, q)
                    /\ (\E n : OpensIdle(m, form', n)) \/ GetsIdle(m, form')
      BY <1>14 DEF SetAnswered, DelAnswered
  <2>2. Named(m)
      BY <1>9, <2>1
  <2>3. ASSUME NEW h, Named(h), Idles(h, form') PROVE Named(form')
      BY <2>3 DEF Idles, SameTraffic, SameIds, Named, Flight
  <2>4. CASE \E n : OpensIdle(m, form', n)
      BY <2>2, <2>3, <2>4, OpeningNamed DEF OpensIdle
  <2>5. CASE GetsIdle(m, form')
    <3>1. PICK l, h : IsSaved(m, l) /\ Gets(l, h) /\ Idles(h, form')
        BY <2>5 DEF GetsIdle
    <3>2. Named(l)
        BY <2>2, <3>1 DEF IsSaved, SameTraffic, SameIds, SamePage, Named, Flight
    <3> QED BY <2>3, <3>1, <3>2, OpeningNamed
  <2> QED BY <2>1, <2>4, <2>5
<1>15. CASE Rejected
  <2>1. PICK q, m : /\ q \in form.wire
                    /\ Lacks(form, m, q) /\ SameIds(m, form') /\ form'.record = m.record
                    /\ form'.wire = m.wire /\ form'.decrypts = m.decrypts
      BY <1>15 DEF Rejected
  <2>2. Named(m)
      BY <1>9, <2>1
  <2> QED BY <2>1, <2>2 DEF SameIds, Named, Flight
<1>16. CASE Decrypting
    BY <1>0, <1>16 DEF Decrypting, ShowsRow, SameTraffic, SameIds, SamePage, Named, Flight
<1>17. CASE Encrypting
    BY <1>0, <1>17, SendingNamed DEF Encrypting
<1>18. CASE Unreadable
    BY <1>0, <1>18 DEF Unreadable, Named, Flight
<1>19. CASE Unencrypted
    BY <1>0, <1>19 DEF Unencrypted, SameIds, Named, Flight
<1> QED BY <1>1, <1>3, <1>4, <1>5, <1>6, <1>7, <1>8, <1>10, <1>11, <1>12, <1>13, <1>14, <1>15, <1>16, <1>17,
          <1>18, <1>19 DEF Moving

-----------------------------------------------------------------------------
(* The first part of the invariant holds, and with it the types.             *)

\* a form before it is opened for the first time
Closed(f) ==
    /\ f \in Form /\ f.wire = {} /\ f.decrypts = {} /\ f.saves = {} /\ f.record = None
    /\ f.new = Empty /\ f.old = Empty /\ f.id[0] = None /\ f.id[1] = None /\ f.key = None
    /\ f.asked = None /\ f.opened = 0 /\ ~f.badLoad /\ ~f.updatingRecord

LEMMA FirstOpens ==
    ASSUME Init
    PROVE  /\ \E f, n : Closed(f) /\ n \in Nat /\ Opens(f, form, n)
           /\ encrypted \in BOOLEAN /\ left \in [Bounded -> Nat] /\ created = {} /\ crossed = {}
<1>1. PICK c \in Cases :
        /\ encrypted = c.encrypted /\ left = c.may
        /\ form = Reset([record |-> None, loading |-> FALSE, updatingRecord |-> FALSE,
                badLoad |-> FALSE, id |-> [i \in 0 .. 1 |-> None], key |-> None,
                new |-> Empty, old |-> Empty, wire |-> {}, decrypts |-> {},
                saves |-> {}, asked |-> None, opened |-> 0], c.record)
    BY DEF Init
<1>2. c \in Case
    BY RecordFormAssumption
<1>3. encrypted \in BOOLEAN /\ left \in [Bounded -> Nat] /\ c.record \in Nat
    BY <1>1, <1>2 DEF Case
<1> DEFINE ids == [i \in 0 .. 1 |-> None]
           f == [record |-> None, loading |-> FALSE, updatingRecord |-> FALSE,
                badLoad |-> FALSE, id |-> ids, key |-> None,
                new |-> Empty, old |-> Empty, wire |-> {}, decrypts |-> {},
                saves |-> {}, asked |-> None, opened |-> 0]
<1>4. ids \in [0 .. 1 -> Nat] /\ ids[0] = None /\ ids[1] = None
    BY DEF None
<1>5. Empty \in Values
    BY DEF Empty, Values, Fields, None
<1>6. form = Reset(f, c.record)
    BY <1>1
<1> HIDE DEF ids
<1>7. f \in Form
    BY <1>4, <1>5 DEF Form, None
<1>8. Closed(f)
    BY <1>4, <1>7 DEF Closed
<1> HIDE DEF f
<1>9. Finite(f)
    BY <1>8, FS_EmptySet DEF Finite, Closed
<1>10. Opens(f, form, c.record)
    BY <1>3, <1>6, <1>7, <1>9, ResetOpens
<1>11. created = {} /\ crossed = {}
    BY DEF Init
<1> QED BY <1>3, <1>8, <1>10, <1>11

LEMMA BaseStart == ASSUME Init PROVE Base
<1>1. PICK f, n : Closed(f) /\ n \in Nat /\ Opens(f, form, n)
    BY FirstOpens
<1>2. MaxJoined \in Nat /\ MaxRecords \in Nat
    BY RecordFormAssumption
<1>3. Numbers(f)
    BY <1>1, FS_EmptySet DEF Closed, Numbers, Numbered
<1>4. Empty["ref"] = None
    BY DEF Empty, Fields
<1>5. RefsIn(f, Rel1) /\ Named(f) /\ None \in Rel1
    BY <1>1, <1>4 DEF Closed, RefsIn, Named, Flight, Rel1
<1>6. form \in Form
    BY <1>1 DEF Opens
<1>7. Numbers(form)
    BY <1>1, <1>3, OpeningNumbers
<1>8. RefsIn(form, Rel1)
    BY <1>1, <1>5, OpeningRefs
<1>9. Named(form)
    BY <1>1, <1>5, OpeningNamed
<1>13. /\ joined = [r \in 1 .. MaxJoined |-> r] /\ created = {} /\ crossed = {}
       /\ main = [r \in 1 .. MaxRecords |-> [name |-> r, ref |-> IF r <= MaxJoined THEN r ELSE None]]
    BY DEF Init
<1>14. DOMAIN joined = 1 .. MaxJoined /\ IsFiniteSet(DOMAIN joined) /\ IsFiniteSet(created)
    BY <1>2, <1>13, FS_Interval, FS_EmptySet
<1>15. /\ DOMAIN main \subseteq Nat /\ main \in [DOMAIN main -> [name: Int, ref: Nat]]
       /\ DOMAIN joined \subseteq Nat /\ joined \in [DOMAIN joined -> Int]
       /\ created \subseteq Nat \X Nat /\ crossed \subseteq Causes
    BY <1>2, <1>13 DEF None
<1>16. RecordsFit
    BY <1>2, <1>13, <1>14 DEF RecordsFit, Rel1
<1>17. encrypted \in BOOLEAN /\ left \in [Bounded -> Nat]
    BY FirstOpens
<1> QED BY <1>6, <1>7, <1>8, <1>9, <1>14, <1>15, <1>16, <1>17
        DEF Base, TypeOK, Finite, Numbers, Numbered, RefsFit

LEMMA BaseStep == ASSUME Base, Next PROVE Base'
<1>1. form' \in Form /\ Moving /\ DataFits' /\ left' \in [Bounded -> Nat] /\ crossed' \subseteq Causes
    BY Moves
<1>2. Numbers(form') /\ RefsIn(form', Rel1) /\ Named(form')
    BY <1>1, NumbersKept, RefsKept, NamedKept
<1>3. DOMAIN joined \subseteq DOMAIN joined'
  <2>1. SameData \/ Writing \/ Deleting
      BY <1>1 DEF Moving, Typing, Clearing, Relating, Relates, SaveStarts, Opening, LoadsAgain, Asking, Answering,
                  Cancelling, Failing, Reading, Dropping, LoadsNow, JoinsNow, KeysCome, SetAnswered, DelAnswered,
                  Rejected, Decrypting, Unreadable, Encrypting, Unencrypted, Arriving
  <2> QED BY <2>1 DEF SameData, data, Writing, Deleting
<1>4. Rel1 \subseteq Rel1'
    BY <1>3 DEF Rel1
<1>5. RefsFit(form)'
    BY <1>2, <1>4 DEF RefsFit, RefsIn
<1>6. Numbers(form)' /\ Finite(form)' /\ Named(form)'
    BY <1>2 DEF Numbers, Numbered, Finite, Named
<1> QED BY <1>1, <1>5, <1>6 DEF Base, TypeOK, DataFits

LEMMA BaseHolds == Spec => []Base
<1>1. Init => Base
    BY BaseStart
<1>2. Base /\ UNCHANGED vars => Base'
    BY DEF Base, TypeOK, vars, data, RecordsFit, RefsFit, RefsIn, Rel1, Flight, Named, Numbers, Finite
<1>3. Base /\ [Next]_vars => Base'
    BY <1>2, BaseStep
<1> QED BY <1>1, <1>3, PTL DEF Spec

\* The types: the form never has an undefined id or key, and every row, request and
\* save is well formed, for any number of records, saves and requests.
THEOREM TypeCorrect == Spec => []TypeOK
<1>1. Base => TypeOK
    BY DEF Base
<1> QED BY <1>1, BaseHolds, PTL

-----------------------------------------------------------------------------
(* What the history tells.                                                   *)

LEMMA HistoryGrows == ASSUME Moving PROVE crossed \subseteq crossed'
BY DEF Moving, Typing, Clearing, Relating, Relates, SaveStarts, Opening, LoadsAgain, Asking, Answering,
       Cancelling, Failing, Reading, Writing, Deleting, Dropping, LoadsNow, JoinsNow, KeysCome, SetAnswered,
       DelAnswered, Rejected, Decrypting, Unreadable, Encrypting, Unencrypted, Crosses

\* nothing is being loaded
Still(f) == f.decrypts = {} /\ \A q \in f.wire : q.known => q.kind \notin {"get", "sub"}

LEMMA LoadsOrStill == Loads \/ Still(form)
BY DEF Loads, Pending, Still

LEMMA NotSwitched ==
    ASSUME Crosses(Switches), "switched" \notin crossed'
    PROVE  Still(form) /\ form.saves = {}
BY LoadsOrStill DEF Crosses, Switches

LEMMA NotEarly ==
    ASSUME Crosses(Early), "early" \notin crossed'
    PROVE  Still(form) /\ ~form.badLoad
BY LoadsOrStill DEF Crosses, Early

LEMMA NotAsked ==
    ASSUME Crosses(AskedThen), "asked" \notin crossed'
    PROVE  form.asked = None
BY DEF Crosses, AskedThen

LEMMA CrossesBoth ==
    ASSUME NEW A, NEW B, Crosses(A \cup B)
    PROVE  Crosses(A) /\ Crosses(B)
BY DEF Crosses

-----------------------------------------------------------------------------
(* There is one attempt to save or delete at a time.                         *)

Tried == {"set", "del", "keys"}
Tries(f, x) == (x \in f.wire /\ x.kind \in Tried) \/ x \in f.saves

OneAttempt(f) ==
    /\ ~f.updatingRecord => \A x : ~Tries(f, x)
    /\ \A x, y : Tries(f, x) /\ Tries(f, y) => x.nr = y.nr
    /\ f.asked # None => ~f.updatingRecord

SavesOnce == crossed \cap {"function", "asked"} = {} => OneAttempt(form)

LEMMA AttemptRests ==
    ASSUME NEW f, NEW g, OneAttempt(f), g.updatingRecord = f.updatingRecord, g.asked = f.asked,
           \A x : Tries(g, x) => Tries(f, x)
    PROVE  OneAttempt(g)
BY DEF OneAttempt

\* an attempt that goes on is the only one
LEMMA AttemptGoesOn ==
    ASSUME NEW f, NEW g, NEW s, GoesOn(f, g, s), f.updatingRecord, f.asked = None,
           f.saves \subseteq {s}, \A x \in f.wire : x.kind \notin Tried
    PROVE  OneAttempt(g)
<1>0. g.updatingRecord /\ g.asked = None
    BY DEF GoesOn, Encrypts, SendsSet, SamePage
<1>1. CASE Encrypts(f, g, s)
  <2>1. PICK t : g.saves = (f.saves \ {s}) \cup {t} /\ g.wire = f.wire
      BY <1>1 DEF Encrypts
  <2>2. \A x : Tries(g, x) => x = t
      BY <2>1 DEF Tries
  <2> QED BY <1>0, <2>2 DEF OneAttempt
<1>2. CASE SendsSet(f, g, s.first, f.id[0], f.new["name"], None, s.opened, s.shown, s.changed, s.before, f.saves \ {s})
  <2>1. PICK q : g.saves = f.saves \ {s} /\ g.wire = f.wire \cup {q}
      BY <1>2 DEF SendsSet
  <2>2. \A x : Tries(g, x) => x = q
      BY <2>1 DEF Tries
  <2> QED BY <1>0, <2>2 DEF OneAttempt
<1> QED BY <1>1, <1>2 DEF GoesOn

LEMMA AttemptOpens ==
    ASSUME NEW f, NEW g, NEW n, Opens(f, g, n) \/ Gets(f, g), OneAttempt(f)
    PROVE  OneAttempt(g)
<1>1. /\ g.updatingRecord = f.updatingRecord /\ g.asked = f.asked /\ g.saves = f.saves
      /\ \A q \in g.wire : q \in f.wire \/ q.kind = "get"
    BY DEF Opens, Gets, Asks
<1> QED BY <1>1, AttemptRests DEF Tries, Tried

\* beside a request to save or delete there is no attempt, beside one for keys the save
LEMMA Alone ==
    ASSUME Base, OneAttempt(form), NEW q \in form.wire, q.kind \in Tried
    PROVE  /\ form.updatingRecord /\ form.asked = None
           /\ \A x \in form.wire : x.kind \in Tried => x = q
           /\ q.kind # "keys" => form.saves = {}
           /\ \A s \in form.saves : s.nr = q.nr
<1>1. Tries(form, q)
    BY DEF Tries
<1>2. form.updatingRecord /\ form.asked = None
    BY <1>1 DEF OneAttempt
<1>3. \A x \in form.wire : x.kind \in Tried => x = q
    BY <1>1 DEF OneAttempt, Tries, Base, Numbers, Numbered
<1>4. \A s \in form.saves : s.nr = q.nr
    BY <1>1 DEF OneAttempt, Tries
<1>5. q.kind # "keys" => form.saves = {}
    BY <1>4 DEF Base, Numbers, Numbered
<1> QED BY <1>2, <1>3, <1>4, <1>5

LEMMA AttemptKept ==
    ASSUME Base, Moving, crossed' \cap {"function", "asked"} = {}, OneAttempt(form)
    PROVE  OneAttempt(form')
<1>0. /\ "asked" \notin crossed' /\ "function" \notin crossed' /\ form.wire \subseteq Request
      /\ Numbers(form)
    BY FormOfBase DEF Base
<1>1. CASE Typing \/ Clearing
    BY <1>1, AttemptRests DEF Typing, Clearing, Relates, SameTraffic, SamePage, Tries
<1>2. CASE Relating
  <2>1. PICK q : /\ q.kind = "sub" /\ form'.wire = form.wire \cup {q} /\ form'.saves = form.saves
                 /\ form'.updatingRecord = form.updatingRecord /\ form'.asked = form.asked
      BY <1>2 DEF Relating, Relates, Asks, SamePage
  <2> QED BY <2>1, AttemptRests DEF Tries, Tried
<1>3. CASE SaveStarts
  <2>1. form.asked = None /\ ~form.updatingRecord
      BY <1>0, <1>3, CrossesBoth, NotAsked DEF SaveStarts, CanUpdate
  <2>2. form.saves = {} /\ \A x \in form.wire : x.kind \notin Tried
      BY <2>1 DEF OneAttempt, Tries
  <2>3. CASE SaveFails(form, form')
      BY <2>2, <2>3 DEF SaveFails, SameTraffic, OneAttempt, Tries
  <2>4. CASE SaveAsksKeys(form, form')
    <3>1. PICK s, q : q.nr = s.nr /\ form'.saves = form.saves \cup {s} /\ form'.wire = form.wire \cup {q}
        BY <2>4 DEF SaveAsksKeys
    <3>2. \A x : Tries(form', x) => x.nr = s.nr
        BY <2>2, <3>1 DEF Tries
    <3> QED BY <2>1, <2>4, <3>2 DEF SaveAsksKeys, OneAttempt
  <2>5. CASE SaveGoesOn(form, form')
    <3>1. PICK m, s : Updating(form, m) /\ GoesOn(m, form', s)
        BY <2>5 DEF SaveGoesOn
    <3>2. m.updatingRecord /\ m.asked = None /\ m.saves \subseteq {s} /\ \A x \in m.wire : x.kind \notin Tried
        BY <2>1, <2>2, <3>1 DEF Updating, SameTraffic
    <3> QED BY <3>1, <3>2, AttemptGoesOn
  <2> QED BY <1>3, <2>3, <2>4, <2>5 DEF SaveStarts
<1>4. CASE Opening \/ LoadsAgain
    BY <1>4, AttemptOpens DEF Opening, LoadsAgain
<1>5. CASE Asking
    BY <1>5 DEF Asking, Rests, CanUpdate, OneAttempt, Tries
<1>6. CASE Answering
  <2>1. form.saves = {} /\ \A x \in form.wire : x.kind \notin Tried
      BY <1>6 DEF Answering, OneAttempt, Tries
  <2>2. CASE form'.wire = form.wire
      BY <1>6, <2>1, <2>2 DEF Answering, Rests, OneAttempt, Tries
  <2>3. CASE \E q : form'.wire = form.wire \cup {q} /\ form'.updatingRecord
    <3>1. PICK q : form'.wire = form.wire \cup {q}
        BY <2>3
    <3>2. \A x : Tries(form', x) => x = q
        BY <1>6, <2>1, <3>1 DEF Answering, Rests, Tries
    <3> QED BY <1>6, <2>3, <3>2 DEF Answering, OneAttempt
  <2> QED BY <1>6, <2>2, <2>3 DEF Answering
<1>7. CASE Cancelling
  <2>1. \A q \in form.wire : Forgotten(q).kind = q.kind /\ Forgotten(q).nr = q.nr
      BY <1>0 DEF Request, Forgotten
  <2>2. \A x : Tries(form', x) => \E y : Tries(form, y) /\ y.nr = x.nr
      BY <1>7, <2>1 DEF Cancelling, Tries
  <2> QED BY <1>7, <2>2 DEF Cancelling, SamePage, OneAttempt
<1>8. CASE Failing \/ Reading \/ Writing \/ Deleting
  <2>1. PICK q, a : Handles(q, a)
      BY <1>8 DEF Failing, Reading, Writing, Deleting
  <2>2. \A x : Tries(form', x) => \E y : Tries(form, y) /\ y.nr = x.nr
      BY <2>1 DEF Handles, Tries
  <2> QED BY <2>1, <2>2 DEF Handles, SamePage, OneAttempt
<1>9. ASSUME NEW q \in form.wire, NEW m, Lacks(form, m, q) PROVE OneAttempt(m)
    BY <1>9, AttemptRests DEF Lacks, SamePage, Tries
<1>10. CASE Dropping
    BY <1>9, <1>10 DEF Dropping
<1>11. CASE LoadsNow
  <2>1. PICK q, m : /\ q \in form.wire
                    /\ Lacks(form, m, q)
                    /\ IF q.rows = 1 THEN LoadsRow(m, form', q) ELSE LoadsNone(m, form')
      BY <1>11 DEF LoadsNow
  <2>2. /\ form'.wire = m.wire /\ form'.saves = m.saves
        /\ form'.updatingRecord = m.updatingRecord /\ form'.asked = m.asked
      BY <2>1 DEF LoadsRow, LoadsNone, SameTraffic, SamePage
  <2> QED BY <1>9, <2>1, <2>2, AttemptRests DEF Tries
<1>12. CASE JoinsNow
    BY <1>9, <1>12, AttemptRests DEF JoinsNow, ShowsJoined, SameTraffic, SamePage, Tries
<1>13. CASE KeysCome
  <2>1. PICK q, s, m : /\ q \in form.wire /\ s \in form.saves
                       /\ q.kind = "keys" /\ Lacks(form, m, q) /\ s.nr = q.nr /\ GoesOn(m, form', s)
      BY <1>13 DEF KeysCome
  <2>2. /\ form.updatingRecord /\ form.asked = None /\ \A x \in form.wire : x.kind \in Tried => x = q
        /\ \A x \in form.saves : x.nr = q.nr
      BY <2>1, Alone DEF Tried
  <2>3. form.saves \subseteq {s}
      BY <1>0, <2>1, <2>2 DEF Numbers, Numbered
  <2>4. /\ m.updatingRecord /\ m.asked = None /\ m.saves \subseteq {s}
        /\ \A x \in m.wire : x.kind \notin Tried
      BY <2>1, <2>2, <2>3 DEF Lacks, SamePage
  <2> QED BY <2>1, <2>4, AttemptGoesOn
<1>14. CASE SetAnswered \/ DelAnswered
  <2>1. PICK q, m : /\ q \in form.wire
                    /\ q.kind \in {"set", "del"} /\ Lacks(form, m, q)
                    /\ (\E n : OpensIdle(m, form', n)) \/ GetsIdle(m, form')
      BY <1>14 DEF SetAnswered, DelAnswered
  <2>2. form.saves = {} /\ \A x \in form.wire : x.kind \in Tried => x = q
      BY <2>1, Alone DEF Tried
  <2>3. m.saves = {} /\ \A x \in m.wire : x.kind \notin Tried
      BY <2>1, <2>2 DEF Lacks
  <2>4. /\ ~form'.updatingRecord /\ form'.saves = {} /\ \A x \in form'.wire : x \in m.wire \/ x.kind = "get"
    <3>1. CASE \E n : OpensIdle(m, form', n)
        BY <2>3, <3>1 DEF OpensIdle, Opens, Idles, SameTraffic
    <3>2. CASE GetsIdle(m, form')
        BY <2>3, <3>2 DEF GetsIdle, IsSaved, Gets, Asks, Idles, SameTraffic
    <3> QED BY <2>1, <3>1, <3>2
  <2> QED BY <2>3, <2>4 DEF OneAttempt, Tries, Tried
<1>15. CASE Rejected
  <2>1. PICK q, m : /\ q \in form.wire
                    /\ q.kind \in {"set", "del", "keys"} /\ Lacks(form, m, q) /\ ~form'.updatingRecord
                    /\ form'.wire = m.wire
                    /\ form'.saves = IF q.kind = "keys" THEN {s \in form.saves : s.nr # q.nr} ELSE form.saves
      BY <1>15 DEF Rejected
  <2>2. /\ \A x \in form.wire : x.kind \in Tried => x = q
        /\ q.kind # "keys" => form.saves = {}
        /\ \A s \in form.saves : s.nr = q.nr
      BY <2>1, Alone DEF Tried
  <2>3. form'.saves = {} /\ \A x \in form'.wire : x.kind \notin Tried
      BY <2>1, <2>2 DEF Lacks
  <2> QED BY <2>1, <2>3 DEF OneAttempt, Tries
<1>16. CASE Decrypting
    BY <1>16, AttemptRests DEF Decrypting, ShowsRow, SameTraffic, SamePage, Tries
<1>17. CASE Encrypting
  <2>1. PICK s \in form.saves : 
             /\ s.step = "encrypt"
             /\ SendsSet(form, form', s.first, s.id, s.name, s.keyOf, s.opened, s.shown, s.changed, s.before, form.saves \ {s})
      BY <1>17 DEF Encrypting
  <2>2. form.updatingRecord /\ form.asked = None
      BY DEF OneAttempt, Tries
  <2>3. form.saves \subseteq {s}
      BY <1>0 DEF OneAttempt, Tries, Numbers, Numbered
  <2>4. \A x \in form.wire : x.kind \notin Tried
      BY <1>0, <2>1 DEF OneAttempt, Tries, Numbers, Numbered
  <2>5. PICK q : form'.wire = form.wire \cup {q} /\ form'.saves = form.saves \ {s}
      BY <2>1 DEF SendsSet
  <2>6. \A x : Tries(form', x) => x = q
      BY <2>3, <2>4, <2>5 DEF Tries
  <2> QED BY <2>1, <2>2, <2>6 DEF SendsSet, SamePage, OneAttempt
<1>18. CASE Unreadable
    BY <1>18, AttemptRests DEF Unreadable, SamePage, Tries
<1>19. CASE Unencrypted
  <2>1. PICK s \in form.saves :
             /\ s.step = "encrypt" /\ ~form'.updatingRecord
             /\ form'.wire = form.wire /\ form'.saves = form.saves \ {s}
      BY <1>19 DEF Unencrypted
  <2>2. form'.saves = {}
      BY <1>0, <2>1 DEF OneAttempt, Tries, Numbers, Numbered
  <2>3. \A x \in form.wire : x.kind \notin Tried
      BY <1>0, <2>1 DEF OneAttempt, Tries, Numbers, Numbered
  <2> QED BY <2>1, <2>2, <2>3 DEF OneAttempt, Tries
<1> QED BY <1>1, <1>2, <1>3, <1>4, <1>5, <1>6, <1>7, <1>8, <1>10, <1>11, <1>12, <1>13, <1>14, <1>15, <1>16, <1>17,
          <1>18, <1>19 DEF Moving

\* Nothing is forgotten unless it is cancelled, and what is updated is attempted.
Attempted(f) ==
    /\ \A q \in f.wire : q.known
    /\ f.updatingRecord => \E x : Tries(f, x)

AttemptsEnd == crossed \cap {"cancel"} = {} => Attempted(form)

LEMMA AttemptedRests ==
    ASSUME NEW f, NEW g, Attempted(f), g.updatingRecord = f.updatingRecord, g.saves = f.saves,
           \A q \in g.wire : q.known,
           \A q \in f.wire : q \in g.wire \/ q.kind \notin Tried
    PROVE  Attempted(g)
BY DEF Attempted, Tries

LEMMA AttemptedGoesOn ==
    ASSUME NEW f, NEW g, NEW s, GoesOn(f, g, s), \A q \in f.wire : q.known
    PROVE  Attempted(g)
<1>1. CASE Encrypts(f, g, s)
    BY <1>1 DEF Encrypts, Attempted, Tries
<1>2. CASE SendsSet(f, g, s.first, f.id[0], f.new["name"], None, s.opened, s.shown, s.changed, s.before, f.saves \ {s})
    BY <1>2 DEF SendsSet, Attempted, Tries, Tried
<1> QED BY <1>1, <1>2 DEF GoesOn

LEMMA AttemptedOpens ==
    ASSUME NEW f, NEW g, NEW n, Opens(f, g, n) \/ Gets(f, g), Attempted(f)
    PROVE  Attempted(g)
<1>1. /\ g.updatingRecord = f.updatingRecord /\ g.saves = f.saves
      /\ f.wire \subseteq g.wire
      /\ \A q \in g.wire : q \in f.wire \/ q.known
    BY DEF Opens, Gets, Asks
<1> QED BY <1>1, AttemptedRests DEF Attempted

LEMMA AttemptedKept ==
    ASSUME Base, Moving, "cancel" \notin crossed', Attempted(form)
    PROVE  Attempted(form')
<1>1. CASE Typing \/ Clearing
    BY <1>1, AttemptedRests DEF Typing, Clearing, Relates, SameTraffic, SamePage, Attempted
<1>2. CASE Relating
  <2>1. PICK q : /\ q.known /\ form'.wire = form.wire \cup {q} /\ form'.saves = form.saves
                 /\ form'.updatingRecord = form.updatingRecord
      BY <1>2 DEF Relating, Relates, Asks, SamePage
  <2> QED BY <2>1, AttemptedRests DEF Attempted
<1>3. CASE SaveStarts
  <2>1. CASE SaveFails(form, form')
      BY <2>1 DEF SaveFails, SameTraffic, Attempted
  <2>2. CASE SaveAsksKeys(form, form')
      BY <2>2 DEF SaveAsksKeys, Attempted, Tries
  <2>3. CASE SaveGoesOn(form, form')
    <3>1. PICK m, s : Updating(form, m) /\ GoesOn(m, form', s)
        BY <2>3 DEF SaveGoesOn
    <3> QED BY <3>1, AttemptedGoesOn DEF Updating, SameTraffic, Attempted
  <2> QED BY <1>3, <2>1, <2>2, <2>3 DEF SaveStarts
<1>4. CASE Opening \/ LoadsAgain
    BY <1>4, AttemptedOpens DEF Opening, LoadsAgain
<1>5. CASE Asking
    BY <1>5 DEF Asking, Rests, Attempted, Tries
<1>6. CASE Answering
  <2>1. CASE form'.wire = form.wire /\ (~form'.updatingRecord \/ form'.updatingRecord = form.updatingRecord)
      BY <1>6, <2>1 DEF Answering, Rests, Attempted, Tries
  <2>2. CASE \E q : Asks(form, q, "del", form.id[0]) /\ form'.wire = form.wire \cup {q}
      BY <1>6, <2>2 DEF Answering, Rests, Asks, Attempted, Tries, Tried
  <2> QED BY <1>6, <2>1, <2>2 DEF Answering
<1>7. CASE Cancelling
    BY <1>7 DEF Cancelling, Crosses
<1>8. CASE Failing \/ Reading \/ Writing \/ Deleting
  <2>1. PICK q, a : Handles(q, a)
      BY <1>8 DEF Failing, Reading, Writing, Deleting
  <2>2. \A x : Tries(form, x) => \E y : Tries(form', y)
      BY <2>1 DEF Handles, Tries
  <2> QED BY <2>1, <2>2 DEF Handles, SamePage, Attempted
<1>9. ASSUME NEW q \in form.wire, NEW m, Lacks(form, m, q), q.kind \notin Tried PROVE Attempted(m)
    BY <1>9, AttemptedRests DEF Lacks, SamePage, Attempted
<1>10. CASE Dropping
    BY <1>9, <1>10 DEF Dropping, Attempted, Tried
<1>11. CASE LoadsNow
  <2>1. PICK q, m : /\ q \in form.wire
                    /\ Lacks(form, m, q) /\ q.kind = "get"
                    /\ IF q.rows = 1 THEN LoadsRow(m, form', q) ELSE LoadsNone(m, form')
      BY <1>11 DEF LoadsNow
  <2>2. form'.wire = m.wire /\ form'.saves = m.saves /\ form'.updatingRecord = m.updatingRecord
      BY <2>1 DEF LoadsRow, LoadsNone, SameTraffic, SamePage
  <2> QED BY <1>9, <2>1, <2>2, AttemptedRests DEF Attempted, Tried
<1>12. CASE JoinsNow
  <2>1. PICK q, m : /\ q \in form.wire
                    /\ q.kind = "sub" /\ Lacks(form, m, q) /\ ShowsJoined(m, form', q)
      BY <1>12 DEF JoinsNow
  <2> QED BY <1>9, <2>1, AttemptedRests DEF ShowsJoined, SameTraffic, SamePage, Attempted, Tried
<1>13. CASE KeysCome
    BY <1>13, AttemptedGoesOn DEF KeysCome, Lacks, Attempted
<1>14. CASE SetAnswered \/ DelAnswered
  <2>1. PICK q, m : /\ q \in form.wire
                    /\ Lacks(form, m, q) /\ ((\E n : OpensIdle(m, form', n)) \/ GetsIdle(m, form'))
      BY <1>14 DEF SetAnswered, DelAnswered
  <2>2. ~form'.updatingRecord /\ \A x \in form'.wire : x \in m.wire \/ x.known
    <3>1. CASE \E n : OpensIdle(m, form', n)
        BY <3>1 DEF OpensIdle, Opens, Idles, SameTraffic
    <3>2. CASE GetsIdle(m, form')
        BY <3>2 DEF GetsIdle, IsSaved, Gets, Asks, Idles, SameTraffic
    <3> QED BY <2>1, <3>1, <3>2
  <2> QED BY <2>1, <2>2 DEF Lacks, Attempted
<1>15. CASE Rejected
    BY <1>15 DEF Rejected, Lacks, Attempted
<1>16. CASE Decrypting
    BY <1>16, AttemptedRests DEF Decrypting, ShowsRow, SameTraffic, SamePage, Attempted
<1>17. CASE Encrypting
  <2>1. PICK q : q.kind = "set" /\ q.known /\ form'.wire = form.wire \cup {q}
      BY <1>17 DEF Encrypting, SendsSet
  <2>2. Tries(form', q)
      BY <2>1 DEF Tries, Tried
  <2> QED BY <2>1, <2>2 DEF Attempted
<1>18. CASE Unreadable
    BY <1>18, AttemptedRests DEF Unreadable, SamePage, Attempted
<1>19. CASE Unencrypted
    BY <1>19 DEF Unencrypted, Attempted
<1> QED BY <1>1, <1>2, <1>3, <1>4, <1>5, <1>6, <1>7, <1>8, <1>10, <1>11, <1>12, <1>13, <1>14, <1>15, <1>16, <1>17,
          <1>18, <1>19 DEF Moving

LEMMA OneAttemptHolds == Spec => [](Base /\ SavesOnce)
<1>1. Init => SavesOnce
  <2> SUFFICES ASSUME Init PROVE OneAttempt(form)
      BY DEF SavesOnce
  <2>1. PICK f, n : Closed(f) /\ Opens(f, form, n)
      BY FirstOpens
  <2>2. OneAttempt(f)
      BY <2>1 DEF Closed, OneAttempt, Tries
  <2> QED BY <2>1, <2>2, AttemptOpens
<1>2. Base /\ SavesOnce /\ [Next]_vars => SavesOnce'
  <2>1. CASE UNCHANGED vars
      BY <2>1 DEF vars, SavesOnce, OneAttempt, Tries
  <2>2. ASSUME Base, SavesOnce, Next, crossed' \cap {"function", "asked"} = {}
        PROVE  OneAttempt(form')
    <3>1. Moving
        BY <2>2, Moves
    <3>2. crossed \cap {"function", "asked"} = {}
        BY <2>2, <3>1, HistoryGrows
    <3> QED BY <2>2, <3>1, <3>2, AttemptKept DEF SavesOnce
  <2>3. ASSUME Base, SavesOnce, Next PROVE SavesOnce'
      BY <2>2, <2>3 DEF SavesOnce, OneAttempt, Tries
  <2> QED BY <2>1, <2>3
<1> QED BY <1>1, <1>2, BaseHolds, PTL DEF Spec

\* 'updatingRecord' is on exactly as long as a save or deletion is attempted, unless one
\* was cancelled, a function saved, or a record was opened while the user was asked.
THEOREM UpdatingMeansAttempt == Spec => []UpdatingIsAttempted
<1>1. Init => AttemptsEnd
  <2> SUFFICES ASSUME Init PROVE Attempted(form)
      BY DEF AttemptsEnd
  <2>1. PICK f, n : Closed(f) /\ Opens(f, form, n)
      BY FirstOpens
  <2>2. Attempted(f)
      BY <2>1 DEF Closed, Attempted, Tries
  <2> QED BY <2>1, <2>2, AttemptedOpens
<1>2. Base /\ AttemptsEnd /\ [Next]_vars => AttemptsEnd'
  <2>1. CASE UNCHANGED vars
      BY <2>1 DEF vars, AttemptsEnd, Attempted, Tries
  <2>2. ASSUME Base, AttemptsEnd, Next, "cancel" \notin crossed'
        PROVE  Attempted(form')
    <3>1. Moving
        BY <2>2, Moves
    <3>2. "cancel" \notin crossed
        BY <2>2, <3>1, HistoryGrows
    <3> QED BY <2>2, <3>1, <3>2, AttemptedKept DEF AttemptsEnd
  <2>3. ASSUME Base, AttemptsEnd, Next PROVE AttemptsEnd'
      BY <2>2, <2>3 DEF AttemptsEnd, Attempted, Tries
  <2> QED BY <2>1, <2>3
<1>3. SavesOnce /\ AttemptsEnd => UpdatingIsAttempted
  <2> SUFFICES ASSUME SavesOnce, AttemptsEnd, crossed \cap {"cancel", "function", "asked"} = {}
               PROVE  form.updatingRecord <=> Pending(form, {"set", "del", "keys"}) \/ form.saves # {}
      BY DEF UpdatingIsAttempted
  <2>1. OneAttempt(form) /\ Attempted(form)
      BY DEF SavesOnce, AttemptsEnd
  <2>2. form.updatingRecord => Pending(form, {"set", "del", "keys"}) \/ form.saves # {}
      BY <2>1 DEF Attempted, Tries, Tried, Pending
  <2>3. Pending(form, {"set", "del", "keys"}) \/ form.saves # {} => form.updatingRecord
      BY <2>1 DEF OneAttempt, Tries, Tried, Pending
  <2> QED BY <2>2, <2>3
<1> QED BY <1>1, <1>2, <1>3, BaseHolds, OneAttemptHolds, PTL DEF Spec

-----------------------------------------------------------------------------
(* A new form creates one record.                                            *)

\* nothing was created by the n-th opening
Fresh(C, n) == \A c \in C : c[1] # n

\* a save that may create a record
Creating(f, x) ==
    \/ x \in f.wire /\ x.kind = "set" /\ x.state = "asked" /\ x.id = None
    \/ x \in f.saves /\ (x.step = "keys" \/ x.id = None)

\* A form of a new record that has created one waits for the answer, then it is opened
\* for that record or anew.
CreatesOne(f, C) ==
    /\ \A c \in C : c[1] <= f.opened
    /\ \A x : Tries(f, x) => x.opened <= f.opened
    /\ \A x : Creating(f, x) => Fresh(C, x.opened)
    /\ f.record = None /\ ~Fresh(C, f.opened) =>
        /\ f.updatingRecord /\ f.saves = {}
        /\ \A q \in f.wire : q.kind \in Tried => q.kind = "set" /\ q.state = "done"
    /\ \A a, b \in C : a[1] = b[1] => a = b

CreatesWhileNew == crossed \cap {"function", "asked"} = {} => CreatesOne(form, created)

LEMMA CreatesRests ==
    ASSUME NEW f, NEW g, NEW C, CreatesOne(f, C), g.opened = f.opened, g.record = f.record,
           g.updatingRecord = f.updatingRecord, g.saves \subseteq f.saves,
           \A q \in g.wire : q \in f.wire \/ q.kind \in {"get", "sub"}
    PROVE  CreatesOne(g, C)
<1>1. \A x : Tries(g, x) => Tries(f, x)
    BY DEF Tries, Tried
<1>2. \A x : Creating(g, x) => Creating(f, x)
    BY DEF Creating
<1> QED BY <1>1, <1>2 DEF CreatesOne, Tried

\* a form that has created nothing yet, or of a record, goes on with an attempt
LEMMA CreatesGoesOn ==
    ASSUME NEW f, NEW g, NEW C, CreatesOne(f, C), g.opened = f.opened, g.record = f.record,
           f.record = None => Fresh(C, f.opened),
           \A x : Tries(g, x) => x.opened <= f.opened,
           \A x : Creating(g, x) => Fresh(C, x.opened)
    PROVE  CreatesOne(g, C)
BY DEF CreatesOne

LEMMA GoingOnTries ==
    ASSUME NEW f, NEW g, NEW s, GoesOn(f, g, s)
    PROVE  /\ \A x : Tries(g, x) => Tries(f, x) \/ x.opened = s.opened
           /\ \A x : Creating(g, x) => Creating(f, x) \/ (x.opened = s.opened /\ f.id[0] = None)
<1>1. CASE Encrypts(f, g, s)
  <2>1. PICK t : /\ t.step = "encrypt" /\ t.id = f.id[0] /\ t.opened = s.opened
                 /\ g.saves = (f.saves \ {s}) \cup {t} /\ g.wire = f.wire
      BY <1>1 DEF Encrypts
  <2> QED BY <2>1 DEF Tries, Creating
<1>2. CASE SendsSet(f, g, s.first, f.id[0], f.new["name"], None, s.opened, s.shown, s.changed, s.before, f.saves \ {s})
  <2>1. PICK q : q.id = f.id[0] /\ q.opened = s.opened /\ g.saves = f.saves \ {s} /\ g.wire = f.wire \cup {q}
      BY <1>2 DEF SendsSet
  <2> QED BY <2>1 DEF Tries, Creating
<1> QED BY <1>1, <1>2 DEF GoesOn

LEMMA CreatesOpens ==
    ASSUME NEW f, NEW g, NEW n, Opens(f, g, n), f \in Form, NEW C, C \subseteq Nat \X Nat, CreatesOne(f, C)
    PROVE  CreatesOne(g, C)
<1>1. /\ g.opened = f.opened + 1 /\ g.saves = f.saves
      /\ \A q \in g.wire : q \in f.wire \/ q.kind = "get"
    BY DEF Opens
<1>2. f.opened \in Nat /\ \A c \in C : c[1] \in Nat
    BY DEF Form
<1>3. \A x : Tries(f, x) => x.opened \in Nat
    BY DEF Tries, Form, Request, Save
<1>4. Fresh(C, g.opened) /\ \A c \in C : c[1] <= g.opened
    BY <1>1, <1>2 DEF CreatesOne, Fresh
<1>5. \A x : Tries(g, x) => Tries(f, x)
    BY <1>1 DEF Tries, Tried
<1>6. \A x : Creating(g, x) => Creating(f, x)
    BY <1>1 DEF Creating
<1>7. \A x : Tries(g, x) => x.opened <= g.opened
    BY <1>1, <1>2, <1>3, <1>5 DEF CreatesOne
<1> QED BY <1>4, <1>6, <1>7 DEF CreatesOne

LEMMA CreatesGets ==
    ASSUME NEW f, NEW g, Gets(f, g), NEW C, CreatesOne(f, C)
    PROVE  CreatesOne(g, C)
<1>1. /\ g.opened = f.opened /\ g.saves = f.saves /\ g.record = f.record /\ g.updatingRecord = f.updatingRecord
      /\ \A q \in g.wire : q \in f.wire \/ q.kind = "get"
    BY DEF Gets, Asks
<1> QED BY <1>1, CreatesRests

\* the server creates a record
LEMMA CreatesWrites ==
    ASSUME Base, Writing, OneAttempt(form), CreatesOne(form, created)
    PROVE  CreatesOne(form', created')
<1>0. form \in Form /\ created \subseteq Nat \X Nat /\ form.opened \in Nat
    BY FormOfBase, DataOfBase
<1>1. PICK q, a : /\ Handles(q, a) /\ a.state = "done" /\ q.kind = "set"
                  /\ created' = IF q.id = None THEN created \cup {<<q.opened, a.id>>} ELSE created
    BY DEF Writing
<1>2. /\ q \in form.wire /\ q.state = "asked" /\ a.kind = "set" /\ a.opened = q.opened
      /\ form'.wire = (form.wire \ {q}) \cup {a} /\ form'.saves = form.saves /\ form'.record = form.record
      /\ form'.opened = form.opened /\ form'.updatingRecord = form.updatingRecord
    BY <1>1 DEF Handles, SamePage
<1>3. /\ form.updatingRecord /\ form.saves = {} /\ \A x \in form.wire : x.kind \in Tried => x = q
    BY <1>1, <1>2, Alone DEF Tried
<1>4. form.record = None => Fresh(created, form.opened)
    BY <1>1, <1>2, <1>3 DEF CreatesOne, Tries, Tried
<1>5. \A x : Tries(form', x) => x = a
    BY <1>2, <1>3 DEF Tries
<1>6. \A x : ~Creating(form', x)
    BY <1>1, <1>2, <1>3 DEF Creating, Tried
<1>7. CASE q.id # None
    BY <1>1, <1>2, <1>4, <1>5, <1>6, <1>7 DEF CreatesOne, Tries, Tried
<1>8. CASE q.id = None
  <2> DEFINE c == <<q.opened, a.id>>
  <2>1. created' = created \cup {c} /\ c[1] = q.opened
      BY <1>1, <1>8
  <2> HIDE DEF c
  <2>2. Fresh(created, q.opened)
      BY <1>1, <1>2, <1>8 DEF CreatesOne, Creating
  <2>3. \A x, y \in created' : x[1] = y[1] => x = y
      BY <2>1, <2>2 DEF CreatesOne, Fresh
  <2>4. q.opened <= form.opened
      BY <1>1, <1>2 DEF CreatesOne, Tries, Tried
  <2>5. \A x \in created' : x[1] <= form'.opened
      BY <1>2, <2>1, <2>4 DEF CreatesOne
  <2>6. /\ form'.updatingRecord /\ form'.saves = {}
        /\ \A x \in form'.wire : x.kind \in Tried => x.kind = "set" /\ x.state = "done"
      BY <1>1, <1>2, <1>3
  <2>7. \A x : Tries(form', x) => x.opened <= form'.opened
      BY <1>2, <1>5, <2>4
  <2> QED BY <1>6, <2>3, <2>5, <2>6, <2>7 DEF CreatesOne
<1> QED BY <1>7, <1>8

LEMMA CreatesKept ==
    ASSUME Base, Moving, crossed' \cap {"function", "asked"} = {}, OneAttempt(form), CreatesOne(form, created)
    PROVE  CreatesOne(form', created')
<1>0. /\ "asked" \notin crossed' /\ "function" \notin crossed' /\ form.wire \subseteq Request
      /\ Numbers(form) /\ Named(form) /\ created \subseteq Nat \X Nat /\ form.opened \in Nat /\ form \in Form
    BY FormOfBase, DataOfBase DEF Base
<1>a. SameData => created' = created
    BY DEF SameData, data
<1>1. CASE Typing \/ Clearing
  <2>1. created' = created
      BY <1>1, <1>a DEF Typing, Clearing, Relates
  <2> QED BY <1>1, <2>1, CreatesRests DEF Typing, Clearing, Relates, SameTraffic, SamePage
<1>2. CASE Relating
  <2>1. PICK q : /\ q.kind = "sub" /\ form'.wire = form.wire \cup {q} /\ form'.saves = form.saves
                 /\ form'.updatingRecord = form.updatingRecord /\ form'.opened = form.opened
                 /\ form'.record = form.record
      BY <1>2 DEF Relating, Relates, Asks, SamePage
  <2>2. created' = created
      BY <1>2, <1>a DEF Relating, Relates
  <2> QED BY <2>1, <2>2, CreatesRests
<1>3. CASE SaveStarts
  <2>1. /\ ~form.updatingRecord /\ ~form.badLoad /\ created' = created
      BY <1>0, <1>3, <1>a DEF SaveStarts, CanUpdate
  <2>2. form.record = None => Fresh(created, form.opened)
      BY <2>1 DEF CreatesOne
  <2>3. form.id[0] = None => Fresh(created, form.opened)
      BY <1>0, <2>1, <2>2 DEF Named
  <2>4. \A x : ~Tries(form, x)
      BY <2>1 DEF OneAttempt
  <2>5. \A x : ~Creating(form, x)
      BY <2>4 DEF Creating, Tries, Tried
  <2>6. CASE SaveFails(form, form')
    <3>1. \A x : ~Tries(form', x) /\ ~Creating(form', x)
        BY <2>4, <2>5, <2>6 DEF SaveFails, SameTraffic, Tries, Creating
    <3> QED BY <2>1, <2>2, <2>6, <3>1, CreatesGoesOn DEF SaveFails
  <2>7. CASE SaveAsksKeys(form, form')
    <3>1. PICK s, q : /\ Saves(form, s) /\ q.kind = "keys" /\ q.opened = form.opened
                      /\ form'.saves = form.saves \cup {s} /\ form'.wire = form.wire \cup {q}
        BY <2>7 DEF SaveAsksKeys
    <3>2. s.opened = form.opened
        BY <3>1 DEF Saves
    <3>3. \A x : Tries(form', x) => x = s \/ x = q
        BY <2>4, <3>1 DEF Tries
    <3>4. \A x : Creating(form', x) => x = s
        BY <2>5, <3>1 DEF Creating
    <3>5. \A x : Tries(form', x) => x.opened <= form.opened
        BY <1>0, <3>1, <3>2, <3>3
    <3>6. \A x : Creating(form', x) => Fresh(created, x.opened)
        BY <2>3, <2>7, <3>2, <3>4 DEF SaveAsksKeys
    <3> QED BY <2>1, <2>2, <2>7, <3>5, <3>6, CreatesGoesOn DEF SaveAsksKeys
  <2>8. CASE SaveGoesOn(form, form')
    <3>1. PICK m, s : Updating(form, m) /\ Saves(form, s) /\ GoesOn(m, form', s)
        BY <2>8 DEF SaveGoesOn
    <3>2. /\ s.opened = form.opened /\ m.id = form.id /\ m.opened = form.opened /\ m.record = form.record
          /\ m.wire = form.wire /\ m.saves = form.saves
        BY <3>1 DEF Saves, Updating, SameIds, SameTraffic
    <3>3. \A x : ~Tries(m, x) /\ ~Creating(m, x)
        BY <2>4, <2>5, <3>2 DEF Tries, Creating
    <3>4. /\ \A x : Tries(form', x) => x.opened = form.opened
          /\ \A x : Creating(form', x) => x.opened = form.opened /\ form.id[0] = None
        BY <3>1, <3>2, <3>3, GoingOnTries
    <3>5. form'.opened = form.opened /\ form'.record = form.record
        BY <3>1, <3>2 DEF GoesOn, Encrypts, SendsSet, SamePage
    <3>6. \A x : Tries(form', x) => x.opened <= form.opened
        BY <1>0, <3>4
    <3>7. \A x : Creating(form', x) => Fresh(created, x.opened)
        BY <2>3, <3>4
    <3> QED BY <2>1, <2>2, <3>5, <3>6, <3>7, CreatesGoesOn
  <2> QED BY <1>3, <2>6, <2>7, <2>8 DEF SaveStarts
<1>4. CASE Opening \/ LoadsAgain
    BY <1>0, <1>4, <1>a, CreatesOpens, CreatesGets DEF Opening, LoadsAgain
<1>5. CASE Asking
  <2>1. created' = created
      BY <1>5, <1>a DEF Asking
  <2> QED BY <1>5, <2>1, CreatesRests DEF Asking, Rests
<1>6. CASE Answering
  <2>1. ~form.updatingRecord /\ created' = created
      BY <1>6, <1>a DEF Answering, OneAttempt
  <2>2. form.record = None => Fresh(created, form.opened)
      BY <2>1 DEF CreatesOne
  <2>3. form'.opened = form.opened /\ form'.record = form.record /\ form'.saves = form.saves
      BY <1>6 DEF Answering, Rests
  <2>4. \A x \in form'.wire : x \in form.wire \/ (x.kind = "del" /\ x.opened = form.opened)
      BY <1>6 DEF Answering, Asks
  <2>5. \A x : Tries(form', x) => Tries(form, x) \/ x.opened = form.opened
      BY <2>3, <2>4 DEF Tries
  <2>6. \A x : Creating(form', x) => Creating(form, x)
      BY <2>3, <2>4 DEF Creating
  <2>7. \A x : Tries(form', x) => x.opened <= form.opened
      BY <1>0, <2>5 DEF CreatesOne
  <2>8. \A x : Creating(form', x) => Fresh(created, x.opened)
      BY <2>6 DEF CreatesOne
  <2> QED BY <2>1, <2>2, <2>3, <2>7, <2>8, CreatesGoesOn
<1>7. CASE Cancelling
  <2>1. \A q \in form.wire : /\ Forgotten(q).kind = q.kind /\ Forgotten(q).opened = q.opened
                             /\ Forgotten(q).state = q.state /\ Forgotten(q).id = q.id
      BY <1>0 DEF Request, Forgotten
  <2>2. created' = created
      BY <1>7, <1>a DEF Cancelling
  <2>3. \A x : Tries(form', x) => \E y : Tries(form, y) /\ x.opened = y.opened
      BY <1>7, <2>1 DEF Cancelling, Tries
  <2>4. \A x : Creating(form', x) => \E y : Creating(form, y) /\ x.opened = y.opened
      BY <1>7, <2>1 DEF Cancelling, Creating
  <2>5. /\ form'.opened = form.opened /\ form'.record = form.record
        /\ form'.updatingRecord = form.updatingRecord /\ form'.saves \subseteq form.saves
      BY <1>7 DEF Cancelling, SamePage
  <2>6. \A x \in form'.wire : \E q \in form.wire : x.kind = q.kind /\ x.state = q.state
      BY <1>7, <2>1 DEF Cancelling
  <2> QED BY <2>2, <2>3, <2>4, <2>5, <2>6 DEF CreatesOne
<1>8. CASE Failing \/ Reading \/ Deleting
  <2>1. PICK q, a : Handles(q, a) /\ a.state \in {"done", "failed"} /\ created' = created
      BY <1>8, <1>a DEF Failing, Reading, Deleting
  <2>2. /\ q \in form.wire /\ q.state = "asked" /\ a.kind = q.kind /\ a.opened = q.opened
        /\ form'.wire = (form.wire \ {q}) \cup {a} /\ form'.saves = form.saves /\ form'.record = form.record
        /\ form'.opened = form.opened /\ form'.updatingRecord = form.updatingRecord
      BY <2>1 DEF Handles, SamePage
  <2>3. \A x : Tries(form', x) => \E y : Tries(form, y) /\ x.opened = y.opened
      BY <2>2 DEF Tries
  <2>4. \A x : Creating(form', x) => Creating(form, x)
      BY <2>1, <2>2 DEF Creating
  <2>5. q.kind \in Tried => (form.record = None => Fresh(created, form.opened))
      BY <2>2 DEF CreatesOne
  <2> QED BY <2>1, <2>2, <2>3, <2>4, <2>5 DEF CreatesOne
<1>9. CASE Writing
    BY <1>9, CreatesWrites
<1>10. ASSUME NEW q \in form.wire, NEW m, Lacks(form, m, q) PROVE CreatesOne(m, created)
    BY <1>10, CreatesRests DEF Lacks, SamePage
<1>11. CASE Dropping
    BY <1>10, <1>11, <1>a DEF Dropping
<1>12. CASE LoadsNow
  <2>1. PICK q, m : /\ q \in form.wire
                    /\ Lacks(form, m, q) /\ created' = created
                    /\ IF q.rows = 1 THEN LoadsRow(m, form', q) ELSE LoadsNone(m, form')
      BY <1>12, <1>a DEF LoadsNow, Arriving
  <2>2. /\ form'.wire = m.wire /\ form'.saves = m.saves /\ form'.opened = m.opened /\ form'.record = m.record
        /\ form'.updatingRecord = m.updatingRecord
      BY <2>1 DEF LoadsRow, LoadsNone, SameTraffic, SamePage
  <2> QED BY <1>10, <2>1, <2>2, CreatesRests
<1>13. CASE JoinsNow
    BY <1>10, <1>13, <1>a, CreatesRests DEF JoinsNow, Arriving, ShowsJoined, SameTraffic, SamePage
<1>14. CASE KeysCome
  <2>1. PICK q, s, m : /\ q \in form.wire /\ s \in form.saves
                       /\ q.kind = "keys" /\ Lacks(form, m, q) /\ s.nr = q.nr /\ GoesOn(m, form', s) /\ created' = created
      BY <1>14, <1>a DEF KeysCome, Arriving
  <2>2. form.record = None => Fresh(created, form.opened)
      BY <2>1 DEF CreatesOne
  <2>3. s.step = "keys"
      BY <1>0, <2>1 DEF Numbers, Numbered
  <2>4. Creating(form, s) /\ Tries(form, s)
      BY <2>1, <2>3 DEF Creating, Tries
  <2>5. /\ m.wire \subseteq form.wire /\ m.saves = form.saves /\ m.opened = form.opened /\ m.record = form.record
        /\ form'.opened = m.opened /\ form'.record = m.record
      BY <2>1 DEF Lacks, SamePage, GoesOn, Encrypts, SendsSet
  <2>6. /\ \A x : Tries(form', x) => Tries(m, x) \/ x.opened = s.opened
        /\ \A x : Creating(form', x) => Creating(m, x) \/ x.opened = s.opened
      BY <2>1, GoingOnTries
  <2>7. \A x : (Tries(m, x) => Tries(form, x)) /\ (Creating(m, x) => Creating(form, x))
      BY <2>5 DEF Tries, Creating
  <2>8. \A x : Tries(form', x) => x.opened <= form.opened
      BY <2>4, <2>6, <2>7 DEF CreatesOne
  <2>9. \A x : Creating(form', x) => Fresh(created, x.opened)
      BY <2>4, <2>6, <2>7 DEF CreatesOne
  <2> QED BY <2>1, <2>2, <2>5, <2>8, <2>9, CreatesGoesOn
<1>15. CASE SetAnswered \/ DelAnswered
  <2>1. PICK q, m : /\ q \in form.wire
                    /\ Lacks(form, m, q) /\ created' = created
                    /\ \/ \E n : OpensIdle(m, form', n)
                       \/ form.record # None /\ GetsIdle(m, form')
      BY <1>15, <1>a DEF SetAnswered, DelAnswered, Arriving
  <2>2. CreatesOne(m, created) /\ m \in Form
      BY <1>10, <2>1 DEF Lacks
  <2>3. CASE \E n : OpensIdle(m, form', n)
    <3>1. PICK n, h : Opens(m, h, n) /\ Idles(h, form')
        BY <2>3 DEF OpensIdle
    <3>2. CreatesOne(h, created) /\ h.opened = form.opened + 1
      <4>1. CreatesOne(h, created)
          BY <1>0, <2>2, <3>1, CreatesOpens
      <4>2. h.opened = form.opened + 1
          BY <2>1, <3>1 DEF Opens, Lacks, SamePage
      <4> QED BY <4>1, <4>2
    <3>3. Fresh(created, h.opened)
        BY <1>0, <3>2 DEF Fresh, CreatesOne
    <3>4. /\ form'.opened = h.opened /\ form'.record = h.record
          /\ form'.wire = h.wire /\ form'.saves = h.saves
        BY <3>1 DEF Idles, SameTraffic
    <3>5. \A x : (Tries(form', x) => Tries(h, x)) /\ (Creating(form', x) => Creating(h, x))
        BY <3>4 DEF Tries, Creating
    <3> QED BY <2>1, <3>2, <3>3, <3>4, <3>5 DEF CreatesOne
  <2>4. CASE form.record # None /\ GetsIdle(m, form')
    <3>1. PICK l, h : IsSaved(m, l) /\ Gets(l, h) /\ Idles(h, form')
        BY <2>4 DEF GetsIdle
    <3>2. CreatesOne(l, created)
        BY <2>2, <3>1, CreatesRests DEF IsSaved, SameTraffic, SamePage
    <3>3. CreatesOne(h, created)
        BY <3>1, <3>2, CreatesGets
    <3>4. /\ form'.opened = h.opened /\ form'.record = h.record /\ h.record # None
          /\ form'.wire = h.wire /\ form'.saves = h.saves
        BY <2>1, <2>4, <3>1 DEF Idles, SameTraffic, Gets, IsSaved, SamePage, Lacks
    <3>5. \A x : (Tries(form', x) => Tries(h, x)) /\ (Creating(form', x) => Creating(h, x))
        BY <3>4 DEF Tries, Creating
    <3> QED BY <2>1, <3>3, <3>4, <3>5 DEF CreatesOne
  <2> QED BY <2>1, <2>3, <2>4
<1>16. CASE Rejected
  <2>1. PICK q, m : /\ q \in form.wire
                    /\ q.kind \in {"set", "del", "keys"} /\ q.state = "failed" /\ Lacks(form, m, q) /\ created' = created
                    /\ form'.record = m.record /\ form'.opened = m.opened /\ form'.wire = m.wire
                    /\ form'.saves = IF q.kind = "keys" THEN {s \in form.saves : s.nr # q.nr} ELSE form.saves
      BY <1>16, <1>a DEF Rejected
  <2>2. form.record = None => Fresh(created, form.opened)
      BY <2>1 DEF CreatesOne, Tried
  <2>3. /\ form'.wire \subseteq form.wire /\ form'.saves \subseteq form.saves
        /\ form'.record = form.record /\ form'.opened = form.opened
      BY <2>1 DEF Lacks, SamePage
  <2>4. \A x : (Tries(form', x) => Tries(form, x)) /\ (Creating(form', x) => Creating(form, x))
      BY <2>3 DEF Tries, Creating
  <2>5. /\ \A x : Tries(form', x) => x.opened <= form.opened
        /\ \A x : Creating(form', x) => Fresh(created, x.opened)
      BY <2>4 DEF CreatesOne
  <2> QED BY <2>1, <2>2, <2>3, <2>5, CreatesGoesOn
<1>17. CASE Decrypting
  <2>1. created' = created
      BY <1>17, <1>a DEF Decrypting
  <2> QED BY <1>17, <2>1, CreatesRests DEF Decrypting, ShowsRow, SameTraffic, SamePage
<1>18. CASE Encrypting
  <2>1. PICK s, q : /\ s \in form.saves
                    /\ s.step = "encrypt" /\ q.id = s.id /\ q.opened = s.opened /\ q.kind = "set"
                    /\ form'.wire = form.wire \cup {q} /\ form'.saves = form.saves \ {s}
                    /\ form'.opened = form.opened /\ form'.record = form.record /\ created' = created
      BY <1>18, <1>a DEF Encrypting, SendsSet, SamePage
  <2>2. form.record = None => Fresh(created, form.opened)
      BY <2>1 DEF CreatesOne
  <2>3. Tries(form, s) /\ (s.id = None => Creating(form, s))
      BY <2>1 DEF Tries, Creating
  <2>4. \A x : Tries(form', x) => Tries(form, x) \/ x = q
      BY <2>1 DEF Tries
  <2>5. \A x : Creating(form', x) => Creating(form, x) \/ (x = q /\ q.id = None)
      BY <2>1 DEF Creating
  <2>6. \A x : Tries(form', x) => x.opened <= form.opened
      BY <2>1, <2>3, <2>4 DEF CreatesOne
  <2>7. \A x : Creating(form', x) => Fresh(created, x.opened)
      BY <2>1, <2>3, <2>5 DEF CreatesOne
  <2> QED BY <2>1, <2>2, <2>6, <2>7, CreatesGoesOn
<1>19. CASE Unreadable
  <2>1. created' = created
      BY <1>19, <1>a DEF Unreadable
  <2> QED BY <1>19, <2>1, CreatesRests DEF Unreadable, SamePage
<1>20. CASE Unencrypted
  <2>1. PICK s \in form.saves :
             /\ form'.wire = form.wire /\ form'.saves = form.saves \ {s}
             /\ form'.opened = form.opened /\ form'.record = form.record /\ created' = created
      BY <1>20, <1>a DEF Unencrypted
  <2>2. form.record = None => Fresh(created, form.opened)
      BY <2>1 DEF CreatesOne
  <2>3. \A x : (Tries(form', x) => Tries(form, x)) /\ (Creating(form', x) => Creating(form, x))
      BY <2>1 DEF Tries, Creating
  <2>4. /\ \A x : Tries(form', x) => x.opened <= form.opened
        /\ \A x : Creating(form', x) => Fresh(created, x.opened)
      BY <2>3 DEF CreatesOne
  <2> QED BY <2>1, <2>2, <2>4, CreatesGoesOn
<1> QED BY <1>1, <1>2, <1>3, <1>4, <1>5, <1>6, <1>7, <1>8, <1>9, <1>11, <1>12, <1>13, <1>14, <1>15, <1>16, <1>17, <1>18,
          <1>19, <1>20 DEF Moving

\* A form that was opened for a new record creates one record at most, however many saves,
\* forms opened in between, keys and encryptions there are.
THEOREM OneRecordCreated == Spec => []CreatedOnce
<1>1. Init => CreatesWhileNew
  <2> SUFFICES ASSUME Init PROVE CreatesOne(form, created)
      BY DEF CreatesWhileNew
  <2>1. PICK f, n : Closed(f) /\ Opens(f, form, n)
      BY FirstOpens
  <2>2. created = {} /\ f \in Form
      BY <2>1, FirstOpens DEF Closed
  <2>3. CreatesOne(f, created)
      BY <2>1, <2>2 DEF Closed, CreatesOne, Tries, Creating, Fresh
  <2> QED BY <2>1, <2>2, <2>3, CreatesOpens
<1>2. Base /\ SavesOnce /\ CreatesWhileNew /\ [Next]_vars => CreatesWhileNew'
  <2>1. CASE UNCHANGED vars
      BY <2>1 DEF vars, data, CreatesWhileNew, CreatesOne, Creating, Fresh, Tries
  <2>2. ASSUME Base, SavesOnce, CreatesWhileNew, Next, crossed' \cap {"function", "asked"} = {}
        PROVE  CreatesOne(form', created')
    <3>1. Moving
        BY <2>2, Moves
    <3>2. crossed \cap {"function", "asked"} = {}
        BY <2>2, <3>1, HistoryGrows
    <3> QED BY <2>2, <3>1, <3>2, CreatesKept DEF SavesOnce, CreatesWhileNew
  <2>3. ASSUME Base, SavesOnce, CreatesWhileNew, Next PROVE CreatesWhileNew'
      BY <2>2, <2>3 DEF CreatesWhileNew, CreatesOne, Creating, Fresh, Tries
  <2> QED BY <2>1, <2>3
<1>3. CreatesWhileNew => CreatedOnce
    BY DEF CreatesWhileNew, CreatesOne, CreatedOnce
<1> QED BY <1>1, <1>2, <1>3, OneAttemptHolds, PTL DEF Spec

-----------------------------------------------------------------------------
(* What is loaded.                                                           *)

\* a joined record that is asked for is there, and its row comes
Found(f) == \A q \in f.wire : q.kind = "sub" => q.id # None /\ (q.state = "done" => q.rows = 1)

LEMMA FoundKept ==
    ASSUME Base, Moving, Found(form)
    PROVE  Found(form')
<1>0. form.wire \subseteq Request /\ RefsFit(form)
    BY FormOfBase DEF Base
<1>1. ASSUME NEW f, NEW g, Found(f), \A q \in g.wire : q \in f.wire \/ q.kind # "sub" PROVE Found(g)
    BY <1>1 DEF Found
<1>2. ASSUME NEW f, NEW g, NEW s, GoesOn(f, g, s) PROVE \A q \in g.wire : q \in f.wire \/ q.kind # "sub"
    BY <1>2 DEF GoesOn, Encrypts, SendsSet
<1>3. CASE Typing \/ Clearing \/ Asking \/ Answering \/ Decrypting \/ Unreadable \/ Encrypting \/ Unencrypted
           \/ Opening \/ LoadsAgain
  <2>1. \A q \in form'.wire : q \in form.wire \/ q.kind # "sub"
    <3>1. CASE Typing \/ Clearing \/ Asking \/ Answering
        BY <3>1 DEF Typing, Clearing, Asking, Answering, Asks, SameTraffic
    <3>2. CASE Decrypting \/ Unreadable \/ Encrypting \/ Unencrypted
        BY <3>2 DEF Decrypting, Unreadable, ShowsRow, SameTraffic, Encrypting, Unencrypted, SendsSet
    <3>3. CASE Opening \/ LoadsAgain
        BY <3>3 DEF Opening, Opens, LoadsAgain, Gets, Asks
    <3> QED BY <1>3, <3>1, <3>2, <3>3
  <2> QED BY <1>1, <2>1
<1>4. CASE Relating
  <2>1. PICK record \in 1 .. MaxJoined, q \in Request : Asks(form, q, "sub", record) /\ form'.wire = form.wire \cup {q}
      BY <1>4 DEF Relating
  <2> QED BY <2>1, RecordFormAssumption DEF Asks, Found, None
<1>5. CASE SaveStarts
  <2>1. CASE SaveFails(form, form') \/ SaveAsksKeys(form, form')
      BY <1>1, <2>1 DEF SaveFails, SameTraffic, SaveAsksKeys
  <2>2. CASE SaveGoesOn(form, form')
      BY <1>1, <1>2, <2>2 DEF SaveGoesOn, Updating, SameTraffic
  <2> QED BY <1>5, <2>1, <2>2 DEF SaveStarts
<1>6. CASE Cancelling
  <2>1. \A q \in form.wire : /\ Forgotten(q).kind = q.kind /\ Forgotten(q).id = q.id
                             /\ Forgotten(q).state = q.state /\ Forgotten(q).rows = q.rows
      BY <1>0 DEF Request, Forgotten
  <2> QED BY <1>6, <2>1 DEF Cancelling, Found
<1>7. CASE Failing \/ Writing \/ Deleting
    BY <1>7 DEF Failing, Writing, Deleting, Handles, Found
<1>8. CASE Reading
  <2>1. PICK q, a : /\ Handles(q, a) /\ a.state = "done" /\ a.id = q.id
                    /\ q.kind = "sub" /\ q.id \in DOMAIN joined => a.rows = 1
      BY <1>8 DEF Reading
  <2>2. q.kind = "sub" => q.id # None /\ q.id \in Rel1
      BY <1>0, <2>1 DEF Handles, Found, RefsFit, RefsIn, Flight
  <2> QED BY <2>1, <2>2 DEF Handles, Found, Rel1
<1>9. ASSUME NEW q \in form.wire, NEW m, Lacks(form, m, q) PROVE Found(m)
    BY <1>9 DEF Lacks, Found
<1>10. CASE Dropping \/ LoadsNow \/ JoinsNow \/ Rejected
  <2>1. form'.wire \subseteq form.wire
      BY <1>10 DEF Dropping, LoadsNow, LoadsRow, LoadsNone, JoinsNow, ShowsJoined, SameTraffic, Rejected, Lacks
  <2> QED BY <1>1, <2>1
<1>11. CASE KeysCome
    BY <1>1, <1>2, <1>9, <1>11 DEF KeysCome
<1>12. CASE SetAnswered \/ DelAnswered
  <2>1. PICK q, m : /\ q \in form.wire
                    /\ Lacks(form, m, q)
                    /\ (\E n : OpensIdle(m, form', n)) \/ GetsIdle(m, form')
      BY <1>12 DEF SetAnswered, DelAnswered
  <2>2. \A x \in form'.wire : x \in m.wire \/ x.kind = "get"
    <3>1. CASE \E n : OpensIdle(m, form', n)
        BY <3>1 DEF OpensIdle, Opens, Idles, SameTraffic
    <3>2. CASE GetsIdle(m, form')
        BY <3>2 DEF GetsIdle, IsSaved, Gets, Asks, Idles, SameTraffic
    <3> QED BY <2>1, <3>1, <3>2
  <2> QED BY <1>1, <1>9, <2>1, <2>2
<1> QED BY <1>3, <1>4, <1>5, <1>6, <1>7, <1>8, <1>10, <1>11, <1>12 DEF Moving

\* rows that are asked for or decrypted
Loading(f, x) == x \in f.decrypts \/ (x \in f.wire /\ x.known /\ x.kind \in {"get", "sub"})
Quiet(f)      == \A x : ~Loading(f, x)

\* One row at most is loaded, and it is of the record that is shown.
LoadsShown(f) ==
    /\ \A x, y : Loading(f, x) /\ Loading(f, y) => x.nr = y.nr
    /\ \A x : Loading(f, x) => x.id = IF x.kind = "get" THEN f.record ELSE f.new["ref"]
    /\ \A q \in f.decrypts : f.id[0] = q.id /\ f.id[1] = q.values["ref"]

LoadsStay == crossed \cap {"switched", "related"} = {} => LoadsShown(form)

LEMMA StillIsQuiet == ASSUME NEW f PROVE Still(f) <=> Quiet(f)
BY DEF Still, Quiet, Loading

LEMMA QuietlySwitched ==
    ASSUME Crosses(Switches), "switched" \notin crossed'
    PROVE  Quiet(form) /\ form.saves = {}
BY NotSwitched, StillIsQuiet

\* what is related while nothing is loaded or saved
LEMMA QuietlyRelated ==
    ASSUME NEW record, Relates(record), "related" \notin crossed'
    PROVE  Quiet(form) /\ form.saves = {}
<1>1. ~Loads /\ form.saves = {}
    BY DEF Relates, Crosses
<1> QED BY <1>1, LoadsOrStill, StillIsQuiet

LEMMA OneLoads ==
    ASSUME Base, LoadsShown(form), NEW q, Loading(form, q)
    PROVE  \A x : Loading(form, x) => x = q
BY DEF LoadsShown, Loading, Base, Numbers, Numbered

\* steps that load nothing
LEMMA LoadsRest ==
    ASSUME NEW f, NEW g, LoadsShown(f), g.record = f.record, g.new["ref"] = f.new["ref"],
           \A x : Loading(g, x) => Loading(f, x),
           g.decrypts \subseteq f.decrypts, g.id = f.id \/ g.decrypts = {}
    PROVE  LoadsShown(g)
BY DEF LoadsShown

\* the only row that is loaded
LEMMA LoadsOnly ==
    ASSUME NEW g, NEW q, \A x : Loading(g, x) => x = q,
           q.id = IF q.kind = "get" THEN g.record ELSE g.new["ref"],
           g.decrypts = {} \/ (g.id[0] = q.id /\ g.id[1] = q.values["ref"])
    PROVE  LoadsShown(g)
<1>1. \A x \in g.decrypts : x = q
    BY DEF Loading
<1> QED BY <1>1 DEF LoadsShown

LEMMA LoadsNothing == ASSUME NEW g, Quiet(g) PROVE LoadsShown(g)
BY DEF LoadsShown, Quiet, Loading

\* a record is opened or loaded again, when nothing else is loaded
LEMMA LoadsOpen ==
    ASSUME NEW f, NEW g, NEW n, Opens(f, g, n) \/ Gets(f, g), Quiet(f)
    PROVE  /\ LoadsShown(g) /\ g.decrypts = {}
           /\ \/ g.record = None /\ Quiet(g) /\ g.wire = f.wire
              \/ g.record # None /\ \E q : /\ q.kind = "get" /\ q.known /\ \A x : Loading(g, x) <=> x = q
                                           /\ g.wire = f.wire \cup {q}
<1>1. f.decrypts = {} /\ g.decrypts = {}
    BY DEF Opens, Gets, Quiet, Loading
<1>2. CASE g.record = None
  <2>1. g.wire = f.wire
      BY <1>2 DEF Opens, Gets
  <2>2. Quiet(g)
      BY <1>1, <2>1 DEF Quiet, Loading
  <2> QED BY <1>1, <1>2, <2>1, <2>2, LoadsNothing
<1>3. CASE g.record # None
  <2>1. PICK q : q.kind = "get" /\ q.id = g.record /\ q.known /\ g.wire = f.wire \cup {q}
      BY <1>3 DEF Opens, Gets, Asks
  <2>2. \A x : Loading(g, x) <=> x = q
      BY <1>1, <2>1 DEF Quiet, Loading
  <2> QED BY <1>1, <1>3, <2>1, <2>2, LoadsOnly
<1> QED BY <1>2, <1>3

\* the answer of a save or a deletion
LEMMA LoadsIdle ==
    ASSUME NEW f, NEW g, (\E n : OpensIdle(f, g, n)) \/ GetsIdle(f, g), Quiet(f)
    PROVE  LoadsShown(g)
<1>1. ASSUME NEW h, LoadsShown(h), Idles(h, g) PROVE LoadsShown(g)
  <2>1. /\ g.record = h.record /\ g.new = h.new /\ g.wire = h.wire /\ g.decrypts = h.decrypts /\ g.id = h.id
      BY <1>1 DEF Idles, SameIds, SameValues, SameTraffic
  <2>2. \A x : Loading(g, x) => Loading(h, x)
      BY <2>1 DEF Loading
  <2> QED BY <1>1, <2>1, <2>2, LoadsRest
<1>2. CASE \E n : OpensIdle(f, g, n)
    BY <1>1, <1>2, LoadsOpen DEF OpensIdle
<1>3. CASE GetsIdle(f, g)
  <2>1. PICK m, h : IsSaved(f, m) /\ Gets(m, h) /\ Idles(h, g)
      BY <1>3 DEF GetsIdle
  <2>2. Quiet(m)
      BY <2>1 DEF IsSaved, SameTraffic, Quiet, Loading
  <2> QED BY <1>1, <2>1, <2>2, LoadsOpen
<1> QED BY <1>2, <1>3

\* what loads after a step of the page that loads nothing
LEMMA SameLoading ==
    ASSUME NEW f, NEW g, g.decrypts = f.decrypts,
           \A q \in f.wire : q \in g.wire \/ ~q.known \/ q.kind \notin {"get", "sub"},
           \A q \in g.wire : q \in f.wire \/ ~q.known \/ q.kind \notin {"get", "sub"}
    PROVE  (\A x : Loading(g, x) <=> Loading(f, x)) /\ (Quiet(g) <=> Quiet(f))
<1>1. \A x : Loading(g, x) <=> Loading(f, x)
    BY DEF Loading
<1> QED BY <1>1 DEF Quiet

\* a save that goes on loads nothing
LEMMA GoingOnLoads ==
    ASSUME NEW f, NEW g, NEW s, GoesOn(f, g, s)
    PROVE  (\A x : Loading(g, x) <=> Loading(f, x)) /\ (Quiet(g) <=> Quiet(f))
<1>1. CASE Encrypts(f, g, s)
    BY <1>1, SameLoading DEF Encrypts
<1>2. CASE SendsSet(f, g, s.first, f.id[0], f.new["name"], None, s.opened, s.shown, s.changed, s.before, f.saves \ {s})
  <2>1. PICK q : q.kind = "set" /\ g.wire = f.wire \cup {q} /\ g.decrypts = f.decrypts
      BY <1>2 DEF SendsSet
  <2> QED BY <2>1, SameLoading
<1> QED BY <1>1, <1>2 DEF GoesOn

LEMMA LoadsKept ==
    ASSUME Base, Moving, crossed' \cap {"switched", "related"} = {}, LoadsShown(form)
    PROVE  LoadsShown(form')
<1>0. "switched" \notin crossed' /\ "related" \notin crossed' /\ form.wire \subseteq Request
    BY FormOfBase
<1>1. CASE Typing
  <2>1. /\ form'.record = form.record /\ form'.new["ref"] = form.new["ref"] /\ form'.id = form.id
        /\ form'.wire = form.wire /\ form'.decrypts = form.decrypts
      BY <1>1 DEF Typing, Fields, SamePage, SameIds, SameTraffic
  <2>2. \A x : Loading(form', x) => Loading(form, x)
      BY <2>1 DEF Loading
  <2> QED BY <2>1, <2>2, LoadsRest
<1>2. CASE Clearing
  <2>1. Quiet(form) /\ form'.wire = form.wire /\ form'.decrypts = form.decrypts
      BY <1>0, <1>2, QuietlyRelated DEF Clearing, Relates
  <2>2. Quiet(form')
      BY <2>1 DEF Quiet, Loading
  <2> QED BY <2>2, LoadsNothing
<1>3. CASE Relating
  <2>1. PICK record \in 1 .. MaxJoined, q \in Request :
             Relates(record) /\ Asks(form, q, "sub", record) /\ form'.wire = form.wire \cup {q}
      BY <1>3 DEF Relating
  <2>2. Quiet(form) /\ form'.decrypts = form.decrypts /\ form'.new["ref"] = record
      BY <1>0, <2>1, QuietlyRelated DEF Relates
  <2>3. \A x : Loading(form', x) => x = q
      BY <2>1, <2>2 DEF Quiet, Loading
  <2>4. form'.decrypts = {} /\ q.kind = "sub" /\ q.id = record
      BY <2>1, <2>2 DEF Quiet, Loading, Asks
  <2> QED BY <2>2, <2>3, <2>4, LoadsOnly
<1>4. CASE SaveStarts
  <2>1. CASE SaveFails(form, form')
    <3>1. \A x : Loading(form', x) => Loading(form, x)
        BY <2>1 DEF SaveFails, SameTraffic, Loading
    <3> QED BY <2>1, <3>1, LoadsRest DEF SaveFails, SameIds, SameValues, SameTraffic
  <2>2. CASE SaveAsksKeys(form, form')
    <3>1. \A x : Loading(form', x) => Loading(form, x)
        BY <2>2 DEF SaveAsksKeys, Loading
    <3> QED BY <2>2, <3>1, LoadsRest DEF SaveAsksKeys, SameValues
  <2>3. CASE SaveGoesOn(form, form')
    <3>1. PICK m, s : Updating(form, m) /\ GoesOn(m, form', s)
        BY <2>3 DEF SaveGoesOn
    <3>2. /\ m.record = form.record /\ m.new = form.new /\ m.id = form.id
          /\ m.wire = form.wire /\ m.decrypts = form.decrypts
        BY <3>1 DEF Updating, SameIds, SameValues, SameTraffic
    <3>3. /\ form'.record = m.record /\ form'.new = m.new /\ form'.id = m.id /\ form'.decrypts = m.decrypts
        BY <3>1 DEF GoesOn, Encrypts, SendsSet, SamePage, SameIds, SameValues
    <3>4. \A x : Loading(form', x) => Loading(form, x)
        BY <3>1, <3>2, GoingOnLoads DEF Loading
    <3> QED BY <3>2, <3>3, <3>4, LoadsRest
  <2> QED BY <1>4, <2>1, <2>2, <2>3 DEF SaveStarts
<1>5. CASE Opening
    BY <1>0, <1>5, CrossesBoth, QuietlySwitched, LoadsOpen DEF Opening
<1>6. CASE LoadsAgain
    BY <1>0, <1>6, QuietlySwitched, LoadsOpen DEF LoadsAgain
<1>7. CASE Asking \/ Answering
  <2>1. /\ Rests(form, form') /\ \A q \in form'.wire : q \in form.wire \/ q.kind = "del"
      BY <1>7 DEF Asking, Answering, Asks
  <2>2. \A x : Loading(form', x) => Loading(form, x)
      BY <2>1 DEF Rests, Loading
  <2> QED BY <2>1, <2>2, LoadsRest DEF Rests, SameIds, SameValues
<1>8. CASE Cancelling
  <2>1. \A q \in form.wire : ~Forgotten(q).known
      BY <1>0 DEF Request, Forgotten
  <2>2. \A x : Loading(form', x) => Loading(form, x)
      BY <1>8, <2>1 DEF Cancelling, Loading
  <2> QED BY <1>8, <2>2, LoadsRest DEF Cancelling, SamePage, SameIds, SameValues
<1>9. CASE Failing \/ Reading \/ Writing \/ Deleting
  <2>1. PICK q, a : Handles(q, a) /\ (q.kind \in {"get", "sub"} => a.id = q.id)
      BY <1>9 DEF Failing, Reading, Writing, Deleting
  <2>2. /\ form'.record = form.record /\ form'.new = form.new /\ form'.id = form.id /\ form'.decrypts = form.decrypts
        /\ q \in form.wire /\ form'.wire = (form.wire \ {q}) \cup {a} /\ a.nr = q.nr /\ a.kind = q.kind /\ a.known = q.known
      BY <2>1 DEF Handles, SamePage, SameIds, SameValues
  <2>3. \A x : Loading(form', x) => \E y : Loading(form, y) /\ y.nr = x.nr /\ y.kind = x.kind /\ y.id = x.id
      BY <2>1, <2>2 DEF Loading
  <2>4. \A x, y : Loading(form', x) /\ Loading(form', y) => x.nr = y.nr
      BY <2>3 DEF LoadsShown
  <2>5. \A x : Loading(form', x) => x.id = IF x.kind = "get" THEN form'.record ELSE form'.new["ref"]
      BY <2>2, <2>3 DEF LoadsShown
  <2> QED BY <2>2, <2>4, <2>5 DEF LoadsShown
<1>10. ASSUME NEW q, NEW m, Lacks(form, m, q)
       PROVE  /\ \A x : Loading(m, x) => (Loading(form, x) /\ x # q) \/ x \in form.decrypts
              /\ m.record = form.record /\ m.new = form.new /\ m.id = form.id /\ m.decrypts = form.decrypts
    BY <1>10 DEF Lacks, Loading, SamePage, SameIds, SameValues
<1>11. CASE Dropping
  <2>1. PICK q : Lacks(form, form', q)
      BY <1>11 DEF Dropping
  <2>2. \A x : Loading(form', x) => Loading(form, x)
      BY <1>10, <2>1 DEF Loading
  <2> QED BY <1>10, <2>1, <2>2, LoadsRest
<1>12. CASE LoadsNow \/ JoinsNow
  <2>1. PICK q, m : /\ q \in form.wire
                    /\ q.known /\ q.kind \in {"get", "sub"} /\ Lacks(form, m, q)
                    /\ form'.record = m.record /\ form'.wire = m.wire
                    /\ \/ /\ q.kind = "get" /\ form'.decrypts = m.decrypts \cup {q}
                          /\ form'.id[0] = q.id /\ form'.id[1] = q.values["ref"]
                       \/ form'.decrypts = m.decrypts
      BY <1>12 DEF LoadsNow, JoinsNow, Arriving, LoadsRow, LoadsNone, ShowsJoined, SamePage, SameTraffic
  <2>2. Loading(form, q) /\ q \notin form.decrypts
      BY <2>1 DEF Loading, Base, Numbers, Numbered
  <2>3. \A x : Loading(form, x) => x = q
      BY <2>2, OneLoads
  <2>4. form.decrypts = {} /\ (q.kind = "get" => q.id = form.record)
      BY <2>2, <2>3 DEF Loading, LoadsShown
  <2>5. Quiet(m)
      BY <1>10, <2>1, <2>3, <2>4 DEF Quiet, Loading
  <2>6. CASE form'.decrypts = m.decrypts
    <3>1. Quiet(form')
        BY <2>1, <2>5, <2>6 DEF Quiet, Loading
    <3> QED BY <3>1, LoadsNothing
  <2>7. CASE form'.decrypts # m.decrypts
    <3>1. \A x : Loading(form', x) => x = q
        BY <2>1, <2>5, <2>7 DEF Quiet, Loading
    <3>2. form'.record = form.record /\ q.id = form.record /\ q.kind = "get"
        BY <1>10, <2>1, <2>2, <2>4, <2>7 DEF LoadsShown
    <3> QED BY <2>1, <2>7, <3>1, <3>2, LoadsOnly
  <2> QED BY <2>6, <2>7
<1>13. CASE KeysCome
  <2>1. PICK q, s, m : Lacks(form, m, q) /\ GoesOn(m, form', s)
      BY <1>13 DEF KeysCome
  <2>2. /\ form'.record = m.record /\ form'.new = m.new /\ form'.id = m.id /\ form'.decrypts = m.decrypts
      BY <2>1 DEF GoesOn, Encrypts, SendsSet, SamePage, SameIds, SameValues
  <2>3. \A x : Loading(form', x) => Loading(form, x)
      BY <1>10, <2>1, GoingOnLoads DEF Loading
  <2> QED BY <1>10, <2>1, <2>2, <2>3, LoadsRest
<1>14. CASE SetAnswered \/ DelAnswered
  <2>1. PICK q, m : /\ Lacks(form, m, q) /\ Crosses(Switches)
                    /\ (\E n : OpensIdle(m, form', n)) \/ GetsIdle(m, form')
      BY <1>14, CrossesBoth DEF SetAnswered, DelAnswered
  <2>2. Quiet(m)
      BY <1>0, <1>10, <2>1, QuietlySwitched DEF Quiet, Loading
  <2> QED BY <2>1, <2>2, LoadsIdle
<1>15. CASE Rejected
  <2>1. PICK q, m : /\ Lacks(form, m, q) /\ form'.record = m.record /\ form'.id = m.id /\ form'.new = m.new
                    /\ form'.wire = m.wire /\ form'.decrypts = m.decrypts
      BY <1>15 DEF Rejected, SameIds, SameValues
  <2>2. \A x : Loading(form', x) => Loading(form, x)
      BY <1>10, <2>1 DEF Loading
  <2> QED BY <1>10, <2>1, <2>2, LoadsRest
<1>16. CASE Decrypting \/ Unreadable
  <2>1. PICK q \in form.decrypts : /\ form'.record = form.record /\ form'.wire = form.wire
                                   /\ form'.decrypts = form.decrypts \ {q}
      BY <1>16 DEF Decrypting, Unreadable, ShowsRow, SamePage, SameTraffic
  <2>2. \A x : Loading(form, x) => x = q
      BY <2>1, OneLoads DEF Loading
  <2>3. Quiet(form')
      BY <2>1, <2>2 DEF Quiet, Loading, Base, Numbers, Numbered
  <2> QED BY <2>3, LoadsNothing
<1>17. CASE Encrypting \/ Unencrypted
  <2>1. /\ form'.record = form.record /\ SameIds(form, form') /\ SameValues(form, form')
        /\ form'.decrypts = form.decrypts /\ \A q \in form'.wire : q \in form.wire \/ q.kind = "set"
      BY <1>17 DEF Encrypting, Unencrypted, SendsSet, SamePage
  <2>2. \A x : Loading(form', x) => Loading(form, x)
      BY <2>1 DEF Loading
  <2> QED BY <2>1, <2>2, LoadsRest DEF SameIds, SameValues
<1> QED BY <1>1, <1>2, <1>3, <1>4, <1>5, <1>6, <1>7, <1>8, <1>9, <1>11, <1>12, <1>13, <1>14, <1>15, <1>16, <1>17
        DEF Moving

\* the form as it is opened first
LEMMA LoadsFirst ==
    ASSUME Init
    PROVE  /\ Found(form) /\ LoadsShown(form)
           /\ \E f, n : /\ Opens(f, form, n) /\ Quiet(f) /\ f.saves = {} /\ f.wire = {}
<1>1. PICK f, n : Closed(f) /\ Opens(f, form, n)
    BY FirstOpens
<1>2. Found(form)
    BY <1>1 DEF Closed, Opens, Found
<1>3. Quiet(f) /\ f.saves = {} /\ f.wire = {}
    BY <1>1 DEF Closed, Quiet, Loading
<1> QED BY <1>1, <1>2, <1>3, LoadsOpen

LEMMA LoadsHold == Spec => [](Base /\ Found(form) /\ LoadsStay)
<1>1. Init => Found(form) /\ LoadsStay
    BY LoadsFirst DEF LoadsStay
<1>2. Base /\ Found(form) /\ LoadsStay /\ [Next]_vars => (Found(form) /\ LoadsStay)'
  <2>1. CASE UNCHANGED vars
      BY <2>1 DEF vars, Found, LoadsStay, LoadsShown, Loading
  <2>2. ASSUME Base, Found(form), LoadsStay, Next PROVE Found(form') /\ (crossed' \cap {"switched", "related"} = {} => LoadsShown(form'))
    <3>1. Moving
        BY <2>2, Moves
    <3>2. crossed' \cap {"switched", "related"} = {} => crossed \cap {"switched", "related"} = {}
        BY <3>1, HistoryGrows
    <3> QED BY <2>2, <3>1, <3>2, FoundKept, LoadsKept DEF LoadsStay
  <2>3. ASSUME Base, Found(form), LoadsStay, Next PROVE (Found(form) /\ LoadsStay)'
      BY <2>2, <2>3 DEF Found, LoadsStay, LoadsShown, Loading
  <2> QED BY <2>1, <2>3
<1> QED BY <1>1, <1>2, BaseHolds, PTL DEF Spec

-----------------------------------------------------------------------------
-----------------------------------------------------------------------------
(* A save keeps what was changed.                                            *)

\* Without a record of its relation a field has no original value, unless the record
\* is not loaded.
OldNone(f) ==
    \/ f.badLoad \/ f.decrypts # {} \/ \E q \in f.wire : q.known /\ q.kind = "get"
    \/ \A x \in Fields : f.id[Index(x)] = None => f.old[x] = None

\* a field a save works on later: if it need not be written then, it has the value it had
Keeps(f, s, x) == s.before[x] = f.old[x] /\ (f.id[Index(x)] = None => f.old[x] = None)

\* While a save waits nothing is loaded, and what was changed is still to be written,
\* or has its original value again.
KeepsChanges(f) ==
    /\ f.saves # {} => Quiet(f)
    /\ \A s \in f.saves : /\ s.changed \subseteq {s.first} \cup After(s.first)
                          /\ \A x \in s.changed \ {s.first} : Keeps(f, s, x)
    /\ \A q \in f.wire : q.kind = "set" =>
            \A x \in q.changed : x \in q.fields \/ q.values[x] = q.before[x]

Unkept == {"switched", "related", "early", "unloaded"}
ChangesStay == crossed \cap Unkept = {} => OldNone(form) /\ KeepsChanges(form)

\* steps that change neither ids nor original values
LEMMA OldRests ==
    ASSUME NEW f, NEW g, OldNone(f), g.badLoad = f.badLoad, g.id = f.id, g.old = f.old, g.decrypts = f.decrypts,
           \A q \in f.wire : q.known /\ q.kind = "get" => q \in g.wire
    PROVE  OldNone(g)
BY DEF OldNone

LEMMA OldOpens ==
    ASSUME NEW f, NEW g, NEW n, Opens(f, g, n) \/ (Gets(f, g) /\ f.record # None)
    PROVE  OldNone(g)
<1>1. CASE Opens(f, g, n)
    BY <1>1 DEF Opens, OldNone, Empty
<1>2. CASE Gets(f, g) /\ f.record # None
  <2>1. PICK q : q.known /\ q.kind = "get" /\ g.wire = f.wire \cup {q}
      BY <1>2 DEF Gets, Asks
  <2> QED BY <2>1 DEF OldNone
<1> QED BY <1>1, <1>2

LEMMA OldGoesOn ==
    ASSUME NEW f, NEW g, NEW s, GoesOn(f, g, s), OldNone(f)
    PROVE  OldNone(g)
<1>1. g.badLoad = f.badLoad /\ g.id = f.id /\ g.old = f.old /\ g.decrypts = f.decrypts /\ f.wire \subseteq g.wire
    BY DEF GoesOn, Encrypts, SendsSet, SameIds, SameValues
<1> QED BY <1>1, OldRests

LEMMA OldKept ==
    ASSUME Base, Moving, "unloaded" \notin crossed', Found(form), LoadsShown(form), OldNone(form)
    PROVE  OldNone(form')
<1>0. form.wire \subseteq Request
    BY FormOfBase
<1>1. CASE Typing
    BY <1>1, OldRests DEF Typing, SameIds, SameTraffic
<1>2. CASE Clearing
  <2>1. /\ form'.badLoad = form.badLoad /\ form'.id = form.id /\ form'.decrypts = form.decrypts
        /\ form'.wire = form.wire /\ form'.old["other"] = None
        /\ form'.old["ref"] = form.old["ref"] /\ form'.old["name"] = form.old["name"]
      BY <1>2 DEF Clearing, Relates, SameIds
  <2> QED BY <2>1 DEF OldNone, Fields
<1>3. CASE Relating
  <2>1. /\ form'.badLoad = form.badLoad /\ form'.id = form.id /\ form'.decrypts = form.decrypts
        /\ form.wire \subseteq form'.wire /\ form'.old["other"] = form.old["other"]
        /\ form'.old["ref"] = form.old["ref"] /\ form'.old["name"] = form.old["name"]
      BY <1>3 DEF Relating, Relates, SameIds
  <2> QED BY <2>1 DEF OldNone, Fields
<1>4. CASE SaveStarts
  <2>1. CASE SaveFails(form, form')
      BY <2>1, OldRests DEF SaveFails, SameIds, SameValues, SameTraffic
  <2>2. CASE SaveAsksKeys(form, form')
    <3>1. /\ form'.badLoad = form.badLoad /\ form'.id = form.id /\ form'.old = form.old /\ form'.decrypts = form.decrypts
          /\ form.wire \subseteq form'.wire
        BY <2>2 DEF SaveAsksKeys, SameValues
    <3> QED BY <3>1, OldRests
  <2>3. CASE SaveGoesOn(form, form')
    <3>1. PICK m, s : Updating(form, m) /\ GoesOn(m, form', s)
        BY <2>3 DEF SaveGoesOn
    <3>2. OldNone(m)
        BY <3>1, OldRests DEF Updating, SameIds, SameValues, SameTraffic
    <3> QED BY <3>1, <3>2, OldGoesOn
  <2> QED BY <1>4, <2>1, <2>2, <2>3 DEF SaveStarts
<1>5. CASE Opening \/ LoadsAgain
    BY <1>5, OldOpens DEF Opening, LoadsAgain
<1>6. CASE Asking \/ Answering
  <2>1. Rests(form, form') /\ form.wire \subseteq form'.wire
      BY <1>6 DEF Asking, Answering
  <2> QED BY <2>1, OldRests DEF Rests, SameIds, SameValues
<1>7. CASE Cancelling
  <2>1. \A q \in form.wire : ~(q.known /\ q.kind = "get")
      BY <1>7 DEF Cancelling, Crosses, Unread
  <2> QED BY <1>7, <2>1, OldRests DEF Cancelling, SameIds, SameValues
<1>8. CASE Failing \/ Reading \/ Writing \/ Deleting
  <2>1. PICK q, a : Handles(q, a)
      BY <1>8 DEF Failing, Reading, Writing, Deleting
  <2>2. /\ form'.badLoad = form.badLoad /\ form'.id = form.id /\ form'.old = form.old /\ form'.decrypts = form.decrypts
        /\ form'.wire = (form.wire \ {q}) \cup {a} /\ a.kind = q.kind /\ a.known = q.known
      BY <2>1 DEF Handles, SameIds, SameValues
  <2> QED BY <2>2 DEF OldNone
<1>9. ASSUME NEW q, NEW m, Lacks(form, m, q), ~(q.known /\ q.kind = "get") PROVE OldNone(m)
    BY <1>9, OldRests DEF Lacks, SameIds, SameValues
<1>10. CASE Dropping
  <2>1. PICK q \in form.wire : /\ Lacks(form, form', q)
                               /\ q.known => q.kind = "sub" \/ Crosses(Unread({q.kind}))
      BY <1>10 DEF Dropping
  <2>2. ~(q.known /\ q.kind = "get")
      BY <2>1 DEF Crosses, Unread
  <2> QED BY <1>9, <2>1, <2>2
<1>11. CASE LoadsNow
  <2>1. PICK q, m : /\ q \in form.wire /\ q.kind = "get"
                    /\ IF q.rows = 1 THEN LoadsRow(m, form', q) ELSE LoadsNone(m, form')
      BY <1>11 DEF LoadsNow
  <2>2. q.id # None /\ RowFits(q.values)
      BY <2>1 DEF Base, Named, Flight
  <2>3. CASE ~encrypted /\ q.rows = 1
    <3>1. /\ form'.id[0] = q.id /\ form'.id[1] = q.values["ref"] /\ form'.old["other"] = q.values["other"]
        BY <2>1, <2>3 DEF LoadsRow
    <3> QED BY <2>2, <3>1 DEF OldNone, Fields, Index, RowFits
  <2>4. CASE encrypted \/ q.rows # 1
      BY <2>1, <2>4 DEF LoadsRow, LoadsNone, OldNone
  <2> QED BY <2>3, <2>4
<1>12. CASE JoinsNow
  <2>1. PICK q, m : /\ q \in form.wire /\ q.kind = "sub" /\ Lacks(form, m, q) /\ ShowsJoined(m, form', q)
      BY <1>12 DEF JoinsNow
  <2>2. q.id # None
      BY <2>1 DEF Found
  <2>3. OldNone(m)
      BY <1>9, <2>1
  <2>4. /\ form'.badLoad = m.badLoad /\ form'.decrypts = m.decrypts /\ form'.wire = m.wire
        /\ form'.id[0] = m.id[0] /\ form'.id[1] = q.id
        /\ form'.old["ref"] = m.old["ref"] /\ form'.old["name"] = m.old["name"]
      BY <2>1 DEF ShowsJoined, SameTraffic
  <2> QED BY <2>2, <2>3, <2>4 DEF OldNone, Fields, Index
<1>13. CASE KeysCome
  <2>1. PICK q, s, m : q.kind = "keys" /\ Lacks(form, m, q) /\ GoesOn(m, form', s)
      BY <1>13 DEF KeysCome
  <2> QED BY <1>9, <2>1, OldGoesOn
<1>14. CASE SetAnswered \/ DelAnswered
  <2>1. PICK q, m : /\ Lacks(form, m, q)
                    /\ (\E n : OpensIdle(m, form', n)) \/ (form.record # None /\ GetsIdle(m, form'))
      BY <1>14 DEF SetAnswered, DelAnswered
  <2>2. ASSUME NEW h, OldNone(h), Idles(h, form') PROVE OldNone(form')
      BY <2>2, OldRests DEF Idles, SameIds, SameValues, SameTraffic
  <2>3. CASE \E n : OpensIdle(m, form', n)
      BY <2>2, <2>3, OldOpens DEF OpensIdle
  <2>4. CASE form.record # None /\ GetsIdle(m, form')
    <3>1. PICK l, h : IsSaved(m, l) /\ Gets(l, h) /\ Idles(h, form')
        BY <2>4 DEF GetsIdle
    <3>2. l.record # None
        BY <2>1, <2>4, <3>1 DEF Lacks, IsSaved, SamePage
    <3> QED BY <2>2, <3>1, <3>2, OldOpens
  <2> QED BY <2>1, <2>3, <2>4
<1>15. CASE Rejected
  <2>1. PICK q, m : /\ q.kind \in {"set", "del", "keys"} /\ Lacks(form, m, q) /\ SameIds(m, form') /\ SameValues(m, form')
                    /\ form'.wire = m.wire /\ form'.decrypts = m.decrypts
      BY <1>15 DEF Rejected
  <2>2. OldNone(m)
      BY <1>9, <2>1
  <2> QED BY <2>1, <2>2, OldRests DEF SameIds, SameValues
<1>16. CASE Decrypting
  <2>1. PICK q \in form.decrypts : \E m : SameIds(form, m) /\ ShowsRow(m, form', q)
      BY <1>16 DEF Decrypting
  <2>2. q.id # None /\ RowFits(q.values)
      BY DEF Base, Named, Flight, Numbers, Numbered
  <2>3. form'.id[0] = q.id /\ form'.id[1] = q.values["ref"] /\ form'.old["other"] = q.values["other"]
      BY <2>1 DEF LoadsShown, ShowsRow, SameIds
  <2> QED BY <2>2, <2>3 DEF OldNone, Fields, Index, RowFits
<1>17. CASE Unreadable
    BY <1>17 DEF Unreadable, OldNone
<1>18. CASE Encrypting \/ Unencrypted
  <2>1. SameIds(form, form') /\ SameValues(form, form') /\ form'.decrypts = form.decrypts /\ form.wire \subseteq form'.wire
      BY <1>18 DEF Encrypting, SendsSet, Unencrypted
  <2> QED BY <2>1, OldRests DEF SameIds, SameValues
<1> QED BY <1>1, <1>2, <1>3, <1>4, <1>5, <1>6, <1>7, <1>8, <1>10, <1>11, <1>12, <1>13, <1>14, <1>15, <1>16, <1>17, <1>18
        DEF Moving

\* steps that show nothing else
LEMMA ChangesRest ==
    ASSUME NEW f, NEW g, KeepsChanges(f), g.id = f.id, g.old = f.old, g.saves \subseteq f.saves,
           Quiet(f) => Quiet(g), \A q \in g.wire : q \in f.wire \/ q.kind # "set"
    PROVE  KeepsChanges(g)
<1>1. \A s, x : Keeps(f, s, x) => Keeps(g, s, x)
    BY DEF Keeps
<1> QED BY <1>1 DEF KeepsChanges

\* nothing is saved
LEMMA NoSaveKeeps ==
    ASSUME NEW f, NEW g, KeepsChanges(f), g.saves = {},
           \A q \in g.wire : q \in f.wire \/ q.kind # "set"
    PROVE  KeepsChanges(g)
BY DEF KeepsChanges

\* what is not in the request of a save has its value
LEMMA SentKeeps ==
    ASSUME NEW f \in Form, NEW first, NEW C, NEW B, NEW q, C \subseteq {first} \cup After(first),
           \A x \in C \ {first} : B[x] = f.old[x] /\ (f.id[Index(x)] = None => f.old[x] = None),
           q.fields = {first} \cup {field \in After(first) : ToWrite(f, field)},
           q.changed = C, q.before = B, \A x \in {"ref", "other"} : q.values[x] = f.new[x],
           first \in Fields
    PROVE  \A x \in q.changed : x \in q.fields \/ q.values[x] = q.before[x]
<1> SUFFICES ASSUME NEW x \in C, x \notin q.fields PROVE q.values[x] = B[x]
    OBVIOUS
<1>1. x \in After(first) /\ x # first /\ ~ToWrite(f, x)
    OBVIOUS
<1>2. x \in {"ref", "other"}
    BY <1>1 DEF After, Fields
<1>3. f.new[x] = f.old[x]
    BY <1>1 DEF ToWrite
<1> QED BY <1>1, <1>2, <1>3

LEMMA ChangesGoOn ==
    ASSUME NEW f \in Form, NEW g, NEW s \in Save, GoesOn(f, g, s), Quiet(f),
           s.changed \subseteq {s.first} \cup After(s.first),
           \A x \in s.changed \ {s.first} : Keeps(f, s, x),
           KeepsChanges(f)
    PROVE  KeepsChanges(g)
<1>1. g.id = f.id /\ g.old = f.old /\ Quiet(g)
    BY GoingOnLoads DEF GoesOn, Encrypts, SendsSet, SameIds, SameValues
<1>2. CASE Encrypts(f, g, s)
  <2>1. PICK t : /\ t.first = s.first /\ t.changed = s.changed /\ t.before = s.before
                 /\ g.saves = (f.saves \ {s}) \cup {t} /\ g.wire = f.wire
      BY <1>2 DEF Encrypts
  <2>2. \A x \in t.changed \ {t.first} : Keeps(g, t, x)
      BY <1>1, <2>1 DEF Keeps
  <2>3. \A u, x : Keeps(f, u, x) => Keeps(g, u, x)
      BY <1>1 DEF Keeps
  <2> QED BY <1>1, <2>1, <2>2, <2>3 DEF KeepsChanges
<1>3. CASE SendsSet(f, g, s.first, f.id[0], f.new["name"], None, s.opened, s.shown, s.changed, s.before, f.saves \ {s})
  <2>1. PICK q : /\ q.kind = "set" /\ q.changed = s.changed /\ q.before = s.before
                 /\ \A x \in {"ref", "other"} : q.values[x] = f.new[x]
                 /\ q.fields = {s.first} \cup {field \in After(s.first) : ToWrite(f, field)}
                 /\ g.saves = f.saves \ {s} /\ g.wire = f.wire \cup {q}
      BY <1>3 DEF SendsSet
  <2>2. s.first \in Fields
      BY DEF Save
  <2>3. \A x \in s.changed \ {s.first} : s.before[x] = f.old[x] /\ (f.id[Index(x)] = None => f.old[x] = None)
      BY DEF Keeps
  <2>4. \A x \in q.changed : x \in q.fields \/ q.values[x] = q.before[x]
      BY <2>1, <2>2, <2>3, SentKeeps
  <2>5. \A u, x : Keeps(f, u, x) => Keeps(g, u, x)
      BY <1>1 DEF Keeps
  <2> QED BY <1>1, <2>1, <2>4, <2>5 DEF KeepsChanges
<1> QED BY <1>2, <1>3 DEF GoesOn

\* a new save, of a form whose record is loaded
LEMMA SavesChanges ==
    ASSUME NEW f, NEW s, Saves(f, s), Quiet(f), ~f.badLoad, OldNone(f)
    PROVE  /\ s.changed \subseteq {s.first} \cup After(s.first)
           /\ \A x \in s.changed : Keeps(f, s, x)
<1>1. s.changed \subseteq {s.first} \cup After(s.first) /\ s.changed \subseteq Fields
    BY DEF Saves, Changes, After, Fields
<1>2. \A x \in Fields : f.id[Index(x)] = None => f.old[x] = None
    BY DEF OldNone, Quiet, Loading
<1> QED BY <1>1, <1>2 DEF Saves, Keeps

LEMMA ChangesKept ==
    ASSUME Base, Moving, crossed' \cap Unkept = {}, OldNone(form), LoadsShown(form), KeepsChanges(form)
    PROVE  KeepsChanges(form')
<1>0. /\ "switched" \notin crossed' /\ "related" \notin crossed' /\ "early" \notin crossed'
      /\ form.wire \subseteq Request /\ form.saves \subseteq Save /\ form \in Form
    BY FormOfBase DEF Unkept
<1>1. CASE Typing
  <2>1. form'.id = form.id /\ form'.old = form.old /\ SameTraffic(form, form')
      BY <1>1 DEF Typing, SameIds
  <2>2. Quiet(form) => Quiet(form')
      BY <2>1 DEF SameTraffic, Quiet, Loading
  <2> QED BY <2>1, <2>2, ChangesRest DEF SameTraffic
<1>2. CASE Clearing
  <2>1. form.saves = {}
      BY <1>0, <1>2, QuietlyRelated DEF Clearing
  <2> QED BY <1>2, <2>1, NoSaveKeeps DEF Clearing, Relates
<1>3. CASE Relating
  <2>1. PICK record, q : /\ Relates(record) /\ q.kind = "sub"
                         /\ form'.wire = form.wire \cup {q} /\ form'.saves = form.saves
      BY <1>3 DEF Relating, Relates, Asks
  <2>2. form.saves = {}
      BY <1>0, <2>1, QuietlyRelated
  <2> QED BY <2>1, <2>2, NoSaveKeeps
<1>4. CASE SaveStarts
  <2>1. Quiet(form) /\ ~form.badLoad
      BY <1>0, <1>4, CrossesBoth, NotEarly, StillIsQuiet DEF SaveStarts
  <2>2. CASE SaveFails(form, form')
    <3>1. Quiet(form')
        BY <2>1, <2>2 DEF SaveFails, SameTraffic, Quiet, Loading
    <3> QED BY <2>2, <3>1, ChangesRest DEF SaveFails, SameIds, SameValues, SameTraffic
  <2>3. CASE SaveAsksKeys(form, form')
    <3>1. PICK s, q : /\ Saves(form, s) /\ q.kind = "keys"
                      /\ form'.saves = form.saves \cup {s} /\ form'.wire = form.wire \cup {q}
        BY <2>3 DEF SaveAsksKeys
    <3>2. form'.id = form.id /\ form'.old = form.old /\ form'.decrypts = form.decrypts
        BY <2>3 DEF SaveAsksKeys, SameValues
    <3>3. Quiet(form')
        BY <2>1, <3>1, <3>2 DEF Quiet, Loading
    <3>4. s.changed \subseteq {s.first} \cup After(s.first) /\ \A x \in s.changed : Keeps(form, s, x)
        BY <2>1, <3>1, SavesChanges
    <3>5. \A t, x : Keeps(form, t, x) => Keeps(form', t, x)
        BY <3>2 DEF Keeps
    <3> QED BY <3>1, <3>3, <3>4, <3>5 DEF KeepsChanges
  <2>4. CASE SaveGoesOn(form, form')
    <3>1. PICK m, s : Updating(form, m) /\ Saves(form, s) /\ GoesOn(m, form', s)
        BY <2>4 DEF SaveGoesOn
    <3>2. m \in Form /\ m.id = form.id /\ m.old = form.old /\ SameTraffic(form, m)
        BY <3>1 DEF Updating, SameIds, SameValues
    <3>3. Quiet(m)
        BY <2>1, <3>2 DEF SameTraffic, Quiet, Loading
    <3>4. KeepsChanges(m)
        BY <3>2, <3>3, ChangesRest DEF SameTraffic
    <3>5. s.changed \subseteq {s.first} \cup After(s.first) /\ \A x \in s.changed : Keeps(form, s, x)
        BY <2>1, <3>1, SavesChanges
    <3>6. s \in Save /\ \A x \in s.changed \ {s.first} : Keeps(m, s, x)
        BY <3>1, <3>2, <3>5 DEF Keeps, Saves
    <3> QED BY <3>1, <3>2, <3>3, <3>4, <3>5, <3>6, ChangesGoOn
  <2> QED BY <1>4, <2>2, <2>3, <2>4 DEF SaveStarts
<1>5. CASE Opening
  <2>1. PICK n : Opens(form, form', n) /\ Crosses(Switches \cup AskedThen)
      BY <1>5 DEF Opening
  <2>2. form.saves = {}
      BY <1>0, <2>1, CrossesBoth, NotSwitched
  <2> QED BY <2>1, <2>2, NoSaveKeeps DEF Opens
<1>6. CASE LoadsAgain
  <2>1. form.saves = {}
      BY <1>0, <1>6, NotSwitched DEF LoadsAgain
  <2> QED BY <1>6, <2>1, NoSaveKeeps DEF LoadsAgain, Gets, Asks
<1>7. CASE Asking \/ Answering
  <2>1. Rests(form, form') /\ \A q \in form'.wire : q \in form.wire \/ q.kind = "del"
      BY <1>7 DEF Asking, Answering, Asks
  <2>2. Quiet(form) => Quiet(form')
      BY <2>1 DEF Rests, Quiet, Loading
  <2> QED BY <2>1, <2>2, ChangesRest DEF Rests, SameIds, SameValues
<1>8. CASE Cancelling
  <2>1. \A q \in form.wire : /\ Forgotten(q).kind = q.kind /\ Forgotten(q).changed = q.changed
                             /\ Forgotten(q).fields = q.fields /\ Forgotten(q).values = q.values
                             /\ Forgotten(q).before = q.before /\ ~Forgotten(q).known
      BY <1>0 DEF Request, Forgotten
  <2>2. /\ form'.wire = {Forgotten(q) : q \in form.wire} /\ form'.saves \subseteq form.saves
        /\ form'.decrypts = form.decrypts /\ form'.id = form.id /\ form'.old = form.old
      BY <1>8 DEF Cancelling, SameIds, SameValues
  <2>3. form'.saves # {} => Quiet(form')
      BY <2>1, <2>2 DEF KeepsChanges, Quiet, Loading
  <2>4. \A q \in form'.wire : q.kind = "set" => \A x \in q.changed : x \in q.fields \/ q.values[x] = q.before[x]
      BY <2>1, <2>2 DEF KeepsChanges
  <2>5. \A s, x : Keeps(form, s, x) => Keeps(form', s, x)
      BY <2>2 DEF Keeps
  <2> QED BY <2>2, <2>3, <2>4, <2>5 DEF KeepsChanges
<1>9. CASE Failing \/ Reading \/ Writing \/ Deleting
  <2>1. PICK q, a : Handles(q, a) /\ (q.kind = "set" => a.values = q.values)
      BY <1>9 DEF Failing, Reading, Writing, Deleting
  <2>2. /\ q \in form.wire /\ form'.wire = (form.wire \ {q}) \cup {a} /\ a.kind = q.kind /\ a.known = q.known
        /\ a.changed = q.changed /\ a.before = q.before /\ a.fields = q.fields
        /\ form'.decrypts = form.decrypts /\ form'.saves = form.saves /\ form'.id = form.id /\ form'.old = form.old
      BY <2>1 DEF Handles, SameIds, SameValues
  <2>3. Quiet(form) => Quiet(form')
      BY <2>2 DEF Quiet, Loading
  <2>4. \A s, x : Keeps(form, s, x) => Keeps(form', s, x)
      BY <2>2 DEF Keeps
  <2>5. \A r \in form'.wire : r.kind = "set" => \A x \in r.changed : x \in r.fields \/ r.values[x] = r.before[x]
      BY <2>1, <2>2 DEF KeepsChanges
  <2> QED BY <2>2, <2>3, <2>4, <2>5 DEF KeepsChanges
<1>10. ASSUME NEW q \in form.wire, NEW m, Lacks(form, m, q)
       PROVE  KeepsChanges(m) /\ m.saves = form.saves /\ (Quiet(form) => Quiet(m)) /\ m.wire \subseteq form.wire
  <2>1. Quiet(form) => Quiet(m)
      BY <1>10 DEF Lacks, Quiet, Loading
  <2> QED BY <1>10, <2>1, ChangesRest DEF Lacks, SameIds, SameValues
<1>11. CASE Dropping
    BY <1>10, <1>11 DEF Dropping
<1>12. CASE LoadsNow \/ JoinsNow
  <2>1. PICK q, m : /\ q \in form.wire /\ q.known /\ q.kind \in {"get", "sub"} /\ Lacks(form, m, q)
                    /\ form'.wire = m.wire /\ form'.saves = m.saves
      BY <1>12 DEF LoadsNow, JoinsNow, Arriving, LoadsRow, LoadsNone, ShowsJoined, SameTraffic
  <2>2. form.saves = {}
      BY <2>1 DEF KeepsChanges, Quiet, Loading
  <2> QED BY <1>10, <2>1, <2>2, NoSaveKeeps
<1>13. CASE KeysCome
  <2>1. PICK q, s, m : /\ q \in form.wire /\ s \in form.saves
                       /\ Lacks(form, m, q) /\ GoesOn(m, form', s)
      BY <1>13 DEF KeysCome
  <2>2. KeepsChanges(m) /\ s \in m.saves /\ m \in Form /\ s \in Save
      BY <1>0, <1>10, <2>1 DEF Lacks
  <2> QED BY <2>1, <2>2, ChangesGoOn DEF KeepsChanges
<1>14. CASE SetAnswered \/ DelAnswered
  <2>1. PICK q, m : /\ q \in form.wire
                    /\ Lacks(form, m, q) /\ Crosses(Switches) /\ ((\E n : OpensIdle(m, form', n)) \/ GetsIdle(m, form'))
      BY <1>14, CrossesBoth DEF SetAnswered, DelAnswered
  <2>2. m.saves = {} /\ m.wire \subseteq form.wire
      BY <1>0, <2>1, NotSwitched DEF Lacks
  <2>3. form'.saves = {} /\ \A x \in form'.wire : x \in m.wire \/ x.kind = "get"
    <3>1. CASE \E n : OpensIdle(m, form', n)
        BY <2>2, <3>1 DEF OpensIdle, Opens, Idles, SameTraffic
    <3>2. CASE GetsIdle(m, form')
        BY <2>2, <3>2 DEF GetsIdle, IsSaved, Gets, Asks, Idles, SameTraffic
    <3> QED BY <2>1, <3>1, <3>2
  <2> QED BY <2>2, <2>3, NoSaveKeeps
<1>15. CASE Rejected
  <2>1. PICK q, m : /\ q \in form.wire
                    /\ Lacks(form, m, q) /\ form'.id = m.id /\ form'.old = m.old
                    /\ form'.wire = m.wire /\ form'.decrypts = m.decrypts
                    /\ form'.saves \subseteq form.saves
      BY <1>15 DEF Rejected, SameIds, SameValues
  <2>2. Quiet(m) => Quiet(form')
      BY <2>1 DEF Quiet, Loading
  <2> QED BY <1>10, <2>1, <2>2, ChangesRest
<1>16. CASE Decrypting \/ Unreadable
  <2>1. form.saves = {}
      BY <1>16 DEF Decrypting, Unreadable, KeepsChanges, Quiet, Loading
  <2> QED BY <1>16, <2>1, NoSaveKeeps DEF Decrypting, Unreadable, ShowsRow, SameTraffic
<1>17. CASE Encrypting
  <2>1. PICK s, q : /\ s \in form.saves
                    /\ q.kind = "set" /\ q.changed = s.changed /\ q.before = s.before
                    /\ \A x \in {"ref", "other"} : q.values[x] = form.new[x]
                    /\ q.fields = {s.first} \cup {field \in After(s.first) : ToWrite(form, field)}
                    /\ form'.wire = form.wire \cup {q} /\ form'.saves = form.saves \ {s}
                    /\ form'.id = form.id /\ form'.old = form.old /\ form'.decrypts = form.decrypts
      BY <1>17 DEF Encrypting, SendsSet, SameIds, SameValues
  <2>2. s \in Save /\ s.first \in Fields
      BY <1>0, <2>1 DEF Save
  <2>3. \A x \in s.changed \ {s.first} :
            s.before[x] = form.old[x] /\ (form.id[Index(x)] = None => form.old[x] = None)
      BY <2>1 DEF KeepsChanges, Keeps
  <2>4. s.changed \subseteq {s.first} \cup After(s.first)
      BY <2>1 DEF KeepsChanges
  <2>5. \A x \in q.changed : x \in q.fields \/ q.values[x] = q.before[x]
      BY <1>0, <2>1, <2>2, <2>3, <2>4, SentKeeps
  <2>6. \A t, x : Keeps(form, t, x) => Keeps(form', t, x)
      BY <2>1 DEF Keeps
  <2>7. Quiet(form) => Quiet(form')
      BY <2>1 DEF Quiet, Loading
  <2> QED BY <2>1, <2>5, <2>6, <2>7 DEF KeepsChanges
<1>18. CASE Unencrypted
  <2>1. /\ form'.id = form.id /\ form'.old = form.old /\ form'.saves \subseteq form.saves
        /\ form'.wire = form.wire /\ form'.decrypts = form.decrypts
      BY <1>18 DEF Unencrypted, SameIds, SameValues
  <2>2. Quiet(form) => Quiet(form')
      BY <2>1 DEF Quiet, Loading
  <2> QED BY <2>1, <2>2, ChangesRest
<1> QED BY <1>1, <1>2, <1>3, <1>4, <1>5, <1>6, <1>7, <1>8, <1>9, <1>11, <1>12, <1>13, <1>14, <1>15, <1>16, <1>17, <1>18
        DEF Moving

\* What was changed when the user saved is in the request, or has its original value
\* again, whatever is typed, restored or cleared while the save waits.
THEOREM AllChangesSaved == Spec => []SavesAllChanges
<1>1. Init => ChangesStay
  <2> SUFFICES ASSUME Init PROVE OldNone(form) /\ KeepsChanges(form)
      BY DEF ChangesStay
  <2>1. PICK f, n : Opens(f, form, n) /\ f.saves = {} /\ f.wire = {}
      BY LoadsFirst
  <2>2. KeepsChanges(form)
      BY <2>1 DEF Opens, KeepsChanges
  <2> QED BY <2>1, <2>2, OldOpens
<1>2. Base /\ Found(form) /\ LoadsStay /\ ChangesStay /\ [Next]_vars => ChangesStay'
  <2>1. CASE UNCHANGED vars
    <3>1. form' = form /\ crossed' = crossed
        BY <2>1 DEF vars
    <3>2. OldNone(form)' <=> OldNone(form)
        BY <3>1 DEF OldNone
    <3>3. KeepsChanges(form)' <=> KeepsChanges(form)
        BY <3>1 DEF KeepsChanges, Keeps, Quiet, Loading
    <3> QED BY <3>1, <3>2, <3>3 DEF ChangesStay
  <2>2. ASSUME Base, Found(form), LoadsStay, ChangesStay, Next, crossed' \cap Unkept = {}
        PROVE  OldNone(form') /\ KeepsChanges(form')
    <3>1. Moving
        BY <2>2, Moves
    <3>2. crossed \cap Unkept = {} /\ crossed \cap {"switched", "related"} = {} /\ "unloaded" \notin crossed'
        BY <2>2, <3>1, HistoryGrows DEF Unkept
    <3>3. LoadsShown(form) /\ OldNone(form) /\ KeepsChanges(form)
        BY <2>2, <3>2 DEF LoadsStay, ChangesStay
    <3> QED BY <2>2, <3>1, <3>2, <3>3, OldKept, ChangesKept
  <2>3. ASSUME Base, Found(form), LoadsStay, ChangesStay, Next PROVE ChangesStay'
    <3>1. OldNone(form') => OldNone(form)'
        BY DEF OldNone
    <3>2. KeepsChanges(form') => KeepsChanges(form)'
        BY DEF KeepsChanges, Keeps, Quiet, Loading
    <3> QED BY <2>2, <2>3, <3>1, <3>2 DEF ChangesStay
  <2> QED BY <2>1, <2>3
<1>3. ChangesStay => SavesAllChanges
    BY DEF ChangesStay, Unkept, KeepsChanges, SavesAllChanges, Saving
<1> QED BY <1>1, <1>2, <1>3, LoadsHold, PTL DEF Spec

-----------------------------------------------------------------------------
(* A save goes to the record that is shown.                                  *)

KeyFor(id) == IF id = None THEN FreshKey ELSE id

\* When it is loaded the ids and the key of the form are those of the record; a form
\* that is loading has values only of a row that is decrypted.
IdsShown(f) ==
    /\ f.id[0] = f.record \/ f.badLoad
    /\ f.id[1] = f.new["ref"] \/ f.badLoad \/ f.loading \/ \E x : Loading(f, x) /\ x.kind = "sub"
    /\ encrypted /\ f.key # None => f.key = KeyFor(f.id[0]) \/ f.badLoad \/ f.loading
    /\ f.loading => /\ \A x : Loading(f, x) => x.kind = "get"
                    /\ f.decrypts # {} \/ (f.new = Empty /\ f.old = Empty /\ f.id[0] # None)

\* Nothing is loaded while a save waits, and it is of the record that is shown.
SavesShown(f) ==
    /\ f.saves # {} => ~f.badLoad /\ ~f.loading /\ Quiet(f)
    /\ \A s \in f.saves :
        /\ s.shown = f.record
        /\ s.step = "keys" => f.key # None
        /\ s.step = "encrypt" => s.id = s.shown /\ s.keyOf = KeyFor(s.id)

GoesToShown(q) ==
    /\ q.id = q.shown
    /\ "other" \in q.fields => q.rel1 = q.values["ref"]
    /\ encrypted /\ "name" \in q.fields /\ q.values["name"] # None => q.keyOf = KeyFor(q.id)

SentRight(f) == \A q \in f.wire : q.kind = "set" /\ q.state = "asked" => GoesToShown(q)

AllShown(f) == IdsShown(f) /\ SavesShown(f) /\ SentRight(f)

Unexpected == {"switched", "related", "cleared", "early", "unjoined"}
ShownWritten == crossed \cap Unexpected = {} => AllShown(form)

\* steps that load nothing, save nothing new and leave values or the loading form alone
LEMMA ShownRests ==
    ASSUME NEW f, NEW g, AllShown(f), g.record = f.record, SameIds(f, g), g.decrypts = f.decrypts,
           g.new["ref"] = f.new["ref"], ~f.loading \/ (g.new = f.new /\ g.old = f.old),
           g.saves \subseteq f.saves,
           \A x : Loading(g, x) <=> Loading(f, x),
           \A q \in g.wire : q \in f.wire \/ q.kind # "set"
    PROVE  AllShown(g)
<1>1. Quiet(g) <=> Quiet(f)
    BY DEF Quiet
<1>2. IdsShown(g)
    BY DEF AllShown, IdsShown, SameIds
<1>3. SavesShown(g)
    BY <1>1 DEF AllShown, SavesShown, SameIds
<1>4. SentRight(g)
    BY DEF AllShown, SentRight
<1> QED BY <1>2, <1>3, <1>4 DEF AllShown

\* a record is opened or loaded again, when nothing else is loaded or saved
LEMMA ShownOpens ==
    ASSUME NEW f, NEW g, NEW n, Opens(f, g, n) \/ (Gets(f, g) /\ f.record # None),
           Quiet(f), f.saves = {}, SentRight(f), Gets(f, g) => IdsShown(f)
    PROVE  AllShown(g)
<1>1. g.saves = {} /\ SavesShown(g)
    BY DEF Opens, Gets, SavesShown
<1>2. g.id[0] = g.record
    BY DEF Opens, Gets
<1>3. CASE Opens(f, g, n) /\ n = None
  <2>1. /\ g.wire = f.wire /\ g.id[1] = None /\ g.key = None /\ ~g.loading /\ g.new["ref"] = None
      BY <1>3 DEF Opens, Empty, Fields
  <2>2. IdsShown(g)
      BY <1>2, <2>1 DEF IdsShown
  <2> QED BY <1>1, <2>1, <2>2 DEF AllShown, SentRight
<1>4. CASE (Opens(f, g, n) /\ n # None) \/ (Gets(f, g) /\ f.record # None)
  <2>1. PICK q : q.kind = "get" /\ g.wire = f.wire \cup {q} /\ \A x : Loading(g, x) <=> x = q
    <3>1. g.record # None
        BY <1>4 DEF Opens, Gets
    <3> QED BY <1>4, <3>1, LoadsOpen
  <2>2. SentRight(g)
      BY <2>1 DEF SentRight
  <2>3. CASE Opens(f, g, n) /\ n # None
    <3>1. g.loading /\ g.new = Empty /\ g.old = Empty /\ g.id[0] # None
        BY <2>3 DEF Opens
    <3> QED BY <1>1, <1>2, <2>1, <2>2, <3>1 DEF AllShown, IdsShown
  <2>4. CASE Gets(f, g) /\ f.record # None
    <3>1. /\ g.id[0] = f.record /\ f.record # None /\ g.id[1] = f.id[1] /\ g.key = f.key /\ g.badLoad = f.badLoad
          /\ g.loading = f.loading /\ g.new = f.new /\ g.old = f.old /\ g.record = f.record
        BY <2>4 DEF Gets
    <3>2. f.decrypts = {} /\ \A x : ~Loading(f, x)
        BY DEF Quiet, Loading
    <3>3. IdsShown(f)
        BY <2>4
    <3>4. g.id[1] = g.new["ref"] \/ g.badLoad \/ g.loading
        BY <3>1, <3>2, <3>3 DEF IdsShown
    <3>5. encrypted /\ g.key # None => g.key = KeyFor(g.id[0]) \/ g.badLoad \/ g.loading
        BY <3>1, <3>3 DEF IdsShown
    <3>6. g.loading => g.new = Empty /\ g.old = Empty /\ g.id[0] # None
        BY <3>1, <3>2, <3>3 DEF IdsShown
    <3>7. IdsShown(g)
        BY <1>2, <2>1, <3>4, <3>5, <3>6 DEF IdsShown
    <3> QED BY <1>1, <2>2, <3>7 DEF AllShown
  <2> QED BY <1>4, <2>3, <2>4
<1> QED BY <1>3, <1>4

\* the request of a save is sent
LEMMA ShownSends ==
    ASSUME NEW f, NEW g, NEW first \in Fields, NEW id, NEW v, NEW k, NEW o, NEW w, NEW c, NEW b, NEW S,
           SendsSet(f, g, first, id, v, k, o, w, c, b, S), AllShown(f), Quiet(f), ~f.badLoad, ~f.loading,
           S \subseteq f.saves,
           id = w, encrypted /\ first = "name" /\ v # None => k = KeyFor(id)
    PROVE  AllShown(g)
<1>1. PICK q : /\ q.kind = "set"
               /\ q.id = id /\ q.keyOf = k /\ q.shown = w
               /\ q.rel1 = f.id[1] /\ q.values["ref"] = f.new["ref"]
               /\ first = "name" => q.values["name"] = v
               /\ q.fields = {first} \cup {field \in After(first) : ToWrite(f, field)}
               /\ g.wire = f.wire \cup {q}
    BY DEF SendsSet
<1>2. /\ g.record = f.record /\ SameIds(f, g) /\ g.new = f.new
      /\ g.decrypts = f.decrypts /\ g.saves = S
    BY DEF SendsSet, SamePage, SameValues
<1>3. \A x : Loading(g, x) <=> Loading(f, x)
    BY <1>1, <1>2 DEF Loading
<1>4. Quiet(g)
    BY <1>3 DEF Quiet
<1>5. "name" \in q.fields => first = "name"
    BY <1>1 DEF After, Fields
<1>6. f.id[1] = f.new["ref"]
    BY DEF AllShown, IdsShown, Quiet
<1>7. GoesToShown(q)
    BY <1>1, <1>5, <1>6 DEF GoesToShown
<1>8. IdsShown(g)
    BY <1>2, <1>3 DEF AllShown, IdsShown, SameIds
<1>9. SavesShown(g)
    BY <1>2, <1>4 DEF AllShown, SavesShown, SameIds
<1>10. SentRight(g)
    BY <1>1, <1>7 DEF AllShown, SentRight
<1> QED BY <1>8, <1>9, <1>10 DEF AllShown

\* a save of the record that is shown goes on
LEMMA ShownGoesOn ==
    ASSUME NEW f, NEW g, NEW s \in Save, GoesOn(f, g, s), AllShown(f), Quiet(f), ~f.badLoad, ~f.loading,
           s.shown = f.record, encrypted => f.key # None
    PROVE  AllShown(g)
<1>1. f.id[0] = s.shown
    BY DEF AllShown, IdsShown
<1>2. CASE Encrypts(f, g, s)
  <2>1. PICK t : /\ t.step = "encrypt" /\ t.id = f.id[0] /\ t.keyOf = f.key /\ t.shown = s.shown
                 /\ g.saves = (f.saves \ {s}) \cup {t}
      BY <1>2 DEF Encrypts
  <2>2. /\ g.record = f.record /\ SameIds(f, g) /\ g.new = f.new /\ g.decrypts = f.decrypts /\ g.wire = f.wire
        /\ encrypted
      BY <1>2 DEF Encrypts, SamePage, SameValues
  <2>3. f.key = KeyFor(f.id[0])
      BY <2>2 DEF AllShown, IdsShown
  <2>4. \A x : Loading(g, x) <=> Loading(f, x)
      BY <2>2 DEF Loading
  <2>5. Quiet(g)
      BY <2>4 DEF Quiet
  <2>6. IdsShown(g)
      BY <2>2, <2>4 DEF AllShown, IdsShown, SameIds
  <2>7. SavesShown(g)
      BY <1>1, <2>1, <2>2, <2>3, <2>5 DEF AllShown, SavesShown, SameIds
  <2>8. SentRight(g)
      BY <2>2 DEF AllShown, SentRight
  <2> QED BY <2>6, <2>7, <2>8 DEF AllShown
<1>3. CASE SendsSet(f, g, s.first, f.id[0], f.new["name"], None, s.opened, s.shown, s.changed, s.before, f.saves \ {s})
           /\ ~(encrypted /\ s.first = "name" /\ f.new["name"] # None)
  <2>1. s.first \in Fields /\ f.saves \ {s} \subseteq f.saves
      BY DEF Save
  <2> QED BY <1>1, <1>3, <2>1, ShownSends
<1> QED BY <1>2, <1>3 DEF GoesOn

\* a loading form has nothing to save, unless a row is decrypted
LEMMA LoadingUnchanged ==
    ASSUME form \in Form, IdsShown(form), form.loading, Quiet(form)
    PROVE  Changes(form) = {}
<1>1. form.new = Empty /\ form.old = Empty /\ form.id[0] # None
    BY DEF IdsShown, Quiet, Loading
<1>2. \A x \in Fields : form.new[x] = None /\ form.old[x] = None
    BY <1>1 DEF Empty
<1> QED BY <1>2 DEF Changes, ToWrite

\* a new save is of the record that is shown
LEMMA ShownSaves ==
    ASSUME Base, SaveStarts, "early" \notin crossed', AllShown(form)
    PROVE  AllShown(form')
<1>0. form.saves \subseteq Save /\ form.wire \subseteq Request /\ form \in Form
    BY FormOfBase
<1>1. Quiet(form) /\ ~form.badLoad
    BY CrossesBoth, NotEarly, StillIsQuiet DEF SaveStarts
<1>2. ~form.loading
    BY <1>0, <1>1, LoadingUnchanged DEF SaveStarts, AllShown
<1>3. form.id[0] = form.record /\ form.id[1] = form.new["ref"]
    BY <1>1, <1>2 DEF AllShown, IdsShown, Quiet
<1>4. CASE SaveFails(form, form')
  <2>1. \A x : Loading(form', x) <=> Loading(form, x)
      BY <1>4 DEF SaveFails, SameTraffic, Loading
  <2> QED BY <1>4, <2>1, ShownRests DEF SaveFails, SameValues, SameTraffic
<1>5. CASE SaveAsksKeys(form, form')
  <2>1. PICK s, q : /\ Saves(form, s) /\ q.kind = "keys"
                    /\ form'.saves = form.saves \cup {s} /\ form'.wire = form.wire \cup {q}
      BY <1>5 DEF SaveAsksKeys
  <2>2. /\ form'.record = form.record /\ form'.id = form.id /\ form'.badLoad = form.badLoad
        /\ form'.loading = form.loading
        /\ form'.key = FreshKey /\ form'.new = form.new /\ form'.decrypts = form.decrypts
        /\ form.id[0] = None
      BY <1>5 DEF SaveAsksKeys, SameValues
  <2>3. \A x : Loading(form', x) <=> Loading(form, x)
      BY <2>1, <2>2 DEF Loading
  <2>4. Quiet(form')
      BY <1>1, <2>3 DEF Quiet
  <2>5. FreshKey # None
      BY RecordFormAssumption DEF FreshKey, None
  <2>6. IdsShown(form')
      BY <1>2, <1>3, <2>2 DEF IdsShown, KeyFor
  <2>7. s.shown = form.record /\ s.step = "keys"
      BY <2>1 DEF Saves
  <2>8. SavesShown(form')
      BY <1>1, <1>2, <2>1, <2>2, <2>4, <2>5, <2>7 DEF AllShown, SavesShown
  <2>9. SentRight(form')
      BY <2>1 DEF AllShown, SentRight
  <2> QED BY <2>6, <2>8, <2>9 DEF AllShown
<1>6. CASE SaveGoesOn(form, form')
  <2>1. PICK m, s : Updating(form, m) /\ Saves(form, s) /\ GoesOn(m, form', s)
      BY <1>6 DEF SaveGoesOn
  <2>2. encrypted => form.key # None
      BY <1>6 DEF SaveGoesOn
  <2>3. \A x : Loading(m, x) <=> Loading(form, x)
      BY <2>1 DEF Updating, SameTraffic, Loading
  <2>4. AllShown(m)
      BY <2>1, <2>3, ShownRests DEF Updating, SameValues, SameTraffic
  <2>5. /\ Quiet(m) /\ ~m.badLoad /\ ~m.loading /\ m.key = form.key /\ m.record = form.record
      BY <1>1, <1>2, <2>1, <2>3 DEF Updating, SameIds, Quiet
  <2>6. s \in Save /\ s.shown = form.record
      BY <2>1 DEF Saves
  <2> QED BY <2>1, <2>2, <2>4, <2>5, <2>6, ShownGoesOn
<1> QED BY <1>4, <1>5, <1>6 DEF SaveStarts

\* the row of the record comes
LEMMA ShownLoads ==
    ASSUME Base, LoadsNow, LoadsShown(form), AllShown(form)
    PROVE  AllShown(form')
<1>1. PICK q, m : /\ q \in form.wire
                  /\ q.known /\ q.kind = "get" /\ Lacks(form, m, q)
                  /\ IF q.rows = 1 THEN LoadsRow(m, form', q) ELSE LoadsNone(m, form')
    BY DEF LoadsNow, Arriving
<1>2. Loading(form, q) /\ q \notin form.decrypts /\ q.id # None
    BY <1>1 DEF Loading, Base, Numbers, Numbered, Named, Flight
<1>3. \A x : Loading(form, x) => x = q
    BY <1>2, OneLoads
<1>4. form.decrypts = {} /\ form.saves = {} /\ q.id = form.record
    BY <1>1, <1>2, <1>3 DEF AllShown, SavesShown, LoadsShown, Loading, Quiet
<1>5. /\ m.record = form.record /\ m.saves = {} /\ m.decrypts = {}
      /\ m.wire = form.wire \ {q}
    BY <1>1, <1>4 DEF Lacks, SamePage
<1>6. form'.record = form.record /\ form'.wire = m.wire /\ form'.saves = {}
    BY <1>1, <1>5 DEF LoadsRow, LoadsNone, SamePage, SameTraffic
<1>7. SavesShown(form') /\ SentRight(form')
    BY <1>5, <1>6 DEF AllShown, SavesShown, SentRight
<1>8. CASE q.rows # 1
  <2>1. form'.badLoad /\ form'.key = None /\ ~form'.loading
      BY <1>1, <1>8 DEF LoadsNone
  <2> QED BY <1>7, <2>1 DEF AllShown, IdsShown
<1>9. CASE q.rows = 1 /\ encrypted
  <2>1. /\ form'.decrypts = {q} /\ form'.id[0] = q.id /\ form'.key = None /\ form'.loading
      BY <1>1, <1>5, <1>9 DEF LoadsRow
  <2>2. \A x : Loading(form', x) => x = q
      BY <1>3, <1>5, <1>6, <2>1 DEF Loading
  <2> QED BY <1>1, <1>4, <1>6, <1>7, <2>1, <2>2 DEF AllShown, IdsShown
<1>10. CASE q.rows = 1 /\ ~encrypted
  <2>1. /\ form'.id[0] = q.id /\ form'.id[1] = q.values["ref"] /\ form'.new["ref"] = q.values["ref"] /\ ~form'.loading
      BY <1>1, <1>10 DEF LoadsRow
  <2> QED BY <1>4, <1>6, <1>7, <1>10, <2>1 DEF AllShown, IdsShown
<1> QED BY <1>8, <1>9, <1>10

\* the row of the joined record comes
LEMMA ShownJoins ==
    ASSUME Base, JoinsNow, LoadsShown(form), AllShown(form)
    PROVE  AllShown(form')
<1>1. PICK q, m : /\ q \in form.wire
                  /\ q.known /\ q.kind = "sub" /\ Lacks(form, m, q) /\ ShowsJoined(m, form', q)
    BY DEF JoinsNow, Arriving
<1>2. Loading(form, q)
    BY <1>1 DEF Loading
<1>3. form.saves = {} /\ q.id = form.new["ref"] /\ ~form.loading
    BY <1>1, <1>2 DEF AllShown, SavesShown, LoadsShown, IdsShown, Quiet
<1>4. /\ form'.record = form.record /\ form'.new["ref"] = form.new["ref"] /\ form'.saves = {}
      /\ form'.wire = form.wire \ {q} /\ form'.id[0] = form.id[0] /\ form'.loading = form.loading
      /\ form'.id[1] = q.id /\ form'.key = form.key /\ form'.badLoad = form.badLoad
    BY <1>1, <1>3 DEF Lacks, ShowsJoined, SamePage, SameTraffic, SameIds, SameValues
<1>5. IdsShown(form')
    BY <1>3, <1>4 DEF AllShown, IdsShown
<1>6. SavesShown(form') /\ SentRight(form')
    BY <1>4 DEF AllShown, SavesShown, SentRight
<1> QED BY <1>5, <1>6 DEF AllShown

\* the row of the record is decrypted, or cannot be
LEMMA ShownDecrypts ==
    ASSUME Base, Decrypting \/ Unreadable, LoadsShown(form), AllShown(form)
    PROVE  AllShown(form')
<1>1. PICK q \in form.decrypts :
             /\ form'.record = form.record /\ form'.wire = form.wire /\ form'.saves = form.saves
             /\ form'.id = form.id /\ ~form'.loading
             /\ \/ form'.badLoad
                \/ /\ form'.new["ref"] = q.values["ref"]
                   /\ form'.key \in {None, IF encrypted THEN q.id ELSE None}
    BY DEF Decrypting, Unreadable, ShowsRow, SamePage, SameTraffic, SameIds
<1>2. q.id # None
    BY DEF Base, Numbers, Numbered, Named, Flight
<1>3. form.saves = {} /\ form.id[0] = q.id /\ form.id[1] = q.values["ref"]
    BY DEF AllShown, SavesShown, LoadsShown, Quiet, Loading
<1>4. form'.id[0] = form'.record \/ form'.badLoad
    <2>1. q.id = form.record
        BY DEF LoadsShown, Loading, Base, Numbers, Numbered
    <2> QED BY <1>1, <1>3, <2>1
<1>5. IdsShown(form')
    BY <1>1, <1>2, <1>3, <1>4 DEF IdsShown, KeyFor
<1>6. SavesShown(form') /\ SentRight(form')
    BY <1>1, <1>3 DEF AllShown, SavesShown, SentRight
<1> QED BY <1>5, <1>6 DEF AllShown

\* the server answers a request, or it fails
LEMMA ShownHandles ==
    ASSUME Failing \/ Reading \/ Writing \/ Deleting, AllShown(form)
    PROVE  AllShown(form')
<1>1. PICK q, a : /\ Handles(q, a) /\ a.state # "asked"
    BY DEF Failing, Reading, Writing, Deleting
<1>2. /\ q \in form.wire /\ form'.wire = (form.wire \ {q}) \cup {a} /\ a.kind = q.kind /\ a.known = q.known
      /\ form'.record = form.record /\ form'.id = form.id /\ form'.key = form.key /\ form'.badLoad = form.badLoad
      /\ form'.loading = form.loading /\ form'.new = form.new /\ form'.old = form.old
      /\ form'.decrypts = form.decrypts /\ form'.saves = form.saves
    BY <1>1 DEF Handles, SamePage, SameIds, SameValues
<1>3. \A x : Loading(form', x) => \E y : Loading(form, y) /\ y.kind = x.kind
    BY <1>2 DEF Loading
<1>4. \A x : Loading(form, x) => \E y : Loading(form', y) /\ y.kind = x.kind
    BY <1>2 DEF Loading
<1>5. Quiet(form') <=> Quiet(form)
    BY <1>3, <1>4 DEF Quiet
<1>6. form'.id[1] = form'.new["ref"] \/ form'.badLoad \/ form'.loading \/ \E x : Loading(form', x) /\ x.kind = "sub"
    BY <1>2, <1>4 DEF AllShown, IdsShown
<1>7. form'.loading => \A x : Loading(form', x) => x.kind = "get"
    BY <1>2, <1>3 DEF AllShown, IdsShown
<1>8. IdsShown(form')
    BY <1>2, <1>6, <1>7 DEF AllShown, IdsShown
<1>9. SavesShown(form')
    BY <1>2, <1>5 DEF AllShown, SavesShown
<1>10. SentRight(form')
    BY <1>1, <1>2 DEF AllShown, SentRight
<1> QED BY <1>8, <1>9, <1>10 DEF AllShown

\* the answer of a save or a deletion opens a record, or loads it again
LEMMA ShownIdles ==
    ASSUME Base, SetAnswered \/ DelAnswered, "switched" \notin crossed', AllShown(form)
    PROVE  AllShown(form')
<1>1. PICK q, m : /\ q \in form.wire /\ q.kind \in {"set", "del"}
                  /\ Lacks(form, m, q) /\ Crosses(Switches)
                  /\ (\E n : OpensIdle(m, form', n)) \/ (form.record # None /\ GetsIdle(m, form'))
    BY CrossesBoth DEF SetAnswered, DelAnswered
<1>2. Quiet(form) /\ form.saves = {}
    BY <1>1, QuietlySwitched
<1>3. \A x : Loading(m, x) <=> Loading(form, x)
    BY <1>1 DEF Lacks, Loading
<1>4. AllShown(m) /\ Quiet(m) /\ m.saves = {} /\ m.record = form.record
  <2>1. \A x \in m.wire : x \in form.wire
      BY <1>1 DEF Lacks
  <2>2. AllShown(m)
      BY <1>1, <1>3, <2>1, ShownRests DEF Lacks, SamePage, SameValues
  <2> QED BY <1>1, <1>2, <1>3, <2>2 DEF Lacks, SamePage, Quiet
<1>5. ASSUME NEW h, AllShown(h), Idles(h, form') PROVE AllShown(form')
  <2>1. \A x : Loading(form', x) <=> Loading(h, x)
      BY <1>5 DEF Idles, SameTraffic, Loading
  <2> QED BY <1>5, <2>1, ShownRests DEF Idles, SameTraffic, SameValues
<1>6. CASE \E n : OpensIdle(m, form', n)
  <2>1. PICK n, h : Opens(m, h, n) /\ Idles(h, form')
      BY <1>6 DEF OpensIdle
  <2>2. IdsShown(m) /\ SentRight(m)
      BY <1>4 DEF AllShown
  <2>3. AllShown(h)
      BY <1>4, <2>1, <2>2, ShownOpens
  <2> QED BY <1>5, <2>1, <2>3
<1>7. CASE form.record # None /\ GetsIdle(m, form')
  <2>1. PICK l, h : IsSaved(m, l) /\ Gets(l, h) /\ Idles(h, form')
      BY <1>7 DEF GetsIdle
  <2>2. /\ l.record = m.record /\ l.id = m.id /\ l.key = m.key /\ l.badLoad = m.badLoad /\ l.loading = m.loading
        /\ l.new = m.new /\ l.old = m.new /\ l.wire = m.wire /\ l.decrypts = m.decrypts /\ l.saves = m.saves
      BY <2>1 DEF IsSaved, SamePage, SameIds, SameTraffic
  <2>3. \A x : Loading(l, x) <=> Loading(m, x)
      BY <2>2 DEF Loading
  <2>4. Quiet(l) /\ l.saves = {} /\ l.record # None /\ SentRight(l)
      BY <1>4, <1>7, <2>2, <2>3 DEF Quiet, AllShown, SentRight
  <2>5. IdsShown(l)
      BY <1>4, <2>2, <2>3 DEF AllShown, IdsShown
  <2>6. AllShown(h)
      BY <2>1, <2>4, <2>5, ShownOpens
  <2> QED BY <1>5, <2>1, <2>6
<1> QED BY <1>1, <1>6, <1>7

LEMMA ShownKept ==
    ASSUME Base, Moving, crossed' \cap Unexpected = {}, Found(form), LoadsShown(form), AllShown(form)
    PROVE  AllShown(form')
<1>0. /\ "switched" \notin crossed' /\ "related" \notin crossed' /\ "cleared" \notin crossed'
      /\ "early" \notin crossed' /\ "unjoined" \notin crossed'
      /\ form.wire \subseteq Request /\ form.saves \subseteq Save
    BY FormOfBase DEF Unexpected
<1>1. CASE Typing
  <2>1. form'.new["ref"] = form.new["ref"] /\ ~form.loading
      BY <1>1 DEF Typing, Fields
  <2>2. \A x : Loading(form', x) <=> Loading(form, x)
      BY <1>1 DEF Typing, SameTraffic, Loading
  <2> QED BY <1>1, <2>1, <2>2, ShownRests DEF Typing, SamePage, SameTraffic
<1>2. ASSUME NEW record, Relates(record)
      PROVE  /\ Quiet(form) /\ form.saves = {} /\ form'.record = form.record /\ SameIds(form, form') /\ ~form.loading
             /\ form'.decrypts = form.decrypts /\ form'.saves = {} /\ form'.new["ref"] = record
             /\ record = None => form.id[1] = None
  <2>1. Quiet(form) /\ form.saves = {}
      BY <1>0, <1>2, QuietlyRelated
  <2> QED BY <1>0, <1>2, <2>1 DEF Relates, Crosses, SamePage
<1>3. CASE Clearing
  <2>1. /\ form'.record = form.record /\ SameIds(form, form') /\ ~form.loading
        /\ form'.saves = {} /\ form'.new["ref"] = None /\ form.id[1] = None
      BY <1>2, <1>3 DEF Clearing
  <2>2. form'.wire = form.wire
      BY <1>3 DEF Clearing
  <2>3. IdsShown(form')
      BY <2>1 DEF AllShown, IdsShown, SameIds
  <2> QED BY <2>1, <2>2, <2>3 DEF AllShown, SavesShown, SentRight
<1>4. CASE Relating
  <2>1. PICK record \in 1 .. MaxJoined, q \in Request :
             Relates(record) /\ Asks(form, q, "sub", record) /\ form'.wire = form.wire \cup {q}
      BY <1>4 DEF Relating
  <2>2. /\ form'.record = form.record /\ SameIds(form, form') /\ ~form.loading
        /\ form'.saves = {} /\ form'.new["ref"] = record
      BY <1>2, <2>1
  <2>3. q.kind = "sub" /\ Loading(form', q)
      BY <2>1 DEF Asks, Loading
  <2>4. IdsShown(form')
      BY <2>2, <2>3 DEF AllShown, IdsShown, SameIds
  <2>5. SavesShown(form') /\ SentRight(form')
      BY <2>1, <2>2, <2>3 DEF AllShown, SavesShown, SentRight
  <2> QED BY <2>4, <2>5 DEF AllShown
<1>5. CASE SaveStarts
    BY <1>0, <1>5, ShownSaves
<1>6. CASE Opening
  <2>1. PICK n \in Nat : Opens(form, form', n) /\ Crosses(Switches)
      BY <1>6, CrossesBoth DEF Opening
  <2> QED BY <1>0, <2>1, QuietlySwitched, ShownOpens DEF AllShown
<1>7. CASE LoadsAgain
    BY <1>0, <1>7, QuietlySwitched, ShownOpens DEF LoadsAgain, AllShown
<1>8. CASE Asking \/ Answering
  <2>1. /\ Rests(form, form') /\ form.wire \subseteq form'.wire
        /\ \A q \in form'.wire : q \in form.wire \/ q.kind = "del"
      BY <1>8 DEF Asking, Answering, Asks
  <2>2. \A x : Loading(form', x) <=> Loading(form, x)
      BY <2>1 DEF Rests, Loading
  <2> QED BY <2>1, <2>2, ShownRests DEF Rests, SameValues
<1>9. CASE Cancelling
  <2>1. \A q \in form.wire : /\ Forgotten(q).kind = q.kind /\ Forgotten(q).state = q.state
                             /\ Forgotten(q).id = q.id /\ Forgotten(q).shown = q.shown
                             /\ Forgotten(q).fields = q.fields /\ Forgotten(q).values = q.values
                             /\ Forgotten(q).rel1 = q.rel1 /\ Forgotten(q).keyOf = q.keyOf /\ ~Forgotten(q).known
      BY <1>0 DEF Request, Forgotten
  <2>2. \A q \in form.wire : ~(q.known /\ q.kind = "sub")
      BY <1>0, <1>9 DEF Cancelling, Crosses, Unread
  <2>3. /\ form'.record = form.record /\ SameIds(form, form') /\ form'.new = form.new /\ form'.old = form.old
        /\ form'.wire = {Forgotten(q) : q \in form.wire} /\ form'.decrypts = form.decrypts
        /\ form'.saves \subseteq form.saves
      BY <1>9 DEF Cancelling, SamePage, SameValues
  <2>4. \A x : Loading(form', x) => Loading(form, x)
      BY <2>1, <2>3 DEF Loading
  <2>5. ~\E x : Loading(form, x) /\ x.kind = "sub"
      BY <2>2 DEF Loading, Base, Numbers, Numbered
  <2>6. IdsShown(form')
      BY <2>3, <2>4, <2>5 DEF AllShown, IdsShown, SameIds
  <2>7. SavesShown(form')
      BY <2>3, <2>4 DEF AllShown, SavesShown, SameIds, Quiet
  <2>8. \A q \in form.wire : GoesToShown(q) => GoesToShown(Forgotten(q))
      BY <2>1 DEF GoesToShown
  <2>9. SentRight(form')
      BY <2>1, <2>3, <2>8 DEF AllShown, SentRight
  <2> QED BY <2>6, <2>7, <2>9 DEF AllShown
<1>10. CASE Failing \/ Reading \/ Writing \/ Deleting
    BY <1>10, ShownHandles
<1>11. ASSUME NEW q \in form.wire, NEW m, Lacks(form, m, q), ~q.known \/ q.kind # "sub"
       PROVE  AllShown(m)
  <2>1. /\ m.record = form.record /\ SameIds(form, m) /\ m.new = form.new /\ m.old = form.old
        /\ m.wire = form.wire \ {q} /\ m.decrypts = form.decrypts /\ m.saves = form.saves
      BY <1>11 DEF Lacks, SamePage, SameValues
  <2>2. \A x : Loading(m, x) => Loading(form, x)
      BY <2>1 DEF Loading
  <2>3. \A x : Loading(form, x) /\ x.kind = "sub" => Loading(m, x)
      BY <1>11, <2>1 DEF Loading
  <2>4. IdsShown(m)
      BY <2>1, <2>2, <2>3 DEF AllShown, IdsShown, SameIds
  <2>5. SavesShown(m) /\ SentRight(m)
      BY <2>1, <2>2 DEF AllShown, SavesShown, SameIds, Quiet, SentRight
  <2> QED BY <2>4, <2>5 DEF AllShown
<1>12. CASE Dropping
  <2>1. PICK q \in form.wire :
             /\ Lacks(form, form', q)
             /\ q.known => \/ Crosses(Unread({q.kind}))
                           \/ q.kind = "sub" /\ q.state = "done" /\ q.rows # 1
      BY <1>12 DEF Dropping
  <2>2. ~q.known \/ q.kind # "sub"
      BY <1>0, <2>1 DEF Found, Crosses, Unread
  <2> QED BY <1>11, <2>1, <2>2
<1>13. CASE LoadsNow
    BY <1>13, ShownLoads
<1>14. CASE JoinsNow
    BY <1>14, ShownJoins
<1>15. CASE KeysCome
  <2>1. PICK q, s, m : /\ q \in form.wire /\ s \in form.saves
                       /\ q.kind = "keys" /\ Lacks(form, m, q) /\ s.nr = q.nr /\ GoesOn(m, form', s)
      BY <1>15 DEF KeysCome, Arriving
  <2>2. AllShown(m)
      BY <1>11, <2>1
  <2>3. /\ m.record = form.record /\ m.badLoad = form.badLoad /\ m.key = form.key /\ m.loading = form.loading
        /\ m.saves = form.saves
      BY <2>1 DEF Lacks, SamePage, SameIds
  <2>4. s.step = "keys" /\ s \in Save
      BY <1>0, <2>1 DEF Base, Numbers, Numbered
  <2>5. Quiet(m) /\ ~m.badLoad /\ ~m.loading /\ s.shown = m.record /\ m.key # None
      BY <2>1, <2>2, <2>3, <2>4 DEF AllShown, SavesShown
  <2> QED BY <2>1, <2>2, <2>4, <2>5, ShownGoesOn
<1>16. CASE SetAnswered \/ DelAnswered
    BY <1>0, <1>16, ShownIdles
<1>17. CASE Rejected
  <2>1. PICK q, m : /\ q \in form.wire /\ q.kind \in {"set", "del", "keys"} /\ Lacks(form, m, q)
                    /\ form'.record = m.record /\ SameIds(m, form') /\ SameValues(m, form')
                    /\ form'.wire = m.wire /\ form'.decrypts = m.decrypts /\ form'.saves \subseteq m.saves
      BY <1>17 DEF Rejected, Lacks
  <2>2. AllShown(m)
      BY <1>11, <2>1
  <2>3. \A x : Loading(form', x) <=> Loading(m, x)
      BY <2>1 DEF Loading
  <2> QED BY <2>1, <2>2, <2>3, ShownRests DEF SameValues
<1>18. CASE Decrypting \/ Unreadable
    BY <1>18, ShownDecrypts
<1>19. CASE Encrypting
  <2>1. PICK s \in form.saves :
             /\ s.step = "encrypt"
             /\ SendsSet(form, form', s.first, s.id, s.name, s.keyOf, s.opened, s.shown, s.changed, s.before, form.saves \ {s})
      BY <1>19 DEF Encrypting
  <2>2. /\ Quiet(form) /\ ~form.badLoad /\ ~form.loading /\ s.id = s.shown /\ s.keyOf = KeyFor(s.id)
        /\ s.first \in Fields
      BY <1>0, <2>1 DEF AllShown, SavesShown, Save
  <2> QED BY <2>1, <2>2, ShownSends
<1>20. CASE Unencrypted
  <2>1. /\ form'.record = form.record /\ SameIds(form, form') /\ SameValues(form, form')
        /\ form'.wire = form.wire /\ form'.decrypts = form.decrypts /\ form'.saves \subseteq form.saves
      BY <1>20 DEF Unencrypted
  <2>2. \A x : Loading(form', x) <=> Loading(form, x)
      BY <2>1 DEF Loading
  <2> QED BY <2>1, <2>2, ShownRests DEF SameValues
<1> QED BY <1>1, <1>3, <1>4, <1>5, <1>6, <1>7, <1>8, <1>9, <1>10, <1>12, <1>13, <1>14, <1>15, <1>16, <1>17, <1>18,
           <1>19, <1>20
        DEF Moving

LEMMA StaysEncrypted == ASSUME Next PROVE encrypted' = encrypted
<1>1. ASSUME NEW x PROVE Type(x) \/ Relate(x) \/ SaveRecord(x) \/ OpenRecord(x) => encrypted' = encrypted
    BY DEF Type, Relate, SaveRecord, OpenRecord, data
<1>2. FunctionSaves \/ OpenNew \/ Refresh \/ DelAsk \/ Del \/ Cancel => encrypted' = encrypted
    BY DEF FunctionSaves, OpenNew, Refresh, DelAsk, Del, Cancel, data
<1>3. ASSUME NEW q PROVE Handle(q) => encrypted' = encrypted
    BY DEF Handle, HandleGet, HandleSet, HandleDel, data
<1>4. ASSUME NEW q
      PROVE  Fails(q) \/ Receive(q) \/ Decrypted(q) \/ DecryptFails(q) \/ Encrypted(q) \/ EncryptFails(q)
                => encrypted' = encrypted
    BY DEF Fails, Receive, Decrypted, DecryptFails, Encrypted, EncryptFails, data
<1> QED BY <1>1, <1>2, <1>3, <1>4 DEF Next

\* A save goes to the record the user saw, under its key, and its joined value to the joined
\* record that was shown, however the answers, keys and encryptions come and whichever fail,
\* the request for a related record apart.
THEOREM SavesTheShown == Spec => []WritesShownRecord
<1>1. Init => ShownWritten
  <2> SUFFICES ASSUME Init PROVE AllShown(form)
      BY DEF ShownWritten
  <2>1. PICK f, n : Opens(f, form, n) /\ Quiet(f) /\ f.saves = {} /\ f.wire = {}
      BY LoadsFirst
  <2>2. SentRight(f)
      BY <2>1 DEF SentRight
  <2>3. IdsShown(form)
    <3>1. form.decrypts = {} /\ form.new = Empty /\ form.old = Empty
        BY <2>1 DEF Opens, Quiet, Loading
    <3>2. CASE n = None
        BY <2>1, <3>1, <3>2 DEF Opens, IdsShown, Empty, Fields
    <3>3. CASE n # None
      <4>1. \A x : Loading(form, x) => x.kind = "get"
          BY <2>1, <3>1 DEF Opens, Loading
      <4> QED BY <2>1, <3>1, <3>3, <4>1 DEF Opens, IdsShown
    <3> QED BY <3>2, <3>3
  <2>4. SavesShown(form) /\ SentRight(form)
      BY <2>1 DEF Opens, SavesShown, SentRight
  <2> QED BY <2>3, <2>4 DEF AllShown
<1>2. Base /\ Found(form) /\ LoadsStay /\ ShownWritten /\ [Next]_vars => ShownWritten'
  <2>1. CASE UNCHANGED vars
    <3>1. form' = form /\ crossed' = crossed /\ encrypted' = encrypted
        BY <2>1 DEF vars, data
    <3>2. IdsShown(form)' <=> IdsShown(form)
        BY <3>1 DEF IdsShown, Loading
    <3>3. SavesShown(form)' <=> SavesShown(form)
        BY <3>1 DEF SavesShown, Loading, Quiet
    <3>4. SentRight(form)' <=> SentRight(form)
        BY <3>1 DEF SentRight, GoesToShown
    <3> QED BY <3>1, <3>2, <3>3, <3>4 DEF ShownWritten, AllShown
  <2>2. ASSUME Base, Found(form), LoadsStay, ShownWritten, Next, crossed' \cap Unexpected = {}
        PROVE  AllShown(form')
    <3>1. Moving
        BY <2>2, Moves
    <3>2. crossed \cap Unexpected = {} /\ crossed \cap {"switched", "related"} = {}
        BY <2>2, <3>1, HistoryGrows DEF Unexpected
    <3> QED BY <2>2, <3>1, <3>2, ShownKept DEF ShownWritten, LoadsStay
  <2>3. ASSUME Base, Found(form), LoadsStay, ShownWritten, Next PROVE ShownWritten'
    <3>1. crossed' \cap Unexpected = {} => AllShown(form')
        BY <2>2, <2>3
    <3>2. encrypted' = encrypted
        BY <2>3, StaysEncrypted
    <3>3. IdsShown(form') => IdsShown(form)'
        BY <3>2 DEF IdsShown, Loading
    <3>4. (SavesShown(form') => SavesShown(form)') /\ (SentRight(form') => SentRight(form)')
        BY <3>2 DEF SavesShown, Quiet, Loading, SentRight, GoesToShown
    <3>5. AllShown(form') => AllShown(form)'
        BY <3>3, <3>4 DEF AllShown
    <3> QED BY <3>1, <3>5 DEF ShownWritten
  <2> QED BY <2>1, <2>3
<1>3. ShownWritten => WritesShownRecord
    BY DEF ShownWritten, Unexpected, AllShown, SentRight, GoesToShown, KeyFor, WritesShownRecord, Saving
<1> QED BY <1>1, <1>2, <1>3, LoadsHold, PTL DEF Spec
=============================================================================
