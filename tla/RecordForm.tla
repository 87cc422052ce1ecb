----------------------------- MODULE RecordForm -----------------------------
(* A form of the browser (www/comps/form.js) with the records it loads,      *)
(* changes and deletes, and the requests it sends for that.                  *)
(*                                                                           *)
(* The form is of a relation (index 0) with two attributes, "name" and the   *)
(* relationship "ref", and of the joined relation that "ref" refers to       *)
(* (index 1) with the attribute "other".  It may create and change records   *)
(* of both, and delete those of index 0.  Relation 0 may be end-to-end       *)
(* encrypted, with the value of "name".                                      *)
(*                                                                           *)
(* Functions of the code are operators that take the form and return it      *)
(* changed; a handler runs up to its end or its next 'await' in one action.  *)
(* The overlay keeps the user from clicking while a request blocks the       *)
(* input, not from typing, from Ctrl+S or from going back in the browser.    *)
EXTENDS Integers, FiniteSets

CONSTANTS
    MaxRecords,   \* records of relation 0 there are at first: 1 .. MaxRecords
    MaxJoined,    \* and of relation 1
    Cases         \* forms and users that are looked at, with their bounds

\* what the user does: types, chooses a related record, saves, opens a record or a
\* new one, reloads, deletes, cancels the requests; a form function that saves;
\* a request that fails, and an encryption or decryption that does
Bounded == {"type", "relate", "save", "open", "refresh", "delete", "cancel", "function", "fail", "crypt"}

Case == [encrypted: BOOLEAN, record: Nat, may: [Bounded -> Nat]]

ASSUME RecordFormAssumption ==
    /\ MaxRecords \in Nat /\ MaxJoined \in Nat
    /\ Cases \subseteq Case /\ Cases # {}

VARIABLES
    form,       \* the form, see Form
    main,       \* record -> its attributes, for relation 0
    joined,     \* record -> its attribute, for relation 1
    encrypted,  \* whether relation 0 is
    left,       \* what is bounded -> how often it may still happen
    created,    \* history: records that were created, and by which opening
    crossed     \* history: what happened at a time that matters

data == <<main, joined, created, encrypted>>
vars == <<form, data, left, crossed>>

None   == 0       \* no value or no record; the record ID of a new one
Typed  == -1      \* a value of the user
Cipher == -2      \* a value that could not be decrypted
Fields == {"name", "ref", "other"}
Empty  == [f \in Fields |-> None]
Values == [Fields -> Int]

\* requests of the form, all of them block the input
Request == [
    nr: Nat, kind: {"get", "sub", "keys", "set", "del"},
    known: BOOLEAN,             \* whether the transaction is still known
    state: {"asked", "done", "failed"},
    id: Nat,                    \* the record of relation 0, or of 1 for "sub"
    rel1: Nat,                  \* "set": the record of relation 1
    values: Values,             \* "set": values, "get" and "sub": the row returned
    fields: SUBSET Fields,      \* "set": attributes that have a value in it
    rows: 0 .. 1,               \* "get" and "sub": number of rows returned
    keyOf: Nat,                 \* "set": whose key the value is encrypted with
    andNew: BOOLEAN,            \* "set": a new record is to follow
    opened: Nat,                \* of which opening of the form the request is
    shown: Nat,                 \* history: record that was shown to the user
    changed: SUBSET Fields,     \* history: what was shown as changed
    before: Values]             \* history: and the original values then

\* a call of set() that waits for a key or an encryption
Save == [nr: Nat, step: {"keys", "encrypt"}, id: Nat, name: Int, keyOf: Nat, first: Fields,
         andNew: BOOLEAN, opened: Nat, shown: Nat, changed: SUBSET Fields, before: Values]

Form == [
    record: Nat,                \* recordIds, as of the route
    loading: BOOLEAN, updatingRecord: BOOLEAN, badLoad: BOOLEAN,
    id: [0 .. 1 -> Nat],        \* indexMapRecordId
    key: Nat,                   \* indexMapRecordKey[0]: the record whose key it is
    new: Values, old: Values,   \* valuesNew, valuesOld
    wire: SUBSET Request,
    decrypts: SUBSET Request,   \* rows that are being decrypted
    saves: SUBSET Save,
    asked: Nat,                 \* record for whose deletion the user is asked
    opened: Nat]                \* number of times the form was opened

FreshKey == MaxRecords + 100    \* a key for a record that does not exist yet

-----------------------------------------------------------------------------
(* Requests *)

Least(S) == CHOOSE n \in 0 .. Cardinality(S) : n \notin S

NewNr(f) == Least({x.nr : x \in f.wire \cup f.decrypts \cup f.saves})

Plain(f, kind, id) ==
    [nr |-> NewNr(f), kind |-> kind, known |-> TRUE,
     state |-> "asked", id |-> id, rel1 |-> None, values |-> Empty, fields |-> {}, rows |-> 0,
     keyOf |-> None, andNew |-> FALSE, opened |-> f.opened, shown |-> f.record, changed |-> {},
     before |-> Empty]

Send(f, q) == [f EXCEPT !.wire = @ \cup {q}]

Pending(f, kinds) == \E q \in f.wire : q.known /\ q.kind \in kinds
Blocked(f)        == \E q \in f.wire : q.known
CanClick          == ~Blocked(form) /\ form.asked = None

-----------------------------------------------------------------------------
(* Functions of the form *)

\* mutant: the IDs of the last record stay
KeepsIds(f) == [f EXCEPT !.badLoad = FALSE, !.key = None]

ResetRecordMeta(f) == [f EXCEPT !.badLoad = FALSE, !.id = [i \in 0 .. 1 |-> None], !.key = None]

\* get
Get(f) ==
    IF f.record = None THEN [ResetRecordMeta(f) EXCEPT !.loading = FALSE]
    ELSE Send([f EXCEPT !.id[0] = f.record], Plain(f, "get", f.record))

\* reset, after the route has changed to a record
Reset(f, record) ==
    Get([f EXCEPT !.record = record, !.loading = TRUE, !.new = Empty, !.old = Empty,
                  !.opened = @ + 1])

\* getFromSubJoin
GetFromSubJoin(f, record) ==
    IF record = None THEN [f EXCEPT !.new["other"] = None, !.old["other"] = None]
    ELSE Send(f, Plain(f, "sub", record))

\* end of valueSetByRows: values that are original ones
SetValues(f, q) ==
    IF q.kind = "sub" THEN [f EXCEPT !.new["other"] = q.values["other"], !.old["other"] = q.values["other"]]
    ELSE [f EXCEPT !.new = q.values, !.old = q.values, !.loading = FALSE,
                   !.key = IF encrypted THEN q.id ELSE None]

\* mutant: the ID of the joined record is taken from another column
ReadsOtherColumn(f, q) ==
    SetValues([f EXCEPT !.id = [i \in 0 .. 1 |-> IF i = 0 THEN q.id ELSE q.values["name"]]], q)

\* valueSetByRows, up to the decryption
SetRows(f, q) ==
    LET g == IF q.kind = "sub" THEN [f EXCEPT !.id[1] = q.id]
             ELSE [f EXCEPT !.id = [i \in 0 .. 1 |-> IF i = 0 THEN q.id ELSE q.values["ref"]]]
    IN  IF q.kind = "get" /\ encrypted THEN [g EXCEPT !.decrypts = @ \cup {q}] ELSE SetValues(g, q)

\* mutant: the form goes on loading if there is no row
StaysLoading(f, q) ==
    IF q.rows = 1 THEN SetRows([ResetRecordMeta(f) EXCEPT !.loading = TRUE], q)
    ELSE [ResetRecordMeta(f) EXCEPT !.badLoad = TRUE]

\* the response of get
GetRows(f, q) ==
    IF q.rows = 1 THEN SetRows([ResetRecordMeta(f) EXCEPT !.loading = TRUE], q)
    ELSE [ResetRecordMeta(f) EXCEPT !.badLoad = TRUE, !.loading = FALSE]

Index(field) == IF field = "other" THEN 1 ELSE 0

\* attributes set() sends: values of a new record, changed ones of one that exists
ToWrite(f, field) ==
    IF f.id[Index(field)] = None THEN f.new[field] # None ELSE f.new[field] # f.old[field]

Changes(f)    == {field \in Fields : ToWrite(f, field)}
HasChanges(f) == f.new # f.old

\* mutant: a save does not wait for the one before
UpdatesTwice(f) == ~f.badLoad

CanUpdate(f)  == ~f.badLoad /\ ~f.updatingRecord

\* mutant: fields of joined relations are left out
MissesJoined(field) == IF field = "name" THEN {"ref"} ELSE {}

\* fields that set() works on after another one
After(field) == CASE field = "name" -> {"ref", "other"} [] field = "ref" -> {"other"} [] field = "other" -> {}

\* the end of set(): the other fields as they are now, and the request
SendSet(f, s) ==
    Send([f EXCEPT !.saves = @ \ {s}],
         [Plain(f, "set", s.id) EXCEPT
            !.rel1 = f.id[1], !.keyOf = s.keyOf, !.andNew = s.andNew, !.opened = s.opened,
            !.values = IF s.first = "name" THEN [f.new EXCEPT !["name"] = s.name] ELSE f.new,
            !.fields = {s.first} \cup {field \in After(s.first) : ToWrite(f, field)},
            !.shown = s.shown, !.changed = s.changed, !.before = s.before])

\* set, once the relation of the first field is there: its value is read, and
\* encrypted with the key the form has now
SetFirst(f, s) ==
    LET t == [s EXCEPT !.step = "encrypt", !.id = f.id[0], !.name = f.new["name"], !.keyOf = f.key]
        g == [f EXCEPT !.saves = @ \ {s}]
    IN  IF encrypted /\ s.first = "name" /\ t.name # None THEN [g EXCEPT !.saves = @ \cup {t}]
        ELSE SendSet(g, [t EXCEPT !.keyOf = None])

\* set: a new record needs keys of its readers, another one its own key
Set(f, andNew) ==
    LET changed == Changes(f)
        save    == [nr |-> NewNr(f), step |-> "keys", id |-> None, name |-> None, keyOf |-> None, andNew |-> andNew,
                    first |-> IF "name" \in changed THEN "name" ELSE IF "ref" \in changed THEN "ref" ELSE "other",
                    opened |-> f.opened, shown |-> f.record, changed |-> changed, before |-> f.old]
        g       == [f EXCEPT !.updatingRecord = TRUE]
    IN  IF ~encrypted THEN SetFirst(g, save)
        ELSE IF f.id[0] = None
             THEN Send([g EXCEPT !.key = FreshKey, !.saves = @ \cup {save}], Plain(g, "keys", None))
        ELSE IF f.key = None THEN [g EXCEPT !.updatingRecord = FALSE]
        ELSE SetFirst(g, save)

\* the response of set: openForm or get
SetDone(f, q) ==
    LET g == [f EXCEPT !.old = f.new]
        h == IF q.andNew THEN Reset(g, None)
             ELSE IF f.record = None THEN Reset(g, q.id)
             ELSE Get(g)
    IN  [h EXCEPT !.updatingRecord = FALSE]

\* what the caller of a request does with its response
Resolve(f, q) ==
    CASE q.kind = "get"  -> GetRows(f, q)
      [] q.kind = "sub"  -> IF q.rows = 1 THEN SetRows(f, q) ELSE f
      [] q.kind = "keys" -> LET s == CHOOSE s \in f.saves : s.nr = q.nr IN SetFirst(f, s)
      [] q.kind = "set"  -> SetDone(f, q)
      [] q.kind = "del"  -> [Reset(f, None) EXCEPT !.updatingRecord = FALSE]

\* mutant: a failed request leaves the form as it is
LeavesUpdating(f, q) == f

Reject(f, q) ==
    CASE q.kind \in {"get", "sub"} -> f
      [] q.kind = "keys"           -> [f EXCEPT !.updatingRecord = FALSE,
                                                !.saves = {s \in @ : s.nr # q.nr}]
      [] OTHER                     -> [f EXCEPT !.updatingRecord = FALSE]

-----------------------------------------------------------------------------
(* History: what happened at a time that matters *)

May(x)   == left[x] > 0
Spend(x) == left' = [left EXCEPT ![x] = @ - 1]
Note(S)  == crossed' = crossed \cup S

Loads == Pending(form, {"get", "sub"}) \/ form.decrypts # {}

\* a record is opened or loaded again while one is loaded, or saved with an encryption
Switches == IF Loads \/ form.saves # {} THEN {"switched"} ELSE {}

\* it is saved while it is loaded, or could not be loaded
Early == IF Loads \/ form.badLoad THEN {"early"} ELSE {}

\* requests for a row are cancelled or fail, which only reports it
Unread(kinds) ==
    (IF "get" \in kinds THEN {"unloaded"} ELSE {}) \cup (IF "sub" \in kinds THEN {"unjoined"} ELSE {})

\* another record is opened, or one is saved, while the user is asked to delete one
AskedThen == IF form.asked # None THEN {"asked"} ELSE {}

-----------------------------------------------------------------------------
(* Actions of the user *)

\* a field gets a value of the user, the one it had, or none
Type(field) ==
    /\ May("type") /\ Spend("type")
    /\ field # "ref"
    /\ ~form.loading /\ ~form.badLoad
    /\ \E value \in {Typed, form.old[field], None} \ {form.new[field]} :
            form' = [form EXCEPT !.new[field] = value]
    /\ UNCHANGED <<data, crossed>>

\* a related record is chosen, or none
Relate(record) ==
    /\ May("relate") /\ Spend("relate")
    /\ ~form.loading /\ ~form.badLoad
    /\ record # form.new["ref"]
    /\ form' = GetFromSubJoin([form EXCEPT !.new["ref"] = record], record)
    /\ Note((IF Loads \/ form.updatingRecord \/ form.saves # {} THEN {"related"} ELSE {})
            \cup (IF record = None /\ form.id[1] # None THEN {"cleared"} ELSE {}))
    /\ UNCHANGED data

\* the button or Ctrl+S, or the button for a new record after it
SaveRecord(andNew) ==
    /\ May("save") /\ Spend("save")
    /\ CanUpdate(form) /\ HasChanges(form) /\ Changes(form) # {}
    /\ andNew => CanClick
    /\ form' = Set(form, andNew)
    /\ Note(Early \cup AskedThen)
    /\ UNCHANGED data

\* record_save of a form function, by a timer
FunctionSaves ==
    /\ May("function") /\ Spend("function")
    /\ Changes(form) # {}
    /\ form' = Set(form, FALSE)
    /\ Note({"function"} \cup Early \cup AskedThen)
    /\ UNCHANGED data

\* the browser goes to another record or to a new one, the user confirms
OpenRecord(record) ==
    /\ May("open") /\ Spend("open")
    /\ record # form.record
    /\ form' = Reset(form, record)
    /\ Note(Switches \cup AskedThen)
    /\ UNCHANGED data

\* openNew
OpenNew ==
    /\ May("open") /\ Spend("open")
    /\ CanClick /\ ~form.updatingRecord
    /\ form.record # None \/ HasChanges(form)
    /\ form' = Reset(form, None)
    /\ Note(Switches)
    /\ UNCHANGED data

\* get, by its button
Refresh ==
    /\ May("refresh") /\ Spend("refresh")
    /\ CanClick /\ form.record # None
    /\ form' = Get(form)
    /\ Note(Switches)
    /\ UNCHANGED data

\* canDelete
DelAsk ==
    /\ May("delete") /\ Spend("delete")
    /\ CanClick /\ CanUpdate(form)
    /\ form.record # None /\ form.id[0] # None
    /\ form' = [form EXCEPT !.asked = form.record]
    /\ UNCHANGED <<data, crossed>>

\* the dialog: del, or nothing
Del ==
    /\ form.asked # None
    /\ LET f == [form EXCEPT !.asked = None]
       IN  form' \in {f, IF f.id[0] = None THEN [f EXCEPT !.updatingRecord = FALSE]
                         ELSE Send([f EXCEPT !.updatingRecord = TRUE],
                                   [Plain(f, "del", f.id[0]) EXCEPT !.shown = form.asked])}
    /\ UNCHANGED <<data, left, crossed>>

\* wsCancel: the transactions are forgotten, and who waits for them never goes on
Cancel ==
    /\ May("cancel") /\ Spend("cancel")
    /\ Blocked(form)
    /\ form' = [form EXCEPT !.wire = {[q EXCEPT !.known = FALSE] : q \in @},
                             !.saves = {s \in @ : s.step # "keys"}]
    /\ Note({"cancel"} \cup Unread({q.kind : q \in {p \in form.wire : p.known}}))
    /\ UNCHANGED data

-----------------------------------------------------------------------------
(* The server, and what comes back *)

\* a request fails
Fails(q) ==
    /\ q.state = "asked"
    /\ May("fail") /\ Spend("fail")
    /\ form' = [form EXCEPT !.wire = (@ \ {q}) \cup {[q EXCEPT !.state = "failed"]}]
    /\ UNCHANGED <<data, crossed>>

Done(q, a) == form' = [form EXCEPT !.wire = (@ \ {q}) \cup {[a EXCEPT !.state = "done"]}]

\* data.Get: the row of a record with its join
HandleGet(q) ==
    /\ q.state = "asked" /\ q.kind \in {"get", "sub", "keys"}
    /\ LET there == q.id \in (CASE q.kind = "get" -> DOMAIN main [] q.kind = "sub" -> DOMAIN joined
                                 [] q.kind = "keys" -> {})
           row   == IF q.kind = "sub" THEN [Empty EXCEPT !["other"] = joined[q.id]]
                    ELSE LET m == main[q.id]
                         IN  [name |-> m.name, ref |-> m.ref,
                              other |-> IF m.ref = None THEN None ELSE joined[m.ref]]
       IN  Done(q, IF there THEN [q EXCEPT !.rows = 1, !.values = row] ELSE q)
    /\ UNCHANGED <<data, left, crossed>>

\* data.Set: a record of index 1 is created before the new record of index 0
\* that refers to it, if that has no other reference
HandleSet(q) ==
    /\ q.state = "asked" /\ q.kind = "set"
    /\ LET isNew  == q.id = None
           id     == IF isNew THEN MaxRecords + Cardinality(created) + 1 ELSE q.id
           rel1   == IF q.rel1 = None THEN Cardinality(DOMAIN joined) + 1 ELSE q.rel1
           value  == [field \in Fields |-> IF field \in q.fields THEN q.values[field] ELSE None]
           linked == isNew /\ "other" \in q.fields /\ value["ref"] = None
       IN  /\ main' = [r \in DOMAIN main \cup (IF isNew THEN {id} ELSE {}) |->
                IF r # id THEN main[r]
                ELSE IF isNew THEN [name |-> value["name"], ref |-> IF linked THEN rel1 ELSE value["ref"]]
                ELSE [a \in {"name", "ref"} |-> IF a \in q.fields THEN q.values[a] ELSE main[r][a]]]
           /\ joined' = IF "other" \notin q.fields THEN joined
                        ELSE [r \in DOMAIN joined \cup {rel1} |->
                                IF r = rel1 THEN value["other"] ELSE joined[r]]
           /\ created' = IF isNew THEN created \cup {<<q.opened, id>>} ELSE created
           /\ Done(q, [q EXCEPT !.id = id])
    /\ UNCHANGED <<encrypted, left, crossed>>

\* data.Del
HandleDel(q) ==
    /\ q.state = "asked" /\ q.kind = "del"
    /\ main' = [r \in DOMAIN main \ {q.id} |-> main[r]]
    /\ Done(q, q)
    /\ UNCHANGED <<joined, created, encrypted, left, crossed>>

\* the response: none is seen of a transaction that is not known any more
Receive(q) ==
    /\ q.state # "asked"
    /\ LET f == [form EXCEPT !.wire = @ \ {q}]
       IN  form' = IF ~q.known THEN f ELSE IF q.state = "done" THEN Resolve(f, q) ELSE Reject(f, q)
    /\ LET loads == q.known /\ q.state = "done" /\ q.kind \in {"set", "del"}
       IN  Note((IF loads THEN Switches ELSE {})
                \cup (IF q.known /\ q.state = "failed" THEN Unread({q.kind}) ELSE {})
                \cup (IF form'.opened # form.opened THEN AskedThen ELSE {}))
    /\ UNCHANGED <<data, left>>

\* rows are decrypted
Decrypted(q) ==
    /\ form' = SetValues([form EXCEPT !.decrypts = @ \ {q}], q)
    /\ UNCHANGED <<data, left, crossed>>

\* They are not: the key of the record cannot be decrypted, or the value cannot, or
\* the login has no key; then the encrypted value is shown.
DecryptFails(q) ==
    /\ May("crypt") /\ Spend("crypt")
    /\ LET f     == [form EXCEPT !.decrypts = @ \ {q}]
           row   == [q EXCEPT !.values["name"] = IF @ = None THEN None ELSE Cipher]
           shows == SetValues(f, row)
       IN  form' \in {[f EXCEPT !.badLoad = TRUE, !.loading = FALSE], shows, [shows EXCEPT !.key = None]}
    /\ UNCHANGED <<data, crossed>>

\* mutant: the form goes on 'updating'
DropsSave(f, s) == [f EXCEPT !.saves = @ \ {s}]

\* handleEncErr
HandleEncErr(f, s) == [f EXCEPT !.saves = @ \ {s}, !.updatingRecord = FALSE]

\* the value cannot be encrypted
EncryptFails(s) ==
    /\ s.step = "encrypt"
    /\ May("crypt") /\ Spend("crypt")
    /\ form' = HandleEncErr(form, s)
    /\ UNCHANGED <<data, crossed>>

\* the value is encrypted
Encrypted(s) ==
    /\ s.step = "encrypt"
    /\ form' = SendSet(form, s)
    /\ UNCHANGED <<data, left, crossed>>

-----------------------------------------------------------------------------
Init ==
    /\ \E c \in Cases : /\ encrypted = c.encrypted /\ left = c.may
                        /\ form = Reset([record |-> None, loading |-> FALSE, updatingRecord |-> FALSE,
                                badLoad |-> FALSE, id |-> [i \in 0 .. 1 |-> None], key |-> None,
                                new |-> Empty, old |-> Empty, wire |-> {}, decrypts |-> {},
                                saves |-> {}, asked |-> None, opened |-> 0], c.record)
    /\ joined = [r \in 1 .. MaxJoined |-> r]
    /\ main = [r \in 1 .. MaxRecords |-> [name |-> r, ref |-> IF r <= MaxJoined THEN r ELSE None]]
    /\ created = {} /\ crossed = {}

Handle(q) == HandleGet(q) \/ HandleSet(q) \/ HandleDel(q)

Next ==
    \/ \E field \in Fields : Type(field)
    \/ \E record \in 0 .. MaxJoined : Relate(record)
    \/ \E andNew \in BOOLEAN : SaveRecord(andNew)
    \/ \E record \in 0 .. MaxRecords : OpenRecord(record)
    \/ FunctionSaves \/ OpenNew \/ Refresh \/ DelAsk \/ Del \/ Cancel
    \/ \E q \in form.wire : Handle(q) \/ Fails(q) \/ Receive(q)
    \/ \E q \in form.decrypts : Decrypted(q) \/ DecryptFails(q)
    \/ \E s \in form.saves : Encrypted(s) \/ EncryptFails(s)

Spec == Init /\ [][Next]_vars

\* The server answers and the browser goes on; the user need not do anything.
Fairness ==
    /\ WF_vars(\E q \in form.wire : Handle(q) \/ Receive(q))
    /\ WF_vars(\E q \in form.decrypts : Decrypted(q))
    /\ WF_vars(\E s \in form.saves : Encrypted(s))

FairSpec == Spec /\ Fairness

-----------------------------------------------------------------------------
(* Properties *)

Causes == {"switched", "related", "cleared", "early", "asked", "cancel", "function", "unjoined", "unloaded"}

\* Types: among them, that the ids and keys of the form are of a record or none,
\* never undefined, whatever rows it gets.
TypeOK ==
    /\ form \in Form
    /\ DOMAIN main \subseteq Nat /\ main \in [DOMAIN main -> [name: Int, ref: Nat]]
    /\ DOMAIN joined \subseteq Nat /\ joined \in [DOMAIN joined -> Int]
    /\ created \subseteq Nat \X Nat
    /\ encrypted \in BOOLEAN /\ left \in [Bounded -> Nat]
    /\ crossed \subseteq Causes

\* requests to save that have been sent
Saving == {q \in form.wire : q.kind = "set" /\ q.state = "asked"}

\* A save goes to the record the user saw as he saved, and a value of the joined
\* relation to the record the relationship shows, under the key of that record.
\* Not if a record was opened or loaded while another one was loaded or a save
\* waited (switched), or related in such a time (related), if it was saved while
\* it was loaded (early), if the relationship was cleared (the joined record then
\* stays the old one), or if the request for the related record failed or was
\* cancelled, as its id then stays the old one, too (unjoined).
WritesShownRecord ==
    crossed \cap {"switched", "related", "cleared", "early", "unjoined"} = {} =>
        \A q \in Saving :
            /\ q.id = q.shown
            /\ "other" \in q.fields => q.rel1 = q.values["ref"]
            /\ encrypted /\ "name" \in q.fields /\ q.values["name"] # None =>
                q.keyOf = IF q.id = None THEN FreshKey ELSE q.id

\* Each field that was changed when the user saved is written, or has by then the
\* value again that the record had, however long keys and encryption took and
\* whatever was typed, restored or cleared in that time.  Not if a record was opened,
\* related or loaded meanwhile, or the save began while one was (switched, related,
\* early); the answer of another save, or of a deletion, loads one.  Nor if a record
\* could not be loaded again (unloaded): its values stay as the original ones then,
\* without the id of the joined record they are of.
SavesAllChanges ==
    crossed \cap {"switched", "related", "early", "unloaded"} = {} =>
        \A q \in Saving : \A field \in q.changed :
            field \in q.fields \/ q.values[field] = q.before[field]

\* Comment of updatingRecord: "form is currently attempting to update the current
\* record (saving/deleting)".  It blocks saving exactly as long as there is an
\* attempt: unless one was cancelled (it then blocks for good), or another one was
\* made besides it, by a function or by a question to delete (asked).
UpdatingIsAttempted ==
    crossed \cap {"cancel", "function", "asked"} = {} =>
        (form.updatingRecord <=> Pending(form, {"set", "del", "keys"}) \/ form.saves # {})

\* A form that was opened for a new record creates one record at most.  A function
\* does not ask whether there is a save already, and a question to delete that is
\* answered on another form, where there is nothing to delete, ends its 'updating'.
CreatedOnce ==
    crossed \cap {"function", "asked"} = {} =>
        \A a, b \in created : a[1] = b[1] => a = b

\* An attempt to save or delete ends, and the form may be saved again: whichever of
\* its keys, encryptions and requests fails, and however many attempts of functions
\* there are.  One that is cancelled does not.
UpdatingEnds == form.updatingRecord ~> (~form.updatingRecord \/ "cancel" \in crossed)

\* A form does not stay in its loading state, in which it takes no input, unless the
\* request for its record fails or is cancelled (unloaded): that is only reported.
FormIsReady == form.loading ~> (~form.loading \/ "unloaded" \in crossed)
=============================================================================
