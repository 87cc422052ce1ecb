----------------------------- MODULE FileStore -----------------------------
(* The files of records: what the database knows of them, what is on disk,  *)
(* and those who change either of it: uploads and copies (data/data_file.go, *)
(* data_file_copy.go), the file input of a form (www/comps/inputFiles.js),   *)
(* the records that refer to files, the task that attaches the files of      *)
(* received mails (spooler/mail_attach) and the one that cleans up           *)
(* (scheduler/scheduler_cleanup.go).                                         *)
(*                                                                           *)
(* A statement or a transaction of the database is one step, and so is each  *)
(* operation on the disk: no lock spans the two, so everything may happen    *)
(* in between, the end of the process too.                                   *)
EXTENDS Integers, FiniteSets, FiniteSetsExt, Functions

CONSTANTS
    Files,        \* numbers that stand for the UUIDs of files
    Records,      \* records of the relation
    Mails,        \* mails that are received
    Uploaders,    \* goroutines that store a file for a request
    Attachers,    \* executions of the task mailAttach at the same time
    MaxVersion,   \* versions of a file
    KeepCount,    \* config fileVersionsKeepCount
    NoRecord,
    Cases         \* what may happen, and how often

\* besides uploads of the input, saves and clean ups: another version of a file
\* (by the desktop client), copied files, another record opened, files removed
\* in the input, deleted or restored by others, the attribute deleted, a mail,
\* a second execution of the task for mails, a crash, an operation that fails, and
\* a file that the system refuses to delete
Bounded == {"upload", "version", "paste", "open", "remove", "delRecord", "restore", "drop", "mail",
            "parallel", "crash", "fail", "inUse"}

ASSUME FileStoreAssumption ==
    /\ Files \subseteq Nat \ {0} /\ IsFiniteSet(Files) /\ IsFiniteSet(Records)
    /\ Mails \cap Files = {}
    /\ MaxVersion \in Nat /\ KeepCount \in Nat
    /\ NoRecord \notin Records
    /\ Uploaders \cap Attachers = {}
    /\ Cases \subseteq [Bounded -> Nat]

VARIABLES
    \* the database
    refCounter,   \* instance.file: file -> ref_counter
    versions,     \* instance.file_version: <<file, version>> -> hash of its content
    links,        \* instance_file of the attribute: <<file, record>> -> deleted?
    records,      \* the records there are
    attribute,    \* whether the files attribute is there
    spool,        \* instance.mail_spool with attachments: mail -> record
    \* the directory of files
    disk,         \* <<file, version>> -> content, named after who wrote it
    \* who uses them
    job,          \* goroutine -> what it is storing
    cleaner,      \* execution of cleanUpFiles
    page,         \* the file input of the page and its record
    left,         \* what may still happen
    \* history
    origin,       \* file -> record for which it was stored
    attached,     \* mail -> how often it was attached, -1 before it is received
    cut           \* kind of mishap -> the files or mails it has met

database == <<refCounter, versions, links, records, attribute, spool>>
history  == <<origin, attached, cut>>
vars     == <<database, disk, job, cleaner, page, left, history>>

Jobs     == Uploaders \cup Attachers
Paths    == Files \X (0 .. MaxVersion)
Contents == Jobs \cup {"none"}
Mishaps  == {"listed", "raced", "lost", "orphan", "rewritten", "strayed", "parallel"}

Idle == [op |-> "idle", step |-> "none", path |-> <<0, 0>>, source |-> <<0, 0>>, hash |-> "none",
         record |-> NoRecord, mail |-> "none"]
Job  == [op: {"idle", "new", "version", "copy", "attach"}, step: {"none", "write", "hash", "store", "answer"},
         path: (Files \cup {0}) \X (0 .. MaxVersion), source: (Files \cup {0}) \X (0 .. MaxVersion),
         hash: Contents, record: Records \cup {NoRecord}, mail: Mails \cup {"none"}]

Resting == [step |-> "rest", paths |-> {}, path |-> <<0, 0>>, listed |-> {}, files |-> {}]

\* file input: changes are fileIdMapChange, sent those of a save under way, and
\* saving the record the save is for
NoChange == [f \in Files |-> "none"]
Page == [record: Records, changes: [Files -> {"none", "create", "delete"}],
         saving: Records \cup {NoRecord}, sent: [Files -> {"none", "create", "delete"}]]

-----------------------------------------------------------------------------
(* Operators *)

May(x) == left[x] > 0
Uses(x) == left' = [left EXCEPT ![x] = @ - 1]
Meets(x, them) == [cut EXCEPT ![x] = @ \cup them]
New(f) == [x \in Mishaps |-> cut[x] \ {f}]      \* the same number stands for another file

Known   == DOMAIN refCounter
Without(fun, keys) == Restrict(fun, DOMAIN fun \ keys)
With(fun, key, value) == [k \in DOMAIN fun \cup {key} |-> IF k = key THEN value ELSE fun[k]]

LinksOf(f)    == {l \in DOMAIN links : l[1] = f}
VersionsOf(f) == {p[2] : p \in {q \in DOMAIN versions : q[1] = f}}
Latest(f)     == <<f, Max(VersionsOf(f))>>

\* a UUID nothing else has (some are left for mails)
Fresh == {f \in Files :
            /\ f \notin Known \cup cleaner.listed /\ page.changes[f] = "none" /\ page.sent[f] = "none"
            /\ \A p \in DOMAIN disk : p[1] # f
            /\ \A j \in Jobs : f \notin {job[j].path[1], job[j].source[1]}}

\* mutant: the rows go without their trigger
UnlinkUncounted(gone) == links' = Without(links, gone) /\ UNCHANGED refCounter
\* rows of instance_file go, with the trigger for each: ref_counter is decremented
Unlink(gone) ==
    /\ links' = Without(links, gone)
    /\ refCounter' = [f \in Known |-> refCounter[f] - Cardinality({l \in gone : l[1] = f})]

-----------------------------------------------------------------------------
(* Storing a file: SetFile, CopyFiles, mail_attach *)

\* which of several idle goroutines it is does not matter
FirstIdle(j, those) == job[j] = Idle /\ j = CHOOSE k \in those : job[k] = Idle

Starts(j, work) ==
    /\ FirstIdle(j, IF j \in Uploaders THEN Uploaders ELSE Attachers)
    /\ job' = [job EXCEPT ![j] = work]
    /\ UNCHANGED <<database, disk, cleaner, page, origin, attached>>

\* the input uploads a new file, for the record it shows at this time
UploadNew(j) ==
    /\ May("upload") /\ Uses("upload")
    /\ attribute /\ Cardinality(Fresh) > 1
    /\ Starts(j, [Idle EXCEPT !.op = "new", !.step = "write", !.path = <<Min(Fresh), 0>>,
                              !.record = page.record])
    /\ cut' = New(Min(Fresh))

\* the next version of a file of a record: it is read in the database first
UploadVersion(j, f) ==
    /\ May("version") /\ Uses("version")
    /\ attribute /\ LinksOf(f) # {} /\ VersionsOf(f) # {} /\ Latest(f)[2] < MaxVersion
    /\ Starts(j, [Idle EXCEPT !.op = "version", !.step = "write", !.path = <<f, Latest(f)[2] + 1>>])
    /\ UNCHANGED cut

\* files copied elsewhere are pasted: they must exist at this time
Paste(j, f) ==
    /\ May("paste") /\ Uses("paste")
    /\ attribute /\ Cardinality(Fresh) > 1
    /\ LinksOf(f) # {} /\ VersionsOf(f) # {} /\ Latest(f) \in DOMAIN disk
    /\ Starts(j, [Idle EXCEPT !.op = "copy", !.step = "write", !.path = <<Min(Fresh), 0>>,
                              !.source = Latest(f), !.hash = versions[Latest(f)],
                              !.record = page.record])
    /\ cut' = New(Min(Fresh))

\* the task takes a mail; another execution may have taken it as well
Attach(j, m) ==
    /\ m \in DOMAIN spool /\ attribute /\ Fresh # {}
    /\ IF \A k \in Attachers : job[k] = Idle THEN UNCHANGED left ELSE May("parallel") /\ Uses("parallel")
    /\ Starts(j, [Idle EXCEPT !.op = "attach", !.step = "write", !.path = <<Min(Fresh), 0>>,
                              !.record = spool[m], !.mail = m])
    /\ cut' = [New(Min(Fresh)) EXCEPT !["parallel"] =
                    @ \cup {n \in {m} : \E k \in Attachers \ {j} : job[k].mail = n}]

SamePath(j) == {k \in Jobs \ {j} : job[k].path = job[j].path}

\* a file was written twice: by two uploads, or before its copy was made
Raced(j) ==
    \/ job[j].path \in DOMAIN versions \/ SamePath(j) # {}
    \/ job[j].op = "copy" /\ disk[job[j].source] # job[j].hash

\* os.Create empties what is there, then the content is written
WriteFile(j) ==
    LET p == job[j].path
    IN  /\ job[j].step = "write"
        /\ job[j].op = "copy" => job[j].source \in DOMAIN disk
        /\ disk' = With(disk, p, IF job[j].op = "copy" THEN disk[job[j].source] ELSE j)
        /\ job' = [job EXCEPT ![j].step = IF job[j].op = "copy" THEN "store" ELSE "hash"]
        /\ cut' = [cut EXCEPT !["raced"]     = @ \cup (IF Raced(j) THEN {p[1]} ELSE {}),
                              !["rewritten"] = @ \cup {q[1] : q \in {p} \cap {cleaner.path}}]
        /\ UNCHANGED <<database, cleaner, page, left, origin, attached>>

\* the hash is that of what is on disk by now
HashFile(j) ==
    /\ job[j].step = "hash" /\ job[j].path \in DOMAIN disk
    /\ job' = [job EXCEPT ![j].hash = disk[job[j].path], ![j].step = "store"]
    /\ UNCHANGED <<database, disk, cleaner, page, left, history>>

\* mutant: neither the key nor the record is checked
CanStoreAlways(j) == job[j].op = "version" => job[j].path[1] \in Known
\* the transaction: keys are unique and references exist
CanStore(j) ==
    /\ job[j].op = "version" => job[j].path[1] \in Known /\ job[j].path \notin DOMAIN versions
    /\ job[j].op = "attach"  => attribute /\ job[j].record \in records

\* mutant: the mail is left to a later step
LeavesMail(j) == UNCHANGED spool
\* what it does to the mail, in the same transaction
TakesMail(j) == spool' = Without(spool, {job[j].mail})

StoreFile(j) ==
    LET f == job[j].path[1]
    IN  /\ job[j].step = "store" /\ CanStore(j)
        /\ versions' = With(versions, job[j].path, job[j].hash)
        /\ refCounter' = CASE job[j].op = "version" -> refCounter
                           [] job[j].op = "attach"  -> With(refCounter, f, 1)
                           [] OTHER                 -> With(refCounter, f, 0)
        /\ links' = IF job[j].op = "attach" THEN With(links, <<f, job[j].record>>, FALSE) ELSE links
        /\ IF job[j].op = "attach" THEN TakesMail(j) ELSE UNCHANGED spool
        /\ job' = [job EXCEPT ![j] = IF job[j].op \in {"new", "copy"} THEN [@ EXCEPT !.step = "answer"]
                                     ELSE Idle]
        /\ origin' = IF job[j].op = "version" THEN origin ELSE [origin EXCEPT ![f] = job[j].record]
        /\ attached' = IF job[j].op = "attach" THEN [attached EXCEPT ![job[j].mail] = @ + 1] ELSE attached
        /\ UNCHANGED <<records, attribute, disk, cleaner, page, left, cut>>

\* the source or the file is gone, the transaction is refused, or anything else
JobFails(j) ==
    /\ job[j].step \in {"write", "hash", "store"}
    /\ \/ job[j].step = "write" /\ job[j].op = "copy" /\ job[j].source \notin DOMAIN disk /\ UNCHANGED left
       \/ job[j].step = "hash" /\ job[j].path \notin DOMAIN disk /\ UNCHANGED left
       \/ job[j].step = "store" /\ ~CanStore(j) /\ UNCHANGED left
       \/ May("fail") /\ Uses("fail")
    /\ job' = [job EXCEPT ![j] = Idle]
    /\ cut' = Meets("orphan", {p[1] : p \in {job[j].path} \cap (DOMAIN disk \ DOMAIN versions)})
    /\ UNCHANGED <<database, disk, cleaner, page, origin, attached>>

\* the answer reaches the input, whatever record it shows by now
UploadDone(j) ==
    LET f == job[j].path[1]
    IN  /\ job[j].step = "answer"
        /\ job' = [job EXCEPT ![j] = Idle]
        /\ page' = [page EXCEPT !.changes[f] = "create"]
        /\ cut' = IF page.record = job[j].record THEN cut ELSE Meets("strayed", {f})
        /\ UNCHANGED <<database, disk, cleaner, left, origin, attached>>

-----------------------------------------------------------------------------
(* The file input and the form it belongs to *)

PageStep == UNCHANGED <<disk, job, cleaner, origin, attached>>

Shows(r) == [record |-> r, changes |-> NoChange, saving |-> NoRecord, sent |-> NoChange]

\* mutant: what was not saved stays
ResetKeepsChanges(r) == [page EXCEPT !.record = r]
\* the input is given the files of a record: reset
Reset(r) == [page EXCEPT !.record = r, !.changes = NoChange]

\* another record is loaded, maybe while the one before is being saved
OpenRecord(r) ==
    /\ May("open") /\ Uses("open")
    /\ r \in records /\ r # page.record
    /\ page' = Reset(r)
    /\ UNCHANGED <<database, cut>> /\ PageStep

\* removeSelected: a file of the record, or one that was added just now
RemoveFile(f) ==
    /\ May("remove") /\ Uses("remove")
    /\ <<f, page.record>> \in DOMAIN links \/ page.changes[f] = "create"
    /\ page' = [page EXCEPT !.changes[f] = "delete"]
    /\ UNCHANGED <<database, cut>> /\ PageStep

\* the form is saved with the changes the input has at this time
Save ==
    /\ page.saving = NoRecord /\ page.changes # NoChange
    /\ page' = [page EXCEPT !.saving = page.record, !.sent = page.changes]
    /\ UNCHANGED <<database, left, cut>> /\ PageStep

Sent(action) == {f \in Files : page.sent[f] = action}

CanSave ==
    /\ attribute
    /\ Sent("create") # {} => page.saving \in records
    /\ \A f \in Sent("create") : f \in Known /\ <<f, page.saving>> \notin DOMAIN links

\* FilesApplyAttributChanges_tx in the transaction of the request, and its
\* answer: the form loads the record it shows by now anew, the input forgets all
\* changes
SetRecord ==
    LET added   == {<<f, page.saving>> : f \in Sent("create")}
        removed == {<<f, page.saving>> : f \in Sent("delete")} \cap DOMAIN links
    IN  /\ page.saving # NoRecord /\ CanSave
        /\ links' = [l \in DOMAIN links \cup added |-> l \in removed \/ (l \notin added /\ links[l])]
        /\ refCounter' = [f \in Known |-> refCounter[f] + (IF f \in Sent("create") THEN 1 ELSE 0)]
        /\ page' = [Reset(page.record) EXCEPT !.saving = NoRecord, !.sent = NoChange]
        /\ UNCHANGED <<versions, records, attribute, spool, left, cut>> /\ PageStep

\* an error leaves the changes in the form
SetFails ==
    /\ page.saving # NoRecord
    /\ \/ ~CanSave /\ UNCHANGED left
       \/ May("fail") /\ Uses("fail")
    /\ page' = [page EXCEPT !.saving = NoRecord, !.sent = NoChange]
    /\ UNCHANGED <<database, cut>> /\ PageStep

-----------------------------------------------------------------------------
(* Others who change the database *)

Elsewhere == UNCHANGED <<versions, disk, job, cleaner, page, origin>>

\* a record is deleted, and its references to files with it
DelRecord(r) ==
    /\ May("delRecord") /\ Uses("delRecord")
    /\ r \in records
    /\ records' = records \ {r}
    /\ Unlink({l \in DOMAIN links : l[2] = r})
    /\ UNCHANGED <<attribute, spool, cut, attached>> /\ Elsewhere

\* an admin takes back that a file was deleted
FileRestore(l) ==
    /\ May("restore") /\ Uses("restore")
    /\ links[l]
    /\ links' = [links EXCEPT ![l] = FALSE]
    /\ UNCHANGED <<refCounter, records, attribute, spool, cut, attached>> /\ Elsewhere

\* the attribute is deleted: DROP TABLE, which runs no trigger
DropAttribute ==
    /\ May("drop") /\ Uses("drop")
    /\ attribute' = FALSE
    /\ links' = << >>
    /\ cut' = Meets("lost", {l[1] : l \in DOMAIN links})
    /\ UNCHANGED <<refCounter, records, spool, attached>> /\ Elsewhere

\* a mail is received that a function of the application assigned to a record
MailArrives(m, r) ==
    /\ May("mail") /\ Uses("mail")
    /\ attached[m] = -1 /\ r \in records
    /\ spool' = With(spool, m, r)
    /\ attached' = [attached EXCEPT ![m] = 0]
    /\ UNCHANGED <<refCounter, links, records, attribute, cut>> /\ Elsewhere

-----------------------------------------------------------------------------
(* cleanUpFiles *)

Cleans == UNCHANGED <<records, attribute, spool, job, page, origin, attached>>

\* references deleted long enough ago go; which of them is a matter of time
CleanLinks ==
    /\ cleaner = Resting
    /\ \E old \in SUBSET {l \in DOMAIN links : links[l]} : Unlink(old)
    /\ cleaner' = [cleaner EXCEPT !.step = "list"]
    /\ UNCHANGED <<versions, disk, left, cut>> /\ Cleans

\* versions that are neither the latest nor kept by their number or their age
Outdated == {p \in DOMAIN versions : Cardinality({v \in VersionsOf(p[1]) : v > p[2]}) > KeepCount}

ListVersions ==
    /\ cleaner.step = "list"
    /\ \E old \in SUBSET (Outdated \ {Latest(f) : f \in {p[1] : p \in DOMAIN versions}}) :
            cleaner' = [cleaner EXCEPT !.step = "old", !.paths = old]
    /\ UNCHANGED <<refCounter, versions, links, disk, left, cut>> /\ Cleans

\* one version: the file is removed, then its row.  Of those that are not on
\* disk the first loop deletes the row, the second one leaves it
RemoveVersion(p) ==
    /\ cleaner.step \in {"old", "unused"} /\ p \in cleaner.paths /\ cleaner.path = <<0, 0>>
    /\ cleaner' = IF p \in DOMAIN disk \/ cleaner.step = "old" THEN [cleaner EXCEPT !.path = p]
                  ELSE [cleaner EXCEPT !.paths = @ \ {p}]
    /\ disk' = Without(disk, {p})
    /\ UNCHANGED <<refCounter, versions, links, left, cut>> /\ Cleans

\* the system refuses to delete the file: it is kept for another day
VersionInUse(p) ==
    /\ May("inUse") /\ Uses("inUse")
    /\ cleaner.step \in {"old", "unused"} /\ p \in cleaner.paths \cap DOMAIN disk
    /\ cleaner.path = <<0, 0>>
    /\ cleaner' = [cleaner EXCEPT !.paths = @ \ {p}]
    /\ UNCHANGED <<refCounter, versions, links, disk, cut>> /\ Cleans

DeleteVersion ==
    /\ cleaner.path # <<0, 0>>
    /\ versions' = Without(versions, {cleaner.path})
    /\ cleaner' = [cleaner EXCEPT !.paths = @ \ {cleaner.path}, !.path = <<0, 0>>]
    /\ UNCHANGED <<refCounter, links, disk, left, cut>> /\ Cleans

\* mutant: a file that was deleted from its records counts as unused
UnusedOrDeleted == {f \in Known : \A l \in LinksOf(f) : links[l]}
\* files without references: "removes files that [...] are not assigned to a record"
Unused == {f \in Known : refCounter[f] = 0}

ListFiles ==
    /\ cleaner.step = "old" /\ cleaner.paths = {}
    /\ cleaner' = IF Unused = {} THEN Resting
                  ELSE [cleaner EXCEPT !.step = "unused", !.listed = Unused, !.files = Unused]
    /\ cut' = Meets("listed", {f \in Unused : LinksOf(f) = {}})
    /\ UNCHANGED <<refCounter, versions, links, disk, left>> /\ Cleans

NextFile(f) ==
    /\ cleaner.step = "unused" /\ cleaner.paths = {} /\ f \in cleaner.files
    /\ cleaner' = [cleaner EXCEPT !.files = @ \ {f}, !.paths = {f} \X VersionsOf(f)]
    /\ UNCHANGED <<refCounter, versions, links, disk, left, cut>> /\ Cleans

\* mutant: all unused files go, although a version was kept
StaleIfUnused == Unused
\* files left without versions go, and with them what refers to them
Stale == {f \in Known : VersionsOf(f) = {}}

DeleteFiles ==
    /\ cleaner.step = "unused" /\ cleaner.paths = {} /\ cleaner.files = {}
    /\ refCounter' = Without(refCounter, Stale)
    /\ links' = Without(links, UNION {LinksOf(f) : f \in Stale})
    /\ versions' = Without(versions, {p \in DOMAIN versions : p[1] \in Stale})
    /\ cleaner' = Resting
    /\ UNCHANGED <<disk, left, cut>> /\ Cleans

-----------------------------------------------------------------------------
\* the process ends, or loses its database, and starts again
Crash ==
    /\ May("crash") /\ Uses("crash")
    /\ job' = [j \in Jobs |-> Idle]
    /\ cleaner' = Resting
    /\ page' = [page EXCEPT !.saving = NoRecord, !.sent = NoChange]
    /\ cut' = [cut EXCEPT !["orphan"] = @ \cup {p[1] : p \in DOMAIN disk \ DOMAIN versions},
                          !["lost"]   = @ \cup ({cleaner.path[1]} \ {0})]
    /\ UNCHANGED <<database, disk, origin, attached>>

Init ==
    /\ refCounter = << >> /\ versions = << >> /\ links = << >>
    /\ records = Records /\ attribute = TRUE /\ spool = << >>
    /\ disk = << >>
    /\ job = [j \in Jobs |-> Idle]
    /\ cleaner = Resting
    /\ page \in {Shows(r) : r \in Records}
    /\ left \in Cases
    /\ origin = [f \in Files |-> NoRecord]
    /\ attached = [m \in Mails |-> -1]
    /\ cut = [x \in Mishaps |-> {}]

Storing(j)  == WriteFile(j) \/ HashFile(j) \/ StoreFile(j) \/ JobFails(j) \/ UploadDone(j)
CleanUp     == \/ CleanLinks \/ ListVersions \/ DeleteVersion \/ ListFiles \/ DeleteFiles
               \/ \E p \in Paths : RemoveVersion(p)
               \/ \E f \in Files : NextFile(f)
Request     == SetRecord \/ SetFails
Attaching   == \E j \in Attachers, m \in Mails : Attach(j, m)

Next ==
    \/ \E j \in Uploaders : UploadNew(j) \/ \E f \in Files : UploadVersion(j, f) \/ Paste(j, f)
    \/ Attaching
    \/ \E j \in Jobs : Storing(j)
    \/ \E r \in Records : OpenRecord(r) \/ DelRecord(r) \/ \E m \in Mails : MailArrives(m, r)
    \/ \E f \in Files : RemoveFile(f)
    \/ \E l \in DOMAIN links : FileRestore(l)
    \/ \E p \in Paths : VersionInUse(p)
    \/ Save \/ Request \/ DropAttribute \/ CleanUp \/ Crash

Spec == Init /\ [][Next]_vars

\* the scheduler runs both tasks again and again, and goroutines end
FairSpec ==
    /\ Spec
    /\ \A j \in Jobs : WF_vars(Storing(j))
    /\ WF_vars(CleanUp) /\ SF_vars(Attaching) /\ WF_vars(Request)

-----------------------------------------------------------------------------
(* Properties *)

\* Types, with what keys and the trigger keep: only known files and existing records
\* are linked, and ref_counter counts the links of a file while the attribute is there.
TypeOK ==
    /\ Known \subseteq Files /\ refCounter \in [Known -> Nat]
    /\ DOMAIN versions \subseteq Paths /\ versions \in [DOMAIN versions -> Jobs]
    /\ DOMAIN links \subseteq Known \X records /\ links \in [DOMAIN links -> BOOLEAN]
    /\ records \subseteq Records /\ attribute \in BOOLEAN
    /\ DOMAIN spool \subseteq Mails /\ spool \in [DOMAIN spool -> Records]
    /\ DOMAIN disk \subseteq Paths /\ disk \in [DOMAIN disk -> Jobs]
    /\ job \in [Jobs -> Job] /\ page \in Page
    /\ \A f \in Known : attribute => refCounter[f] = Cardinality(LinksOf(f))

\* What a record refers to is there: its file has a latest version, whose
\* content is on disk as it was when it was hashed, however uploads, saves,
\* deletions, clean ups, mails and crashes interleave; unless it was saved after a
\* clean up had put it on its list, or two uploads wrote the same version, of
\* the file or of one it was being copied from.
RecordsKeepFiles ==
    \A l \in DOMAIN links : l[1] \notin cut["listed"] \cup cut["raced"] =>
        /\ l[1] \in Known /\ VersionsOf(l[1]) # {}
        /\ Latest(l[1]) \in DOMAIN disk /\ disk[Latest(l[1])] = versions[Latest(l[1])]

\* Nothing stays on disk that the database does not know, other than what failed
\* or interrupted uploads left there, and what an upload wrote to the path of a
\* version while a clean up was between deleting its file and its row.
StoredIsKnown ==
    \A p \in DOMAIN disk \ DOMAIN versions :
        \/ p[1] \in cut["orphan"] \cup cut["rewritten"]
        \/ \E j \in Jobs : job[j].step # "none" /\ job[j].path = p

\* A record only gets files that were stored for it, although uploads take long
\* and forms change their record, unless an upload ended in another record.
FilesOfTheirRecord ==
    \A l \in DOMAIN links : l[2] = origin[l[1]] \/ l[1] \in cut["strayed"]

\* The files of a mail are attached once, and not lost, however the task fails
\* and is repeated, unless two executions work on the same mail.
MailAttachedOnce ==
    \A m \in Mails \ cut["parallel"] : attached[m] \in (IF m \in DOMAIN spool THEN {0} ELSE {-1, 1})

\* Files no record refers to (any more) are cleaned up in the end, unless their
\* attribute was deleted, or a clean up was interrupted between disk and row.
UnusedIsRemoved == <>[](\A f \in Known : LinksOf(f) # {} \/ f \in cut["lost"])

\* The files of mails get to their records in the end, unless the attribute they are
\* for was deleted, or the record of any of them is gone: the task ends at the first
\* mail that fails, each time.
MailsAreAttached ==
    <>[](spool = << >> \/ ~attribute \/ \E m \in DOMAIN spool : spool[m] \notin records)
=============================================================================
