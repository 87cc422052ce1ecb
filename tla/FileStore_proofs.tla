-------------------------- MODULE FileStore_proofs --------------------------
(* Proofs about FileStore, for every set of files, records, mails and        *)
(* goroutines, any number of versions and any number of each thing that may  *)
(* happen: what the keys and the trigger of the database keep, that mails    *)
(* are attached once, that files stay with their record, that nothing        *)
(* unknown stays on disk, and that records keep their files.                 *)
EXTENDS FileStore, FiniteSetTheorems, WellFoundedInduction, TLAPS

-----------------------------------------------------------------------------
(* The inductive invariants *)

Pending(j) == job[j].step \in {"write", "hash", "store"}
Creates(j) == Pending(j) /\ job[j].op \in {"new", "copy", "attach"}

Cleaner == [step: {"rest", "list", "old", "unused"}, paths: SUBSET Paths, path: Paths \cup {<<0, 0>>},
            listed: SUBSET Files, files: SUBSET Files]

\* Types; rows of versions belong to known files, links to files and records;
\* a goroutine that stores a file has a path for it, a mail if it is one of a
\* mail, and a hash when it is to write the rows.
Rows ==
    /\ Known \subseteq Files /\ refCounter \in [Known -> Nat]
    /\ DOMAIN versions \subseteq Known \X (0 .. MaxVersion) /\ versions \in [DOMAIN versions -> Jobs]
    /\ DOMAIN links \subseteq Known \X records /\ links \in [DOMAIN links -> BOOLEAN]
    /\ records \subseteq Records /\ attribute \in BOOLEAN
    /\ DOMAIN spool \subseteq Mails /\ spool \in [DOMAIN spool -> Records]
Stored  == DOMAIN disk \subseteq Paths /\ disk \in [DOMAIN disk -> Jobs]
Working ==
    /\ job \in [Jobs -> Job]
    /\ \A j \in Jobs :
        /\ job[j].step # "none" => job[j].path \in Paths /\ job[j].op # "idle"
        /\ job[j].step # "none" /\ job[j].op = "attach" => job[j].mail \in Mails /\ j \in Attachers
        /\ job[j].step = "store" \/ job[j].op = "copy" => job[j].hash \in Jobs
Using   == page \in Page /\ cleaner \in Cleaner
Recorded  == cut \in [Mishaps -> SUBSET (Files \cup Mails)]
           /\ attached \in [Mails -> Int] /\ origin \in [Files -> Records \cup {NoRecord}]

Typed == Rows /\ Stored /\ Working /\ Using /\ Recorded

\* A file that is being created is not known yet, and nobody else works on it.
Apart ==
    \A j \in Jobs : Creates(j) =>
        /\ job[j].path[1] \notin Known
        /\ \A k \in Jobs \ {j} : job[k].step # "none" => job[k].path[1] # job[j].path[1]

\* ref_counter counts the links, and without the attribute there are none.
Counted ==
    /\ attribute => \A f \in Known : refCounter[f] = Cardinality(LinksOf(f))
    /\ ~attribute => DOMAIN links = {}

Base == Typed /\ Apart /\ Counted

\* A mail that is being attached is still in the spool, and was not attached.
MailInWork ==
    \A j \in Jobs : Creates(j) /\ job[j].op = "attach" /\ job[j].mail \notin cut["parallel"] =>
        /\ job[j].mail \in DOMAIN spool
        /\ \A k \in Jobs \ {j} : Creates(k) /\ job[k].op = "attach" => job[k].mail # job[j].mail

Mailed == MailInWork /\ MailAttachedOnce

\* the input is to add the file to its record, or a save under way is to
AddsTo(f, r) ==
    \/ page.changes[f] = "create" /\ page.record = r
    \/ page.sent[f] = "create" /\ page.saving = r
Adds(f) == page.changes[f] = "create" \/ page.sent[f] = "create"

\* Files that are on their way to a record were stored for it.
Owned ==
    /\ FilesOfTheirRecord
    /\ \A f \in Files, r \in Records :
            AddsTo(f, r) /\ f \notin cut["strayed"] => origin[f] = r
    /\ \A f \in Files : Adds(f) =>
            \A j \in Jobs : Creates(j) => job[j].path[1] # f
    /\ \A j \in Jobs : job[j].step = "answer" => origin[job[j].path[1]] = job[j].record

\* What the clean up works on are versions there are.
CleanerHasVersions ==
    /\ cleaner.paths \subseteq DOMAIN versions
    /\ cleaner.step \in {"rest", "list"} => cleaner.paths = {}
    /\ cleaner.path \in cleaner.paths \cup {<<0, 0>>}

\* On disk is what the database knows, or what is being stored; what the clean
\* up removed from disk has not come back.
OnDisk ==
    /\ CleanerHasVersions
    /\ \A p \in DOMAIN disk \ DOMAIN versions :
        \/ p[1] \in cut["orphan"] \cup cut["rewritten"]
        \/ \E j \in Jobs : Pending(j) /\ job[j].path = p
    /\ cleaner.path \in DOMAIN disk => cleaner.path[1] \in cut["rewritten"]

Exempt == cut["listed"] \cup cut["raced"]

Good(f) == /\ VersionsOf(f) # {} /\ Latest(f) \in DOMAIN disk
           /\ disk[Latest(f)] = versions[Latest(f)]

\* Known files are readable, linked or not, unless they were listed as unused.
KnownAreGood == \A f \in Known \ Exempt : Good(f)

\* What is about to be stored is on disk, as one goroutine wrote it.
WrittenAreGood ==
    \A j \in Jobs : job[j].step \in {"hash", "store"} /\ job[j].path[1] \notin Exempt =>
        /\ job[j].path \in DOMAIN disk \ DOMAIN versions
        /\ job[j].step = "store" => disk[job[j].path] = job[j].hash
        /\ \A k \in Jobs \ {j} : job[k].step \in {"hash", "store"} => job[k].path # job[j].path

\* Of files that were not listed as unused only outdated versions are removed.
CleansOutdated ==
    /\ cleaner.step # "unused" => cleaner.listed = {} /\ cleaner.files = {}
    /\ cleaner.step = "old" =>
        \A p \in cleaner.paths : p[1] \in Exempt \/ p[2] < Latest(p[1])[2]
    /\ cleaner.step = "unused" =>
        /\ cleaner.listed \subseteq cut["listed"] /\ cleaner.files \subseteq cleaner.listed
        /\ \A p \in cleaner.paths : p[1] \in cleaner.listed

Kept == CleanerHasVersions /\ KnownAreGood /\ WrittenAreGood /\ CleansOutdated

-----------------------------------------------------------------------------
(* The operators *)

LEMMA WithIs ==
    ASSUME NEW fun, NEW key, NEW value
    PROVE  /\ DOMAIN With(fun, key, value) = DOMAIN fun \cup {key}
           /\ With(fun, key, value)[key] = value
           /\ \A k \in DOMAIN fun \ {key} : With(fun, key, value)[k] = fun[k]
BY DEF With

LEMMA WithType ==
    ASSUME NEW fun, NEW key, NEW value, NEW S, fun \in [DOMAIN fun -> S], value \in S
    PROVE  With(fun, key, value) \in [DOMAIN fun \cup {key} -> S]
BY DEF With

LEMMA WithoutIs ==
    ASSUME NEW fun, NEW keys
    PROVE  /\ DOMAIN Without(fun, keys) = DOMAIN fun \ keys
           /\ \A k \in DOMAIN fun \ keys : Without(fun, keys)[k] = fun[k]
BY DEF Without, Restrict

LEMMA WithoutType ==
    ASSUME NEW fun, NEW keys, NEW S, fun \in [DOMAIN fun -> S]
    PROVE  Without(fun, keys) \in [DOMAIN fun \ keys -> S]
BY DEF Without, Restrict

\* A set of numbers that is not empty has a least number.
LEMMA Least ==
    ASSUME NEW S \in SUBSET Nat, S # {}
    PROVE  \E x \in S : \A y \in S : x =< y
<1> DEFINE R == {ss \in Nat \X Nat : ss[1] < ss[2]}
<1>1. OpToRel(<, Nat) = R
    BY DEF OpToRel
<1>2. IsWellFoundedOn(R, Nat)
    BY <1>1, NatLessThanWellFounded
<1> HIDE DEF R
<1>3. PICK x \in S : \A y \in S : ~(<<y, x>> \in R)
    BY <1>2, WFMin
<1> USE DEF R
<1>4. ASSUME NEW y \in S PROVE x =< y
  <2>1. ~(<<y, x>> \in R)
      BY <1>3
  <2> QED BY <2>1
<1> QED BY <1>4

LEMMA MinIs ==
    ASSUME NEW S \in SUBSET Nat, S # {}
    PROVE  Min(S) \in S
BY Least DEF Min

\* A set of versions that is not empty has its greatest version: counted from
\* MaxVersion downwards it is the least.
LEMMA MaxIs ==
    ASSUME NEW S \in SUBSET (0 .. MaxVersion), S # {}
    PROVE  Max(S) \in S /\ \A v \in S : v <= Max(S)
<1> DEFINE T == {MaxVersion - v : v \in S}
<1>1. MaxVersion \in Nat
    BY FileStoreAssumption
<1>2. T \in SUBSET Nat /\ T # {}
  <2>1. \A v \in S : v \in Int /\ 0 <= v /\ v <= MaxVersion
      BY <1>1
  <2>2. \A v \in S : MaxVersion - v \in Nat
      BY <1>1, <2>1
  <2> QED BY <2>2
<1> HIDE DEF T
<1>3. PICK x \in T : \A y \in T : x =< y
    BY <1>2, Least
<1> USE DEF T
<1>4. PICK m \in S : x = MaxVersion - m
    BY <1>3
<1>5. \A v \in S : m >= v
  <2> SUFFICES ASSUME NEW v \in S PROVE m >= v
      OBVIOUS
  <2>1. MaxVersion - m =< MaxVersion - v
      BY <1>3, <1>4
  <2> QED BY <2>1, <1>1
<1>6. Max(S) \in S /\ \A v \in S : Max(S) >= v
    BY <1>5 DEF Max
<1> QED BY <1>6, <1>1

\* It is the only one that is as great as all.
LEMMA MaxOnly ==
    ASSUME NEW S \in SUBSET (0 .. MaxVersion), NEW m \in S, \A v \in S : v <= m
    PROVE  Max(S) = m
<1>1. Max(S) \in S /\ m <= Max(S)
    BY MaxIs
<1>2. Max(S) <= m
    BY <1>1
<1>3. m \in 0 .. MaxVersion /\ Max(S) \in 0 .. MaxVersion /\ MaxVersion \in Nat
    BY <1>1, FileStoreAssumption
<1> QED BY <1>1, <1>2, <1>3

\* A UUID that nothing else has.
LEMMA FreshIs ==
    ASSUME Fresh # {}
    PROVE  /\ Min(Fresh) \in Files \ Known /\ Min(Fresh) \notin cleaner.listed
           /\ page.changes[Min(Fresh)] = "none" /\ page.sent[Min(Fresh)] = "none"
           /\ \A p \in DOMAIN disk : p[1] # Min(Fresh)
           /\ \A j \in Jobs : Min(Fresh) # job[j].path[1] /\ Min(Fresh) # job[j].source[1]
<1>1. Fresh \in SUBSET Nat
    BY FileStoreAssumption DEF Fresh
<1>2. Min(Fresh) \in Fresh
    BY <1>1, MinIs
<1> HIDE DEF Fresh
<1> QED BY <1>2 DEF Fresh

LEMMA FreshCount == Cardinality(Fresh) > 1 => Fresh # {}
BY FS_EmptySet

LEMMA VersionsAre ==
    ASSUME Typed, NEW f
    PROVE  /\ VersionsOf(f) \in SUBSET (0 .. MaxVersion)
           /\ \A v : v \in VersionsOf(f) <=> <<f, v>> \in DOMAIN versions
<1>1. \A p \in DOMAIN versions : p[1] \in Known /\ p[2] \in 0 .. MaxVersion /\ p = <<p[1], p[2]>>
    BY DEF Typed, Rows
<1> QED BY <1>1 DEF VersionsOf

\* The latest version of a file is one of its versions.
LEMMA LatestIs ==
    ASSUME Typed, NEW f \in Files, VersionsOf(f) # {}
    PROVE  /\ Latest(f) \in DOMAIN versions /\ Latest(f) \in Paths
           /\ Latest(f)[1] = f /\ Latest(f)[2] \in 0 .. MaxVersion
           /\ \A v \in VersionsOf(f) : v <= Latest(f)[2]
<1>1. /\ Max(VersionsOf(f)) \in VersionsOf(f)
      /\ Max(VersionsOf(f)) \in 0 .. MaxVersion
      /\ \A v \in VersionsOf(f) : v <= Max(VersionsOf(f))
    BY VersionsAre, MaxIs
<1>2. <<f, Max(VersionsOf(f))>> \in DOMAIN versions
    BY <1>1, VersionsAre
<1> QED BY <1>1, <1>2 DEF Latest, Paths

LEMMA LinksFinite == Typed => IsFiniteSet(DOMAIN links)
<1>1. IsFiniteSet(Files \X Records)
    BY FileStoreAssumption, FS_Product
<1>2. Typed => DOMAIN links \in SUBSET (Files \X Records)
    BY DEF Typed, Rows
<1> QED BY <1>1, <1>2, FS_Subset

-----------------------------------------------------------------------------
(* Base: types, files that are being created, and counted links *)

\* Goroutines that go on or end, and files that go, keep what is said of files
\* that are being created.
LEMMA ApartKept ==
    ASSUME Apart, DOMAIN refCounter' \subseteq Known,
           \A j \in Jobs : /\ Creates(j)' => Creates(j)
                           /\ job'[j].step # "none" => job[j].step # "none"
                           /\ job'[j].step # "none" => job'[j].path = job[j].path
    PROVE  Apart'
<1> SUFFICES ASSUME NEW j \in Jobs, Creates(j)'
             PROVE  /\ job'[j].path[1] \notin DOMAIN refCounter'
                    /\ \A k \in Jobs \ {j} : job'[k].step # "none" => job'[k].path[1] # job'[j].path[1]
    BY DEF Apart, Known
<1>1. job'[j].step # "none"
    BY DEF Creates, Pending
<1>2. Creates(j) /\ job'[j].path = job[j].path
    BY <1>1
<1> QED BY <1>2 DEF Apart, Known

LEMMA ApartSame == Apart /\ UNCHANGED job /\ DOMAIN refCounter' \subseteq Known => Apart'
BY ApartKept DEF Creates, Pending

LEMMA CountedSame == Counted /\ UNCHANGED <<refCounter, links, attribute>> => Counted'
BY DEF Counted, LinksOf, Known

\* The trigger counts what goes.
LEMMA CountedUnlink ==
    ASSUME Typed, Counted, NEW gone \in SUBSET DOMAIN links, Unlink(gone)
    PROVE  /\ refCounter' \in [Known -> Nat]
           /\ DOMAIN links' = DOMAIN links \ gone /\ links' \in [DOMAIN links' -> BOOLEAN]
           /\ UNCHANGED attribute => Counted'
<1> DEFINE goneOf(f) == {l \in gone : l[1] = f}
<1>1. DOMAIN links' = DOMAIN links \ gone /\ links' \in [DOMAIN links' -> BOOLEAN]
    BY WithoutIs, WithoutType DEF Unlink, Typed, Rows
<1>2. DOMAIN refCounter' = Known /\ \A f \in Known : refCounter'[f] = refCounter[f] - Cardinality(goneOf(f))
    BY DEF Unlink
<1>3. ASSUME NEW f \in Known
      PROVE  /\ IsFiniteSet(LinksOf(f)) /\ Cardinality(goneOf(f)) \in Nat
             /\ Cardinality(LinksOf(f)') = Cardinality(LinksOf(f)) - Cardinality(goneOf(f))
             /\ Cardinality(goneOf(f)) <= Cardinality(LinksOf(f))
  <2>1. goneOf(f) \in SUBSET LinksOf(f) /\ LinksOf(f) \in SUBSET DOMAIN links
      BY DEF LinksOf
  <2>2. IsFiniteSet(LinksOf(f)) /\ IsFiniteSet(goneOf(f))
      BY <2>1, LinksFinite, FS_Subset
  <2>3. LinksOf(f)' = LinksOf(f) \ goneOf(f)
      BY <1>1 DEF LinksOf
  <2>4. LinksOf(f) \cap goneOf(f) = goneOf(f)
      BY <2>1
  <2> HIDE DEF goneOf
  <2>5. Cardinality(LinksOf(f) \ goneOf(f)) = Cardinality(LinksOf(f)) - Cardinality(goneOf(f))
      BY <2>2, <2>4, FS_Difference
  <2>6. Cardinality(goneOf(f)) <= Cardinality(LinksOf(f)) /\ Cardinality(goneOf(f)) \in Nat
      BY <2>1, <2>2, FS_Subset, FS_CardinalityType
  <2> QED BY <2>2, <2>3, <2>5, <2>6
<1> HIDE DEF goneOf
<1>4. ASSUME ~attribute PROVE UNCHANGED refCounter /\ DOMAIN links' = {}
  <2>1. gone = {} /\ DOMAIN links' = {}
      BY <1>1, <1>4 DEF Counted
  <2>2. \A f \in Known : Cardinality(goneOf(f)) = 0
      BY <2>1, FS_EmptySet DEF goneOf
  <2>3. \A f \in Known : refCounter[f] \in Nat
      BY DEF Typed, Rows
  <2>4. \A f \in Known : refCounter'[f] = refCounter[f]
      BY <1>2, <2>2, <2>3
  <2>5. refCounter = [f \in Known |-> refCounter[f]] /\ refCounter' = [f \in Known |-> refCounter'[f]]
      BY <1>2 DEF Typed, Rows, Unlink
  <2>6. refCounter' = refCounter
      BY <2>4, <2>5
  <2> QED BY <2>1, <2>6
<1>5. ASSUME attribute, NEW f \in Known
      PROVE  refCounter'[f] = Cardinality(LinksOf(f)') /\ refCounter'[f] \in Nat
  <2>1. refCounter[f] = Cardinality(LinksOf(f))
      BY <1>5 DEF Counted
  <2>2. Cardinality(LinksOf(f)) \in Nat
      BY <1>3, FS_CardinalityType
  <2> QED BY <1>2, <1>3, <2>1, <2>2
<1>6. refCounter' \in [Known -> Nat]
  <2>1. CASE attribute
      BY <1>2, <1>5, <2>1 DEF Unlink
  <2>2. CASE ~attribute
      BY <1>4, <2>2 DEF Typed, Rows
  <2> QED BY <2>1, <2>2
<1>7. ASSUME UNCHANGED attribute PROVE Counted'
  <2>1. attribute' => \A f \in DOMAIN refCounter' : refCounter'[f] = Cardinality(LinksOf(f)')
      BY <1>2, <1>5, <1>7
  <2>2. ~attribute' => DOMAIN links' = {}
      BY <1>4, <1>7
  <2> QED BY <2>1, <2>2 DEF Counted, Known
<1> QED BY <1>1, <1>6, <1>7

LEMMA CutType ==
    ASSUME Typed, NEW f \in Files
    PROVE  New(f) \in [Mishaps -> SUBSET (Files \cup Mails)]
BY DEF New, Typed, Recorded

LEMMA IdleType == Idle \in Job
<1>1. 0 \in 0 .. MaxVersion
    BY FileStoreAssumption
<1> QED BY <1>1 DEF Idle, Job, Contents

\* A goroutine starts with a file of its own, or with a version of a known one.
LEMMA BaseStarts ==
    ASSUME Base, NEW j \in Jobs, NEW w \in Job, Starts(j, w), w.step = "write", w.path \in Paths,
           \/ w.op = "version" /\ w.path[1] \in Known
           \/ w.path[1] \notin Known /\ \A k \in Jobs : job[k].path[1] # w.path[1],
           w.op # "idle", w.op = "attach" => w.mail \in Mails /\ j \in Attachers, w.op = "copy" => w.hash \in Jobs,
           cut' \in [Mishaps -> SUBSET (Files \cup Mails)]
    PROVE  Base'
<1>1. job \in [Jobs -> Job] /\ job' = [job EXCEPT ![j] = w]
    BY DEF Base, Typed, Working, Starts
<1>2. UNCHANGED <<refCounter, versions, links, records, attribute, spool, disk, cleaner, page,
                  origin, attached>>
    BY DEF Starts, database
<1>3. job'[j] = w /\ \A k \in Jobs \ {j} : job'[k] = job[k]
    BY <1>1
<1>4. Working'
    BY <1>1, <1>3 DEF Base, Typed, Working
<1>5. Typed'
    BY <1>2, <1>4 DEF Base, Typed, Rows, Stored, Using, Recorded, Known
<1>6. Apart'
  <2> SUFFICES ASSUME NEW k \in Jobs, Creates(k)'
               PROVE  /\ job'[k].path[1] \notin Known
                      /\ \A m \in Jobs \ {k} : job'[m].step # "none" => job'[m].path[1] # job'[k].path[1]
      BY <1>2 DEF Apart, Known
  <2>1. CASE k = j
    <3>1. w.path[1] \notin Known /\ \A m \in Jobs : job[m].path[1] # w.path[1]
        BY <1>3, <2>1 DEF Creates
    <3> QED BY <1>3, <2>1, <3>1
  <2>2. CASE k # j
    <3>1. Creates(k) /\ job'[k] = job[k]
        BY <1>3, <2>2 DEF Creates, Pending
    <3>2. job[k].path[1] \notin Known
          /\ \A m \in Jobs \ {k} : job[m].step # "none" => job[m].path[1] # job[k].path[1]
        BY <3>1 DEF Base, Apart
    <3>3. w.path[1] # job[k].path[1]
        BY <3>2
    <3> QED BY <1>3, <3>1, <3>2, <3>3
  <2> QED BY <2>1, <2>2
<1>7. Counted'
    BY <1>2, CountedSame DEF Base
<1> QED BY <1>5, <1>6, <1>7 DEF Base

LEMMA BaseUploadNew == ASSUME Base, NEW j \in Uploaders, UploadNew(j) PROVE Base'
<1> DEFINE w == [Idle EXCEPT !.op = "new", !.step = "write", !.path = <<Min(Fresh), 0>>,
                             !.record = page.record]
<1>1. Fresh # {} /\ Starts(j, w) /\ cut' = New(Min(Fresh)) /\ j \in Jobs
    BY FreshCount DEF UploadNew, Jobs
<1>2. Min(Fresh) \in Files \ Known /\ \A k \in Jobs : job[k].path[1] # Min(Fresh)
    BY <1>1, FreshIs
<1>3. page.record \in Records
    BY DEF Base, Typed, Using, Page
<1>4. <<Min(Fresh), 0>> \in Paths
    BY <1>2, FileStoreAssumption DEF Paths
<1>5. w \in Job /\ w.step = "write" /\ w.path = <<Min(Fresh), 0>> /\ w.op = "new"
    BY <1>3, <1>4, IdleType DEF Job, Idle, Paths
<1>6. cut' \in [Mishaps -> SUBSET (Files \cup Mails)]
    BY <1>1, <1>2, CutType DEF Base
<1> HIDE DEF w
<1> QED BY <1>1, <1>2, <1>4, <1>5, <1>6, BaseStarts

LEMMA BaseUploadVersion ==
    ASSUME Base, NEW j \in Uploaders, NEW f \in Files, UploadVersion(j, f) PROVE Base'
<1> DEFINE w == [Idle EXCEPT !.op = "version", !.step = "write", !.path = <<f, Latest(f)[2] + 1>>]
<1>1. /\ LinksOf(f) # {} /\ VersionsOf(f) # {} /\ Latest(f)[2] < MaxVersion
      /\ Starts(j, w) /\ UNCHANGED cut /\ j \in Jobs
    BY DEF UploadVersion, Jobs
<1>2. Latest(f)[2] \in 0 .. MaxVersion
    BY <1>1, LatestIs DEF Base
<1>3. <<f, Latest(f)[2] + 1>> \in Paths
    BY <1>1, <1>2, FileStoreAssumption DEF Paths
<1>4. f \in Known
    BY <1>1 DEF LinksOf, Base, Typed, Rows
<1>5. w \in Job /\ w.step = "write" /\ w.path = <<f, Latest(f)[2] + 1>> /\ w.op = "version"
    BY <1>3, IdleType DEF Job, Idle, Paths
<1>6. cut' \in [Mishaps -> SUBSET (Files \cup Mails)]
    BY <1>1 DEF Base, Typed, Recorded
<1> HIDE DEF w
<1> QED BY <1>1, <1>3, <1>4, <1>5, <1>6, BaseStarts

LEMMA BasePaste == ASSUME Base, NEW j \in Uploaders, NEW f \in Files, Paste(j, f) PROVE Base'
<1> DEFINE w == [Idle EXCEPT !.op = "copy", !.step = "write", !.path = <<Min(Fresh), 0>>,
                             !.source = Latest(f), !.hash = versions[Latest(f)],
                             !.record = page.record]
<1>1. /\ Fresh # {} /\ Starts(j, w) /\ cut' = New(Min(Fresh)) /\ j \in Jobs
      /\ VersionsOf(f) # {}
    BY FreshCount DEF Paste, Jobs
<1>2. Min(Fresh) \in Files \ Known /\ \A k \in Jobs : job[k].path[1] # Min(Fresh)
    BY <1>1, FreshIs
<1>3. page.record \in Records
    BY DEF Base, Typed, Using, Page
<1>4. <<Min(Fresh), 0>> \in Paths
    BY <1>2, FileStoreAssumption DEF Paths
<1>5. Latest(f) \in Paths /\ versions[Latest(f)] \in Jobs
    BY <1>1, LatestIs DEF Base, Typed, Rows
<1>6. w \in Job /\ w.step = "write" /\ w.path = <<Min(Fresh), 0>> /\ w.op = "copy" /\ w.hash \in Jobs
    BY <1>3, <1>4, <1>5, IdleType DEF Job, Idle, Paths, Contents
<1>7. cut' \in [Mishaps -> SUBSET (Files \cup Mails)]
    BY <1>1, <1>2, CutType DEF Base
<1> HIDE DEF w
<1> QED BY <1>1, <1>2, <1>4, <1>6, <1>7, BaseStarts

LEMMA BaseAttach == ASSUME Base, NEW j \in Attachers, NEW m \in Mails, Attach(j, m) PROVE Base'
<1> DEFINE w == [Idle EXCEPT !.op = "attach", !.step = "write", !.path = <<Min(Fresh), 0>>,
                             !.record = spool[m], !.mail = m]
<1>1. /\ Fresh # {} /\ Starts(j, w) /\ j \in Jobs /\ m \in DOMAIN spool
      /\ cut' = [New(Min(Fresh)) EXCEPT !["parallel"] =
                    @ \cup {n \in {m} : \E k \in Attachers \ {j} : job[k].mail = n}]
    BY DEF Attach, Jobs
<1>2. Min(Fresh) \in Files \ Known /\ \A k \in Jobs : job[k].path[1] # Min(Fresh)
    BY <1>1, FreshIs
<1>3. spool[m] \in Records
    BY <1>1 DEF Base, Typed, Rows
<1>4. <<Min(Fresh), 0>> \in Paths
    BY <1>2, FileStoreAssumption DEF Paths
<1>5. w \in Job /\ w.step = "write" /\ w.path = <<Min(Fresh), 0>> /\ w.op = "attach" /\ w.mail \in Mails
    BY <1>3, <1>4, IdleType DEF Job, Idle, Paths
<1>6. cut' \in [Mishaps -> SUBSET (Files \cup Mails)]
  <2>1. New(Min(Fresh)) \in [Mishaps -> SUBSET (Files \cup Mails)]
      BY <1>2, CutType DEF Base
  <2> QED BY <1>1, <2>1
<1> HIDE DEF w
<1> QED BY <1>1, <1>2, <1>4, <1>5, <1>6, BaseStarts

LEMMA BaseWrite == ASSUME Base, NEW j \in Jobs, WriteFile(j) PROVE Base'
<1> DEFINE p == job[j].path
           s == IF job[j].op = "copy" THEN "store" ELSE "hash"
           content == IF job[j].op = "copy" THEN disk[job[j].source] ELSE j
<1>1. /\ job \in [Jobs -> Job] /\ job[j] \in Job /\ job[j].step = "write" /\ p \in Paths
      /\ job[j].op = "copy" => job[j].source \in DOMAIN disk
    BY DEF Base, Typed, Working, WriteFile
<1>2. /\ disk' = With(disk, p, content) /\ job' = [job EXCEPT ![j].step = s]
      /\ cut' = [cut EXCEPT !["raced"]     = @ \cup (IF Raced(j) THEN {p[1]} ELSE {}),
                            !["rewritten"] = @ \cup {q[1] : q \in {p} \cap {cleaner.path}}]
      /\ UNCHANGED <<refCounter, versions, links, records, attribute, spool, cleaner, page, left,
                     origin, attached>>
    BY DEF WriteFile, database
<1>3. content \in Jobs
    BY <1>1 DEF Base, Typed, Stored
<1>4. Stored'
  <2> HIDE DEF content
  <2>1. DOMAIN disk' = DOMAIN disk \cup {p} /\ disk' \in [DOMAIN disk \cup {p} -> Jobs]
      BY <1>2, <1>3, WithIs, WithType DEF Base, Typed, Stored
  <2> QED BY <1>1, <2>1 DEF Base, Typed, Stored
<1>5. /\ \A k \in Jobs \ {j} : job'[k] = job[k]
      /\ job'[j].step = s /\ job'[j].path = p /\ job'[j].op = job[j].op /\ job'[j].hash = job[j].hash
      /\ job'[j].mail = job[j].mail
      /\ job' \in [Jobs -> Job]
    BY <1>1, <1>2 DEF Job
<1>6. Working'
    BY <1>1, <1>5 DEF Base, Typed, Working
<1>7. p[1] \in Files
    BY <1>1 DEF Paths
<1>8. cut' \in [Mishaps -> SUBSET (Files \cup Mails)]
    BY <1>2, <1>7 DEF Base, Typed, Recorded
<1>9. Typed'
    BY <1>2, <1>4, <1>6, <1>8 DEF Base, Typed, Rows, Using, Recorded, Known
<1>10. Apart'
    BY <1>1, <1>2, <1>5, ApartKept DEF Base, Creates, Pending, Known
<1>11. Counted'
    BY <1>2, CountedSame DEF Base
<1> QED BY <1>9, <1>10, <1>11 DEF Base

LEMMA BaseHash == ASSUME Base, NEW j \in Jobs, HashFile(j) PROVE Base'
<1> DEFINE h == disk[job[j].path]
<1>1. /\ job \in [Jobs -> Job] /\ job[j] \in Job /\ job[j].step = "hash" /\ h \in Jobs
    BY DEF Base, Typed, Working, Stored, HashFile
<1>2. /\ job' = [job EXCEPT ![j].hash = h, ![j].step = "store"]
      /\ UNCHANGED <<refCounter, versions, links, records, attribute, spool, disk, cleaner, page, left,
                     origin, attached, cut>>
    BY DEF HashFile, database, history
<1> HIDE DEF h
<1>3. /\ \A k \in Jobs \ {j} : job'[k] = job[k]
      /\ job'[j].step = "store" /\ job'[j].path = job[j].path /\ job'[j].op = job[j].op
      /\ job'[j].hash = h /\ job'[j].mail = job[j].mail
      /\ job' \in [Jobs -> Job]
    BY <1>1, <1>2 DEF Job, Contents
<1>4. Working'
    BY <1>1, <1>3 DEF Base, Typed, Working
<1>5. Typed'
    BY <1>2, <1>4 DEF Base, Typed, Rows, Stored, Using, Recorded, Known
<1>6. Apart'
    BY <1>1, <1>2, <1>3, ApartKept DEF Base, Creates, Pending, Known
<1>7. Counted'
    BY <1>2, CountedSame DEF Base
<1> QED BY <1>5, <1>6, <1>7 DEF Base

\* Whatever ends, ends idle.
LEMMA IdleJob ==
    ASSUME Base, NEW j \in Jobs, job' = [job EXCEPT ![j] = Idle], UNCHANGED refCounter
    PROVE  Working' /\ Apart'
<1>1. job \in [Jobs -> Job]
    BY DEF Base, Typed, Working
<1>2. job' \in [Jobs -> Job] /\ job'[j] = Idle /\ \A k \in Jobs \ {j} : job'[k] = job[k]
    BY <1>1, IdleType
<1>3. Idle.step = "none" /\ Idle.op = "idle"
    BY DEF Idle
<1>4. Working'
    BY <1>2, <1>3 DEF Base, Typed, Working
<1>5. Apart'
    BY <1>2, <1>3, ApartKept DEF Base, Creates, Pending, Known
<1> QED BY <1>4, <1>5

LEMMA BaseJobFails == ASSUME Base, NEW j \in Jobs, JobFails(j) PROVE Base'
<1>1. /\ job' = [job EXCEPT ![j] = Idle]
      /\ cut' = Meets("orphan", {p[1] : p \in {job[j].path} \cap (DOMAIN disk \ DOMAIN versions)})
      /\ UNCHANGED <<refCounter, versions, links, records, attribute, spool, disk, cleaner, page,
                     origin, attached>>
    BY DEF JobFails, database
<1>2. cut' \in [Mishaps -> SUBSET (Files \cup Mails)]
  <2>1. {p[1] : p \in {job[j].path} \cap (DOMAIN disk \ DOMAIN versions)} \subseteq Files
      BY DEF Base, Typed, Stored, Paths
  <2> HIDE DEF Paths
  <2> QED BY <1>1, <2>1 DEF Meets, Base, Typed, Recorded
<1>3. Working' /\ Apart'
    BY <1>1, IdleJob
<1>4. Typed'
    BY <1>1, <1>2, <1>3 DEF Base, Typed, Rows, Stored, Using, Recorded, Known
<1> QED BY <1>1, <1>3, <1>4, CountedSame DEF Base

LEMMA BaseUploadDone == ASSUME Base, NEW j \in Jobs, UploadDone(j) PROVE Base'
<1> DEFINE f == job[j].path[1]
<1>1. /\ job' = [job EXCEPT ![j] = Idle] /\ page' = [page EXCEPT !.changes[f] = "create"]
      /\ cut' = IF page.record = job[j].record THEN cut ELSE Meets("strayed", {f})
      /\ UNCHANGED <<refCounter, versions, links, records, attribute, spool, disk, cleaner,
                     origin, attached>>
    BY DEF UploadDone, database
<1>2. f \in Files
    BY DEF Base, Typed, Working, UploadDone, Paths
<1>3. cut' \in [Mishaps -> SUBSET (Files \cup Mails)]
    BY <1>1, <1>2 DEF Meets, Base, Typed, Recorded
<1>4. page' \in Page
    BY <1>1, <1>2 DEF Base, Typed, Using, Page
<1>5. Working' /\ Apart'
    BY <1>1, IdleJob
<1>6. Typed'
    BY <1>1, <1>3, <1>4, <1>5 DEF Base, Typed, Rows, Stored, Using, Recorded, Known
<1> QED BY <1>1, <1>5, <1>6, CountedSame DEF Base

\* the file and the link a goroutine is to store
FileOf(j) == job[j].path[1]
LinkOf(j) == <<job[j].path[1], job[j].record>>

\* The transaction: a created file becomes known, with its link if it is one of
\* a mail; a version only if its file is still known.
LEMMA StoreFileIs ==
    ASSUME Base, NEW j \in Jobs, StoreFile(j)
    PROVE  /\ FileOf(j) \in Files /\ job[j].path \in Paths /\ job[j].path = <<FileOf(j), job[j].path[2]>> /\ job[j].path[2] \in 0 .. MaxVersion
           /\ DOMAIN versions' = DOMAIN versions \cup {job[j].path} /\ versions' \in [DOMAIN versions' -> Jobs]
           /\ versions'[job[j].path] = job[j].hash /\ \A q \in DOMAIN versions \ {job[j].path} : versions'[q] = versions[q]
           /\ DOMAIN refCounter' = Known \cup {FileOf(j)} /\ refCounter' \in [Known \cup {FileOf(j)} -> Nat]
           /\ \A g \in Known \ {FileOf(j)} : refCounter'[g] = refCounter[g]
           /\ \/ /\ job[j].op = "version" /\ FileOf(j) \in Known /\ job[j].path \notin DOMAIN versions
                 /\ UNCHANGED <<refCounter, links, spool, origin, attached>>
              \/ /\ job[j].op = "attach" /\ FileOf(j) \notin Known /\ attribute /\ job[j].record \in records
                 /\ refCounter'[FileOf(j)] = 1
                 /\ DOMAIN links' = DOMAIN links \cup {LinkOf(j)} /\ links' \in [DOMAIN links' -> BOOLEAN]
                 /\ TakesMail(j)
                 /\ origin' = [origin EXCEPT ![FileOf(j)] = job[j].record]
                 /\ attached' = [attached EXCEPT ![job[j].mail] = @ + 1]
              \/ /\ job[j].op \in {"new", "copy"} /\ FileOf(j) \notin Known
                 /\ refCounter'[FileOf(j)] = 0
                 /\ origin' = [origin EXCEPT ![FileOf(j)] = job[j].record]
                 /\ UNCHANGED <<links, spool, attached>>
           /\ job' \in [Jobs -> Job] /\ \A k \in Jobs \ {j} : job'[k] = job[k]
           /\ \/ job'[j] = Idle /\ job[j].op \notin {"new", "copy"}
              \/ /\ job[j].op \in {"new", "copy"} /\ job'[j].step = "answer" /\ job'[j].path = job[j].path
                 /\ job'[j].op = job[j].op /\ job'[j].hash = job[j].hash
                 /\ job'[j].mail = job[j].mail /\ job'[j].record = job[j].record
           /\ UNCHANGED <<records, attribute, disk, cleaner, page, left, cut>>
<1>1. /\ job \in [Jobs -> Job] /\ job[j] \in Job /\ job[j].step = "store"
      /\ job[j].path \in Paths /\ job[j].path = <<FileOf(j), job[j].path[2]>> /\ FileOf(j) \in Files /\ job[j].path[2] \in 0 .. MaxVersion
      /\ job[j].hash \in Jobs /\ job[j].op \in {"new", "version", "copy", "attach"}
    BY DEF Base, Typed, Working, StoreFile, Paths, Job, FileOf
<1>2. versions' = With(versions, job[j].path, job[j].hash)
    BY DEF StoreFile
<1>3. /\ job[j].op = "version" => FileOf(j) \in Known /\ job[j].path \notin DOMAIN versions
      /\ job[j].op = "attach" => attribute /\ job[j].record \in records
    BY DEF StoreFile, CanStore, FileOf
<1>4. job[j].op # "version" => FileOf(j) \notin Known
    BY <1>1 DEF Creates, Pending, Base, Apart, FileOf
<1>5. /\ DOMAIN versions' = DOMAIN versions \cup {job[j].path} /\ versions' \in [DOMAIN versions' -> Jobs]
      /\ versions'[job[j].path] = job[j].hash /\ \A q \in DOMAIN versions \ {job[j].path} : versions'[q] = versions[q]
  <2>1. versions \in [DOMAIN versions -> Jobs]
      BY DEF Base, Typed, Rows
  <2> QED BY <1>1, <1>2, <2>1 DEF With
<1>6. refCounter \in [Known -> Nat] /\ DOMAIN refCounter = Known
    BY DEF Base, Typed, Rows, Known
<1>7. CASE job[j].op = "version"
  <2>1. UNCHANGED <<refCounter, links, spool, origin, attached>>
      BY <1>7 DEF StoreFile
  <2>2. job' = [job EXCEPT ![j] = Idle]
      BY <1>7 DEF StoreFile
  <2>3. job' \in [Jobs -> Job] /\ job'[j] = Idle /\ \A k \in Jobs \ {j} : job'[k] = job[k]
      BY <1>1, <2>2, IdleType
  <2>4. UNCHANGED <<records, attribute, disk, cleaner, page, left, cut>>
      BY DEF StoreFile
  <2> QED BY <1>1, <1>3, <1>5, <1>6, <1>7, <2>1, <2>3, <2>4
<1>8. CASE job[j].op = "attach"
  <2>1. /\ refCounter' = With(refCounter, FileOf(j), 1) /\ links' = With(links, LinkOf(j), FALSE) /\ TakesMail(j)
        /\ origin' = [origin EXCEPT ![FileOf(j)] = job[j].record]
        /\ attached' = [attached EXCEPT ![job[j].mail] = @ + 1]
      BY <1>8 DEF StoreFile, FileOf, LinkOf
  <2>2. job' = [job EXCEPT ![j] = Idle]
      BY <1>8 DEF StoreFile
  <2>3. job' \in [Jobs -> Job] /\ job'[j] = Idle /\ \A k \in Jobs \ {j} : job'[k] = job[k]
      BY <1>1, <2>2, IdleType
  <2>4. UNCHANGED <<records, attribute, disk, cleaner, page, left, cut>>
      BY DEF StoreFile
  <2>5. /\ DOMAIN refCounter' = Known \cup {FileOf(j)} /\ refCounter' \in [Known \cup {FileOf(j)} -> Nat]
        /\ refCounter'[FileOf(j)] = 1 /\ \A g \in Known \ {FileOf(j)} : refCounter'[g] = refCounter[g]
      BY <1>6, <2>1 DEF With
  <2>6. DOMAIN links' = DOMAIN links \cup {LinkOf(j)} /\ links' \in [DOMAIN links' -> BOOLEAN]
    <3>1. links \in [DOMAIN links -> BOOLEAN]
        BY DEF Base, Typed, Rows
    <3> QED BY <2>1, <3>1 DEF With
  <2> QED BY <1>1, <1>3, <1>4, <1>5, <1>8, <2>1, <2>3, <2>4, <2>5, <2>6
<1>9. CASE job[j].op \in {"new", "copy"}
  <2>1. /\ refCounter' = With(refCounter, FileOf(j), 0)
        /\ origin' = [origin EXCEPT ![FileOf(j)] = job[j].record]
        /\ UNCHANGED <<links, spool, attached>>
      BY <1>9 DEF StoreFile, FileOf
  <2>2. job' = [job EXCEPT ![j] = [@ EXCEPT !.step = "answer"]]
      BY <1>9 DEF StoreFile
  <2>3. /\ job' \in [Jobs -> Job] /\ job'[j].step = "answer" /\ job'[j].path = job[j].path
        /\ job'[j].op = job[j].op /\ job'[j].hash = job[j].hash
        /\ job'[j].mail = job[j].mail /\ job'[j].record = job[j].record
        /\ \A k \in Jobs \ {j} : job'[k] = job[k]
      BY <1>1, <2>2 DEF Job
  <2>4. UNCHANGED <<records, attribute, disk, cleaner, page, left, cut>>
      BY DEF StoreFile
  <2>5. /\ DOMAIN refCounter' = Known \cup {FileOf(j)} /\ refCounter' \in [Known \cup {FileOf(j)} -> Nat]
        /\ refCounter'[FileOf(j)] = 0 /\ \A g \in Known \ {FileOf(j)} : refCounter'[g] = refCounter[g]
      BY <1>6, <2>1 DEF With
  <2> QED BY <1>1, <1>4, <1>5, <1>9, <2>1, <2>3, <2>4, <2>5
<1> QED BY <1>1, <1>7, <1>8, <1>9

LEMMA BaseStore == ASSUME Base, NEW j \in Jobs, StoreFile(j) PROVE Base'
<1>1. /\ FileOf(j) \in Files /\ job[j].path \in Paths /\ job[j].path = <<FileOf(j), job[j].path[2]>> /\ job[j].path[2] \in 0 .. MaxVersion
      /\ DOMAIN versions' = DOMAIN versions \cup {job[j].path} /\ versions' \in [DOMAIN versions' -> Jobs]
      /\ DOMAIN refCounter' = Known \cup {FileOf(j)} /\ refCounter' \in [Known \cup {FileOf(j)} -> Nat]
      /\ \A g \in Known \ {FileOf(j)} : refCounter'[g] = refCounter[g]
      /\ UNCHANGED <<records, attribute, disk, cleaner, page, left, cut>>
    BY StoreFileIs
<1>2. \/ /\ job[j].op = "version" /\ FileOf(j) \in Known
         /\ UNCHANGED <<refCounter, links, spool, origin, attached>>
      \/ /\ job[j].op = "attach" /\ FileOf(j) \notin Known /\ attribute /\ job[j].record \in records
         /\ refCounter'[FileOf(j)] = 1
         /\ DOMAIN links' = DOMAIN links \cup {LinkOf(j)} /\ links' \in [DOMAIN links' -> BOOLEAN]
         /\ TakesMail(j)
         /\ origin' = [origin EXCEPT ![FileOf(j)] = job[j].record]
         /\ attached' = [attached EXCEPT ![job[j].mail] = @ + 1]
      \/ /\ job[j].op \in {"new", "copy"} /\ FileOf(j) \notin Known
         /\ refCounter'[FileOf(j)] = 0
         /\ origin' = [origin EXCEPT ![FileOf(j)] = job[j].record]
         /\ UNCHANGED <<links, spool, attached>>
    BY StoreFileIs
<1>3. /\ job' \in [Jobs -> Job] /\ \A k \in Jobs \ {j} : job'[k] = job[k]
      /\ \/ job'[j] = Idle
         \/ /\ job[j].op \in {"new", "copy"} /\ job'[j].step = "answer" /\ job'[j].path = job[j].path
            /\ job'[j].op = job[j].op /\ job'[j].hash = job[j].hash
    BY StoreFileIs
<1>4. job[j].step = "store" /\ job[j].hash \in Jobs /\ job[j] \in Job
    BY DEF StoreFile, Base, Typed, Working
<1>5. Idle.step = "none" /\ Idle.op = "idle"
    BY DEF Idle
<1>6. Working'
    BY <1>1, <1>3, <1>4, <1>5 DEF Base, Typed, Working
<1>7. Apart'
  <2> SUFFICES ASSUME NEW k \in Jobs, Creates(k)'
               PROVE  /\ job'[k].path[1] \notin DOMAIN refCounter'
                      /\ \A m \in Jobs \ {k} : job'[m].step # "none" => job'[m].path[1] # job'[k].path[1]
      BY DEF Apart, Known
  <2>1. k # j
      BY <1>3, <1>5 DEF Creates, Pending
  <2>2. Creates(k) /\ job'[k] = job[k]
      BY <1>3, <2>1 DEF Creates, Pending
  <2>3. job[k].path[1] \notin Known
        /\ \A m \in Jobs \ {k} : job[m].step # "none" => job[m].path[1] # job[k].path[1]
      BY <2>2 DEF Base, Apart
  <2>4. FileOf(j) # job[k].path[1]
      BY <1>4, <2>1, <2>3 DEF FileOf
  <2> QED BY <1>1, <1>3, <1>4, <1>5, <2>2, <2>3, <2>4 DEF FileOf
<1>8. Rows'
  <2>0. /\ DOMAIN versions \subseteq Known \X (0 .. MaxVersion)
        /\ DOMAIN links \subseteq Known \X records /\ links \in [DOMAIN links -> BOOLEAN]
        /\ DOMAIN spool \subseteq Mails /\ spool \in [DOMAIN spool -> Records]
      BY DEF Base, Typed, Rows
  <2>9. FileOf(j) \in DOMAIN refCounter' /\ Known \subseteq DOMAIN refCounter'
      BY <1>1
  <2>1. DOMAIN versions' \subseteq (DOMAIN refCounter') \X (0 .. MaxVersion)
    <3>1. job[j].path[2] \in 0 .. MaxVersion /\ job[j].path = <<FileOf(j), job[j].path[2]>>
        BY <1>1
    <3>2. job[j].path \in (DOMAIN refCounter') \X (0 .. MaxVersion)
        BY <2>9, <3>1
    <3>3. DOMAIN versions' = DOMAIN versions \cup {job[j].path}
        BY <1>1
    <3> QED BY <2>0, <2>9, <3>2, <3>3
  <2>2. DOMAIN links' \subseteq (DOMAIN refCounter') \X records /\ links' \in [DOMAIN links' -> BOOLEAN]
    <3>1. CASE UNCHANGED links
        BY <2>0, <2>9, <3>1
    <3>2. CASE job[j].op = "attach"
      <4>1. LinkOf(j) \in (DOMAIN refCounter') \X records
        <5>1. job[j].record \in records
            BY <1>2, <3>2
        <5> QED BY <2>9, <5>1 DEF LinkOf, FileOf
      <4>2. DOMAIN links' = DOMAIN links \cup {LinkOf(j)} /\ links' \in [DOMAIN links' -> BOOLEAN]
          BY <1>2, <3>2
      <4> QED BY <2>0, <2>9, <4>1, <4>2
    <3> QED BY <1>2, <3>1, <3>2
  <2>3. DOMAIN spool' \subseteq Mails /\ spool' \in [DOMAIN spool' -> Records]
    <3>1. CASE TakesMail(j)
        BY <2>0, <3>1 DEF TakesMail, Without, Restrict
    <3>2. CASE UNCHANGED spool
        BY <2>0, <3>2
    <3> QED BY <1>2, <3>1, <3>2
  <2>4. DOMAIN refCounter' \subseteq Files
      BY <1>1 DEF Base, Typed, Rows
  <2>5. records' \subseteq Records /\ attribute' \in BOOLEAN /\ UNCHANGED records
      BY <1>1 DEF Base, Typed, Rows
  <2> QED BY <1>1, <2>1, <2>2, <2>3, <2>4, <2>5 DEF Rows, Known
<1>9. Recorded'
  <2>1. job[j].record \in Records \cup {NoRecord}
      BY <1>4 DEF Job
  <2>2. /\ origin \in [Files -> Records \cup {NoRecord}] /\ attached \in [Mails -> Int]
        /\ cut \in [Mishaps -> SUBSET (Files \cup Mails)]
      BY DEF Base, Typed, Recorded
  <2>3. origin' \in [Files -> Records \cup {NoRecord}]
      BY <1>2, <2>1, <2>2
  <2>4. attached' \in [Mails -> Int]
      BY <1>2, <2>2
  <2> QED BY <1>1, <2>2, <2>3, <2>4 DEF Recorded
<1>10. Typed'
    BY <1>1, <1>6, <1>8, <1>9 DEF Base, Typed, Stored, Using
<1>11. Counted'
  <2>1. ~attribute' => DOMAIN links' = {}
      BY <1>1, <1>2 DEF Base, Counted
  <2>2. ASSUME attribute', NEW g \in DOMAIN refCounter' PROVE refCounter'[g] = Cardinality(LinksOf(g)')
    <3>0. attribute
        BY <1>1, <2>2
    <3>1. CASE g \in Known
      <4>1. refCounter'[g] = refCounter[g] /\ LinksOf(g)' = LinksOf(g)
          BY <1>1, <1>2, <3>1 DEF LinksOf, LinkOf
      <4> QED BY <3>0, <3>1, <4>1 DEF Base, Counted
    <3>2. CASE g \notin Known
      <4>1. g = FileOf(j)
          BY <1>1, <2>2, <3>2
      <4>2. LinksOf(g) = {}
          BY <3>2 DEF LinksOf, Base, Typed, Rows
      <4>3. CASE job[j].op = "attach"
        <5>1. DOMAIN links' = DOMAIN links \cup {LinkOf(j)} /\ refCounter'[g] = 1
            BY <1>2, <4>1, <4>3
        <5>2. LinkOf(j)[1] = g
            BY <4>1 DEF LinkOf, FileOf
        <5>3. LinksOf(g)' = {LinkOf(j)}
            BY <4>2, <5>1, <5>2 DEF LinksOf
        <5>4. Cardinality({LinkOf(j)}) = 1
            BY FS_Singleton
        <5> QED BY <5>1, <5>3, <5>4
      <4>4. CASE job[j].op \in {"new", "copy"}
        <5>1. UNCHANGED links /\ refCounter'[g] = 0
            BY <1>2, <4>1, <4>4
        <5>2. LinksOf(g)' = {}
            BY <4>2, <5>1 DEF LinksOf
        <5> QED BY <5>1, <5>2, FS_EmptySet
      <4> QED BY <1>2, <3>2, <4>1, <4>3, <4>4
    <3> QED BY <3>1, <3>2
  <2> QED BY <2>1, <2>2 DEF Counted, Known
<1> QED BY <1>7, <1>10, <1>11 DEF Base

LEMMA ShowsType == ASSUME NEW r \in Records PROVE Shows(r) \in Page
BY DEF Shows, Page, NoChange

LEMMA BasePage ==
    ASSUME Base, page' \in Page, UNCHANGED <<database, cut>>, PageStep
    PROVE  Base'
<1>1. Typed'
    BY DEF Base, Typed, Rows, Stored, Working, Using, Recorded, Known, PageStep, database
<1>2. Apart'
    BY ApartSame DEF Base, PageStep, database, Known
<1>3. Counted'
    BY CountedSame DEF Base, database
<1> QED BY <1>1, <1>2, <1>3 DEF Base

LEMMA BaseInput ==
    /\ \A r \in Records : Base /\ OpenRecord(r) => Base'
    /\ \A f \in Files : Base /\ RemoveFile(f) => Base'
    /\ Base /\ Save => Base'
    /\ Base /\ SetFails => Base'
<1>0. Base => page \in Page
    BY DEF Base, Typed, Using
<1>1. ASSUME NEW r \in Records, Base, OpenRecord(r) PROVE Base'
  <2>1. page' \in Page
      BY <1>0, <1>1 DEF OpenRecord, Reset, Page, NoChange
  <2> QED BY <1>1, <2>1, BasePage DEF OpenRecord
<1>2. ASSUME NEW f \in Files, Base, RemoveFile(f) PROVE Base'
  <2>1. page' \in Page
      BY <1>0, <1>2 DEF RemoveFile, Page
  <2> QED BY <1>2, <2>1, BasePage DEF RemoveFile
<1>3. ASSUME Base, Save PROVE Base'
  <2>1. page' \in Page
      BY <1>0, <1>3 DEF Save, Page
  <2> QED BY <1>3, <2>1, BasePage DEF Save
<1>4. ASSUME Base, SetFails PROVE Base'
  <2>1. page' \in Page
      BY <1>0, <1>4 DEF SetFails, Page, NoChange
  <2> QED BY <1>4, <2>1, BasePage DEF SetFails
<1> QED BY <1>1, <1>2, <1>3, <1>4

\* A save links each file it adds once, and the trigger counts it.
LEMMA BaseSet == ASSUME Base, SetRecord PROVE Base'
<1> DEFINE rec     == page.saving
           added   == {<<f, rec>> : f \in Sent("create")}
           removed == {<<f, rec>> : f \in Sent("delete")} \cap DOMAIN links
<1>1. /\ links' = [l \in DOMAIN links \cup added |-> l \in removed \/ (l \notin added /\ links[l])]
      /\ refCounter' = [f \in Known |-> refCounter[f] + (IF f \in Sent("create") THEN 1 ELSE 0)]
      /\ page' = [Reset(page.record) EXCEPT !.saving = NoRecord, !.sent = NoChange]
      /\ UNCHANGED <<versions, records, attribute, spool, left, cut, disk, job, cleaner, origin, attached>>
    BY DEF SetRecord, PageStep
<1>2. /\ attribute
      /\ Sent("create") # {} => rec \in records
      /\ \A f \in Sent("create") : f \in Known /\ <<f, rec>> \notin DOMAIN links
    BY DEF SetRecord, CanSave
<1>3. page \in Page
    BY DEF Base, Typed, Using
<1>4. page' \in Page
    BY <1>1, <1>3 DEF Reset, Page, NoChange
<1>5. DOMAIN links' = DOMAIN links \cup added /\ links' \in [DOMAIN links' -> BOOLEAN]
  <2>1. \A l \in DOMAIN links : links[l] \in BOOLEAN
      BY DEF Base, Typed, Rows
  <2> HIDE DEF added, removed
  <2>2. \A l \in DOMAIN links \cup added : (l \in removed \/ (l \notin added /\ links[l])) \in BOOLEAN
      BY <2>1
  <2> QED BY <1>1, <2>2
<1>6. DOMAIN refCounter' = Known /\ refCounter' \in [Known -> Nat]
    BY <1>1 DEF Base, Typed, Rows
<1>7. Rows'
  <2>1. added \subseteq Known \X records
      BY <1>2
  <2> HIDE DEF added, removed
  <2> QED BY <1>1, <1>5, <1>6, <2>1 DEF Base, Typed, Rows, Known
<1>8. Typed'
    BY <1>1, <1>4, <1>7 DEF Base, Typed, Stored, Working, Using, Recorded
<1>9. Apart'
    BY <1>1, <1>6, ApartSame DEF Base
<1>10. Counted'
  <2>1. ASSUME NEW f \in Known PROVE refCounter'[f] = Cardinality(LinksOf(f)')
    <3>1. refCounter[f] = Cardinality(LinksOf(f))
        BY <1>2, <2>1 DEF Base, Counted
    <3>2. CASE f \in Sent("create")
      <4>1. LinksOf(f)' = LinksOf(f) \cup {<<f, rec>>} /\ <<f, rec>> \notin LinksOf(f)
          BY <1>2, <1>5, <3>2 DEF LinksOf
      <4>2. LinksOf(f) \in SUBSET DOMAIN links
          BY DEF LinksOf
      <4>3. IsFiniteSet(LinksOf(f))
          BY <4>2, LinksFinite, FS_Subset DEF Base
      <4>4. Cardinality(LinksOf(f) \cup {<<f, rec>>}) = Cardinality(LinksOf(f)) + 1
          BY <4>1, <4>3, FS_AddElement
      <4> QED BY <1>1, <3>1, <3>2, <4>1, <4>4
    <3>3. CASE f \notin Sent("create")
      <4>1. LinksOf(f)' = LinksOf(f)
          BY <1>5, <3>3 DEF LinksOf
      <4>2. refCounter'[f] = refCounter[f]
          BY <1>1, <3>3 DEF Base, Typed, Rows
      <4> QED BY <3>1, <4>1, <4>2
    <3> QED BY <3>2, <3>3
  <2> QED BY <1>1, <1>2, <1>6, <2>1 DEF Counted, Known
<1> QED BY <1>8, <1>9, <1>10 DEF Base

LEMMA BaseDelRecord == ASSUME Base, NEW r \in Records, DelRecord(r) PROVE Base'
<1> DEFINE gone == {l \in DOMAIN links : l[2] = r}
<1>1. /\ records' = records \ {r} /\ Unlink(gone)
      /\ UNCHANGED <<attribute, spool, cut, attached, versions, disk, job, cleaner, page, origin>>
    BY DEF DelRecord, Elsewhere
<1>2. /\ refCounter' \in [Known -> Nat]
      /\ DOMAIN links' = DOMAIN links \ gone /\ links' \in [DOMAIN links' -> BOOLEAN]
      /\ Counted'
    BY <1>1, CountedUnlink DEF Base
<1>3. Rows'
    BY <1>1, <1>2 DEF Base, Typed, Rows, Known
<1>4. Apart'
    BY <1>1, <1>2, ApartSame DEF Base
<1> QED BY <1>1, <1>2, <1>3, <1>4 DEF Base, Typed, Stored, Working, Using, Recorded

LEMMA BaseOthers ==
    /\ \A l \in DOMAIN links : Base /\ FileRestore(l) => Base'
    /\ Base /\ DropAttribute => Base'
    /\ \A m \in Mails, r \in Records : Base /\ MailArrives(m, r) => Base'
<1>1. ASSUME NEW l \in DOMAIN links, Base, FileRestore(l) PROVE Base'
  <2>1. /\ links' = [links EXCEPT ![l] = FALSE]
        /\ UNCHANGED <<refCounter, records, attribute, spool, cut, attached, versions, disk, job,
                       cleaner, page, origin>>
      BY <1>1 DEF FileRestore, Elsewhere
  <2>2. DOMAIN links' = DOMAIN links /\ links' \in [DOMAIN links' -> BOOLEAN]
      BY <1>1, <2>1 DEF Base, Typed, Rows
  <2>3. Rows'
      BY <1>1, <2>1, <2>2 DEF Base, Typed, Rows, Known
  <2>4. Counted'
      BY <1>1, <2>1, <2>2 DEF Base, Counted, LinksOf, Known
  <2>5. Apart'
      BY <1>1, <2>1, ApartSame DEF Base, Known
  <2> QED BY <1>1, <2>1, <2>3, <2>4, <2>5 DEF Base, Typed, Stored, Working, Using, Recorded
<1>2. ASSUME Base, DropAttribute PROVE Base'
  <2>1. /\ attribute' = FALSE /\ links' = << >> /\ cut' = Meets("lost", {l[1] : l \in DOMAIN links})
        /\ UNCHANGED <<refCounter, records, spool, attached, versions, disk, job, cleaner, page, origin>>
      BY <1>2 DEF DropAttribute, Elsewhere
  <2>2. DOMAIN links' = {} /\ links' \in [DOMAIN links' -> BOOLEAN]
      BY <2>1
  <2>3. Rows'
      BY <1>2, <2>1, <2>2 DEF Base, Typed, Rows, Known
  <2>4. Counted'
      BY <2>1, <2>2 DEF Counted
  <2>5. Apart'
      BY <1>2, <2>1, ApartSame DEF Base, Known
  <2>6. {l[1] : l \in DOMAIN links} \subseteq Files
      BY <1>2 DEF Base, Typed, Rows
  <2>7. cut' \in [Mishaps -> SUBSET (Files \cup Mails)]
      BY <1>2, <2>1, <2>6 DEF Meets, Base, Typed, Recorded
  <2> QED BY <1>2, <2>1, <2>3, <2>4, <2>5, <2>7 DEF Base, Typed, Stored, Working, Using, Recorded
<1>3. ASSUME NEW m \in Mails, NEW r \in Records, Base, MailArrives(m, r) PROVE Base'
  <2>1. /\ spool' = With(spool, m, r) /\ attached' = [attached EXCEPT ![m] = 0]
        /\ UNCHANGED <<refCounter, links, records, attribute, cut, versions, disk, job, cleaner, page,
                       origin>>
      BY <1>3 DEF MailArrives, Elsewhere
  <2>2. DOMAIN spool' \subseteq Mails /\ spool' \in [DOMAIN spool' -> Records]
      BY <1>3, <2>1 DEF With, Base, Typed, Rows
  <2>3. Rows'
      BY <1>3, <2>1, <2>2 DEF Base, Typed, Rows, Known
  <2>4. Counted'
      BY <1>3, <2>1, CountedSame DEF Base
  <2>5. Apart'
      BY <1>3, <2>1, ApartSame DEF Base, Known
  <2>6. attached' \in [Mails -> Int]
      BY <1>3, <2>1 DEF Base, Typed, Recorded
  <2> QED BY <1>3, <2>1, <2>3, <2>4, <2>5, <2>6 DEF Base, Typed, Stored, Working, Using, Recorded
<1> QED BY <1>1, <1>2, <1>3

\* Steps of the clean up that touch none of the rows.
LEMMA BaseClean ==
    ASSUME Base, cleaner' \in Cleaner, UNCHANGED <<refCounter, versions, links>>, Cleans,
           Stored', cut' \in [Mishaps -> SUBSET (Files \cup Mails)]
    PROVE  Base'
<1>1. Typed'
    BY DEF Base, Typed, Rows, Working, Using, Recorded, Known, Cleans
<1>2. Apart'
    BY ApartSame DEF Base, Cleans, Known
<1>3. Counted'
    BY CountedSame DEF Base, Cleans
<1> QED BY <1>1, <1>2, <1>3 DEF Base

LEMMA RestingType == Resting \in Cleaner
BY DEF Resting, Cleaner

LEMMA BaseCleaner ==
    /\ Base /\ ListVersions => Base'
    /\ Base /\ ListFiles => Base'
    /\ \A p \in Paths : Base /\ RemoveVersion(p) => Base'
    /\ \A p \in Paths : Base /\ VersionInUse(p) => Base'
    /\ \A f \in Files : Base /\ NextFile(f) => Base'
<1>0. Base => cleaner \in Cleaner /\ cut \in [Mishaps -> SUBSET (Files \cup Mails)] /\ Stored
    BY DEF Base, Typed, Using, Recorded
<1>1. ASSUME Base, ListVersions PROVE Base'
  <2>1. PICK old \in SUBSET Outdated : cleaner' = [cleaner EXCEPT !.step = "old", !.paths = old]
      BY <1>1 DEF ListVersions
  <2>2. Outdated \subseteq Paths
      BY <1>1 DEF Outdated, Base, Typed, Rows, Paths
  <2>3. cleaner' \in Cleaner
      BY <1>0, <1>1, <2>1, <2>2 DEF Cleaner
  <2> QED BY <1>0, <1>1, <2>3, BaseClean DEF ListVersions, Stored
<1>2. ASSUME Base, ListFiles PROVE Base'
  <2>1. Unused \subseteq Files
      BY <1>2 DEF Unused, Base, Typed, Rows
  <2>2. cleaner' \in Cleaner
      BY <1>0, <1>2, <2>1, RestingType DEF ListFiles, Cleaner
  <2>3. cut' \in [Mishaps -> SUBSET (Files \cup Mails)]
      BY <1>0, <1>2, <2>1 DEF ListFiles, Meets
  <2> QED BY <1>0, <1>2, <2>2, <2>3, BaseClean DEF ListFiles, Stored
<1>3. ASSUME NEW p \in Paths, Base, RemoveVersion(p) PROVE Base'
  <2>1. cleaner' \in Cleaner
      BY <1>0, <1>3 DEF RemoveVersion, Cleaner
  <2>2. disk' = Without(disk, {p})
      BY <1>3 DEF RemoveVersion
  <2>3. Stored'
      BY <1>0, <1>3, <2>2 DEF Stored, Without, Restrict
  <2> QED BY <1>0, <1>3, <2>1, <2>3, BaseClean DEF RemoveVersion
<1>4. ASSUME NEW p \in Paths, Base, VersionInUse(p) PROVE Base'
  <2>1. cleaner' \in Cleaner
      BY <1>0, <1>4 DEF VersionInUse, Cleaner
  <2> QED BY <1>0, <1>4, <2>1, BaseClean DEF VersionInUse, Stored
<1>5. ASSUME NEW f \in Files, Base, NextFile(f) PROVE Base'
  <2>1. {f} \X VersionsOf(f) \subseteq Paths
      BY <1>5, VersionsAre DEF Base, Paths
  <2>2. cleaner' \in Cleaner
      BY <1>0, <1>5, <2>1 DEF NextFile, Cleaner
  <2> QED BY <1>0, <1>5, <2>2, BaseClean DEF NextFile, Stored
<1> QED BY <1>1, <1>2, <1>3, <1>4, <1>5

LEMMA BaseCleanLinks == ASSUME Base, CleanLinks PROVE Base'
<1>1. PICK old \in SUBSET {l \in DOMAIN links : links[l]} : Unlink(old)
    BY DEF CleanLinks
<1>2. /\ refCounter' \in [Known -> Nat]
      /\ DOMAIN links' = DOMAIN links \ old /\ links' \in [DOMAIN links' -> BOOLEAN]
      /\ UNCHANGED attribute => Counted'
    BY <1>1, CountedUnlink DEF Base
<1>3. /\ cleaner' = [cleaner EXCEPT !.step = "list"]
      /\ UNCHANGED <<versions, disk, left, cut, records, attribute, spool, job, page, origin, attached>>
    BY DEF CleanLinks, Cleans
<1>4. cleaner' \in Cleaner
    BY <1>3 DEF Base, Typed, Using, Cleaner
<1>5. Rows'
    BY <1>2, <1>3 DEF Base, Typed, Rows, Known
<1>6. Apart'
    BY <1>2, <1>3, ApartSame DEF Base
<1> QED BY <1>2, <1>3, <1>4, <1>5, <1>6 DEF Base, Typed, Stored, Working, Using, Recorded

LEMMA BaseDeleteVersion == ASSUME Base, DeleteVersion PROVE Base'
<1>1. /\ versions' = Without(versions, {cleaner.path})
      /\ cleaner' = [cleaner EXCEPT !.paths = @ \ {cleaner.path}, !.path = <<0, 0>>]
      /\ UNCHANGED <<refCounter, links, disk, left, cut, records, attribute, spool, job, page, origin,
                     attached>>
    BY DEF DeleteVersion, Cleans
<1>2. cleaner' \in Cleaner
    BY <1>1 DEF Base, Typed, Using, Cleaner
<1>3. DOMAIN versions' \subseteq DOMAIN versions /\ versions' \in [DOMAIN versions' -> Jobs]
    BY <1>1 DEF Without, Restrict, Base, Typed, Rows
<1>4. Rows'
    BY <1>1, <1>3 DEF Base, Typed, Rows, Known
<1>5. Apart'
    BY <1>1, ApartSame DEF Base, Known
<1>6. Counted'
    BY <1>1, CountedSame DEF Base
<1> QED BY <1>1, <1>2, <1>4, <1>5, <1>6 DEF Base, Typed, Stored, Working, Using, Recorded

LEMMA BaseDeleteFiles == ASSUME Base, DeleteFiles PROVE Base'
<1> DEFINE gone     == UNION {LinksOf(f) : f \in Stale}
           goneRows == {p \in DOMAIN versions : p[1] \in Stale}
<1>1. /\ refCounter' = Without(refCounter, Stale) /\ links' = Without(links, gone)
      /\ versions' = Without(versions, goneRows) /\ cleaner' = Resting
      /\ UNCHANGED <<disk, left, cut, records, attribute, spool, job, page, origin, attached>>
    BY DEF DeleteFiles, Cleans
<1>2. /\ DOMAIN refCounter' = Known \ Stale /\ refCounter' \in [DOMAIN refCounter' -> Nat]
      /\ \A f \in Known \ Stale : refCounter'[f] = refCounter[f]
    BY <1>1 DEF Without, Restrict, Base, Typed, Rows, Known
<1>3. DOMAIN links' = DOMAIN links \ gone /\ links' \in [DOMAIN links' -> BOOLEAN]
    BY <1>1 DEF Without, Restrict, Base, Typed, Rows
<1>4. DOMAIN versions' = DOMAIN versions \ goneRows /\ versions' \in [DOMAIN versions' -> Jobs]
    BY <1>1 DEF Without, Restrict, Base, Typed, Rows
<1>5. \A l \in DOMAIN links : l \in gone <=> l[1] \in Stale
    BY DEF LinksOf
<1>6. Rows'
  <2>1. DOMAIN versions' \subseteq (DOMAIN refCounter') \X (0 .. MaxVersion)
    <3>1. DOMAIN versions \subseteq Known \X (0 .. MaxVersion)
        BY DEF Base, Typed, Rows
    <3> QED BY <1>2, <1>4, <3>1
  <2>2. DOMAIN links' \subseteq (DOMAIN refCounter') \X records
    <3>1. DOMAIN links \subseteq Known \X records
        BY DEF Base, Typed, Rows
    <3> QED BY <1>2, <1>3, <1>5, <3>1
  <2> QED BY <1>1, <1>2, <1>3, <1>4, <2>1, <2>2 DEF Base, Typed, Rows, Known
<1>7. Apart'
    BY <1>1, <1>2, ApartSame DEF Base
<1>8. Counted'
  <2>1. ASSUME attribute, NEW f \in Known \ Stale PROVE refCounter'[f] = Cardinality(LinksOf(f)')
    <3>1. LinksOf(f)' = LinksOf(f)
        BY <1>3, <1>5 DEF LinksOf
    <3> QED BY <1>2, <2>1, <3>1 DEF Base, Counted
  <2>2. ~attribute => DOMAIN links' = {}
      BY <1>3 DEF Base, Counted
  <2> QED BY <1>1, <1>2, <2>1, <2>2 DEF Counted, Known
<1> QED BY <1>1, <1>6, <1>7, <1>8, RestingType DEF Base, Typed, Stored, Working, Using, Recorded

LEMMA BaseCrash == ASSUME Base, Crash PROVE Base'
<1>1. /\ job' = [j \in Jobs |-> Idle] /\ cleaner' = Resting
      /\ page' = [page EXCEPT !.saving = NoRecord, !.sent = NoChange]
      /\ cut' = [cut EXCEPT !["orphan"] = @ \cup {p[1] : p \in DOMAIN disk \ DOMAIN versions},
                            !["lost"]   = @ \cup ({cleaner.path[1]} \ {0})]
      /\ UNCHANGED <<refCounter, versions, links, records, attribute, spool, disk, origin, attached>>
    BY DEF Crash, database
<1>2. Idle.step = "none" /\ Idle.op = "idle"
    BY DEF Idle
<1>3. Working'
    BY <1>1, <1>2, IdleType DEF Working
<1>4. Using'
    BY <1>1, RestingType DEF Using, Base, Typed, Page, NoChange
<1>5. Recorded'
  <2>1. {p[1] : p \in DOMAIN disk \ DOMAIN versions} \subseteq Files
      BY DEF Base, Typed, Stored, Paths
  <2>2. {cleaner.path[1]} \ {0} \subseteq Files
    <3>1. cleaner.path \in Paths \cup {<<0, 0>>}
        BY DEF Base, Typed, Using, Cleaner
    <3> QED BY <3>1 DEF Paths
  <2> QED BY <1>1, <2>1, <2>2 DEF Base, Typed, Recorded
<1>6. Apart'
    BY <1>1, <1>2 DEF Apart, Creates, Pending
<1>7. Counted'
    BY <1>1, CountedSame DEF Base
<1> QED BY <1>1, <1>3, <1>4, <1>5, <1>6, <1>7 DEF Base, Typed, Rows, Stored, Known

LEMMA BaseInit == Init => Base
<1> SUFFICES ASSUME Init PROVE Base
    OBVIOUS
<1>1. PICK r \in Records : page = Shows(r)
    BY DEF Init
<1>2. page \in Page
    BY <1>1, ShowsType
<1>3. Idle.step = "none" /\ Idle.op = "idle"
    BY DEF Idle
<1>4. Rows /\ Stored /\ Counted
    BY DEF Init, Rows, Stored, Counted, Known
<1>5. Working /\ Apart
    BY <1>3, IdleType DEF Init, Working, Apart, Creates, Pending
<1>6. Using /\ Recorded
    BY <1>2, RestingType DEF Init, Using, Recorded
<1> QED BY <1>4, <1>5, <1>6 DEF Base, Typed

LEMMA BaseSame == Base /\ UNCHANGED vars => Base'
BY DEF Base, Typed, Rows, Stored, Working, Using, Recorded, Known, Apart, Creates, Pending, Counted,
       LinksOf, vars, database, history

LEMMA BaseStep == Base /\ [Next]_vars => Base'
<1> SUFFICES ASSUME Base, [Next]_vars PROVE Base'
    OBVIOUS
<1>1. CASE \E j \in Uploaders : UploadNew(j) \/ \E f \in Files : UploadVersion(j, f) \/ Paste(j, f)
    BY <1>1, BaseUploadNew, BaseUploadVersion, BasePaste
<1>2. CASE Attaching
    BY <1>2, BaseAttach DEF Attaching
<1>3. CASE \E j \in Jobs : Storing(j)
    BY <1>3, BaseWrite, BaseHash, BaseStore, BaseJobFails, BaseUploadDone DEF Storing
<1>4. CASE \E r \in Records : OpenRecord(r) \/ DelRecord(r) \/ \E m \in Mails : MailArrives(m, r)
    BY <1>4, BaseInput, BaseDelRecord, BaseOthers
<1>5. CASE \/ \E f \in Files : RemoveFile(f)
           \/ \E l \in DOMAIN links : FileRestore(l)
           \/ \E p \in Paths : VersionInUse(p)
    BY <1>5, BaseInput, BaseOthers, BaseCleaner
<1>6. CASE Save \/ Request \/ DropAttribute \/ CleanUp \/ Crash
    BY <1>6, BaseInput, BaseSet, BaseOthers, BaseCleaner, BaseCleanLinks, BaseDeleteVersion,
       BaseDeleteFiles, BaseCrash DEF Request, CleanUp
<1>7. CASE UNCHANGED vars
    BY <1>7, BaseSame
<1> QED BY <1>1, <1>2, <1>3, <1>4, <1>5, <1>6, <1>7 DEF Next

LEMMA BaseHolds == Spec => []Base
BY BaseInit, BaseStep, PTL DEF Spec

\* Only known files and existing records are linked, and ref_counter counts the
\* links of a file, through all uploads, copies, saves, deletions and clean ups.
THEOREM TypeCorrect == Spec => []TypeOK
<1>1. Base => TypeOK
  <2> SUFFICES ASSUME Base PROVE TypeOK
      OBVIOUS
  <2>1. DOMAIN versions \subseteq Paths
      BY DEF Base, Typed, Rows, Paths
  <2> QED BY <2>1 DEF Base, Typed, Rows, Stored, Working, Using, Counted, TypeOK
<1> QED BY <1>1, BaseHolds, PTL

-----------------------------------------------------------------------------
(* What starting a file does, whoever starts it *)

Attaches(j) == Creates(j) /\ job[j].op = "attach"

\* mails keep their mark: no file has the number of a mail
MarksStay == \A m \in Mails : m \in cut["parallel"] => m \in cut'["parallel"]

\* a goroutine is given a file that nothing else has, whose marks are taken away
StartsFresh(j) ==
    /\ UNCHANGED database
    /\ job'[j].step = "write" /\ job'[j].op \in {"new", "copy", "attach"} /\ MarksStay
    /\ LET f == job'[j].path[1]
       IN  /\ f \in Files \ Known /\ f \notin cleaner.listed
           /\ page.changes[f] = "none" /\ page.sent[f] = "none"
           /\ \A p \in DOMAIN disk : p[1] # f
           /\ \A k \in Jobs : f # job[k].path[1]
           /\ \A x \in Mishaps \ {"parallel"} : cut'[x] = cut[x] \ {f}

\* a goroutine is given the next version of a file
StartsVersion(j) ==
    /\ UNCHANGED <<database, cut>>
    /\ job'[j].step = "write" /\ job'[j].op = "version" /\ job'[j].path[1] \in Known

\* everybody else, and what is stored, stays as it is
StartsAlone(j) ==
    /\ job[j] = Idle /\ job' \in [Jobs -> Job] /\ \A k \in Jobs \ {j} : job'[k] = job[k]
    /\ UNCHANGED <<refCounter, versions, links, records, attribute, spool, disk, cleaner, page,
                   origin, attached>>

LEMMA NewMarks ==
    ASSUME Base, NEW f \in Files
    PROVE  /\ \A x \in Mishaps : New(f)[x] = cut[x] \ {f}
           /\ \A m \in Mails : m \in cut["parallel"] => m \in New(f)["parallel"]
BY FileStoreAssumption DEF New, Mishaps

LEMMA StartsAloneIs ==
    ASSUME Base, NEW j \in Jobs, NEW w \in Job, Starts(j, w)
    PROVE  StartsAlone(j) /\ job'[j] = w /\ UNCHANGED database
BY DEF Starts, StartsAlone, FirstIdle, Base, Typed, Working, database

LEMMA UploadNewIs ==
    ASSUME Base, NEW j \in Uploaders, UploadNew(j)
    PROVE  StartsAlone(j) /\ StartsFresh(j) /\ job'[j].op = "new"
<1> DEFINE w == [Idle EXCEPT !.op = "new", !.step = "write", !.path = <<Min(Fresh), 0>>,
                             !.record = page.record]
<1>1. Fresh # {} /\ Starts(j, w) /\ cut' = New(Min(Fresh)) /\ j \in Jobs
    BY FreshCount DEF UploadNew, Jobs
<1>2. /\ Min(Fresh) \in Files \ Known /\ Min(Fresh) \notin cleaner.listed
      /\ page.changes[Min(Fresh)] = "none" /\ page.sent[Min(Fresh)] = "none"
      /\ \A p \in DOMAIN disk : p[1] # Min(Fresh)
      /\ \A k \in Jobs : Min(Fresh) # job[k].path[1]
    BY <1>1, FreshIs
<1>3. page.record \in Records /\ <<Min(Fresh), 0>> \in Paths
    BY <1>2, FileStoreAssumption DEF Base, Typed, Using, Page, Paths
<1>4. w \in Job /\ w.step = "write" /\ w.path = <<Min(Fresh), 0>> /\ w.op = "new"
    BY <1>3, IdleType DEF Job, Idle, Paths
<1> HIDE DEF w
<1>5. StartsAlone(j) /\ job'[j] = w /\ UNCHANGED database
    BY <1>1, <1>4, StartsAloneIs
<1>6. job'[j].path[1] = Min(Fresh)
    BY <1>4, <1>5
<1>7. MarksStay /\ \A x \in Mishaps \ {"parallel"} : cut'[x] = cut[x] \ {Min(Fresh)}
    BY <1>1, <1>2, NewMarks DEF MarksStay
<1> QED BY <1>2, <1>4, <1>5, <1>6, <1>7 DEF StartsFresh

LEMMA PasteIs ==
    ASSUME Base, NEW j \in Uploaders, NEW f \in Files, Paste(j, f)
    PROVE  StartsAlone(j) /\ StartsFresh(j) /\ job'[j].op = "copy"
<1> DEFINE w == [Idle EXCEPT !.op = "copy", !.step = "write", !.path = <<Min(Fresh), 0>>,
                             !.source = Latest(f), !.hash = versions[Latest(f)],
                             !.record = page.record]
<1>1. /\ Fresh # {} /\ Starts(j, w) /\ cut' = New(Min(Fresh)) /\ j \in Jobs
      /\ VersionsOf(f) # {}
    BY FreshCount DEF Paste, Jobs
<1>2. /\ Min(Fresh) \in Files \ Known /\ Min(Fresh) \notin cleaner.listed
      /\ page.changes[Min(Fresh)] = "none" /\ page.sent[Min(Fresh)] = "none"
      /\ \A p \in DOMAIN disk : p[1] # Min(Fresh)
      /\ \A k \in Jobs : Min(Fresh) # job[k].path[1]
    BY <1>1, FreshIs
<1>3. page.record \in Records /\ <<Min(Fresh), 0>> \in Paths
    BY <1>2, FileStoreAssumption DEF Base, Typed, Using, Page, Paths
<1>4. Latest(f) \in Paths /\ versions[Latest(f)] \in Jobs
    BY <1>1, LatestIs DEF Base, Typed, Rows
<1>5. w \in Job /\ w.step = "write" /\ w.path = <<Min(Fresh), 0>> /\ w.op = "copy"
    BY <1>3, <1>4, IdleType DEF Job, Idle, Paths, Contents
<1> HIDE DEF w
<1>6. StartsAlone(j) /\ job'[j] = w /\ UNCHANGED database
    BY <1>1, <1>5, StartsAloneIs
<1>7. job'[j].path[1] = Min(Fresh)
    BY <1>5, <1>6
<1>8. MarksStay /\ \A x \in Mishaps \ {"parallel"} : cut'[x] = cut[x] \ {Min(Fresh)}
    BY <1>1, <1>2, NewMarks DEF MarksStay
<1> QED BY <1>2, <1>5, <1>6, <1>7, <1>8 DEF StartsFresh

LEMMA UploadVersionIs ==
    ASSUME Base, NEW j \in Uploaders, NEW f \in Files, UploadVersion(j, f)
    PROVE  StartsAlone(j) /\ StartsVersion(j)
<1> DEFINE w == [Idle EXCEPT !.op = "version", !.step = "write", !.path = <<f, Latest(f)[2] + 1>>]
<1>1. /\ LinksOf(f) # {} /\ VersionsOf(f) # {} /\ Latest(f)[2] < MaxVersion
      /\ Starts(j, w) /\ UNCHANGED cut /\ j \in Jobs
    BY DEF UploadVersion, Jobs
<1>2. Latest(f)[2] \in 0 .. MaxVersion
    BY <1>1, LatestIs DEF Base
<1>3. <<f, Latest(f)[2] + 1>> \in Paths
    BY <1>1, <1>2, FileStoreAssumption DEF Paths
<1>4. f \in Known
    BY <1>1 DEF LinksOf, Base, Typed, Rows
<1>5. w \in Job /\ w.step = "write" /\ w.path = <<f, Latest(f)[2] + 1>> /\ w.op = "version"
    BY <1>3, IdleType DEF Job, Idle, Paths
<1> HIDE DEF w
<1>6. StartsAlone(j) /\ job'[j] = w /\ UNCHANGED database
    BY <1>1, <1>5, StartsAloneIs
<1> QED BY <1>1, <1>4, <1>5, <1>6 DEF StartsVersion

\* A second execution for the same mail marks the mail.
LEMMA AttachIs ==
    ASSUME Base, NEW j \in Attachers, NEW m \in Mails, Attach(j, m)
    PROVE  /\ StartsAlone(j) /\ StartsFresh(j) /\ job'[j].op = "attach" /\ job'[j].mail = m
           /\ m \in DOMAIN spool
           /\ \A k \in Jobs \ {j} : Attaches(k) /\ job[k].mail = m => m \in cut'["parallel"]
<1> DEFINE w == [Idle EXCEPT !.op = "attach", !.step = "write", !.path = <<Min(Fresh), 0>>,
                             !.record = spool[m], !.mail = m]
<1>1. /\ Fresh # {} /\ Starts(j, w) /\ j \in Jobs /\ m \in DOMAIN spool
      /\ cut' = [New(Min(Fresh)) EXCEPT !["parallel"] =
                    @ \cup {n \in {m} : \E k \in Attachers \ {j} : job[k].mail = n}]
    BY DEF Attach, Jobs
<1>2. /\ Min(Fresh) \in Files \ Known /\ Min(Fresh) \notin cleaner.listed
      /\ page.changes[Min(Fresh)] = "none" /\ page.sent[Min(Fresh)] = "none"
      /\ \A p \in DOMAIN disk : p[1] # Min(Fresh)
      /\ \A k \in Jobs : Min(Fresh) # job[k].path[1]
    BY <1>1, FreshIs
<1>3. spool[m] \in Records /\ <<Min(Fresh), 0>> \in Paths
    BY <1>1, <1>2, FileStoreAssumption DEF Base, Typed, Rows, Paths
<1>4. w \in Job /\ w.step = "write" /\ w.path = <<Min(Fresh), 0>> /\ w.op = "attach" /\ w.mail = m
    BY <1>3, IdleType DEF Job, Idle, Paths
<1> HIDE DEF w
<1>5. StartsAlone(j) /\ job'[j] = w /\ UNCHANGED database
    BY <1>1, <1>4, StartsAloneIs
<1>6. job'[j].path[1] = Min(Fresh)
    BY <1>4, <1>5
<1>7. DOMAIN New(Min(Fresh)) = Mishaps /\ "parallel" \in Mishaps
    BY DEF New, Mishaps
<1>8. /\ MarksStay
      /\ \A x \in Mishaps \ {"parallel"} : cut'[x] = cut[x] \ {Min(Fresh)}
    BY <1>1, <1>2, <1>7, NewMarks DEF MarksStay
<1>9. ASSUME NEW k \in Jobs \ {j}, Attaches(k), job[k].mail = m PROVE m \in cut'["parallel"]
  <2>1. k \in Attachers
      BY <1>9 DEF Attaches, Creates, Pending, Base, Typed, Working
  <2> QED BY <1>1, <1>7, <1>9, <2>1
<1> QED BY <1>1, <1>2, <1>4, <1>5, <1>6, <1>8, <1>9 DEF StartsFresh

-----------------------------------------------------------------------------
(* What all the other steps have in common *)

\* goroutines keep what they store, until they have nothing to store
GoesOn ==
    \A k \in Jobs : job'[k].step # "none" =>
        /\ job[k].step # "none" /\ (Pending(k)' => Pending(k))
        /\ job'[k].path = job[k].path /\ job'[k].op = job[k].op
        /\ job'[k].mail = job[k].mail /\ job'[k].record = job[k].record

MarksGrow == \A x \in Mishaps : \A f \in cut[x] : f \in cut'[x]

Quiet == UNCHANGED job /\ MarksGrow

LEMMA IdleGoesOn ==
    ASSUME Base, NEW j \in Jobs, job' = [job EXCEPT ![j] = Idle] PROVE GoesOn
<1>1. job'[j] = Idle /\ \A k \in Jobs \ {j} : job'[k] = job[k]
    BY DEF Base, Typed, Working
<1>2. Idle.step = "none"
    BY DEF Idle
<1> QED BY <1>1, <1>2 DEF GoesOn, Pending

LEMMA StoringGoesOn ==
    ASSUME Base, NEW j \in Jobs, Storing(j) PROVE GoesOn /\ MarksGrow
<1>0. /\ job \in [Jobs -> Job] /\ job[j] \in Job /\ DOMAIN cut = Mishaps
    BY DEF Base, Typed, Working, Recorded
<1>1. CASE WriteFile(j)
  <2>1. PICK s \in {"store", "hash"} : job' = [job EXCEPT ![j].step = s]
      BY <1>1 DEF WriteFile
  <2>2. /\ \A k \in Jobs \ {j} : job'[k] = job[k]
        /\ job'[j] = [job[j] EXCEPT !.step = s]
      BY <1>0, <2>1
  <2>3. GoesOn
      BY <1>0, <1>1, <2>2 DEF GoesOn, Pending, WriteFile, Job
  <2>4. MarksGrow
      BY <1>0, <1>1 DEF WriteFile, MarksGrow
  <2> QED BY <2>3, <2>4
<1>2. CASE HashFile(j)
  <2>1. PICK h : job' = [job EXCEPT ![j].hash = h, ![j].step = "store"]
      BY <1>2 DEF HashFile
  <2>2. /\ \A k \in Jobs \ {j} : job'[k] = job[k]
        /\ job'[j] = [job[j] EXCEPT !.hash = h, !.step = "store"]
      BY <1>0, <2>1
  <2>3. GoesOn
      BY <1>0, <1>2, <2>2 DEF GoesOn, Pending, HashFile, Job
  <2> QED BY <1>2, <2>3 DEF HashFile, history, MarksGrow
<1>3. CASE StoreFile(j)
  <2>1. /\ \A k \in Jobs \ {j} : job'[k] = job[k]
        /\ \/ job'[j] = Idle
           \/ /\ job'[j].step = "answer" /\ job'[j].path = job[j].path
              /\ job'[j].op = job[j].op /\ job'[j].mail = job[j].mail /\ job'[j].record = job[j].record
      BY <1>3, StoreFileIs
  <2>2. Idle.step = "none" /\ job[j].step = "store"
      BY <1>3 DEF Idle, StoreFile
  <2>3. GoesOn
      BY <2>1, <2>2 DEF GoesOn, Pending
  <2> QED BY <1>3, <2>3 DEF StoreFile, MarksGrow
<1>4. CASE JobFails(j)
  <2>1. MarksGrow
      BY <1>0, <1>4 DEF JobFails, Meets, MarksGrow
  <2> QED BY <1>4, <2>1, IdleGoesOn DEF JobFails
<1>5. CASE UploadDone(j)
  <2>1. MarksGrow
      BY <1>0, <1>5 DEF UploadDone, Meets, MarksGrow
  <2> QED BY <1>5, <2>1, IdleGoesOn DEF UploadDone
<1> QED BY <1>1, <1>2, <1>3, <1>4, <1>5 DEF Storing

LEMMA QuietGoesOn == Quiet => GoesOn /\ MarksGrow
BY DEF Quiet, GoesOn, Pending

LEMMA InputIsQuiet ==
    /\ \A r \in Records : OpenRecord(r) => Quiet
    /\ \A f \in Files : RemoveFile(f) => Quiet
    /\ Save \/ Request => Quiet
BY DEF OpenRecord, RemoveFile, Save, Request, SetRecord, SetFails, PageStep, Quiet, MarksGrow

LEMMA OthersAreQuiet ==
    /\ \A r \in Records : DelRecord(r) => Quiet
    /\ \A r \in Records, m \in Mails : MailArrives(m, r) => Quiet
    /\ \A l \in DOMAIN links : FileRestore(l) => Quiet
    /\ Base /\ DropAttribute => Quiet
<1>1. Base => DOMAIN cut = Mishaps
    BY DEF Base, Typed, Recorded
<1> QED BY <1>1 DEF DelRecord, MailArrives, FileRestore, DropAttribute, Elsewhere, Quiet, MarksGrow, Meets

LEMMA CleanUpIsQuiet ==
    /\ Base /\ CleanUp => Quiet
    /\ \A p \in Paths : VersionInUse(p) => Quiet
<1>1. Base => DOMAIN cut = Mishaps
    BY DEF Base, Typed, Recorded
<1>2. CleanLinks => UNCHANGED <<job, cut>>
    BY DEF CleanLinks, Cleans
<1>6. ListVersions => UNCHANGED <<job, cut>>
    BY DEF ListVersions, Cleans
<1>7. DeleteVersion \/ DeleteFiles => UNCHANGED <<job, cut>>
    BY DEF DeleteVersion, DeleteFiles, Cleans
<1>3. Base /\ ListFiles => Quiet
    BY <1>1 DEF ListFiles, Cleans, Quiet, MarksGrow, Meets
<1>4. \A p \in Paths : RemoveVersion(p) \/ VersionInUse(p) => Quiet
    BY DEF RemoveVersion, VersionInUse, Cleans, Quiet, MarksGrow
<1>5. \A f \in Files : NextFile(f) => Quiet
    BY DEF NextFile, Cleans, Quiet, MarksGrow
<1> QED BY <1>2, <1>3, <1>4, <1>5, <1>6, <1>7 DEF CleanUp, Quiet, MarksGrow

\* The clean up leaves all others alone, whatever it does.
LEMMA CleansAlone == CleanUp \/ (\E p \in Paths : VersionInUse(p)) => Cleans
<1>1. CleanLinks => Cleans
    BY DEF CleanLinks
<1>2. ListVersions => Cleans
    BY DEF ListVersions
<1>3. DeleteVersion \/ ListFiles => Cleans
    BY DEF DeleteVersion, ListFiles
<1>4. DeleteFiles => Cleans
    BY DEF DeleteFiles
<1>5. \A p \in Paths : RemoveVersion(p) \/ VersionInUse(p) => Cleans
    BY DEF RemoveVersion, VersionInUse
<1>6. \A f \in Files : NextFile(f) => Cleans
    BY DEF NextFile
<1> QED BY <1>1, <1>2, <1>3, <1>4, <1>5, <1>6 DEF CleanUp

LEMMA CrashGoesOn == ASSUME Base, Crash PROVE GoesOn /\ MarksGrow
<1>1. DOMAIN cut = Mishaps
    BY DEF Base, Typed, Recorded
<1>2. \A k \in Jobs : job'[k].step = "none"
    BY DEF Crash, Idle
<1> QED BY <1>1, <1>2 DEF Crash, GoesOn, MarksGrow

-----------------------------------------------------------------------------
(* Mails are attached once *)

\* no mail is taken that was not taken before
TakesNone == \A k \in Jobs : Attaches(k)' => Attaches(k) /\ job'[k].mail = job[k].mail

LEMMA GoesOnTakesNone == GoesOn => TakesNone
BY DEF GoesOn, TakesNone, Attaches, Creates, Pending

LEMMA MailKept ==
    ASSUME Base, Mailed, UNCHANGED <<spool, attached>>, MarksStay, TakesNone PROVE Mailed'
<1>1. MailAttachedOnce'
    BY DEF Mailed, MailAttachedOnce, MarksStay
<1>2. MailInWork'
  <2> SUFFICES ASSUME NEW j \in Jobs, Attaches(j)', job'[j].mail \notin cut'["parallel"]
               PROVE  /\ job'[j].mail \in DOMAIN spool
                      /\ \A k \in Jobs \ {j} : Attaches(k)' => job'[k].mail # job'[j].mail
      BY DEF MailInWork, Attaches
  <2>1. Attaches(j) /\ job'[j].mail = job[j].mail
      BY DEF TakesNone
  <2>2. job[j].mail \in Mails
      BY <2>1 DEF Attaches, Creates, Pending, Base, Typed, Working
  <2> QED BY <2>1, <2>2 DEF Mailed, MailInWork, Attaches, TakesNone, MarksStay
<1> QED BY <1>1, <1>2 DEF Mailed

LEMMA MarksGrowStay == MarksGrow => MarksStay
BY DEF MarksGrow, MarksStay, Mishaps

LEMMA MailStart ==
    /\ \A j \in Uploaders : Base /\ Mailed /\ UploadNew(j) => Mailed'
    /\ \A j \in Uploaders, f \in Files : Base /\ Mailed /\ UploadVersion(j, f) => Mailed'
    /\ \A j \in Uploaders, f \in Files : Base /\ Mailed /\ Paste(j, f) => Mailed'
<1>1. ASSUME NEW j \in Jobs, Base, Mailed, StartsAlone(j), StartsFresh(j) \/ StartsVersion(j),
             job'[j].op # "attach"
      PROVE  Mailed'
  <2>1. TakesNone
      BY <1>1 DEF TakesNone, Attaches, Creates, Pending, StartsAlone
  <2>2. MarksStay
      BY <1>1 DEF StartsFresh, StartsVersion, MarksStay
  <2> QED BY <1>1, <2>1, <2>2, MailKept DEF StartsAlone
<1>2. Uploaders \subseteq Jobs
    BY DEF Jobs
<1> QED BY <1>1, <1>2, UploadNewIs, UploadVersionIs, PasteIs DEF StartsVersion

\* A mail that is taken is there; who has taken it before marks it.
LEMMA MailTaken ==
    ASSUME Base, Mailed, NEW j \in Attachers, NEW m \in Mails, Attach(j, m) PROVE Mailed'
<1>1. /\ StartsAlone(j) /\ StartsFresh(j) /\ job'[j].mail = m /\ m \in DOMAIN spool
      /\ \A k \in Jobs \ {j} : Attaches(k) /\ job[k].mail = m => m \in cut'["parallel"]
    BY AttachIs
<1>2. MarksStay /\ UNCHANGED <<spool, attached>> /\ \A k \in Jobs \ {j} : job'[k] = job[k]
    BY <1>1 DEF StartsFresh, StartsAlone
<1>3. MailAttachedOnce'
    BY <1>2 DEF Mailed, MailAttachedOnce, MarksStay
<1>4. MailInWork'
  <2> SUFFICES ASSUME NEW i \in Jobs, Attaches(i)', job'[i].mail \notin cut'["parallel"]
               PROVE  /\ job'[i].mail \in DOMAIN spool
                      /\ \A k \in Jobs \ {i} : Attaches(k)' => job'[k].mail # job'[i].mail
      BY <1>2 DEF MailInWork, Attaches
  <2>1. \A k \in Jobs \ {j} : Attaches(k)' => Attaches(k)
      BY <1>2 DEF Attaches, Creates, Pending
  <2>2. CASE i = j
      BY <1>1, <1>2, <2>1, <2>2
  <2>3. CASE i # j
    <3>1. Attaches(i) /\ job'[i] = job[i]
        BY <1>2, <2>1, <2>3
    <3>2. job[i].mail \in Mails
        BY <3>1 DEF Attaches, Creates, Pending, Base, Typed, Working
    <3>3. job[i].mail \notin cut["parallel"]
        BY <1>2, <3>1, <3>2 DEF MarksStay
    <3>4. /\ job[i].mail \in DOMAIN spool
          /\ \A k \in Jobs \ {i} : Attaches(k) => job[k].mail # job[i].mail
        BY <3>1, <3>3 DEF Mailed, MailInWork, Attaches
    <3>5. job[i].mail # m
        BY <1>1, <2>3, <3>1
    <3> QED BY <1>1, <1>2, <2>1, <2>3, <3>1, <3>4, <3>5
  <2> QED BY <2>2, <2>3
<1> QED BY <1>3, <1>4 DEF Mailed

\* With its files stored, the mail is gone from the spool, in one transaction.
LEMMA MailStored ==
    ASSUME Base, Mailed, NEW j \in Jobs, StoreFile(j) PROVE Mailed'
<1>1. UNCHANGED cut /\ TakesNone /\ job[j].step = "store"
    BY StoringGoesOn, GoesOnTakesNone DEF Storing, StoreFile
<1>2. CASE job[j].op # "attach"
  <2>1. UNCHANGED <<spool, attached>>
      BY <1>2, StoreFileIs
  <2> QED BY <1>1, <2>1, MailKept DEF MarksStay
<1>3. CASE job[j].op = "attach"
  <2> DEFINE m == job[j].mail
  <2>1. TakesMail(j) /\ attached' = [attached EXCEPT ![m] = @ + 1] /\ m \in Mails
      BY <1>1, <1>3, StoreFileIs DEF Base, Typed, Working
  <2>2. Attaches(j) /\ ~Attaches(j)'
    <3>1. job'[j] = Idle
        BY <1>3, StoreFileIs
    <3> QED BY <1>1, <1>3, <3>1 DEF Attaches, Creates, Pending, Idle
  <2>3. DOMAIN spool' = DOMAIN spool \ {m}
      BY <2>1 DEF TakesMail, Without, Restrict
  <2>4. \A n \in Mails \ {m} : attached'[n] = attached[n]
      BY <2>1 DEF Base, Typed, Recorded
  <2>5. m \notin cut["parallel"] => attached'[m] = 1
    <3>1. m \notin cut["parallel"] => m \in DOMAIN spool
        BY <2>2 DEF Mailed, MailInWork, Attaches
    <3>2. m \notin cut["parallel"] => attached[m] = 0
        BY <2>1, <3>1 DEF Mailed, MailAttachedOnce
    <3> QED BY <2>1, <3>2 DEF Base, Typed, Recorded
  <2> HIDE DEF m
  <2>6. MailAttachedOnce'
      BY <1>1, <2>3, <2>4, <2>5 DEF Mailed, MailAttachedOnce
  <2>7. MailInWork'
    <3> SUFFICES ASSUME NEW i \in Jobs, Attaches(i)', job'[i].mail \notin cut["parallel"]
                 PROVE  /\ job'[i].mail \in DOMAIN spool'
                        /\ \A k \in Jobs \ {i} : Attaches(k)' => job'[k].mail # job'[i].mail
        BY <1>1 DEF MailInWork, Attaches
    <3>1. i # j /\ Attaches(i) /\ job'[i].mail = job[i].mail
        BY <1>1, <2>2 DEF TakesNone
    <3>2. /\ job[i].mail \in DOMAIN spool
          /\ \A k \in Jobs \ {i} : Attaches(k) => job[k].mail # job[i].mail
        BY <3>1 DEF Mailed, MailInWork, Attaches
    <3>3. job[i].mail # m
        BY <2>2, <3>1, <3>2 DEF m
    <3> QED BY <1>1, <2>3, <3>1, <3>2, <3>3 DEF TakesNone
  <2> QED BY <2>6, <2>7 DEF Mailed
<1> QED BY <1>2, <1>3

LEMMA MailArrived ==
    ASSUME Base, Mailed, NEW m \in Mails, NEW r \in Records, MailArrives(m, r) PROVE Mailed'
<1>1. /\ spool' = With(spool, m, r) /\ attached' = [attached EXCEPT ![m] = 0] /\ attached[m] = -1
      /\ UNCHANGED <<job, cut>>
    BY DEF MailArrives, Elsewhere
<1>2. DOMAIN spool' = DOMAIN spool \cup {m}
    BY <1>1 DEF With
<1>3. attached'[m] = 0 /\ \A n \in Mails \ {m} : attached'[n] = attached[n]
    BY <1>1 DEF Base, Typed, Recorded
<1>4. MailAttachedOnce'
    BY <1>1, <1>2, <1>3 DEF Mailed, MailAttachedOnce
<1>5. MailInWork'
    BY <1>1, <1>2 DEF Mailed, MailInWork, Creates, Pending
<1> QED BY <1>4, <1>5 DEF Mailed

LEMMA MailQuiet ==
    ASSUME Base, Mailed, GoesOn, MarksGrow, UNCHANGED <<spool, attached>> PROVE Mailed'
BY GoesOnTakesNone, MarksGrowStay, MailKept

LEMMA MailStep == Base /\ Mailed /\ [Next]_vars => Mailed'
<1> SUFFICES ASSUME Base, Mailed, [Next]_vars PROVE Mailed'
    OBVIOUS
<1>1. CASE \E j \in Uploaders : UploadNew(j) \/ \E f \in Files : UploadVersion(j, f) \/ Paste(j, f)
    BY <1>1, MailStart
<1>2. CASE Attaching
    BY <1>2, MailTaken DEF Attaching
<1>3. ASSUME NEW j \in Jobs, Storing(j) PROVE Mailed'
  <2>1. CASE StoreFile(j)
      BY <2>1, MailStored
  <2>2. CASE WriteFile(j) \/ HashFile(j) \/ JobFails(j) \/ UploadDone(j)
    <3>1. UNCHANGED <<spool, attached>>
        BY <2>2 DEF WriteFile, HashFile, JobFails, UploadDone, database, history
    <3> QED BY <1>3, <3>1, StoringGoesOn, MailQuiet
  <2> QED BY <1>3, <2>1, <2>2 DEF Storing
<1>4. CASE \E m \in Mails, r \in Records : MailArrives(m, r)
    BY <1>4, MailArrived
<1>5. CASE \/ \E r \in Records : OpenRecord(r) \/ DelRecord(r)
           \/ \E f \in Files : RemoveFile(f)
           \/ \E l \in DOMAIN links : FileRestore(l)
           \/ Save \/ Request \/ DropAttribute
  <2>1. GoesOn /\ MarksGrow
      BY <1>5, InputIsQuiet, OthersAreQuiet, QuietGoesOn
  <2>2. UNCHANGED <<spool, attached>>
      BY <1>5 DEF OpenRecord, DelRecord, RemoveFile, FileRestore, Save, Request, SetRecord, SetFails,
                  DropAttribute, PageStep, Elsewhere, database
  <2> QED BY <2>1, <2>2, MailQuiet
<1>6. CASE CleanUp \/ \E p \in Paths : VersionInUse(p)
  <2>1. GoesOn /\ MarksGrow
      BY <1>6, CleanUpIsQuiet, QuietGoesOn
  <2>2. UNCHANGED <<spool, attached>>
      BY <1>6, CleansAlone DEF Cleans
  <2> QED BY <2>1, <2>2, MailQuiet
<1>7. CASE Crash
  <2>1. UNCHANGED <<spool, attached>>
      BY <1>7 DEF Crash, database
  <2> QED BY <1>7, <2>1, CrashGoesOn, MailQuiet
<1>8. CASE UNCHANGED vars
    BY <1>8 DEF Mailed, MailInWork, MailAttachedOnce, Creates, Pending, vars, database, history
<1> QED BY <1>1, <1>2, <1>3, <1>4, <1>5, <1>6, <1>7, <1>8 DEF Next

LEMMA MailHolds == Spec => []Mailed
<1>1. Init => Mailed
    BY DEF Init, Mailed, MailInWork, MailAttachedOnce, Creates, Pending, Idle
<1> QED BY <1>1, MailStep, BaseHolds, PTL DEF Spec

\* The files of a mail are attached once and not lost, whenever executions of the
\* task fail, are repeated or end with the process, unless two work on the mail.
THEOREM MailsAttachedOnce == Spec => []MailAttachedOnce
BY MailHolds, PTL DEF Mailed

-----------------------------------------------------------------------------
(* Files stay with the record they were stored for *)

LEMMA OwnedKept ==
    ASSUME Base, Owned, GoesOn, MarksGrow, \A j \in Jobs : job'[j].step = "answer" => job[j].step = "answer",
           DOMAIN links' \subseteq DOMAIN links, UNCHANGED origin,
           \A f \in Files : Adds(f)' => Adds(f),
           \A f \in Files, r \in Records : AddsTo(f, r)' => AddsTo(f, r)
    PROVE  Owned'
<1>1. "strayed" \in Mishaps
    BY DEF Mishaps
<1>2. \A f \in cut["strayed"] : f \in cut'["strayed"]
    BY <1>1 DEF MarksGrow
<1>3. FilesOfTheirRecord'
    BY <1>2 DEF Owned, FilesOfTheirRecord
<1>4. ASSUME NEW f \in Files, Adds(f)'
      PROVE  \A j \in Jobs : Creates(j)' => job'[j].path[1] # f
  <2>1. \A j \in Jobs : Creates(j) => job[j].path[1] # f
      BY <1>4 DEF Owned
  <2>2. \A j \in Jobs : Creates(j)' => Creates(j) /\ job'[j].path = job[j].path
      BY DEF GoesOn, Creates, Pending
  <2> QED BY <2>1, <2>2
<1>6. ASSUME NEW f \in Files, NEW r \in Records, AddsTo(f, r)', f \notin cut'["strayed"]
      PROVE  origin'[f] = r
    BY <1>2, <1>6 DEF Owned
<1>5. ASSUME NEW j \in Jobs, job'[j].step = "answer" PROVE origin'[job'[j].path[1]] = job'[j].record
  <2>1. job[j].step = "answer" /\ job'[j].path = job[j].path /\ job'[j].record = job[j].record
      BY <1>5 DEF GoesOn
  <2> QED BY <2>1 DEF Owned
<1> QED BY <1>3, <1>4, <1>5, <1>6 DEF Owned

\* Steps of others only take links away.
LEMMA OwnedQuiet ==
    ASSUME Base, Owned, Quiet, DOMAIN links' \subseteq DOMAIN links, UNCHANGED <<origin, page>>
    PROVE  Owned'
BY QuietGoesOn, OwnedKept DEF Quiet, Adds, AddsTo

LEMMA OwnedFresh ==
    ASSUME Base, Owned, NEW j \in Jobs, StartsAlone(j), StartsFresh(j) PROVE Owned'
<1> DEFINE f == job'[j].path[1]
<1>1. /\ f \in Files \ Known /\ page.changes[f] = "none" /\ page.sent[f] = "none"
      /\ cut'["strayed"] = cut["strayed"] \ {f}
      /\ job'[j].step = "write"
    BY DEF StartsFresh, Mishaps
<1>2. /\ \A k \in Jobs \ {j} : job'[k] = job[k]
      /\ UNCHANGED <<links, page, origin>>
    BY DEF StartsAlone
<1>3. \A l \in DOMAIN links : l[1] # f
    BY <1>1 DEF Base, Typed, Rows
<1> HIDE DEF f
<1>4. FilesOfTheirRecord'
    BY <1>1, <1>2, <1>3 DEF Owned, FilesOfTheirRecord
<1>5. ASSUME NEW g \in Files, Adds(g)
      PROVE  /\ g # f
             /\ \A r \in Records : AddsTo(g, r) /\ g \notin cut'["strayed"] => origin[g] = r
             /\ \A k \in Jobs : Creates(k)' => job'[k].path[1] # g
  <2>1. g # f
      BY <1>1, <1>5 DEF Adds
  <2>2. \A k \in Jobs \ {j} : Creates(k)' => job'[k].path[1] # g
      BY <1>2, <1>5 DEF Owned, Adds, Creates, Pending
  <2>3. job'[j].path[1] # g
      BY <2>1 DEF f
  <2> QED BY <1>1, <1>5, <2>1, <2>2, <2>3 DEF Owned
<1>6. \A k \in Jobs : job'[k].step = "answer" => origin[job'[k].path[1]] = job'[k].record
    BY <1>1, <1>2 DEF Owned
<1> QED BY <1>1, <1>2, <1>4, <1>5, <1>6 DEF Owned, Adds, AddsTo

LEMMA OwnedVersion ==
    ASSUME Base, Owned, NEW j \in Jobs, StartsAlone(j), StartsVersion(j) PROVE Owned'
<1>1. /\ \A k \in Jobs \ {j} : job'[k] = job[k]
      /\ UNCHANGED <<links, page, origin, cut>>
      /\ ~Creates(j)' /\ job'[j].step # "answer"
    BY DEF StartsAlone, StartsVersion, Creates
<1>2. FilesOfTheirRecord'
    BY <1>1 DEF Owned, FilesOfTheirRecord
<1>3. \A k \in Jobs : Creates(k)' => Creates(k) /\ job'[k] = job[k]
    BY <1>1 DEF Creates, Pending
<1> QED BY <1>1, <1>2, <1>3 DEF Owned, Adds, AddsTo

\* What is stored belongs to the record it was uploaded for: nothing refers to
\* the file before.
LEMMA OwnedStored == ASSUME Base, Owned, NEW j \in Jobs, StoreFile(j) PROVE Owned'
<1>1. /\ \A k \in Jobs \ {j} : job'[k] = job[k]
      /\ UNCHANGED <<page, cut>> /\ FileOf(j) \in Files
      /\ \/ job'[j] = Idle
         \/ /\ job'[j].step = "answer" /\ job'[j].path = job[j].path /\ job'[j].record = job[j].record
            /\ job[j].op \in {"new", "copy"}
    BY StoreFileIs
<1>2. GoesOn /\ MarksGrow /\ job[j].step = "store" /\ Idle.step = "none"
    BY StoringGoesOn DEF Storing, StoreFile, Idle
<1>3. CASE job[j].op = "version"
  <2>1. UNCHANGED <<links, origin>> /\ job'[j] = Idle
      BY <1>1, <1>3, StoreFileIs
  <2> QED BY <1>1, <1>2, <2>1, OwnedKept DEF Adds, AddsTo
<1>4. CASE job[j].op # "version"
  <2>1. Creates(j) /\ FileOf(j) \notin Known /\ origin' = [origin EXCEPT ![FileOf(j)] = job[j].record]
        /\ \/ DOMAIN links' = DOMAIN links \cup {LinkOf(j)}
           \/ UNCHANGED links
    <3>1. job[j].op \in {"new", "copy", "attach"}
        BY <1>4, StoreFileIs
    <3> QED BY <1>2, <1>4, <3>1, StoreFileIs DEF Creates, Pending
  <2>2. origin'[FileOf(j)] = job[j].record /\ \A f \in Files \ {FileOf(j)} : origin'[f] = origin[f]
      BY <1>1, <2>1 DEF Base, Typed, Recorded
  <2>3. \A l \in DOMAIN links : l[1] # FileOf(j) /\ l[1] \in Files
      BY <2>1 DEF Base, Typed, Rows
  <2>4. LinkOf(j)[1] = FileOf(j) /\ LinkOf(j)[2] = job[j].record
      BY DEF LinkOf, FileOf
  <2>5. FilesOfTheirRecord'
      BY <1>1, <2>1, <2>2, <2>3, <2>4 DEF Owned, FilesOfTheirRecord
  <2>6. ASSUME NEW f \in Files, Adds(f)
        PROVE  /\ \A r \in Records : AddsTo(f, r) /\ f \notin cut["strayed"] => origin'[f] = r
               /\ \A k \in Jobs : Creates(k)' => job'[k].path[1] # f
    <3>1. f # FileOf(j)
        BY <2>1, <2>6 DEF Owned, Adds, FileOf
    <3>2. \A k \in Jobs : Creates(k)' => Creates(k) /\ job'[k].path = job[k].path
        BY <1>2 DEF GoesOn, Creates, Pending
    <3> QED BY <2>2, <2>6, <3>1, <3>2 DEF Owned
  <2>7. ASSUME NEW k \in Jobs, job'[k].step = "answer" PROVE origin'[job'[k].path[1]] = job'[k].record
    <3>1. CASE k = j
        BY <1>1, <1>2, <2>2, <2>7, <3>1 DEF FileOf
    <3>2. CASE k # j
      <4>1. job[k].step = "answer" /\ job'[k] = job[k]
          BY <1>1, <2>7, <3>2
      <4>2. job[k].path[1] # FileOf(j) /\ job[k].path[1] \in Files
          BY <2>1, <3>2, <4>1 DEF Base, Apart, Typed, Working, Paths, FileOf
      <4> QED BY <2>2, <4>1, <4>2 DEF Owned
    <3> QED BY <3>1, <3>2
  <2> QED BY <1>1, <2>5, <2>6, <2>7 DEF Owned, Adds, AddsTo
<1> QED BY <1>3, <1>4

LEMMA OwnedDone == ASSUME Base, Owned, NEW j \in Jobs, UploadDone(j) PROVE Owned'
<1> DEFINE f == job[j].path[1]
<1>1. /\ job[j].step = "answer" /\ page' = [page EXCEPT !.changes[f] = "create"]
      /\ cut' = IF page.record = job[j].record THEN cut ELSE Meets("strayed", {f})
      /\ UNCHANGED <<links, origin>>
    BY DEF UploadDone, database
<1>2. GoesOn /\ MarksGrow
    BY StoringGoesOn DEF Storing
<1>3. /\ \A k \in Jobs \ {j} : job'[k] = job[k]
      /\ job'[j].step = "none" /\ f \in Files
    BY <1>1 DEF UploadDone, Base, Typed, Working, Idle, Paths
<1>4. origin[f] = job[j].record
    BY <1>1 DEF Owned
<1>5. \A x \in cut["strayed"] : x \in cut'["strayed"]
    BY <1>2 DEF MarksGrow, Mishaps
<1>6. f \in cut'["strayed"] \/ origin[f] = page.record
    BY <1>1, <1>4 DEF Meets, Base, Typed, Recorded, Mishaps
<1>7. \A k \in Jobs : Creates(k)' => Creates(k) /\ job'[k].path = job[k].path /\ k # j
    BY <1>2, <1>3 DEF GoesOn, Creates, Pending
<1>8. \A k \in Jobs : Creates(k)' => job'[k].path[1] # f
    BY <1>1, <1>7 DEF Base, Apart
<1>9. /\ page'.record = page.record /\ page'.saving = page.saving /\ page'.sent = page.sent
      /\ \A g \in Files \ {f} : page'.changes[g] = page.changes[g]
    BY <1>1 DEF Base, Typed, Using, Page
<1> HIDE DEF f
<1>10. FilesOfTheirRecord'
    BY <1>1, <1>5 DEF Owned, FilesOfTheirRecord
<1>11. ASSUME NEW g \in Files, Adds(g)'
       PROVE  /\ \A r \in Records : AddsTo(g, r)' /\ g \notin cut'["strayed"] => origin[g] = r
              /\ \A k \in Jobs : Creates(k)' => job'[k].path[1] # g
  <2>1. CASE g = f
      BY <1>5, <1>6, <1>8, <1>9, <2>1 DEF Owned, AddsTo
  <2>2. CASE g # f
    <3>1. Adds(g) /\ \A r \in Records : AddsTo(g, r)' => AddsTo(g, r)
        BY <1>9, <1>11, <2>2 DEF Adds, AddsTo
    <3> QED BY <1>5, <1>7, <3>1 DEF Owned
  <2> QED BY <2>1, <2>2
<1>12. \A k \in Jobs : job'[k].step = "answer" => origin[job'[k].path[1]] = job'[k].record
    BY <1>3 DEF Owned
<1>13. \A g \in Files, r \in Records : AddsTo(g, r)' => Adds(g)'
    BY DEF Adds, AddsTo
<1> QED BY <1>1, <1>10, <1>11, <1>12, <1>13 DEF Owned

\* A save adds files to the record it is for, and the input forgets its changes.
LEMMA OwnedSet == ASSUME Base, Owned, SetRecord PROVE Owned'
<1> DEFINE added == {<<f, page.saving>> : f \in Sent("create")}
<1>0. page \in Page
    BY DEF Base, Typed, Using
<1>1. /\ DOMAIN links' = DOMAIN links \cup added
      /\ page' = [Reset(page.record) EXCEPT !.saving = NoRecord, !.sent = NoChange]
      /\ page.saving \in Records
      /\ UNCHANGED <<cut, job, origin>>
    BY <1>0 DEF SetRecord, PageStep, Page
<1>2. \A f \in Files : ~Adds(f)'
    BY <1>0, <1>1 DEF Reset, Page, NoChange, Adds
<1>3. \A f \in Sent("create") : f \in Files /\ (f \notin cut["strayed"] => origin[f] = page.saving)
    BY <1>1 DEF Sent, Owned, AddsTo
<1>4. FilesOfTheirRecord'
    BY <1>1, <1>3 DEF Owned, FilesOfTheirRecord
<1>5. \A f \in Files, r \in Records : ~AddsTo(f, r)'
    BY <1>2 DEF Adds, AddsTo
<1> QED BY <1>1, <1>2, <1>4, <1>5 DEF Owned, Creates, Pending

LEMMA OwnedInput ==
    ASSUME Base, Owned,
           \/ \E r \in Records : OpenRecord(r)
           \/ \E f \in Files : RemoveFile(f)
           \/ Save \/ SetFails
    PROVE  Owned'
<1>1. Quiet /\ UNCHANGED <<links, origin>>
    BY InputIsQuiet DEF OpenRecord, RemoveFile, Save, SetFails, Request, PageStep, database
<1>2. /\ \A f \in Files : Adds(f)' => Adds(f)
      /\ \A f \in Files, r \in Records : AddsTo(f, r)' => AddsTo(f, r)
  <2>1. page \in Page
      BY DEF Base, Typed, Using
  <2>2. CASE \E r \in Records : OpenRecord(r)
    <3>0. PICK r \in Records : page' = Reset(r)
        BY <2>2 DEF OpenRecord
    <3>1. \A f \in Files : page'.changes[f] = "none"
      <4>1. page'.changes = NoChange
          BY <2>1, <3>0 DEF Reset, Page
      <4> QED BY <4>1 DEF NoChange
    <3>2. page'.sent = page.sent /\ page'.saving = page.saving
        BY <2>1, <2>2 DEF OpenRecord, Reset, Page
    <3> QED BY <3>1, <3>2 DEF Adds, AddsTo
  <2>3. CASE \E f \in Files : RemoveFile(f)
      BY <2>1, <2>3 DEF RemoveFile, Page, Adds, AddsTo
  <2>4. CASE Save
    <3>1. /\ page'.record = page.record /\ page'.changes = page.changes
          /\ page'.saving = page.record /\ page'.sent = page.changes
        BY <2>1, <2>4 DEF Save, Page
    <3> QED BY <3>1 DEF Adds, AddsTo
  <2>5. CASE SetFails
    <3>1. page'.record = page.record /\ page'.changes = page.changes
        BY <2>1, <2>5 DEF SetFails, Page
    <3>2. \A f \in Files : page'.sent[f] = "none"
        BY <2>1, <2>5 DEF SetFails, Page, NoChange
    <3> QED BY <3>1, <3>2 DEF Adds, AddsTo
  <2> QED BY <2>2, <2>3, <2>4, <2>5
<1> QED BY <1>1, <1>2, QuietGoesOn, OwnedKept DEF Quiet

LEMMA CleanUpUnlinks ==
    CleanUp \/ (\E p \in Paths : VersionInUse(p)) => DOMAIN links' \subseteq DOMAIN links
<1>1. CleanLinks => DOMAIN links' \subseteq DOMAIN links
    BY DEF CleanLinks, Unlink, Without, Restrict
<1>2. ListVersions => DOMAIN links' \subseteq DOMAIN links
    BY DEF ListVersions
<1>3. DeleteVersion \/ ListFiles => DOMAIN links' \subseteq DOMAIN links
    BY DEF DeleteVersion, ListFiles
<1>4. DeleteFiles => DOMAIN links' \subseteq DOMAIN links
    BY DEF DeleteFiles, Without, Restrict
<1>5. \A p \in Paths : RemoveVersion(p) \/ VersionInUse(p) => DOMAIN links' \subseteq DOMAIN links
    BY DEF RemoveVersion, VersionInUse
<1>6. \A f \in Files : NextFile(f) => DOMAIN links' \subseteq DOMAIN links
    BY DEF NextFile
<1> QED BY <1>1, <1>2, <1>3, <1>4, <1>5, <1>6 DEF CleanUp

LEMMA OthersUnlink ==
    /\ \A r \in Records : DelRecord(r) => DOMAIN links' \subseteq DOMAIN links
    /\ \A r \in Records, m \in Mails : MailArrives(m, r) => DOMAIN links' \subseteq DOMAIN links
    /\ \A l \in DOMAIN links : FileRestore(l) => DOMAIN links' \subseteq DOMAIN links
    /\ DropAttribute => DOMAIN links' \subseteq DOMAIN links
BY DEF DelRecord, Unlink, Without, Restrict, MailArrives, FileRestore, DropAttribute

LEMMA OwnedStep == Base /\ Owned /\ [Next]_vars => Owned'
<1> SUFFICES ASSUME Base, Owned, [Next]_vars PROVE Owned'
    OBVIOUS
<1>0. Uploaders \subseteq Jobs /\ Attachers \subseteq Jobs
    BY DEF Jobs
<1>1. CASE \E j \in Uploaders : UploadNew(j) \/ \E f \in Files : UploadVersion(j, f) \/ Paste(j, f)
    BY <1>0, <1>1, UploadNewIs, UploadVersionIs, PasteIs, OwnedFresh, OwnedVersion
<1>2. CASE Attaching
    BY <1>0, <1>2, AttachIs, OwnedFresh DEF Attaching
<1>3. ASSUME NEW j \in Jobs, Storing(j) PROVE Owned'
  <2>1. CASE WriteFile(j) \/ HashFile(j) \/ JobFails(j)
    <3>1. UNCHANGED <<links, origin, page>>
        BY <2>1 DEF WriteFile, HashFile, JobFails, database, history
    <3>2. \A k \in Jobs : job'[k].step = "answer" => job[k].step = "answer"
        BY <2>1 DEF WriteFile, HashFile, JobFails, Idle, Base, Typed, Working, Job
    <3> QED BY <1>3, <3>1, <3>2, StoringGoesOn, OwnedKept DEF Adds, AddsTo
  <2> QED BY <1>3, <2>1, OwnedStored, OwnedDone DEF Storing
<1>4. CASE \/ \E r \in Records : DelRecord(r) \/ \E m \in Mails : MailArrives(m, r)
           \/ \E l \in DOMAIN links : FileRestore(l)
           \/ DropAttribute
  <2>1. UNCHANGED <<origin, page>>
      BY <1>4 DEF DelRecord, MailArrives, FileRestore, DropAttribute, Elsewhere
  <2> QED BY <1>4, <2>1, OthersAreQuiet, OthersUnlink, OwnedQuiet
<1>5. CASE \/ \E r \in Records : OpenRecord(r)
           \/ \E f \in Files : RemoveFile(f)
           \/ Save \/ Request
    BY <1>5, OwnedInput, OwnedSet DEF Request
<1>6. CASE CleanUp \/ \E p \in Paths : VersionInUse(p)
    BY <1>6, CleansAlone, CleanUpIsQuiet, CleanUpUnlinks, OwnedQuiet DEF Cleans
<1>7. CASE Crash
  <2>1. UNCHANGED <<links, origin>>
      BY <1>7 DEF Crash, database
  <2>2. /\ \A f \in Files : Adds(f)' => Adds(f)
        /\ \A f \in Files, r \in Records : AddsTo(f, r)' => AddsTo(f, r)
      BY <1>7 DEF Crash, Base, Typed, Using, Page, NoChange, Adds, AddsTo
  <2>3. \A k \in Jobs : job'[k].step # "answer"
      BY <1>7 DEF Crash, Idle
  <2> QED BY <1>7, <2>1, <2>2, <2>3, CrashGoesOn, OwnedKept
<1>8. CASE UNCHANGED vars
    BY <1>8 DEF Owned, FilesOfTheirRecord, Adds, AddsTo, Creates, Pending, vars, database, history
<1> QED BY <1>1, <1>2, <1>3, <1>4, <1>5, <1>6, <1>7, <1>8 DEF Next

LEMMA OwnedHolds == Spec => []Owned
<1>1. Init => Owned
    BY DEF Init, Owned, FilesOfTheirRecord, Adds, AddsTo, Creates, Pending, Idle, Shows, NoChange
<1> QED BY <1>1, OwnedStep, BaseHolds, PTL DEF Spec

\* A record only gets files that were stored for it, however long uploads take
\* and whatever the form shows by then, unless an upload ended in another record.
THEOREM FilesStayWithTheirRecord == Spec => []FilesOfTheirRecord
BY OwnedHolds, PTL DEF Owned

-----------------------------------------------------------------------------
(* Nothing unknown stays on disk *)

\* the path of nothing: no file has the number 0
LEMMA NoPath == <<0, 0>> \notin Paths
BY FileStoreAssumption DEF Paths

LEMMA RestingHasVersions == cleaner' = Resting => CleanerHasVersions'
BY DEF Resting, CleanerHasVersions

LEMMA CleanerKept ==
    ASSUME CleanerHasVersions, UNCHANGED cleaner, DOMAIN versions \subseteq DOMAIN versions'
    PROVE  CleanerHasVersions'
BY DEF CleanerHasVersions

LEMMA ListsOutdated ==
    ASSUME ListVersions
    PROVE  \E old \in SUBSET Outdated :
              /\ cleaner' = [cleaner EXCEPT !.step = "old", !.paths = old]
              /\ \A p \in old, q \in DOMAIN versions : p # Latest(q[1])
<1>1. PICK old \in SUBSET (Outdated \ {Latest(f) : f \in {p[1] : p \in DOMAIN versions}}) :
            cleaner' = [cleaner EXCEPT !.step = "old", !.paths = old]
    BY Zenon DEF ListVersions
<1>2. old \in SUBSET Outdated /\ \A p \in old, q \in DOMAIN versions : p # Latest(q[1])
    OBVIOUS
<1> QED BY <1>1, <1>2, Zenon

\* The steps of the clean up keep to versions there are.
LEMMA CleanerClean ==
    ASSUME Base, CleanerHasVersions, CleanUp \/ \E p \in Paths : VersionInUse(p)
    PROVE  CleanerHasVersions'
<1>0. cleaner \in Cleaner
    BY DEF Base, Typed, Using
<1>1. CASE CleanLinks
    BY <1>0, <1>1 DEF CleanLinks, CleanerHasVersions, Resting
<1>2. CASE ListVersions
  <2>1. PICK old \in SUBSET Outdated : cleaner' = [cleaner EXCEPT !.step = "old", !.paths = old]
      BY <1>2, ListsOutdated, Zenon
  <2>2. Outdated \subseteq DOMAIN versions
      BY DEF Outdated
  <2>3. UNCHANGED versions /\ cleaner.step = "list"
      BY <1>2 DEF ListVersions
  <2> HIDE DEF Outdated
  <2> QED BY <1>0, <2>1, <2>2, <2>3 DEF CleanerHasVersions, Cleaner
<1>3. CASE DeleteVersion
  <2>1. DOMAIN versions' = DOMAIN versions \ {cleaner.path}
      BY <1>3 DEF DeleteVersion, Without, Restrict
  <2> QED BY <1>0, <1>3, <2>1 DEF DeleteVersion, CleanerHasVersions, Cleaner
<1>4. CASE ListFiles
    BY <1>0, <1>4, RestingHasVersions DEF ListFiles, CleanerHasVersions, Cleaner
<1>5. CASE DeleteFiles
    BY <1>5, RestingHasVersions DEF DeleteFiles
<1>6. ASSUME NEW p \in Paths, RemoveVersion(p) \/ VersionInUse(p) PROVE CleanerHasVersions'
    BY <1>0, <1>6 DEF RemoveVersion, VersionInUse, CleanerHasVersions, Cleaner
<1>7. ASSUME NEW f \in Files, NextFile(f) PROVE CleanerHasVersions'
  <2>1. {f} \X VersionsOf(f) \subseteq DOMAIN versions
      BY VersionsAre DEF Base
  <2> QED BY <1>0, <1>7, <2>1 DEF NextFile, CleanerHasVersions, Cleaner
<1> QED BY <1>1, <1>2, <1>3, <1>4, <1>5, <1>6, <1>7 DEF CleanUp

LEMMA OnDiskKept ==
    ASSUME Base, OnDisk, CleanerHasVersions', MarksGrow,
           DOMAIN disk' \subseteq DOMAIN disk, DOMAIN versions \subseteq DOMAIN versions',
           \A k \in Jobs : Pending(k) => Pending(k)' /\ job'[k].path = job[k].path,
           cleaner'.path \in DOMAIN disk' => cleaner'.path = cleaner.path
    PROVE  OnDisk'
<1>1. \A x \in {"orphan", "rewritten"} : \A f \in cut[x] : f \in cut'[x]
    BY DEF MarksGrow, Mishaps
<1> QED BY <1>1 DEF OnDisk

LEMMA OnDiskQuiet ==
    ASSUME Base, OnDisk, Quiet, UNCHANGED <<versions, disk, cleaner>> PROVE OnDisk'
<1>1. CleanerHasVersions'
    BY CleanerKept DEF OnDisk
<1> QED BY <1>1, OnDiskKept DEF Quiet, Pending

LEMMA OnDiskStarts ==
    ASSUME Base, OnDisk, NEW j \in Jobs, StartsAlone(j), StartsFresh(j) \/ StartsVersion(j)
    PROVE  OnDisk'
<1>1. /\ UNCHANGED <<versions, disk, cleaner>>
      /\ ~Pending(j)
      /\ \A k \in Jobs : Pending(k) => Pending(k)' /\ job'[k].path = job[k].path
    BY DEF StartsAlone, Pending, Idle
<1>2. CleanerHasVersions'
    BY <1>1, CleanerKept DEF OnDisk
<1>3. \A p \in DOMAIN disk, x \in {"orphan", "rewritten"} : p[1] \in cut[x] => p[1] \in cut'[x]
    BY DEF StartsFresh, StartsVersion, Mishaps
<1> QED BY <1>1, <1>2, <1>3 DEF OnDisk

\* What is written is being stored; where the clean up is about to delete the
\* row, it is marked.
LEMMA OnDiskWrite == ASSUME Base, OnDisk, NEW j \in Jobs, WriteFile(j) PROVE OnDisk'
<1> DEFINE p == job[j].path
<1>1. /\ DOMAIN disk' = DOMAIN disk \cup {p}
      /\ UNCHANGED <<versions, cleaner>>
      /\ cut'["rewritten"] = cut["rewritten"] \cup {q[1] : q \in {p} \cap {cleaner.path}}
  <2>1. UNCHANGED <<versions, cleaner>> /\ DOMAIN disk' = DOMAIN disk \cup {p}
      BY DEF WriteFile, database, With
  <2>2. cut' = [cut EXCEPT !["raced"]     = @ \cup (IF Raced(j) THEN {p[1]} ELSE {}),
                           !["rewritten"] = @ \cup {q[1] : q \in {p} \cap {cleaner.path}}]
      BY DEF WriteFile
  <2> QED BY <2>1, <2>2 DEF Base, Typed, Recorded, Mishaps
<1>2. GoesOn /\ MarksGrow
    BY StoringGoesOn DEF Storing
<1>3. \A k \in Jobs : Pending(k) => Pending(k)' /\ job'[k].path = job[k].path
    BY DEF WriteFile, Pending, Base, Typed, Working, Job
<1>4. Pending(j)
    BY DEF WriteFile, Pending
<1>5. CleanerHasVersions'
    BY <1>1, CleanerKept DEF OnDisk
<1>6. \A x \in {"orphan", "rewritten"} : \A f \in cut[x] : f \in cut'[x]
    BY <1>2 DEF MarksGrow, Mishaps
<1> HIDE DEF p
<1>7. cleaner.path \in DOMAIN disk' => cleaner.path[1] \in cut'["rewritten"]
    BY <1>1, <1>6 DEF OnDisk
<1>8. \A q \in DOMAIN disk' \ DOMAIN versions' :
        \/ q[1] \in cut'["orphan"] \cup cut'["rewritten"]
        \/ \E k \in Jobs : Pending(k)' /\ job'[k].path = q
  <2> SUFFICES ASSUME NEW q \in DOMAIN disk \cup {p}, q \notin DOMAIN versions
               PROVE  \/ q[1] \in cut'["orphan"] \cup cut'["rewritten"]
                      \/ \E k \in Jobs : Pending(k)' /\ job'[k].path = q
      BY <1>1
  <2>1. CASE q = p
      BY <1>3, <1>4, <2>1 DEF p
  <2>2. CASE q \in DOMAIN disk
      BY <1>3, <1>6, <2>2 DEF OnDisk
  <2> QED BY <2>1, <2>2
<1> QED BY <1>1, <1>5, <1>7, <1>8 DEF OnDisk

LEMMA OnDiskStore == ASSUME Base, OnDisk, NEW j \in Jobs, StoreFile(j) PROVE OnDisk'
<1>1. /\ DOMAIN versions' = DOMAIN versions \cup {job[j].path}
      /\ UNCHANGED <<disk, cleaner, cut>>
      /\ \A k \in Jobs \ {j} : job'[k] = job[k]
    BY StoreFileIs
<1>2. CleanerHasVersions'
    BY <1>1, CleanerKept DEF OnDisk
<1>3. \A p \in DOMAIN disk \ DOMAIN versions' :
        \/ p[1] \in cut["orphan"] \cup cut["rewritten"]
        \/ \E k \in Jobs : Pending(k)' /\ job'[k].path = p
    BY <1>1 DEF OnDisk, Pending
<1> QED BY <1>1, <1>2, <1>3 DEF OnDisk

\* A goroutine that fails leaves what it has written, marked.
LEMMA OnDiskFails == ASSUME Base, OnDisk, NEW j \in Jobs, JobFails(j) PROVE OnDisk'
<1>1. /\ UNCHANGED <<versions, disk, cleaner>>
      /\ cut' = Meets("orphan", {p[1] : p \in {job[j].path} \cap (DOMAIN disk \ DOMAIN versions)})
      /\ \A k \in Jobs \ {j} : job'[k] = job[k]
    BY DEF JobFails, database, Base, Typed, Working
<1>2. MarksGrow
    BY StoringGoesOn DEF Storing
<1>3. CleanerHasVersions'
    BY <1>1, CleanerKept DEF OnDisk
<1>4. \A x \in {"orphan", "rewritten"} : \A f \in cut[x] : f \in cut'[x]
    BY <1>2 DEF MarksGrow, Mishaps
<1>5. job[j].path \in DOMAIN disk \ DOMAIN versions => job[j].path[1] \in cut'["orphan"]
    BY <1>1 DEF Meets, Base, Typed, Recorded, Mishaps
<1>6. \A p \in DOMAIN disk \ DOMAIN versions :
        \/ p[1] \in cut'["orphan"] \cup cut'["rewritten"]
        \/ \E k \in Jobs : Pending(k)' /\ job'[k].path = p
    BY <1>1, <1>4, <1>5 DEF OnDisk, Pending
<1> QED BY <1>1, <1>3, <1>4, <1>6 DEF OnDisk

LEMMA OnDiskClean ==
    ASSUME Base, OnDisk, CleanUp \/ \E p \in Paths : VersionInUse(p) PROVE OnDisk'
<1>1. CleanerHasVersions'
    BY CleanerClean DEF OnDisk
<1>2. MarksGrow /\ UNCHANGED job
    BY CleanUpIsQuiet DEF Quiet
<1>3. \A k \in Jobs : Pending(k) => Pending(k)' /\ job'[k].path = job[k].path
    BY <1>2 DEF Pending
<1>0. cleaner \in Cleaner /\ \A p \in DOMAIN disk : p # <<0, 0>>
    BY NoPath DEF Base, Typed, Using, Stored
<1>4. CASE CleanLinks
  <2>1. UNCHANGED <<versions, disk>> /\ cleaner'.path = cleaner.path
      BY <1>0, <1>4 DEF CleanLinks, Cleaner
  <2> QED BY <1>1, <1>2, <1>3, <2>1, OnDiskKept
<1>5. CASE ListVersions
  <2>1. UNCHANGED <<versions, disk>> /\ cleaner'.path = cleaner.path
      BY <1>0, <1>5 DEF ListVersions, Cleaner
  <2> QED BY <1>1, <1>2, <1>3, <2>1, OnDiskKept
<1>6. CASE DeleteVersion
  <2>1. /\ DOMAIN versions' = DOMAIN versions \ {cleaner.path}
        /\ UNCHANGED <<disk, cut>> /\ cleaner'.path = <<0, 0>>
      BY <1>0, <1>6 DEF DeleteVersion, Without, Restrict, Cleaner
  <2>2. \A p \in DOMAIN disk \ DOMAIN versions' :
          \/ p[1] \in cut["orphan"] \cup cut["rewritten"]
          \/ \E k \in Jobs : Pending(k)' /\ job'[k].path = p
      BY <1>3, <2>1 DEF OnDisk
  <2> QED BY <1>0, <1>1, <2>1, <2>2 DEF OnDisk
<1>7. CASE ListFiles
  <2>1. UNCHANGED <<versions, disk>> /\ (cleaner'.path = cleaner.path \/ cleaner'.path = <<0, 0>>)
      BY <1>0, <1>7 DEF ListFiles, Resting, Cleaner
  <2> QED BY <1>0, <1>1, <1>2, <1>3, <2>1, OnDiskKept
<1>8. CASE DeleteFiles
  <2>1. UNCHANGED disk /\ cleaner'.path = <<0, 0>>
      BY <1>8 DEF DeleteFiles, Resting
  <2>2. {p \in DOMAIN versions : p[1] \in Stale} = {}
    <3>1. \A p \in DOMAIN versions : p[2] \in VersionsOf(p[1])
        BY DEF VersionsOf
    <3> QED BY <3>1 DEF Stale
  <2>3. versions' = Without(versions, {p \in DOMAIN versions : p[1] \in Stale})
      BY <1>8 DEF DeleteFiles
  <2>4. DOMAIN versions' = DOMAIN versions
      BY <2>2, <2>3 DEF Without, Restrict
  <2> QED BY <1>0, <1>1, <1>2, <1>3, <2>1, <2>4, OnDiskKept
<1>9. ASSUME NEW p \in Paths, RemoveVersion(p) PROVE OnDisk'
  <2>1. /\ UNCHANGED versions /\ DOMAIN disk' = DOMAIN disk \ {p}
        /\ cleaner'.path = p \/ cleaner'.path = cleaner.path
      BY <1>0, <1>9 DEF RemoveVersion, Without, Restrict, Cleaner
  <2> QED BY <1>1, <1>2, <1>3, <2>1, OnDiskKept
<1>10. ASSUME NEW p \in Paths, VersionInUse(p) PROVE OnDisk'
  <2>1. UNCHANGED <<versions, disk>> /\ cleaner'.path = cleaner.path
      BY <1>0, <1>10 DEF VersionInUse, Cleaner
  <2> QED BY <1>1, <1>2, <1>3, <2>1, OnDiskKept
<1>11. ASSUME NEW f \in Files, NextFile(f) PROVE OnDisk'
  <2>1. UNCHANGED <<versions, disk>> /\ cleaner'.path = cleaner.path
      BY <1>0, <1>11 DEF NextFile, Cleaner
  <2> QED BY <1>1, <1>2, <1>3, <2>1, OnDiskKept
<1> QED BY <1>4, <1>5, <1>6, <1>7, <1>8, <1>9, <1>10, <1>11 DEF CleanUp

LEMMA OnDiskCrash == ASSUME Base, OnDisk, Crash PROVE OnDisk'
<1>1. /\ UNCHANGED <<versions, disk>> /\ cleaner' = Resting
      /\ \A p \in DOMAIN disk \ DOMAIN versions : p[1] \in cut'["orphan"]
    BY DEF Crash, database, Base, Typed, Recorded, Mishaps
<1>2. cleaner'.path \notin DOMAIN disk
    BY <1>1, NoPath DEF Resting, Base, Typed, Stored
<1> QED BY <1>1, <1>2, RestingHasVersions DEF OnDisk

LEMMA OnDiskStep == Base /\ OnDisk /\ [Next]_vars => OnDisk'
<1> SUFFICES ASSUME Base, OnDisk, [Next]_vars PROVE OnDisk'
    OBVIOUS
<1>0. Uploaders \subseteq Jobs /\ Attachers \subseteq Jobs
    BY DEF Jobs
<1>1. CASE \E j \in Uploaders : UploadNew(j) \/ \E f \in Files : UploadVersion(j, f) \/ Paste(j, f)
    BY <1>0, <1>1, UploadNewIs, UploadVersionIs, PasteIs, OnDiskStarts
<1>2. CASE Attaching
    BY <1>0, <1>2, AttachIs, OnDiskStarts DEF Attaching
<1>3. ASSUME NEW j \in Jobs, Storing(j) PROVE OnDisk'
  <2>1. CASE HashFile(j) \/ UploadDone(j)
    <3>1. UNCHANGED <<versions, disk, cleaner>>
        BY <2>1 DEF HashFile, UploadDone, database, history
    <3>2. \A k \in Jobs : Pending(k) => Pending(k)' /\ job'[k].path = job[k].path
      <4>1. \A k \in Jobs \ {j} : job'[k] = job[k]
          BY <2>1 DEF HashFile, UploadDone, Base, Typed, Working
      <4>2. HashFile(j) => job'[j].step = "store" /\ job'[j].path = job[j].path
          BY DEF HashFile, Base, Typed, Working, Job
      <4>3. UploadDone(j) => job[j].step = "answer"
          BY DEF UploadDone
      <4> QED BY <2>1, <4>1, <4>2, <4>3 DEF Pending
    <3>3. CleanerHasVersions'
        BY <3>1, CleanerKept DEF OnDisk
    <3> QED BY <1>3, <3>1, <3>2, <3>3, StoringGoesOn, OnDiskKept
  <2> QED BY <1>3, <2>1, OnDiskWrite, OnDiskStore, OnDiskFails DEF Storing
<1>4. CASE \/ \E r \in Records : DelRecord(r) \/ \E m \in Mails : MailArrives(m, r)
           \/ \E l \in DOMAIN links : FileRestore(l)
           \/ DropAttribute
  <2>1. UNCHANGED <<versions, disk, cleaner>>
      BY <1>4 DEF DelRecord, MailArrives, FileRestore, DropAttribute, Elsewhere
  <2> QED BY <1>4, <2>1, OthersAreQuiet, OnDiskQuiet
<1>5. CASE \/ \E r \in Records : OpenRecord(r)
           \/ \E f \in Files : RemoveFile(f)
           \/ Save \/ Request
  <2>1. UNCHANGED <<versions, disk, cleaner>>
      BY <1>5 DEF OpenRecord, RemoveFile, Save, Request, SetRecord, SetFails, PageStep, database
  <2> QED BY <1>5, <2>1, InputIsQuiet, OnDiskQuiet
<1>6. CASE CleanUp \/ \E p \in Paths : VersionInUse(p)
    BY <1>6, OnDiskClean
<1>7. CASE Crash
    BY <1>7, OnDiskCrash
<1>8. CASE UNCHANGED vars
    BY <1>8 DEF OnDisk, CleanerHasVersions, Pending, vars, database, history
<1> QED BY <1>1, <1>2, <1>3, <1>4, <1>5, <1>6, <1>7, <1>8 DEF Next

LEMMA OnDiskHolds == Spec => []OnDisk
<1>1. Init => OnDisk
    BY DEF Init, OnDisk, CleanerHasVersions, Resting
<1> QED BY <1>1, OnDiskStep, BaseHolds, PTL DEF Spec

\* Nothing stays on disk that the database does not know, other than what uploads
\* that failed left, or wrote in the middle of the clean up of that version.
THEOREM NothingUnknownIsStored == Spec => []StoredIsKnown
<1>1. OnDisk => StoredIsKnown
    BY DEF OnDisk, Pending, StoredIsKnown
<1> QED BY <1>1, OnDiskHolds, PTL

-----------------------------------------------------------------------------
(* Records keep their files *)

LEMMA ExemptGrows == MarksGrow => \A f \in Exempt : f \in Exempt'
BY DEF MarksGrow, Mishaps, Exempt

\* The latest version depends on nothing but the rows of versions of the file.
LEMMA LatestSame ==
    ASSUME NEW f, \A v : <<f, v>> \in DOMAIN versions' <=> <<f, v>> \in DOMAIN versions,
           Typed, Typed'
    PROVE  VersionsOf(f)' = VersionsOf(f) /\ Latest(f)' = Latest(f)
<1>1. \A v : v \in VersionsOf(f) <=> <<f, v>> \in DOMAIN versions
    BY VersionsAre
<1>2. \A v : v \in VersionsOf(f)' <=> <<f, v>> \in DOMAIN versions'
  <2>1. \A p \in DOMAIN versions' : p = <<p[1], p[2]>>
      BY DEF Typed, Rows
  <2> QED BY <2>1 DEF VersionsOf
<1>3. VersionsOf(f)' = VersionsOf(f)
    BY <1>1, <1>2
<1> QED BY <1>3 DEF Latest

LEMMA LatestUnchanged ==
    ASSUME UNCHANGED versions, NEW f
    PROVE  VersionsOf(f)' = VersionsOf(f) /\ Latest(f)' = Latest(f)
BY DEF VersionsOf, Latest

\* What others do to records, links and the input makes no difference.
LEMMA KeptQuiet ==
    ASSUME Base, Kept, Quiet, UNCHANGED <<versions, disk, cleaner>>, DOMAIN refCounter' = Known
    PROVE  Kept'
<1>1. CleanerHasVersions'
    BY CleanerKept DEF Kept
<1>2. \A f \in Exempt : f \in Exempt'
    BY ExemptGrows DEF Quiet
<1>3. \A f : VersionsOf(f)' = VersionsOf(f) /\ Latest(f)' = Latest(f)
    BY LatestUnchanged
<1>4. KnownAreGood'
    BY <1>2, <1>3 DEF Kept, KnownAreGood, Good, Known
<1>5. WrittenAreGood'
    BY <1>2 DEF Kept, WrittenAreGood, Quiet
<1>6. CleansOutdated'
  <2>1. \A f \in cut["listed"] : f \in cut'["listed"]
      BY DEF Quiet, MarksGrow, Mishaps
  <2> QED BY <1>2, <1>3, <2>1 DEF Kept, CleansOutdated
<1> QED BY <1>1, <1>4, <1>5, <1>6 DEF Kept

\* Goroutines that end, or have ended, make no difference to the others.
LEMMA WrittenKept ==
    ASSUME WrittenAreGood, UNCHANGED <<versions, disk>>, MarksGrow,
           \A k \in Jobs : job'[k].step \in {"hash", "store"} => job'[k] = job[k]
    PROVE  WrittenAreGood'
<1>1. \A f \in Exempt : f \in Exempt'
    BY ExemptGrows
<1> QED BY <1>1 DEF WrittenAreGood

LEMMA KeptEnds ==
    ASSUME Base, Kept, NEW j \in Jobs, JobFails(j) \/ UploadDone(j) PROVE Kept'
<1>1. /\ UNCHANGED <<refCounter, versions, disk, cleaner>> /\ job' = [job EXCEPT ![j] = Idle]
    BY DEF JobFails, UploadDone, database
<1>2. MarksGrow
    BY StoringGoesOn DEF Storing
<1>3. CleanerHasVersions'
    BY <1>1, CleanerKept DEF Kept
<1>4. \A f : VersionsOf(f)' = VersionsOf(f) /\ Latest(f)' = Latest(f)
    BY <1>1, LatestUnchanged
<1>5. \A f \in Exempt : f \in Exempt'
    BY <1>2, ExemptGrows
<1>6. KnownAreGood'
    BY <1>1, <1>4, <1>5 DEF Kept, KnownAreGood, Good, Known
<1>7. WrittenAreGood'
  <2>1. \A k \in Jobs : job'[k].step \in {"hash", "store"} => job'[k] = job[k]
      BY <1>1 DEF Idle, Base, Typed, Working
  <2> QED BY <1>1, <1>2, <2>1, WrittenKept DEF Kept
<1>8. CleansOutdated'
  <2>1. \A f \in cut["listed"] : f \in cut'["listed"]
      BY <1>2 DEF MarksGrow, Mishaps
  <2> QED BY <1>1, <1>4, <1>5, <2>1 DEF Kept, CleansOutdated
<1> QED BY <1>3, <1>6, <1>7, <1>8 DEF Kept

\* A file that nothing else has takes no mark from a file that is known.
LEMMA KeptStarts ==
    ASSUME Base, Kept, NEW j \in Jobs, StartsAlone(j), StartsFresh(j) \/ StartsVersion(j)
    PROVE  Kept'
<1>1. /\ UNCHANGED <<refCounter, versions, disk, cleaner>> /\ \A k \in Jobs \ {j} : job'[k] = job[k]
      /\ job'[j].step = "write"
    BY DEF StartsAlone, StartsFresh, StartsVersion
<1>2. CleanerHasVersions'
    BY <1>1, CleanerKept DEF Kept
<1>3. \A f : VersionsOf(f)' = VersionsOf(f) /\ Latest(f)' = Latest(f)
    BY <1>1, LatestUnchanged
<1> DEFINE new == job'[j].path[1]
           gone == IF StartsFresh(j) THEN {new} ELSE {}
<1>4. /\ \A f \in Exempt \ gone : f \in Exempt'
      /\ \A f \in cut["listed"] \ gone : f \in cut'["listed"]
    BY DEF StartsFresh, StartsVersion, Exempt, Mishaps
<1>5. \A f \in gone : /\ f \notin Known /\ f \notin cleaner.listed
                      /\ \A k \in Jobs : job[k].path[1] # f
    BY DEF StartsFresh
<1> HIDE DEF gone, new
<1>6. KnownAreGood'
    BY <1>1, <1>3, <1>4, <1>5 DEF Kept, KnownAreGood, Good, Known
<1>7. WrittenAreGood'
    BY <1>1, <1>4, <1>5 DEF Kept, WrittenAreGood
<1>8. CleansOutdated'
  <2>1. \A p \in cleaner.paths : p[1] \in Known
      BY DEF Kept, CleanerHasVersions, Base, Typed, Rows
  <2> QED BY <1>1, <1>3, <1>4, <1>5, <2>1 DEF Kept, CleansOutdated
<1> QED BY <1>2, <1>6, <1>7, <1>8 DEF Kept

\* Who writes what another one writes, or what is stored, marks the file.
LEMMA KeptWrite == ASSUME Base, Kept, NEW j \in Jobs, WriteFile(j) PROVE Kept'
<1> DEFINE p == job[j].path
           content == IF job[j].op = "copy" THEN disk[job[j].source] ELSE j
<1>1. /\ UNCHANGED <<refCounter, versions, cleaner>>
      /\ disk' = With(disk, p, content)
    BY DEF WriteFile, database
<1>2. /\ \A k \in Jobs \ {j} : job'[k] = job[k]
      /\ job'[j].path = p /\ job'[j].hash = job[j].hash
      /\ job'[j].step = (IF job[j].op = "copy" THEN "store" ELSE "hash")
    BY DEF WriteFile, Base, Typed, Working, Job
<1>3. MarksGrow
    BY StoringGoesOn DEF Storing
<1>4. Raced(j) => p[1] \in Exempt'
  <2>1. cut' = [cut EXCEPT !["raced"]     = @ \cup (IF Raced(j) THEN {p[1]} ELSE {}),
                           !["rewritten"] = @ \cup {q[1] : q \in {p} \cap {cleaner.path}}]
      BY DEF WriteFile
  <2>2. DOMAIN cut = Mishaps
      BY DEF Base, Typed, Recorded
  <2> QED BY <2>1, <2>2 DEF Exempt, Mishaps
<1>5. /\ DOMAIN disk' = DOMAIN disk \cup {p} /\ disk'[p] = content
      /\ \A q \in DOMAIN disk \ {p} : disk'[q] = disk[q]
    BY <1>1 DEF With
<1>6. CleanerHasVersions'
    BY <1>1, CleanerKept DEF Kept
<1>7. \A f : VersionsOf(f)' = VersionsOf(f) /\ Latest(f)' = Latest(f)
    BY <1>1, LatestUnchanged
<1>8. \A f \in Exempt : f \in Exempt'
    BY <1>3, ExemptGrows
<1>9. p[1] \notin Exempt' =>
        /\ p \notin DOMAIN versions /\ \A k \in Jobs \ {j} : job[k].path # p
        /\ job[j].op = "copy" => content = job[j].hash
    BY <1>4 DEF Raced, SamePath
<1> HIDE DEF p, content
<1>10. KnownAreGood'
  <2> SUFFICES ASSUME NEW f \in Known, f \notin Exempt' PROVE Good(f)'
      BY <1>1 DEF KnownAreGood, Known
  <2>1. Good(f)
      BY <1>8 DEF Kept, KnownAreGood
  <2>2. Latest(f) \in DOMAIN versions /\ Latest(f)[1] = f
      BY <2>1, LatestIs DEF Good, Base, Typed, Rows
  <2>3. Latest(f) # p
      BY <1>9, <2>2
  <2> QED BY <1>1, <1>5, <1>7, <2>1, <2>3 DEF Good
<1>11. WrittenAreGood'
  <2> SUFFICES ASSUME NEW k \in Jobs, job'[k].step \in {"hash", "store"}, job'[k].path[1] \notin Exempt'
               PROVE  /\ job'[k].path \in DOMAIN disk' \ DOMAIN versions
                      /\ job'[k].step = "store" => disk'[job'[k].path] = job'[k].hash
                      /\ \A i \in Jobs \ {k} : job'[i].step \in {"hash", "store"} =>
                            job'[i].path # job'[k].path
      BY <1>1 DEF WrittenAreGood
  <2>1. CASE k = j
      BY <1>1, <1>2, <1>5, <1>9, <2>1
  <2>2. CASE k # j
    <3>1. job'[k] = job[k] /\ job[k].path[1] \notin Exempt
        BY <1>2, <1>8, <2>2
    <3>2. job[k].path # p
        BY <1>9, <2>2, <3>1
    <3>3. /\ job[k].path \in DOMAIN disk \ DOMAIN versions
          /\ job[k].step = "store" => disk[job[k].path] = job[k].hash
          /\ \A i \in Jobs \ {k} : job[i].step \in {"hash", "store"} => job[i].path # job[k].path
        BY <3>1 DEF Kept, WrittenAreGood
    <3> QED BY <1>1, <1>2, <1>5, <3>1, <3>2, <3>3
  <2> QED BY <2>1, <2>2
<1>12. CleansOutdated'
  <2>1. \A f \in cut["listed"] : f \in cut'["listed"]
      BY <1>3 DEF MarksGrow, Mishaps
  <2> QED BY <1>1, <1>7, <1>8, <2>1 DEF Kept, CleansOutdated
<1> QED BY <1>6, <1>10, <1>11, <1>12 DEF Kept

\* The hash is that of what the goroutine wrote itself.
LEMMA KeptHash == ASSUME Base, Kept, NEW j \in Jobs, HashFile(j) PROVE Kept'
<1>1. /\ UNCHANGED <<refCounter, versions, disk, cleaner, cut>> /\ job[j].step = "hash"
    BY DEF HashFile, database, history
<1>2. /\ \A k \in Jobs \ {j} : job'[k] = job[k]
      /\ job'[j].path = job[j].path /\ job'[j].hash = disk[job[j].path]
      /\ job'[j].step = "store"
    BY DEF HashFile, Base, Typed, Working, Job
<1>3. CleanerHasVersions'
    BY <1>1, CleanerKept DEF Kept
<1>4. \A f : VersionsOf(f)' = VersionsOf(f) /\ Latest(f)' = Latest(f)
    BY <1>1, LatestUnchanged
<1>5. Exempt' = Exempt
    BY <1>1 DEF Exempt
<1>6. KnownAreGood'
    BY <1>1, <1>4, <1>5 DEF Kept, KnownAreGood, Good, Known
<1>7. WrittenAreGood'
    BY <1>1, <1>2, <1>5 DEF Kept, WrittenAreGood
<1>8. CleansOutdated'
    BY <1>1, <1>4, <1>5 DEF Kept, CleansOutdated
<1> QED BY <1>3, <1>6, <1>7, <1>8 DEF Kept

\* What is stored is on disk: it becomes the latest version, or the latest stays.
LEMMA KeptStore == ASSUME Base, Kept, NEW j \in Jobs, StoreFile(j) PROVE Kept'
<1> DEFINE p == job[j].path
<1>0. PICK f \in Files : f = FileOf(j)
    BY StoreFileIs
<1>1. /\ p = <<f, p[2]>> /\ p[2] \in 0 .. MaxVersion
      /\ DOMAIN versions' = DOMAIN versions \cup {p}
      /\ versions'[p] = job[j].hash /\ \A q \in DOMAIN versions \ {p} : versions'[q] = versions[q]
      /\ DOMAIN refCounter' = Known \cup {f}
      /\ UNCHANGED <<disk, cleaner, cut>>
      /\ \A k \in Jobs \ {j} : job'[k] = job[k]
    BY <1>0, StoreFileIs
<1>2. job[j].step = "store" /\ job'[j].step \notin {"hash", "store"}
  <2>1. job'[j] = Idle \/ job'[j].step = "answer"
      BY StoreFileIs
  <2> QED BY <2>1 DEF StoreFile, Idle
<1>3. Typed /\ Typed'
    BY BaseStore DEF Base
<1>4. Exempt' = Exempt
    BY <1>1 DEF Exempt
<1>5. CleanerHasVersions'
    BY <1>1, CleanerKept DEF Kept
<1>6. f \notin Exempt =>
        /\ p \in DOMAIN disk \ DOMAIN versions /\ disk[p] = job[j].hash
        /\ \A k \in Jobs \ {j} : job[k].step \in {"hash", "store"} => job[k].path # p
    BY <1>0, <1>2 DEF Kept, WrittenAreGood, FileOf
<1> HIDE DEF p
<1>7. ASSUME NEW g \in Files, g # f
      PROVE  VersionsOf(g)' = VersionsOf(g) /\ Latest(g)' = Latest(g)
    BY <1>1, <1>3, <1>7, LatestSame
<1>8. VersionsOf(f)' = VersionsOf(f) \cup {p[2]}
    BY <1>1 DEF VersionsOf
<1>9. VersionsOf(f) \in SUBSET (0 .. MaxVersion) /\ VersionsOf(f)' \in SUBSET (0 .. MaxVersion)
    BY <1>1, <1>3, <1>8, VersionsAre
<1>10. /\ Max(VersionsOf(f)') \in VersionsOf(f)' /\ \A v \in VersionsOf(f)' : v <= Max(VersionsOf(f)')
       /\ Latest(f)' = <<f, Max(VersionsOf(f)')>>
    BY <1>8, <1>9, MaxIs DEF Latest
<1>11. KnownAreGood'
  <2> SUFFICES ASSUME NEW g \in Known', g \notin Exempt PROVE Good(g)'
      BY <1>4 DEF KnownAreGood
  <2>1. CASE g # f
    <3>1. g \in Known /\ g \in Files
        BY <1>1, <1>3, <2>1 DEF Known, Typed, Rows
    <3>2. Good(g) /\ Latest(g) \in DOMAIN versions /\ Latest(g)[1] = g
        BY <1>3, <3>1, LatestIs DEF Kept, KnownAreGood, Good
    <3>3. Latest(g) # p
        BY <1>1, <2>1, <3>2
    <3> QED BY <1>1, <1>7, <2>1, <3>1, <3>2, <3>3 DEF Good
  <2>2. CASE g = f
    <3>1. CASE Max(VersionsOf(f)') = p[2]
      <4>1. Latest(f)' = p
          BY <1>1, <1>10, <3>1
      <4> QED BY <1>1, <1>6, <1>8, <2>2, <4>1 DEF Good
    <3>2. CASE Max(VersionsOf(f)') \in VersionsOf(f)
      <4> DEFINE m == Max(VersionsOf(f)')
      <4>1. \A v \in VersionsOf(f) : v <= m
          BY <1>8, <1>10
      <4> HIDE DEF m
      <4>2. Max(VersionsOf(f)) = m
        <5>1. m \in VersionsOf(f)
            BY <3>2 DEF m
        <5> QED BY <1>9, <4>1, <5>1, MaxOnly
      <4>3. Latest(f)' = Latest(f)
          BY <1>10, <4>2 DEF m, Latest
      <4>4. Latest(f) \in DOMAIN versions /\ f \in Known
          BY <1>3, <3>2, LatestIs DEF Typed, Rows
      <4>5. Good(f)
          BY <2>2, <4>4 DEF Kept, KnownAreGood
      <4>6. Latest(f) # p
          BY <1>6, <2>2, <4>4
      <4> QED BY <1>1, <1>8, <2>2, <4>3, <4>4, <4>5, <4>6 DEF Good
    <3> QED BY <1>8, <1>10, <3>1, <3>2
  <2> QED BY <2>1, <2>2
<1>12. WrittenAreGood'
  <2> SUFFICES ASSUME NEW k \in Jobs, job'[k].step \in {"hash", "store"}, job'[k].path[1] \notin Exempt
               PROVE  /\ job'[k].path \in DOMAIN disk \ DOMAIN versions'
                      /\ job'[k].step = "store" => disk[job'[k].path] = job'[k].hash
                      /\ \A i \in Jobs \ {k} : job'[i].step \in {"hash", "store"} =>
                            job'[i].path # job'[k].path
      BY <1>1, <1>4 DEF WrittenAreGood
  <2>1. k # j /\ job'[k] = job[k]
      BY <1>1, <1>2
  <2>2. /\ job[k].path \in DOMAIN disk \ DOMAIN versions
        /\ job[k].step = "store" => disk[job[k].path] = job[k].hash
        /\ \A i \in Jobs \ {k} : job[i].step \in {"hash", "store"} => job[i].path # job[k].path
      BY <2>1 DEF Kept, WrittenAreGood
  <2>3. job[k].path # p
      BY <1>2, <2>1, <2>2 DEF p
  <2> QED BY <1>1, <1>2, <2>1, <2>2, <2>3
<1>13. CleansOutdated'
  <2>1. ASSUME cleaner.step = "old", NEW q \in cleaner.paths, q[1] \notin Exempt
        PROVE  q[2] < Latest(q[1])'[2]
    <3>1. q[2] < Latest(q[1])[2] /\ q \in DOMAIN versions /\ q[1] \in Files
        BY <1>3, <2>1 DEF Kept, CleansOutdated, CleanerHasVersions, Typed, Rows
    <3>2. CASE q[1] # f
        BY <1>7, <3>1, <3>2
    <3>3. CASE q[1] = f
      <4>1. q[2] \in VersionsOf(f)
          BY <3>1, <3>3 DEF VersionsOf
      <4>2. Latest(f)[2] \in VersionsOf(f)
        <5>1. Max(VersionsOf(f)) \in VersionsOf(f)
            BY <1>9, <4>1, MaxIs
        <5> QED BY <5>1 DEF Latest
      <4>3. Latest(f)[2] <= Max(VersionsOf(f)') /\ Latest(f)'[2] = Max(VersionsOf(f)')
          BY <1>8, <1>10, <4>2
      <4>4. q[2] \in Int /\ Latest(f)[2] \in Int /\ Max(VersionsOf(f)') \in Int
          BY <1>8, <1>9, <1>10, <4>1, <4>2
      <4> QED BY <3>1, <3>3, <4>3, <4>4
    <3> QED BY <3>2, <3>3
  <2> QED BY <1>1, <1>4, <2>1 DEF Kept, CleansOutdated
<1> QED BY <1>5, <1>11, <1>12, <1>13 DEF Kept

\* Steps that change neither rows of versions nor the disk.
LEMMA KeptPlan ==
    ASSUME Base, Kept, UNCHANGED <<versions, disk>>, MarksGrow, CleanerHasVersions', CleansOutdated',
           DOMAIN refCounter' \subseteq Known,
           \A k \in Jobs : job'[k].step \in {"hash", "store"} => job'[k] = job[k]
    PROVE  Kept'
<1>1. \A f \in Exempt : f \in Exempt'
    BY ExemptGrows
<1>2. \A f : VersionsOf(f)' = VersionsOf(f) /\ Latest(f)' = Latest(f)
    BY LatestUnchanged
<1>3. KnownAreGood'
    BY <1>1, <1>2 DEF Kept, KnownAreGood, Good, Known
<1>4. WrittenAreGood'
    BY WrittenKept DEF Kept
<1> QED BY <1>3, <1>4 DEF Kept

LEMMA KeptResting ==
    ASSUME Base, Kept, UNCHANGED <<versions, disk>>, MarksGrow, cleaner' = Resting,
           DOMAIN refCounter' \subseteq Known,
           \A k \in Jobs : job'[k].step \in {"hash", "store"} => job'[k] = job[k]
    PROVE  Kept'
<1>1. CleansOutdated'
    BY DEF CleansOutdated, Resting
<1> QED BY <1>1, RestingHasVersions, KeptPlan

\* Only versions that are not the latest are listed as old.
LEMMA KeptListVersions == ASSUME Base, Kept, ListVersions PROVE Kept'
<1>1. PICK old \in SUBSET Outdated :
            /\ cleaner' = [cleaner EXCEPT !.step = "old", !.paths = old]
            /\ \A p \in old, q \in DOMAIN versions : p # Latest(q[1])
    BY ListsOutdated, Zenon
<1>2. UNCHANGED <<refCounter, versions, disk, cut, job>> /\ cleaner.step = "list"
    BY DEF ListVersions, Cleans
<1>3. /\ cleaner'.step = "old" /\ cleaner'.paths = old
      /\ cleaner'.listed = cleaner.listed /\ cleaner'.files = cleaner.files
    BY <1>1 DEF Base, Typed, Using, Cleaner
<1>4. Outdated \subseteq DOMAIN versions
    BY DEF Outdated
<1> HIDE DEF Outdated
<1>5. ASSUME NEW p \in old PROVE p[2] < Latest(p[1])'[2]
  <2>1. p \in DOMAIN versions /\ p[1] \in Files /\ p[2] \in VersionsOf(p[1]) /\ p[2] \in 0 .. MaxVersion
        /\ p = <<p[1], p[2]>>
      BY <1>4, <1>5 DEF VersionsOf, Base, Typed, Rows
  <2>2. /\ p[2] <= Latest(p[1])[2] /\ Latest(p[1]) = <<p[1], Latest(p[1])[2]>>
        /\ Latest(p[1])[2] \in 0 .. MaxVersion
      BY <2>1, LatestIs DEF Latest, Base
  <2>3. p # Latest(p[1])
      BY <1>1, <1>5, <2>1
  <2>4. p[2] # Latest(p[1])[2]
      BY <2>1, <2>2, <2>3
  <2> QED BY <1>2, <2>1, <2>2, <2>4, LatestUnchanged
<1>6. CleansOutdated'
    BY <1>2, <1>3, <1>5 DEF Kept, CleansOutdated
<1>7. CleanerHasVersions' /\ MarksGrow
    BY <1>2, CleanerClean DEF Kept, CleanUp, MarksGrow
<1> QED BY <1>2, <1>6, <1>7, KeptPlan DEF Known

\* Files without references are listed, and marked: the trigger has counted them.
LEMMA KeptListFiles == ASSUME Base, Kept, ListFiles PROVE Kept'
<1>1. /\ UNCHANGED <<refCounter, versions, disk, job>> /\ cleaner.step = "old" /\ cleaner.paths = {}
      /\ cut' = Meets("listed", {f \in Unused : LinksOf(f) = {}})
    BY DEF ListFiles, Cleans
<1>2. MarksGrow /\ CleanerHasVersions'
    BY CleanUpIsQuiet, CleanerClean DEF CleanUp, Kept, Quiet
<1>3. CASE Unused = {}
  <2>1. cleaner' = Resting
      BY <1>3 DEF ListFiles
  <2> QED BY <1>1, <1>2, <2>1, KeptResting DEF Known
<1>4. CASE Unused # {}
  <2>1. /\ cleaner'.step = "unused" /\ cleaner'.listed = Unused /\ cleaner'.files = Unused
        /\ cleaner'.paths = {}
      BY <1>1, <1>4 DEF ListFiles, Base, Typed, Using, Cleaner
  <2>2. ASSUME NEW f \in Unused PROVE LinksOf(f) = {}
    <3>1. f \in Known /\ refCounter[f] = 0
        BY <2>2 DEF Unused
    <3>2. IsFiniteSet(LinksOf(f))
      <4>1. LinksOf(f) \in SUBSET DOMAIN links
          BY DEF LinksOf
      <4> QED BY <4>1, LinksFinite, FS_Subset DEF Base
    <3>3. attribute => LinksOf(f) = {}
        BY <3>1, <3>2, FS_EmptySet DEF Base, Counted
    <3>4. ~attribute => LinksOf(f) = {}
        BY DEF Base, Counted, LinksOf
    <3> QED BY <3>3, <3>4
  <2>3. \A f \in Unused : f \in cut'["listed"]
      BY <1>1, <2>2 DEF Meets, Base, Typed, Recorded, Mishaps
  <2>4. CleansOutdated'
      BY <2>1, <2>3 DEF CleansOutdated
  <2> QED BY <1>1, <1>2, <2>4, KeptPlan DEF Known
<1> QED BY <1>3, <1>4

LEMMA KeptNextFile == ASSUME Base, Kept, NEW f \in Files, NextFile(f) PROVE Kept'
<1>1. UNCHANGED <<refCounter, versions, disk, job, cut>> /\ cleaner.step = "unused" /\ f \in cleaner.files
    BY DEF NextFile, Cleans
<1>2. /\ cleaner'.step = "unused" /\ cleaner'.listed = cleaner.listed
      /\ cleaner'.files \subseteq cleaner.files /\ cleaner'.paths = {f} \X VersionsOf(f)
    BY <1>1 DEF NextFile, Base, Typed, Using, Cleaner
<1>3. CleanerHasVersions' /\ MarksGrow
    BY <1>1, CleanerClean DEF Kept, CleanUp, MarksGrow
<1>4. CleansOutdated'
    BY <1>1, <1>2 DEF Kept, CleansOutdated
<1> QED BY <1>1, <1>3, <1>4, KeptPlan DEF Known

\* The clean up goes on with fewer paths.
LEMMA CleansFewer ==
    ASSUME CleansOutdated, UNCHANGED cut, cleaner'.step = cleaner.step,
           cleaner'.listed = cleaner.listed, cleaner'.files = cleaner.files,
           cleaner'.paths \subseteq cleaner.paths,
           \A p \in cleaner'.paths : p[1] \notin Exempt => Latest(p[1])' = Latest(p[1])
    PROVE  CleansOutdated'
<1>1. Exempt' = Exempt
    BY DEF Exempt
<1> QED BY <1>1 DEF CleansOutdated

\* What it takes from the disk is not the latest version of a file that was
\* not listed, and was not written by an upload that is still to be stored.
LEMMA KeptRemove ==
    ASSUME Base, Kept, NEW p \in Paths, RemoveVersion(p) \/ VersionInUse(p) PROVE Kept'
<1>1. /\ UNCHANGED <<refCounter, versions, job, cut>> /\ p \in cleaner.paths
      /\ cleaner.step \in {"old", "unused"}
      /\ cleaner'.step = cleaner.step /\ cleaner'.paths \subseteq cleaner.paths
      /\ cleaner'.listed = cleaner.listed /\ cleaner'.files = cleaner.files
    BY DEF RemoveVersion, VersionInUse, Cleans, Base, Typed, Using, Cleaner
<1>2. /\ DOMAIN disk \ {p} \subseteq DOMAIN disk'
      /\ \A q \in DOMAIN disk \ {p} : disk'[q] = disk[q]
    BY DEF RemoveVersion, VersionInUse, Without, Restrict
<1>3. CleanerHasVersions'
    BY CleanerClean DEF Kept, CleanUp
<1>4. \A f : VersionsOf(f)' = VersionsOf(f) /\ Latest(f)' = Latest(f)
    BY <1>1, LatestUnchanged
<1>5. p[1] \in Exempt \/ (cleaner.step = "old" /\ p[2] < Latest(p[1])[2])
    BY <1>1 DEF Kept, CleansOutdated, Exempt
<1>6. Exempt' = Exempt
    BY <1>1 DEF Exempt
<1>7. KnownAreGood'
  <2> SUFFICES ASSUME NEW f \in Known, f \notin Exempt PROVE Good(f)'
      BY <1>1, <1>6 DEF KnownAreGood, Known
  <2>1. Good(f) /\ f \in Files
      BY DEF Kept, KnownAreGood, Base, Typed, Rows
  <2>2. Latest(f)[1] = f /\ Latest(f)[2] \in 0 .. MaxVersion
      BY <2>1, LatestIs DEF Good, Base
  <2>3. Latest(f) # p
      BY <1>5, <2>2
  <2> QED BY <1>1, <1>2, <1>4, <2>1, <2>3 DEF Good
<1>8. p \in DOMAIN versions
    BY <1>1 DEF Kept, CleanerHasVersions
<1>9. WrittenAreGood'
    BY <1>1, <1>2, <1>6, <1>8 DEF Kept, WrittenAreGood
<1>10. CleansOutdated'
    BY <1>1, <1>4, CleansFewer DEF Kept
<1> QED BY <1>3, <1>7, <1>9, <1>10 DEF Kept

LEMMA KeptDeleteVersion == ASSUME Base, Kept, DeleteVersion PROVE Kept'
<1> DEFINE p == cleaner.path
<1>1. /\ UNCHANGED <<refCounter, disk, job, cut>> /\ p \in cleaner.paths
      /\ cleaner'.step = cleaner.step /\ cleaner'.paths = cleaner.paths \ {p}
      /\ cleaner'.listed = cleaner.listed /\ cleaner'.files = cleaner.files
    BY DEF DeleteVersion, Cleans, Base, Typed, Using, Cleaner, Kept, CleanerHasVersions
<1>2. /\ DOMAIN versions' = DOMAIN versions \ {p}
      /\ \A q \in DOMAIN versions \ {p} : versions'[q] = versions[q]
    BY DEF DeleteVersion, Without, Restrict
<1>3. CleanerHasVersions'
    BY CleanerClean DEF Kept, CleanUp
<1>4. p \in DOMAIN versions /\ p[1] \in Files /\ p = <<p[1], p[2]>> /\ p[2] \in 0 .. MaxVersion
    BY <1>1 DEF Kept, CleanerHasVersions, Base, Typed, Rows
<1>5. p[1] \in Exempt \/ p[2] < Latest(p[1])[2]
  <2>1. cleaner.step \in {"old", "unused"}
      BY <1>1 DEF Kept, CleanerHasVersions, Base, Typed, Using, Cleaner
  <2> QED BY <1>1, <2>1 DEF Kept, CleansOutdated, Exempt
<1>6. Exempt' = Exempt
    BY <1>1 DEF Exempt
<1> HIDE DEF p
<1>7. ASSUME NEW f \in Files, f \notin Exempt, VersionsOf(f) # {}
      PROVE  /\ VersionsOf(f)' # {} /\ Latest(f)' = Latest(f)
             /\ Latest(f) \in DOMAIN versions /\ Latest(f) # p
  <2>1. /\ Latest(f) \in DOMAIN versions /\ Latest(f)[1] = f /\ Latest(f)[2] \in 0 .. MaxVersion
        /\ \A v \in VersionsOf(f) : v <= Latest(f)[2]
      BY <1>7, LatestIs DEF Base
  <2>2. Latest(f) # p
      BY <1>5, <1>7, <2>1
  <2>3. VersionsOf(f)' \subseteq VersionsOf(f) /\ Latest(f)[2] \in VersionsOf(f)'
      BY <1>2, <2>1, <2>2 DEF VersionsOf
  <2>4. VersionsOf(f) \in SUBSET (0 .. MaxVersion)
      BY VersionsAre DEF Base
  <2> DEFINE m == Latest(f)[2]
             V == VersionsOf(f)'
  <2>5. V \in SUBSET (0 .. MaxVersion) /\ m \in V /\ \A v \in V : v <= m
      BY <2>1, <2>3, <2>4
  <2> HIDE DEF m, V
  <2>6. Max(V) = m
      BY <2>5, MaxOnly
  <2>7. Latest(f)' = <<f, Max(V)>> /\ Latest(f) = <<f, m>>
      BY DEF V, m, Latest
  <2> QED BY <2>1, <2>2, <2>3, <2>6, <2>7
<1>8. KnownAreGood'
  <2> SUFFICES ASSUME NEW f \in Known, f \notin Exempt PROVE Good(f)'
      BY <1>1, <1>6 DEF KnownAreGood, Known
  <2>1. Good(f) /\ f \in Files
      BY DEF Kept, KnownAreGood, Base, Typed, Rows
  <2> QED BY <1>1, <1>2, <1>7, <2>1 DEF Good
<1>9. WrittenAreGood'
    BY <1>1, <1>2, <1>6 DEF Kept, WrittenAreGood
<1>10. CleansOutdated'
  <2>1. \A q \in cleaner'.paths : q[1] \in Files /\ VersionsOf(q[1]) # {}
      BY <1>1 DEF Kept, CleanerHasVersions, Base, Typed, Rows, VersionsOf
  <2> QED BY <1>1, <1>7, <2>1, CleansFewer DEF Kept
<1> QED BY <1>3, <1>8, <1>9, <1>10 DEF Kept

LEMMA KeptDeleteFiles == ASSUME Base, Kept, DeleteFiles PROVE Kept'
<1>1. /\ UNCHANGED <<disk, job, cut>> /\ cleaner' = Resting
      /\ versions' = Without(versions, {p \in DOMAIN versions : p[1] \in Stale})
      /\ refCounter' = Without(refCounter, Stale)
    BY DEF DeleteFiles, Cleans
<1>2. {p \in DOMAIN versions : p[1] \in Stale} = {}
  <2>1. \A p \in DOMAIN versions : p[2] \in VersionsOf(p[1])
      BY DEF VersionsOf
  <2> QED BY <2>1 DEF Stale
<1>3. UNCHANGED versions
  <2>1. versions \in [DOMAIN versions -> Jobs]
      BY DEF Base, Typed, Rows
  <2> QED BY <1>1, <1>2, <2>1 DEF Without, Restrict
<1>4. DOMAIN refCounter' \subseteq Known
    BY <1>1 DEF Without, Restrict, Known
<1> QED BY <1>1, <1>3, <1>4, KeptResting DEF MarksGrow

LEMMA KeptCleanUp == ASSUME Base, Kept, CleanUp \/ \E p \in Paths : VersionInUse(p) PROVE Kept'
<1>1. CASE CleanLinks
  <2>1. UNCHANGED <<versions, disk, job, cut>> /\ cleaner = Resting
      BY <1>1 DEF CleanLinks, Cleans
  <2>2. DOMAIN refCounter' = Known
      BY <1>1 DEF CleanLinks, Unlink
  <2>3. cleaner'.step = "list" /\ cleaner'.listed = {} /\ cleaner'.files = {}
      BY <1>1, <2>1 DEF CleanLinks, Resting
  <2>4. CleansOutdated'
      BY <2>3 DEF CleansOutdated
  <2>5. CleanerHasVersions'
      BY <1>1, CleanerClean DEF Kept, CleanUp
  <2> QED BY <2>1, <2>2, <2>4, <2>5, KeptPlan DEF MarksGrow
<1> QED BY <1>1, KeptListVersions, KeptDeleteVersion, KeptListFiles, KeptDeleteFiles, KeptRemove,
           KeptNextFile DEF CleanUp

LEMMA KeptStep == Base /\ Kept /\ [Next]_vars => Kept'
<1> SUFFICES ASSUME Base, Kept, [Next]_vars PROVE Kept'
    OBVIOUS
<1>0. Uploaders \subseteq Jobs /\ Attachers \subseteq Jobs
    BY DEF Jobs
<1>1. CASE \E j \in Uploaders : UploadNew(j) \/ \E f \in Files : UploadVersion(j, f) \/ Paste(j, f)
    BY <1>0, <1>1, UploadNewIs, UploadVersionIs, PasteIs, KeptStarts
<1>2. CASE Attaching
    BY <1>0, <1>2, AttachIs, KeptStarts DEF Attaching
<1>3. CASE \E j \in Jobs : Storing(j)
    BY <1>3, KeptWrite, KeptHash, KeptStore, KeptEnds DEF Storing
<1>4. CASE \/ \E r \in Records : DelRecord(r) \/ \E m \in Mails : MailArrives(m, r)
           \/ \E l \in DOMAIN links : FileRestore(l)
           \/ DropAttribute
  <2>1. UNCHANGED <<versions, disk, cleaner>>
      BY <1>4 DEF DelRecord, MailArrives, FileRestore, DropAttribute, Elsewhere
  <2>2. DOMAIN refCounter' = Known
      BY <1>4 DEF DelRecord, Unlink, MailArrives, FileRestore, DropAttribute, Known
  <2> QED BY <1>4, <2>1, <2>2, OthersAreQuiet, KeptQuiet
<1>5. CASE \/ \E r \in Records : OpenRecord(r)
           \/ \E f \in Files : RemoveFile(f)
           \/ Save \/ Request
  <2>1. UNCHANGED <<versions, disk, cleaner>>
      BY <1>5 DEF OpenRecord, RemoveFile, Save, Request, SetRecord, SetFails, PageStep, database
  <2>2. DOMAIN refCounter' = Known
      BY <1>5 DEF OpenRecord, RemoveFile, Save, Request, SetRecord, SetFails, Known, database
  <2> QED BY <1>5, <2>1, <2>2, InputIsQuiet, KeptQuiet
<1>6. CASE CleanUp \/ \E p \in Paths : VersionInUse(p)
    BY <1>6, KeptCleanUp
<1>7. CASE Crash
  <2>1. UNCHANGED <<refCounter, versions, disk>> /\ cleaner' = Resting
      BY <1>7 DEF Crash, database
  <2>2. \A k \in Jobs : job'[k].step = "none"
      BY <1>7 DEF Crash, Idle
  <2> QED BY <1>7, <2>1, <2>2, CrashGoesOn, KeptResting DEF Known
<1>8. CASE UNCHANGED vars
  <2>1. UNCHANGED <<refCounter, versions, disk, job, cleaner, cut>>
      BY <1>8 DEF vars, database, history
  <2> QED BY <2>1, KeptQuiet DEF Quiet, MarksGrow, Known
<1> QED BY <1>1, <1>2, <1>3, <1>4, <1>5, <1>6, <1>7, <1>8 DEF Next

LEMMA KeptHolds == Spec => []Kept
<1>1. Init => Kept
    BY DEF Init, Kept, CleanerHasVersions, KnownAreGood, WrittenAreGood, CleansOutdated, Known,
           Resting, Idle
<1> QED BY <1>1, KeptStep, BaseHolds, PTL DEF Spec

\* What a record refers to is there: the latest version of its file is on disk
\* as it was hashed, however uploads, saves, deletions, clean ups, mails and
\* crashes interleave, but for files saved late or written twice.
THEOREM RecordsKeepTheirFiles == Spec => []RecordsKeepFiles
<1>1. Base /\ Kept => RecordsKeepFiles
    BY DEF Base, Typed, Rows, Kept, KnownAreGood, Exempt, Good, RecordsKeepFiles
<1> QED BY <1>1, BaseHolds, KeptHolds, PTL
=============================================================================
