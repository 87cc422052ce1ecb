-------------------------- MODULE Scheduler_proofs --------------------------
(* Proofs about Scheduler, for every set of tasks, schedules and goroutines *)
(* and all bounds: the type invariant; as long as no load failed, that the  *)
(* flag "running" is a lock of the list's entries between two loads; and,  *)
(* with failing loads, that a settled list is the one of the node's role.   *)
EXTENDS Scheduler, FiniteSetTheorems, TLAPS

LEMMA ElementOfSeq ==
    ASSUME NEW S, NEW s \in Seq(S), NEW i \in DOMAIN s
    PROVE  s[i] \in S
    OBVIOUS

LEMMA UpdateSeq ==
    ASSUME NEW S, NEW s \in Seq(S), NEW i \in DOMAIN s, NEW e \in S
    PROVE  /\ [s EXCEPT ![i] = e] \in Seq(S)
           /\ Len([s EXCEPT ![i] = e]) = Len(s)
           /\ DOMAIN [s EXCEPT ![i] = e] = DOMAIN s
    OBVIOUS

\* Runs of a task's schedules are integers, and belong to one of its schedules.
LEMMA NextRunsType ==
    ASSUME NEW S \in SUBSET Schedules, NEW last \in [S -> Time], now \in Time,
           NEW r \in NextRuns(last)
    PROVE  r.runNext \in Int /\ r.sched \in S
<1> DEFINE at(s) == NextRunFromSchedule(s, last[s])
<1>1. ASSUME NEW s \in S PROVE at(s) \in Int
    BY <1>1, SchedulerAssumption DEF NextRunFromSchedule, Stopped, Time
<1>2. PICK s \in S : r = [runNext |-> at(s), sched |-> s]
    BY DEF NextRuns
<1> QED BY <1>1, <1>2

LEMMA FreshEntriesType ==
    ASSUME TypeOK, NEW n \in Names, NEW e \in FreshEntries(n)
    PROVE  e \in Entry /\ e.name = n /\ e.running = FALSE
<1> DEFINE S == LoadedSchedules(n)
<1>1. S \in SUBSET Schedules
    BY SchedulerAssumption DEF LoadedSchedules
<1>2. LastRuns(n) \in [S -> Time]
    BY <1>1 DEF LastRuns, TypeOK
<1>3. PICK r \in NextRuns(LastRuns(n)) :
        e = [name |-> n, running |-> FALSE, runNext |-> r.runNext, sched |-> r.sched,
             last |-> LastRuns(n)]
    BY DEF FreshEntries
<1>4. r.runNext \in Int /\ r.sched \in S
    BY <1>1, <1>2, NextRunsType DEF TypeOK
<1>5. LastRuns(n) \in LastRunTimes /\ r.sched \in Schedules
    BY <1>1, <1>2, <1>4 DEF LastRunTimes
<1> QED BY <1>3, <1>4, <1>5 DEF Entry

\* A loaded list holds entries that do not run, one per task at most.
LEMMA LoadedListsType ==
    ASSUME TypeOK, NEW l \in LoadedLists
    PROVE  /\ l \in Seq(Entry)
           /\ Len(l) = Cardinality(LoadedNames)
           /\ Len(l) \in 0 .. Cardinality(Names)
           /\ \A i \in DOMAIN l : l[i].running = FALSE
<1> DEFINE k == Cardinality(LoadedNames)
           E == UNION {FreshEntries(n) : n \in LoadedNames}
<1>1. LoadedNames \subseteq Names
    BY DEF LoadedNames, TypeOK
<1>2. k \in Nat /\ k <= Cardinality(Names) /\ Cardinality(Names) \in Nat
    BY <1>1, FS_Subset, FS_CardinalityType, SchedulerAssumption
<1>3. PICK q \in [1 .. k -> E] : l = <<>> \o q
    BY DEF LoadedLists, ResetList
<1>4. \A e \in E : e \in Entry /\ e.running = FALSE
  <2> SUFFICES ASSUME NEW e \in E PROVE e \in Entry /\ e.running = FALSE
    OBVIOUS
  <2>1. PICK n \in LoadedNames : e \in FreshEntries(n)
    OBVIOUS
  <2> QED BY <1>1, <2>1, FreshEntriesType
<1>5. q \in Seq(Entry) /\ Len(q) = k
    BY <1>2, <1>4
<1>6. l = q
    BY <1>3, <1>5
<1> QED BY <1>2, <1>4, <1>5, <1>6

LEMMA PartialListsType ==
    ASSUME TypeOK, NEW p \in PartialLists
    PROVE  p \in Seq(Entry) /\ Len(p) \in 0 .. Cardinality(Names)
<1>1. PICK l \in LoadedLists, k \in 0 .. Cardinality(LoadedNames \cap SystemTasks) :
        p = SubSeq(l, 1, k)
    BY DEF PartialLists
<1>2. LoadedNames \subseteq Names
    BY DEF LoadedNames, TypeOK
<1>3. IsFiniteSet(LoadedNames) /\ Cardinality(LoadedNames) \in Nat
    BY <1>2, FS_Subset, FS_CardinalityType, SchedulerAssumption
<1>4. /\ Cardinality(LoadedNames \cap SystemTasks) <= Cardinality(LoadedNames)
      /\ Cardinality(LoadedNames \cap SystemTasks) \in Nat
    BY <1>3, FS_Subset, FS_CardinalityType, SchedulerAssumption
<1>5. l \in Seq(Entry) /\ Len(l) = Cardinality(LoadedNames)
    BY Zenon, LoadedListsType
<1>6. k \in Nat /\ k <= Len(l) /\ Len(l) <= Cardinality(Names)
    BY <1>2, <1>3, <1>4, <1>5, FS_Subset, SchedulerAssumption
<1>7. Cardinality(Names) \in Nat
    BY FS_CardinalityType, SchedulerAssumption
<1>8. p \in Seq(Entry) /\ Len(p) = k
    BY <1>1, <1>5, <1>6
<1> QED BY <1>3, <1>5, <1>6, <1>7, <1>8

LEMMA SpawnType ==
    ASSUME TypeOK, NEW l, NEW I
    PROVE  Spawn(l, I) \in [Slots \X Names -> 0 .. MaxSpawned]
BY SchedulerAssumption DEF Spawn, TypeOK

LEMMA FinishedType ==
    ASSUME now \in Time, NEW t \in Entry, NEW u \in Finished(t)
    PROVE  u \in Entry /\ u.running = FALSE /\ u.name = t.name
<1> DEFINE last == [t.last EXCEPT ![t.sched] = now]
<1>1. PICK S \in SUBSET Schedules : t.last \in [S -> Time]
    BY DEF Entry, LastRunTimes
<1>2. last \in [S -> Time]
    BY <1>1
<1>3. PICK n \in NextRuns(last) :
        u = [t EXCEPT !.running = FALSE, !.last = last,
                      !.runNext = n.runNext, !.sched = n.sched]
    BY DEF Finished
<1>4. n.runNext \in Int /\ n.sched \in S
    BY <1>2, NextRunsType
<1>5. last \in LastRunTimes /\ n.sched \in Schedules
    BY <1>2, <1>4 DEF LastRunTimes
<1> HIDE DEF last
<1> QED BY <1>3, <1>4, <1>5 DEF Entry

-----------------------------------------------------------------------------
(* Type correctness *)

LEMMA TypeInit == Init => TypeOK
<1> SUFFICES ASSUME Init PROVE TypeOK
    OBVIOUS
<1> USE SchedulerAssumption DEF Init
<1>1. Cardinality(Names) \in Nat
    BY FS_CardinalityType
<1>2. tasks \in Seq(Entry) /\ Len(tasks) <= Cardinality(Names)
    BY <1>1
<1>3. spawned \in [Slots \X Names -> 0 .. MaxSpawned]
    OBVIOUS
<1>4. runner \in [Runners -> {Idle} \cup Running]
    OBVIOUS
<1>5. now \in Time /\ dateAttempt \in [Schedules -> Time]
    BY DEF Time
<1>6. /\ restarts \in 0 .. RestartCap /\ sending \in Nat /\ informing \in Nat /\ active \subseteq Names
      /\ loop \in {"sleep", "locked"} /\ nextExecutionUnix \in Int /\ loadCounter \in Nat
      /\ changes \in Nat /\ directs \in Nat /\ loadErrors \in Nat
    OBVIOUS
<1>7. /\ loadTasks \in BOOLEAN /\ isMaster \in BOOLEAN /\ missed \in BOOLEAN /\ crashed \in BOOLEAN
      /\ exclusive \in {"free", "import", "announce"}
    OBVIOUS
<1> QED BY <1>2, <1>3, <1>4, <1>5, <1>6, <1>7 DEF TypeOK

\* Loading a list and spawning what is due keep the types of list and spawned.
LEMMA TypeLoop == TypeOK /\ Loop => TypeOK'
<1> SUFFICES ASSUME TypeOK, Loop PROVE TypeOK'
    OBVIOUS
<1> USE DEF TypeOK
<1>1. CASE LoopLock
    BY <1>1 DEF LoopLock, list, signals, db, bounds
<1>2. CASE RunTasksBySchedule
  <2>1. PICK l \in IF loadTasks THEN LoadedLists ELSE {tasks} :
            /\ tasks' = l
            /\ LET known == IF loadTasks THEN 0 ELSE nextExecutionUnix
                   next  == IF known = 0 THEN EarliestRun(l) ELSE known
                   start == IF next # 0 /\ now >= next THEN Due(l) ELSE {}
               IN  /\ nextExecutionUnix' = IF next # 0 /\ now >= next THEN 0 ELSE next
                   /\ spawned' = Spawn(l, start)
      BY <1>2 DEF RunTasksBySchedule
  <2>2. l \in Seq(Entry) /\ Len(l) <= Cardinality(Names)
    <3>1. CASE loadTasks
      <4>1. l \in LoadedLists
          BY <3>1, <2>1
      <4>2. l \in Seq(Entry) /\ Len(l) \in 0 .. Cardinality(Names)
          BY <4>1, LoadedListsType
      <4>3. Cardinality(Names) \in Nat
          BY FS_CardinalityType, SchedulerAssumption
      <4> QED BY <4>2, <4>3
    <3>2. CASE ~loadTasks
        BY <3>2, <2>1
    <3> QED BY <3>1, <3>2
  <2>3. EarliestRun(l) \in Int
    <3> DEFINE at == {l[i].runNext : i \in {j \in DOMAIN l : ~l[j].running}} \ {Stopped}
               first == {x \in at : \A y \in at : x <= y}
    <3>1. \A i \in DOMAIN l : l[i].runNext \in Int
      <4> SUFFICES ASSUME NEW i \in DOMAIN l PROVE l[i].runNext \in Int
          OBVIOUS
      <4>1. l[i] \in Entry
          BY <2>2, ElementOfSeq
      <4> QED BY <4>1 DEF Entry
    <3>2. \A x \in first : x \in Int
        BY <3>1
    <3>3. EarliestRun(l) = IF first = {} THEN 0 ELSE CHOOSE x \in first : TRUE
        BY DEF EarliestRun
    <3> HIDE DEF first
    <3> QED BY <3>2, <3>3
  <2>4. nextExecutionUnix' \in Int
      BY <2>1, <2>3
  <2>5. spawned' \in [Slots \X Names -> 0 .. MaxSpawned]
      BY <2>1, SpawnType
  <2>6. tasks' \in Seq(Entry) /\ Len(tasks') <= Cardinality(Names)
      BY <2>1, <2>2
  <2>7. /\ UNCHANGED <<runner, restarts, sending, informing, isMaster, db, exclusive, now, bounds, crashed>>
        /\ missed' = (missed /\ ~loadTasks) /\ loadTasks' = FALSE /\ loop' = "sleep"
        /\ loadCounter' = IF loadTasks THEN loadCounter + 1 ELSE loadCounter
      BY <1>2 DEF RunTasksBySchedule
  <2>8. loadCounter' \in Nat
      BY <2>7
  <2>9. loadTasks' \in BOOLEAN /\ missed' \in BOOLEAN /\ loop' \in {"sleep", "locked"}
      BY <2>7
  <2> QED BY <2>4, <2>5, <2>6, <2>7, <2>8, <2>9 DEF signals, db, bounds
<1>3. CASE LoadFails
  <2>1. tasks' \in Seq(Entry) /\ Len(tasks') <= Cardinality(Names)
      BY <1>3, PartialListsType, FS_CardinalityType, SchedulerAssumption DEF LoadFails
  <2> QED BY <1>3, <2>1 DEF LoadFails, signals, db
<1> QED BY <1>1, <1>2, <1>3 DEF Loop

\* A goroutine that runs, skips or ends its task writes entries to the list only.
LEMMA TypeRunner == ASSUME NEW r \in Runners PROVE TypeOK /\ RunTaskByIndex(r) => TypeOK'
<1> SUFFICES ASSUME TypeOK, RunTaskByIndex(r) PROVE TypeOK'
    OBVIOUS
<1> USE DEF TypeOK
<1>0. ASSUME NEW i \in Slots, NEW n \in Names, spawned[<<i, n>>] > 0
      PROVE  Unspawn(i, n) \in [Slots \X Names -> 0 .. MaxSpawned]
    BY <1>0, SchedulerAssumption DEF Unspawn
<1>1. ASSUME NEW i \in Slots, NEW n \in Names, StartTask(r, i, n) PROVE TypeOK'
  <2> DEFINE e == [tasks[i] EXCEPT !.running = TRUE]
  <2>1. i \in DOMAIN tasks /\ i \in Nat \ {0}
      BY <1>1 DEF StartTask, Slots
  <2>2. tasks[i] \in Entry
      BY <2>1, ElementOfSeq
  <2>8. e \in Entry
      BY <2>2 DEF Entry
  <2>3. tasks' = [tasks EXCEPT ![i] = e]
      BY <1>1, <2>1 DEF StartTask
  <2>4. tasks' \in Seq(Entry) /\ Len(tasks') <= Cardinality(Names) /\ tasks'[i] = e
      BY <2>1, <2>8, <2>3, UpdateSeq
  <2>5. runner' \in [Runners -> {Idle} \cup Running]
      BY <1>1, <2>1, <2>8, <2>4 DEF StartTask, Running
  <2>6. spawned' \in [Slots \X Names -> 0 .. MaxSpawned]
      BY <1>0, <1>1 DEF StartTask
  <2> QED BY <1>1, <2>4, <2>5, <2>6 DEF StartTask, signals, db, bounds
<1>2. ASSUME NEW i \in Slots, NEW n \in Names, SkipTask(i, n) PROVE TypeOK'
    BY <1>0, <1>2 DEF SkipTask, list, signals, db, bounds
<1>3. ASSUME NEW i \in Slots, NEW n \in Names, IndexPanic(i, n) PROVE TypeOK'
    BY <1>3 DEF IndexPanic, list, threads, signals, db, bounds
<1>4. CASE StoreAttempt(r)
  <2>1. runner[r] \in Running
      BY <1>4 DEF StoreAttempt, Idle
  <2>2. runner' \in [Runners -> {Idle} \cup Running]
      BY <1>4, <2>1 DEF StoreAttempt, Running
  <2>3. dateAttempt' \in [Schedules -> Time]
      BY <1>4 DEF StoreAttempt
  <2> QED BY <1>4, <2>2, <2>3 DEF StoreAttempt, list, signals, bounds
<1>5. CASE EndTask(r)
  <2>1. runner[r] \in Running
      BY <1>5 DEF EndTask, Idle
  <2>2. runner' \in [Runners -> {Idle} \cup Running]
      BY <1>5 DEF EndTask
  <2>3. tasks' \in Seq(Entry) /\ Len(tasks') <= Cardinality(Names) /\ crashed' \in BOOLEAN
    <3>1. CASE NotReloaded(r) /\ runner[r].idx <= Len(tasks)
      <4>1. PICK t \in Finished(runner[r].task) :
                tasks' = [tasks EXCEPT ![runner[r].idx] = t] /\ UNCHANGED crashed
          BY <1>5, <3>1 DEF EndTask
      <4>2. runner[r].idx \in DOMAIN tasks /\ runner[r].task \in Entry
          BY <2>1, <3>1 DEF Running
      <4>3. t \in Entry
          BY <4>2, FinishedType
      <4> QED BY <4>1, <4>2, <4>3, UpdateSeq
    <3>2. CASE ~(NotReloaded(r) /\ runner[r].idx <= Len(tasks))
        BY <1>5, <3>2 DEF EndTask
    <3> QED BY <3>1, <3>2
  <2> QED BY <1>5, <2>2, <2>3 DEF EndTask, signals, db, bounds
<1> QED BY <1>1, <1>2, <1>3, <1>4, <1>5 DEF RunTaskByIndex

LEMMA TypeSignals ==
    TypeOK /\ (Send \/ RestartListener \/ Inform \/ InformLost \/ TransferEnd) => TypeOK'
<1> USE SchedulerAssumption DEF TypeOK, list, threads, db, bounds, signals
<1>1. TypeOK /\ Send => TypeOK'
    BY DEF Send
<1>2. TypeOK /\ RestartListener => TypeOK'
    BY DEF RestartListener
<1>3. TypeOK /\ Inform => TypeOK'
    BY DEF Inform
<1>4. TypeOK /\ InformLost => TypeOK'
    BY DEF InformLost
<1>5. TypeOK /\ TransferEnd => TypeOK'
    BY DEF TransferEnd
<1> QED BY <1>1, <1>2, <1>3, <1>4, <1>5

LEMMA ToggledType == ASSUME TypeOK, NEW n \in Names PROVE Toggled(n) \subseteq Names
BY DEF TypeOK, Toggled

LEMMA TypeTransfer == TypeOK /\ Transfer => TypeOK'
<1> SUFFICES ASSUME TypeOK, Transfer PROVE TypeOK'
    OBVIOUS
<1> USE DEF TypeOK, list, threads, db, bounds, signals
<1>1. CASE TransferFails
    BY <1>1 DEF TransferFails
<1>2. ASSUME NEW n \in PgFunctions, TransferCommit(n) PROVE TypeOK'
    BY <1>2, ToggledType DEF TransferCommit, Names
<1>3. ASSUME NEW n \in PgFunctions, TransferUnannounced(n) PROVE TypeOK'
    BY <1>3, ToggledType DEF TransferUnannounced, Names
<1> QED BY <1>1, <1>2, <1>3 DEF Transfer

LEMMA TypeEnvironment == TypeOK /\ Environment => TypeOK'
<1> SUFFICES ASSUME TypeOK, Environment PROVE TypeOK'
    OBVIOUS
<1> USE DEF TypeOK, list, threads, db, bounds, signals
<1>1. ASSUME NEW n \in Names, NEW s \in ScheduleOf[n], RunTaskDirectly(n, s) PROVE TypeOK'
  <2>1. PICK i \in DOMAIN tasks : /\ s \in DOMAIN tasks[i].last
                                  /\ tasks' = [tasks EXCEPT ![i].sched = s]
                                  /\ spawned' = Spawn(tasks, {i})
      BY <1>1 DEF RunTaskDirectly
  <2> DEFINE e == [tasks[i] EXCEPT !.sched = s]
  <2>2. tasks[i] \in Entry /\ s \in Schedules
      BY <2>1, ElementOfSeq, SchedulerAssumption
  <2>7. e \in Entry
      BY <2>2 DEF Entry
  <2>3. tasks' = [tasks EXCEPT ![i] = e]
      BY <2>1
  <2>4. tasks' \in Seq(Entry) /\ Len(tasks') <= Cardinality(Names)
      BY <2>1, <2>7, <2>3, UpdateSeq
  <2>5. spawned' \in [Slots \X Names -> 0 .. MaxSpawned]
      BY <2>1, SpawnType
  <2>6. /\ directs' = directs + 1
        /\ UNCHANGED <<loadTasks, loadCounter, nextExecutionUnix, loop, runner, signals,
                       isMaster, db, exclusive, now, changes, loadErrors, crashed>>
      BY <1>1 DEF RunTaskDirectly
  <2> QED BY <2>4, <2>5, <2>6
<1>2. CASE MasterAssigned
    BY <1>2 DEF MasterAssigned
<1>3. ASSUME NEW n \in Names, TaskSet(n) PROVE TypeOK'
    BY <1>3, ToggledType DEF TaskSet
<1>4. CASE TransferStart
    BY <1>4 DEF TransferStart
<1>5. CASE Tick
    BY <1>5, SchedulerAssumption DEF Tick, Time
<1> QED BY <1>1, <1>2, <1>3, <1>4, <1>5 DEF Environment

\* Every variable keeps its type, in particular the list never outgrows the
\* set of tasks, with and without failing loads.
THEOREM TypeCorrect == Spec => []TypeOK
<1>1. Init => TypeOK
    BY TypeInit
<1>2. TypeOK /\ [Next]_vars => TypeOK'
  <2> SUFFICES ASSUME TypeOK, [Next]_vars PROVE TypeOK'
      OBVIOUS
  <2>1. CASE Step
      BY <2>1, TypeLoop, TypeRunner, TypeSignals, TypeTransfer, TypeEnvironment DEF Step
  <2>2. CASE UNCHANGED vars
      BY <2>2 DEF vars, TypeOK, list, threads, db, bounds, signals
  <2> QED BY <2>1, <2>2 DEF Next
<1> QED BY <1>1, <1>2, PTL DEF Spec

-----------------------------------------------------------------------------
(* The flag "running" as a lock of the list's entries.  The inductive        *)
(* invariant adds to the two properties that no execution belongs to a load  *)
(* that is still to come: only then do all executions lose their hold on the *)
(* list when loadCounter is increased.                                       *)

GenBound == \A r \in Runners : Executing(r) => runner[r].gen <= loadCounter

Lock == GenBound /\ OneExecutionPerEntry /\ RunningIffExecuted

LockInv == TypeOK /\ Lock

LEMMA LockUnchanged ==
    Lock /\ UNCHANGED <<tasks, loadCounter, runner>> => Lock'
BY DEF Lock, GenBound, OneExecutionPerEntry, RunningIffExecuted, Current, Executing

\* A reload leaves no execution behind that is current, and no entry marked.
LEMMA LockSchedule == LockInv /\ TypeOK' /\ RunTasksBySchedule => Lock'
<1> SUFFICES ASSUME LockInv, TypeOK', RunTasksBySchedule PROVE Lock'
    OBVIOUS
<1>1. CASE ~loadTasks
  <2>1. UNCHANGED <<tasks, loadCounter, runner>>
      BY <1>1 DEF RunTasksBySchedule
  <2> QED BY <2>1, LockUnchanged DEF LockInv
<1>2. CASE loadTasks
  <2>1. tasks' \in LoadedLists /\ loadCounter' = loadCounter + 1 /\ UNCHANGED runner
      BY <1>2 DEF RunTasksBySchedule
  <2>2. \A i \in DOMAIN tasks' : tasks'[i].running = FALSE
      BY <2>1, LoadedListsType DEF LockInv
  <2>3. \A r \in Runners : Executing(r) => runner[r].gen \in Nat /\ runner[r].gen <= loadCounter
    <3> SUFFICES ASSUME NEW r \in Runners, Executing(r)
                 PROVE  runner[r].gen \in Nat /\ runner[r].gen <= loadCounter
        OBVIOUS
    <3>1. runner[r] \in Running
        BY DEF LockInv, TypeOK, Executing, Idle
    <3> QED BY <3>1 DEF LockInv, Lock, GenBound, Running
  <2>4. loadCounter \in Nat
      BY DEF LockInv, TypeOK
  <2>5. \A r \in Runners : ~Current(r)'
      BY <2>1, <2>3, <2>4 DEF Current, Executing
  <2>6. GenBound'
      BY <2>1, <2>3, <2>4 DEF GenBound, Executing
  <2>7. OneExecutionPerEntry'
      BY <2>1 DEF OneExecutionPerEntry, LockInv, Lock, Executing
  <2> QED BY <2>2, <2>5, <2>6, <2>7 DEF Lock, RunningIffExecuted
<1> QED BY <1>1, <1>2

\* Starting by hand changes the schedule of an entry, not its mark or name.
LEMMA LockDirectly ==
    ASSUME NEW n \in Names, NEW s \in ScheduleOf[n], LockInv, RunTaskDirectly(n, s)
    PROVE  Lock'
<1>1. PICK i \in DOMAIN tasks : tasks' = [tasks EXCEPT ![i].sched = s]
    BY DEF RunTaskDirectly
<1>2. UNCHANGED <<loadCounter, runner>>
    BY DEF RunTaskDirectly
<1>3. tasks \in Seq(Entry)
    BY DEF LockInv, TypeOK
<1>4. /\ DOMAIN tasks' = DOMAIN tasks
      /\ \A j \in DOMAIN tasks : tasks[j] \in Entry
    BY <1>1, <1>3, ElementOfSeq
<1>5. \A j \in DOMAIN tasks : tasks'[j].running = tasks[j].running /\ tasks'[j].name = tasks[j].name
    BY <1>1, <1>4 DEF Entry
<1> QED BY <1>2, <1>4, <1>5
        DEF LockInv, Lock, GenBound, OneExecutionPerEntry, RunningIffExecuted, Current, Executing

LEMMA LockStart ==
    ASSUME NEW r \in Runners, NEW i \in Slots, NEW n \in Names, LockInv, StartTask(r, i, n)
    PROVE  Lock'
<1> DEFINE e == [tasks[i] EXCEPT !.running = TRUE]
           x == [idle |-> FALSE, stored |-> FALSE, idx |-> i, gen |-> loadCounter, task |-> e]
<1>1. i \in DOMAIN tasks /\ tasks \in Seq(Entry) /\ ~tasks[i].running /\ runner[r].idle
    BY DEF StartTask, Slots, Skips, LockInv, TypeOK
<1>2. tasks[i] \in Entry
    BY <1>1, ElementOfSeq
<1>3. e.running = TRUE /\ e.name = tasks[i].name
    BY <1>2 DEF Entry
<1>4. /\ tasks' = [tasks EXCEPT ![i] = e]
      /\ DOMAIN tasks' = DOMAIN tasks
      /\ tasks'[i] = e
    BY <1>1 DEF StartTask
<1>5. runner' = [runner EXCEPT ![r] = x] /\ UNCHANGED loadCounter
    BY <1>4 DEF StartTask
<1>6. runner'[r] = x /\ (\A q \in Runners \ {r} : runner'[q] = runner[q])
    BY <1>5 DEF LockInv, TypeOK
<1> HIDE DEF e
<1>7. \A q \in Runners : Current(q) => runner[q].idx # i
    BY <1>1 DEF LockInv, Lock, RunningIffExecuted
<1>8. GenBound'
    BY <1>5, <1>6 DEF GenBound, LockInv, Lock, TypeOK, Executing
<1>9. OneExecutionPerEntry'
    BY <1>5, <1>6, <1>7 DEF OneExecutionPerEntry, LockInv, Lock, Executing, Current
<1>10. RunningIffExecuted'
  <2>1. \A q \in Runners \ {r} : Current(q)' = Current(q)
      BY <1>5, <1>6 DEF Current, Executing
  <2>2. Current(r)' /\ runner'[r].idx = i /\ runner'[r].task = e
    <3>1. /\ runner'[r].idle = FALSE /\ runner'[r].gen = loadCounter
          /\ runner'[r].idx = i /\ runner'[r].task = e
        BY <1>6
    <3> QED BY <3>1, <1>5 DEF Current, Executing
  <2>3. ASSUME NEW j \in DOMAIN tasks', tasks'[j].running
        PROVE  \E q \in Runners : Current(q)' /\ runner'[q].idx = j
    <3>1. CASE j = i
        BY <3>1, <2>2
    <3>2. CASE j # i
      <4>1. tasks[j].running /\ j \in DOMAIN tasks
          BY <3>2, <2>3, <1>4
      <4>2. PICK q \in Runners : Current(q) /\ runner[q].idx = j
          BY <4>1 DEF LockInv, Lock, RunningIffExecuted
      <4>3. q # r
          BY <4>2, <1>1 DEF Current, Executing
      <4> QED BY <4>2, <4>3, <2>1, <1>6
    <3> QED BY <3>1, <3>2
  <2>4. ASSUME NEW q \in Runners, Current(q)'
        PROVE  /\ runner'[q].idx \in DOMAIN tasks'
               /\ tasks'[runner'[q].idx].running
               /\ tasks'[runner'[q].idx].name = runner'[q].task.name
    <3>1. CASE q = r
        BY <3>1, <2>2, <1>1, <1>3, <1>4
    <3>2. CASE q # r
      <4>1. Current(q) /\ runner'[q] = runner[q]
          BY <3>2, <2>1, <2>4, <1>6
      <4>2. /\ runner[q].idx \in DOMAIN tasks
            /\ tasks[runner[q].idx].running
            /\ tasks[runner[q].idx].name = runner[q].task.name
          BY <4>1 DEF LockInv, Lock, RunningIffExecuted
      <4>3. runner[q].idx # i
          BY <4>1, <1>7
      <4> QED BY <4>1, <4>2, <4>3, <1>4
    <3> QED BY <3>1, <3>2
  <2> QED BY <2>3, <2>4 DEF RunningIffExecuted
<1> QED BY <1>8, <1>9, <1>10 DEF Lock

LEMMA LockStore ==
    ASSUME NEW r \in Runners, LockInv, StoreAttempt(r)
    PROVE  Lock'
<1>1. /\ UNCHANGED <<tasks, loadCounter>>
      /\ runner' = [runner EXCEPT ![r].stored = TRUE]
    BY DEF StoreAttempt, list
<1>2. runner \in [Runners -> {Idle} \cup Running] /\ runner[r] \in Running
    BY DEF LockInv, TypeOK, StoreAttempt, Idle
<1>3. \A q \in Runners : /\ runner'[q].idle = runner[q].idle /\ runner'[q].gen = runner[q].gen
                         /\ runner'[q].idx = runner[q].idx /\ runner'[q].task = runner[q].task
    BY <1>1, <1>2 DEF Running
<1> QED BY <1>1, <1>3
        DEF LockInv, Lock, GenBound, OneExecutionPerEntry, RunningIffExecuted, Current, Executing

\* The copy that is written back releases the entry its goroutine has marked.
LEMMA LockEnd ==
    ASSUME NEW r \in Runners, LockInv, EndTask(r)
    PROVE  Lock'
<1> DEFINE i == runner[r].idx
<1>1. runner \in [Runners -> {Idle} \cup Running] /\ runner[r] \in Running /\ tasks \in Seq(Entry)
      /\ now \in Time
    BY DEF LockInv, TypeOK, EndTask, Idle
<1>2. runner' = [runner EXCEPT ![r] = Idle] /\ UNCHANGED loadCounter
    BY DEF EndTask
<1>3. ~Executing(r)' /\ ~Current(r)'
    BY <1>1, <1>2 DEF Executing, Current, Idle
<1>4. \A q \in Runners \ {r} : /\ runner'[q] = runner[q]
                               /\ Executing(q)' = Executing(q) /\ Current(q)' = Current(q)
    BY <1>1, <1>2 DEF Executing, Current
<1>5. GenBound' /\ OneExecutionPerEntry'
    BY <1>2, <1>3, <1>4 DEF GenBound, OneExecutionPerEntry, LockInv, Lock
<1>6. CASE ~NotReloaded(r)
  <2>1. UNCHANGED tasks
      BY <1>6 DEF EndTask
  <2>2. ~Current(r)
      BY <1>6 DEF Current, NotReloaded
  <2>3. RunningIffExecuted'
      BY <1>3, <1>4, <2>1, <2>2 DEF RunningIffExecuted, LockInv, Lock
  <2> QED BY <1>5, <2>3 DEF Lock
<1>7. CASE NotReloaded(r)
  <2>1. Current(r)
      BY <1>7 DEF Current, NotReloaded, Executing, EndTask
  <2>2. i \in DOMAIN tasks /\ tasks[i].running /\ tasks[i].name = runner[r].task.name
      BY <2>1 DEF LockInv, Lock, RunningIffExecuted
  <2>3. PICK t \in Finished(runner[r].task) : tasks' = [tasks EXCEPT ![i] = t]
      BY <1>1, <1>7, <2>2 DEF EndTask
  <2>4. t.running = FALSE
      BY <1>1, <2>3, FinishedType DEF Running
  <2>5. /\ DOMAIN tasks' = DOMAIN tasks /\ tasks'[i] = t
        /\ \A j \in DOMAIN tasks \ {i} : tasks'[j] = tasks[j]
      BY <1>1, <2>2, <2>3
  <2>6. \A q \in Runners \ {r} : Current(q) => runner[q].idx # i
      BY <2>1 DEF LockInv, Lock, OneExecutionPerEntry, Current
  <2>7. ASSUME NEW j \in DOMAIN tasks', tasks'[j].running
        PROVE  \E q \in Runners : Current(q)' /\ runner'[q].idx = j
    <3>1. j # i /\ j \in DOMAIN tasks /\ tasks[j].running
        BY <2>4, <2>5, <2>7
    <3>2. PICK q \in Runners : Current(q) /\ runner[q].idx = j
        BY <3>1 DEF LockInv, Lock, RunningIffExecuted
    <3> QED BY <3>1, <3>2, <1>4
  <2>8. ASSUME NEW q \in Runners, Current(q)'
        PROVE  /\ runner'[q].idx \in DOMAIN tasks'
               /\ tasks'[runner'[q].idx].running
               /\ tasks'[runner'[q].idx].name = runner'[q].task.name
    <3>1. q # r /\ Current(q) /\ runner'[q] = runner[q]
        BY <1>3, <1>4, <2>8
    <3>2. /\ runner[q].idx \in DOMAIN tasks
          /\ tasks[runner[q].idx].running
          /\ tasks[runner[q].idx].name = runner[q].task.name
        BY <3>1 DEF LockInv, Lock, RunningIffExecuted
    <3> QED BY <3>1, <3>2, <2>5, <2>6
  <2>9. RunningIffExecuted'
      BY <2>7, <2>8 DEF RunningIffExecuted
  <2> QED BY <1>5, <2>9 DEF Lock
<1> QED BY <1>6, <1>7

LockUntilError == loadErrors = 0 => Lock

\* While no load fails a step keeps the lock; the first failing load ends it, as
\* it drops the marks but not the executions.
LEMMA LockStep ==
    TypeOK /\ TypeOK' /\ LockUntilError /\ [Next]_vars => LockUntilError'
<1> SUFFICES ASSUME TypeOK, TypeOK', loadErrors = 0 => Lock, [Next]_vars, loadErrors' = 0
             PROVE  Lock'
    BY DEF LockUntilError
<1>1. CASE Loop
  <2>1. ~LoadFails
      BY DEF LoadFails, TypeOK
  <2>2. loadErrors = 0
      BY <1>1, <2>1 DEF Loop, LoopLock, RunTasksBySchedule, bounds
  <2>3. LockInv
      BY <2>2 DEF LockInv
  <2>4. CASE LoopLock
      BY <2>3, <2>4, LockUnchanged DEF LoopLock, list, LockInv
  <2> QED BY <1>1, <2>1, <2>3, <2>4, LockSchedule DEF Loop
<1>2. ASSUME NEW r \in Runners, RunTaskByIndex(r) PROVE Lock'
  <2>1. loadErrors = 0
      BY <1>2 DEF RunTaskByIndex, StartTask, SkipTask, IndexPanic, StoreAttempt, EndTask, bounds
  <2>2. LockInv
      BY <2>1 DEF LockInv
  <2>3. ASSUME NEW i \in Slots, NEW n \in Names, SkipTask(i, n) \/ IndexPanic(i, n) PROVE Lock'
      BY <2>2, <2>3, LockUnchanged DEF SkipTask, IndexPanic, list, threads, LockInv
  <2> QED BY <1>2, <2>2, <2>3, LockStart, LockStore, LockEnd DEF RunTaskByIndex
<1>3. CASE Send \/ RestartListener \/ Inform \/ InformLost \/ Transfer \/ TransferEnd
    BY <1>3, LockUnchanged
       DEF Send, RestartListener, Inform, InformLost, Transfer, TransferFails, TransferCommit,
           TransferUnannounced, TransferEnd, list, threads, bounds
<1>4. CASE Environment
  <2>1. CASE MasterAssigned \/ TransferStart \/ Tick \/ \E n \in Names : TaskSet(n)
      BY <2>1, LockUnchanged
         DEF MasterAssigned, TransferStart, Tick, TaskSet, list, threads, bounds
  <2>2. ASSUME NEW n \in Names, NEW s \in ScheduleOf[n], RunTaskDirectly(n, s) PROVE Lock'
    <3>1. LockInv
        BY <2>2 DEF RunTaskDirectly, LockInv
    <3> QED BY <2>2, <3>1, LockDirectly
  <2> QED BY <1>4, <2>1, <2>2 DEF Environment
<1>5. CASE UNCHANGED vars
    BY <1>5, LockUnchanged DEF vars, list, threads, bounds
<1> QED BY <1>1, <1>2, <1>3, <1>4, <1>5 DEF Next, Step

\* Until a load fails the flag "running" is a lock.
LEMMA LockHolds == Spec => []LockUntilError
<1>1. Init => LockUntilError
    BY DEF LockUntilError, Init, Lock, GenBound, OneExecutionPerEntry, RunningIffExecuted, Current, Executing, Idle
<1>2. TypeOK /\ TypeOK' /\ LockUntilError /\ [Next]_vars => LockUntilError'
    BY LockStep
<1> QED BY <1>1, <1>2, TypeCorrect, PTL DEF Spec

\* Until the first load fails, two goroutines that started between the same two
\* loads never execute the same entry of the list at a time.
THEOREM OneExecution == Spec => [](loadErrors = 0 => OneExecutionPerEntry)
<1>1. LockUntilError => (loadErrors = 0 => OneExecutionPerEntry)
    BY DEF LockUntilError, Lock
<1> QED BY <1>1, LockHolds, PTL

\* Until the first load fails, the mark of an entry is held by a goroutine that
\* will clear it: no entry stays marked without being executed, and results go
\* to the entry of the task they are of.
THEOREM RunningIsALock == Spec => [](loadErrors = 0 => RunningIffExecuted)
<1>1. LockUntilError => (loadErrors = 0 => RunningIffExecuted)
    BY DEF LockUntilError, Lock
<1> QED BY <1>1, LockHolds, PTL
-----------------------------------------------------------------------------
(* The list of a settled scheduler, whether loads fail or not.  What ends     *)
(* late could put an entry of an older list into the new one; so the          *)
(* inductive invariant says that an execution that will still write its copy  *)
(* back has the entry of its task.  While loadTasks is set nothing is said,   *)
(* as a failing load may have dropped the entry.                              *)

CurrentHasEntry ==
    \A r \in Runners : Current(r) =>
        /\ runner[r].idx \in DOMAIN tasks
        /\ tasks[runner[r].idx].name = runner[r].task.name

Fit ==
    /\ GenBound
    /\ now # 0
    /\ ~loadTasks => CurrentHasEntry
    /\ ListFitsRole

\* two lists of the same tasks in the same order
SameNames(l, m) == DOMAIN l = DOMAIN m /\ Len(l) = Len(m) /\ \A i \in DOMAIN m : l[i].name = m[i].name

\* The first and last parts of Fit, for steps that leave the list's tasks alone.
LEMMA ListUnchanged ==
    ASSUME ListFitsRole, SameNames(tasks', tasks), UNCHANGED isMaster,
           LoadedNames' \cap SystemTasks = LoadedNames \cap SystemTasks,
           LoadedNames' \subseteq LoadedNames, Settled' /\ ~missed' => Settled /\ ~missed
    PROVE  ListFitsRole'
<1> DEFINE listed == {tasks[i].name : i \in DOMAIN tasks}
<1>1. listed' = listed
    BY DEF SameNames
<1>2. Len(tasks') = Len(tasks)
    BY DEF SameNames
<1> HIDE DEF listed
<1>3. SUFFICES ASSUME Settled', ~missed'
      PROVE  /\ listed' \cap SystemTasks = LoadedNames' \cap SystemTasks
             /\ LoadedNames' \subseteq listed'
             /\ ~isMaster' => listed' \cap PgFunctions = {}
             /\ Cardinality(listed') = Len(tasks')
    BY DEF ListFitsRole, listed
<1>4. /\ listed \cap SystemTasks = LoadedNames \cap SystemTasks
      /\ LoadedNames \subseteq listed
      /\ ~isMaster => listed \cap PgFunctions = {}
      /\ Cardinality(listed) = Len(tasks)
    BY <1>3 DEF ListFitsRole, listed
<1> QED BY <1>1, <1>2, <1>4

\* A loaded list has exactly one entry for every task the node is to execute:
\* as many entries as tasks, all with different names, are all of them.
LEMMA LoadedListIsComplete ==
    ASSUME TypeOK, NEW l \in LoadedLists
    PROVE  /\ {l[i].name : i \in DOMAIN l} = LoadedNames
           /\ Len(l) = Cardinality(LoadedNames)
<1> DEFINE k == Cardinality(LoadedNames)
           E == UNION {FreshEntries(n) : n \in LoadedNames}
<1>1. LoadedNames \subseteq Names
    BY DEF LoadedNames, TypeOK
<1>2. IsFiniteSet(LoadedNames) /\ k \in Nat
    BY <1>1, FS_Subset, FS_CardinalityType, SchedulerAssumption
<1>3. PICK q \in [1 .. k -> E] :
        /\ l = <<>> \o q
        /\ \A i, j \in DOMAIN q : q[i].name = q[j].name => i = j
    BY DEF LoadedLists, ResetList
<1>4. \A e \in E : e \in Entry /\ e.name \in LoadedNames
  <2> SUFFICES ASSUME NEW e \in E PROVE e \in Entry /\ e.name \in LoadedNames
    OBVIOUS
  <2>1. PICK n \in LoadedNames : e \in FreshEntries(n)
    OBVIOUS
  <2> QED BY <1>1, <2>1, FreshEntriesType
<1>5. q \in Seq(Entry) /\ Len(q) = k /\ DOMAIN q = 1 .. k
    BY <1>2, <1>4
<1>6. l = q
    BY <1>3, <1>5
<1> DEFINE f == [i \in 1 .. k |-> q[i].name]
<1>7. f \in Injection(1 .. k, LoadedNames)
  <2>1. \A i \in 1 .. k : q[i].name \in LoadedNames
      BY <1>3, <1>4
  <2>2. f \in [1 .. k -> LoadedNames]
      BY <2>1
  <2>3. \A i, j \in 1 .. k : f[i] = f[j] => i = j
      BY <1>3, <1>5
  <2> HIDE DEF f
  <2> QED BY <2>2, <2>3 DEF Injection, IsInjective
<1>8. f \in Surjection(1 .. k, LoadedNames)
  <2>1. IsFiniteSet(1 .. k) /\ Cardinality(1 .. k) = k
      BY <1>2, FS_Interval
  <2> HIDE DEF f
  <2> QED BY <2>1, <1>7, <1>2, FS_Injection
<1>9. {q[i].name : i \in DOMAIN q} = LoadedNames
  <2>1. \A n \in LoadedNames : \E i \in 1 .. k : f[i] = n
    <3> HIDE DEF f
    <3> QED BY <1>8 DEF Surjection
  <2> QED BY <2>1, <1>3, <1>4, <1>5
<1> QED BY <1>5, <1>6, <1>9

\* A step that leaves the list, its load and the executions alone keeps what is
\* said of them.
LEMMA FitRest ==
    Fit /\ UNCHANGED <<tasks, loadTasks, loadCounter, runner>> =>
        GenBound' /\ (~loadTasks' => CurrentHasEntry')
BY DEF Fit, GenBound, CurrentHasEntry, Current, Executing

LEMMA SameNamesRefl == SameNames(tasks, tasks)
BY DEF SameNames

\* A reload makes the list fit, and takes the hold on it from all executions.
LEMMA FitSchedule == ASSUME TypeOK, Fit, RunTasksBySchedule PROVE Fit'
<1>1. CASE ~loadTasks
  <2>1. /\ UNCHANGED <<tasks, loadTasks, loadCounter, runner, restarts, sending, informing,
                      exclusive, isMaster, active, dateAttempt, now>>
        /\ missed' = missed
      BY <1>1 DEF RunTasksBySchedule, TypeOK, db
  <2>2. ListFitsRole'
      BY <2>1, SameNamesRefl, ListUnchanged DEF Fit, LoadedNames, LoadedSchedules, Settled, signals
  <2> QED BY <2>1, <2>2, FitRest DEF Fit
<1>2. CASE loadTasks
  <2>1. /\ tasks' \in LoadedLists /\ loadCounter' = loadCounter + 1
        /\ UNCHANGED <<runner, isMaster, active, dateAttempt, now>>
      BY <1>2 DEF RunTasksBySchedule, db
  <2>2. \A r \in Runners : Executing(r) => runner[r].gen \in Nat /\ runner[r].gen <= loadCounter
    <3> SUFFICES ASSUME NEW r \in Runners, Executing(r)
                 PROVE  runner[r].gen \in Nat /\ runner[r].gen <= loadCounter
        OBVIOUS
    <3>1. runner[r] \in Running
        BY DEF TypeOK, Executing, Idle
    <3> QED BY <3>1 DEF Fit, GenBound, Running
  <2>3. loadCounter \in Nat
      BY DEF TypeOK
  <2>4. GenBound'
      BY <2>1, <2>2, <2>3 DEF GenBound, Executing
  <2>5. CurrentHasEntry'
      BY <2>1, <2>2, <2>3 DEF CurrentHasEntry, Current, Executing
  <2>6. /\ {tasks'[i].name : i \in DOMAIN tasks'} = LoadedNames
        /\ Len(tasks') = Cardinality(LoadedNames)
      BY <2>1, LoadedListIsComplete
  <2>7. LoadedNames' = LoadedNames
      BY <2>1 DEF LoadedNames, LoadedSchedules
  <2>8. ~isMaster' => LoadedNames \cap PgFunctions = {}
      BY <2>1, SchedulerAssumption DEF LoadedNames
  <2>9. ListFitsRole'
      BY <2>6, <2>7, <2>8 DEF ListFitsRole
  <2> QED BY <2>1, <2>4, <2>5, <2>9 DEF Fit
<1> QED BY <1>1, <1>2

\* Entries are marked, and started by hand, under the name they have.
LEMMA FitStart ==
    ASSUME NEW r \in Runners, NEW i \in Slots, NEW n \in Names, TypeOK, Fit, StartTask(r, i, n)
    PROVE  Fit'
<1> DEFINE e == [tasks[i] EXCEPT !.running = TRUE]
           x == [idle |-> FALSE, stored |-> FALSE, idx |-> i, gen |-> loadCounter, task |-> e]
<1>1. i \in DOMAIN tasks /\ tasks \in Seq(Entry)
    BY DEF StartTask, Slots, TypeOK
<1>2. tasks[i] \in Entry
    BY <1>1, ElementOfSeq
<1>3. e.name = tasks[i].name
    BY <1>2 DEF Entry
<1>4. tasks' = [tasks EXCEPT ![i] = e] /\ tasks'[i] = e
    BY <1>1 DEF StartTask
<1>5. /\ runner' = [runner EXCEPT ![r] = x]
      /\ UNCHANGED <<loadCounter, loadTasks, signals, exclusive, isMaster, active, dateAttempt, now>>
    BY <1>4 DEF StartTask, signals, db
<1>6. runner'[r] = x /\ (\A q \in Runners \ {r} : runner'[q] = runner[q])
    BY <1>5 DEF TypeOK
<1> HIDE DEF e
<1>7. SameNames(tasks', tasks)
    BY <1>1, <1>3, <1>4 DEF SameNames
<1>8. GenBound'
    BY <1>5, <1>6 DEF GenBound, Fit, TypeOK, Executing
<1>9. ASSUME ~loadTasks PROVE CurrentHasEntry'
  <2> SUFFICES ASSUME NEW q \in Runners, Current(q)'
               PROVE  /\ runner'[q].idx \in DOMAIN tasks'
                      /\ tasks'[runner'[q].idx].name = runner'[q].task.name
      BY DEF CurrentHasEntry
  <2>1. CASE q = r
      BY <2>1, <1>1, <1>3, <1>4, <1>6, <1>7 DEF SameNames
  <2>2. CASE q # r
    <3>1. Current(q) /\ runner'[q] = runner[q]
        BY <2>2, <1>5, <1>6 DEF Current, Executing
    <3>2. runner[q].idx \in DOMAIN tasks /\ tasks[runner[q].idx].name = runner[q].task.name
        BY <3>1, <1>9 DEF Fit, CurrentHasEntry
    <3> QED BY <3>1, <3>2, <1>7 DEF SameNames
  <2> QED BY <2>1, <2>2
<1>10. ListFitsRole'
    BY <1>5, <1>7, ListUnchanged DEF Fit, LoadedNames, LoadedSchedules, Settled, signals
<1> QED BY <1>5, <1>8, <1>9, <1>10 DEF Fit

LEMMA FitDirectly ==
    ASSUME NEW n \in Names, NEW s \in ScheduleOf[n], TypeOK, Fit, RunTaskDirectly(n, s)
    PROVE  Fit'
<1>1. PICK i \in DOMAIN tasks : tasks' = [tasks EXCEPT ![i].sched = s]
    BY DEF RunTaskDirectly
<1>2. UNCHANGED <<loadCounter, loadTasks, runner, signals, exclusive, isMaster, active,
                  dateAttempt, now>>
    BY DEF RunTaskDirectly, signals, db
<1>3. tasks \in Seq(Entry) /\ \A j \in DOMAIN tasks : tasks[j] \in Entry
    BY ElementOfSeq DEF TypeOK
<1>4. SameNames(tasks', tasks)
    BY <1>1, <1>3 DEF SameNames, Entry
<1>5. GenBound'
    BY <1>2 DEF GenBound, Fit, Executing
<1>6. ~loadTasks => CurrentHasEntry'
    BY <1>2, <1>4 DEF CurrentHasEntry, Fit, Current, Executing, SameNames
<1>7. ListFitsRole'
    BY <1>2, <1>4, ListUnchanged DEF Fit, LoadedNames, LoadedSchedules, Settled, signals
<1> QED BY <1>2, <1>5, <1>6, <1>7 DEF Fit

\* Storing an attempt takes a "once" schedule from what there is to load, and
\* nothing else: the time it stores is never 0.
LEMMA FitStore ==
    ASSUME NEW r \in Runners, TypeOK, Fit, StoreAttempt(r)
    PROVE  Fit'
<1>1. /\ UNCHANGED <<tasks, loadTasks, loadCounter, signals, exclusive, isMaster, active, now>>
      /\ runner' = [runner EXCEPT ![r].stored = TRUE]
    BY DEF StoreAttempt, list, signals
<1>2. runner \in [Runners -> {Idle} \cup Running] /\ runner[r] \in Running
    BY DEF TypeOK, StoreAttempt, Idle
<1>3. \A q \in Runners : /\ runner'[q].idle = runner[q].idle /\ runner'[q].gen = runner[q].gen
                         /\ runner'[q].idx = runner[q].idx /\ runner'[q].task = runner[q].task
    BY <1>1, <1>2 DEF Running
<1>4. \A s \in Schedules : dateAttempt'[s] = 0 => dateAttempt[s] = 0
    BY DEF StoreAttempt, TypeOK, Fit
<1>5. \A n \in Names : LoadedSchedules(n)' \subseteq LoadedSchedules(n)
    BY <1>4, SchedulerAssumption DEF LoadedSchedules
<1>6. /\ LoadedNames' \cap SystemTasks = LoadedNames \cap SystemTasks
      /\ LoadedNames' \subseteq LoadedNames
    BY <1>1, <1>5 DEF LoadedNames, TypeOK
<1>7. ListFitsRole'
    BY <1>1, <1>6, SameNamesRefl, ListUnchanged DEF Fit, Settled, signals
<1>8. GenBound' /\ (~loadTasks => CurrentHasEntry')
    BY <1>1, <1>3 DEF Fit, GenBound, CurrentHasEntry, Current, Executing
<1> QED BY <1>1, <1>7, <1>8 DEF Fit

\* A copy that is written back is one of the entry's own task.
LEMMA FitEnd ==
    ASSUME NEW r \in Runners, TypeOK, Fit, EndTask(r)
    PROVE  Fit'
<1> DEFINE i == runner[r].idx
<1>1. /\ runner \in [Runners -> {Idle} \cup Running] /\ runner[r] \in Running
      /\ tasks \in Seq(Entry) /\ now \in Time
    BY DEF TypeOK, EndTask, Idle
<1>2. /\ runner' = [runner EXCEPT ![r] = Idle]
      /\ UNCHANGED <<loadCounter, loadTasks, signals, exclusive, isMaster, active, dateAttempt, now>>
    BY DEF EndTask, signals, db
<1>3. ~Executing(r)' /\ ~Current(r)'
    BY <1>1, <1>2 DEF Executing, Current, Idle
<1>4. \A q \in Runners \ {r} : /\ runner'[q] = runner[q]
                               /\ Executing(q)' = Executing(q) /\ Current(q)' = Current(q)
    BY <1>1, <1>2 DEF Executing, Current
<1>5. GenBound'
    BY <1>2, <1>3, <1>4 DEF GenBound, Fit
<1>6. ~loadTasks => SameNames(tasks', tasks)
  <2>1. CASE NotReloaded(r) /\ i <= Len(tasks)
    <3>1. i \in DOMAIN tasks /\ runner[r].task \in Entry /\ Current(r)
        BY <1>1, <2>1 DEF Running, NotReloaded, Current, Executing, EndTask
    <3>2. PICK t \in Finished(runner[r].task) : tasks' = [tasks EXCEPT ![i] = t]
        BY <2>1 DEF EndTask
    <3>3. t \in Entry /\ t.name = runner[r].task.name
        BY <1>1, <3>1, <3>2, FinishedType
    <3>4. ~loadTasks => t.name = tasks[i].name
        BY <3>1, <3>3 DEF Fit, CurrentHasEntry
    <3> QED BY <1>1, <3>1, <3>2, <3>4 DEF SameNames
  <2>2. CASE ~(NotReloaded(r) /\ i <= Len(tasks))
    <3>1. tasks' = tasks
        BY <2>2 DEF EndTask
    <3> QED BY <3>1, SameNamesRefl
  <2> QED BY <2>1, <2>2
<1>7. ~loadTasks => CurrentHasEntry'
    BY <1>3, <1>4, <1>6 DEF CurrentHasEntry, Fit, SameNames
<1>8. ListFitsRole'
  <2>1. CASE loadTasks
      BY <2>1, <1>2 DEF ListFitsRole, Settled
  <2>2. CASE ~loadTasks
      BY <2>2, <1>2, <1>6, ListUnchanged DEF Fit, LoadedNames, LoadedSchedules, Settled, signals
  <2> QED BY <2>1, <2>2
<1> QED BY <1>2, <1>5, <1>7, <1>8 DEF Fit

\* What changes the role or the tasks has a request for a reload on its way, or
\* is remembered as never announced.
LEMMA FitStep == TypeOK /\ TypeOK' /\ Fit /\ [Next]_vars => Fit'
<1> SUFFICES ASSUME TypeOK, TypeOK', Fit, [Next]_vars PROVE Fit'
    OBVIOUS
<1> DEFINE Same == UNCHANGED <<tasks, loadTasks, loadCounter, runner, signals, isMaster, active,
                               dateAttempt>>
<1>0. ASSUME Same, now' = now \/ now' = now + 1,
             exclusive' = exclusive \/ exclusive = "free" \/ exclusive = "import"
      PROVE  Fit'
  <2>1. ListFitsRole'
      BY <1>0, SameNamesRefl, ListUnchanged DEF Fit, LoadedNames, LoadedSchedules, Settled, signals
  <2>2. now' # 0
      BY <1>0 DEF Fit, TypeOK, Time
  <2> QED BY <1>0, <2>1, <2>2, FitRest DEF Fit
<1>1. CASE Loop
  <2>1. CASE LoopLock
      BY <1>0, <2>1 DEF LoopLock, list, db
  <2>2. CASE LoadFails
    <3>1. loadTasks' /\ UNCHANGED <<loadCounter, runner, now>>
        BY <2>2 DEF LoadFails
    <3> QED BY <3>1 DEF Fit, GenBound, Executing, ListFitsRole, Settled
  <2> QED BY <1>1, <2>1, <2>2, FitSchedule DEF Loop
<1>2. ASSUME NEW r \in Runners, RunTaskByIndex(r) PROVE Fit'
  <2>1. ASSUME NEW i \in Slots, NEW n \in Names, SkipTask(i, n) \/ IndexPanic(i, n) PROVE Fit'
      BY <1>0, <2>1 DEF SkipTask, IndexPanic, list, threads, db
  <2> QED BY <1>2, <2>1, FitStart, FitStore, FitEnd DEF RunTaskByIndex
<1>3. CASE RestartListener
  <2>1. loadTasks' /\ UNCHANGED <<loadCounter, runner, now>>
      BY <1>3 DEF RestartListener, threads
  <2> QED BY <2>1 DEF Fit, GenBound, Executing, ListFitsRole, Settled
<1>4. CASE \/ Send \/ MasterAssigned \/ TransferEnd \/ Inform \/ InformLost
           \/ \E n \in PgFunctions : TransferCommit(n) \/ TransferUnannounced(n)
           \/ \E n \in Names : TaskSet(n)
  <2>1. UNCHANGED <<tasks, loadTasks, loadCounter, runner, now>>
      BY <1>4 DEF Send, MasterAssigned, TransferEnd, TransferCommit, TransferUnannounced, Inform,
                  InformLost, TaskSet, list, threads
  <2>2. restarts' > 0 \/ sending' > 0 \/ informing' > 0 \/ exclusive' = "announce" \/ missed'
      BY <1>4 DEF Send, MasterAssigned, TransferEnd, TransferCommit, TransferUnannounced, Inform,
                  InformLost, TaskSet, TypeOK
  <2>3. ListFitsRole'
      BY <2>2 DEF ListFitsRole, Settled, TypeOK
  <2> QED BY <2>1, <2>3, FitRest DEF Fit
<1>5. ASSUME NEW n \in Names, NEW s \in ScheduleOf[n], RunTaskDirectly(n, s) PROVE Fit'
    BY <1>5, FitDirectly
<1>6. CASE TransferStart \/ TransferFails \/ Tick
    BY <1>0, <1>6 DEF TransferStart, TransferFails, Tick, list, threads, db
<1>7. CASE UNCHANGED vars
    BY <1>0, <1>7 DEF vars, list, threads, db
<1> QED BY <1>1, <1>2, <1>3, <1>4, <1>5, <1>6, <1>7 DEF Next, Step, Environment, Transfer

\* Whenever no request for a reload is on its way, and no change was left
\* unannounced since the last load, the list is the one of the node's role and
\* of the database, each task in it once, although loads fail halfway and
\* executions of older lists end late.
THEOREM SettledListFits == Spec => []ListFitsRole
<1>1. Init => Fit
    BY DEF Init, Fit, GenBound, ListFitsRole, Settled, Executing, Idle
<1>2. TypeOK /\ TypeOK' /\ Fit /\ [Next]_vars => Fit'
    BY FitStep
<1>3. Fit => ListFitsRole
    BY DEF Fit
<1> QED BY <1>1, <1>2, <1>3, TypeCorrect, PTL DEF Spec
=============================================================================
