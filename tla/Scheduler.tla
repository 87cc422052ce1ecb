------------------------------ MODULE Scheduler ------------------------------
(* The task scheduler of one REI3 node (scheduler/scheduler.go).            *)
(*                                                                          *)
(* A loop looks at the task list once per interval, reloads it from the     *)
(* database when asked to, and starts a goroutine for every entry that is   *)
(* due.  Goroutines are given an INDEX into the list; they take the list's  *)
(* mutex (change_mx) twice, once to mark the entry as running and once to   *)
(* write their copy of it back, unless the list was reloaded in between.    *)
(* Everything under change_mx is one action; the loop is two (taking        *)
(* change_mx, then getting the read locks of transfer and schema cache),    *)
(* because it waits for the second while it holds the first.  A loop that   *)
(* is stopped is one that takes no further step.                            *)
EXTENDS Integers, Sequences, FiniteSets

CONSTANTS
    SystemTasks,      \* names of system tasks (instance.task)
    MasterOnly,       \* system tasks only the cluster master executes
    RunAtFirstLoad,   \* system tasks that do not wait an interval ("updateCheck")
    PgFunctions,      \* PG functions with schedules (always cluster master only)
    Schedules,        \* rows of instance.schedule
    ScheduleOf,       \* task name -> its schedules, one for a system task
    Once,             \* schedules of interval type "once"
    Interval,         \* schedule -> distance of its runs; its calendar is left out
    Runners,          \* bound: goroutines that execute a task at a time
    RestartCap,       \* signals in the channel SchedulerRestart and its listener's hands
    MaxTime,          \* bound of the clock
    MaxSpawned,       \* bound: goroutines with the same index waiting for change_mx
    MaxChanges,       \* bound: role, task and schema changes
    MaxDirect,        \* bound: tasks triggered by hand
    MaxLoadErrors     \* bound: database errors while loading the list

Names == SystemTasks \cup PgFunctions

ASSUME SchedulerAssumption ==
    /\ IsFiniteSet(Names)
    /\ SystemTasks \cap PgFunctions = {}
    /\ MasterOnly \subseteq SystemTasks
    /\ RunAtFirstLoad \subseteq SystemTasks
    /\ Once \subseteq Schedules
    /\ Interval \in [Schedules -> Nat \ {0}]
    /\ ScheduleOf \in [Names -> (SUBSET Schedules) \ {{}}]
    /\ \A n \in SystemTasks : \A s, u \in ScheduleOf[n] : s = u /\ s \notin Once
    /\ RestartCap \in Nat \ {0}
    /\ MaxTime \in Nat \ {0} /\ MaxSpawned \in Nat /\ MaxChanges \in Nat
    /\ MaxDirect \in Nat /\ MaxLoadErrors \in Nat

VARIABLES
    tasks,              \* the list: Seq of Entry
    loadTasks,          \* list is to be reloaded by the next loop
    loadCounter,        \* number of completed loads
    nextExecutionUnix,  \* earliest run the loop waits for, 0 if not known
    loop,               \* the loop's goroutine: "sleep", "locked" (has change_mx)
    spawned,            \* goroutines not yet past their first lock, by index and meant task
    runner,             \* goroutines executing a task
    restarts,           \* signals sent to SchedulerRestart and not yet served
    sending,            \* goroutines about to send to SchedulerRestart
    informing,          \* changes in the database this node is still to be told of
    missed,             \* since the last load, a change was made and never announced
    isMaster,           \* cache.isClusterMaster
    active,             \* names the database has as active task or scheduled function
    dateAttempt,        \* date_attempt of schedules in the database, 0 if never run
    exclusive,          \* Import_mx: "free", or a transfer in "import" or "announce"
    now,                \* the clock
    changes, directs, loadErrors,  \* counters of the bounds
    crashed             \* the process has ended with a panic

list    == <<tasks, loadTasks, loadCounter, nextExecutionUnix>>
threads == <<loop, spawned, runner>>
signals == <<restarts, sending, informing, missed>>
db      == <<active, dateAttempt>>
bounds  == <<changes, directs, loadErrors>>
vars    == <<list, threads, signals, isMaster, db, exclusive, now, bounds, crashed>>

Stopped == -1                              \* runNextUnix of a task without further run
Time    == 0 .. MaxTime
LastRunTimes == UNION {[S -> Time] : S \in SUBSET Schedules}
Entry   == [name: Names, running: BOOLEAN, runNext: Int, sched: Schedules, last: LastRunTimes]
Idle    == [idle |-> TRUE]
Running == [idle: {FALSE}, stored: BOOLEAN, idx: Nat \ {0}, gen: Nat, task: Entry]
Slots   == 1 .. Cardinality(Names)

-----------------------------------------------------------------------------
(* Schedules *)

\* unix time of a schedule's next run, if it ran last at the given time
NextRunFromSchedule(s, last) ==
    IF s \in Once THEN IF last # 0 THEN Stopped ELSE now
                  ELSE last + Interval[s]

\* next run of a task and the schedule it belongs to: any of the earliest, as
\* the schedules are visited in the random order of a map
NextRuns(last) ==
    LET at(s) == NextRunFromSchedule(s, last[s])
        live  == {s \in DOMAIN last : at(s) # Stopped}
        first == IF live = {} THEN DOMAIN last
                 ELSE {s \in live : \A u \in live : at(s) <= at(u)}
    IN  {[runNext |-> at(s), sched |-> s] : s \in first}

-----------------------------------------------------------------------------
(* Loading the list *)

\* schedules that make it into a task: "once" only if it was never attempted
LoadedSchedules(n) == {s \in ScheduleOf[n] : s \notin Once \/ dateAttempt[s] = 0}

\* tasks this node has to execute
LoadedNames ==
    {n \in active :
        IF n \in SystemTasks THEN n \in MasterOnly => isMaster
                             ELSE isMaster /\ LoadedSchedules(n) # {}}

\* a system task that never ran starts counting now
LastRuns(n) ==
    [s \in LoadedSchedules(n) |->
        IF n \in SystemTasks \ RunAtFirstLoad /\ dateAttempt[s] = 0
        THEN now ELSE dateAttempt[s]]

FreshEntries(n) ==
    {[name |-> n, running |-> FALSE, runNext |-> r.runNext, sched |-> r.sched,
      last |-> LastRuns(n)] : r \in NextRuns(LastRuns(n))}

\* mutant: the old list is not dropped
ResetListForgotten == tasks

\* the list a load starts with
ResetList == <<>>

\* one entry per task, system tasks first, in the order of unsorted rows and maps
LoadedLists ==
    {ResetList \o l : l \in
        {q \in [1 .. Cardinality(LoadedNames) -> UNION {FreshEntries(n) : n \in LoadedNames}] :
            \A i, j \in DOMAIN q :
                /\ q[i].name = q[j].name => i = j
                /\ i < j /\ q[i].name \in PgFunctions => q[j].name \in PgFunctions}}

\* what is left in the list when a query fails: some of the system tasks
PartialLists ==
    UNION {{SubSeq(l, 1, k) : k \in 0 .. Cardinality(LoadedNames \cap SystemTasks)} :
           l \in LoadedLists}

-----------------------------------------------------------------------------
(* The loop *)

\* earliest run of entries that neither run nor are stopped, 0 if there is none
EarliestRun(l) ==
    LET at    == {l[i].runNext : i \in {j \in DOMAIN l : ~l[j].running}} \ {Stopped}
        first == {x \in at : \A y \in at : x <= y}
    IN  IF first = {} THEN 0 ELSE CHOOSE x \in first : TRUE

\* all entries that are due, running ones too
Due(l) == {i \in DOMAIN l : l[i].runNext # Stopped /\ l[i].runNext <= now}

\* start a goroutine for each index; more than MaxSpawned waiting are left out
Spawn(l, I) ==
    [k \in Slots \X Names |->
        IF k[1] \in I /\ l[k[1]].name = k[2] /\ spawned[k] < MaxSpawned
        THEN spawned[k] + 1 ELSE spawned[k]]

\* the loop wakes up and takes change_mx
LoopLock ==
    /\ loop = "sleep"
    /\ loop' = "locked"
    /\ UNCHANGED <<list, spawned, runner, signals, isMaster, db, exclusive, now, bounds, crashed>>

\* it has got the read locks: reload if requested, then start what is due
RunTasksBySchedule ==
    /\ loop = "locked"
    /\ exclusive = "free"
    /\ \E l \in IF loadTasks THEN LoadedLists ELSE {tasks} :
        LET known == IF loadTasks THEN 0 ELSE nextExecutionUnix
            next  == IF known = 0 THEN EarliestRun(l) ELSE known
            start == IF next # 0 /\ now >= next THEN Due(l) ELSE {}
        IN  /\ tasks' = l
            /\ nextExecutionUnix' = IF next # 0 /\ now >= next THEN 0 ELSE next
            /\ spawned' = Spawn(l, start)
    /\ loadCounter' = IF loadTasks THEN loadCounter + 1 ELSE loadCounter
    /\ loadTasks' = FALSE
    /\ missed' = (missed /\ ~loadTasks)
    /\ loop' = "sleep"
    /\ UNCHANGED <<runner, restarts, sending, informing, isMaster, db, exclusive, now, bounds, crashed>>

\* mutant: loadTasks is cleared before the database was read
LoadFailsOnce ==
    /\ loop = "locked" /\ exclusive = "free" /\ loadTasks /\ loadErrors < MaxLoadErrors
    /\ tasks' \in PartialLists
    /\ loadTasks' = FALSE
    /\ loadErrors' = loadErrors + 1
    /\ loop' = "sleep"
    /\ UNCHANGED <<loadCounter, nextExecutionUnix, spawned, runner, signals,
                   isMaster, db, exclusive, now, changes, directs, crashed>>

\* the reload fails: the list is already reset, loadCounter is not changed
LoadFails ==
    /\ loop = "locked"
    /\ exclusive = "free"
    /\ loadTasks
    /\ loadErrors < MaxLoadErrors
    /\ tasks' \in PartialLists
    /\ loadErrors' = loadErrors + 1
    /\ loop' = "sleep"
    /\ UNCHANGED <<loadTasks, loadCounter, nextExecutionUnix, spawned, runner, signals,
                   isMaster, db, exclusive, now, changes, directs, crashed>>

\* cluster event "taskTriggered": a system task, or a PG function by its schedule
RunTaskDirectly(n, s) ==
    /\ loop # "locked"
    /\ directs < MaxDirect
    /\ directs' = directs + 1
    /\ \E i \in DOMAIN tasks :
        /\ tasks[i].name = n
        /\ s \in DOMAIN tasks[i].last
        /\ tasks' = [tasks EXCEPT ![i].sched = s]
        /\ spawned' = Spawn(tasks, {i})
    /\ UNCHANGED <<loadTasks, loadCounter, nextExecutionUnix, loop, runner, signals,
                   isMaster, db, exclusive, now, changes, loadErrors, crashed>>

-----------------------------------------------------------------------------
(* runTaskByIndex *)

\* mutant: the check of "running" is missing
SkipsNever(i) == FALSE

\* a goroutine skips a task that is already running
Skips(i) == tasks[i].running

\* mutant: the load counters are not compared
NotReloadedAlways(r) == TRUE

\* the list was not reloaded since the execution started
NotReloaded(r) == runner[r].gen = loadCounter

Unspawn(i, n) == [spawned EXCEPT ![<<i, n>>] = @ - 1]

\* first lock: mark the entry as running and take a copy of it
StartTask(r, i, n) ==
    /\ loop # "locked"
    /\ runner[r].idle
    /\ spawned[<<i, n>>] > 0
    /\ i <= Len(tasks)
    /\ ~Skips(i)
    /\ tasks' = [tasks EXCEPT ![i].running = TRUE]
    /\ runner' = [runner EXCEPT ![r] = [idle |-> FALSE, stored |-> FALSE, idx |-> i,
                                        gen |-> loadCounter, task |-> tasks'[i]]]
    /\ spawned' = Unspawn(i, n)
    /\ UNCHANGED <<loadTasks, loadCounter, nextExecutionUnix, loop, signals, isMaster,
                   db, exclusive, now, bounds, crashed>>

SkipTask(i, n) ==
    /\ loop # "locked"
    /\ spawned[<<i, n>>] > 0
    /\ i <= Len(tasks)
    /\ Skips(i)
    /\ spawned' = Unspawn(i, n)
    /\ UNCHANGED <<list, loop, runner, signals, isMaster, db, exclusive, now, bounds, crashed>>

\* the list has become shorter than the index: the process panics
IndexPanic(i, n) ==
    /\ loop # "locked"
    /\ spawned[<<i, n>>] > 0
    /\ i > Len(tasks)
    /\ crashed' = TRUE
    /\ UNCHANGED <<list, threads, signals, isMaster, db, exclusive, now, bounds>>

\* storeTaskDate(t, "attempt"); an error is logged and ignored
StoreAttempt(r) ==
    /\ ~runner[r].idle
    /\ ~runner[r].stored
    /\ runner' = [runner EXCEPT ![r].stored = TRUE]
    /\ dateAttempt' \in {dateAttempt, [dateAttempt EXCEPT ![runner[r].task.sched] = now]}
    /\ UNCHANGED <<list, loop, spawned, signals, isMaster, active, exclusive, now, bounds, crashed>>

\* mutant: t.running = false is missing
FinishedStillRunning(t) ==
    LET last == [t.last EXCEPT ![t.sched] = now]
    IN  {[t EXCEPT !.last = last, !.runNext = n.runNext, !.sched = n.sched] : n \in NextRuns(last)}

\* the copy after the task was executed, with or without success
Finished(t) ==
    LET last == [t.last EXCEPT ![t.sched] = now]
    IN  {[t EXCEPT !.running = FALSE, !.last = last,
                   !.runNext = n.runNext, !.sched = n.sched] : n \in NextRuns(last)}

\* the task ends; second lock: update the list if it was not reloaded
EndTask(r) ==
    LET i == runner[r].idx
    IN  /\ loop # "locked"
        /\ ~runner[r].idle
        /\ runner[r].stored
        /\ IF NotReloaded(r)
           THEN IF i <= Len(tasks)
                THEN \E t \in Finished(runner[r].task) :
                        tasks' = [tasks EXCEPT ![i] = t] /\ UNCHANGED crashed
                ELSE crashed' = TRUE /\ UNCHANGED tasks
           ELSE UNCHANGED <<tasks, crashed>>
        /\ runner' = [runner EXCEPT ![r] = Idle]
        /\ UNCHANGED <<loadTasks, loadCounter, nextExecutionUnix, loop, spawned, signals,
                       isMaster, db, exclusive, now, bounds>>

-----------------------------------------------------------------------------
(* Restart of the scheduler and what asks for it *)

\* a goroutine sends its restart once the channel has room
Send ==
    /\ sending > 0
    /\ restarts < RestartCap
    /\ sending' = sending - 1
    /\ restarts' = restarts + 1
    /\ UNCHANGED <<list, threads, informing, missed, isMaster, db, exclusive, now, bounds, crashed>>

\* the listener goroutine takes a signal and waits for change_mx
RestartListener ==
    /\ restarts > 0
    /\ loop # "locked"
    /\ restarts' = restarts - 1
    /\ loadTasks' = TRUE
    /\ UNCHANGED <<tasks, loadCounter, nextExecutionUnix, threads, sending, informing, missed,
                   isMaster, db, exclusive, now, bounds, crashed>>

\* cluster event "masterAssigned": the role is set, then the restart is sent
MasterAssigned ==
    /\ changes < MaxChanges
    /\ changes' = changes + 1
    /\ isMaster' = ~isMaster
    /\ sending' = sending + 1
    /\ UNCHANGED <<list, threads, restarts, informing, missed, db, exclusive, now, directs,
                   loadErrors, crashed>>

\* database with the task or schedule n added or taken away
Toggled(n) == IF n \in active THEN active \ {n} ELSE active \cup {n}

\* an admin or another node changes a task or a schedule; that this node is
\* told is a second request of the admin's client, or a cluster event
TaskSet(n) ==
    /\ changes < MaxChanges
    /\ changes' = changes + 1
    /\ active' = Toggled(n)
    /\ informing' = informing + 1
    /\ UNCHANGED <<list, threads, restarts, sending, missed, isMaster, dateAttempt, exclusive,
                   now, directs, loadErrors, crashed>>

\* TasksChanged, SchemaChanged: this node is told and asks for a restart
Inform ==
    /\ informing > 0
    /\ informing' = informing - 1
    /\ sending' = sending + 1
    /\ UNCHANGED <<list, threads, restarts, missed, isMaster, db, exclusive, now, bounds, crashed>>

\* the second request is never sent or fails, or an error returns before the restart
InformLost ==
    /\ informing > 0
    /\ informing' = informing - 1
    /\ missed' = TRUE
    /\ UNCHANGED <<list, threads, restarts, sending, isMaster, db, exclusive, now, bounds, crashed>>

\* a transfer takes Import_mx, and holds it until it returns
TransferStart ==
    /\ changes < MaxChanges
    /\ changes' = changes + 1
    /\ exclusive = "free"
    /\ exclusive' = "import"
    /\ UNCHANGED <<list, threads, signals, isMaster, db, now, directs, loadErrors, crashed>>

\* it fails before its commit
TransferFails ==
    /\ exclusive = "import"
    /\ exclusive' = "free"
    /\ UNCHANGED <<list, threads, signals, isMaster, db, now, bounds, crashed>>

\* it commits and gets through SchemaChanged to the restart it sends
TransferCommit(n) ==
    /\ exclusive = "import"
    /\ exclusive' = "announce"
    /\ active' = Toggled(n)
    /\ UNCHANGED <<list, threads, signals, isMaster, dateAttempt, now, bounds, crashed>>

\* it commits, and SchemaChanged returns an error before its restart
TransferUnannounced(n) ==
    /\ exclusive = "import"
    /\ exclusive' = "free"
    /\ active' = Toggled(n)
    /\ missed' = TRUE
    /\ UNCHANGED <<list, threads, restarts, sending, informing, isMaster, dateAttempt, now,
                   bounds, crashed>>

\* the restart of a transfer is sent; only then Import_mx is unlocked
TransferEnd ==
    /\ exclusive = "announce"
    /\ restarts < RestartCap
    /\ restarts' = restarts + 1
    /\ exclusive' = "free"
    /\ UNCHANGED <<list, threads, sending, informing, missed, isMaster, db, now, bounds, crashed>>

Tick ==
    /\ now < MaxTime
    /\ now' = now + 1
    /\ UNCHANGED <<list, threads, signals, isMaster, db, exclusive, bounds, crashed>>

-----------------------------------------------------------------------------
Init ==
    /\ tasks = <<>> /\ loadTasks = TRUE /\ loadCounter = 0 /\ nextExecutionUnix = 0
    /\ loop = "sleep"
    /\ spawned = [k \in Slots \X Names |-> 0]
    /\ runner = [r \in Runners |-> Idle]
    /\ restarts = 0 /\ sending = 0 /\ informing = 0 /\ missed = FALSE
    /\ isMaster = FALSE
    /\ active = Names
    /\ dateAttempt = [s \in Schedules |-> 0]
    /\ exclusive = "free"
    /\ now = 1
    /\ changes = 0 /\ directs = 0 /\ loadErrors = 0
    /\ crashed = FALSE

Loop   == LoopLock \/ RunTasksBySchedule \/ LoadFails
RunTaskByIndex(r) ==
    \/ \E i \in Slots, n \in Names : StartTask(r, i, n) \/ SkipTask(i, n) \/ IndexPanic(i, n)
    \/ StoreAttempt(r)
    \/ EndTask(r)
Environment ==
    \/ \E n \in Names : \E s \in ScheduleOf[n] : RunTaskDirectly(n, s)
    \/ MasterAssigned
    \/ \E n \in Names : TaskSet(n)
    \/ TransferStart
    \/ Tick

Transfer ==
    \/ TransferFails
    \/ \E n \in PgFunctions : TransferCommit(n) \/ TransferUnannounced(n)

Step ==
    \/ Loop
    \/ \E r \in Runners : RunTaskByIndex(r)
    \/ Send
    \/ RestartListener
    \/ Inform
    \/ InformLost
    \/ Transfer
    \/ TransferEnd
    \/ Environment

\* a process that panicked does nothing more
Next == \/ ~crashed /\ Step
        \/ crashed /\ UNCHANGED vars

Spec == Init /\ [][Next]_vars

\* the loop never ends by itself, and goroutines that can go on do so; a
\* transfer comes to its commit or fails, and a node is told of a change or
\* will never be.  Sends and mutexes are granted in FIFO order, so a goroutine
\* that finds change_mx free again and again gets it in the end.
Fairness ==
    /\ WF_vars(LoopLock) /\ WF_vars(RunTasksBySchedule \/ LoadFails)
    /\ WF_vars(Send) /\ SF_vars(RestartListener)
    /\ WF_vars(Inform \/ InformLost) /\ WF_vars(Transfer) /\ WF_vars(TransferEnd)
    /\ \A r \in Runners : SF_vars(EndTask(r)) /\ WF_vars(StoreAttempt(r))

FairSpec == Init /\ [][Next]_vars /\ Fairness

-----------------------------------------------------------------------------
(* Properties *)

Executing(r) == ~runner[r].idle

\* executions that will write their copy back if the list stays as it is
Current(r) == Executing(r) /\ runner[r].gen = loadCounter

\* Types: among them, that the task list never has more entries than there are tasks,
\* and that goroutines that were started for it are counted right.
TypeOK ==
    /\ tasks \in Seq(Entry) /\ Len(tasks) <= Cardinality(Names)
    /\ loadTasks \in BOOLEAN /\ loadCounter \in Nat
    /\ nextExecutionUnix \in Int
    /\ loop \in {"sleep", "locked"}
    /\ spawned \in [Slots \X Names -> 0 .. MaxSpawned]
    /\ runner \in [Runners -> {Idle} \cup Running]
    /\ restarts \in 0 .. RestartCap /\ sending \in Nat /\ informing \in Nat
    /\ missed \in BOOLEAN /\ isMaster \in BOOLEAN /\ crashed \in BOOLEAN
    /\ exclusive \in {"free", "import", "announce"}
    /\ active \subseteq Names
    /\ dateAttempt \in [Schedules -> Time]
    /\ now \in Time
    /\ changes \in Nat /\ directs \in Nat /\ loadErrors \in Nat

\* The flag "running" keeps an entry of the list from being executed twice at
\* the same time: however goroutines queue up for an index, from the loop or by
\* hand, of those that started under one load only one executes it.
OneExecutionPerEntry ==
    \A r, q \in Runners :
        /\ Executing(r) /\ Executing(q) /\ r # q
        /\ runner[r].gen = runner[q].gen
        => runner[r].idx # runner[q].idx

\* No entry is stuck: one that is marked as running is being executed by a
\* goroutine that will clear the mark, since it started under the current load;
\* and an entry executed under the current load is marked, and is its task.
RunningIffExecuted ==
    /\ \A i \in DOMAIN tasks : tasks[i].running => \E r \in Runners : Current(r) /\ runner[r].idx = i
    /\ \A r \in Runners : Current(r) =>
        /\ runner[r].idx \in DOMAIN tasks
        /\ tasks[runner[r].idx].running
        /\ tasks[runner[r].idx].name = runner[r].task.name

\* nothing that asks for a reload is on its way
Settled ==
    ~loadTasks /\ restarts = 0 /\ sending = 0 /\ informing = 0 /\ exclusive # "announce"

\* Once every request for a restart has been served the list is the one of the
\* node's role and of the database: all active tasks for all nodes, those of
\* the master exactly if the node has the role, all functions still to be run,
\* and none of them twice, whatever results of the previous list came late.
\* Excepted is the time from a change whose announcement failed or was lost
\* ("missed") to the next load, which brings that change, too.
ListFitsRole ==
    Settled /\ ~missed =>
        LET listed == {tasks[i].name : i \in DOMAIN tasks}
        IN  /\ listed \cap SystemTasks = LoadedNames \cap SystemTasks
            /\ LoadedNames \subseteq listed
            /\ ~isMaster => listed \cap PgFunctions = {}
            /\ Cardinality(listed) = Len(tasks)

\* Comment of task.running: "task running state (block parallel execution)".
NoParallelExecution ==
    \A r, q \in Runners :
        Executing(r) /\ Executing(q) /\ r # q => runner[r].task.name # runner[q].task.name

\* The loop has change_mx and waits for a transfer, the transfer has Import_mx
\* and waits for room in SchedulerRestart, and the listener waits for change_mx.
Jammed == loop = "locked" /\ exclusive = "announce" /\ restarts = RestartCap

\* Every restart that is asked for takes effect: in the end all of them are
\* served and the list is the one of the node's role and database (but for a
\* change that was never announced, see ListFitsRole), although loads fail.
\* Only two things keep requests waiting for ever: the process ended, or so many
\* came during one transfer that the channel is full and everyone waits ("Jammed").
RestartTakesEffect == <>[]((Settled /\ ListFitsRole) \/ crashed \/ Jammed)
=============================================================================
