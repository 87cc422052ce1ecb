CONSTANTS
    checkIn = checkIn
    mailSend = mailSend
    fnc = fnc
    sCheckIn = sCheckIn
    sMail = sMail
    sOnce = sOnce
    MasterOnly <- MCMasterOnly
    RunAtFirstLoad <- MCRunAtFirst
    PgFunctions <- MCFunctions
    Schedules <- MCSchedules
    Once <- MCOnce
    Interval <- MCInterval
    SystemTasks = {mailSend}
    ScheduleOf <- MCScheduleOf
    Runners = {r1, r2}
    RestartCap = 2
    MaxTime = 2
    MaxSpawned = 2
    MaxChanges = 2
    MaxDirect = 1
    MaxLoadErrors = 0
SPECIFICATION Spec
INVARIANTS
    TypeOK
    OneExecutionPerEntry
    RunningIffExecuted
    ListFitsRole
SYMMETRY Symmetry
