CONSTANTS
    checkIn = checkIn
    mailSend = mailSend
    fnc = fnc
    sCheckIn = sCheckIn
    sMail = sMail
    sOnce = sOnce
    MasterOnly <- MCMasterOnly
    RunAtFirstLoad <- MCRunAtFirst
    PgFunctions <- MCFunctions
    Schedules <- MCSchedules
    Once <- MCOnce
    Interval <- MCInterval
    SystemTasks = {checkIn}
    ScheduleOf <- MCScheduleOf
    Runners = {r1}
    RestartCap = 1
    MaxTime = 2
    MaxSpawned = 1
    MaxChanges = 2
    MaxDirect = 0
    MaxLoadErrors = 1
SPECIFICATION FairSpec
PROPERTIES
    RestartTakesEffect
CHECK_DEADLOCK FALSE
