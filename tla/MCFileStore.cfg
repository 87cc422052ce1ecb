CONSTANTS
    Files = {1, 2, 3}
    Records = {r1, r2}
    Mails = {m1, m2}
    Uploaders = {u1, u2}
    Attachers = {a1, a2}
    MaxVersion = 1
    KeepCount = 0
    NoRecord = NoRecord
    Cases <- FilesUsed
SPECIFICATION FairSpec
INVARIANTS
    TypeOK
    RecordsKeepFiles
    StoredIsKnown
    FilesOfTheirRecord
    MailAttachedOnce
PROPERTIES
    UnusedIsRemoved
    MailsAreAttached
CHECK_DEADLOCK FALSE
