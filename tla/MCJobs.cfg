SPECIFICATION JobsSpec
CONSTANTS
    e1 = e1  e2 = e2
    Runners = {w1, w2}
    Emails <- MCEmails
    Imports <- MCImports
    MaxJobs = 2
INVARIANTS
    RunsOnce
    TallyIsTrue
PROPERTIES
    EndingStands
    NoExportAfterPurge
    JobsSettle
CHECK_DEADLOCK FALSE
