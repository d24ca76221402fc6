CONSTANTS
    Messages = {m1, m2}
    MaxVersion = 2
    MaxDequeue = 2
    LockOutlasts = TRUE
    FailClosed = FALSE
    Faults = {"fail", "store", "refused", "lostAnswer", "archive", "ttl"}
    MaxFaults = 2
SPECIFICATION FairSpec
INVARIANTS
    OutcomeMeansApplied
    CompletedRunIsWhole
PROPERTIES
    OldReportOnlyIfOvertaken
    GuardsTheWrite
    AnnouncedIsAnswered
CHECK_DEADLOCK FALSE
