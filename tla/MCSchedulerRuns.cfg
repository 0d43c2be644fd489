CONSTANTS
    Daemons = {d1, d2}
    Stoppers = {}
    Clients = {c1}
    Names = {j1}
    Exprs <- MCExprs
    MaxTime = 3
    Never = Never
    NoExpiry = NoExpiry
    NoJob = NoJob
    NoFile = NoFile
    NoPid = NoPid
SPECIFICATION FairSpec
INVARIANTS SingleDaemon LastRunCoversRuns
PROPERTIES RunsSpaced PurgeKeepsUnexpired DueJobsRun
