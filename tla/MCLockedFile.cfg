CONSTANTS
    Proc = {p1, p2}
    Names = {a, b}
    Value <- MCValue
    InitValue = {}
    Failed = Failed
    Ops <- MCOps
    NoOp = NoOp
    NoProc = NoProc
SPECIFICATION FairSpec
INVARIANTS TypeOK SnapshotFresh
PROPERTIES LockGivenBack ImplementsAtomicFile
