CONSTANTS
    Daemons = {d1, d2, d3}
    Stoppers = {s1}
    Clients = {}
    Names = {j1}
    Exprs <- MCOneExpr
    MaxTime = 0
    Never = Never
    NoExpiry = NoExpiry
    NoJob = NoJob
    NoFile = NoFile
    NoPid = NoPid
SPECIFICATION Spec
INVARIANTS TypeOK PidIsHolder
