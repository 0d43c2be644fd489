CONSTANTS
    Names = {a, b, c, x}
    Agents = {x}
    Founders = {}
    Requests = {r1, r2}
    JoinCalls = {c1, c2}
    StatusCalls = {q1, q2}
    MaxAgents = 3
    LocalApproval = TRUE
    RepliesLost = TRUE
    NoName = NoName
    NoRequest = NoRequest
SPECIFICATION FairSpec
INVARIANTS TypeOK NamesDisjoint PendingDistinct ApprovalConsistent OneTokenPerApproval
PROPERTIES ApprovalReaches
