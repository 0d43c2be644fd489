CONSTANTS
    Names = {h, a, x}
    Agents = {x}
    Founders = {h}
    Requests = {r1}
    JoinCalls = {c1}
    StatusCalls = {q1, q2}
    MaxAgents = 2
    LocalApproval = TRUE
    RepliesLost = FALSE
    NoName = NoName
    NoRequest = NoRequest
SPECIFICATION FairSpec
PROPERTIES ApprovedGetsToken
