-------------------------- MODULE GroupMembership ---------------------------
(***************************************************************************)
(* Who belongs to a group: the join requests, their approval and the       *)
(* hand-over of member tokens (group.rs, and the group handlers of         *)
(* server.rs).                                                             *)
(*                                                                         *)
(* modify_group edits the group file under its lock, so its closure is one *)
(* step (module LockedFile).  The HTTP handlers first read the group       *)
(* without the lock and decide on that copy what the closure will be: that *)
(* read is a step of its own.                                              *)
(*                                                                         *)
(* A member has one token for ever, so the name stands for the token; a    *)
(* join request is created with one pre-auth token, so its id stands for   *)
(* it.  Names that differ in case only are one name.                       *)
(***************************************************************************)
EXTENDS Naturals, FiniteSets

CONSTANTS
    Names,          \* names of humans and of agents
    Agents,         \* the local agents, fixed when the group is created
    Founders,       \* the members at first: the host, or nobody when the
                    \* file is older than its members field
    Requests,       \* ids of join requests
    JoinCalls,      \* POST /group/{id}/join requests being served
    StatusCalls,    \* GET .../joins/{id}/status requests being served
    MaxAgents,      \* MAX_AGENTS
    LocalApproval,  \* does a member approve with the local command, too?
    RepliesLost,    \* may the reply to a status request get lost?
    NoName, NoRequest

ASSUME MembershipAssumption ==
    /\ Agents \subseteq Names
    /\ Founders \subseteq Names \ Agents
    /\ NoName \notin Names
    /\ NoRequest \notin Requests
    /\ MaxAgents \in Nat
    /\ LocalApproval \in BOOLEAN /\ RepliesLost \in BOOLEAN

VARIABLES
    members,    \* names in `members`, each with its token
    remote,     \* names of the remote agents
    pending,    \* pending_joins: the name each request asks for
    approved,   \* approved_member_tokens: whose token each pre-auth unlocks
    requester,  \* what the one who made each request has
    asked,      \* history: the name each request was made for
    fetched,    \* history: how many status replies carried the token
    auto,       \* history: who was admitted by JoinAuto
    jpc, jname, \* each join call: where it is, for which name
    qpc, qreq   \* each status call: where it is, for which request

group == <<members, remote, pending, approved>>
people == <<requester, asked, fetched, auto>>
joinCalls == <<jpc, jname>>
statusCalls == <<qpc, qreq>>
vars == <<group, people, joinCalls, statusCalls>>

TypeOK ==
    /\ members \in SUBSET Names
    /\ remote \in SUBSET Names
    /\ pending \in [Requests -> Names \cup {NoName}]
    /\ approved \in [Requests -> Names \cup {NoName}]
    /\ requester \in
           [Requests -> {"none", "local", "replied", "waiting", "member",
                         "cutoff"}]
    /\ asked \in [Requests -> Names \cup {NoName}]
    /\ fetched \in [Requests -> Nat]
    /\ auto \in SUBSET Names
    /\ jpc \in [JoinCalls -> {"idle", "auto", "request"}]
    /\ jname \in [JoinCalls -> Names \cup {NoName}]
    /\ \A c \in JoinCalls : jpc[c] # "idle" => jname[c] \in Names
    /\ qpc \in [StatusCalls -> {"idle", "consume", "reply", "inconsistent"}]
    /\ qreq \in [StatusCalls -> Requests \cup {NoRequest}]
    /\ \A q \in StatusCalls : qpc[q] # "idle" => qreq[q] \in Requests

Init ==
    /\ members = Founders
    /\ remote = {}
    /\ pending = [r \in Requests |-> NoName]
    /\ approved = [r \in Requests |-> NoName]
    /\ requester = [r \in Requests |-> "none"]
    /\ asked = [r \in Requests |-> NoName]
    /\ fetched = [r \in Requests |-> 0]
    /\ auto = {}
    /\ jpc = [c \in JoinCalls |-> "idle"]
    /\ jname = [c \in JoinCalls |-> NoName]
    /\ qpc = [q \in StatusCalls |-> "idle"]
    /\ qreq = [q \in StatusCalls |-> NoRequest]

-----------------------------------------------------------------------------
(* The closures that modify_group runs. *)

(* A bug: only the agents the group was created with are looked at. *)
ValidMemberNameLocalOnly(n) == n \notin Agents

(* validate_member_name: humans and agents share one name space. *)
ValidMemberName(n) == n \notin Agents /\ n \notin remote

(* A bug: a name that became a member since the handler looked is taken. *)
MayRequestStale(n) ==
    ValidMemberName(n) /\ \A r \in Requests : pending[r] # n

MayRequest(n) ==
    /\ ValidMemberName(n)
    /\ n \notin members
    /\ \A r \in Requests : pending[r] # n

(* add_join_request by somebody who then is `who`. *)
AddJoinRequest(r, n, who) ==
    /\ requester[r] = "none"
    /\ MayRequest(n)
    /\ pending' = [pending EXCEPT ![r] = n]
    /\ asked' = [asked EXCEPT ![r] = n]
    /\ requester' = [requester EXCEPT ![r] = who]
    /\ UNCHANGED <<members, remote, approved, fetched, auto>>

(* ensure_local_member and issue_member_token: the token of a member is    *)
(* the one it has.                                                         *)
IssueMemberToken(n) ==
    /\ ValidMemberName(n)
    /\ members' = members \cup {n}

(* approve_join_request: the name is validated again; a request whose name *)
(* an agent has taken meanwhile stays pending, because nothing is saved.   *)
ApproveJoinRequest(r) ==
    /\ pending[r] # NoName
    /\ IssueMemberToken(pending[r])
    /\ pending' = [pending EXCEPT ![r] = NoName]

-----------------------------------------------------------------------------
(* POST /group/{id}/join. *)

(* The group is read without the lock; a member is told so at once. *)
JoinSnapshot(c, n) ==
    /\ jpc[c] = "idle"
    /\ n \notin members
    /\ jpc' = [jpc EXCEPT ![c] = IF members = {} THEN "auto" ELSE "request"]
    /\ jname' = [jname EXCEPT ![c] = n]
    /\ UNCHANGED <<group, people, statusCalls>>

(* A bug: the call is over and would be served once more. *)
JoinReturnTwice(c) ==
    /\ jname' = [jname EXCEPT ![c] = NoName]
    /\ UNCHANGED <<jpc, statusCalls>>

JoinReturn(c) ==
    /\ jpc' = [jpc EXCEPT ![c] = "idle"]
    /\ jname' = [jname EXCEPT ![c] = NoName]
    /\ UNCHANGED statusCalls

(* The copy had no members: whoever asks is admitted. *)
JoinAuto(c) ==
    /\ jpc[c] = "auto"
    /\ IssueMemberToken(jname[c])
    /\ auto' = auto \cup {jname[c]}
    /\ JoinReturn(c)
    /\ UNCHANGED <<remote, pending, approved, requester, asked, fetched>>

(* The reply carries the id of the request and its pre-auth token. *)
JoinRequest(c, r) ==
    /\ jpc[c] = "request"
    /\ AddJoinRequest(r, jname[c], "replied")
    /\ JoinReturn(c)

JoinRefused(c) ==
    /\ \/ jpc[c] = "auto" /\ ~ValidMemberName(jname[c])
       \/ jpc[c] = "request" /\ ~MayRequest(jname[c])
    /\ JoinReturn(c)
    /\ UNCHANGED <<group, people>>

(* join_remote receives the reply and saves the pre-auth token.  A reply   *)
(* that is lost is one this never happens to.                              *)
SavePendingJoin(r) ==
    /\ requester[r] = "replied"
    /\ requester' = [requester EXCEPT ![r] = "waiting"]
    /\ UNCHANGED <<group, asked, fetched, auto, joinCalls, statusCalls>>

-----------------------------------------------------------------------------
(* Approval. *)

(* A bug: the requester is entered where approvals are looked up, and not  *)
(* among the members.                                                      *)
ApproveTokenOnly(r) ==
    /\ members # {}
    /\ pending[r] # NoName
    /\ ValidMemberName(pending[r])
    /\ pending' = [pending EXCEPT ![r] = NoName]
    /\ approved' = [approved EXCEPT ![r] = pending[r]]
    /\ UNCHANGED <<members, remote, people, joinCalls, statusCalls>>

(* POST .../approve with the token of a member, all of it under the lock. *)
Approve(r) ==
    /\ members # {}
    /\ ApproveJoinRequest(r)
    /\ approved' = [approved EXCEPT ![r] = pending[r]]
    /\ UNCHANGED <<remote, people, joinCalls, statusCalls>>

(* `omgb group approve` on the machine that has the group file: the        *)
(* pre-auth token is left empty, and the membership is saved there.        *)
ApproveLocal(r) ==
    /\ LocalApproval
    /\ members # {}
    /\ ApproveJoinRequest(r)
    /\ requester' = [requester EXCEPT ![r] = IF @ = "local" THEN "member" ELSE @]
    /\ UNCHANGED <<remote, approved, asked, fetched, auto, joinCalls,
                   statusCalls>>

-----------------------------------------------------------------------------
(* `omgb group join` on the machine that has the group file. *)

JoinLocalFirst(n) ==
    /\ members = {}
    /\ IssueMemberToken(n)
    /\ UNCHANGED <<remote, pending, approved, people, joinCalls, statusCalls>>

(* A member is given its token again. *)
JoinLocalMember(n) ==
    /\ n \in members
    /\ IssueMemberToken(n)
    /\ requester' = [r \in Requests |->
           IF requester[r] = "local" /\ asked[r] = n
           THEN "member" ELSE requester[r]]
    /\ UNCHANGED <<remote, pending, approved, asked, fetched, auto,
                   joinCalls, statusCalls>>

JoinLocalRequest(n, r) ==
    /\ members # {}
    /\ AddJoinRequest(r, n, "local")
    /\ UNCHANGED <<joinCalls, statusCalls>>

-----------------------------------------------------------------------------
(* GET .../joins/{id}/status, asked by a requester who has the pre-auth.   *)
(* A request that is still pending, or unknown, is answered at once.       *)

StatusSnapshot(q, r) ==
    /\ qpc[q] = "idle"
    /\ requester[r] = "waiting"
    /\ approved[r] # NoName
    /\ qpc' = [qpc EXCEPT ![q] =
                  IF approved[r] \in members THEN "consume" ELSE "inconsistent"]
    /\ qreq' = [qreq EXCEPT ![q] = r]
    /\ UNCHANGED <<group, people, joinCalls>>

(* A bug: the entry is dropped without asking whether it was still there. *)
StatusConsumeUnchecked(q) ==
    /\ qpc[q] = "consume"
    /\ approved' = [approved EXCEPT ![qreq[q]] = NoName]
    /\ fetched' = [fetched EXCEPT ![qreq[q]] = @ + 1]
    /\ qpc' = [qpc EXCEPT ![q] = "reply"]
    /\ UNCHANGED <<members, remote, pending, requester, asked, auto,
                   joinCalls, qreq>>

(* A bug: the approval is dropped and the call fails nevertheless. *)
StatusConsumeAndFail(q) ==
    /\ qpc[q] = "consume"
    /\ approved' = [approved EXCEPT ![qreq[q]] = NoName]
    /\ qpc' = [qpc EXCEPT ![q] = "idle"]
    /\ qreq' = [qreq EXCEPT ![q] = NoRequest]
    /\ UNCHANGED <<members, remote, pending, people, joinCalls>>

(* The entry is removed under the lock; a call that finds it gone answers  *)
(* "join request not found".                                               *)
StatusConsume(q) ==
    /\ qpc[q] = "consume"
    /\ LET r == qreq[q]
       IN  \/ /\ approved[r] # NoName
              /\ approved' = [approved EXCEPT ![r] = NoName]
              /\ fetched' = [fetched EXCEPT ![r] = @ + 1]
              /\ qpc' = [qpc EXCEPT ![q] = "reply"]
              /\ UNCHANGED qreq
           \/ /\ approved[r] = NoName
              /\ qpc' = [qpc EXCEPT ![q] = "idle"]
              /\ qreq' = [qreq EXCEPT ![q] = NoRequest]
              /\ UNCHANGED <<approved, fetched>>
    /\ UNCHANGED <<members, remote, pending, requester, asked, auto,
                   joinCalls>>

StatusReturn(q) ==
    /\ qpc[q] = "reply"
    /\ qpc' = [qpc EXCEPT ![q] = "idle"]
    /\ qreq' = [qreq EXCEPT ![q] = NoRequest]
    /\ UNCHANGED <<group, asked, fetched, auto, joinCalls>>

(* join_status saves the membership and drops the saved pending join. *)
StatusReply(q) ==
    /\ StatusReturn(q)
    /\ requester' = [requester EXCEPT ![qreq[q]] = "member"]

(* The connection breaks or the client dies before it has saved anything:  *)
(* the approval is consumed, and the one who asked stays without a token.  *)
StatusReplyLost(q) ==
    /\ RepliesLost
    /\ StatusReturn(q)
    /\ requester' = [requester EXCEPT ![qreq[q]] = "cutoff"]

-----------------------------------------------------------------------------
(* Remote agents come and go. *)

AddRemoteAgent(n) ==
    /\ Cardinality(Agents \cup remote) < MaxAgents
    /\ n \notin Agents \cup remote \cup members
    /\ remote' = remote \cup {n}
    /\ UNCHANGED <<members, pending, approved, people, joinCalls, statusCalls>>

RemoveRemoteAgent(n) ==
    /\ n \in remote
    /\ remote' = remote \ {n}
    /\ UNCHANGED <<members, pending, approved, people, joinCalls, statusCalls>>

-----------------------------------------------------------------------------
JoinStep(c) ==
    \/ \E n \in Names : JoinSnapshot(c, n)
    \/ JoinAuto(c)
    \/ \E r \in Requests : JoinRequest(c, r)
    \/ JoinRefused(c)

StatusStep(q) ==
    \/ \E r \in Requests : StatusSnapshot(q, r)
    \/ StatusConsume(q)
    \/ StatusReply(q)
    \/ StatusReplyLost(q)

LocalStep ==
    \E n \in Names :
        \/ JoinLocalFirst(n)
        \/ JoinLocalMember(n)
        \/ \E r \in Requests : JoinLocalRequest(n, r)
        \/ AddRemoteAgent(n)
        \/ RemoveRemoteAgent(n)

Next ==
    \/ \E c \in JoinCalls : JoinStep(c)
    \/ \E r \in Requests : SavePendingJoin(r) \/ Approve(r) \/ ApproveLocal(r)
    \/ LocalStep
    \/ \E q \in StatusCalls : StatusStep(q)

Spec == Init /\ [][Next]_vars

(* Nothing is assumed of members or of the network; a requester who has a  *)
(* pre-auth token polls again and again, as the printed hint tells it to,  *)
(* and the server finishes the status calls it has begun.                  *)
Fairness ==
    /\ \A r \in Requests :
           SF_vars(\E q \in StatusCalls : StatusSnapshot(q, r))
    /\ \A q \in StatusCalls :
           WF_vars(StatusConsume(q) \/ StatusReply(q))

FairSpec == Spec /\ Fairness

-----------------------------------------------------------------------------
(* A name is never both a human's and an agent's, although a remote agent  *)
(* may take the name of a pending request at any time and the group file   *)
(* is edited by the server and by local commands (validate_member_name,    *)
(* add_remote_agent).  post_message relies on it: sender names decide who  *)
(* is an agent.                                                            *)
NamesDisjoint == members \cap (Agents \cup remote) = {}

(* The requests that wait name different people, none of them a member:    *)
(* what add_join_request refuses stays out, however stale the copy was on  *)
(* which the handler sent it there.  The one exception is somebody whom    *)
(* group_request_join_handler lets in on a copy without members, after     *)
(* others have joined and a request of the same name has come to wait.     *)
PendingDistinct ==
    \A r \in Requests :
        pending[r] # NoName =>
            /\ pending[r] \in members => pending[r] \in auto
            /\ \A s \in Requests : pending[s] = pending[r] => s = r

(* An approval that waits to be fetched is for the name that was asked     *)
(* for, by then a member: "member token index inconsistent" is never       *)
(* answered (group_join_status_handler).                                   *)
ApprovalConsistent ==
    /\ \A r \in Requests :
           approved[r] # NoName => approved[r] = asked[r] /\ asked[r] \in members
    /\ \A q \in StatusCalls : qpc[q] # "inconsistent"

(* The token of an approved request is handed out once, to one of the      *)
(* status calls that run for it at the same time.                          *)
OneTokenPerApproval == \A r \in Requests : fetched[r] <= 1

(* A requester who polls gets the token of an approval that the server has *)
(* kept for it, or was cut off while the reply was on its way: no other    *)
(* call, and no edit of the group, can take the approval away.             *)
ApprovalReaches ==
    \A r \in Requests :
        (requester[r] = "waiting" /\ approved[r] # NoName)
        ~> (requester[r] \in {"member", "cutoff"})

(* A requester who polls gets its token once its request was approved:     *)
(* what `omgb group join-status` is for ("save the membership token if     *)
(* approved").                                                             *)
ApprovedGetsToken ==
    \A r \in Requests :
        (requester[r] = "waiting" /\ pending[r] = NoName)
        ~> (requester[r] = "member")
=============================================================================
