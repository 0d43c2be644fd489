----------------------- MODULE GroupMembershipProofs ------------------------
(***************************************************************************)
(* Proofs about GroupMembership, for any names, requests and calls.        *)
(***************************************************************************)
EXTENDS GroupMembership, TLAPS

(* What is in the file about one request, by how far it has come: nothing  *)
(* before it is made, its name while it is pending, and an approval only   *)
(* while nobody has fetched the token.                                     *)
RequestLife ==
    \A r \in Requests :
        /\ requester[r] = "none" => pending[r] = NoName /\ approved[r] = NoName
        /\ requester[r] = "none" => asked[r] = NoName /\ fetched[r] = 0
        /\ pending[r] # NoName => pending[r] = asked[r]
        /\ pending[r] # NoName => approved[r] = NoName /\ fetched[r] = 0
        /\ approved[r] # NoName => fetched[r] = 0
        /\ fetched[r] \in {0, 1}

(* The inductive invariant.  ApprovalConsistent alone says nothing of the  *)
(* pending requests that approvals are made from.                          *)
Inv == RequestLife /\ ApprovalConsistent

(* Nobody is asked for admission before there is somebody who can grant    *)
(* it: as members never leave, a copy that had members is never too old.   *)
EmptyNoPending ==
    members = {} =>
        /\ \A r \in Requests : pending[r] = NoName
        /\ \A c \in JoinCalls : jpc[c] # "request"

-----------------------------------------------------------------------------
(* Every behaviour of the join and approval operations is type correct. *)
THEOREM TypeCorrect == Spec => []TypeOK
<1> USE MembershipAssumption
<1>1. Init => TypeOK
    BY DEF Init, TypeOK
<1>2. TypeOK /\ [Next]_vars => TypeOK'
  <2> SUFFICES ASSUME TypeOK, [Next]_vars PROVE TypeOK'
      OBVIOUS
  <2>1. ASSUME NEW c \in JoinCalls, NEW n \in Names, JoinSnapshot(c, n)
        PROVE  TypeOK'
      BY <2>1 DEF JoinSnapshot, group, people, joinCalls, statusCalls, TypeOK
  <2>2. ASSUME NEW c \in JoinCalls, JoinAuto(c) PROVE TypeOK'
      BY <2>2
      DEF JoinAuto, IssueMemberToken, ValidMemberName, JoinReturn, group,
         people, joinCalls, statusCalls, TypeOK
  <2>3. ASSUME NEW c \in JoinCalls, NEW r \in Requests, JoinRequest(c, r)
        PROVE  TypeOK'
      BY <2>3
      DEF JoinRequest, AddJoinRequest, MayRequest, ValidMemberName,
         JoinReturn, group, people, joinCalls, statusCalls, TypeOK
  <2>4. ASSUME NEW c \in JoinCalls, JoinRefused(c) PROVE TypeOK'
      BY <2>4
      DEF JoinRefused, JoinReturn, group, people, joinCalls, statusCalls,
         TypeOK
  <2>5. ASSUME NEW r \in Requests, SavePendingJoin(r) PROVE TypeOK'
      BY <2>5
      DEF SavePendingJoin, group, people, joinCalls, statusCalls, TypeOK
  <2>6. ASSUME NEW r \in Requests, Approve(r) PROVE TypeOK'
      BY <2>6
      DEF Approve, ApproveJoinRequest, IssueMemberToken, ValidMemberName,
         group, people, joinCalls, statusCalls, TypeOK
  <2>7. ASSUME NEW r \in Requests, ApproveLocal(r) PROVE TypeOK'
      BY <2>7
      DEF ApproveLocal, ApproveJoinRequest, IssueMemberToken, ValidMemberName,
         group, people, joinCalls, statusCalls, TypeOK
  <2>8. ASSUME NEW n \in Names, JoinLocalFirst(n) PROVE TypeOK'
      BY <2>8
      DEF JoinLocalFirst, IssueMemberToken, ValidMemberName, group, people,
         joinCalls, statusCalls, TypeOK
  <2>9. ASSUME NEW n \in Names, JoinLocalMember(n) PROVE TypeOK'
      BY <2>9
      DEF JoinLocalMember, IssueMemberToken, ValidMemberName, group, people,
         joinCalls, statusCalls, TypeOK
  <2>10. ASSUME NEW n \in Names, NEW r \in Requests, JoinLocalRequest(n, r)
         PROVE  TypeOK'
      BY <2>10
      DEF JoinLocalRequest, AddJoinRequest, MayRequest, ValidMemberName,
         group, people, joinCalls, statusCalls, TypeOK
  <2>11. ASSUME NEW n \in Names, AddRemoteAgent(n) PROVE TypeOK'
      BY <2>11
      DEF AddRemoteAgent, group, people, joinCalls, statusCalls, TypeOK
  <2>12. ASSUME NEW n \in Names, RemoveRemoteAgent(n) PROVE TypeOK'
      BY <2>12
      DEF RemoveRemoteAgent, group, people, joinCalls, statusCalls, TypeOK
  <2>13. ASSUME NEW q \in StatusCalls, NEW r \in Requests, StatusSnapshot(q, r)
         PROVE  TypeOK'
      BY <2>13
      DEF StatusSnapshot, group, people, joinCalls, statusCalls, TypeOK
  <2>14. ASSUME NEW q \in StatusCalls, StatusConsume(q) PROVE TypeOK'
      BY <2>14 DEF StatusConsume, group, people, joinCalls, statusCalls, TypeOK
  <2>15. ASSUME NEW q \in StatusCalls, StatusReply(q) PROVE TypeOK'
      BY <2>15
      DEF StatusReply, StatusReturn, group, people, joinCalls, statusCalls,
         TypeOK
  <2>16. ASSUME NEW q \in StatusCalls, StatusReplyLost(q) PROVE TypeOK'
      BY <2>16
      DEF StatusReplyLost, StatusReturn, group, people, joinCalls,
         statusCalls, TypeOK
  <2>17. CASE UNCHANGED vars
      BY <2>17 DEF vars, group, people, joinCalls, statusCalls, TypeOK
  <2> QED
      BY <2>1, <2>2, <2>3, <2>4, <2>5, <2>6, <2>7, <2>8, <2>9, <2>10, <2>11,
         <2>12, <2>13, <2>14, <2>15, <2>16, <2>17
      DEF Next, JoinStep, LocalStep, StatusStep
<1> QED
    BY <1>1, <1>2, PTL DEF Spec

(* No name ever belongs to a human and to an agent, whatever the server and *)
(* local commands do to the group file between request and approval.       *)
THEOREM HumansAreNotAgents == Spec => []NamesDisjoint
<1> USE MembershipAssumption
<1>1. Init => NamesDisjoint
    BY DEF Init, NamesDisjoint
<1>2. NamesDisjoint /\ [Next]_vars => NamesDisjoint'
  <2> SUFFICES ASSUME NamesDisjoint, [Next]_vars PROVE NamesDisjoint'
      OBVIOUS
  <2>1. ASSUME NEW c \in JoinCalls, NEW n \in Names, JoinSnapshot(c, n)
        PROVE  NamesDisjoint'
      BY <2>1
      DEF JoinSnapshot, group, people, joinCalls, statusCalls, NamesDisjoint
  <2>2. ASSUME NEW c \in JoinCalls, JoinAuto(c) PROVE NamesDisjoint'
      BY <2>2
      DEF JoinAuto, IssueMemberToken, ValidMemberName, JoinReturn, group,
         people, joinCalls, statusCalls, NamesDisjoint
  <2>3. ASSUME NEW c \in JoinCalls, NEW r \in Requests, JoinRequest(c, r)
        PROVE  NamesDisjoint'
      BY <2>3
      DEF JoinRequest, AddJoinRequest, MayRequest, ValidMemberName,
         JoinReturn, group, people, joinCalls, statusCalls, NamesDisjoint
  <2>4. ASSUME NEW c \in JoinCalls, JoinRefused(c) PROVE NamesDisjoint'
      BY <2>4
      DEF JoinRefused, JoinReturn, group, people, joinCalls, statusCalls,
         NamesDisjoint
  <2>5. ASSUME NEW r \in Requests, SavePendingJoin(r) PROVE NamesDisjoint'
      BY <2>5
      DEF SavePendingJoin, group, people, joinCalls, statusCalls, NamesDisjoint
  <2>6. ASSUME NEW r \in Requests, Approve(r) PROVE NamesDisjoint'
      BY <2>6
      DEF Approve, ApproveJoinRequest, IssueMemberToken, ValidMemberName,
         group, people, joinCalls, statusCalls, NamesDisjoint
  <2>7. ASSUME NEW r \in Requests, ApproveLocal(r) PROVE NamesDisjoint'
      BY <2>7
      DEF ApproveLocal, ApproveJoinRequest, IssueMemberToken, ValidMemberName,
         group, people, joinCalls, statusCalls, NamesDisjoint
  <2>8. ASSUME NEW n \in Names, JoinLocalFirst(n) PROVE NamesDisjoint'
      BY <2>8
      DEF JoinLocalFirst, IssueMemberToken, ValidMemberName, group, people,
         joinCalls, statusCalls, NamesDisjoint
  <2>9. ASSUME NEW n \in Names, JoinLocalMember(n) PROVE NamesDisjoint'
      BY <2>9
      DEF JoinLocalMember, IssueMemberToken, ValidMemberName, group, people,
         joinCalls, statusCalls, NamesDisjoint
  <2>10. ASSUME NEW n \in Names, NEW r \in Requests, JoinLocalRequest(n, r)
         PROVE  NamesDisjoint'
      BY <2>10
      DEF JoinLocalRequest, AddJoinRequest, MayRequest, ValidMemberName,
         group, people, joinCalls, statusCalls, NamesDisjoint
  <2>11. ASSUME NEW n \in Names, AddRemoteAgent(n) PROVE NamesDisjoint'
      BY <2>11
      DEF AddRemoteAgent, group, people, joinCalls, statusCalls, NamesDisjoint
  <2>12. ASSUME NEW n \in Names, RemoveRemoteAgent(n) PROVE NamesDisjoint'
      BY <2>12
      DEF RemoveRemoteAgent, group, people, joinCalls, statusCalls,
         NamesDisjoint
  <2>13. ASSUME NEW q \in StatusCalls, NEW r \in Requests, StatusSnapshot(q, r)
         PROVE  NamesDisjoint'
      BY <2>13
      DEF StatusSnapshot, group, people, joinCalls, statusCalls, NamesDisjoint
  <2>14. ASSUME NEW q \in StatusCalls, StatusConsume(q) PROVE NamesDisjoint'
      BY <2>14
      DEF StatusConsume, group, people, joinCalls, statusCalls, NamesDisjoint
  <2>15. ASSUME NEW q \in StatusCalls, StatusReply(q) PROVE NamesDisjoint'
      BY <2>15
      DEF StatusReply, StatusReturn, group, people, joinCalls, statusCalls,
         NamesDisjoint
  <2>16. ASSUME NEW q \in StatusCalls, StatusReplyLost(q) PROVE NamesDisjoint'
      BY <2>16
      DEF StatusReplyLost, StatusReturn, group, people, joinCalls,
         statusCalls, NamesDisjoint
  <2>17. CASE UNCHANGED vars
      BY <2>17 DEF vars, group, people, joinCalls, statusCalls, NamesDisjoint
  <2> QED
      BY <2>1, <2>2, <2>3, <2>4, <2>5, <2>6, <2>7, <2>8, <2>9, <2>10, <2>11,
         <2>12, <2>13, <2>14, <2>15, <2>16, <2>17
      DEF Next, JoinStep, LocalStep, StatusStep
<1> QED
    BY <1>1, <1>2, PTL DEF Spec

(* The life of requests and approvals, in an invariant that is inductive.  *)
THEOREM RequestsAndApprovals == Spec => []Inv
<1> USE MembershipAssumption
<1>1. Init => Inv
    BY DEF Init, Inv, RequestLife, ApprovalConsistent, TypeOK
<1>2. TypeOK /\ Inv /\ [Next]_vars => Inv'
  <2> SUFFICES ASSUME TypeOK, Inv, [Next]_vars PROVE Inv'
      OBVIOUS
  <2>1. ASSUME NEW c \in JoinCalls, NEW n \in Names, JoinSnapshot(c, n)
        PROVE  Inv'
      BY <2>1
      DEF JoinSnapshot, group, people, joinCalls, statusCalls, Inv,
         RequestLife, ApprovalConsistent, TypeOK
  <2>2. ASSUME NEW c \in JoinCalls, JoinAuto(c) PROVE Inv'
      BY <2>2
      DEF JoinAuto, IssueMemberToken, ValidMemberName, JoinReturn, group,
         people, joinCalls, statusCalls, Inv, RequestLife, ApprovalConsistent,
         TypeOK
  <2>3. ASSUME NEW c \in JoinCalls, NEW r \in Requests, JoinRequest(c, r)
        PROVE  Inv'
      BY <2>3
      DEF JoinRequest, AddJoinRequest, MayRequest, ValidMemberName,
         JoinReturn, group, people, joinCalls, statusCalls, Inv, RequestLife,
         ApprovalConsistent, TypeOK
  <2>4. ASSUME NEW c \in JoinCalls, JoinRefused(c) PROVE Inv'
      BY <2>4
      DEF JoinRefused, JoinReturn, group, people, joinCalls, statusCalls, Inv,
         RequestLife, ApprovalConsistent, TypeOK
  <2>5. ASSUME NEW r \in Requests, SavePendingJoin(r) PROVE Inv'
      BY <2>5
      DEF SavePendingJoin, group, people, joinCalls, statusCalls, Inv,
         RequestLife, ApprovalConsistent, TypeOK
  <2>6. ASSUME NEW r \in Requests, Approve(r) PROVE Inv'
      BY <2>6
      DEF Approve, ApproveJoinRequest, IssueMemberToken, ValidMemberName,
         group, people, joinCalls, statusCalls, Inv, RequestLife,
         ApprovalConsistent, TypeOK
  <2>7. ASSUME NEW r \in Requests, ApproveLocal(r) PROVE Inv'
      BY <2>7
      DEF ApproveLocal, ApproveJoinRequest, IssueMemberToken, ValidMemberName,
         group, people, joinCalls, statusCalls, Inv, RequestLife,
         ApprovalConsistent, TypeOK
  <2>8. ASSUME NEW n \in Names, JoinLocalFirst(n) PROVE Inv'
      BY <2>8
      DEF JoinLocalFirst, IssueMemberToken, ValidMemberName, group, people,
         joinCalls, statusCalls, Inv, RequestLife, ApprovalConsistent, TypeOK
  <2>9. ASSUME NEW n \in Names, JoinLocalMember(n) PROVE Inv'
      BY <2>9
      DEF JoinLocalMember, IssueMemberToken, ValidMemberName, group, people,
         joinCalls, statusCalls, Inv, RequestLife, ApprovalConsistent, TypeOK
  <2>10. ASSUME NEW n \in Names, NEW r \in Requests, JoinLocalRequest(n, r)
         PROVE  Inv'
      BY <2>10
      DEF JoinLocalRequest, AddJoinRequest, MayRequest, ValidMemberName,
         group, people, joinCalls, statusCalls, Inv, RequestLife,
         ApprovalConsistent, TypeOK
  <2>11. ASSUME NEW n \in Names, AddRemoteAgent(n) PROVE Inv'
      BY <2>11
      DEF AddRemoteAgent, group, people, joinCalls, statusCalls, Inv,
         RequestLife, ApprovalConsistent, TypeOK
  <2>12. ASSUME NEW n \in Names, RemoveRemoteAgent(n) PROVE Inv'
      BY <2>12
      DEF RemoveRemoteAgent, group, people, joinCalls, statusCalls, Inv,
         RequestLife, ApprovalConsistent, TypeOK
  <2>13. ASSUME NEW q \in StatusCalls, NEW r \in Requests, StatusSnapshot(q, r)
         PROVE  Inv'
      BY <2>13
      DEF StatusSnapshot, group, people, joinCalls, statusCalls, Inv,
         RequestLife, ApprovalConsistent, TypeOK
  <2>14. ASSUME NEW q \in StatusCalls, StatusConsume(q) PROVE Inv'
      BY <2>14
      DEF StatusConsume, group, people, joinCalls, statusCalls, Inv,
         RequestLife, ApprovalConsistent, TypeOK
  <2>15. ASSUME NEW q \in StatusCalls, StatusReply(q) PROVE Inv'
      BY <2>15
      DEF StatusReply, StatusReturn, group, people, joinCalls, statusCalls,
         Inv, RequestLife, ApprovalConsistent, TypeOK
  <2>16. ASSUME NEW q \in StatusCalls, StatusReplyLost(q) PROVE Inv'
      BY <2>16
      DEF StatusReplyLost, StatusReturn, group, people, joinCalls,
         statusCalls, Inv, RequestLife, ApprovalConsistent, TypeOK
  <2>17. CASE UNCHANGED vars
      BY <2>17
      DEF vars, group, people, joinCalls, statusCalls, Inv, RequestLife,
         ApprovalConsistent, TypeOK
  <2> QED
      BY <2>1, <2>2, <2>3, <2>4, <2>5, <2>6, <2>7, <2>8, <2>9, <2>10, <2>11,
         <2>12, <2>13, <2>14, <2>15, <2>16, <2>17
      DEF Next, JoinStep, LocalStep, StatusStep
<1> QED
    BY <1>1, <1>2, PTL, TypeCorrect DEF Spec

(* An approval that waits names a member: the status handler never finds   *)
(* its token index inconsistent.                                           *)
THEOREM ApprovalsNameMembers == Spec => []ApprovalConsistent
    BY RequestsAndApprovals, PTL DEF Inv

(* However many status calls run at a time for one request, one of them at *)
(* most carries the token.                                                 *)
THEOREM TokenHandedOutOnce == Spec => []OneTokenPerApproval
<1>1. Inv => OneTokenPerApproval
    BY DEF Inv, RequestLife, OneTokenPerApproval
<1> QED
    BY <1>1, RequestsAndApprovals, PTL

(* While a group has no members nobody waits for approval, although a join  *)
(* call decides on an old copy which way it goes: the local join of a first *)
(* member (run_join) cannot let in a name that is waiting.                  *)
THEOREM NobodyWaitsOnNobody == Spec => []EmptyNoPending
<1> USE MembershipAssumption
<1>1. Init => EmptyNoPending
    BY DEF Init, EmptyNoPending, TypeOK
<1>2. TypeOK /\ EmptyNoPending /\ [Next]_vars => EmptyNoPending'
  <2> SUFFICES ASSUME TypeOK, EmptyNoPending, [Next]_vars
               PROVE  EmptyNoPending'
      OBVIOUS
  <2>1. ASSUME NEW c \in JoinCalls, NEW n \in Names, JoinSnapshot(c, n)
        PROVE  EmptyNoPending'
      BY <2>1
      DEF JoinSnapshot, group, people, joinCalls, statusCalls,
         EmptyNoPending, TypeOK
  <2>2. ASSUME NEW c \in JoinCalls, JoinAuto(c) PROVE EmptyNoPending'
      BY <2>2
      DEF JoinAuto, IssueMemberToken, ValidMemberName, JoinReturn, group,
         people, joinCalls, statusCalls,
         EmptyNoPending, TypeOK
  <2>3. ASSUME NEW c \in JoinCalls, NEW r \in Requests, JoinRequest(c, r)
        PROVE  EmptyNoPending'
      BY <2>3
      DEF JoinRequest, AddJoinRequest, MayRequest, ValidMemberName,
         JoinReturn, group, people, joinCalls, statusCalls,
         EmptyNoPending, TypeOK
  <2>4. ASSUME NEW c \in JoinCalls, JoinRefused(c) PROVE EmptyNoPending'
      BY <2>4
      DEF JoinRefused, JoinReturn, group, people, joinCalls, statusCalls,
         EmptyNoPending, TypeOK
  <2>5. ASSUME NEW r \in Requests, SavePendingJoin(r) PROVE EmptyNoPending'
      BY <2>5
      DEF SavePendingJoin, group, people, joinCalls, statusCalls,
         EmptyNoPending, TypeOK
  <2>6. ASSUME NEW r \in Requests, Approve(r) PROVE EmptyNoPending'
      BY <2>6
      DEF Approve, ApproveJoinRequest, IssueMemberToken, ValidMemberName,
         group, people, joinCalls, statusCalls,
         EmptyNoPending, TypeOK
  <2>7. ASSUME NEW r \in Requests, ApproveLocal(r) PROVE EmptyNoPending'
      BY <2>7
      DEF ApproveLocal, ApproveJoinRequest, IssueMemberToken, ValidMemberName,
         group, people, joinCalls, statusCalls,
         EmptyNoPending, TypeOK
  <2>8. ASSUME NEW n \in Names, JoinLocalFirst(n) PROVE EmptyNoPending'
      BY <2>8
      DEF JoinLocalFirst, IssueMemberToken, ValidMemberName, group, people,
         joinCalls, statusCalls,
         EmptyNoPending, TypeOK
  <2>9. ASSUME NEW n \in Names, JoinLocalMember(n) PROVE EmptyNoPending'
      BY <2>9
      DEF JoinLocalMember, IssueMemberToken, ValidMemberName, group, people,
         joinCalls, statusCalls,
         EmptyNoPending, TypeOK
  <2>10. ASSUME NEW n \in Names, NEW r \in Requests, JoinLocalRequest(n, r)
         PROVE  EmptyNoPending'
      BY <2>10
      DEF JoinLocalRequest, AddJoinRequest, MayRequest, ValidMemberName,
         group, people, joinCalls, statusCalls,
         EmptyNoPending, TypeOK
  <2>11. ASSUME NEW n \in Names, AddRemoteAgent(n) PROVE EmptyNoPending'
      BY <2>11
      DEF AddRemoteAgent, group, people, joinCalls, statusCalls,
         EmptyNoPending, TypeOK
  <2>12. ASSUME NEW n \in Names, RemoveRemoteAgent(n) PROVE EmptyNoPending'
      BY <2>12
      DEF RemoveRemoteAgent, group, people, joinCalls, statusCalls,
         EmptyNoPending, TypeOK
  <2>13. ASSUME NEW q \in StatusCalls, NEW r \in Requests, StatusSnapshot(q, r)
         PROVE  EmptyNoPending'
      BY <2>13
      DEF StatusSnapshot, group, people, joinCalls, statusCalls,
         EmptyNoPending, TypeOK
  <2>14. ASSUME NEW q \in StatusCalls, StatusConsume(q) PROVE EmptyNoPending'
      BY <2>14
      DEF StatusConsume, group, people, joinCalls, statusCalls,
         EmptyNoPending, TypeOK
  <2>15. ASSUME NEW q \in StatusCalls, StatusReply(q) PROVE EmptyNoPending'
      BY <2>15
      DEF StatusReply, StatusReturn, group, people, joinCalls, statusCalls,
         EmptyNoPending, TypeOK
  <2>16. ASSUME NEW q \in StatusCalls, StatusReplyLost(q) PROVE EmptyNoPending'
      BY <2>16
      DEF StatusReplyLost, StatusReturn, group, people, joinCalls,
         statusCalls,
         EmptyNoPending, TypeOK
  <2>17. CASE UNCHANGED vars
      BY <2>17 DEF vars, group, people, joinCalls, statusCalls,
         EmptyNoPending, TypeOK
  <2> QED
      BY <2>1, <2>2, <2>3, <2>4, <2>5, <2>6, <2>7, <2>8, <2>9, <2>10, <2>11,
         <2>12, <2>13, <2>14, <2>15, <2>16, <2>17
      DEF Next, JoinStep, LocalStep, StatusStep
<1> QED
    BY <1>1, <1>2, TypeCorrect, PTL DEF Spec

(* Those who wait for approval are different people, and none is a member   *)
(* but through a join call that read the group before it had any.           *)
THEOREM PendingAreDistinct == Spec => []PendingDistinct
<1> USE MembershipAssumption
<1>1. Init => PendingDistinct
    BY DEF Init, PendingDistinct, EmptyNoPending, TypeOK
<1>2. TypeOK /\ EmptyNoPending /\ PendingDistinct /\ [Next]_vars => PendingDistinct'
  <2> SUFFICES ASSUME TypeOK, EmptyNoPending, PendingDistinct, [Next]_vars
               PROVE  PendingDistinct'
      OBVIOUS
  <2>1. ASSUME NEW c \in JoinCalls, NEW n \in Names, JoinSnapshot(c, n)
        PROVE  PendingDistinct'
      BY <2>1
      DEF JoinSnapshot, group, people, joinCalls, statusCalls,
         PendingDistinct, EmptyNoPending, TypeOK
  <2>2. ASSUME NEW c \in JoinCalls, JoinAuto(c) PROVE PendingDistinct'
      BY <2>2
      DEF JoinAuto, IssueMemberToken, ValidMemberName, JoinReturn, group,
         people, joinCalls, statusCalls, PendingDistinct, EmptyNoPending, TypeOK
  <2>3. ASSUME NEW c \in JoinCalls, NEW r \in Requests, JoinRequest(c, r)
        PROVE  PendingDistinct'
      BY <2>3
      DEF JoinRequest, AddJoinRequest, MayRequest, ValidMemberName,
         JoinReturn, group, people, joinCalls, statusCalls, PendingDistinct,
         EmptyNoPending, TypeOK
  <2>4. ASSUME NEW c \in JoinCalls, JoinRefused(c) PROVE PendingDistinct'
      BY <2>4
      DEF JoinRefused, JoinReturn, group, people, joinCalls, statusCalls,
         PendingDistinct, EmptyNoPending, TypeOK
  <2>5. ASSUME NEW r \in Requests, SavePendingJoin(r) PROVE PendingDistinct'
      BY <2>5
      DEF SavePendingJoin, group, people, joinCalls, statusCalls,
         PendingDistinct, EmptyNoPending, TypeOK
  <2>6. ASSUME NEW r \in Requests, Approve(r) PROVE PendingDistinct'
      BY <2>6
      DEF Approve, ApproveJoinRequest, IssueMemberToken, ValidMemberName,
         group, people, joinCalls, statusCalls, PendingDistinct, EmptyNoPending,
         TypeOK
  <2>7. ASSUME NEW r \in Requests, ApproveLocal(r) PROVE PendingDistinct'
      BY <2>7
      DEF ApproveLocal, ApproveJoinRequest, IssueMemberToken, ValidMemberName,
         group, people, joinCalls, statusCalls, PendingDistinct, EmptyNoPending,
         TypeOK
  <2>8. ASSUME NEW n \in Names, JoinLocalFirst(n) PROVE PendingDistinct'
      BY <2>8
      DEF JoinLocalFirst, IssueMemberToken, ValidMemberName, group, people,
         joinCalls, statusCalls, PendingDistinct, EmptyNoPending, TypeOK
  <2>9. ASSUME NEW n \in Names, JoinLocalMember(n) PROVE PendingDistinct'
      BY <2>9
      DEF JoinLocalMember, IssueMemberToken, ValidMemberName, group, people,
         joinCalls, statusCalls, PendingDistinct, EmptyNoPending, TypeOK
  <2>10. ASSUME NEW n \in Names, NEW r \in Requests, JoinLocalRequest(n, r)
         PROVE  PendingDistinct'
      BY <2>10
      DEF JoinLocalRequest, AddJoinRequest, MayRequest, ValidMemberName,
         group, people, joinCalls, statusCalls, PendingDistinct, EmptyNoPending,
         TypeOK
  <2>11. ASSUME NEW n \in Names, AddRemoteAgent(n) PROVE PendingDistinct'
      BY <2>11
      DEF AddRemoteAgent, group, people, joinCalls, statusCalls,
         PendingDistinct, EmptyNoPending, TypeOK
  <2>12. ASSUME NEW n \in Names, RemoveRemoteAgent(n) PROVE PendingDistinct'
      BY <2>12
      DEF RemoveRemoteAgent, group, people, joinCalls, statusCalls,
         PendingDistinct, EmptyNoPending, TypeOK
  <2>13. ASSUME NEW q \in StatusCalls, NEW r \in Requests, StatusSnapshot(q, r)
         PROVE  PendingDistinct'
      BY <2>13
      DEF StatusSnapshot, group, people, joinCalls, statusCalls,
         PendingDistinct, EmptyNoPending, TypeOK
  <2>14. ASSUME NEW q \in StatusCalls, StatusConsume(q) PROVE PendingDistinct'
      BY <2>14
      DEF StatusConsume, group, people, joinCalls, statusCalls,
         PendingDistinct, EmptyNoPending, TypeOK
  <2>15. ASSUME NEW q \in StatusCalls, StatusReply(q) PROVE PendingDistinct'
      BY <2>15
      DEF StatusReply, StatusReturn, group, people, joinCalls, statusCalls,
         PendingDistinct, EmptyNoPending, TypeOK
  <2>16. ASSUME NEW q \in StatusCalls, StatusReplyLost(q)
         PROVE  PendingDistinct'
      BY <2>16
      DEF StatusReplyLost, StatusReturn, group, people, joinCalls,
         statusCalls, PendingDistinct, EmptyNoPending, TypeOK
  <2>17. CASE UNCHANGED vars
      BY <2>17
      DEF vars, group, people, joinCalls, statusCalls, PendingDistinct,
         EmptyNoPending, TypeOK
  <2> QED
      BY <2>1, <2>2, <2>3, <2>4, <2>5, <2>6, <2>7, <2>8, <2>9, <2>10, <2>11,
         <2>12, <2>13, <2>14, <2>15, <2>16, <2>17
      DEF Next, JoinStep, LocalStep, StatusStep
<1> QED
    BY <1>1, <1>2, PTL, TypeCorrect, NobodyWaitsOnNobody DEF Spec

=============================================================================
