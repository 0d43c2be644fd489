-------------------------- MODULE LockedFileProofs --------------------------
(* Proofs about the locked files for every set of processes, contents and  *)
(* operations: the lock makes snapshots fresh, and the protocol implements *)
(* the atomic file.                                                        *)
EXTENDS LockedFile, TLAPS

(* The inductive invariant: an operation is recorded while a call is under *)
(* way, the lock is owned by whoever is inside, and snapshots are fresh.   *)
Called == \A p \in Proc : pc[p] # "idle" => op[p] \in Ops

IInv == TypeOK /\ Called /\ LockOwned /\ SnapshotFresh

(* What a closure returns where it does not bail is contents of the file.  *)
LEMMA ApplyType ==
    ASSUME NEW o \in Ops, NEW v \in Value, o[v] # Failed
    PROVE  o[v] \in Value
BY LockedFileAssumption

(* The invariant holds before any process has called with_jobs,            *)
(* modify_group or with_records_mut.                                       *)
LEMMA InitIInv == Init => IInv
BY LockedFileAssumption
   DEF Init, IInv, TypeOK, Called, LockOwned, SnapshotFresh, PCs, Holding

(* Types and the ownership of the lock are preserved by every step of the  *)
(* protocol, deaths included.                                              *)
LEMMA NextLockOwned ==
    ASSUME IInv, Next
    PROVE  TypeOK' /\ Called' /\ LockOwned'
<1> USE DEF IInv, TypeOK, Called, LockOwned, PCs, Holding, Goto
<1>1. PICK p \in Proc : \/ \E o \in Ops : Call(p, o)
                        \/ Acquire(p)
                        \/ Step(p)
                        \/ Die(p)
  BY DEF Next
<1>2. CASE \E o \in Ops : Call(p, o)
  BY <1>2 DEF Call
<1>3. CASE Acquire(p)
  BY <1>3, LockedFileAssumption DEF Acquire
<1>4. CASE Load(p)
  BY <1>4 DEF Load
<1>5. CASE Edit(p)
  <2>1. CASE op[p][buf[p]] # Failed /\ pc[p] = "loaded"
    <3>1. op[p][buf[p]] \in Value
      BY <2>1, ApplyType
    <3> QED BY <1>5, <2>1, <3>1 DEF Edit
  <2>2. CASE op[p][buf[p]] = Failed
    BY <1>5, <2>2 DEF Edit
  <2> QED BY <1>5, <2>1, <2>2 DEF Edit
<1>6. CASE WriteTemporary(p)
  BY <1>6 DEF WriteTemporary
<1>7. CASE Rename(p)
  BY <1>7 DEF Rename
<1>8. CASE Release(p)
  BY <1>8, LockedFileAssumption DEF Release
<1>9. CASE Return(p)
  BY <1>9 DEF Return
<1>10. CASE Die(p)
  BY <1>10, LockedFileAssumption DEF Die
<1> QED
  BY <1>1, <1>2, <1>3, <1>4, <1>5, <1>6, <1>7, <1>8, <1>9, <1>10 DEF Step

(* Only the owner of the lock renames over the file, so the snapshots of   *)
(* with_jobs, modify_group and with_records_mut stay fresh.                *)
LEMMA NextSnapshotFresh ==
    ASSUME IInv, Next
    PROVE  SnapshotFresh'
<1> USE DEF IInv, TypeOK, Called, LockOwned, SnapshotFresh, PCs, Holding, Goto
<1>1. PICK p \in Proc : \/ \E o \in Ops : Call(p, o)
                        \/ Acquire(p)
                        \/ Step(p)
                        \/ Die(p)
  BY DEF Next
<1>2. CASE \E o \in Ops : Call(p, o)
  BY <1>2 DEF Call
<1>3. CASE Acquire(p)
  BY <1>3 DEF Acquire
<1>4. CASE Load(p)
  BY <1>4 DEF Load
<1>5. CASE Edit(p)
  BY <1>5 DEF Edit
<1>6. CASE WriteTemporary(p)
  BY <1>6 DEF WriteTemporary
<1>7. CASE Rename(p)
  <2>1. \A q \in Proc \ {p} : pc[q] \notin Holding
    BY <1>7 DEF Rename
  <2> QED BY <1>7, <2>1 DEF Rename
<1>8. CASE Release(p)
  BY <1>8 DEF Release
<1>9. CASE Return(p)
  BY <1>9 DEF Return
<1>10. CASE Die(p)
  BY <1>10 DEF Die
<1> QED
  BY <1>1, <1>2, <1>3, <1>4, <1>5, <1>6, <1>7, <1>8, <1>9, <1>10 DEF Step

(* The inductive invariant holds in every state the protocol reaches.      *)
LEMMA Invariance == Spec => []IInv
<1>1. IInv /\ [Next]_vars => IInv'
  <2>1. CASE Next
    BY <2>1, NextLockOwned, NextSnapshotFresh DEF IInv
  <2>2. CASE UNCHANGED vars
    BY <2>2 DEF IInv, TypeOK, Called, LockOwned, SnapshotFresh, vars
  <2> QED BY <2>1, <2>2
<1> QED BY InitIInv, <1>1, PTL DEF Spec

(* Type correctness of the locked file protocol.                           *)
THEOREM TypeCorrect == Spec => []TypeOK
BY Invariance, PTL DEF IInv

(* No update is lost: whatever the processes, the contents and the         *)
(* operations are, what a process is about to rename over the file is its  *)
(* own operation applied to what the file holds now (with_jobs,            *)
(* modify_group, with_records_mut).                                        *)
THEOREM NoLostUpdate == Spec => []SnapshotFresh
BY Invariance, PTL DEF IInv

(* Two processes are never inside with_jobs on the same file.              *)
THEOREM LockOwnership == Spec => []LockOwned
BY Invariance, PTL DEF IInv

(* A step of the protocol is a step of the atomic file or changes nothing  *)
(* that its callers see.                                                   *)
LEMMA StepRefines ==
    ASSUME IInv, Next
    PROVE  Abstract!Next \/ UNCHANGED Abstract!vars
<1> USE DEF IInv, TypeOK, Called, PCs, Goto
<1>1. PICK p \in Proc : \/ \E o \in Ops : Call(p, o)
                        \/ Acquire(p)
                        \/ Step(p)
                        \/ Die(p)
  BY DEF Next
<1>2. CASE \E o \in Ops : Call(p, o)
  <2>1. PICK o \in Ops : Call(p, o)
    BY <1>2
  <2>2. Abstract!Ask(p, o)
    BY <2>1 DEF Call, Abstract!Ask, Status
  <2> QED BY <2>2 DEF Abstract!Next
<1>3. CASE Acquire(p)
  BY <1>3 DEF Acquire, Abstract!vars, Status
<1>4. CASE Load(p)
  <2>1. CASE pc'[p] = "loaded"
    BY <1>4, <2>1 DEF Load, Abstract!vars, Status
  <2>2. CASE pc'[p] = "failed"
    <3>1. Abstract!Reject(p)
      BY <1>4, <2>2 DEF Load, Abstract!Reject, Status
    <3> QED BY <3>1 DEF Abstract!Next
  <2> QED BY <1>4, <2>1, <2>2 DEF Load
<1>5. CASE Edit(p)
  <2>1. CASE pc'[p] = "edited"
    BY <1>5, <2>1 DEF Edit, Abstract!vars, Status
  <2>2. CASE pc'[p] = "failed"
    <3>1. Abstract!Reject(p)
      BY <1>5, <2>2 DEF Edit, Abstract!Reject, Status
    <3> QED BY <3>1 DEF Abstract!Next
  <2> QED BY <1>5, <2>1, <2>2 DEF Edit
<1>6. CASE WriteTemporary(p)
  <2>1. CASE pc'[p] = "written"
    BY <1>6, <2>1 DEF WriteTemporary, Abstract!vars, Status
  <2>2. CASE pc'[p] = "failed"
    <3>1. Abstract!Reject(p)
      BY <1>6, <2>2 DEF WriteTemporary, Abstract!Reject, Status
    <3> QED BY <3>1 DEF Abstract!Next
  <2> QED BY <1>6, <2>1, <2>2 DEF WriteTemporary
<1>7. CASE Rename(p)
  <2>1. CASE pc'[p] = "renamed"
    <3>1. pc[p] = "written" /\ file' = buf[p]
      BY <1>7, <2>1 DEF Rename
    <3>2. op[p][file] # Failed /\ buf[p] = op[p][file]
      BY <3>1 DEF SnapshotFresh
    <3>3. Abstract!Commit(p)
      BY <1>7, <2>1, <3>1, <3>2 DEF Rename, Abstract!Commit, Status
    <3> QED BY <3>3 DEF Abstract!Next
  <2>2. CASE pc'[p] = "failed"
    <3>1. Abstract!Reject(p)
      BY <1>7, <2>2 DEF Rename, Abstract!Reject, Status
    <3> QED BY <3>1 DEF Abstract!Next
  <2> QED BY <1>7, <2>1, <2>2 DEF Rename
<1>8. CASE Release(p)
  BY <1>8 DEF Release, Abstract!vars, Status
<1>9. CASE Return(p)
  <2>1. Abstract!Finish(p)
    BY <1>9 DEF Return, Abstract!Finish, Status
  <2> QED BY <2>1 DEF Abstract!Next
<1>10. CASE Die(p)
  <2>1. Abstract!Finish(p)
    BY <1>10 DEF Die, Abstract!Finish, Status
  <2> QED BY <2>1 DEF Abstract!Next
<1> QED
  BY <1>1, <1>2, <1>3, <1>4, <1>5, <1>6, <1>7, <1>8, <1>9, <1>10 DEF Step

(* The lock, the private temporary and the rename together give callers an *)
(* atomic file: every behaviour of the protocol, with interleavings,       *)
(* failures and deaths anywhere, is one of AtomicFile.                     *)
THEOREM Refinement == Spec => ImplementsAtomicFile
<1>1. Init => Abstract!Init
  BY DEF Init, Abstract!Init, Status
<1>2. IInv /\ [Next]_vars => [Abstract!Next]_(Abstract!vars)
  <2>1. CASE IInv /\ Next
    BY <2>1, StepRefines
  <2>2. CASE UNCHANGED vars
    BY <2>2 DEF vars, Abstract!vars, Status
  <2> QED BY <2>1, <2>2
<1> QED
  BY <1>1, <1>2, Invariance, PTL DEF Spec, ImplementsAtomicFile, Abstract!Spec
=============================================================================
