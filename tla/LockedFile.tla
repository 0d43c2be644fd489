----------------------------- MODULE LockedFile -----------------------------
(***************************************************************************)
(* The read-modify-write protocol of the locked JSON files of omgb:        *)
(*   lock_exclusive -> load -> closure -> write temporary -> rename -> drop *)
(* as with_jobs (scheduler.rs), modify_group (group.rs) and                *)
(* with_records_mut (threads.rs) run it.  A process may die between any    *)
(* two steps; the operating system then drops its advisory lock.           *)
(***************************************************************************)
CONSTANTS Proc, Value, InitValue, Failed, Ops, NoOp, NoProc

ASSUME LockedFileAssumption ==
    /\ InitValue \in Value
    /\ Failed \notin Value
    /\ Ops \subseteq [Value -> Value \cup {Failed}]
    /\ NoOp \notin Ops
    /\ NoProc \notin Proc

VARIABLES
    file,       \* the contents of the file that its path names
    lock,       \* the process that holds the exclusive lock, or NoProc
    pc,         \* where each process is in the protocol
    op,         \* the operation each process was called for
    buf         \* the contents each process holds in memory, InitValue
                \* while it holds none

vars == <<file, lock, pc, op, buf>>

PCs == {"idle", "wait", "locked", "loaded", "edited", "written",
        "renamed", "failed", "done", "error"}

(* The program counters at which a process holds the lock. *)
Holding == {"locked", "loaded", "edited", "written", "renamed", "failed"}

TypeOK ==
    /\ file \in Value
    /\ lock \in Proc \cup {NoProc}
    /\ pc \in [Proc -> PCs]
    /\ op \in [Proc -> Ops \cup {NoOp}]
    /\ buf \in [Proc -> Value]

Init ==
    /\ file = InitValue
    /\ lock = NoProc
    /\ pc = [p \in Proc |-> "idle"]
    /\ op = [p \in Proc |-> NoOp]
    /\ buf = [p \in Proc |-> InitValue]

Goto(p, here, there) ==
    /\ pc[p] = here
    /\ pc' = [pc EXCEPT ![p] = there]

Call(p, o) ==
    /\ Goto(p, "idle", "wait")
    /\ op' = [op EXCEPT ![p] = o]
    /\ UNCHANGED <<file, lock, buf>>

(* A bug: the lock is taken without waiting for it to be free. *)
AcquireWithoutWaiting(p) ==
    /\ Goto(p, "wait", "locked")
    /\ lock' = p
    /\ UNCHANGED <<file, op, buf>>

(* file.lock_exclusive() returns once nobody else holds the lock. *)
Acquire(p) ==
    /\ lock = NoProc
    /\ Goto(p, "wait", "locked")
    /\ lock' = p
    /\ UNCHANGED <<file, op, buf>>

(* The whole file is read and parsed, or that fails. *)
Load(p) ==
    /\ \/ /\ Goto(p, "locked", "loaded")
          /\ buf' = [buf EXCEPT ![p] = file]
       \/ /\ Goto(p, "locked", "failed")
          /\ UNCHANGED buf
    /\ UNCHANGED <<file, lock, op>>

(* A bug: the result of a closure that bailed is kept for the save. *)
EditIgnoringError(p) ==
    /\ Goto(p, "loaded", "edited")
    /\ buf' = [buf EXCEPT ![p] = op[p][buf[p]]]
    /\ UNCHANGED <<file, lock, op>>

(* The closure edits the copy in memory, or bails before anything is saved. *)
Edit(p) ==
    /\ \/ /\ Goto(p, "loaded", "edited")
          /\ op[p][buf[p]] # Failed
          /\ buf' = [buf EXCEPT ![p] = op[p][buf[p]]]
       \/ /\ Goto(p, "loaded", "failed")
          /\ op[p][buf[p]] = Failed
          /\ UNCHANGED buf
    /\ UNCHANGED <<file, lock, op>>

(* A bug: the lock is dropped once the edit is done, before the save. *)
WriteTemporaryUnlocked(p) ==
    /\ Goto(p, "edited", "written")
    /\ lock' = NoProc
    /\ UNCHANGED <<file, op, buf>>

(* write_file_atomic writes a temporary of its own; it may fail. *)
WriteTemporary(p) ==
    /\ Goto(p, "edited", "written") \/ Goto(p, "edited", "failed")
    /\ UNCHANGED <<file, lock, op, buf>>

(* Renaming the temporary over the path replaces the contents at once. *)
Rename(p) ==
    /\ \/ Goto(p, "written", "renamed") /\ file' = buf[p]
       \/ Goto(p, "written", "failed") /\ UNCHANGED file
    /\ UNCHANGED <<lock, op, buf>>

(* A bug: the failing path returns without dropping the lock. *)
ReleaseOnlyOnSuccess(p) ==
    /\ \/ Goto(p, "renamed", "done") /\ lock' = NoProc
       \/ Goto(p, "failed", "error") /\ UNCHANGED lock
    /\ buf' = [buf EXCEPT ![p] = InitValue]
    /\ UNCHANGED <<file, op>>

(* The lock file handle is dropped on every way out of the function. *)
Release(p) ==
    /\ Goto(p, "renamed", "done") \/ Goto(p, "failed", "error")
    /\ lock' = NoProc
    /\ buf' = [buf EXCEPT ![p] = InitValue]
    /\ UNCHANGED <<file, op>>

Return(p) ==
    /\ Goto(p, "done", "idle") \/ Goto(p, "error", "idle")
    /\ op' = [op EXCEPT ![p] = NoOp]
    /\ UNCHANGED <<file, lock, buf>>

(* The process is killed; closing its descriptors frees the lock. *)
Die(p) ==
    /\ pc[p] # "idle"
    /\ pc' = [pc EXCEPT ![p] = "idle"]
    /\ op' = [op EXCEPT ![p] = NoOp]
    /\ lock' = IF lock = p THEN NoProc ELSE lock
    /\ buf' = [buf EXCEPT ![p] = InitValue]
    /\ UNCHANGED file

Step(p) ==
    \/ Load(p)
    \/ Edit(p)
    \/ WriteTemporary(p)
    \/ Rename(p)
    \/ Release(p)
    \/ Return(p)

Next ==
    \E p \in Proc :
        \/ \E o \in Ops : Call(p, o)
        \/ Acquire(p)
        \/ Step(p)
        \/ Die(p)

Spec == Init /\ [][Next]_vars

(* Nothing in the protocol after the lock waits for anybody else, so a     *)
(* scheduled process runs through it; nothing is assumed about the order   *)
(* in which the operating system serves the processes that wait.           *)
Fairness == \A p \in Proc : WF_vars(Step(p))

FairSpec == Spec /\ Fairness

-----------------------------------------------------------------------------
(* Between load and rename nobody else replaces the file: what the process *)
(* edits is still what the path names, so the rename overwrites no update  *)
(* of another process (scheduler.rs with_jobs, group.rs modify_group).     *)
SnapshotFresh ==
    \A p \in Proc :
        /\ pc[p] = "loaded" => buf[p] = file
        /\ pc[p] \in {"edited", "written"} =>
               /\ op[p] \in Ops
               /\ op[p][file] # Failed
               /\ buf[p] = op[p][file]

(* A process is inside the protocol exactly while it holds the lock.       *)
LockOwned == \A p \in Proc : pc[p] \in Holding <=> lock = p

(* Who waits for the lock waits for a process that gives it back, by       *)
(* finishing, by failing or by dying: the lock never stays held.           *)
LockGivenBack == \A p \in Proc : (lock = p) ~> (lock # p)

Status ==
    [p \in Proc |->
        IF pc[p] = "idle" THEN "idle"
        ELSE IF pc[p] \in {"renamed", "done"} THEN "applied"
        ELSE IF pc[p] \in {"failed", "error"} THEN "failed"
        ELSE "pending"]

Abstract ==
    INSTANCE AtomicFile WITH value <- file, status <- Status, request <- op

(* Every caller sees a file that is only ever changed by whole operations  *)
(* applied to its current contents, in spite of the interleaving of the    *)
(* steps and of deaths between them (with_jobs, modify_group,              *)
(* with_records_mut).                                                      *)
ImplementsAtomicFile == Abstract!Spec
=============================================================================
