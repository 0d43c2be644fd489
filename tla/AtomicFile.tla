----------------------------- MODULE AtomicFile -----------------------------
(***************************************************************************)
(* What the locked JSON files of omgb promise their callers: with_jobs     *)
(* (scheduler.rs), modify_group (group.rs) and with_records_mut            *)
(* (threads.rs) behave as if every closure ran alone, in one step, on the  *)
(* current contents of the file.  An operation is a partial function on    *)
(* the contents: it is Failed where the closure bails.                     *)
(***************************************************************************)
CONSTANTS
    Proc,       \* the operating system processes (or tokio tasks) of omgb
    Value,      \* the possible contents of the file
    InitValue,  \* its contents at the start
    Failed,     \* what an operation yields where its closure returns Err
    Ops,        \* the operations, functions from Value to Value or Failed
    NoOp        \* what a process that has no call under way asks for

VARIABLES
    value,      \* the contents of the file
    status,     \* how far the call of each process is
    request     \* the operation each process asked for last

vars == <<value, status, request>>

Statuses == {"idle", "pending", "applied", "failed"}

TypeOK ==
    /\ value \in Value
    /\ status \in [Proc -> Statuses]
    /\ request \in [Proc -> Ops \cup {NoOp}]

Init ==
    /\ value = InitValue
    /\ status = [p \in Proc |-> "idle"]
    /\ request = [p \in Proc |-> NoOp]

Ask(p, o) ==
    /\ status[p] = "idle"
    /\ status' = [status EXCEPT ![p] = "pending"]
    /\ request' = [request EXCEPT ![p] = o]
    /\ UNCHANGED value

(* The one step in which the contents change. *)
Commit(p) ==
    /\ status[p] = "pending"
    /\ request[p][value] # Failed
    /\ value' = request[p][value]
    /\ status' = [status EXCEPT ![p] = "applied"]
    /\ UNCHANGED request

(* The closure bails, or the file cannot be read or written. *)
Reject(p) ==
    /\ status[p] = "pending"
    /\ status' = [status EXCEPT ![p] = "failed"]
    /\ UNCHANGED <<value, request>>

(* The caller sees the result, or dies before it could. *)
Finish(p) ==
    /\ status[p] \in {"pending", "applied", "failed"}
    /\ status' = [status EXCEPT ![p] = "idle"]
    /\ request' = [request EXCEPT ![p] = NoOp]
    /\ UNCHANGED value

Next ==
    \E p \in Proc :
        \/ \E o \in Ops : Ask(p, o)
        \/ Commit(p)
        \/ Reject(p)
        \/ Finish(p)

Spec == Init /\ [][Next]_vars
=============================================================================
