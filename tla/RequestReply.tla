---------------------------- MODULE RequestReply ----------------------------
(***************************************************************************)
(* What a hub connection promises those who make requests on it, through   *)
(* any number of sockets: the frame of a request is transmitted at most    *)
(* once, a request is answered only after that, and its outcome, an answer *)
(* or an error, is settled once, while its caller has not returned.  An    *)
(* answer that comes too late is dropped.                                  *)
(***************************************************************************)
CONSTANT Calls      \* the requests, each made once

VARIABLES
    status,     \* of each call: idle, open, its outcome, or over
    frame       \* of each call: unsent, on the wire, or gone for good

vars == <<status, frame>>

TypeOK ==
    /\ status \in [Calls -> {"idle", "open", "answer", "error", "over"}]
    /\ frame \in [Calls -> {"unsent", "wire", "gone"}]

Init ==
    /\ status = [c \in Calls |-> "idle"]
    /\ frame = [c \in Calls |-> "unsent"]

Open(c) ==
    /\ status[c] = "idle"
    /\ status' = [status EXCEPT ![c] = "open"]
    /\ UNCHANGED frame

(* A frame that is queued goes out even when its caller has returned.      *)
Transmit(c) ==
    /\ status[c] # "idle" /\ frame[c] = "unsent"
    /\ frame' = [frame EXCEPT ![c] = "wire"]
    /\ UNCHANGED status

Answer(c) ==
    /\ frame[c] = "wire"
    /\ frame' = [frame EXCEPT ![c] = "gone"]
    /\ status' = [status EXCEPT ![c] = IF @ = "open" THEN "answer" ELSE @]

Fail(c) ==
    /\ status[c] = "open"
    /\ status' = [status EXCEPT ![c] = "error"]
    /\ UNCHANGED frame

(* The call returns: with its outcome, or without one when it times out,   *)
(* is dropped or cannot be queued.  A frame not yet queued never will be.  *)
Close(c) ==
    /\ status[c] \in {"open", "answer", "error"}
    /\ status' = [status EXCEPT ![c] = "over"]
    /\ \/ UNCHANGED frame
       \/ frame[c] = "unsent" /\ frame' = [frame EXCEPT ![c] = "gone"]

Next ==
    \E c \in Calls :
        Open(c) \/ Transmit(c) \/ Answer(c) \/ Fail(c) \/ Close(c)

Spec == Init /\ [][Next]_vars
=============================================================================
