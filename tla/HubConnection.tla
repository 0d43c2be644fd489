--------------------------- MODULE HubConnection ---------------------------
(***************************************************************************)
(* One connection of the computer-hub SDK (xai-computer-hub-sdk,           *)
(* connection.rs and demux.rs): the callers that park a response waiter    *)
(* and enqueue a frame, the writer task that drains the outbound queue     *)
(* onto the socket, and the reader actor that routes answers, notices a    *)
(* dead socket, fails the parked waiters, reconnects and hands the writer  *)
(* the new sink.  Callers, writer and reader are three kinds of tasks that *)
(* share the demux maps and the channels only.                             *)
(*                                                                         *)
(* Time is abstract: a timeout is an action that may be taken whenever the *)
(* thing it waits for has not happened.  A reconnect attempt that fails    *)
(* with a transport error changes nothing and is a stuttering step.        *)
(***************************************************************************)
EXTENDS Integers, Sequences, FiniteSets, Functions

CONSTANTS
    Requests,       \* requests without a deadline of their own (call_request)
    ToolCalls,      \* those of them that are tool.call requests of the harness
    ServeAttempts,  \* the attempts of one serve(), each with a deadline
    OutboundBuffer, \* capacity of the outbound channel
    CtlBuffer,      \* capacity of the writer's control channel (2 in the code)
    MaxBreaks       \* bound: sockets that the network takes away

ASSUME CallsAssumption ==
    /\ ToolCalls \subseteq Requests
    /\ ServeAttempts \in Seq(Range(ServeAttempts))
    /\ Requests \cap Range(ServeAttempts) = {}

ASSUME BoundsAssumption ==
    /\ OutboundBuffer \in Nat \ {0}
    /\ CtlBuffer \in Nat \ {0}
    /\ MaxBreaks \in Nat

Calls == Requests \cup Range(ServeAttempts)
\* The sockets of the connection, numbered in the order they were opened.
Sockets == Nat \ {0}
\* A control message: Pause, or Resume with the sink of a socket.
Pause == 0

VARIABLES
    call,       \* where each caller is: idle, sending, waiting, done, timedout,
                \* or dropped while it was sending
    slot,       \* the oneshot of each call: empty, answer or error
    waiters,    \* Demux::waiters, the calls whose oneshot sender is parked
    outbound,   \* the outbound channel
    on,         \* the socket that took the frame of each call, 0 for none
    wpc, live, sink, hand,  \* the writer: what it is at, its sink, its frame
    ctl, wstop, \* the writer's control channel and its stop channel
    rpc, cur, todo, next,   \* the reader: what it is at, its socket, its drain
    stop, reconnect,        \* the reader's stop and reconnect channels
    broken,     \* the sockets that are dead, known to the reader or not
    raced,      \* history: frames taken off the queue past a queued Pause
    late        \* history: calls parked after the actor's last drain began

callVars == <<call, slot, waiters, late>>
writerVars == <<wpc, live, sink, hand>>
readerVars == <<rpc, cur, todo, next>>
vars == <<call, slot, waiters, outbound, on, wpc, live, sink, hand, ctl, wstop,
          rpc, cur, todo, next, stop, reconnect, broken, raced, late>>

WriterGone == wpc = "gone"

\* The actor has taken the snapshot of its last drain.
LastDrainBegun == \/ rpc = "draining" /\ next = "stopping"
                  \/ rpc \in {"stopping", "join", "gone"}

Init ==
    /\ call = [c \in Calls |-> "idle"]
    /\ slot = [c \in Calls |-> "empty"]
    /\ waiters = {}
    /\ outbound = <<>>
    /\ on = [c \in Calls |-> 0]
    /\ wpc = "ctl" /\ live = TRUE /\ sink = 1 /\ hand = {}
    /\ ctl = <<>> /\ wstop = FALSE
    /\ rpc = "connected" /\ cur = 1 /\ todo = {} /\ next = "backoff"
    /\ stop = FALSE /\ reconnect = FALSE
    /\ broken = {}
    /\ raced = {} /\ late = {}

-----------------------------------------------------------------------------
(* The callers. *)

\* serve() starts an attempt only after the one before it has timed out.
MayStart(c) ==
    \A i \in 2..Len(ServeAttempts) :
        ServeAttempts[i] = c => call[ServeAttempts[i - 1]] = "timedout"

\* The waiter is parked before the frame is sent.
Register(c) ==
    /\ call[c] = "idle" /\ MayStart(c)
    /\ call' = [call EXCEPT ![c] = "sending"]
    /\ waiters' = waiters \cup {c}
    /\ late' = IF LastDrainBegun THEN late \cup {c} ELSE late
    /\ UNCHANGED <<slot, outbound, on, writerVars, ctl, wstop, readerVars, stop,
                   reconnect, broken, raced>>

\* send_outbound finds room, at once or within its bounded wait.
Enqueue(c) ==
    /\ call[c] = "sending" /\ ~WriterGone
    /\ Len(outbound) < OutboundBuffer
    /\ outbound' = Append(outbound, c)
    /\ call' = [call EXCEPT ![c] = "waiting"]
    /\ UNCHANGED <<slot, waiters, on, writerVars, ctl, wstop, readerVars, stop,
                   reconnect, broken, raced, late>>

\* A bug: a call that returns leaves its waiter in the map.
ReturnWithoutGuard(c, as) ==
    /\ call' = [call EXCEPT ![c] = as]
    /\ waiters' = waiters

\* The call returns, and its WaiterGuard takes the waiter back.
Return(c, as) ==
    /\ call' = [call EXCEPT ![c] = as]
    /\ waiters' = waiters \ {c}

\* send_outbound fails: the queue stays full beyond the bounded wait, or the
\* writer has dropped the receiver.
SendFails(c) ==
    /\ call[c] = "sending"
    /\ WriterGone \/ Len(outbound) >= OutboundBuffer
    /\ Return(c, "done")
    /\ UNCHANGED <<slot, outbound, on, writerVars, ctl, wstop, readerVars, stop,
                   reconnect, broken, raced, late>>

\* The oneshot resolves.
Await(c) ==
    /\ call[c] = "waiting" /\ slot[c] # "empty"
    /\ Return(c, "done")
    /\ UNCHANGED <<slot, outbound, on, writerVars, ctl, wstop, readerVars, stop,
                   reconnect, broken, raced, late>>

\* An attempt of serve() runs into its deadline; after the last one serve
\* forces a reconnect (try_send on a channel of one slot).
TimeOut(c) ==
    /\ c \in Range(ServeAttempts)
    /\ call[c] = "waiting" /\ slot[c] = "empty"
    /\ Return(c, "timedout")
    /\ reconnect' = (reconnect \/ c = ServeAttempts[Len(ServeAttempts)])
    /\ UNCHANGED <<slot, outbound, on, writerVars, ctl, wstop, readerVars, stop,
                   broken, raced, late>>

\* The caller drops the future of its request, or the stream that a tool call
\* has once its frame is queued.
Abandon(c) ==
    /\ c \in Requests
    /\ call[c] \in {"sending", "waiting"}
    /\ c \in ToolCalls => call[c] = "waiting"
    /\ Return(c, "done")
    /\ UNCHANGED <<slot, outbound, on, writerVars, ctl, wstop, readerVars, stop,
                   reconnect, broken, raced, late>>

\* The caller drops a tool call that awaits room in the outbound queue: there
\* is no stream yet and no guard, and the waiter stays in the map.
DropUnsent(c) ==
    /\ c \in ToolCalls
    /\ call[c] = "sending"
    /\ call' = [call EXCEPT ![c] = "dropped"]
    /\ UNCHANGED <<slot, waiters, outbound, on, writerVars, ctl, wstop,
                   readerVars, stop, reconnect, broken, raced, late>>

\* Whoever takes a parked waiter fulfils its oneshot.
Resolve(c, with) ==
    /\ waiters' = waiters \ {c}
    /\ slot' = IF c \in waiters THEN [slot EXCEPT ![c] = with] ELSE slot

\* The workspace of the session is reported gone: the harness fails the calls
\* of the session that are parked, one by one.
FailCall(c) ==
    /\ c \in ToolCalls \cap waiters
    /\ Resolve(c, "error")
    /\ UNCHANGED <<call, outbound, on, writerVars, ctl, wstop, readerVars, stop,
                   reconnect, broken, raced, late>>

\* request_shutdown, or the drop of the last handle.
RequestShutdown ==
    /\ ~stop
    /\ stop' = TRUE
    /\ UNCHANGED <<callVars, outbound, on, writerVars, ctl, wstop, readerVars,
                   reconnect, broken, raced>>

-----------------------------------------------------------------------------
(* The writer task: a biased select over stop, control, ping and outbound.   *)
(* The arms are polled one after the other, so the queue can be polled after *)
(* a control message has come that the poll before it did not see.           *)

\* A bug: a writer that is paused does not look at its stop channel.
WriterStopWhileLive ==
    /\ wpc = "ctl" /\ wstop /\ live
    /\ wpc' = "gone"
    /\ UNCHANGED <<callVars, outbound, on, live, sink, hand, ctl, wstop,
                   readerVars, stop, reconnect, broken, raced>>

WriterStop ==
    /\ wpc = "ctl" /\ wstop
    /\ wpc' = "gone"
    /\ UNCHANGED <<callVars, outbound, on, live, sink, hand, ctl, wstop,
                   readerVars, stop, reconnect, broken, raced>>

\* A bug: the sink of a Resume is installed, and the writer stays parked.
WriterCtlStaysPaused ==
    /\ wpc = "ctl" /\ ~wstop /\ ctl # <<>>
    /\ ctl' = Tail(ctl)
    /\ live' = (live /\ Head(ctl) # Pause)
    /\ sink' = IF Head(ctl) = Pause THEN sink ELSE Head(ctl)
    /\ UNCHANGED <<callVars, outbound, on, wpc, hand, wstop, readerVars, stop,
                   reconnect, broken, raced>>

\* A bug: every control message is taken for a Resume.
WriterCtlAlwaysInstalls ==
    /\ wpc = "ctl" /\ ~wstop /\ ctl # <<>>
    /\ ctl' = Tail(ctl)
    /\ live' = (Head(ctl) # Pause)
    /\ sink' = Head(ctl)
    /\ UNCHANGED <<callVars, outbound, on, wpc, hand, wstop, readerVars, stop,
                   reconnect, broken, raced>>

WriterCtl ==
    /\ wpc = "ctl" /\ ~wstop /\ ctl # <<>>
    /\ ctl' = Tail(ctl)
    /\ live' = (Head(ctl) # Pause)
    /\ sink' = IF Head(ctl) = Pause THEN sink ELSE Head(ctl)
    /\ UNCHANGED <<callVars, outbound, on, wpc, hand, wstop, readerVars, stop,
                   reconnect, broken, raced>>

\* The keepalive ping fails on a dead socket.
WriterPingFails ==
    /\ wpc = "ctl" /\ ~wstop /\ ctl = <<>> /\ live
    /\ sink \in broken
    /\ live' = FALSE
    /\ UNCHANGED <<callVars, outbound, on, wpc, sink, hand, ctl, wstop,
                   readerVars, stop, reconnect, broken, raced>>

\* Nothing on the stop and control channels: the outbound arm is next.
WriterPoll ==
    /\ wpc = "ctl" /\ ~wstop /\ ctl = <<>> /\ live
    /\ wpc' = "out"
    /\ UNCHANGED <<callVars, outbound, on, live, sink, hand, ctl, wstop,
                   readerVars, stop, reconnect, broken, raced>>

\* A bug: the frame is sent from the queue and not taken out of it.
WriterTakeKeeps ==
    /\ wpc = "out" /\ outbound # <<>>
    /\ hand' = {Head(outbound)}
    /\ wpc' = "send"
    /\ raced' = IF ctl # <<>> THEN raced \cup {Head(outbound)} ELSE raced
    /\ UNCHANGED <<callVars, outbound, on, live, sink, ctl, wstop, readerVars,
                   stop, reconnect, broken>>

WriterTake ==
    /\ wpc = "out" /\ outbound # <<>>
    /\ hand' = {Head(outbound)}
    /\ outbound' = Tail(outbound)
    /\ wpc' = "send"
    /\ raced' = IF ctl # <<>> THEN raced \cup {Head(outbound)} ELSE raced
    /\ UNCHANGED <<callVars, on, live, sink, ctl, wstop, readerVars, stop,
                   reconnect, broken>>

\* Nothing to send either: the writer sleeps until a channel wakes it.
WriterIdle ==
    /\ wpc = "out" /\ outbound = <<>>
    /\ wpc' = "ctl"
    /\ UNCHANGED <<callVars, outbound, on, live, sink, hand, ctl, wstop,
                   readerVars, stop, reconnect, broken, raced>>

\* The send of the frame returns.  On a dead socket it may still succeed, into
\* a buffer nobody reads; when it fails the frame is gone and the writer parks.
WriterSend ==
    /\ wpc = "send"
    /\ on' = [c \in Calls |-> IF c \in hand THEN sink ELSE on[c]]
    /\ hand' = {}
    /\ wpc' = "ctl"
    /\ \/ live' = live
       \/ sink \in broken /\ live' = FALSE
    /\ UNCHANGED <<callVars, outbound, sink, ctl, wstop, readerVars, stop,
                   reconnect, broken, raced>>

Writer == \/ WriterStop \/ WriterCtl \/ WriterPingFails \/ WriterPoll
          \/ WriterTake \/ WriterIdle \/ WriterSend

-----------------------------------------------------------------------------
(* The reader actor. *)

Connected == rpc = "connected" /\ ~stop

\* A bug: the actor stops the writer without a last drain.
LeaveLoopUndrained == rpc' = "stopping" /\ next' = "stopping"

\* The actor leaves its loop: a last drain, then it stops the writer.
LeaveLoop == rpc' = "drain" /\ next' = "stopping"

ReaderStop ==
    /\ rpc \in {"connected", "backoff"} /\ stop
    /\ LeaveLoop
    /\ UNCHANGED <<callVars, outbound, on, writerVars, ctl, wstop, cur, todo,
                   stop, reconnect, broken, raced>>

\* An answer comes in on the current socket and is routed to its waiter, if
\* the waiter is still parked.
ReadAnswer(c) ==
    /\ Connected /\ ~reconnect
    /\ cur \notin broken /\ on[c] = cur
    /\ on' = [on EXCEPT ![c] = 0]
    /\ Resolve(c, "answer")
    /\ UNCHANGED <<call, outbound, writerVars, ctl, wstop, readerVars, stop,
                   reconnect, broken, raced, late>>

\* The reader gives its socket up; a forced reconnect does so with a socket
\* that may be alive.
Disconnect ==
    /\ rpc' = "pause"
    /\ broken' = broken \cup {cur}

ReaderForced ==
    /\ Connected /\ reconnect
    /\ reconnect' = FALSE
    /\ Disconnect
    /\ UNCHANGED <<callVars, outbound, on, writerVars, ctl, wstop, cur, todo,
                   next, stop, raced>>

\* A close frame, the end of the stream, a read error or the liveness deadline.
ReaderSeesClose ==
    /\ Connected /\ ~reconnect
    /\ cur \in broken
    /\ Disconnect
    /\ UNCHANGED <<callVars, outbound, on, writerVars, ctl, wstop, cur, todo,
                   next, stop, reconnect, raced>>

\* A close frame with a terminal code: no Pause, no reconnect.
TerminalClose ==
    /\ Connected /\ ~reconnect
    /\ rpc' = "drain" /\ next' = "drain"
    /\ UNCHANGED <<callVars, outbound, on, writerVars, ctl, wstop, cur, todo,
                   stop, reconnect, broken, raced>>

\* A bug: the waiters are failed and the writer is not told.
ReaderPauseUnsent ==
    /\ rpc = "pause" /\ Len(ctl) < CtlBuffer
    /\ rpc' = "drain" /\ next' = "backoff"
    /\ UNCHANGED <<callVars, outbound, on, writerVars, ctl, wstop, cur, todo,
                   stop, reconnect, broken, raced>>

\* The writer is told before the waiters are failed; the send waits for room.
ReaderPause ==
    /\ rpc = "pause" /\ Len(ctl) < CtlBuffer
    /\ ctl' = Append(ctl, Pause)
    /\ rpc' = "drain" /\ next' = "backoff"
    /\ UNCHANGED <<callVars, outbound, on, writerVars, wstop, cur, todo, stop,
                   reconnect, broken, raced>>

\* drain_waiters_with: the keys are collected, then removed one by one.
DrainSnapshot ==
    /\ rpc = "drain"
    /\ todo' = waiters
    /\ rpc' = "draining"
    /\ UNCHANGED <<callVars, outbound, on, writerVars, ctl, wstop, cur, next,
                   stop, reconnect, broken, raced>>

DrainOne(c) ==
    /\ rpc = "draining" /\ c \in todo
    /\ todo' = todo \ {c}
    /\ Resolve(c, "error")
    /\ UNCHANGED <<call, outbound, on, writerVars, ctl, wstop, rpc, cur, next,
                   stop, reconnect, broken, raced, late>>

DrainDone ==
    /\ rpc = "draining" /\ todo = {}
    /\ rpc' = next
    /\ next' = IF next = "drain" THEN "stopping" ELSE next
    /\ UNCHANGED <<callVars, outbound, on, writerVars, ctl, wstop, cur, todo,
                   stop, reconnect, broken, raced>>

\* A reconnect attempt succeeds; forced reconnects asked for meanwhile are
\* about the old socket and are thrown away.
Reconnect ==
    /\ rpc = "backoff"
    /\ cur' = cur + 1
    /\ reconnect' = FALSE
    /\ rpc' = "resume"
    /\ UNCHANGED <<callVars, outbound, on, writerVars, ctl, wstop, todo, next,
                   stop, broken, raced>>

\* The hub refuses the credentials of a reconnect attempt.
AuthFailed ==
    /\ rpc = "backoff"
    /\ rpc' = "drain" /\ next' = "drain"
    /\ UNCHANGED <<callVars, outbound, on, writerVars, ctl, wstop, cur, todo,
                   stop, reconnect, broken, raced>>

ReaderResume ==
    /\ rpc = "resume" /\ Len(ctl) < CtlBuffer
    /\ ctl' = Append(ctl, cur)
    /\ rpc' = "connected"
    /\ UNCHANGED <<callVars, outbound, on, writerVars, wstop, cur, todo, next,
                   stop, reconnect, broken, raced>>

ReaderStopWriter ==
    /\ rpc = "stopping"
    /\ wstop' = TRUE
    /\ rpc' = "join"
    /\ UNCHANGED <<callVars, outbound, on, writerVars, ctl, cur, todo, next,
                   stop, reconnect, broken, raced>>

\* The writer has ended: await_shutdown resolves.
ReaderJoin ==
    /\ rpc = "join" /\ WriterGone
    /\ rpc' = "gone"
    /\ UNCHANGED <<callVars, outbound, on, writerVars, ctl, wstop, cur, todo,
                   next, stop, reconnect, broken, raced>>

\* The steps the actor takes by itself, without the hub's doing.
Reader == \/ ReaderStop \/ ReaderForced \/ ReaderSeesClose \/ ReaderPause
          \/ DrainSnapshot \/ (\E c \in Calls : DrainOne(c)) \/ DrainDone
          \/ Reconnect \/ ReaderResume \/ ReaderStopWriter \/ ReaderJoin

\* The network, or the hub, takes the current socket away.
SocketBreaks ==
    /\ Cardinality(broken) < MaxBreaks
    /\ cur \notin broken
    /\ broken' = broken \cup {cur}
    /\ UNCHANGED <<callVars, outbound, on, writerVars, ctl, wstop, readerVars,
                   stop, reconnect, raced>>

-----------------------------------------------------------------------------
CallStep(c) == \/ Enqueue(c) \/ SendFails(c) \/ Await(c) \/ TimeOut(c)

Next ==
    \/ \E c \in Calls : \/ Register(c) \/ CallStep(c) \/ Abandon(c)
                        \/ DropUnsent(c) \/ FailCall(c) \/ ReadAnswer(c)
    \/ RequestShutdown \/ TerminalClose \/ AuthFailed \/ SocketBreaks
    \/ Writer \/ Reader

Spec == Init /\ [][Next]_vars

(***************************************************************************)
(* Every task that can run does (the tokio runtime), every await that has  *)
(* a timeout ends, a send on a socket returns, the hub answers what it     *)
(* receives on a socket that stays up, and accepts a reconnect some time.  *)
(***************************************************************************)
FairSpec == /\ Spec
            /\ \A c \in Calls : WF_vars(CallStep(c)) /\ WF_vars(ReadAnswer(c))
            /\ WF_vars(Writer) /\ WF_vars(Reader)

-----------------------------------------------------------------------------
(* Properties. *)

\* The variables keep their types.
TypeOK ==
    /\ call \in [Calls -> {"idle", "sending", "waiting", "done", "timedout",
                          "dropped"}]
    /\ slot \in [Calls -> {"empty", "answer", "error"}]
    /\ waiters \subseteq Calls
    /\ outbound \in Seq(Calls)
    /\ on \in [Calls -> Nat]
    /\ wpc \in {"ctl", "out", "send", "gone"}
    /\ live \in BOOLEAN /\ sink \in Sockets
    /\ hand \subseteq Calls
    /\ ctl \in Seq(Nat) /\ wstop \in BOOLEAN
    /\ rpc \in {"connected", "pause", "drain", "draining", "backoff", "resume",
                "stopping", "join", "gone"}
    /\ cur \in Sockets /\ todo \subseteq Calls
    /\ next \in {"backoff", "drain", "stopping"}
    /\ stop \in BOOLEAN /\ reconnect \in BOOLEAN
    /\ broken \subseteq Sockets
    /\ raced \subseteq Calls /\ late \subseteq Calls

\* No waiter is lost, and one kind is leaked: a call has a waiter in the map
\* exactly while it has not returned and nobody has fulfilled its oneshot,
\* whoever of the router, the drain, the short-circuit and the guard takes it.
\* The leak is a tool call dropped while it was sending, whose waiter stays
\* until a drain or a short-circuit takes it.
WaiterIffUnresolved ==
    \A c \in Calls :
        c \in waiters <=> /\ call[c] \in {"sending", "waiting", "dropped"}
                         /\ slot[c] = "empty"

Buffered(c) == \E i \in 1..Len(outbound) : outbound[i] = c

\* Nobody waits on a dead socket: once the reader has failed the waiters of a
\* dead socket, a parked call that waits for its answer has its frame buffered
\* for the next socket or on the socket the reader reads.  The one way out is
\* a frame the writer took after the Pause was queued, because its poll of the
\* control channel had come just before it.
ParkedOnLiveSocket ==
    rpc \in {"backoff", "resume", "connected"} =>
        \A c \in waiters \ raced :
            \/ call[c] \in {"sending", "dropped"}
            \/ Buffered(c)
            \/ rpc = "connected" /\ (c \in hand => sink = cur)
                                 /\ (c \notin hand => on[c] = cur)

\* The actor's exit fails every call: when it stops the writer, the calls that
\* are parked are calls that came after its last drain began.
ExitFailsEveryCall ==
    rpc \in {"stopping", "join", "gone"} => waiters \subseteq late

\* How far each call is, for those who make it.
Status ==
    [c \in Calls |->
        IF call[c] = "idle" THEN "idle"
        ELSE IF call[c] \in {"done", "timedout", "dropped"} THEN "over"
        ELSE IF slot[c] = "empty" THEN "open"
        ELSE slot[c]]

\* Where the frame of each call is, for the hub.
Frame ==
    [c \in Calls |->
        IF on[c] # 0 THEN "wire"
        ELSE IF call[c] \in {"idle", "sending"} \/ c \in hand \/ Buffered(c)
        THEN "unsent"
        ELSE "gone"]

Abstract == INSTANCE RequestReply WITH status <- Status, frame <- Frame

\* Through lost sockets, paused writers and drains that race the callers, no
\* frame is sent twice, nobody is answered who has not asked, and no outcome is
\* settled twice or after the call has returned.
ImplementsRequestReply == Abstract!Spec

\* The calls that someone still waits for: not the frame that slipped past a
\* Pause, and not the call that was parked while the actor was ending.
Owed == {c \in Calls \ (raced \cup late) : call[c] \in {"sending", "waiting"}}

\* Calls end, by an answer, an error or a timeout, through any number of lost
\* sockets.
CallsEnd == (Owed # {}) ~> (Owed = {})

\* A shutdown that is asked for comes to its end (await_shutdown resolves),
\* with the reader and the writer waiting for room in, and for messages of,
\* the same control channel.
ShutdownEnds == stop ~> rpc = "gone"
=============================================================================
