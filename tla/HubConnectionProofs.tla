------------------------ MODULE HubConnectionProofs ------------------------
(***************************************************************************)
(* Invariance proofs for HubConnection, for any set of calls, any channel  *)
(* capacities and any number of lost sockets.                              *)
(*                                                                         *)
(* The argument for ParkedOnLiveSocket: while the reader is between its    *)
(* Pause and its Resume, the control channel ends with that Pause or the   *)
(* writer has taken it and is not live (PausedWriter), so a frame leaves   *)
(* the queue only past a queued Pause; while the reader reads a socket,    *)
(* the control channel ends with its Resume or the writer has its sink     *)
(* (ResumedWriter); hence a parked call whose frame has left the queue is  *)
(* on the socket being read or is still to be drained (SentThenDrained).   *)
(***************************************************************************)
EXTENDS HubConnection, TLAPS

\* The writer holds a frame only while it sends, and polls the queue only live.
WriterState ==
    /\ hand # {} => wpc = "send"
    /\ wpc = "out" => live

\* A call that has not sent, or was dropped before it could, has no frame
\* anywhere.
FrameAfterSend ==
    /\ \A c \in Calls :
         call[c] \in {"idle", "sending", "dropped"} => on[c] = 0 /\ c \notin hand
    /\ \A i \in 1..Len(outbound) :
         call[outbound[i]] \notin {"idle", "sending", "dropped"}

\* The frame of a parked call that has sent is in the queue, in the writer's
\* hand or on a socket.
FrameKept ==
    \A c \in waiters :
        call[c] = "waiting" => Buffered(c) \/ c \in hand \/ on[c] # 0

BetweenPauseAndResume ==
    \/ rpc \in {"backoff", "resume"}
    \/ rpc \in {"drain", "draining"} /\ next = "backoff"

PausedWriter ==
    BetweenPauseAndResume =>
        /\ ctl = <<>> => ~live
        /\ ctl # <<>> => ctl[Len(ctl)] = Pause

ResumedWriter ==
    rpc = "connected" =>
        /\ ctl = <<>> => sink = cur
        /\ ctl # <<>> => ctl[Len(ctl)] = cur

OnCurrent(c) == /\ c \in hand => sink = cur
                /\ c \notin hand => on[c] = cur

SentThenDrained ==
    \A c \in waiters \ raced :
        c \in hand \/ on[c] # 0 =>
            \/ rpc = "connected" /\ OnCurrent(c)
            \/ rpc \in {"pause", "drain", "stopping", "join", "gone"}
            \/ rpc = "draining" /\ (c \in todo \/ next # "backoff")

LastDrain ==
    /\ rpc = "draining" /\ next = "stopping" => waiters \subseteq late \cup todo
    /\ ExitFailsEveryCall

\* The oneshot of a call that has not begun is empty.
IdleUnresolved == \A c \in Calls : call[c] = "idle" => slot[c] = "empty"

IInv == /\ TypeOK /\ WaiterIffUnresolved /\ IdleUnresolved
        /\ WriterState /\ FrameAfterSend /\ FrameKept
        /\ PausedWriter /\ ResumedWriter /\ SentThenDrained /\ LastDrain

(* Types are preserved by every step of the callers, the writer and the    *)
(* reader actor.                                                           *)
LEMMA TypeNext ==
    ASSUME TypeOK, [Next]_vars
    PROVE  TypeOK'
<1> USE DEF TypeOK, callVars, writerVars, readerVars, Sockets, Pause
<1>1. CASE \E c \in Calls : Register(c)
  BY <1>1 DEF Register, LastDrainBegun
<1>2. CASE \E c \in Calls : Enqueue(c)
  BY <1>2 DEF Enqueue
<1>3. CASE \E c \in Calls : SendFails(c)
  BY <1>3 DEF SendFails, Return
<1>4. CASE \E c \in Calls : Await(c)
  BY <1>4 DEF Await, Return
<1>5. CASE \E c \in Calls : TimeOut(c)
  BY <1>5 DEF TimeOut, Return
<1>6. CASE \E c \in Calls : Abandon(c)
  BY <1>6 DEF Abandon, Return
<1>7. CASE \E c \in Calls : FailCall(c)
  BY <1>7 DEF FailCall, Resolve
<1>8. CASE \E c \in Calls : ReadAnswer(c)
  BY <1>8 DEF ReadAnswer, Resolve, Connected
<1>9. CASE \E c \in Calls : DrainOne(c)
  BY <1>9 DEF DrainOne, Resolve
<1>10. CASE WriterStop
  BY <1>10 DEF WriterStop
<1>11. CASE WriterCtl
  BY <1>11 DEF WriterCtl
<1>12. CASE WriterPingFails
  BY <1>12 DEF WriterPingFails
<1>13. CASE WriterPoll
  BY <1>13 DEF WriterPoll
<1>14. CASE WriterTake
  BY <1>14 DEF WriterTake
<1>15. CASE WriterIdle
  BY <1>15 DEF WriterIdle
<1>16. CASE WriterSend
  BY <1>16 DEF WriterSend
<1>17. CASE RequestShutdown
  BY <1>17 DEF RequestShutdown
<1>18. CASE TerminalClose
  BY <1>18 DEF TerminalClose, Connected
<1>19. CASE AuthFailed
  BY <1>19 DEF AuthFailed
<1>20. CASE SocketBreaks
  BY <1>20 DEF SocketBreaks
<1>21. CASE ReaderStop
  BY <1>21 DEF ReaderStop, LeaveLoop
<1>22. CASE ReaderForced
  BY <1>22 DEF ReaderForced, Connected, Disconnect
<1>23. CASE ReaderSeesClose
  BY <1>23 DEF ReaderSeesClose, Connected, Disconnect
<1>24. CASE ReaderPause
  BY <1>24 DEF ReaderPause
<1>25. CASE DrainSnapshot
  BY <1>25 DEF DrainSnapshot
<1>26. CASE DrainDone
  BY <1>26 DEF DrainDone
<1>27. CASE Reconnect
  <2>1. cur + 1 \in Nat \ {0}
    OBVIOUS
  <2> QED BY <1>27, <2>1 DEF Reconnect
<1>28. CASE ReaderResume
  BY <1>28 DEF ReaderResume
<1>29. CASE ReaderStopWriter
  BY <1>29 DEF ReaderStopWriter
<1>30. CASE ReaderJoin
  BY <1>30 DEF ReaderJoin
<1>31. CASE \E c \in Calls : DropUnsent(c)
  BY <1>31 DEF DropUnsent
<1>32. CASE UNCHANGED vars
  BY <1>32 DEF vars
<1> HIDE DEF TypeOK, callVars, writerVars, readerVars, Sockets, Pause
<1> QED
  BY <1>1, <1>2, <1>3, <1>4, <1>5, <1>6, <1>7, <1>8, <1>9, <1>10, <1>11, 
     <1>12, <1>13, <1>14, <1>15, <1>16, <1>17, <1>18, <1>19, <1>20, <1>21, 
     <1>22, <1>23, <1>24, <1>25, <1>26, <1>27, <1>28, <1>29, <1>30, <1>31, <1>32
     DEF Next, CallStep, Writer, Reader

(* A waiter leaves the map exactly when its call returns or its oneshot is *)
(* fulfilled.                                                              *)
LEMMA WaiterNext ==
    ASSUME TypeOK, WaiterIffUnresolved, IdleUnresolved, [Next]_vars
    PROVE  WaiterIffUnresolved' /\ IdleUnresolved'
<1> USE DEF TypeOK, WaiterIffUnresolved, IdleUnresolved, callVars, writerVars, readerVars
<1>1. CASE \E c \in Calls : Register(c)
  BY <1>1 DEF Register, LastDrainBegun
<1>2. CASE \E c \in Calls : Enqueue(c)
  BY <1>2 DEF Enqueue
<1>3. CASE \E c \in Calls : SendFails(c)
  BY <1>3 DEF SendFails, Return
<1>4. CASE \E c \in Calls : Await(c)
  BY <1>4 DEF Await, Return
<1>5. CASE \E c \in Calls : TimeOut(c)
  BY <1>5 DEF TimeOut, Return
<1>6. CASE \E c \in Calls : Abandon(c)
  BY <1>6 DEF Abandon, Return
<1>7. CASE \E c \in Calls : FailCall(c)
  BY <1>7 DEF FailCall, Resolve
<1>8. CASE \E c \in Calls : ReadAnswer(c)
  <2>1. PICK c \in Calls : Resolve(c, "answer") /\ call' = call
    BY <1>8 DEF ReadAnswer
  <2>2. /\ slot \in [Calls -> {"empty", "answer", "error"}]
        /\ WaiterIffUnresolved /\ IdleUnresolved
    OBVIOUS
  <2> HIDE DEF TypeOK
  <2> QED BY <2>1, <2>2 DEF Resolve
<1>9. CASE \E c \in Calls : DrainOne(c)
  BY <1>9 DEF DrainOne, Resolve
<1>10. CASE WriterStop
  BY <1>10 DEF WriterStop
<1>11. CASE WriterCtl
  BY <1>11 DEF WriterCtl
<1>12. CASE WriterPingFails
  BY <1>12 DEF WriterPingFails
<1>13. CASE WriterPoll
  BY <1>13 DEF WriterPoll
<1>14. CASE WriterTake
  BY <1>14 DEF WriterTake
<1>15. CASE WriterIdle
  BY <1>15 DEF WriterIdle
<1>16. CASE WriterSend
  BY <1>16 DEF WriterSend
<1>17. CASE RequestShutdown
  BY <1>17 DEF RequestShutdown
<1>18. CASE TerminalClose
  BY <1>18 DEF TerminalClose, Connected
<1>19. CASE AuthFailed
  BY <1>19 DEF AuthFailed
<1>20. CASE SocketBreaks
  BY <1>20 DEF SocketBreaks
<1>21. CASE ReaderStop
  BY <1>21 DEF ReaderStop, LeaveLoop
<1>22. CASE ReaderForced
  BY <1>22 DEF ReaderForced, Connected, Disconnect
<1>23. CASE ReaderSeesClose
  BY <1>23 DEF ReaderSeesClose, Connected, Disconnect
<1>24. CASE ReaderPause
  BY <1>24 DEF ReaderPause
<1>25. CASE DrainSnapshot
  BY <1>25 DEF DrainSnapshot
<1>26. CASE DrainDone
  BY <1>26 DEF DrainDone
<1>27. CASE Reconnect
  BY <1>27 DEF Reconnect
<1>28. CASE ReaderResume
  BY <1>28 DEF ReaderResume
<1>29. CASE ReaderStopWriter
  BY <1>29 DEF ReaderStopWriter
<1>30. CASE ReaderJoin
  BY <1>30 DEF ReaderJoin
<1>31. CASE \E c \in Calls : DropUnsent(c)
  BY <1>31 DEF DropUnsent
<1>32. CASE UNCHANGED vars
  BY <1>32 DEF vars
<1> QED
  BY <1>1, <1>2, <1>3, <1>4, <1>5, <1>6, <1>7, <1>8, <1>9, <1>10, <1>11, 
     <1>12, <1>13, <1>14, <1>15, <1>16, <1>17, <1>18, <1>19, <1>20, <1>21, 
     <1>22, <1>23, <1>24, <1>25, <1>26, <1>27, <1>28, <1>29, <1>30, <1>31, <1>32
     DEF Next, CallStep, Writer, Reader

(* A frame goes from its caller to the queue, the writer's hand and a      *)
(* socket, and stays in one of them while its call is parked.              *)
LEMMA FramesNext ==
    ASSUME TypeOK, WaiterIffUnresolved, WriterState, FrameAfterSend, FrameKept, [Next]_vars
    PROVE  WriterState' /\ FrameAfterSend' /\ FrameKept'
<1> USE DEF TypeOK, WriterState, FrameAfterSend, FrameKept, Buffered, callVars,
        writerVars, readerVars
<1>1. CASE \E c \in Calls : Register(c)
  BY <1>1 DEF Register, LastDrainBegun
<1>2. CASE \E c \in Calls : Enqueue(c)
  BY <1>2 DEF Enqueue
<1>3. CASE \E c \in Calls : SendFails(c)
  BY <1>3 DEF SendFails, Return
<1>4. CASE \E c \in Calls : Await(c)
  BY <1>4 DEF Await, Return
<1>5. CASE \E c \in Calls : TimeOut(c)
  BY <1>5 DEF TimeOut, Return
<1>6. CASE \E c \in Calls : Abandon(c)
  BY <1>6 DEF Abandon, Return
<1>7. CASE \E c \in Calls : FailCall(c)
  BY <1>7 DEF FailCall, Resolve
<1>8. CASE \E c \in Calls : ReadAnswer(c)
  BY <1>8 DEF ReadAnswer, Resolve, Connected
<1>9. CASE \E c \in Calls : DrainOne(c)
  BY <1>9 DEF DrainOne, Resolve
<1>10. CASE WriterStop
  BY <1>10 DEF WriterStop
<1>11. CASE WriterCtl
  BY <1>11 DEF WriterCtl
<1>12. CASE WriterPingFails
  BY <1>12 DEF WriterPingFails
<1>13. CASE WriterPoll
  BY <1>13 DEF WriterPoll
<1>14. CASE WriterTake
  <2> USE <1>14 DEF WriterTake
  <2>1. /\ Len(outbound) \in Nat \ {0}
        /\ Len(outbound') = Len(outbound) - 1
        /\ \A i \in 1..Len(outbound') : outbound'[i] = outbound[i + 1]
        /\ Head(outbound) = outbound[1] /\ outbound[1] \in Calls
    OBVIOUS
  <2>2. WriterState'
    OBVIOUS
  <2>3. FrameAfterSend'
    BY <2>1
  <2>4. FrameKept'
    <3>1. ASSUME NEW c \in waiters, Buffered(c), c # Head(outbound)
          PROVE  Buffered(c)'
      <4>1. PICK i \in 1..Len(outbound) : outbound[i] = c
        BY <3>1
      <4>2. i - 1 \in 1..Len(outbound') /\ outbound'[i - 1] = c
        BY <2>1, <3>1, <4>1
      <4> QED BY <4>2
    <3>2. hand = {}
      OBVIOUS
    <3> QED BY <3>1, <3>2 DEF callVars
  <2> QED BY <2>2, <2>3, <2>4
<1>15. CASE WriterIdle
  BY <1>15 DEF WriterIdle
<1>16. CASE WriterSend
  <2> USE <1>16 DEF WriterSend
  <2>1. \A c \in Calls : on'[c] = IF c \in hand THEN sink ELSE on[c]
    OBVIOUS
  <2>2. sink # 0
    BY DEF Sockets
  <2>3. WriterState'
    OBVIOUS
  <2>4. FrameAfterSend'
    BY <2>1
  <2>5. FrameKept'
    BY <2>1, <2>2
  <2> QED BY <2>3, <2>4, <2>5
<1>17. CASE RequestShutdown
  BY <1>17 DEF RequestShutdown
<1>18. CASE TerminalClose
  BY <1>18 DEF TerminalClose, Connected
<1>19. CASE AuthFailed
  BY <1>19 DEF AuthFailed
<1>20. CASE SocketBreaks
  BY <1>20 DEF SocketBreaks
<1>21. CASE ReaderStop
  BY <1>21 DEF ReaderStop, LeaveLoop
<1>22. CASE ReaderForced
  BY <1>22 DEF ReaderForced, Connected, Disconnect
<1>23. CASE ReaderSeesClose
  BY <1>23 DEF ReaderSeesClose, Connected, Disconnect
<1>24. CASE ReaderPause
  BY <1>24 DEF ReaderPause
<1>25. CASE DrainSnapshot
  BY <1>25 DEF DrainSnapshot
<1>26. CASE DrainDone
  BY <1>26 DEF DrainDone
<1>27. CASE Reconnect
  BY <1>27 DEF Reconnect
<1>28. CASE ReaderResume
  BY <1>28 DEF ReaderResume
<1>29. CASE ReaderStopWriter
  BY <1>29 DEF ReaderStopWriter
<1>30. CASE ReaderJoin
  BY <1>30 DEF ReaderJoin
<1>31. CASE \E c \in Calls : DropUnsent(c)
  BY <1>31 DEF DropUnsent
<1>32. CASE UNCHANGED vars
  BY <1>32 DEF vars
<1> QED
  BY <1>1, <1>2, <1>3, <1>4, <1>5, <1>6, <1>7, <1>8, <1>9, <1>10, <1>11, 
     <1>12, <1>13, <1>14, <1>15, <1>16, <1>17, <1>18, <1>19, <1>20, <1>21, 
     <1>22, <1>23, <1>24, <1>25, <1>26, <1>27, <1>28, <1>29, <1>30, <1>31, <1>32
     DEF Next, CallStep, Writer, Reader

(* The last control message says what the reader has last asked for.       *)
LEMMA ControlNext ==
    ASSUME TypeOK, WriterState, PausedWriter, ResumedWriter, [Next]_vars
    PROVE  PausedWriter' /\ ResumedWriter'
<1> USE DEF TypeOK, WriterState, PausedWriter, ResumedWriter, BetweenPauseAndResume,
        Pause, Sockets, callVars, writerVars, readerVars
<1>1. CASE \E c \in Calls : Register(c)
  BY <1>1 DEF Register, LastDrainBegun
<1>2. CASE \E c \in Calls : Enqueue(c)
  BY <1>2 DEF Enqueue
<1>3. CASE \E c \in Calls : SendFails(c)
  BY <1>3 DEF SendFails, Return
<1>4. CASE \E c \in Calls : Await(c)
  BY <1>4 DEF Await, Return
<1>5. CASE \E c \in Calls : TimeOut(c)
  BY <1>5 DEF TimeOut, Return
<1>6. CASE \E c \in Calls : Abandon(c)
  BY <1>6 DEF Abandon, Return
<1>7. CASE \E c \in Calls : FailCall(c)
  BY <1>7 DEF FailCall, Resolve
<1>8. CASE \E c \in Calls : ReadAnswer(c)
  BY <1>8 DEF ReadAnswer, Resolve, Connected
<1>9. CASE \E c \in Calls : DrainOne(c)
  BY <1>9 DEF DrainOne, Resolve
<1>10. CASE WriterStop
  BY <1>10 DEF WriterStop
<1>11. CASE WriterCtl
  <2> USE <1>11 DEF WriterCtl
  <2>1. /\ Len(ctl) \in Nat \ {0} /\ Head(ctl) = ctl[1]
        /\ Len(ctl') = Len(ctl) - 1 /\ ctl' \in Seq(Nat)
    OBVIOUS
  <2>2. ctl' # <<>> => ctl'[Len(ctl')] = ctl[Len(ctl)]
    <3>1. ASSUME ctl' # <<>>
          PROVE  Len(ctl') \in Nat \ {0}
      BY <2>1, <3>1
    <3>2. \A i \in 1..Len(ctl') : ctl'[i] = ctl[i + 1]
      BY <2>1
    <3>3. ctl' # <<>> => Len(ctl') \in 1..Len(ctl') /\ Len(ctl') + 1 = Len(ctl)
      BY <2>1, <3>1
    <3> QED BY <3>2, <3>3
  <2>3. ctl' = <<>> => Head(ctl) = ctl[Len(ctl)]
    <3>1. ASSUME ctl' = <<>>
          PROVE  Len(ctl) = 1
      <4>1. Len(ctl') = Len(<<>>)
        BY <3>1
      <4>2. Len(<<>>) = 0
        OBVIOUS
      <4> QED BY <2>1, <4>1, <4>2
    <3> QED BY <2>1, <3>1
  <2> QED BY <2>2, <2>3
<1>12. CASE WriterPingFails
  BY <1>12 DEF WriterPingFails
<1>13. CASE WriterPoll
  BY <1>13 DEF WriterPoll
<1>14. CASE WriterTake
  BY <1>14 DEF WriterTake
<1>15. CASE WriterIdle
  BY <1>15 DEF WriterIdle
<1>16. CASE WriterSend
  BY <1>16 DEF WriterSend
<1>17. CASE RequestShutdown
  BY <1>17 DEF RequestShutdown
<1>18. CASE TerminalClose
  BY <1>18 DEF TerminalClose, Connected
<1>19. CASE AuthFailed
  BY <1>19 DEF AuthFailed
<1>20. CASE SocketBreaks
  BY <1>20 DEF SocketBreaks
<1>21. CASE ReaderStop
  BY <1>21 DEF ReaderStop, LeaveLoop
<1>22. CASE ReaderForced
  BY <1>22 DEF ReaderForced, Connected, Disconnect
<1>23. CASE ReaderSeesClose
  BY <1>23 DEF ReaderSeesClose, Connected, Disconnect
<1>24. CASE ReaderPause
  <2> USE <1>24 DEF ReaderPause
  <2>1. ctl' # <<>> /\ ctl'[Len(ctl')] = Pause
    OBVIOUS
  <2> QED BY <2>1
<1>25. CASE DrainSnapshot
  BY <1>25 DEF DrainSnapshot
<1>26. CASE DrainDone
  BY <1>26 DEF DrainDone
<1>27. CASE Reconnect
  BY <1>27 DEF Reconnect
<1>28. CASE ReaderResume
  BY <1>28 DEF ReaderResume
<1>29. CASE ReaderStopWriter
  BY <1>29 DEF ReaderStopWriter
<1>30. CASE ReaderJoin
  BY <1>30 DEF ReaderJoin
<1>31. CASE \E c \in Calls : DropUnsent(c)
  BY <1>31 DEF DropUnsent
<1>32. CASE UNCHANGED vars
  BY <1>32 DEF vars
<1> QED
  BY <1>1, <1>2, <1>3, <1>4, <1>5, <1>6, <1>7, <1>8, <1>9, <1>10, <1>11, 
     <1>12, <1>13, <1>14, <1>15, <1>16, <1>17, <1>18, <1>19, <1>20, <1>21, 
     <1>22, <1>23, <1>24, <1>25, <1>26, <1>27, <1>28, <1>29, <1>30, <1>31, <1>32
     DEF Next, CallStep, Writer, Reader

(* A parked call whose frame has left the queue is on the socket that is   *)
(* being read, or is going to be drained.                                  *)
LEMMA SentNext ==
    ASSUME IInv, [Next]_vars
    PROVE  SentThenDrained'
<1> USE DEF IInv, TypeOK, WriterState, FrameAfterSend, PausedWriter, ResumedWriter,
        BetweenPauseAndResume, SentThenDrained, OnCurrent, Sockets, callVars,
        writerVars, readerVars
<1>1. CASE \E c \in Calls : Register(c)
  BY <1>1 DEF Register, LastDrainBegun
<1>2. CASE \E c \in Calls : Enqueue(c)
  BY <1>2 DEF Enqueue
<1>3. CASE \E c \in Calls : SendFails(c)
  BY <1>3 DEF SendFails, Return
<1>4. CASE \E c \in Calls : Await(c)
  BY <1>4 DEF Await, Return
<1>5. CASE \E c \in Calls : TimeOut(c)
  BY <1>5 DEF TimeOut, Return
<1>6. CASE \E c \in Calls : Abandon(c)
  BY <1>6 DEF Abandon, Return
<1>7. CASE \E c \in Calls : FailCall(c)
  BY <1>7 DEF FailCall, Resolve
<1>8. CASE \E c \in Calls : ReadAnswer(c)
  BY <1>8 DEF ReadAnswer, Resolve, Connected
<1>9. CASE \E c \in Calls : DrainOne(c)
  BY <1>9 DEF DrainOne, Resolve
<1>10. CASE WriterStop
  BY <1>10 DEF WriterStop
<1>11. CASE WriterCtl
  BY <1>11 DEF WriterCtl
<1>12. CASE WriterPingFails
  BY <1>12 DEF WriterPingFails
<1>13. CASE WriterPoll
  BY <1>13 DEF WriterPoll
<1>14. CASE WriterTake
  BY <1>14 DEF WriterTake
<1>15. CASE WriterIdle
  BY <1>15 DEF WriterIdle
<1>16. CASE WriterSend
  BY <1>16 DEF WriterSend
<1>17. CASE RequestShutdown
  BY <1>17 DEF RequestShutdown
<1>18. CASE TerminalClose
  BY <1>18 DEF TerminalClose, Connected
<1>19. CASE AuthFailed
  BY <1>19 DEF AuthFailed
<1>20. CASE SocketBreaks
  BY <1>20 DEF SocketBreaks
<1>21. CASE ReaderStop
  BY <1>21 DEF ReaderStop, LeaveLoop
<1>22. CASE ReaderForced
  BY <1>22 DEF ReaderForced, Connected, Disconnect
<1>23. CASE ReaderSeesClose
  BY <1>23 DEF ReaderSeesClose, Connected, Disconnect
<1>24. CASE ReaderPause
  BY <1>24 DEF ReaderPause
<1>25. CASE DrainSnapshot
  BY <1>25 DEF DrainSnapshot
<1>26. CASE DrainDone
  BY <1>26 DEF DrainDone
<1>27. CASE Reconnect
  BY <1>27 DEF Reconnect
<1>28. CASE ReaderResume
  BY <1>28 DEF ReaderResume
<1>29. CASE ReaderStopWriter
  BY <1>29 DEF ReaderStopWriter
<1>30. CASE ReaderJoin
  BY <1>30 DEF ReaderJoin
<1>31. CASE \E c \in Calls : DropUnsent(c)
  BY <1>31 DEF DropUnsent
<1>32. CASE UNCHANGED vars
  BY <1>32 DEF vars
<1> QED
  BY <1>1, <1>2, <1>3, <1>4, <1>5, <1>6, <1>7, <1>8, <1>9, <1>10, <1>11, 
     <1>12, <1>13, <1>14, <1>15, <1>16, <1>17, <1>18, <1>19, <1>20, <1>21, 
     <1>22, <1>23, <1>24, <1>25, <1>26, <1>27, <1>28, <1>29, <1>30, <1>31, <1>32
     DEF Next, CallStep, Writer, Reader

(* What is parked after the last drain was parked after it had begun.      *)
LEMMA LastDrainNext ==
    ASSUME TypeOK, LastDrain, [Next]_vars
    PROVE  LastDrain'
<1> USE DEF TypeOK, LastDrain, ExitFailsEveryCall, LastDrainBegun, callVars,
        writerVars, readerVars
<1>1. CASE \E c \in Calls : Register(c)
  BY <1>1 DEF Register, LastDrainBegun
<1>2. CASE \E c \in Calls : Enqueue(c)
  BY <1>2 DEF Enqueue
<1>3. CASE \E c \in Calls : SendFails(c)
  BY <1>3 DEF SendFails, Return
<1>4. CASE \E c \in Calls : Await(c)
  BY <1>4 DEF Await, Return
<1>5. CASE \E c \in Calls : TimeOut(c)
  BY <1>5 DEF TimeOut, Return
<1>6. CASE \E c \in Calls : Abandon(c)
  BY <1>6 DEF Abandon, Return
<1>7. CASE \E c \in Calls : FailCall(c)
  BY <1>7 DEF FailCall, Resolve
<1>8. CASE \E c \in Calls : ReadAnswer(c)
  BY <1>8 DEF ReadAnswer, Resolve, Connected
<1>9. CASE \E c \in Calls : DrainOne(c)
  BY <1>9 DEF DrainOne, Resolve
<1>10. CASE WriterStop
  BY <1>10 DEF WriterStop
<1>11. CASE WriterCtl
  BY <1>11 DEF WriterCtl
<1>12. CASE WriterPingFails
  BY <1>12 DEF WriterPingFails
<1>13. CASE WriterPoll
  BY <1>13 DEF WriterPoll
<1>14. CASE WriterTake
  BY <1>14 DEF WriterTake
<1>15. CASE WriterIdle
  BY <1>15 DEF WriterIdle
<1>16. CASE WriterSend
  BY <1>16 DEF WriterSend
<1>17. CASE RequestShutdown
  BY <1>17 DEF RequestShutdown
<1>18. CASE TerminalClose
  BY <1>18 DEF TerminalClose, Connected
<1>19. CASE AuthFailed
  BY <1>19 DEF AuthFailed
<1>20. CASE SocketBreaks
  BY <1>20 DEF SocketBreaks
<1>21. CASE ReaderStop
  BY <1>21 DEF ReaderStop, LeaveLoop
<1>22. CASE ReaderForced
  BY <1>22 DEF ReaderForced, Connected, Disconnect
<1>23. CASE ReaderSeesClose
  BY <1>23 DEF ReaderSeesClose, Connected, Disconnect
<1>24. CASE ReaderPause
  BY <1>24 DEF ReaderPause
<1>25. CASE DrainSnapshot
  BY <1>25 DEF DrainSnapshot
<1>26. CASE DrainDone
  BY <1>26 DEF DrainDone
<1>27. CASE Reconnect
  BY <1>27 DEF Reconnect
<1>28. CASE ReaderResume
  BY <1>28 DEF ReaderResume
<1>29. CASE ReaderStopWriter
  BY <1>29 DEF ReaderStopWriter
<1>30. CASE ReaderJoin
  BY <1>30 DEF ReaderJoin
<1>31. CASE \E c \in Calls : DropUnsent(c)
  BY <1>31 DEF DropUnsent
<1>32. CASE UNCHANGED vars
  BY <1>32 DEF vars
<1> QED
  BY <1>1, <1>2, <1>3, <1>4, <1>5, <1>6, <1>7, <1>8, <1>9, <1>10, <1>11, 
     <1>12, <1>13, <1>14, <1>15, <1>16, <1>17, <1>18, <1>19, <1>20, <1>21, 
     <1>22, <1>23, <1>24, <1>25, <1>26, <1>27, <1>28, <1>29, <1>30, <1>31, <1>32
     DEF Next, CallStep, Writer, Reader

(* The invariant holds on a connection that has just been opened.         *)
LEMMA InitIInv == Init => IInv
<1> SUFFICES ASSUME Init PROVE IInv
  OBVIOUS
<1> USE DEF Init
<1>1. TypeOK
  <2>1. outbound \in Seq(Calls) /\ ctl \in Seq(Nat)
    OBVIOUS
  <2>2. on \in [Calls -> Nat] /\ sink \in Sockets /\ cur \in Sockets
    BY DEF Sockets
  <2> QED BY <2>1, <2>2 DEF TypeOK
<1>2. WaiterIffUnresolved /\ IdleUnresolved
  BY DEF WaiterIffUnresolved, IdleUnresolved
<1>3. WriterState /\ FrameKept /\ SentThenDrained
  BY DEF WriterState, FrameKept, SentThenDrained
<1>4. FrameAfterSend
  BY DEF FrameAfterSend
<1>5. PausedWriter /\ ResumedWriter /\ LastDrain
  BY DEF PausedWriter, BetweenPauseAndResume, ResumedWriter, LastDrain,
         ExitFailsEveryCall
<1> QED
  BY <1>1, <1>2, <1>3, <1>4, <1>5 DEF IInv

(* Every step of the callers, the writer and the reader keeps it.          *)
LEMMA NextIInv == IInv /\ [Next]_vars => IInv'
BY TypeNext, WaiterNext, FramesNext, ControlNext, SentNext, LastDrainNext
   DEF IInv

(* A parked call is waiting for a frame, and the frame is not on a socket  *)
(* that the reader has given up.                                           *)
LEMMA IInvParked == IInv => ParkedOnLiveSocket
<1> SUFFICES ASSUME IInv, rpc \in {"backoff", "resume", "connected"},
                    NEW c \in waiters \ raced,
                    call[c] \notin {"sending", "dropped"}, ~Buffered(c)
             PROVE  rpc = "connected" /\ (c \in hand => sink = cur)
                                      /\ (c \notin hand => on[c] = cur)
  BY DEF ParkedOnLiveSocket
<1>1. c \in hand \/ on[c] # 0
  BY DEF IInv, TypeOK, WaiterIffUnresolved, FrameKept
<1> QED
  BY <1>1 DEF IInv, SentThenDrained, OnCurrent

(* The inductive invariant holds throughout.                               *)
LEMMA SpecIInv == Spec => []IInv
BY InitIInv, NextIInv, PTL DEF Spec

(* The variables of the callers, the writer and the reader keep their      *)
(* types.                                                                  *)
THEOREM TypeCorrect == Spec => []TypeOK
<1>1. IInv => TypeOK
  BY DEF IInv
<1> QED
  BY SpecIInv, <1>1, PTL

(* No waiter is lost between the router, the drains, the short-circuit of  *)
(* the harness and the callers' guards, and none is leaked but that of a   *)
(* tool call dropped while it was sending.                                 *)
THEOREM NoWaiterLost == Spec => []WaiterIffUnresolved
<1>1. IInv => WaiterIffUnresolved
  BY DEF IInv
<1> QED
  BY SpecIInv, <1>1, PTL

(* Pausing the writer before the drain leaves nobody waiting on a dead     *)
(* socket, but for the frame that slips past the Pause.                    *)
THEOREM NobodyOnDeadSocket == Spec => []ParkedOnLiveSocket
BY SpecIInv, IInvParked, PTL

(* The actor's exit fails every call that was parked before its last drain *)
(* began.                                                                  *)
THEOREM ExitDrains == Spec => []ExitFailsEveryCall
<1>1. IInv => ExitFailsEveryCall
  BY DEF IInv, LastDrain
<1> QED
  BY SpecIInv, <1>1, PTL

-----------------------------------------------------------------------------
(* The refinement. *)

\* A frame is in one place.
FrameOnce ==
    /\ \A i, j \in 1..Len(outbound) : outbound[i] = outbound[j] => i = j
    /\ \A i \in 1..Len(outbound) : outbound[i] \notin hand /\ on[outbound[i]] = 0
    /\ \A c \in hand : on[c] = 0
    /\ \A c, d \in hand : c = d

callerSees == <<call, slot, on, hand, outbound>>

CallerStep(c) ==
    \/ Register(c) \/ Enqueue(c) \/ SendFails(c) \/ Await(c) \/ TimeOut(c)
    \/ Abandon(c) \/ DropUnsent(c) \/ FailCall(c) \/ ReadAnswer(c) \/ DrainOne(c)

(* The steps that move a frame or settle a call; the reader's handling of  *)
(* sockets and most of the writer's steps do neither.                      *)
LEMMA VisibleSteps ==
    ASSUME [Next]_vars
    PROVE  \/ \E c \in Calls : CallerStep(c)
           \/ WriterTake \/ WriterSend
           \/ UNCHANGED callerSees
<1> USE DEF callerSees, callVars, writerVars, readerVars
<1>1. CASE WriterStop \/ WriterCtl \/ WriterPingFails \/ WriterPoll \/ WriterIdle
  BY <1>1 DEF WriterStop, WriterCtl, WriterPingFails, WriterPoll, WriterIdle
<1>2. CASE RequestShutdown \/ TerminalClose \/ AuthFailed \/ SocketBreaks
  BY <1>2 DEF RequestShutdown, TerminalClose, AuthFailed, SocketBreaks
<1>3. CASE ReaderStop \/ ReaderForced \/ ReaderSeesClose \/ ReaderPause
  BY <1>3 DEF ReaderStop, ReaderForced, ReaderSeesClose, ReaderPause
<1>4. CASE DrainSnapshot \/ DrainDone \/ Reconnect
  BY <1>4 DEF DrainSnapshot, DrainDone, Reconnect
<1>5. CASE ReaderResume \/ ReaderStopWriter \/ ReaderJoin
  BY <1>5 DEF ReaderResume, ReaderStopWriter, ReaderJoin
<1>6. CASE UNCHANGED vars
  BY <1>6 DEF vars
<1> QED
  BY <1>1, <1>2, <1>3, <1>4, <1>5, <1>6
     DEF Next, CallStep, CallerStep, Writer, Reader

(* What WriterTake does to the queue. *)
LEMMA Taken ==
    ASSUME TypeOK, WriterState, WriterTake
    PROVE  /\ Len(outbound) \in Nat \ {0} /\ outbound[1] \in Calls
           /\ hand = {} /\ hand' = {outbound[1]}
           /\ Len(outbound') = Len(outbound) - 1
           /\ \A i \in 1..Len(outbound') :
                i + 1 \in 1..Len(outbound) /\ outbound'[i] = outbound[i + 1]
<1>1. outbound \in Seq(Calls) /\ outbound # <<>>
  BY DEF TypeOK, WriterTake
<1>2. /\ hand = {} /\ hand' = {Head(outbound)} /\ outbound' = Tail(outbound)
  BY DEF WriterTake, WriterState
<1> QED BY <1>1, <1>2

(* What Enqueue does to the queue. *)
LEMMA Enqueued ==
    ASSUME TypeOK, NEW c \in Calls, Enqueue(c)
    PROVE  /\ Len(outbound) \in Nat /\ Len(outbound') = Len(outbound) + 1
           /\ outbound'[Len(outbound) + 1] = c
           /\ \A i \in 1..Len(outbound) : outbound'[i] = outbound[i]
<1>1. outbound \in Seq(Calls) /\ outbound' = Append(outbound, c)
  BY DEF TypeOK, Enqueue
<1> QED BY <1>1

(* No step puts a frame in a second place: the writer takes it out of the  *)
(* queue before it sends, and a call is queued once.                       *)
LEMMA OnceNext ==
    ASSUME IInv, FrameOnce, [Next]_vars
    PROVE  FrameOnce'
<1>0. /\ TypeOK /\ WriterState /\ FrameAfterSend
      /\ on \in [Calls -> Nat] /\ hand \subseteq Calls /\ outbound \in Seq(Calls)
  BY DEF IInv, TypeOK
<1>1. ASSUME NEW c \in Calls, Enqueue(c)
      PROVE  FrameOnce'
  <2>1. /\ call[c] = "sending" /\ hand' = hand /\ on' = on
    BY <1>1 DEF Enqueue, writerVars
  <2>2. /\ on[c] = 0 /\ c \notin hand
        /\ \A i \in 1..Len(outbound) : outbound[i] # c
    BY <1>0, <2>1 DEF FrameAfterSend
  <2>3. /\ Len(outbound) \in Nat /\ Len(outbound') = Len(outbound) + 1
        /\ outbound'[Len(outbound) + 1] = c
        /\ \A i \in 1..Len(outbound) : outbound'[i] = outbound[i]
    BY <1>0, <1>1, Enqueued
  <2>4. \A i \in 1..Len(outbound') : i \in 1..Len(outbound) \/ i = Len(outbound) + 1
    BY <2>3
  <2> QED BY <2>1, <2>2, <2>3, <2>4 DEF FrameOnce
<1>2. ASSUME NEW c \in Calls, ReadAnswer(c)
      PROVE  FrameOnce'
  <2>1. /\ on' = [on EXCEPT ![c] = 0] /\ hand' = hand /\ outbound' = outbound
    BY <1>2 DEF ReadAnswer, writerVars
  <2>2. \A i \in 1..Len(outbound) : outbound[i] \in Calls
    BY <1>0
  <2> QED BY <1>0, <2>1, <2>2 DEF FrameOnce
<1>3. ASSUME NEW c \in Calls, CallerStep(c), ~Enqueue(c), ~ReadAnswer(c)
      PROVE  FrameOnce'
  <2>1. on' = on /\ hand' = hand /\ outbound' = outbound
    BY <1>3 DEF CallerStep, Register, SendFails, Await, TimeOut, Abandon,
                DropUnsent, FailCall, DrainOne, writerVars
  <2> QED BY <2>1 DEF FrameOnce
<1>4. CASE WriterTake
  <2>1. /\ Len(outbound) \in Nat \ {0}
        /\ hand' = {outbound[1]} /\ Len(outbound') = Len(outbound) - 1
        /\ \A i \in 1..Len(outbound') :
             i + 1 \in 1..Len(outbound) /\ outbound'[i] = outbound[i + 1]
    BY <1>0, <1>4, Taken
  <2>2. on' = on
    BY <1>4 DEF WriterTake
  <2>3. 1 \in 1..Len(outbound) /\ \A i \in 1..Len(outbound') : i \in Nat /\ i + 1 # 1
    BY <2>1
  <2>4. \A i, j \in 1..Len(outbound') : outbound'[i] = outbound'[j] => i = j
    <3> SUFFICES ASSUME NEW i \in 1..Len(outbound'), NEW j \in 1..Len(outbound'),
                        outbound'[i] = outbound'[j]
                 PROVE  i = j
      OBVIOUS
    <3>1. i + 1 = j + 1
      BY <2>1 DEF FrameOnce
    <3> QED BY <2>3, <3>1
  <2>5. \A i \in 1..Len(outbound') : outbound'[i] # outbound[1]
    BY <2>1, <2>3 DEF FrameOnce
  <2> QED BY <2>1, <2>2, <2>3, <2>4, <2>5 DEF FrameOnce
<1>5. CASE WriterSend
  <2>1. /\ \A c \in Calls : on'[c] = IF c \in hand THEN sink ELSE on[c]
        /\ hand' = {} /\ outbound' = outbound
    BY <1>0, <1>5 DEF WriterSend
  <2>2. \A i \in 1..Len(outbound) : outbound[i] \in Calls
    BY <1>0
  <2> QED BY <2>1, <2>2 DEF FrameOnce
<1>6. CASE UNCHANGED callerSees
  BY <1>6 DEF callerSees, FrameOnce
<1> QED BY <1>1, <1>2, <1>3, <1>4, <1>5, <1>6, VisibleSteps

RefInv == IInv /\ FrameOnce

(* A frame that moves from the queue to the writer's hand, or that is      *)
(* queued, is unsent before and after.                                     *)
LEMMA FrameUnmoved ==
    ASSUME on' = on,
           \A c \in Calls :
               \/ call[c] \in {"idle", "sending"} \/ c \in hand \/ Buffered(c)
               <=> \/ call'[c] \in {"idle", "sending"} \/ c \in hand'
                   \/ Buffered(c)'
    PROVE  Frame' = Frame
BY DEF Frame

(* A call that ends without having queued its frame takes it along.        *)
LEMMA Returned ==
    ASSUME RefInv, NEW c \in Calls, NEW as \in {"done", "timedout", "dropped"},
           call[c] \in {"sending", "waiting"}, call' = [call EXCEPT ![c] = as],
           UNCHANGED <<slot, on, hand, outbound>>
    PROVE  Abstract!Close(c)
<1>0. /\ call \in [Calls -> {"idle", "sending", "waiting", "done", "timedout",
                            "dropped"}]
      /\ slot \in [Calls -> {"empty", "answer", "error"}]
      /\ on \in [Calls -> Nat] /\ FrameAfterSend
  BY DEF RefInv, IInv, TypeOK
<1>1. /\ call' = [call EXCEPT ![c] = as] /\ slot' = slot /\ on' = on
      /\ hand' = hand /\ outbound' = outbound
  OBVIOUS
<1>2. Status[c] \in {"open", "answer", "error"}
  BY <1>0 DEF Status
<1>3. Status' = [Status EXCEPT ![c] = "over"]
  BY <1>0, <1>1 DEF Status
<1>4. \A d \in Calls : Buffered(d)' <=> Buffered(d)
  BY <1>1 DEF Buffered
<1>5. CASE call[c] = "waiting"
  <2>1. Frame' = Frame
    BY <1>0, <1>1, <1>4, <1>5, FrameUnmoved
  <2> QED BY <1>2, <1>3, <2>1 DEF Abstract!Close
<1>6. CASE call[c] = "sending"
  <2>1. on[c] = 0 /\ c \notin hand /\ ~Buffered(c)
    BY <1>0, <1>6 DEF FrameAfterSend, Buffered
  <2>2. Frame[c] = "unsent"
    BY <1>6, <2>1 DEF Frame
  <2>3. Frame' = [Frame EXCEPT ![c] = "gone"]
    BY <1>0, <1>1, <1>4, <2>1 DEF Frame
  <2> QED BY <1>2, <1>3, <2>2, <2>3 DEF Abstract!Close
<1> QED BY <1>5, <1>6

(* Whoever takes a parked waiter without an answer fails an open call, or  *)
(* clears away the waiter that a dropped call has left.                    *)
LEMMA Failed ==
    ASSUME RefInv, NEW c \in waiters, Resolve(c, "error"),
           UNCHANGED <<call, on, hand, outbound>>
    PROVE  IF call[c] = "dropped" THEN UNCHANGED Abstract!vars
                                  ELSE Abstract!Fail(c)
<1>0. /\ slot \in [Calls -> {"empty", "answer", "error"}] /\ c \in Calls
      /\ call[c] \in {"sending", "waiting", "dropped"} /\ slot[c] = "empty"
  BY DEF RefInv, IInv, TypeOK, WaiterIffUnresolved
<1>1. slot' = [slot EXCEPT ![c] = "error"] /\ call' = call
  BY DEF Resolve
<1>2. Frame' = Frame
  BY DEF Frame, Buffered
<1>3. CASE call[c] = "dropped"
  <2>1. \A d \in Calls : d # c => slot'[d] = slot[d]
    BY <1>0, <1>1
  <2>2. Status' = Status
    BY <1>1, <1>3, <2>1 DEF Status
  <2> QED BY <1>2, <1>3, <2>2 DEF Abstract!vars
<1>4. CASE call[c] # "dropped"
  <2>1. Status[c] = "open"
    BY <1>0, <1>4 DEF Status
  <2>2. Status' = [Status EXCEPT ![c] = "error"]
    BY <1>0, <1>1, <1>4 DEF Status
  <2> QED BY <1>2, <1>4, <2>1, <2>2 DEF Abstract!Fail
<1> QED BY <1>3, <1>4

(* Every step is one of RequestReply, or is not seen there.                *)
LEMMA StepRefines ==
    ASSUME RefInv, [Next]_vars
    PROVE  Abstract!Next \/ UNCHANGED Abstract!vars
<1>0. /\ TypeOK /\ WriterState /\ FrameAfterSend /\ FrameOnce
      /\ WaiterIffUnresolved /\ IdleUnresolved
      /\ call \in [Calls -> {"idle", "sending", "waiting", "done", "timedout",
                            "dropped"}]
      /\ slot \in [Calls -> {"empty", "answer", "error"}]
      /\ on \in [Calls -> Nat] /\ hand \subseteq Calls
      /\ cur # 0 /\ sink # 0
  BY DEF RefInv, IInv, TypeOK, Sockets
<1>1. ASSUME NEW c \in Calls, Register(c)
      PROVE  Abstract!Next
  <2>1. /\ call[c] = "idle" /\ call' = [call EXCEPT ![c] = "sending"]
        /\ slot' = slot /\ on' = on /\ hand' = hand /\ outbound' = outbound
    BY <1>1 DEF Register, writerVars
  <2>2. Status[c] = "idle"
    BY <2>1 DEF Status
  <2>3. Status' = [Status EXCEPT ![c] = "open"]
    BY <1>0, <2>1 DEF Status, IdleUnresolved
  <2>4. Frame' = Frame
    BY <1>0, <2>1 DEF Frame, Buffered
  <2> QED BY <2>2, <2>3, <2>4 DEF Abstract!Open, Abstract!Next
<1>2. ASSUME NEW c \in Calls, Enqueue(c)
      PROVE  UNCHANGED Abstract!vars
  <2>1. /\ call[c] = "sending" /\ call' = [call EXCEPT ![c] = "waiting"]
        /\ slot' = slot /\ on' = on /\ hand' = hand
    BY <1>2 DEF Enqueue, writerVars
  <2>2. Status' = Status
    BY <1>0, <2>1 DEF Status
  <2>3. /\ Len(outbound) \in Nat /\ Len(outbound') = Len(outbound) + 1
        /\ outbound'[Len(outbound) + 1] = c
        /\ \A i \in 1..Len(outbound) : outbound'[i] = outbound[i]
    BY <1>0, <1>2, Enqueued
  <2>4. Buffered(c)'
    BY <2>3 DEF Buffered
  <2>5. ASSUME NEW d \in Calls, d # c
        PROVE  Buffered(d)' <=> Buffered(d)
    <3>1. \A i \in 1..Len(outbound') :
            i \in 1..Len(outbound) \/ i = Len(outbound) + 1
      BY <2>3
    <3>2. \A i \in 1..Len(outbound) : i \in 1..Len(outbound')
      BY <2>3
    <3> QED BY <2>3, <2>5, <3>1, <3>2 DEF Buffered
  <2>6. Frame' = Frame
    BY <1>0, <2>1, <2>4, <2>5, FrameUnmoved
  <2> QED BY <2>2, <2>6 DEF Abstract!vars
<1>3. ASSUME NEW c \in Calls,
             \/ SendFails(c) \/ Await(c) \/ TimeOut(c) \/ Abandon(c)
             \/ DropUnsent(c)
      PROVE  Abstract!Next
  <2>1. PICK as \in {"done", "timedout", "dropped"} :
            call' = [call EXCEPT ![c] = as]
    BY <1>3 DEF SendFails, Await, TimeOut, Abandon, DropUnsent, Return
  <2>2. /\ call[c] \in {"sending", "waiting"}
        /\ UNCHANGED <<slot, on, hand, outbound>>
    BY <1>3 DEF SendFails, Await, TimeOut, Abandon, DropUnsent, writerVars
  <2>3. Abstract!Close(c)
    BY <2>1, <2>2, Returned
  <2> QED BY <2>3 DEF Abstract!Next
<1>4. ASSUME NEW c \in Calls, FailCall(c) \/ DrainOne(c)
      PROVE  Abstract!Next \/ UNCHANGED Abstract!vars
  <2>1. Resolve(c, "error") /\ UNCHANGED <<call, on, hand, outbound>>
    BY <1>4 DEF FailCall, DrainOne, writerVars
  <2>2. CASE c \in waiters
    <3>1. Abstract!Fail(c) \/ UNCHANGED Abstract!vars
      BY <2>1, <2>2, Failed
    <3> QED BY <3>1 DEF Abstract!Next
  <2>3. CASE c \notin waiters
    <3>1. slot' = slot
      BY <2>1, <2>3 DEF Resolve
    <3> QED BY <2>1, <3>1 DEF Status, Frame, Buffered, Abstract!vars
  <2> QED BY <2>2, <2>3
<1>5. ASSUME NEW c \in Calls, ReadAnswer(c)
      PROVE  Abstract!Next
  <2>1. /\ on[c] # 0 /\ on' = [on EXCEPT ![c] = 0]
        /\ call' = call /\ hand' = hand /\ outbound' = outbound
        /\ slot' = IF c \in waiters THEN [slot EXCEPT ![c] = "answer"] ELSE slot
    BY <1>0, <1>5 DEF ReadAnswer, Resolve, writerVars
  <2>2. /\ call[c] \notin {"idle", "sending", "dropped"}
        /\ c \notin hand /\ ~Buffered(c)
    BY <1>0, <2>1 DEF FrameAfterSend, FrameOnce, Buffered
  <2>3. c \in waiters <=> Status[c] = "open"
    BY <1>0, <2>2 DEF Status, WaiterIffUnresolved
  <2>4. Status' = [Status EXCEPT ![c] = IF @ = "open" THEN "answer" ELSE @]
    <3>1. CASE c \in waiters
      BY <1>0, <2>1, <2>2, <2>3, <3>1 DEF Status, WaiterIffUnresolved
    <3>2. CASE c \notin waiters
      BY <2>1, <2>3, <3>2 DEF Status
    <3> QED BY <3>1, <3>2
  <2>5. Frame[c] = "wire"
    BY <2>1 DEF Frame
  <2>6. Frame' = [Frame EXCEPT ![c] = "gone"]
    BY <1>0, <2>1, <2>2 DEF Frame, Buffered
  <2>7. Abstract!Answer(c)
    BY <2>4, <2>5, <2>6 DEF Abstract!Answer
  <2> QED BY <2>7 DEF Abstract!Next
<1>6. CASE WriterTake
  <2>1. /\ Len(outbound) \in Nat \ {0} /\ hand = {} /\ hand' = {outbound[1]}
        /\ Len(outbound') = Len(outbound) - 1
        /\ \A i \in 1..Len(outbound') :
             i + 1 \in 1..Len(outbound) /\ outbound'[i] = outbound[i + 1]
    BY <1>0, <1>6, Taken
  <2>2. call' = call /\ slot' = slot /\ on' = on
    BY <1>6 DEF WriterTake, callVars
  <2>3. ASSUME NEW c \in Calls
        PROVE  Buffered(c) <=> c \in hand' \/ Buffered(c)'
    <3>1. ASSUME NEW i \in 1..Len(outbound), outbound[i] = c, i # 1
          PROVE  Buffered(c)'
      <4>1. i - 1 \in 1..Len(outbound') /\ (i - 1) + 1 = i
        BY <2>1, <3>1
      <4>2. outbound'[i - 1] = c
        BY <2>1, <3>1, <4>1
      <4> QED BY <4>1, <4>2 DEF Buffered
    <3>2. Buffered(c)' => Buffered(c)
      BY <2>1 DEF Buffered
    <3>3. 1 \in 1..Len(outbound)
      BY <2>1
    <3> QED BY <2>1, <3>1, <3>2, <3>3 DEF Buffered
  <2>4. Frame' = Frame
    BY <2>1, <2>2, <2>3, FrameUnmoved
  <2>5. Status' = Status
    BY <2>2 DEF Status
  <2> QED BY <2>4, <2>5 DEF Abstract!vars
<1>7. CASE WriterSend
  <2>1. /\ call' = call /\ slot' = slot /\ outbound' = outbound /\ hand' = {}
        /\ on' = [d \in Calls |-> IF d \in hand THEN sink ELSE on[d]]
    BY <1>7 DEF WriterSend, callVars
  <2>2. Status' = Status
    BY <2>1 DEF Status
  <2>3. CASE hand = {}
    <3>1. on' = on /\ hand' = hand
      BY <1>0, <2>1, <2>3
    <3> QED BY <2>1, <2>2, <3>1 DEF Frame, Buffered, Abstract!vars
  <2>4. ASSUME NEW c \in hand
        PROVE  Abstract!Next
    <3>1. /\ c \in Calls /\ on[c] = 0 /\ call[c] \notin {"idle", "sending"}
          /\ hand = {c}
      BY <1>0 DEF FrameOnce, FrameAfterSend
    <3>2. Status[c] # "idle"
      BY <1>0, <3>1 DEF Status
    <3>3. Frame[c] = "unsent"
      BY <3>1 DEF Frame
    <3>4. Frame' = [Frame EXCEPT ![c] = "wire"]
      BY <1>0, <2>1, <3>1 DEF Frame, Buffered
    <3>5. Abstract!Transmit(c)
      BY <2>2, <3>2, <3>3, <3>4 DEF Abstract!Transmit
    <3> QED BY <3>1, <3>5 DEF Abstract!Next
  <2> QED BY <2>3, <2>4
<1>8. CASE UNCHANGED callerSees
  BY <1>8 DEF callerSees, Status, Frame, Buffered, Abstract!vars
<1> QED
  BY <1>1, <1>2, <1>3, <1>4, <1>5, <1>6, <1>7, <1>8, VisibleSteps
     DEF CallerStep

(* For any calls, buffers and lost sockets, the connection is one that     *)
(* transmits a request at most once, answers it only after that, and       *)
(* settles its outcome once.                                               *)
THEOREM Refinement == Spec => ImplementsRequestReply
<1>1. Init => Abstract!Init
  <2> SUFFICES ASSUME Init PROVE Abstract!Init
    OBVIOUS
  <2>1. \A c \in Calls : call[c] = "idle" /\ on[c] = 0
    BY DEF Init
  <2> QED BY <2>1 DEF Abstract!Init, Status, Frame
<1>2. Init => FrameOnce
  BY DEF Init, FrameOnce
<1>3. RefInv /\ [Next]_vars => FrameOnce'
  BY OnceNext DEF RefInv
<1>4. RefInv /\ [Next]_vars => [Abstract!Next]_(Abstract!vars)
  BY StepRefines
<1> QED
  BY <1>1, <1>2, <1>3, <1>4, SpecIInv, PTL
     DEF Spec, RefInv, ImplementsRequestReply, Abstract!Spec
=============================================================================
