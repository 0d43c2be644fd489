\* Two calls and two frames of the hub (two requests, a request and its Cancel,
\* or two Cancels), two full binds, an unbind of the first and a shutdown; the
\* first loop may be killed by a hook handler.
SPECIFICATION FairSpec
CONSTANTS
    MaxCalls = 2
    MaxFrames = 2
    SessionMax = 1
    InboxBuffer = 1
    MaxTombstones = 1
    MaxBinds = 2
    Unbindable = {1}
    Panicking = {1}
INVARIANTS TypeOK NoOrphan CancelSticks SessionBounded RebindOnlyOfDead LiveLoopHasInbox
PROPERTIES TornDownCallsEnd
CHECK_DEADLOCK FALSE
