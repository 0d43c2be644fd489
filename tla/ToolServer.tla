----------------------------- MODULE ToolServer -----------------------------
(***************************************************************************)
(* The calls of one session of a tool server of the computer-hub SDK       *)
(* (xai-computer-hub-sdk: server.rs, cancel.rs, admission.rs and the       *)
(* session routing of demux.rs).  A bind gives the session an inbox, an    *)
(* admission semaphore, a cancellation registry and a loop; the loop takes *)
(* frames off the inbox, applies Cancel hooks inline and spawns one task   *)
(* per request; binds and unbinds are serialized by session_bind_mu, but   *)
(* the router, the loops, the tasks, shutdown and the end of run() go on   *)
(* beside them.                                                            *)
(*                                                                         *)
(* Full binds are numbered: generation g has inbox g, registry g and loop  *)
(* g, and 0 is a map entry that is absent.  A soft rebind and a bind whose *)
(* resolver fails change nothing here and are stuttering steps.  An abort  *)
(* takes effect where the loop awaits, so a loop that is being polled goes *)
(* on until it does.  The iteration of teardown_sessions locks the shard   *)
(* of the entry it is at; the model lets the map change under it, which    *)
(* only adds interleavings.                                                *)
(***************************************************************************)
EXTENDS Integers, Sequences, FiniteSets

CONSTANTS
    MaxCalls,       \* bound: tool calls
    MaxFrames,      \* bound: requests and cancels that the hub sends
    SessionMax,     \* permits of a session's semaphore
    InboxBuffer,    \* capacity of an inbox
    MaxTombstones,  \* MAX_PENDING_TOMBSTONES
    MaxBinds,       \* bound: full binds
    Unbindable,     \* bound: generations that an unbind may end
    Panicking       \* bound: generations whose loop a hook handler may kill

ASSUME ToolServerAssumption ==
    /\ MaxCalls \in Nat /\ MaxFrames \in Nat
    /\ SessionMax \in Nat \ {0} /\ InboxBuffer \in Nat \ {0}
    /\ MaxTombstones \in Nat \ {0}
    /\ MaxBinds \in Nat
    /\ Unbindable \subseteq 1..MaxBinds /\ Panicking \subseteq 1..MaxBinds

\* Calls are named in the order in which the hub sends their requests.
Calls == 1..MaxCalls
Gens == 1..MaxBinds
None == 0
Frames == [kind : {"request", "cancel"}, call : Calls]

VARIABLES
    gen,        \* the last full bind
    inbox,      \* Demux::sessions: the generation whose inbox is registered
    sem,        \* Admission::session_sems: the generation that made the entry
    reg,        \* ToolServer::cancels: the generation whose registry is there
    handle,     \* session_handles: the generation whose loop is there
    queue,      \* the frames in each inbox
    route,      \* the frame the router holds, with the inbox it has cloned
    loop,       \* where each loop is
    aborted,    \* loops whose abort was called
    closed,     \* registries that cancel_all has closed
    live,       \* CancelRegistry::map
    pending,    \* CancelRegistry::pending, the tombstones
    sent,       \* cancels that the hub has sent
    pc,         \* where each call is
    cgen,       \* the generation whose loop took each call
    token,      \* calls whose token is cancelled
    csem,       \* the semaphore each call waits on, 0 for one of its own
    bpc, bold,  \* bind or unbind: where it is, the registry it cancels
    spc, sold,  \* shutdown: where it is, the registry it cancels
    known,      \* the session is in active_sessions, or was at the snapshot
    hooked,     \* history: who applied the Cancel of a call not yet running
    stray,      \* history: generations whose semaphore somebody else removed
    cutoff,     \* history: generations whose inbox somebody else removed
    lost        \* history: registries that shutdown dropped and did not cancel

maps == <<inbox, sem, reg, handle>>
regs == <<closed, live, pending, token>>
calls == <<pc, cgen, csem>>
binder == <<gen, bpc, bold, known>>
stopper == <<spc, sold, lost>>
control == <<binder, stopper>>
marks == <<hooked, stray, cutoff>>
vars == <<gen, inbox, sem, reg, handle, queue, route, loop, aborted, closed,
          live, pending, sent, pc, cgen, token, csem, bpc, bold, spc, sold,
          known, hooked, stray, cutoff, lost>>

Init ==
    /\ gen = 0 /\ inbox = None /\ sem = None /\ reg = None /\ handle = None
    /\ queue = [g \in Gens |-> <<>>] /\ route = {}
    /\ loop = [g \in Gens |-> "none"] /\ aborted = {}
    /\ closed = {} /\ live = [g \in Gens |-> {}] /\ pending = [g \in Gens |-> {}]
    /\ sent = {}
    /\ pc = [c \in Calls |-> "unsent"]
    /\ cgen = [c \in Calls |-> None] /\ csem = [c \in Calls |-> None]
    /\ token = {}
    /\ bpc = "idle" /\ bold = None
    /\ spc = "up" /\ sold = None /\ known = FALSE
    /\ hooked = [c \in Calls |-> None] /\ stray = {} /\ cutoff = {}
    /\ lost = {}

-----------------------------------------------------------------------------
(* CancelRegistry::cancel_all: the registry is closed, then drained. *)

Close(g) == closed' = closed \cup {g}

Drain(g) ==
    /\ token' = token \cup live[g]
    /\ live' = [live EXCEPT ![g] = {}]
    /\ pending' = [pending EXCEPT ![g] = {}]

-----------------------------------------------------------------------------
(* bind_session_local_with_metadata and unbind_session, one at a time. *)

LoopAlive(g) == g # None /\ loop[g] # "dead"
RegistryOpen(g) == g # None /\ g \notin closed

\* active_sessions, as far as shutdown will see of it.
Track(in) == known' = IF spc = "up" THEN in ELSE known

\* A bug: every bind replaces the inbox, the loop and the registry.
BindInboxAlways ==
    /\ bpc = "idle" /\ gen < MaxBinds
    /\ gen' = gen + 1
    /\ Track(TRUE)
    /\ inbox' = gen'
    /\ sem' = IF sem = None THEN gen' ELSE sem
    /\ bpc' = "insert"
    /\ UNCHANGED <<reg, handle, queue, route, loop, aborted, regs, sent, calls,
                   bold, stopper, marks>>

\* The soft-rebind gate lets the bind through; the inbox is registered and the
\* semaphore created, unless there is one.
BindInbox ==
    /\ bpc = "idle" /\ gen < MaxBinds
    /\ ~(LoopAlive(handle) /\ RegistryOpen(reg))
    /\ gen' = gen + 1
    /\ Track(TRUE)
    /\ inbox' = gen'
    /\ sem' = IF sem = None THEN gen' ELSE sem
    /\ bpc' = "insert"
    /\ UNCHANGED <<reg, handle, queue, route, loop, aborted, regs, sent, calls,
                   bold, stopper, marks>>

BindRegistry ==
    /\ bpc = "insert"
    /\ reg' = gen /\ bold' = reg
    /\ bpc' = IF reg = None THEN "spawn" ELSE "close"
    /\ UNCHANGED <<gen, known, inbox, sem, handle, queue, route, loop, aborted,
                   regs, sent, calls, stopper, marks>>

\* An abort does nothing to a loop that has ended.
Abort(g) == aborted' = IF LoopAlive(g) THEN aborted \cup {g} ELSE aborted

\* The loop is spawned, and its handle replaces that of the loop before it.
BindSpawn ==
    /\ bpc = "spawn"
    /\ loop' = [loop EXCEPT ![gen] = "recv"]
    /\ handle' = gen
    /\ Abort(handle)
    /\ bpc' = "idle" /\ bold' = None
    /\ UNCHANGED <<gen, known, inbox, sem, reg, queue, route, regs, sent, calls,
                   stopper, marks>>

UnbindRegistry ==
    /\ bpc = "idle" /\ gen \in Unbindable
    /\ inbox # None \/ sem # None \/ reg # None \/ handle # None
    /\ Track(FALSE)
    /\ reg' = None /\ bold' = reg
    /\ bpc' = IF reg = None THEN "remove" ELSE "unclose"
    /\ UNCHANGED <<gen, inbox, sem, handle, queue, route, loop, aborted, regs,
                   sent, calls, stopper, marks>>

\* cancel_all on the registry that was replaced or removed.
BinderClose ==
    /\ bpc \in {"close", "unclose"}
    /\ Close(bold)
    /\ bpc' = IF bpc = "close" THEN "drain" ELSE "undrain"
    /\ UNCHANGED <<gen, known, maps, queue, route, loop, aborted, live, pending,
                   token, sent, calls, bold, stopper, marks>>

BinderDrain ==
    /\ bpc \in {"drain", "undrain"}
    /\ Drain(bold)
    /\ bpc' = IF bpc = "drain" THEN "spawn" ELSE "remove"
    /\ UNCHANGED <<gen, known, maps, queue, route, loop, aborted, closed, sent,
                   calls, bold, stopper, marks>>

\* The handle that is in its slot is taken out and aborted.
AbortLoop == Abort(handle) /\ handle' = None

\* unbind_session aborts the loop, then removes the entries of the session.
Remove ==
    /\ bpc = "remove"
    /\ AbortLoop
    /\ inbox' = None /\ sem' = None
    /\ bpc' = "idle" /\ bold' = None
    /\ UNCHANGED <<gen, known, reg, queue, route, loop, regs, sent, calls,
                   stopper, marks>>

Binder == \/ BindRegistry \/ BindSpawn \/ BinderClose \/ BinderDrain
          \/ Remove

-----------------------------------------------------------------------------
(* teardown_sessions, once, for shutdown and for the drop of the server.  It *)
(* does not take session_bind_mu.                                            *)

\* The snapshot of active_sessions is taken, and run() is told to return.
ShutdownBegin ==
    /\ spc = "up"
    /\ spc' = "visit"
    /\ UNCHANGED <<binder, maps, queue, route, loop, aborted, regs, sent, calls,
                   sold, lost, marks>>

\* The iteration over the registries comes to the session: its cancel_all.
ShutdownVisit ==
    /\ spc = "visit"
    /\ sold' = reg
    /\ \/ reg = None /\ spc' = "clear" /\ UNCHANGED closed
       \/ reg # None /\ spc' = "drain" /\ Close(reg)
    /\ UNCHANGED <<binder, maps, queue, route, loop, aborted, live, pending,
                   token, sent, calls, lost, marks>>

ShutdownDrain ==
    /\ spc = "drain"
    /\ Drain(sold)
    /\ spc' = "clear"
    /\ UNCHANGED <<binder, maps, queue, route, loop, aborted, closed, sent,
                   calls, sold, lost, marks>>

\* cancels.clear() drops whatever registry is in the map by now.
ShutdownClear ==
    /\ spc = "clear"
    /\ reg' = None /\ sold' = None
    /\ lost' = lost \cup ({reg} \ {None, sold})
    /\ spc' = "abort"
    /\ UNCHANGED <<binder, inbox, sem, handle, queue, route, loop, aborted,
                   regs, sent, calls, marks>>

ShutdownAbort ==
    /\ spc = "abort"
    /\ AbortLoop
    /\ spc' = "remove"
    /\ UNCHANGED <<binder, inbox, sem, reg, queue, route, loop, regs, sent,
                   calls, sold, lost, marks>>

\* The entries of a session that is in the snapshot go, whoever made them.
ShutdownRemove ==
    /\ spc = "remove"
    /\ \/ /\ known
          /\ inbox' = None /\ sem' = None
          /\ cutoff' = cutoff \cup ({inbox} \ {None})
          /\ stray' = IF sem # None THEN stray \cup (1..gen) ELSE stray
       \/ ~known /\ UNCHANGED <<inbox, sem, cutoff, stray>>
    /\ spc' = "down"
    /\ UNCHANGED <<binder, reg, handle, queue, route, loop, aborted, regs, sent,
                   calls, sold, lost, hooked>>

Shutdown == \/ ShutdownVisit \/ ShutdownDrain \/ ShutdownClear \/ ShutdownAbort
            \/ ShutdownRemove

\* run() returns, because of a shutdown or of the end of the connection, and
\* aborts the loops; their registries stay.
RunReturns ==
    /\ handle # None
    /\ AbortLoop
    /\ UNCHANGED <<binder, inbox, sem, reg, queue, route, loop, regs, sent,
                   calls, stopper, marks>>

-----------------------------------------------------------------------------
(* The router (Demux::route_session), called by the connection's reader. *)

\* A bug: a session without an inbox is not told apart.
RouteGetAnyway(f) ==
    /\ route = {}
    /\ f.kind = "request" /\ pc[f.call] = "unsent"
    /\ pc' = [pc EXCEPT ![f.call] = "routed"]
    /\ route' = {[to |-> inbox, frame |-> f]}
    /\ UNCHANGED <<control, maps, queue, loop, aborted, regs, sent, cgen, csem,
                   marks>>

\* The frames that the hub has sent.
FramesSent == Cardinality(sent) + Cardinality({c \in Calls : pc[c] # "unsent"})

\* The router clones the sender that is registered.
RouteGet(f) ==
    /\ route = {} /\ inbox # None /\ FramesSent < MaxFrames
    /\ \/ /\ f.kind = "request" /\ pc[f.call] = "unsent"
          /\ \A d \in Calls : d < f.call => pc[d] # "unsent"
          /\ pc' = [pc EXCEPT ![f.call] = "routed"] /\ UNCHANGED sent
       \/ /\ f.kind = "cancel" /\ f.call \notin sent
          /\ sent' = sent \cup {f.call} /\ UNCHANGED pc
    /\ route' = {[to |-> inbox, frame |-> f]}
    /\ UNCHANGED <<control, maps, queue, loop, aborted, regs, cgen, csem, marks>>

\* A request that does not get into an inbox is over for this server.
Forget(f) == pc' = IF f.kind = "request" THEN [pc EXCEPT ![f.call] = "done"]
                                         ELSE pc

\* try_send into the inbox that was cloned.
RouteSend ==
    /\ \E r \in route :
         /\ LoopAlive(r.to) /\ Len(queue[r.to]) < InboxBuffer
         /\ queue' = [queue EXCEPT ![r.to] = Append(@, r.frame)]
    /\ route' = {}
    /\ UNCHANGED <<control, maps, loop, aborted, regs, sent, calls, marks>>

\* A bug: a full inbox is taken for a stale binding.
RouteFullUnregisters ==
    /\ \E r \in route :
         /\ LoopAlive(r.to) /\ Len(queue[r.to]) >= InboxBuffer
         /\ Forget(r.frame)
    /\ route' = {} /\ inbox' = None
    /\ UNCHANGED <<control, sem, reg, handle, queue, loop, aborted, regs, sent,
                   cgen, csem, marks>>

\* The inbox is full: a request is refused as overloaded, a Cancel is dropped.
RouteFull ==
    /\ \E r \in route :
         /\ LoopAlive(r.to) /\ Len(queue[r.to]) >= InboxBuffer
         /\ Forget(r.frame)
    /\ route' = {}
    /\ UNCHANGED <<control, maps, queue, loop, aborted, regs, sent, cgen, csem,
                   marks>>

\* The loop is gone: the frame is dropped, and whatever inbox is registered
\* by now is removed.
RouteClosed ==
    /\ \E r \in route :
         /\ ~LoopAlive(r.to)
         /\ Forget(r.frame)
         /\ inbox' = None
         /\ cutoff' = IF inbox \in {None, r.to} THEN cutoff ELSE cutoff \cup {inbox}
    /\ route' = {}
    /\ UNCHANGED <<control, sem, reg, handle, queue, loop, aborted, regs, sent,
                   cgen, csem, hooked, stray>>

Router == RouteSend \/ RouteFull \/ RouteClosed

-----------------------------------------------------------------------------
(* run_session_loop. *)

Receives(g, f) ==
    /\ loop[g] = "recv"
    /\ queue[g] # <<>> /\ f = Head(queue[g])
    /\ queue' = [queue EXCEPT ![g] = Tail(@)]

\* CancelRegistry::register up to the insert: a closed registry and a
\* tombstone cancel the token.
LoopRequest(g, c) ==
    /\ Receives(g, [kind |-> "request", call |-> c])
    /\ cgen' = [cgen EXCEPT ![c] = g]
    /\ \/ /\ g \in closed
          /\ token' = token \cup {c}
          /\ pc' = [pc EXCEPT ![c] = "admit"]
          /\ UNCHANGED <<loop, pending>>
       \/ /\ g \notin closed
          /\ token' = IF c \in pending[g] THEN token \cup {c} ELSE token
          /\ pending' = [pending EXCEPT ![g] = @ \ {c}]
          /\ pc' = [pc EXCEPT ![c] = "register"]
          /\ loop' = [loop EXCEPT ![g] = "insert"]
    /\ UNCHANGED <<control, maps, route, aborted, closed, live, sent, csem,
                   marks>>

Registering(g, c) == pc[c] = "register" /\ cgen[c] = g

LoopInsert(g, c) ==
    /\ loop[g] = "insert" /\ Registering(g, c)
    /\ live' = [live EXCEPT ![g] = @ \cup {c}]
    /\ loop' = [loop EXCEPT ![g] = "recheck"]
    /\ UNCHANGED <<control, maps, queue, route, aborted, closed, pending, token,
                   sent, calls, marks>>

\* A bug: no second look at the flag.
LoopSpawnUnchecked(g, c) ==
    /\ loop[g] = "recheck" /\ Registering(g, c)
    /\ pc' = [pc EXCEPT ![c] = "admit"]
    /\ loop' = [loop EXCEPT ![g] = "recv"]
    /\ UNCHANGED <<control, maps, queue, route, aborted, regs, sent, cgen, csem,
                   marks>>

\* The second look at the flag, then the call's task is spawned.
LoopSpawn(g, c) ==
    /\ loop[g] = "recheck" /\ Registering(g, c)
    /\ token' = IF g \in closed /\ c \in live[g] THEN token \cup {c} ELSE token
    /\ live' = [live EXCEPT ![g] = IF g \in closed THEN @ \ {c} ELSE @]
    /\ pc' = [pc EXCEPT ![c] = "admit"]
    /\ loop' = [loop EXCEPT ![g] = "recv"]
    /\ UNCHANGED <<control, maps, queue, route, aborted, closed, pending, sent,
                   cgen, csem, marks>>

\* The mark of a Cancel applied to a call whose handler has not started.
Hook(g, c) == [hooked EXCEPT ![c] = IF pc[c] \in {"run", "done"} THEN @ ELSE g]

\* A bug: a Cancel that comes before its call is dropped.
LoopCancelLive(g, c) ==
    /\ Receives(g, [kind |-> "cancel", call |-> c])
    /\ hooked' = Hook(g, c)
    /\ token' = IF c \in live[g] THEN token \cup {c} ELSE token
    /\ live' = [live EXCEPT ![g] = @ \ {c}]
    /\ UNCHANGED <<control, maps, route, loop, aborted, closed, pending, sent,
                   calls, stray, cutoff>>

\* handle_notification with a Cancel hook: CancelRegistry::cancel.
LoopCancel(g, c) ==
    /\ Receives(g, [kind |-> "cancel", call |-> c])
    /\ \/ /\ c \in live[g]
          /\ live' = [live EXCEPT ![g] = @ \ {c}]
          /\ token' = token \cup {c}
          /\ UNCHANGED pending
          /\ hooked' = Hook(g, c)
       \/ /\ c \notin live[g] /\ Cardinality(pending[g]) < MaxTombstones
          /\ pending' = [pending EXCEPT ![g] = @ \cup {c}]
          /\ UNCHANGED <<live, token>>
          /\ hooked' = Hook(g, c)
       \/ /\ c \notin live[g] /\ Cardinality(pending[g]) >= MaxTombstones
          /\ \E d \in pending[g] :
               /\ pending' = [pending EXCEPT ![g] = (@ \ {d}) \cup {c}]
               /\ hooked' = [Hook(g, c) EXCEPT ![d] = None]
          /\ UNCHANGED <<live, token>>
    /\ UNCHANGED <<control, maps, route, loop, aborted, closed, sent, calls,
                   stray, cutoff>>

\* No sender is left: the tail of the loop, which has no await.
LoopExit(g) ==
    /\ loop[g] = "recv" /\ queue[g] = <<>>
    /\ inbox # g /\ \A r \in route : r.to # g
    /\ Close(g)
    /\ loop' = [loop EXCEPT ![g] = "tail"]
    /\ UNCHANGED <<control, maps, queue, route, aborted, live, pending, token,
                   sent, calls, marks>>

\* The rest of cancel_all; then the semaphore entry goes whoever made it, the
\* registry only if it is ours.
LoopTail(g) ==
    /\ loop[g] = "tail"
    /\ Drain(g)
    /\ sem' = None
    /\ stray' = IF sem # None THEN stray \cup ((1..gen) \ {g}) ELSE stray
    /\ reg' = IF reg = g THEN None ELSE reg
    /\ loop' = [loop EXCEPT ![g] = "dead"] /\ aborted' = aborted \ {g}
    /\ UNCHANGED <<control, inbox, handle, queue, route, closed, sent, calls,
                   hooked, cutoff>>

\* A loop that ends drops its receiver, and the frames in it.
Dies(g) ==
    /\ loop' = [loop EXCEPT ![g] = "dead"]
    /\ aborted' = aborted \ {g}
    /\ queue' = [queue EXCEPT ![g] = <<>>]
    /\ pc' = [c \in Calls |->
                IF \E i \in 1..Len(queue[g]) :
                     queue[g][i] = [kind |-> "request", call |-> c]
                THEN "done" ELSE pc[c]]

\* An aborted loop is dropped where it awaits: no tail.
LoopAborted(g) ==
    /\ loop[g] = "recv" /\ g \in aborted
    /\ Dies(g)
    /\ UNCHANGED <<control, maps, route, regs, sent, cgen, csem, marks>>

\* A handler of the session panics in a hook: no tail either.
LoopPanics(g) ==
    /\ loop[g] = "recv" /\ g \in Panicking
    /\ Dies(g)
    /\ UNCHANGED <<control, maps, route, regs, sent, cgen, csem, marks>>

Loop(g) == \/ \E c \in Calls : \/ LoopRequest(g, c) \/ LoopInsert(g, c)
                               \/ LoopSpawn(g, c) \/ LoopCancel(g, c)
           \/ LoopExit(g) \/ LoopTail(g) \/ LoopAborted(g)

-----------------------------------------------------------------------------
(* execute_call, in the task of the call. *)

\* Admission::admit picks the session's semaphore, or makes one for the call.
Admit(c) ==
    /\ pc[c] = "admit"
    /\ csem' = [csem EXCEPT ![c] = sem]
    /\ pc' = [pc EXCEPT ![c] = "session"]
    /\ UNCHANGED <<control, maps, queue, route, loop, aborted, regs, sent, cgen,
                   marks>>

\* Who holds a permit of the session's semaphore x.
Holders(x) == {c \in Calls : pc[c] \in {"shared", "run"} /\ csem[c] = x}
Free(x) == x = None \/ Cardinality(Holders(x)) < SessionMax

\* A bug: the session's semaphore is passed by.
AcquireUnbounded(c) ==
    /\ pc[c] = "session"
    /\ pc' = [pc EXCEPT ![c] = "shared"]
    /\ UNCHANGED <<control, maps, queue, route, loop, aborted, regs, sent, cgen,
                   csem, marks>>

\* The permit of the session comes first.
Acquire(c) ==
    /\ pc[c] = "session" /\ Free(csem[c])
    /\ pc' = [pc EXCEPT ![c] = "shared"]
    /\ UNCHANGED <<control, maps, queue, route, loop, aborted, regs, sent, cgen,
                   csem, marks>>

\* The task ends: its permits are dropped and its token is deregistered.
End(c) ==
    /\ pc' = [pc EXCEPT ![c] = "done"]
    /\ live' = [live EXCEPT ![cgen[c]] = @ \ {c}]
    /\ token' = token \ {c}
    /\ cgen' = [cgen EXCEPT ![c] = None] /\ csem' = [csem EXCEPT ![c] = None]
    /\ hooked' = [hooked EXCEPT ![c] = None]
    /\ UNCHANGED <<control, maps, queue, route, loop, aborted, closed, pending,
                   sent, stray, cutoff>>

\* Refused: no handler for the tool, or the admission deadline passes while
\* the call waits for a permit.
Refuse(c) ==
    /\ \/ pc[c] \in {"admit", "shared"}
       \/ pc[c] = "session" /\ ~Free(csem[c])
    /\ End(c)

\* The permits of the connection and of the process, which other sessions take
\* too, may be there or not; once the call has them, the select looks at the
\* token first, and the handler starts only if it is not cancelled.
Start(c) ==
    /\ pc[c] = "shared" /\ c \notin token
    /\ pc' = [pc EXCEPT ![c] = "run"]
    /\ UNCHANGED <<control, maps, queue, route, loop, aborted, regs, sent, cgen,
                   csem, marks>>

\* A bug: the token is looked at only before the handler starts.
CancelledBeforeStart(c) ==
    /\ pc[c] = "shared" /\ c \in token
    /\ End(c)

\* The token keeps the handler from starting, or drops its future.
Cancelled(c) ==
    /\ pc[c] \in {"shared", "run"} /\ c \in token
    /\ End(c)

\* The handler yields its terminal item.
Finish(c) == pc[c] = "run" /\ End(c)

Task(c) == Admit(c) \/ Acquire(c) \/ Refuse(c) \/ Start(c) \/ Cancelled(c)

-----------------------------------------------------------------------------
Next ==
    \/ BindInbox \/ UnbindRegistry \/ Binder
    \/ ShutdownBegin \/ Shutdown \/ RunReturns
    \/ \E f \in Frames : RouteGet(f)
    \/ Router
    \/ \E g \in Gens : Loop(g) \/ LoopPanics(g)
    \/ \E c \in Calls : Task(c) \/ Finish(c)

Spec == Init /\ [][Next]_vars

\* Every task that can run does; nobody has to bind, to send or to shut down,
\* and a handler need not end by itself.
FairSpec == /\ Spec
            /\ WF_vars(Binder) /\ WF_vars(Shutdown) /\ WF_vars(Router)
            /\ \A g \in Gens : WF_vars(Loop(g))
            /\ \A c \in Calls : WF_vars(Task(c))

-----------------------------------------------------------------------------
(* Properties. *)

PCs == {"unsent", "routed", "register", "admit", "session", "shared", "run",
        "done"}
Spawned == {"admit", "session", "shared", "run"}

\* The variables keep their types.
TypeOK ==
    /\ gen \in 0..MaxBinds
    /\ inbox \in 0..MaxBinds /\ sem \in 0..MaxBinds
    /\ reg \in 0..MaxBinds /\ handle \in 0..MaxBinds
    /\ queue \in [Gens -> Seq(Frames)]
    /\ route \subseteq [to : Gens, frame : Frames]
    /\ loop \in [Gens -> {"none", "recv", "insert", "recheck", "tail",
                          "dead"}]
    /\ aborted \subseteq Gens /\ closed \subseteq Gens
    /\ live \in [Gens -> SUBSET Calls] /\ pending \in [Gens -> SUBSET Calls]
    /\ sent \subseteq Calls /\ token \subseteq Calls
    /\ pc \in [Calls -> PCs]
    /\ cgen \in [Calls -> 0..MaxBinds] /\ csem \in [Calls -> 0..MaxBinds]
    /\ bpc \in {"idle", "insert", "close", "drain", "spawn", "unclose",
                "undrain", "remove"}
    /\ bold \in 0..MaxBinds /\ sold \in 0..MaxBinds
    /\ spc \in {"up", "visit", "drain", "clear", "abort", "remove", "down"}
    /\ known \in BOOLEAN /\ lost \subseteq Gens
    /\ hooked \in [Calls -> 0..MaxBinds]
    /\ stray \subseteq Gens /\ cutoff \subseteq Gens

\* Someone is at cancel_all on registry g.
Cancelling(g) ==
    \/ bpc \in {"close", "drain", "unclose", "undrain"} /\ bold = g
    \/ loop[g] = "tail"

\* No call is orphaned: a call that goes on uncancelled has its token in the
\* registry of its session, where the next unbind, rebind or shutdown finds it,
\* or in one that is just being cancelled, however teardowns, binds and the
\* dispatch of the call interleave.  Only a shutdown orphans calls: those of a
\* registry that a bind inserts after the shutdown has cancelled the session's
\* and before it clears the map, until the loop of the registry closes it.
NoOrphan ==
    \A c \in Calls :
        pc[c] \in Spawned /\ c \notin token =>
            /\ c \in live[cgen[c]]
            /\ \/ reg = cgen[c] \/ Cancelling(cgen[c])
               \/ cgen[c] \in lost \ closed

\* A Cancel that the loop applies before the handler of its call has started,
\* even before the call was dispatched, keeps the handler from starting: but
\* for a tombstone that made room for another one, and for a call that went to
\* a later generation of the session.
CancelSticks ==
    \A c \in Calls :
        pc[c] = "run" => hooked[c] = None \/ hooked[c] # cgen[c]

\* A session runs no more calls than its semaphore has permits, through all of
\* its generations, not counting cancelled calls on their way out: but for the
\* calls of a generation whose semaphore a shutdown, or the ending loop of
\* another one, has removed, or whose registry a shutdown has dropped.
SessionBounded ==
    LET running == {c \in Calls : pc[c] = "run" /\ c \notin token}
    IN  (\A c \in running : cgen[c] \notin stray \cup lost) =>
            Cardinality(running) <= SessionMax

\* A loop that has ended, is told to end or finds its registry closed.
Condemned(g) == g \in closed \/ ~LoopAlive(g) \/ g \in aborted

\* A redundant bind does not cancel the calls of a healthy session: a full
\* rebind cancels the registry of a loop that is condemned already.
RebindOnlyOfDead == bpc = "close" => Condemned(bold)

\* A loop that is alive and in its session's slot gets the frames of its
\* session: but for one whose inbox was removed by the router with a stale
\* sender, or by a shutdown that the bind raced with.
LiveLoopHasInbox ==
    bpc = "idle" /\ LoopAlive(handle) /\ handle \notin closed =>
        inbox = handle \/ handle \in cutoff

\* Calls that still go on in a session that was torn down.
Leftovers == {c \in Calls : pc[c] \in Spawned /\ cgen[c] \in closed}

\* The calls of a session that is torn down end, whatever their handlers do,
\* those that the teardown raced with included.
TornDownCallsEnd == (Leftovers # {}) ~> (Leftovers = {})
=============================================================================
