-------------------------- MODULE ToolServerProofs --------------------------
(***************************************************************************)
(* Invariance proofs for ToolServer, for any number of calls, binds and    *)
(* panics and any limits.                                                  *)
(*                                                                         *)
(* The argument for NoOrphan: a registry is out of the map, or about to be *)
(* cleared away by the shutdown that cancelled it, only after cancel_all   *)
(* has closed and drained it, unless the shutdown lost it                  *)
(* (DrainedWhenGone); what gets into it later is a call that its loop is   *)
(* still registering, and the second look at the flag takes it out again.  *)
(* Hence a call that goes on uncancelled, whose token is in its registry   *)
(* (InRegistry), has it in the map or where a teardown is about to drain   *)
(* it, or in a registry that was lost.  The same fact shows that no        *)
(* uncancelled call is left when an unbind removes the semaphore, so that  *)
(* all uncancelled calls hold permits of one semaphore (SameSemaphore),    *)
(* but for those of stray and lost.                                        *)
(***************************************************************************)
EXTENDS ToolServer, FiniteSetTheorems, TLAPS

-----------------------------------------------------------------------------
(* The parts of the inductive invariant. *)

Active == {"register"} \cup Spawned
Binding == {"insert", "close", "drain", "spawn"}
Unbinding == {"unclose", "undrain", "remove"}

\* A teardown has its registry to cancel.
HasOld ==
    /\ bpc \in {"close", "drain", "unclose", "undrain"} => bold \in Gens
    /\ spc = "drain" => sold \in Gens

IsRequest(f, c) == f.kind = "request" /\ f.call = c

\* A request in an inbox, or with the router, is one of a call not yet taken.
RequestsRouted ==
    /\ \A g \in Gens : \A i \in 1..Len(queue[g]) :
         queue[g][i].kind = "request" => pc[queue[g][i].call] = "routed"
    /\ \A r \in route : r.frame.kind = "request" => pc[r.frame.call] = "routed"

\* A request is in one place.
RequestOnce ==
    /\ \A c \in Calls, g, h \in Gens :
         \A i \in 1..Len(queue[g]), j \in 1..Len(queue[h]) :
           IsRequest(queue[g][i], c) /\ IsRequest(queue[h][j], c) =>
               g = h /\ i = j
    /\ \A c \in Calls, r \in route, g \in Gens : \A i \in 1..Len(queue[g]) :
           ~(IsRequest(r.frame, c) /\ IsRequest(queue[g][i], c))
    /\ \A r, q \in route : r = q

\* A loop exists from the end of its bind on; a call that was taken belongs to
\* one.
LoopsBound ==
    /\ \A g \in Gens : g > gen => loop[g] = "none"
    /\ bpc \in Binding => gen \in Gens /\ loop[gen] = "none"
    /\ \A c \in Calls :
         pc[c] \in Active => cgen[c] \in Gens /\ loop[cgen[c]] # "none"

\* A loop registers one call at a time.
OneRegistering ==
    /\ \A c \in Calls :
         pc[c] = "register" => loop[cgen[c]] \in {"insert", "recheck"}
    /\ \A c, d \in Calls :
         pc[c] = "register" /\ pc[d] = "register" /\ cgen[c] = cgen[d] => c = d

\* A registry holds calls of its own loop, and every one that goes on
\* uncancelled.
InRegistry ==
    /\ \A g \in Gens : \A c \in live[g] : cgen[c] = g /\ pc[c] \in Active
    /\ \A c \in Calls :
         \/ pc[c] \in Spawned
         \/ pc[c] = "register" /\ loop[cgen[c]] = "recheck"
         => c \in token \/ c \in live[cgen[c]]

\* A bind or an unbind is at cancel_all on registry g.
Displacing(g) ==
    bpc \in {"close", "drain", "unclose", "undrain"} /\ bold = g

\* What is in registry g is still to be looked at by its loop.
OnlyRegistering(g) ==
    \A c \in live[g] : Registering(g, c) /\ loop[g] = "recheck"

\* The bind of g has put its registry in the map.
Installed(g) ==
    \/ loop[g] # "none"
    \/ g = gen /\ bpc \in {"close", "drain", "spawn"}

\* Registries are cancelled after they were in the map.
AfterInstall ==
    \A g \in Gens : g \in closed \/ reg = g \/ Displacing(g) => Installed(g)

\* Where the binder, shutdown and the tails of the loops are with cancel_all.
TeardownOrder ==
    /\ \A g \in Gens : loop[g] = "tail" => g \in closed
    /\ bpc \in {"drain", "undrain"} => bold \in closed
    /\ bpc \in {"close", "drain"} => bold # gen
    /\ bpc \in {"close", "drain", "spawn"} => reg \in {None, gen}
    /\ bpc \in Unbinding => reg = None
    /\ spc \in {"drain", "clear"} /\ sold # None => sold \in closed
    /\ reg # None /\ reg \in closed =>
         \/ loop[reg] = "tail"
         \/ spc \in {"drain", "clear"} /\ sold = reg

\* A registry that is not in the map, or that shutdown is about to clear away
\* as its own, has been closed and drained: but for one that was lost, which
\* its loop may still close and drain.
DrainedWhenGone ==
    \A g \in Gens :
        /\ Installed(g) /\ ~Displacing(g)
        /\ reg # g \/ (spc = "clear" /\ sold = g)
        => \/ g \in closed /\ OnlyRegistering(g)
           \/ g \in lost /\ (g \notin closed \/ loop[g] = "tail")

\* A Cancel that was applied to a call before its handler started is kept: as
\* a tombstone, by the registry that is closed, or in the token.
CancelKept ==
    \A c \in Calls :
        hooked[c] # None =>
            /\ pc[c] \in {"unsent", "routed"} =>
                 c \in pending[hooked[c]] \/ hooked[c] \in closed
            /\ pc[c] \in Active \ {"run"} /\ hooked[c] = cgen[c] => c \in token

\* The registry in the map is that of the loop in the slot, or of a loop that is
\* condemned; a full bind has found it so.
BindJustified ==
    /\ bpc \in {"idle", "insert"} => reg = handle \/ Condemned(reg)
    /\ bpc = "insert" => Condemned(reg)

\* The inbox of a bind that is under way.
BindHasInbox == bpc \in Binding => inbox = gen \/ gen \in cutoff

\* There is a semaphore for the calls to come.
HasSemaphore ==
    \A g \in Gens \ (stray \cup lost) :
        \/ loop[g] # "none" /\ g \notin closed
        \/ bpc \in Binding /\ g = gen
        => sem # None

\* Uncancelled calls are admitted by the semaphore that is in the map.
SameSemaphore ==
    \A c \in Calls :
        /\ pc[c] \in Spawned /\ c \notin token
        /\ cgen[c] \notin stray \cup lost
        => sem # None /\ (pc[c] # "admit" => csem[c] = sem)

\* No semaphore has given out more permits than it has.
PermitsBounded == \A x \in Gens : Cardinality(Holders(x)) <= SessionMax

IInv == /\ TypeOK /\ HasOld /\ RequestsRouted /\ RequestOnce /\ LoopsBound
        /\ OneRegistering /\ InRegistry
        /\ AfterInstall /\ TeardownOrder /\ DrainedWhenGone
        /\ CancelKept /\ CancelSticks
        /\ BindJustified /\ RebindOnlyOfDead /\ BindHasInbox /\ LiveLoopHasInbox
        /\ HasSemaphore /\ SameSemaphore /\ PermitsBounded

-----------------------------------------------------------------------------
(* Each part is preserved by every step. *)

(* A generation, or none. *)
LEMMA GensOrNone == \A x : x \in 0..MaxBinds <=> x = None \/ x \in Gens
BY ToolServerAssumption DEF Gens, None

(* What an abort may reach is a loop. *)
LEMMA AbortTypes ==
    ASSUME TypeOK, Abort(handle)
    PROVE  aborted' \subseteq Gens
BY GensOrNone DEF TypeOK, Abort, LoopAlive

(* Types are preserved by every step of the binder, the shutdown, the      *)
(* router, the loops and the tasks.                                        *)
LEMMA TypeNext ==
    ASSUME TypeOK, HasOld, [Next]_vars
    PROVE  TypeOK' /\ HasOld'
<1> USE DEF TypeOK, None, PCs, HasOld,
           maps, regs, calls, binder, stopper, control, marks
<1>1. CASE BindInbox
  <2>1. gen + 1 \in 0..MaxBinds
    BY <1>1, ToolServerAssumption DEF BindInbox, Track
  <2> QED BY <1>1, <2>1, GensOrNone DEF BindInbox, Track
<1>2. CASE UnbindRegistry
  BY <1>2, GensOrNone DEF UnbindRegistry, Track
<1>3. CASE ShutdownBegin
  BY <1>3, GensOrNone DEF ShutdownBegin
<1>4. CASE BindRegistry
  BY <1>4, GensOrNone DEF BindRegistry
<1>5. CASE BindSpawn
  BY <1>5, GensOrNone, AbortTypes DEF BindSpawn
<1>6. CASE BinderClose
  BY <1>6, GensOrNone DEF BinderClose, Close
<1>7. CASE BinderDrain
  BY <1>7, GensOrNone DEF BinderDrain, Drain
<1>8. CASE Remove
  BY <1>8, GensOrNone, AbortTypes DEF Remove, AbortLoop
<1>9. CASE ShutdownVisit
  BY <1>9, GensOrNone DEF ShutdownVisit, Close
<1>10. CASE ShutdownDrain
  BY <1>10, GensOrNone DEF ShutdownDrain, Drain
<1>11. CASE ShutdownClear
  BY <1>11, GensOrNone DEF ShutdownClear
<1>12. CASE ShutdownAbort
  BY <1>12, GensOrNone, AbortTypes DEF ShutdownAbort, AbortLoop
<1>13. CASE ShutdownRemove
  <2>1. (1..gen) \subseteq Gens
    BY ToolServerAssumption DEF Gens
  <2> QED BY <1>13, <2>1, GensOrNone DEF ShutdownRemove
<1>14. CASE RunReturns
  BY <1>14, GensOrNone, AbortTypes DEF RunReturns, AbortLoop
<1>15. CASE \E f \in Frames : RouteGet(f)
  <2>1. PICK f \in Frames : RouteGet(f)
    BY <1>15
  <2>2. f.call \in Calls
    BY DEF Frames
  <2>3. inbox \in Gens
    BY <2>1, GensOrNone DEF RouteGet
  <2>4. route' \subseteq [to : Gens, frame : Frames]
    BY <2>1, <2>3 DEF RouteGet
  <2>5. pc' \in [Calls -> PCs] /\ sent' \subseteq Calls
    <3>1. \/ pc' = [pc EXCEPT ![f.call] = "routed"] /\ sent' = sent
          \/ pc' = pc /\ sent' = sent \cup {f.call}
      BY <2>1 DEF RouteGet
    <3>2. CASE pc' = [pc EXCEPT ![f.call] = "routed"] /\ sent' = sent
      BY <2>2, <3>2
    <3>3. CASE pc' = pc /\ sent' = sent \cup {f.call}
      BY <2>2, <3>3
    <3> QED BY <3>1, <3>2, <3>3
  <2> QED BY <2>1, <2>4, <2>5 DEF RouteGet
<1>16. CASE RouteSend
  BY <1>16, GensOrNone DEF RouteSend
<1>17. CASE RouteFull
  BY <1>17, GensOrNone DEF RouteFull, Forget
<1>18. CASE RouteClosed
  BY <1>18, GensOrNone DEF RouteClosed, Forget
<1>19. ASSUME NEW g \in Gens, NEW c \in Calls, LoopRequest(g, c)
      PROVE  TypeOK' /\ HasOld'
  <2>1. queue' \in [Gens -> Seq(Frames)]
    BY <1>19 DEF LoopRequest, Receives
  <2>2. pc' \in [Calls -> PCs] /\ cgen' \in [Calls -> 0..MaxBinds]
    BY <1>19, GensOrNone DEF LoopRequest
  <2>3. token' \subseteq Calls /\ pending' \in [Gens -> SUBSET Calls]
    <3>1. token' \in {token, token \cup {c}}
      BY <1>19 DEF LoopRequest
    <3>2. pending' = pending \/ pending' = [pending EXCEPT ![g] = @ \ {c}]
      BY <1>19 DEF LoopRequest
    <3> QED BY <3>1, <3>2
  <2>4. loop' \in [Gens -> {"none", "recv", "insert", "recheck", "tail",
                           "dead"}]
    BY <1>19 DEF LoopRequest
  <2> QED BY <1>19, <2>1, <2>2, <2>3, <2>4 DEF LoopRequest
<1>20. ASSUME NEW g \in Gens, NEW c \in Calls, LoopInsert(g, c)
      PROVE  TypeOK' /\ HasOld'
  BY <1>20, GensOrNone DEF LoopInsert, Registering
<1>21. ASSUME NEW g \in Gens, NEW c \in Calls, LoopSpawn(g, c)
      PROVE  TypeOK' /\ HasOld'
  BY <1>21, GensOrNone DEF LoopSpawn, Registering
<1>22. ASSUME NEW g \in Gens, NEW c \in Calls, LoopCancel(g, c)
      PROVE  TypeOK' /\ HasOld'
  <2>1. queue' \in [Gens -> Seq(Frames)]
    BY <1>22 DEF LoopCancel, Receives
  <2>2. hooked' \in [Calls -> 0..MaxBinds]
    <3>1. Hook(g, c) \in [Calls -> 0..MaxBinds]
      BY GensOrNone DEF Hook
    <3>2. \/ hooked' = Hook(g, c)
          \/ \E d \in pending[g] : hooked' = [Hook(g, c) EXCEPT ![d] = None]
      BY <1>22 DEF LoopCancel
    <3> QED BY <3>1, <3>2, GensOrNone
  <2>3. live' \in [Gens -> SUBSET Calls] /\ token' \subseteq Calls
    BY <1>22 DEF LoopCancel
  <2>4. pending' \in [Gens -> SUBSET Calls]
    <3>1. \/ pending' = pending
          \/ pending' = [pending EXCEPT ![g] = @ \cup {c}]
          \/ \E d \in pending[g] :
               pending' = [pending EXCEPT ![g] = (@ \ {d}) \cup {c}]
      BY <1>22 DEF LoopCancel
    <3>2. CASE pending' = pending
      BY <3>2
    <3>3. CASE pending' = [pending EXCEPT ![g] = @ \cup {c}]
      BY <3>3
    <3>4. ASSUME NEW d \in pending[g],
                 pending' = [pending EXCEPT ![g] = (@ \ {d}) \cup {c}]
          PROVE  pending' \in [Gens -> SUBSET Calls]
      BY <3>4
    <3> QED BY <3>1, <3>2, <3>3, <3>4
  <2> QED BY <1>22, <2>1, <2>2, <2>3, <2>4 DEF LoopCancel
<1>23. ASSUME NEW g \in Gens, LoopExit(g)
      PROVE  TypeOK' /\ HasOld'
  BY <1>23, GensOrNone DEF LoopExit, Close
<1>24. ASSUME NEW g \in Gens, LoopTail(g)
      PROVE  TypeOK' /\ HasOld'
  <2>1. (1..gen) \subseteq Gens
    BY ToolServerAssumption DEF Gens
  <2> QED BY <1>24, <2>1, GensOrNone DEF LoopTail, Drain
<1>25. ASSUME NEW g \in Gens, LoopAborted(g)
      PROVE  TypeOK' /\ HasOld'
  BY <1>25, GensOrNone DEF LoopAborted, Dies
<1>26. ASSUME NEW g \in Gens, LoopPanics(g)
      PROVE  TypeOK' /\ HasOld'
  BY <1>26, GensOrNone DEF LoopPanics, Dies
<1>27. ASSUME NEW c \in Calls, Admit(c)
      PROVE  TypeOK' /\ HasOld'
  BY <1>27, GensOrNone DEF Admit
<1>28. ASSUME NEW c \in Calls, Acquire(c)
      PROVE  TypeOK' /\ HasOld'
  BY <1>28, GensOrNone DEF Acquire
<1>29. ASSUME NEW c \in Calls, Refuse(c)
      PROVE  TypeOK' /\ HasOld'
  BY <1>29, GensOrNone DEF Refuse, End
<1>30. ASSUME NEW c \in Calls, Start(c)
      PROVE  TypeOK' /\ HasOld'
  BY <1>30, GensOrNone DEF Start
<1>31. ASSUME NEW c \in Calls, Cancelled(c)
      PROVE  TypeOK' /\ HasOld'
  BY <1>31, GensOrNone DEF Cancelled, End
<1>32. ASSUME NEW c \in Calls, Finish(c)
      PROVE  TypeOK' /\ HasOld'
  BY <1>32, GensOrNone DEF Finish, End
<1>33. CASE UNCHANGED vars
  BY <1>33 DEF vars
<1> QED
  BY <1>1, <1>2, <1>3, <1>4, <1>5, <1>6, <1>7, <1>8, <1>9, <1>10, <1>11,
     <1>12, <1>13, <1>14, <1>15, <1>16, <1>17, <1>18, <1>19, <1>20, <1>21,
     <1>22, <1>23, <1>24, <1>25, <1>26, <1>27, <1>28, <1>29, <1>30, <1>31,
     <1>32, <1>33
     DEF Next, Binder, Shutdown, Router, Loop, Task

(* What a receive takes from an inbox. *)
LEMMA TailFacts ==
    ASSUME NEW S, NEW s \in Seq(S), s # <<>>
    PROVE  /\ Len(s) \in Nat \ {0} /\ Head(s) = s[1] /\ s[1] \in S
           /\ Tail(s) \in Seq(S)
           /\ \A i \in 1..Len(Tail(s)) :
                /\ i + 1 \in 1..Len(s) /\ i \in Nat /\ i + 1 # 1
                /\ Tail(s)[i] = s[i + 1]
OBVIOUS

(* What a send adds to an inbox comes after all that was in it. *)
LEMMA AppendFacts ==
    ASSUME NEW S, NEW s \in Seq(S), NEW e \in S
    PROVE  /\ Len(s) \in Nat /\ Append(s, e) \in Seq(S)
           /\ Len(Append(s, e)) = Len(s) + 1
           /\ Append(s, e)[Len(s) + 1] = e
           /\ \A i \in 1..Len(Append(s, e)) :
                (i \in 1..Len(s) /\ Append(s, e)[i] = s[i]) \/ i = Len(s) + 1
OBVIOUS

(* A frame, in an inbox or with the router, is about a call. *)
LEMMA FrameCall == \A f \in Frames : f.call \in Calls
BY DEF Frames

(* Every frame in an inbox or with the router is one of a call. *)
LEMMA FrameTypes ==
    ASSUME TypeOK
    PROVE  /\ queue \in [Gens -> Seq(Frames)] /\ pc \in [Calls -> PCs]
           /\ \A g \in Gens : \A i \in 1..Len(queue[g]) :
                queue[g][i] \in Frames /\ queue[g][i].call \in Calls
           /\ \A r \in route :
                r.to \in Gens /\ r.frame \in Frames /\ r.frame.call \in Calls
<1>1. ASSUME NEW g \in Gens, NEW i \in 1..Len(queue[g])
      PROVE  queue[g][i] \in Frames
  <2>1. queue[g] \in Seq(Frames)
    BY DEF TypeOK
  <2> QED BY <2>1
<1>2. \A r \in route : r.to \in Gens /\ r.frame \in Frames
  BY DEF TypeOK
<1> QED BY <1>1, <1>2, FrameCall DEF TypeOK

(* A step that moves no frame, and no call whose request is under way. *)
LEMMA FramesKept ==
    ASSUME TypeOK, RequestsRouted, RequestOnce,
           queue' = queue, route' = route,
           \A d \in Calls : pc[d] = "routed" => pc'[d] = "routed"
    PROVE  RequestsRouted' /\ RequestOnce'
<1>1. RequestsRouted'
  BY FrameTypes DEF RequestsRouted
<1>2. RequestOnce'
  BY DEF RequestOnce, IsRequest
<1> QED BY <1>1, <1>2

(* A loop takes the first frame of its inbox. *)
LEMMA FramesTaken ==
    ASSUME TypeOK, RequestsRouted, RequestOnce, NEW g \in Gens, NEW f \in Frames,
           Receives(g, f), route' = route,
           \A d \in Calls : ~IsRequest(f, d) => pc'[d] = pc[d]
    PROVE  RequestsRouted' /\ RequestOnce'
<1> USE DEF RequestsRouted, RequestOnce, IsRequest
<1>1. /\ queue[g] \in Seq(Frames) /\ queue[g] # <<>> /\ f = Head(queue[g])
      /\ \A h \in Gens :
           queue'[h] = IF h = g THEN Tail(queue[g]) ELSE queue[h]
  BY FrameTypes DEF Receives
<1>2. /\ f = queue[g][1] /\ 1 \in 1..Len(queue[g])
      /\ \A i \in 1..Len(Tail(queue[g])) :
           /\ i + 1 \in 1..Len(queue[g]) /\ Tail(queue[g])[i] = queue[g][i + 1]
           /\ i \in Nat /\ i + 1 # 1
  BY <1>1, TailFacts
<1>3. ASSUME NEW h \in Gens, NEW i \in 1..Len(queue'[h])
      PROVE  \E j \in 1..Len(queue[h]) :
               /\ queue'[h][i] = queue[h][j] /\ <<h, j>> # <<g, 1>>
               /\ j = IF h = g THEN i + 1 ELSE i
  BY <1>1, <1>2
<1>4. \A h \in Gens : \A i \in 1..Len(queue'[h]) :
        queue'[h][i] \in Frames /\ queue'[h][i].call \in Calls
  <2>1. \A h \in Gens : \A j \in 1..Len(queue[h]) :
          queue[h][j] \in Frames /\ queue[h][j].call \in Calls
    BY FrameTypes
  <2> SUFFICES ASSUME NEW h \in Gens, NEW i \in 1..Len(queue'[h])
               PROVE  queue'[h][i] \in Frames /\ queue'[h][i].call \in Calls
    OBVIOUS
  <2>2. PICK j \in 1..Len(queue[h]) : queue'[h][i] = queue[h][j]
    BY <1>3
  <2> QED BY <2>1, <2>2
<1>5. RequestsRouted'
  <2>1. ASSUME NEW h \in Gens, NEW i \in 1..Len(queue'[h]),
               queue'[h][i].kind = "request"
        PROVE  pc'[queue'[h][i].call] = "routed"
    <3>1. PICK j \in 1..Len(queue[h]) :
             queue'[h][i] = queue[h][j] /\ <<h, j>> # <<g, 1>>
      BY <1>3
    <3>2. IsRequest(queue[h][j], queue'[h][i].call)
      BY <2>1, <3>1
    <3>3. ~IsRequest(queue[g][1], queue'[h][i].call)
      BY <1>2, <1>4, <3>1, <3>2
    <3> QED BY <1>2, <1>4, <2>1, <3>1, <3>3
  <2>2. ASSUME NEW r \in route, r.frame.kind = "request"
        PROVE  pc'[r.frame.call] = "routed"
    <3>1. r.frame.call \in Calls
      BY FrameTypes
    <3>2. ~IsRequest(queue[g][1], r.frame.call)
      BY <1>2, <2>2, <3>1
    <3> QED BY <1>2, <2>2, <3>1, <3>2
  <2> QED BY <2>1, <2>2
<1>6. RequestOnce'
  <2>1. ASSUME NEW d \in Calls, NEW h \in Gens, NEW k \in Gens,
               NEW i \in 1..Len(queue'[h]), NEW j \in 1..Len(queue'[k]),
               IsRequest(queue'[h][i], d), IsRequest(queue'[k][j], d)
        PROVE  h = k /\ i = j
    <3>1. PICK ii \in 1..Len(queue[h]) :
             queue'[h][i] = queue[h][ii] /\ ii = IF h = g THEN i + 1 ELSE i
      BY <1>3
    <3>2. PICK jj \in 1..Len(queue[k]) :
             queue'[k][j] = queue[k][jj] /\ jj = IF k = g THEN j + 1 ELSE j
      BY <1>3
    <3>3. h = k /\ ii = jj
      BY <2>1, <3>1, <3>2
    <3> QED BY <3>1, <3>2, <3>3
  <2>2. ASSUME NEW d \in Calls, NEW r \in route, NEW h \in Gens,
               NEW i \in 1..Len(queue'[h])
        PROVE  ~(IsRequest(r.frame, d) /\ IsRequest(queue'[h][i], d))
    <3>1. PICK j \in 1..Len(queue[h]) : queue'[h][i] = queue[h][j]
      BY <1>3
    <3> QED BY <3>1
  <2> QED BY <2>1, <2>2
<1> QED BY <1>5, <1>6

(* The router gives a frame up. *)
LEMMA FrameForgotten ==
    ASSUME TypeOK, RequestsRouted, RequestOnce, NEW r \in route, Forget(r.frame),
           queue' = queue, route' = {}
    PROVE  RequestsRouted' /\ RequestOnce'
<1> USE DEF RequestsRouted, RequestOnce, IsRequest
<1>1. \A d \in Calls : pc'[d] # pc[d] => IsRequest(r.frame, d)
  BY FrameTypes DEF Forget
<1>2. RequestsRouted'
  BY <1>1, FrameTypes
<1>3. RequestOnce'
  OBVIOUS
<1> QED BY <1>2, <1>3

(* The inbox of a loop that dies is dropped, and the requests in it. *)
LEMMA InboxDropped ==
    ASSUME TypeOK, RequestsRouted, RequestOnce, NEW g \in Gens, Dies(g),
           route' = route
    PROVE  RequestsRouted' /\ RequestOnce'
<1> USE DEF RequestsRouted, RequestOnce, IsRequest
<1>1. \A h \in Gens : \A i \in 1..Len(queue'[h]) :
        h # g /\ i \in 1..Len(queue[h]) /\ queue'[h][i] = queue[h][i]
  BY FrameTypes DEF Dies
<1>2. ASSUME NEW d \in Calls, pc'[d] # pc[d]
      PROVE  \E i \in 1..Len(queue[g]) : IsRequest(queue[g][i], d)
  BY <1>2 DEF Dies
<1>3. RequestsRouted'
  <2>1. ASSUME NEW h \in Gens, NEW i \in 1..Len(queue'[h]),
               queue'[h][i].kind = "request"
        PROVE  pc'[queue'[h][i].call] = "routed"
    <3> DEFINE d == queue'[h][i].call
    <3>1. /\ h # g /\ d \in Calls /\ i \in 1..Len(queue[h])
          /\ IsRequest(queue[h][i], d)
      BY <1>1, <2>1, FrameTypes
    <3>2. \A j \in 1..Len(queue[g]) : ~IsRequest(queue[g][j], d)
      BY <3>1
    <3>3. pc[d] = "routed"
      BY <3>1
    <3> HIDE DEF d
    <3>4. pc'[d] = "routed"
      BY <1>2, <3>1, <3>2, <3>3
    <3> QED BY <3>4 DEF d
  <2>2. ASSUME NEW r \in route, r.frame.kind = "request"
        PROVE  pc'[r.frame.call] = "routed"
    <3>1. r.frame.call \in Calls
      BY FrameTypes
    <3> QED BY <1>2, <2>2, <3>1
  <2> QED BY <2>1, <2>2
<1>4. RequestOnce'
  <2>1. ASSUME NEW d \in Calls, NEW h \in Gens, NEW k \in Gens,
               NEW i \in 1..Len(queue'[h]), NEW j \in 1..Len(queue'[k]),
               IsRequest(queue'[h][i], d), IsRequest(queue'[k][j], d)
        PROVE  h = k /\ i = j
    <3>1. /\ i \in 1..Len(queue[h]) /\ queue'[h][i] = queue[h][i]
          /\ j \in 1..Len(queue[k]) /\ queue'[k][j] = queue[k][j]
      BY <1>1
    <3> QED BY <2>1, <3>1
  <2>2. ASSUME NEW d \in Calls, NEW r \in route, NEW h \in Gens,
               NEW i \in 1..Len(queue'[h])
        PROVE  ~(IsRequest(r.frame, d) /\ IsRequest(queue'[h][i], d))
    BY <1>1
  <2> QED BY <2>1, <2>2
<1> QED BY <1>3, <1>4

(* A request goes from the hub to the router, to an inbox and to the loop  *)
(* that takes it, and is in one place at a time.                           *)
LEMMA FramesNext ==
    ASSUME TypeOK, RequestsRouted, RequestOnce, [Next]_vars
    PROVE  RequestsRouted' /\ RequestOnce'
<1> USE DEF maps, regs, calls, binder, stopper, control, marks
<1>1. CASE BindInbox
  BY <1>1, FramesKept DEF BindInbox, Track
<1>2. CASE UnbindRegistry
  BY <1>2, FramesKept DEF UnbindRegistry, Track
<1>3. CASE ShutdownBegin
  BY <1>3, FramesKept DEF ShutdownBegin
<1>4. CASE BindRegistry
  BY <1>4, FramesKept DEF BindRegistry
<1>5. CASE BindSpawn
  BY <1>5, FramesKept DEF BindSpawn, Abort
<1>6. CASE BinderClose
  BY <1>6, FramesKept DEF BinderClose
<1>7. CASE BinderDrain
  BY <1>7, FramesKept DEF BinderDrain
<1>8. CASE Remove
  BY <1>8, FramesKept DEF Remove, AbortLoop, Abort
<1>9. CASE ShutdownVisit
  BY <1>9, FramesKept DEF ShutdownVisit, Close
<1>10. CASE ShutdownDrain
  BY <1>10, FramesKept DEF ShutdownDrain, Drain
<1>11. CASE ShutdownClear
  BY <1>11, FramesKept DEF ShutdownClear
<1>12. CASE ShutdownAbort
  BY <1>12, FramesKept DEF ShutdownAbort, AbortLoop, Abort
<1>13. CASE ShutdownRemove
  BY <1>13, FramesKept DEF ShutdownRemove
<1>14. CASE RunReturns
  BY <1>14, FramesKept DEF RunReturns, AbortLoop, Abort
<1>15. CASE \E f \in Frames : RouteGet(f)
  <2> USE DEF RequestsRouted, RequestOnce, IsRequest
  <2>1. PICK f \in Frames : RouteGet(f)
    BY <1>15
  <2>2. queue' = queue /\ route = {} /\ route' = {[to |-> inbox, frame |-> f]}
    BY <2>1 DEF RouteGet
  <2>3. f.call \in Calls
    BY FrameCall
  <2>4. /\ \A d \in Calls : d # f.call => pc'[d] = pc[d]
        /\ f.kind = "request" => pc[f.call] = "unsent" /\ pc'[f.call] = "routed"
        /\ f.kind # "request" => pc' = pc
    <3>1. \/ f.kind = "request" /\ pc[f.call] = "unsent" /\
             pc' = [pc EXCEPT ![f.call] = "routed"]
          \/ f.kind = "cancel" /\ pc' = pc
      BY <2>1 DEF RouteGet
    <3> QED BY <2>3, <3>1, FrameTypes
  <2>5. RequestsRouted'
    <3>1. ASSUME NEW h \in Gens, NEW i \in 1..Len(queue[h]),
                 queue[h][i].kind = "request"
          PROVE  pc'[queue[h][i].call] = "routed"
      BY <2>4, <3>1, FrameTypes
    <3> QED BY <2>2, <2>4, <3>1
  <2>6. RequestOnce'
    <3>1. ASSUME NEW d \in Calls, NEW h \in Gens, NEW i \in 1..Len(queue[h]),
                 IsRequest(f, d), IsRequest(queue[h][i], d)
          PROVE  FALSE
      BY <2>4, <3>1
    <3>2. \A d \in Calls, r \in route', h \in Gens :
            \A i \in 1..Len(queue'[h]) :
              ~(IsRequest(r.frame, d) /\ IsRequest(queue'[h][i], d))
      BY <2>2, <3>1
    <3> QED BY <2>2, <3>2
  <2> QED BY <2>5, <2>6
<1>16. CASE RouteSend
  <2> USE DEF RequestsRouted, RequestOnce, IsRequest
  <2>1. PICK r \in route : queue' = [queue EXCEPT ![r.to] = Append(@, r.frame)]
    BY <1>16 DEF RouteSend
  <2> DEFINE s == queue[r.to]
  <2>2. route' = {} /\ pc' = pc /\ r.to \in Gens /\ r.frame \in Frames
    BY <1>16, FrameTypes DEF RouteSend
  <2>3. /\ s \in Seq(Frames)
        /\ \A h \in Gens :
             queue'[h] = IF h = r.to THEN Append(s, r.frame) ELSE queue[h]
    BY <2>1, <2>2, FrameTypes
  <2>4. ASSUME NEW h \in Gens, NEW i \in 1..Len(queue'[h])
        PROVE  \/ i \in 1..Len(queue[h]) /\ queue'[h][i] = queue[h][i]
               \/ h = r.to /\ i = Len(s) + 1 /\ queue'[h][i] = r.frame
    <3>1. CASE h = r.to
      <4>1. /\ Append(s, r.frame)[Len(s) + 1] = r.frame
            /\ \A n \in 1..Len(Append(s, r.frame)) :
                 \/ n \in 1..Len(s) /\ Append(s, r.frame)[n] = s[n]
                 \/ n = Len(s) + 1
        BY <2>2, <2>3, AppendFacts
      <4>2. queue'[h] = Append(s, r.frame) /\ queue[h] = s
        BY <2>3, <3>1
      <4> QED BY <3>1, <4>1, <4>2
    <3>2. CASE h # r.to
      BY <2>3, <3>2
    <3> QED BY <3>1, <3>2
  <2>5. RequestsRouted'
    BY <2>2, <2>4
  <2>6. ASSUME NEW d \in Calls, NEW h \in Gens, NEW k \in Gens,
               NEW i \in 1..Len(queue'[h]), NEW j \in 1..Len(queue'[k]),
               IsRequest(queue'[h][i], d), IsRequest(queue'[k][j], d)
        PROVE  h = k /\ i = j
    <3>1. CASE queue'[h][i] = r.frame /\ h = r.to /\ i = Len(s) + 1
      BY <2>4, <2>6, <3>1
    <3>2. CASE queue'[k][j] = r.frame /\ k = r.to /\ j = Len(s) + 1
      BY <2>4, <2>6, <3>2
    <3>3. CASE /\ i \in 1..Len(queue[h]) /\ queue'[h][i] = queue[h][i]
               /\ j \in 1..Len(queue[k]) /\ queue'[k][j] = queue[k][j]
      BY <2>6, <3>3
    <3> QED BY <2>4, <3>1, <3>2, <3>3
  <2> QED BY <2>2, <2>5, <2>6
<1>17. CASE RouteFull
  BY <1>17, FrameForgotten DEF RouteFull
<1>18. CASE RouteClosed
  BY <1>18, FrameForgotten DEF RouteClosed
<1>19. ASSUME NEW g \in Gens, NEW c \in Calls, LoopRequest(g, c)
      PROVE  RequestsRouted' /\ RequestOnce'
  <2> DEFINE f == [kind |-> "request", call |-> c]
  <2>1. f \in Frames /\ Receives(g, f) /\ route' = route
    BY <1>19 DEF LoopRequest, Frames
  <2>2. \A d \in Calls : ~IsRequest(f, d) => pc'[d] = pc[d]
    BY <1>19, FrameTypes DEF LoopRequest, IsRequest
  <2> HIDE DEF f
  <2> QED BY <2>1, <2>2, FramesTaken
<1>20. ASSUME NEW g \in Gens, NEW c \in Calls, LoopInsert(g, c)
      PROVE  RequestsRouted' /\ RequestOnce'
  BY <1>20, FramesKept DEF LoopInsert
<1>21. ASSUME NEW g \in Gens, NEW c \in Calls, LoopSpawn(g, c)
      PROVE  RequestsRouted' /\ RequestOnce'
  BY <1>21, FrameTypes, FramesKept DEF LoopSpawn, Registering
<1>22. ASSUME NEW g \in Gens, NEW c \in Calls, LoopCancel(g, c)
      PROVE  RequestsRouted' /\ RequestOnce'
  <2> DEFINE f == [kind |-> "cancel", call |-> c]
  <2>1. f \in Frames /\ Receives(g, f) /\ route' = route
    BY <1>22 DEF LoopCancel, Frames
  <2>2. \A d \in Calls : ~IsRequest(f, d) => pc'[d] = pc[d]
    BY <1>22, FrameTypes DEF LoopCancel, IsRequest
  <2> HIDE DEF f
  <2> QED BY <2>1, <2>2, FramesTaken
<1>23. ASSUME NEW g \in Gens, LoopExit(g)
      PROVE  RequestsRouted' /\ RequestOnce'
  BY <1>23, FramesKept DEF LoopExit
<1>24. ASSUME NEW g \in Gens, LoopTail(g)
      PROVE  RequestsRouted' /\ RequestOnce'
  BY <1>24, FramesKept DEF LoopTail
<1>25. ASSUME NEW g \in Gens, LoopAborted(g)
      PROVE  RequestsRouted' /\ RequestOnce'
  BY <1>25, InboxDropped DEF LoopAborted
<1>26. ASSUME NEW g \in Gens, LoopPanics(g)
      PROVE  RequestsRouted' /\ RequestOnce'
  BY <1>26, InboxDropped DEF LoopPanics
<1>27. ASSUME NEW c \in Calls, Admit(c)
      PROVE  RequestsRouted' /\ RequestOnce'
  BY <1>27, FrameTypes, FramesKept DEF Admit
<1>28. ASSUME NEW c \in Calls, Acquire(c)
      PROVE  RequestsRouted' /\ RequestOnce'
  BY <1>28, FrameTypes, FramesKept DEF Acquire
<1>29. ASSUME NEW c \in Calls, Refuse(c)
      PROVE  RequestsRouted' /\ RequestOnce'
  BY <1>29, FrameTypes, FramesKept DEF Refuse, End
<1>30. ASSUME NEW c \in Calls, Start(c)
      PROVE  RequestsRouted' /\ RequestOnce'
  BY <1>30, FrameTypes, FramesKept DEF Start
<1>31. ASSUME NEW c \in Calls, Cancelled(c)
      PROVE  RequestsRouted' /\ RequestOnce'
  BY <1>31, FrameTypes, FramesKept DEF Cancelled, End
<1>32. ASSUME NEW c \in Calls, Finish(c)
      PROVE  RequestsRouted' /\ RequestOnce'
  BY <1>32, FrameTypes, FramesKept DEF Finish, End
<1>33. CASE UNCHANGED vars
  BY <1>33, FramesKept DEF vars
<1> QED
  BY <1>1, <1>2, <1>3, <1>4, <1>5, <1>6, <1>7, <1>8, <1>9, <1>10, <1>11,
     <1>12, <1>13, <1>14, <1>15, <1>16, <1>17, <1>18, <1>19, <1>20, <1>21,
     <1>22, <1>23, <1>24, <1>25, <1>26, <1>27, <1>28, <1>29, <1>30, <1>31,
     <1>32, <1>33
     DEF Next, Binder, Shutdown, Router, Loop, Task

(* Loops are made by binds, one after the other, and calls taken by loops. *)
LEMMA LoopsNext ==
    ASSUME TypeOK, LoopsBound, [Next]_vars
    PROVE  LoopsBound'
<1> USE DEF LoopsBound, Active, Spawned, Binding,
           maps, regs, calls, binder, stopper, control, marks
<1>0. /\ pc \in [Calls -> PCs] /\ cgen \in [Calls -> 0..MaxBinds]
      /\ loop \in [Gens -> {"none", "recv", "insert", "recheck", "tail",
                         "dead"}]
      /\ gen \in 0..MaxBinds
  BY DEF TypeOK
<1>b. \A r \in route : r.frame.call \in Calls
  BY FrameCall DEF TypeOK
<1>a. Gens = 1..MaxBinds /\ MaxBinds \in Nat
  BY ToolServerAssumption DEF Gens
<1>1. CASE BindInbox
  BY <1>1, <1>0, <1>a DEF BindInbox, Track
<1>2. CASE UnbindRegistry
  BY <1>2, <1>0, <1>a DEF UnbindRegistry, Track
<1>3. CASE ShutdownBegin
  BY <1>3, <1>0, <1>a DEF ShutdownBegin
<1>4. CASE BindRegistry
  BY <1>4, <1>0, <1>a DEF BindRegistry
<1>5. CASE BindSpawn
  BY <1>5, <1>0, <1>a DEF BindSpawn, Abort
<1>6. CASE BinderClose
  BY <1>6, <1>0, <1>a DEF BinderClose, Close
<1>7. CASE BinderDrain
  BY <1>7, <1>0, <1>a DEF BinderDrain, Drain
<1>8. CASE Remove
  BY <1>8, <1>0, <1>a DEF Remove, AbortLoop, Abort
<1>9. CASE ShutdownVisit
  BY <1>9, <1>0, <1>a DEF ShutdownVisit, Close
<1>10. CASE ShutdownDrain
  BY <1>10, <1>0, <1>a DEF ShutdownDrain, Drain
<1>11. CASE ShutdownClear
  BY <1>11, <1>0, <1>a DEF ShutdownClear
<1>12. CASE ShutdownAbort
  BY <1>12, <1>0, <1>a DEF ShutdownAbort, AbortLoop, Abort
<1>13. CASE ShutdownRemove
  BY <1>13, <1>0, <1>a DEF ShutdownRemove
<1>14. CASE RunReturns
  BY <1>14, <1>0, <1>a DEF RunReturns, AbortLoop, Abort
<1>15. CASE \E f \in Frames : RouteGet(f)
  BY <1>15, <1>0, <1>a, FrameCall DEF RouteGet
<1>16. CASE RouteSend
  BY <1>16, <1>0, <1>a DEF RouteSend
<1>17. CASE RouteFull
  BY <1>17, <1>0, <1>a, <1>b DEF RouteFull, Forget
<1>18. CASE RouteClosed
  BY <1>18, <1>0, <1>a, <1>b DEF RouteClosed, Forget
<1>19. ASSUME NEW g \in Gens, NEW c \in Calls, LoopRequest(g, c)
      PROVE  LoopsBound'
  BY <1>19, <1>0, <1>a DEF LoopRequest, Receives
<1>20. ASSUME NEW g \in Gens, NEW c \in Calls, LoopInsert(g, c)
      PROVE  LoopsBound'
  BY <1>20, <1>0, <1>a DEF LoopInsert, Registering
<1>21. ASSUME NEW g \in Gens, NEW c \in Calls, LoopSpawn(g, c)
      PROVE  LoopsBound'
  BY <1>21, <1>0, <1>a DEF LoopSpawn, Registering
<1>22. ASSUME NEW g \in Gens, NEW c \in Calls, LoopCancel(g, c)
      PROVE  LoopsBound'
  BY <1>22, <1>0, <1>a DEF LoopCancel, Receives, Hook
<1>23. ASSUME NEW g \in Gens, LoopExit(g)
      PROVE  LoopsBound'
  BY <1>23, <1>0, <1>a DEF LoopExit, Close
<1>24. ASSUME NEW g \in Gens, LoopTail(g)
      PROVE  LoopsBound'
  BY <1>24, <1>0, <1>a DEF LoopTail, Drain
<1>25. ASSUME NEW g \in Gens, LoopAborted(g)
      PROVE  LoopsBound'
  BY <1>25, <1>0, <1>a DEF LoopAborted, Dies
<1>26. ASSUME NEW g \in Gens, LoopPanics(g)
      PROVE  LoopsBound'
  BY <1>26, <1>0, <1>a DEF LoopPanics, Dies
<1>27. ASSUME NEW c \in Calls, Admit(c)
      PROVE  LoopsBound'
  BY <1>27, <1>0, <1>a DEF Admit
<1>28. ASSUME NEW c \in Calls, Acquire(c)
      PROVE  LoopsBound'
  BY <1>28, <1>0, <1>a DEF Acquire
<1>29. ASSUME NEW c \in Calls, Refuse(c)
      PROVE  LoopsBound'
  BY <1>29, <1>0, <1>a DEF Refuse, End
<1>30. ASSUME NEW c \in Calls, Start(c)
      PROVE  LoopsBound'
  BY <1>30, <1>0, <1>a DEF Start
<1>31. ASSUME NEW c \in Calls, Cancelled(c)
      PROVE  LoopsBound'
  BY <1>31, <1>0, <1>a DEF Cancelled, End
<1>32. ASSUME NEW c \in Calls, Finish(c)
      PROVE  LoopsBound'
  BY <1>32, <1>0, <1>a DEF Finish, End
<1>33. CASE UNCHANGED vars
  BY <1>33, <1>0, <1>a DEF vars
<1> QED
  BY <1>1, <1>2, <1>3, <1>4, <1>5, <1>6, <1>7, <1>8, <1>9, <1>10, <1>11,
     <1>12, <1>13, <1>14, <1>15, <1>16, <1>17, <1>18, <1>19, <1>20, <1>21,
     <1>22, <1>23, <1>24, <1>25, <1>26, <1>27, <1>28, <1>29, <1>30, <1>31,
     <1>32, <1>33
     DEF Next, Binder, Shutdown, Router, Loop, Task

(* The router takes the request of a call that was not sent before. *)
LEMMA RouteGetMoves ==
    ASSUME TypeOK, NEW f \in Frames, RouteGet(f)
    PROVE  \A d \in Calls :
             pc'[d] = pc[d] \/ (pc[d] = "unsent" /\ pc'[d] = "routed")
<1>1. \/ pc[f.call] = "unsent" /\ pc' = [pc EXCEPT ![f.call] = "routed"]
      \/ pc' = pc
  BY DEF RouteGet
<1>2. pc \in [Calls -> PCs]
  BY DEF TypeOK
<1> QED BY <1>1, <1>2

(* A frame that finds no inbox, or a full one, ends its call if it is a request. *)
LEMMA ForgetMoves ==
    ASSUME TypeOK, RequestsRouted, NEW r \in route, Forget(r.frame)
    PROVE  \A d \in Calls :
             pc'[d] = pc[d] \/ (pc[d] = "routed" /\ pc'[d] = "done")
<1>1. pc \in [Calls -> PCs]
  BY DEF TypeOK
<1>2. r.frame.kind = "request" => pc[r.frame.call] = "routed"
  BY DEF RequestsRouted
<1> QED BY <1>1, <1>2 DEF Forget

(* A loop receives the request of a call that nobody has taken. *)
LEMMA ReceivedRouted ==
    ASSUME TypeOK, RequestsRouted, NEW g \in Gens, NEW c \in Calls,
           Receives(g, [kind |-> "request", call |-> c])
    PROVE  pc[c] = "routed"
<1>1. queue[g] \in Seq(Frames) /\ queue[g] # <<>>
  BY DEF TypeOK, Receives
<1>2. 1 \in 1..Len(queue[g]) /\ Head(queue[g]) = queue[g][1]
  BY <1>1, TailFacts
<1>3. queue[g][1].kind = "request" /\ queue[g][1].call = c
  BY <1>2 DEF Receives
<1> QED BY <1>2, <1>3 DEF RequestsRouted

(* The end of a loop ends the calls whose requests it drops, and no others. *)
LEMMA DiesMoves ==
    ASSUME TypeOK, RequestsRouted, NEW g \in Gens, Dies(g)
    PROVE  \A d \in Calls :
             pc'[d] = pc[d] \/ (pc[d] = "routed" /\ pc'[d] = "done")
<1>1. ASSUME NEW d \in Calls, NEW i \in 1..Len(queue[g]),
             queue[g][i] = [kind |-> "request", call |-> d]
      PROVE  pc[d] = "routed"
  <2>1. queue[g][i].kind = "request" /\ queue[g][i].call = d
    BY <1>1
  <2> QED BY <2>1 DEF RequestsRouted
<1> QED BY <1>1 DEF Dies

(* A call is put into the registry of the loop that takes it, and stays there*)
(* until it ends or its token is cancelled.                                *)
LEMMA RegistryNext ==
    ASSUME TypeOK, RequestsRouted, LoopsBound, OneRegistering, InRegistry,
           [Next]_vars
    PROVE  OneRegistering' /\ InRegistry'
<1> USE DEF OneRegistering, InRegistry, LoopsBound, Active, Spawned, Binding,
           maps, regs, calls, binder, stopper, control, marks
<1>0. /\ pc \in [Calls -> PCs] /\ cgen \in [Calls -> 0..MaxBinds]
      /\ loop \in [Gens -> {"none", "recv", "insert", "recheck", "tail",
                         "dead"}]
      /\ live \in [Gens -> SUBSET Calls] /\ token \subseteq Calls
  BY DEF TypeOK
<1>1. CASE BindInbox
  BY <1>1, <1>0 DEF BindInbox, Track
<1>2. CASE UnbindRegistry
  BY <1>2, <1>0 DEF UnbindRegistry, Track
<1>3. CASE ShutdownBegin
  BY <1>3, <1>0 DEF ShutdownBegin
<1>4. CASE BindRegistry
  BY <1>4, <1>0 DEF BindRegistry
<1>5. CASE BindSpawn
  BY <1>5, <1>0 DEF BindSpawn, Abort
<1>6. CASE BinderClose
  BY <1>6, <1>0 DEF BinderClose, Close
<1>7. CASE BinderDrain
  BY <1>7, <1>0 DEF BinderDrain, Drain
<1>8. CASE Remove
  BY <1>8, <1>0 DEF Remove, AbortLoop, Abort
<1>9. CASE ShutdownVisit
  BY <1>9, <1>0 DEF ShutdownVisit, Close
<1>10. CASE ShutdownDrain
  BY <1>10, <1>0 DEF ShutdownDrain, Drain
<1>11. CASE ShutdownClear
  BY <1>11, <1>0 DEF ShutdownClear
<1>12. CASE ShutdownAbort
  BY <1>12, <1>0 DEF ShutdownAbort, AbortLoop, Abort
<1>13. CASE ShutdownRemove
  BY <1>13, <1>0 DEF ShutdownRemove
<1>14. CASE RunReturns
  BY <1>14, <1>0 DEF RunReturns, AbortLoop, Abort
<1>15. CASE \E f \in Frames : RouteGet(f)
  <2>1. PICK f \in Frames : RouteGet(f)
    BY <1>15
  <2>2. \A d \in Calls :
          pc'[d] = pc[d] \/ (pc[d] = "unsent" /\ pc'[d] = "routed")
    BY <2>1, RouteGetMoves
  <2>3. UNCHANGED <<cgen, loop, live, token>>
    BY <2>1 DEF RouteGet
  <2> QED BY <1>0, <2>2, <2>3
<1>16. CASE RouteSend
  BY <1>16, <1>0 DEF RouteSend
<1>17. CASE RouteFull
  <2>1. PICK r \in route : Forget(r.frame)
    BY <1>17 DEF RouteFull
  <2>2. \A d \in Calls :
          pc'[d] = pc[d] \/ (pc[d] = "routed" /\ pc'[d] = "done")
    BY <2>1, ForgetMoves
  <2>3. UNCHANGED <<cgen, loop, live, token>>
    BY <1>17 DEF RouteFull
  <2> QED BY <1>0, <2>2, <2>3
<1>18. CASE RouteClosed
  <2>1. PICK r \in route : Forget(r.frame)
    BY <1>18 DEF RouteClosed
  <2>2. \A d \in Calls :
          pc'[d] = pc[d] \/ (pc[d] = "routed" /\ pc'[d] = "done")
    BY <2>1, ForgetMoves
  <2>3. UNCHANGED <<cgen, loop, live, token>>
    BY <1>18 DEF RouteClosed
  <2> QED BY <1>0, <2>2, <2>3
<1>19. ASSUME NEW g \in Gens, NEW c \in Calls, LoopRequest(g, c)
      PROVE  OneRegistering' /\ InRegistry'
  <2>1. pc[c] = "routed"
    BY <1>19, ReceivedRouted DEF LoopRequest
  <2>2. /\ loop[g] = "recv" /\ live' = live /\ token \subseteq token'
        /\ cgen' = [cgen EXCEPT ![c] = g]
    BY <1>19 DEF LoopRequest, Receives
  <2>3. \/ /\ c \in token' /\ loop' = loop
           /\ pc' = [pc EXCEPT ![c] = "admit"]
        \/ /\ loop' = [loop EXCEPT ![g] = "insert"]
           /\ pc' = [pc EXCEPT ![c] = "register"]
    BY <1>19 DEF LoopRequest
  <2>4. OneRegistering'
    BY <1>0, <2>1, <2>2, <2>3
  <2>5. InRegistry'
    BY <1>0, <2>1, <2>2, <2>3
  <2> QED BY <2>4, <2>5
<1>20. ASSUME NEW g \in Gens, NEW c \in Calls, LoopInsert(g, c)
      PROVE  OneRegistering' /\ InRegistry'
  BY <1>20, <1>0 DEF LoopInsert, Registering
<1>21. ASSUME NEW g \in Gens, NEW c \in Calls, LoopSpawn(g, c)
      PROVE  OneRegistering' /\ InRegistry'
  BY <1>21, <1>0 DEF LoopSpawn, Registering
<1>22. ASSUME NEW g \in Gens, NEW c \in Calls, LoopCancel(g, c)
      PROVE  OneRegistering' /\ InRegistry'
  <2>1. UNCHANGED <<pc, cgen, loop>>
    BY <1>22 DEF LoopCancel
  <2>2. \/ live' = live /\ token' = token
        \/ live' = [live EXCEPT ![g] = @ \ {c}] /\ token' = token \cup {c}
    BY <1>22 DEF LoopCancel
  <2> QED BY <1>0, <2>1, <2>2
<1>23. ASSUME NEW g \in Gens, LoopExit(g)
      PROVE  OneRegistering' /\ InRegistry'
  BY <1>23, <1>0 DEF LoopExit, Close
<1>24. ASSUME NEW g \in Gens, LoopTail(g)
      PROVE  OneRegistering' /\ InRegistry'
  BY <1>24, <1>0 DEF LoopTail, Drain
<1>25. ASSUME NEW g \in Gens, LoopAborted(g)
      PROVE  OneRegistering' /\ InRegistry'
  <2>1. \A d \in Calls :
          pc'[d] = pc[d] \/ (pc[d] = "routed" /\ pc'[d] = "done")
    BY <1>25, DiesMoves DEF LoopAborted
  <2>2. /\ UNCHANGED <<cgen, live, token>>
        /\ loop' = [loop EXCEPT ![g] = "dead"]
    BY <1>25 DEF LoopAborted, Dies
  <2> QED BY <1>0, <1>25, <2>1, <2>2 DEF LoopAborted
<1>26. ASSUME NEW g \in Gens, LoopPanics(g)
      PROVE  OneRegistering' /\ InRegistry'
  <2>1. \A d \in Calls :
          pc'[d] = pc[d] \/ (pc[d] = "routed" /\ pc'[d] = "done")
    BY <1>26, DiesMoves DEF LoopPanics
  <2>2. /\ UNCHANGED <<cgen, live, token>>
        /\ loop' = [loop EXCEPT ![g] = "dead"]
    BY <1>26 DEF LoopPanics, Dies
  <2> QED BY <1>0, <1>26, <2>1, <2>2 DEF LoopPanics
<1>27. ASSUME NEW c \in Calls, Admit(c)
      PROVE  OneRegistering' /\ InRegistry'
  BY <1>27, <1>0 DEF Admit
<1>28. ASSUME NEW c \in Calls, Acquire(c)
      PROVE  OneRegistering' /\ InRegistry'
  BY <1>28, <1>0 DEF Acquire
<1>29. ASSUME NEW c \in Calls, Refuse(c)
      PROVE  OneRegistering' /\ InRegistry'
  BY <1>29, <1>0 DEF Refuse, End
<1>30. ASSUME NEW c \in Calls, Start(c)
      PROVE  OneRegistering' /\ InRegistry'
  BY <1>30, <1>0 DEF Start
<1>31. ASSUME NEW c \in Calls, Cancelled(c)
      PROVE  OneRegistering' /\ InRegistry'
  BY <1>31, <1>0 DEF Cancelled, End
<1>32. ASSUME NEW c \in Calls, Finish(c)
      PROVE  OneRegistering' /\ InRegistry'
  BY <1>32, <1>0 DEF Finish, End
<1>33. CASE UNCHANGED vars
  BY <1>33, <1>0 DEF vars
<1> QED
  BY <1>1, <1>2, <1>3, <1>4, <1>5, <1>6, <1>7, <1>8, <1>9, <1>10, <1>11,
     <1>12, <1>13, <1>14, <1>15, <1>16, <1>17, <1>18, <1>19, <1>20, <1>21,
     <1>22, <1>23, <1>24, <1>25, <1>26, <1>27, <1>28, <1>29, <1>30, <1>31,
     <1>32, <1>33
     DEF Next, Binder, Shutdown, Router, Loop, Task

(* A registry leaves the map for good only closed and drained, and no call *)
(* gets past the second look of a loop whose registry is closed.           *)
LEMMA TeardownNext ==
    ASSUME TypeOK, HasOld, RequestsRouted, LoopsBound, OneRegistering,
           InRegistry, AfterInstall, TeardownOrder, DrainedWhenGone,
           [Next]_vars
    PROVE  AfterInstall' /\ TeardownOrder' /\ DrainedWhenGone'
<1> USE DEF Installed, AfterInstall, TeardownOrder, DrainedWhenGone,
           HasOld, LoopsBound,
           OneRegistering, InRegistry, Displacing, OnlyRegistering,
           Registering, Active, Spawned, Binding, Unbinding, None,
           maps, regs, calls, binder, stopper, control, marks
<1>0. /\ pc \in [Calls -> PCs] /\ cgen \in [Calls -> 0..MaxBinds]
      /\ loop \in [Gens -> {"none", "recv", "insert", "recheck", "tail",
                         "dead"}]
      /\ live \in [Gens -> SUBSET Calls] /\ token \subseteq Calls
      /\ closed \subseteq Gens
  BY DEF TypeOK
<1>a. 0 \notin Gens
  BY DEF Gens
<1>1. CASE BindInbox
  BY <1>1, <1>0 DEF BindInbox, Track
<1>2. CASE UnbindRegistry
  <2>1. UNCHANGED <<loop, closed, live, pc, cgen, gen, spc, sold, lost>>
    BY <1>2 DEF UnbindRegistry
  <2>2. AfterInstall' /\ TeardownOrder'
    BY <1>2, <1>a, <2>1 DEF UnbindRegistry
  <2>3. ASSUME NEW g \in Gens, Installed(g)', ~Displacing(g)'
        PROVE  Installed(g) /\ ~Displacing(g) /\ reg # g
    BY <1>2, <1>a, <2>1, <2>3 DEF UnbindRegistry
  <2>4. DrainedWhenGone'
    BY <2>1, <2>3
  <2> QED BY <2>2, <2>4
<1>3. CASE ShutdownBegin
  BY <1>3, <1>0 DEF ShutdownBegin
<1>4. CASE BindRegistry
  <2>1. UNCHANGED <<loop, closed, live, pc, cgen, gen, spc, sold, lost>>
    BY <1>4 DEF BindRegistry
  <2>a. /\ bpc = "insert" /\ reg' = gen /\ bold' = reg
        /\ bpc' = IF reg = 0 THEN "spawn" ELSE "close"
    BY <1>4 DEF BindRegistry
  <2>b. gen \in Gens /\ loop[gen] = "none" /\ gen \notin closed /\ reg # gen
    BY <2>a
  <2>2. AfterInstall' /\ TeardownOrder'
    BY <1>0, <1>a, <2>1, <2>a, <2>b
  <2>3. ASSUME NEW g \in Gens, Installed(g)', ~Displacing(g)',
               reg' # g \/ (spc = "clear" /\ sold = g)
        PROVE  Installed(g) /\ ~Displacing(g) /\ reg # g
    BY <1>a, <2>1, <2>a, <2>b, <2>3
  <2>4. DrainedWhenGone'
    BY <2>1, <2>3
  <2> QED BY <2>2, <2>4
<1>5. CASE BindSpawn
  BY <1>5, <1>0 DEF BindSpawn, Abort
<1>6. CASE BinderClose
  BY <1>6, <1>0 DEF BinderClose, Close
<1>7. CASE BinderDrain
  <2>1. /\ loop' = loop /\ closed' = closed /\ pc' = pc /\ cgen' = cgen
        /\ UNCHANGED <<reg, bold, gen, spc, sold, lost>>
        /\ live' = [live EXCEPT ![bold] = {}] /\ bold \in closed
        /\ (bpc = "drain" /\ bpc' = "spawn") \/ (bpc = "undrain" /\ bpc' = "remove")
    BY <1>7 DEF BinderDrain, Drain
  <2>2. AfterInstall' /\ TeardownOrder'
    BY <1>a, <2>1
  <2>3. ASSUME NEW g \in Gens, Installed(g)',
               reg # g \/ (spc = "clear" /\ sold = g)
        PROVE  \/ g \in closed /\ OnlyRegistering(g)'
               \/ g \in lost /\ (g \notin closed \/ loop[g] = "tail")
    <3>1. CASE g = bold
      BY <1>0, <2>1, <3>1
    <3>2. CASE g # bold
      <4>1. Installed(g) /\ ~Displacing(g) /\ live'[g] = live[g]
        BY <1>0, <1>a, <2>1, <2>3, <3>2
      <4> QED BY <2>1, <2>3, <3>2, <4>1
    <3> QED BY <3>1, <3>2
  <2> QED BY <2>1, <2>2, <2>3
<1>8. CASE Remove
  BY <1>8, <1>0 DEF Remove, AbortLoop, Abort
<1>9. CASE ShutdownVisit
  BY <1>9, <1>0, <1>a DEF ShutdownVisit, Close
<1>10. CASE ShutdownDrain
  <2>1. /\ UNCHANGED <<loop, closed, pc, cgen, reg, bpc, bold, gen, sold, lost>>
        /\ spc = "drain" /\ spc' = "clear" /\ sold \in closed
        /\ live' = [live EXCEPT ![sold] = {}]
    BY <1>10, <1>a DEF ShutdownDrain, Drain
  <2>2. AfterInstall' /\ TeardownOrder'
    BY <2>1
  <2>3. ASSUME NEW g \in Gens, Installed(g), ~Displacing(g),
               reg # g \/ sold = g
        PROVE  \/ g \in closed /\ OnlyRegistering(g)'
               \/ g \in lost /\ (g \notin closed \/ loop[g] = "tail")
    <3>1. CASE g = sold
      BY <1>0, <2>1, <3>1
    <3>2. CASE g # sold
      <4>1. live'[g] = live[g]
        BY <1>0, <2>1, <3>2
      <4> QED BY <2>1, <2>3, <3>2, <4>1
    <3> QED BY <3>1, <3>2
  <2> QED BY <2>1, <2>2, <2>3
<1>11. CASE ShutdownClear
  <2>1. /\ UNCHANGED <<loop, closed, live, pc, cgen, bpc, bold, gen>>
        /\ spc = "clear" /\ spc' = "abort" /\ reg' = 0 /\ sold' = 0
        /\ lost' = lost \cup ({reg} \ {0, sold})
    BY <1>11 DEF ShutdownClear
  <2>2. AfterInstall' /\ TeardownOrder'
    BY <1>a, <2>1
  <2>3. ASSUME NEW g \in Gens, Installed(g), ~Displacing(g)
        PROVE  \/ g \in closed /\ OnlyRegistering(g)
               \/ g \in lost' /\ (g \notin closed \/ loop[g] = "tail")
    BY <1>a, <2>1, <2>3
  <2> QED BY <2>1, <2>2, <2>3
<1>12. CASE ShutdownAbort
  BY <1>12, <1>0 DEF ShutdownAbort, AbortLoop, Abort
<1>13. CASE ShutdownRemove
  BY <1>13, <1>0 DEF ShutdownRemove
<1>14. CASE RunReturns
  BY <1>14, <1>0 DEF RunReturns, AbortLoop, Abort
<1>15. CASE \E f \in Frames : RouteGet(f)
  <2>1. PICK f \in Frames : RouteGet(f)
    BY <1>15
  <2>2. \A d \in Calls :
          pc'[d] = pc[d] \/ (pc[d] = "unsent" /\ pc'[d] = "routed")
    BY <2>1, RouteGetMoves
  <2>3. UNCHANGED <<cgen, loop, live, token, closed, reg, bpc, bold, gen,
                  spc, sold, lost>>
    BY <2>1 DEF RouteGet
  <2> QED BY <1>0, <2>2, <2>3
<1>16. CASE RouteSend
  BY <1>16, <1>0 DEF RouteSend
<1>17. CASE RouteFull
  <2>1. PICK r \in route : Forget(r.frame)
    BY <1>17 DEF RouteFull
  <2>2. \A d \in Calls :
          pc'[d] = pc[d] \/ (pc[d] = "routed" /\ pc'[d] = "done")
    BY <2>1, ForgetMoves
  <2>3. UNCHANGED <<cgen, loop, live, token, closed, reg, bpc, bold, gen,
                  spc, sold, lost>>
    BY <1>17 DEF RouteFull
  <2> QED BY <1>0, <2>2, <2>3
<1>18. CASE RouteClosed
  <2>1. PICK r \in route : Forget(r.frame)
    BY <1>18 DEF RouteClosed
  <2>2. \A d \in Calls :
          pc'[d] = pc[d] \/ (pc[d] = "routed" /\ pc'[d] = "done")
    BY <2>1, ForgetMoves
  <2>3. UNCHANGED <<cgen, loop, live, token, closed, reg, bpc, bold, gen,
                  spc, sold, lost>>
    BY <1>18 DEF RouteClosed
  <2> QED BY <1>0, <2>2, <2>3
<1>19. ASSUME NEW g \in Gens, NEW c \in Calls, LoopRequest(g, c)
      PROVE  AfterInstall' /\ TeardownOrder' /\ DrainedWhenGone'
  <2>1. pc[c] = "routed"
    BY <1>19, ReceivedRouted DEF LoopRequest
  <2>2. /\ loop[g] = "recv" /\ live' = live /\ closed' = closed
        /\ UNCHANGED <<reg, bold, gen, bpc, spc, sold, lost>>
        /\ \A d \in Calls : d # c => pc'[d] = pc[d] /\ cgen'[d] = cgen[d]
        /\ \A h \in Gens : h # g => loop'[h] = loop[h]
        /\ loop'[g] \in {"recv", "insert"}
    BY <1>19, <1>0 DEF LoopRequest, Receives
  <2>3. AfterInstall' /\ TeardownOrder'
    BY <1>0, <1>a, <2>2
  <2>4. \A h \in Gens : c \notin live[h]
    BY <2>1
  <2>5. ASSUME NEW h \in Gens, OnlyRegistering(h)
        PROVE  OnlyRegistering(h)'
    BY <1>0, <2>2, <2>4, <2>5
  <2> QED BY <2>2, <2>3, <2>5
<1>20. ASSUME NEW g \in Gens, NEW c \in Calls, LoopInsert(g, c)
      PROVE  AfterInstall' /\ TeardownOrder' /\ DrainedWhenGone'
  BY <1>20, <1>0 DEF LoopInsert, Registering
<1>21. ASSUME NEW g \in Gens, NEW c \in Calls, LoopSpawn(g, c)
      PROVE  AfterInstall' /\ TeardownOrder' /\ DrainedWhenGone'
  BY <1>21, <1>0 DEF LoopSpawn, Registering
<1>22. ASSUME NEW g \in Gens, NEW c \in Calls, LoopCancel(g, c)
      PROVE  AfterInstall' /\ TeardownOrder' /\ DrainedWhenGone'
  BY <1>22, <1>0 DEF LoopCancel, Receives, Hook
<1>23. ASSUME NEW g \in Gens, LoopExit(g)
      PROVE  AfterInstall' /\ TeardownOrder' /\ DrainedWhenGone'
  BY <1>23, <1>0 DEF LoopExit, Close
<1>24. ASSUME NEW g \in Gens, LoopTail(g)
      PROVE  AfterInstall' /\ TeardownOrder' /\ DrainedWhenGone'
  <2>1. /\ UNCHANGED <<closed, pc, cgen, bpc, bold, gen, spc, sold, lost>>
        /\ loop[g] = "tail" /\ loop' = [loop EXCEPT ![g] = "dead"]
        /\ live' = [live EXCEPT ![g] = {}]
        /\ reg' = IF reg = g THEN 0 ELSE reg
    BY <1>24 DEF LoopTail, Drain
  <2>2. AfterInstall' /\ TeardownOrder'
    BY <1>0, <1>a, <2>1
  <2>3. ASSUME NEW h \in Gens, Installed(h)', ~Displacing(h)',
               reg' # h \/ (spc = "clear" /\ sold = h)
        PROVE  \/ h \in closed /\ OnlyRegistering(h)'
               \/ h \in lost /\ (h \notin closed \/ loop'[h] = "tail")
    <3>1. CASE h = g
      BY <1>0, <2>1, <3>1
    <3>2. CASE h # g
      <4>1. live'[h] = live[h] /\ loop'[h] = loop[h]
        BY <1>0, <2>1, <3>2
      <4> QED BY <2>1, <2>3, <3>2, <4>1
    <3> QED BY <3>1, <3>2
  <2> QED BY <2>1, <2>2, <2>3
<1>25. ASSUME NEW g \in Gens, LoopAborted(g)
      PROVE  AfterInstall' /\ TeardownOrder' /\ DrainedWhenGone'
  <2>1. \A d \in Calls :
          pc'[d] = pc[d] \/ (pc[d] = "routed" /\ pc'[d] = "done")
    BY <1>25, DiesMoves DEF LoopAborted
  <2>2. /\ UNCHANGED <<cgen, live, token, closed, reg, bpc, bold, gen,
                     spc, sold, lost>>
        /\ loop' = [loop EXCEPT ![g] = "dead"]
    BY <1>25 DEF LoopAborted, Dies
  <2> QED BY <1>0, <1>25, <2>1, <2>2 DEF LoopAborted
<1>26. ASSUME NEW g \in Gens, LoopPanics(g)
      PROVE  AfterInstall' /\ TeardownOrder' /\ DrainedWhenGone'
  <2>1. \A d \in Calls :
          pc'[d] = pc[d] \/ (pc[d] = "routed" /\ pc'[d] = "done")
    BY <1>26, DiesMoves DEF LoopPanics
  <2>2. /\ UNCHANGED <<cgen, live, token, closed, reg, bpc, bold, gen,
                     spc, sold, lost>>
        /\ loop' = [loop EXCEPT ![g] = "dead"]
    BY <1>26 DEF LoopPanics, Dies
  <2> QED BY <1>0, <1>26, <2>1, <2>2 DEF LoopPanics
<1>27. ASSUME NEW c \in Calls, Admit(c)
      PROVE  AfterInstall' /\ TeardownOrder' /\ DrainedWhenGone'
  BY <1>27, <1>0 DEF Admit
<1>28. ASSUME NEW c \in Calls, Acquire(c)
      PROVE  AfterInstall' /\ TeardownOrder' /\ DrainedWhenGone'
  BY <1>28, <1>0 DEF Acquire
<1>29. ASSUME NEW c \in Calls, Refuse(c)
      PROVE  AfterInstall' /\ TeardownOrder' /\ DrainedWhenGone'
  BY <1>29, <1>0 DEF Refuse, End
<1>30. ASSUME NEW c \in Calls, Start(c)
      PROVE  AfterInstall' /\ TeardownOrder' /\ DrainedWhenGone'
  BY <1>30, <1>0 DEF Start
<1>31. ASSUME NEW c \in Calls, Cancelled(c)
      PROVE  AfterInstall' /\ TeardownOrder' /\ DrainedWhenGone'
  BY <1>31, <1>0 DEF Cancelled, End
<1>32. ASSUME NEW c \in Calls, Finish(c)
      PROVE  AfterInstall' /\ TeardownOrder' /\ DrainedWhenGone'
  BY <1>32, <1>0 DEF Finish, End
<1>33. CASE UNCHANGED vars
  BY <1>33, <1>0 DEF vars
<1> QED
  BY <1>1, <1>2, <1>3, <1>4, <1>5, <1>6, <1>7, <1>8, <1>9, <1>10, <1>11,
     <1>12, <1>13, <1>14, <1>15, <1>16, <1>17, <1>18, <1>19, <1>20, <1>21,
     <1>22, <1>23, <1>24, <1>25, <1>26, <1>27, <1>28, <1>29, <1>30, <1>31,
     <1>32, <1>33
     DEF Next, Binder, Shutdown, Router, Loop, Task

(* A Cancel that is applied early stays with its call until the call ends. *)
LEMMA CancelNext ==
    ASSUME TypeOK, HasOld, RequestsRouted, OneRegistering, InRegistry,
           TeardownOrder, CancelKept, CancelSticks, [Next]_vars
    PROVE  CancelKept' /\ CancelSticks'
<1> USE DEF CancelKept, CancelSticks, HasOld, OneRegistering, InRegistry,
           TeardownOrder, Active, Spawned, None,
           maps, regs, calls, binder, stopper, control, marks
<1>0. /\ pc \in [Calls -> PCs] /\ cgen \in [Calls -> 0..MaxBinds]
      /\ pending \in [Gens -> SUBSET Calls] /\ live \in [Gens -> SUBSET Calls]
      /\ hooked \in [Calls -> 0..MaxBinds] /\ closed \subseteq Gens
  BY DEF TypeOK
<1>a. 0 \notin Gens /\ \A x \in 0..MaxBinds : x = 0 \/ x \in Gens
  BY GensOrNone DEF Gens, None
<1>1. CASE BindInbox
  BY <1>1, <1>0, <1>a DEF BindInbox, Track
<1>2. CASE UnbindRegistry
  BY <1>2, <1>0, <1>a DEF UnbindRegistry, Track
<1>3. CASE ShutdownBegin
  BY <1>3, <1>0, <1>a DEF ShutdownBegin
<1>4. CASE BindRegistry
  BY <1>4, <1>0, <1>a DEF BindRegistry
<1>5. CASE BindSpawn
  BY <1>5, <1>0, <1>a DEF BindSpawn, Abort
<1>6. CASE BinderClose
  BY <1>6, <1>0, <1>a DEF BinderClose, Close
<1>7. CASE BinderDrain
  BY <1>7, <1>0, <1>a DEF BinderDrain, Drain
<1>8. CASE Remove
  BY <1>8, <1>0, <1>a DEF Remove, AbortLoop, Abort
<1>9. CASE ShutdownVisit
  BY <1>9, <1>0, <1>a DEF ShutdownVisit, Close
<1>10. CASE ShutdownDrain
  BY <1>10, <1>0, <1>a DEF ShutdownDrain, Drain
<1>11. CASE ShutdownClear
  BY <1>11, <1>0, <1>a DEF ShutdownClear
<1>12. CASE ShutdownAbort
  BY <1>12, <1>0, <1>a DEF ShutdownAbort, AbortLoop, Abort
<1>13. CASE ShutdownRemove
  BY <1>13, <1>0, <1>a DEF ShutdownRemove
<1>14. CASE RunReturns
  BY <1>14, <1>0, <1>a DEF RunReturns, AbortLoop, Abort
<1>15. CASE \E f \in Frames : RouteGet(f)
  <2>1. PICK f \in Frames : RouteGet(f)
    BY <1>15
  <2>2. \A d \in Calls :
          pc'[d] = pc[d] \/ (pc[d] = "unsent" /\ pc'[d] = "routed")
    BY <2>1, RouteGetMoves
  <2>3. UNCHANGED <<cgen, token, closed, pending, hooked>>
    BY <2>1 DEF RouteGet
  <2> QED BY <1>0, <2>2, <2>3
<1>16. CASE RouteSend
  BY <1>16, <1>0, <1>a DEF RouteSend
<1>17. CASE RouteFull
  <2>1. PICK r \in route : Forget(r.frame)
    BY <1>17 DEF RouteFull
  <2>2. \A d \in Calls :
          pc'[d] = pc[d] \/ (pc[d] = "routed" /\ pc'[d] = "done")
    BY <2>1, ForgetMoves
  <2>3. UNCHANGED <<cgen, token, closed, pending, hooked>>
    BY <1>17 DEF RouteFull
  <2> QED BY <1>0, <2>2, <2>3
<1>18. CASE RouteClosed
  <2>1. PICK r \in route : Forget(r.frame)
    BY <1>18 DEF RouteClosed
  <2>2. \A d \in Calls :
          pc'[d] = pc[d] \/ (pc[d] = "routed" /\ pc'[d] = "done")
    BY <2>1, ForgetMoves
  <2>3. UNCHANGED <<cgen, token, closed, pending, hooked>>
    BY <1>18 DEF RouteClosed
  <2> QED BY <1>0, <2>2, <2>3
<1>19. ASSUME NEW g \in Gens, NEW c \in Calls, LoopRequest(g, c)
      PROVE  CancelKept' /\ CancelSticks'
  <2>1. pc[c] = "routed"
    BY <1>19, ReceivedRouted DEF LoopRequest
  <2>2. /\ hooked' = hooked /\ closed' = closed /\ token \subseteq token'
        /\ cgen'[c] = g /\ pc'[c] \in {"admit", "register"}
        /\ \A d \in Calls : d # c => pc'[d] = pc[d] /\ cgen'[d] = cgen[d]
    BY <1>19, <1>0 DEF LoopRequest
  <2>3. \A h \in Gens, d \in Calls : d # c /\ d \in pending[h] => d \in pending'[h]
    <3>1. pending' = pending \/ pending' = [pending EXCEPT ![g] = @ \ {c}]
      BY <1>19 DEF LoopRequest
    <3> QED BY <1>0, <3>1
  <2>4. hooked[c] = g => c \in token'
    <3>1. hooked[c] = g => c \in pending[g] \/ g \in closed
      BY <1>a, <2>1
    <3> QED BY <1>19, <3>1 DEF LoopRequest
  <2>5. ASSUME NEW d \in Calls, d # c, hooked[d] # 0
        PROVE  /\ pc'[d] \in {"unsent", "routed"} =>
                    d \in pending'[hooked[d]] \/ hooked[d] \in closed
               /\ pc'[d] \in Active \ {"run"} /\ hooked[d] = cgen'[d] => d \in token'
    BY <1>0, <1>a, <2>2, <2>3, <2>5
  <2>6. CancelKept'
    BY <2>2, <2>4, <2>5
  <2>7. CancelSticks'
    BY <2>2
  <2> QED BY <2>6, <2>7
<1>20. ASSUME NEW g \in Gens, NEW c \in Calls, LoopInsert(g, c)
      PROVE  CancelKept' /\ CancelSticks'
  BY <1>20, <1>0, <1>a DEF LoopInsert, Registering
<1>21. ASSUME NEW g \in Gens, NEW c \in Calls, LoopSpawn(g, c)
      PROVE  CancelKept' /\ CancelSticks'
  BY <1>21, <1>0, <1>a DEF LoopSpawn, Registering
<1>22. ASSUME NEW g \in Gens, NEW c \in Calls, LoopCancel(g, c)
      PROVE  CancelKept' /\ CancelSticks'
  <2>1. /\ pc' = pc /\ cgen' = cgen /\ closed' = closed /\ token \subseteq token'
        /\ loop[g] = "recv"
    BY <1>22 DEF LoopCancel, Receives
  <2>2. \A d \in Calls :
          Hook(g, c)[d] = IF d = c /\ pc[c] \notin {"run", "done"} THEN g ELSE hooked[d]
    BY <1>0 DEF Hook
  <2>3. /\ c \in live[g] => pc[c] \in Active
        /\ pc[c] \in Active /\ cgen[c] = g => c \in token \/ c \in live[g]
    BY <2>1
  <2>4. CASE /\ c \in live[g] /\ token' = token \cup {c} /\ pending' = pending
             /\ hooked' = Hook(g, c)
    BY <1>0, <1>a, <2>1, <2>2, <2>3, <2>4
  <2>5. CASE /\ c \notin live[g] /\ pending' = [pending EXCEPT ![g] = @ \cup {c}]
             /\ hooked' = Hook(g, c)
    <3>1. \A h \in Gens : pending[h] \subseteq pending'[h]
      BY <1>0, <2>5
    <3>2. c \in pending'[g]
      BY <1>0, <2>5
    <3> QED BY <1>0, <1>a, <2>1, <2>2, <2>3, <2>5, <3>1, <3>2
  <2>6. ASSUME NEW e \in pending[g], c \notin live[g],
               pending' = [pending EXCEPT ![g] = (@ \ {e}) \cup {c}],
               hooked' = [Hook(g, c) EXCEPT ![e] = 0]
        PROVE  CancelKept' /\ CancelSticks'
    <3>1. e \in Calls
      BY <1>0
    <3>2. \A h \in Gens, d \in Calls : d # e /\ d \in pending[h] => d \in pending'[h]
      BY <1>0, <2>6
    <3>3. c \in pending'[g]
      BY <1>0, <2>6
    <3>4. \A d \in Calls : hooked'[d] = IF d = e THEN 0 ELSE Hook(g, c)[d]
      BY <1>0, <2>6, <3>1 DEF Hook
    <3> QED BY <1>0, <1>a, <2>1, <2>2, <2>3, <2>6, <3>2, <3>3, <3>4
  <2> QED BY <1>22, <2>4, <2>5, <2>6 DEF LoopCancel
<1>23. ASSUME NEW g \in Gens, LoopExit(g)
      PROVE  CancelKept' /\ CancelSticks'
  BY <1>23, <1>0, <1>a DEF LoopExit, Close
<1>24. ASSUME NEW g \in Gens, LoopTail(g)
      PROVE  CancelKept' /\ CancelSticks'
  BY <1>24, <1>0, <1>a DEF LoopTail, Drain
<1>25. ASSUME NEW g \in Gens, LoopAborted(g)
      PROVE  CancelKept' /\ CancelSticks'
  <2>1. \A d \in Calls :
          pc'[d] = pc[d] \/ (pc[d] = "routed" /\ pc'[d] = "done")
    BY <1>25, DiesMoves DEF LoopAborted
  <2>2. /\ UNCHANGED <<cgen, token, closed, pending, hooked>>
        /\ loop' = [loop EXCEPT ![g] = "dead"]
    BY <1>25 DEF LoopAborted, Dies
  <2> QED BY <1>0, <1>25, <2>1, <2>2 DEF LoopAborted
<1>26. ASSUME NEW g \in Gens, LoopPanics(g)
      PROVE  CancelKept' /\ CancelSticks'
  <2>1. \A d \in Calls :
          pc'[d] = pc[d] \/ (pc[d] = "routed" /\ pc'[d] = "done")
    BY <1>26, DiesMoves DEF LoopPanics
  <2>2. /\ UNCHANGED <<cgen, token, closed, pending, hooked>>
        /\ loop' = [loop EXCEPT ![g] = "dead"]
    BY <1>26 DEF LoopPanics, Dies
  <2> QED BY <1>0, <1>26, <2>1, <2>2 DEF LoopPanics
<1>27. ASSUME NEW c \in Calls, Admit(c)
      PROVE  CancelKept' /\ CancelSticks'
  BY <1>27, <1>0, <1>a DEF Admit
<1>28. ASSUME NEW c \in Calls, Acquire(c)
      PROVE  CancelKept' /\ CancelSticks'
  BY <1>28, <1>0, <1>a DEF Acquire
<1>29. ASSUME NEW c \in Calls, Refuse(c)
      PROVE  CancelKept' /\ CancelSticks'
  BY <1>29, <1>0, <1>a DEF Refuse, End
<1>30. ASSUME NEW c \in Calls, Start(c)
      PROVE  CancelKept' /\ CancelSticks'
  BY <1>30, <1>0, <1>a DEF Start
<1>31. ASSUME NEW c \in Calls, Cancelled(c)
      PROVE  CancelKept' /\ CancelSticks'
  BY <1>31, <1>0, <1>a DEF Cancelled, End
<1>32. ASSUME NEW c \in Calls, Finish(c)
      PROVE  CancelKept' /\ CancelSticks'
  BY <1>32, <1>0, <1>a DEF Finish, End
<1>33. CASE UNCHANGED vars
  BY <1>33, <1>0, <1>a DEF vars
<1> QED
  BY <1>1, <1>2, <1>3, <1>4, <1>5, <1>6, <1>7, <1>8, <1>9, <1>10, <1>11,
     <1>12, <1>13, <1>14, <1>15, <1>16, <1>17, <1>18, <1>19, <1>20, <1>21,
     <1>22, <1>23, <1>24, <1>25, <1>26, <1>27, <1>28, <1>29, <1>30, <1>31,
     <1>32, <1>33
     DEF Next, Binder, Shutdown, Router, Loop, Task

(* A full bind replaces only what is unusable, and its inbox is the one that*)
(* is registered, but for cutoff.                                          *)
LEMMA BindNext ==
    ASSUME TypeOK, LoopsBound, TeardownOrder, BindJustified, RebindOnlyOfDead,
           BindHasInbox, LiveLoopHasInbox, [Next]_vars
    PROVE  BindJustified' /\ RebindOnlyOfDead' /\ BindHasInbox' /\ LiveLoopHasInbox'
<1> USE DEF BindJustified, RebindOnlyOfDead, BindHasInbox, LiveLoopHasInbox,
           LoopsBound, TeardownOrder, Condemned, LoopAlive, RegistryOpen,
           Binding, Unbinding, None,
           maps, regs, calls, binder, stopper, control, marks
<1>0. /\ loop \in [Gens -> {"none", "recv", "insert", "recheck", "tail",
                         "dead"}]
      /\ closed \subseteq Gens /\ aborted \subseteq Gens
      /\ gen \in 0..MaxBinds /\ handle \in 0..MaxBinds
      /\ reg \in 0..MaxBinds /\ bold \in 0..MaxBinds /\ inbox \in 0..MaxBinds
      /\ route \subseteq [to : Gens, frame : Frames]
  BY DEF TypeOK
<1>a. 0 \notin Gens /\ \A x \in 0..MaxBinds : x = 0 \/ x \in Gens
  BY GensOrNone DEF Gens, None
<1>1. CASE BindInbox
  BY <1>1, <1>0, <1>a DEF BindInbox, Track
<1>2. CASE UnbindRegistry
  BY <1>2, <1>0, <1>a DEF UnbindRegistry, Track
<1>3. CASE ShutdownBegin
  BY <1>3, <1>0, <1>a DEF ShutdownBegin
<1>4. CASE BindRegistry
  BY <1>4, <1>0, <1>a DEF BindRegistry
<1>5. CASE BindSpawn
  BY <1>5, <1>0, <1>a DEF BindSpawn, Abort
<1>6. CASE BinderClose
  BY <1>6, <1>0, <1>a DEF BinderClose, Close
<1>7. CASE BinderDrain
  BY <1>7, <1>0, <1>a DEF BinderDrain, Drain
<1>8. CASE Remove
  BY <1>8, <1>0, <1>a DEF Remove, AbortLoop, Abort
<1>9. CASE ShutdownVisit
  BY <1>9, <1>0, <1>a DEF ShutdownVisit, Close
<1>10. CASE ShutdownDrain
  BY <1>10, <1>0, <1>a DEF ShutdownDrain, Drain
<1>11. CASE ShutdownClear
  BY <1>11, <1>0, <1>a DEF ShutdownClear
<1>12. CASE ShutdownAbort
  BY <1>12, <1>0, <1>a DEF ShutdownAbort, AbortLoop, Abort
<1>13. CASE ShutdownRemove
  BY <1>13, <1>0, <1>a DEF ShutdownRemove
<1>14. CASE RunReturns
  BY <1>14, <1>0, <1>a DEF RunReturns, AbortLoop, Abort
<1>15. CASE \E f \in Frames : RouteGet(f)
  BY <1>15, <1>0, <1>a DEF RouteGet
<1>16. CASE RouteSend
  BY <1>16, <1>0, <1>a DEF RouteSend
<1>17. CASE RouteFull
  BY <1>17, <1>0, <1>a DEF RouteFull, Forget
<1>18. CASE RouteClosed
  BY <1>18, <1>0, <1>a DEF RouteClosed, Forget
<1>19. ASSUME NEW g \in Gens, NEW c \in Calls, LoopRequest(g, c)
      PROVE  BindJustified' /\
             RebindOnlyOfDead' /\
             BindHasInbox' /\
             LiveLoopHasInbox'
  BY <1>19, <1>0, <1>a DEF LoopRequest, Receives
<1>20. ASSUME NEW g \in Gens, NEW c \in Calls, LoopInsert(g, c)
      PROVE  BindJustified' /\
             RebindOnlyOfDead' /\
             BindHasInbox' /\
             LiveLoopHasInbox'
  BY <1>20, <1>0, <1>a DEF LoopInsert, Registering
<1>21. ASSUME NEW g \in Gens, NEW c \in Calls, LoopSpawn(g, c)
      PROVE  BindJustified' /\
             RebindOnlyOfDead' /\
             BindHasInbox' /\
             LiveLoopHasInbox'
  BY <1>21, <1>0, <1>a DEF LoopSpawn, Registering
<1>22. ASSUME NEW g \in Gens, NEW c \in Calls, LoopCancel(g, c)
      PROVE  BindJustified' /\
             RebindOnlyOfDead' /\
             BindHasInbox' /\
             LiveLoopHasInbox'
  BY <1>22, <1>0, <1>a DEF LoopCancel, Receives, Hook
<1>23. ASSUME NEW g \in Gens, LoopExit(g)
      PROVE  BindJustified' /\
             RebindOnlyOfDead' /\
             BindHasInbox' /\
             LiveLoopHasInbox'
  BY <1>23, <1>0, <1>a DEF LoopExit, Close
<1>24. ASSUME NEW g \in Gens, LoopTail(g)
      PROVE  BindJustified' /\
             RebindOnlyOfDead' /\
             BindHasInbox' /\
             LiveLoopHasInbox'
  BY <1>24, <1>0, <1>a DEF LoopTail, Drain
<1>25. ASSUME NEW g \in Gens, LoopAborted(g)
      PROVE  BindJustified' /\
             RebindOnlyOfDead' /\
             BindHasInbox' /\
             LiveLoopHasInbox'
  BY <1>25, <1>0, <1>a DEF LoopAborted, Dies
<1>26. ASSUME NEW g \in Gens, LoopPanics(g)
      PROVE  BindJustified' /\
             RebindOnlyOfDead' /\
             BindHasInbox' /\
             LiveLoopHasInbox'
  BY <1>26, <1>0, <1>a DEF LoopPanics, Dies
<1>27. ASSUME NEW c \in Calls, Admit(c)
      PROVE  BindJustified' /\
             RebindOnlyOfDead' /\
             BindHasInbox' /\
             LiveLoopHasInbox'
  BY <1>27, <1>0, <1>a DEF Admit
<1>28. ASSUME NEW c \in Calls, Acquire(c)
      PROVE  BindJustified' /\
             RebindOnlyOfDead' /\
             BindHasInbox' /\
             LiveLoopHasInbox'
  BY <1>28, <1>0, <1>a DEF Acquire
<1>29. ASSUME NEW c \in Calls, Refuse(c)
      PROVE  BindJustified' /\
             RebindOnlyOfDead' /\
             BindHasInbox' /\
             LiveLoopHasInbox'
  BY <1>29, <1>0, <1>a DEF Refuse, End
<1>30. ASSUME NEW c \in Calls, Start(c)
      PROVE  BindJustified' /\
             RebindOnlyOfDead' /\
             BindHasInbox' /\
             LiveLoopHasInbox'
  BY <1>30, <1>0, <1>a DEF Start
<1>31. ASSUME NEW c \in Calls, Cancelled(c)
      PROVE  BindJustified' /\
             RebindOnlyOfDead' /\
             BindHasInbox' /\
             LiveLoopHasInbox'
  BY <1>31, <1>0, <1>a DEF Cancelled, End
<1>32. ASSUME NEW c \in Calls, Finish(c)
      PROVE  BindJustified' /\
             RebindOnlyOfDead' /\
             BindHasInbox' /\
             LiveLoopHasInbox'
  BY <1>32, <1>0, <1>a DEF Finish, End
<1>33. CASE UNCHANGED vars
  BY <1>33, <1>0, <1>a DEF vars
<1> QED
  BY <1>1, <1>2, <1>3, <1>4, <1>5, <1>6, <1>7, <1>8, <1>9, <1>10, <1>11,
     <1>12, <1>13, <1>14, <1>15, <1>16, <1>17, <1>18, <1>19, <1>20, <1>21,
     <1>22, <1>23, <1>24, <1>25, <1>26, <1>27, <1>28, <1>29, <1>30, <1>31,
     <1>32, <1>33
     DEF Next, Binder, Shutdown, Router, Loop, Task

(* The semaphore goes when no uncancelled call is left, or to the loss of  *)
(* generations that become stray.                                          *)
LEMMA SemaphoreNext ==
    ASSUME TypeOK, RequestsRouted, LoopsBound, InRegistry, TeardownOrder,
           DrainedWhenGone, HasSemaphore, SameSemaphore, [Next]_vars
    PROVE  HasSemaphore' /\ SameSemaphore'
<1> USE DEF HasSemaphore, SameSemaphore, LoopsBound, InRegistry,
           TeardownOrder, DrainedWhenGone, Displacing, Installed, OnlyRegistering,
           Registering, Active, Spawned, Binding, Unbinding, None,
           maps, regs, calls, binder, stopper, control, marks
<1>0. /\ pc \in [Calls -> PCs] /\ cgen \in [Calls -> 0..MaxBinds]
      /\ csem \in [Calls -> 0..MaxBinds] /\ live \in [Gens -> SUBSET Calls]
      /\ loop \in [Gens -> {"none", "recv", "insert", "recheck", "tail",
                         "dead"}]
      /\ gen \in 0..MaxBinds /\ closed \subseteq Gens
  BY DEF TypeOK
<1>a. 0 \notin Gens
  BY DEF Gens
<1>1. CASE BindInbox
  BY <1>1, <1>0, <1>a DEF BindInbox, Track
<1>2. CASE UnbindRegistry
  BY <1>2, <1>0, <1>a DEF UnbindRegistry, Track
<1>3. CASE ShutdownBegin
  BY <1>3, <1>0, <1>a DEF ShutdownBegin
<1>4. CASE BindRegistry
  BY <1>4, <1>0, <1>a DEF BindRegistry
<1>5. CASE BindSpawn
  BY <1>5, <1>0, <1>a DEF BindSpawn, Abort
<1>6. CASE BinderClose
  BY <1>6, <1>0, <1>a DEF BinderClose, Close
<1>7. CASE BinderDrain
  BY <1>7, <1>0, <1>a DEF BinderDrain, Drain
<1>8. CASE Remove
  BY <1>8, <1>0, <1>a DEF Remove, AbortLoop, Abort
<1>9. CASE ShutdownVisit
  BY <1>9, <1>0, <1>a DEF ShutdownVisit, Close
<1>10. CASE ShutdownDrain
  BY <1>10, <1>0, <1>a DEF ShutdownDrain, Drain
<1>11. CASE ShutdownClear
  BY <1>11, <1>0, <1>a DEF ShutdownClear
<1>12. CASE ShutdownAbort
  BY <1>12, <1>0, <1>a DEF ShutdownAbort, AbortLoop, Abort
<1>13. CASE ShutdownRemove
  <2>1. UNCHANGED <<pc, cgen, csem, token, closed, loop, gen, bpc, lost>>
    BY <1>13 DEF ShutdownRemove
  <2>2. \/ sem' = sem /\ stray' = stray
        \/ /\ sem' = 0
           /\ stray' = IF sem # 0 THEN stray \cup (1..gen) ELSE stray
    BY <1>13 DEF ShutdownRemove
  <2>3. \A h \in Gens : loop[h] # "none" => h \in 1..gen
    BY <1>0, ToolServerAssumption DEF Gens
  <2>4. bpc \in Binding => gen \in 1..gen
    BY <1>0, ToolServerAssumption DEF Gens
  <2>5. CASE sem' = sem /\ stray' = stray
    BY <2>1, <2>5
  <2>6. CASE sem # 0 /\ stray' = stray \cup (1..gen)
    BY <2>1, <2>3, <2>4, <2>6
  <2> QED BY <2>2, <2>5, <2>6
<1>14. CASE RunReturns
  BY <1>14, <1>0, <1>a DEF RunReturns, AbortLoop, Abort
<1>15. CASE \E f \in Frames : RouteGet(f)
  <2>1. PICK f \in Frames : RouteGet(f)
    BY <1>15
  <2>2. \A d \in Calls :
          pc'[d] = pc[d] \/ (pc[d] = "unsent" /\ pc'[d] = "routed")
    BY <2>1, RouteGetMoves
  <2>3. UNCHANGED <<cgen, csem, token, closed, loop, gen, bpc, sem, stray, lost>>
    BY <2>1 DEF RouteGet
  <2> QED BY <1>0, <2>2, <2>3
<1>16. CASE RouteSend
  BY <1>16, <1>0, <1>a DEF RouteSend
<1>17. CASE RouteFull
  <2>1. PICK r \in route : Forget(r.frame)
    BY <1>17 DEF RouteFull
  <2>2. \A d \in Calls :
          pc'[d] = pc[d] \/ (pc[d] = "routed" /\ pc'[d] = "done")
    BY <2>1, ForgetMoves
  <2>3. UNCHANGED <<cgen, csem, token, closed, loop, gen, bpc, sem, stray, lost>>
    BY <1>17 DEF RouteFull
  <2> QED BY <1>0, <2>2, <2>3
<1>18. CASE RouteClosed
  <2>1. PICK r \in route : Forget(r.frame)
    BY <1>18 DEF RouteClosed
  <2>2. \A d \in Calls :
          pc'[d] = pc[d] \/ (pc[d] = "routed" /\ pc'[d] = "done")
    BY <2>1, ForgetMoves
  <2>3. UNCHANGED <<cgen, csem, token, closed, loop, gen, bpc, sem, stray, lost>>
    BY <1>18 DEF RouteClosed
  <2> QED BY <1>0, <2>2, <2>3
<1>19. ASSUME NEW g \in Gens, NEW c \in Calls, LoopRequest(g, c)
      PROVE  HasSemaphore' /\ SameSemaphore'
  BY <1>19, <1>0, <1>a, ReceivedRouted DEF LoopRequest, Receives
<1>20. ASSUME NEW g \in Gens, NEW c \in Calls, LoopInsert(g, c)
      PROVE  HasSemaphore' /\ SameSemaphore'
  BY <1>20, <1>0, <1>a DEF LoopInsert, Registering
<1>21. ASSUME NEW g \in Gens, NEW c \in Calls, LoopSpawn(g, c)
      PROVE  HasSemaphore' /\ SameSemaphore'
  BY <1>21, <1>0, <1>a DEF LoopSpawn, Registering
<1>22. ASSUME NEW g \in Gens, NEW c \in Calls, LoopCancel(g, c)
      PROVE  HasSemaphore' /\ SameSemaphore'
  BY <1>22, <1>0, <1>a DEF LoopCancel, Receives, Hook
<1>23. ASSUME NEW g \in Gens, LoopExit(g)
      PROVE  HasSemaphore' /\ SameSemaphore'
  BY <1>23, <1>0, <1>a DEF LoopExit, Close
<1>24. ASSUME NEW g \in Gens, LoopTail(g)
      PROVE  HasSemaphore' /\ SameSemaphore'
  <2>1. \A h \in Gens : loop[h] # "none" => h \in 1..gen
    BY <1>0, ToolServerAssumption DEF Gens
  <2>2. bpc \in Binding => gen \in 1..gen /\ gen # g
    BY <1>24, <1>0, ToolServerAssumption DEF LoopTail, Gens
  <2>3. /\ loop[g] = "tail" /\ g \in closed /\ closed' = closed /\ bpc' = bpc
        /\ UNCHANGED <<gen, pc, cgen, csem, lost>>
        /\ sem' = 0 /\ token' = token \cup live[g]
        /\ stray' = IF sem # 0 THEN stray \cup ((1..gen) \ {g}) ELSE stray
        /\ loop' = [loop EXCEPT ![g] = "dead"]
    BY <1>24 DEF LoopTail, Drain
  <2>4. CASE sem = 0
    BY <1>0, <2>3, <2>4
  <2>5. CASE sem # 0
    <3>1. HasSemaphore'
      BY <1>0, <2>1, <2>2, <2>3, <2>5
    <3>2. ASSUME NEW c \in Calls, pc[c] \in Spawned, c \notin token'
          PROVE  cgen[c] \in stray'
      <4>1. cgen[c] \in Gens /\ cgen[c] \in 1..gen /\ c \in live[cgen[c]]
        BY <2>1, <2>3, <3>2
      <4>2. cgen[c] # g
        BY <2>3, <3>2, <4>1
      <4> QED BY <2>3, <2>5, <4>1, <4>2
    <3> QED BY <2>3, <3>1, <3>2
  <2> QED BY <2>4, <2>5
<1>25. ASSUME NEW g \in Gens, LoopAborted(g)
      PROVE  HasSemaphore' /\ SameSemaphore'
  <2>1. \A d \in Calls :
          pc'[d] = pc[d] \/ (pc[d] = "routed" /\ pc'[d] = "done")
    BY <1>25, DiesMoves DEF LoopAborted
  <2>2. /\ UNCHANGED <<cgen, csem, token, closed, gen, bpc, sem, stray, lost>>
        /\ loop' = [loop EXCEPT ![g] = "dead"]
    BY <1>25 DEF LoopAborted, Dies
  <2> QED BY <1>0, <1>25, <2>1, <2>2 DEF LoopAborted
<1>26. ASSUME NEW g \in Gens, LoopPanics(g)
      PROVE  HasSemaphore' /\ SameSemaphore'
  <2>1. \A d \in Calls :
          pc'[d] = pc[d] \/ (pc[d] = "routed" /\ pc'[d] = "done")
    BY <1>26, DiesMoves DEF LoopPanics
  <2>2. /\ UNCHANGED <<cgen, csem, token, closed, gen, bpc, sem, stray, lost>>
        /\ loop' = [loop EXCEPT ![g] = "dead"]
    BY <1>26 DEF LoopPanics, Dies
  <2> QED BY <1>0, <1>26, <2>1, <2>2 DEF LoopPanics
<1>27. ASSUME NEW c \in Calls, Admit(c)
      PROVE  HasSemaphore' /\ SameSemaphore'
  BY <1>27, <1>0, <1>a DEF Admit
<1>28. ASSUME NEW c \in Calls, Acquire(c)
      PROVE  HasSemaphore' /\ SameSemaphore'
  BY <1>28, <1>0, <1>a DEF Acquire
<1>29. ASSUME NEW c \in Calls, Refuse(c)
      PROVE  HasSemaphore' /\ SameSemaphore'
  BY <1>29, <1>0, <1>a DEF Refuse, End
<1>30. ASSUME NEW c \in Calls, Start(c)
      PROVE  HasSemaphore' /\ SameSemaphore'
  BY <1>30, <1>0, <1>a DEF Start
<1>31. ASSUME NEW c \in Calls, Cancelled(c)
      PROVE  HasSemaphore' /\ SameSemaphore'
  BY <1>31, <1>0, <1>a DEF Cancelled, End
<1>32. ASSUME NEW c \in Calls, Finish(c)
      PROVE  HasSemaphore' /\ SameSemaphore'
  BY <1>32, <1>0, <1>a DEF Finish, End
<1>33. CASE UNCHANGED vars
  BY <1>33, <1>0, <1>a DEF vars
<1> QED
  BY <1>1, <1>2, <1>3, <1>4, <1>5, <1>6, <1>7, <1>8, <1>9, <1>10, <1>11,
     <1>12, <1>13, <1>14, <1>15, <1>16, <1>17, <1>18, <1>19, <1>20, <1>21,
     <1>22, <1>23, <1>24, <1>25, <1>26, <1>27, <1>28, <1>29, <1>30, <1>31,
     <1>32, <1>33
     DEF Next, Binder, Shutdown, Router, Loop, Task

\* How many hold a permit of semaphore x grows only while one is free.
HoldersStep(x) ==
    \/ Holders(x)' \subseteq Holders(x)
    \/ \E c \in Calls : /\ Holders(x)' = Holders(x) \cup {c}
                       /\ Cardinality(Holders(x)) < SessionMax

(* A permit is taken by Acquire only, and only a free one.                 *)
LEMMA HoldersNext ==
    ASSUME TypeOK, RequestsRouted, [Next]_vars
    PROVE  \A x \in Gens : HoldersStep(x)
<1> USE DEF HoldersStep, Holders, None,
           maps, regs, calls, binder, stopper, control, marks
<1>0. pc \in [Calls -> PCs] /\ csem \in [Calls -> 0..MaxBinds]
  BY DEF TypeOK
<1>a. 0 \notin Gens
  BY DEF Gens
<1>1. CASE BindInbox
  BY <1>1, <1>0, <1>a DEF BindInbox, Track
<1>2. CASE UnbindRegistry
  BY <1>2, <1>0, <1>a DEF UnbindRegistry, Track
<1>3. CASE ShutdownBegin
  BY <1>3, <1>0, <1>a DEF ShutdownBegin
<1>4. CASE BindRegistry
  BY <1>4, <1>0, <1>a DEF BindRegistry
<1>5. CASE BindSpawn
  BY <1>5, <1>0, <1>a DEF BindSpawn, Abort
<1>6. CASE BinderClose
  BY <1>6, <1>0, <1>a DEF BinderClose, Close
<1>7. CASE BinderDrain
  BY <1>7, <1>0, <1>a DEF BinderDrain, Drain
<1>8. CASE Remove
  BY <1>8, <1>0, <1>a DEF Remove, AbortLoop, Abort
<1>9. CASE ShutdownVisit
  BY <1>9, <1>0, <1>a DEF ShutdownVisit, Close
<1>10. CASE ShutdownDrain
  BY <1>10, <1>0, <1>a DEF ShutdownDrain, Drain
<1>11. CASE ShutdownClear
  BY <1>11, <1>0, <1>a DEF ShutdownClear
<1>12. CASE ShutdownAbort
  BY <1>12, <1>0, <1>a DEF ShutdownAbort, AbortLoop, Abort
<1>13. CASE ShutdownRemove
  BY <1>13, <1>0, <1>a DEF ShutdownRemove
<1>14. CASE RunReturns
  BY <1>14, <1>0, <1>a DEF RunReturns, AbortLoop, Abort
<1>15. CASE \E f \in Frames : RouteGet(f)
  <2>1. PICK f \in Frames : RouteGet(f)
    BY <1>15
  <2>2. \A d \in Calls :
          pc'[d] = pc[d] \/ (pc[d] = "unsent" /\ pc'[d] = "routed")
    BY <2>1, RouteGetMoves
  <2>3. UNCHANGED <<csem>>
    BY <2>1 DEF RouteGet
  <2> QED BY <1>0, <2>2, <2>3
<1>16. CASE RouteSend
  BY <1>16, <1>0, <1>a DEF RouteSend
<1>17. CASE RouteFull
  <2>1. PICK r \in route : Forget(r.frame)
    BY <1>17 DEF RouteFull
  <2>2. \A d \in Calls :
          pc'[d] = pc[d] \/ (pc[d] = "routed" /\ pc'[d] = "done")
    BY <2>1, ForgetMoves
  <2>3. UNCHANGED <<csem>>
    BY <1>17 DEF RouteFull
  <2> QED BY <1>0, <2>2, <2>3
<1>18. CASE RouteClosed
  <2>1. PICK r \in route : Forget(r.frame)
    BY <1>18 DEF RouteClosed
  <2>2. \A d \in Calls :
          pc'[d] = pc[d] \/ (pc[d] = "routed" /\ pc'[d] = "done")
    BY <2>1, ForgetMoves
  <2>3. UNCHANGED <<csem>>
    BY <1>18 DEF RouteClosed
  <2> QED BY <1>0, <2>2, <2>3
<1>19. ASSUME NEW g \in Gens, NEW c \in Calls, LoopRequest(g, c)
      PROVE  \A x \in Gens : HoldersStep(x)
  BY <1>19, <1>0, <1>a, ReceivedRouted DEF LoopRequest, Receives
<1>20. ASSUME NEW g \in Gens, NEW c \in Calls, LoopInsert(g, c)
      PROVE  \A x \in Gens : HoldersStep(x)
  BY <1>20, <1>0, <1>a DEF LoopInsert, Registering
<1>21. ASSUME NEW g \in Gens, NEW c \in Calls, LoopSpawn(g, c)
      PROVE  \A x \in Gens : HoldersStep(x)
  BY <1>21, <1>0, <1>a DEF LoopSpawn, Registering
<1>22. ASSUME NEW g \in Gens, NEW c \in Calls, LoopCancel(g, c)
      PROVE  \A x \in Gens : HoldersStep(x)
  BY <1>22, <1>0, <1>a DEF LoopCancel, Receives, Hook
<1>23. ASSUME NEW g \in Gens, LoopExit(g)
      PROVE  \A x \in Gens : HoldersStep(x)
  BY <1>23, <1>0, <1>a DEF LoopExit, Close
<1>24. ASSUME NEW g \in Gens, LoopTail(g)
      PROVE  \A x \in Gens : HoldersStep(x)
  BY <1>24, <1>0, <1>a DEF LoopTail, Drain
<1>25. ASSUME NEW g \in Gens, LoopAborted(g)
      PROVE  \A x \in Gens : HoldersStep(x)
  <2>1. \A d \in Calls :
          pc'[d] = pc[d] \/ (pc[d] = "routed" /\ pc'[d] = "done")
    BY <1>25, DiesMoves DEF LoopAborted
  <2>2. /\ UNCHANGED <<csem>>
        /\ loop' = [loop EXCEPT ![g] = "dead"]
    BY <1>25 DEF LoopAborted, Dies
  <2> QED BY <1>0, <1>25, <2>1, <2>2 DEF LoopAborted
<1>26. ASSUME NEW g \in Gens, LoopPanics(g)
      PROVE  \A x \in Gens : HoldersStep(x)
  <2>1. \A d \in Calls :
          pc'[d] = pc[d] \/ (pc[d] = "routed" /\ pc'[d] = "done")
    BY <1>26, DiesMoves DEF LoopPanics
  <2>2. /\ UNCHANGED <<csem>>
        /\ loop' = [loop EXCEPT ![g] = "dead"]
    BY <1>26 DEF LoopPanics, Dies
  <2> QED BY <1>0, <1>26, <2>1, <2>2 DEF LoopPanics
<1>27. ASSUME NEW c \in Calls, Admit(c)
      PROVE  \A x \in Gens : HoldersStep(x)
  BY <1>27, <1>0, <1>a DEF Admit
<1>28. ASSUME NEW c \in Calls, Acquire(c)
      PROVE  \A x \in Gens : HoldersStep(x)
  <2>1. pc' = [pc EXCEPT ![c] = "shared"] /\ csem' = csem
    BY <1>28 DEF Acquire
  <2>2. ASSUME NEW x \in Gens
        PROVE  HoldersStep(x)
    <3>1. CASE csem[c] = x
      <4>1. Holders(x)' = Holders(x) \cup {c}
        BY <1>0, <2>1, <3>1
      <4>2. Cardinality(Holders(x)) < SessionMax
        BY <1>28, <1>a, <3>1 DEF Acquire, Free
      <4> QED BY <4>1, <4>2
    <3>2. CASE csem[c] # x
      BY <1>0, <2>1, <3>2
    <3> QED BY <3>1, <3>2
  <2> QED BY <2>2
<1>29. ASSUME NEW c \in Calls, Refuse(c)
      PROVE  \A x \in Gens : HoldersStep(x)
  BY <1>29, <1>0, <1>a DEF Refuse, End
<1>30. ASSUME NEW c \in Calls, Start(c)
      PROVE  \A x \in Gens : HoldersStep(x)
  BY <1>30, <1>0, <1>a DEF Start
<1>31. ASSUME NEW c \in Calls, Cancelled(c)
      PROVE  \A x \in Gens : HoldersStep(x)
  BY <1>31, <1>0, <1>a DEF Cancelled, End
<1>32. ASSUME NEW c \in Calls, Finish(c)
      PROVE  \A x \in Gens : HoldersStep(x)
  BY <1>32, <1>0, <1>a DEF Finish, End
<1>33. CASE UNCHANGED vars
  BY <1>33, <1>0, <1>a DEF vars
<1> QED
  BY <1>1, <1>2, <1>3, <1>4, <1>5, <1>6, <1>7, <1>8, <1>9, <1>10, <1>11,
     <1>12, <1>13, <1>14, <1>15, <1>16, <1>17, <1>18, <1>19, <1>20, <1>21,
     <1>22, <1>23, <1>24, <1>25, <1>26, <1>27, <1>28, <1>29, <1>30, <1>31,
     <1>32, <1>33
     DEF Next, Binder, Shutdown, Router, Loop, Task

(* No semaphore gives out more permits than it has.                         *)
LEMMA PermitsNext ==
    ASSUME PermitsBounded, \A x \in Gens : HoldersStep(x)
    PROVE  PermitsBounded'
<1> SUFFICES ASSUME NEW x \in Gens
             PROVE  Cardinality(Holders(x)') <= SessionMax
  BY DEF PermitsBounded
<1>1. IsFiniteSet(Calls)
  BY ToolServerAssumption, FS_Interval DEF Calls
<1>2. IsFiniteSet(Holders(x)) /\ Cardinality(Holders(x)) \in Nat
  BY <1>1, FS_Subset, FS_CardinalityType DEF Holders
<1>3. Cardinality(Holders(x)) <= SessionMax /\ SessionMax \in Nat
  BY ToolServerAssumption DEF PermitsBounded
<1>4. CASE Holders(x)' \subseteq Holders(x)
  <2>1. Cardinality(Holders(x)') \in Nat
    BY <1>2, <1>4, FS_Subset, FS_CardinalityType
  <2> QED BY <1>2, <1>3, <1>4, <2>1, FS_Subset
<1>5. ASSUME NEW c \in Calls, Holders(x)' = Holders(x) \cup {c},
             Cardinality(Holders(x)) < SessionMax
      PROVE  Cardinality(Holders(x)') <= SessionMax
  <2>1. Cardinality(Holders(x) \cup {c}) =
          IF c \in Holders(x) THEN Cardinality(Holders(x))
                            ELSE Cardinality(Holders(x)) + 1
    BY <1>2, FS_AddElement
  <2> QED BY <1>2, <1>3, <1>5, <2>1
<1> QED BY <1>4, <1>5 DEF HoldersStep

(* Every step preserves the inductive invariant.                           *)
LEMMA Inductive == IInv /\ [Next]_vars => IInv'
<1> SUFFICES ASSUME IInv, [Next]_vars
             PROVE  IInv'
  OBVIOUS
<1>1. TypeOK' /\ HasOld'
  BY TypeNext DEF IInv
<1>2. RequestsRouted' /\ RequestOnce'
  BY FramesNext DEF IInv
<1>3. LoopsBound'
  BY LoopsNext DEF IInv
<1>4. OneRegistering' /\ InRegistry'
  BY RegistryNext DEF IInv
<1>5. AfterInstall' /\ TeardownOrder' /\ DrainedWhenGone'
  BY TeardownNext DEF IInv
<1>6. CancelKept' /\ CancelSticks'
  BY CancelNext DEF IInv
<1>7. BindJustified' /\ RebindOnlyOfDead' /\ BindHasInbox' /\ LiveLoopHasInbox'
  BY BindNext DEF IInv
<1>8. HasSemaphore' /\ SameSemaphore'
  BY SemaphoreNext DEF IInv
<1>9. PermitsBounded'
  BY HoldersNext, PermitsNext DEF IInv
<1> QED
  BY <1>1, <1>2, <1>3, <1>4, <1>5, <1>6, <1>7, <1>8, <1>9 DEF IInv

(* Nothing is bound at first.                                              *)
LEMMA Initially == Init => IInv
<1> SUFFICES ASSUME Init
             PROVE  IInv
  OBVIOUS
<1>1. TypeOK
  <2>1. 0 \in 0..MaxBinds
    BY GensOrNone DEF None
  <2>2. queue \in [Gens -> Seq(Frames)]
    BY DEF Init
  <2> QED BY <2>1, <2>2 DEF Init, TypeOK, PCs, None
<1>2. HasOld /\ RequestsRouted /\ RequestOnce /\ LoopsBound
  BY DEF Init, HasOld, RequestsRouted, RequestOnce, LoopsBound, Binding, Active,
         Spawned
<1>3. OneRegistering /\ InRegistry
  BY DEF Init, OneRegistering, InRegistry, Spawned
<1>a. AfterInstall /\ TeardownOrder /\ DrainedWhenGone
  <2>1. 0 \notin Gens
    BY DEF Gens
  <2> QED BY <2>1 DEF Init, AfterInstall, TeardownOrder, DrainedWhenGone,
                      Installed, Displacing, Unbinding, None
<1>4. CancelKept /\ CancelSticks
  BY DEF Init, CancelKept, CancelSticks, Active, Spawned
<1>5. BindJustified /\ RebindOnlyOfDead /\ BindHasInbox /\ LiveLoopHasInbox
  BY DEF Init, BindJustified, RebindOnlyOfDead, BindHasInbox, LiveLoopHasInbox,
         Condemned, LoopAlive, Binding, None
<1>6. HasSemaphore /\ SameSemaphore
  BY DEF Init, HasSemaphore, SameSemaphore, Binding, Spawned
<1>7. PermitsBounded
  <2>1. \A x \in Gens : Holders(x) = {}
    BY DEF Init, Holders
  <2> QED BY <2>1, FS_EmptySet, ToolServerAssumption DEF PermitsBounded
<1> QED
  BY <1>1, <1>2, <1>3, <1>a, <1>4, <1>5, <1>6, <1>7 DEF IInv

(* The parts hold together in every state. *)
LEMMA Invariance == Spec => []IInv
BY Initially, Inductive, PTL DEF Spec

-----------------------------------------------------------------------------
(* The theorems. *)

(* The variables of the binder, the router, the loops, the registries and  *)
(* the call tasks keep their types.                                        *)
THEOREM TypeCorrect == Spec => []TypeOK
<1>1. IInv => TypeOK
  BY DEF IInv
<1> QED BY <1>1, Invariance, PTL

(* However binds, unbinds, the shutdown, the ends of loops and the         *)
(* dispatch of calls interleave, a call that goes on uncancelled has its   *)
(* token in the registry that a teardown will look at, or is looking at,   *)
(* but for the calls of a registry that a bind inserted while the shutdown *)
(* was between its cancel_all and the clearing of the map.                 *)
THEOREM NoCallOrphaned == Spec => []NoOrphan
<1>1. ASSUME IInv, NEW c \in Calls, pc[c] \in Spawned, c \notin token
      PROVE  /\ c \in live[cgen[c]]
             /\ \/ reg = cgen[c] \/ Cancelling(cgen[c])
                \/ cgen[c] \in lost \ closed
  <2>1. c \in live[cgen[c]]
    BY <1>1 DEF IInv, InRegistry
  <2>2. cgen[c] \in Gens /\ loop[cgen[c]] # "none"
    BY <1>1 DEF IInv, LoopsBound, Active
  <2>3. ~OnlyRegistering(cgen[c])
    BY <1>1, <2>1 DEF OnlyRegistering, Registering, Spawned
  <2>4. \/ reg = cgen[c] \/ Displacing(cgen[c])
        \/ cgen[c] \in lost /\ (cgen[c] \notin closed \/ loop[cgen[c]] = "tail")
    BY <1>1, <2>2, <2>3 DEF IInv, DrainedWhenGone, Installed
  <2> QED BY <2>1, <2>4 DEF Displacing, Cancelling
<1>2. IInv => NoOrphan
  BY <1>1 DEF NoOrphan
<1> QED BY <1>2, Invariance, PTL

(* A Cancel that a loop applies before the handler of its call has started *)
(* keeps the handler from starting, even when it came before the call.     *)
THEOREM EarlyCancelSticks == Spec => []CancelSticks
<1>1. IInv => CancelSticks
  BY DEF IInv
<1> QED BY <1>1, Invariance, PTL

(* The uncancelled calls that a session runs, through all its generations, *)
(* are no more than the permits of its semaphore, but for those of a       *)
(* generation that lost its semaphore to somebody else, or its registry to *)
(* the shutdown.                                                           *)
THEOREM SessionLimited == Spec => []SessionBounded
<1>1. ASSUME IInv
      PROVE  SessionBounded
  <2> DEFINE running == {c \in Calls : pc[c] = "run" /\ c \notin token}
  <2> SUFFICES ASSUME \A c \in running : cgen[c] \notin stray \cup lost
               PROVE  Cardinality(running) <= SessionMax
    BY DEF SessionBounded
  <2>1. \A c \in running : sem # None /\ csem[c] = sem
    BY <1>1 DEF IInv, SameSemaphore, Spawned
  <2>2. CASE running = {}
    <3>1. Cardinality(running) = 0
      BY <2>2, FS_EmptySet
    <3> QED BY <3>1, ToolServerAssumption
  <2>3. CASE running # {}
    <3>1. sem \in Gens
      BY <1>1, <2>1, <2>3, GensOrNone DEF IInv, TypeOK
    <3>2. running \subseteq Holders(sem)
      BY <2>1 DEF Holders
    <3>3. IsFiniteSet(Holders(sem))
      <4>1. IsFiniteSet(Calls)
        BY ToolServerAssumption, FS_Interval DEF Calls
      <4> QED BY <4>1, FS_Subset DEF Holders
    <3>4. /\ Cardinality(running) <= Cardinality(Holders(sem))
          /\ Cardinality(running) \in Nat /\ Cardinality(Holders(sem)) \in Nat
      BY <3>2, <3>3, FS_Subset, FS_CardinalityType
    <3>5. Cardinality(Holders(sem)) <= SessionMax /\ SessionMax \in Nat
      BY <1>1, <3>1, ToolServerAssumption DEF IInv, PermitsBounded
    <3> HIDE DEF running
    <3> QED BY <3>4, <3>5
  <2> QED BY <2>2, <2>3
<1>2. IInv => SessionBounded
  BY <1>1
<1> QED BY <1>2, Invariance, PTL

(* A full bind cancels only a registry that is closed, or whose loop is    *)
(* dead or told to end: a redundant bind leaves a healthy session alone.   *)
THEOREM HealthyNotRebound == Spec => []RebindOnlyOfDead
<1>1. IInv => RebindOnlyOfDead
  BY DEF IInv
<1> QED BY <1>1, Invariance, PTL

(* A live loop in the slot of its session has the inbox that the router    *)
(* fills, but for cutoff.                                                  *)
THEOREM LoopReachable == Spec => []LiveLoopHasInbox
<1>1. IInv => LiveLoopHasInbox
  BY DEF IInv
<1> QED BY <1>1, Invariance, PTL

=============================================================================
