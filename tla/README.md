# A TLA+ verification of oh-my-grok-build

`oh-my-grok-build` (`omgb`) is a command-line harness around Grok Build. Its own
code is the crate `crates/oh-my-grok-build`; the rest of the repository, more
than a million lines, is the upstream it links against. What makes `omgb` hard to
test is that it has no server process in the middle: commands, a scheduler
daemon, chat REPLs and the HTTP handlers of `omgb serve` are separate processes
that meet in files under `~/.omgb`, with advisory locks, signals and
read-modify-write cycles between them. Of upstream, the project takes on the part
whose concurrency is hardest: the client SDK of the computer hub
(`crates/common/xai-computer-hub-sdk`), where callers, a writer task, a reader
actor, session loops and call tasks share maps and channels while sockets die
and sessions are torn down. This project models those meetings, checks them with
TLC on small instances, and proves the most important properties with TLAPS for
instances of any size.

Paths below are relative to `crates/oh-my-grok-build/src`, those marked *hub* to
`crates/common/xai-computer-hub-sdk/src`.

## Inventory

| Part | State it keeps | Operations | Hard behaviour |
|------|----------------|------------|----------------|
| locked JSON files (`scheduler.rs`, `group.rs`, `threads.rs`, `providers.rs`) | a JSON file, its lock file | `with_jobs`, `modify_group`, `with_records_mut`, `write_file_atomic` | lost updates, deaths between steps, locks that stay held |
| scheduler (`scheduler.rs`) | `schedule.jsonl`, `scheduler.pid`, running jobs | add, delete, set-expiry, cleanup, run, start, stop, the daemon loop | two daemons, lost signals, unlinked PID files, polls that are stale when used |
| group membership (`group.rs`, `server.rs`) | the group file: members and tokens, remote agents, pending joins, approvals | join and approve (HTTP and local), join-status, add and remove remote agents | decisions on copies read without the lock, concurrent polls, lost replies |
| group dispatch (`group.rs`, `server.rs`) | `messages.jsonl`, the dispatch lock, `seen` of each REPL | send, post, chat, `dispatch_turn` | many processes notice one message, turns last minutes, deaths in the middle of a turn, reply loops |
| hub connection (*hub* `connection.rs`, `demux.rs`, `harness.rs`) | parked response waiters, the outbound queue, the writer's control channel, the current socket | `call_request`, `serve`, tool calls, `force_reconnect`, `request_shutdown`, the writer and reader tasks | waiters taken by four parties, frames on sockets that are dead, a drain that races new calls, two tasks that wait for each other |
| tool server calls (*hub* `server.rs`, `cancel.rs`, `admission.rs`, `demux.rs`) | inbox, semaphore, cancellation registry and loop of a session; tokens and permits of its calls | bind, unbind, shutdown, routing, the session loop, Cancel hooks, `execute_call` | teardown that races the dispatch of a call, a Cancel before its call, entries of a new generation removed by the old one |
| relay server (`server.rs`) | rate limiter, WebSocket proxies | `ws_handler`, `handle_proxy`, `check_rate_limit` | two directions of a proxy that end at different times |
| threads (`threads.rs`) | thread records | create, prompt, send, archive | read, run for minutes, write |
| subagents (`subagents.rs`) | records, logs, child processes | spawn, list, kill | a limit checked before the record is written, reused pids |
| workflows (`workflow.rs`), swarm, meta, moe | workflow files | run, fan out, vote | partial failure of one branch |
| stores: playbook, memory, skills, taste, timeline | files of text | add, list, remove | unlocked edits |
| the rest: providers, net, pr, research, lsp, doctor, marketplace, harness, hashline, approvals, prompt guard | configuration | external calls and pure checks | none that a model checker reaches better than a test, except hashline |

How they interact: the scheduler daemon and `schedule run` start `omgb exec`
children; `omgb serve` calls the group functions of `group.rs` from its HTTP
handlers; chats and one-shot commands share the group's log and compete for its
dispatch lock; every one of them goes through the locked-file protocol. In the
hub SDK the connection's reader calls the demux, which answers parked callers and
fills the inboxes of the sessions; a tool server's answers go out through the
connection's outbound queue.
`PROJECT.json` lists every part, modelled or not, and each hazard at its line.

## Modules

| Module | What it is |
|--------|------------|
| `AtomicFile` | abstract specification: every operation on the file takes effect at once, or fails |
| `LockedFile` | the lock, load, edit, write, rename, unlock protocol; implements `AtomicFile` |
| `Scheduler` | daemons, stop commands, clients, the job file, the PID file |
| `GroupMembership` | joins, approvals, status polls, remote agents of one group |
| `GroupDispatch` | the message log of one group and the turns that answer it |
| `RequestReply` | abstract specification: a request is transmitted at most once, answered only after that, settled once |
| `HubConnection` | callers, writer task and reader actor of one hub connection; implements `RequestReply` |
| `ToolServer` | the calls of one session of a tool server, through its binds and teardowns |
| `MC*` | the same modules instantiated for TLC |
| `*Proofs` | theorems and their proofs, one module per component |

`LockedFile` is what entitles the other modules to treat an access to the job
file or the group file under its lock as one step. What the code does *without*
a lock is never one step: the PID file is opened, locked, written, read,
signalled and unlinked by separate actions, and an HTTP handler that reads the
group and later modifies it has an action for each.

### LockedFile

`pc[p]` follows one call of `with_jobs` (or its siblings) by process `p`; `buf[p]`
is its copy in memory; `file` is what the path names; `lock` is the advisory
lock. `Load`, `WriteTemporary` and `Rename` may fail, `Edit` fails where the
closure bails, `Release` is the drop of the lock file's handle on either way out,
and `Die` is a death anywhere, which frees the lock. The temporary is private to
the process (its name has the pid and a UUID), so it is not a variable. The
operations are arbitrary partial functions on the contents: the theorems hold
for every closure.

### Scheduler

An inode of the PID file is named after the daemon that created it; `path` is
the inode the path names, `holder` the lock of each inode, `pidOf` what is
written in it. `dpc[d]` walks through `PidFile::acquire` and the loop: `sleep`
(the `select!`), `poll`, `purge`, `run`. `due[d]` are the tasks of the `JoinSet`
that have not looked their job up again. A run goes from `recorded` (`last_run`
saved) to `child` and ends; a child whose supervisor dies is an `orphan`, because
it has a session of its own. `schedule stop` is `StopRead`, `StopSignal`,
`StopUnlink`; the `kill` it spawns delivers later (`DeliverTerm`), to a process
without a handler yet (which ends), to the listener of a sleeping daemon, or to
nobody. The branch of `stop_daemon` for a process that is not alive removes the
file as well, which is `StopSignal` without a kill followed by `StopUnlink`.

Time is a counter that may advance at any moment. An expression is an interval
(next due a period after the last run) or a cron expression (next multiple of
its period), which is what `is_due` distinguishes; the cron grammar is left to
its crate. `lastAuto` is a history variable.

### GroupMembership

A member has one token for ever (`issue_member_token` returns the one it has),
so a name stands for its token, and a request's id stands for its pre-auth
token. `JoinSnapshot` and `StatusSnapshot` are the handlers' reads without the
lock; `JoinAuto`, `JoinRequest` and `StatusConsume` are the closures that follow.
`requester` is what the one who made a request has by now. The constants
`LocalApproval` and `RepliesLost` say whether members also approve with the local
command, and whether replies of status calls get lost.

Abstractions: each requester works on a machine of its own, so the unlocked
client-side stores (`save_membership`, `save_pending_join`) see one writer; every
pending request has a pre-auth token (those of files written by older versions
may not); names that differ in case only are one name; heartbeats are dropped.

### GroupDispatch

A message is known by its place in `log`. `re`, `via` and `by` are history: the
trigger a reply was dispatched for, the message whose mention it answers, the
process that dispatched. A *one-shot* is `omgb group send`, or one of the two
posting handlers followed by `dispatch_for_message`; a *chat* is the REPL.
`seen[p]`, `messages[p]`, `preMainSeen[p]` are the variables of those names in
the code. What a model call returns is free: which agents the routing picks,
whether each replies, whom it mentions.

Abstractions: the log only grows (cutting a 10 MB log, the window of 1000 loaded
messages and `HISTORY_LIMIT` are left out); the agents of the group are those of
the snapshot the process dispatches with; a routing answer that spells one
agent's name in two ways counts once; `MAX_GROUP_MESSAGE_BYTES` and the
formatting of prompts are left out.

### HubConnection

`call[c]` and `slot[c]` are a caller and its oneshot, `waiters` is
`Demux::waiters`. `Requests` are `call_request`s and tool calls, without a
deadline of their own; `ServeAttempts` are the attempts of one `serve`, each
with one. Sockets are numbered; `on[c]` is the socket that took the frame of
call `c`. The writer's `select!` is two steps, `WriterPoll` (stop and control
are empty) and `WriterTake`: the arms of a biased `select!` are polled in order,
not at once. `drain_waiters_with` is a snapshot of the keys and one step per key.
`Disconnect` stands for everything that ends `run_reader_phase` but a stop and a
terminal close; a forced reconnect gives up a socket that may be alive.
`DrainDone` goes where `next` says: to the backoff after a disconnect, to a second
drain after a terminal close or an authentication failure (the code drains there
and again after its loop), to the stop of the writer after the last one.

Abstractions: time (a timeout may happen whenever what it waits for has not); a
reconnect attempt that fails in transport changes nothing; progress channels,
session replay and the frames of the server side (pongs, answers, hooks), which
have no waiter; whether a dropped `RemoteCallStream` also emits a Cancel is the
tool server's matter.

A caller may drop its call at any await. `Abandon` is where something takes the
waiter out again: the `WaiterGuard` of a `call_request`, or the
`RemoteCallStream` that a tool call has once its frame is queued. Before that,
`dispatch_remote` awaits `send_outbound` with its waiter parked and no guard
(`harness.rs:1961-1970`; the clean-up there is for an error of the send): a
future dropped in this window leaves the waiter, and the call's progress entry,
in the maps until a drain or the short-circuit of the session takes it. This is
`DropUnsent` and the state `dropped`; `WaiterIffUnresolved` and
`ParkedOnLiveSocket` name it as the one waiter that nobody waits for.

Two history variables name the exceptions that the code has: `raced`, frames that
the writer took although a Pause was queued, and `late`, calls parked after the
actor's last drain took its keys. A `late` call that gets its frame into the queue
before the writer is gone is never answered and never failed: `call_request` then
waits for ever. `CallsEnd` holds for all others.

`RequestReply` is what a caller and the hub see of this. A call is idle, open,
settled by an answer or an error, or over; its frame is unsent (with its caller,
in the queue or in the writer's hand), on the wire, or gone. The frame of a call
that has returned may still go out, and its answer is then dropped. A frame on a
dead socket stays on the wire for ever: the code does not send it again, because
the hub may have got it.

### ToolServer

A full bind is numbered by `gen`; `inbox`, `sem`, `reg` and `handle` say which
generation's entry is in `Demux::sessions`, `session_sems`, `cancels` and
`session_handles`. A bind is `BindInbox`, `BindRegistry`, then `cancel_all` on the
registry it replaced (`BinderClose`, `BinderDrain`), then `BindSpawn`; an unbind
is `UnbindRegistry`, its registry's `cancel_all` and `Remove`. Binds and unbinds
exclude each other (`session_bind_mu`). `teardown_sessions`, which does not take
that lock, is a process of its own that runs once beside them: the snapshot of
`active_sessions` (`ShutdownBegin`; `known` says whether the session is in it),
`cancel_all` on the registry that its loop finds (`ShutdownVisit`,
`ShutdownDrain`), `cancels.clear()` (`ShutdownClear`), the abort of the loops
(`ShutdownAbort`) and the removal of the inbox and the semaphore of a session in
the snapshot (`ShutdownRemove`). `RunReturns` is the end of `run()`, which aborts
the loops and leaves their registries. `register` is three
steps (`LoopRequest`, `LoopInsert`, `LoopSpawn`) because `cancel_all` runs beside
it. The router's clone of a sender and its `try_send` are two steps. A loop ends
by itself when its inbox has no sender left (`LoopExit`, `LoopTail`), is aborted
where it awaits (`LoopAborted`), or is killed by a hook handler that panics
(`LoopPanics`): the last two skip the tail. A call goes `admit` (which semaphore?),
`session` (waits for its permit), `shared` (waits for the connection's and the
process's), `run`.

Abstractions: a soft rebind and a failed resolver change nothing here; other
sessions take permits of the connection and of the process, so whether those are
free is open; the Cancel of a call is sent at most once; the eviction of a
tombstone takes any. The loop over `cancels` in `teardown_sessions` holds the lock
of the map's shard while it is at an entry; the model lets a bind replace the entry
there, which only adds interleavings.

`lost` names what a shutdown beside a bind does: a registry that the bind inserts
after the loop over `cancels` and before `cancels.clear()` is dropped from the map
without `cancel_all`. Its calls go on and no unbind, rebind or shutdown will find
their tokens, although the comment on `teardown_sessions` (`server.rs:1721-1725`)
wants them to wind down "rather than being orphaned". `NoOrphan` excepts these
calls, until the loop of the lost registry ends by itself and closes it, and shows
that the code orphans no others.

`stray` and `cutoff` name further exceptions of the code: the tail of an old loop
removes the semaphore whoever made it (`remove_session` has no guard like that of
`remove_if` beside it), so the calls of the new generation get private semaphores
and the limit of the session is gone (when there is an entry to remove, `stray`
gets every generation bound so far but the ending loop's own); and
`route_session` removes the inbox that is registered *now* when the sender it
cloned before is closed, which cuts off a session that was just bound again.
`ShutdownRemove` does both to a bind that it raced with. The properties except
these cases; they do not catch them, but show that there are no others.

## Runs

Passing runs:

| Run | Instance | What it shows |
|-----|----------|---------------|
| `locked_file` | 2 processes, 2 names, add and delete | `SnapshotFresh`: nothing changes under a process between load and rename. `LockGivenBack`. `ImplementsAtomicFile`: refinement |
| `scheduler_runs` | 2 daemons, 1 client, 1 job, both kinds of expression, clock to 3, no stop | `SingleDaemon`; `LastRunCoversRuns`; `RunsSpaced`: no start before the schedule's next time, across deaths; `PurgeKeepsUnexpired`; `DueJobsRun`: under a daemon that stays up no job stays due |
| `scheduler_stop` | 3 daemons, 1 stop command that may be repeated, clock at 0 | `PidIsHolder`: stop never reads the pid of a live process that does not hold that file's lock |
| `membership` | no members at first, 3 humans, 1 agent, 2 requests, 2 joins and 2 polls at a time, both approvals, lost replies | `NamesDisjoint`, `PendingDistinct`, `ApprovalConsistent`, `OneTokenPerApproval`; `ApprovalReaches`: an approval that the server keeps gets to the one who polls, unless the reply is lost |
| `dispatch` | 2 one-shots, 1 chat, 2 humans, 2 agents, log of 4, no typed lines | `AnsweredOnce`, `NoReplyLoop`, `MentionsOfThisTurn` |
| `dispatch_chat` | 1 one-shot, 1 chat with typed lines, 2 humans, 1 agent, log of 3 | `ChatCatchesUp` |
| `hub_connection` | 1 tool call, 2 attempts of a serve, 3 sockets, an outbound queue of 1 | `WaiterIffUnresolved`: no waiter is lost, and none is leaked but for a tool call dropped before its frame was queued; `ParkedOnLiveSocket`: nobody waits on a dead socket, but for `raced`; `ExitFailsEveryCall`, but for `late`; `CallsEnd`; `ShutdownEnds`; `ImplementsRequestReply`: refinement |
| `tool_server` | 2 calls, 2 frames (requests or Cancels), 2 full binds, 1 unbind, 1 shutdown beside them, the end of `run()`, 1 panic, a limit, an inbox and a tombstone set of 1 | `NoOrphan`: a call that goes on can be cancelled, but for `lost`; `CancelSticks`; `SessionBounded`, but for `stray` and `lost`; `RebindOnlyOfDead`; `LiveLoopHasInbox`, but for `cutoff`; `TornDownCallsEnd` |

Runs that find a disagreement between the code and what it says of itself:

| Run | Property | Counterexample |
|-----|----------|----------------|
| `scheduler_two_daemons` | `SingleDaemon` ("so only one daemon runs at a time", `scheduler.rs:31`) | stop spawns `kill` and unlinks the PID file; before the first daemon is gone, a second one creates and locks a new file |
| `scheduler_stop_lost` | `StopStops` ("Stop the persistent scheduler daemon", `args.rs:344`) | SIGTERM arrives while the daemon is outside `select!`, where nobody listens |
| `membership_local_approve` | `ApprovedGetsToken` (`args.rs:1169`, `plugin/commands/group.md:20`) | the local approval passes an empty pre-auth token, so there is nothing to fetch |
| `dispatch_typed` | `MentionsOfThisTurn` (`group.rs:1973`) | a line is typed before the timer saw another turn's replies: the new turn collects the mentions in messages that it did not produce |

`ApprovedGetsToken` also fails when the reply of a status call is lost
(`RepliesLost = TRUE`): the handler consumes the approval before the reply that
carries the token arrives, and a retry finds nothing. No document promises more,
so this is a hazard in `PROJECT.json` and not a finding; `ApprovalReaches` excepts
the requester whose reply was lost. `PendingDistinct` excepts, by the history
variable `auto`, those whom a join call admits on a copy of the group that had no
members.

Bounds. Two processes are enough for every pairwise race of the locked file;
the third daemon of `scheduler_stop` is there because an unlink by a stop that
read the first daemon's pid can hit the file of the second while a third opens
it. A period of 2 and a clock to 3 let a job become due, not be due and be due
again. Four messages are a trigger, its reply, a mention's reply, and one by
somebody else. In `hub_connection` a break and a forced reconnect are the two lost
sockets it takes to fill the writer's control channel (Pause, Resume, Pause), and
two attempts make `serve` retry and give up. In `tool_server` two generations are
an old and a new one, with a loop that is unbound or dies in between, and two
frames with limits of 1 meet a full inbox, a full set of tombstones, a taken permit
and a Cancel on either side of its call. A third frame, or a third bind, makes five
or more times as many states; the theorems on `ToolServer` hold for any number of
them. Bounds are constants; `MaxTime`, `MaxLog`, `MaxBreaks`, `MaxCalls`,
`MaxFrames`, `MaxBinds`, `Unbindable` and `Panicking` stand for nothing in the code,
and what they disable is the clock, the writing of messages, the loss of sockets
and the arrival of calls, Cancels, binds and unbinds, which no liveness property asks for.
Each daemon and each one-shot lives once. The runs of dispatch and of
the hub do not check for deadlock: all processes may have ended, a connection may
be shut down. Symmetry is used for invariants only.

Fairness. In the locked file a process that holds the lock takes its steps;
nothing is assumed about who gets the lock next. In the scheduler a live process
is scheduled, timers fire, `run_job` ends a child after its timeout, a spawned
`kill` delivers. Strong fairness of `StartRun` says that the job file does not
become unreadable at every single attempt. Nothing is assumed of users, of `Tick`
or of deaths. In membership the requester polls again and again, as the hint
printed by `join_remote` tells it to, and begun calls are finished. In dispatch a
live process goes on: model calls end (`run_single_turn_capture_blocking` returns
an answer or an error) and the interval of the REPL fires. In the hub connection
every task that can run does, awaits with a timeout end, a send on a socket
returns, and the hub answers what it gets on a socket that stays up and accepts a
reconnect some time; nothing is assumed of users, of breaks or of
terminal closes. In the tool server every task that can run does, the admission
deadline included; nobody has to bind, send or shut down, and a handler
(`Finish`) need not end by itself.

Every property of a passing run has a mutant: a definition of the model changed
as a plausible bug would, under which TLC finds the property violated. They are
the definitions commented "A bug: ...".

## Proofs

All theorems hold for every value of the constants that satisfies the named
assumptions (`LockedFileAssumption`, `SchedulerAssumption`, `NoJobAssumption`,
`MembershipAssumption`, `DispatchAssumption`, `CallsAssumption`,
`BoundsAssumption`, `ToolServerAssumption`): they say that the special values
are not ordinary ones, and that periods and bounds are natural numbers.

- `LockedFileProofs`. `SnapshotFresh` is not inductive: a rename by another
  process would break it. The inductive invariant adds `TypeOK` and `LockOwned`
  (a process is between load and release exactly while it holds the lock), so
  that two processes are never there together. The refinement theorem maps `pc`
  to the abstract status; `Rename` is the step that commits, and it needs
  `SnapshotFresh` to be the abstract operation on the current contents.
- `SchedulerProofs`. `PidNamesHolder` needs `LockInv`: a daemon past
  `PidFile::acquire` holds the lock of the inode it has open, and a pid is in an
  inode only once its process has entered the loop. `OneDaemonWithoutStop` adds
  `SamePath`: without stop commands, every daemon has the inode at the path open,
  so all compete for one lock. `LastRunNeverBehind` adds that recorded times are
  not in the future. `RunsSpacedWithoutStop`, an action property, needs all of
  these and `DueInv`: a name that the daemon still has to start is due as far as
  the runs that daemons have started are concerned, which only a second daemon
  could spoil; it rests on the monotonicity of `NextDue`. Both theorems with
  "WithoutStop" assume `Stoppers = {}`, and `scheduler_two_daemons` shows that the
  first one must. `PurgeTakesOnlyExpired`, the other action property, needs only
  the types: `Purge` is the one step from the purge to the runs, and it looks at
  the expiries again under the lock.
- `GroupMembershipProofs`. `NamesDisjoint` is inductive given the types. For the
  approvals the invariant relates the life of a request (asked, pending,
  approved, fetched) so that an approval exists only between an approval of the
  request and the one status call that consumes it, and names a member.
  `PendingDistinct` needs `EmptyNoPending`: while nobody is a member nobody waits,
  so whoever is admitted without a request is a new name or one of `auto`.
- `GroupDispatchProofs`. `LockOwned` says that turns do not overlap;
  `RepliesFollow`, that a reply comes after its trigger in the log;
  `TriggersPosted`, that what is dispatched for is not itself a dispatched reply
  (which gives `NoReplyLoop`); `TurnIsAlone`, that while a turn is under way every
  reply to its trigger is its own: the second look at the log, taken under the
  lock, establishes it, because a reply of somebody else would follow the trigger
  and end the turn. `AnsweredOnce` follows.
- `HubConnectionProofs`. `WaiterIffUnresolved` is inductive given the types; it
  counts the waiter of a dropped tool call as what it is, a waiter that only a
  drain or the short-circuit takes out.
  `ParkedOnLiveSocket` needs to know where every frame and every control message
  is: a frame is in the queue, in the writer's hand or on a socket, but in one
  place; the control channel alternates Pause and Resume and ends with what the
  reader did last; and a live writer without a queued Pause has the reader's
  socket as its sink. `ExitFailsEveryCall` needs what the last drain still has to
  fail. The refinement maps `call` and `slot` to the status of a call and `on`,
  `hand` and `outbound` to its frame; it adds `FrameOnce` (no frame is twice in
  the queue, or in two of queue, hand and socket), without which an answered
  request could go out again, and uses `WaiterIffUnresolved` to see that an answer
  settles exactly the calls that are open.
- `ToolServerProofs`. None of the six is inductive. `NoOrphan` needs
  `InRegistry` (an uncancelled call that was spawned, or inserted and not yet
  looked at again, is in the registry of its loop) and `DrainedWhenGone` (a
  registry that has left the map, or that the shutdown is about to clear away as
  its own, is closed, and holds at most the call whose loop is between
  `LoopInsert` and its second look at the closed flag, where it will be
  cancelled; or it is one of `lost`); these rest on `AfterInstall` (only a
  registry that was in the map is closed) and `TeardownOrder` (who is where in
  `cancel_all`: a closed registry in the map is one whose loop is in its tail or
  that the shutdown is at, so what `ShutdownClear` drops uncancelled is exactly
  `lost`), on `LoopsBound` and on `OneRegistering`. `CancelSticks` needs
  `CancelKept`: until the handler starts, the Cancel is a tombstone, or its
  registry is closed, or the token is cancelled. All rest on `RequestsRouted` and
  `RequestOnce`: a request is in one place and its call is not taken yet, so no
  call is dispatched a second time. `RebindOnlyOfDead` and
  `LiveLoopHasInbox` need `BindJustified` and `BindHasInbox`, what a bind
  found and has put in the maps. `SessionBounded` needs `SameSemaphore` (every
  uncancelled call of a generation that is not stray or lost waits on, or has its permit
  from, the semaphore in the map) and `PermitsBounded`, by the cardinality
  theorems for finite sets. The attempt to prove it found an earlier form of
  `stray` and of the property too narrow: with three binds, calls of a generation
  whose semaphore is gone may still run while the next one is being bound, which
  the two binds of the run do not reach.
- The mention rounds (`GroupDispatchProofs`). A process that only reacts to what
  it noticed has seen everything up to its trigger (`SeenUpToTrigger`), so what
  its copy holds beyond that is not an agent's or is its own (`CopyIsOwn`: the
  second look ends the turn otherwise), and so are the messages whose mentions it
  answers. `MentionsOwnWithoutTyping` assumes `~Typing`, and `dispatch_typed`
  shows that it must; `OneShotsMentionOwn` needs no assumption, because lines
  are typed into chats only.

Only model-checked: the liveness properties (`LockGivenBack`, `DueJobsRun`,
`ApprovalReaches`, `ChatCatchesUp`, `CallsEnd`, `ShutdownEnds`,
`TornDownCallsEnd`), because liveness under fairness is out of the prover's reach.
Every invariant and every action property of the passing runs is also a theorem,
`SingleDaemon`, `RunsSpaced` and `MentionsOfThisTurn` under the assumptions that
their runs make.

## Not modelled

The rest of the upstream crates: user interface, agent, sampling, workspace and
protocol code of more than a million lines, each crate a project of its own. Of
the hub SDK: the harness's binding, the connection pool, serve replay, progress
channels, donations, and several sessions of one server at a time. Of `omgb`: the
relay's proxy and rate limiter; threads, subagents, workflows and the other parts
of the inventory's second half; the Windows branch of `stop_daemon`
(`taskkill /F`); reuse of pids by the operating system; `host_agent` and the
hosted-agent store; the bytes of any message.

## Plan

Done: `LockedFile`, `Scheduler`, `GroupMembership`, `GroupDispatch`,
`HubConnection`, `ToolServer`, with their runs and first theorems. In this order:

1. Proofs: `ToolServer` as a refinement of an abstract session whose calls are
   admitted, cancelled and torn down in one step each.
2. `ClientStores`: memberships.json and pending joins on one machine, edited
   without a lock by several commands; composed with `GroupMembership` so that
   "the token is saved" is about the file.
3. `MessageLog`: `add_message` with its cut at 10 MB, `load_messages` with its
   window, deaths in the middle of a cut; then `GroupDispatch` over a log that
   shrinks.
4. `Threads` and `Subagents` over `LockedFile`: turns that last between the read
   and the write, limits checked before the record is written.
5. `Relay`: the two directions of `handle_proxy` and the rate limiter with its
   pruning.
6. `Hashline`: edits by line hash as operators, checked over bounded inputs.
