----------------------------- MODULE Scheduler ------------------------------
(***************************************************************************)
(* The omgb scheduler (scheduler.rs): daemon processes guarded by a locked *)
(* PID file, `schedule stop` commands, the job file, and the runs that     *)
(* daemons and `schedule run` commands start.                              *)
(*                                                                         *)
(* Accesses to the job file under schedule.lock are single steps; module   *)
(* LockedFile shows that they are.  The PID file is not accessed under a   *)
(* lock of its own, so every system call on it is a step: stop_daemon      *)
(* reads, signals and unlinks, PidFile::acquire opens, locks and writes.   *)
(***************************************************************************)
EXTENDS Integers, FiniteSets

CONSTANTS
    Daemons,    \* processes started by `schedule start`, each at most once
    Stoppers,   \* processes that run `schedule stop`
    Clients,    \* processes that run `schedule run`
    Names,      \* job names
    Exprs,      \* schedule expressions
    MaxTime,    \* bound on the clock
    Never,      \* last_run of a job that has not run
    NoExpiry,   \* expires_at of a job that does not expire
    NoJob,      \* no job of this name is in the file
    NoFile,     \* nothing at the path of the PID file
    NoPid       \* no process

ASSUME SchedulerAssumption ==
    /\ MaxTime \in Nat
    /\ \A e \in Exprs : e.kind \in {"every", "cron"} /\ e.period \in Nat \ {0}
    /\ Never \notin Nat /\ NoExpiry \notin Nat
    /\ NoFile \notin Daemons /\ NoPid \notin Daemons
    /\ Clients \cap Daemons = {}

Time == 0 .. MaxTime

Job == [expr : Exprs, last : Time \cup {Never}, exp : Time \cup {NoExpiry}]

ASSUME NoJobAssumption == NoJob \notin Job

(* A run belongs to the process that supervises it and to a job. *)
Runs == (Daemons \cup Clients) \X Names

(* An inode is named after the daemon that created it: each opens once. *)
Inodes == Daemons

VARIABLES
    clock,      \* Utc::now(), advancing at any moment
    jobs,       \* schedule.jsonl: the job of each name
    path,       \* the inode at ~/.omgb/scheduler.pid
    pidOf,      \* the pid written in each inode
    holder,     \* the daemon that has each inode locked
    dpc,        \* where each daemon is
    opened,     \* the inode each daemon has open
    due,        \* due_jobs of each daemon: tasks that have not looked yet
    term,       \* SIGTERM has reached the listener of a sleeping daemon
    kills,      \* `kill -TERM` commands under way, by target
    spc,        \* where each `schedule stop` is
    target,     \* the pid each `schedule stop` has read
    run,        \* what each supervised run has come to
    lastAuto    \* history: when a daemon last started each job

daemonVars == <<path, pidOf, holder, dpc, opened, due, term>>
stopVars == <<kills, spc, target>>
runVars == <<run, lastAuto>>
vars == <<clock, jobs, daemonVars, stopVars, runVars>>

InLoop == {"sleep", "poll", "purge", "run"}

TypeOK ==
    /\ clock \in Time
    /\ jobs \in [Names -> Job \cup {NoJob}]
    /\ path \in Inodes \cup {NoFile}
    /\ pidOf \in [Inodes -> Daemons \cup {NoPid}]
    /\ holder \in [Inodes -> Daemons \cup {NoPid}]
    /\ dpc \in [Daemons ->
           {"off", "started", "opened", "locked", "gone"} \cup InLoop]
    /\ opened \in [Daemons -> Inodes \cup {NoFile}]
    /\ due \in [Daemons -> SUBSET Names]
    /\ term \in [Daemons -> BOOLEAN]
    /\ kills \in SUBSET Daemons
    /\ spc \in [Stoppers -> {"idle", "read", "unlink"}]
    /\ target \in [Stoppers -> Daemons \cup {NoPid}]
    /\ \A s \in Stoppers : spc[s] = "read" => target[s] \in Daemons
    /\ run \in [Runs -> {"none", "recorded", "child", "orphan"}]
    /\ lastAuto \in [Names -> Time \cup {Never}]

Init ==
    /\ clock = 0
    /\ jobs = [n \in Names |-> NoJob]
    /\ path = NoFile
    /\ pidOf = [i \in Inodes |-> NoPid]
    /\ holder = [i \in Inodes |-> NoPid]
    /\ dpc = [d \in Daemons |-> "off"]
    /\ opened = [d \in Daemons |-> NoFile]
    /\ due = [d \in Daemons |-> {}]
    /\ term = [d \in Daemons |-> FALSE]
    /\ kills = {}
    /\ spc = [s \in Stoppers |-> "idle"]
    /\ target = [s \in Stoppers |-> NoPid]
    /\ run = [r \in Runs |-> "none"]
    /\ lastAuto = [n \in Names |-> Never]

Tick ==
    /\ clock < MaxTime
    /\ clock' = clock + 1
    /\ UNCHANGED <<jobs, daemonVars, stopVars, runVars>>

-----------------------------------------------------------------------------
(* When a job is due. *)

(* The next occurrence strictly after a run at time t: an interval counts  *)
(* from the run, a cron expression names fixed instants.                   *)
NextDue(e, t) ==
    IF e.kind = "every" THEN t + e.period ELSE (t \div e.period + 1) * e.period

IsExpired(j, now) == j.exp # NoExpiry /\ now >= j.exp

IsDue(j, now) ==
    /\ ~IsExpired(j, now)
    /\ j.last = Never \/ now >= NextDue(j.expr, j.last)

Scheduled == {n \in Names : jobs[n] # NoJob}

-----------------------------------------------------------------------------
(* The commands that edit the job file. *)

(* A job of the same name is replaced by one that has never run. *)
AddJob(n, e) ==
    /\ jobs' = [jobs EXCEPT ![n] = [expr |-> e, last |-> Never, exp |-> NoExpiry]]
    /\ lastAuto' = [lastAuto EXCEPT ![n] = Never]
    /\ UNCHANGED <<clock, daemonVars, stopVars, run>>

DeleteJob(n) ==
    /\ n \in Scheduled
    /\ jobs' = [jobs EXCEPT ![n] = NoJob]
    /\ lastAuto' = [lastAuto EXCEPT ![n] = Never]
    /\ UNCHANGED <<clock, daemonVars, stopVars, run>>

SetExpiry(n, x) ==
    /\ n \in Scheduled
    /\ jobs' = [jobs EXCEPT ![n].exp = x]
    /\ UNCHANGED <<clock, daemonVars, stopVars, runVars>>

(* Both omgb_schedule_cleanup_expired and the daemon keep what is not      *)
(* expired at the moment they hold the lock.                               *)
DropExpired ==
    LET gone == {n \in Scheduled : IsExpired(jobs[n], clock)}
    IN  /\ jobs' = [n \in Names |-> IF n \in gone THEN NoJob ELSE jobs[n]]
        /\ lastAuto' = [n \in Names |-> IF n \in gone THEN Never ELSE lastAuto[n]]

CleanupExpired ==
    /\ DropExpired
    /\ UNCHANGED <<clock, daemonVars, stopVars, run>>

-----------------------------------------------------------------------------
(* Runs: record last_run, spawn `omgb exec`, wait for it. *)

(* A bug: the run is started without saving when. *)
RecordNothing(r, n) ==
    /\ run' = [run EXCEPT ![r] = "recorded"]
    /\ UNCHANGED jobs

(* The locked part of run_job: the job is looked up again by name, and its *)
(* last_run is saved before anything is spawned.                           *)
Record(r, n) ==
    /\ run' = [run EXCEPT ![r] = "recorded"]
    /\ jobs' = [jobs EXCEPT ![n].last = clock]

ClientRun(c, n) ==
    /\ run[<<c, n>>] = "none"
    /\ n \in Scheduled
    /\ Record(<<c, n>>, n)
    /\ UNCHANGED <<clock, daemonVars, stopVars, lastAuto>>

(* The prompt file is written and the child spawned, or one of them fails. *)
Spawn(r) ==
    /\ run[r] = "recorded"
    /\ run' \in {[run EXCEPT ![r] = "child"], [run EXCEPT ![r] = "none"]}
    /\ UNCHANGED <<clock, jobs, daemonVars, stopVars, lastAuto>>

(* The child exits, or is killed after DEFAULT_JOB_TIMEOUT; one that has   *)
(* outlived its supervisor ends when it likes.                             *)
ChildEnds(r) ==
    /\ run[r] \in {"child", "orphan"}
    /\ run' = [run EXCEPT ![r] = "none"]
    /\ UNCHANGED <<clock, jobs, daemonVars, stopVars, lastAuto>>

(* What is left of the runs of a process that is gone: children have a     *)
(* session of their own and go on.                                         *)
Abandon(p) ==
    run' = [r \in Runs |->
               IF r[1] # p THEN run[r]
               ELSE IF run[r] = "recorded" THEN "none"
               ELSE IF run[r] = "child" THEN "orphan"
               ELSE run[r]]

ClientDies(c) ==
    /\ \E n \in Names : run[<<c, n>>] \in {"recorded", "child"}
    /\ Abandon(c)
    /\ UNCHANGED <<clock, jobs, daemonVars, stopVars, lastAuto>>

-----------------------------------------------------------------------------
(* The daemon. *)

Alive(d) == dpc[d] \notin {"off", "gone"}

(* spawn_daemon starts a detached `schedule daemon`. *)
StartDaemon(d) ==
    /\ dpc[d] = "off"
    /\ dpc' = [dpc EXCEPT ![d] = "started"]
    /\ UNCHANGED <<clock, jobs, path, pidOf, holder, opened, due, term,
                   stopVars, runVars>>

(* open(create): the inode at the path, or a new one. *)
OpenPidFile(d) ==
    /\ dpc[d] = "started"
    /\ path' = IF path = NoFile THEN d ELSE path
    /\ opened' = [opened EXCEPT ![d] = path']
    /\ dpc' = [dpc EXCEPT ![d] = "opened"]
    /\ UNCHANGED <<clock, jobs, pidOf, holder, due, term, stopVars, runVars>>

(* A bug: the daemon goes on although the lock is held. *)
LockPidFileAnyway(d) ==
    /\ dpc[d] = "opened"
    /\ holder' = [holder EXCEPT ![opened[d]] = d]
    /\ dpc' = [dpc EXCEPT ![d] = "locked"]
    /\ UNCHANGED <<clock, jobs, path, pidOf, opened, due, term, stopVars,
                   runVars>>

(* try_lock_exclusive, or bail: "scheduler daemon is already running". *)
LockPidFile(d) ==
    /\ dpc[d] = "opened"
    /\ \/ /\ holder[opened[d]] = NoPid
          /\ holder' = [holder EXCEPT ![opened[d]] = d]
          /\ dpc' = [dpc EXCEPT ![d] = "locked"]
          /\ UNCHANGED opened
       \/ /\ holder[opened[d]] # NoPid
          /\ dpc' = [dpc EXCEPT ![d] = "gone"]
          /\ opened' = [opened EXCEPT ![d] = NoFile]
          /\ UNCHANGED holder
    /\ UNCHANGED <<clock, jobs, path, pidOf, due, term, stopVars, runVars>>

(* set_len(0) and the pid; then the loop, whose first select installs the  *)
(* SIGTERM handler.                                                        *)
WritePid(d) ==
    /\ dpc[d] = "locked"
    /\ pidOf' = [pidOf EXCEPT ![opened[d]] = d]
    /\ dpc' = [dpc EXCEPT ![d] = "sleep"]
    /\ UNCHANGED <<clock, jobs, path, holder, opened, due, term, stopVars,
                   runVars>>

(* The sleep of the poll interval ends.  A signal that is ready as well is *)
(* dropped with its listener when select! picks this branch.               *)
Wake(d) ==
    /\ dpc[d] = "sleep"
    /\ dpc' = [dpc EXCEPT ![d] = "poll"]
    /\ term' = [term EXCEPT ![d] = FALSE]
    /\ UNCHANGED <<clock, jobs, path, pidOf, holder, opened, due, stopVars,
                   runVars>>

(* A bug: a job that has never run is passed over. *)
PollRunBefore(d) ==
    /\ dpc[d] = "poll"
    /\ due' = [due EXCEPT ![d] =
           {n \in Scheduled : jobs[n].last # Never /\ IsDue(jobs[n], clock)}]
    /\ dpc' = [dpc EXCEPT ![d] = "run"]
    /\ UNCHANGED <<clock, jobs, path, pidOf, holder, opened, term, stopVars,
                   runVars>>

(* Which jobs are due is decided on one reading of the file. *)
Poll(d) ==
    /\ dpc[d] = "poll"
    /\ due' = [due EXCEPT ![d] = {n \in Scheduled : IsDue(jobs[n], clock)}]
    /\ dpc' = [dpc EXCEPT ![d] =
                  IF \E n \in Scheduled : IsExpired(jobs[n], clock)
                  THEN "purge" ELSE "run"]
    /\ UNCHANGED <<clock, jobs, path, pidOf, holder, opened, term, stopVars,
                   runVars>>

(* A bug: the purge drops every job that has an expiry. *)
PurgeAnyExpiry(d) ==
    /\ dpc[d] = "purge"
    /\ jobs' = [n \in Names |->
                   IF n \in Scheduled /\ jobs[n].exp # NoExpiry
                   THEN NoJob ELSE jobs[n]]
    /\ dpc' = [dpc EXCEPT ![d] = "run"]
    /\ UNCHANGED <<clock, path, pidOf, holder, opened, due, term, stopVars, runVars>>

(* The expired jobs are determined again, under a lock of its own. *)
Purge(d) ==
    /\ dpc[d] = "purge"
    /\ DropExpired
    /\ dpc' = [dpc EXCEPT ![d] = "run"]
    /\ UNCHANGED <<clock, path, pidOf, holder, opened, due, term, stopVars, run>>

(* One task of the JoinSet: run_job of a name that was due at the poll. *)
StartRun(d, n) ==
    /\ dpc[d] = "run"
    /\ n \in due[d]
    /\ n \in Scheduled
    /\ Record(<<d, n>>, n)
    /\ due' = [due EXCEPT ![d] = @ \ {n}]
    /\ lastAuto' = [lastAuto EXCEPT ![n] = clock]
    /\ UNCHANGED <<clock, path, pidOf, holder, dpc, opened, term, stopVars>>

(* The task fails: the job is gone, or the file cannot be read or saved. *)
FailRun(d, n) ==
    /\ dpc[d] = "run"
    /\ n \in due[d]
    /\ due' = [due EXCEPT ![d] = @ \ {n}]
    /\ UNCHANGED <<clock, jobs, path, pidOf, holder, dpc, opened, term,
                   stopVars, runVars>>

(* Every task has been joined. *)
JoinAll(d) ==
    /\ dpc[d] = "run"
    /\ due[d] = {}
    /\ \A n \in Names : run[<<d, n>>] \notin {"recorded", "child"}
    /\ dpc' = [dpc EXCEPT ![d] = "sleep"]
    /\ UNCHANGED <<clock, jobs, path, pidOf, holder, opened, due, term,
                   stopVars, runVars>>

(* A process that ends closes the PID file, which frees its lock, and      *)
(* leaves the file where it is.                                            *)
Gone(d) ==
    /\ dpc' = [dpc EXCEPT ![d] = "gone"]
    /\ holder' = [i \in Inodes |-> IF holder[i] = d THEN NoPid ELSE holder[i]]
    /\ opened' = [opened EXCEPT ![d] = NoFile]
    /\ due' = [due EXCEPT ![d] = {}]
    /\ term' = [term EXCEPT ![d] = FALSE]
    /\ Abandon(d)
    /\ UNCHANGED <<clock, jobs, path, pidOf, spc, target, lastAuto>>

(* The shutdown branch of select!. *)
Shutdown(d) ==
    /\ dpc[d] = "sleep" /\ term[d]
    /\ Gone(d)
    /\ UNCHANGED kills

(* The process is killed, or ? leaves the loop because the job file cannot *)
(* be read or written.                                                     *)
DaemonDies(d) ==
    /\ Alive(d)
    /\ Gone(d)
    /\ UNCHANGED kills

-----------------------------------------------------------------------------
(* `schedule stop`. *)

(* A bug: an empty file is taken for a pid. *)
StopReadEmpty(s) ==
    /\ spc[s] = "idle"
    /\ path # NoFile
    /\ target' = [target EXCEPT ![s] = pidOf[path]]
    /\ spc' = [spc EXCEPT ![s] = "read"]
    /\ UNCHANGED <<clock, jobs, daemonVars, kills, runVars>>

(* The pid is read; an absent or empty file is an error and changes nothing. *)
StopRead(s) ==
    /\ spc[s] = "idle"
    /\ path # NoFile
    /\ pidOf[path] # NoPid
    /\ target' = [target EXCEPT ![s] = pidOf[path]]
    /\ spc' = [spc EXCEPT ![s] = "read"]
    /\ UNCHANGED <<clock, jobs, daemonVars, kills, runVars>>

(* A kill command is spawned for a process that is alive, and not waited   *)
(* for; where it cannot be spawned the stop ends there.                    *)
StopSignal(s) ==
    /\ spc[s] = "read"
    /\ \/ /\ kills' = IF Alive(target[s]) THEN kills \cup {target[s]} ELSE kills
          /\ spc' = [spc EXCEPT ![s] = "unlink"]
          /\ UNCHANGED target
       \/ /\ Alive(target[s])
          /\ spc' = [spc EXCEPT ![s] = "idle"]
          /\ target' = [target EXCEPT ![s] = NoPid]
          /\ UNCHANGED kills
    /\ UNCHANGED <<clock, jobs, daemonVars, runVars>>

(* Whatever is at the path by now is removed. *)
StopUnlink(s) ==
    /\ spc[s] = "unlink"
    /\ path' = NoFile
    /\ spc' = [spc EXCEPT ![s] = "idle"]
    /\ target' = [target EXCEPT ![s] = NoPid]
    /\ UNCHANGED <<clock, jobs, pidOf, holder, dpc, opened, due, term, kills,
                   runVars>>

(* SIGTERM arrives: it ends a process that has no handler yet, wakes the   *)
(* listener of a sleeping daemon, and is lost on one that is busy, which   *)
(* has the handler but no listener.                                        *)
DeliverTerm(d) ==
    /\ d \in kills
    /\ kills' = kills \ {d}
    /\ \/ dpc[d] \in {"started", "opened", "locked"} /\ Gone(d)
       \/ /\ dpc[d] = "sleep"
          /\ term' = [term EXCEPT ![d] = TRUE]
          /\ UNCHANGED <<clock, jobs, path, pidOf, holder, dpc, opened, due,
                         spc, target, runVars>>
       \/ /\ dpc[d] \in {"poll", "purge", "run", "gone"}
          /\ UNCHANGED <<clock, jobs, daemonVars, spc, target, runVars>>

-----------------------------------------------------------------------------
EditJobs ==
    \/ \E n \in Names, e \in Exprs : AddJob(n, e)
    \/ \E n \in Names : DeleteJob(n)
    \/ \E n \in Names, x \in Time \cup {NoExpiry} : SetExpiry(n, x)
    \/ CleanupExpired

DaemonStep(d) ==
    \/ OpenPidFile(d)
    \/ LockPidFile(d)
    \/ WritePid(d)
    \/ Wake(d)
    \/ Poll(d)
    \/ Purge(d)
    \/ JoinAll(d)
    \/ \E n \in Names : FailRun(d, n)

RunStep(r) == Spawn(r) \/ ChildEnds(r)

StopStep(s) == StopRead(s) \/ StopSignal(s) \/ StopUnlink(s)

Next ==
    \/ Tick
    \/ EditJobs
    \/ \E d \in Daemons :
           \/ StartDaemon(d)
           \/ DaemonStep(d)
           \/ \E n \in Names : StartRun(d, n)
           \/ Shutdown(d)
           \/ DaemonDies(d)
           \/ DeliverTerm(d)
    \/ \E s \in Stoppers : StopStep(s)
    \/ \E c \in Clients :
           \/ \E n \in Names : ClientRun(c, n)
           \/ ClientDies(c)
    \/ \E r \in Runs : RunStep(r)

Spec == Init /\ [][Next]_vars

(* A process that is alive is scheduled: a daemon goes on with its loop    *)
(* (its sleep ends by the timer), a child ends because run_job kills it    *)
(* after its timeout, a kill command delivers its signal, and a listener   *)
(* that has a signal ready is polled.  The job file cannot stay unreadable *)
(* for ever: a task that is tried again and again gets through.            *)
Fairness ==
    /\ \A d \in Daemons :
           /\ WF_vars(DaemonStep(d))
           /\ WF_vars(Shutdown(d))
           /\ WF_vars(DeliverTerm(d))
           /\ \A n \in Names :
                  /\ SF_vars(StartRun(d, n))
                  /\ WF_vars(RunStep(<<d, n>>))
    /\ \A s \in Stoppers : WF_vars(StopSignal(s) \/ StopUnlink(s))

FairSpec == Spec /\ Fairness

-----------------------------------------------------------------------------
(* Only one daemon is past PidFile::acquire at a time: the promise of the  *)
(* comment on PidFile ("so only one daemon runs at a time").               *)
SingleDaemon ==
    \A d, e \in Daemons : dpc[d] \in InLoop /\ dpc[e] \in InLoop => d = e

(* A live process whose pid a PID file holds owns the lock of that file:   *)
(* `schedule stop` never signals a process that lost the race for the      *)
(* lock, whichever files were unlinked and created since.                  *)
PidIsHolder ==
    \A i \in Inodes, d \in Daemons :
        pidOf[i] = d /\ Alive(d) => holder[i] = d

(* run_job saves last_run before it spawns anything: however daemons and   *)
(* clients interleave and die, the file never shows a last_run older than  *)
(* a run that a daemon has started of the job that is in it.               *)
LastRunCoversRuns ==
    \A n \in Names :
        lastAuto[n] # Never =>
            /\ n \in Scheduled
            /\ jobs[n].last # Never
            /\ jobs[n].last >= lastAuto[n]

(* A daemon starts a job again only when its schedule says so, although it *)
(* decides at the poll and looks the job up again later, and although a    *)
(* daemon may die at any point and another take over.                      *)
RunsSpaced ==
    [][\A d \in Daemons, n \in Names :
          /\ run[<<d, n>>] # "recorded" /\ run'[<<d, n>>] = "recorded"
          /\ lastAuto[n] # Never
          => clock >= NextDue(jobs[n].expr, lastAuto[n])]_vars

(* The daemon's purge removes no job that is not expired when it happens,  *)
(* whatever the poll before it saw (run_daemon_loop).                      *)
PurgeKeepsUnexpired ==
    [][\A d \in Daemons :
          dpc[d] = "purge" /\ dpc'[d] = "run" =>
              \A n \in Scheduled :
                  jobs'[n] = NoJob => IsExpired(jobs[n], clock)]_vars

(* A due job does not stay due under a daemon that stays in its loop.      *)
DueJobsRun ==
    \A d \in Daemons, n \in Names :
        (dpc[d] \in InLoop /\ n \in Scheduled /\ IsDue(jobs[n], clock))
        ~> (dpc[d] = "gone" \/ n \notin Scheduled \/ ~IsDue(jobs[n], clock))

(* `schedule stop` stops the daemon it signals: what the help text of the  *)
(* command says ("Stop the persistent scheduler daemon").                  *)
StopStops == \A d \in Daemons : d \in kills ~> dpc[d] = "gone"
=============================================================================
