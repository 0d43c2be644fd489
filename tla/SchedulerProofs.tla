-------------------------- MODULE SchedulerProofs ---------------------------
(* Proofs about the scheduler for every set of daemons, commands and jobs  *)
(* and every bound on the clock.                                           *)
EXTENDS Scheduler, TLAPS

(* Every command of the scheduler, every step of a daemon and every death  *)
(* keeps the types.                                                        *)
LEMMA TypeStep ==
    ASSUME TypeOK, [Next]_vars
    PROVE  TypeOK'
<1> USE DEF TypeOK, InLoop, Inodes, daemonVars, stopVars, runVars
<1>1. CASE Tick
  BY <1>1, SchedulerAssumption DEF Tick, Time
<1>2. CASE \E n \in Names, e \in Exprs : AddJob(n, e)
  <2>1. PICK n \in Names, e \in Exprs : AddJob(n, e)
    BY <1>2
  <2>2. [expr |-> e, last |-> Never, exp |-> NoExpiry] \in Job
    BY DEF Job
  <2> QED BY <2>1, <2>2 DEF AddJob
<1>3. CASE \E n \in Names : DeleteJob(n)
  BY <1>3 DEF DeleteJob
<1>4. CASE \E n \in Names, x \in Time \cup {NoExpiry} : SetExpiry(n, x)
  <2>1. PICK n \in Names, x \in Time \cup {NoExpiry} : SetExpiry(n, x)
    BY <1>4
  <2>2. jobs[n] \in Job
    BY <2>1 DEF SetExpiry, Scheduled
  <2>3. [jobs[n] EXCEPT !.exp = x] \in Job
    BY <2>2 DEF Job
  <2> QED BY <2>1, <2>3 DEF SetExpiry
<1>5. CASE CleanupExpired
  BY <1>5 DEF CleanupExpired, DropExpired
<1>6. CASE \E d \in Daemons : StartDaemon(d)
  BY <1>6 DEF StartDaemon
<1>7. CASE \E d \in Daemons : OpenPidFile(d)
  BY <1>7 DEF OpenPidFile
<1>8. CASE \E d \in Daemons : LockPidFile(d)
  BY <1>8 DEF LockPidFile
<1>9. CASE \E d \in Daemons : WritePid(d)
  <2>1. PICK d \in Daemons : WritePid(d)
    BY <1>9
  <2>2. pidOf' \in [Inodes -> Daemons \cup {NoPid}]
    BY <2>1 DEF WritePid
  <2> QED BY <2>1, <2>2 DEF WritePid
<1>10. CASE \E d \in Daemons : Wake(d)
  BY <1>10 DEF Wake
<1>11. CASE \E d \in Daemons : Poll(d)
  <2>1. PICK d \in Daemons : Poll(d)
    BY <1>11
  <2>2. due' \in [Daemons -> SUBSET Names]
    BY <2>1 DEF Poll, Scheduled
  <2>3. dpc' \in [Daemons ->
           {"off", "started", "opened", "locked", "gone"} \cup InLoop]
    BY <2>1 DEF Poll
  <2> QED BY <2>1, <2>2, <2>3 DEF Poll
<1>12. CASE \E d \in Daemons : Purge(d)
  BY <1>12 DEF Purge, DropExpired
<1>13. CASE \E d \in Daemons : JoinAll(d)
  BY <1>13 DEF JoinAll
<1>14. CASE \E d \in Daemons, n \in Names : FailRun(d, n)
  BY <1>14 DEF FailRun
<1>15. CASE \E d \in Daemons, n \in Names : StartRun(d, n)
  <2>1. PICK d \in Daemons, n \in Names : StartRun(d, n)
    BY <1>15
  <2>2. jobs[n] \in Job
    BY <2>1 DEF StartRun, Scheduled
  <2>3. [jobs[n] EXCEPT !.last = clock] \in Job
    BY <2>2 DEF Job
  <2>4. jobs' \in [Names -> Job \cup {NoJob}]
    BY <2>1, <2>3 DEF StartRun, Record
  <2>5. run' \in [Runs -> {"none", "recorded", "child", "orphan"}]
    BY <2>1 DEF StartRun, Record
  <2> QED BY <2>1, <2>4, <2>5 DEF StartRun
<1>16. CASE \E d \in Daemons : Shutdown(d)
  BY <1>16 DEF Shutdown, Gone, Abandon
<1>17. CASE \E d \in Daemons : DaemonDies(d)
  BY <1>17 DEF DaemonDies, Gone, Abandon
<1>18. CASE \E d \in Daemons : DeliverTerm(d)
  <2>1. PICK d \in Daemons : DeliverTerm(d)
    BY <1>18
  <2>2. kills' \in SUBSET Daemons
    BY <2>1 DEF DeliverTerm
  <2>3. CASE dpc[d] \in {"started", "opened", "locked"} /\ Gone(d)
    BY <2>2, <2>3 DEF Gone, Abandon
  <2>4. CASE dpc[d] = "sleep" /\ term' = [term EXCEPT ![d] = TRUE]
    BY <2>1, <2>2, <2>4 DEF DeliverTerm
  <2>5. CASE dpc[d] \in {"poll", "purge", "run", "gone"}
    BY <2>1, <2>2, <2>5 DEF DeliverTerm
  <2> QED BY <2>1, <2>3, <2>4, <2>5 DEF DeliverTerm
<1>19. CASE \E s \in Stoppers : StopRead(s)
  BY <1>19 DEF StopRead
<1>20. CASE \E s \in Stoppers : StopSignal(s)
  BY <1>20 DEF StopSignal
<1>21. CASE \E s \in Stoppers : StopUnlink(s)
  BY <1>21 DEF StopUnlink
<1>22. CASE \E c \in Clients, n \in Names : ClientRun(c, n)
  <2>1. PICK c \in Clients, n \in Names : ClientRun(c, n)
    BY <1>22
  <2>2. jobs[n] \in Job
    BY <2>1 DEF ClientRun, Scheduled
  <2>3. [jobs[n] EXCEPT !.last = clock] \in Job
    BY <2>2 DEF Job
  <2>4. jobs' \in [Names -> Job \cup {NoJob}]
    BY <2>1, <2>3 DEF ClientRun, Record
  <2>5. run' \in [Runs -> {"none", "recorded", "child", "orphan"}]
    BY <2>1 DEF ClientRun, Record
  <2> QED BY <2>1, <2>4, <2>5 DEF ClientRun
<1>23. CASE \E c \in Clients : ClientDies(c)
  BY <1>23 DEF ClientDies, Abandon
<1>24. CASE \E r \in Runs : Spawn(r)
  BY <1>24 DEF Spawn
<1>25. CASE \E r \in Runs : ChildEnds(r)
  BY <1>25 DEF ChildEnds
<1>26. CASE UNCHANGED vars
  BY <1>26 DEF vars
<1> QED
  BY <1>1, <1>2, <1>3, <1>4, <1>5, <1>6, <1>7, <1>8, <1>9, <1>10, <1>11,
     <1>12, <1>13, <1>14, <1>15, <1>16, <1>17, <1>18, <1>19, <1>20, <1>21,
     <1>22, <1>23, <1>24, <1>25, <1>26 DEF Next, EditJobs, DaemonStep,
     RunStep, StopStep

(* Type correctness of the scheduler.                                      *)
THEOREM TypeCorrect == Spec => []TypeOK
<1>1. Init => TypeOK
  BY SchedulerAssumption
     DEF Init, TypeOK, Time, InLoop, Inodes
<1> QED BY <1>1, TypeStep, PTL DEF Spec

-----------------------------------------------------------------------------
(* The PID file. *)

Past == {"locked"} \cup InLoop

(* A daemon past PidFile::acquire has the lock of the file it opened, and  *)
(* a pid is written only by a daemon that has entered its loop.            *)
LockInv ==
    \A d \in Daemons :
        /\ dpc[d] \in {"opened"} \cup Past => opened[d] \in Inodes
        /\ dpc[d] \in Past => holder[opened[d]] = d
        /\ \A i \in Inodes : pidOf[i] = d => dpc[d] \in InLoop \cup {"gone"}

PidInv == TypeOK /\ LockInv /\ PidIsHolder

(* Locks are taken only when free and freed only by their holder, whatever *)
(* `schedule stop` unlinks.                                                *)
LEMMA PidStep ==
    ASSUME PidInv, [Next]_vars
    PROVE  LockInv' /\ PidIsHolder'
<1> USE DEF PidInv, TypeOK, LockInv, PidIsHolder, Past, Alive, InLoop, Inodes,
            daemonVars, stopVars, runVars
<1>1. CASE Tick
  BY <1>1, SchedulerAssumption DEF Tick
<1>2. CASE \E n \in Names, e \in Exprs : AddJob(n, e)
  BY <1>2, SchedulerAssumption DEF AddJob
<1>3. CASE \E n \in Names : DeleteJob(n)
  BY <1>3, SchedulerAssumption DEF DeleteJob
<1>4. CASE \E n \in Names, x \in Time \cup {NoExpiry} : SetExpiry(n, x)
  BY <1>4, SchedulerAssumption DEF SetExpiry
<1>5. CASE CleanupExpired
  BY <1>5, SchedulerAssumption DEF CleanupExpired, DropExpired
<1>6. CASE \E d \in Daemons : StartDaemon(d)
  BY <1>6, SchedulerAssumption DEF StartDaemon
<1>7. CASE \E d \in Daemons : OpenPidFile(d)
  BY <1>7, SchedulerAssumption DEF OpenPidFile
<1>8. CASE \E d \in Daemons : LockPidFile(d)
  BY <1>8, SchedulerAssumption DEF LockPidFile
<1>9. CASE \E d \in Daemons : WritePid(d)
  BY <1>9, SchedulerAssumption DEF WritePid
<1>10. CASE \E d \in Daemons : Wake(d)
  BY <1>10, SchedulerAssumption DEF Wake
<1>11. CASE \E d \in Daemons : Poll(d)
  BY <1>11, SchedulerAssumption DEF Poll
<1>12. CASE \E d \in Daemons : Purge(d)
  BY <1>12, SchedulerAssumption DEF Purge, DropExpired
<1>13. CASE \E d \in Daemons : JoinAll(d)
  BY <1>13, SchedulerAssumption DEF JoinAll
<1>14. CASE \E d \in Daemons, n \in Names : FailRun(d, n)
  BY <1>14, SchedulerAssumption DEF FailRun
<1>15. CASE \E d \in Daemons, n \in Names : StartRun(d, n)
  BY <1>15, SchedulerAssumption DEF StartRun, Record
<1>16. CASE \E d \in Daemons : Shutdown(d)
  BY <1>16, SchedulerAssumption DEF Shutdown, Gone, Abandon
<1>17. CASE \E d \in Daemons : DaemonDies(d)
  BY <1>17, SchedulerAssumption DEF DaemonDies, Gone, Abandon
<1>18. CASE \E d \in Daemons : DeliverTerm(d)
  BY <1>18, SchedulerAssumption DEF DeliverTerm, Gone, Abandon
<1>19. CASE \E s \in Stoppers : StopRead(s)
  BY <1>19, SchedulerAssumption DEF StopRead
<1>20. CASE \E s \in Stoppers : StopSignal(s)
  BY <1>20, SchedulerAssumption DEF StopSignal
<1>21. CASE \E s \in Stoppers : StopUnlink(s)
  BY <1>21, SchedulerAssumption DEF StopUnlink
<1>22. CASE \E c \in Clients, n \in Names : ClientRun(c, n)
  BY <1>22, SchedulerAssumption DEF ClientRun, Record
<1>23. CASE \E c \in Clients : ClientDies(c)
  BY <1>23, SchedulerAssumption DEF ClientDies, Abandon
<1>24. CASE \E r \in Runs : Spawn(r)
  BY <1>24, SchedulerAssumption DEF Spawn
<1>25. CASE \E r \in Runs : ChildEnds(r)
  BY <1>25, SchedulerAssumption DEF ChildEnds
<1>26. CASE UNCHANGED vars
  BY <1>26 DEF vars
<1> QED
  BY <1>1, <1>2, <1>3, <1>4, <1>5, <1>6, <1>7, <1>8, <1>9, <1>10, <1>11,
     <1>12, <1>13, <1>14, <1>15, <1>16, <1>17, <1>18, <1>19, <1>20, <1>21,
     <1>22, <1>23, <1>24, <1>25, <1>26 DEF Next, EditJobs, DaemonStep,
     RunStep, StopStep

(* `schedule stop` signals only processes that own the lock of the PID     *)
(* file they are named in, for any number of daemons and stop commands.    *)
THEOREM PidNamesHolder == Spec => []PidIsHolder
<1>1. Init => PidInv
  BY SchedulerAssumption
     DEF Init, PidInv, TypeOK, LockInv, PidIsHolder, Past, Alive, InLoop,
         Inodes, Time
<1>2. PidInv /\ [Next]_vars => PidInv'
  BY TypeStep, PidStep DEF PidInv
<1> QED BY <1>1, <1>2, PTL DEF Spec, PidInv

(* Without `schedule stop` the inode at the path never changes, so all     *)
(* daemons compete for one lock.                                           *)
SamePath ==
    \A d \in Daemons : dpc[d] \in {"opened"} \cup Past => opened[d] = path

(* The inode at the path is the one every daemon has open.                 *)
LEMMA SamePathInv ==
    ASSUME Stoppers = {}
    PROVE  Spec => [](PidInv /\ SamePath)
<1> DEFINE Inv == PidInv /\ SamePath
<1>1. Init => Inv
  BY SchedulerAssumption
     DEF Init, PidInv, TypeOK, LockInv, PidIsHolder, Past, Alive, InLoop,
         Inodes, Time, SamePath
<1>2. Inv /\ [Next]_vars => Inv'
  <2> SUFFICES ASSUME Inv, [Next]_vars
               PROVE  Inv'
    OBVIOUS
  <2>1. PidInv'
    BY TypeStep, PidStep DEF PidInv
  <2>2. SamePath'
    <3> USE DEF PidInv, TypeOK, LockInv, SamePath, Past, InLoop, Inodes,
                daemonVars, stopVars, runVars
    <3>1. CASE Tick
      BY <3>1, SchedulerAssumption DEF Tick
    <3>2. CASE \E n \in Names, e \in Exprs : AddJob(n, e)
      BY <3>2, SchedulerAssumption DEF AddJob
    <3>3. CASE \E n \in Names : DeleteJob(n)
      BY <3>3, SchedulerAssumption DEF DeleteJob
    <3>4. CASE \E n \in Names, x \in Time \cup {NoExpiry} : SetExpiry(n, x)
      BY <3>4, SchedulerAssumption DEF SetExpiry
    <3>5. CASE CleanupExpired
      BY <3>5, SchedulerAssumption DEF CleanupExpired, DropExpired
    <3>6. CASE \E d \in Daemons : StartDaemon(d)
      BY <3>6, SchedulerAssumption DEF StartDaemon
    <3>7. CASE \E d \in Daemons : OpenPidFile(d)
      BY <3>7, SchedulerAssumption DEF OpenPidFile
    <3>8. CASE \E d \in Daemons : LockPidFile(d)
      BY <3>8, SchedulerAssumption DEF LockPidFile
    <3>9. CASE \E d \in Daemons : WritePid(d)
      BY <3>9, SchedulerAssumption DEF WritePid
    <3>10. CASE \E d \in Daemons : Wake(d)
      BY <3>10, SchedulerAssumption DEF Wake
    <3>11. CASE \E d \in Daemons : Poll(d)
      BY <3>11, SchedulerAssumption DEF Poll
    <3>12. CASE \E d \in Daemons : Purge(d)
      BY <3>12, SchedulerAssumption DEF Purge, DropExpired
    <3>13. CASE \E d \in Daemons : JoinAll(d)
      BY <3>13, SchedulerAssumption DEF JoinAll
    <3>14. CASE \E d \in Daemons, n \in Names : FailRun(d, n)
      BY <3>14, SchedulerAssumption DEF FailRun
    <3>15. CASE \E d \in Daemons, n \in Names : StartRun(d, n)
      BY <3>15, SchedulerAssumption DEF StartRun, Record
    <3>16. CASE \E d \in Daemons : Shutdown(d)
      BY <3>16, SchedulerAssumption DEF Shutdown, Gone, Abandon
    <3>17. CASE \E d \in Daemons : DaemonDies(d)
      BY <3>17, SchedulerAssumption DEF DaemonDies, Gone, Abandon
    <3>18. CASE \E d \in Daemons : DeliverTerm(d)
      BY <3>18, SchedulerAssumption DEF DeliverTerm, Gone, Abandon
    <3>19. CASE \E s \in Stoppers : StopRead(s)
      BY <3>19, SchedulerAssumption DEF StopRead
    <3>20. CASE \E s \in Stoppers : StopSignal(s)
      BY <3>20, SchedulerAssumption DEF StopSignal
    <3>21. CASE \E s \in Stoppers : StopUnlink(s)
      BY <3>21, SchedulerAssumption DEF StopUnlink
    <3>22. CASE \E c \in Clients, n \in Names : ClientRun(c, n)
      BY <3>22, SchedulerAssumption DEF ClientRun, Record
    <3>23. CASE \E c \in Clients : ClientDies(c)
      BY <3>23, SchedulerAssumption DEF ClientDies, Abandon
    <3>24. CASE \E r \in Runs : Spawn(r)
      BY <3>24, SchedulerAssumption DEF Spawn
    <3>25. CASE \E r \in Runs : ChildEnds(r)
      BY <3>25, SchedulerAssumption DEF ChildEnds
    <3>26. CASE UNCHANGED vars
      BY <3>26 DEF vars
    <3> QED
      BY <3>1, <3>2, <3>3, <3>4, <3>5, <3>6, <3>7, <3>8, <3>9, <3>10, <3>11,
         <3>12, <3>13, <3>14, <3>15, <3>16, <3>17, <3>18, <3>19, <3>20, <3>21,
         <3>22, <3>23, <3>24, <3>25, <3>26 DEF Next, EditJobs, DaemonStep,
         RunStep, StopStep
  <2> QED BY <2>1, <2>2
<1> QED BY <1>1, <1>2, PTL DEF Spec

(* One lock, one holder.                                                   *)
LEMMA SamePathSingle ==
    ASSUME PidInv, SamePath
    PROVE  SingleDaemon
BY DEF PidInv, LockInv, SamePath, SingleDaemon, Past

(* While nothing unlinks the PID file, only one daemon runs at a time:     *)
(* what the comment on PidFile promises, however daemons start, race for   *)
(* the lock and die.                                                       *)
THEOREM OneDaemonWithoutStop ==
    ASSUME Stoppers = {}
    PROVE  Spec => []SingleDaemon
<1>1. PidInv /\ SamePath => SingleDaemon
  BY SamePathSingle
<1> QED BY <1>1, SamePathInv, PTL

-----------------------------------------------------------------------------
(* The job file. *)

(* Nothing has run in the future. *)
PastRuns == \A n \in Names : lastAuto[n] # Never => lastAuto[n] <= clock

RunInv == TypeOK /\ PastRuns /\ LastRunCoversRuns

(* Every command that writes a job either keeps its last_run, moves it to  *)
(* now, or replaces the job.                                               *)
LEMMA RunStepInv ==
    ASSUME RunInv, [Next]_vars
    PROVE  PastRuns' /\ LastRunCoversRuns'
<1> USE DEF RunInv, TypeOK, PastRuns, LastRunCoversRuns, Scheduled, Time, Job,
            daemonVars, stopVars, runVars
<1>1. CASE Tick
  BY <1>1, SchedulerAssumption DEF Tick, Time
<1>2. CASE \E n \in Names, e \in Exprs : AddJob(n, e)
  BY <1>2, SchedulerAssumption, NoJobAssumption DEF AddJob
<1>3. CASE \E n \in Names : DeleteJob(n)
  BY <1>3, SchedulerAssumption, NoJobAssumption DEF DeleteJob
<1>4. CASE \E n \in Names, x \in Time \cup {NoExpiry} : SetExpiry(n, x)
  BY <1>4, SchedulerAssumption, NoJobAssumption DEF SetExpiry
<1>5. CASE CleanupExpired
  BY <1>5, SchedulerAssumption, NoJobAssumption DEF CleanupExpired, DropExpired
<1>6. CASE \E d \in Daemons : StartDaemon(d)
  BY <1>6, SchedulerAssumption, NoJobAssumption DEF StartDaemon
<1>7. CASE \E d \in Daemons : OpenPidFile(d)
  BY <1>7, SchedulerAssumption, NoJobAssumption DEF OpenPidFile
<1>8. CASE \E d \in Daemons : LockPidFile(d)
  BY <1>8, SchedulerAssumption, NoJobAssumption DEF LockPidFile
<1>9. CASE \E d \in Daemons : WritePid(d)
  BY <1>9, SchedulerAssumption, NoJobAssumption DEF WritePid
<1>10. CASE \E d \in Daemons : Wake(d)
  BY <1>10, SchedulerAssumption, NoJobAssumption DEF Wake
<1>11. CASE \E d \in Daemons : Poll(d)
  BY <1>11, SchedulerAssumption, NoJobAssumption DEF Poll
<1>12. CASE \E d \in Daemons : Purge(d)
  BY <1>12, SchedulerAssumption, NoJobAssumption DEF Purge, DropExpired
<1>13. CASE \E d \in Daemons : JoinAll(d)
  BY <1>13, SchedulerAssumption, NoJobAssumption DEF JoinAll
<1>14. CASE \E d \in Daemons, n \in Names : FailRun(d, n)
  BY <1>14, SchedulerAssumption, NoJobAssumption DEF FailRun
<1>15. CASE \E d \in Daemons, n \in Names : StartRun(d, n)
  <2>1. PICK d \in Daemons, n \in Names : StartRun(d, n)
    BY <1>15
  <2>2. /\ jobs[n] # NoJob /\ jobs[n] \in Job
        /\ jobs' = [jobs EXCEPT ![n] = [jobs[n] EXCEPT !.last = clock]]
        /\ lastAuto' = [lastAuto EXCEPT ![n] = clock] /\ clock' = clock
    BY <2>1, SchedulerAssumption DEF StartRun, Record
  <2>3. jobs'[n].last = clock /\ jobs'[n] # NoJob
    BY <2>2, SchedulerAssumption, NoJobAssumption
  <2>4. \A m \in Names \ {n} :
          jobs'[m] = jobs[m] /\ lastAuto'[m] = lastAuto[m]
    BY <2>2
  <2> QED BY <2>2, <2>3, <2>4, SchedulerAssumption
<1>16. CASE \E d \in Daemons : Shutdown(d)
  BY <1>16, SchedulerAssumption, NoJobAssumption DEF Shutdown, Gone, Abandon
<1>17. CASE \E d \in Daemons : DaemonDies(d)
  BY <1>17, SchedulerAssumption, NoJobAssumption DEF DaemonDies, Gone, Abandon
<1>18. CASE \E d \in Daemons : DeliverTerm(d)
  BY <1>18, SchedulerAssumption, NoJobAssumption DEF DeliverTerm, Gone, Abandon
<1>19. CASE \E s \in Stoppers : StopRead(s)
  BY <1>19, SchedulerAssumption, NoJobAssumption DEF StopRead
<1>20. CASE \E s \in Stoppers : StopSignal(s)
  BY <1>20, SchedulerAssumption, NoJobAssumption DEF StopSignal
<1>21. CASE \E s \in Stoppers : StopUnlink(s)
  BY <1>21, SchedulerAssumption, NoJobAssumption DEF StopUnlink
<1>22. CASE \E c \in Clients, n \in Names : ClientRun(c, n)
  BY <1>22, SchedulerAssumption, NoJobAssumption DEF ClientRun, Record
<1>23. CASE \E c \in Clients : ClientDies(c)
  BY <1>23, SchedulerAssumption, NoJobAssumption DEF ClientDies, Abandon
<1>24. CASE \E r \in Runs : Spawn(r)
  BY <1>24, SchedulerAssumption, NoJobAssumption DEF Spawn
<1>25. CASE \E r \in Runs : ChildEnds(r)
  BY <1>25, SchedulerAssumption, NoJobAssumption DEF ChildEnds
<1>26. CASE UNCHANGED vars
  BY <1>26 DEF vars
<1> QED
  BY <1>1, <1>2, <1>3, <1>4, <1>5, <1>6, <1>7, <1>8, <1>9, <1>10, <1>11,
     <1>12, <1>13, <1>14, <1>15, <1>16, <1>17, <1>18, <1>19, <1>20, <1>21,
     <1>22, <1>23, <1>24, <1>25, <1>26 DEF Next, EditJobs, DaemonStep,
     RunStep, StopStep

(* However many daemons and clients interleave and die, a job in the file  *)
(* records a last_run at least as late as any run a daemon started of it.  *)
THEOREM LastRunNeverBehind == Spec => []LastRunCoversRuns
<1>1. Init => RunInv
  BY SchedulerAssumption
     DEF Init, RunInv, TypeOK, PastRuns, LastRunCoversRuns, InLoop, Inodes, Time
<1>2. RunInv /\ [Next]_vars => RunInv'
  BY TypeStep, RunStepInv DEF RunInv
<1> QED BY <1>1, <1>2, PTL DEF Spec, RunInv

-----------------------------------------------------------------------------
(* The spacing of runs. *)

(* Multiplication by a natural number preserves the order.                 *)
LEMMA TimesMonotone == \A p, a, b \in Nat : a <= b => a * p <= b * p
BY SMT

(* So does division by a positive one.                                     *)
LEMMA DivMonotone ==
    ASSUME NEW s \in Nat, NEW t \in Nat, NEW p \in Nat \ {0}, s <= t
    PROVE  s \div p <= t \div p
<1>1. /\ s \div p \in Nat /\ t \div p \in Nat
      /\ (s \div p) * p <= s /\ t < (t \div p + 1) * p
  BY SMTT(30)
<1>2. CASE s \div p >= t \div p + 1
  <2>1. (t \div p + 1) * p <= (s \div p) * p
    BY <1>1, <1>2, TimesMonotone
  <2> QED BY <1>1, <2>1
<1> QED BY <1>1, <1>2

(* A later run of an interval or cron job is followed by a later due time. *)
LEMMA NextDueMonotone ==
    ASSUME NEW e \in Exprs, NEW s \in Time, NEW t \in Time, s <= t
    PROVE  /\ NextDue(e, s) \in Nat
           /\ NextDue(e, t) \in Nat
           /\ NextDue(e, s) <= NextDue(e, t)
<1>1. e.period \in Nat \ {0} /\ s \in Nat /\ t \in Nat
  BY SchedulerAssumption DEF Time
<1>2. s \div e.period <= t \div e.period
  BY <1>1, DivMonotone
<1>3. s \div e.period \in Nat /\ t \div e.period \in Nat
  BY <1>1
<1>4. (s \div e.period + 1) * e.period <= (t \div e.period + 1) * e.period
  BY <1>1, <1>2, <1>3, TimesMonotone
<1> QED BY <1>1, <1>3, <1>4 DEF NextDue

(* What a daemon still has to start was due when it polled, and still is   *)
(* as far as the runs that daemons have started are concerned.             *)
DueInv ==
    \A d \in Daemons, n \in Names :
        dpc[d] \in {"purge", "run"} /\ n \in due[d] /\ lastAuto[n] # Never
        => clock >= NextDue(jobs[n].expr, lastAuto[n])

SpacedInv == PidInv /\ SamePath /\ RunInv /\ DueInv

(* Only the one daemon in its loop starts runs, and it takes a name off    *)
(* its list when it does.                                                  *)
LEMMA DueStep ==
    ASSUME SpacedInv, [Next]_vars
    PROVE  DueInv'
<1>0. /\ TypeOK /\ SingleDaemon /\ DueInv /\ LastRunCoversRuns
      /\ \A n \in Scheduled : jobs[n] \in Job
      /\ \A e \in Exprs, t \in Time : NextDue(e, t) \in Nat
      /\ Never \notin Nat
  BY SamePathSingle, NextDueMonotone, SchedulerAssumption
     DEF SpacedInv, RunInv, PidInv, TypeOK, Scheduled, Time
<1> USE DEF TypeOK, DueInv, InLoop, Inodes, daemonVars, stopVars, runVars
<1>1. CASE Tick
  BY <1>0, <1>1, SchedulerAssumption DEF Tick, Time, Scheduled, Job, LastRunCoversRuns
<1>2. CASE \E n \in Names, e \in Exprs : AddJob(n, e)
  BY <1>2, <1>0
     DEF SingleDaemon, LastRunCoversRuns, Scheduled, Job, AddJob
<1>3. CASE \E n \in Names : DeleteJob(n)
  BY <1>3, <1>0
     DEF SingleDaemon, LastRunCoversRuns, Scheduled, Job, DeleteJob
<1>4. CASE \E n \in Names, x \in Time \cup {NoExpiry} : SetExpiry(n, x)
  BY <1>4, <1>0
     DEF SingleDaemon, LastRunCoversRuns, Scheduled, Job, SetExpiry
<1>5. CASE CleanupExpired
  BY <1>5, <1>0
     DEF SingleDaemon, LastRunCoversRuns, Scheduled, Job, CleanupExpired, DropExpired
<1>6. CASE \E d \in Daemons : StartDaemon(d)
  BY <1>6, <1>0
     DEF SingleDaemon, LastRunCoversRuns, Scheduled, Job, StartDaemon
<1>7. CASE \E d \in Daemons : OpenPidFile(d)
  BY <1>7, <1>0
     DEF SingleDaemon, LastRunCoversRuns, Scheduled, Job, OpenPidFile
<1>8. CASE \E d \in Daemons : LockPidFile(d)
  BY <1>8, <1>0
     DEF SingleDaemon, LastRunCoversRuns, Scheduled, Job, LockPidFile
<1>9. CASE \E d \in Daemons : WritePid(d)
  BY <1>9, <1>0
     DEF SingleDaemon, LastRunCoversRuns, Scheduled, Job, WritePid
<1>10. CASE \E d \in Daemons : Wake(d)
  BY <1>10, <1>0
     DEF SingleDaemon, LastRunCoversRuns, Scheduled, Job, Wake
<1>11. CASE \E d \in Daemons : Poll(d)
  <2>1. PICK d \in Daemons : Poll(d)
    BY <1>11
  <2> SUFFICES ASSUME NEW n \in Names, n \in due'[d], lastAuto[n] # Never
               PROVE  clock >= NextDue(jobs[n].expr, lastAuto[n])
    BY <1>0, <2>1 DEF Poll
  <2>2. n \in Scheduled /\ IsDue(jobs[n], clock) /\ jobs[n].last # Never
    BY <1>0, <2>1 DEF Poll, LastRunCoversRuns
  <2>3. clock >= NextDue(jobs[n].expr, jobs[n].last)
    BY <2>2 DEF IsDue
  <2>4. /\ jobs[n].expr \in Exprs /\ jobs[n].last \in Time
        /\ lastAuto[n] \in Time /\ lastAuto[n] <= jobs[n].last
    BY <1>0, <2>2 DEF LastRunCoversRuns, Job
  <2>5. NextDue(jobs[n].expr, lastAuto[n]) <= NextDue(jobs[n].expr, jobs[n].last)
    BY <2>4, NextDueMonotone
  <2>6. /\ NextDue(jobs[n].expr, lastAuto[n]) \in Nat
        /\ NextDue(jobs[n].expr, jobs[n].last) \in Nat
        /\ clock \in Int
    BY <1>0, <2>4 DEF Time
  <2> QED BY <2>3, <2>5, <2>6
<1>12. CASE \E d \in Daemons : Purge(d)
  BY <1>12, <1>0
     DEF SingleDaemon, LastRunCoversRuns, Scheduled, Job, Purge, DropExpired
<1>13. CASE \E d \in Daemons : JoinAll(d)
  BY <1>13, <1>0
     DEF SingleDaemon, LastRunCoversRuns, Scheduled, Job, JoinAll
<1>14. CASE \E d \in Daemons, n \in Names : FailRun(d, n)
  BY <1>14, <1>0
     DEF SingleDaemon, LastRunCoversRuns, Scheduled, Job, FailRun
<1>15. CASE \E d \in Daemons, n \in Names : StartRun(d, n)
  BY <1>15, <1>0
     DEF SingleDaemon, LastRunCoversRuns, Scheduled, Job, StartRun, Record
<1>16. CASE \E d \in Daemons : Shutdown(d)
  BY <1>16, <1>0
     DEF SingleDaemon, LastRunCoversRuns, Scheduled, Job, Shutdown, Gone, Abandon
<1>17. CASE \E d \in Daemons : DaemonDies(d)
  BY <1>17, <1>0
     DEF SingleDaemon, LastRunCoversRuns, Scheduled, Job, DaemonDies, Gone, Abandon
<1>18. CASE \E d \in Daemons : DeliverTerm(d)
  BY <1>18, <1>0
     DEF SingleDaemon, LastRunCoversRuns, Scheduled, Job, DeliverTerm, Gone, Abandon
<1>19. CASE \E s \in Stoppers : StopRead(s)
  BY <1>19, <1>0
     DEF SingleDaemon, LastRunCoversRuns, Scheduled, Job, StopRead
<1>20. CASE \E s \in Stoppers : StopSignal(s)
  BY <1>20, <1>0
     DEF SingleDaemon, LastRunCoversRuns, Scheduled, Job, StopSignal
<1>21. CASE \E s \in Stoppers : StopUnlink(s)
  BY <1>21, <1>0
     DEF SingleDaemon, LastRunCoversRuns, Scheduled, Job, StopUnlink
<1>22. CASE \E c \in Clients, n \in Names : ClientRun(c, n)
  BY <1>22, <1>0
     DEF SingleDaemon, LastRunCoversRuns, Scheduled, Job, ClientRun, Record
<1>23. CASE \E c \in Clients : ClientDies(c)
  BY <1>23, <1>0
     DEF SingleDaemon, LastRunCoversRuns, Scheduled, Job, ClientDies, Abandon
<1>24. CASE \E r \in Runs : Spawn(r)
  BY <1>24, <1>0
     DEF SingleDaemon, LastRunCoversRuns, Scheduled, Job, Spawn
<1>25. CASE \E r \in Runs : ChildEnds(r)
  BY <1>25, <1>0
     DEF SingleDaemon, LastRunCoversRuns, Scheduled, Job, ChildEnds
<1>26. CASE UNCHANGED vars
  BY <1>26, <1>0
     DEF SingleDaemon, LastRunCoversRuns, Scheduled, Job, vars
<1> QED
  BY <1>1, <1>2, <1>3, <1>4, <1>5, <1>6, <1>7, <1>8, <1>9, <1>10, <1>11,
     <1>12, <1>13, <1>14, <1>15, <1>16, <1>17, <1>18, <1>19, <1>20, <1>21,
     <1>22, <1>23, <1>24, <1>25, <1>26 DEF Next, EditJobs, DaemonStep,
     RunStep, StopStep

(* A run of a daemon begins in no other way than by its own task.          *)
LEMMA OnlyStartRun ==
    ASSUME TypeOK, [Next]_vars, NEW d \in Daemons, NEW n \in Names,
           run[<<d, n>>] # "recorded", run'[<<d, n>>] = "recorded"
    PROVE  StartRun(d, n)
<1> USE DEF TypeOK, Runs, daemonVars, stopVars, runVars
<1>1. CASE Tick
  BY <1>1, SchedulerAssumption DEF Tick
<1>2. CASE \E m \in Names, e \in Exprs : AddJob(m, e)
  BY <1>2, SchedulerAssumption DEF AddJob
<1>3. CASE \E m \in Names : DeleteJob(m)
  BY <1>3, SchedulerAssumption DEF DeleteJob
<1>4. CASE \E m \in Names, x \in Time \cup {NoExpiry} : SetExpiry(m, x)
  BY <1>4, SchedulerAssumption DEF SetExpiry
<1>5. CASE CleanupExpired
  BY <1>5, SchedulerAssumption DEF CleanupExpired, DropExpired
<1>6. CASE \E x \in Daemons : StartDaemon(x)
  BY <1>6, SchedulerAssumption DEF StartDaemon
<1>7. CASE \E x \in Daemons : OpenPidFile(x)
  BY <1>7, SchedulerAssumption DEF OpenPidFile
<1>8. CASE \E x \in Daemons : LockPidFile(x)
  BY <1>8, SchedulerAssumption DEF LockPidFile
<1>9. CASE \E x \in Daemons : WritePid(x)
  BY <1>9, SchedulerAssumption DEF WritePid
<1>10. CASE \E x \in Daemons : Wake(x)
  BY <1>10, SchedulerAssumption DEF Wake
<1>11. CASE \E x \in Daemons : Poll(x)
  BY <1>11, SchedulerAssumption DEF Poll
<1>12. CASE \E x \in Daemons : Purge(x)
  BY <1>12, SchedulerAssumption DEF Purge, DropExpired
<1>13. CASE \E x \in Daemons : JoinAll(x)
  BY <1>13, SchedulerAssumption DEF JoinAll
<1>14. CASE \E x \in Daemons, m \in Names : FailRun(x, m)
  BY <1>14, SchedulerAssumption DEF FailRun
<1>15. CASE \E x \in Daemons, m \in Names : StartRun(x, m)
  <2>1. PICK x \in Daemons, m \in Names : StartRun(x, m)
    BY <1>15
  <2>2. x = d /\ m = n
    BY <2>1 DEF StartRun, Record
  <2> QED BY <2>1, <2>2
<1>16. CASE \E x \in Daemons : Shutdown(x)
  BY <1>16, SchedulerAssumption DEF Shutdown, Gone, Abandon
<1>17. CASE \E x \in Daemons : DaemonDies(x)
  BY <1>17, SchedulerAssumption DEF DaemonDies, Gone, Abandon
<1>18. CASE \E x \in Daemons : DeliverTerm(x)
  BY <1>18, SchedulerAssumption DEF DeliverTerm, Gone, Abandon
<1>19. CASE \E s \in Stoppers : StopRead(s)
  BY <1>19, SchedulerAssumption DEF StopRead
<1>20. CASE \E s \in Stoppers : StopSignal(s)
  BY <1>20, SchedulerAssumption DEF StopSignal
<1>21. CASE \E s \in Stoppers : StopUnlink(s)
  BY <1>21, SchedulerAssumption DEF StopUnlink
<1>22. CASE \E c \in Clients, m \in Names : ClientRun(c, m)
  BY <1>22, SchedulerAssumption DEF ClientRun, Record
<1>23. CASE \E c \in Clients : ClientDies(c)
  BY <1>23, SchedulerAssumption DEF ClientDies, Abandon
<1>24. CASE \E r \in Runs : Spawn(r)
  BY <1>24, SchedulerAssumption DEF Spawn
<1>25. CASE \E r \in Runs : ChildEnds(r)
  BY <1>25, SchedulerAssumption DEF ChildEnds
<1>26. CASE UNCHANGED vars
  BY <1>26 DEF vars
<1> QED
  BY <1>1, <1>2, <1>3, <1>4, <1>5, <1>6, <1>7, <1>8, <1>9, <1>10, <1>11,
     <1>12, <1>13, <1>14, <1>15, <1>16, <1>17, <1>18, <1>19, <1>20, <1>21,
     <1>22, <1>23, <1>24, <1>25, <1>26 DEF Next, EditJobs, DaemonStep,
     RunStep, StopStep

(* While nothing unlinks the PID file, a daemon starts a job again only at *)
(* or after the next time its schedule names, whatever dies in between and *)
(* whichever daemon takes over.                                            *)
THEOREM RunsSpacedWithoutStop ==
    ASSUME Stoppers = {}
    PROVE  Spec => RunsSpaced
<1>1. Init => RunInv /\ DueInv
  BY SchedulerAssumption
     DEF Init, RunInv, TypeOK, PastRuns, LastRunCoversRuns, DueInv, InLoop,
         Inodes, Time
<1>2. SpacedInv /\ [Next]_vars => (RunInv /\ DueInv)'
  BY TypeStep, RunStepInv, DueStep DEF RunInv, SpacedInv
<1>3. Spec => [](PidInv /\ SamePath)
  BY SamePathInv
<1>4. SpacedInv /\ [Next]_vars =>
        [\A d \in Daemons, n \in Names :
           /\ run[<<d, n>>] # "recorded" /\ run'[<<d, n>>] = "recorded"
           /\ lastAuto[n] # Never
           => clock >= NextDue(jobs[n].expr, lastAuto[n])]_vars
  <2> SUFFICES ASSUME SpacedInv, Next, NEW d \in Daemons, NEW n \in Names,
                      run[<<d, n>>] # "recorded", run'[<<d, n>>] = "recorded",
                      lastAuto[n] # Never
               PROVE  clock >= NextDue(jobs[n].expr, lastAuto[n])
    BY DEF vars
  <2>1. StartRun(d, n)
    BY OnlyStartRun DEF SpacedInv, PidInv
  <2> QED BY <2>1 DEF StartRun, SpacedInv, DueInv
<1> QED BY <1>1, <1>2, <1>3, <1>4, PTL DEF Spec, SpacedInv, RunsSpaced

(* Only its own purge takes a daemon from the purge to the runs.           *)
LEMMA OnlyPurge ==
    ASSUME TypeOK, [Next]_vars, NEW d \in Daemons,
           dpc[d] = "purge", dpc'[d] = "run"
    PROVE  Purge(d)
<1> USE DEF TypeOK, daemonVars, stopVars, runVars
<1>1. CASE Tick
  BY <1>1 DEF Tick
<1>2. CASE EditJobs
  BY <1>2 DEF EditJobs, AddJob, DeleteJob, SetExpiry, CleanupExpired
<1>3. CASE \E x \in Daemons : StartDaemon(x)
  BY <1>3 DEF StartDaemon
<1>4. CASE \E x \in Daemons : OpenPidFile(x) \/ LockPidFile(x) \/ WritePid(x)
  BY <1>4 DEF OpenPidFile, LockPidFile, WritePid
<1>5. CASE \E x \in Daemons : Wake(x) \/ Poll(x)
  BY <1>5 DEF Wake, Poll
<1>6. CASE \E x \in Daemons : Purge(x)
  <2>1. PICK x \in Daemons : Purge(x)
    BY <1>6
  <2>2. x = d
    BY <2>1 DEF Purge
  <2> QED BY <2>1, <2>2
<1>7. CASE \E x \in Daemons : JoinAll(x)
  BY <1>7 DEF JoinAll
<1>8. CASE \E x \in Daemons, m \in Names : FailRun(x, m) \/ StartRun(x, m)
  BY <1>8 DEF FailRun, StartRun, Record
<1>9. CASE \E x \in Daemons : Shutdown(x) \/ DaemonDies(x) \/ DeliverTerm(x)
  BY <1>9 DEF Shutdown, DaemonDies, DeliverTerm, Gone
<1>10. CASE \E s \in Stoppers : StopStep(s)
  BY <1>10 DEF StopStep, StopRead, StopSignal, StopUnlink
<1>11. CASE \E c \in Clients : ClientDies(c) \/ \E m \in Names : ClientRun(c, m)
  BY <1>11 DEF ClientDies, ClientRun, Record
<1>12. CASE \E r \in Runs : RunStep(r)
  BY <1>12 DEF RunStep, Spawn, ChildEnds
<1>13. CASE UNCHANGED vars
  BY <1>13 DEF vars
<1> QED
  BY <1>1, <1>2, <1>3, <1>4, <1>5, <1>6, <1>7, <1>8, <1>9, <1>10, <1>11,
     <1>12, <1>13 DEF Next, DaemonStep

(* A purge takes only jobs that are expired at that moment, whichever jobs *)
(* the poll before it found expired and whoever edited the file since.     *)
THEOREM PurgeTakesOnlyExpired == Spec => PurgeKeepsUnexpired
<1>1. TypeOK /\ [Next]_vars =>
        [\A d \in Daemons :
           dpc[d] = "purge" /\ dpc'[d] = "run" =>
             \A n \in Scheduled :
               jobs'[n] = NoJob => IsExpired(jobs[n], clock)]_vars
  <2> SUFFICES ASSUME TypeOK, Next, NEW d \in Daemons,
                      dpc[d] = "purge", dpc'[d] = "run",
                      NEW n \in Scheduled, jobs'[n] = NoJob
               PROVE  IsExpired(jobs[n], clock)
    BY DEF vars
  <2>1. Purge(d)
    BY OnlyPurge
  <2>2. n \in Names /\ jobs[n] # NoJob
    BY DEF Scheduled
  <2>3. jobs'[n] = IF n \in {m \in Scheduled : IsExpired(jobs[m], clock)}
                   THEN NoJob ELSE jobs[n]
    BY <2>1, <2>2 DEF Purge, DropExpired
  <2> QED BY <2>2, <2>3
<1> QED BY <1>1, TypeCorrect, PTL DEF Spec, PurgeKeepsUnexpired
=============================================================================
