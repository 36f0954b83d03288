----------------------------- MODULE BackupJobs -----------------------------
(***************************************************************************)
(* Remote backups: the durable object that runs them one at a time under a *)
(* lease, the slots of each destination's schedule, what a run does at the *)
(* destination, and the record of all destinations in "config", which      *)
(* every run and every save of the settings reads and writes back whole.   *)
(*                                                                         *)
(* A step of a job is one awaited call and the touchJob before the next;   *)
(* events of a durable object do not interleave with its storage calls, so *)
(* taking, touching and releasing the lease are atomic.  Time is in ticks; *)
(* schedules and retention do not change.  Contents of an archive and the  *)
(* attachments beside it are left out: a sync that fails is a FailRun.  So *)
(* are an administrator's deletion of an archive by hand, which no lease   *)
(* guards, and a restore that brings other settings: both may take away    *)
(* what the record says is stored.                                         *)
(***************************************************************************)
EXTENDS Integers, FiniteSets

CONSTANTS
  Jobs,            \* slots for requests to the durable object
  Nobody,          \* the holder of no lease,
  Lost,            \* ... and of one that a restart has left behind
  Destinations, NoDestination,
  Slots,           \* the times at which each destination's schedule is due
  Midnights,       \* ... and the local midnights of its time zone
  Retention,       \* schedule.retentionCount
  LeaseTicks,      \* BACKUP_JOB_LEASE_MS
  HeartbeatTicks,  \* BACKUP_JOB_HEARTBEAT_MS
  WindowTicks,     \* BACKUP_SCHEDULER_WINDOW_MINUTES
  MaxUploads,      \* maxArchiveUploadAttempts
  LastTick,        \* bound on the clock
  MaxJobs,         \* bound on the jobs started
  MaxArchives      \* bound on the archives uploaded

ASSUME BackupAssumption ==
  /\ Nobody \notin Jobs /\ Lost \notin Jobs /\ Nobody # Lost
  /\ NoDestination \notin Destinations
  /\ {Slots, Midnights} \subseteq [Destinations -> SUBSET Nat]
  /\ {Retention, LeaseTicks, HeartbeatTicks, WindowTicks, MaxUploads} \subseteq Nat \ {0}
  /\ HeartbeatTicks <= LeaseTicks
  /\ {LastTick, MaxJobs, MaxArchives} \subseteq Nat

VARIABLES
  today,      \* the clock
  lease,      \* the job state in the storage of the durable object
  heartbeat,  \* ticks since lastHeartbeatAt, in its memory and shared by its jobs
  jobs,       \* the jobs in flight
  runtimes,   \* the record: of each destination the last success and its file
  remote,     \* the archives at each destination, numbered as they come
  saving,     \* the record a save of the settings has read
  started,    \* jobs started
  uploaded,   \* archives named: a run keeps its name when it uploads again
  broken,     \* the archives that have not the size that was sent
  stalled,    \* history: a job let StallTicks pass without touching its lease
  mixed       \* history: what a job has run beside: another job, a save

backupVars == <<today, lease, heartbeat, jobs, runtimes, remote, saving, started,
                uploaded, broken, stalled, mixed>>
archiveVars == <<remote, uploaded, broken>>
\* What the steps of a job leave alone.
otherVars   == <<today, saving, started, stalled, mixed>>

Never == -1
Times == 0..LastTick

Runtime  == [success: {Never} \cup Times, file: 0..MaxArchives]
Untried  == [success |-> Never, file |-> 0]
Record   == [Destinations -> Runtime]
NoRecord == [d \in Destinations |-> Untried]

JobSteps == {"idle", "scan", "pick", "attempt", "attempted", "upload", "verify", "prune",
             "success", "succeeded", "failed", "failing", "restore"}

\* scanned: scanStartMs; queue: dueDestinations; copy: the record as read;
\* begun, quiet, failure (history): the first scan, the ticks since the last
\* touchJob as long as no job has stalled, whether a run has failed.
Job   == [step: JobSteps, scheduled: BOOLEAN, scanned: Times, queue: SUBSET Destinations,
          destination: Destinations \cup {NoDestination}, file: 0..MaxArchives,
          tries: 0..MaxUploads, copy: Record, begun: Times, quiet: 0..LeaseTicks,
          failure: BOOLEAN]
NoJob == [step |-> "idle", scheduled |-> FALSE, scanned |-> 0, queue |-> {},
          destination |-> NoDestination, file |-> 0, tries |-> 0, copy |-> NoRecord,
          begun |-> 0, quiet |-> 0, failure |-> FALSE]

Running  == {j \in Jobs : jobs[j].step # "idle"}
JobAt(j, s) == jobs[j].step = s

-----------------------------------------------------------------------------
BackupInit == /\ today = 0
              /\ lease = [holder |-> Nobody, left |-> 0]
              /\ heartbeat = HeartbeatTicks
              /\ jobs = [j \in Jobs |-> NoJob]
              /\ runtimes = NoRecord
              /\ remote = [d \in Destinations |-> {}]
              /\ saving = << >>
              /\ started = 0 /\ uploaded = 0 /\ broken = {}
              /\ stalled = FALSE /\ mixed = {}

\* Mutant of Renewed: only touchedAt is written.
RenewedNot == lease

Renewed == [lease EXCEPT !.left = LeaseTicks]

\* touchJob: at most every HeartbeatTicks, and only the lease it holds.
TouchJob(j) ==
  IF heartbeat < HeartbeatTicks THEN UNCHANGED <<lease, heartbeat>>
  ELSE /\ heartbeat' = 0
       /\ lease' = IF lease.holder = j THEN Renewed ELSE lease

Continue(j, job) == jobs' = [jobs EXCEPT ![j] = [job EXCEPT !.quiet = 0]] /\ TouchJob(j)
Fails(j)         == Continue(j, [jobs[j] EXCEPT !.step = "failed", !.file = 0, !.tries = 0])
GoTo(j, s)       == Continue(j, [jobs[j] EXCEPT !.step = s])

\* Mutant of Released: the lease is deleted, whoever holds it.
ReleasedAnyhow(j) == [holder |-> Nobody, left |-> 0]

\* releaseJob.
Released(j) == IF lease.holder = j THEN [holder |-> Nobody, left |-> 0] ELSE lease

FinishJob(j) == /\ jobs' = [jobs EXCEPT ![j] = NoJob]
                /\ lease' = Released(j)
                /\ UNCHANGED heartbeat

\* acquireJob and the first touchJob, which finds the heartbeat reset.
StartJob(j, job) ==
  /\ JobAt(j, "idle") /\ lease.left = 0
  /\ started < MaxJobs /\ started' = started + 1
  /\ lease' = [holder |-> j, left |-> LeaseTicks]
  /\ heartbeat' = 0
  /\ jobs' = [jobs EXCEPT ![j] = job]
  /\ mixed' = mixed \cup {what \in {"job", "save"} :
       IF what = "job" THEN Running # {} ELSE saving # << >>}
  /\ UNCHANGED <<today, runtimes, archiveVars, saving, stalled>>

RunScheduled(j) ==
  StartJob(j, [NoJob EXCEPT !.step = "scan", !.scheduled = TRUE, !.scanned = today, !.begun = today])

RunManual(j, d) == StartJob(j, [NoJob EXCEPT !.step = "attempt", !.destination = d])

RestoreRemote(j) == StartJob(j, [NoJob EXCEPT !.step = "restore"])

\* getBackupLocalDateKey: the slots looked at are those of the local day.
SameDay(d, s) == ~ \E m \in Midnights[d] : s < m /\ m <= today

\* isBackupDueNow, hasBackupSlotBetween.
DueNow(d) == \E s \in Slots[d] :
  s <= today /\ today < s + WindowTicks /\ SameDay(d, s) /\ runtimes[d].success < s

\* Mutant of SlotBetween: slots that come during a run are not looked for.
SlotBetweenNot(d, start) == FALSE

SlotBetween(d, start) == \E s \in Slots[d] :
  start <= s /\ s < today /\ runtimes[d].success < s

\* runScheduledBackups: round after round until nothing is due.
Scan(j) ==
  /\ JobAt(j, "scan")
  /\ LET due == {d \in Destinations : DueNow(d) \/ SlotBetween(d, jobs[j].scanned)}
     IN  IF due = {} THEN FinishJob(j)
         ELSE Continue(j, [jobs[j] EXCEPT !.step = "pick", !.scanned = today, !.queue = due])
  /\ UNCHANGED <<runtimes, archiveVars, otherVars>>

Pick(j, d) ==
  /\ JobAt(j, "pick") /\ d \in jobs[j].queue
  /\ Continue(j, [jobs[j] EXCEPT !.step = "attempt", !.destination = d, !.queue = @ \ {d}])
  /\ UNCHANGED <<runtimes, archiveVars, otherVars>>

-----------------------------------------------------------------------------
(* executeConfiguredBackup.                                                *)

\* updateBackupDestinationRuntime, for lastAttemptAt and for lastErrorAt: the
\* record is read,
ReadRecord(j) ==
  /\ jobs[j].step \in {"attempt", "failed"}
  /\ Continue(j, [jobs[j] EXCEPT !.copy = runtimes,
                    !.step = IF @ = "attempt" THEN "attempted" ELSE "failing"])
  /\ UNCHANGED <<runtimes, archiveVars, otherVars>>

\* ... and written back whole.
WriteAttempt(j) ==
  /\ JobAt(j, "attempted")
  /\ runtimes' = jobs[j].copy
  /\ Continue(j, [jobs[j] EXCEPT !.step = "upload", !.copy = NoRecord])
  /\ UNCHANGED <<archiveVars, otherVars>>

Upload(j) ==
  /\ JobAt(j, "upload")
  /\ uploaded' = IF jobs[j].file = 0 THEN uploaded + 1 ELSE uploaded
  /\ uploaded' <= MaxArchives
  /\ LET f == IF jobs[j].file = 0 THEN uploaded + 1 ELSE jobs[j].file
     IN  /\ remote' = [remote EXCEPT ![jobs[j].destination] = @ \cup {f}]
         /\ broken' \in {broken \cup {f}, broken \ {f}}
         /\ Continue(j, [jobs[j] EXCEPT !.step = "verify", !.file = f, !.tries = @ + 1])
  /\ UNCHANGED <<runtimes, otherVars>>

\* Mutant of Verified: nothing is compared.
VerifiedAnyhow(d, f) == TRUE

\* verifyUploadedBackupArchive: the size the destination reports is enough.
Verified(d, f) == f \in remote[d] \ broken

Verify(j) == /\ JobAt(j, "verify")
             /\ Verified(jobs[j].destination, jobs[j].file)
             /\ Continue(j, [jobs[j] EXCEPT !.step = "prune", !.tries = 0])
             /\ UNCHANGED <<runtimes, archiveVars, otherVars>>

\* Mutant of MayRepeat: one attempt too many.
MayRepeatOnce(j) == jobs[j].tries <= MaxUploads

MayRepeat(j) == jobs[j].tries < MaxUploads

\* An archive of another size, or whose contents have been read and differ, or
\* that cannot be read, is deleted, which may fail as well, and uploaded again.
VerifyFails(j) ==
  /\ JobAt(j, "verify")
  /\ \/ remote' = [remote EXCEPT ![jobs[j].destination] = @ \ {jobs[j].file}]
     \/ UNCHANGED remote
  /\ IF MayRepeat(j) THEN GoTo(j, "upload") ELSE Fails(j)
  /\ UNCHANGED <<runtimes, uploaded, broken, otherVars>>

\* The archives that compareBackupItemsByRecency puts first: the one just
\* uploaded, then the newest.
Keeps(own, files, f) == Cardinality({g \in files : g # f /\ (g = own \/ (f # own /\ g > f))}) < Retention

Prune(j) ==
  /\ JobAt(j, "prune")
  /\ LET d == jobs[j].destination
     IN  remote' = [remote EXCEPT ![d] = {f \in @ : Keeps(jobs[j].file, @, f)}]
  /\ GoTo(j, "success")
  /\ UNCHANGED <<runtimes, uploaded, broken, otherVars>>

\* A clean-up that fails, before any deletion or between two, newest first, is
\* only noted in the audit log.
PruneFails(j) ==
  /\ JobAt(j, "prune")
  /\ LET d == jobs[j].destination
     IN  \E from \in 1..(uploaded + 1) :
           remote' = [remote EXCEPT ![d] = {f \in @ : Keeps(jobs[j].file, @, f) \/ f < from}]
  /\ GoTo(j, "success")
  /\ UNCHANGED <<runtimes, uploaded, broken, otherVars>>

ReadForSuccess(j) ==
  /\ JobAt(j, "success")
  /\ Continue(j, [jobs[j] EXCEPT !.step = "succeeded",
       !.copy = [runtimes EXCEPT ![jobs[j].destination] =
                  [success |-> today, file |-> jobs[j].file]]])
  /\ UNCHANGED <<runtimes, archiveVars, otherVars>>

\* The run is over: the next destination, the next round, or the end.
NextRun(j, failed) ==
  IF ~jobs[j].scheduled THEN FinishJob(j)
  ELSE Continue(j, [NoJob EXCEPT
         !.step = IF jobs[j].queue = {} THEN "scan" ELSE "pick", !.scheduled = TRUE,
         !.scanned = jobs[j].scanned, !.queue = jobs[j].queue, !.begun = jobs[j].begun,
         !.failure = failed \/ jobs[j].failure])

WriteSuccess(j) ==
  /\ JobAt(j, "succeeded")
  /\ runtimes' = jobs[j].copy
  /\ NextRun(j, FALSE)
  /\ UNCHANGED <<archiveVars, otherVars>>

\* Something in a run throws.
FailRun(j) ==
  /\ jobs[j].step \in {"upload", "verify", "success"}
  /\ Fails(j)
  /\ UNCHANGED <<runtimes, archiveVars, otherVars>>

WriteFailure(j) ==
  /\ JobAt(j, "failing")
  /\ runtimes' = jobs[j].copy
  /\ NextRun(j, TRUE)
  /\ UNCHANGED <<archiveVars, otherVars>>

\* The import of a restore ends, one way or the other.
RestoreEnds(j) ==
  /\ JobAt(j, "restore")
  /\ FinishJob(j)
  /\ UNCHANGED <<runtimes, archiveVars, otherVars>>

-----------------------------------------------------------------------------
\* handleUpdateAdminBackupSettings runs outside of the durable object and
\* without its lease: loadBackupSettings,
ReadSettings ==
  /\ saving = << >>
  /\ saving' = <<runtimes>>
  /\ mixed' = IF Running = {} THEN mixed ELSE mixed \cup {"save"}
  /\ UNCHANGED <<today, lease, heartbeat, jobs, runtimes, archiveVars, started, stalled>>

\* ... and saveBackupSettings, which writes the record it has read.
SaveSettings ==
  /\ saving # << >>
  /\ runtimes' = saving[1]
  /\ saving' = << >>
  /\ UNCHANGED <<today, lease, heartbeat, jobs, archiveVars, started, stalled, mixed>>

\* A touch while an awaited call goes on, as in a sync of attachments.
KeepAlive(j) ==
  /\ jobs[j].step \in {"upload", "restore"} /\ heartbeat = HeartbeatTicks
  /\ GoTo(j, jobs[j].step)
  /\ UNCHANGED <<runtimes, archiveVars, otherVars>>

\* The durable object is restarted: its jobs are gone, its storage is not.
Restart ==
  /\ Running # {}
  /\ jobs' = [j \in Jobs |-> NoJob]
  /\ heartbeat' = HeartbeatTicks
  /\ lease' = IF lease.holder \in Jobs THEN [lease EXCEPT !.holder = Lost] ELSE lease
  /\ UNCHANGED <<runtimes, archiveVars, otherVars>>

\* touchJob renews a lease that is older than HeartbeatTicks only.
StallTicks == LeaseTicks - HeartbeatTicks + 1

BackupTick ==
  /\ today < LastTick /\ today' = today + 1
  /\ lease' = [lease EXCEPT !.left = IF @ = 0 THEN 0 ELSE @ - 1]
  /\ heartbeat' = IF heartbeat = HeartbeatTicks THEN heartbeat ELSE heartbeat + 1
  /\ stalled' = (stalled \/ \E j \in Running : jobs[j].quiet + 1 = StallTicks)
  /\ jobs' = [j \in Jobs |-> IF j \in Running /\ ~stalled'
                               THEN [jobs[j] EXCEPT !.quiet = @ + 1] ELSE jobs[j]]
  /\ UNCHANGED <<runtimes, archiveVars, saving, started, mixed>>

BackupNext ==
  \/ \E j \in Jobs :
       \/ RunScheduled(j) \/ RestoreRemote(j) \/ Scan(j)
       \/ \E d \in Destinations : RunManual(j, d) \/ Pick(j, d)
       \/ ReadRecord(j) \/ WriteAttempt(j) \/ Upload(j) \/ Verify(j) \/ VerifyFails(j)
       \/ Prune(j) \/ PruneFails(j) \/ ReadForSuccess(j) \/ WriteSuccess(j)
       \/ FailRun(j) \/ WriteFailure(j) \/ RestoreEnds(j) \/ KeepAlive(j)
  \/ ReadSettings \/ SaveSettings \/ Restart \/ BackupTick

BackupSpec == BackupInit /\ [][BackupNext]_backupVars

-----------------------------------------------------------------------------
\* Clock, lease, jobs and records have their types.
BackupTypeOK ==
  /\ today \in Times
  /\ lease \in [holder: Jobs \cup {Nobody, Lost}, left: 0..LeaseTicks]
  /\ heartbeat \in 0..HeartbeatTicks
  /\ DOMAIN jobs = Jobs
  /\ \A j \in Jobs : /\ jobs[j].step \in JobSteps /\ jobs[j].tries \in 0..MaxUploads
                     /\ jobs[j].copy \in Record /\ jobs[j].file \in 0..uploaded
  /\ runtimes \in Record
  /\ \A d \in Destinations : remote[d] \subseteq 1..uploaded

\* Two jobs are in flight at once only after one of them let StallTicks pass
\* without touching its lease: a job that touches it sooner never loses it to
\* the touches that are skipped for being early.
OverlapNeedsStall == Cardinality(Running) > 1 => stalled

\* A job that has lost its lease to another neither renews nor releases it:
\* the lease of a job in flight goes by time alone.
OnlyOwnLeaseEnds ==
  [][ \A j \in Jobs : lease.holder = j /\ lease.left > 0 /\ j \in Running /\ j \in Running' =>
        /\ lease'.holder = j
        /\ lease'.left > lease.left => jobs'[j].quiet = 0 /\ heartbeat' = 0 ]_backupVars

\* As long as no two jobs met, a destination with a success on record has an
\* archive of the size that was sent and at least as new: the clean-up and the
\* uploads of later runs, refused, repeated or half done, leave one there.  An
\* administrator who deletes it by hand (handleDeleteAdminRemoteBackup) does not.
RecordedIsStored == "job" \notin mixed =>
  \A d \in Destinations : runtimes[d].file # 0 =>
    \E f \in remote[d] \ broken : f >= runtimes[d].file

\* A scheduled job that ends after runs that all went well leaves no slot of
\* its time without a backup, though one run kept it from looking at the
\* other destinations past the window or a local midnight, unless other jobs or saves
\* of the settings came in between.
NoSlotLost ==
  [][ \A j \in Jobs :
        Scan(j) /\ jobs'[j].step = "idle" /\ ~jobs[j].failure /\ mixed = {} =>
          \A d \in Destinations : \A s \in Slots[d] :
            jobs[j].begun <= s /\ s <= today => runtimes[d].success >= s ]_backupVars
=============================================================================
