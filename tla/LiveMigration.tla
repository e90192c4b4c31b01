--------------------------- MODULE LiveMigration ---------------------------
(***************************************************************************)
(* The live migration of one guest by Nova's libvirt driver: a thread that *)
(* blocks in libvirt's migrate call, a monitor that polls the job, runs    *)
(* the tasks other threads record, and in the end calls the compute        *)
(* manager (external) back, and the preparation and the cleanup of the     *)
(* destination.  Every call of libvirt gives up the processor, so what the *)
(* monitor has read may be stale when it acts.                             *)
(***************************************************************************)
EXTENDS Naturals, Sequences

CONSTANTS
  MaxRequests,   \* bound: force-complete and abort requests of users
  MaxMigrations, \* bound: attempts to migrate
  MaxFaults      \* bound: failures of the database, of libvirt or of a host

ASSUME LiveMigrationAssumption ==
  MaxRequests \in Nat /\ MaxMigrations \in Nat /\ MaxFaults \in Nat

VARIABLES
  conf,        \* post-copy enabled, timeout action, shared path, port bindings
  domain,      \* the libvirt domain on either host
  job,         \* type of the libvirt job on the source
  postcopy,    \* libvirt is in the post-copy phase
  op,          \* the operation thread
  monitor,     \* the step of the monitoring thread
  seen,        \* the job type it has read
  active,      \* active_migrations[uuid]: the recorded tasks
  recovery,    \* on_migration_failure has an "unpause"
  status,      \* migration.status
  timedOut,    \* the completion timeout has passed
  record,      \* the host Nova has on record for the instance
  res,         \* what a host holds for the guest
  passthrough, \* the guest has its direct passthrough interface
  requests, migrations, faults

guest == <<domain, job, postcopy, op>>
nova == <<active, recovery, status, timedOut>>
place == <<record, res, passthrough>>
counts == <<requests, migrations, faults>>
vars == <<conf, guest, monitor, seen, nova, place, counts>>

Absent == <<"absent">>
Job == {"none", "unbounded", "completed", "failed", "cancelled"}
Step == {"idle", "dir", "volumes", "vifs", "poll", "tasks", "disconnect", "unplug",
         "arrive", "unpause", "roll_source", "roll_destination", "clear",
         "abort", "abandoned"}

TypeOK ==
  /\ conf \in [postcopy : BOOLEAN, action : {"abort", "force_complete"},
               shared : BOOLEAN, vifs : BOOLEAN]
  /\ domain \in [source : {"running", "paused", "gone", "off", "lost"},
                 destination : {"none", "paused", "running"}]
  /\ job \in Job /\ seen \in Job
  /\ op \in {"off", "prepare", "migrate", "returning", "finished"}
  /\ monitor \in Step
  /\ \/ active = Absent
     \/ active \in Seq({"force-complete"}) /\ Len(active) <= MaxRequests + 1
  /\ status \in {"running", "running (post-copy)"}
  /\ postcopy \in BOOLEAN /\ recovery \in BOOLEAN
  /\ timedOut \in BOOLEAN /\ passthrough \in BOOLEAN
  /\ record \in {"source", "destination"}
  /\ res \in [source : SUBSET {"dir", "volumes", "vifs"},
              destination : SUBSET {"dir", "volumes", "vifs"}]
  /\ requests \in 0 .. MaxRequests /\ migrations \in 0 .. MaxMigrations
  /\ faults \in 0 .. MaxFaults

\* A guest that has shut off on the source ("off"), or whose memory a failed
\* post-copy has torn apart ("lost"), runs nowhere.
At ==
  IF domain.destination = "running" THEN "destination"
  ELSE IF domain.source \in {"off", "lost"} THEN "nowhere" ELSE "source"

Held == {"volumes", "vifs"} \union IF conf.shared THEN {} ELSE {"dir"}

Init ==
  /\ conf \in [postcopy : BOOLEAN, action : {"abort", "force_complete"},
               shared : BOOLEAN, vifs : BOOLEAN]
  /\ domain = [source |-> "running", destination |-> "none"]
  /\ job = "none" /\ postcopy = FALSE /\ op = "off"
  /\ monitor = "idle" /\ seen = "none"
  /\ active = Absent /\ recovery = FALSE /\ status = "running" /\ timedOut = FALSE
  /\ record = "source" /\ res = [source |-> Held, destination |-> {}]
  /\ passthrough = TRUE
  /\ requests = 0 /\ migrations = 0 /\ faults = 0

Fault == faults < MaxFaults /\ faults' = faults + 1 /\ UNCHANGED <<requests, migrations>>
Request == requests < MaxRequests /\ requests' = requests + 1 /\ UNCHANGED <<migrations, faults>>
Goto(step) == monitor' = step
Take(h, r) == res' = [res EXCEPT ![h] = @ \union {r}]
Drop(h, r) == res' = [res EXCEPT ![h] = @ \ {r}]

-----------------------------------------------------------------------------
(***************************************************************************)
(* pre_live_migration on the destination.                                  *)
(***************************************************************************)

Ask ==
  /\ monitor \in {"idle", "abandoned"} /\ op \in {"off", "finished"}
  /\ record = "source" /\ At = "source"
  /\ migrations < MaxMigrations
  /\ migrations' = migrations + 1
  /\ status' = "running" /\ seen' = "none"
  /\ Goto("dir")
  /\ UNCHANGED <<conf, guest, active, recovery, timedOut, place, requests, faults>>

\* A directory that exists is an error.
CreateDirectory ==
  /\ monitor = "dir"
  /\ IF conf.shared THEN Goto("volumes") /\ UNCHANGED res
     ELSE IF "dir" \in res.destination THEN Goto("roll_source") /\ UNCHANGED res
     ELSE Goto("volumes") /\ Take("destination", "dir")
  /\ UNCHANGED <<conf, guest, seen, nova, record, passthrough, counts>>

ConnectVolumes ==
  /\ monitor = "volumes"
  /\ Goto("vifs") /\ Take("destination", "volumes")
  /\ UNCHANGED <<conf, guest, seen, nova, record, passthrough, counts>>

\* Mutant: the retries end without an error.
PlugVifsGivesUp == UNCHANGED res

PlugVifs == Take("destination", "vifs")

\* With the interfaces plugged, live_migration starts both threads on the
\* source; the first thing the operation does is let the monitor run.
PlugAndStart ==
  /\ monitor = "vifs"
  /\ PlugVifs
  /\ op' = "prepare" /\ job' = "none" /\ postcopy' = FALSE
  /\ active' = <<>> /\ recovery' = FALSE /\ timedOut' = FALSE
  /\ Goto("poll")
  /\ UNCHANGED <<conf, domain, seen, status, record, passthrough, counts>>

PreparationFails ==
  /\ monitor \in {"dir", "volumes", "vifs"}
  /\ Fault
  /\ Goto("roll_source")
  /\ UNCHANGED <<conf, guest, seen, nova, place>>

-----------------------------------------------------------------------------
(***************************************************************************)
(* _live_migration_operation, and libvirt.                                 *)
(***************************************************************************)

\* With port bindings, direct passthrough interfaces are detached, and
\* whatever fails later, only a rollback attaches them again.
DetachPassthrough ==
  /\ op = "prepare" /\ conf.vifs /\ passthrough
  /\ passthrough' = FALSE
  /\ UNCHANGED <<conf, guest, monitor, seen, nova, record, res, counts>>

Migrate ==
  /\ op = "prepare" /\ (conf.vifs => ~passthrough)
  /\ domain.source # "off"
  /\ op' = "migrate" /\ job' = "unbounded"
  /\ domain' = [domain EXCEPT !.destination = "paused"]
  /\ UNCHANGED <<conf, postcopy, monitor, seen, nova, place, counts>>

\* The domain on record cannot be changed, or libvirt refuses: it does when the
\* guest has shut off.
MigrateRaises ==
  /\ op = "prepare"
  /\ op' = "finished"
  /\ UNCHANGED <<conf, domain, job, postcopy, monitor, seen, nova, place, counts>>

\* The job is over before the call returns; what its type reads then is up to
\* libvirt.
Completes ==
  /\ op = "migrate"
  /\ domain' = [source |-> "gone", destination |-> "running"]
  /\ op' = "returning" /\ job' \in {"none", "completed"} /\ postcopy' = FALSE
  /\ UNCHANGED <<conf, monitor, seen, nova, place, counts>>

Cancellable == op = "migrate" /\ ~postcopy

Ends(type) ==
  /\ domain' = [domain EXCEPT !.destination = "none"]
  /\ op' = "returning" /\ job' \in {"none", type}
  /\ UNCHANGED postcopy

Fails ==
  /\ Cancellable
  /\ Ends("failed")
  /\ UNCHANGED <<conf, monitor, seen, nova, place, counts>>

\* Neither host can go on alone, and libvirt leaves both halves paused.
PostcopyFails ==
  /\ op = "migrate" /\ postcopy /\ Fault
  /\ domain' = [source |-> "lost", destination |-> "paused"]
  /\ op' = "returning" /\ job' \in {"none", "failed"} /\ postcopy' = FALSE
  /\ UNCHANGED <<conf, monitor, seen, nova, place>>

\* The guest shuts itself off, or crashes, before it has moved; that ends a job.
ShutsOff ==
  /\ monitor \notin {"idle", "abandoned"}
  /\ domain.source \in {"running", "paused"} /\ ~postcopy
  /\ domain' = [source |-> "off", destination |-> "none"]
  /\ op' = IF op = "migrate" THEN "returning" ELSE op
  /\ job' = "none"
  /\ UNCHANGED <<conf, postcopy, monitor, seen, nova, place, counts>>

\* Both outcomes lead to the event the monitor looks at.
Returns ==
  /\ op = "returning"
  /\ op' = "finished"
  /\ UNCHANGED <<conf, domain, job, postcopy, monitor, seen, nova, place, counts>>

\* Users: live_migration_abort, and a task recorded for the monitor.
UserAborts ==
  /\ Cancellable /\ Request
  /\ Ends("cancelled")
  /\ UNCHANGED <<conf, monitor, seen, nova, place>>

ForceComplete ==
  /\ active # Absent /\ Request
  /\ active' = Append(active, "force-complete")
  /\ UNCHANGED <<conf, guest, monitor, seen, recovery, status, timedOut, place>>

-----------------------------------------------------------------------------
(***************************************************************************)
(* _live_migration_monitor.                                                *)
(***************************************************************************)

\* On the source the domain is gone, or defined but not active.
Inactive == domain.source \in {"gone", "off"}

\* Mutant: a domain that is gone reads as failure.
JobInfoFailed == IF job = "none" /\ Inactive THEN "failed" ELSE job

\* get_job_info: a domain that is gone reads as success, and so does one that
\* has shut off.
JobInfo == IF job = "none" /\ Inactive THEN "completed" ELSE job

\* find_job_type: without a job, an active guest tells failure.
JobType ==
  IF JobInfo # "none" \/ op # "finished" THEN JobInfo
  ELSE IF Inactive THEN "completed" ELSE "failed"

Poll ==
  /\ monitor = "poll"
  /\ seen' = JobType
  /\ monitor' = CASE seen' = "none" -> "poll"
                  [] seen' = "unbounded" -> "tasks"
                  [] seen' = "completed" -> "disconnect"
                  [] seen' \in {"failed", "cancelled"} -> "unpause"
  /\ UNCHANGED <<conf, guest, nova, place, counts>>

\* The switch to post-copy fails if the job is over; the status then stays.
SwitchToPostCopy ==
  IF Cancellable
  THEN /\ domain' = [source |-> "paused", destination |-> "running"]
       /\ postcopy' = TRUE
       /\ status' = "running (post-copy)"
       /\ UNCHANGED <<job, op, recovery>>
  ELSE UNCHANGED <<guest, status, recovery>>

\* Mutant: nothing is recorded for the recovery.
PauseUnrecorded ==
  IF domain.source \in {"running", "paused"}
  THEN domain' = [domain EXCEPT !.source = "paused"] /\ UNCHANGED <<job, postcopy, op, recovery>>
  ELSE UNCHANGED <<guest, recovery>>

Pause ==
  IF domain.source \in {"running", "paused"}
  THEN /\ domain' = [domain EXCEPT !.source = "paused"]
       /\ recovery' = TRUE
       /\ UNCHANGED <<job, postcopy, op>>
  ELSE UNCHANGED <<guest, recovery>>

\* One task of run_tasks.
RunTask ==
  /\ monitor = "tasks" /\ active \notin {Absent, <<>>}
  /\ active' = Tail(active)
  /\ IF status = "running (post-copy)" THEN UNCHANGED <<guest, status, recovery>>
     ELSE IF conf.postcopy THEN SwitchToPostCopy
     ELSE Pause /\ UNCHANGED status
  /\ UNCHANGED <<conf, monitor, seen, timedOut, place, counts>>

\* Mutant: the test of the status is inverted.
TriggerInverted == timedOut /\ status = "running (post-copy)"

TriggerTimeout == timedOut /\ status # "running (post-copy)"

\* Mutant: the timeout is looked at before the tasks have been run.
CheckTimeoutFirst ==
  /\ monitor = "tasks" /\ active # Absent
  /\ IF TriggerTimeout /\ conf.action = "force_complete"
     THEN active' = Append(active, "force-complete") ELSE UNCHANGED active
  /\ Goto("poll")
  /\ UNCHANGED <<conf, guest, seen, recovery, status, timedOut, place, counts>>

\* The rest of an iteration on a running job.
CheckTimeout ==
  /\ monitor = "tasks" /\ active = <<>>
  /\ IF ~TriggerTimeout THEN Goto("poll") /\ UNCHANGED <<guest, active>>
     ELSE IF conf.action = "force_complete"
     THEN Goto("poll") /\ active' = Append(active, "force-complete") /\ UNCHANGED guest
     ELSE IF Cancellable
     THEN Goto("poll") /\ Ends("cancelled") /\ UNCHANGED active
     \* The job ended meanwhile: libvirt refuses to abort it, and that is raised.
     ELSE Goto("abort") /\ active' = Absent /\ UNCHANGED guest
  /\ UNCHANGED <<conf, seen, recovery, status, timedOut, place, counts>>

Over == monitor \in {"idle", "abandoned"}

TimePasses ==
  /\ ~Over /\ ~timedOut
  /\ timedOut' = TRUE
  /\ UNCHANGED <<conf, guest, monitor, seen, active, recovery, status, place, counts>>

\* The database or libvirt fails the monitor.
MonitorRaises ==
  /\ monitor \in {"poll", "tasks", "disconnect", "unplug", "arrive"}
  /\ Fault
  /\ Goto("abort")
  /\ UNCHANGED <<conf, guest, seen, nova, place>>

\* Whatever failed in the monitor, the job is aborted if it still can be.
AbortAndRaise ==
  /\ monitor = "abort"
  /\ IF Cancellable THEN Ends("cancelled") ELSE UNCHANGED guest
  /\ Goto("abandoned")
  /\ UNCHANGED <<conf, seen, nova, place, counts>>

-----------------------------------------------------------------------------
(***************************************************************************)
(* post_method and recover_method of the manager, and what they call here. *)
(***************************************************************************)

\* A volume that cannot be disconnected is left, and the guest still arrives.
DisconnectSource ==
  /\ monitor = "disconnect"
  /\ \/ Drop("source", "volumes") /\ UNCHANGED counts
     \/ Fault /\ UNCHANGED res
  /\ Goto("unplug")
  /\ UNCHANGED <<conf, guest, seen, nova, record, passthrough>>

UnplugSource ==
  /\ monitor = "unplug"
  /\ Drop("source", "vifs")
  /\ Goto("arrive")
  /\ UNCHANGED <<conf, guest, seen, nova, record, passthrough, counts>>

\* The manager moves the record also when the destination does not know the
\* guest, which then gets no interface attached.
Arrive ==
  /\ monitor = "arrive"
  /\ passthrough' = (domain.destination = "running" \/ passthrough)
  /\ record' = "destination"
  /\ Goto("clear")
  /\ UNCHANGED <<conf, guest, seen, nova, res, counts>>

\* run_recover_tasks.
Unpause ==
  /\ monitor = "unpause"
  /\ domain' = IF recovery /\ domain.source = "paused"
               THEN [domain EXCEPT !.source = "running"] ELSE domain
  /\ recovery' = FALSE
  /\ Goto("roll_source")
  /\ UNCHANGED <<conf, job, postcopy, op, seen, active, status, timedOut, place, counts>>

\* Mutant: the release for Ubuntu 20.04, which reads the bindings unasked.
RollbackSourceFocal ==
  /\ monitor = "roll_source"
  /\ IF conf.vifs THEN passthrough' = TRUE /\ Goto("roll_destination")
                  ELSE Goto("abort") /\ UNCHANGED passthrough
  /\ UNCHANGED <<conf, guest, seen, nova, record, res, counts>>

\* Mutant: the interface is not attached again.
RollbackSourceForgets ==
  /\ monitor = "roll_source"
  /\ Goto("roll_destination")
  /\ UNCHANGED <<conf, guest, seen, nova, place, counts>>

RollbackSource ==
  /\ monitor = "roll_source"
  /\ passthrough' = (conf.vifs \/ passthrough)
  /\ Goto("roll_destination")
  /\ UNCHANGED <<conf, guest, seen, nova, record, res, counts>>

\* Mutant: the directory is left.
RollbackKeepsDirectory ==
  /\ monitor = "roll_destination"
  /\ domain' = [domain EXCEPT !.destination = "none"]
  /\ res' = [res EXCEPT !.destination = @ \cap {"dir"}]
  /\ Goto(IF seen = "none" THEN "idle" ELSE "clear")
  /\ UNCHANGED <<conf, job, postcopy, op, seen, nova, record, passthrough, counts>>

\* destroy may fail half way; the directory is deleted in any case.
RollbackDestination ==
  /\ monitor = "roll_destination"
  /\ \/ /\ domain' = [domain EXCEPT !.destination = "none"]
        /\ res' = [res EXCEPT !.destination = {}]
        /\ Goto(IF seen = "none" THEN "idle" ELSE "clear")
        /\ UNCHANGED counts
     \/ /\ Fault
        /\ Drop("destination", "dir")
        /\ Goto("abort")
        /\ UNCHANGED domain
  /\ UNCHANGED <<conf, job, postcopy, op, seen, nova, record, passthrough>>

\* _clear_empty_migration.
Clear ==
  /\ monitor = "clear"
  /\ active' = Absent
  /\ Goto("idle")
  /\ UNCHANGED <<conf, guest, seen, recovery, status, timedOut, place, counts>>

-----------------------------------------------------------------------------
Operation ==
  DetachPassthrough \/ Migrate \/ MigrateRaises \/ Completes \/ Fails
  \/ PostcopyFails \/ Returns

Monitoring ==
  \/ CreateDirectory \/ ConnectVolumes \/ PlugAndStart
  \/ Poll \/ RunTask \/ CheckTimeout \/ AbortAndRaise
  \/ DisconnectSource \/ UnplugSource \/ Arrive
  \/ Unpause \/ RollbackSource \/ RollbackDestination \/ Clear

Environment ==
  Ask \/ ShutsOff \/ UserAborts \/ ForceComplete \/ TimePasses \/ PreparationFails \/ MonitorRaises

Next == Operation \/ Monitoring \/ Environment

Spec == Init /\ [][Next]_vars

\* The threads go on and time passes.  Libvirt need not finish: a guest that
\* runs on the source may dirty its memory faster than it is copied.  One that
\* is paused there, or has been switched to post-copy, converges.
Converges == domain.source = "paused" /\ Completes
FairSpec ==
  /\ Spec
  /\ WF_vars(Monitoring) /\ WF_vars(TimePasses)
  /\ WF_vars(DetachPassthrough \/ Migrate \/ MigrateRaises \/ Returns) /\ WF_vars(Converges)

-----------------------------------------------------------------------------
Placement == INSTANCE GuestPlacement WITH
  at <- At,
  phase <- IF monitor \in {"idle", "abandoned"} THEN monitor ELSE "moving"

\* The migration implements what GuestPlacement promises: the guest never comes
\* back from the destination, whatever is polled, timed out, aborted or rolled
\* back at the same time, and the record follows it and is right when the
\* monitor is done.  Of a guest that has shut off on the source meanwhile, which
\* is read as migrated, or was lost in a post-copy, the record may name either
\* host (driver_22.04.py:10142-10307, guest.py:664-670).
PlacementHolds == Placement!Spec

\* Whoever executes the guest has its volumes connected and its interfaces
\* plugged: no rollback takes them from a guest that has moved, and the source
\* gives nothing up before, unless the guest has stopped
\* (driver_22.04.py:10482-10508, 10804-10830).
GuestHasResources == At # "nowhere" => {"volumes", "vifs"} \subseteq res[At]

\* A migration that was watched to its end leaves a guest that has not stopped
\* running, although a forced completion may have paused it right before the
\* migration failed, was cancelled or timed out (migration.py:637-713).
PausedIsResumed ==
  monitor = "idle" /\ migrations = 1 /\ At # "nowhere" => domain[record] = "running"

\* It leaves nothing on the other host; a source volume only if it could not be
\* disconnected (driver_22.04.py:10482-10508, 10804-10838).
NothingLeft ==
  monitor = "idle" /\ migrations > 0 =>
    IF record = "source"
    THEN res.destination = {} /\ domain.destination = "none"
    ELSE "vifs" \notin res.source /\ (faults = 0 => "volumes" \notin res.source)

\* The direct passthrough interface that is detached for the time of the
\* migration is back afterwards, on either host, whatever the migration came to,
\* if the guest has not stopped (driver_22.04.py:9868-9886, 10447-10480).
PassthroughBack == monitor = "idle" /\ At # "nowhere" => passthrough

\* Without a failure underneath, no migration is left half done: the rollback
\* copes with every kind of migration data, with and without port bindings.
\* The one exception is a job that ends while the timeout is about to abort it
\* (driver_22.04.py:10470-10480, 10195-10207).
OnlyTimeoutAbandons ==
  monitor = "abandoned" /\ faults = 0 => timedOut /\ conf.action = "abort"

\* Whichever thread is ahead, the guest keeps what it needs where it runs, and
\* a migration that has ended left nothing behind or undone
\* (driver_22.04.py:10142-10307, 10447-10508).
EndsClean ==
  GuestHasResources /\ PausedIsResumed /\ NothingLeft /\ PassthroughBack /\ OnlyTimeoutAbandons

\* Every migration ends, also that of a guest that never converges: the timeout
\* aborts it, or completes it by force (migration.py:508-538, 637-679).
MigrationEnds == ~Over ~> Over
=============================================================================
