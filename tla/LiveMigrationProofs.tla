------------------------- MODULE LiveMigrationProofs -------------------------
(***************************************************************************)
(* For any number of requests, migrations and faults, the live migration   *)
(* is type correct, ends clean, and implements GuestPlacement.             *)
(***************************************************************************)
EXTENDS LiveMigration, TLAPS

\* TypeOK in parts: the provers do better on one kind of value at a time.
Bounded ==
  /\ requests \in 0 .. MaxRequests /\ migrations \in 0 .. MaxMigrations
  /\ faults \in 0 .. MaxFaults

Flags ==
  /\ postcopy \in BOOLEAN /\ recovery \in BOOLEAN
  /\ timedOut \in BOOLEAN /\ passthrough \in BOOLEAN

ConfTyped ==
  conf \in [postcopy : BOOLEAN, action : {"abort", "force_complete"},
            shared : BOOLEAN, vifs : BOOLEAN]

Kinds ==
  /\ job \in Job /\ seen \in Job
  /\ op \in {"off", "prepare", "migrate", "returning", "finished"}
  /\ monitor \in Step
  /\ status \in {"running", "running (post-copy)"}
  /\ record \in {"source", "destination"}

DomainTyped ==
  domain \in [source : {"running", "paused", "gone", "off", "lost"},
              destination : {"none", "paused", "running"}]

Resources == {"dir", "volumes", "vifs"}

ResTyped == res \in [source : SUBSET Resources, destination : SUBSET Resources]

\* There are never more tasks than users asked for, and one for the timeout.
TasksBounded ==
  active = Absent \/ (active \in Seq({"force-complete"}) /\ Len(active) <= requests + 1)

Typed == Bounded /\ Flags /\ ConfTyped /\ Kinds /\ DomainTyped /\ ResTyped /\ TasksBounded

-----------------------------------------------------------------------------
(***************************************************************************)
(* The inductive invariant: how the five states of a migration fit: the    *)
(* domain, the operation thread, the monitor, the resources, the record.   *)
(***************************************************************************)

Watching == {"poll", "tasks", "abort", "abandoned"}
Preparing == {"dir", "volumes", "vifs"}
RollingBack == {"unpause", "roll_source", "roll_destination"}
Leaving == {"disconnect", "unplug", "arrive"}
Done == {"clear", "idle"}

\* What the operation and its job tell of the domain: the destination runs the
\* guest only in post-copy, or when the source has given it up; a guest that has
\* shut off or is lost is in no job.
DomainMatches ==
  /\ op = "prepare" => job = "none"
  /\ op = "migrate" => job = "unbounded"
  /\ job = "completed" => domain.source = "gone"
  /\ job \in {"failed", "cancelled"} => domain.destination = "none" \/ domain.source = "lost"
  /\ domain.destination = "none" => domain.source # "gone" /\ op # "migrate"
  /\ domain.destination = "paused" =>
       \/ domain.source \in {"running", "paused"} /\ op = "migrate"
       \/ domain.source = "lost"
  /\ domain.destination = "running" =>
       \/ domain.source = "paused" /\ op = "migrate"
       \/ domain.source = "gone" /\ op \in {"returning", "finished"}
  /\ op = "off" => domain.source \in {"running", "off"}
  /\ domain.source = "off" => domain.destination = "none" /\ job = "none"
  /\ domain.source = "lost" => op \in {"returning", "finished"} /\ job \in {"none", "failed"}
PostcopyMatches ==
  postcopy <=> (op = "migrate" /\ domain.destination = "running")

\* What the step of the monitor tells: it prepares and rolls back only while
\* the destination does not have the guest, and gives things up only when the
\* source has not.
MonitorMatches ==
  /\ op \in {"prepare", "migrate"} =>
       \/ monitor \in Watching
       \/ domain.source = "off" /\ (monitor \in Leaving \/ record = "destination")
  /\ op = "off" => monitor \notin Leaving \union {"poll", "tasks", "unpause"}
  /\ monitor \in Preparing => domain.destination = "none" /\ domain.source # "lost"
  /\ monitor \in RollingBack => domain.destination = "none" \/ domain.source = "lost"
  /\ monitor \in Leaving => Inactive
  /\ monitor \in Done /\ record = "source" => domain.destination = "none"
  /\ record = "destination" => Inactive /\ monitor \in Done
  /\ migrations = 0 => monitor = "idle" /\ op = "off"

\* Where the guest may run, its volumes and interfaces are.
ResourcesMatch ==
  /\ (domain.destination # "running" \/ op = "migrate") /\ domain.source # "off" =>
       {"volumes", "vifs"} \subseteq res.source
  /\ op \in {"prepare", "migrate"} \/ domain.destination = "running" =>
       {"volumes", "vifs"} \subseteq res.destination
  /\ monitor = "vifs" => "volumes" \in res.destination
  /\ monitor \in Done /\ record = "source" => res.destination = {}
  /\ monitor = "arrive" \/ record = "destination" => "vifs" \notin res.source
  /\ (monitor \in {"unplug", "arrive"} \/ record = "destination") /\ faults = 0 =>
       "volumes" \notin res.source

\* In the first migration, a guest that a task has paused is going to be
\* resumed, unless the monitor has been abandoned.
PauseMatches ==
  migrations <= 1 /\ domain.source = "paused" =>
    \/ op = "migrate" /\ domain.destination = "running"
    \/ recovery /\ monitor \in Watching \union {"unpause"}

PassthroughMatches ==
  /\ conf.vifs \/ passthrough
  /\ monitor \in Done \union {"roll_destination"} /\ domain.source # "off" => passthrough

\* The monitor gives up, without a failure underneath, only at the timeout.
OnlyTimeoutAborts ==
  monitor \in {"abort", "abandoned"} /\ faults = 0 => timedOut /\ conf.action = "abort"

IInv ==
  /\ DomainMatches /\ PostcopyMatches /\ MonitorMatches /\ ResourcesMatch
  /\ PauseMatches /\ PassthroughMatches /\ OnlyTimeoutAborts

-----------------------------------------------------------------------------
\* Of the steps, eleven change the domain; its type survives them.
LEMMA DomainStaysTyped == DomainTyped /\ [Next]_vars => DomainTyped'
<1> SUFFICES ASSUME DomainTyped, [Next]_vars PROVE DomainTyped'
  OBVIOUS
<1> USE DEF DomainTyped, guest, Ends
<1>1. \/ UNCHANGED domain
      \/ Migrate
      \/ Completes
      \/ Fails
      \/ PostcopyFails
      \/ ShutsOff
      \/ UserAborts
      \/ RunTask
      \/ CheckTimeout
      \/ AbortAndRaise
      \/ Unpause
      \/ RollbackDestination
  BY DEF vars, Next, Operation, Monitoring, Environment,
         DetachPassthrough, MigrateRaises, Returns, CreateDirectory, ConnectVolumes,
         PlugAndStart, Poll, DisconnectSource, UnplugSource, Arrive, RollbackSource,
         Clear, Ask, ForceComplete, TimePasses, PreparationFails, MonitorRaises
<1>2. CASE UNCHANGED domain
  BY <1>2
<1>3. CASE Migrate
  BY <1>3 DEF Migrate
<1>4. CASE Completes
  BY <1>4 DEF Completes
<1>5. CASE Fails
  BY <1>5 DEF Fails
<1>6. CASE UserAborts
  BY <1>6 DEF UserAborts
<1>13. CASE PostcopyFails
  BY <1>13 DEF PostcopyFails
<1>14. CASE ShutsOff
  BY <1>14 DEF ShutsOff
<1>7. CASE RunTask
  <2>1. \/ UNCHANGED domain
        \/ domain' = [source |-> "paused", destination |-> "running"]
        \/ domain' = [domain EXCEPT !.source = "paused"]
    BY <1>7 DEF RunTask, SwitchToPostCopy, Pause
  <2>2. QED
    BY <2>1
<1>8. CASE CheckTimeout
  BY <1>8 DEF CheckTimeout
<1>9. CASE AbortAndRaise
  BY <1>9 DEF AbortAndRaise
<1>10. CASE Unpause
  BY <1>10 DEF Unpause
<1>11. CASE RollbackDestination
  BY <1>11 DEF RollbackDestination
<1>12. QED
  BY <1>1, <1>2, <1>3, <1>4, <1>5, <1>6, <1>7, <1>8, <1>9, <1>10, <1>11, <1>13, <1>14

\* A failure, a request or an attempt is counted, and only up to its bound.
LEMMA CountersStayBounded == Bounded /\ [Next]_vars => Bounded'
<1> SUFFICES ASSUME Bounded, [Next]_vars PROVE Bounded'
  OBVIOUS
<1>1. \/ UNCHANGED counts \/ Fault \/ Request
      \/ /\ migrations < MaxMigrations /\ migrations' = migrations + 1
         /\ UNCHANGED <<requests, faults>>
  BY DEF vars, Next, Operation, Monitoring, Environment,
         DetachPassthrough, Migrate, MigrateRaises, Completes, Fails, PostcopyFails, ShutsOff, Returns,
         CreateDirectory, ConnectVolumes, PlugAndStart, Poll, RunTask,
         CheckTimeout, AbortAndRaise, DisconnectSource, UnplugSource, Arrive,
         Unpause, RollbackSource, RollbackDestination, Clear, Ask, UserAborts,
         ForceComplete, TimePasses, PreparationFails, MonitorRaises
<1> USE LiveMigrationAssumption DEF Bounded
<1>2. CASE UNCHANGED counts
  BY <1>2 DEF counts
<1>3. CASE Fault
  BY <1>3 DEF Fault
<1>4. CASE Request
  BY <1>4 DEF Request
<1>5. CASE /\ migrations < MaxMigrations /\ migrations' = migrations + 1
           /\ UNCHANGED <<requests, faults>>
  BY <1>5
<1>6. QED
  BY <1>1, <1>2, <1>3, <1>4, <1>5

\* What a count of zero tells of the step before.
LEMMA Counted ==
  /\ Bounded /\ Fault => faults' # 0 /\ UNCHANGED migrations
  /\ Bounded /\ Ask => migrations' # 0 /\ (migrations' <= 1 => migrations = 0)
<1>1. Bounded => faults \in Nat /\ migrations \in Nat
  BY LiveMigrationAssumption DEF Bounded
<1>2. QED
  BY <1>1 DEF Fault, Ask

\* The recorded tasks: requests add one each, and so does the timeout, when all
\* the others have been run.
LEMMA TasksStayBounded == Bounded /\ TasksBounded /\ [Next]_vars => TasksBounded'
<1>0. \A n \in Nat : 0 <= n + 1 /\ 1 <= n + 1
  OBVIOUS
<1> SUFFICES ASSUME Bounded, TasksBounded, [Next]_vars PROVE TasksBounded'
  OBVIOUS
<1> USE LiveMigrationAssumption DEF Bounded
<1>1. \/ active' \in {active, <<>>, Absent} /\ requests' \in {requests, requests + 1}
      \/ ForceComplete \/ RunTask \/ CheckTimeout
  BY DEF vars, Next, Operation, Monitoring, Environment, nova, counts, Fault, Request,
         DetachPassthrough, Migrate, MigrateRaises, Completes, Fails, PostcopyFails, ShutsOff, Returns,
         CreateDirectory, ConnectVolumes, PlugAndStart, Poll, AbortAndRaise,
         DisconnectSource, UnplugSource, Arrive, Unpause, RollbackSource,
         RollbackDestination, Clear, Ask, UserAborts, TimePasses,
         PreparationFails, MonitorRaises
<1>2. CASE active' \in {active, <<>>, Absent} /\ requests' \in {requests, requests + 1}
  <2>1. requests \in Nat /\ requests' \in Nat /\ requests <= requests'
    BY <1>2
  <2>2. CASE active' = active
    BY <2>1, <2>2 DEF TasksBounded
  <2>3. CASE active' = <<>>
    <3>1. active' \in Seq({"force-complete"}) /\ Len(active') = 0
      BY <2>3
    <3>2. 0 <= requests' + 1
      BY <1>0, <2>1
    <3>3. QED
      BY <3>1, <3>2 DEF TasksBounded
  <2>4. CASE active' = Absent
    BY <2>4 DEF TasksBounded
  <2>5. QED
    BY <1>2, <2>2, <2>3, <2>4
<1>3. CASE ForceComplete
  <2>1. active # Absent /\ active' = Append(active, "force-complete")
    BY <1>3 DEF ForceComplete
  <2>2. active \in Seq({"force-complete"}) /\ Len(active) <= requests + 1
    BY <2>1 DEF TasksBounded
  <2>3. active' \in Seq({"force-complete"}) /\ Len(active') = Len(active) + 1
    BY <2>1, <2>2
  <2>4. requests' = requests + 1
    BY <1>3 DEF ForceComplete, Request
  <2>5. Len(active) \in Nat
    BY <2>2
  <2>6. QED
    BY <2>2, <2>3, <2>4, <2>5 DEF TasksBounded
<1>4. CASE RunTask
  <2>1. active # Absent /\ active # <<>> /\ active' = Tail(active)
    BY <1>4 DEF RunTask
  <2>2. active \in Seq({"force-complete"}) /\ Len(active) <= requests + 1
    BY <2>1 DEF TasksBounded
  <2>3. active' \in Seq({"force-complete"}) /\ Len(active') = Len(active) - 1
    BY <2>1, <2>2
  <2>4. requests' = requests
    BY <1>4 DEF RunTask, counts
  <2>5. Len(active) \in Nat
    BY <2>2
  <2>6. QED
    BY <2>2, <2>3, <2>4, <2>5 DEF TasksBounded
<1>5. CASE CheckTimeout
  <2>1. /\ active = <<>> /\ requests' = requests
        /\ active' \in {active, Append(active, "force-complete"), Absent}
    BY <1>5 DEF CheckTimeout, counts
  <2>2. CASE active' = Append(active, "force-complete")
    <3>1. active' \in Seq({"force-complete"}) /\ Len(active') = 1
      BY <2>1, <2>2
    <3>2. requests' \in Nat
      BY <2>1
    <3>3. 1 <= requests' + 1
      BY <1>0, <3>2
    <3>4. QED
      BY <3>1, <3>3 DEF TasksBounded
  <2>3. CASE active' \in {active, Absent}
    BY <2>1, <2>3 DEF TasksBounded
  <2>4. QED
    BY <2>1, <2>2, <2>3
<1>6. QED
  BY <1>1, <1>2, <1>3, <1>4, <1>5

\* Every variable keeps its type.
LEMMA TypeInvariant == Spec => []Typed
<1>1. Init => Typed
  <2>1. Init => Bounded
    BY LiveMigrationAssumption DEF Init, Bounded
  <2>2. Init => Flags /\ ConfTyped /\ Kinds /\ TasksBounded
    BY DEF Init, Flags, ConfTyped, Kinds, TasksBounded, Job, Step
  <2>3. Init => DomainTyped
    BY DEF Init, DomainTyped
  <2>4. Init => ResTyped
    BY DEF Init, ResTyped, Resources, Held
  <2>5. QED
    BY <2>1, <2>2, <2>3, <2>4 DEF Typed
<1>2. Typed /\ [Next]_vars => Typed'
  <2> SUFFICES ASSUME Typed, [Next]_vars PROVE Typed'
    OBVIOUS
  <2>1. DomainTyped'
    BY DomainStaysTyped DEF Typed
  <2>2. TasksBounded'
    BY TasksStayBounded DEF Typed
  <2> USE DEF vars, guest, nova, place, counts, Goto, Fault, Request,
          Next, Operation, Monitoring, Environment,
          DetachPassthrough, Migrate, MigrateRaises, Completes, Fails, PostcopyFails, ShutsOff, Returns,
          CreateDirectory, ConnectVolumes, PlugAndStart, Poll, RunTask,
          CheckTimeout, AbortAndRaise, DisconnectSource, UnplugSource, Arrive,
          Unpause, RollbackSource, RollbackDestination, Clear, Ask, UserAborts,
          ForceComplete, TimePasses, PreparationFails, MonitorRaises
  <2>3. Bounded'
    BY CountersStayBounded DEF Typed
  <2>4. Flags'
    BY DEF Typed, Flags, Ends, SwitchToPostCopy, Pause
  <2>5. ConfTyped'
    BY DEF Typed, ConfTyped
  <2>6. Kinds'
    BY DEF Typed, Kinds, Job, Step, JobType, JobInfo, Ends, SwitchToPostCopy, Pause
  <2>7. ResTyped'
    BY DEF Typed, ResTyped, Resources, PlugVifs, Take, Drop
  <2>8. QED
    BY <2>1, <2>2, <2>3, <2>4, <2>5, <2>6, <2>7 DEF Typed
<1>3. QED
  BY <1>1, <1>2, PTL DEF Spec

\* What TypeOK says: every state variable has its type, and the recorded tasks
\* are never more than the requests and one of the timeout.
THEOREM TypeCorrect == Spec => []TypeOK
<1>1. Typed => TypeOK
  <2> SUFFICES ASSUME Typed PROVE TypeOK
    OBVIOUS
  <2>1. active = Absent \/ (active \in Seq({"force-complete"}) /\ Len(active) <= MaxRequests + 1)
    <3>1. CASE active = Absent
      BY <3>1
    <3>2. CASE active \in Seq({"force-complete"}) /\ Len(active) <= requests + 1
      <4>1. Len(active) \in Nat /\ requests \in 0 .. MaxRequests
        BY <3>2 DEF Typed, Bounded
      <4>2. Len(active) <= MaxRequests + 1
        BY <3>2, <4>1, LiveMigrationAssumption
      <4>3. QED
        BY <3>2, <4>2
    <3>3. QED
      BY <3>1, <3>2 DEF Typed, TasksBounded
  <2>2. /\ postcopy \in BOOLEAN /\ recovery \in BOOLEAN
        /\ timedOut \in BOOLEAN /\ passthrough \in BOOLEAN
    BY DEF Typed, Flags
  <2>3. QED
    BY <2>1, <2>2 DEF Typed, TypeOK, Bounded, ConfTyped, Kinds, DomainTyped, ResTyped, Resources
<1>2. QED
  BY TypeInvariant, <1>1, PTL

-----------------------------------------------------------------------------
\* The inductive invariant is preserved, whichever thread moves.
LEMMA StepKeepsInvariant == Typed /\ IInv /\ [Next]_vars => IInv'
<1> SUFFICES ASSUME Typed, IInv, [Next]_vars PROVE IInv'
  OBVIOUS
<1> USE DEF Typed, ConfTyped, Kinds, DomainTyped, ResTyped, Job, Step, Resources,
        IInv, DomainMatches, PostcopyMatches, MonitorMatches, ResourcesMatch,
        PauseMatches, PassthroughMatches, OnlyTimeoutAborts,
        Watching, Preparing, RollingBack, Leaving, Done, Inactive,
        guest, nova, place, counts, Goto
<1>1. CASE UNCHANGED vars
  <2>1. DomainMatches' /\ PostcopyMatches'
    BY <1>1 DEF vars
  <2>2. MonitorMatches'
    BY <1>1 DEF vars
  <2>3. ResourcesMatch' /\ PauseMatches'
    BY <1>1 DEF vars
  <2>4. PassthroughMatches' /\ OnlyTimeoutAborts'
    BY <1>1 DEF vars
  <2>5. QED
    BY <2>1, <2>2, <2>3, <2>4
<1>2. CASE Ask
  <2>1. migrations' <= 1 => migrations = 0
    BY <1>2, Counted
  <2>2. migrations' # 0
    BY <1>2, Counted
  <2>3. DomainMatches' /\ PostcopyMatches' /\ MonitorMatches'
    BY <1>2, <2>2 DEF Ask, At
  <2>4. ResourcesMatch' /\ PauseMatches'
    BY <1>2, <2>1 DEF Ask, At
  <2>5. PassthroughMatches' /\ OnlyTimeoutAborts'
    BY <1>2 DEF Ask, At
  <2>6. QED
    BY <2>3, <2>4, <2>5
<1>3. CASE CreateDirectory
  BY <1>3 DEF CreateDirectory, Take
<1>4. CASE ConnectVolumes
  BY <1>4 DEF ConnectVolumes, Take
<1>5. CASE PlugAndStart
  BY <1>5 DEF PlugAndStart, PlugVifs, Take
<1>6. CASE PreparationFails
  BY <1>6 DEF PreparationFails, Fault, Bounded
<1>7. CASE DetachPassthrough
  BY <1>7 DEF DetachPassthrough
<1>8. CASE Migrate
  BY <1>8 DEF Migrate
<1>9. CASE MigrateRaises
  BY <1>9 DEF MigrateRaises
<1>10. CASE Completes
  BY <1>10 DEF Completes
<1>11. CASE Fails
  BY <1>11 DEF Fails, Cancellable, Ends
<1>12. CASE Returns
  <2>1. DomainMatches' /\ PostcopyMatches'
    BY <1>12 DEF Returns
  <2>2. MonitorMatches'
    BY <1>12 DEF Returns
  <2>3. ResourcesMatch' /\ PauseMatches'
    BY <1>12 DEF Returns
  <2>4. PassthroughMatches' /\ OnlyTimeoutAborts'
    BY <1>12 DEF Returns
  <2>5. QED
    BY <2>1, <2>2, <2>3, <2>4
<1>13. CASE UserAborts
  BY <1>13 DEF UserAborts, Cancellable, Ends, Request
<1>14. CASE ForceComplete
  <2>1. DomainMatches' /\ PostcopyMatches'
    BY <1>14 DEF ForceComplete, Request
  <2>2. MonitorMatches'
    BY <1>14 DEF ForceComplete, Request
  <2>3. ResourcesMatch' /\ PauseMatches'
    BY <1>14 DEF ForceComplete, Request
  <2>4. PassthroughMatches' /\ OnlyTimeoutAborts'
    BY <1>14 DEF ForceComplete, Request
  <2>5. QED
    BY <2>1, <2>2, <2>3, <2>4
<1>15. CASE Poll
  <2>1. DomainMatches' /\ PostcopyMatches'
    BY <1>15 DEF Poll, JobType, JobInfo
  <2>2. MonitorMatches'
    <3>1. UNCHANGED <<guest, record, migrations>> /\ monitor = "poll"
      BY <1>15 DEF Poll
    <3>2. monitor' \in {"poll", "tasks", "disconnect", "unpause"}
      BY <1>15 DEF Poll, JobType, JobInfo
    <3>3. monitor' = "disconnect" => Inactive /\ (op \in {"prepare", "migrate"} => domain.source = "off")
      BY <1>15 DEF Poll, JobType, JobInfo
    <3>4. monitor' = "unpause" =>
            /\ op \notin {"prepare", "migrate"}
            /\ domain.destination = "none" \/ domain.source = "lost"
      BY <1>15 DEF Poll, JobType, JobInfo
    <3>5. op = "off" => monitor' \notin Leaving \union {"poll", "tasks", "unpause"}
      BY <1>15 DEF Poll
    <3>6. QED
      BY <3>1, <3>2, <3>3, <3>4, <3>5 DEF Poll
  <2>3. ResourcesMatch' /\ PauseMatches'
    <3>1. UNCHANGED <<conf, guest, nova, place, counts, op>> /\ monitor = "poll"
      BY <1>15 DEF Poll
    <3>2. monitor' \in {"poll", "tasks", "disconnect", "unpause"}
      BY <1>15 DEF Poll, JobType, JobInfo
    <3>3. monitor' = "disconnect" => Inactive
      BY <1>15 DEF Poll, JobType, JobInfo
    <3>4. ResourcesMatch'
      BY <3>1, <3>2, <3>3
    <3>5. PauseMatches'
      BY <3>1, <3>2, <3>3
    <3>6. QED
      BY <3>4, <3>5
  <2>4. PassthroughMatches' /\ OnlyTimeoutAborts'
    <3>1. UNCHANGED <<conf, passthrough>>
      BY <1>15 DEF Poll
    <3>2. monitor' \in {"poll", "tasks", "disconnect", "unpause"}
      BY <1>15 DEF Poll, JobType, JobInfo
    <3>3. QED
      BY <3>1, <3>2
  <2>5. QED
    BY <2>1, <2>2, <2>3, <2>4
<1>16. CASE RunTask
  <2>1. UNCHANGED <<conf, monitor, seen, timedOut, place, counts, job, op>> /\ monitor = "tasks"
    BY <1>16 DEF RunTask, SwitchToPostCopy, Pause
  <2>2. CASE UNCHANGED <<domain, postcopy, recovery>>
    BY <2>1, <2>2
  <2>3. CASE /\ Cancellable /\ domain' = [source |-> "paused", destination |-> "running"]
             /\ postcopy' = TRUE /\ UNCHANGED recovery
    BY <2>1, <2>3 DEF Cancellable
  <2>4. CASE /\ domain.source \in {"running", "paused"} /\ domain' = [domain EXCEPT !.source = "paused"]
             /\ recovery' = TRUE /\ UNCHANGED postcopy
    BY <2>1, <2>4
  <2>5. QED
    BY <1>16, <2>2, <2>3, <2>4 DEF RunTask, SwitchToPostCopy, Pause
<1>17. CASE CheckTimeout
  <2>1. DomainMatches' /\ PostcopyMatches'
    <3>1. CASE Cancellable /\ Ends("cancelled")
      BY <1>17, <3>1 DEF CheckTimeout, Cancellable, Ends
    <3>2. CASE UNCHANGED guest
      BY <1>17, <3>2 DEF CheckTimeout
    <3>3. QED
      BY <1>17, <3>1, <3>2 DEF CheckTimeout
  <2>2. MonitorMatches'
    BY <1>17 DEF CheckTimeout, TriggerTimeout, Cancellable, Ends
  <2>3. ResourcesMatch' /\ PauseMatches'
    BY <1>17 DEF CheckTimeout, TriggerTimeout, Cancellable, Ends
  <2>4. PassthroughMatches' /\ OnlyTimeoutAborts'
    BY <1>17 DEF CheckTimeout, TriggerTimeout, Cancellable, Ends
  <2>5. QED
    BY <2>1, <2>2, <2>3, <2>4
<1>18. CASE TimePasses
  <2>1. DomainMatches' /\ PostcopyMatches'
    BY <1>18 DEF TimePasses, Over
  <2>2. MonitorMatches'
    BY <1>18 DEF TimePasses, Over
  <2>3. ResourcesMatch' /\ PauseMatches'
    BY <1>18 DEF TimePasses, Over
  <2>4. PassthroughMatches' /\ OnlyTimeoutAborts'
    BY <1>18 DEF TimePasses, Over
  <2>5. QED
    BY <2>1, <2>2, <2>3, <2>4
<1>19. CASE MonitorRaises
  <2>1. faults' # 0
    BY <1>19, Counted DEF MonitorRaises
  <2>2. QED
    BY <1>19, <2>1 DEF MonitorRaises, Fault
<1>20. CASE AbortAndRaise
  <2>1. DomainMatches' /\ PostcopyMatches'
    <3>1. DomainMatches'
      <4>1. CASE Cancellable /\ Ends("cancelled")
        BY <1>20, <4>1 DEF AbortAndRaise, Cancellable, Ends
      <4>2. CASE UNCHANGED guest
        BY <1>20, <4>2 DEF AbortAndRaise
      <4>3. QED
        BY <1>20, <4>1, <4>2 DEF AbortAndRaise
    <3>2. PostcopyMatches'
      BY <1>20 DEF AbortAndRaise, Cancellable, Ends
    <3>3. QED
      BY <3>1, <3>2
  <2>2. MonitorMatches'
    BY <1>20 DEF AbortAndRaise, Cancellable, Ends
  <2>3. ResourcesMatch' /\ PauseMatches'
    BY <1>20 DEF AbortAndRaise, Cancellable, Ends
  <2>4. PassthroughMatches' /\ OnlyTimeoutAborts'
    BY <1>20 DEF AbortAndRaise, Cancellable, Ends
  <2>5. QED
    BY <2>1, <2>2, <2>3, <2>4
<1>21. CASE DisconnectSource
  <2>1. CASE Fault
    <3>1. faults' # 0 /\ UNCHANGED migrations
      BY <2>1, Counted
    <3>2. QED
      BY <1>21, <3>1 DEF DisconnectSource, Drop
  <2>2. CASE Drop("source", "volumes") /\ UNCHANGED counts
    BY <1>21, <2>2 DEF DisconnectSource, Drop
  <2>3. QED
    BY <1>21, <2>1, <2>2 DEF DisconnectSource
<1>22. CASE UnplugSource
  BY <1>22 DEF UnplugSource, Drop
<1>23. CASE Arrive
  BY <1>23 DEF Arrive
<1>24. CASE Unpause
  BY <1>24 DEF Unpause
<1>25. CASE RollbackSource
  BY <1>25 DEF RollbackSource
<1>26. CASE RollbackDestination
  <2>1. CASE Fault /\ Drop("destination", "dir") /\ Goto("abort") /\ UNCHANGED domain
    <3>1. faults' # 0 /\ UNCHANGED migrations
      BY <2>1, Counted
    <3>2. QED
      BY <1>26, <2>1, <3>1 DEF RollbackDestination, Drop
  <2>2. CASE /\ domain' = [domain EXCEPT !.destination = "none"]
             /\ res' = [res EXCEPT !.destination = {}]
             /\ Goto(IF seen = "none" THEN "idle" ELSE "clear")
             /\ UNCHANGED counts
    <3>1. DomainMatches' /\ PostcopyMatches' /\ MonitorMatches'
      BY <1>26, <2>2 DEF RollbackDestination
    <3>2. ResourcesMatch' /\ PauseMatches'
      BY <1>26, <2>2 DEF RollbackDestination
    <3>3. PassthroughMatches' /\ OnlyTimeoutAborts'
      BY <1>26, <2>2 DEF RollbackDestination
    <3>4. QED
      BY <3>1, <3>2, <3>3
  <2>3. QED
    BY <1>26, <2>1, <2>2 DEF RollbackDestination
<1>27. CASE Clear
  BY <1>27 DEF Clear
<1>29. CASE PostcopyFails
  <2>1. faults' # 0 /\ UNCHANGED migrations
    BY <1>29, Counted DEF PostcopyFails
  <2>2. DomainMatches' /\ PostcopyMatches'
    BY <1>29 DEF PostcopyFails
  <2>3. MonitorMatches'
    BY <1>29, <2>1 DEF PostcopyFails
  <2>4. ResourcesMatch' /\ PauseMatches'
    BY <1>29, <2>1 DEF PostcopyFails
  <2>5. PassthroughMatches' /\ OnlyTimeoutAborts'
    BY <1>29, <2>1 DEF PostcopyFails
  <2>6. QED
    BY <2>2, <2>3, <2>4, <2>5
<1>30. CASE ShutsOff
  <2>1. DomainMatches' /\ PostcopyMatches'
    BY <1>30 DEF ShutsOff
  <2>2. MonitorMatches'
    BY <1>30 DEF ShutsOff
  <2>3. ResourcesMatch' /\ PauseMatches'
    BY <1>30 DEF ShutsOff
  <2>4. PassthroughMatches' /\ OnlyTimeoutAborts'
    BY <1>30 DEF ShutsOff
  <2>5. QED
    BY <2>1, <2>2, <2>3, <2>4
<1>28. QED
  BY <1>1, <1>2, <1>3, <1>4, <1>5, <1>6, <1>7, <1>8, <1>9, <1>10, <1>11, <1>12, <1>13,
     <1>14, <1>15, <1>16, <1>17, <1>18, <1>19, <1>20, <1>21, <1>22, <1>23, <1>24, <1>25, <1>26, <1>27,
     <1>29, <1>30
  DEF Next, Operation, Monitoring, Environment

\* So it always holds.
LEMMA Invariant == Spec => []IInv
<1>1. Init => IInv
  BY DEF Init, IInv, DomainMatches, PostcopyMatches, MonitorMatches, ResourcesMatch,
         PauseMatches, PassthroughMatches, OnlyTimeoutAborts,
         Watching, Preparing, RollingBack, Leaving, Done, Inactive, Held
<1>2. QED
  BY <1>1, TypeInvariant, StepKeepsInvariant, PTL DEF Spec

-----------------------------------------------------------------------------
\* Whichever thread is ahead, the guest has its volumes and interfaces where it
\* runs, and a migration that has ended left the guest running, nothing on the
\* other host, the passthrough interface attached, and was given up only at a
\* failure or the timeout (driver_22.04.py:10142-10307, 10447-10508).
THEOREM MigrationEndsClean == Spec => []EndsClean
<1>1. migrations = 1 => migrations <= 1
  OBVIOUS
<1>2. Typed /\ IInv => EndsClean
  <2> SUFFICES ASSUME Typed, IInv PROVE EndsClean
    OBVIOUS
  <2> USE DEF Typed, Kinds, DomainTyped, IInv, DomainMatches, MonitorMatches, Inactive, At
  <2>1. GuestHasResources
    BY DEF GuestHasResources, At, ResourcesMatch
  <2>2. PausedIsResumed
    <3> SUFFICES ASSUME monitor = "idle", migrations = 1, At # "nowhere" PROVE domain[record] = "running"
      BY DEF PausedIsResumed
    <3>1. CASE record = "destination"
      BY <3>1
    <3>2. CASE record = "source"
      <4>1. domain.destination = "none" /\ domain.source \in {"running", "paused"}
        BY <3>2 DEF Done
      <4>2. migrations <= 1
        BY <1>1
      <4>3. domain.source # "paused"
        BY <4>1, <4>2 DEF PauseMatches, Watching
      <4>4. QED
        BY <3>2, <4>1, <4>3
    <3>3. QED
      BY <3>1, <3>2
  <2>3. NothingLeft
    BY DEF NothingLeft, ResourcesMatch, Done
  <2>4. PassthroughBack
    BY DEF PassthroughBack, PassthroughMatches, Done
  <2>5. OnlyTimeoutAbandons
    BY DEF OnlyTimeoutAbandons, OnlyTimeoutAborts
  <2>6. QED
    BY <2>1, <2>2, <2>3, <2>4, <2>5 DEF EndsClean
<1>3. QED
  BY TypeInvariant, Invariant, <1>2, PTL

-----------------------------------------------------------------------------
\* Every step is one of GuestPlacement, or leaves the host, the record and the
\* phase of the migration alone.
LEMMA StepPlaces == Typed /\ IInv /\ [Next]_vars => [Placement!Next]_(Placement!vars)
<1> SUFFICES ASSUME Typed, IInv, [Next]_vars PROVE [Placement!Next]_(Placement!vars)
  OBVIOUS
<1> USE DEF Typed, Kinds, DomainTyped, Job, Step, IInv, DomainMatches, PostcopyMatches,
        MonitorMatches, Watching, Preparing, RollingBack, Leaving, Done, Inactive,
        guest, nova, place, Goto, Placement!vars
<1>1. CASE UNCHANGED vars
  BY <1>1 DEF vars, At
<1>2. CASE Ask
  BY <1>2 DEF Ask, At, Placement!Next, Placement!Begin
<1>3. CASE CreateDirectory
  BY <1>3 DEF CreateDirectory, Take, At
<1>4. CASE ConnectVolumes
  BY <1>4 DEF ConnectVolumes, Take, At
<1>5. CASE PlugAndStart
  BY <1>5 DEF PlugAndStart, PlugVifs, Take, At
<1>6. CASE PreparationFails
  BY <1>6 DEF PreparationFails, At
<1>7. CASE DetachPassthrough
  BY <1>7 DEF DetachPassthrough, At
<1>8. CASE Migrate
  BY <1>8 DEF Migrate, At
<1>9. CASE MigrateRaises
  BY <1>9 DEF MigrateRaises, At
<1>10. CASE Completes
  BY <1>10 DEF Completes, At, Placement!Next, Placement!Switch, Placement!Active
<1>11. CASE Fails
  BY <1>11 DEF Fails, Cancellable, Ends, At
<1>12. CASE Returns
  BY <1>12 DEF Returns, At
<1>13. CASE UserAborts
  BY <1>13 DEF UserAborts, Cancellable, Ends, Request, At
<1>14. CASE ForceComplete
  BY <1>14 DEF ForceComplete, Request, At
<1>15. CASE Poll
  BY <1>15 DEF Poll, JobType, JobInfo, At
<1>16. CASE RunTask
  <2>1. UNCHANGED <<record, monitor>> /\ monitor = "tasks"
    BY <1>16 DEF RunTask
  <2>2. CASE UNCHANGED domain
    BY <2>1, <2>2 DEF At
  <2>3. CASE Cancellable /\ domain' = [source |-> "paused", destination |-> "running"]
    <3>1. At = "source" /\ At' = "destination"
      BY <2>3 DEF Cancellable, At
    <3>2. QED
      BY <2>1, <3>1 DEF Placement!Next, Placement!Switch, Placement!Active
  <2>4. CASE /\ domain.source \in {"running", "paused"}
             /\ domain' = [domain EXCEPT !.source = "paused"]
    BY <2>1, <2>4 DEF At
  <2>5. QED
    BY <1>16, <2>2, <2>3, <2>4 DEF RunTask, SwitchToPostCopy, Pause
<1>17. CASE CheckTimeout
  BY <1>17 DEF CheckTimeout, TriggerTimeout, Cancellable, Ends, At
<1>18. CASE TimePasses
  BY <1>18 DEF TimePasses, Over, At
<1>19. CASE MonitorRaises
  BY <1>19 DEF MonitorRaises, At
<1>20. CASE AbortAndRaise
  BY <1>20 DEF AbortAndRaise, Cancellable, Ends, At, Placement!Next, Placement!Abandon
<1>21. CASE DisconnectSource
  BY <1>21 DEF DisconnectSource, Drop, At
<1>22. CASE UnplugSource
  BY <1>22 DEF UnplugSource, Drop, At
<1>23. CASE Arrive
  BY <1>23 DEF Arrive, At, Placement!Next, Placement!Commit
<1>24. CASE Unpause
  BY <1>24 DEF Unpause, At
<1>25. CASE RollbackSource
  BY <1>25 DEF RollbackSource, At
<1>26. CASE RollbackDestination
  BY <1>26 DEF RollbackDestination, Drop, At, Placement!Next, Placement!Settle
<1>27. CASE Clear
  BY <1>27 DEF Clear, At, Placement!Next, Placement!Settle
<1>29. CASE PostcopyFails
  BY <1>29 DEF PostcopyFails, At, Placement!Next, Placement!Stop, Placement!Active
<1>30. CASE ShutsOff
  BY <1>30 DEF ShutsOff, At, Placement!Next, Placement!Stop, Placement!Active
<1>28. QED
  BY <1>1, <1>2, <1>3, <1>4, <1>5, <1>6, <1>7, <1>8, <1>9, <1>10, <1>11, <1>12, <1>13,
     <1>14, <1>15, <1>16, <1>17, <1>18, <1>19, <1>20, <1>21, <1>22, <1>23, <1>24, <1>25, <1>26, <1>27,
     <1>29, <1>30
  DEF Next, Operation, Monitoring, Environment

\* The migration implements GuestPlacement: the guest moves at most once in a
\* migration and never back, and the record follows it and is right when the
\* monitor is done; only of a guest that has shut off on the way, or was lost in
\* a post-copy, it may name either host (driver_22.04.py:10142-10307,
\* guest.py:664-670).
THEOREM ImplementsPlacement == Spec => PlacementHolds
<1>1. Init => Placement!Init
  BY DEF Init, Placement!Init, At
<1>2. QED
  BY <1>1, TypeInvariant, Invariant, StepPlaces, PTL DEF Spec, PlacementHolds, Placement!Spec
=============================================================================
