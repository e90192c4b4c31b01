-------------------------- MODULE MigrationChecks --------------------------
(***************************************************************************)
(* Whether a guest may be migrated, and what happens to its disks.  The    *)
(* destination leaves a file where instances are kept; whether the source  *)
(* sees it, and how disks are kept, decides if they are copied, and what   *)
(* is deleted afterwards on either host.  Both hosts keep disks in the     *)
(* same way, as the templates of this repository configure them.  The      *)
(* manager, which gathers the checks and cleans up, is external.           *)
(***************************************************************************)
EXTENDS Integers, FiniteSets
LOCAL INSTANCE FiniteSetsExt

CONSTANTS
  Host,
  MaxWrites,     \* bound: writes of the guest
  MaxMigrations, \* bound
  Room,          \* room for disks on a host; a disk takes 2 at most
  MaxDowntime, Steps, Delay \* live_migration_downtime and its steps

MigrationChecksAssumption ==
  /\ MaxWrites \in Nat /\ MaxMigrations \in Nat /\ Room \in Nat
  /\ MaxDowntime \in Nat /\ Steps \in Nat \ {0} /\ Delay \in Nat

VARIABLES
  images,     \* images_type of all hosts: "rbd" or "file"
  shared,     \* the hosts share instances_path
  disks,      \* of the guest
  volumeBacked, tunnelled,
  files,      \* what a disk holds, by directory; 0 is nothing
  remote,     \* the same in Ceph, or in the volume
  dirs,       \* where the guest has a directory
  marks,      \* where test files are
  lent,       \* size of the disks of the other guests of a host
  others,     \* what these take
  host,       \* host of the guest
  wrote,      \* what the guest has written
  reported,   \* what a host has last told about its disks
  pc, data,   \* a migration and its data
  overfull,   \* a migration was allowed to over-commit
  elapsed, downtime, migrations

setting == <<images, shared, disks, volumeBacked, tunnelled, lent>>
storage == <<files, remote, dirs>>
monitor == <<elapsed, downtime>>
vars == <<setting, storage, marks, others, host, wrote, reported, pc, data, overfull, monitor, migrations>>

Disk == {"root", "swap", "config", "data"}
Place(d) == IF d = "data" \/ (d = "root" /\ volumeBacked) THEN "volume" ELSE images
Path(h) == IF shared THEN "nfs" ELSE h
Reads(h, d) == IF Place(d) = "file" THEN files[Path(h)][d] ELSE remote[d]
Nothing == [d \in Disk |-> 0]
Size(d, content) == IF d = "config" THEN 0 ELSE IF content < 2 THEN content ELSE 2
Largest(d) == IF d = "config" THEN 0 ELSE 2
NoData == [block |-> "auto", over |-> "none", available |-> 0, path |-> FALSE, storage |-> FALSE]
Destination == CHOOSE h \in Host : h # host

\* _get_instance_disk_info_from_config: what is in files or block devices and
\* is not a volume.
DiskInfo == {d \in disks : Place(d) = "file"}
Mapped == {d \in disks : Place(d) = "volume"}

Used(h) == others[h] + MapThenSumSet(LAMBDA d : Size(d, files[Path(h)][d]), disks)

\* Free room, less what the disks of the host's guests may still grow by.
OverCommitted(h) ==
  (lent[h] - others[h])
  + IF h = host THEN MapThenSumSet(LAMBDA d : Largest(d) - Size(d, wrote[d]), DiskInfo) ELSE 0
Resource(h) == [free |-> Room - Used(h), least |-> Room - Used(h) - OverCommitted(h)]

Init ==
  /\ images \in {"rbd", "file"} /\ shared \in BOOLEAN /\ volumeBacked \in BOOLEAN /\ tunnelled \in BOOLEAN
  /\ disks \in {{"root"} \union more : more \in SUBSET {"swap", "config", "data"}}
  /\ tunnelled => "data" \in disks
  /\ host \in Host /\ wrote = [d \in Disk |-> IF d \in disks THEN 1 ELSE 0]
  /\ files = [p \in Host \union {"nfs"} |->
                [d \in Disk |-> IF p = Path(host) /\ d \in DiskInfo THEN 1 ELSE 0]]
  /\ remote = [d \in Disk |-> IF d \in disks \ DiskInfo THEN 1 ELSE 0]
  /\ dirs = {Path(host)} /\ marks = {}
  /\ lent \in [Host -> {1, 4}] /\ others = [h \in Host |-> 1] /\ lent[host] = 1
  /\ images = "rbd" => lent = others
  /\ reported = [h \in Host |-> Resource(h)]
  /\ pc = "idle" /\ data = NoData /\ overfull = FALSE
  /\ elapsed = 0 /\ downtime = 0 /\ migrations = 0

-----------------------------------------------------------------------------
GuestWrites(d) ==
  /\ d \in disks \ {"config"} /\ MapThenSumSet(LAMBDA e : wrote[e] - 1, disks) < MaxWrites
  /\ wrote' = [wrote EXCEPT ![d] = @ + 1]
  /\ IF Place(d) = "file" THEN files' = [files EXCEPT ![Path(host)][d] = @ + 1] /\ UNCHANGED remote
                          ELSE remote' = [remote EXCEPT ![d] = @ + 1] /\ UNCHANGED files
  /\ UNCHANGED <<setting, dirs, marks, others, host, reported, pc, data, overfull, monitor, migrations>>

OthersWrite(h) ==
  /\ images = "file" /\ others[h] < lent[h] /\ others' = [others EXCEPT ![h] = lent[h]]
  /\ UNCHANGED <<setting, storage, marks, host, wrote, reported, pc, data, overfull, monitor, migrations>>

\* get_available_resource, from time to time.
Report(h) ==
  /\ images = "file" /\ reported[h] # Resource(h) /\ reported' = [reported EXCEPT ![h] = Resource(h)]
  /\ UNCHANGED <<setting, storage, marks, others, host, wrote, pc, data, overfull, monitor, migrations>>

-----------------------------------------------------------------------------
(***************************************************************************)
(* The checks.                                                             *)
(***************************************************************************)

\* Newer clients leave both questions to the driver.
Request == {[block |-> b, over |-> o] : b, o \in {"yes", "no"}} \union {[block |-> "auto", over |-> "none"]}

CheckDestination(r) ==
  /\ pc = "idle" /\ migrations < MaxMigrations /\ migrations' = migrations + 1
  /\ LET told == reported[Destination]
     IN  data' = [NoData EXCEPT !.block = r.block, !.over = r.over,
                    !.available = IF r.over = "yes" THEN told.free ELSE told.least]
  /\ marks' = marks \union {Path(Destination)}
  /\ pc' = "asked"
  /\ UNCHANGED <<setting, storage, others, host, wrote, reported, overfull, monitor>>

\* Mutant: equal types are enough.
SharedIfSameType(path) == TRUE

IsSharedBlockStorage(path) ==
  \/ images = "rbd"
  \/ path /\ images = "file"
  \/ volumeBacked /\ DiskInfo = {}

\* Mutant: what the disks take now.
EnoughForNow(available, over) == MapThenSumSet(LAMBDA d : Size(d, wrote[d]), DiskInfo) <= available

EnoughDisk(available, over) ==
  MapThenSumSet(LAMBDA d : IF over = "yes" THEN Size(d, wrote[d]) ELSE Largest(d), DiskInfo) <= available

\* check_can_live_migrate_source
CheckSource ==
  /\ pc = "asked"
  /\ LET path == Path(host) \in marks
         onShared == path \/ IsSharedBlockStorage(path)
         block == data.block = "yes" \/ (data.block = "auto" /\ ~onShared)
     IN  /\ data' = [data EXCEPT !.path = path, !.storage = IsSharedBlockStorage(path),
                                 !.block = IF block THEN "yes" ELSE "no"]
         /\ pc' = IF IF block
                     THEN /\ ~onShared
                          /\ data.over # "none" => EnoughDisk(data.available, data.over)
                          /\ ~(tunnelled /\ Mapped # {})
                     ELSE onShared
                  THEN "accepted" ELSE "refused"
  /\ UNCHANGED <<setting, storage, marks, others, host, wrote, reported, overfull, monitor, migrations>>

CleanupDestinationCheck ==
  /\ pc \in {"accepted", "refused"}
  /\ marks' = marks \ {Path(Destination)}
  /\ pc' = IF pc = "accepted" THEN "prepare" ELSE "idle"
  /\ data' = IF pc = "accepted" THEN data ELSE NoData
  /\ overfull' = (overfull \/ (pc = "accepted" /\ data.block = "yes" /\ data.over # "no"))
  /\ UNCHANGED <<setting, storage, others, host, wrote, reported, monitor, migrations>>

-----------------------------------------------------------------------------
(***************************************************************************)
(* The migration.                                                          *)
(***************************************************************************)

\* _create_images_and_backing: empty disks, and a copy of the config drive.
CreateImages(h) ==
  IF data.storage THEN UNCHANGED files
  ELSE files' = [files EXCEPT ![Path(h)] =
                   [d \in Disk |-> IF d = "config" THEN files[Path(host)][d] ELSE 0]]

PreLiveMigration ==
  /\ pc = "prepare"
  /\ IF data.path THEN UNCHANGED <<files, dirs>> /\ pc' = "migrating"
     ELSE IF Path(Destination) \in dirs THEN UNCHANGED <<files, dirs>> /\ pc' = "rollback"
     ELSE /\ dirs' = dirs \union {Path(Destination)} /\ CreateImages(Destination)
          /\ pc' = "migrating"
  /\ UNCHANGED <<monitor, setting, remote, marks, others, host, wrote, reported, data, overfull, migrations>>

\* _live_migration_copy_disk_paths; all of them, if there is no selecting.
CopyDiskPaths ==
  IF data.block # "yes" THEN {}
  ELSE {d \in disks \ {"config"} : Place(d) # "rbd" /\ (tunnelled \/ Place(d) # "volume")}

\* _live_migration_data_gb: 2 for the memory and for every disk to copy.
DataGb == 2 + 2 * Cardinality(CopyDiskPaths)

\* Mutant: every step as large as the first.
StepTooLarge(i) == <<Delay * DataGb * i, MaxDowntime \div Steps + (MaxDowntime * i) \div Steps>>

\* downtime_steps: base + offset * i.
DowntimeStep(i) ==
  <<Delay * DataGb * i, (MaxDowntime * Steps + MaxDowntime * (Steps - 1) * i) \div (Steps * Steps)>>

UpdateDowntime(time) ==
  LET due == {i \in 0 .. Steps : time > DowntimeStep(i)[1]}
  IN  IF due = {} THEN downtime ELSE DowntimeStep(Max(due))[2]

TimePasses ==
  /\ pc = "migrating" /\ elapsed <= DowntimeStep(Steps)[1]
  /\ \E i \in 0 .. Steps : elapsed' = DowntimeStep(i)[1] + 1 /\ elapsed' > elapsed
  /\ downtime' = UpdateDowntime(elapsed')
  /\ UNCHANGED <<setting, storage, marks, others, host, wrote, reported, pc, data, overfull, migrations>>

\* A volume that is copied onto itself is lost.
Arrives ==
  /\ pc = "migrating" /\ pc' = "arrived"
  /\ files' = [files EXCEPT ![Path(Destination)] =
       [d \in Disk |-> IF d \in CopyDiskPaths /\ Place(d) = "file" THEN wrote[d] ELSE @[d]]]
  /\ remote' = [d \in Disk |-> IF d \in CopyDiskPaths /\ Place(d) = "volume" THEN 0 ELSE remote[d]]
  /\ host' = Destination /\ elapsed' = 0 /\ downtime' = 0
  /\ UNCHANGED <<setting, dirs, marks, others, wrote, reported, data, overfull, migrations>>

Fails ==
  /\ pc = "migrating" /\ pc' = "rollback" /\ elapsed' = 0 /\ downtime' = 0
  /\ UNCHANGED <<setting, storage, marks, others, host, wrote, reported, data, overfull, migrations>>

\* Mutant: the directory goes only with the disks.
DirectoryWithDisks == ~data.path /\ ~data.storage

\* _live_migration_cleanup_flags of the manager, and cleanup of the driver.
CleanupDirectory == ~data.path
DestroyDisks == ~data.storage

CleanupAt(h) ==
  /\ dirs' = IF CleanupDirectory THEN dirs \ {Path(h)} ELSE dirs
  /\ files' = IF CleanupDirectory THEN [files EXCEPT ![Path(h)] = Nothing] ELSE files
  /\ remote' = [d \in Disk |-> IF DestroyDisks /\ Place(d) = "rbd" THEN 0 ELSE remote[d]]

\* After a success the source, after a failure the destination.
Cleanup ==
  /\ pc \in {"arrived", "rollback"} /\ CleanupAt(Destination)
  /\ pc' = "idle" /\ data' = NoData
  /\ UNCHANGED <<setting, marks, others, host, wrote, reported, overfull, monitor, migrations>>

Next ==
  \/ \E d \in Disk : GuestWrites(d)
  \/ \E h \in Host : OthersWrite(h) \/ Report(h)
  \/ \E r \in Request : CheckDestination(r)
  \/ CheckSource \/ CleanupDestinationCheck \/ PreLiveMigration
  \/ TimePasses \/ Arrives \/ Fails \/ Cleanup

Spec == Init /\ [][Next]_vars

-----------------------------------------------------------------------------
TypeOK ==
  /\ disks \subseteq Disk /\ host \in Host /\ wrote \in [Disk -> Nat] /\ remote \in [Disk -> Nat]
  /\ files \in [Host \union {"nfs"} -> [Disk -> Nat]] /\ dirs \union marks \subseteq Host \union {"nfs"}
  /\ pc \in {"idle", "asked", "accepted", "refused", "prepare", "migrating", "arrived", "rollback"}
  /\ data.block \in {"yes", "no", "auto"} /\ data.over \in {"yes", "no", "none"}
  /\ {data.path, data.storage, overfull} \subseteq BOOLEAN

\* The guest reads what it has written on the host it runs on, however its
\* disks are kept and whatever was asked for, after any number of migrations
\* that succeed or fail (driver_22.04.py:9544-9652, 10059-10098).
NoDiskLost == \A d \in disks : Reads(host, d) = wrote[d]

\* Between migrations only the guest's host has its directory, and no test
\* file is left (driver_22.04.py:9535-9542, 10482-10508).
NothingLeft == pc = "idle" => dirs = {Path(host)} /\ marks = {}

\* A host on which nobody asked to over-commit never runs out of room, though
\* disks grow and the room was told some time ago (driver_22.04.py:9654-9697).
NeverFull == overfull \/ shared \/ images # "file" \/ \A h \in Host : Used(h) <= Room

\* The pause a migration may cost the guest is at no time longer than the
\* configured maximum, and reaches it after the last step (migration.py:716-753).
DowntimeBounded ==
  downtime <= MaxDowntime /\ (pc = "migrating" /\ elapsed > DowntimeStep(Steps)[1] => downtime = MaxDowntime)
=============================================================================
