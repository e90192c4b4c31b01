-------------------------- MODULE GuestOperations --------------------------
(***************************************************************************)
(* What the libvirt driver does to one guest: spawn, reboot, rescue,       *)
(* suspend, snapshot, swap of its volume, resize to another host and back, *)
(* and destroy.  An operation is data: a sequence of steps on what the     *)
(* hosts hold for the guest, with the driver's try blocks as marks in it.  *)
(* Any step may fail, nova-compute or a host may die between two.  The     *)
(* compute manager, which picks the operation and records how it ended, is *)
(* external.                                                               *)
(***************************************************************************)
EXTENDS Naturals, Sequences

CONSTANTS
  MaxOps,    \* bound: operations on the guest
  MaxFaults  \* bound: failed steps, deaths of nova-compute or of a host

ASSUME GuestOperationsAssumption == MaxOps \in Nat /\ MaxFaults \in Nat

VARIABLES
  conf,    \* root disk in Ceph or in the instance's directory, which the
           \* manager knows to be shared or not; its volume; kind of rescue
  facts,   \* what is there, as <<host, place, thing>>
  op,      \* the operation that runs or ran last
  before,  \* facts when it began
  agenda,  \* its steps still to do
  raising, \* an exception is on its way
  vm,      \* vm_state
  host,    \* the host Nova has on record
  ops, faults

vars == <<conf, facts, op, before, agenda, raising, vm, host, ops, faults>>

Host == {"source", "dest"}
Defined(h) == <<h, "libvirt", "domain">>
Rescuing(h) == <<h, "libvirt", "rescue definition">>
On(h) == <<h, "libvirt", "running">>
Pivoted(h) == <<h, "libvirt", "runs on the new volume">>
Secret(h) == <<h, "libvirt", "secret">>
Saved(h) == <<h, "libvirt", "managed save">>
Volume(h) == <<h, "host", "volume">>
NewVolume(h) == <<h, "host", "new volume">>
Vif(h) == <<h, "host", "vif">>
Job(h) == <<h, "libvirt", "block job">>
Rebase(h) == <<h, "call", "VolumeRebaseFailed">>
Dir(h, d) == <<h, d, "dir">>
In(h, d, f) == IF conf.rbd THEN <<"ceph", "pool", f>> ELSE <<h, d, f>>
Disk(h) == In(h, "base", "disk")
Written(h) == In(h, "base", "disk written at dest")
RescueDisk(h) == In(h, "base", "rescue disk")
Snap == <<"ceph", "pool", "resize snapshot">>
Unrescue(h) == <<h, "base", "unrescue.xml">>
BadUnrescue(h) == <<h, "base", "unrescue.xml of a rescue">>

-----------------------------------------------------------------------------
(***************************************************************************)
(* Steps.                                                                  *)
(***************************************************************************)

Step(do, f, t, e) == <<[do |-> do, f |-> f, then |-> t, else |-> e]>>
Make(f) == Step("make", f, <<>>, <<>>)
Remove(f) == Step("remove", f, <<>>, <<>>)
Need(f) == Step("need", f, <<>>, <<>>)
RemoveTree(f) == Step("rmtree", f, <<>>, <<>>)
Rename(h, from, to) == Step("rename", <<h, from, to>>, <<>>, <<>>)
When(f, t, e) == Step("when", f, t, e)
Stop(h) == Step("stop", <<h>>, <<>>, <<>>)
Start(h) == Step("start", <<h>>, <<>>, <<>>)
Define(h) == Step("define", Defined(h), <<>>, <<>>)
Undefine(h) == Step("undefine", <<h>>, <<>>, <<>>)
Fallible == Step("fallible", <<>>, <<>>, <<>>)
Perhaps == Step("perhaps", <<>>, <<>>, <<>>)
CleanupImages == Step("images", <<>>, <<>>, <<>>)
Settle(h) == Step("settle", <<h>>, <<>>, <<>>)
Catch(handler) == Step("catch", <<>>, handler, <<>>)
Swallow(handler) == Step("swallow", <<>>, handler, <<>>)
Finally(handler) == Step("finally", <<>>, handler, <<>>)
Reraise == Step("reraise", <<>>, <<>>, <<>>)
\* A handler is on the agenda once its try block has been entered.
Try(body, handler) == Step("try", <<>>, body, handler)

-----------------------------------------------------------------------------
(***************************************************************************)
(* Volumes, secrets, and the teardown of a guest.                          *)
(***************************************************************************)

AttachEncryptor(h) ==
  IF conf.volume = "luks" THEN When(Secret(h), <<>>, Make(Secret(h))) ELSE <<>>

ConnectVolume(h) ==
  IF conf.volume = "none" THEN <<>>
  ELSE Make(Volume(h)) \o Try(AttachEncryptor(h), Catch(Remove(Volume(h))))

\* Mutant: the secret goes with every teardown.
DetachEncryptorAlways(h, secrets) ==
  IF conf.volume = "luks" THEN Remove(Secret(h)) ELSE <<>>

DetachEncryptor(h, secrets) ==
  IF conf.volume = "luks" /\ secrets THEN Remove(Secret(h)) ELSE <<>>

DisconnectVolume(h, secrets) ==
  IF conf.volume = "none" THEN <<>>
  ELSE DetachEncryptor(h, secrets) \o Remove(Volume(h))

PowerOff(h) == Stop(h)
UnplugVifs(h) == Try(Remove(Vif(h)), Swallow(<<>>))
UndefineDomain(h) == Undefine(h)

\* One of the two directories is renamed, and what has been renamed deleted;
\* a failure is logged and left to the manager's periodic task.
DeleteInstanceFiles(h) ==
  Try(When(Dir(h, "base"), Rename(h, "base", "del"), Rename(h, "resize", "del")), Swallow(<<>>))
  \o Try(When(Dir(h, "base"), <<>>, When(Dir(h, "resize"), <<>>, RemoveTree(<<h, "del">>))),
         Swallow(<<>>))

\* Mutant: only the root disk is deleted.
CleanupRbdRoot(there) ==
  IF op = "revert" THEN there ELSE there \ {<<"ceph", "pool", "disk">>}

\* What is left in Ceph: while a resize is reverted only ephemeral disks go,
\* which are not in this model.
CleanupRbd(there) ==
  IF op = "revert" THEN there ELSE {f \in there : f[1] # "ceph"}

Cleanup(h, dir, disks, secrets) ==
  UnplugVifs(h)
  \o Try(DisconnectVolume(h, secrets), IF disks THEN Swallow(<<>>) ELSE Catch(<<>>))
  \o (IF disks /\ conf.rbd THEN CleanupImages ELSE <<>>)
  \o (IF dir THEN DeleteInstanceFiles(h) ELSE <<>>)
  \o UndefineDomain(h)

\* Mutant: the guest is powered off last.
DestroyLate(h, disks, secrets) == Cleanup(h, disks, disks, secrets) \o PowerOff(h)

Destroy(h, disks, secrets) == PowerOff(h) \o Cleanup(h, disks, disks, secrets)

-----------------------------------------------------------------------------
(***************************************************************************)
(* The pieces of a start.                                                  *)
(***************************************************************************)

\* A directory or a disk that exists is kept.
CreateLocalRoot(disk) == When(disk, <<>>, Make(disk))

CreateImage(h, disk) ==
  When(Dir(h, "base"), <<>>, Make(Dir(h, "base"))) \o CreateLocalRoot(disk)

CreateConfigDrive == Fallible

\* The definition stays if the config drive or the launch fails.
CreateGuest(h, rescue) ==
  Make(Defined(h)) \o (IF rescue THEN Make(Rescuing(h)) ELSE Remove(Rescuing(h)))
  \o CreateConfigDrive \o Start(h)

\* Mutant: the interfaces are not plugged.
StartUnplugged(h, dir, disks) ==
  Try(CreateGuest(h, FALSE), Catch(Cleanup(h, dir, disks, TRUE)))

CreateGuestWithNetwork(h, dir, disks) ==
  Try(Make(Vif(h)) \o CreateGuest(h, FALSE), Catch(Cleanup(h, dir, disks, TRUE)))

\* _get_guest_xml connects the volumes on its way.
GetGuestXml(h) == ConnectVolume(h)

-----------------------------------------------------------------------------
(***************************************************************************)
(* The operations.                                                         *)
(***************************************************************************)

\* The manager answers a failure with destroy.
Spawn(h) ==
  Try(CreateImage(h, Disk(h)) \o GetGuestXml(h) \o CreateGuestWithNetwork(h, TRUE, TRUE) \o Fallible,
      Catch(Destroy(h, TRUE, TRUE)))

\* Disks in the directory are looked at before the start, those in Ceph not.
HardReboot(h) ==
  Destroy(h, FALSE, FALSE)
  \o When(Dir(h, "base"), <<>>, Make(Dir(h, "base"))) \o GetGuestXml(h)
  \o (IF conf.rbd THEN <<>> ELSE Need(Disk(h)))
  \o CreateGuestWithNetwork(h, FALSE, FALSE)

\* The guest reacts to the request to shut down, or the reboot is a hard one.
SoftReboot(h) ==
  Try(Perhaps \o Stop(h) \o Start(h), Swallow(HardReboot(h)))

\* The definition that is saved is the one the domain has, whatever that is.
SaveUnrescueXml(h) ==
  Remove(BadUnrescue(h)) \o Make(Unrescue(h))
  \o When(Rescuing(h), Make(BadUnrescue(h)), <<>>)

Rescue(h) ==
  SaveUnrescueXml(h)
  \o CreateImage(h, RescueDisk(h)) \o (IF conf.stable THEN GetGuestXml(h) ELSE <<>>)
  \o PowerOff(h) \o CreateGuest(h, TRUE)

UnrescueGuest(h) ==
  Need(Unrescue(h)) \o PowerOff(h)
  \o When(BadUnrescue(h), CreateGuest(h, TRUE), CreateGuest(h, FALSE))
  \o Remove(Unrescue(h)) \o Remove(BadUnrescue(h)) \o Remove(RescueDisk(h))

Suspend(h) == Stop(h) \o Make(Saved(h))
Resume(h) == CreateGuestWithNetwork(h, FALSE, FALSE) \o Try(Remove(Saved(h)), Swallow(<<>>))

\* A guest in Ceph is copied there, or, if that is refused, suspended and
\* read; a local one is mirrored while its domain is transient.
ResumeAfterSnapshot(h) == Start(h) \o Remove(Saved(h))

\* Undefined, mirrored; then the job is aborted and the definition written.
LiveSnapshot(h) ==
  Remove(Job(h))
  \o Try(UndefineDomain(h) \o Make(Job(h)) \o Fallible,
         Finally(Need(Job(h)) \o Remove(Job(h)) \o Fallible \o Define(h)))

Snapshot(h) ==
  IF conf.rbd
  THEN Try(Fallible,
           Swallow(Perhaps \o Suspend(h) \o Fallible
                   \o Try(Fallible, Finally(ResumeAfterSnapshot(h)))))
  ELSE LiveSnapshot(h)

\* Mutant: the domain is only defined again when all went well.
SwapNoFinally(h) ==
  UndefineDomain(h) \o Try(Make(Pivoted(h)), Catch(Make(Rebase(h)))) \o Fallible \o Define(h)

\* _swap_volume.
Swap(h) ==
  Remove(Job(h))
  \o Try(UndefineDomain(h)
         \o Try(Make(Job(h)) \o Fallible \o Remove(Job(h)) \o Make(Pivoted(h)), Catch(Make(Rebase(h))))
         \o Fallible,
         Finally(Define(h)))

SwapVolume(h) ==
  Make(NewVolume(h))
  \o Try(Swap(h), Catch(When(Rebase(h), Remove(Rebase(h)) \o Remove(NewVolume(h)), <<>>)))
  \o Remove(Volume(h)) \o Settle(h)

-----------------------------------------------------------------------------
(***************************************************************************)
(* Resize: away from the source, confirmed there, or reverted.             *)
(***************************************************************************)

\* Mutant: whatever was copied goes with the directory it came from.
CleanupRemoteNoRename == Try(RemoveTree(<<"source", "resize">>) \o RemoveTree(<<"dest", "base">>), Swallow(<<>>))

CleanupRemote ==
  Try(When(Dir("source", "resize"),
           RemoveTree(<<"source", "base">>) \o Rename("source", "resize", "base")
           \o RemoveTree(<<"dest", "base">>),
           <<>>),
      Swallow(<<>>))

CopyDisks == IF conf.rbd THEN <<>> ELSE Make(Disk("dest"))

\* Mutant: the guest runs on.
MigrateDiskLive ==
  Make(Dir("dest", "base")) \o Remove(Vif("source"))
  \o Try(RemoveTree(<<"source", "resize">>) \o Rename("source", "base", "resize") \o CopyDisks,
         Catch(CleanupRemote))

MigrateDisk ==
  Make(Dir("dest", "base"))
  \o PowerOff("source") \o Remove(Vif("source")) \o DisconnectVolume("source", TRUE)
  \o Try(RemoveTree(<<"source", "resize">>) \o Rename("source", "base", "resize") \o CopyDisks,
         Catch(CleanupRemote))

\* On the destination the disk exists: it gets the snapshot to roll back to.
FinishMigration ==
  When(Dir("dest", "base"), <<>>, Make(Dir("dest", "base")))
  \o (IF conf.rbd THEN Make(Snap) ELSE <<>>) \o CreateLocalRoot(Disk("dest"))
  \o GetGuestXml("dest") \o CreateGuestWithNetwork("dest", FALSE, FALSE)

\* Mutant: the disk stays as the destination has written it.
RollbackForgets == IF conf.rbd THEN Remove(Snap) ELSE <<>>

RollbackToSnap == IF conf.rbd THEN Remove(Written("source")) \o Remove(Snap) ELSE <<>>

\* The manager destroys the guest on the destination, with its disks unless
\* they are shared, and has the source finish.
Revert == Destroy("dest", ~conf.shared, TRUE)

FinishRevert ==
  When(Dir("source", "resize"),
       RemoveTree(<<"source", "base">>) \o Rename("source", "resize", "base"), <<>>)
  \o RollbackToSnap
  \o GetGuestXml("source") \o CreateGuestWithNetwork("source", FALSE, FALSE)

\* Removing the directory is tried five times and given up silently.
CleanupResize ==
  Try(RemoveTree(<<"source", "resize">>), Swallow(<<>>))
  \o (IF conf.rbd THEN Remove(Snap) ELSE <<>>)
  \o UndefineDomain("source") \o UnplugVifs("source")

-----------------------------------------------------------------------------
(***************************************************************************)
(* The manager's choice: vm_state before, operation, vm_state after.       *)
(***************************************************************************)

Operations == [
  spawn |-> [from |-> {"building"}, to |-> "active"],
  hard_reboot |-> [from |-> {"active", "error", "stopped", "suspended"}, to |-> "active"],
  soft_reboot |-> [from |-> {"active"}, to |-> "active"],
  rescue |-> [from |-> {"active", "stopped", "error"}, to |-> "rescued"],
  unrescue |-> [from |-> {"rescued"}, to |-> "active"],
  snapshot |-> [from |-> {"active"}, to |-> "active"],
  swap |-> [from |-> {"active"}, to |-> "active"],
  suspend |-> [from |-> {"active"}, to |-> "suspended"],
  resume |-> [from |-> {"suspended"}, to |-> "active"],
  power_off |-> [from |-> {"active"}, to |-> "stopped"],
  migrate |-> [from |-> {"active"}, to |-> "migrating"],
  finish |-> [from |-> {"migrating"}, to |-> "resized"],
  confirm |-> [from |-> {"resized"}, to |-> "active"],
  revert |-> [from |-> {"resized"}, to |-> "reverting"],
  finish_revert |-> [from |-> {"reverting"}, to |-> "active"],
  delete |-> [from |-> {"active", "stopped", "rescued", "suspended", "error"}, to |-> "deleted"]]

Steps(name, h) ==
  CASE name = "spawn" -> Spawn(h)
    [] name = "hard_reboot" -> HardReboot(h)
    [] name = "soft_reboot" -> SoftReboot(h)
    [] name = "rescue" -> Rescue(h)
    [] name = "unrescue" -> UnrescueGuest(h)
    [] name = "snapshot" -> Snapshot(h)
    [] name = "swap" -> SwapVolume(h)
    [] name = "suspend" -> Suspend(h)
    [] name = "resume" -> Resume(h)
    [] name = "power_off" -> PowerOff(h)
    [] name = "migrate" -> MigrateDisk
    [] name = "finish" -> FinishMigration
    [] name = "confirm" -> CleanupResize
    [] name = "revert" -> Revert
    [] name = "finish_revert" -> FinishRevert
    [] name = "delete" -> Destroy(h, TRUE, TRUE)

Init ==
  /\ conf \in [rbd : BOOLEAN, volume : {"none", "plain", "luks"}, stable : BOOLEAN, shared : BOOLEAN]
  /\ conf.stable => conf.volume # "none"
  /\ conf.shared => conf.rbd
  /\ facts = {} /\ op = "none" /\ before = {} /\ agenda = <<>> /\ raising = FALSE
  /\ vm = "building" /\ host = "source" /\ ops = 0 /\ faults = 0

\* finish_resize records the destination before it starts, and
\* finish_revert_resize the source.
Begin(name) ==
  /\ agenda = <<>> /\ ~raising /\ vm \in Operations[name].from
  /\ ops < MaxOps /\ ops' = ops + 1
  /\ name \in {"soft_reboot", "snapshot", "swap", "suspend"} => On(host) \in facts
  /\ name = "swap" => conf.volume = "plain"
  /\ name = "migrate" => host = "source"
  /\ op' = name /\ before' = facts
  /\ host' = IF name = "finish" THEN "dest" ELSE IF name = "finish_revert" THEN "source" ELSE host
  /\ vm' = "busy"
  /\ agenda' = Steps(name, host') \o Step("end", <<>>, <<>>, <<>>)
  /\ UNCHANGED <<conf, facts, raising, faults>>

-----------------------------------------------------------------------------
(***************************************************************************)
(* One step.                                                               *)
(***************************************************************************)

Moved(h, from, to) ==
  LET old == {f \in facts : f[1] = h /\ f[2] = from}
  IN  (facts \ old) \union {<<h, to, f[3]>> : f \in old}

\* libvirt starts what it finds: a definition, its disk and, unless it rescues
\* with the root disk alone, its volume.
CanStart(h) ==
  /\ Defined(h) \in facts /\ Disk(h) \in facts
  /\ Rescuing(h) \in facts => RescueDisk(h) \in facts
  /\ conf.volume # "none" /\ (Rescuing(h) \in facts => conf.stable) => Volume(h) \in facts

Started(h) == facts \union {On(h)} \union IF h = "dest" THEN {Written(h)} ELSE {}

Possible(e) ==
  CASE e.do = "need" -> e.f \in facts
    [] e.do = "start" -> CanStart(e.f[1])
    [] e.do = "rename" -> Dir(e.f[1], e.f[2]) \in facts /\ Dir(e.f[1], e.f[3]) \notin facts
    [] OTHER -> TRUE

Effect(e) ==
  CASE e.do = "make" -> facts \union {e.f}
    [] e.do = "remove" -> facts \ {e.f}
    [] e.do = "rmtree" -> {f \in facts : <<f[1], f[2]>> # e.f}
    [] e.do = "images" -> CleanupRbd(facts)
    [] e.do = "rename" -> Moved(e.f[1], e.f[2], e.f[3])
    [] e.do = "stop" -> facts \ {On(e.f[1]), Pivoted(e.f[1]), Job(e.f[1])}
    [] e.do = "start" -> Started(e.f[1])
    [] e.do = "define" -> facts \union {e.f}
    [] e.do = "undefine" -> facts \ {Defined(e.f[1]), Saved(e.f[1])}
    [] e.do = "settle" -> (facts \ {NewVolume(e.f[1]), Pivoted(e.f[1])}) \union {Volume(e.f[1])}
    [] OTHER -> facts

Marks == {"catch", "swallow", "finally", "reraise"}
Plain(e) == e.do \notin Marks \union {"when", "try", "end"}

Do ==
  /\ agenda # <<>> /\ ~raising /\ Plain(Head(agenda)) /\ Possible(Head(agenda))
  /\ facts' = Effect(Head(agenda))
  /\ agenda' = Tail(agenda)
  /\ UNCHANGED <<conf, op, before, raising, vm, host, ops, faults>>

Decide ==
  /\ agenda # <<>> /\ ~raising
  /\ \/ /\ Head(agenda).do = "when"
        /\ agenda' = (IF Head(agenda).f \in facts THEN Head(agenda).then ELSE Head(agenda).else)
                     \o Tail(agenda)
     \/ /\ Head(agenda).do = "try"
        /\ agenda' = Head(agenda).then \o Head(agenda).else \o Tail(agenda)
  /\ UNCHANGED <<conf, facts, op, before, raising, vm, host, ops, faults>>

\* A step fails because it must, or because something else is wrong; a guest
\* need not answer.  libvirt takes back a definition it has given.
Raise ==
  /\ agenda # <<>> /\ ~raising /\ Plain(Head(agenda))
  /\ \/ ~Possible(Head(agenda)) /\ UNCHANGED faults
     \/ Head(agenda).do = "perhaps" /\ UNCHANGED faults
     \/ /\ Possible(Head(agenda)) /\ Head(agenda).do \notin {"perhaps", "define"}
        /\ faults < MaxFaults /\ faults' = faults + 1
  /\ raising' = TRUE /\ agenda' = Tail(agenda)
  /\ UNCHANGED <<conf, facts, op, before, vm, host, ops>>

\* Without an exception, handlers are passed over, except finally's.
PassMark ==
  /\ agenda # <<>> /\ ~raising /\ Head(agenda).do \in Marks
  /\ agenda' = (IF Head(agenda).do = "finally" THEN Head(agenda).then ELSE <<>>) \o Tail(agenda)
  /\ raising' = (Head(agenda).do = "reraise")
  /\ UNCHANGED <<conf, facts, op, before, vm, host, ops, faults>>

Unwind ==
  /\ agenda # <<>> /\ raising /\ Head(agenda).do # "end"
  /\ IF Head(agenda).do \in {"catch", "finally", "swallow"}
     THEN /\ raising' = FALSE
          /\ agenda' = Head(agenda).then
                       \o (IF Head(agenda).do = "swallow" THEN <<>> ELSE Reraise)
                       \o Tail(agenda)
     ELSE agenda' = Tail(agenda) /\ UNCHANGED raising
  /\ UNCHANGED <<conf, facts, op, before, vm, host, ops, faults>>

\* Mutant: the exception outlives the operation.
EndRaising ==
  /\ agenda # <<>> /\ Head(agenda).do = "end"
  /\ vm' = IF ~raising THEN Operations[op].to ELSE IF op = "snapshot" THEN "active" ELSE "error"
  /\ agenda' = <<>>
  /\ UNCHANGED <<conf, facts, op, before, raising, host, ops, faults>>

End ==
  /\ agenda # <<>> /\ Head(agenda).do = "end"
  /\ vm' = IF ~raising THEN Operations[op].to ELSE IF op = "snapshot" THEN "active" ELSE "error"
  /\ agenda' = <<>> /\ raising' = FALSE
  /\ UNCHANGED <<conf, facts, op, before, host, ops, faults>>

\* The manager repeats a delete when it starts again, and calls
\* delete_instance_files for what is left.
ComputeDies ==
  /\ agenda # <<>> /\ faults < MaxFaults /\ faults' = faults + 1
  /\ raising' = FALSE
  /\ agenda' = IF op = "delete" THEN Destroy(host, TRUE, TRUE) \o Step("end", <<>>, <<>>, <<>>) ELSE <<>>
  /\ vm' = IF op = "delete" THEN vm ELSE "error"
  /\ UNCHANGED <<conf, facts, op, before, host, ops>>

HostReboots(h) ==
  /\ agenda = <<>> /\ On(h) \in facts /\ faults < MaxFaults /\ faults' = faults + 1
  /\ facts' = {f \in facts : f[1] # h \/ (f[2] # "host" /\ f \notin {On(h), Pivoted(h), Job(h)})}
  /\ vm' = IF vm = "active" THEN "stopped" ELSE vm
  /\ UNCHANGED <<conf, op, before, agenda, raising, host, ops>>

RunPendingDeletes ==
  /\ vm = "deleted" /\ agenda = <<>> /\ ops < MaxOps /\ ops' = ops + 1
  /\ \E d \in {"base", "resize", "del"} : Dir(host, d) \in facts
  /\ agenda' = DeleteInstanceFiles(host) \o Step("end", <<>>, <<>>, <<>>)
  /\ op' = "delete" /\ before' = facts
  /\ UNCHANGED <<conf, facts, raising, vm, host, faults>>

Next ==
  \/ \E name \in DOMAIN Operations : Begin(name)
  \/ Do \/ Decide \/ Raise \/ PassMark \/ Unwind \/ End
  \/ ComputeDies \/ RunPendingDeletes
  \/ \E h \in Host : HostReboots(h)

Spec == Init /\ [][Next]_vars

-----------------------------------------------------------------------------
Marked(step) == \E i \in DOMAIN agenda : agenda[i].do = step
Ends(name) == op = name /\ vm = "busy" /\ vm' = Operations[name].to

TypeOK ==
  /\ conf.rbd \in BOOLEAN /\ conf.volume \in {"none", "plain", "luks"}
  /\ \A f \in facts : f[1] \in Host \union {"ceph"} /\ Len(f) = 3
  /\ op \in DOMAIN Operations \union {"none"}
  /\ raising \in BOOLEAN /\ (raising => agenda # <<>>)
  /\ vm \in {Operations[name].to : name \in DOMAIN Operations} \union {"building", "error", "busy"}
  /\ host \in Host /\ ops \in 0 .. MaxOps /\ faults \in 0 .. MaxFaults

\* However a resize, its revert or any start fails and is repeated, the guest
\* never runs on both hosts (driver_22.04.py:11196-11577).
OneGuest == ~({On("source"), On("dest")} \subseteq facts)

\* A guest that runs has the volume it uses connected: no cleanup takes it
\* away first (driver_22.04.py:1411-1682).
VolumeUnderGuest ==
  \A h \in Host : On(h) \in facts /\ conf.volume # "none" /\ (Rescuing(h) \in facts => conf.stable)
    => (IF Pivoted(h) \in facts THEN NewVolume(h) ELSE Volume(h)) \in facts

\* After delete the guest is off and undefined, and no image of it is left in
\* Ceph, whatever was half done before (driver_22.04.py:1598-1682, 1739-1750).
DeletedIsGone ==
  vm = "deleted" =>
    /\ {On(host), Defined(host), Saved(host)} \cap facts = {}
    /\ \A f \in facts : f[1] # "ceph"

\* Only a delete or a failed spawn destroys the last copy of the root disk
\* (driver_22.04.py:11116-11126, 11309-11314).
HasDisk == \E f \in facts : f[3] = "disk"
DiskNotLost == HasDisk /\ ~HasDisk' => op \in {"spawn", "delete"}

\* A guest whose resize is reverted runs on the disk it had before
\* (driver_22.04.py:11534-11550).
RevertRestores == Ends("finish_revert") => Written("source") \notin facts

\* Whatever failed before, a hard reboot that succeeds leaves a guest that
\* runs, from its own definition, with interfaces and volume
\* (driver_22.04.py:3881-3886).
HardRebootRepairs ==
  Ends("hard_reboot") =>
     /\ {On(host), Defined(host), Vif(host), Disk(host)} \subseteq facts
     /\ Rescuing(host) \notin facts
     /\ conf.volume # "none" => Volume(host) \in facts

\* A guest whose volume has been swapped, or not, is as persistent as it was
\* (driver_22.04.py:2211-2252).
Redefines(name) ==
  /\ op = name /\ agenda # <<>> /\ Head(agenda).do = "end" /\ vm' # "busy"
  /\ Defined(host) \in before
  => Defined(host) \in facts
SwapRedefines == Redefines("swap")

\* As long as it has not failed, a hard reboot keeps the secret of an
\* encrypted volume: an operator could not fetch it again
\* (driver_22.04.py:2029-2039, 3888-3890).
SecretKept == op = "hard_reboot" /\ Secret(host) \in facts /\ Secret(host) \notin facts' => Marked("reraise")

\* No sequence of operations, failures and crashes leaves two guests, a guest
\* without its volume or a deleted one behind (driver_22.04.py:1411-1682).
GuestSafe == OneGuest /\ VolumeUnderGuest /\ DeletedIsGone

\* And none loses what the guest had: its disk, what it wrote before a resize,
\* its definition, the secret of its volume; a hard reboot repairs the rest
\* (driver_22.04.py:3881-3890, 11116-11126, 11534-11550).
NothingLost ==
  [][DiskNotLost /\ RevertRestores /\ HardRebootRepairs /\ SwapRedefines /\ SecretKept]_vars
=============================================================================
