-------------------------- MODULE LightosVolume --------------------------
(***************************************************************************)
(* The LightOS driver of Cinder, for one volume.  Its life (create, clone, *)
(* extend, delete) is one call after another; attachments come and go in   *)
(* other workers at the same time, and all of them change the volume by    *)
(* reading it and writing it back under the tag that was read.  A request  *)
(* that a server does not answer goes to the next one, done or not.        *)
(* Cinder and the cluster, which is asynchronous, are external.            *)
(***************************************************************************)
EXTENDS Naturals, FiniteSets

CONSTANTS
  Attachment, Host,
  HostOf,    \* host of an attachment
  MaxCalls,  \* bound: calls of the driver
  MaxFaults  \* bound: requests refused, unanswered or timed out, failed volumes

LightosVolumeAssumption ==
  /\ "life" \notin Attachment /\ HostOf \in [Attachment -> Host]
  /\ MaxCalls \in Nat /\ MaxFaults \in Nat

VARIABLES
  state, acl, ipAcl, size, etag, \* the volume in the cluster
  interim,  \* state of the intermediate snapshot of a clone
  cinder,   \* Cinder: status of the volume
  sold,     \* Cinder: its size
  pc,       \* step of a worker: "life" or an attachment
  read,     \* what it has read: lists and tag
  attached, \* attachments Cinder has made and not unmade
  mode,     \* what the life's call is for
  silent,   \* results that were wrong, and told to nobody
  calls, faults

cluster == <<state, acl, ipAcl, size, etag>>
vars == <<cluster, interim, cinder, sold, pc, read, attached, mode, silent, calls, faults>>

Worker == Attachment \union {"life"}
Nobody == [acl |-> {}, ip |-> {}, etag |-> 0]
Gone == {"absent", "Deleting"}

Init ==
  /\ state = "absent" /\ acl = {} /\ ipAcl = {} /\ size = 1 /\ etag = 0
  /\ interim = "absent" /\ cinder = "new" /\ sold = 1
  /\ pc = [w \in Worker |-> "idle"] /\ read = [w \in Worker |-> Nobody]
  /\ attached = {} /\ mode = "none" /\ silent = {} /\ calls = 0 /\ faults = 0

Goto(w, p) == pc' = [pc EXCEPT ![w] = p]
At(w, p) == pc[w] = p
Fault == faults < MaxFaults /\ faults' = faults + 1
Fine == UNCHANGED faults
Call == calls < MaxCalls /\ calls' = calls + 1

-----------------------------------------------------------------------------
(***************************************************************************)
(* The cluster.                                                            *)
(***************************************************************************)

Settle ==
  /\ \/ state \in {"Creating", "Updating"} /\ state' = "Available" /\ Fine
     \/ state = "Creating" /\ state' = "Failed" /\ Fault
     \/ state = "Deleting" /\ state' = "absent" /\ Fine
  /\ acl' = (IF state' = "absent" THEN {} ELSE acl) /\ ipAcl' = (IF state' = "absent" THEN {} ELSE ipAcl)
  /\ UNCHANGED <<size, etag, interim, cinder, sold, pc, read, attached, mode, silent, calls>>

-----------------------------------------------------------------------------
(***************************************************************************)
(* Attachments.                                                            *)
(***************************************************************************)

InitializeConnection(a) ==
  /\ At(a, "idle") /\ cinder \in {"available", "in-use"} /\ At("life", "idle") /\ a \notin attached /\ Call
  /\ cinder' = "in-use" /\ Goto(a, "add")
  /\ UNCHANGED <<cluster, interim, sold, read, attached, mode, silent, faults>>

\* Mutant: without the name of a host there is nothing to do.
NothingToDo == "idle"

\* A termination without the name of a host throws all of them out.
WithoutName == "overwrite"

TerminateConnection(a) ==
  /\ At(a, "idle") /\ a \in attached /\ Call
  /\ attached' = attached \ {a} /\ (Goto(a, "remove") \/ Goto(a, WithoutName))
  /\ UNCHANGED <<cluster, interim, cinder, sold, read, mode, silent, faults>>

\* A look that shows no volume is repeated, until time is out.
GetLightosVolume(a) ==
  /\ pc[a] \in {"add", "remove", "overwrite"} /\ state # "absent"
  /\ read' = [read EXCEPT ![a] = [acl |-> acl, ip |-> ipAcl, etag |-> etag]]
  /\ Goto(a, CASE pc[a] = "add" -> "put" [] pc[a] = "remove" -> "take" [] OTHER -> "clear")
  /\ UNCHANGED <<cluster, interim, cinder, sold, attached, mode, silent, calls, faults>>

\* The functions handed to update_volume_acl.
AddVolumeAcl(r, h) == [acl |-> r.acl \union {h}, ip |-> r.ip \union {h}]
RemoveVolumeAcl(r, h) == [acl |-> r.acl \ {h}, ip |-> r.ip \ {h}]
OverwriteVolumeAcl == [acl |-> {}, ip |-> {}]

Lists(a) ==
  CASE At(a, "put") -> AddVolumeAcl(read[a], HostOf[a])
    [] At(a, "take") -> RemoveVolumeAcl(read[a], HostOf[a])
    [] OTHER -> OverwriteVolumeAcl

\* Mutant: If-Match is not sent.
Unmatched(w) == state = "Available"

Matches(w) == state = "Available" /\ read[w].etag = etag

Update(w) ==
  /\ acl' = Lists(w).acl /\ ipAcl' = Lists(w).ip
  /\ etag' = etag + 1 /\ state' = "Updating" /\ UNCHANGED size

Again == [put |-> "add", take |-> "remove", clear |-> "overwrite"]
Last(a) == IF At(a, "put") THEN "settleIn" ELSE "settleOut"

\* update_volume; what was done without an answer is refused when repeated,
\* and read again.
SetVolumeAcl(a) ==
  /\ pc[a] \in DOMAIN Again
  /\ IF Matches(a)
     THEN \/ Update(a) /\ Goto(a, Last(a)) /\ Fine
          \/ Update(a) /\ Goto(a, Again[pc[a]]) /\ Fault
     ELSE Goto(a, Again[pc[a]]) /\ Fine /\ UNCHANGED cluster
  /\ silent' = (IF At(a, "clear") /\ attached # {} THEN silent \union {"forced"} ELSE silent)
  /\ UNCHANGED <<interim, cinder, sold, read, attached, mode, calls>>

\* The volume stabilizes, and the list shows what was asked for.
WaitForVolumeAcl(a) ==
  /\ pc[a] \in {"settleIn", "settleOut"} /\ state = "Available"
  /\ (HostOf[a] \in acl) = At(a, "settleIn")
  /\ attached' = (IF At(a, "settleIn") THEN attached \union {a} ELSE attached)
  /\ Goto(a, "idle") /\ read' = [read EXCEPT ![a] = Nobody]
  /\ UNCHANGED <<cluster, interim, cinder, sold, mode, silent, calls, faults>>

\* Time is out or no server answers: a host that was to be let in stays out for
\* Cinder, one that was to be shut out is forgotten.
GiveUp(a) ==
  /\ pc[a] \notin {"idle"} /\ Fault
  /\ Goto(a, "idle") /\ read' = [read EXCEPT ![a] = Nobody]
  /\ UNCHANGED <<cluster, interim, cinder, sold, attached, mode, silent, calls>>

AttachmentStep(a) ==
  \/ InitializeConnection(a) \/ TerminateConnection(a) \/ GetLightosVolume(a)
  \/ SetVolumeAcl(a) \/ WaitForVolumeAcl(a) \/ GiveUp(a)

-----------------------------------------------------------------------------
(***************************************************************************)
(* Life.                                                                   *)
(***************************************************************************)

Calm == \A a \in Attachment : At(a, "idle")
Begin(m, p) == At("life", "idle") /\ Call /\ mode' = m /\ Goto("life", p)
Life(p) == At("life", p)
Return(status) == cinder' = status /\ Goto("life", "idle") /\ mode' = "none"
Quiet == UNCHANGED <<acl, ipAcl, etag, read, attached>>

Ask ==
  /\ \/ cinder \in {"new", "error"} /\ (Begin("create", "look") \/ Begin("clone", "snap"))
     \/ cinder \in {"available", "error", "error_deleting"} /\ attached = {} /\ Calm /\ Begin("delete", "find")
     \/ cinder \in {"available", "in-use"} /\ size = 1 /\ Begin("extend", "measure")
  /\ Fine /\ UNCHANGED <<cluster, interim, cinder, sold, read, attached, silent>>

\* All is detached.
Available ==
  /\ cinder = "in-use" /\ attached = {} /\ Calm /\ Life("idle") /\ cinder' = "available"
  /\ UNCHANGED <<cluster, interim, sold, pc, read, attached, mode, silent, calls, faults>>

\* Mutant: the end of the deletion is not awaited.
SnapshotNotAwaited == "Deleting"

SnapshotDeleted == "absent"

\* _delete_lightos_snapshot: a refusal, or a snapshot that does not go, is a
\* warning, a look-up that fails an error for the caller.
DeleteLightosSnapshot(finds) ==
  \/ finds /\ interim' = SnapshotDeleted /\ Fine
  \/ interim' = interim /\ Fault

\* _wait_for_snapshot_available: a terminal state, or time is out.
WaitForSnapshotAvailable == {"Available", "UNKNOWN"}

\* An existing snapshot is taken for the one of an earlier try.  One that does
\* not become available is deleted.
CreateSnapshot ==
  /\ Life("snap")
  /\ \E found \in WaitForSnapshotAvailable :
       IF found = "Available"
       THEN interim' = "Available" /\ Goto("life", "look") /\ UNCHANGED <<cinder, mode, silent, faults>>
       ELSE /\ Fault /\ Return("error") /\ interim' \in {interim, SnapshotDeleted, "Available"}
            /\ silent' = silent \union {"interim"}
  /\ UNCHANGED <<state, size, sold, calls>> /\ Quiet

\* A volume of this name is from an earlier call.
LookForVolume ==
  /\ Life("look")
  /\ \/ Goto("life", IF state = "absent" THEN "post" ELSE "wait") /\ Fine
     \/ Goto("life", "raise") /\ Fault
  /\ UNCHANGED <<state, size, interim, cinder, sold, mode, silent, calls>> /\ Quiet

\* A request that is repeated by another server finds the name taken.
CreateNewLightosVolume ==
  /\ Life("post")
  /\ \/ state' = "Creating" /\ Goto("life", "wait") /\ Fine
     \/ state' \in {"Creating", state} /\ Goto("life", "raise") /\ Fault
  /\ UNCHANGED <<size, interim, cinder, sold, mode, silent, calls>> /\ Quiet

WaitForVolumeAvailable ==
  /\ Life("wait") /\ Quiet
  /\ \/ state = "Available" /\ Goto("life", "ready") /\ Fine /\ UNCHANGED state
     \/ state \in {"Failed", "Deleting"} /\ state' = "Deleting" /\ Goto("life", "raise") /\ Fine
     \/ Goto("life", "raise") /\ Fault /\ UNCHANGED state
  /\ UNCHANGED <<size, interim, cinder, sold, mode, silent, calls>>

\* Mutant: the snapshot is deleted only if the volume has been made.
FinallyOnSuccess == Life("ready")

Finally == Life("ready") \/ Life("raise")

\* The end of create_volume and, for a clone, its finally: what its deletion of
\* the snapshot raises is the error of the whole call.
CreateEnds ==
  /\ Life("ready") \/ Life("raise")
  /\ LET status == IF Life("ready") THEN "available" ELSE "error"
     IN  IF mode = "clone" /\ Finally
         THEN \E finds \in BOOLEAN :
                /\ DeleteLightosSnapshot(finds) /\ Return(IF finds THEN status ELSE "error")
                /\ silent' = IF interim' = interim THEN silent \union {"interim"} ELSE silent
         ELSE Return(status) /\ Fine /\ UNCHANGED <<interim, silent>>
  /\ UNCHANGED <<state, size, sold, calls>> /\ Quiet

\* Any status but OK is taken for a volume that is not there.
GetLightosUuid ==
  /\ Life("find")
  /\ \/ state = "absent" /\ Return("deleted") /\ Fine /\ UNCHANGED silent
     \/ state # "absent" /\ Goto("life", "erase") /\ Fine /\ UNCHANGED <<cinder, mode, silent>>
     \/ Fault /\ Return("deleted") /\ silent' = silent \union {"find"}
  /\ UNCHANGED <<state, size, interim, sold, calls>> /\ Quiet

\* Mutant: a refusal is not looked at.
RefusalIsDone == "deleted"

Refusal == "error_deleting"

DeleteLightosVolume ==
  /\ Life("erase")
  /\ \/ state' = (IF state = "absent" THEN state ELSE "Deleting") /\ Return("deleted") /\ Fine
     \/ Fault /\ UNCHANGED state /\ Return(Refusal)
  /\ UNCHANGED <<size, interim, sold, silent, calls>> /\ Quiet

ReadForExtend ==
  /\ Life("measure")
  /\ \/ read' = [read EXCEPT !["life"].etag = etag] /\ Goto("life", "extend") /\ Fine /\ UNCHANGED <<cinder, mode>>
     \/ Fault /\ Return(cinder) /\ UNCHANGED read
  /\ UNCHANGED <<cluster, interim, sold, attached, silent, calls>>

\* Mutant: one refusal, and it counts as extended.
NotRetried == "idle"

Retried == "measure"

\* An extension refused for its tag is tried again.  When the time is over
\* between two attempts, the call returns as if it had been done.
ExtendVolume ==
  /\ Life("extend")
  /\ \/ /\ Matches("life") /\ Fine
        /\ size' = 2 /\ etag' = etag + 1 /\ state' = "Updating" /\ UNCHANGED <<acl, ipAcl>>
        /\ sold' = 2 /\ Return(cinder) /\ UNCHANGED silent
     \/ /\ ~Matches("life") /\ Fine
        /\ Goto("life", Retried) /\ sold' = (IF Retried = "idle" THEN 2 ELSE sold)
        /\ UNCHANGED <<cluster, cinder, mode, silent>>
     \/ /\ Fault /\ Return(cinder) /\ sold' = 2 /\ silent' = silent \union {"extend"} /\ UNCHANGED cluster
  /\ read' = [read EXCEPT !["life"] = Nobody]
  /\ UNCHANGED <<interim, attached, calls>>

LifeStep ==
  \/ Ask \/ Available \/ CreateSnapshot \/ LookForVolume \/ CreateNewLightosVolume
  \/ WaitForVolumeAvailable \/ CreateEnds \/ GetLightosUuid \/ DeleteLightosVolume
  \/ ReadForExtend \/ ExtendVolume

Next == Settle \/ LifeStep \/ \E a \in Attachment : AttachmentStep(a)

Spec == Init /\ [][Next]_vars

-----------------------------------------------------------------------------
TypeOK ==
  /\ state \in {"absent", "Creating", "Available", "Updating", "Failed", "Deleting"}
  /\ acl \subseteq Host /\ ipAcl \subseteq Host /\ size \in {1, 2} /\ sold \in {1, 2}
  /\ etag \in Nat /\ interim \in {"absent", "Available"}
  /\ cinder \in {"new", "error", "available", "in-use", "deleted", "error_deleting"}
  /\ DOMAIN pc = Worker /\ read \in [Worker -> [acl : SUBSET Host, ip : SUBSET Host, etag : Nat]]
  /\ attached \subseteq Attachment /\ silent \subseteq {"find", "extend", "forced", "interim"}

\* The host of an attachment may use the volume, in both lists, whatever other
\* workers write at the same time, until a forced termination without a host
\* throws everybody out (lightos.py:1059-1135, 1283-1334, 1538-1573).  The
\* driver declares that it supports multiattach (lightos.py:1015), but one
\* termination shuts the host out for all of its attachments: a host that has
\* another attachment is excepted.
Sole(a) == \A b \in Attachment \ {a} : HostOf[b] # HostOf[a]
AttachedHasAccess ==
  "forced" \in silent \/ \A a \in attached : Sole(a) => HostOf[a] \in acl /\ HostOf[a] \in ipAcl

\* Without faults, nobody else has access: a terminated connection is shut
\* (lightos.py:1151-1229, 1563-1571).
NobodyElse ==
  faults = 0 /\ Calm => acl \subseteq {HostOf[a] : a \in attached}

\* A volume is left behind by a deletion only if the look-up that failed was
\* taken for proof that there is none (lightos.py:630-640, 819-824).
DeletedIsGone == cinder = "deleted" /\ ~(state \in Gone) => "find" \in silent

\* Cinder's size is the volume's, unless the extension ran out of time
\* (lightos.py:917-936).
ExtendedIsLarger == sold <= size \/ "extend" \in silent

\* A clone, made or not, leaves no intermediate snapshot but for faults of
\* its own deletion (lightos.py:438-452).
NoInterim == interim = "Available" => mode = "clone" \/ "interim" \in silent
=============================================================================
