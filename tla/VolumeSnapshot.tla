-------------------------- MODULE VolumeSnapshot --------------------------
(***************************************************************************)
(* Snapshots of a volume that a guest has as a chain of qcow2 files.       *)
(* Cinder, which is external, makes the files, asks nova-compute to put    *)
(* the next one on top or to merge one into its neighbour, and deletes     *)
(* what it is told has been merged.  The driver polls the block job: a job *)
(* that is gone counts as one that has succeeded.                          *)
(***************************************************************************)
EXTENDS Naturals, Sequences, SequencesExt

CONSTANTS
  Snapshot,
  MaxWrites, \* bound: writes of the guest
  MaxFaults  \* bound: failed calls, jobs that fail, deaths of nova-compute

VolumeSnapshotAssumption ==
  /\ {"base", "none"} \intersect Snapshot = {}
  /\ MaxWrites \in Nat /\ MaxFaults \in Nat

VARIABLES
  chain,   \* files of the guest's disk, the one it writes to last
  known,   \* Cinder: the same
  data,    \* writes in a file
  overlay, \* Cinder: file made on top of a snapshot's data
  doomed,  \* Cinder: snapshots whose deletion has begun
  content, \* what the volume held when a snapshot was taken
  request, \* what Cinder waits for
  phase,   \* how far the driver is with it
  job,     \* block job runs
  silent,  \* a job has failed and nobody saw it
  active,  \* the guest runs
  writes, faults

cinder == <<known, overlay, doomed>>
vars == <<chain, data, cinder, content, request, phase, job, silent, active, writes, faults>>

Existing == DOMAIN overlay
Position(f, files) == CHOOSE i \in DOMAIN files : files[i] = f
Without(f, files) == RemoveAt(files, Position(f, files))
View(files, n) == UNION {data[files[i]] : i \in 1 .. n}
Fault == faults < MaxFaults /\ faults' = faults + 1

Init ==
  /\ chain = <<"base">> /\ known = <<"base">>
  /\ data = [f \in {"base"} \union Snapshot |-> {}]
  /\ overlay = <<>> /\ doomed = {} /\ content = [s \in Snapshot |-> {}]
  /\ request = <<>> /\ phase = "idle" /\ job = FALSE /\ silent = FALSE
  /\ active \in BOOLEAN /\ writes = 0 /\ faults = 0

GuestWrites ==
  /\ active /\ writes < MaxWrites /\ writes' = writes + 1
  /\ data' = [data EXCEPT ![Last(chain)] = @ \union {writes}]
  /\ UNCHANGED <<chain, cinder, content, request, phase, job, silent, active, faults>>

\* A job ends with its guest: power is only switched without one.
GuestSwitches ==
  /\ ~job /\ active' = ~active
  /\ UNCHANGED <<chain, data, cinder, content, request, phase, job, silent, writes, faults>>

-----------------------------------------------------------------------------
(***************************************************************************)
(* Cinder asks.                                                            *)
(***************************************************************************)

AskCreate(s) ==
  /\ phase = "idle"
  /\ s \notin Existing \union ToSet(chain) \union ToSet(known) /\ Last(known) = Last(chain)
  /\ request' = [kind |-> "create", snapshot |-> s] /\ phase' = "asked"
  /\ UNCHANGED <<chain, data, cinder, content, job, silent, active, writes, faults>>

\* What was written after the snapshot, its overlay, is committed to the file
\* below; or, if the overlay is the active file, the file below is pulled in.
AskDelete(s) ==
  /\ phase = "idle" /\ s \in Existing /\ ~silent
  /\ LET i == Position(overlay[s], known)
         pulls == i = Len(known)
     IN  request' = [kind |-> IF pulls THEN "pull" ELSE "commit", snapshot |-> s,
                     source |-> IF pulls THEN known[i - 1] ELSE known[i],
                     base |-> IF ~pulls THEN known[i - 1] ELSE IF i > 2 THEN known[i - 2] ELSE "none"]
  /\ doomed' = doomed \union {s} /\ phase' = "asked"
  /\ UNCHANGED <<chain, data, known, overlay, content, job, silent, active, writes, faults>>

-----------------------------------------------------------------------------
(***************************************************************************)
(* The driver.                                                             *)
(***************************************************************************)

\* A quiesced attempt that fails is repeated without, unless the image
\* requires it: then, as when that fails too, Cinder is told of an error.
TakeSnapshot ==
  /\ active
  /\ chain' = Append(chain, request.snapshot)
  /\ content' = [content EXCEPT ![request.snapshot] = View(chain, Len(chain))]
  /\ phase' = "success" /\ UNCHANGED faults

\* A guest that does not run has no snapshot.
VolumeSnapshotCreate ==
  /\ phase = "asked" /\ request.kind = "create"
  /\ \/ TakeSnapshot
     \/ /\ (~active /\ UNCHANGED faults) \/ Fault
        /\ phase' = "error" /\ UNCHANGED <<chain, content>>
  /\ UNCHANGED <<data, cinder, request, job, silent, active, writes>>

\* Mutant: all above is committed too.
CommitFromActive(base, top) ==
  /\ data' = [data EXCEPT ![base] = View(chain, Len(chain))]
  /\ chain' = Without(top, chain)

Commit(base, top) ==
  /\ data' = [data EXCEPT ![base] = @ \union data[top]]
  /\ chain' = Without(top, chain)

\* All between base and the active file moves into that.
Pull(base) ==
  LET n == IF base = "none" THEN 0 ELSE Position(base, chain)
      pulled == UNION {data[chain[i]] : i \in n + 1 .. Len(chain)}
  IN  /\ data' = [data EXCEPT ![Last(chain)] = pulled]
      /\ chain' = Append(SubSeq(chain, 1, n), Last(chain))

Merge == IF request.kind = "pull" THEN Pull(request.base) ELSE Commit(request.base, request.source)

GetSnapDev ==
  /\ request.base \in ToSet(chain) \union {"none"}
  /\ request.kind = "commit" => request.source \in ToSet(chain)

\* The disk of a guest that is off is rebased by qemu-img.
RebaseWithQemuImg ==
  /\ GetSnapDev /\ ~active /\ request.kind = "pull"
  /\ Pull(request.base) /\ phase' = "success" /\ UNCHANGED <<job, faults>>

\* Nothing commits without the guest.
VolumeSnapshotDelete ==
  /\ phase = "asked" /\ request.kind \in {"pull", "commit"}
  /\ \/ /\ GetSnapDev /\ active
        /\ job' = TRUE /\ phase' = "waiting" /\ UNCHANGED <<data, chain, faults>>
     \/ RebaseWithQemuImg
     \/ /\ ~GetSnapDev \/ (~active /\ request.kind = "commit")
        /\ phase' = "error" /\ UNCHANGED <<data, chain, job, faults>>
     \/ Fault /\ phase' = "error" /\ UNCHANGED <<data, chain, job>>
  /\ UNCHANGED <<cinder, content, request, silent, active, writes>>

\* QEMU: the job merges, or fails and is gone as well.
JobEnds ==
  /\ job /\ job' = FALSE
  /\ \/ Merge /\ UNCHANGED <<silent, faults>>
     \/ Fault /\ silent' = TRUE /\ UNCHANGED <<data, chain>>
  /\ UNCHANGED <<cinder, content, request, phase, active, writes>>

\* Mutant: the start of the job counts.
IsJobStarted == TRUE

IsJobComplete == ~job

WaitForJob ==
  /\ phase = "waiting" /\ IsJobComplete /\ phase' = "success"
  /\ UNCHANGED <<chain, data, cinder, content, request, job, silent, active, writes, faults>>

-----------------------------------------------------------------------------
(***************************************************************************)
(* Cinder hears of it, or does not: the update is lost, or nova-compute    *)
(* dies while it waits, and Cinder gives up.                               *)
(***************************************************************************)

Believes ==
  IF request.kind = "create"
  THEN /\ known' = Append(known, request.snapshot)
       /\ overlay' = [s \in Existing \union {request.snapshot} |->
                        IF s = request.snapshot THEN s ELSE overlay[s]]
       /\ UNCHANGED <<data, doomed>>
  ELSE /\ known' = Without(request.source, known)
       /\ overlay' = [s \in Existing \ {request.snapshot} |->
                        IF overlay[s] = request.source THEN Last(known) ELSE overlay[s]]
       /\ data' = [data EXCEPT ![request.source] = {}]
       /\ doomed' = doomed \ {request.snapshot}

UpdateStatus ==
  \/ phase = "success" /\ Believes
  \/ phase = "error" /\ UNCHANGED <<data, cinder>>

VolumeSnapshotUpdateStatus ==
  /\ UpdateStatus
  /\ phase' = "idle" /\ request' = <<>>
  /\ UNCHANGED <<chain, content, job, silent, active, writes, faults>>

CinderGivesUp ==
  /\ phase \in {"success", "error", "waiting"} /\ ~job
  /\ Fault /\ phase' = "idle" /\ request' = <<>>
  /\ UNCHANGED <<chain, data, cinder, content, job, silent, active, writes>>

Next ==
  \/ GuestWrites \/ GuestSwitches
  \/ \E s \in Snapshot : AskCreate(s) \/ AskDelete(s)
  \/ VolumeSnapshotCreate \/ VolumeSnapshotDelete \/ JobEnds \/ WaitForJob
  \/ VolumeSnapshotUpdateStatus \/ CinderGivesUp

Spec == Init /\ [][Next]_vars

-----------------------------------------------------------------------------
TypeOK ==
  /\ Len(chain) > 0 /\ Len(known) > 0
  /\ ToSet(chain) \union ToSet(known) \subseteq {"base"} \union Snapshot
  /\ \A s \in Existing : overlay[s] \in ToSet(known)
  /\ doomed \subseteq Existing
  /\ phase \in {"idle", "asked", "waiting", "success", "error"}
  /\ (phase = "idle") <=> (request = <<>>)
  /\ writes \in 0 .. MaxWrites /\ faults \in 0 .. MaxFaults

\* As long as no block job has failed unseen, the guest's disk holds all it
\* has written, whatever is merged and deleted (driver_22.04.py:3679-3778).
GuestKeepsWrites == ~silent => View(chain, Len(chain)) = 0 .. writes - 1

\* As long as no block job has failed unseen, a snapshot that is not being
\* deleted reads as it was taken, while its neighbours go and the guest writes on
\* (driver_22.04.py:3733-3778).
SnapshotsKept ==
  ~silent => \A s \in Existing \ doomed :
    View(known, Position(overlay[s], known) - 1) = content[s]
=============================================================================
