----------------------------- MODULE MCServices -----------------------------
(***************************************************************************)
(* Parts of the cloud's services, each small enough to be checked with a   *)
(* few requests, guests and hosts: the object of a guest that the services *)
(* share, its volumes, memory, networks and place, and the status of       *)
(* hosts.  They share no state, so one run checks all: `part' is chosen at *)
(* the start.  A part's variables carry its name where another part has    *)
(* one of the same name; what a property excepts is said with its          *)
(* conjuncts, in the parts.                                                *)
(***************************************************************************)
EXTENDS Naturals, Sequences, FiniteSets, CookbookRules

\* The recipes that install the services are data; the rules that the proofs
\* about them rest on are sound.
ASSUME RecipesSound == CookbookSound

CONSTANTS
  Request, Key, Detail, Nowhere,                   \* the object of a guest
  Attachment, HostOf, LightosCalls, LightosFaults, \* a volume of LightOS
  Guest, Host,            \* of a shared volume, and of persistent memory
  MaxSize,                                         \* a shared volume
  Snapshot, MaxWrites, SnapshotsFaults,            \* snapshots of a volume
  Name, Configs, Flavors, None,                    \* persistent memory
  Project, Owner, Writer, Everyone, MaxShares,     \* a network
  Candidate, Hinted, Zone, MaxVcpus,               \* hosts for a group
  MaxLosses                                        \* the status of a host

\* Values for the configurations.
HostOfAttachment == [a \in {"a1", "a2"} |-> IF a = "a1" THEN "h1" ELSE "h2"]
MemoryConfigs ==
  {<<<<"L", "p">>, <<"M", "q">>>>, <<<<"L", "p">>, <<"L", "q">>>>,
   <<<<"L", "p">>, <<"M", "p">>, <<"L", "q">>>>}
MemoryFlavors == {<<"L">>, <<"M", "L">>}
ZoneOfHost == [h \in {"h1", "h2", "h3"} |-> IF h = "h3" THEN "z2" ELSE "z1"]

VARIABLES
  part,
  db, deleted, kind, key, object_pc, copy, orig, changed, expected, os, kept,
  object_overlap, local,
  state, acl, ipAcl, lightos_size, etag, interim, cinder, sold, lightos_pc,
  read, lightos_attached, mode, lightos_silent, calls, lightos_faults,
  luks, home, running, shared_attached, connected, uses, op, shared_size,
  device, seen, extending, misjudged, doubt,
  chain, known, data, overlay, doomed, snapshots_content, snapshots_request,
  phase, job, snapshots_silent, active, writes, snapshots_faults,
  offered, memory_content, at, flavor, resources, context, move, devices,
  confirmed,
  external, default, entries, shares, gateways, network_request, network_raced,
  on, schedule_request, schedule_overlap, total, used, idle,
  record, trait, linked, losses, events, handler, mounted, wish, status_raced,
  failed, overruled

Object == INSTANCE InstanceObject WITH
  NoHost <- Nowhere, pc <- object_pc, overlap <- object_overlap
Lightos == INSTANCE LightosVolume WITH
  MaxCalls <- LightosCalls, MaxFaults <- LightosFaults,
  size <- lightos_size, pc <- lightos_pc, attached <- lightos_attached,
  silent <- lightos_silent, faults <- lightos_faults
Shared == INSTANCE SharedVolume WITH
  attached <- shared_attached, size <- shared_size
Snapshots == INSTANCE VolumeSnapshot WITH
  MaxFaults <- SnapshotsFaults, content <- snapshots_content,
  request <- snapshots_request, silent <- snapshots_silent,
  faults <- snapshots_faults
Memory == INSTANCE PersistentMemory WITH
  content <- memory_content
Network == INSTANCE ExternalNetwork WITH
  Worker <- Writer, request <- network_request, raced <- network_raced
Schedule == INSTANCE Scheduling WITH
  Host <- Candidate, request <- schedule_request,
  overlap <- schedule_overlap
Status == INSTANCE HostStatus WITH
  raced <- status_raced

ASSUME ObjectAssumption == Object!InstanceObjectAssumption
ASSUME LightosAssumption == Lightos!LightosVolumeAssumption
ASSUME SharedAssumption == Shared!SharedVolumeAssumption
ASSUME SnapshotsAssumption == Snapshots!VolumeSnapshotAssumption
ASSUME MemoryAssumption == Memory!PersistentMemoryAssumption
ASSUME NetworkAssumption == Network!ExternalNetworkAssumption
ASSUME ScheduleAssumption == Schedule!SchedulingAssumption

-----------------------------------------------------------------------------
ObjectVars ==
  <<db, deleted, kind, key, object_pc, copy, orig, changed, expected, os,
  kept, object_overlap, local>>
LightosVars ==
  <<state, acl, ipAcl, lightos_size, etag, interim, cinder, sold, lightos_pc,
  read, lightos_attached, mode, lightos_silent, calls, lightos_faults>>
SharedVars ==
  <<luks, home, running, shared_attached, connected, uses, op, shared_size,
  device, seen, extending, misjudged, doubt>>
SnapshotsVars ==
  <<chain, known, data, overlay, doomed, snapshots_content, snapshots_request,
  phase, job, snapshots_silent, active, writes, snapshots_faults>>
MemoryVars ==
  <<offered, memory_content, at, flavor, resources, context, move, devices,
  confirmed>>
NetworkVars ==
  <<external, default, entries, shares, gateways, network_request,
  network_raced>>
ScheduleVars ==
  <<on, schedule_request, schedule_overlap, total, used, idle>>
StatusVars ==
  <<record, trait, linked, losses, events, handler, mounted, wish,
  status_raced, failed, overruled>>

NoObject ==
  /\ db = 0 /\ deleted = 0 /\ kind = 0 /\ key = 0 /\ object_pc = 0 /\ copy = 0
  /\ orig = 0 /\ changed = 0 /\ expected = 0 /\ os = 0 /\ kept = 0
  /\ object_overlap = 0 /\ local = 0
NoLightos ==
  /\ state = 0 /\ acl = 0 /\ ipAcl = 0 /\ lightos_size = 0 /\ etag = 0
  /\ interim = 0 /\ cinder = 0 /\ sold = 0 /\ lightos_pc = 0 /\ read = 0
  /\ lightos_attached = 0 /\ mode = 0 /\ lightos_silent = 0 /\ calls = 0
  /\ lightos_faults = 0
NoShared ==
  /\ luks = 0 /\ home = 0 /\ running = 0 /\ shared_attached = 0
  /\ connected = 0 /\ uses = 0 /\ op = 0 /\ shared_size = 0 /\ device = 0
  /\ seen = 0 /\ extending = 0 /\ misjudged = 0 /\ doubt = 0
NoSnapshots ==
  /\ chain = 0 /\ known = 0 /\ data = 0 /\ overlay = 0 /\ doomed = 0
  /\ snapshots_content = 0 /\ snapshots_request = 0 /\ phase = 0 /\ job = 0
  /\ snapshots_silent = 0 /\ active = 0 /\ writes = 0 /\ snapshots_faults = 0
NoMemory ==
  /\ offered = 0 /\ memory_content = 0 /\ at = 0 /\ flavor = 0
  /\ resources = 0 /\ context = 0 /\ move = 0 /\ devices = 0 /\ confirmed = 0
NoNetwork ==
  /\ external = 0 /\ default = 0 /\ entries = 0 /\ shares = 0 /\ gateways = 0
  /\ network_request = 0 /\ network_raced = 0
NoSchedule ==
  /\ on = 0 /\ schedule_request = 0 /\ schedule_overlap = 0 /\ total = 0
  /\ used = 0 /\ idle = 0
NoStatus ==
  /\ record = 0 /\ trait = 0 /\ linked = 0 /\ losses = 0 /\ events = 0
  /\ handler = 0 /\ mounted = 0 /\ wish = 0 /\ status_raced = 0 /\ failed = 0
  /\ overruled = 0

\* The parts are independent: only one of them runs, the others are not there.
AbsentBut(p) ==
  /\ IF p = "object" THEN TRUE ELSE NoObject
  /\ IF p = "lightos" THEN TRUE ELSE NoLightos
  /\ IF p = "shared" THEN TRUE ELSE NoShared
  /\ IF p = "snapshots" THEN TRUE ELSE NoSnapshots
  /\ IF p = "memory" THEN TRUE ELSE NoMemory
  /\ IF p = "network" THEN TRUE ELSE NoNetwork
  /\ IF p = "schedule" THEN TRUE ELSE NoSchedule
  /\ IF p = "status" THEN TRUE ELSE NoStatus
RestBut(p) ==
  /\ UNCHANGED part
  /\ IF p = "object" THEN TRUE ELSE UNCHANGED ObjectVars
  /\ IF p = "lightos" THEN TRUE ELSE UNCHANGED LightosVars
  /\ IF p = "shared" THEN TRUE ELSE UNCHANGED SharedVars
  /\ IF p = "snapshots" THEN TRUE ELSE UNCHANGED SnapshotsVars
  /\ IF p = "memory" THEN TRUE ELSE UNCHANGED MemoryVars
  /\ IF p = "network" THEN TRUE ELSE UNCHANGED NetworkVars
  /\ IF p = "schedule" THEN TRUE ELSE UNCHANGED ScheduleVars
  /\ IF p = "status" THEN TRUE ELSE UNCHANGED StatusVars

Init ==
  \/ part = "object" /\ Object!Init /\ AbsentBut("object")
  \/ part = "lightos" /\ Lightos!Init /\ AbsentBut("lightos")
  \/ part = "shared" /\ Shared!Init /\ AbsentBut("shared")
  \/ part = "snapshots" /\ Snapshots!Init /\ AbsentBut("snapshots")
  \/ part = "memory" /\ Memory!Init /\ AbsentBut("memory")
  \/ part = "network" /\ Network!Init /\ AbsentBut("network")
  \/ part = "schedule" /\ Schedule!Init /\ AbsentBut("schedule")
  \/ part = "status" /\ Status!Init /\ AbsentBut("status")

Next ==
  \/ part = "object" /\ Object!Next /\ RestBut("object")
  \/ part = "lightos" /\ Lightos!Next /\ RestBut("lightos")
  \/ part = "shared" /\ Shared!Next /\ RestBut("shared")
  \/ part = "snapshots" /\ Snapshots!Next /\ RestBut("snapshots")
  \/ part = "memory" /\ Memory!Next /\ RestBut("memory")
  \/ part = "network" /\ Network!Next /\ RestBut("network")
  \/ part = "schedule" /\ Schedule!Next /\ RestBut("schedule")
  \/ part = "status" /\ Status!Next /\ RestBut("status")

vars ==
  <<part, ObjectVars, LightosVars, SharedVars, SnapshotsVars, MemoryVars,
  NetworkVars, ScheduleVars, StatusVars>>

Spec == Init /\ [][Next]_vars

-----------------------------------------------------------------------------
TypeOK ==
  /\ part = "object" => Object!TypeOK
  /\ part = "lightos" => Lightos!TypeOK
  /\ part = "shared" => Shared!TypeOK
  /\ part = "snapshots" => Snapshots!TypeOK
  /\ part = "memory" => Memory!TypeOK
  /\ part = "network" => Network!TypeOK
  /\ part = "schedule" => Schedule!TypeOK
  /\ part = "status" => Status!TypeOK

\* Whatever requests save copies they loaded earlier, the object keeps what was
\* acknowledged, one operation works on the guest, and a resized guest has the
\* flavor to go back to (instance.py:256-290, 649-653, 719-833).
ObjectKept == part = "object" => Object!ObjectKept

\* The hosts of attachments, and they alone, may use the volume, though workers
\* write its lists at the same time and requests are repeated; sizes, deletions
\* and intermediate snapshots come out as Cinder has them
\* (lightos.py:284-452, 630-640, 819-936, 1059-1334, 1538-1573).
AccessMatches ==
  part = "lightos" =>
    /\ Lightos!AttachedHasAccess
    /\ Lightos!NobodyElse
    /\ Lightos!DeletedIsGone
    /\ Lightos!ExtendedIsLarger
    /\ Lightos!NoInterim

\* A guest has its volume connected and not larger than the device, and its
\* snapshots read as they were taken, through detaches, extensions and block
\* jobs (driver_22.04.py:1914-1981, 2711-2825, 3679-3778).  Excepted are
\* operations on a volume that overlap, the destination of a migration that
\* failed, and snapshots once a block job has failed unseen.
VolumesHold ==
  /\ part = "shared" => Shared!ConnectedWhileUsed /\ Shared!FitsDevice
  /\ part = "snapshots" =>
       /\ Snapshots!GuestKeepsWrites
       /\ Snapshots!SnapshotsKept

\* A namespace of persistent memory is one guest's, in the order of its labels,
\* and empty when the next guest gets it (driver_22.04.py:538-584, 1617-1697,
\* 9466-9492).
MemorySafe ==
  part = "memory" =>
    /\ Memory!OneGuestEach
    /\ Memory!LabelsInOrder
    /\ Memory!GivenBackZeroed

\* As long as a resize may be reverted the former devices keep their contents,
\* and the guest finds them when it is reverted (driver_22.04.py:1617-1620).
KeptForRevert == [][part = "memory" => Memory!KeepsForRevert]_vars

\* Projects keep and see the networks that some entry gives them, in any order
\* of entries made, moved and removed (external_net_db.py:108-243,
\* model_query.py:123-238).
AccessKept ==
  part = "network" =>
    /\ Network!RoutersKeepAccess
    /\ Network!EntriesOfExternal
    /\ Network!ListsTheVisible

\* Members of a group that ask for different zones are in different zones, as
\* long as their requests do not overlap; the busier host is not preferred; and
\* once the events of its connection are handled, a host is in rotation exactly
\* when the operator wants it and its connection is up, but for a record that was
\* not read or saved, and for an operator who changes it between read and save,
\* or enables the host while its connection is lost
\* (anti_affinity_availability_zone_filter.py:43-77, bcpc_cpu.py:64-90,
\* driver_22.04.py:5083-5114).
HostsInOrder ==
  /\ part = "schedule" => Schedule!ZonesApart /\ Schedule!BusierLighter
  /\ part = "status" => Status!OperatorsWish /\ Status!BackInRotation /\ Status!OutWhileLost

\* What a comment says: confirming a resize zeroes the old devices
\* (driver_22.04.py:1811).
ConfirmZeroes == [][part = "memory" => Memory!ZeroesWhenConfirmed]_vars

\* What a comment says: no operation on a volume takes it from another server of
\* the node (driver_22.04.py:1916-1924).
OthersKeepConnection == part = "shared" => Shared!OthersKeepConnection
=============================================================================
