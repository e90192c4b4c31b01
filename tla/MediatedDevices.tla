-------------------------- MODULE MediatedDevices --------------------------
(***************************************************************************)
(* vGPUs of a compute host: the mediated devices that exist, the guests    *)
(* whose definition names them, and what Placement knows: inventory and    *)
(* allocations, on the root provider until the reshape and on one child    *)
(* per physical GPU after it.  Spawns run in parallel threads; the choice  *)
(* of devices is under a lock, the definition that shows it to others is   *)
(* not.  Placement, libvirt's node devices and the kernel are external.    *)
(***************************************************************************)
EXTENDS Naturals, FiniteSets
LOCAL INSTANCE FiniteSetsExt

CONSTANTS
  Gpu, Guest,
  Uuid,      \* bound: mediated devices ever created
  Capacity,  \* devices a GPU can be divided into
  MaxReboots \* bound: reboots of the host

MediatedDevicesAssumption ==
  /\ IsFiniteSet(Gpu) /\ IsFiniteSet(Guest) /\ IsFiniteSet(Uuid)
  /\ Capacity \in Nat \ {0} /\ MaxReboots \in Nat

VARIABLES
  foreign,   \* GPUs divided into devices of a type no longer configured
  parent,    \* GPU of every device libvirt knows
  there,     \* devices in sysfs
  xml,       \* devices in the definition of a guest; {} if undefined
  held,      \* devices in the hands of the thread that starts a guest
  pc,        \* what is done to a guest; "undefined" after a failed hard reboot
  stripped,  \* guests whose definition went in one, and with it their devices
  placed,    \* Placement: vGPUs of a guest, by provider
  inventory, \* Placement: vGPUs by provider; 0 is no inventory
  compute,   \* nova-compute: "down", "up", or failed to start
  reboots

vars == <<foreign, parent, there, xml, held, pc, stripped, placed, inventory, compute, reboots>>

Provider == Gpu \union {"root"}
None == [p \in Provider |-> 0]
Created == DOMAIN parent
OnGpu(p) == {u \in Created : parent[u] = p}
Assigned == UNION {xml[g] : g \in Guest}
Claimed(p) == MapThenSumSet(LAMBDA g : placed[g][p], Guest)

-----------------------------------------------------------------------------
\* Devices that can still be created on a GPU, and those that are there: the
\* types of one GPU must not be mixed.
AvailableInstances(p) ==
  IF p \in foreign THEN 0 ELSE Capacity - Cardinality(OnGpu(p) \intersect there)
CountMediated(p) == IF p \in foreign THEN 0 ELSE Cardinality(OnGpu(p) \intersect there)

\* Mutant: the maximum is taken for what is still available.
InventoryOfMaximum(p) == CountMediated(p) + Capacity

GpuInventory(p) == CountMediated(p) + AvailableInstances(p)

NotAssigned(p) == {u \in OnGpu(p) \intersect there : p \notin foreign} \ Assigned

\* Guests from before vGPUs had a provider of their own hold devices and an
\* allocation on the root.
Init ==
  /\ foreign \in SUBSET Gpu
  /\ \E old \in [Guest -> SUBSET Uuid], on \in [Uuid -> Gpu] :
       /\ \A g, h \in Guest : g # h => old[g] \intersect old[h] = {}
       /\ \A u, v \in UNION {old[g] : g \in Guest} : \A g \in Guest :
            {u, v} \subseteq old[g] => on[u] = on[v]
       /\ parent = [u \in UNION {old[g] : g \in Guest} |-> on[u]]
       /\ xml = old
       /\ pc = [g \in Guest |-> IF old[g] = {} THEN "absent" ELSE "up"]
       /\ placed = [g \in Guest |-> [None EXCEPT !["root"] = Cardinality(old[g])]]
  /\ \A p \in Gpu : Cardinality(OnGpu(p)) <= Capacity
  /\ there = Created /\ held = [g \in Guest |-> {}] /\ stripped = {}
  /\ inventory = [None EXCEPT !["root"] = IF Created = {} THEN 0 ELSE Capacity * Cardinality(Gpu)]
  /\ compute = "down" /\ reboots = 0

-----------------------------------------------------------------------------
(***************************************************************************)
(* The start of nova-compute and the report to Placement.                  *)
(***************************************************************************)

\* Mutant: one device per guest.
RecreateFirst == {CHOOSE u \in xml[g] : TRUE : g \in {h \in Guest : xml[h] # {}}}

\* _recreate_assigned_mediated_devices.
Recreate == Assigned

\* The service does not start if a device to create is of a former type.
InitHost ==
  /\ compute = "down" /\ \A u \in Assigned \ there : parent[u] \notin foreign
  /\ there' = there \union Recreate
  /\ compute' = "started"
  /\ UNCHANGED <<foreign, parent, xml, held, pc, placed, inventory, reboots, stripped>>

PgpuProviders == {p \in Gpu : GpuInventory(p) > 0}

\* Mutant: the allocation moves to the first GPU.
ReshapeToOne(g) ==
  LET one == CHOOSE p \in PgpuProviders : TRUE
  IN  [None EXCEPT ![one] = placed[g]["root"]]

\* Every consumer's vGPUs move to the GPUs its devices are on.
Reshape(g) ==
  [p \in Provider |-> IF p \in PgpuProviders THEN Cardinality(xml[g] \intersect OnGpu(p)) ELSE 0]

\* The reshape is one call to Placement; it fails for a consumer without
\* devices.
ReshapeFails ==
  inventory["root"] > 0 /\ \E g \in Guest : placed[g]["root"] > 0 /\ xml[g] = {}

UpdateProviderTree ==
  /\ compute \in {"started", "up"}
  /\ \E p \in Gpu : GpuInventory(p) > 0 \/ CountMediated(p) > 0
  /\ ~ReshapeFails
  /\ inventory' = [p \in Provider |->
       IF p = "root" THEN 0 ELSE IF p \in PgpuProviders THEN GpuInventory(p) ELSE inventory[p]]
  /\ placed' = IF inventory["root"] = 0 THEN placed
               ELSE [g \in Guest |-> IF placed[g]["root"] > 0 THEN Reshape(g) ELSE placed[g]]
  /\ compute' = "up"
  /\ UNCHANGED <<foreign, parent, there, xml, held, pc, reboots, stripped>>

-----------------------------------------------------------------------------
(***************************************************************************)
(* A guest.                                                                *)
(***************************************************************************)

Schedule(g, p, n) ==
  /\ compute = "up" /\ pc[g] = "absent" /\ n <= inventory[p] - Claimed(p)
  /\ placed' = [placed EXCEPT ![g][p] = n]
  /\ pc' = [pc EXCEPT ![g] = "scheduled"]
  /\ UNCHANGED <<foreign, parent, there, xml, held, inventory, compute, reboots, stripped>>

Asked(g) == CHOOSE p \in Gpu : placed[g][p] > 0

\* Devices to create, after those that are free.
Missing(g) ==
  LET n == placed[g][Asked(g)] free == Cardinality(NotAssigned(Asked(g)))
  IN  IF n > free THEN n - free ELSE 0

Starved(g) == Missing(g) > AvailableInstances(Asked(g))

Make(made, p) ==
  /\ made \subseteq Uuid \ Created
  /\ parent' = [u \in Created \union made |-> IF u \in made THEN p ELSE parent[u]]
  /\ there' = there \union made

\* _allocate_mdevs.
AllocateMdevs(g) ==
  /\ pc[g] = "scheduled" /\ ~Starved(g)
  /\ \E chosen \in SUBSET NotAssigned(Asked(g)), made \in SUBSET Uuid :
       /\ Cardinality(made) = Missing(g)
       /\ Cardinality(chosen) = placed[g][Asked(g)] - Missing(g)
       /\ Make(made, Asked(g))
       /\ held' = [held EXCEPT ![g] = chosen \union made]
  /\ pc' = [pc EXCEPT ![g] = "chosen"]
  /\ UNCHANGED <<foreign, xml, placed, inventory, compute, reboots, stripped>>

\* A device cannot be created; those made before it stay.
AllocationFails(g) ==
  /\ pc[g] = "scheduled" /\ Missing(g) > 0
  /\ \E made \in SUBSET Uuid :
       /\ Cardinality(made) < Missing(g) /\ Cardinality(made) <= AvailableInstances(Asked(g))
       /\ Make(made, Asked(g))
  /\ pc' = [pc EXCEPT ![g] = "absent"] /\ placed' = [placed EXCEPT ![g] = None]
  /\ UNCHANGED <<foreign, xml, held, inventory, compute, reboots, stripped>>

\* The definition, or, as the devices may be in use, none.  A guest that was to
\* be spawned is deleted then; one that was to be rebooted keeps its instance and
\* its allocation.
CreateGuest(g) ==
  /\ pc[g] \in {"chosen", "rebooting"} /\ held' = [held EXCEPT ![g] = {}]
  /\ \/ /\ xml' = [xml EXCEPT ![g] = held[g]]
        /\ pc' = [pc EXCEPT ![g] = "up"] /\ UNCHANGED <<placed, stripped>>
     \/ /\ pc[g] = "chosen" /\ pc' = [pc EXCEPT ![g] = "absent"]
        /\ placed' = [placed EXCEPT ![g] = None] /\ UNCHANGED <<xml, stripped>>
     \/ /\ pc[g] = "rebooting" /\ pc' = [pc EXCEPT ![g] = "undefined"]
        /\ stripped' = stripped \union {g} /\ UNCHANGED <<xml, placed>>
  /\ UNCHANGED <<foreign, parent, there, inventory, compute, reboots>>

\* The devices are remembered, the definition goes, and comes back.  Without a
\* definition there are none to remember.
HardReboot(g) ==
  /\ compute = "up" /\ pc[g] \in {"up", "undefined"}
  /\ held' = [held EXCEPT ![g] = xml[g]] /\ xml' = [xml EXCEPT ![g] = {}]
  /\ pc' = [pc EXCEPT ![g] = "rebooting"]
  /\ UNCHANGED <<foreign, parent, there, stripped, placed, inventory, compute, reboots>>

\* The devices stay, for the next guest.
Destroy(g) ==
  /\ compute = "up" /\ pc[g] \in {"up", "undefined"}
  /\ xml' = [xml EXCEPT ![g] = {}] /\ pc' = [pc EXCEPT ![g] = "absent"]
  /\ placed' = [placed EXCEPT ![g] = None] /\ stripped' = stripped \ {g}
  /\ UNCHANGED <<foreign, parent, there, held, inventory, compute, reboots>>

\* The kernel forgets the devices; threads die, and with them the devices they
\* had chosen or remembered.  A guest that was being spawned is in error, and
\* deleted; one that was being rebooted is left without its definition.
HostReboots ==
  /\ reboots < MaxReboots /\ reboots' = reboots + 1
  /\ there' = {} /\ compute' = "down"
  /\ held' = [g \in Guest |-> {}]
  /\ pc' = [g \in Guest |-> CASE pc[g] \in {"up", "undefined"} -> pc[g]
                              [] pc[g] = "rebooting" -> "undefined"
                              [] OTHER -> "absent"]
  /\ placed' = [g \in Guest |-> IF pc'[g] = "absent" THEN None ELSE placed[g]]
  /\ stripped' = stripped \union {g \in Guest : pc[g] = "rebooting"}
  /\ UNCHANGED <<foreign, parent, xml, inventory>>

Next ==
  \/ InitHost \/ UpdateProviderTree \/ HostReboots
  \/ \E g \in Guest :
       \/ \E p \in Gpu, n \in 1 .. 2 : Schedule(g, p, n)
       \/ AllocateMdevs(g) \/ AllocationFails(g) \/ CreateGuest(g) \/ HardReboot(g) \/ Destroy(g)

Spec == Init /\ [][Next]_vars

-----------------------------------------------------------------------------
TypeOK ==
  /\ foreign \subseteq Gpu /\ Created \subseteq Uuid /\ there \subseteq Created
  /\ \A u \in Created : parent[u] \in Gpu
  /\ \A g \in Guest : xml[g] \subseteq Created /\ held[g] \subseteq Created
  /\ \A g \in Guest : pc[g] \in {"absent", "scheduled", "chosen", "up", "rebooting", "undefined"}
  /\ stripped \subseteq Guest
  /\ placed \in [Guest -> [Provider -> Nat]] /\ inventory \in [Provider -> Nat]
  /\ compute \in {"down", "started", "up"} /\ reboots \in 0 .. MaxReboots

\* A guest Placement has accepted on a GPU gets its devices there, however
\* devices were left over, given out or lost before (driver_22.04.py:7829-7872,
\* 8145-8209).
NotStarved == \A g \in Guest : pc[g] = "scheduled" => ~Starved(g)

\* After a reboot of the host the guests find the devices their definitions
\* name (driver_22.04.py:1066-1093).
DevicesComeBack == compute = "up" => Assigned \subseteq there

\* The allocation of a guest that is up names the GPUs its devices are on,
\* also once the reshape has moved it; GPUs with devices of a former type
\* have no provider (driver_22.04.py:8974-9022).  Excepted is a guest whose hard
\* reboot failed or was cut: what it had was in its definition only, and the
\* next hard reboot brings it back without devices, the allocation kept
\* (driver_22.04.py:3877-3911, 8102-8113).
AllocationMatches ==
  \A g \in Guest : pc[g] = "up" /\ placed[g]["root"] = 0 =>
    IF g \in stripped THEN xml[g] = {}
    ELSE \A p \in Gpu \ foreign : placed[g][p] = Cardinality(xml[g] \intersect OnGpu(p))
=============================================================================
