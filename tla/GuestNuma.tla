----------------------------- MODULE GuestNuma -----------------------------
(***************************************************************************)
(* Which processors of a host a guest runs on.  Three options divide the   *)
(* host's processors, the topology the driver reports is what guests are   *)
(* fitted to, and the definition of a guest follows from the fit, the      *)
(* options and the processors online, when it starts and when it moves.    *)
(* Fitting, claims and Placement are external.  Guests have one NUMA cell. *)
(***************************************************************************)
EXTENDS Naturals, FiniteSets

CONSTANTS
  Host, Guest, Vcpu,
  Cells,     \* NUMA cells of a host, sets of processors' numbers
  Configs,   \* configurations of a host: dedicated, shared and pinSet
  Unsteady,  \* bound: processors that may go offline
  Flavors    \* of guests: policy, emulator policy, pinned and real-time vCPUs

Cpu == UNION Cells

GuestNumaAssumption ==
  /\ Cpu \subseteq Nat /\ \A c, d \in Cells : c = d \/ c \intersect d = {}
  /\ \A c \in Configs : c.dedicated \union c.shared \union c.pinSet \subseteq Cpu
  /\ \A f \in Flavors : f.rt \subseteq f.pinned /\ f.pinned \subseteq Vcpu /\ f.rt # Vcpu

VARIABLES
  config, online,   \* of a host
  flavor,           \* of a guest
  host,             \* where it runs, or Nowhere
  claim,            \* what it was fitted to: cell, pin of its pinned vCPUs, reserved processors
  definition,       \* what libvirt was told: pin of every vCPU, emulator
  roamed,           \* it has moved and kept its definition
  arriving          \* the destination of its migration, claim and definition there

vars == <<config, online, flavor, host, claim, definition, roamed, arriving>>

Nowhere == "nowhere"
None == [host |-> Nowhere]
Floats(g) == flavor[g].policy = "none"

-----------------------------------------------------------------------------
(***************************************************************************)
(* The host's processors.                                                  *)
(***************************************************************************)

\* _check_cpu_set_configuration
CheckCpuSet(c) ==
  IF c.pinSet = {} THEN c.dedicated \intersect c.shared = {} ELSE c.dedicated = {}

VcpuAvailable(h) ==
  LET c == config[h]
  IN  IF c.pinSet # {} THEN c.pinSet
      ELSE IF c.shared # {} THEN c.shared
      ELSE IF c.dedicated # {} THEN {}
      ELSE online[h]

\* Both raise for a processor that is configured and not online.
Available(h) == config[h].dedicated \union VcpuAvailable(h) \subseteq online[h]

\* In the way of old, without a dedicated set, pinned and other guests share.
PcpuAvailable(h) ==
  IF config[h].dedicated = {} /\ (config[h].shared = {} \/ config[h].pinSet # {})
  THEN VcpuAvailable(h) ELSE config[h].dedicated

\* A cell of _get_host_numa_topology.
HostCell(h, c) == [cpuset |-> c \intersect VcpuAvailable(h), pcpuset |-> c \intersect PcpuAvailable(h)]

-----------------------------------------------------------------------------
(***************************************************************************)
(* Claims.                                                                 *)
(***************************************************************************)
Taken(x) == {x.pin[v] : v \in DOMAIN x.pin} \union x.reserved
Claimed(h) ==
  UNION ({Taken(claim[g]) : g \in {k \in Guest : host[k] = h}}
         \union {Taken(arriving[g].claim) : g \in {k \in Guest : arriving[k].host = h}})

\* hardware.numa_fit_instance_to_host: the first that are free, in a cell.
Fits(g, h) ==
  {x \in [cell : Cells, pin : [flavor[g].pinned -> Cpu], reserved : {{}} \union {{c} : c \in Cpu}] :
     LET f == flavor[g]
         cell == HostCell(h, x.cell)
         free == cell.pcpuset \ Claimed(h)
     IN  /\ Taken(x) \subseteq free /\ \A c \in Taken(x), d \in free \ Taken(x) : c < d
         /\ \A c \in x.reserved, v \in f.pinned : x.pin[v] < c
         /\ Cardinality(Taken(x)) = Cardinality(f.pinned) + Cardinality(x.reserved)
         /\ (x.reserved # {}) <=> (f.emulator = "isolate")
         /\ f.pinned # Vcpu => cell.cpuset # {}}

-----------------------------------------------------------------------------
(***************************************************************************)
(* The definition.                                                         *)
(***************************************************************************)

\* _get_pin_cpuset
PinCpuset(x, h, v) == IF v \in DOMAIN x.pin THEN {x.pin[v]} ELSE HostCell(h, x.cell).cpuset

\* Mutant: on the processors of all vCPUs.
EmulatorEverywhere(g, h, x, v) ==
  CASE flavor[g].emulator = "isolate" -> x.reserved
    [] flavor[g].emulator = "share" /\ config[h].shared # {} -> config[h].shared \intersect online[h]
    [] OTHER -> PinCpuset(x, h, v)

\* _get_emulatorpin_cpuset
EmulatorCpuset(g, h, x, v) ==
  CASE flavor[g].emulator = "isolate" -> x.reserved
    [] flavor[g].emulator = "share" /\ config[h].shared # {} -> config[h].shared \intersect online[h]
    [] OTHER -> IF v \in flavor[g].rt THEN {} ELSE PinCpuset(x, h, v)

\* Mutant: the shared set is not looked at.
FloatingOfOld(h) == IF config[h].pinSet # {} THEN VcpuAvailable(h) ELSE Cpu

Floating(h) == IF config[h].pinSet # {} \/ config[h].shared # {} THEN VcpuAvailable(h) ELSE Cpu

\* _get_guest_numa_config; without a topology all vCPUs float on one set.
NumaConfig(g, h, x) ==
  IF Floats(g)
  THEN [pin |-> [v \in Vcpu |-> Floating(h)], emulator |-> Floating(h)]
  ELSE [pin |-> [v \in Vcpu |-> PinCpuset(x, h, v)],
        emulator |-> UNION {EmulatorCpuset(g, h, x, v) : v \in Vcpu}]

\* It raises for a shared set that is offline altogether.
Configurable(g, h) ==
  /\ Available(h)
  /\ flavor[g].emulator = "share" /\ config[h].shared # {} => config[h].shared \intersect online[h] # {}

-----------------------------------------------------------------------------
Init ==
  /\ config \in [Host -> {c \in Configs : CheckCpuSet(c)}] /\ online = [h \in Host |-> Cpu]
  /\ flavor \in [Guest -> Flavors]
  /\ host = [g \in Guest |-> Nowhere] /\ arriving = [g \in Guest |-> None]
  /\ claim = [g \in Guest |-> None] /\ definition = [g \in Guest |-> None]
  /\ roamed = [g \in Guest |-> FALSE]

\* Where Placement has processors, and the fit is found, if there is a topology.
Claim(g, h) == IF Floats(g) THEN IF VcpuAvailable(h) = {} THEN {} ELSE {[pin |-> <<>>, reserved |-> {}]} ELSE Fits(g, h)

Start(g, h) ==
  /\ host[g] = Nowhere /\ Configurable(g, h)
  /\ \E x \in Claim(g, h) :
       claim' = [claim EXCEPT ![g] = x] /\ definition' = [definition EXCEPT ![g] = NumaConfig(g, h, x)]
  /\ host' = [host EXCEPT ![g] = h]
  /\ UNCHANGED <<config, online, flavor, roamed, arriving>>

Stop(g) ==
  /\ host[g] # Nowhere /\ arriving[g] = None
  /\ host' = [host EXCEPT ![g] = Nowhere] /\ claim' = [claim EXCEPT ![g] = None]
  /\ definition' = [definition EXCEPT ![g] = None] /\ roamed' = [roamed EXCEPT ![g] = FALSE]
  /\ UNCHANGED <<config, online, flavor, arriving>>

HardReboot(g) ==
  /\ host[g] # Nowhere /\ arriving[g] = None /\ Configurable(g, host[g])
  /\ definition' = [definition EXCEPT ![g] = NumaConfig(g, host[g], claim[g])]
  /\ roamed' = [roamed EXCEPT ![g] = FALSE]
  /\ UNCHANGED <<config, online, flavor, host, claim, arriving>>

\* Mutant: the pins alone are told.
PinsOnly(g, new) == IF Floats(g) THEN definition[g] ELSE [definition[g] EXCEPT !.pin = new.pin]

\* _get_live_migrate_numa_info, of a guest with a topology.
NumaInfo(g, new) == IF Floats(g) THEN definition[g] ELSE new

Prepare(g, h) ==
  /\ host[g] \notin {h, Nowhere} /\ arriving[g] = None /\ Configurable(g, h)
  /\ \E x \in Claim(g, h) :
       arriving' = [arriving EXCEPT ![g] = [host |-> h, claim |-> x, definition |-> NumaInfo(g, NumaConfig(g, h, x))]]
  /\ UNCHANGED <<config, online, flavor, host, claim, definition, roamed>>

Arrive(g) ==
  /\ arriving[g] # None
  /\ host' = [host EXCEPT ![g] = arriving[g].host] /\ claim' = [claim EXCEPT ![g] = arriving[g].claim]
  /\ definition' = [definition EXCEPT ![g] = arriving[g].definition]
  /\ roamed' = [roamed EXCEPT ![g] = Floats(g)]
  /\ arriving' = [arriving EXCEPT ![g] = None]
  /\ UNCHANGED <<config, online, flavor>>

GiveUp(g) ==
  /\ arriving[g] # None /\ arriving' = [arriving EXCEPT ![g] = None]
  /\ UNCHANGED <<config, online, flavor, host, claim, definition, roamed>>

\* Bound: one processor is offline, of one host.
Toggle(h) ==
  /\ \A k \in Host \ {h} : online[k] = Cpu
  /\ IF online[h] = Cpu THEN \E c \in Unsteady : online' = [online EXCEPT ![h] = Cpu \ {c}]
                       ELSE online' = [online EXCEPT ![h] = Cpu]
  /\ UNCHANGED <<config, flavor, host, claim, definition, roamed, arriving>>

Next ==
  \/ \E g \in Guest : Stop(g) \/ HardReboot(g) \/ Arrive(g) \/ GiveUp(g)
  \/ \E g \in Guest, h \in Host : Start(g, h) \/ Prepare(g, h)
  \/ \E h \in Host : Toggle(h)

Spec == Init /\ [][Next]_vars

-----------------------------------------------------------------------------
Uses(g) == UNION {definition[g].pin[v] : v \in Vcpu} \union definition[g].emulator
Configured(h) == config[h].dedicated \union config[h].shared \union config[h].pinSet

TypeOK ==
  /\ online \in [Host -> SUBSET Cpu] /\ host \in [Guest -> Host \union {Nowhere}]
  /\ flavor \in [Guest -> Flavors] /\ roamed \in [Guest -> BOOLEAN]
  /\ \A g \in Guest : host[g] # Nowhere => Uses(g) \subseteq Cpu

\* On a host with a dedicated set nothing else runs on the processor of a
\* pinned vCPU, whatever starts, moves, reboots or goes offline; but for a
\* floating guest that has moved, whose set nobody rewrites until its next
\* hard reboot (driver_22.04.py:5777-5958, 8368-8505).
DedicatedAlone ==
  \A g, k \in Guest : g # k /\ host[g] = host[k] /\ host[g] # Nowhere =>
    config[host[g]].dedicated = {} \/ roamed[k]
      \/ \A v \in flavor[g].pinned : definition[g].pin[v] \intersect Uses(k) = {}

\* What the definition names is the present host's, not a former one's, and
\* emulator threads are confined (driver_22.04.py:9494-9533).
PinsOfHost ==
  \A g \in Guest : host[g] # Nowhere /\ ~Floats(g) /\ Configured(host[g]) # {} =>
    definition[g].emulator # {} /\ Uses(g) \subseteq Configured(host[g])

\* Emulator threads stay off the processors of real-time vCPUs
\* (driver_22.04.py:5777-5819).
RealtimeAlone ==
  \A g \in Guest : host[g] # Nowhere /\ config[host[g]].dedicated # {} =>
    \A v \in flavor[g].rt : definition[g].pin[v] \intersect definition[g].emulator = {}
=============================================================================
