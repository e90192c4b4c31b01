---------------------------- MODULE ProviderTree ----------------------------
(***************************************************************************)
(* Pinned guests and the two classes of processors of Placement.  A host   *)
(* that gets dedicated processors reports PCPU, and moves the allocations  *)
(* of its pinned guests over from VCPU: those of the guests it has, under  *)
(* their own name, and of those on their way to another host, under the    *)
(* name of the migration.  Guests come and go while nova-compute restarts. *)
(* Placement, the scheduler and the manager are external.                  *)
(***************************************************************************)
EXTENDS Naturals, FiniteSets

CONSTANTS
  Guest,
  Core,     \* processors of the host
  MaxMoves  \* bound: migrations and restarts

ProviderTreeAssumption == IsFiniteSet(Core) /\ IsFiniteSet(Guest) /\ MaxMoves \in Nat

VARIABLES
  dedicated, sharedSet, pinSet, \* configured: cpu_dedicated_set, cpu_shared_set, vcpu_pin_set
  online,    \* processors that are
  pinned,    \* guests with a dedicated policy
  host,      \* host of a guest: "here", "there" or "none"
  migration, \* one in progress: "in", "out" or "none"
  placed,    \* Placement: class of a consumer's allocation here
  inventory, \* Placement: processors by class; 0 is none
  arriving,  \* guests on their way here when allocations were moved
  up, moves

vars == <<dedicated, sharedSet, pinSet, online, pinned, host, migration, placed, inventory, arriving, up, moves>>
config == <<dedicated, sharedSet, pinSet, online>>

Class == {"VCPU", "PCPU"}
Consumer == {"instance", "migration"} \X Guest
Usage(c, of) == Cardinality({x \in Consumer : of[x] = c})
Ratio == [VCPU |-> Cardinality(Guest), PCPU |-> 1]
Fits(of, inv) == \A c \in Class : Usage(c, of) <= inv[c] * Ratio[c]

Init ==
  /\ dedicated = {} /\ sharedSet = {} /\ pinSet \in {{}, Core} /\ online = Core
  /\ pinned \in [Guest -> BOOLEAN]
  /\ host \in [Guest -> {"here", "there"}] /\ migration = [g \in Guest |-> "none"]
  /\ placed = [x \in Consumer |-> IF x[1] = "instance" /\ host[x[2]] = "here" THEN "VCPU" ELSE "none"]
  /\ inventory = [VCPU |-> Cardinality(Core), PCPU |-> 0]
  /\ arriving = {} /\ up = TRUE /\ moves = 0

Move == moves < MaxMoves /\ moves' = moves + 1

-----------------------------------------------------------------------------
(***************************************************************************)
(* Guests.                                                                 *)
(***************************************************************************)

\* A pinned guest takes PCPU where there are any, and VCPU elsewhere.
ClassFor(g) == IF pinned[g] /\ inventory.PCPU > 0 THEN "PCPU" ELSE "VCPU"

StartsIn(g) ==
  /\ host[g] = "there" /\ migration[g] = "none" /\ Move
  /\ placed' = [placed EXCEPT ![<<"instance", g>>] = ClassFor(g)] /\ Fits(placed', inventory)
  /\ migration' = [migration EXCEPT ![g] = "in"]
  /\ UNCHANGED <<config, pinned, host, inventory, arriving, up>>

\* The migration takes over what the guest has here.
StartsOut(g) ==
  /\ host[g] = "here" /\ migration[g] = "none" /\ up /\ Move
  /\ placed' = [placed EXCEPT ![<<"migration", g>>] = placed[<<"instance", g>>], ![<<"instance", g>>] = "none"]
  /\ migration' = [migration EXCEPT ![g] = "out"]
  /\ UNCHANGED <<config, pinned, host, inventory, arriving, up>>

\* The guest has arrived, and waits for its user's confirmation.
Lands(g) ==
  /\ \/ migration[g] = "in" /\ host[g] = "there" /\ up /\ host' = [host EXCEPT ![g] = "here"]
     \/ migration[g] = "out" /\ host[g] = "here" /\ host' = [host EXCEPT ![g] = "there"]
  /\ UNCHANGED <<config, pinned, migration, placed, inventory, arriving, up, moves>>

Confirms(g) ==
  /\ \/ migration[g] = "in" /\ host[g] = "here" /\ UNCHANGED placed
     \/ migration[g] = "out" /\ host[g] = "there" /\ placed' = [placed EXCEPT ![<<"migration", g>>] = "none"]
  /\ migration' = [migration EXCEPT ![g] = "none"]
  /\ UNCHANGED <<config, pinned, host, inventory, arriving, up, moves>>

Reverts(g) ==
  /\ up /\ migration[g] # "none"
  /\ IF migration[g] = "in"
     THEN /\ placed' = [placed EXCEPT ![<<"instance", g>>] = "none"]
          /\ host' = [host EXCEPT ![g] = "there"] /\ arriving' = arriving \ {g}
     ELSE /\ placed' = [placed EXCEPT ![<<"instance", g>>] = placed[<<"migration", g>>],
                                      ![<<"migration", g>>] = "none"]
          /\ host' = [host EXCEPT ![g] = "here"] /\ UNCHANGED arriving
  /\ migration' = [migration EXCEPT ![g] = "none"]
  /\ UNCHANGED <<config, pinned, inventory, up, moves>>

-----------------------------------------------------------------------------
(***************************************************************************)
(* nova-compute.                                                           *)
(***************************************************************************)

\* Mutant: the old option is not looked at.
CheckNewSets == pinSet # {} \/ dedicated \intersect sharedSet = {}

\* _check_cpu_set_configuration: with any other sets the service does not start.
CheckCpuSet == IF pinSet = {} THEN dedicated \intersect sharedSet = {} ELSE dedicated = {}

\* It is configured anew, and a processor may be offline.  Sets that are refused
\* keep it down, as the former ones do, until it is given others.
Restart ==
  /\ Move /\ up' = FALSE
  /\ online' \in {Core} \union {Core \ {c} : c \in Core}
  /\ dedicated' \in SUBSET Core /\ pinSet' \in {{}, pinSet} /\ sharedSet' \in SUBSET Core
  /\ CheckCpuSet'
  /\ UNCHANGED <<pinned, host, migration, placed, inventory, arriving>>

PcpuAvailable == dedicated

VcpuAvailable ==
  IF pinSet # {} THEN pinSet
  ELSE IF sharedSet # {} THEN sharedSet
  ELSE IF dedicated # {} THEN {}
  ELSE online

Valid == PcpuAvailable \union VcpuAvailable \subseteq online

\* Processors that the compute node's topology has pinned.
PinnedHere == \E g \in Guest : pinned[g] /\ (host[g] = "here" \/ migration[g] # "none")

ReshapeNeeded == dedicated # {} /\ inventory.PCPU = 0 /\ PinnedHere

\* Mutant: guests on their way out are left aside.
ReshapeInstances == {<<"instance", g>> : g \in {h \in Guest : host[h] = "here" /\ pinned[h]}}

\* The allocations of pinned guests here, and of those on their way out.
NeedingReshape ==
  {<<"instance", g>> : g \in {h \in Guest : host[h] = "here" /\ pinned[h]}}
  \union {<<"migration", g>> : g \in {h \in Guest : migration[h] = "out" /\ pinned[h]}}

\* Mutant: what is not an allocation here becomes one.
SwapAll(x) == IF x \in NeedingReshape THEN "PCPU" ELSE placed[x]

Swap(x) == IF x \in NeedingReshape /\ placed[x] = "VCPU" THEN "PCPU" ELSE placed[x]

\* One call to Placement, which refuses what does not fit.
UpdateProviderTree ==
  /\ Valid
  /\ LET new == [VCPU |-> Cardinality(VcpuAvailable), PCPU |-> Cardinality(PcpuAvailable)]
         moved == IF ReshapeNeeded THEN [x \in Consumer |-> Swap(x)] ELSE placed
     IN  /\ Fits(moved, new)
         /\ inventory' = new /\ placed' = moved
  /\ arriving' = IF ReshapeNeeded
                 THEN arriving \union {g \in Guest : migration[g] = "in" /\ host[g] = "there"} ELSE arriving
  /\ up' = TRUE
  /\ UNCHANGED <<config, pinned, host, migration, moves>>

Next ==
  \/ Restart \/ UpdateProviderTree
  \/ \E g \in Guest : StartsIn(g) \/ StartsOut(g) \/ Lands(g) \/ Confirms(g) \/ Reverts(g)

Spec == Init /\ [][Next]_vars

-----------------------------------------------------------------------------
TypeOK ==
  /\ {dedicated, sharedSet, pinSet, online} \subseteq SUBSET Core /\ pinned \in [Guest -> BOOLEAN]
  /\ host \in [Guest -> {"here", "there"}] /\ migration \in [Guest -> {"in", "out", "none"}]
  /\ placed \in [Consumer -> Class \union {"none"}] /\ inventory \in [Class -> Nat]
  /\ arriving \subseteq Guest /\ up \in BOOLEAN

\* Once the host has dedicated processors, pinned guests are counted against
\* these and no others are, whatever moves in the meantime; but for guests
\* that were arriving, which the reshape leaves out and later starts do not
\* look at (driver_22.04.py:9204-9273).
PinnedTakePcpu ==
  \A x \in Consumer :
    /\ placed[x] = "PCPU" => pinned[x[2]]
    /\ placed[x] = "VCPU" /\ pinned[x[2]] /\ inventory.PCPU > 0 => x[2] \in arriving

\* What a guest takes of the host is under exactly one name, its own or, while it
\* is on its way out, its migration's (driver_22.04.py:9220-9259).
OneName ==
  \A g \in Guest :
    /\ placed[<<"migration", g>>] # "none" <=> migration[g] = "out"
    /\ placed[<<"instance", g>>] # "none" <=>
         migration[g] = "in" \/ (host[g] = "here" /\ migration[g] = "none")

\* No processor is counted twice: what the host offers in both classes is no
\* more than the processors it has, whatever sets it was given and had before
\* (driver_22.04.py:1141-1185, 7532-7590).
CountedOnce ==
  /\ inventory.PCPU + inventory.VCPU <= Cardinality(Core)
  /\ up => PcpuAvailable \intersect VcpuAvailable = {}
=============================================================================
