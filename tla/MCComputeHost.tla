---------------------------- MODULE MCComputeHost ----------------------------
(***************************************************************************)
(* Parts of the driver on a compute host, each small enough to be checked  *)
(* with a few guests, hosts and devices.  They share no state, so one run  *)
(* checks all: `part' is chosen at the start.  A part's variables carry    *)
(* its name where another part has one of the same name; what a property   *)
(* excepts is said with its conjuncts, in the parts.                       *)
(***************************************************************************)
EXTENDS Naturals, FiniteSets

Pair == {"h1", "h2"}
Guests == {"g1", "g2"}

NumaConfig(d, s, p) == [dedicated |-> d, shared |-> s, pinSet |-> p]
NumaConfigs ==
  {NumaConfig({}, {}, {}), NumaConfig({2, 3, 4}, {1}, {}), NumaConfig({2, 3, 4}, {}, {}),
   NumaConfig({2, 3, 4}, {1, 2}, {}), NumaConfig({}, {1, 2}, {}), NumaConfig({}, {4}, {1, 2, 3})}
NumaFlavor(p, e, pinned, rt) == [policy |-> p, emulator |-> e, pinned |-> pinned, rt |-> rt]
NumaFlavors ==
  {NumaFlavor("none", "none", {}, {}), NumaFlavor("shared", "none", {}, {}),
   NumaFlavor("mixed", "none", {"v1"}, {"v1"}), NumaFlavor("mixed", "share", {"v1"}, {}),
   NumaFlavor("dedicated", "isolate", {"v1", "v2"}, {"v1"})}

ModelHas == [m \in {"old", "new"} |-> IF m = "old" THEN {"a"} ELSE {"a", "b"}]
CpuModelLists == {<<>>, <<"old">>, <<"new">>, <<"old", "new">>}
CpuHostKinds == {{"a"}, {"a", "b"}}

VARIABLES
  part,
  foreign, parent, there, mdev_xml, held, mdev_pc, stripped, mdev_placed,
  mdev_inventory, compute, reboots,
  enabled, addresses, classOf, next, pgpuType, mdevClass, classes, supported,
  xml_host, xml_xml, xml_flavor, tainted, steps,
  images, shared, checks_disks, volumeBacked, tunnelled, files, remote, dirs,
  marks, lent, others, checks_host, wrote, reported, checks_pc, checks_data,
  overfull, elapsed, downtime, migrations,
  dedicated, sharedSet, pinSet, tree_online, pinned, tree_host, migration,
  tree_placed, tree_inventory, tree_arriving, up, moves,
  config, numa_online, numa_flavor, numa_host, claim, definition, roamed,
  numa_arriving,
  native, mode, models, added, removed, traits, required, models_host, cpu,
  tpm_disks, old, tpm_config, tpm_data, base, resize, secret, phase, knows,
  saved, clock,
  guest, shutdown, sec, countdown, unasked

Mdev == INSTANCE MediatedDevices WITH
  Gpu <- {"gpu0", "gpu1"}, Guest <- {"a", "b", "c"},
  Uuid <- {"m0", "m1", "m2"}, Capacity <- 2, MaxReboots <- 1,
  xml <- mdev_xml, pc <- mdev_pc, placed <- mdev_placed,
  inventory <- mdev_inventory
Types == INSTANCE VgpuTypes WITH
  Gpu <- {"gpu0", "gpu1"}, MdevType <- {"t1", "t2"},
  Class <- {"VGPU", "CUSTOM"}
Xml == INSTANCE MigrationXml WITH
  Host <- {"f1", "f2", "j1", "j2"}, Focal <- {"f1", "f2"},
  FileBacked <- {"f1", "j2"}, Volume <- {"v"}, Mac <- {"m"}, MaxPorts <- 2,
  MaxVcpus <- 2, MaxSteps <- 4, host <- xml_host, xml <- xml_xml,
  flavor <- xml_flavor
Checks == INSTANCE MigrationChecks WITH
  Host <- Pair, MaxWrites <- 1, MaxMigrations <- 2, Room <- 5,
  MaxDowntime <- 8, Steps <- 2, Delay <- 1, disks <- checks_disks,
  host <- checks_host, pc <- checks_pc, data <- checks_data
Tree == INSTANCE ProviderTree WITH
  Guest <- Guests, Core <- {"c1", "c2"}, MaxMoves <- 4, online <- tree_online,
  host <- tree_host, placed <- tree_placed, inventory <- tree_inventory,
  arriving <- tree_arriving
Numa == INSTANCE GuestNuma WITH
  Host <- Pair, Guest <- Guests, Vcpu <- {"v1", "v2"},
  Cells <- {{1, 2, 3, 4}}, Configs <- NumaConfigs, Unsteady <- {1},
  Flavors <- NumaFlavors, online <- numa_online, flavor <- numa_flavor,
  host <- numa_host, arriving <- numa_arriving
Models == INSTANCE GuestCpu WITH
  Host <- Pair, Feature <- {"a", "b"}, Model <- {"old", "new"},
  Has <- ModelHas, ModelLists <- CpuModelLists, HostKinds <- CpuHostKinds,
  host <- models_host
Tpm == INSTANCE TpmResize WITH
  MaxClock <- 6, disks <- tpm_disks, data <- tpm_data
Halt == INSTANCE CleanShutdown WITH
  Timeout <- 12, RetryInterval <- 4

ASSUME MdevAssumption == Mdev!MediatedDevicesAssumption
ASSUME XmlAssumption == Xml!MigrationXmlAssumption
ASSUME ChecksAssumption == Checks!MigrationChecksAssumption
ASSUME TreeAssumption == Tree!ProviderTreeAssumption
ASSUME NumaAssumption == Numa!GuestNumaAssumption
ASSUME ModelsAssumption == Models!GuestCpuAssumption
ASSUME TpmAssumption == Tpm!TpmResizeAssumption
ASSUME HaltAssumption == Halt!CleanShutdownAssumption

-----------------------------------------------------------------------------
MdevVars ==
  <<foreign, parent, there, mdev_xml, held, mdev_pc, stripped, mdev_placed,
  mdev_inventory, compute, reboots>>
TypesVars ==
  <<enabled, addresses, classOf, next, pgpuType, mdevClass, classes, supported>>
XmlVars ==
  <<xml_host, xml_xml, xml_flavor, tainted, steps>>
ChecksVars ==
  <<images, shared, checks_disks, volumeBacked, tunnelled, files, remote,
  dirs, marks, lent, others, checks_host, wrote, reported, checks_pc,
  checks_data, overfull, elapsed, downtime, migrations>>
TreeVars ==
  <<dedicated, sharedSet, pinSet, tree_online, pinned, tree_host, migration,
  tree_placed, tree_inventory, tree_arriving, up, moves>>
NumaVars ==
  <<config, numa_online, numa_flavor, numa_host, claim, definition, roamed,
  numa_arriving>>
ModelsVars ==
  <<native, mode, models, added, removed, traits, required, models_host, cpu>>
TpmVars ==
  <<tpm_disks, old, tpm_config, tpm_data, base, resize, secret, phase, knows,
  saved, clock>>
HaltVars ==
  <<guest, shutdown, sec, countdown, unasked>>

NoMdev ==
  /\ foreign = 0 /\ parent = 0 /\ there = 0 /\ mdev_xml = 0 /\ held = 0
  /\ mdev_pc = 0 /\ stripped = 0 /\ mdev_placed = 0 /\ mdev_inventory = 0
  /\ compute = 0 /\ reboots = 0
NoTypes ==
  /\ enabled = 0 /\ addresses = 0 /\ classOf = 0 /\ next = 0 /\ pgpuType = 0
  /\ mdevClass = 0 /\ classes = 0 /\ supported = 0
NoXml ==
  /\ xml_host = 0 /\ xml_xml = 0 /\ xml_flavor = 0 /\ tainted = 0 /\ steps = 0
NoChecks ==
  /\ images = 0 /\ shared = 0 /\ checks_disks = 0 /\ volumeBacked = 0
  /\ tunnelled = 0 /\ files = 0 /\ remote = 0 /\ dirs = 0 /\ marks = 0
  /\ lent = 0 /\ others = 0 /\ checks_host = 0 /\ wrote = 0 /\ reported = 0
  /\ checks_pc = 0 /\ checks_data = 0 /\ overfull = 0 /\ elapsed = 0
  /\ downtime = 0 /\ migrations = 0
NoTree ==
  /\ dedicated = 0 /\ sharedSet = 0 /\ pinSet = 0 /\ tree_online = 0
  /\ pinned = 0 /\ tree_host = 0 /\ migration = 0 /\ tree_placed = 0
  /\ tree_inventory = 0 /\ tree_arriving = 0 /\ up = 0 /\ moves = 0
NoNuma ==
  /\ config = 0 /\ numa_online = 0 /\ numa_flavor = 0 /\ numa_host = 0
  /\ claim = 0 /\ definition = 0 /\ roamed = 0 /\ numa_arriving = 0
NoModels ==
  /\ native = 0 /\ mode = 0 /\ models = 0 /\ added = 0 /\ removed = 0
  /\ traits = 0 /\ required = 0 /\ models_host = 0 /\ cpu = 0
NoTpm ==
  /\ tpm_disks = 0 /\ old = 0 /\ tpm_config = 0 /\ tpm_data = 0 /\ base = 0
  /\ resize = 0 /\ secret = 0 /\ phase = 0 /\ knows = 0 /\ saved = 0
  /\ clock = 0
NoHalt ==
  /\ guest = 0 /\ shutdown = 0 /\ sec = 0 /\ countdown = 0 /\ unasked = 0

\* The parts are independent: only one of them runs, the others are not there.
AbsentBut(p) ==
  /\ IF p = "mdev" THEN TRUE ELSE NoMdev
  /\ IF p = "types" THEN TRUE ELSE NoTypes
  /\ IF p = "xml" THEN TRUE ELSE NoXml
  /\ IF p = "checks" THEN TRUE ELSE NoChecks
  /\ IF p = "tree" THEN TRUE ELSE NoTree
  /\ IF p = "numa" THEN TRUE ELSE NoNuma
  /\ IF p = "models" THEN TRUE ELSE NoModels
  /\ IF p = "tpm" THEN TRUE ELSE NoTpm
  /\ IF p = "halt" THEN TRUE ELSE NoHalt
RestBut(p) ==
  /\ UNCHANGED part
  /\ IF p = "mdev" THEN TRUE ELSE UNCHANGED MdevVars
  /\ IF p = "types" THEN TRUE ELSE UNCHANGED TypesVars
  /\ IF p = "xml" THEN TRUE ELSE UNCHANGED XmlVars
  /\ IF p = "checks" THEN TRUE ELSE UNCHANGED ChecksVars
  /\ IF p = "tree" THEN TRUE ELSE UNCHANGED TreeVars
  /\ IF p = "numa" THEN TRUE ELSE UNCHANGED NumaVars
  /\ IF p = "models" THEN TRUE ELSE UNCHANGED ModelsVars
  /\ IF p = "tpm" THEN TRUE ELSE UNCHANGED TpmVars
  /\ IF p = "halt" THEN TRUE ELSE UNCHANGED HaltVars

Init ==
  \/ part = "mdev" /\ Mdev!Init /\ AbsentBut("mdev")
  \/ part = "types" /\ Types!Init /\ AbsentBut("types")
  \/ part = "xml" /\ Xml!Init /\ AbsentBut("xml")
  \/ part = "checks" /\ Checks!Init /\ AbsentBut("checks")
  \/ part = "tree" /\ Tree!Init /\ AbsentBut("tree")
  \/ part = "numa" /\ Numa!Init /\ AbsentBut("numa")
  \/ part = "models" /\ Models!Init /\ AbsentBut("models")
  \/ part = "tpm" /\ Tpm!Init /\ AbsentBut("tpm")
  \/ part = "halt" /\ Halt!Init /\ AbsentBut("halt")

Next ==
  \/ part = "mdev" /\ Mdev!Next /\ RestBut("mdev")
  \/ part = "types" /\ Types!Next /\ RestBut("types")
  \/ part = "xml" /\ Xml!Next /\ RestBut("xml")
  \/ part = "checks" /\ Checks!Next /\ RestBut("checks")
  \/ part = "tree" /\ Tree!Next /\ RestBut("tree")
  \/ part = "numa" /\ Numa!Next /\ RestBut("numa")
  \/ part = "models" /\ Models!Next /\ RestBut("models")
  \/ part = "tpm" /\ Tpm!Next /\ RestBut("tpm")
  \/ part = "halt" /\ Halt!Next /\ RestBut("halt")

vars ==
  <<part, MdevVars, TypesVars, XmlVars, ChecksVars, TreeVars, NumaVars,
  ModelsVars, TpmVars, HaltVars>>

Spec == Init /\ [][Next]_vars

-----------------------------------------------------------------------------
TypeOK ==
  /\ part = "mdev" => Mdev!TypeOK
  /\ part = "types" => Types!TypeOK
  /\ part = "xml" => Xml!TypeOK
  /\ part = "checks" => Checks!TypeOK
  /\ part = "tree" => Tree!TypeOK
  /\ part = "numa" => Numa!TypeOK
  /\ part = "models" => Models!TypeOK
  /\ part = "tpm" => Tpm!TypeOK
  /\ part = "halt" => Halt!TypeOK

\* A guest that Placement gave a virtual GPU finds a device for it, on the GPU
\* and of the class its allocation names, before and after reboots of the host
\* (driver_22.04.py:1066-1093, 7658-7872, 8018-8302).
DevicesKept ==
  /\ part = "mdev" =>
       /\ Mdev!NotStarved
       /\ Mdev!DevicesComeBack
       /\ Mdev!AllocationMatches
  /\ part = "types" => Types!ClassesKnown

\* After any migrations a definition has nothing of a former host, and asks for
\* nothing that its host lacks or its flavor does not promise
\* (migration.py:42-463, driver_22.04.py:5292-5309, 9692-9771).
DefinitionsFit ==
  /\ part = "xml" => Xml!NoFormerHost /\ Xml!SharesOfFlavor
  /\ part = "models" => Models!RunsWhatHostHas /\ Models!PromiseKept

\* What a guest wrote comes along: its disks, which fit where they go, and its
\* TPM with the secret, through migrations, resizes, reverts and failures, but
\* for the secret when a resize with local disks is reverted
\* (driver_22.04.py:1784-1804, 9275-9652, 10872-11096, 11331-11520;
\* migration.py:540-592).
DataArrives ==
  /\ part = "checks" =>
       /\ Checks!NoDiskLost
       /\ Checks!NothingLeft
       /\ Checks!NeverFull
       /\ Checks!DowntimeBounded
  /\ part = "tpm" => Tpm!TpmKept /\ Tpm!SecretFollows

\* A processor has one use: dedicated to one guest, shared or the emulators',
\* in the host's inventory as in the guests' definitions
\* (driver_22.04.py:5753-5958, 7532-7590, 9168-9273, 9494-9533).
ProcessorsApart ==
  /\ part = "tree" => Tree!PinnedTakePcpu /\ Tree!OneName /\ Tree!CountedOnce
  /\ part = "numa" =>
       /\ Numa!DedicatedAlone
       /\ Numa!PinsOfHost
       /\ Numa!RealtimeAlone

\* A guest is asked to shut down in time and often enough
\* (driver_22.04.py:3980-4056).
AskedInTime == part = "halt" => Halt!AskedInTime
=============================================================================
