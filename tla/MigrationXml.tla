--------------------------- MODULE MigrationXml ---------------------------
(***************************************************************************)
(* The definition of a guest as live migrations rewrite it: everything     *)
(* that names the host it leaves must name the one it goes to, and what    *)
(* the kernels of Focal (cgroups v1) and Jammy (v2) hosts want differs.    *)
(* Between migrations the definition is made anew by a hard reboot.        *)
(* perf events, which no host enables here, and vPMEM are left out.        *)
(***************************************************************************)
EXTENDS Naturals, FiniteSets

CONSTANTS
  Host,
  Focal,      \* hosts that are not yet Jammy
  FileBacked, \* hosts that keep the memory of guests in files
  Volume,     \* by serial number
  Mac,
  MaxPorts,   \* bound: serial ports of a flavor
  MaxVcpus,
  MaxSteps    \* bound: migrations, reboots, changes of devices

MigrationXmlAssumption ==
  Focal \subseteq Host /\ FileBacked \subseteq Host /\ MaxPorts \in Nat /\ MaxVcpus \in Nat \ {0} /\ MaxSteps \in Nat

VARIABLES
  host,
  xml,     \* what the definition says; a value names the host it is for
  flavor,  \* the guest's flavor: vCPUs, shares or none, ports, pinning
  tainted, \* the running guest has used pku
  steps

vars == <<host, xml, flavor, tainted, steps>>

NoShares == 0
FlavorShares == 7
Pinned(f) == IF f.pinned THEN 1 .. f.vcpus ELSE {}

Flavor == [vcpus : 1 .. MaxVcpus, shares : {NoShares, FlavorShares}, ports : 0 .. MaxPorts,
           pinned : BOOLEAN, broadwell : BOOLEAN, memory : {"plain", "hugepages", "locked"}]

\* _update_guest_cputune of the Focal and of the Jammy driver.
Shares(h, f) ==
  IF f.shares # NoShares THEN f.shares ELSE IF h \in Focal THEN 1024 * f.vcpus ELSE NoShares

\* Children of the memoryBacking element: those of file-backed memory, and
\* what the flavor asks for.
Tags == {"access", "source", "allocation", "discard"}
FileTags(h) == IF h \in FileBacked THEN Tags ELSE {}
Backing(h, f) == FileTags(h) \union ({f.memory} \ {"plain"})

\* A host with file-backed memory refuses to define a guest with huge pages.
MemoryPagesSupported(h, f) == f.memory = "hugepages" => h \notin FileBacked

Fresh(h, f, volumes, macs) ==
  [shares |-> Shares(h, f), pku |-> FALSE, graphics |-> h, serial |-> [p \in 1 .. f.ports |-> h],
   volumes |-> [v \in volumes |-> h], vifs |-> [m \in macs |-> h],
   pins |-> [c \in Pinned(f) |-> h], emulator |-> h, memory |-> h, sched |-> h,
   backing |-> Backing(h, f)]

Init ==
  /\ host \in Host /\ flavor \in Flavor /\ MemoryPagesSupported(host, flavor)
  /\ \E volumes \in SUBSET Volume, macs \in SUBSET Mac : xml = Fresh(host, flavor, volumes, macs)
  /\ tainted = (host \notin Focal) /\ steps = 0

-----------------------------------------------------------------------------
\* Skylake and its successors have pku; a Broadwell guest gets it from Jammy.
UpdateCpuXml(h) == IF h \in Focal THEN xml.pku ELSE xml.pku \/ flavor.broadwell

\* Mutant: shares stay on the way to Jammy.
QuotaXmlKeeps(h) == IF h \in Focal THEN Shares(h, flavor) ELSE xml.shares

\* The length of vcpus() of libvirt, a pair, is taken for the number of vCPUs.
QuotaXml(h) ==
  IF h \in Focal
  THEN IF flavor.shares # NoShares THEN flavor.shares ELSE 1000 * 2
  ELSE IF flavor.shares = NoShares THEN NoShares ELSE xml.shares

Listen(h) == h

\* Mutant: the last port is one too far.
SerialXmlOffByOne(h) == [p \in DOMAIN xml.serial |-> IF p < flavor.ports THEN h ELSE xml.serial[p]]

\* As many ports are acquired on the destination as the flavor has.
SerialXml(h) == [p \in DOMAIN xml.serial |-> IF p <= flavor.ports THEN h ELSE xml.serial[p]]

VolumeXml(h, mapped) == [v \in DOMAIN xml.volumes |-> IF v \in mapped THEN h ELSE xml.volumes[v]]

VifXml(h) == [m \in DOMAIN xml.vifs |-> h]

\* Tags of the former host are removed before those of the new one come in.
MemoryBackingXml(h) == (xml.backing \ Tags) \union FileTags(h)

NumaPinned == flavor.pinned

\* Nothing of the NUMA placement is written without the three sets of pins.
NumaXml(h, old, new) == IF NumaPinned THEN new ELSE old

Count == steps < MaxSteps /\ steps' = steps + 1

\* get_updated_guest_xml: the block devices are those of the database, which
\* the definition follows.
LiveMigrate(h) ==
  /\ h # host /\ Count
  /\ xml' = [shares |-> QuotaXml(h), pku |-> UpdateCpuXml(h), graphics |-> Listen(h), serial |-> SerialXml(h),
             volumes |-> VolumeXml(h, DOMAIN xml.volumes), vifs |-> VifXml(h),
             pins |-> [c \in DOMAIN xml.pins |-> NumaXml(h, xml.pins[c], h)],
             emulator |-> NumaXml(h, xml.emulator, h), memory |-> NumaXml(h, xml.memory, h),
             sched |-> NumaXml(h, xml.sched, h), backing |-> MemoryBackingXml(h)]
  /\ host' = h /\ tainted' = (tainted \/ h \notin Focal)
  /\ UNCHANGED flavor

HardReboot ==
  /\ Count /\ MemoryPagesSupported(host, flavor)
  /\ xml' = Fresh(host, flavor, DOMAIN xml.volumes, DOMAIN xml.vifs)
  /\ tainted' = (host \notin Focal)
  /\ UNCHANGED <<host, flavor>>

AttachVolume(v) ==
  /\ Count /\ v \notin DOMAIN xml.volumes
  /\ xml' = [xml EXCEPT !.volumes = [w \in DOMAIN @ \union {v} |-> IF w = v THEN host ELSE @[w]]]
  /\ UNCHANGED <<host, flavor, tainted>>

Next ==
  \/ HardReboot \/ \E h \in Host : LiveMigrate(h) \/ \E v \in Volume : AttachVolume(v)

Spec == Init /\ [][Next]_vars

-----------------------------------------------------------------------------
TypeOK ==
  /\ host \in Host /\ flavor \in Flavor /\ tainted \in BOOLEAN /\ steps \in 0 .. MaxSteps
  /\ xml.backing \subseteq Tags \union {"hugepages", "locked"}
  /\ xml.shares \in Nat /\ xml.pku \in BOOLEAN /\ {xml.graphics, xml.emulator, xml.memory, xml.sched} \subseteq Host
  /\ DOMAIN xml.serial = 1 .. flavor.ports /\ DOMAIN xml.volumes \subseteq Volume /\ DOMAIN xml.vifs \subseteq Mac

Names(f) == {f[x] : x \in DOMAIN f}

\* After any sequence of migrations the definition names no host that the
\* guest has left: listen addresses, serial ports, volumes, interfaces and, if
\* it is pinned, processors and memory; its memory is in files just on hosts
\* that want it so, and keeps huge or locked pages
\* (migration.py:161-315, 352-463).
NoFormerHost ==
  /\ {xml.graphics} \union Names(xml.serial) \union Names(xml.volumes) \union Names(xml.vifs)
       \union Names(xml.pins) = {host}
  /\ flavor.pinned => {xml.emulator, xml.memory, xml.sched} = {host}
  /\ xml.backing = Backing(host, flavor)

\* On a Jammy host a guest has the shares its flavor has and no others: those
\* of Focal are beyond the range of cgroups v2 (migration.py:113-125).
SharesOfFlavor == host \notin Focal => xml.shares = flavor.shares
=============================================================================
