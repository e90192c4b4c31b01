---------------------------- MODULE SharedVolume ----------------------------
(***************************************************************************)
(* A volume that several guests may be attached to.  A host connects to it *)
(* once for all its guests, and drops the connection with the last of      *)
(* them: which one that is, every operation finds out from Cinder and from *)
(* the list of guests of a host.  Guests attach, detach and migrate at the *)
(* same time, and the volume is extended.  Cinder and the manager are      *)
(* external.                                                               *)
(***************************************************************************)
EXTENDS Naturals, FiniteSets

CONSTANTS Guest, Host, MaxSize

SharedVolumeAssumption ==
  /\ IsFiniteSet(Guest) /\ "none" \notin Guest
  /\ MaxSize \in Nat /\ MaxSize >= 2 \* the size it is made with

VARIABLES
  luks,      \* the volume is encrypted; its header takes 1
  home,      \* instance.host of a guest
  running,   \* a guest is
  attached,  \* Cinder: the guests with an attachment
  connected, \* hosts that are
  uses,      \* guests whose domain on a host has the device
  op,        \* operation under way for a guest
  size,      \* of the volume
  device,    \* size of it as a host knows it
  seen,      \* size of the disk in a guest
  extending, \* guest that is told of an extension
  misjudged, \* hosts whose connection was kept or dropped after the guests of
             \* another host, until they connect again
  doubt      \* "overlap": an operation began during another, or found a
             \* connection from before an extension that failed

vars == <<luks, home, running, attached, connected, uses, op, size, device, seen, extending, misjudged, doubt>>
sizes == <<size, device, seen, extending>>

NoOp == [pc |-> "idle", at |-> CHOOSE h \in Host : TRUE, then |-> "none"]
NoGuest == "none"
Offset == IF luks THEN 1 ELSE 0
Idle(g) == op[g].pc = "idle"
Alone(g) == extending = NoGuest /\ \A k \in Guest : Idle(k)
To(g, pc, at, then) == op' = [op EXCEPT ![g] = [pc |-> pc, at |-> at, then |-> then]]
Overlap(b) == doubt' = IF b THEN "overlap" ELSE doubt
Begin(g, pc, at, then) == Idle(g) /\ To(g, pc, at, then) /\ Overlap(~Alone(g))

Init ==
  /\ luks \in BOOLEAN /\ home \in [Guest -> Host] /\ running = [g \in Guest |-> TRUE]
  /\ attached = {} /\ connected = {} /\ uses = [h \in Host |-> {}] /\ op = [g \in Guest |-> NoOp]
  /\ size = 2 /\ device = [h \in Host |-> 0] /\ seen = [g \in Guest |-> 0]
  /\ extending = NoGuest /\ misjudged = {} /\ doubt = "no"

-----------------------------------------------------------------------------
(***************************************************************************)
(* Attach, detach and migrate.                                             *)
(***************************************************************************)
\* Cinder has an encrypted volume attached once.
Reserve(g) ==
  /\ g \notin attached /\ (luks => attached = {}) /\ Begin(g, "connect", home[g], "none")
  /\ attached' = attached \union {g}
  /\ UNCHANGED <<luks, home, running, connected, uses, sizes, misjudged>>

Outdated(h) == h \in connected /\ device[h] # size

\* A host that is connected stays with the size it knows.
Connected(h) ==
  /\ connected' = connected \union {h}
  /\ device' = IF h \in connected THEN device ELSE [device EXCEPT ![h] = size]
  /\ misjudged' = misjudged \ {h}

\* _connect_volume, and the device into the guest.
Connect(g) ==
  /\ op[g].pc = "connect" /\ Connected(home[g]) /\ To(g, "idle", home[g], "none")
  /\ uses' = [uses EXCEPT ![home[g]] = @ \union {g}]
  /\ seen' = [seen EXCEPT ![g] = device'[home[g]] - Offset]
  /\ Overlap(Outdated(home[g]))
  /\ UNCHANGED <<luks, home, running, attached, size, extending>>

DetachDevice(g) ==
  /\ g \in attached /\ Begin(g, "count", home[g], "remove")
  /\ uses' = [uses EXCEPT ![home[g]] = @ \ {g}]
  /\ UNCHANGED <<luks, home, running, attached, connected, sizes, misjudged>>

\* pre_live_migration
Prepare(g, to) ==
  /\ g \in attached /\ running[g] /\ to # home[g] /\ Idle(g)
  /\ To(g, "migrate", to, "none") /\ Connected(to)
  /\ Overlap(~Alone(g) \/ Outdated(to))
  /\ UNCHANGED <<luks, home, running, attached, uses, size, seen, extending>>

\* post_live_migration: the instance's host is still the source.
Succeed(g) ==
  /\ op[g].pc = "migrate" /\ To(g, "count", home[g], "land")
  /\ uses' = [uses EXCEPT ![home[g]] = @ \ {g}, ![op[g].at] = @ \union {g}]
  /\ UNCHANGED <<luks, home, running, attached, connected, sizes, doubt, misjudged>>

\* rollback_live_migration_at_destination: the instance's host is the source.
Fail(g) ==
  /\ op[g].pc = "migrate" /\ To(g, "count", op[g].at, "none")
  /\ UNCHANGED <<luks, home, running, attached, connected, uses, sizes, doubt, misjudged>>

OthersOn(g, h) == {k \in attached \ {g} : home[k] = h}

\* Mutant: an attachment of its own is not expected.
CountAny(g) == TRUE

\* _should_disconnect_target
LastOne(g) == Cardinality({k \in attached : home[k] = home[g]}) <= 1

Count(g) ==
  /\ op[g].pc = "count"
  /\ To(g, IF LastOne(g) THEN "disconnect" ELSE "end", op[g].at, op[g].then)
  /\ misjudged' = IF (OthersOn(g, home[g]) = {}) # (OthersOn(g, op[g].at) = {}) THEN misjudged \union {op[g].at} ELSE misjudged
  /\ UNCHANGED <<luks, home, running, attached, connected, uses, sizes, doubt>>

\* The rest of _disconnect_volume.
Disconnect(g) ==
  /\ op[g].pc = "disconnect" /\ To(g, "end", op[g].at, op[g].then)
  /\ connected' = connected \ {op[g].at}
  /\ UNCHANGED <<luks, home, running, attached, uses, sizes, doubt, misjudged>>

End(g) ==
  /\ op[g].pc = "end" /\ op' = [op EXCEPT ![g] = NoOp]
  /\ attached' = IF op[g].then = "remove" THEN attached \ {g} ELSE attached
  /\ home' = IF op[g].then = "land" THEN [home EXCEPT ![g] = CHOOSE h \in Host : g \in uses[h]] ELSE home
  /\ UNCHANGED <<luks, running, connected, uses, sizes, doubt, misjudged>>

-----------------------------------------------------------------------------
(***************************************************************************)
(* Extension, and power.                                                   *)
(***************************************************************************)

\* Cinder extends a volume with one attachment, and tells its guest.
Extend(g) ==
  /\ attached = {g} /\ extending = NoGuest /\ size < MaxSize
  /\ size' = size + 1 /\ extending' = g
  /\ Overlap(~Alone(g))
  /\ UNCHANGED <<luks, home, running, attached, connected, uses, op, device, seen, misjudged>>

\* Mutant: the header is not taken off.
WholeDevice(new) == new

\* _resize_attached_encrypted_volume
DecryptedSize(new) == new - Offset

\* extend_volume; the connector may fail, or libvirt.
ExtendVolume(g, fails) ==
  /\ extending = g /\ extending' = NoGuest
  /\ device' = IF fails = "connector" THEN device ELSE [device EXCEPT ![home[g]] = size]
  /\ seen' = IF fails = "no" /\ running[g] /\ g \in uses[home[g]] THEN [seen EXCEPT ![g] = DecryptedSize(size)] ELSE seen
  /\ UNCHANGED <<luks, home, running, attached, connected, uses, op, size, doubt, misjudged>>

PowerOff(g) ==
  /\ running[g] /\ op[g].pc # "migrate" /\ running' = [running EXCEPT ![g] = FALSE]
  /\ UNCHANGED <<luks, home, attached, connected, uses, op, sizes, doubt, misjudged>>

PowerOn(g) ==
  /\ ~running[g] /\ Idle(g) /\ running' = [running EXCEPT ![g] = TRUE]
  /\ seen' = IF g \in uses[home[g]] THEN [seen EXCEPT ![g] = device[home[g]] - Offset] ELSE seen
  /\ UNCHANGED <<luks, home, attached, connected, uses, op, size, device, extending, doubt, misjudged>>

Next ==
  \E g \in Guest :
    \/ Reserve(g) \/ Connect(g) \/ DetachDevice(g) \/ \E to \in Host : Prepare(g, to)
    \/ Succeed(g) \/ Fail(g) \/ Count(g) \/ Disconnect(g) \/ End(g)
    \/ Extend(g) \/ \E fails \in {"no", "connector", "libvirt"} : ExtendVolume(g, fails)
    \/ PowerOff(g) \/ PowerOn(g)

Spec == Init /\ [][Next]_vars

-----------------------------------------------------------------------------
TypeOK ==
  /\ home \in [Guest -> Host] /\ attached \subseteq Guest /\ connected \subseteq Host
  /\ uses \in [Host -> SUBSET Guest] /\ extending \in Guest \union {NoGuest}
  /\ size \in 0 .. MaxSize /\ device \in [Host -> 0 .. MaxSize] /\ seen \in [Guest -> 0 .. MaxSize]
  /\ misjudged \subseteq Host /\ doubt \in {"no", "overlap"}
  /\ op \in [Guest -> [pc : {"idle", "connect", "migrate", "count", "disconnect", "end"}, at : Host, then : {"none", "remove", "land"}]]

Cut == \E h \in Host : uses[h] # {} /\ h \notin connected

\* As long as operations on a volume follow each other, no guest loses its
\* volume, and a host without guests of the volume has no connection
\* (driver_22.04.py:1914-1981).  Excepted is the destination of a migration that
\* failed: whether it disconnects is decided by the guests of the source, and
\* what is wrong then stays until a guest connects it again.
ConnectedWhileUsed ==
  doubt = "no" =>
    /\ \A h \in Host \ misjudged : uses[h] # {} => h \in connected
    /\ (\A g \in Guest : Idle(g)) => \A h \in connected \ misjudged : uses[h] # {}

\* What the comment of _should_disconnect_target asks for: as long as operations
\* follow each other, none of them takes the volume from another server of a
\* node (driver_22.04.py:1916-1924).
OthersKeepConnection == doubt = "no" => ~Cut

\* The disk in a guest is never larger than the host's device leaves for it,
\* through extensions that fail half way, migrations and restarts, as long as
\* operations follow each other and no guest comes to a host whose connection is
\* from before an extension that failed there (driver_22.04.py:2711-2825).
FitsDevice ==
  doubt = "no" => \A h \in Host : \A g \in uses[h] : running[g] => seen[g] <= device[h] - Offset
=============================================================================
