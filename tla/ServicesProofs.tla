--------------------------- MODULE ServicesProofs ---------------------------
(***************************************************************************)
(* Proofs about the parts of the services, for any values of their         *)
(* constants.  The parts share no state: a step of the composition is a    *)
(* step of the part that was chosen, and each part has an inductive        *)
(* invariant of its own.                                                   *)
(***************************************************************************)
EXTENDS MCServices, FiniteSetTheorems, TLAPS

-----------------------------------------------------------------------------
(***************************************************************************)
(* The composition.                                                        *)
(***************************************************************************)

\* The part that was chosen starts as it does alone.
LEMMA PartStarts ==
  Init =>
    /\ part = "object" => Object!Init
    /\ part = "lightos" => Lightos!Init
    /\ part = "shared" => Shared!Init
    /\ part = "snapshots" => Snapshots!Init
    /\ part = "memory" => Memory!Init
    /\ part = "network" => Network!Init
    /\ part = "schedule" => Schedule!Init
    /\ part = "status" => Status!Init
BY DEF Init

\* A step leaves the choice alone and is one of the part, or changes nothing of
\* it.
LEMMA PartSteps ==
  [Next]_vars =>
    /\ part' = part
    /\ part = "object" => [Object!Next]_(Object!vars)
    /\ part = "lightos" => [Lightos!Next]_(Lightos!vars)
    /\ part = "shared" => [Shared!Next]_(Shared!vars)
    /\ part = "snapshots" => [Snapshots!Next]_(Snapshots!vars)
    /\ part = "memory" => [Memory!Next]_(Memory!vars)
    /\ part = "network" => [Network!Next]_(Network!vars)
    /\ part = "schedule" => [Schedule!Next]_(Schedule!vars)
    /\ part = "status" => [Status!Next]_(Status!vars)
<1>1. CASE UNCHANGED vars
  BY <1>1 DEF vars, ObjectVars, LightosVars, SharedVars, SnapshotsVars, MemoryVars,
    NetworkVars, ScheduleVars, StatusVars, Object!vars, Lightos!vars, Lightos!cluster,
    Shared!vars, Shared!sizes, Snapshots!vars, Snapshots!cinder, Memory!vars, Network!vars,
    Schedule!vars, Schedule!metrics, Status!vars
<1>2. CASE Next
  BY <1>2 DEF Next, RestBut
<1> QED
  BY <1>1, <1>2

-----------------------------------------------------------------------------
(***************************************************************************)
(* The status of a host.  Events of the connection alternate, and the last *)
(* one tells how it is now; the mount manager has seen all that were       *)
(* handled.  A record that the driver disabled waits for the event that    *)
(* lets it enable it again; one that is enabled while the connection is    *)
(* lost waits for the event that disables it.                              *)
(***************************************************************************)
StatusTyped ==
  /\ Status!TypeOK
  /\ linked \in BOOLEAN /\ wish \in {"enabled", "disabled"}
  /\ status_raced \in BOOLEAN /\ failed \in BOOLEAN /\ overruled \in BOOLEAN
  /\ handler # "idle" => events # <<>>

EventsAlternate ==
  /\ \A i \in 1 .. Len(events) - 1 : events[i + 1] = ~events[i]
  /\ events # <<>> => events[Len(events)] = linked
  /\ mounted = IF events = <<>> THEN linked ELSE ~events[1]

\* What the handler has read and written, and what the operator.
RecordMatches ==
  ~status_raced =>
    /\ wish = "enabled" => record \in {Status!Rec(FALSE, "none"), Status!Rec(TRUE, "AUTO")}
    /\ wish = "disabled" => record = Status!Rec(TRUE, "maintenance") /\ handler # "save"
    /\ handler = "save" => record.disabled = events[1]
    /\ wish = "enabled" /\ record.disabled =>
         /\ handler = "provider" => ~events[1]
         /\ ~failed =>
              /\ events = <<>> => ~linked
              /\ events # <<>> => events[1] = (handler # "provider")

LossMatches ==
  ~linked /\ ~overruled /\ ~record.disabled =>
    /\ events = <<>> => failed
    /\ Len(events) = 1 => handler # "provider"

StatusIInv == StatusTyped /\ EventsAlternate /\ RecordMatches /\ LossMatches

\* A queue without events has length 0.
LEMMA NoEvents == \A q \in Seq(BOOLEAN) : q = <<>> <=> Len(q) = 0
OBVIOUS

\* The queue of events: its head goes, or an event comes that differs from the
\* last.
LEMMA EventGoes ==
  ASSUME NEW q \in Seq(BOOLEAN), q # <<>>, \A i \in 1 .. Len(q) - 1 : q[i + 1] = ~q[i]
  PROVE  /\ Tail(q) \in Seq(BOOLEAN) /\ Head(q) = q[1] /\ q[1] \in BOOLEAN
         /\ \A i \in 1 .. Len(Tail(q)) - 1 : Tail(q)[i + 1] = ~Tail(q)[i]
         /\ Tail(q) # <<>> => Tail(q)[Len(Tail(q))] = q[Len(q)] /\ Tail(q)[1] = ~q[1]
         /\ Tail(q) = <<>> => q[Len(q)] = q[1] /\ Len(q) = 1
<1>1. /\ Tail(q) \in Seq(BOOLEAN) /\ Len(Tail(q)) = Len(q) - 1 /\ Len(q) \in Nat \ {0}
      /\ Head(q) = q[1] /\ q[1] \in BOOLEAN
  OBVIOUS
<1>2. \A i \in 1 .. Len(q) - 1 : Tail(q)[i] = q[i + 1]
  OBVIOUS
<1>3. \A i \in 1 .. Len(Tail(q)) - 1 : Tail(q)[i + 1] = ~Tail(q)[i]
  BY <1>1, <1>2
<1>4. Tail(q) # <<>> => Len(q) > 1
  BY <1>1
<1>5. Tail(q) = <<>> => Len(q) = 1
  <2>1. Tail(q) = <<>> => Len(Tail(q)) = 0
    BY <1>1, NoEvents
  <2> QED
    BY <1>1, <2>1
<1> QED
  BY <1>1, <1>2, <1>3, <1>4, <1>5

\* Events of a guest that alternate go on alternating when the opposite of the last one comes.
LEMMA EventComes ==
  ASSUME NEW q \in Seq(BOOLEAN), NEW e \in BOOLEAN,
         \A i \in 1 .. Len(q) - 1 : q[i + 1] = ~q[i],
         q # <<>> => q[Len(q)] = ~e
  PROVE  /\ Append(q, e) \in Seq(BOOLEAN) /\ Append(q, e) # <<>>
         /\ \A i \in 1 .. Len(Append(q, e)) - 1 : Append(q, e)[i + 1] = ~Append(q, e)[i]
         /\ Append(q, e)[Len(Append(q, e))] = e
         /\ Append(q, e)[1] = IF q = <<>> THEN e ELSE q[1]
         /\ Len(Append(q, e)) = 1 => q = <<>>
<1>1. Append(q, e) \in Seq(BOOLEAN) /\ Len(Append(q, e)) = Len(q) + 1 /\ Len(q) \in Nat
  OBVIOUS
<1>2. /\ \A i \in 1 .. Len(q) : Append(q, e)[i] = q[i]
      /\ Append(q, e)[Len(q) + 1] = e
  OBVIOUS
<1>3. q = <<>> <=> Len(q) = 0
  OBVIOUS
<1>4. \A i \in 1 .. Len(Append(q, e)) - 1 : Append(q, e)[i + 1] = ~Append(q, e)[i]
  BY <1>1, <1>2, <1>3
<1> QED
  BY <1>1, <1>2, <1>3, <1>4

\* The status of a host starts inside its invariant.
LEMMA StatusStarts == Status!Init => StatusIInv
<1> SUFFICES ASSUME Status!Init PROVE StatusIInv
  OBVIOUS
<1>1. events = <<>> /\ linked = TRUE /\ mounted = TRUE /\ handler = "idle"
  BY DEF Status!Init
<1>2. StatusTyped
  <2>1. record \in Status!Records
    BY DEF Status!Init, Status!Rec, Status!Records
  <2>2. events \in Seq(BOOLEAN)
    BY <1>1
  <2> QED
    BY <1>1, <2>1, <2>2 DEF Status!Init, Status!TypeOK, StatusTyped
<1>3. EventsAlternate
  BY <1>1 DEF EventsAlternate
<1>4. RecordMatches
  BY DEF Status!Init, Status!Rec, RecordMatches
<1>5. LossMatches
  BY <1>1 DEF LossMatches
<1> QED
  BY <1>2, <1>3, <1>4, <1>5 DEF StatusIInv

\* A handler that ends takes the event it handled off the queue.
LEMMA StatusEnds ==
  ASSUME StatusIInv, handler # "idle" \/ events # <<>>, Status!End,
         UNCHANGED <<linked, wish>>
  PROVE  /\ events' \in Seq(BOOLEAN) /\ mounted' \in BOOLEAN
         /\ EventsAlternate'
         /\ events' = <<>> => linked' = events[1] /\ Len(events) = 1
         /\ events' # <<>> => events'[1] = ~events[1]
         /\ events[1] \in BOOLEAN /\ Status!Enabled = events[1]
<1>1. events \in Seq(BOOLEAN) /\ events # <<>>
  BY DEF StatusIInv, StatusTyped, Status!TypeOK
<1>2. events' = Tail(events) /\ mounted' = Head(events)
  BY DEF Status!End, Status!Enabled
<1>3. \A i \in 1 .. Len(events) - 1 : events[i + 1] = ~events[i]
  BY DEF StatusIInv, EventsAlternate
<1> QED
  BY <1>1, <1>2, <1>3, EventGoes DEF StatusIInv, EventsAlternate, Status!Enabled

\* No step of libvirt, the handlers or the operator leaves the status invariant.
LEMMA StatusStep == StatusIInv /\ [Status!Next]_(Status!vars) => StatusIInv'
<1> SUFFICES ASSUME StatusIInv, [Status!Next]_(Status!vars) PROVE StatusIInv'
  OBVIOUS
<1> USE DEF StatusTyped, RecordMatches, LossMatches, Status!Rec, Status!TypeOK, Status!Records
<1>1. CASE UNCHANGED Status!vars
  BY <1>1 DEF StatusIInv, Status!vars, EventsAlternate
<1>2. CASE Status!Lose
  <2>1. events' = Append(events, FALSE) /\ linked /\ ~linked'
    BY <1>2 DEF Status!Lose
  <2>2. /\ EventsAlternate' /\ events' \in Seq(BOOLEAN) /\ events' # <<>>
        /\ events # <<>> => events'[1] = events[1]
        /\ events = <<>> => events'[1] = FALSE
        /\ Len(events') = 1 => events = <<>>
    <3>1. /\ events \in Seq(BOOLEAN) /\ \A i \in 1 .. Len(events) - 1 : events[i + 1] = ~events[i]
          /\ events # <<>> => events[Len(events)] = ~FALSE
      BY <2>1 DEF StatusIInv, EventsAlternate
    <3>2. /\ Append(events, FALSE) \in Seq(BOOLEAN) /\ Append(events, FALSE) # <<>>
          /\ \A i \in 1 .. Len(Append(events, FALSE)) - 1 :
               Append(events, FALSE)[i + 1] = ~Append(events, FALSE)[i]
          /\ Append(events, FALSE)[Len(Append(events, FALSE))] = FALSE
          /\ Append(events, FALSE)[1] = IF events = <<>> THEN FALSE ELSE events[1]
          /\ Len(Append(events, FALSE)) = 1 => events = <<>>
      BY <3>1, EventComes
    <3>3. UNCHANGED mounted
      BY <1>2 DEF Status!Lose
    <3>4. mounted = IF events = <<>> THEN TRUE ELSE ~events[1]
      BY <2>1 DEF StatusIInv, EventsAlternate
    <3>5. linked' = FALSE
      BY <1>2 DEF Status!Lose
    <3> HIDE DEF StatusTyped, RecordMatches, LossMatches
    <3> QED
      BY <2>1, <3>2, <3>3, <3>4, <3>5 DEF EventsAlternate
  <2> QED
    <3>1. StatusTyped'
      BY <1>2, <2>1, <2>2 DEF StatusIInv, Status!Lose
    <3>2. RecordMatches'
      BY <1>2, <2>1, <2>2 DEF StatusIInv, Status!Lose
    <3>3. LossMatches'
      <4>1. handler' # "idle" => events # <<>>
        BY <1>2 DEF StatusIInv, Status!Lose
      <4> HIDE DEF StatusTyped, RecordMatches, Status!TypeOK
      <4> QED
        BY <2>2, <4>1
    <3> QED
      BY <2>2, <3>1, <3>2, <3>3 DEF StatusIInv
<1>3. CASE Status!Connect
  <2>1. events' = Append(events, TRUE) /\ ~linked /\ linked'
    BY <1>3 DEF Status!Connect
  <2>2. /\ EventsAlternate' /\ events' \in Seq(BOOLEAN) /\ events' # <<>>
        /\ events # <<>> => events'[1] = events[1]
        /\ events = <<>> => events'[1] = TRUE
        /\ Len(events') = 1 => events = <<>>
    <3>1. /\ events \in Seq(BOOLEAN) /\ \A i \in 1 .. Len(events) - 1 : events[i + 1] = ~events[i]
          /\ events # <<>> => events[Len(events)] = ~TRUE
      BY <2>1 DEF StatusIInv, EventsAlternate
    <3>2. /\ Append(events, TRUE) \in Seq(BOOLEAN) /\ Append(events, TRUE) # <<>>
          /\ \A i \in 1 .. Len(Append(events, TRUE)) - 1 :
               Append(events, TRUE)[i + 1] = ~Append(events, TRUE)[i]
          /\ Append(events, TRUE)[Len(Append(events, TRUE))] = TRUE
          /\ Append(events, TRUE)[1] = IF events = <<>> THEN TRUE ELSE events[1]
          /\ Len(Append(events, TRUE)) = 1 => events = <<>>
      BY <3>1, EventComes
    <3>3. UNCHANGED mounted
      BY <1>3 DEF Status!Connect
    <3>4. mounted = IF events = <<>> THEN FALSE ELSE ~events[1]
      BY <2>1 DEF StatusIInv, EventsAlternate
    <3>5. linked' = TRUE
      BY <1>3 DEF Status!Connect
    <3> HIDE DEF StatusTyped, RecordMatches, LossMatches
    <3> QED
      BY <2>1, <3>2, <3>3, <3>4, <3>5 DEF EventsAlternate
  <2> QED
    <3>1. StatusTyped'
      BY <1>3, <2>1, <2>2 DEF StatusIInv, Status!Connect
    <3>2. RecordMatches'
      BY <1>3, <2>1, <2>2 DEF StatusIInv, Status!Connect
    <3>3. LossMatches'
      BY <1>3, <2>1, <2>2 DEF StatusIInv, Status!Connect
    <3> QED
      BY <2>2, <3>1, <3>2, <3>3 DEF StatusIInv
<1>4. ASSUME NEW w \in {"enabled", "disabled"}, Status!Operator(w) PROVE StatusIInv'
  <2>1. StatusTyped' /\ EventsAlternate' /\ RecordMatches'
    BY <1>4 DEF StatusIInv, Status!Operator, EventsAlternate
  <2>2. LossMatches'
    <3>1. /\ overruled' = (w = "enabled" /\ Status!LossIsHandled)
          /\ record' = IF w = "disabled" THEN Status!Rec(TRUE, "maintenance") ELSE Status!Rec(FALSE, "none")
          /\ UNCHANGED <<linked, events, handler, failed>>
      BY <1>4 DEF Status!Operator
    <3> HIDE DEF StatusTyped, RecordMatches, Status!TypeOK
    <3> QED
      BY <1>4, <3>1 DEF Status!LossIsHandled
  <2> QED
    BY <2>1, <2>2 DEF StatusIInv
<1>5. CASE Status!Sync
  BY <1>5 DEF StatusIInv, Status!Sync, EventsAlternate
<1>6. CASE Status!Handle
  <2>1. CASE handler' = "save" /\ UNCHANGED <<events, mounted, failed>>
    <3>1. Status!Enabled = events[1]
      BY <1>6 DEF Status!Handle, Status!Enabled, StatusIInv
    <3> QED
      <4>1. StatusTyped' /\ EventsAlternate'
        BY <1>6, <2>1 DEF StatusIInv, Status!Handle, EventsAlternate
      <4>2. record.disabled = events[1] /\ Status!Overridable(record)
        BY <1>6, <2>1, <3>1 DEF Status!Handle, Status!End
      <4>3. RecordMatches'
        BY <1>6, <2>1, <4>2 DEF StatusIInv, Status!Handle, Status!Overridable
      <4>4. LossMatches'
        <5>1. handler' # "provider" /\ UNCHANGED <<linked, overruled, record, events, failed>>
          BY <1>6, <2>1 DEF Status!Handle
        <5> HIDE DEF StatusTyped, RecordMatches, Status!TypeOK
        <5> QED
          BY <5>1 DEF StatusIInv
      <4> QED
        BY <4>1, <4>3, <4>4 DEF StatusIInv
  <2>2. CASE /\ Status!End /\ failed' = FALSE
             /\ ~(record.disabled = Status!Enabled /\ Status!Overridable(record))
    <3>1. /\ events' \in Seq(BOOLEAN) /\ mounted' \in BOOLEAN /\ EventsAlternate'
          /\ events' = <<>> => linked' = events[1] /\ Len(events) = 1
          /\ events' # <<>> => events'[1] = ~events[1]
          /\ events[1] \in BOOLEAN /\ Status!Enabled = events[1]
      BY <1>6, <2>2, StatusEnds DEF Status!Handle
    <3>2. /\ handler' = "idle" /\ failed' = FALSE
          /\ UNCHANGED <<record, trait, linked, losses, wish, status_raced, overruled>>
      BY <1>6, <2>2 DEF Status!Handle, Status!End
    <3>3. StatusTyped' /\ record.disabled \in BOOLEAN /\ linked \in BOOLEAN
      BY <3>1, <3>2 DEF StatusIInv
    <3>4. RecordMatches'
      <4>1. record.disabled # events[1] \/ (record.disabled /\ record.reason # "AUTO")
        BY <2>2, <3>1 DEF Status!Overridable
      <4>2. handler = "idle"
        BY <1>6 DEF Status!Handle
      <4> HIDE DEF StatusTyped, Status!TypeOK, LossMatches
      <4> QED
        BY <3>1, <3>2, <3>3, <4>1, <4>2 DEF StatusIInv
    <3>5. LossMatches'
      <4>1. record.disabled # events[1] \/ record.disabled
        BY <2>2, <3>1 DEF Status!Overridable
      <4> HIDE DEF StatusTyped, Status!TypeOK, RecordMatches
      <4> QED
        BY <3>1, <3>2, <3>3, <4>1 DEF StatusIInv
    <3> QED
      BY <3>1, <3>3, <3>4, <3>5 DEF StatusIInv
  <2> QED
    BY <1>6, <2>1, <2>2 DEF Status!Handle
<1>7. CASE Status!HandleFails
  BY <1>7, StatusEnds DEF StatusIInv, Status!HandleFails, Status!End
<1>8. CASE Status!Save
  <2>1. Status!Enabled = events[1] /\ events[1] \in BOOLEAN
    <3>1. events \in Seq(BOOLEAN) /\ events # <<>>
      BY <1>8 DEF Status!Save, StatusIInv
    <3> QED
      BY <3>1 DEF Status!Enabled
  <2> QED
    BY <1>8, <2>1 DEF StatusIInv, Status!Save, Status!Reason, EventsAlternate
<1>9. ASSUME NEW works \in BOOLEAN, Status!Provider(works) PROVE StatusIInv'
  BY <1>9, StatusEnds DEF StatusIInv, Status!Provider, Status!End
<1> QED
  BY <1>1, <1>2, <1>3, <1>4, <1>5, <1>6, <1>7, <1>8, <1>9 DEF Status!Next

StatusInv == part = "status" => StatusIInv

\* So the status invariant holds in every behaviour of the parts.
LEMMA StatusInvariant == Spec => []StatusInv
<1>1. Init => StatusInv
  BY PartStarts, StatusStarts DEF StatusInv
<1>2. StatusInv /\ [Next]_vars => StatusInv'
  BY PartSteps, StatusStep DEF StatusInv
<1> QED
  BY <1>1, <1>2, PTL DEF Spec

\* The status invariant implies what the runs ask of the status of a host.
LEMMA StatusInOrder ==
  StatusIInv => Status!OperatorsWish /\ Status!BackInRotation /\ Status!OutWhileLost
BY DEF StatusIInv, StatusTyped, EventsAlternate, RecordMatches, LossMatches, Status!Rec,
  Status!OperatorsWish, Status!BackInRotation, Status!OutWhileLost

-----------------------------------------------------------------------------
(***************************************************************************)
(* Access to a network.  A check that nobody has overtaken still says what *)
(* is so.                                                                  *)
(***************************************************************************)
Checked(w) ==
  ~network_request[w].stale =>
    /\ network_request[w].op = "create" => external
    /\ network_request[w].op = "delete" =>
         ~Network!InUse(network_request[w].from, {})
    /\ network_request[w].op = "update" =>
         ~Network!InUse(network_request[w].from, {network_request[w].to})

NetworkIInv ==
  /\ Network!TypeOK
  /\ \A w \in Writer : network_request[w].op = "delete" => network_request[w].from = network_request[w].to
  /\ ~network_raced =>
       /\ \A p \in gateways : Network!Access(p)
       /\ entries # {} => external
       /\ \A w \in Writer : Checked(w)

\* The networks start inside their invariant.
LEMMA NetworkStarts == Network!Init => NetworkIInv
<1> SUFFICES ASSUME Network!Init PROVE NetworkIInv
  OBVIOUS
<1>1. /\ Network!Idle \in [op : {"none", "create", "delete", "update", "deleted"},
             from : Network!Target, to : Network!Target, stale : BOOLEAN]
      /\ Network!Idle.op = "none"
  BY DEF Network!Idle, Network!Target
<1>2. /\ \A w \in Writer : network_request[w] = Network!Idle
      /\ network_request \in [Writer -> [op : {"none", "create", "delete", "update", "deleted"},
             from : Network!Target, to : Network!Target, stale : BOOLEAN]]
  BY <1>1 DEF Network!Init
<1>3. /\ {external, default, network_raced} \subseteq BOOLEAN /\ entries \subseteq Network!Target
      /\ shares \subseteq Network!Action \X Network!Target /\ gateways = {}
      /\ entries # {} => external
  BY DEF Network!Init, Network!Target
<1> QED
  BY <1>1, <1>2, <1>3 DEF Network!TypeOK, NetworkIInv, Checked

\* Requests that are disturbed keep their types, and their checks do not count
\* any more.
LEMMA Disturbed ==
  ASSUME Network!TypeOK, NEW w \in Writer
  PROVE  /\ Network!DisturbAll \in [Writer -> [op : {"none", "create", "delete", "update", "deleted"},
                from : Network!Target, to : Network!Target, stale : BOOLEAN]]
         /\ Network!Disturb(w) \in [Writer -> [op : {"none", "create", "delete", "update", "deleted"},
                from : Network!Target, to : Network!Target, stale : BOOLEAN]]
         /\ Network!Disturb(w)[w] = Network!Idle
         /\ \A v \in Writer :
              /\ Network!DisturbAll[v].op # "none" => Network!DisturbAll[v].stale
              /\ Network!DisturbAll[v].op = network_request[v].op
              /\ Network!DisturbAll[v].from = network_request[v].from
              /\ Network!DisturbAll[v].to = network_request[v].to
              /\ v # w =>
                   /\ Network!Disturb(w)[v].op # "none" => Network!Disturb(w)[v].stale
                   /\ Network!Disturb(w)[v].op = network_request[v].op
                   /\ Network!Disturb(w)[v].from = network_request[v].from
                   /\ Network!Disturb(w)[v].to = network_request[v].to
<1> DEFINE R == [op : {"none", "create", "delete", "update", "deleted"},
                 from : Network!Target, to : Network!Target, stale : BOOLEAN]
<1>1. \A v \in Writer : network_request[v] \in R
  BY DEF Network!TypeOK
<1>2. Network!Idle \in R
  BY DEF Network!Idle, Network!Target
<1>3. ASSUME NEW v \in Writer
      PROVE  LET d == [network_request[v] EXCEPT !.stale = @ \/ network_request[v] # Network!Idle]
             IN  /\ d \in R
                 /\ d.op # "none" => d.stale
                 /\ d.op = network_request[v].op /\ d.from = network_request[v].from
                 /\ d.to = network_request[v].to
  <2>1. network_request[v].stale \in BOOLEAN
    BY <1>1
  <2>2. (network_request[v].stale \/ network_request[v] # Network!Idle) \in BOOLEAN
    BY <2>1
  <2>3. network_request[v] = Network!Idle => network_request[v].op = "none"
    BY DEF Network!Idle
  <2> QED
    BY <1>1, <2>2, <2>3
<1> QED
  BY <1>2, <1>3 DEF Network!DisturbAll, Network!Disturb

\* No step of a writer of the networks leaves their invariant.
LEMMA NetworkStep == NetworkIInv /\ [Network!Next]_(Network!vars) => NetworkIInv'
<1> SUFFICES ASSUME NetworkIInv, [Network!Next]_(Network!vars) PROVE NetworkIInv'
  OBVIOUS
<1> USE NetworkAssumption DEF Network!ExternalNetworkAssumption
<1> DEFINE R == [op : {"none", "create", "delete", "update", "deleted"},
                 from : Network!Target, to : Network!Target, stale : BOOLEAN]
<1>0. /\ network_request \in [Writer -> R] /\ entries \subseteq Network!Target
      /\ gateways \subseteq Project /\ {external, default, network_raced} \subseteq BOOLEAN
      /\ Network!TypeOK
  BY DEF NetworkIInv, Network!TypeOK
<1>1. CASE UNCHANGED Network!vars
  BY <1>1 DEF NetworkIInv, Network!vars, Network!TypeOK, Network!Access, Checked, Network!InUse
\* All checks are out of date.
<1>2. ASSUME network_request' = Network!DisturbAll, UNCHANGED <<shares, network_raced>>,
             {external', default'} \subseteq BOOLEAN, entries' \subseteq Network!Target,
             gateways' \subseteq Project,
             ~network_raced => /\ \A p \in gateways' : Network!Access(p)'
                               /\ entries' # {} => external'
      PROVE  NetworkIInv'
  <2>1. Network!TypeOK'
    <3>1. Writer # {} => network_request' \in [Writer -> R]
      BY <1>0, <1>2, Disturbed
    <3>2. Writer = {} => network_request' \in [Writer -> R]
      BY <1>2 DEF Network!DisturbAll
    <3> QED
      BY <1>0, <1>2, <3>1, <3>2 DEF Network!TypeOK
  <2>2. \A w \in Writer : network_request'[w].op = "delete" => network_request'[w].from = network_request'[w].to
    BY <1>0, <1>2, Disturbed DEF NetworkIInv
  <2>3. \A w \in Writer : Checked(w)'
    BY <1>0, <1>2, Disturbed DEF Checked
  <2> QED
    BY <1>2, <2>1, <2>2, <2>3 DEF NetworkIInv
<1>3. ASSUME NEW value \in BOOLEAN, Network!UpdateExternal(value) PROVE NetworkIInv'
  BY <1>0, <1>2, <1>3 DEF NetworkIInv, Network!UpdateExternal, Network!Access, Network!Target
<1>4. CASE Network!SetDefault
  BY <1>0, <1>2, <1>4 DEF NetworkIInv, Network!SetDefault, Network!Access
<1>5. ASSUME NEW p \in Project, Network!Connect(p) PROVE NetworkIInv'
  BY <1>0, <1>2, <1>5 DEF NetworkIInv, Network!Connect, Network!Access
<1>6. ASSUME NEW p \in Project, Network!Disconnect(p) PROVE NetworkIInv'
  <2>1. \A from, new : ~Network!InUse(from, new) => ~Network!InUse(from, new)'
    BY <1>6 DEF Network!Disconnect, Network!InUse
  <2>2. \A w \in Writer : Checked(w) => Checked(w)'
    BY <1>6, <2>1 DEF Network!Disconnect, Checked
  <2> QED
    BY <1>0, <1>6, <2>2 DEF NetworkIInv, Network!Disconnect, Network!Access, Network!TypeOK
\* A request begins, with a check that is right.
<1>7. ASSUME NEW w \in Writer, NEW r \in R, network_request' = [network_request EXCEPT ![w] = r],
             r.op = "delete" => r.from = r.to,
             UNCHANGED <<external, default, entries, shares, gateways, network_raced>>,
             r.op = "create" => external,
             r.op = "delete" => ~Network!InUse(r.from, {}),
             r.op = "update" => ~Network!InUse(r.from, {r.to})
      PROVE  NetworkIInv'
  <2>1. Network!TypeOK'
    BY <1>0, <1>7 DEF Network!TypeOK
  <2>2. \A v \in Writer : network_request'[v] = IF v = w THEN r ELSE network_request[v]
    BY <1>0, <1>7
  <2>3. \A from, new : Network!InUse(from, new) <=> Network!InUse(from, new)'
    BY <1>7 DEF Network!InUse
  <2>4. \A v \in Writer : Checked(v) => Checked(v)'
    BY <1>7, <2>2, <2>3 DEF Checked
  <2> QED
    BY <1>7, <2>1, <2>2, <2>4 DEF NetworkIInv, Network!Access
<1>8. ASSUME NEW w \in Writer, NEW t \in Network!Target, Network!CreatePolicy(w, t) PROVE NetworkIInv'
  <2> DEFINE r == [Network!Idle EXCEPT !.op = "create", !.to = t]
  <2>1. r \in R /\ r.op = "create" /\ ~r.stale
    BY DEF Network!Idle, Network!Target
  <2>2. CASE external
    BY <1>7, <1>8, <2>1, <2>2 DEF Network!CreatePolicy, Network!Converted
  <2>3. CASE ~external
    <3>1. /\ external' = TRUE /\ network_request' = [Network!DisturbAll EXCEPT ![w] = r]
          /\ UNCHANGED <<default, entries, shares, gateways, network_raced>>
      BY <1>8, <2>3 DEF Network!CreatePolicy, Network!Converted
    <3>2. Network!TypeOK'
      BY <1>0, <2>1, <3>1, Disturbed DEF Network!TypeOK
    <3>3. \A v \in Writer : network_request'[v] = IF v = w THEN r ELSE Network!DisturbAll[v]
      BY <1>0, <3>1 DEF Network!DisturbAll
    <3>4. \A v \in Writer : Checked(v)' /\ (network_request'[v].op = "delete" => network_request'[v].from = network_request'[v].to)
      BY <1>0, <2>1, <3>1, <3>3, Disturbed DEF Checked, NetworkIInv
    <3> QED
      BY <3>1, <3>2, <3>4 DEF NetworkIInv, Network!Access
  <2> QED
    BY <2>2, <2>3
<1>9. ASSUME NEW w \in Writer, NEW t \in Network!Target, Network!DeletePolicy(w, t) PROVE NetworkIInv'
  <2>1. [op |-> "delete", from |-> t, to |-> t, stale |-> FALSE] \in R
    OBVIOUS
  <2> QED
    BY <1>7, <1>9, <2>1 DEF Network!DeletePolicy, Network!Begin
<1>10. ASSUME NEW w \in Writer, NEW t \in Network!Target, NEW new \in Network!Target,
              Network!UpdatePolicy(w, t, new)
       PROVE  NetworkIInv'
  <2>1. [op |-> "update", from |-> t, to |-> new, stale |-> FALSE] \in R
    OBVIOUS
  <2> QED
    BY <1>7, <1>10, <2>1 DEF Network!UpdatePolicy, Network!Begin
\* A request ends, and overtakes the others' checks.
<1>11. ASSUME NEW w \in Writer, NEW r \in R, network_request' = [Network!Disturb(w) EXCEPT ![w] = r],
              r.op \in {"none", "deleted"},
              UNCHANGED <<shares, gateways>>, network_raced' \in BOOLEAN,
              {external', default'} \subseteq BOOLEAN, entries' \subseteq Network!Target,
              ~network_raced' => /\ \A p \in gateways : Network!Access(p)'
                                 /\ entries' # {} => external'
       PROVE  NetworkIInv'
  <2>1. Network!TypeOK'
    BY <1>0, <1>11, Disturbed DEF Network!TypeOK
  <2>2. \A v \in Writer : network_request'[v] = IF v = w THEN r ELSE Network!Disturb(w)[v]
    BY <1>0, <1>11 DEF Network!Disturb
  <2>3. \A v \in Writer : Checked(v)' /\ (network_request'[v].op = "delete" => network_request'[v].from = network_request'[v].to)
    BY <1>0, <1>11, <2>2, Disturbed DEF Checked, NetworkIInv
  <2> QED
    BY <1>11, <2>1, <2>3 DEF NetworkIInv
<1>12. ASSUME NEW w \in Writer, Network!Write(w) PROVE NetworkIInv'
  <2> DEFINE r == network_request[w]
  <2>1. r \in R /\ Network!Idle \in R
    BY <1>0 DEF Network!Idle, Network!Target
  <2>2. CASE (r.to \in entries /\ r.op # "delete") \/ (r.from \notin entries /\ r.op # "create")
    <3>1. /\ network_request' = [network_request EXCEPT ![w] = Network!Idle]
          /\ UNCHANGED <<external, default, entries, shares, gateways, network_raced>>
      BY <1>12, <2>2 DEF Network!Write
    <3>2. Network!Idle.op = "none"
      BY DEF Network!Idle
    <3> QED
      BY <1>7, <2>1, <3>1, <3>2
  <2>3. CASE ~((r.to \in entries /\ r.op # "delete") \/ (r.from \notin entries /\ r.op # "create"))
    <3> DEFINE next == IF r.op = "delete" THEN [Network!Idle EXCEPT !.op = "deleted"] ELSE Network!Idle
    <3>1. /\ entries' = (entries \ (IF r.op = "create" THEN {} ELSE {r.from}))
                        \union (IF r.op = "delete" THEN {} ELSE {r.to})
          /\ network_raced' = (network_raced \/ r.stale)
          /\ r.op \in {"create", "delete", "update"}
          /\ UNCHANGED <<external, default, shares, gateways>>
      BY <1>12, <2>3 DEF Network!Write
    <3>2. network_request' = [Network!Disturb(w) EXCEPT ![w] = next]
      <4>1. Network!Disturb(w) = [Network!Disturb(w) EXCEPT ![w] = Network!Idle]
        BY DEF Network!Disturb
      <4> QED
        BY <1>12, <2>3, <4>1 DEF Network!Write
    <3>3. next \in R /\ next.op \in {"none", "deleted"}
      BY <2>1 DEF Network!Idle
    <3>4. entries' \subseteq Network!Target /\ network_raced' \in BOOLEAN
      BY <1>0, <2>1, <3>1
    <3>5. ASSUME ~network_raced'
          PROVE  (\A p \in gateways : Network!Access(p)') /\ (entries' # {} => external')
      <4>1. ~network_raced /\ ~r.stale /\ Checked(w)
        BY <1>0, <2>1, <3>1, <3>5 DEF NetworkIInv
      <4>2. external
        BY <2>3, <3>1, <4>1 DEF NetworkIInv, Checked
      <4>3. \A p \in gateways : Network!Access(p)
        BY <4>1 DEF NetworkIInv
      <4> DEFINE Has(p, e) == p = Owner \/ p \in e \/ Everyone \in e
      <4>7. \A p \in gateways : Has(p, entries)
        BY <4>3 DEF Network!Access
      <4>8. SUFFICES \A p \in gateways : Has(p, entries')
        BY <4>2, <3>1 DEF Network!Access
      <4>4. CASE r.op = "create"
        BY <3>1, <4>7, <4>4
      <4>5. CASE r.op = "delete"
        <5>1. ~Network!InUse(r.from, {}) /\ entries' = entries \ {r.from}
          BY <3>1, <4>1, <4>5 DEF Checked
        <5>2. CASE r.from = Everyone
          BY <5>1, <5>2 DEF Network!InUse
        <5>3. CASE r.from # Everyone
          BY <4>7, <5>1, <5>3 DEF Network!InUse
        <5> QED
          BY <5>2, <5>3
      <4>6. CASE r.op = "update"
        <5>1. ~Network!InUse(r.from, {r.to}) /\ entries' = (entries \ {r.from}) \union {r.to}
          BY <3>1, <4>1, <4>6 DEF Checked
        <5>2. CASE r.from = Everyone
          BY <5>1, <5>2 DEF Network!InUse
        <5>3. CASE r.from # Everyone
          BY <4>7, <5>1, <5>3 DEF Network!InUse
        <5> QED
          BY <5>2, <5>3
      <4> QED
        BY <3>1, <4>4, <4>5, <4>6
    <3> HIDE DEF next
    <3> QED
      BY <1>0, <1>11, <3>1, <3>2, <3>3, <3>4, <3>5
  <2> QED
    BY <2>2, <2>3
<1>13. ASSUME NEW w \in Writer, Network!AfterDelete(w) PROVE NetworkIInv'
  <2>1. /\ network_request' = [Network!Disturb(w) EXCEPT ![w] = Network!Idle]
        /\ Network!Idle \in R /\ Network!Idle.op = "none"
    BY <1>13 DEF Network!AfterDelete, Network!Disturb, Network!Idle, Network!Target
  <2>2. /\ UNCHANGED <<entries, shares, gateways, network_raced>>
        /\ {external', default'} \subseteq BOOLEAN
        /\ entries # {} => external' = external
    BY <1>0, <1>13 DEF Network!AfterDelete, Network!EndExternal
  <2>3. ~network_raced' => (\A p \in gateways : Network!Access(p)') /\ (entries' # {} => external')
    BY <2>2 DEF NetworkIInv, Network!Access
  <2> QED
    BY <1>0, <1>11, <2>1, <2>2, <2>3
<1> QED
  BY <1>1, <1>3, <1>4, <1>5, <1>6, <1>8, <1>9, <1>10, <1>12, <1>13 DEF Network!Next

NetworkInv == part = "network" => NetworkIInv

\* So the network invariant holds in every behaviour of the parts.
LEMMA NetworkInvariant == Spec => []NetworkInv
<1>1. Init => NetworkInv
  BY PartStarts, NetworkStarts DEF NetworkInv
<1>2. NetworkInv /\ [Next]_vars => NetworkInv'
  BY PartSteps, NetworkStep DEF NetworkInv
<1> QED
  BY <1>1, <1>2, PTL DEF Spec

\* The listing is a query on the entries alone.
LEMMA Listing == Network!TypeOK => Network!ListsTheVisible
<1> SUFFICES ASSUME Network!TypeOK, NEW p \in Project, NEW f \in Network!Filter
             PROVE  LET visible == p = Owner \/ \E row \in Network!Rows : row[2] \in {p, Everyone}
                    IN  Network!Listed(p, f) <=>
                          /\ visible
                          /\ f = "shared" => Network!SharedTo(p)
                          /\ f = "not shared" => (~Network!SharedTo(p) \/ p = Owner)
  BY DEF Network!ListsTheVisible
<1>1. \A row \in Network!Rows : row[1] \in Network!Action \/ row[1] = "external"
  BY DEF Network!Rows, Network!TypeOK, Network!Action
<1>2. \A row \in Network!Rows : Network!RowAllowed(p, row) <=> row[2] \in {p, Everyone}
  BY <1>1 DEF Network!RowAllowed
<1>3. CASE f = "none"
  BY <1>2, <1>3 DEF Network!Listed, Network!RowShared
<1>4. CASE f = "shared"
  BY <1>2, <1>4 DEF Network!Listed, Network!RowShared, Network!SharedTo
<1>5. CASE f = "not shared"
  BY <1>2, <1>5 DEF Network!Listed, Network!RowShared
<1> QED
  BY <1>3, <1>4, <1>5 DEF Network!Filter

\* In any order of entries made, moved and removed by any number of workers,
\* projects with a router keep their access, the network stays external while
\* somebody has an entry, and the listing shows what the entries give.
THEOREM AccessStaysKept == Spec => []AccessKept
<1>1. NetworkInv => AccessKept
  BY Listing DEF NetworkInv, NetworkIInv, AccessKept, Network!RoutersKeepAccess, Network!EntriesOfExternal
<1> QED
  BY <1>1, NetworkInvariant, PTL

-----------------------------------------------------------------------------
(***************************************************************************)
(* The scheduler.  While one request is under way at a time, the group it  *)
(* carries holds every host of a member, and the host it selected is in    *)
(* none of their zones.                                                    *)
(***************************************************************************)
UnderWay(g) == schedule_request[g].pc # "none"

Apart ==
  ~schedule_overlap =>
    /\ \A g \in Guest, k \in Guest : UnderWay(g) /\ UnderWay(k) => g = k
    /\ \A g \in Guest : UnderWay(g) => Schedule!GroupHosts \subseteq schedule_request[g].group
    /\ \A g \in Guest :
         schedule_request[g].pc = "claim" => Schedule!Passes(g, schedule_request[g].to)

ScheduleIInv ==
  /\ Schedule!TypeOK
  /\ schedule_overlap \in BOOLEAN
  /\ \A g \in Guest : schedule_request[g].pc = "claim" => schedule_request[g].to \in Candidate
  /\ Apart
  /\ Schedule!ZonesApart
  /\ Schedule!BusierLighter

\* Products of integers: signs and order.
LEMMA ProductSigns ==
  ASSUME NEW a \in Int, NEW b \in Int
  PROVE  /\ a * b \in Int
         /\ a > 0 /\ b > 0 => a * b > 0
         /\ a < 0 /\ b > 0 => a * b < 0
         /\ a <= 0 /\ b >= 0 => a * b <= 0
         /\ a >= 0 /\ b >= 0 => a * b >= 0
OBVIOUS

\* Multiplication keeps the order of integers, or turns it round.
LEMMA ProductOrder ==
  ASSUME NEW a \in Int, NEW b \in Int, NEW c \in Int, a <= b
  PROVE  /\ c >= 0 => a * c <= b * c /\ c * a <= c * b
         /\ c <= 0 => c * b <= c * a
OBVIOUS

\* What is left to a guest and to the host are numbers, and a busier host has
\* less left.
LEMMA NewIdleIs ==
  ASSUME NEW u \in Nat, NEW i \in 0 .. 10, NEW j \in 0 .. 10, i <= j
  PROVE  /\ Schedule!NewIdle(u, i)[1] \in Int /\ Schedule!NewIdle(u, i)[2] \in Nat \ {0}
         /\ Schedule!NewIdle(u, i)[1] <= Schedule!NewIdle(u, j)[1]
         /\ Schedule!NewIdle(u, i)[2] = Schedule!NewIdle(u, j)[2]
<1>1. CASE u = 0
  BY <1>1 DEF Schedule!NewIdle
<1>2. CASE u > 0
  <2>1. /\ Schedule!NewIdle(u, i) = <<10 * u - (10 - i) * (u + 1), 10 * u>>
        /\ Schedule!NewIdle(u, j) = <<10 * u - (10 - j) * (u + 1), 10 * u>>
    BY <1>2 DEF Schedule!NewIdle
  <2>2. /\ (10 - i) * (u + 1) \in Int /\ (10 - j) * (u + 1) \in Int
        /\ 10 * u \in Nat \ {0}
    BY <1>2
  <2>3. (10 - j) * (u + 1) <= (10 - i) * (u + 1)
    <3>1. 10 - j \in Int /\ 10 - i \in Int /\ u + 1 \in Int /\ 10 - j <= 10 - i /\ u + 1 >= 0
      OBVIOUS
    <3> QED
      BY <3>1, ProductOrder
  <2> QED
    BY <2>1, <2>2, <2>3
<1> QED
  BY <1>1, <1>2

\* The order of the weights follows from what the hosts have left.
LEMMA WeightsOrdered ==
  ASSUME total \in 1 .. MaxVcpus, used \in 0 .. MaxVcpus, idle \in 0 .. 10
  PROVE  Schedule!BusierLighter
<1> DEFINE f == total - (used + 1)
           n(i) == Schedule!NewIdle(used, i)[1]
           d(i) == Schedule!NewIdle(used, i)[2]
<1>0. MaxVcpus \in Nat
  BY ScheduleAssumption DEF Schedule!SchedulingAssumption
<1>1. total \in Nat \ {0} /\ used \in Nat /\ f \in Int
  BY <1>0
<1>2. ASSUME NEW i \in 0 .. idle, n(i) > 0
      PROVE  ~Schedule!Heavier(Schedule!Weight(used, i), Schedule!Weight(used, idle))
  <2>1. /\ n(i) \in Int /\ n(idle) \in Int /\ d(i) \in Nat \ {0}
        /\ n(i) <= n(idle) /\ n(idle) > 0 /\ d(i) = d(idle)
    <3>1. i \in 0 .. 10 /\ i <= idle /\ idle \in 0 .. 10 /\ idle <= idle
      OBVIOUS
    <3>2. /\ n(i) \in Int /\ d(i) \in Nat \ {0} /\ n(i) <= n(idle) /\ d(i) = d(idle)
      BY <1>1, <3>1, NewIdleIs
    <3>3. n(idle) \in Int
      BY <1>1, <3>1, NewIdleIs
    <3> HIDE DEF n, d
    <3> QED
      BY <1>2, <3>2, <3>3
  <2>2. total * d(i) \in Nat /\ f * d(i) \in Int
    BY <1>1, <2>1, ProductSigns
  <2>3. CASE f > 0
    <3>1. /\ Schedule!Weight(used, i) = <<f * n(i), total * d(i)>>
          /\ Schedule!Weight(used, idle) = <<f * n(idle), total * d(i)>>
      BY <2>1, <2>3 DEF Schedule!Weight, Schedule!Free
    <3>2. f * n(i) \in Int /\ f * n(idle) \in Int /\ f * n(i) <= f * n(idle)
      BY <1>1, <2>1, <2>3, ProductOrder, ProductSigns
    <3>3. (f * n(i)) * (total * d(i)) <= (f * n(idle)) * (total * d(i))
      BY <2>2, <3>2, ProductOrder
    <3>4. (f * n(i)) * (total * d(i)) \in Int /\ (f * n(idle)) * (total * d(i)) \in Int
      BY <2>2, <3>2, ProductSigns
    <3> HIDE DEF f, n, d
    <3>5. Schedule!Heavier(<<f * n(i), total * d(i)>>, <<f * n(idle), total * d(i)>>)
            <=> (f * n(i)) * (total * d(i)) > (f * n(idle)) * (total * d(i))
      BY Zenon DEF Schedule!Heavier
    <3> QED
      BY <3>1, <3>3, <3>4, <3>5
  <2>4. CASE ~(f > 0)
    <3>1. /\ Schedule!Weight(used, i) = <<f * d(i), total * n(i)>>
          /\ Schedule!Weight(used, idle) = <<f * d(i), total * n(idle)>>
      BY <1>2, <2>1, <2>4 DEF Schedule!Weight, Schedule!Free
    <3>2. total * n(i) \in Int /\ total * n(idle) \in Int /\ total * n(i) <= total * n(idle)
      BY <1>1, <2>1, ProductOrder, ProductSigns
    <3>3. f * d(i) \in Int /\ f * d(i) <= 0
      BY <1>1, <2>1, <2>4, ProductSigns
    <3>4. (f * d(i)) * (total * n(idle)) <= (f * d(i)) * (total * n(i))
      BY <3>2, <3>3, ProductOrder
    <3>5. (f * d(i)) * (total * n(i)) \in Int /\ (f * d(i)) * (total * n(idle)) \in Int
      BY <3>2, <3>3, ProductSigns
    <3> HIDE DEF f, n, d
    <3>6. Schedule!Heavier(<<f * d(i), total * n(i)>>, <<f * d(i), total * n(idle)>>)
            <=> (f * d(i)) * (total * n(idle)) > (f * d(i)) * (total * n(i))
      BY Zenon DEF Schedule!Heavier
    <3> QED
      BY <3>1, <3>4, <3>5, <3>6
  <2> QED
    BY <2>3, <2>4
<1>3. ASSUME NEW u \in 0 .. used, f < 0, total - (u + 1) > 0,
             Schedule!NewIdle(u, idle)[1] > 0
      PROVE  Schedule!Heavier(Schedule!Weight(u, idle), Schedule!Weight(used, idle))
  <2> DEFINE e == total - (u + 1)
             m == Schedule!NewIdle(u, idle)[1]
             c == Schedule!NewIdle(u, idle)[2]
  <2>1. /\ m \in Int /\ m > 0 /\ c \in Nat \ {0} /\ e \in Int /\ e > 0
        /\ n(idle) \in Int /\ d(idle) \in Nat \ {0}
    <3>1. u \in Nat /\ idle \in 0 .. 10 /\ idle <= idle
      BY <1>1
    <3> QED
      BY <1>1, <1>3, <3>1, NewIdleIs
  <2>2. /\ Schedule!Weight(u, idle) = <<e * m, total * c>>
    BY <1>3 DEF Schedule!Weight, Schedule!Free
  <2>3. e * m \in Int /\ e * m > 0 /\ total * c \in Int /\ total * c > 0
    BY <1>1, <2>1, ProductSigns
  <2>4. PICK x \in Int, y \in Int :
          Schedule!Weight(used, idle) = <<x, y>> /\ x < 0 /\ y > 0
    <3>1. CASE n(idle) > 0
      <4>1. Schedule!Weight(used, idle) = <<f * d(idle), total * n(idle)>>
        BY <1>1, <1>3, <3>1 DEF Schedule!Weight, Schedule!Free
      <4>2. /\ f * d(idle) \in Int /\ f * d(idle) < 0
            /\ total * n(idle) \in Int /\ total * n(idle) > 0
        BY <1>1, <1>3, <2>1, <3>1, ProductSigns
      <4> QED
        BY <4>1, <4>2
    <3>2. CASE ~(n(idle) > 0)
      <4>1. Schedule!Weight(used, idle) = <<f, total>>
        BY <1>1, <1>3, <3>2 DEF Schedule!Weight, Schedule!Free
      <4> QED
        BY <1>1, <1>3, <4>1
    <3> QED
      BY <3>1, <3>2
  <2>5. (e * m) * y \in Int /\ (e * m) * y > 0 /\ x * (total * c) \in Int /\ x * (total * c) < 0
    BY <2>3, <2>4, ProductSigns
  <2> HIDE DEF e, m, c
  <2>6. Schedule!Heavier(<<e * m, total * c>>, <<x, y>>) <=> (e * m) * y > x * (total * c)
    BY Zenon DEF Schedule!Heavier
  <2> QED
    BY <2>2, <2>4, <2>5, <2>6
<1> QED
  BY <1>2, <1>3 DEF Schedule!BusierLighter, Schedule!Free

\* The scheduler starts inside its invariant.
LEMMA ScheduleStarts == Schedule!Init => ScheduleIInv
<1> SUFFICES ASSUME Schedule!Init PROVE ScheduleIInv
  OBVIOUS
<1>1. /\ on = [g \in Guest |-> Schedule!NoHost]
      /\ schedule_request = [g \in Guest |-> Schedule!NoRequest] /\ schedule_overlap = FALSE
  BY DEF Schedule!Init
<1>2. /\ Schedule!NoRequest \in [pc : {"none", "filter", "claim"}, group : SUBSET Candidate,
            to : Candidate \union {Schedule!NoHost}]
      /\ Schedule!NoRequest.pc = "none"
  BY DEF Schedule!NoRequest
<1>3. Schedule!TypeOK
  BY <1>1, <1>2 DEF Schedule!TypeOK
<1>4. \A g \in Guest : schedule_request[g].pc = "none" /\ on[g] = Schedule!NoHost
  BY <1>1, <1>2
<1>5. Apart
  BY <1>4 DEF Apart, UnderWay
<1>6. Schedule!ZonesApart
  BY <1>4, ScheduleAssumption DEF Schedule!ZonesApart, Schedule!SchedulingAssumption
<1>7. Schedule!BusierLighter
  BY WeightsOrdered DEF Schedule!Init
<1> QED
  BY <1>1, <1>3, <1>4, <1>5, <1>6, <1>7 DEF ScheduleIInv

\* No step of the scheduler or a host leaves the scheduler's invariant.
LEMMA ScheduleStep == ScheduleIInv /\ [Schedule!Next]_(Schedule!vars) => ScheduleIInv'
<1> SUFFICES ASSUME ScheduleIInv, [Schedule!Next]_(Schedule!vars) PROVE ScheduleIInv'
  OBVIOUS
<1> DEFINE R == [pc : {"none", "filter", "claim"}, group : SUBSET Candidate,
                 to : Candidate \union {Schedule!NoHost}]
<1>1. /\ Hinted \subseteq Guest
      /\ on \in [Guest -> Candidate \union {Schedule!NoHost}]
      /\ schedule_request \in [Guest -> R] /\ schedule_overlap \in BOOLEAN
      /\ \A g \in Guest : schedule_request[g].pc = "claim" => schedule_request[g].to \in Candidate
      /\ Apart /\ Schedule!ZonesApart
  BY ScheduleAssumption DEF ScheduleIInv, Schedule!TypeOK, Schedule!SchedulingAssumption
<1>2. UNCHANGED <<total, used, idle>> => Schedule!BusierLighter'
  BY DEF ScheduleIInv, Schedule!BusierLighter, Schedule!NewIdle, Schedule!Weight, Schedule!Free,
    Schedule!Heavier
<1>3. Schedule!GroupHosts \subseteq Candidate
  BY <1>1 DEF Schedule!GroupHosts
<1>4. CASE UNCHANGED Schedule!vars
  BY <1>2, <1>4 DEF ScheduleIInv, Schedule!vars, Schedule!metrics, Schedule!TypeOK, Apart, UnderWay,
    Schedule!GroupHosts, Schedule!Passes, Schedule!ZonesApart
<1>5. ASSUME NEW g \in Guest, Schedule!Ask(g) PROVE ScheduleIInv'
  <2> DEFINE r == [pc |-> "filter", group |-> Schedule!GroupHosts, to |-> Schedule!NoHost]
  <2>1. /\ schedule_request' = [schedule_request EXCEPT ![g] = r] /\ r \in R
        /\ UNCHANGED <<on, total, used, idle>>
    BY <1>3, <1>5 DEF Schedule!Ask, Schedule!Step, Schedule!metrics
  <2>2. /\ schedule_request' \in [Guest -> R]
        /\ \A k \in Guest : schedule_request'[k] = IF k = g THEN r ELSE schedule_request[k]
        /\ r.pc = "filter" /\ r.group = Schedule!GroupHosts
    BY <1>1, <2>1
  <2>3. /\ ~schedule_overlap' => ~schedule_overlap /\ \A k \in Guest : ~UnderWay(k)
        /\ schedule_overlap' \in BOOLEAN
    BY <1>1, <1>5 DEF Schedule!Ask, UnderWay
  <2> HIDE DEF r, R
  <2>4. Apart'
    BY <2>1, <2>2, <2>3 DEF Apart, UnderWay, Schedule!GroupHosts
  <2>5. Schedule!ZonesApart'
    BY <1>1, <2>1, <2>3 DEF Schedule!ZonesApart
  <2>6. Schedule!TypeOK'
    BY <1>1, <2>1, <2>2 DEF Schedule!TypeOK, R
  <2>7. \A k \in Guest : schedule_request'[k].pc = "claim" => schedule_request'[k].to \in Candidate
    BY <1>1, <2>2
  <2> QED
    BY <1>2, <2>1, <2>3, <2>4, <2>5, <2>6, <2>7 DEF ScheduleIInv
<1>6. ASSUME NEW g \in Guest, NEW h \in Candidate, Schedule!Select(g, h) PROVE ScheduleIInv'
  <2> DEFINE r == [schedule_request[g] EXCEPT !.pc = "claim", !.to = h]
  <2>1. /\ schedule_request' = [schedule_request EXCEPT ![g] = r]
        /\ r \in R
        /\ UNCHANGED <<on, schedule_overlap, total, used, idle>>
    BY <1>1, <1>6 DEF Schedule!Select, Schedule!Step, Schedule!metrics
  <2>2. /\ schedule_request' \in [Guest -> R]
        /\ \A k \in Guest : schedule_request'[k] = IF k = g THEN r ELSE schedule_request[k]
        /\ r.pc = "claim" /\ r.to = h /\ r.group = schedule_request[g].group
    BY <1>1, <2>1
  <2>3. UnderWay(g) /\ Schedule!Passes(g, h)
    BY <1>6 DEF Schedule!Select, UnderWay
  <2> HIDE DEF r, R
  <2>4. Apart'
    BY <1>1, <2>1, <2>2, <2>3 DEF Apart, UnderWay, Schedule!GroupHosts, Schedule!Passes
  <2>5. Schedule!ZonesApart'
    BY <1>1, <2>1 DEF Schedule!ZonesApart
  <2>6. Schedule!TypeOK'
    BY <1>1, <2>1, <2>2 DEF Schedule!TypeOK, R
  <2>7. \A k \in Guest : schedule_request'[k].pc = "claim" => schedule_request'[k].to \in Candidate
    BY <1>1, <2>2
  <2>8. schedule_overlap' \in BOOLEAN
    BY <1>1, <2>1
  <2> QED
    BY <1>2, <2>1, <2>8, <2>4, <2>5, <2>6, <2>7 DEF ScheduleIInv
\* A request ends, with the guest where it was or on a host in another zone.
<1>7. ASSUME NEW g \in Guest, NEW h, NEW r \in R, r.pc = "none",
             schedule_request' = [schedule_request EXCEPT ![g] = r],
             on' = [on EXCEPT ![g] = h], h \in Candidate \union {Schedule!NoHost},
             UNCHANGED <<schedule_overlap, total, used, idle>>,
             UnderWay(g) \/ h = Schedule!NoHost,
             \/ h \in {on[g], Schedule!NoHost}
             \/ schedule_request[g].pc = "claim" /\ h = schedule_request[g].to
      PROVE  ScheduleIInv'
  <2>1. /\ schedule_request' \in [Guest -> R]
        /\ \A k \in Guest : schedule_request'[k] = IF k = g THEN r ELSE schedule_request[k]
    BY <1>1, <1>7
  <2>2. /\ on' \in [Guest -> Candidate \union {Schedule!NoHost}]
        /\ \A k \in Guest : on'[k] = IF k = g THEN h ELSE on[k]
    BY <1>1, <1>7
  <2> HIDE DEF R
  <2>3. Schedule!ZonesApart'
    <3> SUFFICES ASSUME ~schedule_overlap, NEW a \in Hinted, NEW b \in Hinted \ {a},
                        on'[a] # Schedule!NoHost, on'[b] # Schedule!NoHost
                 PROVE  Zone[on'[a]] # Zone[on'[b]]
      BY <1>7 DEF Schedule!ZonesApart
    <3>1. ASSUME NEW k \in Hinted \ {g}, g \in Hinted, on[k] # Schedule!NoHost, h # Schedule!NoHost
          PROVE  Zone[h] # Zone[on[k]]
      <4>1. CASE h = on[g]
        BY <1>1, <3>1, <4>1 DEF Schedule!ZonesApart
      <4>2. CASE schedule_request[g].pc = "claim" /\ h = schedule_request[g].to
        <5>1. on[k] \in schedule_request[g].group
          BY <1>1, <3>1, <4>2 DEF Apart, UnderWay, Schedule!GroupHosts
        <5>2. Schedule!Passes(g, h)
          BY <1>1, <4>2 DEF Apart
        <5>3. CASE on[g] = h
          BY <4>1, <5>3
        <5> QED
          BY <3>1, <5>1, <5>2, <5>3 DEF Schedule!Passes
      <4> QED
        BY <1>7, <3>1, <4>1, <4>2
    <3> QED
      BY <1>1, <2>2, <3>1 DEF Schedule!ZonesApart
  <2>4. Apart'
    <3> SUFFICES ASSUME ~schedule_overlap PROVE Apart'
      BY <1>7 DEF Apart
    <3>1. \A a \in Guest : UnderWay(a)' => a # g /\ UnderWay(a) /\ schedule_request'[a] = schedule_request[a]
        BY <1>7, <2>1 DEF UnderWay
    <3>2. \A a \in Guest : UnderWay(a)' => h = Schedule!NoHost
      BY <1>1, <1>7, <3>1 DEF Apart
    <3>3. \A a \in Guest : UnderWay(a)' => Schedule!GroupHosts' \subseteq Schedule!GroupHosts
      BY <2>2, <3>2 DEF Schedule!GroupHosts
    <3>4. \A a \in Guest : UnderWay(a)' /\ Schedule!Passes(a, schedule_request[a].to)
            => Schedule!Passes(a, schedule_request[a].to)'
      BY <2>2, <3>1 DEF Schedule!Passes
    <3>5. \A a \in Guest : schedule_request'[a].pc = "claim" => UnderWay(a)'
      BY DEF UnderWay
    <3>6. \A a \in Guest : schedule_request'[a].pc = "claim"
            => Schedule!Passes(a, schedule_request[a].to)' /\ schedule_request'[a] = schedule_request[a]
      BY <1>1, <3>1, <3>4, <3>5 DEF Apart
    <3>7. \A a \in Guest : schedule_request'[a].pc = "claim"
            => (Schedule!Passes(a, schedule_request[a].to))'
      BY <2>1, <3>6 DEF Schedule!Passes
    <3> QED
      BY <1>1, <3>1, <3>3, <3>7 DEF Apart, Schedule!Passes
  <2>5. Schedule!TypeOK'
    BY <2>1, <2>2 DEF Schedule!TypeOK, R
  <2>6. \A k \in Guest : schedule_request'[k].pc = "claim" => schedule_request'[k].to \in Candidate
    BY <1>1, <1>7, <2>1
  <2>7. schedule_overlap' \in BOOLEAN
    BY <1>1, <1>7
  <2> QED
    BY <1>2, <1>7, <2>3, <2>4, <2>5, <2>6, <2>7 DEF ScheduleIInv
<1>8. Schedule!NoRequest \in R /\ Schedule!NoRequest.pc = "none"
  BY DEF Schedule!NoRequest
<1>9. ASSUME NEW g \in Guest, Schedule!NoValidHost(g) PROVE ScheduleIInv'
  <2>1. on' = [on EXCEPT ![g] = on[g]] /\ on[g] \in Candidate \union {Schedule!NoHost}
    BY <1>1, <1>9 DEF Schedule!NoValidHost
  <2>2. /\ schedule_request' = [schedule_request EXCEPT ![g] = Schedule!NoRequest]
        /\ UnderWay(g) /\ UNCHANGED <<schedule_overlap, total, used, idle>>
    BY <1>9 DEF Schedule!NoValidHost, Schedule!Step, Schedule!metrics, UnderWay
  <2> HIDE DEF R
  <2> QED
    BY <1>7, <1>8, <2>1, <2>2
<1>10. ASSUME NEW g \in Guest, Schedule!Delete(g) PROVE ScheduleIInv'
  <2>1. /\ schedule_request' = [schedule_request EXCEPT ![g] = schedule_request[g]]
        /\ schedule_request[g] \in R /\ schedule_request[g].pc = "none"
        /\ UNCHANGED <<schedule_overlap, total, used, idle>>
        /\ on' = [on EXCEPT ![g] = Schedule!NoHost]
    BY <1>1, <1>10 DEF Schedule!Delete, Schedule!metrics
  <2> HIDE DEF R
  <2> QED
    BY <1>7, <2>1
<1>11. ASSUME NEW g \in Guest, Schedule!Claim(g) PROVE ScheduleIInv'
  <2>1. CASE \E k \in Guest \ {g} : on[k] = schedule_request[g].to
    <3> DEFINE r == [pc |-> "filter", group |-> Schedule!GroupHosts, to |-> Schedule!NoHost]
    <3>1. /\ schedule_request' = [schedule_request EXCEPT ![g] = r] /\ r \in R
          /\ UNCHANGED <<on, schedule_overlap, total, used, idle>>
      BY <1>3, <1>11, <2>1 DEF Schedule!Claim, Schedule!Step, Schedule!metrics
    <3>2. /\ schedule_request' \in [Guest -> R]
          /\ \A k \in Guest : schedule_request'[k] = IF k = g THEN r ELSE schedule_request[k]
          /\ r.pc = "filter" /\ r.group = Schedule!GroupHosts
      BY <1>1, <3>1
    <3>3. UnderWay(g)
      BY <1>11 DEF Schedule!Claim, UnderWay
    <3> HIDE DEF r, R
    <3>4. Apart'
      BY <1>1, <3>1, <3>2, <3>3 DEF Apart, UnderWay, Schedule!GroupHosts, Schedule!Passes
    <3>5. Schedule!ZonesApart'
      BY <1>1, <3>1 DEF Schedule!ZonesApart
    <3>6. Schedule!TypeOK'
      BY <1>1, <3>1, <3>2 DEF Schedule!TypeOK, R
    <3>7. \A k \in Guest : schedule_request'[k].pc = "claim" => schedule_request'[k].to \in Candidate
      BY <1>1, <3>2
    <3>8. schedule_overlap' \in BOOLEAN
      BY <1>1, <3>1
    <3> QED
      BY <1>2, <3>1, <3>4, <3>5, <3>6, <3>7, <3>8 DEF ScheduleIInv
  <2>2. CASE ~\E k \in Guest \ {g} : on[k] = schedule_request[g].to
    <3>1. /\ schedule_request' = [schedule_request EXCEPT ![g] = Schedule!NoRequest]
          /\ on' = [on EXCEPT ![g] = schedule_request[g].to]
          /\ schedule_request[g].pc = "claim" /\ schedule_request[g].to \in Candidate
          /\ UnderWay(g) /\ UNCHANGED <<schedule_overlap, total, used, idle>>
      BY <1>1, <1>11, <2>2 DEF Schedule!Claim, Schedule!Step, Schedule!metrics, UnderWay
    <3> HIDE DEF R
    <3> QED
      BY <1>7, <1>8, <3>1
  <2> QED
    BY <2>1, <2>2
<1> QED
  BY <1>4, <1>5, <1>6, <1>9, <1>10, <1>11 DEF Schedule!Next

ScheduleInv == part = "schedule" => ScheduleIInv

\* So the scheduler's invariant holds in every behaviour of the parts.
LEMMA ScheduleInvariant == Spec => []ScheduleInv
<1>1. Init => ScheduleInv
  BY PartStarts, ScheduleStarts DEF ScheduleInv
<1>2. ScheduleInv /\ [Next]_vars => ScheduleInv'
  BY PartSteps, ScheduleStep DEF ScheduleInv
<1> QED
  BY <1>1, <1>2, PTL DEF Spec

\* Members of a group that ask for different zones are in different zones, the
\* busier host is not preferred, and a host is in rotation exactly when the
\* operator wants it and its connection is up.
THEOREM HostsStayInOrder == Spec => []HostsInOrder
<1>1. ScheduleInv /\ StatusInv => HostsInOrder
  BY StatusInOrder DEF ScheduleInv, StatusInv, ScheduleIInv, HostsInOrder
<1> QED
  BY <1>1, ScheduleInvariant, StatusInvariant, PTL

-----------------------------------------------------------------------------
(***************************************************************************)
(* A volume of LightOS.  Both lists are the same, and what a worker has    *)
(* read is what it will replace if the tag is still the one it read.       *)
(* Attachments are only under way while the volume is there: its life ends *)
(* when nobody is attached.                                                *)
(***************************************************************************)
Making == {"snap", "look", "post", "wait", "ready", "raise"}
Erasing == {"find", "erase"}
Measuring == {"measure", "extend"}
Connecting ==
  {"idle", "add", "put", "settleIn", "remove", "take", "overwrite", "clear", "settleOut"}
LightosSteps == Making \union Erasing \union Measuring \union Connecting
LightosRead == [acl : SUBSET Host, ip : SUBSET Host, etag : Nat]
Usable == {"available", "in-use"}

LightosTyped ==
  /\ Lightos!TypeOK
  /\ lightos_pc \in [Lightos!Worker -> LightosSteps]
  /\ lightos_pc["life"] \in Making \union Erasing \union Measuring \union {"idle"}
  /\ \A a \in Attachment : lightos_pc[a] \in Connecting
  /\ lightos_faults \in Nat

\* What the life's call is for, and the status that Cinder shows meanwhile.
LifeMatches ==
  /\ Lightos!Life("idle") => mode = "none"
  /\ lightos_pc["life"] \in Making => mode \in {"create", "clone"} /\ cinder \in {"new", "error"}
  /\ Lightos!Life("snap") => mode = "clone"
  /\ Lightos!Life("ready") => state = "Available"
  /\ lightos_pc["life"] \in Erasing =>
       mode = "delete" /\ cinder \in {"available", "error", "error_deleting"}
  /\ lightos_pc["life"] \in Measuring => mode = "extend" /\ cinder \in Usable

CinderMatches ==
  /\ cinder \in Usable => state \in {"Available", "Updating"}
  /\ cinder \notin Usable \/ mode = "delete" => lightos_attached = {} /\ Lightos!Calm

TagsMatch ==
  /\ acl = ipAcl
  /\ \A a \in lightos_attached : lightos_pc[a] = "idle"
  /\ \A a \in Attachment : lightos_pc[a] \in {"put", "take", "clear"} =>
       /\ read[a].etag <= etag
       /\ read[a].etag = etag => read[a].acl = acl /\ read[a].ip = acl

\* Who is in the list is attached, or comes or goes.
SomebodyElse ==
  lightos_faults = 0 =>
    \A h \in acl : \E a \in Attachment :
      /\ HostOf[a] = h
      /\ \/ a \in lightos_attached
         \/ lightos_pc[a] \in {"settleIn", "remove", "take", "overwrite", "clear"}

AccessIInv ==
  /\ TagsMatch /\ SomebodyElse /\ Lightos!AttachedHasAccess

LightosIInv ==
  /\ LightosTyped /\ LifeMatches /\ CinderMatches /\ AccessIInv
  /\ Lightos!DeletedIsGone /\ Lightos!ExtendedIsLarger /\ Lightos!NoInterim

\* The volume starts inside its invariant.
LEMMA LightosStarts == Lightos!Init => LightosIInv
<1> SUFFICES ASSUME Lightos!Init PROVE LightosIInv
  OBVIOUS
<1>1. /\ lightos_pc = [w \in Lightos!Worker |-> "idle"]
      /\ read = [w \in Lightos!Worker |-> Lightos!Nobody]
      /\ "life" \in Lightos!Worker /\ Attachment \subseteq Lightos!Worker
  BY DEF Lightos!Init, Lightos!Worker
<1>2. /\ \A w \in Lightos!Worker : lightos_pc[w] = "idle"
      /\ Lightos!Nobody \in LightosRead
  BY <1>1 DEF Lightos!Nobody, LightosRead
<1>3. Lightos!TypeOK
  BY <1>1, <1>2 DEF Lightos!Init, Lightos!TypeOK, LightosRead
<1>4. LightosTyped
  BY <1>1, <1>2, <1>3 DEF Lightos!Init, LightosTyped, LightosSteps, Connecting
<1>5. LifeMatches /\ CinderMatches
  BY <1>1, <1>2 DEF Lightos!Init, Lightos!Life, Lightos!At, LifeMatches, CinderMatches, Usable, Making,
    Erasing, Measuring, Lightos!Calm
<1>6. AccessIInv
  BY <1>1, <1>2 DEF Lightos!Init, AccessIInv, TagsMatch, SomebodyElse, Lightos!AttachedHasAccess
<1> QED
  BY <1>4, <1>5, <1>6 DEF Lightos!Init, LightosIInv, Lightos!DeletedIsGone,
    Lightos!ExtendedIsLarger, Lightos!NoInterim

\* What leaves the lists and the attachments alone keeps access.
LEMMA AccessUndisturbed ==
  ASSUME AccessIInv, LightosTyped, UNCHANGED <<acl, ipAcl, lightos_attached>>, etag' \in {etag, etag + 1},
         \A a \in Attachment : lightos_pc'[a] = lightos_pc[a] /\ read'[a] = read[a],
         lightos_faults' \in {lightos_faults, lightos_faults + 1}, lightos_silent \subseteq lightos_silent'
  PROVE  AccessIInv'
<1>1. lightos_attached \subseteq Attachment /\ lightos_faults \in Nat
  BY DEF LightosTyped, Lightos!TypeOK
<1>2. lightos_faults' = 0 => lightos_faults = 0
  BY <1>1
<1>3. TagsMatch'
  <2>1. \A a \in Attachment : read[a].etag \in Nat /\ etag \in Nat
    BY DEF LightosTyped, Lightos!TypeOK, Lightos!Worker
  <2> QED
    BY <1>1, <2>1 DEF AccessIInv, TagsMatch
<1>4. SomebodyElse'
  BY <1>1, <1>2 DEF AccessIInv, SomebodyElse
<1>5. Lightos!AttachedHasAccess'
  BY <1>1 DEF AccessIInv, Lightos!AttachedHasAccess, Lightos!Sole
<1> QED
  BY <1>3, <1>4, <1>5 DEF AccessIInv

\* The life goes one step further.
LEMMA LifeMoves ==
  ASSUME LightosIInv, NEW p \in Making \union Erasing \union Measuring \union {"idle"},
         lightos_pc' = [lightos_pc EXCEPT !["life"] = p],
         UNCHANGED <<acl, ipAcl, lightos_attached>>, etag' \in {etag, etag + 1},
         read' \in [Lightos!Worker -> LightosRead],
         \A a \in Attachment : read'[a] = read[a],
         lightos_faults' \in {lightos_faults, lightos_faults + 1},
         lightos_silent \subseteq lightos_silent',
         lightos_silent' \subseteq {"find", "extend", "forced", "interim"},
         state' \in {"absent", "Creating", "Available", "Updating", "Failed", "Deleting"},
         lightos_size' \in {1, 2}, sold' \in {1, 2}, interim' \in {"absent", "Available"},
         cinder' \in {"new", "error", "available", "in-use", "deleted", "error_deleting"}
  PROVE  /\ LightosTyped' /\ AccessIInv'
         /\ lightos_pc'["life"] = p
         /\ lightos_attached' = {} /\ Lightos!Calm' <=> lightos_attached = {} /\ Lightos!Calm
<1>0. "life" \notin Attachment /\ "life" \in Lightos!Worker /\ Attachment \subseteq Lightos!Worker
  BY LightosAssumption DEF Lightos!LightosVolumeAssumption, Lightos!Worker
<1>1. LightosTyped /\ AccessIInv /\ Lightos!TypeOK
  BY DEF LightosIInv, LightosTyped
<1>2. /\ lightos_pc' \in [Lightos!Worker -> LightosSteps]
      /\ lightos_pc'["life"] = p
      /\ \A a \in Attachment : lightos_pc'[a] = lightos_pc[a]
  BY <1>0, <1>1 DEF LightosTyped, LightosSteps, Connecting
<1>3. Lightos!TypeOK'
  BY <1>1, <1>2 DEF Lightos!TypeOK, LightosRead
<1>4. lightos_faults' \in Nat
  BY <1>1 DEF LightosTyped
<1>5. LightosTyped'
  BY <1>1, <1>2, <1>3, <1>4 DEF LightosTyped
<1>6. AccessIInv'
  BY <1>1, <1>2, AccessUndisturbed
<1>7. Lightos!Calm' <=> Lightos!Calm
  BY <1>2 DEF Lightos!Calm, Lightos!At
<1> QED
  BY <1>2, <1>5, <1>6, <1>7

\* The steps of the volume's life keep the invariant.
LEMMA LightosLife == LightosIInv /\ Lightos!LifeStep => LightosIInv'
<1> SUFFICES ASSUME LightosIInv, Lightos!LifeStep PROVE LightosIInv'
  OBVIOUS
<1> DEFINE Statuses == {"new", "error", "available", "in-use", "deleted", "error_deleting"}
           Results == {"find", "extend", "forced", "interim"}
<1>1. /\ state \in {"absent", "Creating", "Available", "Updating", "Failed", "Deleting"}
      /\ lightos_size \in {1, 2} /\ sold \in {1, 2} /\ interim \in {"absent", "Available"}
      /\ cinder \in Statuses /\ lightos_silent \subseteq Results
      /\ read \in [Lightos!Worker -> LightosRead] /\ etag \in Nat
      /\ lightos_pc \in [Lightos!Worker -> LightosSteps]
      /\ lightos_attached \subseteq Attachment
      /\ lightos_faults \in Nat
  BY DEF LightosIInv, LightosTyped, Lightos!TypeOK, LightosRead
<1>2. "life" \notin Attachment /\ "life" \in Lightos!Worker
  BY LightosAssumption DEF Lightos!LightosVolumeAssumption, Lightos!Worker
\* The parts that a step of the life can disturb.
<1> DEFINE Rest(p) ==
      /\ p \in Making \union Erasing \union Measuring \union {"idle"}
      /\ lightos_pc' = [lightos_pc EXCEPT !["life"] = p]
      /\ UNCHANGED <<acl, ipAcl, lightos_attached>>
      /\ lightos_faults' \in {lightos_faults, lightos_faults + 1}
      /\ lightos_silent \subseteq lightos_silent' /\ lightos_silent' \subseteq Results
      /\ state' \in {"absent", "Creating", "Available", "Updating", "Failed", "Deleting"}
      /\ lightos_size' \in {1, 2} /\ sold' \in {1, 2} /\ interim' \in {"absent", "Available"}
      /\ cinder' \in Statuses
<1> USE DEF Lightos!Goto, Lightos!Quiet, Lightos!Fine, Lightos!Fault, Lightos!Return, Lightos!cluster,
      Lightos!Life, Lightos!At
<1>3. ASSUME Lightos!Ask PROVE LightosIInv'
  <2>1. PICK m \in {"create", "clone", "delete", "extend"}, p \in {"look", "snap", "find", "measure"} :
          /\ Rest(p) /\ mode' = m /\ Lightos!Life("idle")
          /\ UNCHANGED <<state, lightos_size, etag, interim, cinder, sold, read, lightos_silent>>
          /\ \/ cinder \in {"new", "error"} /\ <<m, p>> \in {<<"create", "look">>, <<"clone", "snap">>}
             \/ /\ cinder \in {"available", "error", "error_deleting"} /\ <<m, p>> = <<"delete", "find">>
                /\ lightos_attached = {} /\ Lightos!Calm
             \/ cinder \in Usable /\ <<m, p>> = <<"extend", "measure">>
    <3>1. UNCHANGED <<acl, ipAcl, lightos_attached, state, lightos_size, etag, interim, cinder, sold,
                      read, lightos_silent, lightos_faults>>
      BY <1>3 DEF Lightos!Ask
    <3>2. PICK m \in {"create", "clone", "delete", "extend"}, p \in {"look", "snap", "find", "measure"} :
            /\ Lightos!Begin(m, p)
            /\ \/ cinder \in {"new", "error"} /\ <<m, p>> \in {<<"create", "look">>, <<"clone", "snap">>}
               \/ /\ cinder \in {"available", "error", "error_deleting"} /\ <<m, p>> = <<"delete", "find">>
                  /\ lightos_attached = {} /\ Lightos!Calm
               \/ cinder \in Usable /\ <<m, p>> = <<"extend", "measure">>
      BY <1>3 DEF Lightos!Ask, Usable
    <3>3. p \in Making \union Erasing \union Measuring
      BY DEF Making, Erasing, Measuring
    <3>4. mode' = m /\ Lightos!Life("idle") /\ lightos_pc' = [lightos_pc EXCEPT !["life"] = p]
      BY <3>2 DEF Lightos!Begin
    <3>5. Rest(p)
      BY <1>1, <3>1, <3>3, <3>4
    <3> HIDE DEF Rest
    <3> QED
      BY <3>1, <3>2, <3>4, <3>5
  <2>2. /\ LightosTyped' /\ AccessIInv' /\ lightos_pc'["life"] = p
        /\ lightos_attached' = {} /\ Lightos!Calm' <=> lightos_attached = {} /\ Lightos!Calm
    BY <1>1, <2>1, LifeMoves
  <2>3. LifeMatches' /\ CinderMatches'
    BY <2>1, <2>2 DEF LightosIInv, LifeMatches, CinderMatches, Making, Erasing, Measuring, Usable
  <2> QED
    BY <2>1, <2>2, <2>3 DEF LightosIInv, LifeMatches, Lightos!DeletedIsGone, Lightos!ExtendedIsLarger,
      Lightos!NoInterim, Lightos!Gone
<1>4. ASSUME Lightos!Available PROVE LightosIInv'
  <2>1. LightosTyped'
    BY <1>4 DEF Lightos!Available, LightosIInv, LightosTyped, Lightos!TypeOK
  <2>2. AccessIInv'
    BY <1>4, AccessUndisturbed DEF Lightos!Available, LightosIInv
  <2> QED
    BY <1>4, <2>1, <2>2 DEF Lightos!Available, LightosIInv, LifeMatches, CinderMatches, Lightos!Calm,
      Making, Erasing, Measuring, Usable, Lightos!DeletedIsGone, Lightos!ExtendedIsLarger,
      Lightos!NoInterim
<1>5. ASSUME Lightos!CreateSnapshot PROVE LightosIInv'
  <2>1. PICK p \in {"look", "idle"} :
          /\ Rest(p) /\ lightos_pc["life"] = "snap"
          /\ UNCHANGED <<state, lightos_size, etag, sold, read>>
          /\ \/ p = "look" /\ UNCHANGED <<cinder, mode>>
             \/ p = "idle" /\ cinder' = "error" /\ mode' = "none" /\ "interim" \in lightos_silent'
    <3>1. UNCHANGED <<acl, ipAcl, lightos_attached, state, lightos_size, etag, sold, read>>
      BY <1>5 DEF Lightos!CreateSnapshot
    <3>2. lightos_pc["life"] = "snap" /\ interim' \in {"absent", "Available"}
      BY <1>1, <1>5 DEF Lightos!CreateSnapshot, Lightos!SnapshotDeleted
    <3>3. PICK p \in {"look", "idle"} :
            /\ lightos_pc' = [lightos_pc EXCEPT !["life"] = p]
            /\ lightos_faults' \in {lightos_faults, lightos_faults + 1}
            /\ \/ p = "look" /\ UNCHANGED <<cinder, mode, lightos_silent>>
               \/ /\ p = "idle" /\ cinder' = "error" /\ mode' = "none"
                  /\ lightos_silent' = lightos_silent \union {"interim"}
      BY <1>5 DEF Lightos!CreateSnapshot
    <3>4. p \in Making \union {"idle"}
      BY DEF Making
    <3>5. Rest(p)
      BY <1>1, <3>1, <3>2, <3>3, <3>4
    <3> HIDE DEF Rest
    <3> QED
      BY <3>1, <3>2, <3>3, <3>5
  <2>2. /\ LightosTyped' /\ AccessIInv' /\ lightos_pc'["life"] = p
        /\ lightos_attached' = {} /\ Lightos!Calm' <=> lightos_attached = {} /\ Lightos!Calm
    BY <1>1, <2>1, LifeMoves
  <2>3. LifeMatches' /\ CinderMatches'
    BY <2>1, <2>2 DEF LightosIInv, LifeMatches, CinderMatches, Making, Erasing, Measuring, Usable
  <2>4. mode = "clone" /\ cinder \in {"new", "error"}
    BY <2>1 DEF LightosIInv, LifeMatches, Making
  <2> QED
    BY <2>1, <2>2, <2>3, <2>4 DEF LightosIInv, Lightos!DeletedIsGone, Lightos!ExtendedIsLarger,
      Lightos!NoInterim, Lightos!Gone
<1>6. ASSUME Lightos!LookForVolume PROVE LightosIInv'
  <2>1. PICK p \in {"post", "wait", "raise"} :
          /\ Rest(p) /\ lightos_pc["life"] = "look"
          /\ UNCHANGED <<state, lightos_size, etag, sold, read, interim, cinder, mode, lightos_silent>>
    BY <1>1, <1>6 DEF Lightos!LookForVolume, Making, Erasing, Measuring
  <2>2. /\ LightosTyped' /\ AccessIInv' /\ lightos_pc'["life"] = p
        /\ lightos_attached' = {} /\ Lightos!Calm' <=> lightos_attached = {} /\ Lightos!Calm
    BY <1>1, <2>1, LifeMoves
  <2>3. LifeMatches' /\ CinderMatches'
    BY <2>1, <2>2 DEF LightosIInv, LifeMatches, CinderMatches, Making, Erasing, Measuring, Usable
  <2> QED
    BY <2>1, <2>2, <2>3 DEF LightosIInv, Lightos!DeletedIsGone, Lightos!ExtendedIsLarger,
      Lightos!NoInterim, Lightos!Gone
<1>7. ASSUME Lightos!CreateNewLightosVolume \/ Lightos!WaitForVolumeAvailable PROVE LightosIInv'
  <2>1. PICK p \in {"wait", "ready", "raise"} :
          /\ Rest(p) /\ lightos_pc["life"] \in {"post", "wait"} /\ (p = "ready" => state' = "Available")
          /\ UNCHANGED <<lightos_size, etag, sold, read, interim, cinder, mode, lightos_silent>>
    <3>1. UNCHANGED <<acl, ipAcl, lightos_attached, lightos_size, etag, sold, read, interim, cinder,
                      mode, lightos_silent>>
      BY <1>7 DEF Lightos!CreateNewLightosVolume, Lightos!WaitForVolumeAvailable
    <3>2. lightos_pc["life"] \in {"post", "wait"} /\ state' \in {state, "Creating", "Deleting"}
      BY <1>7 DEF Lightos!CreateNewLightosVolume, Lightos!WaitForVolumeAvailable
    <3>3. PICK p \in {"wait", "ready", "raise"} :
            /\ lightos_pc' = [lightos_pc EXCEPT !["life"] = p]
            /\ lightos_faults' \in {lightos_faults, lightos_faults + 1}
            /\ p = "ready" => state' = "Available"
      BY <1>7 DEF Lightos!CreateNewLightosVolume, Lightos!WaitForVolumeAvailable
    <3>4. p \in Making
      BY DEF Making
    <3>5. Rest(p)
      BY <1>1, <3>1, <3>2, <3>3, <3>4
    <3> HIDE DEF Rest
    <3> QED
      BY <3>1, <3>2, <3>3, <3>5
  <2>2. /\ LightosTyped' /\ AccessIInv' /\ lightos_pc'["life"] = p
        /\ lightos_attached' = {} /\ Lightos!Calm' <=> lightos_attached = {} /\ Lightos!Calm
    BY <1>1, <2>1, LifeMoves
  <2>3. mode \in {"create", "clone"} /\ cinder \in {"new", "error"}
    BY <2>1 DEF LightosIInv, LifeMatches, Making
  <2>4. LifeMatches' /\ CinderMatches'
    BY <2>1, <2>2, <2>3 DEF LightosIInv, LifeMatches, CinderMatches, Making, Erasing, Measuring, Usable
  <2> QED
    BY <2>1, <2>2, <2>3, <2>4 DEF LightosIInv, Lightos!DeletedIsGone, Lightos!ExtendedIsLarger,
      Lightos!NoInterim, Lightos!Gone
<1>8. ASSUME Lightos!CreateEnds PROVE LightosIInv'
  <2>1. /\ Rest("idle") /\ lightos_pc["life"] \in {"ready", "raise"} /\ mode' = "none"
        /\ cinder' \in {"available", "error"}
        /\ cinder' = "available" => lightos_pc["life"] = "ready"
        /\ UNCHANGED <<state, lightos_size, etag, sold, read>>
        /\ \/ mode = "clone" /\ (interim' = "absent" \/ "interim" \in lightos_silent')
           \/ mode # "clone" /\ UNCHANGED interim
    <3>1. CASE mode = "clone" /\ Lightos!Finally
      BY <1>1, <1>8, <3>1 DEF Lightos!CreateEnds, Lightos!Finally, Lightos!DeleteLightosSnapshot,
        Lightos!SnapshotDeleted
    <3>2. CASE ~(mode = "clone" /\ Lightos!Finally)
      BY <1>1, <1>8, <3>2 DEF Lightos!CreateEnds, Lightos!Finally
    <3> QED
      BY <3>1, <3>2
  <2>2. /\ LightosTyped' /\ AccessIInv' /\ lightos_pc'["life"] = "idle"
        /\ lightos_attached' = {} /\ Lightos!Calm' <=> lightos_attached = {} /\ Lightos!Calm
    BY <1>1, <2>1, LifeMoves
  <2>3. /\ mode \in {"create", "clone"} /\ cinder \in {"new", "error"}
        /\ lightos_pc["life"] = "ready" => state = "Available"
    BY <2>1 DEF LightosIInv, LifeMatches, Making
  <2>4. LifeMatches' /\ CinderMatches'
    BY <2>1, <2>2, <2>3 DEF LightosIInv, LifeMatches, CinderMatches, Making, Erasing, Measuring, Usable
  <2> QED
    BY <2>1, <2>2, <2>3, <2>4 DEF LightosIInv, Lightos!DeletedIsGone, Lightos!ExtendedIsLarger,
      Lightos!NoInterim, Lightos!Gone
<1>9. ASSUME Lightos!GetLightosUuid \/ Lightos!DeleteLightosVolume PROVE LightosIInv'
  <2>1. PICK p \in {"erase", "idle"} :
          /\ Rest(p) /\ lightos_pc["life"] \in {"find", "erase"}
          /\ UNCHANGED <<lightos_size, etag, sold, read, interim>>
          /\ \/ p = "erase" /\ UNCHANGED <<cinder, mode, state>>
             \/ /\ p = "idle" /\ cinder' \in {"deleted", "error_deleting"} /\ mode' = "none"
                /\ cinder' = "deleted" => state' \in {"absent", "Deleting"} \/ "find" \in lightos_silent'
    <3>1. CASE Lightos!GetLightosUuid
      BY <1>1, <3>1 DEF Lightos!GetLightosUuid, Making, Erasing, Measuring
    <3>2. CASE Lightos!DeleteLightosVolume
      BY <1>1, <3>2 DEF Lightos!DeleteLightosVolume, Lightos!Refusal, Making, Erasing, Measuring
    <3> QED
      BY <1>9, <3>1, <3>2
  <2>2. /\ LightosTyped' /\ AccessIInv' /\ lightos_pc'["life"] = p
        /\ lightos_attached' = {} /\ Lightos!Calm' <=> lightos_attached = {} /\ Lightos!Calm
    BY <1>1, <2>1, LifeMoves
  <2>3. mode = "delete" /\ lightos_attached = {} /\ Lightos!Calm /\ cinder # "deleted"
    BY <2>1 DEF LightosIInv, LifeMatches, CinderMatches, Erasing
  <2>4. LifeMatches' /\ CinderMatches'
    BY <2>1, <2>2, <2>3 DEF LightosIInv, LifeMatches, CinderMatches, Making, Erasing, Measuring, Usable
  <2> QED
    BY <2>1, <2>2, <2>3, <2>4 DEF LightosIInv, Lightos!DeletedIsGone, Lightos!ExtendedIsLarger,
      Lightos!NoInterim, Lightos!Gone
\* The life reads as a worker.
<1>10. \A r \in LightosRead :
         /\ [read EXCEPT !["life"] = r] \in [Lightos!Worker -> LightosRead]
         /\ \A a \in Attachment : [read EXCEPT !["life"] = r][a] = read[a]
  BY <1>1, <1>2
<1>11. ASSUME Lightos!ReadForExtend PROVE LightosIInv'
  <2>1. PICK p \in {"extend", "idle"} :
          /\ Rest(p) /\ lightos_pc["life"] = "measure"
          /\ UNCHANGED <<state, lightos_size, etag, sold, interim, cinder, lightos_silent>>
          /\ \/ p = "extend" /\ UNCHANGED mode
             \/ p = "idle" /\ mode' = "none"
    BY <1>1, <1>11 DEF Lightos!ReadForExtend, Making, Erasing, Measuring
  <2>2. /\ read' \in [Lightos!Worker -> LightosRead]
        /\ \A a \in Attachment : read'[a] = read[a]
    <3>1. read["life"] \in LightosRead
      BY <1>1, <1>2
    <3>2. [read["life"] EXCEPT !.etag = etag] \in LightosRead
      BY <1>1, <3>1 DEF LightosRead
    <3>3. read' = read \/ read' = [read EXCEPT !["life"] = [read["life"] EXCEPT !.etag = etag]]
      BY <1>11 DEF Lightos!ReadForExtend
    <3> QED
      BY <1>1, <1>10, <3>2, <3>3
  <2>3. /\ LightosTyped' /\ AccessIInv' /\ lightos_pc'["life"] = p
        /\ lightos_attached' = {} /\ Lightos!Calm' <=> lightos_attached = {} /\ Lightos!Calm
    BY <1>1, <2>1, <2>2, LifeMoves
  <2>4. mode = "extend" /\ cinder \in Usable
    BY <2>1 DEF LightosIInv, LifeMatches, Measuring
  <2>5. LifeMatches' /\ CinderMatches'
    BY <2>1, <2>3, <2>4 DEF LightosIInv, LifeMatches, CinderMatches, Making, Erasing, Measuring, Usable
  <2> QED
    BY <2>1, <2>3, <2>4, <2>5 DEF LightosIInv, Lightos!DeletedIsGone, Lightos!ExtendedIsLarger,
      Lightos!NoInterim, Lightos!Gone
<1>12. ASSUME Lightos!ExtendVolume PROVE LightosIInv'
  <2>1. PICK p \in {"measure", "idle"} :
          /\ Rest(p) /\ lightos_pc["life"] = "extend" /\ etag' \in {etag, etag + 1}
          /\ state' \in {state, "Updating"} /\ UNCHANGED <<interim, cinder>>
          /\ sold' <= lightos_size' \/ "extend" \in lightos_silent' \/ UNCHANGED <<lightos_size, sold>>
          /\ \/ p = "measure" /\ UNCHANGED mode
             \/ p = "idle" /\ mode' = "none"
    <3>1. /\ lightos_pc["life"] = "extend" /\ UNCHANGED <<interim, lightos_attached>>
          /\ {"measure", "idle"} \subseteq Making \union Erasing \union Measuring \union {"idle"}
      BY <1>12 DEF Lightos!ExtendVolume, Measuring
    <3>2. CASE /\ Lightos!Fine /\ lightos_size' = 2 /\ etag' = etag + 1 /\ state' = "Updating"
               /\ UNCHANGED <<acl, ipAcl>> /\ sold' = 2 /\ Lightos!Return(cinder)
               /\ UNCHANGED lightos_silent
      <4>1. Rest("idle")
        BY <1>1, <3>1, <3>2
      <4>2. /\ sold' <= lightos_size' /\ UNCHANGED <<interim, cinder>> /\ mode' = "none"
            /\ etag' \in {etag, etag + 1} /\ state' \in {state, "Updating"}
        BY <3>1, <3>2
      <4> HIDE DEF Rest
      <4> QED
        BY <3>1, <4>1, <4>2
    <3>3. CASE /\ Lightos!Fine /\ Lightos!Goto("life", "measure") /\ sold' = sold
               /\ UNCHANGED <<Lightos!cluster, cinder, mode, lightos_silent>>
      <4>1. Rest("measure")
        BY <1>1, <3>1, <3>3
      <4> QED
        BY <3>1, <3>3, <4>1
    <3>4. CASE /\ Lightos!Fault /\ Lightos!Return(cinder) /\ sold' = 2
               /\ lightos_silent' = lightos_silent \union {"extend"} /\ UNCHANGED Lightos!cluster
      <4>1. Rest("idle")
        BY <1>1, <3>1, <3>4
      <4> QED
        BY <3>1, <3>4, <4>1
    <3> QED
      BY <1>12, <3>2, <3>3, <3>4 DEF Lightos!ExtendVolume, Lightos!Retried
  <2>2. /\ read' \in [Lightos!Worker -> LightosRead]
        /\ \A a \in Attachment : read'[a] = read[a]
    <3>1. Lightos!Nobody \in LightosRead
      BY DEF Lightos!Nobody, LightosRead
    <3>2. read' = [read EXCEPT !["life"] = Lightos!Nobody]
      BY <1>12 DEF Lightos!ExtendVolume
    <3> QED
      BY <1>10, <3>1, <3>2
  <2>3. /\ LightosTyped' /\ AccessIInv' /\ lightos_pc'["life"] = p
        /\ lightos_attached' = {} /\ Lightos!Calm' <=> lightos_attached = {} /\ Lightos!Calm
    BY <1>1, <2>1, <2>2, LifeMoves
  <2>4. mode = "extend" /\ cinder \in Usable
    BY <2>1 DEF LightosIInv, LifeMatches, Measuring
  <2>5. LifeMatches' /\ CinderMatches'
    BY <2>1, <2>3, <2>4 DEF LightosIInv, LifeMatches, CinderMatches, Making, Erasing, Measuring, Usable
  <2>6. Lightos!ExtendedIsLarger'
    BY <2>1 DEF LightosIInv, Lightos!ExtendedIsLarger
  <2>7. Lightos!DeletedIsGone' /\ Lightos!NoInterim'
    BY <2>1, <2>4 DEF LightosIInv, Lightos!DeletedIsGone, Lightos!NoInterim, Usable
  <2> QED
    BY <2>3, <2>5, <2>6, <2>7 DEF LightosIInv
<1> QED
  BY <1>3, <1>4, <1>5, <1>6, <1>7, <1>8, <1>9, <1>11, <1>12 DEF Lightos!LifeStep

\* The volume settles: the lists are empty only when it has gone.
LEMMA LightosSettles == LightosIInv /\ Lightos!Settle => LightosIInv'
<1> SUFFICES ASSUME LightosIInv, Lightos!Settle PROVE LightosIInv'
  OBVIOUS
<1>1. LightosTyped /\ Lightos!TypeOK /\ AccessIInv /\ LifeMatches /\ CinderMatches
  BY DEF LightosIInv, LightosTyped
<1>2. /\ UNCHANGED <<lightos_size, etag, interim, cinder, sold, lightos_pc, read, lightos_attached, mode,
           lightos_silent>>
      /\ lightos_faults' \in {lightos_faults, lightos_faults + 1}
      /\ state' = "absent" => state = "Deleting"
      /\ state = "Updating" => state' = "Available"
      /\ state \in {"Creating", "Updating", "Deleting"}
      /\ state' \in {"Available", "Failed", "absent"} /\ (state = "Deleting" => state' = "absent")
      /\ acl' = IF state' = "absent" THEN {} ELSE acl
      /\ ipAcl' = IF state' = "absent" THEN {} ELSE ipAcl
  BY DEF Lightos!Settle, Lightos!Fine, Lightos!Fault
<1>3. LightosTyped'
  BY <1>1, <1>2 DEF LightosTyped, Lightos!TypeOK
<1>4. LifeMatches' /\ CinderMatches'
  BY <1>1, <1>2 DEF LifeMatches, CinderMatches, Lightos!Life, Lightos!At, Lightos!Calm, Usable
<1>5. AccessIInv'
  <2>1. CASE state' = "absent"
    <3>1. lightos_attached = {} /\ Lightos!Calm
      BY <1>1, <1>2, <2>1 DEF CinderMatches
    <3> QED
      BY <1>2, <2>1, <3>1 DEF AccessIInv, TagsMatch, SomebodyElse, Lightos!AttachedHasAccess,
        Lightos!Calm, Lightos!At
  <2>2. CASE state' # "absent"
    BY <1>1, <1>2, <2>2, AccessUndisturbed
  <2> QED
    BY <2>1, <2>2
<1>6. Lightos!DeletedIsGone' /\ Lightos!ExtendedIsLarger' /\ Lightos!NoInterim'
  BY <1>2 DEF LightosIInv, Lightos!DeletedIsGone, Lightos!ExtendedIsLarger, Lightos!NoInterim,
    Lightos!Gone
<1> QED
  BY <1>3, <1>4, <1>5, <1>6 DEF LightosIInv

\* An attachment goes one step further.  What concerns the life is not disturbed
\* as long as the volume stays there.
LEMMA AttachmentMoves ==
  ASSUME LightosIInv, NEW a \in Attachment, NEW p \in Connecting,
         lightos_pc' = [lightos_pc EXCEPT ![a] = p],
         UNCHANGED <<lightos_size, interim, sold, mode>>,
         cinder \in Usable, cinder' \in Usable, mode # "delete",
         state' \in {state, "Updating"},
         acl' \subseteq Host, ipAcl' \subseteq Host, etag' \in {etag, etag + 1},
         \E r \in LightosRead : read' = [read EXCEPT ![a] = r],
         lightos_attached' \subseteq Attachment,
         lightos_faults' \in {lightos_faults, lightos_faults + 1},
         lightos_silent' \in {lightos_silent, lightos_silent \union {"forced"}},
         AccessIInv'
  PROVE  LightosIInv'
<1>1. /\ "life" \notin Attachment /\ a # "life" /\ {"life", a} \subseteq Lightos!Worker
      /\ Attachment \subseteq Lightos!Worker
  BY LightosAssumption DEF Lightos!LightosVolumeAssumption, Lightos!Worker
<1>2. LightosTyped /\ Lightos!TypeOK /\ LifeMatches /\ CinderMatches
  BY DEF LightosIInv, LightosTyped
<1>3. /\ lightos_pc' \in [Lightos!Worker -> LightosSteps]
      /\ lightos_pc'["life"] = lightos_pc["life"]
      /\ lightos_pc'[a] = p
      /\ \A b \in Attachment \ {a} : lightos_pc'[b] = lightos_pc[b]
  BY <1>1, <1>2 DEF LightosTyped, LightosSteps
<1>4. read' \in [Lightos!Worker -> LightosRead]
  BY <1>1, <1>2 DEF Lightos!TypeOK, LightosRead
<1>5. LightosTyped'
  <2>1. etag' \in Nat /\ lightos_faults' \in Nat
    BY <1>2 DEF LightosTyped, Lightos!TypeOK
  <2>2. Lightos!TypeOK'
    BY <1>2, <1>3, <1>4, <2>1 DEF Lightos!TypeOK, LightosRead, Usable
  <2>3. \A b \in Attachment : lightos_pc'[b] \in Connecting
    BY <1>2, <1>3 DEF LightosTyped
  <2> QED
    BY <1>2, <1>3, <2>1, <2>2, <2>3 DEF LightosTyped
<1>6. LifeMatches'
  BY <1>2, <1>3 DEF LifeMatches, Lightos!Life, Lightos!At, Usable, Making, Erasing
<1>7. CinderMatches'
  BY <1>2 DEF CinderMatches, Usable
<1>8. Lightos!DeletedIsGone' /\ Lightos!ExtendedIsLarger' /\ Lightos!NoInterim'
  BY DEF LightosIInv, Lightos!DeletedIsGone, Lightos!ExtendedIsLarger, Lightos!NoInterim, Usable
<1> QED
  BY <1>5, <1>6, <1>7, <1>8 DEF LightosIInv

\* The steps of an attachment keep the invariant.
LEMMA LightosAttaches ==
  ASSUME LightosIInv, NEW a \in Attachment, Lightos!AttachmentStep(a)
  PROVE  LightosIInv'
<1>1. /\ LightosTyped /\ Lightos!TypeOK /\ AccessIInv /\ LifeMatches /\ CinderMatches
      /\ lightos_attached \subseteq Attachment /\ lightos_faults \in Nat /\ etag \in Nat
      /\ acl \subseteq Host /\ ipAcl \subseteq Host /\ acl = ipAcl
  BY DEF LightosIInv, LightosTyped, AccessIInv, TagsMatch, Lightos!TypeOK
<1>2. /\ a # "life" /\ {"life", a} \subseteq Lightos!Worker /\ Attachment \subseteq Lightos!Worker
      /\ HostOf \in [Attachment -> Host]
  BY LightosAssumption DEF Lightos!LightosVolumeAssumption, Lightos!Worker
<1>3. read[a] \in LightosRead /\ lightos_pc[a] \in Connecting
  BY <1>1, <1>2 DEF Lightos!TypeOK, LightosTyped, LightosRead
<1>4. \A p \in Connecting : lightos_pc' = [lightos_pc EXCEPT ![a] = p] =>
        \A b \in Attachment : lightos_pc'[b] = IF b = a THEN p ELSE lightos_pc[b]
  BY <1>1, <1>2 DEF LightosTyped
<1>5. \A r \in LightosRead : read' = [read EXCEPT ![a] = r] =>
        \A b \in Attachment : read'[b] = IF b = a THEN r ELSE read[b]
  BY <1>1, <1>2 DEF Lightos!TypeOK
<1>6. \A b \in Attachment : read[b].etag \in Nat
  BY <1>1, <1>2 DEF Lightos!TypeOK
<1>7. lightos_pc[a] # "idle" \/ a \in lightos_attached => cinder \in Usable /\ mode # "delete"
  BY <1>1 DEF CinderMatches, Lightos!Calm, Lightos!At
<1>8. read' = read => read' = [read EXCEPT ![a] = read[a]]
  BY <1>1, <1>2 DEF Lightos!TypeOK
<1> USE DEF Lightos!Goto, Lightos!Fine, Lightos!Fault, Lightos!cluster, Lightos!At
<1>11. ASSUME Lightos!InitializeConnection(a) PROVE LightosIInv'
  <2>1. /\ lightos_pc' = [lightos_pc EXCEPT ![a] = "add"] /\ "add" \in Connecting
        /\ lightos_pc[a] = "idle" /\ cinder \in Usable /\ cinder' \in Usable
        /\ a \notin lightos_attached /\ mode # "delete"
        /\ UNCHANGED <<state, acl, ipAcl, etag, lightos_size, interim, sold, mode, read, lightos_attached,
             lightos_silent, lightos_faults>>
    BY <1>1, <1>11 DEF Lightos!InitializeConnection, Connecting, Usable, LifeMatches, Lightos!Life
  <2>2. AccessIInv'
    BY <1>1, <1>4, <2>1 DEF AccessIInv, TagsMatch, SomebodyElse, Lightos!AttachedHasAccess, Lightos!Sole
  <2> QED
    BY <1>1, <1>3, <1>8, <2>1, <2>2, AttachmentMoves
<1>12. ASSUME Lightos!TerminateConnection(a) PROVE LightosIInv'
  <2>1. PICK p \in {"remove", "overwrite"} :
        /\ lightos_pc' = [lightos_pc EXCEPT ![a] = p] /\ p \in Connecting
        /\ lightos_pc[a] = "idle" /\ a \in lightos_attached
        /\ lightos_attached' = lightos_attached \ {a}
        /\ UNCHANGED <<state, acl, ipAcl, etag, lightos_size, interim, sold, mode, cinder, read,
             lightos_silent, lightos_faults>>
    BY <1>12 DEF Lightos!TerminateConnection, Lightos!WithoutName, Connecting
  <2>2. \A b \in Attachment : lightos_pc'[b] = IF b = a THEN p ELSE lightos_pc[b]
    BY <1>4, <2>1
  <2>3. TagsMatch'
    BY <1>1, <2>1, <2>2 DEF AccessIInv, TagsMatch
  <2>4. SomebodyElse'
    BY <1>1, <2>1, <2>2 DEF AccessIInv, SomebodyElse
  <2>5. Lightos!AttachedHasAccess'
    BY <1>1, <2>1 DEF AccessIInv, Lightos!AttachedHasAccess, Lightos!Sole
  <2>6. AccessIInv'
    BY <2>3, <2>4, <2>5 DEF AccessIInv
  <2> QED
    BY <1>1, <1>3, <1>7, <1>8, <2>1, <2>6, AttachmentMoves
<1>13. ASSUME Lightos!GetLightosVolume(a) PROVE LightosIInv'
  <2> DEFINE r == [acl |-> acl, ip |-> ipAcl, etag |-> etag]
  <2>1. PICK p \in {"put", "take", "clear"} :
        /\ lightos_pc' = [lightos_pc EXCEPT ![a] = p] /\ p \in Connecting
        /\ lightos_pc[a] \in {"add", "remove", "overwrite"}
        /\ lightos_pc[a] \in {"remove", "overwrite"} => p \in {"take", "clear"}
        /\ read' = [read EXCEPT ![a] = r]
        /\ UNCHANGED <<state, acl, ipAcl, etag, lightos_size, interim, sold, mode, cinder,
             lightos_attached, lightos_silent, lightos_faults>>
    BY <1>13 DEF Lightos!GetLightosVolume, Connecting
  <2>2. r \in LightosRead /\ r.acl = acl /\ r.ip = acl /\ r.etag = etag
    BY <1>1 DEF LightosRead
  <2> HIDE DEF r
  <2>3. AccessIInv'
    <3>1. TagsMatch'
      <4>1. /\ \A b \in Attachment : lightos_pc'[b] = IF b = a THEN p ELSE lightos_pc[b]
            /\ \A b \in Attachment : read'[b] = IF b = a THEN r ELSE read[b]
            /\ a \notin lightos_attached
        BY <1>1, <1>4, <1>5, <2>1, <2>2 DEF AccessIInv, TagsMatch
      <4>2. etag <= etag
        BY <1>1
      <4> QED
        BY <1>1, <2>1, <2>2, <4>1, <4>2 DEF AccessIInv, TagsMatch
    <3>2. SomebodyElse' /\ Lightos!AttachedHasAccess'
      BY <1>1, <1>4, <2>1 DEF AccessIInv, SomebodyElse, Lightos!AttachedHasAccess, Lightos!Sole
    <3> QED
      BY <3>1, <3>2 DEF AccessIInv
  <2> QED
    BY <1>1, <1>7, <2>1, <2>2, <2>3, AttachmentMoves
\* The lists are replaced, and with them the tag.
<1>14. ASSUME Lightos!SetVolumeAcl(a), Lightos!Update(a), Lightos!Matches(a) PROVE AccessIInv'
  <2>1. /\ lightos_pc[a] \in {"put", "take", "clear"} /\ etag' = etag + 1
        /\ read[a].acl = acl /\ read[a].ip = acl
        /\ UNCHANGED <<read, lightos_attached>>
        /\ lightos_silent' = IF lightos_pc[a] = "clear" /\ lightos_attached # {}
                             THEN lightos_silent \union {"forced"} ELSE lightos_silent
    BY <1>1, <1>14 DEF Lightos!SetVolumeAcl, Lightos!Update, Lightos!Matches, Lightos!Again, AccessIInv,
      TagsMatch
  <2>2. /\ acl' = ipAcl'
        /\ lightos_pc[a] = "put" => acl' = acl \union {HostOf[a]}
        /\ lightos_pc[a] = "take" => acl' = acl \ {HostOf[a]}
        /\ lightos_pc[a] = "clear" => acl' = {}
    BY <1>14, <2>1 DEF Lightos!Update, Lightos!Lists, Lightos!AddVolumeAcl, Lightos!RemoveVolumeAcl,
      Lightos!OverwriteVolumeAcl
  <2>3. PICK p \in Connecting :
          /\ lightos_pc' = [lightos_pc EXCEPT ![a] = p] /\ p \notin {"put", "take", "clear"}
          /\ lightos_faults' = lightos_faults /\ lightos_pc[a] = "put" => p = "settleIn"
          /\ p # "idle"
          /\ lightos_faults' \in {lightos_faults, lightos_faults + 1}
    <3>1. /\ Lightos!Last(a) \in {"settleIn", "settleOut"} /\ (lightos_pc[a] = "put" => Lightos!Last(a) = "settleIn")
          /\ Lightos!Again[lightos_pc[a]] \in {"add", "remove", "overwrite"}
      BY <2>1 DEF Lightos!Last, Lightos!Again
    <3>2. CASE Lightos!Goto(a, Lightos!Last(a)) /\ Lightos!Fine
      BY <3>1, <3>2 DEF Connecting
    <3>3. CASE Lightos!Goto(a, Lightos!Again[lightos_pc[a]]) /\ Lightos!Fault
      <4>1. lightos_faults' = lightos_faults + 1 /\ lightos_faults' # lightos_faults
        BY <1>1, <3>3
      <4> QED
        BY <3>1, <3>3, <4>1 DEF Connecting
    <3> QED
      BY <1>14, <3>2, <3>3 DEF Lightos!SetVolumeAcl
  <2>4. /\ \A b \in Attachment : lightos_pc'[b] = IF b = a THEN p ELSE lightos_pc[b]
        /\ a \notin lightos_attached
    BY <1>1, <1>4, <2>1, <2>3 DEF AccessIInv, TagsMatch
  <2>5. TagsMatch'
    <3>1. \A b \in Attachment : lightos_pc'[b] \in {"put", "take", "clear"} =>
            lightos_pc[b] \in {"put", "take", "clear"} /\ read'[b] = read[b]
      BY <2>1, <2>3, <2>4
    <3>2. \A b \in Attachment : lightos_pc'[b] \in {"put", "take", "clear"} =>
            read'[b].etag <= etag' /\ read'[b].etag # etag'
      BY <1>1, <1>6, <2>1, <3>1 DEF AccessIInv, TagsMatch
    <3> QED
      BY <1>1, <2>1, <2>2, <2>4, <3>2 DEF AccessIInv, TagsMatch
  <2>6. SomebodyElse'
    <3> SUFFICES ASSUME lightos_faults' = 0, NEW h \in acl'
                 PROVE  \E b \in Attachment :
                          /\ HostOf[b] = h
                          /\ \/ b \in lightos_attached'
                             \/ lightos_pc'[b] \in {"settleIn", "remove", "take", "overwrite", "clear"}
      BY DEF SomebodyElse
    <3>1. lightos_faults = 0 /\ lightos_faults' = lightos_faults
      BY <1>1, <2>3
    <3>2. CASE h = HostOf[a]
      BY <2>1, <2>2, <2>3, <2>4, <3>1, <3>2
    <3>3. CASE h # HostOf[a]
      <4>1. h \in acl
        BY <2>1, <2>2, <3>3
      <4>2. PICK b \in Attachment :
              /\ HostOf[b] = h
              /\ \/ b \in lightos_attached
                 \/ lightos_pc[b] \in {"settleIn", "remove", "take", "overwrite", "clear"}
        BY <1>1, <3>1, <4>1 DEF AccessIInv, SomebodyElse
      <4> QED
        BY <2>1, <2>4, <3>3, <4>2
    <3> QED
      BY <3>2, <3>3
  <2>7. Lightos!AttachedHasAccess'
    <3> SUFFICES ASSUME "forced" \notin lightos_silent', NEW b \in lightos_attached, Lightos!Sole(b)
                 PROVE  HostOf[b] \in acl'
      BY <2>1, <2>2 DEF Lightos!AttachedHasAccess, Lightos!Sole
    <3>1. b # a /\ HostOf[b] # HostOf[a] /\ HostOf[b] \in acl /\ lightos_pc[a] # "clear"
      BY <1>1, <2>1, <2>4 DEF AccessIInv, Lightos!AttachedHasAccess, Lightos!Sole
    <3> QED
      BY <2>1, <2>2, <3>1
  <2> QED
    BY <2>5, <2>6, <2>7 DEF AccessIInv
\* Nothing is written.
<1>15. ASSUME NEW p \in Connecting \ {"put", "take", "clear"},
              lightos_pc' = [lightos_pc EXCEPT ![a] = p], p # "idle" \/ lightos_faults' = lightos_faults + 1,
              lightos_pc[a] \in {"take", "clear"} => p \in {"remove", "overwrite"} \/ lightos_faults' = lightos_faults + 1,
              lightos_pc[a] \in {"put", "take", "clear"} \/ lightos_faults' = lightos_faults + 1,
              \A b \in Attachment \ {a} : read'[b] = read[b], lightos_silent \subseteq lightos_silent',
              UNCHANGED <<acl, ipAcl, etag, lightos_attached>>, lightos_pc[a] # "idle",
              lightos_faults' \in {lightos_faults, lightos_faults + 1}
       PROVE  AccessIInv'
  <2>1. /\ \A b \in Attachment : lightos_pc'[b] = IF b = a THEN p ELSE lightos_pc[b]
        /\ a \notin lightos_attached
    BY <1>1, <1>4, <1>15 DEF AccessIInv, TagsMatch
  <2>2. TagsMatch'
    BY <1>1, <1>15, <2>1 DEF AccessIInv, TagsMatch
  <2>3. SomebodyElse'
    <3>1. lightos_faults' = 0 => lightos_faults' = lightos_faults /\ lightos_faults = 0
      BY <1>1, <1>15
    <3> QED
      BY <1>1, <1>15, <2>1, <3>1 DEF AccessIInv, SomebodyElse
  <2>4. Lightos!AttachedHasAccess'
    BY <1>1, <1>15 DEF AccessIInv, Lightos!AttachedHasAccess, Lightos!Sole
  <2> QED
    BY <2>2, <2>3, <2>4 DEF AccessIInv
<1>16. ASSUME Lightos!SetVolumeAcl(a) PROVE LightosIInv'
  <2>1. /\ lightos_pc[a] \in {"put", "take", "clear"} /\ cinder \in Usable /\ mode # "delete"
        /\ UNCHANGED <<lightos_size, interim, sold, mode, cinder, read, lightos_attached>>
        /\ lightos_silent' \in {lightos_silent, lightos_silent \union {"forced"}}
        /\ lightos_faults' \in {lightos_faults, lightos_faults + 1}
    BY <1>7, <1>16 DEF Lightos!SetVolumeAcl, Lightos!Again, Lightos!Update
  <2>2. CASE Lightos!Matches(a)
    <3>1. PICK p \in Connecting : lightos_pc' = [lightos_pc EXCEPT ![a] = p]
      BY <1>16, <2>2, <2>1 DEF Lightos!SetVolumeAcl, Lightos!Again, Lightos!Last, Connecting
    <3>2. Lightos!Update(a)
      BY <1>16, <2>2 DEF Lightos!SetVolumeAcl
    <3>3. Lightos!Lists(a).acl \subseteq Host /\ Lightos!Lists(a).ip \subseteq Host
      <4>1. read[a].acl \subseteq Host /\ read[a].ip \subseteq Host /\ HostOf[a] \in Host
        BY <1>2, <1>3 DEF LightosRead
      <4> QED
        BY <2>1, <4>1 DEF Lightos!Lists, Lightos!AddVolumeAcl, Lightos!RemoveVolumeAcl,
          Lightos!OverwriteVolumeAcl
    <3>4. /\ state' = "Updating" /\ etag' = etag + 1 /\ acl' \subseteq Host /\ ipAcl' \subseteq Host
      BY <3>2, <3>3 DEF Lightos!Update
    <3>5. AccessIInv'
      BY <1>14, <1>16, <2>2, <3>2
    <3>6. lightos_attached' \subseteq Attachment /\ cinder' \in Usable
      BY <1>1, <2>1
    <3> QED
      BY <1>1, <1>3, <1>8, <2>1, <3>1, <3>4, <3>5, <3>6, AttachmentMoves
  <2>3. CASE ~Lightos!Matches(a)
    <3>1. /\ lightos_pc' = [lightos_pc EXCEPT ![a] = Lightos!Again[lightos_pc[a]]]
          /\ lightos_faults' = lightos_faults /\ UNCHANGED Lightos!cluster
      BY <1>16, <2>3 DEF Lightos!SetVolumeAcl
    <3>2. /\ Lightos!Again[lightos_pc[a]] \in Connecting \ {"put", "take", "clear", "idle"}
          /\ lightos_pc[a] # "put" => Lightos!Again[lightos_pc[a]] \in {"remove", "overwrite"}
      BY <2>1 DEF Lightos!Again, Connecting
    <3>3. AccessIInv'
      BY <1>15, <2>1, <3>1, <3>2
    <3>4. lightos_attached' \subseteq Attachment /\ cinder' \in Usable
      BY <1>1, <2>1
    <3> QED
      BY <1>1, <1>3, <1>8, <2>1, <3>1, <3>2, <3>3, <3>4, AttachmentMoves
  <2> QED
    BY <2>2, <2>3
<1>17. Lightos!Nobody \in LightosRead /\ "idle" \in Connecting
  BY DEF Lightos!Nobody, LightosRead, Connecting
<1>18. ASSUME Lightos!WaitForVolumeAcl(a) PROVE LightosIInv'
  <2>1. /\ lightos_pc[a] \in {"settleIn", "settleOut"} /\ cinder \in Usable /\ mode # "delete"
        /\ lightos_pc' = [lightos_pc EXCEPT ![a] = "idle"]
        /\ read' = [read EXCEPT ![a] = Lightos!Nobody]
        /\ lightos_pc[a] = "settleIn" => HostOf[a] \in acl /\ lightos_attached' = lightos_attached \union {a}
        /\ lightos_pc[a] = "settleOut" => lightos_attached' = lightos_attached
        /\ UNCHANGED <<state, acl, ipAcl, etag, lightos_size, interim, sold, mode, cinder,
             lightos_silent, lightos_faults>>
    BY <1>7, <1>18 DEF Lightos!WaitForVolumeAcl
  <2>2. /\ \A b \in Attachment : lightos_pc'[b] = IF b = a THEN "idle" ELSE lightos_pc[b]
        /\ \A b \in Attachment \ {a} : read'[b] = read[b]
        /\ lightos_attached' \subseteq Attachment
    BY <1>1, <1>4, <1>5, <1>17, <2>1
  <2>3. TagsMatch'
    BY <1>1, <2>1, <2>2 DEF AccessIInv, TagsMatch
  <2>4. SomebodyElse'
    BY <1>1, <2>1, <2>2 DEF AccessIInv, SomebodyElse
  <2>5. Lightos!AttachedHasAccess'
    BY <1>1, <2>1 DEF AccessIInv, Lightos!AttachedHasAccess, Lightos!Sole
  <2>6. AccessIInv'
    BY <2>3, <2>4, <2>5 DEF AccessIInv
  <2> QED
    BY <1>1, <1>17, <2>1, <2>2, <2>6, AttachmentMoves
<1>19. ASSUME Lightos!GiveUp(a) PROVE LightosIInv'
  <2>1. /\ lightos_pc[a] # "idle" /\ cinder \in Usable /\ mode # "delete"
        /\ lightos_pc' = [lightos_pc EXCEPT ![a] = "idle"]
        /\ read' = [read EXCEPT ![a] = Lightos!Nobody] /\ lightos_faults' = lightos_faults + 1
        /\ UNCHANGED <<state, acl, ipAcl, etag, lightos_size, interim, sold, mode, cinder,
             lightos_attached, lightos_silent>>
    BY <1>7, <1>19 DEF Lightos!GiveUp
  <2>2. \A b \in Attachment \ {a} : read'[b] = read[b]
    BY <1>5, <1>17, <2>1
  <2>3. "idle" \in Connecting \ {"put", "take", "clear"}
    BY DEF Connecting
  <2>4. AccessIInv'
    BY <1>15, <2>1, <2>2, <2>3
  <2> QED
    BY <1>1, <1>17, <2>1, <2>4, AttachmentMoves
<1> QED
  BY <1>11, <1>12, <1>13, <1>16, <1>18, <1>19 DEF Lightos!AttachmentStep

LightosInv == part = "lightos" => LightosIInv

\* So the invariant of the volume holds in every behaviour of the parts.
LEMMA LightosInvariant == Spec => []LightosInv
<1>1. Init => LightosInv
  BY PartStarts, LightosStarts DEF LightosInv
<1>2. ASSUME LightosIInv, [Lightos!Next]_(Lightos!vars) PROVE LightosIInv'
  <2>1. CASE UNCHANGED Lightos!vars
    <3>1. LightosTyped' /\ LifeMatches' /\ CinderMatches'
      BY <1>2, <2>1 DEF LightosIInv, Lightos!vars, Lightos!cluster, LightosTyped, Lightos!TypeOK,
        LifeMatches, CinderMatches, Lightos!Life, Lightos!At, Lightos!Calm
    <3>2. AccessIInv'
      BY <1>2, <2>1 DEF LightosIInv, Lightos!vars, Lightos!cluster, AccessIInv, TagsMatch, SomebodyElse,
        Lightos!AttachedHasAccess, Lightos!Sole
    <3> QED
      BY <1>2, <2>1, <3>1, <3>2 DEF LightosIInv, Lightos!vars, Lightos!cluster, Lightos!DeletedIsGone,
        Lightos!ExtendedIsLarger, Lightos!NoInterim, Lightos!Gone
  <2> QED
    BY <1>2, <2>1, LightosSettles, LightosLife, LightosAttaches DEF Lightos!Next
<1>3. LightosInv /\ [Next]_vars => LightosInv'
  BY <1>2, PartSteps DEF LightosInv
<1> QED
  BY <1>1, <1>3, PTL DEF Spec

\* The hosts of attachments, and they alone, may use the volume, though workers
\* write its lists at the same time and requests are repeated; sizes, deletions
\* and intermediate snapshots come out as Cinder has them.
THEOREM AccessAlwaysMatches == Spec => []AccessMatches
<1>1. LightosIInv => Lightos!NobodyElse
  BY DEF LightosIInv, AccessIInv, SomebodyElse, Lightos!NobodyElse, Lightos!Calm, Lightos!At
<1>2. LightosInv => AccessMatches
  BY <1>1 DEF LightosInv, LightosIInv, AccessIInv, AccessMatches
<1> QED
  BY <1>2, LightosInvariant, PTL

-----------------------------------------------------------------------------
(***************************************************************************)
(* Persistent memory.  What a guest holds on a host is what it was         *)
(* assigned there, before a move and after it; no two guests hold the same *)
(* namespace, and a guest's devices are what it holds where it is.         *)
(***************************************************************************)
Resource == STRING \X Name

\* A way to take one of rs for every label.
Matching(rs, labels) ==
  {s \in [DOMAIN labels -> rs] :
     /\ \A i \in DOMAIN labels : s[i][1] = labels[i]
     /\ \A i, j \in DOMAIN s : s[i] = s[j] => i = j}

\* As many resources of each label as there are labels: one can be taken for
\* every label.
LEMMA LabelsMatch ==
  ASSUME NEW labels \in Seq(STRING), NEW rs \in SUBSET Resource, IsFiniteSet(rs),
         Cardinality(rs) = Len(labels),
         \A r \in rs : Cardinality({q \in rs : q[1] = r[1]})
                         = Cardinality({i \in DOMAIN labels : labels[i] = r[1]})
  PROVE  Matching(rs, labels) # {}
<1> DEFINE Q(l) == {q \in rs : q[1] = l}
           P(l) == {i \in DOMAIN labels : labels[i] = l}
           L == {r[1] : r \in rs}
           b == [l \in L |-> CHOOSE m \in Bijection(Q(l), P(l)) : TRUE]
           m == [r \in rs |-> b[r[1]][r]]
<1>1. IsFiniteSet(DOMAIN labels) /\ Cardinality(DOMAIN labels) = Len(labels)
  <2>1. DOMAIN labels = 1 .. Len(labels) /\ Len(labels) \in Nat
    OBVIOUS
  <2>2. ASSUME NEW n \in Nat PROVE IsFiniteSet(1 .. n) /\ Cardinality(1 .. n) = n
    <3>1. 1 \in Int /\ n \in Int
      OBVIOUS
    <3>2. IsFiniteSet(1 .. n) /\ Cardinality(1 .. n) = IF 1 > n THEN 0 ELSE n - 1 + 1
      BY <3>1, FS_Interval
    <3> QED
      BY <3>2
  <2> QED
    BY <2>1, <2>2
<1>2. \A l \in L : b[l] \in Bijection(Q(l), P(l))
  <2> SUFFICES ASSUME NEW r \in rs PROVE Bijection(Q(r[1]), P(r[1])) # {}
    OBVIOUS
  <2>1. IsFiniteSet(Q(r[1])) /\ IsFiniteSet(P(r[1]))
    <3>1. Q(r[1]) \in SUBSET rs /\ P(r[1]) \in SUBSET DOMAIN labels
      OBVIOUS
    <3> QED
      BY <1>1, <3>1, FS_Subset
  <2>2. Cardinality(Q(r[1])) = Cardinality(P(r[1]))
    OBVIOUS
  <2>3. ExistsBijection(Q(r[1]), P(r[1]))
    BY <2>1, <2>2, FS_SameCardinalityBij
  <2> QED
    BY <2>3 DEF ExistsBijection
<1>3. \A r \in rs : m[r] \in DOMAIN labels /\ labels[m[r]] = r[1]
  <2> SUFFICES ASSUME NEW r \in rs PROVE m[r] \in P(r[1])
    OBVIOUS
  <2>1. b[r[1]] \in [Q(r[1]) -> P(r[1])] /\ r \in Q(r[1])
    BY <1>2 DEF Bijection, Injection
  <2> HIDE DEF b, Q, P
  <2> QED
    BY <2>1
<1>4. \A r, q \in rs : m[r] = m[q] => r = q
  <2> SUFFICES ASSUME NEW r \in rs, NEW q \in rs, m[r] = m[q] PROVE r = q
    OBVIOUS
  <2>1. r[1] = q[1]
    <3> HIDE DEF m
    <3>1. labels[m[r]] = r[1] /\ labels[m[q]] = q[1]
      BY <1>3
    <3> QED
      BY <3>1
  <2>2. IsInjective(b[r[1]]) /\ DOMAIN b[r[1]] = Q(r[1]) /\ b[r[1]][r] = b[r[1]][q]
    <3>1. r[1] \in L
      OBVIOUS
    <3>2. b[r[1]] \in Bijection(Q(r[1]), P(r[1]))
      BY <1>2, <3>1
    <3>3. b[r[1]][r] = b[r[1]][q]
      BY <2>1
    <3> HIDE DEF b, Q, P, m
    <3> QED
      BY <3>2, <3>3 DEF Bijection, Injection
  <2>3. r \in Q(r[1]) /\ q \in Q(r[1])
    BY <2>1
  <2> HIDE DEF b, Q, m
  <2> QED
    BY <2>2, <2>3 DEF IsInjective
<1> HIDE DEF b, m
<1>5. m \in Injection(rs, DOMAIN labels)
  <2>1. m \in [rs -> DOMAIN labels]
    BY <1>3 DEF m
  <2> QED
    BY <1>4, <2>1 DEF Injection, IsInjective
<1>6. \A i \in DOMAIN labels : \E r \in rs : m[r] = i
  <2>1. Cardinality(rs) = Cardinality(DOMAIN labels)
    BY <1>1
  <2>2. m \in Surjection(rs, DOMAIN labels)
    BY <1>1, <1>5, <2>1, FS_Injection
  <2> QED
    BY <2>2 DEF Surjection
<1> DEFINE s == [i \in DOMAIN labels |-> CHOOSE r \in rs : m[r] = i]
<1>7. \A i \in DOMAIN labels : s[i] \in rs /\ m[s[i]] = i
  BY <1>6
<1>8. s \in Matching(rs, labels)
  <2>1. s \in [DOMAIN labels -> rs]
    BY <1>7
  <2>2. \A i \in DOMAIN labels : s[i][1] = labels[i]
    BY <1>3, <1>7
  <2> QED
    BY <1>7, <2>1, <2>2 DEF Matching
<1> QED
  BY <1>8

\* Devices in the order of the labels, each of another resource.
Fits(d, rs, labels) ==
  /\ d \in Seq(Name) /\ Len(d) = Len(labels)
  /\ \A i \in DOMAIN d : <<labels[i], d[i]>> \in rs

\* The devices chosen for labels that can be matched fit these labels.
LEMMA DevicesFit ==
  ASSUME NEW labels \in Seq(STRING), NEW rs \in SUBSET Resource, Matching(rs, labels) # {}
  PROVE  Fits(Memory!Devices(rs, labels), rs, labels)
<1> DEFINE s == Memory!Ordered(rs, labels)
<1>1. s \in [DOMAIN labels -> rs] /\ \A i \in DOMAIN labels : s[i][1] = labels[i]
  BY DEF Memory!Ordered, Matching
<1>2. Memory!Devices(rs, labels) = [i \in 1 .. Len(labels) |-> s[i][2]]
  BY <1>1 DEF Memory!Devices
<1>3. \A i \in 1 .. Len(labels) : s[i] \in rs /\ s[i] = <<labels[i], s[i][2]>> /\ s[i][2] \in Name
  BY <1>1 DEF Resource
<1> HIDE DEF s
<1>4. Len(labels) \in Nat
  OBVIOUS
<1>5. [i \in 1 .. Len(labels) |-> s[i][2]] \in Seq(Name)
  BY <1>3, <1>4
<1>6. Len([i \in 1 .. Len(labels) |-> s[i][2]]) = Len(labels)
  BY <1>3, <1>4
<1> DEFINE d == [i \in 1 .. Len(labels) |-> s[i][2]]
<1>7. \A i \in DOMAIN d : <<labels[i], d[i]>> \in rs
  <2> SUFFICES ASSUME NEW i \in 1 .. Len(labels) PROVE <<labels[i], d[i]>> \in rs
    OBVIOUS
  <2>1. s[i] \in rs /\ s[i] = <<labels[i], s[i][2]>>
    BY <1>3
  <2> QED
    BY <2>1
<1> HIDE DEF d
<1> QED
  BY <1>2, <1>5, <1>6, <1>7 DEF Fits, d

OnTheMove == {"resizing", "resized", "migrating", "arrived", "left"}
MoveContext ==
  [source : Host, dest : Host, old_flavor : Seq(STRING), new_flavor : Seq(STRING),
   old_resources : SUBSET Resource, new_resources : SUBSET Resource]

MemoryTyped ==
  /\ offered \in [Host -> SUBSET Resource]
  /\ \A h \in Host : IsFiniteSet(offered[h]) /\ \A r, q \in offered[h] : r[2] = q[2] => r = q
  /\ memory_content \in [Host -> [Name -> Guest \union {None}]]
  /\ at \in [Guest -> Host \union {None}]
  /\ flavor \in [Guest -> Flavors \union {<<>>}]
  /\ resources \in [Guest -> SUBSET Resource]
  /\ context \in [Guest -> MoveContext \union {Memory!NoContext}]
  /\ move \in [Guest -> OnTheMove \union {"no", "error"}]
  /\ devices \in [Guest -> Seq(Name)]
  /\ confirmed \subseteq Host \X Name

\* What its devices are made of.
Here(g) ==
  IF move[g] \in {"arrived", "left"} THEN context[g].new_resources ELSE resources[g]

\* A guest on the move: where it is and what applies to it.
MovesRight(g) ==
  /\ at[g] = IF move[g] \in {"resizing", "migrating"} THEN context[g].source ELSE context[g].dest
  /\ resources[g] = IF move[g] = "resized" THEN context[g].new_resources ELSE context[g].old_resources
  /\ flavor[g] = IF move[g] = "resized" THEN context[g].new_flavor ELSE context[g].old_flavor
  /\ move[g] \in {"migrating", "arrived", "left"} =>
       context[g].source # context[g].dest /\ context[g].new_flavor = context[g].old_flavor
  /\ context[g].source = context[g].dest => context[g].old_resources \intersect context[g].new_resources = {}
  /\ context[g].old_resources \subseteq offered[context[g].source]
  /\ context[g].new_resources \subseteq offered[context[g].dest]
  /\ {context[g].old_flavor, context[g].new_flavor} \subseteq Flavors \union {<<>>}
  /\ Matching(context[g].old_resources, context[g].old_flavor) # {}
  /\ Matching(context[g].new_resources, context[g].new_flavor) # {}

Placed(g) ==
  /\ move[g] \in OnTheMove <=> Memory!Moving(g)
  /\ at[g] = None => move[g] = "no"
  /\ move[g] \in OnTheMove => MovesRight(g)
  /\ move[g] \notin OnTheMove /\ at[g] # None =>
       resources[g] \subseteq offered[at[g]] /\ Matching(resources[g], flavor[g]) # {}
  /\ at[g] # None => Fits(devices[g], Here(g), flavor[g])

\* The source that a guest has left is zeroed before it is given back.
EmptiedSource(g) ==
  move[g] = "left" =>
    \A n \in Memory!Names(context[g].old_resources) : memory_content[context[g].source][n] = None

HeldApart ==
  \A g, q \in Guest : g # q => \A h \in Host : Memory!Held(g, h) \intersect Memory!Held(q, h) = {}

MemoryIInv ==
  /\ MemoryTyped
  /\ \A g \in Guest : Placed(g) /\ EmptiedSource(g)
  /\ HeldApart
  /\ Memory!GivenBackZeroed

\* What is held is offered.
LEMMA HeldIsOffered ==
  ASSUME MemoryTyped, NEW g \in Guest, Placed(g), NEW h \in Host
  PROVE  Memory!Held(g, h) \subseteq offered[h]
BY MemoryAssumption DEF Memory!Held, Placed, MovesRight, MemoryTyped, Memory!PersistentMemoryAssumption

\* Names differ where resources do.
LEMMA NamesApart ==
  ASSUME MemoryTyped, NEW h \in Host, NEW S \in SUBSET offered[h], NEW T \in SUBSET offered[h],
         S \intersect T = {}
  PROVE  Memory!Names(S) \intersect Memory!Names(T) = {}
BY DEF MemoryTyped, Memory!Names

\* Only the names of one guest, or of nobody, are touched.
Touches(g) ==
  \A h \in Host, n \in Name :
    memory_content'[h][n] # memory_content[h][n] =>
      \A q \in Guest \ {g} : n \notin Memory!Names(Memory!Held(q, h))

\* No other guest moves.
Elsewhere(g) ==
  \A q \in Guest \ {g} :
    /\ at'[q] = at[q] /\ flavor'[q] = flavor[q] /\ resources'[q] = resources[q]
    /\ context'[q] = context[q] /\ move'[q] = move[q] /\ devices'[q] = devices[q]

Contents == [Host -> [Name -> Guest \union {None}]]

\* A guest takes only what nobody has.
TakesFree(g) ==
  \A h \in Host : \A r \in Memory!Held(g, h)' \ Memory!Held(g, h) :
    \A q \in Guest \ {g} : r \notin Memory!Held(q, h)

\* Names are zeroed, or the guest has them; those it gives back are zeroed, or
\* a confirmed resize gives them back.
ZeroesReturned(g) ==
  \A h \in Host, n \in Name :
    /\ \/ memory_content'[h][n] \in {memory_content[h][n], None}
       \/ n \in Memory!Names(Memory!Held(g, h)')
    /\ n \in Memory!Names(Memory!Held(g, h)) \ Memory!Names(Memory!Held(g, h)') =>
         memory_content'[h][n] = None \/ <<h, n>> \in confirmed'

\* A step of one guest keeps the invariant if it takes what is free, touches
\* nothing of others, and leaves what it gives back zeroed.
LEMMA OneGuestSteps ==
  ASSUME MemoryIInv, NEW g \in Guest, UNCHANGED offered, MemoryTyped', Elsewhere(g),
         Placed(g)', EmptiedSource(g)', confirmed \subseteq confirmed', Touches(g),
         TakesFree(g), ZeroesReturned(g)
  PROVE  MemoryIInv'
<1> USE DEF Elsewhere, TakesFree, ZeroesReturned
<1>1. \A q \in Guest \ {g} : \A h \in Host : Memory!Held(q, h)' = Memory!Held(q, h)
  <2> SUFFICES ASSUME NEW q \in Guest \ {g}, NEW h \in Host PROVE Memory!Held(q, h)' = Memory!Held(q, h)
    OBVIOUS
  <2>1. Memory!Moving(q)' <=> Memory!Moving(q)
    BY DEF Memory!Moving, Memory!NoContext
  <2>2. ASSUME NEW r PROVE r \in Memory!Held(q, h)' <=> r \in Memory!Held(q, h)
    <3>1. CASE Memory!Moving(q)
      BY <2>1, <3>1 DEF Memory!Held
    <3>2. CASE ~Memory!Moving(q)
      BY <2>1, <3>2 DEF Memory!Held
    <3> QED
      BY <3>1, <3>2
  <2> QED
    BY <2>2
<1>2. \A q \in Guest : Placed(q)'
  <2> SUFFICES ASSUME NEW q \in Guest \ {g} PROVE Placed(q)'
    OBVIOUS
  <2>1. Placed(q)
    BY DEF MemoryIInv
  <2>2. MovesRight(q)' <=> MovesRight(q)
    BY DEF MovesRight, Matching
  <2>3. Here(q)' = Here(q) /\ Fits(devices[q], Here(q), flavor[q])' = Fits(devices[q], Here(q), flavor[q])
    BY DEF Here, Fits
  <2> QED
    BY <2>1, <2>2, <2>3 DEF Placed, OnTheMove, Matching, Memory!Moving, Memory!NoContext
<1>3. \A q \in Guest : EmptiedSource(q)'
  <2> SUFFICES ASSUME NEW q \in Guest \ {g}, move[q] = "left",
                      NEW n \in Memory!Names(context[q].old_resources)
               PROVE  memory_content'[context[q].source][n] = None
    BY DEF EmptiedSource
  <2>1. context[q] \in MoveContext /\ Memory!Moving(q)
    BY DEF MemoryIInv, MemoryTyped, Placed, OnTheMove, Memory!Moving
  <2>2. context[q].source \in Host /\ n \in Name /\ n \in Memory!Names(Memory!Held(q, context[q].source))
    BY <2>1 DEF MoveContext, Memory!Held, OnTheMove, Memory!Names, Resource
  <2>3. memory_content[context[q].source][n] = None
    BY DEF MemoryIInv, EmptiedSource
  <2> QED
    BY <2>2, <2>3 DEF Touches
<1>4. HeldApart'
  <2> SUFFICES ASSUME NEW q \in Guest \ {g}, NEW h \in Host, NEW r \in Memory!Held(g, h)', r \in Memory!Held(q, h)
               PROVE  FALSE
    <3>1. \A k, q \in Guest \ {g} : k # q => \A h \in Host : Memory!Held(k, h)' \intersect Memory!Held(q, h)' = {}
      BY <1>1 DEF MemoryIInv, HeldApart
    <3>2. \A q \in Guest \ {g} : \A h \in Host : Memory!Held(g, h)' \intersect Memory!Held(q, h)' = {}
      BY <1>1
    <3> QED
      BY <3>1, <3>2 DEF HeldApart
  <2> QED
    BY DEF MemoryIInv, HeldApart
<1>5. Memory!GivenBackZeroed'
  <2> SUFFICES ASSUME NEW h \in Host, NEW n \in Memory!Names(offered[h]), n \notin Memory!Names(Memory!Used(h)')
               PROVE  <<h, n>> \in confirmed' \/ memory_content'[h][n] = None
    BY DEF Memory!GivenBackZeroed, Memory!Names
  <2>1. /\ Memory!Used(h)' = UNION {Memory!Held(q, h)' : q \in Guest}
        /\ Memory!Used(h) = UNION {Memory!Held(q, h) : q \in Guest}
    BY DEF Memory!Used
  <2>2. n \in Name
    BY DEF MemoryIInv, MemoryTyped, Memory!Names, Resource
  <2>3. /\ n \notin Memory!Names(Memory!Held(g, h)')
        /\ \A q \in Guest \ {g} : n \notin Memory!Names(Memory!Held(q, h))
    BY <1>1, <2>1 DEF Memory!Names
  <2>4. CASE n \in Memory!Names(Memory!Held(g, h))
    BY <2>2, <2>3, <2>4
  <2>5. CASE n \notin Memory!Names(Memory!Held(g, h))
    <3>1. n \notin Memory!Names(Memory!Used(h))
      BY <2>1, <2>3, <2>5 DEF Memory!Names
    <3>2. <<h, n>> \in confirmed \/ memory_content[h][n] = None
      BY <3>1 DEF MemoryIInv, Memory!GivenBackZeroed, Memory!Names
    <3> QED
      BY <2>2, <2>3, <3>2
  <2> QED
    BY <2>4, <2>5
<1> QED
  BY <1>2, <1>3, <1>4, <1>5 DEF MemoryIInv

\* A flavor, and none at all, is a sequence of labels.
LEMMA Labels == \A f \in Flavors \union {<<>>} : f \in Seq(STRING)
<1>1. <<>> \in Seq(STRING)
  OBVIOUS
<1> QED
  BY <1>1, MemoryAssumption DEF Memory!PersistentMemoryAssumption

\* What may be assigned is free, and fits.
LEMMA AssignedFits ==
  ASSUME MemoryIInv, NEW h \in Host, NEW f \in Flavors \union {<<>>}, NEW rs \in Memory!Assigned(h, f)
  PROVE  /\ rs \in SUBSET Resource /\ rs \subseteq offered[h] /\ Matching(rs, f) # {} /\ f \in Seq(STRING)
         /\ Fits(Memory!Devices(rs, f), rs, f)
         /\ \A q \in Guest : rs \intersect Memory!Held(q, h) = {}
<1>1. f \in Seq(STRING)
  BY Labels
<1>2. /\ rs \subseteq offered[h] /\ rs \intersect Memory!Used(h) = {} /\ Cardinality(rs) = Len(f)
      /\ \A r \in rs : Cardinality({q \in rs : q[1] = r[1]}) = Cardinality({i \in DOMAIN f : f[i] = r[1]})
  <2>1. rs \in SUBSET (offered[h] \ Memory!Used(h)) /\ Memory!Suits(rs, f)
    BY Zenon DEF Memory!Assigned
  <2>2. /\ Cardinality(rs) = Len(f)
        /\ \A r \in rs : Cardinality({q \in rs : q[1] = r[1]}) = Cardinality({i \in DOMAIN f : f[i] = r[1]})
    <3>1. \A S : Memory!Cardinality(S) = Cardinality(S)
      BY Zenon DEF Memory!Cardinality, Cardinality, Memory!IsFiniteSet, IsFiniteSet
    <3> QED
      BY <2>1, <3>1 DEF Memory!Suits
  <2> QED
    BY <2>1, <2>2
<1>3. rs \in SUBSET Resource /\ IsFiniteSet(rs)
  <2>1. offered[h] \in SUBSET Resource /\ IsFiniteSet(offered[h])
    BY DEF MemoryIInv, MemoryTyped
  <2> QED
    BY <1>2, <2>1, FS_Subset
<1>4. Matching(rs, f) # {}
  BY <1>1, <1>2, <1>3, LabelsMatch
<1>5. \A q \in Guest : rs \intersect Memory!Held(q, h) = {}
  BY <1>2 DEF Memory!Used
<1> QED
  BY <1>1, <1>2, <1>3, <1>4, <1>5, DevicesFit

\* What a guest holds is touched by no other's.
LEMMA OwnTouched ==
  ASSUME MemoryIInv, NEW g \in Guest,
         \A h \in Host, n \in Name : memory_content'[h][n] # memory_content[h][n] =>
           n \in Memory!Names(Memory!Held(g, h))
  PROVE  Touches(g)
<1> SUFFICES ASSUME NEW h \in Host, NEW n \in Memory!Names(Memory!Held(g, h)), NEW q \in Guest \ {g}
             PROVE  n \notin Memory!Names(Memory!Held(q, h))
  BY DEF Touches
<1>1. Memory!Held(g, h) \subseteq offered[h] /\ Memory!Held(q, h) \subseteq offered[h]
  BY HeldIsOffered DEF MemoryIInv
<1>2. Memory!Held(g, h) \intersect Memory!Held(q, h) = {}
  BY DEF MemoryIInv, HeldApart
<1>3. Memory!Names(Memory!Held(g, h)) \intersect Memory!Names(Memory!Held(q, h)) = {}
  BY <1>1, <1>2, NamesApart DEF MemoryIInv
<1> QED
  BY <1>3

\* What is zeroed of a host.
LEMMA ZeroedIs ==
  ASSUME MemoryTyped, NEW h \in Host, NEW names
  PROVE  /\ Memory!Zeroed(h, names) \in [Host -> [Name -> Guest \union {None}]]
         /\ \A k \in Host, n \in Name :
              Memory!Zeroed(h, names)[k][n] = IF k = h /\ n \in names THEN None ELSE memory_content[k][n]
<1>1. memory_content \in [Host -> [Name -> Guest \union {None}]]
  BY DEF MemoryTyped
<1>2. [n \in Name |-> IF n \in names THEN None ELSE memory_content[h][n]] \in [Name -> Guest \union {None}]
  BY <1>1
<1> QED
  BY <1>1, <1>2 DEF Memory!Zeroed

\* The devices of a guest are of what it holds where it is.
LEMMA DevicesAreHeld ==
  ASSUME MemoryIInv, NEW g \in Guest, at[g] # None
  PROVE  /\ at[g] \in Host /\ Here(g) \subseteq Memory!Held(g, at[g])
         /\ \A i \in DOMAIN devices[g] : devices[g][i] \in Memory!Names(Memory!Held(g, at[g]))
<1>1. /\ MemoryTyped /\ Placed(g) /\ at[g] \in Host
      /\ Fits(devices[g], Here(g), flavor[g])
  BY DEF MemoryIInv, MemoryTyped, Placed
<1>2. Here(g) \subseteq Memory!Held(g, at[g])
  BY <1>1 DEF Here, Placed, MovesRight, Memory!Held, OnTheMove
<1>3. \A i \in DOMAIN devices[g] : <<flavor[g][i], devices[g][i]>> \in Memory!Held(g, at[g])
  BY <1>1, <1>2 DEF Fits
<1>4. \A i \in DOMAIN devices[g] : devices[g][i] = <<flavor[g][i], devices[g][i]>>[2]
  OBVIOUS
<1> QED
  BY <1>1, <1>2, <1>3, <1>4 DEF Memory!Names

\* Before the first guest the invariant holds.
LEMMA MemoryStarts == Memory!Init => MemoryIInv
<1> SUFFICES ASSUME Memory!Init PROVE MemoryIInv
  OBVIOUS
<1>1. PICK c \in [Host -> Configs] : offered = [h \in Host |-> Memory!DiscoverVpmems(c[h])]
  BY DEF Memory!Init
<1>2. ASSUME NEW h \in Host
      PROVE  /\ offered[h] \in SUBSET Resource /\ IsFiniteSet(offered[h])
             /\ \A r, q \in offered[h] : r[2] = q[2] => r = q
  <2>1. c[h] \in Seq(STRING \X STRING)
    BY MemoryAssumption DEF Memory!PersistentMemoryAssumption
  <2>2. CASE \A i, j \in DOMAIN c[h] : c[h][i][2] \in Name /\ (c[h][i][2] = c[h][j][2] => i = j)
    <3>1. offered[h] = {c[h][i] : i \in DOMAIN c[h]}
      BY <1>1, <2>2 DEF Memory!DiscoverVpmems
    <3>2. \A i \in DOMAIN c[h] : c[h][i] \in STRING \X Name
      BY <2>1, <2>2
    <3>3. IsFiniteSet(DOMAIN c[h])
      <4>1. DOMAIN c[h] = 1 .. Len(c[h]) /\ 1 \in Int /\ Len(c[h]) \in Int
        BY <2>1
      <4> QED
        BY <4>1, FS_Interval
    <3>4. c[h] \in Surjection(DOMAIN c[h], offered[h])
      <4>1. c[h] \in [DOMAIN c[h] -> offered[h]]
        BY <2>1, <3>1
      <4> QED
        BY <3>1, <4>1 DEF Surjection
    <3>5. IsFiniteSet(offered[h])
      BY <3>3, <3>4, FS_Surjection
    <3> QED
      BY <2>2, <3>1, <3>2, <3>5 DEF Resource
  <2>3. CASE ~\A i, j \in DOMAIN c[h] : c[h][i][2] \in Name /\ (c[h][i][2] = c[h][j][2] => i = j)
    <3>1. offered[h] = {}
      BY <1>1, <2>3 DEF Memory!DiscoverVpmems
    <3> QED
      BY <3>1, FS_EmptySet
  <2> QED
    BY <2>2, <2>3
<1>3. /\ memory_content = [h \in Host |-> [n \in Name |-> None]]
      /\ at = [g \in Guest |-> None] /\ flavor = [g \in Guest |-> <<>>]
      /\ resources = [g \in Guest |-> {}] /\ context = [g \in Guest |-> Memory!NoContext]
      /\ move = [g \in Guest |-> "no"] /\ devices = [g \in Guest |-> <<>>] /\ confirmed = {}
  BY DEF Memory!Init
<1>4. MemoryTyped
  <2>1. offered \in [Host -> SUBSET Resource]
    BY <1>1, <1>2
  <2>2. <<>> \in Seq(Name)
    OBVIOUS
  <2> QED
    BY <1>2, <1>3, <2>1, <2>2 DEF MemoryTyped
<1>5. \A g \in Guest : Placed(g) /\ EmptiedSource(g) /\ move[g] = "no" /\ resources[g] = {} /\ ~Memory!Moving(g)
  BY <1>3 DEF Placed, EmptiedSource, OnTheMove, Memory!Moving
<1>6. HeldApart
  BY <1>5 DEF HeldApart, Memory!Held
<1>7. Memory!GivenBackZeroed
  <2>1. \A h \in Host : \A n \in Memory!Names(offered[h]) : n \in Name
    BY <1>2 DEF Memory!Names, Resource
  <2> QED
    BY <1>3, <2>1 DEF Memory!GivenBackZeroed
<1> QED
  BY <1>4, <1>5, <1>6, <1>7 DEF MemoryIInv


\* A guest moves on.
Moves(g) ==
  /\ at' = [at EXCEPT ![g] = at'[g]] /\ flavor' = [flavor EXCEPT ![g] = flavor'[g]]
  /\ resources' = [resources EXCEPT ![g] = resources'[g]]
  /\ context' = [context EXCEPT ![g] = context'[g]]
  /\ move' = [move EXCEPT ![g] = move'[g]] /\ devices' = [devices EXCEPT ![g] = devices'[g]]

\* A step that moves one guest within the types keeps the types and the other guests.
LEMMA GuestChanges ==
  ASSUME MemoryTyped, NEW g \in Guest,
         UNCHANGED offered, memory_content' \in Contents, confirmed' \subseteq Host \X Name,
         at'[g] \in Host \union {None}, flavor'[g] \in Flavors \union {<<>>},
         resources'[g] \in SUBSET Resource, context'[g] \in MoveContext \union {Memory!NoContext},
         move'[g] \in OnTheMove \union {"no", "error"}, devices'[g] \in Seq(Name), Moves(g)
  PROVE  MemoryTyped' /\ Elsewhere(g)
<1>1. /\ at \in [Guest -> Host \union {None}] /\ flavor \in [Guest -> Flavors \union {<<>>}]
      /\ resources \in [Guest -> SUBSET Resource]
      /\ context \in [Guest -> MoveContext \union {Memory!NoContext}]
      /\ move \in [Guest -> OnTheMove \union {"no", "error"}] /\ devices \in [Guest -> Seq(Name)]
  BY DEF MemoryTyped
<1>2. ASSUME NEW S, NEW F \in [Guest -> S], NEW v \in S, NEW G, G = [F EXCEPT ![g] = v]
      PROVE  G \in [Guest -> S] /\ \A q \in Guest \ {g} : G[q] = F[q]
  BY <1>2
<1>3. /\ at' \in [Guest -> Host \union {None}] /\ \A q \in Guest \ {g} : at'[q] = at[q]
      /\ flavor' \in [Guest -> Flavors \union {<<>>}] /\ \A q \in Guest \ {g} : flavor'[q] = flavor[q]
  BY <1>1, <1>2 DEF Moves
<1>4. /\ resources' \in [Guest -> SUBSET Resource] /\ \A q \in Guest \ {g} : resources'[q] = resources[q]
      /\ context' \in [Guest -> MoveContext \union {Memory!NoContext}]
      /\ \A q \in Guest \ {g} : context'[q] = context[q]
  BY <1>1, <1>2 DEF Moves
<1>5. /\ move' \in [Guest -> OnTheMove \union {"no", "error"}] /\ \A q \in Guest \ {g} : move'[q] = move[q]
      /\ devices' \in [Guest -> Seq(Name)] /\ \A q \in Guest \ {g} : devices'[q] = devices[q]
  BY <1>1, <1>2 DEF Moves
<1>6. /\ offered' \in [Host -> SUBSET Resource]
      /\ \A h \in Host : IsFiniteSet(offered'[h]) /\ \A r, q \in offered'[h] : r[2] = q[2] => r = q
  BY DEF MemoryTyped
<1>7. MemoryTyped'
  BY <1>3, <1>4, <1>5, <1>6 DEF MemoryTyped, Contents
<1> QED
  BY <1>3, <1>4, <1>5, <1>7 DEF Elsewhere

\* What is known of a guest.
GuestTyped(g) ==
  /\ at[g] \in Host \union {None} /\ flavor[g] \in Flavors \union {<<>>}
  /\ resources[g] \in SUBSET Resource /\ context[g] \in MoveContext \union {Memory!NoContext}
  /\ move[g] \in OnTheMove \union {"no", "error"} /\ devices[g] \in Seq(Name)

\* What a step leaves alone is a change of the guest to what it was.
LEMMA SameGuest ==
  ASSUME MemoryTyped, NEW g \in Guest
  PROVE  /\ at = [at EXCEPT ![g] = at[g]] /\ flavor = [flavor EXCEPT ![g] = flavor[g]]
         /\ resources = [resources EXCEPT ![g] = resources[g]]
         /\ context = [context EXCEPT ![g] = context[g]]
         /\ move = [move EXCEPT ![g] = move[g]] /\ devices = [devices EXCEPT ![g] = devices[g]]
         /\ GuestTyped(g) /\ memory_content \in Contents
         /\ {g} \subseteq DOMAIN at \intersect DOMAIN flavor \intersect DOMAIN resources
         /\ {g} \subseteq DOMAIN context \intersect DOMAIN move \intersect DOMAIN devices
BY DEF MemoryTyped, Contents, GuestTyped

\* The names of a resized guest's former resources are spared.
Spares(g) ==
  move[g] = "resized" =>
    \A n \in Memory!Names(context[g].old_resources) :
      memory_content'[context[g].source][n] = memory_content[context[g].source][n]

\* A step that writes only to the guest's devices at its host spares those kept for a revert.
LEMMA SparesOld ==
  ASSUME MemoryIInv, NEW g \in Guest,
         \A h \in Host, n \in Name : memory_content'[h][n] # memory_content[h][n] =>
           h = at[g] /\ n \in Memory!Names(resources[g])
  PROVE  Spares(g)
<1> SUFFICES ASSUME move[g] = "resized", NEW n \in Memory!Names(context[g].old_resources)
             PROVE  memory_content'[context[g].source][n] = memory_content[context[g].source][n]
  BY DEF Spares
<1>1. MovesRight(g) /\ context[g] \in MoveContext /\ MemoryTyped
  BY DEF MemoryIInv, MemoryTyped, Placed, OnTheMove, Memory!Moving
<1>2. /\ context[g].source \in Host /\ context[g].dest \in Host
      /\ context[g].old_resources \in SUBSET offered[context[g].source]
      /\ context[g].new_resources \in SUBSET offered[context[g].dest]
      /\ at[g] = context[g].dest /\ resources[g] = context[g].new_resources
      /\ context[g].source = context[g].dest => context[g].old_resources \intersect context[g].new_resources = {}
  BY <1>1 DEF MovesRight, MoveContext
<1>3. n \in Name
  BY <1>1, <1>2 DEF MemoryTyped, Memory!Names, Resource
<1>4. CASE context[g].source = context[g].dest
  <2>1. Memory!Names(context[g].old_resources) \intersect Memory!Names(context[g].new_resources) = {}
    BY <1>1, <1>2, <1>4, NamesApart
  <2> QED
    BY <1>2, <1>3, <2>1
<1>5. CASE context[g].source # context[g].dest
  BY <1>2, <1>3, <1>5
<1> QED
  BY <1>4, <1>5

\* What a guest holds, in its two situations.
LEMMA HeldAre ==
  ASSUME NEW g, NEW h
  PROVE  /\ ~Memory!Moving(g) => Memory!Held(g, h) = IF at[g] = h THEN resources[g] ELSE {}
         /\ Memory!Moving(g) =>
              /\ context[g].source = h => context[g].old_resources \subseteq Memory!Held(g, h)
              /\ context[g].dest = h => context[g].new_resources \subseteq Memory!Held(g, h)
              /\ \A r \in Memory!Held(g, h) :
                   \/ r \in context[g].old_resources /\ context[g].source = h
                   \/ r \in context[g].new_resources /\ context[g].dest = h
BY DEF Memory!Held


\* Building a guest keeps the invariant,
LEMMA SpawnKeeps ==
  ASSUME MemoryIInv, NEW g \in Guest, Memory!Spawn(g)
  PROVE  MemoryIInv' /\ Touches(g) /\ Spares(g)
<1>1. MemoryTyped /\ Placed(g) /\ at[g] = None /\ EmptiedSource(g)
  BY DEF MemoryIInv, Memory!Spawn
<1>2. move[g] = "no" /\ ~Memory!Moving(g)
  BY <1>1 DEF Placed, OnTheMove
<1>3. Spares(g)
  BY <1>2 DEF Spares
<1>4. \A h \in Host : Memory!Held(g, h) = {}
  BY <1>1, <1>2, HeldAre, MemoryAssumption DEF Memory!PersistentMemoryAssumption
<1>a. PICK h \in Host, f \in Flavors : \E rs \in Memory!Assigned(h, f) :
        \/ /\ at' = [at EXCEPT ![g] = h] /\ flavor' = [flavor EXCEPT ![g] = f]
           /\ resources' = [resources EXCEPT ![g] = rs]
           /\ devices' = [devices EXCEPT ![g] = Memory!Devices(rs, f)]
           /\ UNCHANGED memory_content
        \/ /\ memory_content' = Memory!Zeroed(h, Memory!Names(rs))
           /\ UNCHANGED <<at, flavor, resources, devices>>
  BY Zenon DEF Memory!Spawn
<1>5. PICK rs \in Memory!Assigned(h, f) :
        \/ /\ at' = [at EXCEPT ![g] = h] /\ flavor' = [flavor EXCEPT ![g] = f]
           /\ resources' = [resources EXCEPT ![g] = rs]
           /\ devices' = [devices EXCEPT ![g] = Memory!Devices(rs, f)]
           /\ UNCHANGED memory_content
        \/ /\ memory_content' = Memory!Zeroed(h, Memory!Names(rs))
           /\ UNCHANGED <<at, flavor, resources, devices>>
  BY Zenon, <1>a
<1>6. UNCHANGED <<offered, context, move, confirmed>> /\ confirmed \subseteq Host \X Name
  BY <1>1 DEF Memory!Spawn, MemoryTyped
<1>7. /\ rs \in SUBSET Resource /\ rs \subseteq offered[h] /\ Matching(rs, f) # {} /\ f \in Seq(STRING)
      /\ Fits(Memory!Devices(rs, f), rs, f)
      /\ \A q \in Guest : rs \intersect Memory!Held(q, h) = {}
  BY AssignedFits
<1>8. Memory!Devices(rs, f) \in Seq(Name)
  BY <1>7 DEF Fits
<1>9. CASE /\ at' = [at EXCEPT ![g] = h] /\ flavor' = [flavor EXCEPT ![g] = f]
           /\ resources' = [resources EXCEPT ![g] = rs]
           /\ devices' = [devices EXCEPT ![g] = Memory!Devices(rs, f)]
           /\ UNCHANGED memory_content
  <2>0. /\ at'[g] = h /\ flavor'[g] = f /\ resources'[g] = rs
        /\ context'[g] = context[g] /\ move'[g] = move[g] /\ devices'[g] = Memory!Devices(rs, f)
    BY <1>1, <1>6, <1>9, SameGuest
  <2>a. Moves(g)
    BY <1>1, <1>6, <1>9, <2>0, SameGuest DEF Moves
  <2>b. MemoryTyped' /\ Elsewhere(g)
    BY <1>1, <1>6, <1>7, <1>8, <1>9, <2>0, <2>a, SameGuest, GuestChanges DEF GuestTyped
  <2>1. /\ MemoryTyped' /\ Elsewhere(g)
        /\ at'[g] = h /\ flavor'[g] = f /\ resources'[g] = rs
        /\ context'[g] = context[g] /\ move'[g] = move[g] /\ devices'[g] = Memory!Devices(rs, f)
    BY <2>0, <2>b
  <2>2. ~Memory!Moving(g)'
    BY <1>2, <2>1 DEF Memory!Moving, Memory!NoContext
  <2>3. \A k \in Host : Memory!Held(g, k)' = IF h = k THEN rs ELSE {}
    BY <2>1, <2>2 DEF Memory!Held
  <2>4. h # None
    BY MemoryAssumption DEF Memory!PersistentMemoryAssumption
  <2>5. Placed(g)'
    <3>1. Here(g)' = rs
      BY <1>2, <2>1 DEF Here
    <3>2. Fits(devices[g], Here(g), flavor[g])'
      BY <1>7, <2>1, <3>1 DEF Fits
    <3> QED
      BY <1>2, <1>6, <1>7, <2>1, <2>2, <2>4, <3>2 DEF Placed, OnTheMove, Matching
  <2>6. EmptiedSource(g)' /\ Touches(g)
    BY <1>2, <1>9, <2>1 DEF EmptiedSource, Touches
  <2>7. TakesFree(g)
    BY <1>4, <1>7, <2>3 DEF TakesFree
  <2>8. ZeroesReturned(g)
    BY <1>4, <1>9 DEF ZeroesReturned, Memory!Names
  <2> QED
    BY <1>3, <1>6, <2>1, <2>5, <2>6, <2>7, <2>8, OneGuestSteps
<1>10. CASE /\ memory_content' = Memory!Zeroed(h, Memory!Names(rs))
            /\ UNCHANGED <<at, flavor, resources, devices>>
  <2>1. /\ memory_content' \in Contents
        /\ \A k \in Host, n \in Name : memory_content'[k][n] =
             IF k = h /\ n \in Memory!Names(rs) THEN None ELSE memory_content[k][n]
    BY <1>1, <1>10, ZeroedIs DEF Contents
  <2>2. MemoryTyped' /\ Elsewhere(g)
    BY <1>1, <1>6, <1>10, <2>1 DEF MemoryTyped, Contents, Elsewhere
  <2>3. \A k \in Host : Memory!Held(g, k)' = {}
    BY <1>4, <1>6, <1>10 DEF Memory!Held, Memory!Moving
  <2>4. Placed(g)' /\ EmptiedSource(g)'
    BY <1>1, <1>2, <1>6, <1>10
      DEF Placed, EmptiedSource, OnTheMove, Memory!Moving
  <2>5. Touches(g)
    <3> SUFFICES ASSUME NEW n \in Memory!Names(rs), NEW q \in Guest \ {g}
                 PROVE  n \notin Memory!Names(Memory!Held(q, h))
      BY <2>1 DEF Touches
    <3>1. Memory!Held(q, h) \subseteq offered[h] /\ rs \intersect Memory!Held(q, h) = {}
      BY <1>7, HeldIsOffered DEF MemoryIInv
    <3> QED
      BY <1>1, <1>7, <3>1, NamesApart
  <2>6. TakesFree(g) /\ ZeroesReturned(g)
    BY <1>4, <2>1, <2>3 DEF TakesFree, ZeroesReturned, Memory!Names
  <2> QED
    BY <1>3, <1>6, <2>2, <2>4, <2>5, <2>6, OneGuestSteps
<1> QED
  BY <1>5, <1>9, <1>10

\* Where a guest with devices is.
LEMMA AtHost ==
  ASSUME MemoryIInv, NEW g \in Guest, at[g] # None
  PROVE  at[g] \in Host /\ MemoryTyped /\ Placed(g) /\ EmptiedSource(g) /\ confirmed \subseteq Host \X Name
BY DEF MemoryIInv, MemoryTyped

\* so does a write of the guest,
LEMMA WriteKeeps ==
  ASSUME MemoryIInv, NEW g \in Guest, Memory!Write(g)
  PROVE  MemoryIInv' /\ Touches(g) /\ Spares(g)
<1>1. /\ at[g] # None /\ move[g] \notin {"resizing", "error"}
      /\ memory_content' = [memory_content EXCEPT ![at[g]] =
           [n \in Name |-> IF \E i \in DOMAIN devices[g] : devices[g][i] = n THEN g ELSE memory_content[at[g]][n]]]
      /\ UNCHANGED <<offered, at, flavor, resources, context, move, devices, confirmed>>
  BY DEF Memory!Write, MemoryIInv, MemoryTyped
<1>2. at[g] \in Host /\ MemoryTyped /\ Placed(g) /\ EmptiedSource(g) /\ confirmed \subseteq Host \X Name
  BY <1>1, AtHost
<1>3. /\ memory_content' \in Contents
      /\ \A k \in Host, n \in Name : memory_content'[k][n] =
           IF k = at[g] /\ (\E i \in DOMAIN devices[g] : devices[g][i] = n) THEN g ELSE memory_content[k][n]
  <2>1. memory_content \in Contents
    BY <1>2 DEF MemoryTyped, Contents
  <2> DEFINE w == [n \in Name |-> IF \E i \in DOMAIN devices[g] : devices[g][i] = n
                                  THEN g ELSE memory_content[at[g]][n]]
  <2>2. /\ w \in [Name -> Guest \union {None}]
        /\ \A n \in Name : w[n] = IF \E i \in DOMAIN devices[g] : devices[g][i] = n
                                  THEN g ELSE memory_content[at[g]][n]
    BY <1>2, <2>1 DEF Contents
  <2>3. memory_content' = [memory_content EXCEPT ![at[g]] = w]
    BY <1>1
  <2> HIDE DEF w
  <2>4. \A k \in Host : memory_content'[k] = IF k = at[g] THEN w ELSE memory_content[k]
    BY <1>2, <2>1, <2>3 DEF Contents
  <2> QED
    BY <1>2, <2>1, <2>2, <2>3, <2>4 DEF Contents
<1>4. MemoryTyped' /\ Elsewhere(g)
  BY <1>1, <1>2, <1>3 DEF MemoryTyped, Contents, Elsewhere
<1>5. \A i \in DOMAIN devices[g] :
        /\ devices[g][i] \in Memory!Names(Memory!Held(g, at[g]))
        /\ devices[g][i] \in Memory!Names(Here(g))
  <2>1. Fits(devices[g], Here(g), flavor[g])
    BY <1>1, <1>2 DEF Placed
  <2>2. \A i \in DOMAIN devices[g] : <<flavor[g][i], devices[g][i]>> \in Here(g)
                                     /\ <<flavor[g][i], devices[g][i]>>[2] = devices[g][i]
    BY <2>1 DEF Fits
  <2>3. \A i \in DOMAIN devices[g] : devices[g][i] \in Memory!Names(Here(g))
    BY <2>2 DEF Memory!Names
  <2> QED
    BY <1>1, <2>3, DevicesAreHeld
<1>6. Touches(g)
  <2>1. \A h \in Host, n \in Name : memory_content'[h][n] # memory_content[h][n] =>
          n \in Memory!Names(Memory!Held(g, h))
    BY <1>3, <1>5
  <2> QED
    BY <2>1, OwnTouched
<1>7. Spares(g)
  <2>1. CASE move[g] = "resized"
    <3>1. \A h \in Host, n \in Name : memory_content'[h][n] # memory_content[h][n] =>
            h = at[g] /\ n \in Memory!Names(resources[g])
      BY <1>3, <1>5, <2>1 DEF Here
    <3> QED
      BY <3>1, SparesOld
  <2> QED
    BY <2>1 DEF Spares
<1>8. \A k \in Host : Memory!Held(g, k)' = Memory!Held(g, k)
  BY <1>1 DEF Memory!Held, Memory!Moving
<1>9. Placed(g)'
  <2>1. Here(g)' = Here(g) /\ (Memory!Moving(g)' <=> Memory!Moving(g)) /\ (MovesRight(g)' <=> MovesRight(g))
    BY <1>1 DEF Here, Memory!Moving, MovesRight, Matching
  <2>2. Fits(devices[g], Here(g), flavor[g])' <=> Fits(devices[g], Here(g), flavor[g])
    BY <1>1, <2>1 DEF Fits
  <2> QED
    BY <1>1, <1>2, <2>1, <2>2 DEF Placed, Matching, OnTheMove
<1>10. EmptiedSource(g)'
  <2> SUFFICES ASSUME move[g] = "left", NEW n \in Memory!Names(context[g].old_resources)
               PROVE  memory_content'[context[g].source][n] = None
    BY <1>1 DEF EmptiedSource
  <2>1. context[g] \in MoveContext /\ MovesRight(g)
    BY <1>2 DEF MemoryTyped, Placed, OnTheMove, Memory!Moving
  <2>2. context[g].source \in Host /\ context[g].source # at[g] /\ n \in Name
    BY <2>1 DEF MoveContext, MovesRight, Memory!Names, Resource
  <2>3. memory_content[context[g].source][n] = None
    BY <1>2 DEF EmptiedSource
  <2> QED
    BY <1>3, <2>2, <2>3
<1>11. \A h \in Host, n \in Name :
         \/ memory_content'[h][n] \in {memory_content[h][n], None}
         \/ n \in Memory!Names(Memory!Held(g, h)')
  BY <1>3, <1>5, <1>8
<1>12. TakesFree(g) /\ ZeroesReturned(g)
  BY <1>8, <1>11 DEF TakesFree, ZeroesReturned
<1> QED
  BY <1>1, <1>4, <1>6, <1>7, <1>9, <1>10, <1>12, OneGuestSteps


\* so does a hard reboot,
LEMMA HardRebootKeeps ==
  ASSUME MemoryIInv, NEW g \in Guest, Memory!HardReboot(g)
  PROVE  MemoryIInv' /\ Touches(g) /\ Spares(g)
<1>1. /\ at[g] # None /\ move[g] \in {"no", "resized", "error"}
      /\ memory_content' = Memory!Zeroed(at[g], Memory!Names(resources[g]))
      /\ devices' = [devices EXCEPT ![g] = Memory!Devices(resources[g], flavor[g])]
      /\ move' = [move EXCEPT ![g] = IF move[g] = "error" THEN "no" ELSE move[g]]
      /\ UNCHANGED <<offered, at, flavor, resources, context, confirmed>>
  BY DEF Memory!HardReboot, MemoryIInv, MemoryTyped
<1>2. at[g] \in Host /\ MemoryTyped /\ Placed(g) /\ EmptiedSource(g) /\ confirmed \subseteq Host \X Name
  BY <1>1, AtHost
<1>3. GuestTyped(g)
  BY <1>2, SameGuest
<1>4. Matching(resources[g], flavor[g]) # {} /\ resources[g] \subseteq Memory!Held(g, at[g])
  <2>1. CASE move[g] = "resized"
    <3>1. MovesRight(g) /\ Memory!Moving(g)
      BY <1>2, <2>1 DEF Placed, OnTheMove
    <3> QED
      BY <2>1, <3>1, HeldAre DEF MovesRight
  <2>2. CASE move[g] # "resized"
    <3>1. move[g] \notin OnTheMove
      BY <1>1, <2>2 DEF OnTheMove
    <3> QED
      BY <1>1, <1>2, <3>1, HeldAre DEF Placed
  <2> QED
    BY <2>1, <2>2
<1>5. Fits(Memory!Devices(resources[g], flavor[g]), resources[g], flavor[g])
  BY <1>3, <1>4, Labels, DevicesFit DEF GuestTyped
<1>6. /\ memory_content' \in Contents
      /\ \A k \in Host, n \in Name : memory_content'[k][n] =
           IF k = at[g] /\ n \in Memory!Names(resources[g]) THEN None ELSE memory_content[k][n]
  BY <1>1, <1>2, ZeroedIs DEF Contents
<1>7. /\ devices'[g] = Memory!Devices(resources[g], flavor[g]) /\ devices'[g] \in Seq(Name)
      /\ move'[g] = IF move[g] = "error" THEN "no" ELSE move[g]
      /\ move'[g] \in {"no", "resized"} /\ (move'[g] = "resized" <=> move[g] = "resized")
  BY <1>1, <1>2, <1>5, SameGuest DEF Fits
<1>8. Moves(g)
  BY <1>1, <1>2, <1>7, SameGuest DEF Moves
<1>9. MemoryTyped' /\ Elsewhere(g)
  BY <1>1, <1>2, <1>3, <1>6, <1>7, <1>8, GuestChanges DEF GuestTyped
<1>10. \A k \in Host : Memory!Held(g, k)' = Memory!Held(g, k)
  BY <1>1 DEF Memory!Held, Memory!Moving
<1>11. \A h \in Host, n \in Name : memory_content'[h][n] # memory_content[h][n] =>
         h = at[g] /\ n \in Memory!Names(resources[g]) /\ n \in Memory!Names(Memory!Held(g, h))
  BY <1>4, <1>6 DEF Memory!Names
<1>12. Touches(g) /\ Spares(g)
  BY <1>11, OwnTouched, SparesOld
<1>13. Placed(g)'
  <2>1. Here(g)' = resources[g] /\ (Memory!Moving(g)' <=> Memory!Moving(g))
    BY <1>1, <1>7 DEF Here, Memory!Moving
  <2>2. Fits(devices[g], Here(g), flavor[g])'
    BY <1>1, <1>5, <1>7, <2>1 DEF Fits
  <2>3. move[g] = "resized" => (MovesRight(g)' <=> MovesRight(g))
    BY <1>1, <1>7 DEF MovesRight, Matching
  <2> QED
    BY <1>1, <1>2, <1>7, <2>1, <2>2, <2>3 DEF Placed, Matching, OnTheMove
<1>14. EmptiedSource(g)'
  BY <1>7 DEF EmptiedSource
<1>15. TakesFree(g) /\ ZeroesReturned(g)
  BY <1>6, <1>10 DEF TakesFree, ZeroesReturned
<1> QED
  BY <1>1, <1>9, <1>12, <1>13, <1>14, <1>15, OneGuestSteps

\* so does deleting the guest,
LEMMA DeleteKeeps ==
  ASSUME MemoryIInv, NEW g \in Guest, Memory!Delete(g)
  PROVE  MemoryIInv' /\ Touches(g) /\ Spares(g)
<1>1. /\ at[g] # None /\ move[g] \in {"no", "error"}
      /\ UNCHANGED <<offered, context, confirmed>>
  BY DEF Memory!Delete
<1>2. at[g] \in Host /\ MemoryTyped /\ Placed(g) /\ EmptiedSource(g) /\ confirmed \subseteq Host \X Name
  BY <1>1, AtHost
<1>3. GuestTyped(g)
  BY <1>2, SameGuest
<1>4. /\ move[g] \notin OnTheMove /\ ~Memory!Moving(g) /\ ~Memory!Moving(g)'
      /\ \A k \in Host : Memory!Held(g, k) = IF at[g] = k THEN resources[g] ELSE {}
  BY <1>1, <1>2, HeldAre DEF OnTheMove, Placed, Memory!Moving, Memory!NoContext
<1>5. Spares(g)
  BY <1>1 DEF Spares
<1>6. CASE /\ memory_content' = Memory!Cleanup(g) /\ move' = [move EXCEPT ![g] = "no"]
           /\ at' = [at EXCEPT ![g] = None] /\ resources' = [resources EXCEPT ![g] = {}]
           /\ devices' = [devices EXCEPT ![g] = <<>>] /\ flavor' = [flavor EXCEPT ![g] = <<>>]
  <2>1. /\ memory_content' \in Contents
        /\ \A k \in Host, n \in Name : memory_content'[k][n] =
             IF k = at[g] /\ n \in Memory!Names(resources[g]) THEN None ELSE memory_content[k][n]
    BY <1>2, <1>6, ZeroedIs DEF Contents, Memory!Cleanup
  <2>2. /\ at'[g] = None /\ flavor'[g] = <<>> /\ resources'[g] = {} /\ context'[g] = context[g]
        /\ move'[g] = "no" /\ devices'[g] = <<>> /\ devices'[g] \in Seq(Name)
    BY <1>1, <1>2, <1>6, SameGuest
  <2>3. Moves(g)
    BY <1>1, <1>2, <1>6, <2>2, SameGuest DEF Moves
  <2>4. MemoryTyped' /\ Elsewhere(g)
    BY <1>1, <1>2, <1>3, <2>1, <2>2, <2>3, GuestChanges DEF GuestTyped
  <2>5. \A k \in Host : Memory!Held(g, k)' = {}
    BY <1>4, <2>2 DEF Memory!Held
  <2>6. Placed(g)' /\ EmptiedSource(g)'
    BY <1>4, <2>2 DEF Placed, EmptiedSource, OnTheMove
  <2>7. \A h \in Host, n \in Name : memory_content'[h][n] # memory_content[h][n] =>
          n \in Memory!Names(Memory!Held(g, h))
    BY <1>4, <2>1
  <2>8. Touches(g)
    BY <2>7, OwnTouched
  <2>9. TakesFree(g)
    BY <2>5 DEF TakesFree
  <2>10. ZeroesReturned(g)
    <3> SUFFICES ASSUME NEW h \in Host, NEW n \in Name
                 PROVE  /\ memory_content'[h][n] \in {memory_content[h][n], None}
                        /\ n \in Memory!Names(Memory!Held(g, h)) => memory_content'[h][n] = None
      BY DEF ZeroesReturned
    <3>1. n \in Memory!Names(Memory!Held(g, h)) => h = at[g] /\ n \in Memory!Names(resources[g])
      BY <1>4 DEF Memory!Names
    <3> QED
      BY <2>1, <3>1
  <2> QED
    BY <1>1, <1>5, <2>4, <2>6, <2>8, <2>9, <2>10, OneGuestSteps
<1>7. CASE /\ \E names \in SUBSET Memory!Names(resources[g]) : memory_content' = Memory!Zeroed(at[g], names)
           /\ move' = [move EXCEPT ![g] = "error"] /\ UNCHANGED <<at, resources, devices, flavor>>
  <2>1. PICK names \in SUBSET Memory!Names(resources[g]) : memory_content' = Memory!Zeroed(at[g], names)
    BY <1>7
  <2>2. /\ memory_content' \in Contents
        /\ \A k \in Host, n \in Name : memory_content'[k][n] =
             IF k = at[g] /\ n \in names THEN None ELSE memory_content[k][n]
    BY <1>2, <2>1, ZeroedIs DEF Contents
  <2>3. move'[g] = "error"
    BY <1>2, <1>7, SameGuest
  <2>4. Moves(g)
    BY <1>1, <1>2, <1>7, <2>3, SameGuest DEF Moves
  <2>5. MemoryTyped' /\ Elsewhere(g)
    BY <1>1, <1>2, <1>3, <1>7, <2>2, <2>3, <2>4, GuestChanges DEF GuestTyped
  <2>6. \A k \in Host : Memory!Held(g, k)' = Memory!Held(g, k)
    BY <1>1, <1>7 DEF Memory!Held, Memory!Moving
  <2>7. Placed(g)'
    <3>1. Here(g)' = resources[g] /\ Here(g) = resources[g]
      BY <1>1, <1>7, <2>3 DEF Here
    <3>2. Fits(devices[g], Here(g), flavor[g])'
      BY <1>1, <1>2, <1>7, <3>1 DEF Fits, Placed
    <3> QED
      BY <1>1, <1>2, <1>4, <1>7, <2>3, <3>2 DEF Placed, OnTheMove, Matching
  <2>8. EmptiedSource(g)'
    BY <2>3 DEF EmptiedSource
  <2>9. \A h \in Host, n \in Name : memory_content'[h][n] # memory_content[h][n] =>
          n \in Memory!Names(Memory!Held(g, h))
    BY <1>4, <2>2
  <2>10. Touches(g)
    BY <2>9, OwnTouched
  <2>11. TakesFree(g) /\ ZeroesReturned(g)
    BY <2>2, <2>6 DEF TakesFree, ZeroesReturned
  <2> QED
    BY <1>1, <1>5, <2>5, <2>7, <2>8, <2>10, <2>11, OneGuestSteps
<1> QED
  BY <1>6, <1>7, Zenon DEF Memory!Delete

\* so does the claim of a resize or a live migration at its destination,
LEMMA PrepareKeeps ==
  ASSUME MemoryIInv, NEW g \in Guest, NEW h \in Host, NEW f \in Flavors \union {<<>>},
         NEW k \in {"resizing", "migrating"}, k = "migrating" => f = flavor[g] /\ h # at[g],
         Memory!Prepare(g, h, f, k)
  PROVE  MemoryIInv' /\ Touches(g) /\ Spares(g)
<1>1. PICK rs \in Memory!Assigned(h, f) :
        context' = [context EXCEPT ![g] =
          [source |-> at[g], dest |-> h, old_flavor |-> flavor[g], new_flavor |-> f,
           old_resources |-> resources[g], new_resources |-> rs]]
  BY Zenon DEF Memory!Prepare
<1>2. /\ at[g] # None /\ move[g] = "no" /\ move' = [move EXCEPT ![g] = k]
      /\ UNCHANGED <<offered, memory_content, at, flavor, resources, devices, confirmed>>
  BY DEF Memory!Prepare
<1>3. at[g] \in Host /\ MemoryTyped /\ Placed(g) /\ EmptiedSource(g) /\ confirmed \subseteq Host \X Name
  BY <1>2, AtHost
<1>4. GuestTyped(g) /\ memory_content \in Contents
  BY <1>3, SameGuest
<1>5. /\ rs \in SUBSET Resource /\ rs \subseteq offered[h] /\ Matching(rs, f) # {} /\ f \in Seq(STRING)
      /\ \A q \in Guest : rs \intersect Memory!Held(q, h) = {}
  BY AssignedFits
<1> DEFINE c == [source |-> at[g], dest |-> h, old_flavor |-> flavor[g], new_flavor |-> f,
                 old_resources |-> resources[g], new_resources |-> rs]
<1>6. /\ c \in MoveContext
      /\ c.source = at[g] /\ c.dest = h /\ c.old_flavor = flavor[g] /\ c.new_flavor = f
      /\ c.old_resources = resources[g] /\ c.new_resources = rs
  <2>1. flavor[g] \in Seq(STRING) /\ resources[g] \in SUBSET Resource
    BY <1>4, Labels DEF GuestTyped
  <2> QED
    BY <1>3, <1>5, <2>1 DEF MoveContext
<1>7. c # Memory!NoContext
  BY <1>3, <1>6, MemoryAssumption DEF Memory!NoContext, Memory!PersistentMemoryAssumption
<1>8. context' = [context EXCEPT ![g] = c]
  BY <1>1
<1> HIDE DEF c
<1>9. context'[g] = c /\ move'[g] = k
  BY <1>2, <1>3, <1>8, SameGuest
<1>10. Moves(g)
  BY <1>2, <1>3, <1>8, <1>9, SameGuest DEF Moves
<1>11. MemoryTyped' /\ Elsewhere(g)
  <2>1. c \in MoveContext \union {Memory!NoContext} /\ k \in OnTheMove
    BY <1>6 DEF OnTheMove
  <2> HIDE DEF MoveContext, OnTheMove
  <2> QED
    BY <1>2, <1>3, <1>4, <1>9, <1>10, <2>1, GuestChanges DEF GuestTyped
<1>12. /\ ~Memory!Moving(g) /\ Memory!Moving(g)'
       /\ \A j \in Host : Memory!Held(g, j) = IF at[g] = j THEN resources[g] ELSE {}
  BY <1>2, <1>3, <1>7, <1>9, HeldAre DEF OnTheMove, Placed, Memory!Moving, Memory!NoContext
<1>13. \A j \in Host : Memory!Held(g, j) \subseteq Memory!Held(g, j)'
  BY <1>6, <1>9, <1>12 DEF Memory!Held
<1>14. \A j \in Host : \A r \in Memory!Held(g, j)' \ Memory!Held(g, j) : j = h /\ r \in rs
  BY <1>6, <1>9, <1>12 DEF Memory!Held
<1>15. Touches(g) /\ Spares(g)
  BY <1>2 DEF Touches, Spares
<1>16. TakesFree(g)
  BY <1>5, <1>14 DEF TakesFree
<1>17. ZeroesReturned(g)
  BY <1>2, <1>13 DEF ZeroesReturned, Memory!Names
<1>18. MovesRight(g)'
  <2>1. at[g] = h => resources[g] \intersect rs = {}
    BY <1>3, <1>5, <1>12
  <2>2. /\ resources[g] \subseteq offered[at[g]] /\ Matching(resources[g], flavor[g]) # {}
    BY <1>2, <1>3 DEF Placed, OnTheMove
  <2>3. flavor[g] \in Flavors \union {<<>>}
    BY <1>4 DEF GuestTyped
  <2>4. /\ at'[g] = at[g] /\ move'[g] \in {"resizing", "migrating"} /\ resources'[g] = resources[g]
        /\ flavor'[g] = flavor[g] /\ offered' = offered
        /\ context'[g].source = at[g] /\ context'[g].dest = h
        /\ context'[g].old_flavor = flavor[g] /\ context'[g].new_flavor = f
        /\ context'[g].old_resources = resources[g] /\ context'[g].new_resources = rs
        /\ move'[g] = "migrating" => f = flavor[g] /\ h # at[g]
    BY <1>2, <1>6, <1>9
  <2>5. /\ Matching(context[g].old_resources, context[g].old_flavor)' = Matching(resources[g], flavor[g])
        /\ Matching(context[g].new_resources, context[g].new_flavor)' = Matching(rs, f)
    BY <2>4 DEF Matching
  <2> QED
    BY <1>5, <2>1, <2>2, <2>3, <2>4, <2>5 DEF MovesRight
<1>19. Placed(g)'
  <2>1. Here(g)' = Here(g)
    BY <1>2, <1>9 DEF Here
  <2>2. Fits(devices[g], Here(g), flavor[g])'
    BY <1>2, <1>3, <2>1 DEF Fits, Placed
  <2> QED
    BY <1>2, <1>9, <1>12, <1>18, <2>2 DEF Placed, OnTheMove
<1>20. EmptiedSource(g)'
  BY <1>9 DEF EmptiedSource
<1> QED
  BY <1>2, <1>11, <1>15, <1>16, <1>17, <1>19, <1>20, OneGuestSteps


\* What is known of a guest on the move.
LEMMA OnTheWay ==
  ASSUME MemoryIInv, NEW g \in Guest, move[g] \in OnTheMove
  PROVE  /\ at[g] \in Host /\ MemoryTyped /\ Placed(g) /\ EmptiedSource(g) /\ confirmed \subseteq Host \X Name
         /\ GuestTyped(g) /\ memory_content \in Contents /\ MovesRight(g) /\ Memory!Moving(g)
         /\ context[g] \in MoveContext
         /\ context[g].source \in Host /\ context[g].dest \in Host
         /\ context[g].old_flavor \in Seq(STRING) /\ context[g].new_flavor \in Seq(STRING)
         /\ context[g].old_resources \in SUBSET Resource /\ context[g].new_resources \in SUBSET Resource
<1>1. MemoryTyped /\ Placed(g) /\ EmptiedSource(g) /\ MovesRight(g) /\ Memory!Moving(g)
  BY DEF MemoryIInv, Placed
<1>2. /\ context[g] \in MoveContext /\ GuestTyped(g) /\ memory_content \in Contents
      /\ confirmed \subseteq Host \X Name
  BY <1>1, SameGuest DEF GuestTyped, Memory!Moving, MemoryTyped
<1>3. /\ context[g].source \in Host /\ context[g].dest \in Host
      /\ context[g].old_flavor \in Seq(STRING) /\ context[g].new_flavor \in Seq(STRING)
      /\ context[g].old_resources \in SUBSET Resource /\ context[g].new_resources \in SUBSET Resource
  BY <1>2 DEF MoveContext
<1>4. at[g] \in Host
  BY <1>1, <1>3 DEF MovesRight
<1> QED
  BY <1>1, <1>2, <1>3, <1>4

\* so does the end of a resize,
LEMMA FinishMigrationKeeps ==
  ASSUME MemoryIInv, NEW g \in Guest, Memory!FinishMigration(g)
  PROVE  MemoryIInv' /\ Touches(g) /\ Spares(g)
<1>1. /\ move[g] = "resizing"
      /\ at' = [at EXCEPT ![g] = context[g].dest] /\ flavor' = [flavor EXCEPT ![g] = context[g].new_flavor]
      /\ resources' = [resources EXCEPT ![g] = context[g].new_resources]
      /\ devices' = [devices EXCEPT ![g] = Memory!Devices(context[g].new_resources, context[g].new_flavor)]
      /\ move' = [move EXCEPT ![g] = "resized"]
      /\ UNCHANGED <<offered, memory_content, context, confirmed>>
  BY DEF Memory!FinishMigration
<1>2. /\ at[g] \in Host /\ MemoryTyped /\ Placed(g) /\ confirmed \subseteq Host \X Name
      /\ GuestTyped(g) /\ memory_content \in Contents /\ MovesRight(g) /\ Memory!Moving(g)
      /\ context[g].dest \in Host /\ context[g].new_flavor \in Seq(STRING)
      /\ context[g].new_resources \in SUBSET Resource
  BY <1>1, OnTheWay DEF OnTheMove
<1>3. /\ context[g].new_flavor \in Flavors \union {<<>>}
      /\ Fits(Memory!Devices(context[g].new_resources, context[g].new_flavor),
              context[g].new_resources, context[g].new_flavor)
  BY <1>2, DevicesFit DEF MovesRight
<1>4. /\ at'[g] = context[g].dest /\ flavor'[g] = context[g].new_flavor
      /\ resources'[g] = context[g].new_resources /\ move'[g] = "resized" /\ context'[g] = context[g]
      /\ devices'[g] = Memory!Devices(context[g].new_resources, context[g].new_flavor)
      /\ devices'[g] \in Seq(Name)
  BY <1>1, <1>2, <1>3, SameGuest DEF Fits
<1>5. Moves(g)
  BY <1>1, <1>2, <1>4, SameGuest DEF Moves
<1>6. MemoryTyped' /\ Elsewhere(g)
  BY <1>1, <1>2, <1>3, <1>4, <1>5, GuestChanges DEF GuestTyped, OnTheMove
<1>7. Memory!Moving(g)' /\ \A k \in Host : Memory!Held(g, k)' = Memory!Held(g, k)
  BY <1>1, <1>2 DEF Memory!Held, Memory!Moving, Memory!NoContext
<1>8. Touches(g) /\ TakesFree(g) /\ ZeroesReturned(g) /\ Spares(g)
  BY <1>1, <1>7 DEF Touches, TakesFree, ZeroesReturned, Spares
<1>9. MovesRight(g)'
  <2>1. /\ Matching(context[g].old_resources, context[g].old_flavor)' = Matching(context[g].old_resources, context[g].old_flavor)
        /\ Matching(context[g].new_resources, context[g].new_flavor)' = Matching(context[g].new_resources, context[g].new_flavor)
    BY <1>4 DEF Matching
  <2> QED
    BY <1>1, <1>2, <1>4, <2>1 DEF MovesRight
<1>10. Placed(g)'
  <2>1. Here(g)' = context[g].new_resources
    BY <1>4 DEF Here
  <2>2. Fits(devices[g], Here(g), flavor[g])'
    BY <1>3, <1>4, <2>1 DEF Fits
  <2>3. at'[g] # None
    BY <1>2, <1>4, MemoryAssumption DEF Memory!PersistentMemoryAssumption
  <2> QED
    BY <1>4, <1>7, <1>9, <2>2, <2>3 DEF Placed, OnTheMove
<1>11. EmptiedSource(g)'
  BY <1>4 DEF EmptiedSource
<1> QED
  BY <1>1, <1>6, <1>8, <1>10, <1>11, OneGuestSteps

\* so does its confirmation,
LEMMA ConfirmMigrationKeeps ==
  ASSUME MemoryIInv, NEW g \in Guest, Memory!ConfirmMigration(g)
  PROVE  MemoryIInv' /\ Touches(g) /\ Spares(g)
<1>1. /\ move[g] = "resized"
      /\ memory_content' = Memory!Zeroed(context[g].source, Memory!Names(Memory!GetResources(g, "old")))
      /\ confirmed' = confirmed \union {<<context[g].source, n>> : n \in Memory!Names(context[g].old_resources)}
      /\ context' = [context EXCEPT ![g] = Memory!NoContext] /\ move' = [move EXCEPT ![g] = "no"]
      /\ UNCHANGED <<offered, at, flavor, resources, devices>>
  BY DEF Memory!ConfirmMigration
<1>2. /\ at[g] \in Host /\ MemoryTyped /\ Placed(g) /\ confirmed \subseteq Host \X Name
      /\ GuestTyped(g) /\ memory_content \in Contents /\ MovesRight(g) /\ Memory!Moving(g)
      /\ context[g] \in MoveContext /\ context[g].source \in Host
      /\ context[g].old_resources \in SUBSET Resource
  BY <1>1, OnTheWay DEF OnTheMove
<1>3. Memory!GetResources(g, "old") = {}
  <2>1. Memory!AttributeOf["old"] = "oldresources"
    BY DEF Memory!AttributeOf
  <2>2. "oldresources" \notin DOMAIN context[g]
    BY <1>2 DEF MoveContext
  <2> QED
    BY <2>1, <2>2 DEF Memory!GetResources
<1>4. \A k \in Host, n \in Name : memory_content'[k][n] = memory_content[k][n]
  <2>1. Memory!Names({}) = {}
    BY DEF Memory!Names
  <2>2. memory_content' = Memory!Zeroed(context[g].source, {})
    BY <1>1, <1>3, <2>1
  <2> QED
    BY <1>2, <2>2, ZeroedIs
<1>5. memory_content' \in Contents
  BY <1>1, <1>2, ZeroedIs DEF Contents
<1>6. confirmed' \subseteq Host \X Name /\ confirmed \subseteq confirmed'
  BY <1>1, <1>2 DEF Memory!Names, Resource
<1>7. context'[g] = Memory!NoContext /\ move'[g] = "no"
  BY <1>1, <1>2, SameGuest
<1>8. Moves(g)
  BY <1>1, <1>2, <1>7, SameGuest DEF Moves
<1>9. MemoryTyped' /\ Elsewhere(g)
  BY <1>1, <1>2, <1>5, <1>6, <1>7, <1>8, GuestChanges DEF GuestTyped
<1>10. /\ ~Memory!Moving(g)'
       /\ \A k \in Host : Memory!Held(g, k)' = IF at[g] = k THEN resources[g] ELSE {}
  BY <1>1, <1>7 DEF Memory!Moving, Memory!Held
<1>11. at[g] = context[g].dest /\ resources[g] = context[g].new_resources
  BY <1>1, <1>2 DEF MovesRight
<1>12. \A k \in Host : Memory!Held(g, k)' \subseteq Memory!Held(g, k)
  BY <1>2, <1>10, <1>11, HeldAre
<1>13. Touches(g) /\ TakesFree(g)
  BY <1>4, <1>12 DEF Touches, TakesFree
<1>14. Spares(g)
  BY <1>2, <1>4 DEF Spares, Memory!Names, Resource
<1>15. ZeroesReturned(g)
  <2> SUFFICES ASSUME NEW h \in Host, NEW n \in Name,
                      n \in Memory!Names(Memory!Held(g, h)), n \notin Memory!Names(Memory!Held(g, h)')
               PROVE  <<h, n>> \in confirmed'
    BY <1>4 DEF ZeroesReturned
  <2>1. PICK r \in Memory!Held(g, h) : r[2] = n
    BY DEF Memory!Names
  <2>2. \/ r \in context[g].old_resources /\ context[g].source = h
        \/ r \in context[g].new_resources /\ context[g].dest = h
    BY <1>2, HeldAre
  <2>3. CASE r \in context[g].old_resources /\ context[g].source = h
    BY <1>1, <2>1, <2>3 DEF Memory!Names
  <2>4. CASE r \in context[g].new_resources /\ context[g].dest = h
    <3>1. r \in Memory!Held(g, h)'
      BY <1>10, <1>11, <2>4
    <3> QED
      BY <2>1, <3>1 DEF Memory!Names
  <2> QED
    BY <2>2, <2>3, <2>4
<1>16. Placed(g)'
  <2>1. Here(g)' = resources[g] /\ Here(g) = resources[g]
    BY <1>1, <1>7 DEF Here
  <2>2. Fits(devices[g], Here(g), flavor[g])'
    BY <1>1, <1>2, <2>1 DEF Fits, Placed
  <2>3. resources[g] \subseteq offered[at[g]] /\ Matching(resources[g], flavor[g]) # {}
    BY <1>1, <1>2, <1>11 DEF MovesRight
  <2> QED
    BY <1>1, <1>7, <1>10, <2>2, <2>3 DEF Placed, OnTheMove, Matching
<1>17. EmptiedSource(g)'
  BY <1>7 DEF EmptiedSource
<1> QED
  BY <1>1, <1>6, <1>9, <1>13, <1>14, <1>15, <1>16, <1>17, OneGuestSteps


\* so does its revert,
LEMMA RevertMigrationKeeps ==
  ASSUME MemoryIInv, NEW g \in Guest, Memory!RevertMigration(g)
  PROVE  MemoryIInv' /\ Touches(g) /\ Spares(g)
<1>1. /\ move[g] = "resized"
      /\ memory_content' = Memory!Zeroed(at[g], Memory!Names(resources[g]))
      /\ at' = [at EXCEPT ![g] = context[g].source] /\ flavor' = [flavor EXCEPT ![g] = context[g].old_flavor]
      /\ resources' = [resources EXCEPT ![g] = Memory!GetResources(g, "old_")]
      /\ devices' = [devices EXCEPT ![g] = Memory!Devices(context[g].old_resources, context[g].old_flavor)]
      /\ context' = [context EXCEPT ![g] = Memory!NoContext] /\ move' = [move EXCEPT ![g] = "no"]
      /\ UNCHANGED <<offered, confirmed>>
  BY DEF Memory!RevertMigration, Memory!RevertDestroys
<1>2. /\ at[g] \in Host /\ MemoryTyped /\ Placed(g) /\ confirmed \subseteq Host \X Name
      /\ GuestTyped(g) /\ memory_content \in Contents /\ MovesRight(g) /\ Memory!Moving(g)
      /\ context[g] \in MoveContext
      /\ context[g].source \in Host /\ context[g].old_flavor \in Seq(STRING)
      /\ context[g].old_resources \in SUBSET Resource
  BY <1>1, OnTheWay DEF OnTheMove
<1>3. Memory!GetResources(g, "old_") = context[g].old_resources
  <2>1. Memory!AttributeOf["old_"] = "old_resources"
    BY DEF Memory!AttributeOf
  <2>2. "old_resources" \in DOMAIN context[g]
    BY <1>2 DEF MoveContext
  <2> QED
    BY <2>1, <2>2 DEF Memory!GetResources
<1>4. /\ memory_content' \in Contents
      /\ \A k \in Host, n \in Name : memory_content'[k][n] =
           IF k = at[g] /\ n \in Memory!Names(resources[g]) THEN None ELSE memory_content[k][n]
  BY <1>1, <1>2, ZeroedIs DEF Contents
<1>5. /\ context[g].old_flavor \in Flavors \union {<<>>}
      /\ Fits(Memory!Devices(context[g].old_resources, context[g].old_flavor),
              context[g].old_resources, context[g].old_flavor)
  BY <1>2, DevicesFit DEF MovesRight
<1>6. /\ at'[g] = context[g].source /\ flavor'[g] = context[g].old_flavor
      /\ resources'[g] = context[g].old_resources /\ move'[g] = "no" /\ context'[g] = Memory!NoContext
      /\ devices'[g] = Memory!Devices(context[g].old_resources, context[g].old_flavor)
      /\ devices'[g] \in Seq(Name)
  BY <1>1, <1>2, <1>3, <1>5, SameGuest DEF Fits
<1>7. Moves(g)
  BY <1>1, <1>2, <1>3, <1>6, SameGuest DEF Moves
<1>8. MemoryTyped' /\ Elsewhere(g)
  BY <1>1, <1>2, <1>4, <1>5, <1>6, <1>7, GuestChanges
<1>9. at[g] = context[g].dest /\ resources[g] = context[g].new_resources
  BY <1>1, <1>2 DEF MovesRight
<1>10. /\ ~Memory!Moving(g)'
       /\ \A k \in Host : Memory!Held(g, k)' = IF context[g].source = k THEN context[g].old_resources ELSE {}
  BY <1>6 DEF Memory!Moving, Memory!Held
<1>11. \A k \in Host : Memory!Held(g, k)' \subseteq Memory!Held(g, k)
  BY <1>2, <1>10, HeldAre
<1>12. \A h \in Host, n \in Name : memory_content'[h][n] # memory_content[h][n] =>
         h = at[g] /\ n \in Memory!Names(resources[g]) /\ n \in Memory!Names(Memory!Held(g, h))
  <2>1. resources[g] \subseteq Memory!Held(g, at[g])
    BY <1>2, <1>9, HeldAre
  <2> QED
    BY <1>4, <2>1 DEF Memory!Names
<1>13. Touches(g) /\ Spares(g) /\ TakesFree(g)
  BY <1>11, <1>12, OwnTouched, SparesOld DEF TakesFree
<1>14. ZeroesReturned(g)
  <2> SUFFICES ASSUME NEW h \in Host, NEW n \in Name,
                      n \in Memory!Names(Memory!Held(g, h)), n \notin Memory!Names(Memory!Held(g, h)')
               PROVE  memory_content'[h][n] = None
    BY <1>4 DEF ZeroesReturned
  <2>1. PICK r \in Memory!Held(g, h) : r[2] = n
    BY DEF Memory!Names
  <2>2. \/ r \in context[g].old_resources /\ context[g].source = h
        \/ r \in context[g].new_resources /\ context[g].dest = h
    BY <1>2, HeldAre
  <2>3. CASE r \in context[g].old_resources /\ context[g].source = h
    <3>1. r \in Memory!Held(g, h)'
      BY <1>10, <2>3
    <3> QED
      BY <2>1, <3>1 DEF Memory!Names
  <2>4. CASE r \in context[g].new_resources /\ context[g].dest = h
    <3>1. h = at[g] /\ n \in Memory!Names(resources[g])
      BY <1>9, <2>1, <2>4 DEF Memory!Names
    <3> QED
      BY <1>4, <3>1
  <2> QED
    BY <2>2, <2>3, <2>4
<1>15. Placed(g)'
  <2>1. Here(g)' = context[g].old_resources
    BY <1>6 DEF Here
  <2>2. Fits(devices[g], Here(g), flavor[g])'
    BY <1>5, <1>6, <2>1 DEF Fits
  <2>3. /\ context[g].old_resources \subseteq offered[context[g].source]
        /\ Matching(context[g].old_resources, context[g].old_flavor) # {}
    BY <1>2 DEF MovesRight
  <2>4. Matching(resources[g], flavor[g])' = Matching(context[g].old_resources, context[g].old_flavor)
    BY <1>6 DEF Matching
  <2> QED
    BY <1>1, <1>6, <1>10, <2>2, <2>3, <2>4 DEF Placed, OnTheMove
<1>16. EmptiedSource(g)'
  BY <1>6 DEF EmptiedSource
<1> QED
  BY <1>1, <1>8, <1>13, <1>14, <1>15, <1>16, OneGuestSteps

\* so does the live migration itself,
LEMMA LiveMigrationKeeps ==
  ASSUME MemoryIInv, NEW g \in Guest, Memory!LiveMigration(g)
  PROVE  MemoryIInv' /\ Touches(g) /\ Spares(g)
<1> DEFINE to == Memory!Devices(Memory!GetResources(g, "new_"), flavor[g])
           w == [n \in Name |-> IF \E i \in DOMAIN to : to[i] = n
                                THEN memory_content[at[g]][devices[g][CHOOSE i \in DOMAIN to : to[i] = n]]
                                ELSE memory_content[context[g].dest][n]]
<1>1. /\ move[g] = "migrating"
      /\ devices' = [devices EXCEPT ![g] = to]
      /\ at' = [at EXCEPT ![g] = context[g].dest] /\ move' = [move EXCEPT ![g] = "arrived"]
      /\ UNCHANGED <<offered, flavor, resources, context, confirmed>>
  BY DEF Memory!LiveMigration
<1>2. /\ at[g] \in Host /\ MemoryTyped /\ Placed(g) /\ confirmed \subseteq Host \X Name
      /\ GuestTyped(g) /\ memory_content \in Contents /\ MovesRight(g) /\ Memory!Moving(g)
      /\ context[g] \in MoveContext
      /\ context[g].dest \in Host /\ context[g].new_flavor \in Seq(STRING)
      /\ context[g].new_resources \in SUBSET Resource
  BY <1>1, OnTheWay DEF OnTheMove
<1>3. memory_content' = [memory_content EXCEPT ![context[g].dest] = w]
  BY <1>2 DEF Memory!LiveMigration, Contents
<1>4. Memory!GetResources(g, "new_") = context[g].new_resources
  <2>1. Memory!AttributeOf["new_"] = "new_resources"
    BY DEF Memory!AttributeOf
  <2>2. "new_resources" \in DOMAIN context[g]
    BY <1>2 DEF MoveContext
  <2> QED
    BY <2>1, <2>2 DEF Memory!GetResources
<1>5. flavor[g] = context[g].new_flavor /\ at[g] = context[g].source /\ at[g] # context[g].dest
  BY <1>1, <1>2 DEF MovesRight
<1>6. Fits(to, context[g].new_resources, flavor[g])
  BY <1>2, <1>4, <1>5, DevicesFit DEF MovesRight
<1> HIDE DEF to
<1>7. /\ to \in Seq(Name) /\ DOMAIN to = DOMAIN devices[g]
      /\ \A i \in DOMAIN to : to[i] \in Memory!Names(context[g].new_resources)
  <2>1. Fits(devices[g], Here(g), flavor[g])
    BY <1>2, MemoryAssumption DEF Placed, Memory!PersistentMemoryAssumption
  <2>2. DOMAIN to = DOMAIN devices[g]
    BY <1>6, <2>1 DEF Fits
  <2>3. \A i \in DOMAIN to : <<flavor[g][i], to[i]>> \in context[g].new_resources /\ <<flavor[g][i], to[i]>>[2] = to[i]
    BY <1>6 DEF Fits
  <2> QED
    BY <1>6, <2>2, <2>3 DEF Fits, Memory!Names
<1>8. /\ w \in [Name -> Guest \union {None}]
      /\ \A n \in Name : n \notin Memory!Names(context[g].new_resources) => w[n] = memory_content[context[g].dest][n]
  <2>1. \A n \in Name : (\E i \in DOMAIN to : to[i] = n) =>
          /\ devices[g][CHOOSE i \in DOMAIN to : to[i] = n] \in Name
          /\ n \in Memory!Names(context[g].new_resources)
    BY <1>2, <1>7 DEF GuestTyped
  <2> QED
    BY <1>2, <2>1 DEF Contents
<1> HIDE DEF w
<1>9. /\ memory_content' \in Contents
      /\ \A k \in Host : memory_content'[k] = IF k = context[g].dest THEN w ELSE memory_content[k]
  BY <1>2, <1>3, <1>8 DEF Contents
<1>10. /\ at'[g] = context[g].dest /\ devices'[g] = to /\ move'[g] = "arrived" /\ context'[g] = context[g]
       /\ flavor'[g] = flavor[g] /\ resources'[g] = resources[g]
  BY <1>1, <1>2, SameGuest
<1>11. Moves(g)
  BY <1>1, <1>2, <1>10, SameGuest DEF Moves
<1>12. MemoryTyped' /\ Elsewhere(g)
  BY <1>1, <1>2, <1>7, <1>9, <1>10, <1>11, GuestChanges DEF GuestTyped, OnTheMove
<1>13. Memory!Moving(g)' /\ \A k \in Host : Memory!Held(g, k)' = Memory!Held(g, k)
  BY <1>1, <1>2 DEF Memory!Held, Memory!Moving, Memory!NoContext
<1>14. \A h \in Host, n \in Name : memory_content'[h][n] # memory_content[h][n] =>
         n \in Memory!Names(Memory!Held(g, h))
  <2>1. context[g].new_resources \subseteq Memory!Held(g, context[g].dest)
    BY <1>2, HeldAre
  <2> QED
    BY <1>8, <1>9, <2>1 DEF Memory!Names
<1>15. Touches(g) /\ TakesFree(g) /\ ZeroesReturned(g) /\ Spares(g)
  BY <1>1, <1>13, <1>14, OwnTouched DEF TakesFree, ZeroesReturned, Spares
<1>16. MovesRight(g)'
  <2>1. /\ Matching(context[g].old_resources, context[g].old_flavor)' = Matching(context[g].old_resources, context[g].old_flavor)
        /\ Matching(context[g].new_resources, context[g].new_flavor)' = Matching(context[g].new_resources, context[g].new_flavor)
    BY <1>10 DEF Matching
  <2> QED
    BY <1>1, <1>2, <1>10, <2>1 DEF MovesRight
<1>17. Placed(g)'
  <2>1. Here(g)' = context[g].new_resources
    BY <1>10 DEF Here
  <2>2. Fits(devices[g], Here(g), flavor[g])'
    BY <1>6, <1>10, <2>1 DEF Fits
  <2>3. at'[g] # None
    BY <1>2, <1>10, MemoryAssumption DEF Memory!PersistentMemoryAssumption
  <2> QED
    BY <1>10, <1>13, <1>16, <2>2, <2>3 DEF Placed, OnTheMove
<1>18. EmptiedSource(g)'
  BY <1>10 DEF EmptiedSource
<1> QED
  BY <1>1, <1>12, <1>15, <1>17, <1>18, OneGuestSteps

\* so does what follows it at the source,
LEMMA PostMigrationAtSourceKeeps ==
  ASSUME MemoryIInv, NEW g \in Guest, Memory!PostMigrationAtSource(g)
  PROVE  MemoryIInv' /\ Touches(g) /\ Spares(g)
<1>1. /\ move[g] = "arrived"
      /\ memory_content' = Memory!Zeroed(context[g].source, Memory!Names(resources[g]))
      /\ move' = [move EXCEPT ![g] = "left"]
      /\ UNCHANGED <<offered, at, flavor, resources, context, devices, confirmed>>
  BY DEF Memory!PostMigrationAtSource
<1>2. /\ at[g] \in Host /\ MemoryTyped /\ Placed(g) /\ confirmed \subseteq Host \X Name
      /\ GuestTyped(g) /\ memory_content \in Contents /\ MovesRight(g) /\ Memory!Moving(g)
      /\ context[g].source \in Host /\ context[g].old_resources \in SUBSET Resource
  BY <1>1, OnTheWay DEF OnTheMove
<1>3. /\ memory_content' \in Contents
      /\ \A k \in Host, n \in Name : memory_content'[k][n] =
           IF k = context[g].source /\ n \in Memory!Names(resources[g]) THEN None ELSE memory_content[k][n]
  BY <1>1, <1>2, ZeroedIs DEF Contents
<1>4. resources[g] = context[g].old_resources
  BY <1>1, <1>2 DEF MovesRight
<1>5. /\ move'[g] = "left" /\ context'[g] = context[g] /\ at'[g] = at[g] /\ flavor'[g] = flavor[g]
      /\ resources'[g] = resources[g] /\ devices'[g] = devices[g]
  BY <1>1, <1>2, SameGuest
<1>6. Moves(g)
  BY <1>1, <1>2, <1>5, SameGuest DEF Moves
<1>7. MemoryTyped' /\ Elsewhere(g)
  BY <1>1, <1>2, <1>3, <1>5, <1>6, GuestChanges DEF GuestTyped, OnTheMove
<1>8. Memory!Moving(g)' /\ \A k \in Host : Memory!Held(g, k)' = Memory!Held(g, k)
  BY <1>1, <1>2 DEF Memory!Held, Memory!Moving, Memory!NoContext
<1>9. \A h \in Host, n \in Name : memory_content'[h][n] # memory_content[h][n] =>
        n \in Memory!Names(Memory!Held(g, h))
  <2>1. resources[g] \subseteq Memory!Held(g, context[g].source)
    BY <1>2, <1>4, HeldAre
  <2> QED
    BY <1>3, <2>1 DEF Memory!Names
<1>10. Touches(g) /\ TakesFree(g) /\ ZeroesReturned(g) /\ Spares(g)
  BY <1>1, <1>3, <1>8, <1>9, OwnTouched DEF TakesFree, ZeroesReturned, Spares
<1>11. MovesRight(g)'
  <2>1. /\ Matching(context[g].old_resources, context[g].old_flavor)' = Matching(context[g].old_resources, context[g].old_flavor)
        /\ Matching(context[g].new_resources, context[g].new_flavor)' = Matching(context[g].new_resources, context[g].new_flavor)
    BY <1>5 DEF Matching
  <2> QED
    BY <1>1, <1>2, <1>5, <2>1 DEF MovesRight
<1>12. Placed(g)'
  <2>1. Here(g)' = Here(g)
    BY <1>1, <1>5 DEF Here
  <2>2. at[g] # None /\ Fits(devices[g], Here(g), flavor[g])
    BY <1>2, MemoryAssumption DEF Placed, Memory!PersistentMemoryAssumption
  <2>3. Fits(devices[g], Here(g), flavor[g])'
    BY <1>5, <2>1, <2>2 DEF Fits
  <2> QED
    BY <1>5, <1>8, <1>11, <2>2, <2>3 DEF Placed, OnTheMove
<1>13. EmptiedSource(g)'
  BY <1>2, <1>3, <1>4, <1>5 DEF EmptiedSource, Memory!Names, Resource
<1> QED
  BY <1>1, <1>7, <1>10, <1>12, <1>13, OneGuestSteps


\* so does what follows it at the destination,
LEMMA PostMigrationAtDestinationKeeps ==
  ASSUME MemoryIInv, NEW g \in Guest, Memory!PostMigrationAtDestination(g)
  PROVE  MemoryIInv' /\ Touches(g) /\ Spares(g)
<1>1. /\ move[g] = "left"
      /\ resources' = [resources EXCEPT ![g] = context[g].new_resources]
      /\ context' = [context EXCEPT ![g] = Memory!NoContext] /\ move' = [move EXCEPT ![g] = "no"]
      /\ UNCHANGED <<offered, memory_content, at, flavor, devices, confirmed>>
  BY DEF Memory!PostMigrationAtDestination
<1>2. /\ at[g] \in Host /\ MemoryTyped /\ Placed(g) /\ EmptiedSource(g) /\ confirmed \subseteq Host \X Name
      /\ GuestTyped(g) /\ memory_content \in Contents /\ MovesRight(g) /\ Memory!Moving(g)
      /\ context[g].dest \in Host /\ context[g].new_resources \in SUBSET Resource
  BY <1>1, OnTheWay DEF OnTheMove
<1>3. /\ at'[g] = at[g] /\ flavor'[g] = flavor[g] /\ devices'[g] = devices[g]
      /\ resources'[g] = context[g].new_resources /\ move'[g] = "no" /\ context'[g] = Memory!NoContext
  BY <1>1, <1>2, SameGuest
<1>4. Moves(g)
  BY <1>1, <1>2, <1>3, SameGuest DEF Moves
<1>5. MemoryTyped' /\ Elsewhere(g)
  BY <1>1, <1>2, <1>3, <1>4, GuestChanges DEF GuestTyped
<1>6. at[g] = context[g].dest /\ flavor[g] = context[g].new_flavor
  BY <1>1, <1>2 DEF MovesRight
<1>7. /\ ~Memory!Moving(g)'
      /\ \A k \in Host : Memory!Held(g, k)' = IF at[g] = k THEN context[g].new_resources ELSE {}
  BY <1>3 DEF Memory!Moving, Memory!Held
<1>8. \A k \in Host : Memory!Held(g, k)' \subseteq Memory!Held(g, k)
  BY <1>2, <1>6, <1>7, HeldAre
<1>9. Touches(g) /\ TakesFree(g) /\ Spares(g)
  BY <1>1, <1>8 DEF Touches, TakesFree, Spares
<1>10. ZeroesReturned(g)
  <2> SUFFICES ASSUME NEW h \in Host, NEW n \in Name,
                      n \in Memory!Names(Memory!Held(g, h)), n \notin Memory!Names(Memory!Held(g, h)')
               PROVE  memory_content'[h][n] = None
    BY <1>1 DEF ZeroesReturned
  <2>1. PICK r \in Memory!Held(g, h) : r[2] = n
    BY DEF Memory!Names
  <2>2. \/ r \in context[g].old_resources /\ context[g].source = h
        \/ r \in context[g].new_resources /\ context[g].dest = h
    BY <1>2, HeldAre
  <2>3. CASE r \in context[g].old_resources /\ context[g].source = h
    BY <1>1, <1>2, <2>1, <2>3 DEF EmptiedSource, Memory!Names
  <2>4. CASE r \in context[g].new_resources /\ context[g].dest = h
    <3>1. r \in Memory!Held(g, h)'
      BY <1>6, <1>7, <2>4
    <3> QED
      BY <2>1, <3>1 DEF Memory!Names
  <2> QED
    BY <2>2, <2>3, <2>4
<1>11. Placed(g)'
  <2>1. Here(g)' = context[g].new_resources /\ Here(g) = context[g].new_resources
    BY <1>1, <1>3 DEF Here
  <2>2. at[g] # None
    BY <1>2, MemoryAssumption DEF Memory!PersistentMemoryAssumption
  <2>3. Fits(devices[g], Here(g), flavor[g])'
    BY <1>2, <1>3, <2>1, <2>2 DEF Fits, Placed
  <2>4. /\ context[g].new_resources \subseteq offered[at[g]]
        /\ Matching(context[g].new_resources, flavor[g]) # {}
    BY <1>2, <1>6 DEF MovesRight
  <2>5. Matching(resources[g], flavor[g])' = Matching(context[g].new_resources, flavor[g])
    BY <1>3 DEF Matching
  <2> QED
    BY <1>1, <1>3, <1>7, <2>3, <2>4, <2>5 DEF Placed, OnTheMove
<1>12. EmptiedSource(g)'
  BY <1>3 DEF EmptiedSource
<1> QED
  BY <1>1, <1>5, <1>9, <1>10, <1>11, <1>12, OneGuestSteps

\* and so does its rollback.
LEMMA RollbackMigrationKeeps ==
  ASSUME MemoryIInv, NEW g \in Guest, Memory!RollbackMigration(g)
  PROVE  MemoryIInv' /\ Touches(g) /\ Spares(g)
<1>1. /\ move[g] = "migrating"
      /\ memory_content' = Memory!Zeroed(context[g].dest, Memory!Names(context[g].new_resources))
      /\ context' = [context EXCEPT ![g] = Memory!NoContext] /\ move' = [move EXCEPT ![g] = "no"]
      /\ UNCHANGED <<offered, at, flavor, resources, devices, confirmed>>
  BY DEF Memory!RollbackMigration
<1>2. /\ at[g] \in Host /\ MemoryTyped /\ Placed(g) /\ confirmed \subseteq Host \X Name
      /\ GuestTyped(g) /\ memory_content \in Contents /\ MovesRight(g) /\ Memory!Moving(g)
      /\ context[g].dest \in Host /\ context[g].new_resources \in SUBSET Resource
  BY <1>1, OnTheWay DEF OnTheMove
<1>3. /\ memory_content' \in Contents
      /\ \A k \in Host, n \in Name : memory_content'[k][n] =
           IF k = context[g].dest /\ n \in Memory!Names(context[g].new_resources)
           THEN None ELSE memory_content[k][n]
  BY <1>1, <1>2, ZeroedIs DEF Contents
<1>4. /\ at'[g] = at[g] /\ flavor'[g] = flavor[g] /\ devices'[g] = devices[g]
      /\ resources'[g] = resources[g] /\ move'[g] = "no" /\ context'[g] = Memory!NoContext
  BY <1>1, <1>2, SameGuest
<1>5. Moves(g)
  BY <1>1, <1>2, <1>4, SameGuest DEF Moves
<1>6. MemoryTyped' /\ Elsewhere(g)
  BY <1>1, <1>2, <1>3, <1>4, <1>5, GuestChanges DEF GuestTyped
<1>7. /\ at[g] = context[g].source /\ resources[g] = context[g].old_resources
      /\ flavor[g] = context[g].old_flavor
  BY <1>1, <1>2 DEF MovesRight
<1>8. /\ ~Memory!Moving(g)'
      /\ \A k \in Host : Memory!Held(g, k)' = IF at[g] = k THEN resources[g] ELSE {}
  BY <1>4 DEF Memory!Moving, Memory!Held
<1>9. \A k \in Host : Memory!Held(g, k)' \subseteq Memory!Held(g, k)
  BY <1>2, <1>7, <1>8, HeldAre
<1>10. \A h \in Host, n \in Name : memory_content'[h][n] # memory_content[h][n] =>
         n \in Memory!Names(Memory!Held(g, h))
  <2>1. context[g].new_resources \subseteq Memory!Held(g, context[g].dest)
    BY <1>2, HeldAre
  <2> QED
    BY <1>3, <2>1 DEF Memory!Names
<1>11. Touches(g) /\ TakesFree(g) /\ Spares(g)
  BY <1>1, <1>9, <1>10, OwnTouched DEF TakesFree, Spares
<1>12. ZeroesReturned(g)
  <2> SUFFICES ASSUME NEW h \in Host, NEW n \in Name,
                      n \in Memory!Names(Memory!Held(g, h)), n \notin Memory!Names(Memory!Held(g, h)')
               PROVE  memory_content'[h][n] = None
    BY <1>3 DEF ZeroesReturned
  <2>1. PICK r \in Memory!Held(g, h) : r[2] = n
    BY DEF Memory!Names
  <2>2. \/ r \in context[g].old_resources /\ context[g].source = h
        \/ r \in context[g].new_resources /\ context[g].dest = h
    BY <1>2, HeldAre
  <2>3. CASE r \in context[g].old_resources /\ context[g].source = h
    <3>1. r \in Memory!Held(g, h)'
      BY <1>7, <1>8, <2>3
    <3> QED
      BY <2>1, <3>1 DEF Memory!Names
  <2>4. CASE r \in context[g].new_resources /\ context[g].dest = h
    BY <1>3, <2>1, <2>4 DEF Memory!Names
  <2> QED
    BY <2>2, <2>3, <2>4
<1>13. Placed(g)'
  <2>1. Here(g)' = Here(g)
    BY <1>1, <1>4 DEF Here
  <2>2. at[g] # None
    BY <1>2, MemoryAssumption DEF Memory!PersistentMemoryAssumption
  <2>3. Fits(devices[g], Here(g), flavor[g])'
    BY <1>2, <1>4, <2>1, <2>2 DEF Fits, Placed
  <2>4. resources[g] \subseteq offered[at[g]] /\ Matching(resources[g], flavor[g]) # {}
    BY <1>2, <1>7 DEF MovesRight
  <2>5. Matching(resources[g], flavor[g])' = Matching(resources[g], flavor[g])
    BY <1>4 DEF Matching
  <2> QED
    BY <1>1, <1>4, <1>8, <2>3, <2>4, <2>5 DEF Placed, OnTheMove
<1>14. EmptiedSource(g)'
  BY <1>4 DEF EmptiedSource
<1> QED
  BY <1>1, <1>6, <1>11, <1>12, <1>13, <1>14, OneGuestSteps

\* Every step is one guest's, touches nothing of the others, and spares what
\* the guest may go back to.
LEMMA MemoryStep ==
  MemoryIInv /\ Memory!Next => MemoryIInv' /\ \E g \in Guest : Touches(g) /\ Spares(g)
<1> SUFFICES ASSUME MemoryIInv, NEW g \in Guest,
                    \/ Memory!Spawn(g) \/ Memory!Write(g) \/ Memory!HardReboot(g) \/ Memory!Delete(g)
                    \/ Memory!PrepareResize(g) \/ Memory!FinishMigration(g)
                    \/ Memory!ConfirmMigration(g) \/ Memory!RevertMigration(g)
                    \/ Memory!PrepareMigration(g) \/ Memory!LiveMigration(g)
                    \/ Memory!PostMigrationAtSource(g) \/ Memory!PostMigrationAtDestination(g)
                    \/ Memory!RollbackMigration(g)
             PROVE  MemoryIInv' /\ Touches(g) /\ Spares(g)
  BY DEF Memory!Next
<1>1. CASE Memory!Spawn(g) \/ Memory!Write(g) \/ Memory!HardReboot(g) \/ Memory!Delete(g)
  BY <1>1, SpawnKeeps, WriteKeeps, HardRebootKeeps, DeleteKeeps
<1>2. CASE Memory!FinishMigration(g) \/ Memory!ConfirmMigration(g) \/ Memory!RevertMigration(g)
  BY <1>2, FinishMigrationKeeps, ConfirmMigrationKeeps, RevertMigrationKeeps
<1>3. CASE \/ Memory!LiveMigration(g) \/ Memory!PostMigrationAtSource(g)
           \/ Memory!PostMigrationAtDestination(g) \/ Memory!RollbackMigration(g)
  BY <1>3, LiveMigrationKeeps, PostMigrationAtSourceKeeps, PostMigrationAtDestinationKeeps,
    RollbackMigrationKeeps
<1>4. CASE Memory!PrepareResize(g)
  BY <1>4, PrepareKeeps DEF Memory!PrepareResize
<1>5. CASE Memory!PrepareMigration(g)
  <2>1. PICK h \in Host \ {at[g]} : Memory!Prepare(g, h, flavor[g], "migrating")
    BY <1>5 DEF Memory!PrepareMigration
  <2>2. flavor[g] \in Flavors \union {<<>>}
    BY DEF MemoryIInv, MemoryTyped
  <2> QED
    BY <2>1, <2>2, PrepareKeeps
<1> QED
  BY <1>1, <1>2, <1>3, <1>4, <1>5

MemoryInv == part = "memory" => MemoryIInv

\* The invariant, with part of it for steps that change nothing.
LEMMA MemoryStays == MemoryIInv /\ UNCHANGED Memory!vars => MemoryIInv'
<1> SUFFICES ASSUME MemoryIInv, UNCHANGED Memory!vars PROVE MemoryIInv'
  OBVIOUS
<1>1. UNCHANGED <<offered, memory_content, at, flavor, resources, context, move, devices, confirmed>>
  BY DEF Memory!vars
<1>2. MemoryTyped'
  BY <1>1 DEF MemoryIInv, MemoryTyped
<1>3. \A g \in Guest : Placed(g)' /\ EmptiedSource(g)'
  <2> SUFFICES ASSUME NEW g \in Guest PROVE Placed(g)' /\ EmptiedSource(g)'
    OBVIOUS
  <2>1. Here(g)' = Here(g) /\ (Memory!Moving(g)' <=> Memory!Moving(g)) /\ (MovesRight(g)' <=> MovesRight(g))
    BY <1>1 DEF Here, Memory!Moving, MovesRight, Matching
  <2>2. Fits(devices[g], Here(g), flavor[g])' <=> Fits(devices[g], Here(g), flavor[g])
    BY <1>1, <2>1 DEF Fits
  <2>3. Placed(g)'
    BY <1>1, <2>1, <2>2 DEF MemoryIInv, Placed, Matching, OnTheMove
  <2>4. EmptiedSource(g)'
    BY <1>1 DEF MemoryIInv, EmptiedSource
  <2> QED
    BY <2>3, <2>4
<1>4. HeldApart'
  BY <1>1 DEF MemoryIInv, HeldApart, Memory!Held, Memory!Moving
<1>5. Memory!GivenBackZeroed'
  <2>1. \A g \in Guest, h \in Host : Memory!Held(g, h)' = Memory!Held(g, h)
    BY <1>1 DEF Memory!Held, Memory!Moving
  <2>2. \A h \in Host : Memory!Used(h)' = Memory!Used(h)
    BY <2>1 DEF Memory!Used
  <2> QED
    BY <1>1, <2>2 DEF MemoryIInv, Memory!GivenBackZeroed, Memory!Names
<1> QED
  BY <1>2, <1>3, <1>4, <1>5 DEF MemoryIInv

\* So the invariant of the devices holds in every behaviour of the parts.
LEMMA MemoryInvariant == Spec => []MemoryInv
<1>1. Init => MemoryInv
  BY PartStarts, MemoryStarts DEF MemoryInv
<1>2. MemoryInv /\ [Next]_vars => MemoryInv'
  BY PartSteps, MemoryStep, MemoryStays DEF MemoryInv
<1> QED
  BY <1>1, <1>2, PTL DEF Spec

\* A namespace of persistent memory is one guest's, in the order of its labels,
\* and empty when the next guest gets it (driver_22.04.py:538-584, 1617-1697,
\* 9466-9492).
THEOREM MemoryStaysSafe == Spec => []MemorySafe
<1>1. ASSUME MemoryIInv PROVE Memory!OneGuestEach
  <2> SUFFICES ASSUME NEW g \in Guest, NEW q \in Guest, g # q, at[g] # None, at[g] = at[q],
                      NEW i \in DOMAIN devices[g], NEW j \in DOMAIN devices[q]
               PROVE  devices[g][i] # devices[q][j]
    BY DEF Memory!OneGuestEach
  <2>1. /\ at[g] \in Host /\ devices[g][i] \in Memory!Names(Memory!Held(g, at[g]))
        /\ devices[q][j] \in Memory!Names(Memory!Held(q, at[g]))
    BY <1>1, DevicesAreHeld
  <2>2. /\ Memory!Held(g, at[g]) \subseteq offered[at[g]] /\ Memory!Held(q, at[g]) \subseteq offered[at[g]]
        /\ Memory!Held(g, at[g]) \intersect Memory!Held(q, at[g]) = {}
    BY <1>1, <2>1, HeldIsOffered DEF MemoryIInv, HeldApart
  <2>3. Memory!Names(Memory!Held(g, at[g])) \intersect Memory!Names(Memory!Held(q, at[g])) = {}
    BY <1>1, <2>1, <2>2, NamesApart DEF MemoryIInv
  <2> QED
    BY <2>1, <2>3
<1>2. ASSUME MemoryIInv PROVE Memory!LabelsInOrder
  <2> SUFFICES ASSUME NEW g \in Guest, at[g] # None
               PROVE  /\ Len(devices[g]) = Len(flavor[g])
                      /\ \A i \in DOMAIN devices[g] : <<flavor[g][i], devices[g][i]>> \in offered[at[g]]
    BY DEF Memory!LabelsInOrder
  <2>1. Fits(devices[g], Here(g), flavor[g])
    BY <1>2 DEF MemoryIInv, Placed
  <2>2. Here(g) \subseteq offered[at[g]]
    BY <1>2, DevicesAreHeld, HeldIsOffered DEF MemoryIInv
  <2> QED
    BY <2>1, <2>2 DEF Fits
<1>3. MemoryInv => MemorySafe
  BY <1>1, <1>2 DEF MemoryInv, MemoryIInv, MemorySafe
<1> QED
  BY <1>3, MemoryInvariant, PTL

\* As long as a resize may be reverted the former devices keep their contents,
\* and the guest finds them when it is reverted (driver_22.04.py:1617-1620).
THEOREM OldDevicesStay == Spec => KeptForRevert
<1>1. ASSUME MemoryIInv, NEW g \in Guest, Touches(g), Spares(g) PROVE Memory!KeepsForRevert
  <2> SUFFICES ASSUME NEW q \in Guest, move[q] = "resized", NEW n \in Memory!Names(context[q].old_resources)
               PROVE  memory_content'[context[q].source][n] = memory_content[context[q].source][n]
    BY DEF Memory!KeepsForRevert
  <2>1. CASE q = g
    BY <1>1, <2>1 DEF Spares
  <2>2. CASE q # g
    <3>1. /\ context[q].source \in Host /\ Memory!Moving(q)
          /\ context[q].old_resources \in SUBSET Resource
      BY <1>1, OnTheWay DEF OnTheMove
    <3>2. n \in Name /\ n \in Memory!Names(Memory!Held(q, context[q].source))
      BY <3>1, HeldAre DEF Memory!Names, Resource
    <3> QED
      BY <1>1, <2>2, <3>1, <3>2 DEF Touches
  <2> QED
    BY <2>1, <2>2
<1>2. ASSUME UNCHANGED Memory!vars PROVE Memory!KeepsForRevert
  BY <1>2 DEF Memory!vars, Memory!KeepsForRevert
<1>3. MemoryInv /\ [Next]_vars => [part = "memory" => Memory!KeepsForRevert]_vars
  BY <1>1, <1>2, PartSteps, MemoryStep DEF MemoryInv
<1> QED
  BY <1>3, MemoryInvariant, PTL DEF Spec, KeptForRevert


-----------------------------------------------------------------------------
(***************************************************************************)
(* A shared volume.  Unless operations overlap, one guest at most is in    *)
(* the middle of an operation: the others' domains have the device where   *)
(* they are, and the connected hosts are those of the devices and the one  *)
(* that the operation is about, but for those judged after another host.   *)
(***************************************************************************)
Pcs == {"idle", "connect", "migrate", "count", "disconnect", "end"}
Operation == [pc : Pcs, at : Host, then : {"none", "remove", "land"}]

SharedTyped ==
  /\ luks \in BOOLEAN /\ home \in [Guest -> Host] /\ running \in [Guest -> BOOLEAN]
  /\ shared_attached \in SUBSET Guest /\ connected \in SUBSET Host
  /\ uses \in [Host -> SUBSET Guest] /\ op \in [Guest -> Operation]
  /\ shared_size \in 2 .. MaxSize /\ device \in [Host -> 0 .. MaxSize] /\ seen \in [Guest -> 0 .. MaxSize]
  /\ extending \in Guest \union {Shared!NoGuest}
  /\ misjudged \in SUBSET Host /\ doubt \in {"no", "overlap"}

\* A device that was connected once is known, and never larger than the volume.
DevicesKnown ==
  \A h \in Host :
    /\ device[h] <= shared_size
    /\ \/ h \in connected \/ uses[h] # {}
       \/ \E g \in Guest : op[g].pc = "migrate" /\ op[g].at = h
       => device[h] >= 2

InTurn ==
  /\ \A g, k \in Guest : g # k => Shared!Idle(g) \/ Shared!Idle(k)
  /\ extending # Shared!NoGuest => \A g \in Guest : Shared!Idle(g)

\* The domains of a guest that have the device.
HasAt(g, H) == \A h \in Host : g \in uses[h] <=> h \in H

UsesMatch(g) ==
  /\ Shared!Idle(g) => HasAt(g, IF g \in shared_attached THEN {home[g]} ELSE {})
  /\ ~Shared!Idle(g) => g \in shared_attached
  /\ op[g].pc = "connect" => HasAt(g, {})
  /\ op[g].pc = "migrate" =>
       HasAt(g, {home[g]}) /\ op[g].at # home[g] /\ device[op[g].at] = shared_size
  /\ op[g].pc \in {"count", "disconnect", "end"} =>
       /\ op[g].then = "remove" => HasAt(g, {}) /\ op[g].at = home[g]
       /\ op[g].then = "land" =>
            op[g].at = home[g] /\ \E to \in Host \ {home[g]} : HasAt(g, {to})
       /\ op[g].then = "none" => HasAt(g, {home[g]}) /\ op[g].at # home[g]

ConnectedMatch ==
  /\ \A h \in Host \ misjudged :
       h \in connected <=>
         \/ uses[h] # {}
         \/ \E g \in Guest : op[g].pc \in {"migrate", "count", "disconnect"} /\ op[g].at = h
  /\ \A g \in Guest : op[g].pc = "disconnect" => uses[op[g].at] = {} \/ op[g].at \in misjudged

FitsIn == \A h \in Host : \A g \in uses[h] : running[g] => seen[g] <= device[h] - Shared!Offset

SharedCalm == InTurn /\ (\A g \in Guest : UsesMatch(g)) /\ ConnectedMatch /\ FitsIn

SharedIInv == SharedTyped /\ DevicesKnown /\ (doubt = "no" => SharedCalm)

\* The guests start inside the invariant.
LEMMA SharedStarts == Shared!Init => SharedIInv
<1> SUFFICES ASSUME Shared!Init PROVE SharedIInv
  OBVIOUS
<1> DEFINE o == [pc |-> "idle", at |-> CHOOSE h \in Host : TRUE, then |-> "none"]
<1>1. /\ luks \in BOOLEAN /\ home \in [Guest -> Host] /\ running = [g \in Guest |-> TRUE]
      /\ shared_attached = {} /\ connected = {} /\ uses = [h \in Host |-> {}]
      /\ op = [g \in Guest |-> o]
      /\ shared_size = 2 /\ device = [h \in Host |-> 0] /\ seen = [g \in Guest |-> 0]
      /\ extending = Shared!NoGuest /\ misjudged = {} /\ doubt = "no"
  BY DEF Shared!Init, Shared!NoOp
<1>2. /\ MaxSize \in Nat /\ MaxSize >= 2
  BY SharedAssumption DEF Shared!SharedVolumeAssumption
<1>3. op \in [Guest -> Operation]
  <2>1. \A g \in Guest : o \in Operation
    BY <1>1 DEF Operation, Pcs
  <2> HIDE DEF o
  <2> QED
    BY <1>1, <2>1
<1>4. \A g \in Guest : op[g].pc = "idle"
  BY <1>1
<1> HIDE DEF o
<1>5. SharedTyped
  BY <1>1, <1>2, <1>3 DEF SharedTyped
<1>6. DevicesKnown
  BY <1>1, <1>4 DEF DevicesKnown
<1>7. InTurn /\ \A g \in Guest : UsesMatch(g)
  BY <1>1, <1>4 DEF InTurn, UsesMatch, Shared!Idle, HasAt
<1>8. ConnectedMatch /\ FitsIn
  BY <1>1, <1>4 DEF ConnectedMatch, FitsIn
<1> QED
  BY <1>5, <1>6, <1>7, <1>8 DEF SharedIInv, SharedCalm

\* An operation goes on.
LEMMA OperationMoves ==
  ASSUME SharedTyped, NEW g \in Guest, NEW p \in Pcs, NEW a \in Host, NEW t \in {"none", "remove", "land"},
         Shared!To(g, p, a, t)
  PROVE  /\ op' \in [Guest -> Operation]
         /\ op'[g].pc = p /\ op'[g].at = a /\ op'[g].then = t
         /\ \A k \in Guest \ {g} : op'[k] = op[k]
<1> DEFINE o == [pc |-> p, at |-> a, then |-> t]
<1>1. o \in Operation /\ o.pc = p /\ o.at = a /\ o.then = t
  BY DEF Operation
<1>2. op' = [op EXCEPT ![g] = o] /\ op \in [Guest -> Operation]
  BY DEF Shared!To, SharedTyped
<1> HIDE DEF o
<1>3. op'[g] = o /\ op' \in [Guest -> Operation] /\ \A k \in Guest \ {g} : op'[k] = op[k]
  BY <1>1, <1>2
<1> QED
  BY <1>1, <1>3

\* Of the others nothing changes.
SharedElsewhere(g) ==
  \A k \in Guest \ {g} :
    /\ op'[k] = op[k] /\ home'[k] = home[k] /\ (k \in shared_attached' <=> k \in shared_attached)
    /\ \A h \in Host : k \in uses'[h] <=> k \in uses[h]

\* While all others are idle, a step of one guest that keeps its own part keeps everyone's.
LEMMA OthersStay ==
  ASSUME SharedCalm, NEW g \in Guest, SharedElsewhere(g),
         \A k \in Guest \ {g} : Shared!Idle(k),
         extending' = Shared!NoGuest \/ op'[g].pc = "idle", UsesMatch(g)'
  PROVE  InTurn' /\ \A k \in Guest : UsesMatch(k)'
<1>1. InTurn'
  BY DEF InTurn, SharedElsewhere, Shared!Idle
<1>2. ASSUME NEW k \in Guest \ {g} PROVE UsesMatch(k)'
  <2>1. UsesMatch(k) /\ op[k].pc = "idle" /\ op'[k].pc = "idle"
    BY <1>2 DEF SharedCalm, SharedElsewhere, Shared!Idle
  <2>2. HasAt(k, IF k \in shared_attached THEN {home[k]} ELSE {})
    BY <2>1 DEF UsesMatch, Shared!Idle
  <2>3. HasAt(k, IF k \in shared_attached THEN {home[k]} ELSE {})'
    BY <1>2, <2>2 DEF HasAt, SharedElsewhere
  <2> QED
    BY <2>1, <2>3 DEF UsesMatch, Shared!Idle
<1> QED
  BY <1>1, <1>2

\* Reserving an attachment keeps the invariant,
LEMMA ReserveKeeps ==
  ASSUME SharedIInv, NEW g \in Guest, Shared!Reserve(g) PROVE SharedIInv'
<1>1. /\ g \notin shared_attached /\ op[g].pc = "idle" /\ Shared!To(g, "connect", home[g], "none")
      /\ doubt' = IF ~Shared!Alone(g) THEN "overlap" ELSE doubt
      /\ shared_attached' = shared_attached \union {g}
      /\ UNCHANGED <<luks, home, running, connected, uses, shared_size, device, seen, extending, misjudged>>
  BY DEF Shared!Reserve, Shared!Begin, Shared!Idle, Shared!Overlap, Shared!sizes
<1>2. SharedTyped /\ DevicesKnown
  BY DEF SharedIInv
<1>3. /\ op' \in [Guest -> Operation]
      /\ op'[g].pc = "connect" /\ op'[g].at = home[g] /\ op'[g].then = "none"
      /\ \A k \in Guest \ {g} : op'[k] = op[k]
  <2>1. home[g] \in Host /\ "connect" \in Pcs
    BY <1>2 DEF SharedTyped, Pcs
  <2> QED
    BY <1>1, <1>2, <2>1, OperationMoves
<1>4. SharedTyped'
  BY <1>1, <1>2, <1>3 DEF SharedTyped
<1>5. DevicesKnown'
  BY <1>1, <1>2, <1>3 DEF DevicesKnown
<1>6. ASSUME doubt' = "no" PROVE SharedCalm'
  <2>1. SharedCalm /\ Shared!Alone(g)
    BY <1>1, <1>6 DEF SharedIInv
  <2>2. extending = Shared!NoGuest /\ \A k \in Guest : op[k].pc = "idle"
    BY <2>1 DEF Shared!Alone, Shared!Idle
  <2>3. UsesMatch(g)'
    <3>1. HasAt(g, {})
      BY <1>1, <2>1 DEF SharedCalm, UsesMatch, Shared!Idle
    <3>2. HasAt(g, {})'
      BY <1>1, <3>1 DEF HasAt
    <3> QED
      BY <1>1, <1>3, <3>2 DEF UsesMatch, Shared!Idle
  <2>4. SharedElsewhere(g)
    BY <1>1, <1>3 DEF SharedElsewhere
  <2>5. InTurn' /\ \A k \in Guest : UsesMatch(k)'
    BY <1>1, <2>1, <2>2, <2>3, <2>4, OthersStay DEF Shared!Idle
  <2>6. ConnectedMatch'
    BY <1>1, <1>3, <2>1, <2>2 DEF SharedCalm, ConnectedMatch
  <2>7. FitsIn'
    BY <1>1, <2>1 DEF SharedCalm, FitsIn, Shared!Offset
  <2> QED
    BY <2>5, <2>6, <2>7 DEF SharedCalm
<1> QED
  BY <1>4, <1>5, <1>6 DEF SharedIInv


\* so does connecting the volume,
LEMMA ConnectKeeps ==
  ASSUME SharedIInv, NEW g \in Guest, Shared!Connect(g) PROVE SharedIInv'
<1>1. /\ op[g].pc = "connect" /\ Shared!To(g, "idle", home[g], "none")
      /\ connected' = connected \union {home[g]}
      /\ device' = IF home[g] \in connected THEN device ELSE [device EXCEPT ![home[g]] = shared_size]
      /\ uses' = [uses EXCEPT ![home[g]] = uses[home[g]] \union {g}]
      /\ seen' = [seen EXCEPT ![g] = device'[home[g]] - Shared!Offset]
      /\ doubt' = IF home[g] \in connected /\ device[home[g]] # shared_size THEN "overlap" ELSE doubt
      /\ misjudged' = misjudged \ {home[g]}
      /\ UNCHANGED <<luks, home, running, shared_attached, shared_size, extending>>
  BY DEF Shared!Connect, Shared!Connected, Shared!Overlap, Shared!Outdated, SharedIInv, SharedTyped
<1>2. SharedTyped /\ DevicesKnown
  BY DEF SharedIInv
<1>3. home[g] \in Host /\ shared_size \in 2 .. MaxSize /\ MaxSize \in Nat
  BY <1>2, SharedAssumption DEF SharedTyped, Shared!SharedVolumeAssumption
<1>4. /\ op' \in [Guest -> Operation]
      /\ op'[g].pc = "idle" /\ op'[g].at = home[g] /\ op'[g].then = "none"
      /\ \A k \in Guest \ {g} : op'[k] = op[k]
  <2>1. "idle" \in Pcs
    BY DEF Pcs
  <2> QED
    BY <1>1, <1>2, <1>3, <2>1, OperationMoves
<1>5. /\ device' \in [Host -> 0 .. MaxSize] /\ device'[home[g]] \in 2 .. shared_size
      /\ \A h \in Host \ {home[g]} : device'[h] = device[h]
      /\ home[g] \notin connected \/ device[home[g]] = shared_size => device'[home[g]] = shared_size
      /\ \A h \in Host : device[h] <= device'[h]
  <2>1. CASE home[g] \in connected
    BY <1>1, <1>2, <1>3, <2>1 DEF SharedTyped, DevicesKnown
  <2>2. CASE home[g] \notin connected
    BY <1>1, <1>2, <1>3, <2>2 DEF SharedTyped, DevicesKnown
  <2> QED
    BY <2>1, <2>2
<1>6. /\ Shared!Offset \in {0, 1} /\ Shared!Offset' = Shared!Offset
  BY <1>1 DEF Shared!Offset
<1>7. /\ seen' \in [Guest -> 0 .. MaxSize] /\ seen'[g] = device'[home[g]] - Shared!Offset
      /\ \A k \in Guest \ {g} : seen'[k] = seen[k]
  <2>1. device'[home[g]] - Shared!Offset \in 0 .. MaxSize
    BY <1>3, <1>5, <1>6
  <2>2. seen \in [Guest -> 0 .. MaxSize]
    BY <1>2 DEF SharedTyped
  <2> QED
    BY <1>1, <2>1, <2>2
<1>8. /\ uses' \in [Host -> SUBSET Guest] /\ uses'[home[g]] = uses[home[g]] \union {g}
      /\ \A h \in Host \ {home[g]} : uses'[h] = uses[h]
  BY <1>1, <1>2, <1>3 DEF SharedTyped
<1>9. SharedTyped'
  <2>1. /\ connected' \in SUBSET Host /\ misjudged' \in SUBSET Host /\ doubt' \in {"no", "overlap"}
    BY <1>1, <1>2, <1>3 DEF SharedTyped
  <2> QED
    BY <1>1, <1>2, <1>4, <1>5, <1>7, <1>8, <2>1 DEF SharedTyped
<1>10. DevicesKnown'
  <2> SUFFICES ASSUME NEW h \in Host
               PROVE  /\ device'[h] <= shared_size
                      /\ \/ h \in connected' \/ uses'[h] # {}
                         \/ \E k \in Guest : op'[k].pc = "migrate" /\ op'[k].at = h
                         => device'[h] >= 2
    BY <1>1 DEF DevicesKnown
  <2>1. CASE h = home[g]
    BY <1>3, <1>5, <2>1
  <2>2. CASE h # home[g]
    BY <1>1, <1>2, <1>4, <1>5, <1>8, <2>2 DEF DevicesKnown
  <2> QED
    BY <2>1, <2>2
<1>11. ASSUME doubt' = "no" PROVE SharedCalm'
  <2>1. SharedCalm /\ device'[home[g]] = shared_size
    BY <1>1, <1>5, <1>11 DEF SharedIInv
  <2>2. extending = Shared!NoGuest /\ \A k \in Guest \ {g} : op[k].pc = "idle"
    BY <1>1, <2>1 DEF SharedCalm, InTurn, Shared!Idle
  <2>3. HasAt(g, {}) /\ g \in shared_attached
    BY <1>1, <2>1 DEF SharedCalm, UsesMatch, Shared!Idle
  <2>4. UsesMatch(g)'
    <3>1. HasAt(g, {home[g]})'
      BY <1>1, <1>8, <2>3 DEF HasAt
    <3> QED
      BY <1>1, <1>4, <2>3, <3>1 DEF UsesMatch, Shared!Idle
  <2>5. SharedElsewhere(g)
    BY <1>1, <1>4, <1>8 DEF SharedElsewhere
  <2>6. InTurn' /\ \A k \in Guest : UsesMatch(k)'
    BY <1>1, <2>1, <2>2, <2>4, <2>5, OthersStay DEF Shared!Idle
  <2>7. ConnectedMatch'
    <3>1. op'[g].pc \notin {"migrate", "count", "disconnect"}
      BY <1>4
    <3>2. \A k \in Guest : op'[k].pc \notin {"migrate", "count", "disconnect"}
      BY <1>4, <2>2, <3>1
    <3>3. \A k \in Guest : op[k].pc \notin {"migrate", "count", "disconnect"}
      BY <1>1, <2>2
    <3>4. ASSUME NEW h \in Host \ misjudged' PROVE h \in connected' <=> uses'[h] # {}
      <4>1. CASE h = home[g]
        BY <1>1, <1>8, <4>1
      <4>2. CASE h # home[g]
        <5>1. h \notin misjudged => (h \in connected <=> uses[h] # {})
          BY <2>1, <3>3 DEF SharedCalm, ConnectedMatch
        <5> QED
          BY <1>1, <1>8, <4>2, <5>1
      <4> QED
        BY <4>1, <4>2
    <3> QED
      BY <3>2, <3>4 DEF ConnectedMatch
  <2>8. FitsIn'
    <3> SUFFICES ASSUME NEW h \in Host, NEW k \in uses'[h], running[k]
                 PROVE  seen'[k] <= device'[h] - Shared!Offset
      BY <1>1, <1>6 DEF FitsIn
    <3>1. CASE k = g
      <4>1. h = home[g]
        BY <1>8, <2>3, <3>1 DEF HasAt
      <4> QED
        BY <1>3, <1>5, <1>6, <1>7, <3>1, <4>1
    <3>2. CASE k # g
      <4>1. k \in uses[h] /\ k \in Guest
        BY <1>2, <1>8, <3>2 DEF SharedTyped
      <4>2. seen[k] <= device[h] - Shared!Offset /\ seen[k] \in Int /\ device[h] \in Int /\ device'[h] \in Int
        BY <1>2, <1>5, <2>1, <4>1 DEF SharedCalm, FitsIn, SharedTyped
      <4> QED
        BY <1>5, <1>6, <1>7, <3>2, <4>1, <4>2
    <3> QED
      BY <3>1, <3>2
  <2> QED
    BY <2>6, <2>7, <2>8 DEF SharedCalm
<1> QED
  BY <1>9, <1>10, <1>11 DEF SharedIInv

\* so does detaching the device of the guest,
LEMMA DetachDeviceKeeps ==
  ASSUME SharedIInv, NEW g \in Guest, Shared!DetachDevice(g) PROVE SharedIInv'
<1>1. /\ g \in shared_attached /\ op[g].pc = "idle" /\ Shared!To(g, "count", home[g], "remove")
      /\ doubt' = IF ~Shared!Alone(g) THEN "overlap" ELSE doubt
      /\ uses' = [uses EXCEPT ![home[g]] = uses[home[g]] \ {g}]
      /\ UNCHANGED <<luks, home, running, shared_attached, connected, shared_size, device, seen, extending, misjudged>>
  BY DEF Shared!DetachDevice, Shared!Begin, Shared!Idle, Shared!Overlap, Shared!sizes, SharedIInv, SharedTyped
<1>2. SharedTyped /\ DevicesKnown /\ home[g] \in Host
  BY DEF SharedIInv, SharedTyped
<1>3. /\ op' \in [Guest -> Operation]
      /\ op'[g].pc = "count" /\ op'[g].at = home[g] /\ op'[g].then = "remove"
      /\ \A k \in Guest \ {g} : op'[k] = op[k]
  <2>1. "count" \in Pcs
    BY DEF Pcs
  <2> QED
    BY <1>1, <1>2, <2>1, OperationMoves
<1>4. /\ uses' \in [Host -> SUBSET Guest] /\ uses'[home[g]] = uses[home[g]] \ {g}
      /\ \A h \in Host \ {home[g]} : uses'[h] = uses[h]
  BY <1>1, <1>2 DEF SharedTyped
<1>5. SharedTyped'
  BY <1>1, <1>2, <1>3, <1>4 DEF SharedTyped
<1>6. DevicesKnown'
  BY <1>1, <1>2, <1>3, <1>4 DEF DevicesKnown
<1>7. ASSUME doubt' = "no" PROVE SharedCalm'
  <2>1. SharedCalm /\ Shared!Alone(g)
    BY <1>1, <1>7 DEF SharedIInv
  <2>2. extending = Shared!NoGuest /\ \A k \in Guest : op[k].pc = "idle"
    BY <2>1 DEF Shared!Alone, Shared!Idle
  <2>3. HasAt(g, {home[g]})
    BY <1>1, <2>1 DEF SharedCalm, UsesMatch, Shared!Idle
  <2>4. UsesMatch(g)'
    <3>1. HasAt(g, {})'
      BY <1>1, <1>4, <2>3 DEF HasAt
    <3> QED
      BY <1>1, <1>3, <3>1 DEF UsesMatch, Shared!Idle
  <2>5. SharedElsewhere(g)
    BY <1>1, <1>3, <1>4 DEF SharedElsewhere
  <2>6. InTurn' /\ \A k \in Guest : UsesMatch(k)'
    BY <1>1, <2>1, <2>2, <2>4, <2>5, OthersStay DEF Shared!Idle
  <2>7. ConnectedMatch'
    <3>1. \A h \in Host \ misjudged : h \in connected <=> uses[h] # {}
      BY <2>1, <2>2 DEF SharedCalm, ConnectedMatch
    <3>2. home[g] \in connected \/ home[g] \in misjudged
      BY <1>2, <2>3, <3>1 DEF HasAt
    <3> QED
      BY <1>1, <1>3, <1>4, <2>2, <3>1, <3>2 DEF ConnectedMatch
  <2>8. FitsIn'
    <3>1. \A h \in Host : uses'[h] \subseteq uses[h]
      BY <1>4
    <3> QED
      BY <1>1, <2>1, <3>1 DEF SharedCalm, FitsIn, Shared!Offset
  <2> QED
    BY <2>6, <2>7, <2>8 DEF SharedCalm
<1> QED
  BY <1>5, <1>6, <1>7 DEF SharedIInv

\* so does the preparation of a live migration at its destination,
LEMMA PrepareVolumeKeeps ==
  ASSUME SharedIInv, NEW g \in Guest, NEW to \in Host, Shared!Prepare(g, to) PROVE SharedIInv'
<1>1. /\ g \in shared_attached /\ running[g] /\ to # home[g] /\ op[g].pc = "idle"
      /\ Shared!To(g, "migrate", to, "none")
      /\ connected' = connected \union {to}
      /\ device' = IF to \in connected THEN device ELSE [device EXCEPT ![to] = shared_size]
      /\ doubt' = IF ~Shared!Alone(g) \/ (to \in connected /\ device[to] # shared_size) THEN "overlap" ELSE doubt
      /\ misjudged' = misjudged \ {to}
      /\ UNCHANGED <<luks, home, running, shared_attached, uses, shared_size, seen, extending>>
  BY DEF Shared!Prepare, Shared!Idle, Shared!Overlap, Shared!Connected, Shared!Outdated
<1>2. SharedTyped /\ DevicesKnown /\ home[g] \in Host /\ shared_size \in 2 .. MaxSize /\ MaxSize \in Nat
  BY SharedAssumption DEF SharedIInv, SharedTyped, Shared!SharedVolumeAssumption
<1>3. /\ op' \in [Guest -> Operation]
      /\ op'[g].pc = "migrate" /\ op'[g].at = to /\ op'[g].then = "none"
      /\ \A k \in Guest \ {g} : op'[k] = op[k]
  <2>1. "migrate" \in Pcs
    BY DEF Pcs
  <2> QED
    BY <1>1, <1>2, <2>1, OperationMoves
<1>4. /\ device' \in [Host -> 0 .. MaxSize] /\ device'[to] \in 2 .. shared_size
      /\ \A h \in Host \ {to} : device'[h] = device[h]
      /\ to \notin connected \/ device[to] = shared_size => device'[to] = shared_size
      /\ \A h \in Host : device[h] <= device'[h]
  <2>1. CASE to \in connected
    BY <1>1, <1>2, <2>1 DEF SharedTyped, DevicesKnown
  <2>2. CASE to \notin connected
    BY <1>1, <1>2, <2>2 DEF SharedTyped, DevicesKnown
  <2> QED
    BY <2>1, <2>2
<1>5. SharedTyped'
  <2>1. /\ connected' \in SUBSET Host /\ misjudged' \in SUBSET Host /\ doubt' \in {"no", "overlap"}
    BY <1>1, <1>2 DEF SharedTyped
  <2> QED
    BY <1>1, <1>2, <1>3, <1>4, <2>1 DEF SharedTyped
<1>6. DevicesKnown'
  <2> SUFFICES ASSUME NEW h \in Host
               PROVE  /\ device'[h] <= shared_size
                      /\ \/ h \in connected' \/ uses[h] # {}
                         \/ \E k \in Guest : op'[k].pc = "migrate" /\ op'[k].at = h
                         => device'[h] >= 2
    BY <1>1 DEF DevicesKnown
  <2>1. CASE h = to
    BY <1>2, <1>4, <2>1
  <2>2. CASE h # to
    BY <1>1, <1>2, <1>3, <1>4, <2>2 DEF DevicesKnown
  <2> QED
    BY <2>1, <2>2
<1>7. ASSUME doubt' = "no" PROVE SharedCalm'
  <2>1. SharedCalm /\ Shared!Alone(g) /\ device'[to] = shared_size
    BY <1>1, <1>4, <1>7 DEF SharedIInv
  <2>2. extending = Shared!NoGuest /\ \A k \in Guest : op[k].pc = "idle"
    BY <2>1 DEF Shared!Alone, Shared!Idle
  <2>3. HasAt(g, {home[g]})
    BY <1>1, <2>1 DEF SharedCalm, UsesMatch, Shared!Idle
  <2>4. UsesMatch(g)'
    <3>1. HasAt(g, {home[g]})'
      BY <1>1, <2>3 DEF HasAt
    <3> QED
      BY <1>1, <1>3, <2>1, <3>1 DEF UsesMatch, Shared!Idle
  <2>5. SharedElsewhere(g)
    BY <1>1, <1>3 DEF SharedElsewhere
  <2>6. InTurn' /\ \A k \in Guest : UsesMatch(k)'
    BY <1>1, <2>1, <2>2, <2>4, <2>5, OthersStay DEF Shared!Idle
  <2>7. ConnectedMatch'
    <3>1. \A h \in Host \ misjudged : h \in connected <=> uses[h] # {}
      BY <2>1, <2>2 DEF SharedCalm, ConnectedMatch
    <3> QED
      BY <1>1, <1>3, <2>2, <3>1 DEF ConnectedMatch
  <2>8. FitsIn'
    <3> SUFFICES ASSUME NEW h \in Host, NEW k \in uses[h], running[k]
                 PROVE  seen[k] <= device'[h] - Shared!Offset
      BY <1>1 DEF FitsIn, Shared!Offset
    <3>1. seen[k] <= device[h] - Shared!Offset /\ seen[k] \in Int /\ device[h] \in Int /\ device'[h] \in Int
      BY <1>2, <1>4, <2>1 DEF SharedCalm, FitsIn, SharedTyped
    <3>2. Shared!Offset \in {0, 1}
      BY DEF Shared!Offset
    <3> QED
      BY <1>4, <3>1, <3>2
  <2> QED
    BY <2>6, <2>7, <2>8 DEF SharedCalm
<1> QED
  BY <1>5, <1>6, <1>7 DEF SharedIInv


\* so does a live migration that succeeds,
LEMMA SucceedKeeps ==
  ASSUME SharedIInv, NEW g \in Guest, Shared!Succeed(g) PROVE SharedIInv'
<1>1. /\ op[g].pc = "migrate" /\ Shared!To(g, "count", home[g], "land")
      /\ uses' = [uses EXCEPT ![home[g]] = @ \ {g}, ![op[g].at] = @ \union {g}]
      /\ UNCHANGED <<luks, home, running, shared_attached, connected, shared_size, device, seen, extending, doubt, misjudged>>
  BY DEF Shared!Succeed, Shared!sizes
<1>2. SharedTyped /\ DevicesKnown /\ home[g] \in Host /\ op[g].at \in Host
  BY DEF SharedIInv, SharedTyped, Operation
<1>3. /\ op' \in [Guest -> Operation]
      /\ op'[g].pc = "count" /\ op'[g].at = home[g] /\ op'[g].then = "land"
      /\ \A k \in Guest \ {g} : op'[k] = op[k]
  <2>1. "count" \in Pcs
    BY DEF Pcs
  <2> QED
    BY <1>1, <1>2, <2>1, OperationMoves
<1>4. /\ uses' \in [Host -> SUBSET Guest]
      /\ \A h \in Host, k \in Guest :
           k \in uses'[h] <=> IF k = g THEN h = op[g].at \/ (h # home[g] /\ g \in uses[h]) ELSE k \in uses[h]
  <2>1. uses \in [Host -> SUBSET Guest]
    BY <1>2 DEF SharedTyped
  <2>2. uses' \in [Host -> SUBSET Guest]
    BY <1>1, <1>2, <2>1
  <2>3. \A h \in Host : uses'[h] =
          IF h = op[g].at THEN (IF h = home[g] THEN uses[h] \ {g} ELSE uses[h]) \union {g}
          ELSE IF h = home[g] THEN uses[h] \ {g} ELSE uses[h]
    BY <1>1, <1>2, <2>1
  <2> QED
    BY <2>2, <2>3
<1>5. SharedTyped'
  BY <1>1, <1>2, <1>3, <1>4 DEF SharedTyped
<1>6. DevicesKnown'
  <2> SUFFICES ASSUME NEW h \in Host,
                      \/ h \in connected \/ uses'[h] # {}
                      \/ \E k \in Guest : op'[k].pc = "migrate" /\ op'[k].at = h
               PROVE  device[h] >= 2
    BY <1>1, <1>2 DEF DevicesKnown
  <2>1. \/ h \in connected \/ uses[h] # {}
        \/ \E k \in Guest : op[k].pc = "migrate" /\ op[k].at = h
    BY <1>1, <1>2, <1>3, <1>4 DEF SharedTyped
  <2> QED
    BY <1>2, <2>1 DEF DevicesKnown
<1>7. ASSUME doubt' = "no" PROVE SharedCalm'
  <2>1. SharedCalm
    BY <1>1, <1>7 DEF SharedIInv
  <2>2. extending = Shared!NoGuest /\ \A k \in Guest \ {g} : op[k].pc = "idle"
    BY <1>1, <2>1 DEF SharedCalm, InTurn, Shared!Idle
  <2>3. /\ HasAt(g, {home[g]}) /\ op[g].at # home[g] /\ device[op[g].at] = shared_size
        /\ g \in shared_attached
    BY <1>1, <2>1 DEF SharedCalm, UsesMatch, Shared!Idle
  <2>4. \A h \in Host : g \in uses'[h] <=> h = op[g].at
    BY <1>4, <2>3 DEF HasAt
  <2>5. UsesMatch(g)'
    <3>1. \E to \in Host \ {home[g]} : \A h \in Host : g \in uses'[h] <=> h \in {to}
      BY <1>2, <2>3, <2>4
    <3> QED
      BY <1>1, <1>3, <2>3, <3>1 DEF UsesMatch, Shared!Idle, HasAt
  <2>6. SharedElsewhere(g)
    BY <1>1, <1>3, <1>4 DEF SharedElsewhere
  <2>7. InTurn' /\ \A k \in Guest : UsesMatch(k)'
    BY <1>1, <2>1, <2>2, <2>5, <2>6, OthersStay DEF Shared!Idle
  <2>8. ConnectedMatch'
    <3>1. \A h \in Host \ misjudged : h \in connected <=> uses[h] # {} \/ op[g].at = h
      BY <1>1, <2>1, <2>2 DEF SharedCalm, ConnectedMatch
    <3>2. home[g] \in connected \/ home[g] \in misjudged
      BY <1>2, <2>3, <3>1 DEF HasAt
    <3>3. \A h \in Host \ misjudged : h \in connected <=> uses'[h] # {} \/ home[g] = h
      <4> SUFFICES ASSUME NEW h \in Host \ misjudged, h # home[g] PROVE h \in connected <=> uses'[h] # {}
        BY <3>2
      <4>1. CASE h = op[g].at
        BY <1>4, <3>1, <4>1
      <4>2. CASE h # op[g].at
        BY <1>2, <1>4, <2>3, <3>1, <4>2 DEF HasAt, SharedTyped
      <4> QED
        BY <4>1, <4>2
    <3>4. \A k \in Guest : IF k = g THEN op'[k].pc = "count" /\ op'[k].at = home[g] ELSE op'[k].pc = "idle"
      BY <1>3, <2>2
    <3>5. connected' = connected /\ misjudged' = misjudged
      BY <1>1
    <3> QED
      BY <3>3, <3>4, <3>5, <1>1 DEF ConnectedMatch
  <2>9. FitsIn'
    <3> SUFFICES ASSUME NEW h \in Host, NEW k \in uses'[h], running[k]
                 PROVE  seen[k] <= device[h] - Shared!Offset
      BY <1>1 DEF FitsIn, Shared!Offset
    <3>1. CASE k = g
      <4>1. h = op[g].at
        BY <2>4, <3>1
      <4>2. seen[g] <= device[home[g]] - Shared!Offset
        BY <1>2, <2>1, <2>3, <3>1 DEF SharedCalm, FitsIn, HasAt
      <4>3. device[home[g]] <= device[h]
        BY <1>2, <2>3, <4>1 DEF DevicesKnown
      <4>4. /\ seen[g] \in Int /\ device[home[g]] \in Int /\ device[h] \in Int /\ Shared!Offset \in {0, 1}
        BY <1>2 DEF SharedTyped, Shared!Offset
      <4> QED
        BY <3>1, <4>2, <4>3, <4>4
    <3>2. CASE k # g
      <4>1. k \in uses[h]
        BY <1>4, <1>5, <3>2 DEF SharedTyped
      <4> QED
        BY <2>1, <4>1 DEF SharedCalm, FitsIn
    <3> QED
      BY <3>1, <3>2
  <2> QED
    BY <2>7, <2>8, <2>9 DEF SharedCalm
<1> QED
  BY <1>5, <1>6, <1>7 DEF SharedIInv

\* so does one that fails,
LEMMA FailKeeps ==
  ASSUME SharedIInv, NEW g \in Guest, Shared!Fail(g) PROVE SharedIInv'
<1>1. /\ op[g].pc = "migrate" /\ Shared!To(g, "count", op[g].at, "none")
      /\ UNCHANGED <<luks, home, running, shared_attached, connected, uses, shared_size, device, seen, extending, doubt, misjudged>>
  BY DEF Shared!Fail, Shared!sizes
<1>2. SharedTyped /\ DevicesKnown /\ home[g] \in Host /\ op[g].at \in Host
  BY DEF SharedIInv, SharedTyped, Operation
<1>3. /\ op' \in [Guest -> Operation]
      /\ op'[g].pc = "count" /\ op'[g].at = op[g].at /\ op'[g].then = "none"
      /\ \A k \in Guest \ {g} : op'[k] = op[k]
  <2>1. "count" \in Pcs
    BY DEF Pcs
  <2> QED
    BY <1>1, <1>2, <2>1, OperationMoves
<1>4. SharedTyped'
  BY <1>1, <1>2, <1>3 DEF SharedTyped
<1>5. DevicesKnown'
  BY <1>1, <1>2, <1>3 DEF DevicesKnown
<1>6. ASSUME doubt' = "no" PROVE SharedCalm'
  <2>1. SharedCalm
    BY <1>1, <1>6 DEF SharedIInv
  <2>2. extending = Shared!NoGuest /\ \A k \in Guest \ {g} : op[k].pc = "idle"
    BY <1>1, <2>1 DEF SharedCalm, InTurn, Shared!Idle
  <2>3. HasAt(g, {home[g]}) /\ op[g].at # home[g] /\ g \in shared_attached
    BY <1>1, <2>1 DEF SharedCalm, UsesMatch, Shared!Idle
  <2>4. UsesMatch(g)'
    <3>1. HasAt(g, {home[g]})'
      BY <1>1, <2>3 DEF HasAt
    <3> QED
      BY <1>1, <1>3, <2>3, <3>1 DEF UsesMatch, Shared!Idle
  <2>5. SharedElsewhere(g)
    BY <1>1, <1>3 DEF SharedElsewhere
  <2>6. InTurn' /\ \A k \in Guest : UsesMatch(k)'
    BY <1>1, <2>1, <2>2, <2>4, <2>5, OthersStay DEF Shared!Idle
  <2>7. ConnectedMatch'
    <3>1. \A h \in Host \ misjudged : h \in connected <=> uses[h] # {} \/ op[g].at = h
      BY <1>1, <2>1, <2>2 DEF SharedCalm, ConnectedMatch
    <3> QED
      BY <1>1, <1>3, <2>2, <3>1 DEF ConnectedMatch
  <2>8. FitsIn'
    BY <1>1, <2>1 DEF SharedCalm, FitsIn, Shared!Offset
  <2> QED
    BY <2>6, <2>7, <2>8 DEF SharedCalm
<1> QED
  BY <1>4, <1>5, <1>6 DEF SharedIInv

\* The count says whether others are where the guest is.
LEMMA LastOneIs ==
  ASSUME SharedTyped, NEW g \in shared_attached
  PROVE  Shared!LastOne(g) <=> Shared!OthersOn(g, home[g]) = {}
<1> DEFINE S == {k \in shared_attached : home[k] = home[g]}
<1>1. IsFiniteSet(S) /\ g \in S
  <2>1. S \in SUBSET Guest /\ IsFiniteSet(Guest)
    <3>1. Shared!IsFiniteSet(Guest) <=> IsFiniteSet(Guest)
      BY Zenon DEF Shared!IsFiniteSet, IsFiniteSet
    <3> QED
      BY <3>1, SharedAssumption DEF SharedTyped, Shared!SharedVolumeAssumption
  <2> QED
    BY <2>1, FS_Subset
<1>2. Shared!LastOne(g) <=> Cardinality(S) <= 1
  <2>1. \A T : Shared!Cardinality(T) = Cardinality(T)
    BY Zenon DEF Shared!Cardinality, Cardinality
  <2> QED
    BY <2>1 DEF Shared!LastOne
<1>3. Shared!OthersOn(g, home[g]) = S \ {g}
  BY DEF Shared!OthersOn
<1> HIDE DEF S
<1>4. Cardinality(S) \in Nat /\ Cardinality(S) # 0
  BY <1>1, FS_CardinalityType, FS_EmptySet
<1>5. Cardinality(S) = 1 <=> \E x : S = {x}
  BY <1>1, FS_Singleton
<1>6. Cardinality(S) <= 1 <=> Cardinality(S) = 1
  BY <1>4
<1> QED
  BY <1>1, <1>2, <1>3, <1>5, <1>6

\* so does counting the other users of the host,
LEMMA CountKeeps ==
  ASSUME SharedIInv, NEW g \in Guest, Shared!Count(g) PROVE SharedIInv'
<1> DEFINE p == IF Shared!LastOne(g) THEN "disconnect" ELSE "end"
           wrong == (Shared!OthersOn(g, home[g]) = {}) # (Shared!OthersOn(g, op[g].at) = {})
<1>1. /\ op[g].pc = "count" /\ Shared!To(g, p, op[g].at, op[g].then)
      /\ misjudged' = IF wrong THEN misjudged \union {op[g].at} ELSE misjudged
      /\ UNCHANGED <<luks, home, running, shared_attached, connected, uses, shared_size, device, seen, extending, doubt>>
  BY DEF Shared!Count, Shared!sizes
<1>2. /\ SharedTyped /\ DevicesKnown /\ home[g] \in Host /\ op[g].at \in Host
      /\ op[g].then \in {"none", "remove", "land"}
  BY DEF SharedIInv, SharedTyped, Operation
<1>3. /\ op' \in [Guest -> Operation]
      /\ op'[g].pc = p /\ op'[g].at = op[g].at /\ op'[g].then = op[g].then
      /\ \A k \in Guest \ {g} : op'[k] = op[k]
  <2>1. p \in Pcs
    BY DEF Pcs
  <2> HIDE DEF p
  <2> QED
    BY <1>1, <1>2, <2>1, OperationMoves
<1>4. (p = "disconnect" /\ Shared!LastOne(g)) \/ (p = "end" /\ ~Shared!LastOne(g))
  BY Zenon
<1>8. misjudged \subseteq misjudged' /\ misjudged' \subseteq misjudged \union {op[g].at}
  BY <1>1
<1> HIDE DEF p, wrong
<1>5. SharedTyped'
  BY <1>1, <1>2, <1>3, <1>8 DEF SharedTyped
<1>6. DevicesKnown'
  BY <1>1, <1>2, <1>3, <1>4 DEF DevicesKnown
<1>7. ASSUME doubt' = "no" PROVE SharedCalm'
  <2>1. SharedCalm
    BY <1>1, <1>7 DEF SharedIInv
  <2>2. extending = Shared!NoGuest /\ \A k \in Guest \ {g} : op[k].pc = "idle"
    BY <1>1, <2>1 DEF SharedCalm, InTurn, Shared!Idle
  <2>3. /\ g \in shared_attached
        /\ op[g].then = "remove" => HasAt(g, {}) /\ op[g].at = home[g]
        /\ op[g].then = "land" => op[g].at = home[g] /\ \E to \in Host \ {home[g]} : HasAt(g, {to})
        /\ op[g].then = "none" => HasAt(g, {home[g]}) /\ op[g].at # home[g]
    BY <1>1, <2>1 DEF SharedCalm, UsesMatch, Shared!Idle
  <2>4. UsesMatch(g)'
    <3>1. \A H : HasAt(g, H)' <=> HasAt(g, H)
      BY <1>1 DEF HasAt
    <3> QED
      BY <1>1, <1>3, <1>4, <2>3, <3>1 DEF UsesMatch, Shared!Idle, HasAt
  <2>5. SharedElsewhere(g)
    BY <1>1, <1>3 DEF SharedElsewhere
  <2>6. InTurn' /\ \A k \in Guest : UsesMatch(k)'
    BY <1>1, <2>1, <2>2, <2>4, <2>5, OthersStay DEF Shared!Idle
  <2>7. op[g].at \notin misjudged' => (uses[op[g].at] = {} <=> Shared!LastOne(g))
    <3> SUFFICES ASSUME op[g].at \notin misjudged' PROVE uses[op[g].at] = {} <=> Shared!LastOne(g)
      OBVIOUS
    <3>5. (Shared!OthersOn(g, home[g]) = {}) <=> (Shared!OthersOn(g, op[g].at) = {})
      BY <1>1 DEF wrong
    <3>1. Shared!LastOne(g) <=> Shared!OthersOn(g, op[g].at) = {}
      BY <1>2, <2>3, <3>5, LastOneIs
    <3>2. g \notin uses[op[g].at]
      BY <1>2, <2>3 DEF HasAt
    <3>3. \A k \in Guest \ {g} : k \in uses[op[g].at] <=> k \in Shared!OthersOn(g, op[g].at)
      BY <1>2, <2>1, <2>2 DEF SharedCalm, UsesMatch, HasAt, Shared!Idle, Shared!OthersOn
    <3>4. uses[op[g].at] \subseteq Guest /\ Shared!OthersOn(g, op[g].at) \subseteq Guest \ {g}
      BY <1>2 DEF SharedTyped, Shared!OthersOn
    <3> QED
      BY <3>1, <3>2, <3>3, <3>4
  <2>8. ConnectedMatch'
    <3>1. \A h \in Host \ misjudged : h \in connected <=> uses[h] # {} \/ op[g].at = h
      BY <1>1, <2>1, <2>2 DEF SharedCalm, ConnectedMatch
    <3>2. \A h \in Host \ misjudged' : h \in connected <=> uses[h] # {} \/ (p = "disconnect" /\ op[g].at = h)
      BY <1>2, <1>4, <1>8, <2>7, <3>1
    <3> QED
      BY <1>1, <1>3, <1>4, <1>8, <2>2, <2>7, <3>2 DEF ConnectedMatch
  <2>9. FitsIn'
    BY <1>1, <2>1 DEF SharedCalm, FitsIn, Shared!Offset
  <2> QED
    BY <2>6, <2>8, <2>9 DEF SharedCalm
<1> QED
  BY <1>5, <1>6, <1>7 DEF SharedIInv

\* so does disconnecting the volume,
LEMMA DisconnectKeeps ==
  ASSUME SharedIInv, NEW g \in Guest, Shared!Disconnect(g) PROVE SharedIInv'
<1>1. /\ op[g].pc = "disconnect" /\ Shared!To(g, "end", op[g].at, op[g].then)
      /\ connected' = connected \ {op[g].at}
      /\ UNCHANGED <<luks, home, running, shared_attached, uses, shared_size, device, seen, extending, doubt, misjudged>>
  BY DEF Shared!Disconnect, Shared!sizes
<1>2. /\ SharedTyped /\ DevicesKnown /\ home[g] \in Host /\ op[g].at \in Host
      /\ op[g].then \in {"none", "remove", "land"}
  BY DEF SharedIInv, SharedTyped, Operation
<1>3. /\ op' \in [Guest -> Operation]
      /\ op'[g].pc = "end" /\ op'[g].at = op[g].at /\ op'[g].then = op[g].then
      /\ \A k \in Guest \ {g} : op'[k] = op[k]
  <2>1. "end" \in Pcs
    BY DEF Pcs
  <2> QED
    BY <1>1, <1>2, <2>1, OperationMoves
<1>4. SharedTyped'
  BY <1>1, <1>2, <1>3 DEF SharedTyped
<1>5. DevicesKnown'
  BY <1>1, <1>2, <1>3 DEF DevicesKnown
<1>6. ASSUME doubt' = "no" PROVE SharedCalm'
  <2>1. SharedCalm
    BY <1>1, <1>6 DEF SharedIInv
  <2>2. extending = Shared!NoGuest /\ \A k \in Guest \ {g} : op[k].pc = "idle"
    BY <1>1, <2>1 DEF SharedCalm, InTurn, Shared!Idle
  <2>3. /\ g \in shared_attached
        /\ op[g].then = "remove" => HasAt(g, {}) /\ op[g].at = home[g]
        /\ op[g].then = "land" => op[g].at = home[g] /\ \E to \in Host \ {home[g]} : HasAt(g, {to})
        /\ op[g].then = "none" => HasAt(g, {home[g]}) /\ op[g].at # home[g]
    BY <1>1, <2>1 DEF SharedCalm, UsesMatch, Shared!Idle
  <2>4. UsesMatch(g)'
    BY <1>1, <1>3, <2>3 DEF UsesMatch, Shared!Idle, HasAt
  <2>5. SharedElsewhere(g)
    BY <1>1, <1>3 DEF SharedElsewhere
  <2>6. InTurn' /\ \A k \in Guest : UsesMatch(k)'
    BY <1>1, <2>1, <2>2, <2>4, <2>5, OthersStay DEF Shared!Idle
  <2>7. ConnectedMatch'
    <3>1. /\ \A h \in Host \ misjudged : h \in connected <=> uses[h] # {} \/ op[g].at = h
          /\ uses[op[g].at] = {} \/ op[g].at \in misjudged
      BY <1>1, <2>1, <2>2 DEF SharedCalm, ConnectedMatch
    <3> QED
      BY <1>1, <1>3, <2>2, <3>1 DEF ConnectedMatch
  <2>8. FitsIn'
    BY <1>1, <2>1 DEF SharedCalm, FitsIn, Shared!Offset
  <2> QED
    BY <2>6, <2>7, <2>8 DEF SharedCalm
<1> QED
  BY <1>4, <1>5, <1>6 DEF SharedIInv


\* A guest that is to land is somewhere.
Landed ==
  \A g \in Guest :
    op[g].pc \in {"count", "disconnect", "end"} /\ op[g].then = "land" => \E h \in Host : g \in uses[h]

\* It is enough that a guest with an operation of its own is.
LEMMA LandedIf ==
  ASSUME Landed, NEW g \in Guest,
         \A k \in Guest \ {g} : op'[k] = op[k] /\ \A h \in Host : k \in uses[h] => k \in uses'[h],
         op'[g].pc \in {"count", "disconnect", "end"} /\ op'[g].then = "land" =>
           \E h \in Host : g \in uses'[h]
  PROVE  Landed'
BY DEF Landed

\* No step leaves a guest that is to land nowhere.
LEMMA LandedStays ==
  ASSUME SharedTyped, Landed, Shared!Next PROVE Landed'
<1>1. PICK g \in Guest :
        \/ Shared!Reserve(g) \/ Shared!Connect(g) \/ Shared!DetachDevice(g)
        \/ (\E to \in Host : Shared!Prepare(g, to))
        \/ Shared!Succeed(g) \/ Shared!Fail(g) \/ Shared!Count(g) \/ Shared!Disconnect(g) \/ Shared!End(g)
        \/ Shared!Extend(g) \/ (\E fails \in {"no", "connector", "libvirt"} : Shared!ExtendVolume(g, fails))
        \/ Shared!PowerOff(g) \/ Shared!PowerOn(g)
  BY DEF Shared!Next
<1>2. home[g] \in Host /\ op \in [Guest -> Operation] /\ uses \in [Host -> SUBSET Guest]
  BY DEF SharedTyped
<1>3. op[g].at \in Host /\ op[g].then \in {"none", "remove", "land"}
  BY <1>2 DEF Operation
<1>4. ASSUME NEW p, NEW a, NEW t, Shared!To(g, p, a, t)
      PROVE  op'[g].pc = p /\ op'[g].then = t /\ op'[g].at = a /\ \A k \in Guest \ {g} : op'[k] = op[k]
  <2> DEFINE o == [pc |-> p, at |-> a, then |-> t]
  <2>1. o.pc = p /\ o.at = a /\ o.then = t
    OBVIOUS
  <2>2. op' = [op EXCEPT ![g] = o]
    BY <1>4 DEF Shared!To
  <2> HIDE DEF o
  <2>3. op'[g] = o /\ \A k \in Guest \ {g} : op'[k] = op[k]
    BY <1>2, <2>2
  <2> QED
    BY <2>1, <2>3
<1>5. CASE Shared!Reserve(g) \/ (\E to \in Host : Shared!Prepare(g, to))
  <2>1. PICK to \in Host : /\ \/ Shared!To(g, "connect", home[g], "none") \/ Shared!To(g, "migrate", to, "none")
                           /\ UNCHANGED uses
    BY <1>2, <1>5 DEF Shared!Reserve, Shared!Begin, Shared!Prepare
  <2>2. op'[g].pc \in {"connect", "migrate"} /\ \A k \in Guest \ {g} : op'[k] = op[k]
    BY <1>4, <2>1
  <2> QED
    BY <2>1, <2>2, LandedIf
<1>6. CASE Shared!Connect(g)
  <2>1. Shared!To(g, "idle", home[g], "none") /\ uses' = [uses EXCEPT ![home[g]] = uses[home[g]] \union {g}]
    BY <1>2, <1>6 DEF Shared!Connect
  <2>2. op'[g].pc = "idle" /\ \A k \in Guest \ {g} : op'[k] = op[k]
    BY <1>4, <2>1
  <2>3. \A h \in Host : uses[h] \subseteq uses'[h]
    BY <1>2, <2>1
  <2> QED
    BY <2>2, <2>3, LandedIf
<1>7. CASE Shared!DetachDevice(g)
  <2>1. Shared!To(g, "count", home[g], "remove") /\ uses' = [uses EXCEPT ![home[g]] = uses[home[g]] \ {g}]
    BY <1>2, <1>7 DEF Shared!DetachDevice, Shared!Begin
  <2>2. op'[g].then = "remove" /\ \A k \in Guest \ {g} : op'[k] = op[k]
    BY <1>4, <2>1
  <2>3. \A h \in Host : uses[h] \subseteq uses'[h] \union {g}
    BY <1>2, <2>1
  <2> QED
    BY <2>2, <2>3, LandedIf
<1>8. CASE Shared!Succeed(g)
  <2>1. /\ Shared!To(g, "count", home[g], "land")
        /\ uses' = [uses EXCEPT ![home[g]] = @ \ {g}, ![op[g].at] = @ \union {g}]
    BY <1>8 DEF Shared!Succeed
  <2>2. \A k \in Guest \ {g} : op'[k] = op[k]
    BY <1>4, <2>1
  <2>3. g \in uses'[op[g].at] /\ \A h \in Host : uses[h] \subseteq uses'[h] \union {g}
    BY <1>2, <1>3, <2>1
  <2> QED
    BY <1>3, <2>2, <2>3, LandedIf
<1>9. CASE Shared!Fail(g)
  <2>1. Shared!To(g, "count", op[g].at, "none") /\ UNCHANGED uses
    BY <1>9 DEF Shared!Fail
  <2>2. op'[g].then = "none" /\ \A k \in Guest \ {g} : op'[k] = op[k]
    BY <1>4, <2>1
  <2> QED
    BY <2>1, <2>2, LandedIf
<1>10. CASE Shared!Count(g) \/ Shared!Disconnect(g)
  <2>1. PICK p \in {"disconnect", "end"} :
          Shared!To(g, p, op[g].at, op[g].then) /\ UNCHANGED uses /\ op[g].pc \in {"count", "disconnect"}
    BY <1>10 DEF Shared!Count, Shared!Disconnect
  <2>2. op'[g].then = op[g].then /\ \A k \in Guest \ {g} : op'[k] = op[k]
    BY <1>4, <2>1
  <2>3. op[g].then = "land" => \E h \in Host : g \in uses[h]
    BY <2>1 DEF Landed
  <2> QED
    BY <2>1, <2>2, <2>3, LandedIf
<1>11. CASE Shared!End(g)
  <2>1. op' = [op EXCEPT ![g] = Shared!NoOp] /\ UNCHANGED uses
    BY <1>11 DEF Shared!End
  <2>2. op'[g].pc = "idle" /\ \A k \in Guest \ {g} : op'[k] = op[k]
    BY <1>2, <2>1 DEF Shared!NoOp
  <2> QED
    BY <2>1, <2>2, LandedIf
<1>12. CASE \/ Shared!Extend(g) \/ (\E fails \in {"no", "connector", "libvirt"} : Shared!ExtendVolume(g, fails))
            \/ Shared!PowerOff(g) \/ Shared!PowerOn(g)
  <2>1. UNCHANGED <<op, uses>>
    BY <1>12 DEF Shared!Extend, Shared!ExtendVolume, Shared!PowerOff, Shared!PowerOn
  <2> QED
    BY <2>1 DEF Landed
<1> QED
  BY <1>1, <1>5, <1>6, <1>7, <1>8, <1>9, <1>10, <1>11, <1>12


\* The end of a cleanup keeps the invariant,
LEMMA EndKeeps ==
  ASSUME SharedIInv, Landed, NEW g \in Guest, Shared!End(g) PROVE SharedIInv'
<1> DEFINE landing == CHOOSE h \in Host : g \in uses[h]
<1>1. /\ op[g].pc = "end" /\ op' = [op EXCEPT ![g] = Shared!NoOp]
      /\ shared_attached' = IF op[g].then = "remove" THEN shared_attached \ {g} ELSE shared_attached
      /\ home' = IF op[g].then = "land" THEN [home EXCEPT ![g] = landing] ELSE home
      /\ UNCHANGED <<luks, running, connected, uses, shared_size, device, seen, extending, misjudged, doubt>>
  BY DEF Shared!End, Shared!sizes
<1>2. /\ SharedTyped /\ DevicesKnown /\ home[g] \in Host /\ op[g].at \in Host
      /\ op[g].then \in {"none", "remove", "land"}
  BY DEF SharedIInv, SharedTyped, Operation
<1> HIDE DEF landing
<1>3. /\ op' \in [Guest -> Operation] /\ op'[g].pc = "idle"
      /\ \A k \in Guest \ {g} : op'[k] = op[k]
  <2> DEFINE a == CHOOSE h \in Host : TRUE
  <2>1. Shared!NoOp = [pc |-> "idle", at |-> a, then |-> "none"] /\ a \in Host
    BY <1>2 DEF Shared!NoOp
  <2> HIDE DEF a
  <2>2. Shared!NoOp \in Operation /\ Shared!NoOp.pc = "idle"
    BY <2>1 DEF Operation, Pcs
  <2>3. op \in [Guest -> Operation]
    BY <1>2 DEF SharedTyped
  <2> QED
    BY <1>1, <2>2, <2>3
<1>4. ASSUME op[g].then = "land", \E h \in Host : g \in uses[h]
      PROVE  /\ landing \in Host /\ g \in uses[landing] /\ home'[g] = landing
             /\ home' \in [Guest -> Host] /\ \A k \in Guest \ {g} : home'[k] = home[k]
  <2>1. landing \in Host /\ g \in uses[landing]
    BY <1>4, Zenon DEF landing
  <2>2. home \in [Guest -> Host]
    BY <1>2 DEF SharedTyped
  <2> QED
    BY <1>1, <1>4, <2>1, <2>2
<1>5. ASSUME op[g].then = "land" PROVE \E h \in Host : g \in uses[h]
  BY <1>1, <1>5 DEF Landed
<1>6. /\ home' \in [Guest -> Host] /\ \A k \in Guest \ {g} : home'[k] = home[k]
      /\ op[g].then # "land" => home'[g] = home[g]
  <2>1. CASE op[g].then = "land"
    BY <1>4, <1>5, <2>1
  <2>2. CASE op[g].then # "land"
    BY <1>1, <1>2, <2>2 DEF SharedTyped
  <2> QED
    BY <2>1, <2>2
<1>7. SharedTyped'
  BY <1>1, <1>2, <1>3, <1>6 DEF SharedTyped
<1>8. DevicesKnown'
  BY <1>1, <1>2, <1>3 DEF DevicesKnown
<1>9. ASSUME doubt' = "no" PROVE SharedCalm'
  <2>1. SharedCalm
    BY <1>1, <1>9 DEF SharedIInv
  <2>2. extending = Shared!NoGuest /\ \A k \in Guest \ {g} : op[k].pc = "idle"
    BY <1>1, <2>1 DEF SharedCalm, InTurn, Shared!Idle
  <2>3. /\ g \in shared_attached
        /\ op[g].then = "remove" => HasAt(g, {}) /\ op[g].at = home[g]
        /\ op[g].then = "land" => op[g].at = home[g] /\ \E to \in Host \ {home[g]} : HasAt(g, {to})
        /\ op[g].then = "none" => HasAt(g, {home[g]}) /\ op[g].at # home[g]
    BY <1>1, <2>1 DEF SharedCalm, UsesMatch, Shared!Idle
  <2>4. UsesMatch(g)'
    <3>1. CASE op[g].then = "remove"
      BY <1>1, <1>3, <2>3, <3>1 DEF UsesMatch, Shared!Idle, HasAt
    <3>2. CASE op[g].then = "none"
      BY <1>1, <1>3, <2>3, <3>2 DEF UsesMatch, Shared!Idle, HasAt
    <3>3. CASE op[g].then = "land"
      <4>1. PICK to \in Host : HasAt(g, {to})
        BY <2>3, <3>3
      <4>2. home'[g] = to /\ shared_attached' = shared_attached
        BY <1>1, <1>4, <1>5, <3>3, <4>1 DEF HasAt
      <4> QED
        BY <1>1, <1>3, <2>3, <4>1, <4>2 DEF UsesMatch, Shared!Idle, HasAt
    <3> QED
      BY <1>2, <3>1, <3>2, <3>3
  <2>5. SharedElsewhere(g)
    BY <1>1, <1>3, <1>6 DEF SharedElsewhere
  <2>6. InTurn' /\ \A k \in Guest : UsesMatch(k)'
    BY <1>1, <2>1, <2>2, <2>4, <2>5, OthersStay DEF Shared!Idle
  <2>7. ConnectedMatch'
    <3>1. \A h \in Host \ misjudged : h \in connected <=> uses[h] # {}
      BY <1>1, <2>1, <2>2 DEF SharedCalm, ConnectedMatch
    <3> QED
      BY <1>1, <1>3, <2>2, <3>1 DEF ConnectedMatch
  <2>8. FitsIn'
    BY <1>1, <2>1 DEF SharedCalm, FitsIn, Shared!Offset
  <2> QED
    BY <2>6, <2>7, <2>8 DEF SharedCalm
<1> QED
  BY <1>7, <1>8, <1>9 DEF SharedIInv


\* Nothing that guests and connections match on changes.
LEMMA MatchesStay ==
  ASSUME SharedCalm, UNCHANGED <<op, home, shared_attached, connected, uses, misjudged>>,
         \A g \in Guest : op[g].pc = "migrate" => device'[op[g].at] = shared_size'
  PROVE  (\A g \in Guest : UsesMatch(g)') /\ ConnectedMatch'
<1>1. ConnectedMatch'
  BY DEF SharedCalm, ConnectedMatch
<1>2. ASSUME NEW g \in Guest PROVE UsesMatch(g)'
  <2>1. UsesMatch(g)
    BY DEF SharedCalm
  <2> QED
    BY <2>1 DEF UsesMatch, HasAt, Shared!Idle
<1> QED
  BY <1>1, <1>2

\* so does extending the volume at the storage,
LEMMA ExtendKeeps ==
  ASSUME SharedIInv, NEW g \in Guest, Shared!Extend(g) PROVE SharedIInv'
<1>1. /\ shared_attached = {g} /\ extending = Shared!NoGuest /\ shared_size < MaxSize
      /\ shared_size' = shared_size + 1 /\ extending' = g
      /\ doubt' = IF ~Shared!Alone(g) THEN "overlap" ELSE doubt
      /\ UNCHANGED <<luks, home, running, shared_attached, connected, uses, op, device, seen, misjudged>>
  BY DEF Shared!Extend, Shared!Overlap
<1>2. SharedTyped /\ DevicesKnown /\ shared_size \in 2 .. MaxSize /\ MaxSize \in Nat
  BY SharedAssumption DEF SharedIInv, SharedTyped, Shared!SharedVolumeAssumption
<1>3. shared_size' \in 2 .. MaxSize
  BY <1>1, <1>2
<1>4. SharedTyped'
  BY <1>1, <1>2, <1>3 DEF SharedTyped
<1>5. DevicesKnown'
  <2> SUFFICES ASSUME NEW h \in Host PROVE device[h] <= shared_size'
    BY <1>1, <1>2 DEF DevicesKnown
  <2>1. device[h] \in Int /\ device[h] <= shared_size
    BY <1>2 DEF DevicesKnown, SharedTyped
  <2> QED
    BY <1>1, <1>2, <2>1
<1>6. ASSUME doubt' = "no" PROVE SharedCalm'
  <2>1. SharedCalm /\ Shared!Alone(g)
    BY <1>1, <1>6 DEF SharedIInv
  <2>2. \A k \in Guest : op[k].pc = "idle"
    BY <2>1 DEF Shared!Alone, Shared!Idle
  <2>3. InTurn'
    BY <1>1, <2>2 DEF InTurn, Shared!Idle
  <2>4. (\A k \in Guest : UsesMatch(k)') /\ ConnectedMatch'
    BY <1>1, <2>1, <2>2, MatchesStay
  <2>5. FitsIn'
    BY <1>1, <2>1 DEF SharedCalm, FitsIn, Shared!Offset
  <2> QED
    BY <2>3, <2>4, <2>5 DEF SharedCalm
<1> QED
  BY <1>4, <1>5, <1>6 DEF SharedIInv

\* so does telling a host of it,
LEMMA ExtendVolumeKeeps ==
  ASSUME SharedIInv, NEW g \in Guest, NEW fails \in {"no", "connector", "libvirt"},
         Shared!ExtendVolume(g, fails)
  PROVE  SharedIInv'
<1>1. /\ extending = g /\ extending' = Shared!NoGuest
      /\ device' = IF fails = "connector" THEN device ELSE [device EXCEPT ![home[g]] = shared_size]
      /\ seen' = IF fails = "no" /\ running[g] /\ g \in uses[home[g]]
                 THEN [seen EXCEPT ![g] = shared_size - Shared!Offset] ELSE seen
      /\ UNCHANGED <<luks, home, running, shared_attached, connected, uses, op, shared_size, doubt, misjudged>>
  BY DEF Shared!ExtendVolume, Shared!DecryptedSize
<1>2. /\ SharedTyped /\ DevicesKnown /\ home[g] \in Host /\ shared_size \in 2 .. MaxSize /\ MaxSize \in Nat
      /\ g # Shared!NoGuest
  BY SharedAssumption DEF SharedIInv, SharedTyped, Shared!SharedVolumeAssumption, Shared!NoGuest
<1>3. Shared!Offset \in {0, 1} /\ Shared!Offset' = Shared!Offset
  BY <1>1 DEF Shared!Offset
<1>4. /\ device' \in [Host -> 0 .. MaxSize]
      /\ \A h \in Host : device[h] <= device'[h] /\ device'[h] <= shared_size
      /\ fails = "no" => device'[home[g]] = shared_size
  <2>1. device \in [Host -> 0 .. MaxSize] /\ \A h \in Host : device[h] <= shared_size
    BY <1>2 DEF SharedTyped, DevicesKnown
  <2>2. CASE fails = "connector"
    BY <1>1, <2>1, <2>2
  <2>3. CASE fails # "connector"
    BY <1>1, <1>2, <2>1, <2>3
  <2> QED
    BY <2>2, <2>3
<1>5. /\ seen' \in [Guest -> 0 .. MaxSize] /\ \A k \in Guest \ {g} : seen'[k] = seen[k]
      /\ \/ seen'[g] = seen[g]
         \/ fails = "no" /\ seen'[g] = shared_size - Shared!Offset
  <2>1. seen \in [Guest -> 0 .. MaxSize] /\ shared_size - Shared!Offset \in 0 .. MaxSize
    BY <1>2, <1>3 DEF SharedTyped
  <2> QED
    BY <1>1, <2>1
<1>6. SharedTyped'
  BY <1>1, <1>2, <1>4, <1>5 DEF SharedTyped
<1>7. DevicesKnown'
  <2> SUFFICES ASSUME NEW h \in Host
               PROVE  /\ device'[h] <= shared_size
                      /\ \/ h \in connected \/ uses[h] # {}
                         \/ \E k \in Guest : op[k].pc = "migrate" /\ op[k].at = h
                         => device'[h] >= 2
    BY <1>1 DEF DevicesKnown
  <2>1. device[h] \in Int /\ device'[h] \in Int /\ device[h] <= device'[h] /\ device'[h] <= shared_size
    BY <1>2, <1>4 DEF SharedTyped
  <2> QED
    BY <1>2, <2>1 DEF DevicesKnown
<1>8. ASSUME doubt' = "no" PROVE SharedCalm'
  <2>1. SharedCalm
    BY <1>1, <1>8 DEF SharedIInv
  <2>2. \A k \in Guest : op[k].pc = "idle"
    BY <1>1, <1>2, <2>1 DEF SharedCalm, InTurn, Shared!Idle
  <2>3. InTurn'
    BY <1>1, <2>2 DEF InTurn, Shared!Idle
  <2>4. (\A k \in Guest : UsesMatch(k)') /\ ConnectedMatch'
    BY <1>1, <2>1, <2>2, MatchesStay
  <2>5. FitsIn'
    <3> SUFFICES ASSUME NEW h \in Host, NEW k \in uses[h], running[k]
                 PROVE  seen'[k] <= device'[h] - Shared!Offset
      BY <1>1, <1>3 DEF FitsIn
    <3>1. /\ k \in Guest /\ seen[k] <= device[h] - Shared!Offset
          /\ seen[k] \in Int /\ device[h] \in Int /\ device'[h] \in Int /\ device[h] <= device'[h]
      BY <1>2, <1>4, <2>1 DEF SharedCalm, FitsIn, SharedTyped
    <3>2. CASE seen'[k] = seen[k]
      BY <1>3, <3>1, <3>2
    <3>3. CASE seen'[k] # seen[k]
      <4>1. k = g /\ fails = "no" /\ seen'[g] = shared_size - Shared!Offset
        BY <1>5, <3>1, <3>3
      <4>2. HasAt(g, {home[g]}) \/ HasAt(g, {})
        BY <2>1, <2>2 DEF SharedCalm, UsesMatch, Shared!Idle
      <4>3. h = home[g]
        BY <4>1, <4>2 DEF HasAt
      <4> QED
        BY <1>2, <1>3, <1>4, <4>1, <4>3
    <3> QED
      BY <3>2, <3>3
  <2> QED
    BY <2>3, <2>4, <2>5 DEF SharedCalm
<1> QED
  BY <1>6, <1>7, <1>8 DEF SharedIInv

\* so does stopping the guest,
LEMMA PowerOffKeeps ==
  ASSUME SharedIInv, NEW g \in Guest, Shared!PowerOff(g) PROVE SharedIInv'
<1>1. /\ running' = [running EXCEPT ![g] = FALSE]
      /\ UNCHANGED <<luks, home, shared_attached, connected, uses, op, shared_size, device, seen, extending, doubt, misjudged>>
  BY DEF Shared!PowerOff, Shared!sizes
<1>2. SharedTyped /\ DevicesKnown
  BY DEF SharedIInv
<1>3. /\ running' \in [Guest -> BOOLEAN] /\ \A k \in Guest : running'[k] => running[k]
  BY <1>1, <1>2 DEF SharedTyped
<1>4. SharedTyped' /\ DevicesKnown'
  BY <1>1, <1>2, <1>3 DEF SharedTyped, DevicesKnown
<1>5. ASSUME doubt' = "no" PROVE SharedCalm'
  <2>1. SharedCalm
    BY <1>1, <1>5 DEF SharedIInv
  <2>2. InTurn'
    BY <1>1, <2>1 DEF SharedCalm, InTurn, Shared!Idle
  <2>3. \A k \in Guest : op[k].pc = "migrate" => device'[op[k].at] = shared_size'
    BY <1>1, <2>1 DEF SharedCalm, UsesMatch
  <2>4. (\A k \in Guest : UsesMatch(k)') /\ ConnectedMatch'
    BY <1>1, <2>1, <2>3, MatchesStay
  <2>5. FitsIn'
    BY <1>1, <1>2, <1>3, <2>1 DEF SharedCalm, FitsIn, Shared!Offset, SharedTyped
  <2> QED
    BY <2>2, <2>4, <2>5 DEF SharedCalm
<1> QED
  BY <1>4, <1>5 DEF SharedIInv

\* and so does starting it.
LEMMA PowerOnKeeps ==
  ASSUME SharedIInv, NEW g \in Guest, Shared!PowerOn(g) PROVE SharedIInv'
<1>1. /\ op[g].pc = "idle" /\ running' = [running EXCEPT ![g] = TRUE]
      /\ seen' = IF g \in uses[home[g]] THEN [seen EXCEPT ![g] = device[home[g]] - Shared!Offset] ELSE seen
      /\ UNCHANGED <<luks, home, shared_attached, connected, uses, op, shared_size, device, extending, doubt, misjudged>>
  BY DEF Shared!PowerOn, Shared!Idle
<1>2. SharedTyped /\ DevicesKnown /\ home[g] \in Host /\ MaxSize \in Nat
  BY SharedAssumption DEF SharedIInv, SharedTyped, Shared!SharedVolumeAssumption
<1>3. Shared!Offset \in {0, 1} /\ Shared!Offset' = Shared!Offset
  BY <1>1 DEF Shared!Offset
<1>4. /\ running' \in [Guest -> BOOLEAN] /\ \A k \in Guest \ {g} : running'[k] = running[k]
  BY <1>1, <1>2 DEF SharedTyped
<1>5. /\ seen' \in [Guest -> 0 .. MaxSize] /\ \A k \in Guest \ {g} : seen'[k] = seen[k]
      /\ g \in uses[home[g]] => seen'[g] = device[home[g]] - Shared!Offset
  <2>1. seen \in [Guest -> 0 .. MaxSize] /\ device[home[g]] \in 0 .. MaxSize
    BY <1>2 DEF SharedTyped
  <2>2. CASE g \in uses[home[g]]
    <3>1. device[home[g]] >= 2
      BY <1>2, <2>2 DEF DevicesKnown
    <3>2. device[home[g]] - Shared!Offset \in 0 .. MaxSize
      BY <1>2, <1>3, <2>1, <3>1
    <3> QED
      BY <1>1, <2>1, <2>2, <3>2
  <2>3. CASE g \notin uses[home[g]]
    BY <1>1, <2>1, <2>3
  <2> QED
    BY <2>2, <2>3
<1>6. SharedTyped' /\ DevicesKnown'
  BY <1>1, <1>2, <1>4, <1>5 DEF SharedTyped, DevicesKnown
<1>7. ASSUME doubt' = "no" PROVE SharedCalm'
  <2>1. SharedCalm
    BY <1>1, <1>7 DEF SharedIInv
  <2>2. InTurn'
    BY <1>1, <2>1 DEF SharedCalm, InTurn, Shared!Idle
  <2>3. \A k \in Guest : op[k].pc = "migrate" => device'[op[k].at] = shared_size'
    BY <1>1, <2>1 DEF SharedCalm, UsesMatch
  <2>4. (\A k \in Guest : UsesMatch(k)') /\ ConnectedMatch'
    BY <1>1, <2>1, <2>3, MatchesStay
  <2>5. FitsIn'
    <3> SUFFICES ASSUME NEW h \in Host, NEW k \in uses[h], running'[k]
                 PROVE  seen'[k] <= device[h] - Shared!Offset
      BY <1>1, <1>3 DEF FitsIn
    <3>1. k \in Guest
      BY <1>2 DEF SharedTyped
    <3>2. CASE k = g
      <4>1. HasAt(g, {home[g]}) \/ HasAt(g, {})
        BY <1>1, <2>1 DEF SharedCalm, UsesMatch, Shared!Idle
      <4>2. h = home[g]
        BY <3>2, <4>1 DEF HasAt
      <4>3. device[h] \in Int
        BY <1>2 DEF SharedTyped
      <4> QED
        BY <1>3, <1>5, <3>2, <4>2, <4>3
    <3>3. CASE k # g
      BY <1>4, <1>5, <2>1, <3>1, <3>3 DEF SharedCalm, FitsIn
    <3> QED
      BY <3>2, <3>3
  <2> QED
    BY <2>2, <2>4, <2>5 DEF SharedCalm
<1> QED
  BY <1>6, <1>7 DEF SharedIInv

\* Every step of the guests is one of these.
LEMMA SharedStep == SharedIInv /\ Landed /\ [Shared!Next]_(Shared!vars) => SharedIInv' /\ Landed'
<1>1. ASSUME SharedIInv, Landed, UNCHANGED Shared!vars PROVE SharedIInv' /\ Landed'
  <2>1. /\ UNCHANGED <<luks, home, running, shared_attached, connected, uses, op, misjudged>>
        /\ UNCHANGED <<shared_size, device, seen, extending, doubt>>
    BY <1>1 DEF Shared!vars, Shared!sizes
  <2>2. SharedTyped' /\ DevicesKnown' /\ Landed'
    BY <1>1, <2>1 DEF SharedIInv, SharedTyped, DevicesKnown, Landed
  <2>3. ASSUME SharedCalm PROVE SharedCalm'
    <3>1. InTurn' /\ FitsIn'
      BY <2>1, <2>3 DEF SharedCalm, InTurn, Shared!Idle, FitsIn, Shared!Offset
    <3>2. \A k \in Guest : op[k].pc = "migrate" => device'[op[k].at] = shared_size'
      BY <2>1, <2>3 DEF SharedCalm, UsesMatch
    <3>3. (\A k \in Guest : UsesMatch(k)') /\ ConnectedMatch'
      BY <2>1, <2>3, <3>2, MatchesStay
    <3> QED
      BY <3>1, <3>3 DEF SharedCalm
  <2> QED
    BY <1>1, <2>1, <2>2, <2>3 DEF SharedIInv
<1>2. ASSUME SharedIInv, Landed, Shared!Next PROVE SharedIInv'
  <2>1. PICK g \in Guest :
          \/ Shared!Reserve(g) \/ Shared!Connect(g) \/ Shared!DetachDevice(g)
          \/ (\E to \in Host : Shared!Prepare(g, to))
          \/ Shared!Succeed(g) \/ Shared!Fail(g) \/ Shared!Count(g) \/ Shared!Disconnect(g) \/ Shared!End(g)
          \/ Shared!Extend(g) \/ (\E fails \in {"no", "connector", "libvirt"} : Shared!ExtendVolume(g, fails))
          \/ Shared!PowerOff(g) \/ Shared!PowerOn(g)
    BY <1>2 DEF Shared!Next
  <2>2. CASE Shared!Reserve(g) \/ Shared!Connect(g) \/ Shared!DetachDevice(g)
             \/ (\E to \in Host : Shared!Prepare(g, to))
    BY <1>2, <2>2, ReserveKeeps, ConnectKeeps, DetachDeviceKeeps, PrepareVolumeKeeps
  <2>3. CASE Shared!Succeed(g) \/ Shared!Fail(g) \/ Shared!Count(g) \/ Shared!Disconnect(g) \/ Shared!End(g)
    BY <1>2, <2>3, SucceedKeeps, FailKeeps, CountKeeps, DisconnectKeeps, EndKeeps
  <2>4. CASE \/ Shared!Extend(g) \/ (\E fails \in {"no", "connector", "libvirt"} : Shared!ExtendVolume(g, fails))
             \/ Shared!PowerOff(g) \/ Shared!PowerOn(g)
    BY <1>2, <2>4, ExtendKeeps, ExtendVolumeKeeps, PowerOffKeeps, PowerOnKeeps
  <2> QED
    BY <2>1, <2>2, <2>3, <2>4
<1> QED
  BY <1>1, <1>2, LandedStays DEF SharedIInv

SharedInv == part = "shared" => SharedIInv /\ Landed

\* So the invariant of the shared volume holds in every behaviour of the parts.
LEMMA SharedInvariant == Spec => []SharedInv
<1>1. Init => SharedInv
  <2>1. Shared!Init => Landed
    BY DEF Shared!Init, Landed, Shared!NoOp
  <2> QED
    BY <2>1, PartStarts, SharedStarts DEF SharedInv
<1>2. SharedInv /\ [Next]_vars => SharedInv'
  BY PartSteps, SharedStep DEF SharedInv
<1> QED
  BY <1>1, <1>2, PTL DEF Spec

\* The invariant implies what the runs ask of the shared volume.
LEMMA VolumeHolds == SharedIInv => Shared!ConnectedWhileUsed /\ Shared!FitsDevice
<1> SUFFICES ASSUME SharedIInv, doubt = "no"
             PROVE  /\ \A h \in Host \ misjudged : uses[h] # {} => h \in connected
                    /\ (\A g \in Guest : Shared!Idle(g)) => \A h \in connected \ misjudged : uses[h] # {}
                    /\ FitsIn
  BY DEF Shared!ConnectedWhileUsed, Shared!FitsDevice, FitsIn
<1>1. SharedCalm /\ connected \subseteq Host
  BY DEF SharedIInv, SharedTyped
<1> QED
  BY <1>1 DEF SharedCalm, ConnectedMatch, Shared!Idle

-----------------------------------------------------------------------------
(***************************************************************************)
(* Sequences of files, each of which is in it once, and what they hold     *)
(* together under an assignment d of writes to files.                      *)
(***************************************************************************)
Qcow == {"base"} \union Snapshot
Writes == [Qcow -> SUBSET Nat]
NoneTwice(q) == \A i, j \in DOMAIN q : q[i] = q[j] => i = j
Shown(d, q, n) == UNION {d[q[i]] : i \in 1 .. n}

\* What shows through files is what one of them holds.
LEMMA ShownIs ==
  ASSUME NEW d, NEW q, NEW n
  PROVE  \A x : x \in Shown(d, q, n) <=> \E i \in 1 .. n : x \in d[q[i]]
BY Zenon DEF Shown

\* The views of the module are what shows through the files.
LEMMA ViewIs ==
  /\ \A q, n : Snapshots!View(q, n) = Shown(data, q, n)
  /\ Snapshots!View(chain, Len(chain))' = Shown(data', chain', Len(chain'))
BY DEF Snapshots!View, Shown

\* A file has one place.
LEMMA PositionIs ==
  ASSUME NEW q, NoneTwice(q), NEW i \in DOMAIN q
  PROVE  Snapshots!Position(q[i], q) = i
BY DEF NoneTwice, Snapshots!Position

\* Without its i-th file a sequence is one shorter, the rest moves up.
LEMMA WithoutIs ==
  ASSUME NEW q \in Seq(Qcow), NoneTwice(q), NEW i \in 1 .. Len(q)
  PROVE  LET w == Snapshots!Without(q[i], q) IN
         /\ w \in Seq(Qcow) /\ Len(w) = Len(q) - 1
         /\ \A j \in 1 .. Len(q) - 1 : w[j] = IF j < i THEN q[j] ELSE q[j + 1]
<1>1. Len(q) \in Nat /\ DOMAIN q = 1 .. Len(q)
  OBVIOUS
<1>2. Snapshots!Without(q[i], q) = SubSeq(q, 1, i - 1) \o SubSeq(q, i + 1, Len(q))
  BY <1>1, PositionIs DEF Snapshots!Without, Snapshots!RemoveAt
<1> DEFINE a == SubSeq(q, 1, i - 1)
           b == SubSeq(q, i + 1, Len(q))
<1>3. a \in Seq(Qcow) /\ Len(a) = i - 1 /\ \A j \in 1 .. i - 1 : a[j] = q[j]
  OBVIOUS
<1>4. b \in Seq(Qcow) /\ Len(b) = Len(q) - i /\ \A j \in 1 .. Len(q) - i : b[j] = q[j + i]
  OBVIOUS
<1> HIDE DEF a, b
<1>5. a \o b \in Seq(Qcow) /\ Len(a \o b) = Len(q) - 1
  <2>1. a \in Seq(Qcow) /\ b \in Seq(Qcow)
    BY <1>3, <1>4
  <2>2. ASSUME NEW S, NEW s \in Seq(S), NEW t \in Seq(S)
        PROVE  s \o t \in Seq(S) /\ Len(s \o t) = Len(s) + Len(t)
    OBVIOUS
  <2>3. a \o b \in Seq(Qcow) /\ Len(a \o b) = Len(a) + Len(b)
    BY <2>1, <2>2
  <2> QED
    BY <1>1, <1>3, <1>4, <2>3
<1>6. ASSUME NEW j \in 1 .. Len(q) - 1 PROVE (a \o b)[j] = IF j < i THEN q[j] ELSE q[j + 1]
  <2>1. CASE j < i
    BY <1>1, <1>3, <1>4, <2>1
  <2>2. CASE ~(j < i)
    <3>1. (a \o b)[j] = b[j - (i - 1)]
      BY <1>1, <1>3, <1>4, <2>2
    <3>2. j - (i - 1) \in 1 .. Len(q) - i
      BY <1>1, <2>2
    <3> QED
      BY <1>1, <1>4, <2>2, <3>1, <3>2
  <2> QED
    BY <2>1, <2>2
<1> QED
  BY <1>2, <1>5, <1>6 DEF a, b

\* The part of a sequence before its end, and its last file.
LEMMA FrontAndLast ==
  ASSUME NEW q \in Seq(Qcow), Len(q) > 0, NEW n \in 0 .. Len(q) - 1
  PROVE  LET w == Append(SubSeq(q, 1, n), Snapshots!Last(q)) IN
         /\ w \in Seq(Qcow) /\ Len(w) = n + 1
         /\ \A j \in 1 .. n : w[j] = q[j]
         /\ w[n + 1] = q[Len(q)]
<1> DEFINE a == SubSeq(q, 1, n)
<1>1. a \in Seq(Qcow) /\ Len(a) = n /\ \A j \in 1 .. n : a[j] = q[j]
  OBVIOUS
<1>2. Snapshots!Last(q) = q[Len(q)] /\ q[Len(q)] \in Qcow
  BY DEF Snapshots!Last
<1> HIDE DEF a
<1>3. Append(a, q[Len(q)]) \in Seq(Qcow) /\ Len(Append(a, q[Len(q)])) = n + 1
  BY <1>1, <1>2
<1>4. /\ \A j \in 1 .. n : Append(a, q[Len(q)])[j] = q[j]
      /\ Append(a, q[Len(q)])[n + 1] = q[Len(q)]
  BY <1>1, <1>2
<1> QED
  BY <1>2, <1>3, <1>4 DEF a

\* A sequence whose files are some of another's, in its order.
Has(q, f) == \E i \in 1 .. Len(q) : q[i] = f
Sub(w, q) ==
  \E m \in [1 .. Len(w) -> 1 .. Len(q)] :
    /\ \A i \in 1 .. Len(w) : w[i] = q[m[i]]
    /\ \A i, j \in 1 .. Len(w) : i < j => m[i] < m[j]
Follows(p, q) ==
  \A i, j \in 1 .. Len(p), a, b \in 1 .. Len(q) :
    i < j /\ p[i] = q[a] /\ p[j] = q[b] => a < b

\* The set of the files of a sequence is that of the files it has.
LEMMA HasIs ==
  ASSUME NEW q \in Seq(Qcow) PROVE \A f : f \in Snapshots!ToSet(q) <=> Has(q, f)
BY DEF Snapshots!ToSet, Has

\* A sequence taken out of one with no file twice has no file twice.
LEMMA SubOnce ==
  ASSUME NEW q \in Seq(Qcow), NEW w \in Seq(Qcow), NoneTwice(q), Sub(w, q)
  PROVE  NoneTwice(w) /\ \A f : Has(w, f) => Has(q, f)
<1>1. PICK m \in [1 .. Len(w) -> 1 .. Len(q)] :
        /\ \A i \in 1 .. Len(w) : w[i] = q[m[i]]
        /\ \A i, j \in 1 .. Len(w) : i < j => m[i] < m[j]
  BY DEF Sub
<1>2. DOMAIN w = 1 .. Len(w) /\ DOMAIN q = 1 .. Len(q) /\ Len(w) \in Nat /\ Len(q) \in Nat
  OBVIOUS
<1>3. ASSUME NEW i \in 1 .. Len(w), NEW j \in 1 .. Len(w), w[i] = w[j] PROVE i = j
  <2>1. m[i] = m[j]
    <3>1. m[i] \in DOMAIN q /\ m[j] \in DOMAIN q /\ q[m[i]] = q[m[j]]
      BY <1>1, <1>2, <1>3
    <3> QED
      BY <3>1 DEF NoneTwice
  <2>2. m[i] \in Int /\ ~(m[i] < m[j]) /\ ~(m[j] < m[i])
    BY <1>1, <1>2, <2>1
  <2> QED
    BY <1>1, <1>2, <2>2
<1>4. \A f : Has(w, f) => Has(q, f)
  BY <1>1 DEF Has
<1> QED
  BY <1>2, <1>3, <1>4 DEF NoneTwice

\* Order is kept by a part of the first sequence,
LEMMA FollowsLeft ==
  ASSUME NEW p, NEW q, NEW w, Follows(p, q), Sub(w, p)
  PROVE  Follows(w, q)
<1> SUFFICES ASSUME NEW i \in 1 .. Len(w), NEW j \in 1 .. Len(w), NEW a \in 1 .. Len(q), NEW b \in 1 .. Len(q),
                    i < j, w[i] = q[a], w[j] = q[b]
             PROVE  a < b
  BY DEF Follows
<1>1. PICK m \in [1 .. Len(w) -> 1 .. Len(p)] :
        /\ \A k \in 1 .. Len(w) : w[k] = p[m[k]]
        /\ \A k, l \in 1 .. Len(w) : k < l => m[k] < m[l]
  BY DEF Sub
<1>2. m[i] \in 1 .. Len(p) /\ m[j] \in 1 .. Len(p) /\ m[i] < m[j] /\ p[m[i]] = q[a] /\ p[m[j]] = q[b]
  BY <1>1
<1> QED
  BY <1>2 DEF Follows

\* and by a part of the second.
LEMMA FollowsRight ==
  ASSUME NEW p, NEW q \in Seq(Qcow), NEW w \in Seq(Qcow), Follows(p, q), Sub(w, q)
  PROVE  Follows(p, w)
<1>1. PICK m \in [1 .. Len(w) -> 1 .. Len(q)] :
        /\ \A i \in 1 .. Len(w) : w[i] = q[m[i]]
        /\ \A i, j \in 1 .. Len(w) : i < j => m[i] < m[j]
  BY DEF Sub
<1>2. ASSUME NEW i \in 1 .. Len(p), NEW j \in 1 .. Len(p), NEW a \in 1 .. Len(w), NEW b \in 1 .. Len(w),
             i < j, p[i] = w[a], p[j] = w[b]
      PROVE  a < b
  <2>1. p[i] = q[m[a]] /\ p[j] = q[m[b]] /\ m[a] \in 1 .. Len(q) /\ m[b] \in 1 .. Len(q)
    BY <1>1, <1>2
  <2>2. m[a] < m[b]
    BY <1>2, <2>1 DEF Follows
  <2>3. ~(b < a) /\ a # b
    BY <1>1, <2>1, <2>2
  <2> QED
    BY <2>3
<1> QED
  BY <1>2 DEF Follows

\* A sequence without one of its files is a part of it, and the files behind it move up.
LEMMA SubWithout ==
  ASSUME NEW q \in Seq(Qcow), NoneTwice(q), NEW i \in 1 .. Len(q)
  PROVE  LET w == Snapshots!Without(q[i], q) IN
         /\ w \in Seq(Qcow) /\ Len(w) = Len(q) - 1 /\ Sub(w, q) /\ NoneTwice(w)
         /\ \A j \in 1 .. Len(w) : w[j] = IF j < i THEN q[j] ELSE q[j + 1]
         /\ \A k \in 1 .. Len(q) : k < i => w[k] = q[k]
         /\ \A k \in 1 .. Len(q) : k > i => w[k - 1] = q[k]
         /\ \A f : Has(w, f) <=> Has(q, f) /\ f # q[i]
<1> DEFINE w == Snapshots!Without(q[i], q)
           m == [j \in 1 .. Len(w) |-> IF j < i THEN j ELSE j + 1]
<1>1. w \in Seq(Qcow) /\ Len(w) = Len(q) - 1 /\ \A j \in 1 .. Len(w) : w[j] = IF j < i THEN q[j] ELSE q[j + 1]
  BY WithoutIs
<1> HIDE DEF w
<1>2. Len(q) \in Nat /\ DOMAIN q = 1 .. Len(q)
  OBVIOUS
<1>3. /\ m \in [1 .. Len(w) -> 1 .. Len(q)]
      /\ \A j \in 1 .. Len(w) : w[j] = q[m[j]]
      /\ \A j, k \in 1 .. Len(w) : j < k => m[j] < m[k]
  <2>1. \A j \in 1 .. Len(w) : j \in Nat /\ j \in 1 .. Len(q) /\ j + 1 \in 1 .. Len(q)
    BY <1>1, <1>2
  <2>2. m \in [1 .. Len(w) -> 1 .. Len(q)]
    BY <2>1
  <2>3. \A j \in 1 .. Len(w) : m[j] = IF j < i THEN j ELSE j + 1
    OBVIOUS
  <2> HIDE DEF m
  <2>4. \A j \in 1 .. Len(w) : w[j] = q[m[j]]
    BY <1>1, <2>3
  <2>5. \A j, k \in 1 .. Len(w) : j < k => m[j] < m[k]
    BY <2>1, <2>3
  <2> QED
    BY <2>2, <2>4, <2>5
<1>4. Sub(w, q)
  <2> HIDE DEF m
  <2> QED
    BY <1>3 DEF Sub
<1>5. NoneTwice(w) /\ \A f : Has(w, f) => Has(q, f)
  BY <1>1, <1>4, SubOnce
<1>6. /\ \A k \in 1 .. Len(q) : k < i => k \in 1 .. Len(w) /\ w[k] = q[k]
      /\ \A k \in 1 .. Len(q) : k > i => k - 1 \in 1 .. Len(w) /\ w[k - 1] = q[k]
  BY <1>1, <1>2
<1>7. ~Has(w, q[i])
  <2>1. ASSUME NEW j \in 1 .. Len(w), w[j] = q[i] PROVE FALSE
    <3>1. m[j] \in 1 .. Len(q) /\ q[m[j]] = q[i] /\ m[j] # i
      BY <1>1, <1>2, <2>1
    <3> QED
      BY <1>2, <3>1 DEF NoneTwice
  <2> QED
    BY <2>1 DEF Has
<1>8. ASSUME NEW f, Has(q, f), f # q[i] PROVE Has(w, f)
  <2>1. PICK k \in 1 .. Len(q) : q[k] = f
    BY <1>8 DEF Has
  <2>2. k < i \/ k > i
    BY <1>2, <1>8, <2>1
  <2> QED
    BY <1>6, <2>1, <2>2 DEF Has
<1> QED
  BY <1>1, <1>4, <1>5, <1>6, <1>7, <1>8 DEF w

\* What is left of the known files and of the chain when one of them is taken out.
LEMMA KnownWithout ==
  ASSUME known \in Seq(Qcow), NoneTwice(known), NEW i \in 1 .. Len(known), NEW w, w = Snapshots!Without(known[i], known)
  PROVE  /\ w \in Seq(Qcow) /\ Len(w) = Len(known) - 1 /\ Sub(w, known) /\ NoneTwice(w)
         /\ \A k \in 1 .. Len(known) : k < i => w[k] = known[k]
         /\ \A k \in 1 .. Len(known) : k > i => w[k - 1] = known[k]
         /\ \A f : Has(w, f) <=> Has(known, f) /\ f # known[i]
<1> DEFINE v == Snapshots!Without(known[i], known)
<1>1. /\ v \in Seq(Qcow) /\ Len(v) = Len(known) - 1 /\ Sub(v, known) /\ NoneTwice(v)
      /\ \A k \in 1 .. Len(known) : k < i => v[k] = known[k]
      /\ \A k \in 1 .. Len(known) : k > i => v[k - 1] = known[k]
      /\ \A f : Has(v, f) <=> Has(known, f) /\ f # known[i]
  BY SubWithout
<1>2. v = w
  OBVIOUS
<1> HIDE DEF v
<1> QED
  BY <1>1, <1>2

\* The same of the chain.
LEMMA ChainWithout ==
  ASSUME chain \in Seq(Qcow), NoneTwice(chain), NEW t \in 1 .. Len(chain), NEW w, w = Snapshots!Without(chain[t], chain)
  PROVE  /\ w \in Seq(Qcow) /\ Len(w) = Len(chain) - 1 /\ Sub(w, chain) /\ NoneTwice(w)
         /\ \A j \in 1 .. Len(w) : w[j] = IF j < t THEN chain[j] ELSE chain[j + 1]
         /\ \A k \in 1 .. Len(chain) : k > t => w[k - 1] = chain[k]
         /\ \A f : Has(w, f) <=> Has(chain, f) /\ f # chain[t]
<1> DEFINE v == Snapshots!Without(chain[t], chain)
<1>1. /\ v \in Seq(Qcow) /\ Len(v) = Len(chain) - 1 /\ Sub(v, chain) /\ NoneTwice(v)
      /\ \A j \in 1 .. Len(v) : v[j] = IF j < t THEN chain[j] ELSE chain[j + 1]
      /\ \A k \in 1 .. Len(chain) : k > t => v[k - 1] = chain[k]
      /\ \A f : Has(v, f) <=> Has(chain, f) /\ f # chain[t]
  BY SubWithout
<1>2. v = w
  OBVIOUS
<1> HIDE DEF v
<1> QED
  BY <1>1, <1>2

\* So is a sequence whose files between a place and the last one are taken out.
LEMMA SubFront ==
  ASSUME NEW q \in Seq(Qcow), NoneTwice(q), Len(q) > 0, NEW n \in 0 .. Len(q) - 1
  PROVE  LET w == Append(SubSeq(q, 1, n), Snapshots!Last(q)) IN
         /\ w \in Seq(Qcow) /\ Len(w) = n + 1 /\ Sub(w, q) /\ NoneTwice(w)
         /\ \A j \in 1 .. n : w[j] = q[j]
         /\ w[n + 1] = q[Len(q)]
<1> DEFINE w == Append(SubSeq(q, 1, n), Snapshots!Last(q))
           m == [j \in 1 .. Len(w) |-> IF j <= n THEN j ELSE Len(q)]
<1>1. w \in Seq(Qcow) /\ Len(w) = n + 1 /\ (\A j \in 1 .. n : w[j] = q[j]) /\ w[n + 1] = q[Len(q)]
  BY FrontAndLast
<1> HIDE DEF w
<1>2. /\ m \in [1 .. Len(w) -> 1 .. Len(q)]
      /\ \A j \in 1 .. Len(w) : w[j] = q[m[j]]
      /\ \A j, k \in 1 .. Len(w) : j < k => m[j] < m[k]
  <2>1. Len(q) \in Nat /\ Len(q) \in 1 .. Len(q) /\ n \in Nat /\ n < Len(q)
    OBVIOUS
  <2>2. \A j \in 1 .. Len(w) :
          /\ j \in Nat /\ (j <= n => j \in 1 .. n /\ j \in 1 .. Len(q))
          /\ (~(j <= n) => j = n + 1)
    BY <1>1, <2>1
  <2>3. /\ m \in [1 .. Len(w) -> 1 .. Len(q)]
        /\ \A j \in 1 .. Len(w) : m[j] = IF j <= n THEN j ELSE Len(q)
    BY <2>1, <2>2
  <2> HIDE DEF m
  <2>4. \A j \in 1 .. Len(w) : w[j] = q[m[j]]
    BY <1>1, <2>2, <2>3
  <2>5. ASSUME NEW j \in 1 .. Len(w), NEW k \in 1 .. Len(w), j < k PROVE m[j] < m[k]
    <3>1. j <= n
      BY <2>1, <2>2, <2>5
    <3> QED
      BY <2>1, <2>2, <2>3, <2>5, <3>1
  <2> QED
    BY <2>3, <2>4, <2>5
<1>3. Sub(w, q)
  <2> HIDE DEF m
  <2> QED
    BY <1>2 DEF Sub
<1> QED
  BY <1>1, <1>3, SubOnce DEF w

\* A commit moves what a file holds into another of the same chain.
LEMMA CommitHolds ==
  ASSUME NEW q \in Seq(Qcow), NoneTwice(q), NEW b \in 1 .. Len(q), NEW t \in 1 .. Len(q), b # t,
         NEW d \in Writes, NEW e, e = [d EXCEPT ![q[b]] = @ \union d[q[t]]]
  PROVE  LET w == Snapshots!Without(q[t], q) IN Shown(e, w, Len(w)) = Shown(d, q, Len(q))
<1> DEFINE w == Snapshots!Without(q[t], q)
<1>1. /\ Len(w) = Len(q) - 1
      /\ \A j \in 1 .. Len(w) : w[j] = IF j < t THEN q[j] ELSE q[j + 1]
      /\ \A k \in 1 .. Len(q) : k < t => w[k] = q[k]
      /\ \A k \in 1 .. Len(q) : k > t => w[k - 1] = q[k]
  BY SubWithout
<1>2. Len(q) \in Nat /\ \A k \in 1 .. Len(q) : q[k] \in Qcow /\ d[q[k]] \in SUBSET Nat
  BY DEF Writes
<1>3. \A k \in 1 .. Len(q) : e[q[k]] = IF k = b THEN d[q[b]] \union d[q[t]] ELSE d[q[k]]
  BY <1>2 DEF Writes, NoneTwice
<1> HIDE DEF w
<1>4. ASSUME NEW x, x \in Shown(e, w, Len(w)) PROVE x \in Shown(d, q, Len(q))
  <2>1. PICK j \in 1 .. Len(w) : x \in e[w[j]]
    BY <1>4, ShownIs
  <2>2. PICK k \in 1 .. Len(q) : w[j] = q[k]
    BY <1>1, <1>2
  <2>3. x \in d[q[k]] \/ x \in d[q[t]]
    BY <1>3, <2>1, <2>2
  <2> QED
    BY <2>3, ShownIs
<1>5. ASSUME NEW x, x \in Shown(d, q, Len(q)) PROVE x \in Shown(e, w, Len(w))
  <2>1. PICK k \in 1 .. Len(q) : x \in d[q[k]]
    BY <1>5, ShownIs
  <2>2. PICK l \in 1 .. Len(q) : l # t /\ x \in e[q[l]]
    BY <1>3, <2>1
  <2>3. PICK j \in 1 .. Len(w) : w[j] = q[l]
    BY <1>1, <1>2, <2>2
  <2> QED
    BY <2>2, <2>3, ShownIs
<1> QED
  BY <1>4, <1>5 DEF w

\* A pull moves what the upper files hold into the last.
LEMMA PullHolds ==
  ASSUME NEW q \in Seq(Qcow), NoneTwice(q), Len(q) > 0, NEW n \in 0 .. Len(q) - 1, NEW d \in Writes, NEW e,
         e = [d EXCEPT ![q[Len(q)]] = UNION {d[q[i]] : i \in n + 1 .. Len(q)}]
  PROVE  LET w == Append(SubSeq(q, 1, n), Snapshots!Last(q)) IN Shown(e, w, Len(w)) = Shown(d, q, Len(q))
<1> DEFINE w == Append(SubSeq(q, 1, n), Snapshots!Last(q))
           U == UNION {d[q[i]] : i \in n + 1 .. Len(q)}
<1>1. Len(w) = n + 1 /\ (\A j \in 1 .. n : w[j] = q[j]) /\ w[n + 1] = q[Len(q)]
  BY SubFront
<1>2. Len(q) \in Nat /\ \A k \in 1 .. Len(q) : q[k] \in Qcow
  OBVIOUS
<1>3. \A x : x \in U <=> \E i \in n + 1 .. Len(q) : x \in d[q[i]]
  BY Zenon
<1> HIDE DEF w, U
<1>4. (\A j \in 1 .. n : e[w[j]] = d[q[j]]) /\ e[w[n + 1]] = U
  <2>1. e = [d EXCEPT ![q[Len(q)]] = U]
    BY DEF U
  <2>2. DOMAIN d = Qcow /\ Len(q) \in 1 .. Len(q) /\ DOMAIN q = 1 .. Len(q)
    BY <1>2 DEF Writes
  <2>3. e[q[Len(q)]] = U
    BY <1>2, <2>1, <2>2
  <2>4. ASSUME NEW j \in 1 .. n PROVE e[w[j]] = d[q[j]]
    <3>1. j \in 1 .. Len(q) /\ j # Len(q)
      BY <1>2
    <3>2. q[j] # q[Len(q)]
      BY <2>2, <3>1 DEF NoneTwice
    <3> QED
      BY <1>1, <1>2, <2>1, <2>2, <3>1, <3>2
  <2> QED
    BY <1>1, <2>3, <2>4
<1>5. ASSUME NEW x PROVE x \in Shown(e, w, Len(w)) <=> x \in Shown(d, q, Len(q))
  <2>1. x \in Shown(e, w, Len(w)) <=> \E j \in 1 .. n + 1 : x \in e[w[j]]
    BY <1>1, ShownIs
  <2>2. x \in Shown(d, q, Len(q)) <=> \E i \in 1 .. Len(q) : x \in d[q[i]]
    BY ShownIs
  <2>3. (\E i \in 1 .. Len(q) : x \in d[q[i]])
          <=> (\E i \in 1 .. n : x \in d[q[i]]) \/ (\E i \in n + 1 .. Len(q) : x \in d[q[i]])
    BY <1>2
  <2>4. (\E j \in 1 .. n + 1 : x \in e[w[j]]) <=> (\E j \in 1 .. n : x \in e[w[j]]) \/ x \in e[w[n + 1]]
    OBVIOUS
  <2>5. x \in e[w[n + 1]] <=> x \in U
    BY <1>4
  <2>6. (\E j \in 1 .. n : x \in e[w[j]]) <=> (\E i \in 1 .. n : x \in d[q[i]])
    BY <1>4
  <2> QED
    BY <1>3, <2>1, <2>2, <2>3, <2>4, <2>5, <2>6
<1> QED
  BY <1>5 DEF w

\* What the files below the k-th hold is not touched by a commit between two of
\* them or above them,
LEMMA CommitBelow ==
  ASSUME NEW q \in Seq(Qcow), NoneTwice(q), NEW i \in 2 .. Len(q), NEW k \in 1 .. Len(q), k # i,
         NEW d \in Writes, NEW e, e = [d EXCEPT ![q[i - 1]] = @ \union d[q[i]]]
  PROVE  Shown(e, q, k - 1) = Shown(d, q, k - 1)
<1>1. Len(q) \in Nat /\ \A j \in 1 .. Len(q) : q[j] \in Qcow /\ d[q[j]] \in SUBSET Nat
  BY DEF Writes
<1>2. \A j \in 1 .. Len(q) : e[q[j]] = IF j = i - 1 THEN d[q[i - 1]] \union d[q[i]] ELSE d[q[j]]
  BY <1>1 DEF Writes, NoneTwice
<1>3. CASE k < i
  <2>1. \A j \in 1 .. k - 1 : e[q[j]] = d[q[j]]
    <3> SUFFICES ASSUME NEW j \in 1 .. k - 1 PROVE e[q[j]] = d[q[j]]
      OBVIOUS
    <3>1. j \in 1 .. Len(q) /\ j # i - 1
      BY <1>1, <1>3
    <3> QED
      BY <1>2, <3>1
  <2> QED
    <3>1. /\ \A x : x \in Shown(e, q, k - 1) <=> \E j \in 1 .. k - 1 : x \in e[q[j]]
          /\ \A x : x \in Shown(d, q, k - 1) <=> \E j \in 1 .. k - 1 : x \in d[q[j]]
      BY ShownIs
    <3>2. \A x : x \in Shown(e, q, k - 1) <=> x \in Shown(d, q, k - 1)
      BY <2>1, <3>1
    <3> QED
      BY <3>2
<1>4. CASE k > i
  <2>1. i - 1 \in 1 .. k - 1 /\ i \in 1 .. k - 1 /\ \A j \in 1 .. k - 1 : j \in 1 .. Len(q)
    BY <1>1, <1>4
  <2>2. ASSUME NEW x PROVE x \in Shown(e, q, k - 1) <=> x \in Shown(d, q, k - 1)
    <3>1. /\ x \in Shown(e, q, k - 1) <=> \E j \in 1 .. k - 1 : x \in e[q[j]]
          /\ x \in Shown(d, q, k - 1) <=> \E j \in 1 .. k - 1 : x \in d[q[j]]
      BY ShownIs
    <3> QED
      BY <1>2, <2>1, <3>1
  <2> QED
    BY <2>2
<1> QED
  BY <1>3, <1>4

\* The same of the known files.
LEMMA CommittedBelow ==
  ASSUME known \in Seq(Qcow), NoneTwice(known), data \in Writes,
         NEW i \in 2 .. Len(known), NEW k \in 1 .. Len(known), k # i,
         data' = [data EXCEPT ![known[i - 1]] = @ \union data[known[i]]]
  PROVE  Shown(data', known, k - 1) = Shown(data, known, k - 1)
BY CommitBelow

\* nor when the file that was committed is forgotten and emptied.
LEMMA ForgottenBelow ==
  ASSUME NEW q \in Seq(Qcow), NoneTwice(q), NEW i \in 2 .. Len(q), NEW k \in 1 .. Len(q), k # i,
         NEW d \in Writes, d[q[i]] \subseteq d[q[i - 1]], NEW e, e = [d EXCEPT ![q[i]] = {}]
  PROVE  Shown(e, Snapshots!Without(q[i], q), (IF k < i THEN k ELSE k - 1) - 1) = Shown(d, q, k - 1)
<1> DEFINE w == Snapshots!Without(q[i], q)
           l == IF k < i THEN k ELSE k - 1
<1>1. /\ Len(w) = Len(q) - 1
      /\ \A j \in 1 .. Len(w) : w[j] = IF j < i THEN q[j] ELSE q[j + 1]
      /\ \A m \in 1 .. Len(q) : m < i => w[m] = q[m]
      /\ \A m \in 1 .. Len(q) : m > i => w[m - 1] = q[m]
  BY SubWithout
<1> HIDE DEF w
<1>2. Len(q) \in Nat /\ \A j \in 1 .. Len(q) : q[j] \in Qcow /\ d[q[j]] \in SUBSET Nat
  BY DEF Writes
<1>3. l \in 1 .. Len(w) /\ w[l] = q[k]
  BY <1>1, <1>2
<1>4. \A j \in 1 .. Len(q) : e[q[j]] = IF j = i THEN {} ELSE d[q[j]]
  BY <1>2 DEF Writes, NoneTwice
<1>5. CASE k < i
  <2>1. \A j \in 1 .. k - 1 : e[w[j]] = d[q[j]]
    BY <1>1, <1>2, <1>4, <1>5
  <2>2. Shown(e, w, k - 1) = Shown(d, q, k - 1)
    <3>1. /\ \A x : x \in Shown(e, w, k - 1) <=> \E j \in 1 .. k - 1 : x \in e[w[j]]
          /\ \A x : x \in Shown(d, q, k - 1) <=> \E j \in 1 .. k - 1 : x \in d[q[j]]
      BY ShownIs
    <3>2. \A x : x \in Shown(e, w, k - 1) <=> x \in Shown(d, q, k - 1)
      BY <2>1, <3>1
    <3> QED
      BY <3>2
  <2> QED
    BY <1>3, <1>5, <2>2 DEF w
<1>6. CASE k > i
  <2>1. ASSUME NEW x PROVE x \in Shown(e, w, l - 1) <=> x \in Shown(d, q, k - 1)
    <3>0. l - 1 = k - 2 /\ k \in Nat /\ k <= Len(q)
      BY <1>2, <1>6
    <3>1. /\ x \in Shown(e, w, k - 2) <=> \E j \in 1 .. k - 2 : x \in e[w[j]]
          /\ x \in Shown(d, q, k - 1) <=> \E j \in 1 .. k - 1 : x \in d[q[j]]
      BY ShownIs
    <3>2. ASSUME NEW j \in 1 .. k - 2, x \in e[w[j]] PROVE \E m \in 1 .. k - 1 : x \in d[q[m]]
      <4>1. PICK m \in 1 .. k - 1 : w[j] = q[m]
        <5>1. j \in 1 .. Len(w) /\ j \in 1 .. k - 1 /\ j + 1 \in 1 .. k - 1
          BY <1>1, <1>2, <3>0
        <5> QED
          BY <1>1, <5>1
      <4>2. m \in 1 .. Len(q)
        BY <1>2, <3>0
      <4> QED
        BY <1>4, <3>2, <4>1, <4>2
    <3>3. ASSUME NEW m \in 1 .. k - 1, x \in d[q[m]] PROVE \E j \in 1 .. k - 2 : x \in e[w[j]]
      <4>1. PICK n \in 1 .. k - 1 : n # i /\ x \in d[q[n]]
        BY <1>2, <1>6, <3>3
      <4>2. x \in e[q[n]]
        BY <1>2, <1>4, <4>1
      <4>3. PICK j \in 1 .. k - 2 : w[j] = q[n]
        <5>1. CASE n < i
          BY <1>1, <1>2, <1>6, <3>0, <5>1
        <5>2. CASE n > i
          BY <1>1, <1>2, <1>6, <3>0, <5>2
        <5> QED
          BY <1>2, <4>1, <5>1, <5>2
      <4> QED
        BY <4>2, <4>3
    <3> QED
      BY <3>0, <3>1, <3>2, <3>3
  <2> QED
    BY <1>3, <2>1 DEF w
<1> QED
  BY <1>2, <1>5, <1>6

-----------------------------------------------------------------------------
(***************************************************************************)
(* Snapshots of a volume.  Cinder's chain has each file once, every        *)
(* snapshot has an overlay of its own in it, and what Cinder asks for is   *)
(* about neighbours.  While no failure has gone unseen, the guest's chain  *)
(* is Cinder's but for what has just been put on top or merged: it has     *)
(* some of its files, in its order, and perhaps one more at the end, and   *)
(* what the others hold is in the guest's.                                 *)
(***************************************************************************)
Asked(k) == phase # "idle" /\ snapshots_request.kind = k
Subject == snapshots_request.snapshot
SourceFile == snapshots_request.source
BaseFile == snapshots_request.base

SnapshotsTyped ==
  /\ chain \in Seq(Qcow) /\ Len(chain) > 0 /\ known \in Seq(Qcow) /\ Len(known) > 0
  /\ data \in Writes /\ snapshots_content \in [Snapshot -> SUBSET Nat]
  /\ DOMAIN overlay \subseteq Snapshot /\ doomed \subseteq DOMAIN overlay
  /\ phase \in {"idle", "asked", "waiting", "success", "error"}
  /\ job \in BOOLEAN /\ snapshots_silent \in BOOLEAN /\ writes \in Nat

KnownRight ==
  /\ NoneTwice(known)
  /\ \A s \in DOMAIN overlay : \E i \in 2 .. Len(known) : overlay[s] = known[i]
  /\ \A s, t \in DOMAIN overlay : overlay[s] = overlay[t] => s = t

PullAsked ==
  /\ Subject \in doomed /\ Len(known) >= 2 /\ overlay[Subject] = known[Len(known)]
  /\ SourceFile = known[Len(known) - 1]
  /\ BaseFile = IF Len(known) > 2 THEN known[Len(known) - 2] ELSE "none"
CommitAsked ==
  /\ Subject \in doomed
  /\ \E i \in 2 .. Len(known) - 1 :
       overlay[Subject] = known[i] /\ SourceFile = known[i] /\ BaseFile = known[i - 1]
RequestRight ==
  /\ phase # "idle" => Asked("create") \/ Asked("pull") \/ Asked("commit")
  /\ Asked("create") => Subject \in Snapshot \ DOMAIN overlay /\ ~Has(known, Subject)
  /\ Asked("pull") => PullAsked
  /\ Asked("commit") => CommitAsked
  /\ job => phase = "waiting"
  /\ phase = "waiting" => ~Asked("create")
  /\ snapshots_silent => ~job /\ (phase = "asked" => Asked("create"))

ChainRight ==
  /\ NoneTwice(chain)
  /\ \A i \in 1 .. Len(chain) - 1 : Has(known, chain[i])
  /\ chain[Len(chain)] = known[Len(known)] \/ ~Has(known, chain[Len(chain)])
  /\ Follows(chain, known)

DataRight ==
  /\ Shown(data, chain, Len(chain)) = 0 .. writes - 1
  /\ \A f \in Qcow : Has(known, f) /\ ~Has(chain, f) => data[f] \subseteq 0 .. writes - 1
  /\ \A f \in Qcow : ~Has(known, f) /\ ~Has(chain, f) => data[f] = {}
  /\ \A s \in DOMAIN overlay \ doomed : \A i \in 2 .. Len(known) :
       overlay[s] = known[i] => Shown(data, known, i - 1) = snapshots_content[s]

\* Merged: what is to be deleted is not in use, and its data are below.
FileMerged == ~Has(chain, SourceFile) /\ (Asked("commit") => data[SourceFile] \subseteq data[BaseFile])
ProgressRight ==
  /\ phase = "asked" /\ Asked("create") => ~Has(chain, Subject) /\ chain[Len(chain)] = known[Len(known)]
  /\ phase = "success" /\ Asked("create") =>
       chain[Len(chain)] = Subject /\ snapshots_content[Subject] = Shown(data, known, Len(known))
  /\ job => /\ BaseFile = "none" \/ Has(chain, BaseFile)
            /\ Asked("commit") => Has(chain, SourceFile)
  /\ (phase = "waiting" /\ ~job) \/ phase = "success" => Asked("create") \/ FileMerged

SnapshotsIInv ==
  /\ SnapshotsTyped /\ KnownRight /\ RequestRight
  /\ ~snapshots_silent => ChainRight /\ DataRight /\ ProgressRight

\* The guest writes to Cinder's last file, or to one that it does not know.
LEMMA LastApart ==
  ASSUME SnapshotsTyped, KnownRight, ChainRight
  PROVE  \A k \in 1 .. Len(known) - 1 : known[k] # chain[Len(chain)]
<1> SUFFICES ASSUME NEW k \in 1 .. Len(known) - 1 PROVE known[k] # chain[Len(chain)]
  OBVIOUS
<1>1. Len(known) \in Nat /\ DOMAIN known = 1 .. Len(known)
  BY DEF SnapshotsTyped
<1>2. k \in 1 .. Len(known) /\ Len(known) \in 1 .. Len(known) /\ k # Len(known)
  <2>1. \A n \in Nat : k \in 1 .. n - 1 => k \in 1 .. n /\ n \in 1 .. n /\ k # n
    OBVIOUS
  <2> QED
    BY <1>1, <2>1
<1>3. known[k] # known[Len(known)]
  BY <1>1, <1>2 DEF KnownRight, NoneTwice
<1>4. Has(known, known[k])
  BY <1>2 DEF Has
<1> QED
  BY <1>3, <1>4 DEF ChainRight

\* A file of the chain holds no more than the chain.
LEMMA PartOfChain ==
  ASSUME NEW d, NEW q, NEW f, Has(q, f)
  PROVE  d[f] \subseteq Shown(d, q, Len(q))
BY ShownIs DEF Has

\* The commit of a file into the one below it keeps the invariant.
LEMMA CommitKeeps ==
  ASSUME SnapshotsTyped, KnownRight, ChainRight, DataRight, CommitAsked,
         Has(chain, BaseFile), Has(chain, SourceFile), Snapshots!Commit(BaseFile, SourceFile),
         UNCHANGED <<known, overlay, doomed, snapshots_content, snapshots_request, writes>>
  PROVE  /\ chain' \in Seq(Qcow) /\ Len(chain') > 0 /\ data' \in Writes /\ ChainRight' /\ DataRight'
         /\ ~Has(chain', SourceFile) /\ data'[SourceFile] \subseteq data'[BaseFile]
<1>1. PICK i \in 2 .. Len(known) - 1 :
        overlay[Subject] = known[i] /\ SourceFile = known[i] /\ BaseFile = known[i - 1]
  BY DEF CommitAsked
<1>2. PICK b \in 1 .. Len(chain) : chain[b] = BaseFile
  BY DEF Has
<1>3. PICK t \in 1 .. Len(chain) : chain[t] = SourceFile
  BY DEF Has
<1>4. /\ Len(known) \in Nat /\ DOMAIN known = 1 .. Len(known) /\ \A j \in 1 .. Len(known) : known[j] \in Qcow
      /\ Len(chain) \in Nat /\ DOMAIN chain = 1 .. Len(chain) /\ \A j \in 1 .. Len(chain) : chain[j] \in Qcow
      /\ chain \in Seq(Qcow) /\ known \in Seq(Qcow) /\ data \in Writes /\ Len(chain) > 0
  BY DEF SnapshotsTyped
<1>5. i \in 2 .. Len(known) /\ i - 1 \in 1 .. Len(known) /\ i \in 1 .. Len(known) /\ i \in 1 .. Len(known) - 1
  BY <1>4
<1>6. SourceFile # BaseFile /\ b # t
  <2>1. known[i] # known[i - 1]
    BY <1>4, <1>5 DEF KnownRight, NoneTwice
  <2> QED
    BY <1>1, <1>2, <1>3, <2>1
<1>7. SourceFile # chain[Len(chain)] /\ t # Len(chain)
  BY <1>1, <1>3, <1>5, LastApart
<1>7a. Len(chain) \in 1 .. Len(chain) /\ Len(chain) > t /\ Len(chain) - 1 > 0
  <2>1. Len(chain) \in Nat /\ t \in 1 .. Len(chain)
    BY <1>4
  <2>2. \A n \in Nat : t \in 1 .. n /\ t # n => n \in 1 .. n /\ n > t /\ n - 1 > 0
    OBVIOUS
  <2> QED
    BY <1>7, <2>1, <2>2
<1>8. NoneTwice(chain) /\ NoneTwice(known)
  BY DEF ChainRight, KnownRight
<1>9. /\ chain' = Snapshots!Without(chain[t], chain)
      /\ data' = [data EXCEPT ![chain[b]] = @ \union data[chain[t]]]
  BY <1>2, <1>3 DEF Snapshots!Commit
<1>10. /\ chain' \in Seq(Qcow) /\ Len(chain') = Len(chain) - 1 /\ Sub(chain', chain) /\ NoneTwice(chain')
       /\ \A j \in 1 .. Len(chain') : chain'[j] = IF j < t THEN chain[j] ELSE chain[j + 1]
       /\ \A k \in 1 .. Len(chain) : k > t => chain'[k - 1] = chain[k]
       /\ \A f : Has(chain', f) <=> Has(chain, f) /\ f # chain[t]
  <2> DEFINE w == Snapshots!Without(chain[t], chain)
  <2>1. /\ w \in Seq(Qcow) /\ Len(w) = Len(chain) - 1 /\ Sub(w, chain) /\ NoneTwice(w)
        /\ \A j \in 1 .. Len(w) : w[j] = IF j < t THEN chain[j] ELSE chain[j + 1]
        /\ \A k \in 1 .. Len(chain) : k > t => w[k - 1] = chain[k]
        /\ \A f : Has(w, f) <=> Has(chain, f) /\ f # chain[t]
    <3>1. chain \in Seq(Qcow) /\ NoneTwice(chain) /\ t \in 1 .. Len(chain)
      BY <1>3, <1>4, <1>8
    <3> QED
      BY <3>1, ChainWithout
  <2> HIDE DEF w
  <2>2. chain' = w
    BY <1>9 DEF w
  <2> QED
    BY <2>1, <2>2
<1>11. Shown(data', chain', Len(chain')) = Shown(data, chain, Len(chain))
  BY <1>4, <1>6, <1>8, <1>9, CommitHolds
<1>12. /\ data' \in Writes
       /\ \A f \in Qcow : f # BaseFile => data'[f] = data[f]
       /\ data'[BaseFile] = data[BaseFile] \union data[SourceFile]
  BY <1>2, <1>3, <1>4, <1>9 DEF Writes
<1>13. ~Has(chain', SourceFile) /\ data'[SourceFile] \subseteq data'[BaseFile]
  BY <1>3, <1>4, <1>6, <1>10, <1>12
<1>14. ChainRight'
  <2>1. \A j \in 1 .. Len(chain') - 1 : Has(known, chain'[j])
    <3> SUFFICES ASSUME NEW j \in 1 .. Len(chain') - 1 PROVE Has(known, chain'[j])
      OBVIOUS
    <3>1. j \in 1 .. Len(chain') /\ j \in 1 .. Len(chain) - 1 /\ j + 1 \in 1 .. Len(chain) - 1
      BY <1>4, <1>10
    <3> QED
      BY <1>10, <3>1 DEF ChainRight
  <2>2. chain'[Len(chain')] = chain[Len(chain)]
    BY <1>10, <1>7a
  <2>3. Follows(chain', known)
    BY <1>10, FollowsLeft DEF ChainRight
  <2> QED
    BY <1>10, <2>1, <2>2, <2>3 DEF ChainRight
<1>15. DataRight'
  <2>1. \A f \in Qcow : Has(known, f) /\ ~Has(chain', f) => data'[f] \subseteq 0 .. writes - 1
    <3> SUFFICES ASSUME NEW f \in Qcow, Has(known, f), ~Has(chain', f) PROVE data'[f] \subseteq 0 .. writes - 1
      OBVIOUS
    <3>1. CASE f = SourceFile
      <4>1. data[f] \subseteq Shown(data, chain, Len(chain))
        BY <3>1, PartOfChain
      <4> QED
        BY <1>6, <1>12, <3>1, <4>1 DEF DataRight
    <3>2. CASE f # SourceFile
      BY <1>3, <1>10, <1>12, <3>2 DEF DataRight
    <3> QED
      BY <3>1, <3>2
  <2>2. \A f \in Qcow : ~Has(known, f) /\ ~Has(chain', f) => data'[f] = {}
    <3> SUFFICES ASSUME NEW f \in Qcow, ~Has(known, f), ~Has(chain', f) PROVE data'[f] = {}
      OBVIOUS
    <3>1. f # SourceFile
      BY <1>1, <1>5 DEF Has
    <3> QED
      BY <1>3, <1>10, <1>12, <3>1 DEF DataRight
  <2>3. ASSUME NEW s \in DOMAIN overlay \ doomed, NEW k \in 2 .. Len(known), overlay[s] = known[k]
        PROVE  Shown(data', known, k - 1) = snapshots_content[s]
    <3>1. k # i
      BY <1>1, <2>3 DEF KnownRight, CommitAsked, SnapshotsTyped
    <3>2. k \in 1 .. Len(known) /\ data' = [data EXCEPT ![known[i - 1]] = @ \union data[known[i]]]
      BY <1>1, <1>2, <1>3, <1>4, <1>9
    <3>3. Shown(data', known, k - 1) = Shown(data, known, k - 1)
      <4>1. known \in Seq(Qcow) /\ data \in Writes
        BY <1>4
      <4> QED
        BY <1>5, <1>8, <3>1, <3>2, <4>1, CommittedBelow
    <3> QED
      BY <2>3, <3>3 DEF DataRight
  <2> QED
    BY <1>11, <2>1, <2>2, <2>3 DEF DataRight
<1>16. Len(chain') > 0
  BY <1>10, <1>7a
<1> QED
  BY <1>10, <1>12, <1>13, <1>14, <1>15, <1>16

\* Places before the last one.
LEMMA BeforeLast ==
  ASSUME NEW n \in Nat, NEW j \in 1 .. n, j # n
  PROVE  j \in 1 .. n - 1 /\ j \in 0 .. n - 1 /\ j - 1 \in Nat /\ j - 1 <= n /\ j < n
         /\ \A i \in 1 .. j - 1 : i \in 1 .. n - 1
OBVIOUS

\* The pull of the files below into the active one keeps the invariant.
LEMMA PullKeeps ==
  ASSUME SnapshotsTyped, KnownRight, ChainRight, DataRight, PullAsked,
         BaseFile = "none" \/ Has(chain, BaseFile), Snapshots!Pull(BaseFile),
         UNCHANGED <<known, overlay, doomed, snapshots_content, snapshots_request, writes>>
  PROVE  /\ chain' \in Seq(Qcow) /\ Len(chain') > 0 /\ data' \in Writes /\ ChainRight' /\ DataRight'
         /\ ~Has(chain', SourceFile)
<1>1. /\ chain \in Seq(Qcow) /\ Len(chain) > 0 /\ NoneTwice(chain) /\ data \in Writes
      /\ known \in Seq(Qcow) /\ NoneTwice(known)
  BY DEF SnapshotsTyped, ChainRight, KnownRight
<1>2. /\ Len(known) \in Nat /\ Len(known) >= 2 /\ DOMAIN known = 1 .. Len(known)
      /\ Len(chain) \in Nat /\ DOMAIN chain = 1 .. Len(chain)
      /\ Len(chain) \in 1 .. Len(chain) /\ Len(known) - 1 \in 1 .. Len(known) - 1
  BY <1>1 DEF PullAsked
<1>3. /\ \A j \in 1 .. Len(chain) : chain[j] \in Qcow /\ data[chain[j]] \in SUBSET Nat
      /\ \A j \in 1 .. Len(known) : known[j] \in Qcow
      /\ chain[Len(chain)] \in Qcow
  BY <1>1, <1>2 DEF Writes
<1>4. "none" \notin Qcow
  BY SnapshotsAssumption DEF Snapshots!VolumeSnapshotAssumption, Qcow
\* Where the files that are pulled begin.
<1>5. PICK n \in 0 .. Len(chain) - 1 :
        /\ n = IF BaseFile = "none" THEN 0 ELSE Snapshots!Position(BaseFile, chain)
        /\ n > 0 => Len(known) > 2 /\ chain[n] = known[Len(known) - 2]
  <2>1. CASE BaseFile = "none"
    <3>1. 0 \in 0 .. Len(chain) - 1
      BY <1>1, <1>2
    <3> QED
      BY <2>1, <3>1
  <2>2. CASE BaseFile # "none"
    <3>1. Len(known) > 2 /\ BaseFile = known[Len(known) - 2]
      BY <2>2 DEF PullAsked
    <3>2. PICK p \in 1 .. Len(chain) : chain[p] = BaseFile
      BY <2>2 DEF Has
    <3>3. Len(known) - 2 \in 1 .. Len(known) - 1
      BY <1>2, <3>1
    <3>4. p # Len(chain)
      BY <3>1, <3>2, <3>3, LastApart
    <3>5. Snapshots!Position(BaseFile, chain) = p
      BY <1>1, <1>2, <3>2, PositionIs
    <3>6. p \in 0 .. Len(chain) - 1
      BY <1>2, <3>4, BeforeLast
    <3> QED
      BY <2>2, <3>1, <3>2, <3>5, <3>6
  <2> QED
    BY <2>1, <2>2
<1> DEFINE U == UNION {data[chain[i]] : i \in n + 1 .. Len(chain)}
           w == Append(SubSeq(chain, 1, n), Snapshots!Last(chain))
<1>6. data' = [data EXCEPT ![chain[Len(chain)]] = U] /\ chain' = w
  BY <1>5 DEF Snapshots!Pull, Snapshots!Last
<1>7. U \in SUBSET Nat
  BY <1>2, <1>3
<1>8. Shown(data', chain', Len(chain')) = Shown(data, chain, Len(chain))
  BY <1>1, <1>6, PullHolds
<1>9. /\ w \in Seq(Qcow) /\ Len(w) = n + 1 /\ Sub(w, chain) /\ NoneTwice(w)
      /\ \A j \in 1 .. n : w[j] = chain[j]
      /\ w[n + 1] = chain[Len(chain)]
  BY <1>1, SubFront
<1> HIDE DEF U, w
<1>10. /\ chain' \in Seq(Qcow) /\ Len(chain') = n + 1 /\ Sub(chain', chain) /\ NoneTwice(chain')
       /\ \A j \in 1 .. n : chain'[j] = chain[j]
       /\ chain'[n + 1] = chain[Len(chain)]
  BY <1>6, <1>9
<1>11. /\ data' \in Writes
       /\ \A f \in Qcow : f # chain[Len(chain)] => data'[f] = data[f]
  BY <1>1, <1>3, <1>6, <1>7 DEF Writes
<1>12. n \in Nat /\ n <= Len(chain) - 1
  BY <1>2
<1>13. Has(chain', chain[Len(chain)])
  BY <1>10, <1>12 DEF Has
<1>14. ~Has(chain', SourceFile)
  <2> SUFFICES ASSUME NEW j \in 1 .. n + 1, chain'[j] = known[Len(known) - 1] PROVE FALSE
    BY <1>10 DEF Has, PullAsked
  <2>1. known[Len(known) - 1] # chain[Len(chain)]
    BY <1>2, LastApart
  <2>2. j \in 1 .. n /\ n > 0 /\ n \in 1 .. Len(chain) /\ j \in 1 .. Len(chain)
    BY <1>2, <1>10, <1>12, <2>1
  <2>3. chain[j] = known[Len(known) - 1] /\ chain[n] = known[Len(known) - 2] /\ Len(known) > 2
    BY <1>5, <1>10, <2>2
  <2>4. /\ Len(known) - 1 \in 1 .. Len(known) /\ Len(known) - 2 \in 1 .. Len(known)
        /\ ~(Len(known) - 1 < Len(known) - 2) /\ Len(known) - 1 # Len(known) - 2
    <3>1. \A m \in Nat : m > 2 => /\ m - 1 \in 1 .. m /\ m - 2 \in 1 .. m
                                   /\ ~(m - 1 < m - 2) /\ m - 1 # m - 2
      OBVIOUS
    <3> QED
      BY <1>2, <2>3, <3>1
  <2>5. known[Len(known) - 1] # known[Len(known) - 2]
    BY <1>1, <1>2, <2>4 DEF NoneTwice
  <2>6. j < n
    BY <1>12, <2>2, <2>3, <2>5
  <2> QED
    BY <2>2, <2>3, <2>4, <2>6 DEF ChainRight, Follows
<1>15. ChainRight'
  <2>1. \A j \in 1 .. Len(chain') - 1 : Has(known, chain'[j])
    <3> SUFFICES ASSUME NEW j \in 1 .. n PROVE Has(known, chain'[j])
      BY <1>10, <1>12
    <3>1. j \in 1 .. Len(chain) - 1
      BY <1>2, <1>12
    <3> QED
      BY <1>10, <3>1 DEF ChainRight
  <2>2. chain'[Len(chain')] = chain[Len(chain)]
    BY <1>10
  <2>3. Follows(chain', known)
    BY <1>10, FollowsLeft DEF ChainRight
  <2> QED
    BY <1>10, <2>1, <2>2, <2>3 DEF ChainRight
<1>16. DataRight'
  <2>1. \A f \in Qcow : Has(known, f) /\ ~Has(chain', f) => data'[f] \subseteq 0 .. writes - 1
    <3> SUFFICES ASSUME NEW f \in Qcow, Has(known, f), ~Has(chain', f) PROVE data'[f] \subseteq 0 .. writes - 1
      OBVIOUS
    <3>1. data'[f] = data[f]
      BY <1>11, <1>13
    <3>2. CASE Has(chain, f)
      <4>1. data[f] \subseteq Shown(data, chain, Len(chain))
        BY <3>2, PartOfChain
      <4> QED
        BY <3>1, <4>1 DEF DataRight
    <3>3. CASE ~Has(chain, f)
      BY <3>1, <3>3 DEF DataRight
    <3> QED
      BY <3>2, <3>3
  <2>2. \A f \in Qcow : ~Has(known, f) /\ ~Has(chain', f) => data'[f] = {}
    <3> SUFFICES ASSUME NEW f \in Qcow, ~Has(known, f), ~Has(chain', f) PROVE data'[f] = {}
      OBVIOUS
    <3>1. data'[f] = data[f] /\ f # chain[Len(chain)]
      BY <1>11, <1>13
    <3>2. ~Has(chain, f)
      <4>1. ASSUME NEW j \in 1 .. Len(chain), chain[j] = f PROVE FALSE
        <5>1. j # Len(chain)
          BY <3>1, <4>1
        <5>2. j \in 1 .. Len(chain) - 1
          BY <1>2, <5>1, BeforeLast
        <5> QED
          BY <4>1, <5>2 DEF ChainRight
      <4> QED
        BY <4>1 DEF Has
    <3> QED
      BY <3>1, <3>2 DEF DataRight
  <2>3. ASSUME NEW s \in DOMAIN overlay \ doomed, NEW k \in 2 .. Len(known), overlay[s] = known[k]
        PROVE  Shown(data', known, k - 1) = snapshots_content[s]
    <3>1. k # Len(known)
      BY <2>3 DEF KnownRight, PullAsked, SnapshotsTyped
    <3>2. k - 1 \in Nat /\ k - 1 <= Len(known) /\ \A j \in 1 .. k - 1 : j \in 1 .. Len(known) - 1
      <4>1. k \in 1 .. Len(known)
        BY <1>2
      <4> QED
        BY <1>2, <3>1, <4>1, BeforeLast
    <3>3. \A j \in 1 .. k - 1 : known[j] # chain[Len(chain)]
      BY <3>2, LastApart
    <3>4. Shown(data', known, k - 1) = Shown(data, known, k - 1)
      <4>1. \A j \in 1 .. k - 1 : data'[known[j]] = data[known[j]]
        BY <1>3, <1>11, <3>2, <3>3
      <4>2. /\ \A x : x \in Shown(data', known, k - 1) <=> \E j \in 1 .. k - 1 : x \in data'[known[j]]
            /\ \A x : x \in Shown(data, known, k - 1) <=> \E j \in 1 .. k - 1 : x \in data[known[j]]
        BY ShownIs
      <4>3. \A x : x \in Shown(data', known, k - 1) <=> x \in Shown(data, known, k - 1)
        BY <4>1, <4>2
      <4> QED
        BY <4>3
    <3> QED
      BY <2>3, <3>4 DEF DataRight
  <2> QED
    BY <1>8, <2>1, <2>2, <2>3 DEF DataRight
<1> QED
  BY <1>10, <1>11, <1>12, <1>14, <1>15, <1>16

\* The chain starts inside the invariant.
LEMMA SnapshotsStart == Snapshots!Init => SnapshotsIInv
<1> SUFFICES ASSUME Snapshots!Init PROVE SnapshotsIInv
  OBVIOUS
<1> USE DEF Snapshots!Init
<1>1. /\ chain = <<"base">> /\ known = <<"base">> /\ phase = "idle" /\ job = FALSE
      /\ snapshots_silent = FALSE /\ writes = 0 /\ doomed = {}
  OBVIOUS
<1>2. DOMAIN overlay = {}
  <2>1. overlay = <<>>
    OBVIOUS
  <2> QED
    BY <2>1
<1>3. "base" \in Qcow
  BY DEF Qcow
<1>4. /\ chain \in Seq(Qcow) /\ Len(chain) = 1 /\ DOMAIN chain = {1} /\ 1 .. Len(chain) = {1}
      /\ chain[1] = "base"
  BY <1>1, <1>3
<1>5. data \in Writes /\ \A f \in Qcow : data[f] = {}
  BY DEF Writes, Qcow
<1>6. snapshots_content \in [Snapshot -> SUBSET Nat]
  OBVIOUS
<1>7. SnapshotsTyped
  <2>1. /\ chain \in Seq(Qcow) /\ Len(chain) > 0 /\ known \in Seq(Qcow) /\ Len(known) > 0
    BY <1>1, <1>4
  <2>2. DOMAIN overlay \subseteq Snapshot /\ doomed \subseteq DOMAIN overlay
    BY <1>1, <1>2
  <2>3. phase \in {"idle", "asked", "waiting", "success", "error"} /\ writes \in Nat
    BY <1>1
  <2>4. job \in BOOLEAN /\ snapshots_silent \in BOOLEAN
    BY <1>1
  <2> HIDE DEF Snapshots!Init
  <2> QED
    BY <1>5, <1>6, <2>1, <2>2, <2>3, <2>4 DEF SnapshotsTyped
<1>8. NoneTwice(chain) /\ Has(chain, "base") /\ Follows(chain, known)
  BY <1>1, <1>4 DEF NoneTwice, Has, Follows
<1>9. KnownRight
  BY <1>1, <1>2, <1>8 DEF KnownRight
<1>10. RequestRight
  BY <1>1 DEF RequestRight, Asked
<1>11. ChainRight
  BY <1>1, <1>4, <1>8 DEF ChainRight
<1>12. DataRight
  <2>1. ASSUME NEW x PROVE x \notin Shown(data, chain, Len(chain))
    BY <1>3, <1>4, <1>5, ShownIs
  <2>2. 0 .. writes - 1 = {}
    BY <1>1
  <2> QED
    BY <1>2, <1>5, <2>1, <2>2 DEF DataRight
<1>13. ProgressRight
  BY <1>1 DEF ProgressRight
<1> QED
  BY <1>7, <1>9, <1>10, <1>11, <1>12, <1>13 DEF SnapshotsIInv

\* What a step keeps that changes no file and no chain.
LEMMA FilesStay ==
  ASSUME SnapshotsIInv, UNCHANGED <<chain, known, data, overlay, doomed, snapshots_content, writes>>,
         phase' \in {"idle", "asked", "waiting", "success", "error"}, job' \in BOOLEAN,
         snapshots_silent' \in BOOLEAN
  PROVE  /\ SnapshotsTyped' /\ KnownRight'
         /\ ~snapshots_silent => ChainRight' /\ DataRight'
<1>1. SnapshotsTyped'
  BY DEF SnapshotsIInv, SnapshotsTyped
<1>2. KnownRight'
  BY DEF SnapshotsIInv, KnownRight
<1>3. ASSUME ~snapshots_silent PROVE ChainRight'
  BY <1>3 DEF SnapshotsIInv, ChainRight
<1>4. ASSUME ~snapshots_silent PROVE DataRight'
  BY <1>4 DEF SnapshotsIInv, DataRight
<1> QED
  BY <1>1, <1>2, <1>3, <1>4

\* A step that changes nothing of the chain keeps the invariant.
LEMMA SnapshotsIdle ==
  ASSUME SnapshotsIInv,
         UNCHANGED <<chain, known, data, overlay, doomed, snapshots_content, snapshots_request, phase, job,
                     snapshots_silent, writes>>
  PROVE  SnapshotsIInv'
<1>1. SnapshotsTyped' /\ KnownRight' /\ (~snapshots_silent => ChainRight' /\ DataRight')
  <2>1. phase' \in {"idle", "asked", "waiting", "success", "error"} /\ job' \in BOOLEAN /\ snapshots_silent' \in BOOLEAN
    BY DEF SnapshotsIInv, SnapshotsTyped
  <2> QED
    BY <2>1, FilesStay
<1>2. RequestRight'
  BY DEF SnapshotsIInv, RequestRight, Asked, PullAsked, CommitAsked, Subject, SourceFile, BaseFile
<1>3. ASSUME ~snapshots_silent PROVE ProgressRight'
  BY <1>3 DEF SnapshotsIInv, ProgressRight, Asked, FileMerged, Subject, SourceFile, BaseFile
<1> QED
  BY <1>1, <1>2, <1>3 DEF SnapshotsIInv

\* Asking for a snapshot keeps the invariant,
LEMMA AskCreateKeeps ==
  ASSUME SnapshotsIInv, NEW s \in Snapshot, Snapshots!AskCreate(s)
  PROVE  SnapshotsIInv'
<1>1. /\ UNCHANGED <<chain, known, data, overlay, doomed, snapshots_content, job, snapshots_silent, writes>>
      /\ phase = "idle" /\ phase' = "asked"
      /\ snapshots_request' = [kind |-> "create", snapshot |-> s]
      /\ s \notin DOMAIN overlay /\ s \notin Snapshots!ToSet(chain) /\ s \notin Snapshots!ToSet(known)
      /\ known[Len(known)] = chain[Len(chain)]
  BY DEF Snapshots!AskCreate, Snapshots!Existing, Snapshots!cinder, Snapshots!Last
<1>2. ~Has(chain, s) /\ ~Has(known, s)
  BY <1>1, HasIs DEF SnapshotsIInv, SnapshotsTyped
<1>3. ~job /\ job \in BOOLEAN /\ snapshots_silent \in BOOLEAN
  BY <1>1 DEF SnapshotsIInv, RequestRight, SnapshotsTyped
<1>4. SnapshotsTyped' /\ KnownRight' /\ (~snapshots_silent => ChainRight' /\ DataRight')
  BY <1>1, <1>3, FilesStay
<1>5. Subject' = s /\ Asked("create")' /\ ~Asked("pull")' /\ ~Asked("commit")'
  BY <1>1 DEF Asked, Subject
<1>6. RequestRight'
  BY <1>1, <1>2, <1>3, <1>5 DEF RequestRight
<1>7. ProgressRight'
  BY <1>1, <1>2, <1>3, <1>5 DEF ProgressRight
<1> QED
  BY <1>1, <1>4, <1>6, <1>7 DEF SnapshotsIInv

\* so does asking to delete one,
LEMMA AskDeleteKeeps ==
  ASSUME SnapshotsIInv, NEW s \in Snapshot, Snapshots!AskDelete(s)
  PROVE  SnapshotsIInv'
<1>1. /\ UNCHANGED <<chain, known, data, overlay, snapshots_content, job, snapshots_silent, writes>>
      /\ phase = "idle" /\ phase' = "asked" /\ s \in DOMAIN overlay /\ ~snapshots_silent
      /\ doomed' = doomed \union {s}
  BY DEF Snapshots!AskDelete, Snapshots!Existing
<1>2. SnapshotsTyped /\ KnownRight /\ RequestRight
  BY DEF SnapshotsIInv
<1>3. PICK i \in 2 .. Len(known) : overlay[s] = known[i]
  BY <1>1, <1>2 DEF KnownRight
<1>4. /\ Len(known) \in Nat /\ DOMAIN known = 1 .. Len(known) /\ i \in 1 .. Len(known)
      /\ Len(known) >= 2
  BY <1>2, <1>3 DEF SnapshotsTyped
<1>5. Snapshots!Position(overlay[s], known) = i
  BY <1>2, <1>3, <1>4, PositionIs DEF KnownRight
<1>6. snapshots_request' =
        [kind |-> IF i = Len(known) THEN "pull" ELSE "commit", snapshot |-> s,
         source |-> IF i = Len(known) THEN known[i - 1] ELSE known[i],
         base |-> IF i # Len(known) THEN known[i - 1] ELSE IF i > 2 THEN known[i - 2] ELSE "none"]
  BY <1>5 DEF Snapshots!AskDelete
<1>7. /\ Subject' = s
      /\ SourceFile' = IF i = Len(known) THEN known[i - 1] ELSE known[i]
      /\ BaseFile' = IF i # Len(known) THEN known[i - 1] ELSE IF i > 2 THEN known[i - 2] ELSE "none"
      /\ ~Asked("create")' /\ (Asked("pull")' <=> i = Len(known)) /\ (Asked("commit")' <=> i # Len(known))
  BY <1>1, <1>6 DEF Subject, SourceFile, BaseFile, Asked
<1>8. ~job
  BY <1>1, <1>2 DEF RequestRight
<1>9. RequestRight'
  <2>1. Asked("pull")' => PullAsked'
    BY <1>1, <1>3, <1>4, <1>7 DEF PullAsked
  <2>2. Asked("commit")' => CommitAsked'
    <3>1. i # Len(known) => i \in 2 .. Len(known) - 1
      <4>1. \A n \in Nat : i \in 2 .. n /\ i # n => i \in 2 .. n - 1
        OBVIOUS
      <4> QED
        BY <1>3, <1>4, <4>1
    <3> QED
      BY <1>1, <1>3, <1>7, <3>1 DEF CommitAsked
  <2> QED
    BY <1>1, <1>7, <1>8, <2>1, <2>2 DEF RequestRight
<1>10. SnapshotsTyped' /\ KnownRight'
  BY <1>1, <1>2 DEF SnapshotsTyped, KnownRight
<1>11. ASSUME ~snapshots_silent PROVE ChainRight' /\ DataRight' /\ ProgressRight'
  <2>1. ChainRight'
    BY <1>1, <1>11 DEF SnapshotsIInv, ChainRight
  <2>2. DataRight'
    BY <1>1, <1>11 DEF SnapshotsIInv, DataRight
  <2>3. ProgressRight'
    BY <1>1, <1>7, <1>8 DEF ProgressRight
  <2> QED
    BY <2>1, <2>2, <2>3
<1> QED
  BY <1>1, <1>9, <1>10, <1>11 DEF SnapshotsIInv

\* and so does a write of the guest.
LEMMA GuestWritesKeeps ==
  ASSUME SnapshotsIInv, Snapshots!GuestWrites
  PROVE  SnapshotsIInv'
<1>1. /\ UNCHANGED <<chain, known, overlay, doomed, snapshots_content, snapshots_request, phase, job,
                     snapshots_silent>>
      /\ writes' = writes + 1
      /\ data' = [data EXCEPT ![chain[Len(chain)]] = @ \union {writes}]
  BY DEF Snapshots!GuestWrites, Snapshots!cinder, Snapshots!Last
<1>2. SnapshotsTyped /\ KnownRight /\ RequestRight
  BY DEF SnapshotsIInv
<1>3. /\ Len(known) \in Nat /\ Len(chain) \in Nat /\ Len(chain) \in 1 .. Len(chain) /\ writes \in Nat
      /\ \A j \in 1 .. Len(chain) : chain[j] \in Qcow
      /\ \A j \in 1 .. Len(known) : known[j] \in Qcow
      /\ data \in [Qcow -> SUBSET Nat]
  BY <1>2 DEF SnapshotsTyped, Writes
<1> DEFINE last == chain[Len(chain)]
<1>4. last \in Qcow
  BY <1>3
<1> HIDE DEF last
<1>5. /\ data' \in [Qcow -> SUBSET Nat] /\ data'[last] = data[last] \union {writes}
      /\ \A f \in Qcow : f # last => data'[f] = data[f]
      /\ \A f \in Qcow : data[f] \subseteq data'[f]
  BY <1>1, <1>3, <1>4 DEF last
<1>6. SnapshotsTyped'
  BY <1>1, <1>2, <1>3, <1>5 DEF SnapshotsTyped, Writes
<1>7. KnownRight'
  BY <1>1, <1>2 DEF KnownRight
<1>8. RequestRight'
  BY <1>1, <1>2 DEF RequestRight, Asked, PullAsked, CommitAsked, Subject, SourceFile, BaseFile
<1>9. ASSUME ~snapshots_silent PROVE ChainRight' /\ DataRight' /\ ProgressRight'
  <2>1. ChainRight /\ DataRight /\ ProgressRight
    BY <1>9 DEF SnapshotsIInv
  <2>2. ChainRight'
    BY <1>1, <2>1 DEF ChainRight
  <2>3. Has(chain, last)
    BY <1>3 DEF Has, last
  <2>4. Shown(data', chain, Len(chain)) = 0 .. writes' - 1
    <3>1. ASSUME NEW x PROVE x \in Shown(data', chain, Len(chain)) <=> x \in Shown(data, chain, Len(chain)) \union {writes}
      <4>1. /\ x \in Shown(data', chain, Len(chain)) <=> \E j \in 1 .. Len(chain) : x \in data'[chain[j]]
            /\ x \in Shown(data, chain, Len(chain)) <=> \E j \in 1 .. Len(chain) : x \in data[chain[j]]
        BY ShownIs
      <4>2. \A j \in 1 .. Len(chain) : x \in data'[chain[j]] <=> x \in data[chain[j]] \/ (chain[j] = last /\ x = writes)
        BY <1>3, <1>5
      <4>3. \E j \in 1 .. Len(chain) : chain[j] = last
        BY <2>3 DEF Has
      <4> QED
        BY <4>1, <4>2, <4>3
    <3>2. 0 .. writes = (0 .. writes - 1) \union {writes} /\ writes' - 1 = writes
      BY <1>1, <1>3
    <3> QED
      BY <2>1, <3>1, <3>2 DEF DataRight
  <2>5. 0 .. writes - 1 \subseteq 0 .. writes' - 1
    BY <1>1, <1>3
  <2>6. ASSUME NEW n \in Nat, n <= Len(known), \A j \in 1 .. n : known[j] # last
        PROVE  Shown(data', known, n) = Shown(data, known, n)
    <3>1. \A j \in 1 .. n : data'[known[j]] = data[known[j]]
      BY <1>3, <1>5, <2>6
    <3>2. /\ \A x : x \in Shown(data', known, n) <=> \E j \in 1 .. n : x \in data'[known[j]]
          /\ \A x : x \in Shown(data, known, n) <=> \E j \in 1 .. n : x \in data[known[j]]
      BY ShownIs
    <3>3. \A x : x \in Shown(data', known, n) <=> x \in Shown(data, known, n)
      BY <3>1, <3>2
    <3> QED
      BY <3>3
  <2>7. ASSUME NEW s \in DOMAIN overlay \ doomed, NEW k \in 2 .. Len(known), overlay[s] = known[k]
        PROVE  Shown(data', known, k - 1) = snapshots_content[s]
    <3>1. k - 1 \in Nat /\ k - 1 <= Len(known) /\ \A j \in 1 .. k - 1 : j \in 1 .. Len(known) - 1
      BY <1>3
    <3>2. \A j \in 1 .. k - 1 : known[j] # last
      BY <1>2, <2>1, <3>1, LastApart DEF last
    <3>3. Shown(data', known, k - 1) = Shown(data, known, k - 1)
      BY <2>6, <3>1, <3>2
    <3> QED
      BY <2>1, <2>7, <3>3 DEF DataRight
  <2>8. DataRight'
    <3>1. \A f \in Qcow : Has(known, f) /\ ~Has(chain, f) => data'[f] \subseteq 0 .. writes' - 1
      BY <1>5, <2>1, <2>3, <2>5 DEF DataRight
    <3>2. \A f \in Qcow : ~Has(known, f) /\ ~Has(chain, f) => data'[f] = {}
      BY <1>5, <2>1, <2>3 DEF DataRight
    <3> QED
      BY <1>1, <2>4, <2>7, <3>1, <3>2 DEF DataRight
  <2>9. ProgressRight'
    <3>1. phase = "success" /\ Asked("create") =>
            snapshots_content[Subject] = Shown(data', known, Len(known))
      <4> SUFFICES ASSUME phase = "success", Asked("create")
                   PROVE  snapshots_content[Subject] = Shown(data', known, Len(known))
        OBVIOUS
      <4>1. ~Has(known, last)
        BY <1>2, <2>1 DEF ProgressRight, RequestRight, last
      <4>2. Shown(data', known, Len(known)) = Shown(data, known, Len(known))
        <5>1. \A j \in 1 .. Len(known) : known[j] # last
          BY <4>1 DEF Has
        <5> QED
          BY <1>3, <2>6, <5>1
      <4> QED
        BY <2>1, <4>2 DEF ProgressRight
    <3>2. (phase = "waiting" /\ ~job) \/ phase = "success" => Asked("create") \/ FileMerged'
      <4> SUFFICES ASSUME (phase = "waiting" /\ ~job) \/ phase = "success", ~Asked("create") PROVE FileMerged'
        OBVIOUS
      <4>1. FileMerged
        BY <2>1 DEF ProgressRight
      <4>2. SourceFile # last
        BY <2>3, <4>1 DEF FileMerged
      <4>3. Asked("commit") => SourceFile \in Qcow /\ BaseFile \in Qcow
        <5> SUFFICES ASSUME Asked("commit") PROVE SourceFile \in Qcow /\ BaseFile \in Qcow
          OBVIOUS
        <5>1. PICK i \in 2 .. Len(known) - 1 : SourceFile = known[i] /\ BaseFile = known[i - 1]
          BY <1>2 DEF RequestRight, CommitAsked
        <5>2. i \in 1 .. Len(known) /\ i - 1 \in 1 .. Len(known)
          BY <1>3
        <5> QED
          BY <1>3, <5>1, <5>2
      <4>4. SourceFile' = SourceFile /\ BaseFile' = BaseFile /\ Asked("commit")' = Asked("commit")
        BY <1>1 DEF SourceFile, BaseFile, Asked
      <4>5. Asked("commit") => data'[SourceFile] \subseteq data'[BaseFile]
        BY <1>5, <4>1, <4>2, <4>3 DEF FileMerged
      <4> QED
        BY <1>1, <4>1, <4>4, <4>5 DEF FileMerged
    <3>3. Subject' = Subject /\ SourceFile' = SourceFile /\ BaseFile' = BaseFile
          /\ \A k : Asked(k)' = Asked(k)
      BY <1>1 DEF Subject, SourceFile, BaseFile, Asked
    <3> QED
      BY <1>1, <2>1, <3>1, <3>2, <3>3 DEF ProgressRight
  <2> QED
    BY <2>2, <2>8, <2>9
<1> QED
  BY <1>1, <1>6, <1>7, <1>8, <1>9 DEF SnapshotsIInv

\* A sequence with one more file.
LEMMA OneMore ==
  ASSUME NEW q \in Seq(Qcow), NEW f \in Qcow
  PROVE  LET w == Append(q, f) IN
         /\ w \in Seq(Qcow) /\ Len(w) = Len(q) + 1 /\ Len(w) > 0
         /\ \A j \in 1 .. Len(q) : w[j] = q[j]
         /\ w[Len(w)] = f
         /\ \A j \in 1 .. Len(w) : j \in 1 .. Len(q) \/ j = Len(w)
         /\ \A g : Has(w, g) <=> Has(q, g) \/ g = f
         /\ ~Has(q, f) /\ NoneTwice(q) => NoneTwice(w)
<1> DEFINE w == Append(q, f)
<1>1. /\ w \in Seq(Qcow) /\ Len(w) = Len(q) + 1 /\ Len(q) \in Nat
      /\ \A j \in 1 .. Len(q) : w[j] = q[j]
      /\ w[Len(w)] = f
  OBVIOUS
<1>2. DOMAIN w = 1 .. Len(w) /\ DOMAIN q = 1 .. Len(q)
  OBVIOUS
<1> HIDE DEF w
<1>3. /\ \A j \in 1 .. Len(w) : j \in 1 .. Len(q) \/ j = Len(w)
      /\ \A j \in 1 .. Len(q) : j \in 1 .. Len(w)
      /\ Len(w) \in 1 .. Len(w) /\ Len(w) > 0
  BY <1>1
<1>4. \A g : Has(w, g) <=> Has(q, g) \/ g = f
  <2> SUFFICES ASSUME NEW g PROVE Has(w, g) <=> Has(q, g) \/ g = f
    OBVIOUS
  <2>1. ASSUME Has(w, g) PROVE Has(q, g) \/ g = f
    <3>1. PICK j \in 1 .. Len(w) : w[j] = g
      BY <2>1 DEF Has
    <3> QED
      BY <1>1, <1>3, <3>1 DEF Has
  <2>2. ASSUME Has(q, g) PROVE Has(w, g)
    <3>1. PICK j \in 1 .. Len(q) : q[j] = g
      BY <2>2 DEF Has
    <3> QED
      BY <1>1, <1>3, <3>1 DEF Has
  <2>3. Has(w, f)
    BY <1>1, <1>3 DEF Has
  <2> QED
    BY <2>1, <2>2, <2>3
<1>5. ASSUME ~Has(q, f), NoneTwice(q) PROVE NoneTwice(w)
  <2> SUFFICES ASSUME NEW i \in 1 .. Len(w), NEW j \in 1 .. Len(w), w[i] = w[j] PROVE i = j
    BY <1>2 DEF NoneTwice
  <2>1. CASE i \in 1 .. Len(q) /\ j \in 1 .. Len(q)
    BY <1>1, <1>2, <1>5, <2>1 DEF NoneTwice
  <2>2. CASE i \notin 1 .. Len(q) \/ j \notin 1 .. Len(q)
    BY <1>1, <1>3, <1>5, <2>2 DEF Has
  <2> QED
    BY <2>1, <2>2
<1> QED
  BY <1>1, <1>3, <1>4, <1>5 DEF w

\* What is shown by the chain and by Cinder's files is the same.
LEMMA SameShown ==
  ASSUME SnapshotsTyped, ChainRight, DataRight, chain[Len(chain)] = known[Len(known)]
  PROVE  Shown(data, chain, Len(chain)) = Shown(data, known, Len(known))
<1>1. /\ Len(known) \in Nat /\ Len(known) \in 1 .. Len(known) /\ Len(chain) \in Nat
      /\ \A j \in 1 .. Len(known) : known[j] \in Qcow
  BY DEF SnapshotsTyped
<1>2. /\ \A x : x \in Shown(data, chain, Len(chain)) <=> \E j \in 1 .. Len(chain) : x \in data[chain[j]]
      /\ \A x : x \in Shown(data, known, Len(known)) <=> \E j \in 1 .. Len(known) : x \in data[known[j]]
  BY ShownIs
<1>3. \A j \in 1 .. Len(chain) : Has(known, chain[j])
  <2> SUFFICES ASSUME NEW j \in 1 .. Len(chain) PROVE Has(known, chain[j])
    OBVIOUS
  <2>1. CASE j = Len(chain)
    BY <1>1, <2>1 DEF Has
  <2>2. CASE j # Len(chain)
    BY <1>1, <2>2, BeforeLast DEF ChainRight
  <2> QED
    BY <2>1, <2>2
<1>4. ASSUME NEW x \in Shown(data, chain, Len(chain)) PROVE x \in Shown(data, known, Len(known))
  <2>1. PICK j \in 1 .. Len(chain) : x \in data[chain[j]]
    BY <1>2
  <2>2. PICK k \in 1 .. Len(known) : known[k] = chain[j]
    BY <1>3, <2>1 DEF Has
  <2> QED
    BY <1>2, <2>1, <2>2
<1>5. ASSUME NEW x \in Shown(data, known, Len(known)) PROVE x \in Shown(data, chain, Len(chain))
  <2>1. PICK k \in 1 .. Len(known) : x \in data[known[k]]
    BY <1>2
  <2>2. CASE Has(chain, known[k])
    <3>1. PICK j \in 1 .. Len(chain) : chain[j] = known[k]
      BY <2>2 DEF Has
    <3> QED
      BY <1>2, <2>1, <3>1
  <2>3. CASE ~Has(chain, known[k])
    <3>1. known[k] \in Qcow /\ Has(known, known[k])
      BY <1>1 DEF Has
    <3> QED
      BY <2>1, <2>3, <3>1 DEF DataRight
  <2> QED
    BY <2>2, <2>3
<1> QED
  BY <1>4, <1>5

\* Putting a new file on top of the chain keeps the invariant.
LEMMA TakeSnapshotKeeps ==
  ASSUME SnapshotsIInv, phase = "asked", snapshots_request.kind = "create", Snapshots!TakeSnapshot,
         UNCHANGED <<data, known, overlay, doomed, snapshots_request, job, snapshots_silent, writes>>
  PROVE  SnapshotsIInv'
<1> DEFINE s == snapshots_request.snapshot
<1>1. /\ chain' = Append(chain, s) /\ phase' = "success"
      /\ snapshots_content' = [snapshots_content EXCEPT ![s] = Shown(data, chain, Len(chain))]
  BY ViewIs DEF Snapshots!TakeSnapshot
<1>2. SnapshotsTyped /\ KnownRight /\ RequestRight
  BY DEF SnapshotsIInv
<1>3. s \in Snapshot /\ s \notin DOMAIN overlay /\ ~Has(known, s) /\ s = Subject /\ Asked("create") /\ ~job
  BY <1>2 DEF RequestRight, Asked, Subject
<1> HIDE DEF s
<1>4. s \in Qcow /\ chain \in Seq(Qcow) /\ Len(chain) \in Nat /\ Len(chain) > 0
  BY <1>2, <1>3 DEF SnapshotsTyped, Qcow
<1>5. /\ chain' \in Seq(Qcow) /\ Len(chain') = Len(chain) + 1 /\ Len(chain') > 0
      /\ \A j \in 1 .. Len(chain) : chain'[j] = chain[j]
      /\ chain'[Len(chain')] = s
      /\ \A j \in 1 .. Len(chain') : j \in 1 .. Len(chain) \/ j = Len(chain')
      /\ \A g : Has(chain', g) <=> Has(chain, g) \/ g = s
      /\ ~Has(chain, s) /\ NoneTwice(chain) => NoneTwice(chain')
  <2> DEFINE w == Append(chain, s)
  <2>1. /\ w \in Seq(Qcow) /\ Len(w) = Len(chain) + 1 /\ Len(w) > 0
        /\ \A j \in 1 .. Len(chain) : w[j] = chain[j]
        /\ w[Len(w)] = s
        /\ \A j \in 1 .. Len(w) : j \in 1 .. Len(chain) \/ j = Len(w)
        /\ \A g : Has(w, g) <=> Has(chain, g) \/ g = s
        /\ ~Has(chain, s) /\ NoneTwice(chain) => NoneTwice(w)
    BY <1>4, OneMore
  <2> HIDE DEF w
  <2>2. chain' = w
    BY <1>1 DEF w
  <2> QED
    BY <2>1, <2>2
<1>6. Shown(data, chain, Len(chain)) \in SUBSET Nat
  <2>1. \A j \in 1 .. Len(chain) : data[chain[j]] \subseteq Nat
    BY <1>2 DEF SnapshotsTyped, Writes
  <2> QED
    BY <2>1, ShownIs
<1>7. /\ snapshots_content' \in [Snapshot -> SUBSET Nat]
      /\ snapshots_content'[s] = Shown(data, chain, Len(chain))
      /\ \A t \in DOMAIN overlay : snapshots_content'[t] = snapshots_content[t]
  <2>1. snapshots_content \in [Snapshot -> SUBSET Nat] /\ DOMAIN overlay \subseteq Snapshot
    BY <1>2 DEF SnapshotsTyped
  <2> QED
    BY <1>1, <1>3, <1>6, <2>1
<1>8. SnapshotsTyped'
  BY <1>1, <1>2, <1>5, <1>7 DEF SnapshotsTyped
<1>9. KnownRight'
  BY <1>2 DEF KnownRight
<1>10. Asked("create")' /\ ~Asked("pull")' /\ ~Asked("commit")' /\ Subject' = s
  BY <1>1, <1>3 DEF Asked, Subject
<1>11. RequestRight'
  BY <1>1, <1>3, <1>10 DEF RequestRight
<1>12. ASSUME ~snapshots_silent PROVE ChainRight' /\ DataRight' /\ ProgressRight'
  <2>1. ChainRight /\ DataRight /\ ProgressRight
    BY <1>12 DEF SnapshotsIInv
  <2>2. ~Has(chain, s) /\ chain[Len(chain)] = known[Len(known)]
    BY <1>3, <2>1 DEF ProgressRight
  <2>3. data[s] = {}
    BY <1>3, <1>4, <2>1, <2>2 DEF DataRight
  <2>4. Len(known) \in 1 .. Len(known)
    BY <1>2 DEF SnapshotsTyped
  <2>5. \A j \in 1 .. Len(chain) : Has(known, chain[j])
    <3> SUFFICES ASSUME NEW j \in 1 .. Len(chain) PROVE Has(known, chain[j])
      OBVIOUS
    <3>1. CASE j = Len(chain)
      BY <2>2, <2>4, <3>1 DEF Has
    <3>2. CASE j # Len(chain)
      BY <1>4, <2>1, <3>2, BeforeLast DEF ChainRight
    <3> QED
      BY <3>1, <3>2
  <2>6. ChainRight'
    <3>1. \A j \in 1 .. Len(chain') - 1 : Has(known, chain'[j])
      BY <1>4, <1>5, <2>5
    <3>2. Follows(chain', known)
      <4> SUFFICES ASSUME NEW i \in 1 .. Len(chain'), NEW j \in 1 .. Len(chain'),
                          NEW a \in 1 .. Len(known), NEW b \in 1 .. Len(known),
                          i < j, chain'[i] = known[a], chain'[j] = known[b]
                   PROVE  a < b
        BY DEF Follows
      <4>1. i \in 1 .. Len(chain) /\ j \in 1 .. Len(chain)
        BY <1>3, <1>5 DEF Has
      <4> QED
        BY <1>5, <2>1, <4>1 DEF ChainRight, Follows
    <3> QED
      BY <1>3, <1>5, <2>1, <2>2, <3>1, <3>2 DEF ChainRight
  <2>7. Shown(data, chain', Len(chain')) = Shown(data, chain, Len(chain))
    <3>1. /\ \A x : x \in Shown(data, chain', Len(chain')) <=> \E j \in 1 .. Len(chain') : x \in data[chain'[j]]
          /\ \A x : x \in Shown(data, chain, Len(chain)) <=> \E j \in 1 .. Len(chain) : x \in data[chain[j]]
      BY ShownIs
    <3>2. \A j \in 1 .. Len(chain) : j \in 1 .. Len(chain')
      BY <1>4, <1>5
    <3>3. ASSUME NEW x, \E j \in 1 .. Len(chain') : x \in data[chain'[j]] PROVE \E j \in 1 .. Len(chain) : x \in data[chain[j]]
      BY <1>5, <2>3, <3>3
    <3>4. ASSUME NEW x, \E j \in 1 .. Len(chain) : x \in data[chain[j]] PROVE \E j \in 1 .. Len(chain') : x \in data[chain'[j]]
      BY <1>5, <3>2, <3>4
    <3>5. \A x : x \in Shown(data, chain', Len(chain')) <=> x \in Shown(data, chain, Len(chain))
      BY <3>1, <3>3, <3>4
    <3> QED
      BY <3>5
  <2>8. DataRight'
    BY <1>5, <1>7, <2>1, <2>3, <2>7 DEF DataRight
  <2>9. snapshots_content'[s] = Shown(data, known, Len(known))
    BY <1>2, <1>7, <2>1, <2>2, SameShown
  <2>10. ProgressRight'
    BY <1>1, <1>3, <1>5, <1>10, <2>9 DEF ProgressRight
  <2> QED
    BY <2>6, <2>8, <2>10
<1> QED
  BY <1>8, <1>9, <1>11, <1>12 DEF SnapshotsIInv

\* An error, and an answer that does not come, leave the files as they are.
LEMMA AnsweredKeeps ==
  ASSUME SnapshotsIInv, ~job,
         UNCHANGED <<chain, known, data, overlay, doomed, snapshots_content, job, snapshots_silent, writes>>,
         phase' = "idle" \/ (phase # "idle" /\ phase' = "error" /\ UNCHANGED snapshots_request)
  PROVE  SnapshotsIInv'
<1>1. SnapshotsTyped /\ RequestRight
  BY DEF SnapshotsIInv
<1>2. SnapshotsTyped' /\ KnownRight' /\ (~snapshots_silent => ChainRight' /\ DataRight')
  <2>1. phase' \in {"idle", "asked", "waiting", "success", "error"} /\ job' \in BOOLEAN /\ snapshots_silent' \in BOOLEAN
    BY <1>1 DEF SnapshotsTyped
  <2> QED
    BY <2>1, FilesStay
<1>3. RequestRight'
  <2>1. CASE phase' = "idle"
    BY <2>1 DEF RequestRight, Asked
  <2>2. CASE phase # "idle" /\ phase' = "error" /\ UNCHANGED snapshots_request
    BY <1>1, <2>2 DEF RequestRight, Asked, PullAsked, CommitAsked, Subject, SourceFile, BaseFile
  <2> QED
    BY <2>1, <2>2
<1>4. ProgressRight'
  BY DEF ProgressRight
<1> QED
  BY <1>2, <1>3, <1>4 DEF SnapshotsIInv

\* Taking a snapshot keeps the invariant, whether it fails or not,
LEMMA CreateSnapshotKeeps ==
  ASSUME SnapshotsIInv, Snapshots!VolumeSnapshotCreate
  PROVE  SnapshotsIInv'
<1>1. /\ UNCHANGED <<data, known, overlay, doomed, snapshots_request, job, snapshots_silent, writes>>
      /\ phase = "asked" /\ snapshots_request.kind = "create"
      /\ \/ Snapshots!TakeSnapshot
         \/ phase' = "error" /\ UNCHANGED <<chain, snapshots_content>>
  BY DEF Snapshots!VolumeSnapshotCreate, Snapshots!cinder
<1>2. ~job
  BY <1>1 DEF SnapshotsIInv, RequestRight
<1>3. CASE Snapshots!TakeSnapshot
  BY <1>1, <1>3, TakeSnapshotKeeps
<1>4. CASE phase' = "error" /\ UNCHANGED <<chain, snapshots_content>>
  BY <1>1, <1>2, <1>4, AnsweredKeeps
<1> QED
  BY <1>1, <1>3, <1>4

\* What has been merged is not in use any more.
LEMMA MergedKeeps ==
  ASSUME SnapshotsIInv, ~snapshots_silent, Asked("pull") \/ Asked("commit"),
         chain' \in Seq(Qcow), Len(chain') > 0, data' \in Writes, ChainRight', DataRight',
         ~Has(chain', SourceFile), Asked("commit") => data'[SourceFile] \subseteq data'[BaseFile],
         UNCHANGED <<known, overlay, doomed, snapshots_content, snapshots_request, snapshots_silent, writes>>,
         job' = FALSE, phase' \in {"waiting", "success"}
  PROVE  SnapshotsIInv'
<1>1. SnapshotsTyped /\ KnownRight /\ RequestRight
  BY DEF SnapshotsIInv
<1>2. SnapshotsTyped'
  BY <1>1 DEF SnapshotsTyped
<1>3. KnownRight'
  BY <1>1 DEF KnownRight
<1>4. /\ Subject' = Subject /\ SourceFile' = SourceFile /\ BaseFile' = BaseFile
      /\ Asked("pull")' = Asked("pull") /\ Asked("commit")' = Asked("commit") /\ ~Asked("create")'
  BY DEF Subject, SourceFile, BaseFile, Asked
<1>5. RequestRight'
  <2>1. (PullAsked' <=> PullAsked) /\ (CommitAsked' <=> CommitAsked)
    BY <1>4 DEF PullAsked, CommitAsked
  <2> QED
    BY <1>1, <1>4, <2>1 DEF RequestRight
<1>6. FileMerged'
  BY <1>4 DEF FileMerged
<1>7. ProgressRight'
  BY <1>4, <1>6 DEF ProgressRight
<1> QED
  BY <1>2, <1>3, <1>5, <1>7 DEF SnapshotsIInv

\* so does the start of a deletion,
LEMMA DeleteSnapshotKeeps ==
  ASSUME SnapshotsIInv, Snapshots!VolumeSnapshotDelete
  PROVE  SnapshotsIInv'
<1>1. /\ UNCHANGED <<known, overlay, doomed, snapshots_content, snapshots_request, snapshots_silent, writes>>
      /\ phase = "asked" /\ snapshots_request.kind \in {"pull", "commit"}
      /\ \/ Snapshots!GetSnapDev /\ job' = TRUE /\ phase' = "waiting" /\ UNCHANGED <<data, chain>>
         \/ /\ Snapshots!GetSnapDev /\ snapshots_request.kind = "pull" /\ Snapshots!Pull(BaseFile)
            /\ phase' = "success" /\ UNCHANGED job
         \/ phase' = "error" /\ UNCHANGED <<data, chain, job>>
  BY DEF Snapshots!VolumeSnapshotDelete, Snapshots!RebaseWithQemuImg, Snapshots!cinder, BaseFile
<1>2. SnapshotsTyped /\ KnownRight /\ RequestRight
  BY DEF SnapshotsIInv
<1>3. ~job /\ ~Asked("create") /\ (Asked("pull") \/ Asked("commit")) /\ ~snapshots_silent
      /\ (snapshots_request.kind = "commit" <=> Asked("commit"))
  BY <1>1, <1>2 DEF RequestRight, Asked
<1>4. ChainRight /\ DataRight /\ ProgressRight
  BY <1>3 DEF SnapshotsIInv
<1>5. Snapshots!GetSnapDev =>
        (BaseFile = "none" \/ Has(chain, BaseFile)) /\ (Asked("commit") => Has(chain, SourceFile))
  BY <1>2, <1>3, HasIs DEF Snapshots!GetSnapDev, SnapshotsTyped, BaseFile, SourceFile
<1>6. CASE Snapshots!GetSnapDev /\ job' = TRUE /\ phase' = "waiting" /\ UNCHANGED <<data, chain>>
  <2>1. SnapshotsTyped' /\ KnownRight' /\ ChainRight' /\ DataRight'
    BY <1>1, <1>2, <1>3, <1>6, FilesStay DEF SnapshotsTyped
  <2>2. /\ Subject' = Subject /\ SourceFile' = SourceFile /\ BaseFile' = BaseFile
        /\ Asked("pull")' = Asked("pull") /\ Asked("commit")' = Asked("commit") /\ ~Asked("create")'
    BY <1>1, <1>3, <1>6 DEF Subject, SourceFile, BaseFile, Asked
  <2>3. (PullAsked' <=> PullAsked) /\ (CommitAsked' <=> CommitAsked)
    BY <1>1, <2>2 DEF PullAsked, CommitAsked
  <2>4. RequestRight'
    BY <1>1, <1>2, <1>3, <1>6, <2>2, <2>3 DEF RequestRight
  <2>5. ProgressRight'
    BY <1>5, <1>6, <2>2 DEF ProgressRight
  <2> QED
    BY <2>1, <2>4, <2>5 DEF SnapshotsIInv
<1>7. CASE /\ Snapshots!GetSnapDev /\ snapshots_request.kind = "pull" /\ Snapshots!Pull(BaseFile)
           /\ phase' = "success" /\ UNCHANGED job
  <2>1. Asked("pull") /\ ~Asked("commit") /\ PullAsked
    BY <1>1, <1>2, <1>7 DEF Asked, RequestRight
  <2>2. /\ chain' \in Seq(Qcow) /\ Len(chain') > 0 /\ data' \in Writes /\ ChainRight' /\ DataRight'
        /\ ~Has(chain', SourceFile)
    BY <1>1, <1>2, <1>4, <1>5, <1>7, <2>1, PullKeeps
  <2>3. job' = FALSE
    BY <1>2, <1>3, <1>7 DEF SnapshotsTyped
  <2> QED
    BY <1>1, <1>3, <1>7, <2>1, <2>2, <2>3, MergedKeeps
<1>8. CASE phase' = "error" /\ UNCHANGED <<data, chain, job>>
  BY <1>1, <1>3, <1>8, AnsweredKeeps
<1> QED
  BY <1>1, <1>6, <1>7, <1>8

\* so does the end of its block job,
LEMMA JobEndsKeeps ==
  ASSUME SnapshotsIInv, Snapshots!JobEnds
  PROVE  SnapshotsIInv'
<1>1. /\ UNCHANGED <<known, overlay, doomed, snapshots_content, snapshots_request, phase, writes>>
      /\ job /\ job' = FALSE
      /\ \/ Snapshots!Merge /\ UNCHANGED snapshots_silent
         \/ snapshots_silent' = TRUE /\ UNCHANGED <<data, chain>>
  BY DEF Snapshots!JobEnds, Snapshots!cinder
<1>2. SnapshotsTyped /\ KnownRight /\ RequestRight
  BY DEF SnapshotsIInv
<1>3. phase = "waiting" /\ ~Asked("create") /\ (Asked("pull") \/ Asked("commit")) /\ ~snapshots_silent
  BY <1>1, <1>2 DEF RequestRight
<1>4. ChainRight /\ DataRight /\ ProgressRight
  BY <1>3 DEF SnapshotsIInv
<1>5. CASE Snapshots!Merge /\ UNCHANGED snapshots_silent
  <2>1. CASE Asked("pull")
    <3>1. ~Asked("commit") /\ PullAsked /\ Snapshots!Pull(BaseFile)
      BY <1>2, <1>5, <2>1 DEF Asked, RequestRight, Snapshots!Merge, BaseFile
    <3>2. /\ chain' \in Seq(Qcow) /\ Len(chain') > 0 /\ data' \in Writes /\ ChainRight' /\ DataRight'
          /\ ~Has(chain', SourceFile)
      BY <1>1, <1>2, <1>4, <3>1, PullKeeps DEF ProgressRight
    <3> QED
      BY <1>1, <1>3, <1>5, <3>1, <3>2, MergedKeeps
  <2>2. CASE Asked("commit")
    <3>1. CommitAsked /\ Snapshots!Commit(BaseFile, SourceFile)
      BY <1>2, <1>5, <2>2 DEF Asked, RequestRight, Snapshots!Merge, BaseFile, SourceFile
    <3>2. Has(chain, BaseFile) /\ Has(chain, SourceFile)
      <4>1. BaseFile # "none"
        <5>1. PICK i \in 2 .. Len(known) - 1 : BaseFile = known[i - 1]
          BY <3>1 DEF CommitAsked
        <5>2. BaseFile \in Qcow
          BY <1>2, <5>1 DEF SnapshotsTyped
        <5> QED
          BY <5>2, SnapshotsAssumption DEF Snapshots!VolumeSnapshotAssumption, Qcow
      <4> QED
        BY <1>1, <1>4, <2>2, <4>1 DEF ProgressRight
    <3>3. /\ chain' \in Seq(Qcow) /\ Len(chain') > 0 /\ data' \in Writes /\ ChainRight' /\ DataRight'
          /\ ~Has(chain', SourceFile) /\ data'[SourceFile] \subseteq data'[BaseFile]
      BY <1>1, <1>2, <1>4, <3>1, <3>2, CommitKeeps
    <3> QED
      BY <1>1, <1>3, <1>5, <3>3, MergedKeeps
  <2> QED
    BY <1>3, <2>1, <2>2
<1>6. CASE snapshots_silent' = TRUE /\ UNCHANGED <<data, chain>>
  <2>1. SnapshotsTyped' /\ KnownRight'
    BY <1>1, <1>2, <1>6, FilesStay DEF SnapshotsTyped
  <2>2. RequestRight'
    BY <1>1, <1>2, <1>3, <1>6 DEF RequestRight, Asked, PullAsked, CommitAsked, Subject, SourceFile, BaseFile
  <2> QED
    BY <1>6, <2>1, <2>2 DEF SnapshotsIInv
<1> QED
  BY <1>1, <1>5, <1>6

\* so does the driver that finds it ended,
LEMMA WaitForJobKeeps ==
  ASSUME SnapshotsIInv, Snapshots!WaitForJob
  PROVE  SnapshotsIInv'
<1>1. /\ UNCHANGED <<chain, known, data, overlay, doomed, snapshots_content, snapshots_request, job,
                     snapshots_silent, writes>>
      /\ phase = "waiting" /\ phase' = "success" /\ ~job
  BY DEF Snapshots!WaitForJob, Snapshots!IsJobComplete, Snapshots!cinder
<1>2. SnapshotsTyped /\ RequestRight
  BY DEF SnapshotsIInv
<1>3. SnapshotsTyped' /\ KnownRight' /\ (~snapshots_silent => ChainRight' /\ DataRight')
  BY <1>1, <1>2, FilesStay DEF SnapshotsTyped
<1>4. /\ Subject' = Subject /\ SourceFile' = SourceFile /\ BaseFile' = BaseFile
      /\ \A k : Asked(k)' = Asked(k)
  BY <1>1 DEF Subject, SourceFile, BaseFile, Asked
<1>5. RequestRight'
  <2>1. (PullAsked' <=> PullAsked) /\ (CommitAsked' <=> CommitAsked)
    BY <1>1, <1>4 DEF PullAsked, CommitAsked
  <2> QED
    BY <1>1, <1>2, <1>4, <2>1 DEF RequestRight
<1>6. ASSUME ~snapshots_silent PROVE ProgressRight'
  <2>1. ~Asked("create") /\ FileMerged
    BY <1>1, <1>2, <1>6 DEF SnapshotsIInv, RequestRight, ProgressRight
  <2>2. FileMerged'
    BY <1>1, <1>4, <2>1 DEF FileMerged
  <2> QED
    BY <1>1, <1>4, <2>1, <2>2 DEF ProgressRight
<1> QED
  BY <1>1, <1>3, <1>5, <1>6 DEF SnapshotsIInv

\* Cinder hears of a snapshot, whose overlay is then its last file.
LEMMA HearsOfCreate ==
  ASSUME SnapshotsIInv, phase = "success", Asked("create"),
         known' = Append(known, Subject),
         overlay' = [t \in DOMAIN overlay \union {Subject} |-> IF t = Subject THEN Subject ELSE overlay[t]],
         UNCHANGED <<chain, data, doomed, snapshots_content, job, snapshots_silent, writes>>, phase' = "idle"
  PROVE  SnapshotsIInv'
<1> DEFINE s == Subject
<1>1. SnapshotsTyped /\ KnownRight /\ RequestRight
  BY DEF SnapshotsIInv
<1>2. s \in Snapshot /\ s \notin DOMAIN overlay /\ ~Has(known, s) /\ ~job
  BY <1>1 DEF RequestRight
<1>3. s \in Qcow /\ known \in Seq(Qcow) /\ Len(known) \in Nat /\ Len(known) > 0 /\ Len(known) \in 1 .. Len(known)
  BY <1>1, <1>2 DEF SnapshotsTyped, Qcow
<1>4. s = Subject
  OBVIOUS
<1> HIDE DEF s
<1>5. /\ known' \in Seq(Qcow) /\ Len(known') = Len(known) + 1 /\ Len(known') > 0
      /\ \A j \in 1 .. Len(known) : known'[j] = known[j]
      /\ known'[Len(known')] = s
      /\ \A j \in 1 .. Len(known') : j \in 1 .. Len(known) \/ j = Len(known')
      /\ \A g : Has(known', g) <=> Has(known, g) \/ g = s
      /\ NoneTwice(known')
  <2> DEFINE w == Append(known, s)
  <2>1. /\ w \in Seq(Qcow) /\ Len(w) = Len(known) + 1 /\ Len(w) > 0
        /\ \A j \in 1 .. Len(known) : w[j] = known[j]
        /\ w[Len(w)] = s
        /\ \A j \in 1 .. Len(w) : j \in 1 .. Len(known) \/ j = Len(w)
        /\ \A g : Has(w, g) <=> Has(known, g) \/ g = s
        /\ ~Has(known, s) /\ NoneTwice(known) => NoneTwice(w)
    BY <1>3, OneMore
  <2> HIDE DEF w
  <2>2. known' = w
    BY <1>4 DEF w
  <2> QED
    BY <1>1, <1>2, <2>1, <2>2 DEF KnownRight
<1>6. /\ DOMAIN overlay' = DOMAIN overlay \union {s} /\ overlay'[s] = s
      /\ \A t \in DOMAIN overlay : overlay'[t] = overlay[t]
      /\ \A t \in DOMAIN overlay : Has(known, overlay[t]) /\ overlay[t] # s
  <2>1. \A t \in DOMAIN overlay : Has(known, overlay[t])
    <3> SUFFICES ASSUME NEW t \in DOMAIN overlay PROVE Has(known, overlay[t])
      OBVIOUS
    <3>1. PICK i \in 2 .. Len(known) : overlay[t] = known[i]
      BY <1>1 DEF KnownRight
    <3>2. i \in 1 .. Len(known)
      BY <1>3
    <3> QED
      BY <3>1, <3>2 DEF Has
  <2> QED
    BY <1>2, <1>4, <2>1
<1>7. SnapshotsTyped'
  BY <1>1, <1>2, <1>5, <1>6 DEF SnapshotsTyped
<1>8. KnownRight'
  <2>1. \A t \in DOMAIN overlay' : \E i \in 2 .. Len(known') : overlay'[t] = known'[i]
    <3> SUFFICES ASSUME NEW t \in DOMAIN overlay' PROVE \E i \in 2 .. Len(known') : overlay'[t] = known'[i]
      OBVIOUS
    <3>1. CASE t = s
      <4>1. Len(known') \in 2 .. Len(known')
        BY <1>3, <1>5
      <4> QED
        BY <1>5, <1>6, <3>1, <4>1
    <3>2. CASE t # s
      <4>1. t \in DOMAIN overlay
        BY <1>6, <3>2
      <4>2. PICK i \in 2 .. Len(known) : overlay[t] = known[i]
        BY <1>1, <4>1 DEF KnownRight
      <4>3. i \in 1 .. Len(known) /\ i \in 2 .. Len(known')
        BY <1>3, <1>5, <4>2
      <4> QED
        BY <1>5, <1>6, <4>1, <4>2, <4>3
    <3> QED
      BY <3>1, <3>2
  <2>2. \A t, u \in DOMAIN overlay' : overlay'[t] = overlay'[u] => t = u
    BY <1>1, <1>6 DEF KnownRight
  <2> QED
    BY <1>5, <2>1, <2>2 DEF KnownRight
<1>9. RequestRight'
  BY <1>2 DEF RequestRight, Asked
<1>10. ASSUME ~snapshots_silent PROVE ChainRight' /\ DataRight'
  <2>1. ChainRight /\ DataRight /\ ProgressRight
    BY <1>10 DEF SnapshotsIInv
  <2>2. /\ chain[Len(chain)] = s /\ Len(chain) \in Nat /\ Len(chain) \in 1 .. Len(chain)
        /\ Has(chain, s) /\ DOMAIN chain = 1 .. Len(chain) /\ DOMAIN known' = 1 .. Len(known')
    <3>1. chain[Len(chain)] = s /\ Len(chain) \in Nat /\ Len(chain) \in 1 .. Len(chain)
          /\ DOMAIN chain = 1 .. Len(chain)
      BY <1>1, <1>4, <2>1 DEF ProgressRight, SnapshotsTyped
    <3> QED
      BY <1>5, <3>1 DEF Has
  <2>3. ChainRight'
    <3>1. Follows(chain, known')
      <4> SUFFICES ASSUME NEW i \in 1 .. Len(chain), NEW j \in 1 .. Len(chain),
                          NEW a \in 1 .. Len(known'), NEW b \in 1 .. Len(known'),
                          i < j, chain[i] = known'[a], chain[j] = known'[b]
                   PROVE  a < b
        BY DEF Follows
      <4>1. a # Len(known')
        <5>1. i # Len(chain)
          BY <2>2
        <5>2. chain[i] # s
          BY <2>1, <2>2, <5>1 DEF ChainRight, NoneTwice
        <5> QED
          BY <1>5, <5>2
      <4>2. a \in 1 .. Len(known)
        BY <1>5, <4>1
      <4>3. CASE b = Len(known')
        BY <1>3, <1>5, <4>2, <4>3
      <4>4. CASE b # Len(known')
        <5>1. b \in 1 .. Len(known)
          BY <1>5, <4>4
        <5>2. chain[i] = known[a] /\ chain[j] = known[b]
          BY <1>5, <4>2, <5>1
        <5> QED
          BY <2>1, <4>2, <5>1, <5>2 DEF ChainRight, Follows
      <4> QED
        BY <4>3, <4>4
    <3> QED
      BY <1>5, <2>1, <2>2, <3>1 DEF ChainRight
  <2>4. ASSUME NEW k \in 1 .. Len(known') PROVE Shown(data, known', k - 1) = Shown(data, known, k - 1)
    <3>1. \A j \in 1 .. k - 1 : j \in 1 .. Len(known)
      BY <1>3, <1>5
    <3>2. /\ \A x : x \in Shown(data, known', k - 1) <=> \E j \in 1 .. k - 1 : x \in data[known'[j]]
          /\ \A x : x \in Shown(data, known, k - 1) <=> \E j \in 1 .. k - 1 : x \in data[known[j]]
      BY ShownIs
    <3>3. \A x : x \in Shown(data, known', k - 1) <=> x \in Shown(data, known, k - 1)
      BY <1>5, <3>1, <3>2
    <3> QED
      BY <3>3
  <2>5. ASSUME NEW t \in DOMAIN overlay' \ doomed, NEW k \in 2 .. Len(known'), overlay'[t] = known'[k]
        PROVE  Shown(data, known', k - 1) = snapshots_content[t]
    <3>1. k \in 1 .. Len(known') /\ Len(known') \in 1 .. Len(known')
      BY <1>3, <1>5
    <3>2. CASE t = s
      <4>1. k = Len(known')
        BY <1>5, <1>6, <2>2, <2>5, <3>1, <3>2 DEF NoneTwice
      <4>2. k - 1 = Len(known)
        BY <1>3, <1>5, <4>1
      <4> QED
        BY <1>4, <2>1, <2>4, <3>1, <3>2, <4>2 DEF ProgressRight
    <3>3. CASE t # s
      <4>1. t \in DOMAIN overlay \ doomed /\ overlay'[t] = overlay[t] /\ overlay[t] # s
        BY <1>6, <2>5, <3>3
      <4>2. k \in 1 .. Len(known)
        BY <1>5, <2>5, <3>1, <4>1
      <4>3. k \in 2 .. Len(known)
        BY <1>3, <2>5, <4>2
      <4>4. overlay[t] = known[k]
        BY <1>5, <2>5, <4>1, <4>2
      <4> QED
        BY <2>1, <2>4, <3>1, <4>1, <4>3, <4>4 DEF DataRight
    <3> QED
      BY <3>2, <3>3
  <2>6. DataRight'
    <3>1. /\ Shown(data', chain', Len(chain')) = 0 .. writes' - 1
          /\ \A f \in Qcow : Has(known', f) /\ ~Has(chain', f) => data'[f] \subseteq 0 .. writes' - 1
          /\ \A f \in Qcow : ~Has(known', f) /\ ~Has(chain', f) => data'[f] = {}
      BY <1>5, <2>1, <2>2 DEF DataRight
    <3>2. \A t \in DOMAIN overlay' \ doomed' : \A k \in 2 .. Len(known') :
            overlay'[t] = known'[k] => Shown(data', known', k - 1) = snapshots_content'[t]
      BY <2>5
    <3> QED
      BY <3>1, <3>2 DEF DataRight
  <2> QED
    BY <2>3, <2>6
<1>11. ProgressRight'
  BY <1>2 DEF ProgressRight
<1> QED
  BY <1>7, <1>8, <1>9, <1>10, <1>11 DEF SnapshotsIInv

\* A file that is forgotten was not needed below the others.
LEMMA KeptBelow ==
  ASSUME known \in Seq(Qcow), NoneTwice(known), data \in Writes,
         NEW i \in 2 .. Len(known), data[known[i]] \subseteq data[known[i - 1]],
         data' = [data EXCEPT ![known[i]] = {}], known' = Snapshots!Without(known[i], known),
         NEW k \in 1 .. Len(known), k # i,
         NEW l, l = IF k < i THEN k ELSE k - 1
  PROVE  Shown(data', known', l - 1) = Shown(data, known, k - 1)
BY ForgottenBelow

\* Cinder hears that a file has been merged, and deletes it.
LEMMA HearsOfDelete ==
  ASSUME SnapshotsIInv, phase = "success", Asked("pull") \/ Asked("commit"),
         known' = Snapshots!Without(SourceFile, known),
         overlay' = [t \in DOMAIN overlay \ {Subject} |->
                       IF overlay[t] = SourceFile THEN known[Len(known)] ELSE overlay[t]],
         data' = [data EXCEPT ![SourceFile] = {}], doomed' = doomed \ {Subject},
         UNCHANGED <<chain, snapshots_content, job, snapshots_silent, writes>>, phase' = "idle"
  PROVE  SnapshotsIInv'
<1> DEFINE s == Subject
<1>1. SnapshotsTyped /\ KnownRight /\ RequestRight
  BY DEF SnapshotsIInv
<1>2. /\ known \in Seq(Qcow) /\ Len(known) \in Nat /\ NoneTwice(known) /\ DOMAIN known = 1 .. Len(known)
      /\ data \in Writes /\ ~job /\ \A j \in 1 .. Len(known) : known[j] \in Qcow
  BY <1>1 DEF SnapshotsTyped, KnownRight, RequestRight
<1>3. PICK i \in 1 .. Len(known) - 1 :
        /\ SourceFile = known[i]
        /\ Asked("pull") => i = Len(known) - 1 /\ overlay[s] = known[Len(known)] /\ s \in doomed
        /\ Asked("commit") => i >= 2 /\ overlay[s] = known[i] /\ BaseFile = known[i - 1] /\ s \in doomed
  <2>1. CASE Asked("pull")
    <3>1. PullAsked /\ ~Asked("commit")
      BY <1>1, <2>1 DEF RequestRight, Asked
    <3>2. Len(known) - 1 \in 1 .. Len(known) - 1
      BY <1>2, <3>1 DEF PullAsked
    <3> QED
      BY <3>1, <3>2 DEF PullAsked
  <2>2. CASE Asked("commit")
    <3>1. CommitAsked /\ ~Asked("pull")
      BY <1>1, <2>2 DEF RequestRight, Asked
    <3>2. PICK i \in 2 .. Len(known) - 1 :
            overlay[Subject] = known[i] /\ SourceFile = known[i] /\ BaseFile = known[i - 1]
      BY <3>1 DEF CommitAsked
    <3>3. i \in 1 .. Len(known) - 1 /\ i >= 2
      BY <1>2, <3>2
    <3> QED
      BY <3>1, <3>2, <3>3 DEF CommitAsked
  <2> QED
    BY <2>1, <2>2
<1>4. s = Subject
  OBVIOUS
<1> HIDE DEF s
<1>5. /\ i \in 1 .. Len(known) /\ Len(known) \in 1 .. Len(known) /\ i < Len(known) /\ i \in Int
      /\ Len(known) - 1 >= 1
  <2>1. \A n \in Nat : i \in 1 .. n - 1 => i \in 1 .. n /\ n \in 1 .. n /\ i < n /\ i \in Int /\ n - 1 >= 1
    OBVIOUS
  <2> QED
    BY <1>2, <1>3, <2>1
<1>6. s \in DOMAIN overlay /\ s \in doomed
  BY <1>1, <1>3 DEF SnapshotsTyped
<1>7. /\ known' \in Seq(Qcow) /\ Len(known') = Len(known) - 1 /\ Len(known') > 0
      /\ Sub(known', known) /\ NoneTwice(known') /\ DOMAIN known' = 1 .. Len(known')
      /\ \A k \in 1 .. Len(known) : k < i => known'[k] = known[k]
      /\ \A k \in 1 .. Len(known) : k > i => known'[k - 1] = known[k]
      /\ \A f : Has(known', f) <=> Has(known, f) /\ f # known[i]
  <2> DEFINE w == Snapshots!Without(known[i], known)
  <2>1. /\ w \in Seq(Qcow) /\ Len(w) = Len(known) - 1 /\ Sub(w, known) /\ NoneTwice(w)
        /\ \A k \in 1 .. Len(known) : k < i => w[k] = known[k]
        /\ \A k \in 1 .. Len(known) : k > i => w[k - 1] = known[k]
        /\ \A f : Has(w, f) <=> Has(known, f) /\ f # known[i]
    <3>1. known \in Seq(Qcow) /\ NoneTwice(known) /\ i \in 1 .. Len(known)
      BY <1>2, <1>5
    <3> QED
      BY <3>1, KnownWithout
  <2> HIDE DEF w
  <2>2. known' = w
    BY <1>3 DEF w
  <2>3. Len(w) > 0 /\ DOMAIN w = 1 .. Len(w)
    BY <1>2, <1>5, <2>1
  <2> QED
    BY <2>1, <2>2, <2>3
<1>8. /\ data' \in Writes /\ data'[known[i]] = {} /\ \A f \in Qcow : f # known[i] => data'[f] = data[f]
      /\ data' = [data EXCEPT ![known[i]] = {}]
  BY <1>2, <1>3, <1>5 DEF Writes
<1>9. /\ DOMAIN overlay' = DOMAIN overlay \ {s}
      /\ \A t \in DOMAIN overlay' : overlay'[t] = IF overlay[t] = known[i] THEN known[Len(known)] ELSE overlay[t]
  BY <1>3, <1>4
\* The place, in what is left, of the file made on top of a snapshot.
<1>10. ASSUME NEW t \in DOMAIN overlay'
       PROVE  \E k \in 2 .. Len(known) : \E l \in 2 .. Len(known') :
                /\ overlay[t] = known[k] /\ overlay'[t] = known'[l]
                /\ Asked("pull") => k = l /\ k <= i
                /\ Asked("commit") => k # i /\ l = IF k < i THEN k ELSE k - 1
  <2>1. t \in DOMAIN overlay /\ t # s
    BY <1>9, <1>10
  <2>2. PICK k \in 2 .. Len(known) : overlay[t] = known[k]
    BY <1>1, <2>1 DEF KnownRight
  <2>3. k \in 1 .. Len(known) /\ k \in Int
    BY <1>2, <2>2
  <2>4. overlay[t] # overlay[s]
    BY <1>1, <1>6, <2>1 DEF KnownRight
  <2>5. CASE Asked("pull")
    <3>1. k # Len(known) /\ i = Len(known) - 1 /\ ~Asked("commit")
      BY <1>3, <2>2, <2>4, <2>5 DEF Asked
    <3>2. k <= i /\ k \in 2 .. Len(known')
      <4>1. \A n \in Nat : k \in 2 .. n /\ k # n => k <= n - 1 /\ k \in 2 .. n - 1
        OBVIOUS
      <4> QED
        BY <1>2, <1>7, <2>2, <3>1, <4>1
    <3>3. CASE k = i
      <4>1. overlay'[t] = known[Len(known)]
        BY <1>9, <2>2, <3>3
      <4>2. known'[Len(known) - 1] = known[Len(known)]
        BY <1>5, <1>7
      <4> QED
        BY <2>2, <3>1, <3>2, <3>3, <4>1, <4>2
    <3>4. CASE k # i
      <4>1. k < i
        BY <2>3, <1>5, <3>2, <3>4
      <4>2. known[k] # known[i]
        BY <1>2, <1>5, <2>3, <3>4 DEF NoneTwice
      <4>3. overlay'[t] = known[k] /\ known'[k] = known[k]
        BY <1>7, <1>9, <2>2, <2>3, <4>1, <4>2
      <4> QED
        BY <2>2, <3>1, <3>2, <4>3
    <3> QED
      BY <3>3, <3>4
  <2>6. CASE Asked("commit")
    <3>1. k # i /\ i >= 2 /\ ~Asked("pull") /\ overlay[t] # known[i]
      BY <1>3, <2>2, <2>4, <2>6 DEF Asked
    <3>2. overlay'[t] = known[k]
      BY <1>9, <2>2, <3>1
    <3>3. CASE k < i
      <4>1. k \in 2 .. Len(known') /\ known'[k] = known[k]
        <5>1. \A n \in Nat : k \in 2 .. n /\ k < i /\ i < n => k \in 2 .. n - 1
          BY <1>5
        <5> QED
          BY <1>2, <1>5, <1>7, <2>2, <2>3, <3>3, <5>1
      <4> QED
        BY <2>2, <3>1, <3>2, <3>3, <4>1
    <3>4. CASE ~(k < i)
      <4>1. k > i
        BY <1>5, <2>3, <3>1, <3>4
      <4>2. k - 1 \in 2 .. Len(known') /\ known'[k - 1] = known[k]
        <5>1. \A n \in Nat : k \in 2 .. n /\ k > i /\ i >= 2 => k - 1 \in 2 .. n - 1
          BY <1>5
        <5> QED
          BY <1>2, <1>7, <2>2, <2>3, <3>1, <4>1, <5>1
      <4> QED
        BY <2>2, <3>1, <3>2, <3>4, <4>2
    <3> QED
      BY <3>3, <3>4
  <2> QED
    BY <2>5, <2>6
<1>11. SnapshotsTyped'
  BY <1>1, <1>4, <1>7, <1>8, <1>9 DEF SnapshotsTyped
<1>12. KnownRight'
  <2>1. \A t, u \in DOMAIN overlay' : overlay'[t] = overlay'[u] => t = u
    <3> SUFFICES ASSUME NEW t \in DOMAIN overlay', NEW u \in DOMAIN overlay', overlay'[t] = overlay'[u]
                 PROVE  t = u
      OBVIOUS
    <3>1. t \in DOMAIN overlay /\ u \in DOMAIN overlay /\ t # s /\ u # s
      BY <1>9
    <3>2. overlay[t] # overlay[s] /\ overlay[u] # overlay[s]
      BY <1>1, <1>6, <3>1 DEF KnownRight
    <3>3. overlay[t] = overlay[u]
      <4>1. CASE Asked("pull")
        BY <1>3, <1>9, <3>2, <4>1
      <4>2. CASE Asked("commit")
        BY <1>3, <1>9, <3>2, <4>2
      <4> QED
        BY <4>1, <4>2
    <3> QED
      BY <1>1, <3>1, <3>3 DEF KnownRight
  <2>2. \A t \in DOMAIN overlay' : \E l \in 2 .. Len(known') : overlay'[t] = known'[l]
    BY <1>10
  <2> QED
    BY <1>7, <2>1, <2>2 DEF KnownRight
<1>13. RequestRight'
  BY <1>2 DEF RequestRight, Asked
<1>14. ASSUME ~snapshots_silent PROVE ChainRight' /\ DataRight'
  <2>1. ChainRight /\ DataRight /\ ProgressRight
    BY <1>14 DEF SnapshotsIInv
  <2>2. ~Has(chain, known[i]) /\ (Asked("commit") => data[known[i]] \subseteq data[BaseFile])
    BY <1>3, <2>1 DEF ProgressRight, FileMerged, Asked
  <2>3. /\ Len(chain) \in Nat /\ Len(chain) \in 1 .. Len(chain)
        /\ \A j \in 1 .. Len(chain) : chain[j] \in Qcow /\ chain[j] # known[i]
    <3>1. /\ Len(chain) \in Nat /\ Len(chain) \in 1 .. Len(chain)
          /\ \A j \in 1 .. Len(chain) : chain[j] \in Qcow
      BY <1>1 DEF SnapshotsTyped
    <3> QED
      BY <2>2, <3>1 DEF Has
  <2>4. ChainRight'
    <3>1. \A j \in 1 .. Len(chain) - 1 : Has(known', chain[j])
      <4> SUFFICES ASSUME NEW j \in 1 .. Len(chain) - 1 PROVE Has(known', chain[j])
        OBVIOUS
      <4>1. j \in 1 .. Len(chain)
        BY <2>3
      <4> QED
        BY <1>7, <2>1, <2>3, <4>1 DEF ChainRight
    <3>2. known'[Len(known')] = known[Len(known)]
      BY <1>5, <1>7
    <3>3. Follows(chain, known')
      BY <1>2, <1>7, <2>1, FollowsRight DEF ChainRight
    <3> QED
      BY <1>7, <2>1, <3>1, <3>2, <3>3 DEF ChainRight
  <2>5. Shown(data', chain, Len(chain)) = Shown(data, chain, Len(chain))
    <3>1. /\ \A x : x \in Shown(data', chain, Len(chain)) <=> \E j \in 1 .. Len(chain) : x \in data'[chain[j]]
          /\ \A x : x \in Shown(data, chain, Len(chain)) <=> \E j \in 1 .. Len(chain) : x \in data[chain[j]]
      BY ShownIs
    <3>2. \A j \in 1 .. Len(chain) : data'[chain[j]] = data[chain[j]]
      BY <1>8, <2>3
    <3>3. \A x : x \in Shown(data', chain, Len(chain)) <=> x \in Shown(data, chain, Len(chain))
      BY <3>1, <3>2
    <3> QED
      BY <3>3
  <2>6. ASSUME NEW t \in DOMAIN overlay' \ doomed', NEW m \in 2 .. Len(known'), overlay'[t] = known'[m]
        PROVE  Shown(data', known', m - 1) = snapshots_content[t]
    <3>1. PICK k \in 2 .. Len(known) : \E l \in 2 .. Len(known') :
            /\ overlay[t] = known[k] /\ overlay'[t] = known'[l]
            /\ Asked("pull") => k = l /\ k <= i
            /\ Asked("commit") => k # i /\ l = IF k < i THEN k ELSE k - 1
      BY <1>10, <2>6
    <3>2. PICK l \in 2 .. Len(known') :
            /\ overlay[t] = known[k] /\ overlay'[t] = known'[l]
            /\ Asked("pull") => k = l /\ k <= i
            /\ Asked("commit") => k # i /\ l = IF k < i THEN k ELSE k - 1
      BY <3>1
    <3>3. m = l
      <4>1. m \in DOMAIN known' /\ l \in DOMAIN known'
        BY <1>2, <1>7, <2>6, <3>2
      <4> QED
        BY <1>7, <2>6, <3>2, <4>1 DEF NoneTwice
    <3>4. t \in DOMAIN overlay \ doomed /\ k \in 1 .. Len(known) /\ k \in Int
      BY <1>2, <1>4, <1>9, <2>6, <3>1
    <3>5. Shown(data, known, k - 1) = snapshots_content[t]
      BY <2>1, <3>1, <3>2, <3>4 DEF DataRight
    <3>6. CASE Asked("pull")
      <4>1. k = l /\ k <= i
        BY <3>2, <3>6
      <4>2. \A j \in 1 .. k - 1 : j \in 1 .. Len(known) /\ j < i /\ j # i
        BY <1>2, <1>5, <3>4, <4>1
      <4>3. \A j \in 1 .. k - 1 : data'[known'[j]] = data[known[j]]
        BY <1>2, <1>5, <1>7, <1>8, <4>2 DEF NoneTwice
      <4>4. /\ \A x : x \in Shown(data', known', k - 1) <=> \E j \in 1 .. k - 1 : x \in data'[known'[j]]
            /\ \A x : x \in Shown(data, known, k - 1) <=> \E j \in 1 .. k - 1 : x \in data[known[j]]
        BY ShownIs
      <4>5. \A x : x \in Shown(data', known', k - 1) <=> x \in Shown(data, known, k - 1)
        BY <4>3, <4>4
      <4>6. Shown(data', known', k - 1) = Shown(data, known, k - 1)
        BY <4>5
      <4> QED
        BY <3>3, <3>5, <4>1, <4>6
    <3>7. CASE Asked("commit")
      <4>1. k # i /\ l = (IF k < i THEN k ELSE k - 1) /\ i >= 2 /\ BaseFile = known[i - 1]
        BY <1>3, <3>2, <3>7
      <4>2. i \in 2 .. Len(known) /\ data[known[i]] \subseteq data[known[i - 1]]
        BY <1>2, <1>5, <2>2, <3>7, <4>1
      <4>3. known \in Seq(Qcow) /\ NoneTwice(known) /\ data \in Writes /\ data' = [data EXCEPT ![known[i]] = {}]
        BY <1>2, <1>8
      <4>4. known' = Snapshots!Without(known[i], known)
        BY <1>3
      <4>5. Shown(data', known', l - 1) = Shown(data, known, k - 1)
        BY <3>4, <4>1, <4>2, <4>3, <4>4, KeptBelow
      <4> QED
        BY <3>3, <3>5, <4>5
    <3> QED
      BY <3>6, <3>7
  <2>7. DataRight'
    <3>1. /\ \A f \in Qcow : Has(known', f) /\ ~Has(chain', f) => data'[f] \subseteq 0 .. writes' - 1
          /\ \A f \in Qcow : ~Has(known', f) /\ ~Has(chain', f) => data'[f] = {}
      BY <1>7, <1>8, <2>1 DEF DataRight
    <3>2. \A t \in DOMAIN overlay' \ doomed' : \A m \in 2 .. Len(known') :
            overlay'[t] = known'[m] => Shown(data', known', m - 1) = snapshots_content'[t]
      BY <2>6
    <3> QED
      BY <2>1, <2>5, <3>1, <3>2 DEF DataRight
  <2> QED
    BY <2>4, <2>7
<1>15. ProgressRight'
  BY <1>2 DEF ProgressRight
<1> QED
  BY <1>11, <1>12, <1>13, <1>14, <1>15 DEF SnapshotsIInv

\* and so does the service that hears of the result.
LEMMA UpdateStatusKeeps ==
  ASSUME SnapshotsIInv, Snapshots!VolumeSnapshotUpdateStatus
  PROVE  SnapshotsIInv'
<1>1. /\ UNCHANGED <<chain, snapshots_content, job, snapshots_silent, writes>> /\ phase' = "idle"
      /\ \/ phase = "success" /\ Snapshots!Believes
         \/ phase = "error" /\ UNCHANGED <<data, known, overlay, doomed>>
  BY DEF Snapshots!VolumeSnapshotUpdateStatus, Snapshots!UpdateStatus, Snapshots!cinder
<1>2. SnapshotsTyped /\ RequestRight
  BY DEF SnapshotsIInv
<1>3. CASE phase = "success" /\ snapshots_request.kind = "create" /\ Snapshots!Believes
  <2>1. Asked("create")
    BY <1>3 DEF Asked
  <2>2. /\ known' = Append(known, Subject)
        /\ overlay' = [t \in DOMAIN overlay \union {Subject} |-> IF t = Subject THEN Subject ELSE overlay[t]]
        /\ UNCHANGED <<data, doomed>>
    BY <1>3 DEF Snapshots!Believes, Snapshots!Existing, Subject
  <2> QED
    BY <1>1, <1>3, <2>1, <2>2, HearsOfCreate
<1>4. CASE phase = "success" /\ snapshots_request.kind # "create" /\ Snapshots!Believes
  <2>1. Asked("pull") \/ Asked("commit")
    BY <1>2, <1>4 DEF RequestRight, Asked
  <2>2. /\ known' = Snapshots!Without(SourceFile, known)
        /\ overlay' = [t \in DOMAIN overlay \ {Subject} |->
                         IF overlay[t] = SourceFile THEN known[Len(known)] ELSE overlay[t]]
        /\ data' = [data EXCEPT ![SourceFile] = {}] /\ doomed' = doomed \ {Subject}
    BY <1>4 DEF Snapshots!Believes, Snapshots!Existing, Snapshots!Last, Subject, SourceFile
  <2> QED
    BY <1>1, <1>4, <2>1, <2>2, HearsOfDelete
<1>5. CASE phase = "error" /\ UNCHANGED <<data, known, overlay, doomed>>
  <2>1. ~job
    BY <1>2, <1>5 DEF RequestRight
  <2> QED
    BY <1>1, <1>5, <2>1, AnsweredKeeps
<1> QED
  BY <1>1, <1>3, <1>4, <1>5

\* Every step of the snapshots is one of these.
LEMMA SnapshotsStep ==
  ASSUME SnapshotsIInv, [Snapshots!Next]_(Snapshots!vars)
  PROVE  SnapshotsIInv'
<1>1. CASE \/ UNCHANGED Snapshots!vars
           \/ Snapshots!GuestSwitches
  BY <1>1, SnapshotsIdle DEF Snapshots!vars, Snapshots!cinder, Snapshots!GuestSwitches
<1>2. CASE Snapshots!CinderGivesUp
  BY <1>2, AnsweredKeeps DEF Snapshots!CinderGivesUp, Snapshots!cinder
<1>3. CASE \E s \in Snapshot : Snapshots!AskCreate(s) \/ Snapshots!AskDelete(s)
  BY <1>3, AskCreateKeeps, AskDeleteKeeps
<1>4. CASE Snapshots!GuestWrites \/ Snapshots!VolumeSnapshotCreate \/ Snapshots!VolumeSnapshotDelete
  BY <1>4, GuestWritesKeeps, CreateSnapshotKeeps, DeleteSnapshotKeeps
<1>5. CASE Snapshots!JobEnds \/ Snapshots!WaitForJob \/ Snapshots!VolumeSnapshotUpdateStatus
  BY <1>5, JobEndsKeeps, WaitForJobKeeps, UpdateStatusKeeps
<1> QED
  BY <1>1, <1>2, <1>3, <1>4, <1>5 DEF Snapshots!Next

SnapshotsInv == part = "snapshots" => SnapshotsIInv

\* So the invariant of the snapshots holds in every behaviour of the parts.
LEMMA SnapshotsInvariant == Spec => []SnapshotsInv
<1>1. Init => SnapshotsInv
  BY PartStarts, SnapshotsStart DEF SnapshotsInv
<1>2. SnapshotsInv /\ [Next]_vars => SnapshotsInv'
  BY PartSteps, SnapshotsStep DEF SnapshotsInv
<1> QED
  BY <1>1, <1>2, PTL DEF Spec

\* The invariant implies what the runs ask of the snapshots.
LEMMA SnapshotsHold == SnapshotsIInv => Snapshots!GuestKeepsWrites /\ Snapshots!SnapshotsKept
<1> SUFFICES ASSUME SnapshotsIInv, ~snapshots_silent
             PROVE  /\ Snapshots!View(chain, Len(chain)) = 0 .. writes - 1
                    /\ \A s \in DOMAIN overlay \ doomed :
                         Snapshots!View(known, Snapshots!Position(overlay[s], known) - 1) = snapshots_content[s]
  BY DEF Snapshots!GuestKeepsWrites, Snapshots!SnapshotsKept, Snapshots!Existing
<1>1. SnapshotsTyped /\ KnownRight /\ DataRight
  BY DEF SnapshotsIInv
<1>2. Snapshots!View(chain, Len(chain)) = 0 .. writes - 1
  BY <1>1, ViewIs DEF DataRight
<1>3. ASSUME NEW s \in DOMAIN overlay \ doomed
      PROVE  Snapshots!View(known, Snapshots!Position(overlay[s], known) - 1) = snapshots_content[s]
  <2>1. PICK i \in 2 .. Len(known) : overlay[s] = known[i]
    BY <1>1 DEF KnownRight
  <2>2. i \in DOMAIN known
    BY <1>1, <2>1 DEF SnapshotsTyped
  <2>3. Snapshots!Position(overlay[s], known) = i
    BY <1>1, <2>1, <2>2, PositionIs DEF KnownRight
  <2>4. Shown(data, known, i - 1) = snapshots_content[s]
    BY <1>1, <2>1 DEF DataRight
  <2> QED
    BY <2>3, <2>4, ViewIs
<1> QED
  BY <1>2, <1>3

\* A guest has its volume connected while it uses it and not larger than the
\* device; and, whatever is merged and deleted while it writes on, it reads all
\* it has written and its snapshots read as they were taken.
THEOREM VolumesStayHeld == Spec => []VolumesHold
<1>1. SharedInv /\ SnapshotsInv => VolumesHold
  BY VolumeHolds, SnapshotsHold DEF SharedInv, SnapshotsInv, VolumesHold
<1> QED
  BY <1>1, SharedInvariant, SnapshotsInvariant, PTL

-----------------------------------------------------------------------------
(***************************************************************************)
(* The object of a guest: InstanceObjectProofs has the argument.           *)
(***************************************************************************)
ObjectP == INSTANCE InstanceObjectProofs WITH
  NoHost <- Nowhere, pc <- object_pc, overlap <- object_overlap

\* Both instances have the same formulas.
LEMMA SameObject ==
  /\ Object!Init <=> ObjectP!Init
  /\ [Object!Next]_(Object!vars) <=> [ObjectP!Next]_(ObjectP!vars)
  /\ Object!ObjectKept <=> ObjectP!ObjectKept
  /\ Object!TypeOK <=> ObjectP!TypeOK
  /\ Object!InstanceObjectAssumption <=> ObjectP!InstanceObjectAssumption
BY DEF Object!InstanceObjectAssumption, ObjectP!InstanceObjectAssumption,
  Object!vars, ObjectP!vars, Object!object, ObjectP!object, Object!told, ObjectP!told, Object!Flavor, ObjectP!Flavor, Object!Extra, ObjectP!Extra, Object!Column, ObjectP!Column, Object!Task, ObjectP!Task, Object!Row, ObjectP!Row, Object!BcpcKind, ObjectP!BcpcKind, Object!Kind, ObjectP!Kind, Object!Demands, ObjectP!Demands, Object!Enters, ObjectP!Enters, Object!Init, ObjectP!Init, Object!Goto, ObjectP!Goto, Object!ToSave, ObjectP!ToSave, Object!WhatChanged, ObjectP!WhatChanged, Object!Load, ObjectP!Load, Object!Stopped, ObjectP!Stopped, Object!Refuse, ObjectP!Refuse, Object!CreatedAlone, ObjectP!CreatedAlone, Object!Created, ObjectP!Created, Object!UpdateSystemMetadata, ObjectP!UpdateSystemMetadata, Object!DeleteSystemMetadata, ObjectP!DeleteSystemMetadata, Object!UpdateProperty, ObjectP!UpdateProperty, Object!RegisterDetails, ObjectP!RegisterDetails, Object!Finished, ObjectP!Finished, Object!Enter, ObjectP!Enter, Object!Work, ObjectP!Work, Object!Schedule, ObjectP!Schedule, Object!Doom, ObjectP!Doom, Object!Unconstrained, ObjectP!Unconstrained, Object!HostConstraint, ObjectP!HostConstraint, Object!Destroy, ObjectP!Destroy, Object!Refresh, ObjectP!Refresh, Object!Write, ObjectP!Write, Object!ExtraWithoutOld, ObjectP!ExtraWithoutOld, Object!ExtraUpdates, ObjectP!ExtraUpdates, Object!SaveExtra, ObjectP!SaveExtra, Object!UpdatesAll, ObjectP!UpdatesAll, Object!Updates, ObjectP!Updates, Object!ExpectationOfNothing, ObjectP!ExpectationOfNothing, Object!Expectation, ObjectP!Expectation, Object!Next3, ObjectP!Next3, Object!SaveUpdates, ObjectP!SaveUpdates, Object!Next, ObjectP!Next, Object!Spec, ObjectP!Spec, Object!TypeOK, ObjectP!TypeOK, Object!PropertyKept, ObjectP!PropertyKept, Object!KeysKept, ObjectP!KeysKept, Object!OneOperation, ObjectP!OneOperation, Object!NotLostOnHost, ObjectP!NotLostOnHost, Object!HalfSaved, ObjectP!HalfSaved, Object!WayBack, ObjectP!WayBack, Object!ObjectKept, ObjectP!ObjectKept

ObjectInv == part = "object" => ObjectP!IInv

\* The invariant of the saved object holds in every behaviour of the parts.
LEMMA ObjectInvariant == Spec => []ObjectInv
<1>1. ObjectP!InstanceObjectAssumption
  BY ObjectAssumption, SameObject
<1>2. Init => ObjectInv
  BY <1>1, PartStarts, SameObject, ObjectP!InitHolds DEF ObjectInv
<1>3. ObjectInv /\ [Next]_vars => ObjectInv'
  BY <1>1, PartSteps, SameObject, ObjectP!StepKeepsInvariant DEF ObjectInv
<1> QED
  BY <1>2, <1>3, PTL DEF Spec

\* Whatever requests save copies they loaded earlier, what was acknowledged is
\* kept, one operation works on the guest, and a resized guest has the flavor
\* to go back to.
THEOREM ObjectStaysKept == Spec => []ObjectKept
<1>1. ObjectInv => ObjectKept
  BY ObjectAssumption, SameObject, ObjectP!InvariantSuffices DEF ObjectInv, ObjectKept
<1> QED
  BY <1>1, ObjectInvariant, PTL

-----------------------------------------------------------------------------
(***************************************************************************)
(* The types of all parts.                                                 *)
(***************************************************************************)
\* What the model bounds, and that Cinder waits for something unless it is idle.
SnapshotsBounded ==
  /\ writes \in 0 .. MaxWrites /\ snapshots_faults \in 0 .. SnapshotsFaults
  /\ (phase = "idle") <=> (snapshots_request = <<>>)

\* A request is not the empty sequence.
LEMMA NoEmptyRequest ==
  /\ \A s : [kind |-> "create", snapshot |-> s] # <<>>
  /\ \A k, s, f, b : [kind |-> k, snapshot |-> s, source |-> f, base |-> b] # <<>>
<1>1. DOMAIN <<>> = {}
  OBVIOUS
<1>2. \A s : "kind" \in DOMAIN [kind |-> "create", snapshot |-> s]
  OBVIOUS
<1>3. \A k, s, f, b : "kind" \in DOMAIN [kind |-> k, snapshot |-> s, source |-> f, base |-> b]
  OBVIOUS
<1> QED
  BY <1>1, <1>2, <1>3, Zenon

\* No step exceeds the bounds of the snapshots.
LEMMA SnapshotsBoundedStep ==
  ASSUME SnapshotsBounded, [Snapshots!Next]_(Snapshots!vars)
  PROVE  SnapshotsBounded'
<1> USE SnapshotsAssumption DEF Snapshots!VolumeSnapshotAssumption, SnapshotsBounded, Snapshots!Fault
<1>1. CASE UNCHANGED Snapshots!vars
  BY <1>1 DEF Snapshots!vars
<1>2. CASE Snapshots!GuestWrites
  BY <1>2 DEF Snapshots!GuestWrites
<1>3. CASE Snapshots!GuestSwitches
  BY <1>3 DEF Snapshots!GuestSwitches
<1>4. ASSUME NEW s \in Snapshot, Snapshots!AskCreate(s) PROVE SnapshotsBounded'
  BY <1>4, NoEmptyRequest DEF Snapshots!AskCreate
<1>5. ASSUME NEW s \in Snapshot, Snapshots!AskDelete(s) PROVE SnapshotsBounded'
  BY <1>5, NoEmptyRequest DEF Snapshots!AskDelete
<1>6. CASE Snapshots!VolumeSnapshotCreate
  BY <1>6 DEF Snapshots!VolumeSnapshotCreate, Snapshots!TakeSnapshot
<1>7. CASE Snapshots!VolumeSnapshotDelete
  BY <1>7 DEF Snapshots!VolumeSnapshotDelete, Snapshots!RebaseWithQemuImg
<1>8. CASE Snapshots!JobEnds
  BY <1>8 DEF Snapshots!JobEnds
<1>9. CASE Snapshots!WaitForJob
  BY <1>9 DEF Snapshots!WaitForJob
<1>10. CASE Snapshots!VolumeSnapshotUpdateStatus
  BY <1>10 DEF Snapshots!VolumeSnapshotUpdateStatus
<1>11. CASE Snapshots!CinderGivesUp
  BY <1>11 DEF Snapshots!CinderGivesUp
<1> QED
  BY <1>1, <1>2, <1>3, <1>4, <1>5, <1>6, <1>7, <1>8, <1>9, <1>10, <1>11 DEF Snapshots!Next

BoundedInv == part = "snapshots" => SnapshotsBounded

\* So the bounds hold in every behaviour of the parts.
LEMMA BoundedInvariant == Spec => []BoundedInv
<1>1. Snapshots!Init => SnapshotsBounded
  BY SnapshotsAssumption DEF Snapshots!VolumeSnapshotAssumption, Snapshots!Init, SnapshotsBounded
<1>2. Init => BoundedInv
  BY <1>1, PartStarts DEF BoundedInv
<1>3. BoundedInv /\ [Next]_vars => BoundedInv'
  BY PartSteps, SnapshotsBoundedStep DEF BoundedInv
<1> QED
  BY <1>2, <1>3, PTL DEF Spec

\* The invariant and the bounds imply the types of the snapshots,
LEMMA SnapshotsTypes == SnapshotsIInv /\ SnapshotsBounded => Snapshots!TypeOK
<1> SUFFICES ASSUME SnapshotsIInv, SnapshotsBounded PROVE Snapshots!TypeOK
  OBVIOUS
<1>1. SnapshotsTyped /\ KnownRight
  BY DEF SnapshotsIInv
<1>2. Snapshots!ToSet(chain) \union Snapshots!ToSet(known) \subseteq {"base"} \union Snapshot
  BY <1>1 DEF SnapshotsTyped, Snapshots!ToSet, Qcow
<1>3. \A s \in DOMAIN overlay : overlay[s] \in Snapshots!ToSet(known)
  <2> SUFFICES ASSUME NEW s \in DOMAIN overlay PROVE overlay[s] \in Snapshots!ToSet(known)
    OBVIOUS
  <2>1. PICK i \in 2 .. Len(known) : overlay[s] = known[i]
    BY <1>1 DEF KnownRight
  <2>2. i \in DOMAIN known
    BY <1>1, <2>1 DEF SnapshotsTyped
  <2> QED
    BY <2>1, <2>2 DEF Snapshots!ToSet
<1> QED
  BY <1>1, <1>2, <1>3 DEF SnapshotsTyped, SnapshotsBounded, Snapshots!TypeOK, Snapshots!Existing

\* that of the shared volume implies its types,
LEMMA SharedTypes == SharedIInv => Shared!TypeOK
<1> SUFFICES ASSUME SharedIInv PROVE Shared!TypeOK
  OBVIOUS
<1>1. SharedTyped
  BY DEF SharedIInv
<1>2. shared_size \in 0 .. MaxSize
  BY <1>1, SharedAssumption DEF SharedTyped, Shared!SharedVolumeAssumption
<1> QED
  BY <1>1, <1>2 DEF SharedTyped, Operation, Pcs, Shared!TypeOK

\* and that of the devices theirs.
LEMMA MemoryTypes == MemoryIInv => Memory!TypeOK
<1> SUFFICES ASSUME MemoryIInv PROVE Memory!TypeOK
  OBVIOUS
<1>1. MemoryTyped
  BY DEF MemoryIInv
<1>2. \A h \in Host : offered[h] \subseteq STRING \X Name /\ memory_content[h] \in [Name -> Guest \union {None}]
  BY <1>1 DEF MemoryTyped, Resource
<1>3. \A g \in Guest : \A r \in resources[g] : r[2] \in Name
  BY <1>1 DEF MemoryTyped, Resource
<1> QED
  BY <1>1, <1>2, <1>3 DEF MemoryTyped, OnTheMove, Memory!TypeOK

\* Every variable of the part that was chosen keeps its type (of all the
\* handlers of the parts of the services).
THEOREM TypesStayRight == Spec => []TypeOK
<1>1. ObjectInv => (part = "object" => Object!TypeOK)
  BY SameObject DEF ObjectInv, ObjectP!IInv
<1>2. /\ StatusInv => (part = "status" => Status!TypeOK)
      /\ NetworkInv => (part = "network" => Network!TypeOK)
      /\ ScheduleInv => (part = "schedule" => Schedule!TypeOK)
      /\ LightosInv => (part = "lightos" => Lightos!TypeOK)
  BY DEF StatusInv, StatusIInv, StatusTyped, NetworkInv, NetworkIInv, ScheduleInv, ScheduleIInv,
    LightosInv, LightosIInv, LightosTyped
<1>3. /\ MemoryInv => (part = "memory" => Memory!TypeOK)
      /\ SharedInv => (part = "shared" => Shared!TypeOK)
      /\ SnapshotsInv /\ BoundedInv => (part = "snapshots" => Snapshots!TypeOK)
  BY MemoryTypes, SharedTypes, SnapshotsTypes DEF MemoryInv, SharedInv, SnapshotsInv, BoundedInv
<1>4. /\ ObjectInv /\ StatusInv /\ NetworkInv /\ ScheduleInv /\ LightosInv /\ MemoryInv /\ SharedInv
      /\ SnapshotsInv /\ BoundedInv
      => TypeOK
  BY <1>1, <1>2, <1>3 DEF TypeOK
<1> QED
  BY <1>4, ObjectInvariant, StatusInvariant, NetworkInvariant, ScheduleInvariant, LightosInvariant,
    MemoryInvariant, SharedInvariant, SnapshotsInvariant, BoundedInvariant, PTL
=============================================================================
