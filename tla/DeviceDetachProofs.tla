-------------------------- MODULE DeviceDetachProofs --------------------------
(***************************************************************************)
(* For any number of attempts, calls and faults: attaching and detaching a *)
(* device is type correct, the handler of libvirt's events is clean        *)
(* between calls, and a detach takes neither more nor less than it says.   *)
(***************************************************************************)
EXTENDS DeviceDetach, TLAPS

-----------------------------------------------------------------------------
\* A guest that does not run has no live device, and one that is being
\* destroyed has none at all.
PowerMatches ==
  /\ device.live => power = "running"
  /\ destroyer # "no" => power = "gone" /\ device = Nowhere

\* The handler has an entry of the caller exactly while the caller may wait,
\* unless destroy has deleted it, and then the caller is woken.
WaiterMatches ==
  /\ waiter = "registered" => pc \in {"request", "wait"}
  /\ pc \in {"request", "wait"} => waiter = "registered" \/ (waiter = "deleted" /\ woken)
  /\ asked => pc = "wait"

\* What the caller knows of the device at each of its steps.
CallerKnows ==
  /\ failing => kind = "interface"
  /\ pc # "idle" => outcome = "none"
  /\ pc \in {"create", "request", "wait", "check"} => ~device.persistent
  /\ pc = "release" /\ ~failing => device = Nowhere

\* TypeOK in three parts: counters, flags, and the rest.
Bounded == attempt \in 1 .. MaxAttempts /\ calls \in 0 .. MaxCalls /\ faults \in 0 .. MaxFaults

Flags ==
  /\ host \in BOOLEAN /\ unplug \in BOOLEAN /\ woken \in BOOLEAN
  /\ asked \in BOOLEAN /\ failing \in BOOLEAN

Typed ==
  /\ kind \in {"volume", "interface"}
  /\ device \in [live : BOOLEAN, persistent : BOOLEAN]
  /\ power \in {"running", "shutdown", "gone"}
  /\ events \in Seq({"removed", "failed"})
  /\ waiter \in {"none", "registered", "deleted"}
  /\ answer \in {"none", "removed", "failed"}
  /\ pc \in {"idle", "attach", "save", "undo", "look", "persistent", "create",
             "request", "wait", "check", "release"}
  /\ outcome \in {"none", "attached", "detached", "failed"}
  /\ destroyer \in {"no", "off", "unblocked", "done"}

\* The inductive invariant.
IInv == PowerMatches /\ WaiterMatches /\ CallerKnows

-----------------------------------------------------------------------------
\* A record of two booleans is given by its fields.
LEMMA NowhereFields ==
  /\ Nowhere \in [live : BOOLEAN, persistent : BOOLEAN]
  /\ \A d \in [live : BOOLEAN, persistent : BOOLEAN] :
       d = Nowhere <=> ~d.live /\ ~d.persistent
BY DEF Nowhere

\* A device that leaves one of its two domains is still a device.
LEMMA DeviceFields ==
  \A d \in [live : BOOLEAN, persistent : BOOLEAN] :
    /\ [d EXCEPT !.live = FALSE] \in [live : BOOLEAN, persistent : BOOLEAN]
    /\ [d EXCEPT !.persistent = FALSE] \in [live : BOOLEAN, persistent : BOOLEAN]
OBVIOUS

\* The counters stay within their bounds.
LEMMA CountersBounded == Spec => []Bounded
<1>1. Init => Bounded
  BY DeviceDetachAssumption DEF Init, Bounded
<1>2. Bounded /\ [Next]_vars => Bounded'
  <2> SUFFICES ASSUME Bounded, [Next]_vars PROVE Bounded'
    OBVIOUS
  <2> USE DeviceDetachAssumption
      DEF Bounded, caller, Goto, Return, Raise, Fault, Call
  <2>1. CASE UNCHANGED vars
    BY <2>1 DEF vars
  <2>2. CASE Attach
    BY <2>2 DEF Attach
  <2>3. CASE Detach
    BY <2>3 DEF Detach
  <2>4. CASE AttachDevice
    BY <2>4 DEF AttachDevice
  <2>5. CASE SaveMetadata
    BY <2>5 DEF SaveMetadata
  <2>6. CASE UndoAttach
    BY <2>6 DEF UndoAttach
  <2>7. CASE Look
    BY <2>7 DEF Look
  <2>8. CASE DetachPersistent
    BY <2>8 DEF DetachPersistent
  <2>9. CASE CreateWaiter
    BY <2>9 DEF CreateWaiter
  <2>10. CASE Request
    BY <2>10 DEF Request
  <2>11. CASE Wait
    BY <2>11 DEF Wait
  <2>12. CASE Check
    BY <2>12 DEF Check
  <2>13. CASE Release
    BY <2>13 DEF Release
  <2>14. CASE EmitEvent
    BY <2>14 DEF EmitEvent
  <2>15. CASE GuestUnplugs
    BY <2>15 DEF GuestUnplugs
  <2>16. CASE UnplugFails
    BY <2>16 DEF UnplugFails
  <2>17. CASE GuestShutsOff
    BY <2>17 DEF GuestShutsOff
  <2>18. CASE PowerOff
    BY <2>18 DEF PowerOff
  <2>19. CASE CleanupWaiters
    BY <2>19 DEF CleanupWaiters
  <2>20. CASE Cleanup
    BY <2>20 DEF Cleanup
  <2>21. QED
    BY <2>1, <2>2, <2>3, <2>4, <2>5, <2>6, <2>7, <2>8, <2>9, <2>10, <2>11, <2>12, <2>13, <2>14, <2>15, <2>16, <2>17, <2>18, <2>19, <2>20
    DEF Next, Driver, Destroy
<1>3. QED
  BY <1>1, <1>2, PTL DEF Spec

\* The flags stay Boolean.
LEMMA FlagsInvariant == Spec => []Flags
<1>1. Init => Flags
  BY DEF Init, Flags
<1>2. Flags /\ [Next]_vars => Flags'
  <2> SUFFICES ASSUME Flags, [Next]_vars PROVE Flags'
    OBVIOUS
  <2> USE DEF Flags, qemu, handler, caller, Goto, Return, Raise, Fault, Call, InGuest
  <2>1. CASE UNCHANGED vars
    BY <2>1 DEF vars
  <2>2. CASE Attach
    BY <2>2 DEF Attach
  <2>3. CASE Detach
    BY <2>3 DEF Detach
  <2>4. CASE AttachDevice
    BY <2>4 DEF AttachDevice
  <2>5. CASE SaveMetadata
    BY <2>5 DEF SaveMetadata
  <2>6. CASE UndoAttach
    BY <2>6 DEF UndoAttach
  <2>7. CASE Look
    BY <2>7 DEF Look
  <2>8. CASE DetachPersistent
    BY <2>8 DEF DetachPersistent
  <2>9. CASE CreateWaiter
    BY <2>9 DEF CreateWaiter
  <2>10. CASE Request
    BY <2>10 DEF Request, DeleteWaiter
  <2>11. CASE Wait
    BY <2>11 DEF Wait
  <2>12. CASE Check
    BY <2>12 DEF Check
  <2>13. CASE Release
    BY <2>13 DEF Release
  <2>14. CASE EmitEvent
    BY <2>14 DEF EmitEvent, Notify
  <2>15. CASE GuestUnplugs
    BY <2>15 DEF GuestUnplugs
  <2>16. CASE UnplugFails
    BY <2>16 DEF UnplugFails
  <2>17. CASE GuestShutsOff
    BY <2>17 DEF GuestShutsOff
  <2>18. CASE PowerOff
    BY <2>18 DEF PowerOff
  <2>19. CASE CleanupWaiters
    BY <2>19 DEF CleanupWaiters
  <2>20. CASE Cleanup
    BY <2>20 DEF Cleanup
  <2>21. QED
    BY <2>1, <2>2, <2>3, <2>4, <2>5, <2>6, <2>7, <2>8, <2>9, <2>10, <2>11, <2>12, <2>13, <2>14, <2>15, <2>16, <2>17, <2>18, <2>19, <2>20
    DEF Next, Driver, Destroy
<1>3. QED
  BY <1>1, <1>2, PTL DEF Spec

\* The other variables keep their types.
LEMMA TypedInvariant == Spec => []Typed
<1>1. Init => Typed
  BY NowhereFields DEF Init, Typed
<1>2. Typed /\ [Next]_vars => Typed'
  <2> SUFFICES ASSUME Typed, [Next]_vars PROVE Typed'
    OBVIOUS
  <2> USE NowhereFields
      DEF Typed, qemu, handler, caller, Goto, Return, Raise, Fault, Call, InGuest
  <2>1. CASE UNCHANGED vars
    BY <2>1 DEF vars
  <2>2. CASE Attach
    BY <2>2 DEF Attach
  <2>3. CASE Detach
    BY <2>3 DEF Detach
  <2>4. CASE AttachDevice
    <3>1. device' \in [live : BOOLEAN, persistent : BOOLEAN]
      <4>1. CASE UNCHANGED device
        BY <4>1
      <4>2. CASE device' = [live |-> power = "running", persistent |-> TRUE]
        BY <4>2, (power = "running") \in BOOLEAN
      <4>3. QED
        BY <2>4, <4>1, <4>2 DEF AttachDevice
    <3>2. QED
      BY <2>4, <3>1 DEF AttachDevice
  <2>5. CASE SaveMetadata
    BY <2>5 DEF SaveMetadata
  <2>6. CASE UndoAttach
    BY <2>6 DEF UndoAttach
  <2>7. CASE Look
    BY <2>7 DEF Look
  <2>8. CASE DetachPersistent
    <3>1. device' \in [live : BOOLEAN, persistent : BOOLEAN]
      BY <2>8, DeviceFields DEF DetachPersistent
    <3>2. UNCHANGED <<kind, host, power, unplug, events, handler, asked, destroyer, calls>>
      BY <2>8 DEF DetachPersistent
    <3>3. UNCHANGED faults \/ Fault
      BY <2>8 DEF DetachPersistent
    <3>4. QED
      BY <2>8, <3>1, <3>2, <3>3 DEF DetachPersistent
  <2>9. CASE CreateWaiter
    BY <2>9 DEF CreateWaiter
  <2>10. CASE Request
    BY <2>10 DEF Request, DeleteWaiter
  <2>11. CASE Wait
    BY <2>11 DEF Wait
  <2>12. CASE Check
    BY <2>12 DEF Check
  <2>13. CASE Release
    BY <2>13 DEF Release
  <2>14. CASE EmitEvent
    BY <2>14 DEF EmitEvent, Notify
  <2>15. CASE GuestUnplugs
    <3>1. device' \in [live : BOOLEAN, persistent : BOOLEAN]
      BY <2>15 DEF GuestUnplugs
    <3>2. events' \in Seq({"removed", "failed"})
      BY <2>15 DEF GuestUnplugs
    <3>3. QED
      BY <2>15, <3>1, <3>2 DEF GuestUnplugs
  <2>16. CASE UnplugFails
    BY <2>16 DEF UnplugFails
  <2>17. CASE GuestShutsOff
    <3>1. device' \in [live : BOOLEAN, persistent : BOOLEAN]
      BY <2>17, DeviceFields DEF GuestShutsOff
    <3>2. Fault /\ power' = "shutdown" /\ unplug' = FALSE
      BY <2>17 DEF GuestShutsOff
    <3>3. UNCHANGED <<kind, host, events, handler, asked, caller, destroyer, calls>>
      BY <2>17 DEF GuestShutsOff
    <3>4. QED
      BY <3>1, <3>2, <3>3
  <2>18. CASE PowerOff
    BY <2>18 DEF PowerOff
  <2>19. CASE CleanupWaiters
    BY <2>19 DEF CleanupWaiters
  <2>20. CASE Cleanup
    BY <2>20 DEF Cleanup
  <2>21. QED
    BY <2>1, <2>2, <2>3, <2>4, <2>5, <2>6, <2>7, <2>8, <2>9, <2>10, <2>11, <2>12, <2>13, <2>14, <2>15, <2>16, <2>17, <2>18, <2>19, <2>20
    DEF Next, Driver, Destroy
<1>3. QED
  BY <1>1, <1>2, PTL DEF Spec

\* The steps of the caller keep the invariant.
LEMMA CallerStep ==
  ASSUME Typed, IInv, Attach \/ Detach \/ Driver \/ Wait
  PROVE  IInv'
<1> USE NowhereFields
    DEF Typed, IInv, PowerMatches, WaiterMatches, CallerKnows, InGuest,
        qemu, handler, caller, Goto, Return, Raise
<1>1. CASE Attach
  <2>1. PowerMatches'
    BY <1>1 DEF Attach
  <2>2. WaiterMatches'
    <3>1. ~asked'
      BY <1>1 DEF Attach, Call
    <3>2. waiter' # "registered" /\ pc' = "attach"
      BY <1>1 DEF Attach, Call
    <3>3. QED
      BY <3>1, <3>2 DEF WaiterMatches
  <2>3. CallerKnows'
    BY <1>1 DEF Attach
  <2>4. QED
    BY <2>1, <2>2, <2>3
<1>2. CASE Detach
  <2>1. PowerMatches'
    BY <1>2 DEF Detach
  <2>2. WaiterMatches'
    <3>1. ~asked'
      BY <1>2 DEF Detach, Call
    <3>2. waiter' # "registered" /\ pc' = "look"
      BY <1>2 DEF Detach, Call
    <3>3. QED
      BY <3>1, <3>2 DEF WaiterMatches
  <2>3. CallerKnows'
    BY <1>2 DEF Detach
  <2>4. QED
    BY <2>1, <2>2, <2>3
<1>3. CASE AttachDevice
  <2>1. PowerMatches'
    BY <1>3 DEF AttachDevice
  <2>2. WaiterMatches'
    BY <1>3 DEF AttachDevice
  <2>3. CallerKnows'
    BY <1>3 DEF AttachDevice
  <2>4. QED
    BY <2>1, <2>2, <2>3
<1>4. CASE SaveMetadata
  <2>1. PowerMatches'
    BY <1>4 DEF SaveMetadata
  <2>2. WaiterMatches'
    BY <1>4 DEF SaveMetadata
  <2>3. CallerKnows'
    BY <1>4 DEF SaveMetadata
  <2>4. QED
    BY <2>1, <2>2, <2>3
<1>5. CASE UndoAttach
  <2>1. PowerMatches'
    BY <1>5 DEF UndoAttach
  <2>2. WaiterMatches'
    BY <1>5 DEF UndoAttach
  <2>3. CallerKnows'
    BY <1>5 DEF UndoAttach
  <2>4. QED
    BY <2>1, <2>2, <2>3
<1>6. CASE Look
  <2>1. PowerMatches'
    BY <1>6 DEF Look
  <2>2. WaiterMatches'
    BY <1>6 DEF Look
  <2>3. CallerKnows'
    BY <1>6 DEF Look
  <2>4. QED
    BY <2>1, <2>2, <2>3
<1>7. CASE DetachPersistent
  <2>1. PowerMatches'
    BY <1>7 DEF DetachPersistent
  <2>2. WaiterMatches'
    BY <1>7 DEF DetachPersistent
  <2>3. CallerKnows'
    BY <1>7 DEF DetachPersistent
  <2>4. QED
    BY <2>1, <2>2, <2>3
<1>8. CASE CreateWaiter
  <2>1. PowerMatches'
    BY <1>8 DEF CreateWaiter
  <2>2. WaiterMatches'
    <3>1. ~asked' /\ waiter' = "registered" /\ pc' = "request"
      BY <1>8 DEF CreateWaiter
    <3>2. waiter' = "registered" => pc' \in {"request", "wait"}
      BY <3>1
    <3>3. QED
      BY <3>1, <3>2, Zenon
  <2>3. CallerKnows'
    BY <1>8 DEF CreateWaiter
  <2>4. QED
    BY <2>1, <2>2, <2>3
<1>9. CASE Request
  <2>1. PowerMatches'
    BY <1>9 DEF Request, DeleteWaiter
  <2>2. WaiterMatches'
    BY <1>9 DEF Request, DeleteWaiter
  <2>3. CallerKnows'
    BY <1>9 DEF Request, DeleteWaiter
  <2>4. QED
    BY <2>1, <2>2, <2>3
<1>10. CASE Wait
  <2>1. PowerMatches'
    BY <1>10 DEF Wait
  <2>2. WaiterMatches'
    BY <1>10 DEF Wait
  <2>3. CallerKnows'
    BY <1>10 DEF Wait
  <2>4. QED
    BY <2>1, <2>2, <2>3
<1>11. CASE Check
  <2>1. PowerMatches'
    BY <1>11 DEF Check
  <2>2. WaiterMatches'
    BY <1>11 DEF Check
  <2>3. CallerKnows'
    BY <1>11 DEF Check
  <2>4. QED
    BY <2>1, <2>2, <2>3
<1>12. CASE Release
  <2>1. PowerMatches'
    BY <1>12 DEF Release
  <2>2. WaiterMatches'
    BY <1>12 DEF Release
  <2>3. CallerKnows'
    BY <1>12 DEF Release
  <2>4. QED
    BY <2>1, <2>2, <2>3
<1>13. QED
  BY <1>1, <1>2, <1>3, <1>4, <1>5, <1>6, <1>7, <1>8, <1>9, <1>10, <1>11, <1>12
  DEF Driver, Destroy

\* The steps of the guest, of libvirt's events and of destroy keep it.
LEMMA OtherStep ==
  ASSUME Typed, IInv, EmitEvent \/ Destroy \/ GuestUnplugs \/ UnplugFails \/ GuestShutsOff
  PROVE  IInv'
<1> USE NowhereFields
    DEF Typed, IInv, PowerMatches, WaiterMatches, CallerKnows, qemu, handler, caller
<1>1. CASE EmitEvent
  <2>1. PowerMatches'
    BY <1>1 DEF EmitEvent, Notify
  <2>2. WaiterMatches'
    BY <1>1 DEF EmitEvent, Notify
  <2>3. CallerKnows'
    BY <1>1 DEF EmitEvent, Notify
  <2>4. QED
    BY <2>1, <2>2, <2>3
<1>2. CASE GuestUnplugs
  <2>1. PowerMatches'
    BY <1>2 DEF GuestUnplugs
  <2>2. WaiterMatches'
    BY <1>2 DEF GuestUnplugs
  <2>3. CallerKnows'
    BY <1>2 DEF GuestUnplugs
  <2>4. QED
    BY <2>1, <2>2, <2>3
<1>3. CASE UnplugFails
  <2>1. PowerMatches'
    BY <1>3 DEF UnplugFails
  <2>2. WaiterMatches'
    BY <1>3 DEF UnplugFails
  <2>3. CallerKnows'
    BY <1>3 DEF UnplugFails
  <2>4. QED
    BY <2>1, <2>2, <2>3
<1>4. CASE GuestShutsOff
  <2>1. PowerMatches'
    BY <1>4 DEF GuestShutsOff
  <2>2. WaiterMatches'
    BY <1>4 DEF GuestShutsOff
  <2>3. CallerKnows'
    BY <1>4 DEF GuestShutsOff
  <2>4. QED
    BY <2>1, <2>2, <2>3
<1>5. CASE PowerOff
  <2>1. PowerMatches'
    BY <1>5 DEF PowerOff
  <2>2. WaiterMatches'
    BY <1>5 DEF PowerOff
  <2>3. CallerKnows'
    BY <1>5 DEF PowerOff
  <2>4. QED
    BY <2>1, <2>2, <2>3
<1>6. CASE CleanupWaiters
  <2>1. PowerMatches'
    BY <1>6 DEF CleanupWaiters
  <2>2. WaiterMatches'
    BY <1>6 DEF CleanupWaiters
  <2>3. CallerKnows'
    BY <1>6 DEF CleanupWaiters
  <2>4. QED
    BY <2>1, <2>2, <2>3
<1>7. CASE Cleanup
  <2>1. PowerMatches'
    BY <1>7 DEF Cleanup
  <2>2. WaiterMatches'
    BY <1>7 DEF Cleanup
  <2>3. CallerKnows'
    BY <1>7 DEF Cleanup
  <2>4. QED
    BY <2>1, <2>2, <2>3
<1>8. QED
  BY <1>1, <1>2, <1>3, <1>4, <1>5, <1>6, <1>7
  DEF Driver, Destroy

\* The invariant holds in every behaviour.
LEMMA Invariant == Spec => []IInv
<1>1. Init => IInv
  BY DEF Init, IInv, PowerMatches, WaiterMatches, CallerKnows
<1>2. Typed /\ IInv /\ [Next]_vars => IInv'
  <2>1. CASE UNCHANGED vars
    BY <2>1 DEF vars, qemu, handler, caller, IInv, PowerMatches, WaiterMatches, CallerKnows
  <2>2. QED
    BY <2>1, CallerStep, OtherStep DEF Next
<1>3. QED
  BY <1>1, <1>2, TypedInvariant, PTL DEF Spec

-----------------------------------------------------------------------------
\* Every variable of the attaching and detaching keeps its type.
THEOREM TypeCorrect == Spec => []TypeOK
<1>1. Bounded /\ Flags /\ Typed => TypeOK
  BY DEF Bounded, Flags, Typed, TypeOK
<1>2. QED
  BY <1>1, CountersBounded, FlagsInvariant, TypedInvariant, PTL

\* Between calls the handler keeps nothing of the caller, and whoever waits on
\* a guest that destroy has cleaned up has been woken
\* (driver_22.04.py:320-393).
THEOREM HandlerStaysClean == Spec => []HandlerClean
<1>1. IInv => HandlerClean
  BY DEF IInv, WaiterMatches, HandlerClean
<1>2. QED
  BY <1>1, Invariant, PTL

-----------------------------------------------------------------------------
\* Only three steps take the volume or the interface from the host.
LEMMA HostTaken ==
  ASSUME [Next]_vars, host, ~host'
  PROVE  UndoAttach \/ Release \/ Cleanup
BY DEF Next, vars, Driver, Destroy, Attach, Detach, AttachDevice, SaveMetadata, Look,
       DetachPersistent, CreateWaiter, Request, Wait, Check, EmitEvent, GuestUnplugs,
       UnplugFails, GuestShutsOff, PowerOff, CleanupWaiters

\* A volume is disconnected only when the guest does not have it.
LEMMA DetachedFirst ==
  ASSUME Typed, IInv, [Next]_vars
  PROVE  VolumeDetachedFirst
<1> SUFFICES ASSUME kind = "volume", host, ~host', pc # "undo"
             PROVE  ~device.live
  BY DEF VolumeDetachedFirst
<1>1. CASE Release
  BY <1>1, NowhereFields DEF Release, Typed, IInv, CallerKnows
<1>2. CASE Cleanup
  BY <1>2, NowhereFields DEF Cleanup, Typed, IInv, PowerMatches
<1>3. QED
  BY <1>1, <1>2, HostTaken DEF UndoAttach

\* Only the dispatcher takes an event from the queue.
LEMMA EventTaken ==
  ASSUME Typed, [Next]_vars, Len(events') < Len(events)
  PROVE  EmitEvent
<1>1. UNCHANGED events => FALSE
  BY DEF Typed
<1>2. CASE GuestUnplugs \/ UnplugFails
  <2>1. \E e : events' = Append(events, e)
    BY <1>2 DEF GuestUnplugs, UnplugFails
  <2>2. QED
    BY <2>1 DEF Typed
<1>3. QED
  BY <1>1, <1>2
  DEF Next, vars, Driver, Destroy, Attach, Detach, AttachDevice, SaveMetadata, UndoAttach,
      Look, DetachPersistent, CreateWaiter, Request, Wait, Check, Release, GuestShutsOff,
      PowerOff, CleanupWaiters, Cleanup

\* An event that comes while the caller waits for it wakes the caller.
LEMMA EventWakes ==
  ASSUME Typed, IInv, [Next]_vars
  PROVE  EventReachesWaiter
BY EventTaken DEF EventReachesWaiter, EmitEvent, Notify, Typed, IInv, WaiterMatches

\* A call has its outcome when it returns, and only Release reports a detach.
LEMMA DetachReported ==
  ASSUME IInv, [Next]_vars, pc = "release", outcome' = "detached"
  PROVE  Release /\ ~failing
<1>1. outcome = "none"
  BY DEF IInv, CallerKnows
<1>2. QED
  BY <1>1
  DEF Next, vars, caller, Driver, Destroy, Attach, Detach, Call, AttachDevice, SaveMetadata,
      UndoAttach, Look, DetachPersistent, CreateWaiter, Request, Wait, Check, Release,
      EmitEvent, GuestUnplugs, UnplugFails, GuestShutsOff, PowerOff, CleanupWaiters,
      Cleanup, Return

\* A detach that is reported to have succeeded is complete.
LEMMA DetachCompletes ==
  ASSUME IInv, [Next]_vars
  PROVE  DetachIsComplete
BY DetachReported DEF DetachIsComplete, Release, IInv, WaiterMatches, CallerKnows

\* Whatever order answers, timeouts and a destroy come in, no volume is
\* disconnected from under its guest, no event misses who asked for it, and no
\* detach reports success before it is complete
\* (driver_22.04.py:2346-2566, 2680-2708).
THEOREM DetachStaysSafe == Spec => DetachSafe
<1>1. Typed /\ IInv /\ [Next]_vars =>
        [VolumeDetachedFirst /\ EventReachesWaiter /\ DetachIsComplete]_vars
  BY DetachedFirst, EventWakes, DetachCompletes
<1>2. QED
  BY <1>1, TypedInvariant, Invariant, PTL DEF Spec, DetachSafe
=============================================================================
