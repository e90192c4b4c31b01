---------------------------- MODULE DeviceDetach ----------------------------
(***************************************************************************)
(* Attaching a volume or an interface to a guest and detaching it, by      *)
(* Nova's libvirt driver.  A live detach is a request that the guest       *)
(* answers when it likes; the answer is an event that another thread hands *)
(* to whoever waits for it.  Calls time out and are repeated, events come  *)
(* late, the guest shuts itself off, and a second thread may destroy it.   *)
(***************************************************************************)
EXTENDS Naturals, Sequences

CONSTANTS
  MaxAttempts, \* device_detach_attempts
  MaxCalls,    \* bound: calls to attach or detach
  MaxFaults    \* bound: failures of libvirt, of the guest or of the database

ASSUME DeviceDetachAssumption ==
  MaxAttempts \in Nat \ {0} /\ MaxCalls \in Nat /\ MaxFaults \in Nat

VARIABLES
  kind,      \* volume or interface
  device,    \* the device in the live and in the persistent domain
  host,      \* the volume is connected, the interface plugged
  power,     \* the guest
  unplug,    \* QEMU works on a request to unplug
  events,    \* libvirt's events that have not been dispatched
  waiter,    \* the caller's entry in AsyncDeviceEventsHandler._waiters
  answer,    \* its result
  woken,     \* its threading_event
  asked,     \* the request of this attempt has been made, and not waited for
  pc, failing, attempt, outcome, destroyer, calls, faults

qemu == <<device, power, unplug>>
handler == <<waiter, answer, woken>>
caller == <<pc, failing, attempt, outcome>>
vars == <<kind, host, qemu, events, handler, asked, caller, destroyer, calls, faults>>

TypeOK ==
  /\ kind \in {"volume", "interface"}
  /\ device \in [live : BOOLEAN, persistent : BOOLEAN]
  /\ power \in {"running", "shutdown", "gone"}
  /\ host \in BOOLEAN /\ unplug \in BOOLEAN /\ woken \in BOOLEAN
  /\ asked \in BOOLEAN /\ failing \in BOOLEAN
  /\ events \in Seq({"removed", "failed"})
  /\ waiter \in {"none", "registered", "deleted"}
  /\ answer \in {"none", "removed", "failed"}
  /\ pc \in {"idle", "attach", "save", "undo", "look", "persistent", "create",
             "request", "wait", "check", "release"}
  /\ attempt \in 1 .. MaxAttempts
  /\ outcome \in {"none", "attached", "detached", "failed"}
  /\ destroyer \in {"no", "off", "unblocked", "done"}
  /\ calls \in 0 .. MaxCalls /\ faults \in 0 .. MaxFaults

Init ==
  /\ kind \in {"volume", "interface"}
  /\ device = [live |-> TRUE, persistent |-> TRUE] /\ host = TRUE
  /\ power = "running" /\ unplug = FALSE /\ events = <<>>
  /\ waiter = "none" /\ answer = "none" /\ woken = FALSE /\ asked = FALSE
  /\ pc = "idle" /\ failing = FALSE /\ attempt = 1 /\ outcome = "none"
  /\ destroyer = "no" /\ calls = 0 /\ faults = 0

Fault == faults < MaxFaults /\ faults' = faults + 1
Call == pc = "idle" /\ calls < MaxCalls /\ calls' = calls + 1
Nowhere == [live |-> FALSE, persistent |-> FALSE]
InGuest == device.live /\ power = "running"

Goto(step) == pc' = step /\ UNCHANGED <<failing, attempt, outcome>>
Return(result) == pc' = "idle" /\ outcome' = result /\ UNCHANGED <<failing, attempt>>

\* Mutant: detach_volume releases in a finally, too.
RaiseAndRelease == pc' = "release" /\ failing' = TRUE /\ UNCHANGED <<attempt, outcome>>

\* An error leaves detach_volume at once, detach_interface through its finally.
Raise ==
  IF kind = "volume" THEN Return("failed")
  ELSE pc' = "release" /\ failing' = TRUE /\ UNCHANGED <<attempt, outcome>>

-----------------------------------------------------------------------------
(***************************************************************************)
(* attach_volume and attach_interface.                                     *)
(***************************************************************************)

Attach ==
  /\ Call /\ power # "gone" /\ device = Nowhere /\ ~host
  /\ host' = TRUE
  /\ pc' = "attach" /\ failing' = FALSE /\ outcome' = "none" /\ UNCHANGED attempt
  /\ UNCHANGED <<kind, qemu, events, handler, asked, destroyer, faults>>

AttachDevice ==
  /\ pc = "attach"
  /\ \/ /\ power # "gone"
        /\ device' = [live |-> power = "running", persistent |-> TRUE]
        /\ Goto("save")
        /\ UNCHANGED faults
     \/ /\ power = "gone" /\ UNCHANGED <<device, faults>> /\ Goto("undo")
     \/ /\ Fault /\ UNCHANGED device /\ Goto("undo")
  /\ UNCHANGED <<kind, host, power, unplug, events, handler, asked, destroyer, calls>>

\* A failure to save disconnects the volume, but detaches the interface.
SaveMetadata ==
  /\ pc = "save"
  /\ \/ Return("attached") /\ UNCHANGED faults
     \/ /\ Fault
        /\ IF kind = "volume" THEN Goto("undo")
           ELSE pc' = "look" /\ failing' = TRUE /\ UNCHANGED <<attempt, outcome>>
  /\ UNCHANGED <<kind, host, qemu, events, handler, asked, destroyer, calls>>

UndoAttach ==
  /\ pc = "undo"
  /\ host' = FALSE
  /\ Return("failed")
  /\ UNCHANGED <<kind, qemu, events, handler, asked, destroyer, calls, faults>>

-----------------------------------------------------------------------------
(***************************************************************************)
(* detach_volume and detach_interface.                                     *)
(***************************************************************************)

Detach ==
  /\ Call
  /\ pc' = "look" /\ failing' = FALSE /\ attempt' = 1 /\ outcome' = "none"
  /\ UNCHANGED <<kind, host, qemu, events, handler, asked, destroyer, faults>>

\* A guest that is gone is an error for an interface, and none for a volume.
\* A device that neither domain has is only released.
Look ==
  /\ pc = "look"
  /\ IF power = "gone" /\ kind = "interface" THEN Return("failed")
     ELSE /\ attempt' = 1
          /\ pc' = IF device.persistent THEN "persistent"
                   ELSE IF InGuest THEN "create" ELSE "release"
          /\ UNCHANGED <<failing, outcome>>
  /\ UNCHANGED <<kind, host, qemu, events, handler, asked, destroyer, calls, faults>>

\* Mutant: the persistent domain is left alone when there is a live one.
DetachPersistentOnlyOff ==
  /\ pc = "persistent"
  /\ device' = IF InGuest THEN device ELSE [device EXCEPT !.persistent = FALSE]
  /\ Goto(IF InGuest THEN "create" ELSE "release")
  /\ UNCHANGED <<kind, host, power, unplug, events, handler, asked, destroyer, calls, faults>>

\* The live device was looked up before: the live detach follows even if the
\* guest has shut off meanwhile.
DetachPersistent ==
  /\ pc = "persistent"
  /\ \/ /\ device' = [device EXCEPT !.persistent = FALSE]
        /\ \/ InGuest /\ Goto("create")
           \/ ~InGuest /\ \E step \in {"create", "release"} : Goto(step)
        /\ UNCHANGED faults
     \/ Fault /\ Raise /\ UNCHANGED device
  /\ UNCHANGED <<kind, host, power, unplug, events, handler, asked, destroyer, calls>>

\* Mutant: the request goes out before the waiter is there.
CreateWaiterLate ==
  /\ pc = "create"
  /\ unplug' = InGuest /\ asked' = InGuest
  /\ Goto("request")
  /\ UNCHANGED <<kind, host, device, power, events, handler, destroyer, calls, faults>>

CreateWaiter ==
  /\ pc = "create"
  /\ waiter' = "registered" /\ answer' = "none" /\ woken' = FALSE
  /\ Goto("request")
  /\ UNCHANGED <<kind, host, qemu, events, asked, destroyer, calls, faults>>

\* Mutant: after a synchronous error the waiter stays.
DeleteWaiterForgets == UNCHANGED waiter

DeleteWaiter == waiter' = IF waiter = "registered" THEN "none" ELSE waiter

\* _detach_sync on the live domain: a request QEMU already works on, or a
\* guest that is gone, are no errors.  A waiter that destroy has deleted cannot
\* be deleted again: that is an error of its own.
Request ==
  /\ pc = "request"
  /\ \/ /\ InGuest \/ power = "gone"
        /\ unplug' = (unplug \/ InGuest)
        /\ asked' = InGuest
        /\ Goto("wait")
        /\ UNCHANGED <<waiter, faults>>
     \/ /\ power = "running" /\ ~device.live
        /\ DeleteWaiter
        /\ IF waiter = "deleted" THEN Raise ELSE Goto("release")
        /\ UNCHANGED <<unplug, asked, faults>>
     \/ /\ (power = "shutdown" /\ UNCHANGED faults) \/ Fault
        /\ DeleteWaiter /\ Raise
        /\ UNCHANGED <<unplug, asked>>
  /\ UNCHANGED <<kind, host, device, power, events, answer, woken, destroyer, calls>>

\* Mutant: the wait has no timeout.
WaitForever ==
  /\ pc = "wait" /\ woken
  /\ waiter' = IF waiter = "registered" THEN "none" ELSE waiter
  /\ asked' = FALSE
  /\ IF waiter = "deleted" \/ answer = "failed" THEN Raise ELSE Goto("check")
  /\ UNCHANGED <<kind, host, qemu, events, answer, woken, destroyer, calls, faults>>

\* wait: the entry is deleted, woken or timed out.  After cleanup_waiters
\* there is none to delete, and the call ends in a KeyError.
Wait ==
  /\ pc = "wait"
  /\ waiter' = IF waiter = "registered" THEN "none" ELSE waiter
  /\ asked' = FALSE
  /\ IF waiter = "deleted" \/ answer = "failed" THEN Raise ELSE Goto("check")
  /\ UNCHANGED <<kind, host, qemu, events, answer, woken, destroyer, calls, faults>>

\* Mutant: one attempt too many.
CheckOnceMore ==
  /\ pc = "check"
  /\ IF ~InGuest THEN Goto("release")
     ELSE IF attempt > MaxAttempts THEN Raise
     ELSE pc' = "create" /\ attempt' = attempt + 1 /\ UNCHANGED <<failing, outcome>>
  /\ UNCHANGED <<kind, host, qemu, events, handler, asked, destroyer, calls, faults>>

Check ==
  /\ pc = "check"
  /\ IF ~InGuest THEN Goto("release")
     ELSE IF attempt = MaxAttempts THEN Raise
     ELSE pc' = "create" /\ attempt' = attempt + 1 /\ UNCHANGED <<failing, outcome>>
  /\ UNCHANGED <<kind, host, qemu, events, handler, asked, destroyer, calls, faults>>

Release ==
  /\ pc = "release"
  /\ host' = FALSE
  /\ Return(IF failing THEN "failed" ELSE "detached")
  /\ UNCHANGED <<kind, qemu, events, handler, asked, destroyer, calls, faults>>

-----------------------------------------------------------------------------
(***************************************************************************)
(* The guest, libvirt's events, and destroy in another thread.             *)
(***************************************************************************)

GuestUnplugs ==
  /\ unplug
  /\ device' = [device EXCEPT !.live = FALSE] /\ unplug' = FALSE
  /\ events' = Append(events, "removed")
  /\ UNCHANGED <<kind, host, power, handler, asked, caller, destroyer, calls, faults>>

UnplugFails ==
  /\ unplug /\ Fault
  /\ unplug' = FALSE
  /\ events' = Append(events, "failed")
  /\ UNCHANGED <<kind, host, device, power, handler, asked, caller, destroyer, calls>>

GuestShutsOff ==
  /\ power = "running" /\ Fault
  /\ power' = "shutdown"
  /\ device' = [device EXCEPT !.live = FALSE] /\ unplug' = FALSE
  /\ UNCHANGED <<kind, host, events, handler, asked, caller, destroyer, calls>>

\* notify_waiters.
Notify ==
  /\ UNCHANGED waiter
  /\ IF waiter = "registered" THEN answer' = Head(events) /\ woken' = TRUE
     ELSE UNCHANGED <<answer, woken>>

EmitEvent ==
  /\ events # <<>>
  /\ events' = Tail(events)
  /\ Notify
  /\ UNCHANGED <<kind, host, qemu, asked, caller, destroyer, calls, faults>>

PowerOff ==
  /\ destroyer = "no"
  /\ destroyer' = "off"
  /\ power' = "gone" /\ device' = Nowhere /\ unplug' = FALSE
  /\ UNCHANGED <<kind, host, events, handler, asked, caller, calls, faults>>

CleanupWaiters ==
  /\ destroyer = "off"
  /\ destroyer' = "unblocked"
  /\ IF waiter = "registered" THEN waiter' = "deleted" /\ woken' = TRUE
     ELSE UNCHANGED <<waiter, woken>>
  /\ UNCHANGED <<kind, host, qemu, events, answer, asked, caller, calls, faults>>

\* cleanup disconnects the volumes and unplugs the interfaces on record.
Cleanup ==
  /\ destroyer = "unblocked"
  /\ destroyer' = "done"
  /\ host' = FALSE
  /\ UNCHANGED <<kind, qemu, events, handler, asked, caller, calls, faults>>

-----------------------------------------------------------------------------
Driver ==
  \/ AttachDevice \/ SaveMetadata \/ UndoAttach
  \/ Look \/ DetachPersistent \/ CreateWaiter \/ Request \/ Check \/ Release

Destroy == PowerOff \/ CleanupWaiters \/ Cleanup

Next ==
  \/ Attach \/ Detach \/ Driver \/ Wait \/ EmitEvent \/ Destroy
  \/ GuestUnplugs \/ UnplugFails \/ GuestShutsOff

Spec == Init /\ [][Next]_vars

\* The caller's thread goes on, and a wait ends by its timeout at the latest.
\* The guest need never answer, and no one need call or destroy.
FairSpec == Spec /\ WF_vars(Driver) /\ WF_vars(Wait) /\ WF_vars(EmitEvent)

-----------------------------------------------------------------------------
\* A volume is not disconnected from under a guest that has it, however the
\* answers come; only an attach whose metadata cannot be saved does that
\* (driver_22.04.py:2183-2187, 2680-2708).
VolumeDetachedFirst ==
  kind = "volume" /\ host /\ ~host' => ~device.live \/ pc = "undo"

\* An event that comes between the request and the end of the wait reaches
\* the thread that made the request (driver_22.04.py:2536-2566).
EventReachesWaiter ==
  asked /\ Len(events') < Len(events) => woken'

\* Between calls the handler keeps nothing of the caller, and whoever waits
\* on a guest that destroy has cleaned up has been woken
\* (driver_22.04.py:320-393).
HandlerClean ==
  /\ waiter = "registered" => pc \in {"request", "wait"}
  /\ destroyer \in {"unblocked", "done"} /\ pc = "wait" /\ waiter # "registered" => woken

\* When a detach succeeds the device is in neither domain, so no later start
\* brings it back, and the host has released it (driver_22.04.py:2346-2430).
DetachIsComplete ==
  outcome' = "detached" /\ pc = "release" =>
       device = Nowhere /\ ~host' /\ waiter # "registered"

\* Whatever order answers, timeouts and a destroy come in, no detach takes more
\* or less than it reports (driver_22.04.py:2346-2566, 2680-2708).
DetachSafe == [][VolumeDetachedFirst /\ EventReachesWaiter /\ DetachIsComplete]_vars

\* Every call returns, though guest, events and users may never answer
\* (driver_22.04.py:2466-2509).
CallReturns == pc # "idle" ~> pc = "idle"
=============================================================================
