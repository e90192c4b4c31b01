----------------------------- MODULE HostStatus -----------------------------
(***************************************************************************)
(* Who takes a compute host out of rotation: the driver, when it loses the *)
(* connection to libvirt, and the operator.  Both write the same service   *)
(* record, the driver from a copy it has read; its own reason has a prefix *)
(* that tells it later that it may enable the host again.  The API, the    *)
(* thread that hands the events of the connection over, and Placement are  *)
(* external.                                                               *)
(***************************************************************************)
EXTENDS Naturals, Sequences

CONSTANTS MaxLosses \* bounds how often the connection is lost

VARIABLES
  record,  \* service: disabled, and the reason
  trait,   \* Placement: COMPUTE_STATUS_DISABLED
  linked,  \* the connection to libvirt is
  losses,  \* of the connection
  events,  \* of the connection, that the driver is to handle
  handler, \* "idle", or where it is
  mounted, \* the mount manager has the host up
  wish,    \* the operator's last
  raced,   \* the operator's last change fell between the handler's read and save
  failed,  \* the record was not read or saved for the last event
  overruled \* the operator enabled the host after its loss had been handled

vars == <<record, trait, linked, losses, events, handler, mounted, wish, raced, failed, overruled>>

Rec(disabled, reason) == [disabled |-> disabled, reason |-> reason]

Init ==
  /\ record = Rec(FALSE, "none") /\ trait = FALSE /\ linked = TRUE /\ losses = 0 /\ events = <<>>
  /\ handler = "idle" /\ mounted = TRUE /\ wish = "enabled" /\ raced = FALSE
  /\ failed = FALSE /\ overruled = FALSE

Lose ==
  /\ linked /\ losses < MaxLosses /\ linked' = FALSE /\ losses' = losses + 1 /\ events' = Append(events, FALSE)
  /\ overruled' = FALSE
  /\ UNCHANGED <<record, trait, handler, mounted, wish, raced, failed>>

Connect ==
  /\ ~linked /\ linked' = TRUE /\ events' = Append(events, TRUE)
  /\ UNCHANGED <<record, trait, losses, handler, mounted, wish, raced, failed, overruled>>

LossIsHandled == ~linked /\ (events = <<>> \/ (Len(events) = 1 /\ handler = "provider"))

Operator(w) ==
  /\ w # wish /\ wish' = w /\ raced' = (handler = "save") /\ overruled' = (w = "enabled" /\ LossIsHandled)
  /\ record' = IF w = "disabled" THEN Rec(TRUE, "maintenance") ELSE Rec(FALSE, "none")
  /\ UNCHANGED <<trait, linked, losses, events, handler, mounted, failed>>

\* The status of the provider after the operator's change, and from time to time.
Sync ==
  /\ trait # record.disabled /\ trait' = record.disabled
  /\ UNCHANGED <<record, linked, losses, events, handler, mounted, wish, raced, failed, overruled>>

Enabled == Head(events)

\* Mutant: the prefix is not looked at.
OverrideAny(r) == TRUE

\* Mutant: a host is enabled only, never disabled.
OverrideDisabled(r) == r.disabled /\ r.reason = "AUTO"

Overridable(r) == ~r.disabled \/ r.reason = "AUTO"

\* Mutant: the prefix is not written.
PlainReason(enabled) == IF enabled THEN "none" ELSE "lost"

Reason(enabled) == IF enabled THEN "none" ELSE "AUTO"

End == handler' = "idle" /\ events' = Tail(events) /\ mounted' = Enabled

\* _set_host_enabled: the record is read.
Handle ==
  /\ handler = "idle" /\ events # <<>>
  /\ IF record.disabled = Enabled /\ Overridable(record)
     THEN handler' = "save" /\ UNCHANGED <<events, mounted, failed>>
     ELSE End /\ failed' = FALSE
  /\ UNCHANGED <<record, trait, linked, losses, wish, raced, overruled>>

\* An exception of the database is logged.
HandleFails ==
  /\ handler \in {"idle", "save"} /\ events # <<>> /\ failed' = TRUE /\ End
  /\ UNCHANGED <<record, trait, linked, losses, wish, raced, overruled>>

Save ==
  /\ handler = "save" /\ record' = Rec(~Enabled, Reason(Enabled)) /\ handler' = "provider"
  /\ UNCHANGED <<trait, linked, losses, events, mounted, wish, raced, failed, overruled>>

\* _update_compute_provider_status, best effort.
Provider(works) ==
  /\ handler = "provider" /\ trait' = (IF works THEN ~Enabled ELSE trait) /\ End /\ failed' = FALSE
  /\ UNCHANGED <<record, linked, losses, wish, raced, overruled>>

Next ==
  \/ Lose \/ Connect \/ Sync \/ \E w \in {"enabled", "disabled"} : Operator(w)
  \/ Handle \/ HandleFails \/ Save \/ \E works \in BOOLEAN : Provider(works)

Spec == Init /\ [][Next]_vars

-----------------------------------------------------------------------------
Records == [disabled : BOOLEAN, reason : {"none", "AUTO", "lost", "maintenance"}]

TypeOK ==
  /\ record \in Records /\ trait \in BOOLEAN /\ mounted \in BOOLEAN
  /\ events \in Seq(BOOLEAN) /\ handler \in {"idle", "save", "provider"}

\* A host that the operator took out of rotation stays out, whatever the
\* connection does before and after; but for a last change that fell between the
\* handler's read and its save (driver_22.04.py:5083-5086, 5099-5114).
OperatorsWish == wish = "disabled" /\ ~raced => record.disabled

\* When the connection is back and its events are handled, a host that the
\* operator wants is in rotation; but for a last change between read and save,
\* and a record that could not be read or saved for the last event
\* (driver_22.04.py:5099-5114).
BackInRotation ==
  wish = "enabled" /\ linked /\ events = <<>> => mounted /\ (raced \/ failed \/ ~record.disabled)

\* When the connection is lost and its events are handled, the host is out of
\* rotation; but for a record that could not be read or saved for the last event,
\* and an operator who enabled the host after that (driver_22.04.py:5093-5114).
OutWhileLost ==
  ~linked /\ events = <<>> => ~mounted /\ (failed \/ overruled \/ record.disabled)
=============================================================================
