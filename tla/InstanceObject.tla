-------------------------- MODULE InstanceObject --------------------------
(***************************************************************************)
(* The Instance object: every request works on a copy of the database row  *)
(* that it loaded, or that came with its message, and save() writes back   *)
(* what was changed, in two calls: first the columns of instance_extra,    *)
(* then those of the row with the system metadata, which is replaced as a  *)
(* whole.  Requests: the system metadata and property APIs, and the        *)
(* external compute API and manager as far as they use the object.         *)
(***************************************************************************)
EXTENDS Naturals, FiniteSets

CONSTANTS
  Request,  \* bound: requests
  Key       \* keys of system metadata that users set

CONSTANTS Detail, \* key that nova-compute registers
          NoHost

InstanceObjectAssumption == "linux" \notin Request

VARIABLES
  db,      \* the row
  deleted, \* it has been destroyed
  kind, key, pc,
  copy,    \* object of a request
  orig,    \* system metadata it was loaded with
  changed, \* fields that were set on it
  expected,\* task states the next save demands
  os, kept, \* what users were told: operating system type, keys
  overlap, \* a dictionary was saved over a newer one
  local    \* the row was destroyed without a host

vars == <<db, deleted, kind, key, pc, copy, orig, changed, expected, os, kept, overlap, local>>
object == <<copy, orig, changed, expected>>
told == <<os, kept, overlap, local>>

Flavor == {"small", "large"}
Extra == {"cur", "old"}
Column == {"vm", "task", "os", "host"}
Task == {"none", "scheduling", "powering-on", "powering-off", "resize_migrating", "resize_reverting", "deleting"}
Row == [vm : {"building", "active", "stopped", "resized"}, task : Task,
        os : Request \union {"linux"}, host : {NoHost, "host"},
        keys : SUBSET (Key \union {Detail}), cur : Flavor, old : Flavor \union {"none"}]

BcpcKind == {"create", "update_all", "remove", "property"}
Kind == BcpcKind \union {"schedule", "start", "stop", "resize", "revert", "confirm", "destroy", "register"}

\* The vm_state a request demands and the task_state it enters.
Demands == [start |-> "stopped", stop |-> "active", resize |-> "active", revert |-> "resized", confirm |-> "resized"]
Enters == [start |-> "powering-on", stop |-> "powering-off", resize |-> "resize_migrating",
           revert |-> "resize_reverting", confirm |-> "none"]

Init ==
  /\ db \in [vm : {"stopped", "active"}, task : {"none"}, os : {"linux"}, host : {"host"},
             keys : {{}}, cur : {"small"}, old : {"none"}]
       \union [vm : {"building"}, task : {"scheduling"}, os : {"linux"}, host : {NoHost},
             keys : {{}}, cur : {"small"}, old : {"none"}]
  /\ deleted = FALSE
  /\ kind = [r \in Request |-> "idle"] /\ key = [r \in Request |-> Detail] /\ pc = [r \in Request |-> "idle"]
  /\ copy = [r \in Request |-> db] /\ orig = [r \in Request |-> {}]
  /\ changed = [r \in Request |-> {}] /\ expected = [r \in Request |-> {}]
  /\ os = "linux" /\ kept = {} /\ overlap = FALSE /\ local = FALSE

Goto(r, p) == pc' = [pc EXCEPT ![r] = p]
ToSave(r, row, tasks) ==
  /\ copy' = [copy EXCEPT ![r] = row]
  /\ changed' = [changed EXCEPT ![r] = {f \in Column \union Extra : row[f] # copy[r][f]}]
  /\ expected' = [expected EXCEPT ![r] = tasks]
  /\ UNCHANGED orig

\* obj_what_changed: the dictionary is compared with what was loaded.
WhatChanged(r) == changed[r] \union (IF copy[r].keys # orig[r] THEN {"keys"} ELSE {})

\* get_by_uuid
Load(r, k) ==
  /\ pc[r] = "idle" /\ ~deleted
  /\ k = "schedule" => db.task = "scheduling" /\ \A q \in Request : kind[q] # k
  /\ kind' = [kind EXCEPT ![r] = k] /\ Goto(r, "loaded")
  /\ copy' = [copy EXCEPT ![r] = db] /\ orig' = [orig EXCEPT ![r] = db.keys]
  /\ changed' = [changed EXCEPT ![r] = {}] /\ expected' = [expected EXCEPT ![r] = {}]
  /\ \E x \in IF k \in {"create", "update_all", "remove"} THEN Key ELSE {Detail} : key' = [key EXCEPT ![r] = x]
  /\ UNCHANGED <<db, deleted, told>>

\* check_instance_state, on the copy.
Stopped(r) == copy[r].vm = "stopped" /\ copy[r].task = "none"
Refuse(r) == Goto(r, "refused") /\ UNCHANGED <<db, deleted, kind, key, object, told>>

-----------------------------------------------------------------------------
(***************************************************************************)
(* The APIs of this repository, for stopped guests.                        *)
(***************************************************************************)

\* Mutant: the other keys are forgotten.
CreatedAlone(r) == {key[r]}

Created(r) == copy[r].keys \union {key[r]}

UpdateSystemMetadata(r) ==
  /\ pc[r] = "loaded" /\ kind[r] \in {"create", "update_all"}
  /\ IF ~Stopped(r) THEN Refuse(r)
     ELSE /\ ToSave(r, [copy[r] EXCEPT !.keys = IF kind[r] = "create" THEN Created(r) ELSE {key[r]}], Task)
          /\ Goto(r, "extra") /\ UNCHANGED <<db, deleted, kind, key, told>>

\* The key is removed from the database alone, nothing is saved.
DeleteSystemMetadata(r) ==
  /\ pc[r] = "loaded" /\ kind[r] = "remove"
  /\ IF ~Stopped(r) \/ key[r] \notin copy[r].keys THEN Refuse(r)
     ELSE /\ db' = [db EXCEPT !.keys = @ \ {key[r]}]
          /\ kept' = kept \ {key[r]} /\ Goto(r, "done")
          /\ copy' = [copy EXCEPT ![r].keys = @ \ {key[r]}] /\ orig' = [orig EXCEPT ![r] = @ \ {key[r]}]
          /\ UNCHANGED <<deleted, kind, key, changed, expected, os, overlap, local>>

UpdateProperty(r) ==
  /\ pc[r] = "loaded" /\ kind[r] = "property"
  /\ IF ~Stopped(r) THEN Refuse(r)
     ELSE /\ ToSave(r, [copy[r] EXCEPT !.os = r], Task)
          /\ Goto(r, "extra") /\ UNCHANGED <<db, deleted, kind, key, told>>

\* nova-compute, when it starts, whatever the guest's state.
RegisterDetails(r) ==
  /\ pc[r] = "loaded" /\ kind[r] = "register"
  /\ IF Detail \in copy[r].keys \/ copy[r].host = NoHost THEN Refuse(r)
     ELSE /\ ToSave(r, [copy[r] EXCEPT !.keys = @ \union {Detail}], Task)
          /\ Goto(r, "extra") /\ UNCHANGED <<db, deleted, kind, key, told>>

-----------------------------------------------------------------------------
(***************************************************************************)
(* The compute API and manager.                                            *)
(***************************************************************************)

\* What the status of the migration says: there is a resize, and nobody is
\* confirming or reverting it.
Finished ==
  /\ db.old # "none"
  /\ \A q \in Request : kind[q] \in {"confirm", "revert"} => pc[q] \notin {"extra", "save", "cast"}

\* The request enters its task, if the row has none.
Enter(r) ==
  /\ pc[r] = "loaded" /\ kind[r] \in DOMAIN Demands
  /\ kind[r] \in {"confirm", "revert"} => Finished
  /\ IF copy[r].vm # Demands[kind[r]] \/ copy[r].task # "none" THEN Refuse(r)
     ELSE /\ IF kind[r] = "confirm"
             THEN ToSave(r, [copy[r] EXCEPT !.old = "none", !.vm = "active"], {"none"})
             ELSE ToSave(r, [copy[r] EXCEPT !.task = Enters[kind[r]]], {"none"})
          /\ Goto(r, "extra") /\ UNCHANGED <<db, deleted, kind, key, told>>

\* On the compute host, with the object of the message.
Work(r) ==
  /\ pc[r] = "cast" /\ kind[r] \in DOMAIN Demands
  /\ LET c == copy[r]
         row == CASE kind[r] = "start" -> [c EXCEPT !.vm = "active", !.task = "none"]
                  [] kind[r] = "stop" -> [c EXCEPT !.vm = "stopped", !.task = "none"]
                  [] kind[r] = "resize" -> [c EXCEPT !.old = c.cur, !.cur = "large", !.vm = "resized", !.task = "none"]
                  [] OTHER -> [c EXCEPT !.cur = c.old, !.old = "none", !.vm = "active", !.task = "none"]
     IN  ToSave(r, row, {Enters[kind[r]]})
  /\ Goto(r, "extra") /\ UNCHANGED <<db, deleted, kind, key, told>>

Schedule(r) ==
  /\ pc[r] = "loaded" /\ kind[r] = "schedule"
  /\ ToSave(r, [copy[r] EXCEPT !.host = "host", !.vm = "active", !.task = "none"], {"scheduling"})
  /\ Goto(r, "extra") /\ UNCHANGED <<db, deleted, kind, key, told>>

\* Deletion is demanded in any state; a guest without a host is destroyed at
\* once, and others on their host, which the task state tells everybody.
Doom(r) ==
  /\ pc[r] = "loaded" /\ kind[r] = "destroy"
  /\ IF copy[r].host = NoHost
     THEN Goto(r, "destroy") /\ UNCHANGED object
     ELSE ToSave(r, [copy[r] EXCEPT !.task = "deleting"], Task) /\ Goto(r, "extra")
  /\ UNCHANGED <<db, deleted, kind, key, told>>

\* Mutant: no constraint on the host.
Unconstrained(r) == TRUE

\* destroy: if our host is not set, the row's must not be.
HostConstraint(r) == copy[r].host = NoHost => db.host = NoHost

\* A request that finds that the row has a host by now looks again.
Destroy(r) ==
  /\ kind[r] = "destroy" /\ pc[r] \in {"destroy", "cast"}
  /\ IF deleted THEN Refuse(r)
     ELSE IF ~HostConstraint(r) THEN Goto(r, "refresh") /\ UNCHANGED <<db, deleted, kind, key, object, told>>
     ELSE /\ deleted' = TRUE /\ local' = (copy[r].host = NoHost) /\ Goto(r, "done")
          /\ UNCHANGED <<db, kind, key, object, os, kept, overlap>>

\* refresh: every field takes the value of the row, nothing counts as changed.
Refresh(r) ==
  /\ pc[r] = "refresh"
  /\ IF deleted THEN Refuse(r)
     ELSE /\ copy' = [copy EXCEPT ![r] = db] /\ orig' = [orig EXCEPT ![r] = db.keys]
          /\ changed' = [changed EXCEPT ![r] = {}] /\ Goto(r, "loaded")
          /\ UNCHANGED <<db, deleted, kind, key, expected, told>>

-----------------------------------------------------------------------------
(***************************************************************************)
(* save                                                                    *)
(***************************************************************************)

Write(row, from, fields) == [f \in DOMAIN row |-> IF f \in fields THEN from[f] ELSE row[f]]

\* Mutant: the old flavor is not among what is saved.
ExtraWithoutOld(r) == {"cur"}

\* _save_flavor: the flavors make one column.
ExtraUpdates(r) == IF WhatChanged(r) \intersect Extra = {} THEN {} ELSE Extra

\* instance_extra_update_by_uuid
SaveExtra(r) ==
  /\ pc[r] = "extra"
  /\ db' = IF deleted THEN db ELSE Write(db, copy[r], ExtraUpdates(r))
  /\ Goto(r, "save") /\ UNCHANGED <<deleted, kind, key, object, told>>

\* Mutant: all columns.
UpdatesAll(r) == Column \union (WhatChanged(r) \ Extra)

Updates(r) == WhatChanged(r) \ Extra

\* Mutant: nothing is expected.
ExpectationOfNothing(r) == TRUE

Expectation(r) == db.task \in expected[r]

Next3(r) == IF kind[r] \in DOMAIN Demands \union {"destroy"} /\ copy[r].task # "none" THEN "cast" ELSE "done"

\* instance_update_and_get_original; the object is then what the row is.
\* A save of nothing checks nothing.
SaveUpdates(r) ==
  /\ pc[r] = "save"
  /\ IF deleted \/ (Updates(r) # {} /\ ~Expectation(r)) THEN Refuse(r)
     ELSE LET new == Write(db, copy[r], Updates(r))
          IN  /\ db' = new /\ Goto(r, Next3(r))
              /\ copy' = [copy EXCEPT ![r] = new] /\ orig' = [orig EXCEPT ![r] = new.keys]
              /\ changed' = [changed EXCEPT ![r] = {}]
              /\ os' = IF kind[r] = "property" THEN r ELSE os
              /\ kept' = CASE kind[r] = "create" -> kept \union {key[r]}
                           [] kind[r] = "update_all" -> {key[r]}
                           [] OTHER -> kept
              /\ overlap' = (overlap \/ (orig[r] # db.keys /\ kind[r] \in {"create", "update_all", "register"}))
              /\ UNCHANGED <<deleted, kind, key, expected, local>>

Next ==
  \E r \in Request :
    \/ \E k \in Kind : Load(r, k)
    \/ UpdateSystemMetadata(r) \/ DeleteSystemMetadata(r) \/ UpdateProperty(r) \/ RegisterDetails(r)
    \/ Enter(r) \/ Work(r) \/ Schedule(r) \/ Doom(r) \/ Destroy(r) \/ Refresh(r)
    \/ SaveExtra(r) \/ SaveUpdates(r)

Spec == Init /\ [][Next]_vars

-----------------------------------------------------------------------------
TypeOK ==
  /\ db \in Row /\ deleted \in BOOLEAN /\ copy \in [Request -> Row]
  /\ kind \in [Request -> Kind \union {"idle"}] /\ key \in [Request -> Key \union {Detail}]
  /\ pc \in [Request -> {"idle", "loaded", "extra", "save", "cast", "destroy", "refresh", "done", "refused"}]
  /\ changed \in [Request -> SUBSET (Column \union Extra)] /\ expected \in [Request -> SUBSET Task]
  /\ orig \in [Request -> SUBSET (Key \union {Detail})] /\ kept \subseteq Key
  /\ os \in Request \union {"linux"} /\ overlap \in BOOLEAN /\ local \in BOOLEAN

\* A property a user has been told is set stays, whoever saves an older copy
\* of the object: only changed columns are written (instance.py:764-770, 796).
PropertyKept == deleted \/ db.os = os

\* A key of the system metadata that was acknowledged is lost at most to
\* somebody who saved a dictionary loaded before (instance.py:256-290).
KeysKept == overlap \/ deleted \/ kept \subseteq db.keys

\* Two operations never both work on a guest: the second is refused by the
\* row, though its copy shows no task (instance.py:830-833).
OneOperation ==
  \A r, q \in Request :
    r # q /\ pc[r] = "cast" /\ pc[q] = "cast" => "destroy" \in {kind[r], kind[q]}

\* A row that was destroyed as one without a host has none: no host keeps a
\* guest that the cloud has forgotten (instance.py:649-653).
NotLostOnHost == deleted /\ local => db.host = NoHost

\* The request has written the flavors and not the state, whether the save of
\* the state is to come or was refused.
HalfSaved(r) ==
  /\ kind[r] \in {"confirm", "revert"} /\ pc[r] \in {"save", "refused"}
  /\ "old" \in changed[r]

\* A guest that awaits the confirmation of a resize has the flavor to go back
\* to, unless a confirmation or reversal is half saved: flavors are written
\* before the state that announces them, and what older copies of the object
\* say of them is not (instance.py:719-732, 819-821).
WayBack == db.vm = "resized" /\ (\A r \in Request : ~HalfSaved(r)) => db.old # "none"

\* What the object keeps, whatever requests save copies they loaded earlier.
ObjectKept == PropertyKept /\ KeysKept /\ OneOperation /\ NotLostOnHost /\ WayBack
=============================================================================
