------------------------ MODULE InstanceObjectProofs ------------------------
(***************************************************************************)
(* What holds of the Instance object for any number of requests: no user   *)
(* loses what he was told, no two operations work on a guest, and the      *)
(* flavor to go back to is there.  The argument is about the task state of *)
(* the row: a request that works on the guest has put its own there, and   *)
(* every save that would take it away demands another one.                 *)
(***************************************************************************)
EXTENDS InstanceObject, TLAPS

\* Requests that save metadata or a property only, and those whose work is
\* cast to a compute host.
Editing == {"create", "update_all", "property", "register"}
Casting == {"start", "stop", "resize", "revert"}
Ending == {"confirm", "revert"}

Saving(r) == pc[r] \in {"extra", "save"}

\* r has the guest to itself: its task state has been accepted.
Working(r) ==
  /\ kind[r] \in Casting
  /\ pc[r] = "cast" \/ (Saving(r) /\ expected[r] # {"none"})

\* What is set on the object of a request that is about to save.
SavesEdit(r) ==
  /\ expected[r] = Task /\ changed[r] \subseteq {"os"}
  /\ "os" \in changed[r] <=> kind[r] = "property"
  /\ kind[r] = "property" => copy[r].os = r
SavesConfirm(r) ==
  /\ expected[r] = {"none"} /\ changed[r] \subseteq {"vm", "old"} /\ "vm" \in changed[r]
  /\ copy[r].task = "none" /\ copy[r].old = "none" /\ copy[r].vm = "active"
SavesEntry(r) ==
  /\ expected[r] = {"none"} /\ changed[r] = {"task"} /\ copy[r].task = Enters[kind[r]]
SavesWork(r) ==
  /\ expected[r] = {Enters[kind[r]]} /\ copy[r].task = "none" /\ "task" \in changed[r]
  /\ changed[r] \subseteq {"vm", "task", "cur", "old"}
  /\ kind[r] \in {"start", "stop"} =>
       changed[r] \subseteq {"vm", "task"} /\ copy[r].vm \in {"active", "stopped"}
  /\ kind[r] = "resize" => copy[r].old # "none"
  /\ kind[r] = "revert" => "old" \in changed[r] /\ copy[r].vm = "active"
SavesSchedule(r) ==
  /\ expected[r] = {"scheduling"} /\ changed[r] \subseteq {"vm", "task", "host"}
  /\ copy[r].task = "none" /\ copy[r].vm = "active"
SavesDoom(r) ==
  expected[r] = Task /\ changed[r] \subseteq {"task"} /\ copy[r].task = "deleting"

SetsWhatItMeans(r) ==
  Saving(r) =>
    \/ kind[r] \in Editing /\ SavesEdit(r)
    \/ kind[r] = "confirm" /\ SavesConfirm(r)
    \/ kind[r] \in Casting /\ (SavesEntry(r) \/ SavesWork(r))
    \/ kind[r] = "schedule" /\ SavesSchedule(r)
    \/ kind[r] = "destroy" /\ SavesDoom(r)

\* What was cast is the object as it was saved.
CastWithTask(r) ==
  pc[r] = "cast" =>
    kind[r] = "destroy" \/ (kind[r] \in Casting /\ copy[r].task = Enters[kind[r]])

\* The dictionary of an object is the one loaded, but for the request's own key.
KeysOfLoaded(r) ==
  /\ kind[r] \in {"create", "update_all"} => key[r] \in Key
  /\ pc[r] \in {"loaded", "cast"} => copy[r].keys = orig[r]
  /\ Saving(r) =>
       CASE kind[r] = "create" -> copy[r].keys = orig[r] \union {key[r]}
         [] kind[r] = "update_all" -> copy[r].keys = {key[r]}
         [] kind[r] = "register" -> copy[r].keys = orig[r] \union {Detail}
         [] OTHER -> copy[r].keys = orig[r]

\* A request that is not done has not set the property, so it sets it anew.
PropertyNotYet(r) ==
  /\ pc[r] # "done" => db.os # r
  /\ pc[r] = "loaded" => copy[r].os # r

\* Whoever works on the guest has its task state in the row, or the guest is
\* being deleted; so nobody else does.
TaskOfWorker(r) == Working(r) => db.task \in {Enters[kind[r]], "deleting"}

OneWorker == \A r, q \in Request : Working(r) /\ Working(q) => r = q

\* A migration is confirmed or reverted by one request at a time.
Ends(r) == kind[r] \in Ending /\ pc[r] \in {"extra", "save", "cast"}
OneEnding == \A r, q \in Request : Ends(r) /\ Ends(q) => r = q

\* A flavor to go back to, or a confirmation or reversal that took it away.
Half == \E r \in Request : HalfSaved(r)
OldKept == db.old # "none" \/ Half \/ deleted

\* A resize keeps the flavor it leaves before it announces that there is one.
ResizeKeepsOld(r) ==
  kind[r] = "resize" /\ Working(r) =>
    /\ pc[r] = "cast" => copy[r].old = db.old \/ Half
    /\ pc[r] = "extra" /\ "old" \notin changed[r] => OldKept
    /\ pc[r] = "save" => OldKept

\* A reversal has a flavor to go back to, and announces the guest as active.
RevertHasOld(r) ==
  kind[r] = "revert" =>
    /\ Saving(r) /\ ~Working(r) => db.old # "none"
    /\ pc[r] = "cast" => db.old # "none" /\ copy[r].old # "none" /\ copy[r].vm = db.vm
    /\ Saving(r) /\ Working(r) => "vm" \in changed[r] \/ db.vm = "active"

RequestOK(r) ==
  /\ SetsWhatItMeans(r) /\ CastWithTask(r) /\ KeysOfLoaded(r) /\ PropertyNotYet(r)
  /\ TaskOfWorker(r) /\ ResizeKeepsOld(r) /\ RevertHasOld(r)

IInv ==
  /\ TypeOK /\ (\A r \in Request : RequestOK(r)) /\ OneWorker /\ OneEnding
  /\ PropertyKept /\ KeysKept /\ NotLostOnHost /\ WayBack

-----------------------------------------------------------------------------
(***************************************************************************)
(* Operators of the model                                                  *)
(***************************************************************************)

\* The kinds of requests with an operation, and the task states they enter.
LEMMA Operations ==
  /\ DOMAIN Demands = Casting \union {"confirm"}
  /\ \A k \in Casting : Enters[k] \in Task \ {"none", "scheduling", "deleting"}
BY DEF Demands, Enters, Casting, Task

\* A save writes the fields it is given and leaves the others (Instance.save).
LEMMA Written ==
  ASSUME NEW row \in Row, NEW from \in Row, NEW fields
  PROVE  LET new == Write(row, from, fields)
         IN  /\ new \in Row
             /\ new.vm = (IF "vm" \in fields THEN from.vm ELSE row.vm)
             /\ new.task = (IF "task" \in fields THEN from.task ELSE row.task)
             /\ new.os = (IF "os" \in fields THEN from.os ELSE row.os)
             /\ new.host = (IF "host" \in fields THEN from.host ELSE row.host)
             /\ new.keys = (IF "keys" \in fields THEN from.keys ELSE row.keys)
             /\ new.cur = (IF "cur" \in fields THEN from.cur ELSE row.cur)
             /\ new.old = (IF "old" \in fields THEN from.old ELSE row.old)
BY DEF Write, Row

\* Nothing of q is touched.
Same(q) ==
  /\ pc'[q] = pc[q] /\ kind'[q] = kind[q] /\ key'[q] = key[q] /\ copy'[q] = copy[q]
  /\ orig'[q] = orig[q] /\ changed'[q] = changed[q] /\ expected'[q] = expected[q]

\* The variables of requests are functions on the requests.
Functions ==
  /\ pc \in [Request -> {"idle", "loaded", "extra", "save", "cast", "destroy", "refresh", "done", "refused"}]
  /\ kind \in [Request -> Kind \union {"idle"}] /\ key \in [Request -> Key \union {Detail}]
  /\ copy \in [Request -> Row] /\ orig \in [Request -> SUBSET (Key \union {Detail})]
  /\ changed \in [Request -> SUBSET (Column \union Extra)] /\ expected \in [Request -> SUBSET Task]

RowTypes ==
  /\ db \in Row /\ deleted \in BOOLEAN /\ kept \subseteq Key
  /\ os \in Request \union {"linux"} /\ overlap \in BOOLEAN /\ local \in BOOLEAN

\* The type invariant, for the variables of requests and for the row.
LEMMA TypesSplit == TypeOK <=> Functions /\ RowTypes
BY DEF TypeOK, Functions, RowTypes

\* One step is of one request: the others are not touched.
LEMMA OthersSame ==
  ASSUME Functions, NEW r \in Request, NEW q \in Request \ {r},
         \/ \E k \in Kind : Load(r, k)
         \/ UpdateSystemMetadata(r) \/ DeleteSystemMetadata(r) \/ UpdateProperty(r)
         \/ RegisterDetails(r) \/ Enter(r) \/ Work(r) \/ Schedule(r) \/ Doom(r)
         \/ Destroy(r) \/ Refresh(r) \/ SaveExtra(r) \/ SaveUpdates(r)
  PROVE  Same(q)
<1>1. ASSUME Refuse(r) PROVE Same(q)
  BY <1>1 DEF Refuse, Goto, Same, object, Functions
<1>2. ASSUME NEW row, NEW tasks, NEW p, ToSave(r, row, tasks), Goto(r, p), UNCHANGED <<kind, key>> PROVE Same(q)
  BY <1>2 DEF ToSave, Goto, Same, Functions
<1>3. CASE \E k \in Kind : Load(r, k)
  BY <1>3 DEF Load, Goto, Same, Functions
<1>4. CASE UpdateSystemMetadata(r)
  BY <1>4, <1>1, <1>2 DEF UpdateSystemMetadata
<1>5. CASE DeleteSystemMetadata(r)
  <2>1. CASE Refuse(r)
    BY <2>1, <1>1
  <2>2. CASE ~Refuse(r)
    BY <2>2, <1>5 DEF DeleteSystemMetadata, Goto, Same, Functions
  <2> QED BY <2>1, <2>2
<1>6. CASE UpdateProperty(r)
  BY <1>6, <1>1, <1>2 DEF UpdateProperty
<1>7. CASE RegisterDetails(r)
  BY <1>7, <1>1, <1>2 DEF RegisterDetails
<1>8. CASE Enter(r)
  BY <1>8, <1>1, <1>2 DEF Enter
<1>9. CASE Work(r)
  BY <1>9, <1>2 DEF Work
<1>10. CASE Schedule(r)
  BY <1>10, <1>2 DEF Schedule
<1>11. CASE Doom(r)
  <2>1. CASE copy[r].host = NoHost
    BY <2>1, <1>11 DEF Doom, Goto, Same, object, Functions
  <2>2. CASE copy[r].host # NoHost
    BY <2>2, <1>11, <1>2 DEF Doom
  <2> QED BY <2>1, <2>2
<1>12. CASE Destroy(r)
  BY <1>12, <1>1 DEF Destroy, Goto, Same, object, Functions
<1>13. CASE Refresh(r)
  BY <1>13, <1>1 DEF Refresh, Goto, Same, Functions
<1>14. CASE SaveExtra(r)
  BY <1>14 DEF SaveExtra, Goto, Same, object, Functions
<1>15. CASE SaveUpdates(r)
  BY <1>15, <1>1 DEF SaveUpdates, Goto, Same, Functions
<1> QED BY <1>3, <1>4, <1>5, <1>6, <1>7, <1>8, <1>9, <1>10, <1>11, <1>12, <1>13, <1>14, <1>15

\* What ToSave does to the object of its request.
LEMMA ObjectToSave ==
  ASSUME Functions, NEW r \in Request, NEW row \in Row, NEW tasks \in SUBSET Task,
         ToSave(r, row, tasks)
  PROVE  /\ copy'[r] = row /\ expected'[r] = tasks /\ orig'[r] = orig[r]
         /\ changed'[r] \in SUBSET (Column \union Extra)
         /\ "vm" \in changed'[r] <=> row.vm # copy[r].vm
         /\ "task" \in changed'[r] <=> row.task # copy[r].task
         /\ "os" \in changed'[r] <=> row.os # copy[r].os
         /\ "host" \in changed'[r] <=> row.host # copy[r].host
         /\ "cur" \in changed'[r] <=> row.cur # copy[r].cur
         /\ "old" \in changed'[r] <=> row.old # copy[r].old
         /\ copy' \in [Request -> Row] /\ expected' \in [Request -> SUBSET Task]
         /\ orig' \in [Request -> SUBSET (Key \union {Detail})]
         /\ changed' \in [Request -> SUBSET (Column \union Extra)]
<1>1. changed'[r] = {f \in Column \union Extra : row[f] # copy[r][f]}
  BY DEF ToSave, Functions
<1> QED BY <1>1 DEF ToSave, Functions, Column, Extra

\* The objects that the operations save are rows.
LEMMA RowsToSave ==
  ASSUME Functions, NEW r \in Request
  PROVE  /\ copy[r] \in Row
         /\ \A x \in SUBSET (Key \union {Detail}) : [copy[r] EXCEPT !.keys = x] \in Row
         /\ [copy[r] EXCEPT !.os = r] \in Row
         /\ \A t \in Task : [copy[r] EXCEPT !.task = t] \in Row
         /\ [copy[r] EXCEPT !.old = "none", !.vm = "active"] \in Row
         /\ \A v \in {"active", "stopped"} : [copy[r] EXCEPT !.vm = v, !.task = "none"] \in Row
         /\ [copy[r] EXCEPT !.old = copy[r].cur, !.cur = "large", !.vm = "resized", !.task = "none"] \in Row
         /\ copy[r].old # "none" =>
              [copy[r] EXCEPT !.cur = copy[r].old, !.old = "none", !.vm = "active", !.task = "none"] \in Row
         /\ [copy[r] EXCEPT !.host = "host", !.vm = "active", !.task = "none"] \in Row
<1>1. copy[r] \in Row
  BY DEF Functions
<1> USE <1>1 DEF Row, Flavor, Task
<1>2. /\ \A x \in SUBSET (Key \union {Detail}) : [copy[r] EXCEPT !.keys = x] \in Row
      /\ [copy[r] EXCEPT !.os = r] \in Row
      /\ \A t \in Task : [copy[r] EXCEPT !.task = t] \in Row
  OBVIOUS
<1>3. /\ [copy[r] EXCEPT !.old = "none", !.vm = "active"] \in Row
      /\ \A v \in {"active", "stopped"} : [copy[r] EXCEPT !.vm = v, !.task = "none"] \in Row
      /\ [copy[r] EXCEPT !.host = "host", !.vm = "active", !.task = "none"] \in Row
  OBVIOUS
<1>4. [copy[r] EXCEPT !.old = copy[r].cur, !.cur = "large", !.vm = "resized", !.task = "none"] \in Row
  OBVIOUS
<1>5. copy[r].old # "none" =>
        [copy[r] EXCEPT !.cur = copy[r].old, !.old = "none", !.vm = "active", !.task = "none"] \in Row
  OBVIOUS
<1> QED
  BY <1>2, <1>3, <1>4, <1>5

\* Functions stay functions when nothing but the place changes.
LEMMA PlaceTypes ==
  ASSUME Functions, NEW r \in Request,
         NEW p \in {"idle", "loaded", "extra", "save", "cast", "destroy", "refresh", "done", "refused"},
         Goto(r, p)
  PROVE  /\ pc' \in [Request -> {"idle", "loaded", "extra", "save", "cast", "destroy", "refresh", "done", "refused"}]
         /\ pc'[r] = p
BY DEF Goto, Functions

\* An operation that is refused changes its place only.
LEMMA RefuseTypes ==
  ASSUME Functions, NEW r \in Request, Refuse(r)
  PROVE  Functions' /\ pc'[r] = "refused"
<1>1. Goto(r, "refused") /\ UNCHANGED <<kind, key, object>>
  BY DEF Refuse
<1>2. /\ pc' \in [Request -> {"idle", "loaded", "extra", "save", "cast", "destroy", "refresh", "done", "refused"}]
      /\ pc'[r] = "refused"
  BY <1>1, PlaceTypes
<1> QED BY <1>1, <1>2 DEF Functions, object

\* One that goes on to save an object that is a row keeps the types.
LEMMA ToSaveTypes ==
  ASSUME Functions, NEW r \in Request, NEW row \in Row, NEW tasks \in SUBSET Task,
         ToSave(r, row, tasks), Goto(r, "extra"), UNCHANGED <<kind, key>>
  PROVE  Functions' /\ pc'[r] = "extra"
<1>1. /\ copy' \in [Request -> Row] /\ expected' \in [Request -> SUBSET Task]
      /\ orig' \in [Request -> SUBSET (Key \union {Detail})]
      /\ changed' \in [Request -> SUBSET (Column \union Extra)]
  BY ObjectToSave
<1>2. /\ pc' \in [Request -> {"idle", "loaded", "extra", "save", "cast", "destroy", "refresh", "done", "refused"}]
      /\ pc'[r] = "extra"
  BY PlaceTypes
<1> QED BY <1>1, <1>2 DEF Functions

-----------------------------------------------------------------------------
(***************************************************************************)
(* What a step of one request leaves to the others                         *)
(***************************************************************************)

\* The fields of the row that the operations guard.
SameRow == db'.task = db.task /\ db'.os = db.os /\ db'.vm = db.vm /\ db'.old = db.old

\* A half saved request stays one, unless the step is its save.
LEMMA HalfStays ==
  ASSUME NEW r \in Request, \A q \in Request \ {r} : Same(q),
         HalfSaved(r) => HalfSaved(r)', Half
  PROVE  Half'
BY DEF Half, HalfSaved, Same

\* What is said of an object holds on if it is not touched.
LEMMA OtherObject ==
  ASSUME NEW q \in Request, Same(q), RequestOK(q)
  PROVE  /\ Saving(q)' <=> Saving(q)
         /\ Working(q)' <=> Working(q)
         /\ SetsWhatItMeans(q)' /\ CastWithTask(q)' /\ KeysOfLoaded(q)'
<1>1. Saving(q)' <=> Saving(q)
  BY DEF Saving, Same
<1>2. Working(q)' <=> Working(q)
  BY <1>1 DEF Working, Same
<1>3. SetsWhatItMeans(q)'
  BY <1>1 DEF RequestOK, SetsWhatItMeans, SavesEdit, SavesConfirm, SavesEntry, SavesWork, SavesSchedule, SavesDoom, Same
<1>4. CastWithTask(q)'
  BY DEF RequestOK, CastWithTask, Same
<1>5. KeysOfLoaded(q)'
  BY <1>1 DEF RequestOK, KeysOfLoaded, Same
<1> QED BY <1>1, <1>2, <1>3, <1>4, <1>5

\* What is said of a request holds on if neither it nor the row is touched.
LEMMA OtherRequest ==
  ASSUME NEW q \in Request, Same(q), RequestOK(q), SameRow, Half => Half', deleted => deleted'
  PROVE  RequestOK(q)'
<1>1. Saving(q)' <=> Saving(q)
  BY OtherObject
<1>2. Working(q)' <=> Working(q)
  BY OtherObject
<1>3. SetsWhatItMeans(q)' /\ CastWithTask(q)' /\ KeysOfLoaded(q)'
  BY OtherObject
<1>6. PropertyNotYet(q)'
  BY DEF RequestOK, PropertyNotYet, Same, SameRow
<1>7. TaskOfWorker(q)'
  BY <1>2 DEF RequestOK, TaskOfWorker, Same, SameRow
<1>8. ResizeKeepsOld(q)'
  BY <1>2 DEF RequestOK, ResizeKeepsOld, OldKept, Same, SameRow
<1>9. RevertHasOld(q)'
  BY <1>1, <1>2 DEF RequestOK, RevertHasOld, Same, SameRow
<1> QED BY <1>3, <1>6, <1>7, <1>8, <1>9 DEF RequestOK

\* A step that leaves those fields alone keeps the invariant if it keeps what
\* is said of its own request and of the row.
LEMMA QuietStep ==
  ASSUME IInv, NEW r \in Request, \A q \in Request \ {r} : Same(q),
         Functions', RowTypes', SameRow, HalfSaved(r) => HalfSaved(r)', deleted => deleted',
         RequestOK(r)', Working(r)' => Working(r),
         Ends(r)' => Ends(r) \/ \A q \in Request : ~Ends(q),
         PropertyKept', KeysKept', NotLostOnHost'
  PROVE  IInv'
<1>1. Half => Half'
  BY HalfStays
<1>2. ASSUME NEW q \in Request PROVE RequestOK(q)'
  <2>1. CASE q = r
    BY <2>1
  <2>2. CASE q # r
    <3>1. Same(q) /\ RequestOK(q)
      BY <2>2 DEF IInv
    <3> QED BY <3>1, <1>1, OtherRequest
  <2> QED BY <2>1, <2>2
<1>3. ASSUME NEW q \in Request, Working(q)' PROVE Working(q)
  BY <1>3 DEF Working, Saving, Same
<1>4. OneWorker'
  BY <1>3 DEF OneWorker, IInv
<1>5. ASSUME NEW q \in Request \ {r}, Ends(q)' PROVE Ends(q)
  BY <1>5 DEF Ends, Same
<1>6. OneEnding'
  BY <1>5 DEF OneEnding, IInv
<1>7. WayBack'
  BY <1>1 DEF WayBack, IInv, SameRow, Half
<1>8. TypeOK'
  BY TypesSplit, PTL
<1> QED BY <1>2, <1>4, <1>6, <1>7, <1>8 DEF IInv

\* What a step keeps that leaves the row alone.
LEMMA RowAlone ==
  ASSUME IInv, UNCHANGED <<db, deleted, told>>
  PROVE  RowTypes' /\ SameRow /\ (deleted => deleted') /\ PropertyKept' /\ KeysKept' /\ NotLostOnHost'
<1>1. RowTypes /\ PropertyKept /\ KeysKept /\ NotLostOnHost
  BY TypesSplit DEF IInv
<1> QED BY <1>1 DEF told, RowTypes, SameRow, PropertyKept, KeysKept, NotLostOnHost

\* A request that is refused keeps the invariant.
LEMMA RefuseStep ==
  ASSUME IInv, NEW r \in Request, Refuse(r), pc[r] \notin {"done", "refused"},
         \A q \in Request \ {r} : Same(q)
  PROVE  IInv'
<1>1. Functions /\ RequestOK(r)
  BY TypesSplit DEF IInv
<1>2. Functions' /\ pc'[r] = "refused"
  BY <1>1, RefuseTypes
<1>3. UNCHANGED <<db, deleted, told, kind, key, copy, orig, changed, expected>>
  BY DEF Refuse, object
<1>4. RowTypes' /\ SameRow /\ (deleted => deleted') /\ PropertyKept' /\ KeysKept' /\ NotLostOnHost'
  BY <1>3, RowAlone
<1>5. ~Saving(r)' /\ ~Working(r)' /\ ~Ends(r)'
  BY <1>2 DEF Saving, Working, Ends
<1>6. HalfSaved(r) => HalfSaved(r)'
  BY <1>2, <1>3 DEF HalfSaved
<1>7. RequestOK(r)'
  BY <1>1, <1>2, <1>3, <1>5
     DEF RequestOK, SetsWhatItMeans, CastWithTask, KeysOfLoaded, PropertyNotYet, TaskOfWorker,
         ResizeKeepsOld, RevertHasOld
<1> QED BY <1>2, <1>4, <1>5, <1>6, <1>7, QuietStep

\* A request that goes on to save keeps the invariant if what it sets means
\* what it should.
LEMMA ToSaveStep ==
  ASSUME IInv, NEW r \in Request, NEW row \in Row, NEW tasks \in SUBSET Task,
         ToSave(r, row, tasks), Goto(r, "extra"), UNCHANGED <<db, deleted, kind, key, told>>,
         pc[r] \in {"loaded", "cast"}, \A q \in Request \ {r} : Same(q),
         SetsWhatItMeans(r)', KeysOfLoaded(r)', TaskOfWorker(r)', ResizeKeepsOld(r)', RevertHasOld(r)',
         Working(r)' => Working(r),
         Ends(r)' => Ends(r) \/ \A q \in Request : ~Ends(q)
  PROVE  IInv'
<1>1. Functions /\ RequestOK(r)
  BY TypesSplit DEF IInv
<1>2. Functions' /\ pc'[r] = "extra"
  BY <1>1, ToSaveTypes
<1>3. RowTypes' /\ SameRow /\ (deleted => deleted') /\ PropertyKept' /\ KeysKept' /\ NotLostOnHost'
  BY RowAlone
<1>4. ~HalfSaved(r)
  BY DEF HalfSaved
<1>5. RequestOK(r)'
  BY <1>1, <1>2, <1>3 DEF RequestOK, CastWithTask, PropertyNotYet, SameRow
<1> QED BY <1>2, <1>3, <1>4, <1>5, QuietStep

-----------------------------------------------------------------------------
(***************************************************************************)
(* The operations                                                          *)
(***************************************************************************)

\* Loading the object.
LEMMA LoadStep ==
  ASSUME IInv, NEW r \in Request, NEW k \in Kind, Load(r, k)
  PROVE  IInv'
<1>1. Functions /\ RowTypes /\ RequestOK(r)
  BY TypesSplit DEF IInv
<1>2. \A q \in Request \ {r} : Same(q)
  BY <1>1, OthersSame
<1>3. pc'[r] = "loaded" /\ kind'[r] = k /\ copy'[r] = db /\ orig'[r] = db.keys /\ pc[r] = "idle"
  BY <1>1 DEF Load, Goto, Functions
<1>4. db.keys \in SUBSET (Key \union {Detail})
  BY <1>1 DEF RowTypes, Row
<1>5. Functions'
  <2>1. key' \in [Request -> Key \union {Detail}]
    BY <1>1 DEF Load, Functions
  <2> QED BY <1>1, <1>4, <2>1 DEF Load, Goto, Functions, RowTypes
<1>6. RowTypes' /\ SameRow /\ (deleted => deleted') /\ PropertyKept' /\ KeysKept' /\ NotLostOnHost'
  BY RowAlone DEF Load
<1>7. ~Saving(r)' /\ ~Working(r)' /\ ~Ends(r)' /\ ~HalfSaved(r)
  BY <1>3 DEF Saving, Working, Ends, HalfSaved
<1>8. k \in {"create", "update_all"} => key'[r] \in Key
  BY <1>1 DEF Load, Functions
<1>9. RequestOK(r)'
  BY <1>1, <1>3, <1>6, <1>7, <1>8
     DEF RequestOK, SetsWhatItMeans, CastWithTask, KeysOfLoaded, PropertyNotYet, TaskOfWorker,
         ResizeKeepsOld, RevertHasOld, SameRow
<1> QED BY <1>2, <1>5, <1>6, <1>7, <1>9, QuietStep

\* The object is loaded again.
LEMMA RefreshStep ==
  ASSUME IInv, NEW r \in Request, Refresh(r)
  PROVE  IInv'
<1>1. Functions /\ RowTypes /\ RequestOK(r)
  BY TypesSplit DEF IInv
<1>2. \A q \in Request \ {r} : Same(q)
  BY <1>1, OthersSame
<1>3. CASE Refuse(r)
  BY <1>2, <1>3, RefuseStep DEF Refresh
<1>4. CASE ~Refuse(r)
  <2>1. /\ copy' = [copy EXCEPT ![r] = db] /\ orig' = [orig EXCEPT ![r] = db.keys]
        /\ changed' = [changed EXCEPT ![r] = {}] /\ Goto(r, "loaded")
        /\ UNCHANGED <<db, deleted, kind, key, expected, told>> /\ pc[r] = "refresh"
    BY <1>4 DEF Refresh
  <2>2. pc'[r] = "loaded" /\ copy'[r] = db /\ orig'[r] = db.keys
    BY <1>1, <2>1 DEF Goto, Functions
  <2>3. db.keys \in SUBSET (Key \union {Detail})
    BY <1>1 DEF RowTypes, Row
  <2>4. Functions'
    BY <1>1, <2>1, <2>3 DEF Goto, Functions, RowTypes
  <2>5. RowTypes' /\ SameRow /\ (deleted => deleted') /\ PropertyKept' /\ KeysKept' /\ NotLostOnHost'
    BY <2>1, RowAlone
  <2>6. ~Saving(r)' /\ ~Working(r)' /\ ~Ends(r)' /\ ~HalfSaved(r)
    BY <2>1, <2>2 DEF Saving, Working, Ends, HalfSaved
  <2>7. RequestOK(r)'
    BY <1>1, <2>1, <2>2, <2>5, <2>6
       DEF RequestOK, SetsWhatItMeans, CastWithTask, KeysOfLoaded, PropertyNotYet, TaskOfWorker,
           ResizeKeepsOld, RevertHasOld, SameRow
  <2> QED BY <1>2, <2>4, <2>5, <2>6, <2>7, QuietStep
<1> QED BY <1>3, <1>4

\* Keys of the system metadata are created or replaced.
LEMMA UpdateSystemMetadataStep ==
  ASSUME IInv, NEW r \in Request, UpdateSystemMetadata(r)
  PROVE  IInv'
<1>1. Functions /\ RequestOK(r)
  BY TypesSplit DEF IInv
<1>2. \A q \in Request \ {r} : Same(q)
  BY <1>1, OthersSame
<1>3. CASE Refuse(r)
  BY <1>2, <1>3, RefuseStep DEF UpdateSystemMetadata
<1>4. CASE ~Refuse(r)
  <2> DEFINE row == [copy[r] EXCEPT !.keys = IF kind[r] = "create" THEN Created(r) ELSE {key[r]}]
  <2>1. /\ ToSave(r, row, Task) /\ Goto(r, "extra") /\ UNCHANGED <<db, deleted, kind, key, told>>
        /\ pc[r] = "loaded" /\ kind[r] \in {"create", "update_all"}
    BY <1>4 DEF UpdateSystemMetadata
  <2>2. copy[r] \in Row /\ row \in Row
    <3>1. copy[r] \in Row /\ key[r] \in Key \union {Detail}
      BY <1>1 DEF Functions
    <3>2. copy[r].keys \in SUBSET (Key \union {Detail})
      BY <3>1 DEF Row
    <3>3. (IF kind[r] = "create" THEN Created(r) ELSE {key[r]}) \in SUBSET (Key \union {Detail})
      BY <3>1, <3>2 DEF Created
    <3> QED BY <1>1, <3>3, RowsToSave
  <2>3. /\ row.vm = copy[r].vm /\ row.task = copy[r].task /\ row.host = copy[r].host
        /\ row.cur = copy[r].cur /\ row.old = copy[r].old /\ row.os = copy[r].os
        /\ row.keys = (IF kind[r] = "create" THEN copy[r].keys \union {key[r]} ELSE {key[r]})
    BY <2>2 DEF Row, Created
  <2> HIDE DEF row
  <2>4. /\ copy'[r] = row /\ expected'[r] = Task /\ orig'[r] = orig[r]
        /\ changed'[r] \in SUBSET (Column \union Extra)
        /\ "vm" \notin changed'[r] /\ "task" \notin changed'[r] /\ "host" \notin changed'[r]
        /\ "cur" \notin changed'[r] /\ "old" \notin changed'[r]
        /\ "os" \in changed'[r] <=> row.os # copy[r].os
    BY <1>1, <2>1, <2>2, <2>3, ObjectToSave DEF Task
  <2>5. changed'[r] \subseteq {"os"}
    BY <2>4 DEF Column, Extra
  <2>6. pc'[r] = "extra" /\ kind'[r] = kind[r] /\ key'[r] = key[r]
    BY <1>1, <2>1 DEF Goto, Functions
  <2>7. ~Working(r)' /\ ~Ends(r)'
    BY <2>1, <2>6 DEF Working, Ends, Casting, Ending
  <2>8. SetsWhatItMeans(r)'
    BY <1>1, <2>1, <2>3, <2>4, <2>5, <2>6
       DEF SetsWhatItMeans, SavesEdit, Editing, RequestOK, PropertyNotYet
  <2>9. KeysOfLoaded(r)'
    BY <1>1, <2>1, <2>3, <2>4, <2>6 DEF KeysOfLoaded, Saving, RequestOK
  <2>10. TaskOfWorker(r)' /\ ResizeKeepsOld(r)' /\ RevertHasOld(r)'
    BY <2>1, <2>6, <2>7 DEF TaskOfWorker, ResizeKeepsOld, RevertHasOld
  <2> QED BY <1>2, <2>1, <2>2, <2>7, <2>8, <2>9, <2>10, ToSaveStep DEF Task
<1> QED BY <1>3, <1>4

\* The operating system type is set.
LEMMA UpdatePropertyStep ==
  ASSUME IInv, NEW r \in Request, UpdateProperty(r)
  PROVE  IInv'
<1>1. Functions /\ RequestOK(r)
  BY TypesSplit DEF IInv
<1>2. \A q \in Request \ {r} : Same(q)
  BY <1>1, OthersSame
<1>3. CASE Refuse(r)
  BY <1>2, <1>3, RefuseStep DEF UpdateProperty
<1>4. CASE ~Refuse(r)
  <2> DEFINE row == [copy[r] EXCEPT !.os = r]
  <2>1. /\ ToSave(r, row, Task) /\ Goto(r, "extra") /\ UNCHANGED <<db, deleted, kind, key, told>>
        /\ pc[r] = "loaded" /\ kind[r] \in {"property"}
    BY <1>4 DEF UpdateProperty
  <2>2. copy[r] \in Row /\ row \in Row
    BY <1>1, RowsToSave
  <2>3. /\ row.vm = copy[r].vm /\ row.task = copy[r].task /\ row.host = copy[r].host
        /\ row.cur = copy[r].cur /\ row.old = copy[r].old /\ row.os = r /\ row.keys = copy[r].keys
    BY <2>2 DEF Row
  <2> HIDE DEF row
  <2>4. /\ copy'[r] = row /\ expected'[r] = Task /\ orig'[r] = orig[r]
        /\ changed'[r] \in SUBSET (Column \union Extra)
        /\ "vm" \notin changed'[r] /\ "task" \notin changed'[r] /\ "host" \notin changed'[r]
        /\ "cur" \notin changed'[r] /\ "old" \notin changed'[r]
        /\ "os" \in changed'[r] <=> row.os # copy[r].os
    BY <1>1, <2>1, <2>2, <2>3, ObjectToSave DEF Task
  <2>5. changed'[r] \subseteq {"os"}
    BY <2>4 DEF Column, Extra
  <2>6. pc'[r] = "extra" /\ kind'[r] = kind[r] /\ key'[r] = key[r]
    BY <1>1, <2>1 DEF Goto, Functions
  <2>7. ~Working(r)' /\ ~Ends(r)'
    BY <2>1, <2>6 DEF Working, Ends, Casting, Ending
  <2>8. SetsWhatItMeans(r)'
    BY <1>1, <2>1, <2>3, <2>4, <2>5, <2>6
       DEF SetsWhatItMeans, SavesEdit, Editing, RequestOK, PropertyNotYet
  <2>9. KeysOfLoaded(r)'
    BY <1>1, <2>1, <2>3, <2>4, <2>6 DEF KeysOfLoaded, Saving, RequestOK
  <2>10. TaskOfWorker(r)' /\ ResizeKeepsOld(r)' /\ RevertHasOld(r)'
    BY <2>1, <2>6, <2>7 DEF TaskOfWorker, ResizeKeepsOld, RevertHasOld
  <2> QED BY <1>2, <2>1, <2>2, <2>7, <2>8, <2>9, <2>10, ToSaveStep DEF Task
<1> QED BY <1>3, <1>4

\* nova-compute registers the details of the guest.
LEMMA RegisterDetailsStep ==
  ASSUME IInv, NEW r \in Request, RegisterDetails(r)
  PROVE  IInv'
<1>1. Functions /\ RequestOK(r)
  BY TypesSplit DEF IInv
<1>2. \A q \in Request \ {r} : Same(q)
  BY <1>1, OthersSame
<1>3. CASE Refuse(r)
  BY <1>2, <1>3, RefuseStep DEF RegisterDetails
<1>4. CASE ~Refuse(r)
  <2> DEFINE row == [copy[r] EXCEPT !.keys = @ \union {Detail}]
  <2>1. /\ ToSave(r, row, Task) /\ Goto(r, "extra") /\ UNCHANGED <<db, deleted, kind, key, told>>
        /\ pc[r] = "loaded" /\ kind[r] \in {"register"}
    BY <1>4 DEF RegisterDetails
  <2>2. copy[r] \in Row /\ row \in Row
    <3>1. copy[r] \in Row
      BY <1>1 DEF Functions
    <3>2. copy[r].keys \union {Detail} \in SUBSET (Key \union {Detail})
      BY <3>1 DEF Row
    <3> QED BY <1>1, <3>2, RowsToSave
  <2>3. /\ row.vm = copy[r].vm /\ row.task = copy[r].task /\ row.host = copy[r].host
        /\ row.cur = copy[r].cur /\ row.old = copy[r].old /\ row.os = copy[r].os
        /\ row.keys = copy[r].keys \union {Detail}
    BY <2>2 DEF Row
  <2> HIDE DEF row
  <2>4. /\ copy'[r] = row /\ expected'[r] = Task /\ orig'[r] = orig[r]
        /\ changed'[r] \in SUBSET (Column \union Extra)
        /\ "vm" \notin changed'[r] /\ "task" \notin changed'[r] /\ "host" \notin changed'[r]
        /\ "cur" \notin changed'[r] /\ "old" \notin changed'[r]
        /\ "os" \in changed'[r] <=> row.os # copy[r].os
    BY <1>1, <2>1, <2>2, <2>3, ObjectToSave DEF Task
  <2>5. changed'[r] \subseteq {"os"}
    BY <2>4 DEF Column, Extra
  <2>6. pc'[r] = "extra" /\ kind'[r] = kind[r] /\ key'[r] = key[r]
    BY <1>1, <2>1 DEF Goto, Functions
  <2>7. ~Working(r)' /\ ~Ends(r)'
    BY <2>1, <2>6 DEF Working, Ends, Casting, Ending
  <2>8. SetsWhatItMeans(r)'
    BY <1>1, <2>1, <2>3, <2>4, <2>5, <2>6
       DEF SetsWhatItMeans, SavesEdit, Editing, RequestOK, PropertyNotYet
  <2>9. KeysOfLoaded(r)'
    BY <1>1, <2>1, <2>3, <2>4, <2>6 DEF KeysOfLoaded, Saving, RequestOK
  <2>10. TaskOfWorker(r)' /\ ResizeKeepsOld(r)' /\ RevertHasOld(r)'
    BY <2>1, <2>6, <2>7 DEF TaskOfWorker, ResizeKeepsOld, RevertHasOld
  <2> QED BY <1>2, <2>1, <2>2, <2>7, <2>8, <2>9, <2>10, ToSaveStep DEF Task
<1> QED BY <1>3, <1>4

\* A key of the system metadata is removed from the row.
LEMMA DeleteSystemMetadataStep ==
  ASSUME IInv, NEW r \in Request, DeleteSystemMetadata(r)
  PROVE  IInv'
<1>1. Functions /\ RowTypes /\ RequestOK(r) /\ PropertyKept /\ KeysKept /\ NotLostOnHost
  BY TypesSplit DEF IInv
<1>2. \A q \in Request \ {r} : Same(q)
  BY <1>1, OthersSame
<1>3. CASE Refuse(r)
  BY <1>2, <1>3, RefuseStep DEF DeleteSystemMetadata
<1>4. CASE ~Refuse(r)
  <2>1. /\ db' = [db EXCEPT !.keys = @ \ {key[r]}]
        /\ kept' = kept \ {key[r]} /\ Goto(r, "done")
        /\ copy' = [copy EXCEPT ![r].keys = @ \ {key[r]}] /\ orig' = [orig EXCEPT ![r] = @ \ {key[r]}]
        /\ UNCHANGED <<deleted, kind, key, changed, expected, os, overlap, local>>
        /\ pc[r] = "loaded" /\ kind[r] = "remove"
    BY <1>4 DEF DeleteSystemMetadata
  <2>2. db' \in Row /\ db'.keys = db.keys \ {key[r]} /\ db'.host = db.host /\ SameRow
    BY <1>1, <2>1 DEF RowTypes, Row, SameRow
  <2>3. copy' \in [Request -> Row]
    BY <1>1, <2>1 DEF Functions, Row
  <2>4. pc'[r] = "done"
    BY <1>1, <2>1 DEF Goto, Functions
  <2>5. Functions'
    BY <1>1, <2>1, <2>3 DEF Goto, Functions
  <2>6. RowTypes' /\ PropertyKept' /\ KeysKept' /\ NotLostOnHost'
    BY <1>1, <2>1, <2>2 DEF RowTypes, PropertyKept, KeysKept, NotLostOnHost, SameRow
  <2>7. ~Saving(r)' /\ ~Working(r)' /\ ~Ends(r)' /\ ~HalfSaved(r)
    BY <2>1, <2>4 DEF Saving, Working, Ends, HalfSaved
  <2>8. RequestOK(r)'
    BY <2>1, <2>4, <2>7
       DEF RequestOK, SetsWhatItMeans, CastWithTask, KeysOfLoaded, PropertyNotYet, TaskOfWorker,
           ResizeKeepsOld, RevertHasOld
  <2> QED BY <1>2, <2>1, <2>2, <2>5, <2>6, <2>7, <2>8, QuietStep
<1> QED BY <1>3, <1>4

\* An operation enters its task, or a resize is confirmed.
LEMMA EnterStep ==
  ASSUME IInv, NEW r \in Request, Enter(r)
  PROVE  IInv'
<1>1. Functions /\ RequestOK(r)
  BY TypesSplit DEF IInv
<1>2. \A q \in Request \ {r} : Same(q)
  BY <1>1, OthersSame
<1>3. CASE Refuse(r)
  BY <1>2, <1>3, RefuseStep DEF Enter
<1>4. CASE ~Refuse(r)
  <2>1. /\ pc[r] = "loaded" /\ kind[r] \in Casting \union {"confirm"} /\ Goto(r, "extra")
        /\ kind[r] \in Ending => Finished
        /\ copy[r].vm = Demands[kind[r]] /\ copy[r].task = "none"
        /\ UNCHANGED <<db, deleted, kind, key, told>>
    BY <1>4, Operations DEF Enter, Ending
  <2>2. pc'[r] = "extra" /\ kind'[r] = kind[r] /\ key'[r] = key[r]
    BY <1>1, <2>1 DEF Goto, Functions
  <2>3. Ends(r)' => \A q \in Request : ~Ends(q)
    BY <2>1, <2>2 DEF Ends, Ending, Finished
  <2>4. copy[r] \in Row /\ {"none"} \in SUBSET Task /\ copy[r].keys = orig[r]
    BY <1>1, <2>1 DEF Functions, Task, RequestOK, KeysOfLoaded
  <2>5. CASE kind[r] = "confirm"
    <3> DEFINE row == [copy[r] EXCEPT !.old = "none", !.vm = "active"]
    <3>1. ToSave(r, row, {"none"}) /\ copy[r].vm = "resized"
      BY <1>4, <2>1, <2>5 DEF Enter, Demands
    <3>2. row \in Row
      BY <1>1, RowsToSave
    <3>3. /\ row.vm = "active" /\ row.task = copy[r].task /\ row.host = copy[r].host
          /\ row.cur = copy[r].cur /\ row.old = "none" /\ row.os = copy[r].os /\ row.keys = copy[r].keys
      BY <2>4 DEF Row
    <3> HIDE DEF row
    <3>4. /\ copy'[r] = row /\ expected'[r] = {"none"} /\ orig'[r] = orig[r]
          /\ changed'[r] \in SUBSET (Column \union Extra)
          /\ "vm" \in changed'[r] /\ "task" \notin changed'[r] /\ "host" \notin changed'[r]
          /\ "cur" \notin changed'[r] /\ "os" \notin changed'[r]
      BY <1>1, <2>4, <3>1, <3>2, <3>3, ObjectToSave
    <3>5. changed'[r] \subseteq {"vm", "old"}
      BY <3>4 DEF Column, Extra
    <3>6. SetsWhatItMeans(r)'
      BY <2>1, <2>2, <2>5, <3>3, <3>4, <3>5 DEF SetsWhatItMeans, SavesConfirm
    <3>7. KeysOfLoaded(r)'
      BY <2>2, <2>4, <2>5, <3>3, <3>4 DEF KeysOfLoaded, Saving
    <3>8. ~Working(r)'
      BY <2>2, <2>5 DEF Working, Casting
    <3>9. TaskOfWorker(r)' /\ ResizeKeepsOld(r)' /\ RevertHasOld(r)'
      BY <2>2, <2>5, <3>8 DEF TaskOfWorker, ResizeKeepsOld, RevertHasOld
    <3> QED BY <1>2, <2>1, <2>3, <2>4, <3>1, <3>2, <3>6, <3>7, <3>8, <3>9, ToSaveStep
  <2>6. CASE kind[r] # "confirm"
    <3> DEFINE row == [copy[r] EXCEPT !.task = Enters[kind[r]]]
    <3>0. kind[r] \in Casting /\ Enters[kind[r]] \in Task /\ Enters[kind[r]] # "none"
      BY <2>1, <2>6, Operations
    <3>1. ToSave(r, row, {"none"})
      BY <1>4, <2>1, <2>6 DEF Enter
    <3>2. row \in Row
      BY <1>1, <3>0, RowsToSave
    <3>3. /\ row.vm = copy[r].vm /\ row.task = Enters[kind[r]] /\ row.host = copy[r].host
          /\ row.cur = copy[r].cur /\ row.old = copy[r].old /\ row.os = copy[r].os /\ row.keys = copy[r].keys
      BY <2>4 DEF Row
    <3> HIDE DEF row
    <3>4. /\ copy'[r] = row /\ expected'[r] = {"none"} /\ orig'[r] = orig[r]
          /\ changed'[r] \in SUBSET (Column \union Extra)
          /\ "vm" \notin changed'[r] /\ "task" \in changed'[r] /\ "host" \notin changed'[r]
          /\ "cur" \notin changed'[r] /\ "os" \notin changed'[r] /\ "old" \notin changed'[r]
      BY <1>1, <2>1, <2>4, <3>0, <3>1, <3>2, <3>3, ObjectToSave
    <3>5. changed'[r] = {"task"}
      BY <3>4 DEF Column, Extra
    <3>6. SetsWhatItMeans(r)'
      BY <2>2, <3>0, <3>3, <3>4, <3>5 DEF SetsWhatItMeans, SavesEntry
    <3>7. KeysOfLoaded(r)'
      BY <2>2, <2>4, <3>0, <3>3, <3>4 DEF KeysOfLoaded, Saving, Casting
    <3>8. ~Working(r)'
      BY <2>2, <3>4 DEF Working
    <3>9. kind[r] = "revert" => db'.old # "none"
      BY <2>1 DEF Finished, Ending
    <3>10. TaskOfWorker(r)' /\ ResizeKeepsOld(r)' /\ RevertHasOld(r)'
      BY <2>2, <3>8, <3>9 DEF TaskOfWorker, ResizeKeepsOld, RevertHasOld
    <3> QED BY <1>2, <2>1, <2>3, <2>4, <3>1, <3>2, <3>6, <3>7, <3>8, <3>10, ToSaveStep
  <2> QED BY <2>5, <2>6
<1> QED BY <1>3, <1>4

\* The scheduler gives the guest a host.
LEMMA ScheduleStep ==
  ASSUME IInv, NEW r \in Request, Schedule(r)
  PROVE  IInv'
<1>1. Functions /\ RequestOK(r)
  BY TypesSplit DEF IInv
<1>2. \A q \in Request \ {r} : Same(q)
  BY <1>1, OthersSame
<1> DEFINE row == [copy[r] EXCEPT !.host = "host", !.vm = "active", !.task = "none"]
<1>3. /\ pc[r] = "loaded" /\ kind[r] = "schedule" /\ ToSave(r, row, {"scheduling"})
      /\ Goto(r, "extra") /\ UNCHANGED <<db, deleted, kind, key, told>>
  BY DEF Schedule
<1>4. copy[r] \in Row /\ row \in Row /\ {"scheduling"} \in SUBSET Task
  BY <1>1, RowsToSave DEF Task
<1>5. /\ row.vm = "active" /\ row.task = "none" /\ row.cur = copy[r].cur /\ row.old = copy[r].old
      /\ row.os = copy[r].os /\ row.keys = copy[r].keys
  BY <1>4 DEF Row
<1> HIDE DEF row
<1>6. /\ copy'[r] = row /\ expected'[r] = {"scheduling"} /\ orig'[r] = orig[r]
      /\ changed'[r] \in SUBSET (Column \union Extra)
      /\ "cur" \notin changed'[r] /\ "os" \notin changed'[r] /\ "old" \notin changed'[r]
  BY <1>1, <1>3, <1>4, <1>5, ObjectToSave
<1>7. changed'[r] \subseteq {"vm", "task", "host"}
  BY <1>6 DEF Column, Extra
<1>8. pc'[r] = "extra" /\ kind'[r] = "schedule"
  BY <1>1, <1>3 DEF Goto, Functions
<1>9. SetsWhatItMeans(r)'
  BY <1>5, <1>6, <1>7, <1>8 DEF SetsWhatItMeans, SavesSchedule
<1>10. KeysOfLoaded(r)'
  BY <1>1, <1>3, <1>5, <1>6, <1>8 DEF KeysOfLoaded, Saving, RequestOK
<1>11. ~Working(r)' /\ ~Ends(r)'
  BY <1>8 DEF Working, Ends, Casting, Ending
<1>12. TaskOfWorker(r)' /\ ResizeKeepsOld(r)' /\ RevertHasOld(r)'
  BY <1>8, <1>11 DEF TaskOfWorker, ResizeKeepsOld, RevertHasOld
<1> QED BY <1>2, <1>3, <1>4, <1>9, <1>10, <1>11, <1>12, ToSaveStep

\* A request to delete the guest.
LEMMA DoomStep ==
  ASSUME IInv, NEW r \in Request, Doom(r)
  PROVE  IInv'
<1>1. Functions /\ RequestOK(r)
  BY TypesSplit DEF IInv
<1>2. \A q \in Request \ {r} : Same(q)
  BY <1>1, OthersSame
<1>3. pc[r] = "loaded" /\ kind[r] = "destroy" /\ UNCHANGED <<db, deleted, kind, key, told>>
  BY DEF Doom
<1>4. CASE copy[r].host = NoHost
  <2>1. Goto(r, "destroy") /\ UNCHANGED object
    BY <1>4 DEF Doom
  <2>2. pc'[r] = "destroy" /\ kind'[r] = "destroy" /\ copy'[r] = copy[r]
    BY <1>1, <1>3, <2>1 DEF Goto, Functions, object
  <2>3. Functions'
    BY <1>1, <1>3, <2>1 DEF Goto, Functions, object
  <2>4. RowTypes' /\ SameRow /\ (deleted => deleted') /\ PropertyKept' /\ KeysKept' /\ NotLostOnHost'
    BY <1>3, RowAlone
  <2>5. ~Saving(r)' /\ ~Working(r)' /\ ~Ends(r)' /\ ~HalfSaved(r)
    BY <1>3, <2>2 DEF Saving, Working, Ends, HalfSaved, Casting, Ending
  <2>6. RequestOK(r)'
    BY <1>1, <1>3, <2>2, <2>4, <2>5
       DEF RequestOK, SetsWhatItMeans, CastWithTask, KeysOfLoaded, PropertyNotYet, TaskOfWorker,
           ResizeKeepsOld, RevertHasOld, SameRow
  <2> QED BY <1>2, <2>3, <2>4, <2>5, <2>6, QuietStep
<1>5. CASE copy[r].host # NoHost
  <2> DEFINE row == [copy[r] EXCEPT !.task = "deleting"]
  <2>1. ToSave(r, row, Task) /\ Goto(r, "extra")
    BY <1>5 DEF Doom
  <2>2. copy[r] \in Row /\ row \in Row
    BY <1>1, RowsToSave DEF Task
  <2>3. /\ row.vm = copy[r].vm /\ row.task = "deleting" /\ row.host = copy[r].host
        /\ row.cur = copy[r].cur /\ row.old = copy[r].old /\ row.os = copy[r].os /\ row.keys = copy[r].keys
    BY <2>2 DEF Row
  <2> HIDE DEF row
  <2>4. /\ copy'[r] = row /\ expected'[r] = Task /\ orig'[r] = orig[r]
        /\ changed'[r] \in SUBSET (Column \union Extra)
        /\ "vm" \notin changed'[r] /\ "host" \notin changed'[r]
        /\ "cur" \notin changed'[r] /\ "os" \notin changed'[r] /\ "old" \notin changed'[r]
    BY <1>1, <2>1, <2>2, <2>3, ObjectToSave
  <2>5. changed'[r] \subseteq {"task"}
    BY <2>4 DEF Column, Extra
  <2>6. pc'[r] = "extra" /\ kind'[r] = "destroy"
    BY <1>1, <1>3, <2>1 DEF Goto, Functions
  <2>7. SetsWhatItMeans(r)'
    BY <2>3, <2>4, <2>5, <2>6 DEF SetsWhatItMeans, SavesDoom
  <2>8. KeysOfLoaded(r)'
    BY <1>1, <1>3, <2>3, <2>4, <2>6 DEF KeysOfLoaded, Saving, RequestOK
  <2>9. ~Working(r)' /\ ~Ends(r)'
    BY <2>6 DEF Working, Ends, Casting, Ending
  <2>10. TaskOfWorker(r)' /\ ResizeKeepsOld(r)' /\ RevertHasOld(r)'
    BY <2>6, <2>9 DEF TaskOfWorker, ResizeKeepsOld, RevertHasOld
  <2> QED BY <1>2, <1>3, <2>1, <2>2, <2>7, <2>8, <2>9, <2>10, ToSaveStep
<1> QED BY <1>4, <1>5

\* The row is destroyed, unless it has a host that the object has not.
LEMMA DestroyStep ==
  ASSUME IInv, NEW r \in Request, Destroy(r)
  PROVE  IInv'
<1>1. Functions /\ RowTypes /\ RequestOK(r)
  BY TypesSplit DEF IInv
<1>2. \A q \in Request \ {r} : Same(q)
  BY <1>1, OthersSame
<1>3. kind[r] = "destroy" /\ pc[r] \in {"destroy", "cast"}
  BY DEF Destroy
<1>4. CASE Refuse(r)
  BY <1>2, <1>3, <1>4, RefuseStep
<1>5. CASE ~Refuse(r)
  <2>1. PICK p \in {"refresh", "done"} : Goto(r, p)
    BY <1>5 DEF Destroy
  <2>2. UNCHANGED <<db, kind, key, object, os, kept, overlap>> /\ deleted' \in BOOLEAN /\ local' \in BOOLEAN
    BY <1>1, <1>5 DEF Destroy, told, RowTypes
  <2>3. pc'[r] = p /\ kind'[r] = "destroy" /\ copy'[r] = copy[r]
    BY <1>1, <1>3, <2>1, <2>2 DEF Goto, Functions, object
  <2>4. Functions'
    BY <1>1, <2>1, <2>2 DEF Goto, Functions, object
  <2>5. RowTypes' /\ SameRow /\ (deleted => deleted')
    BY <1>1, <1>5, <2>2 DEF Destroy, RowTypes, SameRow, told
  <2>6. PropertyKept' /\ KeysKept'
    BY <2>2, <2>5 DEF PropertyKept, KeysKept, IInv
  <2>7. NotLostOnHost'
    <3>1. CASE ~HostConstraint(r)
      BY <1>5, <3>1 DEF Destroy, NotLostOnHost, told, IInv
    <3>2. CASE HostConstraint(r)
      BY <1>5, <3>2 DEF Destroy, NotLostOnHost, HostConstraint
    <3> QED BY <3>1, <3>2
  <2>8. ~Saving(r)' /\ ~Working(r)' /\ ~Ends(r)' /\ ~HalfSaved(r)
    BY <1>3, <2>3 DEF Saving, Working, Ends, HalfSaved, Casting, Ending
  <2>9. RequestOK(r)'
    BY <1>1, <1>3, <2>3, <2>5, <2>8
       DEF RequestOK, SetsWhatItMeans, CastWithTask, KeysOfLoaded, PropertyNotYet, TaskOfWorker,
           ResizeKeepsOld, RevertHasOld, SameRow
  <2> QED BY <1>2, <2>4, <2>5, <2>6, <2>7, <2>8, <2>9, QuietStep
<1> QED BY <1>4, <1>5

\* The object that a compute host saves after its work.
Worked(r) ==
  LET c == copy[r]
  IN  CASE kind[r] = "start" -> [c EXCEPT !.vm = "active", !.task = "none"]
        [] kind[r] = "stop" -> [c EXCEPT !.vm = "stopped", !.task = "none"]
        [] kind[r] = "resize" -> [c EXCEPT !.old = c.cur, !.cur = "large", !.vm = "resized", !.task = "none"]
        [] OTHER -> [c EXCEPT !.cur = c.old, !.old = "none", !.vm = "active", !.task = "none"]

\* It is a row: a reversal has a flavor to go back to.
LEMMA WorkedIsRow ==
  ASSUME Functions, NEW r \in Request, kind[r] \in Casting,
         kind[r] = "revert" => copy[r].old # "none"
  PROVE  /\ copy[r] \in Row /\ Worked(r) \in Row
         /\ Worked(r).task = "none" /\ Worked(r).host = copy[r].host /\ Worked(r).os = copy[r].os
         /\ Worked(r).keys = copy[r].keys
         /\ kind[r] \in {"start", "stop"} =>
              /\ Worked(r).vm \in {"active", "stopped"}
              /\ Worked(r).cur = copy[r].cur /\ Worked(r).old = copy[r].old
         /\ kind[r] = "resize" => Worked(r).old = copy[r].cur
         /\ kind[r] = "revert" => Worked(r).old = "none" /\ Worked(r).vm = "active"
<1>1. copy[r] \in Row
  BY DEF Functions
<1>2. CASE kind[r] = "start"
  <2>1. Worked(r) = [copy[r] EXCEPT !.vm = "active", !.task = "none"]
    BY <1>2 DEF Worked
  <2>2. Worked(r) \in Row
    BY <2>1, RowsToSave
  <2> QED BY <1>1, <1>2, <2>1, <2>2 DEF Row
<1>3. CASE kind[r] = "stop"
  <2>1. Worked(r) = [copy[r] EXCEPT !.vm = "stopped", !.task = "none"]
    BY <1>3 DEF Worked
  <2>2. Worked(r) \in Row
    BY <2>1, RowsToSave
  <2> QED BY <1>1, <1>3, <2>1, <2>2 DEF Row
<1>4. CASE kind[r] = "resize"
  <2>1. Worked(r) = [copy[r] EXCEPT !.old = copy[r].cur, !.cur = "large", !.vm = "resized", !.task = "none"]
    BY <1>4 DEF Worked
  <2>2. Worked(r) \in Row
    BY <2>1, RowsToSave
  <2> QED BY <1>1, <1>4, <2>1, <2>2 DEF Row
<1>5. CASE kind[r] = "revert"
  <2>1. Worked(r) = [copy[r] EXCEPT !.cur = copy[r].old, !.old = "none", !.vm = "active", !.task = "none"]
    BY <1>5 DEF Worked
  <2>2. Worked(r) \in Row
    BY <1>5, <2>1, RowsToSave
  <2> QED BY <1>1, <1>5, <2>1, <2>2 DEF Row
<1> QED BY <1>2, <1>3, <1>4, <1>5 DEF Casting

\* A compute host does the work and goes on to save.
LEMMA WorkStep ==
  ASSUME IInv, NEW r \in Request, Work(r)
  PROVE  IInv'
<1>1. Functions /\ RowTypes /\ RequestOK(r)
  BY TypesSplit DEF IInv
<1>2. \A q \in Request \ {r} : Same(q)
  BY <1>1, OthersSame
<1>3. pc[r] = "cast" /\ Goto(r, "extra") /\ UNCHANGED <<db, deleted, kind, key, told>>
  BY DEF Work
<1>4. kind[r] \in Casting /\ copy[r].task = Enters[kind[r]]
  BY <1>1, <1>3, Operations DEF Work, RequestOK, CastWithTask, Casting
<1>5. /\ Enters[kind[r]] \in Task \ {"none"} /\ {Enters[kind[r]]} \in SUBSET Task
      /\ Working(r) /\ copy[r].keys = orig[r]
  BY <1>1, <1>3, <1>4, Operations DEF Working, RequestOK, KeysOfLoaded
<1>6. kind[r] = "revert" => db.old # "none" /\ copy[r].old # "none" /\ copy[r].vm = db.vm
  BY <1>1, <1>3 DEF RequestOK, RevertHasOld
<1>7. ToSave(r, Worked(r), {Enters[kind[r]]})
  BY DEF Work, Worked
<1>8. /\ copy[r] \in Row /\ Worked(r) \in Row
      /\ Worked(r).task = "none" /\ Worked(r).host = copy[r].host /\ Worked(r).os = copy[r].os
      /\ Worked(r).keys = copy[r].keys
      /\ kind[r] \in {"start", "stop"} =>
           /\ Worked(r).vm \in {"active", "stopped"}
           /\ Worked(r).cur = copy[r].cur /\ Worked(r).old = copy[r].old
      /\ kind[r] = "resize" => Worked(r).old = copy[r].cur
      /\ kind[r] = "revert" => Worked(r).old = "none" /\ Worked(r).vm = "active"
  BY <1>1, <1>4, <1>6, WorkedIsRow
<1>9. copy[r].cur # "none"
  BY <1>8 DEF Row, Flavor
<1>10. /\ copy'[r] = Worked(r) /\ expected'[r] = {Enters[kind[r]]} /\ orig'[r] = orig[r]
       /\ changed'[r] \in SUBSET (Column \union Extra)
       /\ "vm" \in changed'[r] <=> Worked(r).vm # copy[r].vm
       /\ "task" \in changed'[r] /\ "host" \notin changed'[r] /\ "os" \notin changed'[r]
       /\ "cur" \in changed'[r] <=> Worked(r).cur # copy[r].cur
       /\ "old" \in changed'[r] <=> Worked(r).old # copy[r].old
  BY <1>1, <1>4, <1>5, <1>7, <1>8, ObjectToSave
<1>11. pc'[r] = "extra" /\ kind'[r] = kind[r] /\ key'[r] = key[r]
  BY <1>1, <1>3 DEF Goto, Functions
<1>12. SetsWhatItMeans(r)'
  <2>1. changed'[r] \subseteq {"vm", "task", "cur", "old"}
    BY <1>10 DEF Column, Extra
  <2>2. kind[r] \in {"start", "stop"} => changed'[r] \subseteq {"vm", "task"}
    BY <1>8, <1>10, <2>1
  <2>3. SavesWork(r)'
    BY <1>6, <1>8, <1>9, <1>10, <1>11, <2>1, <2>2 DEF SavesWork
  <2> QED BY <1>4, <1>11, <2>3 DEF SetsWhatItMeans
<1>13. KeysOfLoaded(r)'
  BY <1>4, <1>5, <1>8, <1>10, <1>11 DEF KeysOfLoaded, Saving, Casting
<1>14. TaskOfWorker(r)'
  BY <1>1, <1>3, <1>5, <1>11 DEF TaskOfWorker, RequestOK
<1>15. ResizeKeepsOld(r)'
  <2>1. CASE kind[r] = "resize" /\ "old" \notin changed'[r]
    <3>1. copy[r].old # "none"
      BY <1>8, <1>9, <1>10, <2>1
    <3>2. db.old # "none" \/ Half
      BY <1>1, <1>3, <1>5, <2>1, <3>1 DEF RequestOK, ResizeKeepsOld
    <3>3. Half => Half'
      BY <1>2, <1>3, HalfStays DEF HalfSaved
    <3> QED BY <1>3, <1>11, <3>2, <3>3 DEF ResizeKeepsOld, OldKept
  <2>2. CASE kind[r] # "resize" \/ "old" \in changed'[r]
    BY <1>11, <2>2 DEF ResizeKeepsOld
  <2> QED BY <2>1, <2>2
<1>16. RevertHasOld(r)'
  <2>1. Working(r)'
    BY <1>4, <1>5, <1>10, <1>11 DEF Working, Saving
  <2>2. kind[r] = "revert" => "vm" \in changed'[r] \/ db.vm = "active"
    BY <1>6, <1>8, <1>10
  <2> QED BY <1>3, <1>11, <2>1, <2>2 DEF RevertHasOld
<1>17. Ends(r)' => Ends(r)
  BY <1>3, <1>11 DEF Ends
<1> QED BY <1>2, <1>3, <1>5, <1>7, <1>8, <1>12, <1>13, <1>14, <1>15, <1>16, <1>17, ToSaveStep

\* A request that saves its work is working, one that enters is not yet.
LEMMA WorkAndEntry ==
  ASSUME NEW r \in Request, Saving(r), kind[r] \in Casting
  PROVE  (SavesWork(r) => Working(r)) /\ (SavesEntry(r) => ~Working(r))
<1>1. Enters[kind[r]] # "none" /\ pc[r] # "cast"
  BY Operations DEF Saving
<1> QED BY <1>1 DEF SavesWork, SavesEntry, Working

\* The flavors are written.
LEMMA SaveExtraStep ==
  ASSUME IInv, NEW r \in Request, SaveExtra(r)
  PROVE  IInv'
<1>1. Functions /\ RowTypes /\ RequestOK(r) /\ OneWorker /\ OneEnding
  BY TypesSplit DEF IInv
<1>2. \A q \in Request \ {r} : Same(q)
  BY <1>1, OthersSame
<1>3. /\ pc[r] = "extra" /\ Goto(r, "save") /\ UNCHANGED <<deleted, kind, key, object, told>>
      /\ db' = IF deleted THEN db ELSE Write(db, copy[r], ExtraUpdates(r))
  BY DEF SaveExtra
<1>4. pc'[r] = "save" /\ kind'[r] = kind[r] /\ key'[r] = key[r] /\ copy'[r] = copy[r] /\ orig'[r] = orig[r]
      /\ changed'[r] = changed[r] /\ expected'[r] = expected[r]
  BY <1>1, <1>3 DEF Goto, Functions, object
<1>5. Functions'
  BY <1>1, <1>3 DEF Goto, Functions, object
<1>6. /\ db' \in Row /\ db'.task = db.task /\ db'.os = db.os /\ db'.vm = db.vm
      /\ db'.host = db.host /\ db'.keys = db.keys
      /\ db'.old = db.old \/ (~deleted /\ db'.old = copy[r].old /\ changed[r] \intersect Extra # {})
  <2>1. db \in Row /\ copy[r] \in Row
    BY <1>1 DEF RowTypes, Functions
  <2>2. CASE deleted
    BY <1>3, <2>1, <2>2
  <2>3. CASE ~deleted
    <3>1. ExtraUpdates(r) \subseteq Extra /\ (changed[r] \intersect Extra = {} => ExtraUpdates(r) = {})
      BY DEF ExtraUpdates, WhatChanged, Extra
    <3>2. db' = Write(db, copy[r], ExtraUpdates(r))
      BY <1>3, <2>3
    <3> QED BY <2>1, <2>3, <3>1, <3>2, Written DEF Extra
  <2> QED BY <2>2, <2>3
<1>7. RowTypes' /\ (deleted => deleted')
  BY <1>1, <1>3, <1>6 DEF RowTypes, told
<1>8. PropertyKept' /\ KeysKept' /\ NotLostOnHost'
  BY <1>3, <1>6 DEF PropertyKept, KeysKept, NotLostOnHost, IInv, told
<1>9. /\ Saving(r)' /\ Saving(r) /\ (Working(r)' <=> Working(r)) /\ (Ends(r)' <=> Ends(r))
      /\ ~HalfSaved(r)
  BY <1>3, <1>4 DEF Saving, Working, Ends, HalfSaved
<1>10. SetsWhatItMeans(r)' /\ CastWithTask(r)' /\ KeysOfLoaded(r)' /\ PropertyNotYet(r)' /\ TaskOfWorker(r)'
  <2>1. SetsWhatItMeans(r)'
    BY <1>1, <1>4, <1>9
       DEF RequestOK, SetsWhatItMeans, SavesEdit, SavesConfirm, SavesEntry, SavesWork, SavesSchedule, SavesDoom
  <2>2. CastWithTask(r)' /\ PropertyNotYet(r)' /\ TaskOfWorker(r)'
    BY <1>1, <1>3, <1>4, <1>6, <1>9 DEF RequestOK, CastWithTask, PropertyNotYet, TaskOfWorker
  <2>3. KeysOfLoaded(r)'
    BY <1>1, <1>4, <1>9 DEF RequestOK, KeysOfLoaded
  <2> QED BY <2>1, <2>2, <2>3
<1>11. CASE db'.old = db.old
  <2>1. Half => Half'
    BY <1>2, <1>9, HalfStays
  <2>2. ResizeKeepsOld(r)'
    <3>1. CASE kind[r] = "resize" /\ Working(r)
      <4>1. copy[r].old # "none" /\ ("old" \notin changed[r] => OldKept)
        BY <1>1, <1>3, <1>9, <3>1 DEF RequestOK, SetsWhatItMeans, SavesEntry, SavesWork, Working,
           SavesEdit, SavesConfirm, SavesSchedule, SavesDoom, Casting, Editing, ResizeKeepsOld
      <4>2. CASE "old" \in changed[r] /\ ~deleted
        <5>1. WhatChanged(r) \intersect Extra # {}
          BY <4>2 DEF WhatChanged, Extra
        <5>2. db' = Write(db, copy[r], Extra)
          BY <1>3, <4>2, <5>1 DEF ExtraUpdates
        <5>3. db'.old = copy[r].old
          BY <1>1, <5>2, Written DEF Extra, RowTypes, Functions
        <5> QED BY <4>1, <5>3, <1>4 DEF ResizeKeepsOld, OldKept
      <4>3. CASE "old" \notin changed[r] \/ deleted
        BY <1>3, <1>4, <1>11, <2>1, <4>1, <4>3 DEF ResizeKeepsOld, OldKept
      <4> QED BY <4>2, <4>3
    <3>2. CASE ~(kind[r] = "resize" /\ Working(r))
      BY <1>4, <1>9, <3>2 DEF ResizeKeepsOld
    <3> QED BY <3>1, <3>2
  <2>3. RevertHasOld(r)'
    BY <1>1, <1>4, <1>6, <1>9, <1>11 DEF RequestOK, RevertHasOld
  <2>4. RequestOK(r)'
    BY <1>10, <2>2, <2>3 DEF RequestOK
  <2>5. SameRow
    BY <1>6, <1>11 DEF SameRow
  <2> QED BY <1>2, <1>5, <1>7, <1>8, <1>9, <2>4, <2>5, QuietStep
<1>12. CASE ~deleted /\ db'.old = copy[r].old /\ changed[r] \intersect Extra # {}
  <2>1. "old" \in changed[r] \/ "cur" \in changed[r]
    BY <1>12 DEF Extra
  <2>2. \/ kind[r] \in Ending /\ "old" \in changed[r]
        \/ kind[r] = "resize" /\ Working(r) /\ copy[r].old # "none"
    <3>1. \/ kind[r] = "confirm" /\ SavesConfirm(r)
          \/ kind[r] \in Casting /\ SavesWork(r)
      BY <1>1, <1>9, <2>1 DEF RequestOK, SetsWhatItMeans, SavesEdit, SavesEntry, SavesSchedule, SavesDoom
    <3>2. CASE kind[r] = "confirm" /\ SavesConfirm(r)
      BY <2>1, <3>2 DEF SavesConfirm, Ending
    <3>3. CASE kind[r] \in Casting /\ SavesWork(r)
      <4>1. Working(r)
        BY <1>9, <3>3, WorkAndEntry
      <4> QED BY <2>1, <3>3, <4>1 DEF SavesWork, Casting, Ending
    <3> QED BY <3>1, <3>2, <3>3
  <2>3. (kind[r] \in Ending /\ Half') \/ (kind[r] = "resize" /\ Working(r) /\ db'.old # "none")
    BY <1>4, <1>12, <2>2 DEF Half, HalfSaved, Ending
  <2>4. ASSUME NEW q \in Request \ {r} PROVE RequestOK(q)'
    <3>1. Same(q) /\ RequestOK(q)
      BY <1>2 DEF IInv
    <3>2. /\ Saving(q)' <=> Saving(q)
          /\ Working(q)' <=> Working(q)
          /\ SetsWhatItMeans(q)' /\ CastWithTask(q)' /\ KeysOfLoaded(q)'
      BY <3>1, OtherObject
    <3>3. PropertyNotYet(q)'
      BY <1>6, <3>1 DEF RequestOK, PropertyNotYet, Same
    <3>4. TaskOfWorker(q)'
      BY <1>6, <3>1, <3>2 DEF RequestOK, TaskOfWorker, Same
    <3>5. ResizeKeepsOld(q)'
      <4>1. CASE Half'
        BY <4>1 DEF ResizeKeepsOld, OldKept
      <4>2. CASE Working(r)
        BY <1>1, <3>2, <4>2 DEF OneWorker, ResizeKeepsOld
      <4> QED BY <2>3, <4>1, <4>2
    <3>6. RevertHasOld(q)'
      <4>1. CASE db'.old # "none"
        BY <1>6, <3>1, <3>2, <4>1 DEF RequestOK, RevertHasOld, Same
      <4>2. CASE kind[r] \in Ending
        <5>1. Ends(r)
          BY <1>3, <4>2 DEF Ends
        <5>2. ~Ends(q)
          BY <1>1, <5>1 DEF OneEnding
        <5>3. kind[q] = "revert" => ~Saving(q) /\ pc[q] # "cast"
          BY <5>2 DEF Ends, Ending, Saving
        <5> QED BY <3>1, <3>2, <5>3 DEF RevertHasOld, Same
      <4> QED BY <2>3, <4>1, <4>2
    <3> QED BY <3>2, <3>3, <3>4, <3>5, <3>6 DEF RequestOK
  <2>5. ResizeKeepsOld(r)'
    BY <1>4, <2>3 DEF ResizeKeepsOld, OldKept, Ending
  <2>6. RevertHasOld(r)'
    <3>1. kind[r] = "revert" => Working(r)
      BY <1>1, <1>9, <2>1 DEF RequestOK, SetsWhatItMeans, SavesEdit, SavesConfirm, SavesEntry, SavesWork,
         SavesSchedule, SavesDoom, Working, Casting, Editing, Enters
    <3> QED BY <1>1, <1>4, <1>6, <1>9, <3>1 DEF RequestOK, RevertHasOld
  <2>7. RequestOK(r)'
    BY <1>10, <2>5, <2>6 DEF RequestOK
  <2>8. \A q \in Request : RequestOK(q)'
    BY <2>4, <2>7
  <2>9. OneWorker' /\ OneEnding'
    <3>1. \A q \in Request : (Working(q)' <=> Working(q)) /\ (Ends(q)' <=> Ends(q))
      <4>1. ASSUME NEW q \in Request \ {r} PROVE (Working(q)' <=> Working(q)) /\ (Ends(q)' <=> Ends(q))
        BY <1>2 DEF Same, Working, Saving, Ends
      <4> QED BY <1>9, <4>1
    <3> QED BY <1>1, <3>1 DEF OneWorker, OneEnding
  <2>10. WayBack'
    BY <2>3 DEF WayBack, Half
  <2>11. TypeOK'
    BY <1>5, <1>7, TypesSplit, PTL
  <2> QED BY <1>8, <2>8, <2>9, <2>10, <2>11 DEF IInv
<1> QED BY <1>6, <1>11, <1>12

\* The row after a save that was not refused, and the object, which is the row.
LEMMA Saved ==
  ASSUME Functions, RowTypes, NEW r \in Request, SaveUpdates(r), ~Refuse(r)
  PROVE  /\ pc[r] = "save" /\ ~deleted
         /\ db' \in Row /\ db'.cur = db.cur /\ db'.old = db.old
         /\ db'.vm = (IF "vm" \in changed[r] THEN copy[r].vm ELSE db.vm)
         /\ db'.task = (IF "task" \in changed[r] THEN copy[r].task ELSE db.task)
         /\ db'.os = (IF "os" \in changed[r] THEN copy[r].os ELSE db.os)
         /\ db'.keys = (IF copy[r].keys # orig[r] \/ "keys" \in changed[r] THEN copy[r].keys ELSE db.keys)
         /\ "vm" \in changed[r] \/ "task" \in changed[r] => db.task \in expected[r]
         /\ copy'[r] = db' /\ orig'[r] = db'.keys /\ changed'[r] = {}
         /\ pc'[r] = Next3(r) /\ kind'[r] = kind[r] /\ key'[r] = key[r]
         /\ UNCHANGED <<deleted, kind, key, expected, local>>
         /\ os' = (IF kind[r] = "property" THEN r ELSE os)
         /\ Functions'
<1>1. /\ pc[r] = "save" /\ ~deleted /\ (Updates(r) = {} \/ Expectation(r))
      /\ db' = Write(db, copy[r], Updates(r)) /\ Goto(r, Next3(r))
      /\ copy' = [copy EXCEPT ![r] = db'] /\ orig' = [orig EXCEPT ![r] = db'.keys]
      /\ changed' = [changed EXCEPT ![r] = {}]
      /\ os' = IF kind[r] = "property" THEN r ELSE os
      /\ UNCHANGED <<deleted, kind, key, expected, local>>
  BY DEF SaveUpdates
<1>2. /\ "vm" \in Updates(r) <=> "vm" \in changed[r]
      /\ "task" \in Updates(r) <=> "task" \in changed[r]
      /\ "os" \in Updates(r) <=> "os" \in changed[r]
      /\ "keys" \in Updates(r) <=> copy[r].keys # orig[r] \/ "keys" \in changed[r]
      /\ "cur" \notin Updates(r) /\ "old" \notin Updates(r)
  BY DEF Updates, WhatChanged, Extra
<1>3. db \in Row /\ copy[r] \in Row
  BY DEF RowTypes, Functions
<1>4. /\ db' \in Row /\ db'.cur = db.cur /\ db'.old = db.old
      /\ db'.vm = (IF "vm" \in changed[r] THEN copy[r].vm ELSE db.vm)
      /\ db'.task = (IF "task" \in changed[r] THEN copy[r].task ELSE db.task)
      /\ db'.os = (IF "os" \in changed[r] THEN copy[r].os ELSE db.os)
      /\ db'.keys = (IF copy[r].keys # orig[r] \/ "keys" \in changed[r] THEN copy[r].keys ELSE db.keys)
  BY <1>1, <1>2, <1>3, Written
<1>5. db'.keys \in SUBSET (Key \union {Detail}) /\ Next3(r) \in {"cast", "done"}
  BY <1>4 DEF Row, Next3
<1>6. copy'[r] = db' /\ orig'[r] = db'.keys /\ changed'[r] = {} /\ pc'[r] = Next3(r)
  BY <1>1 DEF Goto, Functions
<1>7. Functions'
  BY <1>1, <1>4, <1>5 DEF Goto, Functions
<1>8. "vm" \in changed[r] \/ "task" \in changed[r] => db.task \in expected[r]
  BY <1>1, <1>2 DEF Expectation
<1> QED BY <1>1, <1>4, <1>6, <1>7, <1>8

\* The keys of users after such a save.
LEMMA SavedKeys ==
  ASSUME Functions, RowTypes, NEW r \in Request, SaveUpdates(r), ~Refuse(r), RequestOK(r), KeysKept
  PROVE  /\ kept' \subseteq Key /\ overlap' \in BOOLEAN
         /\ KeysKept'
<1>1. /\ pc[r] = "save" /\ ~deleted /\ UNCHANGED <<deleted>>
      /\ db'.keys = (IF copy[r].keys # orig[r] \/ "keys" \in changed[r] THEN copy[r].keys ELSE db.keys)
  BY Saved
<1>2. Saving(r)
  BY <1>1 DEF Saving
<1>3. "keys" \notin changed[r] /\ kept \subseteq Key
  BY DEF Functions, RowTypes, Column, Extra
<1>4. /\ kept' = CASE kind[r] = "create" -> kept \union {key[r]}
                   [] kind[r] = "update_all" -> {key[r]}
                   [] OTHER -> kept
      /\ overlap' = (overlap \/ (orig[r] # db.keys /\ kind[r] \in {"create", "update_all", "register"}))
  BY DEF SaveUpdates
<1>5. overlap' \in BOOLEAN /\ (overlap => overlap')
  BY <1>4 DEF RowTypes
<1>6. kind[r] \in {"create", "update_all"} => key[r] \in Key
  BY DEF RequestOK, KeysOfLoaded
<1>7. CASE kind[r] = "create"
  <2>1. kept' = kept \union {key[r]} /\ copy[r].keys = orig[r] \union {key[r]}
    BY <1>2, <1>4, <1>7 DEF RequestOK, KeysOfLoaded
  <2>2. overlap' \/ orig[r] = db.keys
    BY <1>4, <1>7
  <2>3. orig[r] = db.keys => db'.keys = orig[r] \union {key[r]}
    BY <1>1, <1>3, <2>1
  <2> QED BY <1>1, <1>3, <1>5, <1>6, <1>7, <2>1, <2>2, <2>3 DEF KeysKept
<1>8. CASE kind[r] = "update_all"
  <2>1. kept' = {key[r]} /\ copy[r].keys = {key[r]}
    BY <1>2, <1>4, <1>8 DEF RequestOK, KeysOfLoaded
  <2>2. overlap' \/ orig[r] = db.keys
    BY <1>4, <1>8
  <2>3. orig[r] = db.keys => db'.keys = {key[r]}
    BY <1>1, <1>3, <2>1
  <2> QED BY <1>1, <1>5, <1>6, <1>8, <2>1, <2>2, <2>3 DEF KeysKept
<1>9. CASE kind[r] = "register"
  <2>1. kept' = kept /\ copy[r].keys = orig[r] \union {Detail}
    BY <1>2, <1>4, <1>9 DEF RequestOK, KeysOfLoaded
  <2>2. overlap' \/ orig[r] = db.keys
    BY <1>4, <1>9
  <2>3. orig[r] = db.keys => db'.keys = orig[r] \union {Detail}
    BY <1>1, <1>3, <2>1
  <2> QED BY <1>1, <1>3, <1>5, <2>1, <2>2, <2>3 DEF KeysKept
<1>10. CASE kind[r] \notin {"create", "update_all", "register"}
  <2>1. kept' = kept /\ copy[r].keys = orig[r]
    BY <1>2, <1>4, <1>10 DEF RequestOK, KeysOfLoaded
  <2>2. db'.keys = db.keys
    BY <1>1, <1>3, <2>1
  <2> QED BY <1>1, <1>3, <1>5, <2>1, <2>2 DEF KeysKept
<1> QED BY <1>7, <1>8, <1>9, <1>10

\* What a save that was not refused tells of the row it met: whose task state
\* it had, and what became of it.
LEMMA SavedTask ==
  ASSUME Functions, RowTypes, NEW r \in Request, SaveUpdates(r), ~Refuse(r), RequestOK(r)
  PROVE  /\ "task" \in changed[r] =>
              Working(r) \/ db.task \in {"none", "scheduling"} \/ copy[r].task = "deleting"
         /\ "vm" \in changed[r] => Working(r) \/ db.task \in {"none", "scheduling"}
         /\ HalfSaved(r) => Working(r) \/ db.task = "none"
<1>1. /\ pc[r] = "save" /\ Saving(r)
      /\ "vm" \in changed[r] \/ "task" \in changed[r] => db.task \in expected[r]
  BY Saved DEF Saving
<1>2. CASE kind[r] \in Editing /\ SavesEdit(r)
  BY <1>2 DEF SavesEdit, Editing, HalfSaved
<1>3. CASE kind[r] = "confirm" /\ SavesConfirm(r)
  BY <1>1, <1>3 DEF SavesConfirm
<1>4. CASE kind[r] \in Casting /\ SavesEntry(r)
  BY <1>1, <1>4 DEF SavesEntry, HalfSaved
<1>5. CASE kind[r] \in Casting /\ SavesWork(r)
  BY <1>1, <1>5, WorkAndEntry
<1>6. CASE kind[r] = "schedule" /\ SavesSchedule(r)
  BY <1>1, <1>6 DEF SavesSchedule, HalfSaved
<1>7. CASE kind[r] = "destroy" /\ SavesDoom(r)
  BY <1>7 DEF SavesDoom, HalfSaved
<1> QED BY <1>1, <1>2, <1>3, <1>4, <1>5, <1>6, <1>7 DEF RequestOK, SetsWhatItMeans

\* A save that was not refused leaves to another request what is said of it:
\* if that one works on the guest, this one has written neither state.
LEMMA SavedOther ==
  ASSUME IInv, NEW r \in Request, SaveUpdates(r), ~Refuse(r), NEW q \in Request \ {r}
  PROVE  RequestOK(q)' /\ (Working(q)' <=> Working(q)) /\ (Ends(q)' <=> Ends(q))
<1>1. Functions /\ RowTypes /\ RequestOK(r) /\ RequestOK(q) /\ OneWorker
  BY TypesSplit DEF IInv
<1>2. Same(q) /\ \A x \in Request \ {r} : Same(x)
  BY <1>1, OthersSame
<1>3. /\ db'.old = db.old
      /\ db'.vm = (IF "vm" \in changed[r] THEN copy[r].vm ELSE db.vm)
      /\ db'.task = (IF "task" \in changed[r] THEN copy[r].task ELSE db.task)
      /\ db'.os = (IF "os" \in changed[r] THEN copy[r].os ELSE db.os)
      /\ pc[r] = "save" /\ deleted' = deleted
  BY <1>1, Saved
<1>4. /\ Saving(q)' <=> Saving(q)
      /\ Working(q)' <=> Working(q)
      /\ SetsWhatItMeans(q)' /\ CastWithTask(q)' /\ KeysOfLoaded(q)'
  BY <1>1, <1>2, OtherObject
<1>5. Ends(q)' <=> Ends(q)
  BY <1>2 DEF Ends, Same
<1>6. PropertyNotYet(q)'
  <2>1. "os" \in changed[r] => copy[r].os = r
    BY <1>1, <1>3 DEF RequestOK, SetsWhatItMeans, Saving, SavesEdit, SavesConfirm, SavesEntry, SavesWork,
       SavesSchedule, SavesDoom
  <2> QED BY <1>1, <1>2, <1>3, <2>1 DEF RequestOK, PropertyNotYet, Same
<1>7. ASSUME Working(q)
      PROVE  /\ "task" \in changed[r] => copy[r].task = "deleting"
             /\ "vm" \notin changed[r] /\ ~HalfSaved(r)
  <2>1. ~Working(r)
    BY <1>1, <1>7 DEF OneWorker
  <2>2. db.task \notin {"none", "scheduling"}
    <3>1. kind[q] \in Casting /\ db.task \in {Enters[kind[q]], "deleting"}
      BY <1>1, <1>7 DEF RequestOK, TaskOfWorker, Working
    <3> QED BY <3>1, Operations
  <2> QED BY <1>1, <2>1, <2>2, SavedTask
<1>8. TaskOfWorker(q)'
  <2>1. CASE Working(q)
    <3>1. db'.task \in {db.task, "deleting"}
      BY <1>3, <1>7, <2>1
    <3> QED BY <1>1, <1>2, <2>1, <3>1 DEF RequestOK, TaskOfWorker, Same
  <2>2. CASE ~Working(q)
    BY <1>4, <2>2 DEF TaskOfWorker
  <2> QED BY <2>1, <2>2
<1>9. ResizeKeepsOld(q)'
  <2>1. CASE Working(q)
    <3>1. Half => Half'
      BY <1>2, <1>7, <2>1, HalfStays
    <3> QED BY <1>1, <1>2, <1>3, <1>4, <2>1, <3>1 DEF RequestOK, ResizeKeepsOld, OldKept, Same
  <2>2. CASE ~Working(q)
    BY <1>4, <2>2 DEF ResizeKeepsOld
  <2> QED BY <2>1, <2>2
<1>10. RevertHasOld(q)'
  <2>1. CASE Working(q)
    <3>1. db'.vm = db.vm
      BY <1>3, <1>7, <2>1
    <3> QED BY <1>1, <1>2, <1>3, <1>4, <2>1, <3>1 DEF RequestOK, RevertHasOld, Same
  <2>2. CASE ~Working(q)
    <3>1. kind[q] = "revert" => pc[q] # "cast"
      BY <2>2 DEF Working, Casting
    <3> QED BY <1>1, <1>2, <1>3, <1>4, <2>2, <3>1 DEF RequestOK, RevertHasOld, Same
  <2> QED BY <2>1, <2>2
<1> QED BY <1>4, <1>5, <1>6, <1>8, <1>9, <1>10 DEF RequestOK

\* The request that saved is done, or its work is cast with its task state.
LEMMA SavedOwn ==
  ASSUME IInv, NEW r \in Request, SaveUpdates(r), ~Refuse(r)
  PROVE  /\ RequestOK(r)'
         /\ Working(r)' => db.task = "none"
         /\ Ends(r)' => Ends(r)
         /\ ~HalfSaved(r)'
<1>1. Functions /\ RowTypes /\ RequestOK(r)
  BY TypesSplit DEF IInv
<1>2. /\ pc[r] = "save" /\ db'.old = db.old
      /\ db'.vm = (IF "vm" \in changed[r] THEN copy[r].vm ELSE db.vm)
      /\ db'.task = (IF "task" \in changed[r] THEN copy[r].task ELSE db.task)
      /\ db'.os = (IF "os" \in changed[r] THEN copy[r].os ELSE db.os)
      /\ "vm" \in changed[r] \/ "task" \in changed[r] => db.task \in expected[r]
      /\ copy'[r] = db' /\ orig'[r] = db'.keys /\ changed'[r] = {}
      /\ pc'[r] = Next3(r) /\ kind'[r] = kind[r] /\ key'[r] = key[r]
  BY <1>1, Saved
<1>3. Saving(r)
  BY <1>2 DEF Saving
<1>4. pc'[r] \in {"cast", "done"} /\ ~Saving(r)' /\ ~HalfSaved(r)' /\ (Ends(r)' => Ends(r))
  BY <1>2 DEF Next3, Saving, HalfSaved, Ends
<1>5. ASSUME pc'[r] = "cast"
      PROVE  kind[r] = "destroy" \/ (kind[r] \in Casting /\ SavesEntry(r))
  <2>1. kind[r] \in Casting \union {"confirm", "destroy"} /\ copy[r].task # "none"
    BY <1>2, <1>5, Operations DEF Next3
  <2> QED BY <1>1, <1>3, <2>1 DEF RequestOK, SetsWhatItMeans, SavesConfirm, SavesWork, Casting, Editing
<1>6. SetsWhatItMeans(r)' /\ KeysOfLoaded(r)'
  BY <1>1, <1>2, <1>4 DEF SetsWhatItMeans, KeysOfLoaded, RequestOK
<1>7. ASSUME kind[r] \in Casting /\ SavesEntry(r)
      PROVE  /\ db.task = "none" /\ db'.task = Enters[kind[r]] /\ db'.vm = db.vm
             /\ kind[r] = "revert" => db.old # "none"
  <2>1. ~Working(r)
    BY <1>3, <1>7, WorkAndEntry
  <2> QED BY <1>1, <1>2, <1>3, <1>7, <2>1 DEF SavesEntry, RequestOK, RevertHasOld
<1>8. CastWithTask(r)'
  BY <1>2, <1>5, <1>7 DEF CastWithTask
<1>9. Working(r)' => kind[r] \in Casting /\ SavesEntry(r) /\ pc'[r] = "cast"
  BY <1>2, <1>4, <1>5 DEF Working, Casting
<1>10. TaskOfWorker(r)' /\ (Working(r)' => db.task = "none")
  BY <1>2, <1>7, <1>9 DEF TaskOfWorker
<1>11. PropertyNotYet(r)'
  <2>1. CASE pc'[r] = "cast"
    <3>1. "os" \notin changed[r]
      BY <1>1, <1>3, <1>5, <2>1 DEF SavesEntry, RequestOK, SetsWhatItMeans, SavesDoom, Editing, Casting
    <3> QED BY <1>1, <1>2, <2>1, <3>1 DEF RequestOK, PropertyNotYet
  <2>2. CASE pc'[r] = "done"
    BY <2>2 DEF PropertyNotYet
  <2> QED BY <1>4, <2>1, <2>2
<1>12. ResizeKeepsOld(r)'
  BY <1>2, <1>9 DEF ResizeKeepsOld
<1>13. RevertHasOld(r)'
  BY <1>2, <1>4, <1>5, <1>7 DEF RevertHasOld
<1> QED BY <1>4, <1>6, <1>8, <1>10, <1>11, <1>12, <1>13 DEF RequestOK

\* The flavor to go back to after such a save.
LEMMA SavedWayBack ==
  ASSUME IInv, NEW r \in Request, SaveUpdates(r), ~Refuse(r)
  PROVE  WayBack'
<1>1. Functions /\ RowTypes /\ RequestOK(r) /\ WayBack
  BY TypesSplit DEF IInv
<1>2. /\ pc[r] = "save" /\ ~deleted /\ db'.old = db.old
      /\ db'.vm = (IF "vm" \in changed[r] THEN copy[r].vm ELSE db.vm)
  BY <1>1, Saved
<1>3. Saving(r)
  BY <1>2 DEF Saving
<1>4. \A q \in Request \ {r} : Same(q)
  BY <1>1, OthersSame
<1>5. CASE HalfSaved(r)
  <2>1. CASE kind[r] = "confirm"
    <3>1. SavesConfirm(r)
      BY <1>1, <1>3, <2>1 DEF RequestOK, SetsWhatItMeans, Editing, Casting
    <3> QED BY <1>2, <3>1 DEF SavesConfirm, WayBack
  <2>2. CASE kind[r] = "revert"
    <3>1. SavesEntry(r) \/ SavesWork(r)
      BY <1>1, <1>3, <2>2 DEF RequestOK, SetsWhatItMeans, Editing
    <3>2. SavesWork(r) /\ kind[r] \in Casting
      BY <1>5, <2>2, <3>1 DEF SavesEntry, HalfSaved, Casting
    <3>3. Working(r)
      BY <1>3, <3>2, WorkAndEntry
    <3>4. db'.vm = "active"
      BY <1>1, <1>2, <1>3, <2>2, <3>2, <3>3 DEF RequestOK, RevertHasOld, SavesWork
    <3> QED BY <3>4 DEF WayBack
  <2> QED BY <1>5, <2>1, <2>2 DEF HalfSaved
<1>6. CASE ~HalfSaved(r)
  <2>1. Half => Half'
    BY <1>4, <1>6, HalfStays
  <2>2. db'.vm = "resized" => db.old # "none" \/ Half
    <3>1. CASE "vm" \notin changed[r]
      BY <1>1, <1>2, <3>1 DEF WayBack, Half
    <3>2. CASE "vm" \in changed[r] /\ copy[r].vm = "resized"
      <4>1. kind[r] \in Casting /\ SavesWork(r)
        BY <1>1, <1>3, <3>2 DEF RequestOK, SetsWhatItMeans, SavesEdit, SavesConfirm, SavesEntry,
           SavesSchedule, SavesDoom
      <4>2. kind[r] = "resize" /\ Working(r)
        <5>1. Working(r)
          BY <1>3, <4>1, WorkAndEntry
        <5> QED BY <3>2, <4>1, <5>1 DEF SavesWork, Casting
      <4> QED BY <1>1, <1>2, <4>2 DEF RequestOK, ResizeKeepsOld, OldKept
    <3>3. CASE "vm" \in changed[r] /\ copy[r].vm # "resized"
      BY <1>2, <3>3
    <3> QED BY <3>1, <3>2, <3>3
  <2> QED BY <1>2, <2>1, <2>2 DEF WayBack, Half
<1> QED BY <1>5, <1>6

\* The row is written, if it is in the task state that the request expects.
LEMMA SaveUpdatesStep ==
  ASSUME IInv, NEW r \in Request, SaveUpdates(r)
  PROVE  IInv'
<1>1. Functions /\ RowTypes /\ RequestOK(r) /\ OneWorker /\ OneEnding
  BY TypesSplit DEF IInv
<1>2. \A q \in Request \ {r} : Same(q)
  BY <1>1, OthersSame
<1>3. CASE Refuse(r)
  BY <1>2, <1>3, RefuseStep DEF SaveUpdates
<1>4. CASE ~Refuse(r)
  <2>1. /\ pc[r] = "save" /\ ~deleted /\ db' \in Row
        /\ db'.os = (IF "os" \in changed[r] THEN copy[r].os ELSE db.os)
        /\ deleted' = deleted /\ local' = local
        /\ os' = (IF kind[r] = "property" THEN r ELSE os)
        /\ Functions'
    BY <1>1, <1>4, Saved
  <2>2. kept' \subseteq Key /\ overlap' \in BOOLEAN /\ KeysKept'
    BY <1>1, <1>4, SavedKeys DEF IInv
  <2>3. RowTypes'
    BY <1>1, <2>1, <2>2 DEF RowTypes
  <2>4. PropertyKept'
    <3>1. IF kind[r] = "property" THEN "os" \in changed[r] /\ copy[r].os = r ELSE "os" \notin changed[r]
      BY <1>1, <2>1 DEF RequestOK, SetsWhatItMeans, Saving, SavesEdit, SavesConfirm, SavesEntry, SavesWork,
         SavesSchedule, SavesDoom, Editing, Casting
    <3> QED BY <2>1, <3>1 DEF PropertyKept, IInv
  <2>5. NotLostOnHost'
    BY <2>1 DEF NotLostOnHost
  <2>6. /\ RequestOK(r)' /\ (Working(r)' => db.task = "none") /\ (Ends(r)' => Ends(r))
    BY <1>4, SavedOwn
  <2>7. \A q \in Request \ {r} : RequestOK(q)' /\ (Working(q)' <=> Working(q)) /\ (Ends(q)' <=> Ends(q))
    BY <1>4, SavedOther
  <2>8. \A q \in Request : RequestOK(q)'
    BY <2>6, <2>7
  <2>9. OneWorker'
    <3>1. ASSUME NEW q \in Request \ {r}, Working(q) PROVE ~Working(r)'
      <4>1. kind[q] \in Casting /\ db.task \in {Enters[kind[q]], "deleting"}
        BY <3>1 DEF IInv, RequestOK, TaskOfWorker, Working
      <4> QED BY <2>6, <4>1, Operations
    <3> QED BY <1>1, <2>7, <3>1 DEF OneWorker
  <2>10. OneEnding'
    BY <1>1, <2>6, <2>7 DEF OneEnding
  <2>11. WayBack'
    BY <1>4, SavedWayBack
  <2>12. TypeOK'
    BY <2>1, <2>3, TypesSplit, PTL
  <2> QED BY <2>2, <2>4, <2>5, <2>8, <2>9, <2>10, <2>11, <2>12 DEF IInv
<1> QED BY <1>3, <1>4

-----------------------------------------------------------------------------
(***************************************************************************)
(* The theorems                                                            *)
(***************************************************************************)

\* No request has set the property to begin with.
LEMMA InitHolds ==
  ASSUME InstanceObjectAssumption, Init
  PROVE  IInv
<1>1. db \in Row /\ db.os = "linux" /\ db.vm # "resized"
  BY DEF Init, Row, Flavor, Task
<1>2. TypeOK
  BY <1>1 DEF Init, TypeOK, Column, Extra, Task, Kind
<1>3. \A r \in Request : pc[r] = "idle" /\ kind[r] = "idle"
  BY DEF Init
<1>4. \A r \in Request : ~Saving(r) /\ ~Working(r) /\ ~Ends(r)
  BY <1>3 DEF Saving, Working, Ends
<1>5. ASSUME NEW r \in Request PROVE RequestOK(r)
  BY <1>1, <1>3, <1>4
     DEF InstanceObjectAssumption, RequestOK, SetsWhatItMeans, CastWithTask, KeysOfLoaded,
         PropertyNotYet, TaskOfWorker, ResizeKeepsOld, RevertHasOld
<1>6. PropertyKept /\ KeysKept /\ NotLostOnHost /\ WayBack
  BY <1>1 DEF Init, PropertyKept, KeysKept, NotLostOnHost, WayBack
<1> QED BY <1>2, <1>4, <1>5, <1>6 DEF IInv, OneWorker, OneEnding

\* Every step, of whichever request, keeps the invariant.
LEMMA StepKeepsInvariant ==
  ASSUME IInv, [Next]_vars
  PROVE  IInv'
<1>1. CASE UNCHANGED vars
  BY <1>1
     DEF vars, object, told, IInv, TypeOK, RequestOK, SetsWhatItMeans, SavesEdit, SavesConfirm, SavesEntry,
         SavesWork, SavesSchedule, SavesDoom, CastWithTask, KeysOfLoaded, PropertyNotYet, TaskOfWorker,
         ResizeKeepsOld, RevertHasOld, OldKept, Half, HalfSaved, Saving, Working, Ends, OneWorker, OneEnding,
         PropertyKept, KeysKept, NotLostOnHost, WayBack
<1>2. ASSUME NEW r \in Request,
             \/ \E k \in Kind : Load(r, k)
             \/ UpdateSystemMetadata(r) \/ DeleteSystemMetadata(r) \/ UpdateProperty(r)
             \/ RegisterDetails(r) \/ Enter(r) \/ Work(r) \/ Schedule(r) \/ Doom(r)
             \/ Destroy(r) \/ Refresh(r) \/ SaveExtra(r) \/ SaveUpdates(r)
      PROVE  IInv'
  BY <1>2, LoadStep, UpdateSystemMetadataStep, DeleteSystemMetadataStep, UpdatePropertyStep,
     RegisterDetailsStep, EnterStep, WorkStep, ScheduleStep, DoomStep, DestroyStep, RefreshStep,
     SaveExtraStep, SaveUpdatesStep
<1> QED BY <1>1, <1>2 DEF Next

\* Two operations that work on the guest would be two workers.
LEMMA InvariantSuffices ==
  ASSUME IInv
  PROVE  TypeOK /\ ObjectKept
<1>1. OneOperation
  <2>1. ASSUME NEW r \in Request, pc[r] = "cast", kind[r] # "destroy" PROVE Working(r)
    BY <2>1 DEF IInv, RequestOK, CastWithTask, Working
  <2> QED BY <2>1 DEF OneOperation, OneWorker, IInv
<1> QED BY <1>1 DEF IInv, ObjectKept

\* For any requests and any keys of system metadata, the variables of the
\* object keep their types (instance.py:121-218); in particular a reversal
\* finds a flavor to go back to.
THEOREM TypeCorrect ==
  ASSUME InstanceObjectAssumption
  PROVE  Spec => []TypeOK
<1>1. Init => IInv
  BY InitHolds
<1>2. IInv /\ [Next]_vars => IInv'
  BY StepKeepsInvariant
<1>3. IInv => TypeOK
  BY InvariantSuffices
<1> QED BY <1>1, <1>2, <1>3, PTL DEF Spec

\* For any requests and any keys, whatever older copies of the object they
\* save: a property and keys that were acknowledged stay, no two operations
\* work on the guest, no guest with a host is forgotten, and one that awaits
\* the confirmation of a resize has the flavor to go back to
\* (instance.py:256-290, 649-653, 719-833).
THEOREM ObjectStaysKept ==
  ASSUME InstanceObjectAssumption
  PROVE  Spec => []ObjectKept
<1>1. Init => IInv
  BY InitHolds
<1>2. IInv /\ [Next]_vars => IInv'
  BY StepKeepsInvariant
<1>3. IInv => ObjectKept
  BY InvariantSuffices
<1> QED BY <1>1, <1>2, <1>3, PTL DEF Spec
=============================================================================
