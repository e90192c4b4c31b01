-------------------------- MODULE LightosConnector --------------------------
(***************************************************************************)
(* The os-brick connector for LightOS volumes on one compute node.         *)
(* Attaching a volume writes a file that tells the host's discovery client *)
(* (external) to connect to the volume's target; detaching deletes the     *)
(* file.  A monitor thread keeps a table of the volumes and rewrites the   *)
(* files that are missing; connect_volume and disconnect_volume, which     *)
(* exclude each other, tell it of their volumes in a message queue.        *)
(***************************************************************************)
EXTENDS Naturals, Sequences, FiniteSets

CONSTANTS
  Volume,
  MaxCalls  \* bound: calls of connect_volume and disconnect_volume

ASSUME LightosAssumption == MaxCalls \in Nat

VARIABLES
  dsc,      \* the volumes with a file in discovery.d
  db,       \* the keys of lightos_db, the monitor's table
  queue,    \* the message queue
  inUse,    \* the volumes that Nova holds for attached
  call,     \* the call in progress: the step it is at, and its volume
  monitor,  \* the step of the monitor, or "dead" when its thread has ended
  todo,     \* the volumes monitor_db has yet to look at
  missing,  \* the volume whose file it has found missing
  calls     \* number of calls so far

vars == <<dsc, db, queue, inUse, call, monitor, todo, missing, calls>>

Message == {"add", "delete"} \X Volume
NoCall == [at |-> "none"]
Call == [at : {"write", "device", "add", "delete", "flush", "unlink"}, v : Volume]

TypeOK ==
  /\ dsc \subseteq Volume /\ db \subseteq Volume /\ inUse \subseteq Volume
  /\ queue \in Seq(Message) /\ Len(queue) <= MaxCalls
  /\ call \in Call \union {NoCall}
  /\ monitor \in {"scan", "write", "drain", "dead"}
  /\ todo \subseteq Volume /\ missing \subseteq Volume /\ Cardinality(missing) <= 1
  /\ calls \in 0 .. MaxCalls

\* The connector comes up on a node with attached volumes; any of their files
\* may be gone.
Init ==
  /\ inUse \in SUBSET Volume
  /\ dsc \in SUBSET inUse
  /\ db = inUse /\ todo = inUse
  /\ queue = <<>> /\ call = NoCall
  /\ monitor = "scan" /\ missing = {}
  /\ calls = 0

-----------------------------------------------------------------------------
(***************************************************************************)
(* connect_volume and disconnect_volume.                                   *)
(***************************************************************************)

At(step) == call.at = step
Goto(step) == call' = [call EXCEPT !.at = step]
Put(op) == queue' = Append(queue, <<op, call.v>>)

Begin(step, v) ==
  /\ call = NoCall /\ calls < MaxCalls
  /\ call' = [at |-> step, v |-> v]
  /\ calls' = calls + 1
  /\ UNCHANGED <<dsc, db, queue, inUse, monitor, todo, missing>>

Connect(v) == v \notin inUse /\ Begin("write", v)
Disconnect(v) == v \in inUse /\ Begin("delete", v)

\* A file that is there is not written again; when it cannot be moved to its
\* place, the call raises.
WriteFile ==
  /\ At("write")
  /\ \/ dsc' = dsc \union {call.v} /\ Goto("device")
     \/ call.v \notin dsc /\ call' = NoCall /\ UNCHANGED dsc
  /\ UNCHANGED <<db, queue, inUse, monitor, todo, missing, calls>>

\* Mutant: the monitor is told of the volume before its device is there.
WaitDeviceTold ==
  /\ At("device")
  /\ Put("add")
  /\ \/ inUse' = inUse \union {call.v} /\ UNCHANGED dsc
     \/ dsc' = dsc \ {call.v} /\ UNCHANGED inUse
  /\ call' = NoCall
  /\ UNCHANGED <<db, monitor, todo, missing, calls>>

\* The device shows up in time, or the call deletes the file, if it can, and
\* raises.
WaitDevice ==
  /\ At("device")
  /\ \/ Goto("add") /\ UNCHANGED dsc
     \/ call' = NoCall /\ dsc' \in {dsc, dsc \ {call.v}}
  /\ UNCHANGED <<db, queue, inUse, monitor, todo, missing, calls>>

PutAdd ==
  /\ At("add")
  /\ Put("add")
  /\ inUse' = inUse \union {call.v}
  /\ call' = NoCall
  /\ UNCHANGED <<dsc, db, monitor, todo, missing, calls>>

PutDelete ==
  /\ At("delete")
  /\ Put("delete")
  /\ Goto("flush")
  /\ UNCHANGED <<dsc, db, inUse, monitor, todo, missing, calls>>

\* Mutant: a disconnection whose flush failed starts all over.
FlushStartsOver ==
  /\ At("flush")
  /\ \/ Goto("unlink")
     \/ call.v \in dsc /\ Goto("delete")
  /\ UNCHANGED <<dsc, db, queue, inUse, monitor, todo, missing, calls>>

\* The device, if there is one, is flushed; when that fails, the call raises
\* unless it was told to force or to ignore errors.
Flush ==
  /\ At("flush")
  /\ \/ Goto("unlink")
     \/ call.v \in dsc /\ call' = NoCall
  /\ UNCHANGED <<dsc, db, queue, inUse, monitor, todo, missing, calls>>

\* That the file is gone already is taken for success; when it cannot be
\* deleted, the call raises at its end.
DeleteFile ==
  /\ At("unlink")
  /\ \/ dsc' = dsc \ {call.v} /\ inUse' = inUse \ {call.v}
     \/ call.v \in dsc /\ UNCHANGED <<dsc, inUse>>
  /\ call' = NoCall
  /\ UNCHANGED <<db, queue, monitor, todo, missing, calls>>

CallStep ==
  WriteFile \/ WaitDevice \/ PutAdd \/ PutDelete \/ Flush \/ DeleteFile

-----------------------------------------------------------------------------
(***************************************************************************)
(* lightos_monitor.                                                        *)
(***************************************************************************)


\* dsc_need_connect, for one volume of the table.
Look ==
  /\ monitor = "scan" /\ todo # {}
  /\ \E v \in todo :
       /\ todo' = todo \ {v}
       /\ missing' = {v} \ dsc
       /\ monitor' = IF v \in dsc THEN "scan" ELSE "write"
  /\ UNCHANGED <<dsc, db, queue, inUse, call, calls>>

\* A file that cannot be moved to its place ends the thread: the exception is
\* raised again, and nothing in the loop catches it.
Rewrite ==
  /\ monitor = "write"
  /\ \/ dsc' = dsc \union missing /\ monitor' = "scan"
     \/ monitor' = "dead" /\ UNCHANGED dsc
  /\ missing' = {}
  /\ UNCHANGED <<db, queue, inUse, call, todo, calls>>

\* The table has been looked through; the monitor sleeps for a second or five.
Sleep ==
  /\ monitor = "scan" /\ todo = {}
  /\ monitor' = "drain"
  /\ UNCHANGED <<dsc, db, queue, inUse, call, todo, missing, calls>>

Receive ==
  /\ monitor = "drain" /\ queue # <<>>
  /\ db' = IF Head(queue)[1] = "add" THEN db \union {Head(queue)[2]}
                                     ELSE db \ {Head(queue)[2]}
  /\ queue' = Tail(queue)
  /\ UNCHANGED <<dsc, inUse, call, monitor, todo, missing, calls>>

Drained ==
  /\ monitor = "drain" /\ queue = <<>>
  /\ monitor' = "scan"
  /\ todo' = db
  /\ UNCHANGED <<dsc, db, queue, inUse, call, missing, calls>>

Monitor == Look \/ Rewrite \/ Sleep \/ Receive \/ Drained

Next ==
  \/ \E v \in Volume : Connect(v) \/ Disconnect(v)
  \/ CallStep \/ Monitor

Spec == Init /\ [][Next]_vars

\* A call that has begun ends, and the monitor goes on as long as its thread
\* lives; nobody has to call.
FairSpec == Spec /\ WF_vars(CallStep) /\ WF_vars(Monitor)

-----------------------------------------------------------------------------
Quiet == call = NoCall /\ queue = <<>>

\* Once all messages are delivered, the monitor has no volume in its table
\* that is not attached: the messages of successive calls, failed ones
\* included, never leave an entry behind that would keep a detached volume
\* connected (lightos_connector.py:184-201, 326-328, 352-354).
TableWithinUse == Quiet => db \subseteq inUse

=============================================================================
