----------------------- MODULE LightosConnectorProofs -----------------------
(***************************************************************************)
(* For any set of volumes and any number of calls: the connector is type   *)
(* correct, and the monitor's table ends up within the attached volumes.   *)
(***************************************************************************)
EXTENDS LightosConnector, FiniteSetTheorems, TLAPS

-----------------------------------------------------------------------------
\* A call that has yet to put its message.
Owes == call.at \in {"write", "device", "add", "delete"}

\* The queue never holds more messages than there were calls: each call puts
\* at most one.
QueueWithinCalls == Len(queue) + (IF Owes THEN 1 ELSE 0) <= calls

\* TypeOK with what it takes to be preserved: no call puts two messages, and
\* the monitor has found at most one file missing.
TypeInv ==
  /\ dsc \subseteq Volume /\ db \subseteq Volume /\ inUse \subseteq Volume
  /\ queue \in Seq(Message)
  /\ call \in Call \union {NoCall}
  /\ monitor \in {"scan", "write", "drain", "dead"}
  /\ todo \subseteq Volume
  /\ missing = {} \/ \E v \in Volume : missing = {v}
  /\ calls \in 0 .. MaxCalls
  /\ QueueWithinCalls

\* Message i of the queue is the last word on v.
AddedAt(i, v) ==
  /\ queue[i] = <<"add", v>>
  /\ \A j \in 1 .. Len(queue) : j > i => queue[j] # <<"delete", v>>

\* When all messages are delivered, v will be in the monitor's table.
EndsInTable(v) ==
  \/ \E i \in 1 .. Len(queue) : AddedAt(i, v)
  \/ v \in db /\ \A j \in 1 .. Len(queue) : queue[j] # <<"delete", v>>

\* Only attached volumes will be in the table, and not the one whose
\* disconnection has put its message.
IInv ==
  /\ \A v \in Volume : EndsInTable(v) => v \in inUse
  /\ call \in Call /\ call.at \in {"flush", "unlink"} => ~EndsInTable(call.v)

-----------------------------------------------------------------------------
\* The strings of a call without steps and of the calls differ.
LEMMA NoCallIsNoCall == NoCall \notin Call /\ NoCall.at = "none"
BY DEF NoCall, Call

\* A message that a call puts is the last of a queue of messages.
LEMMA Appended ==
  ASSUME queue \in Seq(Message), call \in Call, NEW op \in {"add", "delete"}, Put(op)
  PROVE  /\ queue' \in Seq(Message) /\ Len(queue') = Len(queue) + 1
         /\ queue'[Len(queue')] = <<op, call.v>>
         /\ \A i \in 1 .. Len(queue) : queue'[i] = queue[i]
BY DEF Put, Call, Message

\* The rest of the messages move up when the first is received.
LEMMA Received ==
  ASSUME queue \in Seq(Message), queue # <<>>, queue' = Tail(queue)
  PROVE  /\ queue' \in Seq(Message) /\ Len(queue') = Len(queue) - 1
         /\ Head(queue) = queue[1] /\ Head(queue)[1] \in {"add", "delete"}
         /\ Head(queue)[2] \in Volume
         /\ \A i \in 1 .. Len(queue') : queue'[i] = queue[i + 1]
BY DEF Message

\* Every variable keeps its type and its bounds.
LEMMA TypeInvariant == Spec => []TypeInv
<1> USE LightosAssumption DEF TypeInv, QueueWithinCalls, Owes
<1>1. Init => TypeInv
  BY NoCallIsNoCall DEF Init
<1>2. TypeInv /\ [Next]_vars => TypeInv'
  <2> SUFFICES ASSUME TypeInv, [Next]_vars PROVE TypeInv'
    OBVIOUS
  <2> USE NoCallIsNoCall DEF At, Goto, Put
  <2>0. Len(queue) \in Nat
    BY DEF Message
  <2>1. CASE UNCHANGED vars
    BY <2>1 DEF vars
  <2>2. ASSUME NEW v \in Volume, Connect(v) \/ Disconnect(v) PROVE TypeInv'
    <3>1. PICK step \in {"write", "delete"} : Begin(step, v)
      BY <2>2 DEF Connect, Disconnect
    <3>2. call.at = "none" /\ call'.at = step /\ call' \in Call
      BY <3>1 DEF Begin, Call
    <3>3. QED
      BY <3>1, <3>2 DEF Begin
  <2>3. CASE WriteFile
    BY <2>3 DEF WriteFile, Call
  <2>4. CASE WaitDevice
    <3>1. call' \in Call \union {NoCall} /\ call'.at \in {"add", "none"}
      BY <2>4 DEF WaitDevice, Call
    <3>2. QED
      BY <2>0, <2>4, <3>1 DEF WaitDevice
  <2>5. CASE PutAdd
    <3>1. queue' \in Seq(Message) /\ Len(queue') = Len(queue) + 1
      BY <2>5, Appended DEF PutAdd
    <3>2. Owes /\ call' \in Call \union {NoCall} /\ call'.at \in {"flush", "none"}
      BY <2>5 DEF PutAdd, Call
    <3>3. inUse' \subseteq Volume /\ UNCHANGED <<dsc, db, monitor, todo, missing, calls>>
      BY <2>5 DEF PutAdd, Call
    <3>4. QueueWithinCalls'
      BY <2>0, <3>1, <3>2, <3>3
    <3>5. QED
      BY <3>1, <3>2, <3>3, <3>4
  <2>6. CASE PutDelete
    <3>1. queue' \in Seq(Message) /\ Len(queue') = Len(queue) + 1
      BY <2>6, Appended DEF PutDelete
    <3>2. Owes /\ call' \in Call \union {NoCall} /\ call'.at \in {"flush", "none"}
      BY <2>6 DEF PutDelete, Call
    <3>3. UNCHANGED <<dsc, db, inUse, monitor, todo, missing, calls>>
      BY <2>6 DEF PutDelete, Call
    <3>4. QED
      BY <2>0, <3>1, <3>2, <3>3
  <2>7. CASE Flush
    BY <2>7 DEF Flush, Call
  <2>8. CASE DeleteFile
    BY <2>8 DEF DeleteFile, Call
  <2>9. CASE Look
    BY <2>9 DEF Look
  <2>10. CASE Rewrite
    BY <2>10 DEF Rewrite
  <2>11. CASE Sleep
    BY <2>11 DEF Sleep
  <2>12. CASE Receive
    <3>1. /\ queue' \in Seq(Message) /\ Len(queue') = Len(queue) - 1
          /\ Head(queue)[2] \in Volume
      BY <2>12, Received DEF Receive
    <3>2. db' \subseteq Volume /\ UNCHANGED <<dsc, inUse, call, monitor, todo, missing, calls>>
      BY <2>12, <3>1 DEF Receive
    <3>3. QueueWithinCalls'
      BY <2>0, <3>1, <3>2
    <3>4. QED
      BY <3>1, <3>2, <3>3
  <2>13. CASE Drained
    BY <2>13 DEF Drained
  <2>14. QED
    BY <2>1, <2>2, <2>3, <2>4, <2>5, <2>6, <2>7, <2>8, <2>9, <2>10, <2>11, <2>12, <2>13
    DEF Next, CallStep, Monitor
<1>3. QED
  BY <1>1, <1>2, PTL DEF Spec

\* Every variable has its type (the bounds of the queue and of the number of
\* missing files included).
THEOREM TypeCorrect == Spec => []TypeOK
<1>1. TypeInv => TypeOK
  <2> SUFFICES ASSUME TypeInv PROVE TypeOK
    OBVIOUS
  <2>1. missing \subseteq Volume /\ \E v : missing \subseteq {v}
    BY DEF TypeInv
  <2>2. Cardinality(missing) <= 1
    <3>0. PICK v : missing \subseteq {v}
      BY <2>1
    <3>1. IsFiniteSet({v}) /\ Cardinality({v}) = 1
      BY FS_Singleton
    <3>2. Cardinality(missing) \in Nat /\ Cardinality(missing) <= Cardinality({v})
      BY <3>0, <3>1, FS_Subset, FS_CardinalityType
    <3>3. QED
      BY <3>1, <3>2
  <2>3. Len(queue) \in Nat /\ Len(queue) <= calls
    BY DEF TypeInv, QueueWithinCalls
  <2>4. QED
    BY <2>1, <2>2, <2>3, LightosAssumption DEF TypeInv, TypeOK
<1>2. QED
  BY <1>1, TypeInvariant, PTL

-----------------------------------------------------------------------------
\* What a step that puts a message means for the table to come.
LEMMA PutDecides ==
  ASSUME TypeInv, NEW op \in {"add", "delete"}, call \in Call, Put(op), UNCHANGED db,
         NEW v \in Volume
  PROVE  EndsInTable(v)' <=> IF v = call.v THEN op = "add" ELSE EndsInTable(v)
<1>1. /\ queue' \in Seq(Message) /\ Len(queue') = Len(queue) + 1
      /\ queue'[Len(queue')] = <<op, call.v>>
      /\ \A i \in 1 .. Len(queue) : queue'[i] = queue[i]
  BY Appended DEF TypeInv
<1>2. Len(queue) \in Nat
  BY DEF TypeInv
<1>3. CASE v = call.v
  BY <1>1, <1>2, <1>3 DEF EndsInTable, AddedAt
<1>4. CASE v # call.v
  <2>1. ASSUME NEW i \in 1 .. Len(queue'), NEW o
        PROVE  queue'[i] = <<o, v>> <=> i \in 1 .. Len(queue) /\ queue[i] = <<o, v>>
    <3>1. CASE i = Len(queue')
      BY <1>1, <1>2, <1>4, <3>1
    <3>2. CASE i # Len(queue')
      BY <1>1, <1>2, <3>2
    <3>3. QED
      BY <3>1, <3>2
  <2>2. \A i : i \in 1 .. Len(queue) => i \in 1 .. Len(queue')
    BY <1>1, <1>2
  <2>3. (\A j \in 1 .. Len(queue') : queue'[j] # <<"delete", v>>)
            <=> \A j \in 1 .. Len(queue) : queue[j] # <<"delete", v>>
    BY <2>1, <2>2
  <2>4. ASSUME NEW i \in 1 .. Len(queue')
        PROVE  AddedAt(i, v)' <=> i \in 1 .. Len(queue) /\ AddedAt(i, v)
    BY <2>1, <2>2 DEF AddedAt
  <2>5. (\E i \in 1 .. Len(queue') : AddedAt(i, v)') <=> \E i \in 1 .. Len(queue) : AddedAt(i, v)
    BY <2>2, <2>4
  <2>6. QED
    BY <1>4, <2>3, <2>5 DEF EndsInTable
<1>5. QED
  BY <1>3, <1>4

\* Receiving a message changes nothing of what the table will be.
LEMMA ReceiveDecidesNothing ==
  ASSUME TypeInv, Receive, NEW v \in Volume, EndsInTable(v)'
  PROVE  EndsInTable(v)
<1>1. /\ queue' \in Seq(Message) /\ Len(queue') = Len(queue) - 1
      /\ Head(queue) = queue[1] /\ Head(queue) \in Message
      /\ \A i \in 1 .. Len(queue') : queue'[i] = queue[i + 1]
  BY Received DEF TypeInv, Receive
<1>2. Len(queue) \in Nat /\ Len(queue) >= 1
  BY DEF TypeInv, Receive
<1>3. CASE \E i \in 1 .. Len(queue') : AddedAt(i, v)'
  <2>1. PICK i \in 1 .. Len(queue') : AddedAt(i, v)'
    BY <1>3
  <2>2. i + 1 \in 1 .. Len(queue) /\ queue[i + 1] = <<"add", v>>
    BY <1>1, <1>2, <2>1 DEF AddedAt
  <2>3. ASSUME NEW j \in 1 .. Len(queue), j > i + 1
        PROVE  queue[j] # <<"delete", v>>
    <3>1. j - 1 \in 1 .. Len(queue') /\ j - 1 > i /\ (j - 1) + 1 = j
      BY <1>1, <1>2, <2>3
    <3>2. QED
      BY <1>1, <2>1, <3>1 DEF AddedAt
  <2>4. QED
    BY <2>2, <2>3 DEF EndsInTable, AddedAt
<1>4. CASE v \in db' /\ \A j \in 1 .. Len(queue') : queue'[j] # <<"delete", v>>
  <2>1. ASSUME NEW j \in 1 .. Len(queue), j > 1
        PROVE  queue[j] # <<"delete", v>>
    <3>1. j - 1 \in 1 .. Len(queue') /\ (j - 1) + 1 = j
      BY <1>1, <1>2, <2>1
    <3>2. QED
      BY <1>1, <1>4, <3>1
  <2>2. CASE queue[1] = <<"add", v>>
    <3>1. 1 \in 1 .. Len(queue) /\ AddedAt(1, v)
      BY <1>2, <2>1, <2>2 DEF AddedAt
    <3>2. QED
      BY <3>1 DEF EndsInTable
  <2>3. CASE queue[1] # <<"add", v>>
    <3>1. queue[1] # <<"delete", v>> /\ v \in db
      BY <1>1, <1>4, <2>3 DEF Receive, Message
    <3>2. QED
      BY <1>2, <2>1, <3>1 DEF EndsInTable
  <2>4. QED
    BY <2>2, <2>3
<1>5. QED
  BY <1>3, <1>4 DEF EndsInTable

-----------------------------------------------------------------------------
\* Once all messages are delivered, the monitor's table holds attached volumes
\* only, however calls failed and however messages and steps of the monitor
\* interleave (lightos_connector.py:184-201, 326-328, 352-354).
THEOREM TableStaysWithinUse == Spec => []TableWithinUse
<1>1. Init => IInv
  BY NoCallIsNoCall DEF Init, IInv, EndsInTable, AddedAt
<1>2. TypeInv /\ IInv /\ [Next]_vars => IInv'
  <2> SUFFICES ASSUME TypeInv, IInv, [Next]_vars PROVE IInv'
    OBVIOUS
  <2>1. ASSUME UNCHANGED <<db, queue>>, NEW v \in Volume PROVE EndsInTable(v)' <=> EndsInTable(v)
    BY <2>1 DEF EndsInTable, AddedAt
  <2>2. CASE UNCHANGED vars
    BY <2>1, <2>2 DEF vars, IInv, Call
  <2>3. ASSUME NEW v \in Volume, Connect(v) \/ Disconnect(v) PROVE IInv'
    BY <2>1, <2>3 DEF Connect, Disconnect, Begin, IInv
  <2>4. CASE WriteFile
    BY <2>1, <2>4, NoCallIsNoCall DEF WriteFile, At, Goto, IInv, TypeInv, Call
  <2>5. CASE WaitDevice
    BY <2>1, <2>5, NoCallIsNoCall DEF WaitDevice, At, Goto, IInv, TypeInv, Call
  <2>6. CASE PutAdd
    <3>1. call \in Call /\ Put("add") /\ UNCHANGED db
      BY <2>6, NoCallIsNoCall DEF PutAdd, At, TypeInv
    <3>2. QED
      BY <2>6, <3>1, PutDecides, NoCallIsNoCall DEF PutAdd, IInv, Call
  <2>7. CASE PutDelete
    <3>1. call \in Call /\ Put("delete") /\ UNCHANGED <<db, inUse>>
      BY <2>7, NoCallIsNoCall DEF PutDelete, At, TypeInv
    <3>2. call' \in Call /\ call'.v = call.v /\ call.v \in Volume
      BY <2>7, <3>1 DEF PutDelete, Goto, Call
    <3>3. QED
      BY <3>1, <3>2, PutDecides DEF IInv
  <2>8. CASE Flush
    BY <2>1, <2>8, NoCallIsNoCall DEF Flush, At, Goto, IInv, TypeInv, Call
  <2>9. CASE DeleteFile
    BY <2>1, <2>9, NoCallIsNoCall DEF DeleteFile, At, IInv, TypeInv, Call
  <2>10. CASE Look \/ Rewrite \/ Sleep \/ Drained
    BY <2>1, <2>10 DEF Look, Rewrite, Sleep, Drained, IInv, Call
  <2>11. CASE Receive
    BY <2>11, ReceiveDecidesNothing DEF Receive, IInv, Call
  <2>12. QED
    BY <2>2, <2>3, <2>4, <2>5, <2>6, <2>7, <2>8, <2>9, <2>10, <2>11
    DEF Next, CallStep, Monitor
<1>3. TypeInv /\ IInv => TableWithinUse
  BY DEF TypeInv, IInv, TableWithinUse, Quiet, EndsInTable
<1>4. QED
  BY <1>1, <1>2, <1>3, TypeInvariant, PTL DEF Spec
=============================================================================
