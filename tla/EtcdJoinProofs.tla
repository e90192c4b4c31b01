---------------------------- MODULE EtcdJoinProofs ----------------------------
(***************************************************************************)
(* For any number of etcdnodes and of faults: the state is type correct,   *)
(* and, with the nodes provisioned one at a time, the hosts, the Chef      *)
(* index and etcd agree on the members of the one cluster.                 *)
(***************************************************************************)
EXTENDS EtcdJoin, TLAPS

\* TypeOK in parts: numbers, flags, the runs, the units, and etcd.
Numbers == turn \in 0 .. Len(Order) /\ faults \in 0 .. MaxFaults

Flags == override \in BOOLEAN /\ lost \in BOOLEAN

StepTyped == step \in [Node -> Active \union Outcome]

RunTyped ==
  /\ peers \in [Node -> SUBSET Node]
  /\ via \in [Node -> Node \union {None}]
  /\ saved \subseteq Node /\ joined \subseteq Node

UnitTyped == unit \in [Node -> Unit]

EtcdTyped ==
  /\ enabled \subseteq Node /\ wanted \subseteq Node /\ running \subseteq Node
  /\ cluster \in [Node -> Node \union {None}]
  /\ members \in [Node -> SUBSET Node]

Typed == Numbers /\ Flags /\ StepTyped /\ RunTyped /\ UnitTyped /\ EtcdTyped

-----------------------------------------------------------------------------
\* Every variable keeps its type, however many nodes a play provisions at a time.
LEMMA TypeInvariant == Spec => []Typed
<1>1. Init => Typed
  <2>1. Order[1] \in Node /\ 0 \in 0 .. Len(Order) /\ Len(Order) \in Nat
    BY EtcdAssumption DEF Node
  <2>2. Init => Numbers /\ Flags
    <3>1. Init => turn = 0 /\ faults = 0 /\ Flags
      BY DEF Init, Flags
    <3>2. 0 \in 0 .. MaxFaults
      BY EtcdAssumption
    <3>3. QED
      BY <2>1, <3>1, <3>2 DEF Numbers
  <2>3. Init => StepTyped /\ RunTyped /\ EtcdTyped
    BY DEF Init, StepTyped, RunTyped, EtcdTyped, Outcome
  <2>4. Init => UnitTyped
    BY DEF Init, UnitTyped, Unit, NoUnit
  <2>5. QED
    BY <2>2, <2>3, <2>4 DEF Typed
<1>2. Typed /\ [Next]_vars => Typed'
  <2> SUFFICES ASSUME Typed, [Next]_vars PROVE Typed'
    OBVIOUS
  <2> USE DEF Typed, vars, play, run, disk, etcd, trouble, Next, RunStep, Goto, Fault,
          StartBatch, CommonPlay, Pass, BatchEnds, Compile, FindMember, MemberAdd, Touch,
          WriteUnit, Enable, Restart, Starting, WaitMembership, Users, Save, EtcdStarts,
          RunDies, Reboot
  <2>1. Numbers'
    BY EtcdAssumption DEF Numbers
  <2>2. Flags'
    <3>1. override' \in BOOLEAN
      BY DEF Flags
    <3>2. lost' \in BOOLEAN
      BY DEF Flags
    <3>3. QED
      BY <3>1, <3>2 DEF Flags
  <2>3. StepTyped'
    BY EtcdAssumption DEF StepTyped, Active, Outcome
  <2>4. RunTyped'
    BY DEF RunTyped
  <2>5. UnitTyped'
    <3>1. UNCHANGED unit \/ \E n \in Node : unit' = [unit EXCEPT ![n] = InitialCluster(n)]
      OBVIOUS
    <3>2. \A n \in Node : InitialCluster(n) \in Unit
      BY DEF InitialCluster, Unit, RunTyped
    <3>3. QED
      BY <3>1, <3>2 DEF UnitTyped
  <2>6. EtcdTyped'
    BY DEF EtcdTyped
  <2>7. QED
    BY <2>1, <2>2, <2>3, <2>4, <2>5, <2>6
<1>3. QED
  BY <1>1, <1>2, PTL DEF Spec

\* What TypeOK says of the hosts, the Chef index, systemd and etcd.
THEOREM TypeCorrect == Spec => []TypeOK
<1>1. Typed => TypeOK
  BY DEF Typed, Numbers, Flags, StepTyped, RunTyped, UnitTyped, EtcdTyped, TypeOK
<1>2. QED
  BY TypeInvariant, <1>1, PTL

-----------------------------------------------------------------------------
(***************************************************************************)
(* The inductive invariant: with one node at a time, the index and the     *)
(* member list grow in the order of the inventory.                         *)
(***************************************************************************)

\* The node that founds the cluster.
First == Order[1]

\* All nodes before the i-th are in the index.
Reached(i) == \A j \in DOMAIN Order : j < i => Order[j] \in saved

\* Only the node whose turn it is runs the recipe; the play came to it because
\* all nodes before it completed theirs.
TurnMatches ==
  /\ turn # 0 => Reached(turn)
  /\ override => turn \in {0, 1}
  /\ \A n \in Node : step[n] \in Active => turn # 0 /\ n = Order[turn]
  /\ turn # 0 /\ ~override /\ step[Order[turn]] = "ok" => Order[turn] \in saved

\* The index has all nodes before one it lists, or that is a member: at most the
\* next node in line is a member and not yet in the index.
IndexMatches ==
  \A i \in DOMAIN Order : Order[i] \in saved \union members[First] => Reached(i)

\* Only the first node is ever told to found a cluster.
OneFounder ==
  /\ \A n \in Node : cluster[n] \in {None, First}
  /\ \A n \in Node : cluster[n] = First => cluster[First] = First
  /\ \A n \in running : cluster[n] = First
  /\ \A n \in Node : unit[n].state = "new" => n = First
  /\ \A n \in Node : cluster[n] = None => members[n] = {}

\* A node that is in the index, or skips its registration, is a member.
SavedJoined ==
  /\ \A n \in saved : cluster[n] = First /\ n \in members[First]
  /\ joined \subseteq members[First]

\* What a run has read and done by the step it has reached.
RunMatches ==
  \A n \in Node :
    /\ step[n] \in Active \ {"compile"} => peers[n] = saved \ {n}
    /\ step[n] = "touch" => n \in members[First]
    /\ step[n] \in {"unit", "enable", "restart", "starting"} => n = First \/ n \in members[First]
    /\ step[n] \in {"enable", "restart", "starting"} => unit[n] = InitialCluster(n)
    /\ step[n] \in {"users", "save"} => cluster[n] = First /\ n \in members[First]

IInv == TurnMatches /\ IndexMatches /\ OneFounder /\ SavedJoined /\ RunMatches

-----------------------------------------------------------------------------
\* The inductive invariant is preserved by every step of a run, of the plays, of
\* etcd, and by every fault, if a play provisions one node at a time.
LEMMA StepKeepsInvariant ==
  ASSUME BatchSize = 1, Typed, IInv, [Next]_vars PROVE IInv'
<1>1. /\ First \in Node /\ None # First
      /\ 1 \in DOMAIN Order /\ DOMAIN Order = 1 .. Len(Order) /\ Len(Order) \in Nat
  BY EtcdAssumption DEF Node, First
<1>2. \A i \in DOMAIN Order : Order[i] \in Node
  BY DEF Node
<1>3. \A t \in DOMAIN Order : Batch(t) = {Order[t]}
  BY <1>1 DEF Batch
<1>4. turn # 0 => turn \in DOMAIN Order /\ InPlay = {Order[turn]}
  BY <1>1, <1>3 DEF Typed, Numbers, IInv, TurnMatches, InPlay
<1> USE <1>1, <1>2, EtcdAssumption
    DEF First, Typed, StepTyped, RunTyped, UnitTyped, EtcdTyped, Unit, Active, Outcome,
        IInv, TurnMatches, IndexMatches, OneFounder, SavedJoined, RunMatches, Reached,
        play, run, disk, etcd, trouble, Goto
<1>5. CASE UNCHANGED vars
  BY <1>5 DEF vars, InitialCluster, InitEtcd
<1>6. CASE CommonPlay
  BY <1>6 DEF CommonPlay
<1>7. CASE Pass
  BY <1>7, <1>3 DEF Pass, StartBatch
<1>8. CASE BatchEnds
  BY <1>8, <1>3, <1>4 DEF BatchEnds, StartBatch, Numbers
<1>9. ASSUME NEW n \in Node, Compile(n) PROVE IInv'
  BY <1>9, <1>4 DEF Compile
<1>10. ASSUME NEW n \in Node, FindMember(n) PROVE IInv'
  <2>1. TurnMatches' /\ IndexMatches'
    BY <1>10, <1>4 DEF FindMember, InitEtcd, Healthy
  <2>2. OneFounder' /\ SavedJoined'
    <3>1. OneFounder'
      BY <1>10, <1>4 DEF FindMember, InitEtcd, Healthy
    <3>2. SavedJoined'
      BY <1>10, <1>4 DEF FindMember, InitEtcd, Healthy
    <3>3. QED
      BY <3>1, <3>2
  <2>3. RunMatches'
    <3>1. UNCHANGED <<peers, saved, unit, cluster, members>> /\ step[n] = "find"
      BY <1>10 DEF FindMember
    <3>2. step'[n] \in {"unit", "add", "failed"} /\ step' = [step EXCEPT ![n] = step'[n]]
      BY <1>10 DEF FindMember
    <3>3. step'[n] = "unit" => n = First \/ n \in members[First]
      <4>1. InitEtcd(n) => n = First
        <5>1. turn \in DOMAIN Order /\ n = Order[turn] /\ Reached(turn)
          BY <3>1, <1>4
        <5>2. InitEtcd(n) => First \notin saved \ {n}
          <6>1. peers[n] = saved \ {n}
            BY <3>1, SMTT(30)
          <6>2. QED
            BY <6>1, Zenon DEF InitEtcd
        <5>3. turn # 1 => First \in saved
          BY <5>1
        <5>4. QED
          BY <5>1, <5>2, <5>3
      <4>2. n \in joined => n \in members[First]
        BY <3>1
      <4>3. \A e \in Node : Healthy(e) => cluster[e] = First
        BY DEF Healthy
      <4>4. step'[n] = "unit" /\ ~InitEtcd(n) /\ n \notin joined =>
              \E e \in peers[n] : Healthy(e) /\ n \in members[cluster[e]]
        BY <1>10 DEF FindMember
      <4>5. QED
        BY <4>1, <4>2, <4>3, <4>4
    <3>4. QED
      BY <3>1, <3>2, <3>3, SMTT(30) DEF InitialCluster
  <2>4. QED
    BY <2>1, <2>2, <2>3
<1>11. ASSUME NEW n \in Node, MemberAdd(n) PROVE IInv'
  <2>1. TurnMatches' /\ IndexMatches'
    BY <1>11, <1>4 DEF MemberAdd, Healthy, MayAdd
  <2>2. OneFounder' /\ SavedJoined'
    <3>1. OneFounder'
      <4>1. UNCHANGED <<cluster, running, disk>>
        BY <1>11 DEF MemberAdd
      <4>2. \A m \in Node : cluster[m] = None => members'[m] = {}
        BY <1>11, <1>4 DEF MemberAdd, Healthy, MayAdd
      <4>3. QED
        BY <4>1, <4>2
    <3>2. SavedJoined'
      BY <1>11, <1>4 DEF MemberAdd, Healthy, MayAdd
    <3>3. QED
      BY <3>1, <3>2
  <2>3. RunMatches'
    BY <1>11, <1>4 DEF MemberAdd, Healthy, MayAdd, InitialCluster, InitEtcd
  <2>4. QED
    BY <2>1, <2>2, <2>3
<1>12. ASSUME NEW n \in Node, Touch(n) PROVE IInv'
  BY <1>12, <1>4 DEF Touch
<1>13. ASSUME NEW n \in Node, WriteUnit(n) PROVE IInv'
  <2>1. TurnMatches' /\ IndexMatches'
    BY <1>13, <1>4 DEF WriteUnit, InitialCluster, InitEtcd
  <2>2. OneFounder' /\ SavedJoined'
    BY <1>13, <1>4 DEF WriteUnit, InitialCluster, InitEtcd
  <2>3. RunMatches'
    <3>1. UNCHANGED <<play, peers, via, saved, joined, enabled, etcd, trouble>>
      BY <1>13 DEF WriteUnit
    <3>2. \A m \in Node : InitialCluster(m)' = InitialCluster(m)
      BY <3>1 DEF InitialCluster, InitEtcd
    <3>3. step[n] = "unit" /\ step' = [step EXCEPT ![n] = step'[n]] /\ step'[n] \in {"wait", "enable"}
      BY <1>13 DEF WriteUnit
    <3>4. unit' = [unit EXCEPT ![n] = InitialCluster(n)]
      BY <1>13 DEF WriteUnit
    <3>5. \A m \in Node : m # n => step'[m] = step[m] /\ unit'[m] = unit[m]
      BY <3>3, <3>4
    <3>6. unit'[n] = InitialCluster(n)
      BY <3>4
    <3>7. QED
      BY <3>1, <3>2, <3>3, <3>5, <3>6
  <2>4. QED
    BY <2>1, <2>2, <2>3
<1>14. ASSUME NEW n \in Node, Enable(n) PROVE IInv'
  <2>1. TurnMatches' /\ IndexMatches'
    BY <1>14, <1>4 DEF Enable
  <2>2. OneFounder' /\ SavedJoined'
    BY <1>14, <1>4 DEF Enable
  <2>3. RunMatches'
    BY <1>14, <1>4 DEF Enable, InitialCluster, InitEtcd
  <2>4. QED
    BY <2>1, <2>2, <2>3
<1>15. ASSUME NEW n \in Node, Restart(n) PROVE IInv'
  <2>1. TurnMatches' /\ IndexMatches'
    BY <1>15, <1>4 DEF Restart
  <2>2. OneFounder' /\ SavedJoined'
    BY <1>15, <1>4 DEF Restart
  <2>3. RunMatches'
    BY <1>15, <1>4 DEF Restart, InitialCluster, InitEtcd
  <2>4. QED
    BY <2>1, <2>2, <2>3
<1>16. ASSUME NEW n \in Node, Starting(n) PROVE IInv'
  BY <1>16, <1>4 DEF Starting, CanStart
<1>17. ASSUME NEW n \in Node, WaitMembership(n) PROVE IInv'
  BY <1>17, <1>4 DEF WaitMembership
<1>18. ASSUME NEW n \in Node, Users(n) PROVE IInv'
  BY <1>18, <1>4 DEF Users, Healthy
<1>19. ASSUME NEW n \in Node, Save(n) PROVE IInv'
  BY <1>19, <1>4 DEF Save
<1>20. ASSUME NEW n \in Node, EtcdStarts(n) PROVE IInv'
  <2>1. /\ running' = running \union {n} /\ UNCHANGED <<play, run, disk, wanted, trouble>>
        /\ \A m \in Node : InitialCluster(m)' = InitialCluster(m)
    BY <1>20 DEF EtcdStarts, InitialCluster, InitEtcd
  <2>2. CASE cluster[n] # None
    BY <1>20, <2>1, <2>2 DEF EtcdStarts
  <2>3. CASE cluster[n] = None /\ unit[n].state = "new"
    <3>1. /\ n = First
          /\ cluster' = [cluster EXCEPT ![First] = First]
          /\ members' = [members EXCEPT ![First] = {First}]
      BY <1>20, <2>3 DEF EtcdStarts
    <3>2. /\ members[First] = {} /\ saved = {} /\ joined = {}
          /\ \A m \in Node : cluster[m] = None
      BY <2>3, <3>1
    <3>3. \A i \in DOMAIN Order : Order[i] = First => i = 1
      BY <1>1
    <3>4. \A i \in DOMAIN Order : i = 1 => ~(\E j \in DOMAIN Order : j < i)
      BY <1>1
    <3>5. TurnMatches'
      BY <2>1
    <3>6. IndexMatches'
      BY <2>1, <3>1, <3>2, <3>3, <3>4
    <3>7. OneFounder'
      BY <2>1, <3>1, <3>2
    <3>8. SavedJoined' /\ RunMatches'
      BY <2>1, <3>1, <3>2
    <3>9. QED
      BY <3>5, <3>6, <3>7, <3>8
  <2>4. CASE cluster[n] = None /\ unit[n].state # "new"
    <3>1. /\ UNCHANGED members /\ cluster' = [cluster EXCEPT ![n] = First]
          /\ cluster[First] = First
      BY <1>20, <2>4 DEF EtcdStarts, CanStart, Matches
    <3>2. TurnMatches' /\ IndexMatches'
      BY <2>1, <3>1
    <3>3. OneFounder' /\ SavedJoined' /\ RunMatches'
      BY <2>1, <3>1
    <3>4. QED
      BY <3>2, <3>3
  <2>5. QED
    BY <2>2, <2>3, <2>4
<1>21. ASSUME NEW n \in Node, RunDies(n) PROVE IInv'
  <2>1. TurnMatches' /\ IndexMatches'
    BY <1>21, <1>4 DEF RunDies
  <2>2. OneFounder' /\ SavedJoined'
    BY <1>21, <1>4 DEF RunDies
  <2>3. RunMatches'
    BY <1>21, <1>4 DEF RunDies, InitialCluster, InitEtcd
  <2>4. QED
    BY <2>1, <2>2, <2>3
<1>22. ASSUME NEW n \in Node, Reboot(n) PROVE IInv'
  <2>1. TurnMatches' /\ IndexMatches'
    BY <1>22, <1>4 DEF Reboot
  <2>2. OneFounder' /\ SavedJoined'
    BY <1>22, <1>4 DEF Reboot
  <2>3. RunMatches'
    BY <1>22, <1>4 DEF Reboot, InitialCluster, InitEtcd
  <2>4. QED
    BY <2>1, <2>2, <2>3
<1>23. QED
  BY <1>5, <1>6, <1>7, <1>8, <1>9, <1>10, <1>11, <1>12, <1>13, <1>14,
     <1>15, <1>16, <1>17, <1>18, <1>19, <1>20, <1>21, <1>22
  DEF Next, RunStep

\* Hosts, Chef index and etcd agree, for any number of nodes and of faults: there
\* is one cluster, the index names members only, and a node that joins was given
\* exactly the member list (etcd-member.rb:44-109).  The plays' serial has to be
\* one, as in the Makefile: two nodes that run at the same time read the index
\* before either is in it.
THEOREM MembersStayAgreed ==
  ASSUME BatchSize = 1 PROVE Spec => []MembersAgree
<1>1. Init => IInv
  <2>1. First \in Node /\ None # First
    BY EtcdAssumption DEF Node, First
  <2>2. QED
    BY <2>1, EtcdAssumption
    DEF Init, NoUnit, IInv, TurnMatches, IndexMatches, OneFounder, SavedJoined, RunMatches,
        Reached, Active
<1>2. Typed /\ IInv /\ [Next]_vars => IInv'
  BY StepKeepsInvariant
<1>3. Typed /\ IInv => MembersAgree
  <2> SUFFICES ASSUME Typed, IInv PROVE MembersAgree
    OBVIOUS
  <2>1. First \in Node /\ None # First /\ 1 \in DOMAIN Order
    BY EtcdAssumption DEF Node, First
  <2>2. OneCluster
    BY DEF OneCluster, IInv, OneFounder
  <2>3. IndexedAreMembers
    BY <2>1 DEF IndexedAreMembers, IInv, SavedJoined
  <2>4. JoinListMatches
    <3> SUFFICES ASSUME NEW n \in Node, step[n] = "starting", cluster[n] = None,
                        unit[n].state = "existing"
                 PROVE  members[First] = unit[n].list
      BY <2>1 DEF JoinListMatches
    <3>1. peers[n] = saved \ {n} /\ unit[n] = InitialCluster(n)
      BY DEF IInv, RunMatches, Active
    <3>2. peers[n] # {} /\ unit[n].list = saved \union {n}
      BY <3>1 DEF InitialCluster, InitEtcd
    <3>3. turn \in DOMAIN Order /\ n = Order[turn] /\ Reached(turn)
      BY EtcdAssumption DEF IInv, TurnMatches, Active, Typed, Numbers
    <3>4. n \notin saved
      BY <2>1 DEF IInv, SavedJoined
    <3>5. n # First
      <4>1. PICK i \in DOMAIN Order : Order[i] \in saved
        BY <3>1, <3>2, EtcdAssumption DEF Typed, RunTyped, Node
      <4>2. Reached(i) /\ i \in Nat /\ i >= 1
        BY <4>1, EtcdAssumption DEF IInv, IndexMatches
      <4>3. First \in saved
        BY <2>1, <4>1, <4>2 DEF Reached, First
      <4>4. QED
        BY <3>4, <4>3
    <3>6. n \in members[First] /\ saved \subseteq members[First]
      BY <3>5 DEF IInv, RunMatches, SavedJoined
    <3>7. members[First] \subseteq saved \union {n}
      <4> SUFFICES ASSUME NEW m \in members[First], m \notin saved PROVE m = n
        OBVIOUS
      <4>1. PICK i \in DOMAIN Order : m = Order[i]
        BY <2>1 DEF Typed, EtcdTyped, Node
      <4>2. Reached(i)
        BY <4>1 DEF IInv, IndexMatches
      <4>3. ~(i < turn) /\ ~(turn < i)
        BY <3>3, <3>4, <4>1, <4>2 DEF Reached
      <4>4. QED
        BY <3>3, <4>1, <4>3, EtcdAssumption
    <3>8. QED
      BY <3>2, <3>6, <3>7
  <2>5. QED
    BY <2>2, <2>3, <2>4 DEF MembersAgree
<1>4. QED
  BY <1>1, <1>2, <1>3, TypeInvariant, PTL DEF Spec
=============================================================================
