------------------------------ MODULE EtcdJoin ------------------------------
(***************************************************************************)
(* How the etcd cluster grows: the recipe etcd-member, run on one etcdnode *)
(* after the other by the plays of configure-common-node.yml and           *)
(* etcdnodes.yml.  A run asks the Chef index which etcdnodes there are; a  *)
(* node that finds no other one founds a cluster, every other node         *)
(* registers with a healthy member of the existing cluster and is then     *)
(* started with a list of the members it expects.  The index only knows    *)
(* the nodes that have completed a run.                                    *)
(*                                                                         *)
(* etcd 3.3, the Chef server and Ansible are external, modelled by what    *)
(* the recipe and the plays observe of them.  A cluster is identified with *)
(* the node that founded it.                                               *)
(***************************************************************************)
EXTENDS Naturals, Sequences, FiniteSets

CONSTANTS
  Order,      \* the etcdnodes in the order of the inventory
  BatchSize,  \* the plays' serial: the Makefile passes step=1
  FailAt,     \* the steps of a run at which a fault may hit it
  MaxFaults,  \* bound: number of faults in a behaviour
  None

Node == {Order[i] : i \in DOMAIN Order}

\* The steps of a run of the recipe, in order.
Active == {"compile", "find", "add", "touch", "unit", "enable", "restart",
           "starting", "wait", "users", "save"}

ASSUME EtcdAssumption ==
  /\ Order \in Seq(Node) /\ Len(Order) > 0
  /\ \A i, j \in DOMAIN Order : Order[i] = Order[j] => i = j
  /\ BatchSize \in Nat \ {0}
  /\ FailAt \subseteq Active
  /\ MaxFaults \in Nat
  /\ None \notin Node \union {"new", "existing"}

VARIABLES
  turn,      \* first node of the current batch in Order; 0: no play runs
  override,  \* the play runs chef-client -o, which never saves the node
  step,      \* step[n]: where the run of n is, or how the last one ended
  peers,     \* peers[n]: the other etcdnodes in the index when n compiled
  via,       \* via[n]: the shell variable member of the run
  saved,     \* the nodes whose expanded roles the index knows
  joined,    \* the nodes with the file /var/lib/etcd/joined
  unit,      \* unit[n]: what etcd.service says of the initial cluster
  enabled,   \* the nodes on which etcd.service is enabled
  wanted,    \* the nodes on which systemd keeps (re)starting etcd
  running,   \* the nodes on which etcd runs
  cluster,   \* cluster[n]: the cluster in the data directory of n, or None
  members,   \* members[c]: the member list of the cluster founded by c
  faults,    \* number of faults so far
  lost       \* a fault hit a run at a step no later run makes up for

play == <<turn, override>>
run  == <<step, peers, via>>
disk == <<saved, joined, unit, enabled>>
etcd == <<wanted, running, cluster, members>>
trouble == <<faults, lost>>
vars == <<play, run, disk, etcd, trouble>>

Outcome == {"idle", "ok", "failed"}
NoUnit == [state |-> None, list |-> {}]
Unit == [state : {"new", "existing", None}, list : SUBSET Node]

TypeOK ==
  /\ turn \in 0 .. Len(Order)
  /\ override \in BOOLEAN
  /\ step \in [Node -> Active \union Outcome]
  /\ peers \in [Node -> SUBSET Node]
  /\ via \in [Node -> Node \union {None}]
  /\ saved \subseteq Node /\ joined \subseteq Node
  /\ unit \in [Node -> Unit]
  /\ enabled \subseteq Node /\ wanted \subseteq Node /\ running \subseteq Node
  /\ cluster \in [Node -> Node \union {None}]
  /\ members \in [Node -> SUBSET Node]
  /\ faults \in 0 .. MaxFaults /\ lost \in BOOLEAN

\* The hosts are registered with the Chef server and have not run anything.
Init ==
  /\ turn = 0 /\ override = FALSE
  /\ step = [n \in Node |-> "idle"]
  /\ peers = [n \in Node |-> {}]
  /\ via = [n \in Node |-> None]
  /\ saved = {} /\ joined = {}
  /\ unit = [n \in Node |-> NoUnit]
  /\ enabled = {} /\ wanted = {} /\ running = {}
  /\ cluster = [n \in Node |-> None]
  /\ members = [n \in Node |-> {}]
  /\ faults = 0 /\ lost = FALSE

-----------------------------------------------------------------------------
(***************************************************************************)
(* etcd, as the recipe sees it.                                            *)
(***************************************************************************)

Quorum(c) == 2 * Cardinality(members[c] \cap running) > Cardinality(members[c])

\* "endpoint health" asks for a read that needs a quorum.
Healthy(n) == n \in running /\ Quorum(cluster[n])

\* A cluster refuses a member it has, and any other member while one of its
\* members is unreachable.
MayAdd(c, n) == n \notin members[c] /\ members[c] \subseteq running

\* A member from which a new member can learn the cluster: the list the new
\* member was given has to be the member list.
Matches(n, p) ==
  p \in unit[n].list \cap running /\ members[cluster[p]] = unit[n].list

CanStart(n) ==
  \/ cluster[n] # None
  \/ unit[n].state = "new"
  \/ unit[n].state = "existing" /\ \E p \in Node : Matches(n, p)

\* The unit says Restart=always: systemd starts etcd until it stays up.  The
\* initial cluster counts only while there is no data directory.
EtcdStarts(n) ==
  /\ n \in wanted \ running
  /\ CanStart(n)
  /\ running' = running \union {n}
  /\ IF cluster[n] # None
     THEN UNCHANGED <<cluster, members>>
     ELSE IF unit[n].state = "new"
     THEN /\ cluster' = [cluster EXCEPT ![n] = n]
          /\ members' = [members EXCEPT ![n] = {n}]
     ELSE \E p \in Node :
            /\ Matches(n, p)
            /\ cluster' = [cluster EXCEPT ![n] = cluster[p]]
            /\ UNCHANGED members
  /\ UNCHANGED <<play, run, disk, wanted, trouble>>

-----------------------------------------------------------------------------
(***************************************************************************)
(* The plays.                                                              *)
(***************************************************************************)

Batch(t) ==
  IF t = 0 THEN {} ELSE {Order[i] : i \in {j \in DOMAIN Order : t <= j /\ j < t + BatchSize}}

StartBatch(t) ==
  /\ turn' = t
  /\ step' = [n \in Node |-> IF n \in Batch(t) THEN "compile" ELSE step[n]]

\* "Provision the first etcd server": the recipe alone, on the first node.
CommonPlay ==
  /\ turn = 0
  /\ override' = TRUE
  /\ turn' = 1
  /\ step' = [step EXCEPT ![Order[1]] = "compile"]
  /\ UNCHANGED <<peers, via, disk, etcd, trouble>>

\* One pass of make run-chef-client-etcdnodes.  The second pass follows
\* whatever became of the first, and the operator may repeat both.
Pass ==
  /\ turn = 0
  /\ override' = FALSE
  /\ StartBatch(1)
  /\ UNCHANGED <<peers, via, disk, etcd, trouble>>

InPlay == IF override THEN {Order[1]} ELSE Batch(turn)

\* Mutant: a play goes on after a batch that failed.
BatchEndsRegardless ==
  /\ turn # 0
  /\ \A n \in InPlay : step[n] \in Outcome
  /\ IF ~override /\ turn + BatchSize <= Len(Order)
     THEN StartBatch(turn + BatchSize)
     ELSE turn' = 0 /\ UNCHANGED step
  /\ UNCHANGED <<override, peers, via, disk, etcd, trouble>>

\* Mutant: the play counts one host too many.
BatchEndsPastLast ==
  /\ turn # 0
  /\ \A n \in InPlay : step[n] \in Outcome
  /\ IF ~override /\ turn + BatchSize <= Len(Order) + 1
        /\ \E n \in InPlay : step[n] = "ok"
     THEN StartBatch(turn + BatchSize)
     ELSE turn' = 0 /\ UNCHANGED step
  /\ UNCHANGED <<override, peers, via, disk, etcd, trouble>>

\* A play stops when every host of a batch failed.
BatchEnds ==
  /\ turn # 0
  /\ \A n \in InPlay : step[n] \in Outcome
  /\ IF ~override /\ turn + BatchSize <= Len(Order)
        /\ \E n \in InPlay : step[n] = "ok"
     THEN StartBatch(turn + BatchSize)
     ELSE turn' = 0 /\ UNCHANGED step
  /\ UNCHANGED <<override, peers, via, disk, etcd, trouble>>

-----------------------------------------------------------------------------
(***************************************************************************)
(* A run of the recipe.                                                    *)
(***************************************************************************)

Goto(n, s) == step' = [step EXCEPT ![n] = s]

\* Mutant: the index learns of a node when its run starts.
CompileSaves(n) ==
  /\ step[n] = "compile"
  /\ peers' = [peers EXCEPT ![n] = saved \ {n}]
  /\ saved' = saved \union {n}
  /\ via' = [via EXCEPT ![n] = None]
  /\ Goto(n, "find")
  /\ UNCHANGED <<play, joined, unit, enabled, etcd, trouble>>

\* The search for roles:etcdnode, made while the recipe is compiled.
Compile(n) ==
  /\ step[n] = "compile"
  /\ peers' = [peers EXCEPT ![n] = saved \ {n}]
  /\ via' = [via EXCEPT ![n] = None]
  /\ Goto(n, "find")
  /\ UNCHANGED <<play, disk, etcd, trouble>>

InitEtcd(n) == peers[n] = {}

\* Mutant: the script does not look for the node in the member list.
FindMemberUnchecked(n) ==
  /\ step[n] = "find"
  /\ IF InitEtcd(n) \/ n \in joined
     THEN Goto(n, "unit") /\ UNCHANGED via
     ELSE \/ \E e \in peers[n] :
               /\ Healthy(e)
               /\ via' = [via EXCEPT ![n] = e]
               /\ Goto(n, "add")
          \/ /\ \A e \in peers[n] : ~Healthy(e)
             /\ Goto(n, "failed") /\ UNCHANGED via
  /\ UNCHANGED <<play, peers, disk, etcd, trouble>>

\* The script is skipped on a node that founds the cluster or that has joined.
FindMember(n) ==
  /\ step[n] = "find"
  /\ IF InitEtcd(n) \/ n \in joined
     THEN Goto(n, "unit") /\ UNCHANGED via
     ELSE \/ \E e \in peers[n] :
               /\ Healthy(e)
               /\ via' = [via EXCEPT ![n] = e]
               /\ Goto(n, IF n \in members[cluster[e]] THEN "unit" ELSE "add")
          \/ /\ \A e \in peers[n] : ~Healthy(e)
             /\ Goto(n, "failed") /\ UNCHANGED via
  /\ UNCHANGED <<play, peers, disk, etcd, trouble>>

MemberAdd(n) ==
  /\ step[n] = "add"
  /\ LET c == cluster[via[n]]
     IN  IF Healthy(via[n]) /\ MayAdd(c, n)
         THEN members' = [members EXCEPT ![c] = @ \union {n}] /\ Goto(n, "touch")
         ELSE Goto(n, "failed") /\ UNCHANGED members
  /\ UNCHANGED <<play, peers, via, disk, wanted, running, cluster, trouble>>

Touch(n) ==
  /\ step[n] = "touch"
  /\ joined' = joined \union {n}
  /\ Goto(n, "unit")
  /\ UNCHANGED <<play, peers, via, saved, unit, enabled, etcd, trouble>>

\* Mutant: the node forgets itself in the list of the existing cluster.
InitialClusterOfPeers(n) ==
  IF InitEtcd(n) THEN [state |-> "new", list |-> {n}]
                 ELSE [state |-> "existing", list |-> peers[n]]

InitialCluster(n) ==
  IF InitEtcd(n) THEN [state |-> "new", list |-> {n}]
                 ELSE [state |-> "existing", list |-> peers[n] \union {n}]

\* Only a changed unit notifies: enable and reload, then restart.
WriteUnit(n) ==
  /\ step[n] = "unit"
  /\ unit' = [unit EXCEPT ![n] = InitialCluster(n)]
  /\ Goto(n, IF unit[n] = InitialCluster(n) THEN "wait" ELSE "enable")
  /\ UNCHANGED <<play, peers, via, saved, joined, enabled, etcd, trouble>>

Enable(n) ==
  /\ step[n] = "enable"
  /\ enabled' = enabled \union {n}
  /\ Goto(n, "restart")
  /\ UNCHANGED <<play, peers, via, saved, joined, unit, etcd, trouble>>

Restart(n) ==
  /\ step[n] = "restart"
  /\ wanted' = wanted \union {n}
  /\ running' = running \ {n}
  /\ Goto(n, "starting")
  /\ UNCHANGED <<play, peers, via, disk, cluster, members, trouble>>

\* The unit is of type notify: the restart returns when etcd is up, or fails.
Starting(n) ==
  /\ step[n] = "starting"
  /\ \/ n \in running /\ Goto(n, "wait")
     \/ n \notin running /\ ~CanStart(n) /\ Goto(n, "failed")
  /\ UNCHANGED <<play, peers, via, disk, etcd, trouble>>

\* The member list is read from the node's own etcd; a node that systemd is
\* still starting is waited for.
WaitMembership(n) ==
  /\ step[n] = "wait"
  /\ \/ n \in running /\ n \in members[cluster[n]] /\ Goto(n, "users")
     \/ n \notin running /\ ~(n \in wanted /\ CanStart(n)) /\ Goto(n, "failed")
  /\ UNCHANGED <<play, peers, via, disk, etcd, trouble>>

\* Users, authentication and roles are writes to the cluster.
Users(n) ==
  /\ step[n] = "users"
  /\ Goto(n, IF Healthy(n) THEN "save" ELSE "failed")
  /\ UNCHANGED <<play, peers, via, disk, etcd, trouble>>

\* chef-client saves the node, with its roles, at the end of a successful run.
Save(n) ==
  /\ step[n] = "save"
  /\ saved' = IF override THEN saved ELSE saved \union {n}
  /\ Goto(n, "ok")
  /\ UNCHANGED <<play, peers, via, joined, unit, enabled, etcd, trouble>>

RunStep(n) ==
  \/ Compile(n) \/ FindMember(n) \/ MemberAdd(n) \/ Touch(n) \/ WriteUnit(n)
  \/ Enable(n) \/ Restart(n) \/ Starting(n) \/ WaitMembership(n) \/ Users(n)
  \/ Save(n)

-----------------------------------------------------------------------------
\* From touch to restart a run does what a later one takes for done.
Fault(n) ==
  /\ faults < MaxFaults /\ faults' = faults + 1
  /\ lost' = (lost \/ step[n] \in {"touch", "unit", "enable", "restart"})

\* The run dies between two steps: a command failed, or chef-client was killed.
RunDies(n) ==
  /\ Fault(n)
  /\ step[n] \in FailAt
  /\ Goto(n, "failed")
  /\ UNCHANGED <<play, peers, via, disk, etcd>>

\* The host reboots; systemd starts what is enabled.
Reboot(n) ==
  /\ Fault(n)
  /\ step[n] \in FailAt \union Outcome
  /\ step' = [step EXCEPT ![n] = IF @ \in Active THEN "failed" ELSE @]
  /\ running' = running \ {n}
  /\ wanted' = IF n \in enabled THEN wanted \union {n} ELSE wanted \ {n}
  /\ UNCHANGED <<play, peers, via, disk, cluster, members>>

Next ==
  \/ CommonPlay \/ Pass \/ BatchEnds
  \/ \E n \in Node : RunStep(n) \/ EtcdStarts(n) \/ RunDies(n) \/ Reboot(n)

Spec == Init /\ [][Next]_vars

\* A run makes progress, systemd keeps starting etcd, and the operator runs
\* the passes until they succeed.
Fairness ==
  /\ SF_vars(Pass)
  /\ WF_vars(BatchEnds)
  /\ \A n \in Node : WF_vars(RunStep(n)) /\ WF_vars(EtcdStarts(n))

FairSpec == Spec /\ Fairness

-----------------------------------------------------------------------------
\* No two nodes ever belong to different clusters: only one node is started
\* with the initial state "new" (etcd-member.rb:94-109).
OneCluster ==
  \A m, n \in Node :
    cluster[m] # None /\ cluster[n] # None => cluster[m] = cluster[n]

\* The Chef index never lists a node that is not a member of the cluster, so
\* a list of initial members built from the index names members only.
IndexedAreMembers ==
  \A n \in saved : cluster[n] # None /\ n \in members[cluster[n]]

\* A node that is started for the first time with the state "existing" was
\* given exactly the member list of the cluster: etcd would refuse to start
\* with any other list (etcd-member.rb:101-108).
JoinListMatches ==
  \A n \in Node :
    step[n] = "starting" /\ cluster[n] = None /\ unit[n].state = "existing"
      => \E c \in Node : members[c] = unit[n].list

\* What the hosts, the Chef index and etcd hold for the cluster agree, whichever
\* runs died half way (etcd-member.rb:44-109).
MembersAgree == OneCluster /\ IndexedAreMembers /\ JoinListMatches

\* Once the faults are over, all nodes are saved members of a running cluster,
\* unless one hit a run between its registration and the restart of etcd: a
\* repeated run makes up for any other (etcd-member.rb:47-138).
Completes == <>lost \/ <>[](saved = Node /\ \A n \in Node : Healthy(n))
=============================================================================
