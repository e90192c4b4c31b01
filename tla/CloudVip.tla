------------------------------ MODULE CloudVip ------------------------------
(***************************************************************************)
(* The cloud's virtual IP address.  Each headnode adds the address to its  *)
(* loopback interface, or deletes it from there, in the watch handler      *)
(* cloud-ip-watch.  Two watches run that handler, one for the checks of    *)
(* haproxy and one for those of the resolver (dns); the runs of one watch  *)
(* are serial, those of the two watches are not.  A run compares its node  *)
(* with the leader of the Consul servers, as its own agent knows it, and   *)
(* looks at the check of its own service only.                             *)
(***************************************************************************)
EXTENDS Naturals

CONSTANTS
  Node,        \* the headnodes
  MaxChanges,  \* bound: leader changes and check flips in a behaviour
  None         \* no leader

Service == {"haproxy", "dns"}

ASSUME VipAssumption == None \notin Node /\ MaxChanges \in Nat

VARIABLES
  known,    \* known[n]: the leader as the agent of n knows it
  check,    \* check[n][s]: status of the check of service s on n
  vip,      \* vip[n]: the address is on the loopback interface of n
  pending,  \* pending[n][s]: the watch of s on n has an undelivered result
  run,      \* run[n][s]: what the run of that watch is about to do
  seen,     \* seen[n][s]: own check status in the snapshot of that run
  changes   \* leader changes and check flips so far

vars == <<known, check, vip, pending, run, seen, changes>>

\* A check that fails exits with 1, which is a warning; all the handler asks is
\* whether a check passes.
Status == {"passing", "failing"}
RunStep == {"idle", "readLeader", "add", "remove"}

TypeOK ==
  /\ known \in [Node -> Node \union {None}]
  /\ check \in [Node -> [Service -> Status]]
  /\ vip \in [Node -> BOOLEAN]
  /\ pending \in [Node -> [Service -> BOOLEAN]]
  /\ run \in [Node -> [Service -> RunStep]]
  /\ seen \in [Node -> [Service -> Status]]
  /\ changes \in 0 .. MaxChanges

\* The agents start; the services of a node are all up or all down.
Init ==
  /\ known = [n \in Node |-> None]
  /\ check \in [Node -> {[s \in Service |-> status] : status \in Status}]
  /\ vip = [n \in Node |-> FALSE]
  /\ pending = [n \in Node |-> [s \in Service |-> TRUE]]
  /\ run = [n \in Node |-> [s \in Service |-> "idle"]]
  /\ seen = [n \in Node |-> [s \in Service |-> "failing"]]
  /\ changes = 0

AllWatchesOf(s) == [n \in Node |-> [pending[n] EXCEPT ![s] = TRUE]]

-----------------------------------------------------------------------------
(***************************************************************************)
(* The handler.                                                            *)
(***************************************************************************)

WatchFires(n, s) ==
  /\ run[n][s] = "idle" /\ pending[n][s]
  /\ pending' = [pending EXCEPT ![n][s] = FALSE]
  /\ seen' = [seen EXCEPT ![n][s] = check[n][s]]
  /\ run' = [run EXCEPT ![n][s] = "readLeader"]
  /\ UNCHANGED <<known, check, vip, changes>>

\* Mutant: the early exit of a node that is not the leader keeps the address.
ReadLeaderKeeps(n, s) ==
  /\ run[n][s] = "readLeader"
  /\ run' = [run EXCEPT ![n][s] =
               IF known[n] # n THEN "idle"
               ELSE IF seen[n][s] = "passing" THEN "add" ELSE "remove"]
  /\ seen' = [seen EXCEPT ![n][s] = "failing"]
  /\ UNCHANGED <<known, check, vip, pending, changes>>

\* Mutant: the test on the check is the wrong way round.
ReadLeaderInverted(n, s) ==
  /\ run[n][s] = "readLeader"
  /\ run' = [run EXCEPT ![n][s] =
               IF known[n] = n /\ seen[n][s] # "passing" THEN "add" ELSE "remove"]
  /\ seen' = [seen EXCEPT ![n][s] = "failing"]
  /\ UNCHANGED <<known, check, vip, pending, changes>>

\* The node adds the address if it is the leader and its check passes; it
\* deletes it in every other case.
ReadLeader(n, s) ==
  /\ run[n][s] = "readLeader"
  /\ run' = [run EXCEPT ![n][s] =
               IF known[n] = n /\ seen[n][s] = "passing" THEN "add" ELSE "remove"]
  /\ seen' = [seen EXCEPT ![n][s] = "failing"]
  /\ UNCHANGED <<known, check, vip, pending, changes>>

\* Adding an address that is there, or deleting one that is not, is an error
\* nobody looks at.
Apply(n, s) ==
  /\ run[n][s] \in {"add", "remove"}
  /\ vip' = [vip EXCEPT ![n] = run[n][s] = "add"]
  /\ run' = [run EXCEPT ![n][s] = "idle"]
  /\ UNCHANGED <<known, check, pending, seen, changes>>

Handler(n, s) == WatchFires(n, s) \/ ReadLeader(n, s) \/ Apply(n, s)

-----------------------------------------------------------------------------
(***************************************************************************)
(* The checks and the Consul servers.                                      *)
(***************************************************************************)

\* Mutant: the check of a service that failed gets a status of its own.
CheckFlipsWarning(n, s) ==
  /\ changes < MaxChanges
  /\ changes' = changes + 1
  /\ check' = [check EXCEPT ![n][s] = IF @ = "passing" THEN "warning" ELSE "passing"]
  /\ pending' = AllWatchesOf(s)
  /\ UNCHANGED <<known, vip, run, seen>>

\* A check changes its status: a result for the watch of its service on every
\* node.
CheckFlips(n, s) ==
  /\ changes < MaxChanges
  /\ changes' = changes + 1
  /\ check' = [check EXCEPT ![n][s] = IF @ = "passing" THEN "failing" ELSE "passing"]
  /\ pending' = AllWatchesOf(s)
  /\ UNCHANGED <<known, vip, run, seen>>

\* While the resolver answers, its check prints its uptime: the output alone
\* is a new result.  haproxy-check prints nothing.
OutputChanges(n) ==
  /\ check[n]["dns"] = "passing"
  /\ pending' = AllWatchesOf("dns")
  /\ UNCHANGED <<known, check, vip, run, seen, changes>>

\* An agent learns of a leader, or of the loss of one.  No watch fires.
LeaderLearnt(n, l) ==
  /\ known[n] # l
  /\ changes < MaxChanges
  /\ changes' = changes + 1
  /\ known' = [known EXCEPT ![n] = l]
  /\ UNCHANGED <<check, vip, pending, run, seen>>

Next ==
  \E n \in Node :
    \/ \E s \in Service : Handler(n, s) \/ CheckFlips(n, s)
    \/ OutputChanges(n)
    \/ \E l \in Node \union {None} : LeaderLearnt(n, l)

Spec == Init /\ [][Next]_vars

\* A watch delivers what it owes and its run ends; the output of the
\* resolver's check is published again and again.
Fairness ==
  \A n \in Node : /\ \A s \in Service : WF_vars(Handler(n, s))
                  /\ WF_vars(OutputChanges(n))

FairSpec == Spec /\ Fairness

-----------------------------------------------------------------------------
Agreed(l) == \A n \in Node : known[n] = l
Serves(l) == \A s \in Service : check[l][s] = "passing"

\* Once every agent knows the same leader and its services work, the address
\* ends up on the leader and on no other node, although a change of leader
\* fires no watch (cloud-ip-watch.erb:28-47).
VipSettlesOnLeader ==
  \A l \in Node :
    <>[](Agreed(l) /\ Serves(l)) => <>[](\A n \in Node : vip[n] <=> n = l)

\* A node gives the address up for good after the leadership has moved to a
\* node with a working resolver, even if its own services stay down.
FollowersGiveUp ==
  \A l, n \in Node :
    n # l => (<>[](Agreed(l) /\ check[l]["dns"] = "passing") => <>[]~vip[n])

\* The address ends up where the leader serves, and leaves the others, though
\* only the resolver's output keeps the watches running
\* (cloud-ip-watch.erb:28-47).
AddressSettles == VipSettlesOnLeader /\ FollowersGiveUp
=============================================================================
