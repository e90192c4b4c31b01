--------------------------- MODULE ConsulElection ---------------------------
(***************************************************************************)
(* The election of the primary instance of one Consul service (mysql or    *)
(* proxysql) by the watch handler service-elect-watch.  Every headnode     *)
(* runs one Consul agent, one instance of the service and one watch of     *)
(* type "checks" on the service.  The agent runs the handler, one run at a *)
(* time, whenever the checks of the service changed anywhere in the        *)
(* cluster; the handler reads a lock in the key/value store, may take or   *)
(* release it, and registers the instance with or without the tag          *)
(* "primary", which is what the name primary.<service>.service.consul      *)
(* resolves.                                                               *)
(*                                                                         *)
(* A session is identified with the node that created it: the handler only *)
(* compares the session's node with its own and only releases through a    *)
(* session it found in the lock.  Sessions that died are DeadSession.      *)
(* Consul itself (key/value store, sessions, lock delay, failure detector) *)
(* is external and modelled by what the handler can observe of it.         *)
(***************************************************************************)
EXTENDS Naturals

CONSTANTS
  Node,          \* the headnodes
  Faults,        \* the fault classes that may happen in a behaviour
  MaxFaults,     \* bound: number of faults in a behaviour
  OutputVaries,  \* does the output of the check differ from run to run?
  None, DeadSession

FaultClass == {"service", "restart", "crash", "partition", "kv"}

ASSUME ElectionAssumption ==
  /\ Faults \subseteq FaultClass
  /\ MaxFaults \in Nat
  /\ OutputVaries \in BOOLEAN
  /\ None \notin Node /\ DeadSession \notin Node /\ None # DeadSession

VARIABLES
  up,         \* up[n]: host and agent of n are running
  serf,       \* serf[n]: the cluster holds n for alive (serfHealth passing)
  healthy,    \* healthy[n]: the service instance itself works
  check,      \* check[n]: status of the service check of n in the catalog
  tag,        \* tag[n]: the instance of n is registered with tag "primary"
  lock,       \* node whose session holds kv/<service>/leader, or None
  lockDelay,  \* the lock cannot be acquired yet: its session was invalidated
  pending,    \* pending[n]: the watch of n has an undelivered result
  pc,         \* pc[n]: the next step of the handler run of n
  seen,       \* seen[n]: own check status in the snapshot given to the run
  session,    \* session[n]: the shell variable SESSION of the run
  leader,     \* leader[n]: the shell variable LEADER of the run
  faults      \* number of faults so far

cluster == <<up, serf, healthy, check, faults>>
kv      == <<lock, lockDelay>>
handler == <<pc, seen, session, leader>>
vars    == <<cluster, kv, handler, tag, pending>>

Status == {"passing", "warning", "critical"}
Step == {"idle", "readLock", "readHolder", "createSession", "acquire",
         "release", "register"}

TypeOK ==
  /\ up \in [Node -> BOOLEAN]
  /\ serf \in [Node -> BOOLEAN]
  /\ healthy \in [Node -> BOOLEAN]
  /\ check \in [Node -> Status]
  /\ tag \in [Node -> BOOLEAN]
  /\ lock \in Node \union {None}
  /\ lockDelay \in BOOLEAN
  /\ pending \in [Node -> BOOLEAN]
  /\ pc \in [Node -> Step]
  /\ seen \in [Node -> Status]
  /\ session \in [Node -> Node \union {None, DeadSession}]
  /\ leader \in [Node -> BOOLEAN]
  /\ faults \in 0 .. MaxFaults

(***************************************************************************)
(* Every agent has just been started: checks start critical and the first  *)
(* result of a watch is always delivered.                                  *)
(***************************************************************************)
Init ==
  /\ up = [n \in Node |-> TRUE]
  /\ serf = [n \in Node |-> TRUE]
  /\ healthy = [n \in Node |-> TRUE]
  /\ check = [n \in Node |-> "critical"]
  /\ tag = [n \in Node |-> FALSE]
  /\ lock = None
  /\ lockDelay = FALSE
  /\ pending = [n \in Node |-> TRUE]
  /\ pc = [n \in Node |-> "idle"]
  /\ seen = [n \in Node |-> "critical"]
  /\ session = [n \in Node |-> None]
  /\ leader = [n \in Node |-> FALSE]
  /\ faults = 0

-----------------------------------------------------------------------------
(***************************************************************************)
(* Consul, as the handler sees it.                                         *)
(***************************************************************************)

\* A request to the key/value store fails (HTTP 500) when the node is cut
\* off, or when the servers have no leader ("kv").  Failure is a possibility,
\* never a certainty.
RequestMayFail(n) == ~serf[n] \/ "kv" \in Faults

\* A change of the checks is a new result for the watch of every live agent.
AllWatches == [n \in Node |-> up[n] \/ pending[n]]

\* What the death of n's sessions does to the session a run remembers.
SessionDied(n) ==
  session' = [session EXCEPT ![n] = IF @ = n THEN DeadSession ELSE @]

\* The run of n is gone, together with its shell variables.
NoRun(n) ==
  /\ pc' = [pc EXCEPT ![n] = "idle"]
  /\ seen' = [seen EXCEPT ![n] = "critical"]
  /\ session' = [session EXCEPT ![n] = None]
  /\ leader' = [leader EXCEPT ![n] = FALSE]

Fault(class) ==
  /\ class \in Faults
  /\ faults < MaxFaults
  /\ faults' = faults + 1

-----------------------------------------------------------------------------
(***************************************************************************)
(* The handler service-elect-watch, one action per command that reads or   *)
(* changes shared state.                                                   *)
(***************************************************************************)

\* The agent runs the handler with the current result of the watch (L19).
WatchFires(n) ==
  /\ up[n] /\ pc[n] = "idle" /\ pending[n]
  /\ pending' = [pending EXCEPT ![n] = FALSE]
  /\ seen' = [seen EXCEPT ![n] = check[n]]
  /\ pc' = [pc EXCEPT ![n] = "readLock"]
  /\ UNCHANGED <<cluster, kv, session, leader, tag>>

\* SESSION is the session that holds the lock.  An error reads as "no leader".
ReadLock(n) ==
  /\ up[n] /\ pc[n] = "readLock"
  /\ \/ session' = [session EXCEPT ![n] = lock]
     \/ RequestMayFail(n) /\ session' = [session EXCEPT ![n] = None]
  /\ pc' = [pc EXCEPT ![n] = "readHolder"]
  /\ UNCHANGED <<cluster, kv, seen, leader, tag, pending>>

\* Mutant: LOCK_HOLDER is compared with the wrong name and never matches.
ReadHolderNeverSelf(n) ==
  /\ up[n] /\ pc[n] = "readHolder"
  /\ leader' = [leader EXCEPT ![n] = FALSE]
  /\ pc' = [pc EXCEPT ![n] = IF seen[n] = "passing" /\ session[n] = None
                              THEN "createSession" ELSE "register"]
  /\ UNCHANGED <<cluster, kv, seen, session, tag, pending>>

\* LEADER becomes true if the node of that session is this node; then the
\* run branches on its own check and on SESSION.
ReadHolder(n) ==
  /\ up[n] /\ pc[n] = "readHolder"
  /\ \/ leader' = [leader EXCEPT ![n] = session[n] = n]
     \/ RequestMayFail(n) /\ leader' = [leader EXCEPT ![n] = FALSE]
  /\ pc' = [pc EXCEPT ![n] =
              IF seen[n] = "passing"
              THEN IF session[n] = None THEN "createSession" ELSE "register"
              ELSE IF leader'[n] THEN "release" ELSE "register"]
  /\ UNCHANGED <<cluster, kv, seen, session, tag, pending>>

\* A session is only granted to a node that is held for alive.
CreateSession(n) ==
  /\ up[n] /\ pc[n] = "createSession"
  /\ \/ serf[n] /\ session' = [session EXCEPT ![n] = n]
     \/ RequestMayFail(n) /\ session' = [session EXCEPT ![n] = None]
  /\ pc' = [pc EXCEPT ![n] = "acquire"]
  /\ UNCHANGED <<cluster, kv, seen, leader, tag, pending>>

\* The store grants the lock to a live session if it is free and not delayed.
Granted(n) == session[n] = n /\ lock = None /\ ~lockDelay

\* Mutant: LEADER is given the node's name instead of true.
AcquireNamesLeader(n) ==
  /\ up[n] /\ pc[n] = "acquire"
  /\ lock' = IF Granted(n) THEN n ELSE lock
  /\ leader' = [leader EXCEPT ![n] = n]
  /\ pc' = [pc EXCEPT ![n] = "register"]
  /\ UNCHANGED <<cluster, lockDelay, seen, session, tag, pending>>

\* curl exits with 0 whether the store answered true, false or an error, so
\* LEADER becomes true in all three cases.
Acquire(n) ==
  /\ up[n] /\ pc[n] = "acquire"
  /\ \/ lock' = IF Granted(n) THEN n ELSE lock
     \/ RequestMayFail(n) /\ lock' = lock
  /\ leader' = [leader EXCEPT ![n] = TRUE]
  /\ pc' = [pc EXCEPT ![n] = "register"]
  /\ UNCHANGED <<cluster, lockDelay, seen, session, tag, pending>>

\* Mutant: LEADER is cleared but the request to release is not sent.
ReleaseNotSent(n) ==
  /\ up[n] /\ pc[n] = "release"
  /\ leader' = [leader EXCEPT ![n] = FALSE]
  /\ pc' = [pc EXCEPT ![n] = "register"]
  /\ UNCHANGED <<cluster, kv, seen, session, tag, pending>>

\* A release through the session that holds the lock frees it at once.
Release(n) ==
  /\ up[n] /\ pc[n] = "release"
  /\ \/ lock' = IF session[n] = n /\ lock = n THEN None ELSE lock
     \/ RequestMayFail(n) /\ lock' = lock
  /\ leader' = [leader EXCEPT ![n] = FALSE]
  /\ pc' = [pc EXCEPT ![n] = "register"]
  /\ UNCHANGED <<cluster, lockDelay, seen, session, tag, pending>>

\* Mutant: the tag is added but a registration never takes it away.
RegisterKeepsTag(n) ==
  /\ up[n] /\ pc[n] = "register"
  /\ tag' = [tag EXCEPT ![n] = @ \/ leader[n]]
  /\ pending' = IF tag' # tag THEN AllWatches ELSE pending
  /\ NoRun(n)
  /\ UNCHANGED <<cluster, kv>>

\* The tags of a service are part of its checks, so a changed tag is a new
\* result for the watches.
Register(n) ==
  /\ up[n] /\ pc[n] = "register"
  /\ tag' = [tag EXCEPT ![n] = leader[n]]
  /\ pending' = IF tag[n] # leader[n] THEN AllWatches ELSE pending
  /\ NoRun(n)
  /\ UNCHANGED <<cluster, kv>>

Handler(n) ==
  \/ WatchFires(n) \/ ReadLock(n) \/ ReadHolder(n) \/ CreateSession(n)
  \/ Acquire(n) \/ Release(n) \/ Register(n)

-----------------------------------------------------------------------------
(***************************************************************************)
(* The checks, and the faults.                                             *)
(***************************************************************************)

ServiceFlips(n) ==
  /\ Fault("service")
  /\ healthy' = [healthy EXCEPT ![n] = ~@]
  /\ UNCHANGED <<up, serf, check, kv, handler, tag, pending>>

\* The check scripts exit with 1, which Consul calls a warning; a check that
\* is killed at its timeout is critical.
CheckResult(n) == IF healthy[n] THEN {"passing"} ELSE {"warning", "critical"}

\* The agent runs the check script and the catalog learns a changed status.
CheckRuns(n) ==
  \E status \in CheckResult(n) :
    /\ up[n] /\ check[n] # status
    /\ check' = [check EXCEPT ![n] = status]
    /\ pending' = AllWatches
    /\ UNCHANGED <<up, serf, healthy, faults, kv, handler, tag>>

\* While the check passes, that of proxysql prints the server's uptime: its
\* output alone is a new result, which the agent publishes once per
\* check_update_interval.  A check that fails prints nothing.
OutputChanges(n) ==
  /\ OutputVaries /\ up[n] /\ healthy[n] /\ check[n] = "passing"
  /\ pending' = AllWatches
  /\ UNCHANGED <<cluster, kv, handler, tag>>

\* The agent is restarted (consul.rb does it whenever its configuration
\* changed).  A run in progress is killed with it.  The check restarts as
\* critical, which the catalog may or may not learn before the first run of
\* the check, and the tag of the catalog may or may not survive.
AgentStarts(n) ==
  /\ check' \in {check, [check EXCEPT ![n] = "critical"]}
  /\ tag' \in {tag, [tag EXCEPT ![n] = FALSE]}
  /\ pending' = [m \in Node |-> \/ m = n \/ pending[m]
                                \/ up[m] /\ (check' # check \/ tag' # tag)]
  /\ NoRun(n)
  /\ UNCHANGED kv

AgentRestart(n) ==
  /\ Fault("restart")
  /\ up[n]
  /\ AgentStarts(n)
  /\ UNCHANGED <<up, serf, healthy>>

HostCrash(n) ==
  /\ Fault("crash")
  /\ up[n]
  /\ up' = [up EXCEPT ![n] = FALSE]
  /\ NoRun(n)
  /\ UNCHANGED <<serf, healthy, check, kv, tag, pending>>

HostBoots(n) ==
  /\ ~up[n]
  /\ up' = [up EXCEPT ![n] = TRUE]
  /\ AgentStarts(n)
  /\ UNCHANGED <<serf, healthy, faults>>

\* The failure detector gives n up: its sessions are invalidated in the same
\* step, and a lock one of them held stays closed for the lock delay.
DeclaredDead(n) ==
  /\ serf[n]
  /\ serf' = [serf EXCEPT ![n] = FALSE]
  /\ lock' = IF lock = n THEN None ELSE lock
  /\ lockDelay' = (lockDelay \/ lock = n)
  /\ SessionDied(n)
  /\ UNCHANGED <<up, healthy, check, pc, seen, leader, tag, pending>>

CrashDetected(n) == ~up[n] /\ DeclaredDead(n) /\ UNCHANGED faults
Partitioned(n) == up[n] /\ Fault("partition") /\ DeclaredDead(n)

DeclaredAlive(n) ==
  /\ up[n] /\ ~serf[n]
  /\ serf' = [serf EXCEPT ![n] = TRUE]
  /\ UNCHANGED <<up, healthy, check, faults, kv, handler, tag, pending>>

LockDelayEnds ==
  /\ lockDelay
  /\ lockDelay' = FALSE
  /\ UNCHANGED <<cluster, lock, handler, tag, pending>>

Environment(n) ==
  \/ ServiceFlips(n) \/ CheckRuns(n) \/ OutputChanges(n)
  \/ AgentRestart(n) \/ HostCrash(n) \/ HostBoots(n)
  \/ CrashDetected(n) \/ Partitioned(n) \/ DeclaredAlive(n)

Next == LockDelayEnds \/ \E n \in Node : Handler(n) \/ Environment(n)

Spec == Init /\ [][Next]_vars

\* The agent runs what its watch owes and finishes each run, the check runs
\* every 10 seconds, a dead node's lock delay is 15 seconds, and a varying
\* output is published again and again.  Faults are not fair.
Fairness ==
  /\ WF_vars(LockDelayEnds)
  /\ \A n \in Node : /\ WF_vars(Handler(n))
                     /\ WF_vars(CheckRuns(n))
                     /\ WF_vars(OutputChanges(n))

FairSpec == Spec /\ Fairness

-----------------------------------------------------------------------------
\* Nothing is left for the handler of n to do.
Settled(n) == up[n] /\ pc[n] = "idle" /\ ~pending[n]

\* The holder of the lock serves: once its watch has nothing left to deliver,
\* the node that holds the lock has a passing check and carries the tag
\* "primary".  So a failing instance never sits on the lock, and a lock is
\* never held by an instance the name does not resolve to (L22-54).
HolderServes ==
  \A n \in Node : lock = n /\ Settled(n) => check[n] = "passing" /\ tag[n]

\* An instance that keeps failing is demoted: it loses the lock and the tag
\* for good, whatever the other nodes do (L39-45, L51-54).
FailedIsDemoted ==
  \A n \in Node :
    <>[](up[n] /\ ~healthy[n]) => <>[](lock # n /\ ~tag[n])

\* Every node is alive and its service works.
AllWell == \A n \in Node : up[n] /\ serf[n] /\ healthy[n]

OnePrimary == \E n \in Node : \A m \in Node : lock = n /\ (tag[m] <=> m = n)

\* Once the faults are over, the nodes agree on one primary for good: exactly
\* one instance carries the tag and it is the one that holds the lock.
Converges == <>[]AllWell => <>[]OnePrimary
=============================================================================
