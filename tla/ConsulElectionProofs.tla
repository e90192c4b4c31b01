------------------------ MODULE ConsulElectionProofs ------------------------
(***************************************************************************)
(* For any set of headnodes and any number of faults: the election is type *)
(* correct and, as long as the Consul servers answer, the node that holds  *)
(* the lock serves.                                                        *)
(***************************************************************************)
EXTENDS ConsulElection, TLAPS

-----------------------------------------------------------------------------
\* A run belongs to a live agent, and its snapshot is current unless the
\* watch owes the agent another result; only a run that saw a passing check
\* goes for the lock.
RunIsCurrent(n) ==
  /\ pc[n] # "idle" => up[n] /\ (pending[n] \/ seen[n] = check[n])
  /\ pc[n] \in {"createSession", "acquire"} => seen[n] = "passing"

\* The sessions of a node that is held for dead are dead.
SessionsLive(n) == session[n] = n \/ lock = n => serf[n]

\* Where a run of the holder can be, and what it knows there.
HolderRun(n) ==
  lock = n =>
    /\ pc[n] \notin {"createSession", "acquire"}
    /\ pc[n] \in {"readHolder", "release"} => session[n] = n
    /\ pc[n] = "release" => seen[n] # "passing"
    /\ pc[n] = "register" => leader[n] /\ seen[n] = "passing"
    /\ Settled(n) => check[n] = "passing" /\ tag[n]

\* The inductive invariant.
IInv == TypeOK /\ \A n \in Node : RunIsCurrent(n) /\ SessionsLive(n) /\ HolderRun(n)

-----------------------------------------------------------------------------
\* The initial state is well typed.
LEMMA TypeCorrectInit == Init => TypeOK
<1> SUFFICES ASSUME Init PROVE TypeOK
  OBVIOUS
<1>1. faults \in 0 .. MaxFaults
  BY ElectionAssumption, SMT DEF Init
<1>2. QED
  BY <1>1 DEF Init, TypeOK, Status, Step

\* Every variable keeps its type (the whole of service-elect-watch and of the
\* agent's environment).
THEOREM TypeCorrect == Spec => []TypeOK
<1> USE ElectionAssumption DEF TypeOK, Status, Step
<1>1. Init => TypeOK
  BY TypeCorrectInit
<1>2. TypeOK /\ [Next]_vars => TypeOK'
  <2> SUFFICES ASSUME TypeOK, [Next]_vars PROVE TypeOK'
    OBVIOUS
  <2> USE DEF cluster, kv, handler, NoRun, SessionDied, AllWatches, Fault
  <2>1. CASE UNCHANGED vars
    BY <2>1 DEF vars
  <2>2. CASE LockDelayEnds
    BY <2>2 DEF LockDelayEnds
  <2>3. ASSUME NEW n \in Node, Handler(n) PROVE TypeOK'
    <3>1. CASE WatchFires(n)
      BY <3>1 DEF WatchFires
    <3>2. CASE ReadLock(n)
      BY <3>2 DEF ReadLock
    <3>3. CASE ReadHolder(n)
      BY <3>3 DEF ReadHolder
    <3>4. CASE CreateSession(n)
      BY <3>4 DEF CreateSession
    <3>5. CASE Acquire(n)
      BY <3>5 DEF Acquire
    <3>6. CASE Release(n)
      BY <3>6 DEF Release
    <3>7. CASE Register(n)
      BY <3>7 DEF Register
    <3>8. QED
      BY <2>3, <3>1, <3>2, <3>3, <3>4, <3>5, <3>6, <3>7 DEF Handler
  <2>4. ASSUME NEW n \in Node, Environment(n) PROVE TypeOK'
    <3>1. CASE ServiceFlips(n)
      BY <3>1 DEF ServiceFlips
    <3>2. CASE CheckRuns(n)
      <4>1. PICK status \in CheckResult(n) : check' = [check EXCEPT ![n] = status]
        BY <3>2 DEF CheckRuns
      <4>2. status \in Status
        BY <4>1 DEF CheckResult
      <4>3. QED
        BY <3>2, <4>1, <4>2 DEF CheckRuns
    <3>3. CASE OutputChanges(n)
      BY <3>3 DEF OutputChanges
    <3>4. CASE AgentRestart(n)
      <4>1. faults' \in 0 .. MaxFaults
        BY <3>4, SMT DEF AgentRestart
      <4>2. QED
        BY <3>4, <4>1 DEF AgentRestart, AgentStarts
    <3>5. CASE HostCrash(n)
      BY <3>5 DEF HostCrash
    <3>6. CASE HostBoots(n)
      BY <3>6 DEF HostBoots, AgentStarts
    <3>7. CASE CrashDetected(n)
      BY <3>7 DEF CrashDetected, DeclaredDead
    <3>8. CASE Partitioned(n)
      BY <3>8 DEF Partitioned, DeclaredDead
    <3>9. CASE DeclaredAlive(n)
      BY <3>9 DEF DeclaredAlive
    <3>10. QED
      BY <2>4, <3>1, <3>2, <3>3, <3>4, <3>5, <3>6, <3>7, <3>8, <3>9
      DEF Environment
  <2>5. QED
    BY <2>1, <2>2, <2>3, <2>4 DEF Next
<1>3. QED
  BY <1>1, <1>2, PTL DEF Spec

-----------------------------------------------------------------------------
\* What one step of the handler of n does to the invariant.  While n holds the
\* lock it is held for alive, so its requests do not fail.
LEMMA HandlerStep ==
  ASSUME "kv" \notin Faults, IInv, TypeOK', NEW n \in Node, Handler(n)
  PROVE  IInv'
<1> SUFFICES ASSUME NEW k \in Node
             PROVE  RunIsCurrent(k)' /\ SessionsLive(k)' /\ HolderRun(k)'
  BY DEF IInv
<1> USE ElectionAssumption
    DEF IInv, TypeOK, Status, Step, RunIsCurrent, SessionsLive, HolderRun, Settled,
        cluster, kv, handler
<1>1. CASE WatchFires(n)
  BY <1>1 DEF WatchFires
<1>2. CASE ReadLock(n)
  BY <1>2 DEF ReadLock, RequestMayFail
<1>3. CASE ReadHolder(n)
  BY <1>3 DEF ReadHolder, RequestMayFail
<1>4. CASE CreateSession(n)
  <2>1. lock # n /\ pc' = [pc EXCEPT ![n] = "acquire"]
    BY <1>4 DEF CreateSession
  <2>2. RunIsCurrent(k)'
    BY <1>4, <2>1 DEF CreateSession
  <2>3. SessionsLive(k)'
    <3>1. CASE serf[n] /\ session' = [session EXCEPT ![n] = n]
      BY <1>4, <3>1 DEF CreateSession
    <3>2. CASE session' = [session EXCEPT ![n] = None]
      BY <1>4, <3>2 DEF CreateSession
    <3>3. QED
      BY <1>4, <3>1, <3>2 DEF CreateSession
  <2>4. HolderRun(k)'
    BY <1>4, <2>1 DEF CreateSession
  <2>5. QED
    BY <2>2, <2>3, <2>4
<1>5. CASE Acquire(n)
  BY <1>5 DEF Acquire, Granted
<1>6. CASE Release(n)
  BY <1>6 DEF Release, RequestMayFail
<1>7. CASE Register(n)
  BY <1>7 DEF Register, NoRun, AllWatches
<1>8. QED
  BY <1>1, <1>2, <1>3, <1>4, <1>5, <1>6, <1>7 DEF Handler

\* What one step of the environment of n does to the invariant: a changed
\* check owes every live agent a result, and a lost session takes the lock
\* with it.
LEMMA EnvironmentStep ==
  ASSUME IInv, TypeOK', NEW n \in Node, Environment(n)
  PROVE  IInv'
<1> SUFFICES ASSUME NEW k \in Node
             PROVE  RunIsCurrent(k)' /\ SessionsLive(k)' /\ HolderRun(k)'
  BY DEF IInv
<1> USE ElectionAssumption
    DEF IInv, TypeOK, Status, Step, RunIsCurrent, SessionsLive, HolderRun, Settled,
        cluster, kv, handler
<1>1. CASE ServiceFlips(n)
  BY <1>1 DEF ServiceFlips
<1>2. CASE CheckRuns(n)
  <2>1. PICK status : check' = [check EXCEPT ![n] = status]
    BY <1>2 DEF CheckRuns
  <2>2. pending' = AllWatches /\ UNCHANGED <<up, serf, kv, handler, tag>>
    BY <1>2 DEF CheckRuns
  <2>3. QED
    BY <2>1, <2>2 DEF AllWatches
<1>3. CASE OutputChanges(n)
  BY <1>3 DEF OutputChanges, AllWatches
<1>4. CASE AgentRestart(n)
  BY <1>4 DEF AgentRestart, AgentStarts, NoRun
<1>5. CASE HostCrash(n)
  BY <1>5 DEF HostCrash, NoRun
<1>6. CASE HostBoots(n)
  BY <1>6 DEF HostBoots, AgentStarts, NoRun
<1>7. CASE CrashDetected(n)
  BY <1>7 DEF CrashDetected, DeclaredDead, SessionDied
<1>8. CASE Partitioned(n)
  BY <1>8 DEF Partitioned, DeclaredDead, SessionDied
<1>9. CASE DeclaredAlive(n)
  BY <1>9 DEF DeclaredAlive
<1>10. QED
  BY <1>1, <1>2, <1>3, <1>4, <1>5, <1>6, <1>7, <1>8, <1>9 DEF Environment

\* As long as the Consul servers answer, the node that holds the lock has a
\* passing check and the tag "primary" whenever its watch has nothing left to
\* deliver (service-elect-watch.erb:22-54).
THEOREM HolderAlwaysServes ==
  ASSUME "kv" \notin Faults
  PROVE  Spec => []HolderServes
<1>1. Init => IInv
  <2> SUFFICES ASSUME Init PROVE IInv
    OBVIOUS
  <2>1. TypeOK
    BY TypeCorrectInit
  <2>2. QED
    BY <2>1, ElectionAssumption
    DEF Init, IInv, RunIsCurrent, SessionsLive, HolderRun, Settled
<1>2. IInv /\ TypeOK' /\ [Next]_vars => IInv'
  <2> SUFFICES ASSUME IInv, TypeOK', [Next]_vars PROVE IInv'
    OBVIOUS
  <2>1. CASE UNCHANGED vars
    BY <2>1 DEF vars, cluster, kv, handler, IInv, TypeOK, RunIsCurrent,
                SessionsLive, HolderRun, Settled
  <2>2. CASE LockDelayEnds
    BY <2>2 DEF LockDelayEnds, cluster, handler, IInv, TypeOK, RunIsCurrent,
                SessionsLive, HolderRun, Settled
  <2>3. QED
    BY <2>1, <2>2, HandlerStep, EnvironmentStep DEF Next
<1>3. IInv => HolderServes
  BY DEF IInv, HolderRun, HolderServes
<1>4. QED
  BY <1>1, <1>2, <1>3, TypeCorrect, PTL DEF Spec
=============================================================================
