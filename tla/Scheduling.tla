----------------------------- MODULE Scheduling -----------------------------
(***************************************************************************)
(* Members of a server group that are to be in different availability      *)
(* zones, and the weight of a host by its processors.  A request carries   *)
(* the hosts of the group from its start; members are scheduled and moved  *)
(* while other requests are on their way.  The conductor, the other        *)
(* filters and weighers and the hosts are external.                        *)
(***************************************************************************)
EXTENDS Integers

CONSTANTS Guest, Host, Hinted, Zone, MaxVcpus

SchedulingAssumption == Hinted \subseteq Guest /\ MaxVcpus \in Nat

VARIABLES
  on,       \* instance.host of a guest, or NoHost
  request,  \* of a guest: where it is, the group's hosts, the host selected
  overlap,  \* two requests were under way at once
  total, used, idle \* vCPUs of a host with its ratio, those in use, tenths that are idle

vars == <<on, request, overlap, total, used, idle>>
metrics == <<total, used, idle>>

NoHost == "none"
NoRequest == [pc |-> "none", group |-> {}, to |-> NoHost]
GroupHosts == {on[g] : g \in Guest} \ {NoHost}

Init ==
  /\ on = [g \in Guest |-> NoHost] /\ request = [g \in Guest |-> NoRequest] /\ overlap = FALSE
  /\ total \in 1 .. MaxVcpus /\ used \in 0 .. MaxVcpus /\ idle \in 0 .. 10

-----------------------------------------------------------------------------
(***************************************************************************)
(* The filter.                                                             *)
(***************************************************************************)
Step(g, r) == request' = [request EXCEPT ![g] = r]

\* A guest is created, or moved.
Ask(g) ==
  /\ request[g].pc = "none" /\ Step(g, [pc |-> "filter", group |-> GroupHosts, to |-> NoHost])
  /\ overlap' = (overlap \/ \E k \in Guest : request[k].pc # "none")
  /\ UNCHANGED <<on, metrics>>

\* Mutant: hosts are compared.
HostApart(g, h) == g \notin Hinted \/ on[g] = h \/ h \notin request[g].group

\* host_passes
Passes(g, h) == g \notin Hinted \/ on[g] = h \/ Zone[h] \notin {Zone[k] : k \in request[g].group}

Select(g, h) ==
  /\ request[g].pc = "filter" /\ Passes(g, h)
  /\ Step(g, [request[g] EXCEPT !.pc = "claim", !.to = h])
  /\ UNCHANGED <<on, overlap, metrics>>

NoValidHost(g) ==
  /\ request[g].pc = "filter" /\ (\A h \in Host : ~Passes(g, h)) /\ Step(g, NoRequest)
  /\ UNCHANGED <<on, overlap, metrics>>

\* The host takes the guest, but not beside another member: then the request
\* starts again with the group as it is.
Claim(g) ==
  /\ request[g].pc = "claim"
  /\ IF \E k \in Guest \ {g} : on[k] = request[g].to
     THEN Step(g, [pc |-> "filter", group |-> GroupHosts, to |-> NoHost]) /\ UNCHANGED on
     ELSE Step(g, NoRequest) /\ on' = [on EXCEPT ![g] = request[g].to]
  /\ UNCHANGED <<overlap, metrics>>

Delete(g) ==
  /\ request[g].pc = "none" /\ on[g] # NoHost /\ on' = [on EXCEPT ![g] = NoHost]
  /\ UNCHANGED <<request, overlap, metrics>>

-----------------------------------------------------------------------------
(***************************************************************************)
(* The weight of a host for a guest of one vCPU, as <<numerator,           *)
(* denominator>>.                                                          *)
(***************************************************************************)
Free(u) == total - (u + 1)
NewIdle(u, i) == IF u = 0 THEN <<1, 1>> ELSE <<10 * u - (10 - i) * (u + 1), 10 * u>>

\* Mutant: overloaded hosts are multiplied as well.
Product(u, i) == <<Free(u) * NewIdle(u, i)[1], total * NewIdle(u, i)[2]>>

\* _weigh_object
Weight(u, i) ==
  LET new == NewIdle(u, i)
  IN  IF Free(u) > 0 THEN <<Free(u) * new[1], total * new[2]>>
      ELSE IF new[1] > 0 THEN <<Free(u) * new[2], total * new[1]>>
      ELSE <<Free(u), total>>

Heavier(a, b) == a[1] * b[2] > b[1] * a[2]

Next ==
  \E g \in Guest : Ask(g) \/ (\E h \in Host : Select(g, h)) \/ NoValidHost(g) \/ Claim(g) \/ Delete(g)

Spec == Init /\ [][Next]_vars

-----------------------------------------------------------------------------
TypeOK ==
  /\ on \in [Guest -> Host \union {NoHost}]
  /\ request \in [Guest -> [pc : {"none", "filter", "claim"}, group : SUBSET Host, to : Host \union {NoHost}]]

\* Members that ask for different zones are in different zones, after any
\* moves, deletions and refusals of hosts; but for requests that overlap: a
\* host only looks at its own guests
\* (anti_affinity_availability_zone_filter.py:43-77).
ZonesApart ==
  ~overlap => \A g \in Hinted : \A k \in Hinted \ {g} :
    on[g] # NoHost /\ on[k] # NoHost => Zone[on[g]] # Zone[on[k]]

\* Of two hosts alike the busier is never the heavier, as long as it is not so
\* busy that the guest would leave it no time; a host with more vCPUs than it
\* has is lighter than any that has some left and time for the guest
\* (bcpc_cpu.py:64-90).
BusierLighter ==
  /\ \A i \in 0 .. idle : NewIdle(used, i)[1] > 0 => ~Heavier(Weight(used, i), Weight(used, idle))
  /\ \A u \in 0 .. used :
       Free(used) < 0 /\ Free(u) > 0 /\ NewIdle(u, idle)[1] > 0 => Heavier(Weight(u, idle), Weight(used, idle))
=============================================================================
