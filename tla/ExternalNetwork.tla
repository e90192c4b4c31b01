-------------------------- MODULE ExternalNetwork --------------------------
(***************************************************************************)
(* Who may use, and who is shown, an external network of Neutron.  Entries *)
(* of the network give projects, or all of them by the wildcard, access;   *)
(* they come and go by requests to several workers, each of which checks,  *)
(* writes, and tidies up in steps of its own, while projects connect       *)
(* routers.  The listing of networks is a query rewritten here.            *)
(***************************************************************************)
EXTENDS Naturals, FiniteSets

CONSTANTS
  Project, Owner, Worker, Everyone,
  MaxShares  \* bound: entries of other actions

ExternalNetworkAssumption == Owner \in Project /\ Everyone \notin Project /\ MaxShares \in Nat

VARIABLES
  external,  \* the network is
  default,   \* it is the default external network
  entries,   \* targets of the entries that give access as external
  shares,    \* entries of the other actions, of which this code has no handler
  gateways,  \* projects with a router on the network, for its being external
  request,   \* of a worker
  raced      \* an entry went on the word of a check that was out of date

vars == <<external, default, entries, shares, gateways, request, raced>>

Target == Project \union {Everyone}
Action == {"shared", "readonly"}
Idle == [op |-> "none", from |-> Everyone, to |-> Everyone, stale |-> FALSE]

Init ==
  /\ external \in BOOLEAN /\ default = FALSE
  /\ entries = IF external THEN {Everyone} ELSE {}  \* _process_l3_create
  /\ shares \in {s \in SUBSET (Action \X Target) : Cardinality(s) <= MaxShares}
  /\ gateways = {} /\ raced = FALSE
  /\ request = [w \in Worker |-> Idle]

\* Checks that others have made are out of date.
Disturb(w) == [v \in Worker |-> IF v = w THEN Idle ELSE [request[v] EXCEPT !.stale = @ \/ request[v] # Idle]]
DisturbAll == [v \in Worker |-> [request[v] EXCEPT !.stale = @ \/ request[v] # Idle]]
Begin(w, op, from, to) == request' = [request EXCEPT ![w] = [op |-> op, from |-> from, to |-> to, stale |-> FALSE]]

Access(p) == p = Owner \/ {p, Everyone} \intersect entries # {}

-----------------------------------------------------------------------------
(***************************************************************************)
(* The network, and routers of projects (external).                        *)
(***************************************************************************)

\* _process_l3_update: of an update of the network.
UpdateExternal(value) ==
  /\ external # value /\ ~value => gateways = {}
  /\ external' = value /\ entries' = IF value THEN entries \union {Everyone} ELSE {}
  /\ default' = (default /\ value)
  /\ request' = DisturbAll
  /\ UNCHANGED <<shares, gateways, raced>>

SetDefault ==
  /\ external /\ ~default /\ default' = TRUE
  /\ request' = DisturbAll
  /\ UNCHANGED <<external, entries, shares, gateways, raced>>

Connect(p) ==
  /\ external /\ Access(p) /\ p \notin gateways /\ gateways' = gateways \union {p}
  /\ request' = DisturbAll
  /\ UNCHANGED <<external, default, entries, shares, raced>>

Disconnect(p) ==
  /\ p \in gateways /\ gateways' = gateways \ {p}
  /\ UNCHANGED <<external, default, entries, shares, request, raced>>

-----------------------------------------------------------------------------
(***************************************************************************)
(* Entries.                                                                *)
(***************************************************************************)

\* Mutant: the network stays as it is.
NotConverted == external

\* _process_l3_update of _process_ext_policy_create: for no one else.
Converted == TRUE

CreatePolicy(w, t) ==
  /\ request[w] = Idle
  /\ external' = Converted
  /\ request' = [(IF external THEN request ELSE DisturbAll) EXCEPT ![w] = [Idle EXCEPT !.op = "create", !.to = t]]
  /\ UNCHANGED <<default, entries, shares, gateways, raced>>

\* Mutant: a wildcard elsewhere is not asked for, nor who has an entry.
InUseByTarget(from, new) == from # Everyone /\ from \in gateways /\ Everyone \notin entries

\* _validate_ext_not_in_use_by_tenant
InUse(from, new) ==
  IF from # Everyone THEN Everyone \notin entries /\ from \in gateways
  ELSE default \/ ~(gateways \subseteq (entries \ {Everyone}) \union new)

DeletePolicy(w, t) ==
  /\ request[w] = Idle /\ t \in entries /\ ~InUse(t, {})
  /\ Begin(w, "delete", t, t)
  /\ UNCHANGED <<external, default, entries, shares, gateways, raced>>

UpdatePolicy(w, t, new) ==
  /\ request[w] = Idle /\ t \in entries /\ t # new /\ ~InUse(t, {new})
  /\ Begin(w, "update", t, new)
  /\ UNCHANGED <<external, default, entries, shares, gateways, raced>>

\* The transaction.  There is one entry for a target, at most.
Write(w) ==
  LET r == request[w] IN
  /\ r.op \in {"create", "delete", "update"}
  /\ IF (r.to \in entries /\ r.op # "delete") \/ (r.from \notin entries /\ r.op # "create")
     THEN request' = [request EXCEPT ![w] = Idle] /\ UNCHANGED <<entries, raced>>
     ELSE /\ entries' = (entries \ (IF r.op = "create" THEN {} ELSE {r.from}))
                        \union (IF r.op = "delete" THEN {} ELSE {r.to})
          /\ request' = IF r.op = "delete" THEN [Disturb(w) EXCEPT ![w] = [Idle EXCEPT !.op = "deleted"]]
                                           ELSE Disturb(w)
          /\ raced' = (raced \/ r.stale)
  /\ UNCHANGED <<external, default, shares, gateways>>

\* _process_l3_update, in which a gateway is an error that is logged.
EndExternal == external /\ ~(entries = {} /\ gateways = {})

\* _process_ext_policy_delete; its count and its update are taken as one.
AfterDelete(w) ==
  /\ request[w].op = "deleted"
  /\ external' = EndExternal /\ default' = (default /\ external')
  /\ request' = Disturb(w)
  /\ UNCHANGED <<entries, shares, gateways, raced>>

Next ==
  \/ \E value \in BOOLEAN : UpdateExternal(value)
  \/ SetDefault
  \/ \E p \in Project : Connect(p) \/ Disconnect(p)
  \/ \E w \in Worker :
       \/ \E t \in Target : CreatePolicy(w, t) \/ DeletePolicy(w, t) \/ \E new \in Target : UpdatePolicy(w, t, new)
       \/ Write(w) \/ AfterDelete(w)

Spec == Init /\ [][Next]_vars

-----------------------------------------------------------------------------
(***************************************************************************)
(* The listing of networks: is this one in it?  A row of the inner join is *)
(* an entry.                                                               *)
(***************************************************************************)
Rows == shares \union ({"external"} \X entries)
Filter == {"none", "shared", "not shared"}

SharedTo(p) == \E row \in Rows : row[1] = "shared" /\ row[2] \in {p, Everyone}

\* With the external networks' hook, _network_filter_hook.
RowAllowed(p, row) ==
  \/ row[1] \in Action /\ row[2] \in {p, Everyone}
  \/ row[1] = "external" /\ row[2] = p
  \/ row[2] = Everyone

RowShared(p, f, row) ==
  CASE f = "none" -> TRUE
    [] f = "shared" -> row[1] = "shared" /\ row[2] \in {p, Everyone}
    [] f = "not shared" -> ~SharedTo(p)

\* Mutant: an inner join alone.
InnerJoin(p, f) == \E row \in Rows : RowAllowed(p, row) /\ RowShared(p, f, row)

\* query_with_hooks, for a request in the scope of a project.
Listed(p, f) ==
  \/ \E row \in Rows : RowAllowed(p, row) /\ RowShared(p, f, row)
  \/ f # "shared" /\ p = Owner

-----------------------------------------------------------------------------
TypeOK ==
  /\ {external, default, raced} \subseteq BOOLEAN /\ entries \subseteq Target
  /\ shares \subseteq Action \X Target /\ gateways \subseteq Project
  /\ request \in [Worker -> [op : {"none", "create", "delete", "update", "deleted"},
                             from : Target, to : Target, stale : BOOLEAN]]

\* A project with a router on the network keeps its access to it, in any
\* order of entries made, moved and taken away, unless a worker wrote on the
\* word of a check that another has since overtaken (external_net_db.py:189-243).
RoutersKeepAccess == ~raced => \A p \in gateways : Access(p)

\* A network that some project has an entry for is external, and stays so
\* when others' entries go, unless a worker acted on a check that another has
\* overtaken (external_net_db.py:108-186).
EntriesOfExternal == ~raced /\ entries # {} => external

\* The rewritten query shows a project what it owns and what some entry gives
\* it, once filtered; but that its own networks pass for not shared
\* (model_query.py:123-238).
ListsTheVisible ==
  \A p \in Project, f \in Filter :
    LET visible == p = Owner \/ \E row \in Rows : row[2] \in {p, Everyone}
    IN  Listed(p, f) <=> /\ visible
                         /\ f = "shared" => SharedTo(p)
                         /\ f = "not shared" => (~SharedTo(p) \/ p = Owner)
=============================================================================
