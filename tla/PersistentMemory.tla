--------------------------- MODULE PersistentMemory ---------------------------
(***************************************************************************)
(* The namespaces of persistent memory that guests have as devices: which  *)
(* a host offers, which a guest was assigned, and when their contents are  *)
(* zeroed.  The resource tracker, which assigns them, and the manager,     *)
(* which hands the migration context to the driver, are external; resizes  *)
(* and migrations whose start on the destination fails are left out.       *)
(***************************************************************************)
EXTENDS Naturals, Sequences, FiniteSets

CONSTANTS
  Guest, Host,
  Name,     \* of the namespaces on every host
  Configs,  \* what a host may have for pmem_namespaces: pairs of label and name
  Flavors,  \* the labels a flavor asks for
  None

PersistentMemoryAssumption ==
  /\ \A f \in Flavors : f \in Seq(STRING)
  /\ \A c \in Configs : c \in Seq(STRING \X STRING)
  /\ None \notin Guest \union Host

VARIABLES
  offered,   \* _vpmems_by_name of a host, as pairs of label and name
  content,   \* whose data a namespace holds, None after zeroing
  at,        \* the host of a guest
  flavor, resources,
  context,   \* migration_context of a guest
  move,      \* "no", "resizing", "resized", "migrating", "arrived", "left",
             \* or "error" after a delete that failed
  devices,   \* the namespaces in the guest's definition, in order
  confirmed  \* namespaces given back by a confirmed resize

vars == <<offered, content, at, flavor, resources, context, move, devices, confirmed>>

Names(rs) == {r[2] : r \in rs}
NoContext == [source |-> None]

-----------------------------------------------------------------------------
\* Mutant: a namespace may have several labels.
DiscoverAll(c) == IF \A i \in DOMAIN c : c[i][2] \in Name THEN {c[i] : i \in DOMAIN c} ELSE {}

\* _discover_vpmems refuses to start with a name that is missing or repeated.
DiscoverVpmems(c) ==
  IF \A i, j \in DOMAIN c : c[i][2] \in Name /\ (c[i][2] = c[j][2] => i = j)
  THEN {c[i] : i \in DOMAIN c} ELSE {}

\* Mutant: each resource is put in front of the others.
Prepended(rs, labels) ==
  CHOOSE s \in [DOMAIN labels -> rs] :
    /\ \A i \in DOMAIN labels : s[i][1] = labels[Len(labels) + 1 - i]
    /\ \A i, j \in DOMAIN s : s[i] = s[j] => i = j

\* For each label the first resource that is left.
Ordered(rs, labels) ==
  CHOOSE s \in [DOMAIN labels -> rs] :
    /\ \A i \in DOMAIN labels : s[i][1] = labels[i]
    /\ \A i, j \in DOMAIN s : s[i] = s[j] => i = j

Devices(rs, labels) == LET s == Ordered(rs, labels) IN [i \in DOMAIN s |-> s[i][2]]

\* The attribute of the migration context: the prefix, and "resources".
AttributeOf == [old_ |-> "old_resources", new_ |-> "new_resources", old |-> "oldresources"]

GetResources(g, prefix) ==
  LET attr == AttributeOf[prefix]
  IN  IF attr \in DOMAIN context[g] THEN context[g][attr] ELSE {}

\* _cleanup_vpmems, on a host.
Zeroed(h, names) == [content EXCEPT ![h] = [n \in Name |-> IF n \in names THEN None ELSE content[h][n]]]

\* What the resource tracker may assign: what the driver reports and nobody has.
Moving(g) == context[g] # NoContext
Held(g, h) ==
  IF Moving(g)
  THEN {r \in context[g].old_resources : context[g].source = h}
         \union {r \in context[g].new_resources : context[g].dest = h}
  ELSE {r \in resources[g] : at[g] = h}
Used(h) == UNION {Held(g, h) : g \in Guest}
\* As many of each label as a flavor asks for.
Suits(rs, labels) ==
  /\ Cardinality(rs) = Len(labels)
  /\ \A r \in rs : Cardinality({q \in rs : q[1] = r[1]}) = Cardinality({i \in DOMAIN labels : labels[i] = r[1]})
Assigned(h, labels) == {rs \in SUBSET (offered[h] \ Used(h)) : Suits(rs, labels)}

-----------------------------------------------------------------------------
Init ==
  /\ \E c \in [Host -> Configs] : offered = [h \in Host |-> DiscoverVpmems(c[h])]
  /\ content = [h \in Host |-> [n \in Name |-> None]]
  /\ at = [g \in Guest |-> None] /\ flavor = [g \in Guest |-> <<>>]
  /\ resources = [g \in Guest |-> {}] /\ context = [g \in Guest |-> NoContext]
  /\ move = [g \in Guest |-> "no"] /\ devices = [g \in Guest |-> <<>>]
  /\ confirmed = {}

\* A start that fails zeroes what the guest was to have.
Spawn(g) ==
  /\ at[g] = None
  /\ \E h \in Host, f \in Flavors : \E rs \in Assigned(h, f) :
       \/ /\ at' = [at EXCEPT ![g] = h] /\ flavor' = [flavor EXCEPT ![g] = f]
          /\ resources' = [resources EXCEPT ![g] = rs] /\ devices' = [devices EXCEPT ![g] = Devices(rs, f)]
          /\ UNCHANGED content
       \/ content' = Zeroed(h, Names(rs)) /\ UNCHANGED <<at, flavor, resources, devices>>
  /\ UNCHANGED <<offered, context, move, confirmed>>

Write(g) ==
  /\ at[g] # None /\ move[g] \notin {"resizing", "error"}
  /\ content' = [content EXCEPT ![at[g]] =
       [n \in Name |-> IF \E i \in DOMAIN devices[g] : devices[g][i] = n THEN g ELSE @[n]]]
  /\ UNCHANGED <<offered, at, flavor, resources, context, move, devices, confirmed>>

\* A reboot destroys the guest, with all of _cleanup, and makes it anew.
HardReboot(g) ==
  /\ at[g] # None /\ move[g] \in {"no", "resized", "error"}
  /\ content' = Zeroed(at[g], Names(resources[g]))
  /\ devices' = [devices EXCEPT ![g] = Devices(resources[g], flavor[g])]
  /\ move' = [move EXCEPT ![g] = IF @ = "error" THEN "no" ELSE @]
  /\ UNCHANGED <<offered, at, flavor, resources, context, confirmed>>

\* Mutant: only the definition is removed.
CleanupKeeps(g) == Zeroed(at[g], {})

Cleanup(g) == Zeroed(at[g], Names(resources[g]))

\* The guest stays, with an error, when a namespace cannot be zeroed.
Delete(g) ==
  /\ at[g] # None /\ move[g] \in {"no", "error"}
  /\ \/ /\ content' = Cleanup(g) /\ move' = [move EXCEPT ![g] = "no"]
        /\ at' = [at EXCEPT ![g] = None] /\ resources' = [resources EXCEPT ![g] = {}]
        /\ devices' = [devices EXCEPT ![g] = <<>>] /\ flavor' = [flavor EXCEPT ![g] = <<>>]
     \/ /\ \E names \in SUBSET Names(resources[g]) : content' = Zeroed(at[g], names)
        /\ move' = [move EXCEPT ![g] = "error"] /\ UNCHANGED <<at, resources, devices, flavor>>
  /\ UNCHANGED <<offered, context, confirmed>>

-----------------------------------------------------------------------------
Prepare(g, h, f, kind) ==
  /\ at[g] # None /\ move[g] = "no"
  /\ \E rs \in Assigned(h, f) :
       context' = [context EXCEPT ![g] =
         [source |-> at[g], dest |-> h, old_flavor |-> flavor[g], new_flavor |-> f,
          old_resources |-> resources[g], new_resources |-> rs]]
  /\ move' = [move EXCEPT ![g] = kind]
  /\ UNCHANGED <<offered, content, at, flavor, resources, devices, confirmed>>

PrepareResize(g) == \E h \in Host, f \in Flavors : Prepare(g, h, f, "resizing")
PrepareMigration(g) == \E h \in Host \ {at[g]} : Prepare(g, h, flavor[g], "migrating")

\* The new resources are applied, and the guest is made on them.
FinishMigration(g) ==
  /\ move[g] = "resizing"
  /\ at' = [at EXCEPT ![g] = context[g].dest] /\ flavor' = [flavor EXCEPT ![g] = context[g].new_flavor]
  /\ resources' = [resources EXCEPT ![g] = context[g].new_resources]
  /\ devices' = [devices EXCEPT ![g] = Devices(context[g].new_resources, context[g].new_flavor)]
  /\ move' = [move EXCEPT ![g] = "resized"]
  /\ UNCHANGED <<offered, content, context, confirmed>>

\* _cleanup_resize, on the source: the prefix lacks its underscore.
ConfirmMigration(g) ==
  /\ move[g] = "resized"
  /\ content' = Zeroed(context[g].source, Names(GetResources(g, "old")))
  /\ confirmed' = confirmed \union {<<context[g].source, n>> : n \in Names(context[g].old_resources)}
  /\ context' = [context EXCEPT ![g] = NoContext] /\ move' = [move EXCEPT ![g] = "no"]
  /\ UNCHANGED <<offered, at, flavor, resources, devices>>

\* Mutant: the former devices are cleaned up as well.
DestroysAll(g) == Zeroed(at[g], Names(resources[g] \union context[g].old_resources))

\* The guest on the destination is destroyed while the new resources apply.
RevertDestroys(g) == Zeroed(at[g], Names(resources[g]))

RevertMigration(g) ==
  /\ move[g] = "resized"
  /\ content' = RevertDestroys(g)
  /\ at' = [at EXCEPT ![g] = context[g].source] /\ flavor' = [flavor EXCEPT ![g] = context[g].old_flavor]
  /\ resources' = [resources EXCEPT ![g] = GetResources(g, "old_")]
  /\ devices' = [devices EXCEPT ![g] = Devices(context[g].old_resources, context[g].old_flavor)]
  /\ context' = [context EXCEPT ![g] = NoContext] /\ move' = [move EXCEPT ![g] = "no"]
  /\ UNCHANGED <<offered, confirmed>>

\* The paths are replaced by position; the contents go along.
LiveMigration(g) ==
  /\ move[g] = "migrating"
  /\ LET to == Devices(GetResources(g, "new_"), flavor[g])
     IN  /\ devices' = [devices EXCEPT ![g] = to]
         /\ content' = [content EXCEPT ![context[g].dest] =
              [n \in Name |-> IF \E i \in DOMAIN to : to[i] = n
                              THEN content[at[g]][devices[g][CHOOSE i \in DOMAIN to : to[i] = n]] ELSE @[n]]]
  /\ at' = [at EXCEPT ![g] = context[g].dest] /\ move' = [move EXCEPT ![g] = "arrived"]
  /\ UNCHANGED <<offered, flavor, resources, context, confirmed>>

\* The manager has a source with persistent memory clean up.
PostMigrationAtSource(g) ==
  /\ move[g] = "arrived"
  /\ content' = Zeroed(context[g].source, Names(resources[g]))
  /\ move' = [move EXCEPT ![g] = "left"]
  /\ UNCHANGED <<offered, at, flavor, resources, context, devices, confirmed>>

PostMigrationAtDestination(g) ==
  /\ move[g] = "left"
  /\ resources' = [resources EXCEPT ![g] = context[g].new_resources]
  /\ context' = [context EXCEPT ![g] = NoContext] /\ move' = [move EXCEPT ![g] = "no"]
  /\ UNCHANGED <<offered, content, at, flavor, devices, confirmed>>

\* On the destination the context is applied for the time of the rollback.
RollbackMigration(g) ==
  /\ move[g] = "migrating"
  /\ content' = Zeroed(context[g].dest, Names(context[g].new_resources))
  /\ context' = [context EXCEPT ![g] = NoContext] /\ move' = [move EXCEPT ![g] = "no"]
  /\ UNCHANGED <<offered, at, flavor, resources, devices, confirmed>>

Next ==
  \E g \in Guest :
    \/ Spawn(g) \/ Write(g) \/ HardReboot(g) \/ Delete(g) \/ PrepareResize(g) \/ FinishMigration(g)
    \/ ConfirmMigration(g) \/ RevertMigration(g) \/ PrepareMigration(g) \/ LiveMigration(g)
    \/ PostMigrationAtSource(g) \/ PostMigrationAtDestination(g) \/ RollbackMigration(g)

Spec == Init /\ [][Next]_vars

-----------------------------------------------------------------------------
TypeOK ==
  /\ \A h \in Host : offered[h] \subseteq STRING \X Name /\ content[h] \in [Name -> Guest \union {None}]
  /\ at \in [Guest -> Host \union {None}]
  /\ \A g \in Guest : flavor[g] \in Flavors \union {<<>>} /\ \A r \in resources[g] : r[2] \in Name
  /\ move \in [Guest -> {"no", "resizing", "resized", "migrating", "arrived", "left", "error"}]
  /\ confirmed \subseteq Host \X Name

\* A namespace is in the definition of one guest at a time
\* (driver_22.04.py:538-584).
OneGuestEach ==
  \A g, q \in Guest : g # q /\ at[g] # None /\ at[g] = at[q] =>
    \A i \in DOMAIN devices[g], j \in DOMAIN devices[q] : devices[g][i] # devices[q][j]

\* The n-th device of a guest has the n-th label of its flavor, where it was
\* started and wherever it has migrated (driver_22.04.py:9466-9492,
\* migration.py:139-158).
LabelsInOrder ==
  \A g \in Guest : at[g] # None =>
    /\ Len(devices[g]) = Len(flavor[g])
    /\ \A i \in DOMAIN devices[g] : <<flavor[g][i], devices[g][i]>> \in offered[at[g]]

\* A namespace that no guest has was zeroed, unless a confirmed resize gave it
\* back (driver_22.04.py:1617-1620, 1686-1697).
GivenBackZeroed ==
  \A h \in Host : \A n \in Names(offered[h]) \ Names(Used(h)) :
    <<h, n>> \in confirmed \/ content[h][n] = None

\* As long as a resize may be reverted the former devices keep their contents,
\* and the guest finds them when it is reverted (driver_22.04.py:1617-1620).
KeepsForRevert ==
  \A g \in Guest :
    move[g] = "resized" /\ (move'[g] = "resized" \/ resources'[g] = context[g].old_resources) =>
      \A n \in Names(context[g].old_resources) :
        content'[context[g].source][n] = content[context[g].source][n]

\* What a comment says: confirming a resize zeroes the old devices
\* (driver_22.04.py:1811).
ZeroesWhenConfirmed ==
  \A g \in Guest : move[g] = "resized" /\ move'[g] = "no" /\ resources'[g] # context[g].old_resources =>
    \A n \in Names(context[g].old_resources) : content'[context[g].source][n] = None
=============================================================================
