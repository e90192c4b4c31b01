------------------------------ MODULE Cookbook ------------------------------
(***************************************************************************)
(* The recipes that are modelled as data, together: a host runs any one of *)
(* them.                                                                   *)
(***************************************************************************)
EXTENDS ChefRun, CookbookRules

-----------------------------------------------------------------------------
\* Whatever failed before, the monitor user exists after a run that succeeded:
\* a query left behind by a run that died is never mistaken for a query that
\* was executed (proxysql.rb:165-204).
MonitorUserExists ==
  recipe \in DOMAIN ProxysqlRecipes /\ run = "ok" => "monitorUser" \in world

\* The node is never made a peer of the primary before it has pulled the
\* configuration of the cluster, which it would overwrite with its own
\* (proxysql.rb:329-334).
PullsBeforePush == "pushed" \in world => "pulled" \in world

\* Whatever failed in earlier runs, a run that succeeded leaves the service
\* complete: the user, the catalog, the database with its user known to the
\* running ProxySQL, and what is the service's own.
Complete ==
  run = "ok" /\ "expected" \in DOMAIN Book[recipe] => Book[recipe].expected \subseteq world

\* The main database, whose tables make every later run skip the databases,
\* gets no table before both cells exist: a run that died earlier is made up
\* for (nova-head.rb:255-277).
CellsBeforeTables ==
  recipe \in DOMAIN NovaRecipes /\ "tables" \in world => {"cell0", "cell1"} \subseteq world

\* The services that work on volumes are not installed, and so not started,
\* before they are configured and the database was initialised
\* (cinder.rb:125-129); that rests on the API, which is waited for.
ServicesAfterDatabase == "volume" \in world => {"conf", "tables"} \subseteq world

\* The schema is never written to the database that the packaged configuration
\* names: on every path, after every fault, the service's own configuration is
\* there before its database is synchronised (glance.rb:224, and alike in the
\* others).  Heat is the exception: a run that died between its paste file and
\* its configuration makes the next one synchronise before the latter.
NoStraySync == recipe \notin DOMAIN HeatRecipes => "stray" \notin world

\* The orders that the recipes rely on hold on every path, after every fault:
\* a node pulls ProxySQL's configuration before it pushes any, and no database
\* is synchronised without its configuration, no table made without the cells,
\* no volume service started without its database (proxysql.rb:382-400,
\* nova-head.rb:240-290, cinder.rb:385-400).
StepsInOrder ==
  PullsBeforePush /\ NoStraySync /\ CellsBeforeTables /\ ServicesAfterDatabase

\* A run that succeeds has made up for all that failed before it: everything
\* the recipe is for is there, ProxySQL's monitor user included.
RunsComplete == Complete /\ MonitorUserExists
=============================================================================
