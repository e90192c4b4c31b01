--------------------------- MODULE ProxysqlRecipe ---------------------------
(***************************************************************************)
(* The recipe proxysql as data for ChefRun, with the custom resources it   *)
(* uses, on one headnode, in a cloud that has a ProxySQL cluster already   *)
(* (recipe "proxysql") or not yet ("proxysqlFirst").                       *)
(***************************************************************************)
EXTENDS RecipeData

ProxysqlFact == {
  "pkg",          \* the package is installed
  "fresh",        \* run_state: proxysql_fresh_install
  "mustRestart",  \* run_state: proxysql_restart_after_config
  "monitorSql",   \* /tmp/proxysql-create-monitor-user.sql exists
  "monitorUser",  \* MySQL knows the monitor user
  "files",        \* the helper files are there
  "adminCnf",     \* /etc/proxysql-admin.cnf is there
  "vars",         \* files/vars-restart is current
  "cnf",          \* /etc/proxysql.cnf is current
  "running",      \* the service runs
  "loaded",       \* ... with the configuration of the file
  "peerSql",      \* /tmp/proxysql-add-peer.sql exists
  "peer",         \* the primary is a peer in this node's tables
  "pulled",       \* this node has pulled the configuration of the cluster
  "pushed",       \* this node is a peer in the primary's tables
  "member"}       \* ... which the primary uses

ProxysqlVolatile == {"monitorSql", "peerSql"}
ProxysqlRunState == {"fresh", "mustRestart"}

-----------------------------------------------------------------------------
\* What the package notifies :before is executed before it is installed.
InstallProxysql ==
  [Plain EXCEPT !.unless = {{"pkg"}}, !.now = <<"setFresh", "aptInstall">>]
SetFreshInstall == [Plain EXCEPT !.adds = {"fresh"}]
AptInstall == [Plain EXCEPT !.adds = {"pkg"}, !.halves = {{"pkg"}}]

\* The query for the monitor user is written unless that user can log in; it
\* is executed only if it was written.
DeleteMonitorSql == [Plain EXCEPT !.dels = {"monitorSql"}]
MonitorSql ==
  [Plain EXCEPT !.unless = {{"monitorUser"}, {"monitorSql"}},
                !.adds = {"monitorSql"}, !.halves = {{"monitorSql"}},
                !.now = <<"createMonitorUser">>]
CreateMonitorUser ==
  [Plain EXCEPT !.adds = {"monitorUser"}, !.now = <<"deleteMonitorSql">>]

HelperFiles ==
  [Plain EXCEPT !.unless = {{"files", "adminCnf"}}, !.adds = {"files", "adminCnf"}]

VarsRestart ==
  [Plain EXCEPT !.unless = {{"vars"}}, !.adds = {"vars"}, !.now = <<"setRestart">>]
SetRestart == [Plain EXCEPT !.adds = {"mustRestart"}]

ProxysqlCnf ==
  [Plain EXCEPT !.unless = {{"cnf"}}, !.adds = {"cnf"}, !.dels = {"loaded"},
                !.now = <<"start", "reload", "restart">>]
ConditionalStart == [Plain EXCEPT !.only = {"fresh"}, !.adds = {"running"}]
ConditionalRestart == [Plain EXCEPT !.only = {"mustRestart"}, !.adds = {"running"}]

\* bcpc_proxysql_reload on this node; it writes its query anew every time.
ReloadConfig == [Plain EXCEPT !.needs = {"running"}, !.adds = {"loaded"}]

\* Without a cluster the node itself has to become the primary.
WaitPrimary(first) == [Plain EXCEPT !.needs = IF first THEN {"running"} ELSE {}]

\* Only a run that installed the package, on a node that is not the primary.
AddPrimaryAsPeer(first) ==
  [Plain EXCEPT !.only = {"fresh"}, !.unless = IF first THEN {{}} ELSE {},
                !.now = <<"deletePeerSql", "peerSql", "reload", "waitSync">>]

\* The resource bcpc_proxysql_peer, here for a peer of this node ...
DeletePeerSql == [Plain EXCEPT !.dels = {"peerSql"}]
WritePeerSql(addPeer) ==
  [Plain EXCEPT !.unless = {{"peerSql"}}, !.adds = {"peerSql"}, !.now = <<addPeer>>]
AddPeer ==
  [Plain EXCEPT !.needs = {"running"}, !.adds = {"peer"}, !.now = <<"deletePeerSql">>]

\* Mutant: nobody waits for the configuration of the cluster.
WaitSyncTooShort == [Plain EXCEPT !.now = <<"addAsPeer">>]

\* Two cycles of the cluster's synchronisation, in which ProxySQL pulls from the
\* peers it was told of, if it has loaded them.
WaitSync == [Plain EXCEPT !.now = <<"pull", "addAsPeer">>]
Pull == [Plain EXCEPT !.only = {"peer", "loaded"}, !.adds = {"pulled"}]

\* ... and here for a peer of the primary.
AddAsPeerToPrimary ==
  [Plain EXCEPT !.now = <<"deletePeerSql", "primaryPeerSql", "reloadPrimary">>]
AddSelfToPrimary == [Plain EXCEPT !.adds = {"pushed"}, !.now = <<"deletePeerSql">>]
ReloadPrimary == [Plain EXCEPT !.needs = {"pushed"}, !.adds = {"member"}]

ProxysqlResource(first) == [
  install |-> InstallProxysql, setFresh |-> SetFreshInstall,
  aptInstall |-> AptInstall,
  deleteMonitorSql |-> DeleteMonitorSql, monitorSql |-> MonitorSql,
  createMonitorUser |-> CreateMonitorUser,
  helperFiles |-> HelperFiles, varsRestart |-> VarsRestart,
  setRestart |-> SetRestart, cnf |-> ProxysqlCnf, start |-> ConditionalStart,
  restart |-> ConditionalRestart, reload |-> ReloadConfig,
  waitPrimary |-> WaitPrimary(first), addPrimary |-> AddPrimaryAsPeer(first),
  deletePeerSql |-> DeletePeerSql, peerSql |-> WritePeerSql("addPeer"),
  addPeer |-> AddPeer, waitSync |-> WaitSync, pull |-> Pull,
  addAsPeer |-> AddAsPeerToPrimary,
  primaryPeerSql |-> WritePeerSql("addSelf"), addSelf |-> AddSelfToPrimary,
  reloadPrimary |-> ReloadPrimary]

\* Mutant: the query file is only deleted by the one who executed it.
ProxysqlListNoDelete ==
  <<"install", "monitorSql", "helperFiles", "varsRestart", "cnf",
    "waitPrimary", "addPrimary">>

ProxysqlList ==
  <<"install", "deleteMonitorSql", "monitorSql", "helperFiles", "varsRestart",
    "cnf", "waitPrimary", "addPrimary">>

ProxysqlRecipes == [
  proxysql |-> [resource |-> ProxysqlResource(FALSE), list |-> ProxysqlList, initial |-> {}],
  proxysqlFirst |-> [resource |-> ProxysqlResource(TRUE), list |-> ProxysqlList, initial |-> {}]]
=============================================================================
