--------------------------- MODULE BackendRecipes ---------------------------
(***************************************************************************)
(* The recipes mysql, rabbitmq and powerdns as data for ChefRun.  MySQL    *)
(* and RabbitMQ run on the first node or on one that joins the cluster of  *)
(* the others; a MySQL server that joins takes the database over.  Nova    *)
(* sends versioned notifications.  PowerDNS is enabled and has the forward *)
(* zone and one reverse zone; nothing there deletes a query that was left  *)
(* in /tmp, which keeps the database from being created until the host     *)
(* boots.  A boot, which would restart the servers with their current      *)
(* files, makes good no restart here.                                      *)
(***************************************************************************)
EXTENDS OpenstackRecipe

MysqlFact == {
  "initSql",         \* mysql-init-db.sql lies in chef-client's cache
  "users",           \* the users for root, transfers and checks exist
  "done",            \* /var/lib/mysql/done exists
  "rootCnf", "myCnf", "debianCnf", "wsrep",  \* these files are current
  "joined",          \* the server runs with wsrep.cnf
  "chkFile",         \* xinetd's file for the check is current
  "mysqlchk"}        \* xinetd answers the checks

\* The query is executed only if it was written: one that a run left behind is
\* not executed by the next.
InitSql ==
  [Plain EXCEPT !.unless = {{"done"}, {"initSql"}}, !.adds = {"initSql"},
                !.halves = {{"initSql"}}, !.now = <<"configure">>]
Configure ==
  [Plain EXCEPT !.needs = {"pkg"}, !.adds = {"users", "done"}, !.halves = {{"users"}},
                !.now = <<"deleteInitSql">>]
DeleteInitSql == [Plain EXCEPT !.dels = {"initSql"}]

MysqlFile(fact, notified) == [Once(fact, {"pkg"}) EXCEPT !.now = notified]
RestartXinetd == [Plain EXCEPT !.needs = {"pkg", "chkFile"}, !.adds = {"mysqlchk"}]
RestartMysql == [Plain EXCEPT !.needs = {"pkg"}]

\* Restarted with wsrep.cnf, the server of another headnode has the cluster's
\* database in place of its own.
JoinCluster(first) ==
  [Plain EXCEPT !.needs = {"pkg"},
                !.adds = {"joined"} \union IF first THEN {} ELSE {"users"}]

\* Mutant: the recipe ends without a primary.
WaitPrimaryMysqlNever(first) == Plain

\* The first headnode becomes the primary only if its own check passes.
WaitPrimaryMysql(first) ==
  [Plain EXCEPT !.needs = IF first THEN {"users", "mysqlchk"} ELSE {}]

MysqlResource(first) == [
  packages |-> Packages, initSql |-> InitSql, configure |-> Configure,
  deleteInitSql |-> DeleteInitSql, rootCnf |-> MysqlFile("rootCnf", <<>>),
  myCnf |-> MysqlFile("myCnf", <<"restartMysql">>),
  debianCnf |-> MysqlFile("debianCnf", <<"restartMysql">>),
  wsrep |-> MysqlFile("wsrep", <<"joinCluster">>),
  restartMysql |-> RestartMysql, joinCluster |-> JoinCluster(first),
  chkFile |-> MysqlFile("chkFile", <<"restartXinetd">>),
  restartXinetd |-> RestartXinetd, waitPrimary |-> WaitPrimaryMysql(first)]

MysqlList ==
  <<"packages", "initSql", "rootCnf", "myCnf", "debianCnf", "wsrep", "chkFile",
    "waitPrimary">>

MysqlRecipe(first) ==
  [resource |-> MysqlResource(first), list |-> MysqlList, initial |-> {},
   expected |-> {"pkg", "rootCnf", "myCnf", "debianCnf", "wsrep", "chkFile"}
                \union IF first THEN {"users", "mysqlchk"} ELSE {}]

MysqlRecipes == [mysqlFirst |-> MysqlRecipe(TRUE), mysql |-> MysqlRecipe(FALSE)]

-----------------------------------------------------------------------------
RabbitmqFact == {
  "files",       \* the configuration and the cookie are current
  "plugin",      \* the management plugin is enabled
  "running",     \* the application runs
  "clustered",   \* ... as a member of the others' cluster
  "password", "haPolicy",  \* the user's password and the mirroring are set
  "ttl",         \* the notifications expire
  "mustPurge",   \* they did not when this run began
  "purged",      \* those that never expire are gone
  "chkFile",     \* xinetd's file for the check is current
  "amqpchk"}     \* xinetd answers the checks

RabbitmqRunState == {"mustPurge"}

RabbitmqServer == [Packages EXCEPT !.adds = {"pkg", "running"}, !.halves = {{"pkg"}}]
RabbitmqFile(fact) == [Once(fact, {"pkg"}) EXCEPT !.now = <<"restart">>]
RestartRabbitmq == [Plain EXCEPT !.needs = {"pkg"}, !.adds = {"running"}]

\* A node that is no running member is stopped and reset; it joins and starts.
\* The script notices a failure of the last of the four commands only.
LeaveOwnCluster ==
  [Plain EXCEPT !.unless = {{"clustered", "running"}},
                !.dels = {"clustered", "running"}, !.now = <<"joinAndStart">>]
JoinAndStart ==
  [Plain EXCEPT !.adds = {"clustered", "running"}, !.halves = {{"clustered"}},
                !.slips = {{"running"}}]

\* A command of rabbitmqctl, for which the application has to run.
Control(command) == [command EXCEPT !.needs = @ \union {"running"}]
SetPassword == Control([Plain EXCEPT !.adds = {"password"}])
SetPolicy == Control([Plain EXCEPT !.adds = {"haPolicy"}])

\* Whether to purge is decided by the policy as it was before the run.
SetTtl == Control([Plain EXCEPT !.unless = {{"ttl"}}, !.adds = {"ttl", "mustPurge"}])
PurgeQueues == Control([Plain EXCEPT !.only = {"mustPurge"}, !.adds = {"purged"}])

CheckFile == [Once("chkFile", {"pkg"}) EXCEPT !.now = <<"restartXinetd">>]
ReloadXinetd == [Plain EXCEPT !.needs = {"chkFile"}, !.adds = {"amqpchk"}]

RabbitmqResource == [
  packages |-> RabbitmqServer, files |-> RabbitmqFile("files"), plugin |-> RabbitmqFile("plugin"),
  restart |-> RestartRabbitmq, join |-> LeaveOwnCluster, joinAndStart |-> JoinAndStart,
  waitOnline |-> Control(Plain), password |-> SetPassword, policy |-> SetPolicy,
  ttl |-> SetTtl, purge |-> PurgeQueues, chkFile |-> CheckFile,
  restartXinetd |-> ReloadXinetd]

RabbitmqList(first) ==
  <<"packages", "files", "plugin">>
  \o (IF first THEN <<>> ELSE <<"join">>)
  \o <<"waitOnline", "password", "policy", "ttl", "purge", "chkFile">>

RabbitmqRecipe(first) ==
  [resource |-> RabbitmqResource, list |-> RabbitmqList(first), initial |-> {},
   expected |-> {"pkg"} \union (RabbitmqFact \ {"clustered", "mustPurge", "purged", "amqpchk"})]

RabbitmqRecipes == [rabbitmqFirst |-> RabbitmqRecipe(TRUE), rabbitmq |-> RabbitmqRecipe(FALSE)]

-----------------------------------------------------------------------------
PowerdnsFact == {
  "zoneFile", "reverseFile",      \* the zone's file lies in chef-client's cache
  "zone", "reverseZone",          \* PowerDNS lists the zone
  "records", "reverseRecords"}    \* ... and has its records

\* The query creates the database, its grants and its tables.
PdnsDatabase ==
  [Plain EXCEPT !.adds = {"db", "tables", "schema"},
                !.halves = {{"db"}, {"db", "tables"}}, !.now = <<"deleteSql">>]

ZoneFile(zone, file) == [Plain EXCEPT !.unless = {{zone}}, !.adds = {file}]

\* A zone is created before its records are, in the database.
LoadZone(zone, file, records) ==
  [Once(zone, {file, "pkg", "conf", "tables", "psqlLoaded"})
     EXCEPT !.adds = {zone, records}, !.halves = {{zone}}]

PowerdnsResource == [
  createDb |-> PdnsDatabase, conf |-> Conf(<<"restart">>),
  zoneFile |-> ZoneFile("zone", "zoneFile"),
  loadZone |-> LoadZone("zone", "zoneFile", "records"),
  reverseFile |-> ZoneFile("reverseZone", "reverseFile"),
  loadReverse |-> LoadZone("reverseZone", "reverseFile", "reverseRecords")]

PowerdnsList ==
  <<"psqlUser", "createDbSql", "packages", "conf", "zoneFile", "loadZone",
    "reverseFile", "loadReverse">>

PowerdnsRecipes == [powerdns |->
  [resource |-> PowerdnsResource @@ Openstack, list |-> PowerdnsList, initial |-> {},
   expected |-> {"pkg", "psqlUser", "psqlLoaded", "db", "tables", "conf", "zone",
                 "reverseZone"}]]

BackendFact == UNION {MysqlFact, RabbitmqFact, PowerdnsFact}
BackendRecipes == MysqlRecipes @@ RabbitmqRecipes @@ PowerdnsRecipes
=============================================================================
