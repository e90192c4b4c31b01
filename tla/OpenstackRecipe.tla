-------------------------- MODULE OpenstackRecipe --------------------------
(***************************************************************************)
(* What the recipes of the OpenStack services have in common, as data for  *)
(* ChefRun, in a cloud with ProxySQL: entries in Keystone and in the       *)
(* service catalog, the user of the database in ProxySQL, the database,    *)
(* whose creation is set off by a query file in /tmp, the configuration,   *)
(* and a virtual host of Apache.  Each service's own module has what is    *)
(* different there.  A behaviour has one recipe, so the recipes share the  *)
(* names of their facts.                                                   *)
(***************************************************************************)
EXTENDS RecipeData, TLC

OpenstackFact == {
  "user", "role",     \* the service user in Keystone, and its admin role
  "service",          \* the service in the catalog
  "admin", "internal", "public",  \* its endpoints
  "pkg",              \* the packages are installed
  "site",             \* the virtual host of the API is there
  "siteEnabled",      \* ... and enabled
  "psqlSql",          \* /tmp/proxysql-create-mysql-user.sql exists
  "psqlUser",         \* the database user is in ProxySQL's mysql_users
  "psqlLoaded",       \* ... and in the tables ProxySQL runs with
  "sql",              \* the file in /tmp with the query for the database
  "db",               \* the database and its grants exist
  "tables",           \* the database has tables
  "schema",           \* ... all of them, in the current version
  "stray",            \* the packaged configuration's database has the schema
  "conf"}             \* the configuration of the service is current

OpenstackVolatile == {"psqlSql", "sql"}

Catalog == {"user", "role", "service", "admin", "internal", "public"}

-----------------------------------------------------------------------------
\* A resource that makes one fact true unless it is true.
Once(fact, needed) ==
  [Plain EXCEPT !.unless = {{fact}}, !.needs = needed, !.adds = {fact}]

\* The lists of services and endpoints are fetched once per run, and only the
\* run itself changes them.
CreateUser == Once("user", {})
AddRole == Once("role", {"user"})
CreateService == Once("service", {})
CreateEndpoint(uri) == Once(uri, {"service"})

Packages == Once("pkg", {})
Restart == [Plain EXCEPT !.needs = {"pkg"}]

Site(notified) == [Once("site", {"pkg"}) EXCEPT !.now = <<"enableSite">> \o notified]
EnableSite == Once("siteEnabled", {"site"})

\* bcpc_proxysql_user: the query is written unless the user can log in, which
\* takes the running ProxySQL and the grants, and its entry is current.
PsqlUser == [Plain EXCEPT !.now = <<"deletePsqlSql", "psqlSql">>]
DeletePsqlSql == [Plain EXCEPT !.dels = {"psqlSql"}]
PsqlSql ==
  [Plain EXCEPT !.unless = {{"psqlUser", "psqlLoaded", "db"}, {"psqlSql"}},
                !.adds = {"psqlSql"}, !.halves = {{"psqlSql"}},
                !.now = <<"createPsqlUser", "deletePsqlSql", "reloadPsql">>]
CreatePsqlUser == [Plain EXCEPT !.adds = {"psqlUser"}]

ReloadPsql == [Plain EXCEPT !.adds = {"psqlLoaded"}]

\* The query is written as long as the database has no tables.
DeleteSql == [Plain EXCEPT !.dels = {"sql"}]
CreateDbSql ==
  [Plain EXCEPT !.unless = {{"tables"}, {"sql"}},
                !.adds = {"sql"}, !.halves = {{"sql"}}, !.now = <<"createDb">>]
CreateDatabase(notified) ==
  [Plain EXCEPT !.adds = {"db"}, !.now = <<"deleteSql">> \o notified]

\* The schema goes to the database that the configuration names, through
\* ProxySQL; it may fail after the first tables.  The configuration that comes
\* with the package names another one.
Sync == <<"dbSync", "straySync">>
DbSync ==
  [Plain EXCEPT !.only = {"conf"}, !.needs = {"db", "psqlLoaded"},
                !.adds = {"tables", "schema"}, !.halves = {{"tables"}}]
StraySync == [Plain EXCEPT !.unless = {{"conf"}}, !.adds = {"stray"}]

Conf(notified) == [Once("conf", {"pkg"}) EXCEPT !.now = notified]

\* A command of the client succeeds: the API answers and the catalog knows it.
WaitOnline(needed) ==
  [Plain EXCEPT !.needs = {"tables", "user", "role", "public"} \union needed]

CatalogList ==
  <<"createUser", "addRole", "createService", "endpointAdmin",
    "endpointInternal", "endpointPublic">>

Openstack == [
  createUser |-> CreateUser, addRole |-> AddRole, createService |-> CreateService,
  endpointAdmin |-> CreateEndpoint("admin"),
  endpointInternal |-> CreateEndpoint("internal"),
  endpointPublic |-> CreateEndpoint("public"),
  packages |-> Packages, restart |-> Restart, enableSite |-> EnableSite,
  psqlUser |-> PsqlUser, deletePsqlSql |-> DeletePsqlSql, psqlSql |-> PsqlSql,
  createPsqlUser |-> CreatePsqlUser, reloadPsql |-> ReloadPsql,
  createDbSql |-> CreateDbSql, deleteSql |-> DeleteSql,
  dbSync |-> DbSync, straySync |-> StraySync]

\* The recipe of a service: its own resources, its list, and the facts that a
\* run which succeeded is to leave true.
Service(resource, list, expected) ==
  [resource |-> resource @@ Openstack, list |-> list, initial |-> {},
   expected |-> expected \union Catalog \union {"pkg", "psqlLoaded", "db", "tables", "conf"}]
=============================================================================
