---------------------------- MODULE CookbookRules ----------------------------
(***************************************************************************)
(* All recipes that are data, and the rules that the orders in them rest   *)
(* on (RecipeData says what a rule is, and when it is sound).              *)
(***************************************************************************)
EXTENDS ProxysqlRecipe, ServiceRecipes, BackendRecipes, CephRecipe

CookbookFact ==
  UNION {ProxysqlFact, OpenstackFact, KeystoneFact, GlanceFact, PlacementFact,
         NovaFact, NeutronFact, HeatFact, CinderFact, BackendFact, CephFact}
CookbookVolatile == ProxysqlVolatile \union OpenstackVolatile
CookbookRunState == ProxysqlRunState \union RabbitmqRunState

CookbookRecipes ==
  ProxysqlRecipes @@ KeystoneRecipes @@ GlanceRecipes @@ PlacementRecipes
  @@ NovaRecipes @@ NeutronRecipes @@ HeatRecipes @@ CinderRecipes @@ WatcherRecipes
  @@ BackendRecipes @@ CephRecipes

-----------------------------------------------------------------------------
\* ProxySQL pulls before it pushes.  The schema needs the database and its user
\* in ProxySQL; PowerDNS creates it with the database.  Nova makes both cells
\* before the main tables.  Cinder's services come last.  Keystone's bootstrap
\* makes the whole catalog, ceph-deploy's mark comes with the cluster.
CookbookFollows(b) ==
  {<<"pushed", "pulled">>, <<"volume", "conf">>, <<"volume", "tables">>,
   <<"tables", "db">>}
  \union
  (IF b \in DOMAIN PowerdnsRecipes
   THEN {<<"zone", f>> : f \in {"db", "tables", "psqlLoaded"}}
   ELSE {<<"tables", "psqlLoaded">>})
  \union
  (IF b \in DOMAIN NovaRecipes
   THEN {<<"cell0", "apiTables">>, <<"cell1", "conf">>, <<"cell1", "cell1Current">>}
        \union {<<"tables", f>> : f \in {"apiTables", "cell0", "cell1", "cell1Current", "conf"}}
   ELSE {})
  \union
  (IF b \in DOMAIN KeystoneRecipes
   THEN {<<"user", f>> : f \in {"service", "admin", "internal"}} ELSE {})
  \union (IF b = "cephFirst" THEN {<<"cluster", "done">>} ELSE {})

\* The schema is never written to the packaged configuration's database, but
\* for Heat.
CookbookNever(b) == IF b \in DOMAIN HeatRecipes THEN {} ELSE {"stray"}

CookbookDue(b) ==
  (IF "expected" \in DOMAIN CookbookRecipes[b] THEN CookbookRecipes[b].expected ELSE {})
  \union (IF b \in DOMAIN ProxysqlRecipes THEN {"monitorUser"} ELSE {})

CookbookBefore(b) ==
  {<<r, "pulled">> : r \in {"addAsPeer", "primaryPeerSql", "addSelf"}}
  \union ({"waitSync", "pull"} \X {"peer", "loaded"})
  \union {<<"volume", "conf">>, <<"volume", "tables">>}
  \union (IF b \in DOMAIN HeatRecipes THEN {} ELSE {<<"dbSync", "conf">>, <<"straySync", "conf">>})
  \union
  (IF b \in DOMAIN NovaRecipes
   THEN {<<"createCell1", "conf">>, <<"dbSync", "cell0">>, <<"dbSync", "cell1">>} ELSE {})
  \union
  (IF b \in DOMAIN CinderRecipes THEN {<<"createDbSql", "conf">>, <<"createDb", "conf">>} ELSE {})

\* A query is written right after an old one was deleted, for one user or the
\* other, and executed.
CookbookFresh ==
  {<<"monitorSql", "monitorSql">>, <<"psqlSql", "psqlSql">>, <<"peerSql", "peerSql">>}
CookbookThrough(b) ==
  (IF b \in DOMAIN ProxysqlRecipes
   THEN {<<"monitorSql", "monitorUser">>, <<"peerSql", "peer">>} ELSE {})
  \union
  (IF b \in DOMAIN PowerdnsRecipes
   THEN {<<"psqlUser", "psqlUser">>, <<"psqlSql", "psqlUser">>} ELSE {})

RulesOf(b) ==
  [follows |-> CookbookFollows(b), never |-> CookbookNever(b), due |-> CookbookDue(b),
   before |-> CookbookBefore(b), fresh |-> CookbookFresh, through |-> CookbookThrough(b)]

\* What the data says bears the rules out; MCServices has TLC evaluate it.
CookbookSound ==
  /\ CookbookRunState \union CookbookVolatile \subseteq CookbookFact
  /\ \A b \in DOMAIN CookbookRecipes :
       /\ WellFormed(CookbookRecipes[b], CookbookFact)
       /\ Sound(CookbookRecipes[b], RulesOf(b), CookbookRunState \union CookbookVolatile)
=============================================================================
