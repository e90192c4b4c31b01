--------------------------- MODULE ServiceRecipes ---------------------------
(***************************************************************************)
(* The recipes of the OpenStack services on a headnode, as data for        *)
(* ChefRun: keystone, glance, placement, nova-head, neutron-head, heat,    *)
(* cinder and watcher.                                                     *)
(***************************************************************************)
EXTENDS OpenstackRecipe

-----------------------------------------------------------------------------
(***************************************************************************)
(* The recipe keystone: the catalog and its first user come from the       *)
(* bootstrap, which follows the creation of the database, and everything   *)
(* after the wait is done through the API.                                 *)
(***************************************************************************)

KeystoneFact == {
  "adminProject",     \* the admin project has its description
  "adminRole",        \* the admin has the admin role in the default domain
  "adminDefault",     \* ... and a default project
  "serviceProject",   \* the project of the services
  "domainConf",       \* the file of an additional domain
  "domain",           \* the domain
  "domainRole"}       \* the admin's role in it

KeystoneDatabase == CreateDatabase(<<"conf">> \o Sync \o <<"bootstrap">>)

\* The bootstrap creates the admin and the entries of Keystone itself.
Bootstrap ==
  [Plain EXCEPT !.needs = {"tables"}, !.adds = Catalog]

\* A change through the API that is skipped once it is made.
ByAdmin(fact) == Once(fact, {"user"})
AddDomain == ByAdmin("domain")
DomainConf == Once("domainConf", {"pkg"})
PopulateMapping == [Plain EXCEPT !.needs = {"domain", "domainConf"}]
DomainRole == Once("domainRole", {"domain"})

KeystoneResource == [
  site |-> Site(<<"restart">>), createDb |-> KeystoneDatabase,
  bootstrap |-> Bootstrap, conf |-> Conf(<<"restart">>),
  waitOnline |-> WaitOnline({"siteEnabled"}),
  adminProject |-> ByAdmin("adminProject"), adminRole |-> ByAdmin("adminRole"),
  adminDefault |-> ByAdmin("adminDefault"),
  serviceProject |-> ByAdmin("serviceProject"), domainConf |-> DomainConf,
  domain |-> AddDomain, populate |-> PopulateMapping, domainRole |-> DomainRole]

KeystoneList ==
  <<"packages", "site", "enableSite", "psqlUser", "createDbSql", "conf",
    "waitOnline", "adminProject", "adminRole", "adminDefault", "serviceProject",
    "domainConf", "domain", "populate", "domainRole">>

KeystoneRecipes ==
  [keystone |-> Service(KeystoneResource, KeystoneList, KeystoneFact \union {"siteEnabled"})]

-----------------------------------------------------------------------------
(***************************************************************************)
(* The recipe glance, on a headnode that may also be a storage headnode.   *)
(***************************************************************************)

GlanceFact == {
  "keyring",          \* /etc/ceph/ceph.client.glance.keyring is current
  "keyImported",      \* Ceph knows the key of the keyring
  "cephConf"}         \* /etc/ceph/ceph.conf is current

\* Only a changed keyring is imported, and only by a storage headnode.
Keyring == [Once("keyring", {"pkg"}) EXCEPT !.now = <<"importKey">>]
ImportKey(storage) ==
  [Plain EXCEPT !.unless = IF storage THEN {} ELSE {{}},
                !.needs = {"keyring"}, !.adds = {"keyImported"}]

\* Mutant: the configuration of Ceph is written to another path.
CephConfMisnamed == [Once("ceph.conf", {}) EXCEPT !.later = {"restart"}]
CephConf == [Once("cephConf", {}) EXCEPT !.later = {"restart"}]

\* Mutant: the schema is created before the configuration names the database.
GlanceDatabaseSyncFirst == CreateDatabase(Sync \o <<"conf">>)
GlanceDatabase == CreateDatabase(<<"conf">> \o Sync)

GlanceResource(storage) == [
  keyring |-> Keyring, importKey |-> ImportKey(storage), cephConf |-> CephConf,
  createDb |-> GlanceDatabase, conf |-> Conf(<<"restart">>),
  waitOnline |-> WaitOnline({})]

\* Mutant: the internal endpoint is left out.
GlanceListTwoEndpoints(storage) ==
  <<"createUser", "addRole", "createService", "endpointAdmin", "endpointPublic",
    "packages", "keyring">>
  \o (IF storage THEN <<>> ELSE <<"cephConf">>)
  \o <<"psqlUser", "createDbSql", "conf", "waitOnline">>

GlanceList(storage) ==
  CatalogList \o <<"packages", "keyring">>
  \o (IF storage THEN <<>> ELSE <<"cephConf">>)
  \o <<"psqlUser", "createDbSql", "conf", "waitOnline">>

GlanceRecipe(storage) ==
  Service(GlanceResource(storage), GlanceList(storage),
          {"keyring"} \union IF storage THEN {} ELSE {"cephConf"})

GlanceRecipes == [glance |-> GlanceRecipe(FALSE), glanceStorage |-> GlanceRecipe(TRUE)]

-----------------------------------------------------------------------------
(***************************************************************************)
(* The recipe placement: its API runs in Apache.                           *)
(***************************************************************************)

PlacementFact == {"plugin"}  \* the client's plugin is installed

PlacementDatabase == CreateDatabase(<<"conf">> \o Sync \o <<"restart">>)

PlacementResource == [
  site |-> Site(<<"restart">>), createDb |-> PlacementDatabase,
  conf |-> Conf(<<"restart">>), plugin |-> Once("plugin", {}),
  waitOnline |-> WaitOnline({"siteEnabled", "plugin"})]

PlacementList ==
  CatalogList
  \o <<"packages", "site", "enableSite", "psqlUser", "createDbSql", "conf",
       "plugin", "waitOnline">>

PlacementRecipes ==
  [placement |-> Service(PlacementResource, PlacementList, {"siteEnabled", "plugin"})]

-----------------------------------------------------------------------------
(***************************************************************************)
(* The recipe nova-head: three databases, of which the tables of the main  *)
(* one tell whether all is done, and the cells.                            *)
(***************************************************************************)

NovaFact == {
  "apiTables",        \* the database nova_api has its tables
  "cell0", "cell1",   \* the cells are in nova_api
  "cell1Current",     \* cell1 has the connections that nova.conf names
  "servers"}          \* the packages of the services are installed

\* Mutant: the main database comes before the cells.
NovaDatabaseCellsLast ==
  CreateDatabase(<<"conf", "apiDbSync">> \o Sync
                 \o <<"registerCell0", "createCell1", "updateCell1">>)
NovaDatabase ==
  CreateDatabase(<<"conf", "apiDbSync", "registerCell0", "createCell1">> \o Sync
                 \o <<"updateCell1">>)

ApiDbSync ==
  [Plain EXCEPT !.needs = {"db", "psqlLoaded"}, !.adds = {"apiTables"}]
RegisterCell0 == Once("cell0", {"apiTables"})
CreateCell1 == [Once("cell1", {"apiTables"}) EXCEPT !.adds = {"cell1", "cell1Current"}]
UpdateCell1 == [Plain EXCEPT !.only = {"cell1"}, !.adds = {"cell1Current"}]

\* nova.conf names the message queue and the database that cell1 refers to.
NovaConf ==
  [Once("conf", {"pkg"}) EXCEPT !.dels = {"cell1Current"}, !.now = <<"updateCell1">>,
                                !.later = {"restartServers"}]
Servers == Once("servers", {})
RestartServers == [Plain EXCEPT !.needs = {"servers"}]

NovaResource == [
  createDb |-> NovaDatabase, apiDbSync |-> ApiDbSync,
  registerCell0 |-> RegisterCell0, createCell1 |-> CreateCell1,
  updateCell1 |-> UpdateCell1, conf |-> NovaConf, servers |-> Servers,
  restartServers |-> RestartServers, waitOnline |-> WaitOnline({"servers"})]

NovaList ==
  CatalogList \o <<"packages", "psqlUser", "createDbSql", "conf", "servers", "waitOnline">>

NovaRecipes == [nova |->
  Service(NovaResource, NovaList, {"apiTables", "cell0", "cell1", "cell1Current", "servers"})]

-----------------------------------------------------------------------------
(***************************************************************************)
(* The recipe neutron-head: the service, and one network with its subnet,  *)
(* its floating network and the router between them.                       *)
(***************************************************************************)

NeutronFact == {
  "ml2", "paste",      \* the other two configuration files
  "calico", "server",  \* calico-control and neutron-server are installed
  "network", "subnet", \* the fixed network and its subnet
  "float",             \* the floating network
  "floatAdmin",        \* ... which is an external one for the admin project only
  "floatSubnet",       \* its subnet
  "router",            \* the router
  "iface", "gateway",  \* ... with the fixed subnet and the floating network
  "rules"}             \* the rules of the admin's default security group

NeutronDatabase == CreateDatabase(<<"conf", "ml2">> \o Sync)

Restarting(fact) == [Once(fact, {"pkg"}) EXCEPT !.later = {"restartServer"}]
Calico == [Once("calico", {}) EXCEPT !.later = {"restartServer"}]
Server == Once("server", {})
RestartServer == [Plain EXCEPT !.needs = {"server"}]

FixedNetwork == Once("network", {})
FixedSubnet == Once("subnet", {"network"})

\* The network is created as external, for every project; two commands later
\* it is one for the admin project.
FloatNetwork ==
  [Once("float", {}) EXCEPT !.adds = {"float", "floatAdmin"}, !.halves = {{"float"}}]
FloatSubnet == Once("floatSubnet", {"float"})

Router == Once("router", {})
\* These scripts look at the router itself, in every run.
RouterSubnets == [Plain EXCEPT !.needs = {"network", "router"}, !.adds = {"iface"}]
RouterGateway == [Plain EXCEPT !.needs = {"router", "float"}, !.adds = {"gateway"}]
SecurityGroup == [Plain EXCEPT !.adds = {"rules"}]

NeutronResource == [
  createDb |-> NeutronDatabase, conf |-> Restarting("conf"), ml2 |-> Restarting("ml2"),
  paste |-> Restarting("paste"), calico |-> Calico, server |-> Server,
  restartServer |-> RestartServer, waitOnline |-> WaitOnline({"server", "ml2"}),
  network |-> FixedNetwork, subnet |-> FixedSubnet, float |-> FloatNetwork,
  floatSubnet |-> FloatSubnet, router |-> Router,
  routerSubnets |-> RouterSubnets, gateway |-> RouterGateway,
  rules |-> SecurityGroup]

NeutronList ==
  CatalogList
  \o <<"packages", "psqlUser", "createDbSql", "conf", "ml2", "paste", "calico",
       "server", "waitOnline", "network", "subnet", "float", "floatSubnet",
       "router", "routerSubnets", "gateway", "rules">>

NeutronRecipes ==
  [neutron |-> Service(NeutronResource, NeutronList, NeutronFact \ {"floatAdmin"})]

-----------------------------------------------------------------------------
(***************************************************************************)
(* The recipe heat: two services, a domain of their own, and a chain of    *)
(* notifications from the first virtual host to the database and from the  *)
(* paste file to the configuration and its synchronisation.                *)
(***************************************************************************)

HeatFact == {
  "heatDomain", "domainAdmin", "domainAdminRole",  \* Heat's domain
  "ownerRole", "userRole", "adminOwner",           \* the roles of its stacks
  "serviceCfn", "adminCfn", "internalCfn", "publicCfn",  \* cloudformation
  "cfnSite", "cfnEnabled",                         \* its virtual host
  "paste"}                                         \* /etc/heat/api-paste.ini

EndpointCfn(uri) == Once(uri, {"serviceCfn"})

HeatSite == Site(<<"cfnSite", "psqlUser", "createDbSql">>)
CfnSite ==
  [Once("cfnSite", {"pkg"}) EXCEPT !.now = <<"enableCfn", "psqlUser", "createDbSql">>]
EnableCfn == Once("cfnEnabled", {"cfnSite"})

HeatDatabase == CreateDatabase(<<"paste">> \o Sync \o <<"restart">>)
Paste == [Once("paste", {"pkg"}) EXCEPT !.now = <<"restart", "conf">>]
HeatConf == Conf(Sync \o <<"restart">>)

HeatResource == [
  heatDomain |-> Once("heatDomain", {}),
  domainAdmin |-> Once("domainAdmin", {"heatDomain"}),
  domainAdminRole |-> Once("domainAdminRole", {"domainAdmin"}),
  ownerRole |-> Once("ownerRole", {}), userRole |-> Once("userRole", {}),
  adminOwner |-> Once("adminOwner", {"ownerRole"}),
  createCfn |-> Once("serviceCfn", {}), adminCfn |-> EndpointCfn("adminCfn"),
  internalCfn |-> EndpointCfn("internalCfn"), publicCfn |-> EndpointCfn("publicCfn"),
  site |-> HeatSite, cfnSite |-> CfnSite, enableCfn |-> EnableCfn,
  createDb |-> HeatDatabase, paste |-> Paste, conf |-> HeatConf,
  waitOnline |-> WaitOnline({"siteEnabled"})]

HeatList ==
  <<"createUser", "addRole", "heatDomain", "domainAdmin", "domainAdminRole",
    "ownerRole", "userRole", "adminOwner", "createService", "endpointAdmin",
    "endpointInternal", "endpointPublic", "createCfn", "adminCfn", "internalCfn",
    "publicCfn", "packages", "site", "enableSite", "cfnSite", "enableCfn",
    "psqlUser", "createDbSql", "paste", "conf", "waitOnline">>

HeatRecipes ==
  [heat |-> Service(HeatResource, HeatList, HeatFact \union {"siteEnabled"})]

-----------------------------------------------------------------------------
(***************************************************************************)
(* The recipe cinder: two versions of the service in the catalog, packages *)
(* in three steps, and the volume types.  In a cloud with zones (recipe    *)
(* "cinderZones", here on a storage headnode) there is one alternate       *)
(* backend with a policy for its quality of service.                       *)
(***************************************************************************)

CinderFact == {
  "serviceV3", "adminV3", "internalV3", "publicV3",  \* volumev3 in the catalog
  "keyring", "keyImported",   \* as for Glance
  "apiPaste",                 \* /etc/cinder/api-paste.ini is current
  "api",                      \* the package cinder-api is installed
  "volume",                   \* cinder-scheduler and cinder-volume are
  "type", "typeSet",          \* the volume type, and its properties
  "altType", "altTypeSet",    \* ... of the alternate backend
  "qos", "qosBound"}          \* its policy, and the association with the type

EndpointV3(uri) == Once(uri, {"serviceV3"})
CinderKeyring == Once("keyring", {"pkg"})

\* Unlike Glance's, the key is imported by every run of a storage headnode.
ImportCinderKey(storage) ==
  [Plain EXCEPT !.unless = IF storage THEN {} ELSE {{}},
                !.needs = {"keyring"}, !.adds = {"keyImported"}]

ApiPaste == [Once("apiPaste", {"pkg"}) EXCEPT !.later = {"restartApi"}]
CinderConf ==
  [Once("conf", {"pkg"}) EXCEPT !.later = {"restartApi", "restartVolume"}]
CinderDatabase == CreateDatabase(Sync)

ApiPackage == Once("api", {})
CinderSite == [Once("site", {"api"}) EXCEPT !.now = <<"enableSite", "restartApi">>]
RestartApi == [Plain EXCEPT !.needs = {"api"}]
RestartVolume == [Plain EXCEPT !.needs = {"volume"}]
VolumePackages == Once("volume", {})

VolumeType(type) == Once(type, {})
SetVolumeType(set, type) == Once(set, {type})

\* Policy and association are two commands behind one guard.
AddQos == [Once("qos", {"altType"}) EXCEPT !.adds = {"qos", "qosBound"}, !.halves = {{"qos"}}]

CinderResource(zones) == [
  createV3 |-> Once("serviceV3", {}), adminV3 |-> EndpointV3("adminV3"),
  internalV3 |-> EndpointV3("internalV3"), publicV3 |-> EndpointV3("publicV3"),
  keyring |-> CinderKeyring, importKey |-> ImportCinderKey(zones),
  apiPaste |-> ApiPaste, conf |-> CinderConf, createDb |-> CinderDatabase,
  api |-> ApiPackage, site |-> CinderSite, restartApi |-> RestartApi,
  restartVolume |-> RestartVolume, volume |-> VolumePackages,
  waitOnline |-> WaitOnline({"api", "siteEnabled", "publicV3"}),
  type |-> VolumeType("type"), typeSet |-> SetVolumeType("typeSet", "type"),
  altType |-> VolumeType("altType"), altTypeSet |-> SetVolumeType("altTypeSet", "altType"),
  qos |-> AddQos]

\* Mutant: the services are installed with the base packages.
CinderListVolumeEarly(zones) ==
  CatalogList
  \o <<"createV3", "adminV3", "internalV3", "publicV3", "packages", "volume",
       "keyring", "importKey", "apiPaste", "conf", "psqlUser", "createDbSql",
       "api", "site", "enableSite", "waitOnline", "type", "typeSet">>
  \o (IF zones THEN <<"altType", "altTypeSet", "qos">> ELSE <<>>)

CinderList(zones) ==
  CatalogList
  \o <<"createV3", "adminV3", "internalV3", "publicV3", "packages", "keyring",
       "importKey", "apiPaste", "conf", "psqlUser", "createDbSql", "api", "site",
       "enableSite", "waitOnline", "volume", "type", "typeSet">>
  \o (IF zones THEN <<"altType", "altTypeSet", "qos">> ELSE <<>>)

CinderExpected(zones) ==
  {"serviceV3", "adminV3", "internalV3", "publicV3", "keyring", "apiPaste", "api",
   "siteEnabled", "volume", "type", "typeSet"}
  \union IF zones THEN {"keyImported", "altType", "altTypeSet", "qos"} ELSE {}

CinderRecipe(zones) ==
  Service(CinderResource(zones), CinderList(zones), CinderExpected(zones))

CinderRecipes == [cinder |-> CinderRecipe(FALSE), cinderZones |-> CinderRecipe(TRUE)]

-----------------------------------------------------------------------------
(***************************************************************************)
(* The recipe watcher: only a changed configuration creates the schema.    *)
(***************************************************************************)

WatcherSite == Site(<<"restart", "psqlUser", "createDbSql">>)
WatcherDatabase == CreateDatabase(<<>>)
WatcherConf == Conf(Sync \o <<"restart">>)

WatcherResource == [
  site |-> WatcherSite, createDb |-> WatcherDatabase, conf |-> WatcherConf,
  waitOnline |-> WaitOnline({"siteEnabled"})]

WatcherList ==
  CatalogList
  \o <<"packages", "site", "enableSite", "psqlUser", "createDbSql", "conf",
       "waitOnline">>

WatcherRecipes == [watcher |-> Service(WatcherResource, WatcherList, {"siteEnabled"})]
=============================================================================
