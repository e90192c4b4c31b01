----------------------------- MODULE CephRecipe -----------------------------
(***************************************************************************)
(* The recipes of the Ceph cluster as data for ChefRun: the monitor that   *)
(* founds the cluster and one that joins it (ceph-mon), the manager        *)
(* (ceph-mgr), a storage node with one disk (ceph-osd), and the pools and  *)
(* clients of OpenStack on a storage headnode that is no OpenStack         *)
(* headnode (ceph-pools-openstack).                                        *)
(***************************************************************************)
EXTENDS OpenstackRecipe

CephFact == {
  "configured",      \* the keyrings in /etc/ceph have the configured keys
  "tmpKeyrings",     \* ... and copies of those lie in .tmp
  "imported",        \* Ceph knows the configured keys
  "cephConf",
  "done",            \* /var/lib/ceph/.../done: ceph-deploy has begun its work
  "cluster",         \* a monitor answers
  "daemon",          \* this host's monitor, manager or OSD runs
  "rack",            \* the bucket of the rack exists
  "placed",          \* ... and is under the default root, or the host in it
  "osdVolume",       \* the disk is a physical volume of Ceph
  "pool",            \* the pool exists
  "application",     \* ... and is marked as one for RBD
  "size",            \* ... and has its number of copies
  "keyring", "keyImported",        \* the client's keyring; Ceph knows its key
  "everyKeyring", "everyImported"} \* alike, for the clients of Cinder

\* A command of the administrator: a monitor answers, and the key is known.
Ceph(command) == [command EXCEPT !.needs = @ \union {"cluster", "configured", "imported"}]

Keyrings == Once("configured", {"pkg"})
CephConfFile == Once("cephConf", {"pkg"})
MonConf == [Once("cephConf", {"pkg"}) EXCEPT !.now = <<"restart">>]

\* ceph-deploy writes "done" before the monitor runs, and it replaces the
\* keyrings by those of the new cluster.
CreateCluster ==
  [Plain EXCEPT !.unless = {{"done"}},
                !.now = <<"copyKeyrings", "createInitial", "importKeyrings">>]
CopyKeyrings == [Plain EXCEPT !.needs = {"configured"}, !.adds = {"tmpKeyrings"}]
CreateInitial ==
  [Plain EXCEPT !.needs = {"cephConf"}, !.adds = {"done", "cluster", "daemon"},
                !.dels = {"configured"}, !.halves = {{"done"}, {"done", "cluster", "daemon"}}]
ImportKeyrings ==
  [Plain EXCEPT !.needs = {"cluster", "tmpKeyrings"}, !.adds = {"imported", "configured"},
                !.dels = {"tmpKeyrings"}, !.slips = {{"configured"}}]

\* ceph-deploy for another daemon of the cluster.
BootstrapKeyring == Once("keyring", {"pkg"})
Deploy(needed) ==
  [Ceph(Once("done", needed)) EXCEPT !.adds = {"done", "daemon"}, !.halves = {{"done"}}]

\* Two commands behind a guard that looks at the first one's effect.
RackBucket ==
  [Ceph(Once("rack", {})) EXCEPT !.adds = {"rack", "placed"}, !.halves = {{"rack"}}]
CreatePool ==
  [Ceph(Once("pool", {})) EXCEPT !.adds = {"pool", "application"}, !.halves = {{"pool"}}]
CreateOsd ==
  [Ceph(Once("osdVolume", {})) EXCEPT !.adds = {"osdVolume", "daemon"}, !.halves = {{"osdVolume"}}]

PoolSize == Ceph(Once("size", {"pool"}))
\* The host has a bucket to be moved once its OSD has started.
MoveHost == Ceph([Plain EXCEPT !.needs = {"rack", "daemon"}, !.adds = {"placed"}])
EverySetting == Ceph(Plain)

\* The key of Glance is imported when its keyring changed, those of Cinder in
\* every run.
ClientKeyring == [Once("keyring", {}) EXCEPT !.now = <<"importClient">>]
ImportClient == Ceph([Plain EXCEPT !.needs = {"keyring"}, !.adds = {"keyImported"}])
ImportEvery == Ceph([Plain EXCEPT !.needs = {"everyKeyring"}, !.adds = {"everyImported"}])

CephResource == [
  packages |-> Packages, restart |-> Restart, keyrings |-> Keyrings, conf |-> MonConf, osdConf |-> CephConfFile,
  createCluster |-> CreateCluster, copyKeyrings |-> CopyKeyrings,
  createInitial |-> CreateInitial, importKeyrings |-> ImportKeyrings,
  bootstrapKeyring |-> BootstrapKeyring,
  joinMon |-> Deploy({"cephConf"}), createMgr |-> Deploy({"keyring"}), rack |-> RackBucket, setting |-> EverySetting, osd |-> CreateOsd,
  moveHost |-> MoveHost, pool |-> CreatePool, size |-> PoolSize,
  keyring |-> ClientKeyring, importClient |-> ImportClient,
  everyKeyring |-> Once("everyKeyring", {}), importEvery |-> ImportEvery]

PoolsList == <<"pool", "size", "keyring", "everyKeyring", "importEvery">>

CephRecipe(list, initial, expected) ==
  [resource |-> CephResource, list |-> list, initial |-> initial, expected |-> expected]

\* What a host finds in a cluster that is there; the last recipe runs on a
\* host that has a monitor.
Cluster == {"cluster", "imported"}
CephRecipes == [
  cephFirst |-> CephRecipe(
    <<"packages", "keyrings", "conf", "createCluster", "rack", "setting">>, {},
    {"pkg", "configured", "imported", "cephConf", "done", "cluster", "rack"}),
  cephMon |-> CephRecipe(
    <<"packages", "keyrings", "conf", "joinMon", "rack", "setting">>, Cluster,
    {"pkg", "configured", "cephConf", "done", "rack"}),
  cephMgr |-> CephRecipe(
    <<"packages", "bootstrapKeyring", "createMgr", "setting">>, Cluster \union {"configured"}, {"pkg", "keyring", "done"}),
  cephOsd |-> CephRecipe(
    <<"packages", "osdConf", "keyrings", "osd", "moveHost">>, Cluster \union {"rack"},
    {"pkg", "configured", "cephConf", "osdVolume", "daemon", "placed"}),
  cephPools |-> CephRecipe(
    PoolsList, Cluster \union {"pkg", "configured"},
    {"pool", "size", "keyring", "everyKeyring", "everyImported"})]
=============================================================================
