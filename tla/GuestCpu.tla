------------------------------ MODULE GuestCpu ------------------------------
(***************************************************************************)
(* The processor model of a guest on a cloud of different hosts.  A host   *)
(* tells Placement what its guests may have, a guest that needs a feature  *)
(* is sent there, the driver picks a model and adds and removes flags, and *)
(* a migration compares what the guest has with the other host.  Hosts are *)
(* configured anew while guests run.  A flag that is removed is so on all  *)
(* hosts.  libvirt, Placement and the scheduler are external.              *)
(***************************************************************************)
EXTENDS Naturals, Sequences

CONSTANTS
  Host, Feature, Model,
  Has,         \* features of a model
  ModelLists,  \* what cpu_models may be
  HostKinds    \* what features a host may have

GuestCpuAssumption == Has \in [Model -> SUBSET Feature] /\ HostKinds \subseteq SUBSET Feature

VARIABLES
  native,    \* features of a host
  mode, models, added, \* cpu_mode, cpu_models, and required extra flags, of a host
  removed,   \* extra flags with a minus
  traits,    \* Placement: features of a host
  required,  \* of the guest's flavor
  host,      \* of the guest, or Nowhere
  cpu        \* of the guest: vcpu_model as it is saved, and what it has

vars == <<native, mode, models, added, removed, traits, required, host, cpu>>
config == <<mode, models, added>>

Nowhere == "nowhere"
NoModel == "none"
NoCpu == [model |-> NoModel, plus |-> {}, has |-> {}]

-----------------------------------------------------------------------------
\* libvirt: compareCPU
Compare(features, h) == features \subseteq native[h]

\* Mutant: the first model stands for all.
CompatibleFirst(h) ==
  /\ mode[h] = "custom" <=> models[h] # <<>>
  /\ mode[h] = "custom" => Compare(Has[Head(models[h])], h)
  /\ \A f \in added[h] : Compare({f}, h)

\* _check_cpu_compatibility
Compatible(h) ==
  /\ mode[h] = "custom" <=> models[h] # <<>>
  /\ \A i \in DOMAIN models[h] : Compare(Has[models[h][i]], h)
  /\ \A f \in added[h] : Compare({f}, h)

\* _get_cpu_feature_traits: the flags' names, whatever their sign.
FeatureTraits(h) ==
  added[h] \union removed
  \union IF mode[h] = "host-model" THEN native[h] ELSE UNION {Has[models[h][i]] : i \in DOMAIN models[h]}

\* Mutant: the first model, whatever is required.
MatchFirst(h) == {models[h][1]}

\* _match_cpu_model_by_flags: the first, and none is an error.
MatchModel(h) ==
  LET matches == {i \in DOMAIN models[h] : required \subseteq Has[models[h][i]]}
  IN  {models[h][i] : i \in {j \in matches : \A k \in matches : j <= k}}

\* _get_guest_cpu_model_config, and what libvirt makes of it.
GuestCpu(h) ==
  IF mode[h] = "host-model" THEN {[model |-> NoModel, plus |-> added[h], has |-> (native[h] \union added[h]) \ removed]}
  ELSE {[model |-> m, plus |-> added[h], has |-> (Has[m] \union added[h]) \ removed] : m \in MatchModel(h)}

\* _compare_cpu: the guest's model and flags, or, without a model, the source.
Compared(c, h) == IF c.model = NoModel THEN native[h] ELSE (Has[c.model] \union c.plus) \ removed

-----------------------------------------------------------------------------
Init ==
  /\ native \in [Host -> HostKinds] /\ removed \in SUBSET Feature /\ required \in SUBSET Feature
  /\ mode \in [Host -> {"host-model", "custom"}] /\ models \in [Host -> ModelLists]
  /\ added = [h \in Host |-> {}] /\ \A h \in Host : Compatible(h)
  /\ traits = [h \in Host |-> FeatureTraits(h)]
  /\ host = Nowhere /\ cpu = NoCpu

\* The driver starts with this configuration, or not at all.
Configure(h) ==
  /\ UNCHANGED <<native, removed, traits, required, host, cpu>>
  /\ mode' \in {[mode EXCEPT ![h] = m] : m \in {"host-model", "custom"}}
  /\ models' \in {[models EXCEPT ![h] = l] : l \in ModelLists}
  /\ added' \in {[added EXCEPT ![h] = s] : s \in SUBSET (Feature \ removed)}
  /\ Compatible(h)'

\* update_provider_tree, from time to time.
Report(h) ==
  /\ traits[h] # FeatureTraits(h) /\ traits' = [traits EXCEPT ![h] = FeatureTraits(h)]
  /\ UNCHANGED <<native, config, removed, required, host, cpu>>

Define(h) == cpu' \in GuestCpu(h)

Start(h) ==
  /\ host = Nowhere /\ required \subseteq traits[h] /\ Define(h) /\ host' = h
  /\ UNCHANGED <<native, config, removed, traits, required>>

Stop ==
  /\ host # Nowhere /\ host' = Nowhere /\ cpu' = NoCpu
  /\ UNCHANGED <<native, config, removed, traits, required>>

HardReboot ==
  /\ host # Nowhere /\ Define(host)
  /\ UNCHANGED <<native, config, removed, traits, required, host>>

LiveMigrate(h) ==
  /\ host \notin {h, Nowhere} /\ required \subseteq traits[h]
  /\ Compare(Compared(cpu, host), h) /\ host' = h
  /\ UNCHANGED <<native, config, removed, traits, required, cpu>>

Next ==
  \/ \E h \in Host : Configure(h) \/ Report(h) \/ Start(h) \/ LiveMigrate(h)
  \/ Stop \/ HardReboot

Spec == Init /\ [][Next]_vars

-----------------------------------------------------------------------------
TypeOK ==
  /\ native \in [Host -> SUBSET Feature] /\ traits \in [Host -> SUBSET Feature] /\ added \in [Host -> SUBSET Feature]
  /\ host \in Host \union {Nowhere}
  /\ cpu.model \in Model \union {NoModel} /\ cpu.has \union cpu.plus \subseteq Feature

\* A guest has no feature that its host is without, after any migrations and
\* reboots on hosts that are configured anew (driver_22.04.py:961-1009,
\* 9692-9771).
RunsWhatHostHas == host # Nowhere => cpu.has \subseteq native[host]

\* A guest has what its flavor requires, whatever was reported when; but for
\* flags with a minus, which are reported as if they were there
\* (driver_22.04.py:5210-5309, 12130-12193).
PromiseKept == host # Nowhere => required \subseteq cpu.has \union removed
=============================================================================
