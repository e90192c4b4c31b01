------------------------------ MODULE VgpuTypes ------------------------------
(***************************************************************************)
(* Which vGPU type and resource class the driver uses for a GPU: it reads  *)
(* the types that are enabled one by one, and falls back to the first when *)
(* it finds one without addresses.  The options are external.              *)
(***************************************************************************)
EXTENDS Naturals, Sequences

CONSTANTS Gpu, MdevType, Class

VARIABLES
  enabled,    \* [devices] enabled_mdev_types
  addresses,  \* device_addresses of a type
  classOf,    \* mdev_class of a type
  next,       \* type that is read next
  pgpuType, mdevClass, \* pgpu_type_mapping and mdev_class_mapping
  classes,    \* mdev_classes
  supported   \* supported_vgpu_types

vars == <<enabled, addresses, classOf, next, pgpuType, mdevClass, classes, supported>>
options == <<enabled, addresses, classOf>>

NoType == "none"
Vgpu == "VGPU"
Unmapped == [p \in Gpu |-> NoType]
Failed == Len(enabled) + 2

Init ==
  /\ enabled \in {s \in UNION {[1 .. n -> MdevType] : n \in 0 .. 2} : \A i, j \in DOMAIN s : i # j => s[i] # s[j]}
  /\ addresses \in [MdevType -> SUBSET Gpu] /\ classOf \in [MdevType -> Class]
  /\ next = 1 /\ pgpuType = Unmapped /\ mdevClass = [p \in Gpu |-> Vgpu] /\ classes = {} /\ supported = <<>>

\* Mutant: the mappings of types read before are kept.
Kept == <<pgpuType, mdevClass, {Vgpu}>>

OnlyFirst == <<Unmapped, [p \in Gpu |-> Vgpu], {Vgpu}>>

\* The type read next, with or without addresses; one that is mapped already
\* is an error.
ReadType ==
  /\ next \in DOMAIN enabled
  /\ LET t == enabled[next]
     IN  IF addresses[t] = {}
         THEN /\ pgpuType' = OnlyFirst[1] /\ mdevClass' = OnlyFirst[2] /\ classes' = OnlyFirst[3]
              /\ supported' = <<enabled[1]>> /\ next' = Len(enabled) + 1
         ELSE IF \E p \in addresses[t] : pgpuType[p] # NoType
         THEN next' = Failed /\ UNCHANGED <<pgpuType, mdevClass, classes, supported>>
         ELSE /\ pgpuType' = [p \in Gpu |-> IF p \in addresses[t] THEN t ELSE pgpuType[p]]
              /\ mdevClass' = [p \in Gpu |-> IF p \in addresses[t] THEN classOf[t] ELSE mdevClass[p]]
              /\ classes' = classes \union {classOf[t]} /\ next' = next + 1
              /\ supported' = IF next = Len(enabled) THEN enabled ELSE supported
  /\ UNCHANGED options

Next == ReadType
Spec == Init /\ [][Next]_vars

\* _get_vgpu_type_per_pgpu
TypeOf(p) == IF Len(supported) = 1 THEN supported[1] ELSE IF supported = <<>> THEN NoType ELSE pgpuType[p]

-----------------------------------------------------------------------------
TypeOK ==
  /\ next \in 1 .. Failed /\ pgpuType \in [Gpu -> MdevType \union {NoType}]
  /\ mdevClass \in [Gpu -> Class] /\ classes \subseteq Class /\ Len(supported) <= Len(enabled)

\* The driver knows the resource class of every GPU that has a type as one of
\* those it hands devices out for, or guests scheduled to the GPU start without
\* a device; but for the GPUs that the only type, with addresses of its own,
\* does not list (driver_22.04.py:7658-7777).
ClassesKnown ==
  next = Len(enabled) + 1 =>
    \A p \in Gpu : TypeOf(p) # NoType =>
      \/ mdevClass[p] \in classes
      \/ Len(enabled) = 1 /\ addresses[enabled[1]] # {} /\ p \notin addresses[enabled[1]]
=============================================================================
