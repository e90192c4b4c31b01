----------------------------- MODULE TpmResize -----------------------------
(***************************************************************************)
(* The emulated TPM of a guest that is resized: its data, which libvirt    *)
(* keeps on the host, travels with the disks, and its secret, which the    *)
(* key manager keeps, must be there whenever a flavor that wants a TPM is  *)
(* used.  Between resizes the guest runs; what the manager does on a       *)
(* revert, libvirt and the key manager are external.  Instance directories *)
(* on shared file systems are left out.                                    *)
(***************************************************************************)
EXTENDS Naturals

CONSTANTS MaxClock \* bound: writes and new TPMs

TpmResizeAssumption == MaxClock \in Nat

VARIABLES
  disks,   \* "local", "rbd", or "same": the resize stays on its host
  old, tpm_config,  \* TPM of the former flavor and of the present one
  data,    \* libvirt's, on a host; 0 is none
  base,    \* swtpm in the instance directory of a host
  resize,  \* swtpm in the directory the source keeps for a revert
  secret,
  phase,   \* "up", "migrated", "resized", "reverting"; "error" when the copy or
           \* the start at the destination failed, "unreverted" when the revert did
  knows,   \* what the guest's TPM must hold
  saved,   \* and must hold again after a revert
  clock

vars == <<disks, old, tpm_config, data, base, resize, secret, phase, knows, saved, clock>>

Config == {"none", "1.2", "2.0"}
Host == {"source", "dest"}
Dest == IF disks = "same" THEN "source" ELSE "dest"
Nothing == [h \in Host |-> 0]

Init ==
  /\ disks \in {"local", "rbd", "same"} /\ tpm_config \in Config /\ old = tpm_config
  /\ secret = (tpm_config # "none") /\ knows = (IF secret THEN 1 ELSE 0) /\ saved = knows /\ clock = 1
  /\ data = [Nothing EXCEPT !["source"] = knows] /\ base = Nothing /\ resize = 0 /\ phase = "up"

\* libvirt makes a TPM that has no data on the host.
Launch(h, found) ==
  /\ data' = IF tpm_config # "none" /\ found[h] = 0 THEN [found EXCEPT ![h] = clock + 1] ELSE found
  /\ clock' = IF data' = found THEN clock ELSE clock + 1

\* _add_vtpm_device
AddVtpmDevice == tpm_config = "none" \/ secret

Write ==
  /\ phase \in {"up", "resized"} /\ tpm_config # "none" /\ clock < MaxClock
  /\ clock' = clock + 1 /\ knows' = clock'
  /\ data' = [data EXCEPT ![IF phase = "up" THEN "source" ELSE Dest] = clock']
  /\ UNCHANGED <<disks, old, tpm_config, base, resize, secret, phase, saved>>

\* The data is moved to the directory kept for a revert, and copied from there.
MigrateDisk(new) ==
  /\ phase = "up" /\ clock < MaxClock
  /\ old' = tpm_config /\ tpm_config' = new /\ saved' = knows
  /\ resize' = data["source"] /\ base' = [base EXCEPT ![Dest] = data["source"]]
  /\ data' = [data EXCEPT !["source"] = 0] /\ phase' = "migrated"
  /\ UNCHANGED <<disks, secret, knows, clock>>

\* _cleanup_remote_migration, after the copy has failed: the directory is
\* renamed, and the data in it is not handed back to libvirt.
MigrateFails ==
  /\ phase = "up" /\ base' = [base EXCEPT !["source"] = data["source"]]
  /\ data' = [data EXCEPT !["source"] = 0] /\ phase' = "error" /\ saved' = knows
  /\ UNCHANGED <<disks, old, tpm_config, resize, secret, knows, clock>>

\* _finish_migration_vtpm: data of another version is removed.
Restored ==
  IF old # "none" /\ old = tpm_config /\ base[Dest] # 0 THEN [data EXCEPT ![Dest] = base[Dest]] ELSE data

\* The secret is made by spawn, or when a resize asks for a first TPM.
FinishMigration ==
  /\ phase = "migrated"
  /\ secret' = (secret \/ (old = "none" /\ tpm_config # "none"))
  /\ base' = [base EXCEPT ![Dest] = 0]
  /\ IF tpm_config = "none" \/ secret'
     THEN /\ Launch(Dest, Restored) /\ phase' = "resized"
          /\ knows' = IF tpm_config = "none" THEN 0 ELSE IF old = tpm_config THEN knows ELSE clock + 1
     ELSE phase' = "error" /\ UNCHANGED <<data, clock, knows>>
  /\ UNCHANGED <<disks, old, tpm_config, resize, saved>>

\* Mutant: whatever the new flavor wants.
Dropped == old # "none"

\* _cleanup_resize_vtpm
NoLongerWanted == old # "none" /\ tpm_config = "none"

\* The destination is where the guest is from now on; the source undefines it.
Confirm ==
  /\ phase = "resized" /\ phase' = "up" /\ secret' = (secret /\ ~NoLongerWanted) /\ resize' = 0
  /\ data' = [Nothing EXCEPT !["source"] = data[Dest]] /\ base' = [Nothing EXCEPT !["source"] = base[Dest]]
  /\ old' = tpm_config /\ saved' = knows
  /\ UNCHANGED <<disks, tpm_config, knows, clock>>

\* _cleanup deletes the secret with the disks.
SecretLeft == secret /\ disks # "local"

\* The manager has the destination destroy the guest, with disks that are
\* not shared.
Revert ==
  /\ phase = "resized" /\ phase' = "reverting" /\ secret' = SecretLeft
  /\ data' = [data EXCEPT ![Dest] = 0] /\ base' = [base EXCEPT ![Dest] = IF disks = "local" THEN 0 ELSE @]
  /\ tpm_config' = old /\ old' = tpm_config
  /\ UNCHANGED <<disks, resize, knows, saved, clock>>

\* Mutant: the data stays in the directory.
NotRestored == data

\* _finish_revert_migration_vtpm
RevertRestores ==
  IF tpm_config # "none" /\ resize # 0 THEN [data EXCEPT !["source"] = resize] ELSE data

FinishRevert ==
  /\ phase = "reverting" /\ resize' = 0 /\ base' = [base EXCEPT !["source"] = 0]
  /\ secret' = (secret /\ tpm_config # "none")
  /\ IF AddVtpmDevice
     THEN Launch("source", RevertRestores) /\ phase' = "up" /\ knows' = saved /\ old' = tpm_config
     ELSE phase' = "unreverted" /\ data' = RevertRestores /\ UNCHANGED <<clock, knows, old>>
  /\ UNCHANGED <<disks, tpm_config, saved>>

Next ==
  \/ Write \/ FinishMigration \/ Confirm \/ Revert \/ FinishRevert
  \/ MigrateFails \/ \E new \in Config : MigrateDisk(new)

Spec == Init /\ [][Next]_vars

-----------------------------------------------------------------------------
TypeOK ==
  /\ tpm_config \in Config /\ old \in Config /\ secret \in BOOLEAN /\ clock \in 1 .. MaxClock + 1
  /\ phase \in {"up", "migrated", "resized", "reverting", "error", "unreverted"}
  /\ data \in [Host -> Nat] /\ base \in [Host -> Nat] /\ resize \in Nat /\ {knows, saved} \subseteq Nat

\* A guest that runs finds in its TPM what it wrote last under this flavor's
\* TPM, through resizes and reverts, and a new flavor's TPM is a new one; what
\* it is to find again is lost by no failure
\* (driver_22.04.py:11331-11371, 11494-11520).
TpmKept ==
  /\ phase = "up" => data["source"] = knows
  /\ phase = "resized" => data[Dest] = knows
  /\ phase \in {"error", "unreverted"} => saved \in {0, data["source"], base["source"]}

\* The secret is there as long as the flavor, or one that may come back, wants
\* a TPM, also after a resize that failed, and not after that
\* (driver_22.04.py:1784-1804, 11368-11371, 11516-11520).  Excepted is a revert
\* with local disks: the destination, which destroys its copy of them, deletes
\* the secret of the guest too (driver_22.04.py:1679-1680), and the revert, after
\* which the instance "should have" its TPM again (11510-11511), ends in an error.
SecretFollows ==
  /\ phase = "up" => (secret <=> tpm_config # "none")
  /\ phase \in {"migrated", "resized"} /\ old # "none" => secret
  /\ phase \in {"resized", "error"} /\ tpm_config # "none" => secret
  /\ phase \in {"reverting", "unreverted"} /\ tpm_config # "none" => secret \/ disks = "local"
=============================================================================
