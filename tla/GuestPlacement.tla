--------------------------- MODULE GuestPlacement ---------------------------
(***************************************************************************)
(* What a live migration promises of one guest: its execution moves from   *)
(* the source to the destination at most once in a migration and never     *)
(* back, and Nova's record of its host follows: it never changes while the *)
(* guest runs on the source, and a migration that is over leaves the two   *)
(* in agreement.  A guest that stops on the way runs nowhere; its record   *)
(* may stay or change.  A migration that nobody watches any more is        *)
(* abandoned: it changes the record no more, and the guest may still move. *)
(***************************************************************************)
VARIABLES
  at,      \* the host that executes the guest, or "nowhere"
  record,  \* the host Nova has on record
  phase    \* of the migration

vars == <<at, record, phase>>

Init == at = "source" /\ record = "source" /\ phase = "idle"

Active == {"moving", "abandoned"}

\* A migration begins, or is tried again after one that nobody watches.
Begin ==
  /\ phase \in {"idle", "abandoned"} /\ at = "source" /\ record = "source"
  /\ phase' = "moving"
  /\ UNCHANGED <<at, record>>

\* The guest's execution moves; that does not wait for Nova.
Switch ==
  /\ phase \in Active /\ at = "source"
  /\ at' = "destination"
  /\ UNCHANGED <<record, phase>>

\* The guest shuts off before it has moved, or is lost while it moves.
Stop ==
  /\ phase \in Active /\ at # "nowhere" /\ record = "source"
  /\ at' = "nowhere"
  /\ UNCHANGED <<record, phase>>

Commit ==
  /\ phase = "moving" /\ at # "source"
  /\ record' = "destination"
  /\ UNCHANGED <<at, phase>>

\* The migration is over, for better or worse.
Settle ==
  /\ phase = "moving" /\ at \in {record, "nowhere"}
  /\ phase' = "idle"
  /\ UNCHANGED <<at, record>>

Abandon ==
  /\ phase = "moving"
  /\ phase' = "abandoned"
  /\ UNCHANGED <<at, record>>

Next == Begin \/ Switch \/ Stop \/ Commit \/ Settle \/ Abandon

Spec == Init /\ [][Next]_vars
=============================================================================
