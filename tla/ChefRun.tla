------------------------------ MODULE ChefRun ------------------------------
(***************************************************************************)
(* A host on which chef-client runs a recipe again and again: the engine   *)
(* the recipes of the cookbook run on.  Chef is external; this is what the *)
(* recipes rely on.                                                        *)
(*                                                                         *)
(* The state of the host is a set of facts; a recipe is a record of its    *)
(* resources, as RecipeData describes it.                                  *)
(*                                                                         *)
(* A resource notifies only when it was not up to date and succeeded.  The *)
(* first failure ends the recipe; the delayed notifications run in any     *)
(* case, each resource once, in an order nothing here depends on: any.     *)
(* The operator repeats the run whatever its outcome.                      *)
(***************************************************************************)
EXTENDS Naturals, Sequences

CONSTANTS
  Fact,
  Book,       \* the recipes, by name
  RunState,   \* facts in node.run_state: they last for one run
  Volatile,   \* facts a reboot makes false, such as files in /tmp
  MaxFaults   \* bound: number of faults in a behaviour

ASSUME ChefAssumption ==
  /\ RunState \union Volatile \subseteq Fact
  /\ \A r \in DOMAIN Book : Book[r].initial \subseteq Fact
  /\ MaxFaults \in Nat

VARIABLES
  recipe,  \* the recipe of the host
  world,   \* the facts that are true
  run,     \* the phase, or the outcome, of the run
  agenda,  \* the resources still to be executed in this phase
  delayed, \* the resources with a delayed notification
  faults   \* number of faults so far

vars == <<recipe, world, run, agenda, delayed, faults>>

Resource == Book[recipe].resource
Name == DOMAIN Resource

Over == {"never", "ok", "failed"}
Phase == {"converge", "finish", "abort"}

TypeOK ==
  /\ recipe \in DOMAIN Book
  /\ world \subseteq Fact
  /\ run \in Phase \union Over
  /\ agenda \in Seq(Name) /\ delayed \subseteq Name
  /\ faults \in 0 .. MaxFaults

Init ==
  /\ recipe \in DOMAIN Book
  /\ world = Book[recipe].initial
  /\ run = "never"
  /\ agenda = <<>> /\ delayed = {}
  /\ faults = 0

Start ==
  /\ run \in Over
  /\ world' = world \ RunState
  /\ run' = "converge"
  /\ agenda' = Book[recipe].list
  /\ delayed' = {}
  /\ UNCHANGED <<recipe, faults>>

Skipped(r) ==
  ~(Resource[r].only \subseteq world) \/ \E u \in Resource[r].unless : u \subseteq world

\* A failing resource ends the recipe; in the delayed phase only itself.
Fails ==
  /\ run' = "abort"
  /\ agenda' = IF run = "converge" THEN <<>> ELSE Tail(agenda)

\* The command of a resource succeeds and made these facts true.
Succeeds(def, facts) ==
  /\ def.needs \subseteq world
  /\ world' = (world \ def.dels) \union facts
  /\ agenda' = def.now \o Tail(agenda)
  /\ delayed' = delayed \union def.later
  /\ UNCHANGED run

Execute ==
  /\ run \in Phase /\ agenda # <<>>
  /\ LET r == Head(agenda)
         def == Resource[r]
     IN  IF Skipped(r)
         THEN agenda' = Tail(agenda) /\ UNCHANGED <<world, run, delayed>>
         ELSE \/ Succeeds(def, def.adds)
              \/ ~(def.needs \subseteq world) /\ Fails /\ UNCHANGED <<world, delayed>>
  /\ UNCHANGED <<recipe, faults>>

\* Nothing is left to execute: a delayed action is next, if there is one.
Finish ==
  /\ run \in Phase /\ agenda = <<>>
  /\ IF delayed # {}
     THEN /\ \E r \in delayed : agenda' = <<r>> /\ delayed' = delayed \ {r}
          /\ run' = IF run = "converge" THEN "finish" ELSE run
     ELSE /\ run' = IF run = "abort" THEN "failed" ELSE "ok"
          /\ UNCHANGED <<agenda, delayed>>
  /\ UNCHANGED <<recipe, world, faults>>

Fault == faults < MaxFaults /\ faults' = faults + 1

\* The command of a resource fails, without effect or, if it had what it
\* needs, half way.
CommandFails ==
  /\ Fault
  /\ run \in Phase /\ agenda # <<>> /\ ~Skipped(Head(agenda))
  /\ \/ UNCHANGED world
     \/ /\ Resource[Head(agenda)].needs \subseteq world
        /\ \E half \in Resource[Head(agenda)].halves : world' = world \union half
  /\ Fails
  /\ UNCHANGED <<recipe, delayed>>

\* A command inside a script fails, and the script does not notice.
CommandSlips ==
  /\ Fault
  /\ run \in Phase /\ agenda # <<>> /\ ~Skipped(Head(agenda))
  /\ LET def == Resource[Head(agenda)]
     IN  \E slip \in def.slips : Succeeds(def, slip)
  /\ UNCHANGED recipe

\* chef-client is killed: nothing is left of the run but its effects.
Killed ==
  /\ Fault
  /\ run \in Phase
  /\ run' = "failed"
  /\ agenda' = <<>> /\ delayed' = {}
  /\ UNCHANGED <<recipe, world>>

Reboot ==
  /\ Fault
  /\ run' = IF run \in Over THEN run ELSE "failed"
  /\ world' = world \ Volatile
  /\ agenda' = <<>> /\ delayed' = {}
  /\ UNCHANGED recipe

Next == Start \/ Execute \/ Finish \/ CommandFails \/ CommandSlips \/ Killed \/ Reboot

Spec == Init /\ [][Next]_vars
FairSpec == Spec /\ WF_vars(Start) /\ WF_vars(Execute) /\ WF_vars(Finish)
=============================================================================
