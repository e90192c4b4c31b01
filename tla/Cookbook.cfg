\* Every recipe, with three faults: a fault in a run, one in the run that makes
\* up for it, and one in the run after that.
SPECIFICATION Spec
CONSTANTS
  Fact <- CookbookFact
  Book <- CookbookRecipes
  Volatile <- CookbookVolatile
  RunState <- CookbookRunState
  MaxFaults = 3
INVARIANTS
  TypeOK StepsInOrder RunsComplete
