SPECIFICATION Spec
CONSTANTS
  Plans <- MCPlans
  Effects <- MCEffects
  MaxCalls = 3
INVARIANTS
  EachEventAnswersOnce
  NothingIsForgotten
  InventionsAnnounced
  GreenMeansConformant
CHECK_DEADLOCK FALSE
