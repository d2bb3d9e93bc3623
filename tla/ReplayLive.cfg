SPECIFICATION Spec
CONSTANTS
  Plans <- RefusedPlans
  Effects <- MCEffects
  MaxCalls = 2
INVARIANTS
  LiveOnlyWhenAsked
CHECK_DEADLOCK FALSE
