SPECIFICATION LimitsSpec
CONSTANTS
  Workers = {w1, w2}
  MaxAttempts = 2
  Window = 2
  Second = 2
  Shared = Shared
  Offsets = {0, 3}
  MaxTime = 5
  MaxGuesses = 4
  Limits <- TierLimits
  Adders = {a1, a2, a3}
  Unlimited = Unlimited
  MaxVehicles = 4
  MaxPlans = 3
SYMMETRY Symmetry
INVARIANTS
  GuessesAreLimited
  WaitingHelps
  VehiclesKeepToTheLimit
PROPERTIES
  EndedPlansAddNothing
CHECK_DEADLOCK FALSE
