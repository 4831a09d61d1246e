CONSTANTS
  Thresholds = {1, 6}
  InitialThreshold = 6
  MaxStreak = 7
SPECIFICATION SteadySpec
INVARIANTS TypeOK 
PROPERTIES DownAtThreshold Window
