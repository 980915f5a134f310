\* Two writers over stops, restarts and crashes
SPECIFICATION Spec
CONSTANTS
  Workers = {w1, w2}
  Keys = {k1, k2}
  Limit = 1
  Calls = {"set", "multi", "del", "clear"}
  MaxObj = 2
  MaxOps = 3
INVARIANTS
  TypeOK
  ShownIsStored
  ShownSurvives
PROPERTIES
  SetWithinLimit
