\* Two recorders on two nodes, a purge and a crash
SPECIFICATION Spec
CONSTANTS
  Nodes = {n1, n2}
  Workers = {w1, w2}
  Tracks = {a, b}
  Statuses = {on, off}
  None = None
  Strays = {9}
  HistoryCap = 1
  Gap = 1
  MaxSongs = 2
  MaxSyncs = 3
SYMMETRY Symmetry
INVARIANTS
  ListsBounded
  NoPlayMissed
  NoPlayInflated
  StatisticsAgree
  NewestStatusIsCurrent
PROPERTIES
  PurgeErases
CHECK_DEADLOCK FALSE
