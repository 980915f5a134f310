\* Two nodes that write, start, stop, lose their subscription and crash
SPECIFICATION FairSpec
CONSTANTS
  Nodes = {n1, n2}
  Workers = {w1}
  MaxWrites = 2
  MaxFaults = 2
INVARIANTS
  ShowsWhatIsStored
  NoEcho
PROPERTIES
  Converges
CHECK_DEADLOCK FALSE
