\* Two publishers, a channel that holds several messages, a client that comes and goes
\* and may stop reading
SPECIFICATION FairSpec
CONSTANTS
  Conns = {c1}
  Restless = {c1}
  Publishers = {p1, p2}
  Cap = 2
  MaxUpdates = 3
INVARIANTS
  NoSendOnClosed
  OnlyOverflowLoses
PROPERTIES
  FeedSpec
  FanOutEnds
  NoWriterLeak
CHECK_DEADLOCK FALSE
