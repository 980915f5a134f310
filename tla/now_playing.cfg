\* A player that reports its songs, rightly and wrongly, pauses, seeks and repeats,
\* beside Discord
SPECIFICATION Spec
CONSTANTS
  None = None
  Tracks = {a}
  Sources = {other}
  SpotifyTrack = sp
  Gap = 1
  Jitter = 1
  Stamps = {0, 3, 6}
  Length = 3
  TTL = 2
  MaxTime = 3
  MaxSongs = 2
  MaxUpdates = 1
  MaxActivities = 1
INVARIANTS
  SourceMatchesSong
  ReportSpansItsArrival
  SongCountedOnce
  EverySongCounted
CHECK_DEADLOCK FALSE
