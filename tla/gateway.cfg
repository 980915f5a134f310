\* Sessions, resumes and heartbeats over lost connections
SPECIFICATION FairSpec
CONSTANTS
  Users = {u1}
  MaxGuild = 2
  MaxLosses = 2
INVARIANTS
  TypeOK
  MembersMonitored
  OneBeatInFlight
PROPERTIES
  StreamSpec
  CatchesUp
  SilenceNoticed
