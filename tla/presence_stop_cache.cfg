\* Registry.Stop against a build in progress
SPECIFICATION Spec
CONSTANTS
  Gateway = gw
  Clients = {}
  Workers = {w1}
  Fetchers = {f1}
  Calls = {"chunk", "stop", "get"}
  RedisFails = FALSE
  MaxObj = 1
  MaxEvents = 2
  MaxKV = 0
  MaxReports = 0
INVARIANTS
  StopDropsCache
