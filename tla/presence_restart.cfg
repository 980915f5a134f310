\* Reads, banner fetches and KV writes over a stop and a restart, with Redis failing
SPECIFICATION Spec
CONSTANTS
  Gateway = gw
  Clients = {}
  Workers = {w1}
  Fetchers = {f1, f2}
  Calls = {"chunk", "update", "stop", "get", "kv", "banner"}
  RedisFails = TRUE
  MaxObj = 2
  MaxEvents = 3
  MaxKV = 1
  MaxReports = 0
SYMMETRY Symmetry
INVARIANTS
  FreshWhenQuiet
