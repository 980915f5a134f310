\* Discord events, a KV writer and a socket connection, over a stop and a restart
SPECIFICATION Spec
CONSTANTS
  Gateway = gw
  Clients = {c1}
  Workers = {w1}
  Fetchers = {}
  Calls = {"chunk", "update", "stop", "kv", "sub", "subAll", "unsub", "close"}
  RedisFails = FALSE
  MaxObj = 2
  MaxEvents = 3
  MaxKV = 1
  MaxReports = 0
INVARIANTS
  FreshWhenQuiet
  GlobalCovers
  NoLeakedSubscriber
