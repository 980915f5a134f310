\* Delivery to a subscriber under fair scheduling
SPECIFICATION FairSpec
CONSTANTS
  Gateway = gw
  Clients = {c1}
  Workers = {w1}
  Fetchers = {}
  Calls = {"chunk", "update", "kv", "sub", "unsub"}
  RedisFails = FALSE
  MaxObj = 1
  MaxEvents = 2
  MaxKV = 1
  MaxReports = 0
PROPERTIES
  EventuallyDelivered
