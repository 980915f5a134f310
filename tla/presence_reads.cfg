\* Two concurrent requests that read, set and clear the external report
SPECIFICATION Spec
CONSTANTS
  Gateway = gw
  Clients = {}
  Workers = {w1, w2}
  Fetchers = {f1}
  Calls = {"chunk", "get", "set", "clear"}
  RedisFails = FALSE
  MaxObj = 1
  MaxEvents = 2
  MaxKV = 0
  MaxReports = 1
SYMMETRY Symmetry
INVARIANTS
  TypeOK
  ExpiryNoticed
  FetchOncePerObject
