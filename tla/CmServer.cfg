SPECIFICATION FairSpec
CONSTANTS
  Conn = {c1, c2}
  Device = {d1, d2}
  NoConn = noconn
  NoDevice = none
  MaxMsgs = 2
  Faults = {"leave", "abort", "burst", "verb", "event", "poll"}
INVARIANTS WakesUp CqOnlyLive ReceiveReady
PROPERTIES Reported Served Released KeepsPromise
CHECK_DEADLOCK FALSE
