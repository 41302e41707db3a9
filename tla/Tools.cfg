SPECIFICATION ToolSpec
CONSTANTS
  MaxPackets = 13
  bufferSizeInSamples = 2
  OpenMax = 3
  Uint16 = 256
  Uint64 = 4096
  Targets = {0, 1, 3, 90}
  Incs = {0, 1, 2, 90}
  Columns = {20, 33, 80}
  MaxSends = 3
  Client = {k1, k2}
INVARIANTS WholeFile InTurns Detached LineFits
PROPERTIES Ends EndsClean DaemonRuns Answered
CHECK_DEADLOCK FALSE
