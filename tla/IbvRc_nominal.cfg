SPECIFICATION FairSpec
CONSTANTS
  Client = Client
  Server = Server
  ConSize = 2
  VerbErrs <- MinusOne
  Faults = {}
INVARIANTS SyncAligned ReceiverReady
PROPERTY BothSucceed
