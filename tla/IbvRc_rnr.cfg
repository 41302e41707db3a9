SPECIFICATION Spec
CONSTANTS
  Client = Client
  Server = Server
  ConSize = 2
  VerbErrs <- Errno
  Faults = {"post"}
INVARIANT ReceiverReady
