SPECIFICATION FairSpec
CONSTANTS
  Client = Client
  Server = Server
  ConSize = 2
  VerbErrs <- MinusOne
  Faults = {"short_read"}
PROPERTY ClientGetsMessage
