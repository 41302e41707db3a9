SPECIFICATION FairSpec
CONSTANTS
  Client = Client
  Server = Server
  ConSize = 3
  VerbErrs <- EitherWay
  Faults <- FaultKinds
INVARIANTS Barrier QuiescentBuffer PollsOwnCompletion CqWithinCapacity
PROPERTIES ImplementsExchange Settles
