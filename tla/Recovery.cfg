SPECIFICATION Spec
CONSTANTS
  h1 = h1
  h2 = h2
  h3 = h3
  c1 = c1
  c2 = c2
  Handlers = {h1, h2}
  Instances = {h1, h2}
  NoOne = NoOne
  InstanceOf <- OwnIdentity
  RoleOf <- OneService
  Files = {f1}
  Callers = {c1}
  MaxAttempts = 3
  OutboxMaxAttempts = 1
  FailureKinds = {}
  BrokerDeadLetters = FALSE
SYMMETRY TwoDeliveries
CHECK_DEADLOCK FALSE
INVARIANTS
  NothingStranded
PROPERTIES
  NoWayBack
  FencedCompletion
