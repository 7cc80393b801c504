SPECIFICATION Spec
CONSTANTS
  h1 = h1
  h2 = h2
  h3 = h3
  c1 = c1
  c2 = c2
  Handlers = {h1, h2, h3}
  Instances = {"inspect", "convert"}
  NoOne = NoOne
  InstanceOf <- RevisionIdentity
  RoleOf <- ServicePerTopic
  Files = {f1}
  Callers = {c1}
  MaxAttempts = 2
  OutboxMaxAttempts = 2
  FailureKinds = {"retryable", "pauses"}
  BrokerDeadLetters = TRUE
SYMMETRY TwoDeliveries
CHECK_DEADLOCK FALSE
INVARIANTS
  TypeOK
  TablesMatchFile
  WorkIsBounded
PROPERTIES
  ImplementsFileLife
