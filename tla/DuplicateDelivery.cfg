SPECIFICATION Spec
CONSTANTS
  h1 = h1
  h2 = h2
  h3 = h3
  c1 = c1
  c2 = c2
  Handlers = {h1, h3}
  Instances = {h1, h3}
  NoOne = NoOne
  InstanceOf <- OwnIdentity
  RoleOf <- ServicePerTopic
  Files = {f1}
  Callers = {c1}
  MaxAttempts = 2
  OutboxMaxAttempts = 1
  FailureKinds = {"final", "retryable"}
  BrokerDeadLetters = FALSE
CHECK_DEADLOCK FALSE
PROPERTIES
  DuplicateDeliveryIsHarmless
