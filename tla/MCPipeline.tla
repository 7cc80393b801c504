----------------------------- MODULE MCPipeline -----------------------------
(***************************************************************************)
(* Instances of Pipeline for TLC.                                          *)
(***************************************************************************)
EXTENDS Pipeline, TLC

CONSTANTS h1, h2, h3,   \* deliveries
          c1, c2        \* API calls

\* Every delivery in a process with an identity of its own.
OwnIdentity == [ h \in Handlers |-> h ]

\* What config._build makes of Cloud Run's environment: role:revision, the same
\* for every instance of a service.
RevisionIdentity == [ h \in Handlers |-> RoleOf[h] ]

\* One service per topic, the inspect service with two instances.
ServicePerTopic ==
  [ h \in Handlers |-> IF h = h3 THEN "convert" ELSE "inspect" ]

\* A service that serves both topics.
OneService == [ h \in Handlers |-> "both" ]

TwoDeliveries == Permutations({h1, h2})

=============================================================================
