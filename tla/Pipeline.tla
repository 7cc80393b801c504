------------------------------ MODULE Pipeline ------------------------------
(***************************************************************************)
(* One request on its way from the upload to the converted files: the      *)
(* files table, the transactional outbox and the broker between them, the  *)
(* worker's deliveries (pipeline.handle), the scheduled sweep, and the two *)
(* API calls that put work in the queue (confirmUploads and convert).      *)
(*                                                                         *)
(* A step is a transaction, or a statement outside one.  Where a handler   *)
(* reads, waits and then writes, the reading and the writing are separate  *)
(* steps and anybody may run in between.                                   *)
(***************************************************************************)
EXTENDS Leases, Sequences, FiniteSets

CONSTANTS Files,               \* the files of the request
          Handlers,            \* deliveries the workers can have in progress
          InstanceOf,          \* [Handlers -> Instances]: Config.instance_id
          RoleOf,              \* [Handlers -> ServiceRole]: Config.role
          Callers,             \* API calls that can be in progress at once
          OutboxMaxAttempts,   \* Config.outbox_max_attempts
          FailureKinds,        \* how an attempt may fail: see AttemptIs...
          BrokerDeadLetters    \* may the broker give up on a message whose
                               \* deliveries never got an answer?

ASSUME PipelineAssumption ==
  /\ InstanceOf \in [Handlers -> Instances]
  /\ RoleOf \in [Handlers -> Roles \cup {"both"}]
  /\ OutboxMaxAttempts \in Nat \ {0}
  /\ FailureKinds \subseteq { "final", "retryable", "pauses" }
  /\ BrokerDeadLetters \in BOOLEAN

Topics == { "file-uploaded", "convert-requested" }

RoleForTopic(topic) == IF topic = "file-uploaded" THEN "inspect" ELSE "convert"

\* topic_for_stage: where a row that goes back to the queue is announced.
TopicForStage(stage) ==
  IF stage \in { "UPLOADED", "INSPECTING" } THEN "file-uploaded"
                                            ELSE "convert-requested"

\* A row of request_outbox.  attempts is kept while the row is PENDING: nothing
\* reads it afterwards.
OutboxRow == [ status : { "PENDING", "PUBLISHED", "DEAD" },
               attempts : 0..(OutboxMaxAttempts - 1) ]

NewOutboxRow == [ status |-> "PENDING", attempts |-> 0 ]
Settled(status) == [ status |-> status, attempts |-> 0 ]

-----------------------------------------------------------------------------
VARIABLES
  file,       \* file[f]: the row of the files table and its tables
  converted,  \* requests.converted_at IS NOT NULL
  outbox,     \* outbox[f][t]: the rows enqueued for file f on topic t
  inflight,   \* inflight[f][t]: the rows whose message the broker still holds
  handler,    \* handler[h]: a delivery in progress
  call        \* call[c]: an API call in progress

vars == << file, converted, outbox, inflight, handler, call >>

Idle == [ phase |-> "idle" ]

\* A delivery of row id of outbox[file][topic].  attempts is the value the
\* claim returned: _record_failure decides with it, not with a fresh read.
\* beats says whether the heartbeat thread still runs.
Delivery == [ phase : { "received", "working" }, file : Files, topic : Topics,
              id : Nat \ {0}, role : Roles, attempts : 0..MaxAttempts,
              beats : BOOLEAN ]

\* confirmUploads: the transaction has read UPLOADING and is waiting for stat.
ConfirmCall == [ phase : { "statting" }, file : Files ]

\* convert: past the gate; then holding the rows startConverting moved, which
\* nobody else sees or may update until the commit.
ConvertCall == [ phase : { "gated", "moving" }, moved : SUBSET Files ]

\* Either call once it has committed: rows to publish inline, then to mark.
PublishCall == [ phase : { "publishing", "marking" }, topic : Topics,
                 rows : [ Files -> Nat ] ]

Init ==
  /\ file = [ f \in Files |-> NewFileRow ]
  /\ converted = FALSE
  /\ outbox = [ f \in Files |-> [ t \in Topics |-> << >> ] ]
  /\ inflight = [ f \in Files |-> [ t \in Topics |-> {} ] ]
  /\ handler = [ h \in Handlers |-> Idle ]
  /\ call = [ c \in Callers |-> Idle ]

-----------------------------------------------------------------------------
\* enqueue: a PENDING row in the same transaction as the change it announces.
Enqueue(f, t) == outbox' = [ outbox EXCEPT ![f][t] = Append(@, NewOutboxRow) ]

\* startConverting holds its row locks until convert commits.
RowLocked(f) ==
  \E c \in Callers : call[c].phase = "moving" /\ f \in call[c].moved

\* Something in the queue will still reach a worker for f on topic t.
Queued(f, t) ==
  \E i \in DOMAIN outbox[f][t] :
    outbox[f][t][i].status = "PENDING" \/ i \in inflight[f][t]

-----------------------------------------------------------------------------
(* The API: confirmUploads and convert.                                    *)

\* The transaction reads the row without locking it; only a row still at
\* UPLOADING goes on to stat the object.
ConfirmRead(c, f) ==
  /\ call[c] = Idle
  /\ file[f].stage = "UPLOADING"
  /\ call' = [ call EXCEPT ![c] = [ phase |-> "statting", file |-> f ] ]
  /\ UNCHANGED << file, converted, outbox, inflight, handler >>

\* stat found a usable object.  markUploaded is guarded by the stage; the
\* enqueue is not.
ConfirmArrived(c) ==
  /\ call[c].phase = "statting"
  /\ LET f == call[c].file IN
     /\ file' = [ file EXCEPT ![f].stage =
                    IF @ = "UPLOADING" THEN "UPLOADED" ELSE @ ]
     /\ Enqueue(f, "file-uploaded")
     /\ call' = [ call EXCEPT ![c] =
          [ phase |-> "publishing", topic |-> "file-uploaded",
            rows |-> [ g \in Files |->
              IF g = f THEN Len(outbox[f]["file-uploaded"]) + 1 ELSE 0 ] ] ]
  /\ UNCHANGED << converted, inflight, handler >>

\* stat found nothing, an empty object or one that is too large: failFile,
\* which is guarded by nothing and leaves the lease columns alone.
ConfirmMissing(c) ==
  /\ call[c].phase = "statting"
  /\ ~RowLocked(call[c].file)
  /\ file' = [ file EXCEPT ![call[c].file].stage = "FAILED" ]
  /\ call' = [ call EXCEPT ![c] = Idle ]
  /\ UNCHANGED << converted, outbox, inflight, handler >>

\* The gate, read through the pool: not converted yet and nothing arriving.
ConvertGate(c) ==
  /\ call[c] = Idle
  /\ Files # {}
  /\ ~converted
  /\ \A f \in Files : file[f].stage # "UPLOADING"
  /\ call' = [ call EXCEPT ![c] = [ phase |-> "gated", moved |-> {} ] ]
  /\ UNCHANGED << file, converted, outbox, inflight, handler >>

\* startConverting takes the rows that are SCHEMA_READY now; a row another
\* press has moved makes it wait until that press commits or rolls back.
ConvertMove(c) ==
  /\ call[c].phase = "gated"
  /\ LET ready == { f \in Files : file[f].stage = "SCHEMA_READY" } IN
     /\ \A f \in ready : ~RowLocked(f)
     /\ call' = [ call EXCEPT ![c] = [ phase |-> "moving", moved |-> ready ] ]
  /\ UNCHANGED << file, converted, outbox, inflight, handler >>

\* The commit: the moved rows, converted_at and one outbox row per file.
ConvertCommit(c) ==
  /\ call[c].phase = "moving"
  /\ LET moved == call[c].moved
         t     == "convert-requested" IN
     /\ file' = [ f \in Files |-> IF f \in moved
                    THEN [ file[f] EXCEPT !.stage = "CONVERTING" ]
                    ELSE file[f] ]
     /\ outbox' = [ f \in Files |-> IF f \in moved
                      THEN [ outbox[f] EXCEPT ![t] = Append(@, NewOutboxRow) ]
                      ELSE outbox[f] ]
     /\ call' = [ call EXCEPT ![c] =
          [ phase |-> "publishing", topic |-> t,
            rows |-> [ f \in Files |->
              IF f \in moved THEN Len(outbox[f][t]) + 1 ELSE 0 ] ] ]
  /\ converted' = TRUE
  /\ UNCHANGED << inflight, handler >>

\* publishAll: each row is delivered or its failure swallowed.
PublishInline(c) ==
  /\ call[c].phase = "publishing"
  /\ \E sent \in SUBSET { f \in Files : call[c].rows[f] # 0 } :
       /\ inflight' = [ f \in Files |-> IF f \in sent
            THEN [ inflight[f] EXCEPT ![call[c].topic] =
                     @ \cup { call[c].rows[f] } ]
            ELSE inflight[f] ]
       /\ call' = [ call EXCEPT ![c] =
            [ phase |-> "marking", topic |-> call[c].topic,
              rows |-> [ f \in Files |->
                IF f \in sent THEN call[c].rows[f] ELSE 0 ] ] ]
  /\ UNCHANGED << file, converted, outbox, handler >>

\* markOutboxPublished: by id, whatever the relay has done to the row since.
MarkInline(c) ==
  /\ call[c].phase = "marking"
  /\ outbox' = [ f \in Files |-> IF call[c].rows[f] # 0
       THEN [ outbox[f] EXCEPT ![call[c].topic][call[c].rows[f]] =
                Settled("PUBLISHED") ]
       ELSE outbox[f] ]
  /\ call' = [ call EXCEPT ![c] = Idle ]
  /\ UNCHANGED << file, converted, inflight, handler >>

\* The server process goes away: an open transaction rolls back, a committed
\* one keeps its rows and loses its inline publish or its mark.
CallDies(c) ==
  /\ call[c] # Idle
  /\ call' = [ call EXCEPT ![c] = Idle ]
  /\ UNCHANGED << file, converted, outbox, inflight, handler >>

-----------------------------------------------------------------------------
(* The relay: claim_pending and publish, one row at a time.  The rows of a *)
(* batch are disjoint from those of any other relay (SKIP LOCKED).         *)

\* Publish succeeded and the relay's transaction committed.
RelayPublishes(f, t, i) ==
  /\ outbox[f][t][i].status = "PENDING"
  /\ outbox' = [ outbox EXCEPT ![f][t][i] = Settled("PUBLISHED") ]
  /\ inflight' = [ inflight EXCEPT ![f][t] = @ \cup {i} ]
  /\ UNCHANGED << file, converted, handler, call >>

\* Publish succeeded and the transaction did not commit, or the broker
\* delivers a message it has already delivered: nothing in the table says so.
RelayPublishesUnrecorded(f, t, i) ==
  /\ outbox[f][t][i].status = "PENDING"
  /\ inflight' = [ inflight EXCEPT ![f][t] = @ \cup {i} ]
  /\ UNCHANGED << file, converted, outbox, handler, call >>

\* Publish raised and attempts are left: claim_pending has counted this one.
RelayRetriesLater(f, t, i) ==
  /\ outbox[f][t][i].status = "PENDING"
  /\ outbox[f][t][i].attempts + 1 < OutboxMaxAttempts
  /\ outbox' = [ outbox EXCEPT ![f][t][i].attempts = @ + 1 ]
  /\ UNCHANGED << file, converted, inflight, handler, call >>

\* Publish raised for the last time: mark_dead, and the file fails with it
\* unless it has failed already, whatever stage it has reached.
RelayGivesUp(f, t, i) ==
  /\ outbox[f][t][i].status = "PENDING"
  /\ outbox[f][t][i].attempts + 1 >= OutboxMaxAttempts
  /\ ~RowLocked(f)
  /\ outbox' = [ outbox EXCEPT ![f][t][i] = Settled("DEAD") ]
  /\ file' = [ file EXCEPT ![f] =
       IF @.stage = "FAILED" THEN @ ELSE Fail(@) ]
  /\ UNCHANGED << converted, inflight, handler, call >>

-----------------------------------------------------------------------------
(* The broker and the deliveries (main.push, pipeline.handle).             *)

\* An acknowledgement reaches the broker, or is lost and the message comes
\* again.
Acked(f, t, i) ==
  \/ inflight' = [ inflight EXCEPT ![f][t] = @ \ {i} ]
  \/ UNCHANGED inflight

\* _resolve_role: a service with a role of its own takes it; one that serves
\* both topics reads the row, in a connection of its own, and lets it decide.
ResolvedRoles(h, f) ==
  IF RoleOf[h] = "both" THEN { r \in Roles : file[f].stage \in Claimable(r) }
                        ELSE { RoleOf[h] }

\* A push of row i to a service subscribed to topic t.
Receive(h, f, t, i) ==
  /\ handler[h] = Idle
  /\ RoleOf[h] \in { RoleForTopic(t), "both" }
  /\ \E r \in ResolvedRoles(h, f) :
       handler' = [ handler EXCEPT ![h] =
         [ phase |-> "received", file |-> f, topic |-> t, id |-> i,
           role |-> r, attempts |-> 0, beats |-> FALSE ] ]
  /\ UNCHANGED << file, converted, outbox, inflight, call >>

\* _resolve_role found no role for the stage: nothing to do, acknowledged.
ReceiveNothingToDo(h, f, t, i) ==
  /\ handler[h] = Idle
  /\ ResolvedRoles(h, f) = {}
  /\ Acked(f, t, i)
  /\ UNCHANGED << file, converted, outbox, handler, call >>

\* The claim committed: this delivery owns the file.
ClaimFile(h) ==
  /\ handler[h].phase = "received"
  /\ LET d == handler[h]
         row == file[d.file] IN
     /\ ClaimOutcome(row, d.role) = "CLAIMED"
     /\ file' = [ file EXCEPT ![d.file] = Claim(@, d.role, InstanceOf[h]) ]
     /\ handler' = [ handler EXCEPT ![h] =
          [ d EXCEPT !.phase = "working", !.attempts = row.attempts + 1,
                     !.beats = TRUE ] ]
  /\ UNCHANGED << converted, outbox, inflight, call >>

\* TERMINAL, ALREADY_DONE: acknowledged, nothing written.
ClaimRefused(h) ==
  /\ handler[h].phase = "received"
  /\ LET d == handler[h] IN
     /\ ClaimOutcome(file[d.file], d.role) \in { "TERMINAL", "ALREADY_DONE" }
     /\ Acked(d.file, d.topic, d.id)
  /\ handler' = [ handler EXCEPT ![h] = Idle ]
  /\ UNCHANGED << file, converted, outbox, call >>

\* EXHAUSTED: _fail_exhausted in the transaction of the claim, acknowledged.
ClaimExhausted(h) ==
  /\ handler[h].phase = "received"
  /\ LET d == handler[h] IN
     /\ ~RowLocked(d.file)
     /\ ClaimOutcome(file[d.file], d.role) = "EXHAUSTED"
     /\ file' = [ file EXCEPT ![d.file] = FailTables(Fail(@)) ]
     /\ Acked(d.file, d.topic, d.id)
  /\ handler' = [ handler EXCEPT ![h] = Idle ]
  /\ UNCHANGED << converted, outbox, call >>

\* LEASE_HELD: the only answer that is a nack.  The broker delivers the message
\* again or, after max_delivery_attempts, dead-letters it.
ClaimNacked(h) ==
  /\ handler[h].phase = "received"
  /\ LET d == handler[h] IN
     /\ ClaimOutcome(file[d.file], d.role) = "LEASE_HELD"
     /\ Acked(d.file, d.topic, d.id)
  /\ handler' = [ handler EXCEPT ![h] = Idle ]
  /\ UNCHANGED << file, converted, outbox, call >>

-----------------------------------------------------------------------------
(* The work itself: _process and _record_failure.                          *)

\* _convert_if_already_requested: a shape that lands after Convert was pressed
\* goes straight on, with its own outbox row.
Chained(row) == converted /\ row.stage = "SCHEMA_READY"

\* One transaction: schemas and table rows, complete, the chained conversion.
\* It runs whether or not this delivery still holds the lease.
InspectSucceeds(h) ==
  /\ handler[h].phase = "working"
  /\ handler[h].role = "inspect"
  /\ LET d   == handler[h]
         row == Complete(SeedTables(file[d.file]), InstanceOf[h], "SCHEMA_READY")
     IN
     /\ ~RowLocked(d.file)
     /\ IF Chained(row)
          THEN /\ file' = [ file EXCEPT ![d.file] =
                              [ row EXCEPT !.stage = "CONVERTING" ] ]
               /\ Enqueue(d.file, "convert-requested")
          ELSE /\ file' = [ file EXCEPT ![d.file] = row ]
               /\ UNCHANGED outbox
     /\ Acked(d.file, d.topic, d.id)
  /\ handler' = [ handler EXCEPT ![h] = Idle ]
  /\ UNCHANGED << converted, call >>

\* One transaction: every table DONE, then complete.
ConvertSucceeds(h) ==
  /\ handler[h].phase = "working"
  /\ handler[h].role = "convert"
  /\ LET d == handler[h] IN
     /\ file' = [ file EXCEPT ![d.file] =
          Complete(FinishTables(@), InstanceOf[h], "COMPLETED") ]
     /\ Acked(d.file, d.topic, d.id)
  /\ handler' = [ handler EXCEPT ![h] = Idle ]
  /\ UNCHANGED << converted, outbox, call >>

\* A retryable class with attempts left, by the count the claim returned:
\* release, and a new outbox row whether or not the release found the lease.
AttemptIsRetried(h) ==
  /\ "retryable" \in FailureKinds
  /\ handler[h].phase = "working"
  /\ handler[h].attempts < MaxAttempts
  /\ LET d    == handler[h]
         back == BackTo(d.role) IN
     /\ MayRelease(file[d.file], InstanceOf[h])
     /\ file' = [ file EXCEPT ![d.file] = Release(@, InstanceOf[h], back) ]
     /\ Enqueue(d.file, TopicForStage(back))
     /\ Acked(d.file, d.topic, d.id)
  /\ handler' = [ handler EXCEPT ![h] = Idle ]
  /\ UNCHANGED << converted, call >>

\* A class that is not retried (only the inspect processor raises one), or a
\* retryable one on the last attempt: leases.fail and mark_tables_failed.
AttemptIsFinal(h) ==
  /\ handler[h].phase = "working"
  /\ \/ "final" \in FailureKinds /\ handler[h].role = "inspect"
     \/ "retryable" \in FailureKinds /\ handler[h].attempts >= MaxAttempts
  /\ LET d == handler[h] IN
     /\ ~RowLocked(d.file)
     /\ file' = [ file EXCEPT ![d.file] = FailTables(Fail(@)) ]
     /\ Acked(d.file, d.topic, d.id)
  /\ handler' = [ handler EXCEPT ![h] = Idle ]
  /\ UNCHANGED << converted, outbox, call >>

\* A class that pauses the request: the file is released and nothing is
\* enqueued; the sweep's _resume_paused touches the request row only.
AttemptPauses(h) ==
  /\ "pauses" \in FailureKinds
  /\ handler[h].phase = "working"
  /\ LET d == handler[h] IN
     /\ MayRelease(file[d.file], InstanceOf[h])
     /\ file' = [ file EXCEPT ![d.file] =
          Release(@, InstanceOf[h], BackTo(d.role)) ]
     /\ Acked(d.file, d.topic, d.id)
  /\ handler' = [ handler EXCEPT ![h] = Idle ]
  /\ UNCHANGED << converted, outbox, call >>

\* The heartbeat, while the work runs.  A renewal that finds no row of its own
\* ends the thread, not the work.
Heartbeat(h) ==
  /\ handler[h].phase = "working"
  /\ handler[h].beats
  /\ LET f == handler[h].file IN
     /\ file' = [ file EXCEPT ![f] = Renew(@, InstanceOf[h]) ]
     /\ handler' = [ handler EXCEPT ![h].beats =
          file[f].claimedBy = InstanceOf[h] ]
  /\ UNCHANGED << converted, outbox, inflight, call >>

\* The process dies, or the handler raises (a CHECK refused its release): no
\* answer, no acknowledgement.
HandlerDies(h) ==
  /\ handler[h] # Idle
  /\ handler' = [ handler EXCEPT ![h] = Idle ]
  /\ UNCHANGED << file, converted, outbox, inflight, call >>

-----------------------------------------------------------------------------
(* Time, the sweep and the dead-letter policy.                             *)

LeaseExpires(f) ==
  /\ file[f].lease = "live"
  /\ file' = [ file EXCEPT ![f].lease = "expired" ]
  /\ UNCHANGED << converted, outbox, inflight, handler, call >>

\* Mutation: the sweep does not look at claimed_until.
AbandonedAnyway(row) == row.stage \in { "INSPECTING", "CONVERTING" }

\* An in-progress row whose lease has run out.
Abandoned(row) ==
  row.stage \in { "INSPECTING", "CONVERTING" } /\ row.lease = "expired"

\* Mutation: the sweep resets the row without queueing it.
SweepReclaimsSilently(f) ==
  /\ Abandoned(file[f])
  /\ file[f].attempts < MaxAttempts
  /\ file' = [ file EXCEPT ![f] =
       [ @ EXCEPT !.stage = BackTo(IF @ = "INSPECTING" THEN "inspect" ELSE "convert"),
                  !.claimedBy = NoOne, !.lease = "none" ] ]
  /\ UNCHANGED << converted, outbox, inflight, handler, call >>

\* _reclaim_expired: back to the queue, through the outbox.
SweepReclaims(f) ==
  /\ Abandoned(file[f])
  /\ file[f].attempts < MaxAttempts
  /\ LET back == IF file[f].stage = "INSPECTING" THEN "UPLOADED"
                                                 ELSE "CONVERTING" IN
     /\ file' = [ file EXCEPT ![f] =
          [ @ EXCEPT !.stage = back, !.claimedBy = NoOne, !.lease = "none" ] ]
     /\ Enqueue(f, TopicForStage(back))
  /\ UNCHANGED << converted, inflight, handler, call >>

\* _fail_exhausted: the attempts are used up; file and tables fail.
SweepFails(f) ==
  /\ Abandoned(file[f])
  /\ file[f].attempts >= MaxAttempts
  /\ file' = [ file EXCEPT ![f] = FailTables(Fail(@)) ]
  /\ UNCHANGED << converted, outbox, inflight, handler, call >>

\* max_delivery_attempts reached by deliveries that died before an answer.
BrokerDropsMessage(f, t, i) ==
  /\ BrokerDeadLetters
  /\ \A h \in Handlers : handler[h] # Idle =>
       << handler[h].file, handler[h].topic, handler[h].id >> # << f, t, i >>
  /\ inflight' = [ inflight EXCEPT ![f][t] = @ \ {i} ]
  /\ UNCHANGED << file, converted, outbox, handler, call >>

-----------------------------------------------------------------------------
Api(c) ==
  \/ \E f \in Files : ConfirmRead(c, f)
  \/ ConfirmArrived(c)
  \/ ConfirmMissing(c)
  \/ ConvertGate(c)
  \/ ConvertMove(c)
  \/ ConvertCommit(c)
  \/ PublishInline(c)
  \/ MarkInline(c)
  \/ CallDies(c)

Relay(f, t, i) ==
  \/ RelayPublishes(f, t, i)
  \/ RelayPublishesUnrecorded(f, t, i)
  \/ RelayRetriesLater(f, t, i)
  \/ RelayGivesUp(f, t, i)

Broker(f, t, i) ==
  \/ \E h \in Handlers : Receive(h, f, t, i)
  \/ \E h \in Handlers : ReceiveNothingToDo(h, f, t, i)
  \/ BrokerDropsMessage(f, t, i)

Work(h) ==
  \/ ClaimFile(h)
  \/ ClaimRefused(h)
  \/ ClaimExhausted(h)
  \/ ClaimNacked(h)
  \/ InspectSucceeds(h)
  \/ ConvertSucceeds(h)
  \/ AttemptIsRetried(h)
  \/ AttemptIsFinal(h)
  \/ AttemptPauses(h)
  \/ Heartbeat(h)
  \/ HandlerDies(h)

Sweep(f) ==
  \/ SweepReclaims(f)
  \/ SweepFails(f)

Next ==
  \/ \E c \in Callers : Api(c)
  \/ \E f \in Files, t \in Topics :
       \/ \E i \in DOMAIN outbox[f][t] : Relay(f, t, i)
       \/ \E i \in inflight[f][t] : Broker(f, t, i)
  \/ \E h \in Handlers : Work(h)
  \/ \E f \in Files : LeaseExpires(f) \/ Sweep(f)

Spec == Init /\ [][Next]_vars

-----------------------------------------------------------------------------
(* Fairness.  The sweep is scheduled, due outbox rows are relayed, leases    *)
(* run out, and a delivery that owns a file ends one way or another.  An     *)
(* idle service is pushed the messages that wait (SF: it may be busy), and   *)
(* it does not die before the claim every single time: attempts counts only  *)
(* claims, so nothing in the code bounds deaths before one.  Nothing is      *)
(* assumed of the API calls, of publishing or of how an attempt ends.        *)

RelayTries(f, t, i) ==
  \/ RelayPublishes(f, t, i)
  \/ RelayRetriesLater(f, t, i)
  \/ RelayGivesUp(f, t, i)

Claims(h) ==
  \/ ClaimFile(h)
  \/ ClaimRefused(h)
  \/ ClaimExhausted(h)
  \/ ClaimNacked(h)

Ends(h) ==
  \/ InspectSucceeds(h)
  \/ ConvertSucceeds(h)
  \/ AttemptIsRetried(h)
  \/ AttemptIsFinal(h)
  \/ HandlerDies(h)

Fairness ==
  /\ \A f \in Files, t \in Topics :
       /\ WF_vars(\E i \in DOMAIN outbox[f][t] : RelayTries(f, t, i))
       /\ SF_vars(\E i \in inflight[f][t], h \in Handlers : Receive(h, f, t, i))
  /\ \A f \in Files : WF_vars(LeaseExpires(f)) /\ WF_vars(Sweep(f))
  /\ \A h \in Handlers : SF_vars(Claims(h)) /\ WF_vars(Ends(h))

FairSpec == Spec /\ Fairness

-----------------------------------------------------------------------------
(* Properties.                                                             *)

\* Every variable has its type.
TypeOK ==
  /\ file \in [ Files -> FileRow ]
  /\ converted \in BOOLEAN
  /\ outbox \in [ Files -> [ Topics -> Seq(OutboxRow) ] ]
  /\ inflight \in [ Files -> [ Topics -> SUBSET (Nat \ {0}) ] ]
  /\ \A f \in Files, t \in Topics : inflight[f][t] \subseteq DOMAIN outbox[f][t]
  /\ handler \in [ Handlers -> {Idle} \cup Delivery ]
  /\ call \in [ Callers -> {Idle} \cup ConfirmCall \cup ConvertCall
                           \cup PublishCall ]

\* A file that waits for work can always still get it: what is UPLOADED has a
\* file-uploaded message in the queue, what is CONVERTING and unclaimed has a
\* convert-requested one, and what is being worked on has a lease the sweep can
\* see run out.  This is the outbox, the acknowledgements, the lease and the
\* sweep taken together (outbox.enqueue, leases, sweep._reclaim_expired): every
\* acknowledgement, crash, retry and inline publish has to leave something
\* behind that brings the file back.
NothingStranded ==
  \A f \in Files :
    /\ file[f].stage = "UPLOADED" => Queued(f, "file-uploaded")
    /\ file[f].stage = "INSPECTING" => file[f].lease # "none"
    /\ file[f].stage = "CONVERTING" =>
         file[f].lease # "none" \/ Queued(f, "convert-requested")

\* The tables of a file tell the same story as the file (convert.py,
\* mark_tables_failed and _set_table_stage; inspect.py, _write_schemas): a
\* completed file has all its tables DONE, a file on its way has tables that can
\* still be finished, and tables are FAILED only under a failed file.
TablesMatchFile ==
  \A f \in Files :
    /\ file[f].stage = "COMPLETED" => file[f].tables = "DONE"
    /\ file[f].stage \in { "SCHEMA_READY", "CONVERTING" } =>
         file[f].tables \in { "QUEUED", "DONE" }
    /\ file[f].tables = "FAILED" => file[f].stage = "FAILED"

\* Attempts bound the work: each confirm in progress, the one request to convert
\* and each attempt but the last (its own retry and the sweep's) can put one
\* message in the queue, and nothing else can, however deliveries are repeated.
WorkIsBounded ==
  \A f \in Files :
    Len(outbox[f]["file-uploaded"]) + Len(outbox[f]["convert-requested"])
      <= Cardinality(Callers) + 1 + 2 * (MaxAttempts - 1)

\* Once a file is in conversion it never goes back to inspection, and once it is
\* completed it is never worked on again: a late or repeated inspection finds
\* claimed_by changed (leases.complete, leases.release).
NoWayBack ==
  [][\A f \in Files :
       /\ file[f].stage = "CONVERTING" =>
            file'[f].stage \in { "CONVERTING", "COMPLETED", "FAILED" }
       /\ file[f].stage = "COMPLETED" =>
            file'[f].stage \in { "COMPLETED", "FAILED" }]_vars

\* A file that is being worked on is only brought forward by the delivery that
\* made the latest claim: one that lost its lease to the sweep or to another
\* delivery can no longer complete it (the claimed_by predicate of
\* leases.complete, where every process has an identity of its own).
FencedCompletion ==
  [][\A f \in Files :
       /\ file[f].stage \in { "INSPECTING", "CONVERTING" }
       /\ file'[f].stage \in { "SCHEMA_READY", "CONVERTING", "COMPLETED" }
       /\ file'[f].stage # file[f].stage
       => \E h \in Handlers :
            /\ handler[h].phase = "working"
            /\ handler[h].file = f
            /\ handler[h].attempts = file[f].attempts
            /\ handler'[h] = Idle]_vars

\* The pipeline keeps the promises of FileLife (every statement that writes
\* files.stage, taken together).  A failed file stays failed, because failing it
\* took its lease away; no late delivery moves a file to a stage it has no claim
\* to; and a shape that lands after the request to convert is not left behind.
Life == INSTANCE FileLife WITH stage <- [ f \in Files |-> file[f].stage ]

ImplementsFileLife == Life!LifeSpec

\* Every file that has arrived gets its shape or fails, and every file in
\* conversion completes or fails, whatever workers, publishes and acknowledgements
\* do on the way (the outbox, the retries and the sweep together).
EveryFileSettles ==
  \A f \in Files :
    /\ file[f].stage \in { "UPLOADED", "INSPECTING" } ~>
         file[f].stage \in { "SCHEMA_READY", "CONVERTING", "COMPLETED", "FAILED" }
    /\ file[f].stage = "CONVERTING" ~> file[f].stage \in { "COMPLETED", "FAILED" }

-----------------------------------------------------------------------------
(* What the documentation says and the code does not do: TLC finds each of   *)
(* these violated (README, Findings).                                        *)

\* outbox.py:9 - "The lease in §31 is what makes duplicate delivery harmless":
\* a delivery that does not get the claim leaves a completed file as it is.
\* But claim answers EXHAUSTED before ALREADY_DONE.
DuplicateDeliveryIsHarmless ==
  [][\A h \in Handlers :
       /\ handler[h].phase = "received"
       /\ file[handler[h].file].stage = "COMPLETED"
       /\ handler'[h] = Idle
       => file'[handler[h].file] = file[handler[h].file]]_vars

\* pipeline.py:398 - "Lost the lease - the reaper took it. Stop renewing and let
\* the other worker own it": a worker whose claim is not the latest any more does
\* not decide where the file goes.  But leases.fail does not ask who holds it.
LostLeaseLetsOtherOwn ==
  [][\A h \in Handlers :
       /\ handler[h].phase = "working"
       /\ handler[h].attempts < file[handler[h].file].attempts
       /\ handler'[h] = Idle
       => file'[handler[h].file].stage = file[handler[h].file].stage]_vars

\* convert.ts:20 - "the ones whose shape is in start now, and each of the rest is
\* carried straight into conversion by the inspect worker the moment its shape
\* lands": once Convert has answered, no file is left waiting with its shape in.
\* But each transaction may miss what the other has not committed yet.
ConvertCarriesEveryFile ==
  converted /\ (\A c \in Callers : call[c] = Idle) =>
    \A f \in Files : file[f].stage # "SCHEMA_READY"

=============================================================================
