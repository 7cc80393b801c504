-------------------------------- MODULE Zamp --------------------------------
(***************************************************************************)
(* The workers of Zamp/python, which infra/deploy puts behind the topics:  *)
(* the schema detector (SchemaPipeline), the data processor                *)
(* (ProcessingPipeline) and the sweep of both (zamp_shared), for one file  *)
(* of several tables that has arrived.  Every call of a repository is a    *)
(* transaction of its own, so a delivery is a row of steps, and whatever   *)
(* else happens falls between them.                                        *)
(*                                                                         *)
(* A role stands for its topic and for the identity its instances share    *)
(* (INSTANCE_ID).  The rows of a topic are alike, and its messages, which  *)
(* may come again however they were answered.  Of a table's versions the   *)
(* newest is all that is read.  EXTRACTING and FILLING are one stage of a  *)
(* table, and records are left out.  What the request's status becomes is  *)
(* left out too; dead letters are in Pipeline.                             *)
(***************************************************************************)
EXTENDS Naturals, FiniteSets

CONSTANTS
    Deliveries,    \* what the services can work on at once
    Ords,          \* the ordinals of the file's tables
    MaxAttempts,   \* the values of max_attempts
    Mishaps,       \* what may go wrong: "stops", "overruns" or "nothing" else
    NoRole

ASSUME ZampAssumption ==
    /\ Ords \subseteq Nat /\ IsFiniteSet(Ords) /\ Ords # {}
    /\ MaxAttempts \subseteq Nat \ {0}
    /\ Mishaps \subseteq {"stops", "overruns", "nothing"}
    /\ NoRole \notin Deliveries \cup {"inspect", "convert"}

Roles == {"inspect", "convert"}
VARIABLES
    doc,        \* the row of the file, and whose claim is the latest (by)
    sheet,      \* [Ords -> the row of the table: its fields, its result's stage]
    newest,     \* [Ords -> its newest file_schema_version, and whether its run is COMPLETED]
    pending,    \* [Roles -> whether the outbox has a row that is PENDING]
    message,    \* [Roles -> whether the broker has a message of the file]
    job,        \* [Deliveries -> how far each has come]
    press,      \* Convert: "idle", "moving", "holding" the file's row, "done"
    editing,    \* an edit of the shapes has passed its gate
    reclaimed,  \* the topic the sweep has a reclaimed file to queue on, or NoRole
    mishap      \* processes stop between two transactions, or work overruns its lease

zampVars == <<doc, sheet, newest, pending, message, job, press, editing, reclaimed, mishap>>
outboxVars == <<pending, message, reclaimed>>
pressVars == <<press, editing>>

Absent == "absent"
NoVersion == [fields |-> Absent, approved |-> FALSE, run |-> FALSE]
NoJob == [at |-> "idle", role |-> NoRole, todo |-> {}, any |-> FALSE]
Claimable == [r \in Roles |-> IF r = "inspect" THEN "UPLOADED" ELSE "CONVERTING"]
ClaimTarget == [r \in Roles |-> IF r = "inspect" THEN "INSPECTING" ELSE "CONVERTING"]
Overruns == mishap = "overruns"
Locked == press = "holding"
AtWork(d) == job[d].at # "idle"
Now(d) == CHOOSE t \in job[d].todo : \A u \in job[d].todo : t <= u

Goes(d, at) == job' = [job EXCEPT ![d].at = at]
Leaves(d) == job' = [job EXCEPT ![d] = NoJob]
Put(r) == pending' = [pending EXCEPT ![r] = TRUE]
(* update_stage: the end of a stage gives the lease back, whoever has it.  *)
Moved(stage) == [doc EXCEPT !.stage = stage, !.holder = NoRole, !.lease = "none", !.by = NoRole]

----------------------------------------------------------------------------
(* A delivery.  One whose claim is refused is answered 200 and leaves no   *)
(* trace, whatever the reason was.                                         *)

\* Mutation: the claim asks for the lease and not for the stage.
CanTakeAnyStage(r) == doc.lease # "live" /\ doc.attempts < doc.max_attempts
CanTake(r) == doc.stage = Claimable[r] /\ doc.lease # "live" /\ doc.attempts < doc.max_attempts
Take(d, r) ==
    /\ ~AtWork(d) /\ message[r] /\ ~Locked
    /\ CanTake(r)
    /\ doc' = [doc EXCEPT !.stage = ClaimTarget[r], !.holder = r, !.lease = "live", !.by = d,
                          !.attempts = @ + 1]
    /\ job' = [job EXCEPT ![d] = [NoJob EXCEPT !.at = "started", !.role = r]]
    /\ UNCHANGED <<sheet, newest, outboxVars, pressVars, mishap>>

\* Mutation: the loop is left after a table that worked.
NextTableOnce(d, more, end, worked) ==
    LET left == job[d].todo \ {Now(d)}
    IN job' = [job EXCEPT ![d] = IF ~worked /\ left # {} THEN [@ EXCEPT !.at = more, !.todo = left]
                                 ELSE [NoJob EXCEPT !.role = job[d].role, !.at = end]]
(* What is left of a loop over tables.                                     *)
NextTable(d, more, end, worked) ==
    LET left == job[d].todo \ {Now(d)}
        any == job[d].any \/ worked
    IN job' = [job EXCEPT ![d] =
                  IF left # {} THEN [@ EXCEPT !.at = more, !.todo = left, !.any = any]
                  ELSE [NoJob EXCEPT !.role = job[d].role,
                                     !.at = IF any THEN end
                                            ELSE IF job[d].role = "inspect" THEN "failing" ELSE "spoilt"]]

----------------------------------------------------------------------------
(* The detector.                                                           *)

Settled == \E t \in Ords : newest[t].approved
Detect(d) ==
    /\ job[d].at = "started" /\ job[d].role = "inspect"
    /\ job' = [job EXCEPT ![d] = IF Settled THEN [@ EXCEPT !.at = "landing"]
                                ELSE [@ EXCEPT !.at = "row", !.todo = Ords]]
    /\ UNCHANGED <<doc, sheet, newest, outboxVars, pressVars, mishap>>

(* A quota or a model that is down: the lease is left to run out.          *)
Defer(d) ==
    /\ job[d].at = "started" /\ job[d].role = "inspect"
    /\ Leaves(d)
    /\ UNCHANGED <<doc, sheet, newest, outboxVars, pressVars, mishap>>

\* Mutation: the row of a table that is there takes the fields read again.
PersistedAnew(t, fields) == [sheet EXCEPT ![t].fields = fields]
Persisted(t, fields) == IF sheet[t].fields = Absent THEN [sheet EXCEPT ![t].fields = fields] ELSE sheet
PersistTable(d) ==
    /\ job[d].at = "row"
    /\ \/ sheet' = Persisted(Now(d), "detected") /\ Goes(d, "version")
       \/ sheet' = Persisted(Now(d), "blank") /\ Goes(d, "blank")
    /\ UNCHANGED <<doc, newest, outboxVars, pressVars, mishap>>
PersistDetected(d) ==
    /\ job[d].at = "version"
    /\ newest' = IF newest[Now(d)] # NoVersion THEN newest
                  ELSE [newest EXCEPT ![Now(d)].fields = "detected"]
    /\ Goes(d, "result")
    /\ UNCHANGED <<doc, sheet, outboxVars, pressVars, mishap>>
SeedResult(d) ==
    /\ job[d].at \in {"result", "blank"}
    /\ sheet' = [sheet EXCEPT ![Now(d)].result = IF @ = Absent THEN "QUEUED" ELSE @]
    /\ IF job[d].at = "result" THEN NextTable(d, "row", "landing", TRUE) ELSE Goes(d, "seeded")
    /\ UNCHANGED <<doc, newest, outboxVars, pressVars, mishap>>
FailBlank(d) ==
    /\ job[d].at = "seeded"
    /\ sheet' = [sheet EXCEPT ![Now(d)].result = "FAILED"]
    /\ NextTable(d, "row", "landing", FALSE)
    /\ UNCHANGED <<doc, newest, outboxVars, pressVars, mishap>>

Land(d) ==
    /\ job[d].at = "landing" /\ ~Locked
    /\ doc' = Moved("SCHEMA_READY")
    /\ Goes(d, "landed")
    /\ UNCHANGED <<sheet, newest, outboxVars, pressVars, mishap>>
(* _convert_if_already_requested: the move, and in a transaction of its    *)
(* own the row that announces it.                                          *)
CarryOn(d) ==
    /\ job[d].at = "landed" /\ press = "done" /\ doc.stage = "SCHEMA_READY"
    /\ doc' = [doc EXCEPT !.stage = "CONVERTING"]
    /\ Goes(d, "carrying")
    /\ UNCHANGED <<sheet, newest, outboxVars, pressVars, mishap>>
CarryNothing(d) ==
    /\ job[d].at = "landed" /\ ~(press = "done" /\ doc.stage = "SCHEMA_READY")
    /\ Leaves(d)
    /\ UNCHANGED <<doc, sheet, newest, outboxVars, pressVars, mishap>>
Announce(d) ==
    /\ job[d].at = "carrying"
    /\ Put("convert") /\ Leaves(d)
    /\ UNCHANGED <<doc, sheet, newest, message, reclaimed, pressVars, mishap>>

----------------------------------------------------------------------------
(* The processor.                                                          *)

TablesToConvert == {t \in Ords : sheet[t].fields # Absent /\ sheet[t].result # "FAILED"}
List(d) ==
    /\ job[d].at = "started" /\ job[d].role = "convert"
    /\ job' = [job EXCEPT ![d] = IF TablesToConvert = {} THEN [@ EXCEPT !.at = "failing"]
                                ELSE [@ EXCEPT !.at = "resolve", !.todo = TablesToConvert]]
    /\ UNCHANGED <<doc, sheet, newest, outboxVars, pressVars, mishap>>

(* snapshot_approved and open_for: the shape as it stands now, and its run.*)
Approved(t) == newest[t].approved /\ newest[t].fields = sheet[t].fields
Resolve(d) ==
    LET t == Now(d)
    IN /\ job[d].at = "resolve"
       /\ newest' = IF Approved(t) THEN newest
                     ELSE [newest EXCEPT ![t] =
                              [fields |-> sheet[t].fields, approved |-> TRUE, run |-> FALSE]]
       /\ Goes(d, IF Approved(t) /\ newest[t].run THEN "recount" ELSE "begin")
       /\ UNCHANGED <<doc, sheet, outboxVars, pressVars, mishap>>
Recount(d) ==
    /\ job[d].at = "recount"
    /\ sheet' = [sheet EXCEPT ![Now(d)].result = "DONE"]
    /\ NextTable(d, "resolve", "completing", TRUE)
    /\ UNCHANGED <<doc, newest, outboxVars, pressVars, mishap>>

RunIs(t, completed) == newest' = [newest EXCEPT ![t].run = completed]
Begin(d) ==
    /\ job[d].at = "begin"
    /\ RunIs(Now(d), FALSE)
    /\ sheet' = [sheet EXCEPT ![Now(d)].result = "FILLING"]
    /\ Goes(d, "filling")
    /\ UNCHANGED <<doc, outboxVars, pressVars, mishap>>
RenewLease(d) ==
    /\ job[d].at = "filling" /\ doc.holder = "convert" /\ ~Locked
    /\ doc' = [doc EXCEPT !.lease = "live", !.by = d]
    /\ UNCHANGED <<sheet, newest, outboxVars, job, pressVars, mishap>>
Fill(d) ==
    /\ job[d].at = "filling"
    /\ sheet' = [sheet EXCEPT ![Now(d)].result = "DONE"]
    /\ Goes(d, "filled")
    /\ UNCHANGED <<doc, newest, outboxVars, pressVars, mishap>>
CloseRun(d) ==
    /\ job[d].at = "filled"
    /\ RunIs(Now(d), TRUE)
    /\ NextTable(d, "resolve", "completing", TRUE)
    /\ UNCHANGED <<doc, sheet, outboxVars, pressVars, mishap>>
FailTable(d) ==
    /\ job[d].at \in {"begin", "filling", "filled"}
    /\ sheet' = [sheet EXCEPT ![Now(d)].result = "FAILED"]
    /\ RunIs(Now(d), FALSE)
    /\ NextTable(d, "resolve", "completing", FALSE)
    /\ UNCHANGED <<doc, outboxVars, pressVars, mishap>>

Complete(d) ==
    /\ job[d].at = "completing" /\ ~Locked
    /\ doc' = Moved("COMPLETED")
    /\ Leaves(d)
    /\ UNCHANGED <<sheet, newest, outboxVars, pressVars, mishap>>

----------------------------------------------------------------------------
(* Failure.  No table could be read: the detector fails the file and its   *)
(* tables, the processor the file.  And so with what a handler catches.    *)
Spoil(d) ==
    /\ job[d].at = "spoilt" /\ ~Locked
    /\ doc' = Moved("FAILED")
    /\ Leaves(d)
    /\ UNCHANGED <<sheet, newest, outboxVars, pressVars, mishap>>
Break(d) ==
    /\ \/ job[d].role = "inspect" /\ AtWork(d) /\ job[d].at \notin {"failing", "failed"}
       \/ job[d].role = "convert" /\ job[d].at \in {"resolve", "recount"}
    /\ job' = [job EXCEPT ![d] = [NoJob EXCEPT !.at = "failing", !.role = job[d].role]]
    /\ UNCHANGED <<doc, sheet, newest, outboxVars, pressVars, mishap>>
FailFile(d) ==
    /\ job[d].at = "failing" /\ ~Locked
    /\ doc' = Moved("FAILED")
    /\ Goes(d, "failed")
    /\ UNCHANGED <<sheet, newest, outboxVars, pressVars, mishap>>
FailTables(d) ==
    /\ job[d].at = "failed"
    /\ sheet' = [t \in Ords |-> [sheet[t] EXCEPT !.result = IF @ = Absent THEN @ ELSE "FAILED"]]
    /\ Leaves(d)
    /\ UNCHANGED <<doc, newest, outboxVars, pressVars, mishap>>
(* The process stops, or what it does not catch leaves the handler.        *)
Die(d) ==
    /\ mishap = "stops" /\ AtWork(d)
    /\ Leaves(d)
    /\ UNCHANGED <<doc, sheet, newest, outboxVars, pressVars, mishap>>

----------------------------------------------------------------------------
(* The sweep: expired leases, then the outbox; and the clock.              *)

LeaseRunsOut ==
    /\ doc.lease = "live"
    /\ Overruns \/ ~AtWork(doc.by)
    /\ doc' = [doc EXCEPT !.lease = "expired", !.by = NoRole]
    /\ UNCHANGED <<sheet, newest, outboxVars, job, pressVars, mishap>>

Expired == doc.stage \in {"INSPECTING", "CONVERTING"} /\ doc.lease = "expired" /\ ~Locked
Reap ==
    /\ Expired /\ reclaimed = NoRole /\ doc.attempts < doc.max_attempts
    /\ doc' = Moved(IF doc.stage = "INSPECTING" THEN "UPLOADED" ELSE "CONVERTING")
    /\ reclaimed' = IF doc.stage = "INSPECTING" THEN "inspect" ELSE "convert"
    /\ UNCHANGED <<sheet, newest, pending, message, job, pressVars, mishap>>
GiveUp ==
    /\ Expired /\ doc.attempts >= doc.max_attempts
    /\ doc' = Moved("FAILED")
    /\ UNCHANGED <<sheet, newest, outboxVars, job, pressVars, mishap>>
(* Reclaiming has been committed: this is another transaction.             *)
Requeue ==
    /\ reclaimed # NoRole
    /\ Put(reclaimed) /\ reclaimed' = NoRole
    /\ UNCHANGED <<doc, sheet, newest, message, job, pressVars, mishap>>
RequeueFails ==
    /\ mishap = "stops" /\ reclaimed # NoRole /\ reclaimed' = NoRole
    /\ UNCHANGED <<doc, sheet, newest, pending, message, job, pressVars, mishap>>

(* The relay, and the API's own publish: it may stop before it says so.    *)
Publish(r) ==
    /\ pending[r]
    /\ message' = [message EXCEPT ![r] = TRUE]
    /\ \E more \in BOOLEAN : pending' = [pending EXCEPT ![r] = more]
    /\ UNCHANGED <<doc, sheet, newest, reclaimed, job, pressVars, mishap>>
MarkDead(r) ==
    /\ pending[r] /\ ~Locked
    /\ \E more \in BOOLEAN : pending' = [pending EXCEPT ![r] = more]
    /\ doc' = IF doc.stage \in {"COMPLETED", "FAILED"} THEN doc ELSE [doc EXCEPT !.stage = "FAILED"]
    /\ UNCHANGED <<sheet, newest, message, reclaimed, job, pressVars, mishap>>

----------------------------------------------------------------------------
(* The API: an edit of a shape, and Convert, whose transaction holds the   *)
(* row it has moved until it commits.                                      *)

Readable == {"detected", "edited"}
EditGate == /\ press # "done" /\ ~editing /\ \E t \in Ords : sheet[t].fields \in Readable
            /\ editing' = TRUE
            /\ UNCHANGED <<doc, sheet, newest, outboxVars, job, press, mishap>>
EditWrites ==
    /\ editing /\ editing' = FALSE
    /\ \E t \in Ords : /\ sheet[t].fields \in Readable
                       /\ sheet' = [sheet EXCEPT ![t].fields = "edited"]
    /\ UNCHANGED <<doc, newest, outboxVars, job, press, mishap>>
PressConvert ==
    /\ press = "idle"
    /\ press' = IF doc.stage = "SCHEMA_READY" THEN "holding" ELSE "moving"
    /\ UNCHANGED <<doc, sheet, newest, outboxVars, job, editing, mishap>>
CommitConvert ==
    /\ press \in {"moving", "holding"} /\ press' = "done"
    /\ IF Locked THEN Put("convert") /\ doc' = [doc EXCEPT !.stage = "CONVERTING"]
       ELSE UNCHANGED <<pending, doc>>
    /\ UNCHANGED <<sheet, newest, message, reclaimed, job, editing, mishap>>

----------------------------------------------------------------------------
ZampInit ==
    /\ \E most \in MaxAttempts :
        doc = [stage |-> "UPLOADED", holder |-> NoRole, lease |-> "none", by |-> NoRole,
               attempts |-> 0, max_attempts |-> most]
    /\ sheet = [t \in Ords |-> [fields |-> Absent, result |-> Absent]]
    /\ newest = [t \in Ords |-> NoVersion]
    /\ pending = [r \in Roles |-> r = "inspect"]
    /\ message = [r \in Roles |-> FALSE]
    /\ job = [d \in Deliveries |-> NoJob]
    /\ press = "idle" /\ editing = FALSE
    /\ reclaimed = NoRole
    /\ mishap \in Mishaps

Inspect(d) == \/ Detect(d) \/ Defer(d) \/ PersistTable(d) \/ PersistDetected(d) \/ SeedResult(d)
              \/ FailBlank(d) \/ Land(d) \/ CarryOn(d) \/ CarryNothing(d) \/ Announce(d)
ConvertFile(d) == \/ List(d) \/ Resolve(d) \/ Recount(d) \/ Begin(d) \/ RenewLease(d) \/ Fill(d)
                  \/ CloseRun(d) \/ FailTable(d) \/ Complete(d)
Work(d) == \/ \E r \in Roles : Take(d, r)
            \/ Inspect(d) \/ ConvertFile(d)
            \/ Spoil(d) \/ Break(d) \/ FailFile(d) \/ FailTables(d) \/ Die(d)
ZampNext ==
    \/ \E d \in Deliveries : Work(d)
    \/ LeaseRunsOut \/ Reap \/ GiveUp \/ Requeue \/ RequeueFails
    \/ \E r \in Roles : Publish(r) \/ MarkDead(r)
    \/ EditGate \/ EditWrites \/ PressConvert \/ CommitConvert
ZampSpec == ZampInit /\ [][ZampNext]_zampVars

----------------------------------------------------------------------------
(* What a person has saved is what is converted: no detection that comes   *)
(* late or again puts back what it read (persist_table).                   *)
EditIsKept == [][\A t \in Ords : sheet[t].fields = "edited" => sheet'[t].fields = "edited"]_zampVars

(* While work ends within its lease, "stray redelivery after user approval:*)
(* COMPLETED preserved": a file in conversion never goes back before it.   *)
ConvertedStaysSo ==
    [][~Overruns /\ doc.stage \in {"CONVERTING", "COMPLETED"}
          => doc'.stage \notin {"UPLOADED", "INSPECTING", "SCHEMA_READY"}]_zampVars

(* While work ends within its lease, a completed file has no table at work:*)
(* whatever died and was done again, each ended (execute, _one_table).     *)
CompletedIsSettled ==
    ~Overruns /\ doc.stage = "COMPLETED" => \A t \in Ords : sheet[t].result \in {"DONE", "FAILED"}
=============================================================================
