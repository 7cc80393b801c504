--------------------------- MODULE RequestStatus ----------------------------
(***************************************************************************)
(* requests.status, which the API and the workers both derive from the     *)
(* stages of a request's files (refreshRequestStatus and                   *)
(* _refresh_request_status run the same statement).  Who moves a file and  *)
(* when is Pipeline's subject; here a file may take any step of its life,  *)
(* in a transaction that refreshes the status or in one that does not.     *)
(*                                                                         *)
(* Transactions run at READ COMMITTED.  One that refreshes counts the      *)
(* files that are committed when its statement starts, with its own        *)
(* change; it then waits for the row of the request, and what it finds     *)
(* there is the latest row, while its counts stay what they were.          *)
(***************************************************************************)

CONSTANTS Files,        \* the files the request may come to have
          FirstFiles,   \* those it was created with
          Txns,         \* transactions that can be open at once
          Silent        \* which changes without a refresh may happen

ASSUME StatusAssumption ==
  /\ FirstFiles \subseteq Files
  /\ Silent \subseteq { "confirm", "sweep", "dead outbox", "discard", "pause" }

FileStages == { "UPLOADING", "UPLOADED", "INSPECTING", "SCHEMA_READY",
                "CONVERTING", "COMPLETED", "FAILED" }

RequestStatuses == { "COLLECTING", "READY", "CONVERTING", "PAUSED",
                     "COMPLETED", "FAILED" }

SettledStages == { "SCHEMA_READY", "FAILED" }
TerminalStages == { "COMPLETED", "FAILED" }

VARIABLES
  stage,      \* stage[f]: files.stage
  listed,     \* listed[f]: whether there is a row, and files.deleted_at
  status,     \* requests.status
  converted,  \* requests.converted_at IS NOT NULL
  txn         \* txn[s]: a transaction in progress

vars == << stage, listed, status, converted, txn >>

\* What counts says of the files: total > 0, settled = total, terminal = total,
\* failed = total.
Views == [ some : BOOLEAN, settled : BOOLEAN, terminal : BOOLEAN,
           failed : BOOLEAN ]

\* The files a transaction moves to stage "to" are its own until it ends.
Idle == [ phase |-> "idle", files |-> {} ]

\* confirmUploads between the transactions of its files and its refresh.
Owing == [ phase |-> "owing", files |-> {} ]

OpenTxn ==
  [ phase : { "refreshing" }, files : SUBSET Files, to : FileStages, view : Views ]
  \cup [ phase : { "gated", "moving" }, files : SUBSET Files ]
  \cup {Owing}

\* What createUploadUrls commits.
Init ==
  /\ stage = [ f \in Files |-> "UPLOADING" ]
  /\ listed = [ f \in Files |-> IF f \in FirstFiles THEN "live" ELSE "absent" ]
  /\ status = "COLLECTING"
  /\ converted = FALSE
  /\ txn = [ s \in Txns |-> Idle ]

-----------------------------------------------------------------------------
\* Mutation: rows are not locked.
FreeAlways(f) == TRUE

\* No open transaction has written the row of f.
Free(f) == \A s \in Txns : f \notin txn[s].files

\* The row of f is there, and a statement may write it.
Row(f) == listed[f] # "absent" /\ Free(f)

\* The stages and the live files as a transaction sees them that has moved
\* "files" to stage "to", inserting the row if there was none.
StageWith(files, to) == [ f \in Files |-> IF f \in files THEN to ELSE stage[f] ]
ListedWith(files) ==
  [ f \in Files |-> IF f \in files /\ listed[f] = "absent" THEN "live" ELSE listed[f] ]

\* The counts of the refresh.
Counts(files, to) ==
  LET st   == StageWith(files, to)
      live == { f \in Files : ListedWith(files)[f] = "live" } IN
  [ some     |-> live # {},
    settled  |-> \A f \in live : st[f] \in SettledStages,
    terminal |-> \A f \in live : st[f] \in TerminalStages,
    failed   |-> \A f \in live : st[f] = "FAILED" ]

\* Mutation: READY is asked before converted_at.
SettledFirst(v) ==
  CASE v.settled /\ v.some                  -> "READY"
    [] converted /\ v.terminal /\ v.failed  -> "FAILED"
    [] converted /\ v.terminal              -> "COMPLETED"
    [] converted                            -> "CONVERTING"
    [] OTHER                                -> "COLLECTING"

\* The CASE of the refresh, on the latest row of the request.
StatusFrom(v) ==
  IF converted
    THEN IF v.terminal THEN IF v.failed THEN "FAILED" ELSE "COMPLETED"
                       ELSE "CONVERTING"
    ELSE IF v.settled /\ v.some THEN "READY" ELSE "COLLECTING"

-----------------------------------------------------------------------------
(* Transactions that end with a refresh: the file changes and the files are *)
(* counted, then the request is updated and everything is committed.       *)

BeginRefresh(s, files, to) ==
  /\ txn' = [ txn EXCEPT ![s] =
       [ phase |-> "refreshing", files |-> files, to |-> to,
         view |-> Counts(files, to) ] ]
  /\ UNCHANGED << stage, listed, status, converted >>

\* _process of the inspect role, with the chain to conversion.
BeginLanding(s, f) ==
  /\ txn[s] = Idle
  /\ Row(f)
  /\ stage[f] = "INSPECTING"
  /\ BeginRefresh(s, {f}, IF converted THEN "CONVERTING" ELSE "SCHEMA_READY")

\* The same for an inspection that has lost its lease: complete finds nothing to
\* do, and the chain may still find a shape that Convert has missed.
BeginLateChain(s, f) ==
  /\ txn[s] = Idle
  /\ Row(f)
  /\ stage[f] = "SCHEMA_READY"
  /\ converted
  /\ BeginRefresh(s, {f}, "CONVERTING")

\* _process of the convert role.
BeginCompletion(s, f) ==
  /\ txn[s] = Idle
  /\ Row(f)
  /\ stage[f] = "CONVERTING"
  /\ BeginRefresh(s, {f}, "COMPLETED")

\* A final failure or an exhausted claim: whatever stage a delivery finds.
BeginFailure(s, f) ==
  /\ txn[s] = Idle
  /\ Row(f)
  /\ stage[f] # "UPLOADING"
  /\ BeginRefresh(s, {f}, "FAILED")

\* createOne: a name more under a request that is there.
BeginCreate(s, f) ==
  /\ txn[s] = Idle
  /\ listed[f] = "absent"
  /\ Free(f)
  /\ BeginRefresh(s, {f}, "UPLOADING")

\* confirmUploads refreshes in a transaction of its own, and so in effect does a
\* conversion that finds its lease gone.
BeginNothing(s) ==
  /\ txn[s] \in { Idle, Owing }
  /\ BeginRefresh(s, {}, "FAILED")

\* The refresh leaves a paused request alone.
Commit(s) ==
  /\ txn[s].phase = "refreshing"
  /\ stage' = StageWith(txn[s].files, txn[s].to)
  /\ listed' = ListedWith(txn[s].files)
  /\ status' = IF status = "PAUSED" THEN status ELSE StatusFrom(txn[s].view)
  /\ txn' = [ txn EXCEPT ![s] = Idle ]
  /\ UNCHANGED converted

\* The process dies, or a statement raises.  A confirm then never refreshes.
Rollback(s) ==
  /\ txn[s] # Idle
  /\ txn[s] = Owing => "confirm" \in Silent
  /\ txn' = [ txn EXCEPT ![s] = Idle ]
  /\ UNCHANGED << stage, listed, status, converted >>

-----------------------------------------------------------------------------
(* convert: gate, startConverting, commit.                                  *)

\* listFiles sees live files only.
ConvertGate(s) ==
  LET live == { f \in Files : listed[f] = "live" } IN
  /\ txn[s] = Idle
  /\ live # {}
  /\ ~converted
  /\ \A f \in live : stage[f] # "UPLOADING"
  /\ txn' = [ txn EXCEPT ![s] = [ phase |-> "gated", files |-> {} ] ]
  /\ UNCHANGED << stage, listed, status, converted >>

\* startConverting does not ask for deleted_at: a discarded file is moved too.
\* A row another transaction has written makes it wait.
ConvertMove(s) ==
  LET ready == { f \in Files : listed[f] # "absent" /\ stage[f] = "SCHEMA_READY" } IN
  /\ txn[s].phase = "gated"
  /\ \A f \in ready : Free(f)
  /\ txn' = [ txn EXCEPT ![s] = [ phase |-> "moving", files |-> ready ] ]
  /\ UNCHANGED << stage, listed, status, converted >>

\* status is set, not derived.
ConvertCommit(s) ==
  /\ txn[s].phase = "moving"
  /\ stage' = StageWith(txn[s].files, "CONVERTING")
  /\ status' = "CONVERTING"
  /\ converted' = TRUE
  /\ txn' = [ txn EXCEPT ![s] = Idle ]
  /\ UNCHANGED listed

-----------------------------------------------------------------------------
(* Changes without a refresh in their transaction.                         *)

SetStage(f, to) ==
  /\ Row(f)
  /\ stage' = [ stage EXCEPT ![f] = to ]
  /\ UNCHANGED << listed, converted >>

\* confirmUploads, the transaction of one file.
Confirmed(s, f) ==
  /\ txn[s] \in { Idle, Owing }
  /\ stage[f] = "UPLOADING"
  /\ \E to \in { "UPLOADED", "FAILED" } : SetStage(f, to)
  /\ txn' = [ txn EXCEPT ![s] = Owing ]
  /\ UNCHANGED status

Claimed(f) ==
  /\ stage[f] = "UPLOADED"
  /\ SetStage(f, "INSPECTING")
  /\ UNCHANGED << status, txn >>

\* A retry (release) or the sweep (_reclaim_expired).
GivenBack(f) ==
  /\ stage[f] = "INSPECTING"
  /\ SetStage(f, "UPLOADED")
  /\ UNCHANGED << status, txn >>

\* The sweep's own _fail_exhausted.
SweepFails(f) ==
  /\ "sweep" \in Silent
  /\ stage[f] \in { "INSPECTING", "CONVERTING" }
  /\ SetStage(f, "FAILED")
  /\ UNCHANGED << status, txn >>

\* _fail_file_for_dead_outbox: any stage a file with an outbox row can have.
OutboxRowDies(f) ==
  /\ "dead outbox" \in Silent
  /\ stage[f] \notin { "UPLOADING", "FAILED" }
  /\ SetStage(f, "FAILED")
  /\ UNCHANGED << status, txn >>

\* discardFiles: a soft delete, and no refresh.
Discard(f) ==
  /\ "discard" \in Silent
  /\ listed[f] = "live"
  /\ Free(f)
  /\ listed' = [ listed EXCEPT ![f] = "discarded" ]
  /\ UNCHANGED << stage, status, converted, txn >>

\* _pause_request, which releases the file.
Pause(f) ==
  /\ "pause" \in Silent
  /\ \/ stage[f] = "INSPECTING" /\ SetStage(f, "UPLOADED")
     \/ stage[f] = "CONVERTING" /\ SetStage(f, "CONVERTING")
  /\ status' = IF status \in { "COMPLETED", "FAILED" } THEN status ELSE "PAUSED"
  /\ UNCHANGED txn

\* _resume_paused: by converted_at alone, whatever the files have done.
Resume ==
  /\ status = "PAUSED"
  /\ status' = IF converted THEN "CONVERTING" ELSE "COLLECTING"
  /\ UNCHANGED << stage, listed, converted, txn >>

-----------------------------------------------------------------------------
Refreshing(s) ==
  \/ \E f \in Files :
       \/ BeginLanding(s, f)
       \/ BeginLateChain(s, f)
       \/ BeginCompletion(s, f)
       \/ BeginFailure(s, f)
       \/ BeginCreate(s, f)
       \/ Confirmed(s, f)
  \/ BeginNothing(s)
  \/ Commit(s)
  \/ Rollback(s)

Converting(s) ==
  \/ ConvertGate(s)
  \/ ConvertMove(s)
  \/ ConvertCommit(s)

Quietly(f) ==
  \/ Claimed(f)
  \/ GivenBack(f)
  \/ SweepFails(f)
  \/ OutboxRowDies(f)
  \/ Discard(f)
  \/ Pause(f)

Next ==
  \/ \E s \in Txns : Refreshing(s) \/ Converting(s)
  \/ \E f \in Files : Quietly(f)
  \/ Resume

Spec == Init /\ [][Next]_vars

-----------------------------------------------------------------------------
(* Properties.                                                             *)

\* Every variable has its type, a row has at most one writer, and a file without
\* a row has no history.
TypeOK ==
  /\ stage \in [ Files -> FileStages ]
  /\ listed \in [ Files -> { "absent", "live", "discarded" } ]
  /\ status \in RequestStatuses
  /\ converted \in BOOLEAN
  /\ txn \in [ Txns -> {Idle} \cup OpenTxn ]
  /\ \A s, u \in Txns : s = u \/ txn[s].files \cap txn[u].files = {}
  /\ \A f \in Files : listed[f] = "absent" => stage[f] = "UPLOADING"

\* The status never claims more than the files do (the CASE of the refresh,
\* taken together with the order of its updates): a request that says COMPLETED
\* or FAILED was converted and everything it was created with has ended, FAILED
\* means that nothing came of it, READY that every shape is in and Convert has
\* not been pressed, and once it has been the request never says again that it
\* is collecting.  It has to survive counts that are out of date by the time
\* they are written.
StatusNeverAhead ==
  LET first == { f \in FirstFiles : listed[f] = "live" } IN
  /\ status \in { "COMPLETED", "FAILED" } =>
       \A f \in first : stage[f] \in TerminalStages
  /\ status = "FAILED" => \A f \in first : stage[f] = "FAILED"
  /\ status = "READY" => \A f \in first : stage[f] \in SettledStages
  /\ status \in { "COLLECTING", "READY" } => ~converted
  /\ status \in { "CONVERTING", "COMPLETED", "FAILED" } => converted

-----------------------------------------------------------------------------
\* docs/backend-infrastructure-execution-plan.md:2658 - "if every file in the
\* request is terminal -> request.status = COMPLETED": a converted request whose
\* files have all ended, with nothing in progress, says so.  But convert writes
\* CONVERTING over files that have already ended, and of two refreshes each may
\* miss the file of the other.
EndedRequestSaysSo ==
  LET live == { f \in Files : listed[f] = "live" } IN
  /\ converted
  /\ status # "PAUSED"
  /\ \A s \in Txns : txn[s] = Idle
  /\ live # {}
  /\ \A f \in live : stage[f] \in TerminalStages
  => status \in { "COMPLETED", "FAILED" }

=============================================================================
