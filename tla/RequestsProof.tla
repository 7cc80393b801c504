---------------------------- MODULE RequestsProof ---------------------------
(***************************************************************************)
(* The proofs about a request: requests.status never claims more than the  *)
(* files do, and what an edit of its shapes reaches, in any order of the   *)
(* answers.                                                                *)
(*                                                                         *)
(* Counts are old when they are written, but what they say of a file that  *)
(* has ended, or that has its shape before Convert, cannot become false:   *)
(* files only go on (Onward).  So each open refresh is still right about   *)
(* the files it counted (TxnHolds).                                        *)
(***************************************************************************)
EXTENDS RequestStatus, Review, FiniteSetTheorems, TLAPS

\* A refreshing transaction that has moved the row of f to stage "to" has taken
\* a step of the file's life, and it stays one while the row is locked.
StepTo(f, to) ==
  \/ listed[f] = "absent" /\ to = "UPLOADING"
  \/ /\ listed[f] # "absent"
     /\ \/ to = "FAILED"
        \/ stage[f] = "INSPECTING" /\ to \in { "SCHEMA_READY", "CONVERTING" }
        \/ stage[f] = "SCHEMA_READY" /\ to = "CONVERTING" /\ converted
        \/ stage[f] = "CONVERTING" /\ to = "COMPLETED"

\* The stage of f once transaction s has committed.
StageAfter(s, f) == IF f \in txn[s].files THEN txn[s].to ELSE stage[f]

\* What transaction s has locked is as it was, and what it has counted is still
\* true of the first files.
TxnHolds(s) ==
  /\ txn[s].phase = "refreshing" =>
       /\ \A f \in txn[s].files : StepTo(f, txn[s].to)
       /\ \A f \in FirstFiles : listed[f] = "live" =>
            /\ txn[s].view.terminal => StageAfter(s, f) \in TerminalStages
            /\ txn[s].view.failed => StageAfter(s, f) = "FAILED"
            /\ txn[s].view.settled /\ ~converted => StageAfter(s, f) \in SettledStages
  /\ txn[s].phase = "moving" =>
       \A f \in txn[s].files : stage[f] = "SCHEMA_READY" /\ listed[f] # "absent"

StatusInv ==
  /\ TypeOK
  /\ \A f \in FirstFiles : listed[f] # "absent"
  /\ \A s \in Txns : TxnHolds(s)
  /\ StatusNeverAhead

\* A file that has ended stays so, a failed one failed, and one that has its
\* shape keeps it until the request is converted.
Onward(f) ==
  /\ stage[f] \in TerminalStages => stage'[f] \in TerminalStages
  /\ stage[f] = "FAILED" => stage'[f] = "FAILED"
  /\ stage[f] \in SettledStages /\ ~converted' => stage'[f] \in SettledStages
  /\ listed'[f] = "live" => listed[f] = "live"

-----------------------------------------------------------------------------
\* The fields of an open transaction.
LEMMA Phases ==
  ASSUME TypeOK, NEW s \in Txns
  PROVE  /\ txn[s].files \subseteq Files
         /\ txn[s].phase \in { "idle", "owing", "refreshing", "gated", "moving" }
         /\ txn[s].phase = "idle" => txn[s] = Idle
         /\ txn[s].phase = "owing" => txn[s] = Owing
         /\ txn[s].phase = "refreshing" =>
              txn[s].to \in FileStages /\ txn[s].view \in Views
<1>1. txn[s] \in {Idle} \cup OpenTxn
  BY DEF TypeOK
<1> QED
  BY <1>1 DEF OpenTxn, Idle, Owing

\* Writing a set of rows, one at a time.
LEMMA WithFacts ==
  ASSUME TypeOK, NEW files \in SUBSET Files, NEW to \in FileStages
  PROVE  /\ StageWith(files, to) \in [ Files -> FileStages ]
         /\ ListedWith(files) \in [ Files -> { "absent", "live", "discarded" } ]
         /\ \A f \in Files :
              /\ StageWith(files, to)[f] = IF f \in files THEN to ELSE stage[f]
              /\ ListedWith(files)[f] =
                   IF f \in files /\ listed[f] = "absent" THEN "live" ELSE listed[f]
BY DEF StageWith, ListedWith, TypeOK

\* A transaction that begins to refresh has counted the files as they are.
LEMMA CountsFacts ==
  ASSUME TypeOK, NEW files \in SUBSET Files, NEW to \in FileStages
  PROVE  /\ Counts(files, to) \in Views
         /\ \A f \in Files : listed[f] = "live" =>
              LET st == IF f \in files THEN to ELSE stage[f] IN
              /\ Counts(files, to).terminal => st \in TerminalStages
              /\ Counts(files, to).failed => st = "FAILED"
              /\ Counts(files, to).settled => st \in SettledStages
<1> SUFFICES ASSUME NEW f \in Files, listed[f] = "live",
                    NEW st, st = IF f \in files THEN to ELSE stage[f]
             PROVE  /\ Counts(files, to) \in Views
                    /\ Counts(files, to).terminal => st \in TerminalStages
                    /\ Counts(files, to).failed => st = "FAILED"
                    /\ Counts(files, to).settled => st \in SettledStages
  BY DEF Counts, Views
<1>1. StageWith(files, to)[f] = st /\ ListedWith(files)[f] = "live"
  BY WithFacts
<1> QED
  BY <1>1 DEF Counts, Views

\* A transaction that this step neither ends nor disturbs holds what it held.
LEMMA OthersHold ==
  ASSUME TypeOK, NEW s \in Txns, TxnHolds(s), txn'[s] = txn[s],
         converted => converted',
         \A f \in FirstFiles : Onward(f),
         \A f \in txn[s].files : stage'[f] = stage[f] /\ listed'[f] = listed[f]
  PROVE  TxnHolds(s)'
<1>1. ASSUME txn[s].phase = "refreshing"
      PROVE  \A f \in txn[s].files : StepTo(f, txn[s].to)'
  BY <1>1, Phases DEF TxnHolds, StepTo
<1>2. ASSUME txn[s].phase = "refreshing", NEW f \in FirstFiles, listed'[f] = "live"
      PROVE  /\ txn[s].view.terminal => StageAfter(s, f)' \in TerminalStages
             /\ txn[s].view.failed => StageAfter(s, f)' = "FAILED"
             /\ txn[s].view.settled /\ ~converted' =>
                  StageAfter(s, f)' \in SettledStages
  <2>1. listed[f] = "live" /\ (~converted' => ~converted)
    BY <1>2 DEF Onward
  <2>2. CASE f \in txn[s].files
    BY <1>2, <2>1, <2>2 DEF TxnHolds, StageAfter
  <2>3. CASE f \notin txn[s].files
    BY <1>2, <2>1, <2>3 DEF TxnHolds, StageAfter, Onward
  <2> QED
    BY <2>2, <2>3
<1> QED
  BY <1>1, <1>2 DEF TxnHolds

\* A step that changes one transaction and no row.
LEMMA TxnStep ==
  ASSUME StatusInv, NEW s \in Txns, NEW t,
         UNCHANGED << stage, listed, status, converted >>,
         txn' = [ txn EXCEPT ![s] = t ],
         t \in {Idle} \cup OpenTxn,
         \A u \in Txns : u = s \/ t.files \cap txn[u].files = {},
         TxnHolds(s)'
  PROVE  StatusInv'
<1>1. TypeOK'
  BY DEF StatusInv, TypeOK
<1>2. \A u \in Txns : u # s => TxnHolds(u)'
  BY OthersHold DEF StatusInv, Onward, TypeOK
<1> QED
  BY <1>1, <1>2 DEF StatusInv, StatusNeverAhead

\* A transaction that begins to refresh.
LEMMA RefreshBegins ==
  ASSUME StatusInv, NEW s \in Txns, NEW files \in SUBSET Files, NEW to \in FileStages,
         BeginRefresh(s, files, to),
         \A f \in files : Free(f) /\ StepTo(f, to)
  PROVE  StatusInv'
<1> DEFINE v == Counts(files, to)
           t == [ phase |-> "refreshing", files |-> files, to |-> to, view |-> v ]
<1>1. UNCHANGED << stage, listed, status, converted >>
      /\ txn' = [ txn EXCEPT ![s] = t ]
  BY DEF BeginRefresh
<1>2. v \in Views
  BY CountsFacts DEF StatusInv
<1>3. /\ t \in {Idle} \cup OpenTxn /\ t.phase = "refreshing"
      /\ t.files = files /\ t.to = to /\ t.view = v
  BY <1>2 DEF OpenTxn
<1>4. \A u \in Txns : t.files \cap txn[u].files = {}
  BY <1>3 DEF Free
<1>5. ASSUME NEW f \in FirstFiles, listed[f] = "live"
      PROVE  LET st == IF f \in files THEN to ELSE stage[f] IN
             /\ v.terminal => st \in TerminalStages
             /\ v.failed => st = "FAILED"
             /\ v.settled => st \in SettledStages
  <2>1. f \in Files
    BY StatusAssumption
  <2> QED
    BY <1>5, <2>1, CountsFacts DEF StatusInv
<1> HIDE DEF v, t
<1>6. txn'[s] = t
  BY <1>1 DEF StatusInv, TypeOK
<1>7. TxnHolds(s)'
  BY <1>1, <1>3, <1>5, <1>6 DEF TxnHolds, StageAfter, StepTo
<1> QED
  BY <1>1, <1>3, <1>4, <1>7, TxnStep

\* The status stays right while files go on and it stays what it is, or the
\* request is paused.
LEMMA StatusKept ==
  ASSUME StatusInv, \A f \in FirstFiles : Onward(f), UNCHANGED converted,
         status' = status \/ status' = "PAUSED"
  PROVE  StatusNeverAhead'
<1>1. CASE status' = "PAUSED"
  BY <1>1 DEF StatusNeverAhead
<1>2. CASE status' = status
  BY <1>2 DEF StatusInv, StatusNeverAhead, Onward
<1> QED
  BY <1>1, <1>2

\* A step that moves one file nobody has locked, outside a refresh.
LEMMA RowStep ==
  ASSUME StatusInv, NEW f \in Files, NEW to \in FileStages, SetStage(f, to),
         Onward(f), status' = status \/ status' = "PAUSED",
         UNCHANGED txn \/ \E s \in Txns : /\ txn[s].files = {}
                                         /\ txn' = [ txn EXCEPT ![s] = Owing ]
  PROVE  StatusInv'
<1>1. /\ \A g \in Files : stage'[g] = IF g = f THEN to ELSE stage[g]
      /\ listed[f] # "absent" /\ Free(f) /\ UNCHANGED << listed, converted >>
  BY DEF SetStage, Row, StatusInv, TypeOK
<1>2. \A g \in FirstFiles : Onward(g)
  BY <1>1, StatusAssumption DEF Onward
<1>3. \A s \in Txns : txn'[s] = txn[s] \/ (txn'[s] = Owing /\ txn[s].files = {})
  BY DEF StatusInv, TypeOK
<1>4. TypeOK'
  <2>1. txn' \in [ Txns -> {Idle} \cup OpenTxn ]
    BY DEF StatusInv, TypeOK, OpenTxn
  <2>2. \A s \in Txns : txn'[s].files = txn[s].files
    BY <1>3 DEF Owing
  <2>3. stage' \in [ Files -> FileStages ] /\ status' \in RequestStatuses
    BY DEF SetStage, StatusInv, TypeOK, RequestStatuses
  <2> QED
    BY <1>1, <2>1, <2>2, <2>3 DEF StatusInv, TypeOK
<1>5. \A s \in Txns : TxnHolds(s)'
  <2> SUFFICES ASSUME NEW s \in Txns PROVE TxnHolds(s)'
    OBVIOUS
  <2>1. CASE txn'[s] = txn[s]
    <3>1. \A g \in txn[s].files : stage'[g] = stage[g] /\ listed'[g] = listed[g]
      BY <1>1, Phases DEF Free, StatusInv
    <3> QED
      BY <1>1, <1>2, <2>1, <3>1, OthersHold DEF StatusInv
  <2>2. CASE txn'[s] = Owing
    BY <2>2 DEF TxnHolds, Owing
  <2> QED
    BY <1>3, <2>1, <2>2
<1> QED
  BY <1>1, <1>2, <1>4, <1>5, StatusKept DEF StatusInv

\* A refresh commits: its own files go on, its counts are right about the first
\* files, and the latest converted_at decides.
LEMMA CommitKeeps ==
  ASSUME StatusInv, NEW s \in Txns, Commit(s)
  PROVE  StatusInv'
<1> DEFINE files == txn[s].files
           to    == txn[s].to
<1>1. /\ txn[s].phase = "refreshing" /\ UNCHANGED converted
      /\ files \in SUBSET Files /\ to \in FileStages /\ TxnHolds(s)
  BY Phases DEF Commit, StatusInv
<1>2. \A f \in files : StepTo(f, to)
  BY <1>1 DEF TxnHolds
<1>3. /\ stage' \in [ Files -> FileStages ]
      /\ listed' \in [ Files -> { "absent", "live", "discarded" } ]
      /\ \A f \in Files :
           /\ stage'[f] = StageAfter(s, f)
           /\ listed'[f] =
                IF f \in files /\ listed[f] = "absent" THEN "live" ELSE listed[f]
  BY <1>1, WithFacts DEF Commit, StatusInv, StageAfter
<1>4. \A f \in FirstFiles : /\ f \in Files
                            /\ listed'[f] = listed[f]
                            /\ listed[f] # "absent"
  BY <1>3, StatusAssumption DEF StatusInv
<1>5. \A f \in FirstFiles : Onward(f)
  BY <1>1, <1>2, <1>3, <1>4
     DEF Onward, StageAfter, StepTo, TerminalStages, SettledStages
<1>6. /\ txn'[s] = Idle
      /\ \A u \in Txns : u # s => txn'[u] = txn[u] /\ files \cap txn[u].files = {}
  BY DEF Commit, StatusInv, TypeOK
<1>7. TypeOK'
  <2>1. status' \in RequestStatuses
    BY DEF Commit, StatusFrom, StatusInv, TypeOK, RequestStatuses
  <2>2. txn' \in [ Txns -> {Idle} \cup OpenTxn ]
    BY DEF Commit, StatusInv, TypeOK
  <2>3. \A u, w \in Txns : u = w \/ txn'[u].files \cap txn'[w].files = {}
    BY <1>6 DEF StatusInv, TypeOK, Idle
  <2>4. \A f \in Files : listed'[f] = "absent" => stage'[f] = "UPLOADING"
    BY <1>3 DEF StatusInv, TypeOK, StageAfter
  <2> QED
    BY <1>1, <1>3, <2>1, <2>2, <2>3, <2>4 DEF StatusInv, TypeOK
<1>8. \A u \in Txns : TxnHolds(u)'
  <2>1. TxnHolds(s)'
    BY <1>6 DEF TxnHolds, Idle
  <2>2. ASSUME NEW u \in Txns, u # s
        PROVE  TxnHolds(u)'
    <3>1. \A f \in txn[u].files : stage'[f] = stage[f] /\ listed'[f] = listed[f]
      BY <1>3, <1>6, <2>2, Phases DEF StageAfter, StatusInv
    <3> QED
      BY <1>1, <1>5, <1>6, <2>2, <3>1, OthersHold DEF StatusInv
  <2> QED
    BY <2>1, <2>2
<1>9. StatusNeverAhead'
  <2>1. CASE status = "PAUSED"
    BY <1>1, <1>5, <2>1, StatusKept DEF Commit
  <2>2. CASE status # "PAUSED"
    <3> DEFINE v == txn[s].view
    <3>1. status' = StatusFrom(v)
      BY <2>2 DEF Commit
    <3>2. \A f \in FirstFiles : listed'[f] = "live" =>
            /\ v.terminal => stage'[f] \in TerminalStages
            /\ v.failed => stage'[f] = "FAILED"
            /\ v.settled /\ ~converted => stage'[f] \in SettledStages
      BY <1>1, <1>3, <1>4 DEF TxnHolds
    <3> HIDE DEF v
    <3> QED
      BY <1>1, <3>1, <3>2 DEF StatusFrom, StatusNeverAhead, StatusInv, TypeOK
  <2> QED
    BY <2>1, <2>2
<1> QED
  BY <1>4, <1>7, <1>8, <1>9 DEF StatusInv

\* Convert commits: it moves files that have their shape, and only says that the
\* request is converting.
LEMMA ConvertCommitKeeps ==
  ASSUME StatusInv, NEW s \in Txns, ConvertCommit(s)
  PROVE  StatusInv'
<1> DEFINE files == txn[s].files
<1>1. /\ txn[s].phase = "moving" /\ UNCHANGED listed /\ converted' = TRUE
      /\ status' = "CONVERTING" /\ files \in SUBSET Files /\ TxnHolds(s)
  BY Phases DEF ConvertCommit, StatusInv
<1>2. /\ stage' \in [ Files -> FileStages ]
      /\ \A f \in Files :
           stage'[f] = IF f \in files THEN "CONVERTING" ELSE stage[f]
  BY <1>1, WithFacts DEF ConvertCommit, StatusInv, FileStages
<1>3. \A f \in files : stage[f] = "SCHEMA_READY" /\ listed[f] # "absent"
  BY <1>1 DEF TxnHolds
<1>4. \A f \in FirstFiles : Onward(f)
  BY <1>1, <1>2, <1>3, StatusAssumption DEF Onward, TerminalStages
<1>5. /\ txn'[s] = Idle
      /\ \A u \in Txns : u # s => txn'[u] = txn[u] /\ files \cap txn[u].files = {}
  BY DEF ConvertCommit, StatusInv, TypeOK
<1>6. TypeOK'
  <2>1. txn' \in [ Txns -> {Idle} \cup OpenTxn ]
    BY DEF ConvertCommit, StatusInv, TypeOK
  <2>2. \A u, w \in Txns : u = w \/ txn'[u].files \cap txn'[w].files = {}
    BY <1>5 DEF StatusInv, TypeOK, Idle
  <2> QED
    BY <1>1, <1>2, <1>3, <2>1, <2>2 DEF StatusInv, TypeOK, RequestStatuses
<1>7. \A u \in Txns : TxnHolds(u)'
  <2>1. TxnHolds(s)'
    BY <1>5 DEF TxnHolds, Idle
  <2>2. ASSUME NEW u \in Txns, u # s
        PROVE  TxnHolds(u)'
    <3>1. \A f \in txn[u].files : stage'[f] = stage[f] /\ listed'[f] = listed[f]
      BY <1>1, <1>2, <1>5, <2>2, Phases DEF StatusInv
    <3> QED
      BY <1>1, <1>4, <1>5, <2>2, <3>1, OthersHold DEF StatusInv
  <2> QED
    BY <2>1, <2>2
<1> QED
  BY <1>1, <1>6, <1>7 DEF StatusInv, StatusNeverAhead

\* Transactions that refresh, from beginning to end.
LEMMA RefreshingKeeps ==
  ASSUME StatusInv, NEW s \in Txns, Refreshing(s)
  PROVE  StatusInv'
<1>1. ASSUME NEW f \in Files, BeginLanding(s, f)
      PROVE  StatusInv'
  <2> DEFINE to == IF converted THEN "CONVERTING" ELSE "SCHEMA_READY"
  <2>1. to \in FileStages /\ StepTo(f, to) /\ Free(f)
    BY <1>1 DEF BeginLanding, Row, StepTo, FileStages
  <2>2. BeginRefresh(s, {f}, to)
    BY <1>1 DEF BeginLanding
  <2> HIDE DEF to
  <2> QED
    BY <2>1, <2>2, RefreshBegins
<1>2. ASSUME NEW f \in Files, BeginLateChain(s, f)
      PROVE  StatusInv'
  <2>1. StepTo(f, "CONVERTING") /\ Free(f) /\ BeginRefresh(s, {f}, "CONVERTING")
    BY <1>2 DEF BeginLateChain, Row, StepTo
  <2> QED
    BY <2>1, RefreshBegins DEF FileStages
<1>3. ASSUME NEW f \in Files, BeginCompletion(s, f)
      PROVE  StatusInv'
  <2>1. StepTo(f, "COMPLETED") /\ Free(f) /\ BeginRefresh(s, {f}, "COMPLETED")
    BY <1>3 DEF BeginCompletion, Row, StepTo
  <2> QED
    BY <2>1, RefreshBegins DEF FileStages
<1>4. ASSUME NEW f \in Files, BeginFailure(s, f)
      PROVE  StatusInv'
  <2>1. StepTo(f, "FAILED") /\ Free(f) /\ BeginRefresh(s, {f}, "FAILED")
    BY <1>4 DEF BeginFailure, Row, StepTo
  <2> QED
    BY <2>1, RefreshBegins DEF FileStages
<1>5. ASSUME NEW f \in Files, BeginCreate(s, f)
      PROVE  StatusInv'
  <2>1. StepTo(f, "UPLOADING") /\ Free(f) /\ BeginRefresh(s, {f}, "UPLOADING")
    BY <1>5 DEF BeginCreate, StepTo
  <2> QED
    BY <2>1, RefreshBegins DEF FileStages
<1>6. ASSUME NEW f \in Files, Confirmed(s, f)
      PROVE  StatusInv'
  <2>1. PICK to \in { "UPLOADED", "FAILED" } : SetStage(f, to)
    BY <1>6 DEF Confirmed
  <2>2. txn[s].files = {} /\ txn' = [ txn EXCEPT ![s] = Owing ]
    BY <1>6 DEF Confirmed, Idle, Owing
  <2>3. Onward(f)
    BY <1>6, <2>1 DEF Confirmed, Onward, SetStage, TerminalStages, SettledStages
  <2> QED
    BY <1>6, <2>1, <2>2, <2>3, RowStep DEF Confirmed, FileStages
<1>7. CASE BeginNothing(s)
  BY <1>7, RefreshBegins DEF BeginNothing, FileStages
<1>8. CASE Commit(s)
  BY <1>8, CommitKeeps
<1>9. CASE Rollback(s)
  <2>1. /\ UNCHANGED << stage, listed, status, converted >>
        /\ txn' = [ txn EXCEPT ![s] = Idle ] /\ txn'[s] = Idle
    BY <1>9 DEF Rollback, StatusInv, TypeOK
  <2>2. TxnHolds(s)' /\ Idle.files = {}
    BY <2>1 DEF TxnHolds, Idle
  <2> QED
    BY <2>1, <2>2, TxnStep
<1> QED
  BY <1>1, <1>2, <1>3, <1>4, <1>5, <1>6, <1>7, <1>8, <1>9 DEF Refreshing

\* The steps of convert.
LEMMA ConvertingKeeps ==
  ASSUME StatusInv, NEW s \in Txns, Converting(s)
  PROVE  StatusInv'
<1>1. CASE ConvertGate(s)
  <2> DEFINE t == [ phase |-> "gated", files |-> {} ]
  <2>1. UNCHANGED << stage, listed, status, converted >>
        /\ txn' = [ txn EXCEPT ![s] = t ]
    BY <1>1 DEF ConvertGate
  <2>2. t \in OpenTxn /\ t.files = {} /\ t.phase = "gated"
    BY DEF OpenTxn
  <2> HIDE DEF t
  <2>3. TxnHolds(s)'
    BY <2>1, <2>2 DEF TxnHolds, StatusInv, TypeOK
  <2> QED
    BY <2>1, <2>2, <2>3, TxnStep
<1>2. CASE ConvertMove(s)
  <2> DEFINE ready == { f \in Files : listed[f] # "absent" /\ stage[f] = "SCHEMA_READY" }
             t == [ phase |-> "moving", files |-> ready ]
  <2>1. /\ UNCHANGED << stage, listed, status, converted >>
        /\ txn' = [ txn EXCEPT ![s] = t ]
        /\ \A f \in ready : Free(f)
    BY <1>2 DEF ConvertMove
  <2>2. t \in OpenTxn /\ t.files = ready /\ t.phase = "moving"
    BY DEF OpenTxn
  <2>3. \A u \in Txns : t.files \cap txn[u].files = {}
    BY <2>1, <2>2 DEF Free
  <2>4. \A f \in t.files : stage[f] = "SCHEMA_READY" /\ listed[f] # "absent"
    BY <2>2
  <2> HIDE DEF ready, t
  <2>5. TxnHolds(s)'
    BY <2>1, <2>2, <2>4 DEF TxnHolds, StatusInv, TypeOK
  <2> QED
    BY <2>1, <2>2, <2>3, <2>5, TxnStep
<1>3. CASE ConvertCommit(s)
  BY <1>3, ConvertCommitKeeps
<1> QED
  BY <1>1, <1>2, <1>3 DEF Converting

\* Changes without a refresh: they take a file on, or hide it.
LEMMA QuietlyKeeps ==
  ASSUME StatusInv, NEW f \in Files, Quietly(f)
  PROVE  StatusInv'
<1>1. ASSUME NEW to \in FileStages, SetStage(f, to), UNCHANGED txn,
             status' = status \/ status' = "PAUSED",
             \/ to = "FAILED"
             \/ stage[f] \notin { "SCHEMA_READY", "COMPLETED", "FAILED" }
      PROVE  StatusInv'
  <2>1. Onward(f)
    BY <1>1 DEF Onward, SetStage, TerminalStages, SettledStages, StatusInv, TypeOK
  <2> QED
    BY <1>1, <2>1, RowStep
<1>2. CASE Claimed(f)
  BY <1>1, <1>2 DEF Claimed, FileStages
<1>3. CASE GivenBack(f)
  BY <1>1, <1>3 DEF GivenBack, FileStages
<1>4. CASE SweepFails(f)
  BY <1>1, <1>4 DEF SweepFails, FileStages
<1>5. CASE OutboxRowDies(f)
  BY <1>1, <1>5 DEF OutboxRowDies, FileStages
<1>6. CASE Pause(f)
  BY <1>1, <1>6 DEF Pause, FileStages
<1>7. CASE Discard(f)
  <2>1. /\ UNCHANGED << stage, status, converted, txn >> /\ Free(f)
        /\ listed[f] = "live"
        /\ \A g \in Files :
             listed'[g] = IF g = f THEN "discarded" ELSE listed[g]
    BY <1>7 DEF Discard, StatusInv, TypeOK
  <2>2. \A g \in FirstFiles : Onward(g) /\ listed'[g] # "absent"
    BY <2>1, StatusAssumption DEF Onward, StatusInv
  <2>3. TypeOK'
    BY <1>7, <2>1 DEF Discard, StatusInv, TypeOK
  <2>4. ASSUME NEW s \in Txns
        PROVE  TxnHolds(s)'
    <3>1. \A g \in txn[s].files : stage'[g] = stage[g] /\ listed'[g] = listed[g]
      BY <2>1, Phases DEF Free, StatusInv
    <3> QED
      BY <2>1, <2>2, <3>1, OthersHold DEF StatusInv
  <2> QED
    BY <2>1, <2>2, <2>3, <2>4, StatusKept DEF StatusInv
<1> QED
  BY <1>2, <1>3, <1>4, <1>5, <1>6, <1>7 DEF Quietly

\* The invariant of the whole specification.
LEMMA StatusInvariant == Spec => []StatusInv
<1>1. Init => StatusInv
  <2> SUFFICES ASSUME Init PROVE StatusInv
    OBVIOUS
  <2>1. TypeOK
    BY DEF Init, TypeOK, FileStages, RequestStatuses, Idle
  <2>2. \A s \in Txns : TxnHolds(s)
    BY DEF Init, TxnHolds, Idle
  <2> QED
    BY <2>1, <2>2, StatusAssumption DEF Init, StatusInv, StatusNeverAhead
<1>2. StatusInv /\ [Next]_vars => StatusInv'
  <2> SUFFICES ASSUME StatusInv, [Next]_vars PROVE StatusInv'
    OBVIOUS
  <2>1. CASE UNCHANGED vars
    BY <2>1 DEF vars, StatusInv, TypeOK, TxnHolds, StepTo, StageAfter, StatusNeverAhead
  <2>2. CASE Resume
    <3>1. /\ UNCHANGED << stage, listed, converted, txn >>
          /\ status' = IF converted THEN "CONVERTING" ELSE "COLLECTING"
      BY <2>2 DEF Resume
    <3>2. TypeOK' /\ StatusNeverAhead'
      BY <3>1 DEF StatusInv, TypeOK, RequestStatuses, StatusNeverAhead
    <3>3. \A s \in Txns : TxnHolds(s)'
      BY <3>1 DEF StatusInv, TxnHolds, StepTo, StageAfter
    <3> QED
      BY <3>1, <3>2, <3>3 DEF StatusInv
  <2>3. CASE Next /\ ~Resume
    BY <2>3, RefreshingKeeps, ConvertingKeeps, QuietlyKeeps DEF Next
  <2> QED
    BY <2>1, <2>2, <2>3
<1> QED
  BY <1>1, <1>2, PTL DEF Spec

\* Rows, transactions and the request keep their types, no two transactions write
\* one row, and a file has no stage before it has a row.
THEOREM StatusTypes == Spec => []TypeOK
<1>1. StatusInv => TypeOK
  BY DEF StatusInv
<1> QED
  BY <1>1, StatusInvariant, PTL

\* The status never claims more than the files do, for any number of files and of
\* transactions in progress: however late it is written, a refresh says nothing
\* of the files it counted that has become false since.
THEOREM StatusIsNeverAhead == Spec => []StatusNeverAhead
<1>1. StatusInv => StatusNeverAhead
  BY DEF StatusInv
<1> QED
  BY <1>1, StatusInvariant, PTL

-----------------------------------------------------------------------------
(***************************************************************************)
(* The review of a request's shapes.  What a tab knows of a table is of a  *)
(* version the server had, and the server's fields if it is the last       *)
(* (Knows); a draft keeps the keys of what it was begun from (GoodEdit),   *)
(* and so does every write that is on its way (SaveHolds).                 *)
(***************************************************************************)
FieldSets == UNION {[ks -> Field] : ks \in SUBSET Keys}
EditRow == [on : Tables \cup {None}, baseline : FieldSets, draft : FieldSets, picking : BOOLEAN,
            done : {None} \cup [kind : {"save", "update"}, fields : FieldSets]]
TabRow == [held : Seq(Tables), current : [Tables -> FieldSets], version : [Tables -> Nat],
           picked : Tables \cup {None}, dismissed : BOOLEAN, edit : EditRow, chosen : SUBSET Tables,
           busy : BOOLEAN, frozen : BOOLEAN]
SaveRow == [by : Tabs \cup {None}, heard : BOOLEAN,
            at : {"idle", "sent", "passed", "written", "refused"}, kind : {"save", "update"},
            from : EditRow, others : SUBSET Tables,
            versions : UNION {[ts -> Nat] : ts \in SUBSET Tables},
            seen : UNION {[ts -> SUBSET Keys] : ts \in SUBSET Tables}]

GoodEdit(e) ==
    /\ e \in EditRow
    /\ e.on \in Tables => /\ DOMAIN Detected[e.on] \subseteq DOMAIN e.draft
                          /\ DOMAIN e.baseline \subseteq DOMAIN e.draft

\* What is known of table u as its fields fs of version v.
Knows(u, fs, v) ==
    /\ v <= version[u]
    /\ v > 0 => DOMAIN Detected[u] \subseteq DOMAIN fs
    /\ v = version[u] => fs = fields[u]

\* The table in tab t's panel, and what is ticked beside it.
Subject(t) == IF t.picked # None THEN t.picked
              ELSE IF t.dismissed \/ t.held = <<>> THEN None
              ELSE Head(t.held)
TicksHold(t) == \A u \in t.chosen : /\ Subject(t) # None
                                    /\ Shape(Detected[u]) = Shape(Detected[Subject(t)])

TabHolds(t) ==
    /\ t \in TabRow
    /\ t.picked # None => t.picked \in ToSet(t.held)
    /\ \A u \in ToSet(t.held) : t.version[u] > 0
    /\ \A u \in Tables : Knows(u, t.current[u], t.version[u])
    /\ GoodEdit(t.edit)
    /\ TicksHold(t)

\* A write on its way may be taken, and takes nothing from a table offered with it.
SaveHolds(s) ==
    /\ s \in SaveRow
    /\ s.at = "idle" => s.by = None
    /\ s.at # "idle" =>
         /\ s.from.on \in Tables /\ GoodEdit(s.from)
         /\ \A t \in s.others : Shape(Detected[t]) = Shape(Detected[s.from.on])
         /\ \A t \in s.others \cap DOMAIN s.seen : s.seen[t] \subseteq s.seen[s.from.on]
    /\ s.at = "written" =>
         \A t \in Entries(s) : /\ s.versions[t] \in Nat \ {0}
                               /\ Knows(t, s.from.draft, s.versions[t])

TablesHold ==
    /\ fields \in [Tables -> FieldSets] /\ version \in [Tables -> Nat \ {0}]
    /\ \A t \in Tables : DOMAIN Detected[t] \subseteq DOMAIN fields[t]

ReviewInv ==
    /\ TablesHold /\ convertedAt \in BOOLEAN
    /\ tab \in [Tabs -> TabRow] /\ \A b \in Tabs : TabHolds(tab[b])
    /\ save \in [1..MaxSaves -> SaveRow] /\ \A i \in 1..MaxSaves : SaveHolds(save[i])

\* No write is taken in this step.
NoneWritten == \A i \in 1..MaxSaves : save'[i].at = "written" => save[i].at = "written"

LEMMA FieldSetFacts ==
  ASSUME NEW fs \in FieldSets
  PROVE  /\ DOMAIN fs \in SUBSET Keys /\ fs \in [DOMAIN fs -> Field] /\ Validated(fs) = fs
<1>1. PICK ks \in SUBSET Keys : fs \in [ks -> Field]
  BY DEF FieldSets
<1>2. ASSUME NEW k \in DOMAIN fs
      PROVE  fs[k] = (IF fs[k].type = "currency" THEN fs[k] ELSE Plain(fs[k].type))
  <2>1. fs[k] \in Field
    BY <1>1, <1>2
  <2>2. ASSUME NEW f \in Field, f.type # "currency" PROVE f = [type |-> f.type, code |-> None]
    BY <2>2 DEF Field
  <2> QED
    BY <2>1, <2>2 DEF Plain
<1> QED
  BY <1>1, <1>2 DEF Validated

LEMMA MakesFieldSet ==
  ASSUME NEW ks \in SUBSET Keys, NEW fs \in [ks -> Field]
  PROVE  fs \in FieldSets /\ DOMAIN fs = ks
BY DEF FieldSets

LEMMA NoFields == <<>> \in FieldSets /\ DOMAIN <<>> = {}
<1>1. <<>> \in [{} -> Field] /\ DOMAIN <<>> = {}
  OBVIOUS
<1> QED
  BY <1>1 DEF FieldSets

LEMMA DetectedFields ==
  ASSUME NEW t \in Tables
  PROVE  Detected[t] \in FieldSets
<1>1. DOMAIN Detected[t] \in SUBSET Keys
  BY DEF Keys
<1> QED
  BY <1>1, MakesFieldSet, ReviewAssumption

LEMMA ShapeKeys ==
  ASSUME NEW fs, NEW gs, Shape(fs) = Shape(gs)
  PROVE  DOMAIN fs = DOMAIN gs
<1>1. DOMAIN Shape(fs) = DOMAIN fs /\ DOMAIN Shape(gs) = DOMAIN gs
  BY DEF Shape
<1> QED
  BY <1>1

LEMMA NoEditIsGood == GoodEdit(NoEdit)
<1>1. None \notin Tables
  BY ReviewAssumption
<1> QED
  BY <1>1, NoFields DEF GoodEdit, NoEdit, EditRow

LEMMA NoSaveHolds == SaveHolds(NoSave) /\ NoSave \in SaveRow /\ NoSave.at = "idle"
<1>1. NoEdit \in EditRow
  BY NoEditIsGood DEF GoodEdit
<1>2. <<>> \in UNION {[ts -> Nat] : ts \in SUBSET Tables}
      /\ <<>> \in UNION {[ts -> SUBSET Keys] : ts \in SUBSET Tables}
  <2>1. <<>> \in [{} -> Nat] /\ <<>> \in [{} -> SUBSET Keys] /\ {} \in SUBSET Tables
    OBVIOUS
  <2>2. /\ [{} -> Nat] \in {[ts -> Nat] : ts \in SUBSET Tables}
        /\ [{} -> SUBSET Keys] \in {[ts -> SUBSET Keys] : ts \in SUBSET Tables}
    BY <2>1, Zenon
  <2> QED
    BY <2>1, <2>2
<1>3. NoSave \in SaveRow /\ NoSave.at = "idle"
  BY <1>1, <1>2 DEF NoSave, SaveRow
<1> QED
  BY <1>3 DEF SaveHolds, NoSave

\* A tab that was just opened, or reloaded, knows nothing.
LEMMA NewTabHolds ==
  ASSUME TablesHold, NEW f \in BOOLEAN
  PROVE  TabHolds([NewTab EXCEPT !.frozen = f]) /\ TabHolds(NewTab)
<1>1. ASSUME NEW t, t = NewTab \/ t = [NewTab EXCEPT !.frozen = f] PROVE TabHolds(t)
  <2>1. /\ t.held = <<>> /\ t.current = [u \in Tables |-> <<>>] /\ t.version = [u \in Tables |-> 0]
        /\ t.picked = None /\ t.edit = NoEdit /\ t.chosen = {}
    BY <1>1 DEF NewTab
  <2>2. NoEdit \in EditRow /\ <<>> \in Seq(Tables) /\ [u \in Tables |-> <<>>] \in [Tables -> FieldSets]
        /\ [u \in Tables |-> 0] \in [Tables -> Nat]
    BY NoEditIsGood, NoFields DEF GoodEdit
  <2>3. t \in TabRow
    <3>1. NewTab \in TabRow
      BY <2>2 DEF NewTab, TabRow
    <3>2. [NewTab EXCEPT !.frozen = f] \in TabRow
      BY <3>1 DEF TabRow
    <3> QED
      BY <1>1, <3>1, <3>2
  <2>4. ToSet(t.held) = {}
    BY <2>1 DEF ToSet
  <2>5. \A u \in Tables : Knows(u, t.current[u], t.version[u])
    BY <2>1 DEF Knows, TablesHold
  <2> QED
    BY <2>1, <2>3, <2>4, <2>5, NoEditIsGood DEF TabHolds, TicksHold
<1> QED
  BY <1>1

\* The table in the panel and the editor on it.
LEMMA PanelHolds ==
  ASSUME NEW b \in Tabs, TabHolds(tab[b]), TablesHold, OpenTable(b) # None
  PROVE  /\ OpenTable(b) \in ToSet(tab[b].held) /\ OpenTable(b) \in Tables
         /\ GoodEdit(Edit(b)) /\ Edit(b).on = OpenTable(b)
<1> DEFINE t == OpenTable(b)
           e == tab[b].edit
<1>1. /\ tab[b].held \in Seq(Tables) /\ tab[b].current \in [Tables -> FieldSets] /\ e \in EditRow
      /\ GoodEdit(e)
  BY DEF TabHolds, TabRow
<1>2. t \in ToSet(tab[b].held)
  <2>1. CASE tab[b].picked # None
    BY <2>1 DEF OpenTable, TabHolds
  <2>2. CASE tab[b].picked = None
    <3>1. t = tab[b].held[1] /\ tab[b].held # <<>>
      BY <1>1, <2>2 DEF OpenTable
    <3>2. 1 \in DOMAIN tab[b].held
      BY <1>1, <3>1
    <3> QED
      BY <3>1, <3>2 DEF ToSet
  <2> QED
    BY <2>1, <2>2
<1>3. t \in Tables
  BY <1>1, <1>2 DEF ToSet
<1>4. DOMAIN Detected[t] \subseteq DOMAIN tab[b].current[t] /\ tab[b].current[t] \in FieldSets
  <2>1. tab[b].version[t] > 0 /\ Knows(t, tab[b].current[t], tab[b].version[t])
    BY <1>2, <1>3 DEF TabHolds
  <2> QED
    BY <1>1, <1>3, <2>1 DEF Knows
<1> HIDE DEF t
<1>5. CASE e.on = t
  <2>1. Edit(b) = e
    BY <1>5 DEF Edit, t
  <2> QED
    BY <1>1, <1>2, <1>3, <1>5, <2>1 DEF t
<1>6. CASE e.on # t /\ CarriesOver(e, tab[b].current[t])
  <2> DEFINE n == [e EXCEPT !.on = t, !.picking = FALSE, !.done = None]
  <2>1. Edit(b) = n
    BY <1>6 DEF Edit, t
  <2>2. e.on \in Tables /\ tab[b].current[t] = e.baseline
    BY <1>1, <1>6 DEF CarriesOver, EditRow
  <2>3. n \in EditRow /\ n.on = t /\ n.draft = e.draft /\ n.baseline = e.baseline
    BY <1>1, <1>3 DEF EditRow
  <2> HIDE DEF n
  <2>4. GoodEdit(n)
    BY <1>1, <1>4, <2>2, <2>3 DEF GoodEdit
  <2> QED
    BY <1>2, <1>3, <2>1, <2>3, <2>4 DEF t
<1>7. CASE e.on # t /\ ~CarriesOver(e, tab[b].current[t])
  <2> DEFINE c == tab[b].current[t]
             n == [NoEdit EXCEPT !.on = t, !.baseline = c, !.draft = c]
  <2>1. Edit(b) = n
    BY <1>7 DEF Edit, t
  <2>2. NoEdit \in EditRow /\ c \in FieldSets
    BY <1>4, NoEditIsGood DEF GoodEdit
  <2>3. n \in EditRow /\ n.on = t /\ n.draft = c /\ n.baseline = c
    BY <1>3, <2>2 DEF EditRow
  <2> HIDE DEF n
  <2>4. GoodEdit(n)
    BY <1>4, <2>3 DEF GoodEdit
  <2> QED
    BY <1>2, <1>3, <2>1, <2>3, <2>4 DEF t
<1> QED
  BY <1>2, <1>3, <1>5, <1>6, <1>7 DEF t

\* A tab that changes its panel alone knows what it knew.
LEMMA PanelMoves ==
  ASSUME NEW t, TabHolds(t), NEW r \in TabRow, r.held = t.held, r.current = t.current,
         r.version = t.version, GoodEdit(r.edit),
         r.picked = t.picked \/ r.picked = None \/ r.picked \in ToSet(r.held),
         r.chosen = {} \/ (r.chosen = t.chosen /\ r.picked = t.picked /\ r.dismissed = t.dismissed)
  PROVE  TabHolds(r)
<1>1. TicksHold(r)
  BY DEF TabHolds, TicksHold, Subject
<1> QED
  BY <1>1 DEF TabHolds

\* A write that only its asker has forgotten, or that is gone, holds what it held.
LEMMA Forgotten ==
  ASSUME NEW s, SaveHolds(s), NEW r \in SaveRow, r.by \in {s.by, None}, r.at = s.at, r.from = s.from, r.others = s.others,
         r.versions = s.versions, r.seen = s.seen
  PROVE  SaveHolds(r)
BY DEF SaveHolds, Entries

\* While the server's tables stay, tabs and writes hold what they held.
LEMMA ServerStays ==
  ASSUME ReviewInv, UNCHANGED <<fields, version>>, convertedAt' \in BOOLEAN,
         tab' \in [Tabs -> TabRow], \A b \in Tabs : TabHolds(tab'[b]),
         save' \in [1..MaxSaves -> SaveRow], \A i \in 1..MaxSaves : SaveHolds(save'[i])
  PROVE  ReviewInv'
<1>1. TablesHold'
  BY DEF ReviewInv, TablesHold
<1>2. ASSUME NEW b \in Tabs PROVE TabHolds(tab[b])'
  <2>1. TabHolds(tab'[b])
    OBVIOUS
  <2> QED
    BY <2>1 DEF TabHolds, Knows
<1>3. ASSUME NEW i \in 1..MaxSaves PROVE SaveHolds(save[i])'
  <2>1. SaveHolds(save'[i])
    OBVIOUS
  <2> QED
    BY <2>1 DEF SaveHolds, Knows
<1> QED
  BY <1>1, <1>2, <1>3 DEF ReviewInv

\* One tab changes.
LEMMA OneTab ==
  ASSUME ReviewInv, NEW b \in Tabs, NEW t, TabHolds(t), tab' = [tab EXCEPT ![b] = t]
  PROVE  tab' \in [Tabs -> TabRow] /\ \A c \in Tabs : TabHolds(tab'[c])
<1>1. t \in TabRow
  BY DEF TabHolds
<1> QED
  BY <1>1 DEF ReviewInv

\* One tab changes, and nothing else.
LEMMA TabMoves ==
  ASSUME ReviewInv, NEW b \in Tabs, NEW r, TabHolds(r), tab' = [tab EXCEPT ![b] = r],
         UNCHANGED <<fields, version, convertedAt, save>>
  PROVE  ReviewInv' /\ NoneWritten
<1>1. tab' \in [Tabs -> TabRow] /\ \A c \in Tabs : TabHolds(tab'[c])
  BY OneTab
<1>2. save' \in [1..MaxSaves -> SaveRow] /\ \A i \in 1..MaxSaves : SaveHolds(save'[i])
  BY DEF ReviewInv
<1> QED
  BY <1>1, <1>2, ServerStays DEF NoneWritten, ReviewInv

\* A table that is offered started from the shape of the one in the panel, and holds
\* no column that it lacks.
LEMMA TargetsAlike ==
  ASSUME ReviewInv, NEW b \in Tabs, NEW u \in Targets(b)
  PROVE  /\ u \in Tables /\ Shape(Detected[u]) = Shape(Detected[OpenTable(b)])
         /\ DOMAIN tab[b].current[u] \subseteq DOMAIN tab[b].current[OpenTable(b)]
<1>1. ToSet(tab[b].held) \subseteq Tables
  BY DEF ReviewInv, TabRow, ToSet
<1> QED
  BY <1>1 DEF Targets

LEMMA PatchKeeps ==
  ASSUME ReviewInv, NEW b \in Tabs, NEW e, GoodEdit(e), Patch(b, e), UNCHANGED <<fields, version, convertedAt, save>>
  PROVE  ReviewInv' /\ NoneWritten
<1> DEFINE t == tab[b]
           r == [t EXCEPT !.edit = e]
<1>1. t \in TabRow /\ TabHolds(t) /\ e \in EditRow
  BY DEF ReviewInv, GoodEdit
<1>2. tab' = [tab EXCEPT ![b] = r]
  BY DEF Patch
<1>3. /\ r \in TabRow /\ r.held = t.held /\ r.current = t.current /\ r.version = t.version
      /\ r.edit = e /\ r.picked = t.picked /\ r.dismissed = t.dismissed /\ r.chosen = t.chosen
  BY <1>1 DEF TabRow
<1> HIDE DEF r, t
<1>4. TabHolds(r)
  BY <1>1, <1>3, PanelMoves
<1>5. tab' \in [Tabs -> TabRow] /\ \A c \in Tabs : TabHolds(tab'[c])
  BY <1>2, <1>4, OneTab
<1>6. save' \in [1..MaxSaves -> SaveRow] /\ \A i \in 1..MaxSaves : SaveHolds(save'[i])
  BY DEF ReviewInv
<1> QED
  BY <1>5, <1>6, ServerStays DEF NoneWritten, ReviewInv

LEMMA RedraftKeeps ==
  ASSUME ReviewInv, NEW b \in Tabs, OpenTable(b) # None, NEW d \in FieldSets,
         DOMAIN Edit(b).draft \subseteq DOMAIN d, Redraft(b, d), UNCHANGED <<fields, version, convertedAt, save>>
  PROVE  ReviewInv' /\ NoneWritten
<1> DEFINE e == Edit(b)
           n == [e EXCEPT !.draft = d, !.done = None]
<1>1. GoodEdit(e) /\ e \in EditRow
  BY PanelHolds DEF ReviewInv, GoodEdit
<1>2. n \in EditRow /\ n.on = e.on /\ n.baseline = e.baseline /\ n.draft = d
  BY <1>1 DEF EditRow
<1>3. Patch(b, n)
  BY DEF Redraft
<1> HIDE DEF n
<1>4. GoodEdit(n)
  BY <1>1, <1>2 DEF GoodEdit
<1> QED
  BY <1>3, <1>4, PatchKeeps

LEMMA EditDraftKeeps ==
  ASSUME ReviewInv, NEW b \in Tabs, EditDraft(b)
  PROVE  ReviewInv' /\ NoneWritten
<1>1. PICK k \in Keys, type \in FieldTypes, code \in Codes :
        ChangeType(b, k, type) \/ ChangeCurrency(b, k, code) \/ AddField(b, k, type)
  BY DEF EditDraft
<1>2. OpenTable(b) # None /\ UNCHANGED <<fields, version, convertedAt, save>>
  BY <1>1 DEF ChangeType, ChangeCurrency, AddField, CanEdit
<1> DEFINE d == Edit(b).draft
<1>3. d \in FieldSets /\ d \in [DOMAIN d -> Field] /\ DOMAIN d \in SUBSET Keys
  <2>1. d \in FieldSets
    BY <1>2, PanelHolds DEF ReviewInv, GoodEdit, EditRow
  <2> QED
    BY <2>1, FieldSetFacts
<1>4. CASE ChangeType(b, k, type)
  <2> DEFINE f == [type |-> type, code |-> IF type = "currency" THEN d[k].code ELSE None]
             n == [d EXCEPT ![k] = f]
  <2>1. k \in DOMAIN d /\ Redraft(b, n)
    BY <1>4 DEF ChangeType
  <2>2. f \in Field
    BY <1>3, <2>1 DEF Field
  <2>3. n \in [DOMAIN d -> Field]
    BY <1>3, <2>2
  <2>4. n \in FieldSets /\ DOMAIN n = DOMAIN d
    BY <1>3, <2>3, MakesFieldSet
  <2> HIDE DEF n, d
  <2> QED
    BY <1>2, <2>1, <2>4, RedraftKeeps DEF d
<1>5. CASE ChangeCurrency(b, k, code)
  <2> DEFINE f == [d[k] EXCEPT !.code = code]
             n == [d EXCEPT ![k] = f]
  <2>1. k \in DOMAIN d /\ d[k].type = "currency" /\ Redraft(b, n)
    BY <1>5 DEF ChangeCurrency
  <2>2. f \in Field
    BY <1>3, <2>1 DEF Field
  <2>3. n \in [DOMAIN d -> Field]
    BY <1>3, <2>2
  <2>4. n \in FieldSets /\ DOMAIN n = DOMAIN d
    BY <1>3, <2>3, MakesFieldSet
  <2> HIDE DEF n, d
  <2> QED
    BY <1>2, <2>1, <2>4, RedraftKeeps DEF d
<1>6. CASE AddField(b, k, type)
  <2> DEFINE n == [j \in DOMAIN d \cup {k} |-> IF j = k THEN Plain(type) ELSE d[j]]
  <2>1. Redraft(b, n)
    BY <1>6 DEF AddField
  <2>2. Plain(type) \in Field
    BY DEF Field, Plain
  <2>3. n \in [DOMAIN d \cup {k} -> Field] /\ DOMAIN d \cup {k} \in SUBSET Keys
    BY <1>3, <2>2
  <2>4. n \in FieldSets /\ DOMAIN n = DOMAIN d \cup {k}
    BY <2>3, MakesFieldSet
  <2> HIDE DEF n, d
  <2> QED
    BY <1>2, <2>1, <2>4, RedraftKeeps DEF d
<1> QED
  BY <1>1, <1>4, <1>5, <1>6

\* The panel opens another table, or its page of tables, or a table is ticked there.
LEMMA PanelKeeps ==
  ASSUME ReviewInv, NEW b \in Tabs,
         \/ \E t \in Tables : Open(b, t)
         \/ SelectTables(b) \/ BackToFields(b)
         \/ \E some \in SUBSET Tables : Tick(b, some)
  PROVE  ReviewInv' /\ NoneWritten
<1>1. ASSUME NEW t \in Tables, Open(b, t) PROVE ReviewInv' /\ NoneWritten
  <2> DEFINE r == [tab[b] EXCEPT !.picked = t, !.dismissed = FALSE, !.chosen = {}]
  <2>1. tab[b] \in TabRow /\ TabHolds(tab[b]) /\ t \in ToSet(tab[b].held)
    BY <1>1 DEF ReviewInv, Open
  <2>2. tab' = [tab EXCEPT ![b] = r] /\ UNCHANGED <<fields, version, convertedAt, save>>
    BY <1>1 DEF Open
  <2>3. /\ r \in TabRow /\ r.held = tab[b].held /\ r.current = tab[b].current
        /\ r.version = tab[b].version /\ r.edit = tab[b].edit /\ r.picked = t /\ r.chosen = {}
    BY <2>1 DEF TabRow
  <2> HIDE DEF r
  <2>4. TabHolds(r)
    BY <2>1, <2>3, PanelMoves DEF TabHolds
  <2>5. tab' \in [Tabs -> TabRow] /\ \A c \in Tabs : TabHolds(tab'[c])
    BY <2>2, <2>4, OneTab
  <2>6. save' \in [1..MaxSaves -> SaveRow] /\ \A i \in 1..MaxSaves : SaveHolds(save'[i])
    BY <2>2 DEF ReviewInv
  <2> QED
    BY <2>2, <2>5, <2>6, ServerStays DEF NoneWritten, ReviewInv
<1>2. ASSUME OpenTable(b) # None, NEW p \in BOOLEAN
      PROVE  GoodEdit([Edit(b) EXCEPT !.picking = p])
  <2> DEFINE n == [Edit(b) EXCEPT !.picking = p]
  <2>1. GoodEdit(Edit(b)) /\ Edit(b) \in EditRow
    BY <1>2, PanelHolds DEF ReviewInv, GoodEdit
  <2>2. n \in EditRow /\ n.on = Edit(b).on /\ n.baseline = Edit(b).baseline /\ n.draft = Edit(b).draft
    BY <2>1 DEF EditRow
  <2> HIDE DEF n
  <2> QED
    BY <2>1, <2>2 DEF GoodEdit, n
<1>3. CASE SelectTables(b)
  <2> DEFINE n == [Edit(b) EXCEPT !.picking = TRUE]
  <2>1. /\ GoodEdit(n) /\ Patch(b, n) /\ UNCHANGED <<fields, version, convertedAt, save>>
    BY <1>2, <1>3 DEF SelectTables, CanWrite, CanEdit
  <2> HIDE DEF n
  <2> QED
    BY <2>1, PatchKeeps
<1>4. CASE BackToFields(b)
  <2> DEFINE n == [Edit(b) EXCEPT !.picking = FALSE]
             r == [tab[b] EXCEPT !.edit = n, !.chosen = {}]
  <2>1. /\ GoodEdit(n) /\ n \in EditRow /\ tab' = [tab EXCEPT ![b] = r]
        /\ UNCHANGED <<fields, version, convertedAt, save>>
    BY <1>2, <1>4 DEF BackToFields, GoodEdit
  <2> HIDE DEF n
  <2>2. /\ r \in TabRow /\ r.held = tab[b].held /\ r.current = tab[b].current
        /\ r.version = tab[b].version /\ r.edit = n /\ r.picked = tab[b].picked /\ r.chosen = {}
    BY <2>1 DEF TabRow, ReviewInv
  <2> HIDE DEF r
  <2>3. TabHolds(r)
    BY <2>1, <2>2, PanelMoves DEF ReviewInv
  <2> QED
    BY <2>1, <2>3, TabMoves
<1>5. CASE \E some \in SUBSET Tables : Tick(b, some)
  <2>1. PICK some \in SUBSET Targets(b) :
          /\ OpenTable(b) # None /\ UNCHANGED <<fields, version, convertedAt, save>>
          /\ tab' = [tab EXCEPT ![b].chosen = (@ \ Targets(b)) \cup some]
    BY <1>5 DEF Tick
  <2> DEFINE t == tab[b]
             ticked == (t.chosen \ Targets(b)) \cup some
             r == [t EXCEPT !.chosen = ticked]
  <2>2. /\ t \in TabRow /\ TabHolds(t) /\ OpenTable(b) = Subject(t)
        /\ tab' = [tab EXCEPT ![b] = r]
    BY <2>1 DEF ReviewInv, OpenTable, Subject
  <2>3. \A u \in some : u \in Tables /\ Shape(Detected[u]) = Shape(Detected[Subject(t)])
    BY <2>1, <2>2, TargetsAlike
  <2>4. ticked \in SUBSET Tables
    BY <2>2, <2>3 DEF TabRow
  <2> HIDE DEF t
  <2>5. \A u \in ticked : Subject(t) # None /\ Shape(Detected[u]) = Shape(Detected[Subject(t)])
    BY <2>1, <2>2, <2>3 DEF TabHolds, TicksHold
  <2> HIDE DEF ticked
  <2>6. /\ r \in TabRow /\ r.held = t.held /\ r.current = t.current /\ r.version = t.version
        /\ r.edit = t.edit /\ r.picked = t.picked /\ r.dismissed = t.dismissed /\ r.chosen = ticked
    BY <2>2, <2>4 DEF TabRow
  <2> HIDE DEF r
  <2>7. TicksHold(r)
    BY <2>5, <2>6 DEF TicksHold, Subject
  <2>8. TabHolds(r)
    BY <2>2, <2>6, <2>7 DEF TabHolds
  <2> QED
    BY <2>1, <2>2, <2>8, TabMoves
<1> QED
  BY <1>1, <1>3, <1>4, <1>5

\* The writes that are not tab b's stay, and its own have nobody to tell.
LEMMA OrphanHolds ==
  ASSUME ReviewInv, NEW b \in Tabs
  PROVE  /\ Orphan(b) \in [1..MaxSaves -> SaveRow]
         /\ \A i \in 1..MaxSaves : SaveHolds(Orphan(b)[i]) /\ Orphan(b)[i].at = save[i].at
<1>1. ASSUME NEW i \in 1..MaxSaves
      PROVE  /\ Orphan(b)[i] \in SaveRow /\ SaveHolds(Orphan(b)[i]) /\ Orphan(b)[i].at = save[i].at
  <2> DEFINE s == save[i]
             r == [s EXCEPT !.heard = FALSE]
  <2>1. s \in SaveRow /\ SaveHolds(s) /\ DOMAIN save = 1..MaxSaves
    BY DEF ReviewInv
  <2>2. Orphan(b)[i] = s \/ Orphan(b)[i] = r
    BY <2>1 DEF Orphan
  <2>3. /\ r \in SaveRow /\ r.by = s.by /\ r.at = s.at /\ r.from = s.from /\ r.others = s.others
        /\ r.versions = s.versions /\ r.seen = s.seen
    BY <2>1 DEF SaveRow
  <2> HIDE DEF r, s
  <2>4. SaveHolds(r)
    BY <2>1, <2>3, Forgotten
  <2> QED
    BY <2>1, <2>2, <2>3, <2>4 DEF s
<1>2. DOMAIN save = 1..MaxSaves
  BY DEF ReviewInv
<1>3. Orphan(b) = [i \in 1..MaxSaves |-> Orphan(b)[i]]
  BY <1>2 DEF Orphan
<1> QED
  BY <1>1, <1>3

\* The panel shuts, or the tab goes on to the results.
LEMMA LeaveKeeps ==
  ASSUME ReviewInv, NEW b \in Tabs, Close(b) \/ Convert(b)
  PROVE  ReviewInv' /\ NoneWritten
<1> DEFINE t == tab[b]
<1>1. PICK d \in BOOLEAN, f \in BOOLEAN :
        /\ tab' = [tab EXCEPT ![b] = [t EXCEPT !.edit = NoEdit, !.chosen = {}, !.busy = FALSE, !.picked = None,
                                               !.dismissed = d, !.frozen = f]]
        /\ save' = Orphan(b) /\ UNCHANGED <<fields, version>> /\ convertedAt' \in BOOLEAN
  <2>1. t \in TabRow /\ t.frozen \in BOOLEAN
    BY DEF ReviewInv, TabRow
  <2>2. CASE Close(b)
    <3> DEFINE r == [t EXCEPT !.edit = NoEdit, !.chosen = {}, !.busy = FALSE, !.picked = None,
                              !.dismissed = TRUE, !.frozen = t.frozen]
    <3>1. [Forget(b) EXCEPT !.picked = None, !.dismissed = TRUE] = r
      BY <2>1 DEF Forget, TabRow
    <3> QED
      BY <2>1, <2>2, <3>1 DEF Close, ReviewInv
  <2>3. CASE Convert(b)
    <3> DEFINE r == [t EXCEPT !.edit = NoEdit, !.chosen = {}, !.busy = FALSE, !.picked = None,
                              !.dismissed = FALSE, !.frozen = TRUE]
    <3>1. [Forget(b) EXCEPT !.frozen = TRUE, !.picked = None, !.dismissed = FALSE] = r
      BY <2>1 DEF Forget, TabRow
    <3> QED
      BY <2>1, <2>3, <3>1 DEF Convert
  <2> QED
    BY <2>2, <2>3
<1> DEFINE r == [t EXCEPT !.edit = NoEdit, !.chosen = {}, !.busy = FALSE, !.picked = None,
                          !.dismissed = d, !.frozen = f]
<1>2. t \in TabRow /\ TabHolds(t) /\ NoEdit \in EditRow /\ GoodEdit(NoEdit)
  BY NoEditIsGood DEF ReviewInv, GoodEdit
<1>3. /\ r \in TabRow /\ r.held = t.held /\ r.current = t.current /\ r.version = t.version
      /\ r.edit = NoEdit /\ r.picked = None /\ r.chosen = {}
  BY <1>2 DEF TabRow
<1>4. tab' = [tab EXCEPT ![b] = r]
  BY <1>1
<1> HIDE DEF r, t
<1>5. TabHolds(r)
  BY <1>2, <1>3, PanelMoves
<1>6. tab' \in [Tabs -> TabRow] /\ \A c \in Tabs : TabHolds(tab'[c])
  BY <1>4, <1>5, OneTab
<1>7. /\ save' \in [1..MaxSaves -> SaveRow]
      /\ \A i \in 1..MaxSaves : SaveHolds(save'[i]) /\ save'[i].at = save[i].at
  BY <1>1, OrphanHolds
<1> QED
  BY <1>1, <1>6, <1>7, ServerStays DEF NoneWritten

\* What is left of a write whose answer is lost.
LEMMA DeafHolds ==
  ASSUME NEW s \in SaveRow, SaveHolds(s), NEW r \in Deaf(s)
  PROVE  r \in SaveRow /\ SaveHolds(r) /\ (r.at = "written" => s.at = "written")
<1> DEFINE n == [s EXCEPT !.by = None, !.heard = FALSE]
<1>1. r = NoSave \/ r = n
  BY DEF Deaf
<1>2. /\ n \in SaveRow /\ n.by = None /\ n.at = s.at /\ n.from = s.from /\ n.others = s.others
      /\ n.versions = s.versions /\ n.seen = s.seen
  BY DEF SaveRow
<1> HIDE DEF n
<1>3. SaveHolds(n)
  BY <1>2, Forgotten
<1> QED
  BY <1>1, <1>2, <1>3, NoSaveHolds

LEMMA ReloadKeeps ==
  ASSUME ReviewInv, NEW b \in Tabs, Reload(b)
  PROVE  ReviewInv' /\ NoneWritten
<1>1. DOMAIN save = 1..MaxSaves
  BY DEF ReviewInv
<1>2. ASSUME NEW i \in 1..MaxSaves
      PROVE  /\ save'[i] \in SaveRow /\ SaveHolds(save'[i])
             /\ save'[i].at = "written" => save[i].at = "written"
  <2> DEFINE s == save[i]
  <2>1. s \in SaveRow /\ SaveHolds(s)
    BY DEF ReviewInv
  <2>2. \E r \in Deaf(s) : r.by = None
    <3>1. NoSave.by = None /\ [s EXCEPT !.by = None, !.heard = FALSE].by = None
      BY <2>1 DEF NoSave, SaveRow
    <3> QED
      BY <3>1 DEF Deaf
  <2>3. save'[i] = s \/ save'[i] \in Deaf(s)
    BY <1>1, <2>2 DEF Reload
  <2> HIDE DEF s
  <2> QED
    BY <2>1, <2>3, DeafHolds DEF s
<1>3. save' \in [1..MaxSaves -> SaveRow]
  <2>1. save' = [i \in 1..MaxSaves |-> save'[i]]
    BY <1>1 DEF Reload
  <2> QED
    BY <1>2, <2>1
<1>4. tab' \in [Tabs -> TabRow] /\ \A c \in Tabs : TabHolds(tab'[c])
  <2> DEFINE t == [NewTab EXCEPT !.frozen = convertedAt]
  <2>1. tab' = [tab EXCEPT ![b] = t] /\ TabHolds(t)
    BY NewTabHolds DEF Reload, ReviewInv
  <2> HIDE DEF t
  <2> QED
    BY <2>1, OneTab
<1>5. UNCHANGED <<fields, version>> /\ convertedAt' \in BOOLEAN
  BY DEF Reload, ReviewInv
<1> QED
  BY <1>2, <1>3, <1>4, <1>5, ServerStays DEF NoneWritten

\* A file's tables come with the server's fields and versions.
LEMMA InTurn ==
  ASSUME NEW S \in SUBSET Tables
  PROVE  SetToSeq(S) \in Seq(Tables) /\ ToSet(SetToSeq(S)) \subseteq S
<1> DEFINE n == Cardinality(S)
<1>1. IsFiniteSet(S)
  BY ReviewAssumption, FS_Subset
<1>2. n \in Nat /\ ExistsBijection(1..n, S)
  BY <1>1, FS_CardinalityType
<1>3. \E f \in [1..n -> S] : IsInjective(f)
  BY <1>2 DEF ExistsBijection, Bijection, Injection
<1>4. SetToSeq(S) \in [1..n -> S]
  BY <1>3 DEF SetToSeq
<1> HIDE DEF n
<1> QED
  BY <1>2, <1>4 DEF ToSet

LEMMA ArrivalKeeps ==
  ASSUME ReviewInv, NEW b \in Tabs, NEW f, FileArrives(b, f)
  PROVE  ReviewInv' /\ NoneWritten
<1> DEFINE its == {t \in Tables : FileOf[t] = f}
           t == tab[b]
           held == t.held \o SetToSeq(its)
           current == [u \in Tables |-> IF u \in its THEN fields[u] ELSE t.current[u]]
           known == [u \in Tables |-> IF u \in its THEN version[u] ELSE t.version[u]]
           r == [t EXCEPT !.held = held, !.current = current, !.version = known]
<1>1. /\ t \in TabRow /\ TabHolds(t) /\ fields \in [Tables -> FieldSets]
      /\ version \in [Tables -> Nat \ {0}] /\ \A u \in Tables : DOMAIN Detected[u] \subseteq DOMAIN fields[u]
  BY DEF ReviewInv, TablesHold
<1>2. tab' = [tab EXCEPT ![b] = r] /\ UNCHANGED <<fields, version, convertedAt, save>>
  BY DEF FileArrives
<1>3. /\ t.held \in Seq(Tables) /\ t.current \in [Tables -> FieldSets] /\ t.version \in [Tables -> Nat]
      /\ t.picked \in Tables \cup {None}
  BY <1>1 DEF TabRow
<1>4. SetToSeq(its) \in Seq(Tables) /\ ToSet(SetToSeq(its)) \subseteq its
  BY InTurn
<1> HIDE DEF its
<1>5. held \in Seq(Tables) /\ ToSet(t.held) \subseteq ToSet(held) /\ ToSet(held) \subseteq ToSet(t.held) \cup its
  <2> DEFINE q == SetToSeq(its)
  <2> HIDE DEF q
  <2>1. q \in Seq(Tables) /\ ToSet(q) \subseteq its
    BY <1>4 DEF q
  <2>2. /\ t.held \o q \in Seq(Tables) /\ DOMAIN (t.held \o q) = 1..(Len(t.held) + Len(q))
        /\ DOMAIN t.held = 1..Len(t.held) /\ DOMAIN q = 1..Len(q)
        /\ \A n \in 1..Len(t.held) : (t.held \o q)[n] = t.held[n]
        /\ \A n \in (Len(t.held) + 1)..(Len(t.held) + Len(q)) : (t.held \o q)[n] = q[n - Len(t.held)]
    BY <1>3, <2>1
  <2>3. ASSUME NEW n \in DOMAIN (t.held \o q) PROVE (t.held \o q)[n] \in ToSet(t.held) \cup ToSet(q)
    <3>1. CASE n <= Len(t.held)
      BY <2>2, <3>1 DEF ToSet
    <3>2. CASE n > Len(t.held)
      <4>1. n \in (Len(t.held) + 1)..(Len(t.held) + Len(q)) /\ n - Len(t.held) \in 1..Len(q)
        <5>1. Len(t.held) \in Nat /\ Len(q) \in Nat /\ n \in 1..(Len(t.held) + Len(q))
          BY <1>3, <2>1, <2>2
        <5> QED
          BY <3>2, <5>1
      <4>2. n - Len(t.held) \in DOMAIN q /\ (t.held \o q)[n] = q[n - Len(t.held)]
        BY <2>2, <4>1
      <4> QED
        BY <4>2 DEF ToSet
    <3> QED
      BY <1>3, <2>1, <2>2, <3>1, <3>2
  <2>4. ASSUME NEW n \in DOMAIN t.held PROVE n \in DOMAIN (t.held \o q) /\ (t.held \o q)[n] = t.held[n]
    BY <1>3, <2>1, <2>2
  <2>5. ToSet(t.held \o q) \subseteq ToSet(t.held) \cup ToSet(q)
    BY <2>3 DEF ToSet
  <2>6. ToSet(t.held) \subseteq ToSet(t.held \o q)
    BY <2>4 DEF ToSet
  <2> QED
    BY <2>1, <2>2, <2>5, <2>6 DEF q
<1>6. current \in [Tables -> FieldSets] /\ known \in [Tables -> Nat]
  BY <1>1, <1>3
<1>7. \A u \in Tables : /\ current[u] = (IF u \in its THEN fields[u] ELSE t.current[u])
                        /\ known[u] = (IF u \in its THEN version[u] ELSE t.version[u])
  OBVIOUS
\* The panel stays where it is, unless nothing was held: then nothing is ticked.
<1>7a. t.chosen # {} => t.picked # None \/ (t.held # <<>> /\ held # <<>> /\ Head(held) = Head(t.held))
  <2>1. t.chosen # {} => Subject(t) # None
    BY <1>1 DEF TabHolds, TicksHold
  <2>2. ASSUME t.held # <<>> PROVE held # <<>> /\ Head(held) = Head(t.held)
    <3> DEFINE q == SetToSeq(its)
    <3> HIDE DEF q
    <3>1. q \in Seq(Tables)
      BY <1>4 DEF q
    <3>2. t.held \o q # <<>> /\ Head(t.held \o q) = Head(t.held)
      BY <1>3, <2>2, <3>1
    <3> QED
      BY <3>2 DEF q
  <2> HIDE DEF held
  <2> QED
    BY <2>1, <2>2 DEF Subject
<1> HIDE DEF held, current, known
<1>8. /\ r \in TabRow /\ r.held = held /\ r.current = current /\ r.version = known
      /\ r.edit = t.edit /\ r.picked = t.picked /\ r.dismissed = t.dismissed /\ r.chosen = t.chosen
  BY <1>1, <1>5, <1>6 DEF TabRow
<1> HIDE DEF r
<1>9. TabHolds(r)
  <2>1. \A u \in Tables : Knows(u, current[u], known[u])
    BY <1>1, <1>7 DEF TabHolds, Knows
  <2>2. \A u \in ToSet(held) : u \in Tables /\ known[u] > 0
    <3>1. \A u \in ToSet(held) : u \in Tables
      BY <1>5 DEF ToSet
    <3> QED
      BY <1>1, <1>5, <1>7, <3>1 DEF TabHolds
  <2>3. TicksHold(r)
    <3>1. r.chosen # {} => Subject(r) = Subject(t)
      BY <1>8, <1>7a DEF Subject
    <3> QED
      BY <1>1, <1>8, <3>1 DEF TabHolds, TicksHold
  <2> QED
    BY <1>1, <1>5, <1>8, <2>1, <2>2, <2>3 DEF TabHolds
<1>10. tab' \in [Tabs -> TabRow] /\ \A c \in Tabs : TabHolds(tab'[c])
  <2> HIDE DEF t
  <2> QED
    BY <1>2, <1>9, OneTab
<1>11. save' \in [1..MaxSaves -> SaveRow] /\ \A i \in 1..MaxSaves : SaveHolds(save'[i])
  BY <1>2 DEF ReviewInv
<1> QED
  BY <1>2, <1>10, <1>11, ServerStays DEF NoneWritten, ReviewInv

\* A write is sent: of the table in the panel, and of tables that started from its shape.
LEMMA WriteBegins ==
  ASSUME ReviewInv, NEW b \in Tabs, OpenTable(b) # None, NEW kind \in {"save", "update"},
         NEW others \in SUBSET Tables, CommitDraft(b, kind, others),
         \A u \in others : Shape(Detected[u]) = Shape(Detected[OpenTable(b)])
  PROVE  ReviewInv' /\ NoneWritten
<1> DEFINE t == tab[b]
           e == Edit(b)
           on == OpenTable(b)
           offered == others \cap Targets(b)
           seen == [u \in {on} \cup offered |-> DOMAIN t.current[u]]
           s == [by |-> b, heard |-> TRUE, at |-> "sent", kind |-> kind, from |-> e,
                 others |-> others, versions |-> <<>>, seen |-> seen]
           r == [t EXCEPT !.busy = TRUE, !.edit = e]
<1>1. /\ t \in TabRow /\ TabHolds(t) /\ GoodEdit(e) /\ e \in EditRow /\ e.on = on
      /\ on \in Tables
  BY PanelHolds DEF ReviewInv, GoodEdit
<1>2. \A u \in offered : DOMAIN t.current[u] \subseteq DOMAIN t.current[on]
  BY TargetsAlike
<1>3. /\ seen \in UNION {[ts -> SUBSET Keys] : ts \in SUBSET Tables} /\ DOMAIN seen = {on} \cup offered
      /\ \A u \in others \cap DOMAIN seen : seen[u] \subseteq seen[on]
  <2> HIDE DEF offered
  <2>1. \A u \in Tables : DOMAIN t.current[u] \in SUBSET Keys
    BY <1>1, FieldSetFacts DEF TabRow
  <2>2. {on} \cup offered \in SUBSET Tables
    BY <1>1 DEF offered
  <2>3. seen \in [{on} \cup offered -> SUBSET Keys]
    BY <2>1, <2>2
  <2>4. [{on} \cup offered -> SUBSET Keys] \in {[ts -> SUBSET Keys] : ts \in SUBSET Tables}
    BY <2>2, Zenon
  <2>5. \A u \in {on} \cup offered : seen[u] = DOMAIN t.current[u]
    OBVIOUS
  <2> HIDE DEF seen
  <2> QED
    BY <1>2, <2>3, <2>4, <2>5
<1>4. PICK i \in 1..MaxSaves : save' = [save EXCEPT ![i] = s]
  BY DEF CommitDraft, ReviewInv
<1>5. tab' = [tab EXCEPT ![b] = r] /\ UNCHANGED <<fields, version, convertedAt>>
  BY DEF CommitDraft
<1> HIDE DEF seen, offered, t
<1>6. s \in SaveRow
  <2>1. <<>> \in UNION {[ts -> Nat] : ts \in SUBSET Tables}
    BY NoSaveHolds DEF NoSave, SaveRow
  <2> HIDE DEF e
  <2> QED
    BY <1>1, <1>3, <2>1 DEF SaveRow
<1>7. s.at = "sent" /\ s.from = e /\ s.others = others /\ s.seen = seen
  OBVIOUS
<1> HIDE DEF s
<1>8. SaveHolds(s)
  BY <1>1, <1>2, <1>3, <1>6, <1>7 DEF SaveHolds
<1>9. /\ save' \in [1..MaxSaves -> SaveRow]
      /\ \A j \in 1..MaxSaves : SaveHolds(save'[j]) /\ (save'[j].at = "written" => save[j].at = "written")
  BY <1>4, <1>6, <1>7, <1>8 DEF ReviewInv
<1>10. /\ r \in TabRow /\ r.held = t.held /\ r.current = t.current /\ r.version = t.version
       /\ r.edit = e /\ r.picked = t.picked /\ r.dismissed = t.dismissed /\ r.chosen = t.chosen
  <2> HIDE DEF e
  <2> QED
    BY <1>1 DEF TabRow
<1> HIDE DEF r, e
<1>11. TabHolds(r)
  BY <1>1, <1>10, PanelMoves
<1>12. tab' \in [Tabs -> TabRow] /\ \A c \in Tabs : TabHolds(tab'[c])
  BY <1>5, <1>11, OneTab
<1> QED
  BY <1>5, <1>9, <1>12, ServerStays DEF NoneWritten, ReviewInv

LEMMA PersonKeeps ==
  ASSUME ReviewInv, NEW b \in Tabs, Person(b)
  PROVE  ReviewInv' /\ NoneWritten
<1>1. CASE Update(b)
  <2>1. OpenTable(b) # None /\ CommitDraft(b, "save", {}) /\ {} \in SUBSET Tables
    BY <1>1 DEF Update, Dirty
  <2> QED
    BY <2>1, WriteBegins
<1>2. CASE UpdateAll(b)
  <2>1. OpenTable(b) # None /\ CommitDraft(b, "update", Targets(b))
    BY <1>2 DEF UpdateAll, CanWrite, CanEdit
  <2>2. \A u \in Targets(b) : u \in Tables /\ Shape(Detected[u]) = Shape(Detected[OpenTable(b)])
    BY TargetsAlike
  <2> QED
    BY <2>1, <2>2, WriteBegins
<1>3. CASE UpdateChosen(b)
  <2> DEFINE ticked == tab[b].chosen
  <2>1. OpenTable(b) # None /\ CommitDraft(b, "update", ticked)
    BY <1>3 DEF UpdateChosen
  <2>2. OpenTable(b) = Subject(tab[b])
    BY DEF OpenTable, Subject
  <2>3. ticked \in SUBSET Tables /\ \A u \in ticked : Shape(Detected[u]) = Shape(Detected[OpenTable(b)])
    BY <2>2 DEF ReviewInv, TabHolds, TicksHold, TabRow
  <2> HIDE DEF ticked
  <2> QED
    BY <2>1, <2>3, WriteBegins
<1>4. CASE \E t \in Tables : FileArrives(b, FileOf[t])
  BY <1>4, ArrivalKeeps
<1> QED
  BY <1>1, <1>2, <1>3, <1>4, EditDraftKeeps, PanelKeeps, LeaveKeeps, ReloadKeeps DEF Person

-----------------------------------------------------------------------------
\* What was sent is taken: each draft keeps the detected keys of its targets.
LEMMA Offered ==
  ASSUME NEW s, SaveHolds(s), s.at # "idle"
  PROVE  Accepted(s)
<1>1. /\ s.from.on \in Tables /\ DOMAIN Detected[s.from.on] \subseteq DOMAIN s.from.draft
      /\ \A t \in Entries(s) : Shape(Detected[t]) = Shape(Detected[s.from.on])
  BY DEF SaveHolds, GoodEdit, Entries
<1>2. \A t \in Entries(s) : DOMAIN Detected[t] = DOMAIN Detected[s.from.on]
  BY <1>1, ShapeKeys
<1> QED
  BY <1>1, <1>2 DEF Accepted

\* One write changes, and the server's tables stay.
LEMMA OneSave ==
  ASSUME ReviewInv, NEW i \in 1..MaxSaves, NEW r \in SaveRow, SaveHolds(r),
         save' = [save EXCEPT ![i] = r], r.at = "written" => save[i].at = "written"
  PROVE  /\ save' \in [1..MaxSaves -> SaveRow] /\ \A j \in 1..MaxSaves : SaveHolds(save'[j])
         /\ NoneWritten
BY DEF ReviewInv, NoneWritten

LEMMA TabsStay ==
  ASSUME ReviewInv, tab' = tab
  PROVE  tab' \in [Tabs -> TabRow] /\ \A b \in Tabs : TabHolds(tab'[b])
BY DEF ReviewInv

LEMMA GateKeeps ==
  ASSUME ReviewInv, NEW i \in 1..MaxSaves, SaveGate(i)
  PROVE  ReviewInv' /\ NoneWritten
<1> DEFINE s == save[i]
<1>1. s \in SaveRow /\ SaveHolds(s) /\ s.at = "sent"
  BY DEF ReviewInv, SaveGate
<1>2. PICK at \in {"refused", "passed"} : save' = [save EXCEPT ![i] = [s EXCEPT !.at = at]]
  BY DEF SaveGate, Answer
<1> DEFINE r == [s EXCEPT !.at = at]
<1>3. /\ r \in SaveRow /\ r.by = s.by /\ r.at = at /\ r.from = s.from /\ r.others = s.others
      /\ r.versions = s.versions /\ r.seen = s.seen
  BY <1>1 DEF SaveRow
<1>4. save' = [save EXCEPT ![i] = r]
  BY <1>2
<1> HIDE DEF r
<1>5. SaveHolds(r)
  BY <1>1, <1>3 DEF SaveHolds, Entries
<1> HIDE DEF s
<1>6. UNCHANGED <<fields, version, convertedAt, tab>>
  BY DEF SaveGate
<1> QED
  BY <1>3, <1>4, <1>5, <1>6, OneSave, TabsStay, ServerStays DEF ReviewInv

\* The answer is gone, or lost.
LEMMA LostKeeps ==
  ASSUME ReviewInv, NEW i \in 1..MaxSaves, SaveLost(i) \/ SaveUnheard(i)
  PROVE  ReviewInv' /\ NoneWritten
<1> DEFINE s == save[i]
<1>1. s \in SaveRow /\ SaveHolds(s)
  BY DEF ReviewInv
<1>2. UNCHANGED <<fields, version, convertedAt>>
  BY DEF SaveLost, SaveUnheard
<1>3. PICK r \in Deaf(s) \cup {NoSave} : save' = [save EXCEPT ![i] = r]
  BY DEF SaveLost, SaveUnheard
<1>4. r \in SaveRow /\ SaveHolds(r) /\ (r.at = "written" => s.at = "written")
  <2> HIDE DEF s
  <2> QED
    BY <1>1, NoSaveHolds, DeafHolds
<1>5. tab' \in [Tabs -> TabRow] /\ \A b \in Tabs : TabHolds(tab'[b])
  <2>1. CASE tab' = tab
    BY <2>1, TabsStay
  <2>2. CASE tab' # tab
    <3> DEFINE b == s.by
               t == tab[b]
               n == [t EXCEPT !.busy = FALSE, !.edit = s.from]
    <3>1. s.by # None /\ tab' = [tab EXCEPT ![b] = n]
      BY <2>2 DEF SaveLost, SaveUnheard
    <3>2. b \in Tabs /\ s.at # "idle"
      BY <1>1, <3>1 DEF SaveRow, SaveHolds
    <3>3. t \in TabRow /\ TabHolds(t) /\ s.from \in EditRow /\ GoodEdit(s.from)
      BY <1>1, <3>2 DEF ReviewInv, SaveHolds, GoodEdit
    <3> HIDE DEF b, s
    <3>4. /\ n \in TabRow /\ n.held = t.held /\ n.current = t.current /\ n.version = t.version
          /\ n.edit = s.from /\ n.picked = t.picked /\ n.dismissed = t.dismissed /\ n.chosen = t.chosen
      BY <3>3 DEF TabRow
    <3> HIDE DEF n, t
    <3>5. TabHolds(n)
      BY <3>3, <3>4, PanelMoves
    <3> QED
      BY <3>1, <3>2, <3>5, OneTab
  <2> QED
    BY <2>1, <2>2
<1> QED
  BY <1>2, <1>3, <1>4, <1>5, OneSave, ServerStays DEF ReviewInv
\* The server takes the fields: no tab has their version yet.
LEMMA WriteKeeps ==
  ASSUME ReviewInv, NEW i \in 1..MaxSaves, SaveWrites(i)
  PROVE  /\ ReviewInv' /\ save[i].at = "passed"
         /\ \A j \in 1..MaxSaves \ {i} : save'[j] = save[j]
         /\ \A t \in Entries(save[i]) : DOMAIN fields'[t] = DOMAIN save[i].from.draft
<1> DEFINE s == save[i]
           d == s.from.draft
           vs == [t \in Entries(s) |-> version'[t]]
           r == [s EXCEPT !.at = "written", !.versions = vs]
<1>1. s \in SaveRow /\ SaveHolds(s) /\ s.at = "passed"
  BY DEF ReviewInv, SaveWrites
<1>2. Accepted(s)
  BY <1>1, Offered
<1>3. /\ d \in FieldSets /\ Validated(d) = d /\ s.from.on \in Tables
      /\ \A t \in Entries(s) : t \in Tables /\ DOMAIN Detected[t] \subseteq DOMAIN d
  <2>1. d \in FieldSets /\ s.from.on \in Tables /\ s.others \in SUBSET Tables
    BY <1>1 DEF SaveHolds, GoodEdit, EditRow, SaveRow
  <2> QED
    BY <1>2, <2>1, FieldSetFacts DEF Accepted, Entries
<1>4. /\ fields' = [t \in Tables |-> IF t \in Entries(s) THEN Validated(d) ELSE fields[t]]
      /\ version' = [t \in Tables |-> IF t \in Entries(s) THEN version[t] + 1 ELSE version[t]]
      /\ save' = [save EXCEPT ![i] = [Answer(i, TRUE) EXCEPT !.versions = vs]]
      /\ UNCHANGED <<convertedAt, tab>>
  BY <1>2 DEF SaveWrites
<1>5. /\ fields \in [Tables -> FieldSets] /\ version \in [Tables -> Nat \ {0}]
      /\ \A t \in Tables : DOMAIN Detected[t] \subseteq DOMAIN fields[t]
  BY DEF ReviewInv, TablesHold
<1>6. \A t \in Tables :
        /\ fields'[t] = (IF t \in Entries(s) THEN d ELSE fields[t])
        /\ version'[t] = (IF t \in Entries(s) THEN version[t] + 1 ELSE version[t])
  BY <1>3, <1>4
<1>7. TablesHold'
  <2>1. fields' \in [Tables -> FieldSets] /\ version' \in [Tables -> Nat \ {0}]
    BY <1>3, <1>4, <1>5
  <2> QED
    BY <1>3, <1>5, <1>6, <2>1 DEF TablesHold
\* A version that was the last is no longer, and none is ahead.
<1>8. ASSUME NEW t \in Tables, NEW fs, NEW v \in Nat, Knows(t, fs, v) PROVE Knows(t, fs, v)'
  BY <1>5, <1>6, <1>8 DEF Knows
<1>9. ASSUME NEW b \in Tabs PROVE TabHolds(tab[b])'
  <2>1. TabHolds(tab[b]) /\ tab[b] \in TabRow
    BY DEF ReviewInv
  <2>2. \A u \in Tables : Knows(u, tab[b].current[u], tab[b].version[u])'
    <3>1. \A u \in Tables : tab[b].version[u] \in Nat /\ Knows(u, tab[b].current[u], tab[b].version[u])
      BY <2>1 DEF TabRow, TabHolds
    <3>2. tab' = tab
      BY <1>4
    <3> QED
      BY <1>8, <3>1, <3>2
  <2> QED
    BY <1>4, <2>1, <2>2 DEF TabHolds
<1>10. vs \in UNION {[ts -> Nat] : ts \in SUBSET Tables} /\ \A t \in Entries(s) : vs[t] = version'[t]
  <2>1. Entries(s) \in SUBSET Tables
    BY <1>3
  <2>2. vs \in [Entries(s) -> Nat]
    BY <1>5, <1>6, <2>1
  <2>3. [Entries(s) -> Nat] \in {[ts -> Nat] : ts \in SUBSET Tables}
    BY <2>1, Zenon
  <2>4. \A t \in Entries(s) : vs[t] = version'[t]
    OBVIOUS
  <2> QED
    BY <2>2, <2>3, <2>4
<1> HIDE DEF vs
<1>11. /\ r \in SaveRow /\ r.by = s.by /\ r.at = "written" /\ r.from = s.from /\ r.others = s.others
       /\ r.versions = vs /\ r.seen = s.seen
  BY <1>1, <1>10 DEF SaveRow
<1>12. save' = [save EXCEPT ![i] = r]
  <2>1. [Answer(i, TRUE) EXCEPT !.versions = vs] = r
    BY <1>1 DEF Answer, SaveRow
  <2> QED
    BY <1>4, <2>1
<1> HIDE DEF r
<1>13. save' \in [1..MaxSaves -> SaveRow] /\ save'[i] = r /\ \A j \in 1..MaxSaves \ {i} : save'[j] = save[j]
  BY <1>11, <1>12 DEF ReviewInv
<1>14. PICK w \in SaveRow : w = r
  BY <1>11
<1>15. /\ w.from = s.from /\ w.others = s.others /\ w.seen = s.seen /\ w.at = "written"
       /\ \A t \in Entries(s) : w.versions[t] = version'[t]
  BY <1>10, <1>11, <1>14
<1>16. ASSUME NEW j \in 1..MaxSaves PROVE SaveHolds(save[j])'
  <2>1. CASE j = i
    <3>1. save'[j] = w
      BY <1>13, <1>14, <2>1
    <3>2. /\ w.from.on \in Tables /\ GoodEdit(w.from)
          /\ \A t \in w.others : Shape(Detected[t]) = Shape(Detected[w.from.on])
          /\ \A t \in w.others \cap DOMAIN w.seen : w.seen[t] \subseteq w.seen[w.from.on]
      BY <1>1, <1>15 DEF SaveHolds
    <3>3. \A t \in Entries(w) : w.versions[t] \in Nat \ {0} /\ Knows(t, w.from.draft, w.versions[t])'
      <4>1. Entries(w) = Entries(s)
        BY <1>15 DEF Entries
      <4> QED
        BY <1>3, <1>5, <1>6, <1>15, <4>1 DEF Knows
    <3> QED
      BY <1>15, <3>1, <3>2, <3>3 DEF SaveHolds, Knows
  <2>2. CASE j # i
    <3>1. PICK u \in SaveRow : u = save[j]
      BY DEF ReviewInv
    <3>2. SaveHolds(u) /\ save'[j] = u
      BY <1>13, <2>2, <3>1 DEF ReviewInv
    <3>3. u.at = "written" => \A t \in Entries(u) : t \in Tables /\ u.versions[t] \in Nat
      BY <3>2 DEF SaveHolds, SaveRow, Entries
    <3>4. u.at = "written" => \A t \in Entries(u) : Knows(t, u.from.draft, u.versions[t])'
      BY <1>8, <3>2, <3>3 DEF SaveHolds
    <3> QED
      BY <3>2, <3>4 DEF SaveHolds, Knows
  <2> QED
    BY <2>1, <2>2
<1>17. tab' \in [Tabs -> TabRow] /\ convertedAt' \in BOOLEAN
  BY <1>4 DEF ReviewInv
<1> QED
  BY <1>1, <1>3, <1>6, <1>7, <1>9, <1>13, <1>16, <1>17 DEF ReviewInv

\* The answer: what the tab takes over was the server's when it was written.
LEMMA AnswerKeeps ==
  ASSUME ReviewInv, NEW i \in 1..MaxSaves, SaveAnswered(i)
  PROVE  ReviewInv' /\ NoneWritten
<1> DEFINE s == save[i]
           b == s.by
           t == tab[b]
           done == [s.from EXCEPT !.picking = FALSE, !.done = [kind |-> s.kind, fields |-> s.from.draft]]
           told == IF ~s.heard THEN t
                   ELSE IF s.at = "refused" THEN [t EXCEPT !.busy = FALSE, !.edit = s.from]
                   ELSE [t EXCEPT !.busy = FALSE, !.chosen = {}, !.edit = done]
           current == [u \in Tables |-> IF u \in Entries(s) THEN s.from.draft ELSE told.current[u]]
           known == [u \in Tables |-> IF u \in Entries(s) THEN s.versions[u] ELSE told.version[u]]
           n == IF s.at = "refused" THEN told
                ELSE [told EXCEPT !.current = current, !.version = known]
<1>1. /\ s \in SaveRow /\ SaveHolds(s) /\ b \in Tabs /\ s.at \in {"written", "refused"}
  BY DEF ReviewInv, SaveAnswered, SaveRow
<1>2. t \in TabRow /\ TabHolds(t)
  BY <1>1 DEF ReviewInv
<1>3. /\ tab' = [tab EXCEPT ![b] = n] /\ save' = [save EXCEPT ![i] = NoSave]
      /\ UNCHANGED <<fields, version, convertedAt>>
  BY DEF SaveAnswered
<1>4. /\ s.from \in EditRow /\ GoodEdit(s.from) /\ s.from.draft \in FieldSets /\ s.kind \in {"save", "update"}
      /\ DOMAIN Detected[s.from.on] \subseteq DOMAIN s.from.draft
      /\ Entries(s) \subseteq Tables
  BY <1>1 DEF SaveHolds, GoodEdit, EditRow, SaveRow, Entries
<1>5. done \in EditRow /\ GoodEdit(done)
  <2>1. done \in EditRow /\ done.on = s.from.on /\ done.draft = s.from.draft /\ done.baseline = s.from.baseline
    <3> DEFINE d == [kind |-> s.kind, fields |-> s.from.draft]
    <3>1. d \in [kind : {"save", "update"}, fields : FieldSets]
      BY <1>4
    <3> HIDE DEF d
    <3>2. done = [s.from EXCEPT !.picking = FALSE, !.done = d]
      BY DEF d
    <3> HIDE DEF done
    <3> QED
      BY <1>4, <3>1, <3>2 DEF EditRow
  <2> HIDE DEF done
  <2> QED
    BY <1>4, <2>1 DEF GoodEdit
<1> HIDE DEF done, t, b, s
<1>6. /\ told \in TabRow /\ told.held = t.held /\ told.current = t.current
      /\ told.version = t.version /\ told.picked = t.picked
      /\ told.edit = t.edit \/ told.edit = s.from \/ told.edit = done
      /\ told.dismissed = t.dismissed /\ (told.chosen = t.chosen \/ told.chosen = {})
  BY <1>2, <1>4, <1>5 DEF TabRow
<1> HIDE DEF told
<1>7. TabHolds(told)
  BY <1>2, <1>4, <1>5, <1>6, PanelMoves DEF TabHolds
<1>8. TabHolds(n)
  <2>1. CASE s.at = "refused"
    BY <1>7, <2>1
  <2>2. CASE s.at = "written"
    <3>1. \A u \in Entries(s) : s.versions[u] \in Nat \ {0} /\ Knows(u, s.from.draft, s.versions[u])
      BY <1>1, <2>2 DEF SaveHolds
    <3>2. \A u \in Tables : told.current[u] \in FieldSets /\ told.version[u] \in Nat
      BY <1>6 DEF TabRow
    <3>3. /\ current \in [Tables -> FieldSets] /\ known \in [Tables -> Nat]
          /\ \A u \in Tables : /\ current[u] = (IF u \in Entries(s) THEN s.from.draft ELSE told.current[u])
                               /\ known[u] = (IF u \in Entries(s) THEN s.versions[u] ELSE told.version[u])
      BY <1>4, <3>1, <3>2
    <3> HIDE DEF current, known
    <3>4. /\ n \in TabRow /\ n.held = told.held /\ n.current = current /\ n.version = known
          /\ n.edit = told.edit /\ n.picked = told.picked /\ n.dismissed = told.dismissed
          /\ n.chosen = told.chosen
      BY <1>6, <2>2, <3>3 DEF TabRow
    <3> HIDE DEF n
    <3>5. \A u \in Tables : Knows(u, current[u], known[u])
      BY <1>7, <3>1, <3>3 DEF TabHolds
    <3>6. \A u \in ToSet(told.held) : u \in Tables /\ known[u] > 0
      <4>1. ToSet(told.held) \subseteq Tables
        BY <1>6 DEF TabRow, ToSet
      <4> QED
        BY <1>7, <3>1, <3>3, <4>1 DEF TabHolds
    <3> QED
      BY <1>7, <3>4, <3>5, <3>6 DEF TabHolds, TicksHold, Subject
  <2> QED
    BY <1>1, <2>1, <2>2
<1> HIDE DEF n
<1>9. tab' \in [Tabs -> TabRow] /\ \A c \in Tabs : TabHolds(tab'[c])
  BY <1>1, <1>3, <1>8, OneTab
<1>10. /\ save' \in [1..MaxSaves -> SaveRow] /\ \A j \in 1..MaxSaves : SaveHolds(save'[j])
       /\ NoneWritten
  BY <1>3, NoSaveHolds, OneSave
<1> QED
  BY <1>3, <1>9, <1>10, ServerStays DEF ReviewInv

-----------------------------------------------------------------------------
LEMMA ReviewStarts == ReviewInit => ReviewInv
<1> SUFFICES ASSUME ReviewInit PROVE ReviewInv
  OBVIOUS
<1>1. TablesHold
  BY DetectedFields DEF ReviewInit, TablesHold
<1>2. tab \in [Tabs -> TabRow] /\ \A b \in Tabs : TabHolds(tab[b])
  <2>1. TabHolds(NewTab) /\ NewTab \in TabRow
    BY <1>1, NewTabHolds DEF TabHolds
  <2> QED
    BY <2>1 DEF ReviewInit
<1>3. save \in [1..MaxSaves -> SaveRow] /\ \A i \in 1..MaxSaves : SaveHolds(save[i])
  BY NoSaveHolds DEF ReviewInit
<1> QED
  BY <1>1, <1>2, <1>3 DEF ReviewInit, ReviewInv

LEMMA ReviewStep == ReviewInv /\ [ReviewNext]_reviewVars => ReviewInv'
<1> SUFFICES ASSUME ReviewInv, [ReviewNext]_reviewVars PROVE ReviewInv'
  OBVIOUS
<1>1. DOMAIN save = 1..MaxSaves
  BY DEF ReviewInv
<1>2. CASE UNCHANGED reviewVars
  <2>1. /\ UNCHANGED <<fields, version, convertedAt>> /\ tab' = tab
        /\ save' \in [1..MaxSaves -> SaveRow] /\ \A i \in 1..MaxSaves : SaveHolds(save'[i])
    BY <1>2 DEF reviewVars, ReviewInv
  <2> QED
    BY <2>1, TabsStay, ServerStays DEF ReviewInv
<1>3. ASSUME NEW b \in Tabs, Person(b) PROVE ReviewInv'
  BY <1>3, PersonKeeps
<1>4. ASSUME NEW i \in 1..MaxSaves, Saving(i) PROVE ReviewInv'
  BY <1>4, GateKeeps, WriteKeeps, AnswerKeeps, LostKeeps DEF Saving
<1> QED
  BY <1>1, <1>2, <1>3, <1>4 DEF ReviewNext

LEMMA ReviewInvariant == ReviewSpec => []ReviewInv
BY ReviewStarts, ReviewStep, PTL DEF ReviewSpec

\* What the panel offers, the server takes (updateTargetsFor, validateEdit), for
\* any number of tabs, tables and overlapping writes, whatever answers are lost.
THEOREM OfferedIsTaken == ReviewSpec => []OfferedIsAccepted
<1>1. ReviewInv => OfferedIsAccepted
  <2> SUFFICES ASSUME ReviewInv, NEW i \in DOMAIN save, save[i].at = "passed" PROVE Accepted(save[i])
    BY DEF OfferedIsAccepted
  <2> QED
    BY Offered DEF ReviewInv
<1> QED
  BY <1>1, ReviewInvariant, PTL

\* A tab whose version of a table is the server's holds its fields, in whichever
\* order the answers to its writes and its polls arrive.
THEOREM VersionTells == ReviewSpec => []VersionNamesTheFields
<1>1. ReviewInv => VersionNamesTheFields
  <2> SUFFICES ASSUME ReviewInv, NEW b \in Tabs, NEW t \in ToSet(tab[b].held),
                      tab[b].version[t] = version[t]
               PROVE  tab[b].current[t] = fields[t]
    BY DEF VersionNamesTheFields
  <2>1. TabHolds(tab[b]) /\ t \in Tables
    BY DEF ReviewInv, TabRow, ToSet
  <2> QED
    BY <2>1 DEF TabHolds, Knows
<1> QED
  BY <1>1, ReviewInvariant, PTL

\* A write that keeps the columns of the table in the panel keeps those its tab has
\* shown of every other table that was offered when it was sent (updateTargetsFor).
THEOREM SpreadKeeps == ReviewSpec => SpreadTakesNothingAway
<1> DEFINE Step == \A i \in DOMAIN save :
              LET s == save[i]
              IN s.at = "passed" /\ save'[i].at = "written" /\ s.seen[s.from.on] \subseteq DOMAIN s.from.draft
                  => \A t \in s.others \cap DOMAIN s.seen : s.seen[t] \subseteq DOMAIN fields'[t]
<1>1. ReviewInv /\ [ReviewNext]_reviewVars => [Step]_reviewVars
  <2> SUFFICES ASSUME ReviewInv, ReviewNext, NEW i \in 1..MaxSaves, save[i].at = "passed",
                      save'[i].at = "written",
                      save[i].seen[save[i].from.on] \subseteq DOMAIN save[i].from.draft,
                      NEW t \in save[i].others \cap DOMAIN save[i].seen
               PROVE  save[i].seen[t] \subseteq DOMAIN fields'[t]
    BY DEF ReviewInv
  <2>1. PICK j \in 1..MaxSaves : SaveWrites(j)
    <3>1. DOMAIN save = 1..MaxSaves
      BY DEF ReviewInv
    <3>2. ~NoneWritten
      BY DEF NoneWritten
    <3> QED
      BY <3>1, <3>2, PersonKeeps, GateKeeps, AnswerKeeps, LostKeeps DEF ReviewNext, Saving
  <2>2. SaveWrites(i)
    BY <2>1, WriteKeeps
  <2>3. t \in Entries(save[i]) /\ DOMAIN fields'[t] = DOMAIN save[i].from.draft
    BY <2>2, WriteKeeps DEF Entries
  <2>4. save[i].seen[t] \subseteq save[i].seen[save[i].from.on]
    BY DEF ReviewInv, SaveHolds
  <2> QED
    BY <2>3, <2>4
<1> QED
  BY <1>1, ReviewInvariant, PTL DEF ReviewSpec, SpreadTakesNothingAway
=============================================================================
