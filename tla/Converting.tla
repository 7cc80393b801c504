----------------------------- MODULE Converting -----------------------------
(***************************************************************************)
(* The screen of a batch that converts (Converting in                      *)
(* request/[requestId]/page.tsx): a result poll that reads the request and *)
(* then its files, schemas and results in queries of their own, one answer *)
(* of the schema poll for the files that will never have a table, what the *)
(* last visit cached, and what the rows, the strip, the rail and the footer*)
(* say of all that.                                                        *)
(*                                                                         *)
(* The tables of a file move together (processors/convert.py).  Merged     *)
(* tables are in Merges.  Nothing spends an allowance yet, so that no      *)
(* batch pauses.                                                           *)
(***************************************************************************)
EXTENDS Naturals, FiniteSets

CONSTANTS
    Documents,        \* the files of the batch
    Remembered,       \* those that this browser confirmed
    TablesIn,         \* [Documents -> the tables a file holds]
    RESULT_POLL_MAX,
    MaxReturns        \* bound: visits to the screen, and "Check again"s

ASSUME ConvertingAssumption ==
    /\ Remembered \subseteq Documents /\ IsFiniteSet(Documents)
    /\ TablesIn \in [Documents -> Nat \ {0}] /\ RESULT_POLL_MAX \in Nat \ {0}

VARIABLES
    fileStage, shaped, results, status,   \* the rows of the server
    kept,         \* the cached answer of a result poll, NoAnswer when there is none
    visit,        \* what this visit started from, and the schema poll's answer
    data,         \* the last good answer of this visit
    asking,       \* the result poll under way
    polls, over,  \* polls made, and whether the loop is "no", "stopped" or "exhausted"
    returns

serverVars == <<fileStage, shaped, results, status>>
pollVars == <<data, asking, polls, over>>
convertingVars == <<serverVars, kept, visit, pollVars, returns>>

(***************************************************************************)
(* The server.  A file that is read gets its shapes, its rows and its      *)
(* conversion in one transaction, since Convert was pressed before.        *)
(***************************************************************************)
ShapesLand(f) ==
    /\ fileStage[f] = "INSPECTING"
    /\ fileStage' = [fileStage EXCEPT ![f] = "CONVERTING"]
    /\ shaped' = shaped \cup {f} /\ results' = [results EXCEPT ![f] = "QUEUED"]
    /\ UNCHANGED <<status, kept, visit, pollVars, returns>>
Converts(f) ==
    /\ fileStage[f] = "CONVERTING"
    /\ fileStage' = [fileStage EXCEPT ![f] = "COMPLETED"] /\ results' = [results EXCEPT ![f] = "DONE"]
    /\ UNCHANGED <<shaped, status, kept, visit, pollVars, returns>>
(* The worker carries the failure to the tables; the sweep does not.       *)
FileFails(f) ==
    /\ fileStage[f] \in {"INSPECTING", "CONVERTING"}
    /\ fileStage' = [fileStage EXCEPT ![f] = "FAILED"]
    /\ \E r \in {results[f], "FAILED"} :
          results' = [results EXCEPT ![f] = IF f \in shaped THEN r ELSE @]
    /\ UNCHANGED <<shaped, status, kept, visit, pollVars, returns>>
HasEnded(f) == fileStage[f] \in {"COMPLETED", "FAILED"}
(* The refresh that has counted the last file; another may come before it, *)
(* or it may come never (RequestStatus).                                   *)
RequestEnds ==
    /\ status = "CONVERTING" /\ \A f \in Documents : HasEnded(f)
    /\ status' = IF \A f \in Documents : fileStage[f] = "FAILED" THEN "FAILED" ELSE "COMPLETED"
    /\ UNCHANGED <<fileStage, shaped, results, kept, visit, pollVars, returns>>

(***************************************************************************)
(* The answers                                                             *)
(***************************************************************************)
NoAnswer == [status |-> "none", rows |-> [f \in Documents |-> "none"]]
NotAsking == [at |-> "idle", left |-> {}, status |-> "none", shaped |-> {},
              files |-> [f \in Documents |-> "INSPECTING"], results |-> [f \in Documents |-> "none"]]

(* The stage of a file's tables: a failed file's have failed, and one      *)
(* without a row waits.                                                    *)
StageOf(a, f) ==
    IF a.files[f] = "FAILED" THEN "FAILED"
    ELSE IF a.results[f] = "none" THEN "QUEUED" ELSE a.results[f]
Answer(a) == [status |-> a.status,
              rows |-> [f \in Documents |-> IF f \in a.shaped THEN StageOf(a, f) ELSE "none"]]
Ended(answer) == answer.status \in {"COMPLETED", "FAILED"}

(***************************************************************************)
(* What the screen shows                                                   *)
(***************************************************************************)
Result == IF data # NoAnswer THEN data ELSE visit.known
Finished == Ended(Result)
NeverComing == visit.noted \cup visit.failed
Listed == {f \in Documents : Result.rows[f] # "none"}
Awaiting == IF Result = NoAnswer \/ Finished THEN {}
            ELSE Remembered \ (Listed \cup NeverComing)
RowState(stage) ==
    CASE stage = "DONE" -> "done" [] stage = "FAILED" -> "convert-failed" [] OTHER -> "converting"
RowOf(f) == CASE f \in Listed -> RowState(Result.rows[f])
              [] f \in Awaiting -> "detecting"
              [] OTHER -> "none"
Count(stages) ==
    Cardinality(UNION {{f} \X (1..TablesIn[f]) : f \in {g \in Documents : Result.rows[g] \in stages}})
Processing == Count({"QUEUED"})
CountedAsDone == Count({"DONE", "FAILED"})
CurrentStage == CASE Processing = 0 /\ CountedAsDone = 0 -> "detect"
                  [] Cardinality(Awaiting) > 0 \/ Processing > 0 -> "process"
                  [] OTHER -> "done"
SaysWaiting == Result.status = "CONVERTING" /\ Processing + Cardinality(Awaiting) > 0
RailPhase == IF Finished THEN "converted" ELSE "converting"
ResultsTicked == RailPhase = "converted"
MergeOffered == Finished /\ Count({"DONE"}) > 0

(***************************************************************************)
(* The visit                                                               *)
(***************************************************************************)
Away == [open |-> FALSE, known |-> NoAnswer, noted |-> {}, failed |-> {}, awaited |-> FALSE]
(* What the schema poll of the batch noted as unreadable before, as far as *)
(* the storage took it (rememberUnreadable).                               *)
Notable == {f \in Documents : fileStage[f] = "FAILED"} \ shaped
ScreenOpened ==
    /\ ~visit.open /\ returns < MaxReturns /\ returns' = returns + 1
    /\ \E noted \in SUBSET Notable :
          visit' = [Away EXCEPT !.open = TRUE, !.known = kept, !.noted = noted, !.awaited = TRUE]
    /\ data' = NoAnswer /\ asking' = NotAsking /\ polls' = 0 /\ over' = "no"
    /\ UNCHANGED <<serverVars, kept>>
ScreenLeft ==
    /\ visit.open
    /\ visit' = Away /\ data' = NoAnswer /\ asking' = NotAsking /\ polls' = 0 /\ over' = "no"
    /\ UNCHANGED <<serverVars, kept, returns>>

(* The one answer of pollSchemas (whose own queries are in Batch); if it   *)
(* fails it is not asked again.                                            *)
ShapesAnswered ==
    /\ visit.awaited /\ visit' = [visit EXCEPT !.awaited = FALSE, !.failed = Notable]
    /\ UNCHANGED <<serverVars, kept, pollVars, returns>>
ShapesFail ==
    /\ visit.awaited /\ visit' = [visit EXCEPT !.awaited = FALSE]
    /\ UNCHANGED <<serverVars, kept, pollVars, returns>>

(***************************************************************************)
(* The result poll (usePoll): one at a time, the request before the rest.  *)
(***************************************************************************)
Queries == {"request", "files", "schemas", "results"}
PollBegins ==
    /\ visit.open /\ over = "no" /\ asking = NotAsking
    /\ asking' = [NotAsking EXCEPT !.at = "asking", !.left = Queries] /\ polls' = polls + 1
    /\ UNCHANGED <<serverVars, kept, visit, data, over, returns>>
\* Mutation: the request is read beside the rest.
ReadsNow(q) == TRUE
ReadsNext(q) == "request" \in asking.left => q = "request"
Query(q) ==
    /\ q \in asking.left /\ ReadsNext(q)
    /\ asking' = [asking EXCEPT
         !.left = @ \ {q},
         !.status = IF q = "request" THEN status ELSE @,
         !.files = IF q = "files" THEN fileStage ELSE @,
         !.shaped = IF q = "schemas" THEN shaped ELSE @,
         !.results = IF q = "results" THEN results ELSE @]
    /\ UNCHANGED <<serverVars, kept, visit, data, polls, over, returns>>
OutOfBudget == IF polls >= RESULT_POLL_MAX THEN "exhausted" ELSE "no"
(* The answer is cached, unless the storage refuses it.                    *)
PollAnswers ==
    /\ asking.at = "asking" /\ asking.left = {}
    /\ LET answer == Answer(asking)
       IN /\ data' = answer /\ kept' \in {kept, answer}
          /\ over' = IF Ended(answer) THEN "stopped" ELSE OutOfBudget
    /\ asking' = NotAsking
    /\ UNCHANGED <<serverVars, visit, polls, returns>>
\* Mutation: a failed poll clears what was there.
PollFailsAndClears ==
    /\ asking.at = "asking"
    /\ data' = NoAnswer /\ asking' = NotAsking /\ over' = OutOfBudget
    /\ UNCHANGED <<serverVars, kept, visit, polls, returns>>
PollFails ==
    /\ asking.at = "asking"
    /\ asking' = NotAsking /\ over' = OutOfBudget
    /\ UNCHANGED <<serverVars, kept, visit, data, polls, returns>>
CheckAgain ==
    /\ over = "exhausted" /\ ~Finished /\ returns < MaxReturns
    /\ over' = "no" /\ polls' = 0 /\ returns' = returns + 1
    /\ UNCHANGED <<serverVars, kept, visit, data, asking>>

----------------------------------------------------------------------------
(* Convert was pressed: a file is being read, in conversion or failed.     *)
ConvertingInit ==
    /\ fileStage \in [Documents -> {"INSPECTING", "CONVERTING", "FAILED"}]
    /\ shaped = {f \in Documents : fileStage[f] = "CONVERTING"}
    /\ results = [f \in Documents |-> IF f \in shaped THEN "QUEUED" ELSE "none"]
    /\ status = "CONVERTING"
    /\ kept = NoAnswer /\ visit = Away /\ data = NoAnswer /\ asking = NotAsking
    /\ polls = 0 /\ over = "no" /\ returns = 0
ConvertingNext ==
    \/ \E f \in Documents : ShapesLand(f) \/ Converts(f) \/ FileFails(f)
    \/ RequestEnds
    \/ ScreenOpened \/ ScreenLeft \/ ShapesAnswered \/ ShapesFail
    \/ \E q \in Queries : Query(q)
    \/ PollBegins \/ PollAnswers \/ PollFails \/ CheckAgain
ConvertingSpec == ConvertingInit /\ [][ConvertingNext]_convertingVars

----------------------------------------------------------------------------
(* What the screen says only of a batch that is over (Results ticked in    *)
(* the rail, Merge offered, nothing waiting in the sentence) is true of    *)
(* the server, and no row is left running, though the queries of a poll    *)
(* read at different times and the sweep leaves the tables of a file it    *)
(* fails as they were ("a tick while the batch is still converting would   *)
(* claim results that have not arrived").                                  *)
FinishedIsFinished ==
    ResultsTicked \/ MergeOffered =>
        /\ \A f \in Documents : HasEnded(f)
        /\ \A f \in Documents : RowOf(f) \notin {"detecting", "converting"}
        /\ ~SaysWaiting /\ CurrentStage # "process"

(* While the screen stays open no row goes back: a listed file is never    *)
(* Detecting again, nor a table that ended converting, whichever polls     *)
(* fail and whatever was cached ("keeps the last good state when a poll    *)
(* fails").                                                                *)
Progress(row) == CASE row \in {"none", "detecting"} -> 0 [] row = "converting" -> 1 [] OTHER -> 2
RowsMoveForward ==
    [][visit.open /\ visit'.open =>
          \A f \in Documents : Progress(RowOf(f)') >= Progress(RowOf(f))]_convertingVars
=============================================================================
