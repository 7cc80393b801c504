------------------------------ MODULE Prepare ------------------------------
(***************************************************************************)
(* The two screens of a request before Convert, over one batch state       *)
(* (request/[requestId]/page.tsx and schemas/page.tsx, ConvertBar.tsx,     *)
(* FileActions.tsx, WontConvertPanel.tsx): what they offer, what they say  *)
(* is still coming, and the gate.  Whether Convert is open is what the     *)
(* server said in the last answer to the schema poll, and the server asks  *)
(* again when it is pressed.                                               *)
(*                                                                         *)
(* The way from one screen to the other is left out: both read one state,  *)
(* and either is a press from the other.                                   *)
(***************************************************************************)
EXTENDS Batch

VARIABLES
    gate,        \* convertAvailable
    read,        \* converted_at is set, as the poll under way read it
    converted,   \* requests.converted_at is set
    noted        \* this browser's card says the batch is converting

gating == <<gate, read, converted, noted>>
prepareVars == <<vars, gating>>

----------------------------------------------------------------------------
(* What the screens say.                                                   *)

Accepted == {f \in Files : row[f].stage \notin {"none", "rejected"}}
FilesTicked == Accepted # {} /\ \A f \in Accepted : row[f].stage = "uploaded"

(* The files that have settled are counted, not looked up.                 *)
SchemasTicked == Accepted # {} /\ Cardinality(SettledFileIds) >= Cardinality(Accepted)

(* A card for each file still to be read, or for those the server counts   *)
(* when no row here stands for any.  Before the first answer of a loop,    *)
(* for nobody; that an earlier loop had failed is left out.                *)
Awaiting == {f \in Accepted : row[f].stage # "failed" /\ row[f].id \notin SettledFileIds}
Unnamed == Awaiting = {} /\ pending
Wont == {i \in Ids : wont[i] # "no"}
Blank == /\ got = {} /\ Awaiting = {} /\ ~Unnamed /\ Wont = {}
         /\ poll.n <= 1 /\ poll.at # "ended"
Detecting == Awaiting # {} \/ Unnamed \/ Blank

ConvertOffered == gate

----------------------------------------------------------------------------
(* The gate is arrival, not inspection.                                    *)
Arriving(stage) == {i \in DOMAIN stage : stage[i] = "UPLOADING"}
StagesNow == [i \in Live |-> server[i].stage]
GateOf(stage, isConverted) == DOMAIN stage # {} /\ Arriving(stage) = {} /\ ~isConverted

(* The poll reads the request first, and its answer carries the gate.      *)
PollAsks == /\ read' = IF poll.at = "asking" THEN converted ELSE read
            /\ (PollReadsFiles \/ PollReadsSchemas)
            /\ UNCHANGED <<gate, converted, noted>>

\* Mutation: the gate is worked out from the files of the delta.
PollTellsOfTheDelta ==
    /\ PollAnswered
    /\ gate' = GateOf([i \in Fresh |-> poll.files[i]], read)
    /\ UNCHANGED <<read, converted, noted>>

PollTells ==
    /\ PollAnswered
    /\ gate' = GateOf(poll.files, read) /\ read' = FALSE
    /\ UNCHANGED <<converted, noted>>

PollIsLost ==
    /\ PollFails
    /\ read' = FALSE
    /\ UNCHANGED <<gate, converted, noted>>

(* What the screens offer.                                                 *)
Person ==
    /\ \/ \E S \in SUBSET (Files \ Dropped) : AddFiles(S)
       \/ \E f \in Files : RetryUpload(f)
       \/ Retryable # {} /\ (RetryAllUploads \/ DiscardFailed)
       \/ \E i \in Wont : DiscardFiles({i})
       \/ Cardinality(Wont) > 1 /\ DiscardFiles(Wont)
    /\ UNCHANGED gating

(* Convert: the server converts, says again that it has, or refuses (with  *)
(* no file left, always), and a note is made when the answer arrives.  The *)
(* way there is no wait of its own: what it is pressed on is as old as the *)
(* last answer already.                                                    *)
Convert ==
    /\ ConvertOffered
    /\ converted' = (converted \/ GateOf(StagesNow, FALSE))
    /\ \/ noted' = (converted' /\ Live # {}) /\ UNCHANGED faults
       \/ faults < MaxFaults /\ faults' = faults + 1 /\ UNCHANGED noted
    /\ UNCHANGED <<row, run, uploading, screen, poll, covered, kept, open, server, twice, gate, read>>

(* A reload starts the poll and the gate anew; the card is on the disk.    *)
ReloadPage ==
    /\ Reload
    /\ gate' = FALSE /\ read' = FALSE
    /\ UNCHANGED <<converted, noted>>

----------------------------------------------------------------------------
PrepareInit == /\ Init
               /\ gate = FALSE /\ read = FALSE
               /\ converted = FALSE /\ noted = FALSE

(* With the note the results take over, and both screens are a record.     *)
PrepareNext ==
    /\ ~noted
    /\ \/ open /\ (\/ \E k \in 1..MaxRuns : Uploads(k) /\ UNCHANGED gating
                   \/ PollAsks \/ PollTells \/ PollIsLost
                   \/ Person \/ Convert \/ ReloadPage)
       \/ (InspectSome \/ \E k \in 1..MaxRuns : Calls(k)) /\ UNCHANGED gating

PrepareSpec == PrepareInit /\ [][PrepareNext]_prepareVars

----------------------------------------------------------------------------
(* When the poll has stopped by itself, every row says Uploaded and the    *)
(* rows are the files of the request, nobody is left waiting: Convert is   *)
(* open, no card is still read, and Schemas is ticked beside Files.  Each  *)
(* is worked out from answers of which the last may be from before a file  *)
(* landed (allShapesIn, restartedFor, convertAvailable).                   *)
SettledIsOpen ==
    /\ poll.at = "ended" /\ ~poll.exhausted
    /\ FilesTicked /\ Live = {row[f].id : f \in Accepted}
    /\ ~converted
    => gate /\ ~Detecting /\ SchemasTicked
=============================================================================
