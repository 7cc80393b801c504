------------------------------- MODULE Batch -------------------------------
(***************************************************************************)
(* The files screen of one request in one browser tab                      *)
(* (packages/web/src/state/batch.tsx, with polling.ts, upload.ts and       *)
(* batchFiles.ts) against the two API calls it makes while files go up     *)
(* (uploads.ts), the schema poll (schemas.ts) and the discard.             *)
(*                                                                         *)
(* What runs side by side: any number of upload runs, each signing, PUTting*)
(* and confirming its own files; one poll loop, whose request is answered  *)
(* from two queries on two connections; and the worker.  Any call may fail *)
(* before or after the server has acted on it, and the page may reload.    *)
(* Signing is a read of the request's files, the transactions that make    *)
(* rows, and the answer, and goes on at the server when the browser has    *)
(* given it up; the other calls act at once.                               *)
(*                                                                         *)
(* The stages after SCHEMA_READY answer the poll as it does, and INSPECTING*)
(* as UPLOADED, so the server keeps four.                                  *)
(***************************************************************************)
EXTENDS Naturals, Sequences, FiniteSets, SequencesExt

CONSTANTS
    NumFiles,     \* local files that may be dropped, in the order of the rows
    NameOf,       \* [1..NumFiles -> the file's name]
    Dropped,      \* those handed over by the workspace; the others may be added
    Rejected,     \* those that fail preflight
    Yields,       \* what a readable file may yield: [shapes, blank], sets of tables
    Width,        \* UPLOAD_CONCURRENCY
    MaxPolls,     \* SCHEMA_POLL_MAX
    MaxIds,       \* bound: rows the server may create
    MaxRuns,      \* bound: upload runs and calls given up, under way at once
    MaxFaults     \* bound: calls that fail and reloads of the page

Files == 1..NumFiles
Ids == 1..MaxIds
Tables == UNION {y.shapes \cup y.blank : y \in Yields}

ASSUME BatchAssumption ==
    /\ NumFiles \in Nat /\ Width \in Nat \ {0} /\ MaxPolls \in Nat \ {0}
    /\ Dropped \subseteq Files /\ Rejected \subseteq Files /\ Dropped \ Rejected # {}
    /\ DOMAIN NameOf = Files

VARIABLES
    row,         \* [Files -> row]: the list on the screen
    run,         \* [1..MaxRuns -> upload run]
    uploading,   \* the one flag they share
    got,         \* schemas received, as <<file id, table>>
    wont,        \* [Ids -> why the file will not convert]
    empty,       \* tables reported without a shape
    pending,     \* the last poll found files still being read
    poll,        \* the poll loop
    covered,     \* restartedFor: what had landed when the loop last covered it
    kept,        \* quarry.batch.<id>.files: [Files -> file id or 0]
    open,        \* the batch is open in this tab
    server,      \* sequence of file rows of the request
    faults,
    twice        \* history: files a run took up while another was at work on them

screen == <<got, wont, empty, pending>>
vars == <<row, run, uploading, screen, poll, covered, kept, open, server, faults, twice>>

(* A row of the list: its stage (none, staged, checking, rejected,         *)
(* uploading, uploaded, failed), the file it stands for, and whether this  *)
(* tab still holds the bytes.                                              *)
NoRow == [stage |-> "none", id |-> 0, bytes |-> FALSE]
NewRow(f) == [stage |-> IF f \in Rejected THEN "rejected" ELSE "staged", id |-> 0, bytes |-> TRUE]

Reading == {"UPLOADING", "UPLOADED"}
----------------------------------------------------------------------------
(* What the server does.                                                   *)

Live == {i \in DOMAIN server : ~server[i].deleted}

(* createUploadUrls, what it reads: each name takes one of the rows that   *)
(* bear it, and a name without one is to have a new row (0).  Rows of one  *)
(* call share created_at, so which of them comes first is chance.          *)
Rank(S, f) == Cardinality({g \in S : g <= f /\ NameOf[g] = NameOf[f]})
Bearing(name) == {i \in Live : server[i].name = name}
Unpaired(S) == {f \in S : Rank(S, f) > Cardinality(Bearing(NameOf[f]))}
\* Mutation: a name takes any row of the request.
PairingsOfAny(S) ==
    {[f \in Files |-> IF f \in S /\ Live # {} THEN CHOOSE i \in Live : TRUE ELSE 0]}
\* Mutation: a new row for every name.
PairingsAnew(S) == {[f \in Files |-> 0]}
Pairings(S) ==
    {p \in [Files -> Ids \cup {0}] :
        /\ \A f \in Files : IF f \in S \ Unpaired(S) THEN p[f] \in Bearing(NameOf[f]) ELSE p[f] = 0
        /\ \A f, g \in S : p[f] = p[g] /\ p[f] # 0 => f = g}

(* And what it makes: rows for the files S, in their order.                *)
NewFile(name) == [name |-> name, stage |-> "UPLOADING", stored |-> FALSE, deleted |-> FALSE,
                  shapes |-> {}, blank |-> {}]
NewId(S, f) == Len(server) + Cardinality({g \in S : g <= f})
Created(S) ==
    [i \in 1..(Len(server) + Cardinality(S)) |->
        IF i <= Len(server) THEN server[i]
        ELSE NewFile(NameOf[CHOOSE f \in S : NewId(S, f) = i])]

(* confirmUploads, entry by entry: a row past UPLOADING answers as it is.  *)
Confirmed(ids) ==
    [i \in DOMAIN server |->
        IF i \in ids /\ server[i].stage = "UPLOADING"
        THEN [server[i] EXCEPT !.stage = IF server[i].stored THEN "UPLOADED" ELSE "FAILED"]
        ELSE server[i]]

\* Mutation: the tables with a shape land first.
InspectInTwo(i) ==
    \/ /\ server[i].stage = "UPLOADED"
       /\ \/ server' = [server EXCEPT ![i].stage = "FAILED"]
          \/ \E y \in Yields :
               server' = [server EXCEPT ![i].stage = "SCHEMA_READY", ![i].shapes = y.shapes]
    \/ /\ server[i].stage = "SCHEMA_READY"
       /\ \E y \in Yields : server' = [server EXCEPT ![i].blank = y.blank]

(* The worker answers for a file: all its tables in one transaction, or a  *)
(* failure.  A table of its own may have no shape.                         *)
Inspect(i) ==
    /\ server[i].stage = "UPLOADED"
    /\ \/ server' = [server EXCEPT ![i].stage = "FAILED"]
       \/ \E y \in Yields :
            server' = [server EXCEPT ![i].stage = "SCHEMA_READY",
                                     ![i].shapes = y.shapes, ![i].blank = y.blank]

----------------------------------------------------------------------------
(* What a render works out.                                                *)

Landed(r) == {r[f].id : f \in {g \in Files : r[g].stage = "uploaded"}} \ {0}
LandedKey(r) == [f \in Files |-> IF r[f].stage = "uploaded" THEN r[f].id ELSE 0]
Received == {x[1] : x \in got}
SettledFileIds == Received \cup {i \in Ids : wont[i] # "no"} \cup {x[1] : x \in empty}

AllShapesIn == /\ ~uploading
               /\ Landed(row) # {}
               /\ ~pending
               /\ Landed(row) \subseteq SettledFileIds

PollEnabled(r) == \/ \E f \in Files : r[f].id # 0
                  \/ \A f \in Files : r[f].stage = "none"

(* The n-th poll is due or on its way.  It reads receivedRef when it fires,*)
(* for which its first query will do: only a discard takes a file out of   *)
(* Received, and the query does not list a discarded file.                 *)
Asking(n) == [at |-> "asking", n |-> n, received |-> {}, files |-> <<>>, shapes |-> <<>>,
              stopped |-> FALSE, exhausted |-> FALSE]
PollOff == [Asking(0) EXCEPT !.at = "off"]

\* Mutation: a loop that has stopped stays stopped.
RenderedOnce(r, p) ==
    /\ row' = r
    /\ poll' = IF ~PollEnabled(r) THEN [PollOff EXCEPT !.stopped = p.stopped]
               ELSE IF p.at = "off" THEN [Asking(1) EXCEPT !.stopped = p.stopped] ELSE p
    /\ covered' = covered

(* The effects of a render whose rows are r and whose loop would be p: the *)
(* loop starts or is torn down with `enabled`, and one that has stopped is *)
(* started again when another file has landed.                             *)
Rendered(r, p) ==
    LET on == IF ~PollEnabled(r) THEN [PollOff EXCEPT !.stopped = p.stopped]
              ELSE IF p.at = "off" THEN [Asking(1) EXCEPT !.stopped = p.stopped]
              ELSE p
        fresh == /\ on.stopped
                 /\ Landed(r) # {}
                 /\ LandedKey(r) # covered
    IN /\ row' = r
       /\ poll' = IF fresh THEN (IF PollEnabled(r) THEN Asking(1) ELSE PollOff) ELSE on
       /\ covered' = IF fresh \/ ~on.stopped THEN LandedKey(r) ELSE covered

----------------------------------------------------------------------------
(* Upload runs.                                                            *)

(* A run is idle; its signing is sent, planned (there was no request yet)  *)
(* or replayed; it sends or it confirms.  Each of its files is queued,     *)
(* broken, landed, confirmed, or missed by every confirm so far.  Of a run *)
(* that is lost only the call is left, which the server still works on.    *)
Signing == {"signing", "planned", "replayed"}
NewRun(kind, at, S) ==
    [kind |-> kind, at |-> at, id |-> [f \in Files |-> 0],
     task |-> [f \in Files |-> IF f \in S THEN "queued" ELSE "none"]]
FilesOf(x) == {f \in Files : x.task[f] # "none"}
IdleRun == NewRun("upload", "idle", {})
Lost(x) == [x EXCEPT !.kind = "lost"]
GivenUp(x) == IF x.at \in Signing THEN Lost(x) ELSE IdleRun
Busy(f) == \E k \in 1..MaxRuns : run[k].kind # "lost" /\ f \in FilesOf(run[k])
AtWork(x, f) == x.task[f] \in {"queued", "landed", "missed"}
Begin(x) ==
    /\ \E k \in 1..MaxRuns :
          /\ run[k] = IdleRun /\ \A j \in 1..(k - 1) : run[j] # IdleRun
          /\ run' = [run EXCEPT ![k] = x]
    /\ twice' = twice \cup {f \in FilesOf(x) : \E k \in 1..MaxRuns : AtWork(run[k], f)}
InTask(x, t) == {f \in Files : x.task[f] = t}

(* runUpload: the flag goes up, every staged row is being checked.         *)
Checking(r) == [f \in Files |-> IF r[f].stage = "staged" THEN [r[f] EXCEPT !.stage = "checking"]
                                ELSE r[f]]
StartsUpload(S, r) ==
    /\ Begin(NewRun("upload", "signing", S))
    /\ uploading' = TRUE
    /\ Rendered(Checking(r), poll)

(* The call reads which of its names have rows: none of a new request's.  *)
SignReads(k) ==
    /\ run[k].at = "signing"
    /\ \E p \in Pairings(FilesOf(run[k])) :
        run' = [run EXCEPT ![k].at = IF server = <<>> THEN "planned" ELSE "replayed", ![k].id = p]
    /\ UNCHANGED <<row, uploading, screen, poll, covered, kept, open, server, faults, twice>>

(* A new request and its rows are one transaction, createRequestIfAbsent   *)
(* letting two be; each row added to a request is one of its own.  At the  *)
(* bound on rows a call goes no further.                                   *)
Unmade(x) == {f \in FilesOf(x) : x.id[f] = 0}
Makes(x) == IF x.at = "planned" THEN {FilesOf(x)}
            ELSE IF x.at = "replayed" THEN {{f} : f \in Unmade(x)} ELSE {}
Room(S) == Len(server) + Cardinality(S) <= MaxIds
SignCreates(k) ==
    /\ \E S \in Makes(run[k]) :
        /\ Room(S)
        /\ server' = Created(S)
        /\ run' = [run EXCEPT ![k].at = "replayed",
                              ![k].id = [f \in Files |-> IF f \in S THEN NewId(S, f) ELSE @[f]]]
    /\ UNCHANGED <<row, uploading, screen, poll, covered, kept, open, faults, twice>>

(* A row that has left the screen meanwhile is not brought back.           *)
Signed(x) == [f \in Files |-> IF f \in FilesOf(x) /\ row[f].stage # "none"
                              THEN [row[f] EXCEPT !.stage = "uploading", !.id = x.id[f]] ELSE row[f]]

(* getSignedUrl answers: the rows have their ids and start to send.        *)
SignAnswered(k) ==
    /\ run[k].kind # "lost" /\ run[k].at = "replayed" /\ Unmade(run[k]) = {}
    /\ run' = [run EXCEPT ![k].at = "sending"]
    /\ Rendered(Signed(run[k]), poll)
    /\ UNCHANGED <<uploading, screen, kept, open, server, faults, twice>>

(* It fails, wherever the server is with it: every row being checked, of   *)
(* this run or of another, failed.                                         *)
SignFailed(k) ==
    /\ run[k].kind # "lost" /\ run[k].at \in Signing
    /\ faults < MaxFaults /\ faults' = faults + 1
    /\ run' = [run EXCEPT ![k] = Lost(@)]
    /\ uploading' = FALSE
    /\ Rendered([f \in Files |-> IF row[f].stage = "checking" THEN [row[f] EXCEPT !.stage = "failed"]
                                 ELSE row[f]], poll)
    /\ UNCHANGED <<screen, kept, open, server, twice>>

(* A call nobody waits for is over, done or not.                           *)
SignOver(k) ==
    /\ run[k].kind = "lost"
    /\ run' = [run EXCEPT ![k] = IdleRun]
    /\ UNCHANGED <<row, uploading, screen, poll, covered, kept, open, server, faults, twice>>

(* uploadAll: the first Width of the queue are under way; one of them ends.*)
(* The last one to end lets the flag down, whoever else is uploading.  A   *)
(* retry of one row has no flag and no quiet confirm.                      *)
UnderWay(x) == {f \in InTask(x, "queued") : Cardinality({g \in InTask(x, "queued") : g <= f}) <= Width}

PutEnds(k, f, task, stage) ==
    LET x == [run[k] EXCEPT !.task[f] = task]
        all == InTask(x, "queued") = {}
    IN /\ run' = [run EXCEPT ![k] = IF all THEN [x EXCEPT !.at = "confirming"] ELSE x]
       /\ uploading' = IF all /\ x.kind = "upload" THEN FALSE ELSE uploading
       /\ Rendered([row EXCEPT ![f].stage = IF @ = "none" THEN @ ELSE stage], poll)
       /\ UNCHANGED <<screen, kept, open, twice>>

PutSucceeds(k, f) ==
    /\ run[k].at = "sending" /\ f \in UnderWay(run[k])
    /\ server' = [server EXCEPT ![run[k].id[f]].stored = TRUE]
    /\ PutEnds(k, f, IF run[k].kind = "one" THEN "missed" ELSE "landed", "uploaded")
    /\ UNCHANGED faults

PutFails(k, f) ==
    /\ run[k].at = "sending" /\ f \in UnderWay(run[k])
    /\ faults < MaxFaults /\ faults' = faults + 1
    /\ PutEnds(k, f, "broken", "failed")
    /\ UNCHANGED server

(* What the map on this browser's disk keeps is merged by id.              *)
RememberFiles(ids) ==
    kept' = [f \in Files |-> IF f \in DOMAIN ids THEN ids[f]
                             ELSE IF \E g \in DOMAIN ids : kept[f] = ids[g] THEN 0
                             ELSE kept[f]]
ForgetFiles(S) == kept' = [f \in Files |-> IF kept[f] \in S THEN 0 ELSE kept[f]]

(* The browser hears of confirmed files: rows by id, and what the server   *)
(* agreed is in the bucket is remembered, by id.                           *)
HearConfirm(k, S, s) ==
    LET ids == {run[k].id[f] : f \in S}
        ok == {f \in S : s[run[k].id[f]].stage # "FAILED"}
    IN /\ Rendered([f \in Files |-> IF row[f].id \in ids
                       THEN [row[f] EXCEPT !.stage = IF s[row[f].id].stage = "FAILED" THEN "failed"
                                                     ELSE "uploaded"]
                       ELSE row[f]], poll)
       /\ RememberFiles([f \in ok |-> run[k].id[f]])

(* The quiet confirm of one file: a failure says nothing yet.              *)
QuietConfirm(k, f) ==
    /\ run[k].at \in {"sending", "confirming"} /\ run[k].task[f] = "landed"
    /\ \/ /\ server' = Confirmed({run[k].id[f]})
          /\ run' = [run EXCEPT ![k].task[f] = "confirmed"]
          /\ HearConfirm(k, {f}, server')
          /\ UNCHANGED faults
       \/ /\ faults < MaxFaults /\ faults' = faults + 1
          /\ server' \in {server, Confirmed({run[k].id[f]})}
          /\ run' = [run EXCEPT ![k].task[f] = "missed"]
          /\ UNCHANGED <<row, poll, covered, kept>>
    /\ UNCHANGED <<uploading, screen, open, twice>>

\* Mutation: the run ends on what the quiet confirms said.
ConfirmNothingMore(k) ==
    /\ run[k].at = "confirming" /\ InTask(run[k], "landed") = {}
    /\ run' = [run EXCEPT ![k] = IdleRun]
    /\ UNCHANGED <<row, uploading, screen, poll, covered, kept, open, server, faults, twice>>

(* What no confirm has been heard of gets one more, and that one is loud.  *)
ConfirmMissed(k) ==
    LET missed == InTask(run[k], "missed")
        ids == {run[k].id[f] : f \in missed}
    IN /\ run[k].at = "confirming" /\ InTask(run[k], "landed") = {}
       /\ run' = [run EXCEPT ![k] = IdleRun]
       /\ \/ /\ server' = Confirmed(ids)
             /\ HearConfirm(k, missed, server')
             /\ UNCHANGED faults
          \/ /\ missed # {} /\ faults < MaxFaults /\ faults' = faults + 1
             /\ server' \in {server, Confirmed(ids)}
             /\ Rendered([f \in Files |-> IF row[f].id \in ids
                                          THEN [row[f] EXCEPT !.stage = "failed"] ELSE row[f]], poll)
             /\ UNCHANGED kept
       /\ UNCHANGED <<uploading, screen, open, twice>>

----------------------------------------------------------------------------
(* What a person does.                                                     *)

Added(S) == [f \in Files |-> IF f \in S THEN NewRow(f) ELSE row[f]]
AddFiles(S) ==
    /\ S # {} /\ \A f \in S : row[f].stage = "none" /\ ~Busy(f)
    /\ IF S \subseteq Rejected
       THEN Rendered(Added(S), poll) /\ UNCHANGED <<run, uploading, twice>>
       ELSE StartsUpload(S \ Rejected, Added(S))
    /\ UNCHANGED <<screen, kept, open, server, faults>>

Retryable == {f \in Files : row[f].stage = "failed" /\ row[f].bytes}

(* sendAgain: the rows go back through signing.                            *)
Restaged(S) == [f \in Files |-> IF f \in S THEN [row[f] EXCEPT !.stage = "staged"] ELSE row[f]]
SendAgain(S) ==
    /\ S # {}
    /\ StartsUpload(S, Restaged(S))
    /\ UNCHANGED <<screen, kept, open, server, faults>>

(* retryUpload: a row that has its url goes straight to the bytes.         *)
Retrying(f) == [row EXCEPT ![f].stage = "uploading"]
RetryOne(f) ==
    /\ Begin([NewRun("one", "sending", {f}) EXCEPT !.id[f] = row[f].id])
    /\ Rendered(Retrying(f), poll)
    /\ UNCHANGED <<uploading, screen, kept, open, server, faults>>
RetryUpload(f) ==
    /\ f \in Retryable
    /\ IF row[f].id = 0 THEN SendAgain({f}) ELSE RetryOne(f)

RetryAllUploads == SendAgain(Retryable)

(* closeBatch: nothing is left, so the tab forgets the batch and goes home.*)
CloseBatch ==
    /\ open' = FALSE
    /\ row' = [f \in Files |-> NoRow] /\ run' = [k \in 1..MaxRuns |-> GivenUp(run[k])]
    /\ uploading' = FALSE
    /\ poll' = PollOff /\ covered' = [f \in Files |-> 0]
    /\ kept' = [f \in Files |-> 0]

(* discardFailed: this browser's rows only; no call is made.               *)
Without(S) == [f \in Files |-> IF f \in S THEN NoRow ELSE row[f]]
DiscardFailed ==
    LET r == Without({f \in Files : row[f].stage \in {"failed", "rejected"}})
    IN /\ r # row
       /\ IF \A f \in Files : r[f].stage = "none" THEN CloseBatch
          ELSE Rendered(r, poll) /\ UNCHANGED <<run, uploading, kept, open>>
       /\ UNCHANGED <<screen, server, faults, twice>>

(* discardFiles: the server first, then this browser.  A call that fails   *)
(* leaves the row, whatever the server has done.                           *)
Discarded(S) == [i \in DOMAIN server |->
                    [server[i] EXCEPT !.deleted = server[i].deleted \/ i \in S]]
TakeOut(S) ==
    /\ got' = {x \in got : x[1] \notin S} /\ empty' = {x \in empty : x[1] \notin S}
    /\ wont' = [i \in Ids |-> IF i \in S THEN "no" ELSE wont[i]]
DiscardFiles(S) ==
    /\ server' = Discarded(S)
    /\ \/ /\ IF \A j \in DOMAIN server : server'[j].deleted THEN CloseBatch
             ELSE /\ Rendered(Without({f \in Files : row[f].id \in S}), poll)
                  /\ ForgetFiles(S)
                  /\ UNCHANGED <<run, uploading, open>>
          /\ TakeOut(S)
          /\ UNCHANGED <<pending, faults>>
       \/ /\ faults < MaxFaults /\ faults' = faults + 1
          /\ UNCHANGED <<row, run, uploading, screen, poll, covered, kept, open>>
    /\ UNCHANGED twice

(* A reload: the bytes and every run are gone, the remembered rows come    *)
(* back as uploaded, and the poll starts from nothing.                     *)
Remembered == [f \in Files |-> IF kept[f] = 0 THEN NoRow
                               ELSE [stage |-> "uploaded", id |-> kept[f], bytes |-> FALSE]]
Reload ==
    LET r == Remembered
    IN /\ faults < MaxFaults /\ faults' = faults + 1
       /\ row' = r /\ run' = [k \in 1..MaxRuns |-> GivenUp(run[k])]
       /\ uploading' = FALSE
       /\ got' = {} /\ wont' = [i \in Ids |-> "no"] /\ empty' = {}
       /\ pending' = FALSE
       /\ poll' = Asking(1)
       /\ covered' = LandedKey(r)
       /\ UNCHANGED <<kept, open, server, twice>>

----------------------------------------------------------------------------
(* The schema poll.                                                        *)

(* pollSchemas reads the files and the schemas by two queries at once.     *)
PollReadsFiles ==
    /\ poll.at \in {"asking", "shapes"}
    /\ poll' = [poll EXCEPT !.at = IF @ = "asking" THEN "files" ELSE "answered",
                            !.received = IF poll.at = "asking" THEN Received ELSE @,
                            !.files = [i \in Live |-> server[i].stage]]
    /\ UNCHANGED <<row, run, uploading, screen, covered, kept, open, server, faults, twice>>

PollReadsSchemas ==
    /\ poll.at \in {"asking", "files"}
    /\ poll' = [poll EXCEPT !.at = IF @ = "asking" THEN "shapes" ELSE "answered",
                            !.received = IF poll.at = "asking" THEN Received ELSE @,
                            !.shapes = [i \in DOMAIN server |-> [shapes |-> server[i].shapes,
                                                                 blank |-> server[i].blank]]]
    /\ UNCHANGED <<row, run, uploading, screen, covered, kept, open, server, faults, twice>>

(* What the answer holds.                                                  *)
Unread == {i \in DOMAIN poll.files : poll.files[i] \in Reading}
Fresh == DOMAIN poll.files \ (Unread \cup poll.received)
Broken == {i \in Fresh : poll.files[i] = "FAILED"}
Found(i) == IF i \in DOMAIN poll.shapes THEN poll.shapes[i] ELSE [shapes |-> {}, blank |-> {}]
Nothing == {i \in Fresh \ Broken : Found(i).shapes = {} /\ Found(i).blank = {}}
Ready == Fresh \ (Broken \cup Nothing)

(* The loop goes on, unless it has just stopped or its budget is spent.    *)
Onward(stop) ==
    IF stop \/ poll.n >= MaxPolls
    THEN [Asking(poll.n) EXCEPT !.at = "ended", !.stopped = TRUE, !.exhausted = ~stop]
    ELSE [Asking(poll.n + 1) EXCEPT !.stopped = poll.stopped]

(* A failure that names no table is the file's own, and is kept as it was  *)
(* first told.                                                             *)
FileFailures == [i \in Ids |-> IF wont[i] # "no" THEN wont[i]
                               ELSE IF i \in Broken THEN "failed"
                               ELSE IF i \in Nothing THEN "nothing" ELSE "no"]

(* The answer arrives.  Whether to stop is asked before the screen has     *)
(* rendered it: doneRef is what the last render worked out.                *)
PollAnswered ==
    /\ poll.at = "answered"
    /\ got' = got \cup UNION {{i} \X Found(i).shapes : i \in Ready}
    /\ empty' = empty \cup UNION {{i} \X Found(i).blank : i \in Ready}
    /\ wont' = FileFailures
    /\ pending' = (Unread # {})
    /\ Rendered(row, Onward(AllShapesIn))
    /\ UNCHANGED <<run, uploading, kept, open, server, faults, twice>>

PollFails ==
    /\ poll.at \in {"asking", "files", "shapes", "answered"}
    /\ faults < MaxFaults /\ faults' = faults + 1
    /\ Rendered(row, Onward(FALSE))
    /\ UNCHANGED <<run, uploading, screen, kept, open, server, twice>>

----------------------------------------------------------------------------
Init ==
    /\ row = [f \in Files |-> IF f \in Dropped \ Rejected
                              THEN [NewRow(f) EXCEPT !.stage = "checking"]
                              ELSE IF f \in Dropped THEN NewRow(f) ELSE NoRow]
    /\ run = [k \in 1..MaxRuns |-> IF k = 1 THEN NewRun("upload", "signing", Dropped \ Rejected)
                                  ELSE IdleRun]
    /\ uploading = TRUE
    /\ got = {} /\ wont = [i \in Ids |-> "no"] /\ empty = {} /\ pending = FALSE
    /\ poll = PollOff
    /\ covered = [f \in Files |-> 0] /\ kept = [f \in Files |-> 0]
    /\ open = TRUE /\ server = <<>> /\ faults = 0 /\ twice = {}

InspectSome == /\ \E i \in DOMAIN server : Inspect(i)
               /\ UNCHANGED <<row, run, uploading, screen, poll, covered, kept, open, faults, twice>>

Calls(k) == SignReads(k) \/ SignCreates(k) \/ SignOver(k)
Uploads(k) ==
    \/ SignAnswered(k) \/ SignFailed(k) \/ ConfirmMissed(k)
    \/ \E f \in Files : PutSucceeds(k, f) \/ PutFails(k, f) \/ QuietConfirm(k, f)

----------------------------------------------------------------------------
(* A row that says Uploaded and that nobody is at work on is past UPLOADING*)
(* on the server, after a reload too: it would otherwise stay there with   *)
(* nothing queued to read it (runUpload's second confirm, rememberFiles).  *)
(* Not so a row two runs were at work on at once: each may have made it a  *)
(* file, and what one says of its own is shown for the other's.            *)
UploadedIsConfirmed ==
    \A f \in Files \ twice : row[f].stage = "uploaded" /\ ~Busy(f)
                        => server[row[f].id].stage # "UPLOADING"

(* A file the poll will not be sent again has all its tables here: those   *)
(* with a shape and those without (the delta of pollSchemas).              *)
DeltaIsWhole ==
    \A i \in Received : \A t \in server[i].shapes \cup server[i].blank : <<i, t>> \in got \cup empty

(* A poll that stopped by itself, and not for its budget, has an answer for*)
(* every file that has landed and that the request still has: one that     *)
(* lands later starts it again.  (A row signed while its file was discarded*)
(* stands for a file no poll lists.)                                       *)
StoppedIsSettled ==
    poll.at = "ended" /\ ~poll.exhausted => Landed(row) \cap Live \subseteq SettledFileIds

(* Two rows never stand for one file of the request: getSignedUrl pairs a  *)
(* name with the row it made for it.                                       *)
RowsAreApart == \A f, g \in Files : row[f].id = row[g].id /\ row[f].id # 0 => f = g

(* A row that is signed again keeps the file it was given, while the       *)
(* request still has it: "so a retry pairs each name with the file it      *)
(* already created" (createUploadUrls).  Only rows whose bytes are here    *)
(* are signed; a reload shows what this browser remembers.  Where two calls*)
(* for it were under way at once, neither finds what the other makes.      *)
RetryKeepsItsFile ==
    [][\A f \in Files \ twice :
        /\ row[f].id # 0 /\ ~server[row[f].id].deleted
        /\ row'[f].id # 0 /\ row'[f].bytes
        => row'[f].id = row[f].id]_vars

=============================================================================
