----------------------------- MODULE Downloads -----------------------------
(***************************************************************************)
(* The batch leaving the browser: the dialog that downloads every finished *)
(* table (DownloadAllDialog.tsx), as one CSV each (csv.ts) or as a workbook*)
(* with a sheet each (xlsx.ts).  What stands in the cells is left out.     *)
(***************************************************************************)
EXTENDS Cells, Orders

CONSTANTS
    Exports,        \* what a batch may hold: sequences of file names
    SmallOf,        \* [capital -> its small letter]
    Numerals,       \* the numbers 2, 3, ... as they are written, a character each
    MAX_SHEET_NAME,
    MaxClicks       \* bound: downloads

(* There is always a next number: as many as a batch has tables will do.   *)
ASSUME DownloadsAssumption ==
    /\ MAX_SHEET_NAME \in Nat /\ MAX_SHEET_NAME > 4 /\ MaxClicks \in Nat
    /\ Numerals \in Seq(STRING)
    /\ \A i, j \in DOMAIN Numerals : Numerals[i] = Numerals[j] => i = j
    /\ \A e \in Exports : e \in Seq(Seq(STRING)) /\ Len(e) <= Len(Numerals)

VARIABLES
    tables,     \* the tables of the batch, in the order of the result poll
    finished,   \* those the last poll reported as DONE
    dialog,     \* open, the format chosen, and what it says of the last download
    job,        \* the download under way: its format, tables and answers
    files,      \* what the last download wrote
    clicks

downloadVars == <<tables, finished, dialog, job, files, clicks>>

NoJob == [live |-> FALSE, format |-> "csv", answer |-> <<>>]
DownloadInit ==
    /\ tables \in Exports
    /\ finished = {}
    /\ dialog = [open |-> FALSE, format |-> "csv", done |-> FALSE, failure |-> "none"]
    /\ job = NoJob
    /\ files = <<>>
    /\ clicks = 0

TableFinished == \E i \in DOMAIN tables \ finished :
    /\ finished' = finished \cup {i}
    /\ UNCHANGED <<tables, dialog, job, files, clicks>>

DialogOpened ==
    /\ ~dialog.open /\ finished # {}
    /\ dialog' = [dialog EXCEPT !.open = TRUE]
    /\ UNCHANGED <<tables, finished, job, files, clicks>>
DialogClosed ==
    /\ dialog.open
    /\ dialog' = [dialog EXCEPT !.open = FALSE]
    /\ UNCHANGED <<tables, finished, job, files, clicks>>
FormatChosen == \E format \in {"csv", "xlsx"} \ {dialog.format} :
    /\ dialog.open
    /\ dialog' = [dialog EXCEPT !.format = format]
    /\ UNCHANGED <<tables, finished, job, files, clicks>>

(* The format and the tables are those of the render that was clicked.     *)
DownloadClicked ==
    /\ dialog.open /\ ~job.live /\ clicks < MaxClicks
    /\ job' = [live |-> TRUE, format |-> dialog.format, answer |-> [i \in finished |-> "asked"]]
    /\ dialog' = [dialog EXCEPT !.done = FALSE, !.failure = "none"]
    /\ clicks' = clicks + 1
    /\ UNCHANGED <<tables, finished, files>>

TableAnswered == \E i \in DOMAIN job.answer, said \in {"came", "missing"} :
    /\ job.live /\ job.answer[i] = "asked"
    /\ job' = [job EXCEPT !.answer[i] = said]
    /\ UNCHANGED <<tables, finished, dialog, files, clicks>>

(***************************************************************************)
(* Names of sheets                                                         *)
(***************************************************************************)
Illegal == {"[", "]", ":", "*", "?", "/", "\\"}
WithoutExtension(raw) ==
    LET dots == {i \in 1..(Len(raw) - 1) : raw[i] = "." /\ \A j \in (i + 1)..Len(raw) : raw[j] # "."}
    IN IF dots = {} THEN raw ELSE SubSeq(raw, 1, LeastOf(dots) - 1)
Legal(raw) ==
    LET spaced == [i \in DOMAIN raw |-> IF raw[i] \in Illegal \cup Blanks THEN " " ELSE raw[i]]
        kept == {i \in DOMAIN spaced : ~(i > 1 /\ spaced[i] = " " /\ spaced[i - 1] = " ")}
    IN Trim(AtPlaces(spaced, kept))
Sliced(s, n) == SubSeq(s, 1, IF Len(s) < n THEN Len(s) ELSE n)
Base(raw) == LET base == Sliced(Legal(WithoutExtension(raw)), MAX_SHEET_NAME)
             IN IF base = <<>> THEN <<"S", "h", "e", "e", "t">> ELSE base
Suffix(n) == <<" ", "(", Numerals[n], ")">>

(* Cut before the suffix, so that names that begin alike stay apart.       *)
Candidate(base, n) == Sliced(base, MAX_SHEET_NAME - Len(Suffix(n))) \o Suffix(n)

(* The first number whose name is not taken; a name in other letters, if   *)
(* only their case is another, is another name here.                       *)
SheetName(raw, taken) ==
    LET base == Base(raw)
        free == {n \in DOMAIN Numerals : Candidate(base, n) \notin taken}
    IN IF base \notin taken THEN base ELSE Candidate(base, LeastOf(free))

\* Mutation: a name with a number is not added to those taken.
NumberedNotTaken(order) ==
    LET taken[n \in 0..Len(order)] ==
            IF n = 0 THEN {} ELSE taken[n - 1] \cup {Base(tables[order[n]])}
    IN [n \in 1..Len(order) |-> SheetName(tables[order[n]], taken[n - 1])]

(* The sheets, one after the other, each against the names taken so far.   *)
SheetNames(order) ==
    LET taken[n \in 0..Len(order)] ==
            IF n = 0 THEN {} ELSE taken[n - 1] \cup {SheetName(tables[order[n]], taken[n - 1])}
    IN [n \in 1..Len(order) |-> SheetName(tables[order[n]], taken[n - 1])]

(***************************************************************************)
(* The files                                                               *)
(***************************************************************************)
(* A workbook takes two names for one where only the case of their letters *)
(* is another, and throws at the second: nothing is written then.          *)
Folded(name) == [i \in DOMAIN name |-> IF name[i] \in DOMAIN SmallOf THEN SmallOf[name[i]] ELSE name[i]]
Refused(names) == \E n, m \in DOMAIN names : n # m /\ Folded(names[n]) = Folded(names[m])

Came == {i \in DOMAIN job.answer : job.answer[i] = "came"}

DownloadEnds ==
    /\ job.live /\ \A i \in DOMAIN job.answer : job.answer[i] # "asked"
    /\ LET order == InOrder(Came)
           names == SheetNames(order)
           thrown == job.format = "xlsx" /\ Refused(names)
       IN /\ files' = IF thrown THEN <<>>
                      ELSE [n \in DOMAIN order |->
                              [format |-> job.format,
                               name |-> IF job.format = "xlsx" THEN names[n]
                                        ELSE WithoutExtension(tables[order[n]])]]
          /\ dialog' = [dialog EXCEPT
                          !.done = Came # {} /\ ~thrown,
                          !.failure = IF thrown THEN "nothing"
                                      ELSE IF Came = DOMAIN job.answer THEN "none"
                                      ELSE IF Came = {} THEN "nothing" ELSE "some missing"]
    /\ job' = NoJob
    /\ UNCHANGED <<tables, finished, clicks>>

DownloadNext ==
    \/ TableFinished \/ DialogOpened \/ DialogClosed \/ FormatChosen
    \/ DownloadClicked \/ TableAnswered \/ DownloadEnds

DownloadSpec == DownloadInit /\ [][DownloadNext]_downloadVars

(***************************************************************************)
(* Properties                                                              *)
(***************************************************************************)
(* The tables that came to a workbook are given names of their own, no     *)
(* longer than a tab may be, also where names agree as far as a tab shows  *)
(* them or one file is called as another's second tab would be: so a       *)
(* workbook is refused only where the case of letters is all that tells two*)
(* names apart (sheetName).                                                *)
TabsAreApart ==
    job.live /\ job.format = "xlsx" =>
        LET names == SheetNames(InOrder(Came)) IN
        /\ \A n, m \in DOMAIN names : names[n] = names[m] => n = m
        /\ \A n \in DOMAIN names : Len(names[n]) \in 1..MAX_SHEET_NAME

=============================================================================
