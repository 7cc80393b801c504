------------------------------ MODULE ZampProof ------------------------------
(***************************************************************************)
(* The deployed workers, for any number of deliveries and of tables: what  *)
(* a person has saved stays (EditSurvives), a file in conversion never     *)
(* goes back before it (ConvertedStays), and each table of a completed     *)
(* file has ended (CompletedSettled).  The invariant says what has been    *)
(* read by the time of each stage (ReadHolds), who may move the file       *)
(* (ClaimHolds) and what a loop has behind it (LoopHolds).                 *)
(***************************************************************************)
EXTENDS Zamp, WellFoundedInduction, TLAPS

Sheets == [fields : {Absent, "detected", "blank", "edited"},
           result : {Absent, "QUEUED", "FILLING", "DONE", "FAILED"}]
Versions == [fields : {Absent, "detected", "blank", "edited"}, approved : BOOLEAN, run : BOOLEAN]
Docs == [stage : {"UPLOADED", "INSPECTING", "SCHEMA_READY", "CONVERTING", "COMPLETED", "FAILED"},
         holder : Roles \cup {NoRole}, lease : {"none", "live", "expired"},
         by : Deliveries \cup {NoRole}, attempts : Nat, max_attempts : Nat]
SheetOK == sheet \in [Ords -> Sheets]

\* Where the loop over the tables is, and where else a role's work may be.
DetectorLoop == {"row", "version", "result", "blank", "seeded"}
ProcessorLoop == {"resolve", "recount", "begin", "filling", "filled"}
DetectorAt == DetectorLoop \cup {"landing", "landed", "carrying"}
ProcessorAt == ProcessorLoop \cup {"completing", "spoilt"}
Jobs == [at : {"idle", "started", "failing", "failed"} \cup DetectorAt \cup ProcessorAt,
         role : Roles \cup {NoRole}, todo : SUBSET Ords, any : BOOLEAN]
InPlace(d) ==
    /\ job[d].at = "started" => job[d].role \in Roles
    /\ job[d].at \in DetectorAt => job[d].role = "inspect"
    /\ job[d].at \in ProcessorAt => job[d].role = "convert"
    /\ job[d].at \in DetectorLoop \cup ProcessorLoop => job[d].todo # {}
TypesHold ==
    /\ doc \in Docs /\ SheetOK
    /\ newest \in [Ords -> Versions]
    /\ job \in [Deliveries -> Jobs] /\ \A d \in Deliveries : InPlace(d)

\* A shape, a conversion and an approved version mean that every table has its
\* row; a detection on its way has one for each table behind it.
AllRead == \A t \in Ords : sheet[t].fields # Absent
ReadBehind(d) ==
    /\ job[d].at \in ProcessorAt \cup {"landing"} => AllRead
    /\ job[d].at = "started" /\ job[d].role = "convert" => AllRead
    /\ job[d].at \in DetectorLoop =>
          \A t \in Ords \ job[d].todo : sheet[t].fields # Absent
    /\ job[d].at \in DetectorLoop \ {"row"} => sheet[Now(d)].fields # Absent
ReadHolds ==
    /\ Locked => doc.stage = "SCHEMA_READY"
    /\ doc.stage \in {"SCHEMA_READY", "CONVERTING", "COMPLETED"} => AllRead
    /\ Settled => AllRead
    /\ \A d \in Deliveries : ReadBehind(d)

\* Work that has the file still to move is the holder's, and nobody else's, until
\* the file has failed under it.
Working(d) == job[d].at \in {"started", "landing"} \cup DetectorLoop \cup ProcessorAt
ClaimHolds ==
    /\ doc.lease = "live" => doc.by \in Deliveries
    /\ \A d \in Deliveries : Working(d) =>
          /\ \A e \in Deliveries : Working(e) => e = d
          /\ \/ doc.stage = ClaimTarget[job[d].role] /\ doc.lease = "live" /\ doc.by = d
             \/ doc.stage = "FAILED"

\* A conversion on its way has ended each table behind it.
HasResult(t) == sheet[t].result \in {"DONE", "FAILED"}
LoopHolds ==
    /\ doc.stage = "COMPLETED" => \A t \in Ords : HasResult(t)
    /\ \A d \in Deliveries :
        /\ job[d].at \in ProcessorLoop => \A t \in Ords \ job[d].todo : HasResult(t)
        /\ job[d].at = "filled" => HasResult(Now(d))
        /\ job[d].at \in {"completing", "spoilt"} => \A t \in Ords : HasResult(t)

ZampInv ==
    /\ TypesHold
    /\ ReadHolds
    /\ ~Overruns => ClaimHolds /\ LoopHolds

-----------------------------------------------------------------------------
\* A loop that has a table left has a next one.
LEMMA LeastNumber ==
  ASSUME NEW S, S \subseteq Nat, S # {}
  PROVE  \E t \in S : \A u \in S : t <= u
<1>1. IsWellFoundedOn(OpToRel(<, Nat), Nat)
  BY NatLessThanWellFounded, Zenon
<1>2. PICK t \in S : \A u \in S : ~(<<u, t>> \in OpToRel(<, Nat))
  BY <1>1, WFMin, Zenon
<1>3. \A u \in S : ~(u < t)
  BY <1>2, Zenon DEF OpToRel
<1> QED
  BY <1>3

\* What a person has saved and what was read is there after a step, and rows
\* keep their type.
LEMMA RowsStep ==
  ASSUME SheetOK, ZampNext
  PROVE  /\ SheetOK'
         /\ \A t \in Ords : sheet[t].fields = "edited" => sheet'[t].fields = "edited"
         /\ \A t \in Ords : sheet[t].fields # Absent => sheet'[t].fields # Absent
<1> DEFINE Kept == /\ SheetOK'
                   /\ \A t \in Ords : /\ sheet[t].fields = "edited" => sheet'[t].fields = "edited"
                                      /\ sheet[t].fields # Absent => sheet'[t].fields # Absent
<1> USE DEF SheetOK, Sheets, Absent
<1> SUFFICES Kept
  OBVIOUS
<1>1. ASSUME UNCHANGED sheet PROVE Kept
  BY <1>1
<1>2. ASSUME NEW t, NEW v \in {"QUEUED", "FILLING", "DONE", "FAILED"},
             sheet' = [sheet EXCEPT ![t].result = v]
      PROVE  Kept
  BY <1>2
<1>3. ASSUME NEW d \in Deliveries, Work(d) PROVE Kept
  <2>1. CASE \E r \in Roles : Take(d, r)
    BY <1>1, <2>1 DEF Take
  <2>2. CASE Detect(d) \/ Defer(d) \/ PersistDetected(d) \/ Land(d) \/ CarryOn(d) \/ CarryNothing(d) \/ Announce(d)
    BY <1>1, <2>2 DEF Detect, Defer, PersistDetected, Land, CarryOn, CarryNothing, Announce
  <2>3. CASE List(d) \/ Resolve(d) \/ RenewLease(d) \/ CloseRun(d) \/ Complete(d)
    BY <1>1, <2>3 DEF List, Resolve, RenewLease, CloseRun, Complete
  <2>4. CASE Spoil(d) \/ Break(d) \/ FailFile(d) \/ Die(d)
    BY <1>1, <2>4 DEF Spoil, Break, FailFile, Die
  <2>5. CASE PersistTable(d)
    BY <2>5 DEF PersistTable, Persisted
  <2>6. CASE SeedResult(d)
    BY <2>6 DEF SeedResult
  <2>7. CASE FailBlank(d) \/ Recount(d) \/ Begin(d) \/ Fill(d) \/ FailTable(d)
    BY <1>2, <2>7 DEF FailBlank, Recount, Begin, Fill, FailTable
  <2>8. CASE FailTables(d)
    BY <2>8 DEF FailTables
  <2> QED
    BY <1>3, <2>1, <2>2, <2>3, <2>4, <2>5, <2>6, <2>7, <2>8 DEF Work, Inspect, ConvertFile
<1>4. ASSUME EditWrites PROVE Kept
  BY <1>4 DEF EditWrites
<1>5. CASE LeaseRunsOut \/ Reap \/ GiveUp \/ Requeue \/ RequeueFails \/ EditGate \/ PressConvert \/ CommitConvert
  BY <1>1, <1>5 DEF LeaseRunsOut, Reap, GiveUp, Requeue, RequeueFails, EditGate, PressConvert, CommitConvert
<1>6. CASE \E r \in Roles : Publish(r) \/ MarkDead(r)
  BY <1>1, <1>6 DEF Publish, MarkDead
<1> QED
  BY <1>3, <1>4, <1>5, <1>6 DEF ZampNext

\* What a person has saved is never replaced by what a detection reads, late or
\* again (persist_table).
THEOREM EditSurvives == ZampSpec => EditIsKept
<1>1. ZampInit => SheetOK
  BY DEF ZampInit, SheetOK, Sheets, Absent
<1>2. SheetOK /\ [ZampNext]_zampVars => SheetOK'
  BY RowsStep DEF SheetOK, zampVars
<1>3. SheetOK /\ [ZampNext]_zampVars
        => [\A t \in Ords : sheet[t].fields = "edited" => sheet'[t].fields = "edited"]_zampVars
  BY RowsStep
<1> QED
  BY <1>1, <1>2, <1>3, PTL DEF ZampSpec, EditIsKept

-----------------------------------------------------------------------------
\* The table a loop is at is one of those it has left.
LEMMA NowIsLeft ==
  ASSUME NEW d, job[d].todo \in SUBSET Ords, job[d].todo # {}
  PROVE  Now(d) \in job[d].todo
<1>1. \E t \in job[d].todo : \A u \in job[d].todo : t <= u
  BY LeastNumber, ZampAssumption
<1> QED
  BY <1>1 DEF Now

\* What NextTable does to the loop it is in.
LEMMA NextTableFacts ==
  ASSUME TypesHold, NEW d \in Deliveries, job[d].todo # {},
         NEW more \in DetectorLoop \cup ProcessorLoop, NEW end \in {"landing", "completing"},
         NEW worked \in BOOLEAN, NextTable(d, more, end, worked)
  PROVE  /\ Now(d) \in job[d].todo /\ Now(d) \in Ords
         /\ job' \in [Deliveries -> Jobs]
         /\ \A e \in Deliveries \ {d} : job'[e] = job[e]
         /\ job'[d].role = job[d].role
         /\ \/ /\ job'[d].at = more
               /\ job'[d].todo = job[d].todo \ {Now(d)} /\ job'[d].todo # {}
            \/ /\ job'[d].at \in {end, IF job[d].role = "inspect" THEN "failing" ELSE "spoilt"}
               /\ job'[d].todo = {} /\ job[d].todo = {Now(d)}
<1>1. Now(d) \in job[d].todo
  BY NowIsLeft DEF TypesHold, Jobs
<1>2. job[d] \in Jobs /\ job \in [Deliveries -> Jobs]
  BY DEF TypesHold
<1> DEFINE left == job[d].todo \ {Now(d)}
<1> DEFINE any == job[d].any \/ worked
<1>3. any \in BOOLEAN
  BY <1>2 DEF Jobs
<1>4. CASE left # {}
  <2>1. job' = [job EXCEPT ![d] = [job[d] EXCEPT !.at = more, !.todo = left, !.any = any]]
    BY <1>4, Zenon DEF NextTable
  <2> HIDE DEF left, any
  <2>2. left \in SUBSET Ords
    BY <1>2 DEF left, Jobs
  <2>3. [job[d] EXCEPT !.at = more, !.todo = left, !.any = any] \in Jobs
    BY <1>2, <1>3, <2>2 DEF Jobs, DetectorAt, ProcessorAt
  <2> QED
    BY <1>1, <1>2, <1>4, <2>1, <2>2, <2>3 DEF Jobs, left
<1>5. CASE left = {}
  <2>1. PICK at \in {end, IF job[d].role = "inspect" THEN "failing" ELSE "spoilt"} :
          job' = [job EXCEPT ![d] = [NoJob EXCEPT !.role = job[d].role, !.at = at]]
    BY <1>5 DEF NextTable
  <2>2. [NoJob EXCEPT !.role = job[d].role, !.at = at] \in Jobs
    BY <1>2, <2>1 DEF Jobs, NoJob, DetectorAt, ProcessorAt
  <2> QED
    BY <1>1, <1>2, <1>5, <2>1, <2>2 DEF Jobs, NoJob
<1> QED
  BY <1>4, <1>5

\* A delivery that goes on keeps its role, its tables and the table it is at.
LEMMA GoesFacts ==
  ASSUME TypesHold, NEW d \in Deliveries,
         NEW at \in {"failing", "failed"} \cup DetectorAt \cup ProcessorAt, Goes(d, at)
  PROVE  /\ job' \in [Deliveries -> Jobs]
         /\ \A e \in Deliveries \ {d} : job'[e] = job[e]
         /\ job'[d].at = at /\ job'[d].role = job[d].role /\ job'[d].todo = job[d].todo
         /\ Now(d)' = Now(d)
BY DEF TypesHold, Jobs, Goes, Now

\* A delivery that is answered leaves nothing behind, and the others alone.
LEMMA LeavesFacts ==
  ASSUME TypesHold, NEW d \in Deliveries, Leaves(d)
  PROVE  /\ job' \in [Deliveries -> Jobs]
         /\ \A e \in Deliveries \ {d} : job'[e] = job[e]
         /\ job'[d] = NoJob
BY DEF TypesHold, Jobs, Leaves, NoJob

\* A delivery's step is its own, and leaves it where its role may be.
LEMMA JobStep ==
  ASSUME TypesHold, NEW d \in Deliveries, Work(d)
  PROVE  /\ job' \in [Deliveries -> Jobs] /\ InPlace(d)'
         /\ \A e \in Deliveries \ {d} : job'[e] = job[e]
<1> DEFINE Fine == /\ job' \in [Deliveries -> Jobs] /\ InPlace(d)'
                   /\ \A e \in Deliveries \ {d} : job'[e] = job[e]
<1> USE DEF Roles
<1>0. job[d] \in Jobs /\ job \in [Deliveries -> Jobs] /\ InPlace(d)
  BY DEF TypesHold
<1>1. ASSUME Leaves(d) PROVE Fine
  BY <1>1, LeavesFacts DEF InPlace, NoJob, DetectorAt, ProcessorAt, DetectorLoop, ProcessorLoop
<1>2. CASE \E r \in Roles : Take(d, r)
  <2>1. PICK r \in Roles : job' = [job EXCEPT ![d] = [NoJob EXCEPT !.at = "started", !.role = r]]
    BY <1>2 DEF Take
  <2>2. [NoJob EXCEPT !.at = "started", !.role = r] \in Jobs
    BY DEF NoJob, Jobs
  <2> QED
    BY <1>0, <2>1, <2>2 DEF InPlace, NoJob, DetectorAt, ProcessorAt, DetectorLoop, ProcessorLoop
<1>3. CASE Defer(d) \/ CarryNothing(d) \/ Announce(d) \/ Complete(d) \/ Spoil(d) \/ FailTables(d) \/ Die(d)
  BY <1>1, <1>3 DEF Defer, CarryNothing, Announce, Complete, Spoil, FailTables, Die
<1>4. CASE Detect(d)
  <2>1. Ords \in SUBSET Ords /\ Ords # {}
    BY ZampAssumption
  <2>2. PICK j \in {[job[d] EXCEPT !.at = "landing"], [job[d] EXCEPT !.at = "row", !.todo = Ords]} :
           job' = [job EXCEPT ![d] = j]
    BY <1>4 DEF Detect
  <2>3. job[d].role = "inspect"
    BY <1>4 DEF Detect
  <2>4. /\ j \in Jobs /\ j.role = "inspect"
        /\ j.at = "landing" \/ (j.at = "row" /\ j.todo = Ords)
    <3>1. /\ [job[d] EXCEPT !.at = "landing"] \in Jobs
          /\ [job[d] EXCEPT !.at = "landing"].role = "inspect"
          /\ [job[d] EXCEPT !.at = "landing"].at = "landing"
      BY <1>0, <2>3 DEF Jobs, DetectorAt
    <3>2. /\ [job[d] EXCEPT !.at = "row", !.todo = Ords] \in Jobs
          /\ [job[d] EXCEPT !.at = "row", !.todo = Ords].role = "inspect"
          /\ [job[d] EXCEPT !.at = "row", !.todo = Ords].at = "row"
          /\ [job[d] EXCEPT !.at = "row", !.todo = Ords].todo = Ords
      BY <1>0, <2>1, <2>3 DEF Jobs, DetectorAt, DetectorLoop
    <3> QED
      BY <2>2, <3>1, <3>2
  <2>5. job'[d] = j /\ job' \in [Deliveries -> Jobs] /\ \A e \in Deliveries \ {d} : job'[e] = job[e]
    BY <1>0, <2>2, <2>4
  <2> QED
    BY <2>1, <2>4, <2>5 DEF InPlace, DetectorAt, ProcessorAt, DetectorLoop, ProcessorLoop
<1>5. CASE List(d)
  BY <1>0, <1>5 DEF List, TablesToConvert, InPlace, Jobs, DetectorAt, ProcessorAt, DetectorLoop, ProcessorLoop
<1>6. CASE Break(d)
  BY <1>0, <1>6 DEF Break, InPlace, NoJob, Jobs, DetectorAt, ProcessorAt, DetectorLoop, ProcessorLoop
<1>7. CASE PersistTable(d) \/ PersistDetected(d) \/ Land(d) \/ CarryOn(d)
  <2>1. \/ Goes(d, "version") /\ job[d].at = "row"
        \/ Goes(d, "blank") /\ job[d].at = "row"
        \/ Goes(d, "result") /\ job[d].at = "version"
        \/ Goes(d, "landed") /\ job[d].at = "landing"
        \/ Goes(d, "carrying") /\ job[d].at = "landed"
    BY <1>7 DEF PersistTable, PersistDetected, Land, CarryOn
  <2> QED
    BY <1>0, <2>1, GoesFacts DEF InPlace, DetectorAt, ProcessorAt, DetectorLoop, ProcessorLoop
<1>8. CASE Resolve(d) \/ Begin(d) \/ Fill(d) \/ FailFile(d)
  <2>1. \/ (Goes(d, "recount") \/ Goes(d, "begin")) /\ job[d].at = "resolve"
        \/ Goes(d, "filling") /\ job[d].at = "begin"
        \/ Goes(d, "filled") /\ job[d].at = "filling"
        \/ Goes(d, "failed") /\ job[d].at = "failing"
    BY <1>8 DEF Resolve, Begin, Fill, FailFile
  <2> QED
    BY <1>0, <2>1, GoesFacts DEF InPlace, DetectorAt, ProcessorAt, DetectorLoop, ProcessorLoop
<1>9. CASE RenewLease(d)
  BY <1>0, <1>9 DEF RenewLease, InPlace
<1>10. CASE SeedResult(d) \/ FailBlank(d)
  <2>1. \/ NextTable(d, "row", "landing", TRUE) /\ job[d].at = "result"
        \/ NextTable(d, "row", "landing", FALSE) /\ job[d].at = "seeded"
        \/ Goes(d, "seeded") /\ job[d].at = "blank"
    BY <1>10 DEF SeedResult, FailBlank
  <2>2. job[d].role = "inspect" /\ job[d].todo # {}
    BY <1>0, <2>1 DEF InPlace, DetectorAt, DetectorLoop
  <2>3. CASE Goes(d, "seeded")
    BY <2>2, <2>3, GoesFacts DEF InPlace, DetectorAt, ProcessorAt, DetectorLoop, ProcessorLoop
  <2>4. ASSUME NEW worked \in BOOLEAN, NextTable(d, "row", "landing", worked) PROVE Fine
    <3>1. "row" \in DetectorLoop
      BY DEF DetectorLoop
    <3> QED
      BY <2>2, <2>4, <3>1, NextTableFacts DEF InPlace, DetectorAt, ProcessorAt, DetectorLoop, ProcessorLoop
  <2> QED
    BY <2>1, <2>3, <2>4
<1>11. CASE Recount(d) \/ CloseRun(d) \/ FailTable(d)
  <2>1. /\ NextTable(d, "resolve", "completing", TRUE) \/ NextTable(d, "resolve", "completing", FALSE)
        /\ job[d].at \in ProcessorLoop
    BY <1>11 DEF Recount, CloseRun, FailTable, ProcessorLoop
  <2>2. job[d].role = "convert" /\ job[d].todo # {}
    BY <1>0, <2>1 DEF InPlace, ProcessorAt
  <2>3. ASSUME NEW worked \in BOOLEAN, NextTable(d, "resolve", "completing", worked) PROVE Fine
    <3>1. "resolve" \in ProcessorLoop
      BY DEF ProcessorLoop
    <3> QED
      BY <2>2, <2>3, <3>1, NextTableFacts DEF InPlace, DetectorAt, ProcessorAt, DetectorLoop, ProcessorLoop
  <2> QED
    BY <2>1, <2>3
<1> QED
  BY <1>2, <1>3, <1>4, <1>5, <1>6, <1>7, <1>8, <1>9, <1>10, <1>11 DEF Work, Inspect, ConvertFile

\* The row of the file keeps its type.
LEMMA DocStep ==
  ASSUME TypesHold, ZampNext
  PROVE  doc' \in Docs
<1> USE DEF Docs, Roles
<1>1. doc \in Docs
  BY DEF TypesHold
<1>2. \A stage \in {"UPLOADED", "SCHEMA_READY", "CONVERTING", "COMPLETED", "FAILED"} : Moved(stage) \in Docs
  BY <1>1 DEF Moved
<1>3. \A stage \in {"UPLOADED", "SCHEMA_READY", "CONVERTING", "COMPLETED", "FAILED"} :
         [doc EXCEPT !.stage = stage] \in Docs
  BY <1>1
<1>4. ASSUME NEW d \in Deliveries, Work(d) PROVE doc' \in Docs
  <2>1. ASSUME NEW r \in Roles, Take(d, r) PROVE doc' \in Docs
    <3>1. ClaimTarget[r] \in {"INSPECTING", "CONVERTING"}
      BY DEF ClaimTarget
    <3>2. \A stage \in {"INSPECTING", "CONVERTING"}, n \in Nat :
             [doc EXCEPT !.stage = stage, !.holder = r, !.lease = "live", !.by = d, !.attempts = n] \in Docs
      BY <1>1
    <3>3. doc.attempts + 1 \in Nat
      BY <1>1
    <3>4. doc' = [doc EXCEPT !.stage = ClaimTarget[r], !.holder = r, !.lease = "live", !.by = d,
                             !.attempts = doc.attempts + 1]
      BY <2>1 DEF Take
    <3> QED
      BY <3>1, <3>2, <3>3, <3>4
  <2>2. CASE RenewLease(d)
    BY <1>1, <2>2 DEF RenewLease
  <2>3. CASE Land(d) \/ Complete(d) \/ Spoil(d) \/ FailFile(d)
    BY <1>2, <2>3 DEF Land, Complete, Spoil, FailFile
  <2>4. CASE CarryOn(d)
    BY <1>3, <2>4 DEF CarryOn
  <2>5. CASE \/ Detect(d) \/ Defer(d) \/ PersistTable(d) \/ PersistDetected(d) \/ SeedResult(d)
             \/ FailBlank(d) \/ CarryNothing(d) \/ Announce(d)
    BY <1>1, <2>5 DEF Detect, Defer, PersistTable, PersistDetected, SeedResult, FailBlank, CarryNothing, Announce
  <2>6. CASE \/ List(d) \/ Resolve(d) \/ Recount(d) \/ Begin(d) \/ Fill(d) \/ CloseRun(d) \/ FailTable(d)
             \/ Break(d) \/ FailTables(d) \/ Die(d)
    BY <1>1, <2>6 DEF List, Resolve, Recount, Begin, Fill, CloseRun, FailTable, Break, FailTables, Die
  <2> QED
    BY <1>4, <2>1, <2>2, <2>3, <2>4, <2>5, <2>6 DEF Work, Inspect, ConvertFile
<1>5. CASE LeaseRunsOut
  BY <1>1, <1>5 DEF LeaseRunsOut
<1>6. CASE Reap \/ GiveUp
  BY <1>2, <1>6 DEF Reap, GiveUp
<1>7. CASE \E r \in Roles : Publish(r) \/ MarkDead(r)
  BY <1>1, <1>3, <1>7 DEF Publish, MarkDead
<1>8. CASE CommitConvert
  BY <1>1, <1>3, <1>8 DEF CommitConvert
<1>9. CASE Requeue \/ RequeueFails \/ EditGate \/ EditWrites \/ PressConvert
  BY <1>1, <1>9 DEF Requeue, RequeueFails, EditGate, EditWrites, PressConvert
<1> QED
  BY <1>4, <1>5, <1>6, <1>7, <1>8, <1>9 DEF ZampNext

\* So do the versions, and one that is approved comes from a conversion.
LEMMA VersionStep ==
  ASSUME TypesHold, ZampNext
  PROVE  /\ newest' \in [Ords -> Versions]
         /\ \/ Settled' => Settled
            \/ \E d \in Deliveries : job[d].at = "resolve"
<1> DEFINE Fine == /\ newest' \in [Ords -> Versions]
                   /\ \/ Settled' => Settled
                      \/ \E d \in Deliveries : job[d].at = "resolve"
<1> USE DEF Versions, Absent
<1>1. newest \in [Ords -> Versions] /\ sheet \in [Ords -> Sheets]
  BY DEF TypesHold, SheetOK
<1>2. ASSUME UNCHANGED newest PROVE Fine
  BY <1>1, <1>2 DEF Settled
<1>3. ASSUME NEW t, NEW completed \in BOOLEAN, RunIs(t, completed) PROVE Fine
  BY <1>1, <1>3 DEF RunIs, Settled
<1>4. ASSUME NEW d \in Deliveries, Work(d) PROVE Fine
  <2>1. CASE PersistDetected(d)
    BY <1>1, <2>1 DEF PersistDetected, NoVersion, Settled
  <2>2. CASE Resolve(d)
    <3>1. Now(d) \in Ords => [fields |-> sheet[Now(d)].fields, approved |-> TRUE, run |-> FALSE] \in Versions
      BY <1>1 DEF Sheets
    <3> QED
      BY <1>1, <2>2, <3>1 DEF Resolve
  <2>3. CASE Begin(d) \/ CloseRun(d) \/ FailTable(d)
    BY <1>3, <2>3 DEF Begin, CloseRun, FailTable
  <2>4. CASE \E r \in Roles : Take(d, r)
    BY <1>2, <2>4 DEF Take
  <2>5. CASE \/ Detect(d) \/ Defer(d) \/ PersistTable(d) \/ SeedResult(d)
             \/ FailBlank(d) \/ Land(d) \/ CarryOn(d) \/ CarryNothing(d) \/ Announce(d)
    BY <1>2, <2>5 DEF Detect, Defer, PersistTable, SeedResult, FailBlank, Land, CarryOn, CarryNothing, Announce
  <2>6. CASE \/ List(d) \/ Recount(d) \/ RenewLease(d) \/ Fill(d) \/ Complete(d)
             \/ Spoil(d) \/ Break(d) \/ FailFile(d) \/ FailTables(d) \/ Die(d)
    BY <1>2, <2>6 DEF List, Recount, RenewLease, Fill, Complete, Spoil, Break, FailFile, FailTables, Die
  <2> QED
    BY <1>4, <2>1, <2>2, <2>3, <2>4, <2>5, <2>6 DEF Work, Inspect, ConvertFile
<1>5. CASE LeaseRunsOut \/ Reap \/ GiveUp \/ Requeue \/ RequeueFails \/ EditGate \/ EditWrites \/ PressConvert \/ CommitConvert
  BY <1>2, <1>5 DEF LeaseRunsOut, Reap, GiveUp, Requeue, RequeueFails, EditGate, EditWrites, PressConvert, CommitConvert
<1>6. CASE \E r \in Roles : Publish(r) \/ MarkDead(r)
  BY <1>2, <1>6 DEF Publish, MarkDead
<1> QED
  BY <1>4, <1>5, <1>6 DEF ZampNext

\* What is not a delivery's step leaves the deliveries alone.
LEMMA OutsideStep ==
  ASSUME ZampNext
  PROVE  UNCHANGED job \/ \E d \in Deliveries : Work(d)
BY DEF ZampNext, LeaseRunsOut, Reap, GiveUp, Requeue, RequeueFails, EditGate, EditWrites, PressConvert,
       CommitConvert, Publish, MarkDead

\* A step keeps every type, and every delivery where its role may be.
LEMMA TypesStep ==
  ASSUME TypesHold, ZampNext
  PROVE  TypesHold'
<1>1. SheetOK'
  BY RowsStep DEF TypesHold
<1>2. doc' \in Docs /\ newest' \in [Ords -> Versions]
  BY DocStep, VersionStep
<1>3. job' \in [Deliveries -> Jobs] /\ \A d \in Deliveries : InPlace(d)'
  <2>1. ASSUME NEW e \in Deliveries, job'[e] = job[e] PROVE InPlace(e)'
    BY <2>1 DEF TypesHold, InPlace
  <2>2. ASSUME NEW d \in Deliveries, Work(d)
        PROVE  job' \in [Deliveries -> Jobs] /\ \A e \in Deliveries : InPlace(e)'
    BY <2>1, <2>2, JobStep
  <2>3. ASSUME UNCHANGED job
        PROVE  job' \in [Deliveries -> Jobs] /\ \A e \in Deliveries : InPlace(e)'
    BY <2>1, <2>3 DEF TypesHold
  <2> QED
    BY <2>2, <2>3, OutsideStep
<1> QED
  BY <1>1, <1>2, <1>3 DEF TypesHold

\* A file comes to its shape by a detection that has landed, and is completed by
\* a conversion that is through.
LEMMA StageStep ==
  ASSUME ZampNext, TypesHold, ReadHolds, doc'.stage \in {"SCHEMA_READY", "CONVERTING", "COMPLETED"}
  PROVE  \/ doc.stage \in {"SCHEMA_READY", "CONVERTING", "COMPLETED"}
         \/ \E d \in Deliveries : job[d].at \in {"landing", "completing"}
<1> DEFINE Before == \/ doc.stage \in {"SCHEMA_READY", "CONVERTING", "COMPLETED"}
                     \/ \E d \in Deliveries : job[d].at \in {"landing", "completing"}
<1>0. doc = [stage |-> doc.stage, holder |-> doc.holder, lease |-> doc.lease, by |-> doc.by,
             attempts |-> doc.attempts, max_attempts |-> doc.max_attempts]
  BY DEF TypesHold, Docs
<1>1. ASSUME doc'.stage = doc.stage PROVE Before
  BY <1>1
<1>2. ASSUME NEW d \in Deliveries, Work(d) PROVE Before
  <2>1. ASSUME NEW r \in Roles, Take(d, r) PROVE Before
    <3>1. doc'.stage = ClaimTarget[r] /\ doc.stage = Claimable[r]
      BY <1>0, <2>1 DEF Take, CanTake
    <3> QED
      BY <3>1 DEF ClaimTarget, Claimable, Roles
  <2>2. CASE Land(d) \/ Complete(d)
    BY <2>2 DEF Land, Complete
  <2>3. CASE Spoil(d) \/ FailFile(d)
    BY <1>0, <2>3 DEF Spoil, FailFile, Moved
  <2>4. CASE CarryOn(d)
    BY <2>4 DEF CarryOn
  <2>5. CASE RenewLease(d)
    BY <1>0, <1>1, <2>5 DEF RenewLease
  <2>6. CASE \/ Detect(d) \/ Defer(d) \/ PersistTable(d) \/ PersistDetected(d) \/ SeedResult(d)
             \/ FailBlank(d) \/ CarryNothing(d) \/ Announce(d)
    BY <1>1, <2>6 DEF Detect, Defer, PersistTable, PersistDetected, SeedResult, FailBlank, CarryNothing, Announce
  <2>7. CASE \/ List(d) \/ Resolve(d) \/ Recount(d) \/ Begin(d) \/ Fill(d) \/ CloseRun(d) \/ FailTable(d)
             \/ Break(d) \/ FailTables(d) \/ Die(d)
    BY <1>1, <2>7 DEF List, Resolve, Recount, Begin, Fill, CloseRun, FailTable, Break, FailTables, Die
  <2> QED
    BY <1>2, <2>1, <2>2, <2>3, <2>4, <2>5, <2>6, <2>7 DEF Work, Inspect, ConvertFile
<1>3. CASE LeaseRunsOut
  BY <1>0, <1>1, <1>3 DEF LeaseRunsOut
<1>4. CASE Reap \/ GiveUp
  BY <1>0, <1>4 DEF Reap, GiveUp, Moved, Expired
<1>5. CASE \E r \in Roles : Publish(r) \/ MarkDead(r)
  BY <1>0, <1>1, <1>5 DEF Publish, MarkDead
<1>6. CASE CommitConvert
  BY <1>1, <1>6 DEF CommitConvert, ReadHolds
<1>7. CASE Requeue \/ RequeueFails \/ EditGate \/ EditWrites \/ PressConvert
  BY <1>1, <1>7 DEF Requeue, RequeueFails, EditGate, EditWrites, PressConvert
<1> QED
  BY <1>2, <1>3, <1>4, <1>5, <1>6, <1>7 DEF ZampNext

\* While Convert holds the row of the file nobody moves it.
LEMMA LockStep ==
  ASSUME ZampNext, TypesHold, ReadHolds
  PROVE  Locked' => doc'.stage = "SCHEMA_READY"
<1>1. ASSUME Locked, UNCHANGED doc PROVE doc'.stage = "SCHEMA_READY"
  BY <1>1 DEF ReadHolds
<1>2. ASSUME NEW d \in Deliveries, Work(d), Locked' PROVE doc'.stage = "SCHEMA_READY"
  <2>1. Locked
    BY <1>2 DEF Work, Inspect, ConvertFile, Take, Detect, Defer, PersistTable, PersistDetected, SeedResult, FailBlank,
       Land, CarryOn, CarryNothing, Announce, List, Resolve, Recount, Begin, RenewLease, Fill, CloseRun, FailTable,
       Complete, Spoil, Break, FailFile, FailTables, Die, Locked, pressVars
  <2>2. UNCHANGED doc
    BY <1>2, <2>1 DEF Work, Inspect, ConvertFile, Take, Detect, Defer, PersistTable, PersistDetected, SeedResult,
       FailBlank, Land, CarryOn, CarryNothing, Announce, List, Resolve, Recount, Begin, RenewLease, Fill, CloseRun,
       FailTable, Complete, Spoil, Break, FailFile, FailTables, Die, Locked
  <2> QED
    BY <1>1, <2>1, <2>2
<1>3. ASSUME PressConvert PROVE Locked' => doc'.stage = "SCHEMA_READY"
  BY <1>3 DEF PressConvert, Locked
<1>4. ASSUME CommitConvert PROVE ~Locked'
  BY <1>4 DEF CommitConvert, Locked
<1>5. CASE LeaseRunsOut \/ Reap \/ GiveUp \/ \E r \in Roles : Publish(r) \/ MarkDead(r)
  <2>1. ASSUME Locked' PROVE Locked
    BY <1>5, <2>1 DEF LeaseRunsOut, Reap, GiveUp, Publish, MarkDead, Locked, pressVars
  <2>2. ASSUME Locked PROVE doc'.stage = doc.stage
    <3>1. doc' = doc \/ doc' = [doc EXCEPT !.lease = "expired", !.by = NoRole]
      BY <1>5, <2>2 DEF LeaseRunsOut, Reap, GiveUp, Publish, MarkDead, Expired
    <3> QED
      BY <3>1 DEF TypesHold, Docs
  <2> QED
    BY <2>1, <2>2 DEF ReadHolds
<1>6. CASE Requeue \/ RequeueFails \/ EditGate \/ EditWrites
  <2>1. UNCHANGED doc /\ (Locked' => Locked)
    BY <1>6 DEF Requeue, RequeueFails, EditGate, EditWrites, Locked, pressVars
  <2> QED
    BY <1>1, <2>1
<1> QED
  BY <1>2, <1>3, <1>4, <1>5, <1>6 DEF ZampNext

\* What a delivery has behind it stays read, and its own step adds to it.
LEMMA ReadBehindStep ==
  ASSUME TypesHold, ReadHolds, ZampNext, NEW d \in Deliveries, Work(d)
  PROVE  ReadBehind(d)'
<1> DEFINE Read(t) == sheet[t].fields # Absent
<1>0. /\ job[d] \in Jobs /\ InPlace(d) /\ ReadBehind(d)
      /\ \A t \in Ords : Read(t) => Read(t)'
      /\ job' \in [Deliveries -> Jobs]
  BY RowsStep, JobStep DEF TypesHold, ReadHolds
<1> DEFINE Free == job'[d].at \notin ProcessorAt \cup DetectorLoop \cup {"landing", "started"}
<1>1. ASSUME Free PROVE ReadBehind(d)'
  BY <1>1 DEF ReadBehind
<1>2. ASSUME AllRead, job'[d].at \notin DetectorLoop PROVE ReadBehind(d)'
  BY <1>0, <1>2 DEF ReadBehind, AllRead
<1>3. ASSUME Leaves(d) PROVE ReadBehind(d)'
  BY <1>1, <1>3, LeavesFacts DEF NoJob, ProcessorAt, ProcessorLoop, DetectorLoop
<1>4. ASSUME NEW r \in Roles, Take(d, r) PROVE ReadBehind(d)'
  <2>1. job'[d] = [NoJob EXCEPT !.at = "started", !.role = r] /\ doc.stage = Claimable[r]
    BY <1>4 DEF Take, CanTake, TypesHold
  <2>2. job'[d].at = "started" /\ job'[d].role = r
    BY <2>1 DEF NoJob
  <2>3. CASE r = "convert"
    <3>1. AllRead
      BY <2>1, <2>3 DEF Claimable, Roles, ReadHolds
    <3> QED
      BY <1>2, <2>2, <3>1 DEF DetectorLoop
  <2>4. CASE r # "convert"
    BY <2>2, <2>4 DEF ReadBehind, ProcessorAt, ProcessorLoop, DetectorLoop
  <2> QED
    BY <2>3, <2>4
<1>5. CASE Detect(d)
  <2>1. CASE Settled
    <3>1. job'[d].at = "landing"
      BY <1>0, <1>5, <2>1 DEF Detect, TypesHold, Jobs
    <3> QED
      BY <1>2, <2>1, <3>1 DEF ReadHolds, DetectorLoop
  <2>2. CASE ~Settled
    <3>1. job'[d].at = "row" /\ job'[d].todo = Ords
      BY <1>0, <1>5, <2>2 DEF Detect, TypesHold, Jobs
    <3> QED
      BY <3>1 DEF ReadBehind, ProcessorAt, ProcessorLoop, DetectorLoop
  <2> QED
    BY <2>1, <2>2
<1>6. CASE PersistTable(d)
  <2>1. Now(d) \in Ords
    BY <1>0, <1>6, NowIsLeft DEF PersistTable, InPlace, DetectorLoop, Jobs
  <2>2. sheet'[Now(d)].fields # Absent
    BY <1>6, <2>1 DEF PersistTable, Persisted, TypesHold, SheetOK, Sheets, Absent
  <2>3. /\ job'[d].at \in {"version", "blank"} /\ job'[d].todo = job[d].todo /\ Now(d)' = Now(d)
    BY <1>6, GoesFacts DEF PersistTable, DetectorAt, DetectorLoop
  <2>4. sheet'[Now(d)].fields # Absent /\ \A t \in Ords \ job[d].todo : sheet'[t].fields # Absent
    BY <1>0, <1>6, <2>2, <2>3 DEF PersistTable, ReadBehind, DetectorLoop
  <2> QED
    BY <2>3, <2>4 DEF ReadBehind, ProcessorAt, ProcessorLoop
<1>7. ASSUME job[d].at \in DetectorLoop \ {"row"}, NEW at \in DetectorLoop, Goes(d, at)
      PROVE  ReadBehind(d)'
  <2>1. /\ job'[d].at = at /\ job'[d].todo = job[d].todo /\ Now(d)' = Now(d)
    BY <1>7, GoesFacts DEF DetectorAt
  <2>2. Now(d) \in Ords
    BY <1>0, <1>7, NowIsLeft DEF InPlace, Jobs
  <2>3. sheet'[Now(d)].fields # Absent /\ \A t \in Ords \ job[d].todo : sheet'[t].fields # Absent
    BY <1>0, <1>7, <2>2 DEF ReadBehind
  <2> QED
    BY <2>1, <2>3 DEF ReadBehind, ProcessorAt, ProcessorLoop, DetectorLoop
<1>8. ASSUME job[d].at \in DetectorLoop \ {"row"}, NEW worked \in BOOLEAN, NextTable(d, "row", "landing", worked)
      PROVE  ReadBehind(d)'
  <2>1. job[d].role = "inspect" /\ job[d].todo # {} /\ "row" \in DetectorLoop
    BY <1>0, <1>8 DEF InPlace, DetectorAt, DetectorLoop
  <2>2. Now(d) \in Ords
    BY <1>0, <2>1, NowIsLeft DEF Jobs
  <2>3. \A t \in Ords \ (job[d].todo \ {Now(d)}) : sheet'[t].fields # Absent
    BY <1>0, <1>8, <2>2 DEF ReadBehind
  <2>4. \/ job'[d].at = "row" /\ job'[d].todo = job[d].todo \ {Now(d)}
        \/ job'[d].at \in {"landing", "failing"} /\ job[d].todo = {Now(d)}
    BY <1>8, <2>1, NextTableFacts
  <2> QED
    BY <2>3, <2>4 DEF ReadBehind, AllRead, ProcessorAt, ProcessorLoop, DetectorLoop
<1>9. CASE PersistDetected(d) \/ SeedResult(d) \/ FailBlank(d)
  <2>1. job[d].at \in DetectorLoop \ {"row"}
    BY <1>9 DEF PersistDetected, SeedResult, FailBlank, DetectorLoop
  <2>2. \/ \E at \in DetectorLoop : Goes(d, at)
        \/ \E worked \in BOOLEAN : NextTable(d, "row", "landing", worked)
    BY <1>9 DEF PersistDetected, SeedResult, FailBlank, DetectorLoop
  <2> QED
    BY <1>7, <1>8, <2>1, <2>2
<1>10. CASE Land(d) \/ CarryOn(d) \/ FailFile(d)
  <2>1. PICK at \in {"landed", "carrying", "failed"} : Goes(d, at)
    BY <1>10 DEF Land, CarryOn, FailFile
  <2>2. job'[d].at = at
    BY <2>1, GoesFacts DEF DetectorAt
  <2> QED
    BY <1>1, <2>1, <2>2 DEF ProcessorAt, ProcessorLoop, DetectorLoop
<1>11. CASE Break(d)
  <2>1. job'[d].at = "failing"
    BY <1>11 DEF Break, TypesHold, NoJob
  <2> QED
    BY <1>1, <2>1 DEF ProcessorAt, ProcessorLoop, DetectorLoop
<1>12. CASE ConvertFile(d)
  <2>1. AllRead
    BY <1>0, <1>12 DEF ConvertFile, List, Resolve, Recount, Begin, RenewLease, Fill, CloseRun, FailTable, Complete,
                       ReadBehind, ProcessorAt, ProcessorLoop
  <2>2. job[d].role = "convert"
    BY <1>0, <1>12 DEF ConvertFile, List, Resolve, Recount, Begin, RenewLease, Fill, CloseRun, FailTable, Complete,
                       InPlace, ProcessorAt, ProcessorLoop
  <2>3. job'[d].at \notin DetectorLoop
    <3>1. CASE Complete(d)
      BY <3>1, LeavesFacts DEF Complete, NoJob, DetectorLoop
    <3>2. CASE List(d)
      BY <1>0, <3>2 DEF List, TypesHold, Jobs, DetectorLoop
    <3>3. CASE Resolve(d) \/ Begin(d) \/ Fill(d)
      <4>1. PICK at \in {"recount", "begin", "filling", "filled"} : Goes(d, at)
        BY <3>3 DEF Resolve, Begin, Fill
      <4>2. job'[d].at = at
        BY <4>1, GoesFacts DEF ProcessorAt, ProcessorLoop
      <4> QED
        BY <4>1, <4>2 DEF DetectorLoop
    <3>4. CASE Recount(d) \/ CloseRun(d) \/ FailTable(d)
      <4>1. PICK worked \in BOOLEAN : NextTable(d, "resolve", "completing", worked)
        BY <3>4 DEF Recount, CloseRun, FailTable
      <4>2. job[d].todo # {} /\ "resolve" \in ProcessorLoop
        BY <1>0, <3>4 DEF Recount, CloseRun, FailTable, InPlace, ProcessorLoop
      <4>3. job'[d].at \in {"resolve", "completing", "spoilt"}
        BY <2>2, <4>1, <4>2, NextTableFacts
      <4> QED
        BY <4>3 DEF DetectorLoop
    <3>5. CASE RenewLease(d)
      BY <3>5 DEF RenewLease, DetectorLoop
    <3> QED
      BY <1>12, <3>1, <3>2, <3>3, <3>4, <3>5 DEF ConvertFile
  <2> QED
    BY <1>2, <2>1, <2>3
<1>13. CASE Defer(d) \/ CarryNothing(d) \/ Announce(d) \/ Spoil(d) \/ FailTables(d) \/ Die(d)
  BY <1>3, <1>13 DEF Defer, CarryNothing, Announce, Spoil, FailTables, Die
<1> QED
  BY <1>4, <1>5, <1>6, <1>9, <1>10, <1>11, <1>12, <1>13 DEF Work, Inspect

\* A step keeps what has been read.
LEMMA ReadStep ==
  ASSUME TypesHold, ReadHolds, ZampNext
  PROVE  ReadHolds'
<1>1. AllRead => AllRead'
  BY RowsStep DEF TypesHold, AllRead
<1>2. doc'.stage \in {"SCHEMA_READY", "CONVERTING", "COMPLETED"} => AllRead
  BY StageStep DEF ReadHolds, ReadBehind, ProcessorAt
<1>3. Settled' => AllRead
  BY VersionStep DEF ReadHolds, ReadBehind, ProcessorAt, ProcessorLoop
<1>4. ASSUME NEW e \in Deliveries, job'[e] = job[e] PROVE ReadBehind(e)'
  <2>1. Now(e)' = Now(e)
    BY <1>4 DEF Now
  <2>2. job[e].at \in DetectorLoop => Now(e) \in Ords
    BY NowIsLeft DEF TypesHold, InPlace, Jobs
  <2>3. \A t \in Ords : sheet[t].fields # Absent => sheet'[t].fields # Absent
    BY RowsStep DEF TypesHold
  <2>4. ReadBehind(e)
    BY DEF ReadHolds
  <2> QED
    BY <1>1, <1>4, <2>1, <2>2, <2>3, <2>4 DEF ReadBehind
<1>5. \A d \in Deliveries : ReadBehind(d)'
  BY <1>4, OutsideStep, JobStep, ReadBehindStep
<1> QED
  BY <1>1, <1>2, <1>3, <1>5, LockStep DEF ReadHolds

\* While work ends within its lease, no step takes the file from the one that has
\* it to move, or gives it to a second.
LEMMA ClaimStep ==
  ASSUME TypesHold, ClaimHolds, ReadHolds, ZampNext, ~Overruns
  PROVE  ClaimHolds'
<1> DEFINE Held(d) == Working(d) =>
             /\ \A e \in Deliveries : Working(e) => e = d
             /\ \/ doc.stage = ClaimTarget[job[d].role] /\ doc.lease = "live" /\ doc.by = d
                \/ doc.stage = "FAILED"
<1> DEFINE Owned == doc.lease = "live" => doc.by \in Deliveries
<1>0. /\ doc = [stage |-> doc.stage, holder |-> doc.holder, lease |-> doc.lease, by |-> doc.by,
                attempts |-> doc.attempts, max_attempts |-> doc.max_attempts]
      /\ job \in [Deliveries -> Jobs] /\ \A d \in Deliveries : Held(d) /\ InPlace(d)
  BY DEF TypesHold, Docs, ClaimHolds
\* A step after which the same deliveries are at work, or fewer.
<1>1. ASSUME \A d \in Deliveries : Working(d)' => Working(d) /\ job'[d].role = job[d].role,
             \/ UNCHANGED doc
             \/ doc'.stage = "FAILED" /\ Owned'
             \/ Owned' /\ \A d \in Deliveries : ~Working(d)'
      PROVE  ClaimHolds'
  <2>1. Owned'
    BY <1>1 DEF ClaimHolds
  <2>2. ASSUME NEW d \in Deliveries, Working(d)'
        PROVE  /\ \A e \in Deliveries : Working(e)' => e = d
               /\ \/ doc'.stage = ClaimTarget[job'[d].role] /\ doc'.lease = "live" /\ doc'.by = d
                  \/ doc'.stage = "FAILED"
    BY <1>0, <1>1, <2>2
  <2> QED
    BY <2>1, <2>2 DEF ClaimHolds
<1> USE DEF Roles
\* Nobody is at work on a file that is not being worked on and has not failed.
<1>2. ASSUME doc.stage \notin {"INSPECTING", "CONVERTING"} \/ doc.lease # "live", doc.stage # "FAILED",
             NEW d \in Deliveries
      PROVE  ~Working(d)
  <2>1. ASSUME Working(d) PROVE ClaimTarget[job[d].role] \in {"INSPECTING", "CONVERTING"}
    BY <1>0, <2>1 DEF Working, InPlace, ClaimTarget, DetectorAt
  <2> QED
    BY <1>0, <1>2, <2>1
<1>3. ASSUME NEW d \in Deliveries, Work(d) PROVE ClaimHolds'
  <2>0. \A e \in Deliveries \ {d} : job'[e] = job[e] /\ (Working(e)' <=> Working(e))
    BY <1>3, JobStep DEF Working
  <2>1. ASSUME NEW r \in Roles, Take(d, r) PROVE ClaimHolds'
    <3>1. doc.stage = Claimable[r] /\ doc.lease # "live"
      BY <2>1 DEF Take, CanTake
    <3>2. \A e \in Deliveries : ~Working(e)
      BY <1>2, <3>1 DEF Claimable
    <3>3. doc'.stage = ClaimTarget[r] /\ doc'.lease = "live" /\ doc'.by = d
      BY <1>0, <2>1 DEF Take
    <3>4. job'[d].role = r
      BY <1>0, <2>1 DEF Take, NoJob
    <3> QED
      BY <2>0, <3>2, <3>3, <3>4 DEF ClaimHolds
  <2>2. ASSUME UNCHANGED doc, Working(d)' => Working(d) /\ job'[d].role = job[d].role PROVE ClaimHolds'
    BY <1>1, <2>0, <2>2
  <2>3. ASSUME Leaves(d) PROVE ~Working(d)'
    BY <2>3, LeavesFacts DEF Working, NoJob, ProcessorAt, ProcessorLoop, DetectorLoop
  <2>4. ASSUME NEW at \in {"landed", "carrying", "failed"}, Goes(d, at) PROVE ~Working(d)'
    <3>1. job'[d].at = at
      BY <2>4, GoesFacts DEF DetectorAt
    <3> QED
      BY <3>1 DEF Working, ProcessorAt, ProcessorLoop, DetectorLoop
  <2>5. ASSUME Working(d), ~Working(d)', doc'.lease # "live" PROVE ClaimHolds'
    BY <1>0, <1>1, <2>0, <2>5
  <2>6. CASE Land(d) \/ Complete(d) \/ Spoil(d)
    <3>1. Working(d)
      BY <2>6 DEF Land, Complete, Spoil, Working, ProcessorAt
    <3>2. ~Working(d)'
      BY <2>3, <2>4, <2>6 DEF Land, Complete, Spoil
    <3>3. doc'.lease # "live"
      BY <1>0, <2>6 DEF Land, Complete, Spoil, Moved
    <3> QED
      BY <2>5, <3>1, <3>2, <3>3
  <2>7. CASE FailFile(d)
    <3>1. ~Working(d)'
      BY <2>4, <2>7 DEF FailFile
    <3>2. doc'.stage = "FAILED" /\ doc'.lease # "live"
      BY <1>0, <2>7 DEF FailFile, Moved
    <3> QED
      BY <1>1, <2>0, <3>1, <3>2
  <2>8. CASE CarryOn(d)
    <3>1. ~Working(d)'
      BY <2>4, <2>8 DEF CarryOn
    <3>2. \A e \in Deliveries : ~Working(e)
      BY <1>2, <2>8 DEF CarryOn
    <3>3. doc'.lease = doc.lease /\ doc'.by = doc.by
      BY <1>0, <2>8 DEF CarryOn
    <3> QED
      BY <1>1, <2>0, <3>1, <3>2, <3>3 DEF ClaimHolds
  <2>9. CASE RenewLease(d)
    <3>1. Working(d) /\ UNCHANGED job
      BY <2>9 DEF RenewLease, Working, ProcessorAt, ProcessorLoop
    <3>2. doc'.stage = doc.stage /\ doc'.lease = "live" /\ doc'.by = d
      BY <1>0, <2>9 DEF RenewLease
    <3>3. \A e \in Deliveries : Working(e)' => e = d
      BY <1>0, <3>1 DEF Working
    <3>4. doc.stage = ClaimTarget[job[d].role] \/ doc.stage = "FAILED"
      BY <1>0, <3>1
    <3> QED
      BY <3>1, <3>2, <3>3, <3>4 DEF ClaimHolds
  <2>10. CASE Defer(d) \/ CarryNothing(d) \/ Announce(d) \/ FailTables(d) \/ Die(d)
    BY <2>2, <2>3, <2>10 DEF Defer, CarryNothing, Announce, FailTables, Die
  <2>11. CASE Break(d)
    <3>1. job'[d].at = "failing" /\ UNCHANGED doc
      BY <1>0, <2>11 DEF Break, NoJob
    <3> QED
      BY <2>2, <3>1 DEF Working, ProcessorAt, ProcessorLoop, DetectorLoop
  <2>12. CASE Detect(d) \/ List(d)
    <3>1. UNCHANGED doc /\ Working(d)
      BY <2>12 DEF Detect, List, Working
    <3>2. \/ \E at \in {"landing", "failing"} : job' = [job EXCEPT ![d] = [@ EXCEPT !.at = at]]
          \/ \E at \in {"row", "resolve"}, todo \in {Ords, TablesToConvert} :
                job' = [job EXCEPT ![d] = [@ EXCEPT !.at = at, !.todo = todo]]
      BY <2>12, Zenon DEF Detect, List
    <3>3. job'[d].role = job[d].role
      BY <1>0, <3>2 DEF Jobs
    <3> QED
      BY <2>2, <3>1, <3>3
  <2>13. CASE PersistTable(d) \/ PersistDetected(d) \/ Resolve(d) \/ Begin(d) \/ Fill(d)
    <3>1. UNCHANGED doc /\ Working(d)
      BY <2>13 DEF PersistTable, PersistDetected, Resolve, Begin, Fill, Working, ProcessorAt, ProcessorLoop, DetectorLoop
    <3>2. \E at \in DetectorAt \cup ProcessorAt : Goes(d, at)
      BY <2>13 DEF PersistTable, PersistDetected, Resolve, Begin, Fill, DetectorAt, ProcessorAt, ProcessorLoop, DetectorLoop
    <3> QED
      BY <2>2, <3>1, <3>2, GoesFacts
  <2>14. CASE SeedResult(d) \/ FailBlank(d) \/ Recount(d) \/ CloseRun(d) \/ FailTable(d)
    <3>1. UNCHANGED doc /\ Working(d) /\ job[d].todo # {}
      BY <1>0, <2>14 DEF SeedResult, FailBlank, Recount, CloseRun, FailTable, Working, ProcessorAt, ProcessorLoop,
                         DetectorLoop, InPlace
    <3>2. \/ Goes(d, "seeded")
          \/ \E worked \in BOOLEAN : \/ NextTable(d, "row", "landing", worked)
                                     \/ NextTable(d, "resolve", "completing", worked)
      BY <2>14 DEF SeedResult, FailBlank, Recount, CloseRun, FailTable
    <3>3. job'[d].role = job[d].role
      <4>1. {"row", "resolve"} \subseteq DetectorLoop \cup ProcessorLoop /\ "seeded" \in DetectorAt
        BY DEF DetectorAt, DetectorLoop, ProcessorLoop
      <4>2. CASE Goes(d, "seeded")
        BY <4>1, <4>2, GoesFacts
      <4>3. ASSUME NEW worked \in BOOLEAN, \/ NextTable(d, "row", "landing", worked)
                                            \/ NextTable(d, "resolve", "completing", worked)
            PROVE  job'[d].role = job[d].role
        BY <3>1, <4>1, <4>3, NextTableFacts
      <4> QED
        BY <3>2, <4>2, <4>3
    <3> QED
      BY <2>2, <3>1, <3>3
  <2> QED
    BY <1>3, <2>1, <2>6, <2>7, <2>8, <2>9, <2>10, <2>11, <2>12, <2>13, <2>14 DEF Work, Inspect, ConvertFile
<1>4. ASSUME UNCHANGED job, \/ UNCHANGED doc
                            \/ doc'.stage = "FAILED" /\ Owned'
                            \/ Owned' /\ \A d \in Deliveries : ~Working(d)
      PROVE  ClaimHolds'
  BY <1>1, <1>4 DEF Working
<1>5. CASE LeaseRunsOut
  <2>1. doc'.lease = "expired" /\ doc'.stage = doc.stage /\ UNCHANGED job
    BY <1>0, <1>5 DEF LeaseRunsOut
  <2>2. ASSUME doc.stage # "FAILED", NEW d \in Deliveries PROVE ~Working(d)
    <3>1. ~AtWork(doc.by)
      BY <1>5 DEF LeaseRunsOut
    <3> QED
      BY <1>0, <2>2, <3>1 DEF AtWork, Working, ProcessorAt, ProcessorLoop, DetectorLoop
  <2> QED
    BY <1>4, <2>1, <2>2
<1>6. CASE Reap \/ GiveUp
  <2>1. doc'.lease # "live" /\ UNCHANGED job
    BY <1>0, <1>6 DEF Reap, GiveUp, Moved
  <2>2. \A d \in Deliveries : ~Working(d)
    BY <1>2, <1>6 DEF Reap, GiveUp, Expired
  <2> QED
    BY <1>4, <2>1, <2>2
<1>7. CASE \E r \in Roles : Publish(r) \/ MarkDead(r)
  <2>1. UNCHANGED job /\ (UNCHANGED doc \/ doc' = [doc EXCEPT !.stage = "FAILED"])
    BY <1>7 DEF Publish, MarkDead
  <2>2. ASSUME doc' = [doc EXCEPT !.stage = "FAILED"] PROVE doc'.stage = "FAILED" /\ Owned'
    <3>1. doc'.stage = "FAILED" /\ doc'.lease = doc.lease /\ doc'.by = doc.by
      BY <1>0, <2>2
    <3> QED
      BY <3>1 DEF ClaimHolds
  <2> QED
    BY <1>4, <2>1, <2>2
<1>8. CASE CommitConvert
  <2>1. UNCHANGED job /\ ((UNCHANGED doc) \/ (Locked /\ doc' = [doc EXCEPT !.stage = "CONVERTING"]))
    BY <1>8 DEF CommitConvert
  <2>2. ASSUME Locked, doc' = [doc EXCEPT !.stage = "CONVERTING"]
        PROVE  Owned' /\ \A d \in Deliveries : ~Working(d)
    <3>1. doc'.lease = doc.lease /\ doc'.by = doc.by
      BY <1>0, <2>2
    <3>2. doc.stage = "SCHEMA_READY"
      BY <2>2 DEF ReadHolds
    <3> QED
      BY <1>2, <3>1, <3>2 DEF ClaimHolds
  <2> QED
    BY <1>4, <2>1, <2>2
<1>9. CASE Requeue \/ RequeueFails \/ EditGate \/ EditWrites \/ PressConvert
  BY <1>4, <1>9 DEF Requeue, RequeueFails, EditGate, EditWrites, PressConvert
<1> QED
  BY <1>3, <1>5, <1>6, <1>7, <1>8, <1>9 DEF ZampNext

\* A file in conversion is not moved back before it, for no detection that has one
\* to land is left; and it is completed by the conversion that is through.
LEMMA ForwardStep ==
  ASSUME ZampNext, TypesHold, ReadHolds, ClaimHolds
  PROVE  /\ doc.stage \in {"CONVERTING", "COMPLETED"}
              => doc'.stage \notin {"UPLOADED", "INSPECTING", "SCHEMA_READY"}
         /\ doc'.stage = "COMPLETED" => doc.stage = "COMPLETED" \/ \E d \in Deliveries : Complete(d)
<1> DEFINE Forward == /\ doc.stage \in {"CONVERTING", "COMPLETED"}
                           => doc'.stage \notin {"UPLOADED", "INSPECTING", "SCHEMA_READY"}
                      /\ doc'.stage = "COMPLETED"
                           => doc.stage = "COMPLETED" \/ \E d \in Deliveries : Complete(d)
<1>0. doc = [stage |-> doc.stage, holder |-> doc.holder, lease |-> doc.lease, by |-> doc.by,
             attempts |-> doc.attempts, max_attempts |-> doc.max_attempts]
  BY DEF TypesHold, Docs
<1>1. ASSUME doc'.stage = doc.stage \/ doc'.stage = "FAILED" PROVE Forward
  BY <1>1
<1>2. ASSUME NEW d \in Deliveries, Work(d) PROVE Forward
  <2>1. ASSUME NEW r \in Roles, Take(d, r) PROVE Forward
    <3>1. doc'.stage = ClaimTarget[r] /\ doc.stage = Claimable[r]
      BY <1>0, <2>1 DEF Take, CanTake
    <3> QED
      BY <3>1 DEF ClaimTarget, Claimable, Roles
  <2>2. CASE Land(d)
    <3>1. Working(d) /\ job[d].role = "inspect" /\ doc'.stage = "SCHEMA_READY"
      BY <1>0, <2>2 DEF Land, Working, Moved, TypesHold, InPlace, DetectorAt
    <3>2. doc.stage \notin {"CONVERTING", "COMPLETED"}
      BY <3>1 DEF ClaimHolds, ClaimTarget, Roles
    <3> QED
      BY <3>1, <3>2
  <2>3. CASE Complete(d)
    BY <1>0, <2>3 DEF Complete, Moved
  <2>4. CASE Spoil(d) \/ FailFile(d)
    BY <1>0, <1>1, <2>4 DEF Spoil, FailFile, Moved
  <2>5. CASE CarryOn(d)
    BY <1>0, <2>5 DEF CarryOn
  <2>6. CASE RenewLease(d)
    BY <1>0, <1>1, <2>6 DEF RenewLease
  <2>7. CASE \/ Detect(d) \/ Defer(d) \/ PersistTable(d) \/ PersistDetected(d) \/ SeedResult(d)
             \/ FailBlank(d) \/ CarryNothing(d) \/ Announce(d)
    BY <1>1, <2>7 DEF Detect, Defer, PersistTable, PersistDetected, SeedResult, FailBlank, CarryNothing, Announce
  <2>8. CASE \/ List(d) \/ Resolve(d) \/ Recount(d) \/ Begin(d) \/ Fill(d) \/ CloseRun(d) \/ FailTable(d)
             \/ Break(d) \/ FailTables(d) \/ Die(d)
    BY <1>1, <2>8 DEF List, Resolve, Recount, Begin, Fill, CloseRun, FailTable, Break, FailTables, Die
  <2> QED
    BY <1>2, <2>1, <2>2, <2>3, <2>4, <2>5, <2>6, <2>7, <2>8 DEF Work, Inspect, ConvertFile
<1>3. CASE LeaseRunsOut
  BY <1>0, <1>1, <1>3 DEF LeaseRunsOut
<1>4. CASE Reap \/ GiveUp
  BY <1>0, <1>4 DEF Reap, GiveUp, Moved, Expired
<1>5. CASE \E r \in Roles : Publish(r) \/ MarkDead(r)
  BY <1>0, <1>1, <1>5 DEF Publish, MarkDead
<1>6. CASE CommitConvert
  <2>1. UNCHANGED doc \/ doc'.stage = "CONVERTING"
    BY <1>0, <1>6 DEF CommitConvert
  <2> QED
    BY <1>1, <2>1
<1>7. CASE Requeue \/ RequeueFails \/ EditGate \/ EditWrites \/ PressConvert
  BY <1>1, <1>7 DEF Requeue, RequeueFails, EditGate, EditWrites, PressConvert
<1> QED
  BY <1>2, <1>3, <1>4, <1>5, <1>6, <1>7 DEF ZampNext

\* A table that has ended is at work again only when a conversion begins it.
LEMMA ResultStep ==
  ASSUME TypesHold, ZampNext, NEW t \in Ords, HasResult(t)
  PROVE  HasResult(t)' \/ \E d \in Deliveries : Begin(d) /\ t = Now(d)
<1> USE DEF HasResult, TypesHold, SheetOK, Sheets
<1> SUFFICES ASSUME ~(\E d \in Deliveries : Begin(d) /\ t = Now(d)) PROVE HasResult(t)'
  OBVIOUS
<1>1. ASSUME UNCHANGED sheet PROVE HasResult(t)'
  BY <1>1
<1>2. ASSUME NEW u, NEW v \in {"DONE", "FAILED"}, sheet' = [sheet EXCEPT ![u].result = v]
      PROVE  HasResult(t)'
  BY <1>2
<1>3. ASSUME NEW d \in Deliveries, Work(d) PROVE HasResult(t)'
  <2>1. CASE \E r \in Roles : Take(d, r)
    BY <1>1, <2>1 DEF Take
  <2>2. CASE Detect(d) \/ Defer(d) \/ PersistDetected(d) \/ Land(d) \/ CarryOn(d) \/ CarryNothing(d) \/ Announce(d)
    BY <1>1, <2>2 DEF Detect, Defer, PersistDetected, Land, CarryOn, CarryNothing, Announce
  <2>3. CASE List(d) \/ Resolve(d) \/ RenewLease(d) \/ CloseRun(d) \/ Complete(d)
    BY <1>1, <2>3 DEF List, Resolve, RenewLease, CloseRun, Complete
  <2>4. CASE Spoil(d) \/ Break(d) \/ FailFile(d) \/ Die(d)
    BY <1>1, <2>4 DEF Spoil, Break, FailFile, Die
  <2>5. CASE PersistTable(d)
    <3>1. PICK fields : sheet' = Persisted(Now(d), fields)
      BY <2>5 DEF PersistTable
    <3> QED
      BY <3>1 DEF Persisted
  <2>6. CASE SeedResult(d)
    BY <2>6 DEF SeedResult, Absent
  <2>7. CASE FailBlank(d) \/ Recount(d) \/ Fill(d) \/ FailTable(d)
    BY <1>2, <2>7 DEF FailBlank, Recount, Fill, FailTable
  <2>8. CASE Begin(d)
    BY <2>8 DEF Begin
  <2>9. CASE FailTables(d)
    BY <2>9 DEF FailTables
  <2> QED
    BY <1>3, <2>1, <2>2, <2>3, <2>4, <2>5, <2>6, <2>7, <2>8, <2>9 DEF Work, Inspect, ConvertFile
<1>4. CASE EditWrites
  BY <1>4 DEF EditWrites
<1>5. CASE LeaseRunsOut \/ Reap \/ GiveUp \/ Requeue \/ RequeueFails \/ EditGate \/ PressConvert \/ CommitConvert
  BY <1>1, <1>5 DEF LeaseRunsOut, Reap, GiveUp, Requeue, RequeueFails, EditGate, PressConvert, CommitConvert
<1>6. CASE \E r \in Roles : Publish(r) \/ MarkDead(r)
  BY <1>1, <1>6 DEF Publish, MarkDead
<1> QED
  BY <1>3, <1>4, <1>5, <1>6 DEF ZampNext

\* What a conversion has behind it stays ended, and so does a completed file: a
\* table is begun again by the one delivery that works on the file alone.
LEMMA LoopStep ==
  ASSUME TypesHold, ReadHolds, ClaimHolds, LoopHolds, ZampNext
  PROVE  LoopHolds'
<1> USE DEF Roles
<1> DEFINE Behind(d) ==
             /\ job[d].at \in ProcessorLoop => \A t \in Ords \ job[d].todo : HasResult(t)
             /\ job[d].at = "filled" => HasResult(Now(d))
             /\ job[d].at \in {"completing", "spoilt"} => \A t \in Ords : HasResult(t)
<1>0. /\ TypesHold' /\ job \in [Deliveries -> Jobs] /\ job' \in [Deliveries -> Jobs]
      /\ \A d \in Deliveries : Behind(d) /\ InPlace(d) /\ InPlace(d)'
  BY TypesStep DEF TypesHold, LoopHolds
<1>1. ASSUME NEW d \in Deliveries, Begin(d)
      PROVE  /\ doc.stage # "COMPLETED" /\ Now(d) \in job[d].todo
             /\ \A e \in Deliveries : job[e].at \in ProcessorAt => e = d
  <2>1. Working(d) /\ job[d].role = "convert" /\ job[d].todo # {}
    BY <1>0, <1>1 DEF Begin, Working, InPlace, ProcessorAt, ProcessorLoop
  <2>2. doc.stage # "COMPLETED" /\ \A e \in Deliveries : Working(e) => e = d
    BY <2>1 DEF ClaimHolds, ClaimTarget
  <2>3. Now(d) \in job[d].todo
    BY <1>0, <2>1, NowIsLeft DEF Jobs
  <2> QED
    BY <2>2, <2>3 DEF Working
<1>2. doc'.stage = "COMPLETED" => \A t \in Ords : HasResult(t)'
  <2>1. CASE doc.stage = "COMPLETED"
    BY <1>1, <2>1, ResultStep DEF LoopHolds
  <2>2. CASE doc.stage # "COMPLETED"
    <3>1. doc'.stage = "COMPLETED" => \E d \in Deliveries : Complete(d)
      BY <2>2, ForwardStep
    <3>2. ASSUME NEW d \in Deliveries, Complete(d) PROVE \A t \in Ords : HasResult(t)'
      BY <1>0, <3>2 DEF Complete, HasResult
    <3> QED
      BY <3>1, <3>2
  <2> QED
    BY <2>1, <2>2
\* A delivery that stands where it stood.
<1>3. ASSUME NEW e \in Deliveries, job'[e] = job[e], ~Begin(e) PROVE Behind(e)'
  <2>1. Now(e)' = Now(e)
    BY <1>3 DEF Now
  <2>2. ASSUME job[e].at \in ProcessorAt, NEW t \in Ords, HasResult(t) PROVE HasResult(t)'
    BY <1>1, <1>3, <2>2, ResultStep
  <2>3. job[e].at = "filled" => Now(e) \in Ords
    BY <1>0, NowIsLeft DEF Jobs, InPlace, ProcessorLoop
  <2> QED
    BY <1>0, <1>3, <2>1, <2>2, <2>3 DEF ProcessorAt, ProcessorLoop
\* One that is not, or no longer, converting.
<1>4. ASSUME NEW d \in Deliveries, job'[d].at \notin ProcessorAt PROVE Behind(d)'
  BY <1>4 DEF ProcessorAt, ProcessorLoop
<1>5. ASSUME NEW d \in Deliveries, job'[d].role # "convert" PROVE Behind(d)'
  BY <1>0, <1>4, <1>5 DEF InPlace
\* The step of a loop that has ended its table.
<1>6. ASSUME NEW d \in Deliveries, ~Begin(d), job[d].at \in ProcessorLoop, sheet'[Now(d)].result \in {"DONE", "FAILED"},
             NEW worked \in BOOLEAN, NextTable(d, "resolve", "completing", worked)
      PROVE  Behind(d)'
  <2>1. job[d].todo # {} /\ job[d].role = "convert" /\ "resolve" \in DetectorLoop \cup ProcessorLoop
    BY <1>0, <1>6 DEF InPlace, ProcessorAt, ProcessorLoop
  <2>2. /\ Now(d) \in Ords
        /\ \/ job'[d].at = "resolve" /\ job'[d].todo = job[d].todo \ {Now(d)}
           \/ job'[d].at \in {"completing", "spoilt"} /\ job[d].todo = {Now(d)}
    BY <1>6, <2>1, NextTableFacts
  <2>3. ASSUME NEW t \in Ords \ (job[d].todo \ {Now(d)}) PROVE HasResult(t)'
    <3>1. CASE t = Now(d)
      BY <1>6, <3>1 DEF HasResult
    <3>2. CASE t \notin job[d].todo
      <4>1. HasResult(t)
        BY <1>0, <1>6, <3>2
      <4> QED
        BY <1>1, <1>6, <4>1, ResultStep DEF ProcessorAt
    <3> QED
      BY <2>3, <3>1, <3>2
  <2> QED
    BY <2>2, <2>3 DEF ProcessorLoop
<1>7. ASSUME NEW d \in Deliveries, Work(d) PROVE Behind(d)'
  <2>1. CASE \E r \in Roles : Take(d, r)
    <3>1. job'[d].at = "started"
      BY <1>0, <2>1 DEF Take, NoJob
    <3> QED
      BY <1>4, <3>1 DEF ProcessorAt, ProcessorLoop
  <2>2. CASE Detect(d) \/ Break(d)
    <3>1. job'[d].at \in {"landing", "row", "failing"}
      BY <1>0, <2>2 DEF Detect, Break, NoJob, Jobs
    <3> QED
      BY <1>4, <3>1 DEF ProcessorAt, ProcessorLoop
  <2>3. CASE \/ Defer(d) \/ CarryNothing(d) \/ Announce(d) \/ Complete(d) \/ Spoil(d) \/ FailTables(d) \/ Die(d)
    <3>1. job'[d] = NoJob
      BY <1>0, <2>3 DEF Defer, CarryNothing, Announce, Complete, Spoil, FailTables, Die, Leaves
    <3> QED
      BY <1>5, <3>1, ZampAssumption DEF NoJob
  <2>4. CASE PersistTable(d) \/ PersistDetected(d) \/ Land(d) \/ CarryOn(d) \/ FailFile(d)
    <3>1. \E at \in {"version", "blank", "result", "landed", "carrying", "failed"} : job' = [job EXCEPT ![d].at = at]
      BY <2>4 DEF PersistTable, PersistDetected, Land, CarryOn, FailFile, Goes
    <3>2. job'[d].at \in {"version", "blank", "result", "landed", "carrying", "failed"}
      BY <1>0, <3>1 DEF Jobs
    <3> QED
      BY <1>4, <3>2 DEF ProcessorAt, ProcessorLoop
  <2>5. CASE SeedResult(d) \/ FailBlank(d)
    <3>1. job[d].at \in DetectorLoop /\ job[d].role = "inspect" /\ job[d].todo # {}
      BY <1>0, <2>5 DEF SeedResult, FailBlank, InPlace, DetectorAt, DetectorLoop
    <3>2. Goes(d, "seeded") \/ \E worked \in BOOLEAN : NextTable(d, "row", "landing", worked)
      BY <2>5 DEF SeedResult, FailBlank
    <3>3. job'[d].role = "inspect"
      <4>1. "row" \in DetectorLoop \cup ProcessorLoop /\ "seeded" \in DetectorAt
        BY DEF DetectorAt, DetectorLoop
      <4>2. CASE Goes(d, "seeded")
        BY <3>1, <4>1, <4>2, GoesFacts
      <4>3. ASSUME NEW worked \in BOOLEAN, NextTable(d, "row", "landing", worked) PROVE job'[d].role = "inspect"
        BY <3>1, <4>1, <4>3, NextTableFacts
      <4> QED
        BY <3>2, <4>2, <4>3
    <3> QED
      BY <1>5, <3>3
  <2>6. CASE List(d)
    <3>1. UNCHANGED sheet /\ AllRead
      BY <2>6 DEF List, ReadHolds, ReadBehind
    <3>2. \/ job'[d].at = "failing"
          \/ job'[d].at = "resolve" /\ job'[d].todo = TablesToConvert
      BY <1>0, <2>6 DEF List, Jobs
    <3>3. \A t \in Ords \ TablesToConvert : HasResult(t)'
      BY <3>1 DEF TablesToConvert, HasResult, AllRead
    <3> QED
      BY <3>2, <3>3 DEF ProcessorLoop
  <2>7. CASE RenewLease(d)
    BY <1>3, <2>7 DEF RenewLease, Begin
  <2>8. CASE Resolve(d) \/ Begin(d)
    <3>1. PICK at \in {"recount", "begin", "filling"} : Goes(d, at)
      BY <2>8 DEF Resolve, Begin
    <3>2. at \in ProcessorAt
      BY DEF ProcessorAt, ProcessorLoop
    <3>3. job'[d].at = at /\ job'[d].todo = job[d].todo
      BY <3>1, <3>2, GoesFacts
    <3>4. ASSUME NEW t \in Ords \ job[d].todo PROVE HasResult(t)'
      <4>1. HasResult(t)
        BY <1>0, <2>8 DEF Resolve, Begin, ProcessorLoop
      <4>2. job[d].at \in ProcessorAt
        BY <2>8 DEF Resolve, Begin, ProcessorAt, ProcessorLoop
      <4> QED
        BY <1>1, <4>1, <4>2, ResultStep
    <3> QED
      BY <3>3, <3>4 DEF ProcessorLoop
  <2>9. CASE Fill(d)
    <3>1. job[d].at \in ProcessorLoop /\ job[d].at \in ProcessorAt /\ ~Begin(d) /\ "filled" \in ProcessorAt
      BY <2>9 DEF Fill, Begin, ProcessorAt, ProcessorLoop
    <3>2. job'[d].at = "filled" /\ job'[d].todo = job[d].todo /\ Now(d)' = Now(d)
      BY <2>9, <3>1, GoesFacts DEF Fill
    <3>3. Now(d) \in Ords
      BY <1>0, <3>1, NowIsLeft DEF InPlace, Jobs
    <3>4. HasResult(Now(d))'
      BY <2>9, <3>2, <3>3 DEF Fill, HasResult, TypesHold, SheetOK, Sheets
    <3>5. \A t \in Ords \ job[d].todo : HasResult(t)'
      BY <1>0, <1>1, <3>1, ResultStep
    <3> QED
      BY <3>2, <3>4, <3>5
  <2>10. CASE Recount(d) \/ CloseRun(d) \/ FailTable(d)
    <3>1. job[d].at \in ProcessorLoop
      BY <2>10 DEF Recount, CloseRun, FailTable, ProcessorLoop
    <3>2. Now(d) \in Ords
      BY <1>0, <3>1, NowIsLeft DEF InPlace, Jobs
    <3>3. sheet'[Now(d)].result \in {"DONE", "FAILED"}
      BY <1>0, <2>10, <3>2 DEF Recount, CloseRun, FailTable, HasResult, TypesHold, SheetOK, Sheets
    <3>4. ASSUME Begin(d) PROVE FALSE
      <4>1. sheet \in [Ords -> Sheets] /\ sheet' = [sheet EXCEPT ![Now(d)].result = "FILLING"]
        BY <3>4 DEF Begin, TypesHold, SheetOK
      <4> HIDE DEF Now
      <4>2. sheet'[Now(d)].result = "FILLING"
        BY <3>2, <4>1 DEF Sheets
      <4> QED
        BY <3>3, <4>2
    <3>5. \E worked \in BOOLEAN : NextTable(d, "resolve", "completing", worked)
      BY <2>10 DEF Recount, CloseRun, FailTable
    <3> QED
      BY <1>6, <3>1, <3>3, <3>4, <3>5
  <2> QED
    BY <1>7, <2>1, <2>2, <2>3, <2>4, <2>5, <2>6, <2>7, <2>8, <2>9, <2>10 DEF Work, Inspect, ConvertFile
<1>8. ASSUME NEW e \in Deliveries PROVE Behind(e)'
  <2>1. CASE Work(e)
    BY <1>7, <2>1
  <2>2. CASE ~Work(e)
    <3>1. job'[e] = job[e]
      BY <2>2, OutsideStep, JobStep
    <3>2. ~Begin(e)
      BY <2>2 DEF Work, ConvertFile
    <3> QED
      BY <1>3, <3>1, <3>2
  <2> QED
    BY <2>1, <2>2
<1> QED
  BY <1>2, <1>8 DEF LoopHolds

-----------------------------------------------------------------------------
\* A file that has arrived: nothing read, nobody at work.
LEMMA Initially == ZampInit => ZampInv
<1> SUFFICES ASSUME ZampInit PROVE ZampInv
  OBVIOUS
<1> USE DEF ZampInit, Absent, NoVersion, NoJob
<1>1. TypesHold
  <2>1. doc \in Docs
    BY ZampAssumption DEF Docs, Roles
  <2>2. SheetOK /\ newest \in [Ords -> Versions]
    BY DEF SheetOK, Sheets, Versions
  <2>3. job \in [Deliveries -> Jobs]
    BY DEF Jobs
  <2>4. \A d \in Deliveries : InPlace(d)
    BY DEF InPlace, DetectorAt, ProcessorAt, DetectorLoop, ProcessorLoop
  <2> QED
    BY <2>1, <2>2, <2>3, <2>4 DEF TypesHold
<1>2. \A d \in Deliveries : job[d].at = "idle"
  OBVIOUS
<1>3. ReadHolds
  BY <1>2 DEF ReadHolds, ReadBehind, Locked, Settled, DetectorLoop, ProcessorAt, ProcessorLoop
<1>4. ClaimHolds
  BY <1>2 DEF ClaimHolds, Working, DetectorLoop, ProcessorAt, ProcessorLoop
<1>5. LoopHolds
  BY <1>2 DEF LoopHolds, ProcessorLoop
<1> QED
  BY <1>1, <1>3, <1>4, <1>5 DEF ZampInv

\* What may go wrong is given with the behaviour.
LEMMA MishapStays ==
  ASSUME ZampNext
  PROVE  mishap' = mishap
<1>1. ASSUME NEW d \in Deliveries, Work(d) PROVE mishap' = mishap
  BY <1>1 DEF Work, Inspect, ConvertFile, Take, Detect, Defer, PersistTable, PersistDetected, SeedResult, FailBlank,
     Land, CarryOn, CarryNothing, Announce, List, Resolve, Recount, Begin, RenewLease, Fill, CloseRun, FailTable,
     Complete, Spoil, Break, FailFile, FailTables, Die
<1> QED
  BY <1>1 DEF ZampNext, LeaseRunsOut, Reap, GiveUp, Requeue, RequeueFails, EditGate, EditWrites, PressConvert,
     CommitConvert, Publish, MarkDead

\* No step leaves the invariant.
LEMMA Inductive ==
  ASSUME ZampInv, [ZampNext]_zampVars
  PROVE  ZampInv'
<1>1. CASE ZampNext
  <2>1. TypesHold' /\ ReadHolds'
    BY <1>1, TypesStep, ReadStep DEF ZampInv
  <2>2. ASSUME ~Overruns' PROVE ClaimHolds' /\ LoopHolds'
    <3>1. ~Overruns
      BY <1>1, <2>2, MishapStays DEF Overruns
    <3> QED
      BY <1>1, <3>1, ClaimStep, LoopStep DEF ZampInv
  <2> QED
    BY <2>1, <2>2 DEF ZampInv
<1>2. CASE UNCHANGED zampVars
  <2>1. TypesHold'
    BY <1>2 DEF zampVars, ZampInv, TypesHold, SheetOK, InPlace
  <2>2. \A d \in Deliveries : Now(d)' = Now(d) /\ (Working(d)' <=> Working(d))
    BY <1>2 DEF zampVars, Now, Working
  <2>3. ReadHolds'
    BY <1>2, <2>2 DEF zampVars, ZampInv, ReadHolds, ReadBehind, AllRead, Settled, Locked
  <2>4. ClaimHolds => ClaimHolds'
    BY <1>2, <2>2 DEF zampVars, ClaimHolds
  <2>5. LoopHolds => LoopHolds'
    BY <1>2, <2>2 DEF zampVars, LoopHolds, HasResult
  <2>6. Overruns' = Overruns
    BY <1>2 DEF zampVars, Overruns
  <2> QED
    BY <2>1, <2>3, <2>4, <2>5, <2>6 DEF ZampInv
<1> QED
  BY <1>1, <1>2

\* The two workers keep the invariant, whatever is taken, dies, is reclaimed, is
\* delivered again or is edited meanwhile: the rows and the deliveries keep their
\* types and places, a file that has its shape has every table read, and while work
\* ends within its lease one delivery at most has the file still to move.
THEOREM ZampInvariant == ZampSpec => []ZampInv
BY Initially, Inductive, PTL DEF ZampSpec

\* While work ends within its lease, a file in conversion never goes back before
\* it, whatever comes late or again (the claim's stages, update_stage).
THEOREM ConvertedStays == ZampSpec => ConvertedStaysSo
<1>1. ZampInv /\ [ZampNext]_zampVars
        => [~Overruns /\ doc.stage \in {"CONVERTING", "COMPLETED"}
              => doc'.stage \notin {"UPLOADED", "INSPECTING", "SCHEMA_READY"}]_zampVars
  BY ForwardStep DEF ZampInv
<1> QED
  BY <1>1, ZampInvariant, PTL DEF ZampSpec, ConvertedStaysSo

\* While work ends within its lease, each table of a completed file has ended, for
\* any number of tables and of deliveries (execute, _one_table).
THEOREM CompletedSettled == ZampSpec => []CompletedIsSettled
<1>1. ZampInv => CompletedIsSettled
  BY DEF ZampInv, LoopHolds, HasResult, CompletedIsSettled
<1> QED
  BY <1>1, ZampInvariant, PTL
=============================================================================
