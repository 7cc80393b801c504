--------------------------- MODULE PipelineSafety ---------------------------
(***************************************************************************)
(* What a step does to the row of a file, and what follows for every       *)
(* number of files, deliveries and callers: the tables of a file tell the  *)
(* same story as the file, only the latest claim brings it forward, its    *)
(* attempts bound the messages that are ever written for it, and a file    *)
(* that waits can always still get to a worker.                            *)
(***************************************************************************)
EXTENDS PipelineProof, FiniteSetTheorems

\* What the action of delivery h makes of a row r of its file: s.
ClaimMakes(h, r, s) ==
  /\ ClaimFile(h)
  /\ CanClaim(r, handler[h].role)
  /\ s = Claim(r, handler[h].role, InstanceOf[h])
EndMakes(h, r, s) ==
  /\ handler[h].phase = "working" /\ handler'[h] = Idle
  /\ \/ s = Complete(SeedTables(r), InstanceOf[h], "SCHEMA_READY")
     \/ /\ Complete(SeedTables(r), InstanceOf[h], "SCHEMA_READY").stage = "SCHEMA_READY"
        /\ s = [ Complete(SeedTables(r), InstanceOf[h], "SCHEMA_READY") EXCEPT !.stage = "CONVERTING" ]
     \/ /\ handler[h].role = "convert"
        /\ s = Complete(FinishTables(r), InstanceOf[h], "COMPLETED")
     \/ /\ MayRelease(r, InstanceOf[h])
        /\ s = Release(r, InstanceOf[h], BackTo(handler[h].role))

\* What a step may make of the row of file f.
RowMoves(f) ==
  LET r == file[f]
      s == file'[f] IN
  \/ s = r
  \/ r.stage = "UPLOADING" /\ s = [ r EXCEPT !.stage = "UPLOADED" ]
  \/ r.stage = "SCHEMA_READY" /\ s = [ r EXCEPT !.stage = "CONVERTING" ]
  \/ s = [ r EXCEPT !.stage = "FAILED" ]
  \/ s = Fail(r) \/ s = FailTables(Fail(r))
  \/ r.lease = "live" /\ s = [ r EXCEPT !.lease = "expired" ]
  \/ /\ Abandoned(r)
     /\ s = [ r EXCEPT !.stage = IF r.stage = "INSPECTING" THEN "UPLOADED" ELSE "CONVERTING",
                       !.claimedBy = NoOne, !.lease = "none" ]
  \/ \E h \in Handlers :
       /\ handler[h] \in Delivery /\ handler[h].file = f
       /\ s = Renew(r, InstanceOf[h]) \/ ClaimMakes(h, r, s) \/ EndMakes(h, r, s)

\* What a step may make of a delivery: it works on after it has claimed its file.
DeliveryMoves(h) ==
  \/ handler'[h].phase # "working"
  \/ /\ handler[h].phase = "working"
     /\ << handler'[h].file, handler'[h].role, handler'[h].attempts >> =
        << handler[h].file, handler[h].role, handler[h].attempts >>
  \/ /\ handler[h] \in Delivery
     /\ << handler'[h].file, handler'[h].role >> = << handler[h].file, handler[h].role >>
     /\ handler'[h].attempts = file[handler[h].file].attempts + 1
     /\ ClaimMakes(h, file[handler[h].file], file'[handler[h].file])

-----------------------------------------------------------------------------
\* A delivery's action moves the row of its own file.
LEMMA WorkMoves ==
  ASSUME Frame, NEW h \in Handlers, Work(h)
  PROVE  /\ \A f \in Files : RowMoves(f)
         /\ \A g \in Handlers : DeliveryMoves(g)
<1> DEFINE d == handler[h]
           f == d.file
           inst == InstanceOf[h]
<1>1. TypeOK /\ d \in Delivery /\ f \in Files /\ file[f] \in FileRow
  BY WorkSteps DEF Frame, Delivery, TypeOK
<1>2. /\ \A g \in Files : g # f => file'[g] = file[g]
      /\ \A row : file' = [ file EXCEPT ![f] = row ] => file'[f] = row
      /\ \A g \in Handlers : g # h => handler'[g] = handler[g]
      /\ \A e : handler' = [ handler EXCEPT ![h] = e ] => handler'[h] = e
  BY <1>1, WorkSteps DEF RowStep, Finished, TypeOK
<1>3. \A g \in Handlers : g # h => DeliveryMoves(g)
  BY <1>2 DEF DeliveryMoves
<1>4. ASSUME RowMoves(f), DeliveryMoves(h)
      PROVE  (\A g \in Files : RowMoves(g)) /\ \A g \in Handlers : DeliveryMoves(g)
  BY <1>2, <1>3, <1>4 DEF RowMoves
<1>5. ASSUME handler' = [ handler EXCEPT ![h] = Idle ] PROVE DeliveryMoves(h) /\ handler'[h] = Idle
  BY <1>2, <1>5 DEF DeliveryMoves, Idle
<1>6. CASE UNCHANGED file /\ handler' = [ handler EXCEPT ![h] = Idle ]
  BY <1>4, <1>5, <1>6 DEF RowMoves
<1>7. CASE file' = [ file EXCEPT ![f] = FailTables(Fail(@)) ] /\ handler' = [ handler EXCEPT ![h] = Idle ]
  <2>1. file'[f] = FailTables(Fail(file[f]))
    BY <1>2, <1>7
  <2> QED
    BY <1>4, <1>5, <1>7, <2>1 DEF RowMoves
<1>8. CASE ClaimFile(h)
  <2> DEFINE e == [ d EXCEPT !.phase = "working", !.attempts = file[f].attempts + 1, !.beats = TRUE ]
  <2>1. /\ d.phase = "received" /\ CanClaim(file[f], d.role)
        /\ file' = [ file EXCEPT ![f] = Claim(file[f], d.role, inst) ]
        /\ handler' = [ handler EXCEPT ![h] = e ]
    BY <1>8 DEF ClaimFile, ClaimOutcome
  <2>2. ClaimMakes(h, file[f], file'[f])
    BY <1>2, <1>8, <2>1 DEF ClaimMakes
  <2>3. << e.file, e.role >> = << d.file, d.role >> /\ e.attempts = file[f].attempts + 1
    BY <1>1 DEF Delivery
  <2>4. handler'[h] = e
    <3> HIDE DEF e
    <3> QED
      BY <1>2, <2>1
  <2>5. DeliveryMoves(h)
    <3> HIDE DEF e
    <3> QED
      BY <1>1, <2>2, <2>3, <2>4 DEF DeliveryMoves
  <2> QED
    BY <1>1, <1>4, <2>2, <2>5 DEF RowMoves
<1>9. CASE InspectSucceeds(h)
  <2> DEFINE row == Complete(SeedTables(file[f]), inst, "SCHEMA_READY")
             on == [ row EXCEPT !.stage = "CONVERTING" ]
  <2>1. /\ d.phase = "working" /\ handler' = [ handler EXCEPT ![h] = Idle ]
        /\ \/ file' = [ file EXCEPT ![f] = row ]
           \/ row.stage = "SCHEMA_READY" /\ file' = [ file EXCEPT ![f] = on ]
    <3>1. CASE Chained(row)
      BY <1>9, <3>1 DEF InspectSucceeds, Chained
    <3>2. CASE ~Chained(row)
      BY <1>9, <3>2 DEF InspectSucceeds
    <3> QED
      BY <3>1, <3>2
  <2>2. file'[f] = row \/ (row.stage = "SCHEMA_READY" /\ file'[f] = on)
    BY <1>2, <2>1
  <2>3. EndMakes(h, file[f], file'[f])
    BY <1>5, <2>1, <2>2 DEF EndMakes
  <2> QED
    BY <1>1, <1>4, <1>5, <2>1, <2>3 DEF RowMoves
<1>10. CASE ConvertSucceeds(h)
  <2>1. /\ d.phase = "working" /\ d.role = "convert" /\ handler' = [ handler EXCEPT ![h] = Idle ]
        /\ file'[f] = Complete(FinishTables(file[f]), inst, "COMPLETED")
    BY <1>2, <1>10 DEF ConvertSucceeds
  <2>2. EndMakes(h, file[f], file'[f])
    BY <1>5, <2>1 DEF EndMakes
  <2> QED
    BY <1>1, <1>4, <1>5, <2>1, <2>2 DEF RowMoves
<1>11. CASE AttemptIsRetried(h) \/ AttemptPauses(h)
  <2>1. /\ d.phase = "working" /\ handler' = [ handler EXCEPT ![h] = Idle ]
        /\ MayRelease(file[f], inst)
        /\ file'[f] = Release(file[f], inst, BackTo(d.role))
    BY <1>2, <1>11 DEF AttemptIsRetried, AttemptPauses
  <2>2. EndMakes(h, file[f], file'[f])
    BY <1>5, <2>1 DEF EndMakes
  <2> QED
    BY <1>1, <1>4, <1>5, <2>1, <2>2 DEF RowMoves
<1>12. CASE Heartbeat(h)
  <2>1. /\ d.phase = "working" /\ file'[f] = Renew(file[f], inst)
        /\ handler' = [ handler EXCEPT ![h].beats = file[f].claimedBy = inst ]
    BY <1>2, <1>12 DEF Heartbeat
  <2>2. << handler'[h].file, handler'[h].role, handler'[h].attempts >> = << d.file, d.role, d.attempts >>
    BY <1>1, <2>1 DEF Delivery, TypeOK
  <2> QED
    BY <1>1, <1>4, <2>1, <2>2 DEF RowMoves, DeliveryMoves
<1> QED
  BY <1>6, <1>7, <1>8, <1>9, <1>10, <1>11, <1>12
     DEF Work, ClaimRefused, ClaimExhausted, ClaimNacked, AttemptIsFinal, HandlerDies

\* And so does every other step.
LEMMA StepMoves ==
  ASSUME Frame, [Next]_vars
  PROVE  /\ \A f \in Files : RowMoves(f)
         /\ \A h \in Handlers : DeliveryMoves(h)
<1>1. /\ file \in [ Files -> FileRow ]
      /\ \A g \in Files : \A row : file' = [ file EXCEPT ![g] = row ] =>
           file'[g] = row /\ \A f \in Files : g # f => file'[f] = file[f]
  BY DEF Frame, TypeOK
<1>2. UNCHANGED file => \A f \in Files : RowMoves(f)
  BY DEF RowMoves
<1>3. UNCHANGED handler => \A h \in Handlers : DeliveryMoves(h)
  BY DEF DeliveryMoves
<1>4. ASSUME NEW c \in Callers, Api(c)
      PROVE  UNCHANGED handler /\ \A f \in Files : RowMoves(f)
  <2>1. UNCHANGED handler
    BY <1>4 DEF Api, ConfirmRead, ConfirmArrived, ConfirmMissing, ConvertGate, ConvertMove, ConvertCommit,
                PublishInline, MarkInline, CallDies
  <2>2. CASE ConfirmArrived(c)
    <3>1. PICK g \in Files : g = call[c].file
      BY <2>2, Phases DEF Frame, ConfirmArrived, ConfirmCall
    <3>2. file' = [ file EXCEPT ![g] = [ file[g] EXCEPT !.stage =
                      IF @ = "UPLOADING" THEN "UPLOADED" ELSE @ ] ]
      BY <2>2, <3>1 DEF ConfirmArrived
    <3>3. file'[g] = file[g] \/ (file[g].stage = "UPLOADING" /\ file'[g] = [ file[g] EXCEPT !.stage = "UPLOADED" ])
      BY <1>1, <3>2 DEF FileRow
    <3> QED
      BY <1>1, <2>1, <3>2, <3>3 DEF RowMoves
  <2>3. CASE ConfirmMissing(c)
    <3>1. PICK g \in Files : g = call[c].file
      BY <2>3, Phases DEF Frame, ConfirmMissing, ConfirmCall
    <3>2. file' = [ file EXCEPT ![g] = [ file[g] EXCEPT !.stage = "FAILED" ] ]
      BY <2>3, <3>1 DEF ConfirmMissing
    <3> QED
      BY <1>1, <2>1, <3>2 DEF RowMoves
  <2>4. CASE ConvertCommit(c)
    <3>1. \A f \in call[c].moved : file[f].stage = "SCHEMA_READY"
      BY <2>4, Phases DEF Frame, LocksHold, ConvertCommit
    <3>2. \A f \in Files : file'[f] = IF f \in call[c].moved THEN [ file[f] EXCEPT !.stage = "CONVERTING" ]
                                      ELSE file[f]
      BY <2>4 DEF ConvertCommit
    <3> QED
      BY <2>1, <3>1, <3>2 DEF RowMoves
  <2> QED
    BY <1>2, <1>4, <2>1, <2>2, <2>3, <2>4
       DEF Api, ConfirmRead, ConvertGate, ConvertMove, PublishInline, MarkInline, CallDies
<1>5. ASSUME NEW g \in Files, NEW t \in Topics, NEW i \in DOMAIN outbox[g][t], Relay(g, t, i)
      PROVE  UNCHANGED handler /\ \A f \in Files : RowMoves(f)
  <2>1. UNCHANGED handler
    BY <1>5 DEF Relay, RelayPublishes, RelayPublishesUnrecorded, RelayRetriesLater, RelayGivesUp
  <2>2. CASE RelayGivesUp(g, t, i)
    <3>1. file' = [ file EXCEPT ![g] = IF file[g].stage = "FAILED" THEN file[g] ELSE Fail(file[g]) ]
      BY <2>2 DEF RelayGivesUp
    <3> QED
      BY <1>1, <2>1, <3>1 DEF RowMoves
  <2> QED
    BY <1>2, <1>5, <2>1, <2>2 DEF Relay, RelayPublishes, RelayPublishesUnrecorded, RelayRetriesLater
<1>6. ASSUME NEW g \in Files, NEW t \in Topics, NEW i \in inflight[g][t], Broker(g, t, i)
      PROVE  UNCHANGED file /\ \A h \in Handlers : DeliveryMoves(h)
  <2>1. UNCHANGED file
    BY <1>6 DEF Broker, Receive, ReceiveNothingToDo, BrokerDropsMessage
  <2>2. ASSUME NEW h \in Handlers, Receive(h, g, t, i) PROVE \A k \in Handlers : DeliveryMoves(k)
    <3>1. PICK r \in ResolvedRoles(h, g) : handler' = [ handler EXCEPT ![h] =
            [ phase |-> "received", file |-> g, topic |-> t, id |-> i,
              role |-> r, attempts |-> 0, beats |-> FALSE ] ]
      BY <2>2 DEF Receive
    <3> QED
      BY <3>1 DEF Frame, TypeOK, DeliveryMoves
  <2> QED
    BY <1>3, <1>6, <2>1, <2>2 DEF Broker, ReceiveNothingToDo, BrokerDropsMessage
<1>7. ASSUME NEW g \in Files, LeaseExpires(g) \/ Sweep(g)
      PROVE  UNCHANGED handler /\ \A f \in Files : RowMoves(f)
  <2>1. UNCHANGED handler
    BY <1>7 DEF LeaseExpires, Sweep, SweepReclaims, SweepFails
  <2>2. CASE LeaseExpires(g)
    <3>1. file[g].lease = "live" /\ file' = [ file EXCEPT ![g] = [ file[g] EXCEPT !.lease = "expired" ] ]
      BY <2>2 DEF LeaseExpires
    <3> QED
      BY <1>1, <2>1, <3>1 DEF RowMoves
  <2>3. CASE SweepReclaims(g)
    <3>1. /\ Abandoned(file[g])
          /\ file' = [ file EXCEPT ![g] = [ file[g] EXCEPT
               !.stage = IF file[g].stage = "INSPECTING" THEN "UPLOADED" ELSE "CONVERTING",
               !.claimedBy = NoOne, !.lease = "none" ] ]
      BY <2>3 DEF SweepReclaims
    <3> QED
      BY <1>1, <2>1, <3>1 DEF RowMoves
  <2>4. CASE SweepFails(g)
    <3>1. file' = [ file EXCEPT ![g] = FailTables(Fail(file[g])) ]
      BY <2>4 DEF SweepFails
    <3> QED
      BY <1>1, <2>1, <3>1 DEF RowMoves
  <2> QED
    BY <1>7, <2>2, <2>3, <2>4 DEF Sweep
<1> QED
  BY <1>2, <1>3, <1>4, <1>5, <1>6, <1>7, WorkMoves DEF Next, vars

-----------------------------------------------------------------------------
\* The tables of a file whose conversion was taken have been seeded, and those of
\* a file that is held have not failed.
TablesHold ==
  /\ TablesMatchFile
  /\ \A f \in Files : file[f].claimedBy # NoOne => file[f].tables # "FAILED"
  /\ \A h \in Handlers : handler[h].phase = "working" /\ handler[h].role = "convert" =>
       file[handler[h].file].tables # "none"

\* What a statement makes of the tables of a row.
LEMMA RowTables ==
  ASSUME Frame, TablesHold, NEW f \in Files, RowMoves(f)
  PROVE  LET s == file'[f] IN
         /\ file[f].tables # "none" => s.tables # "none"
         /\ s.stage = "COMPLETED" => s.tables = "DONE"
         /\ s.stage \in { "SCHEMA_READY", "CONVERTING" } => s.tables \in { "QUEUED", "DONE" }
         /\ s.tables = "FAILED" => s.stage = "FAILED"
         /\ s.claimedBy # NoOne => s.tables # "FAILED"
<1> DEFINE r == file[f]
           s == file'[f]
           Good(t) == /\ r.tables # "none" => t.tables # "none"
                      /\ t.stage = "COMPLETED" => t.tables = "DONE"
                      /\ t.stage \in { "SCHEMA_READY", "CONVERTING" } => t.tables \in { "QUEUED", "DONE" }
                      /\ t.tables = "FAILED" => t.stage = "FAILED"
                      /\ t.claimedBy # NoOne => t.tables # "FAILED"
<1>1. r \in FileRow /\ Good(r) /\ RowShape(r)
  BY DEF Frame, TypeOK, LeaseShape, TablesHold, TablesMatchFile
<1> USE DEF FileRow, TableStages
<1>2. CASE \/ s = r
           \/ r.stage = "UPLOADING" /\ s = [ r EXCEPT !.stage = "UPLOADED" ]
           \/ r.stage = "SCHEMA_READY" /\ s = [ r EXCEPT !.stage = "CONVERTING" ]
           \/ s = [ r EXCEPT !.stage = "FAILED" ]
           \/ r.lease = "live" /\ s = [ r EXCEPT !.lease = "expired" ]
  BY <1>1, <1>2
<1>3. CASE s = Fail(r) \/ s = FailTables(Fail(r))
  BY <1>1, <1>3 DEF Fail, FailTables
<1>4. CASE /\ Abandoned(r)
           /\ s = [ r EXCEPT !.stage = IF r.stage = "INSPECTING" THEN "UPLOADED" ELSE "CONVERTING",
                             !.claimedBy = NoOne, !.lease = "none" ]
  BY <1>1, <1>4 DEF Abandoned
<1>5. ASSUME NEW h \in Handlers, handler[h] \in Delivery, handler[h].file = f,
             s = Renew(r, InstanceOf[h]) \/ ClaimMakes(h, r, s) \/ EndMakes(h, r, s)
      PROVE  Good(s)
  <2> DEFINE inst == InstanceOf[h]
             role == handler[h].role
  <2>1. inst # NoOne /\ role \in Roles
    BY <1>5, PipelineAssumption, LeaseAssumption DEF Delivery
  <2>2. handler[h].phase = "working" /\ role = "convert" => r.tables # "none"
    BY <1>5 DEF TablesHold
  <2>3. CASE s = Renew(r, inst)
    BY <1>1, <2>3 DEF Renew
  <2>4. CASE ClaimMakes(h, r, s)
    <3>1. s.tables = r.tables /\ s.stage = ClaimTarget(role) /\ r.stage \in Claimable(role)
      BY <1>1, <2>4 DEF ClaimMakes, Claim, CanClaim
    <3> QED
      BY <1>1, <2>1, <3>1 DEF ClaimTarget, Claimable, Roles
  <2>5. CASE EndMakes(h, r, s)
    <3> DEFINE row == Complete(SeedTables(r), inst, "SCHEMA_READY")
    <3>1. /\ row.tables = IF r.tables = "none" THEN "QUEUED" ELSE r.tables
          /\ row.stage = IF r.claimedBy = inst THEN "SCHEMA_READY" ELSE r.stage
          /\ row.claimedBy = IF r.claimedBy = inst THEN NoOne ELSE r.claimedBy
          /\ [ row EXCEPT !.stage = "CONVERTING" ].tables = row.tables
          /\ [ row EXCEPT !.stage = "CONVERTING" ].stage = "CONVERTING"
          /\ [ row EXCEPT !.stage = "CONVERTING" ].claimedBy = row.claimedBy
      BY <1>1 DEF Complete, SeedTables
    <3>2. CASE s = row \/ (row.stage = "SCHEMA_READY" /\ s = [ row EXCEPT !.stage = "CONVERTING" ])
      <4> HIDE DEF row
      <4> QED
        BY <1>1, <2>1, <3>1, <3>2
    <3>3. CASE role = "convert" /\ s = Complete(FinishTables(r), inst, "COMPLETED")
      <4>1. r.tables # "none"
        BY <2>2, <2>5, <3>3 DEF EndMakes
      <4>2. /\ s.tables = "DONE"
            /\ s.stage = IF r.claimedBy = inst THEN "COMPLETED" ELSE r.stage
        BY <1>1, <3>3, <4>1 DEF Complete, FinishTables
      <4> QED
        BY <1>1, <4>1, <4>2
    <3>4. CASE MayRelease(r, inst) /\ s = Release(r, inst, BackTo(role))
      <4>1. CASE r.claimedBy # inst
        BY <1>1, <3>4, <4>1 DEF Release
      <4>2. CASE r.claimedBy = inst
        <5>1. s.tables = r.tables /\ s.stage = BackTo(role) /\ r.tables # "FAILED"
          BY <1>1, <2>1, <3>4, <4>2 DEF Release
        <5> QED
          BY <1>1, <2>1, <2>2, <2>5, <5>1 DEF BackTo, Roles, EndMakes
      <4> QED
        BY <4>1, <4>2
    <3> QED
      BY <2>5, <3>2, <3>3, <3>4 DEF EndMakes
  <2> QED
    BY <1>5, <2>3, <2>4, <2>5
<1> QED
  BY <1>2, <1>3, <1>4, <1>5 DEF RowMoves

\* A delivery that converts has taken a file whose tables are there, and they stay.
LEMMA TablesStep ==
  ASSUME Frame, TablesHold, [Next]_vars
  PROVE  TablesHold'
<1>1. \A f \in Files : RowMoves(f)
  BY StepMoves
<1>2. TablesMatchFile' /\ \A f \in Files : file'[f].claimedBy # NoOne => file'[f].tables # "FAILED"
  BY <1>1, RowTables DEF TablesMatchFile
<1>3. ASSUME NEW h \in Handlers, handler'[h].phase = "working", handler'[h].role = "convert"
      PROVE  file'[handler'[h].file].tables # "none"
  <2>1. DeliveryMoves(h)
    BY StepMoves
  <2>2. CASE /\ handler[h].phase = "working"
             /\ << handler'[h].file, handler'[h].role >> = << handler[h].file, handler[h].role >>
    <3>1. handler[h].file \in Files /\ file[handler[h].file].tables # "none"
      BY <1>3, <2>2, Phases DEF Frame, Delivery, TablesHold
    <3> QED
      BY <1>1, <2>2, <3>1, RowTables
  <2>3. CASE /\ handler[h] \in Delivery
             /\ << handler'[h].file, handler'[h].role >> = << handler[h].file, handler[h].role >>
             /\ ClaimMakes(h, file[handler[h].file], file'[handler[h].file])
    <3> DEFINE f == handler[h].file
    <3>1. f \in Files /\ handler[h].role = "convert" /\ handler'[h].file = f
      BY <1>3, <2>3 DEF Delivery
    <3>2. file'[f].stage = "CONVERTING"
      <4>1. file'[f] = Claim(file[f], "convert", InstanceOf[h]) /\ file[f] \in FileRow
        BY <2>3, <3>1 DEF ClaimMakes, Frame, TypeOK
      <4> QED
        BY <4>1 DEF Claim, ClaimTarget, FileRow
    <3>3. file'[f].tables \in { "QUEUED", "DONE" }
      BY <1>2, <3>1, <3>2 DEF TablesMatchFile
    <3> QED
      BY <3>1, <3>3
  <2> QED
    BY <1>3, <2>1, <2>2, <2>3 DEF DeliveryMoves
<1> QED
  BY <1>2, <1>3 DEF TablesHold

\* A completed file has all its tables DONE, a file on its way has tables that can
\* still be finished, and tables are FAILED only under a failed file: for any number
\* of files, deliveries and callers, and even if deliveries share an identity
\* (convert.py, mark_tables_failed, _set_table_stage; inspect.py, _write_schemas).
THEOREM TablesMatch == Spec => []TablesMatchFile
<1>1. Init => TablesHold
  BY DEF Init, TablesHold, TablesMatchFile, NewFileRow, Idle
<1>2. TablesHold => TablesMatchFile
  BY DEF TablesHold
<1> QED
  BY <1>1, <1>2, InitFrame, NextFrame, TablesStep, PTL DEF Spec

-----------------------------------------------------------------------------
\* Every delivery runs in a process with an identity of its own.
OwnIdentity == \A g, h \in Handlers : InstanceOf[g] = InstanceOf[h] => g = h

\* The holder of a row has made its latest claim.
LatestHolds ==
  \A h \in Handlers :
    /\ handler[h].phase = "working"
    /\ file[handler[h].file].claimedBy = InstanceOf[h]
    => handler[h].attempts = file[handler[h].file].attempts

\* Only a claim counts an attempt or names a holder.
LEMMA RowHolder ==
  ASSUME Frame, NEW f \in Files, RowMoves(f)
  PROVE  \/ /\ file'[f].attempts = file[f].attempts
            /\ file'[f].claimedBy \in { NoOne, file[f].claimedBy }
         \/ \E h \in Handlers : ClaimMakes(h, file[f], file'[f])
<1> DEFINE r == file[f]
           s == file'[f]
<1>1. r \in FileRow
  BY DEF Frame, TypeOK
<1> USE DEF FileRow
<1>2. ASSUME NEW h \in Handlers, EndMakes(h, r, s)
      PROVE  s.attempts = r.attempts /\ s.claimedBy \in { NoOne, r.claimedBy }
  BY <1>1, <1>2 DEF EndMakes, Complete, SeedTables, FinishTables, Release
<1>3. ASSUME NEW h \in Handlers, s = Renew(r, InstanceOf[h])
      PROVE  s.attempts = r.attempts /\ s.claimedBy \in { NoOne, r.claimedBy }
  BY <1>1, <1>3 DEF Renew
<1>4. CASE s = Fail(r) \/ s = FailTables(Fail(r))
  BY <1>1, <1>4 DEF Fail, FailTables
<1> QED
  BY <1>1, <1>2, <1>3, <1>4 DEF RowMoves

\* The holder's claim stays the latest.
LEMMA LatestStep ==
  ASSUME OwnIdentity, Frame, LatestHolds, [Next]_vars
  PROVE  LatestHolds'
<1> SUFFICES ASSUME NEW h \in Handlers, handler'[h].phase = "working",
                    file'[handler'[h].file].claimedBy = InstanceOf[h]
             PROVE  handler'[h].attempts = file'[handler'[h].file].attempts
  BY DEF LatestHolds
<1>1. /\ DeliveryMoves(h) /\ \A f \in Files : RowMoves(f)
      /\ InstanceOf[h] # NoOne
  BY StepMoves, PipelineAssumption, LeaseAssumption
<1>2. CASE /\ handler[h].phase = "working"
           /\ << handler'[h].file, handler'[h].attempts >> = << handler[h].file, handler[h].attempts >>
  <2> DEFINE f == handler[h].file
  <2>1. f \in Files /\ handler'[h].file = f /\ file[f] \in FileRow
    BY <1>2, Phases DEF Frame, Delivery, TypeOK
  <2>2. CASE /\ file'[f].attempts = file[f].attempts
             /\ file'[f].claimedBy \in { NoOne, file[f].claimedBy }
    BY <1>1, <1>2, <2>1, <2>2 DEF LatestHolds
  <2>3. ASSUME NEW g \in Handlers, ClaimMakes(g, file[f], file'[f]) PROVE FALSE
    <3>1. file'[f].claimedBy = InstanceOf[g]
      BY <2>1, <2>3 DEF ClaimMakes, Claim, FileRow
    <3>2. g = h
      BY <2>1, <3>1 DEF OwnIdentity
    <3> QED
      BY <1>2, <2>3, <3>2 DEF ClaimMakes, ClaimFile
  <2> QED
    BY <1>1, <2>1, <2>2, <2>3, RowHolder
<1>3. CASE /\ handler[h] \in Delivery
           /\ handler'[h].file = handler[h].file
           /\ handler'[h].attempts = file[handler[h].file].attempts + 1
           /\ ClaimMakes(h, file[handler[h].file], file'[handler[h].file])
  <2>1. handler[h].file \in Files /\ file[handler[h].file] \in FileRow
    BY <1>3 DEF Frame, TypeOK, Delivery
  <2> QED
    BY <1>3, <2>1 DEF ClaimMakes, Claim, FileRow
<1> QED
  BY <1>1, <1>2, <1>3 DEF DeliveryMoves

\* The row of a file that is worked on is brought forward by the end of the
\* delivery that holds it.
LEMMA BroughtForward ==
  ASSUME Frame, LatestHolds, NEW f \in Files, RowMoves(f),
         file[f].stage \in { "INSPECTING", "CONVERTING" },
         file'[f].stage \in { "SCHEMA_READY", "CONVERTING", "COMPLETED" },
         file'[f].stage # file[f].stage
  PROVE  \E h \in Handlers :
           /\ handler[h].phase = "working" /\ handler[h].file = f
           /\ handler[h].attempts = file[f].attempts
           /\ handler'[h] = Idle
<1> DEFINE r == file[f]
           s == file'[f]
<1>1. r \in FileRow
  BY DEF Frame, TypeOK
<1> USE DEF FileRow
<1>2. ~(s = Fail(r) \/ s = FailTables(Fail(r)))
  BY <1>1 DEF Fail, FailTables
<1>3. PICK h \in Handlers :
        /\ handler[h] \in Delivery /\ handler[h].file = f
        /\ s = Renew(r, InstanceOf[h]) \/ ClaimMakes(h, r, s) \/ EndMakes(h, r, s)
  BY <1>1, <1>2 DEF RowMoves, Abandoned
<1>4. ~(s = Renew(r, InstanceOf[h]))
  BY <1>1 DEF Renew
<1>5. ~ClaimMakes(h, r, s)
  BY <1>1, <1>3 DEF ClaimMakes, CanClaim, Claim, Claimable, ClaimTarget
<1>6. EndMakes(h, r, s)
  BY <1>3, <1>4, <1>5
<1>7. r.claimedBy = InstanceOf[h]
  BY <1>1, <1>6 DEF EndMakes, Complete, SeedTables, FinishTables, Release
<1> QED
  BY <1>3, <1>6, <1>7 DEF EndMakes, LatestHolds

\* A file that is worked on is only brought forward by the delivery that made the
\* latest claim (the claimed_by predicate of leases.complete and leases.release),
\* for any number of files and deliveries, if every process has an identity of its
\* own.
THEOREM CompletionIsFenced == ASSUME OwnIdentity PROVE Spec => FencedCompletion
<1> DEFINE Step == \A f \in Files :
             /\ file[f].stage \in { "INSPECTING", "CONVERTING" }
             /\ file'[f].stage \in { "SCHEMA_READY", "CONVERTING", "COMPLETED" }
             /\ file'[f].stage # file[f].stage
             => \E h \in Handlers :
                  /\ handler[h].phase = "working"
                  /\ handler[h].file = f
                  /\ handler[h].attempts = file[f].attempts
                  /\ handler'[h] = Idle
<1>1. Init => LatestHolds
  BY DEF Init, LatestHolds, Idle
<1>2. Frame /\ LatestHolds /\ [Next]_vars => LatestHolds'
  BY LatestStep
<1>3. Frame /\ LatestHolds /\ [Next]_vars => Step
  BY StepMoves, BroughtForward
<1> QED
  BY <1>1, <1>2, <1>3, InitFrame, NextFrame, PTL DEF Spec, FencedCompletion

-----------------------------------------------------------------------------
(* What can still put a message of file f in the queue: a confirm that has *)
(* read UPLOADING, the request to convert, a delivery whose attempt is not *)
(* the last, and the sweep while such an attempt holds the row.            *)
Sent(f) == Len(outbox[f]["file-uploaded"]) + Len(outbox[f]["convert-requested"])
Confirming(f) == { c \in Callers : call[c].phase = "statting" /\ call[c].file = f }
Retriable(f) == { h \in Handlers : /\ handler[h].phase = "working" /\ handler[h].file = f
                                   /\ handler[h].attempts < MaxAttempts }
Reclaimable(f) == IF file[f].lease # "none" /\ file[f].attempts < MaxAttempts THEN 1 ELSE 0
Unasked(f) == IF Asked(f) THEN 0 ELSE 1
Spent(f) == IF file[f].attempts < MaxAttempts THEN file[f].attempts ELSE MaxAttempts - 1

\* What is in the queue and what may still come is paid for by the callers, the
\* one request to convert and two messages for each attempt but the last.
Budget(f) ==
  /\ IsFiniteSet(Retriable(f))
  /\ Sent(f) + Cardinality(Confirming(f)) + Cardinality(Retriable(f)) + Reclaimable(f) + Unasked(f)
       <= Cardinality(Callers) + 1 + 2 * Spent(f)
BudgetHolds ==
  \A f \in Files : Budget(f) /\ (file[f].stage = "UPLOADING" => Sent(f) = 0)

\* The terms are numbers.
LEMMA Terms ==
  ASSUME TypeOK, NEW f \in Files, IsFiniteSet(Callers)
  PROVE  /\ Sent(f) \in Nat /\ Reclaimable(f) \in 0..1 /\ Unasked(f) \in 0..1
         /\ Spent(f) \in 0..(MaxAttempts - 1) /\ Cardinality(Callers) \in Nat
         /\ IsFiniteSet(Confirming(f)) /\ Cardinality(Confirming(f)) \in Nat
         /\ Cardinality(Confirming(f)) <= Cardinality(Callers)
<1>1. "file-uploaded" \in Topics /\ "convert-requested" \in Topics
  BY DEF Topics
<1>2. Len(outbox[f]["file-uploaded"]) \in Nat /\ Len(outbox[f]["convert-requested"]) \in Nat
  BY <1>1 DEF TypeOK
<1>3. Confirming(f) \in SUBSET Callers
  BY DEF Confirming
<1>4. /\ IsFiniteSet(Confirming(f))
      /\ Cardinality(Confirming(f)) <= Cardinality(Callers)
  BY <1>3, FS_Subset
<1>5. Cardinality(Confirming(f)) \in Nat /\ Cardinality(Callers) \in Nat
  BY <1>4, FS_CardinalityType
<1>6. Spent(f) \in 0..(MaxAttempts - 1)
  BY LeaseAssumption DEF Spent, TypeOK, FileRow
<1>7. Sent(f) \in Nat
  <2> DEFINE a == Len(outbox[f]["file-uploaded"])
             b == Len(outbox[f]["convert-requested"])
  <2>1. Sent(f) = a + b /\ a \in Nat /\ b \in Nat
    BY <1>2 DEF Sent
  <2> HIDE DEF a, b
  <2> QED
    BY <2>1
<1>8. Reclaimable(f) \in 0..1
  BY DEF Reclaimable
<1>9. Unasked(f) \in 0..1
  BY DEF Unasked
<1> QED
  BY <1>4, <1>5, <1>6, <1>7, <1>8, <1>9

\* One enqueue is one message of one file.
LEMMA EnqueueSends ==
  ASSUME TypeOK, NEW f \in Files, NEW t \in Topics, Enqueue(f, t)
  PROVE  /\ Sent(f)' = Sent(f) + 1
         /\ \A g \in Files : g # f => Sent(g)' = Sent(g)
<1>1. /\ Len(outbox'[f][t]) = Len(outbox[f][t]) + 1
      /\ \A g \in Files, u \in Topics : g # f \/ u # t => outbox'[g][u] = outbox[g][u]
  BY EnqueueOps DEF TypeOK
<1>2. "file-uploaded" \in Topics /\ "convert-requested" \in Topics
  BY DEF Topics
<1>3. Len(outbox[f]["file-uploaded"]) \in Nat /\ Len(outbox[f]["convert-requested"]) \in Nat
  BY <1>2 DEF TypeOK
<1> DEFINE a == Len(outbox[f]["file-uploaded"])
           b == Len(outbox[f]["convert-requested"])
           a2 == Len(outbox'[f]["file-uploaded"])
           b2 == Len(outbox'[f]["convert-requested"])
<1>4. Sent(f) = a + b /\ Sent(f)' = a2 + b2 /\ a \in Nat /\ b \in Nat
  BY <1>3 DEF Sent
<1>5. \/ a2 = a + 1 /\ b2 = b
      \/ a2 = a /\ b2 = b + 1
  BY <1>1, <1>2 DEF Topics
<1>6. Sent(f)' = Sent(f) + 1
  <2> HIDE DEF a, b, a2, b2
  <2> QED
    BY <1>4, <1>5
<1>7. ASSUME NEW g \in Files, g # f PROVE Sent(g)' = Sent(g)
  BY <1>1, <1>2, <1>7 DEF Sent
<1> QED
  BY <1>6, <1>7

\* A step that counts no attempt makes nothing more to be retried or reclaimed.
LEMMA NothingMore ==
  ASSUME Frame, [Next]_vars, NEW f \in Files,
         \A h \in Handlers : ClaimFile(h) => handler[h].file # f
  PROVE  /\ Retriable(f)' \subseteq Retriable(f)
         /\ Reclaimable(f)' <= Reclaimable(f)
         /\ Spent(f)' = Spent(f)
         /\ file'[f].stage = "UPLOADING" => file[f].stage = "UPLOADING"
<1>1. RowMoves(f) /\ \A h \in Handlers : DeliveryMoves(h)
  BY StepMoves
<1>2. file[f] \in FileRow /\ RowShape(file[f])
  BY DEF Frame, TypeOK, LeaseShape
<1> DEFINE r == file[f]
           s == file'[f]
           Less == /\ s.attempts = r.attempts
                   /\ s.lease # "none" => r.lease # "none"
                   /\ s.stage = "UPLOADING" => r.stage = "UPLOADING"
<1>3. Less
  <2> USE DEF FileRow
  <2>1. ASSUME NEW h \in Handlers, EndMakes(h, r, s), handler[h] \in Delivery PROVE Less
    <3>1. handler[h].role \in Roles /\ BackTo(handler[h].role) # "UPLOADING"
      BY <2>1 DEF Delivery, BackTo
    <3> QED
      BY <1>2, <2>1, <3>1 DEF EndMakes, Complete, SeedTables, FinishTables, Release
  <2>2. ASSUME NEW h \in Handlers, s = Renew(r, InstanceOf[h]) PROVE Less
    <3>1. InstanceOf[h] # NoOne
      BY PipelineAssumption, LeaseAssumption
    <3> QED
      BY <1>2, <2>2, <3>1 DEF Renew, RowShape
  <2>3. CASE s = Fail(r) \/ s = FailTables(Fail(r))
    BY <1>2, <2>3 DEF Fail, FailTables
  <2>4. CASE r.lease = "live" /\ s = [ r EXCEPT !.lease = "expired" ]
    BY <1>2, <2>4
  <2>5. ASSUME NEW h \in Handlers, handler[h].file = f, ClaimMakes(h, r, s) PROVE FALSE
    BY <2>5 DEF ClaimMakes
  <2> QED
    BY <1>1, <1>2, <2>1, <2>2, <2>3, <2>4, <2>5 DEF RowMoves, Abandoned
<1>4. Retriable(f)' \subseteq Retriable(f)
  <2> SUFFICES ASSUME NEW h \in Handlers, handler'[h].phase = "working", handler'[h].file = f,
                      handler'[h].attempts < MaxAttempts
               PROVE  h \in Retriable(f)
    BY DEF Retriable
  <2> QED
    BY <1>1 DEF DeliveryMoves, ClaimMakes, Retriable
<1> QED
  BY <1>3, <1>4 DEF Reclaimable, Spent

\* A set that loses an element has one fewer at least.
LEMMA LosesOne ==
  ASSUME NEW S, IsFiniteSet(S), NEW T \in SUBSET S, NEW x \in S, x \notin T
  PROVE  Cardinality(T) + 1 <= Cardinality(S)
<1>1. IsFiniteSet(S \ {x}) /\ Cardinality(S \ {x}) = Cardinality(S) - 1
  BY FS_RemoveElement
<1>2. T \in SUBSET (S \ {x})
  OBVIOUS
<1>3. Cardinality(T) <= Cardinality(S \ {x}) /\ IsFiniteSet(T)
  BY <1>1, <1>2, FS_Subset
<1> QED
  BY <1>1, <1>3, FS_CardinalityType

\* What a step may put in the queue for file f, and what it gives up for it.
Sends(f) ==
  \/ Sent(f)' = Sent(f)
  \/ /\ Sent(f)' = Sent(f) + 1
     /\ \/ file'[f].stage # "UPLOADING" /\ \E c \in Confirming(f) : c \notin Confirming(f)'
        \/ ~Asked(f) /\ Asked(f)'
        \/ \E h \in Retriable(f) : h \notin Retriable(f)'
        \/ Reclaimable(f) = 1 /\ Reclaimable(f)' = 0

\* A confirm begins only while the file is on its way up.
Begins(f) ==
  \/ Confirming(f)' \subseteq Confirming(f)
  \/ file[f].stage = "UPLOADING" /\ UNCHANGED << file, outbox, handler >>

\* One message is one confirm, the request to convert, or one delivery's retry.
LEMMA WorkSends ==
  ASSUME Frame, Frame', OneDirection, NEW h \in Handlers, Work(h), NEW f \in Files
  PROVE  Sends(f)
<1> DEFINE d == handler[h]
<1>1. d \in Delivery /\ d.file \in Files /\ d.role \in Roles /\ TypeOK
  BY WorkSteps DEF Frame, Delivery
<1>2. CASE UNCHANGED outbox
  BY <1>2 DEF Sends, Sent
<1>3. CASE InspectSucceeds(h)
  <2>1. UNCHANGED outbox \/ (/\ Enqueue(d.file, "convert-requested")
                             /\ Complete(SeedTables(file[d.file]), InstanceOf[h], "SCHEMA_READY").stage = "SCHEMA_READY")
    BY <1>3 DEF InspectSucceeds, Chained
  <2>2. ASSUME Enqueue(d.file, "convert-requested"),
               Complete(SeedTables(file[d.file]), InstanceOf[h], "SCHEMA_READY").stage = "SCHEMA_READY"
        PROVE  Sends(f)
    <3>1. "convert-requested" \in Topics
      BY DEF Topics
    <3>2. CASE f = d.file
      <4>1. Sent(f)' = Sent(f) + 1
        BY <1>1, <2>2, <3>1, <3>2, EnqueueSends
      <4>2. Asked(f)'
        BY <1>1, <2>2, <3>1, <3>2, AskedOps
      <4>3. ~Asked(f)
        <5>1. file[f] \in FileRow /\ d.phase = "working" /\ d.role = "inspect"
          BY <1>3 DEF Frame, TypeOK, InspectSucceeds
        <5>2. CASE file[f].claimedBy = InstanceOf[h]
          BY <1>1, <3>2, <5>1, <5>2, Phases DEF OneDirection
        <5>3. CASE file[f].claimedBy # InstanceOf[h]
          <6>1. file[f].stage = "SCHEMA_READY"
            BY <2>2, <3>2, <5>1, <5>3 DEF Complete, SeedTables, FileRow
          <6> QED
            BY <6>1 DEF OneDirection
        <5> QED
          BY <5>2, <5>3
      <4> QED
        BY <4>1, <4>2, <4>3 DEF Sends
    <3>3. CASE f # d.file
      BY <1>1, <2>2, <3>1, <3>3, EnqueueSends DEF Sends
    <3> QED
      BY <3>2, <3>3
  <2> QED
    BY <1>2, <2>1, <2>2
<1>4. CASE AttemptIsRetried(h)
  <2>1. /\ d.phase = "working" /\ d.attempts < MaxAttempts
        /\ Enqueue(d.file, TopicForStage(BackTo(d.role)))
        /\ handler' = [ handler EXCEPT ![h] = Idle ]
    BY <1>4 DEF AttemptIsRetried
  <2>2. TopicForStage(BackTo(d.role)) \in Topics
    BY DEF TopicForStage, Topics
  <2>3. CASE f = d.file
    <3>1. h \in Retriable(f)
      BY <2>1, <2>3 DEF Retriable
    <3>2. handler'[h].phase # "working"
      BY <1>1, <2>1 DEF TypeOK, Idle
    <3>3. h \notin Retriable(f)'
      BY <3>2 DEF Retriable
    <3>4. Sent(f)' = Sent(f) + 1
      BY <1>1, <2>1, <2>2, <2>3, EnqueueSends
    <3> QED
      BY <3>1, <3>3, <3>4 DEF Sends
  <2>4. CASE f # d.file
    BY <1>1, <2>1, <2>2, <2>4, EnqueueSends DEF Sends
  <2> QED
    BY <2>3, <2>4
<1> QED
  BY <1>2, <1>3, <1>4
     DEF Work, ClaimFile, ClaimRefused, ClaimExhausted, ClaimNacked, ConvertSucceeds,
         AttemptIsFinal, AttemptPauses, Heartbeat, HandlerDies

\* The sweep's message takes the lease it was sent for; the relay and the broker
\* add none.
LEMMA QueueSends ==
  ASSUME Frame, Frame', NEW f \in Files, NEW g \in Files,
         \/ LeaseExpires(g) \/ Sweep(g)
         \/ \E t \in Topics : \/ \E i \in DOMAIN outbox[g][t] : Relay(g, t, i)
                              \/ \E i \in inflight[g][t] : Broker(g, t, i)
  PROVE  Sends(f)
<1>1. CASE UNCHANGED outbox
  BY <1>1 DEF Sends, Sent
<1>2. CASE SweepReclaims(g)
  <2> DEFINE back == IF file[g].stage = "INSPECTING" THEN "UPLOADED" ELSE "CONVERTING"
  <2>1. /\ Abandoned(file[g]) /\ file[g].attempts < MaxAttempts
        /\ file' = [ file EXCEPT ![g] =
             [ file[g] EXCEPT !.stage = back, !.claimedBy = NoOne, !.lease = "none" ] ]
        /\ Enqueue(g, TopicForStage(back))
    BY <1>2 DEF SweepReclaims
  <2>2. TopicForStage(back) \in Topics
    BY DEF TopicForStage, Topics
  <2>3. CASE f = g
    <3>1. file'[g].lease = "none"
      <4> HIDE DEF back
      <4>1. file'[g] = [ file[g] EXCEPT !.stage = back, !.claimedBy = NoOne, !.lease = "none" ]
        BY <2>1 DEF Frame, TypeOK
      <4> QED
        BY <4>1 DEF Frame, TypeOK, FileRow
    <3>2. Reclaimable(f) = 1 /\ Reclaimable(f)' = 0
      BY <2>1, <2>3, <3>1 DEF Reclaimable, Abandoned
    <3>3. Sent(f)' = Sent(f) + 1
      BY <2>1, <2>2, <2>3, EnqueueSends DEF Frame
    <3> QED
      BY <3>2, <3>3 DEF Sends
  <2>4. CASE f # g
    BY <2>1, <2>2, <2>4, EnqueueSends DEF Frame, Sends
  <2> QED
    BY <2>3, <2>4
<1>3. ASSUME NEW t \in Topics, NEW i \in DOMAIN outbox[g][t], Relay(g, t, i) PROVE Sends(f)
  <2>1. \A r : outbox' = [ outbox EXCEPT ![g][t][i] = r ] =>
          \A k \in Files, u \in Topics : DOMAIN outbox[k][u] = DOMAIN outbox'[k][u]
    BY DEF Frame, TypeOK
  <2>2. RelayRetriesLater(g, t, i) =>
          outbox' = [ outbox EXCEPT ![g][t][i] =
            [ outbox[g][t][i] EXCEPT !.attempts = @ + 1 ] ]
    BY DEF RelayRetriesLater
  <2>3. \A k \in Files, u \in Topics : DOMAIN outbox[k][u] = DOMAIN outbox'[k][u]
    BY <1>3, <2>1, <2>2 DEF Relay, RelayPublishes, RelayPublishesUnrecorded, RelayGivesUp
  <2>4. \A k \in Files, u \in Topics :
          outbox[k][u] \in Seq(OutboxRow) /\ outbox'[k][u] \in Seq(OutboxRow)
    BY DEF Frame, TypeOK
  <2>5. \A k \in Files, u \in Topics : Len(outbox[k][u]) = Len(outbox'[k][u])
    BY <2>3, <2>4
  <2> QED
    BY <2>5 DEF Sends, Sent, Topics
<1>4. ASSUME NEW t \in Topics, NEW i \in inflight[g][t], Broker(g, t, i) PROVE UNCHANGED outbox
  BY <1>4 DEF Broker, Receive, ReceiveNothingToDo, BrokerDropsMessage
<1> QED
  BY <1>1, <1>2, <1>3, <1>4 DEF LeaseExpires, Sweep, SweepFails

\* A confirm that has committed is one no longer; Convert asks of files it was
\* not asked of.
LEMMA ApiSends ==
  ASSUME Frame, Frame', OneDirection, NEW c \in Callers, Api(c), NEW f \in Files
  PROVE  Sends(f) /\ Begins(f)
<1>1. TypeOK /\ TypeOK' /\ \A e \in Callers : e # c => call'[e] = call[e]
  BY DEF Frame, TypeOK, Api, ConfirmRead, ConfirmArrived, ConfirmMissing, ConvertGate,
         ConvertMove, ConvertCommit, PublishInline, MarkInline, CallDies
<1>2. ASSUME call'[c].phase # "statting" PROVE Begins(f)
  BY <1>1, <1>2 DEF Begins, Confirming
<1>3. ASSUME UNCHANGED outbox PROVE Sends(f)
  BY <1>3 DEF Sends, Sent
<1>4. ASSUME NEW g \in Files, ConfirmRead(c, g) PROVE Begins(f)
  <2>1. CASE g = f
    BY <1>4, <2>1 DEF Begins, ConfirmRead
  <2>2. CASE g # f
    <3>1. call'[c].file = g
      BY <1>1, <1>4 DEF ConfirmRead, TypeOK
    <3> QED
      BY <1>1, <2>2, <3>1 DEF Begins, Confirming
  <2> QED
    BY <2>1, <2>2
<1>5. CASE ConfirmArrived(c)
  <2>1. PICK g \in Files : g = call[c].file
    BY <1>5, Phases DEF Frame, ConfirmArrived, ConfirmCall
  <2>2. /\ call[c].phase = "statting" /\ Enqueue(g, "file-uploaded")
        /\ file' = [ file EXCEPT ![g].stage = IF @ = "UPLOADING" THEN "UPLOADED" ELSE @ ]
    BY <1>5, <2>1 DEF ConfirmArrived
  <2>3. call'[c].phase = "publishing"
    BY <1>5, <1>1 DEF ConfirmArrived, TypeOK
  <2>4. "file-uploaded" \in Topics
    BY DEF Topics
  <2>5. CASE g = f
    <3>1. c \in Confirming(f) /\ c \notin Confirming(f)'
      BY <2>1, <2>2, <2>3, <2>5 DEF Confirming
    <3>2. file'[f].stage # "UPLOADING"
      BY <1>1, <2>2, <2>5 DEF TypeOK, FileRow
    <3>3. Sent(f)' = Sent(f) + 1
      BY <1>1, <2>2, <2>4, <2>5, EnqueueSends
    <3> QED
      BY <1>2, <2>3, <3>1, <3>2, <3>3 DEF Sends
  <2>6. CASE g # f
    BY <1>1, <1>2, <2>2, <2>3, <2>4, <2>6, EnqueueSends DEF Sends
  <2> QED
    BY <2>5, <2>6
<1>6. CASE ConvertCommit(c)
  <2>1. call'[c].phase = "publishing"
    BY <1>1, <1>6 DEF ConvertCommit, TypeOK
  <2>2. "convert-requested" \in Topics /\ "file-uploaded" \in Topics
    BY DEF Topics
  <2>3. outbox'[f]["file-uploaded"] = outbox[f]["file-uploaded"]
    BY <1>1, <1>6, <2>2, CommitOps
  <2>4. CASE f \in call[c].moved
    <3>1. ~Asked(f)
      BY <1>6, <2>4 DEF Frame, LocksHold, ConvertCommit, OneDirection
    <3>2. Len(outbox'[f]["convert-requested"]) = Len(outbox[f]["convert-requested"]) + 1
      BY <1>1, <1>6, <2>4, CommitOps
    <3>3. Len(outbox[f]["convert-requested"]) \in Nat /\ Len(outbox[f]["file-uploaded"]) \in Nat
      BY <1>1, <2>2 DEF TypeOK
    <3>4. Sent(f)' = Sent(f) + 1
      <4> DEFINE a == Len(outbox[f]["file-uploaded"])
                 b == Len(outbox[f]["convert-requested"])
                 b2 == Len(outbox'[f]["convert-requested"])
      <4>1. /\ Sent(f) = a + b /\ Sent(f)' = a + b2
            /\ a \in Nat /\ b \in Nat /\ b2 = b + 1
        BY <2>3, <3>2, <3>3 DEF Sent
      <4> HIDE DEF a, b, b2
      <4> QED
        BY <4>1
    <3>5. Asked(f)'
      BY <3>2, <3>3 DEF Asked
    <3> QED
      BY <1>2, <2>1, <3>1, <3>4, <3>5 DEF Sends
  <2>5. CASE f \notin call[c].moved
    <3>1. outbox'[f]["convert-requested"] = outbox[f]["convert-requested"]
      BY <1>1, <1>6, <2>2, <2>5, CommitOps
    <3> QED
      BY <1>2, <2>1, <2>3, <3>1 DEF Sends, Sent
  <2> QED
    BY <2>4, <2>5
<1>7. CASE MarkInline(c)
  <2>1. \A k \in Files, u \in Topics : Len(outbox'[k][u]) = Len(outbox[k][u])
    BY <1>7, MarkOps DEF Frame
  <2>2. call'[c].phase # "statting"
    BY <1>1, <1>7 DEF MarkInline, TypeOK, Idle
  <2> QED
    BY <1>2, <2>1, <2>2 DEF Sends, Sent, Topics
<1>8. CASE ConfirmMissing(c) \/ ConvertGate(c) \/ ConvertMove(c) \/ PublishInline(c) \/ CallDies(c)
  <2>1. UNCHANGED outbox /\ call'[c].phase # "statting"
    BY <1>1, <1>8 DEF ConfirmMissing, ConvertGate, ConvertMove, PublishInline, CallDies, TypeOK, Idle
  <2> QED
    BY <1>2, <1>3, <2>1
<1> QED
  BY <1>3, <1>4, <1>5, <1>6, <1>7, <1>8 DEF Api, ConfirmRead

\* Every step pays for what it sends.
LEMMA StepSends ==
  ASSUME Frame, Frame', OneDirection, [Next]_vars, NEW f \in Files
  PROVE  Sends(f) /\ Begins(f)
<1>1. CASE UNCHANGED vars
  BY <1>1 DEF vars, Sends, Sent, Begins, Confirming
<1>2. UNCHANGED call => Begins(f)
  BY DEF Begins, Confirming
<1>3. ASSUME NEW h \in Handlers, Work(h) PROVE Sends(f) /\ UNCHANGED call
  <2>1. UNCHANGED call
    BY <1>3 DEF Work, ClaimFile, ClaimRefused, ClaimExhausted, ClaimNacked, InspectSucceeds,
                ConvertSucceeds, AttemptIsRetried, AttemptIsFinal, AttemptPauses, Heartbeat, HandlerDies
  <2> QED
    BY <1>3, <2>1, WorkSends
<1>4. ASSUME NEW g \in Files,
             \/ LeaseExpires(g) \/ Sweep(g)
             \/ \E t \in Topics : \/ \E i \in DOMAIN outbox[g][t] : Relay(g, t, i)
                                  \/ \E i \in inflight[g][t] : Broker(g, t, i)
      PROVE  Sends(f) /\ UNCHANGED call
  <2>1. UNCHANGED call
    BY <1>4 DEF LeaseExpires, Sweep, SweepReclaims, SweepFails, Relay, RelayPublishes,
                RelayPublishesUnrecorded, RelayRetriesLater, RelayGivesUp, Broker, Receive,
                ReceiveNothingToDo, BrokerDropsMessage
  <2> QED
    BY <1>4, <2>1, QueueSends
<1> QED
  BY <1>1, <1>2, <1>3, <1>4, ApiSends DEF Next

\* Before a file has arrived nothing of it is in the queue, so nobody works on it.
LEMMA NothingYet ==
  ASSUME Frame, NEW f \in Files, Sent(f) = 0, file[f].stage = "UPLOADING"
  PROVE  Retriable(f) = {} /\ Reclaimable(f) = 0
<1>1. Reclaimable(f) = 0
  BY DEF Frame, LeaseShape, RowShape, Reclaimable
<1>2. ASSUME NEW h \in Handlers, handler[h].phase = "working", handler[h].file = f PROVE FALSE
  <2>1. handler[h] # Idle /\ handler[h].topic \in Topics
    BY <1>2, Phases DEF Frame, Delivery
  <2>2. handler[h].id \in DOMAIN outbox[f][handler[h].topic]
    BY <1>2, <2>1 DEF Frame, RowsExist
  <2>3. Len(outbox[f]["file-uploaded"]) \in Nat /\ Len(outbox[f]["convert-requested"]) \in Nat
    BY DEF Frame, TypeOK, Topics
  <2>4. Len(outbox[f][handler[h].topic]) = 0
    <3> DEFINE a == Len(outbox[f]["file-uploaded"])
               b == Len(outbox[f]["convert-requested"])
    <3>1. a + b = 0 /\ a \in Nat /\ b \in Nat
      BY <2>3 DEF Sent
    <3>2. a = 0 /\ b = 0
      <4> HIDE DEF a, b
      <4> QED
        BY <3>1
    <3> QED
      BY <2>1, <3>2 DEF Topics
  <2>5. outbox[f][handler[h].topic] \in Seq(OutboxRow)
    BY <2>1 DEF Frame, TypeOK
  <2> QED
    BY <2>2, <2>4, <2>5
<1> QED
  BY <1>1, <1>2 DEF Retriable

\* A claim pays for two more messages, unless it is the last.
LEMMA ClaimBudget ==
  ASSUME Frame, Frame', IsFiniteSet(Callers), NEW h \in Handlers, ClaimFile(h),
         NEW f \in Files, f = handler[h].file, Budget(f)
  PROVE  Budget(f)'
<1> DEFINE d == handler[h]
           e == [ d EXCEPT !.phase = "working", !.attempts = file[f].attempts + 1, !.beats = TRUE ]
<1>1. /\ d.phase = "received" /\ CanClaim(file[f], d.role)
      /\ file' = [ file EXCEPT ![f] = Claim(file[f], d.role, InstanceOf[h]) ]
      /\ handler' = [ handler EXCEPT ![h] = e ]
      /\ UNCHANGED << outbox, call >>
  BY DEF ClaimFile, ClaimOutcome
<1>2. d \in Delivery /\ file[f] \in FileRow
  BY <1>1, Phases DEF Frame, TypeOK
<1>3. e.attempts = file[f].attempts + 1
  BY <1>2 DEF Delivery
<1>4. handler'[h] = e /\ \A k \in Handlers : k # h => handler'[k] = handler[k]
  <2> HIDE DEF e
  <2> QED
    BY <1>1 DEF Frame, TypeOK
<1>5. file'[f].attempts = file[f].attempts + 1 /\ file[f].attempts \in 0..(MaxAttempts - 1)
  <2>1. file'[f] = Claim(file[f], d.role, InstanceOf[h])
    BY <1>1 DEF Frame, TypeOK
  <2>2. file'[f].attempts = file[f].attempts + 1
    BY <1>2, <2>1 DEF Claim, FileRow
  <2>3. file[f].attempts < MaxAttempts /\ file[f].attempts \in 0..MaxAttempts
    BY <1>1, <1>2 DEF CanClaim, FileRow
  <2> QED
    BY <2>2, <2>3, LeaseAssumption
<1>6. Sent(f)' = Sent(f) /\ Confirming(f)' = Confirming(f) /\ Unasked(f)' = Unasked(f)
  BY <1>1 DEF Sent, Confirming, Unasked, Asked
<1>7. /\ Sent(f) \in Nat /\ Reclaimable(f) \in 0..1 /\ Unasked(f) \in 0..1
      /\ Cardinality(Callers) \in Nat /\ Cardinality(Confirming(f)) \in Nat
  BY Terms DEF Frame
<1>8. Reclaimable(f)' \in 0..1
  BY DEF Reclaimable
<1>9. h \notin Retriable(f)
  BY <1>1 DEF Retriable
<1>10. /\ IsFiniteSet(Retriable(f)) /\ Cardinality(Retriable(f)) \in Nat
       /\ IsFiniteSet(Retriable(f) \cup {h})
       /\ Cardinality(Retriable(f) \cup {h}) = Cardinality(Retriable(f)) + 1
  BY <1>9, FS_AddElement, FS_CardinalityType DEF Budget
<1>11. CASE file[f].attempts + 1 < MaxAttempts
  <2>1. Retriable(f)' \in SUBSET (Retriable(f) \cup {h})
    <3> HIDE DEF e
    <3> QED
      BY <1>4 DEF Retriable
  <2>2. /\ IsFiniteSet(Retriable(f)') /\ Cardinality(Retriable(f)') \in Nat
        /\ Cardinality(Retriable(f)') <= Cardinality(Retriable(f)) + 1
    BY <1>10, <2>1, FS_Subset, FS_CardinalityType
  <2>3. Spent(f)' = Spent(f) + 1 /\ Spent(f) \in Nat
    BY <1>5, <1>11, LeaseAssumption DEF Spent
  <2> QED
    BY <1>6, <1>7, <1>8, <1>10, <2>2, <2>3 DEF Budget
<1>12. CASE file[f].attempts + 1 >= MaxAttempts
  <2>1. Retriable(f)' \in SUBSET Retriable(f)
    <3>1. ~(handler'[h].attempts < MaxAttempts)
      BY <1>3, <1>4, <1>5, <1>12, LeaseAssumption
    <3> HIDE DEF e
    <3> QED
      BY <1>4, <3>1 DEF Retriable
  <2>2. /\ IsFiniteSet(Retriable(f)') /\ Cardinality(Retriable(f)') \in Nat
        /\ Cardinality(Retriable(f)') <= Cardinality(Retriable(f))
    BY <1>10, <2>1, FS_Subset, FS_CardinalityType
  <2>3. Spent(f)' = Spent(f) /\ Spent(f) \in Nat
    BY <1>5, <1>12, LeaseAssumption DEF Spent
  <2>4. Reclaimable(f)' = 0
    BY <1>5, <1>12, LeaseAssumption DEF Reclaimable
  <2> QED
    BY <1>6, <1>7, <1>10, <2>2, <2>3, <2>4 DEF Budget
<1> QED
  BY <1>5, <1>11, <1>12, LeaseAssumption

\* Every other step keeps within it.
LEMMA StepBudget ==
  ASSUME Frame, Frame', OneDirection, OneDirection', IsFiniteSet(Callers), [Next]_vars,
         NEW f \in Files, Budget(f), file[f].stage = "UPLOADING" => Sent(f) = 0,
         \A h \in Handlers : ClaimFile(h) => handler[h].file # f
  PROVE  Budget(f)' /\ (file'[f].stage = "UPLOADING" => Sent(f)' = 0)
<1>1. /\ Retriable(f)' \subseteq Retriable(f)
      /\ Reclaimable(f)' <= Reclaimable(f)
      /\ Spent(f)' = Spent(f)
      /\ file'[f].stage = "UPLOADING" => file[f].stage = "UPLOADING"
  BY NothingMore
<1>2. Sends(f) /\ Begins(f)
  BY StepSends
<1>3. /\ Sent(f) \in Nat /\ Reclaimable(f) \in 0..1 /\ Unasked(f) \in 0..1
      /\ Spent(f) \in 0..(MaxAttempts - 1)
      /\ Cardinality(Callers) \in Nat
      /\ IsFiniteSet(Confirming(f)) /\ Cardinality(Confirming(f)) \in Nat
  BY Terms DEF Frame
<1>4. /\ IsFiniteSet(Confirming(f)') /\ Cardinality(Confirming(f)') \in Nat
      /\ Cardinality(Confirming(f)') <= Cardinality(Callers)
  <2>1. Confirming(f)' \in SUBSET Callers
    BY DEF Confirming
  <2> QED
    BY <2>1, FS_Subset, FS_CardinalityType
<1>5. Reclaimable(f)' \in 0..1 /\ Unasked(f)' \in 0..1
  BY DEF Reclaimable, Unasked
<1>6. Unasked(f)' <= Unasked(f)
  BY AskedStays DEF Unasked
<1>7. /\ IsFiniteSet(Retriable(f)) /\ Cardinality(Retriable(f)) \in Nat
      /\ IsFiniteSet(Retriable(f)') /\ Cardinality(Retriable(f)') \in Nat
      /\ Cardinality(Retriable(f)') <= Cardinality(Retriable(f))
  BY <1>1, FS_Subset, FS_CardinalityType DEF Budget
<1> DEFINE S == Sent(f)
           C == Cardinality(Confirming(f))
           R == Cardinality(Retriable(f))
           L == Reclaimable(f)
           U == Unasked(f)
           B == Cardinality(Callers) + 1 + 2 * Spent(f)
           S2 == Sent(f)'
           C2 == Cardinality(Confirming(f)')
           R2 == Cardinality(Retriable(f)')
           L2 == Reclaimable(f)'
           U2 == Unasked(f)'
<1>8. S + C + R + L + U <= B /\ B \in Nat
  BY <1>3 DEF Budget
<1>9. S2 + C2 + R2 + L2 + U2 <= B => Budget(f)'
  BY <1>1, <1>7 DEF Budget
<1>10. CASE ~(Confirming(f)' \subseteq Confirming(f))
  <2>1. file[f].stage = "UPLOADING" /\ UNCHANGED << file, outbox, handler >>
    BY <1>2, <1>10 DEF Begins
  <2>2. S = 0 /\ S2 = 0
    BY <2>1 DEF Sent
  <2>3. Retriable(f) = {} /\ Reclaimable(f) = 0
    BY <2>1, <2>2, NothingYet
  <2>4. Retriable(f)' = {} /\ Reclaimable(f)' = 0
    BY <2>1, <2>3 DEF Retriable, Reclaimable
  <2>5. R2 = 0
    BY <2>4, FS_EmptySet
  <2> HIDE DEF S, C, R, L, U, B, S2, C2, R2, L2, U2
  <2>6. S2 + C2 + R2 + L2 + U2 <= Cardinality(Callers) + 1
    BY <1>3, <1>4, <1>5, <2>2, <2>4, <2>5 DEF C2, L2, U2
  <2>7. Cardinality(Callers) + 1 <= B /\ C2 \in Nat /\ U2 \in Nat
    BY <1>3, <1>4, <1>5, LeaseAssumption DEF B, C2, U2
  <2>8. S2 + C2 + R2 + L2 + U2 <= B
    BY <1>3, <1>8, <2>2, <2>4, <2>5, <2>6, <2>7 DEF L2
  <2> QED
    BY <1>9, <2>2, <2>8 DEF S2
<1>11. CASE Confirming(f)' \subseteq Confirming(f)
  <2>1. C2 <= C
    BY <1>3, <1>11, FS_Subset
  <2>2. CASE S2 = S
    <3>1. S2 + C2 + R2 + L2 + U2 <= B
      <4>1. /\ S \in Nat /\ C \in Nat /\ R \in Nat /\ L \in Nat /\ U \in Nat
            /\ C2 \in Nat /\ R2 \in Nat /\ L2 \in Nat /\ U2 \in Nat
            /\ C2 <= C /\ R2 <= R /\ L2 <= L /\ U2 <= U
        BY <1>1, <1>3, <1>4, <1>5, <1>6, <1>7, <2>1
      <4> HIDE DEF S, C, R, L, U, B, S2, C2, R2, L2, U2
      <4> QED
        BY <1>8, <2>2, <4>1
    <3> QED
      BY <1>1, <1>9, <2>2, <3>1
  <2>3. CASE S2 # S
    <3>1. /\ S2 = S + 1
          /\ \/ file'[f].stage # "UPLOADING" /\ \E c \in Confirming(f) : c \notin Confirming(f)'
             \/ ~Asked(f) /\ Asked(f)'
             \/ \E h \in Retriable(f) : h \notin Retriable(f)'
             \/ L = 1 /\ L2 = 0
      BY <1>2, <2>3 DEF Sends
    <3>2. C2 + 1 <= C \/ U2 + 1 <= U \/ R2 + 1 <= R \/ L2 + 1 <= L
      <4>1. (\E c \in Confirming(f) : c \notin Confirming(f)') => C2 + 1 <= C
        BY <1>3, <1>11, LosesOne
      <4>2. (\E h \in Retriable(f) : h \notin Retriable(f)') => R2 + 1 <= R
        BY <1>1, <1>7, LosesOne
      <4>3. ~Asked(f) /\ Asked(f)' => U2 + 1 <= U
        BY DEF Unasked
      <4> QED
        BY <3>1, <4>1, <4>2, <4>3
    <3>3. S2 + C2 + R2 + L2 + U2 <= B
      <4>1. /\ S \in Nat /\ C \in Nat /\ R \in Nat /\ L \in Nat /\ U \in Nat
            /\ C2 \in Nat /\ R2 \in Nat /\ L2 \in Nat /\ U2 \in Nat
            /\ C2 <= C /\ R2 <= R /\ L2 <= L /\ U2 <= U
        BY <1>1, <1>3, <1>4, <1>5, <1>6, <1>7, <2>1
      <4> HIDE DEF S, C, R, L, U, B, S2, C2, R2, L2, U2
      <4> QED
        BY <1>8, <3>1, <3>2, <4>1
    <3>4. file'[f].stage # "UPLOADING"
      <4> SUFFICES ASSUME file'[f].stage = "UPLOADING" PROVE FALSE
        OBVIOUS
      <4>1. file[f].stage = "UPLOADING" /\ Sent(f) = 0
        BY <1>1
      <4>2. Retriable(f) = {} /\ Reclaimable(f) = 0
        BY <4>1, NothingYet
      <4>3. ~Asked(f)'
        BY DEF OneDirection
      <4> QED
        BY <3>1, <4>2, <4>3
    <3> QED
      BY <1>9, <3>3, <3>4
  <2> QED
    BY <2>2, <2>3
<1> QED
  BY <1>10, <1>11

\* The budget is kept.
LEMMA BudgetStep ==
  ASSUME Frame, Frame', OneDirection, OneDirection', IsFiniteSet(Callers), BudgetHolds, [Next]_vars
  PROVE  BudgetHolds'
<1>1. ASSUME NEW f \in Files
      PROVE  Budget(f)' /\ (file'[f].stage = "UPLOADING" => Sent(f)' = 0)
  <2>1. Budget(f) /\ (file[f].stage = "UPLOADING" => Sent(f) = 0)
    BY DEF BudgetHolds
  <2>2. ASSUME NEW h \in Handlers, ClaimFile(h), handler[h].file = f
        PROVE  Budget(f)' /\ (file'[f].stage = "UPLOADING" => Sent(f)' = 0)
    <3>1. file'[f].stage # "UPLOADING"
      <4>1. file'[f] = Claim(file[f], handler[h].role, InstanceOf[h])
        BY <2>2 DEF ClaimFile, Frame, TypeOK
      <4> QED
        BY <4>1 DEF Claim, ClaimTarget, Frame, TypeOK, FileRow
    <3> QED
      BY <2>1, <2>2, <3>1, ClaimBudget
  <2> QED
    BY <2>1, <2>2, StepBudget
<1> QED
  BY <1>1 DEF BudgetHolds

\* At first nothing is sent and everything may still come.
LEMMA InitBudget ==
  ASSUME Init, IsFiniteSet(Callers)
  PROVE  BudgetHolds
<1> SUFFICES ASSUME NEW f \in Files PROVE Budget(f) /\ Sent(f) = 0
  BY DEF BudgetHolds
<1>1. Sent(f) = 0
  BY DEF Init, Sent, Topics
<1>2. Confirming(f) = {} /\ Retriable(f) = {}
  BY DEF Init, Confirming, Retriable, Idle
<1>3. Reclaimable(f) = 0 /\ Spent(f) = 0
  BY LeaseAssumption DEF Init, Reclaimable, Spent, NewFileRow
<1>4. Unasked(f) \in 0..1
  BY DEF Unasked
<1>5. /\ IsFiniteSet(Retriable(f)) /\ Cardinality(Retriable(f)) = 0
      /\ Cardinality(Confirming(f)) = 0 /\ Cardinality(Callers) \in Nat
  BY <1>2, FS_EmptySet, FS_CardinalityType
<1> QED
  BY <1>1, <1>3, <1>4, <1>5 DEF Budget

\* Attempts bound the work: however often deliveries, acknowledgements and the
\* sweep repeat themselves, the queue of a file never holds more than one message
\* for each caller, one for the request to convert, and two for each attempt but
\* the last (outbox.enqueue and its callers), for any number of files and
\* deliveries and any number of attempts, provided the callers are finitely many
\* and deliveries which share an identity serve one topic.
THEOREM WorkBounded ==
  ASSUME RoleSeparated, IsFiniteSet(Callers)
  PROVE  Spec => []WorkIsBounded
<1> DEFINE Inv == Frame /\ OneDirection /\ BudgetHolds
<1>1. Init => Inv
  BY InitFrame, InitOneDirection, InitBudget
<1>2. Inv /\ [Next]_vars => Inv'
  BY NextFrame, NextOneDirection, BudgetStep
<1>3. Inv => WorkIsBounded
  <2> SUFFICES ASSUME Inv, NEW f \in Files
               PROVE  Sent(f) <= Cardinality(Callers) + 1 + 2 * (MaxAttempts - 1)
    BY DEF WorkIsBounded, Sent
  <2>1. /\ Sent(f) \in Nat /\ Reclaimable(f) \in 0..1 /\ Unasked(f) \in 0..1
        /\ Spent(f) \in 0..(MaxAttempts - 1) /\ Cardinality(Callers) \in Nat
        /\ Cardinality(Confirming(f)) \in Nat
    BY Terms DEF Frame
  <2>2. Cardinality(Retriable(f)) \in Nat
    BY FS_CardinalityType DEF BudgetHolds, Budget
  <2>3. Sent(f) + Cardinality(Confirming(f)) + Cardinality(Retriable(f)) + Reclaimable(f) + Unasked(f)
          <= Cardinality(Callers) + 1 + 2 * Spent(f)
    BY DEF BudgetHolds, Budget
  <2> QED
    BY <2>1, <2>2, <2>3, LeaseAssumption
<1> QED
  BY <1>1, <1>2, <1>3, PTL DEF Spec

-----------------------------------------------------------------------------
(***************************************************************************)
(* Nothing is stranded: a file that waits can always still get to a worker.*)
(***************************************************************************)
\* A row that nobody has answered for: its message is with the broker, or it is
\* PENDING and no caller is about to mark it; and no delivery is at work on it.
Fresh(f, t, i) ==
  /\ i \in DOMAIN outbox[f][t]
  /\ \/ i \in inflight[f][t]
     \/ /\ outbox[f][t][i].status = "PENDING"
        /\ \A c \in Callers :
             call[c].phase = "marking" /\ call[c].topic = t => call[c].rows[f] # i
  /\ \A h \in Handlers :
       handler[h].phase = "working" =>
         ~(handler[h].file = f /\ handler[h].topic = t /\ handler[h].id = i)

\* The file is waiting for a delivery of topic t: its stage is what that topic
\* announces and nobody has it.
WaitsFor(row, t) ==
  \/ t = "file-uploaded" /\ row.stage = "UPLOADED"
  \/ t = "convert-requested" /\ row.stage = "CONVERTING" /\ row.lease = "none"

\* What waits has a row nobody has answered for.
Waiting ==
  \A f \in Files, t \in Topics :
    WaitsFor(file[f], t) => \E i \in Nat : Fresh(f, t, i)

-----------------------------------------------------------------------------
\* A row just enqueued is fresh: nobody has had the time to know of it.
LEMMA NewRowFresh ==
  ASSUME Frame, NEW f \in Files, NEW t \in Topics, NEW k,
         k = Len(outbox[f][t]) + 1,
         k \in DOMAIN outbox'[f][t],
         outbox'[f][t][k] = NewOutboxRow,
         \A h \in Handlers : handler'[h].phase = "working" =>
           /\ handler[h] # Idle
           /\ << handler'[h].file, handler'[h].topic, handler'[h].id >> =
              << handler[h].file, handler[h].topic, handler[h].id >>,
         \A c \in Callers : call'[c].phase = "marking" => call'[c] = call[c]
  PROVE  Fresh(f, t, k)'
<1>1. /\ Len(outbox[f][t]) \in Nat
      /\ k \notin DOMAIN outbox[f][t]
  BY DEF Frame, TypeOK
<1>2. outbox'[f][t][k].status = "PENDING"
  BY DEF NewOutboxRow
<1>3. ASSUME NEW c \in Callers, call'[c].phase = "marking", call'[c].topic = t
      PROVE  call'[c].rows[f] # k
  <2>1. call[c].rows[f] <= Len(outbox[f][t]) /\ call[c].rows[f] \in Nat
    BY <1>3, Phases DEF Frame, RowsExist, PublishCall
  <2> QED
    BY <1>1, <1>3, <2>1
<1>4. ASSUME NEW h \in Handlers, handler'[h].phase = "working",
             handler'[h].file = f, handler'[h].topic = t
      PROVE  handler'[h].id # k
  <2>1. handler[h].id \in DOMAIN outbox[f][t]
    BY <1>4 DEF Frame, RowsExist
  <2> QED
    BY <1>1, <1>4, <2>1
<1> QED
  BY <1>2, <1>3, <1>4 DEF Fresh

\* A fresh row stays fresh while the outbox keeps it, its message is not
\* acknowledged, and no caller and no delivery takes it up.
LEMMA FreshKept ==
  ASSUME NEW f \in Files, NEW t \in Topics, NEW i, Fresh(f, t, i),
         i \in DOMAIN outbox'[f][t],
         i \in inflight[f][t] => i \in inflight'[f][t],
         \/ i \in inflight'[f][t]
         \/ /\ outbox'[f][t][i].status = outbox[f][t][i].status
            /\ \A c \in Callers :
                 call'[c].phase = "marking" /\ call'[c].topic = t
                 /\ call'[c].rows[f] = i => call'[c] = call[c],
         \A h \in Handlers :
           handler'[h].phase = "working" /\ handler'[h].file = f
           /\ handler'[h].topic = t /\ handler'[h].id = i =>
             /\ handler[h].phase = "working"
             /\ << handler[h].file, handler[h].topic, handler[h].id >> = << f, t, i >>
  PROVE  Fresh(f, t, i)'
<1>1. \/ i \in inflight'[f][t]
      \/ /\ outbox'[f][t][i].status = "PENDING"
         /\ \A c \in Callers :
              call'[c].phase = "marking" /\ call'[c].topic = t => call'[c].rows[f] # i
  BY DEF Fresh
<1>2. \A h \in Handlers :
        handler'[h].phase = "working" =>
          ~(handler'[h].file = f /\ handler'[h].topic = t /\ handler'[h].id = i)
  BY DEF Fresh
<1> QED
  BY <1>1, <1>2 DEF Fresh

\* When an action of a delivery leaves its file waiting, either it has just put
\* the file in the queue, or the file was waiting before and the answer to the
\* delivery cannot have taken its message.
LEMMA WorkWaits ==
  ASSUME Frame, OneDirection, "pauses" \notin FailureKinds,
         NEW h \in Handlers, Work(h), NEW f \in Files, f = handler[h].file,
         NEW t \in Topics, WaitsFor(file'[f], t)
  PROVE  \/ Enqueue(f, t)
         \/ /\ WaitsFor(file[f], t)
            /\ ~ClaimFile(h)
            /\ \/ handler[h].phase = "working"
               \/ handler[h].topic # t
               \/ UNCHANGED inflight
<1> DEFINE d == handler[h]
           inst == InstanceOf[h]
<1>1. /\ d.role \in Roles /\ d # Idle
      /\ file[f] \in FileRow /\ RowShape(file[f])
      /\ inst # NoOne
      /\ \A row : file' = [ file EXCEPT ![f] = row ] => file'[f] = row
  <2>1. d \in Delivery /\ TypeOK
    BY WorkSteps DEF Frame
  <2>2. d # Idle
    BY <2>1, Phases DEF Delivery, Idle
  <2> QED
    BY <2>1, <2>2, PipelineAssumption, LeaseAssumption
       DEF Delivery, Frame, TypeOK, LeaseShape
<1>2. ~(file' = [ file EXCEPT ![f] = FailTables(Fail(@)) ])
  <2> SUFFICES ASSUME file' = [ file EXCEPT ![f] = FailTables(Fail(@)) ] PROVE FALSE
    OBVIOUS
  <2>1. file'[f] = FailTables(Fail(file[f]))
    BY <1>1
  <2>2. Fail(file[f]) \in FileRow /\ Fail(file[f]).stage = "FAILED"
    BY <1>1 DEF Fail, FileRow, Stages
  <2>3. file'[f].stage = "FAILED"
    BY <2>1, <2>2 DEF FailTables, FileRow
  <2> QED
    BY <2>3 DEF WaitsFor
<1>3. ~ClaimExhausted(h) /\ ~AttemptIsFinal(h) /\ ~AttemptPauses(h)
  BY <1>2 DEF ClaimExhausted, AttemptIsFinal, AttemptPauses
<1>4. ~ClaimFile(h)
  <2> SUFFICES ASSUME ClaimFile(h) PROVE FALSE
    OBVIOUS
  <2>1. file'[f] = Claim(file[f], d.role, inst)
    BY <1>1 DEF ClaimFile
  <2>2. file'[f].lease = "live" /\ file'[f].stage = ClaimTarget(d.role)
    BY <1>1, <2>1 DEF Claim, FileRow
  <2> QED
    BY <1>1, <2>2 DEF WaitsFor, ClaimTarget
<1>5. CASE ClaimRefused(h) \/ ClaimNacked(h)
  <2>1. /\ UNCHANGED file
        /\ ClaimOutcome(file[f], d.role) \in { "TERMINAL", "ALREADY_DONE", "LEASE_HELD" }
    BY <1>5 DEF ClaimRefused, ClaimNacked
  <2>2. WaitsFor(file[f], t)
    BY <2>1
  <2>3. /\ file[f].lease = "none"
        /\ file[f].stage \in { "UPLOADED", "CONVERTING" }
    BY <1>1, <2>2 DEF WaitsFor, RowShape, FileRow
  <2>4. file[f].stage \notin Claimable(d.role)
    <3> SUFFICES ASSUME file[f].stage \in Claimable(d.role) PROVE FALSE
      OBVIOUS
    <3>1. file[f].attempts \in Nat /\ MaxAttempts \in Nat
      BY <1>1, LeaseAssumption DEF FileRow
    <3> QED
      BY <2>1, <2>3, <3>1 DEF ClaimOutcome, CanClaim
  <2>5. CASE d.role = "convert"
    <3>1. file[f].stage = "CONVERTING"
      BY <1>1, <2>3, <2>5 DEF OneDirection
    <3> QED
      BY <2>4, <2>5, <3>1 DEF Claimable
  <2>6. CASE d.role = "inspect"
    <3>1. file[f].stage = "CONVERTING"
      BY <2>3, <2>4, <2>6 DEF Claimable
    <3>2. t = "convert-requested"
      BY <2>2, <3>1 DEF WaitsFor
    <3>3. d.topic # "convert-requested"
      BY <1>1, <2>6 DEF OneDirection
    <3> QED
      BY <1>4, <2>2, <3>2, <3>3
  <2> QED
    BY <1>1, <2>5, <2>6 DEF Roles
<1>6. CASE InspectSucceeds(h)
  <2> DEFINE row == Complete(SeedTables(file[f]), inst, "SCHEMA_READY")
  <2>1. /\ row.stage = IF file[f].claimedBy = inst THEN "SCHEMA_READY"
                                                   ELSE file[f].stage
        /\ file[f].claimedBy # inst => row.lease = file[f].lease
        /\ row \in FileRow
    BY <1>1 DEF Complete, SeedTables, FileRow, Stages, TableStages
  <2>2. CASE Chained(row)
    <3>1. /\ file' = [ file EXCEPT ![f] = [ row EXCEPT !.stage = "CONVERTING" ] ]
          /\ Enqueue(f, "convert-requested")
      BY <1>6, <2>2 DEF InspectSucceeds
    <3>2. file'[f] = [ row EXCEPT !.stage = "CONVERTING" ]
      BY <1>1, <3>1
    <3> HIDE DEF row
    <3>3. file'[f].stage = "CONVERTING"
      BY <2>1, <3>2 DEF FileRow
    <3> QED
      BY <3>1, <3>3 DEF WaitsFor
  <2>3. CASE ~Chained(row)
    <3>1. file' = [ file EXCEPT ![f] = row ]
      BY <1>6, <2>3 DEF InspectSucceeds
    <3>2. file'[f] = row
      BY <1>1, <3>1
    <3> HIDE DEF row
    <3>3. WaitsFor(file[f], t)
      BY <2>1, <3>2 DEF WaitsFor
    <3> QED
      BY <1>4, <1>6, <3>3 DEF InspectSucceeds
  <2> QED
    BY <2>2, <2>3
<1>7. CASE ConvertSucceeds(h)
  <2>1. file'[f] = Complete(FinishTables(file[f]), inst, "COMPLETED")
    BY <1>1, <1>7 DEF ConvertSucceeds
  <2>2. /\ file'[f].stage = IF file[f].claimedBy = inst THEN "COMPLETED"
                                                        ELSE file[f].stage
        /\ file[f].claimedBy # inst => file'[f].lease = file[f].lease
    BY <1>1, <2>1 DEF Complete, FinishTables, FileRow
  <2>3. WaitsFor(file[f], t)
    BY <2>2 DEF WaitsFor
  <2> QED
    BY <1>4, <1>7, <2>3 DEF ConvertSucceeds
<1>8. CASE AttemptIsRetried(h)
  <2> DEFINE back == BackTo(d.role)
  <2>1. file'[f] = Release(file[f], inst, back) /\ Enqueue(f, TopicForStage(back))
    BY <1>1, <1>8 DEF AttemptIsRetried
  <2>2. CASE file[f].claimedBy = inst
    <3>1. file'[f].stage = back
      BY <1>1, <2>1, <2>2 DEF Release, FileRow
    <3>2. TopicForStage(back) = t
      <4>1. \/ back = "UPLOADED" /\ t = "file-uploaded"
            \/ back = "CONVERTING" /\ t = "convert-requested"
        BY <3>1 DEF WaitsFor
      <4> HIDE DEF back
      <4> QED
        BY <4>1 DEF TopicForStage
    <3> QED
      BY <2>1, <3>2
  <2>3. CASE file[f].claimedBy # inst
    <3>1. file'[f] = file[f]
      BY <2>1, <2>3 DEF Release
    <3> QED
      BY <1>4, <1>8, <3>1 DEF AttemptIsRetried
  <2> QED
    BY <2>2, <2>3
<1>9. CASE Heartbeat(h)
  <2>1. file'[f] = Renew(file[f], inst) /\ UNCHANGED inflight
    BY <1>1, <1>9 DEF Heartbeat
  <2>2. file'[f].stage = file[f].stage
    BY <1>1, <2>1 DEF Renew, FileRow
  <2>3. file'[f].lease = "none" => file[f].lease = "none"
    BY <1>1, <2>1 DEF Renew, FileRow
  <2>4. WaitsFor(file[f], t)
    BY <2>2, <2>3 DEF WaitsFor
  <2> QED
    BY <1>4, <2>1, <2>4
<1>10. CASE HandlerDies(h)
  BY <1>4, <1>10 DEF HandlerDies
<1> QED
  BY <1>3, <1>4, <1>5, <1>6, <1>7, <1>8, <1>9, <1>10 DEF Work

\* One enqueue gives the file a fresh row, if no caller starts to mark and no
\* delivery changes what it works on.
LEMMA EnqueueFresh ==
  ASSUME Frame, NEW f \in Files, NEW t \in Topics, Enqueue(f, t),
         \A h \in Handlers : handler'[h].phase = "working" =>
           /\ handler[h] # Idle
           /\ << handler'[h].file, handler'[h].topic, handler'[h].id >> =
              << handler[h].file, handler[h].topic, handler[h].id >>,
         \A c \in Callers : call'[c].phase = "marking" => call'[c] = call[c]
  PROVE  \E i \in Nat : Fresh(f, t, i)'
<1>1. PICK k \in Nat : k = Len(outbox[f][t]) + 1
  BY DEF Frame, TypeOK
<1>2. /\ outbox'[f][t] \in Seq(OutboxRow)
      /\ Len(outbox'[f][t]) = k
      /\ outbox'[f][t][k] = NewOutboxRow
  BY <1>1, EnqueueOps DEF Frame, TypeOK
<1>3. k \in DOMAIN outbox'[f][t]
  BY <1>1, <1>2 DEF Frame, TypeOK
<1>4. Fresh(f, t, k)'
  BY <1>1, <1>2, <1>3, NewRowFresh
<1> QED
  BY <1>4

\* The deliveries leave every waiting file a fresh row.
LEMMA WorkWaiting ==
  ASSUME Frame, OneDirection, Waiting, "pauses" \notin FailureKinds,
         NEW h \in Handlers, Work(h)
  PROVE  Waiting'
<1>1. PICK f \in Files : f = handler[h].file
  BY WorkSteps DEF Frame, Delivery
<1>2. PICK dt \in Topics, di \in Nat : dt = handler[h].topic /\ di = handler[h].id
  BY WorkSteps DEF Frame, Delivery
<1>3. handler[h] # Idle /\ UNCHANGED call
  BY WorkSteps, Phases DEF Delivery, Idle, Frame, Finished
<1>4. /\ \A k \in Handlers : k # h => handler'[k] = handler[k]
      /\ handler'[h].phase = "working" =>
           << handler'[h].file, handler'[h].topic, handler'[h].id >> = << f, dt, di >>
  <2>1. handler'[h] = Idle => handler'[h].phase # "working"
    BY DEF Idle
  <2> QED
    BY <1>1, <1>2, <2>1, WorkSteps DEF Finished, Frame, TypeOK
<1>5. UNCHANGED inflight \/ Acked(f, dt, di)
  BY <1>1, <1>2, WorkSteps DEF Finished, Frame
<1>6. \A g \in Files, u \in Topics : \A j :
        j \in inflight[g][u] /\ << g, u, j >> # << f, dt, di >> => j \in inflight'[g][u]
  BY <1>5, AckedOps DEF Frame, TypeOK
<1>7. \A g \in Files, u \in Topics :
        /\ DOMAIN outbox[g][u] \subseteq DOMAIN outbox'[g][u]
        /\ \A j \in DOMAIN outbox[g][u] : outbox'[g][u][j] = outbox[g][u][j]
  <2>1. UNCHANGED outbox \/ \E t \in Topics : Enqueue(f, t)
    BY <1>1, WorkSteps DEF Frame
  <2> QED
    BY <2>1, EnqueueGrows DEF Frame
<1>8. ASSUME NEW g \in Files, NEW t \in Topics, NEW i \in Nat, Fresh(g, t, i),
             << g, t, i >> # << f, dt, di >> \/ UNCHANGED inflight,
             g = f => ~ClaimFile(h)
      PROVE  Fresh(g, t, i)'
  <2>1. /\ i \in DOMAIN outbox[g][t]
        /\ i \in DOMAIN outbox'[g][t]
        /\ outbox'[g][t][i] = outbox[g][t][i]
    BY <1>7, <1>8 DEF Fresh
  <2>2. i \in inflight[g][t] => i \in inflight'[g][t]
    BY <1>6, <1>8
  <2>3. i \in inflight'[g][t] \/ i \notin inflight[g][t]
    BY <2>2
  <2>4. ASSUME NEW k \in Handlers, handler'[k].phase = "working", handler'[k].file = g,
               handler'[k].topic = t, handler'[k].id = i
        PROVE  /\ handler[k].phase = "working"
               /\ << handler[k].file, handler[k].topic, handler[k].id >> = << g, t, i >>
    <3>1. CASE k # h
      BY <1>4, <2>4, <3>1
    <3>2. CASE k = h
      <4>1. g = f /\ handler[h].file = g /\ handler[h].topic = t /\ handler[h].id = i
        BY <1>1, <1>2, <1>4, <2>4, <3>2
      <4>2. handler[h].phase = "working"
        <5>1. ~ClaimFile(h)
          BY <1>8, <4>1
        <5>2. handler'[h] # Idle
          BY <2>4, <3>2 DEF Idle
        <5>3. CASE Heartbeat(h)
          BY <5>3 DEF Heartbeat
        <5>4. CASE ~Heartbeat(h)
          BY <5>1, <5>2, <5>4
             DEF Work, ClaimRefused, ClaimExhausted, ClaimNacked, InspectSucceeds,
                 ConvertSucceeds, AttemptIsRetried, AttemptIsFinal,
                 AttemptPauses, HandlerDies, Frame, TypeOK
        <5> QED
          BY <5>3, <5>4
      <4> QED
        BY <3>2, <4>1, <4>2
    <3> QED
      BY <3>1, <3>2
  <2> QED
    BY <1>3, <1>8, <2>1, <2>2, <2>4, FreshKept
<1>9. ASSUME NEW g \in Files, NEW t \in Topics, WaitsFor(file'[g], t)
      PROVE  \E i \in Nat : Fresh(g, t, i)'
  <2>1. CASE g # f
    <3>1. file'[g] = file[g]
      BY <1>1, <2>1, WorkSteps DEF RowStep, Frame, TypeOK
    <3>2. PICK i \in Nat : Fresh(g, t, i)
      BY <1>9, <3>1 DEF Waiting
    <3>3. Fresh(g, t, i)'
      BY <1>8, <2>1, <3>2
    <3> QED
      BY <3>3
  <2>2. CASE g = f
    <3>1. CASE Enqueue(f, t)
      <4>1. \A k \in Handlers : handler'[k].phase = "working" =>
              /\ handler[k] # Idle
              /\ << handler'[k].file, handler'[k].topic, handler'[k].id >> =
                 << handler[k].file, handler[k].topic, handler[k].id >>
        BY <1>1, <1>2, <1>3, <1>4 DEF Idle
      <4> QED
        BY <1>3, <2>2, <3>1, <4>1, EnqueueFresh
    <3>2. CASE ~Enqueue(f, t)
      <4>1. /\ WaitsFor(file[f], t)
            /\ ~ClaimFile(h)
            /\ handler[h].phase = "working" \/ dt # t \/ UNCHANGED inflight
        BY <1>1, <1>2, <1>9, <2>2, <3>2, WorkWaits
      <4>2. PICK i \in Nat : Fresh(f, t, i)
        BY <4>1 DEF Waiting
      <4>3. << f, t, i >> # << f, dt, di >> \/ UNCHANGED inflight
        <5>1. CASE handler[h].phase = "working"
          BY <1>1, <1>2, <4>2, <5>1 DEF Fresh
        <5> QED
          BY <4>1, <5>1
      <4>4. Fresh(f, t, i)'
        BY <1>8, <4>1, <4>2, <4>3
      <4> QED
        BY <2>2, <4>4
    <3> QED
      BY <3>1, <3>2
  <2> QED
    BY <2>1, <2>2
<1> QED
  BY <1>9 DEF Waiting

\* The sweep and the clock leave every waiting file a fresh row: a reclaimed file
\* is queued in the same step.
LEMMA SweepWaiting ==
  ASSUME Frame, Waiting, NEW f \in Files, LeaseExpires(f) \/ Sweep(f)
  PROVE  Waiting'
<1>1. /\ UNCHANGED << inflight, handler, call >>
      /\ UNCHANGED outbox \/ \E t \in Topics : Enqueue(f, t)
  BY DEF LeaseExpires, Sweep, SweepReclaims, SweepFails, TopicForStage, Topics
<1>2. ASSUME NEW g \in Files, NEW t \in Topics, NEW i, Fresh(g, t, i)
      PROVE  Fresh(g, t, i)'
  <2>1. /\ DOMAIN outbox[g][t] \subseteq DOMAIN outbox'[g][t]
        /\ \A j \in DOMAIN outbox[g][t] : outbox'[g][t][j] = outbox[g][t][j]
    BY <1>1, EnqueueGrows DEF Frame
  <2>2. i \in DOMAIN outbox[g][t]
    BY <1>2 DEF Fresh
  <2> QED
    BY <1>1, <1>2, <2>1, <2>2, FreshKept
<1>3. ASSUME NEW g \in Files, NEW t \in Topics, WaitsFor(file'[g], t)
      PROVE  \E i \in Nat : Fresh(g, t, i)'
  <2>1. CASE WaitsFor(file[g], t)
    <3>1. PICK i \in Nat : Fresh(g, t, i)
      BY <2>1 DEF Waiting
    <3> QED
      BY <1>2, <3>1
  <2>2. CASE ~WaitsFor(file[g], t)
    <3>1. g = f
      BY <1>3, <2>2 DEF LeaseExpires, Sweep, SweepReclaims, SweepFails, Frame, TypeOK
    <3>2. file[f] \in FileRow
      BY DEF Frame, TypeOK
    <3>3. ~LeaseExpires(f)
      <4> SUFFICES ASSUME LeaseExpires(f) PROVE FALSE
        OBVIOUS
      <4>1. file'[f] = [ file[f] EXCEPT !.lease = "expired" ]
        BY DEF LeaseExpires, Frame, TypeOK
      <4> QED
        BY <1>3, <2>2, <3>1, <3>2, <4>1 DEF WaitsFor, FileRow
    <3>4. ~SweepFails(f)
      <4> SUFFICES ASSUME SweepFails(f) PROVE FALSE
        OBVIOUS
      <4>1. file'[f] = FailTables(Fail(file[f]))
        BY DEF SweepFails, Frame, TypeOK
      <4>2. Fail(file[f]) \in FileRow /\ Fail(file[f]).stage = "FAILED"
        BY <3>2 DEF Fail, FileRow, Stages
      <4>3. file'[f].stage = "FAILED"
        BY <4>1, <4>2 DEF FailTables, FileRow
      <4> QED
        BY <1>3, <3>1, <4>3 DEF WaitsFor
    <3>5. Enqueue(f, t)
      <4> DEFINE back == IF file[f].stage = "INSPECTING" THEN "UPLOADED" ELSE "CONVERTING"
      <4>1. /\ file'[f] = [ file[f] EXCEPT !.stage = back, !.claimedBy = NoOne,
                                           !.lease = "none" ]
            /\ Enqueue(f, TopicForStage(back))
        BY <3>3, <3>4 DEF Sweep, SweepReclaims, Frame, TypeOK
      <4>2. file'[f].stage = back
        BY <3>2, <4>1 DEF FileRow
      <4>3. \/ back = "UPLOADED" /\ t = "file-uploaded"
            \/ back = "CONVERTING" /\ t = "convert-requested"
        BY <1>3, <3>1, <4>2 DEF WaitsFor
      <4> HIDE DEF back
      <4> QED
        BY <4>1, <4>3 DEF TopicForStage
    <3>6. \A h \in Handlers : handler[h].phase = "working" => handler[h] # Idle
      BY DEF Idle
    <3> QED
      BY <1>1, <3>1, <3>5, <3>6, EnqueueFresh
  <2> QED
    BY <2>1, <2>2
<1> QED
  BY <1>3 DEF Waiting

\* The relay and the broker leave every waiting file a fresh row: a row that is
\* not PENDING any more has its message with the broker, or its file has failed.
LEMMA QueueWaiting ==
  ASSUME Frame, Waiting, BrokerDeadLetters = FALSE,
         NEW f \in Files, NEW t \in Topics,
         \/ \E i \in DOMAIN outbox[f][t] : Relay(f, t, i)
         \/ \E i \in inflight[f][t] : Broker(f, t, i)
  PROVE  Waiting'
<1>1. ASSUME NEW i \in DOMAIN outbox[f][t], Relay(f, t, i) PROVE Waiting'
  <2>1. UNCHANGED << handler, call >>
    BY <1>1 DEF Relay, RelayPublishes, RelayPublishesUnrecorded,
                RelayRetriesLater, RelayGivesUp
  <2>2. \A g \in Files, u \in Topics : inflight[g][u] \subseteq inflight'[g][u]
    <3> DEFINE more == inflight[f][t] \cup {i}
    <3>1. UNCHANGED inflight \/ inflight' = [ inflight EXCEPT ![f][t] = more ]
      BY <1>1 DEF Relay, RelayPublishes, RelayPublishesUnrecorded,
                  RelayRetriesLater, RelayGivesUp
    <3>2. inflight[f][t] \subseteq more
      OBVIOUS
    <3> HIDE DEF more
    <3>3. CASE UNCHANGED inflight
      BY <3>3
    <3>4. CASE inflight' = [ inflight EXCEPT ![f][t] = more ]
      <4>1. /\ inflight'[f][t] = more
            /\ \A g \in Files, u \in Topics :
                 g # f \/ u # t => inflight'[g][u] = inflight[g][u]
        BY <3>4 DEF Frame, TypeOK
      <4> QED
        BY <3>2, <4>1
    <3> QED
      BY <3>1, <3>3, <3>4
  <2>3. /\ outbox[f][t] \in Seq(OutboxRow)
        /\ outbox[f][t][i] \in OutboxRow
    BY DEF Frame, TypeOK
  <2>4. ASSUME NEW g \in Files, NEW u \in Topics, NEW j \in DOMAIN outbox[g][u]
        PROVE  /\ j \in DOMAIN outbox'[g][u]
               /\ \/ outbox'[g][u][j].status = outbox[g][u][j].status
                  \/ RelayPublishes(f, t, i) /\ j \in inflight'[g][u]
                  \/ RelayGivesUp(f, t, i) /\ g = f
    <3>1. \A r : outbox' = [ outbox EXCEPT ![f][t][i] = r ] =>
            /\ DOMAIN outbox[g][u] = DOMAIN outbox'[g][u]
            /\ \/ outbox'[g][u][j] = outbox[g][u][j]
               \/ g = f /\ u = t /\ j = i /\ outbox'[g][u][j] = r
      BY DEF Frame, TypeOK
    <3>2. CASE RelayPublishes(f, t, i)
      <4>1. i \in inflight'[f][t]
        BY <3>2 DEF RelayPublishes, Frame, TypeOK
      <4> QED
        BY <3>1, <3>2, <4>1 DEF RelayPublishes
    <3>3. CASE RelayPublishesUnrecorded(f, t, i)
      BY <3>3 DEF RelayPublishesUnrecorded
    <3>4. CASE RelayRetriesLater(f, t, i)
      <4> DEFINE r == [ outbox[f][t][i] EXCEPT !.attempts = @ + 1 ]
      <4>1. outbox' = [ outbox EXCEPT ![f][t][i] = r ]
        BY <3>4 DEF RelayRetriesLater
      <4>2. r.status = outbox[f][t][i].status
        BY <2>3 DEF OutboxRow
      <4> HIDE DEF r
      <4> QED
        BY <3>1, <4>1, <4>2
    <3>5. CASE RelayGivesUp(f, t, i)
      BY <3>1, <3>5 DEF RelayGivesUp
    <3> QED
      BY <1>1, <3>2, <3>3, <3>4, <3>5 DEF Relay
  <2>5. ASSUME NEW g \in Files, NEW u \in Topics, NEW j, Fresh(g, u, j),
               ~(RelayGivesUp(f, t, i) /\ g = f)
        PROVE  Fresh(g, u, j)'
    <3>1. j \in DOMAIN outbox[g][u]
      BY <2>5 DEF Fresh
    <3>2. /\ j \in DOMAIN outbox'[g][u]
          /\ j \in inflight'[g][u] \/ outbox'[g][u][j].status = outbox[g][u][j].status
      BY <2>4, <2>5, <3>1
    <3> QED
      BY <2>1, <2>2, <2>5, <3>1, <3>2, FreshKept
  <2>6. ASSUME NEW g \in Files, NEW u \in Topics, WaitsFor(file'[g], u)
        PROVE  \E j \in Nat : Fresh(g, u, j)'
    <3>1. ~(RelayGivesUp(f, t, i) /\ g = f) /\ file'[g] = file[g]
      <4>1. CASE ~RelayGivesUp(f, t, i)
        BY <1>1, <4>1 DEF Relay, RelayPublishes, RelayPublishesUnrecorded,
                          RelayRetriesLater
      <4>2. CASE RelayGivesUp(f, t, i)
        <5>1. file'[f].stage = "FAILED"
          BY <4>2 DEF RelayGivesUp, Fail, Frame, TypeOK, FileRow
        <5>2. g # f
          BY <2>6, <5>1 DEF WaitsFor
        <5> QED
          BY <4>2, <5>2 DEF RelayGivesUp, Frame, TypeOK
      <4> QED
        BY <4>1, <4>2
    <3>2. PICK j \in Nat : Fresh(g, u, j)
      BY <2>6, <3>1 DEF Waiting
    <3> QED
      BY <2>5, <3>1, <3>2
  <2> QED
    BY <2>6 DEF Waiting
<1>2. ASSUME NEW i \in inflight[f][t], Broker(f, t, i) PROVE Waiting'
  <2>1. UNCHANGED << file, outbox, call >> /\ ~BrokerDropsMessage(f, t, i)
    BY <1>2 DEF Broker, Receive, ReceiveNothingToDo, BrokerDropsMessage
  <2>2. ASSUME NEW h \in Handlers, Receive(h, f, t, i) PROVE Waiting'
    <3>1. UNCHANGED inflight
      BY <2>2 DEF Receive
    <3>2. \A k \in Handlers : handler'[k].phase = "working" => handler'[k] = handler[k]
      BY <2>2 DEF Receive, Frame, TypeOK
    <3>3. ASSUME NEW g \in Files, NEW u \in Topics, NEW j \in Nat, Fresh(g, u, j)
          PROVE  Fresh(g, u, j)'
      BY <2>1, <3>1, <3>2, <3>3 DEF Fresh
    <3> QED
      BY <2>1, <3>3 DEF Waiting
  <2>3. ASSUME NEW h \in Handlers, ReceiveNothingToDo(h, f, t, i) PROVE Waiting'
    <3>1. UNCHANGED handler /\ Acked(f, t, i)
      BY <2>3 DEF ReceiveNothingToDo
    <3>2. \A u \in Topics : ~WaitsFor(file[f], u)
      <4>1. /\ RoleOf[h] = "both"
            /\ \A r \in Roles : file[f].stage \notin Claimable(r)
        BY <2>3 DEF ReceiveNothingToDo, ResolvedRoles
      <4> QED
        BY <4>1 DEF WaitsFor, Roles, Claimable
    <3>3. \A g \in Files, u \in Topics : g # f => inflight[g][u] \subseteq inflight'[g][u]
      BY <3>1, AckedOps DEF Frame, TypeOK
    <3>4. ASSUME NEW g \in Files, NEW u \in Topics, NEW j \in Nat, Fresh(g, u, j), g # f
          PROVE  Fresh(g, u, j)'
      BY <2>1, <3>1, <3>3, <3>4 DEF Fresh
    <3> QED
      BY <2>1, <3>2, <3>4 DEF Waiting
  <2> QED
    BY <1>2, <2>1, <2>2, <2>3 DEF Broker
<1> QED
  BY <1>1, <1>2

\* The API leaves every waiting file a fresh row: what an inline publish marks is
\* with the broker already.
LEMMA ApiWaiting ==
  ASSUME Frame, Waiting, NEW c \in Callers, Api(c)
  PROVE  Waiting'
<1>1. UNCHANGED handler /\ \A h \in Handlers : handler[h].phase = "working" => handler[h] # Idle
  BY DEF Api, ConfirmRead, ConfirmArrived, ConfirmMissing, ConvertGate,
         ConvertMove, ConvertCommit, PublishInline, MarkInline, CallDies, Idle
<1>2. /\ \A d \in Callers : d # c => call'[d] = call[d]
      /\ \A x : call' = [ call EXCEPT ![c] = x ] => call'[c] = x
  <2>1. call = [ d \in Callers |-> call[d] ]
    BY DEF Frame, TypeOK
  <2>2. PICK y : call' = [ call EXCEPT ![c] = y ]
    BY DEF Api, ConfirmRead, ConfirmArrived, ConfirmMissing, ConvertGate,
           ConvertMove, ConvertCommit, PublishInline, MarkInline, CallDies
  <2> QED
    BY <2>1, <2>2
<1>3. ASSUME \A g \in Files, u \in Topics :
               /\ DOMAIN outbox[g][u] \subseteq DOMAIN outbox'[g][u]
               /\ \A j \in DOMAIN outbox[g][u] : outbox'[g][u][j] = outbox[g][u][j],
             UNCHANGED inflight, call'[c].phase # "marking",
             NEW g \in Files, NEW u \in Topics, NEW j \in Nat, Fresh(g, u, j)
      PROVE  Fresh(g, u, j)'
  <2>1. j \in DOMAIN outbox[g][u]
    BY <1>3 DEF Fresh
  <2>2. j \in DOMAIN outbox'[g][u] /\ outbox'[g][u][j] = outbox[g][u][j]
    BY <1>3, <2>1
  <2>3. \A d \in Callers : call'[d].phase = "marking" => call'[d] = call[d]
    BY <1>2, <1>3
  <2> QED
    BY <1>1, <1>3, <2>2, <2>3, FreshKept
<1>4. ASSUME UNCHANGED << outbox, inflight >>, call'[c].phase # "marking",
             \A g \in Files : file'[g] = file[g] \/ file'[g].stage = "FAILED"
      PROVE  Waiting'
  <2>1. ASSUME NEW g \in Files, NEW u \in Topics, WaitsFor(file'[g], u)
        PROVE  \E j \in Nat : Fresh(g, u, j)'
    <3>1. file'[g] = file[g]
      BY <1>4, <2>1 DEF WaitsFor
    <3>2. PICK j \in Nat : Fresh(g, u, j)
      BY <2>1, <3>1 DEF Waiting
    <3>3. Fresh(g, u, j)'
      BY <1>3, <1>4, <3>2
    <3> QED
      BY <3>3
  <2> QED
    BY <2>1 DEF Waiting
<1>5. ASSUME NEW f \in Files, ConfirmRead(c, f) PROVE Waiting'
  BY <1>2, <1>4, <1>5 DEF ConfirmRead
<1>6. CASE ConfirmArrived(c)
  <2>1. PICK f \in Files : f = call[c].file
    BY <1>6, Phases DEF Frame, ConfirmArrived, ConfirmCall
  <2>2. /\ Enqueue(f, "file-uploaded")
        /\ UNCHANGED inflight
        /\ call'[c].phase = "publishing"
    BY <1>2, <1>6, <2>1 DEF ConfirmArrived
  <2>3. \A g \in Files, u \in Topics :
          /\ DOMAIN outbox[g][u] \subseteq DOMAIN outbox'[g][u]
          /\ \A j \in DOMAIN outbox[g][u] : outbox'[g][u][j] = outbox[g][u][j]
    <3>1. UNCHANGED outbox \/ \E t \in Topics : Enqueue(f, t)
      BY <2>2 DEF Topics
    <3> QED
      BY <3>1, EnqueueGrows DEF Frame
  <2>4. ASSUME NEW g \in Files, NEW u \in Topics, WaitsFor(file'[g], u)
        PROVE  \E j \in Nat : Fresh(g, u, j)'
    <3>1. CASE WaitsFor(file[g], u)
      <4>1. PICK j \in Nat : Fresh(g, u, j)
        BY <3>1 DEF Waiting
      <4>2. Fresh(g, u, j)'
        BY <1>3, <2>2, <2>3, <4>1
      <4> QED
        BY <4>2
    <3>2. CASE ~WaitsFor(file[g], u)
      <4>1. g = f /\ u = "file-uploaded"
        <5>1. /\ g # f => file'[g] = file[g]
              /\ file'[g].lease = file[g].lease
              /\ \/ file'[g].stage = file[g].stage
                 \/ file'[g].stage = "UPLOADED"
          BY <1>6, <2>1 DEF ConfirmArrived, Frame, TypeOK, FileRow
        <5> QED
          BY <2>4, <3>2, <5>1 DEF WaitsFor
      <4>2. \A d \in Callers : call'[d].phase = "marking" => call'[d] = call[d]
        BY <1>2, <2>2
      <4> QED
        BY <1>1, <2>2, <4>1, <4>2, EnqueueFresh
    <3> QED
      BY <3>1, <3>2
  <2> QED
    BY <2>4 DEF Waiting
<1>7. CASE ConfirmMissing(c)
  <2>1. \A g \in Files : file'[g] = file[g] \/ file'[g].stage = "FAILED"
    BY <1>7 DEF ConfirmMissing, Frame, TypeOK, FileRow
  <2> QED
    BY <1>2, <1>4, <1>7, <2>1 DEF ConfirmMissing, Idle
<1>8. CASE ConvertGate(c)
  BY <1>2, <1>4, <1>8 DEF ConvertGate
<1>9. CASE ConvertMove(c)
  BY <1>2, <1>4, <1>9 DEF ConvertMove
<1>10. CASE ConvertCommit(c)
  <2> DEFINE t == "convert-requested"
  <2>1. /\ \A f \in Files : f \in call[c].moved =>
             /\ Len(outbox'[f][t]) = Len(outbox[f][t]) + 1
             /\ outbox'[f][t][Len(outbox[f][t]) + 1] = NewOutboxRow
        /\ \A g \in Files, u \in Topics :
             /\ DOMAIN outbox[g][u] \subseteq DOMAIN outbox'[g][u]
             /\ \A j \in DOMAIN outbox[g][u] : outbox'[g][u][j] = outbox[g][u][j]
        /\ outbox' \in [ Files -> [ Topics -> Seq(OutboxRow) ] ]
    BY <1>10, CommitOps DEF Frame
  <2>2. UNCHANGED inflight /\ call'[c].phase = "publishing"
    BY <1>2, <1>10 DEF ConvertCommit
  <2>3. ASSUME NEW g \in Files, NEW u \in Topics, WaitsFor(file'[g], u)
        PROVE  \E j \in Nat : Fresh(g, u, j)'
    <3>1. CASE g \notin call[c].moved
      <4>1. file'[g] = file[g]
        BY <1>10, <3>1 DEF ConvertCommit
      <4>2. PICK j \in Nat : Fresh(g, u, j)
        BY <2>3, <4>1 DEF Waiting
      <4>3. Fresh(g, u, j)'
        BY <1>3, <2>1, <2>2, <4>2
      <4> QED
        BY <4>3
    <3>2. CASE g \in call[c].moved
      <4>1. file'[g].stage = "CONVERTING"
        BY <1>10, <3>2 DEF ConvertCommit, Frame, TypeOK, FileRow
      <4>2. u = t
        BY <2>3, <4>1 DEF WaitsFor
      <4>3. Len(outbox[g][t]) \in Nat
        BY <4>2 DEF Frame, TypeOK
      <4>4. PICK k \in Nat : k = Len(outbox[g][t]) + 1
        BY <4>3
      <4>5. /\ outbox'[g][t] \in Seq(OutboxRow)
            /\ Len(outbox'[g][t]) = k
            /\ outbox'[g][t][k] = NewOutboxRow
        BY <2>1, <3>2, <4>2, <4>4
      <4>6. k \in DOMAIN outbox'[g][t]
        BY <4>3, <4>4, <4>5
      <4>7. \A d \in Callers : call'[d].phase = "marking" => call'[d] = call[d]
        BY <1>2, <2>2
      <4>8. Fresh(g, t, k)'
        BY <1>1, <4>2, <4>4, <4>5, <4>6, <4>7, NewRowFresh
      <4> QED
        BY <4>2, <4>8
    <3> QED
      BY <3>1, <3>2
  <2> QED
    BY <2>3 DEF Waiting
<1>11. CASE PublishInline(c)
  <2>1. PICK sent \in SUBSET { f \in Files : call[c].rows[f] # 0 } :
          /\ inflight' = [ f \in Files |-> IF f \in sent
               THEN [ inflight[f] EXCEPT ![call[c].topic] =
                        @ \cup { call[c].rows[f] } ]
               ELSE inflight[f] ]
          /\ call' = [ call EXCEPT ![c] =
               [ phase |-> "marking", topic |-> call[c].topic,
                 rows |-> [ f \in Files |->
                   IF f \in sent THEN call[c].rows[f] ELSE 0 ] ] ]
    BY <1>11 DEF PublishInline
  <2>2. UNCHANGED << file, outbox >>
    BY <1>11 DEF PublishInline
  <2>3. call[c].topic \in Topics
    BY <1>11, Phases DEF Frame, PublishInline, PublishCall
  <2>4. call'[c] = [ phase |-> "marking", topic |-> call[c].topic,
                     rows |-> [ f \in Files |->
                       IF f \in sent THEN call[c].rows[f] ELSE 0 ] ]
    BY <1>2, <2>1
  <2>5. ASSUME NEW g \in Files, NEW u \in Topics
        PROVE  inflight'[g][u] = IF g \in sent /\ u = call[c].topic
                                   THEN inflight[g][u] \cup { call[c].rows[g] }
                                   ELSE inflight[g][u]
    BY <2>1, <2>3 DEF Frame, TypeOK
  <2>6. ASSUME NEW g \in Files, NEW u \in Topics, NEW j \in Nat, Fresh(g, u, j)
        PROVE  Fresh(g, u, j)'
    <3>1. /\ j \in DOMAIN outbox[g][u]
          /\ j \in Nat \ {0}
      BY <2>6 DEF Fresh, Frame, TypeOK
    <3>2. j \in inflight[g][u] => j \in inflight'[g][u]
      BY <2>5
    <3>3. ASSUME j \notin inflight'[g][u], NEW d \in Callers,
                 call'[d].phase = "marking", call'[d].topic = u, call'[d].rows[g] = j
          PROVE  call'[d] = call[d]
      <4>1. CASE d = c
        <5>1. u = call[c].topic /\ j = IF g \in sent THEN call[c].rows[g] ELSE 0
          BY <2>4, <3>3, <4>1
        <5> QED
          BY <2>5, <3>1, <3>3, <5>1
      <4>2. CASE d # c
        BY <1>2, <4>2
      <4> QED
        BY <4>1, <4>2
    <3> QED
      BY <1>1, <2>2, <2>6, <3>1, <3>2, <3>3, FreshKept
  <2> QED
    BY <2>2, <2>6 DEF Waiting
<1>12. CASE MarkInline(c)
  <2>1. UNCHANGED << file, inflight >> /\ call'[c].phase = "idle"
    BY <1>2, <1>12 DEF MarkInline, Idle
  <2>2. ASSUME NEW g \in Files, NEW u \in Topics, NEW j \in Nat, Fresh(g, u, j)
        PROVE  Fresh(g, u, j)'
    <3>1. j \in DOMAIN outbox[g][u]
      BY <2>2 DEF Fresh
    <3>2. /\ j \in DOMAIN outbox'[g][u]
          /\ u # call[c].topic \/ j # call[c].rows[g] =>
               outbox'[g][u][j] = outbox[g][u][j]
      BY <1>12, <3>1, MarkOps DEF Frame
    <3>3. j \in inflight'[g][u] \/ outbox'[g][u][j] = outbox[g][u][j]
      BY <1>12, <2>1, <2>2, <3>2 DEF Fresh, MarkInline
    <3>4. \A d \in Callers : call'[d].phase = "marking" => call'[d] = call[d]
      BY <1>2, <2>1
    <3> QED
      BY <1>1, <2>1, <2>2, <3>2, <3>3, <3>4, FreshKept
  <2> QED
    BY <2>1, <2>2 DEF Waiting
<1>13. CASE CallDies(c)
  BY <1>2, <1>4, <1>13 DEF CallDies, Idle
<1> QED
  BY <1>5, <1>6, <1>7, <1>8, <1>9, <1>10, <1>11, <1>12, <1>13 DEF Api

\* A file that waits for work can always still get it, for every number of
\* files, deliveries, callers and attempts and in every interleaving of claims,
\* retries, crashes, lost acknowledgements, inline publishes and sweeps.  Three
\* hypotheses say what the guarantee rests on: identities are shared only inside
\* a service that serves one topic (config.instance_id), the broker delivers
\* until it gets an answer, and no attempt ends by pausing the request
\* (pipeline._pause_request releases the file and queues nothing).
THEOREM NothingIsStranded ==
  ASSUME RoleSeparated, BrokerDeadLetters = FALSE, "pauses" \notin FailureKinds
  PROVE  Spec => []NothingStranded
<1> DEFINE Inv == Frame /\ OneDirection /\ Waiting
<1>1. Init => Inv
  <2>1. Init => Waiting
    BY DEF Init, Waiting, WaitsFor, NewFileRow
  <2> QED
    BY <2>1, InitFrame, InitOneDirection
<1>2. Inv /\ [Next]_vars => Inv'
  <2> SUFFICES ASSUME Inv, [Next]_vars PROVE Inv'
    OBVIOUS
  <2>1. Frame' /\ OneDirection'
    BY NextFrame, NextOneDirection
  <2>2. CASE UNCHANGED vars
    <3>1. Waiting'
      BY <2>2 DEF vars, Waiting, Fresh
    <3> QED
      BY <2>1, <3>1
  <2>3. CASE Next
    <3>1. Waiting'
      BY <2>3, ApiWaiting, QueueWaiting, WorkWaiting, SweepWaiting DEF Next
    <3> QED
      BY <2>1, <3>1
  <2> QED
    BY <2>2, <2>3
<1>3. Inv => NothingStranded
  <2> SUFFICES ASSUME Inv, NEW f \in Files
               PROVE  /\ file[f].stage = "UPLOADED" => Queued(f, "file-uploaded")
                      /\ file[f].stage = "INSPECTING" => file[f].lease # "none"
                      /\ file[f].stage = "CONVERTING" =>
                           file[f].lease # "none" \/ Queued(f, "convert-requested")
    BY DEF NothingStranded
  <2>1. \A t \in Topics : WaitsFor(file[f], t) => Queued(f, t)
    BY DEF Waiting, Fresh, Queued
  <2> QED
    BY <2>1 DEF Frame, LeaseShape, RowShape, WaitsFor, Topics
<1> QED
  BY <1>1, <1>2, <1>3, PTL DEF Spec
=============================================================================
