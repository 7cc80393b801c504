--------------------------- MODULE PipelineProof ----------------------------
(***************************************************************************)
(* The types of Pipeline, and the parts of its inductive invariant that do *)
(* not depend on where the conversion of a file stands: who may hold a     *)
(* row, what startConverting has locked, and that every message, delivery  *)
(* and call is about an outbox row that exists.  Then, from these: a file  *)
(* only goes forward, from inspection to conversion to the end, and the    *)
(* pipeline keeps the promises of FileLife.                                *)
(***************************************************************************)
EXTENDS Pipeline, TLAPS

\* A row that has a holder has a deadline, and only a row in progress, or one
\* that confirmUploads failed under its worker, has either.
RowShape(row) ==
  /\ row.claimedBy = NoOne <=> row.lease = "none"
  /\ row.lease # "none" => row.stage \in { "INSPECTING", "CONVERTING", "FAILED" }
  /\ row.stage = "INSPECTING" => row.lease # "none"

LeaseShape == \A f \in Files : RowShape(file[f])

\* The rows startConverting holds are still SCHEMA_READY, and no two presses
\* hold the same row.
LocksHold ==
  \A c \in Callers : call[c].phase = "moving" =>
    \A f \in call[c].moved :
      /\ file[f].stage = "SCHEMA_READY"
      /\ \A d \in Callers :
           call[d].phase = "moving" /\ f \in call[d].moved => d = c

\* Whoever names an outbox row names one that exists.
RowsExist ==
  /\ \A h \in Handlers : handler[h] # Idle =>
       handler[h].id \in DOMAIN outbox[handler[h].file][handler[h].topic]
  /\ \A c \in Callers : call[c].phase \in { "publishing", "marking" } =>
       \A f \in Files :
         call[c].rows[f] <= Len(outbox[f][call[c].topic])

\* The part of the invariant that does not depend on where conversion stands.
Frame == TypeOK /\ LeaseShape /\ LocksHold /\ RowsExist

-----------------------------------------------------------------------------
(* Type correctness.                                                       *)

\* The statements of the worker keep a row a row.
LEMMA RowOps ==
  ASSUME NEW row \in FileRow, NEW role \in Roles, NEW inst \in Instances
  PROVE  /\ CanClaim(row, role) => Claim(row, role, inst) \in FileRow
         /\ Renew(row, inst) \in FileRow
         /\ \A next \in Stages : Complete(row, inst, next) \in FileRow
         /\ Fail(row) \in FileRow
         /\ Release(row, inst, BackTo(role)) \in FileRow
         /\ FailTables(row) \in FileRow
         /\ SeedTables(row) \in FileRow
         /\ FinishTables(row) \in FileRow
<1>1. /\ Renew(row, inst) \in FileRow
      /\ Fail(row) \in FileRow
      /\ FailTables(row) \in FileRow
      /\ SeedTables(row) \in FileRow
      /\ FinishTables(row) \in FileRow
  BY DEF FileRow, Renew, Fail, FailTables, SeedTables, FinishTables,
         TableStages, Stages
<1>2. CanClaim(row, role) => Claim(row, role, inst) \in FileRow
  <2>1. CanClaim(row, role) => row.attempts + 1 \in 0..MaxAttempts
    BY LeaseAssumption DEF FileRow, CanClaim
  <2>2. ClaimTarget(role) \in Stages
    BY DEF ClaimTarget, Stages
  <2> QED
    BY <2>1, <2>2 DEF FileRow, Claim
<1>3. \A next \in Stages : Complete(row, inst, next) \in FileRow
  BY DEF FileRow, Complete
<1>4. Release(row, inst, BackTo(role)) \in FileRow
  BY DEF FileRow, Release, BackTo, Stages
<1> QED
  BY <1>1, <1>2, <1>3, <1>4

\* Appending to, and settling a row of, a sequence of outbox rows.
LEMMA OutboxOps ==
  ASSUME NEW s \in Seq(OutboxRow)
  PROVE  /\ NewOutboxRow \in OutboxRow
         /\ Settled("PUBLISHED") \in OutboxRow
         /\ Settled("DEAD") \in OutboxRow
         /\ Append(s, NewOutboxRow) \in Seq(OutboxRow)
         /\ Len(Append(s, NewOutboxRow)) = Len(s) + 1
         /\ \A i \in DOMAIN s, r \in OutboxRow :
              /\ [s EXCEPT ![i] = r] \in Seq(OutboxRow)
              /\ Len([s EXCEPT ![i] = r]) = Len(s)
<1>1. /\ NewOutboxRow \in OutboxRow
      /\ Settled("PUBLISHED") \in OutboxRow
      /\ Settled("DEAD") \in OutboxRow
  <2>1. 0 \in 0..(OutboxMaxAttempts - 1)
    BY PipelineAssumption
  <2> QED
    BY <2>1 DEF OutboxRow, NewOutboxRow, Settled
<1>2. /\ Append(s, NewOutboxRow) \in Seq(OutboxRow)
      /\ Len(Append(s, NewOutboxRow)) = Len(s) + 1
  BY <1>1
<1>3. ASSUME NEW i \in DOMAIN s, NEW r \in OutboxRow
      PROVE  /\ [s EXCEPT ![i] = r] \in Seq(OutboxRow)
             /\ Len([s EXCEPT ![i] = r]) = Len(s)
  OBVIOUS
<1> QED
  BY <1>1, <1>2, <1>3

\* Writing one row, or the stage of one row.
LEMMA SetRow ==
  ASSUME file \in [ Files -> FileRow ], NEW f \in Files
  PROVE  /\ \A row \in FileRow : [ file EXCEPT ![f] = row ] \in [ Files -> FileRow ]
         /\ \A s \in Stages :
              [ file EXCEPT ![f].stage = s ] \in [ Files -> FileRow ]
<1>1. \A s \in Stages : [ file[f] EXCEPT !.stage = s ] \in FileRow
  BY DEF FileRow
<1> QED
  BY <1>1

\* The initial rows, queues, deliveries and calls have their types.
LEMMA InitTypeOK == Init => TypeOK
<1> SUFFICES ASSUME Init PROVE TypeOK
  OBVIOUS
<1> USE DEF Init
<1>1. NewFileRow \in FileRow
  BY LeaseAssumption DEF FileRow, NewFileRow, Stages, TableStages
<1>2. file \in [ Files -> FileRow ]
  BY <1>1
<1>3. /\ outbox \in [ Files -> [ Topics -> Seq(OutboxRow) ] ]
      /\ inflight \in [ Files -> [ Topics -> SUBSET (Nat \ {0}) ] ]
      /\ \A f \in Files, t \in Topics :
           inflight[f][t] \subseteq DOMAIN outbox[f][t]
  OBVIOUS
<1> QED
  BY <1>2, <1>3 DEF TypeOK

\* What one enqueue does to the outbox.
LEMMA EnqueueOps ==
  ASSUME outbox \in [ Files -> [ Topics -> Seq(OutboxRow) ] ],
         NEW f \in Files, NEW t \in Topics, Enqueue(f, t)
  PROVE  /\ outbox' \in [ Files -> [ Topics -> Seq(OutboxRow) ] ]
         /\ outbox'[f][t] = Append(outbox[f][t], NewOutboxRow)
         /\ Len(outbox'[f][t]) = Len(outbox[f][t]) + 1
         /\ outbox'[f][t][Len(outbox[f][t]) + 1] = NewOutboxRow
         /\ \A g \in Files, u \in Topics :
              /\ g # f \/ u # t => outbox'[g][u] = outbox[g][u]
              /\ DOMAIN outbox[g][u] \subseteq DOMAIN outbox'[g][u]
              /\ \A i \in DOMAIN outbox[g][u] :
                   outbox'[g][u][i] = outbox[g][u][i]
<1> DEFINE s == outbox[f][t]
<1>1. s \in Seq(OutboxRow)
  OBVIOUS
<1>2. /\ Append(s, NewOutboxRow) \in Seq(OutboxRow)
      /\ Len(Append(s, NewOutboxRow)) = Len(s) + 1
      /\ Append(s, NewOutboxRow)[Len(s) + 1] = NewOutboxRow
      /\ DOMAIN s \subseteq DOMAIN Append(s, NewOutboxRow)
      /\ \A i \in DOMAIN s : Append(s, NewOutboxRow)[i] = s[i]
  BY <1>1, OutboxOps
<1>3. outbox' = [ outbox EXCEPT ![f][t] = Append(s, NewOutboxRow) ]
  BY DEF Enqueue
<1>4. /\ outbox' \in [ Files -> [ Topics -> Seq(OutboxRow) ] ]
      /\ outbox'[f][t] = Append(s, NewOutboxRow)
      /\ \A g \in Files, u \in Topics :
           g # f \/ u # t => outbox'[g][u] = outbox[g][u]
  BY <1>2, <1>3
<1> QED
  BY <1>2, <1>4

\* What settling, or counting an attempt of, one row does to the outbox.
LEMMA SetRowOps ==
  ASSUME outbox \in [ Files -> [ Topics -> Seq(OutboxRow) ] ],
         NEW f \in Files, NEW t \in Topics, NEW i \in DOMAIN outbox[f][t],
         NEW r \in OutboxRow,
         outbox' = [ outbox EXCEPT ![f][t][i] = r ]
  PROVE  /\ outbox' \in [ Files -> [ Topics -> Seq(OutboxRow) ] ]
         /\ outbox'[f][t][i] = r
         /\ \A g \in Files, u \in Topics :
              /\ Len(outbox'[g][u]) = Len(outbox[g][u])
              /\ DOMAIN outbox'[g][u] = DOMAIN outbox[g][u]
              /\ \A j \in DOMAIN outbox[g][u] :
                   g # f \/ u # t \/ j # i =>
                     outbox'[g][u][j] = outbox[g][u][j]
<1> DEFINE s == outbox[f][t]
           s2 == [ s EXCEPT ![i] = r ]
<1>1. /\ s \in Seq(OutboxRow)
      /\ i \in DOMAIN s
  OBVIOUS
<1>2. /\ s2 \in Seq(OutboxRow)
      /\ Len(s2) = Len(s)
      /\ DOMAIN s2 = DOMAIN s
      /\ s2[i] = r
      /\ \A j \in DOMAIN s : j # i => s2[j] = s[j]
  BY <1>1
<1>3. outbox' = [ outbox EXCEPT ![f][t] = s2 ]
  OBVIOUS
<1> HIDE DEF s2
<1>4. /\ outbox' \in [ Files -> [ Topics -> Seq(OutboxRow) ] ]
      /\ outbox'[f][t] = s2
      /\ \A g \in Files, u \in Topics :
           g # f \/ u # t => outbox'[g][u] = outbox[g][u]
  BY <1>2, <1>3
<1>5. ASSUME NEW g \in Files, NEW u \in Topics
      PROVE  /\ Len(outbox'[g][u]) = Len(outbox[g][u])
             /\ DOMAIN outbox'[g][u] = DOMAIN outbox[g][u]
             /\ \A j \in DOMAIN outbox[g][u] :
                  g # f \/ u # t \/ j # i =>
                    outbox'[g][u][j] = outbox[g][u][j]
  <2>1. CASE g = f /\ u = t
    BY <1>2, <1>4, <2>1
  <2>2. CASE g # f \/ u # t
    BY <1>4, <2>2
  <2> QED
    BY <2>1, <2>2
<1> QED
  BY <1>2, <1>4, <1>5 DEF s2

\* An acknowledgement only ever shrinks what the broker holds.
LEMMA AckedOps ==
  ASSUME inflight \in [ Files -> [ Topics -> SUBSET (Nat \ {0}) ] ],
         NEW f \in Files, NEW t \in Topics, NEW i, Acked(f, t, i)
  PROVE  /\ inflight' \in [ Files -> [ Topics -> SUBSET (Nat \ {0}) ] ]
         /\ \A g \in Files, u \in Topics :
              /\ inflight'[g][u] \subseteq inflight[g][u]
              /\ \A j : /\ j \in inflight[g][u]
                        /\ g # f \/ u # t \/ j # i
                        => j \in inflight'[g][u]
<1>1. CASE UNCHANGED inflight
  BY <1>1
<1>2. CASE inflight' = [ inflight EXCEPT ![f][t] = @ \ {i} ]
  <2> DEFINE rest == inflight[f][t] \ {i}
  <2>1. inflight' = [ inflight EXCEPT ![f][t] = rest ]
    BY <1>2
  <2>2. rest \subseteq inflight[f][t] /\ rest \in SUBSET (Nat \ {0})
    OBVIOUS
  <2>3. \A j : j \in inflight[f][t] /\ j # i => j \in rest
    OBVIOUS
  <2> HIDE DEF rest
  <2>4. /\ inflight' \in [ Files -> [ Topics -> SUBSET (Nat \ {0}) ] ]
        /\ inflight'[f][t] = rest
        /\ \A g \in Files, u \in Topics :
             g # f \/ u # t => inflight'[g][u] = inflight[g][u]
    BY <2>1, <2>2
  <2> QED
    BY <2>2, <2>3, <2>4
<1> QED
  BY <1>1, <1>2 DEF Acked

\* The phase tells which record a delivery or a call is.
LEMMA Phases ==
  ASSUME TypeOK
  PROVE  /\ \A h \in Handlers :
              /\ handler[h] # Idle => handler[h] \in Delivery
              /\ handler[h].phase \in { "received", "working" } =>
                   handler[h] # Idle
              /\ handler[h] # Idle =>
                   handler[h].phase \in { "received", "working" }
         /\ \A c \in Callers :
              /\ call[c].phase = "statting" => call[c] \in ConfirmCall
              /\ call[c].phase \in { "gated", "moving" } => call[c] \in ConvertCall
              /\ call[c].phase \in { "publishing", "marking" } =>
                   call[c] \in PublishCall
<1>1. ASSUME NEW h \in Handlers
      PROVE  /\ handler[h] # Idle => handler[h] \in Delivery
             /\ handler[h].phase \in { "received", "working" } =>
                  handler[h] # Idle
             /\ handler[h] # Idle =>
                  handler[h].phase \in { "received", "working" }
  <2>1. handler[h] \in {Idle} \cup Delivery
    BY DEF TypeOK
  <2>2. Idle.phase = "idle"
    BY DEF Idle
  <2>3. \A d \in Delivery : d.phase \in { "received", "working" }
    BY DEF Delivery
  <2> QED
    BY <2>1, <2>2, <2>3
<1>2. ASSUME NEW c \in Callers
      PROVE  /\ call[c].phase = "statting" => call[c] \in ConfirmCall
             /\ call[c].phase \in { "gated", "moving" } => call[c] \in ConvertCall
             /\ call[c].phase \in { "publishing", "marking" } =>
                  call[c] \in PublishCall
  <2>1. call[c] \in {Idle} \cup ConfirmCall \cup ConvertCall \cup PublishCall
    BY DEF TypeOK
  <2>2. Idle.phase = "idle"
    BY DEF Idle
  <2>3. \A d \in ConfirmCall : d.phase = "statting"
    BY DEF ConfirmCall
  <2>4. \A d \in ConvertCall : d.phase \in { "gated", "moving" }
    BY DEF ConvertCall
  <2>5. \A d \in PublishCall : d.phase \in { "publishing", "marking" }
    BY DEF PublishCall
  <2> QED
    BY <2>1, <2>2, <2>3, <2>4, <2>5
<1> QED
  BY <1>1, <1>2

\* What the commit of convert does to the outbox.
LEMMA CommitOps ==
  ASSUME TypeOK, NEW c \in Callers, ConvertCommit(c)
  PROVE  /\ outbox' \in [ Files -> [ Topics -> Seq(OutboxRow) ] ]
         /\ \A f \in Files : f \in call[c].moved =>
              /\ Len(outbox'[f]["convert-requested"])
                   = Len(outbox[f]["convert-requested"]) + 1
              /\ outbox'[f]["convert-requested"]
                   [Len(outbox[f]["convert-requested"]) + 1] = NewOutboxRow
         /\ \A f \in Files, u \in Topics :
              /\ f \notin call[c].moved \/ u # "convert-requested" =>
                   outbox'[f][u] = outbox[f][u]
              /\ DOMAIN outbox[f][u] \subseteq DOMAIN outbox'[f][u]
              /\ \A i \in DOMAIN outbox[f][u] :
                   outbox'[f][u][i] = outbox[f][u][i]
<1> DEFINE t == "convert-requested"
<1>1. t \in Topics
  BY DEF Topics
<1>2. ASSUME NEW f \in Files
      PROVE  /\ outbox'[f] \in [ Topics -> Seq(OutboxRow) ]
             /\ f \in call[c].moved =>
                  outbox'[f][t] = Append(outbox[f][t], NewOutboxRow)
             /\ \A u \in Topics : f \notin call[c].moved \/ u # t =>
                  outbox'[f][u] = outbox[f][u]
  <2> DEFINE s == outbox[f][t]
             s2 == Append(s, NewOutboxRow)
  <2>1. s2 \in Seq(OutboxRow)
    BY <1>1, OutboxOps DEF TypeOK
  <2>2. outbox'[f] = IF f \in call[c].moved THEN [ outbox[f] EXCEPT ![t] = s2 ]
                                             ELSE outbox[f]
    BY DEF ConvertCommit
  <2> HIDE DEF s2
  <2>3. outbox[f] \in [ Topics -> Seq(OutboxRow) ]
    BY DEF TypeOK
  <2>4. /\ outbox'[f] \in [ Topics -> Seq(OutboxRow) ]
        /\ f \in call[c].moved => outbox'[f][t] = s2
        /\ \A u \in Topics : f \notin call[c].moved \/ u # t =>
             outbox'[f][u] = outbox[f][u]
    BY <1>1, <2>1, <2>2, <2>3
  <2> QED
    BY <2>4 DEF s2
<1>3. outbox' \in [ Files -> [ Topics -> Seq(OutboxRow) ] ]
  <2>1. outbox' = [ f \in Files |-> outbox'[f] ]
    BY DEF ConvertCommit
  <2> QED
    BY <1>2, <2>1
<1>4. ASSUME NEW f \in Files, f \in call[c].moved
      PROVE  /\ Len(outbox'[f][t]) = Len(outbox[f][t]) + 1
             /\ outbox'[f][t][Len(outbox[f][t]) + 1] = NewOutboxRow
             /\ DOMAIN outbox[f][t] \subseteq DOMAIN outbox'[f][t]
             /\ \A i \in DOMAIN outbox[f][t] :
                  outbox'[f][t][i] = outbox[f][t][i]
  <2> DEFINE s == outbox[f][t]
  <2>1. s \in Seq(OutboxRow) /\ NewOutboxRow \in OutboxRow
    BY <1>1, OutboxOps DEF TypeOK
  <2>2. /\ Len(Append(s, NewOutboxRow)) = Len(s) + 1
        /\ Append(s, NewOutboxRow)[Len(s) + 1] = NewOutboxRow
        /\ DOMAIN s \subseteq DOMAIN Append(s, NewOutboxRow)
        /\ \A i \in DOMAIN s : Append(s, NewOutboxRow)[i] = s[i]
    BY <2>1
  <2> QED
    BY <1>2, <1>4, <2>2
<1> QED
  BY <1>2, <1>3, <1>4

\* What marking the published rows does to the outbox.
LEMMA MarkOps ==
  ASSUME TypeOK, RowsExist, NEW c \in Callers, MarkInline(c)
  PROVE  /\ outbox' \in [ Files -> [ Topics -> Seq(OutboxRow) ] ]
         /\ \A f \in Files, t \in Topics :
              /\ Len(outbox'[f][t]) = Len(outbox[f][t])
              /\ DOMAIN outbox'[f][t] = DOMAIN outbox[f][t]
              /\ \A i \in DOMAIN outbox[f][t] :
                   t # call[c].topic \/ i # call[c].rows[f] =>
                     outbox'[f][t][i] = outbox[f][t][i]
<1> DEFINE t == call[c].topic
<1>1. call[c] \in PublishCall /\ t \in Topics
  BY Phases DEF MarkInline, PublishCall
<1>2. ASSUME NEW f \in Files
      PROVE  /\ outbox'[f] \in [ Topics -> Seq(OutboxRow) ]
             /\ \A u \in Topics :
                  /\ Len(outbox'[f][u]) = Len(outbox[f][u])
                  /\ DOMAIN outbox'[f][u] = DOMAIN outbox[f][u]
                  /\ \A i \in DOMAIN outbox[f][u] :
                       u # t \/ i # call[c].rows[f] =>
                         outbox'[f][u][i] = outbox[f][u][i]
  <2> DEFINE s == outbox[f][t]
             k == call[c].rows[f]
             s2 == [ s EXCEPT ![k] = Settled("PUBLISHED") ]
  <2>1. /\ outbox[f] \in [ Topics -> Seq(OutboxRow) ]
        /\ s \in Seq(OutboxRow)
        /\ k \in Nat
    BY <1>1 DEF TypeOK, PublishCall
  <2>2. outbox'[f] = IF k # 0 THEN [ outbox[f] EXCEPT ![t] = s2 ] ELSE outbox[f]
    BY DEF MarkInline
  <2>3. CASE k = 0
    BY <2>1, <2>2, <2>3
  <2>4. CASE k # 0
    <3>1. k \in DOMAIN s
      BY <1>1, <2>1, <2>4 DEF MarkInline, RowsExist
    <3>2. /\ s2 \in Seq(OutboxRow)
          /\ Len(s2) = Len(s)
          /\ DOMAIN s2 = DOMAIN s
          /\ \A i \in DOMAIN s : i # k => s2[i] = s[i]
      BY <2>1, <3>1, OutboxOps
    <3> HIDE DEF s2
    <3>3. /\ outbox'[f] \in [ Topics -> Seq(OutboxRow) ]
          /\ outbox'[f][t] = s2
          /\ \A u \in Topics : u # t => outbox'[f][u] = outbox[f][u]
      BY <1>1, <2>1, <2>2, <2>4, <3>2
    <3>4. ASSUME NEW u \in Topics
          PROVE  /\ Len(outbox'[f][u]) = Len(outbox[f][u])
                 /\ DOMAIN outbox'[f][u] = DOMAIN outbox[f][u]
                 /\ \A i \in DOMAIN outbox[f][u] :
                      u # t \/ i # k => outbox'[f][u][i] = outbox[f][u][i]
      <4>1. CASE u = t
        BY <3>2, <3>3, <4>1
      <4>2. CASE u # t
        BY <3>3, <4>2
      <4> QED
        BY <4>1, <4>2
    <3> QED
      BY <3>3, <3>4
  <2> QED
    BY <2>1, <2>3, <2>4
<1>3. outbox' \in [ Files -> [ Topics -> Seq(OutboxRow) ] ]
  <2>1. outbox' = [ f \in Files |-> outbox'[f] ]
    BY DEF MarkInline
  <2> QED
    BY <1>2, <2>1
<1> QED
  BY <1>2, <1>3

\* The API keeps the types.
LEMMA ApiTypeOK ==
  ASSUME TypeOK, RowsExist, NEW c \in Callers, Api(c)
  PROVE  TypeOK'
<1>1. ASSUME NEW f \in Files, ConfirmRead(c, f) PROVE TypeOK'
  BY <1>1 DEF TypeOK, ConfirmRead, ConfirmCall
<1>2. CASE ConfirmArrived(c)
  <2> DEFINE f == call[c].file
             t == "file-uploaded"
             rows == [ g \in Files |-> IF g = f THEN Len(outbox[f][t]) + 1 ELSE 0 ]
  <2>1. f \in Files /\ t \in Topics
    BY <1>2, Phases DEF ConfirmArrived, ConfirmCall, Topics
  <2>2. /\ outbox' \in [ Files -> [ Topics -> Seq(OutboxRow) ] ]
        /\ \A g \in Files, u \in Topics :
             DOMAIN outbox[g][u] \subseteq DOMAIN outbox'[g][u]
    BY <1>2, <2>1, EnqueueOps DEF ConfirmArrived, TypeOK
  <2>3. file' \in [ Files -> FileRow ]
    <3> DEFINE s == IF file[f].stage = "UPLOADING" THEN "UPLOADED"
                                                   ELSE file[f].stage
    <3>1. file[f] \in FileRow /\ s \in Stages
      BY <2>1 DEF TypeOK, FileRow, Stages
    <3>2. file' = [ file EXCEPT ![f].stage = s ]
      BY <1>2 DEF ConfirmArrived
    <3> HIDE DEF s
    <3> QED
      BY <2>1, <3>1, <3>2, SetRow DEF TypeOK
  <2>4. rows \in [ Files -> Nat ]
    BY <2>1 DEF TypeOK
  <2> HIDE DEF rows
  <2>5. [ phase |-> "publishing", topic |-> t, rows |-> rows ] \in PublishCall
    BY <2>1, <2>4 DEF PublishCall
  <2>6. call' = [ call EXCEPT ![c] =
                    [ phase |-> "publishing", topic |-> t, rows |-> rows ] ]
    BY <1>2 DEF ConfirmArrived, rows
  <2> QED
    BY <1>2, <2>2, <2>3, <2>5, <2>6 DEF TypeOK, ConfirmArrived
<1>3. CASE ConfirmMissing(c)
  <2>1. call[c].file \in Files
    BY <1>3, Phases DEF ConfirmMissing, ConfirmCall
  <2>2. file' \in [ Files -> FileRow ]
    <3>1. "FAILED" \in Stages /\ file[call[c].file] \in FileRow
      BY <2>1 DEF TypeOK, Stages
    <3>2. file' = [ file EXCEPT ![call[c].file].stage = "FAILED" ]
      BY <1>3 DEF ConfirmMissing
    <3> QED
      BY <2>1, <3>1, <3>2, SetRow DEF TypeOK
  <2>3. call' = [ call EXCEPT ![c] = Idle ]
        /\ UNCHANGED << converted, outbox, inflight, handler >>
    BY <1>3 DEF ConfirmMissing
  <2> QED
    BY <2>2, <2>3 DEF TypeOK
<1>4. CASE ConvertGate(c)
  BY <1>4 DEF TypeOK, ConvertGate, ConvertCall
<1>5. CASE ConvertMove(c)
  BY <1>5 DEF TypeOK, ConvertMove, ConvertCall
<1>6. CASE ConvertCommit(c)
  <2> DEFINE t == "convert-requested"
             moved == call[c].moved
             rows == [ f \in Files |-> IF f \in moved THEN Len(outbox[f][t]) + 1
                                                    ELSE 0 ]
  <2>1. t \in Topics
    BY DEF Topics
  <2>2. file' \in [ Files -> FileRow ]
    <3>1. \A row \in FileRow : [ row EXCEPT !.stage = "CONVERTING" ] \in FileRow
      BY DEF FileRow, Stages
    <3>2. file' = [ f \in Files |-> IF f \in moved
                      THEN [ file[f] EXCEPT !.stage = "CONVERTING" ]
                      ELSE file[f] ]
      BY <1>6 DEF ConvertCommit
    <3> QED
      BY <3>1, <3>2 DEF TypeOK
  <2>3. outbox' \in [ Files -> [ Topics -> Seq(OutboxRow) ] ]
    BY <1>6, <2>1, CommitOps DEF TypeOK
  <2>4. \A g \in Files, u \in Topics : DOMAIN outbox[g][u] \subseteq DOMAIN outbox'[g][u]
    BY <1>6, <2>1, CommitOps DEF TypeOK
  <2>5. rows \in [ Files -> Nat ]
    BY <2>1 DEF TypeOK
  <2> HIDE DEF rows
  <2>6. [ phase |-> "publishing", topic |-> t, rows |-> rows ] \in PublishCall
    BY <2>1, <2>5 DEF PublishCall
  <2>7. call' = [ call EXCEPT ![c] =
                    [ phase |-> "publishing", topic |-> t, rows |-> rows ] ]
    BY <1>6 DEF ConvertCommit, rows
  <2> QED
    BY <1>6, <2>2, <2>3, <2>4, <2>6, <2>7 DEF TypeOK, ConvertCommit
<1>7. CASE PublishInline(c)
  <2>1. call[c] \in PublishCall
    BY <1>7, Phases DEF PublishInline
  <2>2. PICK sent \in SUBSET { f \in Files : call[c].rows[f] # 0 } :
          /\ inflight' = [ f \in Files |-> IF f \in sent
               THEN [ inflight[f] EXCEPT ![call[c].topic] =
                        @ \cup { call[c].rows[f] } ]
               ELSE inflight[f] ]
          /\ call' = [ call EXCEPT ![c] =
               [ phase |-> "marking", topic |-> call[c].topic,
                 rows |-> [ f \in Files |->
                   IF f \in sent THEN call[c].rows[f] ELSE 0 ] ] ]
    BY <1>7 DEF PublishInline
  <2> DEFINE rows == [ f \in Files |-> IF f \in sent THEN call[c].rows[f] ELSE 0 ]
  <2>3. rows \in [ Files -> Nat ] /\ call[c].topic \in Topics
    BY <2>1 DEF PublishCall
  <2> HIDE DEF rows
  <2>4. [ phase |-> "marking", topic |-> call[c].topic, rows |-> rows ] \in PublishCall
    BY <2>3 DEF PublishCall
  <2>5. call' = [ call EXCEPT ![c] =
                    [ phase |-> "marking", topic |-> call[c].topic, rows |-> rows ] ]
    BY <2>2 DEF rows
  <2>6. call' \in [ Callers -> {Idle} \cup ConfirmCall \cup ConvertCall \cup PublishCall ]
    BY <2>4, <2>5 DEF TypeOK
  <2>7. ASSUME NEW f \in sent
        PROVE  call[c].rows[f] \in Nat \ {0} /\ call[c].rows[f] \in DOMAIN outbox[f][call[c].topic]
    <3>1. call[c].rows[f] \in Nat \ {0} /\ f \in Files
      BY <2>1 DEF PublishCall
    <3>2. call[c].rows[f] <= Len(outbox[f][call[c].topic])
      BY <1>7, <3>1 DEF PublishInline, RowsExist
    <3> QED
      BY <2>3, <3>1, <3>2 DEF TypeOK
  <2>8. inflight' \in [ Files -> [ Topics -> SUBSET (Nat \ {0}) ] ]
    BY <2>2, <2>3, <2>7 DEF TypeOK
  <2>9. \A f \in Files, t \in Topics : inflight'[f][t] \subseteq DOMAIN outbox[f][t]
    BY <2>2, <2>3, <2>7 DEF TypeOK
  <2> QED
    BY <1>7, <2>6, <2>8, <2>9 DEF TypeOK, PublishInline
<1>8. CASE MarkInline(c)
  <2>1. call' \in [ Callers -> {Idle} \cup ConfirmCall \cup ConvertCall \cup PublishCall ]
    BY <1>8 DEF TypeOK, MarkInline
  <2>2. /\ outbox' \in [ Files -> [ Topics -> Seq(OutboxRow) ] ]
        /\ \A f \in Files, t \in Topics : DOMAIN outbox'[f][t] = DOMAIN outbox[f][t]
    BY <1>8, MarkOps
  <2> QED
    BY <1>8, <2>1, <2>2 DEF TypeOK, MarkInline
<1>9. CASE CallDies(c)
  BY <1>9 DEF TypeOK, CallDies
<1> QED
  BY <1>1, <1>2, <1>3, <1>4, <1>5, <1>6, <1>7, <1>8, <1>9 DEF Api

\* The relay keeps the types.
LEMMA RelayTypeOK ==
  ASSUME TypeOK, NEW f \in Files, NEW t \in Topics,
         NEW i \in DOMAIN outbox[f][t], Relay(f, t, i)
  PROVE  TypeOK'
<1>1. /\ outbox[f][t] \in Seq(OutboxRow)
      /\ outbox[f][t][i] \in OutboxRow
      /\ i \in Nat \ {0}
      /\ file[f] \in FileRow
      /\ inflight[f][t] \subseteq DOMAIN outbox[f][t]
      /\ inflight[f][t] \cup {i} \in SUBSET (Nat \ {0})
  BY DEF TypeOK
<1>2. ASSUME inflight' = [ inflight EXCEPT ![f][t] = @ \cup {i} ],
             \/ UNCHANGED outbox
             \/ outbox' = [ outbox EXCEPT ![f][t][i] = Settled("PUBLISHED") ],
             UNCHANGED << file, converted, handler, call >>
      PROVE  TypeOK'
  <2> DEFINE more == inflight[f][t] \cup {i}
  <2>1. inflight' = [ inflight EXCEPT ![f][t] = more ]
    BY <1>2
  <2>2. more \in SUBSET (Nat \ {0}) /\ more \subseteq DOMAIN outbox[f][t]
    BY <1>1
  <2> HIDE DEF more
  <2>3. /\ inflight' \in [ Files -> [ Topics -> SUBSET (Nat \ {0}) ] ]
        /\ \A g \in Files, u \in Topics :
             inflight'[g][u] \subseteq DOMAIN outbox[g][u]
    BY <2>1, <2>2 DEF TypeOK
  <2>4. /\ outbox' \in [ Files -> [ Topics -> Seq(OutboxRow) ] ]
        /\ \A g \in Files, u \in Topics : DOMAIN outbox'[g][u] = DOMAIN outbox[g][u]
    <3>1. CASE UNCHANGED outbox
      BY <3>1 DEF TypeOK
    <3>2. CASE outbox' = [ outbox EXCEPT ![f][t][i] = Settled("PUBLISHED") ]
      <4>1. Settled("PUBLISHED") \in OutboxRow
        BY <1>1, OutboxOps
      <4> QED
        BY <3>2, <4>1, SetRowOps DEF TypeOK
    <3> QED
      BY <1>2, <3>1, <3>2
  <2> QED
    BY <1>2, <2>3, <2>4 DEF TypeOK
<1>3. CASE RelayPublishes(f, t, i)
  BY <1>2, <1>3 DEF RelayPublishes
<1>4. CASE RelayPublishesUnrecorded(f, t, i)
  BY <1>2, <1>4 DEF RelayPublishesUnrecorded
<1>5. CASE RelayRetriesLater(f, t, i)
  <2> DEFINE r == [ outbox[f][t][i] EXCEPT !.attempts = @ + 1 ]
  <2>1. outbox' = [ outbox EXCEPT ![f][t][i] = r ]
    BY <1>5 DEF RelayRetriesLater
  <2>2. r \in OutboxRow
    <3>1. outbox[f][t][i].attempts + 1 \in 0..(OutboxMaxAttempts - 1)
      BY <1>1, <1>5, PipelineAssumption DEF RelayRetriesLater, OutboxRow
    <3> QED
      BY <1>1, <3>1 DEF OutboxRow
  <2> HIDE DEF r
  <2>3. /\ outbox' \in [ Files -> [ Topics -> Seq(OutboxRow) ] ]
        /\ \A g \in Files, u \in Topics : DOMAIN outbox'[g][u] = DOMAIN outbox[g][u]
    BY <2>1, <2>2, SetRowOps DEF TypeOK
  <2> QED
    BY <1>5, <2>3 DEF TypeOK, RelayRetriesLater
<1>6. CASE RelayGivesUp(f, t, i)
  <2> DEFINE row == IF file[f].stage = "FAILED" THEN file[f] ELSE Fail(file[f])
  <2>1. row \in FileRow
    BY <1>1, PipelineAssumption DEF FileRow, Fail, Stages
  <2>2. file' = [ file EXCEPT ![f] = row ]
    BY <1>6 DEF RelayGivesUp
  <2> HIDE DEF row
  <2>3. file' \in [ Files -> FileRow ]
    BY <2>1, <2>2 DEF TypeOK
  <2>4. /\ outbox' \in [ Files -> [ Topics -> Seq(OutboxRow) ] ]
        /\ \A g \in Files, u \in Topics : DOMAIN outbox'[g][u] = DOMAIN outbox[g][u]
    BY <1>1, <1>6, OutboxOps, SetRowOps DEF TypeOK, RelayGivesUp
  <2> QED
    BY <1>6, <2>3, <2>4 DEF TypeOK, RelayGivesUp
<1> QED
  BY <1>3, <1>4, <1>5, <1>6 DEF Relay

\* An acknowledgement leaves the broker with rows that exist.
LEMMA AckedTypeOK ==
  ASSUME TypeOK, NEW f \in Files, NEW t \in Topics, NEW i, Acked(f, t, i)
  PROVE  /\ inflight' \in [ Files -> [ Topics -> SUBSET (Nat \ {0}) ] ]
         /\ \A g \in Files, u \in Topics :
              inflight'[g][u] \subseteq DOMAIN outbox[g][u]
<1>1. /\ inflight' \in [ Files -> [ Topics -> SUBSET (Nat \ {0}) ] ]
      /\ \A g \in Files, u \in Topics : inflight'[g][u] \subseteq inflight[g][u]
  BY AckedOps DEF TypeOK
<1> QED
  BY <1>1 DEF TypeOK

\* The broker keeps the types.
LEMMA BrokerTypeOK ==
  ASSUME TypeOK, NEW f \in Files, NEW t \in Topics, NEW i \in inflight[f][t],
         Broker(f, t, i)
  PROVE  TypeOK'
<1>1. i \in Nat \ {0}
  BY DEF TypeOK
<1>2. ASSUME NEW h \in Handlers, Receive(h, f, t, i) PROVE TypeOK'
  <2>1. PICK r \in ResolvedRoles(h, f) : handler' = [ handler EXCEPT ![h] =
          [ phase |-> "received", file |-> f, topic |-> t, id |-> i,
            role |-> r, attempts |-> 0, beats |-> FALSE ] ]
    BY <1>2 DEF Receive
  <2>2. r \in Roles
    <3>1. RoleOf[h] \in Roles \cup {"both"}
      BY PipelineAssumption
    <3> QED
      BY <3>1 DEF ResolvedRoles
  <2> DEFINE d == [ phase |-> "received", file |-> f, topic |-> t, id |-> i,
                    role |-> r, attempts |-> 0, beats |-> FALSE ]
  <2>3. d \in Delivery
    BY <1>1, <2>2, LeaseAssumption DEF Delivery
  <2> HIDE DEF d
  <2>4. handler' = [ handler EXCEPT ![h] = d ]
    BY <2>1 DEF d
  <2> QED
    BY <1>2, <2>3, <2>4 DEF TypeOK, Receive
<1>3. ASSUME NEW h \in Handlers, ReceiveNothingToDo(h, f, t, i) PROVE TypeOK'
  BY <1>3, AckedTypeOK DEF TypeOK, ReceiveNothingToDo
<1>4. CASE BrokerDropsMessage(f, t, i)
  <2>1. Acked(f, t, i)
    BY <1>4 DEF BrokerDropsMessage, Acked
  <2> QED
    BY <1>4, <2>1, AckedTypeOK DEF TypeOK, BrokerDropsMessage
<1> QED
  BY <1>2, <1>3, <1>4 DEF Broker

\* The statements of the worker keep the shape; those that ask for claimed_by
\* leave a row that nobody holds as it is; and only the others can take a
\* SCHEMA_READY row away.
LEMMA RowShapes ==
  ASSUME NEW row \in FileRow, RowShape(row), NEW role \in Roles,
         NEW inst \in Instances
  PROVE  /\ CanClaim(row, role) => RowShape(Claim(row, role, inst))
         /\ RowShape(Renew(row, inst))
         /\ RowShape(Complete(SeedTables(row), inst, "SCHEMA_READY"))
         /\ RowShape(Complete(FinishTables(row), inst, "COMPLETED"))
         /\ RowShape(Fail(row))
         /\ RowShape(FailTables(Fail(row)))
         /\ RowShape(Release(row, inst, BackTo(role)))
         /\ row.stage = "SCHEMA_READY" =>
              /\ ~CanClaim(row, role)
              /\ Renew(row, inst) = row
              /\ Complete(FinishTables(row), inst, "COMPLETED").stage = "SCHEMA_READY"
              /\ Release(row, inst, BackTo(role)) = row
<1>1. inst # NoOne
  BY LeaseAssumption
<1>2. /\ RowShape(Fail(row))
      /\ RowShape(FailTables(Fail(row)))
  BY DEF FileRow, RowShape, Fail, FailTables
<1>3. /\ RowShape(Complete(SeedTables(row), inst, "SCHEMA_READY"))
      /\ RowShape(Complete(FinishTables(row), inst, "COMPLETED"))
  BY DEF FileRow, RowShape, Complete, SeedTables, FinishTables
<1>4. /\ CanClaim(row, role) => RowShape(Claim(row, role, inst))
      /\ RowShape(Renew(row, inst))
  BY <1>1 DEF FileRow, RowShape, CanClaim, Claim, ClaimTarget, Renew
<1>5. RowShape(Release(row, inst, BackTo(role)))
  BY DEF FileRow, RowShape, Release, BackTo
<1>6. ASSUME row.stage = "SCHEMA_READY"
      PROVE  /\ ~CanClaim(row, role)
             /\ Renew(row, inst) = row
             /\ Complete(FinishTables(row), inst, "COMPLETED").stage = "SCHEMA_READY"
             /\ Release(row, inst, BackTo(role)) = row
  <2>1. row.claimedBy = NoOne
    BY <1>6 DEF FileRow, RowShape
  <2>2. /\ FinishTables(row).claimedBy = NoOne
        /\ FinishTables(row).stage = "SCHEMA_READY"
    BY <1>6, <2>1 DEF FileRow, FinishTables
  <2> QED
    BY <1>1, <1>6, <2>1, <2>2 DEF CanClaim, Claimable, Renew, Complete, Release
<1> QED
  BY <1>2, <1>3, <1>4, <1>5, <1>6

\* What an action of a delivery does to the row of its file.  A row that
\* startConverting has locked keeps its stage: the delivery would wait for the
\* commit (RowLocked), or finds that it does not hold the row.
RowStep(h, row) ==
  /\ handler[h].file \in Files
  /\ row \in FileRow
  /\ RowShape(file[handler[h].file]) => RowShape(row)
  /\ file' = [ file EXCEPT ![handler[h].file] = row ]
  /\ \/ ~RowLocked(handler[h].file)
     \/ /\ file[handler[h].file].stage = "SCHEMA_READY"
        /\ RowShape(file[handler[h].file])
        => row.stage = "SCHEMA_READY"

\* A step that ends a delivery, with or without an acknowledgement.
Finished(h) ==
  /\ handler' = [ handler EXCEPT ![h] = Idle ]
  /\ UNCHANGED << converted, call >>
  /\ \/ UNCHANGED inflight
     \/ Acked(handler[h].file, handler[h].topic, handler[h].id)

\* Every action of a delivery writes at most its own row, and puts at most one
\* row of its own file in the queue.
LEMMA WorkSteps ==
  ASSUME TypeOK, NEW h \in Handlers, Work(h)
  PROVE  /\ handler[h] \in Delivery
         /\ \E row : RowStep(h, row)
         /\ \/ UNCHANGED outbox
            \/ \E t \in Topics : Enqueue(handler[h].file, t)
         /\ \/ Finished(h)
            \/ /\ \E d \in Delivery :
                    /\ handler' = [ handler EXCEPT ![h] = d ]
                    /\ << d.file, d.topic, d.id, d.role >> =
                       << handler[h].file, handler[h].topic, handler[h].id,
                          handler[h].role >>
               /\ UNCHANGED << converted, outbox, inflight, call >>
<1> DEFINE d == handler[h]
           f == d.file
           inst == InstanceOf[h]
<1>1. /\ d \in Delivery
      /\ f \in Files
      /\ d.role \in Roles
      /\ d.topic \in Topics
      /\ inst \in Instances
      /\ file[f] \in FileRow
      /\ handler[h] # Idle
  <2>1. handler[h] # Idle
    BY Phases DEF Work, ClaimFile, ClaimRefused, ClaimExhausted, ClaimNacked,
                  InspectSucceeds, ConvertSucceeds, AttemptIsRetried,
                  AttemptIsFinal, AttemptPauses, Heartbeat, HandlerDies
  <2>2. d \in Delivery
    BY <2>1, Phases
  <2> QED
    BY <2>1, <2>2, PipelineAssumption DEF Delivery, TypeOK

<1>2. UNCHANGED file => \E row : RowStep(h, row)
  <2> SUFFICES ASSUME UNCHANGED file PROVE RowStep(h, file[f])
    OBVIOUS
  <2>1. file' = [ file EXCEPT ![f] = file[f] ]
    BY <1>1 DEF TypeOK
  <2> QED
    BY <1>1, <2>1 DEF RowStep
<1>3. CASE ClaimFile(h)
  <2> DEFINE row == Claim(file[f], d.role, inst)
             e == [ d EXCEPT !.phase = "working",
                             !.attempts = file[f].attempts + 1, !.beats = TRUE ]
  <2>1. CanClaim(file[f], d.role)
    BY <1>3 DEF ClaimFile, ClaimOutcome
  <2>2. RowStep(h, row)
    BY <1>1, <1>3, <2>1, RowOps, RowShapes DEF RowStep, ClaimFile
  <2>3. file[f].attempts + 1 \in 0..MaxAttempts
    BY <1>1, <2>1, LeaseAssumption DEF CanClaim, FileRow
  <2>4. /\ e \in Delivery
        /\ << e.file, e.topic, e.id, e.role >> = << d.file, d.topic, d.id, d.role >>
    BY <1>1, <2>3 DEF Delivery
  <2>5. handler' = [ handler EXCEPT ![h] = e ]
    BY <1>3 DEF ClaimFile
  <2> HIDE DEF e, row
  <2> QED
    BY <1>1, <1>3, <2>2, <2>4, <2>5 DEF ClaimFile
<1>4. CASE ClaimRefused(h)
  BY <1>1, <1>2, <1>4 DEF ClaimRefused, Finished
<1>5. CASE ClaimExhausted(h)
  <2> DEFINE row == FailTables(Fail(file[f]))
  <2>1. RowStep(h, row)
    BY <1>1, <1>5, RowOps, RowShapes DEF RowStep, ClaimExhausted
  <2> HIDE DEF row
  <2> QED
    BY <1>1, <1>5, <2>1 DEF ClaimExhausted, Finished
<1>6. CASE ClaimNacked(h)
  BY <1>1, <1>2, <1>6 DEF ClaimNacked, Finished
<1>7. CASE InspectSucceeds(h)
  <2> DEFINE row == Complete(SeedTables(file[f]), inst, "SCHEMA_READY")
             on == [ row EXCEPT !.stage = "CONVERTING" ]
  <2>1. row \in FileRow /\ (RowShape(file[f]) => RowShape(row))
    BY <1>1, RowOps, RowShapes DEF Stages
  <2>2. on \in FileRow /\ (Chained(row) /\ RowShape(row) => RowShape(on))
    BY <2>1 DEF FileRow, Stages, RowShape, Chained
  <2>3. ~RowLocked(f)
    BY <1>7 DEF InspectSucceeds
  <2>4. \E r : RowStep(h, r)
    <3>1. CASE Chained(row)
      <4>1. file' = [ file EXCEPT ![f] = on ]
        BY <1>7, <3>1 DEF InspectSucceeds
      <4> HIDE DEF row, on
      <4> QED
        BY <1>1, <2>1, <2>2, <2>3, <3>1, <4>1 DEF RowStep
    <3>2. CASE ~Chained(row)
      <4>1. file' = [ file EXCEPT ![f] = row ]
        BY <1>7, <3>2 DEF InspectSucceeds
      <4> HIDE DEF row
      <4> QED
        BY <1>1, <2>1, <2>3, <4>1 DEF RowStep
    <3> QED
      BY <3>1, <3>2
  <2>5. UNCHANGED outbox \/ \E t \in Topics : Enqueue(f, t)
    <3>1. "convert-requested" \in Topics
      BY DEF Topics
    <3> QED
      BY <1>7, <3>1 DEF InspectSucceeds
  <2> QED
    BY <1>1, <1>7, <2>4, <2>5 DEF InspectSucceeds, Finished
<1>8. CASE ConvertSucceeds(h)
  <2> DEFINE row == Complete(FinishTables(file[f]), inst, "COMPLETED")
  <2>1. RowStep(h, row)
    BY <1>1, <1>8, RowOps, RowShapes DEF RowStep, ConvertSucceeds, Stages
  <2> HIDE DEF row
  <2> QED
    BY <1>1, <1>8, <2>1 DEF ConvertSucceeds, Finished
<1>9. ASSUME file' = [ file EXCEPT ![f] = Release(@, inst, BackTo(d.role)) ]
      PROVE  \E row : RowStep(h, row)
  <2> DEFINE row == Release(file[f], inst, BackTo(d.role))
  <2>1. RowStep(h, row)
    BY <1>1, <1>9, RowOps, RowShapes DEF RowStep
  <2> HIDE DEF row
  <2> QED
    BY <2>1
<1>10. CASE AttemptIsRetried(h)
  <2>1. TopicForStage(BackTo(d.role)) \in Topics
    BY DEF TopicForStage, Topics
  <2> QED
    BY <1>1, <1>9, <1>10, <2>1 DEF AttemptIsRetried, Finished
<1>11. CASE AttemptIsFinal(h)
  <2> DEFINE row == FailTables(Fail(file[f]))
  <2>1. RowStep(h, row)
    BY <1>1, <1>11, RowOps, RowShapes DEF RowStep, AttemptIsFinal
  <2> HIDE DEF row
  <2> QED
    BY <1>1, <1>11, <2>1 DEF AttemptIsFinal, Finished
<1>12. CASE AttemptPauses(h)
  BY <1>1, <1>9, <1>12 DEF AttemptPauses, Finished
<1>13. CASE Heartbeat(h)
  <2> DEFINE row == Renew(file[f], inst)
             e == [ d EXCEPT !.beats = (file[f].claimedBy = inst) ]
  <2>1. RowStep(h, row)
    BY <1>1, <1>13, RowOps, RowShapes DEF RowStep, Heartbeat
  <2>2. /\ e \in Delivery
        /\ << e.file, e.topic, e.id, e.role >> = << d.file, d.topic, d.id, d.role >>
    BY <1>1 DEF Delivery
  <2>3. handler' = [ handler EXCEPT ![h] = e ]
    BY <1>1, <1>13 DEF Heartbeat, Delivery
  <2> HIDE DEF e, row
  <2> QED
    BY <1>1, <1>13, <2>1, <2>2, <2>3 DEF Heartbeat
<1>14. CASE HandlerDies(h)
  BY <1>1, <1>2, <1>14 DEF HandlerDies, Finished
<1> QED
  BY <1>3, <1>4, <1>5, <1>6, <1>7, <1>8, <1>10, <1>11, <1>12, <1>13, <1>14
     DEF Work

\* With at most one enqueue the outbox only grows.
LEMMA EnqueueGrows ==
  ASSUME TypeOK, NEW f \in Files,
         UNCHANGED outbox \/ \E t \in Topics : Enqueue(f, t)
  PROVE  /\ outbox' \in [ Files -> [ Topics -> Seq(OutboxRow) ] ]
         /\ \A g \in Files, u \in Topics :
              /\ Len(outbox[g][u]) <= Len(outbox'[g][u])
              /\ DOMAIN outbox[g][u] \subseteq DOMAIN outbox'[g][u]
              /\ \A i \in DOMAIN outbox[g][u] : outbox'[g][u][i] = outbox[g][u][i]
<1>1. CASE UNCHANGED outbox
  BY <1>1 DEF TypeOK
<1>2. ASSUME NEW t \in Topics, Enqueue(f, t)
      PROVE  /\ outbox' \in [ Files -> [ Topics -> Seq(OutboxRow) ] ]
             /\ \A g \in Files, u \in Topics :
                  /\ Len(outbox[g][u]) <= Len(outbox'[g][u])
                  /\ DOMAIN outbox[g][u] \subseteq DOMAIN outbox'[g][u]
                  /\ \A i \in DOMAIN outbox[g][u] :
                       outbox'[g][u][i] = outbox[g][u][i]
  <2>1. /\ outbox' \in [ Files -> [ Topics -> Seq(OutboxRow) ] ]
        /\ Len(outbox'[f][t]) = Len(outbox[f][t]) + 1
        /\ \A g \in Files, u \in Topics :
             /\ g # f \/ u # t => outbox'[g][u] = outbox[g][u]
             /\ DOMAIN outbox[g][u] \subseteq DOMAIN outbox'[g][u]
             /\ \A i \in DOMAIN outbox[g][u] : outbox'[g][u][i] = outbox[g][u][i]
    BY <1>2, EnqueueOps DEF TypeOK
  <2>2. ASSUME NEW g \in Files, NEW u \in Topics
        PROVE  Len(outbox[g][u]) <= Len(outbox'[g][u])
    <3>1. Len(outbox[g][u]) \in Nat
      BY DEF TypeOK
    <3>2. CASE g = f /\ u = t
      BY <2>1, <3>1, <3>2
    <3>3. CASE g # f \/ u # t
      BY <2>1, <3>1, <3>3
    <3> QED
      BY <3>2, <3>3
  <2> QED
    BY <2>1, <2>2
<1> QED
  BY <1>1, <1>2

\* Lock holders and row numbers survive when the calls do not move, locked rows
\* keep their stage and the outbox only grows.
LEMMA CallsKept ==
  ASSUME TypeOK, LocksHold, RowsExist, UNCHANGED call,
         \A f \in Files : RowLocked(f) => file'[f].stage = "SCHEMA_READY",
         outbox' \in [ Files -> [ Topics -> Seq(OutboxRow) ] ],
         \A g \in Files, u \in Topics : Len(outbox[g][u]) <= Len(outbox'[g][u])
  PROVE  /\ LocksHold'
         /\ \A c \in Callers : call'[c].phase \in { "publishing", "marking" } =>
              \A f \in Files : call'[c].rows[f] <= Len(outbox'[f][call'[c].topic])
<1>1. LocksHold'
  <2> SUFFICES ASSUME NEW c \in Callers, call[c].phase = "moving",
                      NEW f \in call[c].moved
               PROVE  /\ file'[f].stage = "SCHEMA_READY"
                      /\ \A d \in Callers :
                           call[d].phase = "moving" /\ f \in call[d].moved => d = c
    BY DEF LocksHold
  <2>1. f \in Files /\ RowLocked(f)
    BY Phases DEF ConvertCall, RowLocked
  <2> QED
    BY <2>1 DEF LocksHold
<1>2. ASSUME NEW c \in Callers, call[c].phase \in { "publishing", "marking" },
             NEW f \in Files
      PROVE  call[c].rows[f] <= Len(outbox'[f][call[c].topic])
  <2>1. call[c].topic \in Topics /\ call[c].rows[f] \in Nat
    BY <1>2, Phases DEF PublishCall
  <2>2. /\ call[c].rows[f] <= Len(outbox[f][call[c].topic])
        /\ Len(outbox[f][call[c].topic]) <= Len(outbox'[f][call[c].topic])
    BY <1>2, <2>1 DEF RowsExist
  <2>3. /\ Len(outbox[f][call[c].topic]) \in Nat
        /\ Len(outbox'[f][call[c].topic]) \in Nat
    BY <2>1 DEF TypeOK
  <2> QED
    BY <2>1, <2>2, <2>3
<1> QED
  BY <1>1, <1>2

\* The deliveries keep the frame.
LEMMA WorkFrame ==
  ASSUME Frame, NEW h \in Handlers, Work(h)
  PROVE  Frame'
<1> DEFINE d == handler[h]
           f == d.file
<1>1. d \in Delivery /\ f \in Files /\ d.topic \in Topics /\ TypeOK
  BY WorkSteps DEF Delivery, Frame
<1>2. /\ file' \in [ Files -> FileRow ]
      /\ LeaseShape'
      /\ \A g \in Files : RowLocked(g) => file'[g].stage = "SCHEMA_READY"
  <2>1. PICK row : RowStep(h, row)
    BY <1>1, WorkSteps
  <2>2. /\ row \in FileRow
        /\ RowShape(row)
        /\ file' = [ file EXCEPT ![f] = row ]
        /\ RowLocked(f) /\ file[f].stage = "SCHEMA_READY" =>
             row.stage = "SCHEMA_READY"
    BY <1>1, <2>1 DEF RowStep, Frame, LeaseShape
  <2>3. \A g \in Files : RowLocked(g) => file[g].stage = "SCHEMA_READY"
    BY DEF Frame, LocksHold, RowLocked
  <2>4. file'[f] = row /\ \A g \in Files : g # f => file'[g] = file[g]
    BY <1>1, <2>2 DEF TypeOK
  <2> QED
    BY <1>1, <2>2, <2>3, <2>4 DEF TypeOK, Frame, LeaseShape
<1>3. /\ outbox' \in [ Files -> [ Topics -> Seq(OutboxRow) ] ]
      /\ \A g \in Files, u \in Topics :
           /\ Len(outbox[g][u]) <= Len(outbox'[g][u])
           /\ DOMAIN outbox[g][u] \subseteq DOMAIN outbox'[g][u]
  BY <1>1, WorkSteps, EnqueueGrows
<1>4. UNCHANGED << converted, call >>
  BY <1>1, WorkSteps DEF Finished
<1>5. /\ inflight' \in [ Files -> [ Topics -> SUBSET (Nat \ {0}) ] ]
      /\ \A g \in Files, u \in Topics :
           inflight'[g][u] \subseteq DOMAIN outbox[g][u]
  <2>1. UNCHANGED inflight \/ Acked(f, d.topic, d.id)
    BY <1>1, WorkSteps DEF Finished
  <2>2. CASE UNCHANGED inflight
    BY <1>1, <2>2 DEF TypeOK
  <2>3. CASE Acked(f, d.topic, d.id)
    BY <1>1, <2>3, AckedTypeOK
  <2> QED
    BY <2>1, <2>2, <2>3
<1>6. /\ handler' \in [ Handlers -> {Idle} \cup Delivery ]
      /\ \A g \in Handlers : handler'[g] # Idle =>
           handler'[g].id \in DOMAIN outbox[handler'[g].file][handler'[g].topic]
  <2>1. PICK e \in {Idle} \cup Delivery :
          /\ handler' = [ handler EXCEPT ![h] = e ]
          /\ e # Idle => << e.file, e.topic, e.id >> = << f, d.topic, d.id >>
    BY <1>1, WorkSteps DEF Finished
  <2>2. d # Idle => d.id \in DOMAIN outbox[f][d.topic]
    BY DEF Frame, RowsExist
  <2>3. d # Idle
    BY <1>1, Phases DEF Delivery, Idle
  <2>4. /\ handler'[h] = e
        /\ \A g \in Handlers : g # h => handler'[g] = handler[g]
    BY <1>1, <2>1 DEF TypeOK
  <2>5. \A g \in Handlers : handler[g] # Idle =>
           handler[g].id \in DOMAIN outbox[handler[g].file][handler[g].topic]
    BY DEF Frame, RowsExist
  <2> QED
    BY <1>1, <2>1, <2>2, <2>3, <2>4, <2>5 DEF TypeOK
<1>7. TypeOK'
  BY <1>1, <1>2, <1>3, <1>4, <1>5, <1>6 DEF TypeOK
<1>8. /\ LocksHold'
      /\ \A c \in Callers : call'[c].phase \in { "publishing", "marking" } =>
           \A g \in Files : call'[c].rows[g] <= Len(outbox'[g][call'[c].topic])
  BY <1>1, <1>2, <1>3, <1>4, CallsKept DEF Frame
<1>9. ASSUME NEW g \in Handlers, handler'[g] # Idle
      PROVE  handler'[g].id \in DOMAIN outbox'[handler'[g].file][handler'[g].topic]
  <2>1. handler'[g].file \in Files /\ handler'[g].topic \in Topics
    BY <1>6, <1>9 DEF Delivery
  <2> QED
    BY <1>3, <1>6, <1>9, <2>1
<1> QED
  BY <1>2, <1>7, <1>8, <1>9 DEF Frame, RowsExist

\* Nothing a relay, the broker, the sweep or the clock does moves a call, a
\* delivery's row number or the length of an outbox down.
LEMMA FrameKept ==
  ASSUME Frame, TypeOK', LeaseShape', UNCHANGED call,
         \A f \in Files : RowLocked(f) => file'[f].stage = "SCHEMA_READY",
         \A g \in Files, u \in Topics :
           /\ Len(outbox[g][u]) <= Len(outbox'[g][u])
           /\ DOMAIN outbox[g][u] \subseteq DOMAIN outbox'[g][u],
         \A h \in Handlers : handler'[h] # Idle =>
           handler'[h].id \in DOMAIN outbox[handler'[h].file][handler'[h].topic]
  PROVE  Frame'
<1>1. /\ LocksHold'
      /\ \A c \in Callers : call'[c].phase \in { "publishing", "marking" } =>
           \A g \in Files : call'[c].rows[g] <= Len(outbox'[g][call'[c].topic])
  BY CallsKept DEF Frame, TypeOK
<1>2. ASSUME NEW h \in Handlers, handler'[h] # Idle
      PROVE  handler'[h].id \in DOMAIN outbox'[handler'[h].file][handler'[h].topic]
  <2>1. handler'[h] \in Delivery
    BY <1>2 DEF TypeOK
  <2>2. handler'[h].file \in Files /\ handler'[h].topic \in Topics
    BY <2>1 DEF Delivery
  <2> QED
    BY <1>2, <2>2
<1> QED
  BY <1>1, <1>2 DEF Frame, RowsExist

\* The relay and the broker keep the frame.
LEMMA QueueFrame ==
  ASSUME Frame, NEW f \in Files, NEW t \in Topics,
         \/ \E i \in DOMAIN outbox[f][t] : Relay(f, t, i)
         \/ \E i \in inflight[f][t] : Broker(f, t, i)
  PROVE  Frame'
<1> USE DEF Frame
<1>1. \A h \in Handlers : handler[h] # Idle =>
        handler[h].id \in DOMAIN outbox[handler[h].file][handler[h].topic]
  BY DEF RowsExist
<1>2. \A g \in Files : RowLocked(g) => file[g].stage = "SCHEMA_READY"
  BY DEF LocksHold, RowLocked
<1>3. ASSUME NEW i \in DOMAIN outbox[f][t], Relay(f, t, i) PROVE Frame'
  <2>1. TypeOK'
    BY <1>3, RelayTypeOK
  <2>2. UNCHANGED << handler, call >>
    BY <1>3 DEF Relay, RelayPublishes, RelayPublishesUnrecorded,
                RelayRetriesLater, RelayGivesUp
  <2>3. \A g \in Files, u \in Topics :
          /\ Len(outbox[g][u]) = Len(outbox'[g][u])
          /\ DOMAIN outbox[g][u] = DOMAIN outbox'[g][u]
    <3>1. \A r : outbox' = [ outbox EXCEPT ![f][t][i] = r ] =>
            \A g \in Files, u \in Topics :
              /\ Len(outbox[g][u]) = Len(outbox'[g][u])
              /\ DOMAIN outbox[g][u] = DOMAIN outbox'[g][u]
      <4> SUFFICES ASSUME NEW r, outbox' = [ outbox EXCEPT ![f][t][i] = r ]
                   PROVE  \A g \in Files, u \in Topics :
                            /\ Len(outbox[g][u]) = Len(outbox'[g][u])
                            /\ DOMAIN outbox[g][u] = DOMAIN outbox'[g][u]
        OBVIOUS
      <4> DEFINE s2 == [ outbox[f][t] EXCEPT ![i] = r ]
      <4>1. /\ outbox[f][t] \in Seq(OutboxRow)
            /\ DOMAIN s2 = DOMAIN outbox[f][t]
        BY DEF TypeOK
      <4>2. outbox' = [ outbox EXCEPT ![f][t] = s2 ]
        OBVIOUS
      <4> HIDE DEF s2
      <4>3. outbox'[f][t] = s2 /\ outbox'[f][t] \in Seq(OutboxRow)
        BY <2>1, <4>2 DEF TypeOK
      <4>4. \A g \in Files, u \in Topics :
              g # f \/ u # t => outbox'[g][u] = outbox[g][u]
        BY <4>2 DEF TypeOK
      <4>5. Len(outbox[f][t]) = Len(outbox'[f][t])
        BY <4>1, <4>3
      <4> QED
        BY <4>1, <4>3, <4>4, <4>5
    <3>2. RelayRetriesLater(f, t, i) =>
            outbox' = [ outbox EXCEPT ![f][t][i] =
              [ outbox[f][t][i] EXCEPT !.attempts = @ + 1 ] ]
      BY DEF RelayRetriesLater
    <3> QED
      BY <1>3, <3>1, <3>2 DEF Relay, RelayPublishes, RelayPublishesUnrecorded,
                              RelayGivesUp
  <2>4. LeaseShape' /\ \A g \in Files : RowLocked(g) => file'[g].stage = "SCHEMA_READY"
    <3>1. CASE UNCHANGED file
      BY <1>2, <3>1 DEF LeaseShape
    <3>2. CASE RelayGivesUp(f, t, i)
      <4> DEFINE row == IF file[f].stage = "FAILED" THEN file[f] ELSE Fail(file[f])
      <4>1. /\ file' = [ file EXCEPT ![f] = row ]
            /\ ~RowLocked(f)
        BY <3>2 DEF RelayGivesUp
      <4>2. RowShape(row)
        BY DEF LeaseShape, TypeOK, FileRow, RowShape, Fail
      <4> HIDE DEF row
      <4>3. file'[f] = row /\ \A g \in Files : g # f => file'[g] = file[g]
        BY <4>1 DEF TypeOK
      <4> QED
        BY <1>2, <4>1, <4>2, <4>3 DEF LeaseShape
    <3> QED
      BY <1>3, <3>1, <3>2 DEF Relay, RelayPublishes, RelayPublishesUnrecorded,
                              RelayRetriesLater
  <2>5. \A g \in Files, u \in Topics :
          /\ Len(outbox[g][u]) <= Len(outbox'[g][u])
          /\ DOMAIN outbox[g][u] \subseteq DOMAIN outbox'[g][u]
    <3>1. \A g \in Files, u \in Topics : Len(outbox[g][u]) \in Nat
      BY DEF TypeOK
    <3> QED
      BY <2>3, <3>1
  <2> QED
    BY <1>1, <2>1, <2>2, <2>4, <2>5, FrameKept
<1>4. ASSUME NEW i \in inflight[f][t], Broker(f, t, i) PROVE Frame'
  <2>1. TypeOK'
    BY <1>4, BrokerTypeOK
  <2>2. UNCHANGED << file, outbox, call >>
    BY <1>4 DEF Broker, Receive, ReceiveNothingToDo, BrokerDropsMessage
  <2>3. ASSUME NEW h \in Handlers, handler'[h] # Idle
        PROVE  handler'[h].id \in DOMAIN outbox[handler'[h].file][handler'[h].topic]
    <3>1. \/ UNCHANGED handler
          \/ \E g \in Handlers, r \in Roles : handler' = [ handler EXCEPT ![g] =
               [ phase |-> "received", file |-> f, topic |-> t, id |-> i,
                 role |-> r, attempts |-> 0, beats |-> FALSE ] ]
      <4>1. \A g \in Handlers : ResolvedRoles(g, f) \subseteq Roles
        BY PipelineAssumption DEF ResolvedRoles
      <4> QED
        BY <1>4, <4>1 DEF Broker, Receive, ReceiveNothingToDo, BrokerDropsMessage
    <3>2. CASE UNCHANGED handler
      BY <1>1, <2>3, <3>2
    <3>3. ASSUME NEW g \in Handlers, NEW r \in Roles,
                 handler' = [ handler EXCEPT ![g] =
                   [ phase |-> "received", file |-> f, topic |-> t, id |-> i,
                     role |-> r, attempts |-> 0, beats |-> FALSE ] ]
          PROVE  handler'[h].id \in DOMAIN outbox[handler'[h].file][handler'[h].topic]
      <4>1. i \in DOMAIN outbox[f][t]
        BY DEF TypeOK
      <4>2. CASE h = g
        BY <3>3, <4>1, <4>2 DEF TypeOK
      <4>3. CASE h # g
        <5>1. handler'[h] = handler[h]
          BY <3>3, <4>3 DEF TypeOK
        <5> QED
          BY <1>1, <2>3, <5>1
      <4> QED
        BY <4>2, <4>3
    <3> QED
      BY <3>1, <3>2, <3>3
  <2>4. \A g \in Files, u \in Topics :
          /\ Len(outbox[g][u]) <= Len(outbox'[g][u])
          /\ DOMAIN outbox[g][u] \subseteq DOMAIN outbox'[g][u]
    <3>1. \A g \in Files, u \in Topics : Len(outbox[g][u]) \in Nat
      BY DEF TypeOK
    <3> QED
      BY <2>2, <3>1
  <2>5. LeaseShape'
    BY <2>2 DEF LeaseShape
  <2> QED
    BY <1>2, <2>1, <2>2, <2>3, <2>4, <2>5, FrameKept
<1> QED
  BY <1>3, <1>4

\* The sweep and the clock keep the frame.
LEMMA SweepFrame ==
  ASSUME Frame, NEW f \in Files, LeaseExpires(f) \/ Sweep(f)
  PROVE  Frame'
<1> USE DEF Frame
<1>1. file[f] \in FileRow /\ RowShape(file[f])
  BY DEF TypeOK, LeaseShape
<1>2. PICK row \in FileRow :
        /\ RowShape(row)
        /\ file' = [ file EXCEPT ![f] = row ]
        /\ file[f].stage # "SCHEMA_READY"
        /\ \/ UNCHANGED outbox
           \/ \E t \in Topics : Enqueue(f, t)
  <2>1. CASE LeaseExpires(f)
    <3> DEFINE row == [ file[f] EXCEPT !.lease = "expired" ]
    <3>1. row \in FileRow /\ RowShape(row) /\ file[f].stage # "SCHEMA_READY"
      BY <1>1, <2>1 DEF FileRow, RowShape, LeaseExpires
    <3>2. file' = [ file EXCEPT ![f] = row ] /\ UNCHANGED outbox
      BY <2>1 DEF LeaseExpires
    <3> HIDE DEF row
    <3> QED
      BY <3>1, <3>2
  <2>2. CASE SweepReclaims(f)
    <3> DEFINE back == IF file[f].stage = "INSPECTING" THEN "UPLOADED" ELSE "CONVERTING"
               row == [ file[f] EXCEPT !.stage = back, !.claimedBy = NoOne,
                                       !.lease = "none" ]
    <3>1. /\ row \in FileRow /\ RowShape(row)
          /\ file[f].stage # "SCHEMA_READY"
          /\ TopicForStage(back) \in Topics
      BY <1>1, <2>2 DEF FileRow, RowShape, SweepReclaims, Abandoned, Stages,
                        TopicForStage, Topics
    <3>2. file' = [ file EXCEPT ![f] = row ] /\ Enqueue(f, TopicForStage(back))
      BY <2>2 DEF SweepReclaims
    <3> HIDE DEF row, back
    <3> QED
      BY <3>1, <3>2
  <2>3. CASE SweepFails(f)
    <3> DEFINE row == FailTables(Fail(file[f]))
    <3>1. row \in FileRow /\ RowShape(row)
      BY <1>1 DEF FileRow, RowShape, Fail, FailTables, Stages, TableStages
    <3>2. file' = [ file EXCEPT ![f] = row ] /\ UNCHANGED outbox
          /\ file[f].stage # "SCHEMA_READY"
      BY <2>3 DEF SweepFails, Abandoned
    <3> HIDE DEF row
    <3> QED
      BY <3>1, <3>2
  <2> QED
    BY <2>1, <2>2, <2>3 DEF Sweep
<1>3. UNCHANGED << converted, inflight, handler, call >>
  BY DEF LeaseExpires, Sweep, SweepReclaims, SweepFails
<1>4. file'[f] = row /\ \A g \in Files : g # f => file'[g] = file[g]
  BY <1>2 DEF TypeOK
<1>5. file' \in [ Files -> FileRow ] /\ LeaseShape'
  BY <1>2, <1>4 DEF TypeOK, LeaseShape
<1>6. /\ outbox' \in [ Files -> [ Topics -> Seq(OutboxRow) ] ]
      /\ \A g \in Files, u \in Topics :
           /\ Len(outbox[g][u]) <= Len(outbox'[g][u])
           /\ DOMAIN outbox[g][u] \subseteq DOMAIN outbox'[g][u]
  BY <1>2, EnqueueGrows DEF TypeOK
<1>7. TypeOK'
  BY <1>3, <1>5, <1>6 DEF TypeOK
<1>8. \A g \in Files : RowLocked(g) => file'[g].stage = "SCHEMA_READY"
  <2>1. \A g \in Files : RowLocked(g) => file[g].stage = "SCHEMA_READY"
    BY DEF LocksHold, RowLocked
  <2> QED
    BY <1>2, <1>4, <2>1
<1>9. \A h \in Handlers : handler'[h] # Idle =>
        handler'[h].id \in DOMAIN outbox[handler'[h].file][handler'[h].topic]
  BY <1>3 DEF RowsExist
<1> QED
  BY <1>3, <1>5, <1>6, <1>7, <1>8, <1>9, FrameKept

\* A call's step that locks nothing new leaves the locks and the row numbers of
\* the others alone.
LEMMA CallStep ==
  ASSUME Frame, TypeOK', NEW c \in Callers, UNCHANGED handler,
         \A d \in Callers : d # c => call'[d] = call[d],
         call'[c].phase # "moving",
         \A d \in Callers : d # c /\ call[d].phase = "moving" =>
           \A f \in call[d].moved : file'[f].stage = "SCHEMA_READY",
         \A g \in Files, u \in Topics :
           /\ Len(outbox[g][u]) <= Len(outbox'[g][u])
           /\ DOMAIN outbox[g][u] \subseteq DOMAIN outbox'[g][u],
         call'[c].phase \in { "publishing", "marking" } =>
           \A f \in Files : call'[c].rows[f] <= Len(outbox'[f][call'[c].topic])
  PROVE  LocksHold' /\ RowsExist'
<1>1. LocksHold'
  <2> SUFFICES ASSUME NEW d \in Callers, call'[d].phase = "moving",
                      NEW f \in call'[d].moved
               PROVE  /\ file'[f].stage = "SCHEMA_READY"
                      /\ \A e \in Callers :
                           call'[e].phase = "moving" /\ f \in call'[e].moved => e = d
    BY DEF LocksHold
  <2>1. d # c /\ call'[d] = call[d]
    OBVIOUS
  <2> QED
    BY <2>1 DEF Frame, LocksHold
<1>2. ASSUME NEW h \in Handlers, handler'[h] # Idle
      PROVE  handler'[h].id \in DOMAIN outbox'[handler'[h].file][handler'[h].topic]
  <2>1. handler[h] \in Delivery /\ handler'[h] = handler[h]
    BY <1>2 DEF Frame, TypeOK
  <2>2. handler[h].file \in Files /\ handler[h].topic \in Topics
    BY <2>1 DEF Delivery
  <2> QED
    BY <1>2, <2>1, <2>2 DEF Frame, RowsExist
<1>3. ASSUME NEW d \in Callers, call'[d].phase \in { "publishing", "marking" },
             NEW f \in Files, d # c
      PROVE  call'[d].rows[f] <= Len(outbox'[f][call'[d].topic])
  <2>1. /\ call'[d] = call[d]
        /\ call[d].topic \in Topics
        /\ call[d].rows[f] \in Nat
    BY <1>3, Phases DEF Frame, PublishCall
  <2>2. /\ call[d].rows[f] <= Len(outbox[f][call[d].topic])
        /\ Len(outbox[f][call[d].topic]) <= Len(outbox'[f][call[d].topic])
    BY <1>3, <2>1 DEF Frame, RowsExist
  <2>3. /\ Len(outbox[f][call[d].topic]) \in Nat
        /\ Len(outbox'[f][call[d].topic]) \in Nat
    BY <2>1 DEF Frame, TypeOK
  <2> QED
    BY <2>1, <2>2, <2>3
<1> QED
  BY <1>1, <1>2, <1>3 DEF RowsExist

\* The API calls keep the frame.
LEMMA ApiFrame ==
  ASSUME Frame, NEW c \in Callers, Api(c)
  PROVE  Frame'
<1> USE DEF Frame
<1>1. TypeOK'
  BY ApiTypeOK
<1>2. UNCHANGED handler
  BY DEF Api, ConfirmRead, ConfirmArrived, ConfirmMissing, ConvertGate,
         ConvertMove, ConvertCommit, PublishInline, MarkInline, CallDies
<1>3. /\ \A d \in Callers : d # c => call'[d] = call[d]
      /\ \A x : call' = [ call EXCEPT ![c] = x ] => call'[c] = x
  BY DEF Api, ConfirmRead, ConfirmArrived, ConfirmMissing, ConvertGate,
         ConvertMove, ConvertCommit, PublishInline, MarkInline, CallDies, TypeOK
<1>4. \A d \in Callers : call[d].phase = "moving" =>
        \A f \in call[d].moved : f \in Files /\ file[f].stage = "SCHEMA_READY"
  BY Phases DEF LocksHold, ConvertCall
<1>5. UNCHANGED outbox =>
        \A g \in Files, u \in Topics :
          /\ Len(outbox[g][u]) <= Len(outbox'[g][u])
          /\ DOMAIN outbox[g][u] \subseteq DOMAIN outbox'[g][u]
  <2>1. \A g \in Files, u \in Topics : Len(outbox[g][u]) \in Nat
    BY DEF TypeOK
  <2> QED
    BY <2>1
<1>6. UNCHANGED file => LeaseShape'
  BY DEF LeaseShape
<1>7. ASSUME UNCHANGED << file, outbox >>, call'[c].phase \in { "statting", "gated", "idle" }
      PROVE  Frame'
  BY <1>1, <1>2, <1>3, <1>4, <1>5, <1>6, <1>7, CallStep
<1>8. ASSUME NEW f \in Files, ConfirmRead(c, f) PROVE Frame'
  BY <1>3, <1>7, <1>8 DEF ConfirmRead
<1>9. CASE ConfirmArrived(c)
  <2> DEFINE f == call[c].file
             t == "file-uploaded"
             rows == [ g \in Files |-> IF g = f THEN Len(outbox[f][t]) + 1 ELSE 0 ]
             s == IF file[f].stage = "UPLOADING" THEN "UPLOADED" ELSE file[f].stage
  <2>1. f \in Files /\ t \in Topics
    BY <1>9, Phases DEF ConfirmArrived, ConfirmCall, Topics
  <2>2. /\ file' = [ file EXCEPT ![f].stage = s ]
        /\ file[f] \in FileRow /\ RowShape(file[f])
    BY <1>9, <2>1 DEF ConfirmArrived, TypeOK, LeaseShape
  <2>3. /\ \A g \in Files : g # f => file'[g] = file[g]
        /\ file'[f] = [ file[f] EXCEPT !.stage = s ]
    BY <2>1, <2>2 DEF TypeOK
  <2>4. RowShape(file'[f]) /\ (file[f].stage = "SCHEMA_READY" => file'[f].stage = "SCHEMA_READY")
    BY <2>2, <2>3 DEF RowShape, FileRow
  <2>5. LeaseShape'
    BY <2>3, <2>4 DEF LeaseShape
  <2>6. /\ \A g \in Files, u \in Topics :
             /\ Len(outbox[g][u]) <= Len(outbox'[g][u])
             /\ DOMAIN outbox[g][u] \subseteq DOMAIN outbox'[g][u]
        /\ Len(outbox'[f][t]) = Len(outbox[f][t]) + 1
    BY <1>9, <2>1, EnqueueGrows, EnqueueOps DEF ConfirmArrived, TypeOK
  <2>7. call'[c] = [ phase |-> "publishing", topic |-> t, rows |-> rows ]
    BY <1>3, <1>9 DEF ConfirmArrived
  <2>8. \A g \in Files : rows[g] <= Len(outbox'[g][t])
    <3>1. \A g \in Files : Len(outbox'[g][t]) \in Nat
      BY <1>1, <2>1 DEF TypeOK
    <3>2. \A g \in Files : rows[g] = IF g = f THEN Len(outbox'[f][t]) ELSE 0
      BY <2>6
    <3> QED
      BY <2>1, <3>1, <3>2
  <2>9. \A d \in Callers : d # c /\ call[d].phase = "moving" =>
          \A g \in call[d].moved : file'[g].stage = "SCHEMA_READY"
    BY <1>4, <2>3, <2>4
  <2> HIDE DEF rows
  <2> QED
    BY <1>1, <1>2, <1>3, <2>5, <2>6, <2>7, <2>8, <2>9, CallStep
<1>10. CASE ConfirmMissing(c)
  <2> DEFINE f == call[c].file
  <2>1. f \in Files
    BY <1>10, Phases DEF ConfirmMissing, ConfirmCall
  <2>2. /\ file' = [ file EXCEPT ![f].stage = "FAILED" ]
        /\ file[f] \in FileRow /\ RowShape(file[f]) /\ ~RowLocked(f)
    BY <1>10, <2>1 DEF ConfirmMissing, TypeOK, LeaseShape
  <2>3. /\ \A g \in Files : g # f => file'[g] = file[g]
        /\ file'[f] = [ file[f] EXCEPT !.stage = "FAILED" ]
    BY <2>1, <2>2 DEF TypeOK
  <2>4. RowShape(file'[f])
    BY <2>2, <2>3 DEF RowShape, FileRow
  <2>5. LeaseShape'
    BY <2>3, <2>4 DEF LeaseShape
  <2>6. \A d \in Callers : d # c /\ call[d].phase = "moving" =>
          \A g \in call[d].moved : file'[g].stage = "SCHEMA_READY"
    BY <1>4, <2>2, <2>3 DEF RowLocked
  <2>7. UNCHANGED outbox /\ call'[c].phase = "idle"
    BY <1>3, <1>10 DEF ConfirmMissing, Idle
  <2> QED
    BY <1>1, <1>2, <1>3, <1>5, <2>5, <2>6, <2>7, CallStep
<1>11. CASE ConvertGate(c)
  BY <1>3, <1>7, <1>11 DEF ConvertGate
<1>12. CASE ConvertMove(c)
  <2> DEFINE ready == { f \in Files : file[f].stage = "SCHEMA_READY" }
  <2>1. /\ \A f \in ready : ~RowLocked(f)
        /\ call'[c] = [ phase |-> "moving", moved |-> ready ]
        /\ UNCHANGED << file, outbox >>
    BY <1>3, <1>12 DEF ConvertMove
  <2>2. LocksHold'
    <3> SUFFICES ASSUME NEW d \in Callers, call'[d].phase = "moving",
                        NEW f \in call'[d].moved
                 PROVE  /\ file[f].stage = "SCHEMA_READY"
                        /\ \A e \in Callers :
                             call'[e].phase = "moving" /\ f \in call'[e].moved => e = d
      BY <2>1 DEF LocksHold
    <3>1. CASE d = c
      <4>1. f \in ready
        BY <2>1, <3>1
      <4> QED
        BY <1>3, <2>1, <3>1, <4>1 DEF RowLocked
    <3>2. CASE d # c
      <4>1. call'[d] = call[d] /\ RowLocked(f) /\ file[f].stage = "SCHEMA_READY" /\ f \in Files
        BY <1>3, <1>4, <3>2 DEF RowLocked
      <4>2. f \notin ready
        BY <2>1, <4>1
      <4> QED
        BY <4>1, <4>2
    <3> QED
      BY <3>1, <3>2
  <2>3. RowsExist'
    <3>1. \A d \in Callers : call'[d].phase \in { "publishing", "marking" } =>
            call'[d] = call[d]
      BY <1>3, <2>1
    <3> QED
      BY <1>2, <2>1, <3>1 DEF RowsExist
  <2> QED
    BY <1>1, <1>6, <2>1, <2>2, <2>3
<1>13. CASE ConvertCommit(c)
  <2> DEFINE t == "convert-requested"
             moved == call[c].moved
             rows == [ f \in Files |-> IF f \in moved THEN Len(outbox[f][t]) + 1 ELSE 0 ]
  <2>1. \A f \in moved : f \in Files /\ file[f].stage = "SCHEMA_READY"
    BY <1>4, <1>13 DEF ConvertCommit
  <2>2. \A f \in Files : file'[f] = IF f \in moved
          THEN [ file[f] EXCEPT !.stage = "CONVERTING" ] ELSE file[f]
    BY <1>13 DEF ConvertCommit
  <2>3. LeaseShape'
    <3>1. ASSUME NEW f \in Files PROVE RowShape(file'[f])
      <4>1. file[f] \in FileRow /\ RowShape(file[f])
        BY DEF TypeOK, LeaseShape
      <4> QED
        BY <2>1, <2>2, <4>1 DEF RowShape, FileRow
    <3> QED
      BY <3>1 DEF LeaseShape
  <2>4. \A d \in Callers : d # c /\ call[d].phase = "moving" =>
          \A g \in call[d].moved : file'[g].stage = "SCHEMA_READY"
    <3> SUFFICES ASSUME NEW d \in Callers, d # c, call[d].phase = "moving",
                        NEW g \in call[d].moved
                 PROVE  file'[g].stage = "SCHEMA_READY"
      OBVIOUS
    <3>1. g \notin moved
      BY <1>13 DEF ConvertCommit, LocksHold
    <3> QED
      BY <1>4, <2>2, <3>1
  <2>5. call'[c] = [ phase |-> "publishing", topic |-> t, rows |-> rows ]
    BY <1>3, <1>13 DEF ConvertCommit
  <2>6. /\ \A f \in Files : f \in moved => Len(outbox'[f][t]) = Len(outbox[f][t]) + 1
        /\ \A g \in Files, u \in Topics :
             /\ g \notin moved \/ u # t => outbox'[g][u] = outbox[g][u]
             /\ DOMAIN outbox[g][u] \subseteq DOMAIN outbox'[g][u]
    BY <1>13, CommitOps
  <2>7. \A g \in Files, u \in Topics :
          /\ Len(outbox[g][u]) \in Nat
          /\ Len(outbox'[g][u]) \in Nat
    BY <1>1 DEF TypeOK
  <2>8. \A g \in Files, u \in Topics : Len(outbox[g][u]) <= Len(outbox'[g][u])
    BY <2>6, <2>7
  <2>9. \A f \in Files : rows[f] <= Len(outbox'[f][t])
    <3>1. t \in Topics
      BY DEF Topics
    <3> QED
      BY <2>6, <2>7, <3>1
  <2> HIDE DEF rows
  <2> QED
    BY <1>1, <1>2, <1>3, <2>3, <2>4, <2>5, <2>6, <2>8, <2>9, CallStep
<1>14. CASE PublishInline(c)
  <2>1. PICK sent \in SUBSET { f \in Files : call[c].rows[f] # 0 } :
          call' = [ call EXCEPT ![c] =
            [ phase |-> "marking", topic |-> call[c].topic,
              rows |-> [ f \in Files |->
                IF f \in sent THEN call[c].rows[f] ELSE 0 ] ] ]
    BY <1>14 DEF PublishInline
  <2>2. UNCHANGED << file, outbox >>
    BY <1>14 DEF PublishInline
  <2>3. call'[c] = [ phase |-> "marking", topic |-> call[c].topic,
                     rows |-> [ f \in Files |->
                       IF f \in sent THEN call[c].rows[f] ELSE 0 ] ]
    BY <1>3, <2>1
  <2>4. ASSUME NEW f \in Files
        PROVE  call'[c].rows[f] <= Len(outbox[f][call[c].topic])
    <3>1. call[c].topic \in Topics
      BY <1>14, Phases DEF PublishInline, PublishCall
    <3>2. call[c].rows[f] <= Len(outbox[f][call[c].topic])
      BY <1>14 DEF PublishInline, RowsExist
    <3>3. Len(outbox[f][call[c].topic]) \in Nat
      BY <3>1 DEF TypeOK
    <3> QED
      BY <2>3, <3>2, <3>3
  <2> QED
    BY <1>1, <1>2, <1>3, <1>4, <1>5, <1>6, <2>2, <2>3, <2>4, CallStep
<1>15. CASE MarkInline(c)
  <2>1. /\ UNCHANGED file
        /\ call'[c].phase = "idle"
    BY <1>3, <1>15 DEF MarkInline, Idle
  <2>2. \A g \in Files, u \in Topics :
          /\ Len(outbox'[g][u]) = Len(outbox[g][u])
          /\ DOMAIN outbox'[g][u] = DOMAIN outbox[g][u]
    BY <1>15, MarkOps
  <2>3. \A g \in Files, u \in Topics : Len(outbox[g][u]) \in Nat
    BY DEF TypeOK
  <2>4. \A g \in Files, u \in Topics :
          /\ Len(outbox[g][u]) <= Len(outbox'[g][u])
          /\ DOMAIN outbox[g][u] \subseteq DOMAIN outbox'[g][u]
    BY <2>2, <2>3
  <2> QED
    BY <1>1, <1>2, <1>3, <1>4, <1>6, <2>1, <2>4, CallStep
<1>16. CASE CallDies(c)
  BY <1>3, <1>7, <1>16 DEF CallDies, Idle
<1> QED
  BY <1>8, <1>9, <1>10, <1>11, <1>12, <1>13, <1>14, <1>15, <1>16 DEF Api

\* Nobody holds a row, a lock or an outbox row at first.
LEMMA InitFrame == Init => Frame
<1> SUFFICES ASSUME Init PROVE Frame
  OBVIOUS
<1>1. TypeOK
  BY InitTypeOK
<1>2. LeaseShape
  BY DEF Init, LeaseShape, RowShape, NewFileRow
<1>3. LocksHold /\ RowsExist
  BY DEF Init, LocksHold, RowsExist, Idle
<1> QED
  BY <1>1, <1>2, <1>3 DEF Frame

\* Every step keeps the frame.
LEMMA NextFrame == Frame /\ [Next]_vars => Frame'
<1> SUFFICES ASSUME Frame, [Next]_vars PROVE Frame'
  OBVIOUS
<1>1. CASE UNCHANGED vars
  BY <1>1 DEF vars, Frame, TypeOK, LeaseShape, LocksHold, RowsExist
<1>2. CASE Next
  BY <1>2, ApiFrame, QueueFrame, WorkFrame, SweepFrame DEF Next
<1> QED
  BY <1>1, <1>2

\* Every variable always has its type: the deliveries, the relay, the sweep and
\* the API only ever leave rows the schema of the database allows, and every
\* message, delivery and call is about an outbox row that exists.
THEOREM TypeCorrect == Spec => []TypeOK
<1>1. Frame => TypeOK
  BY DEF Frame
<1> QED
  BY InitFrame, NextFrame, <1>1, PTL DEF Spec

-----------------------------------------------------------------------------
(* The direction of a file.                                               *)

\* Deliveries share an identity only if they belong to one service that serves
\* one topic: config._build puts the role in front of the instance id.
RoleSeparated ==
  \A g, h \in Handlers :
    InstanceOf[g] = InstanceOf[h] =>
      g = h \/ (RoleOf[g] = RoleOf[h] /\ RoleOf[g] # "both")

\* Conversion has been asked of the file.
Asked(f) == Len(outbox[f]["convert-requested"]) > 0

\* From then on the file is in conversion; a delivery that converts, or that
\* carries a convert-requested message, is about such a file; and an inspection
\* that still holds its lease is about one that is not.
OneDirection ==
  /\ \A f \in Files :
       /\ Asked(f) => file[f].stage \in { "CONVERTING", "COMPLETED", "FAILED" }
       /\ file[f].stage = "CONVERTING" => Asked(f)
  /\ \A h \in Handlers : handler[h] # Idle =>
       /\ RoleOf[h] # "both" => handler[h].role = RoleOf[h]
       /\ handler[h].topic = "convert-requested" => handler[h].role = "convert"
       /\ handler[h].role = "convert" => Asked(handler[h].file)
       /\ /\ handler[h].phase = "working"
          /\ handler[h].role = "inspect"
          /\ file[handler[h].file].claimedBy = InstanceOf[h]
          => ~Asked(handler[h].file)

-----------------------------------------------------------------------------
\* At first nothing is asked and nobody works.
LEMMA InitOneDirection == Init => OneDirection
BY DEF Init, OneDirection, Asked, Topics, NewFileRow, Idle

\* What has been asked stays asked, and only an enqueue on convert-requested
\* asks.
LEMMA AskedOps ==
  ASSUME TypeOK, NEW f \in Files,
         UNCHANGED outbox \/ \E t \in Topics : Enqueue(f, t)
  PROVE  /\ \A g \in Files : Asked(g) => Asked(g)'
         /\ \A g \in Files : g # f => (Asked(g)' <=> Asked(g))
         /\ UNCHANGED outbox \/ Enqueue(f, "file-uploaded") => (Asked(f)' <=> Asked(f))
         /\ Enqueue(f, "convert-requested") => Asked(f)'
<1> DEFINE t == "convert-requested"
<1>1. t \in Topics /\ "file-uploaded" \in Topics
  BY DEF Topics
<1>2. \A g \in Files : /\ Len(outbox[g][t]) \in Nat
                       /\ Len(outbox'[g][t]) \in Nat
                       /\ Len(outbox[g][t]) <= Len(outbox'[g][t])
  <2>1. /\ outbox' \in [ Files -> [ Topics -> Seq(OutboxRow) ] ]
        /\ \A g \in Files, u \in Topics : Len(outbox[g][u]) <= Len(outbox'[g][u])
    BY EnqueueGrows
  <2>2. outbox \in [ Files -> [ Topics -> Seq(OutboxRow) ] ]
    BY DEF TypeOK
  <2> QED
    BY <1>1, <2>1, <2>2
<1>3. \A g \in Files : g # f => outbox'[g][t] = outbox[g][t]
  BY <1>1, EnqueueOps DEF TypeOK
<1>4. UNCHANGED outbox \/ Enqueue(f, "file-uploaded") => outbox'[f][t] = outbox[f][t]
  BY <1>1, EnqueueOps DEF TypeOK
<1>5. Enqueue(f, t) => Len(outbox'[f][t]) = Len(outbox[f][t]) + 1
  BY <1>1, EnqueueOps DEF TypeOK
<1> QED
  BY <1>2, <1>3, <1>4, <1>5 DEF Asked

\* The two things an action of delivery h must leave of its file f: it is where
\* the queue says it is, and the lease it leaves behind is no inspection's if
\* conversion has been asked for.
Onward(h, f) ==
  /\ Asked(f)' => file'[f].stage \in { "CONVERTING", "COMPLETED", "FAILED" }
  /\ file'[f].stage = "CONVERTING" => Asked(f)'
  /\ \/ file'[f].claimedBy = NoOne
     \/ file'[f].claimedBy = file[f].claimedBy /\ (Asked(f)' <=> Asked(f))
     \/ /\ file'[f].claimedBy = InstanceOf[h]
        /\ handler[h].role = "inspect" => ~Asked(f)'

\* Every action of a delivery leaves its own file onward.
LEMMA WorkOnward ==
  ASSUME Frame, OneDirection, NEW h \in Handlers, Work(h),
         NEW f \in Files, f = handler[h].file
  PROVE  Onward(h, f)
<1> DEFINE d == handler[h]
           inst == InstanceOf[h]
<1>1. /\ f \in Files /\ d.role \in Roles /\ d # Idle
      /\ file[f] \in FileRow /\ RowShape(file[f])
      /\ inst \in Instances /\ inst # NoOne
      /\ TypeOK
  <2>1. d \in Delivery /\ TypeOK
    BY WorkSteps DEF Frame
  <2>2. d # Idle
    BY <2>1, Phases DEF Delivery, Idle
  <2> QED
    BY <2>1, <2>2, PipelineAssumption, LeaseAssumption
       DEF Delivery, Frame, TypeOK, LeaseShape
<1>2. /\ Asked(f) => file[f].stage \in { "CONVERTING", "COMPLETED", "FAILED" }
      /\ file[f].stage = "CONVERTING" => Asked(f)
      /\ d.role = "convert" => Asked(f)
      /\ d.phase = "working" /\ d.role = "inspect" /\ file[f].claimedBy = inst =>
           ~Asked(f)
  BY <1>1 DEF OneDirection
<1>3. \A row : file' = [ file EXCEPT ![f] = row ] => file'[f] = row
  BY <1>1 DEF TypeOK
<1>4. /\ Asked(f) => Asked(f)'
      /\ UNCHANGED outbox \/ Enqueue(f, "file-uploaded") => (Asked(f)' <=> Asked(f))
      /\ Enqueue(f, "convert-requested") => Asked(f)'
  <2>1. UNCHANGED outbox \/ \E t \in Topics : Enqueue(f, t)
    BY <1>1, WorkSteps
  <2> QED
    BY <1>1, <2>1, AskedOps
<1>5. CASE UNCHANGED << file, outbox >>
  BY <1>2, <1>4, <1>5 DEF Onward
<1>6. CASE UNCHANGED outbox /\ file' = [ file EXCEPT ![f] = FailTables(Fail(@)) ]
  <2>1. file'[f] = FailTables(Fail(file[f]))
    BY <1>3, <1>6
  <2>2. file'[f].stage = "FAILED" /\ file'[f].claimedBy = NoOne
    BY <1>1, <2>1 DEF FailTables, Fail, FileRow
  <2> QED
    BY <2>2 DEF Onward
<1>7. CASE ClaimFile(h)
  <2>1. CanClaim(file[f], d.role)
    BY <1>7 DEF ClaimFile, ClaimOutcome
  <2>2. file'[f] = Claim(file[f], d.role, inst) /\ UNCHANGED outbox
    BY <1>3, <1>7 DEF ClaimFile
  <2>3. file'[f].stage = ClaimTarget(d.role) /\ file'[f].claimedBy = inst
    BY <1>1, <2>2 DEF Claim, FileRow
  <2>4. CASE d.role = "inspect"
    BY <1>2, <1>4, <2>1, <2>2, <2>3, <2>4
       DEF Onward, CanClaim, Claimable, ClaimTarget
  <2>5. CASE d.role = "convert"
    BY <1>2, <1>4, <2>1, <2>2, <2>3, <2>5
       DEF Onward, CanClaim, Claimable, ClaimTarget
  <2> QED
    BY <1>1, <2>4, <2>5 DEF Roles
<1>8. CASE InspectSucceeds(h)
  <2> DEFINE row == Complete(SeedTables(file[f]), inst, "SCHEMA_READY")
  <2>1. /\ row.stage = IF file[f].claimedBy = inst THEN "SCHEMA_READY"
                                                   ELSE file[f].stage
        /\ row.claimedBy = IF file[f].claimedBy = inst THEN NoOne
                                                       ELSE file[f].claimedBy
        /\ row \in FileRow
    BY <1>1 DEF Complete, SeedTables, FileRow, Stages, TableStages
  <2>2. /\ d.phase = "working" /\ d.role = "inspect"
        /\ Chained(row) => /\ file' = [ file EXCEPT ![f] =
                                          [ row EXCEPT !.stage = "CONVERTING" ] ]
                           /\ Enqueue(f, "convert-requested")
        /\ ~Chained(row) => /\ file' = [ file EXCEPT ![f] = row ]
                            /\ UNCHANGED outbox
    BY <1>8 DEF InspectSucceeds
  <2> HIDE DEF row
  <2>3. CASE Chained(row)
    <3>1. row.stage = "SCHEMA_READY"
      BY <2>3 DEF Chained
    <3>2. row.claimedBy = NoOne
      BY <1>1, <2>1, <3>1 DEF RowShape
    <3>3. file'[f].stage = "CONVERTING" /\ file'[f].claimedBy = NoOne
      BY <1>3, <2>1, <2>2, <2>3, <3>2 DEF FileRow
    <3> QED
      BY <1>4, <2>2, <2>3, <3>3 DEF Onward
  <2>4. CASE ~Chained(row)
    <3>1. file'[f] = row /\ (Asked(f)' <=> Asked(f))
      BY <1>3, <1>4, <2>2, <2>4
    <3>2. CASE file[f].claimedBy = inst
      BY <1>2, <2>1, <2>2, <3>1, <3>2 DEF Onward
    <3>3. CASE file[f].claimedBy # inst
      BY <1>2, <2>1, <3>1, <3>3 DEF Onward
    <3> QED
      BY <3>2, <3>3
  <2> QED
    BY <2>3, <2>4
<1>9. CASE ConvertSucceeds(h)
  <2>1. file'[f] = Complete(FinishTables(file[f]), inst, "COMPLETED") /\ UNCHANGED outbox
    BY <1>3, <1>9 DEF ConvertSucceeds
  <2>2. /\ file'[f].stage = IF file[f].claimedBy = inst THEN "COMPLETED"
                                                        ELSE file[f].stage
        /\ file'[f].claimedBy = IF file[f].claimedBy = inst THEN NoOne
                                                            ELSE file[f].claimedBy
    BY <1>1, <2>1 DEF Complete, FinishTables, FileRow
  <2> QED
    BY <1>2, <1>4, <2>1, <2>2 DEF Onward
<1>10. ASSUME d.phase = "working",
              file' = [ file EXCEPT ![f] = Release(@, inst, BackTo(d.role)) ],
              UNCHANGED outbox \/ Enqueue(f, TopicForStage(BackTo(d.role)))
       PROVE  Onward(h, f)
  <2>1. file'[f] = Release(file[f], inst, BackTo(d.role))
    BY <1>3, <1>10
  <2>2. /\ file'[f].stage = IF file[f].claimedBy = inst THEN BackTo(d.role)
                                                        ELSE file[f].stage
        /\ file'[f].claimedBy = IF file[f].claimedBy = inst THEN NoOne
                                                            ELSE file[f].claimedBy
    BY <1>1, <2>1 DEF Release, FileRow
  <2>3. CASE d.role = "inspect"
    <3>1. BackTo(d.role) = "UPLOADED" /\ TopicForStage(BackTo(d.role)) = "file-uploaded"
      BY <2>3 DEF BackTo, TopicForStage
    <3> QED
      BY <1>2, <1>4, <1>10, <2>2, <2>3, <3>1 DEF Onward
  <2>4. CASE d.role = "convert"
    <3>1. BackTo(d.role) = "CONVERTING" /\ Asked(f) /\ Asked(f)'
      BY <1>2, <1>4, <2>4 DEF BackTo
    <3> QED
      BY <1>2, <2>2, <3>1 DEF Onward
  <2> QED
    BY <1>1, <2>3, <2>4 DEF Roles
<1>11. CASE Heartbeat(h)
  <2>1. file'[f] = Renew(file[f], inst) /\ UNCHANGED outbox
    BY <1>3, <1>11 DEF Heartbeat
  <2>2. file'[f].stage = file[f].stage /\ file'[f].claimedBy = file[f].claimedBy
    BY <1>1, <2>1 DEF Renew, FileRow
  <2> QED
    BY <1>2, <1>4, <2>1, <2>2 DEF Onward
<1>12. CASE ClaimRefused(h) \/ ClaimNacked(h) \/ HandlerDies(h)
  BY <1>5, <1>12 DEF ClaimRefused, ClaimNacked, HandlerDies
<1>13. CASE ClaimExhausted(h) \/ AttemptIsFinal(h)
  BY <1>6, <1>13 DEF ClaimExhausted, AttemptIsFinal
<1>14. CASE AttemptIsRetried(h)
  BY <1>10, <1>14 DEF AttemptIsRetried
<1>15. CASE AttemptPauses(h)
  BY <1>10, <1>15 DEF AttemptPauses
<1> QED
  BY <1>7, <1>8, <1>9, <1>11, <1>12, <1>13, <1>14, <1>15 DEF Work

\* The deliveries keep the direction: their own file is onward, and the other
\* files and deliveries are as they were.
LEMMA WorkOneDirection ==
  ASSUME Frame, Frame', OneDirection, RoleSeparated, NEW h \in Handlers, Work(h)
  PROVE  OneDirection'
<1>1. PICK f \in Files : f = handler[h].file
  BY WorkSteps DEF Frame, Delivery
<1>2. Onward(h, f)
  BY <1>1, WorkOnward
<1>3. /\ \A g \in Files : Asked(g) => Asked(g)'
      /\ \A g \in Files : g # f => (Asked(g)' <=> Asked(g))
  <2>1. UNCHANGED outbox \/ \E t \in Topics : Enqueue(f, t)
    BY <1>1, WorkSteps DEF Frame
  <2> QED
    BY <2>1, AskedOps DEF Frame
<1>4. \A g \in Files : g # f => file'[g] = file[g]
  BY <1>1, WorkSteps DEF RowStep, Frame, TypeOK
<1>5. handler[h] # Idle
  BY WorkSteps, Phases DEF Delivery, Idle, Frame
<1>6. /\ \A k \in Handlers : k # h => handler'[k] = handler[k]
      /\ handler'[h] # Idle =>
           << handler'[h].file, handler'[h].topic, handler'[h].role >> =
           << handler[h].file, handler[h].topic, handler[h].role >>
  BY WorkSteps DEF Finished, Frame, TypeOK
<1>7. ASSUME NEW g \in Files
      PROVE  /\ Asked(g)' => file'[g].stage \in { "CONVERTING", "COMPLETED", "FAILED" }
             /\ file'[g].stage = "CONVERTING" => Asked(g)'
  <2>1. CASE g = f
    BY <1>2, <2>1 DEF Onward
  <2>2. CASE g # f
    BY <1>3, <1>4, <2>2 DEF OneDirection
  <2> QED
    BY <2>1, <2>2
<1>8. ASSUME NEW k \in Handlers, handler'[k] # Idle
      PROVE  /\ handler[k] # Idle
             /\ << handler'[k].file, handler'[k].topic, handler'[k].role >> =
                << handler[k].file, handler[k].topic, handler[k].role >>
             /\ RoleOf[k] # "both" => handler'[k].role = RoleOf[k]
             /\ handler'[k].topic = "convert-requested" => handler'[k].role = "convert"
             /\ handler'[k].role = "convert" => Asked(handler[k].file)
  BY <1>5, <1>6, <1>8 DEF OneDirection
<1>9. ASSUME NEW k \in Handlers, handler'[k] # Idle
      PROVE  handler'[k].role = "convert" => Len(outbox'[handler'[k].file]["convert-requested"]) > 0
  <2>1. PICK g \in Files : g = handler[k].file
    BY <1>8, <1>9, Phases DEF Frame, Delivery
  <2> QED
    BY <1>3, <1>8, <1>9, <2>1 DEF Asked
<1>10. ASSUME NEW k \in Handlers, handler'[k].phase = "working",
              handler'[k].role = "inspect",
              file'[handler'[k].file].claimedBy = InstanceOf[k]
       PROVE  ~(Len(outbox'[handler'[k].file]["convert-requested"]) > 0)
  <2>1. handler'[k] # Idle
    BY <1>10 DEF Idle
  <2>2. PICK g \in Files : g = handler[k].file
    BY <1>8, <2>1, Phases DEF Frame, Delivery
  <2>3. /\ handler'[k].file = g /\ handler[k].role = "inspect"
        /\ file'[g].claimedBy = InstanceOf[k] /\ InstanceOf[k] # NoOne
    BY <1>8, <1>10, <2>1, <2>2, PipelineAssumption, LeaseAssumption
  <2>4. ~Asked(g)'
    <3>1. CASE g # f
      <4>1. k # h
        BY <1>1, <2>2, <3>1
      <4>2. handler[k].phase = "working" /\ file[g].claimedBy = InstanceOf[k]
        BY <1>4, <1>6, <1>10, <2>3, <3>1, <4>1
      <4> QED
        BY <1>3, <1>8, <2>1, <2>2, <2>3, <3>1, <4>2 DEF OneDirection
    <3>2. CASE g = f /\ file'[f].claimedBy = file[f].claimedBy /\ (Asked(f)' <=> Asked(f))
      <4>1. CASE handler[k].phase = "working"
        BY <1>8, <2>1, <2>2, <2>3, <3>2, <4>1 DEF OneDirection
      <4>2. CASE handler[k].phase # "working"
        <5>1. k = h
          BY <1>6, <1>10, <4>2
        <5>2. ClaimFile(h)
          BY <1>10, <4>2, <5>1
             DEF Work, ClaimFile, ClaimRefused, ClaimExhausted, ClaimNacked,
                 InspectSucceeds, ConvertSucceeds, AttemptIsRetried,
                 AttemptIsFinal, AttemptPauses, Heartbeat, HandlerDies,
                 Idle, Frame, TypeOK
        <5>3. file[f].stage \in { "UPLOADED", "INSPECTING" }
          BY <1>1, <2>3, <5>1, <5>2 DEF ClaimFile, ClaimOutcome, CanClaim, Claimable
        <5> QED
          BY <3>2, <5>3 DEF OneDirection
      <4> QED
        BY <4>1, <4>2
    <3>3. CASE g = f /\ /\ file'[f].claimedBy = InstanceOf[h]
                        /\ handler[h].role = "inspect" => ~Asked(f)'
      <4>1. InstanceOf[k] = InstanceOf[h]
        BY <2>3, <3>3
      <4>2. CASE k = h
        BY <2>3, <3>3, <4>2
      <4>3. CASE k # h
        <5>1. RoleOf[k] = RoleOf[h] /\ RoleOf[k] # "both"
          BY <4>1, <4>3 DEF RoleSeparated
        <5>2. handler[k].role = RoleOf[k] /\ handler[h].role = RoleOf[h]
          BY <1>5, <1>8, <2>1, <5>1 DEF OneDirection
        <5> QED
          BY <2>3, <3>3, <5>1, <5>2
      <4> QED
        BY <4>2, <4>3
    <3> QED
      BY <1>2, <2>3, <3>1, <3>2, <3>3 DEF Onward
  <2> QED
    BY <2>3, <2>4 DEF Asked
<1> QED
  BY <1>7, <1>8, <1>9, <1>10 DEF OneDirection, Asked

\* The other steps neither hand a lease to anybody nor make a delivery work.
LEMMA OneDirectionKept ==
  ASSUME Frame, OneDirection, UNCHANGED handler,
         \A f \in Files :
           /\ Asked(f)' => file'[f].stage \in { "CONVERTING", "COMPLETED", "FAILED" }
           /\ file'[f].stage = "CONVERTING" => Asked(f)'
           /\ Asked(f) => Asked(f)'
           /\ \/ file'[f].claimedBy = NoOne
              \/ file'[f].claimedBy = file[f].claimedBy /\ (Asked(f)' <=> Asked(f))
  PROVE  OneDirection'
<1>1. ASSUME NEW k \in Handlers, handler[k] # Idle
      PROVE  /\ RoleOf[k] # "both" => handler[k].role = RoleOf[k]
             /\ handler[k].topic = "convert-requested" => handler[k].role = "convert"
             /\ handler[k].role = "convert" =>
                  Len(outbox'[handler[k].file]["convert-requested"]) > 0
             /\ /\ handler[k].phase = "working"
                /\ handler[k].role = "inspect"
                /\ file'[handler[k].file].claimedBy = InstanceOf[k]
                => ~(Len(outbox'[handler[k].file]["convert-requested"]) > 0)
  <2>1. PICK g \in Files : g = handler[k].file
    BY <1>1, Phases DEF Frame, Delivery
  <2>2. InstanceOf[k] # NoOne
    BY PipelineAssumption, LeaseAssumption
  <2>3. /\ handler[k].role = "convert" => Asked(g)'
        /\ /\ handler[k].phase = "working"
           /\ handler[k].role = "inspect"
           /\ file'[g].claimedBy = InstanceOf[k]
           => ~Asked(g)'
    BY <1>1, <2>1, <2>2 DEF OneDirection
  <2> QED
    BY <1>1, <2>1, <2>3 DEF OneDirection, Asked
<1> QED
  BY <1>1 DEF OneDirection, Asked

\* The sweep and the clock keep the direction: what they reclaim goes back to the
\* topic of the stage it was in.
LEMMA SweepOneDirection ==
  ASSUME Frame, OneDirection, NEW f \in Files, LeaseExpires(f) \/ Sweep(f)
  PROVE  OneDirection'
<1>1. TypeOK /\ file[f] \in FileRow /\ UNCHANGED handler
  BY DEF Frame, TypeOK, LeaseExpires, Sweep, SweepReclaims, SweepFails
<1>2. \A row : file' = [ file EXCEPT ![f] = row ] =>
        /\ file'[f] = row
        /\ \A g \in Files : g # f => file'[g] = file[g]
  BY DEF Frame, TypeOK
<1>3. ASSUME UNCHANGED outbox \/ \E t \in Topics : Enqueue(f, t)
      PROVE  /\ \A g \in Files : Asked(g) => Asked(g)'
             /\ \A g \in Files : g # f => (Asked(g)' <=> Asked(g))
             /\ UNCHANGED outbox \/ Enqueue(f, "file-uploaded") =>
                  (Asked(f)' <=> Asked(f))
             /\ Enqueue(f, "convert-requested") => Asked(f)'
  BY <1>1, <1>3, AskedOps
<1>4. CASE LeaseExpires(f)
  <2>1. UNCHANGED outbox /\ file' = [ file EXCEPT ![f] = [ file[f] EXCEPT !.lease = "expired" ] ]
    BY <1>4 DEF LeaseExpires
  <2>2. file'[f].stage = file[f].stage /\ file'[f].claimedBy = file[f].claimedBy
    BY <1>1, <1>2, <2>1 DEF FileRow
  <2> QED
    BY <1>1, <1>2, <1>3, <2>1, <2>2, OneDirectionKept DEF OneDirection
<1>5. CASE SweepReclaims(f)
  <2> DEFINE back == IF file[f].stage = "INSPECTING" THEN "UPLOADED" ELSE "CONVERTING"
  <2>1. /\ file[f].stage \in { "INSPECTING", "CONVERTING" }
        /\ file' = [ file EXCEPT ![f] = [ file[f] EXCEPT
             !.stage = back, !.claimedBy = NoOne, !.lease = "none" ] ]
        /\ Enqueue(f, TopicForStage(back))
    BY <1>5 DEF SweepReclaims, Abandoned
  <2>2. file'[f].stage = back /\ file'[f].claimedBy = NoOne
    <3> HIDE DEF back
    <3>1. file'[f] = [ file[f] EXCEPT !.stage = back, !.claimedBy = NoOne,
                                      !.lease = "none" ]
      BY <1>2, <2>1
    <3> QED
      BY <1>1, <3>1 DEF FileRow
  <2>3. CASE file[f].stage = "INSPECTING"
    <3>1. ~Asked(f) /\ back = "UPLOADED" /\ Enqueue(f, "file-uploaded")
      BY <2>1, <2>3 DEF OneDirection, TopicForStage
    <3>2. /\ \A g \in Files : Asked(g) => Asked(g)'
          /\ \A g \in Files : g # f => (Asked(g)' <=> Asked(g))
          /\ Asked(f)' <=> Asked(f)
      BY <1>3, <3>1 DEF Topics
    <3> QED
      BY <1>1, <1>2, <2>1, <2>2, <3>1, <3>2, OneDirectionKept DEF OneDirection
  <2>4. CASE file[f].stage = "CONVERTING"
    <3>1. back = "CONVERTING" /\ Enqueue(f, "convert-requested")
      BY <2>1, <2>4 DEF TopicForStage
    <3>2. /\ \A g \in Files : Asked(g) => Asked(g)'
          /\ \A g \in Files : g # f => (Asked(g)' <=> Asked(g))
          /\ Asked(f)'
      BY <1>3, <3>1 DEF Topics
    <3> QED
      BY <1>1, <1>2, <2>1, <2>2, <3>1, <3>2, OneDirectionKept DEF OneDirection
  <2> QED
    BY <2>1, <2>3, <2>4
<1>6. CASE SweepFails(f)
  <2>1. UNCHANGED outbox /\ file' = [ file EXCEPT ![f] = FailTables(Fail(file[f])) ]
    BY <1>6 DEF SweepFails
  <2>2. file'[f].stage = "FAILED" /\ file'[f].claimedBy = NoOne
    <3>1. file'[f] = FailTables(Fail(file[f]))
      BY <1>2, <2>1
    <3> QED
      BY <1>1, <3>1 DEF FileRow, Fail, FailTables
  <2> QED
    BY <1>1, <1>2, <1>3, <2>1, <2>2, OneDirectionKept DEF OneDirection
<1> QED
  BY <1>4, <1>5, <1>6 DEF Sweep

\* The relay and the broker keep the direction: a delivery that takes a
\* convert-requested message is about a file whose conversion was asked for.
LEMMA QueueOneDirection ==
  ASSUME Frame, Frame', OneDirection, NEW f \in Files, NEW t \in Topics,
         \/ \E i \in DOMAIN outbox[f][t] : Relay(f, t, i)
         \/ \E i \in inflight[f][t] : Broker(f, t, i)
  PROVE  OneDirection'
<1>1. ASSUME NEW i \in DOMAIN outbox[f][t], Relay(f, t, i) PROVE OneDirection'
  <2>1. UNCHANGED handler
    BY <1>1 DEF Relay, RelayPublishes, RelayPublishesUnrecorded,
                RelayRetriesLater, RelayGivesUp
  <2>2. \A g \in Files : Asked(g)' <=> Asked(g)
    <3>1. \A r : outbox' = [ outbox EXCEPT ![f][t][i] = r ] =>
            \A g \in Files, u \in Topics : DOMAIN outbox[g][u] = DOMAIN outbox'[g][u]
      BY DEF Frame, TypeOK
    <3>2. RelayRetriesLater(f, t, i) =>
            outbox' = [ outbox EXCEPT ![f][t][i] =
              [ outbox[f][t][i] EXCEPT !.attempts = @ + 1 ] ]
      BY DEF RelayRetriesLater
    <3>3. \A g \in Files, u \in Topics : DOMAIN outbox[g][u] = DOMAIN outbox'[g][u]
      BY <1>1, <3>1, <3>2 DEF Relay, RelayPublishes, RelayPublishesUnrecorded,
                              RelayGivesUp
    <3>4. \A g \in Files, u \in Topics :
            outbox[g][u] \in Seq(OutboxRow) /\ outbox'[g][u] \in Seq(OutboxRow)
      BY DEF Frame, TypeOK
    <3>5. \A g \in Files, u \in Topics : Len(outbox[g][u]) = Len(outbox'[g][u])
      BY <3>3, <3>4
    <3> QED
      BY <3>5 DEF Asked, Topics
  <2>3. ASSUME NEW g \in Files
        PROVE  \/ file'[g] = file[g]
               \/ file'[g].stage = "FAILED" /\ file'[g].claimedBy = NoOne
    <3>1. CASE UNCHANGED file
      BY <3>1
    <3>2. CASE RelayGivesUp(f, t, i)
      BY <3>2 DEF RelayGivesUp, Fail, Frame, TypeOK, FileRow
    <3> QED
      BY <1>1, <3>1, <3>2 DEF Relay, RelayPublishes, RelayPublishesUnrecorded,
                              RelayRetriesLater
  <2>4. \A g \in Files :
          /\ Asked(g)' => file'[g].stage \in { "CONVERTING", "COMPLETED", "FAILED" }
          /\ file'[g].stage = "CONVERTING" => Asked(g)'
          /\ Asked(g) => Asked(g)'
          /\ \/ file'[g].claimedBy = NoOne
             \/ file'[g].claimedBy = file[g].claimedBy /\ (Asked(g)' <=> Asked(g))
    BY <2>2, <2>3 DEF OneDirection
  <2> QED
    BY <2>1, <2>4, OneDirectionKept
<1>2. ASSUME NEW i \in inflight[f][t], Broker(f, t, i) PROVE OneDirection'
  <2>1. UNCHANGED << file, outbox >>
    BY <1>2 DEF Broker, Receive, ReceiveNothingToDo, BrokerDropsMessage
  <2>2. CASE UNCHANGED handler
    BY <2>1, <2>2 DEF OneDirection, Asked
  <2>3. ASSUME NEW h \in Handlers, Receive(h, f, t, i) PROVE OneDirection'
    <3>1. PICK r \in ResolvedRoles(h, f) : handler' = [ handler EXCEPT ![h] =
            [ phase |-> "received", file |-> f, topic |-> t, id |-> i,
              role |-> r, attempts |-> 0, beats |-> FALSE ] ]
      BY <2>3 DEF Receive
    <3>2. /\ handler'[h] = [ phase |-> "received", file |-> f, topic |-> t, id |-> i,
                             role |-> r, attempts |-> 0, beats |-> FALSE ]
          /\ \A k \in Handlers : k # h => handler'[k] = handler[k]
      BY <3>1 DEF Frame, TypeOK
    <3>3. t = "convert-requested" => Asked(f)
      <4>1. i \in DOMAIN outbox[f][t] /\ outbox[f][t] \in Seq(OutboxRow)
        BY DEF Frame, TypeOK
      <4> QED
        BY <4>1 DEF Asked
    <3>4. /\ RoleOf[h] # "both" => r = RoleOf[h]
          /\ t = "convert-requested" => r = "convert"
          /\ r = "convert" => Asked(f)
      <4>1. /\ RoleOf[h] \in { RoleForTopic(t), "both" }
            /\ r \in Roles
        BY <2>3, PipelineAssumption DEF Receive, ResolvedRoles
      <4>2. CASE RoleOf[h] = "both"
        <5>1. file[f].stage \in Claimable(r)
          BY <4>2 DEF ResolvedRoles
        <5>2. CASE r = "convert"
          BY <4>2, <5>1, <5>2 DEF Claimable, OneDirection
        <5>3. CASE r # "convert"
          BY <3>3, <4>1, <4>2, <5>1, <5>3 DEF Roles, Claimable, OneDirection
        <5> QED
          BY <5>2, <5>3
      <4>3. CASE RoleOf[h] # "both"
        BY <3>3, <4>1, <4>3 DEF ResolvedRoles, RoleForTopic, Topics
      <4> QED
        BY <4>2, <4>3
    <3>5. ASSUME NEW k \in Handlers, handler'[k] # Idle
          PROVE  /\ RoleOf[k] # "both" => handler'[k].role = RoleOf[k]
                 /\ handler'[k].topic = "convert-requested" =>
                      handler'[k].role = "convert"
                 /\ handler'[k].role = "convert" =>
                      Len(outbox[handler'[k].file]["convert-requested"]) > 0
                 /\ /\ handler'[k].phase = "working"
                    /\ handler'[k].role = "inspect"
                    /\ file[handler'[k].file].claimedBy = InstanceOf[k]
                    => ~(Len(outbox[handler'[k].file]["convert-requested"]) > 0)
      <4>1. CASE k = h
        BY <3>2, <3>4, <4>1 DEF Asked
      <4>2. CASE k # h
        BY <3>2, <3>5, <4>2 DEF OneDirection, Asked
      <4> QED
        BY <4>1, <4>2
    <3> QED
      BY <2>1, <3>5 DEF OneDirection, Asked
  <2> QED
    BY <1>2, <2>2, <2>3 DEF Broker, ReceiveNothingToDo, BrokerDropsMessage
<1> QED
  BY <1>1, <1>2

\* The API keeps the direction: only the commit of convert asks, and only of rows
\* that no inspection holds.
LEMMA ApiOneDirection ==
  ASSUME Frame, Frame', OneDirection, NEW c \in Callers, Api(c)
  PROVE  OneDirection'
<1>1. UNCHANGED handler
  BY DEF Api, ConfirmRead, ConfirmArrived, ConfirmMissing, ConvertGate,
         ConvertMove, ConvertCommit, PublishInline, MarkInline, CallDies
<1>2. ASSUME UNCHANGED << file, outbox >> PROVE OneDirection'
  BY <1>1, <1>2 DEF OneDirection, Asked
<1>3. CASE ConfirmArrived(c)
  <2>1. PICK f \in Files : f = call[c].file
    BY <1>3, Phases DEF Frame, ConfirmArrived, ConfirmCall
  <2>2. /\ Enqueue(f, "file-uploaded")
        /\ file' = [ file EXCEPT ![f].stage =
                       IF @ = "UPLOADING" THEN "UPLOADED" ELSE @ ]
    BY <1>3, <2>1 DEF ConfirmArrived
  <2>3. \A g \in Files : Asked(g)' <=> Asked(g)
    <3>1. UNCHANGED outbox \/ \E t \in Topics : Enqueue(f, t)
      BY <2>2 DEF Topics
    <3> QED
      BY <2>2, <3>1, AskedOps DEF Frame
  <2>4. \A g \in Files :
          /\ file'[g].claimedBy = file[g].claimedBy
          /\ \/ file'[g].stage = file[g].stage
             \/ file[g].stage = "UPLOADING" /\ file'[g].stage = "UPLOADED"
    BY <2>2 DEF Frame, TypeOK, FileRow
  <2>5. \A g \in Files :
          /\ Asked(g)' => file'[g].stage \in { "CONVERTING", "COMPLETED", "FAILED" }
          /\ file'[g].stage = "CONVERTING" => Asked(g)'
    BY <2>3, <2>4 DEF OneDirection
  <2> QED
    BY <1>1, <2>3, <2>4, <2>5, OneDirectionKept
<1>4. CASE ConfirmMissing(c)
  <2>1. call[c].file \in Files
    BY <1>4, Phases DEF Frame, ConfirmMissing, ConfirmCall
  <2>2. \A g \in Files :
          /\ file'[g].claimedBy = file[g].claimedBy
          /\ file'[g].stage = file[g].stage \/ file'[g].stage = "FAILED"
    BY <1>4, <2>1 DEF ConfirmMissing, Frame, TypeOK, FileRow
  <2>3. \A g \in Files : Asked(g)' <=> Asked(g)
    BY <1>4 DEF ConfirmMissing, Asked
  <2>4. \A g \in Files :
          /\ Asked(g)' => file'[g].stage \in { "CONVERTING", "COMPLETED", "FAILED" }
          /\ file'[g].stage = "CONVERTING" => Asked(g)'
    BY <2>2, <2>3 DEF OneDirection
  <2> QED
    BY <1>1, <2>2, <2>3, <2>4, OneDirectionKept
<1>5. CASE ConvertCommit(c)
  <2> DEFINE t == "convert-requested"
             moved == call[c].moved
  <2>1. \A f \in moved : f \in Files /\ file[f].stage = "SCHEMA_READY"
    BY <1>5, Phases DEF Frame, LocksHold, ConvertCommit, ConvertCall
  <2>2. \A f \in Files :
          /\ f \in moved => /\ file'[f].stage = "CONVERTING"
                            /\ file'[f].claimedBy = file[f].claimedBy
          /\ f \notin moved => file'[f] = file[f]
    BY <1>5 DEF ConvertCommit, Frame, TypeOK, FileRow
  <2>3. \A f \in Files :
          /\ f \in moved => Asked(f)'
          /\ f \notin moved => (Asked(f)' <=> Asked(f))
    <3>1. t \in Topics
      BY DEF Topics
    <3>2. \A f \in Files : Len(outbox[f][t]) \in Nat
      BY <3>1 DEF Frame, TypeOK
    <3>3. \A f \in Files :
            /\ f \in moved => Len(outbox'[f][t]) = Len(outbox[f][t]) + 1
            /\ f \notin moved => outbox'[f][t] = outbox[f][t]
      BY <1>5, <3>1, CommitOps DEF Frame
    <3> QED
      BY <3>2, <3>3 DEF Asked
  <2>4. \A f \in moved : file[f].claimedBy = NoOne
    BY <2>1 DEF Frame, LeaseShape, RowShape
  <2>5. \A f \in Files :
          /\ Asked(f)' => file'[f].stage \in { "CONVERTING", "COMPLETED", "FAILED" }
          /\ file'[f].stage = "CONVERTING" => Asked(f)'
          /\ Asked(f) => Asked(f)'
          /\ \/ file'[f].claimedBy = NoOne
             \/ file'[f].claimedBy = file[f].claimedBy /\ (Asked(f)' <=> Asked(f))
    BY <2>2, <2>3, <2>4 DEF OneDirection
  <2> QED
    BY <1>1, <2>5, OneDirectionKept
<1>6. CASE MarkInline(c)
  <2>1. \A f \in Files, t \in Topics : Len(outbox'[f][t]) = Len(outbox[f][t])
    BY <1>6, MarkOps DEF Frame
  <2>2. \A f \in Files : Asked(f)' <=> Asked(f)
    BY <2>1 DEF Asked, Topics
  <2>3. UNCHANGED file
    BY <1>6 DEF MarkInline
  <2> QED
    BY <1>1, <2>2, <2>3, OneDirectionKept DEF OneDirection
<1> QED
  BY <1>2, <1>3, <1>4, <1>5, <1>6
     DEF Api, ConfirmRead, ConvertGate, ConvertMove, PublishInline, CallDies

\* Every step keeps the direction.
LEMMA NextOneDirection ==
  ASSUME RoleSeparated
  PROVE  Frame /\ OneDirection /\ [Next]_vars => OneDirection'
<1> SUFFICES ASSUME Frame, OneDirection, [Next]_vars PROVE OneDirection'
  OBVIOUS
<1>1. Frame'
  BY NextFrame
<1>2. CASE UNCHANGED vars
  BY <1>2 DEF vars, OneDirection, Asked
<1>3. CASE Next
  BY <1>1, <1>3, ApiOneDirection, QueueOneDirection, WorkOneDirection,
     SweepOneDirection DEF Next
<1> QED
  BY <1>2, <1>3

\* No step takes a row out of the outbox.
LEMMA OutboxGrows ==
  ASSUME Frame, Frame', [Next]_vars
  PROVE  \A g \in Files, u \in Topics : DOMAIN outbox[g][u] \subseteq DOMAIN outbox'[g][u]
<1>1. CASE UNCHANGED outbox
  BY <1>1
<1>2. ASSUME NEW c \in Callers, Api(c)
      PROVE  \A g \in Files, u \in Topics : DOMAIN outbox[g][u] \subseteq DOMAIN outbox'[g][u]
  <2>1. CASE ConfirmArrived(c)
    <3>1. PICK f \in Files : f = call[c].file
      BY <2>1, Phases DEF Frame, ConfirmArrived, ConfirmCall
    <3>2. \E t \in Topics : Enqueue(f, t)
      BY <2>1, <3>1 DEF ConfirmArrived, Topics
    <3> QED
      BY <3>2, EnqueueGrows DEF Frame
  <2>2. CASE ConvertCommit(c)
    BY <2>2, CommitOps DEF Frame
  <2>3. CASE MarkInline(c)
    BY <2>3, MarkOps DEF Frame
  <2> QED
    BY <1>1, <1>2, <2>1, <2>2, <2>3
       DEF Api, ConfirmRead, ConfirmMissing, ConvertGate, ConvertMove,
           PublishInline, CallDies
<1>3. ASSUME NEW f \in Files, NEW t \in Topics,
             NEW i \in DOMAIN outbox[f][t], Relay(f, t, i)
      PROVE  \A g \in Files, u \in Topics : DOMAIN outbox[g][u] \subseteq DOMAIN outbox'[g][u]
  <2>1. \A r : outbox' = [ outbox EXCEPT ![f][t][i] = r ] =>
          \A g \in Files, u \in Topics : DOMAIN outbox[g][u] = DOMAIN outbox'[g][u]
    BY DEF Frame, TypeOK
  <2>2. RelayRetriesLater(f, t, i) =>
          outbox' = [ outbox EXCEPT ![f][t][i] =
            [ outbox[f][t][i] EXCEPT !.attempts = @ + 1 ] ]
    BY DEF RelayRetriesLater
  <2> QED
    BY <1>1, <1>3, <2>1, <2>2 DEF Relay, RelayPublishes, RelayPublishesUnrecorded,
                                  RelayGivesUp
<1>4. ASSUME NEW f \in Files, NEW t \in Topics,
             NEW i \in inflight[f][t], Broker(f, t, i)
      PROVE  UNCHANGED outbox
  BY <1>4 DEF Broker, Receive, ReceiveNothingToDo, BrokerDropsMessage
<1>5. ASSUME NEW h \in Handlers, Work(h)
      PROVE  \A g \in Files, u \in Topics : DOMAIN outbox[g][u] \subseteq DOMAIN outbox'[g][u]
  <2>1. PICK f \in Files : f = handler[h].file
    BY <1>5, WorkSteps DEF Frame, Delivery
  <2>2. UNCHANGED outbox \/ \E t \in Topics : Enqueue(f, t)
    BY <1>5, <2>1, WorkSteps DEF Frame
  <2> QED
    BY <2>2, EnqueueGrows DEF Frame
<1>6. ASSUME NEW f \in Files, LeaseExpires(f) \/ Sweep(f)
      PROVE  UNCHANGED outbox \/ \E t \in Topics : Enqueue(f, t)
  BY <1>6 DEF LeaseExpires, Sweep, SweepReclaims, SweepFails, TopicForStage, Topics
<1>7. ASSUME NEW f \in Files, LeaseExpires(f) \/ Sweep(f)
      PROVE  \A g \in Files, u \in Topics : DOMAIN outbox[g][u] \subseteq DOMAIN outbox'[g][u]
  BY <1>6, <1>7, EnqueueGrows DEF Frame
<1> QED
  BY <1>1, <1>2, <1>3, <1>4, <1>5, <1>7 DEF Next, vars

\* What has been asked stays asked.
LEMMA AskedStays ==
  ASSUME Frame, Frame', [Next]_vars, NEW f \in Files, Asked(f)
  PROVE  Asked(f)'
<1> DEFINE t == "convert-requested"
<1>1. t \in Topics
  BY DEF Topics
<1>2. outbox[f][t] \in Seq(OutboxRow) /\ outbox'[f][t] \in Seq(OutboxRow)
  BY <1>1 DEF Frame, TypeOK
<1>3. 1 \in DOMAIN outbox[f][t]
  BY <1>2 DEF Asked
<1>4. 1 \in DOMAIN outbox'[f][t]
  BY <1>1, <1>3, OutboxGrows
<1> QED
  BY <1>2, <1>4 DEF Asked

\* A completed row has no holder, so the statements that ask for one leave it.
LEMMA CompletedWork ==
  ASSUME Frame, NEW h \in Handlers, Work(h), NEW f \in Files,
         f = handler[h].file, file[f].stage = "COMPLETED"
  PROVE  file'[f].stage \in { "COMPLETED", "FAILED" }
<1> DEFINE d == handler[h]
           inst == InstanceOf[h]
<1>1. /\ d.role \in Roles /\ file[f] \in FileRow
      /\ inst # NoOne /\ file[f].claimedBy = NoOne
      /\ \A row : file' = [ file EXCEPT ![f] = row ] => file'[f] = row
  <2>1. d \in Delivery /\ TypeOK /\ RowShape(file[f])
    BY WorkSteps DEF Frame, LeaseShape
  <2> QED
    BY <2>1, PipelineAssumption, LeaseAssumption DEF Delivery, TypeOK, RowShape
<1>2. CASE UNCHANGED file
  BY <1>2
<1>3. CASE file' = [ file EXCEPT ![f] = FailTables(Fail(@)) ]
  <2>1. file'[f] = FailTables(Fail(file[f]))
    BY <1>1, <1>3
  <2> QED
    BY <1>1, <2>1 DEF FailTables, Fail, FileRow
<1>4. ~ClaimFile(h)
  BY DEF ClaimFile, ClaimOutcome, CanClaim, Claimable
<1>5. CASE InspectSucceeds(h)
  <2> DEFINE row == Complete(SeedTables(file[f]), inst, "SCHEMA_READY")
  <2>1. row.stage = "COMPLETED"
    BY <1>1 DEF Complete, SeedTables, FileRow
  <2>2. file' = [ file EXCEPT ![f] = row ]
    BY <1>5, <2>1 DEF InspectSucceeds, Chained
  <2> HIDE DEF row
  <2> QED
    BY <1>1, <2>1, <2>2
<1>6. CASE ConvertSucceeds(h)
  <2>1. file'[f] = Complete(FinishTables(file[f]), inst, "COMPLETED")
    BY <1>1, <1>6 DEF ConvertSucceeds
  <2> QED
    BY <1>1, <2>1 DEF Complete, FinishTables, FileRow
<1>7. CASE AttemptIsRetried(h) \/ AttemptPauses(h)
  <2>1. file'[f] = Release(file[f], inst, BackTo(d.role))
    BY <1>1, <1>7 DEF AttemptIsRetried, AttemptPauses
  <2> QED
    BY <1>1, <2>1 DEF Release
<1>8. CASE Heartbeat(h)
  <2>1. file'[f] = Renew(file[f], inst)
    BY <1>1, <1>8 DEF Heartbeat
  <2> QED
    BY <1>1, <2>1 DEF Renew
<1> QED
  BY <1>2, <1>3, <1>4, <1>5, <1>6, <1>7, <1>8
     DEF Work, ClaimRefused, ClaimExhausted, ClaimNacked, AttemptIsFinal,
         HandlerDies

\* No step takes a completed file anywhere but to FAILED.
LEMMA CompletedStays ==
  ASSUME Frame, [Next]_vars, NEW f \in Files, file[f].stage = "COMPLETED"
  PROVE  file'[f].stage \in { "COMPLETED", "FAILED" }
<1>1. /\ file[f] \in FileRow
      /\ \A g \in Files : \A row : file' = [ file EXCEPT ![g] = row ] =>
           /\ file'[g] = row
           /\ g # f => file'[f] = file[f]
  BY DEF Frame, TypeOK
<1>2. CASE UNCHANGED file
  BY <1>2
<1>3. ASSUME NEW c \in Callers, Api(c)
      PROVE  file'[f].stage \in { "COMPLETED", "FAILED" }
  <2>1. CASE ConfirmArrived(c)
    BY <2>1 DEF ConfirmArrived, Frame, TypeOK, FileRow
  <2>2. CASE ConfirmMissing(c)
    BY <2>2 DEF ConfirmMissing, Frame, TypeOK, FileRow
  <2>3. CASE ConvertCommit(c)
    <3>1. f \notin call[c].moved
      BY <2>3 DEF ConvertCommit, Frame, LocksHold
    <3> QED
      BY <2>3, <3>1 DEF ConvertCommit
  <2> QED
    BY <1>2, <1>3, <2>1, <2>2, <2>3
       DEF Api, ConfirmRead, ConvertGate, ConvertMove, PublishInline,
           MarkInline, CallDies
<1>4. ASSUME NEW g \in Files, NEW t \in Topics,
             NEW i \in DOMAIN outbox[g][t], Relay(g, t, i)
      PROVE  file'[f].stage \in { "COMPLETED", "FAILED" }
  <2>1. CASE RelayGivesUp(g, t, i)
    BY <1>1, <2>1 DEF RelayGivesUp, Fail, Frame, TypeOK, FileRow
  <2> QED
    BY <1>2, <1>4, <2>1 DEF Relay, RelayPublishes, RelayPublishesUnrecorded,
                            RelayRetriesLater
<1>5. ASSUME NEW g \in Files, NEW t \in Topics,
             NEW i \in inflight[g][t], Broker(g, t, i)
      PROVE  file'[f].stage \in { "COMPLETED", "FAILED" }
  BY <1>2, <1>5 DEF Broker, Receive, ReceiveNothingToDo, BrokerDropsMessage
<1>6. ASSUME NEW h \in Handlers, Work(h)
      PROVE  file'[f].stage \in { "COMPLETED", "FAILED" }
  <2>1. CASE f = handler[h].file
    BY <1>6, <2>1, CompletedWork
  <2>2. CASE f # handler[h].file
    <3>1. file'[f] = file[f]
      BY <1>1, <1>6, <2>2, WorkSteps DEF RowStep, Frame
    <3> QED
      BY <3>1
  <2> QED
    BY <2>1, <2>2
<1>7. ASSUME NEW g \in Files, LeaseExpires(g) \/ Sweep(g)
      PROVE  file'[f].stage \in { "COMPLETED", "FAILED" }
  <2>1. CASE g = f
    BY <1>7, <2>1 DEF LeaseExpires, Sweep, SweepReclaims, SweepFails, Abandoned,
                      Frame, LeaseShape, RowShape
  <2>2. CASE g # f
    BY <1>7, <2>2 DEF LeaseExpires, Sweep, SweepReclaims, SweepFails, Frame, TypeOK
  <2> QED
    BY <2>1, <2>2
<1> QED
  BY <1>2, <1>3, <1>4, <1>5, <1>6, <1>7 DEF Next, vars

\* Once a file is in conversion it never goes back to inspection, and once it is
\* completed nobody works on it again, whatever the deliveries, retries and
\* expired leases: the claimed_by predicate of leases.complete and release is
\* enough, provided that deliveries which share an identity serve one topic.
THEOREM NoReturn == ASSUME RoleSeparated PROVE Spec => NoWayBack
<1> DEFINE Inv == Frame /\ OneDirection
           Step == \A f \in Files :
             /\ file[f].stage = "CONVERTING" =>
                  file'[f].stage \in { "CONVERTING", "COMPLETED", "FAILED" }
             /\ file[f].stage = "COMPLETED" =>
                  file'[f].stage \in { "COMPLETED", "FAILED" }
<1>1. Init => Inv
  BY InitFrame, InitOneDirection
<1>2. Inv /\ [Next]_vars => Inv'
  BY NextFrame, NextOneDirection
<1>3. Inv /\ Inv' /\ [Next]_vars => Step
  <2> SUFFICES ASSUME Inv, Inv', [Next]_vars, NEW f \in Files
               PROVE  /\ file[f].stage = "CONVERTING" =>
                           file'[f].stage \in { "CONVERTING", "COMPLETED", "FAILED" }
                      /\ file[f].stage = "COMPLETED" =>
                           file'[f].stage \in { "COMPLETED", "FAILED" }
    OBVIOUS
  <2>1. Asked(f) => Asked(f)'
    BY AskedStays
  <2>2. ASSUME file[f].stage = "CONVERTING"
        PROVE  file'[f].stage \in { "CONVERTING", "COMPLETED", "FAILED" }
    BY <2>1, <2>2 DEF OneDirection
  <2> QED
    BY <2>2, CompletedStays
<1> QED
  BY <1>1, <1>2, <1>3, PTL DEF Spec, NoWayBack

-----------------------------------------------------------------------------
(* FileLife.  The pipeline keeps its promises.                             *)

\* One API call at a time: with two confirms of one file in progress, the second
\* may fail a file that is being inspected and leave it its lease.
OneCaller == \A c, d \in Callers : c = d

\* A file that is still arriving is nobody's and nowhere queued, and the confirm
\* in progress is about such a file; none is arriving once Convert has passed its
\* gate; and nobody holds a failed file.
Early ==
  /\ \A f \in Files :
       /\ file[f].stage = "UPLOADING" => \A t \in Topics : DOMAIN outbox[f][t] = {}
       /\ file[f].stage = "FAILED" => file[f].claimedBy = NoOne
  /\ \A c \in Callers :
       call[c].phase = "statting" => file[call[c].file].stage = "UPLOADING"
  /\ converted \/ (\E c \in Callers : call[c].phase \in { "gated", "moving" }) =>
       \A f \in Files : file[f].stage # "UPLOADING"

\* What a step may do to the stage of file f.
Allowed(f) ==
  LET from == file[f].stage
      to   == file'[f].stage IN
  \/ to = from
  \/ to = "FAILED"
  \/ from = "UPLOADING" /\ to = "UPLOADED"
  \/ from = "UPLOADED" /\ to = "INSPECTING"
  \/ from = "INSPECTING" /\ to = "UPLOADED"
  \/ from = "INSPECTING" /\ to = IF converted THEN "CONVERTING" ELSE "SCHEMA_READY"
  \/ from = "SCHEMA_READY" /\ to = "CONVERTING" /\ converted
  \/ from = "CONVERTING" /\ to = "COMPLETED"

-----------------------------------------------------------------------------
\* A step that writes one row, and does to its stage what is allowed, is a step
\* of FileLife.
LEMMA OneFile ==
  ASSUME TypeOK, Early, NEW f \in Files, UNCHANGED converted, Allowed(f),
         \A g \in Files : g # f => file'[g] = file[g]
  PROVE  [Life!LifeNext]_(Life!lifeVars)
<1> DEFINE st == [ g \in Files |-> file[g].stage ]
           stP == [ g \in Files |-> file'[g].stage ]
<1>1. stP = [ st EXCEPT ![f] = file'[f].stage ] /\ st[f] = file[f].stage
  OBVIOUS
<1>2. CASE file'[f].stage = file[f].stage
  <2>1. stP = st
    BY <1>2
  <2> QED
    BY <2>1 DEF Life!lifeVars
<1>3. CASE file'[f].stage # file[f].stage /\ file'[f].stage = "FAILED"
  <2>1. Life!Fails(f)
    BY <1>1, <1>3 DEF Life!Fails, Life!Moves
  <2> QED
    BY <2>1 DEF Life!LifeNext
<1>4. CASE file[f].stage = "SCHEMA_READY" /\ file'[f].stage = "CONVERTING" /\ converted
  <2>1. Life!IsConverted({f})
    <3>1. \A g \in Files : st[g] # "UPLOADING"
      BY <1>4 DEF Early
    <3>2. \A g \in {f} : st[g] = "SCHEMA_READY"
      BY <1>4
    <3>3. stP = [ g \in Files |-> IF g \in {f} THEN "CONVERTING" ELSE st[g] ]
      BY <1>4
    <3> QED
      BY <1>4, <3>1, <3>2, <3>3 DEF Life!IsConverted
  <2>2. {f} \in SUBSET Files
    OBVIOUS
  <2> QED
    BY <2>1, <2>2 DEF Life!LifeNext
<1>5. CASE file[f].stage = "UPLOADING" /\ file'[f].stage = "UPLOADED"
  <2>1. Life!Arrives(f)
    BY <1>1, <1>5 DEF Life!Arrives, Life!Moves
  <2> QED
    BY <2>1 DEF Life!LifeNext
<1>6. CASE file[f].stage = "UPLOADED" /\ file'[f].stage = "INSPECTING"
  <2>1. Life!IsInspected(f)
    BY <1>1, <1>6 DEF Life!IsInspected, Life!Moves
  <2> QED
    BY <2>1 DEF Life!LifeNext
<1>7. CASE file[f].stage = "INSPECTING" /\ file'[f].stage = "UPLOADED"
  <2>1. Life!IsGivenBack(f)
    BY <1>1, <1>7 DEF Life!IsGivenBack, Life!Moves
  <2> QED
    BY <2>1 DEF Life!LifeNext
<1>8. CASE /\ file[f].stage = "INSPECTING"
           /\ file'[f].stage = IF converted THEN "CONVERTING" ELSE "SCHEMA_READY"
  <2>1. Life!ShapeLands(f)
    BY <1>1, <1>8 DEF Life!ShapeLands, Life!Moves
  <2> QED
    BY <2>1 DEF Life!LifeNext
<1>9. CASE file[f].stage = "CONVERTING" /\ file'[f].stage = "COMPLETED"
  <2>1. Life!Completes(f)
    BY <1>1, <1>9 DEF Life!Completes, Life!Moves
  <2> QED
    BY <2>1 DEF Life!LifeNext
<1> QED
  BY <1>2, <1>3, <1>4, <1>5, <1>6, <1>7, <1>8, <1>9 DEF Allowed

\* An action of a delivery does to its file what is allowed: the delivery that
\* holds the row inspects or converts it as its stage says, and the one that does
\* not hold it can only fail it, or carry on a shape that Convert has missed.
LEMMA WorkAllowed ==
  ASSUME Frame, OneDirection, Early, NEW h \in Handlers, Work(h),
         NEW f \in Files, f = handler[h].file
  PROVE  Allowed(f) /\ (file'[f].stage = "FAILED" => file'[f].claimedBy = NoOne)
<1> DEFINE d == handler[h]
           inst == InstanceOf[h]
<1>1. /\ d \in Delivery /\ d.role \in Roles /\ d # Idle
      /\ file[f] \in FileRow /\ RowShape(file[f])
      /\ inst \in Instances /\ inst # NoOne
      /\ \A row : file' = [ file EXCEPT ![f] = row ] => file'[f] = row
  <2>1. d \in Delivery /\ TypeOK
    BY WorkSteps DEF Frame
  <2> QED
    BY <2>1, Phases, PipelineAssumption, LeaseAssumption
       DEF Delivery, Idle, Frame, TypeOK, LeaseShape
<1>2. file[f].stage = "FAILED" => file[f].claimedBy = NoOne
  BY DEF Early
<1>3. ASSUME d.phase = "working", file[f].claimedBy = inst
      PROVE  file[f].stage = IF d.role = "inspect" THEN "INSPECTING" ELSE "CONVERTING"
  <2>1. file[f].stage \in { "INSPECTING", "CONVERTING" }
    BY <1>1, <1>2, <1>3 DEF RowShape
  <2>2. CASE d.role = "inspect"
    BY <1>1, <1>3, <2>1, <2>2 DEF OneDirection
  <2>3. CASE d.role = "convert"
    BY <1>1, <1>3, <2>1, <2>3 DEF OneDirection
  <2> QED
    BY <1>1, <2>2, <2>3 DEF Roles
<1>4. CASE UNCHANGED file
  BY <1>2, <1>4 DEF Allowed
<1>5. CASE file' = [ file EXCEPT ![f] = FailTables(Fail(@)) ]
  <2>1. file'[f] = FailTables(Fail(file[f]))
    BY <1>1, <1>5
  <2> QED
    BY <1>1, <2>1 DEF Allowed, FailTables, Fail, FileRow
<1>6. CASE ClaimFile(h)
  <2>1. CanClaim(file[f], d.role) /\ file'[f] = Claim(file[f], d.role, inst)
    BY <1>1, <1>6 DEF ClaimFile, ClaimOutcome
  <2>2. file'[f].stage = ClaimTarget(d.role)
    BY <1>1, <2>1 DEF Claim, FileRow
  <2> QED
    BY <1>1, <2>1, <2>2 DEF Allowed, CanClaim, Claimable, ClaimTarget, Roles
<1>7. CASE InspectSucceeds(h)
  <2> DEFINE row == Complete(SeedTables(file[f]), inst, "SCHEMA_READY")
  <2>1. /\ row.stage = IF file[f].claimedBy = inst THEN "SCHEMA_READY"
                                                   ELSE file[f].stage
        /\ row.claimedBy = IF file[f].claimedBy = inst THEN NoOne
                                                       ELSE file[f].claimedBy
        /\ row \in FileRow
    BY <1>1 DEF Complete, SeedTables, FileRow, Stages, TableStages
  <2>2. /\ d.phase = "working" /\ d.role = "inspect"
        /\ Chained(row) => file' = [ file EXCEPT ![f] =
                                       [ row EXCEPT !.stage = "CONVERTING" ] ]
        /\ ~Chained(row) => file' = [ file EXCEPT ![f] = row ]
    BY <1>7 DEF InspectSucceeds
  <2> HIDE DEF row
  <2>3. file'[f].stage = IF Chained(row) THEN "CONVERTING" ELSE row.stage
    BY <1>1, <2>1, <2>2 DEF FileRow
  <2>4. file'[f].stage = "FAILED" => file'[f].claimedBy = NoOne
    BY <1>1, <1>2, <2>1, <2>2, <2>3
  <2>5. CASE file[f].claimedBy = inst
    <3>1. file[f].stage = "INSPECTING"
      BY <1>3, <2>2, <2>5
    <3> QED
      BY <2>1, <2>3, <2>4, <2>5, <3>1 DEF Chained, Allowed
  <2>6. CASE file[f].claimedBy # inst
    BY <2>1, <2>3, <2>4, <2>6 DEF Chained, Allowed
  <2> QED
    BY <2>5, <2>6
<1>8. CASE ConvertSucceeds(h)
  <2>1. /\ d.phase = "working" /\ d.role = "convert"
        /\ file'[f] = Complete(FinishTables(file[f]), inst, "COMPLETED")
    BY <1>1, <1>8 DEF ConvertSucceeds
  <2>2. /\ file'[f].stage = IF file[f].claimedBy = inst THEN "COMPLETED"
                                                        ELSE file[f].stage
        /\ file[f].claimedBy # inst => file'[f].claimedBy = file[f].claimedBy
    BY <1>1, <2>1 DEF Complete, FinishTables, FileRow
  <2> QED
    BY <1>2, <1>3, <2>1, <2>2 DEF Allowed
<1>9. CASE AttemptIsRetried(h) \/ AttemptPauses(h)
  <2>1. d.phase = "working" /\ file'[f] = Release(file[f], inst, BackTo(d.role))
    BY <1>1, <1>9 DEF AttemptIsRetried, AttemptPauses
  <2>2. /\ file'[f].stage = IF file[f].claimedBy = inst THEN BackTo(d.role)
                                                        ELSE file[f].stage
        /\ file[f].claimedBy # inst => file'[f].claimedBy = file[f].claimedBy
    BY <1>1, <2>1 DEF Release, FileRow
  <2> QED
    BY <1>1, <1>2, <1>3, <2>1, <2>2 DEF Allowed, BackTo, Roles
<1>10. CASE Heartbeat(h)
  <2>1. file'[f] = Renew(file[f], inst)
    BY <1>1, <1>10 DEF Heartbeat
  <2>2. file'[f].stage = file[f].stage /\ file'[f].claimedBy = file[f].claimedBy
    BY <1>1, <2>1 DEF Renew, FileRow
  <2> QED
    BY <1>2, <2>2 DEF Allowed
<1> QED
  BY <1>4, <1>5, <1>6, <1>7, <1>8, <1>9, <1>10
     DEF Work, ClaimRefused, ClaimExhausted, ClaimNacked, AttemptIsFinal,
         HandlerDies

\* What a step that leaves the API calls alone must do to one file to keep Early.
LEMMA EarlyKept ==
  ASSUME Frame, Early, UNCHANGED << converted, call >>, NEW f \in Files,
         file[f].stage # "UPLOADING", file'[f].stage # "UPLOADING",
         file'[f].stage = "FAILED" => file'[f].claimedBy = NoOne,
         \A g \in Files : g # f => /\ file'[g] = file[g]
                                   /\ \A t \in Topics : DOMAIN outbox'[g][t] = DOMAIN outbox[g][t]
  PROVE  Early'
<1>1. ASSUME NEW g \in Files
      PROVE  /\ file'[g].stage = "UPLOADING" => \A t \in Topics : DOMAIN outbox'[g][t] = {}
             /\ file'[g].stage = "FAILED" => file'[g].claimedBy = NoOne
             /\ file'[g].stage = "UPLOADING" <=> file[g].stage = "UPLOADING"
  BY DEF Early
<1>2. ASSUME NEW c \in Callers, call[c].phase = "statting"
      PROVE  file'[call[c].file].stage = "UPLOADING"
  BY <1>1, <1>2, Phases DEF Early, Frame, ConfirmCall
<1> QED
  BY <1>1, <1>2 DEF Early

\* The deliveries keep the promises.
LEMMA WorkLife ==
  ASSUME Frame, OneDirection, Early, NEW h \in Handlers, Work(h)
  PROVE  [Life!LifeNext]_(Life!lifeVars) /\ Early'
<1>1. PICK f \in Files : f = handler[h].file
  BY WorkSteps DEF Frame, Delivery
<1>2. /\ \A g \in Files : g # f => file'[g] = file[g]
      /\ UNCHANGED << converted, call >>
  BY <1>1, WorkSteps DEF RowStep, Finished, Frame, TypeOK
<1>3. \A g \in Files : g # f =>
        \A t \in Topics : DOMAIN outbox'[g][t] = DOMAIN outbox[g][t]
  <2>1. UNCHANGED outbox \/ \E t \in Topics : Enqueue(f, t)
    BY <1>1, WorkSteps DEF Frame
  <2> QED
    BY <2>1, EnqueueOps DEF Frame, TypeOK
<1>4. file[f].stage # "UPLOADING"
  <2>1. handler[h] # Idle /\ handler[h] \in Delivery
    BY WorkSteps, Phases DEF Delivery, Idle, Frame
  <2>2. handler[h].topic \in Topics /\ DOMAIN outbox[f][handler[h].topic] # {}
    BY <1>1, <2>1 DEF Frame, RowsExist, Delivery
  <2> QED
    BY <2>2 DEF Early
<1>5. Allowed(f) /\ (file'[f].stage = "FAILED" => file'[f].claimedBy = NoOne)
  BY <1>1, WorkAllowed
<1>6. file'[f].stage # "UPLOADING"
  BY <1>4, <1>5 DEF Allowed
<1> QED
  BY <1>2, <1>3, <1>4, <1>5, <1>6, OneFile, EarlyKept DEF Frame

\* The sweep and the clock keep the promises.
LEMMA SweepLife ==
  ASSUME Frame, Early, NEW f \in Files, LeaseExpires(f) \/ Sweep(f)
  PROVE  [Life!LifeNext]_(Life!lifeVars) /\ Early'
<1>1. /\ file[f] \in FileRow
      /\ \A row : file' = [ file EXCEPT ![f] = row ] =>
           /\ file'[f] = row
           /\ \A g \in Files : g # f => file'[g] = file[g]
  BY DEF Frame, TypeOK
<1>2. file[f].stage \in { "INSPECTING", "CONVERTING" }
  <2>1. file[f].lease # "none" => file[f].stage \in { "INSPECTING", "CONVERTING" }
    BY DEF Frame, LeaseShape, RowShape, Early
  <2> QED
    BY <2>1 DEF LeaseExpires, Sweep, SweepReclaims, SweepFails, Abandoned
<1>3. /\ UNCHANGED << converted, call >>
      /\ UNCHANGED outbox \/ \E t \in Topics : Enqueue(f, t)
  BY DEF LeaseExpires, Sweep, SweepReclaims, SweepFails, TopicForStage, Topics
<1>4. \A g \in Files : g # f =>
        \A t \in Topics : DOMAIN outbox'[g][t] = DOMAIN outbox[g][t]
  BY <1>3, EnqueueOps DEF Frame, TypeOK
<1>5. /\ \A g \in Files : g # f => file'[g] = file[g]
      /\ Allowed(f) /\ file'[f].stage # "UPLOADING"
      /\ file'[f].stage = "FAILED" => file'[f].claimedBy = NoOne
  <2>1. CASE LeaseExpires(f)
    <3>1. file' = [ file EXCEPT ![f] = [ file[f] EXCEPT !.lease = "expired" ] ]
      BY <2>1 DEF LeaseExpires
    <3> QED
      BY <1>1, <1>2, <3>1 DEF FileRow, Allowed
  <2>2. CASE SweepReclaims(f)
    <3> DEFINE back == IF file[f].stage = "INSPECTING" THEN "UPLOADED" ELSE "CONVERTING"
               row == [ file[f] EXCEPT !.stage = back, !.claimedBy = NoOne,
                                       !.lease = "none" ]
    <3>1. file' = [ file EXCEPT ![f] = row ]
      BY <2>2 DEF SweepReclaims
    <3>2. row.stage = back
      BY <1>1 DEF FileRow
    <3> HIDE DEF row
    <3> QED
      BY <1>1, <1>2, <3>1, <3>2 DEF Allowed
  <2>3. CASE SweepFails(f)
    <3> DEFINE row == FailTables(Fail(file[f]))
    <3>1. file' = [ file EXCEPT ![f] = row ]
      BY <2>3 DEF SweepFails
    <3>2. row.stage = "FAILED" /\ row.claimedBy = NoOne
      BY <1>1 DEF FileRow, Fail, FailTables
    <3> HIDE DEF row
    <3> QED
      BY <1>1, <3>1, <3>2 DEF Allowed
  <2> QED
    BY <2>1, <2>2, <2>3 DEF Sweep
<1> QED
  BY <1>2, <1>3, <1>4, <1>5, OneFile, EarlyKept DEF Frame

\* The relay and the broker keep the promises: only a row given up fails its
\* file, and a file that has a row is not arriving.
LEMMA QueueLife ==
  ASSUME Frame, Early, NEW f \in Files, NEW t \in Topics,
         \/ \E i \in DOMAIN outbox[f][t] : Relay(f, t, i)
         \/ \E i \in inflight[f][t] : Broker(f, t, i)
  PROVE  [Life!LifeNext]_(Life!lifeVars) /\ Early'
<1>1. CASE UNCHANGED << file, converted, outbox, call >>
  BY <1>1 DEF Early, Life!lifeVars
<1>2. ASSUME NEW i \in inflight[f][t], Broker(f, t, i)
      PROVE  UNCHANGED << file, converted, outbox, call >>
  BY <1>2 DEF Broker, Receive, ReceiveNothingToDo, BrokerDropsMessage
<1>3. ASSUME NEW i \in DOMAIN outbox[f][t], Relay(f, t, i)
      PROVE  [Life!LifeNext]_(Life!lifeVars) /\ Early'
  <2>1. file[f].stage # "UPLOADING" /\ file[f] \in FileRow
    BY <1>3 DEF Early, Frame, TypeOK
  <2>2. UNCHANGED << converted, call >>
    BY <1>3 DEF Relay, RelayPublishes, RelayPublishesUnrecorded,
                RelayRetriesLater, RelayGivesUp
  <2>3. \A r : outbox' = [ outbox EXCEPT ![f][t][i] = r ] =>
          \A g \in Files, u \in Topics : DOMAIN outbox'[g][u] = DOMAIN outbox[g][u]
    BY DEF Frame, TypeOK
  <2>4. \A g \in Files, u \in Topics : DOMAIN outbox'[g][u] = DOMAIN outbox[g][u]
    <3>1. RelayRetriesLater(f, t, i) =>
            outbox' = [ outbox EXCEPT ![f][t][i] =
              [ outbox[f][t][i] EXCEPT !.attempts = @ + 1 ] ]
      BY DEF RelayRetriesLater
    <3> QED
      BY <1>3, <2>3, <3>1 DEF Relay, RelayPublishes, RelayPublishesUnrecorded,
                              RelayGivesUp
  <2>5. /\ \A g \in Files : g # f => file'[g] = file[g]
        /\ file'[f] = file[f] \/ file'[f] = Fail(file[f])
    BY <1>3 DEF Frame, TypeOK, Relay, RelayPublishes, RelayPublishesUnrecorded,
                RelayRetriesLater, RelayGivesUp
  <2>6. /\ Allowed(f) /\ file'[f].stage # "UPLOADING"
        /\ file'[f].stage = "FAILED" => file'[f].claimedBy = NoOne
    BY <2>1, <2>5 DEF Early, Allowed, Fail, FileRow
  <2> QED
    BY <2>1, <2>2, <2>4, <2>5, <2>6, OneFile, EarlyKept DEF Frame
<1> QED
  BY <1>1, <1>2, <1>3

\* The API calls keep the promises: with one caller, the file a confirm has read
\* is still arriving when the object has been looked up.
LEMMA ApiLife ==
  ASSUME OneCaller, Frame, Early, NEW c \in Callers, Api(c)
  PROVE  [Life!LifeNext]_(Life!lifeVars) /\ Early'
<1>1. /\ \A d \in Callers : d = c
      /\ \A r : call' = [ call EXCEPT ![c] = r ] => call'[c] = r
  BY DEF OneCaller, Frame, TypeOK
<1>2. ASSUME UNCHANGED << file, converted >>,
             \A g \in Files, t \in Topics : DOMAIN outbox'[g][t] = DOMAIN outbox[g][t],
             call'[c].phase = "statting" => file[call'[c].file].stage = "UPLOADING",
             call'[c].phase \in { "gated", "moving" } =>
               \A g \in Files : file[g].stage # "UPLOADING"
      PROVE  [Life!LifeNext]_(Life!lifeVars) /\ Early'
  BY <1>1, <1>2 DEF Early, Life!lifeVars
<1>3. CASE UNCHANGED << file, converted, outbox >>
           /\ call'[c].phase \notin { "statting", "gated", "moving" }
  BY <1>2, <1>3
<1>4. ASSUME NEW f \in Files, ConfirmRead(c, f)
      PROVE  [Life!LifeNext]_(Life!lifeVars) /\ Early'
  <2>1. call'[c] = [ phase |-> "statting", file |-> f ]
    BY <1>1, <1>4 DEF ConfirmRead
  <2> QED
    BY <1>2, <1>4, <2>1 DEF ConfirmRead
<1>5. ASSUME call[c].phase = "statting", UNCHANGED converted,
             call'[c].phase \notin { "statting", "gated", "moving" },
             file'[call[c].file].stage \in { "UPLOADED", "FAILED" },
             file'[call[c].file].claimedBy = file[call[c].file].claimedBy,
             \A g \in Files : g # call[c].file =>
               /\ file'[g] = file[g]
               /\ \A t \in Topics : DOMAIN outbox'[g][t] = DOMAIN outbox[g][t]
      PROVE  [Life!LifeNext]_(Life!lifeVars) /\ Early'
  <2>1. PICK f \in Files : f = call[c].file
    BY <1>5, Phases DEF Frame, ConfirmCall
  <2>2. file[f].stage = "UPLOADING" /\ file[f].claimedBy = NoOne
    BY <1>5, <2>1 DEF Early, Frame, LeaseShape, RowShape, TypeOK, FileRow
  <2>3. Allowed(f)
    BY <1>5, <2>1, <2>2 DEF Allowed
  <2>4. [Life!LifeNext]_(Life!lifeVars)
    BY <1>5, <2>1, <2>3, OneFile DEF Frame
  <2>5. \A g \in Files :
          /\ file'[g].stage = "UPLOADING" => /\ file[g].stage = "UPLOADING"
                                            /\ g # f
          /\ file'[g].stage = "FAILED" => file'[g].claimedBy = NoOne
    BY <1>5, <2>1, <2>2 DEF Early
  <2> QED
    BY <1>1, <1>5, <2>1, <2>2, <2>4, <2>5 DEF Early
<1>6. CASE ConfirmArrived(c)
  <2>1. PICK f \in Files : f = call[c].file
    BY <1>6, Phases DEF Frame, ConfirmCall, ConfirmArrived
  <2>2. file[f].stage = "UPLOADING"
    BY <1>6, <2>1 DEF Early, ConfirmArrived
  <2>3. /\ file'[f].stage = "UPLOADED"
        /\ file'[f].claimedBy = file[f].claimedBy
        /\ \A g \in Files : g # f => file'[g] = file[g]
    <3>1. file' = [ file EXCEPT ![f].stage =
                      IF @ = "UPLOADING" THEN "UPLOADED" ELSE @ ]
      BY <1>6, <2>1 DEF ConfirmArrived
    <3> QED
      BY <2>2, <3>1 DEF Frame, TypeOK, FileRow
  <2>4. Enqueue(f, "file-uploaded") /\ UNCHANGED converted
    BY <1>6, <2>1 DEF ConfirmArrived
  <2>5. \A g \in Files : g # f =>
          \A t \in Topics : DOMAIN outbox'[g][t] = DOMAIN outbox[g][t]
    BY <2>4, EnqueueOps DEF Frame, TypeOK, Topics
  <2>6. call'[c].phase = "publishing"
    <3> DEFINE r == [ phase |-> "publishing", topic |-> "file-uploaded",
            rows |-> [ g \in Files |->
              IF g = f THEN Len(outbox[f]["file-uploaded"]) + 1 ELSE 0 ] ]
    <3>1. call' = [ call EXCEPT ![c] = r ]
      BY <1>6, <2>1 DEF ConfirmArrived
    <3>2. r.phase = "publishing"
      OBVIOUS
    <3> HIDE DEF r
    <3> QED
      BY <1>1, <3>1, <3>2
  <2> QED
    BY <1>5, <1>6, <2>1, <2>3, <2>4, <2>5, <2>6 DEF ConfirmArrived
<1>7. CASE ConfirmMissing(c)
  <2>1. PICK f \in Files : f = call[c].file
    BY <1>7, Phases DEF Frame, ConfirmCall, ConfirmMissing
  <2>2. /\ file'[f].stage = "FAILED"
        /\ file'[f].claimedBy = file[f].claimedBy
        /\ \A g \in Files : g # f => file'[g] = file[g]
    BY <1>7, <2>1 DEF ConfirmMissing, Frame, TypeOK, FileRow
  <2>3. call'[c].phase = "idle"
    BY <1>1, <1>7 DEF ConfirmMissing, Idle
  <2> QED
    BY <1>5, <1>7, <2>1, <2>2, <2>3 DEF ConfirmMissing
<1>8. CASE ConvertGate(c)
  <2>1. call'[c].phase = "gated" /\ UNCHANGED << file, converted, outbox >>
        /\ \A g \in Files : file[g].stage # "UPLOADING"
    BY <1>1, <1>8 DEF ConvertGate
  <2> QED
    BY <1>2, <2>1
<1>9. CASE ConvertMove(c)
  <2>1. call'[c].phase = "moving" /\ UNCHANGED << file, converted, outbox >>
    BY <1>1, <1>9 DEF ConvertMove
  <2>2. \A g \in Files : file[g].stage # "UPLOADING"
    BY <1>9 DEF ConvertMove, Early
  <2> QED
    BY <1>2, <2>1, <2>2
<1>10. CASE ConvertCommit(c)
  <2>0. PICK moved \in SUBSET Files : moved = call[c].moved
    BY <1>10, Phases DEF Frame, ConvertCommit, ConvertCall
  <2>1. /\ \A f \in moved : file[f].stage = "SCHEMA_READY"
        /\ \A f \in Files : file[f].stage # "UPLOADING"
    BY <1>10, <2>0 DEF Frame, LocksHold, ConvertCommit, Early
  <2>2. /\ \A f \in Files :
             /\ f \in moved => file'[f].stage = "CONVERTING"
             /\ f \notin moved => file'[f] = file[f]
        /\ converted' = TRUE
    BY <1>10, <2>0 DEF ConvertCommit, Frame, TypeOK, FileRow
  <2>3. call'[c].phase = "publishing"
    <3> DEFINE r == [ phase |-> "publishing", topic |-> "convert-requested",
            rows |-> [ f \in Files |->
              IF f \in moved THEN Len(outbox[f]["convert-requested"]) + 1 ELSE 0 ] ]
    <3>1. call' = [ call EXCEPT ![c] = r ]
      BY <1>10, <2>0 DEF ConvertCommit
    <3>2. r.phase = "publishing"
      OBVIOUS
    <3> HIDE DEF r
    <3> QED
      BY <1>1, <3>1, <3>2
  <2>4. Life!IsConverted(moved)
    BY <2>1, <2>2 DEF Life!IsConverted
  <2>5. Life!LifeNext
    BY <2>1, <2>4 DEF Life!LifeNext
  <2>6. Early'
    BY <1>1, <2>1, <2>2, <2>3 DEF Early
  <2> QED
    BY <2>5, <2>6
<1>11. CASE PublishInline(c)
  <2>1. call'[c].phase = "marking"
    <3>1. PICK sent \in SUBSET { f \in Files : call[c].rows[f] # 0 } :
            call' = [ call EXCEPT ![c] =
              [ phase |-> "marking", topic |-> call[c].topic,
                rows |-> [ f \in Files |->
                  IF f \in sent THEN call[c].rows[f] ELSE 0 ] ] ]
      BY <1>11 DEF PublishInline
    <3> DEFINE r == [ phase |-> "marking", topic |-> call[c].topic,
                      rows |-> [ f \in Files |->
                        IF f \in sent THEN call[c].rows[f] ELSE 0 ] ]
    <3>2. call' = [ call EXCEPT ![c] = r ] /\ r.phase = "marking"
      BY <3>1
    <3> HIDE DEF r
    <3> QED
      BY <1>1, <3>2
  <2> QED
    BY <1>3, <1>11, <2>1 DEF PublishInline
<1>12. CASE MarkInline(c)
  <2>1. \A g \in Files, t \in Topics : DOMAIN outbox'[g][t] = DOMAIN outbox[g][t]
    BY <1>12, MarkOps DEF Frame
  <2>2. call'[c].phase = "idle" /\ UNCHANGED << file, converted >>
    BY <1>1, <1>12 DEF MarkInline, Idle
  <2> QED
    BY <1>2, <2>1, <2>2
<1>13. CASE CallDies(c)
  BY <1>1, <1>3, <1>13 DEF CallDies, Idle
<1> QED
  BY <1>4, <1>6, <1>7, <1>8, <1>9, <1>10, <1>11, <1>12, <1>13 DEF Api

\* The pipeline implements FileLife for any number of files, deliveries and
\* attempts, if deliveries that share an identity serve one topic and API calls
\* are made one at a time: a failed file stays failed, no stale delivery moves a
\* file, and a shape that lands after Convert goes straight on.
THEOREM PipelineImplementsFileLife ==
  ASSUME RoleSeparated, OneCaller
  PROVE  Spec => ImplementsFileLife
<1> DEFINE Inv == Frame /\ OneDirection /\ Early
<1>1. Init => Inv /\ Life!LifeInit
  <2>1. Init => Early /\ Life!LifeInit
    BY DEF Init, Early, Life!LifeInit, NewFileRow, Idle
  <2> QED
    BY <2>1, InitFrame, InitOneDirection
<1>2. Inv /\ [Next]_vars => Inv' /\ [Life!LifeNext]_(Life!lifeVars)
  <2> SUFFICES ASSUME Inv, [Next]_vars
               PROVE  Inv' /\ [Life!LifeNext]_(Life!lifeVars)
    OBVIOUS
  <2>1. Frame' /\ OneDirection'
    BY NextFrame, NextOneDirection
  <2>2. CASE UNCHANGED vars
    <3>1. Early' /\ [Life!LifeNext]_(Life!lifeVars)
      BY <2>2 DEF vars, Early, Life!lifeVars
    <3> QED
      BY <2>1, <3>1
  <2>3. CASE Next
    <3>1. Early' /\ [Life!LifeNext]_(Life!lifeVars)
      BY <2>3, ApiLife, QueueLife, WorkLife, SweepLife DEF Next
    <3> QED
      BY <2>1, <3>1
  <2> QED
    BY <2>2, <2>3
<1> QED
  BY <1>1, <1>2, PTL DEF Spec, ImplementsFileLife, Life!LifeSpec

=============================================================================
