----------------------------- MODULE BatchProof -----------------------------
(***************************************************************************)
(* The files of a request in a browser tab: the proofs.                    *)
(*                                                                         *)
(* A file the worker has read is never read again (ServerGoes), so what a  *)
(* poll found of its tables is empty or all of them, whenever it arrives   *)
(* (PollHolds).  Whatever names a file, a row or a run or the memory on    *)
(* the disk, names one of its own name (StandsFor).  What is answered for  *)
(* is seen as arrived by every later query (GateInv).  But for the rows two*)
(* runs were at work on at once, there is one call that can make a row of a*)
(* name (WorkInv, SignInv), and what says Uploaded has arrived or has a    *)
(* confirm to come (UploadInv).                                            *)
(***************************************************************************)
EXTENDS Prepare, FiniteSetTheorems, TLAPS

\* No two files of the list have one name.
DistinctNames == \A f, g \in Files : NameOf[f] = NameOf[g] => f = g

FileNames == {NameOf[f] : f \in Files}
FileRow == [name : FileNames, stage : {"UPLOADING", "UPLOADED", "FAILED", "SCHEMA_READY"},
            stored : BOOLEAN, deleted : BOOLEAN, shapes : SUBSET Tables, blank : SUBSET Tables]
ScreenRow == [stage : {"none", "staged", "checking", "rejected", "uploading", "uploaded", "failed"},
              id : Nat, bytes : BOOLEAN]
RunRow == [kind : {"upload", "one", "lost"},
           at : {"idle", "signing", "planned", "replayed", "sending", "confirming"},
           id : [Files -> Nat],
           task : [Files -> {"none", "queued", "broken", "landed", "confirmed", "missed"}]]
IsPoll(p) ==
    /\ p = [at |-> p.at, n |-> p.n, received |-> p.received, files |-> p.files,
            shapes |-> p.shapes, stopped |-> p.stopped, exhausted |-> p.exhausted]
    /\ p.stopped \in BOOLEAN /\ p.exhausted \in BOOLEAN

\* A file has tables once it has been read.
ServerHolds ==
    /\ server \in Seq(FileRow)
    /\ \A i \in DOMAIN server :
          server[i].stage # "SCHEMA_READY" => server[i].shapes = {} /\ server[i].blank = {}

\* A file that has arrived, or been read, does not go back.
GoesOn(i) == /\ server[i].stage # "UPLOADING" => server'[i].stage # "UPLOADING"
             /\ server[i].stage \notin Reading => server'[i].stage \notin Reading

\* A step of the server: what a file is named, and what was read of it, stays.
ServerGoes ==
    /\ ServerHolds'
    /\ \A i \in DOMAIN server :
          /\ i \in DOMAIN server' /\ server'[i].name = server[i].name
          /\ server[i].deleted => server'[i].deleted
          /\ GoesOn(i)
          /\ server[i].stage = "SCHEMA_READY" =>
                /\ server'[i].stage = "SCHEMA_READY"
                /\ server'[i].shapes = server[i].shapes /\ server'[i].blank = server[i].blank

\* No file is discarded.
KeepsLive == \A i \in Live : i \in Live'

StandsFor(f, i) == i = 0 \/ (i \in DOMAIN server /\ server[i].name = NameOf[f])

RunsHold == /\ run \in [1..MaxRuns -> RunRow]
            /\ \A k \in 1..MaxRuns, f \in Files : StandsFor(f, run[k].id[f])
KeptHolds == kept \in [Files -> Nat] /\ \A f \in Files : StandsFor(f, kept[f])
RowsHold == /\ row \in [Files -> ScreenRow] /\ covered \in [Files -> Nat]
            /\ \A f \in Files : StandsFor(f, row[f].id) /\ StandsFor(f, covered[f])

Whole(i) == /\ i \in DOMAIN server /\ server[i].stage = "SCHEMA_READY"
            /\ \A t \in server[i].shapes \cup server[i].blank : <<i, t>> \in got \cup empty

\* The poll that has stopped covers what has landed, and has an answer for each
\* file it covered but those that are discarded.
Stopped ==
    /\ poll.stopped
    /\ Landed(row) = {} \/ LandedKey(row) = covered
    /\ ~poll.exhausted =>
          \A f \in Files : covered[f] # 0 => covered[f] \in SettledFileIds \/ server[covered[f]].deleted
FoundTrue(i, x) ==
    \/ x.shapes = {} /\ x.blank = {}
    \/ /\ server[i].stage = "SCHEMA_READY"
       /\ x.shapes = server[i].shapes /\ x.blank = server[i].blank
PollHolds ==
    /\ IsPoll(poll)
    /\ \A i \in DOMAIN poll.shapes : i \in DOMAIN server /\ FoundTrue(i, poll.shapes[i])
    /\ poll.at = "ended" => Stopped

BatchInv == /\ ServerHolds /\ RunsHold /\ KeptHolds /\ RowsHold /\ PollHolds
            /\ \A i \in Received : Whole(i)

-----------------------------------------------------------------------------
(***************************************************************************)
(* The server.                                                             *)
(***************************************************************************)
LEMMA FilesFinite == IsFiniteSet(Files) /\ \A S \in SUBSET Files : IsFiniteSet(S)
<1>1. IsFiniteSet(Files)
  BY FS_Interval, BatchAssumption DEF Files
<1> QED
  BY <1>1, FS_Subset

LEMMA SmallerPart ==
  ASSUME NEW A, IsFiniteSet(A), NEW B \in SUBSET A, NEW x \in A, x \notin B
  PROVE  Cardinality(A) # Cardinality(B)
BY FS_Subset

\* The new rows of a call are those of its names, in their order.
LEMMA NewRows ==
  ASSUME NEW U \in SUBSET Files
  PROVE  /\ Cardinality(U) \in Nat
         /\ \A f \in U : Cardinality({g \in U : g <= f}) \in 1..Cardinality(U)
         /\ \A n \in 1..Cardinality(U) : \E f \in U : Cardinality({g \in U : g <= f}) = n
         /\ \A f, h \in U : Cardinality({g \in U : g <= f}) = Cardinality({g \in U : g <= h}) => f = h
<1> DEFINE below(f) == {g \in U : g <= f}
           n == Cardinality(U)
           place == [f \in U |-> Cardinality(below(f))]
<1>1. IsFiniteSet(U) /\ n \in Nat
  BY FilesFinite, FS_CardinalityType
<1>2. U \subseteq Int
  BY DEF Files
<1>3. \A f \in U : IsFiniteSet(below(f)) /\ Cardinality(below(f)) \in Nat /\ Cardinality(below(f)) <= n
  <2>1. \A f \in U : below(f) \in SUBSET U
    OBVIOUS
  <2> QED
    BY <1>1, <2>1, FS_Subset, FS_CardinalityType
<1>4. \A f \in U : Cardinality(below(f)) \in 1..n
  <2> SUFFICES ASSUME NEW f \in U PROVE Cardinality(below(f)) # 0
    BY <1>1, <1>3
  <2>1. f \in below(f)
    BY <1>2
  <2> QED
    BY <1>3, <2>1, FS_EmptySet
<1>5. ASSUME NEW f \in U, NEW h \in U, Cardinality(below(f)) = Cardinality(below(h)) PROVE f = h
  <2>1. ASSUME NEW a \in U, NEW b \in U, a < b PROVE Cardinality(below(a)) # Cardinality(below(b))
    <3>1. a \in Int /\ b \in Int /\ \A g \in U : g <= a => g <= b
      BY <1>2, <2>1
    <3>2. below(a) \subseteq below(b)
      BY <3>1
    <3>4. b \in below(b) /\ b \notin below(a)
      BY <2>1, <3>1
    <3>3. IsFiniteSet(below(b))
      BY <1>3
    <3> HIDE DEF below
    <3> QED
      BY <3>2, <3>3, <3>4, SmallerPart
  <2> QED
    BY <1>2, <1>5, <2>1
<1>6. place \in Injection(U, 1..n)
  BY <1>4, <1>5 DEF Injection, IsInjective
<1>7. IsFiniteSet(1..n) /\ Cardinality(1..n) = n
  BY <1>1, FS_Interval
<1>8. place \in Surjection(U, 1..n)
  BY <1>6, <1>7, FS_Injection
<1>9. \A m \in 1..n : \E f \in U : Cardinality(below(f)) = m
  BY <1>8 DEF Surjection
<1> QED
  BY <1>1, <1>4, <1>5, <1>9

\* A name is without a row only if no live row bears it.
LEMMA UnpairedFacts ==
  ASSUME ServerHolds, DistinctNames, NEW S \in SUBSET Files
  PROVE  \A f \in S : f \in Unpaired(S) <=> Bearing(NameOf[f]) = {}
<1> SUFFICES ASSUME NEW f \in S PROVE Rank(S, f) > Cardinality(Bearing(NameOf[f])) <=> Bearing(NameOf[f]) = {}
  BY DEF Unpaired
<1>1. Rank(S, f) = 1
  <2>1. f \in S /\ f \in Files /\ f <= f /\ \A g \in S : g \in Files /\ (NameOf[g] = NameOf[f] => g = f)
    BY DEF DistinctNames, Files
  <2>2. {g \in S : g <= f /\ NameOf[g] = NameOf[f]} = {f}
    BY <2>1
  <2> QED
    BY <2>2, FS_Singleton DEF Rank
<1>2. IsFiniteSet(Bearing(NameOf[f]))
  <2>1. Bearing(NameOf[f]) \in SUBSET (1..Len(server)) /\ Len(server) \in Nat
    BY DEF Bearing, Live, ServerHolds
  <2>2. IsFiniteSet(1..Len(server))
    BY <2>1, FS_Interval
  <2> QED
    BY <2>1, <2>2, FS_Subset
<1> QED
  BY <1>1, <1>2, FS_CardinalityType, FS_EmptySet

\* createUploadUrls.
LEMMA CreatedGoes ==
  ASSUME ServerHolds, NEW U \in SUBSET Files, server' = Created(U)
  PROVE  /\ ServerGoes /\ KeepsLive
         /\ \A f \in U : /\ NewId(U, f) \in DOMAIN server' /\ NewId(U, f) \in Nat \ {0}
                         /\ server'[NewId(U, f)].name = NameOf[f]
         /\ \A i \in DOMAIN server : server'[i] = server[i]
         /\ \A i \in DOMAIN server' : i \in DOMAIN server \/ \E f \in U : i = NewId(U, f)
<1> DEFINE n == Len(server)
           place(f) == Cardinality({g \in U : g <= f})
<1>2. n \in Nat /\ DOMAIN server = 1..n
  BY DEF ServerHolds
<1>3. /\ Cardinality(U) \in Nat
      /\ \A f \in U : place(f) \in 1..Cardinality(U)
      /\ \A m \in 1..Cardinality(U) : \E f \in U : place(f) = m
      /\ \A f, h \in U : place(f) = place(h) => f = h
  BY NewRows
<1>4. \A f : NewId(U, f) = n + place(f)
  BY DEF NewId
<1> HIDE DEF place
<1>5. ASSUME NEW i \in (n + 1)..(n + Cardinality(U))
      PROVE  \E f \in U : NewId(U, f) = i /\ (CHOOSE g \in U : NewId(U, g) = i) = f
  <2>1. i - n \in 1..Cardinality(U)
    BY <1>2, <1>3
  <2>2. PICK f \in U : place(f) = i - n
    BY <1>3, <2>1
  <2>3. NewId(U, f) = i
    BY <1>2, <1>4, <2>2
  <2>4. \A g \in U : NewId(U, g) = i => g = f
    BY <1>2, <1>3, <1>4, <2>2
  <2> QED
    BY <2>3, <2>4
<1>6. /\ DOMAIN server' = 1..(n + Cardinality(U)) /\ server' = [i \in 1..(n + Cardinality(U)) |-> server'[i]]
      /\ \A i \in 1..n : i \in DOMAIN server' /\ server'[i] = server[i]
      /\ \A i \in (n + 1)..(n + Cardinality(U)) :
            i \in DOMAIN server' /\ server'[i] = NewFile(NameOf[CHOOSE g \in U : NewId(U, g) = i])
  BY <1>2, <1>3 DEF Created
<1>7. \A f \in U : /\ NewId(U, f) \in (n + 1)..(n + Cardinality(U))
                   /\ server'[NewId(U, f)] = NewFile(NameOf[f])
  <2> TAKE f \in U
  <2>1. NewId(U, f) \in (n + 1)..(n + Cardinality(U))
    BY <1>2, <1>3, <1>4
  <2>2. PICK g \in U : NewId(U, g) = NewId(U, f) /\ (CHOOSE h \in U : NewId(U, h) = NewId(U, f)) = g
    BY <1>5, <2>1
  <2>3. g = f
    BY <1>2, <1>3, <1>4, <2>2
  <2> QED
    BY <1>6, <2>1, <2>2, <2>3
<1>8. \A i \in (n + 1)..(n + Cardinality(U)) : \E f \in U : server'[i] = NewFile(NameOf[f])
  BY <1>5, <1>7
<1>9. \A f \in Files : /\ NewFile(NameOf[f]) \in FileRow /\ NewFile(NameOf[f]).name = NameOf[f]
                       /\ ~NewFile(NameOf[f]).deleted
                       /\ NewFile(NameOf[f]).shapes = {} /\ NewFile(NameOf[f]).blank = {}
  <2> TAKE f \in Files
  <2>1. PICK nm : nm = NameOf[f]
    OBVIOUS
  <2>2. nm \in FileNames
    BY <2>1 DEF FileNames
  <2>3. /\ NewFile(nm) \in FileRow /\ NewFile(nm).name = nm /\ ~NewFile(nm).deleted
        /\ NewFile(nm).shapes = {} /\ NewFile(nm).blank = {}
    <3>1. NewFile(nm) = [name |-> nm, stage |-> "UPLOADING", stored |-> FALSE, deleted |-> FALSE,
                         shapes |-> {}, blank |-> {}]
      BY DEF NewFile
    <3>2. NewFile(nm) \in FileRow
      BY <2>2, <3>1 DEF FileRow
    <3>3. ~NewFile(nm).deleted
      BY <3>1
    <3>4. NewFile(nm).name = nm /\ NewFile(nm).shapes = {} /\ NewFile(nm).blank = {}
      BY <3>1
    <3> QED
      BY <3>2, <3>3, <3>4
  <2> QED
    BY <2>1, <2>3
<1>10. \A i \in 1..(n + Cardinality(U)) : i \in 1..n \/ i \in (n + 1)..(n + Cardinality(U))
  BY <1>2, <1>3
<1>11. server' \in Seq(FileRow)
  <2>1. \A i \in 1..(n + Cardinality(U)) : server'[i] \in FileRow
    BY <1>2, <1>6, <1>8, <1>9, <1>10 DEF ServerHolds
  <2>2. server' \in [1..(n + Cardinality(U)) -> FileRow]
    BY <1>6, <2>1
  <2> QED
    BY <1>2, <1>3, <2>2
<1>12. \A i \in DOMAIN server' :
          server'[i].stage # "SCHEMA_READY" => server'[i].shapes = {} /\ server'[i].blank = {}
  <2> TAKE i \in DOMAIN server'
  <2>1. CASE i \in 1..n
    <3>1. i \in DOMAIN server /\ server'[i] = server[i]
      BY <1>2, <1>6, <2>1
    <3> QED
      BY <3>1 DEF ServerHolds
  <2>2. CASE i \in (n + 1)..(n + Cardinality(U))
    <3>1. PICK f \in U : server'[i] = NewFile(NameOf[f])
      BY <1>8, <2>2
    <3> QED
      BY <1>9, <3>1
  <2> QED
    BY <1>6, <1>10, <2>1, <2>2
<1>14. ServerHolds'
  BY <1>11, <1>12 DEF ServerHolds
<1>15. \A i \in DOMAIN server : i \in DOMAIN server' /\ server'[i] = server[i]
  BY <1>2, <1>6
<1>16. ServerGoes /\ KeepsLive
  BY <1>14, <1>15 DEF ServerGoes, GoesOn, KeepsLive, Live
<1>17. \A f \in U : NewId(U, f) \in DOMAIN server' /\ NewId(U, f) \in Nat \ {0}
  BY <1>2, <1>3, <1>6, <1>7
<1>18. \A i \in DOMAIN server' : i \in DOMAIN server \/ \E f \in U : i = NewId(U, f)
  <2> SUFFICES ASSUME NEW i \in DOMAIN server', i \notin DOMAIN server PROVE \E f \in U : i = NewId(U, f)
    OBVIOUS
  <2>1. i \in (n + 1)..(n + Cardinality(U))
    BY <1>2, <1>6, <1>10
  <2> QED
    BY <1>5, <2>1
<1> QED
  BY <1>7, <1>9, <1>15, <1>16, <1>17, <1>18

\* A step that leaves the list of files as long as it was.
LEMMA FilesGo ==
  ASSUME ServerHolds, server' = [i \in DOMAIN server |-> server'[i]],
         \A i \in DOMAIN server :
            /\ server'[i] \in FileRow /\ server'[i].name = server[i].name
            /\ (server[i].deleted => server'[i].deleted) /\ GoesOn(i)
            /\ server[i].stage = "SCHEMA_READY" =>
                  /\ server'[i].stage = "SCHEMA_READY"
                  /\ server'[i].shapes = server[i].shapes /\ server'[i].blank = server[i].blank
            /\ server'[i].stage # "SCHEMA_READY" => server'[i].shapes = {} /\ server'[i].blank = {}
  PROVE  ServerGoes
<1>1. DOMAIN server = 1..Len(server) /\ Len(server) \in Nat
  BY DEF ServerHolds
<1>2. DOMAIN server' = DOMAIN server
  OBVIOUS
<1>3. server' \in Seq(FileRow)
  <2>1. server' \in [1..Len(server) -> FileRow]
    BY <1>1, <1>2
  <2> QED
    BY <1>1, <2>1
<1>5. ServerHolds'
  BY <1>2, <1>3 DEF ServerHolds
<1> QED
  BY <1>2, <1>5 DEF ServerGoes

LEMMA ServerStays ==
  ASSUME ServerHolds, server' = server
  PROVE  ServerGoes /\ KeepsLive
BY DEF ServerGoes, ServerHolds, Live, GoesOn, KeepsLive

LEMMA AFile ==
  ASSUME ServerHolds, NEW i \in DOMAIN server
  PROVE  /\ server[i] \in FileRow
         /\ server[i].stage # "SCHEMA_READY" => server[i].shapes = {} /\ server[i].blank = {}
BY DEF ServerHolds

\* confirmUploads.
LEMMA ConfirmedGoes ==
  ASSUME ServerHolds, NEW ids, server' = Confirmed(ids)
  PROVE  /\ ServerGoes /\ KeepsLive
         /\ \A i \in DOMAIN server : i \in ids => server'[i].stage # "UPLOADING"
<1>1. server' = [i \in DOMAIN server |-> server'[i]]
  BY DEF Confirmed
<1>2. ASSUME NEW i \in DOMAIN server
      PROVE  /\ server'[i] \in FileRow /\ server'[i].name = server[i].name
             /\ server'[i].deleted = server[i].deleted /\ GoesOn(i)
             /\ i \in ids => server'[i].stage # "UPLOADING"
             /\ server[i].stage = "SCHEMA_READY" => server'[i] = server[i]
             /\ server'[i].shapes = server[i].shapes /\ server'[i].blank = server[i].blank
             /\ server'[i].stage # "SCHEMA_READY" => server[i].stage # "SCHEMA_READY"
  <2>1. PICK e \in FileRow : e = server[i]
    BY AFile
  <2>2. CASE i \in ids /\ e.stage = "UPLOADING"
    <3>1. server'[i] = [e EXCEPT !.stage = IF e.stored THEN "UPLOADED" ELSE "FAILED"]
      BY <2>1, <2>2 DEF Confirmed
    <3> QED
      BY <2>1, <2>2, <3>1 DEF FileRow, GoesOn, Reading
  <2>3. CASE ~(i \in ids /\ e.stage = "UPLOADING")
    <3>1. server'[i] = e
      BY <2>1, <2>3 DEF Confirmed
    <3> QED
      BY <2>1, <2>3, <3>1 DEF GoesOn
  <2> QED
    BY <2>2, <2>3
<1>3. ServerGoes
  BY <1>1, <1>2, AFile, FilesGo
<1>4. KeepsLive
  BY <1>1, <1>2 DEF KeepsLive, Live
<1> QED
  BY <1>2, <1>3, <1>4

\* The bytes arrive.
LEMMA StoredGoes ==
  ASSUME ServerHolds, NEW j, server' = [server EXCEPT ![j].stored = TRUE]
  PROVE  ServerGoes /\ KeepsLive
<1>1. server' = [i \in DOMAIN server |-> server'[i]]
  OBVIOUS
<1>2. ASSUME NEW i \in DOMAIN server
      PROVE  /\ server'[i] \in FileRow /\ server'[i].name = server[i].name
             /\ server'[i].deleted = server[i].deleted /\ server'[i].stage = server[i].stage
             /\ server'[i].shapes = server[i].shapes /\ server'[i].blank = server[i].blank
  <2>1. PICK e \in FileRow : e = server[i]
    BY AFile
  <2>2. server'[i] = (IF i = j THEN [e EXCEPT !.stored = TRUE] ELSE e)
    BY <2>1
  <2> QED
    BY <2>1, <2>2 DEF FileRow
<1>3. ServerGoes
  BY <1>1, <1>2, AFile, FilesGo DEF GoesOn
<1>4. KeepsLive
  BY <1>1, <1>2 DEF KeepsLive, Live
<1> QED
  BY <1>3, <1>4

\* The worker reads a file, once.
LEMMA InspectGoes ==
  ASSUME ServerHolds, NEW j \in DOMAIN server, Inspect(j)
  PROVE  ServerGoes /\ KeepsLive
<1>1. PICK e \in FileRow : e = server[j]
  BY AFile
<1>2. e.stage = "UPLOADED" /\ e.shapes = {} /\ e.blank = {}
  BY <1>1, AFile DEF Inspect
<1>3. PICK x \in FileRow : /\ server' = [server EXCEPT ![j] = x] /\ x.name = e.name
                           /\ x.deleted = e.deleted /\ x.stage # "UPLOADING"
                           /\ x.stage # "SCHEMA_READY" => x.shapes = {} /\ x.blank = {}
  <2>1. CASE server' = [server EXCEPT ![j].stage = "FAILED"]
    <3> DEFINE x == [e EXCEPT !.stage = "FAILED"]
    <3>1. x \in FileRow /\ x.name = e.name /\ x.deleted = e.deleted /\ x.stage = "FAILED" /\ x.shapes = {} /\ x.blank = {}
      BY <1>2 DEF FileRow
    <3>2. server' = [server EXCEPT ![j] = x]
      BY <1>1, <2>1
    <3> HIDE DEF x
    <3> QED
      BY <3>1, <3>2
  <2>2. ASSUME NEW y \in Yields,
               server' = [server EXCEPT ![j].stage = "SCHEMA_READY",
                                        ![j].shapes = y.shapes, ![j].blank = y.blank]
        PROVE  \E x \in FileRow : /\ server' = [server EXCEPT ![j] = x] /\ x.name = e.name
                                  /\ x.deleted = e.deleted /\ x.stage = "SCHEMA_READY"
    <3> DEFINE x == [e EXCEPT !.stage = "SCHEMA_READY", !.shapes = y.shapes, !.blank = y.blank]
    <3>1. y.shapes \in SUBSET Tables /\ y.blank \in SUBSET Tables
      BY DEF Tables
    <3>2. x \in FileRow /\ x.name = e.name /\ x.deleted = e.deleted /\ x.stage = "SCHEMA_READY"
      BY <3>1 DEF FileRow
    <3>3. server' = [server EXCEPT ![j] = x]
      BY <1>1, <2>2
    <3> HIDE DEF x
    <3> QED
      BY <3>2, <3>3
  <2> QED
    BY <2>1, <2>2 DEF Inspect
<1>4. server' = [i \in DOMAIN server |-> server'[i]] /\ server'[j] = x
      /\ \A i \in DOMAIN server \ {j} : server'[i] = server[i]
  BY <1>3
<1>5. \A i \in DOMAIN server : GoesOn(i)
  BY <1>1, <1>2, <1>3, <1>4 DEF GoesOn, Reading
<1>6. ServerGoes
  BY <1>1, <1>2, <1>3, <1>4, <1>5, AFile, FilesGo
<1>7. KeepsLive
  BY <1>1, <1>3, <1>4 DEF KeepsLive, Live
<1> QED
  BY <1>6, <1>7

\* discardFiles.
LEMMA DiscardedGoes ==
  ASSUME ServerHolds, NEW S, server' = Discarded(S)
  PROVE  /\ ServerGoes
         /\ \A i \in DOMAIN server : i \in S => server'[i].deleted
         /\ \A i \in Live : i \in Live' \/ i \in S
<1>1. server' = [i \in DOMAIN server |-> server'[i]]
  BY DEF Discarded
<1>2. ASSUME NEW i \in DOMAIN server
      PROVE  /\ server'[i] \in FileRow /\ server'[i].name = server[i].name
             /\ server'[i].deleted <=> server[i].deleted \/ i \in S
             /\ server'[i].stage = server[i].stage
             /\ server'[i].shapes = server[i].shapes /\ server'[i].blank = server[i].blank
  <2>1. PICK e \in FileRow : e = server[i]
    BY AFile
  <2>2. PICK d \in BOOLEAN : d = (e.deleted \/ i \in S)
    OBVIOUS
  <2>3. server'[i] = [e EXCEPT !.deleted = d]
    BY <2>1, <2>2 DEF Discarded
  <2> QED
    BY <2>1, <2>2, <2>3 DEF FileRow
<1>3. ServerGoes
  BY <1>1, <1>2, AFile, FilesGo DEF GoesOn
<1>4. \A i \in Live : i \in Live' \/ i \in S
  BY <1>1, <1>2 DEF Live
<1> QED
  BY <1>2, <1>3, <1>4

\* Rows are made by createUploadUrls alone.
LEMMA NoNewFiles ==
  ASSUME \/ server' = server
         \/ \E ids : server' = Confirmed(ids)
         \/ \E i : server' = [server EXCEPT ![i].stored = TRUE]
         \/ \E i : Inspect(i)
         \/ \E S : server' = Discarded(S)
  PROVE  DOMAIN server' = DOMAIN server
BY DEF Confirmed, Inspect, Discarded

-----------------------------------------------------------------------------
(***************************************************************************)
(* What names a file, over a step of the server.                           *)
(***************************************************************************)
LEMMA RunsStay ==
  ASSUME RunsHold, ServerGoes, run' = run
  PROVE  RunsHold'
BY DEF RunsHold, ServerGoes, StandsFor

LEMMA RunChanges ==
  ASSUME RunsHold, RowsHold, ServerGoes, NEW k \in 1..MaxRuns, NEW x \in RunRow,
         run' = [run EXCEPT ![k] = x],
         \A f \in Files : \/ x.id[f] \in {0, run[k].id[f], row[f].id}
                          \/ x.id[f] \in DOMAIN server' /\ server'[x.id[f]].name = NameOf[f]
  PROVE  RunsHold'
<1>1. run' \in [1..MaxRuns -> RunRow]
  BY DEF RunsHold
<1>2. ASSUME NEW j \in 1..MaxRuns, NEW f \in Files PROVE StandsFor(f, run[j].id[f])'
  <2>1. CASE j = k
    <3>1. run'[j] = x
      BY <2>1 DEF RunsHold
    <3>2. StandsFor(f, run[k].id[f]) /\ StandsFor(f, row[f].id)
      BY DEF RunsHold, RowsHold
    <3> QED
      BY <3>1, <3>2 DEF StandsFor, ServerGoes
  <2>2. CASE j # k
    <3>1. run'[j] = run[j] /\ StandsFor(f, run[j].id[f])
      BY <2>2 DEF RunsHold
    <3> QED
      BY <3>1 DEF StandsFor, ServerGoes
  <2> QED
    BY <2>1, <2>2
<1> QED
  BY <1>1, <1>2 DEF RunsHold

LEMMA KeptChanges ==
  ASSUME RunsHold, KeptHolds, ServerGoes, kept' = [f \in Files |-> kept'[f]],
         \A f \in Files : \/ kept'[f] \in {0, kept[f]}
                          \/ \E k \in 1..MaxRuns : kept'[f] = run[k].id[f]
  PROVE  KeptHolds'
<1>1. ASSUME NEW f \in Files PROVE kept'[f] \in Nat /\ StandsFor(f, kept[f])'
  <2>1. kept[f] \in Nat /\ StandsFor(f, kept[f])
    BY DEF KeptHolds
  <2>2. \A k \in 1..MaxRuns : run[k].id[f] \in Nat /\ StandsFor(f, run[k].id[f])
    BY DEF RunsHold, RunRow
  <2> QED
    BY <2>1, <2>2 DEF StandsFor, ServerGoes
<1> QED
  BY <1>1 DEF KeptHolds

LEMMA KeptStays ==
  ASSUME KeptHolds, ServerGoes, kept' = kept
  PROVE  KeptHolds'
BY DEF KeptHolds, ServerGoes, StandsFor

-----------------------------------------------------------------------------
(***************************************************************************)
(* What a render does to the poll.                                         *)
(***************************************************************************)
LEMMA NewPolls ==
  /\ \A n : IsPoll(Asking(n)) /\ Asking(n).at = "asking" /\ Asking(n).shapes = <<>>
  /\ IsPoll(PollOff) /\ PollOff.at = "off" /\ PollOff.shapes = <<>>
<1>1. ASSUME NEW n PROVE IsPoll(Asking(n)) /\ Asking(n).at = "asking" /\ Asking(n).shapes = <<>>
  <2>1. /\ Asking(n).at = "asking" /\ Asking(n).shapes = <<>> /\ Asking(n).stopped = FALSE
        /\ Asking(n).exhausted = FALSE
    BY DEF Asking
  <2>2. Asking(n) = [at |-> Asking(n).at, n |-> Asking(n).n, received |-> Asking(n).received,
                     files |-> Asking(n).files, shapes |-> Asking(n).shapes,
                     stopped |-> Asking(n).stopped, exhausted |-> Asking(n).exhausted]
    BY DEF Asking
  <2> QED
    BY <2>1, <2>2 DEF IsPoll
<1>2. PICK p : p = Asking(0)
  OBVIOUS
<1>3. IsPoll(p) /\ p.shapes = <<>> /\ PollOff = [p EXCEPT !.at = "off"]
  BY <1>1, <1>2 DEF PollOff
<1> QED
  BY <1>1, <1>3 DEF IsPoll

LEMMA PollWith ==
  ASSUME NEW p, IsPoll(p), NEW b \in BOOLEAN
  PROVE  /\ IsPoll([p EXCEPT !.stopped = b]) /\ [p EXCEPT !.stopped = b].at = p.at
         /\ [p EXCEPT !.stopped = b].stopped = b /\ [p EXCEPT !.stopped = b].shapes = p.shapes
BY DEF IsPoll

LEMMA RenderedFacts ==
  ASSUME NEW r, NEW p, IsPoll(p), Rendered(r, p), p.at = "ended" => p.stopped
  PROVE  /\ row' = r /\ IsPoll(poll') /\ covered' \in {covered, LandedKey(r)}
         /\ poll'.shapes \in {p.shapes, <<>>}
         /\ poll'.at = "ended" => /\ poll' = p /\ covered' = covered
                                  /\ Landed(r) = {} \/ LandedKey(r) = covered
<1> DEFINE on == IF ~PollEnabled(r) THEN [PollOff EXCEPT !.stopped = p.stopped]
                 ELSE IF p.at = "off" THEN [Asking(1) EXCEPT !.stopped = p.stopped]
                 ELSE p
           fresh == on.stopped /\ Landed(r) # {} /\ LandedKey(r) # covered
<1>1. /\ row' = r
      /\ poll' = IF fresh THEN (IF PollEnabled(r) THEN Asking(1) ELSE PollOff) ELSE on
      /\ covered' = IF fresh \/ ~on.stopped THEN LandedKey(r) ELSE covered
  BY DEF Rendered
<1>2. p.stopped \in BOOLEAN
  BY DEF IsPoll
<1>3. IsPoll(on) /\ on.shapes \in {p.shapes, <<>>} /\ (on.at = "ended" => on = p)
  BY <1>2, NewPolls, PollWith
<1>4. on.stopped \in BOOLEAN
  BY <1>3 DEF IsPoll
<1> HIDE DEF on
<1>5. CASE fresh
  BY <1>1, <1>3, <1>4, <1>5, NewPolls
<1>6. CASE ~fresh
  BY <1>1, <1>3, <1>4, <1>6
<1> QED
  BY <1>5, <1>6

LEMMA LandedFacts ==
  ASSUME NEW r \in [Files -> ScreenRow]
  PROVE  /\ LandedKey(r) \in [Files -> Nat]
         /\ \A f \in Files : LandedKey(r)[f] \in {0, r[f].id}
         /\ \A f \in Files : LandedKey(r)[f] # 0 => LandedKey(r)[f] \in Landed(r)
         /\ \A i \in Landed(r) : \E f \in Files : r[f].id = i /\ LandedKey(r)[f] = i /\ i # 0
<1>1. \A f \in Files : /\ r[f].id \in Nat
                       /\ LandedKey(r)[f] = (IF r[f].stage = "uploaded" THEN r[f].id ELSE 0)
  BY DEF LandedKey, ScreenRow
<1>2. LandedKey(r) \in [Files -> Nat]
  BY <1>1 DEF LandedKey
<1> QED
  BY <1>1, <1>2 DEF Landed

\* The list r is shown after a step of the server: rows keep their files, or take one
\* of their name, and an answer is taken away only with its file.
LEMMA Shown ==
  ASSUME RowsHold, PollHolds, ServerGoes, NEW r \in [Files -> ScreenRow], Rendered(r, poll),
         \A f \in Files : \/ r[f].id \in {0, row[f].id}
                          \/ r[f].id \in DOMAIN server' /\ server'[r[f].id].name = NameOf[f],
         \A i \in DOMAIN server : i \in SettledFileIds =>
            i \in SettledFileIds' \/ server'[i].deleted
  PROVE  RowsHold' /\ PollHolds'
<1>1. IsPoll(poll) /\ (poll.at = "ended" => poll.stopped)
  BY DEF PollHolds, Stopped
<1>2. /\ row' = r /\ IsPoll(poll') /\ covered' \in {covered, LandedKey(r)}
      /\ poll'.shapes \in {poll.shapes, <<>>}
      /\ poll'.at = "ended" => /\ poll' = poll /\ covered' = covered
                               /\ Landed(r) = {} \/ LandedKey(r) = covered
  BY <1>1, RenderedFacts
<1>3. \A f \in Files : /\ StandsFor(f, row[f].id) /\ StandsFor(f, covered[f])
                       /\ row[f].id \in Nat /\ covered[f] \in Nat
  BY DEF RowsHold, ScreenRow
<1>4. ASSUME NEW f \in Files PROVE StandsFor(f, r[f].id)'
  BY <1>3 DEF StandsFor, ServerGoes
<1>5. ASSUME NEW f \in Files, NEW c, c \in {0, covered[f], r[f].id} PROVE StandsFor(f, c)'
  BY <1>3, <1>4, <1>5 DEF StandsFor, ServerGoes
<1>6. RowsHold'
  <2>1. covered' \in [Files -> Nat] /\ \A f \in Files : covered'[f] \in {0, covered[f], r[f].id}
    BY <1>2, LandedFacts DEF RowsHold
  <2> QED
    BY <1>2, <1>4, <1>5, <2>1 DEF RowsHold, StandsFor
<1>7. (\A i \in DOMAIN poll.shapes : i \in DOMAIN server /\ FoundTrue(i, poll.shapes[i]))'
  <2>1. ASSUME NEW i \in DOMAIN poll.shapes, NEW x, x = poll.shapes[i]
        PROVE  i \in DOMAIN server' /\ FoundTrue(i, x)'
    BY <2>1 DEF PollHolds, FoundTrue, ServerGoes
  <2>2. CASE poll'.shapes = poll.shapes
    BY <2>1, <2>2 DEF FoundTrue
  <2>3. CASE poll'.shapes = <<>>
    BY <2>3
  <2> QED
    BY <1>2, <2>2, <2>3
<1>8. ASSUME poll'.at = "ended" PROVE Stopped'
  <2>1. /\ poll' = poll /\ covered' = covered /\ (Landed(r) = {} \/ LandedKey(r) = covered)
        /\ Stopped
    BY <1>2, <1>8 DEF PollHolds
  <2>2. ASSUME ~poll.exhausted, NEW f \in Files, covered[f] # 0
        PROVE  covered[f] \in SettledFileIds' \/ server'[covered[f]].deleted
    <3>1. PICK c \in Nat : c = covered[f] /\ c # 0 /\ c \in DOMAIN server
      BY <1>3, <2>2 DEF StandsFor
    <3>2. CASE c \in SettledFileIds
      BY <3>1, <3>2
    <3>3. CASE server[c].deleted
      BY <3>1, <3>3 DEF ServerGoes
    <3> QED
      BY <2>1, <2>2, <3>1, <3>2, <3>3 DEF Stopped
  <2>3. Landed(row') = {} \/ LandedKey(row') = covered'
    BY <1>2, <2>1
  <2> QED
    BY <2>1, <2>2, <2>3 DEF Stopped, Landed, LandedKey
<1> QED
  BY <1>2, <1>6, <1>7, <1>8 DEF PollHolds

LEMMA WholeStays ==
  ASSUME \A i \in Received : Whole(i), ServerGoes, UNCHANGED <<got, empty>>
  PROVE  \A i \in Received' : Whole(i)'
BY DEF Received, Whole, ServerGoes

\* The same where the answers stay as they are, and where nothing is rendered.
LEMMA ShownAgain ==
  ASSUME BatchInv, ServerGoes, NEW r \in [Files -> ScreenRow], Rendered(r, poll), UNCHANGED screen,
         \A f \in Files : \/ r[f].id \in {0, row[f].id}
                          \/ r[f].id \in DOMAIN server' /\ server'[r[f].id].name = NameOf[f]
  PROVE  RowsHold' /\ PollHolds' /\ \A i \in Received' : Whole(i)'
<1>1. UNCHANGED <<got, wont, empty>>
  BY DEF screen
<1>2. SettledFileIds' = SettledFileIds
  BY <1>1 DEF SettledFileIds, Received
<1> QED
  BY <1>1, <1>2, Shown, WholeStays DEF BatchInv

LEMMA ScreenStays ==
  ASSUME BatchInv, ServerGoes, UNCHANGED <<row, screen, poll, covered>>
  PROVE  RowsHold' /\ PollHolds' /\ \A i \in Received' : Whole(i)'
<1>1. UNCHANGED <<got, wont, empty>>
  BY DEF screen
<1>2. SettledFileIds' = SettledFileIds
  BY <1>1 DEF SettledFileIds, Received
<1>3. RowsHold'
  BY DEF BatchInv, RowsHold, StandsFor, ServerGoes
<1>4. (\A i \in DOMAIN poll.shapes : i \in DOMAIN server /\ FoundTrue(i, poll.shapes[i]))'
  BY DEF BatchInv, PollHolds, FoundTrue, ServerGoes
<1>5. ASSUME Stopped PROVE Stopped'
  <2>1. \A f \in Files : covered[f] # 0 => covered[f] \in DOMAIN server
    BY DEF BatchInv, RowsHold, StandsFor
  <2> QED
    BY <1>2, <1>5, <2>1 DEF Stopped, ServerGoes, Landed, LandedKey
<1> QED
  BY <1>1, <1>3, <1>4, <1>5, WholeStays DEF BatchInv, PollHolds

-----------------------------------------------------------------------------
(***************************************************************************)
(* Upload runs.                                                            *)
(***************************************************************************)
IdsStay == \A f \in Files : row'[f].id \in {0, row[f].id}
KeepsFiles ==
    \A f \in Files \ twice :
        /\ row[f].id # 0 /\ ~server[row[f].id].deleted
        /\ row'[f].id # 0 /\ row'[f].bytes
        => row'[f].id = row[f].id

\* A call is for files that are still to be sent, and it is all that is left of a run
\* that is lost; but for the files in `twice` there is one run to a file.
Calling(x) == /\ x.kind = "lost" => x.at \in Signing
              /\ x.at \in Signing => \A f \in Files : x.task[f] \in {"none", "queued"}
WorkInv == /\ \A k \in 1..MaxRuns : Calling(run[k])
           /\ \A f \in Files \ twice, j, k \in 1..MaxRuns :
                 AtWork(run[j], f) /\ AtWork(run[k], f) => j = k

\* So between what a call has read and what it makes nobody makes a row of the name: a
\* name has one live row at most, and that is the one the call has for it.
SignInv ==
    /\ \A f \in Files \ twice : \A i, j \in Bearing(NameOf[f]) : i = j
    /\ \A k \in 1..MaxRuns, f \in Files \ twice :
          run[k].task[f] = "queued" /\ run[k].at \in {"planned", "replayed"} =>
             /\ Bearing(NameOf[f]) \subseteq {run[k].id[f]}
             /\ run[k].at = "planned" => run[k].id[f] = 0

LEMMA NewRuns ==
  ASSUME NEW kind \in {"upload", "one"}, NEW at \in {"idle", "signing", "sending", "confirming"}, NEW S
  PROVE  NewRun(kind, at, S) \in RunRow /\ \A f \in Files : NewRun(kind, at, S).id[f] = 0
<1>1. /\ [f \in Files |-> 0] \in [Files -> Nat]
      /\ [f \in Files |-> IF f \in S THEN "queued" ELSE "none"]
            \in [Files -> {"none", "queued", "broken", "landed", "confirmed", "missed"}]
  OBVIOUS
<1> QED
  BY <1>1 DEF NewRun, RunRow

LEMMA LostFacts ==
  ASSUME NEW x \in RunRow
  PROVE  /\ Lost(x) \in RunRow /\ Lost(x).kind = "lost" /\ Lost(x).at = x.at
         /\ Lost(x).id = x.id /\ Lost(x).task = x.task
BY DEF Lost, RunRow

LEMMA ARow ==
  ASSUME RowsHold, NEW f \in Files
  PROVE  row[f] \in ScreenRow
BY DEF RowsHold

LEMMA ARun ==
  ASSUME RunsHold, NEW k \in 1..MaxRuns
  PROVE  run[k] \in RunRow /\ FilesOf(run[k]) \in SUBSET Files
BY DEF RunsHold, FilesOf

\* A call that has read, or made, rows: its run has their ids.
LEMMA CallGoesOn ==
  ASSUME BatchInv, ServerGoes, NEW k \in 1..MaxRuns, NEW x \in RunRow, run' = [run EXCEPT ![k] = x],
         \A f \in Files : \/ x.id[f] \in {0, run[k].id[f]}
                          \/ x.id[f] \in DOMAIN server' /\ server'[x.id[f]].name = NameOf[f],
         UNCHANGED <<row, screen, poll, covered, kept>>
  PROVE  BatchInv' /\ IdsStay
<1>1. RunsHold'
  <2>1. RunsHold /\ RowsHold
    BY DEF BatchInv
  <2>2. \A f \in Files : \/ x.id[f] \in {0, run[k].id[f], row[f].id}
                         \/ x.id[f] \in DOMAIN server' /\ server'[x.id[f]].name = NameOf[f]
    OBVIOUS
  <2> QED
    BY <2>1, <2>2, RunChanges
<1>2. RowsHold' /\ PollHolds' /\ \A i \in Received' : Whole(i)'
  BY ScreenStays
<1> QED
  BY <1>1, <1>2, KeptStays DEF BatchInv, ServerGoes, IdsStay

LEMMA SignReadsKeeps ==
  ASSUME BatchInv, NEW k \in 1..MaxRuns, SignReads(k)
  PROVE  BatchInv' /\ IdsStay
<1>1. ServerGoes
  BY ServerStays DEF BatchInv, SignReads
<1>2. PICK at \in {"planned", "replayed"} : at = (IF server = <<>> THEN "planned" ELSE "replayed")
  OBVIOUS
<1>3. PICK p \in Pairings(FilesOf(run[k])) : run' = [run EXCEPT ![k].at = at, ![k].id = p]
  BY <1>2 DEF SignReads
<1>4. p \in [Files -> Nat] /\ \A f \in Files : p[f] = 0 \/ p[f] \in Bearing(NameOf[f])
  <2>1. p \in [Files -> Ids \cup {0}] /\ \A f \in Files : p[f] = 0 \/ p[f] \in Bearing(NameOf[f])
    BY DEF Pairings
  <2> QED
    BY <2>1 DEF Ids
<1>5. \A f \in Files : \/ p[f] \in {0, run[k].id[f]}
                       \/ p[f] \in DOMAIN server' /\ server'[p[f]].name = NameOf[f]
  BY <1>4 DEF Bearing, Live, SignReads
<1>6. UNCHANGED <<row, screen, poll, covered, kept>>
  BY DEF SignReads
<1>7. PICK e \in RunRow : e = run[k]
  BY ARun DEF BatchInv
<1>8. [e EXCEPT !.at = at, !.id = p] \in RunRow /\ [e EXCEPT !.at = at, !.id = p].id = p
  BY <1>4 DEF RunRow
<1>9. PICK x \in RunRow : x = [e EXCEPT !.at = at, !.id = p] /\ x.id = p
  BY <1>8
<1>10. run' = [run EXCEPT ![k] = x]
  BY <1>3, <1>7, <1>9
<1>11. \A f \in Files : \/ x.id[f] \in {0, run[k].id[f]}
                        \/ x.id[f] \in DOMAIN server' /\ server'[x.id[f]].name = NameOf[f]
  BY <1>5, <1>9
<1> QED
  BY <1>1, <1>6, <1>10, <1>11, CallGoesOn

LEMMA MakesFiles ==
  ASSUME BatchInv, NEW k \in 1..MaxRuns, NEW S \in Makes(run[k])
  PROVE  S \in SUBSET Files /\ S \subseteq FilesOf(run[k])
BY DEF Makes, Unmade, FilesOf

LEMMA SignCreatesKeeps ==
  ASSUME BatchInv, NEW k \in 1..MaxRuns, SignCreates(k)
  PROVE  BatchInv' /\ IdsStay
<1>1. PICK S \in Makes(run[k]) :
        /\ server' = Created(S)
        /\ run' = [run EXCEPT ![k].at = "replayed",
                              ![k].id = [f \in Files |-> IF f \in S THEN NewId(S, f) ELSE @[f]]]
  BY DEF SignCreates
<1>2. S \in SUBSET Files
  BY MakesFiles
<1>3. /\ ServerGoes
      /\ \A f \in S : /\ NewId(S, f) \in DOMAIN server' /\ NewId(S, f) \in Nat \ {0}
                      /\ server'[NewId(S, f)].name = NameOf[f]
  BY <1>1, <1>2, CreatedGoes DEF BatchInv
<1>4. PICK e \in RunRow : e = run[k]
  BY ARun DEF BatchInv
<1>5. PICK ids : ids = [f \in Files |-> IF f \in S THEN NewId(S, f) ELSE e.id[f]]
  OBVIOUS
<1>6. ids \in [Files -> Nat] /\ \A f \in Files : ids[f] = e.id[f] \/ (f \in S /\ ids[f] = NewId(S, f))
  <2>1. e.id \in [Files -> Nat]
    BY DEF RunRow
  <2> HIDE DEF NewId
  <2> QED
    BY <1>3, <1>5, <2>1
<1>7. [e EXCEPT !.at = "replayed", !.id = ids] \in RunRow /\ [e EXCEPT !.at = "replayed", !.id = ids].id = ids
  BY <1>6 DEF RunRow
<1>8. PICK x \in RunRow : x = [e EXCEPT !.at = "replayed", !.id = ids] /\ x.id = ids
  BY <1>7
<1>9. run' = [run EXCEPT ![k] = x]
  BY <1>1, <1>4, <1>5, <1>8
<1>10. UNCHANGED <<row, screen, poll, covered, kept>>
  BY DEF SignCreates
<1>11. \A f \in Files : \/ x.id[f] \in {0, run[k].id[f]}
                        \/ x.id[f] \in DOMAIN server' /\ server'[x.id[f]].name = NameOf[f]
  BY <1>3, <1>4, <1>6, <1>8
<1> QED
  BY <1>3, <1>9, <1>10, <1>11, CallGoesOn

\* A call nobody waits for is over.
LEMMA SignOverKeeps ==
  ASSUME BatchInv, NEW k \in 1..MaxRuns, SignOver(k)
  PROVE  BatchInv' /\ IdsStay
<1>1. ServerGoes
  BY ServerStays DEF BatchInv, SignOver
<1>2. RunsHold'
  <2>1. IdleRun \in RunRow /\ \A f \in Files : IdleRun.id[f] = 0
    BY NewRuns DEF IdleRun
  <2>2. run' = [run EXCEPT ![k] = IdleRun]
    BY DEF SignOver
  <2> QED
    BY <1>1, <2>1, <2>2, RunChanges DEF BatchInv
<1>3. UNCHANGED <<row, screen, poll, covered>> /\ kept' = kept
  BY DEF SignOver
<1>4. RowsHold' /\ PollHolds' /\ \A i \in Received' : Whole(i)'
  BY <1>1, <1>3, ScreenStays
<1> QED
  BY <1>1, <1>2, <1>3, <1>4, KeptStays DEF BatchInv, ServerGoes, IdsStay

\* getSignedUrl answers: a row takes the file its name was paired with, or that was made.
LEMMA SignedFacts ==
  ASSUME BatchInv, NEW k \in 1..MaxRuns
  PROVE  /\ Signed(run[k]) \in [Files -> ScreenRow]
         /\ \A f \in Files :
               /\ f \in FilesOf(run[k]) /\ row[f].stage # "none" =>
                     /\ Signed(run[k])[f].stage = "uploading"
                     /\ Signed(run[k])[f].id = run[k].id[f]
               /\ ~(f \in FilesOf(run[k]) /\ row[f].stage # "none") => Signed(run[k])[f] = row[f]
<1>1. PICK ids \in [Files -> Nat] : ids = run[k].id
  BY ARun DEF BatchInv, RunRow
<1>2. ASSUME NEW f \in Files
      PROVE  /\ Signed(run[k])[f] \in ScreenRow
             /\ f \in FilesOf(run[k]) /\ row[f].stage # "none" =>
                   /\ Signed(run[k])[f].stage = "uploading"
                   /\ Signed(run[k])[f].id = ids[f]
             /\ ~(f \in FilesOf(run[k]) /\ row[f].stage # "none") => Signed(run[k])[f] = row[f]
  <2>1. PICK e \in ScreenRow : e = row[f]
    BY ARow DEF BatchInv
  <2>2. PICK i \in Nat : i = ids[f]
    OBVIOUS
  <2>3. Signed(run[k])[f] = (IF f \in FilesOf(run[k]) /\ e.stage # "none"
                             THEN [e EXCEPT !.stage = "uploading", !.id = i] ELSE e)
    BY <1>1, <2>1, <2>2 DEF Signed
  <2>4. /\ [e EXCEPT !.stage = "uploading", !.id = i] \in ScreenRow
        /\ [e EXCEPT !.stage = "uploading", !.id = i].stage = "uploading"
        /\ [e EXCEPT !.stage = "uploading", !.id = i].id = i
    BY DEF ScreenRow
  <2> QED
    BY <2>1, <2>2, <2>3, <2>4
<1>3. Signed(run[k]) = [f \in Files |-> Signed(run[k])[f]]
  BY DEF Signed
<1> QED
  BY <1>1, <1>2, <1>3

LEMMA SignAnsweredKeeps ==
  ASSUME BatchInv, NEW k \in 1..MaxRuns, SignAnswered(k)
  PROVE  BatchInv' /\ (SignInv /\ WorkInv => KeepsFiles)
<1>1. ServerGoes
  BY ServerStays DEF BatchInv, SignAnswered
<1>2. PICK r \in [Files -> ScreenRow] :
        /\ Rendered(r, poll) /\ row' = r /\ UNCHANGED screen
        /\ \A f \in Files :
              /\ f \in FilesOf(run[k]) /\ row[f].stage # "none" => r[f].id = run[k].id[f]
              /\ ~(f \in FilesOf(run[k]) /\ row[f].stage # "none") => r[f] = row[f]
  BY SignedFacts DEF SignAnswered, Rendered
<1>3. RowsHold' /\ PollHolds' /\ \A i \in Received' : Whole(i)'
  <2>1. ASSUME NEW f \in Files
        PROVE  \/ r[f].id \in {0, row[f].id}
               \/ r[f].id \in DOMAIN server' /\ server'[r[f].id].name = NameOf[f]
    <3>1. r[f].id = row[f].id \/ r[f].id = run[k].id[f]
      BY <1>2
    <3>2. StandsFor(f, run[k].id[f])
      BY DEF BatchInv, RunsHold
    <3> QED
      BY <1>1, <3>1, <3>2 DEF StandsFor, ServerGoes
  <2> QED
    BY <1>1, <1>2, <2>1, ShownAgain
<1>4. RunsHold'
  <2>1. PICK x \in RunRow : x = [run[k] EXCEPT !.at = "sending"] /\ x.id = run[k].id
    <3>1. PICK e \in RunRow : e = run[k]
      BY ARun DEF BatchInv
    <3>2. [e EXCEPT !.at = "sending"] \in RunRow /\ [e EXCEPT !.at = "sending"].id = e.id
      BY DEF RunRow
    <3> QED
      BY <3>1, <3>2
  <2>2. run' = [run EXCEPT ![k] = x]
    BY <2>1 DEF SignAnswered
  <2>3. \A f \in Files : \/ x.id[f] \in {0, run[k].id[f], row[f].id}
                         \/ x.id[f] \in DOMAIN server' /\ server'[x.id[f]].name = NameOf[f]
    BY <2>1
  <2> QED
    BY <1>1, <2>2, <2>3, RunChanges DEF BatchInv
<1>5. KeptHolds'
  BY <1>1, KeptStays DEF SignAnswered, BatchInv
<1>6. ASSUME SignInv, WorkInv, NEW f \in Files \ twice, row[f].id # 0, ~server[row[f].id].deleted
      PROVE  row'[f].id = row[f].id
  <2>1. row[f].id \in Bearing(NameOf[f])
    BY <1>6 DEF BatchInv, RowsHold, StandsFor, Bearing, Live
  <2>2. CASE f \in FilesOf(run[k])
    <3>1. run[k].task[f] = "queued" /\ run[k].at = "replayed"
      BY <1>6, <2>2 DEF WorkInv, Calling, Signing, FilesOf, SignAnswered
    <3>2. row[f].id = run[k].id[f]
      BY <1>6, <2>1, <3>1 DEF SignInv
    <3> QED
      BY <1>2, <3>2
  <2>3. CASE f \notin FilesOf(run[k])
    BY <1>2, <2>3
  <2> QED
    BY <2>2, <2>3
<1> QED
  BY <1>1, <1>3, <1>4, <1>5, <1>6 DEF BatchInv, ServerGoes, KeepsFiles

LEMMA IdsKeepFiles ==
  ASSUME IdsStay
  PROVE  KeepsFiles
BY DEF IdsStay, KeepsFiles

\* It fails: the rows that were being checked failed.
LEMMA SignFailedKeeps ==
  ASSUME BatchInv, NEW k \in 1..MaxRuns, SignFailed(k)
  PROVE  BatchInv' /\ IdsStay
<1>2. ServerGoes
  BY ServerStays DEF BatchInv, SignFailed
<1>3. PICK r : /\ r = [f \in Files |-> IF row[f].stage = "checking" THEN [row[f] EXCEPT !.stage = "failed"]
                                       ELSE row[f]]
               /\ Rendered(r, poll) /\ row' = r
  BY DEF SignFailed, Rendered
<1>4. r \in [Files -> ScreenRow] /\ \A f \in Files : r[f].id = row[f].id
  <2>1. ASSUME NEW f \in Files PROVE r[f] \in ScreenRow /\ r[f].id = row[f].id
    <3>1. PICK e \in ScreenRow : e = row[f]
      BY ARow DEF BatchInv
    <3>2. r[f] = (IF e.stage = "checking" THEN [e EXCEPT !.stage = "failed"] ELSE e)
      BY <1>3, <3>1
    <3> QED
      BY <3>1, <3>2 DEF ScreenRow
  <2> QED
    BY <1>3, <2>1
<1>5. RowsHold' /\ PollHolds' /\ \A i \in Received' : Whole(i)'
  BY <1>2, <1>3, <1>4, ShownAgain DEF SignFailed
<1>6. RunsHold'
  <2>1. PICK x \in RunRow : x = Lost(run[k]) /\ x.id = run[k].id
    BY ARun, LostFacts DEF BatchInv
  <2>2. run' = [run EXCEPT ![k] = x]
    BY <2>1 DEF SignFailed
  <2>3. \A f \in Files : \/ x.id[f] \in {0, run[k].id[f], row[f].id}
                         \/ x.id[f] \in DOMAIN server' /\ server'[x.id[f]].name = NameOf[f]
    BY <2>1
  <2> QED
    BY <1>2, <2>2, <2>3, RunChanges DEF BatchInv
<1>7. KeptHolds'
  BY <1>2, KeptStays DEF SignFailed, BatchInv
<1> QED
  BY <1>2, <1>3, <1>4, <1>5, <1>6, <1>7 DEF BatchInv, ServerGoes, IdsStay

LEMMA TaskSet ==
  ASSUME NEW e \in RunRow, NEW f \in Files, NEW t \in {"broken", "landed", "confirmed", "missed"}
  PROVE  [e EXCEPT !.task[f] = t] \in RunRow /\ [e EXCEPT !.task[f] = t].id = e.id
<1>1. PICK ts \in [Files -> {"none", "queued", "broken", "landed", "confirmed", "missed"}] :
         ts = [e.task EXCEPT ![f] = t]
  BY DEF RunRow
<1>2. [e EXCEPT !.task = ts] \in RunRow /\ [e EXCEPT !.task = ts].id = e.id
  BY <1>1 DEF RunRow
<1>3. [e EXCEPT !.task[f] = t] = [e EXCEPT !.task = ts]
  BY <1>1
<1> QED
  BY <1>2, <1>3

\* The bytes of a file have gone, or have not: a run that is out of files confirms.
LEMMA PutKeeps ==
  ASSUME BatchInv, ServerGoes, NEW k \in 1..MaxRuns, NEW f \in Files,
         NEW task \in {"broken", "landed", "missed"}, NEW stage \in {"uploaded", "failed"},
         PutEnds(k, f, task, stage)
  PROVE  BatchInv' /\ IdsStay
<1>1. PICK x \in RunRow : x = [run[k] EXCEPT !.task[f] = task] /\ x.id = run[k].id
  BY ARun, TaskSet DEF BatchInv
<1>2. PICK y \in RunRow : run' = [run EXCEPT ![k] = y] /\ y.id = run[k].id
  <2>1. [x EXCEPT !.at = "confirming"] \in RunRow /\ [x EXCEPT !.at = "confirming"].id = x.id
    BY <1>1 DEF RunRow
  <2>2. \/ run' = [run EXCEPT ![k] = [x EXCEPT !.at = "confirming"]]
        \/ run' = [run EXCEPT ![k] = x]
    BY <1>1 DEF PutEnds
  <2> QED
    BY <1>1, <2>1, <2>2
<1>3. RunsHold'
  BY <1>2, RunChanges DEF BatchInv
<1>4. PICK r : /\ r = [row EXCEPT ![f].stage = IF @ = "none" THEN @ ELSE stage]
               /\ Rendered(r, poll) /\ row' = r
  BY DEF PutEnds, Rendered
<1>5. r \in [Files -> ScreenRow] /\ \A g \in Files : r[g].id = row[g].id
  <2>1. PICK e \in ScreenRow : e = row[f]
    BY ARow DEF BatchInv
  <2>2. PICK d \in ScreenRow : r = [row EXCEPT ![f] = d] /\ d.id = e.id
    <3>1. /\ [e EXCEPT !.stage = stage] \in ScreenRow /\ [e EXCEPT !.stage = stage].id = e.id
      BY DEF ScreenRow
    <3>2. r = [row EXCEPT ![f] = e] \/ r = [row EXCEPT ![f] = [e EXCEPT !.stage = stage]]
      <4>1. CASE e.stage = "none"
        <5>1. [e EXCEPT !.stage = e.stage] = e
          BY DEF ScreenRow
        <5> QED
          BY <1>4, <2>1, <4>1, <5>1
      <4>2. CASE e.stage # "none"
        BY <1>4, <2>1, <4>2
      <4> QED
        BY <4>1, <4>2
    <3> QED
      BY <3>1, <3>2
  <2> QED
    BY <2>1, <2>2 DEF BatchInv, RowsHold
<1>6. RowsHold' /\ PollHolds' /\ \A i \in Received' : Whole(i)'
  BY <1>4, <1>5, ShownAgain DEF PutEnds
<1>7. KeptHolds'
  BY KeptStays DEF PutEnds, BatchInv
<1> QED
  BY <1>3, <1>4, <1>5, <1>6, <1>7 DEF BatchInv, ServerGoes, IdsStay

LEMMA PutStepKeeps ==
  ASSUME BatchInv, NEW k \in 1..MaxRuns, NEW f \in Files, PutSucceeds(k, f) \/ PutFails(k, f)
  PROVE  BatchInv' /\ IdsStay
<1>1. CASE PutSucceeds(k, f)
  <2>1. ServerGoes
    BY <1>1, StoredGoes DEF PutSucceeds, BatchInv
  <2>2. PICK t \in {"landed", "missed"} : PutEnds(k, f, t, "uploaded")
    BY <1>1 DEF PutSucceeds
  <2> QED
    BY <2>1, <2>2, PutKeeps
<1>2. CASE PutFails(k, f)
  <2>1. ServerGoes /\ PutEnds(k, f, "broken", "failed")
    BY <1>2, ServerStays DEF PutFails, BatchInv
  <2> QED
    BY <2>1, PutKeeps
<1> QED
  BY <1>1, <1>2

\* What the browser hears of confirmed files changes no row's file, and what it keeps
\* on the disk is a file of a run.
LEMMA HearKeeps ==
  ASSUME BatchInv, ServerGoes, NEW k \in 1..MaxRuns, NEW S \in SUBSET Files,
         HearConfirm(k, S, server'), UNCHANGED screen
  PROVE  /\ RowsHold' /\ PollHolds' /\ \A i \in Received' : Whole(i)'
         /\ KeptHolds' /\ IdsStay
<1> DEFINE ids == {run[k].id[f] : f \in S}
           ok == {f \in S : server'[run[k].id[f]].stage # "FAILED"}
           its == [f \in ok |-> run[k].id[f]]
<1>1. PICK r : /\ r = [f \in Files |-> IF row[f].id \in ids
                          THEN [row[f] EXCEPT !.stage = IF server'[row[f].id].stage = "FAILED" THEN "failed"
                                                        ELSE "uploaded"]
                          ELSE row[f]]
               /\ Rendered(r, poll) /\ row' = r
  BY DEF HearConfirm, Rendered
<1>2. r \in [Files -> ScreenRow] /\ \A f \in Files : r[f].id = row[f].id
  <2>1. ASSUME NEW f \in Files PROVE r[f] \in ScreenRow /\ r[f].id = row[f].id
    <3>1. PICK e \in ScreenRow : e = row[f]
      BY ARow DEF BatchInv
    <3>2. \/ r[f] = e \/ r[f] = [e EXCEPT !.stage = "failed"]
          \/ r[f] = [e EXCEPT !.stage = "uploaded"]
      BY <1>1, <3>1
    <3> QED
      BY <3>1, <3>2 DEF ScreenRow
  <2> QED
    BY <1>1, <2>1
<1>3. KeptHolds'
  <2>1. RememberFiles(its)
    BY DEF HearConfirm
  <2>2. DOMAIN its = ok /\ ok \subseteq Files /\ \A f \in ok : its[f] = run[k].id[f]
    OBVIOUS
  <2> HIDE DEF its, ok
  <2>3. kept' = [f \in Files |-> kept'[f]]
    BY <2>1 DEF RememberFiles
  <2>4. \A f \in Files : kept'[f] \in {0, kept[f]} \/ kept'[f] = run[k].id[f]
    BY <2>1, <2>2 DEF RememberFiles
  <2> QED
    BY <2>3, <2>4, KeptChanges DEF BatchInv
<1> QED
  BY <1>1, <1>2, <1>3, ShownAgain DEF IdsStay

LEMMA QuietConfirmKeeps ==
  ASSUME BatchInv, NEW k \in 1..MaxRuns, NEW f \in Files, QuietConfirm(k, f)
  PROVE  BatchInv' /\ IdsStay
<1>1. ServerGoes
  <2>1. server' = server \/ server' = Confirmed({run[k].id[f]})
    BY DEF QuietConfirm
  <2> QED
    BY <2>1, ConfirmedGoes, ServerStays DEF BatchInv
<1>2. RunsHold'
  <2>1. PICK t \in {"confirmed", "missed"} : run' = [run EXCEPT ![k].task[f] = t]
    BY DEF QuietConfirm
  <2>2. PICK x \in RunRow : x = [run[k] EXCEPT !.task[f] = t] /\ x.id = run[k].id
    BY ARun, TaskSet DEF BatchInv
  <2>3. run' = [run EXCEPT ![k] = x]
    BY <2>1, <2>2
  <2> QED
    BY <1>1, <2>2, <2>3, RunChanges DEF BatchInv
<1>3. CASE HearConfirm(k, {f}, server')
  <2>1. {f} \in SUBSET Files /\ UNCHANGED screen
    BY DEF QuietConfirm
  <2> QED
    BY <1>1, <1>2, <1>3, <2>1, HearKeeps DEF BatchInv, ServerGoes
<1>4. CASE UNCHANGED <<row, poll, covered, kept>>
  <2>1. UNCHANGED <<row, screen, poll, covered>> /\ kept' = kept
    BY <1>4 DEF QuietConfirm
  <2>2. KeptHolds' /\ RowsHold' /\ PollHolds' /\ \A i \in Received' : Whole(i)'
    BY <1>1, <2>1, ScreenStays, KeptStays DEF BatchInv
  <2> QED
    BY <1>1, <1>2, <2>1, <2>2 DEF BatchInv, ServerGoes, IdsStay
<1> QED
  BY <1>3, <1>4 DEF QuietConfirm

LEMMA ConfirmMissedKeeps ==
  ASSUME BatchInv, NEW k \in 1..MaxRuns, ConfirmMissed(k)
  PROVE  BatchInv' /\ IdsStay
<1> DEFINE missed == InTask(run[k], "missed")
           ids == {run[k].id[f] : f \in missed}
<1>1. missed \in SUBSET Files
  BY DEF InTask
<1>2. ServerGoes
  <2>1. server' = server \/ server' = Confirmed(ids)
    BY DEF ConfirmMissed
  <2> QED
    BY <2>1, ConfirmedGoes, ServerStays DEF BatchInv
<1>3. RunsHold'
  <2>1. IdleRun \in RunRow /\ \A f \in Files : IdleRun.id[f] = 0
    BY NewRuns DEF IdleRun
  <2>2. run' = [run EXCEPT ![k] = IdleRun]
    BY DEF ConfirmMissed
  <2> QED
    BY <1>2, <2>1, <2>2, RunChanges DEF BatchInv
<1>4. UNCHANGED screen
  BY DEF ConfirmMissed
<1>5. CASE HearConfirm(k, missed, server')
  BY <1>1, <1>2, <1>3, <1>4, <1>5, HearKeeps DEF BatchInv, ServerGoes
<1>6. CASE /\ Rendered([f \in Files |-> IF row[f].id \in ids
                                        THEN [row[f] EXCEPT !.stage = "failed"] ELSE row[f]], poll)
           /\ UNCHANGED kept
  <2>1. PICK r : /\ r = [f \in Files |-> IF row[f].id \in ids
                                         THEN [row[f] EXCEPT !.stage = "failed"] ELSE row[f]]
                 /\ Rendered(r, poll) /\ row' = r
    BY <1>6 DEF Rendered
  <2>2. r \in [Files -> ScreenRow] /\ \A f \in Files : r[f].id = row[f].id
    <3>1. ASSUME NEW f \in Files PROVE r[f] \in ScreenRow /\ r[f].id = row[f].id
      <4>1. PICK e \in ScreenRow : e = row[f]
        BY ARow DEF BatchInv
      <4>2. r[f] = e \/ r[f] = [e EXCEPT !.stage = "failed"]
        BY <2>1, <4>1
      <4> QED
        BY <4>1, <4>2 DEF ScreenRow
    <3> QED
      BY <2>1, <3>1
  <2>3. KeptHolds' /\ RowsHold' /\ PollHolds' /\ \A i \in Received' : Whole(i)'
    BY <1>2, <1>4, <1>6, <2>1, <2>2, ShownAgain, KeptStays DEF BatchInv
  <2> QED
    BY <1>2, <1>3, <2>1, <2>2, <2>3 DEF BatchInv, ServerGoes, IdsStay
<1> QED
  BY <1>5, <1>6 DEF ConfirmMissed

-----------------------------------------------------------------------------
(***************************************************************************)
(* What a person does.                                                     *)
(***************************************************************************)

\* A run begins with no file of its own yet, or with the row's.
LEMMA RunBegins ==
  ASSUME RunsHold, RowsHold, ServerGoes, NEW k \in 1..MaxRuns, NEW x \in RunRow,
         run' = [run EXCEPT ![k] = x], \A f \in Files : x.id[f] = 0 \/ x.id[f] = row[f].id
  PROVE  RunsHold'
<1>1. \A f \in Files : \/ x.id[f] \in {0, run[k].id[f], row[f].id}
                       \/ x.id[f] \in DOMAIN server' /\ server'[x.id[f]].name = NameOf[f]
  OBVIOUS
<1> QED
  BY <1>1, RunChanges

\* A run begins, and what was staged is being checked.
LEMMA StartsKeeps ==
  ASSUME BatchInv, NEW S, NEW r \in [Files -> ScreenRow], \A f \in Files : r[f].id \in {0, row[f].id},
         StartsUpload(S, r), UNCHANGED <<screen, kept, server>>
  PROVE  BatchInv' /\ IdsStay
<1>1. ServerGoes
  BY ServerStays DEF BatchInv
<1>2. RunsHold'
  <2>1. PICK k \in 1..MaxRuns : run' = [run EXCEPT ![k] = NewRun("upload", "signing", S)]
    BY DEF StartsUpload, Begin
  <2>2. PICK x \in RunRow : x = NewRun("upload", "signing", S) /\ \A f \in Files : x.id[f] = 0
    BY NewRuns
  <2>3. run' = [run EXCEPT ![k] = x]
    BY <2>1, <2>2
  <2>4. RunsHold /\ RowsHold /\ x \in RunRow /\ \A f \in Files : x.id[f] = 0 \/ x.id[f] = row[f].id
    BY <2>2 DEF BatchInv
  <2> QED
    BY <1>1, <2>3, <2>4, RunBegins
<1>3. PICK q : q = Checking(r) /\ Rendered(q, poll) /\ row' = q
  BY DEF StartsUpload, Rendered
<1>4. q \in [Files -> ScreenRow] /\ \A f \in Files : q[f].id = r[f].id
  <2>1. ASSUME NEW f \in Files PROVE q[f] \in ScreenRow /\ q[f].id = r[f].id
    <3>1. PICK e \in ScreenRow : e = r[f]
      OBVIOUS
    <3>2. q[f] = e \/ q[f] = [e EXCEPT !.stage = "checking"]
      BY <1>3, <3>1 DEF Checking
    <3> QED
      BY <3>1, <3>2 DEF ScreenRow
  <2>2. q = [f \in Files |-> q[f]]
    BY <1>3 DEF Checking
  <2> QED
    BY <2>1, <2>2
<1>5. RowsHold' /\ PollHolds' /\ \A i \in Received' : Whole(i)'
  BY <1>1, <1>3, <1>4, ShownAgain
<1> QED
  BY <1>1, <1>2, <1>3, <1>4, <1>5, KeptStays DEF BatchInv, ServerGoes, IdsStay

\* A list whose rows keep their files is shown, and no run begins.
LEMMA ListChanges ==
  ASSUME BatchInv, NEW r \in [Files -> ScreenRow], \A f \in Files : r[f].id \in {0, row[f].id},
         Rendered(r, poll), UNCHANGED <<run, screen, kept, server>>
  PROVE  BatchInv' /\ IdsStay
<1>1. ServerGoes /\ row' = r
  BY ServerStays DEF BatchInv, Rendered
<1>2. RowsHold' /\ PollHolds' /\ \A i \in Received' : Whole(i)'
  BY <1>1, ShownAgain
<1> QED
  BY <1>1, <1>2, RunsStay, KeptStays DEF BatchInv, ServerGoes, IdsStay

LEMMA AddFilesKeeps ==
  ASSUME BatchInv, NEW S \in SUBSET Files, AddFiles(S)
  PROVE  BatchInv' /\ IdsStay
<1>1. PICK r : r = Added(S)
  OBVIOUS
<1>2. r \in [Files -> ScreenRow] /\ \A f \in Files : r[f].id \in {0, row[f].id}
  <2>1. ASSUME NEW f \in Files PROVE r[f] \in ScreenRow /\ r[f].id \in {0, row[f].id}
    <3>1. row[f] \in ScreenRow /\ NewRow(f) \in ScreenRow /\ NewRow(f).id = 0
      BY ARow DEF BatchInv, NewRow, ScreenRow
    <3>2. r[f] = row[f] \/ r[f] = NewRow(f)
      BY <1>1 DEF Added
    <3> QED
      BY <3>1, <3>2
  <2>2. r = [f \in Files |-> r[f]]
    BY <1>1 DEF Added
  <2> QED
    BY <2>1, <2>2
<1>3. UNCHANGED <<screen, kept, server>>
  BY DEF AddFiles
<1>4. CASE StartsUpload(S \ Rejected, Added(S))
  BY <1>1, <1>2, <1>3, <1>4, StartsKeeps
<1>5. CASE Rendered(Added(S), poll) /\ UNCHANGED <<run, uploading, twice>>
  BY <1>1, <1>2, <1>3, <1>5, ListChanges
<1> QED
  BY <1>4, <1>5 DEF AddFiles

LEMMA SendAgainKeeps ==
  ASSUME BatchInv, NEW S, SendAgain(S)
  PROVE  BatchInv' /\ IdsStay
<1>1. PICK r : r = Restaged(S)
  OBVIOUS
<1>2. r \in [Files -> ScreenRow] /\ \A f \in Files : r[f].id \in {0, row[f].id}
  <2>1. ASSUME NEW f \in Files PROVE r[f] \in ScreenRow /\ r[f].id = row[f].id
    <3>1. PICK e \in ScreenRow : e = row[f]
      BY ARow DEF BatchInv
    <3>2. r[f] = e \/ r[f] = [e EXCEPT !.stage = "staged"]
      BY <1>1, <3>1 DEF Restaged
    <3> QED
      BY <3>1, <3>2 DEF ScreenRow
  <2>2. r = [f \in Files |-> r[f]]
    BY <1>1 DEF Restaged
  <2> QED
    BY <2>1, <2>2
<1>3. StartsUpload(S, r) /\ UNCHANGED <<screen, kept, server>>
  BY <1>1 DEF SendAgain
<1> QED
  BY <1>2, <1>3, StartsKeeps

LEMMA RetryOneKeeps ==
  ASSUME BatchInv, NEW f \in Files, RetryOne(f)
  PROVE  BatchInv' /\ IdsStay
<1>1. ServerGoes
  BY ServerStays DEF BatchInv, RetryOne
<1>2. PICK e \in ScreenRow : e = row[f]
  BY ARow DEF BatchInv
<1>3. RunsHold'
  <2> DEFINE x == [NewRun("one", "sending", {f}) EXCEPT !.id[f] = row[f].id]
  <2>1. PICK k \in 1..MaxRuns : run' = [run EXCEPT ![k] = x]
    BY DEF RetryOne, Begin
  <2>2. PICK n \in RunRow : n = NewRun("one", "sending", {f}) /\ \A g \in Files : n.id[g] = 0
    BY NewRuns
  <2>3. PICK ids \in [Files -> Nat] : ids = [n.id EXCEPT ![f] = e.id]
    BY <1>2, <2>2 DEF RunRow, ScreenRow
  <2>4. [n EXCEPT !.id = ids] \in RunRow /\ [n EXCEPT !.id = ids].id = ids
    BY <2>2, <2>3 DEF RunRow
  <2>5. x = [n EXCEPT !.id = ids]
    BY <1>2, <2>2, <2>3
  <2>6. \A g \in Files : ids[g] \in {0, row[g].id}
    BY <1>2, <2>2, <2>3 DEF RunRow
  <2> HIDE DEF x
  <2>7. PICK y \in RunRow : y = x /\ \A g \in Files : y.id[g] \in {0, row[g].id}
    BY <2>4, <2>5, <2>6
  <2>8. run' = [run EXCEPT ![k] = y]
    BY <2>1, <2>7
  <2>9. RunsHold /\ RowsHold /\ y \in RunRow /\ \A g \in Files : y.id[g] = 0 \/ y.id[g] = row[g].id
    BY <2>7 DEF BatchInv
  <2> QED
    BY <1>1, <2>8, <2>9, RunBegins
<1>4. PICK r : r = Retrying(f) /\ Rendered(r, poll) /\ row' = r
  BY DEF RetryOne, Rendered
<1>5. r \in [Files -> ScreenRow] /\ \A g \in Files : r[g].id = row[g].id
  <2>1. PICK d \in ScreenRow : d = [e EXCEPT !.stage = "uploading"] /\ d.id = e.id
    <3>1. [e EXCEPT !.stage = "uploading"] \in ScreenRow /\ [e EXCEPT !.stage = "uploading"].id = e.id
      BY DEF ScreenRow
    <3> QED
      BY <3>1
  <2>2. r = [row EXCEPT ![f] = d]
    BY <1>2, <1>4, <2>1 DEF Retrying
  <2> QED
    BY <1>2, <2>1, <2>2 DEF BatchInv, RowsHold
<1>6. RowsHold' /\ PollHolds' /\ \A i \in Received' : Whole(i)'
  BY <1>1, <1>4, <1>5, ShownAgain DEF RetryOne
<1> QED
  BY <1>1, <1>3, <1>4, <1>5, <1>6, KeptStays DEF BatchInv, ServerGoes, IdsStay, RetryOne

\* The tab forgets a batch.
LEMMA NoRows ==
  /\ [f \in Files |-> NoRow] \in [Files -> ScreenRow] /\ NoRow \in ScreenRow /\ NoRow.id = 0
  /\ [f \in Files |-> 0] \in [Files -> Nat]
BY DEF NoRow, ScreenRow

LEMMA GivenUpRuns ==
  ASSUME RunsHold, ServerGoes, run' = [k \in 1..MaxRuns |-> GivenUp(run[k])]
  PROVE  RunsHold'
<1>1. IdleRun \in RunRow /\ \A f \in Files : IdleRun.id[f] = 0
  BY NewRuns DEF IdleRun
<1>2. ASSUME NEW k \in 1..MaxRuns
      PROVE  run'[k] \in RunRow /\ \A f \in Files : run'[k].id[f] \in {0, run[k].id[f]}
  <2>1. run[k] \in RunRow
    BY ARun
  <2>2. run'[k] = Lost(run[k]) \/ run'[k] = IdleRun
    BY DEF GivenUp
  <2> QED
    BY <1>1, <2>1, <2>2, LostFacts
<1>3. run' \in [1..MaxRuns -> RunRow]
  BY <1>2
<1>4. \A k \in 1..MaxRuns, f \in Files : StandsFor(f, run[k].id[f])
  BY DEF RunsHold
<1>5. \A k \in 1..MaxRuns, f \in Files : StandsFor(f, run[k].id[f])'
  BY <1>2, <1>4 DEF StandsFor, ServerGoes
<1> QED
  BY <1>3, <1>5 DEF RunsHold

LEMMA CloseKeeps ==
  ASSUME BatchInv, ServerGoes, CloseBatch, \A i \in Received' : Whole(i)'
  PROVE  BatchInv' /\ IdsStay
<1>1. /\ row' = [f \in Files |-> NoRow] /\ run' = [k \in 1..MaxRuns |-> GivenUp(run[k])]
      /\ poll' = PollOff /\ covered' = [f \in Files |-> 0] /\ kept' = [f \in Files |-> 0]
  BY DEF CloseBatch
<1>2. RunsHold'
  BY <1>1, GivenUpRuns DEF BatchInv
<1>3. KeptHolds' /\ RowsHold'
  BY <1>1, NoRows DEF KeptHolds, RowsHold, StandsFor
<1>4. PollHolds'
  BY <1>1, NewPolls DEF PollHolds
<1>5. IdsStay
  BY <1>1, NoRows DEF IdsStay
<1> QED
  BY <1>2, <1>3, <1>4, <1>5 DEF BatchInv, ServerGoes

LEMMA WithoutFacts ==
  ASSUME RowsHold, NEW S
  PROVE  /\ Without(S) \in [Files -> ScreenRow]
         /\ \A f \in Files : Without(S)[f].id = (IF f \in S THEN 0 ELSE row[f].id)
BY NoRows, ARow DEF Without

LEMMA DiscardFailedKeeps ==
  ASSUME BatchInv, DiscardFailed
  PROVE  BatchInv' /\ IdsStay
<1>1. PICK r : r = Without({f \in Files : row[f].stage \in {"failed", "rejected"}})
  OBVIOUS
<1>2. r \in [Files -> ScreenRow] /\ \A f \in Files : r[f].id \in {0, row[f].id}
  BY <1>1, WithoutFacts DEF BatchInv
<1>3. UNCHANGED <<screen, server>>
  BY DEF DiscardFailed
<1>4. CASE CloseBatch
  <2>1. ServerGoes
    BY <1>3, ServerStays DEF BatchInv
  <2>2. \A i \in Received' : Whole(i)'
    BY <1>3, <2>1, WholeStays DEF BatchInv, screen
  <2> QED
    BY <1>4, <2>1, <2>2, CloseKeeps
<1>5. CASE Rendered(r, poll) /\ UNCHANGED <<run, uploading, kept, open>>
  BY <1>2, <1>3, <1>5, ListChanges
<1> QED
  BY <1>1, <1>4, <1>5 DEF DiscardFailed

\* discardFiles: the server first.  An answer goes with its file, and so do its rows.
LEMMA DiscardFilesKeeps ==
  ASSUME BatchInv, NEW S \in SUBSET Ids, DiscardFiles(S)
  PROVE  BatchInv' /\ IdsStay
<1>1. ServerGoes /\ \A i \in DOMAIN server : i \in S => server'[i].deleted
  BY DiscardedGoes DEF DiscardFiles, BatchInv
<1>2. CASE TakeOut(S) /\ (\/ CloseBatch
                          \/ /\ Rendered(Without({f \in Files : row[f].id \in S}), poll)
                             /\ ForgetFiles(S) /\ UNCHANGED <<run, uploading, open>>)
  <2>1. /\ got' = {x \in got : x[1] \notin S} /\ empty' = {x \in empty : x[1] \notin S}
        /\ wont' = [i \in Ids |-> IF i \in S THEN "no" ELSE wont[i]]
    BY <1>2 DEF TakeOut
  <2>2. \A i \in Received' : Whole(i)'
    <3> SUFFICES ASSUME NEW i \in Received' PROVE Whole(i)'
      OBVIOUS
    <3>1. i \in Received /\ i \notin S
      BY <2>1 DEF Received
    <3>2. Whole(i)
      BY <3>1 DEF BatchInv
    <3>3. ASSUME NEW t, <<i, t>> \in got \cup empty PROVE <<i, t>> \in got' \cup empty'
      <4>1. <<i, t>>[1] \notin S
        BY <3>1
      <4> QED
        BY <2>1, <3>3, <4>1
    <3> QED
      BY <1>1, <3>2, <3>3 DEF Whole, ServerGoes
  <2>3. CASE CloseBatch
    BY <1>1, <2>2, <2>3, CloseKeeps
  <2>4. CASE /\ Rendered(Without({f \in Files : row[f].id \in S}), poll)
             /\ ForgetFiles(S) /\ UNCHANGED <<run, uploading, open>>
    <3>1. PICK r : r = Without({f \in Files : row[f].id \in S}) /\ Rendered(r, poll) /\ row' = r
      BY <2>4 DEF Rendered
    <3>2. /\ r \in [Files -> ScreenRow]
          /\ \A f \in Files : r[f].id = (IF row[f].id \in S THEN 0 ELSE row[f].id)
      BY <3>1, WithoutFacts DEF BatchInv
    <3>3. ASSUME NEW i \in DOMAIN server, i \in SettledFileIds
          PROVE  i \in SettledFileIds' \/ server'[i].deleted
      <4>1. CASE i \in S
        BY <1>1, <3>3, <4>1
      <4>2. CASE i \notin S
        BY <2>1, <3>3, <4>2 DEF SettledFileIds, Received
      <4> QED
        BY <4>1, <4>2
    <3>4. RowsHold' /\ PollHolds'
      BY <1>1, <3>1, <3>2, <3>3, Shown DEF BatchInv
    <3>5. KeptHolds'
      <4>1. kept' = [f \in Files |-> kept'[f]] /\ \A f \in Files : kept'[f] \in {0, kept[f]}
        BY <2>4 DEF ForgetFiles
      <4> QED
        BY <1>1, <4>1, KeptChanges DEF BatchInv
    <3>6. RunsHold'
      BY <1>1, <2>4, RunsStay DEF BatchInv
    <3>7. IdsStay
      <4>1. \A f \in Files : r[f].id = 0 \/ r[f].id = row[f].id
        BY <3>2
      <4>2. row' = r
        BY <3>1
      <4> QED
        BY <4>1, <4>2 DEF IdsStay
    <3> QED
      BY <1>1, <2>2, <3>4, <3>5, <3>6, <3>7 DEF BatchInv, ServerGoes
  <2> QED
    BY <1>2, <2>3, <2>4 DEF DiscardFiles
<1>3. CASE UNCHANGED <<row, run, uploading, screen, poll, covered, kept, open>>
  <2>1. UNCHANGED <<row, screen, poll, covered>> /\ run' = run /\ kept' = kept
    BY <1>3
  <2> QED
    BY <1>1, <2>1, ScreenStays, RunsStay, KeptStays DEF BatchInv, ServerGoes, IdsStay
<1> QED
  BY <1>2, <1>3 DEF DiscardFiles

\* A reload: what the disk remembers comes back, without its bytes.
LEMMA ReloadKeeps ==
  ASSUME BatchInv, Reload
  PROVE  BatchInv' /\ KeepsFiles
<1>1. ServerGoes
  BY ServerStays DEF BatchInv, Reload
<1>2. PICK r : /\ r = Remembered /\ row' = r /\ covered' = LandedKey(r)
               /\ poll' = Asking(1) /\ got' = {} /\ empty' = {} /\ kept' = kept
               /\ run' = [k \in 1..MaxRuns |-> GivenUp(run[k])]
  BY DEF Reload
<1>3. r \in [Files -> ScreenRow] /\ \A f \in Files : r[f].id = kept[f] /\ ~r[f].bytes
  <2>1. ASSUME NEW f \in Files PROVE r[f] \in ScreenRow /\ r[f].id = kept[f] /\ ~r[f].bytes
    <3>1. PICK i \in Nat : i = kept[f]
      BY DEF BatchInv, KeptHolds
    <3>2. r[f] = (IF i = 0 THEN NoRow ELSE [stage |-> "uploaded", id |-> i, bytes |-> FALSE])
      BY <1>2, <3>1 DEF Remembered
    <3> QED
      BY <3>1, <3>2 DEF NoRow, ScreenRow
  <2>2. r = [f \in Files |-> r[f]]
    BY <1>2 DEF Remembered
  <2> QED
    BY <2>1, <2>2
<1>4. RunsHold' /\ KeptHolds'
  BY <1>1, <1>2, GivenUpRuns, KeptStays DEF BatchInv
<1>5. RowsHold'
  <2>1. \A f \in Files : StandsFor(f, kept[f])'
    BY <1>2, <1>4 DEF KeptHolds
  <2>2. \A f \in Files : LandedKey(r)[f] \in {0, kept[f]}
    BY <1>3, LandedFacts
  <2>3. row' \in [Files -> ScreenRow] /\ covered' \in [Files -> Nat]
    BY <1>2, <1>3, LandedFacts
  <2>4. \A f \in Files : row'[f].id = kept'[f] /\ covered'[f] \in {0, kept'[f]}
    BY <1>2, <1>3, <2>2
  <2>5. \A f \in Files : StandsFor(f, row[f].id)' /\ StandsFor(f, covered[f])'
    BY <2>1, <2>4 DEF StandsFor
  <2> QED
    BY <2>3, <2>5 DEF RowsHold
<1>6. PollHolds'
  BY <1>2, NewPolls DEF PollHolds
<1>7. \A i \in Received' : Whole(i)'
  BY <1>2 DEF Received
<1> QED
  BY <1>1, <1>2, <1>3, <1>4, <1>5, <1>6, <1>7 DEF BatchInv, ServerGoes, KeepsFiles

-----------------------------------------------------------------------------
(***************************************************************************)
(* The poll.                                                               *)
(***************************************************************************)
\* A poll that has read one more of its queries.
ReadOn(p, at, rc) == [[p EXCEPT !.at = at] EXCEPT !.received = rc]
WithFiles(p, fs) == [p EXCEPT !.files = fs]
WithShapes(p, sh) == [p EXCEPT !.shapes = sh]

LEMMA PollRead ==
  ASSUME NEW p, IsPoll(p), NEW at, NEW rc
  PROVE  IsPoll(ReadOn(p, at, rc)) /\ ReadOn(p, at, rc).at = at /\ ReadOn(p, at, rc).shapes = p.shapes
<1>1. /\ IsPoll([p EXCEPT !.at = at]) /\ [p EXCEPT !.at = at].at = at
      /\ [p EXCEPT !.at = at].shapes = p.shapes
  BY DEF IsPoll
<1>2. PICK a : a = [p EXCEPT !.at = at]
  OBVIOUS
<1>3. IsPoll(a) /\ a.at = at /\ a.shapes = p.shapes
  BY <1>1, <1>2
<1>4. /\ IsPoll([a EXCEPT !.received = rc]) /\ [a EXCEPT !.received = rc].at = at
      /\ [a EXCEPT !.received = rc].shapes = p.shapes
  BY <1>3 DEF IsPoll
<1> QED
  BY <1>2, <1>4 DEF ReadOn

LEMMA PollFound ==
  ASSUME NEW p, IsPoll(p), NEW fs
  PROVE  /\ IsPoll(WithFiles(p, fs)) /\ WithFiles(p, fs).at = p.at /\ WithFiles(p, fs).shapes = p.shapes
         /\ IsPoll(WithShapes(p, fs)) /\ WithShapes(p, fs).at = p.at /\ WithShapes(p, fs).shapes = fs
<1>1. IsPoll(WithFiles(p, fs)) /\ WithFiles(p, fs).at = p.at /\ WithFiles(p, fs).shapes = p.shapes
  BY DEF IsPoll, WithFiles
<1>2. IsPoll(WithShapes(p, fs)) /\ WithShapes(p, fs).at = p.at /\ WithShapes(p, fs).shapes = fs
  BY DEF IsPoll, WithShapes
<1> QED
  BY <1>1, <1>2

LEMMA PollReads ==
  ASSUME BatchInv, PollReadsFiles \/ PollReadsSchemas
  PROVE  BatchInv' /\ IdsStay
<1>1. PICK p : p = poll /\ IsPoll(p)
  BY DEF BatchInv, PollHolds
<1>2. UNCHANGED <<row, run, screen, covered, kept, server>>
  BY DEF PollReadsFiles, PollReadsSchemas
<1>3. ServerGoes
  BY <1>2, ServerStays DEF BatchInv
<1>4. UNCHANGED <<got, wont, empty>>
  BY <1>2 DEF screen
<1>5. RowsHold'
  BY <1>2 DEF BatchInv, RowsHold, StandsFor
<1>6. /\ IsPoll(poll') /\ poll'.at # "ended"
      /\ \/ poll'.shapes = poll.shapes
         \/ poll'.shapes = [i \in DOMAIN server |-> [shapes |-> server[i].shapes, blank |-> server[i].blank]]
  <2>1. PICK rc : rc = (IF p.at = "asking" THEN Received ELSE p.received)
    OBVIOUS
  <2>2. CASE PollReadsFiles
    <3>1. PICK at \in {"files", "answered"} : at = (IF p.at = "asking" THEN "files" ELSE "answered")
      OBVIOUS
    <3>2. PICK fs : fs = [i \in Live |-> server[i].stage]
      OBVIOUS
    <3>3. PICK q : q = ReadOn(p, at, rc) /\ IsPoll(q) /\ q.at = at /\ q.shapes = p.shapes
      BY <1>1, PollRead
    <3>4. poll' = [p EXCEPT !.at = IF @ = "asking" THEN "files" ELSE "answered",
                            !.received = IF p.at = "asking" THEN Received ELSE @,
                            !.files = fs]
      BY <1>1, <2>2, <3>2 DEF PollReadsFiles
    <3>5. poll' = WithFiles(q, fs)
      BY <1>1, <2>1, <3>1, <3>3, <3>4 DEF IsPoll, ReadOn, WithFiles
    <3> QED
      BY <1>1, <3>1, <3>3, <3>5, PollFound
  <2>3. CASE PollReadsSchemas
    <3>1. PICK at \in {"shapes", "answered"} : at = (IF p.at = "asking" THEN "shapes" ELSE "answered")
      OBVIOUS
    <3>2. PICK sh : sh = [i \in DOMAIN server |-> [shapes |-> server[i].shapes, blank |-> server[i].blank]]
      OBVIOUS
    <3>3. PICK q : q = ReadOn(p, at, rc) /\ IsPoll(q) /\ q.at = at /\ q.shapes = p.shapes
      BY <1>1, PollRead
    <3>4. poll' = [p EXCEPT !.at = IF @ = "asking" THEN "shapes" ELSE "answered",
                            !.received = IF p.at = "asking" THEN Received ELSE @,
                            !.shapes = sh]
      BY <1>1, <2>3, <3>2 DEF PollReadsSchemas
    <3>5. poll' = WithShapes(q, sh)
      BY <1>1, <2>1, <3>1, <3>3, <3>4 DEF IsPoll, ReadOn, WithShapes
    <3> QED
      BY <3>1, <3>2, <3>3, <3>5, PollFound
  <2> QED
    BY <2>2, <2>3
<1>7. (\A i \in DOMAIN poll.shapes : i \in DOMAIN server /\ FoundTrue(i, poll.shapes[i]))'
  <2>1. CASE poll'.shapes = poll.shapes
    BY <1>2, <2>1 DEF BatchInv, PollHolds, FoundTrue
  <2>2. CASE poll'.shapes = [i \in DOMAIN server |-> [shapes |-> server[i].shapes,
                                                      blank |-> server[i].blank]]
    <3>1. \A i \in DOMAIN server : /\ poll'.shapes[i].shapes = server[i].shapes
                                   /\ poll'.shapes[i].blank = server[i].blank
      BY <2>2
    <3>2. DOMAIN poll'.shapes = DOMAIN server
      BY <2>2
    <3> QED
      BY <1>2, <3>1, <3>2, AFile DEF BatchInv, FoundTrue
  <2> QED
    BY <1>6, <2>1, <2>2
<1>8. PollHolds'
  BY <1>6, <1>7 DEF PollHolds
<1> QED
  BY <1>2, <1>3, <1>4, <1>5, <1>8, RunsStay, KeptStays, WholeStays DEF BatchInv, ServerGoes, IdsStay

LEMMA OnwardFacts ==
  ASSUME IsPoll(poll), NEW b \in BOOLEAN
  PROVE  /\ IsPoll(Onward(b)) /\ Onward(b).shapes = <<>>
         /\ Onward(b).at = "ended" => Onward(b).stopped /\ Onward(b).exhausted = ~b
<1>1. CASE b \/ poll.n >= MaxPolls
  <2>1. PICK p : p = Asking(poll.n) /\ IsPoll(p) /\ p.shapes = <<>>
    BY NewPolls
  <2>2. PICK c \in BOOLEAN : c = ~b
    OBVIOUS
  <2>3. Onward(b) = [p EXCEPT !.at = "ended", !.stopped = TRUE, !.exhausted = c]
    BY <1>1, <2>1, <2>2 DEF Onward
  <2> QED
    BY <2>1, <2>2, <2>3 DEF IsPoll
<1>2. CASE ~(b \/ poll.n >= MaxPolls)
  <2>1. PICK p : p = Asking(poll.n + 1) /\ IsPoll(p) /\ p.shapes = <<>> /\ p.at = "asking"
    BY NewPolls
  <2>2. PICK c \in BOOLEAN : c = poll.stopped
    BY DEF IsPoll
  <2>3. Onward(b) = [p EXCEPT !.stopped = c]
    BY <1>2, <2>1, <2>2 DEF Onward
  <2> QED
    BY <2>1, <2>3, PollWith
<1> QED
  BY <1>1, <1>2

\* The loop goes on, or it ends because every file that has landed has its answer.
LEMMA WentOn ==
  ASSUME BatchInv, NEW b \in BOOLEAN, b => AllShapesIn, Rendered(row, Onward(b)),
         UNCHANGED <<run, kept, server>>,
         \A i \in SettledFileIds : i \in SettledFileIds',
         \A i \in Received' : Whole(i)'
  PROVE  BatchInv' /\ IdsStay
<1>1. ServerGoes
  BY ServerStays DEF BatchInv
<1>2. PICK p : p = Onward(b) /\ IsPoll(p) /\ p.shapes = <<>>
               /\ (p.at = "ended" => p.stopped /\ p.exhausted = ~b)
  BY OnwardFacts DEF BatchInv, PollHolds
<1>3. PICK r \in [Files -> ScreenRow] : r = row
  BY DEF BatchInv, RowsHold
<1>4. /\ row' = row /\ IsPoll(poll') /\ covered' \in {covered, LandedKey(r)} /\ poll'.shapes = <<>>
      /\ poll'.at = "ended" => /\ poll' = p /\ covered' = covered
                               /\ Landed(r) = {} \/ LandedKey(r) = covered
  <2>1. Rendered(r, p)
    BY <1>2, <1>3
  <2> QED
    BY <1>2, <1>3, <2>1, RenderedFacts
<1>5. RowsHold'
  <2>1. covered' \in [Files -> Nat] /\ \A f \in Files : covered'[f] \in {0, covered[f], row[f].id}
    BY <1>3, <1>4, LandedFacts DEF BatchInv, RowsHold
  <2> QED
    BY <1>4, <2>1 DEF BatchInv, RowsHold, StandsFor
<1>6. ASSUME poll'.at = "ended" PROVE Stopped'
  <2>1. /\ poll' = p /\ covered' = covered /\ (Landed(r) = {} \/ LandedKey(r) = covered)
        /\ p.stopped /\ p.exhausted = ~b
    BY <1>2, <1>4, <1>6
  <2>2. ASSUME b, NEW f \in Files, covered[f] # 0 PROVE covered[f] \in SettledFileIds'
    <3>1. Landed(r) # {} /\ Landed(r) \subseteq SettledFileIds
      BY <1>3, <2>2 DEF AllShapesIn
    <3>2. covered[f] \in Landed(r)
      BY <2>1, <2>2, <3>1, LandedFacts
    <3> QED
      BY <3>1, <3>2
  <2>3. Landed(row') = {} \/ LandedKey(row') = covered'
    BY <1>3, <1>4, <2>1
  <2> QED
    BY <2>1, <2>2, <2>3 DEF Stopped, Landed, LandedKey
<1>7. PollHolds'
  BY <1>4, <1>6 DEF PollHolds
<1> QED
  BY <1>1, <1>4, <1>5, <1>7, RunsStay, KeptStays DEF BatchInv, ServerGoes, IdsStay

\* What is new in an answer comes with all its tables.
LEMMA PollAnsweredKeeps ==
  ASSUME BatchInv, PollAnswered
  PROVE  BatchInv' /\ IdsStay
<1>1. /\ got' = got \cup UNION {{i} \X Found(i).shapes : i \in Ready}
      /\ empty' = empty \cup UNION {{i} \X Found(i).blank : i \in Ready}
      /\ wont' = FileFailures /\ server' = server
      /\ Rendered(row, Onward(AllShapesIn)) /\ UNCHANGED <<run, kept, server>>
  BY DEF PollAnswered
<1>2. PICK b \in BOOLEAN : b = AllShapesIn
  BY DEF AllShapesIn
<1>3. \A i \in SettledFileIds : i \in SettledFileIds'
  <2>1. got \subseteq got' /\ empty \subseteq empty'
    BY <1>1
  <2>2. \A i \in Ids : wont[i] # "no" => wont'[i] # "no"
    BY <1>1 DEF FileFailures
  <2> QED
    BY <2>1, <2>2 DEF SettledFileIds, Received
<1>4. ASSUME NEW i \in Received PROVE Whole(i)'
  <2>1. Whole(i)
    BY DEF BatchInv
  <2>2. got \subseteq got' /\ empty \subseteq empty'
    BY <1>1
  <2> QED
    BY <1>1, <2>1, <2>2 DEF Whole
<1>5. ASSUME NEW i \in Ready, Found(i).shapes # {} PROVE Whole(i)'
  <2>1. i \in DOMAIN poll.shapes /\ Found(i) = poll.shapes[i]
    BY <1>5 DEF Found
  <2>2. /\ i \in DOMAIN server /\ server[i].stage = "SCHEMA_READY"
        /\ Found(i).shapes = server[i].shapes /\ Found(i).blank = server[i].blank
    BY <1>5, <2>1 DEF BatchInv, PollHolds, FoundTrue
  <2>3. ASSUME NEW t \in server[i].shapes PROVE <<i, t>> \in got'
    <3>1. <<i, t>> \in {i} \X Found(i).shapes
      BY <2>2
    <3> QED
      BY <1>1, <3>1
  <2>4. ASSUME NEW t \in server[i].blank PROVE <<i, t>> \in empty'
    <3>1. <<i, t>> \in {i} \X Found(i).blank
      BY <2>2
    <3> QED
      BY <1>1, <3>1
  <2> QED
    BY <1>1, <2>2, <2>3, <2>4 DEF Whole
<1>6. \A i \in Received' : Whole(i)'
  <2> SUFFICES ASSUME NEW i \in Received' PROVE Whole(i)'
    OBVIOUS
  <2>1. PICK x \in got' : i = x[1]
    BY DEF Received
  <2>2. CASE x \in got
    <3>1. i \in Received
      BY <2>1, <2>2 DEF Received
    <3> QED
      BY <1>4, <3>1
  <2>3. CASE x \notin got
    <3>1. PICK j \in Ready : x \in {j} \X Found(j).shapes
      BY <1>1, <2>1, <2>3
    <3>2. x[1] = j /\ x[2] \in Found(j).shapes
      BY <3>1
    <3> QED
      BY <1>5, <2>1, <3>2
  <2> QED
    BY <2>2, <2>3
<1> QED
  BY <1>1, <1>2, <1>3, <1>6, WentOn

LEMMA PollFailsKeeps ==
  ASSUME BatchInv, PollFails
  PROVE  BatchInv' /\ IdsStay
<1>1. /\ Rendered(row, Onward(FALSE)) /\ UNCHANGED <<run, kept, server>>
      /\ UNCHANGED <<got, wont, empty>>
  BY DEF PollFails, screen
<1>2. ServerGoes
  BY <1>1, ServerStays DEF BatchInv
<1>3. \A i \in SettledFileIds : i \in SettledFileIds'
  BY <1>1 DEF SettledFileIds, Received
<1>4. \A i \in Received' : Whole(i)'
  BY <1>1, <1>2, WholeStays DEF BatchInv
<1> QED
  BY <1>1, <1>3, <1>4, WentOn

-----------------------------------------------------------------------------
(***************************************************************************)
(* The system.                                                             *)
(***************************************************************************)
LEMMA InspectKeeps ==
  ASSUME BatchInv, InspectSome
  PROVE  BatchInv' /\ IdsStay
<1>1. ServerGoes
  BY InspectGoes DEF InspectSome, BatchInv
<1>2. UNCHANGED <<row, screen, poll, covered>> /\ run' = run /\ kept' = kept
  BY DEF InspectSome
<1> QED
  BY <1>1, <1>2, ScreenStays, RunsStay, KeptStays DEF BatchInv, ServerGoes, IdsStay

LEMMA NothingMoves ==
  ASSUME BatchInv, UNCHANGED <<row, run, screen, poll, covered, kept, server>>
  PROVE  BatchInv' /\ IdsStay
<1>1. ServerGoes
  BY ServerStays DEF BatchInv
<1>2. UNCHANGED <<row, screen, poll, covered>> /\ run' = run /\ kept' = kept
  OBVIOUS
<1> QED
  BY <1>1, <1>2, ScreenStays, RunsStay, KeptStays DEF BatchInv, ServerGoes, IdsStay

LEMMA BatchStarts ==
  ASSUME PrepareInit
  PROVE  BatchInv
<1>1. /\ row = [f \in Files |-> IF f \in Dropped \ Rejected
                                THEN [NewRow(f) EXCEPT !.stage = "checking"]
                                ELSE IF f \in Dropped THEN NewRow(f) ELSE NoRow]
      /\ run = [k \in 1..MaxRuns |-> IF k = 1 THEN NewRun("upload", "signing", Dropped \ Rejected)
                                     ELSE IdleRun]
      /\ got = {} /\ poll = PollOff /\ server = <<>>
      /\ covered = [f \in Files |-> 0] /\ kept = [f \in Files |-> 0]
  BY DEF PrepareInit, Init
<1>2. RowsHold
  <2>1. ASSUME NEW f \in Files PROVE row[f] \in ScreenRow /\ row[f].id = 0
    <3>1. NewRow(f) \in ScreenRow /\ NewRow(f).id = 0 /\ NoRow \in ScreenRow /\ NoRow.id = 0
      BY NoRows DEF NewRow, ScreenRow
    <3>2. PICK e \in ScreenRow : e = NewRow(f) /\ e.id = 0
      BY <3>1
    <3>3. [e EXCEPT !.stage = "checking"] \in ScreenRow /\ [e EXCEPT !.stage = "checking"].id = 0
      BY <3>2 DEF ScreenRow
    <3>4. row[f] = [e EXCEPT !.stage = "checking"] \/ row[f] = e \/ row[f] = NoRow
      BY <1>1, <3>2
    <3> QED
      BY <3>1, <3>2, <3>3, <3>4
  <2>2. row \in [Files -> ScreenRow]
    BY <1>1, <2>1
  <2>3. \A f \in Files : StandsFor(f, row[f].id) /\ StandsFor(f, covered[f])
    BY <1>1, <2>1 DEF StandsFor
  <2> QED
    BY <1>1, <2>2, <2>3 DEF RowsHold
<1>3. RunsHold
  <2>1. ASSUME NEW k \in 1..MaxRuns PROVE run[k] \in RunRow /\ \A f \in Files : run[k].id[f] = 0
    BY <1>1, NewRuns DEF IdleRun
  <2>2. run \in [1..MaxRuns -> RunRow]
    BY <1>1, <2>1
  <2> QED
    BY <2>1, <2>2 DEF RunsHold, StandsFor
<1>4. ServerHolds
  BY <1>1 DEF ServerHolds, Live
<1>5. KeptHolds
  BY <1>1 DEF KeptHolds, StandsFor
<1>6. PollHolds
  BY <1>1, NewPolls DEF PollHolds
<1>7. \A i \in Received : Whole(i)
  BY <1>1 DEF Received
<1> QED
  BY <1>2, <1>3, <1>4, <1>5, <1>6, <1>7 DEF BatchInv

LEMMA UploadsKeep ==
  ASSUME BatchInv, NEW k \in 1..MaxRuns, Uploads(k)
  PROVE  BatchInv' /\ (SignInv /\ WorkInv => KeepsFiles)
<1>1. CASE SignAnswered(k)
  BY <1>1, SignAnsweredKeeps
<1>2. CASE SignFailed(k)
  BY <1>2, SignFailedKeeps, IdsKeepFiles
<1>3. CASE ConfirmMissed(k)
  BY <1>3, ConfirmMissedKeeps, IdsKeepFiles
<1>4. ASSUME NEW f \in Files, PutSucceeds(k, f) \/ PutFails(k, f) PROVE BatchInv' /\ KeepsFiles
  BY <1>4, PutStepKeeps, IdsKeepFiles
<1>5. ASSUME NEW f \in Files, QuietConfirm(k, f) PROVE BatchInv' /\ KeepsFiles
  BY <1>5, QuietConfirmKeeps, IdsKeepFiles
<1> QED
  BY <1>1, <1>2, <1>3, <1>4, <1>5 DEF Uploads

LEMMA CallsKeep ==
  ASSUME BatchInv, NEW k \in 1..MaxRuns, Calls(k)
  PROVE  BatchInv' /\ IdsStay
BY SignReadsKeeps, SignCreatesKeeps, SignOverKeeps DEF Calls

LEMMA PersonKeeps ==
  ASSUME BatchInv, Person
  PROVE  BatchInv' /\ IdsStay
<1>1. ASSUME NEW S \in SUBSET (Files \ Dropped), AddFiles(S) PROVE BatchInv' /\ IdsStay
  <2>1. S \in SUBSET Files
    OBVIOUS
  <2> QED
    BY <1>1, <2>1, AddFilesKeeps
<1>2. ASSUME NEW f \in Files, RetryUpload(f) PROVE BatchInv' /\ IdsStay
  <2>1. SendAgain({f}) \/ RetryOne(f)
    BY <1>2 DEF RetryUpload
  <2> QED
    BY <2>1, SendAgainKeeps, RetryOneKeeps
<1>3. CASE RetryAllUploads
  BY <1>3, SendAgainKeeps DEF RetryAllUploads
<1>4. CASE DiscardFailed
  BY <1>4, DiscardFailedKeeps
<1>5. ASSUME NEW i \in Wont, DiscardFiles({i}) PROVE BatchInv' /\ IdsStay
  <2>1. {i} \in SUBSET Ids
    BY DEF Wont
  <2> QED
    BY <1>5, <2>1, DiscardFilesKeeps
<1>6. CASE DiscardFiles(Wont)
  <2>1. Wont \in SUBSET Ids
    BY DEF Wont
  <2> QED
    BY <1>6, <2>1, DiscardFilesKeeps
<1> QED
  BY <1>1, <1>2, <1>3, <1>4, <1>5, <1>6 DEF Person

LEMMA BatchStep ==
  ASSUME BatchInv, [PrepareNext]_prepareVars
  PROVE  BatchInv' /\ (SignInv /\ WorkInv => KeepsFiles)
<1>1. ASSUME NEW k \in 1..MaxRuns, Uploads(k) PROVE BatchInv' /\ (SignInv /\ WorkInv => KeepsFiles)
  BY <1>1, UploadsKeep
<1>2. CASE PollAsks
  BY <1>2, PollReads, IdsKeepFiles DEF PollAsks
<1>3. CASE PollTells
  BY <1>3, PollAnsweredKeeps, IdsKeepFiles DEF PollTells
<1>4. CASE PollIsLost
  BY <1>4, PollFailsKeeps, IdsKeepFiles DEF PollIsLost
<1>5. CASE Person
  BY <1>5, PersonKeeps, IdsKeepFiles
<1>6. CASE Convert
  <2>1. UNCHANGED <<row, run, screen, poll, covered, kept, server>>
    BY <1>6 DEF Convert
  <2> QED
    BY <2>1, NothingMoves, IdsKeepFiles
<1>7. CASE ReloadPage
  BY <1>7, ReloadKeeps DEF ReloadPage
<1>8. CASE InspectSome
  BY <1>8, InspectKeeps, IdsKeepFiles
<1>10. ASSUME NEW k \in 1..MaxRuns, Calls(k) PROVE BatchInv' /\ KeepsFiles
  BY <1>10, CallsKeep, IdsKeepFiles
<1>9. CASE UNCHANGED prepareVars
  <2>1. UNCHANGED <<row, run, screen, poll, covered, kept, server>>
    BY <1>9 DEF prepareVars, vars
  <2> QED
    BY <2>1, NothingMoves, IdsKeepFiles
<1> QED
  BY <1>1, <1>2, <1>3, <1>4, <1>5, <1>6, <1>7, <1>8, <1>9, <1>10 DEF PrepareNext

LEMMA BatchInvHolds == PrepareSpec => []BatchInv
<1>1. BatchInv /\ [PrepareNext]_prepareVars => BatchInv'
  BY BatchStep
<1> QED
  BY <1>1, BatchStarts, PTL DEF PrepareSpec

-----------------------------------------------------------------------------
\* A file the poll is told not to send again has every table here, with a shape or
\* without, however the two queries of an answer and the worker's one transaction fall
\* (DeltaIsWhole: the delta of pollSchemas).
THEOREM WholeFilesArrive == PrepareSpec => []DeltaIsWhole
<1>1. BatchInv => DeltaIsWhole
  BY DEF BatchInv, Whole, DeltaIsWhole
<1> QED
  BY <1>1, BatchInvHolds, PTL

\* A poll that stopped by itself has an answer for every file that has landed and that the
\* request still has, with any number of upload runs, reloads and discards beside it (StoppedIsSettled: allShapesIn
\* asked before the render, doneRef, and restartedFor).
THEOREM StopsWhenSettled == PrepareSpec => []StoppedIsSettled
<1>1. ASSUME BatchInv, poll.at = "ended", ~poll.exhausted
      PROVE  Landed(row) \cap Live \subseteq SettledFileIds
  <2>1. row \in [Files -> ScreenRow] /\ Stopped
    BY <1>1 DEF BatchInv, RowsHold, PollHolds
  <2> SUFFICES ASSUME NEW i \in Landed(row) \cap Live PROVE i \in SettledFileIds
    OBVIOUS
  <2>2. PICK f \in Files : row[f].id = i /\ LandedKey(row)[f] = i /\ i # 0
    BY <2>1, LandedFacts
  <2>3. covered[f] = i
    BY <2>1, <2>2 DEF Stopped
  <2>4. i \in SettledFileIds \/ server[i].deleted
    BY <1>1, <2>1, <2>2, <2>3 DEF Stopped
  <2> QED
    BY <2>4 DEF Live
<1>2. BatchInv => StoppedIsSettled
  BY <1>1 DEF StoppedIsSettled
<1> QED
  BY <1>2, BatchInvHolds, PTL

\* Where no two files of the list have one name, no two rows stand for one file of the
\* request (RowsAreApart: getSignedUrl, with runs side by side that sign in any order).
THEOREM RowsStayApart ==
  ASSUME DistinctNames
  PROVE  PrepareSpec => []RowsAreApart
<1>1. BatchInv => RowsAreApart
  BY DEF BatchInv, RowsHold, StandsFor, DistinctNames, RowsAreApart
<1> QED
  BY <1>1, BatchInvHolds, PTL

-----------------------------------------------------------------------------
(***************************************************************************)
(* The gate.  What has been answered for has arrived, and every query sees *)
(* it so from then on (FilesTell).  So an answer that keeps the gate shut, *)
(* or says that files are still being read, is about a file that has no    *)
(* answer yet, and the loop that stopped on it has left that file behind   *)
(* (EndTells).                                                             *)
(***************************************************************************)
SettledArrived == \A i \in SettledFileIds : i \in DOMAIN server /\ server[i].stage \notin Reading
FilesTell ==
    /\ \A i \in DOMAIN poll.files :
          /\ i \in DOMAIN server
          /\ poll.files[i] \notin Reading => server[i].stage \notin Reading
          /\ poll.files[i] \in Reading => i \in Live /\ i \notin SettledFileIds
    /\ poll.at \in {"files", "answered"} =>
          \A i \in Live : i \in SettledFileIds => i \in DOMAIN poll.files
EndTells ==
    poll.at = "ended" /\ ~poll.exhausted =>
        \/ gate /\ ~pending
        \/ converted
        \/ \A i \in Live : i \notin SettledFileIds
        \/ \E i \in Live : i \notin SettledFileIds
GateInv == SettledArrived /\ FilesTell /\ EndTells /\ (read => converted)

Restarts(p) == p = poll \/ (p.at \in {"asking", "off"} /\ p.files = <<>>)

LEMMA RenderedPoll ==
  ASSUME NEW r, Rendered(r, poll)
  PROVE  Restarts(poll')
<1>1. /\ Asking(1).at = "asking" /\ Asking(1).files = <<>>
      /\ PollOff.at = "off" /\ PollOff.files = <<>>
  BY DEF Asking, PollOff
<1>2. PICK a : a = [Asking(1) EXCEPT !.stopped = poll.stopped]
  OBVIOUS
<1>3. a.at = "asking" /\ a.files = <<>>
  BY <1>2 DEF Asking
<1>4. PICK b : b = [PollOff EXCEPT !.stopped = poll.stopped]
  OBVIOUS
<1>5. b.at = "off" /\ b.files = <<>>
  BY <1>4 DEF Asking, PollOff
<1>6. poll' = poll \/ poll' = PollOff \/ poll' = Asking(1) \/ poll' = a \/ poll' = b
  BY <1>2, <1>4 DEF Rendered
<1> QED
  BY <1>1, <1>3, <1>5, <1>6 DEF Restarts

\* A step that brings no answer: what has one keeps it or is discarded.
LEMMA GateStays ==
  ASSUME BatchInv, GateInv, ServerGoes, Restarts(poll'),
         \A i \in Live : i \in Live' \/ i \in SettledFileIds,
         \A i \in SettledFileIds' : i \in SettledFileIds,
         \A i \in SettledFileIds : i \in SettledFileIds' \/ i \notin Live',
         UNCHANGED <<pending, gate, read>>, converted => converted'
  PROVE  GateInv'
<1>1. SettledArrived'
  BY DEF GateInv, SettledArrived, ServerGoes, GoesOn
<1>2. \A i \in Live' : i \in DOMAIN server => i \in Live
  BY DEF Live, ServerGoes
<1>3. \A i \in SettledFileIds : i \in DOMAIN server
  BY DEF GateInv, SettledArrived
<1>4. FilesTell'
  <2>1. CASE poll' = poll
    <3>1. ASSUME NEW i \in DOMAIN poll.files
          PROVE  /\ i \in DOMAIN server'
                 /\ poll.files[i] \notin Reading => server'[i].stage \notin Reading
                 /\ poll.files[i] \in Reading => i \in Live' /\ i \notin SettledFileIds'
      BY DEF GateInv, FilesTell, ServerGoes, GoesOn
    <3>2. poll.at \in {"files", "answered"} =>
             \A i \in Live' : i \in SettledFileIds' => i \in DOMAIN poll.files
      BY <1>2, <1>3 DEF GateInv, FilesTell
    <3> QED
      BY <2>1, <3>1, <3>2 DEF FilesTell
  <2>2. CASE poll'.at \in {"asking", "off"} /\ poll'.files = <<>>
    BY <2>2 DEF FilesTell
  <2> QED
    BY <2>1, <2>2 DEF Restarts
<1>5. EndTells'
  <2>1. CASE poll' = poll
    <3> SUFFICES ASSUME poll.at = "ended", ~poll.exhausted PROVE EndTells'
      BY <2>1 DEF EndTells
    <3>1. CASE gate /\ ~pending
      BY <3>1 DEF EndTells
    <3>2. CASE converted
      BY <3>2 DEF EndTells
    <3>3. CASE \A i \in Live : i \notin SettledFileIds
      <4>1. \A i \in Live' : i \notin SettledFileIds'
        BY <1>2, <1>3, <3>3
      <4> QED
        BY <4>1 DEF EndTells
    <3>4. ASSUME NEW i \in Live, i \notin SettledFileIds PROVE EndTells'
      <4>1. i \in Live' /\ i \notin SettledFileIds'
        BY <3>4
      <4> QED
        BY <4>1 DEF EndTells
    <3> QED
      BY <3>1, <3>2, <3>3, <3>4 DEF GateInv, EndTells
  <2>2. CASE poll'.at \in {"asking", "off"}
    BY <2>2 DEF EndTells
  <2> QED
    BY <2>1, <2>2 DEF Restarts
<1> QED
  BY <1>1, <1>4, <1>5 DEF GateInv

LEMMA ScreenSettled ==
  ASSUME UNCHANGED screen
  PROVE  SettledFileIds' = SettledFileIds /\ pending' = pending
BY DEF screen, SettledFileIds, Received

\* The upload runs, the worker and what a person does, discards aside.
LEMMA QuietSteps ==
  ASSUME BatchInv, GateInv, ServerGoes, KeepsLive, Restarts(poll'), UNCHANGED screen,
         UNCHANGED <<gate, read>>, converted => converted'
  PROVE  GateInv'
BY ScreenSettled, GateStays DEF KeepsLive

LEMMA UploadsQuiet ==
  ASSUME BatchInv, NEW k \in 1..MaxRuns, Uploads(k)
  PROVE  ServerGoes /\ KeepsLive /\ Restarts(poll') /\ UNCHANGED screen
<1>1. ServerHolds
  BY DEF BatchInv
<1>3. CASE SignAnswered(k)
  BY <1>1, <1>3, ServerStays, RenderedPoll DEF SignAnswered
<1>4. CASE SignFailed(k)
  BY <1>1, <1>4, ServerStays, RenderedPoll DEF SignFailed
<1>5. CASE ConfirmMissed(k)
  <2>1. PICK ids : server' = server \/ server' = Confirmed(ids)
    BY <1>5 DEF ConfirmMissed
  <2>2. PICK r : Rendered(r, poll)
    BY <1>5 DEF ConfirmMissed, HearConfirm
  <2> QED
    BY <1>1, <1>5, <2>1, <2>2, ConfirmedGoes, ServerStays, RenderedPoll DEF ConfirmMissed
<1>6. ASSUME NEW f \in Files, PutSucceeds(k, f) \/ PutFails(k, f)
      PROVE  ServerGoes /\ KeepsLive /\ Restarts(poll') /\ UNCHANGED screen
  <2>1. ServerGoes /\ KeepsLive
    BY <1>1, <1>6, StoredGoes, ServerStays DEF PutSucceeds, PutFails
  <2>2. PICK t, s : PutEnds(k, f, t, s)
    BY <1>6 DEF PutSucceeds, PutFails
  <2>3. PICK r : Rendered(r, poll)
    BY <2>2 DEF PutEnds
  <2> QED
    BY <2>1, <2>2, <2>3, RenderedPoll DEF PutEnds
<1>7. ASSUME NEW f \in Files, QuietConfirm(k, f)
      PROVE  ServerGoes /\ KeepsLive /\ Restarts(poll') /\ UNCHANGED screen
  <2>1. PICK ids : server' = server \/ server' = Confirmed(ids)
    BY <1>7 DEF QuietConfirm
  <2>2. (\E r : Rendered(r, poll)) \/ poll' = poll
    BY <1>7 DEF QuietConfirm, HearConfirm
  <2>3. Restarts(poll')
    BY <2>2, RenderedPoll DEF Restarts
  <2> QED
    BY <1>1, <1>7, <2>1, <2>3, ConfirmedGoes, ServerStays DEF QuietConfirm
<1> QED
  BY <1>3, <1>4, <1>5, <1>6, <1>7 DEF Uploads

LEMMA CallsQuiet ==
  ASSUME BatchInv, NEW k \in 1..MaxRuns, Calls(k)
  PROVE  ServerGoes /\ KeepsLive /\ Restarts(poll') /\ UNCHANGED screen
<1>1. CASE SignReads(k) \/ SignOver(k)
  BY <1>1, ServerStays DEF SignReads, SignOver, BatchInv, Restarts
<1>2. CASE SignCreates(k)
  <2>1. PICK S \in Makes(run[k]) : server' = Created(S)
    BY <1>2 DEF SignCreates
  <2>2. S \in SUBSET Files
    BY MakesFiles
  <2> QED
    BY <1>2, <2>1, <2>2, CreatedGoes DEF SignCreates, BatchInv, Restarts
<1> QED
  BY <1>1, <1>2 DEF Calls

LEMMA ClosePoll ==
  ASSUME CloseBatch
  PROVE  Restarts(poll')
BY DEF CloseBatch, Restarts, PollOff, Asking

LEMMA PersonGate ==
  ASSUME BatchInv, GateInv, Person
  PROVE  GateInv'
<1>1. UNCHANGED <<gate, read, converted>>
  BY DEF Person, gating
<1>2. ServerHolds
  BY DEF BatchInv
<1>3. ASSUME server' = server, Restarts(poll'), UNCHANGED screen PROVE GateInv'
  BY <1>1, <1>2, <1>3, ServerStays, QuietSteps
<1>4. ASSUME NEW S, AddFiles(S) PROVE GateInv'
  <2>1. PICK r : Rendered(r, poll)
    BY <1>4 DEF AddFiles, StartsUpload
  <2> QED
    BY <1>3, <1>4, <2>1, RenderedPoll DEF AddFiles
<1>5. ASSUME NEW S, SendAgain(S) PROVE GateInv'
  BY <1>3, <1>5, RenderedPoll DEF SendAgain, StartsUpload
<1>6. ASSUME NEW f, RetryOne(f) PROVE GateInv'
  BY <1>3, <1>6, RenderedPoll DEF RetryOne
<1>7. CASE DiscardFailed
  <2>1. CloseBatch \/ \E r : Rendered(r, poll)
    BY <1>7 DEF DiscardFailed
  <2> QED
    BY <1>3, <1>7, <2>1, RenderedPoll, ClosePoll DEF DiscardFailed
<1>8. ASSUME NEW S, S \subseteq Wont, DiscardFiles(S) PROVE GateInv'
  <2>1. /\ ServerGoes
        /\ \A i \in DOMAIN server : i \in S => server'[i].deleted
        /\ \A i \in Live : i \in Live' \/ i \in S
    BY <1>2, <1>8, DiscardedGoes DEF DiscardFiles
  <2>2. \A i \in S : i \in SettledFileIds /\ i \in DOMAIN server
    BY <1>8 DEF Wont, SettledFileIds, GateInv, SettledArrived
  <2>3. CASE TakeOut(S) /\ UNCHANGED pending /\ Restarts(poll')
    <3>1. /\ got' = {x \in got : x[1] \notin S} /\ empty' = {x \in empty : x[1] \notin S}
          /\ wont' = [i \in Ids |-> IF i \in S THEN "no" ELSE wont[i]]
      BY <2>3 DEF TakeOut
    <3>2. \A i \in SettledFileIds' : i \in SettledFileIds
      BY <3>1 DEF SettledFileIds, Received
    <3>3. \A i \in SettledFileIds : i \in SettledFileIds' \/ i \in S
      BY <3>1 DEF SettledFileIds, Received
    <3>4. \A i \in S : i \notin Live'
      BY <2>1, <2>2 DEF Live
    <3> QED
      BY <1>1, <2>1, <2>2, <2>3, <3>2, <3>3, <3>4, GateStays
  <2>4. CASE UNCHANGED screen /\ poll' = poll
    BY <1>1, <2>1, <2>2, <2>4, ScreenSettled, GateStays DEF Restarts
  <2>5. \/ TakeOut(S) /\ UNCHANGED pending /\ (CloseBatch \/ \E r : Rendered(r, poll))
        \/ UNCHANGED screen /\ poll' = poll
    BY <1>8 DEF DiscardFiles
  <2> QED
    BY <2>3, <2>4, <2>5, RenderedPoll, ClosePoll
<1>9. ASSUME NEW i \in Wont PROVE {i} \subseteq Wont
  OBVIOUS
<1> QED
  BY <1>4, <1>5, <1>6, <1>7, <1>8, <1>9 DEF Person, RetryUpload, RetryAllUploads

LEMMA ReadsGate ==
  ASSUME BatchInv, GateInv, PollAsks
  PROVE  GateInv'
<1>1. /\ UNCHANGED <<row, screen, server, gate, converted>> /\ (read' => converted)
      /\ PollReadsFiles \/ PollReadsSchemas
  BY DEF PollAsks, PollReadsFiles, PollReadsSchemas, GateInv
<1>2. SettledFileIds' = SettledFileIds /\ Live' = Live
  BY <1>1, ScreenSettled DEF Live
<1>3. SettledArrived'
  BY <1>1, <1>2 DEF GateInv, SettledArrived
<1>4. PICK p : p = poll /\ IsPoll(p)
  BY DEF BatchInv, PollHolds
<1>5. poll'.at # "ended" /\ FilesTell'
  <2>1. CASE PollReadsFiles
    <3>1. PICK fs : fs = [i \in Live |-> server[i].stage]
      OBVIOUS
    <3>2. PICK at \in {"files", "answered"} : at = (IF p.at = "asking" THEN "files" ELSE "answered")
      OBVIOUS
    <3>3. PICK rc : rc = (IF p.at = "asking" THEN Received ELSE p.received)
      OBVIOUS
    <3>4. poll' = [p EXCEPT !.at = IF @ = "asking" THEN "files" ELSE "answered",
                            !.received = IF p.at = "asking" THEN Received ELSE @,
                            !.files = fs]
      BY <1>4, <2>1, <3>1 DEF PollReadsFiles
    <3>5. poll' = [[[p EXCEPT !.at = at] EXCEPT !.received = rc] EXCEPT !.files = fs]
      BY <1>4, <3>2, <3>3, <3>4 DEF IsPoll
    <3>6. poll'.at = at /\ poll'.files = fs
      BY <1>4, <3>5 DEF IsPoll
    <3>7. \A i \in DOMAIN fs : i \in Live /\ fs[i] = server[i].stage /\ i \in DOMAIN server
      BY <3>1 DEF Live
    <3>8. \A i \in Live : i \in DOMAIN fs
      BY <3>1
    <3> QED
      BY <1>1, <1>2, <3>2, <3>6, <3>7, <3>8 DEF FilesTell, GateInv, SettledArrived
  <2>2. CASE PollReadsSchemas
    <3>1. PICK sh : sh = [i \in DOMAIN server |-> [shapes |-> server[i].shapes, blank |-> server[i].blank]]
      OBVIOUS
    <3>2. PICK at \in {"shapes", "answered"} : at = (IF p.at = "asking" THEN "shapes" ELSE "answered")
      OBVIOUS
    <3>3. PICK rc : rc = (IF p.at = "asking" THEN Received ELSE p.received)
      OBVIOUS
    <3>4. poll' = [p EXCEPT !.at = IF @ = "asking" THEN "shapes" ELSE "answered",
                            !.received = IF p.at = "asking" THEN Received ELSE @,
                            !.shapes = sh]
      BY <1>4, <2>2, <3>1 DEF PollReadsSchemas
    <3>5. poll' = [[[p EXCEPT !.at = at] EXCEPT !.received = rc] EXCEPT !.shapes = sh]
      BY <1>4, <3>2, <3>3, <3>4 DEF IsPoll
    <3>6. poll'.at = at /\ poll'.files = p.files
      BY <1>4, <3>5 DEF IsPoll
    <3>7. at = "answered" => poll.at = "files"
      BY <1>4, <2>2, <3>2 DEF PollReadsSchemas
    <3> QED
      BY <1>1, <1>2, <1>4, <3>2, <3>6, <3>7 DEF FilesTell, GateInv
  <2> QED
    BY <1>1, <2>1, <2>2
<1> QED
  BY <1>1, <1>3, <1>5 DEF GateInv, EndTells

LEMMA OnwardFiles ==
  ASSUME IsPoll(poll), NEW b \in BOOLEAN
  PROVE  /\ Onward(b).files = <<>> /\ Onward(b).at \in {"ended", "asking"}
         /\ Onward(b).at = "ended" => Onward(b).exhausted = ~b
<1>1. CASE b \/ poll.n >= MaxPolls
  BY <1>1 DEF Onward, Asking
<1>2. CASE ~(b \/ poll.n >= MaxPolls)
  BY <1>2 DEF Onward, Asking
<1> QED
  BY <1>1, <1>2

\* The poll is out of its queries after an answer, or after none.
LEMMA AnswerOver ==
  ASSUME IsPoll(poll), NEW b \in BOOLEAN, Rendered(row, Onward(b))
  PROVE  /\ poll'.files = <<>> /\ poll'.at \in {"ended", "asking", "off"}
         /\ poll'.at = "ended" => poll'.exhausted = ~b
<1>1. PICK p : p = Onward(b) /\ p.files = <<>> /\ p.at \in {"ended", "asking"}
               /\ (p.at = "ended" => p.exhausted = ~b)
  BY OnwardFiles
<1>2. /\ Asking(1).at = "asking" /\ Asking(1).files = <<>>
      /\ PollOff.at = "off" /\ PollOff.files = <<>>
  BY DEF Asking, PollOff
<1>3. PICK c : c = [Asking(1) EXCEPT !.stopped = p.stopped]
  OBVIOUS
<1>4. c.at = "asking" /\ c.files = <<>>
  BY <1>3 DEF Asking
<1>5. PICK d : d = [PollOff EXCEPT !.stopped = p.stopped]
  OBVIOUS
<1>6. d.at = "off" /\ d.files = <<>>
  BY <1>5 DEF Asking, PollOff
<1>7. Rendered(row, p)
  BY <1>1
<1>8. poll' = p \/ poll' = PollOff \/ poll' = Asking(1) \/ poll' = c \/ poll' = d
  BY <1>3, <1>5, <1>7 DEF Rendered
<1> QED
  BY <1>1, <1>2, <1>4, <1>6, <1>8

LEMMA LostGate ==
  ASSUME BatchInv, GateInv, PollIsLost
  PROVE  GateInv'
<1>1. /\ UNCHANGED <<row, screen, server, gate, converted>> /\ read' = FALSE
      /\ Rendered(row, Onward(FALSE))
  BY DEF PollIsLost, PollFails, Rendered
<1>2. SettledFileIds' = SettledFileIds
  BY <1>1, ScreenSettled
<1>3. /\ poll'.files = <<>> /\ poll'.at \in {"ended", "asking", "off"}
      /\ poll'.at = "ended" => poll'.exhausted
  BY <1>1, AnswerOver DEF BatchInv, PollHolds
<1>4. SettledArrived'
  BY <1>1, <1>2 DEF GateInv, SettledArrived
<1>5. FilesTell' /\ EndTells'
  BY <1>3 DEF FilesTell, EndTells
<1> QED
  BY <1>1, <1>4, <1>5 DEF GateInv

\* The answer: what is new in what has been answered for is of the delta, and the gate
\* and `pending` are about the rest.
LEMMA AnswerGate ==
  ASSUME BatchInv, GateInv, PollTells
  PROVE  GateInv'
<1>1. /\ got' = got \cup UNION {{i} \X Found(i).shapes : i \in Ready}
      /\ empty' = empty \cup UNION {{i} \X Found(i).blank : i \in Ready}
      /\ wont' = FileFailures /\ pending' = (Unread # {})
      /\ Rendered(row, Onward(AllShapesIn)) /\ UNCHANGED <<row, server, converted>>
      /\ gate' = GateOf(poll.files, read) /\ read' = FALSE /\ poll.at = "answered"
  BY DEF PollTells, PollAnswered, Rendered
<1>2. PICK b \in BOOLEAN : b = AllShapesIn
  BY DEF AllShapesIn
<1>3. /\ poll'.files = <<>> /\ poll'.at \in {"ended", "asking", "off"}
      /\ poll'.at = "ended" => poll'.exhausted = ~b
  BY <1>1, <1>2, AnswerOver DEF BatchInv, PollHolds
<1>4. \A i \in SettledFileIds' : i \in SettledFileIds \/ i \in Fresh
  <2>1. \A x \in got' : x \in got \/ x[1] \in Fresh
    <3> SUFFICES ASSUME NEW x \in got', x \notin got PROVE x[1] \in Fresh
      OBVIOUS
    <3>1. PICK j \in Ready : x \in {j} \X Found(j).shapes
      BY <1>1
    <3>2. x[1] = j /\ j \in Fresh
      BY <3>1 DEF Ready
    <3> QED
      BY <3>2
  <2>2. \A x \in empty' : x \in empty \/ x[1] \in Fresh
    <3> SUFFICES ASSUME NEW x \in empty', x \notin empty PROVE x[1] \in Fresh
      OBVIOUS
    <3>1. PICK j \in Ready : x \in {j} \X Found(j).blank
      BY <1>1
    <3>2. x[1] = j /\ j \in Fresh
      BY <3>1 DEF Ready
    <3> QED
      BY <3>2
  <2>3. \A i \in Ids : wont'[i] # "no" => wont[i] # "no" \/ i \in Fresh
    BY <1>1 DEF FileFailures, Broken, Nothing
  <2> QED
    BY <2>1, <2>2, <2>3 DEF SettledFileIds, Received
<1>5. \A i \in Fresh : i \in DOMAIN poll.files /\ poll.files[i] \notin Reading
  BY DEF Fresh, Unread
<1>6. SettledArrived'
  BY <1>1, <1>4, <1>5 DEF GateInv, SettledArrived, FilesTell
<1>7. ASSUME NEW i \in Unread PROVE i \in Live' /\ i \notin SettledFileIds'
  <2>1. i \in DOMAIN poll.files /\ poll.files[i] \in Reading
    BY DEF Unread
  <2>2. i \in Live /\ i \notin SettledFileIds
    BY <2>1 DEF GateInv, FilesTell
  <2> QED
    BY <1>1, <1>4, <1>5, <2>1, <2>2 DEF Live
<1>8. ASSUME DOMAIN poll.files = {} PROVE \A i \in Live' : i \notin SettledFileIds'
  <2>1. \A i \in Live : i \notin SettledFileIds
    BY <1>1, <1>8 DEF GateInv, FilesTell
  <2> QED
    BY <1>1, <1>4, <1>5, <1>8, <2>1 DEF Live
<1>9. EndTells'
  <2>1. CASE Unread # {}
    BY <1>7, <2>1 DEF EndTells
  <2>2. CASE DOMAIN poll.files = {}
    BY <1>8, <2>2 DEF EndTells
  <2>3. CASE read
    BY <1>1, <2>3 DEF GateInv, EndTells
  <2>4. CASE Unread = {} /\ DOMAIN poll.files # {} /\ ~read
    <3>1. Arriving(poll.files) = {}
      BY <2>4 DEF Arriving, Unread, Reading
    <3>2. gate' /\ ~pending'
      BY <1>1, <2>4, <3>1 DEF GateOf
    <3> QED
      BY <3>2 DEF EndTells
  <2> QED
    BY <2>1, <2>2, <2>3, <2>4
<1>10. FilesTell'
  BY <1>3 DEF FilesTell
<1> QED
  BY <1>1, <1>6, <1>9, <1>10 DEF GateInv

LEMMA ReloadGate ==
  ASSUME BatchInv, GateInv, ReloadPage
  PROVE  GateInv'
<1>1. /\ got' = {} /\ wont' = [i \in Ids |-> "no"] /\ empty' = {} /\ poll' = Asking(1) /\ read' = FALSE
  BY DEF ReloadPage, Reload
<1>2. SettledFileIds' = {}
  BY <1>1 DEF SettledFileIds, Received
<1>3. poll'.at = "asking" /\ poll'.files = <<>>
  BY <1>1 DEF Asking
<1> QED
  BY <1>1, <1>2, <1>3 DEF GateInv, SettledArrived, FilesTell, EndTells

LEMMA GateStarts ==
  ASSUME PrepareInit
  PROVE  GateInv
<1>1. got = {} /\ wont = [i \in Ids |-> "no"] /\ empty = {} /\ poll = PollOff /\ read = FALSE
  BY DEF PrepareInit, Init
<1>2. SettledFileIds = {}
  BY <1>1 DEF SettledFileIds, Received
<1>3. poll.at = "off" /\ poll.files = <<>>
  BY <1>1 DEF PollOff, Asking
<1> QED
  BY <1>1, <1>2, <1>3 DEF GateInv, SettledArrived, FilesTell, EndTells

LEMMA GateStep ==
  ASSUME BatchInv, GateInv, [PrepareNext]_prepareVars
  PROVE  GateInv'
<1>1. ASSUME NEW k \in 1..MaxRuns, Uploads(k), UNCHANGED gating PROVE GateInv'
  BY <1>1, UploadsQuiet, QuietSteps DEF gating
<1>5. ASSUME NEW k \in 1..MaxRuns, Calls(k), UNCHANGED gating PROVE GateInv'
  BY <1>5, CallsQuiet, QuietSteps DEF gating
<1>2. CASE InspectSome /\ UNCHANGED gating
  <2>1. ServerGoes /\ KeepsLive
    BY <1>2, InspectGoes DEF InspectSome, BatchInv
  <2> QED
    BY <1>2, <2>1, QuietSteps DEF InspectSome, Restarts, gating
<1>3. CASE Convert
  BY <1>3, ServerStays, QuietSteps DEF Convert, BatchInv, Restarts
<1>4. CASE UNCHANGED prepareVars
  <2>1. UNCHANGED <<screen, poll, server, gate, read, converted>>
    BY <1>4 DEF prepareVars, vars, gating
  <2> QED
    BY <2>1, ServerStays, QuietSteps DEF BatchInv, Restarts
<1> QED
  BY <1>1, <1>2, <1>3, <1>4, <1>5, ReadsGate, AnswerGate, LostGate, PersonGate, ReloadGate DEF PrepareNext

\* Files of distinct names with rows of their own are no more than the files answered for.
LEMMA SettledFinite ==
  ASSUME BatchInv, GateInv
  PROVE  IsFiniteSet(SettledFileIds)
<1>1. Len(server) \in Nat /\ DOMAIN server = 1..Len(server)
  BY DEF BatchInv, ServerHolds
<1>2. SettledFileIds \in SUBSET (1..Len(server))
  BY <1>1 DEF GateInv, SettledArrived
<1>3. IsFiniteSet(1..Len(server))
  BY <1>1, FS_Interval
<1> QED
  BY <1>2, <1>3, FS_Subset

LEMMA RowsCounted ==
  ASSUME NEW A \in SUBSET Files, NEW T, IsFiniteSet(T), NEW g \in [A -> T],
         \A f, h \in A : g[f] = g[h] => f = h
  PROVE  Cardinality(A) <= Cardinality(T)
<1>1. IsFiniteSet(A)
  BY FilesFinite
<1>2. g \in Injection(A, T)
  BY DEF Injection, IsInjective
<1> QED
  BY <1>1, <1>2, FS_Injection

\* When the poll has stopped by itself and every row has landed, nobody waits for a
\* Convert button that stays shut: whatever runs overlapped, whichever answer was the
\* last, reloads, retries and discards with lost answers included (SettledIsOpen).
THEOREM SettledOpens ==
  ASSUME DistinctNames
  PROVE  PrepareSpec => []SettledIsOpen
<1>1. ASSUME BatchInv, GateInv, poll.at = "ended", ~poll.exhausted, FilesTicked,
             Live = {row[f].id : f \in Accepted}, ~converted
      PROVE  gate /\ ~Detecting /\ SchemasTicked
  <2>1. Accepted \in SUBSET Files /\ Accepted # {} /\ \A f \in Accepted : row[f].stage = "uploaded"
    BY <1>1 DEF FilesTicked, Accepted
  <2>2. \A f \in Accepted : row[f].id \in Live /\ row[f].id # 0
    <3>1. 0 \notin Live
      BY <1>1 DEF Live, BatchInv, ServerHolds
    <3> QED
      BY <1>1, <3>1
  <2>3. \A f \in Accepted : row[f].id \in SettledFileIds
    <3>1. row \in [Files -> ScreenRow] /\ Stopped
      BY <1>1 DEF BatchInv, RowsHold, PollHolds
    <3>2. \A f \in Accepted : LandedKey(row)[f] = row[f].id /\ row[f].id \in Landed(row)
      BY <2>1, <2>2 DEF LandedKey, Landed
    <3>3. LandedKey(row) = covered
      BY <2>1, <3>1, <3>2 DEF Stopped
    <3> SUFFICES ASSUME NEW f \in Accepted PROVE row[f].id \in SettledFileIds
      OBVIOUS
    <3>4. covered[f] = row[f].id /\ row[f].id # 0 /\ f \in Files
      BY <2>1, <2>2, <3>2, <3>3
    <3>5. covered[f] \in SettledFileIds \/ server[covered[f]].deleted
      BY <1>1, <3>1, <3>4 DEF Stopped
    <3> QED
      BY <2>2, <3>4, <3>5 DEF Live
  <2>4. gate /\ ~pending
    BY <1>1, <2>1, <2>2, <2>3 DEF GateInv, EndTells
  <2>5. ~Detecting
    <3>1. Awaiting = {}
      BY <2>3 DEF Awaiting
    <3> QED
      BY <1>1, <2>4, <3>1 DEF Detecting, Unnamed, Blank
  <2>6. SchemasTicked
    <3>1. PICK g : g = [f \in Accepted |-> row[f].id]
      OBVIOUS
    <3>2. g \in [Accepted -> SettledFileIds]
      BY <2>3, <3>1
    <3>3. \A f, h \in Accepted : g[f] = g[h] => f = h
      BY <1>1, <2>1, <2>2, <3>1 DEF BatchInv, RowsHold, StandsFor, DistinctNames
    <3>4. Cardinality(Accepted) <= Cardinality(SettledFileIds)
      BY <1>1, <2>1, <3>2, <3>3, SettledFinite, RowsCounted
    <3>5. Cardinality(Accepted) \in Nat /\ Cardinality(SettledFileIds) \in Nat
      BY <1>1, <2>1, FilesFinite, SettledFinite, FS_CardinalityType
    <3> QED
      BY <2>1, <3>4, <3>5 DEF SchemasTicked
  <2> QED
    BY <2>4, <2>5, <2>6
<1>2. BatchInv /\ GateInv => SettledIsOpen
  BY <1>1 DEF SettledIsOpen
<1>3. BatchInv /\ GateInv /\ [PrepareNext]_prepareVars => GateInv'
  BY GateStep
<1> QED
  BY <1>2, <1>3, GateStarts, BatchInvHolds, PTL DEF PrepareSpec

-----------------------------------------------------------------------------
(***************************************************************************)
(* The calls that sign.  But for the files in `twice` there is one run to  *)
(* a file (WorkInv), and so one call that makes a row of its name, after   *)
(* it has read that there is none (SignInv).                               *)
(***************************************************************************)

\* What every step but a call's own, or the start of a run, makes of a run.
CallStays(k) ==
    \/ run'[k] = run[k]
    \/ /\ run'[k].at = run[k].at /\ run'[k].at \in Signing
       /\ run'[k].id = run[k].id /\ run'[k].task = run[k].task
    \/ /\ run'[k].at \notin Signing /\ run'[k].kind # "lost"
       /\ \A f \in Files : AtWork(run'[k], f) => AtWork(run[k], f)
OwnKept == WorkInv' /\ (DistinctNames /\ SignInv => SignInv')
NoNewNames == \A f \in Files : \A i \in Live' : server'[i].name = NameOf[f] => i \in Bearing(NameOf[f])

LEMMA IdleFacts ==
  /\ IdleRun.at = "idle" /\ IdleRun.kind = "upload" /\ \A f \in Files : IdleRun.task[f] = "none"
BY DEF IdleRun, NewRun

LEMMA CallsStay ==
  ASSUME WorkInv, NoNewNames, \A k \in 1..MaxRuns : CallStays(k), twice \subseteq twice'
  PROVE  OwnKept
<1>1. ASSUME NEW k \in 1..MaxRuns, NEW f \in Files, AtWork(run'[k], f) PROVE AtWork(run[k], f)
  BY <1>1 DEF CallStays, AtWork
<1>2. ASSUME NEW k \in 1..MaxRuns PROVE Calling(run'[k])
  BY DEF WorkInv, CallStays, Calling
<1>3. WorkInv'
  <2>1. \A f \in Files \ twice', j, k \in 1..MaxRuns : AtWork(run'[j], f) /\ AtWork(run'[k], f) => j = k
    BY <1>1 DEF WorkInv
  <2>2. (\A k \in 1..MaxRuns : Calling(run[k]))' /\ (\A f \in Files \ twice, j, k \in 1..MaxRuns :
            AtWork(run[j], f) /\ AtWork(run[k], f) => j = k)'
    BY <1>2, <2>1 DEF Calling, AtWork
  <2> QED
    BY <2>2 DEF WorkInv
<1>4. \A f \in Files : Bearing(NameOf[f])' \subseteq Bearing(NameOf[f])
  BY DEF NoNewNames, Bearing
<1>5. ASSUME SignInv, NEW k \in 1..MaxRuns, NEW f \in Files \ twice',
             run'[k].task[f] = "queued", run'[k].at \in {"planned", "replayed"}
      PROVE  Bearing(NameOf[f])' \subseteq {run'[k].id[f]} /\ (run'[k].at = "planned" => run'[k].id[f] = 0)
  <2>1. run'[k].at \in Signing
    BY <1>5 DEF Signing
  <2>2. run'[k].at = run[k].at /\ run'[k].id = run[k].id /\ run'[k].task = run[k].task
    BY <2>1 DEF CallStays
  <2>3. Bearing(NameOf[f]) \subseteq {run[k].id[f]} /\ (run[k].at = "planned" => run[k].id[f] = 0)
    BY <1>5, <2>2 DEF SignInv
  <2> QED
    BY <1>4, <2>2, <2>3
<1>6. SignInv => \A f \in Files \ twice' : \A i, j \in Bearing(NameOf[f])' : i = j
  BY <1>4 DEF SignInv
<1>7. SignInv => SignInv'
  <2>1. \A f \in Files \ twice' : NameOf[f]' = NameOf[f]
    OBVIOUS
  <2> QED
    BY <1>5, <1>6, <2>1 DEF SignInv
<1> QED
  BY <1>3, <1>7 DEF OwnKept

\* No row is made but by createUploadUrls.
LEMMA SameNames ==
  ASSUME ServerGoes, DOMAIN server' = DOMAIN server
  PROVE  NoNewNames
BY DEF ServerGoes, NoNewNames, Bearing, Live

\* A call reads: a name without a row has none, and one with a row has no other.
LEMMA ReadsOwn ==
  ASSUME BatchInv, WorkInv, NEW k \in 1..MaxRuns, SignReads(k)
  PROVE  OwnKept
<1> DEFINE S == FilesOf(run[k])
<1>1. S \in SUBSET Files /\ run[k] \in RunRow /\ run \in [1..MaxRuns -> RunRow]
  BY ARun DEF BatchInv, RunsHold
<1>2. PICK p \in Pairings(S), at \in {"planned", "replayed"} :
        /\ run' = [run EXCEPT ![k].at = at, ![k].id = p] /\ (at = "planned" => server = <<>>)
        /\ run[k].at = "signing" /\ server' = server /\ twice' = twice
  BY DEF SignReads
<1>3. PICK x : x = run'[k] /\ x.at = at /\ x.id = p /\ x.task = run[k].task /\ x.kind = run[k].kind
  <2>1. PICK e \in RunRow : e = run[k]
    BY <1>1
  <2>2. run' = [run EXCEPT ![k] = [e EXCEPT !.at = at, !.id = p]]
    BY <1>2, <2>1
  <2>3. run'[k] = [e EXCEPT !.at = at, !.id = p]
    BY <1>1, <2>2
  <2> QED
    BY <2>1, <2>3 DEF RunRow
<1>4. \A j \in 1..MaxRuns \ {k} : run'[j] = run[j]
  BY <1>1, <1>2
<1>5. \A f \in Files : Bearing(NameOf[f])' = Bearing(NameOf[f])
  BY <1>2 DEF Bearing, Live
<1>6. WorkInv'
  <2>1. \A j \in 1..MaxRuns, f \in Files : AtWork(run'[j], f) <=> AtWork(run[j], f)
    BY <1>3, <1>4 DEF AtWork
  <2>2. \A j \in 1..MaxRuns : Calling(run'[j])
    <3>1. Calling(run'[k])
      BY <1>2, <1>3 DEF WorkInv, Calling, Signing
    <3> QED
      BY <1>4, <3>1 DEF WorkInv
  <2>3. \A f \in Files \ twice', i, j \in 1..MaxRuns : AtWork(run'[i], f) /\ AtWork(run'[j], f) => i = j
    BY <1>2, <2>1 DEF WorkInv
  <2> QED
    BY <2>2, <2>3 DEF WorkInv, Calling, AtWork
<1>7. ASSUME DistinctNames, SignInv, NEW f \in Files \ twice, run[k].task[f] = "queued"
      PROVE  Bearing(NameOf[f]) \subseteq {p[f]} /\ (at = "planned" => p[f] = 0)
  <2>1. f \in S
    BY <1>7 DEF FilesOf
  <2>2. f \in Unpaired(S) <=> Bearing(NameOf[f]) = {}
    BY <1>1, <1>7, <2>1, UnpairedFacts DEF BatchInv
  <2>3. IF f \in S \ Unpaired(S) THEN p[f] \in Bearing(NameOf[f]) ELSE p[f] = 0
    BY <1>1, <2>1 DEF Pairings
  <2>4. at = "planned" => Bearing(NameOf[f]) = {}
    BY <1>2 DEF Bearing, Live
  <2> QED
    BY <1>7, <2>1, <2>2, <2>3, <2>4 DEF SignInv
<1>8. ASSUME DistinctNames, SignInv, NEW f \in Files \ twice, NEW i \in Bearing(NameOf[f])', NEW j \in Bearing(NameOf[f])'
      PROVE  i = j
  BY <1>5, <1>8 DEF SignInv
<1>9. ASSUME DistinctNames, SignInv, NEW j \in 1..MaxRuns, NEW f \in Files \ twice,
             run'[j].task[f] = "queued", run'[j].at \in {"planned", "replayed"}
      PROVE  Bearing(NameOf[f])' \subseteq {run'[j].id[f]} /\ (run'[j].at = "planned" => run'[j].id[f] = 0)
  <2>1. Bearing(NameOf[f]) \subseteq {run'[j].id[f]} /\ (run'[j].at = "planned" => run'[j].id[f] = 0)
    <3>1. CASE j = k
      BY <1>3, <1>7, <1>9, <3>1
    <3>2. CASE j # k
      BY <1>4, <1>9, <3>2 DEF SignInv
    <3> QED
      BY <3>1, <3>2
  <2> QED
    BY <1>5, <2>1
<1>10. DistinctNames /\ SignInv => SignInv'
  BY <1>2, <1>8, <1>9 DEF SignInv
<1> QED
  BY <1>6, <1>10 DEF OwnKept

\* A call makes rows: no other call makes one of those names, so there is no other.
LEMMA CreatesOwn ==
  ASSUME BatchInv, WorkInv, NEW k \in 1..MaxRuns, SignCreates(k)
  PROVE  OwnKept
<1>1. run[k] \in RunRow /\ run \in [1..MaxRuns -> RunRow]
  BY ARun DEF BatchInv, RunsHold
<1>2. PICK S \in Makes(run[k]) :
        /\ server' = Created(S)
        /\ run' = [run EXCEPT ![k].at = "replayed",
                              ![k].id = [f \in Files |-> IF f \in S THEN NewId(S, f) ELSE @[f]]]
        /\ twice' = twice
  BY DEF SignCreates
<1>3. S \in SUBSET Files /\ S \subseteq FilesOf(run[k]) /\ run[k].at \in {"planned", "replayed"}
      /\ (run[k].at = "replayed" => \A f \in S : run[k].id[f] = 0)
      /\ (run[k].at = "planned" => S = FilesOf(run[k]))
  BY MakesFiles DEF Makes, Unmade
<1>4. /\ \A f \in S : /\ NewId(S, f) \in DOMAIN server'
                      /\ server'[NewId(S, f)].name = NameOf[f]
      /\ \A i \in DOMAIN server : server'[i] = server[i]
      /\ \A i \in DOMAIN server' : i \in DOMAIN server \/ \E f \in S : i = NewId(S, f)
  BY <1>2, <1>3, CreatedGoes DEF BatchInv
<1>5. PICK x : /\ x = run'[k] /\ x.at = "replayed" /\ x.task = run[k].task /\ x.kind = run[k].kind
               /\ \A f \in Files : x.id[f] = (IF f \in S THEN NewId(S, f) ELSE run[k].id[f])
  <2>1. PICK e \in RunRow : e = run[k]
    BY <1>1
  <2>2. PICK ids : ids = [f \in Files |-> IF f \in S THEN NewId(S, f) ELSE e.id[f]]
    OBVIOUS
  <2>3. run' = [run EXCEPT ![k] = [e EXCEPT !.at = "replayed", !.id = ids]]
    BY <1>2, <2>1, <2>2
  <2>4. run'[k] = [e EXCEPT !.at = "replayed", !.id = ids]
    BY <1>1, <2>3
  <2>5. \A f \in Files : ids[f] = (IF f \in S THEN NewId(S, f) ELSE e.id[f])
    BY <2>2
  <2>6. PICK y : y = [e EXCEPT !.at = "replayed", !.id = ids]
    OBVIOUS
  <2>7. y.at = "replayed" /\ y.id = ids /\ y.task = e.task /\ y.kind = e.kind
    BY <2>6 DEF RunRow
  <2>8. y = run'[k] /\ y.at = "replayed" /\ y.task = run[k].task /\ y.kind = run[k].kind
    BY <2>1, <2>4, <2>6, <2>7
  <2>9. \A f \in Files : y.id[f] = (IF f \in S THEN NewId(S, f) ELSE run[k].id[f])
    BY <2>1, <2>5, <2>7
  <2> QED
    BY <2>8, <2>9
<1>6. \A j \in 1..MaxRuns \ {k} : run'[j] = run[j]
  BY <1>1, <1>2
<1>7. \A f \in FilesOf(run[k]) : f \in Files /\ run[k].task[f] = "queued" /\ AtWork(run[k], f)
  BY <1>3 DEF WorkInv, Calling, Signing, FilesOf, AtWork
<1>8. ASSUME SignInv PROVE \A f \in S \ twice : Bearing(NameOf[f]) = {}
  <2> SUFFICES ASSUME NEW f \in S \ twice, NEW i \in Bearing(NameOf[f]) PROVE FALSE
    OBVIOUS
  <2>1. run[k].id[f] = 0 /\ Bearing(NameOf[f]) \subseteq {run[k].id[f]}
    BY <1>3, <1>7, <1>8 DEF SignInv
  <2>2. 0 \notin DOMAIN server
    BY DEF BatchInv, ServerHolds
  <2> QED
    BY <2>1, <2>2 DEF Bearing, Live
<1>9. ASSUME DistinctNames, NEW f \in Files, NEW i \in Bearing(NameOf[f])'
      PROVE  i \in Bearing(NameOf[f]) \/ (f \in S /\ i = NewId(S, f))
  <2>1. i \in DOMAIN server' /\ ~server'[i].deleted /\ server'[i].name = NameOf[f]
    BY <1>9 DEF Bearing, Live
  <2>2. CASE i \in DOMAIN server
    BY <1>4, <2>1, <2>2 DEF Bearing, Live
  <2>3. ASSUME NEW g \in S, i = NewId(S, g) PROVE f \in S /\ i = NewId(S, f)
    <3>1. NameOf[g] = NameOf[f]
      BY <1>4, <2>1, <2>3
    <3>2. g = f
      BY <1>3, <1>9, <3>1 DEF DistinctNames
    <3> QED
      BY <2>3, <3>2
  <2> QED
    BY <1>4, <2>1, <2>2, <2>3
<1>10. WorkInv'
  <2>1. \A j \in 1..MaxRuns, f \in Files : AtWork(run'[j], f) <=> AtWork(run[j], f)
    BY <1>5, <1>6 DEF AtWork
  <2>2. \A j \in 1..MaxRuns : Calling(run'[j])
    <3>1. Calling(run'[k])
      BY <1>3, <1>5 DEF WorkInv, Calling, Signing
    <3> QED
      BY <1>6, <3>1 DEF WorkInv
  <2>3. \A f \in Files \ twice', i, j \in 1..MaxRuns : AtWork(run'[i], f) /\ AtWork(run'[j], f) => i = j
    BY <1>2, <2>1 DEF WorkInv
  <2> QED
    BY <2>2, <2>3 DEF WorkInv, Calling, AtWork
<1>11. ASSUME DistinctNames, SignInv, NEW f \in Files \ twice, NEW i \in Bearing(NameOf[f])', NEW j \in Bearing(NameOf[f])'
       PROVE  i = j
  <2>1. CASE f \in S
    BY <1>8, <1>9, <1>11, <2>1
  <2>2. CASE f \notin S
    BY <1>9, <1>11, <2>2 DEF SignInv
  <2> QED
    BY <2>1, <2>2
<1>12. ASSUME DistinctNames, SignInv, NEW j \in 1..MaxRuns, NEW f \in Files \ twice,
              run'[j].task[f] = "queued", run'[j].at \in {"planned", "replayed"}
       PROVE  Bearing(NameOf[f])' \subseteq {run'[j].id[f]} /\ (run'[j].at = "planned" => run'[j].id[f] = 0)
  <2>1. CASE f \in S
    <3>1. j = k
      <4>1. AtWork(run'[j], f)
        BY <1>12 DEF AtWork
      <4>2. AtWork(run[j], f)
        BY <1>5, <1>6, <4>1 DEF AtWork
      <4>3. AtWork(run[k], f)
        BY <1>3, <1>7, <2>1
      <4> QED
        BY <4>2, <4>3 DEF WorkInv
    <3> QED
      BY <1>5, <1>8, <1>9, <1>12, <2>1, <3>1
  <2>2. CASE f \notin S /\ j # k
    BY <1>6, <1>9, <1>12, <2>2 DEF SignInv
  <2>3. CASE f \notin S /\ j = k
    <3>1. run[k].task[f] = "queued"
      BY <1>5, <1>12, <2>3
    <3>2. Bearing(NameOf[f]) \subseteq {run[k].id[f]}
      BY <1>3, <1>12, <3>1 DEF SignInv
    <3> QED
      BY <1>5, <1>9, <1>12, <2>3, <3>2
  <2> QED
    BY <2>1, <2>2, <2>3
<1>13. DistinctNames /\ SignInv => SignInv'
  BY <1>2, <1>11, <1>12 DEF SignInv
<1> QED
  BY <1>10, <1>13 DEF OwnKept

\* A run begins: whoever is at work on one of its files is in `twice` from now on.
LEMMA BeginsOwn ==
  ASSUME BatchInv, WorkInv, NEW x, Begin(x), server' = server,
         x.at \in {"signing", "sending"}, x.kind # "lost",
         \A f \in Files : x.task[f] \in {"none", "queued"}
  PROVE  OwnKept
<1>1. PICK k \in 1..MaxRuns : run[k] = IdleRun /\ run' = [run EXCEPT ![k] = x]
  BY DEF Begin
<1>2. run'[k] = x /\ \A j \in 1..MaxRuns \ {k} : run'[j] = run[j]
  BY <1>1 DEF BatchInv, RunsHold
<1>3. /\ twice \subseteq twice'
      /\ \A f \in Files \ twice', j \in 1..MaxRuns : x.task[f] # "none" => ~AtWork(run[j], f)
  BY DEF Begin, FilesOf
<1>4. \A f \in Files : Bearing(NameOf[f])' = Bearing(NameOf[f])
  BY DEF Bearing, Live
<1>5. ASSUME NEW f \in Files \ twice', NEW i \in 1..MaxRuns, NEW j \in 1..MaxRuns,
             AtWork(run'[i], f), AtWork(run'[j], f)
      PROVE  i = j
  <2>1. CASE i # k /\ j # k
    BY <1>2, <1>3, <1>5, <2>1 DEF WorkInv
  <2>2. CASE i = k /\ j # k
    BY <1>2, <1>3, <1>5, <2>2 DEF AtWork
  <2>3. CASE i # k /\ j = k
    BY <1>2, <1>3, <1>5, <2>3 DEF AtWork
  <2> QED
    BY <2>1, <2>2, <2>3
<1>6. \A j \in 1..MaxRuns : Calling(run'[j])
  BY <1>2 DEF WorkInv, Calling
<1>7. WorkInv'
  BY <1>5, <1>6 DEF WorkInv, Calling, AtWork
<1>8. ASSUME SignInv, NEW j \in 1..MaxRuns, NEW f \in Files \ twice',
             run'[j].task[f] = "queued", run'[j].at \in {"planned", "replayed"}
      PROVE  Bearing(NameOf[f]) \subseteq {run'[j].id[f]} /\ (run'[j].at = "planned" => run'[j].id[f] = 0)
  <2>1. run[j] = run'[j]
    BY <1>2, <1>8
  <2>2. f \in Files \ twice
    BY <1>3
  <2>3. run[j].task[f] = "queued" /\ run[j].at \in {"planned", "replayed"}
    BY <1>8, <2>1
  <2>4. Bearing(NameOf[f]) \subseteq {run[j].id[f]} /\ (run[j].at = "planned" => run[j].id[f] = 0)
    BY <1>8, <2>2, <2>3 DEF SignInv
  <2> QED
    BY <2>1, <2>4
<1>9. ASSUME SignInv, NEW f \in Files \ twice', NEW i \in Bearing(NameOf[f])', NEW j \in Bearing(NameOf[f])'
      PROVE  i = j
  BY <1>3, <1>4, <1>9 DEF SignInv
<1>10. ASSUME SignInv, NEW j \in 1..MaxRuns, NEW f \in Files \ twice',
              run'[j].task[f] = "queued", run'[j].at \in {"planned", "replayed"}
       PROVE  Bearing(NameOf[f])' \subseteq {run'[j].id[f]} /\ (run'[j].at = "planned" => run'[j].id[f] = 0)
  BY <1>4, <1>8, <1>10
<1>11. SignInv => SignInv'
  BY <1>9, <1>10 DEF SignInv
<1> QED
  BY <1>7, <1>11 DEF OwnKept

\* The bytes, the confirms and the answers to the calls.
LEMMA UploadsOwn ==
  ASSUME BatchInv, WorkInv, NEW k \in 1..MaxRuns, Uploads(k)
  PROVE  /\ \A j \in 1..MaxRuns : CallStays(j)
         /\ twice' = twice /\ DOMAIN server' = DOMAIN server
<1>1. run[k] \in RunRow /\ run \in [1..MaxRuns -> RunRow]
  BY ARun DEF BatchInv, RunsHold
<1>2. SUFFICES CallStays(k) /\ twice' = twice /\ DOMAIN server' = DOMAIN server
  <2>1. PICK x : run' = [run EXCEPT ![k] = x]
    <3>1. \E x : run' = [run EXCEPT ![k] = x]
      BY DEF Uploads, SignAnswered, SignFailed, ConfirmMissed, PutSucceeds, PutFails, PutEnds, QuietConfirm
    <3> QED
      BY <3>1
  <2>2. \A j \in 1..MaxRuns \ {k} : run'[j] = run[j]
    BY <1>1, <2>1
  <2> QED
    BY <2>2 DEF CallStays
<1>3. PICK e \in RunRow : e = run[k] /\ Calling(e)
  BY <1>1 DEF WorkInv
<1>4. CASE SignAnswered(k)
  <2>1. run'[k] = [e EXCEPT !.at = "sending"] /\ e.kind # "lost"
    BY <1>1, <1>3, <1>4 DEF SignAnswered
  <2>2. run'[k].at = "sending" /\ run'[k].task = e.task /\ run'[k].kind = e.kind
    BY <2>1 DEF RunRow
  <2> QED
    BY <1>3, <1>4, <2>1, <2>2 DEF CallStays, Signing, AtWork, SignAnswered
<1>5. CASE SignFailed(k)
  <2>1. run'[k] = Lost(e) /\ e.at \in Signing
    BY <1>1, <1>3, <1>5 DEF SignFailed
  <2> QED
    BY <1>3, <1>5, <2>1, LostFacts DEF CallStays, SignFailed
<1>6. CASE ConfirmMissed(k)
  <2>1. run'[k] = IdleRun
    BY <1>1, <1>6 DEF ConfirmMissed
  <2>2. DOMAIN server' = DOMAIN server
    BY <1>6, NoNewFiles DEF ConfirmMissed
  <2> QED
    BY <1>6, <2>1, <2>2, IdleFacts DEF CallStays, ConfirmMissed, Signing, AtWork
<1>7. ASSUME NEW f \in Files, PutSucceeds(k, f) \/ PutFails(k, f)
      PROVE  CallStays(k) /\ twice' = twice /\ DOMAIN server' = DOMAIN server
  <2>1. e.at = "sending" /\ e.kind # "lost" /\ f \in InTask(e, "queued")
    BY <1>3, <1>7 DEF PutSucceeds, PutFails, UnderWay, Calling, Signing
  <2>2. PICK t \in {"broken", "landed", "missed"} : \E s : PutEnds(k, f, t, s)
    BY <1>7 DEF PutSucceeds, PutFails
  <2>3. PICK z \in RunRow : z = [e EXCEPT !.task[f] = t] /\ z.at = "sending" /\ z.kind = e.kind
                            /\ \A g \in Files \ {f} : z.task[g] = e.task[g]
    <3>1. [e EXCEPT !.task[f] = t] \in RunRow
      BY TaskSet
    <3> QED
      BY <2>1, <3>1 DEF RunRow
  <2>4. run'[k] = z \/ run'[k] = [z EXCEPT !.at = "confirming"]
    BY <1>1, <1>3, <2>2, <2>3 DEF PutEnds
  <2>5. run'[k].at \in {"sending", "confirming"} /\ run'[k].kind = e.kind /\ run'[k].task = z.task
    BY <2>3, <2>4 DEF RunRow
  <2>6. \A g \in Files : AtWork(run'[k], g) => AtWork(e, g)
    BY <2>1, <2>3, <2>5 DEF AtWork, InTask
  <2>7. CallStays(k)
    BY <1>3, <2>1, <2>5, <2>6 DEF CallStays, Signing
  <2>8. DOMAIN server' = DOMAIN server
    BY <1>7, NoNewFiles DEF PutSucceeds, PutFails
  <2> QED
    BY <2>2, <2>7, <2>8 DEF PutEnds
<1>8. ASSUME NEW f \in Files, QuietConfirm(k, f)
      PROVE  CallStays(k) /\ twice' = twice /\ DOMAIN server' = DOMAIN server
  <2>1. e.at \in {"sending", "confirming"} /\ e.kind # "lost" /\ e.task[f] = "landed"
    BY <1>3, <1>8 DEF QuietConfirm, Calling, Signing
  <2>2. PICK t \in {"confirmed", "missed"} : run' = [run EXCEPT ![k].task[f] = t]
    BY <1>8 DEF QuietConfirm
  <2>3. PICK z \in RunRow : z = [e EXCEPT !.task[f] = t] /\ z.at = e.at /\ z.kind = e.kind
                            /\ \A g \in Files \ {f} : z.task[g] = e.task[g]
    <3>1. [e EXCEPT !.task[f] = t] \in RunRow
      BY TaskSet
    <3> QED
      BY <2>1, <3>1 DEF RunRow
  <2>4. run'[k] = z
    BY <1>1, <1>3, <2>2, <2>3
  <2>5. \A g \in Files : AtWork(run'[k], g) => AtWork(e, g)
    BY <2>1, <2>3, <2>4 DEF AtWork
  <2>6. CallStays(k)
    BY <1>3, <2>1, <2>3, <2>4, <2>5 DEF CallStays, Signing
  <2>7. DOMAIN server' = DOMAIN server
    BY <1>8, NoNewFiles DEF QuietConfirm
  <2> QED
    BY <1>8, <2>6, <2>7 DEF QuietConfirm
<1> QED
  BY <1>4, <1>5, <1>6, <1>7, <1>8 DEF Uploads

LEMMA RunsGivenUp ==
  ASSUME BatchInv, WorkInv, run' = [k \in 1..MaxRuns |-> GivenUp(run[k])]
  PROVE  \A k \in 1..MaxRuns : CallStays(k)
<1> SUFFICES ASSUME NEW k \in 1..MaxRuns PROVE CallStays(k)
  OBVIOUS
<1>1. PICK e \in RunRow : e = run[k]
  BY ARun DEF BatchInv
<1>2. (run'[k] = Lost(e) /\ e.at \in Signing) \/ run'[k] = IdleRun
  BY <1>1 DEF GivenUp
<1> QED
  BY <1>1, <1>2, LostFacts, IdleFacts DEF CallStays, Signing, AtWork

LEMMA PersonOwn ==
  ASSUME BatchInv, WorkInv, Person
  PROVE  OwnKept
<1>1. ServerHolds
  BY DEF BatchInv
<1>2. ASSUME ServerGoes, DOMAIN server' = DOMAIN server, twice' = twice, run' = run \/ CloseBatch
      PROVE  OwnKept
  <2>1. \A k \in 1..MaxRuns : CallStays(k)
    BY <1>2, RunsGivenUp DEF CallStays, CloseBatch
  <2> QED
    BY <1>2, <2>1, SameNames, CallsStay
<1>3. ASSUME NEW S, NEW r, StartsUpload(S, r), server' = server PROVE OwnKept
  <2>1. PICK x : x = NewRun("upload", "signing", S) /\ Begin(x)
    BY <1>3 DEF StartsUpload
  <2>2. x.at = "signing" /\ x.kind = "upload" /\ \A f \in Files : x.task[f] \in {"none", "queued"}
    BY <2>1 DEF NewRun
  <2> QED
    BY <1>3, <2>1, <2>2, BeginsOwn
<1>4. ASSUME NEW S, AddFiles(S) PROVE OwnKept
  BY <1>1, <1>2, <1>3, <1>4, ServerStays DEF AddFiles
<1>5. ASSUME NEW S, SendAgain(S) PROVE OwnKept
  BY <1>3, <1>5 DEF SendAgain
<1>6. ASSUME NEW f, RetryOne(f) PROVE OwnKept
  <2>1. PICK n : n = NewRun("one", "sending", {f})
    OBVIOUS
  <2>2. PICK x : x = [n EXCEPT !.id[f] = row[f].id] /\ Begin(x) /\ server' = server
    BY <1>6, <2>1 DEF RetryOne
  <2>3. n.at = "sending" /\ n.kind = "one" /\ \A g \in Files : n.task[g] \in {"none", "queued"}
    BY <2>1 DEF NewRun
  <2>4. x.at = n.at /\ x.kind = n.kind /\ x.task = n.task
    BY <2>1, <2>2 DEF NewRun
  <2> QED
    BY <2>2, <2>3, <2>4, BeginsOwn
<1>7. CASE DiscardFailed
  BY <1>1, <1>2, <1>7, ServerStays DEF DiscardFailed
<1>8. ASSUME NEW D, DiscardFiles(D) PROVE OwnKept
  <2>1. server' = Discarded(D) /\ twice' = twice /\ (run' = run \/ CloseBatch)
    BY <1>8 DEF DiscardFiles
  <2> QED
    BY <1>1, <1>2, <2>1, DiscardedGoes, NoNewFiles
<1> QED
  BY <1>4, <1>5, <1>6, <1>7, <1>8 DEF Person, RetryUpload, RetryAllUploads

LEMMA OwnStarts ==
  ASSUME PrepareInit
  PROVE  WorkInv /\ SignInv
<1>1. /\ run = [k \in 1..MaxRuns |-> IF k = 1 THEN NewRun("upload", "signing", Dropped \ Rejected)
                                     ELSE IdleRun]
      /\ server = <<>>
  BY DEF PrepareInit, Init
<1>2. \A k \in 1..MaxRuns : /\ run[k].kind = "upload" /\ run[k].at \in {"signing", "idle"}
                            /\ \A f \in Files : run[k].task[f] \in {"none", "queued"}
                            /\ k # 1 => \A f \in Files : run[k].task[f] = "none"
  BY <1>1, IdleFacts DEF NewRun
<1>3. WorkInv
  BY <1>2 DEF WorkInv, Calling, AtWork
<1>4. \A f \in Files : Bearing(NameOf[f]) = {}
  BY <1>1 DEF Bearing, Live
<1>5. SignInv
  BY <1>2, <1>4 DEF SignInv
<1> QED
  BY <1>3, <1>5

LEMMA OwnStep ==
  ASSUME BatchInv, WorkInv, [PrepareNext]_prepareVars
  PROVE  OwnKept
<1>1. ServerHolds
  BY DEF BatchInv
<1>2. ASSUME ServerGoes, DOMAIN server' = DOMAIN server, twice' = twice, \A k \in 1..MaxRuns : CallStays(k)
      PROVE  OwnKept
  BY <1>2, SameNames, CallsStay
<1>3. ASSUME NEW k \in 1..MaxRuns, Uploads(k) PROVE OwnKept
  BY <1>2, <1>3, UploadsOwn, UploadsQuiet
<1>4. ASSUME NEW k \in 1..MaxRuns, Calls(k) PROVE OwnKept
  <2>1. CASE SignOver(k)
    <3>1. run'[k] = IdleRun /\ \A j \in 1..MaxRuns \ {k} : run'[j] = run[j]
      BY <2>1 DEF SignOver, BatchInv, RunsHold
    <3>2. \A j \in 1..MaxRuns : CallStays(j)
      BY <3>1, IdleFacts DEF CallStays, Signing, AtWork
    <3>3. server' = server /\ twice' = twice
      BY <2>1 DEF SignOver
    <3> QED
      BY <1>1, <1>2, <3>2, <3>3, ServerStays
  <2> QED
    BY <1>4, <2>1, ReadsOwn, CreatesOwn DEF Calls
<1>5. ASSUME UNCHANGED <<run, server, twice>> PROVE OwnKept
  BY <1>1, <1>2, <1>5, ServerStays DEF CallStays
<1>6. CASE PollAsks \/ PollTells \/ PollIsLost \/ Convert \/ UNCHANGED prepareVars
  <2>1. UNCHANGED <<run, server, twice>>
    BY <1>6 DEF PollAsks, PollReadsFiles, PollReadsSchemas, PollTells, PollAnswered, PollIsLost,
                PollFails, Convert, prepareVars, vars
  <2> QED
    BY <1>5, <2>1
<1>7. CASE InspectSome
  <2>1. ServerGoes /\ DOMAIN server' = DOMAIN server /\ run' = run /\ twice' = twice
    BY <1>1, <1>7, InspectGoes, NoNewFiles DEF InspectSome
  <2> QED
    BY <1>2, <2>1 DEF CallStays
<1>8. CASE ReloadPage
  <2>1. /\ run' = [k \in 1..MaxRuns |-> GivenUp(run[k])] /\ server' = server /\ twice' = twice
    BY <1>8 DEF ReloadPage, Reload
  <2> QED
    BY <1>1, <1>2, <2>1, RunsGivenUp, ServerStays
<1> QED
  BY <1>3, <1>4, <1>6, <1>7, <1>8, PersonOwn DEF PrepareNext

LEMMA OwnHolds ==
  /\ PrepareSpec => []WorkInv
  /\ DistinctNames => (PrepareSpec => []SignInv)
<1>1. BatchInv /\ WorkInv /\ [PrepareNext]_prepareVars => WorkInv'
  BY OwnStep DEF OwnKept
<1>2. PrepareSpec => []WorkInv
  BY <1>1, OwnStarts, BatchInvHolds, PTL DEF PrepareSpec
<1>3. ASSUME DistinctNames PROVE PrepareSpec => []SignInv
  <2>1. BatchInv /\ WorkInv /\ SignInv /\ [PrepareNext]_prepareVars => SignInv'
    BY <1>3, OwnStep DEF OwnKept
  <2> QED
    BY <1>2, <2>1, OwnStarts, BatchInvHolds, PTL DEF PrepareSpec
<1> QED
  BY <1>2, <1>3

\* A row that is signed again is given the file it already had, while the request has it,
\* unless two runs were at work on its file at once: what a call does not find it makes,
\* and nobody else makes it meanwhile (RetryKeepsItsFile: createUploadUrls, which reads
\* the request's files before the transactions that add to them).
THEOREM RetriesKeepTheirFile ==
  ASSUME DistinctNames
  PROVE  PrepareSpec => RetryKeepsItsFile
<1>1. BatchInv /\ WorkInv /\ SignInv /\ [PrepareNext]_prepareVars => [KeepsFiles]_vars
  BY BatchStep
<1>2. BatchInv /\ WorkInv /\ SignInv /\ [PrepareNext]_prepareVars =>
         [\A f \in Files \ twice :
             /\ row[f].id # 0 /\ ~server[row[f].id].deleted
             /\ row'[f].id # 0 /\ row'[f].bytes
             => row'[f].id = row[f].id]_vars
  BY <1>1 DEF KeepsFiles
<1> QED
  BY <1>2, OwnHolds, BatchInvHolds, PTL DEF PrepareSpec, RetryKeepsItsFile

-----------------------------------------------------------------------------
(***************************************************************************)
(* The second confirm.  A row that says Uploaded has arrived on the server *)
(* or is with a run that has still to confirm it (UploadedHolds), and that *)
(* run is about the row's own file (OneFile): no other is at work on it.   *)
(***************************************************************************)
Arrived(i) == i \in DOMAIN server /\ server[i].stage # "UPLOADING"
Sending(x, f) == x.at \in {"sending", "confirming"} /\ AtWork(x, f)
Unheard(x, f) == x.at \in {"sending", "confirming"} /\ x.task[f] \in {"landed", "missed"}

UploadedHolds ==
    \A f \in Files \ twice : row[f].stage = "uploaded" =>
        /\ row[f].id # 0
        /\ Arrived(row[f].id) \/ \E k \in 1..MaxRuns : Unheard(run[k], f)
OneFile ==
    \A k \in 1..MaxRuns, f \in Files : Sending(run[k], f) =>
        /\ run[k].id[f] # 0
        /\ f \notin twice /\ row[f].stage # "none" => row[f].id = run[k].id[f]
UploadInv == /\ \A f \in Files : row[f].stage = "none" => row[f].id = 0
             /\ UploadedHolds /\ OneFile
             /\ \A f \in Files : kept[f] # 0 => Arrived(kept[f])

\* What most steps make of a run and of a row.
RunMoves(j) ==
    \/ run'[j] = run[j]
    \/ /\ run[j].at \notin {"sending", "confirming"}
       /\ \A f \in Files : Sending(run'[j], f) => run'[j].id[f] = row'[f].id /\ run'[j].id[f] # 0
RowMoves(f) ==
    \/ row'[f] = row[f]
    \/ row'[f].id = row[f].id /\ row[f].stage # "none" /\ row'[f].stage \notin {"none", "uploaded"}
    \/ row'[f] = NoRow
    \/ ~Busy(f) /\ row'[f].stage \notin {"none", "uploaded"}

LEMMA ArrivedStays ==
  ASSUME ServerGoes, NEW i, Arrived(i)
  PROVE  Arrived(i)'
BY DEF ServerGoes, GoesOn, Arrived

LEMMA SendingBusy ==
  ASSUME WorkInv, NEW k \in 1..MaxRuns, NEW f \in Files, Sending(run[k], f)
  PROVE  f \in FilesOf(run[k]) /\ Busy(f)
<1>1. f \in FilesOf(run[k])
  BY DEF Sending, AtWork, FilesOf
<1>2. run[k].kind # "lost"
  BY DEF WorkInv, Calling, Sending, Signing
<1> QED
  BY <1>1, <1>2 DEF Busy

\* What is still to be heard of is being sent.
LEMMA UnheardSends ==
  ASSUME NEW x, NEW f, Unheard(x, f)
  PROVE  Sending(x, f)
BY DEF Unheard, Sending, AtWork

LEMMA UploadStays ==
  ASSUME WorkInv, UploadInv, ServerGoes, twice \subseteq twice', \A j \in 1..MaxRuns : RunMoves(j), \A f \in Files : RowMoves(f),
         \A f \in Files : kept'[f] \in {0, kept[f]}
  PROVE  UploadInv'
<1>1. NoRow.stage = "none" /\ NoRow.id = 0
  BY DEF NoRow
<1>2. \A f \in Files : row'[f].stage = "none" => row'[f].id = 0
  BY <1>1 DEF UploadInv, RowMoves
<1>3. UploadedHolds'
  <2> SUFFICES ASSUME NEW f \in Files \ twice, row'[f].stage = "uploaded"
               PROVE  /\ row'[f].id # 0
                      /\ Arrived(row[f].id)' \/ \E k \in 1..MaxRuns : Unheard(run'[k], f)
    BY DEF UploadedHolds, Unheard
  <2>1. row'[f] = row[f]
    BY <1>1 DEF RowMoves
  <2>2. CASE Arrived(row[f].id)
    BY <2>1, <2>2, ArrivedStays DEF UploadInv, UploadedHolds, Arrived
  <2>3. ASSUME NEW k \in 1..MaxRuns, Unheard(run[k], f) PROVE Unheard(run'[k], f)
    <3>1. run'[k] = run[k]
      BY <2>3 DEF RunMoves, Unheard
    <3> QED
      BY <2>3, <3>1
  <2> QED
    BY <2>1, <2>2, <2>3 DEF UploadInv, UploadedHolds
<1>4. OneFile'
  <2> SUFFICES ASSUME NEW k \in 1..MaxRuns, NEW f \in Files, Sending(run'[k], f)
               PROVE  /\ run'[k].id[f] # 0
                      /\ f \notin twice' /\ row'[f].stage # "none" => row'[f].id = run'[k].id[f]
    BY DEF OneFile, Sending, AtWork
  <2>1. CASE run'[k] = run[k]
    <3>1. Sending(run[k], f) /\ Busy(f)
      BY <2>1, SendingBusy
    <3> QED
      BY <1>1, <2>1, <3>1 DEF UploadInv, OneFile, RowMoves
  <2>2. CASE run'[k] # run[k]
    BY <2>2 DEF RunMoves
  <2> QED
    BY <2>1, <2>2
<1>5. \A f \in Files : kept'[f] # 0 => Arrived(kept[f])'
  <2> SUFFICES ASSUME NEW f \in Files, kept'[f] # 0 PROVE Arrived(kept[f])'
    OBVIOUS
  <2>1. PICK c : c = kept[f] /\ Arrived(c) /\ kept'[f] = c
    BY DEF UploadInv
  <2>2. Arrived(c)'
    BY <2>1, ArrivedStays
  <2> QED
    BY <2>1, <2>2 DEF Arrived
<1> QED
  BY <1>2, <1>3, <1>4, <1>5 DEF UploadInv

LEMMA SignedUploads ==
  ASSUME BatchInv, WorkInv, UploadInv, NEW k \in 1..MaxRuns, SignAnswered(k)
  PROVE  UploadInv'
<1>1. run[k] \in RunRow /\ run \in [1..MaxRuns -> RunRow]
  BY ARun DEF BatchInv, RunsHold
<1>2. /\ run' = [run EXCEPT ![k].at = "sending"] /\ row' = Signed(run[k])
      /\ run[k].at = "replayed" /\ kept' = kept /\ twice' = twice
      /\ \A f \in FilesOf(run[k]) : run[k].id[f] # 0
  BY DEF SignAnswered, Rendered, Unmade
<1>3. ServerGoes
  BY ServerStays DEF SignAnswered, BatchInv
<1>4. PICK x \in RunRow : x = run[k] /\ x.at = "replayed" /\ Calling(x)
  BY <1>1, <1>2 DEF WorkInv
<1>5. \A f \in Files : x.task[f] # "none" => AtWork(x, f) /\ x.id[f] # 0 /\ f \in FilesOf(run[k])
  BY <1>2, <1>4 DEF Calling, Signing, AtWork, FilesOf
<1>6. /\ \A j \in 1..MaxRuns \ {k} : run'[j] = run[j]
      /\ run'[k].at = "sending" /\ run'[k].task = x.task /\ run'[k].id = x.id
  <2>1. PICK y : y = [x EXCEPT !.at = "sending"]
    OBVIOUS
  <2>2. run' = [run EXCEPT ![k] = y]
    BY <1>2, <1>4, <2>1
  <2>3. y.at = "sending" /\ y.task = x.task /\ y.id = x.id
    BY <2>1 DEF RunRow
  <2> QED
    BY <1>1, <2>2, <2>3
<1>7. ASSUME NEW f \in Files
      PROVE  /\ row[f].stage = "none" => row'[f] = row[f]
             /\ row'[f].stage = "uploaded" => row'[f] = row[f]
             /\ row[f].stage # "none" /\ x.task[f] # "none" => row'[f].id = x.id[f]
             /\ x.task[f] = "none" => row'[f] = row[f]
             /\ row'[f].stage # "none" => row[f].stage # "none"
  <2>1. f \in FilesOf(run[k]) <=> x.task[f] # "none"
    BY <1>4 DEF FilesOf
  <2>2. /\ x.task[f] # "none" /\ row[f].stage # "none" =>
              row'[f].stage = "uploading" /\ row'[f].id = x.id[f]
        /\ ~(x.task[f] # "none" /\ row[f].stage # "none") => row'[f] = row[f]
    BY <1>2, <1>4, <2>1, SignedFacts
  <2> QED
    BY <2>2
<1>8. \A f \in Files : row'[f].stage = "none" => row'[f].id = 0
  <2> SUFFICES ASSUME NEW f \in Files, row'[f].stage = "none" PROVE row'[f].id = 0
    OBVIOUS
  <2>1. CASE row[f].stage = "none"
    BY <1>7, <2>1 DEF UploadInv
  <2>2. CASE x.task[f] # "none" /\ row[f].stage # "none"
    BY <1>2, <1>4, <2>2, SignedFacts DEF FilesOf
  <2>3. CASE x.task[f] = "none"
    BY <1>7, <2>3 DEF UploadInv
  <2> QED
    BY <2>1, <2>2, <2>3
<1>9. UploadedHolds'
  <2> SUFFICES ASSUME NEW f \in Files \ twice, row'[f].stage = "uploaded"
               PROVE  /\ row'[f].id # 0
                      /\ Arrived(row[f].id)' \/ \E j \in 1..MaxRuns : Unheard(run'[j], f)
    BY <1>2 DEF UploadedHolds, Unheard
  <2>1. row'[f] = row[f]
    BY <1>7
  <2>2. CASE Arrived(row[f].id)
    BY <1>3, <2>1, <2>2, ArrivedStays DEF UploadInv, UploadedHolds, Arrived
  <2>3. ASSUME NEW j \in 1..MaxRuns, Unheard(run[j], f) PROVE Unheard(run'[j], f)
    <3>1. j # k
      BY <1>2, <2>3 DEF Unheard
    <3> QED
      BY <1>6, <2>3, <3>1
  <2> QED
    BY <2>1, <2>2, <2>3 DEF UploadInv, UploadedHolds
<1>10. OneFile'
  <2> SUFFICES ASSUME NEW j \in 1..MaxRuns, NEW f \in Files, Sending(run'[j], f)
               PROVE  /\ run'[j].id[f] # 0
                      /\ f \notin twice /\ row'[f].stage # "none" => row'[f].id = run'[j].id[f]
    BY <1>2 DEF OneFile, Sending, AtWork
  <2>1. CASE j = k
    <3>1. x.task[f] # "none"
      BY <1>6, <2>1 DEF Sending, AtWork
    <3> QED
      BY <1>5, <1>6, <1>7, <2>1, <3>1
  <2>2. CASE j # k
    <3>1. run'[j] = run[j] /\ Sending(run[j], f)
      BY <1>6, <2>2
    <3>2. /\ run[j].id[f] # 0
          /\ f \notin twice /\ row[f].stage # "none" => row[f].id = run[j].id[f]
      BY <3>1 DEF UploadInv, OneFile
    <3>3. f \notin twice => x.task[f] = "none"
      BY <1>4, <1>5, <2>2, <3>1 DEF WorkInv, Sending
    <3> QED
      BY <1>7, <3>1, <3>2, <3>3
  <2> QED
    BY <2>1, <2>2
<1>11. \A f \in Files : kept'[f] # 0 => Arrived(kept[f])'
  <2> SUFFICES ASSUME NEW f \in Files, kept'[f] # 0 PROVE Arrived(kept[f])'
    OBVIOUS
  <2>1. PICK c : c = kept[f] /\ Arrived(c) /\ kept'[f] = c
    BY <1>2 DEF UploadInv
  <2> QED
    BY <1>3, <2>1, ArrivedStays DEF Arrived
<1> QED
  BY <1>8, <1>9, <1>10, <1>11 DEF UploadInv

LEMMA IdleSends ==
  ASSUME NEW f
  PROVE  ~Sending(IdleRun, f) /\ ~Unheard(IdleRun, f)
BY DEF IdleRun, NewRun, Sending, Unheard

LEMMA SignFailedUploads ==
  ASSUME BatchInv, WorkInv, UploadInv, NEW k \in 1..MaxRuns, SignFailed(k)
  PROVE  UploadInv'
<1>1. ServerGoes
  BY UploadsQuiet DEF Uploads
<1>2. /\ run[k].at \in Signing /\ run' = [run EXCEPT ![k] = Lost(@)] /\ kept' = kept /\ twice' = twice
      /\ row' = [f \in Files |-> IF row[f].stage = "checking" THEN [row[f] EXCEPT !.stage = "failed"]
                                 ELSE row[f]]
  BY DEF SignFailed, Rendered
<1>3. ASSUME NEW j \in 1..MaxRuns PROVE RunMoves(j)
  <2>1. CASE j = k
    <3>1. PICK e \in RunRow : e = run[k]
      BY ARun DEF BatchInv
    <3>2. run'[k] = Lost(e)
      BY <1>2, <3>1 DEF BatchInv, RunsHold
    <3>3. run'[k].at \in Signing
      BY <1>2, <3>1, <3>2, LostFacts
    <3> QED
      BY <1>2, <2>1, <3>3 DEF RunMoves, Sending, Signing
  <2>2. CASE j # k
    BY <1>2, <2>2 DEF BatchInv, RunsHold, RunMoves
  <2> QED
    BY <2>1, <2>2
<1>4. ASSUME NEW f \in Files PROVE RowMoves(f)
  <2>1. PICK e \in ScreenRow : e = row[f]
    BY ARow DEF BatchInv
  <2>2. row'[f] = (IF e.stage = "checking" THEN [e EXCEPT !.stage = "failed"] ELSE e)
    BY <1>2, <2>1
  <2>3. [e EXCEPT !.stage = "failed"].stage = "failed" /\ [e EXCEPT !.stage = "failed"].id = e.id
    BY DEF ScreenRow
  <2> QED
    BY <2>1, <2>2, <2>3 DEF RowMoves
<1> QED
  BY <1>1, <1>2, <1>3, <1>4, UploadStays

\* The bytes of f: its row is uploaded, and its run has to hear of it; or neither.
LEMMA PutUploads ==
  ASSUME BatchInv, UploadInv, NEW k \in 1..MaxRuns, NEW f \in Files, PutSucceeds(k, f) \/ PutFails(k, f)
  PROVE  UploadInv'
<1>1. ServerGoes
  BY UploadsQuiet DEF Uploads
<1>2. PICK x \in RunRow : x = run[k] /\ x.at = "sending" /\ x.task[f] = "queued"
  BY ARun DEF BatchInv, PutSucceeds, PutFails, UnderWay, InTask
<1>3. PICK t \in {"broken", "landed", "missed"}, s \in {"uploaded", "failed"} :
        PutEnds(k, f, t, s) /\ (s = "uploaded" => t \in {"landed", "missed"})
  BY DEF PutSucceeds, PutFails
<1>4. kept' = kept /\ twice' = twice /\ row' = [row EXCEPT ![f].stage = IF @ = "none" THEN @ ELSE s]
  BY <1>3 DEF PutEnds, Rendered
<1>5. PICK z \in RunRow : z = [x EXCEPT !.task[f] = t] /\ z.id = x.id
  BY <1>2, TaskSet
<1>6. z.at = "sending" /\ z.task[f] = t /\ \A g \in Files \ {f} : z.task[g] = x.task[g]
  BY <1>2, <1>5 DEF RunRow
<1>7. PICK y : /\ run' = [run EXCEPT ![k] = y] /\ y.id = x.id /\ y.task = z.task
               /\ y.at \in {"sending", "confirming"}
  <2>1. /\ [z EXCEPT !.at = "confirming"].id = x.id /\ [z EXCEPT !.at = "confirming"].task = z.task
        /\ [z EXCEPT !.at = "confirming"].at = "confirming"
    BY <1>5 DEF RunRow
  <2>2. run' = [run EXCEPT ![k] = [z EXCEPT !.at = "confirming"]] \/ run' = [run EXCEPT ![k] = z]
    BY <1>2, <1>3, <1>5 DEF PutEnds
  <2> QED
    BY <1>5, <1>6, <2>1, <2>2
<1>8. run'[k] = y /\ \A j \in 1..MaxRuns \ {k} : run'[j] = run[j]
  BY <1>7 DEF BatchInv, RunsHold
<1>9. /\ \A g \in Files \ {f} : row'[g] = row[g]
      /\ row'[f].id = row[f].id
      /\ row'[f].stage = (IF row[f].stage = "none" THEN "none" ELSE s)
  <2>1. PICK e \in ScreenRow : e = row[f]
    BY ARow DEF BatchInv
  <2>2. row' = [row EXCEPT ![f] = [e EXCEPT !.stage = IF e.stage = "none" THEN e.stage ELSE s]]
    BY <1>4, <2>1
  <2>3. PICK st : st = (IF e.stage = "none" THEN e.stage ELSE s)
    OBVIOUS
  <2>4. [e EXCEPT !.stage = st].id = e.id /\ [e EXCEPT !.stage = st].stage = st
    BY DEF ScreenRow
  <2>5. row'[f] = [e EXCEPT !.stage = st] /\ \A g \in Files \ {f} : row'[g] = row[g]
    BY <2>2, <2>3 DEF BatchInv, RowsHold
  <2> QED
    BY <2>1, <2>3, <2>4, <2>5
<1>10. \A g \in Files : (row'[g].stage = "none" <=> row[g].stage = "none") /\ row'[g].id = row[g].id
  BY <1>9
<1>11. \A j \in 1..MaxRuns, g \in Files :
          /\ Sending(run'[j], g) => Sending(run[j], g)
          /\ run'[j].id = run[j].id
          /\ Unheard(run[j], g) => Unheard(run'[j], g)
  <2> SUFFICES ASSUME NEW j \in 1..MaxRuns, NEW g \in Files
               PROVE  /\ Sending(run'[j], g) => Sending(run[j], g)
                      /\ run'[j].id = run[j].id
                      /\ Unheard(run[j], g) => Unheard(run'[j], g)
    OBVIOUS
  <2>1. CASE j = k /\ g = f
    BY <1>2, <1>6, <1>7, <1>8, <2>1 DEF Sending, Unheard, AtWork
  <2>2. CASE j = k /\ g # f
    BY <1>2, <1>6, <1>7, <1>8, <2>2 DEF Sending, Unheard, AtWork
  <2>3. CASE j # k
    BY <1>8, <2>3
  <2> QED
    BY <2>1, <2>2, <2>3
<1>12. UploadedHolds'
  <2> SUFFICES ASSUME NEW g \in Files \ twice, row'[g].stage = "uploaded"
               PROVE  /\ row'[g].id # 0
                      /\ Arrived(row[g].id)' \/ \E j \in 1..MaxRuns : Unheard(run'[j], g)
    BY <1>4 DEF UploadedHolds, Unheard
  <2>1. CASE g = f
    <3>1. s = "uploaded" /\ row[f].stage # "none"
      BY <1>9, <2>1
    <3>2. row[f].id # 0
      BY <1>2, <2>1, <3>1 DEF UploadInv, OneFile, Sending, AtWork
    <3>3. Unheard(run'[k], f)
      BY <1>3, <1>6, <1>7, <1>8, <3>1 DEF Unheard
    <3> QED
      BY <1>9, <2>1, <3>2, <3>3
  <2>2. CASE g # f
    <3>1. PICK c : c = row[g].id /\ row'[g].id = c
      BY <1>10
    <3>2. Arrived(c) => Arrived(c)'
      BY <1>1, ArrivedStays
    <3>3. row[g].stage = "uploaded"
      BY <1>9, <2>2
    <3> QED
      BY <1>11, <3>1, <3>2, <3>3 DEF UploadInv, UploadedHolds, Arrived
  <2> QED
    BY <2>1, <2>2
<1>13. OneFile'
  <2>1. \A j \in 1..MaxRuns, g \in Files : Sending(run'[j], g) =>
          run'[j].id[g] # 0 /\ (g \notin twice /\ row'[g].stage # "none" => row'[g].id = run'[j].id[g])
    BY <1>10, <1>11 DEF UploadInv, OneFile
  <2> QED
    BY <1>4, <2>1 DEF OneFile, Sending, AtWork
<1>14. \A g \in Files : kept'[g] # 0 => Arrived(kept[g])'
  <2> SUFFICES ASSUME NEW g \in Files, kept'[g] # 0 PROVE Arrived(kept[g])'
    OBVIOUS
  <2>1. PICK c : c = kept[g] /\ Arrived(c) /\ kept'[g] = c
    BY <1>4 DEF UploadInv
  <2> QED
    BY <1>1, <2>1, ArrivedStays DEF Arrived
<1>15. \A g \in Files : row'[g].stage = "none" => row'[g].id = 0
  BY <1>10 DEF UploadInv
<1> QED
  BY <1>12, <1>13, <1>14, <1>15 DEF UploadInv

\* The file i has arrived once the step is taken.
ArrivedNext(i) == i \in DOMAIN server' /\ server'[i].stage # "UPLOADING"

\* The browser hears of the files S of a run, which have arrived.
LEMMA HeardUploads ==
  ASSUME BatchInv, UploadInv, ServerGoes, twice' = twice, NEW k \in 1..MaxRuns, NEW S \in SUBSET Files,
         HearConfirm(k, S, server'),
         \A f \in S : Sending(run[k], f) /\ ArrivedNext(run[k].id[f]),
         NEW x, run' = [run EXCEPT ![k] = x],
         \A f \in Files : Sending(x, f) => Sending(run[k], f) /\ x.id[f] = run[k].id[f],
         \A f \in Files : Unheard(run[k], f) => f \in S \/ Unheard(x, f)
  PROVE  UploadInv'
<1> DEFINE ids == {run[k].id[f] : f \in S}
<1>1. /\ row' = [f \in Files |-> IF row[f].id \in ids
                     THEN [row[f] EXCEPT !.stage = IF server'[row[f].id].stage = "FAILED" THEN "failed"
                                                   ELSE "uploaded"]
                     ELSE row[f]]
      /\ RememberFiles([f \in {g \in S : server'[run[k].id[g]].stage # "FAILED"} |-> run[k].id[f]])
  BY DEF HearConfirm, Rendered
<1>2. run'[k] = x /\ \A j \in 1..MaxRuns \ {k} : run'[j] = run[j]
  BY DEF BatchInv, RunsHold
<1>3. \A i \in ids : i # 0 /\ ArrivedNext(i)
  <2>1. ASSUME NEW f \in S PROVE run[k].id[f] # 0 /\ ArrivedNext(run[k].id[f])
    BY DEF UploadInv, OneFile
  <2> SUFFICES ASSUME NEW i \in ids PROVE i # 0 /\ ArrivedNext(i)
    OBVIOUS
  <2>2. PICK f \in S : i = run[k].id[f]
    OBVIOUS
  <2> QED
    BY <2>1, <2>2
<1>4. \A f \in S : run[k].id[f] \in ids
  OBVIOUS
<1> HIDE DEF ids
<1>5. ASSUME NEW f \in Files
      PROVE  /\ row'[f].id = row[f].id
             /\ row[f].id \in ids => row'[f].stage \in {"failed", "uploaded"} /\ row[f].stage # "none"
             /\ row[f].id \notin ids => row'[f] = row[f]
  <2>1. PICK e \in ScreenRow : e = row[f]
    BY ARow DEF BatchInv
  <2>2. PICK s \in {"failed", "uploaded"} :
           s = (IF server'[e.id].stage = "FAILED" THEN "failed" ELSE "uploaded")
    OBVIOUS
  <2>3. row'[f] = (IF e.id \in ids THEN [e EXCEPT !.stage = s] ELSE e)
    BY <1>1, <2>1, <2>2
  <2>4. [e EXCEPT !.stage = s].stage = s /\ [e EXCEPT !.stage = s].id = e.id
    BY DEF ScreenRow
  <2>5. e.id \in ids => e.stage # "none"
    BY <1>3, <2>1 DEF UploadInv
  <2> QED
    BY <2>1, <2>2, <2>3, <2>4, <2>5
<1>6. \A f \in Files : row'[f].stage = "none" => row'[f].id = 0
  BY <1>5 DEF UploadInv
<1>7. UploadedHolds'
  <2> SUFFICES ASSUME NEW f \in Files \ twice, row'[f].stage = "uploaded"
               PROVE  /\ row'[f].id # 0
                      /\ Arrived(row[f].id)' \/ \E j \in 1..MaxRuns : Unheard(run'[j], f)
    BY DEF UploadedHolds, Unheard
  <2>1. PICK c : c = row[f].id /\ row'[f].id = c
    BY <1>5
  <2>2. CASE c \in ids
    BY <1>3, <2>1, <2>2 DEF Arrived, ArrivedNext
  <2>3. CASE c \notin ids
    <3>1. row'[f] = row[f]
      BY <1>5, <2>1, <2>3
    <3>2. CASE Arrived(c)
      BY <2>1, <3>1, <3>2, ArrivedStays DEF UploadInv, UploadedHolds, Arrived
    <3>3. ASSUME NEW j \in 1..MaxRuns, Unheard(run[j], f) PROVE Unheard(run'[j], f)
      <4>1. CASE j = k
        <5>1. f \notin S
          <6>1. f \in S => c = run[k].id[f]
            BY <2>1, <3>1 DEF UploadInv, OneFile
          <6> QED
            BY <1>4, <2>3, <6>1
        <5> QED
          BY <1>2, <3>3, <4>1, <5>1
      <4>2. CASE j # k
        BY <1>2, <3>3, <4>2
      <4> QED
        BY <4>1, <4>2
    <3> QED
      BY <2>1, <3>1, <3>2, <3>3 DEF UploadInv, UploadedHolds
  <2> QED
    BY <2>2, <2>3
<1>8. OneFile'
  <2>1. ASSUME NEW j \in 1..MaxRuns, NEW f \in Files, Sending(run'[j], f)
        PROVE  run'[j].id[f] # 0 /\ (f \notin twice /\ row'[f].stage # "none" => row'[f].id = run'[j].id[f])
    <3>1. Sending(run[j], f) /\ run'[j].id[f] = run[j].id[f]
      BY <1>2, <2>1
    <3>2. run[j].id[f] # 0 /\ (f \notin twice /\ row[f].stage # "none" => row[f].id = run[j].id[f])
      BY <3>1 DEF UploadInv, OneFile
    <3>3. row'[f].stage # "none" => row[f].stage # "none"
      BY <1>5
    <3> QED
      BY <1>5, <3>1, <3>2, <3>3
  <2> QED
    BY <2>1 DEF OneFile, Sending, AtWork
<1>9. \A f \in Files : kept'[f] # 0 => Arrived(kept[f])'
  <2> SUFFICES ASSUME NEW f \in Files, kept'[f] # 0 PROVE Arrived(kept[f])'
    OBVIOUS
  <2>1. PICK ok : ok = {g \in S : server'[run[k].id[g]].stage # "FAILED"}
    OBVIOUS
  <2>2. PICK its : its = [g \in ok |-> run[k].id[g]]
    OBVIOUS
  <2>3. DOMAIN its = ok /\ \A g \in ok : its[g] = run[k].id[g] /\ g \in S
    BY <2>1, <2>2
  <2>4. PICK c : c = kept'[f]
    OBVIOUS
  <2>5. (f \in S /\ c = run[k].id[f]) \/ c = 0 \/ c = kept[f]
    BY <1>1, <2>1, <2>2, <2>3, <2>4 DEF RememberFiles
  <2>6. Arrived(c)'
    <3>1. CASE f \in S /\ c = run[k].id[f]
      BY <3>1 DEF Arrived, ArrivedNext
    <3>2. CASE c = kept[f]
      <4>1. Arrived(c)
        BY <2>4, <3>2 DEF UploadInv
      <4> QED
        BY <4>1, ArrivedStays
    <3> QED
      BY <2>4, <2>5, <3>1, <3>2
  <2> QED
    BY <2>4, <2>6 DEF Arrived
<1> QED
  BY <1>6, <1>7, <1>8, <1>9 DEF UploadInv

\* A confirm of files of a run leaves none of them at UPLOADING.
LEMMA ConfirmArrives ==
  ASSUME BatchInv, UploadInv, NEW k \in 1..MaxRuns, NEW S \in SUBSET Files,
         \A f \in S : Sending(run[k], f), server' = Confirmed({run[k].id[f] : f \in S})
  PROVE  ServerGoes /\ \A f \in S : ArrivedNext(run[k].id[f])
<1>1. /\ ServerGoes
      /\ \A i \in DOMAIN server : i \in {run[k].id[f] : f \in S} => server'[i].stage # "UPLOADING"
  BY ConfirmedGoes DEF BatchInv
<1>2. ASSUME NEW f \in S PROVE ArrivedNext(run[k].id[f])
  <2>1. PICK i : i = run[k].id[f]
    OBVIOUS
  <2>2. i # 0 /\ i \in DOMAIN server
    BY <2>1 DEF UploadInv, OneFile, BatchInv, RunsHold, StandsFor
  <2>3. i \in DOMAIN server' /\ server'[i].stage # "UPLOADING"
    BY <1>1, <2>1, <2>2 DEF ServerGoes
  <2> QED
    BY <2>1, <2>3 DEF ArrivedNext
<1> QED
  BY <1>1, <1>2

\* What the disk keeps has arrived, over a step that keeps nothing new.
LEMMA KeptArrived ==
  ASSUME UploadInv, ServerGoes, \A f \in Files : kept'[f] \in {0, kept[f]}
  PROVE  \A f \in Files : kept'[f] # 0 => Arrived(kept[f])'
<1> SUFFICES ASSUME NEW f \in Files, kept'[f] # 0 PROVE Arrived(kept[f])'
  OBVIOUS
<1>1. PICK c : c = kept[f] /\ Arrived(c) /\ kept'[f] = c
  BY DEF UploadInv
<1> QED
  BY <1>1, ArrivedStays DEF Arrived

\* The rows stay as they are, and so does all that runs have to hear.
LEMMA SameRows ==
  ASSUME UploadInv, ServerGoes, twice' = twice, UNCHANGED <<row, kept>>,
         \A j \in 1..MaxRuns, g \in Files :
            /\ Sending(run'[j], g) => Sending(run[j], g) /\ run'[j].id[g] = run[j].id[g]
            /\ Unheard(run[j], g) => Unheard(run'[j], g)
  PROVE  UploadInv'
<1>1. UploadedHolds'
  <2> SUFFICES ASSUME NEW f \in Files \ twice, row'[f].stage = "uploaded"
               PROVE  /\ row'[f].id # 0
                      /\ Arrived(row[f].id)' \/ \E j \in 1..MaxRuns : Unheard(run'[j], f)
    BY DEF UploadedHolds, Unheard
  <2>1. PICK c : c = row[f].id /\ row'[f].id = c /\ row[f].stage = "uploaded"
    OBVIOUS
  <2>2. Arrived(c) => Arrived(c)'
    BY ArrivedStays
  <2> QED
    BY <2>1, <2>2 DEF UploadInv, UploadedHolds, Arrived
<1>2. OneFile'
  <2>1. ASSUME NEW j \in 1..MaxRuns, NEW f \in Files, Sending(run'[j], f)
        PROVE  run'[j].id[f] # 0 /\ (f \notin twice /\ row'[f].stage # "none" => row'[f].id = run'[j].id[f])
    BY <2>1 DEF UploadInv, OneFile
  <2> QED
    BY <2>1 DEF OneFile, Sending, AtWork
<1>3. \A f \in Files : kept'[f] # 0 => Arrived(kept[f])'
  BY KeptArrived
<1>4. \A f \in Files : row'[f].stage = "none" => row'[f].id = 0
  BY DEF UploadInv
<1> QED
  BY <1>1, <1>2, <1>3, <1>4 DEF UploadInv

\* A call sends nothing: the rows it makes are heard of with its answer.
LEMMA CallsUploads ==
  ASSUME BatchInv, WorkInv, UploadInv, NEW k \in 1..MaxRuns, Calls(k)
  PROVE  UploadInv'
<1>1. ServerGoes
  BY CallsQuiet
<1>2. UNCHANGED <<row, kept>> /\ twice' = twice
  BY DEF Calls, SignReads, SignCreates, SignOver
<1>3. PICK e \in RunRow : e = run[k]
  BY ARun DEF BatchInv
<1>4. run[k].at \notin {"sending", "confirming"} /\ run'[k].at \notin {"sending", "confirming"}
  <2>1. CASE SignReads(k)
    <3>1. PICK at \in {"planned", "replayed"}, p \in Pairings(FilesOf(run[k])) :
            run' = [run EXCEPT ![k].at = at, ![k].id = p]
      BY <2>1 DEF SignReads
    <3>2. PICK y : y = [e EXCEPT !.at = at, !.id = p]
      OBVIOUS
    <3>3. y.at = at
      BY <3>2 DEF RunRow
    <3>4. run'[k] = y
      BY <1>3, <3>1, <3>2 DEF BatchInv, RunsHold
    <3> QED
      BY <2>1, <3>3, <3>4 DEF SignReads
  <2>2. CASE SignCreates(k)
    <3>1. PICK p : run' = [run EXCEPT ![k] = [e EXCEPT !.at = "replayed", !.id = p]]
      BY <1>3, <2>2 DEF SignCreates
    <3>2. PICK y : y = [e EXCEPT !.at = "replayed", !.id = p]
      OBVIOUS
    <3>3. y.at = "replayed"
      BY <3>2 DEF RunRow
    <3>4. run'[k] = y
      BY <3>1, <3>2 DEF BatchInv, RunsHold
    <3> QED
      BY <2>2, <3>3, <3>4 DEF SignCreates, Makes
  <2>3. CASE SignOver(k)
    <3>1. run'[k] = IdleRun
      BY <2>3 DEF SignOver, BatchInv, RunsHold
    <3> QED
      BY <2>3, <3>1, IdleFacts DEF SignOver, WorkInv, Calling, Signing
  <2> QED
    BY <2>1, <2>2, <2>3 DEF Calls
<1>5. \A j \in 1..MaxRuns \ {k} : run'[j] = run[j]
  BY DEF Calls, SignReads, SignCreates, SignOver, BatchInv, RunsHold
<1>6. \A j \in 1..MaxRuns, g \in Files :
         /\ Sending(run'[j], g) => Sending(run[j], g) /\ run'[j].id[g] = run[j].id[g]
         /\ Unheard(run[j], g) => Unheard(run'[j], g)
  BY <1>4, <1>5 DEF Sending, Unheard
<1> QED
  BY <1>1, <1>2, <1>6, SameRows

\* A quiet confirm: heard of, or left for the second confirm.
LEMMA QuietConfirmUploads ==
  ASSUME BatchInv, UploadInv, NEW k \in 1..MaxRuns, NEW f \in Files, QuietConfirm(k, f)
  PROVE  UploadInv'
<1>1. ServerGoes /\ twice' = twice
  BY UploadsQuiet DEF Uploads, QuietConfirm
<1>2. PICK z \in RunRow : /\ z = run[k] /\ z.at \in {"sending", "confirming"} /\ z.task[f] = "landed"
  BY ARun DEF BatchInv, QuietConfirm
<1>3. PICK t \in {"confirmed", "missed"} :
        /\ run' = [run EXCEPT ![k].task[f] = t]
        /\ \/ server' = Confirmed({run[k].id[f]}) /\ HearConfirm(k, {f}, server')
           \/ t = "missed" /\ UNCHANGED <<row, kept>>
  BY DEF QuietConfirm
<1>4. PICK x \in RunRow : x = [z EXCEPT !.task[f] = t] /\ x.id = z.id
  BY <1>2, TaskSet
<1>5. /\ x.at = z.at /\ x.task[f] = t /\ \A g \in Files \ {f} : x.task[g] = z.task[g]
      /\ run' = [run EXCEPT ![k] = x]
  BY <1>2, <1>3, <1>4 DEF RunRow
<1>6. \A g \in Files : Sending(x, g) => Sending(run[k], g) /\ x.id[g] = run[k].id[g]
  BY <1>2, <1>4, <1>5 DEF Sending, AtWork
<1>7. CASE server' = Confirmed({run[k].id[f]}) /\ HearConfirm(k, {f}, server')
  <2>1. {run[k].id[g] : g \in {f}} = {run[k].id[f]}
    OBVIOUS
  <2>2. \A g \in {f} : Sending(run[k], g)
    BY <1>2 DEF Sending, AtWork
  <2>3. server' = Confirmed({run[k].id[g] : g \in {f}})
    BY <1>7, <2>1
  <2>4. \A g \in {f} : ArrivedNext(run[k].id[g])
    BY <2>2, <2>3, ConfirmArrives
  <2>5. \A g \in Files : Unheard(run[k], g) => g \in {f} \/ Unheard(x, g)
    BY <1>2, <1>5 DEF Unheard
  <2>6. PICK S \in SUBSET Files : S = {f}
    OBVIOUS
  <2>7. /\ HearConfirm(k, S, server') /\ run' = [run EXCEPT ![k] = x]
        /\ \A g \in S : Sending(run[k], g) /\ ArrivedNext(run[k].id[g])
        /\ \A g \in Files : Unheard(run[k], g) => g \in S \/ Unheard(x, g)
    BY <1>5, <1>7, <2>2, <2>4, <2>5, <2>6
  <2> QED
    BY <1>1, <1>6, <2>7, HeardUploads
<1>8. CASE t = "missed" /\ UNCHANGED <<row, kept>>
  <2>1. run'[k] = x /\ \A j \in 1..MaxRuns \ {k} : run'[j] = run[j]
    BY <1>5 DEF BatchInv, RunsHold
  <2>2. \A j \in 1..MaxRuns, g \in Files :
           /\ Sending(run'[j], g) => Sending(run[j], g) /\ run'[j].id[g] = run[j].id[g]
           /\ Unheard(run[j], g) => Unheard(run'[j], g)
    <3>1. \A g \in Files : Unheard(run[k], g) => Unheard(x, g)
      BY <1>2, <1>5, <1>8 DEF Unheard
    <3> SUFFICES ASSUME NEW j \in 1..MaxRuns, NEW g \in Files
                 PROVE  /\ Sending(run'[j], g) => Sending(run[j], g) /\ run'[j].id[g] = run[j].id[g]
                        /\ Unheard(run[j], g) => Unheard(run'[j], g)
      OBVIOUS
    <3>2. CASE j = k
      BY <1>6, <2>1, <3>1, <3>2
    <3>3. CASE j # k
      BY <2>1, <3>3
    <3> QED
      BY <3>2, <3>3
  <2> QED
    BY <1>1, <1>8, <2>2, SameRows
<1> QED
  BY <1>3, <1>7, <1>8

\* The second confirm: every row it speaks of is heard of, or says that it failed.
LEMMA ConfirmMissedUploads ==
  ASSUME BatchInv, UploadInv, NEW k \in 1..MaxRuns, ConfirmMissed(k)
  PROVE  UploadInv'
<1>1. ServerGoes /\ twice' = twice
  BY UploadsQuiet DEF Uploads, ConfirmMissed
<1>2. PICK S \in SUBSET Files : S = InTask(run[k], "missed")
  BY DEF InTask
<1> DEFINE ids == {run[k].id[f] : f \in S}
<1>3. /\ run[k].at = "confirming" /\ InTask(run[k], "landed") = {}
      /\ run' = [run EXCEPT ![k] = IdleRun]
      /\ \/ server' = Confirmed(ids) /\ HearConfirm(k, S, server')
         \/ /\ row' = [f \in Files |-> IF row[f].id \in ids
                                       THEN [row[f] EXCEPT !.stage = "failed"] ELSE row[f]]
            /\ kept' = kept
  BY <1>2 DEF ConfirmMissed, Rendered
<1>9. \A f \in S : run[k].id[f] \in ids
  OBVIOUS
<1>4. \A f \in S : Sending(run[k], f)
  BY <1>2, <1>3 DEF Sending, InTask, AtWork
<1>5. \A f \in Files : Unheard(run[k], f) => f \in S
  BY <1>2, <1>3 DEF Unheard, InTask
<1>6. \A f \in Files : ~Sending(IdleRun, f)
  BY IdleSends
<1>7. CASE server' = Confirmed(ids) /\ HearConfirm(k, S, server')
  <2>1. server' = Confirmed({run[k].id[f] : f \in S})
    BY <1>7
  <2>2. \A f \in S : ArrivedNext(run[k].id[f])
    BY <1>4, <2>1, ConfirmArrives
  <2>3. PICK x : x = IdleRun /\ run' = [run EXCEPT ![k] = x]
    BY <1>3
  <2>4. \A f \in Files : Sending(x, f) => Sending(run[k], f) /\ x.id[f] = run[k].id[f]
    BY <1>6, <2>3
  <2>5. \A f \in Files : Unheard(run[k], f) => f \in S \/ Unheard(x, f)
    BY <1>5
  <2> QED
    BY <1>1, <1>4, <1>7, <2>2, <2>3, <2>4, <2>5, HeardUploads
<1>8. CASE /\ row' = [f \in Files |-> IF row[f].id \in ids
                                      THEN [row[f] EXCEPT !.stage = "failed"] ELSE row[f]]
           /\ kept' = kept
  <2>1. run'[k] = IdleRun /\ \A j \in 1..MaxRuns \ {k} : run'[j] = run[j]
    BY <1>3 DEF BatchInv, RunsHold
  <2>2. \A i \in ids : i # 0
    <3>1. \A f \in S : run[k].id[f] # 0
      BY <1>4 DEF UploadInv, OneFile
    <3> QED
      BY <3>1
  <2> HIDE DEF ids
  <2>3. ASSUME NEW f \in Files
        PROVE  /\ row'[f].id = row[f].id
               /\ row[f].id \in ids => row'[f].stage = "failed" /\ row[f].stage # "none"
               /\ row[f].id \notin ids => row'[f] = row[f]
    <3>1. PICK e \in ScreenRow : e = row[f]
      BY ARow DEF BatchInv
    <3>2. row'[f] = (IF e.id \in ids THEN [e EXCEPT !.stage = "failed"] ELSE e)
      BY <1>8, <3>1
    <3>3. [e EXCEPT !.stage = "failed"].stage = "failed" /\ [e EXCEPT !.stage = "failed"].id = e.id
      BY DEF ScreenRow
    <3>4. e.id \in ids => e.stage # "none"
      BY <2>2, <3>1 DEF UploadInv
    <3> QED
      BY <3>1, <3>2, <3>3, <3>4
  <2>4. UploadedHolds'
    <3> SUFFICES ASSUME NEW f \in Files \ twice, row'[f].stage = "uploaded"
                 PROVE  /\ row'[f].id # 0
                        /\ Arrived(row[f].id)' \/ \E j \in 1..MaxRuns : Unheard(run'[j], f)
      BY <1>1 DEF UploadedHolds, Unheard
    <3>1. row'[f] = row[f] /\ row[f].id \notin ids
      BY <2>3
    <3>2. CASE Arrived(row[f].id)
      BY <1>1, <3>1, <3>2, ArrivedStays DEF UploadInv, UploadedHolds, Arrived
    <3>3. ASSUME NEW j \in 1..MaxRuns, Unheard(run[j], f) PROVE Unheard(run'[j], f)
      <4>1. CASE j = k
        <5>1. f \in S /\ row[f].id = run[k].id[f]
          BY <1>4, <1>5, <3>1, <3>3, <4>1 DEF UploadInv, OneFile
        <5> QED
          BY <1>9, <3>1, <5>1
      <4>2. CASE j # k
        BY <2>1, <3>3, <4>2
      <4> QED
        BY <4>1, <4>2
    <3> QED
      BY <3>1, <3>2, <3>3 DEF UploadInv, UploadedHolds
  <2>5. OneFile'
    <3>1. ASSUME NEW j \in 1..MaxRuns, NEW f \in Files, Sending(run'[j], f)
          PROVE  run'[j].id[f] # 0 /\ (f \notin twice /\ row'[f].stage # "none" => row'[f].id = run'[j].id[f])
      <4>1. j # k /\ run'[j] = run[j]
        BY <1>6, <2>1, <3>1
      <4>2. run[j].id[f] # 0 /\ (f \notin twice /\ row[f].stage # "none" => row[f].id = run[j].id[f])
        BY <3>1, <4>1 DEF UploadInv, OneFile
      <4> QED
        BY <2>3, <4>1, <4>2
    <3> QED
      BY <1>1, <3>1 DEF OneFile, Sending, AtWork
  <2>6. \A f \in Files : kept'[f] # 0 => Arrived(kept[f])'
    BY <1>1, <1>8, KeptArrived
  <2>7. \A f \in Files : row'[f].stage = "none" => row'[f].id = 0
    BY <2>3 DEF UploadInv
  <2> QED
    BY <2>4, <2>5, <2>6, <2>7 DEF UploadInv
<1> QED
  BY <1>3, <1>7, <1>8

-----------------------------------------------------------------------------
LEMMA ANewRow ==
  ASSUME NEW f \in Files
  PROVE  NewRow(f) \in ScreenRow /\ NewRow(f).stage \in {"rejected", "staged"} /\ NewRow(f).id = 0
<1>1. PICK s \in {"rejected", "staged"} : s = (IF f \in Rejected THEN "rejected" ELSE "staged")
  OBVIOUS
<1>2. NewRow(f) = [stage |-> s, id |-> 0, bytes |-> TRUE]
  BY <1>1 DEF NewRow
<1>3. /\ [stage |-> s, id |-> 0, bytes |-> TRUE] \in ScreenRow
      /\ [stage |-> s, id |-> 0, bytes |-> TRUE].stage = s
      /\ [stage |-> s, id |-> 0, bytes |-> TRUE].id = 0
  BY DEF ScreenRow
<1> QED
  BY <1>2, <1>3

\* A run begins to sign: it sends nothing yet.
LEMMA StartsUploads ==
  ASSUME BatchInv, WorkInv, UploadInv, NEW S, NEW r, StartsUpload(S, r), UNCHANGED <<kept, server>>,
         \A f \in Files :
            \/ r[f] = row[f]
            \/ row[f].stage # "none" /\ r[f] = [row[f] EXCEPT !.stage = "staged"]
            \/ ~Busy(f) /\ r[f] = NewRow(f)
  PROVE  UploadInv'
<1>1. ServerGoes /\ twice \subseteq twice'
  BY ServerStays DEF BatchInv, StartsUpload, Begin
<1>2. PICK k \in 1..MaxRuns : run[k] = IdleRun /\ run' = [run EXCEPT ![k] = NewRun("upload", "signing", S)]
  BY DEF StartsUpload, Begin
<1>3. ASSUME NEW j \in 1..MaxRuns PROVE RunMoves(j)
  <2>1. CASE j = k
    <3>1. run'[j].at = "signing"
      BY <1>2, <2>1 DEF BatchInv, RunsHold, NewRun
    <3>2. run[j].at = "idle"
      BY <1>2, <2>1 DEF IdleRun, NewRun
    <3> QED
      BY <3>1, <3>2 DEF RunMoves, Sending
  <2>2. CASE j # k
    BY <1>2, <2>2 DEF BatchInv, RunsHold, RunMoves
  <2> QED
    BY <2>1, <2>2
<1>4. ASSUME NEW f \in Files PROVE RowMoves(f)
  <2>1. row'[f] = (IF r[f].stage = "staged" THEN [r[f] EXCEPT !.stage = "checking"] ELSE r[f])
    BY DEF StartsUpload, Rendered, Checking
  <2>2. PICK e \in ScreenRow : e = row[f]
    BY ARow DEF BatchInv
  <2>3. /\ [e EXCEPT !.stage = "checking"].stage = "checking" /\ [e EXCEPT !.stage = "checking"].id = e.id
        /\ [e EXCEPT !.stage = "staged"].stage = "staged"
    BY DEF ScreenRow
  <2>4. CASE r[f] = e
    BY <2>1, <2>2, <2>3, <2>4 DEF RowMoves
  <2>5. CASE e.stage # "none" /\ r[f] = [e EXCEPT !.stage = "staged"]
    <3>1. row'[f] = [[e EXCEPT !.stage = "staged"] EXCEPT !.stage = "checking"]
      BY <2>1, <2>3, <2>5
    <3>2. row'[f].stage = "checking" /\ row'[f].id = e.id
      BY <3>1 DEF ScreenRow
    <3> QED
      BY <2>2, <2>5, <3>2 DEF RowMoves
  <2>6. CASE ~Busy(f) /\ r[f] = NewRow(f)
    <3>1. PICK n \in ScreenRow : n = NewRow(f) /\ n.stage \in {"rejected", "staged"}
      BY ANewRow
    <3>2. [n EXCEPT !.stage = "checking"].stage = "checking"
      BY DEF ScreenRow
    <3> QED
      BY <2>1, <2>6, <3>1, <3>2 DEF RowMoves
  <2> QED
    BY <2>2, <2>4, <2>5, <2>6
<1> QED
  BY <1>1, <1>3, <1>4, UploadStays

LEMMA AddFilesUploads ==
  ASSUME BatchInv, WorkInv, UploadInv, NEW S, AddFiles(S)
  PROVE  UploadInv'
<1>1. PICK r : r = Added(S)
  OBVIOUS
<1>2. \A f \in Files : r[f] = row[f] \/ (~Busy(f) /\ r[f] = NewRow(f))
  BY <1>1 DEF AddFiles, Added
<1>3. UNCHANGED <<kept, server>>
  BY DEF AddFiles
<1>4. CASE StartsUpload(S \ Rejected, Added(S))
  BY <1>1, <1>2, <1>3, <1>4, StartsUploads
<1>5. CASE Rendered(Added(S), poll) /\ UNCHANGED <<run, uploading, twice>>
  <2>1. ServerGoes
    BY <1>3, ServerStays DEF BatchInv
  <2>2. \A j \in 1..MaxRuns : RunMoves(j)
    BY <1>5 DEF RunMoves
  <2>3. \A f \in Files : RowMoves(f)
    <3>1. \A f \in Files : row'[f] = row[f] \/ (~Busy(f) /\ row'[f] = NewRow(f))
      BY <1>1, <1>2, <1>5 DEF Rendered
    <3> QED
      BY <3>1, ANewRow DEF RowMoves
  <2> QED
    BY <1>3, <1>5, <2>1, <2>2, <2>3, UploadStays
<1> QED
  BY <1>4, <1>5 DEF AddFiles

LEMMA SendAgainUploads ==
  ASSUME BatchInv, WorkInv, UploadInv, NEW S \in SUBSET Retryable, SendAgain(S)
  PROVE  UploadInv'
<1>1. PICK r : r = Restaged(S)
  OBVIOUS
<1>2. \A f \in Files :
         r[f] = row[f] \/ (row[f].stage # "none" /\ r[f] = [row[f] EXCEPT !.stage = "staged"])
  BY <1>1 DEF Restaged, Retryable
<1>3. StartsUpload(S, r) /\ UNCHANGED <<kept, server>>
  BY <1>1 DEF SendAgain
<1> QED
  BY <1>2, <1>3, StartsUploads

LEMMA RetryOneUploads ==
  ASSUME BatchInv, WorkInv, UploadInv, NEW f \in Retryable, row[f].id # 0, RetryOne(f)
  PROVE  UploadInv'
<1>1. ServerGoes /\ kept' = kept /\ twice \subseteq twice'
  BY ServerStays DEF BatchInv, RetryOne, Begin
<1>2. f \in Files /\ row[f].stage = "failed"
  BY DEF Retryable
<1>3. PICK e \in ScreenRow : e = row[f]
  BY <1>2, ARow DEF BatchInv
<1>4. \A g \in Files \ {f} : row'[g] = row[g]
  BY DEF RetryOne, Retrying, Rendered, BatchInv, RowsHold
<1>5. row'[f].id = e.id /\ row'[f].stage = "uploading"
  <2>1. row'[f] = [e EXCEPT !.stage = "uploading"]
    BY <1>2, <1>3 DEF RetryOne, Retrying, Rendered, BatchInv, RowsHold
  <2> QED
    BY <2>1 DEF ScreenRow
<1>6. PICK n : n = NewRun("one", "sending", {f})
  OBVIOUS
<1>7. PICK k \in 1..MaxRuns : /\ run[k] = IdleRun
                              /\ run' = [run EXCEPT ![k] = [n EXCEPT !.id[f] = e.id]]
  BY <1>3, <1>6 DEF RetryOne, Begin
<1>15. n \in RunRow
  BY <1>6, NewRuns
<1>8. PICK ids \in [Files -> Nat] : ids = [n.id EXCEPT ![f] = e.id] /\ ids[f] = e.id
  <2>1. n.id \in [Files -> Nat] /\ e.id \in Nat
    BY <1>15 DEF RunRow, ScreenRow
  <2>2. [n.id EXCEPT ![f] = e.id] \in [Files -> Nat] /\ [n.id EXCEPT ![f] = e.id][f] = e.id
    BY <1>2, <2>1
  <2> QED
    BY <2>2
<1>9. PICK x : x = [n EXCEPT !.id = ids] /\ x.id = ids /\ x.task = n.task
  <2>1. [n EXCEPT !.id = ids].id = ids /\ [n EXCEPT !.id = ids].task = n.task
    BY <1>15 DEF RunRow
  <2> QED
    BY <2>1
<1>10. run' = [run EXCEPT ![k] = x]
  BY <1>7, <1>8, <1>9
<1>11. run'[k] = x /\ \A j \in 1..MaxRuns \ {k} : run'[j] = run[j]
  BY <1>10 DEF BatchInv, RunsHold
<1>12. \A g \in Files : Sending(x, g) => g = f
  BY <1>6, <1>9 DEF NewRun, Sending, AtWork
<1>13. ASSUME NEW j \in 1..MaxRuns PROVE RunMoves(j)
  <2>1. CASE j = k
    <3>1. run[j].at = "idle"
      BY <1>7, <2>1 DEF IdleRun, NewRun
    <3>2. \A g \in Files : Sending(run'[j], g) => run'[j].id[g] = row'[g].id /\ run'[j].id[g] # 0
      BY <1>3, <1>5, <1>8, <1>9, <1>11, <1>12, <2>1
    <3> QED
      BY <3>1, <3>2 DEF RunMoves
  <2>2. CASE j # k
    BY <1>11, <2>2 DEF RunMoves
  <2> QED
    BY <2>1, <2>2
<1>14. ASSUME NEW g \in Files PROVE RowMoves(g)
  BY <1>2, <1>3, <1>4, <1>5 DEF RowMoves
<1> QED
  BY <1>1, <1>13, <1>14, UploadStays

\* Of a run that is given up no bytes are sent.
LEMMA GivenUpSends ==
  ASSUME BatchInv, NEW k \in 1..MaxRuns, NEW f
  PROVE  ~Sending(GivenUp(run[k]), f)
<1>1. PICK e \in RunRow : e = run[k]
  BY ARun DEF BatchInv
<1>2. CASE e.at \in Signing
  BY <1>1, <1>2, LostFacts DEF GivenUp, Sending, Signing
<1>3. CASE e.at \notin Signing
  BY <1>1, <1>3, IdleSends DEF GivenUp
<1> QED
  BY <1>2, <1>3

\* The batch is forgotten: nothing says Uploaded, and nobody uploads.
LEMMA CloseUploads ==
  ASSUME BatchInv, CloseBatch
  PROVE  UploadInv'
<1>1. NoRow.stage = "none" /\ NoRow.id = 0
  BY DEF NoRow
<1>2. \A f \in Files : row'[f] = NoRow /\ kept'[f] = 0
  BY DEF CloseBatch
<1>3. \A k \in 1..MaxRuns, f \in Files : ~Sending(run'[k], f)
  BY GivenUpSends DEF CloseBatch
<1>4. UploadedHolds' /\ OneFile'
  BY <1>1, <1>2, <1>3 DEF UploadedHolds, OneFile, Sending, AtWork
<1> QED
  BY <1>1, <1>2, <1>4 DEF UploadInv

LEMMA RowsLeave ==
  ASSUME WorkInv, UploadInv, ServerGoes, NEW S, Rendered(Without(S), poll), run' = run, twice' = twice,
         \A f \in Files : kept'[f] \in {0, kept[f]}
  PROVE  UploadInv'
<1>1. \A j \in 1..MaxRuns : RunMoves(j)
  BY DEF RunMoves
<1>2. \A f \in Files : RowMoves(f)
  BY DEF Rendered, Without, RowMoves
<1> QED
  BY <1>1, <1>2, UploadStays

LEMMA PersonUploads ==
  ASSUME BatchInv, WorkInv, UploadInv, Person
  PROVE  UploadInv'
<1>1. ASSUME NEW S, AddFiles(S) PROVE UploadInv'
  BY <1>1, AddFilesUploads
<1>2. ASSUME NEW f \in Files, RetryUpload(f) PROVE UploadInv'
  <2>1. f \in Retryable /\ {f} \in SUBSET Retryable
    BY <1>2 DEF RetryUpload
  <2> QED
    BY <1>2, <2>1, SendAgainUploads, RetryOneUploads DEF RetryUpload
<1>3. CASE RetryAllUploads
  BY <1>3, SendAgainUploads DEF RetryAllUploads
<1>4. CASE DiscardFailed
  <2>1. ServerGoes /\ twice' = twice
    BY <1>4, ServerStays DEF BatchInv, DiscardFailed
  <2>2. PICK S : S = {f \in Files : row[f].stage \in {"failed", "rejected"}}
    OBVIOUS
  <2>3. CloseBatch \/ (Rendered(Without(S), poll) /\ UNCHANGED <<run, kept>>)
    BY <1>4, <2>2 DEF DiscardFailed
  <2> QED
    BY <2>1, <2>3, CloseUploads, RowsLeave
<1>5. ASSUME NEW D, DiscardFiles(D) PROVE UploadInv'
  <2>1. ServerGoes /\ twice' = twice
    BY <1>5, DiscardedGoes DEF DiscardFiles, BatchInv
  <2>2. PICK S : S = {f \in Files : row[f].id \in D}
    OBVIOUS
  <2>3. \/ CloseBatch
        \/ Rendered(Without(S), poll) /\ ForgetFiles(D) /\ run' = run
        \/ UNCHANGED <<row, run, kept>>
    BY <1>5, <2>2 DEF DiscardFiles
  <2>4. ForgetFiles(D) => \A f \in Files : kept'[f] \in {0, kept[f]}
    BY DEF ForgetFiles
  <2> QED
    BY <2>1, <2>3, <2>4, CloseUploads, RowsLeave, SameRows
<1> QED
  BY <1>1, <1>2, <1>3, <1>4, <1>5 DEF Person

\* What a reload brings back as uploaded is what the disk kept, and that has arrived.
LEMMA ReloadUploads ==
  ASSUME BatchInv, UploadInv, Reload
  PROVE  UploadInv'
<1>1. ServerGoes /\ UNCHANGED <<kept, server>>
  BY ServerStays DEF BatchInv, Reload
<1>2. \A k \in 1..MaxRuns, f \in Files : ~Sending(run'[k], f)
  BY GivenUpSends DEF Reload
<1>3. ASSUME NEW f \in Files
      PROVE  row'[f].id = kept[f] /\ (row'[f].stage = "none" <=> kept[f] = 0)
  BY DEF Reload, Remembered, NoRow
<1>4. \A f \in Files : kept[f] # 0 => Arrived(kept[f])'
  BY <1>1, KeptArrived
<1>5. UploadedHolds'
  <2>1. ASSUME NEW f \in Files, row'[f].stage = "uploaded" PROVE row'[f].id # 0 /\ Arrived(row[f].id)'
    <3>1. row'[f].id = kept[f] /\ kept[f] # 0
      BY <1>3, <2>1
    <3>2. Arrived(kept[f])'
      BY <1>4, <3>1
    <3>3. kept'[f] = kept[f]
      BY <1>1
    <3> QED
      BY <3>1, <3>2, <3>3 DEF Arrived
  <2> QED
    BY <2>1 DEF UploadedHolds
<1>6. OneFile'
  BY <1>2 DEF OneFile, Sending, AtWork
<1>7. \A f \in Files : kept'[f] # 0 => Arrived(kept[f])'
  BY <1>1, KeptArrived
<1> QED
  BY <1>3, <1>5, <1>6, <1>7 DEF UploadInv

LEMMA UploadStarts ==
  ASSUME PrepareInit
  PROVE  UploadInv
<1>1. /\ row = [f \in Files |-> IF f \in Dropped \ Rejected
                                THEN [NewRow(f) EXCEPT !.stage = "checking"]
                                ELSE IF f \in Dropped THEN NewRow(f) ELSE NoRow]
      /\ run = [k \in 1..MaxRuns |-> IF k = 1 THEN NewRun("upload", "signing", Dropped \ Rejected)
                                     ELSE IdleRun]
      /\ kept = [f \in Files |-> 0]
  BY DEF PrepareInit, Init
<1>2. ASSUME NEW f \in Files PROVE row[f].stage # "uploaded" /\ (row[f].stage = "none" => row[f].id = 0)
  <2>1. PICK e \in ScreenRow : e = NewRow(f) /\ e.stage \in {"rejected", "staged"}
    BY ANewRow
  <2>2. [e EXCEPT !.stage = "checking"].stage = "checking"
    BY DEF ScreenRow
  <2>3. NoRow.stage = "none" /\ NoRow.id = 0
    BY DEF NoRow
  <2>4. row[f] = [e EXCEPT !.stage = "checking"] \/ row[f] = e \/ row[f] = NoRow
    BY <1>1, <2>1
  <2> QED
    BY <2>1, <2>2, <2>3, <2>4
<1>3. \A k \in 1..MaxRuns, f \in Files : ~Sending(run[k], f)
  BY <1>1, IdleSends DEF NewRun, Sending
<1> QED
  BY <1>1, <1>2, <1>3 DEF UploadInv, UploadedHolds, OneFile

LEMMA UploadStep ==
  ASSUME BatchInv, WorkInv, UploadInv, [PrepareNext]_prepareVars
  PROVE  UploadInv'
<1>1. ASSUME NEW k \in 1..MaxRuns, Uploads(k) PROVE UploadInv'
  BY <1>1, SignedUploads, SignFailedUploads, PutUploads, QuietConfirmUploads, ConfirmMissedUploads
  DEF Uploads
<1>2. ASSUME ServerGoes, UNCHANGED <<row, run, kept, twice>> PROVE UploadInv'
  BY <1>2, SameRows
<1>3. CASE PollAsks \/ PollTells \/ PollIsLost
  <2>1. server' = server /\ UNCHANGED <<row, run, kept, twice>>
    BY <1>3 DEF PollAsks, PollReadsFiles, PollReadsSchemas, PollTells, PollAnswered, PollIsLost,
                PollFails, Rendered
  <2> QED
    BY <1>2, <2>1, ServerStays DEF BatchInv
<1>4. CASE InspectSome
  BY <1>2, <1>4, InspectGoes DEF InspectSome, BatchInv
<1>5. CASE Convert
  BY <1>2, <1>5, ServerStays DEF Convert, BatchInv
<1>6. CASE ReloadPage
  BY <1>6, ReloadUploads DEF ReloadPage
<1>7. CASE UNCHANGED prepareVars
  <2>1. server' = server /\ UNCHANGED <<row, run, kept, twice>>
    BY <1>7 DEF prepareVars, vars
  <2> QED
    BY <1>2, <2>1, ServerStays DEF BatchInv
<1>8. ASSUME NEW k \in 1..MaxRuns, Calls(k) PROVE UploadInv'
  BY <1>8, CallsUploads
<1> QED
  BY <1>1, <1>3, <1>4, <1>5, <1>6, <1>7, <1>8, PersonUploads DEF PrepareNext

\* A row that says Uploaded, and that no two runs were ever at work on at once, is past
\* UPLOADING on the server when nobody is at work on it, after a reload too
\* (UploadedIsConfirmed: runUpload's second confirm, rememberFiles).
THEOREM UploadsAreConfirmed == PrepareSpec => []UploadedIsConfirmed
<1>1. ASSUME BatchInv, WorkInv, UploadInv, NEW f \in Files \ twice, row[f].stage = "uploaded", ~Busy(f)
      PROVE  server[row[f].id].stage # "UPLOADING"
  <2>1. \A k \in 1..MaxRuns : ~Unheard(run[k], f)
    BY <1>1, SendingBusy, UnheardSends
  <2> QED
    BY <1>1, <2>1 DEF UploadInv, UploadedHolds, Arrived
<1>2. BatchInv /\ WorkInv /\ UploadInv => UploadedIsConfirmed
  BY <1>1 DEF UploadedIsConfirmed
<1>3. BatchInv /\ WorkInv /\ UploadInv /\ [PrepareNext]_prepareVars => UploadInv'
  BY UploadStep
<1> QED
  BY <1>2, <1>3, UploadStarts, BatchInvHolds, OwnHolds, PTL DEF PrepareSpec
=============================================================================
