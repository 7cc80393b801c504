------------------------------ MODULE MCMerges ------------------------------
(***************************************************************************)
(* The results of a request and the work they come from, in parts that are *)
(* explored by themselves.  Merges: two tables of one shape, from two      *)
(* files, a table that did not finish, and two of another shape, too long  *)
(* to be opened together; calls that overlap, or one at a time beside what *)
(* reads the merges.  The work on one file of two tables has two           *)
(* deliveries and two attempts, or one delivery at a time and three where  *)
(* processes stop.                                                         *)
(***************************************************************************)
EXTENDS Merges, Zamp, TLC
CONSTANTS d1, d2
VARIABLE part

CombinedInit ==
    /\ part \in {"calls", "reads", "work"} /\ Init /\ ZampInit
    /\ doc.max_attempts = IF mishap = "stops" THEN 3 ELSE 2
    /\ part # "work" => mishap = "nothing"
OneAtATime == Cardinality({d \in Deliveries : job'[d].at # "idle"}) <= 1
OneCall == Cardinality({i \in DOMAIN call : call'[i] # NoCall}) <= 1
CombinedNext ==
    /\ UNCHANGED part
    /\ \/ part = "calls" /\ Next /\ UNCHANGED <<reader, zampVars>>
       \/ part = "reads" /\ Next /\ OneCall /\ UNCHANGED zampVars
       \/ part = "work" /\ ZampNext /\ (mishap = "stops" => OneAtATime) /\ UNCHANGED vars
CombinedSpec == CombinedInit /\ [][CombinedNext]_<<vars, zampVars, part>>

AnyOrder == Permutations({d1, d2})
FiveTables == <<"t1", "t2", "t3", "t4", "t5">>
TwoFiles == [t \in ToSet(FiveTables) |-> IF t = "t1" THEN "f" ELSE "g"]
TwoShapes == [t \in ToSet(FiveTables) |-> IF t \in {"t1", "t2"} THEN [a |-> "text"] ELSE [a |-> "number"]]
SomeRows == [t \in ToSet(FiveTables) |-> IF t = "t5" THEN 2 ELSE 1]
=============================================================================
