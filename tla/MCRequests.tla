----------------------------- MODULE MCRequests -----------------------------
(***************************************************************************)
(* A request before and after Convert, in two parts that are explored by   *)
(* themselves: what its status says of its files, and the review of its    *)
(* shapes, of three tables.  Two tables are of one file; two were detected *)
(* with one column, the third with the column a person adds as well.  A    *)
(* person has two moves less where a call fails.                           *)
(***************************************************************************)
EXTENDS RequestStatus, Review, TLC

CONSTANTS f1, f2, f3,   \* files of the status
          s1, s2,       \* transactions
          t1, t2, t3,   \* tables of the review
          b1
VARIABLE part           \* the one of them that is explored

RequestsInit == part \in {"status", "review"} /\ Init /\ ReviewInit
RequestsNext ==
    /\ UNCHANGED part
    /\ \/ part = "status" /\ Next /\ UNCHANGED reviewVars
       \/ part = "review" /\ ReviewNext /\ (faults' = 0 \/ moves' + 2 <= MaxMoves) /\ UNCHANGED vars
RequestsSpec == RequestsInit /\ [][RequestsNext]_<<vars, reviewVars, part>>

AnyOrder == Permutations({f1, f2}) \cup Permutations({s1, s2})
TwoFiles == (t1 :> "f") @@ (t2 :> "f") @@ (t3 :> "g")
TwoShapes == [t \in Tables |-> IF t = t3 THEN ("a" :> Plain("text")) @@ ("b" :> Plain("text"))
                               ELSE "a" :> Plain("text")]
=============================================================================
