------------------------------ MODULE FileLife ------------------------------
(***************************************************************************)
(* What the pipeline promises of a file, whoever works on it and however   *)
(* often: the stages it may go through, and that a request to convert is   *)
(* honoured by every shape that lands later.  Pipeline implements this;    *)
(* RequestStatus is built on it.                                           *)
(***************************************************************************)

CONSTANT Files

VARIABLES stage,      \* stage[f]: files.stage
          converted   \* requests.converted_at IS NOT NULL

lifeVars == << stage, converted >>

LifeInit ==
  /\ stage = [ f \in Files |-> "UPLOADING" ]
  /\ converted = FALSE

-----------------------------------------------------------------------------
Moves(f, from, to) ==
  /\ stage[f] = from
  /\ stage' = [ stage EXCEPT ![f] = to ]
  /\ UNCHANGED converted

Arrives(f) == Moves(f, "UPLOADING", "UPLOADED")

IsInspected(f) == Moves(f, "UPLOADED", "INSPECTING")

\* An attempt that ended early, or a lease that ran out.
IsGivenBack(f) == Moves(f, "INSPECTING", "UPLOADED")

\* A shape that lands after the request to convert goes straight on.
ShapeLands(f) ==
  Moves(f, "INSPECTING", IF converted THEN "CONVERTING" ELSE "SCHEMA_READY")

Completes(f) == Moves(f, "CONVERTING", "COMPLETED")

\* A file can fail at any time, once.
Fails(f) == stage[f] # "FAILED" /\ Moves(f, stage[f], "FAILED")

\* The request to convert, when nothing is arriving any more.  It takes files
\* that have their shape.
IsConverted(moved) ==
  /\ \A f \in Files : stage[f] # "UPLOADING"
  /\ \A f \in moved : stage[f] = "SCHEMA_READY"
  /\ stage' = [ f \in Files |-> IF f \in moved THEN "CONVERTING" ELSE stage[f] ]
  /\ converted' = TRUE

LifeNext ==
  \/ \E f \in Files :
       \/ Arrives(f)
       \/ IsInspected(f)
       \/ IsGivenBack(f)
       \/ ShapeLands(f)
       \/ Completes(f)
       \/ Fails(f)
  \/ \E moved \in SUBSET Files : IsConverted(moved)

LifeSpec == LifeInit /\ [][LifeNext]_lifeVars

=============================================================================
