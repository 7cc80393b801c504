-------------------------- MODULE MCRequestStatus ---------------------------
(***************************************************************************)
(* An instance of RequestStatus for TLC.                                    *)
(***************************************************************************)
EXTENDS RequestStatus

CONSTANTS f1, f2, f3,   \* files
          t1, t2        \* transactions

=============================================================================
