------------------------------ MODULE MCPrepare ------------------------------
(* Instances of Prepare: one file dropped and one that may be added, under *)
(* two names or one.  A readable file yields a table and an empty          *)
(* worksheet.                                                              *)
EXTENDS Prepare
AllApart == <<"a", "b">>
AllAlike == <<"a", "a">>
SomeYields == {[shapes |-> {"t1"}, blank |-> {"t2"}]}
==============================================================================
