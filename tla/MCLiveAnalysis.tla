---------------------------- MODULE MCLiveAnalysis ----------------------------
(***************************************************************************)
(* LiveAnalysis for TLC: when the first run starts, the tenant's first     *)
(* scan is under way or completed.                                         *)
(***************************************************************************)
EXTENDS LiveAnalysis

Old(s) == [with |-> {}, state |-> s]

NoneOrOne == {<<Old("running")>>, <<Old("completed")>>}
OneScan == {<<Old("completed")>>}
===============================================================================
