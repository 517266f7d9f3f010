------------------------------ MODULE MCCuration -------------------------------
(***************************************************************************)
(* Curation for TLC: the threads of the server are interchangeable.        *)
(***************************************************************************)
EXTENDS Curation, TLC

Threads == Permutations(Workers)
===============================================================================
