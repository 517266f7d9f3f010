------------------------------ MODULE MCProjects -------------------------------
(***************************************************************************)
(* Projects for TLC: threads and uploads are interchangeable.              *)
(***************************************************************************)
EXTENDS Projects, TLC

Symmetric == Permutations(Workers) \cup Permutations(Uploads)
===============================================================================
