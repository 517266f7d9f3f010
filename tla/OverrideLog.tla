----------------------------- MODULE OverrideLog -----------------------------
(***************************************************************************)
(* What the ledger promises, independently of files, requests and threads: *)
(* an override is activated or retired one at a time, and each change is   *)
(* followed by the one trail entry that accounts for it before the next    *)
(* change is made.  Replaying the trail then yields the active overrides   *)
(* whenever no entry is due.                                               *)
(***************************************************************************)
EXTENDS Integers, Sequences

CONSTANT Overrides     \* every record with a field fn that could be applied

VARIABLES
  active,    \* the overrides the scan engine honours
  trail,     \* sequence of [event, ov] entries
  due        \* the change made but not yet in the trail, at most one

vars == <<active, trail, due>>

Init ==
  /\ active = {}
  /\ trail = <<>>
  /\ due = {}

\* No two active overrides ever speak for the same function.
Activate(o) ==
  /\ due = {}
  /\ \A a \in active : a.fn # o.fn
  /\ active' = active \cup {o}
  /\ due' = {[event |-> "applied", ov |-> o]}
  /\ UNCHANGED trail

Retire(o) ==
  /\ due = {}
  /\ o \in active
  /\ active' = active \ {o}
  /\ due' = {[event |-> "rolled_back", ov |-> o]}
  /\ UNCHANGED trail

Record ==
  \E e \in due :
    /\ trail' = Append(trail, e)
    /\ due' = {}
    /\ UNCHANGED active

Next ==
  \/ \E o \in Overrides : Activate(o) \/ Retire(o)
  \/ Record

Spec == Init /\ [][Next]_vars

=============================================================================
