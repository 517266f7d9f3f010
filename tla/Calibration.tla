----------------------------- MODULE Calibration -----------------------------
(***************************************************************************)
(* The verification gate and the feedback that calibrates it (verifier.py, *)
(* feedback.py), with the two places that record feedback: the review of a *)
(* verdict and the rollback of an override.  Confidences are in hundredths *)
(* (the code's floats agree with them at the confidences of the runs).     *)
(***************************************************************************)
EXTENDS Integers, Sequences, FiniteSets

CONSTANTS
  Roles,          \* the roles reviewed here, of "sanitizer", "source", "sink"
  Classes,        \* attack classes a classification may name
  Confidences,    \* confidences a classification may have, in 0..100
  Threshold,      \* cfg.min_confidence_auto
  MinTriage,      \* cfg.min_triage_support
  Histories,      \* what a project may start with: an outcome, so many times
  MaxEvents       \* bound: feedback events recorded from there

\* What signature() and generate_overrides() put for an empty class list.
NoClass      == "none"
UnknownClass == "unknown"
DefaultClass == "sql_injection"

ASSUME GateAssumption ==
  /\ Confidences \subseteq 0..100
  /\ Threshold \in 0..100
  /\ MinTriage \in Nat
  /\ Histories \subseteq {"approved", "rejected"} \X Nat
  /\ MaxEvents \in Nat

VARIABLES
  log,     \* feedback.json: a sequence of [sig, outcome]
  live,    \* applied overrides of each kind, with the class they came from
  events   \* events recorded since the start

vars == <<log, live, events>>

-----------------------------------------------------------------------------
(* feedback.py                                                             *)

Outcomes == {"approved", "rejected", "rolled_back"}
Step == [approved |-> 1, rejected |-> -3, rolled_back |-> -6]
MaxAdjustment == 10

Signature(role, class) == <<role, IF class = NoClass THEN UnknownClass ELSE class>>

Signatures == Roles \X (Classes \cup {UnknownClass, DefaultClass})

Least(a, b) == IF a <= b THEN a ELSE b
Greatest(a, b) == IF a <= b THEN b ELSE a
OneSided(lo, hi, x) == Least(hi, x)
Clamp(lo, hi, x) == Greatest(lo, Least(hi, x))

AdjustmentFromCounts(n) ==
  Clamp(-MaxAdjustment, MaxAdjustment,
        Step.approved * n.approved + Step.rejected * n.rejected
          + Step.rolled_back * n.rolled_back)

Occurrences(entries, sig, outcome) ==
  {i \in DOMAIN entries : entries[i].sig = sig /\ entries[i].outcome = outcome}

Counts(entries, sig) ==
  [o \in Outcomes |-> Cardinality(Occurrences(entries, sig, o))]

\* FeedbackStore.adjustment: zero for a signature with no history.
AdjustmentOfOutcome(entries, sig) ==
  AdjustmentFromCounts([o \in Outcomes |->
    Cardinality({i \in DOMAIN entries : entries[i].outcome = o})])
Adjustment(entries, sig) == AdjustmentFromCounts(Counts(entries, sig))

Adjustments(entries) == [sig \in Signatures |-> Adjustment(entries, sig)]

\* FeedbackStore.all_trends: the running adjustment after each event of a
\* signature, walking the log once.
NoCounts == [o \in Outcomes |-> 0]

PointBeforeCount(acc, entry) ==
  [counts |-> [acc.counts EXCEPT ![entry.outcome] = @ + 1],
   points |-> Append(acc.points, AdjustmentFromCounts(acc.counts))]

TrendPoint(acc, entry) ==
  LET counts == [acc.counts EXCEPT ![entry.outcome] = @ + 1]
  IN [counts |-> counts, points |-> Append(acc.points, AdjustmentFromCounts(counts))]

\* The counts and the points after each entry of the log.
Walk(entries, sig) ==
  LET after[n \in 0..Len(entries)] ==
        IF n = 0 THEN [counts |-> NoCounts, points |-> <<>>]
        ELSE IF entries[n].sig = sig THEN TrendPoint(after[n - 1], entries[n])
        ELSE after[n - 1]
  IN after

Trend(entries, sig) == Walk(entries, sig)[Len(entries)].points

-----------------------------------------------------------------------------
(* verifier.py                                                             *)

\* A classification and what the indexer and the triage history say of it.
Verdicts == [role : Roles, class : Classes \cup {NoClass}, conf : Confidences,
             reasons : BOOLEAN, triage : {0, MinTriage}, confirmed : BOOLEAN]

Effective(conf, adjustment) == Clamp(0, 100, conf + adjustment)

Clears(v, adjustment) == Effective(v.conf, adjustment) >= Threshold

\* What each role needs besides its confidence.
Evidence(v) ==
  IF v.role = "sanitizer" THEN v.triage >= MinTriage /\ v.reasons ELSE v.confirmed

\* What keeps a verdict from being rejected outright.
Reviewable(v, adjustment) ==
  IF v.role = "sanitizer" THEN v.reasons ELSE Clears(v, adjustment)

ConfidenceOnly(v, adjustment) ==
  IF Clears(v, adjustment) THEN "APPROVED"
  ELSE IF Reviewable(v, adjustment) THEN "NEEDS_REVIEW" ELSE "REJECTED"

Gate(v, adjustment) ==
  IF Clears(v, adjustment) /\ Evidence(v) THEN "APPROVED"
  ELSE IF Reviewable(v, adjustment) THEN "NEEDS_REVIEW" ELSE "REJECTED"

Verdict(v, adjustments) == Gate(v, adjustments[Signature(v.role, v.class)])

-----------------------------------------------------------------------------
(* The two callers of FeedbackStore.record.                                *)

Unsigned(entries, role, class, outcome) ==
  Append(entries, [sig |-> <<role, class>>, outcome |-> outcome])

Recorded(entries, role, class, outcome) ==
  Append(entries, [sig |-> Signature(role, class), outcome |-> outcome])

\* generate_overrides: an override always has an attack class.
OverrideOf(role, class) ==
  [kind |-> role, attackClass |-> IF class = NoClass THEN DefaultClass ELSE class,
   from |-> class]

Overrides == {OverrideOf(r, c) : r \in Roles, c \in Classes \cup {NoClass}}

Init ==
  /\ \E h \in Histories, r \in Roles, c \in Classes :
       log = [i \in 1..h[2] |-> [sig |-> Signature(r, c), outcome |-> h[1]]]
  /\ live = [o \in Overrides |-> 0]
  /\ events = 0

\* A verdict on the review screen is approved or declined (server.py, cli.py);
\* a rejected one never gets there.
Review(role, class, yes) ==
  /\ events < MaxEvents
  /\ \E v \in Verdicts :
       /\ v.role = role /\ v.class = class
       /\ Gate(v, Adjustment(log, Signature(role, class))) # "REJECTED"
  /\ log' = Recorded(log, role, class, IF yes THEN "approved" ELSE "rejected")
  /\ live' = IF yes THEN [live EXCEPT ![OverrideOf(role, class)] = @ + 1] ELSE live
  /\ events' = events + 1

\* rollback_override records under the class of the override.
RollBack(o) ==
  /\ events < MaxEvents
  /\ live[o] > 0
  /\ log' = Recorded(log, o.kind, o.attackClass, "rolled_back")
  /\ live' = [live EXCEPT ![o] = @ - 1]
  /\ events' = events + 1

Next ==
  \/ \E r \in Roles, c \in Classes \cup {NoClass}, yes \in BOOLEAN : Review(r, c, yes)
  \/ \E o \in Overrides : RollBack(o)

Spec == Init /\ [][Next]_vars

-----------------------------------------------------------------------------
(* Properties.                                                             *)

Entry == [sig : Signatures, outcome : Outcomes]

\* Every entry has one known outcome and a signature verify can ask about.
TypeOK ==
  /\ log \in Seq(Entry)
  /\ live \in [Overrides -> Nat]
  /\ events \in 0..MaxEvents

\* feedback.py: "nothing is ever approved on the LLM's word (or the
\* calibration's word) alone".  Whatever the history, an approval has its
\* evidence and a raw confidence within ten points of the threshold.
NeverOnWordAlone ==
  LET adj == Adjustments(log)
  IN \A v \in Verdicts :
       Verdict(v, adj) = "APPROVED" => Evidence(v) /\ v.conf + MaxAdjustment >= Threshold

\* Nor can history alone reject what clears the threshold by ten points.
NeverRejectedByHistory ==
  LET adj == Adjustments(log)
  IN \A v \in Verdicts :
       v.conf >= Threshold + MaxAdjustment /\ Evidence(v) => Verdict(v, adj) = "APPROVED"

\* The chart of the calibration page ends where its summary table stands.
TrendEndsAtSummary ==
  \A sig \in {log[i].sig : i \in DOMAIN log} :
    LET t == Trend(log, sig)
    IN /\ Len(t) = Cardinality({i \in DOMAIN log : log[i].sig = sig})
       /\ t[Len(t)] = Adjustment(log, sig)

Rank == [APPROVED |-> 2, NEEDS_REVIEW |-> 1, REJECTED |-> 0]

\* A decision moves only the verdicts of its own signature, a declined or
\* rolled-back one never upwards and an approved one never downwards.
CalibrationMonotone ==
  [][LET e    == log'[Len(log')]
         adj  == Adjustments(log)
         adj2 == Adjustments(log')
     IN \A v \in Verdicts :
          LET was == Rank[Verdict(v, adj)]
              is  == Rank[Verdict(v, adj2)]
          IN /\ e.sig # Signature(v.role, v.class) => is = was
             /\ e.outcome = "approved" => is >= was
             /\ e.outcome # "approved" => is <= was]_vars
=============================================================================
