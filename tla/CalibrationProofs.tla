-------------------------- MODULE CalibrationProofs --------------------------
(***************************************************************************)
(* Proofs about Calibration for any roles, classes, confidences, threshold *)
(* and history, however long.                                              *)
(***************************************************************************)
EXTENDS Calibration, FiniteSetTheorems, SequenceTheorems, WellFoundedInduction, TLAPS

-----------------------------------------------------------------------------
(* The counters and the bounded adjustment.                                *)

\* The events of a signature with a given outcome form a finite set.
LEMMA OccurrencesFinite ==
  ASSUME NEW entries \in Seq(Entry), NEW sig, NEW o
  PROVE  /\ IsFiniteSet(Occurrences(entries, sig, o))
         /\ Cardinality(Occurrences(entries, sig, o)) \in Nat
  <1>1. IsFiniteSet(1..Len(entries))
    BY FS_Interval
  <1>2. Occurrences(entries, sig, o) \subseteq 1..Len(entries)
    BY DEF Occurrences
  <1>3. IsFiniteSet(Occurrences(entries, sig, o))
    BY <1>1, <1>2, FS_Subset
  <1>4. QED
    BY <1>3, FS_CardinalityType

LEMMA CountsType ==
  ASSUME NEW entries \in Seq(Entry), NEW sig
  PROVE  Counts(entries, sig) \in [Outcomes -> Nat]
  BY OccurrencesFinite DEF Counts

\* The adjustment never leaves the band of ten points (feedback.py:45-47).
LEMMA ClampLinear ==
  ASSUME NEW n \in [Outcomes -> Nat]
  PROVE  /\ n.approved - 3 * n.rejected - 6 * n.rolled_back \in Int
         /\ AdjustmentFromCounts(n) =
              Clamp(-10, 10, n.approved - 3 * n.rejected - 6 * n.rolled_back)
  <1>1. n.approved \in Nat /\ n.rejected \in Nat /\ n.rolled_back \in Nat
    BY DEF Outcomes
  <1>2. Step.approved = 1 /\ Step.rejected = -3 /\ Step.rolled_back = -6
    BY DEF Step
  <1>3. Step.approved * n.approved + Step.rejected * n.rejected
          + Step.rolled_back * n.rolled_back
        = n.approved - 3 * n.rejected - 6 * n.rolled_back
    BY <1>1, <1>2
  <1>4. QED
    BY <1>1, <1>3 DEF AdjustmentFromCounts, MaxAdjustment

LEMMA AdjustmentFromCountsBounded ==
  ASSUME NEW n \in [Outcomes -> Nat]
  PROVE  AdjustmentFromCounts(n) \in (-10)..10
  BY ClampLinear DEF Clamp, Least, Greatest

LEMMA AdjustmentBounded ==
  ASSUME NEW entries \in Seq(Entry), NEW sig
  PROVE  Adjustment(entries, sig) \in (-10)..10
  BY CountsType, AdjustmentFromCountsBounded DEF Adjustment

\* A larger approved count, or smaller others, never lowers the adjustment.
LEMMA AdjustmentMonotone ==
  ASSUME NEW m \in [Outcomes -> Nat], NEW n \in [Outcomes -> Nat],
         m.approved <= n.approved, n.rejected <= m.rejected,
         n.rolled_back <= m.rolled_back
  PROVE  AdjustmentFromCounts(m) <= AdjustmentFromCounts(n)
  <1>1. /\ m.approved \in Nat /\ m.rejected \in Nat /\ m.rolled_back \in Nat
        /\ n.approved \in Nat /\ n.rejected \in Nat /\ n.rolled_back \in Nat
    BY DEF Outcomes
  <1>2. m.approved - 3 * m.rejected - 6 * m.rolled_back
          <= n.approved - 3 * n.rejected - 6 * n.rolled_back
    BY <1>1
  <1>3. QED
    BY <1>2, ClampLinear DEF Clamp, Least, Greatest

\* Recording an event adds one to the count it is about and to no other.
LEMMA AppendCounts ==
  ASSUME NEW entries \in Seq(Entry), NEW e \in Entry, NEW sig
  PROVE  Counts(Append(entries, e), sig) =
           IF e.sig = sig
           THEN [Counts(entries, sig) EXCEPT ![e.outcome] = @ + 1]
           ELSE Counts(entries, sig)
  <1> DEFINE n == Len(entries) + 1
             longer == Append(entries, e)
  <1>0. e.outcome \in Outcomes
    BY DEF Entry
  <1>1. /\ DOMAIN longer = 1..n /\ DOMAIN entries = 1..(n - 1) /\ n \in Nat
        /\ longer[n] = e /\ \A i \in 1..(n - 1) : longer[i] = entries[i]
    OBVIOUS
  <1>2. ASSUME NEW o \in Outcomes, e.sig = sig, e.outcome = o
        PROVE  Cardinality(Occurrences(longer, sig, o)) =
                 Cardinality(Occurrences(entries, sig, o)) + 1
    <2>1. Occurrences(longer, sig, o) = Occurrences(entries, sig, o) \cup {n}
      BY <1>1, <1>2 DEF Occurrences
    <2>2. n \notin Occurrences(entries, sig, o)
      BY <1>1 DEF Occurrences
    <2>3. QED
      BY <2>1, <2>2, OccurrencesFinite, FS_AddElement
  <1>3. ASSUME NEW o \in Outcomes, ~(e.sig = sig /\ e.outcome = o)
        PROVE  Occurrences(longer, sig, o) = Occurrences(entries, sig, o)
    BY <1>1, <1>3 DEF Occurrences
  <1>4. CASE e.sig = sig
    <2>1. \A o \in Outcomes : Counts(longer, sig)[o] =
            [Counts(entries, sig) EXCEPT ![e.outcome] = @ + 1][o]
      BY <1>0, <1>2, <1>3, <1>4 DEF Counts
    <2>2. QED
      BY <1>4, <2>1 DEF Counts
  <1>5. CASE e.sig # sig
    BY <1>3, <1>5 DEF Counts
  <1>6. QED
    BY <1>4, <1>5

-----------------------------------------------------------------------------
(* Type correctness.                                                       *)

LEMMA SignatureType ==
  ASSUME NEW r \in Roles, NEW c \in Classes \cup {NoClass, DefaultClass}
  PROVE  Signature(r, c) \in Signatures
  BY DEF Signature, Signatures

LEMMA RecordedType ==
  ASSUME NEW entries \in Seq(Entry), NEW r \in Roles,
         NEW c \in Classes \cup {NoClass, DefaultClass}, NEW o \in Outcomes
  PROVE  /\ [sig |-> Signature(r, c), outcome |-> o] \in Entry
         /\ Recorded(entries, r, c, o) =
              Append(entries, [sig |-> Signature(r, c), outcome |-> o])
         /\ Recorded(entries, r, c, o) \in Seq(Entry)
  BY SignatureType DEF Entry, Recorded

LEMMA OverrideFields ==
  ASSUME NEW o \in Overrides
  PROVE  /\ o.kind \in Roles
         /\ o.attackClass \in Classes \cup {NoClass, DefaultClass}
         /\ o.from \in Classes \cup {NoClass}
  BY DEF Overrides, OverrideOf

\* What every step does to the log: one well-formed entry more.
LEMMA OneEntry ==
  ASSUME TypeOK, Next
  PROVE  \E e \in Entry : log' = Append(log, e)
  <1>1. ASSUME NEW r \in Roles, NEW c \in Classes \cup {NoClass}, NEW yes \in BOOLEAN,
               Review(r, c, yes)
        PROVE  \E e \in Entry : log' = Append(log, e)
    <2>1. (IF yes THEN "approved" ELSE "rejected") \in Outcomes
      BY DEF Outcomes
    <2>2. QED
      BY <1>1, <2>1, RecordedType DEF Review, TypeOK
  <1>2. ASSUME NEW o \in Overrides, RollBack(o)
        PROVE  \E e \in Entry : log' = Append(log, e)
    <2>1. o.kind \in Roles /\ o.attackClass \in Classes \cup {NoClass, DefaultClass}
      BY OverrideFields
    <2>2. "rolled_back" \in Outcomes /\ log \in Seq(Entry)
      BY DEF Outcomes, TypeOK
    <2>3. log' = Recorded(log, o.kind, o.attackClass, "rolled_back")
      BY <1>2 DEF RollBack
    <2> DEFINE e == [sig |-> Signature(o.kind, o.attackClass), outcome |-> "rolled_back"]
    <2>4. e \in Entry /\ Recorded(log, o.kind, o.attackClass, "rolled_back") = Append(log, e)
      BY <2>1, <2>2, RecordedType
    <2>5. QED
      BY <2>3, <2>4
  <1>3. QED
    BY <1>1, <1>2 DEF Next

LEMMA TypeInit == Init => TypeOK
  <1> SUFFICES ASSUME Init PROVE TypeOK
    OBVIOUS
  <1>1. PICK h \in Histories, r \in Roles, c \in Classes :
          log = [i \in 1..h[2] |-> [sig |-> Signature(r, c), outcome |-> h[1]]]
    BY DEF Init
  <1>2. h[2] \in Nat /\ h[1] \in Outcomes
    BY GateAssumption DEF Outcomes
  <1>3. [sig |-> Signature(r, c), outcome |-> h[1]] \in Entry
    BY <1>2, SignatureType DEF Entry, Outcomes
  <1>4. log \in Seq(Entry)
    BY <1>1, <1>2, <1>3
  <1>5. QED
    BY <1>4, GateAssumption DEF Init, TypeOK

LEMMA TypeNext == TypeOK /\ [Next]_vars => TypeOK'
  <1> SUFFICES ASSUME TypeOK, [Next]_vars PROVE TypeOK'
    OBVIOUS
  <1>1. CASE UNCHANGED vars
    BY <1>1 DEF vars, TypeOK
  <1>2. CASE Next
    <2>1. log' \in Seq(Entry)
      <3>1. PICK e \in Entry : log' = Append(log, e)
        BY <1>2, OneEntry
      <3>2. QED
        BY <3>1 DEF TypeOK
    <2>2. ASSUME NEW r \in Roles, NEW c \in Classes \cup {NoClass}, NEW yes \in BOOLEAN,
                 Review(r, c, yes)
          PROVE  live' \in [Overrides -> Nat] /\ events' \in 0..MaxEvents
      BY <2>2, GateAssumption DEF Review, TypeOK, Overrides
    <2>3. ASSUME NEW o \in Overrides, RollBack(o)
          PROVE  live' \in [Overrides -> Nat] /\ events' \in 0..MaxEvents
      BY <2>3, GateAssumption DEF RollBack, TypeOK
    <2>4. QED
      BY <1>2, <2>1, <2>2, <2>3 DEF Next, TypeOK
  <1>3. QED
    BY <1>1, <1>2

\* The feedback log and the applied overrides stay well formed whatever is
\* reviewed and rolled back, in any order and for as long as the project lives.
THEOREM FeedbackTypeCorrect == Spec => []TypeOK
  BY TypeInit, TypeNext, PTL DEF Spec

-----------------------------------------------------------------------------
(* The gate.                                                               *)

LEMMA VerdictFields ==
  ASSUME NEW v \in Verdicts
  PROVE  /\ v.conf \in 0..100 /\ Signature(v.role, v.class) \in Signatures
         /\ v.role \in Roles
  BY SignatureType, GateAssumption DEF Verdicts

LEMMA VerdictAdjustment ==
  ASSUME NEW entries \in Seq(Entry), NEW v \in Verdicts
  PROVE  /\ Verdict(v, Adjustments(entries)) =
              Gate(v, Adjustment(entries, Signature(v.role, v.class)))
         /\ Adjustment(entries, Signature(v.role, v.class)) \in (-10)..10
  BY VerdictFields, AdjustmentBounded DEF Verdict, Adjustments

LEMMA EvidenceNeeded == TypeOK => NeverOnWordAlone
  <1> SUFFICES ASSUME TypeOK, NEW v \in Verdicts,
                      Verdict(v, Adjustments(log)) = "APPROVED"
               PROVE  Evidence(v) /\ v.conf + MaxAdjustment >= Threshold
    BY DEF NeverOnWordAlone
  <1> DEFINE a == Adjustment(log, Signature(v.role, v.class))
  <1>1. a \in (-10)..10 /\ Gate(v, a) = "APPROVED"
    BY VerdictAdjustment DEF TypeOK
  <1>2. Clears(v, a) /\ Evidence(v)
    BY <1>1 DEF Gate
  <1>3. v.conf + MaxAdjustment >= Threshold
    BY <1>1, <1>2, VerdictFields, GateAssumption
       DEF Clears, Effective, Clamp, Least, Greatest, MaxAdjustment
  <1>4. QED
    BY <1>2, <1>3

\* feedback.py: "nothing is ever approved on the LLM's word (or the
\* calibration's word) alone".  No history, however long, lets a verdict
\* through without its evidence or from more than ten points below the bar.
THEOREM NothingApprovedOnWordAlone == Spec => []NeverOnWordAlone
  BY FeedbackTypeCorrect, EvidenceNeeded, PTL

LEMMA HistoryCannotReject == TypeOK => NeverRejectedByHistory
  <1> SUFFICES ASSUME TypeOK, NEW v \in Verdicts,
                      v.conf >= Threshold + MaxAdjustment, Evidence(v)
               PROVE  Verdict(v, Adjustments(log)) = "APPROVED"
    BY DEF NeverRejectedByHistory
  <1> DEFINE a == Adjustment(log, Signature(v.role, v.class))
  <1>1. a \in (-10)..10 /\ Verdict(v, Adjustments(log)) = Gate(v, a)
    BY VerdictAdjustment DEF TypeOK
  <1>2. Clears(v, a)
    BY <1>1, VerdictFields, GateAssumption
       DEF Clears, Effective, Clamp, Least, Greatest, MaxAdjustment
  <1>3. QED
    BY <1>1, <1>2 DEF Gate

\* What clears the bar by the whole band keeps being approved, whatever was
\* declined or rolled back before.
THEOREM NothingRejectedByHistory == Spec => []NeverRejectedByHistory
  BY FeedbackTypeCorrect, HistoryCannotReject, PTL

-----------------------------------------------------------------------------
(* Monotonicity.                                                           *)

\* A higher adjustment never lowers a verdict.
LEMMA GateMonotone ==
  ASSUME NEW v \in Verdicts, NEW a \in (-10)..10, NEW b \in (-10)..10, a <= b
  PROVE  Rank[Gate(v, a)] <= Rank[Gate(v, b)]
  <1>1. Clears(v, a) => Clears(v, b)
    BY VerdictFields, GateAssumption DEF Clears, Effective, Clamp, Least, Greatest
  <1>2. Reviewable(v, a) => Reviewable(v, b)
    BY <1>1 DEF Reviewable
  <1>3. Clears(v, a) /\ Evidence(v) => Reviewable(v, a)
    BY DEF Reviewable, Evidence
  <1>4. Rank["APPROVED"] = 2 /\ Rank["NEEDS_REVIEW"] = 1 /\ Rank["REJECTED"] = 0
    BY DEF Rank
  <1>5. QED
    BY <1>1, <1>2, <1>4 DEF Gate

\* What one event does to the adjustment of a signature.
LEMMA AdjustmentStep ==
  ASSUME NEW entries \in Seq(Entry), NEW e \in Entry, NEW sig
  PROVE  LET was == Adjustment(entries, sig)
             is  == Adjustment(Append(entries, e), sig)
         IN /\ e.sig # sig => is = was
            /\ e.outcome = "approved" => was <= is
            /\ e.outcome # "approved" => is <= was
  <1> DEFINE m == Counts(entries, sig)
             n == Counts(Append(entries, e), sig)
  <1>1. m \in [Outcomes -> Nat] /\ n \in [Outcomes -> Nat]
    <2>1. Append(entries, e) \in Seq(Entry)
      OBVIOUS
    <2>2. QED
      BY <2>1, CountsType
  <1>2. e.outcome \in Outcomes
    BY DEF Entry
  <1>3. CASE e.sig # sig
    <2>1. n = m
      BY <1>3, AppendCounts
    <2>2. Adjustment(Append(entries, e), sig) = Adjustment(entries, sig)
      BY <2>1 DEF Adjustment
    <2>3. QED
      BY <2>2, AdjustmentBounded
  <1>4. CASE e.sig = sig
    <2>1. n = [m EXCEPT ![e.outcome] = @ + 1]
      BY <1>4, AppendCounts
    <2>2. CASE e.outcome = "approved"
      <3>1. m.approved <= n.approved /\ n.rejected <= m.rejected /\ n.rolled_back <= m.rolled_back
        BY <1>1, <2>1, <2>2 DEF Outcomes
      <3>2. QED
        BY <1>1, <1>4, <2>2, <3>1, AdjustmentMonotone DEF Adjustment
    <2>3. CASE e.outcome # "approved"
      <3>1. n.approved <= m.approved /\ m.rejected <= n.rejected /\ m.rolled_back <= n.rolled_back
        BY <1>1, <1>2, <2>1, <2>3 DEF Outcomes
      <3>2. QED
        BY <1>1, <1>4, <2>3, <3>1, AdjustmentMonotone DEF Adjustment
    <2>4. QED
      BY <2>2, <2>3
  <1>5. QED
    BY <1>3, <1>4

LEMMA MonotoneStep ==
  ASSUME TypeOK, Next, NEW v \in Verdicts
  PROVE  LET e   == log'[Len(log')]
             was == Rank[Verdict(v, Adjustments(log))]
             is  == Rank[Verdict(v, Adjustments(log'))]
         IN /\ e.sig # Signature(v.role, v.class) => is = was
            /\ e.outcome = "approved" => is >= was
            /\ e.outcome # "approved" => is <= was
  <1>1. PICK e \in Entry : log' = Append(log, e)
    BY OneEntry
  <1>2. log \in Seq(Entry) /\ log' \in Seq(Entry) /\ log'[Len(log')] = e
    BY <1>1 DEF TypeOK
  <1> DEFINE sig == Signature(v.role, v.class)
             a == Adjustment(log, sig)
             b == Adjustment(log', sig)
  <1>3. /\ a \in (-10)..10 /\ Verdict(v, Adjustments(log)) = Gate(v, a)
        /\ b \in (-10)..10 /\ Verdict(v, Adjustments(log')) = Gate(v, b)
    BY <1>2, VerdictAdjustment
  <1>4. /\ e.sig # sig => b = a
        /\ e.outcome = "approved" => a <= b
        /\ e.outcome # "approved" => b <= a
    BY <1>1, <1>2, AdjustmentStep
  <1>5. /\ a <= b => Rank[Gate(v, a)] <= Rank[Gate(v, b)]
        /\ b <= a => Rank[Gate(v, b)] <= Rank[Gate(v, a)]
    BY <1>3, GateMonotone
  <1>6. Rank[Gate(v, a)] \in Nat /\ Rank[Gate(v, b)] \in Nat
    BY DEF Gate, Rank
  <1> HIDE DEF a, b, sig
  <1>7. QED
    BY <1>2, <1>3, <1>4, <1>5, <1>6 DEF sig

\* A human decision moves only verdicts of its own signature, and only in its
\* own direction: an approval never makes anything harder to approve, a
\* declined or rolled-back override never makes anything easier.
THEOREM DecisionsAreMonotone == Spec => CalibrationMonotone
  <1>1. TypeOK /\ [Next]_vars =>
          [LET e    == log'[Len(log')]
               adj  == Adjustments(log)
               adj2 == Adjustments(log')
           IN \A v \in Verdicts :
                LET was == Rank[Verdict(v, adj)]
                    is  == Rank[Verdict(v, adj2)]
                IN /\ e.sig # Signature(v.role, v.class) => is = was
                   /\ e.outcome = "approved" => is >= was
                   /\ e.outcome # "approved" => is <= was]_vars
    BY MonotoneStep
  <1>2. QED
    BY <1>1, FeedbackTypeCorrect, PTL DEF Spec, CalibrationMonotone

-----------------------------------------------------------------------------
(* The chart.                                                              *)

\* A non-empty set of numbers has a least one: induction on the length of
\* the log looks at the shortest counterexample.
LEMMA LeastNumber ==
  ASSUME NEW S \in SUBSET Nat, S # {}
  PROVE  \E x \in S : \A y \in S : x <= y
  <1> DEFINE R == {p \in Nat \X Nat : p[1] < p[2]}
  <1>1. IsWellFoundedOn(R, Nat)
    BY NatLessThanWellFounded DEF OpToRel
  <1>2. PICK x \in S : \A y \in S : ~ (<<y, x>> \in R)
    BY <1>1, WFMin
  <1>3. ASSUME NEW y \in S
        PROVE  x <= y
    <2>1. <<y, x>> \in Nat \X Nat /\ <<y, x>> \notin R
      BY <1>2
    <2>2. ~ (y < x)
      BY <2>1
    <2>3. QED
      BY <2>2
  <1>4. QED
    BY <1>3

\* What the loop has gathered before the first entry, and after one more.
NoPoints == [counts |-> NoCounts, points |-> <<>>]

WalkNext(acc, entry, sig) == IF entry.sig = sig THEN TrendPoint(acc, entry) ELSE acc

\* f holds what the loop has gathered after each of the first n entries.
Walks(f, entries, sig, n) ==
  /\ f = [i \in 0..n |-> f[i]]
  /\ f[0] = NoPoints
  /\ \A i \in 1..n : f[i] = WalkNext(f[i - 1], entries[i], sig)

LEMMA WalkExists ==
  ASSUME NEW entries, NEW sig, NEW N \in Nat
  PROVE  \E f : Walks(f, entries, sig, N)
  <1> DEFINE S == {n \in Nat : ~ \E f : Walks(f, entries, sig, n)}
  <1>1. SUFFICES ASSUME S # {} PROVE FALSE
    OBVIOUS
  <1>2. PICK n \in S : \A k \in S : n <= k
    BY <1>1, LeastNumber
  <1>3. n # 0
    <2> DEFINE f == [i \in 0..0 |-> NoPoints]
    <2>1. f = [i \in 0..0 |-> f[i]] /\ f[0] = NoPoints
      OBVIOUS
    <2> HIDE DEF f
    <2>2. Walks(f, entries, sig, 0)
      BY <2>1 DEF Walks
    <2>3. QED
      BY <2>2
  <1>4. n - 1 \in Nat /\ n - 1 \notin S
    BY <1>2, <1>3
  <1>5. PICK f : Walks(f, entries, sig, n - 1)
    BY <1>4
  <1> DEFINE g == [i \in 0..n |-> IF i = n THEN WalkNext(f[n - 1], entries[n], sig) ELSE f[i]]
  <1>6. /\ g = [i \in 0..n |-> g[i]]
        /\ \A i \in 0..(n - 1) : g[i] = f[i]
        /\ g[n] = WalkNext(f[n - 1], entries[n], sig)
    BY <1>4
  <1> HIDE DEF g
  <1>7. Walks(g, entries, sig, n)
    <2>1. g[0] = NoPoints
      BY <1>4, <1>5, <1>6 DEF Walks
    <2>2. ASSUME NEW i \in 1..n
          PROVE  g[i] = WalkNext(g[i - 1], entries[i], sig)
      <3>1. CASE i = n
        BY <1>4, <1>6, <3>1
      <3>2. CASE i # n
        <4>1. i \in 1..(n - 1) /\ i \in 0..(n - 1) /\ i - 1 \in 0..(n - 1)
          BY <1>4, <3>2
        <4>2. f[i] = WalkNext(f[i - 1], entries[i], sig)
          BY <1>5, <4>1 DEF Walks
        <4>3. QED
          BY <1>6, <4>1, <4>2
      <3>3. QED
        BY <3>1, <3>2
    <2>3. QED
      BY <1>6, <2>1, <2>2 DEF Walks
  <1>8. QED
    BY <1>7

\* The recursive definition of Walk is the loop.
LEMMA WalkIsTheLoop ==
  ASSUME NEW entries \in Seq(Entry), NEW sig
  PROVE  Walks(Walk(entries, sig), entries, sig, Len(entries))
  <1> DEFINE N == Len(entries)
             Body(f) == [n \in 0..N |->
                           IF n = 0 THEN NoPoints
                           ELSE IF entries[n].sig = sig THEN TrendPoint(f[n - 1], entries[n])
                           ELSE f[n - 1]]
  <1>1. N \in Nat
    OBVIOUS
  <1>2. Walk(entries, sig) = CHOOSE f : f = Body(f)
    BY DEF Walk, NoPoints
  <1>3. PICK f : Walks(f, entries, sig, N)
    BY <1>1, WalkExists
  <1>4. f = Body(f)
    <2>1. \A n \in 0..N : f[n] = Body(f)[n]
      <3>1. f[0] = NoPoints
        BY <1>3 DEF Walks
      <3>2. \A n \in 1..N : f[n] = WalkNext(f[n - 1], entries[n], sig)
        BY <1>3 DEF Walks
      <3>3. QED
        BY <1>1, <3>1, <3>2 DEF WalkNext
    <2>2. f = [n \in 0..N |-> f[n]]
      BY <1>3 DEF Walks
    <2>3. Body(f) = [n \in 0..N |-> Body(f)[n]]
      OBVIOUS
    <2> HIDE DEF Body
    <2>4. QED
      BY <2>1, <2>2, <2>3
  <1> DEFINE W == Walk(entries, sig)
  <1>5. W = Body(W)
    <2> HIDE DEF Body
    <2>1. QED
      BY <1>2, <1>4
  <1> HIDE DEF W
  <1>6. /\ W = [n \in 0..N |-> W[n]]
        /\ \A n \in 0..N : W[n] = IF n = 0 THEN NoPoints
                                  ELSE IF entries[n].sig = sig THEN TrendPoint(W[n - 1], entries[n])
                                  ELSE W[n - 1]
    BY <1>5
  <1>7. W[0] = NoPoints /\ \A n \in 1..N : W[n] = WalkNext(W[n - 1], entries[n], sig)
    BY <1>1, <1>6 DEF WalkNext
  <1>8. Walks(W, entries, sig, N)
    BY <1>6, <1>7 DEF Walks
  <1>9. QED
    BY <1>8 DEF W

\* The entries of a signature among the first n, all and by outcome.
Among(entries, sig, n) == {i \in 1..n : entries[i].sig = sig}

AmongOf(entries, sig, o, n) == {i \in 1..n : entries[i].sig = sig /\ entries[i].outcome = o}

\* What one more entry does to their numbers.
OneMoreAmong(entries, sig, n) ==
  /\ Cardinality(Among(entries, sig, n - 1)) \in Nat
  /\ Cardinality(Among(entries, sig, n)) =
       Cardinality(Among(entries, sig, n - 1)) + (IF entries[n].sig = sig THEN 1 ELSE 0)
  /\ \A o \in Outcomes :
       /\ Cardinality(AmongOf(entries, sig, o, n - 1)) \in Nat
       /\ Cardinality(AmongOf(entries, sig, o, n)) =
            Cardinality(AmongOf(entries, sig, o, n - 1))
              + (IF entries[n].sig = sig /\ entries[n].outcome = o THEN 1 ELSE 0)

LEMMA AmongGrows ==
  ASSUME NEW entries, NEW sig, NEW n \in Nat, n # 0
  PROVE  OneMoreAmong(entries, sig, n)
  <1>1. n - 1 \in Nat /\ 1..n = (1..(n - 1)) \cup {n} /\ n \notin 1..(n - 1)
    OBVIOUS
  <1>2. ASSUME NEW S, NEW T, NEW hit \in BOOLEAN, S \subseteq 1..(n - 1),
               T = S \cup (IF hit THEN {n} ELSE {})
        PROVE  Cardinality(S) \in Nat /\ Cardinality(T) = Cardinality(S) + (IF hit THEN 1 ELSE 0)
    <2>1. IsFiniteSet(S)
      <3>1. IsFiniteSet(1..(n - 1))
        BY <1>1, FS_Interval
      <3>2. QED
        BY <1>2, <3>1, FS_Subset
    <2>2. Cardinality(S) \in Nat
      BY <2>1, FS_CardinalityType
    <2>3. n \notin S
      BY <1>1, <1>2
    <2>4. CASE hit
      <3>1. Cardinality(S \cup {n}) = Cardinality(S) + 1
        BY <2>1, <2>3, FS_AddElement
      <3>2. QED
        BY <1>2, <2>2, <2>4, <3>1
    <2>5. CASE ~ hit
      <3>1. T = S
        BY <1>2, <2>5
      <3>2. QED
        BY <2>2, <2>5, <3>1
    <2>6. QED
      BY <2>4, <2>5
  <1>3. /\ Among(entries, sig, n - 1) \subseteq 1..(n - 1)
        /\ Among(entries, sig, n) =
             Among(entries, sig, n - 1) \cup (IF entries[n].sig = sig THEN {n} ELSE {})
    BY <1>1 DEF Among
  <1>4. ASSUME NEW o \in Outcomes
        PROVE  /\ AmongOf(entries, sig, o, n - 1) \subseteq 1..(n - 1)
               /\ AmongOf(entries, sig, o, n) = AmongOf(entries, sig, o, n - 1)
                    \cup (IF entries[n].sig = sig /\ entries[n].outcome = o THEN {n} ELSE {})
    BY <1>1 DEF AmongOf
  <1>5. /\ Cardinality(Among(entries, sig, n - 1)) \in Nat
        /\ Cardinality(Among(entries, sig, n)) =
             Cardinality(Among(entries, sig, n - 1)) + (IF entries[n].sig = sig THEN 1 ELSE 0)
    BY <1>2, <1>3
  <1>6. ASSUME NEW o \in Outcomes
        PROVE  /\ Cardinality(AmongOf(entries, sig, o, n - 1)) \in Nat
               /\ Cardinality(AmongOf(entries, sig, o, n)) =
                    Cardinality(AmongOf(entries, sig, o, n - 1))
                      + (IF entries[n].sig = sig /\ entries[n].outcome = o THEN 1 ELSE 0)
    BY <1>2, <1>4
  <1>7. QED
    BY <1>5, <1>6 DEF OneMoreAmong

\* After n entries the loop has counted them, has one point for each entry
\* of the signature, and its last point is the adjustment of its counts.
Charted(acc, entries, sig, n) ==
  /\ acc.counts = [o \in Outcomes |-> Cardinality(AmongOf(entries, sig, o, n))]
  /\ acc.counts \in [Outcomes -> Nat]
  /\ acc.points \in Seq(Int)
  /\ Len(acc.points) = Cardinality(Among(entries, sig, n))
  /\ acc.points # <<>> => acc.points[Len(acc.points)] = AdjustmentFromCounts(acc.counts)

LEMMA NothingCharted ==
  ASSUME NEW entries, NEW sig
  PROVE  Charted(NoPoints, entries, sig, 0)
  <1>1. /\ Among(entries, sig, 0) = {}
        /\ \A o \in Outcomes : AmongOf(entries, sig, o, 0) = {}
    BY DEF Among, AmongOf
  <1>2. /\ Cardinality(Among(entries, sig, 0)) = 0
        /\ \A o \in Outcomes : Cardinality(AmongOf(entries, sig, o, 0)) = 0
    BY <1>1, FS_EmptySet
  <1>3. NoPoints.counts = [o \in Outcomes |-> 0] /\ NoPoints.points = <<>>
    BY DEF NoPoints, NoCounts
  <1>4. <<>> \in Seq(Int) /\ Len(<<>>) = 0
    OBVIOUS
  <1>5. QED
    BY <1>2, <1>3, <1>4 DEF Charted

LEMMA OneMoreCharted ==
  ASSUME NEW entries, NEW sig, NEW n \in Nat, n # 0, entries[n] \in Entry,
         NEW acc, Charted(acc, entries, sig, n - 1)
  PROVE  Charted(WalkNext(acc, entries[n], sig), entries, sig, n)
  <1> DEFINE e == entries[n]
             next == WalkNext(acc, e, sig)
  <1>0. OneMoreAmong(entries, sig, n)
    BY AmongGrows
  <1>1. e.outcome \in Outcomes
    BY DEF Entry
  <1>2. CASE e.sig # sig
    <2>1. next = acc
      BY <1>2 DEF WalkNext
    <2>2. /\ Cardinality(Among(entries, sig, n)) = Cardinality(Among(entries, sig, n - 1))
          /\ \A o \in Outcomes : Cardinality(AmongOf(entries, sig, o, n))
                                   = Cardinality(AmongOf(entries, sig, o, n - 1))
      BY <1>0, <1>2 DEF OneMoreAmong
    <2>3. QED
      BY <2>1, <2>2 DEF Charted
  <1>3. CASE e.sig = sig
    <2> DEFINE counts == [acc.counts EXCEPT ![e.outcome] = @ + 1]
               point == AdjustmentFromCounts(counts)
    <2>1. next.counts = counts /\ next.points = Append(acc.points, point)
      BY <1>3 DEF WalkNext, TrendPoint
    <2>2. counts \in [Outcomes -> Nat]
      BY <1>1 DEF Charted
    <2>3. counts = [o \in Outcomes |-> Cardinality(AmongOf(entries, sig, o, n))]
      <3>1. \A o \in Outcomes : counts[o] = Cardinality(AmongOf(entries, sig, o, n))
        <4>1. SUFFICES ASSUME NEW o \in Outcomes
                       PROVE  counts[o] = Cardinality(AmongOf(entries, sig, o, n))
          OBVIOUS
        <4>2. acc.counts[o] = Cardinality(AmongOf(entries, sig, o, n - 1)) /\ acc.counts[o] \in Nat
          BY DEF Charted
        <4>3. Cardinality(AmongOf(entries, sig, o, n)) =
                acc.counts[o] + (IF e.outcome = o THEN 1 ELSE 0)
          BY <1>0, <1>3, <4>2 DEF OneMoreAmong
        <4>4. counts[o] = IF e.outcome = o THEN acc.counts[o] + 1 ELSE acc.counts[o]
          BY <4>2 DEF Charted
        <4>5. QED
          BY <4>2, <4>3, <4>4
      <3> HIDE DEF counts
      <3>2. QED
        BY <2>2, <3>1
    <2>4. point \in Int
      <3> HIDE DEF counts
      <3>1. point \in (-10)..10
        BY <2>2, AdjustmentFromCountsBounded
      <3>2. QED
        BY <3>1
    <2> HIDE DEF counts, point
    <2>5. /\ acc.points \in Seq(Int)
          /\ Append(acc.points, point) \in Seq(Int)
          /\ Len(Append(acc.points, point)) = Len(acc.points) + 1
          /\ Append(acc.points, point)[Len(acc.points) + 1] = point
      BY <2>4, AppendProperties DEF Charted
    <2>6. Cardinality(Among(entries, sig, n)) = Len(acc.points) + 1
      BY <1>0, <1>3 DEF Charted, OneMoreAmong
    <2>7. point = AdjustmentFromCounts(next.counts)
      BY <2>1 DEF point
    <2> HIDE DEF next
    <2>8. QED
      BY <2>1, <2>2, <2>3, <2>5, <2>6, <2>7 DEF Charted, next
  <1>4. QED
    BY <1>2, <1>3

LEMMA AllCharted ==
  ASSUME NEW entries \in Seq(Entry), NEW sig
  PROVE  Charted(Walk(entries, sig)[Len(entries)], entries, sig, Len(entries))
  <1> DEFINE W == Walk(entries, sig)
             N == Len(entries)
             S == {n \in 0..N : ~ Charted(W[n], entries, sig, n)}
  <1>1. N \in Nat /\ \A n \in 1..N : entries[n] \in Entry
    OBVIOUS
  <1>2. W[0] = NoPoints /\ \A n \in 1..N : W[n] = WalkNext(W[n - 1], entries[n], sig)
    BY WalkIsTheLoop DEF Walks
  <1> HIDE DEF W, N
  <1>3. SUFFICES ASSUME S # {} PROVE FALSE
    BY <1>1 DEF W, N
  <1>4. PICK n \in S : \A k \in S : n <= k
    <2>1. S \in SUBSET Nat
      BY <1>1
    <2> HIDE DEF S
    <2>2. QED
      BY <1>3, <2>1, LeastNumber
  <1>5. n # 0
    BY <1>2, NothingCharted
  <1>6. n \in 1..N /\ n \in Nat /\ n - 1 \in 0..N /\ n - 1 \notin S
    BY <1>1, <1>4, <1>5
  <1>7. Charted(W[n - 1], entries, sig, n - 1)
    BY <1>6
  <1>8. Charted(W[n], entries, sig, n)
    BY <1>1, <1>2, <1>5, <1>6, <1>7, OneMoreCharted
  <1>9. QED
    BY <1>4, <1>8

LEMMA ChartEndsAtSummary == TypeOK => TrendEndsAtSummary
  <1> SUFFICES ASSUME TypeOK, NEW i \in DOMAIN log
               PROVE  LET sig == log[i].sig
                          t   == Trend(log, sig)
                      IN /\ Len(t) = Cardinality({j \in DOMAIN log : log[j].sig = sig})
                         /\ t[Len(t)] = Adjustment(log, sig)
    BY DEF TrendEndsAtSummary
  <1> DEFINE sig == log[i].sig
             t   == Trend(log, sig)
             N   == Len(log)
             acc == Walk(log, sig)[N]
  <1>1. log \in Seq(Entry) /\ DOMAIN log = 1..N /\ N \in Nat
    BY DEF TypeOK
  <1>2. Charted(acc, log, sig, N) /\ t = acc.points
    BY <1>1, AllCharted DEF Trend
  <1>3. Among(log, sig, N) = {j \in DOMAIN log : log[j].sig = sig}
    BY <1>1 DEF Among
  <1>4. Adjustment(log, sig) = AdjustmentFromCounts(acc.counts)
    <2>1. \A o \in Outcomes : Occurrences(log, sig, o) = AmongOf(log, sig, o, N)
      BY <1>1 DEF Occurrences, AmongOf
    <2>2. Counts(log, sig) = [o \in Outcomes |-> Cardinality(AmongOf(log, sig, o, N))]
      BY <2>1 DEF Counts
    <2>3. Counts(log, sig) = acc.counts
      BY <1>2, <2>2 DEF Charted
    <2>4. QED
      BY <2>3 DEF Adjustment
  <1>5. acc.points # <<>>
    <2>1. i \in Among(log, sig, N)
      BY <1>3
    <2>2. IsFiniteSet(Among(log, sig, N))
      <3>1. IsFiniteSet(1..N)
        BY <1>1, FS_Interval
      <3>2. Among(log, sig, N) \subseteq 1..N
        BY DEF Among
      <3>3. QED
        BY <3>1, <3>2, FS_Subset
    <2>3. Cardinality(Among(log, sig, N)) # 0
      BY <2>1, <2>2, FS_EmptySet
    <2>4. Len(acc.points) # 0
      BY <1>2, <2>3 DEF Charted
    <2>5. QED
      BY <2>4
  <1>6. QED
    BY <1>2, <1>3, <1>4, <1>5 DEF Charted

\* The chart and the table of the calibration page are computed separately,
\* one entry at a time and all at once: whatever the log, the chart of a
\* signature has one point per entry and ends where the table stands.
THEOREM TrendsEndAtSummary == Spec => []TrendEndsAtSummary
  BY FeedbackTypeCorrect, ChartEndsAtSummary, PTL
=============================================================================
