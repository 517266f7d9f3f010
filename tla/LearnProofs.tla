----------------------------- MODULE LearnProofs -----------------------------
(***************************************************************************)
(* Proofs about Learn for any candidates, backends, answers, thresholds,   *)
(* calibrations, and any number of analyses and of changes under them.     *)
(***************************************************************************)
EXTENDS Learn, TLAPS

USE CandidatesAssumption, SettingsAssumption

-----------------------------------------------------------------------------
(* The inductive invariant.                                                *)

Fns(set) == {c.fn : c \in set}

Judged == {v.fn : v \in verdicts}

\* Every function of the batch is in exactly one place.
Partition ==
  /\ Judged \cup Fns(todo) \cup Fns(cand) = Names \ already
  /\ Judged \cap Fns(todo) = {}
  /\ Fns(cand) \cap (Judged \cup Fns(todo)) = {}

\* A failed classification is a rejection, or about to become one.
FailedRejected ==
  \A f \in failed :
    \/ \E v \in verdicts : v.fn = f /\ v.verdict = "REJECTED"
    \/ pc = "verify" /\ f \in Fns(cand) /\ answer = NoClassification

BatchInv ==
  /\ pc \in {"idle", "ingest"} => verdicts = {} /\ failed = {} /\ cand = {}
  /\ pc = "next" => Judged \cup Fns(todo) = Names \ already /\ Judged \cap Fns(todo) = {}
  /\ pc \in {"classify", "verify"} => Partition /\ \E c \in Candidates : cand = {c}
  /\ pc \in {"review", "summarize"} => Judged = Names \ already
  /\ pc # "raised" => FailedRejected

\* Offline, what verify is given and what it made of it stay below the cap.
OfflineInv ==
  Backend(llm) = "mock" =>
    /\ pc = "verify" => \E c \in Candidates : answer = MockAnswer(c)
    /\ \A v \in verdicts : v.role = "sanitizer" => v.eff <= 0 \/ v.eff <= 94 + v.adj

IInv == TypeOK /\ BatchInv /\ OneGatePerRun /\ OfflineInv

-----------------------------------------------------------------------------
(* The operators of the gate.                                              *)

LEMMA TheElement ==
  ASSUME NEW x
  PROVE  The({x}) = x
  BY DEF The

LEMMA InForceType ==
  ASSUME settings \in SUBSET Thresholds
  PROVE  InForce \in Thresholds \cup {Default}
  BY DEF InForce, The

LEMMA GateTypes ==
  ASSUME NEW g \in Thresholds \cup {Default}
  PROVE  g.conf \in 0..100 /\ g.triage \in Nat
  BY DEF Default, Gate

LEMMA EffectiveType ==
  ASSUME NEW x \in Int, NEW a \in Int
  PROVE  /\ Effective(x, a) \in 0..100
         /\ \A b \in Int : x <= b => Effective(x, a) <= 0 \/ Effective(x, a) <= b + a
  BY DEF Effective, Cap

\* round(min(0.86 + 0.002 * n, 0.94), 2)
LEMMA MockCapped ==
  ASSUME NEW n \in Nat
  PROVE  MockConfidence(n) \in Int /\ MockConfidence(n) <= 94
  BY DEF MockConfidence

Answers == [role : Roles \cup {"none"}, conf : SUBSET Int, reasons : BOOLEAN]

\* The offline classifier never claims more than 0.94 for a sanitizer.
LEMMA MockAnswers ==
  ASSUME NEW c \in Candidates
  PROVE  /\ MockAnswer(c) \in Answers /\ MockAnswer(c).conf # {}
         /\ MockAnswer(c).role = "sanitizer" => \A x \in MockAnswer(c).conf : x <= 94
  <1>1. c.dismissals \in Nat
    BY DEF Candidate
  <1> DEFINE n == IF "allowlist" \in c.shapes /\ c.hypothesis # "sanitizer"
                  THEN 86 ELSE MockConfidence(c.dismissals)
  <1>2. n \in Int /\ n <= 94
    BY <1>1, MockCapped
  <1> HIDE DEF n
  <1>3. \/ MockAnswer(c) = Said("sanitizer", n, TRUE)
        \/ MockAnswer(c) = Said("source", 97, TRUE)
        \/ MockAnswer(c) = Said("sink", 95, TRUE)
        \/ MockAnswer(c) = Said("none", 40, FALSE)
    BY DEF MockAnswer, n
  <1>4. "sanitizer" \in Roles /\ "source" \in Roles /\ "sink" \in Roles
    BY DEF Roles
  <1>5. CASE MockAnswer(c) = Said("sanitizer", n, TRUE)
    BY <1>2, <1>4, <1>5 DEF Said, Answers
  <1>6. CASE MockAnswer(c) = Said("source", 97, TRUE)
    BY <1>4, <1>6 DEF Said, Answers
  <1>7. CASE MockAnswer(c) = Said("sink", 95, TRUE)
    BY <1>4, <1>7 DEF Said, Answers
  <1>8. CASE MockAnswer(c) = Said("none", 40, FALSE)
    BY <1>8 DEF Said, Answers
  <1>9. QED
    BY <1>3, <1>5, <1>6, <1>7, <1>8

LEMMA AnswerType ==
  ASSUME TypeOK
  PROVE  answer \in Answers
  <1>1. NoClassification \in Answers
    BY DEF NoClassification, Said, Answers
  <1>2. \A a \in Objects : a \in Answers
    BY DEF Objects, Answers
  <1>3. QED
    BY <1>1, <1>2, MockAnswers DEF TypeOK

\* verify: what an approval has behind it; and no role, no approval.
LEMMA JudgeFacts ==
  ASSUME NEW c, NEW a \in Answers, NEW adj, NEW gate
  PROVE  /\ Judge(c, a, adj, gate) \in {"APPROVED", "NEEDS_REVIEW", "REJECTED"}
         /\ Judge(c, a, adj, gate) = "APPROVED" =>
              /\ Effective(The(a.conf), adj) >= gate.conf
              /\ a.role = "sanitizer" => c.dismissals >= gate.triage
         /\ a.role = "none" => Judge(c, a, adj, gate) = "REJECTED"
  BY DEF Judge, Roles, Answers

LEMMA AdjustmentType ==
  ASSUME TypeOK, NEW role
  PROVE  AdjustmentOf(role) \in -10..10
  BY DEF AdjustmentOf, TypeOK

-----------------------------------------------------------------------------
(* Steps.                                                                  *)

LEMMA InvInit == Init => IInv
  <1> SUFFICES ASSUME Init
               PROVE  IInv
    OBVIOUS
  <1>1. TypeOK
    BY DEF Init, TypeOK
  <1>2. BatchInv
    BY DEF Init, BatchInv, FailedRejected
  <1>3. QED
    BY <1>1, <1>2 DEF Init, IInv, OneGatePerRun, OfflineInv

\* A request that starts, or that is over.
LEMMA Resets ==
  ASSUME IInv, pc' \in {"idle", "ingest"}, NoBatch, UNCHANGED <<llm, shared, semantics, changes>>,
         cfg' \in Thresholds \cup {Default}, runs' \in Nat,
         summaries' \in SUBSET [run : Nat, kind : {"text", "unavailable"}]
  PROVE  IInv'
  <1>1. TypeOK'
    BY DEF NoBatch, IInv, TypeOK, shared
  <1>2. BatchInv'
    BY DEF NoBatch, BatchInv, FailedRejected
  <1>3. QED
    BY <1>1, <1>2 DEF NoBatch, IInv, OneGatePerRun, OfflineInv

LEMMA StartsOrEnds ==
  ASSUME IInv, Begin \/ Leave \/ Kill \/ Summarized
  PROVE  IInv'
  <1>1. CASE Begin
    <2>1. InForce \in Thresholds \cup {Default} /\ runs + 1 \in Nat
      BY InForceType DEF IInv, TypeOK
    <2>2. QED
      BY <1>1, <2>1, Resets DEF Begin, IInv, TypeOK, files
  <1>2. CASE Leave \/ Kill
    BY <1>2, Resets DEF Leave, Kill, IInv, TypeOK, files
  <1>3. CASE Summarized
    <2>1. summaries' \in SUBSET [run : Nat, kind : {"text", "unavailable"}]
      BY <1>3 DEF Summarized, IInv, TypeOK
    <2>2. QED
      BY <1>3, <2>1, Resets DEF Summarized, IInv, TypeOK
  <1>4. QED
    BY <1>1, <1>2, <1>3

\* An exception leaves everything as it was.
LEMMA RaisesOut ==
  ASSUME IInv, ClassificationRaises \/ VerifyRaises \/ SummaryRaises
  PROVE  IInv'
  <1>1. pc' = "raised" /\ UNCHANGED <<llm, shared, batch, files, runs, changes>>
    BY DEF ClassificationRaises, VerifyRaises, SummaryRaises
  <1>2. QED
    BY <1>1 DEF IInv, TypeOK, BatchInv, OneGatePerRun, OfflineInv, shared, batch, files

\* Other requests change what the batch has read, or will read.
LEMMA ChangesElsewhere ==
  ASSUME IInv, SaveSettings \/ LedgerChanges \/ Recalibrated
  PROVE  IInv'
  <1>1. UNCHANGED <<llm, pc, batch, files, runs>> /\ changes' = changes + 1
    BY DEF SaveSettings, LedgerChanges, Recalibrated, Change
  <1>2. /\ settings' \in SUBSET Thresholds /\ ledger' \in SUBSET Names
        /\ adjustment' \in [Roles -> -10..10]
    <2>1. \A c \in Candidates : c.fn \in Names
      BY DEF Names
    <2>2. QED
      BY <2>1 DEF SaveSettings, LedgerChanges, Recalibrated, IInv, TypeOK
  <1>3. TypeOK'
    BY <1>1, <1>2 DEF IInv, TypeOK, batch, files
  <1>4. BatchInv' /\ OneGatePerRun' /\ OfflineInv'
    BY <1>1 DEF IInv, BatchInv, OneGatePerRun, OfflineInv, Partition, FailedRejected, Judged, batch
  <1>5. QED
    BY <1>3, <1>4 DEF IInv

-----------------------------------------------------------------------------
(* The batch.                                                              *)

LEMMA Ingested ==
  ASSUME IInv, Ingest
  PROVE  IInv'
  <1>1. /\ pc = "ingest" /\ already' = ledger /\ pc' = "next"
        /\ todo' = {c \in Candidates : c.fn \notin already'}
        /\ UNCHANGED <<llm, shared, cfg, cand, answer, verdicts, failed, files, runs, changes>>
    BY DEF Ingest
  <1>2. verdicts = {} /\ failed = {} /\ cand = {}
    BY <1>1 DEF IInv, BatchInv
  <1>3. TypeOK'
    BY <1>1, <1>2 DEF IInv, TypeOK, shared, files
  <1>4. Fns(todo)' = Names \ already'
    BY <1>1 DEF Fns, Names
  <1>5. BatchInv'
    BY <1>1, <1>2, <1>4 DEF BatchInv, FailedRejected, Judged
  <1>6. QED
    BY <1>1, <1>2, <1>3, <1>5 DEF IInv, OneGatePerRun, OfflineInv

LEMMA Asked ==
  ASSUME IInv, Ask
  PROVE  IInv'
  <1>1. PICK c \in todo : cand' = {c} /\ todo' = todo \ {c}
    BY DEF Ask
  <1>2. /\ pc = "next" /\ pc' = "classify"
        /\ UNCHANGED <<llm, shared, cfg, already, answer, verdicts, failed, files, runs, changes>>
    BY DEF Ask
  <1>3. c \in Candidates /\ todo \subseteq Candidates
    BY DEF IInv, TypeOK
  <1>4. TypeOK'
    BY <1>1, <1>2, <1>3 DEF IInv, TypeOK, shared, files
  <1>5. /\ Fns(cand)' = {c.fn} /\ Fns(todo)' = Fns(todo) \ {c.fn} /\ c.fn \in Fns(todo)
        /\ Judged' = Judged
    BY <1>1, <1>2, <1>3 DEF Fns, Judged
  <1>6. Judged \cup Fns(todo) = Names \ already /\ Judged \cap Fns(todo) = {}
    BY <1>2 DEF IInv, BatchInv
  <1>7. Partition'
    BY <1>2, <1>5, <1>6 DEF Partition
  <1>8. FailedRejected'
    BY <1>2 DEF IInv, BatchInv, FailedRejected
  <1>9. BatchInv'
    BY <1>1, <1>2, <1>3, <1>7, <1>8 DEF BatchInv
  <1>10. QED
    BY <1>2, <1>4, <1>9 DEF IInv, OneGatePerRun, OfflineInv

LEMMA Answered ==
  ASSUME IInv, Classified \/ ClassificationFails
  PROVE  IInv'
  <1>1. /\ pc = "classify" /\ pc' = "verify"
        /\ UNCHANGED <<llm, shared, cfg, already, todo, cand, verdicts, files, runs, changes>>
    BY DEF Classified, ClassificationFails
  <1>2. PICK c \in Candidates : cand = {c}
    BY <1>1 DEF IInv, BatchInv
  <1>3. The(cand) = c
    BY <1>2, TheElement
  <1>4. /\ answer' \in Objects \cup {NoClassification} \cup {MockAnswer(d) : d \in Candidates}
        /\ Backend(llm) = "mock" => answer' = MockAnswer(c)
    BY <1>3 DEF Classified, ClassificationFails, Fallback
  <1>5. failed' = failed \/ (failed' = failed \cup {c.fn} /\ answer' = NoClassification)
    BY <1>3 DEF Classified, ClassificationFails, Fallback
  <1>6. TypeOK'
    <2>1. c.fn \in Names
      BY DEF Names
    <2>2. QED
      BY <1>1, <1>2, <1>4, <1>5, <2>1 DEF IInv, TypeOK, shared, files
  <1>7. BatchInv'
    <2>1. Partition'
      BY <1>1 DEF IInv, BatchInv, Partition, Judged, Fns
    <2>2. c.fn \in Fns(cand)'
      BY <1>1, <1>2 DEF Fns
    <2>3. \A f \in failed : \E v \in verdicts : v.fn = f /\ v.verdict = "REJECTED"
      BY <1>1 DEF IInv, BatchInv, FailedRejected
    <2>4. FailedRejected'
      BY <1>1, <1>5, <2>2, <2>3 DEF FailedRejected
    <2>5. QED
      BY <1>1, <1>2, <2>1, <2>4 DEF BatchInv
  <1>8. OfflineInv'
    BY <1>1, <1>4 DEF IInv, OfflineInv
  <1>9. QED
    BY <1>1, <1>6, <1>7, <1>8 DEF IInv, OneGatePerRun

LEMMA Verified ==
  ASSUME IInv, Verify
  PROVE  IInv'
  <1>1. /\ pc = "verify" /\ pc' = "next" /\ answer.conf # {}
        /\ UNCHANGED <<llm, shared, cfg, already, todo, cand, answer, failed, files, runs, changes>>
    BY DEF Verify
  <1>2. PICK c \in Candidates : cand = {c}
    BY <1>1 DEF IInv, BatchInv
  <1> DEFINE adj == AdjustmentOf(answer.role)
             eff == Effective(The(answer.conf), adj)
             ruling == Judge(c, answer, adj, cfg)
             new == [fn |-> c.fn, role |-> answer.role, triage |-> c.dismissals, adj |-> adj,
                     eff |-> eff, verdict |-> ruling]
  <1>3. verdicts' = verdicts \cup {new}
    BY <1>2, TheElement DEF Verify, GateOfRun
  <1>4. answer \in Answers /\ The(answer.conf) \in answer.conf /\ The(answer.conf) \in Int
    <2>1. answer \in Answers
      BY AnswerType DEF IInv
    <2>2. The(answer.conf) \in answer.conf
      BY <1>1 DEF The
    <2>3. QED
      BY <2>1, <2>2 DEF Answers
  <1>5. adj \in -10..10 /\ eff \in 0..100
    BY <1>4, AdjustmentType, EffectiveType DEF IInv
  <1>6. /\ ruling \in {"APPROVED", "NEEDS_REVIEW", "REJECTED"}
        /\ ruling = "APPROVED" =>
             /\ eff >= cfg.conf
             /\ answer.role = "sanitizer" => c.dismissals >= cfg.triage
        /\ answer.role = "none" => ruling = "REJECTED"
    BY <1>4, JudgeFacts
  <1>7. Backend(llm) = "mock" /\ answer.role = "sanitizer" => eff <= 0 \/ eff <= 94 + adj
    <2>1. SUFFICES ASSUME Backend(llm) = "mock", answer.role = "sanitizer"
                   PROVE  eff <= 0 \/ eff <= 94 + adj
      OBVIOUS
    <2>2. The(answer.conf) <= 94
      BY <1>1, <1>4, <2>1, MockAnswers DEF IInv, OfflineInv
    <2>3. adj \in Int
      BY <1>5
    <2>4. QED
      BY <1>4, <2>2, <2>3, EffectiveType
  <1>8. c.fn \in Names /\ c.dismissals \in Nat /\ answer.role \in Roles \cup {"none"}
    BY <1>4 DEF Names, Candidate, Answers
  <1> HIDE DEF adj, eff, ruling
  <1>9. new \in Judgement
    BY <1>5, <1>6, <1>8 DEF Judgement
  <1>10. Partition /\ Fns(cand) = {c.fn}
    BY <1>1, <1>2 DEF IInv, BatchInv, Fns
  <1>11. \A v \in verdicts : v.fn # c.fn
    BY <1>10 DEF Partition, Judged
  <1>12. TypeOK'
    <2>1. verdicts' \in SUBSET Judgement
      BY <1>3, <1>9 DEF IInv, TypeOK
    <2>2. \A v, w \in verdicts' : v.fn = w.fn => v = w
      BY <1>3, <1>11 DEF IInv, TypeOK
    <2>3. QED
      BY <1>1, <2>1, <2>2 DEF IInv, TypeOK, shared, files
  <1>13. BatchInv'
    <2>1. Judged' = Judged \cup {c.fn} /\ Fns(todo)' = Fns(todo)
      <3>1. new.fn = c.fn
        OBVIOUS
      <3> HIDE DEF new
      <3>2. QED
        BY <1>1, <1>3, <3>1 DEF Judged, Fns
    <2>2. Judged' \cup Fns(todo)' = Names \ already' /\ Judged' \cap Fns(todo)' = {}
      BY <1>1, <1>10, <2>1 DEF Partition
    <2>3. NoClassification.role = "none"
      BY DEF NoClassification, Said
    <2>4. \A f \in failed : \/ \E v \in verdicts : v.fn = f /\ v.verdict = "REJECTED"
                            \/ f = c.fn /\ ruling = "REJECTED"
      BY <1>1, <1>6, <1>10, <2>3 DEF IInv, BatchInv, FailedRejected
    <2>5. FailedRejected'
      <3>1. new.fn = c.fn /\ new.verdict = ruling
        OBVIOUS
      <3> HIDE DEF new
      <3>2. QED
        BY <1>1, <1>3, <2>4, <3>1 DEF FailedRejected
    <2>6. QED
      BY <1>1, <2>2, <2>5 DEF BatchInv
  <1>14. OneGatePerRun'
    BY <1>1, <1>3, <1>6 DEF IInv, OneGatePerRun
  <1>15. OfflineInv'
    BY <1>1, <1>3, <1>7 DEF IInv, OfflineInv
  <1>16. QED
    BY <1>12, <1>13, <1>14, <1>15 DEF IInv

LEMMA Written ==
  ASSUME IInv, Write
  PROVE  IInv'
  <1>1. /\ pc = "next" /\ todo = {} /\ pc' = "review"
        /\ UNCHANGED <<llm, shared, batch, summaries, runs, changes>>
        /\ semantics' = {[learned |-> With("APPROVED"), needs_review |-> With("NEEDS_REVIEW"),
                          rejected |-> With("REJECTED")]}
    BY DEF Write
  <1>2. \A verdict : With(verdict) \in SUBSET Names
    BY DEF With, IInv, TypeOK, Judgement
  <1>3. \A a, b : a # b => With(a) \cap With(b) = {}
    BY DEF With, IInv, TypeOK
  <1>4. semantics' \in SUBSET Lists
    <2>1. /\ With("APPROVED") \cap With("NEEDS_REVIEW") = {}
          /\ With("APPROVED") \cap With("REJECTED") = {}
          /\ With("NEEDS_REVIEW") \cap With("REJECTED") = {}
      BY <1>3
    <2>2. QED
      BY <1>1, <1>2, <2>1 DEF Lists
  <1>5. TypeOK'
    BY <1>1, <1>4 DEF IInv, TypeOK, shared, batch
  <1>6. BatchInv'
    BY <1>1 DEF IInv, BatchInv, FailedRejected, Judged, Fns, batch
  <1>7. QED
    BY <1>1, <1>5, <1>6 DEF IInv, OneGatePerRun, OfflineInv, batch

LEMMA Confirmed ==
  ASSUME IInv, Confirm
  PROVE  IInv'
  <1>1. /\ pc = "review" /\ pc' = "summarize"
        /\ UNCHANGED <<llm, settings, adjustment, batch, files, runs, changes>>
    BY DEF Confirm
  <1>2. ledger' \in SUBSET Names
    <2>1. With("APPROVED") \cup With("NEEDS_REVIEW") \subseteq Names
      BY DEF With, IInv, TypeOK, Judgement
    <2>2. QED
      BY <2>1 DEF Confirm, IInv, TypeOK
  <1>3. TypeOK'
    BY <1>1, <1>2 DEF IInv, TypeOK, batch, files
  <1>4. BatchInv' /\ OneGatePerRun' /\ OfflineInv'
    BY <1>1 DEF IInv, BatchInv, OneGatePerRun, OfflineInv, FailedRejected, Judged, batch
  <1>5. QED
    BY <1>3, <1>4 DEF IInv

LEMMA InvNext == IInv /\ [Next]_vars => IInv'
  <1> SUFFICES ASSUME IInv, [Next]_vars
               PROVE  IInv'
    OBVIOUS
  <1>1. CASE UNCHANGED vars
    BY <1>1 DEF vars, shared, batch, files, IInv, TypeOK, BatchInv, OneGatePerRun, OfflineInv,
                Partition, FailedRejected, Judged
  <1>2. QED
    BY <1>1, StartsOrEnds, RaisesOut, ChangesElsewhere, Ingested, Asked, Answered, Verified,
       Written, Confirmed
    DEF Next, Analysis

LEMMA Invariant == Spec => []IInv
  BY InvInit, InvNext, PTL DEF Spec

-----------------------------------------------------------------------------
\* Verdicts and lists are about candidates, one verdict each.
THEOREM TypeCorrect == Spec => []TypeOK
  <1>1. IInv => TypeOK
    BY DEF IInv
  <1>2. QED
    BY <1>1, Invariant, PTL

\* A batch that gets to its end has judged every function that was not
\* applied when it began, and rejected those the model failed on.
THEOREM BatchesAreComplete == Spec => []EveryCandidateJudged
  <1>1. IInv => EveryCandidateJudged
    BY DEF IInv, BatchInv, FailedRejected, Judged, EveryCandidateJudged, With
  <1>2. QED
    BY <1>1, Invariant, PTL

\* Settings saved under a batch do not split it.
THEOREM OneGateForAll == Spec => []OneGatePerRun
  <1>1. IInv => OneGatePerRun
    BY DEF IInv
  <1>2. QED
    BY <1>1, Invariant, PTL

\* 0.94 - 0.10 < 0.85: the offline classifier's cap and the bound of the
\* calibration leave no way over the default threshold.
THEOREM RollbacksHold == Spec => []HeldAfterRollbacks
  <1>1. IInv => HeldAfterRollbacks
    <2> SUFFICES ASSUME IInv, Backend(llm) = "mock", NEW v \in verdicts,
                        v.role = "sanitizer", v.adj = -10, cfg.conf >= Default.conf
                 PROVE  v.verdict # "APPROVED"
      BY DEF HeldAfterRollbacks
    <2>1. v.eff \in 0..100 /\ v.eff <= 84
      BY DEF IInv, OfflineInv, TypeOK, Judgement
    <2>2. cfg.conf \in 0..100 /\ cfg.conf >= 85
      <3>1. cfg \in Thresholds \cup {Default}
        BY DEF IInv, TypeOK
      <3>2. QED
        BY <3>1, GateTypes DEF Default
    <2>3. QED
      BY <2>1, <2>2 DEF IInv, OneGatePerRun
  <1>2. QED
    BY <1>1, Invariant, PTL
===============================================================================
