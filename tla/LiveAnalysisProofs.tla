-------------------------- MODULE LiveAnalysisProofs --------------------------
(***************************************************************************)
(* Proofs about LiveAnalysis for any functions, scan lists, attempts,      *)
(* polls, and any number of runs and of lost answers.                      *)
(***************************************************************************)
EXTENDS LiveAnalysis, FiniteSetTheorems, WellFoundedInduction, NaturalsInduction, TLAPS

USE AttemptsAssumption

-----------------------------------------------------------------------------
(* Type correctness needs to know where the counters stand.                *)

Before == {"scans", "results", "triage", "review", "item", "apply", "record", "start"}

CounterInv ==
  /\ call.phase = "backoff" => call.attempt < Attempts
  /\ pc \in Before => polls = 0
  /\ pc = "sleep" => polls < Polls

LEMMA CallTypes ==
  /\ Idle \in Calls /\ Idle.phase = "ready"
  /\ \A kind \in {"api", "token"}, n \in 1..Attempts :
       Flight(kind, n) \in Calls /\ Flight(kind, n).phase = "flight"
  /\ 1 \in 1..Attempts
  BY DEF Idle, Flight, Calls

LEMMA CurrentType ==
  ASSUME todo # {}
  PROVE  Current \in todo
  BY DEF Current

LEMMA AskedType ==
  ASSUME queue # {}
  PROVE  Asked \in queue
  BY DEF Asked

LEMMA UploadedType ==
  ASSUME TypeOK
  PROVE  Uploaded \in SUBSET Functions
  BY DEF TypeOK, Uploaded, Copy

\* What a POST leaves on the tenant, and that scans only become more.
LEMMA PostType ==
  ASSUME TypeOK, NEW f, pc = "apply" => f \in Functions, Post(f)
  PROVE  /\ copies' \in SUBSET Copy /\ IsFiniteSet(copies')
         /\ scans' \in Seq(Scan) /\ Len(scans') >= Len(scans)
  <1>1. CASE pc = "apply" /\ copies' = copies \cup {[fn |-> f, no |-> Cardinality(copies) + 1]} /\ UNCHANGED scans
    <2>1. Cardinality(copies) \in Nat
      BY FS_CardinalityType DEF TypeOK
    <2>2. [fn |-> f, no |-> Cardinality(copies) + 1] \in Copy
      BY <1>1, <2>1 DEF Copy
    <2>3. IsFiniteSet(copies')
      BY <1>1, FS_AddElement DEF TypeOK
    <2>4. QED
      BY <1>1, <2>2, <2>3 DEF TypeOK
  <1>2. CASE scans' = Append(scans, [with |-> Uploaded, state |-> "running"]) /\ UNCHANGED copies
    <2>1. [with |-> Uploaded, state |-> "running"] \in Scan
      BY UploadedType DEF Scan
    <2>2. QED
      BY <1>2, <2>1 DEF TypeOK
  <1>3. QED
    BY <1>1, <1>2 DEF Post

\* The newest completed scan, when there is one.
LEMMA LatestIsLast ==
  ASSUME scans \in Seq(Scan), LatestScan # 0
  PROVE  /\ LatestScan \in Completed /\ LatestScan \in 1..Len(scans)
         /\ \A j \in Completed : j <= LatestScan
  <1> DEFINE R == {p \in Nat \X Nat : p[1] < p[2]}
             n == Len(scans)
             S == {n - i : i \in Completed}
  <1>1. Completed # {} /\ Completed \subseteq 1..n /\ n \in Nat
    BY DEF LatestScan, Completed
  <1>2. S # {} /\ S \subseteq Nat
    <2>1. ASSUME NEW i \in Completed
          PROVE  n - i \in Nat
      BY <1>1
    <2>2. PICK i \in Completed : TRUE
      BY <1>1
    <2>3. QED
      BY <2>1, <2>2
  <1>3. IsWellFoundedOn(R, Nat)
    BY NatLessThanWellFounded DEF OpToRel
  <1>4. PICK x \in S : \A y \in S : ~ (<<y, x>> \in R)
    BY <1>2, <1>3, WFMin
  <1>5. PICK last \in Completed : x = n - last
    BY <1>4
  <1>6. ASSUME NEW j \in Completed
        PROVE  j <= last
    <2>1. n - j \in S /\ n - j \in Nat /\ x \in Nat
      BY <1>2, <1>4
    <2>2. ~ (n - j < x)
      BY <1>4, <2>1
    <2>3. j \in Int /\ last \in Int
      BY <1>1
    <2>4. QED
      BY <1>1, <1>5, <2>2, <2>3
  <1>7. QED
    BY <1>1, <1>5, <1>6 DEF LatestScan

LEMMA LatestType ==
  ASSUME scans \in Seq(Scan)
  PROVE  LatestScan \in 0..Len(scans)
  <1>1. CASE LatestScan # 0
    BY <1>1, LatestIsLast
  <1>2. CASE LatestScan = 0
    BY <1>2
  <1>3. QED
    BY <1>1, <1>2

LEMMA TypeInit == Init => TypeOK /\ CounterInv
  <1>1. ASSUME Init
        PROVE  IsFiniteSet(copies)
    BY <1>1, FS_EmptySet DEF Init
  <1>2. ASSUME Init
        PROVE  scans \in Seq(Scan)
    BY <1>2, ScansAssumption DEF Init
  <1>3. QED
    BY <1>1, <1>2, CallTypes DEF Init, TypeOK, CounterInv, Getting, Posting, Local, Ended, Before

LEMMA TypeNext ==
  ASSUME TypeOK, CounterInv, [Next]_vars
  PROVE  TypeOK' /\ CounterInv'
  <1> USE CallTypes
  <1> USE DEF TypeOK, CounterInv, Getting, Posting, Local, Ended, Before, review
  <1>0. LatestScan \in 0..Len(scans) /\ (todo # {} => Current \in todo)
    BY LatestType, CurrentType
  <1>1. CASE UNCHANGED vars
    BY <1>1 DEF vars, tenant, disk, control, history
  <1>2. CASE Invoke
    BY <1>2 DEF Invoke, tenant, disk
  <1>3. CASE Request
    BY <1>3 DEF Request, Busy, tenant, disk, control, history
  <1>4. CASE Age
    BY <1>4 DEF Age, Busy, Calls, Idle, tenant, disk, control, history
  <1>5. CASE NewToken
    BY <1>5 DEF NewToken, InFlight, Busy, tenant, disk, control, history
  <1>6. CASE Refused
    BY <1>6 DEF Refused, BackOff, AttemptsLeft, Fails, Busy, Calls, tenant, disk, control, history
  <1>7. CASE Retry
    BY <1>7 DEF Retry, Busy, Calls, Flight, tenant, disk, control, history
  <1>8. CASE Unauthorized
    BY <1>8 DEF Unauthorized, Fails, tenant, disk, control, history
  <1>9. CASE Raises
    BY <1>9 DEF Raises, Fails, tenant, disk, control, history
  <1>10. CASE AnswerLost
    <2>1. copies' \in SUBSET Copy /\ IsFiniteSet(copies') /\ scans' \in Seq(Scan) /\ Len(scans') >= Len(scans)
      BY <1>10, <1>0, PostType DEF AnswerLost
    <2>2. Len(scans) \in Nat /\ Len(scans') \in Nat
      BY <2>1
    <2>3. pc \in Posting /\ (BackOff \/ Fails) /\ UNCHANGED <<mode, disk, control, token, run>>
          /\ lost' = lost + 1 /\ excuses' \in Nat /\ call.phase = "flight"
      BY <1>10 DEF AnswerLost, Arrives, InFlight, Busy
    <2>4. CASE Fails
      BY <2>1, <2>2, <2>3, <2>4 DEF Fails, disk, control
    <2>5. CASE pc' = pc /\ call' = [call EXCEPT !.phase = "backoff", !.aged = FALSE] /\ call.attempt < Attempts
      <3>1. call' \in Calls /\ call'.attempt = call.attempt
        BY <2>5 DEF Calls
      <3>2. QED
        BY <2>1, <2>2, <2>3, <2>5, <3>1 DEF disk, control
    <2>6. QED
      BY <2>3, <2>4, <2>5 DEF BackOff, AttemptsLeft
  <1>11. CASE BaselineFound \/ BaselineMissing
    BY <1>11, <1>0 DEF BaselineFound, BaselineMissing, Goto, Fails, tenant, disk, control, history
  <1>12. CASE GotResults \/ GotTriage \/ GotRescan
    BY <1>12 DEF GotResults, GotTriage, GotRescan, Goto, tenant, disk, control, history
  <1>13. CASE AcceptedQuery \/ AcceptedScan
    <2>1. copies' \in SUBSET Copy /\ IsFiniteSet(copies') /\ scans' \in Seq(Scan) /\ Len(scans') >= Len(scans)
      BY <1>13, <1>0, PostType DEF AcceptedQuery, AcceptedScan
    <2>2. Len(scans) \in Nat /\ Len(scans') \in Nat
      BY <2>1
    <2>3. UNCHANGED <<mode, disk, control, token, history>>
      BY <1>13 DEF AcceptedQuery, AcceptedScan
    <2>4. CASE AcceptedQuery
      BY <2>1, <2>2, <2>3, <2>4 DEF AcceptedQuery, Goto, disk, control, history
    <2>5. CASE AcceptedScan
      BY <2>1, <2>2, <2>3, <2>5 DEF AcceptedScan, Goto, disk, control, history
    <2>6. QED
      BY <1>13, <2>4, <2>5
  <1>14. CASE PollFound \/ PollEmpty
    BY <1>14, <1>0 DEF PollFound, PollEmpty, Goto, Fails, tenant, disk, control, history
  <1>15. CASE StopsEarly
    BY <1>15 DEF StopsEarly, Goto, tenant, disk, control, history
  <1>16. CASE Review
    <2>1. queue' \in SUBSET Functions
      BY <1>16 DEF Review, ToReview, Unlearned
    <2>2. QED
      BY <1>16, <2>1 DEF Review, Goto, tenant, disk, history
  <1>25. ASSUME NEW outcome \in {"approved", "rejected"}, Decide(outcome)
         PROVE  TypeOK' /\ CounterInv'
    <2>1. Asked \in queue
      BY <1>25, AskedType DEF Decide
    <2>2. ReviewFeedback(Asked, outcome) \subseteq Functions \X {"approved", "rejected"}
      BY <2>1 DEF ReviewFeedback
    <2>3. QED
      BY <1>25, <2>1, <2>2 DEF Decide, tenant, history
  <1>26. CASE AutoApprove \/ Answer
    BY <1>25, <1>26 DEF AutoApprove, Answer
  <1>27. CASE Reviewed
    BY <1>27 DEF Reviewed, Goto, tenant, disk, control, history
  <1>17. CASE Record
    BY <1>17, <1>0 DEF Record, Ledgered, Goto, tenant, history
  <1>18. CASE Sleep
    BY <1>18 DEF Sleep, Goto, tenant, disk, history
  <1>19. CASE Kill
    BY <1>19 DEF Kill, Fails, tenant, disk, control
  <1>20. CASE MockIngest
    BY <1>20 DEF MockIngest, Goto, tenant, disk, history
  <1>21. CASE MockApply
    BY <1>21, <1>0, PostType DEF MockApply, Goto, tenant, disk, control, history
  <1>22. CASE MockRescan
    <2>1. [with |-> Uploaded, state |-> "completed"] \in Scan
      BY UploadedType DEF Scan
    <2>2. scans' \in Seq(Scan) /\ Len(scans') = Len(scans) + 1 /\ Len(scans) \in Nat
      BY <1>22, <2>1 DEF MockRescan
    <2>3. pc = "start" /\ shown' = Len(scans') /\ Goto("done")
          /\ UNCHANGED <<mode, copies, disk, review, base, polls, token, history>>
      BY <1>22 DEF MockRescan
    <2>4. QED
      BY <2>2, <2>3 DEF Goto, disk, history
  <1>23. CASE ScanEnds \/ ScanDeleted
    <2>1. PICK i \in DOMAIN scans, s \in {"completed", "failed", "deleted"} :
            scans' = [scans EXCEPT ![i].state = s]
      BY <1>23 DEF ScanEnds, ScanDeleted, Completed
    <2>2. [scans[i] EXCEPT !.state = s] \in Scan
      <3>1. scans[i] \in Scan
        OBVIOUS
      <3>2. QED
        BY <3>1 DEF Scan
    <2>3. scans' \in Seq(Scan) /\ Len(scans') = Len(scans)
      BY <2>1, <2>2
    <2>4. UNCHANGED <<mode, copies, disk, pc, control, call, token, history>>
      BY <1>23 DEF ScanEnds, ScanDeleted
    <2>5. QED
      BY <2>3, <2>4 DEF disk, control, history
  <1>24. QED
    BY <1>1, <1>2, <1>3, <1>4, <1>5, <1>6, <1>7, <1>8, <1>9, <1>10, <1>11, <1>12, <1>13, <1>14,
       <1>15, <1>16, <1>17, <1>18, <1>19, <1>20, <1>21, <1>22, <1>23, <1>26, <1>27 DEF Next, Command, Program

\* Files, requests and scan numbers keep their types in every run.
THEOREM TypeCorrect == Spec => []TypeOK
  <1>1. Spec => [](TypeOK /\ CounterInv)
    BY TypeInit, TypeNext, PTL DEF Spec
  <1>2. QED
    BY <1>1, PTL

-----------------------------------------------------------------------------
(* What the tenant holds, and what a step may do to it.                    *)

Added(f) == copies' = copies \cup {[fn |-> f, no |-> Cardinality(copies) + 1]}

LEMMA AddedUploads ==
  ASSUME NEW f, Added(f)
  PROVE  Uploaded' = Uploaded \cup {f}
  <1>1. [fn |-> f, no |-> Cardinality(copies) + 1].fn = f
    OBVIOUS
  <1>2. QED
    BY <1>1 DEF Added, Uploaded

\* Requests that read, local steps and the tenant's own.
Quiet ==
  /\ UNCHANGED <<copies, ledger, feedback, excuses>>
  /\ \/ UNCHANGED <<pc, todo, queue>>
     \/ pc # "record" /\ pc' \notin {"item", "apply", "record"}

\* An override is on the tenant, and its ledger entry is still to come.
Uploads ==
  /\ pc = "apply" /\ pc' = "record"
  /\ UNCHANGED <<todo, ledger, feedback, excuses>>
  /\ Added(Current) \/ (UNCHANGED copies /\ Current \in Uploaded)

\* The tenant did what was asked, and the client does not know.
Loses ==
  /\ UNCHANGED <<todo, ledger, feedback>>
  /\ \/ pc = "apply" /\ Added(Current) /\ excuses' = excuses + 1
     \/ pc = "start" /\ UNCHANGED <<copies, excuses>>
  /\ pc' \in {pc, "failed"}

\* One verdict is decided, by a human or by --yes.
Decides == \E outcome \in {"approved", "rejected"} : Decide(outcome)

LEMMA StepKinds ==
  ASSUME TypeOK, [Next]_vars
  PROVE  Quiet \/ Uploads \/ Loses \/ Review \/ Decides \/ Reviewed \/ Record \/ Kill
  <1> USE DEF tenant, disk, review, control, history, Quiet
  <1>1. CASE UNCHANGED vars \/ Request \/ Age \/ NewToken \/ Retry \/ ScanEnds \/ ScanDeleted
    BY <1>1 DEF vars, Request, Age, NewToken, Retry, ScanEnds, ScanDeleted
  <1>2. CASE Invoke \/ BaselineFound \/ BaselineMissing \/ GotResults \/ GotTriage \/ PollFound \/ GotRescan
    BY <1>2 DEF Invoke, Ended, BaselineFound, BaselineMissing, GotResults, GotTriage, PollFound, GotRescan, Goto, Fails
  <1>3. CASE Refused \/ Raises \/ Unauthorized
    BY <1>3 DEF Refused, Raises, Unauthorized, BackOff, Fails, InFlight, Busy, Getting, Posting
  <1>4. CASE PollEmpty \/ StopsEarly \/ Sleep \/ MockIngest \/ MockRescan
    BY <1>4 DEF PollEmpty, StopsEarly, Sleep, MockIngest, MockRescan, Goto, Fails
  <1>5. CASE AnswerLost
    BY <1>5 DEF AnswerLost, Post, BackOff, Fails, Loses, Added
  <1>6. CASE AcceptedQuery
    BY <1>6 DEF AcceptedQuery, Post, Goto, Uploads, Added
  <1>7. CASE AcceptedScan
    BY <1>7 DEF AcceptedScan, Post, Goto
  <1>8. CASE MockApply
    BY <1>8 DEF MockApply, Post, Goto, Uploads, Added
  <1>9. CASE AutoApprove \/ Answer
    BY <1>9 DEF AutoApprove, Answer, Decides
  <1>10. QED
    BY <1>1, <1>2, <1>3, <1>4, <1>5, <1>6, <1>7, <1>8, <1>9 DEF Next, Command, Program

-----------------------------------------------------------------------------
(* Uploads, approvals and the ledger.                                      *)

Approved(f) == <<f, "approved">> \in feedback

ChainInv ==
  /\ ledger \subseteq Uploaded
  /\ \A f \in Uploaded : Approved(f)
  /\ pc \in {"item", "apply", "record"} => \A f \in todo : Approved(f) /\ f \notin ledger
  /\ pc = "item" => queue \cap ledger = {}
  /\ pc = "record" => Current \in Uploaded

LEMMA ChainInit == Init => ChainInv
  BY DEF Init, ChainInv, Uploaded

LEMMA ChainNext ==
  ASSUME TypeOK, ChainInv, [Next]_vars
  PROVE  ChainInv'
  <1>0. (todo # {} => Current \in todo) /\ (pc \in {"apply", "record"} => todo # {})
    BY CurrentType DEF TypeOK
  <1>1. (UNCHANGED copies => Uploaded' = Uploaded) /\ (UNCHANGED todo => Current' = Current)
    BY DEF Uploaded, Current
  <1>2. UNCHANGED feedback => \A f : Approved(f)' <=> Approved(f)
    BY DEF Approved
  <1>3. CASE Quiet
    BY <1>1, <1>2, <1>3 DEF Quiet, ChainInv
  <1>4. CASE Uploads
    BY <1>0, <1>1, <1>2, <1>4, AddedUploads DEF Uploads, ChainInv
  <1>5. CASE Loses
    BY <1>0, <1>1, <1>2, <1>5, AddedUploads DEF Loses, ChainInv
  <1>6. CASE Review
    BY <1>1, <1>2, <1>6 DEF Review, ToReview, Unlearned, tenant, disk, Goto, ChainInv
  <1>10. CASE Decides
    <2>1. PICK outcome \in {"approved", "rejected"} : Decide(outcome)
      BY <1>10 DEF Decides
    <2>2. PICK f \in queue : f = Asked
      BY <2>1, AskedType DEF Decide
    <2>3. /\ feedback' = feedback \cup {<<f, outcome>>}
          /\ todo' = IF outcome = "approved" THEN todo \cup {f} ELSE todo
          /\ queue' = queue \ {f}
          /\ UNCHANGED <<copies, ledger, pc>> /\ pc = "item"
      BY <2>1, <2>2 DEF Decide, ReviewFeedback, tenant
    <2>4. \A g : Approved(g) => Approved(g)'
      BY <2>3 DEF Approved
    <2>5. outcome = "approved" => Approved(f)'
      BY <2>3 DEF Approved
    <2>6. \A g \in todo' : Approved(g)' /\ g \notin ledger
      BY <2>2, <2>3, <2>4, <2>5 DEF ChainInv
    <2>7. QED
      BY <1>1, <2>3, <2>4, <2>6 DEF ChainInv
  <1>11. CASE Reviewed
    BY <1>1, <1>2, <1>11 DEF Reviewed, Goto, tenant, disk, review, control, ChainInv
  <1>7. CASE Record
    BY <1>0, <1>1, <1>2, <1>7 DEF Record, Ledgered, tenant, Goto, ChainInv
  <1>8. CASE Kill
    BY <1>1, <1>2, <1>8 DEF Kill, Fails, tenant, disk, review, control, ChainInv
  <1>9. QED
    BY <1>3, <1>4, <1>5, <1>6, <1>7, <1>8, <1>10, <1>11, StepKinds

\* A ledger entry has its upload, an upload its recorded approval.
THEOREM EvidenceChains == Spec => []EvidenceChain
  <1>1. ChainInv => EvidenceChain
    BY DEF ChainInv, EvidenceChain, Approved
  <1>2. QED
    BY <1>1, TypeCorrect, ChainInit, ChainNext, PTL DEF Spec

-----------------------------------------------------------------------------
(* Counting: every query on the tenant is ledgered, excused, or was just   *)
(* accepted.                                                               *)

InHand == IF pc = "record" THEN 1 ELSE 0

CountInv == Cardinality(copies) <= Cardinality(ledger) + excuses + InHand

LEMMA Counts ==
  ASSUME TypeOK, ChainInv
  PROVE  /\ IsFiniteSet(Uploaded) /\ IsFiniteSet(ledger)
         /\ Cardinality(copies) \in Nat /\ Cardinality(Uploaded) \in Nat /\ Cardinality(ledger) \in Nat
         /\ Cardinality(Uploaded) <= Cardinality(copies)
         /\ Cardinality(Uploaded \ ledger) = Cardinality(Uploaded) - Cardinality(ledger)
         /\ Cardinality(ledger) <= Cardinality(Uploaded)
  <1> DEFINE name == [c \in copies |-> c.fn]
  <1>1. name \in Surjection(copies, Uploaded)
    BY DEF Surjection, Uploaded
  <1> HIDE DEF name
  <1>2. IsFiniteSet(Uploaded) /\ Cardinality(Uploaded) <= Cardinality(copies)
    BY <1>1, FS_Surjection DEF TypeOK
  <1>3. IsFiniteSet(ledger) /\ Cardinality(ledger) <= Cardinality(Uploaded)
    BY <1>2, FS_Subset DEF ChainInv
  <1>4. Uploaded \cap ledger = ledger
    BY DEF ChainInv
  <1>5. Cardinality(Uploaded \ ledger) = Cardinality(Uploaded) - Cardinality(ledger)
    BY <1>2, <1>4, FS_Difference
  <1>6. QED
    BY <1>2, <1>3, <1>5, FS_CardinalityType DEF TypeOK

LEMMA AddedCounts ==
  ASSUME TypeOK, ChainInv, NEW f, Added(f)
  PROVE  Cardinality(copies') <= Cardinality(copies) + 1 /\ Cardinality(copies') \in Nat
  <1> DEFINE query == [fn |-> f, no |-> Cardinality(copies) + 1]
  <1>1. copies' = copies \cup {query}
    BY DEF Added
  <1> HIDE DEF query
  <1>2. IsFiniteSet(copies) /\ Cardinality(copies) \in Nat
    BY Counts DEF TypeOK
  <1>3. Cardinality(copies \cup {query}) = IF query \in copies THEN Cardinality(copies) ELSE Cardinality(copies) + 1
    BY <1>2, FS_AddElement
  <1>4. QED
    BY <1>1, <1>2, <1>3

LEMMA CountInit == Init => CountInv
  <1>1. ASSUME Init
        PROVE  Cardinality(copies) = 0 /\ Cardinality(ledger) = 0
    BY <1>1, FS_EmptySet DEF Init
  <1>2. QED
    BY <1>1 DEF Init, CountInv, InHand

LEMMA CountNext ==
  ASSUME TypeOK, ChainInv, CountInv, [Next]_vars
  PROVE  CountInv'
  <1>1. excuses \in Nat /\ (todo # {} => Current \in todo) /\ (pc = "record" => todo # {})
    BY CurrentType DEF TypeOK
  <1>2. Cardinality(copies) \in Nat /\ Cardinality(ledger) \in Nat /\ IsFiniteSet(ledger)
    BY Counts
  <1>3. CASE Quiet
    BY <1>1, <1>2, <1>3 DEF Quiet, CountInv, InHand
  <1>4. CASE Uploads
    <2>1. Cardinality(copies') <= Cardinality(copies) + 1 /\ Cardinality(copies') \in Nat
      BY <1>2, <1>4, AddedCounts DEF Uploads
    <2>2. QED
      BY <1>1, <1>2, <1>4, <2>1 DEF Uploads, CountInv, InHand
  <1>5. CASE Loses
    <2>1. Cardinality(copies') <= Cardinality(copies) + 1 /\ Cardinality(copies') \in Nat
      BY <1>2, <1>5, AddedCounts DEF Loses
    <2>2. QED
      BY <1>1, <1>2, <1>5, <2>1 DEF Loses, CountInv, InHand
  <1>6. CASE Review
    BY <1>1, <1>2, <1>6 DEF Review, tenant, disk, history, Goto, CountInv, InHand
  <1>10. CASE Decides \/ Reviewed
    BY <1>1, <1>2, <1>10 DEF Decides, Decide, Reviewed, tenant, disk, history, Goto, CountInv, InHand
  <1>7. CASE Record
    <2>1. Current \notin ledger
      BY <1>1, <1>7 DEF Record, ChainInv
    <2>2. Cardinality(ledger') = Cardinality(ledger) + 1
      BY <1>2, <1>7, <2>1, FS_AddElement DEF Record, Ledgered
    <2>3. QED
      BY <1>1, <1>2, <1>7, <2>2 DEF Record, tenant, history, Goto, CountInv, InHand
  <1>8. CASE Kill
    BY <1>1, <1>2, <1>8 DEF Kill, Fails, tenant, disk, CountInv, InHand
  <1>9. QED
    BY <1>3, <1>4, <1>5, <1>6, <1>7, <1>8, <1>10, StepKinds

LEMMA Counted == Spec => [](TypeOK /\ ChainInv /\ CountInv)
  BY TypeCorrect, ChainInit, ChainNext, CountInit, CountNext, PTL DEF Spec

\* What the ledger does not know of is one override per answer that was
\* lost, and the one just uploaded.
THEOREM UploadsAccounted == Spec => []UnaccountedBounded
  <1>1. TypeOK /\ ChainInv /\ CountInv => UnaccountedBounded
    BY Counts DEF TypeOK, CountInv, InHand, UnaccountedBounded
  <1>2. QED
    BY <1>1, Counted, PTL

\* A query is there twice only when an answer was lost.
THEOREM NoNeedlessUploads == Spec => []NoNeedlessCopies
  <1>1. ASSUME TypeOK, ChainInv, CountInv
        PROVE  NoNeedlessCopies
    <2>1. CASE pc = "record"
      <3>1. Current \in Uploaded \ ledger
        BY <1>1, <2>1, CurrentType DEF TypeOK, ChainInv
      <3>2. Cardinality(Uploaded \ ledger) # 0
        BY <1>1, <3>1, Counts, FS_EmptySet, FS_Difference
      <3>3. QED
        BY <1>1, <2>1, <3>2, Counts DEF TypeOK, CountInv, InHand, NoNeedlessCopies
    <2>2. CASE pc # "record"
      BY <1>1, <2>2, Counts DEF TypeOK, CountInv, InHand, NoNeedlessCopies
    <2>3. QED
      BY <2>1, <2>2
  <1>2. QED
    BY <1>1, Counted, PTL

-----------------------------------------------------------------------------
(* The baseline, the re-scan, and what happens to scans meanwhile.         *)

Ran(i) == scans[i].state \in {"completed", "deleted"}

OrderInv ==
  /\ OldestFirst(scans)
  /\ mode = "live" /\ base # 0 => Ran(base)

\* A scan that completed at some time is not newer than the newest one that
\* still is: only older ones have been deleted.
LEMMA LatestNotOlder ==
  ASSUME TypeOK, OldestFirst(scans), LatestScan # 0, NEW i \in DOMAIN scans, Ran(i)
  PROVE  i <= LatestScan
  <1>1. /\ LatestScan \in Completed /\ LatestScan \in 1..Len(scans)
        /\ \A j \in Completed : j <= LatestScan
    BY LatestIsLast DEF TypeOK
  <1>2. i \in 1..Len(scans) /\ Len(scans) \in Nat
    BY DEF TypeOK
  <1>3. CASE scans[i].state = "completed"
    BY <1>1, <1>3 DEF Completed
  <1>4. CASE scans[i].state = "deleted"
    <2>1. \A j \in 1..i - 1 : scans[j].state # "completed"
      BY <1>4 DEF OldestFirst
    <2>2. scans[LatestScan].state = "completed"
      BY <1>1 DEF Completed
    <2>3. LatestScan \notin 1..i - 1
      BY <2>1, <2>2
    <2>4. QED
      BY <1>1, <1>2, <2>3
  <1>5. QED
    BY <1>3, <1>4 DEF Ran

\* The four things that happen to the list of scans.
Kept == UNCHANGED scans
Grown == \E s \in Scan : s.state # "deleted" /\ scans' = Append(scans, s)
Ends == \E i \in DOMAIN scans, s \in {"completed", "failed"} :
          scans[i].state = "running" /\ scans' = [scans EXCEPT ![i].state = s]
Goes == \E i \in DOMAIN scans :
          /\ scans[i].state = "completed"
          /\ \A j \in 1..i - 1 : scans[j].state \in {"failed", "deleted"}
          /\ scans' = [scans EXCEPT ![i].state = "deleted"]

LEMMA ScanKinds ==
  ASSUME TypeOK, [Next]_vars
  PROVE  Kept \/ Grown \/ Ends \/ Goes
  <1> USE DEF tenant, Kept
  <1>1. CASE UNCHANGED vars \/ Invoke \/ Request \/ Age \/ NewToken \/ Refused \/ Retry \/ Unauthorized \/ Raises
    BY <1>1 DEF vars, Invoke, Request, Age, NewToken, Refused, Retry, Unauthorized, Raises
  <1>2. CASE BaselineFound \/ BaselineMissing \/ GotResults \/ GotTriage \/ PollFound \/ PollEmpty \/ GotRescan
    BY <1>2 DEF BaselineFound, BaselineMissing, GotResults, GotTriage, PollFound, PollEmpty, GotRescan
  <1>3. CASE StopsEarly \/ Review \/ Reviewed \/ Record \/ Sleep \/ Kill \/ MockIngest
    BY <1>3 DEF StopsEarly, Review, Reviewed, Record, Sleep, Kill, MockIngest
  <1>4. \A s \in {"running", "completed"} : [with |-> Uploaded, state |-> s] \in Scan
    BY UploadedType DEF Scan
  <1>5. CASE AnswerLost \/ AcceptedQuery \/ AcceptedScan \/ MockApply
    BY <1>4, <1>5 DEF AnswerLost, AcceptedQuery, AcceptedScan, MockApply, Post, Grown
  <1>6. CASE MockRescan
    BY <1>4, <1>6 DEF MockRescan, Grown
  <1>7. CASE ScanEnds
    BY <1>7 DEF ScanEnds, Ends
  <1>8. CASE ScanDeleted
    BY <1>8 DEF ScanDeleted, Completed, Goes
  <1>9. CASE AutoApprove \/ Answer
    BY <1>9 DEF AutoApprove, Answer, Decide
  <1>10. QED
    BY <1>1, <1>2, <1>3, <1>5, <1>6, <1>7, <1>8, <1>9 DEF Next, Command, Program

\* Scans stay in the order they leave in, and one that ran has always run.
LEMMA ScansMove ==
  ASSUME TypeOK, OldestFirst(scans), Kept \/ Grown \/ Ends \/ Goes
  PROVE  /\ OldestFirst(scans')
         /\ \A i \in DOMAIN scans : Ran(i) => scans'[i].state \in {"completed", "deleted"}
  <1> USE DEF TypeOK, OldestFirst, Ran
  <1>1. CASE Kept
    BY <1>1 DEF Kept
  <1>2. CASE Grown
    <2>1. PICK s \in Scan : s.state # "deleted" /\ scans' = Append(scans, s)
      BY <1>2 DEF Grown
    <2>2. /\ DOMAIN scans = 1..Len(scans) /\ DOMAIN scans' = 1..Len(scans) + 1 /\ Len(scans) \in Nat
          /\ \A i \in 1..Len(scans) : scans'[i] = scans[i]
          /\ scans'[Len(scans) + 1] = s
      BY <2>1
    <2>3. QED
      BY <2>1, <2>2
  <1>3. CASE Ends
    BY <1>3 DEF Ends
  <1>4. CASE Goes
    BY <1>4 DEF Goes
  <1>5. QED
    BY <1>1, <1>2, <1>3, <1>4

\* No re-scan is chosen before the poll.
NotYetShown == pc \notin {"fetch"} \cup Ended => shown = 0

OldInv == OrderInv /\ RescanNotOlder /\ NotYetShown

LEMMA ShownLate ==
  ASSUME TypeOK, NotYetShown, [Next]_vars
  PROVE  NotYetShown'
  <1> USE DEF NotYetShown, Ended, control
  <1>1. CASE UNCHANGED <<pc, shown>> \/ (pc' \in Ended \cup {"fetch"})
    BY <1>1
  <1>2. CASE Invoke
    BY <1>2 DEF Invoke
  <1>3. CASE (pc \notin {"fetch"} \cup Ended) /\ UNCHANGED shown
    BY <1>3
  <1>4. QED
    BY <1>1, <1>2, <1>3
    DEF Next, Command, Program, vars, Fails, Goto, BackOff, Request, Age, NewToken, Refused, Retry, Unauthorized,
        Raises, AnswerLost, BaselineFound, BaselineMissing, GotResults, GotTriage, AcceptedQuery,
        AcceptedScan, PollFound, PollEmpty, GotRescan, StopsEarly, Review, AutoApprove, Answer, Decide, Reviewed,
        Record, Sleep, Kill, MockIngest, MockApply, MockRescan, ScanEnds, ScanDeleted

LEMMA OldInit == Init => OldInv
  BY ScansAssumption DEF Init, OldInv, OrderInv, RescanNotOlder, NotYetShown

LEMMA OldNext ==
  ASSUME TypeOK, OldInv, [Next]_vars
  PROVE  OldInv'
  <1> USE DEF OldInv, OrderInv, RescanNotOlder
  <1>0. NotYetShown'
    BY ShownLate
  <1>1. /\ OldestFirst(scans')
        /\ \A i \in DOMAIN scans : Ran(i) => scans'[i].state \in {"completed", "deleted"}
    BY ScanKinds, ScansMove
  <1>2. /\ base \in Nat /\ shown \in Nat
        /\ base # 0 => base \in DOMAIN scans
        /\ shown # 0 => shown \in DOMAIN scans
        /\ shown # 0 => Ran(shown)
    BY DEF TypeOK, Ran
  <1>3. LatestScan # 0 => LatestScan \in DOMAIN scans /\ Ran(LatestScan)
    BY LatestIsLast DEF TypeOK, Completed, Ran
  <1>4. CASE UNCHANGED <<mode, base, shown>>
    BY <1>0, <1>1, <1>2, <1>4 DEF Ran
  <1>5. CASE Invoke
    BY <1>0, <1>1, <1>5 DEF Invoke
  <1>6. CASE BaselineFound
    <2>1. shown' = 0 /\ base' = LatestScan /\ LatestScan # 0
      BY <1>6 DEF BaselineFound, NotYetShown, Ended
    <2>2. QED
      BY <1>0, <1>1, <1>3, <2>1 DEF Ran
  <1>7. CASE PollFound
    <2>1. mode = "live" /\ UNCHANGED <<mode, base>> /\ shown' = LatestScan /\ LatestScan # 0
      BY <1>7 DEF PollFound, Arrives, InFlight, Busy
    <2>2. base <= LatestScan
      BY <1>2, <1>3, <2>1, LatestNotOlder DEF TypeOK
    <2>3. QED
      BY <1>0, <1>1, <1>2, <1>3, <2>1, <2>2 DEF Ran
  <1>8. CASE MockIngest
    <2>1. mode' # "live" /\ shown' = 0
      BY <1>8 DEF MockIngest, NotYetShown, Ended
    <2>2. QED
      BY <1>0, <1>1, <2>1 DEF Ran
  <1>9. CASE MockRescan
    <2>1. scans' = Append(scans, [with |-> Uploaded, state |-> "completed"]) /\ shown' = Len(scans') /\ base' = base
          /\ mode' # "live"
      BY <1>9 DEF MockRescan
    <2>2. shown' = Len(scans) + 1 /\ scans'[shown'] = [with |-> Uploaded, state |-> "completed"] /\ base <= Len(scans)
          /\ Len(scans) \in Nat
      BY <2>1 DEF TypeOK
    <2>3. QED
      BY <1>0, <1>1, <1>2, <2>1, <2>2 DEF Ran
  <1>10. QED
    BY <1>4, <1>5, <1>6, <1>7, <1>8, <1>9
    DEF Next, Command, Program, vars, control, Request, Age, NewToken, Refused, Retry, Unauthorized, Raises,
        AnswerLost, BaselineMissing, GotResults, GotTriage, AcceptedQuery, AcceptedScan, PollEmpty,
        GotRescan, StopsEarly, Review, AutoApprove, Answer, Decide, Reviewed, Record, Sleep, Kill,
        MockApply, ScanEnds, ScanDeleted

\* The re-scan is a scan that did complete, and none that is older than the
\* baseline.
THEOREM RescanIsNotOlder == Spec => []RescanNotOlder
  <1>1. OldInv => RescanNotOlder
    BY DEF OldInv
  <1>2. QED
    BY <1>1, TypeCorrect, OldInit, OldNext, PTL DEF Spec
===============================================================================
