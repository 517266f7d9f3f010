--------------------------- MODULE LifecycleProofs ---------------------------
(***************************************************************************)
(* Proofs about Lifecycle for any number of workers, functions, requests   *)
(* and crashes, and any way names are mangled.                             *)
(***************************************************************************)
EXTENDS Lifecycle, TLAPS

-----------------------------------------------------------------------------
(* Type correctness.                                                       *)

LEMMA IdleType == Idle \in WorkSet
  BY DEF Idle, WorkSet, Phases

LEMMA CallTypes ==
  ASSUME NEW o \in Override
  PROVE  /\ \A yes \in BOOLEAN : ReviewCalls(o, yes) \in Seq(CallSet)
         /\ ApplyCalls(o) \in Seq(CallSet) /\ ApplyCalls(o) # <<>>
         /\ RollbackCalls(o) \in Seq(CallSet) /\ RollbackCalls(o) # <<>>
  <1>1. \A e \in Events, l \in Logs : Call(l, e, o) \in CallSet
    BY DEF Call, CallSet, Subject
  <1>2. \A e \in {"add", "remove"} : Call("applied", e, o) \in CallSet
    BY DEF Call, CallSet
  <1>3. QED
    BY <1>1, <1>2 DEF ReviewCalls, ApplyCalls, RollbackCalls, Events, Logs

LEMMA EmptyScreen == Empty \in Screens
  <1>1. Empty \in [{} -> Roles]
    BY DEF Empty
  <1>2. QED
    BY <1>1 DEF Screens

\* Moving on to the next call of the script keeps the request well formed.
LEMMA StoredType ==
  ASSUME TypeOK, NEW w \in Workers, work[w].phase = "store", Stored(w)
  PROVE  /\ work' \in [Workers -> WorkSet]
         /\ \A v \in Workers : work'[v].phase = "store" => work'[v].script # <<>>
  <1>1. Tail(work[w].script) \in Seq(CallSet)
    BY DEF TypeOK, WorkSet
  <1>2. QED
    BY <1>1 DEF Stored, TypeOK, WorkSet, Phases

LEMMA TypeInit == Init => TypeOK
  <1>2. Init => work \in [Workers -> WorkSet] /\ \A w \in Workers : work[w].phase # "store"
    BY IdleType DEF Init, Idle
  <1>3. QED
    BY <1>2, EmptyScreen DEF Init, TypeOK

LEMMA TypeNext == TypeOK /\ [Next]_vars => TypeOK'
  <1> SUFFICES ASSUME TypeOK, [Next]_vars
               PROVE  TypeOK'
    OBVIOUS
  <1>1. CASE UNCHANGED vars
    BY <1>1 DEF vars, TypeOK
  <1>2. CASE Crash
    BY <1>2, IdleType DEF Crash, TypeOK, Idle
  <1>3. ASSUME NEW w \in Workers, Step(w)
        PROVE  TypeOK'
    <2>1. CASE ShowReview(w)
      BY <2>1 DEF ShowReview, TypeOK, Proposals, Screens
    <2>2. CASE PostReview(w)
      <3>1. PICK p \in Proposals, ticked \in SUBSET DOMAIN screen[w] :
              /\ work' = [work EXCEPT ![w] = Review(Verdicts(p, requests'), ticked, requests')]
              /\ approvals' = approvals \cup Verdicts([f \in ticked |-> screen[w][f]], requests')
        BY <2>2 DEF PostReview
      <3>2. requests' \in Nat
        BY <2>2 DEF PostReview, TypeOK
      <3>3. Verdicts(p, requests') \in SUBSET Override
        BY <3>2 DEF Proposals, Verdicts, Override
      <3>4. Review(Verdicts(p, requests'), ticked, requests') \in WorkSet
        BY <3>2, <3>3, IdleType DEF Review, Approved, WorkSet, Idle, Phases
      <3>5. Review(Verdicts(p, requests'), ticked, requests').phase # "store"
        BY DEF Review, Idle
      <3>6. screen[w] \in Screens
        BY DEF TypeOK
      <3>7. Verdicts([f \in ticked |-> screen[w][f]], requests') \in SUBSET Override
        BY <3>2, <3>6 DEF Screens, Verdicts, Override
      <3>8. screen' \in [Workers -> Screens]
        BY <2>2, EmptyScreen DEF PostReview, TypeOK
      <3>9. QED
        BY <2>2, <3>1, <3>2, <3>4, <3>5, <3>7, <3>8 DEF PostReview, TypeOK
    <2>3. CASE PostRollback(w)
      <3>1. PICK o \in applied :
              work' = [work EXCEPT ![w] = Rollback(o, requests + 1)]
        BY <2>3 DEF PostRollback
      <3>2. o \in Override /\ requests + 1 \in Nat
        BY DEF TypeOK
      <3>3. Rollback(o, requests + 1) \in WorkSet
        BY <3>2, CallTypes, IdleType DEF Rollback, TypeOK, WorkSet, Idle, Phases
      <3>4. Rollback(o, requests + 1).script # <<>>
        BY <3>2, CallTypes DEF Rollback, Idle
      <3>5. QED
        BY <2>3, <3>1, <3>2, <3>3, <3>4 DEF PostRollback, TypeOK
    <2>4. CASE NextVerdict(w)
      <3>1. PICK o \in work[w].review :
              work' = [work EXCEPT ![w].review = @ \ {o},
                                   ![w].script = ReviewCalls(o, o \in work[w].ticked)]
        BY <2>4 DEF NextVerdict
      <3>2. o \in Override /\ (o \in work[w].ticked) \in BOOLEAN
        BY DEF TypeOK, WorkSet
      <3>3. ReviewCalls(o, o \in work[w].ticked) \in Seq(CallSet)
        BY <3>2, CallTypes
      <3>4. work' \in [Workers -> WorkSet]
        BY <3>1, <3>3 DEF TypeOK, WorkSet
      <3>5. \A v \in Workers : work'[v].phase = "store" => v # w /\ work'[v] = work[v]
        BY <2>4, <3>1 DEF NextVerdict, TypeOK, WorkSet
      <3>6. QED
        BY <2>4, <3>4, <3>5 DEF NextVerdict, TypeOK
    <2>5. CASE NextOverride(w)
      BY <2>5, CallTypes DEF NextOverride, TypeOK, WorkSet
    <2>6. CASE Summarize(w)
      <3>1. Run(work[w].req) \in Subject
        BY DEF TypeOK, WorkSet, Run, Subject
      <3>2. <<Call("history", "run", Run(work[w].req))>> \in Seq(CallSet)
        BY <3>1 DEF Call, CallSet, Events, Logs
      <3>3. QED
        BY <2>6, <3>2 DEF Summarize, TypeOK, WorkSet
    <2>7. CASE Respond(w)
      BY <2>7, IdleType DEF Respond, TypeOK, Idle
    <2>8. CASE LoadApplied(w)
      BY <2>8 DEF LoadApplied, TypeOK, WorkSet, Phases
    <2>9. CASE LoadLog(w)
      <3>1. Head(work[w].script) \in CallSet
        BY <2>9 DEF LoadLog, TypeOK, WorkSet
      <3>2. logs[Head(work[w].script).file] \in Seq(Entry)
        BY <2>9 DEF LoadLog, TypeOK
      <3>3. clock' \in Nat
        BY <2>9 DEF LoadLog, TypeOK
      <3>4. work' \in [Workers -> WorkSet]
        <4>1. PICK copy \in Seq(Entry) :
                work' = [work EXCEPT ![w] =
                           [@ EXCEPT !.phase = "store", !.at = clock', !.logCopy = copy]]
          BY <2>9, <3>2 DEF LoadLog
        <4>2. [work[w] EXCEPT !.phase = "store", !.at = clock', !.logCopy = copy] \in WorkSet
          BY <3>3 DEF TypeOK, WorkSet, Phases
        <4>3. QED
          BY <4>1, <4>2 DEF TypeOK
      <3>5. \A v \in Workers : work'[v].script = work[v].script
        BY <2>9 DEF LoadLog, TypeOK, WorkSet
      <3>6. QED
        BY <2>9, <3>3, <3>4, <3>5 DEF LoadLog, TypeOK
    <2>10. CASE StoreApplied(w)
      <3>1. work[w].script # <<>> /\ Head(work[w].script) \in CallSet
        BY <2>10 DEF StoreApplied, TypeOK, WorkSet
      <3>2. Head(work[w].script).ov \in Override
        BY <2>10, <3>1 DEF StoreApplied, CallSet, Logs
      <3>3. applied' \in SUBSET Override
        BY <2>10, <3>2 DEF StoreApplied, AppliedAfter, TypeOK, WorkSet
      <3>4. QED
        BY <2>10, <3>3, StoredType DEF StoreApplied, TypeOK
    <2>11. CASE StoreLog(w)
      <3>1. work[w].script # <<>> /\ Head(work[w].script) \in CallSet
        BY <2>11 DEF StoreLog, TypeOK, WorkSet
      <3>2. NewEntry(w) \in Entry
        BY <2>11, <3>1 DEF StoreLog, NewEntry, Entry, CallSet, Logs, TypeOK, WorkSet
      <3>3. WithEntry(work[w].logCopy, NewEntry(w)) \in Seq(Entry)
        BY <3>2 DEF WithEntry, TypeOK, WorkSet
      <3>4. logs' \in [Logs -> Seq(Entry)]
        BY <2>11, <3>3 DEF StoreLog, TypeOK
      <3>5. QED
        BY <2>11, <3>4, StoredType DEF StoreLog, TypeOK
    <2>12. CASE WriteFails(w)
      BY <2>12, IdleType DEF WriteFails, TypeOK, Idle
    <2>13. QED
      BY <1>3, <2>1, <2>2, <2>3, <2>4, <2>5, <2>6, <2>7, <2>8, <2>9, <2>10, <2>11, <2>12
      DEF Step
  <1>4. QED
    BY <1>1, <1>2, <1>3 DEF Next

\* Every file keeps the shape its readers expect, whatever is interleaved,
\* fails or is killed.
THEOREM TypeCorrect == Spec => []TypeOK
  BY TypeInit, TypeNext, PTL DEF Spec

-----------------------------------------------------------------------------
(* An override is applied only if an admin ticked it.                      *)

LEMMA HeadApproved ==
  ASSUME TypeOK, NEW w \in Workers, work[w].phase = "store", ApprovedThread(work[w]),
         Head(work[w].script).event \in {"add", "applied"}
  PROVE  Ticked(Head(work[w].script).ov)
  <1>1. work[w].script \in Seq(CallSet) /\ work[w].script # <<>>
    BY DEF TypeOK, WorkSet
  <1>2. 1 \in DOMAIN work[w].script /\ Head(work[w].script) = work[w].script[1]
    BY <1>1
  <1>3. QED
    BY <1>2 DEF ApprovedThread, ApprovedScript

\* A finished call leaves a thread with no more in its copies and script.
LEMMA StoredApproved ==
  ASSUME TypeOK, ApprovedInv, NEW w \in Workers, work[w].phase = "store", Stored(w)
  PROVE  \A v \in Workers : ApprovedThread(work'[v])
  <1>1. /\ work'[w].appliedCopy = {} /\ work'[w].apply = work[w].apply
        /\ work'[w].logCopy = <<>> /\ work'[w].script = Tail(work[w].script)
        /\ \A v \in Workers \ {w} : work'[v] = work[v]
    BY DEF Stored, TypeOK, WorkSet
  <1>2. work[w].script \in Seq(CallSet) /\ work[w].script # <<>>
    BY DEF TypeOK, WorkSet
  <1>3. ApprovedScript(Tail(work[w].script))
    BY <1>2 DEF ApprovedInv, ApprovedThread, ApprovedScript
  <1>4. QED
    BY <1>1, <1>3 DEF ApprovedInv, ApprovedThread, ApprovedLog

LEMMA ApprovedInit == Init => ApprovedInv
  BY DEF Init, ApprovedInv, ApprovedThread, ApprovedLog, ApprovedScript, Idle, Logs

\* A step that rewrites no file only has to account for its own thread.
LEMMA ApprovedLocal ==
  ASSUME ApprovedInv, NEW w \in Workers, UNCHANGED <<applied, logs>>,
         approvals \subseteq approvals', ApprovedThread(work[w])',
         \A v \in Workers \ {w} : work'[v] = work[v]
  PROVE  ApprovedInv'
  <1>1. \A o : Ticked(o) => Ticked(o)'
    BY DEF Ticked
  <1>2. \A l \in Logs : ApprovedLog(logs[l])'
    BY <1>1 DEF ApprovedInv, ApprovedLog
  <1>3. \A o \in applied' : Ticked(o)'
    BY <1>1 DEF ApprovedInv
  <1>4. ASSUME NEW v \in Workers PROVE ApprovedThread(work[v])'
    <2>1. CASE v = w
      BY <2>1
    <2>2. CASE v # w
      <3>1. ApprovedThread(work[v]) /\ work'[v] = work[v]
        BY <2>2 DEF ApprovedInv
      <3>2. QED
        BY <1>1, <3>1 DEF ApprovedThread, ApprovedLog, ApprovedScript
    <2>3. QED
      BY <2>1, <2>2
  <1>5. QED
    BY <1>2, <1>3, <1>4 DEF ApprovedInv

LEMMA ApprovedNext == TypeOK /\ ApprovedInv /\ [Next]_vars => ApprovedInv'
  <1> SUFFICES ASSUME TypeOK, ApprovedInv, [Next]_vars
               PROVE  ApprovedInv'
    OBVIOUS
  <1>0. ApprovedThread(Idle)'
    BY DEF Idle, ApprovedThread, ApprovedLog, ApprovedScript
  <1>a. ASSUME approvals' = approvals
        PROVE  /\ \A o : Ticked(o) <=> Ticked(o)'
               /\ \A t : ApprovedThread(t) => ApprovedThread(t)'
    BY <1>a DEF Ticked, ApprovedThread, ApprovedLog, ApprovedScript
  <1>1. CASE UNCHANGED vars
    BY <1>1, <1>a DEF vars, ApprovedInv, ApprovedLog
  <1>2. CASE Crash
    BY <1>2, <1>0, <1>a DEF Crash, ApprovedInv, ApprovedLog
  <1>3. ASSUME NEW w \in Workers, Step(w)
        PROVE  ApprovedInv'
    <2>0. ApprovedThread(work[w]) /\ work[w] \in WorkSet
      BY DEF ApprovedInv, TypeOK
    <2>1. CASE ShowReview(w)
      BY <2>1, <2>0, <1>a, ApprovedLocal DEF ShowReview
    <2>2. CASE PostReview(w)
      <3>1. PICK p \in Proposals, ticked \in SUBSET DOMAIN screen[w] :
              /\ work' = [work EXCEPT ![w] = Review(Verdicts(p, requests'), ticked, requests')]
              /\ approvals' = approvals \cup Verdicts([f \in ticked |-> screen[w][f]], requests')
        BY <2>2 DEF PostReview
      <3>2. ASSUME NEW o \in Approved(Verdicts(p, requests'), ticked)
            PROVE  Ticked(o)'
        <4>1. o.fn \in ticked /\ o.req = requests'
          BY DEF Approved, Verdicts
        <4>2. PICK a : /\ a \in Verdicts([f \in ticked |-> screen[w][f]], requests')
                       /\ a.fn = o.fn /\ a.req = o.req
          <5>1. [fn |-> o.fn, role |-> screen[w][o.fn], req |-> requests']
                  \in Verdicts([f \in ticked |-> screen[w][f]], requests')
            BY <4>1 DEF Verdicts
          <5>2. QED
            BY <4>1, <5>1
        <4>3. QED
          BY <3>1, <4>2 DEF Ticked
      <3>3. work'[w] = Review(Verdicts(p, requests'), ticked, requests')
        BY <3>1 DEF TypeOK
      <3>4. ApprovedThread(work[w])'
        BY <3>2, <3>3 DEF Review, Idle, ApprovedThread, ApprovedLog, ApprovedScript
      <3>5. QED
        BY <2>2, <3>1, <3>4, ApprovedLocal DEF PostReview, TypeOK
    <2>3. CASE PostRollback(w)
      <3>1. PICK o \in applied : work' = [work EXCEPT ![w] = Rollback(o, requests + 1)]
        BY <2>3 DEF PostRollback
      <3>2. ApprovedThread(Rollback(o, requests + 1))
        BY DEF Rollback, RollbackCalls, Call, Idle, ApprovedInv, ApprovedThread, ApprovedLog, ApprovedScript
      <3>3. QED
        BY <2>3, <3>1, <3>2, <1>a, ApprovedLocal DEF PostRollback, TypeOK
    <2>4. CASE NextVerdict(w)
      <3>1. PICK o \in work[w].review :
              work' = [work EXCEPT ![w].review = @ \ {o},
                                   ![w].script = ReviewCalls(o, o \in work[w].ticked)]
        BY <2>4 DEF NextVerdict
      <3>2. ApprovedScript(ReviewCalls(o, o \in work[w].ticked))
        BY DEF ReviewCalls, Call, ApprovedScript
      <3>3. ApprovedThread(work'[w])
        BY <2>0, <3>1, <3>2 DEF TypeOK, WorkSet, ApprovedThread
      <3>4. QED
        BY <2>4, <3>1, <3>3, <1>a, ApprovedLocal DEF NextVerdict, TypeOK
    <2>5. CASE NextOverride(w)
      <3>1. PICK o \in work[w].apply :
              work' = [work EXCEPT ![w].apply = @ \ {o}, ![w].script = ApplyCalls(o)]
        BY <2>5 DEF NextOverride
      <3>2. ApprovedScript(ApplyCalls(o))
        BY <2>0 DEF ApplyCalls, Call, ApprovedScript, ApprovedThread
      <3>3. ApprovedThread(work'[w])
        BY <2>0, <3>1, <3>2 DEF TypeOK, WorkSet, ApprovedThread
      <3>4. QED
        BY <2>5, <3>1, <3>3, <1>a, ApprovedLocal DEF NextOverride, TypeOK
    <2>6. CASE Summarize(w)
      <3>1. ApprovedScript(<<Call("history", "run", Run(work[w].req))>>)
        BY DEF Call, ApprovedScript
      <3>2. ApprovedThread(work'[w])
        BY <2>0, <2>6, <3>1 DEF Summarize, TypeOK, WorkSet, ApprovedThread
      <3>3. QED
        BY <2>6, <3>2, <1>a, ApprovedLocal DEF Summarize, TypeOK
    <2>7. CASE Respond(w)
      BY <2>7, <1>0, ApprovedLocal DEF Respond, TypeOK
    <2>8. CASE LoadApplied(w)
      <3>1. ApprovedThread(work'[w])
        BY <2>0, <2>8 DEF LoadApplied, TypeOK, WorkSet, ApprovedInv, ApprovedThread
      <3>2. QED
        BY <2>8, <3>1, <1>a, ApprovedLocal DEF LoadApplied, TypeOK
    <2>9. CASE LoadLog(w)
      <3>1. PICK l \in Logs :
              work' = [work EXCEPT ![w] = [@ EXCEPT !.phase = "store", !.at = clock', !.logCopy = logs[l]]]
        BY <2>9 DEF LoadLog
      <3>2. ApprovedThread(work'[w])
        BY <2>0, <3>1 DEF TypeOK, WorkSet, ApprovedInv, ApprovedThread
      <3>3. QED
        BY <2>9, <3>1, <3>2, <1>a, ApprovedLocal DEF LoadLog, TypeOK
    <2>10. CASE StoreApplied(w)
      <3>1. Head(work[w].script).event = "add" => Ticked(Head(work[w].script).ov)
        BY <2>0, <2>10, HeadApproved DEF StoreApplied, TypeOK
      <3>2. \A o \in applied' : Ticked(o)
        BY <2>0, <2>10, <3>1 DEF StoreApplied, AppliedAfter, ApprovedThread
      <3>3. \A v \in Workers : ApprovedThread(work'[v])
        BY <2>10, StoredApproved DEF StoreApplied
      <3>4. approvals' = approvals /\ logs' = logs
        BY <2>10 DEF StoreApplied
      <3>5. \A l \in Logs : ApprovedLog(logs[l])'
        BY <3>4, <1>a DEF ApprovedInv, ApprovedLog
      <3>6. \A v \in Workers : ApprovedThread(work[v])'
        BY <3>3, <3>4, <1>a DEF ApprovedThread, ApprovedLog, ApprovedScript, Ticked
      <3>7. \A o \in applied' : Ticked(o)'
        BY <3>2, <3>4, <1>a
      <3>8. QED
        BY <3>5, <3>6, <3>7 DEF ApprovedInv
    <2>11. CASE StoreLog(w)
      <3>1. Head(work[w].script).event = "applied" => Ticked(Head(work[w].script).ov)
        BY <2>0, <2>11, HeadApproved DEF StoreLog, TypeOK
      <3>2. work[w].logCopy \in Seq(Entry) /\ ApprovedLog(work[w].logCopy)
        BY <2>0 DEF WorkSet, ApprovedThread
      <3>3. ApprovedLog(WithEntry(work[w].logCopy, NewEntry(w)))
        BY <3>1, <3>2 DEF WithEntry, NewEntry, ApprovedLog
      <3>4. \A l \in Logs : ApprovedLog(logs'[l])
        BY <2>11, <3>3 DEF StoreLog, TypeOK, ApprovedInv
      <3>5. \A v \in Workers : ApprovedThread(work'[v])
        BY <2>11, StoredApproved DEF StoreLog
      <3>6. approvals' = approvals /\ applied' = applied
        BY <2>11 DEF StoreLog
      <3>7. \A l \in Logs : ApprovedLog(logs[l])'
        BY <3>4, <3>6, <1>a DEF ApprovedLog
      <3>8. \A v \in Workers : ApprovedThread(work[v])'
        BY <3>5, <3>6, <1>a DEF ApprovedThread, ApprovedLog, ApprovedScript, Ticked
      <3>9. \A o \in applied' : Ticked(o)'
        BY <3>6, <1>a DEF ApprovedInv
      <3>10. QED
        BY <3>7, <3>8, <3>9 DEF ApprovedInv
    <2>12. CASE WriteFails(w)
      BY <2>12, <1>0, ApprovedLocal DEF WriteFails, TypeOK
    <2>13. QED
      BY <1>3, <2>1, <2>2, <2>3, <2>4, <2>5, <2>6, <2>7, <2>8, <2>9, <2>10, <2>11, <2>12
      DEF Step
  <1>4. QED
    BY <1>1, <1>2, <1>3 DEF Next

\* Whatever the threads, the failed writes and the crashes do, an override is
\* in the applied set or in the ledger only if an admin ticked its function.
THEOREM AlwaysHumanApproved == Spec => []HumanApproved
  <1>1. ApprovedInv => HumanApproved
    BY DEF ApprovedInv, ApprovedLog, HumanApproved, About, Logs
  <1>2. QED
    BY <1>1, ApprovedInit, ApprovedNext, TypeCorrect, PTL DEF Spec

-----------------------------------------------------------------------------
(* No name twice in the applied set.                                       *)

LEMMA AppliedAfterNoTwins ==
  ASSUME NEW copy, NoTwins(copy), NEW call
  PROVE  NoTwins(AppliedAfter(copy, call))
  BY DEF NoTwins, AppliedAfter

LEMMA NamesNext == TypeOK /\ NamesInv /\ [Next]_vars => NamesInv'
  <1> SUFFICES ASSUME TypeOK, NamesInv, [Next]_vars
               PROVE  NamesInv'
    OBVIOUS
  <1>0. NoTwins({})
    BY DEF NoTwins
  <1>1. ASSUME NEW w \in Workers, UNCHANGED applied,
               \A v \in Workers \ {w} : work'[v].appliedCopy = work[v].appliedCopy,
               work'[w].appliedCopy \in {{}, applied, work[w].appliedCopy}
        PROVE  NamesInv'
    BY <1>0, <1>1 DEF NamesInv, NoTwins, NameOf
  <1>2. CASE UNCHANGED vars
    BY <1>2 DEF vars, NamesInv, NoTwins, NameOf
  <1>3. CASE Crash
    BY <1>0, <1>3 DEF Crash, Idle, NamesInv, NoTwins, NameOf
  <1>4. ASSUME NEW w \in Workers, Step(w)
        PROVE  NamesInv'
    <2>1. CASE ShowReview(w)
      BY <1>1, <2>1 DEF ShowReview
    <2>2. CASE PostReview(w)
      BY <1>1, <2>2 DEF PostReview, Review, Idle, TypeOK
    <2>3. CASE PostRollback(w)
      BY <1>1, <2>3 DEF PostRollback, Rollback, Idle, TypeOK
    <2>4. CASE NextVerdict(w)
      BY <1>1, <2>4 DEF NextVerdict, TypeOK, WorkSet
    <2>5. CASE NextOverride(w)
      BY <1>1, <2>5 DEF NextOverride, TypeOK, WorkSet
    <2>6. CASE Summarize(w)
      BY <1>1, <2>6 DEF Summarize, TypeOK, WorkSet
    <2>7. CASE Respond(w)
      BY <1>1, <2>7 DEF Respond, Idle, TypeOK
    <2>8. CASE LoadApplied(w)
      BY <1>1, <2>8 DEF LoadApplied, TypeOK, WorkSet
    <2>9. CASE LoadLog(w)
      BY <1>1, <2>9 DEF LoadLog, TypeOK, WorkSet
    <2>10. CASE StoreApplied(w)
      <3>1. NoTwins(applied')
        BY <2>10, AppliedAfterNoTwins DEF StoreApplied, NamesInv
      <3>2. \A v \in Workers : work'[v].appliedCopy \in {{}, work[v].appliedCopy}
        BY <2>10 DEF StoreApplied, Stored, TypeOK, WorkSet
      <3>3. QED
        BY <3>1, <3>2, <1>0 DEF NamesInv, NoTwins, NameOf
    <2>11. CASE StoreLog(w)
      BY <1>1, <2>11 DEF StoreLog, Stored, TypeOK, WorkSet
    <2>12. CASE WriteFails(w)
      BY <1>1, <2>12 DEF WriteFails, Idle, TypeOK
    <2>13. QED
      BY <1>4, <2>1, <2>2, <2>3, <2>4, <2>5, <2>6, <2>7, <2>8, <2>9, <2>10, <2>11, <2>12
      DEF Step
  <1>5. QED
    BY <1>2, <1>3, <1>4 DEF Next

\* Racing applies never leave one override name twice in the applied set, so
\* a rollback by name always means one override.
THEOREM NamesStayUnique == Spec => []UniqueNames
  <1>1. Init => NamesInv
    BY DEF Init, Idle, NamesInv, NoTwins
  <1>2. NamesInv => UniqueNames
    BY DEF NamesInv, NoTwins, UniqueNames
  <1>3. QED
    BY <1>1, <1>2, NamesNext, TypeCorrect, PTL DEF Spec

-----------------------------------------------------------------------------
(* The logs stay chronological.                                            *)

LEMMA EntryStamps ==
  ASSUME TypeOK, NEW l \in Logs, NEW i \in DOMAIN logs[l]
  PROVE  logs[l][i].at \in Nat
  <1>1. logs[l] \in Seq(Entry)
    BY DEF TypeOK
  <1>2. logs[l][i] \in Entry
    BY <1>1
  <1>3. QED
    BY <1>2 DEF Entry

LEMMA AppendInOrder ==
  ASSUME NEW log \in Seq(Entry), InOrder(log), NEW e \in Entry,
         \A i \in DOMAIN log : log[i].at < e.at
  PROVE  InOrder(WithEntry(log, e))
  BY DEF InOrder, WithEntry, Entry

\* A step that rewrites no log only has to account for its own thread.
LEMMA OrderLocal ==
  ASSUME TypeOK, TypeOK', OrderInv, NEW w \in Workers, UNCHANGED logs,
         clock <= clock', OrderedThread(work[w])',
         \A v \in Workers \ {w} : work'[v] = work[v]
  PROVE  OrderInv'
  <1>1. \A l \in Logs : InOrder(logs'[l]) /\ \A i \in DOMAIN logs'[l] : logs'[l][i].at <= clock'
    <2>1. ASSUME NEW l \in Logs, NEW i \in DOMAIN logs[l]
          PROVE  logs[l][i].at <= clock'
      BY EntryStamps DEF OrderInv, TypeOK
    <2>2. QED
      BY <2>1 DEF OrderInv
  <1>2. ASSUME NEW v \in Workers PROVE OrderedThread(work[v])'
    <2>1. CASE v = w
      BY <2>1
    <2>2. CASE v # w
      <3>1. work'[v] = work[v] /\ OrderedThread(work[v]) /\ work[v] \in WorkSet
        BY <2>2 DEF OrderInv, TypeOK
      <3>2. work[v].at <= clock'
        BY <3>1 DEF OrderedThread, WorkSet, TypeOK
      <3>3. QED
        BY <3>1, <3>2 DEF OrderedThread, InOrder
    <2>3. QED
      BY <2>1, <2>2
  <1>3. QED
    BY <1>1, <1>2 DEF OrderInv

LEMMA SameCopy ==
  ASSUME NEW w \in Workers, OrderedThread(work[w]), clock' = clock,
         work'[w].at = work[w].at, work'[w].logCopy = work[w].logCopy
  PROVE  OrderedThread(work[w])'
  BY DEF OrderedThread, InOrder

LEMMA StoredOrdered ==
  ASSUME TypeOK, TypeOK', NEW w \in Workers, Stored(w), clock' = clock
  PROVE  OrderedThread(work[w])'
  <1>1. work'[w].at = 0 /\ work'[w].logCopy = <<>>
    BY DEF Stored, TypeOK, WorkSet
  <1>2. QED
    BY <1>1 DEF OrderedThread, InOrder, TypeOK

LEMMA OrderNext == TypeOK /\ OrderInv /\ [Next]_vars => OrderInv'
  <1> SUFFICES ASSUME TypeOK, OrderInv, [Next]_vars
               PROVE  OrderInv'
    OBVIOUS
  <1>0. TypeOK'
    BY TypeNext
  <1>a. OrderedThread(Idle)'
    BY <1>0 DEF Idle, OrderedThread, InOrder, TypeOK
  <1>1. CASE UNCHANGED vars
    BY <1>1 DEF vars, OrderInv, OrderedThread, InOrder
  <1>2. CASE Crash
    BY <1>2, <1>a DEF Crash, OrderInv
  <1>3. ASSUME NEW w \in Workers, Step(w)
        PROVE  OrderInv'
    <2>0. OrderedThread(work[w]) /\ work[w] \in WorkSet /\ clock <= clock
      BY DEF OrderInv, TypeOK
    <2> USE <1>0, <1>a, OrderLocal
    <2>1. CASE ShowReview(w)
      BY <2>0, <2>1 DEF ShowReview, OrderedThread
    <2>2. CASE PostReview(w)
      BY <2>0, <2>2 DEF PostReview, Review, Idle, OrderedThread, TypeOK
    <2>3. CASE PostRollback(w)
      BY <2>0, <2>3 DEF PostRollback, Rollback, Idle, OrderedThread, TypeOK
    <2>4. CASE NextVerdict(w)
      <3>1. PICK o \in work[w].review :
              work' = [work EXCEPT ![w].review = @ \ {o},
                                   ![w].script = ReviewCalls(o, o \in work[w].ticked)]
        BY <2>4 DEF NextVerdict
      <3>2. work'[w].at = work[w].at /\ work'[w].logCopy = work[w].logCopy
        BY <2>0, <3>1 DEF TypeOK, WorkSet
      <3>3. QED
        BY <2>0, <2>4, <3>1, <3>2, SameCopy DEF NextVerdict, TypeOK
    <2>5. CASE NextOverride(w)
      <3>1. PICK o \in work[w].apply :
              work' = [work EXCEPT ![w].apply = @ \ {o}, ![w].script = ApplyCalls(o)]
        BY <2>5 DEF NextOverride
      <3>2. work'[w].at = work[w].at /\ work'[w].logCopy = work[w].logCopy
        BY <2>0, <3>1 DEF TypeOK, WorkSet
      <3>3. QED
        BY <2>0, <2>5, <3>1, <3>2, SameCopy DEF NextOverride, TypeOK
    <2>6. CASE Summarize(w)
      BY <2>0, <2>6, SameCopy DEF Summarize, TypeOK, WorkSet
    <2>7. CASE Respond(w)
      BY <2>0, <2>7 DEF Respond, TypeOK
    <2>8. CASE LoadApplied(w)
      BY <2>0, <2>8, SameCopy DEF LoadApplied, TypeOK, WorkSet
    <2>9. CASE LoadLog(w)
      <3>1. PICK l \in Logs :
              work' = [work EXCEPT ![w] = [@ EXCEPT !.phase = "store", !.at = clock', !.logCopy = logs[l]]]
        BY <2>9 DEF LoadLog
      <3>2. clock' = clock + 1
        BY <2>9 DEF LoadLog
      <3>3. work'[w].at = clock' /\ work'[w].logCopy = logs[l]
        BY <2>0, <3>1 DEF TypeOK, WorkSet
      <3>4. \A i \in DOMAIN logs[l] : logs[l][i].at \in Nat /\ logs[l][i].at <= clock
        BY EntryStamps DEF OrderInv
      <3>5. OrderedThread(work[w])'
        BY <3>2, <3>3, <3>4 DEF OrderedThread, OrderInv, InOrder, TypeOK
      <3>6. QED
        BY <2>9, <3>1, <3>2, <3>5 DEF LoadLog, TypeOK
    <2>10. CASE StoreApplied(w)
      BY <2>0, <2>10, StoredOrdered DEF StoreApplied, Stored, TypeOK
    <2>11. CASE StoreLog(w)
      <3>1. NewEntry(w) \in Entry
        <4>1. work[w].script # <<>> /\ Head(work[w].script) \in CallSet
          BY <2>11 DEF StoreLog, TypeOK, WorkSet
        <4>2. QED
          BY <2>11, <4>1 DEF StoreLog, NewEntry, Entry, CallSet, Logs, TypeOK, WorkSet
      <3> DEFINE new == WithEntry(work[w].logCopy, NewEntry(w))
      <3>2. InOrder(new)
        BY <2>0, <3>1, AppendInOrder DEF OrderedThread, WorkSet, NewEntry
      <3>3. \A i \in DOMAIN new : new[i].at <= clock
        <4>1. work[w].logCopy \in Seq(Entry) /\ work[w].at \in Nat /\ clock \in Nat
          BY <2>0 DEF WorkSet, TypeOK
        <4>2. \A i \in DOMAIN work[w].logCopy : work[w].logCopy[i] \in Entry
          BY <4>1
        <4>3. \A i \in DOMAIN work[w].logCopy : work[w].logCopy[i].at <= clock
          BY <2>0, <4>1, <4>2 DEF OrderedThread, Entry
        <4>4. NewEntry(w).at <= clock
          BY <2>0 DEF NewEntry, OrderedThread
        <4>5. QED
          BY <4>1, <4>3, <4>4 DEF WithEntry
      <3> HIDE DEF new
      <3>4. \A l \in Logs : InOrder(logs'[l]) /\ \A i \in DOMAIN logs'[l] : logs'[l][i].at <= clock'
        BY <2>11, <3>2, <3>3 DEF StoreLog, OrderInv, TypeOK, new
      <3>5. \A v \in Workers : OrderedThread(work[v])'
        BY <2>0, <2>11, StoredOrdered DEF StoreLog, Stored, OrderInv, OrderedThread, TypeOK
      <3>6. QED
        BY <3>4, <3>5 DEF OrderInv
    <2>12. CASE WriteFails(w)
      BY <2>0, <2>12 DEF WriteFails, TypeOK
    <2>13. QED
      BY <1>3, <2>1, <2>2, <2>3, <2>4, <2>5, <2>6, <2>7, <2>8, <2>9, <2>10, <2>11, <2>12
      DEF Step
  <1>4. QED
    BY <1>1, <1>2, <1>3 DEF Next

\* Readers of a log may take its order for the order of events: racing
\* writers can drop entries but never misplace one.
THEOREM LogsChronological == Spec => []Chronological
  <1>1. Init => OrderInv
    BY DEF Init, Idle, OrderInv, OrderedThread, InOrder, Logs
  <1>2. OrderInv => Chronological
    BY DEF OrderInv, Chronological
  <1>3. QED
    BY <1>1, <1>2, OrderNext, TypeCorrect, PTL DEF Spec
=============================================================================
