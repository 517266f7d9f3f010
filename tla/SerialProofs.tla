----------------------------- MODULE SerialProofs -----------------------------
(***************************************************************************)
(* What Lifecycle guarantees when requests are served one after another:   *)
(* the accuracy of the ledger, the order in which the files account for an *)
(* override, and the refinement of OverrideLog, for any functions, roles   *)
(* and number of requests.  Each theorem names the failures it excludes.   *)
(***************************************************************************)
EXTENDS LifecycleProofs, FiniteSetTheorems, SequenceTheorems

\* One request at a time: the development server without its threads.
Serial == \A v, w \in Workers : v = w

\* No two qualified names of the project differ by "." and "_" only.
DistinctNamesMangled == \A f, g \in Functions : Mangle[f] = Mangle[g] => f = g

-----------------------------------------------------------------------------
(* The inductive invariants.                                               *)

LedgerCallOf(c) ==
  Call("ledger", IF c.event = "add" THEN "applied" ELSE "rolled_back", c.ov)

\* A change of the applied set is the first call of its script, the entry
\* that accounts for it the next one, and a rolled-back entry is followed by
\* the feedback about it.  A run summary is a script of its own.
Chained(s) ==
  /\ \A i \in DOMAIN s : s[i].file = "applied" =>
       /\ i = 1
       /\ 2 \in DOMAIN s
       /\ s[2] = LedgerCallOf(s[1])
  /\ \A i \in DOMAIN s : s[i].file = "ledger" =>
       /\ s[i].event \in {"applied", "rolled_back"}
       /\ i = 1 \/ (i = 2 /\ s[1].file = "applied")
       /\ s[i].event = "rolled_back" =>
            i + 1 \in DOMAIN s /\ s[i + 1] = Call("feedback", "rolled_back", s[i].ov)
  /\ \A i \in DOMAIN s : s[i].file = "feedback" /\ s[i].event = "rolled_back" /\ i # 1 =>
       s[i - 1] = Call("ledger", "rolled_back", s[i].ov)
  /\ \A i \in DOMAIN s : s[i].file = "history" => Len(s) = 1

\* The copies read are still what the files hold, and nothing is stamped
\* later than the entry about to be written.
CurrentCopies(t) ==
  t.phase = "store" =>
    /\ Head(t.script).file = "applied" => t.appliedCopy = applied
    /\ Head(t.script).file \in Logs =>
         /\ t.logCopy = logs[Head(t.script).file]
         /\ \A l \in Logs : \A i \in DOMAIN logs[l] : logs[l][i].at < t.at

\* A request creates the records of its own number and retires older ones.
OwnRecords(t) ==
  /\ t.phase # "idle" => 1 <= t.req /\ t.req <= requests
  /\ \A o \in t.review \cup t.apply : o.req = t.req
  /\ \A i \in DOMAIN t.script :
       /\ t.script[i].ov.req <= t.req
       /\ t.script[i].event \in {"add", "approved"} => t.script[i].ov.req = t.req
       /\ t.script[i].event \in {"remove", "rolled_back"} => t.script[i].ov.req < t.req
       /\ t.script[i].event = "run" => t.script[i].ov.req = t.req

Numbered ==
  /\ requests <= MaxRequests
  /\ \A o \in applied : 1 <= o.req /\ o.req <= requests
  /\ \A l \in Logs : \A i \in DOMAIN logs[l] : logs[l][i].ov.req <= requests

RequestInv ==
  /\ Numbered
  /\ \A w \in Workers :
       /\ work[w].phase = "idle" => work[w] = Idle
       /\ Chained(work[w].script)
       /\ OwnRecords(work[w])
       /\ CurrentCopies(work[w])

\* EvidenceFirst, and the evidence for what is still to be applied.
Evidenced(o) ==
  \E j \in DOMAIN logs["feedback"] :
    logs["feedback"][j].event = "approved" /\ logs["feedback"][j].ov = o

EvidenceThread(t) ==
  /\ t.apply \subseteq t.ticked
  /\ \A o \in t.apply :
       \/ o \in t.review
       \/ \E i \in DOMAIN t.script : t.script[i] = Call("feedback", "approved", o)
       \/ Evidenced(o)
  /\ \A i \in DOMAIN t.script :
       t.script[i].event \in {"add", "applied"} => Evidenced(t.script[i].ov)

EvidenceInv == EvidenceFirst /\ \A w \in Workers : EvidenceThread(work[w])

\* SummaryIsFinal, and where the overrides approved by the running request are.
SummaryThread(t) ==
  /\ t.apply \subseteq t.ticked
  /\ t.review # {} => t.apply = t.ticked
  /\ \A i \in DOMAIN t.script :
       /\ t.script[i].event = "approved" => t.script[i].ov \in t.apply
       /\ t.script[i].event = "run" => t.review = {} /\ t.ticked = {}
  /\ \A o \in About("feedback", "approved") :
       o.req = t.req /\ t.phase # "idle" =>
         \/ o \in t.apply
         \/ \E i \in DOMAIN t.script : t.script[i] = Call("ledger", "applied", o)
         \/ o \in About("ledger", "applied")
  /\ \A h \in About("history", "run") :
       h.req = t.req /\ t.phase # "idle" =>
         t.script = <<>> /\ t.review = {} /\ t.ticked = {}

SummaryInv == SummaryIsFinal /\ \A w \in Workers : SummaryThread(work[w])

\* RollbackEffective, and the record a rollback in flight is about to retire.
RollbackThread(t) ==
  /\ \A i \in DOMAIN t.script :
       t.script[i] = Call("ledger", "rolled_back", t.script[i].ov) =>
         t.script[i].ov \notin applied \/ t.script[1] = Call("applied", "remove", t.script[i].ov)
  /\ t.phase # "idle" => \A o \in About("ledger", "rolled_back") : o.req < t.req

RollbackInv == RollbackEffective /\ \A w \in Workers : RollbackThread(work[w])

\* FeedbackMatchesLedger, up to the feedback entry that is due next.
FeedbackDue ==
  {work[w].script[1].ov : w \in {v \in Workers :
     work[v].script # <<>> /\ work[v].script[1] = Call("feedback", "rolled_back", work[v].script[1].ov)}}

FeedbackInv ==
  About("feedback", "rolled_back") \cup FeedbackDue = About("ledger", "rolled_back")

\* The overrides the ledger will show as active once the entry due is in.
SoonActive ==
  {o \in LedgerActive : \A c \in DueCalls : c.ov.fn # o.fn}
  \cup {c.ov : c \in {d \in DueCalls : d.event = "applied"}}

\* What a request may still activate is new, and what it retires is active.
PlannedThread(t) ==
  /\ \A o, p \in t.apply : o.fn = p.fn => o = p
  /\ \A o \in t.apply, a \in SoonActive : a.fn # o.fn
  /\ \A i \in DOMAIN t.script : t.script[i].event = "add" =>
       \A a \in SoonActive \cup t.apply : a.fn # t.script[i].ov.fn
  /\ \A i \in DOMAIN t.script : t.script[i].event = "remove" => t.script[i].ov \in applied

PlanInv == \A w \in Workers : PlannedThread(work[w])

LedgerInv == PlanInv /\ SoonActive = applied

\* The functions whose overrides and ledger entries do not tally: a crash
\* can add one, and nothing else does.
Settled(f) ==
  /\ (\E a \in applied : a.fn = f) <=> (\E o \in SoonActive : o.fn = f)
  /\ \A a, b \in applied : a.fn = f /\ b.fn = f => a = b

Unsettled == {f \in Functions : ~ Settled(f)}

DriftInv == PlanInv /\ IsFiniteSet(Unsettled) /\ Cardinality(Unsettled) <= crashes

-----------------------------------------------------------------------------
(* What each action does to the request it serves.                         *)

LEMMA ReviewEffect ==
  ASSUME TypeOK, NEW w \in Workers, PostReview(w)
  PROVE  /\ requests' = requests + 1 /\ requests' <= MaxRequests
         /\ work'[w].phase = "load" /\ work'[w].script = <<>> /\ work'[w].req = requests'
         /\ work'[w].apply \subseteq work'[w].review /\ work'[w].ticked = work'[w].apply
         /\ \A o \in work'[w].review : o.req = requests' /\ o.fn \in Functions \ AlreadyLearned
         /\ \A o, p \in work'[w].review : o.fn = p.fn => o = p
  <1>1. PICK p \in Proposals, ticked \in SUBSET DOMAIN screen[w] :
          work' = [work EXCEPT ![w] = Review(Verdicts(p, requests'), ticked, requests')]
    BY DEF PostReview
  <1>2. work'[w] = Review(Verdicts(p, requests'), ticked, requests')
    BY <1>1 DEF TypeOK
  <1>3. DOMAIN p \subseteq Functions \ AlreadyLearned
    BY DEF Proposals
  <1>4. requests' = requests + 1 /\ requests' <= MaxRequests
    BY BoundsAssumption DEF PostReview, TypeOK
  <1>5. /\ \A o \in Verdicts(p, requests') : o.req = requests' /\ o.fn \in Functions \ AlreadyLearned
        /\ \A o, q \in Verdicts(p, requests') : o.fn = q.fn => o = q
    BY <1>3 DEF Verdicts
  <1>6. Approved(Verdicts(p, requests'), ticked) \subseteq Verdicts(p, requests')
    BY DEF Approved
  <1>7. /\ work'[w].phase = "load" /\ work'[w].script = <<>> /\ work'[w].req = requests'
        /\ work'[w].review = Verdicts(p, requests')
        /\ work'[w].apply = Approved(Verdicts(p, requests'), ticked)
        /\ work'[w].ticked = Approved(Verdicts(p, requests'), ticked)
    BY <1>2 DEF Review, Idle
  <1>8. QED
    BY <1>4, <1>5, <1>6, <1>7

LEMMA RollbackEffect ==
  ASSUME TypeOK, NEW w \in Workers, PostRollback(w)
  PROVE  /\ requests' = requests + 1 /\ requests' <= MaxRequests
         /\ \E o \in applied :
              /\ work'[w].script = RollbackCalls(o) /\ work'[w].appliedCopy = applied
              /\ work'[w].phase = "store" /\ work'[w].req = requests'
              /\ work'[w].review = {} /\ work'[w].ticked = {} /\ work'[w].apply = {}
  <1>1. PICK o \in applied : work' = [work EXCEPT ![w] = Rollback(o, requests + 1)]
    BY DEF PostRollback
  <1>2. work'[w] = Rollback(o, requests + 1)
    BY <1>1 DEF TypeOK
  <1>3. requests' = requests + 1 /\ requests' <= MaxRequests
    BY BoundsAssumption DEF PostRollback, TypeOK
  <1>4. /\ work'[w].script = RollbackCalls(o) /\ work'[w].appliedCopy = applied
        /\ work'[w].phase = "store" /\ work'[w].req = requests'
        /\ work'[w].review = {} /\ work'[w].ticked = {} /\ work'[w].apply = {}
    BY <1>2, <1>3 DEF Rollback, Idle
  <1>5. QED
    BY <1>3, <1>4

LEMMA VerdictEffect ==
  ASSUME TypeOK, NEW w \in Workers, NextVerdict(w)
  PROVE  \E o \in work[w].review :
           /\ work'[w].script = ReviewCalls(o, o \in work[w].ticked)
           /\ work'[w].review = work[w].review \ {o}
           /\ work'[w].phase = "load" /\ work'[w].req = work[w].req
           /\ work'[w].ticked = work[w].ticked /\ work'[w].apply = work[w].apply
  BY DEF NextVerdict, TypeOK, WorkSet

LEMMA OverrideEffect ==
  ASSUME TypeOK, NEW w \in Workers, NextOverride(w)
  PROVE  \E o \in work[w].apply :
           /\ work'[w].script = ApplyCalls(o) /\ work'[w].apply = work[w].apply \ {o}
           /\ work'[w].phase = "load" /\ work'[w].req = work[w].req
           /\ work'[w].ticked = work[w].ticked /\ work'[w].review = work[w].review
  BY DEF NextOverride, TypeOK, WorkSet

LEMMA SummaryEffect ==
  ASSUME TypeOK, NEW w \in Workers, Summarize(w)
  PROVE  /\ work'[w].script = <<Call("history", "run", Run(work[w].req))>>
         /\ work'[w].phase = "load" /\ work'[w].req = work[w].req
         /\ work'[w].ticked = {} /\ work'[w].review = {} /\ work'[w].apply = {}
  BY DEF Summarize, TypeOK, WorkSet

LEMMA IdleEffect ==
  ASSUME TypeOK, NEW w \in Workers, Respond(w) \/ WriteFails(w)
  PROVE  work'[w] = Idle
  BY DEF Respond, WriteFails, TypeOK

\* Reading a file leaves the plan of the request as it is.
LEMMA LoadEffect ==
  ASSUME TypeOK, NEW w \in Workers, LoadApplied(w) \/ LoadLog(w)
  PROVE  /\ work[w].phase = "load" /\ work'[w].phase = "store"
         /\ work'[w].script = work[w].script /\ work'[w].req = work[w].req
         /\ work'[w].review = work[w].review /\ work'[w].ticked = work[w].ticked
         /\ work'[w].apply = work[w].apply
  <1>1. CASE LoadApplied(w)
    BY <1>1 DEF LoadApplied, TypeOK, WorkSet
  <1>2. CASE LoadLog(w)
    <2>1. PICK c :
            work' = [work EXCEPT ![w] = [@ EXCEPT !.phase = "store", !.at = clock', !.logCopy = c]]
      BY <1>2 DEF LoadLog
    <2>2. work[w].phase = "load"
      BY <1>2 DEF LoadLog
    <2>3. QED
      BY <2>1, <2>2 DEF TypeOK, WorkSet
  <1>3. QED
    BY <1>1, <1>2

\* A call that is through leaves the rest of the script.
LEMMA StoreEffect ==
  ASSUME TypeOK, NEW w \in Workers, work[w].phase = "store", Stored(w)
  PROVE  /\ work'[w].phase = "load" /\ work'[w].req = work[w].req
         /\ work'[w].review = work[w].review /\ work'[w].ticked = work[w].ticked
         /\ work'[w].apply = work[w].apply
         /\ Head(work[w].script) = work[w].script[1] /\ 1 \in DOMAIN work[w].script
         /\ Head(work[w].script) \in CallSet
         /\ work'[w].script = Tail(work[w].script)
         /\ \A i \in DOMAIN work'[w].script :
              /\ i + 1 \in DOMAIN work[w].script /\ i + 1 # 1
              /\ work'[w].script[i] = work[w].script[i + 1]
         /\ \A i \in DOMAIN work[w].script :
              i # 1 => i - 1 \in DOMAIN work'[w].script /\ work'[w].script[i - 1] = work[w].script[i]
  <1>1. work[w].script \in Seq(CallSet) /\ work[w].script # <<>>
    BY DEF TypeOK, WorkSet
  <1>2. /\ work'[w].phase = "load" /\ work'[w].req = work[w].req
        /\ work'[w].review = work[w].review /\ work'[w].ticked = work[w].ticked
        /\ work'[w].apply = work[w].apply /\ work'[w].script = Tail(work[w].script)
    BY DEF Stored, TypeOK, WorkSet
  <1>3. QED
    BY <1>1, <1>2

LEMMA RunScript ==
  ASSUME NEW r
  PROVE  /\ DOMAIN <<Call("history", "run", r)>> = {1}
         /\ Len(<<Call("history", "run", r)>>) = 1
         /\ <<Call("history", "run", r)>>[1] = Call("history", "run", r)
  OBVIOUS

LEMMA NewChained ==
  ASSUME NEW o, NEW yes \in BOOLEAN, NEW r
  PROVE  /\ Chained(<<>>)
         /\ Chained(ReviewCalls(o, yes))
         /\ Chained(ApplyCalls(o))
         /\ Chained(RollbackCalls(o))
         /\ Chained(<<Call("history", "run", r)>>)
  <1>1. Chained(<<>>)
    BY DEF Chained
  <1>2. Chained(ReviewCalls(o, yes))
    <2> DEFINE s == ReviewCalls(o, yes)
    <2>1. /\ DOMAIN s = {1, 2}
          /\ s[1].file = "feedback" /\ s[1].event # "rolled_back" /\ s[2].file = "training"
      BY DEF ReviewCalls, Call
    <2> HIDE DEF s
    <2>2. \A i \in DOMAIN s : s[i].file \in {"feedback", "training"} /\ (s[i].file = "feedback" => s[i].event # "rolled_back")
      BY <2>1
    <2>3. QED
      BY <2>2 DEF Chained, s
  <1>3. Chained(ApplyCalls(o))
    <2> DEFINE s == ApplyCalls(o)
    <2>1. /\ DOMAIN s = {1, 2}
          /\ s[1].file = "applied"
          /\ s[2].file = "ledger" /\ s[2].event = "applied"
          /\ s[2] = LedgerCallOf(s[1])
      BY DEF ApplyCalls, Call, LedgerCallOf
    <2> HIDE DEF s
    <2>2. QED
      BY <2>1 DEF Chained, s
  <1>4. Chained(RollbackCalls(o))
    <2> DEFINE s == RollbackCalls(o)
    <2>1. /\ DOMAIN s = {1, 2, 3, 4}
          /\ s[1].file = "applied"
          /\ s[2].file = "ledger" /\ s[2].event = "rolled_back" /\ s[2] = LedgerCallOf(s[1])
          /\ s[3].file = "feedback" /\ s[3] = Call("feedback", "rolled_back", s[2].ov)
          /\ s[2] = Call("ledger", "rolled_back", s[3].ov)
          /\ s[4].file = "training"
      BY DEF RollbackCalls, Call, LedgerCallOf
    <2> HIDE DEF s
    <2>2. QED
      BY <2>1 DEF Chained, s
  <1>5. Chained(<<Call("history", "run", r)>>)
    <2> DEFINE s == <<Call("history", "run", r)>>
    <2>1. DOMAIN s = {1} /\ Len(s) = 1 /\ s[1].file = "history"
      BY RunScript DEF Call
    <2> HIDE DEF s
    <2>2. QED
      BY <2>1 DEF Chained, s
  <1>6. QED
    BY <1>1, <1>2, <1>3, <1>4, <1>5

LEMMA TailChained ==
  ASSUME NEW s \in Seq(CallSet), s # <<>>, Chained(s)
  PROVE  Chained(Tail(s))
  <1>1. /\ \A i \in DOMAIN Tail(s) : i + 1 \in DOMAIN s /\ Tail(s)[i] = s[i + 1] /\ i \in Nat \ {0}
        /\ \A i \in DOMAIN s : i \in Nat /\ (i # 1 => i - 1 \in DOMAIN Tail(s))
        /\ Len(Tail(s)) = Len(s) - 1 /\ DOMAIN s = 1 .. Len(s)
    OBVIOUS
  <1>2. \A i \in DOMAIN Tail(s) : Tail(s)[i].file # "applied"
    BY <1>1 DEF Chained
  <1>3. ASSUME NEW i \in DOMAIN Tail(s), Tail(s)[i].file = "ledger"
        PROVE  /\ i = 1
               /\ Tail(s)[i].event \in {"applied", "rolled_back"}
               /\ Tail(s)[i].event = "rolled_back" =>
                    i + 1 \in DOMAIN Tail(s) /\ Tail(s)[i + 1] = Call("feedback", "rolled_back", Tail(s)[i].ov)
    <2>1. i + 1 \in DOMAIN s /\ Tail(s)[i] = s[i + 1] /\ i \in Nat \ {0}
      BY <1>1
    <2>2. i = 1
      BY <1>3, <2>1 DEF Chained
    <2>3. s[i + 1].event \in {"applied", "rolled_back"}
      BY <1>3, <2>1 DEF Chained
    <2>4. ASSUME s[2].event = "rolled_back"
          PROVE  3 \in DOMAIN s /\ s[3] = Call("feedback", "rolled_back", s[2].ov)
      BY <1>3, <2>1, <2>2, <2>4 DEF Chained
    <2>5. QED
      BY <1>1, <2>1, <2>2, <2>3, <2>4
  <1>4. ASSUME NEW i \in DOMAIN Tail(s), Tail(s)[i].file = "feedback",
               Tail(s)[i].event = "rolled_back", i # 1
        PROVE  Tail(s)[i - 1] = Call("ledger", "rolled_back", Tail(s)[i].ov)
    <2>1. i + 1 \in DOMAIN s /\ Tail(s)[i] = s[i + 1] /\ i \in Nat \ {0}
      BY <1>1
    <2>2. s[i] = Call("ledger", "rolled_back", s[i + 1].ov)
      BY <1>4, <2>1 DEF Chained
    <2>3. i - 1 \in DOMAIN Tail(s) /\ Tail(s)[i - 1] = s[i]
      BY <1>1, <1>4, <2>1
    <2>4. QED
      BY <2>1, <2>2, <2>3
  <1>5. \A i \in DOMAIN Tail(s) : Tail(s)[i].file # "history"
    BY <1>1 DEF Chained
  <1>6. QED
    BY <1>2, <1>3, <1>4, <1>5 DEF Chained

-----------------------------------------------------------------------------
(* The shape of a request, its copies and its numbers.                     *)

LEMMA NumberTypes ==
  ASSUME TypeOK
  PROVE  /\ requests \in Nat
         /\ \A o \in applied : o.req \in Nat
         /\ \A l \in Logs : \A i \in DOMAIN logs[l] : logs[l][i] \in Entry /\ logs[l][i].ov.req \in Nat
         /\ \A w \in Workers :
              /\ work[w].req \in Nat
              /\ \A i \in DOMAIN work[w].script :
                   work[w].script[i] \in CallSet /\ work[w].script[i].ov.req \in Nat
              /\ \A o \in work[w].review \cup work[w].apply : o \in Override /\ o.req \in Nat
  <1>1. \A s \in Subject : s.req \in Nat
    BY DEF Subject, Override
  <1>2. \A e \in Entry : e.ov.req \in Nat
    BY <1>1 DEF Entry
  <1>3. \A c \in CallSet : c.ov.req \in Nat
    BY <1>1 DEF CallSet, Override
  <1>4. \A l \in Logs : logs[l] \in Seq(Entry)
    BY DEF TypeOK
  <1>5. \A l \in Logs : \A i \in DOMAIN logs[l] : logs[l][i] \in Entry
    BY <1>4
  <1>6. \A w \in Workers : work[w].script \in Seq(CallSet) /\ work[w].req \in Nat
    BY DEF TypeOK, WorkSet
  <1>7. \A w \in Workers : \A i \in DOMAIN work[w].script : work[w].script[i] \in CallSet
    BY <1>6
  <1>8. /\ requests \in Nat
        /\ \A o \in applied : o \in Override
        /\ \A w \in Workers : \A o \in work[w].review \cup work[w].apply : o \in Override
    BY DEF TypeOK, WorkSet
  <1>9. \A o \in Override : o.req \in Nat
    BY DEF Override
  <1>10. QED
    BY <1>2, <1>3, <1>5, <1>6, <1>7, <1>8, <1>9

\* An entry or a change of the applied set of the call that is stored.
LEMMA StoreLogEffect ==
  ASSUME TypeOK, RequestInv, NEW w \in Workers, StoreLog(w)
  PROVE  LET c == work[w].script[1]
             e == [event |-> c.event, ov |-> c.ov, at |-> work[w].at]
         IN  /\ c.file \in Logs
             /\ e \in Entry
             /\ logs' = [logs EXCEPT ![c.file] = Append(logs[c.file], e)]
             /\ \A l \in Logs : \A i \in DOMAIN logs[l] : logs[l][i].at < work[w].at
             /\ applied' = applied
  <1>1. /\ work[w].phase = "store" /\ Head(work[w].script) = work[w].script[1]
        /\ Head(work[w].script) \in CallSet
    BY StoreEffect DEF StoreLog
  <1>2. /\ work[w].script[1].file \in Logs
        /\ logs' = [logs EXCEPT ![work[w].script[1].file] = WithEntry(work[w].logCopy, NewEntry(w))]
        /\ applied' = applied
    BY <1>1 DEF StoreLog
  <1>3. /\ work[w].logCopy = logs[work[w].script[1].file]
        /\ \A l \in Logs : \A i \in DOMAIN logs[l] : logs[l][i].at < work[w].at
    BY <1>1, <1>2 DEF RequestInv, CurrentCopies
  <1>4. [event |-> work[w].script[1].event, ov |-> work[w].script[1].ov, at |-> work[w].at] \in Entry
    BY <1>1, <1>2 DEF Entry, CallSet, Logs, TypeOK, WorkSet
  <1>5. QED
    BY <1>1, <1>2, <1>3, <1>4 DEF WithEntry, NewEntry

LEMMA AppliedAfterKeeps ==
  ASSUME NEW copy, NEW call, NEW o \in AppliedAfter(copy, call)
  PROVE  o \in copy \/ (o = call.ov /\ call.event = "add")
  <1>1. CASE call.event = "add"
    BY <1>1 DEF AppliedAfter
  <1>2. CASE call.event # "add"
    BY <1>2 DEF AppliedAfter
  <1>3. QED
    BY <1>1, <1>2

LEMMA StoreAppliedEffect ==
  ASSUME TypeOK, RequestInv, NEW w \in Workers, StoreApplied(w)
  PROVE  LET c == work[w].script[1]
         IN  /\ c.file = "applied" /\ c.event \in {"add", "remove"} /\ c.ov \in Override
             /\ applied' = AppliedAfter(applied, c)
             /\ logs' = logs
  <1>1. /\ work[w].phase = "store" /\ Head(work[w].script) = work[w].script[1]
        /\ Head(work[w].script) \in CallSet
    BY StoreEffect DEF StoreApplied
  <1>2. work[w].script[1].file = "applied" /\ work[w].script[1] \in CallSet /\ logs' = logs
    BY <1>1 DEF StoreApplied
  <1>3. work[w].appliedCopy = applied
    BY <1>1, <1>2 DEF RequestInv, CurrentCopies
  <1>4. applied' = AppliedAfter(applied, work[w].script[1])
    BY <1>1, <1>3 DEF StoreApplied
  <1>5. work[w].script[1].event \in {"add", "remove"} /\ work[w].script[1].ov \in Override
    BY <1>2 DEF CallSet, Logs
  <1>6. QED
    BY <1>2, <1>4, <1>5

LEMMA IdleRequest ==
  ASSUME NEW t, t = Idle
  PROVE  Chained(t.script) /\ OwnRecords(t) /\ CurrentCopies(t)
  <1>1. Chained(t.script)
    BY NewChained DEF Idle
  <1>2. t.phase = "idle" /\ t.script = <<>> /\ t.review = {} /\ t.apply = {}
    BY DEF Idle
  <1>3. QED
    BY <1>1, <1>2 DEF OwnRecords, CurrentCopies

LEMMA RequestInit == Init => RequestInv
  <1> SUFFICES ASSUME Init PROVE RequestInv
    OBVIOUS
  <1>1. \A w \in Workers : work[w] = Idle
    BY DEF Init
  <1>2. \A w \in Workers : Chained(work[w].script) /\ OwnRecords(work[w]) /\ CurrentCopies(work[w])
    BY <1>1, IdleRequest
  <1>3. Numbered
    BY BoundsAssumption DEF Init, Numbered, Logs
  <1>4. QED
    BY <1>1, <1>2, <1>3 DEF RequestInv

LEMMA RequestNext ==
  ASSUME Serial, TypeOK, OrderInv, RequestInv, [Next]_vars
  PROVE  RequestInv'
  <1>0. TypeOK'
    BY TypeNext
  <1>1. CASE UNCHANGED vars
    BY <1>1 DEF vars, RequestInv, Numbered, OwnRecords, CurrentCopies
  <1>a. ASSUME UNCHANGED <<applied, logs>>, requests' \in {requests, requests + 1}, requests' <= MaxRequests
        PROVE  Numbered'
    BY <1>a, NumberTypes DEF RequestInv, Numbered
  <1>b. requests <= MaxRequests /\ requests \in Nat
    BY NumberTypes DEF RequestInv, Numbered
  <1>2. CASE Crash
    <2>1. \A w \in Workers : work'[w] = Idle
      BY <1>2 DEF Crash
    <2>2. \A w \in Workers : Chained(work[w].script)' /\ OwnRecords(work[w])' /\ CurrentCopies(work[w])'
      BY <2>1 DEF Idle, Chained, OwnRecords, CurrentCopies
    <2>3. Numbered'
      BY <1>2, <1>a, <1>b DEF Crash
    <2>4. QED
      BY <2>1, <2>2, <2>3 DEF RequestInv
  <1>3. ASSUME NEW w \in Workers, Step(w)
        PROVE  RequestInv'
    <2>a. /\ work[w].phase = "idle" => work[w] = Idle
          /\ Chained(work[w].script) /\ OwnRecords(work[w]) /\ CurrentCopies(work[w])
      BY DEF RequestInv
    <2>b. SUFFICES /\ Numbered'
                   /\ work'[w].phase = "idle" => work'[w] = Idle
                   /\ Chained(work'[w].script)
                   /\ OwnRecords(work[w])'
                   /\ CurrentCopies(work[w])'
      BY DEF RequestInv, Serial
    <2>1. CASE ShowReview(w)
      <3>1. Numbered'
        BY <2>1, <1>a, <1>b DEF ShowReview
      <3>2. QED
        BY <2>1, <2>a, <3>1 DEF ShowReview, OwnRecords, CurrentCopies
    <2>2. CASE PostReview(w)
      <3>1. Numbered'
        BY <2>2, <1>a, ReviewEffect DEF PostReview
      <3>2. Chained(work'[w].script)
        BY <2>2, ReviewEffect, NewChained
      <3>3. OwnRecords(work[w])'
        BY <2>2, <1>b, ReviewEffect DEF OwnRecords
      <3>4. QED
        BY <2>2, <3>1, <3>2, <3>3, ReviewEffect DEF CurrentCopies
    <2>3. CASE PostRollback(w)
      <3>1. Numbered'
        BY <2>3, <1>a, RollbackEffect DEF PostRollback
      <3>2. PICK o \in applied :
              /\ work'[w].script = RollbackCalls(o) /\ work'[w].appliedCopy = applied
              /\ work'[w].phase = "store" /\ work'[w].req = requests'
              /\ work'[w].review = {} /\ work'[w].apply = {}
        BY <2>3, RollbackEffect
      <3>3. Chained(work'[w].script)
        BY <3>2, NewChained
      <3>4. o.req <= requests /\ o.req \in Nat
        BY NumberTypes DEF RequestInv, Numbered
      <3>5. OwnRecords(work[w])'
        <4>1. requests' = requests + 1
          BY <2>3, RollbackEffect
        <4>2. \A i \in DOMAIN RollbackCalls(o) :
                /\ RollbackCalls(o)[i].ov = o
                /\ RollbackCalls(o)[i].event \notin {"add", "approved", "run"}
          BY DEF RollbackCalls, Call
        <4>3. QED
          BY <1>b, <3>2, <3>4, <4>1, <4>2 DEF OwnRecords
      <3>6. Head(work'[w].script).file = "applied" /\ applied' = applied
        BY <2>3, <3>2 DEF RollbackCalls, Call, PostRollback
      <3>7. CurrentCopies(work[w])'
        BY <3>2, <3>6 DEF CurrentCopies, Logs
      <3>8. QED
        BY <3>1, <3>2, <3>3, <3>5, <3>7
    <2>4. CASE NextVerdict(w)
      <3>1. Numbered'
        BY <2>4, <1>a, <1>b DEF NextVerdict
      <3>2. PICK o \in work[w].review :
              /\ work'[w].script = ReviewCalls(o, o \in work[w].ticked)
              /\ work'[w].review = work[w].review \ {o}
              /\ work'[w].phase = "load" /\ work'[w].req = work[w].req
              /\ work'[w].ticked = work[w].ticked /\ work'[w].apply = work[w].apply
        BY <2>4, VerdictEffect
      <3>3. (o \in work[w].ticked) \in BOOLEAN
        OBVIOUS
      <3>4. Chained(work'[w].script)
        BY <3>2, <3>3, NewChained
      <3>5. \A i \in DOMAIN work'[w].script :
              /\ work'[w].script[i].ov = o
              /\ work'[w].script[i].event \in {"approved", "rejected", "review_approve", "review_reject"}
        BY <3>2 DEF ReviewCalls, Call
      <3>6. work[w].phase # "idle" /\ requests' = requests
        BY <2>4 DEF NextVerdict
      <3>7. OwnRecords(work[w])'
        <4>1. o.req = work[w].req /\ o.req \in Nat
          BY <2>a, NumberTypes DEF OwnRecords
        <4>2. QED
          BY <2>a, <3>2, <3>5, <3>6, <4>1 DEF OwnRecords
      <3>8. QED
        BY <3>1, <3>2, <3>4, <3>7 DEF CurrentCopies
    <2>5. CASE NextOverride(w)
      <3>1. Numbered'
        BY <2>5, <1>a, <1>b DEF NextOverride
      <3>2. PICK o \in work[w].apply :
              /\ work'[w].script = ApplyCalls(o) /\ work'[w].apply = work[w].apply \ {o}
              /\ work'[w].phase = "load" /\ work'[w].req = work[w].req
              /\ work'[w].ticked = work[w].ticked /\ work'[w].review = work[w].review
        BY <2>5, OverrideEffect
      <3>3. Chained(work'[w].script)
        BY <3>2, NewChained
      <3>4. \A i \in DOMAIN work'[w].script :
              work'[w].script[i].ov = o /\ work'[w].script[i].event \in {"add", "applied"}
        BY <3>2 DEF ApplyCalls, Call
      <3>5. work[w].phase # "idle" /\ requests' = requests
        BY <2>5 DEF NextOverride
      <3>6. OwnRecords(work[w])'
        <4>1. o.req = work[w].req /\ o.req \in Nat
          BY <2>a, NumberTypes DEF OwnRecords
        <4>2. QED
          BY <2>a, <3>2, <3>4, <3>5, <4>1 DEF OwnRecords
      <3>7. QED
        BY <3>1, <3>2, <3>3, <3>6 DEF CurrentCopies
    <2>6. CASE Summarize(w)
      <3>1. Numbered'
        BY <2>6, <1>a, <1>b DEF Summarize
      <3>2. Chained(work'[w].script)
        BY <2>6, SummaryEffect, NewChained
      <3>3. \A i \in DOMAIN work'[w].script :
              work'[w].script[i].ov.req = work[w].req /\ work'[w].script[i].event = "run"
        <4>1. work'[w].script = <<Call("history", "run", Run(work[w].req))>>
          BY <2>6, SummaryEffect
        <4>2. QED
          BY <4>1 DEF Call, Run
      <3>4. work[w].phase # "idle" /\ work[w].req \in Nat /\ requests' = requests
        BY <2>6, NumberTypes DEF Summarize
      <3>5. OwnRecords(work[w])'
        BY <2>6, <2>a, <3>3, <3>4, SummaryEffect DEF OwnRecords
      <3>6. QED
        BY <2>6, <3>1, <3>2, <3>5, SummaryEffect DEF CurrentCopies
    <2>7. CASE Respond(w) \/ WriteFails(w)
      <3>1. work'[w] = Idle
        BY <2>7, IdleEffect
      <3>2. Numbered'
        BY <2>7, <1>a, <1>b DEF Respond, WriteFails
      <3>3. Chained(work'[w].script) /\ OwnRecords(work[w])' /\ CurrentCopies(work[w])'
        BY <3>1 DEF Idle, Chained, OwnRecords, CurrentCopies
      <3>4. QED
        BY <3>1, <3>2, <3>3
    <2>8. CASE LoadApplied(w)
      <3>1. Numbered'
        BY <2>8, <1>a, <1>b DEF LoadApplied
      <3>a. requests' = requests /\ applied' = applied /\ Head(work[w].script).file = "applied"
        BY <2>8 DEF LoadApplied
      <3>2. OwnRecords(work[w])'
        BY <2>8, <2>a, <3>a, LoadEffect DEF OwnRecords
      <3>3. work'[w].appliedCopy = applied' /\ Head(work'[w].script).file = "applied"
        <4>1. work'[w].appliedCopy = applied
          BY <2>8 DEF LoadApplied, TypeOK, WorkSet
        <4>2. QED
          BY <2>8, <3>a, <4>1, LoadEffect
      <3>4. CurrentCopies(work[w])'
        BY <3>3 DEF CurrentCopies, Logs
      <3>5. QED
        BY <2>8, <2>a, <3>1, <3>2, <3>4, LoadEffect
    <2>9. CASE LoadLog(w)
      <3>1. Numbered'
        BY <2>9, <1>a, <1>b DEF LoadLog
      <3>a. requests' = requests
        BY <2>9 DEF LoadLog
      <3>2. OwnRecords(work[w])'
        BY <2>9, <2>a, <3>a, LoadEffect DEF OwnRecords
      <3>3. PICK l \in Logs :
              /\ l = Head(work[w].script).file
              /\ work' = [work EXCEPT ![w] = [@ EXCEPT !.phase = "store", !.at = clock', !.logCopy = logs[l]]]
        BY <2>9 DEF LoadLog
      <3>4. work'[w].logCopy = logs[l] /\ work'[w].at = clock' /\ Head(work'[w].script).file = l
        BY <2>9, <3>3, LoadEffect DEF TypeOK, WorkSet
      <3>5. \A k \in Logs : \A i \in DOMAIN logs[k] : logs[k][i].at < clock'
        <4>1. clock' = clock + 1 /\ clock \in Nat
          BY <2>9 DEF LoadLog, TypeOK
        <4>2. QED
          BY <4>1, EntryStamps DEF OrderInv
      <3>6. logs' = logs
        BY <2>9 DEF LoadLog
      <3>7. CurrentCopies(work[w])'
        BY <3>4, <3>5, <3>6 DEF CurrentCopies, Logs
      <3>8. QED
        BY <2>9, <2>a, <3>1, <3>2, <3>7, LoadEffect
    <2>10. CASE StoreApplied(w) \/ StoreLog(w)
      <3>1. work[w].phase = "store" /\ Stored(w) /\ requests' = requests
        BY <2>10 DEF StoreApplied, StoreLog
      <3>2. Chained(work'[w].script)
        BY <2>a, <3>1, StoreEffect, TailChained DEF TypeOK, WorkSet
      <3>3. OwnRecords(work[w])'
        BY <2>a, <3>1, StoreEffect DEF OwnRecords
      <3>4. work[w].script[1].ov.req \in Nat /\ work[w].script[1].ov.req <= requests
        <4>1. 1 \in DOMAIN work[w].script
          BY <3>1, StoreEffect
        <4>2. QED
          BY <1>b, <2>a, <3>1, <4>1, NumberTypes DEF OwnRecords
      <3>5. Numbered'
        <4>1. CASE StoreApplied(w)
          <5>1. \A o \in applied' : o \in applied \/ (o = work[w].script[1].ov /\ work[w].script[1].event = "add")
            <6>1. applied' = AppliedAfter(applied, work[w].script[1])
              BY <4>1, StoreAppliedEffect
            <6>2. QED
              BY <6>1, AppliedAfterKeeps
          <5>2. work[w].script[1].event = "add" => 1 <= work[w].script[1].ov.req
            BY <2>a, <3>1, StoreEffect DEF OwnRecords
          <5>3. logs' = logs
            BY <4>1, StoreAppliedEffect
          <5>4. QED
            BY <3>1, <3>4, <5>1, <5>2, <5>3 DEF RequestInv, Numbered
        <4>2. CASE StoreLog(w)
          <5>1. PICK e \in Entry, k \in Logs :
                  e.ov = work[w].script[1].ov /\ logs' = [logs EXCEPT ![k] = Append(logs[k], e)] /\ applied' = applied
            BY <4>2, StoreLogEffect
          <5>2. \A l \in Logs : logs[l] \in Seq(Entry)
            BY DEF TypeOK
          <5>3. ASSUME NEW l \in Logs, NEW i \in DOMAIN logs'[l]
                PROVE  logs'[l][i].ov.req <= requests
            <6>1. (i \in DOMAIN logs[l] /\ logs'[l][i] = logs[l][i]) \/ logs'[l][i] = e
              BY <5>1, <5>2, <5>3 DEF TypeOK
            <6>2. QED
              BY <3>4, <5>1, <6>1 DEF RequestInv, Numbered
          <5>4. QED
            BY <3>1, <5>1, <5>3 DEF RequestInv, Numbered
        <4>3. QED
          BY <2>10, <4>1, <4>2
      <3>6. QED
        BY <3>1, <3>2, <3>3, <3>5, StoreEffect DEF CurrentCopies
    <2>11. QED
      BY <1>3, <2>1, <2>2, <2>3, <2>4, <2>5, <2>6, <2>7, <2>8, <2>9, <2>10 DEF Step
  <1>4. QED
    BY <1>1, <1>2, <1>3 DEF Next

LEMMA SerialBase ==
  ASSUME Serial
  PROVE  Spec => [](TypeOK /\ OrderInv /\ RequestInv)
  <1>1. Init => OrderInv
    BY DEF Init, Idle, OrderInv, OrderedThread, InOrder, Logs
  <1>2. TypeOK /\ OrderInv /\ RequestInv /\ [Next]_vars => RequestInv'
    BY RequestNext
  <1>3. QED
    BY <1>1, <1>2, RequestInit, TypeInit, TypeNext, OrderNext, PTL DEF Spec

\* With one request at a time a log grows by the entry of the call, and by
\* nothing else.
LEMMA LogGrows ==
  ASSUME TypeOK, RequestInv, NEW w \in Workers, StoreLog(w)
  PROVE  LET c == work[w].script[1]
         IN  /\ c.file \in Logs
             /\ \A l \in Logs : \A i \in DOMAIN logs[l] :
                  i \in DOMAIN logs'[l] /\ logs'[l][i] = logs[l][i]
             /\ \A l \in Logs : \A i \in DOMAIN logs'[l] :
                  \/ i \in DOMAIN logs[l] /\ logs'[l][i] = logs[l][i]
                  \/ /\ l = c.file /\ i = Len(logs[l]) + 1
                     /\ logs'[l][i] = [event |-> c.event, ov |-> c.ov, at |-> work[w].at]
             /\ Len(logs[c.file]) + 1 \in DOMAIN logs'[c.file]
             /\ logs'[c.file][Len(logs[c.file]) + 1]
                  = [event |-> c.event, ov |-> c.ov, at |-> work[w].at]
  <1> DEFINE k == work[w].script[1].file
             e == [event |-> work[w].script[1].event, ov |-> work[w].script[1].ov, at |-> work[w].at]
  <1>1. k \in Logs /\ e \in Entry /\ logs' = [logs EXCEPT ![k] = Append(logs[k], e)]
    BY StoreLogEffect
  <1> HIDE DEF k, e
  <1>2. \A l \in Logs : logs[l] \in Seq(Entry)
    BY DEF TypeOK
  <1>3. /\ \A l \in Logs \ {k} : logs'[l] = logs[l]
        /\ logs'[k] = Append(logs[k], e)
    BY <1>1 DEF TypeOK
  <1>4. /\ DOMAIN logs'[k] = 1 .. Len(logs[k]) + 1
        /\ DOMAIN logs[k] = 1 .. Len(logs[k])
        /\ \A i \in DOMAIN logs[k] : logs'[k][i] = logs[k][i]
        /\ logs'[k][Len(logs[k]) + 1] = e
        /\ Len(logs[k]) \in Nat
    BY <1>2, <1>3
  <1>5. ASSUME NEW l \in Logs, NEW i \in DOMAIN logs[l]
        PROVE  i \in DOMAIN logs'[l] /\ logs'[l][i] = logs[l][i]
    BY <1>3, <1>4
  <1>6. ASSUME NEW l \in Logs, NEW i \in DOMAIN logs'[l]
        PROVE  \/ i \in DOMAIN logs[l] /\ logs'[l][i] = logs[l][i]
               \/ l = k /\ i = Len(logs[l]) + 1 /\ logs'[l][i] = e
    BY <1>3, <1>4
  <1>7. Len(logs[k]) + 1 \in DOMAIN logs'[k]
    BY <1>4
  <1>8. QED
    BY <1>1, <1>4, <1>5, <1>6, <1>7 DEF k, e

\* The same for the overrides a log has an event about.
LEMMA AboutGrows ==
  ASSUME TypeOK, RequestInv, NEW w \in Workers, StoreLog(w), NEW l \in Logs, NEW event
  PROVE  LET c == work[w].script[1]
         IN  About(l, event)' = About(l, event) \cup
               (IF c.file = l /\ c.event = event THEN {c.ov} ELSE {})
  <1> DEFINE c == work[w].script[1]
             new == IF c.file = l /\ c.event = event THEN {c.ov} ELSE {}
  <1>1. ASSUME NEW o \in About(l, event)' PROVE o \in About(l, event) \cup new
    <2>1. PICK i \in DOMAIN logs'[l] : logs'[l][i].event = event /\ logs'[l][i].ov = o
      BY <1>1 DEF About
    <2>2. CASE i \in DOMAIN logs[l] /\ logs'[l][i] = logs[l][i]
      BY <2>1, <2>2 DEF About
    <2>3. CASE l = c.file /\ logs'[l][i] = [event |-> c.event, ov |-> c.ov, at |-> work[w].at]
      BY <2>1, <2>3
    <2>4. QED
      BY <2>2, <2>3, LogGrows
  <1>2. ASSUME NEW o \in About(l, event) PROVE o \in About(l, event)'
    <2>1. PICK i \in DOMAIN logs[l] : logs[l][i].event = event /\ logs[l][i].ov = o
      BY <1>2 DEF About
    <2>2. i \in DOMAIN logs'[l] /\ logs'[l][i] = logs[l][i]
      BY LogGrows
    <2>3. QED
      BY <2>1, <2>2 DEF About
  <1>3. ASSUME c.file = l, c.event = event PROVE c.ov \in About(l, event)'
    <2>1. PICK i \in DOMAIN logs'[l] : logs'[l][i] = [event |-> c.event, ov |-> c.ov, at |-> work[w].at]
      BY <1>3, LogGrows
    <2>2. logs'[l][i].event = event /\ logs'[l][i].ov = c.ov
      BY <1>3, <2>1
    <2>3. QED
      BY <2>1, <2>2 DEF About
  <1>4. QED
    BY <1>1, <1>2, <1>3

-----------------------------------------------------------------------------
(* The evidence comes before the ledger.                                   *)

LEMMA EvidenceNext ==
  ASSUME Serial, TypeOK, OrderInv, RequestInv, EvidenceInv, [Next]_vars
  PROVE  EvidenceInv'
  <1>1. CASE UNCHANGED vars
    BY <1>1 DEF vars, EvidenceInv, EvidenceFirst, EvidenceThread, Evidenced
  <1>a. ASSUME UNCHANGED logs
        PROVE  EvidenceFirst' /\ \A o : Evidenced(o)' <=> Evidenced(o)
    BY <1>a DEF EvidenceInv, EvidenceFirst, Evidenced
  <1>b. EvidenceThread(Idle)'
    BY DEF EvidenceThread, Idle
  <1>2. CASE Crash
    <2>1. logs' = logs /\ \A w \in Workers : work'[w] = Idle
      BY <1>2 DEF Crash
    <2>2. EvidenceFirst'
      BY <2>1, <1>a
    <2>3. \A w \in Workers : EvidenceThread(work[w])'
      BY <2>1 DEF EvidenceThread, Idle
    <2>4. QED
      BY <2>2, <2>3 DEF EvidenceInv
  <1>3. ASSUME NEW w \in Workers, Step(w)
        PROVE  EvidenceInv'
    <2>a. EvidenceThread(work[w]) /\ EvidenceFirst
      BY DEF EvidenceInv
    <2>b. ASSUME UNCHANGED logs, EvidenceThread(work[w])'
          PROVE  EvidenceInv'
      BY <1>a, <2>b DEF EvidenceInv, Serial
    <2>c. ASSUME EvidenceFirst', EvidenceThread(work[w])'
          PROVE  EvidenceInv'
      BY <2>c DEF EvidenceInv, Serial
    <2>1. CASE ShowReview(w)
      <3>1. logs' = logs /\ work' = work
        BY <2>1 DEF ShowReview
      <3>2. QED
        BY <2>a, <2>b, <3>1, <1>a DEF EvidenceThread
    <2>2. CASE PostReview(w)
      <3>1. logs' = logs
        BY <2>2 DEF PostReview
      <3>2. EvidenceThread(work[w])'
        BY <2>2, ReviewEffect DEF EvidenceThread
      <3>3. QED
        BY <2>b, <3>1, <3>2
    <2>3. CASE PostRollback(w)
      <3>1. logs' = logs
        BY <2>3 DEF PostRollback
      <3>2. PICK o : work'[w].script = RollbackCalls(o) /\ work'[w].apply = {}
        BY <2>3, RollbackEffect
      <3>3. \A i \in DOMAIN work'[w].script : work'[w].script[i].event \notin {"add", "applied"}
        BY <3>2 DEF RollbackCalls, Call
      <3>4. EvidenceThread(work[w])'
        BY <3>2, <3>3 DEF EvidenceThread
      <3>5. QED
        BY <2>b, <3>1, <3>4
    <2>4. CASE NextVerdict(w)
      <3>1. logs' = logs /\ work[w].script = <<>>
        BY <2>4 DEF NextVerdict
      <3>2. PICK o \in work[w].review :
              /\ work'[w].script = ReviewCalls(o, o \in work[w].ticked)
              /\ work'[w].review = work[w].review \ {o}
              /\ work'[w].ticked = work[w].ticked /\ work'[w].apply = work[w].apply
        BY <2>4, VerdictEffect
      <3>3. \A i \in DOMAIN work'[w].script : work'[w].script[i].event \notin {"add", "applied"}
        BY <3>2 DEF ReviewCalls, Call
      <3>4. o \in work[w].ticked =>
              1 \in DOMAIN work'[w].script /\ work'[w].script[1] = Call("feedback", "approved", o)
        BY <3>2 DEF ReviewCalls
      <3>5. EvidenceThread(work[w])'
        BY <1>a, <2>a, <3>1, <3>2, <3>3, <3>4 DEF EvidenceThread
      <3>6. QED
        BY <2>b, <3>1, <3>5
    <2>5. CASE NextOverride(w)
      <3>1. logs' = logs /\ work[w].script = <<>> /\ work[w].review = {}
        BY <2>5 DEF NextOverride
      <3>2. PICK o \in work[w].apply :
              /\ work'[w].script = ApplyCalls(o) /\ work'[w].apply = work[w].apply \ {o}
              /\ work'[w].ticked = work[w].ticked /\ work'[w].review = work[w].review
        BY <2>5, OverrideEffect
      <3>3. \A p \in work[w].apply : Evidenced(p)
        BY <2>a, <3>1 DEF EvidenceThread
      <3>4. \A i \in DOMAIN work'[w].script : work'[w].script[i].ov = o
        BY <3>2 DEF ApplyCalls, Call
      <3>5. EvidenceThread(work[w])'
        BY <1>a, <2>a, <3>1, <3>2, <3>3, <3>4 DEF EvidenceThread
      <3>6. QED
        BY <2>b, <3>1, <3>5
    <2>6. CASE Summarize(w)
      <3>1. logs' = logs
        BY <2>6 DEF Summarize
      <3>2. work'[w].script = <<Call("history", "run", Run(work[w].req))>> /\ work'[w].apply = {}
        BY <2>6, SummaryEffect
      <3>3. \A i \in DOMAIN work'[w].script : work'[w].script[i].event \notin {"add", "applied"}
        BY <3>2 DEF Call
      <3>4. EvidenceThread(work[w])'
        BY <3>2, <3>3 DEF EvidenceThread
      <3>5. QED
        BY <2>b, <3>1, <3>4
    <2>7. CASE Respond(w) \/ WriteFails(w)
      <3>1. logs' = logs /\ work'[w] = Idle
        BY <2>7, IdleEffect DEF Respond, WriteFails
      <3>2. EvidenceThread(work[w])'
        BY <3>1 DEF EvidenceThread, Idle
      <3>3. QED
        BY <2>b, <3>1, <3>2
    <2>8. CASE LoadApplied(w) \/ LoadLog(w)
      <3>1. logs' = logs
        BY <2>8 DEF LoadApplied, LoadLog
      <3>2. EvidenceThread(work[w])'
        BY <1>a, <2>8, <2>a, <3>1, LoadEffect DEF EvidenceThread
      <3>3. QED
        BY <2>b, <3>1, <3>2
    <2>9. CASE StoreApplied(w)
      <3>1. work[w].phase = "store" /\ Stored(w) /\ logs' = logs /\ Head(work[w].script).file = "applied"
        BY <2>9 DEF StoreApplied
      <3>2. work[w].script[1].file = "applied"
        BY <3>1, StoreEffect
      <3>3. \A o : work[w].script[1] # Call("feedback", "approved", o)
        BY <3>2 DEF Call
      <3>4. EvidenceThread(work[w])'
        BY <1>a, <2>a, <3>1, <3>3, StoreEffect DEF EvidenceThread
      <3>5. QED
        BY <2>b, <3>1, <3>4
    <2>10. CASE StoreLog(w)
      <3>1. work[w].phase = "store" /\ Stored(w)
        BY <2>10 DEF StoreLog
      <3>2. \A o : Evidenced(o) => Evidenced(o)'
        <4>1. \A j \in DOMAIN logs["feedback"] :
                j \in DOMAIN logs'["feedback"] /\ logs'["feedback"][j] = logs["feedback"][j]
          BY <2>10, LogGrows DEF Logs
        <4>2. QED
          BY <4>1 DEF Evidenced
      <3>3. ASSUME NEW o, work[w].script[1] = Call("feedback", "approved", o)
            PROVE  Evidenced(o)'
        <4>1. work[w].script[1].file = "feedback" /\ work[w].script[1].event = "approved" /\ work[w].script[1].ov = o
          BY <3>3 DEF Call
        <4>2. PICK j \in DOMAIN logs'["feedback"] :
                logs'["feedback"][j] = [event |-> "approved", ov |-> o, at |-> work[w].at]
          BY <2>10, <4>1, LogGrows
        <4>3. QED
          BY <4>2 DEF Evidenced
      <3>4. EvidenceThread(work[w])'
        <4>1. \A i \in DOMAIN work'[w].script :
                work'[w].script[i].event \in {"add", "applied"} => Evidenced(work'[w].script[i].ov)
          BY <2>a, <3>1, StoreEffect DEF EvidenceThread
        <4>2. ASSUME NEW o \in work[w].apply
              PROVE  \/ o \in work[w].review
                     \/ \E i \in DOMAIN work'[w].script : work'[w].script[i] = Call("feedback", "approved", o)
                     \/ Evidenced(o)'
          <5>1. CASE \E i \in DOMAIN work[w].script : work[w].script[i] = Call("feedback", "approved", o)
            BY <5>1, <3>1, <3>3, StoreEffect
          <5>2. QED
            BY <2>a, <3>2, <5>1 DEF EvidenceThread
        <4>3. QED
          BY <2>a, <3>1, <3>2, <4>1, <4>2, StoreEffect DEF EvidenceThread
      <3>5. EvidenceFirst'
        <4>1. SUFFICES ASSUME NEW i \in DOMAIN logs'["ledger"], logs'["ledger"][i].event = "applied"
                       PROVE  \E j \in DOMAIN logs'["feedback"] :
                                /\ logs'["feedback"][j].event = "approved"
                                /\ logs'["feedback"][j].ov = logs'["ledger"][i].ov
                                /\ logs'["feedback"][j].at < logs'["ledger"][i].at
          BY DEF EvidenceFirst
        <4>2. \A j \in DOMAIN logs["feedback"] :
                j \in DOMAIN logs'["feedback"] /\ logs'["feedback"][j] = logs["feedback"][j]
          BY <2>10, LogGrows DEF Logs
        <4>3. CASE i \in DOMAIN logs["ledger"] /\ logs'["ledger"][i] = logs["ledger"][i]
          <5>1. PICK j \in DOMAIN logs["feedback"] :
                  /\ logs["feedback"][j].event = "approved"
                  /\ logs["feedback"][j].ov = logs["ledger"][i].ov
                  /\ logs["feedback"][j].at < logs["ledger"][i].at
            BY <2>a, <4>1, <4>3 DEF EvidenceFirst
          <5>2. QED
            BY <4>2, <4>3, <5>1
        <4>4. CASE logs'["ledger"][i] =
                     [event |-> work[w].script[1].event, ov |-> work[w].script[1].ov, at |-> work[w].at]
          <5>1. Evidenced(work[w].script[1].ov)
            BY <2>a, <3>1, <4>1, <4>4, StoreEffect DEF EvidenceThread
          <5>2. PICK j \in DOMAIN logs["feedback"] :
                  logs["feedback"][j].event = "approved" /\ logs["feedback"][j].ov = work[w].script[1].ov
            BY <5>1 DEF Evidenced
          <5>3. logs["feedback"][j].at < work[w].at
            BY <2>10, StoreLogEffect DEF Logs
          <5>4. QED
            BY <4>2, <4>4, <5>2, <5>3
        <4>5. QED
          BY <2>10, <4>3, <4>4, LogGrows DEF Logs
      <3>6. QED
        BY <2>c, <3>4, <3>5
    <2>11. QED
      BY <1>3, <2>1, <2>2, <2>3, <2>4, <2>5, <2>6, <2>7, <2>8, <2>9, <2>10 DEF Step
  <1>4. QED
    BY <1>1, <1>2, <1>3 DEF Next

\* With requests served one at a time, nothing enters the ledger as applied
\* whose approval the calibration log does not already hold, whichever write
\* fails and however often the process is killed.
THEOREM EvidenceComesFirst ==
  ASSUME Serial
  PROVE  Spec => []EvidenceFirst
  <1>1. Init => EvidenceInv
    BY DEF Init, Idle, EvidenceInv, EvidenceFirst, EvidenceThread, Logs
  <1>2. TypeOK /\ OrderInv /\ RequestInv /\ EvidenceInv /\ [Next]_vars => EvidenceInv'
    BY EvidenceNext
  <1>3. EvidenceInv => EvidenceFirst
    BY DEF EvidenceInv
  <1>4. QED
    BY <1>1, <1>2, <1>3, SerialBase, PTL DEF Spec

-----------------------------------------------------------------------------
(* A rolled back override stays out of the applied set.                    *)

LEMMA RetiredNumbers ==
  ASSUME TypeOK, RequestInv, NEW l \in Logs, NEW event, NEW o \in About(l, event)
  PROVE  o.req \in Nat /\ o.req <= requests
  <1>1. PICK i \in DOMAIN logs[l] : logs[l][i].ov = o
    BY DEF About
  <1>2. QED
    BY <1>1, NumberTypes DEF RequestInv, Numbered

LEMMA RollbackNext ==
  ASSUME Serial, TypeOK, RequestInv, RollbackInv, [Next]_vars
  PROVE  RollbackInv'
  <1> DEFINE retired == About("ledger", "rolled_back")
  <1>a. ASSUME UNCHANGED logs
        PROVE  retired' = retired
    BY <1>a DEF About
  <1>1. CASE UNCHANGED vars
    BY <1>1, <1>a DEF vars, RollbackInv, RollbackEffective, RollbackThread
  <1>2. CASE Crash
    <2>1. UNCHANGED <<logs, applied>> /\ \A w \in Workers : work'[w] = Idle
      BY <1>2 DEF Crash
    <2>2. \A w \in Workers : RollbackThread(work[w])'
      BY <2>1 DEF RollbackThread, Idle
    <2>3. QED
      BY <1>a, <2>1, <2>2 DEF RollbackInv, RollbackEffective
  <1>3. ASSUME NEW w \in Workers, Step(w)
        PROVE  RollbackInv'
    <2>a. RollbackThread(work[w]) /\ RollbackEffective /\ OwnRecords(work[w]) /\ Chained(work[w].script)
      BY DEF RollbackInv, RequestInv
    <2>b. ASSUME UNCHANGED <<logs, applied>>, RollbackThread(work[w])'
          PROVE  RollbackInv'
      BY <1>a, <2>b DEF RollbackInv, RollbackEffective, Serial
    <2>c. ASSUME RollbackEffective', RollbackThread(work[w])'
          PROVE  RollbackInv'
      BY <2>c DEF RollbackInv, Serial
    <2>d. ASSUME UNCHANGED <<logs, applied>>,
                 \A i \in DOMAIN work'[w].script : work'[w].script[i].event # "rolled_back",
                 work[w].phase # "idle", work'[w].req = work[w].req
          PROVE  RollbackInv'
      <3>1. \A o : \A i \in DOMAIN work'[w].script : work'[w].script[i] # Call("ledger", "rolled_back", o)
        BY <2>d DEF Call
      <3>2. RollbackThread(work[w])'
        BY <1>a, <2>a, <2>d, <3>1 DEF RollbackThread
      <3>3. QED
        BY <2>b, <2>d, <3>2
    <2>1. CASE ShowReview(w)
      <3>1. UNCHANGED <<logs, applied>> /\ work' = work
        BY <2>1 DEF ShowReview
      <3>2. QED
        BY <2>a, <2>b, <3>1, <1>a DEF RollbackThread
    <2>2. CASE PostReview(w)
      <3>1. UNCHANGED <<logs, applied>>
        BY <2>2 DEF PostReview
      <3>2. \A o \in retired : o.req < requests + 1
        BY RetiredNumbers, NumberTypes DEF Logs
      <3>3. RollbackThread(work[w])'
        BY <1>a, <2>2, <3>1, <3>2, ReviewEffect DEF RollbackThread
      <3>4. QED
        BY <2>b, <3>1, <3>3
    <2>3. CASE PostRollback(w)
      <3>1. UNCHANGED <<logs, applied>>
        BY <2>3 DEF PostRollback
      <3>2. \A o \in retired : o.req < requests + 1
        BY RetiredNumbers, NumberTypes DEF Logs
      <3>3. PICK o : work'[w].script = RollbackCalls(o) /\ work'[w].req = requests + 1
        BY <2>3, RollbackEffect
      <3>4. /\ work'[w].script[1] = Call("applied", "remove", o)
            /\ \A i \in DOMAIN work'[w].script : work'[w].script[i].ov = o
        BY <3>3 DEF RollbackCalls, Call
      <3>5. RollbackThread(work[w])'
        BY <1>a, <3>1, <3>2, <3>3, <3>4 DEF RollbackThread
      <3>6. QED
        BY <2>b, <3>1, <3>5
    <2>4. CASE NextVerdict(w)
      <3>1. UNCHANGED <<logs, applied>> /\ work[w].phase # "idle"
        BY <2>4 DEF NextVerdict
      <3>2. PICK o : /\ work'[w].script = ReviewCalls(o, o \in work[w].ticked)
                     /\ work'[w].req = work[w].req
        BY <2>4, VerdictEffect
      <3>3. \A i \in DOMAIN work'[w].script : work'[w].script[i].event # "rolled_back"
        BY <3>2 DEF ReviewCalls, Call
      <3>4. QED
        BY <2>d, <3>1, <3>2, <3>3
    <2>5. CASE NextOverride(w)
      <3>1. UNCHANGED <<logs, applied>> /\ work[w].phase # "idle"
        BY <2>5 DEF NextOverride
      <3>2. PICK o : work'[w].script = ApplyCalls(o) /\ work'[w].req = work[w].req
        BY <2>5, OverrideEffect
      <3>3. \A i \in DOMAIN work'[w].script : work'[w].script[i].event # "rolled_back"
        BY <3>2 DEF ApplyCalls, Call
      <3>4. QED
        BY <2>d, <3>1, <3>2, <3>3
    <2>6. CASE Summarize(w)
      <3>1. UNCHANGED <<logs, applied>> /\ work[w].phase # "idle"
        BY <2>6 DEF Summarize
      <3>2. /\ work'[w].script = <<Call("history", "run", Run(work[w].req))>>
            /\ work'[w].req = work[w].req
        BY <2>6, SummaryEffect
      <3>3. \A i \in DOMAIN work'[w].script : work'[w].script[i].event # "rolled_back"
        BY <3>2 DEF Call
      <3>4. QED
        BY <2>d, <3>1, <3>2, <3>3
    <2>7. CASE Respond(w) \/ WriteFails(w)
      <3>1. UNCHANGED <<logs, applied>> /\ work'[w] = Idle
        BY <2>7, IdleEffect DEF Respond, WriteFails
      <3>2. RollbackThread(work[w])'
        BY <3>1 DEF RollbackThread, Idle
      <3>3. QED
        BY <2>b, <3>1, <3>2
    <2>8. CASE LoadApplied(w) \/ LoadLog(w)
      <3>1. UNCHANGED <<logs, applied>>
        BY <2>8 DEF LoadApplied, LoadLog
      <3>2. RollbackThread(work[w])'
        BY <1>a, <2>8, <2>a, <3>1, LoadEffect DEF RollbackThread
      <3>3. QED
        BY <2>b, <3>1, <3>2
    <2>9. CASE StoreApplied(w)
      <3> DEFINE c == work[w].script[1]
      <3>1. work[w].phase = "store" /\ Stored(w)
        BY <2>9 DEF StoreApplied
      <3>2. /\ c.file = "applied" /\ c.event \in {"add", "remove"} /\ 1 \in DOMAIN work[w].script
            /\ applied' = AppliedAfter(applied, c) /\ logs' = logs
        BY <2>9, <3>1, StoreEffect, StoreAppliedEffect
      <3>3. work[w].script[2] = LedgerCallOf(c)
        BY <2>a, <3>2 DEF Chained
      <3>4. CASE c.event = "add"
        <4>1. c.ov.req = work[w].req
          BY <2>a, <3>2, <3>4 DEF OwnRecords
        <4>2. \A o \in retired : o # c.ov
          BY <2>a, <3>1, <4>1, RetiredNumbers DEF RollbackThread, Logs
        <4>3. RollbackEffective'
          BY <1>a, <2>a, <3>2, <4>2, AppliedAfterKeeps DEF RollbackEffective
        <4>4. \A o : \A i \in DOMAIN work'[w].script : work'[w].script[i] # Call("ledger", "rolled_back", o)
          <5>1. SUFFICES ASSUME NEW i \in DOMAIN work[w].script, i # 1, NEW o
                         PROVE  work[w].script[i] # Call("ledger", "rolled_back", o)
            BY <3>1, StoreEffect
          <5>2. CASE i = 2
            BY <3>3, <3>4, <5>2 DEF LedgerCallOf, Call
          <5>3. CASE i # 2
            <6>1. work[w].script[i].file # "ledger"
              BY <2>a, <5>1, <5>3 DEF Chained
            <6>2. QED
              BY <6>1 DEF Call
          <5>4. QED
            BY <5>2, <5>3
        <4>5. RollbackThread(work[w])'
          BY <1>a, <2>a, <3>1, <3>2, <4>4, StoreEffect DEF RollbackThread
        <4>6. QED
          BY <2>c, <4>3, <4>5
      <3>5. CASE c.event # "add"
        <4>1. applied' = {a \in applied : NameOf(a) # NameOf(c.ov)}
          BY <3>2, <3>5 DEF AppliedAfter
        <4>2. RollbackEffective'
          BY <1>a, <2>a, <3>2, <4>1 DEF RollbackEffective
        <4>3. ASSUME NEW i \in DOMAIN work'[w].script,
                     work'[w].script[i] = Call("ledger", "rolled_back", work'[w].script[i].ov)
              PROVE  work'[w].script[i].ov \notin applied'
          <5>1. i + 1 \in DOMAIN work[w].script /\ work'[w].script[i] = work[w].script[i + 1]
            BY <3>1, StoreEffect
          <5>2. \/ work[w].script[i + 1].ov \notin applied
                \/ c = Call("applied", "remove", work[w].script[i + 1].ov)
            BY <2>a, <4>3, <5>1 DEF RollbackThread
          <5>3. \/ work[w].script[i + 1].ov \notin applied
                \/ c.ov = work[w].script[i + 1].ov
            BY <5>2 DEF Call
          <5>4. QED
            BY <4>1, <5>1, <5>3
        <4>4. RollbackThread(work[w])'
          BY <1>a, <2>a, <3>1, <3>2, <4>3, StoreEffect DEF RollbackThread
        <4>5. QED
          BY <2>c, <4>2, <4>4
      <3>6. QED
        BY <3>4, <3>5
    <2>10. CASE StoreLog(w)
      <3> DEFINE c == work[w].script[1]
      <3>1. work[w].phase = "store" /\ Stored(w) /\ applied' = applied
        BY <2>10 DEF StoreLog
      <3>2. c.file \in Logs /\ 1 \in DOMAIN work[w].script /\ c.file # "applied"
        BY <2>10, <3>1, StoreEffect, StoreLogEffect DEF Logs
      <3>3. retired' = retired \cup (IF c.file = "ledger" /\ c.event = "rolled_back" THEN {c.ov} ELSE {})
        BY <2>10, AboutGrows DEF Logs
      <3>4. ASSUME c.file = "ledger", c.event = "rolled_back"
            PROVE  c.ov \notin applied /\ c.ov.req < work[w].req
        <4>1. c = Call("ledger", "rolled_back", c.ov)
          BY <3>1, <3>4, StoreEffect DEF Call, CallSet
        <4>a. c # Call("applied", "remove", c.ov)
          BY <3>4 DEF Call
        <4>2. c.ov \notin applied
          BY <2>a, <3>2, <4>1, <4>a DEF RollbackThread
        <4>3. QED
          BY <2>a, <3>2, <3>4, <4>2 DEF OwnRecords
      <3>5. RollbackEffective'
        BY <2>a, <3>1, <3>3, <3>4 DEF RollbackEffective
      <3>6. \A o : \A i \in DOMAIN work'[w].script : work'[w].script[i] # Call("ledger", "rolled_back", o)
        <4>1. \A i \in DOMAIN work[w].script : i # 1 => work[w].script[i].file # "ledger"
          BY <2>a, <3>2 DEF Chained
        <4>2. \A i \in DOMAIN work'[w].script : work'[w].script[i].file # "ledger"
          <5>1. ASSUME NEW i \in DOMAIN work'[w].script
                PROVE  work'[w].script[i].file # "ledger"
            <6>1. i + 1 \in DOMAIN work[w].script /\ work'[w].script[i] = work[w].script[i + 1] /\ i + 1 # 1
              BY <3>1, StoreEffect
            <6>2. QED
              BY <4>1, <6>1
          <5>2. QED
            BY <5>1
        <4>3. QED
          BY <4>2 DEF Call
      <3>7. RollbackThread(work[w])'
        BY <2>a, <3>1, <3>3, <3>4, <3>6, StoreEffect DEF RollbackThread
      <3>8. QED
        BY <2>c, <3>5, <3>7
    <2>11. QED
      BY <1>3, <2>1, <2>2, <2>3, <2>4, <2>5, <2>6, <2>7, <2>8, <2>9, <2>10 DEF Step
  <1>4. QED
    BY <1>1, <1>2, <1>3 DEF Next

\* With requests served one at a time, an override the ledger shows as rolled
\* back is never in the applied set again: a later run that learns the
\* function makes a record of its own.
THEOREM RollbacksHold ==
  ASSUME Serial
  PROVE  Spec => []RollbackEffective
  <1>1. Init => RollbackInv
    BY DEF Init, Idle, RollbackInv, RollbackEffective, RollbackThread, About, Logs
  <1>2. TypeOK /\ OrderInv /\ RequestInv /\ RollbackInv /\ [Next]_vars => RollbackInv'
    BY RollbackNext
  <1>3. RollbackInv => RollbackEffective
    BY DEF RollbackInv
  <1>4. QED
    BY <1>1, <1>2, <1>3, SerialBase, PTL DEF Spec

-----------------------------------------------------------------------------
(* A run summary comes last.                                               *)

LEMMA SummaryNext ==
  ASSUME Serial, TypeOK, RequestInv, SummaryInv, [Next]_vars
  PROVE  SummaryInv'
  <1> DEFINE approved == About("feedback", "approved")
             recorded == About("ledger", "applied")
             runs == About("history", "run")
  <1>a. ASSUME UNCHANGED logs
        PROVE  SummaryIsFinal' /\ approved' = approved /\ recorded' = recorded /\ runs' = runs
    BY <1>a DEF About, SummaryInv, SummaryIsFinal
  <1>1. CASE UNCHANGED vars
    BY <1>1, <1>a DEF vars, SummaryInv, SummaryThread
  <1>2. CASE Crash
    <2>1. UNCHANGED logs /\ \A w \in Workers : work'[w] = Idle
      BY <1>2 DEF Crash
    <2>2. \A w \in Workers : SummaryThread(work[w])'
      BY <2>1 DEF SummaryThread, Idle
    <2>3. QED
      BY <1>a, <2>1, <2>2 DEF SummaryInv
  <1>3. ASSUME NEW w \in Workers, Step(w)
        PROVE  SummaryInv'
    <2>a. SummaryThread(work[w]) /\ SummaryIsFinal /\ OwnRecords(work[w]) /\ Chained(work[w].script)
      BY DEF SummaryInv, RequestInv
    <2>b. ASSUME UNCHANGED logs, SummaryThread(work[w])'
          PROVE  SummaryInv'
      BY <1>a, <2>b DEF SummaryInv, Serial
    <2>c. ASSUME SummaryIsFinal', SummaryThread(work[w])'
          PROVE  SummaryInv'
      BY <2>c DEF SummaryInv, Serial
    <2>d. \A o \in approved \cup runs : o.req # requests + 1
      BY RetiredNumbers, NumberTypes DEF Logs
    <2> HIDE DEF approved, recorded, runs
    <2> USE DEF SummaryThread
    <2>e. /\ approved = About("feedback", "approved") /\ recorded = About("ledger", "applied")
          /\ runs = About("history", "run")
      BY DEF approved, recorded, runs
    <2>f. /\ approved' = About("feedback", "approved")' /\ recorded' = About("ledger", "applied")'
          /\ runs' = About("history", "run")'
      BY DEF approved, recorded, runs
    <2>1. CASE ShowReview(w)
      <3>1. UNCHANGED logs /\ work' = work
        BY <2>1 DEF ShowReview
      <3>2. QED
        BY <1>a, <2>a, <2>b, <2>e, <2>f, <3>1
    <2>2. CASE PostReview(w)
      <3>1. UNCHANGED logs
        BY <2>2 DEF PostReview
      <3>2. SummaryThread(work[w])'
        BY <1>a, <2>2, <2>d, <2>e, <2>f, <3>1, ReviewEffect
      <3>3. QED
        BY <2>b, <3>1, <3>2
    <2>3. CASE PostRollback(w)
      <3>1. UNCHANGED logs
        BY <2>3 DEF PostRollback
      <3>2. PICK o :
              /\ work'[w].script = RollbackCalls(o) /\ work'[w].req = requests + 1
              /\ work'[w].review = {} /\ work'[w].ticked = {} /\ work'[w].apply = {}
        BY <2>3, RollbackEffect
      <3>3. \A i \in DOMAIN work'[w].script : work'[w].script[i].event \notin {"approved", "run"}
        BY <3>2 DEF RollbackCalls, Call
      <3>4. SummaryThread(work[w])'
        BY <1>a, <2>d, <2>e, <2>f, <3>1, <3>2, <3>3
      <3>5. QED
        BY <2>b, <3>1, <3>4
    <2>4. CASE NextVerdict(w)
      <3>1. UNCHANGED logs /\ work[w].script = <<>> /\ work[w].phase # "idle"
        BY <2>4 DEF NextVerdict
      <3>2. PICK o \in work[w].review :
              /\ work'[w].script = ReviewCalls(o, o \in work[w].ticked)
              /\ work'[w].review = work[w].review \ {o}
              /\ work'[w].req = work[w].req /\ work'[w].phase = "load"
              /\ work'[w].ticked = work[w].ticked /\ work'[w].apply = work[w].apply
        BY <2>4, VerdictEffect
      <3>3. \A i \in DOMAIN work'[w].script :
              /\ work'[w].script[i].event # "run"
              /\ work'[w].script[i].event = "approved" => o \in work[w].ticked /\ work'[w].script[i].ov = o
        BY <3>2 DEF ReviewCalls, Call
      <3>4. SummaryThread(work[w])'
        BY <1>a, <2>a, <2>e, <2>f, <3>1, <3>2, <3>3
      <3>5. QED
        BY <2>b, <3>1, <3>4
    <2>5. CASE NextOverride(w)
      <3>1. UNCHANGED logs /\ work[w].script = <<>> /\ work[w].phase # "idle" /\ work[w].review = {}
        BY <2>5 DEF NextOverride
      <3>2. PICK o \in work[w].apply :
              /\ work'[w].script = ApplyCalls(o) /\ work'[w].apply = work[w].apply \ {o}
              /\ work'[w].phase = "load" /\ work'[w].req = work[w].req
              /\ work'[w].ticked = work[w].ticked /\ work'[w].review = work[w].review
        BY <2>5, OverrideEffect
      <3>3. /\ \A i \in DOMAIN work'[w].script : work'[w].script[i].event \notin {"approved", "run"}
            /\ 2 \in DOMAIN work'[w].script /\ work'[w].script[2] = Call("ledger", "applied", o)
        BY <3>2 DEF ApplyCalls, Call
      <3>4. SummaryThread(work[w])'
        BY <1>a, <2>a, <2>e, <2>f, <3>1, <3>2, <3>3
      <3>5. QED
        BY <2>b, <3>1, <3>4
    <2>6. CASE Summarize(w)
      <3>1. /\ UNCHANGED logs /\ work[w].script = <<>> /\ work[w].phase # "idle"
            /\ work[w].apply = {} /\ work[w].ticked # {}
        BY <2>6 DEF Summarize
      <3>2. /\ work'[w].script = <<Call("history", "run", Run(work[w].req))>>
            /\ work'[w].req = work[w].req
            /\ work'[w].ticked = {} /\ work'[w].review = {} /\ work'[w].apply = {}
        BY <2>6, SummaryEffect
      <3>3. \A i \in DOMAIN work'[w].script : work'[w].script[i].event = "run"
        BY <3>2 DEF Call
      <3>4. SummaryThread(work[w])'
        BY <1>a, <2>a, <2>e, <2>f, <3>1, <3>2, <3>3
      <3>5. QED
        BY <2>b, <3>1, <3>4
    <2>7. CASE Respond(w) \/ WriteFails(w)
      <3>1. UNCHANGED logs /\ work'[w] = Idle
        BY <2>7, IdleEffect DEF Respond, WriteFails
      <3>2. SummaryThread(work[w])'
        BY <3>1 DEF Idle
      <3>3. QED
        BY <2>b, <3>1, <3>2
    <2>8. CASE LoadApplied(w) \/ LoadLog(w)
      <3>1. UNCHANGED logs
        BY <2>8 DEF LoadApplied, LoadLog
      <3>2. SummaryThread(work[w])'
        BY <1>a, <2>8, <2>a, <2>e, <2>f, <3>1, LoadEffect
      <3>3. QED
        BY <2>b, <3>1, <3>2
    <2>9. CASE StoreApplied(w) \/ StoreLog(w)
      <3> DEFINE c == work[w].script[1]
      <3>1. work[w].phase = "store" /\ Stored(w)
        BY <2>9 DEF StoreApplied, StoreLog
      <3>2. work[w].script # <<>> /\ 1 \in DOMAIN work[w].script
        BY <3>1, StoreEffect DEF TypeOK
      <3>3. \A h \in runs : h.req # work[w].req
        BY <2>a, <2>e, <3>1, <3>2
      <3>4. ASSUME NEW o, o \in work[w].apply \/ (\E i \in DOMAIN work[w].script : work[w].script[i] = Call("ledger", "applied", o))
            PROVE  \/ o \in work'[w].apply
                   \/ \E i \in DOMAIN work'[w].script : work'[w].script[i] = Call("ledger", "applied", o)
                   \/ c = Call("ledger", "applied", o)
        BY <3>1, <3>4, StoreEffect
      <3>5. /\ work'[w].apply \subseteq work'[w].ticked
            /\ work'[w].review # {} => work'[w].apply = work'[w].ticked
            /\ \A i \in DOMAIN work'[w].script :
                 /\ work'[w].script[i].event = "approved" => work'[w].script[i].ov \in work'[w].apply
                 /\ work'[w].script[i].event = "run" => work'[w].review = {} /\ work'[w].ticked = {}
        BY <2>a, <3>1, StoreEffect
      <3>6. CASE StoreApplied(w)
        <4>1. UNCHANGED logs /\ c.file = "applied"
          BY <3>6, StoreAppliedEffect
        <4>2. \A o : c # Call("ledger", "applied", o)
          BY <4>1 DEF Call
        <4>3. SummaryThread(work[w])'
          BY <1>a, <2>a, <2>e, <2>f, <3>1, <3>3, <3>4, <3>5, <4>1, <4>2, StoreEffect
        <4>4. QED
          BY <2>b, <4>1, <4>3
      <3>7. CASE StoreLog(w)
        <4>1. /\ approved' = approved \cup (IF c.file = "feedback" /\ c.event = "approved" THEN {c.ov} ELSE {})
              /\ recorded' = recorded \cup (IF c.file = "ledger" /\ c.event = "applied" THEN {c.ov} ELSE {})
              /\ runs' = runs \cup (IF c.file = "history" /\ c.event = "run" THEN {c.ov} ELSE {})
          BY <3>7, AboutGrows DEF Logs, approved, recorded, runs
        <4>2. \A o : c = Call("ledger", "applied", o) => o \in recorded'
          BY <4>1 DEF Call
        <4>3. /\ c.event = "approved" => c.ov \in work[w].apply /\ c.ov.req = work[w].req
              /\ c.event = "run" => c.ov.req = work[w].req /\ work[w].review = {} /\ work[w].ticked = {}
          BY <2>a, <3>2 DEF OwnRecords
        <4>4. work'[w].req = work[w].req
          BY <3>1, StoreEffect
        <4>5. ASSUME NEW o \in approved', o.req = work[w].req
              PROVE  \/ o \in work'[w].apply
                     \/ \E i \in DOMAIN work'[w].script : work'[w].script[i] = Call("ledger", "applied", o)
                     \/ o \in recorded'
          <5>1. o \in approved \/ o \in work[w].apply
            BY <4>1, <4>3, <4>5
          <5>2. \/ o \in work[w].apply
                \/ \E i \in DOMAIN work[w].script : work[w].script[i] = Call("ledger", "applied", o)
                \/ o \in recorded
            BY <2>a, <2>e, <3>1, <4>5, <5>1
          <5>3. QED
            BY <3>4, <4>1, <4>2, <5>2
        <4>6. CASE c.file = "history" /\ c.event = "run"
          <5>1. Len(work[w].script) = 1
            BY <2>a, <3>2, <4>6 DEF Chained
          <5>2. work'[w].script = <<>>
            <6>1. work'[w].script = Tail(work[w].script) /\ work[w].script \in Seq(CallSet)
              BY <3>1, StoreEffect DEF TypeOK, WorkSet
            <6>2. Tail(work[w].script) \in Seq(CallSet) /\ Len(Tail(work[w].script)) = 0
              BY <5>1, <6>1
            <6>3. QED
              BY <6>1, <6>2, EmptySeq
          <5>3. work'[w].review = {} /\ work'[w].ticked = {}
            BY <3>1, <4>3, <4>6, StoreEffect
          <5>4. SummaryThread(work[w])'
            BY <2>f, <3>5, <4>4, <4>5, <5>2, <5>3
          <5>5. ASSUME NEW h \in runs', NEW o \in approved', o.req = h.req
                PROVE  o \in recorded'
            <6>1. approved' = approved /\ recorded' = recorded
              BY <4>1, <4>6
            <6>2. CASE h \in runs
              BY <2>a, <2>e, <5>5, <6>1, <6>2 DEF SummaryIsFinal
            <6>3. CASE h = c.ov
              BY <3>5, <4>3, <4>5, <4>6, <5>2, <5>3, <5>5, <6>3
            <6>4. QED
              BY <4>1, <6>2, <6>3
          <5>6. SummaryIsFinal'
            BY <2>f, <5>5 DEF SummaryIsFinal
          <5>7. QED
            BY <2>c, <5>4, <5>6
        <4>7. CASE ~ (c.file = "history" /\ c.event = "run")
          <5>1. runs' = runs
            BY <4>1, <4>7
          <5>2. SummaryThread(work[w])'
            BY <2>f, <3>3, <3>5, <4>4, <4>5, <5>1
          <5>3. SummaryIsFinal'
            <6>1. ASSUME NEW h \in runs, NEW o \in approved', o.req = h.req
                  PROVE  o \in recorded'
              BY <2>a, <2>e, <3>3, <4>1, <4>3, <6>1 DEF SummaryIsFinal
            <6>2. QED
              BY <2>f, <5>1, <6>1 DEF SummaryIsFinal
          <5>4. QED
            BY <2>c, <5>2, <5>3
        <4>8. QED
          BY <4>6, <4>7
      <3>8. QED
        BY <2>9, <3>6, <3>7
    <2>10. QED
      BY <1>3, <2>1, <2>2, <2>3, <2>4, <2>5, <2>6, <2>7, <2>8, <2>9 DEF Step
  <1>4. QED
    BY <1>1, <1>2, <1>3 DEF Next

\* With requests served one at a time, a run in the history has everything it
\* approved in the ledger already; a run that a failed write or a kill cut
\* short has no entry there.
THEOREM SummariesAreFinal ==
  ASSUME Serial
  PROVE  Spec => []SummaryIsFinal
  <1>1. Init => SummaryInv
    BY DEF Init, Idle, SummaryInv, SummaryIsFinal, SummaryThread, About, Logs
  <1>2. TypeOK /\ OrderInv /\ RequestInv /\ SummaryInv /\ [Next]_vars => SummaryInv'
    BY SummaryNext
  <1>3. SummaryInv => SummaryIsFinal
    BY DEF SummaryInv
  <1>4. QED
    BY <1>1, <1>2, <1>3, SerialBase, PTL DEF Spec

-----------------------------------------------------------------------------
(* The calibration log and the ledger show the same rollbacks.             *)

\* The override of the feedback entry a script starts with, if it does.
DueOf(s) ==
  {o \in {s[1].ov} : s # <<>> /\ s[1] = Call("feedback", "rolled_back", o)}

LEMMA DueIsOf ==
  ASSUME Serial, NEW w \in Workers
  PROVE  FeedbackDue = DueOf(work[w].script) /\ FeedbackDue' = DueOf(work'[w].script)
  <1>1. \A v \in Workers : v = w
    BY DEF Serial
  <1>2. QED
    BY <1>1 DEF FeedbackDue, DueOf

LEMMA NothingDue ==
  ASSUME NEW s, s = <<>> \/ s[1].file # "feedback" \/ s[1].event # "rolled_back"
  PROVE  DueOf(s) = {}
  BY DEF DueOf, Call

LEMMA FeedbackNext ==
  ASSUME Serial, MaxCrashes = 0, "feedback" \notin FailAt,
         TypeOK, RequestInv, FeedbackInv, [Next]_vars
  PROVE  FeedbackInv'
  <1> DEFINE F == About("feedback", "rolled_back")
             L == About("ledger", "rolled_back")
  <1>a. ASSUME UNCHANGED logs
        PROVE  F' = F /\ L' = L
    BY <1>a DEF About
  <1>1. CASE UNCHANGED vars
    BY <1>1, <1>a DEF vars, FeedbackInv, FeedbackDue
  <1>2. CASE Crash
    BY <1>2 DEF Crash, TypeOK
  <1>3. ASSUME NEW w \in Workers, Step(w)
        PROVE  FeedbackInv'
    <2>a. Chained(work[w].script) /\ (work[w].phase = "idle" => work[w].script = <<>>)
      BY DEF RequestInv, Idle
    <2>b. ASSUME UNCHANGED logs, DueOf(work'[w].script) = DueOf(work[w].script)
          PROVE  FeedbackInv'
      BY <1>a, <2>b, DueIsOf DEF FeedbackInv
    <2>1. CASE ShowReview(w)
      BY <2>1, <2>b DEF ShowReview
    <2>2. CASE PostReview(w)
      <3>1. UNCHANGED logs /\ work[w].script = <<>>
        BY <2>2, <2>a DEF PostReview
      <3>2. QED
        BY <2>2, <2>b, <3>1, NothingDue, ReviewEffect
    <2>3. CASE PostRollback(w)
      <3>1. UNCHANGED logs /\ work[w].script = <<>>
        BY <2>3, <2>a DEF PostRollback
      <3>2. work'[w].script[1].file = "applied"
        <4>1. PICK o : work'[w].script = RollbackCalls(o)
          BY <2>3, RollbackEffect
        <4>2. QED
          BY <4>1 DEF RollbackCalls, Call
      <3>3. QED
        BY <2>b, <3>1, <3>2, NothingDue
    <2>4. CASE NextVerdict(w)
      <3>1. UNCHANGED logs /\ work[w].script = <<>>
        BY <2>4 DEF NextVerdict
      <3>2. work'[w].script[1].event # "rolled_back"
        <4>1. PICK o : work'[w].script = ReviewCalls(o, o \in work[w].ticked)
          BY <2>4, VerdictEffect
        <4>2. QED
          BY <4>1 DEF ReviewCalls, Call
      <3>3. QED
        BY <2>b, <3>1, <3>2, NothingDue
    <2>5. CASE NextOverride(w)
      <3>1. UNCHANGED logs /\ work[w].script = <<>>
        BY <2>5 DEF NextOverride
      <3>2. work'[w].script[1].file = "applied"
        <4>1. PICK o : work'[w].script = ApplyCalls(o)
          BY <2>5, OverrideEffect
        <4>2. QED
          BY <4>1 DEF ApplyCalls, Call
      <3>3. QED
        BY <2>b, <3>1, <3>2, NothingDue
    <2>6. CASE Summarize(w)
      <3>1. UNCHANGED logs /\ work[w].script = <<>>
        BY <2>6 DEF Summarize
      <3>2. work'[w].script[1].file = "history"
        <4>1. work'[w].script = <<Call("history", "run", Run(work[w].req))>>
          BY <2>6, SummaryEffect
        <4>2. QED
          BY <4>1 DEF Call
      <3>3. QED
        BY <2>b, <3>1, <3>2, NothingDue
    <2>7. CASE Respond(w)
      <3>1. UNCHANGED logs /\ work[w].script = <<>> /\ work'[w].script = <<>>
        BY <2>7, IdleEffect DEF Respond, Idle
      <3>2. QED
        BY <2>b, <3>1
    <2>8. CASE WriteFails(w)
      <3>1. UNCHANGED logs /\ work'[w].script = <<>>
        <4>1. UNCHANGED logs /\ work'[w] = Idle
          BY <2>8, IdleEffect DEF WriteFails
        <4>2. QED
          BY <4>1 DEF Idle
      <3>2. work[w].phase = "store" /\ Head(work[w].script).file # "feedback"
        BY <2>8 DEF WriteFails
      <3>3. Head(work[w].script) = work[w].script[1]
        BY <3>2 DEF TypeOK, WorkSet
      <3>4. QED
        BY <2>b, <3>1, <3>2, <3>3, NothingDue
    <2>9. CASE LoadApplied(w) \/ LoadLog(w)
      <3>1. UNCHANGED logs
        BY <2>9 DEF LoadApplied, LoadLog
      <3>2. QED
        BY <2>9, <2>b, <3>1, LoadEffect
    <2>10. CASE StoreApplied(w) \/ StoreLog(w)
      <3> DEFINE c == work[w].script[1]
      <3>1. work[w].phase = "store" /\ Stored(w)
        BY <2>10 DEF StoreApplied, StoreLog
      <3>2. c \in CallSet /\ 1 \in DOMAIN work[w].script /\ work[w].script # <<>>
        BY <3>1, StoreEffect DEF TypeOK
      <3>3. \/ work'[w].script = <<>>
            \/ 2 \in DOMAIN work[w].script /\ work'[w].script[1] = work[w].script[2]
        <4>a. work[w].script \in Seq(CallSet) /\ work'[w].script = Tail(work[w].script)
          BY <3>1, StoreEffect DEF TypeOK, WorkSet
        <4>1. work'[w].script \in Seq(CallSet)
          BY <3>2, <4>a
        <4>2. work'[w].script # <<>> => 1 \in DOMAIN work'[w].script
          BY <4>1
        <4>3. QED
          BY <3>1, <4>2, StoreEffect
      <3>4. ASSUME ~ (c.file = "ledger" /\ c.event = "rolled_back")
            PROVE  DueOf(work'[w].script) = {}
        <4>1. CASE work'[w].script = <<>>
          BY <4>1, NothingDue
        <4>2. CASE 2 \in DOMAIN work[w].script /\ work'[w].script[1] = work[w].script[2]
          <5>1. work[w].script[2].file # "feedback" \/ work[w].script[2].event # "rolled_back"
            <6>1. SUFFICES ASSUME work[w].script[2].file = "feedback", work[w].script[2].event = "rolled_back"
                           PROVE  FALSE
              OBVIOUS
            <6>2. work[w].script[2 - 1] = Call("ledger", "rolled_back", work[w].script[2].ov)
              BY <2>a, <4>2, <6>1 DEF Chained
            <6>3. QED
              BY <3>4, <6>2 DEF Call
          <5>2. QED
            BY <4>2, <5>1, NothingDue
        <4>3. QED
          BY <3>3, <4>1, <4>2
      <3>5. CASE StoreApplied(w)
        <4>1. UNCHANGED logs /\ c.file = "applied"
          BY <3>5, StoreAppliedEffect
        <4>2. DueOf(work[w].script) = {} /\ DueOf(work'[w].script) = {}
          BY <3>4, <4>1, NothingDue
        <4>3. QED
          BY <2>b, <4>1, <4>2
      <3>6. CASE StoreLog(w)
        <4>1. /\ F' = F \cup (IF c.file = "feedback" /\ c.event = "rolled_back" THEN {c.ov} ELSE {})
              /\ L' = L \cup (IF c.file = "ledger" /\ c.event = "rolled_back" THEN {c.ov} ELSE {})
          BY <3>6, AboutGrows DEF Logs
        <4>2. F \cup DueOf(work[w].script) = L
          BY DueIsOf DEF FeedbackInv
        <4>3. SUFFICES F' \cup DueOf(work'[w].script) = L'
          BY DueIsOf DEF FeedbackInv
        <4>4. CASE c.file = "ledger" /\ c.event = "rolled_back"
          <5>1. 2 \in DOMAIN work[w].script /\ work[w].script[2] = Call("feedback", "rolled_back", c.ov)
            <6>1. 1 + 1 \in DOMAIN work[w].script /\ work[w].script[1 + 1] = Call("feedback", "rolled_back", c.ov)
              BY <2>a, <3>2, <4>4 DEF Chained
            <6>2. QED
              BY <6>1
          <5>2. work'[w].script # <<>> /\ work'[w].script[1] = work[w].script[2]
            <6>1. 2 - 1 \in DOMAIN work'[w].script /\ work'[w].script[2 - 1] = work[w].script[2]
              BY <3>1, <5>1, StoreEffect
            <6>2. QED
              BY <6>1
          <5>3. DueOf(work'[w].script) = {c.ov}
            BY <5>1, <5>2 DEF DueOf, Call
          <5>4. DueOf(work[w].script) = {}
            BY <4>4, NothingDue
          <5>5. QED
            BY <4>1, <4>2, <4>4, <5>3, <5>4
        <4>5. CASE c.file = "feedback" /\ c.event = "rolled_back"
          <5>1. c = Call("feedback", "rolled_back", c.ov)
            BY <3>2, <4>5 DEF Call, CallSet
          <5>2. DueOf(work[w].script) = {c.ov}
            BY <3>2, <5>1 DEF DueOf
          <5>3. DueOf(work'[w].script) = {}
            BY <3>4, <4>5
          <5>4. QED
            BY <4>1, <4>2, <4>5, <5>2, <5>3
        <4>6. CASE c.file \notin {"feedback", "ledger"} \/ c.event # "rolled_back"
          BY <3>4, <4>1, <4>2, <4>6, NothingDue
        <4>7. QED
          BY <4>4, <4>5, <4>6
      <3>7. QED
        BY <2>10, <3>5, <3>6
    <2>11. QED
      BY <1>3, <2>1, <2>2, <2>3, <2>4, <2>5, <2>6, <2>7, <2>8, <2>9, <2>10 DEF Step
  <1>4. QED
    BY <1>1, <1>2, <1>3 DEF Next

\* A rollback that ran to its end, or was cut short by any failing write but
\* that of the calibration log itself, leaves the same mark in the ledger and
\* in the calibration log, so the penalty it carries is neither lost nor
\* counted for an override still active.
THEOREM FeedbackFollowsLedger ==
  ASSUME Serial, MaxCrashes = 0, "feedback" \notin FailAt
  PROVE  Spec => []FeedbackMatchesLedger
  <1>1. Init => FeedbackInv
    BY DEF Init, Idle, FeedbackInv, FeedbackDue, About, Logs
  <1>2. TypeOK /\ OrderInv /\ RequestInv /\ FeedbackInv /\ [Next]_vars => FeedbackInv'
    BY FeedbackNext
  <1>3. RequestInv /\ FeedbackInv => FeedbackMatchesLedger
    <2>1. RequestInv /\ Quiet => FeedbackDue = {}
      BY DEF RequestInv, Quiet, FeedbackDue, Idle
    <2>2. QED
      BY <2>1 DEF FeedbackInv, FeedbackMatchesLedger
  <1>4. QED
    BY <1>1, <1>2, <1>3, SerialBase, PTL DEF Spec

-----------------------------------------------------------------------------
(* What the ledger will show once the entry that is due is in.             *)

\* The active overrides after the ledger entry a script starts with, if any.
Extended(active, s) ==
  IF s # <<>> /\ s[1].file = "ledger"
  THEN {o \in active : o.fn # s[1].ov.fn} \cup (IF s[1].event = "applied" THEN {s[1].ov} ELSE {})
  ELSE active

LEMMA ScriptHead ==
  ASSUME TypeOK, NEW w \in Workers, work[w].script # <<>>
  PROVE  Head(work[w].script) = work[w].script[1] /\ 1 \in DOMAIN work[w].script
  BY DEF TypeOK, WorkSet

\* The ledger call a script starts with, if any.
DueIn(s) == IF s # <<>> /\ s[1].file = "ledger" THEN {s[1]} ELSE {}

LEMMA DueCallsAre ==
  ASSUME Serial, TypeOK, NEW w \in Workers
  PROVE  DueCalls = DueIn(work[w].script)
  <1>1. \A v \in Workers : v = w
    BY DEF Serial
  <1>2. QED
    BY <1>1, ScriptHead DEF DueCalls, DueIn

\* The same of the state a step leads to.
LEMMA DueCallsWillBe ==
  ASSUME Serial, TypeOK', NEW w \in Workers
  PROVE  DueCalls' = DueIn(work'[w].script)
  <1>1. \A v \in Workers : v = w
    BY DEF Serial
  <1>2. work'[w].script # <<>> => Head(work'[w].script) = work'[w].script[1]
    BY DEF TypeOK, WorkSet
  <1>3. QED
    BY <1>1, <1>2 DEF DueCalls, DueIn

LEMMA SoonIs ==
  ASSUME Serial, TypeOK, NEW w \in Workers
  PROVE  SoonActive = Extended(LedgerActive, work[w].script)
  BY DueCallsAre DEF SoonActive, Extended, DueIn

LEMMA SoonWillBe ==
  ASSUME Serial, TypeOK', NEW w \in Workers
  PROVE  SoonActive' = Extended(LedgerActive', work'[w].script)
  BY DueCallsWillBe DEF SoonActive, Extended, DueIn

\* One function, one active override, whatever the ledger holds.
LEMMA OnePerFunction ==
  ASSUME TypeOK, NEW a \in LedgerActive, NEW b \in LedgerActive, a.fn = b.fn
  PROVE  a = b
  <1>1. PICK i \in DOMAIN logs["ledger"] :
          /\ logs["ledger"][i].ov = a
          /\ \A j \in DOMAIN logs["ledger"] : logs["ledger"][j].ov.fn = a.fn => j <= i
    BY DEF LedgerActive
  <1>2. PICK k \in DOMAIN logs["ledger"] :
          /\ logs["ledger"][k].ov = b
          /\ \A j \in DOMAIN logs["ledger"] : logs["ledger"][j].ov.fn = b.fn => j <= k
    BY DEF LedgerActive
  <1>3. DOMAIN logs["ledger"] \subseteq Nat
    <2>1. logs["ledger"] \in Seq(Entry)
      BY DEF TypeOK, Logs
    <2>2. QED
      BY <2>1
  <1>4. i = k
    BY <1>1, <1>2, <1>3
  <1>5. QED
    BY <1>1, <1>2, <1>4

LEMMA OneSoonPerFunction ==
  ASSUME Serial, TypeOK, NEW w \in Workers, NEW a \in SoonActive, NEW b \in SoonActive, a.fn = b.fn
  PROVE  a = b
  <1>1. SoonActive = Extended(LedgerActive, work[w].script)
    BY SoonIs
  <1>2. QED
    BY <1>1, OnePerFunction DEF Extended

\* already_learned and the active overrides are two readings of one ledger.
LEMMA LearnedIsActive ==
  ASSUME NEW f
  PROVE  LatestIs("applied", f) <=> \E o \in LedgerActive : o.fn = f
  BY DEF LatestIs, LedgerActive

LEMMA LedgerStays ==
  ASSUME logs'["ledger"] = logs["ledger"]
  PROVE  LedgerActive' = LedgerActive
  BY DEF LedgerActive

\* An entry supersedes the earlier ones about its function.
LEMMA LedgerGrows ==
  ASSUME TypeOK, RequestInv, NEW w \in Workers, StoreLog(w), work[w].script[1].file = "ledger"
  PROVE  LedgerActive' = Extended(LedgerActive, work[w].script)
  <1> DEFINE c == work[w].script[1]
             L == logs["ledger"]
             n == Len(L) + 1
             e == [event |-> c.event, ov |-> c.ov, at |-> work[w].at]
  <1>1. /\ \A i \in DOMAIN L : i \in DOMAIN logs'["ledger"] /\ logs'["ledger"][i] = L[i]
        /\ \A i \in DOMAIN logs'["ledger"] :
             (i \in DOMAIN L /\ logs'["ledger"][i] = L[i]) \/ (i = n /\ logs'["ledger"][i] = e)
        /\ n \in DOMAIN logs'["ledger"] /\ logs'["ledger"][n] = e
    BY LogGrows DEF Logs
  <1>2. \A i \in DOMAIN L : i \in Nat /\ i < n
    <2>1. L \in Seq(Entry)
      BY DEF TypeOK, Logs
    <2>2. QED
      BY <2>1
  <1>3. n \in Nat
    <2>1. L \in Seq(Entry)
      BY DEF TypeOK, Logs
    <2>2. QED
      BY <2>1
  <1>4. e.event = c.event /\ e.ov = c.ov
    OBVIOUS
  <1>5. work[w].script # <<>>
    BY StoreEffect DEF StoreLog, TypeOK
  <1> HIDE DEF c, L, n, e
  <1>6. ASSUME NEW o \in LedgerActive'
        PROVE  (o \in LedgerActive /\ o.fn # c.ov.fn) \/ (o = c.ov /\ c.event = "applied")
    <2>1. PICK i \in DOMAIN logs'["ledger"] :
            /\ logs'["ledger"][i].ov = o /\ logs'["ledger"][i].event = "applied"
            /\ \A j \in DOMAIN logs'["ledger"] : logs'["ledger"][j].ov.fn = o.fn => j <= i
      BY DEF LedgerActive
    <2>2. CASE i \in DOMAIN L /\ logs'["ledger"][i] = L[i]
      <3>1. o.fn # c.ov.fn
        BY <1>1, <1>2, <1>3, <1>4, <2>1, <2>2
      <3>2. \A j \in DOMAIN L : L[j].ov.fn = o.fn => j <= i
        BY <1>1, <2>1
      <3>3. o \in LedgerActive
        BY <2>1, <2>2, <3>2 DEF LedgerActive, L
      <3>4. QED
        BY <3>1, <3>3
    <2>3. CASE i = n /\ logs'["ledger"][i] = e
      BY <1>4, <2>1, <2>3
    <2>4. QED
      BY <1>1, <2>2, <2>3
  <1>7. ASSUME NEW o \in LedgerActive, o.fn # c.ov.fn
        PROVE  o \in LedgerActive'
    <2>1. PICK i \in DOMAIN L :
            /\ L[i].ov = o /\ L[i].event = "applied"
            /\ \A j \in DOMAIN L : L[j].ov.fn = o.fn => j <= i
      BY DEF LedgerActive, L
    <2>2. i \in DOMAIN logs'["ledger"] /\ logs'["ledger"][i] = L[i]
      BY <1>1
    <2>3. \A j \in DOMAIN logs'["ledger"] : logs'["ledger"][j].ov.fn = o.fn => j <= i
      BY <1>1, <1>4, <1>7, <2>1
    <2>4. QED
      BY <2>1, <2>2, <2>3 DEF LedgerActive
  <1>8. ASSUME c.event = "applied"
        PROVE  c.ov \in LedgerActive'
    <2>1. logs'["ledger"][n].ov = c.ov /\ logs'["ledger"][n].event = "applied"
      BY <1>1, <1>4, <1>8
    <2>2. \A j \in DOMAIN logs'["ledger"] : j <= n
      BY <1>1, <1>2, <1>3
    <2>3. QED
      BY <1>1, <2>1, <2>2 DEF LedgerActive
  <1>9. QED
    BY <1>5, <1>6, <1>7, <1>8 DEF Extended, c

\* How a step moves the request it serves with respect to the ledger: it
\* changes the applied set, and the entry that accounts for it becomes due;
\* it writes the entry that was due; or it does neither.
LEMMA HeadStep ==
  ASSUME Serial, "ledger" \notin FailAt, TypeOK, RequestInv, NEW w \in Workers, Step(w)
  PROVE  \/ /\ applied' = applied /\ logs'["ledger"] = logs["ledger"] /\ ~ StoreApplied(w)
            /\ \/ work'[w].script = work[w].script
               \/ DueIn(work[w].script) = {} /\ DueIn(work'[w].script) = {}
         \/ /\ StoreApplied(w) /\ logs'["ledger"] = logs["ledger"]
            /\ DueIn(work[w].script) = {}
            /\ DueIn(work'[w].script) = {LedgerCallOf(work[w].script[1])}
         \/ /\ StoreLog(w) /\ applied' = applied /\ ~ StoreApplied(w)
            /\ DueIn(work[w].script) = {work[w].script[1]} /\ DueIn(work'[w].script) = {}
  <1>a. TypeOK'
    BY TypeNext DEF Next
  <1>d. Chained(work[w].script) /\ (work[w].phase = "idle" => work[w].script = <<>>)
    BY DEF RequestInv, Idle
  <1>e. ASSUME NEW s, s = <<>> \/ s[1].file # "ledger"
        PROVE  DueIn(s) = {}
    BY <1>e DEF DueIn
  <1>f. ASSUME UNCHANGED <<logs, applied>>, ~ StoreApplied(w),
               work[w].script = <<>> \/ work[w].script[1].file # "ledger",
               work'[w].script = <<>> \/ work'[w].script[1].file # "ledger"
        PROVE  /\ applied' = applied /\ logs'["ledger"] = logs["ledger"] /\ ~ StoreApplied(w)
               /\ DueIn(work[w].script) = {} /\ DueIn(work'[w].script) = {}
    BY <1>e, <1>f
  <1>g. StoreApplied(w) => work[w].phase = "store"
    BY DEF StoreApplied
  <1>h. StoreApplied(w) => Head(work[w].script).file = "applied" /\ Stored(w)
    BY DEF StoreApplied
  <1>1. CASE ShowReview(w) \/ PostReview(w)
    <2>1. UNCHANGED <<logs, applied>> /\ work[w].phase = "idle"
      BY <1>1 DEF ShowReview, PostReview
    <2>2. work'[w].script = <<>>
      BY <1>1, <1>d, <2>1, ReviewEffect DEF ShowReview
    <2>3. QED
      BY <1>d, <1>f, <1>g, <2>1, <2>2
  <1>2. CASE PostRollback(w)
    <2>1. UNCHANGED <<logs, applied>> /\ work[w].phase = "idle"
      BY <1>2 DEF PostRollback
    <2>2. PICK o : work'[w].script = RollbackCalls(o)
      BY <1>2, RollbackEffect
    <2>3. work'[w].script[1].file = "applied"
      BY <2>2 DEF RollbackCalls, Call
    <2>4. QED
      BY <1>d, <1>f, <1>g, <2>1, <2>3
  <1>3. CASE NextVerdict(w)
    <2>1. UNCHANGED <<logs, applied>> /\ work[w].phase = "load" /\ work[w].script = <<>>
      BY <1>3 DEF NextVerdict
    <2>2. PICK o : work'[w].script = ReviewCalls(o, o \in work[w].ticked)
      BY <1>3, VerdictEffect
    <2>3. work'[w].script[1].file = "feedback"
      BY <2>2 DEF ReviewCalls, Call
    <2>4. QED
      BY <1>f, <1>g, <2>1, <2>3
  <1>4. CASE NextOverride(w)
    <2>1. UNCHANGED <<logs, applied>> /\ work[w].phase = "load" /\ work[w].script = <<>>
      BY <1>4 DEF NextOverride
    <2>2. PICK o : work'[w].script = ApplyCalls(o)
      BY <1>4, OverrideEffect
    <2>3. work'[w].script[1].file = "applied"
      BY <2>2 DEF ApplyCalls, Call
    <2>4. QED
      BY <1>f, <1>g, <2>1, <2>3
  <1>5. CASE Summarize(w)
    <2>1. UNCHANGED <<logs, applied>> /\ work[w].phase = "load" /\ work[w].script = <<>>
      BY <1>5 DEF Summarize
    <2>2. work'[w].script = <<Call("history", "run", Run(work[w].req))>>
      BY <1>5, SummaryEffect
    <2>3. work'[w].script[1].file = "history"
      BY <2>2 DEF Call
    <2>4. QED
      BY <1>f, <1>g, <2>1, <2>3
  <1>6. CASE Respond(w)
    <2>1. UNCHANGED <<logs, applied>> /\ work[w].phase = "load" /\ work[w].script = <<>>
      BY <1>6 DEF Respond
    <2>2. work'[w].script = <<>>
      BY <1>6, IdleEffect DEF Idle
    <2>3. QED
      BY <1>f, <1>g, <2>1, <2>2
  <1>7. CASE LoadApplied(w) \/ LoadLog(w)
    <2>1. UNCHANGED <<logs, applied>> /\ work[w].phase = "load"
      BY <1>7 DEF LoadApplied, LoadLog
    <2>2. work'[w].script = work[w].script
      BY <1>7, LoadEffect
    <2>3. QED
      BY <1>g, <2>1, <2>2
  <1>8. CASE WriteFails(w)
    <2>1. /\ UNCHANGED <<logs, applied>> /\ work'[w] = Idle /\ work[w].phase = "store"
          /\ Head(work[w].script).file # "ledger"
      BY <1>8, IdleEffect DEF WriteFails
    <2>2. work'[w].script = <<>>
      BY <2>1 DEF Idle
    <2>3. work[w].script # <<>> => work[w].script[1].file # "ledger"
      BY <2>1, ScriptHead
    <2>4. ~ StoreApplied(w)
      <3>1. work'[w].phase # "load"
        BY <2>1 DEF Idle
      <3>2. QED
        BY <1>g, <1>h, <3>1, StoreEffect
    <2>5. QED
      BY <1>f, <2>1, <2>2, <2>3, <2>4
  <1>9. ASSUME Stored(w), work[w].phase = "store"
        PROVE  /\ work[w].script[1].file # "applied" =>
                    work'[w].script = <<>> \/ work'[w].script[1].file # "ledger"
               /\ work[w].script[1].file = "applied" =>
                    work'[w].script # <<>> /\ work'[w].script[1] = LedgerCallOf(work[w].script[1])
    <2>1. work'[w].script \in Seq(CallSet)
      BY <1>a DEF TypeOK, WorkSet
    <2>2. work'[w].script = <<>> \/ 1 \in DOMAIN work'[w].script
      BY <2>1
    <2>3. 1 \in DOMAIN work'[w].script =>
            2 \in DOMAIN work[w].script /\ work'[w].script[1] = work[w].script[2]
      <3>1. 1 \in DOMAIN work'[w].script =>
              1 + 1 \in DOMAIN work[w].script /\ work'[w].script[1] = work[w].script[1 + 1]
        BY <1>9, StoreEffect
      <3>2. QED
        BY <3>1
    <2>4. CASE work[w].script[1].file # "applied"
      <3>1. \A i \in DOMAIN work[w].script : i # 1 => work[w].script[i].file # "ledger"
        BY <1>d, <2>4 DEF Chained
      <3>2. QED
        BY <2>2, <2>3, <2>4, <3>1
    <2>5. CASE work[w].script[1].file = "applied"
      <3>1. 2 \in DOMAIN work[w].script /\ work[w].script[2] = LedgerCallOf(work[w].script[1])
        BY <1>9, <1>d, <2>5, StoreEffect DEF Chained
      <3>2. 2 - 1 \in DOMAIN work'[w].script /\ work'[w].script[2 - 1] = work[w].script[2]
        BY <1>9, <3>1, StoreEffect
      <3>3. QED
        BY <2>1, <2>5, <3>1, <3>2
    <2>6. QED
      BY <2>4, <2>5
  <1>10. CASE StoreApplied(w)
    <2> DEFINE c == work[w].script[1]
    <2>1. /\ work[w].phase = "store" /\ Stored(w) /\ logs' = logs /\ c.file = "applied"
          /\ work[w].script # <<>>
      BY <1>10, <1>g, <1>h, StoreAppliedEffect DEF TypeOK
    <2>2. work'[w].script # <<>> /\ work'[w].script[1] = LedgerCallOf(c)
      BY <1>9, <2>1
    <2>3. DueIn(work'[w].script) = {LedgerCallOf(c)}
      BY <2>2 DEF DueIn, LedgerCallOf, Call
    <2>4. QED
      BY <1>10, <1>e, <2>1, <2>3
  <1>11. CASE StoreLog(w)
    <2>1. work[w].phase = "store" /\ Stored(w) /\ applied' = applied
      BY <1>11 DEF StoreLog
    <2>2. work[w].script[1].file \in Logs /\ work[w].script[1].file # "applied" /\ work[w].script # <<>>
      BY <1>11, <2>1, StoreLogEffect DEF Logs, TypeOK
    <2>3. DueIn(work'[w].script) = {}
      BY <1>9, <1>e, <2>1, <2>2
    <2>4. ~ StoreApplied(w)
      BY <1>h, <2>2, ScriptHead
    <2>5. CASE work[w].script[1].file = "ledger"
      BY <1>11, <2>1, <2>2, <2>3, <2>4, <2>5 DEF DueIn
    <2>6. CASE work[w].script[1].file # "ledger"
      <3>1. logs'["ledger"] = logs["ledger"]
        BY <1>11, <2>6, StoreLogEffect DEF TypeOK, Logs
      <3>2. QED
        BY <1>e, <2>1, <2>3, <2>4, <2>6, <3>1
    <2>7. QED
      BY <2>5, <2>6
  <1>12. QED
    BY <1>1, <1>2, <1>3, <1>4, <1>5, <1>6, <1>7, <1>8, <1>10, <1>11 DEF Step

\* Only a change of the applied set changes what the ledger will show, and
\* it changes it by the entry that is next in its script.
LEMMA SoonStep ==
  ASSUME Serial, "ledger" \notin FailAt, TypeOK, RequestInv, NEW w \in Workers, Step(w)
  PROVE  \/ /\ SoonActive' = SoonActive /\ applied' = applied
            /\ ~ StoreApplied(w)
         \/ /\ StoreApplied(w)
            /\ SoonActive' = {o \in SoonActive : o.fn # work[w].script[1].ov.fn}
                 \cup (IF work[w].script[1].event = "add" THEN {work[w].script[1].ov} ELSE {})
  <1> DEFINE c == work[w].script[1]
  <1>1. SoonActive = Extended(LedgerActive, work[w].script)
    BY SoonIs
  <1>2. SoonActive' = Extended(LedgerActive', work'[w].script)
    BY TypeNext, SoonWillBe DEF Next
  <1>3. \A active, s : DueIn(s) = {} => Extended(active, s) = active
    BY DEF DueIn, Extended
  <1>4. CASE /\ applied' = applied /\ logs'["ledger"] = logs["ledger"] /\ ~ StoreApplied(w)
             /\ \/ work'[w].script = work[w].script
                \/ DueIn(work[w].script) = {} /\ DueIn(work'[w].script) = {}
    BY <1>1, <1>2, <1>3, <1>4, LedgerStays
  <1>5. CASE /\ StoreApplied(w) /\ logs'["ledger"] = logs["ledger"]
             /\ DueIn(work[w].script) = {}
             /\ DueIn(work'[w].script) = {LedgerCallOf(c)}
    <2>1. SoonActive = LedgerActive /\ LedgerActive' = LedgerActive
      BY <1>1, <1>3, <1>5, LedgerStays
    <2>2. work'[w].script # <<>> /\ work'[w].script[1] = LedgerCallOf(c)
      BY <1>5 DEF DueIn
    <2>3. /\ work'[w].script[1].file = "ledger" /\ work'[w].script[1].ov = c.ov
          /\ (work'[w].script[1].event = "applied") <=> (c.event = "add")
      BY <2>2 DEF LedgerCallOf, Call
    <2>4. QED
      BY <1>2, <1>5, <2>1, <2>2, <2>3 DEF Extended
  <1>6. CASE /\ StoreLog(w) /\ applied' = applied /\ ~ StoreApplied(w)
             /\ DueIn(work[w].script) = {c} /\ DueIn(work'[w].script) = {}
    <2>1. c.file = "ledger"
      BY <1>6 DEF DueIn
    <2>2. QED
      BY <1>1, <1>2, <1>3, <1>6, <2>1, LedgerGrows
  <1>7. QED
    BY <1>4, <1>5, <1>6, HeadStep

-----------------------------------------------------------------------------
(* What a request plans stays possible until it is done.                   *)

\* When no request is served the ledger has nothing more to come.
LEMMA SoonWhenIdle ==
  ASSUME Serial, TypeOK, NEW w \in Workers, work[w].script = <<>>
  PROVE  SoonActive = LedgerActive
  BY SoonIs DEF Extended

LEMMA PlanNext ==
  ASSUME Serial, "ledger" \notin FailAt, TypeOK, RequestInv, PlanInv, [Next]_vars
  PROVE  PlanInv'
  <1>1. CASE UNCHANGED vars
    <2>1. SoonActive' = SoonActive /\ work' = work /\ applied' = applied
      BY <1>1 DEF vars, SoonActive, DueCalls, LedgerActive
    <2>2. QED
      BY <2>1 DEF PlanInv, PlannedThread
  <1>2. CASE Crash
    <2>1. \A w \in Workers : work'[w] = Idle
      BY <1>2 DEF Crash
    <2>2. QED
      BY <2>1 DEF PlanInv, PlannedThread, Idle
  <1>3. ASSUME NEW w \in Workers, Step(w)
        PROVE  PlanInv'
    <2>a. PlannedThread(work[w]) /\ Chained(work[w].script)
      BY DEF PlanInv, RequestInv
    <2>b. ASSUME PlannedThread(work[w])'
          PROVE  PlanInv'
      BY <2>b DEF PlanInv, Serial
    <2>c. ~ StoreApplied(w) => SoonActive' = SoonActive /\ applied' = applied
      BY <1>3, SoonStep
    <2>d. StoreApplied(w) => work[w].phase = "store" /\ work'[w].phase = "load"
      BY StoreEffect DEF StoreApplied
    <2>e. work[w].phase = "idle" => work[w].script = <<>> /\ work[w].apply = {}
      BY DEF RequestInv, Idle
    <2>f. ASSUME SoonActive' = SoonActive, applied' = applied, work'[w].apply \subseteq work[w].apply,
                 \A i \in DOMAIN work'[w].script : work'[w].script[i].event \notin {"add", "remove"}
          PROVE  PlanInv'
      <3>1. PlannedThread(work[w])'
        BY <2>a, <2>f DEF PlannedThread
      <3>2. QED
        BY <2>b, <3>1
    <2>1. CASE ShowReview(w)
      <3>1. work' = work /\ work[w].phase = "idle"
        BY <2>1 DEF ShowReview
      <3>2. QED
        BY <2>a, <2>b, <2>c, <2>d, <3>1 DEF PlannedThread
    <2>2. CASE PostReview(w)
      <3>1. work[w].phase = "idle"
        BY <2>2 DEF PostReview
      <3>2. SoonActive' = LedgerActive
        BY <2>c, <2>d, <2>e, <3>1, SoonWhenIdle
      <3>3. /\ work'[w].script = <<>> /\ work'[w].apply \subseteq work'[w].review
            /\ \A o \in work'[w].review : o.fn \in Functions \ AlreadyLearned
            /\ \A o, p \in work'[w].review : o.fn = p.fn => o = p
        BY <2>2, ReviewEffect
      <3>4. \A o \in work'[w].apply, a \in LedgerActive : a.fn # o.fn
        BY <3>3, LearnedIsActive DEF AlreadyLearned
      <3>5. PlannedThread(work[w])'
        BY <3>2, <3>3, <3>4 DEF PlannedThread
      <3>6. QED
        BY <2>b, <3>5
    <2>3. CASE PostRollback(w)
      <3>1. work[w].phase = "idle" /\ applied' = applied
        BY <2>3 DEF PostRollback
      <3>2. PICK o \in applied : work'[w].script = RollbackCalls(o) /\ work'[w].apply = {}
        BY <2>3, RollbackEffect
      <3>3. \A i \in DOMAIN work'[w].script : work'[w].script[i].event # "add" /\ work'[w].script[i].ov = o
        BY <3>2 DEF RollbackCalls, Call
      <3>4. PlannedThread(work[w])'
        BY <3>1, <3>2, <3>3 DEF PlannedThread
      <3>5. QED
        BY <2>b, <3>4
    <2>4. CASE NextVerdict(w)
      <3>1. work[w].phase = "load"
        BY <2>4 DEF NextVerdict
      <3>2. PICK o : /\ work'[w].script = ReviewCalls(o, o \in work[w].ticked)
                     /\ work'[w].apply = work[w].apply
        BY <2>4, VerdictEffect
      <3>3. \A i \in DOMAIN work'[w].script : work'[w].script[i].event \notin {"add", "remove"}
        BY <3>2 DEF ReviewCalls, Call
      <3>4. QED
        BY <2>c, <2>d, <2>f, <3>1, <3>2, <3>3
    <2>5. CASE NextOverride(w)
      <3>1. work[w].phase = "load"
        BY <2>5 DEF NextOverride
      <3>2. PICK o \in work[w].apply :
              work'[w].script = ApplyCalls(o) /\ work'[w].apply = work[w].apply \ {o}
        BY <2>5, OverrideEffect
      <3>3. \A i \in DOMAIN work'[w].script : work'[w].script[i].event # "remove" /\ work'[w].script[i].ov = o
        BY <3>2 DEF ApplyCalls, Call
      <3>4. SoonActive' = SoonActive
        BY <2>c, <2>d, <3>1
      <3>5. \A a \in SoonActive \cup (work[w].apply \ {o}) : a.fn # o.fn
        BY <2>a DEF PlannedThread
      <3>6. PlannedThread(work[w])'
        BY <2>a, <3>2, <3>3, <3>4, <3>5 DEF PlannedThread
      <3>7. QED
        BY <2>b, <3>6
    <2>6. CASE Summarize(w)
      <3>1. work[w].phase = "load"
        BY <2>6 DEF Summarize
      <3>2. /\ work'[w].script = <<Call("history", "run", Run(work[w].req))>>
            /\ work'[w].apply = {}
        BY <2>6, SummaryEffect
      <3>3. \A i \in DOMAIN work'[w].script : work'[w].script[i].event \notin {"add", "remove"}
        BY <3>2 DEF Call
      <3>4. QED
        BY <2>c, <2>d, <2>f, <3>1, <3>2, <3>3
    <2>7. CASE Respond(w) \/ WriteFails(w)
      <3>1. work'[w].script = <<>> /\ work'[w].apply = {}
        BY <2>7, IdleEffect DEF Idle
      <3>2. PlannedThread(work[w])'
        BY <3>1 DEF PlannedThread
      <3>3. QED
        BY <2>b, <3>2
    <2>8. CASE LoadApplied(w) \/ LoadLog(w)
      <3>1. /\ work[w].phase = "load" /\ work'[w].script = work[w].script
            /\ work'[w].apply = work[w].apply
        BY <2>8, LoadEffect
      <3>2. SoonActive' = SoonActive /\ applied' = applied
        BY <2>c, <2>d, <3>1
      <3>3. PlannedThread(work[w])'
        BY <2>a, <3>1, <3>2 DEF PlannedThread
      <3>4. QED
        BY <2>b, <3>3
    <2>h. ASSUME Stored(w), work[w].phase = "store"
          PROVE  \A i \in DOMAIN work'[w].script : work'[w].script[i].event \notin {"add", "remove"}
      <3>1. SUFFICES ASSUME NEW i \in DOMAIN work[w].script, i # 1
                     PROVE  work[w].script[i].event \notin {"add", "remove"}
        BY <2>h, StoreEffect
      <3>2. work[w].script[i].file # "applied"
        BY <2>a, <3>1 DEF Chained
      <3>3. work[w].script[i] \in CallSet
        BY NumberTypes
      <3>4. QED
        BY <3>2, <3>3 DEF CallSet, Events
    <2>9. CASE StoreApplied(w)
      <3> DEFINE c == work[w].script[1]
      <3>1. work[w].phase = "store" /\ Stored(w)
        BY <2>9 DEF StoreApplied
      <3>2. /\ work'[w].apply = work[w].apply /\ 1 \in DOMAIN work[w].script
            /\ c.event \in {"add", "remove"}
        BY <2>9, <3>1, StoreEffect, StoreAppliedEffect
      <3>3. \A i \in DOMAIN work'[w].script : work'[w].script[i].event \notin {"add", "remove"}
        BY <2>h, <3>1
      <3>4. SoonActive' = {o \in SoonActive : o.fn # c.ov.fn} \cup (IF c.event = "add" THEN {c.ov} ELSE {})
        BY <1>3, <2>9, SoonStep
      <3>5. c.event = "add" => \A o \in work[w].apply : o.fn # c.ov.fn
        BY <2>a, <3>2 DEF PlannedThread
      <3>6. \A o \in work[w].apply, a \in SoonActive' : a.fn # o.fn
        BY <2>a, <3>4, <3>5 DEF PlannedThread
      <3>7. PlannedThread(work[w])'
        BY <2>a, <3>2, <3>3, <3>6 DEF PlannedThread
      <3>8. QED
        BY <2>b, <3>7
    <2>10. CASE StoreLog(w)
      <3>1. work[w].phase = "store" /\ Stored(w)
        BY <2>10 DEF StoreLog
      <3>2. work'[w].apply = work[w].apply
        BY <3>1, StoreEffect
      <3>3. \A i \in DOMAIN work'[w].script : work'[w].script[i].event \notin {"add", "remove"}
        BY <2>h, <3>1
      <3>4. ~ StoreApplied(w)
        <4>1. Head(work[w].script).file \in Logs
          BY <2>10 DEF StoreLog
        <4>2. QED
          BY <4>1 DEF StoreApplied, Logs
      <3>5. QED
        BY <2>c, <2>f, <3>2, <3>3, <3>4
    <2>11. QED
      BY <1>3, <2>1, <2>2, <2>3, <2>4, <2>5, <2>6, <2>7, <2>8, <2>9, <2>10 DEF Step
  <1>4. QED
    BY <1>1, <1>2, <1>3 DEF Next

-----------------------------------------------------------------------------
(* The ledger is accurate.                                                 *)

\* Distinct functions have distinct override names.
LEMMA NamesTellFunctions ==
  ASSUME DistinctNamesMangled, NEW a \in Override, NEW b \in Override, NameOf(a) = NameOf(b)
  PROVE  a.fn = b.fn
  BY DEF DistinctNamesMangled, NameOf, Override

\* While the ledger tallies, an override added is the only one of its
\* function, and the one removed is exactly the one meant.
LEMMA OneOverrideChanges ==
  ASSUME Serial, DistinctNamesMangled, TypeOK, RequestInv, LedgerInv,
         NEW w \in Workers, StoreApplied(w)
  PROVE  LET c == work[w].script[1]
         IN  /\ c.ov \in Override
             /\ \/ /\ c.event = "add" /\ \A a \in applied : a.fn # c.ov.fn
                   /\ applied' = applied \cup {c.ov}
                \/ /\ c.event = "remove" /\ c.ov \in applied
                   /\ \A a \in applied : a.fn = c.ov.fn <=> a = c.ov
                   /\ applied' = applied \ {c.ov}
  <1> DEFINE c == work[w].script[1]
  <1>1. PlannedThread(work[w]) /\ SoonActive = applied
    BY DEF LedgerInv, PlanInv
  <1>2. /\ c.event \in {"add", "remove"} /\ c.ov \in Override
        /\ applied' = AppliedAfter(applied, c)
    BY StoreAppliedEffect
  <1>3. 1 \in DOMAIN work[w].script
    BY StoreEffect DEF StoreApplied
  <1>4. \A a \in applied : NameOf(a) = NameOf(c.ov) => a.fn = c.ov.fn
    BY <1>2, NamesTellFunctions DEF TypeOK
  <1>5. CASE c.event = "add"
    <2>1. \A a \in applied : a.fn # c.ov.fn
      BY <1>1, <1>3, <1>5 DEF PlannedThread
    <2>2. applied' = applied \cup {c.ov}
      BY <1>2, <1>4, <1>5, <2>1 DEF AppliedAfter
    <2>3. QED
      BY <1>2, <1>5, <2>1, <2>2
  <1>6. CASE c.event = "remove"
    <2>1. c.ov \in applied
      BY <1>1, <1>3, <1>6 DEF PlannedThread
    <2>2. \A a \in applied : a.fn = c.ov.fn <=> a = c.ov
      BY <1>1, <2>1, OneSoonPerFunction
    <2>3. applied' = {a \in applied : NameOf(a) # NameOf(c.ov)}
      BY <1>2, <1>6 DEF AppliedAfter
    <2>4. applied' = applied \ {c.ov}
      BY <1>4, <2>2, <2>3
    <2>5. QED
      BY <1>2, <1>6, <2>1, <2>2, <2>4
  <1>7. QED
    BY <1>2, <1>5, <1>6

LEMMA LedgerNext ==
  ASSUME Serial, MaxCrashes = 0, "ledger" \notin FailAt, DistinctNamesMangled,
         TypeOK, RequestInv, LedgerInv, [Next]_vars
  PROVE  LedgerInv'
  <1>1. PlanInv /\ PlanInv' /\ SoonActive = applied
    BY PlanNext DEF LedgerInv
  <1>2. CASE UNCHANGED vars
    <2>1. SoonActive' = SoonActive /\ applied' = applied
      BY <1>2 DEF vars, SoonActive, DueCalls, LedgerActive
    <2>2. QED
      BY <1>1, <2>1 DEF LedgerInv
  <1>3. CASE Crash
    BY <1>3 DEF Crash, TypeOK
  <1>4. ASSUME NEW w \in Workers, Step(w)
        PROVE  LedgerInv'
    <2> DEFINE c == work[w].script[1]
    <2>1. CASE ~ StoreApplied(w)
      <3>1. SoonActive' = SoonActive /\ applied' = applied
        BY <1>4, <2>1, SoonStep
      <3>2. QED
        BY <1>1, <3>1 DEF LedgerInv
    <2>2. CASE StoreApplied(w)
      <3>1. SoonActive' = {o \in applied : o.fn # c.ov.fn} \cup (IF c.event = "add" THEN {c.ov} ELSE {})
        BY <1>1, <1>4, <2>2, SoonStep
      <3>2. \/ /\ c.event = "add" /\ \A a \in applied : a.fn # c.ov.fn
               /\ applied' = applied \cup {c.ov}
            \/ /\ c.event = "remove" /\ \A a \in applied : a.fn = c.ov.fn <=> a = c.ov
               /\ applied' = applied \ {c.ov}
        BY <2>2, OneOverrideChanges
      <3>3. SoonActive' = applied'
        BY <3>1, <3>2
      <3>4. QED
        BY <1>1, <3>3 DEF LedgerInv
    <2>3. QED
      BY <2>1, <2>2
  <1>5. QED
    BY <1>2, <1>3, <1>4 DEF Next

LEMMA LedgerInit == Init => LedgerInv
  BY DEF Init, Idle, LedgerInv, PlanInv, PlannedThread, SoonActive, DueCalls, LedgerActive, Logs

\* Nothing is due once every request has been answered.
LEMMA NothingDueWhenQuiet ==
  ASSUME RequestInv, Quiet
  PROVE  SoonActive = LedgerActive
  <1>1. DueCalls = {}
    BY DEF RequestInv, Quiet, DueCalls, Idle
  <1>2. QED
    BY <1>1 DEF SoonActive

LEMMA LedgerAlways ==
  ASSUME Serial, MaxCrashes = 0, "ledger" \notin FailAt, DistinctNamesMangled
  PROVE  Spec => [](TypeOK /\ RequestInv /\ LedgerInv)
  <1>1. Init => LedgerInv
    BY LedgerInit
  <1>2. TypeOK /\ RequestInv /\ LedgerInv /\ [Next]_vars => LedgerInv'
    BY LedgerNext
  <1>3. QED
    BY <1>1, <1>2, SerialBase, PTL DEF Spec

\* run_apply's promise ("the ledger is always an accurate record of exactly
\* what actually got applied, even when the client raises partway through"):
\* with one request at a time, no kill and a ledger that can be written, the
\* overrides the ledger shows as active are the applied ones whenever no
\* request is being served, whichever other file fails to be written and
\* whenever, as long as no two functions share a mangled name.
THEOREM LedgerIsAccurate ==
  ASSUME Serial, MaxCrashes = 0, "ledger" \notin FailAt, DistinctNamesMangled
  PROVE  Spec => []LedgerAccurate
  <1>1. RequestInv /\ LedgerInv => LedgerAccurate
    BY NothingDueWhenQuiet DEF LedgerInv, LedgerAccurate
  <1>2. QED
    BY <1>1, LedgerAlways, PTL

-----------------------------------------------------------------------------
(* Kills: one function per crash may be accounted for wrongly, no more.    *)

\* A step settles what was settled before it.
LEMMA StaysSettled ==
  ASSUME Serial, "ledger" \notin FailAt, DistinctNamesMangled, TypeOK, RequestInv, PlanInv,
         NEW w \in Workers, Step(w), NEW f \in Functions, Settled(f)
  PROVE  Settled(f)'
  <1> DEFINE c == work[w].script[1]
  <1>1. CASE ~ StoreApplied(w)
    <2>1. SoonActive' = SoonActive /\ applied' = applied
      BY <1>1, SoonStep
    <2>2. QED
      BY <2>1 DEF Settled
  <1>2. CASE StoreApplied(w)
    <2>1. /\ c.event \in {"add", "remove"} /\ c.ov \in Override
          /\ applied' = AppliedAfter(applied, c)
      BY <1>2, StoreAppliedEffect
    <2>2. 1 \in DOMAIN work[w].script /\ PlannedThread(work[w])
      BY <1>2, StoreEffect DEF StoreApplied, PlanInv
    <2>3. SoonActive' = {o \in SoonActive : o.fn # c.ov.fn} \cup (IF c.event = "add" THEN {c.ov} ELSE {})
      BY <1>2, SoonStep
    <2>4. \A a \in applied : NameOf(a) = NameOf(c.ov) => a.fn = c.ov.fn
      BY <2>1, NamesTellFunctions DEF TypeOK
    <2>5. CASE c.event = "add"
      <3>1. \A a \in SoonActive : a.fn # c.ov.fn
        BY <2>2, <2>5 DEF PlannedThread
      <3>2. SoonActive' = SoonActive \cup {c.ov}
        BY <2>3, <2>5, <3>1
      <3>3. applied' = applied \/ applied' = applied \cup {c.ov}
        BY <2>1, <2>5 DEF AppliedAfter
      <3>4. CASE f = c.ov.fn
        <4>1. \A a \in applied : a.fn # f
          BY <3>1, <3>4 DEF Settled
        <4>2. applied' = applied \cup {c.ov}
          BY <2>1, <2>4, <2>5, <3>4, <4>1 DEF AppliedAfter
        <4>3. QED
          BY <3>2, <3>4, <4>1, <4>2 DEF Settled
      <3>5. CASE f # c.ov.fn
        BY <3>2, <3>3, <3>5 DEF Settled
      <3>6. QED
        BY <3>4, <3>5
    <2>6. CASE c.event = "remove"
      <3>1. c.ov \in applied
        BY <2>2, <2>6 DEF PlannedThread
      <3>2. SoonActive' = {o \in SoonActive : o.fn # c.ov.fn}
        BY <2>3, <2>6
      <3>3. applied' = {a \in applied : NameOf(a) # NameOf(c.ov)}
        BY <2>1, <2>6 DEF AppliedAfter
      <3>4. CASE f = c.ov.fn
        <4>1. \A a \in applied' : a.fn # f
          BY <3>1, <3>3, <3>4 DEF Settled
        <4>2. QED
          BY <3>2, <3>4, <4>1 DEF Settled
      <3>5. CASE f # c.ov.fn
        <4>1. \A a \in applied : a.fn = f => a \in applied'
          BY <2>4, <3>3, <3>5
        <4>2. applied' \subseteq applied
          BY <3>3
        <4>3. QED
          BY <3>2, <3>5, <4>1, <4>2 DEF Settled
      <3>6. QED
        BY <3>4, <3>5
    <2>7. QED
      BY <2>1, <2>5, <2>6
  <1>3. QED
    BY <1>1, <1>2

\* A kill unsettles at most the function whose ledger entry was due.
LEMMA CrashUnsettles ==
  ASSUME Serial, TypeOK, Crash
  PROVE  \E f : Unsettled' \subseteq Unsettled \cup {f}
  <1>1. PICK w \in Workers : work[w].phase # "idle"
    BY DEF Crash
  <1>2. work'[w] = Idle /\ logs' = logs /\ applied' = applied
    BY DEF Crash
  <1>3. TypeOK'
    BY TypeNext DEF Next
  <1>4. SoonActive' = LedgerActive
    <2>1. SoonActive' = Extended(LedgerActive', work'[w].script)
      BY <1>3, SoonWillBe
    <2>2. work'[w].script = <<>>
      BY <1>2 DEF Idle
    <2>3. QED
      BY <1>2, <2>1, <2>2, LedgerStays DEF Extended
  <1>5. SoonActive = Extended(LedgerActive, work[w].script)
    BY SoonIs
  <1> DEFINE due == work[w].script[1].ov
  <1>6. \A o : o.fn # due.fn => (o \in SoonActive' <=> o \in SoonActive)
    BY <1>4, <1>5 DEF Extended
  <1>7. ASSUME NEW f \in Functions, f # due.fn, Settled(f)
        PROVE  Settled(f)'
    BY <1>2, <1>6, <1>7 DEF Settled
  <1>8. Unsettled' \subseteq Unsettled \cup {due.fn}
    BY <1>7 DEF Unsettled
  <1>9. QED
    BY <1>8

LEMMA DriftNext ==
  ASSUME Serial, "ledger" \notin FailAt, DistinctNamesMangled,
         TypeOK, RequestInv, DriftInv, [Next]_vars
  PROVE  DriftInv'
  <1>1. PlanInv /\ PlanInv' /\ IsFiniteSet(Unsettled) /\ Cardinality(Unsettled) <= crashes
    BY PlanNext DEF DriftInv
  <1>2. Cardinality(Unsettled) \in Nat /\ crashes \in Nat
    BY <1>1, FS_CardinalityType DEF TypeOK
  <1>3. ASSUME Unsettled' \subseteq Unsettled, crashes' = crashes
        PROVE  DriftInv'
    <2> DEFINE S == Unsettled
               T == Unsettled'
    <2>1. IsFiniteSet(S) /\ T \in SUBSET S
      BY <1>1, <1>3
    <2>2. IsFiniteSet(T) /\ Cardinality(T) <= Cardinality(S)
      <3> HIDE DEF S, T
      <3>1. QED
        BY <2>1, FS_Subset
    <2>3. Cardinality(T) \in Nat
      <3> HIDE DEF T
      <3>1. QED
        BY <2>2, FS_CardinalityType
    <2>4. Cardinality(T) <= crashes'
      <3> HIDE DEF T
      <3>1. QED
        BY <1>1, <1>2, <1>3, <2>2, <2>3
    <2>5. QED
      BY <1>1, <2>2, <2>4 DEF DriftInv
  <1>4. CASE UNCHANGED vars
    <2>1. SoonActive' = SoonActive /\ applied' = applied /\ crashes' = crashes
      BY <1>4 DEF vars, SoonActive, DueCalls, LedgerActive
    <2>2. Unsettled' \subseteq Unsettled
      BY <2>1 DEF Unsettled, Settled
    <2>3. QED
      BY <1>3, <2>1, <2>2
  <1>5. CASE Crash
    <2>1. PICK f : Unsettled' \subseteq Unsettled \cup {f}
      BY <1>5, CrashUnsettles
    <2>2. crashes' = crashes + 1
      BY <1>5 DEF Crash
    <2> DEFINE S == Unsettled \cup {f}
               T == Unsettled'
    <2>3. IsFiniteSet(S) /\ Cardinality(S) \in Nat /\ Cardinality(S) <= crashes + 1
      BY <1>1, <1>2, FS_AddElement
    <2>4. T \in SUBSET S
      BY <2>1
    <2>5. IsFiniteSet(T) /\ Cardinality(T) <= Cardinality(S)
      <3> HIDE DEF S, T
      <3>1. QED
        BY <2>3, <2>4, FS_Subset
    <2>6. Cardinality(T) \in Nat
      <3> HIDE DEF T
      <3>1. QED
        BY <2>5, FS_CardinalityType
    <2>7. Cardinality(T) <= crashes'
      <3> HIDE DEF S, T
      <3>1. QED
        BY <1>2, <2>2, <2>3, <2>5, <2>6
    <2>8. QED
      BY <1>1, <2>5, <2>7 DEF DriftInv
  <1>6. ASSUME NEW w \in Workers, Step(w)
        PROVE  DriftInv'
    <2>1. crashes' = crashes
      BY <1>6 DEF Step, ShowReview, PostReview, PostRollback, NextVerdict, NextOverride, Summarize,
                  Respond, LoadApplied, LoadLog, StoreApplied, StoreLog, WriteFails
    <2>2. \A f \in Functions : Settled(f) => Settled(f)'
      BY <1>1, <1>6, StaysSettled
    <2>3. Unsettled' \subseteq Unsettled
      BY <2>2 DEF Unsettled
    <2>4. QED
      BY <1>3, <2>1, <2>3
  <1>7. QED
    BY <1>4, <1>5, <1>6 DEF Next

LEMMA DriftInit == Init => DriftInv
  <1> SUFFICES ASSUME Init PROVE DriftInv
    OBVIOUS
  <1>1. PlanInv /\ SoonActive = {} /\ applied = {}
    BY LedgerInit DEF LedgerInv, Init
  <1>2. Unsettled = {}
    BY <1>1 DEF Unsettled, Settled
  <1>3. crashes = 0
    BY DEF Init
  <1>4. QED
    BY <1>1, <1>2, <1>3, FS_EmptySet DEF DriftInv

\* A kill between two writes leaves the applied set and the ledger in
\* disagreement about one function at most; later requests, later kills and
\* failing writes of any file but the ledger never spread the disagreement:
\* after n kills at most n functions are affected.
THEOREM DriftStaysBounded ==
  ASSUME Serial, "ledger" \notin FailAt, DistinctNamesMangled
  PROVE  Spec => []DriftBounded
  <1>1. Init => DriftInv
    BY DriftInit
  <1>2. TypeOK /\ RequestInv /\ DriftInv /\ [Next]_vars => DriftInv'
    BY DriftNext
  <1>3. TypeOK /\ RequestInv /\ DriftInv => DriftBounded
    <2> SUFFICES ASSUME TypeOK, RequestInv, DriftInv, Quiet
                 PROVE  Cardinality({f \in Functions :
                          LatestIs("applied", f) # (\E o \in applied : o.fn = f)}) <= crashes
      BY DEF DriftBounded
    <2> DEFINE T == {f \in Functions : LatestIs("applied", f) # (\E o \in applied : o.fn = f)}
               S == Unsettled
    <2>1. SoonActive = LedgerActive
      BY NothingDueWhenQuiet
    <2>2. ASSUME NEW f \in Functions, Settled(f)
          PROVE  LatestIs("applied", f) <=> (\E o \in applied : o.fn = f)
      BY <2>1, <2>2, LearnedIsActive DEF Settled
    <2>3. \A f \in Functions : LatestIs("applied", f) \in BOOLEAN
      BY DEF LatestIs
    <2>4. T \in SUBSET S
      BY <2>2, <2>3 DEF Unsettled
    <2>5. IsFiniteSet(S) /\ Cardinality(S) <= crashes /\ crashes \in Nat
      BY DEF DriftInv, TypeOK
    <2>6. IsFiniteSet(T) /\ Cardinality(T) <= Cardinality(S)
      <3> HIDE DEF S, T
      <3>1. QED
        BY <2>4, <2>5, FS_Subset
    <2>7. Cardinality(T) \in Nat /\ Cardinality(S) \in Nat
      <3> HIDE DEF S, T
      <3>1. QED
        BY <2>5, <2>6, FS_CardinalityType
    <2>8. Cardinality(T) <= crashes
      <3> HIDE DEF S, T
      <3>1. QED
        BY <2>5, <2>6, <2>7
    <2>9. QED
      BY <2>8
  <1>4. QED
    BY <1>1, <1>2, <1>3, SerialBase, PTL DEF Spec

-----------------------------------------------------------------------------
(* The files implement OverrideLog.                                        *)

\* What the trail keeps of a ledger entry.
Unstamp(e) == [event |-> e.event, ov |-> e.ov]

TrailOf(log) == [i \in DOMAIN log |-> [event |-> log[i].event, ov |-> log[i].ov]]

LEMMA TrailGrows ==
  ASSUME NEW log \in Seq(Entry), NEW e \in Entry
  PROVE  TrailOf(Append(log, e)) = Append(TrailOf(log), Unstamp(e))
  <1> DEFINE Kept == [event : Events, ov : Subject]
             long == Append(log, e)
  <1>1. /\ long \in Seq(Entry) /\ Len(long) = Len(log) + 1 /\ long[Len(log) + 1] = e
        /\ \A i \in 1..Len(log) : long[i] = log[i]
    BY AppendProperties
  <1>2. \A x \in Entry : Unstamp(x) \in Kept
    BY DEF Entry, Unstamp
  <1>3. ASSUME NEW s \in Seq(Entry)
        PROVE  /\ TrailOf(s) \in Seq(Kept) /\ Len(TrailOf(s)) = Len(s)
               /\ \A i \in 1..Len(s) : TrailOf(s)[i] = Unstamp(s[i])
    <2>1. DOMAIN s = 1..Len(s) /\ Len(s) \in Nat /\ \A i \in 1..Len(s) : s[i] \in Entry
      BY LenProperties, ElementOfSeq
    <2>2. TrailOf(s) = [i \in 1..Len(s) |-> Unstamp(s[i])]
      BY <2>1 DEF TrailOf, Unstamp
    <2>3. \A i \in 1..Len(s) : Unstamp(s[i]) \in Kept
      BY <1>2, <2>1
    <2> HIDE DEF Kept
    <2>4. QED
      BY <2>1, <2>2, <2>3
  <1> HIDE DEF Kept, long
  <1>4. /\ TrailOf(long) \in Seq(Kept) /\ Len(TrailOf(long)) = Len(log) + 1
        /\ \A i \in 1..Len(log) : TrailOf(long)[i] = Unstamp(log[i])
        /\ TrailOf(long)[Len(log) + 1] = Unstamp(e)
    <2>1. Len(log) \in Nat
      BY LenProperties
    <2>2. QED
      BY <1>1, <1>3, <2>1
  <1>5. /\ Append(TrailOf(log), Unstamp(e)) \in Seq(Kept)
        /\ Len(Append(TrailOf(log), Unstamp(e))) = Len(log) + 1
        /\ \A i \in 1..Len(log) : Append(TrailOf(log), Unstamp(e))[i] = Unstamp(log[i])
        /\ Append(TrailOf(log), Unstamp(e))[Len(log) + 1] = Unstamp(e)
    <2>1. TrailOf(log) \in Seq(Kept) /\ Len(TrailOf(log)) = Len(log) /\ Unstamp(e) \in Kept
      BY <1>2, <1>3
    <2>2. QED
      BY <1>3, <2>1, AppendProperties
  <1>6. Len(log) \in Nat
    BY LenProperties
  <1>7. \A i \in 1..(Len(log) + 1) : TrailOf(long)[i] = Append(TrailOf(log), Unstamp(e))[i]
    BY <1>4, <1>5, <1>6
  <1>8. TrailOf(long) = Append(TrailOf(log), Unstamp(e))
    BY <1>4, <1>5, <1>7, SeqEqual
  <1>9. QED
    BY <1>8 DEF long

\* OverrideLog in terms of the files: its trail and its due entry.
AbstractTrail == TrailOf(logs["ledger"])

AbstractDue == {[event |-> c.event, ov |-> c.ov] : c \in DueCalls}

Creatable == [fn : Functions, role : Roles, req : 1..MaxRequests]

\* A change of the applied set is an Activate or a Retire, the ledger entry
\* that was due a Record, and nothing else is visible.
LEMMA StepImplements ==
  ASSUME Serial, MaxCrashes = 0, "ledger" \notin FailAt, DistinctNamesMangled,
         TypeOK, RequestInv, LedgerInv, [Next]_vars
  PROVE  \/ \E o \in Creatable :
              /\ AbstractDue = {} /\ \A a \in applied : a.fn # o.fn
              /\ applied' = applied \cup {o}
              /\ AbstractDue' = {[event |-> "applied", ov |-> o]}
              /\ AbstractTrail' = AbstractTrail
         \/ \E o \in Creatable :
              /\ AbstractDue = {} /\ o \in applied
              /\ applied' = applied \ {o}
              /\ AbstractDue' = {[event |-> "rolled_back", ov |-> o]}
              /\ AbstractTrail' = AbstractTrail
         \/ \E e \in AbstractDue :
              /\ AbstractTrail' = Append(AbstractTrail, e)
              /\ AbstractDue' = {} /\ applied' = applied
         \/ UNCHANGED <<applied, AbstractTrail, AbstractDue>>
  <1>1. CASE UNCHANGED vars
    BY <1>1 DEF vars, AbstractTrail, AbstractDue, DueCalls
  <1>2. CASE Crash
    BY <1>2 DEF Crash, TypeOK
  <1>3. ASSUME logs'["ledger"] = logs["ledger"]
        PROVE  AbstractTrail' = AbstractTrail
    BY <1>3 DEF AbstractTrail
  <1>4. CASE \E w \in Workers : Step(w)
    <2>1. PICK w \in Workers : Step(w)
      BY <1>4
    <2> DEFINE c == work[w].script[1]
    <2>2. DueCalls = DueIn(work[w].script) /\ DueCalls' = DueIn(work'[w].script)
      BY <2>1, TypeNext, DueCallsAre, DueCallsWillBe DEF Next
    <2>3. CASE /\ applied' = applied /\ logs'["ledger"] = logs["ledger"]
               /\ \/ work'[w].script = work[w].script
                  \/ DueIn(work[w].script) = {} /\ DueIn(work'[w].script) = {}
      <3>1. DueCalls' = DueCalls
        BY <2>2, <2>3
      <3>2. QED
        BY <1>3, <2>3, <3>1 DEF AbstractDue
    <2>4. CASE /\ StoreApplied(w) /\ logs'["ledger"] = logs["ledger"]
               /\ DueIn(work[w].script) = {} /\ DueIn(work'[w].script) = {LedgerCallOf(c)}
      <3>1. AbstractTrail' = AbstractTrail
        BY <1>3, <2>4
      <3>2. /\ AbstractDue = {}
            /\ AbstractDue' = {[event |-> IF c.event = "add" THEN "applied" ELSE "rolled_back",
                                ov |-> c.ov]}
        BY <2>2, <2>4 DEF AbstractDue, LedgerCallOf, Call
      <3>3. /\ c.ov \in Override
            /\ \/ /\ c.event = "add" /\ \A a \in applied : a.fn # c.ov.fn
                  /\ applied' = applied \cup {c.ov}
               \/ /\ c.event = "remove" /\ c.ov \in applied
                  /\ applied' = applied \ {c.ov}
        BY <2>4, OneOverrideChanges
      <3>4. OwnRecords(work[w]) /\ Numbered
        BY DEF RequestInv
      <3>5. /\ work[w].phase = "store" /\ 1 \in DOMAIN work[w].script
        BY <2>4, StoreEffect DEF StoreApplied
      <3>6. CASE c.event = "add"
        <4>1. 1 <= c.ov.req /\ c.ov.req <= requests
          BY <3>4, <3>5, <3>6 DEF OwnRecords
        <4>2. c.ov \in Creatable
          BY <3>3, <3>4, <4>1, BoundsAssumption DEF Creatable, Override, Numbered, TypeOK
        <4>3. QED
          BY <3>1, <3>2, <3>3, <3>6, <4>2
      <3>7. CASE c.event = "remove"
        <4>1. 1 <= c.ov.req /\ c.ov.req <= requests
          BY <3>3, <3>4, <3>7 DEF Numbered
        <4>2. c.ov \in Creatable
          BY <3>3, <3>4, <4>1, BoundsAssumption DEF Creatable, Override, Numbered, TypeOK
        <4>3. QED
          BY <3>1, <3>2, <3>3, <3>7, <4>2
      <3>8. QED
        BY <3>3, <3>6, <3>7
    <2>5. CASE /\ StoreLog(w) /\ applied' = applied
               /\ DueIn(work[w].script) = {c} /\ DueIn(work'[w].script) = {}
      <3>1. c.file = "ledger"
        BY <2>5 DEF DueIn
      <3> DEFINE e == [event |-> c.event, ov |-> c.ov, at |-> work[w].at]
      <3>2. e \in Entry /\ logs' = [logs EXCEPT !["ledger"] = Append(logs["ledger"], e)]
        BY <2>5, <3>1, StoreLogEffect
      <3>3. logs["ledger"] \in Seq(Entry)
        BY DEF TypeOK, Logs
      <3>4. Unstamp(e) = [event |-> c.event, ov |-> c.ov]
        BY DEF Unstamp
      <3> HIDE DEF e
      <3>5. logs'["ledger"] = Append(logs["ledger"], e)
        BY <3>2 DEF TypeOK, Logs
      <3>6. AbstractTrail' = Append(AbstractTrail, Unstamp(e))
        BY <3>2, <3>3, <3>5, TrailGrows DEF AbstractTrail
      <3>7. Unstamp(e) \in AbstractDue /\ AbstractDue' = {}
        BY <2>2, <2>5, <3>4 DEF AbstractDue
      <3>8. QED
        BY <2>5, <3>6, <3>7
    <2>6. QED
      BY <2>1, <2>3, <2>4, <2>5, HeadStep
  <1>5. QED
    BY <1>1, <1>2, <1>4 DEF Next

\* The refinement mapping: with one request at a time, no kill and a ledger
\* that can be written, the files, rewritten call by call with any of the
\* other writes failing, implement the abstract log, in which no function
\* ever has two active overrides and every change is recorded before the
\* next one is made.
THEOREM ImplementsOverrideLog ==
  ASSUME Serial, MaxCrashes = 0, "ledger" \notin FailAt, DistinctNamesMangled
  PROVE  Spec => RefinesOverrideLog
  <1>1. Init => Abstract!Init
    <2> SUFFICES ASSUME Init PROVE Abstract!Init
      OBVIOUS
    <2>1. applied = {} /\ logs["ledger"] = <<>> /\ DueCalls = {}
      BY DEF Init, Idle, DueCalls, Logs
    <2>2. QED
      BY <2>1 DEF Abstract!Init
  <1>2. TypeOK /\ RequestInv /\ LedgerInv /\ [Next]_vars => [Abstract!Next]_(Abstract!vars)
    <2> SUFFICES ASSUME TypeOK, RequestInv, LedgerInv, [Next]_vars
                 PROVE  [Abstract!Next]_(Abstract!vars)
      OBVIOUS
    <2>1. QED
      BY StepImplements DEF Abstract!Next, Abstract!vars, Abstract!Activate, Abstract!Retire,
         Abstract!Record, AbstractTrail, AbstractDue, TrailOf, Creatable
  <1>3. QED
    BY <1>1, <1>2, LedgerAlways, PTL DEF Spec, RefinesOverrideLog, Abstract!Spec
=============================================================================
