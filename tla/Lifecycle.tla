------------------------------ MODULE Lifecycle ------------------------------
(***************************************************************************)
(* The life of an override in one project of the web UI: the review screen *)
(* (GET analyze), the confirmed review (POST analyze), and the rollback    *)
(* from the ledger page, each running in a thread of the threaded          *)
(* development server (server.py: app.run).                                *)
(*                                                                         *)
(* The files are read, changed in memory and written back whole, with no   *)
(* lock: one Load step and one Store step per call, so two requests can    *)
(* interleave between them.  A request is the list of calls it has still   *)
(* to make.  Request numbers stand for everything that distinguishes two   *)
(* decisions (evidence, confidence, identifiers).                          *)
(***************************************************************************)
EXTENDS Integers, Sequences, FiniteSets

CONSTANTS
  Workers,      \* server threads; each serves the browser tab of one admin
  Functions,    \* qualified names of the candidate functions of the project
  Roles,        \* the roles that have an override template
  Mangle,       \* qualified_name.replace(".", "_"), per function
  FailAt,       \* files whose write may raise (disk full, live client error)
  MaxRequests,  \* bound: POST requests served
  MaxCrashes    \* bound: kills of the server process

ASSUME BoundsAssumption == MaxRequests \in Nat /\ MaxCrashes \in Nat

VARIABLES
  applied,     \* applied_overrides.json: a list without repeated names
  logs,        \* ledger, feedback, training_examples, run_history (.json)
  work,        \* the request each thread is serving
  screen,      \* the review form each admin has open: function -> role shown
  approvals,   \* history: what the admins ticked, as it was shown to them
  requests,    \* POST requests received so far
  crashes,     \* kills so far
  clock        \* datetime.now(): one tick per log entry built

vars == <<applied, logs, work, screen, approvals, requests, crashes, clock>>

Logs == {"ledger", "feedback", "training", "history"}

\* An override record of generate_overrides, and its name.
Override == [fn : Functions, role : Roles, req : Nat]
NameOf(o) == <<o.role, Mangle[o.fn]>>

\* What a log entry is about: an override, or a whole run (run_history).
Run(r) == [req |-> r]
Subject == Override \cup [req : Nat]

Events == {"applied", "rolled_back", "approved", "rejected",
           "review_approve", "review_reject", "rollback", "run"}
Entry == [event : Events, ov : Subject, at : Nat]

\* One call that rewrites a file.
Call(file, event, ov) == [file |-> file, event |-> event, ov |-> ov]

Phases == {"idle", "load", "store"}

\* The calls each part of a handler makes, in the order it makes them.
ReviewUnscored(o, yes) ==
  <<Call("training", IF yes THEN "review_approve" ELSE "review_reject", o)>>

ReviewCalls(o, yes) ==
  <<Call("feedback", IF yes THEN "approved" ELSE "rejected", o),
    Call("training", IF yes THEN "review_approve" ELSE "review_reject", o)>>

ApplyUnlogged(o) == <<Call("applied", "add", o)>>

LedgerFirst(o) == <<Call("ledger", "applied", o), Call("applied", "add", o)>>

ApplyCalls(o) == <<Call("applied", "add", o), Call("ledger", "applied", o)>>

RollbackUnlogged(o) == <<Call("applied", "remove", o), Call("feedback", "rolled_back", o)>>

RollbackCalls(o) ==
  <<Call("applied", "remove", o), Call("ledger", "rolled_back", o),
    Call("feedback", "rolled_back", o), Call("training", "rollback", o)>>

Idle == [phase |-> "idle", script |-> <<>>, review |-> {}, ticked |-> {},
         apply |-> {}, req |-> 0, appliedCopy |-> {}, logCopy |-> <<>>, at |-> 0]

Empty == [f \in {} |-> {}]

Init ==
  /\ applied = {}
  /\ logs = [l \in Logs |-> <<>>]
  /\ work = [w \in Workers |-> Idle]
  /\ screen = [w \in Workers |-> Empty]
  /\ approvals = {}
  /\ requests = 0
  /\ crashes = 0
  /\ clock = 0

-----------------------------------------------------------------------------
(* Reading the ledger.                                                     *)

\* Ledger.already_learned: the latest event of the function is "applied".
LatestIs(event, f) ==
  \E i \in DOMAIN logs["ledger"] :
    /\ logs["ledger"][i].ov.fn = f
    /\ logs["ledger"][i].event = event
    /\ \A j \in DOMAIN logs["ledger"] : logs["ledger"][j].ov.fn = f => j <= i

AlreadyLearned == {f \in Functions : LatestIs("applied", f)}

\* run_learn: a verdict other than REJECTED for some of the functions not
\* yet learned.  Each call asks the language model again, so the functions
\* and the roles of two calls need not agree.
Proposals == UNION {[D -> Roles] : D \in SUBSET (Functions \ AlreadyLearned)}

-----------------------------------------------------------------------------
(* Requests.                                                               *)

\* approved = [v for v in reviewed if v["qualified_name"] in selected]
EveryReviewed(reviewed, ticked) == reviewed

Approved(reviewed, ticked) == {o \in reviewed : o.fn \in ticked}

\* The state of a thread that has learned p and got the form with its ticks.
Verdicts(p, r) == {[fn |-> f, role |-> p[f], req |-> r] : f \in DOMAIN p}

Review(reviewed, ticked, r) ==
  [Idle EXCEPT !.phase = "load", !.req = r, !.review = reviewed,
               !.ticked = Approved(reviewed, ticked), !.apply = Approved(reviewed, ticked)]

\* GET analyze: learn and render the form; nothing is written that is read
\* back (semantics.json and ingest_bundle.json are write-only).
ShowReview(w) ==
  /\ work[w].phase = "idle"
  /\ screen[w] = Empty
  /\ \E p \in Proposals :
       /\ p # Empty
       /\ screen' = [screen EXCEPT ![w] = p]
  /\ UNCHANGED <<applied, logs, work, approvals, requests, crashes, clock>>

\* POST analyze: learns once more, then reviews what it has just learned;
\* a verdict is approved when its function was ticked on the form.
PostReview(w) ==
  /\ work[w].phase = "idle"
  /\ screen[w] # Empty
  /\ requests < MaxRequests
  /\ requests' = requests + 1
  /\ \E p \in Proposals, ticked \in SUBSET DOMAIN screen[w] :
       /\ work' = [work EXCEPT ![w] = Review(Verdicts(p, requests'), ticked, requests')]
       /\ approvals' = approvals \cup Verdicts([f \in ticked |-> screen[w][f]], requests')
  /\ screen' = [screen EXCEPT ![w] = Empty]
  /\ UNCHANGED <<applied, logs, crashes, clock>>

\* The loop over the reviewed verdicts: feedback.record, record_candidate.
NextVerdict(w) ==
  /\ work[w].phase = "load"
  /\ work[w].script = <<>>
  /\ \E o \in work[w].review :
       work' = [work EXCEPT ![w].review = @ \ {o},
                            ![w].script = ReviewCalls(o, o \in work[w].ticked)]
  /\ UNCHANGED <<applied, logs, screen, approvals, requests, crashes, clock>>

\* run_apply: one override applied, then its ledger entry, then the next.
NextOverride(w) ==
  /\ work[w].phase = "load"
  /\ work[w].script = <<>>
  /\ work[w].review = {}
  /\ \E o \in work[w].apply :
       work' = [work EXCEPT ![w].apply = @ \ {o}, ![w].script = ApplyCalls(o)]
  /\ UNCHANGED <<applied, logs, screen, approvals, requests, crashes, clock>>

\* summarize_run, the last call of a run that applied something.
Summarize(w) ==
  /\ work[w].phase = "load"
  /\ work[w].script = <<>>
  /\ work[w].review = {}
  /\ work[w].apply = {}
  /\ work[w].ticked # {}
  /\ work' = [work EXCEPT ![w].ticked = {},
                          ![w].script = <<Call("history", "run", Run(work[w].req))>>]
  /\ UNCHANGED <<applied, logs, screen, approvals, requests, crashes, clock>>

\* The response is sent and the thread is free again.
Respond(w) ==
  /\ work[w].phase = "load"
  /\ work[w].script = <<>>
  /\ work[w].review = {}
  /\ work[w].ticked = {}
  /\ work' = [work EXCEPT ![w] = Idle]
  /\ UNCHANGED <<applied, logs, screen, approvals, requests, crashes, clock>>

Rollback(o, r) ==
  [Idle EXCEPT !.phase = "store", !.req = r,
               !.appliedCopy = applied, !.script = RollbackCalls(o)]

\* POST rollback of a name some ledger row shows as applied: the applied set
\* has been read when the match is found.  With no match the code raises
\* ValueError before writing anything, which is a stuttering step.
PostRollback(w) ==
  /\ work[w].phase = "idle"
  /\ requests < MaxRequests
  /\ \E i \in DOMAIN logs["ledger"], o \in applied :
       /\ logs["ledger"][i].event = "applied"
       /\ NameOf(o) = NameOf(logs["ledger"][i].ov)
       /\ work' = [work EXCEPT ![w] = Rollback(o, requests + 1)]
  /\ requests' = requests + 1
  /\ UNCHANGED <<applied, logs, screen, approvals, crashes, clock>>

-----------------------------------------------------------------------------
(* The read-modify-write of a file, in two steps.                          *)

LoadApplied(w) ==
  /\ work[w].phase = "load"
  /\ work[w].script # <<>>
  /\ Head(work[w].script).file = "applied"
  /\ work' = [work EXCEPT ![w].phase = "store", ![w].appliedCopy = applied]
  /\ UNCHANGED <<applied, logs, screen, approvals, requests, crashes, clock>>

\* The entry is stamped right after the file is read, before it is written.
LoadLog(w) ==
  /\ work[w].phase = "load"
  /\ work[w].script # <<>>
  /\ Head(work[w].script).file \in Logs
  /\ clock' = clock + 1
  /\ work' = [work EXCEPT ![w].phase = "store", ![w].at = clock',
                          ![w].logCopy = logs[Head(work[w].script).file]]
  /\ UNCHANGED <<applied, logs, screen, approvals, requests, crashes>>

Stored(w) ==
  work' = [work EXCEPT ![w].phase = "load", ![w].script = Tail(@),
                       ![w].appliedCopy = {}, ![w].logCopy = <<>>, ![w].at = 0]

\* apply_query_overrides skips an override whose name is already there;
\* rollback_override keeps every override with another name.
NeverRemoves(copy, call) ==
  IF \E a \in copy : NameOf(a) = NameOf(call.ov) THEN copy ELSE copy \cup {call.ov}

KeepsDuplicates(copy, call) ==
  IF call.event = "add" THEN copy \cup {call.ov} ELSE {a \in copy : NameOf(a) # NameOf(call.ov)}

AppliedAfter(copy, call) ==
  IF call.event = "add"
  THEN IF \E a \in copy : NameOf(a) = NameOf(call.ov) THEN copy ELSE copy \cup {call.ov}
  ELSE {a \in copy : NameOf(a) # NameOf(call.ov)}

StoreApplied(w) ==
  /\ work[w].phase = "store"
  /\ Head(work[w].script).file = "applied"
  /\ applied' = AppliedAfter(work[w].appliedCopy, Head(work[w].script))
  /\ Stored(w)
  /\ UNCHANGED <<logs, screen, approvals, requests, crashes, clock>>

NewestFirst(log, entry) == <<entry>> \o log

WithEntry(log, entry) == Append(log, entry)

Unstamped(w) == [event |-> Head(work[w].script).event, ov |-> Head(work[w].script).ov]

NewEntry(w) == [event |-> Head(work[w].script).event,
                ov |-> Head(work[w].script).ov, at |-> work[w].at]

StoreLog(w) ==
  /\ work[w].phase = "store"
  /\ Head(work[w].script).file \in Logs
  /\ logs' = [logs EXCEPT ![Head(work[w].script).file] = WithEntry(work[w].logCopy, NewEntry(w))]
  /\ Stored(w)
  /\ UNCHANGED <<applied, screen, approvals, requests, crashes, clock>>

-----------------------------------------------------------------------------
(* Failures.                                                               *)

\* The write raises: write_json leaves the old file, the request ends in a
\* 500 page and the calls it still had to make are never made.
WriteFails(w) ==
  /\ work[w].phase = "store"
  /\ Head(work[w].script).file \in FailAt
  /\ work' = [work EXCEPT ![w] = Idle]
  /\ UNCHANGED <<applied, logs, screen, approvals, requests, crashes, clock>>

\* The process is killed: every request in flight is lost, the files and the
\* pages open in the browsers are not.
Crash ==
  /\ crashes < MaxCrashes
  /\ \E w \in Workers : work[w].phase # "idle"
  /\ crashes' = crashes + 1
  /\ work' = [w \in Workers |-> Idle]
  /\ UNCHANGED <<applied, logs, screen, approvals, requests, clock>>

Step(w) ==
  \/ ShowReview(w) \/ PostReview(w) \/ PostRollback(w)
  \/ NextVerdict(w) \/ NextOverride(w) \/ Summarize(w) \/ Respond(w)
  \/ LoadApplied(w) \/ LoadLog(w) \/ StoreApplied(w) \/ StoreLog(w)
  \/ WriteFails(w)

Next == Crash \/ \E w \in Workers : Step(w)

Spec == Init /\ [][Next]_vars

-----------------------------------------------------------------------------
(* Type invariant.                                                         *)

CallSet == [file : {"applied"}, event : {"add", "remove"}, ov : Override]
           \cup [file : Logs, event : Events, ov : Subject]

WorkSet == [phase : Phases, script : Seq(CallSet), review : SUBSET Override,
            ticked : SUBSET Override, apply : SUBSET Override, req : Nat,
            appliedCopy : SUBSET Override, logCopy : Seq(Entry), at : Nat]

Screens == UNION {[D -> Roles] : D \in SUBSET Functions}

\* Every file holds records of its own kind, and a request in its store
\* phase has a call to make.
TypeOK ==
  /\ applied \in SUBSET Override
  /\ logs \in [Logs -> Seq(Entry)]
  /\ work \in [Workers -> WorkSet]
  /\ \A w \in Workers : work[w].phase = "store" => work[w].script # <<>>
  /\ screen \in [Workers -> Screens]
  /\ approvals \in SUBSET Override
  /\ requests \in Nat /\ crashes \in Nat /\ clock \in Nat

-----------------------------------------------------------------------------
(* What holds under every interleaving, failed write and crash.            *)

Quiet == \A w \in Workers : work[w].phase = "idle"

\* The entries of a log with a given event, as the overrides they are about.
About(log, event) == {logs[log][i].ov : i \in {j \in DOMAIN logs[log] : logs[log][j].event = event}}

Ticked(o) == \E a \in approvals : a.fn = o.fn /\ a.req = o.req

\* The project's core guarantee (feedback.py:17-19): whatever the threads
\* do, an override is in the applied set, or in the ledger as applied, only
\* if an admin ticked its function in the very request that created it.
HumanApproved ==
  /\ \A o \in applied : Ticked(o)
  /\ \A o \in About("ledger", "applied") : Ticked(o)

\* apply_query_overrides deduplicates by name against the copy it read, and
\* the whole list is replaced: two applies racing each other cannot leave
\* one name twice, so a rollback by name always means one override.
UniqueNames == \A a, b \in applied : NameOf(a) = NameOf(b) => a = b

\* Every log stays in the order its entries were stamped, even when racing
\* writers drop entries: what all_trends and the activity feed, which never
\* sort by anything but the stamp, rely on.
InOrder(log) == \A i, j \in DOMAIN log : i < j => log[i].at < log[j].at
Chronological == \A l \in Logs : InOrder(logs[l])

-----------------------------------------------------------------------------
(* The inductive strengthenings: the same facts about the copies the       *)
(* requests in flight hold, and about the calls they have still to make.   *)

ApprovedLog(log) == \A i \in DOMAIN log : log[i].event = "applied" => Ticked(log[i].ov)
ApprovedScript(script) ==
  \A i \in DOMAIN script : script[i].event \in {"add", "applied"} => Ticked(script[i].ov)

ApprovedThread(t) ==
  /\ \A o \in t.appliedCopy \cup t.apply : Ticked(o)
  /\ ApprovedLog(t.logCopy)
  /\ ApprovedScript(t.script)

\* Nothing unapproved is on disk, in a copy or in a script.
ApprovedInv ==
  /\ \A o \in applied : Ticked(o)
  /\ \A l \in Logs : ApprovedLog(logs[l])
  /\ \A w \in Workers : ApprovedThread(work[w])

NoTwins(set) == \A a, b \in set : NameOf(a) = NameOf(b) => a = b

\* No copy of the applied set has a name twice either.
NamesInv == NoTwins(applied) /\ \A w \in Workers : NoTwins(work[w].appliedCopy)

\* A copy is in order and older than the stamp of the entry to be added.
OrderedThread(t) ==
  /\ t.at <= clock
  /\ InOrder(t.logCopy)
  /\ \A i \in DOMAIN t.logCopy : t.logCopy[i].at < t.at

OrderInv ==
  /\ \A l \in Logs : InOrder(logs[l]) /\ \A i \in DOMAIN logs[l] : logs[l][i].at <= clock
  /\ \A w \in Workers : OrderedThread(work[w])

-----------------------------------------------------------------------------
(* What holds when requests are served one after another.                  *)

\* The overrides the ledger says are active.
LedgerActive ==
  {logs["ledger"][i].ov : i \in {k \in DOMAIN logs["ledger"] :
      /\ logs["ledger"][k].event = "applied"
      /\ \A j \in DOMAIN logs["ledger"] :
           logs["ledger"][j].ov.fn = logs["ledger"][k].ov.fn => j <= k}}

\* run_apply's docstring: the ledger is always an accurate record of exactly
\* what actually got applied, even when the client raises partway through.
LedgerAccurate == Quiet => LedgerActive = applied

\* A rollback leaves the same mark in the ledger and in the calibration.
FeedbackMatchesLedger ==
  Quiet => About("feedback", "rolled_back") = About("ledger", "rolled_back")

\* Whatever the ledger records as applied was recorded as approved in the
\* calibration log before, however the request ended.
EvidenceFirst ==
  \A i \in DOMAIN logs["ledger"] :
    logs["ledger"][i].event = "applied" =>
      \E j \in DOMAIN logs["feedback"] :
        /\ logs["feedback"][j].event = "approved"
        /\ logs["feedback"][j].ov = logs["ledger"][i].ov
        /\ logs["feedback"][j].at < logs["ledger"][i].at

\* A run summary is recorded strictly after everything the run approved is
\* in the ledger (summarize_run: "already-succeeded, already-ledgered").
SummaryIsFinal ==
  \A r \in {h.req : h \in About("history", "run")} :
    \A o \in About("feedback", "approved") :
      o.req = r => o \in About("ledger", "applied")

\* One crash leaves the applied set and the ledger in disagreement about one
\* function at most, and the disagreement never spreads.
DriftBounded ==
  Quiet => Cardinality({f \in Functions :
             LatestIs("applied", f) # (\E o \in applied : o.fn = f)}) <= crashes

\* An override the ledger records as rolled back is out of the applied set
\* for good: a later run creates a new record.
RollbackEffective ==
  \A o \in About("ledger", "rolled_back") : o \notin applied

-----------------------------------------------------------------------------
(* A claim of the documentation that concurrency breaks.                   *)

\* Ledger's docstring: "Append-only audit trail of everything learned and
\* applied."
AppendOnly ==
  [][\A i \in DOMAIN logs["ledger"] :
       i \in DOMAIN logs'["ledger"] /\ logs'["ledger"][i] = logs["ledger"][i]]_vars

-----------------------------------------------------------------------------
(* Refinement: with one worker and no crash the files implement OverrideLog. *)

DueCalls ==
  {Head(work[w].script) : w \in {v \in Workers :
      work[v].script # <<>> /\ Head(work[v].script).file = "ledger"}}

Abstract == INSTANCE OverrideLog WITH
  Overrides <- [fn : Functions, role : Roles, req : 1..MaxRequests],
  active <- applied,
  trail <- [i \in DOMAIN logs["ledger"] |->
              [event |-> logs["ledger"][i].event, ov |-> logs["ledger"][i].ov]],
  due <- {[event |-> c.event, ov |-> c.ov] : c \in DueCalls}

\* The files, read and rewritten call by call, implement the abstract log.
RefinesOverrideLog == Abstract!Spec
=============================================================================
