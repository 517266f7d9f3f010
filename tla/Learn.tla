--------------------------------- MODULE Learn ---------------------------------
(***************************************************************************)
(* One analysis of a project (pipeline.py, run_ingest and run_learn, then  *)
(* summarize_run) while other requests save settings, apply and roll back: *)
(* the batch of candidates, the language model that classifies them, one   *)
(* request per candidate, and what a bad answer does to the others.        *)
(*                                                                         *)
(* Confidences are hundredths.  The model's answer (external) is any that  *)
(* the backend's parsing can tell apart; the offline MockClassifier is the *)
(* operator MockAnswer.                                                    *)
(***************************************************************************)
EXTENDS Integers, FiniteSets

CONSTANTS
  Candidates,    \* what select_candidates returns
  Providers,     \* <<TRUESIGNAL_LLM, its key is set>> considered
  Confidences,   \* numbers a model may answer (1000 for NaN, see Effective)
  Adjustments,   \* calibrations of a role that other requests leave behind
  Thresholds,    \* gate settings an admin may save
  MaxRuns,       \* bound: analyses started
  MaxChanges     \* bound: changes by other requests

The(set) == CHOOSE x \in set : TRUE

Roles == {"sanitizer", "source", "sink"}
Shapes == {"allowlist", "dotdot", "markup", "hosts", "ldap"}

\* wraps and touches are the indexer's findings, shapes, accessor and concat
\* what MockClassifier looks for in the source text.
Candidate == [fn : STRING, hypothesis : Roles, dismissals : Nat,
              wraps : BOOLEAN, touches : BOOLEAN,
              shapes : SUBSET Shapes, accessor : BOOLEAN, concat : BOOLEAN]

\* select_candidates: keyed by name, dismissals only behind the first kind.
ASSUME CandidatesAssumption ==
  /\ Candidates \subseteq Candidate
  /\ \A c, d \in Candidates : c.fn = d.fn => c = d
  /\ \A c \in Candidates : (c.hypothesis = "sanitizer") <=> (c.dismissals > 0)

Gate == [conf : 0..100, triage : Nat]

ASSUME SettingsAssumption ==
  /\ Thresholds \subseteq Gate
  /\ Confidences \subseteq Int
  /\ Adjustments \subseteq -10..10

VARIABLES
  llm,        \* provider and whether its key is set
  settings,   \* settings.json: saved thresholds, {} for the defaults
  ledger,     \* functions the ledger has as applied
  adjustment, \* feedback.json, as the adjustment of a role
  pc,         \* where the analysis is
  cfg,        \* thresholds read when it started
  already,    \* functions applied when the batch started
  todo,       \* candidates left
  cand,       \* the candidate being classified, {} or a singleton
  answer,     \* its classification
  verdicts,   \* verdicts so far
  semantics,  \* semantics.json: the names in its three lists
  summaries,  \* run_history.json: its entries, by kind
  failed,     \* history: functions of this run whose classification failed
  runs, changes

shared  == <<settings, ledger, adjustment>>
batch   == <<cfg, already, todo, cand, answer, verdicts, failed>>
files   == <<semantics, summaries>>
vars    == <<llm, shared, pc, batch, files, runs, changes>>

-----------------------------------------------------------------------------
(* The backend and its answers.                                            *)

\* make_classifier, make_summarizer, make_assistant: without a key, offline.
Backend(choice) ==
  IF choice[1] = "ollama" \/ (choice[1] \in {"anthropic", "openai"} /\ choice[2])
  THEN choice[1] ELSE "mock"

\* RequestException, ValueError, KeyError, IndexError: refused or timed out,
\* not JSON, a body without the expected fields.
Caught == {"refused", "not_json", "missing"}

\* Outside those: a null content (a refusal of OpenAI's) has no strip(), a
\* JSON value other than an object has no get().
Null(backend) == IF backend = "openai" THEN {"null"} ELSE {}
NotObject(backend) == IF backend \in {"anthropic", "ollama"} THEN {"not_object"} ELSE {}

Said(role, conf, reasons) == [role |-> role, conf |-> {conf}, reasons |-> reasons]

\* "none" stands for every role that is not one of the three; {} for a
\* confidence that is no number ("high", null).
Objects == [role : Roles \cup {"none"}, conf : {{}} \cup {{n} : n \in Confidences}, reasons : BOOLEAN]

CapAt97(n) == IF 860 + 2 * n > 970 THEN 97 ELSE (865 + 2 * n) \div 10

\* round(min(0.86 + 0.002 * n, 0.94), 2)
MockConfidence(n) == IF 860 + 2 * n > 940 THEN 94 ELSE (865 + 2 * n) \div 10

\* MockClassifier.classify: the shapes of a sanitizer come first; without
\* triage behind the hypothesis an allow-list gets no credit for it.
MockAnswer(c) ==
  CASE c.shapes # {} ->
         Said("sanitizer",
              IF "allowlist" \in c.shapes /\ c.hypothesis # "sanitizer"
              THEN 86 ELSE MockConfidence(c.dismissals), TRUE)
    [] c.shapes = {} /\ c.wraps /\ c.accessor -> Said("source", 97, TRUE)
    [] c.shapes = {} /\ ~(c.wraps /\ c.accessor) /\ c.touches /\ c.concat -> Said("sink", 95, TRUE)
    [] OTHER -> Said("none", 40, FALSE)

\* run_learn's answer for a candidate whose classification failed.
NoClassification == Said("none", 0, FALSE)

Cap(low, x, high) == IF x < low THEN low ELSE IF x > high THEN high ELSE x

\* max(0.0, min(1.0, conf + adjustment)); a NaN comes out as 1.0, as any
\* number far above it does.
Effective(conf, adj) == Cap(0, conf + adj, 100)

\* verify, for one candidate and its classification.
Judge(c, a, adj, gate) ==
  LET clears == Effective(The(a.conf), adj) >= gate.conf
      proof  == \/ a.role = "sanitizer" /\ a.reasons /\ c.dismissals >= gate.triage
                \/ a.role = "source" /\ c.wraps
                \/ a.role = "sink" /\ c.touches
      reviewable == IF a.role = "sanitizer" THEN a.reasons ELSE a.role \in Roles /\ clears
  IN IF clears /\ proof THEN "APPROVED" ELSE IF reviewable THEN "NEEDS_REVIEW" ELSE "REJECTED"

AdjustmentOf(role) == IF role \in Roles THEN adjustment[role] ELSE 0

-----------------------------------------------------------------------------
Default == [conf |-> 85, triage |-> 3]

\* What config_for reads of settings.json, over the defaults of Config.
InForce == IF settings = {} THEN Default ELSE The(settings)

Init ==
  /\ llm \in Providers
  /\ settings = {} /\ ledger = {} /\ adjustment = [r \in Roles |-> 0]
  /\ pc = "idle" /\ cfg = Default /\ already = {}
  /\ todo = {} /\ cand = {} /\ answer = NoClassification /\ verdicts = {} /\ failed = {}
  /\ semantics = {} /\ summaries = {}
  /\ runs = 0 /\ changes = 0

\* The locals of a request that has not started, or is over.
NoBatch ==
  /\ already' = {} /\ todo' = {} /\ cand' = {} /\ answer' = NoClassification
  /\ verdicts' = {} /\ failed' = {}

\* analyze: the thresholds are read here, once.
Begin ==
  /\ pc \in {"idle", "raised"}
  /\ runs < MaxRuns
  /\ runs' = runs + 1
  /\ pc' = "ingest"
  /\ cfg' = InForce
  /\ NoBatch
  /\ UNCHANGED <<llm, shared, files, changes>>

\* run_ingest, then the ledger, read once: what is applied is skipped.
Ingest ==
  /\ pc = "ingest"
  /\ already' = ledger
  /\ todo' = {c \in Candidates : c.fn \notin already'}
  /\ pc' = "next"
  /\ UNCHANGED <<llm, shared, cfg, cand, answer, verdicts, failed, files, runs, changes>>

AskAgain ==
  /\ pc = "next" /\ todo # {}
  /\ \E c \in todo : cand' = {c} /\ UNCHANGED todo
  /\ pc' = "classify"
  /\ UNCHANGED <<llm, shared, cfg, already, answer, verdicts, failed, files, runs, changes>>

\* The next candidate; the order of the batch plays no role.
Ask ==
  /\ pc = "next" /\ todo # {}
  /\ \E c \in todo : cand' = {c} /\ todo' = todo \ {c}
  /\ pc' = "classify"
  /\ UNCHANGED <<llm, shared, cfg, already, answer, verdicts, failed, files, runs, changes>>

\* The answer is an object, or the offline classifier's.
Classified ==
  /\ pc = "classify"
  /\ answer' \in IF Backend(llm) = "mock" THEN {MockAnswer(The(cand))} ELSE Objects
  /\ pc' = "verify"
  /\ UNCHANGED <<llm, shared, cfg, already, todo, cand, verdicts, failed, files, runs, changes>>

LastAnswer == answer

Fallback == NoClassification

QueuedAgain ==
  /\ pc = "classify" /\ Backend(llm) # "mock"
  /\ \E kind \in Caught : TRUE
  /\ todo' = todo \cup cand
  /\ failed' = failed \cup {The(cand).fn}
  /\ pc' = "next"
  /\ UNCHANGED <<llm, shared, cfg, already, cand, answer, verdicts, files, runs, changes>>

\* except (RequestException, ValueError, KeyError, IndexError)
ClassificationFails ==
  /\ pc = "classify" /\ Backend(llm) # "mock"
  /\ \E kind \in Caught : TRUE
  /\ answer' = Fallback
  /\ failed' = failed \cup {The(cand).fn}
  /\ pc' = "verify"
  /\ UNCHANGED <<llm, shared, cfg, already, todo, cand, verdicts, files, runs, changes>>

\* An AttributeError passes both the except clause and the batch.
ClassificationRaises ==
  /\ pc = "classify"
  /\ \E kind \in Null(Backend(llm)) \cup NotObject(Backend(llm)) : TRUE
  /\ pc' = "raised"
  /\ UNCHANGED <<llm, shared, batch, files, runs, changes>>

GateNow == InForce

GateOfRun == cfg

\* verify reads feedback.json as it is now.
Verify ==
  /\ pc = "verify" /\ answer.conf # {}
  /\ LET c == The(cand)
         adj == AdjustmentOf(answer.role)
     IN verdicts' = verdicts \cup
          {[fn |-> c.fn, role |-> answer.role, triage |-> c.dismissals, adj |-> adj,
            eff |-> Effective(The(answer.conf), adj),
            verdict |-> Judge(c, answer, adj, GateOfRun)]}
  /\ pc' = "next"
  /\ UNCHANGED <<llm, shared, cfg, already, todo, cand, answer, failed, files, runs, changes>>

\* float("high") and float(None) raise outside the try of run_learn.
VerifyRaises ==
  /\ pc = "verify" /\ answer.conf = {}
  /\ pc' = "raised"
  /\ UNCHANGED <<llm, shared, batch, files, runs, changes>>

With(verdict) == {v.fn : v \in {w \in verdicts : w.verdict = verdict}}

\* semantics.json is replaced as a whole, by a batch that got to its end.
Write ==
  /\ pc = "next" /\ todo = {}
  /\ semantics' = {[learned |-> With("APPROVED"), needs_review |-> With("NEEDS_REVIEW"),
                    rejected |-> With("REJECTED")]}
  /\ pc' = "review"
  /\ UNCHANGED <<llm, shared, batch, summaries, runs, changes>>

\* The review screen (GET), nothing to review, nothing ticked.
Leave ==
  /\ pc = "review"
  /\ pc' = "idle"
  /\ NoBatch
  /\ UNCHANGED <<llm, shared, cfg, files, runs, changes>>

\* The confirmed review applies what was ticked; see Lifecycle for the steps.
Confirm ==
  /\ pc = "review"
  /\ \E approved \in SUBSET (With("APPROVED") \cup With("NEEDS_REVIEW")) \ {{}} :
       ledger' = ledger \cup approved
  /\ pc' = "summarize"
  /\ UNCHANGED <<llm, settings, adjustment, batch, files, runs, changes>>

\* summarize_run: the text, or the notice that there is none.
Summarized ==
  /\ pc = "summarize"
  /\ \E kind \in {"text"} \cup (IF Backend(llm) = "mock" THEN {} ELSE {"unavailable"}) :
       summaries' = summaries \cup {[run |-> runs, kind |-> kind]}
  /\ pc' = "idle"
  /\ NoBatch
  /\ UNCHANGED <<llm, shared, cfg, semantics, runs, changes>>

SummaryRaises ==
  /\ pc = "summarize"
  /\ Null(Backend(llm)) # {}
  /\ pc' = "raised"
  /\ UNCHANGED <<llm, shared, batch, files, runs, changes>>

Analysis ==
  \/ Ingest \/ Ask \/ Classified \/ ClassificationFails \/ ClassificationRaises
  \/ Verify \/ VerifyRaises \/ Write \/ Leave \/ Confirm \/ Summarized \/ SummaryRaises

\* The process ends; a new one starts with nothing but the files.
Kill ==
  /\ pc \notin {"idle", "raised"}
  /\ pc' = "idle"
  /\ NoBatch
  /\ UNCHANGED <<llm, shared, cfg, files, runs, changes>>

Change ==
  /\ changes < MaxChanges
  /\ changes' = changes + 1
  /\ UNCHANGED <<llm, pc, batch, files, runs>>

\* project_settings: save thresholds, or reset them.
SaveSettings ==
  /\ Change
  /\ settings' \in {{}} \cup {{g} : g \in Thresholds}
  /\ UNCHANGED <<ledger, adjustment>>

\* Another analysis applies a function, a rollback removes one.
LedgerChanges ==
  /\ Change
  /\ \E c \in Candidates :
       ledger' = IF c.fn \in ledger THEN ledger \ {c.fn} ELSE ledger \cup {c.fn}
  /\ UNCHANGED <<settings, adjustment>>

\* Reviews and rollbacks elsewhere move the calibration of a role.
Recalibrated ==
  /\ Change
  /\ \E r \in Roles, a \in Adjustments : adjustment' = [adjustment EXCEPT ![r] = a]
  /\ UNCHANGED <<settings, ledger>>

Next == Begin \/ Analysis \/ Kill \/ SaveSettings \/ LedgerChanges \/ Recalibrated

Spec == Init /\ [][Next]_vars

\* The thread of the request runs on; a call of a model has a timeout.
FairSpec == Spec /\ WF_vars(Analysis)

-----------------------------------------------------------------------------
Names == {c.fn : c \in Candidates}

Judgement == [fn : Names, role : Roles \cup {"none"}, triage : Nat, adj : -10..10,
              eff : 0..100, verdict : {"APPROVED", "NEEDS_REVIEW", "REJECTED"}]

\* The three lists of semantics.json share no function.
Lists == {l \in [learned : SUBSET Names, needs_review : SUBSET Names, rejected : SUBSET Names] :
            /\ l.learned \cap l.needs_review = {}
            /\ (l.learned \cup l.needs_review) \cap l.rejected = {}}

\* Verdicts and lists are about candidates, one verdict each.
TypeOK ==
  /\ llm \in Providers
  /\ settings \in SUBSET Thresholds
  /\ ledger \in SUBSET Names /\ already \in SUBSET Names /\ failed \in SUBSET Names
  /\ adjustment \in [Roles -> -10..10]
  /\ pc \in {"idle", "raised", "ingest", "next", "classify", "verify", "review", "summarize"}
  /\ cfg \in Thresholds \cup {Default}
  /\ todo \in SUBSET Candidates /\ cand \in SUBSET Candidates
  /\ pc \in {"classify", "verify"} => cand # {}
  /\ answer \in Objects \cup {NoClassification} \cup {MockAnswer(c) : c \in Candidates}
  /\ verdicts \in SUBSET Judgement
  /\ \A v, w \in verdicts : v.fn = w.fn => v = w
  /\ semantics \in SUBSET Lists
  /\ summaries \in SUBSET [run : Nat, kind : {"text", "unavailable"}]
  /\ runs \in Nat /\ changes \in Nat

\* run_learn (pipeline.py:42-73): a batch that reaches its end has a verdict
\* for every candidate that was not applied when it began and for no other,
\* and those whose classification failed are all rejected: neither lost, nor
\* judged on the answer that was given for the candidate before.
EveryCandidateJudged ==
  pc \in {"review", "summarize"} =>
    /\ {v.fn : v \in verdicts} = Names \ already
    /\ failed \subseteq With("REJECTED")

\* The thresholds of the settings page "apply the next time you run an
\* analysis" (server.py:945): what a batch approves clears the thresholds it
\* began with, all of it the same ones, though they change under it.
OneGatePerRun ==
  \A v \in verdicts : v.verdict = "APPROVED" =>
    /\ v.eff >= cfg.conf
    /\ v.role = "sanitizer" => v.triage >= cfg.triage

\* verifier.py:17-19 with the cap of the offline classifier (llm_classifier.py:145)
\* and the bound of the calibration (feedback.py:34): offline, at the default
\* threshold, no amount of triage support approves a sanitizer whose
\* signature has been rolled back to the bound.
HeldAfterRollbacks ==
  Backend(llm) = "mock" =>
    \A v \in verdicts :
      v.role = "sanitizer" /\ v.adj = -10 /\ cfg.conf >= Default.conf => v.verdict # "APPROVED"

\* An analysis that was started ends: with lists, with a summary, or raising.
AnalysisEnds == (pc \notin {"idle", "raised"}) ~> (pc \in {"idle", "raised"})

\* pipeline.py:56-58, "one malformed response from a live LLM backend must not
\* take down every other candidate's classification in the same run".
BatchShielded == ~(pc = "raised" /\ cand # {} /\ semantics = {})
===============================================================================
