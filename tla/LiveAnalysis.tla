----------------------------- MODULE LiveAnalysis -----------------------------
(***************************************************************************)
(* `truesignal analyze` run from the command line or a CI job (cli.py)     *)
(* against a Checkmarx One tenant, through the live client of              *)
(* checkmarx_client.py, or against the fixtures through the mock client.   *)
(*                                                                         *)
(* The command is one sequential program: pc is the request, or the local  *)
(* step, it is at.  A request is a first attempt and its retries; the      *)
(* network may refuse an attempt, lose its answer, or keep it until the    *)
(* client's timeout.  The tenant (external, known from the requests the    *)
(* client sends) keeps the uploaded queries and the scans.                 *)
(***************************************************************************)
EXTENDS Integers, Sequences, FiniteSets

CONSTANTS
  Functions,    \* qualified names a run may learn
  Modes,        \* values of TRUESIGNAL_MODE considered
  StartScans,   \* scan lists the tenant may have when the first run starts
  Attempts,     \* _MAX_ATTEMPTS
  Polls,        \* polls of rescan (240 in the code)
  MaxRuns,      \* bound: invocations of the command
  MaxLost       \* bound: POSTs that are carried out and lose their answer

ASSUME AttemptsAssumption == Attempts \in Nat \ {0} /\ Polls \in Nat \ {0}

Scan == [with : SUBSET Functions, state : {"running", "completed", "failed", "deleted"}]

\* The tenant deletes scans oldest first, running ones never.
OldestFirst(list) ==
  \A i \in DOMAIN list : list[i].state = "deleted" =>
    \A j \in 1..i - 1 : list[j].state \in {"failed", "deleted"}

ASSUME ScansAssumption ==
  /\ Functions # {}
  /\ StartScans \subseteq {list \in Seq(Scan) : OldestFirst(list)}

VARIABLES
  mode,        \* cfg.live or not
  copies,      \* tenant: the queries POSTed, each with a number of its own
  scans,       \* tenant: its scans of the project, oldest first
  ledger,      \* ledger.json: the functions with an "applied" entry
  feedback,    \* feedback.json: <<function, outcome>>
  pc,          \* where the command is
  queue,       \* verdicts _review has still to go through
  reviewer,    \* who goes through them: a human at the prompt, or --yes
  todo,        \* approved overrides, then those run_apply has still to apply
  base,        \* the scan the evidence comes from
  shown,       \* the scan presented as the re-scan (0: none yet)
  polls,       \* polls made
  call,        \* the request in progress
  token,       \* the access token: none, fresh, in its last 60 s, expired
  run,         \* history: runs started
  lost,        \* history: POSTs carried out whose answer was lost
  excuses      \* history: queries on the tenant that the ledger cannot know of

tenant  == <<copies, scans>>
disk    == <<ledger, feedback>>
review  == <<queue, reviewer, todo>>
control == <<review, base, shown, polls>>
history == <<run, lost, excuses>>
vars    == <<mode, tenant, disk, pc, control, call, token, history>>

Getting == {"scans", "results", "triage", "poll", "fetch"}
Posting == {"apply", "start"}
Local   == {"review", "item", "record", "sleep"}
Ended   == {"done", "failed"}

Idle == [phase |-> "ready", kind |-> "api", attempt |-> 0, aged |-> FALSE]
Flight(kind, n) == [phase |-> "flight", kind |-> kind, attempt |-> n, aged |-> FALSE]

Uploaded == {c.fn : c \in copies}

Init ==
  /\ mode \in Modes
  /\ copies = {}
  /\ scans \in StartScans
  /\ ledger = {} /\ feedback = {}
  /\ pc = "done"
  /\ queue = {} /\ reviewer = "human" /\ todo = {}
  /\ base = 0 /\ shown = 0 /\ polls = 0
  /\ call = Idle /\ token = "none"
  /\ run = 0 /\ lost = 0 /\ excuses = 0

\* A new process: its client has no token yet.
Invoke ==
  /\ pc \in Ended
  /\ run < MaxRuns
  /\ run' = run + 1
  /\ pc' = "scans"
  /\ queue' = {} /\ reviewer' = "human" /\ todo' = {}
  /\ base' = 0 /\ shown' = 0 /\ polls' = 0
  /\ call' = Idle /\ token' = "none"
  /\ UNCHANGED <<mode, tenant, disk, lost, excuses>>

Fails ==
  /\ pc' = "failed"
  /\ call' = Idle

-----------------------------------------------------------------------------
(* One request: _auth_token, then _request_with_retry.                     *)

\* time.time() < self._token_exp - 60
Usable(t) == t = "fresh"

Busy == mode = "live" /\ pc \in Getting \cup Posting

\* The bearer is taken once, before the first attempt.
Request ==
  /\ Busy
  /\ call.phase = "ready"
  /\ call' = IF Usable(token) THEN Flight("api", 1) ELSE Flight("token", 1)
  /\ UNCHANGED <<mode, tenant, disk, pc, control, token, history>>

\* A token is used until 60 s before it expires, and an attempt is under way
\* for at most its timeout of 60 s: meanwhile a token ages by at most one
\* step, and so it does during a back-off.
Age ==
  /\ Busy
  /\ token \in {"fresh", "margin"}
  /\ ~call.aged
  /\ token' = IF token = "fresh" THEN "margin" ELSE "expired"
  /\ call' = [call EXCEPT !.aged = call.phase # "ready"]
  /\ UNCHANGED <<mode, tenant, disk, pc, control, history>>

InFlight(kind) == Busy /\ call.phase = "flight" /\ call.kind = kind

NewToken ==
  /\ InFlight("token")
  /\ token' = "fresh"
  /\ call' = Flight("api", 1)
  /\ UNCHANGED <<mode, tenant, disk, pc, control, history>>

\* An attempt the tenant accepts; what comes back is handled per request.
Arrives == InFlight("api") /\ token # "expired"

OneMoreAttempt(n) == n <= Attempts

AttemptsLeft(n) == n < Attempts

\* ConnectionError, 429 or 5xx: sleep and try again, or raise the last error.
BackOff ==
  IF AttemptsLeft(call.attempt)
  THEN pc' = pc /\ call' = [call EXCEPT !.phase = "backoff", !.aged = FALSE]
  ELSE Fails

Refused ==
  /\ Busy /\ call.phase = "flight"
  /\ BackOff
  /\ UNCHANGED <<mode, tenant, disk, control, token, history>>

Retry ==
  /\ Busy /\ call.phase = "backoff"
  /\ call' = Flight(call.kind, call.attempt + 1)
  /\ UNCHANGED <<mode, tenant, disk, pc, control, token, history>>

\* 401 for a token that expired on the way: any other 4xx fails the same way.
Unauthorized ==
  /\ InFlight("api")
  /\ token = "expired"
  /\ Fails
  /\ UNCHANGED <<mode, tenant, disk, control, token, history>>

\* A read timeout, a 4xx or a body that is not JSON is raised, not retried.
Raises ==
  /\ Busy /\ call.phase = "flight"
  /\ Fails
  /\ UNCHANGED <<mode, tenant, disk, control, token, history>>

\* What a POST does on the tenant once it is accepted.
Post(f) ==
  \/ /\ pc = "apply"
     /\ copies' = copies \cup {[fn |-> f, no |-> Cardinality(copies) + 1]}
     /\ UNCHANGED scans
  \/ /\ pc = "start"
     /\ scans' = Append(scans, [with |-> Uploaded, state |-> "running"])
     /\ UNCHANGED copies

\* The override being applied; the order of the batch plays no role.
Current == CHOOSE f \in todo : TRUE

\* The POST was carried out but its answer is lost: the client tries again
\* (connection reset, 502, 504), or gives up (read timeout).  The ledger
\* misses a query, not a scan.
AnswerLost ==
  /\ pc \in Posting
  /\ Arrives
  /\ lost < MaxLost
  /\ lost' = lost + 1
  /\ excuses' = IF pc = "apply" THEN excuses + 1 ELSE excuses
  /\ Post(Current)
  /\ BackOff \/ Fails
  /\ UNCHANGED <<mode, disk, control, token, run>>

-----------------------------------------------------------------------------
(* Answers, request by request.                                            *)

Goto(next) == pc' = next /\ call' = Idle

LatestOfAny == IF scans = <<>> THEN 0 ELSE Len(scans)

Completed == {i \in DOMAIN scans : scans[i].state = "completed"}

\* _latest_scan_id: newest first, only completed ones; 0 is its RuntimeError.
LatestScan == IF Completed = {} THEN 0 ELSE CHOOSE i \in Completed : \A j \in Completed : j <= i

BaselineFound ==
  /\ pc = "scans" /\ Arrives /\ LatestScan # 0
  /\ base' = LatestScan
  /\ Goto("results")
  /\ UNCHANGED <<mode, tenant, disk, review, shown, polls, token, history>>

\* No completed scan at all: the RuntimeError ends the command.
BaselineMissing ==
  /\ pc = "scans" /\ Arrives /\ LatestScan = 0
  /\ Fails
  /\ UNCHANGED <<mode, tenant, disk, control, token, history>>

GotResults ==
  /\ pc = "results" /\ Arrives
  /\ Goto("triage")
  /\ UNCHANGED <<mode, tenant, disk, control, token, history>>

GotTriage ==
  /\ pc = "triage" /\ Arrives
  /\ Goto("review")
  /\ UNCHANGED <<mode, tenant, disk, control, token, history>>

AcceptedQuery ==
  /\ pc = "apply" /\ Arrives
  /\ Post(Current)
  /\ Goto("record")
  /\ UNCHANGED <<mode, disk, control, token, history>>

AcceptedScan ==
  /\ pc = "start" /\ Arrives
  /\ Post(Current)
  /\ Goto("sleep")
  /\ UNCHANGED <<mode, disk, control, token, history>>

\* rescan returns the newest completed scan it finds ...
PollFound ==
  /\ pc = "poll" /\ Arrives /\ LatestScan # 0
  /\ shown' = LatestScan
  /\ Goto("fetch")
  /\ UNCHANGED <<mode, tenant, disk, review, base, polls, token, history>>

\* ... and keeps polling only while there is none at all.
PollEmpty ==
  /\ pc = "poll" /\ Arrives /\ LatestScan = 0
  /\ IF polls < Polls THEN Goto("sleep") ELSE Fails
  /\ UNCHANGED <<mode, tenant, disk, control, token, history>>

\* diff_results, the report and summarize_run follow without a request.
GotRescan ==
  /\ pc = "fetch" /\ Arrives
  /\ Goto("done")
  /\ UNCHANGED <<mode, tenant, disk, control, token, history>>

-----------------------------------------------------------------------------
(* Local steps.                                                            *)

LearnsAgain == Functions

\* run_learn skips what the ledger says is applied.
Unlearned == Functions \ ledger

\* Nothing learned, or a dry run: the command stops before the review.
StopsEarly ==
  /\ pc = "review"
  /\ Goto("done")
  /\ UNCHANGED <<mode, tenant, disk, control, token, history>>

\* args.include_review adds the verdicts that only a human may accept.
ToReview(learned, needs, include) == IF include THEN learned \cup needs ELSE learned

\* The arguments of the command are used here and nowhere else.
Review ==
  /\ pc = "review"
  /\ \E learned, needs \in SUBSET Unlearned, include \in BOOLEAN :
       /\ learned \cap needs = {}
       /\ queue' = ToReview(learned, needs, include)
  /\ reviewer' \in {"human", "--yes"}
  /\ todo' = {}
  /\ Goto("item")
  /\ UNCHANGED <<mode, tenant, disk, base, shown, polls, token, history>>

Unrecorded(f, outcome) == {}

ReviewFeedback(f, outcome) == {<<f, outcome>>}

\* The verdict in front of the user; their order plays no role either.
Asked == CHOOSE f \in queue : TRUE

\* One turn of _review: every item gets its feedback record before the next
\* one is shown, and all of them before anything is applied.
Decide(outcome) ==
  /\ pc = "item" /\ queue # {}
  /\ feedback' = feedback \cup ReviewFeedback(Asked, outcome)
  /\ todo' = IF outcome = "approved" THEN todo \cup {Asked} ELSE todo
  /\ queue' = queue \ {Asked}
  /\ UNCHANGED <<mode, tenant, ledger, pc, reviewer, base, shown, polls, call, token, history>>

AutoApprove == reviewer = "--yes" /\ Decide("approved")

\* What a human types at the prompt, if anything.
Answer == reviewer = "human" /\ \E outcome \in {"approved", "rejected"} : Decide(outcome)

Reviewed ==
  /\ pc = "item" /\ queue = {}
  /\ Goto(IF todo = {} THEN "done" ELSE "apply")
  /\ UNCHANGED <<mode, tenant, disk, control, token, history>>

LedgerAtTheEnd(rest) == IF rest = {} THEN ledger \cup {Current} ELSE ledger

Ledgered(rest) == ledger \cup {Current}

\* run_apply: the ledger entry follows its override, before the next one.
Record ==
  /\ pc = "record"
  /\ ledger' = Ledgered(todo \ {Current})
  /\ todo' = todo \ {Current}
  /\ Goto(IF todo' = {} THEN "start" ELSE "apply")
  /\ UNCHANGED <<mode, tenant, feedback, queue, reviewer, base, shown, polls, token, history>>

SleepUncounted ==
  /\ pc = "sleep"
  /\ Goto("poll")
  /\ UNCHANGED <<mode, tenant, disk, control, token, history>>

\* time.sleep(15) before every poll.
Sleep ==
  /\ pc = "sleep"
  /\ polls' = polls + 1
  /\ Goto("poll")
  /\ UNCHANGED <<mode, tenant, disk, review, base, shown, token, history>>

\* Ctrl-C, a cancelled CI job; a POST that has been carried out stays so.
Kill ==
  /\ pc \notin Ended
  /\ Fails
  /\ excuses' = IF pc = "record" THEN excuses + 1 ELSE excuses
  /\ UNCHANGED <<mode, tenant, disk, control, token, run, lost>>

-----------------------------------------------------------------------------
(* The mock client: fixtures, and applied_overrides.json for the tenant.   *)

MockIngest ==
  /\ mode = "mock" /\ pc = "scans"
  /\ base' = Len(scans)
  /\ Goto("review")
  /\ UNCHANGED <<mode, tenant, disk, review, shown, polls, token, history>>

\* A name that is already there is skipped.
MockApply ==
  /\ mode = "mock" /\ pc = "apply"
  /\ IF Current \in Uploaded THEN UNCHANGED tenant ELSE Post(Current)
  /\ Goto("record")
  /\ UNCHANGED <<mode, disk, control, token, history>>

\* The fixtures, re-evaluated under the overrides of this very moment.
MockRescan ==
  /\ mode = "mock" /\ pc = "start"
  /\ scans' = Append(scans, [with |-> Uploaded, state |-> "completed"])
  /\ shown' = Len(scans')
  /\ Goto("done")
  /\ UNCHANGED <<mode, copies, disk, review, base, polls, token, history>>

-----------------------------------------------------------------------------
(* The tenant (external): scans end, well or badly, when they do, and are  *)
(* deleted some day, the oldest first.                                     *)

ScanEnds ==
  /\ \E i \in DOMAIN scans, s \in {"completed", "failed"} :
       /\ scans[i].state = "running"
       /\ scans' = [scans EXCEPT ![i].state = s]
  /\ UNCHANGED <<mode, copies, disk, pc, control, call, token, history>>

ScanDeleted ==
  /\ \E i \in Completed :
       /\ \A j \in 1..i - 1 : scans[j].state \in {"failed", "deleted"}
       /\ scans' = [scans EXCEPT ![i].state = "deleted"]
  /\ UNCHANGED <<mode, copies, disk, pc, control, call, token, history>>

\* What the running command does by itself, with the answers it gets from the
\* network or fails to get.
Program ==
  \/ Request \/ Retry \/ NewToken \/ Refused \/ Raises \/ Unauthorized \/ AnswerLost
  \/ BaselineFound \/ BaselineMissing \/ GotResults \/ GotTriage
  \/ AcceptedQuery \/ AcceptedScan \/ PollFound \/ PollEmpty \/ GotRescan
  \/ StopsEarly \/ Review \/ AutoApprove \/ Reviewed \/ Record \/ Sleep
  \/ MockIngest \/ MockApply \/ MockRescan

Command == Program \/ Answer

Next == Invoke \/ Command \/ Age \/ Kill \/ ScanEnds \/ ScanDeleted

Spec == Init /\ [][Next]_vars

\* The interpreter runs on, and an attempt comes back within its timeout.
\* Nothing is assumed of the network and of the tenant's engine, nor of the
\* user: input() has no timeout, and nobody need ever Answer.
FairSpec == Spec /\ WF_vars(Program)

-----------------------------------------------------------------------------
Copy == [fn : Functions, no : Nat]

Calls == [phase : {"ready", "flight", "backoff"}, kind : {"api", "token"},
          attempt : 0..Attempts, aged : BOOLEAN]

\* A request is under way only at a request, an override is being applied
\* only while one is left, and scan numbers are numbers of scans.
TypeOK ==
  /\ mode \in Modes
  /\ copies \in SUBSET Copy /\ IsFiniteSet(copies)
  /\ scans \in Seq(Scan)
  /\ ledger \in SUBSET Functions
  /\ feedback \in SUBSET (Functions \X {"approved", "rejected"})
  /\ pc \in Getting \cup Posting \cup Local \cup Ended
  /\ queue \in SUBSET Functions /\ reviewer \in {"human", "--yes"}
  /\ todo \in SUBSET Functions
  /\ pc \in {"apply", "record"} => todo # {}
  /\ base \in 0..Len(scans) /\ shown \in 0..Len(scans)
  /\ polls \in 0..Polls
  /\ call \in Calls
  /\ pc \notin Getting \cup Posting => call = Idle
  /\ token \in {"none", "fresh", "margin", "expired"}
  /\ run \in Nat /\ lost \in Nat /\ excuses \in Nat

\* feedback.py:17-19 and pipeline.py:79-87, at the level of a whole run:
\* a ledger entry is backed by an upload, and an upload by a recorded
\* approval, at every moment of every run, failed and killed ones included.
EvidenceChain ==
  /\ ledger \subseteq Uploaded
  /\ \A f \in Uploaded : <<f, "approved">> \in feedback

\* run_apply (pipeline.py:79-87): what the tenant runs and the ledger does
\* not know is one override per query whose answer the client never saw or
\* did not live to record, and otherwise only the one just uploaded.
UnaccountedBounded ==
  Cardinality(Uploaded \ ledger) <= excuses + (IF pc = "record" THEN 1 ELSE 0)

\* _request_with_retry and the ledger check together: a query is POSTed a
\* second time, by a retry or by a later run, only when an earlier POST of a
\* query was carried out without the ledger learning of it.
NoNeedlessCopies == Cardinality(copies) - Cardinality(Uploaded) <= excuses

\* The scan presented as the re-scan did complete and is at least as new as
\* the one the evidence came from, although two requests chose them while
\* scans ended and were deleted.
RescanNotOlder ==
  shown # 0 => scans[shown].state \in {"completed", "deleted"} /\ base <= shown

\* Left at the prompt of _review (cli.py:96), for as long as the user likes.
AtPrompt == pc = "item" /\ reviewer = "human" /\ queue # {}

\* Retries and polls are bounded: whatever the network and the engine do, a
\* run that was started, and one whose prompt was answered, ends with a report
\* or an error or gets to the next prompt; with --yes, to which there is no
\* prompt, it ends.
RunEnds == (pc \notin Ended) ~> (pc \in Ended \/ AtPrompt)

\* checkmarx_client.py:190, "Poll until complete, then return fresh results":
\* the results a finished run compares were scanned with its overrides.
FreshResults == pc = "done" /\ shown # 0 => ledger \subseteq scans[shown].with
===============================================================================
