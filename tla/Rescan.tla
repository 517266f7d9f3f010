-------------------------------- MODULE Rescan --------------------------------
(***************************************************************************)
(* One project as its pages show it: the built-in scanner (scanner.py), the*)
(* rescan that takes the applied overrides into account (store.py,         *)
(* UiCheckmarxClient), the selection of candidates from the triage history *)
(* (candidate_selector.py), and the requests that move them: analyze,      *)
(* rollback and audit.                                                     *)
(*                                                                         *)
(* A call is a name such as "Cleaner.clean" or "getParameter"; what the    *)
(* code compares is the name or its last part, Bare.  Analyze and rollback *)
(* are atomic here (Lifecycle has their steps); an audit is two steps, so  *)
(* that the overrides may change under it.                                 *)
(***************************************************************************)
EXTENDS Integers, Sequences, FiniteSets

CONSTANTS
  Methods,       \* qualified names of the indexed methods
  Calls,         \* names of calls, after the one-letter noise is dropped
  Bare,          \* _bare: the part of a name after the last dot
  KnownSources,  \* code_indexer.KNOWN_SOURCES
  KnownSinks,    \* code_indexer.KNOWN_SINKS
  SinkClass,     \* scanner._SINK_CLASSES: bare name -> attack class
  Repos,         \* the uploads considered: method -> its calls, in order
  Rank,          \* place of a method's name in sorted order
  Classes,       \* attack classes a classification may name
  Users,         \* reviewers
  MaxDecisions   \* bound: audit decisions recorded

ASSUME RepoAssumption ==
  /\ IsFiniteSet(Methods)
  /\ DOMAIN Bare = Methods \cup Calls
  /\ KnownSinks \subseteq DOMAIN SinkClass
  /\ Repos \subseteq [Methods -> Seq(Calls)]
  /\ Rank \in [Methods -> Nat]
  /\ \A m, n \in Methods : Rank[m] = Rank[n] => m = n
  /\ MaxDecisions \in Nat

VARIABLES
  repo,      \* the extracted source, never changed after the upload
  ids,       \* finding_ids.json "map"
  next,      \* finding_ids.json "next"
  baseline,  \* scan_baseline.json, written once
  triage,    \* triage.json decisions
  applied,   \* applied_overrides.json
  captured,  \* corrections queued in training_examples.json
  auditing   \* the audit request that has read its finding, if any

vars == <<repo, ids, next, baseline, triage, applied, captured, auditing>>

Roles == {"sanitizer", "source", "sink"}
Override == [kind : Roles, fn : Methods, class : Classes]

-----------------------------------------------------------------------------
(* code_indexer.py and scanner.py                                          *)

Names(m) == {repo[m][i] : i \in DOMAIN repo[m]}
WrapsKnownSource(m) == \E n \in Names(m) : Bare[n] \in KnownSources
TouchesKnownSink(m) == \E n \in Names(m) : Bare[n] \in KnownSinks

\* The methods _resolve_sink may resolve a call to, by its bare name.
SinkMethods(n) == {m \in Methods : Bare[m] = Bare[n] /\ TouchesKnownSink(m)}

LiteralSink(n) == Bare[n] \in DOMAIN SinkClass

IsSink(n) == Bare[n] \in DOMAIN SinkClass \/ SinkMethods(n) # {}

\* The node of a sink on a path, and its class.
SinkNode(n) == IF Bare[n] \in DOMAIN SinkClass THEN Bare[n] ELSE CHOOSE m \in SinkMethods(n) : TRUE

ClassOf(n) == IF Bare[n] \in DOMAIN SinkClass THEN SinkClass[Bare[n]] ELSE "sql_injection"

LastOf(S) == CHOOSE i \in S : \A j \in S : i >= j

First(S) == CHOOSE i \in S : \A j \in S : i <= j

OnlyLearned(m, learned) ==
  {i \in DOMAIN repo[m] : Bare[repo[m][i]] \in IF learned = {} THEN KnownSources ELSE learned}

SourcesIn(m, learned) == {i \in DOMAIN repo[m] : Bare[repo[m][i]] \in KnownSources \cup learned}

SinksIn(m, from) == {j \in DOMAIN repo[m] : j > from /\ IsSink(repo[m][j])}

HasFlow(m, learned) ==
  /\ SourcesIn(m, learned) # {}
  /\ SinksIn(m, First(SourcesIn(m, learned))) # {}

\* The methods that hold a flow, for a set of learned bare names.
Flows(learned) == {m \in Methods : HasFlow(m, learned)}

\* scan_methods: the passthrough calls of the flow, and its sink.
Flow(m, learned) ==
  LET s == First(SourcesIn(m, learned))
      k == First(SinksIn(m, s))
  IN [method |-> m, through |-> SubSeq(repo[m], s + 1, k - 1),
      sink |-> SinkNode(repo[m][k]), class |-> ClassOf(repo[m][k])]

-----------------------------------------------------------------------------
(* store.py: identifiers, rescan, bypass check                             *)

\* _assign_ids: the methods without an id get the next ones, in sorted order.
FromScratch(known, from, found) ==
  [m \in found |-> 1001 + Cardinality({n \in found : Rank[n] < Rank[m]})]

WithIds(known, from, found) ==
  LET fresh == found \ DOMAIN known
  IN [m \in DOMAIN known \cup found |->
        IF m \in DOMAIN known THEN known[m]
        ELSE from + Cardinality({n \in fresh : Rank[n] < Rank[m]})]

OneMorePerFinding(known, from, found) ==
  from + Cardinality(found) - Cardinality(DOMAIN known)

NextId(known, from, found) == from + Cardinality(found \ DOMAIN known)

Trusted(overrides, kind) == {o.fn : o \in {x \in overrides : x.kind = kind}}

LearnedSources(overrides) == {Bare[f] : f \in Trusted(overrides, "source")}

\* The passthrough calls of a path that a sanitizer override accounts for.
Sanitized(overrides, through) ==
  LET functions == Trusted(overrides, "sanitizer")
  IN {n \in {through[i] : i \in DOMAIN through} :
        n \in functions \/ Bare[n] \in {Bare[f] : f \in functions}}

\* check_confirmed_bypasses_sanitizer: the overrides it may return.
SameFunction(overrides, through) ==
  {o \in overrides : o.kind = "sanitizer" /\ \E i \in DOMAIN through : through[i] = o.fn}

Bypassed(overrides, through) ==
  {o \in overrides :
    o.kind = "sanitizer" /\ \E i \in DOMAIN through :
                              through[i] = o.fn \/ Bare[through[i]] = Bare[o.fn]}

\* A flow as UiCheckmarxClient.rescan reports it.
Found(f) ==
  [id |-> ids[f.method], flow |-> f,
   state |-> IF Sanitized(applied, f.through) # {} THEN "NOT_EXPLOITABLE" ELSE "TO_VERIFY",
   new |-> ids[f.method] \notin {b.id : b \in baseline}]

\* What the pages show: the rescan (with nothing applied, the baseline).
Results ==
  LET learned == LearnedSources(applied)
  IN {Found(Flow(m, learned)) : m \in Flows(learned)}

-----------------------------------------------------------------------------
(* candidate_selector.py, over the baseline and the triage history         *)

\* The nodes of a baseline path after its source: passthroughs, then the sink.
Path(b) == Append(b.flow.through, b.flow.sink)

\* One dismissal per DISMISS decision and per step of the path that names q.
Dismissals(q) ==
  UNION {{<<b, i, d>> : i \in {j \in DOMAIN Path(b) : Path(b)[j] = q},
                        d \in {e \in DOMAIN triage : /\ triage[e].id = b.id
                                                     /\ triage[e].action = "DISMISS"}}
         : b \in baseline}

\* On the path of a dismissed finding, and not only as an endpoint.
OnDismissedPath(q) ==
  /\ Dismissals(q) # {}
  /\ \E b \in baseline : \E i \in DOMAIN b.flow.through : b.flow.through[i] = q

\* select_candidates, without the hypotheses: the classifier decides the role.
Candidates == {q \in Methods : OnDismissedPath(q) \/ WrapsKnownSource(q) \/ TouchesKnownSink(q)}

-----------------------------------------------------------------------------
(* Requests.                                                               *)

\* _finish_project: the scan of the upload with nothing learned.
Init ==
  /\ repo \in Repos
  /\ ids = WithIds(<<>>, 1001, Flows({}))
  /\ next = NextId(<<>>, 1001, Flows({}))
  /\ baseline = {[id |-> ids[m], flow |-> Flow(m, {})] : m \in Flows({})}
  /\ triage = <<>>
  /\ applied = {}
  /\ captured = {}
  /\ auditing = {}

\* The rescan of a request, under the overrides it leaves applied.
Rescanned(overrides) ==
  LET found == Flows(LearnedSources(overrides))
  IN /\ ids' = WithIds(ids, next, found)
     /\ next' = NextId(ids, next, found)

\* POST analyze: some candidates not yet learned are approved and applied,
\* in the role and class the classifier gave them, and the project rescanned.
Analyze ==
  /\ \E fns \in SUBSET (Candidates \ {o.fn : o \in applied}) :
       /\ fns # {}
       /\ \E as \in [fns -> Roles \X Classes] :
            applied' = applied \cup {[kind |-> as[f][1], fn |-> f, class |-> as[f][2]] : f \in fns}
  /\ Rescanned(applied')
  /\ UNCHANGED <<repo, baseline, triage, captured, auditing>>

\* rollback_override removes one override; what it changes on the pages is
\* derived again from what is left.
Rollback(o) ==
  /\ o \in applied
  /\ applied' = applied \ {o}
  /\ UNCHANGED <<repo, ids, next, baseline, triage, captured, auditing>>

Actions == {"DISMISS", "CONFIRM"}

\* POST audit, first half: the finding as the rescan shows it now.
AuditReads(r, action, user) ==
  /\ auditing = {}
  /\ Len(triage) < MaxDecisions
  /\ auditing' = {[found |-> r, action |-> action, user |-> user]}
  /\ Rescanned(applied)
  /\ UNCHANGED <<repo, baseline, triage, applied, captured>>

Decision(a) == [id |-> a.found.id, action |-> a.action, user |-> a.user]

\* POST audit, second half: the decision is recorded, and a confirmed finding
\* that passes through a sanitizer applied by now queues a correction of it.
AuditRecords(a) ==
  /\ triage' = Append(triage, Decision(a))
  /\ auditing' = auditing \ {a}
  /\ IF a.action = "CONFIRM" /\ Bypassed(applied, a.found.flow.through) # {}
     THEN \E o \in Bypassed(applied, a.found.flow.through) :
            captured' = captured \cup {[id |-> a.found.id, fn |-> o.fn]}
     ELSE captured' = captured
  /\ UNCHANGED <<repo, ids, next, baseline, applied>>

Next ==
  \/ Analyze
  \/ \E o \in applied : Rollback(o)
  \/ \E r \in Results, action \in Actions, user \in Users : AuditReads(r, action, user)
  \/ \E a \in auditing : AuditRecords(a)

Spec == Init /\ [][Next]_vars

-----------------------------------------------------------------------------
(* Properties.                                                             *)

FlowType == [method : Methods, through : Seq(Calls), sink : Methods \cup Calls \cup DOMAIN SinkClass,
             class : Classes \cup {SinkClass[n] : n \in DOMAIN SinkClass} \cup {"sql_injection"}]
FoundType == [id : Nat, flow : FlowType, state : {"NOT_EXPLOITABLE", "TO_VERIFY"}, new : BOOLEAN]

\* Every file holds records of its own kind, every flow on a page has an
\* identifier, and the next identifier is above all those given.
TypeOK ==
  /\ repo \in [Methods -> Seq(Calls)]
  /\ DOMAIN ids \subseteq Methods /\ \A m \in DOMAIN ids : ids[m] \in 1001..(next - 1)
  /\ next \in Nat
  /\ baseline \subseteq [id : Nat, flow : FlowType]
  /\ triage \in Seq([id : Nat, action : Actions, user : Users])
  /\ applied \subseteq Override
  /\ captured \subseteq [id : Nat, fn : Methods]
  /\ auditing \subseteq [found : FoundType, action : Actions, user : Users]
  /\ Flows(LearnedSources(applied)) \subseteq DOMAIN ids

\* "Stable ids" (scanner.py): whatever is learned or rolled back, and in any
\* order, an identifier seen on a page means the same method on every later
\* page, so that the audits recorded under it stay with their finding.
StableIds ==
  [][\A m \in DOMAIN ids, n \in DOMAIN ids' : ids[m] = ids'[n] <=> m = n]_vars

\* Learning never loses a finding: a source learned before or after a known
\* one may move the flow of a method, but a method that had one keeps one.
LearningOnlyAdds ==
  [][applied \subseteq applied' =>
       Flows(LearnedSources(applied)) \subseteq Flows(LearnedSources(applied'))]_vars

\* _project_impact's "surfaced" is exactly what the current total has over
\* the baseline: no baseline finding is missing and none counts as new.
SurfacedIsDifference ==
  LET results == Results
  IN Cardinality({r \in results : r.new}) = Cardinality(results) - Cardinality(baseline)

\* Trusting a function that touches a known sink as a sanitizer downgrades
\* nothing: a call by its name is always taken for the sink of the flow.
SinksNeverTrusted ==
  \A r \in Results : \A i \in DOMAIN r.flow.through :
    \A o \in applied : TouchesKnownSink(o.fn) => Bare[r.flow.through[i]] # Bare[o.fn]

\* A reviewer confirms a finding that the overrides applied by now downgrade:
\* one of the functions behind the downgrade gets its correction queued, even
\* if the overrides changed after the page was read.
ConfirmIsCaptured ==
  [][\A a \in auditing \ auditing' :
       a.action = "CONFIRM" /\ Sanitized(applied, a.found.flow.through) # {} =>
         \E c \in captured' :
           /\ c.id = a.found.id
           /\ c.fn \in Trusted(applied, "sanitizer")
           /\ \E n \in Sanitized(applied, a.found.flow.through) : Bare[n] = Bare[c.fn]]_vars
=============================================================================
