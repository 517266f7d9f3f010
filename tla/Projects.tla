------------------------------- MODULE Projects --------------------------------
(***************************************************************************)
(* The directories of the projects (webapp/store.py): written file by file *)
(* when a project is created or a built-in one is seeded at start-up,      *)
(* removed entry by entry, and written into by requests that looked for    *)
(* meta.json earlier.  Any step may be the last one of the process or      *)
(* raise: a full disk, a bad archive, a file that cannot be removed.       *)
(***************************************************************************)
EXTENDS Integers, Sequences

CONSTANTS
  Builtins,     \* BUILTIN_DEMOS
  Uploads,      \* identifiers an upload may get (random suffix: never twice)
  Workers,      \* threads of the server
  MaxRequests,  \* bound: requests served
  MaxStarts     \* bound: times the server is started

ASSUME ProjectsAssumption == Builtins \cap Uploads = {} /\ Builtins \cup Uploads # {}

Ids == Builtins \cup Uploads

VARIABLES
  dir,       \* the entries of a project's directory, "." for itself
  work,      \* audit decisions in its triage.json, 0 when there is no such file
  server,    \* down, starting or up
  seed,      \* the built-in being seeded: files written, {} for none
  worker,    \* what a thread is doing
  used,      \* history: upload identifiers given out
  deleting,  \* history: projects whose removal has begun
  gone,      \* history: projects whose meta.json was removed
  recorded,  \* history: audits of a project that were written
  overlapped, \* history: projects two audits of which were under way at once
  requests, starts

disk    == <<dir, work>>
history == <<used, deleting, gone, recorded, overlapped>>
counts  == <<requests, starts>>
vars    == <<disk, server, seed, worker, history, counts>>

\* _finish_project: finding_ids.json only when there are findings.
MetaFirst == <<"meta", "finding_ids", "scan", "triage", "applied">>

WriteOrder == <<"finding_ids", "scan", "triage", "applied", "meta">>

Optional == {"finding_ids"}
Required == {"scan", "triage", "applied"}
Entry    == {".", "source", "finding_ids", "scan", "triage", "applied", "meta", "settings", "state"}

Idle == [doing |-> "idle"]

Exists(p) == "meta" \in dir[p]

Init ==
  /\ dir = [p \in Ids |-> {}]
  /\ work = [p \in Ids |-> 0]
  /\ server = "down" /\ seed = {}
  /\ worker = [w \in Workers |-> Idle]
  /\ used = {} /\ deleting = {} /\ gone = {}
  /\ recorded = [p \in Ids |-> 0] /\ overlapped = {}
  /\ requests = 0 /\ starts = 0

\* write_json makes the directories above the file.
Wrote(p, entry) == dir' = [dir EXCEPT ![p] = @ \cup {".", entry}]

\* One file of _finish_project; triage.json is written without decisions
\* made by anyone.
Finish(p, n) ==
  /\ \/ Wrote(p, WriteOrder[n])
     \/ WriteOrder[n] \in Optional /\ UNCHANGED dir
  /\ work' = IF WriteOrder[n] = "triage" THEN [work EXCEPT ![p] = 0] ELSE work

-----------------------------------------------------------------------------
(* The process: ProjectStore.__init__ seeds before anything is served.     *)

Start ==
  /\ server = "down" /\ starts < MaxStarts
  /\ server' = "starting" /\ starts' = starts + 1
  /\ UNCHANGED <<disk, seed, worker, history, requests>>

EveryStart(p) == p \in Builtins

Missing(p) == ~Exists(p)

SeedNext ==
  /\ server = "starting" /\ seed = {}
  /\ \E p \in Builtins : Missing(p) /\ seed' = {[p |-> p, n |-> 1]}
  /\ UNCHANGED <<disk, server, worker, history, counts>>

SeedFile ==
  /\ server = "starting"
  /\ \E s \in seed :
       /\ Finish(s.p, s.n)
       /\ seed' = IF s.n = Len(WriteOrder) THEN {} ELSE {[s EXCEPT !.n = s.n + 1]}
  /\ UNCHANGED <<server, worker, history, counts>>

Serve ==
  /\ server = "starting" /\ seed = {}
  /\ \A p \in Builtins : Exists(p)
  /\ server' = "up"
  /\ UNCHANGED <<disk, seed, worker, history, counts>>

\* A kill, or an error while seeding, which ends the process too.
Stop ==
  /\ server # "down"
  /\ server' = "down" /\ seed' = {}
  /\ worker' = [w \in Workers |-> Idle]
  /\ UNCHANGED <<disk, history, counts>>

-----------------------------------------------------------------------------
(* Requests.                                                               *)

Serving(w, doing) == server = "up" /\ worker[w].doing = doing

Begin(w, task) ==
  /\ Serving(w, "idle")
  /\ requests < MaxRequests
  /\ requests' = requests + 1
  /\ worker' = [worker EXCEPT ![w] = task]

Ends(w) == worker' = [worker EXCEPT ![w] = Idle]

\* create_from_zip: a directory of its own, with the archive in it.
Create(w) ==
  /\ \E p \in Uploads \ used :
       /\ Begin(w, [doing |-> "create", p |-> p, n |-> 1])
       /\ used' = used \cup {p}
       /\ Wrote(p, "source")
  /\ UNCHANGED <<work, server, seed, deleting, gone, recorded, overlapped, starts>>

CreateFile(w) ==
  /\ Serving(w, "create")
  /\ LET t == worker[w] IN
       /\ Finish(t.p, t.n)
       /\ IF t.n = Len(WriteOrder) THEN Ends(w)
          ELSE worker' = [worker EXCEPT ![w].n = t.n + 1]
  /\ UNCHANGED <<server, seed, history, counts>>

\* An audit or a change of settings of a project that exists now.
Open(w) ==
  /\ \E p \in Ids, doing \in {"audit", "settings"} :
       Exists(p) /\ Begin(w, [doing |-> doing, p |-> p])
  /\ UNCHANGED <<disk, server, seed, history, starts>>

\* config_for: Config makes the state directory of the project it has read
\* the meta.json of, whether or not it is still there.
Configure(w) ==
  /\ Serving(w, "audit")
  /\ Exists(worker[w].p)
  /\ worker' = [worker EXCEPT ![w].doing = "configure"]
  /\ UNCHANGED <<disk, server, seed, history, counts>>

MakeStateDir(w) ==
  /\ Serving(w, "configure")
  /\ Wrote(worker[w].p, "state")
  /\ worker' = [worker EXCEPT ![w].doing = "decide"]
  /\ UNCHANGED <<work, server, seed, history, counts>>

\* add_audit reads the decisions that are there, if any ...
ReadTriage(w) ==
  /\ Serving(w, "decide")
  /\ LET p == worker[w].p IN
       /\ worker' = [worker EXCEPT ![w] = [doing |-> "append", p |-> p, copy |-> work[p]]]
       /\ overlapped' = IF \E v \in Workers : worker[v].doing = "append" /\ worker[v].p = p
                        THEN overlapped \cup {p} ELSE overlapped
  /\ UNCHANGED <<disk, server, seed, used, deleting, gone, recorded, counts>>

\* ... and writes them back with its own, whatever is there by then.
AddAudit(w) ==
  /\ Serving(w, "append")
  /\ LET t == worker[w] IN
       /\ Wrote(t.p, "triage")
       /\ work' = [work EXCEPT ![t.p] = t.copy + 1]
       /\ recorded' = [recorded EXCEPT ![t.p] = @ + 1]
  /\ Ends(w)
  /\ UNCHANGED <<server, seed, used, deleting, gone, overlapped, counts>>

SettingsInMeta == "meta"

SettingsFile == "settings"

SaveSettings(w) ==
  /\ Serving(w, "settings")
  /\ Wrote(worker[w].p, SettingsFile)
  /\ Ends(w)
  /\ UNCHANGED <<work, server, seed, history, counts>>

AnyProject(p) == p \in Ids

Deletable(p) == p \notin Builtins

\* delete_project has no check that the project exists; rmtree lists the
\* directory first and then removes what it has listed.
Delete(w) ==
  /\ \E p \in Ids :
       /\ Deletable(p) /\ dir[p] # {}
       /\ Begin(w, [doing |-> "delete", p |-> p, listed |-> dir[p] \ {"."}])
       /\ deleting' = deleting \cup {p}
  /\ UNCHANGED <<disk, server, seed, used, gone, recorded, overlapped, starts>>

\* In the order of the listing, which can be any.
RemoveEntry(w) ==
  /\ Serving(w, "delete")
  /\ LET t == worker[w] IN
     \E e \in t.listed \cap dir[t.p] :
       /\ dir' = [dir EXCEPT ![t.p] = @ \ {e}]
       /\ worker' = [worker EXCEPT ![w].listed = @ \ {e}]
       /\ work' = IF e = "triage" THEN [work EXCEPT ![t.p] = 0] ELSE work
       /\ gone' = IF e = "meta" THEN gone \cup {t.p} ELSE gone
  /\ UNCHANGED <<server, seed, used, deleting, recorded, overlapped, counts>>

\* The directory itself goes last, and only when nothing came back into it.
RemoveDirectory(w) ==
  /\ Serving(w, "delete")
  /\ LET t == worker[w] IN
       /\ t.listed = {} /\ dir[t.p] = {"."}
       /\ dir' = [dir EXCEPT ![t.p] = {}]
  /\ Ends(w)
  /\ UNCHANGED <<work, server, seed, history, counts>>

\* A step raises: the request is over, with what it has done so far.
Raise(w) ==
  /\ server = "up" /\ worker[w] # Idle
  /\ Ends(w)
  /\ UNCHANGED <<disk, server, seed, history, counts>>

Next ==
  \/ Start \/ SeedNext \/ SeedFile \/ Serve \/ Stop
  \/ \E w \in Workers :
       \/ Create(w) \/ CreateFile(w) \/ Open(w) \/ Configure(w) \/ MakeStateDir(w)
       \/ ReadTriage(w) \/ AddAudit(w) \/ SaveSettings(w) \/ Delete(w) \/ RemoveEntry(w)
       \/ RemoveDirectory(w) \/ Raise(w)

Spec == Init /\ [][Next]_vars

-----------------------------------------------------------------------------
Task ==
  {Idle} \cup [doing : {"create"}, p : Uploads, n : DOMAIN WriteOrder]
  \cup [doing : {"audit", "settings", "configure", "decide"}, p : Ids]
  \cup [doing : {"append"}, p : Ids, copy : Nat]
  \cup [doing : {"delete"}, p : Uploads, listed : SUBSET Entry]

\* No built-in is ever removed, no two requests create in one directory, and
\* nothing is served before the start-up is over.
TypeOK ==
  /\ dir \in [Ids -> SUBSET Entry]
  /\ work \in [Ids -> Nat]
  /\ server \in {"down", "starting", "up"}
  /\ seed \in SUBSET [p : Builtins, n : DOMAIN WriteOrder]
  /\ \A s, t \in seed : s = t
  /\ worker \in [Workers -> Task]
  /\ server # "up" => \A w \in Workers : worker[w] = Idle
  /\ server # "starting" => seed = {}
  /\ \A v, w \in Workers :
       worker[v].doing = "create" /\ worker[w].doing = "create" /\ worker[v].p = worker[w].p => v = w
  /\ used \in SUBSET Uploads /\ deleting \in SUBSET Uploads /\ gone \in SUBSET deleting
  /\ recorded \in [Ids -> Nat] /\ overlapped \in SUBSET Ids
  /\ requests \in Nat /\ starts \in Nat

\* A project that any page shows (exists, list_projects: meta.json is there)
\* has all its files, whenever the process stopped or a write failed while it
\* was created, unless its removal has begun; and whoever is served sees
\* every built-in project, after any number of broken start-ups.
VisibleIsComplete ==
  /\ \A p \in Ids \ deleting : Exists(p) => Required \subseteq dir[p]
  /\ server = "up" => \A p \in Builtins : Exists(p)

\* Once its meta.json is removed a project does not come back, although
\* requests that had found it before write into its directory again.
DeletedStaysDeleted == \A p \in gone : ~Exists(p)

\* store.py:219-228 and 81-84: every audit that was written is in triage.json
\* afterwards, through kills, failed requests and later start-ups (the seeding,
\* which writes triage.json anew, never meets a project in use), unless the
\* project's removal has begun or two of its audits were between their read
\* and their write at once: of these one may be lost.
AuditsKept == \A p \in Ids \ (deleting \cup overlapped) : work[p] = recorded[p]
===============================================================================
