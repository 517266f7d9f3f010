------------------------------- MODULE Curation --------------------------------
(***************************************************************************)
(* The training examples (training_store.py): captured from reviews,       *)
(* rollbacks and audits, decided or written by admins at /training, read   *)
(* by the export command (cli.py) and from its file by the fine-tune       *)
(* script.  Server threads rewrite one JSON file without a lock; the       *)
(* export writes its file line by line, the script may read it meanwhile.  *)
(*                                                                         *)
(* The order of examples and of lines plays no role: files are sets here.  *)
(***************************************************************************)
EXTENDS Integers, FiniteSets

CONSTANTS
  Workers,      \* threads of the server
  Roles,        \* roles of an example
  NoRole,       \* a decision that comes without a role
  Classes,      \* attack classes of an example
  NoClass,      \* an empty list of attack classes, or no choice in the form
  MaxRequests,  \* bound: requests served
  MaxExports    \* bound: exports started

ASSUME ChoicesAssumption == NoClass \notin Classes /\ NoRole \notin Roles

Status == {"pending", "approved", "discarded"}

Row == [id : Nat, status : Status, role : Roles, class : Classes \cup {NoClass}, manual : BOOLEAN]

VARIABLES
  rows,       \* training_examples.json
  made,       \* identifiers handed out (uuid4 in the code: all different)
  thread,     \* what a server thread is doing
  dataset,    \* the exported file: whole lines, and whether one is cut off
  left,       \* rows the export still has to write; its process runs when open
  open,       \* the export has the file open
  trained,    \* what the fine-tune script loaded
  submitted,  \* history: the approvals admins have submitted
  exported,   \* history: the rows the last export set out to write
  requests, exports

store   == <<rows, made>>
output  == <<dataset, left, open>>
history == <<submitted, exported, requests, exports>>
vars    == <<store, thread, output, trained, history>>

Idle == [doing |-> "idle"]

Init ==
  /\ rows = {} /\ made = 0
  /\ thread = [w \in Workers |-> Idle]
  /\ dataset = [lines |-> {}, torn |-> FALSE]
  /\ left = {} /\ open = FALSE
  /\ trained = {}
  /\ submitted = {} /\ exported = {}
  /\ requests = 0 /\ exports = 0

-----------------------------------------------------------------------------
(* The store: what a request makes of the copy it has read.                *)

PendingId(copy) == Cardinality({r \in copy : r.status = "pending"})

FreshId(copy) == made

\* record_candidate; a manual example is approved by being written.
Appended(copy, form) ==
  copy \cup {[id |-> FreshId(copy), role |-> form.role, class |-> form.class,
              status |-> IF form.kind = "manual" THEN "approved" ELSE "pending",
              manual |-> form.kind = "manual"]}

\* set_status: an empty field is None and leaves what is there.  The page
\* always sends a role; other callers may send none.
DecidedRow(row, form) ==
  [row EXCEPT !.status = form.kind,
              !.role = IF form.role = NoRole THEN @ ELSE form.role,
              !.class = IF form.class = NoClass THEN @ ELSE form.class]

Decided(copy, form) ==
  {IF r.id = form.id THEN DecidedRow(r, form) ELSE r : r \in copy}

Creates(form) == form.kind \in {"capture", "manual"}

Finds(copy, form) == \E r \in copy : r.id = form.id

Fresh(kind)  == [kind : {kind}, id : {0}, role : Roles, class : Classes \cup {NoClass}]
Form(status) == [kind : {status}, id : 0..made - 1,
                 role : Roles \cup {NoRole}, class : Classes \cup {NoClass}]

\* A review, a rollback or a confirmed finding captures; the training page,
\* which may have been loaded at any time before, decides or adds.
Forms == Fresh("capture") \cup Fresh("manual") \cup Form("approved") \cup Form("discarded")

Load(w) ==
  /\ thread[w] = Idle
  /\ requests < MaxRequests
  /\ requests' = requests + 1
  /\ \E form \in Forms :
       /\ thread' = [thread EXCEPT ![w] = [doing |-> form.kind, form |-> form, copy |-> rows]]
       /\ submitted' = IF form.kind = "approved" THEN submitted \cup {form} ELSE submitted
  /\ UNCHANGED <<store, output, trained, exported, exports>>

\* No such example: set_status raises and the page says so.
NotFound(w) ==
  /\ thread[w] # Idle
  /\ ~Creates(thread[w].form) /\ ~Finds(thread[w].copy, thread[w].form)
  /\ thread' = [thread EXCEPT ![w] = Idle]
  /\ UNCHANGED <<store, output, trained, history>>

\* The file is replaced by the changed copy, whatever happened to it since.
Store(w) ==
  /\ thread[w] # Idle
  /\ LET form == thread[w].form
         copy == thread[w].copy
     IN /\ Creates(form) \/ Finds(copy, form)
        /\ rows' = IF Creates(form) THEN Appended(copy, form) ELSE Decided(copy, form)
        /\ made' = IF Creates(form) THEN made + 1 ELSE made
  /\ thread' = [thread EXCEPT ![w] = Idle]
  /\ UNCHANGED <<output, trained, history>>

\* The server process ends in the middle of its requests.
KillServer ==
  /\ \E w \in Workers : thread[w] # Idle
  /\ thread' = [w \in Workers |-> Idle]
  /\ UNCHANGED <<store, output, trained, history>>

-----------------------------------------------------------------------------
(* truesignal export-training-data: another process, without the server.   *)

Undiscarded(examples) == {r \in examples : r.status # "discarded"}

\* export_dataset
Exported(examples) == {r \in examples : r.status = "approved"}

OpenedForAppend == dataset

\* open(args.out, "w") truncates the file of the export before.
Opened == [lines |-> {}, torn |-> FALSE]

\* With nothing approved the command leaves the file alone.
ExportOpens ==
  /\ ~open
  /\ exports < MaxExports
  /\ exports' = exports + 1
  /\ Exported(rows) # {}
  /\ dataset' = Opened
  /\ left' = Exported(rows) /\ exported' = Exported(rows)
  /\ open' = TRUE
  /\ UNCHANGED <<store, thread, trained, submitted, requests>>

\* What has reached the file may end anywhere in a line.
ExportWrites ==
  /\ open /\ left # {}
  /\ \/ /\ ~dataset.torn
        /\ dataset' = [dataset EXCEPT !.torn = TRUE]
        /\ UNCHANGED left
     \/ /\ dataset.torn
        /\ \E r \in left :
             /\ dataset' = [lines |-> dataset.lines \cup {r}, torn |-> FALSE]
             /\ left' = left \ {r}
  /\ UNCHANGED <<store, thread, open, trained, history>>

\* The end of the command, or of its process in the middle of a write.
ExportEnds ==
  /\ open
  /\ open' = FALSE /\ left' = {}
  /\ UNCHANGED <<store, thread, dataset, trained, history>>

\* _load_dataset: no file, or no line in it, ends the script; so does a line
\* that is not JSON.  The training that follows is not in the repository.
Train ==
  /\ dataset.lines # {} /\ ~dataset.torn
  /\ trained' = dataset.lines
  /\ UNCHANGED <<store, thread, output, history>>

Next ==
  \/ \E w \in Workers : Load(w) \/ NotFound(w) \/ Store(w)
  \/ KillServer \/ ExportOpens \/ ExportWrites \/ ExportEnds \/ Train

Spec == Init /\ [][Next]_vars

-----------------------------------------------------------------------------
UniqueIds(examples) == \A r, q \in examples : r.id = q.id => r = q

Requests ==
  [doing : {"capture", "manual", "approved", "discarded"},
   form : {f \in [kind : {"capture", "manual", "approved", "discarded"}, id : Nat,
                  role : Roles \cup {NoRole}, class : Classes \cup {NoClass}] :
             Creates(f) => f.role \in Roles},
   copy : SUBSET Row]

Below(examples) == \A r \in examples : r.id < made

\* No file and no thread ever holds two examples of one identifier, whatever
\* was lost: set_status changes the first it finds.
TypeOK ==
  /\ rows \in SUBSET Row /\ UniqueIds(rows) /\ Below(rows)
  /\ made \in Nat
  /\ thread \in [Workers -> {Idle} \cup Requests]
  /\ \A w \in Workers : thread[w] # Idle => UniqueIds(thread[w].copy) /\ Below(thread[w].copy)
  /\ dataset \in [lines : SUBSET Row, torn : BOOLEAN]
  /\ left \in SUBSET Row /\ open \in BOOLEAN
  /\ trained \in SUBSET Row /\ exported \in SUBSET Row
  /\ submitted \subseteq [kind : {"approved"}, id : Nat,
                          role : Roles \cup {NoRole}, class : Classes \cup {NoClass}]
  /\ requests \in Nat /\ exports \in Nat

PassedBothGates(row) ==
  row.manual \/ \E a \in submitted : a.id = row.id /\ a.role \in {row.role, NoRole}

OnlyGated(examples) == \A r \in examples : r.status = "approved" /\ PassedBothGates(r)

\* training_store.py:13-18: what is exported, in the file or loaded for
\* training was written by an admin, or approved by one for that very
\* example, and with that very role if the approval named one; lost updates
\* and kills do not break it.
TwoGates == OnlyGated(dataset.lines) /\ OnlyGated(left) /\ OnlyGated(trained)

\* cmd_export_training_data (cli.py:200-210): the file is never a mixture of
\* two exports, only a part of one, and nothing is written twice.
PartOfOneExport ==
  /\ dataset.lines \subseteq exported
  /\ open => dataset.lines \cup left = exported /\ dataset.lines \cap left = {}
===============================================================================
