---------------------------- MODULE CurationProofs ----------------------------
(***************************************************************************)
(* Proofs about Curation for any number of threads, requests and exports,  *)
(* any roles and any classes.                                              *)
(***************************************************************************)
EXTENDS Curation, TLAPS

USE ChoicesAssumption

-----------------------------------------------------------------------------
(* Type correctness and unique identifiers.                                *)

LEMMA FormTypes ==
  ASSUME TypeOK, NEW form \in Forms
  PROVE  /\ form.kind \in {"capture", "manual", "approved", "discarded"}
         /\ form \in [kind : {"capture", "manual", "approved", "discarded"}, id : Nat,
                      role : Roles \cup {NoRole}, class : Classes \cup {NoClass}]
         /\ Creates(form) => form.role \in Roles
         /\ [doing |-> form.kind, form |-> form, copy |-> rows] \in Requests
  <1>1. \A i \in 0..made - 1 : i \in Nat
    BY DEF TypeOK
  <1>2. /\ form \in [kind : {"capture", "manual", "approved", "discarded"}, id : Nat,
                     role : Roles \cup {NoRole}, class : Classes \cup {NoClass}]
        /\ Creates(form) => form.role \in Roles
    BY <1>1 DEF Forms, Fresh, Form, Creates
  <1>3. QED
    BY <1>2 DEF Requests, TypeOK

\* A decision keeps every example's identifier, its origin and its type.
LEMMA DecidedRows ==
  ASSUME NEW row \in Row, NEW form,
         form.kind \in {"approved", "discarded"}, form.role \in Roles \cup {NoRole},
         form.class \in Classes \cup {NoClass}
  PROVE  LET r == DecidedRow(row, form) IN
         /\ r \in Row /\ r.id = row.id /\ r.manual = row.manual
         /\ r.status = form.kind /\ form.role \in {r.role, NoRole}
  BY DEF DecidedRow, Row, Status

\* What a request stores of a well-typed copy: well typed, with every
\* identifier once and below the next one.
LEMMA StoredRows ==
  ASSUME TypeOK, NEW w \in Workers, Store(w)
  PROVE  rows' \in SUBSET Row /\ UniqueIds(rows') /\ Below(rows)' /\ made' \in Nat /\ made' >= made
  <1> DEFINE form == thread[w].form
             copy == thread[w].copy
  <1>1. /\ thread[w] \in Requests
        /\ UniqueIds(copy) /\ \A r \in copy : r.id < made
    BY DEF Store, TypeOK, Below
  <1>2. /\ form.kind \in {"capture", "manual", "approved", "discarded"}
        /\ form.role \in Roles \cup {NoRole} /\ form.class \in Classes \cup {NoClass}
        /\ Creates(form) => form.role \in Roles
        /\ copy \in SUBSET Row /\ made \in Nat
    BY <1>1 DEF Requests, TypeOK
  <1>3. CASE Creates(form)
    <2> DEFINE new == [id |-> made, role |-> form.role, class |-> form.class,
                       status |-> IF form.kind = "manual" THEN "approved" ELSE "pending",
                       manual |-> form.kind = "manual"]
    <2>1. rows' = copy \cup {new} /\ made' = made + 1
      BY <1>3 DEF Store, Appended, FreshId
    <2>2. new \in Row /\ new.id = made
      BY <1>2, <1>3 DEF Row, Status
    <2>3. \A r \in copy : r.id \in Nat
      BY <1>2 DEF Row
    <2> HIDE DEF new, copy
    <2>4. UniqueIds(rows')
      BY <1>1, <1>2, <2>1, <2>2, <2>3 DEF UniqueIds
    <2>5. Below(rows)'
      BY <1>1, <1>2, <2>1, <2>2, <2>3 DEF Below
    <2>6. QED
      BY <1>2, <2>1, <2>2, <2>4, <2>5
  <1>4. CASE ~Creates(form)
    <2>1. form.kind \in {"approved", "discarded"}
      BY <1>2, <1>4 DEF Creates
    <2>2. rows' = {IF r.id = form.id THEN DecidedRow(r, form) ELSE r : r \in copy} /\ made' = made
      BY <1>4 DEF Store, Decided
    <2> HIDE DEF form, copy
    <2>3. \A r \in copy : /\ DecidedRow(r, form) \in Row
                          /\ DecidedRow(r, form).id = r.id
      BY <1>2, <2>1, DecidedRows
    <2>4. rows' \in SUBSET Row
      BY <1>2, <2>2, <2>3
    <2>5. UniqueIds(rows')
      BY <1>1, <2>2, <2>3 DEF UniqueIds
    <2>6. Below(rows)'
      BY <1>1, <2>2, <2>3 DEF Below
    <2>7. QED
      BY <1>2, <2>2, <2>4, <2>5, <2>6
  <1>5. QED
    BY <1>3, <1>4

LEMMA TypeInit == Init => TypeOK
  <1> SUFFICES ASSUME Init
               PROVE  TypeOK
    OBVIOUS
  <1>1. /\ thread \in [Workers -> {Idle} \cup Requests]
        /\ \A w \in Workers : thread[w] = Idle
    BY DEF Init
  <1>2. dataset \in [lines : SUBSET Row, torn : BOOLEAN]
    BY DEF Init
  <1>3. QED
    BY <1>1, <1>2 DEF Init, TypeOK, UniqueIds, Below

LEMMA TypeNext == TypeOK /\ [Next]_vars => TypeOK'
  <1> SUFFICES ASSUME TypeOK, [Next]_vars
               PROVE  TypeOK'
    OBVIOUS
  <1>1. ASSUME NEW w \in Workers, Load(w)
        PROVE  TypeOK'
    <2>1. PICK form \in Forms :
            /\ thread' = [thread EXCEPT ![w] = [doing |-> form.kind, form |-> form, copy |-> rows]]
            /\ submitted' = IF form.kind = "approved" THEN submitted \cup {form} ELSE submitted
      BY <1>1 DEF Load
    <2>2. thread' \in [Workers -> {Idle} \cup Requests]
      BY <2>1, FormTypes DEF TypeOK
    <2>3. \A v \in Workers : thread'[v] # Idle => UniqueIds(thread'[v].copy) /\ Below(thread[v].copy)'
      BY <1>1, <2>1 DEF TypeOK, Load, store, Below
    <2>4. submitted' \subseteq [kind : {"approved"}, id : Nat,
                              role : Roles \cup {NoRole}, class : Classes \cup {NoClass}]
      BY <2>1, FormTypes DEF TypeOK
    <2>5. requests' \in Nat
      BY <1>1 DEF Load, TypeOK
    <2>6. QED
      BY <1>1, <2>2, <2>3, <2>4, <2>5 DEF Load, TypeOK, store, output, Below
  <1>2. ASSUME NEW w \in Workers, NotFound(w)
        PROVE  TypeOK'
    BY <1>2 DEF NotFound, TypeOK, store, output, history, Below
  <1>3. ASSUME NEW w \in Workers, Store(w)
        PROVE  TypeOK'
    <2>1. rows' \in SUBSET Row /\ UniqueIds(rows') /\ Below(rows)' /\ made' \in Nat /\ made' >= made
      BY <1>3, StoredRows
    <2>2. thread' = [thread EXCEPT ![w] = Idle]
      BY <1>3 DEF Store
    <2>3. ASSUME NEW v \in Workers, thread'[v] # Idle
          PROVE  UniqueIds(thread'[v].copy) /\ Below(thread[v].copy)'
      <3>1. thread'[v] = thread[v] /\ thread[v] # Idle /\ thread[v] \in Requests
        BY <2>2, <2>3 DEF TypeOK
      <3>2. \A r \in thread[v].copy : r.id \in Nat /\ r.id < made
        BY <3>1 DEF TypeOK, Requests, Row, Below
      <3>3. \A r \in thread[v].copy : r.id < made'
        BY <2>1, <3>2 DEF TypeOK
      <3>4. QED
        BY <3>1, <3>3 DEF TypeOK, Below
    <2>4. thread' \in [Workers -> {Idle} \cup Requests]
      BY <2>2 DEF TypeOK
    <2>5. /\ dataset' = dataset /\ left' = left /\ open' = open /\ trained' = trained
          /\ submitted' = submitted /\ exported' = exported
          /\ requests' = requests /\ exports' = exports
      BY <1>3 DEF Store, output, history
    <2>6. QED
      BY <2>1, <2>3, <2>4, <2>5 DEF TypeOK
  <1>4. CASE KillServer
    BY <1>4 DEF KillServer, TypeOK, store, output, history, Below
  <1>5. CASE ExportOpens
    BY <1>5 DEF ExportOpens, Exported, Opened, TypeOK, store, Below
  <1>6. CASE ExportWrites
    <2>1. CASE dataset' = [dataset EXCEPT !.torn = TRUE] /\ left' = left
      BY <1>6, <2>1 DEF ExportWrites, TypeOK, store, history, Below
    <2>2. CASE \E r \in left : /\ dataset' = [lines |-> dataset.lines \cup {r}, torn |-> FALSE]
                               /\ left' = left \ {r}
      BY <1>6, <2>2 DEF ExportWrites, TypeOK, store, history, Below
    <2>3. QED
      BY <1>6, <2>1, <2>2 DEF ExportWrites
  <1>7. CASE ExportEnds
    BY <1>7 DEF ExportEnds, TypeOK, store, history, Below
  <1>8. CASE Train
    BY <1>8 DEF Train, TypeOK, store, output, history, Below
  <1>9. CASE UNCHANGED vars
    BY <1>9 DEF vars, TypeOK, store, output, history, Below
  <1>10. QED
    BY <1>1, <1>2, <1>3, <1>4, <1>5, <1>6, <1>7, <1>8, <1>9 DEF Next

\* Identifiers stay unique, and below the next one, in the file and in every
\* thread's copy: the read-modify-write of training_store.py loses updates,
\* never identity.
THEOREM TypeCorrect == Spec => []TypeOK
  BY TypeInit, TypeNext, PTL DEF Spec

-----------------------------------------------------------------------------
(* Both gates.  TwoGates is not inductive: what the export will read is in *)
(* the file, and what the file will hold is in the threads.                *)

Sound(examples) == \A r \in examples : r.status = "approved" => PassedBothGates(r)

SoundThread(t) ==
  t # Idle => Sound(t.copy) /\ (t.form.kind = "approved" => t.form \in submitted)

GateInv ==
  /\ Sound(rows)
  /\ \A w \in Workers : SoundThread(thread[w])
  /\ TwoGates

\* Approvals are never withdrawn.
LEMMA GatesStayPassed ==
  ASSUME submitted \subseteq submitted', NEW row, PassedBothGates(row)
  PROVE  PassedBothGates(row)'
  BY DEF PassedBothGates

LEMMA SoundnessKept ==
  ASSUME submitted \subseteq submitted', NEW examples
  PROVE  /\ Sound(examples) => Sound(examples)'
         /\ OnlyGated(examples) => \A r \in examples : r.status = "approved" /\ PassedBothGates(r)'
  BY GatesStayPassed DEF Sound, OnlyGated, PassedBothGates

LEMMA StoredSound ==
  ASSUME TypeOK, GateInv, NEW w \in Workers, Store(w)
  PROVE  Sound(rows)'
  <1> DEFINE form == thread[w].form
             copy == thread[w].copy
  <1>1. thread[w] \in Requests /\ thread[w] # Idle /\ submitted' = submitted
    BY DEF Store, TypeOK, history
  <1>2. Sound(copy) /\ (form.kind = "approved" => form \in submitted)
    BY <1>1 DEF GateInv, SoundThread
  <1>3. /\ form.kind \in {"capture", "manual", "approved", "discarded"}
        /\ form.role \in Roles \cup {NoRole} /\ form.class \in Classes \cup {NoClass}
        /\ Creates(form) => form.role \in Roles
        /\ copy \in SUBSET Row
    BY <1>1 DEF Requests
  <1>4. CASE Creates(form)
    <2>1. rows' = Appended(copy, form)
      BY <1>4 DEF Store
    <2> HIDE DEF form, copy
    <2>2. \A r \in rows' : r \in copy \/ (r.status = "approved" => r.manual)
      <3>1. CASE form.kind = "manual"
        <4> DEFINE new == [id |-> FreshId(copy), role |-> form.role, class |-> form.class,
                           status |-> "approved", manual |-> TRUE]
        <4>1. (form.kind = "manual") = TRUE
          BY <3>1
        <4>2. rows' = copy \cup {new}
          BY <2>1, <3>1, <4>1, Zenon DEF Appended
        <4>3. new.manual
          OBVIOUS
        <4>4. QED
          BY <4>2, <4>3
      <3>2. CASE form.kind # "manual"
        <4>1. \A r \in rows' : r \in copy \/ r.status = "pending"
          BY <2>1, <3>2 DEF Appended
        <4>2. QED
          BY <4>1
      <3>3. QED
        BY <3>1, <3>2
    <2>3. QED
      BY <1>1, <1>2, <2>2 DEF Sound, PassedBothGates
  <1>5. CASE ~Creates(form)
    <2>1. form.kind \in {"approved", "discarded"}
      BY <1>3, <1>5 DEF Creates
    <2>2. rows' = {IF r.id = form.id THEN DecidedRow(r, form) ELSE r : r \in copy}
      BY <1>5 DEF Store, Decided
    <2> HIDE DEF form, copy
    <2>3. ASSUME NEW r \in copy, r.id = form.id, DecidedRow(r, form).status = "approved"
          PROVE  PassedBothGates(DecidedRow(r, form))
      <3>1. form \in submitted /\ DecidedRow(r, form).id = form.id
            /\ form.role \in {DecidedRow(r, form).role, NoRole}
        BY <1>2, <1>3, <2>1, <2>3, DecidedRows
      <3>2. QED
        BY <3>1 DEF PassedBothGates
    <2>4. \A r \in rows' : r.status = "approved" => PassedBothGates(r)
      BY <1>2, <2>2, <2>3 DEF Sound
    <2>5. QED
      BY <1>1, <2>4 DEF Sound, PassedBothGates
  <1>6. QED
    BY <1>4, <1>5

LEMMA GateInit == Init => GateInv
  BY DEF Init, GateInv, Sound, SoundThread, TwoGates, OnlyGated

LEMMA GateNext == TypeOK /\ GateInv /\ [Next]_vars => GateInv'
  <1> SUFFICES ASSUME TypeOK, GateInv, [Next]_vars
               PROVE  GateInv'
    OBVIOUS
  <1>1. ASSUME NEW w \in Workers, Load(w)
        PROVE  GateInv'
    <2>1. PICK form \in Forms :
            /\ thread' = [thread EXCEPT ![w] = [doing |-> form.kind, form |-> form, copy |-> rows]]
            /\ submitted' = IF form.kind = "approved" THEN submitted \cup {form} ELSE submitted
      BY <1>1 DEF Load
    <2>2. submitted \subseteq submitted'
      BY <2>1
    <2>3. rows' = rows /\ dataset' = dataset /\ left' = left /\ trained' = trained
      BY <1>1 DEF Load, store, output
    <2>4. Sound(rows)'
      BY <2>2, <2>3, SoundnessKept DEF GateInv, Sound, PassedBothGates
    <2>5. \A v \in Workers : SoundThread(thread[v])'
      <3> SUFFICES ASSUME NEW v \in Workers, thread'[v] # Idle
                   PROVE  Sound(thread[v].copy)' /\ (thread'[v].form.kind = "approved" => thread'[v].form \in submitted')
        BY DEF SoundThread
      <3>1. CASE v = w
        <4>1. thread'[v] = [doing |-> form.kind, form |-> form, copy |-> rows]
          BY <2>1, <3>1 DEF TypeOK
        <4>2. QED
          BY <2>1, <2>3, <2>4, <4>1 DEF Sound, PassedBothGates
      <3>2. CASE v # w
        <4>1. thread'[v] = thread[v]
          BY <2>1, <3>2 DEF TypeOK
        <4>2. Sound(thread[v].copy) /\ (thread[v].form.kind = "approved" => thread[v].form \in submitted)
          BY <4>1 DEF GateInv, SoundThread
        <4>3. QED
          BY <2>2, <4>1, <4>2 DEF Sound, PassedBothGates
      <3>3. QED
        BY <3>1, <3>2
    <2>6. TwoGates'
      BY <2>2, <2>3 DEF GateInv, TwoGates, OnlyGated, PassedBothGates
    <2>7. QED
      BY <2>4, <2>5, <2>6 DEF GateInv
  <1>2. ASSUME NEW w \in Workers, NotFound(w)
        PROVE  GateInv'
    BY <1>2 DEF NotFound, GateInv, Sound, SoundThread, TwoGates, OnlyGated, PassedBothGates,
                store, output, history, TypeOK
  <1>3. ASSUME NEW w \in Workers, Store(w)
        PROVE  GateInv'
    <2>1. Sound(rows)'
      BY <1>3, StoredSound
    <2>2. thread' = [thread EXCEPT ![w] = Idle] /\ submitted' = submitted
      BY <1>3 DEF Store, history
    <2>3. \A v \in Workers : SoundThread(thread[v])'
      BY <2>2 DEF GateInv, SoundThread, Sound, PassedBothGates, TypeOK
    <2>4. TwoGates'
      BY <1>3, <2>2 DEF Store, output, GateInv, TwoGates, OnlyGated, PassedBothGates
    <2>5. QED
      BY <2>1, <2>3, <2>4 DEF GateInv
  <1>4. CASE KillServer
    BY <1>4 DEF KillServer, GateInv, Sound, SoundThread, TwoGates, OnlyGated, PassedBothGates,
                store, output, history
  <1>5. CASE ExportOpens
    BY <1>5 DEF ExportOpens, Exported, Opened, GateInv, Sound, SoundThread, TwoGates, OnlyGated,
                PassedBothGates, store
  <1>6. CASE ExportWrites
    BY <1>6 DEF ExportWrites, TypeOK, GateInv, Sound, SoundThread, TwoGates, OnlyGated,
                PassedBothGates, store, history
  <1>7. CASE ExportEnds
    BY <1>7 DEF ExportEnds, GateInv, Sound, SoundThread, TwoGates, OnlyGated, PassedBothGates,
                store, history
  <1>8. CASE Train
    BY <1>8 DEF Train, GateInv, Sound, SoundThread, TwoGates, OnlyGated, PassedBothGates,
                store, output, history
  <1>9. CASE UNCHANGED vars
    BY <1>9 DEF vars, GateInv, Sound, SoundThread, TwoGates, OnlyGated, PassedBothGates,
                store, output, history
  <1>10. QED
    BY <1>1, <1>2, <1>3, <1>4, <1>5, <1>6, <1>7, <1>8, <1>9 DEF Next

\* Lost updates, kills and cut-off exports never let an example reach the
\* fine-tune script that no admin wrote or approved, with that role if the
\* approval named one.
THEOREM BothGatesHold == Spec => []TwoGates
  <1>1. GateInv => TwoGates
    BY DEF GateInv
  <1>2. QED
    BY <1>1, TypeCorrect, GateInit, GateNext, PTL DEF Spec

-----------------------------------------------------------------------------
\* An export that is cut off leaves a part of what it set out to write; a
\* later one starts from nothing (inductive as it stands).
THEOREM NoMixedExports == Spec => []PartOfOneExport
  <1>1. Init => PartOfOneExport
    BY DEF Init, PartOfOneExport
  <1>2. TypeOK /\ PartOfOneExport /\ [Next]_vars => PartOfOneExport'
    <2> SUFFICES ASSUME TypeOK, PartOfOneExport, [Next]_vars
                 PROVE  PartOfOneExport'
      OBVIOUS
    <2>1. CASE UNCHANGED <<dataset, left, open, exported>>
      BY <2>1 DEF PartOfOneExport
    <2>2. CASE ExportOpens
      BY <2>2 DEF ExportOpens, Opened, PartOfOneExport
    <2>3. CASE ExportWrites
      BY <2>3 DEF ExportWrites, history, PartOfOneExport, TypeOK
    <2>4. CASE ExportEnds
      BY <2>4 DEF ExportEnds, history, PartOfOneExport
    <2>5. QED
      BY <2>1, <2>2, <2>3, <2>4
      DEF Next, Load, NotFound, Store, KillServer, Train, vars, output, history
  <1>3. QED
    BY <1>1, <1>2, TypeCorrect, PTL DEF Spec
===============================================================================
