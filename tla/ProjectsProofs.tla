---------------------------- MODULE ProjectsProofs ----------------------------
(***************************************************************************)
(* Proofs about Projects for any number of projects, threads, requests and *)
(* starts.                                                                 *)
(***************************************************************************)
EXTENDS Projects, TLAPS

USE ProjectsAssumption

-----------------------------------------------------------------------------
(* The inductive invariant.                                                *)

\* The required files that are there once n - 1 files are written.
Written(p, n) ==
  /\ n > 2 => "scan" \in dir[p]
  /\ n > 3 => "triage" \in dir[p]
  /\ n > 4 => "applied" \in dir[p]

Using == {"audit", "settings", "configure", "decide", "append"}

ThreadInv(t) ==
  /\ t # Idle /\ t.p \in Uploads => t.p \in used
  /\ t.doing = "create" =>
       /\ ~Exists(t.p) /\ t.p \notin gone
       /\ t.p \notin deleting => Written(t.p, t.n)
  /\ t.doing = "delete" => t.p \in deleting
  /\ t.doing \in Using /\ t.p \notin deleting => Exists(t.p)
  /\ t.doing = "append" /\ t.p \notin deleting \cup overlapped => t.copy = work[t.p]

\* Nobody else is between the reading and the writing of a triage.json that
\* was never appended to by two at once.
OneAppender ==
  \A v, u \in Workers :
    worker[v].doing = "append" /\ worker[u].doing = "append" /\ worker[v].p = worker[u].p =>
      v = u \/ worker[v].p \in overlapped

ProjectInv(p) ==
  /\ p \in Uploads /\ p \notin used => dir[p] = {}
  /\ p \in gone => ~Exists(p) /\ p \in used
  /\ p \notin deleting => /\ Exists(p) => Required \subseteq dir[p]
                          /\ ~Exists(p) => work[p] = 0
  /\ p \notin deleting \cup overlapped => work[p] = recorded[p]

FileInv ==
  /\ \A p \in Ids : ProjectInv(p)
  /\ \A s \in seed : ~Exists(s.p) /\ Written(s.p, s.n)
  /\ server = "up" => \A p \in Builtins : Exists(p)

IInv == TypeOK /\ FileInv /\ OneAppender /\ \A w \in Workers : ThreadInv(worker[w])

-----------------------------------------------------------------------------
(* What threads and files look like.                                       *)

LEMMA Order ==
  /\ DOMAIN WriteOrder = 1..5 /\ Len(WriteOrder) = 5
  /\ WriteOrder[1] = "finding_ids" /\ WriteOrder[2] = "scan" /\ WriteOrder[3] = "triage"
  /\ WriteOrder[4] = "applied" /\ WriteOrder[5] = "meta"
  BY DEF WriteOrder

LEMMA Tasks ==
  ASSUME NEW t \in Task
  PROVE  /\ t.doing \in {"idle", "create", "delete"} \cup Using
         /\ t.doing = "idle" => t = Idle
         /\ t = Idle => t.doing = "idle"
         /\ t.doing = "create" => t.p \in Uploads /\ t.n \in 1..5
         /\ t.doing \in Using => t.p \in Ids
         /\ t.doing = "append" => t.copy \in Nat
         /\ t.doing = "delete" => t.p \in Uploads /\ t.listed \in SUBSET Entry
  BY Order DEF Task, Idle, Using

\* One file of _finish_project touches its own directory only, and meta.json
\* is the last.
LEMMA FinishedFile ==
  ASSUME TypeOK, NEW p \in Ids, NEW n \in 1..5, Finish(p, n)
  PROVE  /\ dir' \in [Ids -> SUBSET Entry] /\ work' \in [Ids -> Nat]
         /\ \A q \in Ids : q # p => dir'[q] = dir[q] /\ work'[q] = work[q]
         /\ dir[p] \subseteq dir'[p]
         /\ n < 5 => (Exists(p)' <=> Exists(p))
         /\ n < 5 /\ Written(p, n) => Written(p, n + 1)'
         /\ n = 5 => Exists(p)'
         /\ n = 5 /\ Written(p, n) => (Required \subseteq dir[p])'
         /\ work'[p] = work[p] \/ work'[p] = 0
  <1>1. CASE Wrote(p, WriteOrder[n])
    <2>1. dir' = [dir EXCEPT ![p] = @ \cup {".", WriteOrder[n]}]
      BY <1>1 DEF Wrote
    <2>2. WriteOrder[n] \in Entry /\ "." \in Entry
      BY Order DEF Entry
    <2>3. /\ dir' \in [Ids -> SUBSET Entry]
          /\ \A q \in Ids : q # p => dir'[q] = dir[q]
          /\ dir'[p] = dir[p] \cup {".", WriteOrder[n]}
      BY <2>1, <2>2 DEF TypeOK
    <2>4. work' \in [Ids -> Nat] /\ \A q \in Ids : q # p => work'[q] = work[q]
      BY DEF Finish, TypeOK
    <2>5. work'[p] = work[p] \/ work'[p] = 0
      BY DEF Finish, TypeOK
    <2>6. n < 5 => (Exists(p)' <=> Exists(p))
      BY <2>3, Order DEF Exists
    <2>7. n < 5 /\ Written(p, n) => Written(p, n + 1)'
      BY <2>3, Order DEF Written
    <2>8. n = 5 => Exists(p)'
      BY <2>3, Order DEF Exists
    <2>9. n = 5 /\ Written(p, n) => (Required \subseteq dir[p])'
      BY <2>3 DEF Written, Required
    <2>10. QED
      BY <2>3, <2>4, <2>5, <2>6, <2>7, <2>8, <2>9
  <1>2. CASE WriteOrder[n] \in Optional /\ UNCHANGED dir
    <2>1. n = 1
      BY <1>2, Order DEF Optional
    <2>2. QED
      BY <1>2, <2>1, Order DEF Finish, Written, Exists, TypeOK
  <1>3. QED
    BY <1>1, <1>2 DEF Finish

\* What another thread's step must leave alone.
LEMMA ThreadKept ==
  ASSUME TypeOK, NEW v \in Workers, ThreadInv(worker[v]), worker'[v] = worker[v],
         used \subseteq used', deleting \subseteq deleting', overlapped \subseteq overlapped',
         \A p \in Ids : p \notin deleting' => dir[p] \subseteq dir'[p],
         worker[v].doing = "create" =>
           /\ Exists(worker[v].p)' => Exists(worker[v].p)
           /\ worker[v].p \in gone' => worker[v].p \in gone,
         worker[v].doing = "append" /\ worker[v].p \notin deleting' \cup overlapped' =>
           work'[worker[v].p] = work[worker[v].p]
  PROVE  ThreadInv(worker[v])'
  <1>1. worker[v] \in Task
    BY DEF TypeOK
  <1> DEFINE t == worker[v]
  <1>2. t.doing = "create" => t.p \in Ids /\ t.n \in 1..5
    BY <1>1, Tasks DEF Ids
  <1>3. t.doing \in Using => t.p \in Ids
    BY <1>1, Tasks
  <1>4. t.doing = "create" /\ t.p \notin deleting' => Written(t.p, t.n)'
    BY <1>2 DEF ThreadInv, Written
  <1>5. t.doing \in Using /\ t.p \notin deleting' => Exists(t.p)'
    BY <1>3 DEF ThreadInv, Exists
  <1>6. t.doing = "append" /\ t.p \notin deleting' \cup overlapped' => t.copy = work'[t.p]
    BY DEF ThreadInv
  <1>7. QED
    BY <1>4, <1>5, <1>6 DEF ThreadInv, Exists

LEMMA OneCreator ==
  ASSUME TypeOK
  PROVE  \A v, u \in Workers :
           worker[v].doing = "create" /\ worker[u].doing = "create" /\ worker[v].p = worker[u].p => v = u
  BY DEF TypeOK

LEMMA IdleThread ==
  ASSUME NEW v \in Workers, worker'[v] = Idle
  PROVE  ThreadInv(worker[v])'
  BY DEF ThreadInv, Idle, Using

LEMMA InvInit == Init => IInv
  <1> SUFFICES ASSUME Init
               PROVE  IInv
    OBVIOUS
  <1>1. worker \in [Workers -> Task] /\ \A w \in Workers : worker[w] = Idle
    BY DEF Init, Task
  <1>2. TypeOK
    BY <1>1 DEF Init, TypeOK, Idle
  <1>3. FileInv
    BY DEF Init, FileInv, ProjectInv, Exists
  <1>4. \A w \in Workers : ThreadInv(worker[w])
    BY <1>1 DEF ThreadInv, Idle, Using
  <1>5. OneAppender
    BY <1>1 DEF OneAppender, Idle
  <1>6. QED
    BY <1>2, <1>3, <1>4, <1>5 DEF IInv

-----------------------------------------------------------------------------
(* Start-up.                                                               *)

LEMMA Seeded ==
  ASSUME IInv, SeedFile
  PROVE  IInv'
  <1>1. PICK s \in seed :
          /\ Finish(s.p, s.n)
          /\ seed' = IF s.n = Len(WriteOrder) THEN {} ELSE {[s EXCEPT !.n = s.n + 1]}
    BY DEF SeedFile
  <1>2. /\ s \in [p : Builtins, n : 1..5] /\ s.p \in Builtins /\ s.n \in 1..5
        /\ \A t \in seed : t = s
    BY Order DEF IInv, TypeOK
  <1>3. /\ UNCHANGED <<server, worker, history, counts>> /\ server = "starting"
        /\ \A w \in Workers : worker[w] = Idle
    BY DEF SeedFile, IInv, TypeOK
  <1> DEFINE p == s.p
  <1> HIDE DEF p
  <1>4. p \in Ids /\ p \notin Uploads /\ p \notin gone /\ p \notin deleting
    BY <1>2 DEF p, Ids, IInv, TypeOK
  <1>5. ~Exists(p) /\ Written(p, s.n)
    BY DEF p, IInv, FileInv
  <1>6. /\ dir' \in [Ids -> SUBSET Entry] /\ work' \in [Ids -> Nat]
        /\ \A q \in Ids : q # p => dir'[q] = dir[q] /\ work'[q] = work[q]
        /\ s.n < 5 => ~Exists(p)'
        /\ s.n < 5 => Written(p, s.n + 1)'
        /\ s.n = 5 => Exists(p)' /\ (Required \subseteq dir[p])'
        /\ work'[p] = work[p] \/ work'[p] = 0
    BY <1>1, <1>2, <1>4, <1>5, FinishedFile DEF p, IInv
  <1>7. /\ seed' \in SUBSET [p : Builtins, n : 1..5]
        /\ \A t, u \in seed' : t = u
        /\ \A t \in seed' : t.p = p /\ t.n = s.n + 1 /\ s.n < 5
    BY <1>1, <1>2, Order DEF p
  <1>8. TypeOK'
    BY <1>3, <1>6, <1>7, Order DEF IInv, TypeOK, history, counts
  <1>9. work[p] = 0
    BY <1>4, <1>5 DEF IInv, FileInv, ProjectInv
  <1>10. ASSUME NEW q \in Ids
         PROVE  ProjectInv(q)'
    <2>1. CASE q = p
      <3>1. s.n < 5 \/ s.n = 5
        BY <1>2
      <3>2. p \notin overlapped => work[p] = recorded[p]
        BY <1>4 DEF IInv, FileInv, ProjectInv
      <3>3. QED
        BY <2>1, <3>1, <3>2, <1>3, <1>4, <1>6, <1>9 DEF ProjectInv, history
    <2>2. CASE q # p
      BY <2>2, <1>3, <1>6 DEF IInv, FileInv, ProjectInv, Exists, history
    <2>3. QED
      BY <2>1, <2>2
  <1>11. FileInv'
    BY <1>3, <1>6, <1>7, <1>10 DEF FileInv
  <1>12. \A w \in Workers : ThreadInv(worker[w])'
    BY <1>3, IdleThread
  <1>13. OneAppender'
    BY <1>3 DEF OneAppender, Idle
  <1>14. QED
    BY <1>8, <1>11, <1>12, <1>13 DEF IInv

LEMMA StartUp ==
  ASSUME IInv, Start \/ SeedNext \/ Serve \/ Stop
  PROVE  IInv'
  <1>1. /\ UNCHANGED disk /\ UNCHANGED history
        /\ \A p \in Ids : ProjectInv(p)'
    BY DEF Start, SeedNext, Serve, Stop, IInv, FileInv, ProjectInv, disk, history, Exists
  <1>2. worker' \in [Workers -> Task] /\ \A w \in Workers : worker'[w] = Idle
    <2>1. Idle \in Task
      BY DEF Task
    <2>2. QED
      BY <2>1 DEF Start, SeedNext, Serve, Stop, IInv, TypeOK
  <1>3. TypeOK'
    <2>1. /\ seed' \in SUBSET [p : Builtins, n : 1..5]
          /\ \A s, t \in seed' : s = t
          /\ server' \in {"down", "starting", "up"}
          /\ server' # "starting" => seed' = {}
      BY Order DEF Start, SeedNext, Serve, Stop, IInv, TypeOK
    <2>2. requests' \in Nat /\ starts' \in Nat
      BY DEF Start, SeedNext, Serve, Stop, IInv, TypeOK, counts
    <2>3. \A v \in Workers : worker'[v].doing # "create"
      BY <1>2 DEF Idle
    <2>4. QED
      BY <1>1, <1>2, <2>1, <2>2, <2>3, Order DEF IInv, TypeOK, disk, history
  <1>4. FileInv'
    <2>1. \A s \in seed' : s \in seed \/ (s.n = 1 /\ s.p \in Builtins /\ ~Exists(s.p))
      BY DEF Start, SeedNext, Serve, Stop, Missing
    <2>2. \A s \in seed' : ~Exists(s.p)' /\ Written(s.p, s.n)'
      BY <1>1, <2>1 DEF IInv, FileInv, Written, Exists, disk
    <2>3. server' = "up" => \A p \in Builtins : Exists(p)'
      BY <1>1 DEF Start, SeedNext, Serve, Stop, IInv, FileInv, Exists, disk
    <2>4. QED
      BY <1>1, <2>2, <2>3 DEF FileInv
  <1>5. QED
    <2>1. OneAppender'
      BY <1>2 DEF OneAppender, Idle
    <2>2. QED
      BY <1>2, <1>3, <1>4, <2>1, IdleThread DEF IInv

-----------------------------------------------------------------------------
(* Requests.  Each leaves the server up and nothing being seeded.          *)

LEMMA Up ==
  ASSUME TypeOK, server = "up"
  PROVE  seed = {}
  BY DEF TypeOK

LEMMA Created ==
  ASSUME IInv, NEW w \in Workers, Create(w)
  PROVE  IInv'
  <1>1. PICK p \in Uploads \ used :
          /\ Begin(w, [doing |-> "create", p |-> p, n |-> 1])
          /\ used' = used \cup {p}
          /\ Wrote(p, "source")
    BY DEF Create
  <1>2. /\ server = "up" /\ requests' = requests + 1
        /\ worker' = [worker EXCEPT ![w] = [doing |-> "create", p |-> p, n |-> 1]]
        /\ UNCHANGED <<work, server, seed, deleting, gone, recorded, overlapped, starts>>
    BY <1>1 DEF Begin, Serving, Create
  <1>3. /\ dir[p] = {} /\ p \in Ids /\ p \notin gone
        /\ p \notin deleting => work[p] = 0
    BY <1>1 DEF IInv, FileInv, ProjectInv, Ids, Exists
  <1>4. /\ dir' \in [Ids -> SUBSET Entry]
        /\ dir'[p] = {".", "source"}
        /\ \A q \in Ids : q # p => dir'[q] = dir[q]
    BY <1>1, <1>3 DEF Wrote, IInv, TypeOK, Entry
  <1>5. [doing |-> "create", p |-> p, n |-> 1] \in Task
    BY <1>1, Order DEF Task
  <1>6. \A v \in Workers : v # w =>
          /\ worker'[v] = worker[v]
          /\ worker[v].doing = "create" => worker[v].p # p
    <2>1. \A v \in Workers : worker[v].doing = "create" => worker[v] # Idle /\ worker[v].p \in used
      BY Tasks DEF IInv, TypeOK, ThreadInv, Idle
    <2>2. QED
      BY <1>1, <1>2, <2>1 DEF IInv, TypeOK
  <1>7. worker'[w] = [doing |-> "create", p |-> p, n |-> 1]
    BY <1>2 DEF IInv, TypeOK
  <1>8. TypeOK'
    <2>1. worker' \in [Workers -> Task]
      BY <1>2, <1>5 DEF IInv, TypeOK
    <2>2. ASSUME NEW v \in Workers, NEW u \in Workers,
                 worker'[v].doing = "create", worker'[u].doing = "create",
                 worker'[v].p = worker'[u].p
          PROVE  v = u
      <3>1. worker'[w].p = p
        BY <1>7
      <3>2. v # w /\ u # w => v = u
        BY <2>2, <1>6, OneCreator DEF IInv
      <3>3. QED
        BY <2>2, <1>6, <3>1, <3>2
    <2>3. used' \in SUBSET Uploads /\ requests' \in Nat
      BY <1>1, <1>2 DEF IInv, TypeOK
    <2>4. QED
      BY <1>2, <1>4, <2>1, <2>2, <2>3 DEF IInv, TypeOK
  <1>9. FileInv'
    <2>1. ASSUME NEW q \in Ids
          PROVE  ProjectInv(q)'
      BY <1>1, <1>2, <1>3, <1>4 DEF IInv, FileInv, ProjectInv, Exists
    <2>2. seed' = {}
      BY <1>2, Up DEF IInv
    <2>3. \A q \in Builtins : Exists(q)'
      BY <1>1, <1>2, <1>4 DEF IInv, FileInv, Exists, Ids
    <2>4. QED
      BY <2>1, <2>2, <2>3 DEF FileInv
  <1>10. ThreadInv(worker[w])'
    BY <1>1, <1>2, <1>3, <1>4, <1>7 DEF ThreadInv, Written, Exists, Using
  <1>11. ASSUME NEW v \in Workers, v # w
         PROVE  ThreadInv(worker[v])'
    <2>1. worker[v].doing = "create" => worker[v].p \in Ids
      BY Tasks DEF IInv, TypeOK, Ids
    <2>2. QED
      BY <1>1, <1>2, <1>3, <1>4, <1>6, <1>11, <2>1, ThreadKept DEF IInv, Exists
  <1>12. OneAppender'
    BY <1>2, <1>6, <1>7 DEF IInv, OneAppender
  <1>13. QED
    BY <1>8, <1>9, <1>10, <1>11, <1>12 DEF IInv

LEMMA CreatedFile ==
  ASSUME IInv, NEW w \in Workers, CreateFile(w)
  PROVE  IInv'
  <1>0. worker[w].doing = "create" /\ worker[w] \in [doing : {"create"}, p : Uploads, n : 1..5]
    BY Order DEF CreateFile, Serving, IInv, TypeOK, Task, Idle
  <1>2. PICK p \in Uploads, n \in 1..5 : worker[w] = [doing |-> "create", p |-> p, n |-> n]
    BY <1>0
  <1>1. /\ server = "up" /\ Finish(p, n)
        /\ UNCHANGED <<server, seed, history, counts>>
        /\ worker' = IF n = 5 THEN [worker EXCEPT ![w] = Idle] ELSE [worker EXCEPT ![w].n = n + 1]
    BY <1>2, Order DEF CreateFile, Serving, Ends
  <1>3. /\ p \in Ids
        /\ p \in used /\ ~Exists(p) /\ p \notin gone
        /\ p \notin deleting => Written(p, n) /\ work[p] = 0
    BY <1>2 DEF IInv, ThreadInv, FileInv, ProjectInv, Idle, Ids
  <1>4. n = 5 => worker'[w] = Idle
    BY <1>1 DEF IInv, TypeOK
  <1>5. n < 5 => worker'[w] = [doing |-> "create", p |-> p, n |-> n + 1]
    <2>1. n < 5 => worker'[w] = [worker[w] EXCEPT !.n = n + 1]
      BY <1>1 DEF IInv, TypeOK
    <2>2. QED
      BY <1>2, <2>1
  <1>6. \A v \in Workers : v # w =>
          /\ worker'[v] = worker[v]
          /\ worker[v].doing = "create" => worker[v].p # p
    BY <1>1, <1>2, OneCreator DEF IInv, TypeOK
  <1>7. /\ dir' \in [Ids -> SUBSET Entry] /\ work' \in [Ids -> Nat]
        /\ \A q \in Ids : q # p => dir'[q] = dir[q] /\ work'[q] = work[q]
        /\ dir[p] \subseteq dir'[p]
        /\ n < 5 => ~Exists(p)'
        /\ n < 5 /\ Written(p, n) => Written(p, n + 1)'
        /\ n = 5 => Exists(p)'
        /\ n = 5 /\ Written(p, n) => (Required \subseteq dir[p])'
        /\ work'[p] = work[p] \/ work'[p] = 0
    BY <1>1, <1>3, FinishedFile DEF IInv
  <1>8. n < 5 \/ n = 5
    BY <1>3
  <1>9. TypeOK'
    <2>1. worker'[w] \in Task
      BY <1>3, <1>4, <1>5, <1>8, Order DEF Task
    <2>2. worker' \in [Workers -> Task]
      <3>1. worker' = [worker EXCEPT ![w] = worker'[w]]
        BY <1>1 DEF IInv, TypeOK
      <3>2. QED
        BY <2>1, <3>1 DEF IInv, TypeOK
    <2>3. ASSUME NEW v \in Workers, NEW u \in Workers,
                 worker'[v].doing = "create", worker'[u].doing = "create",
                 worker'[v].p = worker'[u].p
          PROVE  v = u
      <3>1. worker'[w].doing = "create" => worker'[w].p = p
        BY <1>4, <1>5, <1>8 DEF Idle
      <3>2. v # w /\ u # w => v = u
        BY <2>3, <1>6, OneCreator DEF IInv
      <3>3. QED
        BY <2>3, <1>6, <3>1, <3>2
    <2>4. QED
      BY <1>1, <1>7, <2>2, <2>3 DEF IInv, TypeOK, history, counts
  <1>10. FileInv'
    <2>1. ASSUME NEW q \in Ids
          PROVE  ProjectInv(q)'
      <3>1. CASE q = p
        <4>1. p \notin deleting \cup overlapped => work[p] = recorded[p]
          BY <1>3 DEF IInv, FileInv, ProjectInv
        <4>2. QED
          BY <1>1, <1>3, <1>7, <1>8, <3>1, <4>1 DEF ProjectInv, history
      <3>2. CASE q # p
        BY <1>1, <1>7, <3>2 DEF IInv, FileInv, ProjectInv, Exists, history
      <3>3. QED
        BY <3>1, <3>2
    <2>2. seed' = {}
      BY <1>1, Up DEF IInv
    <2>3. \A q \in Builtins : Exists(q)'
      BY <1>1, <1>3, <1>7 DEF IInv, FileInv, Exists, Ids
    <2>4. QED
      BY <2>1, <2>2, <2>3 DEF FileInv
  <1>11. ThreadInv(worker[w])'
    <2>1. CASE n = 5
      BY <2>1, <1>4, IdleThread
    <2>2. CASE n < 5
      BY <2>2, <1>1, <1>3, <1>5, <1>7 DEF ThreadInv, Using, history
    <2>3. QED
      BY <1>8, <2>1, <2>2
  <1>12. ASSUME NEW v \in Workers, v # w
         PROVE  ThreadInv(worker[v])'
    <2>1. worker[v].doing = "create" => worker[v].p \in Ids
      BY Tasks DEF IInv, TypeOK, Ids
    <2>2. worker[v].doing = "append" => worker[v].p \in Ids
      BY Tasks DEF IInv, TypeOK, Using
    <2>3. worker[v].doing = "append" /\ worker[v].p \notin deleting => worker[v].p # p
      BY <1>3 DEF IInv, ThreadInv, Using
    <2>4. worker[v].doing = "append" /\ worker[v].p \notin deleting' \cup overlapped' =>
            work'[worker[v].p] = work[worker[v].p]
      BY <1>1, <1>7, <2>2, <2>3 DEF history
    <2>5. QED
      BY <1>1, <1>6, <1>7, <1>12, <2>1, <2>4, ThreadKept DEF IInv, Exists, history
  <1>13. OneAppender'
    <2>1. worker'[w].doing # "append"
      BY <1>4, <1>5, <1>8 DEF Idle
    <2>2. QED
      BY <1>1, <1>6, <2>1 DEF IInv, OneAppender, history
  <1>14. QED
    BY <1>9, <1>10, <1>11, <1>12, <1>13 DEF IInv

\* Another thread has read the triage.json that a thread now reads.
AnotherAppends(w, p) == \E v \in Workers : v # w /\ worker[v].doing = "append" /\ worker[v].p = p

\* A step that gives one thread something else to do, but no creation.
LEMMA NewTask ==
  ASSUME TypeOK, OneAppender, NEW w \in Workers, NEW t \in Task, t.doing # "create",
         t.doing = "append" /\ AnotherAppends(w, t.p) => t.p \in overlapped',
         overlapped \subseteq overlapped',
         server = "up", UNCHANGED <<server, seed>>, worker' = [worker EXCEPT ![w] = t]
  PROVE  /\ worker' \in [Workers -> Task] /\ worker'[w] = t
         /\ \A v \in Workers : v # w => worker'[v] = worker[v]
         /\ \A v, u \in Workers :
              worker'[v].doing = "create" /\ worker'[u].doing = "create" /\ worker'[v].p = worker'[u].p => v = u
         /\ server' = "up" /\ seed' = {}
         /\ OneAppender'
  <1>1. /\ worker' \in [Workers -> Task] /\ worker'[w] = t
        /\ \A v \in Workers : v # w => worker'[v] = worker[v]
    BY DEF TypeOK
  <1>2. server' = "up" /\ seed' = {}
    BY Up
  <1>3. \A v \in Workers : worker'[v].doing = "create" => v # w /\ worker'[v] = worker[v]
    BY <1>1
  <1>4. OneAppender'
    <2>1. ASSUME NEW v \in Workers, NEW u \in Workers,
                 worker'[v].doing = "append", worker'[u].doing = "append",
                 worker'[v].p = worker'[u].p, v # u
          PROVE  worker'[v].p \in overlapped'
      <3>1. CASE v = w
        BY <1>1, <2>1, <3>1 DEF AnotherAppends
      <3>2. CASE u = w
        BY <1>1, <2>1, <3>2 DEF AnotherAppends
      <3>3. CASE v # w /\ u # w
        BY <1>1, <2>1, <3>3 DEF OneAppender
      <3>4. QED
        BY <3>1, <3>2, <3>3
    <2>2. QED
      BY <2>1 DEF OneAppender
  <1>5. QED
    BY <1>1, <1>2, <1>3, <1>4, OneCreator

LEMMA NoDiskStep ==
  ASSUME IInv, NEW w \in Workers, NEW t \in Task, t.doing # "create",
         server = "up", worker' = [worker EXCEPT ![w] = t],
         UNCHANGED <<disk, server, seed, used, gone, recorded, starts>>,
         t.doing = "append" /\ AnotherAppends(w, t.p) => t.p \in overlapped',
         overlapped \subseteq overlapped', overlapped' \subseteq Ids,
         deleting \subseteq deleting', deleting' \subseteq Uploads, requests' \in Nat,
         ThreadInv(t)'
  PROVE  IInv'
  <1>1. /\ worker' \in [Workers -> Task] /\ worker'[w] = t
        /\ \A v \in Workers : v # w => worker'[v] = worker[v]
        /\ \A v, u \in Workers :
             worker'[v].doing = "create" /\ worker'[u].doing = "create" /\ worker'[v].p = worker'[u].p => v = u
        /\ server' = "up" /\ seed' = {} /\ OneAppender'
    BY NewTask DEF IInv
  <1>2. TypeOK'
    BY <1>1 DEF IInv, TypeOK, disk
  <1>3. FileInv'
    BY <1>1 DEF IInv, FileInv, ProjectInv, Exists, disk
  <1>4. \A v \in Workers : ThreadInv(worker[v])'
    <2>1. ASSUME NEW v \in Workers, v # w
          PROVE  ThreadInv(worker[v])'
      BY <1>1, <2>1, ThreadKept DEF IInv, Exists, disk
    <2>2. QED
      BY <1>1, <2>1 DEF ThreadInv, Exists, Written
  <1>5. QED
    BY <1>1, <1>2, <1>3, <1>4 DEF IInv

LEMMA NoDisk ==
  ASSUME IInv, NEW w \in Workers, Open(w) \/ Configure(w) \/ ReadTriage(w) \/ Delete(w) \/ Raise(w)
  PROVE  IInv'
  <1>1. CASE Open(w)
    <2>1. PICK p \in Ids, doing \in {"audit", "settings"} :
            Exists(p) /\ Begin(w, [doing |-> doing, p |-> p])
      BY <1>1 DEF Open
    <2> DEFINE t == [doing |-> doing, p |-> p]
    <2>2. t \in Task /\ t.doing \notin {"create", "append"}
      BY DEF Task
    <2>3. /\ server = "up" /\ worker' = [worker EXCEPT ![w] = t] /\ requests' = requests + 1
          /\ UNCHANGED <<disk, server, seed, history, starts>>
      BY <1>1, <2>1 DEF Open, Begin, Serving
    <2>4. p \in Uploads => p \in used
      BY <2>1 DEF IInv, FileInv, ProjectInv, Exists
    <2>5. ThreadInv(t)'
      BY <2>1, <2>3, <2>4 DEF ThreadInv, Exists, Using, disk, history
    <2>6. requests' \in Nat /\ deleting' \subseteq Uploads /\ overlapped' \subseteq Ids
      BY <2>3 DEF IInv, TypeOK, history
    <2> HIDE DEF t
    <2>7. QED
      BY <2>2, <2>3, <2>5, <2>6, NoDiskStep DEF history
  <1>2. CASE Configure(w)
    <2>1. /\ server = "up" /\ worker[w].doing = "audit" /\ Exists(worker[w].p)
          /\ worker' = [worker EXCEPT ![w].doing = "configure"]
          /\ UNCHANGED <<disk, server, seed, history, counts>>
      BY <1>2 DEF Configure, Serving
    <2>2. PICK p \in Ids : worker[w] = [doing |-> "audit", p |-> p]
      BY <2>1 DEF IInv, TypeOK, Task, Idle
    <2> DEFINE t == [doing |-> "configure", p |-> p]
    <2>3. t \in Task /\ t.doing \notin {"create", "append"}
      BY DEF Task
    <2>4. worker' = [worker EXCEPT ![w] = t]
      <3>1. [worker[w] EXCEPT !.doing = "configure"] = t
        BY <2>2
      <3>2. QED
        BY <2>1, <3>1 DEF IInv, TypeOK
    <2>5. p \in Uploads => p \in used
      BY <2>2 DEF IInv, ThreadInv, Idle
    <2>6. ThreadInv(t)'
      BY <2>1, <2>2, <2>5 DEF ThreadInv, Exists, Using, disk, history
    <2> HIDE DEF t
    <2>7. requests' \in Nat /\ deleting' \subseteq Uploads /\ overlapped' \subseteq Ids
      BY <2>1 DEF IInv, TypeOK, history, counts
    <2>8. QED
      BY <2>1, <2>3, <2>4, <2>6, <2>7, NoDiskStep DEF history, counts
  <1>3. CASE Delete(w)
    <2>1. PICK p \in Ids :
            /\ Deletable(p) /\ dir[p] # {}
            /\ Begin(w, [doing |-> "delete", p |-> p, listed |-> dir[p] \ {"."}])
            /\ deleting' = deleting \cup {p}
      BY <1>3 DEF Delete
    <2>2. PICK listed \in SUBSET Entry : listed = dir[p] \ {"."}
      BY <2>1 DEF IInv, TypeOK
    <2> DEFINE t == [doing |-> "delete", p |-> p, listed |-> listed]
    <2>3. p \in Uploads /\ p \in used
      BY <2>1 DEF Deletable, Ids, IInv, FileInv, ProjectInv
    <2>4. t \in Task /\ t.doing \notin {"create", "append"}
      BY <2>3 DEF Task
    <2>5. /\ server = "up" /\ worker' = [worker EXCEPT ![w] = t] /\ requests' = requests + 1
          /\ UNCHANGED <<disk, server, seed, used, gone, recorded, overlapped, starts>>
      BY <1>3, <2>1, <2>2 DEF Delete, Begin, Serving
    <2>6. ThreadInv(t)'
      BY <2>1, <2>3, <2>5 DEF ThreadInv, Using
    <2> HIDE DEF t
    <2>7. requests' \in Nat /\ deleting' \subseteq Uploads /\ overlapped' \subseteq Ids
      BY <2>1, <2>3, <2>5 DEF IInv, TypeOK
    <2>8. QED
      BY <2>1, <2>4, <2>5, <2>6, <2>7, NoDiskStep
  <1>4. CASE Raise(w)
    <2>1. Idle \in Task /\ Idle.doing \notin {"create", "append"}
      BY DEF Task, Idle
    <2>2. ThreadInv(Idle)'
      BY DEF ThreadInv, Idle, Using
    <2>3. /\ server = "up" /\ worker' = [worker EXCEPT ![w] = Idle]
          /\ UNCHANGED <<disk, server, seed, history, counts>>
      BY <1>4 DEF Raise, Ends
    <2>4. requests' \in Nat /\ deleting' \subseteq Uploads /\ overlapped' \subseteq Ids
      BY <2>3 DEF IInv, TypeOK, history, counts
    <2>5. QED
      BY <2>1, <2>2, <2>3, <2>4, NoDiskStep DEF history, counts
  <1>5. CASE ReadTriage(w)
    <2>1. worker[w].doing = "decide" /\ server = "up"
      BY <1>5 DEF ReadTriage, Serving
    <2>2. PICK p \in Ids : worker[w] = [doing |-> "decide", p |-> p]
      BY <2>1 DEF IInv, TypeOK, Task, Idle
    <2>3. PICK n \in Nat : n = work[p]
      BY DEF IInv, TypeOK
    <2> DEFINE t == [doing |-> "append", p |-> p, copy |-> n]
    <2>4. t \in Task /\ t.doing # "create" /\ t.p = p
      BY DEF Task
    <2>5. /\ worker' = [worker EXCEPT ![w] = t]
          /\ AnotherAppends(w, p) => p \in overlapped'
          /\ overlapped \subseteq overlapped' /\ overlapped' \subseteq overlapped \cup {p}
          /\ UNCHANGED <<disk, server, seed, used, deleting, gone, recorded, counts>>
      BY <1>5, <2>2, <2>3 DEF ReadTriage, AnotherAppends
    <2>6. p \in Uploads => p \in used
      BY <2>2 DEF IInv, ThreadInv, Idle
    <2>7. p \notin deleting => Exists(p)
      BY <2>2 DEF IInv, ThreadInv, Using
    <2>8. ThreadInv(t)'
      BY <2>3, <2>5, <2>6, <2>7 DEF ThreadInv, Exists, Using, disk
    <2> HIDE DEF t
    <2>9. requests' \in Nat /\ deleting' \subseteq Uploads /\ overlapped' \subseteq Ids
      BY <2>5 DEF IInv, TypeOK, counts
    <2>10. QED
      BY <2>1, <2>4, <2>5, <2>8, <2>9, NoDiskStep DEF counts
  <1>6. QED
    BY <1>1, <1>2, <1>3, <1>4, <1>5

\* A request writes a file other than meta.json into a directory: the
\* decisions in it change only when it is the one that was to append.
LEMMA WritesFile ==
  ASSUME IInv, NEW w \in Workers, NEW t \in Task, t.doing \notin {"create", "append"},
         server = "up", worker' = [worker EXCEPT ![w] = t],
         UNCHANGED <<server, seed, used, deleting, gone, overlapped, counts>>,
         NEW p \in Ids, NEW e \in Entry \ {"meta"}, Wrote(p, e),
         p \in Uploads => p \in used, p \notin deleting => Exists(p),
         work' \in [Ids -> Nat], recorded' \in [Ids -> Nat],
         \A q \in Ids : q # p => work'[q] = work[q] /\ recorded'[q] = recorded[q],
         p \notin deleting \cup overlapped => work'[p] = recorded'[p],
         work'[p] # work[p] => worker[w].doing = "append" /\ worker[w].p = p,
         ThreadInv(t)'
  PROVE  IInv'
  <1>1. /\ worker' \in [Workers -> Task] /\ worker'[w] = t
        /\ \A v \in Workers : v # w => worker'[v] = worker[v]
        /\ \A v, u \in Workers :
             worker'[v].doing = "create" /\ worker'[u].doing = "create" /\ worker'[v].p = worker'[u].p => v = u
        /\ server' = "up" /\ seed' = {} /\ OneAppender'
    BY NewTask DEF IInv
  <1>2. /\ dir' \in [Ids -> SUBSET Entry]
        /\ \A q \in Ids : q # p => dir'[q] = dir[q]
        /\ dir'[p] = dir[p] \cup {".", e}
    BY DEF Wrote, IInv, TypeOK, Entry
  <1>3. \A q \in Ids : dir[q] \subseteq dir'[q] /\ (Exists(q)' <=> Exists(q))
    BY <1>2 DEF Exists
  <1>4. TypeOK'
    BY <1>1, <1>2 DEF IInv, TypeOK, counts
  <1>5. FileInv'
    <2>1. ASSUME NEW q \in Ids
          PROVE  ProjectInv(q)'
      <3>1. CASE q = p
        BY <1>3, <3>1 DEF IInv, FileInv, ProjectInv, Exists
      <3>2. CASE q # p
        BY <1>2, <1>3, <3>2 DEF IInv, FileInv, ProjectInv, Exists
      <3>3. QED
        BY <3>1, <3>2
    <2>2. QED
      BY <1>1, <1>3, <2>1 DEF IInv, FileInv, Exists, Ids
  <1>6. \A v \in Workers : ThreadInv(worker[v])'
    <2>1. ASSUME NEW v \in Workers, v # w
          PROVE  ThreadInv(worker[v])'
      <3>1. worker[v].doing = "create" => worker[v].p \in Ids
        BY Tasks DEF IInv, TypeOK, Ids
      <3>2. worker[v].doing = "append" => worker[v].p \in Ids
        BY Tasks DEF IInv, TypeOK, Using
      <3>3. worker[v].doing = "append" /\ worker[v].p \notin overlapped =>
              work'[worker[v].p] = work[worker[v].p]
        BY <2>1, <3>2 DEF IInv, OneAppender
      <3>4. QED
        BY <1>1, <1>3, <2>1, <3>1, <3>3, ThreadKept DEF IInv, Exists
    <2>2. QED
      BY <1>1, <2>1 DEF ThreadInv, Exists, Written
  <1>7. QED
    BY <1>1, <1>4, <1>5, <1>6 DEF IInv

LEMMA Writing ==
  ASSUME IInv, NEW w \in Workers, MakeStateDir(w) \/ AddAudit(w) \/ SaveSettings(w)
  PROVE  IInv'
  <1>1. /\ server = "up" /\ worker[w].doing \in {"configure", "append", "settings"}
        /\ UNCHANGED <<server, seed, used, deleting, gone, overlapped, counts>>
    BY DEF MakeStateDir, AddAudit, SaveSettings, Serving, history
  <1>0. worker[w] \in Task
    BY DEF IInv, TypeOK
  <1>2. PICK p \in Ids : worker[w].p = p
    BY <1>0, <1>1, Tasks DEF Using
  <1>3. p \in Uploads => p \in used
    BY <1>1, <1>2 DEF IInv, ThreadInv, Idle
  <1>4. p \notin deleting => Exists(p)
    BY <1>1, <1>2 DEF IInv, ThreadInv, Using
  <1>5. PICK e \in Entry \ {"meta"} : Wrote(p, e)
    <2>1. MakeStateDir(w) => Wrote(p, "state")
      BY <1>2 DEF MakeStateDir
    <2>2. AddAudit(w) => Wrote(p, "triage")
      BY <1>2 DEF AddAudit
    <2>3. SaveSettings(w) => Wrote(p, "settings")
      BY <1>2 DEF SaveSettings, SettingsFile
    <2>4. QED
      BY <2>1, <2>2, <2>3 DEF Entry
  <1>6. /\ work' \in [Ids -> Nat] /\ recorded' \in [Ids -> Nat]
        /\ \A q \in Ids : q # p => work'[q] = work[q] /\ recorded'[q] = recorded[q]
        /\ p \notin deleting \cup overlapped => work'[p] = recorded'[p]
        /\ work'[p] # work[p] => worker[w].doing = "append" /\ worker[w].p = p
    <2>1. p \notin deleting \cup overlapped => work[p] = recorded[p]
      BY DEF IInv, FileInv, ProjectInv
    <2>2. CASE MakeStateDir(w) \/ SaveSettings(w)
      BY <2>1, <2>2 DEF MakeStateDir, SaveSettings, history, IInv, TypeOK
    <2>3. CASE AddAudit(w)
      <3>1. worker[w].doing = "append" /\ worker[w].copy \in Nat
        BY <1>0, <2>3, Tasks DEF AddAudit, Serving
      <3>2. p \notin deleting \cup overlapped => worker[w].copy = work[p]
        BY <1>2, <3>1 DEF IInv, ThreadInv
      <3>3. /\ work' = [work EXCEPT ![p] = worker[w].copy + 1]
            /\ recorded' = [recorded EXCEPT ![p] = @ + 1]
        BY <1>2, <2>3 DEF AddAudit
      <3>4. QED
        BY <1>2, <2>1, <3>1, <3>2, <3>3 DEF IInv, TypeOK
    <2>4. QED
      BY <2>2, <2>3
  <1>7. PICK t \in Task :
          /\ t.doing \notin {"create", "append"} /\ worker' = [worker EXCEPT ![w] = t]
          /\ ThreadInv(t)'
    <2>1. CASE MakeStateDir(w)
      <3> DEFINE t == [doing |-> "decide", p |-> p]
      <3>1. worker[w] = [doing |-> "configure", p |-> p]
        BY <1>0, <1>2, <2>1 DEF MakeStateDir, Serving, Task, Idle
      <3>2. worker' = [worker EXCEPT ![w] = t]
        <4>1. [worker[w] EXCEPT !.doing = "decide"] = t
          BY <3>1
        <4>2. QED
          BY <2>1, <4>1 DEF MakeStateDir, IInv, TypeOK
      <3>3. t \in Task /\ t.doing \notin {"create", "append"}
        BY DEF Task
      <3>4. p \notin deleting => Exists(p)'
        BY <1>4, <1>5 DEF Exists, Wrote, IInv, TypeOK
      <3>5. ThreadInv(t)'
        BY <1>1, <1>3, <3>4 DEF ThreadInv
      <3>6. QED
        BY <3>2, <3>3, <3>5
    <2>2. CASE AddAudit(w) \/ SaveSettings(w)
      <3>1. worker' = [worker EXCEPT ![w] = Idle]
        BY <2>2 DEF AddAudit, SaveSettings, Ends
      <3>2. Idle \in Task /\ Idle.doing \notin {"create", "append"}
        BY DEF Task, Idle
      <3>3. ThreadInv(Idle)'
        BY DEF ThreadInv, Idle, Using
      <3>4. QED
        BY <3>1, <3>2, <3>3
    <2>3. QED
      BY <2>1, <2>2
  <1>8. QED
    BY <1>1, <1>3, <1>4, <1>5, <1>6, <1>7, WritesFile

\* A step of a removal takes something out of a directory.
LEMMA Removes ==
  ASSUME IInv, NEW w \in Workers, NEW t \in Task, t.doing \notin {"create", "append"},
         server = "up", worker' = [worker EXCEPT ![w] = t],
         UNCHANGED <<server, seed, used, deleting, recorded, overlapped, counts>>,
         NEW p \in deleting,
         p \in used, dir' \in [Ids -> SUBSET Entry], work' \in [Ids -> Nat],
         \A q \in Ids : q # p => dir'[q] = dir[q] /\ work'[q] = work[q],
         dir'[p] \subseteq dir[p],
         gone' = gone \/ (gone' = gone \cup {p} /\ Exists(p) /\ ~Exists(p)'),
         ThreadInv(t)'
  PROVE  IInv'
  <1>1. /\ worker' \in [Workers -> Task] /\ worker'[w] = t
        /\ \A v \in Workers : v # w => worker'[v] = worker[v]
        /\ \A v, u \in Workers :
             worker'[v].doing = "create" /\ worker'[u].doing = "create" /\ worker'[v].p = worker'[u].p => v = u
        /\ server' = "up" /\ seed' = {} /\ OneAppender'
    BY NewTask DEF IInv
  <1>2. p \in Ids /\ p \in Uploads /\ p \notin Builtins
    BY DEF IInv, TypeOK, Ids
  <1>3. TypeOK'
    BY <1>1 DEF IInv, TypeOK, counts
  <1>4. FileInv'
    <2>1. ASSUME NEW q \in Ids
          PROVE  ProjectInv(q)'
      <3>1. CASE q = p
        BY <1>2, <3>1 DEF IInv, FileInv, ProjectInv, Exists
      <3>2. CASE q # p
        BY <3>2 DEF IInv, FileInv, ProjectInv, Exists
      <3>3. QED
        BY <3>1, <3>2
    <2>2. \A q \in Builtins : Exists(q)'
      BY <1>2 DEF IInv, FileInv, Exists, Ids
    <2>3. QED
      BY <1>1, <2>1, <2>2 DEF FileInv
  <1>5. \A v \in Workers : ThreadInv(worker[v])'
    <2>1. ASSUME NEW v \in Workers, v # w
          PROVE  ThreadInv(worker[v])'
      <3>1. ASSUME worker[v].doing = "create"
            PROVE  /\ Exists(worker[v].p)' => Exists(worker[v].p)
                   /\ worker[v].p \in gone' => worker[v].p \in gone
        <4>1. PICK q \in Ids : q = worker[v].p
          BY <3>1, Tasks DEF IInv, TypeOK, Ids
        <4>2. ~Exists(q)
          BY <3>1, <4>1 DEF IInv, ThreadInv
        <4>3. worker'[v].p = q
          BY <1>1, <2>1, <4>1
        <4>4. q \in gone' => q \in gone
          BY <4>2
        <4>5. ~Exists(q)'
          BY <4>2 DEF Exists
        <4>6. QED
          BY <4>1, <4>3, <4>4, <4>5 DEF Exists
      <3>2. \A q \in Ids : q \notin deleting' => dir[q] \subseteq dir'[q]
        OBVIOUS
      <3>3. worker[v].doing = "append" => worker[v].p \in Ids
        BY Tasks DEF IInv, TypeOK, Using
      <3>4. QED
        BY <1>1, <2>1, <3>1, <3>2, <3>3, ThreadKept DEF IInv
    <2>2. QED
      BY <1>1, <2>1 DEF ThreadInv, Exists, Written
  <1>6. QED
    BY <1>1, <1>3, <1>4, <1>5 DEF IInv

LEMMA Removing ==
  ASSUME IInv, NEW w \in Workers, RemoveEntry(w) \/ RemoveDirectory(w)
  PROVE  IInv'
  <1>1. worker[w].doing = "delete" /\ worker[w] \in [doing : {"delete"}, p : Uploads, listed : SUBSET Entry]
    BY DEF RemoveEntry, RemoveDirectory, Serving, IInv, TypeOK, Task, Idle
  <1>2. PICK p \in Uploads, listed \in SUBSET Entry :
          worker[w] = [doing |-> "delete", p |-> p, listed |-> listed]
    BY <1>1
  <1>3. /\ p \in deleting /\ p \in used /\ p \in Ids
        /\ server = "up" /\ UNCHANGED <<server, seed, used, deleting, recorded, overlapped, counts>>
    BY <1>2 DEF IInv, ThreadInv, Idle, Ids, RemoveEntry, RemoveDirectory, Serving, history
  <1>4. CASE RemoveEntry(w)
    <2>1. PICK e \in listed \cap dir[p] :
            /\ dir' = [dir EXCEPT ![p] = @ \ {e}]
            /\ worker' = [worker EXCEPT ![w].listed = @ \ {e}]
            /\ work' = IF e = "triage" THEN [work EXCEPT ![p] = 0] ELSE work
            /\ gone' = IF e = "meta" THEN gone \cup {p} ELSE gone
      <3>1. worker[w].p = p /\ worker[w].listed = listed
        BY <1>2
      <3>2. QED
        BY <1>4, <3>1 DEF RemoveEntry
    <2> DEFINE t == [doing |-> "delete", p |-> p, listed |-> listed \ {e}]
    <2>2. [worker[w] EXCEPT !.listed = @ \ {e}] = t
      BY <1>2
    <2>3. worker' = [worker EXCEPT ![w] = t]
      BY <2>1, <2>2 DEF IInv, TypeOK
    <2>4. t \in Task /\ t.doing \notin {"create", "append"}
      BY DEF Task
    <2>5. /\ dir' \in [Ids -> SUBSET Entry] /\ work' \in [Ids -> Nat]
          /\ \A q \in Ids : q # p => dir'[q] = dir[q] /\ work'[q] = work[q]
          /\ dir'[p] = dir[p] \ {e}
      BY <1>3, <2>1 DEF IInv, TypeOK
    <2>6. gone' = gone \/ (gone' = gone \cup {p} /\ Exists(p) /\ ~Exists(p)')
      BY <2>1, <2>5 DEF Exists
    <2>7. ThreadInv(t)'
      BY <1>3 DEF ThreadInv, Using
    <2> HIDE DEF t
    <2>8. QED
      BY <1>3, <2>3, <2>4, <2>5, <2>6, <2>7, Removes
  <1>5. CASE RemoveDirectory(w)
    <2>1. /\ dir[p] = {"."} /\ dir' = [dir EXCEPT ![p] = {}]
          /\ worker' = [worker EXCEPT ![w] = Idle] /\ UNCHANGED <<work, gone>>
      BY <1>2, <1>5 DEF RemoveDirectory, Ends, history
    <2>2. /\ dir' \in [Ids -> SUBSET Entry] /\ work' \in [Ids -> Nat]
          /\ \A q \in Ids : q # p => dir'[q] = dir[q] /\ work'[q] = work[q]
          /\ dir'[p] \subseteq dir[p]
      BY <1>3, <2>1 DEF IInv, TypeOK
    <2>3. Idle \in Task /\ Idle.doing \notin {"create", "append"} /\ ThreadInv(Idle)'
      BY DEF Task, Idle, ThreadInv, Using
    <2>4. QED
      BY <1>3, <2>1, <2>2, <2>3, Removes
  <1>6. QED
    BY <1>4, <1>5

-----------------------------------------------------------------------------
LEMMA InvNext == IInv /\ [Next]_vars => IInv'
  <1> SUFFICES ASSUME IInv, [Next]_vars
               PROVE  IInv'
    OBVIOUS
  <1>1. CASE UNCHANGED vars
    BY <1>1 DEF vars, disk, history, counts, IInv, TypeOK, FileInv, ProjectInv, ThreadInv, OneAppender, Exists, Written
  <1>2. CASE Start \/ SeedNext \/ Serve \/ Stop
    BY <1>2, StartUp
  <1>3. CASE SeedFile
    BY <1>3, Seeded
  <1>4. ASSUME NEW w \in Workers,
               \/ Create(w) \/ CreateFile(w) \/ Open(w) \/ Configure(w) \/ MakeStateDir(w)
               \/ ReadTriage(w) \/ AddAudit(w) \/ SaveSettings(w) \/ Delete(w) \/ RemoveEntry(w)
               \/ RemoveDirectory(w) \/ Raise(w)
        PROVE  IInv'
    BY <1>4, Created, CreatedFile, NoDisk, Writing, Removing
  <1>5. QED
    BY <1>1, <1>2, <1>3, <1>4 DEF Next

LEMMA Invariant == Spec => []IInv
  BY InvInit, InvNext, PTL DEF Spec

\* The directories, threads and the start-up keep their shape: no built-in
\* project is being removed, and no two requests create in one directory.
THEOREM TypeCorrect == Spec => []TypeOK
  <1>1. IInv => TypeOK
    BY DEF IInv
  <1>2. QED
    BY <1>1, Invariant, PTL

\* The order of the writes (meta.json last) is enough: whatever failed, was
\* killed or ran next to it while a project was made, no page shows it without
\* its files as long as nobody has begun to remove it.
THEOREM VisibleProjectsComplete == Spec => []VisibleIsComplete
  <1>1. IInv => VisibleIsComplete
    BY DEF IInv, FileInv, ProjectInv, VisibleIsComplete
  <1>2. QED
    BY <1>1, Invariant, PTL

\* No late write of a request that found the project before brings it back.
THEOREM DeletedProjectsStayAway == Spec => []DeletedStaysDeleted
  <1>1. IInv => DeletedStaysDeleted
    BY DEF IInv, TypeOK, FileInv, ProjectInv, DeletedStaysDeleted, Ids
  <1>2. QED
    BY <1>1, Invariant, PTL

\* No later start-up, kill, failure or other request takes a recorded decision
\* from a project that is not being removed and was never audited by two
\* requests at once.
THEOREM DecisionsAreKept == Spec => []AuditsKept
  <1>1. IInv => AuditsKept
    BY DEF IInv, FileInv, ProjectInv, AuditsKept
  <1>2. QED
    BY <1>1, Invariant, PTL
===============================================================================
