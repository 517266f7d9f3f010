----------------------------- MODULE RescanProofs -----------------------------
(***************************************************************************)
(* Proofs about Rescan for any repository, sinks, sources, reviewers and   *)
(* history of analyses, rollbacks and audits.                              *)
(***************************************************************************)
EXTENDS Rescan, FiniteSetTheorems, SequenceTheorems, WellFoundedInduction, TLAPS

-----------------------------------------------------------------------------
(* The scanner.                                                            *)

\* A non-empty set of positions has a first one.
LEMMA FirstIsLeast ==
  ASSUME NEW S \in SUBSET Nat, S # {}
  PROVE  First(S) \in S /\ \A j \in S : First(S) <= j
  <1> DEFINE R == {p \in Nat \X Nat : p[1] < p[2]}
  <1>1. IsWellFoundedOn(R, Nat)
    BY NatLessThanWellFounded DEF OpToRel
  <1>2. PICK x \in S : \A y \in S : ~ (<<y, x>> \in R)
    BY <1>1, WFMin
  <1>3. ASSUME NEW y \in S
        PROVE  x <= y
    <2>1. <<y, x>> \in Nat \X Nat /\ <<y, x>> \notin R
      BY <1>2
    <2>2. ~ (y < x)
      BY <2>1
    <2>3. QED
      BY <2>2
  <1>4. QED
    BY <1>3 DEF First

RepoOK == repo \in [Methods -> Seq(Calls)]

LEMMA Positions ==
  ASSUME RepoOK, NEW m \in Methods, NEW learned, NEW from
  PROVE  /\ DOMAIN repo[m] = 1..Len(repo[m]) /\ Len(repo[m]) \in Nat
         /\ SourcesIn(m, learned) \in SUBSET Nat
         /\ SinksIn(m, from) \in SUBSET Nat
  BY DEF RepoOK, SourcesIn, SinksIn

\* Where the flow of a method starts and ends; between the two no call is
\* taken for a sink.
LEMMA FlowEnds ==
  ASSUME RepoOK, NEW learned, NEW m \in Flows(learned)
  PROVE  LET s == First(SourcesIn(m, learned))
             k == First(SinksIn(m, s))
         IN /\ s \in 1..Len(repo[m]) /\ k \in (s + 1)..Len(repo[m])
            /\ IsSink(repo[m][k])
            /\ \A i \in (s + 1)..(k - 1) : ~ IsSink(repo[m][i])
  <1> DEFINE s == First(SourcesIn(m, learned))
             k == First(SinksIn(m, s))
  <1>1. m \in Methods /\ SourcesIn(m, learned) # {} /\ SinksIn(m, s) # {}
    BY DEF Flows, HasFlow
  <1>2. s \in SourcesIn(m, learned) /\ k \in SinksIn(m, s) /\ \A j \in SinksIn(m, s) : k <= j
    <2>1. SourcesIn(m, learned) \in SUBSET Nat /\ SinksIn(m, s) \in SUBSET Nat
      BY <1>1, Positions
    <2> HIDE DEF s, k
    <2>2. s \in SourcesIn(m, learned)
      BY <1>1, <2>1, FirstIsLeast DEF s
    <2>3. k \in SinksIn(m, s) /\ \A j \in SinksIn(m, s) : k <= j
      BY <1>1, <2>1, FirstIsLeast DEF k
    <2>4. QED
      BY <2>2, <2>3
  <1> HIDE DEF s, k
  <1>3. DOMAIN repo[m] = 1..Len(repo[m]) /\ Len(repo[m]) \in Nat
    BY <1>1, Positions
  <1>4. s \in 1..Len(repo[m]) /\ k \in 1..Len(repo[m]) /\ k > s /\ IsSink(repo[m][k])
    BY <1>2, <1>3 DEF SourcesIn, SinksIn
  <1>5. ASSUME NEW i \in (s + 1)..(k - 1)
        PROVE  ~ IsSink(repo[m][i])
    <2>1. i \in DOMAIN repo[m] /\ i > s /\ ~ (k <= i)
      BY <1>3, <1>4
    <2>2. QED
      BY <1>2, <2>1 DEF SinksIn
  <1>6. QED
    BY <1>4, <1>5 DEF s, k

\* The passthrough calls of a flow are calls of its method, none a sink.
LEMMA FlowThrough ==
  ASSUME RepoOK, NEW learned, NEW m \in Flows(learned)
  PROVE  LET t == Flow(m, learned).through
         IN t \in Seq(Calls) /\ \A i \in DOMAIN t : ~ IsSink(t[i])
  <1> DEFINE s == First(SourcesIn(m, learned))
             k == First(SinksIn(m, s))
             t == SubSeq(repo[m], s + 1, k - 1)
  <1>1. Flow(m, learned).through = t
    BY DEF Flow
  <1>2. /\ s \in 1..Len(repo[m]) /\ k \in (s + 1)..Len(repo[m])
        /\ \A i \in (s + 1)..(k - 1) : ~ IsSink(repo[m][i])
    BY FlowEnds
  <1>3. m \in Methods /\ repo[m] \in Seq(Calls) /\ Len(repo[m]) \in Nat
    BY DEF Flows, RepoOK
  <1> HIDE DEF s, k
  <1>4. s \in Nat /\ k \in Nat /\ s + 1 \in Int /\ k - 1 \in Int /\ s < k /\ k <= Len(repo[m])
    BY <1>2, <1>3
  <1>5. \A i \in (s + 1)..(k - 1) : repo[m][i] \in Calls
    BY <1>3, <1>4
  <1>6. /\ t \in Seq(Calls)
        /\ Len(t) = IF s + 1 <= k - 1 THEN (k - 1) - (s + 1) + 1 ELSE 0
        /\ \A i \in 1..((k - 1) - (s + 1) + 1) : t[i] = repo[m][(s + 1) + i - 1]
    BY <1>4, <1>5, SubSeqProperties
  <1>7. ASSUME NEW i \in DOMAIN t
        PROVE  ~ IsSink(t[i])
    <2>1. i \in 1..Len(t)
      BY <1>6
    <2>2. Len(t) = k - 1 - s \/ Len(t) = 0
      BY <1>4, <1>6
    <2> HIDE DEF t
    <2>3. i \in Int /\ i >= 1 /\ i <= k - 1 - s
      BY <1>4, <2>1, <2>2
    <2>4. i \in 1..((k - 1) - (s + 1) + 1) /\ s + i \in (s + 1)..(k - 1) /\ (s + 1) + i - 1 = s + i
      BY <1>4, <2>3
    <2> USE DEF t
    <2>5. QED
      BY <1>2, <1>6, <2>4
  <1>8. QED
    BY <1>1, <1>6, <1>7

LEMMA FlowTyped ==
  ASSUME RepoOK, NEW learned, NEW m \in Flows(learned)
  PROVE  Flow(m, learned) \in FlowType /\ Flow(m, learned).method = m
  <1> DEFINE s == First(SourcesIn(m, learned))
             k == First(SinksIn(m, s))
             n == repo[m][k]
  <1>1. IsSink(n)
    BY FlowEnds
  <1>2. Flow(m, learned).through \in Seq(Calls)
    BY FlowThrough
  <1>3. Flow(m, learned) = [method |-> m, through |-> Flow(m, learned).through,
                            sink |-> SinkNode(n), class |-> ClassOf(n)]
    BY DEF Flow
  <1> HIDE DEF n
  <1>4. SinkNode(n) \in Methods \cup DOMAIN SinkClass
    BY <1>1 DEF IsSink, SinkNode, SinkMethods
  <1>5. ClassOf(n) \in {SinkClass[c] : c \in DOMAIN SinkClass} \cup {"sql_injection"}
    BY DEF ClassOf
  <1>6. m \in Methods
    BY DEF Flows
  <1>7. QED
    BY <1>2, <1>3, <1>4, <1>5, <1>6 DEF FlowType

\* A larger set of learned sources finds a flow wherever a smaller one did.
LEMMA MoreSourcesMoreFlows ==
  ASSUME RepoOK, NEW learned, NEW more, learned \subseteq more
  PROVE  Flows(learned) \subseteq Flows(more)
  <1> SUFFICES ASSUME NEW m \in Flows(learned)
               PROVE  m \in Flows(more)
    OBVIOUS
  <1> DEFINE s == First(SourcesIn(m, learned))
             t == First(SourcesIn(m, more))
  <1>1. m \in Methods /\ SourcesIn(m, learned) # {} /\ SinksIn(m, s) # {}
    BY DEF Flows, HasFlow
  <1>2. SourcesIn(m, learned) \subseteq SourcesIn(m, more)
    BY DEF SourcesIn
  <1>3. SourcesIn(m, learned) \in SUBSET Nat /\ SourcesIn(m, more) \in SUBSET Nat
    BY <1>1, Positions
  <1>4. s \in SourcesIn(m, learned) /\ s \in Nat
    BY <1>1, <1>3, FirstIsLeast
  <1>5. t \in Nat /\ t <= s
    BY <1>2, <1>3, <1>4, FirstIsLeast
  <1> HIDE DEF s, t
  <1>6. DOMAIN repo[m] \subseteq Nat
    BY <1>1, Positions
  <1>7. SinksIn(m, s) \subseteq SinksIn(m, t)
    BY <1>4, <1>5, <1>6 DEF SinksIn
  <1>8. QED
    BY <1>1, <1>2, <1>4, <1>7 DEF Flows, HasFlow, t

LEMMA LearnedGrows ==
  ASSUME NEW some, NEW all, some \subseteq all
  PROVE  LearnedSources(some) \subseteq LearnedSources(all)
  BY DEF LearnedSources, Trusted

-----------------------------------------------------------------------------
(* Identifiers.                                                            *)

\* How many of the fresh methods sort before a given one.
LEMMA RankCount ==
  ASSUME NEW fresh \in SUBSET Methods, NEW m \in fresh
  PROVE  /\ Cardinality({n \in fresh : Rank[n] < Rank[m]}) \in Nat
         /\ Cardinality(fresh) \in Nat
         /\ Cardinality({n \in fresh : Rank[n] < Rank[m]}) < Cardinality(fresh)
         /\ \A o \in fresh : Rank[o] < Rank[m] =>
              Cardinality({n \in fresh : Rank[n] < Rank[o]})
                < Cardinality({n \in fresh : Rank[n] < Rank[m]})
  <1> DEFINE Below(x) == {n \in fresh : Rank[n] < Rank[x]}
  <1>1. IsFiniteSet(fresh)
    BY RepoAssumption, FS_Subset
  <1>2. ASSUME NEW x \in fresh
        PROVE  /\ IsFiniteSet(Below(x)) /\ Cardinality(Below(x)) \in Nat
               /\ Cardinality(fresh) \in Nat
    BY <1>1, FS_Subset, FS_CardinalityType
  <1>3. Rank \in [Methods -> Nat]
    BY RepoAssumption
  <1>4. m \notin Below(m)
    BY <1>3
  <1>5. Cardinality(Below(m)) < Cardinality(fresh)
    <2>1. /\ Cardinality(Below(m)) <= Cardinality(fresh)
          /\ Cardinality(fresh) = Cardinality(Below(m)) => fresh = Below(m)
      BY <1>1, FS_Subset
    <2>2. fresh # Below(m)
      BY <1>4
    <2>3. QED
      BY <1>2, <2>1, <2>2
  <1>6. ASSUME NEW o \in fresh, Rank[o] < Rank[m]
        PROVE  Cardinality(Below(o)) < Cardinality(Below(m))
    <2>1. Below(o) \subseteq Below(m)
      BY <1>3, <1>6
    <2>2. o \in Below(m) /\ o \notin Below(o)
      BY <1>3, <1>6
    <2>3. Below(o) # Below(m)
      BY <2>2
    <2>4. /\ Cardinality(Below(o)) <= Cardinality(Below(m))
          /\ Cardinality(Below(m)) = Cardinality(Below(o)) => Below(m) = Below(o)
      BY <1>2, <2>1, FS_Subset
    <2>5. QED
      BY <1>2, <2>3, <2>4
  <1>7. QED
    BY <1>2, <1>5, <1>6

\* The identifiers of a project: all different, all below the next.
IdsOK(map, bound) ==
  /\ bound \in Nat /\ bound >= 1001
  /\ DOMAIN map \subseteq Methods
  /\ \A m \in DOMAIN map : map[m] \in 1001..(bound - 1)
  /\ \A m, n \in DOMAIN map : map[m] = map[n] => m = n

\* Assigning keeps what is assigned and gives every found method its own.
LEMMA AssignKeepsIds ==
  ASSUME NEW map, NEW bound, IdsOK(map, bound), NEW found \in SUBSET Methods
  PROVE  LET after == WithIds(map, bound, found)
         IN /\ IdsOK(after, NextId(map, bound, found))
            /\ DOMAIN after = DOMAIN map \cup found
            /\ \A m \in DOMAIN map, n \in DOMAIN after : map[m] = after[n] <=> m = n
  <1> DEFINE after == WithIds(map, bound, found)
             fresh == found \ DOMAIN map
             nextId == NextId(map, bound, found)
             Below(x) == {n \in fresh : Rank[n] < Rank[x]}
  <1>1. fresh \in SUBSET Methods
    OBVIOUS
  <1>2. Cardinality(fresh) \in Nat
    BY <1>1, RepoAssumption, FS_Subset, FS_CardinalityType
  <1>3. nextId = bound + Cardinality(fresh)
    BY DEF NextId
  <1>4. DOMAIN after = DOMAIN map \cup found
    BY DEF WithIds
  <1>5. \A m \in DOMAIN map : after[m] = map[m]
    BY DEF WithIds
  <1>6. \A m \in fresh : after[m] = bound + Cardinality(Below(m))
    BY DEF WithIds
  <1>7. ASSUME NEW m \in fresh
        PROVE  /\ Cardinality(Below(m)) \in Nat
               /\ Cardinality(Below(m)) < Cardinality(fresh)
               /\ \A o \in fresh : Rank[o] < Rank[m] =>
                    Cardinality(Below(o)) < Cardinality(Below(m))
    BY <1>1, RankCount
  <1> HIDE DEF after, fresh, nextId, Below
  <1>8. \A m \in fresh : after[m] \in bound..(nextId - 1)
    BY <1>2, <1>3, <1>6, <1>7 DEF IdsOK
  <1>9. \A m \in DOMAIN map : after[m] \in 1001..(bound - 1)
    BY <1>5 DEF IdsOK
  <1>10. nextId \in Nat /\ nextId >= bound /\ bound >= 1001 /\ bound \in Nat
    BY <1>2, <1>3 DEF IdsOK
  <1>11. DOMAIN after = DOMAIN map \cup fresh
    BY <1>4 DEF fresh
  <1>12. \A m \in DOMAIN after : after[m] \in 1001..(nextId - 1)
    BY <1>8, <1>9, <1>10, <1>11
  <1>13. ASSUME NEW m \in fresh, NEW o \in fresh, after[m] = after[o]
         PROVE  m = o
    <2>1. Rank[m] \in Nat /\ Rank[o] \in Nat /\ (Rank[m] = Rank[o] => m = o)
      BY <1>1, RepoAssumption DEF fresh
    <2>2. Cardinality(Below(m)) = Cardinality(Below(o))
      BY <1>6, <1>7, <1>13 DEF IdsOK
    <2>3. ~ (Rank[o] < Rank[m]) /\ ~ (Rank[m] < Rank[o])
      BY <1>7, <2>2
    <2>4. QED
      BY <2>1, <2>3
  <1>14. \A m \in DOMAIN map, n \in DOMAIN after : map[m] = after[n] <=> m = n
    <2>1. \A m \in DOMAIN map, n \in fresh : map[m] # after[n]
      BY <1>5, <1>8, <1>9, <1>10
    <2>2. \A m \in DOMAIN map, n \in DOMAIN map : map[m] = after[n] <=> m = n
      BY <1>5 DEF IdsOK
    <2>3. fresh \cap DOMAIN map = {}
      BY DEF fresh
    <2>4. QED
      BY <1>11, <2>1, <2>2, <2>3
  <1>15. \A m, n \in DOMAIN after : after[m] = after[n] => m = n
    BY <1>5, <1>11, <1>13, <1>14
  <1>16. DOMAIN after \subseteq Methods
    BY <1>4 DEF IdsOK
  <1>17. IdsOK(after, nextId)
    BY <1>10, <1>12, <1>15, <1>16 DEF IdsOK
  <1>18. QED
    BY <1>4, <1>14, <1>17 DEF after, nextId

-----------------------------------------------------------------------------
(* Type correctness, with the identifiers all different.                   *)

IInv == TypeOK /\ IdsOK(ids, next)

\* Every flow on the pages has an identifier after any rescan.
LEMMA RescannedKeepsIds ==
  ASSUME IInv, NEW overrides, Rescanned(overrides)
  PROVE  /\ IdsOK(ids', next')
         /\ DOMAIN ids' = DOMAIN ids \cup Flows(LearnedSources(overrides))
         /\ \A m \in DOMAIN ids, n \in DOMAIN ids' : ids[m] = ids'[n] <=> m = n
  <1>1. Flows(LearnedSources(overrides)) \in SUBSET Methods
    BY DEF Flows
  <1>2. QED
    BY <1>1, AssignKeepsIds DEF IInv, Rescanned

LEMMA FoundTyped ==
  ASSUME IInv, NEW r \in Results
  PROVE  r \in FoundType
  <1> DEFINE learned == LearnedSources(applied)
  <1>1. PICK m \in Flows(learned) : r = Found(Flow(m, learned))
    BY DEF Results
  <1>2. Flow(m, learned) \in FlowType /\ Flow(m, learned).method = m
    BY FlowTyped DEF IInv, TypeOK, RepoOK
  <1>3. m \in DOMAIN ids
    BY DEF IInv, TypeOK
  <1>4. ids[m] \in Nat
    BY <1>3 DEF IInv, IdsOK
  <1> HIDE DEF learned
  <1>5. QED
    BY <1>1, <1>2, <1>4 DEF Found, FoundType

LEMMA InvInit == Init => IInv
  <1> SUFFICES ASSUME Init PROVE IInv
    OBVIOUS
  <1>1. RepoOK
    BY RepoAssumption DEF Init, RepoOK
  <1>2. IdsOK(<<>>, 1001)
    BY DEF IdsOK
  <1>3. Flows({}) \in SUBSET Methods
    BY DEF Flows
  <1>4. IdsOK(ids, next) /\ DOMAIN ids = Flows({})
    <2> DEFINE none == <<>>
               first == 1001
               found == Flows({})
    <2>1. IdsOK(none, first) /\ DOMAIN none = {} /\ found \in SUBSET Methods
      BY <1>2, <1>3
    <2>2. ids = WithIds(none, first, found) /\ next = NextId(none, first, found)
      BY DEF Init
    <2> HIDE DEF none, first, found
    <2>3. /\ IdsOK(WithIds(none, first, found), NextId(none, first, found))
          /\ DOMAIN WithIds(none, first, found) = DOMAIN none \cup found
      BY <2>1, AssignKeepsIds
    <2>4. QED
      BY <2>1, <2>2, <2>3 DEF found
  <1>5. baseline \subseteq [id : Nat, flow : FlowType]
    <2>1. \A m \in Flows({}) : ids[m] \in Nat
      BY <1>4 DEF IdsOK
    <2>2. \A m \in Flows({}) : Flow(m, {}) \in FlowType
      BY <1>1, FlowTyped
    <2>3. QED
      BY <2>1, <2>2 DEF Init
  <1>6. LearnedSources({}) = {}
    BY DEF LearnedSources, Trusted
  <1>7. /\ triage = <<>> /\ applied = {} /\ captured = {} /\ auditing = {}
        /\ Flows(LearnedSources(applied)) = Flows({})
    BY <1>6 DEF Init
  <1>8. QED
    BY <1>1, <1>4, <1>5, <1>7 DEF IInv, TypeOK, RepoOK, IdsOK

LEMMA InvNext == IInv /\ [Next]_vars => IInv'
  <1> SUFFICES ASSUME IInv, [Next]_vars PROVE IInv'
    OBVIOUS
  <1>1. CASE UNCHANGED vars
    <2>1. Flows(LearnedSources(applied))' = Flows(LearnedSources(applied))
      BY <1>1 DEF vars, Flows, HasFlow, SourcesIn, SinksIn, IsSink, SinkMethods,
                  TouchesKnownSink, Names, LearnedSources, Trusted
    <2>2. QED
      BY <1>1, <2>1 DEF vars, IInv, TypeOK, IdsOK
  <1>2. CASE Analyze
    <2>1. repo' = repo /\ Rescanned(applied')
      BY <1>2 DEF Analyze
    <2>2. /\ IdsOK(ids', next')
          /\ DOMAIN ids' = DOMAIN ids \cup Flows(LearnedSources(applied'))
      BY <2>1, RescannedKeepsIds
    <2>3. applied' \subseteq Override
      <3>1. PICK fns \in SUBSET (Candidates \ {o.fn : o \in applied}) :
              \E as \in [fns -> Roles \X Classes] :
                applied' = applied \cup {[kind |-> as[f][1], fn |-> f, class |-> as[f][2]] : f \in fns}
        BY <1>2 DEF Analyze
      <3>2. PICK as \in [fns -> Roles \X Classes] :
              applied' = applied \cup {[kind |-> as[f][1], fn |-> f, class |-> as[f][2]] : f \in fns}
        BY <3>1
      <3>3. fns \subseteq Methods
        BY DEF Candidates
      <3>4. ASSUME NEW f \in fns
            PROVE  [kind |-> as[f][1], fn |-> f, class |-> as[f][2]] \in Override
        <4>1. as[f] \in Roles \X Classes
          BY <3>2
        <4>2. as[f][1] \in Roles /\ as[f][2] \in Classes
          BY <4>1
        <4>3. QED
          BY <3>3, <4>2 DEF Override
      <3>5. QED
        BY <3>2, <3>4 DEF IInv, TypeOK
    <2>4. Flows(LearnedSources(applied))' = Flows(LearnedSources(applied'))
      BY <2>1 DEF Flows, HasFlow, SourcesIn, SinksIn, IsSink, SinkMethods, TouchesKnownSink, Names
    <2>5. UNCHANGED <<repo, baseline, triage, captured, auditing>>
      BY <1>2 DEF Analyze
    <2>6. QED
      BY <2>2, <2>3, <2>4, <2>5 DEF IInv, TypeOK, IdsOK
  <1>3. ASSUME NEW o \in applied, Rollback(o) PROVE IInv'
    <2>1. repo' = repo /\ applied' \subseteq applied
      BY <1>3 DEF Rollback
    <2>2. Flows(LearnedSources(applied))' = Flows(LearnedSources(applied'))
      BY <2>1 DEF Flows, HasFlow, SourcesIn, SinksIn, IsSink, SinkMethods, TouchesKnownSink, Names
    <2>3. Flows(LearnedSources(applied')) \subseteq Flows(LearnedSources(applied))
      BY <2>1, LearnedGrows, MoreSourcesMoreFlows DEF IInv, TypeOK, RepoOK
    <2>4. UNCHANGED <<repo, ids, next, baseline, triage, captured, auditing>>
      BY <1>3 DEF Rollback
    <2>5. QED
      BY <2>1, <2>2, <2>3, <2>4 DEF IInv, TypeOK, IdsOK
  <1>4. ASSUME NEW r \in Results, NEW action \in Actions, NEW user \in Users,
               AuditReads(r, action, user)
        PROVE  IInv'
    <2>1. r \in FoundType
      BY FoundTyped
    <2>2. auditing' \subseteq [found : FoundType, action : Actions, user : Users]
      BY <1>4, <2>1 DEF AuditReads
    <2>3. /\ IdsOK(ids', next')
          /\ DOMAIN ids' = DOMAIN ids \cup Flows(LearnedSources(applied))
      BY <1>4, RescannedKeepsIds DEF AuditReads
    <2>4. Flows(LearnedSources(applied))' = Flows(LearnedSources(applied))
      BY <1>4 DEF AuditReads, Flows, HasFlow, SourcesIn, SinksIn, IsSink, SinkMethods,
                  TouchesKnownSink, Names, LearnedSources, Trusted
    <2>5. QED
      BY <1>4, <2>2, <2>3, <2>4 DEF AuditReads, IInv, TypeOK, IdsOK
  <1>5. ASSUME NEW a \in auditing, AuditRecords(a) PROVE IInv'
    <2>1. a \in [found : FoundType, action : Actions, user : Users]
      BY DEF IInv, TypeOK
    <2>2. Decision(a) \in [id : Nat, action : Actions, user : Users] /\ a.found.id \in Nat
      BY <2>1 DEF Decision, FoundType
    <2>3. captured' \subseteq [id : Nat, fn : Methods]
      BY <1>5, <2>2 DEF AuditRecords, Bypassed, IInv, TypeOK, Override
    <2>4. Flows(LearnedSources(applied))' = Flows(LearnedSources(applied))
      BY <1>5 DEF AuditRecords, Flows, HasFlow, SourcesIn, SinksIn, IsSink, SinkMethods,
                  TouchesKnownSink, Names, LearnedSources, Trusted
    <2>5. QED
      BY <1>5, <2>2, <2>3, <2>4 DEF AuditRecords, IInv, TypeOK, IdsOK
  <1>6. QED
    BY <1>1, <1>2, <1>3, <1>4, <1>5 DEF Next

\* The files of a project keep their shape, and every flow the pages can
\* show has an identifier, through any analyses, rollbacks and audits.
THEOREM ProjectTypeCorrect == Spec => []TypeOK
  <1>1. IInv => TypeOK
    BY DEF IInv
  <1>2. QED
    BY <1>1, InvInit, InvNext, PTL DEF Spec

LEMMA InvHolds == Spec => []IInv
  BY InvInit, InvNext, PTL DEF Spec

-----------------------------------------------------------------------------
(* What the pages promise.                                                 *)

\* "Stable ids": an identifier means the same method before and after any
\* request, whatever it applies, rolls back or surfaces.
THEOREM IdsAreStable == Spec => StableIds
  <1>1. IInv /\ [Next]_vars =>
          [\A m \in DOMAIN ids, n \in DOMAIN ids' : ids[m] = ids'[n] <=> m = n]_vars
    <2> SUFFICES ASSUME IInv, Next
                 PROVE  \A m \in DOMAIN ids, n \in DOMAIN ids' : ids[m] = ids'[n] <=> m = n
      OBVIOUS
    <2>1. CASE UNCHANGED ids
      BY <2>1 DEF IInv, IdsOK
    <2>2. CASE Analyze
      BY <2>2, RescannedKeepsIds DEF Analyze
    <2>3. ASSUME NEW r \in Results, NEW action \in Actions, NEW user \in Users,
                 AuditReads(r, action, user)
          PROVE  \A m \in DOMAIN ids, n \in DOMAIN ids' : ids[m] = ids'[n] <=> m = n
      BY <2>3, RescannedKeepsIds DEF AuditReads
    <2>4. QED
      BY <2>1, <2>2, <2>3 DEF Next, Rollback, AuditRecords
  <1>2. QED
    BY <1>1, InvHolds, PTL DEF Spec, StableIds

\* Learning can only surface findings: no set of new overrides makes the
\* finding of a method disappear from the pages.
THEOREM LearningLosesNothing == Spec => LearningOnlyAdds
  <1>1. IInv /\ [Next]_vars =>
          [applied \subseteq applied' =>
             Flows(LearnedSources(applied)) \subseteq Flows(LearnedSources(applied'))]_vars
    <2> SUFFICES ASSUME IInv, applied \subseteq applied'
                 PROVE  Flows(LearnedSources(applied)) \subseteq Flows(LearnedSources(applied'))
      OBVIOUS
    <2>1. QED
      BY LearnedGrows, MoreSourcesMoreFlows DEF IInv, TypeOK, RepoOK
  <1>2. QED
    BY <1>1, InvHolds, PTL DEF Spec, LearningOnlyAdds

\* Approving a wrapper of a known sink as a sanitizer hides no finding.
THEOREM SinksStaySinks == Spec => []SinksNeverTrusted
  <1>1. IInv => SinksNeverTrusted
    <2> DEFINE learned == LearnedSources(applied)
    <2> SUFFICES ASSUME IInv, NEW r \in Results, NEW i \in DOMAIN r.flow.through,
                        NEW o \in applied, TouchesKnownSink(o.fn),
                        Bare[r.flow.through[i]] = Bare[o.fn]
                 PROVE  FALSE
      BY DEF SinksNeverTrusted
    <2>1. PICK m \in Flows(learned) : r.flow = Flow(m, learned)
      BY DEF Results, Found
    <2>2. ~ IsSink(r.flow.through[i])
      BY <2>1, FlowThrough DEF IInv, TypeOK, RepoOK
    <2>3. o.fn \in Methods
      BY DEF IInv, TypeOK, Override
    <2>4. o.fn \in SinkMethods(r.flow.through[i])
      BY <2>3 DEF SinkMethods
    <2>5. QED
      BY <2>2, <2>4 DEF IsSink
  <1>2. QED
    BY <1>1, InvHolds, PTL

\* A confirmed finding that an override downgrades queues the correction of
\* a function behind the downgrade, also when the overrides changed while the
\* reviewer's request was being served.
THEOREM ConfirmationsAreCaptured == Spec => ConfirmIsCaptured
  <1> DEFINE Queued(a) ==
        \E c \in captured' :
          /\ c.id = a.found.id
          /\ c.fn \in Trusted(applied, "sanitizer")
          /\ \E n \in Sanitized(applied, a.found.flow.through) : Bare[n] = Bare[c.fn]
  <1>1. ASSUME NEW a, AuditRecords(a), a.action = "CONFIRM",
               Sanitized(applied, a.found.flow.through) # {}
        PROVE  Queued(a)
    <2> DEFINE t == a.found.flow.through
    <2>1. Bypassed(applied, t) # {}
      BY <1>1 DEF Sanitized, Bypassed, Trusted
    <2>2. PICK o \in Bypassed(applied, t) :
            captured' = captured \cup {[id |-> a.found.id, fn |-> o.fn]}
      BY <1>1, <2>1 DEF AuditRecords
    <2>3. o \in applied /\ o.kind = "sanitizer"
      BY DEF Bypassed
    <2>4. PICK i \in DOMAIN t : t[i] = o.fn \/ Bare[t[i]] = Bare[o.fn]
      BY DEF Bypassed
    <2>5. o.fn \in Trusted(applied, "sanitizer")
      BY <2>3 DEF Trusted
    <2>6. t[i] \in Sanitized(applied, t) /\ Bare[t[i]] = Bare[o.fn]
      BY <2>4, <2>5 DEF Sanitized
    <2> DEFINE c == [id |-> a.found.id, fn |-> o.fn]
    <2>7. c \in captured' /\ c.id = a.found.id /\ c.fn = o.fn
      BY <2>2
    <2> HIDE DEF c
    <2>8. QED
      BY <2>5, <2>6, <2>7
  <1>2. [Next]_vars =>
          [\A a \in auditing \ auditing' :
             a.action = "CONFIRM" /\ Sanitized(applied, a.found.flow.through) # {} =>
               \E c \in captured' :
                 /\ c.id = a.found.id
                 /\ c.fn \in Trusted(applied, "sanitizer")
                 /\ \E n \in Sanitized(applied, a.found.flow.through) : Bare[n] = Bare[c.fn]]_vars
    <2> SUFFICES ASSUME Next, NEW a \in auditing \ auditing', a.action = "CONFIRM",
                        Sanitized(applied, a.found.flow.through) # {}
                 PROVE  Queued(a)
      OBVIOUS
    <2>1. auditing' # auditing /\ auditing # {}
      OBVIOUS
    <2>2. PICK b \in auditing : AuditRecords(b)
      BY <2>1 DEF Next, Analyze, Rollback, AuditReads
    <2>3. a = b
      BY <2>2 DEF AuditRecords
    <2>4. QED
      BY <1>1, <2>2, <2>3
  <1>3. QED
    BY <1>2, PTL DEF Spec, ConfirmIsCaptured

-----------------------------------------------------------------------------
(* The count of surfaced findings.                                         *)

\* The baseline is the scan with nothing learned, under today's identifiers.
BaselineInv ==
  /\ Flows({}) \subseteq DOMAIN ids
  /\ baseline = {[id |-> ids[m], flow |-> Flow(m, {})] : m \in Flows({})}

\* As many values as arguments, when no two arguments share a value.
LEMMA SameSize ==
  ASSUME NEW S, IsFiniteSet(S), NEW f, DOMAIN f = S, f = [x \in S |-> f[x]],
         \A x, y \in S : f[x] = f[y] => x = y
  PROVE  /\ IsFiniteSet({f[x] : x \in S})
         /\ Cardinality({f[x] : x \in S}) = Cardinality(S)
  <1> DEFINE T == {f[x] : x \in S}
  <1>1. f \in [S -> T] /\ \A t \in T : \E x \in S : f[x] = t
    OBVIOUS
  <1> HIDE DEF T
  <1>2. f \in Bijection(S, T)
    BY <1>1 DEF Bijection, Injection, Surjection, IsInjective
  <1>3. ExistsBijection(S, T)
    BY <1>2 DEF ExistsBijection
  <1>4. IsFiniteSet(T) /\ Cardinality(T) = Cardinality(S)
    BY <1>3, FS_Bijection
  <1>5. QED
    BY <1>4 DEF T

\* The scan with nothing learned depends on the uploaded code alone.
LEMMA SameScan ==
  ASSUME repo' = repo
  PROVE  /\ Flows({})' = Flows({})
         /\ \A m : Flow(m, {})' = Flow(m, {})
  BY DEF Flows, HasFlow, Flow, SourcesIn, SinksIn, IsSink, SinkMethods, TouchesKnownSink, Names,
         SinkNode, ClassOf

LEMMA BaselineInit == Init => BaselineInv
  <1> SUFFICES ASSUME Init PROVE BaselineInv
    OBVIOUS
  <1>1. IInv
    BY InvInit
  <1>2. LearnedSources(applied) = {}
    BY DEF Init, LearnedSources, Trusted
  <1>3. Flows({}) \subseteq DOMAIN ids
    BY <1>1, <1>2 DEF IInv, TypeOK
  <1>4. QED
    BY <1>3 DEF Init, BaselineInv

LEMMA BaselineNext == IInv /\ BaselineInv /\ [Next]_vars => BaselineInv'
  <1> SUFFICES ASSUME IInv, BaselineInv, [Next]_vars PROVE BaselineInv'
    OBVIOUS
  <1>1. repo' = repo /\ baseline' = baseline
    BY DEF Next, vars, Analyze, Rollback, AuditReads, AuditRecords
  <1>2. DOMAIN ids \subseteq DOMAIN ids' /\ \A m \in DOMAIN ids : ids'[m] = ids[m]
    <2>1. CASE UNCHANGED ids
      BY <2>1
    <2>2. ASSUME NEW overrides, Rescanned(overrides)
          PROVE  DOMAIN ids \subseteq DOMAIN ids' /\ \A m \in DOMAIN ids : ids'[m] = ids[m]
      BY <2>2, RescannedKeepsIds
    <2>3. UNCHANGED ids \/ Rescanned(applied') \/ Rescanned(applied)
      BY DEF Next, vars, Analyze, Rollback, AuditReads, AuditRecords
    <2>4. QED
      BY <2>1, <2>2, <2>3
  <1>3. Flows({})' = Flows({}) /\ \A m : Flow(m, {})' = Flow(m, {})
    BY <1>1, SameScan
  <1>4. \A m \in Flows({}) : ids'[m] = ids[m]
    BY <1>2 DEF BaselineInv
  <1>5. QED
    BY <1>1, <1>2, <1>3, <1>4 DEF BaselineInv

LEMMA SurfacedCount ==
  ASSUME IInv, BaselineInv
  PROVE  SurfacedIsDifference
  <1> DEFINE learned == LearnedSources(applied)
             old     == Flows({})
             found   == Flows(learned)
             shown   == [m \in found |-> Found(Flow(m, learned))]
             known   == [m \in old |-> [id |-> ids[m], flow |-> Flow(m, {})]]
             fresh   == [m \in found \ old |-> Found(Flow(m, learned))]
  <1>1. old \subseteq found /\ found \subseteq DOMAIN ids /\ found \subseteq Methods
    <2>1. old \subseteq found
      BY MoreSourcesMoreFlows DEF IInv, TypeOK, RepoOK
    <2>2. found \subseteq DOMAIN ids /\ found \subseteq Methods
      BY DEF IInv, TypeOK, Flows
    <2>3. QED
      BY <2>1, <2>2
  <1>2. IsFiniteSet(found) /\ IsFiniteSet(old) /\ IsFiniteSet(found \ old)
    BY <1>1, RepoAssumption, FS_Subset
  <1>3. \A m \in found : Flow(m, learned).method = m
    BY FlowTyped DEF IInv, TypeOK, RepoOK
  <1>4. \A m, n \in found : ids[m] = ids[n] => m = n
    BY <1>1 DEF IInv, IdsOK
  <1>5. \A m \in found : Found(Flow(m, learned)).id = ids[m]
    BY <1>3 DEF Found
  <1>6. \A m \in found : Found(Flow(m, learned)).new <=> m \notin old
    <2>1. ASSUME NEW m \in old
          PROVE  ids[m] \in {b.id : b \in baseline}
      <3>1. [id |-> ids[m], flow |-> Flow(m, {})] \in baseline
        BY DEF BaselineInv
      <3>2. QED
        BY <3>1
    <2>2. ASSUME NEW m \in found, ids[m] \in {b.id : b \in baseline}
          PROVE  m \in old
      <3>1. PICK b \in baseline : b.id = ids[m]
        BY <2>2
      <3>2. PICK n \in old : b = [id |-> ids[n], flow |-> Flow(n, {})]
        BY DEF BaselineInv
      <3>3. ids[m] = ids[n]
        BY <3>1, <3>2
      <3>4. QED
        BY <1>1, <1>4, <3>3
    <2>3. \A m \in found : Found(Flow(m, learned)).new = (ids[m] \notin {b.id : b \in baseline})
      BY <1>3 DEF Found
    <2>4. QED
      BY <2>1, <2>2, <2>3
  <1>7. /\ Results = {shown[m] : m \in found}
        /\ {r \in Results : r.new} = {fresh[m] : m \in found \ old}
        /\ baseline = {known[m] : m \in old}
    <2>1. Results = {Found(Flow(m, learned)) : m \in found}
      BY DEF Results
    <2>2. Results = {shown[m] : m \in found}
      BY <2>1
    <2>3. {r \in Results : r.new} = {fresh[m] : m \in found \ old}
      BY <1>6, <2>1
    <2>4. baseline = {known[m] : m \in old}
      BY DEF BaselineInv
    <2>5. QED
      BY <2>2, <2>3, <2>4
  <1>8. /\ \A m, n \in found : shown[m] = shown[n] => m = n
        /\ \A m, n \in found \ old : fresh[m] = fresh[n] => m = n
        /\ \A m, n \in old : known[m] = known[n] => m = n
    <2>1. \A m \in found : shown[m].id = ids[m]
      BY <1>5
    <2>2. \A m \in found \ old : fresh[m].id = ids[m]
      BY <1>5
    <2>3. \A m \in old : known[m].id = ids[m]
      OBVIOUS
    <2> HIDE DEF shown, fresh, known
    <2>4. QED
      BY <1>1, <1>4, <2>1, <2>2, <2>3
  <1>9. /\ DOMAIN shown = found /\ shown = [m \in found |-> shown[m]]
        /\ DOMAIN fresh = found \ old /\ fresh = [m \in found \ old |-> fresh[m]]
        /\ DOMAIN known = old /\ known = [m \in old |-> known[m]]
    OBVIOUS
  <1> HIDE DEF shown, fresh, known, found, old
  <1>10. /\ Cardinality(Results) = Cardinality(found)
         /\ Cardinality({r \in Results : r.new}) = Cardinality(found \ old)
         /\ Cardinality(baseline) = Cardinality(old)
    BY <1>2, <1>7, <1>8, <1>9, SameSize
  <1>11. Cardinality(found \ old) = Cardinality(found) - Cardinality(found \cap old)
    BY <1>2, FS_Difference
  <1>12. found \cap old = old
    BY <1>1
  <1>13. QED
    BY <1>10, <1>11, <1>12 DEF SurfacedIsDifference

\* _project_impact's "surfaced" is the number of findings the page has over
\* the baseline, for any repository and after any analyses, rollbacks and
\* audits: learning may move a baseline finding but never renames it, loses
\* it or shows it as new.
THEOREM SurfacedCountsTheNew == Spec => []SurfacedIsDifference
  BY InvInit, InvNext, BaselineInit, BaselineNext, SurfacedCount, PTL DEF Spec
=============================================================================
