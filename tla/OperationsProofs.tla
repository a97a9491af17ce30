-------------------------- MODULE OperationsProofs --------------------------
(***************************************************************************)
(* Proofs about the services of MCOperations, for every value of its       *)
(* constants.  A section for each service has the inductive invariant of   *)
(* its module and three lemmas: the initial states satisfy it (...Init),   *)
(* each step of the service keeps it (...Kept), and it gives the property  *)
(* the runs check (...Sound).  The last section joins them: a step of the  *)
(* whole is one of a service or leaves it alone (Apart), so the            *)
(* invariants hold together in every reachable state, and the properties   *)
(* with them.                                                              *)
(***************************************************************************)
EXTENDS MCOperations, Integers, FiniteSets, Sequences, FiniteSetTheorems, TLAPS

-----------------------------------------------------------------------------
\* Sums, counted as points.

\* The points of the rows of S, as many of each as its weight: their number is the sum
\* of the weights.
Points(S, weight) == UNION {{n} \X (1..weight[n]) : n \in S}

\* What follows holds of finitely many rows with the weights that percentages have.
Weighed(S, weight) == IsFiniteSet(S) /\ \A n \in S : weight[n] \in 0..100

\* A row has as many points as its weight.
LEMMA PointsOfOne ==
  ASSUME NEW a, NEW k \in 0..100
  PROVE  IsFiniteSet({a} \X (1..k)) /\ Cardinality({a} \X (1..k)) = k
<1>1. IsFiniteSet(1..k) /\ Cardinality(1..k) = k
  <2>1. 1 \in Int /\ k \in Int
    OBVIOUS
  <2>2. IsFiniteSet(1..k) /\ Cardinality(1..k) = IF 1 > k THEN 0 ELSE k - 1 + 1
    BY ONLY <2>1, FS_Interval, Zenon
  <2> QED
    BY <2>2
<1>2. IsFiniteSet({a}) /\ Cardinality({a}) = 1
  BY FS_Singleton
<1>3. IsFiniteSet({a} \X (1..k)) /\ Cardinality({a} \X (1..k)) = 1 * k
  BY <1>1, <1>2, FS_Product
<1> QED
  BY <1>3

\* The points are finite in number.
LEMMA PointsFinite ==
  ASSUME NEW S, NEW weight, Weighed(S, weight)
  PROVE  IsFiniteSet(Points(S, weight)) /\ Cardinality(Points(S, weight)) \in Nat
<1>1. Points(S, weight) \in SUBSET (S \X (1..100))
  BY DEF Points, Weighed
<1>2. IsFiniteSet(S \X (1..100))
  <2>1. 1 \in Int /\ 100 \in Int
    OBVIOUS
  <2>2. IsFiniteSet(1..100)
    BY ONLY <2>1, FS_Interval, Zenon
  <2> QED
    BY <2>2, FS_Product DEF Weighed
<1> QED
  BY <1>1, <1>2, FS_Subset, FS_CardinalityType

\* One more row adds its weight to the sum.
LEMMA PointsAdded ==
  ASSUME NEW S, NEW weight, NEW a, a \notin S, Weighed(S \cup {a}, weight)
  PROVE  Cardinality(Points(S \cup {a}, weight)) = Cardinality(Points(S, weight)) + weight[a]
<1>1. S \in SUBSET (S \cup {a})
  OBVIOUS
<1>2. Weighed(S, weight) /\ weight[a] \in 0..100
  BY <1>1, FS_Subset DEF Weighed
<1> DEFINE One == {a} \X (1..weight[a])
<1>3. IsFiniteSet(One) /\ Cardinality(One) = weight[a]
  BY <1>2, PointsOfOne
<1>4. IsFiniteSet(Points(S, weight)) /\ Cardinality(Points(S, weight)) \in Nat
  BY <1>2, PointsFinite
<1>5. Points(S \cup {a}, weight) = Points(S, weight) \cup One
  BY DEF Points
<1>6. Points(S, weight) \cap One = {}
  BY DEF Points
<1>7. Cardinality(Points(S, weight) \cup One)
        = Cardinality(Points(S, weight)) + Cardinality(One) - Cardinality({})
  BY <1>3, <1>4, <1>6, FS_Union
<1>8. Cardinality({}) = 0
  BY FS_EmptySet
<1>9. Cardinality(Points(S \cup {a}, weight))
        = Cardinality(Points(S, weight)) + Cardinality(One) - 0
  BY <1>5, <1>7, <1>8
<1> QED
  BY <1>2, <1>3, <1>4, <1>9

\* Fewer rows add up to no more.
LEMMA PointsFewer ==
  ASSUME NEW S, NEW weight, NEW T \in SUBSET S, Weighed(S, weight)
  PROVE  /\ Weighed(T, weight)
         /\ Cardinality(Points(T, weight)) \in Nat
         /\ Cardinality(Points(S, weight)) \in Nat
         /\ Cardinality(Points(T, weight)) <= Cardinality(Points(S, weight))
<1>1. Weighed(T, weight)
  BY FS_Subset DEF Weighed
<1>2. Points(T, weight) \in SUBSET Points(S, weight)
  BY DEF Points
<1> QED
  BY <1>1, <1>2, PointsFinite, FS_Subset

\* The sum depends on the weights of its rows only.
LEMMA PointsAlike ==
  ASSUME NEW S, NEW weight, NEW other, \A n \in S : weight[n] = other[n]
  PROVE  Points(S, weight) = Points(S, other)
BY DEF Points

\* The sum after a row is inserted beside the others, which stay as they are.
LEMMA PointsInserted ==
  ASSUME NEW S, NEW weight, Weighed(S, weight), NEW a, a \notin S,
         NEW other, \A n \in S : other[n] = weight[n], other[a] \in 0..100
  PROVE  Cardinality(Points(S \cup {a}, other)) = Cardinality(Points(S, weight)) + other[a]
<1>1. IsFiniteSet(S \cup {a})
  BY FS_AddElement DEF Weighed
<1>2. Weighed(S \cup {a}, other)
  BY <1>1 DEF Weighed
<1>3. Points(S, other) = Points(S, weight)
  BY PointsAlike
<1> QED
  BY <1>2, <1>3, PointsAdded

\* Nothing adds up to nothing.
LEMMA PointsOfNone == \A weight : Cardinality(Points({}, weight)) = 0
<1>1. \A weight : Points({}, weight) = {}
  BY DEF Points
<1> QED
  BY <1>1, FS_EmptySet


-----------------------------------------------------------------------------
\* Controlled information.

\* Rows of different tables have different ids, and none is called none.
DistinctDocuments == Revisions \cap Baselines = {} /\ "none" \notin Inf!Documents

\* A supersession under way holds one or both of its rows.
Supersession ==
  [does : {"lock", "supersede"}, from : Inf!Documents, to : Inf!Documents, holds : SUBSET Inf!Documents]

InformationTyped ==
  /\ iStatus \in [Inf!Documents -> {"NONE", "DRAFT", "RELEASED", "SUPERSEDED"}]
  /\ successor \in [Inf!Documents -> Inf!Documents \cup {"none"}]
  /\ iteration \in [Iterations -> [of : Revisions \cup {"none"}, status : {"NONE", "WORKING", "FROZEN"}]]
  /\ released \in [Revisions -> Iterations \cup {"none"}]
  /\ issues \subseteq Revisions \X (Iterations \cup {"none"})
  /\ iLocal \in [InformationCallers -> {Inf!Idle}
       \cup [does : {"createIteration"}, iteration : Iterations, revision : Revisions]
       \cup [does : {"issue"}, revision : Revisions, iteration : Iterations \cup {"none"}]
       \cup [does : {"addItem"}, baseline : Baselines] \cup Supersession]

Superseding(c) == iLocal[c].does \in {"lock", "supersede"}

\* Who is about to supersede holds both rows, which are in force; no row is held twice.
RowsHeld ==
  /\ \A c \in InformationCallers : Superseding(c) =>
       /\ iLocal[c].from # iLocal[c].to /\ Inf!SameKind(iLocal[c].from, iLocal[c].to)
       /\ iLocal[c].from \in iLocal[c].holds
       /\ iLocal[c].does = "supersede" =>
            /\ iLocal[c].to \in iLocal[c].holds
            /\ iStatus[iLocal[c].from] = "RELEASED" /\ iStatus[iLocal[c].to] = "RELEASED"
  /\ \A c, d \in InformationCallers :
       Superseding(c) /\ Superseding(d) /\ c # d => iLocal[c].holds \cap iLocal[d].holds = {}

\* What was released has its iteration, and what is superseded its successor.
ReleasedWith(r) == iteration[released[r]] = [of |-> r, status |-> "FROZEN"]
RowsSettled ==
  /\ \A r \in Revisions : iStatus[r] \in {"RELEASED", "SUPERSEDED"} =>
       released[r] \in Iterations /\ ReleasedWith(r)
  /\ \A d \in Inf!Superseded : successor[d] \in Inf!Documents

\* An issue, entered or about to be, is of what was released.
Issuable(r, n) == iStatus[r] \in {"RELEASED", "SUPERSEDED"} /\ n \in {released[r], "none"}
IssuesSettled ==
  /\ \A c \in InformationCallers : iLocal[c].does = "issue" => Issuable(iLocal[c].revision, iLocal[c].iteration)
  /\ \A i \in issues : Issuable(i[1], i[2])

Informed == InformationTyped /\ RowsHeld /\ RowsSettled /\ IssuesSettled /\ Inf!ChainsEndInForce

\* Nothing exists yet.
LEMMA InformedInit == Inf!Init => Informed
<1> SUFFICES ASSUME Inf!Init PROVE Informed
  OBVIOUS
<1>1. Inf!Superseded = {}
  BY DEF Inf!Init, Inf!Superseded
<1>2. InformationTyped
  BY DEF Inf!Init, InformationTyped, Inf!Idle
<1>3. \A c \in InformationCallers : ~Superseding(c) /\ iLocal[c].does # "issue"
  BY DEF Inf!Init, Superseding, Inf!Idle
<1>4. RowsHeld /\ IssuesSettled
  BY <1>3 DEF Inf!Init, RowsHeld, IssuesSettled
<1>5. RowsSettled
  BY <1>1 DEF Inf!Init, RowsSettled, Inf!Documents
<1>6. Inf!ChainsEndInForce
  <2>1. \A S \in (SUBSET Inf!Superseded) \ {{}} : \E d \in S : successor[d] \notin S
    BY <1>1
  <2>2. \A d \in Inf!Superseded : successor[d] \in Inf!Superseded \/ iStatus[successor[d]] = "RELEASED"
    BY <1>1
  <2> QED
    BY <2>1, <2>2 DEF Inf!ChainsEndInForce
<1> QED
  BY <1>2, <1>4, <1>5, <1>6 DEF Informed

\* A row is locked by the supersession that holds it.
LEMMA LockedRows ==
  ASSUME InformationTyped, NEW d
  PROVE  Inf!Locked(d) <=> \E c \in InformationCallers : Superseding(c) /\ d \in iLocal[c].holds
<1>1. \A c \in InformationCallers : "holds" \in DOMAIN iLocal[c] <=> Superseding(c)
  BY DEF InformationTyped, Supersession, Superseding, Inf!Idle
<1> QED
  BY <1>1 DEF Inf!Locked

\* Chains are those of the rows superseded.
LEMMA ChainsSame ==
  ASSUME Inf!ChainsEndInForce, Inf!Superseded' = Inf!Superseded,
         \A d \in Inf!Superseded : successor'[d] = successor[d],
         \A d \in Inf!Documents : iStatus[d] = "RELEASED" => iStatus'[d] = "RELEASED",
         \A d \in Inf!Superseded : successor[d] \in Inf!Documents
  PROVE  Inf!ChainsEndInForce'
BY DEF Inf!ChainsEndInForce

\* A step that leaves what is released or superseded as it is, and every caller but one.
LEMMA DraftStep ==
  ASSUME Informed, InformationTyped',
         UNCHANGED <<successor, issues>>,
         \A d \in Inf!Documents : iStatus[d] \in {"RELEASED", "SUPERSEDED"} => iStatus'[d] = iStatus[d],
         \A d \in Inf!Documents : iStatus'[d] = "SUPERSEDED" => iStatus[d] = "SUPERSEDED",
         \A r \in Revisions : iStatus[r] \in {"RELEASED", "SUPERSEDED"} => released'[r] = released[r],
         \A n \in Iterations : iteration[n].status = "FROZEN" => iteration'[n] = iteration[n],
         \A r \in Revisions : iStatus'[r] = "RELEASED" /\ iStatus[r] # "RELEASED" =>
           released'[r] \in Iterations /\ ReleasedWith(r)',
         RowsHeld',
         \A c \in InformationCallers : iLocal'[c].does = "issue" =>
           iLocal'[c] = iLocal[c] \/ Issuable(iLocal'[c].revision, iLocal'[c].iteration)
  PROVE  Informed'
<1>1. Inf!Superseded' = Inf!Superseded /\ \A d \in Inf!Superseded : successor[d] \in Inf!Documents
  BY DEF Inf!Superseded, Informed, RowsSettled
<1>2. Inf!ChainsEndInForce'
  BY <1>1, ChainsSame DEF Informed
<1>3. RowsSettled'
  <2>1. ASSUME NEW r \in Revisions, iStatus'[r] \in {"RELEASED", "SUPERSEDED"}
        PROVE  released'[r] \in Iterations /\ ReleasedWith(r)'
    <3>1. CASE iStatus[r] \in {"RELEASED", "SUPERSEDED"}
      BY <3>1 DEF Informed, RowsSettled, ReleasedWith, Inf!Documents
    <3>2. CASE iStatus[r] \notin {"RELEASED", "SUPERSEDED"}
      BY <2>1, <3>2 DEF Inf!Documents
    <3> QED
      BY <3>1, <3>2
  <2> QED
    BY <1>1, <2>1 DEF RowsSettled
<1>4. \A n : \A r \in Revisions : Issuable(r, n) => Issuable(r, n)'
  BY DEF Issuable, Inf!Documents
<1>5. IssuesSettled'
  <2>1. ASSUME NEW c \in InformationCallers, iLocal'[c].does = "issue"
        PROVE  Issuable(iLocal[c].revision, iLocal[c].iteration)'
    <3>1. iLocal'[c].revision \in Revisions
      BY <2>1 DEF InformationTyped, Supersession, Inf!Idle
    <3>2. CASE iLocal'[c] = iLocal[c]
      BY <1>4, <2>1, <3>1, <3>2 DEF Informed, IssuesSettled, Issuable
    <3>3. CASE Issuable(iLocal'[c].revision, iLocal'[c].iteration)
      BY <1>4, <3>1, <3>3 DEF Issuable
    <3> QED
      BY <2>1, <3>2, <3>3
  <2>2. \A i \in issues : i[1] \in Revisions
    BY DEF Informed, InformationTyped
  <2> QED
    BY <1>4, <2>1, <2>2 DEF Informed, IssuesSettled
<1> QED
  BY <1>2, <1>3, <1>5 DEF Informed

\* A caller that holds no row, or fewer than before, disturbs no one.
LEMMA HeldStep ==
  ASSUME Informed, NEW c \in InformationCallers, InformationTyped',
         \A d \in Inf!Documents : iStatus[d] = "RELEASED" => iStatus'[d] = "RELEASED",
         \A d \in InformationCallers \ {c} : iLocal'[d] = iLocal[d], ~Superseding(c)'
  PROVE  RowsHeld'
<1>1. \A d \in InformationCallers : Superseding(d)' => d # c /\ Superseding(d) /\ iLocal'[d] = iLocal[d]
  BY DEF Superseding
<1>2. \A d \in InformationCallers : Superseding(d) => iLocal[d].from \in Inf!Documents /\ iLocal[d].to \in Inf!Documents
  BY DEF Informed, InformationTyped, Superseding, Supersession, Inf!Idle
<1>3. ASSUME NEW d \in InformationCallers, Superseding(d)'
      PROVE  /\ iLocal'[d].from # iLocal'[d].to /\ Inf!SameKind(iLocal'[d].from, iLocal'[d].to)
             /\ iLocal'[d].from \in iLocal'[d].holds
             /\ iLocal'[d].does = "supersede" =>
                  /\ iLocal'[d].to \in iLocal'[d].holds
                  /\ iStatus'[iLocal'[d].from] = "RELEASED" /\ iStatus'[iLocal'[d].to] = "RELEASED"
  BY <1>1, <1>2, <1>3 DEF Informed, RowsHeld
<1>4. \A d, e \in InformationCallers : Superseding(d)' /\ Superseding(e)' /\ d # e =>
                                        iLocal'[d].holds \cap iLocal'[e].holds = {}
  BY <1>1 DEF Informed, RowsHeld
<1> QED
  BY <1>3, <1>4 DEF RowsHeld, Inf!SameKind

\* Every step keeps chains and issues.
LEMMA InformedKept ==
  ASSUME DistinctDocuments, Informed, [Inf!Next]_(Inf!vars)
  PROVE  Informed'
<1>0. InformationTyped /\ RowsHeld
  BY DEF Informed
<1>1. ASSUME NEW d \in Inf!Documents, Inf!Create(d) PROVE Informed'
  <2>1. /\ iStatus[d] = "NONE" /\ iStatus' = [iStatus EXCEPT ![d] = "DRAFT"]
        /\ UNCHANGED <<successor, iteration, released, issues, iLocal>>
    BY <1>1 DEF Inf!Create
  <2>2. InformationTyped'
    BY <1>0, <2>1 DEF InformationTyped
  <2>3. \A e \in Inf!Documents : iStatus[e] # "NONE" => iStatus'[e] = iStatus[e]
    BY <1>0, <2>1 DEF InformationTyped
  <2>4. iStatus'[d] = "DRAFT"
    BY <1>0, <2>1 DEF InformationTyped
  <2>5. RowsHeld'
    BY <1>0, <2>1, <2>3 DEF RowsHeld, Superseding, InformationTyped, Supersession
  <2> QED
    BY <2>1, <2>2, <2>3, <2>4, <2>5, DraftStep DEF Inf!Documents
<1>2. ASSUME NEW n \in Iterations, Inf!FreezeIteration(n) \/ Inf!CreateRepresentation(n) PROVE Informed'
  <2>1. /\ UNCHANGED <<iStatus, successor, released, issues, iLocal>>
        /\ \/ iteration' = iteration
           \/ /\ iteration[n].status = "WORKING"
              /\ iteration' = [iteration EXCEPT ![n].status = "FROZEN"]
    BY <1>2 DEF Inf!FreezeIteration, Inf!CreateRepresentation
  <2>2. InformationTyped'
    BY <1>0, <2>1 DEF InformationTyped
  <2>3. \A m \in Iterations : iteration[m].status = "FROZEN" => iteration'[m] = iteration[m]
    BY <1>0, <2>1 DEF InformationTyped
  <2>4. RowsHeld'
    BY <1>0, <2>1 DEF RowsHeld, Superseding
  <2> QED
    BY <2>1, <2>2, <2>3, <2>4, DraftStep
<1>3. ASSUME NEW r \in Revisions, NEW n \in Iterations, Inf!ReleaseRevision(r, n) PROVE Informed'
  <2>1. /\ iStatus[r] = "DRAFT" /\ iStatus' = [iStatus EXCEPT ![r] = "RELEASED"]
        /\ released' = [released EXCEPT ![r] = n]
        /\ iteration[n].of = r /\ iteration[n].status = "FROZEN"
        /\ UNCHANGED <<successor, iteration, issues, iLocal>> /\ r \in Inf!Documents
    BY <1>3 DEF Inf!ReleaseRevision, Inf!Releasable, Inf!Documents
  <2>2. InformationTyped'
    BY <1>0, <2>1 DEF InformationTyped
  <2>3. /\ \A e \in Inf!Documents : e # r => iStatus'[e] = iStatus[e]
        /\ \A e \in Revisions : e # r => released'[e] = released[e]
        /\ iStatus'[r] = "RELEASED" /\ released'[r] = n
    BY <1>0, <2>1 DEF InformationTyped
  <2>4. ReleasedWith(r)'
    BY <1>0, <2>1, <2>3 DEF ReleasedWith, InformationTyped
  <2>5. RowsHeld'
    BY <1>0, <2>1, <2>3 DEF RowsHeld, Superseding, InformationTyped, Supersession
  <2> QED
    BY <2>1, <2>2, <2>3, <2>4, <2>5, DraftStep DEF Inf!Documents
<1>4. ASSUME NEW b \in Baselines, Inf!EstablishBaseline(b) PROVE Informed'
  <2>1. /\ iStatus[b] = "DRAFT" /\ iStatus' = [iStatus EXCEPT ![b] = "RELEASED"]
        /\ UNCHANGED <<successor, iteration, released, issues, iLocal>>
        /\ b \in Inf!Documents /\ b \notin Revisions
    BY <1>4 DEF Inf!EstablishBaseline, Inf!Documents, DistinctDocuments
  <2>2. InformationTyped'
    BY <1>0, <2>1 DEF InformationTyped
  <2>3. /\ \A e \in Inf!Documents : e # b => iStatus'[e] = iStatus[e]
        /\ iStatus'[b] = "RELEASED"
    BY <1>0, <2>1 DEF InformationTyped
  <2>4. RowsHeld'
    BY <1>0, <2>1, <2>3 DEF RowsHeld, Superseding, InformationTyped, Supersession
  <2> QED
    BY <2>1, <2>2, <2>3, <2>4, DraftStep DEF Inf!Documents
<1>5. ASSUME NEW c \in InformationCallers,
             \/ \E r \in Revisions, n \in Iterations : Inf!ReadForIteration(c, n, r)
             \/ \E b \in Baselines : Inf!ReadForItem(c, b)
             \/ Inf!CreateIteration(c) \/ Inf!AddBaselineItem(c) \/ Inf!Rollback(c)
      PROVE  Informed'
  <2>1. /\ UNCHANGED <<iStatus, successor, released, issues>>
        /\ \A d \in InformationCallers \ {c} : iLocal'[d] = iLocal[d]
        /\ ~Superseding(c)' /\ iLocal'[c].does # "issue"
    BY <1>0, <1>5
    DEF Inf!ReadForIteration, Inf!ReadForItem, Inf!CreateIteration, Inf!AddBaselineItem,
        Inf!Rollback, Inf!Begins,
                Inf!Ends, Superseding, InformationTyped, Inf!Idle
  <2>2. InformationTyped' /\ \A m \in Iterations : iteration[m].status = "FROZEN" => iteration'[m] = iteration[m]
    <3>1. CASE Inf!CreateIteration(c)
      <4>1. PICK n \in Iterations, r \in Revisions :
              /\ iteration[n].status = "NONE"
              /\ iteration' = [iteration EXCEPT ![n] = [of |-> r, status |-> "WORKING"]]
        <5>1. iLocal[c].iteration \in Iterations /\ iLocal[c].revision \in Revisions
          BY <1>0, <3>1 DEF Inf!CreateIteration, InformationTyped, Supersession, Inf!Idle
        <5> QED
          BY <3>1, <5>1 DEF Inf!CreateIteration
      <4> QED
        BY <1>0, <2>1, <3>1, <4>1 DEF Inf!CreateIteration, Inf!Ends, InformationTyped
    <3>2. CASE ~Inf!CreateIteration(c)
      BY <1>0, <1>5, <2>1, <3>2
      DEF Inf!ReadForIteration, Inf!ReadForItem, Inf!AddBaselineItem, Inf!Rollback, Inf!Begins,
                Inf!Ends, InformationTyped
    <3> QED
      BY <3>1, <3>2
  <2>3. RowsHeld'
    BY <2>1, <2>2, HeldStep
  <2> QED
    BY <2>1, <2>2, <2>3, DraftStep
<1>6. ASSUME NEW c \in InformationCallers, NEW r \in Revisions, NEW n \in Iterations \cup {"none"},
             Inf!ReadForIssue(c, r, n)
      PROVE  Informed'
  <2>1. /\ UNCHANGED <<iStatus, successor, iteration, released, issues>>
        /\ iLocal' = [iLocal EXCEPT ![c] = [does |-> "issue", revision |-> r, iteration |-> n]]
        /\ Issuable(r, n)
    BY <1>6 DEF Inf!ReadForIssue, Inf!Begins, Issuable
  <2>2. InformationTyped' /\ iLocal'[c] = [does |-> "issue", revision |-> r, iteration |-> n]
    BY <1>0, <2>1 DEF InformationTyped
  <2>3. \A d \in InformationCallers \ {c} : iLocal'[d] = iLocal[d]
    BY <1>0, <2>1 DEF InformationTyped
  <2>4. RowsHeld'
    BY <2>1, <2>2, <2>3, HeldStep DEF Superseding
  <2> QED
    BY <2>1, <2>2, <2>3, <2>4, DraftStep
<1>7. ASSUME NEW c \in InformationCallers, Inf!IssueInformation(c) PROVE Informed'
  <2>1. PICK r \in Revisions, n \in Iterations \cup {"none"} :
          /\ Issuable(r, n) /\ issues' = issues \cup {<<r, n>>}
    BY <1>0, <1>7
    DEF Inf!IssueInformation, InformationTyped, Supersession, Inf!Idle, Informed, IssuesSettled
  <2>2. /\ UNCHANGED <<iStatus, successor, iteration, released>>
        /\ iLocal' = [iLocal EXCEPT ![c] = Inf!Idle]
    BY <1>7 DEF Inf!IssueInformation, Inf!Ends
  <2>3. InformationTyped' /\ \A d \in InformationCallers \ {c} : iLocal'[d] = iLocal[d]
    BY <1>0, <2>1, <2>2 DEF InformationTyped
  <2>4. iLocal'[c] = Inf!Idle
    BY <1>0, <2>2 DEF InformationTyped
  <2>5. RowsHeld'
    BY <2>2, <2>3, <2>4, HeldStep DEF Superseding, Inf!Idle
  <2>6. IssuesSettled'
    BY <2>1, <2>2, <2>3, <2>4 DEF Informed, IssuesSettled, Issuable, Inf!Idle
  <2>7. RowsSettled' /\ Inf!ChainsEndInForce'
    BY <2>2 DEF Informed, RowsSettled, ReleasedWith, Inf!ChainsEndInForce, Inf!Superseded
  <2> QED
    BY <2>3, <2>5, <2>6, <2>7 DEF Informed
<1>8. ASSUME NEW c \in InformationCallers, NEW d \in Inf!Documents, NEW e \in Inf!Documents, Inf!LockSuperseded(c, d, e)
      PROVE  Informed'
  <2>1. /\ UNCHANGED <<iStatus, successor, iteration, released, issues>>
        /\ iLocal' = [iLocal EXCEPT ![c] = [does |-> "lock", from |-> d, to |-> e, holds |-> {d}]]
        /\ d # e /\ Inf!SameKind(d, e)
        /\ \A a \in InformationCallers : Superseding(a) => d \notin iLocal[a].holds
    BY <1>0, <1>8, LockedRows DEF Inf!LockSuperseded, Inf!Begins
  <2>2. InformationTyped' /\ iLocal'[c] = [does |-> "lock", from |-> d, to |-> e, holds |-> {d}]
    BY <1>0, <2>1 DEF InformationTyped, Supersession
  <2>3. \A a \in InformationCallers \ {c} : iLocal'[a] = iLocal[a]
    BY <1>0, <2>1 DEF InformationTyped
  <2>4. RowsHeld'
    BY <1>0, <2>1, <2>2, <2>3 DEF RowsHeld, Superseding
  <2> QED
    BY <2>1, <2>2, <2>3, <2>4, DraftStep
<1>9. ASSUME NEW c \in InformationCallers, Inf!LockReplacement(c) PROVE Informed'
  <2>1. PICK d \in Inf!Documents, e \in Inf!Documents :
          /\ iLocal[c].does = "lock" /\ d = iLocal[c].from /\ e = iLocal[c].to
    BY <1>0, <1>9 DEF Inf!LockReplacement, InformationTyped, Supersession, Inf!Idle
  <2>2. /\ UNCHANGED <<iStatus, successor, iteration, released, issues>>
        /\ iLocal' = [iLocal EXCEPT ![c] = [does |-> "supersede", from |-> d, to |-> e, holds |-> {d, e}]]
        /\ iStatus[d] = "RELEASED" /\ iStatus[e] = "RELEASED"
        /\ \A a \in InformationCallers : Superseding(a) => e \notin iLocal[a].holds
    BY <1>0, <1>9, <2>1, LockedRows DEF Inf!LockReplacement
  <2>3. /\ InformationTyped'
        /\ iLocal'[c] = [does |-> "supersede", from |-> d, to |-> e, holds |-> {d, e}]
    BY <1>0, <2>2 DEF InformationTyped, Supersession
  <2>4. \A a \in InformationCallers \ {c} : iLocal'[a] = iLocal[a]
    BY <1>0, <2>2 DEF InformationTyped
  <2>5. d # e /\ Inf!SameKind(d, e) /\ d \in iLocal[c].holds /\ Superseding(c)
    BY <1>0, <2>1 DEF RowsHeld, Superseding
  <2>6. RowsHeld'
    BY <1>0, <2>2, <2>3, <2>4, <2>5 DEF RowsHeld, Superseding
  <2> QED
    BY <2>2, <2>3, <2>4, <2>6, DraftStep
<1>10. ASSUME NEW c \in InformationCallers, Inf!Supersede(c) PROVE Informed'
  <2>1. PICK d \in Inf!Documents, e \in Inf!Documents :
          /\ iLocal[c].does = "supersede" /\ d = iLocal[c].from /\ e = iLocal[c].to
    BY <1>0, <1>10 DEF Inf!Supersede, InformationTyped, Supersession, Inf!Idle
  <2>2. /\ UNCHANGED <<iteration, released, issues>>
        /\ iStatus' = [iStatus EXCEPT ![d] = "SUPERSEDED"]
        /\ successor' = [successor EXCEPT ![d] = e]
        /\ iLocal' = [iLocal EXCEPT ![c] = Inf!Idle]
    BY <1>10, <2>1 DEF Inf!Supersede, Inf!Ends
  <2>3. d # e /\ iStatus[d] = "RELEASED" /\ iStatus[e] = "RELEASED" /\ d \in iLocal[c].holds
    BY <1>0, <2>1 DEF RowsHeld, Superseding
  <2>4. InformationTyped'
    BY <1>0, <2>2 DEF InformationTyped
  <2>5. /\ iStatus'[d] = "SUPERSEDED" /\ successor'[d] = e /\ iLocal'[c] = Inf!Idle
        /\ \A a \in Inf!Documents : a # d => iStatus'[a] = iStatus[a] /\ successor'[a] = successor[a]
        /\ \A a \in InformationCallers \ {c} : iLocal'[a] = iLocal[a]
    BY <1>0, <2>2 DEF InformationTyped
  <2>6. Inf!Superseded' = Inf!Superseded \cup {d} /\ e \notin Inf!Superseded' /\ Inf!Superseded \subseteq Inf!Documents
    BY <2>3, <2>5 DEF Inf!Superseded
  <2>7. d \notin Inf!Superseded
    BY <2>3 DEF Inf!Superseded
  <2>8. Inf!ChainsEndInForce'
    <3>1. ASSUME NEW S \in (SUBSET Inf!Superseded') \ {{}} PROVE \E a \in S : successor'[a] \notin S
      <4>1. CASE d \in S
        BY <2>5, <2>6, <4>1
      <4>2. CASE d \notin S
        <5>1. S \in (SUBSET Inf!Superseded) \ {{}}
          BY <2>6, <4>2
        <5>2. PICK a \in S : successor[a] \notin S
          BY <5>1 DEF Informed, Inf!ChainsEndInForce
        <5> QED
          BY <2>5, <2>6, <4>2, <5>1, <5>2
      <4> QED
        BY <4>1, <4>2
    <3>2. ASSUME NEW a \in Inf!Superseded'
          PROVE  successor'[a] \in Inf!Superseded' \/ iStatus'[successor'[a]] = "RELEASED"
      <4>1. CASE a = d
        BY <2>3, <2>5, <4>1
      <4>2. CASE a # d
        <5>1. a \in Inf!Superseded /\ successor'[a] = successor[a] /\ successor[a] \in Inf!Documents
          BY <2>5, <2>6, <4>2 DEF Informed, RowsSettled
        <5> QED
          BY <2>5, <2>6, <5>1 DEF Informed, Inf!ChainsEndInForce
      <4> QED
        BY <4>1, <4>2
    <3> QED
      BY <3>1, <3>2 DEF Inf!ChainsEndInForce
  <2>9. RowsHeld'
    <3>1. \A a \in InformationCallers \ {c} : Superseding(a) => d \notin iLocal[a].holds
      BY <1>0, <2>1, <2>3 DEF RowsHeld, Superseding
    <3>2. \A a \in InformationCallers : Superseding(a)' => a # c /\ Superseding(a) /\ iLocal'[a] = iLocal[a]
      BY <2>5 DEF Superseding, Inf!Idle
    <3>3. ASSUME NEW a \in InformationCallers, Superseding(a)'
          PROVE  /\ iLocal'[a].from # iLocal'[a].to /\ Inf!SameKind(iLocal'[a].from, iLocal'[a].to)
                 /\ iLocal'[a].from \in iLocal'[a].holds
                 /\ iLocal'[a].does = "supersede" =>
                      /\ iLocal'[a].to \in iLocal'[a].holds
                      /\ iStatus'[iLocal'[a].from] = "RELEASED" /\ iStatus'[iLocal'[a].to] = "RELEASED"
      <4>1. iLocal[a].from \in Inf!Documents /\ iLocal[a].to \in Inf!Documents
        BY <1>0, <3>2, <3>3 DEF InformationTyped, Superseding, Supersession, Inf!Idle
      <4> QED
        BY <1>0, <2>5, <3>1, <3>2, <3>3, <4>1 DEF RowsHeld
    <3>4. \A a, b \in InformationCallers : Superseding(a)' /\ Superseding(b)' /\ a # b =>
                                            iLocal'[a].holds \cap iLocal'[b].holds = {}
      BY <1>0, <3>2 DEF RowsHeld
    <3> QED
      BY <3>3, <3>4 DEF RowsHeld, Inf!SameKind
  <2>10. RowsSettled'
    BY <2>2, <2>3, <2>5, <2>6 DEF Informed, RowsSettled, ReleasedWith, Inf!Documents
  <2>11. IssuesSettled'
    <3>1. \A n : \A r \in Revisions : Issuable(r, n) => Issuable(r, n)'
      BY <2>2, <2>5 DEF Issuable, Inf!Documents
    <3>2. \A a \in InformationCallers : iLocal'[a].does = "issue" => iLocal'[a] = iLocal[a] /\ iLocal[a].revision \in Revisions
      BY <1>0, <2>5 DEF InformationTyped, Supersession, Inf!Idle
    <3>3. \A i \in issues : i[1] \in Revisions
      BY <1>0 DEF InformationTyped
    <3> QED
      BY <2>2, <3>1, <3>2, <3>3 DEF Informed, IssuesSettled, Issuable
  <2> QED
    BY <2>4, <2>8, <2>9, <2>10, <2>11 DEF Informed
<1>11. CASE UNCHANGED Inf!vars
  BY <1>11 DEF Inf!vars, Informed, InformationTyped, RowsHeld, Superseding, RowsSettled,
     ReleasedWith,
               IssuesSettled, Issuable, Inf!ChainsEndInForce, Inf!Superseded
<1> QED
  BY <1>1, <1>2, <1>3, <1>4, <1>5, <1>6, <1>7, <1>8, <1>9, <1>10, <1>11 DEF Inf!Next

\* What was issued is of the iteration its revision was released with.
LEMMA InformedSound ==
  ASSUME DistinctDocuments
  PROVE  Informed => Inf!ChainsEndInForce /\ Inf!IssuedAsReleased
<1> SUFFICES ASSUME Informed, NEW i \in issues
             PROVE  /\ iStatus[i[1]] = "RELEASED" \/ (iStatus[i[1]] = "SUPERSEDED" /\ successor[i[1]] # "none")
                    /\ iteration[released[i[1]]] = [of |-> i[1], status |-> "FROZEN"]
                    /\ i[2] \in {released[i[1]], "none"}
  BY DEF Informed, Inf!IssuedAsReleased
<1>1. i[1] \in Revisions /\ i[1] \in Inf!Documents /\ Issuable(i[1], i[2])
  BY DEF Informed, InformationTyped, IssuesSettled, Inf!Documents
<1>2. ReleasedWith(i[1]) /\ (i[1] \in Inf!Superseded => successor[i[1]] # "none")
  BY <1>1 DEF Informed, RowsSettled, Issuable, DistinctDocuments
<1> QED
  BY <1>1, <1>2 DEF Issuable, ReleasedWith, Inf!Superseded

-----------------------------------------------------------------------------
\* Deliverables.

\* Items, Decisions, and what a caller has read of them.
DecisionRows == {Del!Undecided} \cup [about : Versions, outcome : {"APPROVED", "REJECTED"}]
DeliverablesTyped ==
  /\ dStatus \in [Items -> Del!Statuses]
  /\ output \in [Items -> Versions \cup {"none"}]
  /\ decision \in [Decisions -> DecisionRows]
  /\ approvals \in [Items -> Seq(Decisions)] /\ sent \in [Items -> Seq(Versions)]
  /\ dLocal \in [DeliverableCallers -> {Del!Idle} \cup [for : {"review"}, item : Items]
       \cup [for : {"approve"}, item : Items, subject : Versions, by : Decisions]
       \cup [for : {"issue"}, item : Items, subject : Versions]]

\* The k-th transmittal of an item follows its k-th approval, about what was sent.
IssuesApproved(i) ==
  /\ dStatus[i] = "APPROVED" => Len(approvals[i]) = Len(sent[i]) + 1
  /\ dStatus[i] # "APPROVED" => Len(approvals[i]) = Len(sent[i])
  /\ \A k \in 1..Len(approvals[i]) : decision[approvals[i][k]].outcome = "APPROVED"
  /\ \A k \in 1..Len(sent[i]) : decision[approvals[i][k]].about = sent[i][k]
  /\ dStatus[i] = "APPROVED" => decision[approvals[i][Len(approvals[i])]].about = output[i]
  /\ dStatus[i] \in {"ISSUED", "ACCEPTED", "CLOSED"} => output[i] = sent[i][Len(sent[i])]

\* No Decision approves twice.
ApprovedOnce ==
  \A i, j \in Items : \A k \in 1..Len(approvals[i]), l \in 1..Len(approvals[j]) :
    approvals[i][k] = approvals[j][l] => i = j /\ k = l

Delivered == DeliverablesTyped /\ (\A i \in Items : IssuesApproved(i)) /\ ApprovedOnce

\* The members of the two sequences of an item.
LEMMA Lengths ==
  ASSUME DeliverablesTyped, NEW i \in Items
  PROVE  /\ approvals[i] \in Seq(Decisions) /\ sent[i] \in Seq(Versions)
         /\ Len(approvals[i]) \in Nat /\ Len(sent[i]) \in Nat
         /\ \A k \in 1..Len(approvals[i]) : approvals[i][k] \in Decisions
         /\ \A k \in 1..Len(sent[i]) : sent[i][k] \in Versions
<1>1. approvals[i] \in Seq(Decisions) /\ sent[i] \in Seq(Versions)
  BY DEF DeliverablesTyped
<1> QED
  BY <1>1

\* What is read is of an item.
LEMMA ReadItem ==
  ASSUME DeliverablesTyped, NEW c \in DeliverableCallers, dLocal[c].for # "nothing"
  PROVE  /\ dLocal[c].item \in Items
         /\ dLocal[c].for \in {"approve", "issue"} => dLocal[c].subject \in Versions
         /\ dLocal[c].for = "approve" => dLocal[c].by \in Decisions
BY DEF DeliverablesTyped, Del!Idle

\* Nothing is approved or sent.
LEMMA DeliveredInit == Del!Init => Delivered
<1> SUFFICES ASSUME Del!Init PROVE Delivered
  OBVIOUS
<1>1. DeliverablesTyped
  BY DEF Del!Init, DeliverablesTyped, Del!Statuses, DecisionRows
<1>2. \A i \in Items : approvals[i] = <<>> /\ sent[i] = <<>> /\ dStatus[i] = "PLANNED"
  BY DEF Del!Init
<1>3. ASSUME NEW i \in Items PROVE IssuesApproved(i)
  <2>1. approvals[i] = <<>> /\ sent[i] = <<>> /\ dStatus[i] = "PLANNED"
    BY <1>2
  <2>2. Len(approvals[i]) = 0 /\ Len(sent[i]) = 0
    BY <2>1
  <2> QED
    BY <2>1, <2>2 DEF IssuesApproved
<1>4. ApprovedOnce
  BY <1>2 DEF ApprovedOnce
<1> QED
  BY <1>1, <1>3, <1>4 DEF Delivered

\* An item moves, and neither its approvals nor its transmittals do.
LEMMA ItemMoved ==
  ASSUME Delivered, DeliverablesTyped', UNCHANGED <<decision, approvals, sent>>, NEW i \in Items,
         \A j \in Items \ {i} : dStatus'[j] = dStatus[j] /\ output'[j] = output[j],
         (dStatus'[i] # "APPROVED" /\ dStatus[i] # "APPROVED") \/ UNCHANGED <<dStatus, output>>,
         dStatus'[i] \in {"ISSUED", "ACCEPTED", "CLOSED"} =>
           dStatus[i] \in {"ISSUED", "ACCEPTED", "CLOSED"} /\ output'[i] = output[i]
  PROVE  Delivered'
<1>1. ASSUME NEW j \in Items PROVE IssuesApproved(j)'
  <2>1. IssuesApproved(j)
    BY DEF Delivered
  <2>2. CASE j = i
    BY <2>1, <2>2 DEF IssuesApproved
  <2>3. CASE j # i
    BY <2>1, <2>3 DEF IssuesApproved
  <2> QED
    BY <2>2, <2>3
<1>2. ApprovedOnce'
  BY DEF Delivered, ApprovedOnce
<1> QED
  BY <1>1, <1>2 DEF Delivered

\* Every step keeps what was issued approved.
LEMMA DeliveredKept ==
  ASSUME Delivered, [Del!Next]_(Del!vars)
  PROVE  Delivered'
<1>0. DeliverablesTyped
  BY DEF Delivered
<1>1. ASSUME NEW i \in Items,
             \/ Del!StartItem(i) \/ Del!SubmitForReview(i) \/ Del!CreateRework(i) \/ Del!Close(i)
             \/ \E v \in Versions : Del!BindOutput(i, v)
             \/ \E k \in 1..MaxIssues : Del!Accept(i, k)
      PROVE  Delivered'
  <2>1. UNCHANGED <<decision, approvals, sent, dLocal>>
    BY <1>1
    DEF Del!StartItem, Del!SubmitForReview, Del!CreateRework, Del!Close, Del!BindOutput,
        Del!Accept, Del!UnchangedIssues
  <2>2. CASE \E v \in Versions : Del!BindOutput(i, v)
    <3>1. PICK v \in Versions : /\ output' = [output EXCEPT ![i] = v] /\ dStatus' = dStatus
                                /\ dStatus[i] \in {"IN_PROGRESS", "REWORK"}
      BY <2>2 DEF Del!BindOutput
    <3>2. DeliverablesTyped' /\ \A j \in Items \ {i} : output'[j] = output[j]
      BY <1>0, <2>1, <3>1 DEF DeliverablesTyped
    <3> QED
      BY <2>1, <3>1, <3>2, ItemMoved
  <2>3. CASE ~\E v \in Versions : Del!BindOutput(i, v)
    <3>1. PICK st \in Del!Statuses : dStatus' = [dStatus EXCEPT ![i] = st] /\ output' = output
      BY <1>1, <2>3
      DEF Del!StartItem, Del!SubmitForReview, Del!CreateRework, Del!Close, Del!Accept,
          Del!Becomes, Del!Statuses
    <3>2. /\ dStatus[i] # "APPROVED" /\ st # "APPROVED"
          /\ st \in {"ISSUED", "ACCEPTED", "CLOSED"} => dStatus[i] \in {"ISSUED", "ACCEPTED", "CLOSED"}
      BY <1>0, <1>1, <2>3, <3>1
         DEF Del!StartItem, Del!SubmitForReview, Del!CreateRework, Del!Close, Del!Accept,
             Del!Becomes, DeliverablesTyped
    <3>3. DeliverablesTyped' /\ dStatus'[i] = st /\ \A j \in Items \ {i} : dStatus'[j] = dStatus[j]
      BY <1>0, <2>1, <3>1 DEF DeliverablesTyped
    <3> QED
      BY <2>1, <3>1, <3>2, <3>3, ItemMoved
  <2> QED
    BY <2>2, <2>3
<1>2. ASSUME NEW i \in Items, UNCHANGED <<dStatus, output, decision, approvals, sent>>,
             DeliverablesTyped'
      PROVE  Delivered'
  BY <1>2, ItemMoved
<1>3. ASSUME NEW c \in DeliverableCallers, NEW i \in Items,
             Del!ReadForReview(c, i) \/ Del!ReadForIssue(c, i) \/ (\E d \in Decisions : Del!ReadForApproval(c, i, d))
      PROVE  Delivered'
  <2>1. UNCHANGED <<dStatus, output, decision, approvals, sent>>
    BY <1>3 DEF Del!ReadForReview, Del!ReadForIssue, Del!ReadForApproval, Del!UnchangedIssues
  <2>2. dLocal' \in [DeliverableCallers -> {Del!Idle} \cup [for : {"review"}, item : Items]
          \cup [for : {"approve"}, item : Items, subject : Versions, by : Decisions]
          \cup [for : {"issue"}, item : Items, subject : Versions]]
    <3>1. CASE Del!ReadForReview(c, i)
      BY <1>0, <3>1 DEF Del!ReadForReview, DeliverablesTyped
    <3>2. CASE Del!ReadForIssue(c, i)
      BY <1>0, <3>2 DEF Del!ReadForIssue, DeliverablesTyped
    <3>3. ASSUME NEW d \in Decisions, Del!ReadForApproval(c, i, d)
          PROVE  dLocal' \in [DeliverableCallers -> {Del!Idle} \cup [for : {"review"}, item : Items]
                   \cup [for : {"approve"}, item : Items, subject : Versions, by : Decisions]
                   \cup [for : {"issue"}, item : Items, subject : Versions]]
      BY <1>0, <3>3 DEF Del!ReadForApproval, DeliverablesTyped
    <3> QED
      BY <1>3, <3>1, <3>2, <3>3
  <2> QED
    BY <1>0, <1>2, <2>1, <2>2 DEF DeliverablesTyped
<1>4. ASSUME NEW i \in Items,
             \/ Del!CreateAuthoringBinding(i)
             \/ \E k \in 1..MaxIssues, p \in Parties :
                  \/ \E required \in BOOLEAN : Del!AddRecipient(i, k, p, required)
                  \/ \E answer \in {"ACCEPTED", "REVISE"} : Del!RecordResponse(i, k, p, answer)
      PROVE  Delivered'
  <2>1. UNCHANGED <<dStatus, output, decision, approvals, sent, dLocal>>
    BY <1>4
    DEF Del!CreateAuthoringBinding, Del!AddRecipient, Del!RecordResponse, Del!UnchangedIssues
  <2> QED
    BY <1>0, <1>2, <2>1 DEF DeliverablesTyped
<1>5. ASSUME NEW c \in DeliverableCallers, Del!RecordReview(c) PROVE Delivered'
  <2>1. PICK i \in Items : i = dLocal[c].item
    BY <1>0, <1>5, ReadItem DEF Del!RecordReview
  <2>2. UNCHANGED <<dStatus, output, decision, approvals, sent>> /\ dLocal' = [dLocal EXCEPT ![c] = Del!Idle]
    BY <1>5 DEF Del!RecordReview, Del!UnchangedIssues
  <2> QED
    BY <1>0, <1>2, <2>1, <2>2 DEF DeliverablesTyped
<1>6. ASSUME NEW c \in DeliverableCallers, Del!Approve(c) PROVE Delivered'
  <2>1. PICK i \in Items, v \in Versions, d \in Decisions :
          i = dLocal[c].item /\ v = dLocal[c].subject /\ d = dLocal[c].by
    BY <1>0, <1>6, ReadItem DEF Del!Approve
  <2>2. UNCHANGED <<output, decision, sent>> /\ dLocal' = [dLocal EXCEPT ![c] = Del!Idle]
    BY <1>6 DEF Del!Approve, Del!UnchangedIssues
  <2>3. CASE UNCHANGED <<dStatus, approvals>>
    BY <1>0, <1>2, <2>1, <2>2, <2>3 DEF DeliverablesTyped
  <2>4. CASE ~UNCHANGED <<dStatus, approvals>>
    <3>1. /\ dStatus[i] = "IN_REVIEW" /\ output[i] = v
          /\ decision[d].about = v /\ decision[d].outcome = "APPROVED" /\ d \notin Del!UsedDecisions
          /\ dStatus' = [dStatus EXCEPT ![i] = "APPROVED"]
          /\ approvals' = [approvals EXCEPT ![i] = Append(@, d)]
      BY <1>6, <2>1, <2>4 DEF Del!Approve, Del!Approvable, Del!Becomes
    <3>2. DeliverablesTyped'
      BY <1>0, <2>2, <3>1 DEF DeliverablesTyped, Del!Statuses
    <3>3. /\ dStatus'[i] = "APPROVED" /\ approvals'[i] = Append(approvals[i], d)
          /\ \A j \in Items \ {i} : dStatus'[j] = dStatus[j] /\ approvals'[j] = approvals[j]
          /\ approvals[i] \in Seq(Decisions) /\ sent[i] \in Seq(Versions)
      BY <1>0, <3>1, Lengths DEF DeliverablesTyped
    <3>4. /\ Len(approvals'[i]) = Len(approvals[i]) + 1 /\ Len(approvals[i]) \in Nat
          /\ approvals'[i][Len(approvals[i]) + 1] = d
          /\ \A k \in 1..Len(approvals[i]) : approvals'[i][k] = approvals[i][k]
      BY <3>3
    <3>5. Len(approvals[i]) = Len(sent[i]) /\ IssuesApproved(i) /\ Len(sent[i]) \in Nat
      BY <1>0, <3>1, Lengths DEF Delivered, IssuesApproved
    <3>6. IssuesApproved(i)'
      BY <2>2, <3>1, <3>3, <3>4, <3>5 DEF IssuesApproved
    <3>7. \A j \in Items \ {i} : IssuesApproved(j)'
      BY <2>2, <3>3 DEF Delivered, IssuesApproved
    <3>8. \A j \in Items : \A k \in 1..Len(approvals[j]) : approvals[j][k] # d
      BY <3>1 DEF Del!UsedDecisions
    <3>9. ApprovedOnce'
      <4> SUFFICES ASSUME NEW j \in Items, NEW m \in Items, NEW k \in 1..Len(approvals'[j]),
                          NEW l \in 1..Len(approvals'[m]), approvals'[j][k] = approvals'[m][l]
                   PROVE  j = m /\ k = l
        BY DEF ApprovedOnce
      <4>0. ASSUME NEW j1 \in Items, NEW k1 \in 1..Len(approvals'[j1])
            PROVE  \/ k1 \in 1..Len(approvals[j1]) /\ approvals'[j1][k1] = approvals[j1][k1]
                   \/ j1 = i /\ k1 = Len(approvals[i]) + 1 /\ approvals'[j1][k1] = d
        <5>1. CASE j1 = i /\ k1 = Len(approvals[i]) + 1
          BY <3>4, <5>1
        <5>2. CASE j1 = i /\ k1 # Len(approvals[i]) + 1
          <6>1. k1 \in 1..Len(approvals[i])
            BY <3>4, <5>2
          <6> QED
            BY <3>4, <5>2, <6>1
        <5>3. CASE j1 # i
          BY <3>3, <5>3
        <5> QED
          BY <5>1, <5>2, <5>3
      <4>1. \/ k \in 1..Len(approvals[j]) /\ approvals'[j][k] = approvals[j][k]
            \/ j = i /\ k = Len(approvals[i]) + 1 /\ approvals'[j][k] = d
        BY <4>0
      <4>2. \/ l \in 1..Len(approvals[m]) /\ approvals'[m][l] = approvals[m][l]
            \/ m = i /\ l = Len(approvals[i]) + 1 /\ approvals'[m][l] = d
        BY <4>0
      <4> QED
        BY <3>8, <4>1, <4>2 DEF Delivered, ApprovedOnce
    <3> QED
      BY <3>2, <3>6, <3>7, <3>9 DEF Delivered
  <2> QED
    BY <2>3, <2>4
<1>7. ASSUME NEW c \in DeliverableCallers, Del!Issue(c) PROVE Delivered'
  <2>1. PICK i \in Items, v \in Versions : i = dLocal[c].item /\ v = dLocal[c].subject
    BY <1>0, <1>7, ReadItem DEF Del!Issue
  <2>2. UNCHANGED <<output, decision, approvals>> /\ dLocal' = [dLocal EXCEPT ![c] = Del!Idle]
    BY <1>7 DEF Del!Issue
  <2>3. CASE UNCHANGED <<dStatus, sent>>
    BY <1>0, <1>2, <2>1, <2>2, <2>3 DEF DeliverablesTyped
  <2>4. CASE ~UNCHANGED <<dStatus, sent>>
    <3>1. /\ dStatus[i] = "APPROVED" /\ output[i] = v
          /\ dStatus' = [dStatus EXCEPT ![i] = "ISSUED"]
          /\ sent' = [sent EXCEPT ![i] = Append(@, v)]
      BY <1>7, <2>1, <2>4 DEF Del!Issue, Del!Issuable, Del!Becomes
    <3>2. DeliverablesTyped'
      BY <1>0, <2>2, <3>1 DEF DeliverablesTyped, Del!Statuses
    <3>3. /\ dStatus'[i] = "ISSUED" /\ sent'[i] = Append(sent[i], v)
          /\ \A j \in Items \ {i} : dStatus'[j] = dStatus[j] /\ sent'[j] = sent[j]
          /\ approvals[i] \in Seq(Decisions) /\ sent[i] \in Seq(Versions)
      BY <1>0, <3>1, Lengths DEF DeliverablesTyped
    <3>4. /\ Len(sent'[i]) = Len(sent[i]) + 1 /\ Len(sent[i]) \in Nat
          /\ sent'[i][Len(sent[i]) + 1] = v
          /\ \A k \in 1..Len(sent[i]) : sent'[i][k] = sent[i][k]
      BY <3>3
    <3>5. Len(approvals[i]) = Len(sent[i]) + 1 /\ IssuesApproved(i)
      BY <3>1, <3>3 DEF Delivered, IssuesApproved
    <3>6. IssuesApproved(i)'
      BY <2>2, <3>1, <3>3, <3>4, <3>5 DEF IssuesApproved
    <3>7. ASSUME NEW j \in Items \ {i} PROVE IssuesApproved(j)'
      <4>1. /\ IssuesApproved(j) /\ dStatus'[j] = dStatus[j] /\ sent'[j] = sent[j]
            /\ approvals'[j] = approvals[j] /\ output'[j] = output[j]
        BY <2>2, <3>3 DEF Delivered
      <4> QED
        BY <2>2, <4>1 DEF IssuesApproved
    <3>8. ApprovedOnce'
      BY <2>2 DEF Delivered, ApprovedOnce
    <3> QED
      BY <3>2, <3>6, <3>7, <3>8 DEF Delivered
  <2> QED
    BY <2>3, <2>4
<1>8. ASSUME NEW d \in Decisions, NEW v \in Versions, NEW o \in {"APPROVED", "REJECTED"},
             Del!Decide(d, v, o)
      PROVE  Delivered'
  <2>1. /\ decision[d] = Del!Undecided /\ decision' = [decision EXCEPT ![d] = [about |-> v, outcome |-> o]]
        /\ UNCHANGED <<dStatus, output, approvals, sent, dLocal>>
    BY <1>8 DEF Del!Decide, Del!UnchangedIssues
  <2>2. DeliverablesTyped' /\ \A e \in Decisions \ {d} : decision'[e] = decision[e]
    BY <1>0, <2>1 DEF DeliverablesTyped, DecisionRows
  <2>3. ASSUME NEW i \in Items PROVE IssuesApproved(i)'
    <3>1. /\ approvals[i] \in Seq(Decisions) /\ sent[i] \in Seq(Versions) /\ IssuesApproved(i)
          /\ Len(approvals[i]) \in Nat /\ Len(sent[i]) \in Nat
          /\ \A k \in 1..Len(approvals[i]) : approvals[i][k] \in Decisions
      BY <1>0, Lengths DEF Delivered
    <3>2. \A k \in 1..Len(approvals[i]) : approvals[i][k] \in Decisions /\ approvals[i][k] # d
      BY <2>1, <3>1 DEF IssuesApproved, Del!Undecided
    <3>3. \A k \in 1..Len(approvals[i]) : decision'[approvals[i][k]] = decision[approvals[i][k]]
      BY <2>2, <3>2
    <3>4. \A k \in 1..Len(sent[i]) : k \in 1..Len(approvals[i])
      BY <3>1 DEF IssuesApproved
    <3>5. dStatus[i] = "APPROVED" => Len(approvals[i]) \in 1..Len(approvals[i])
      BY <3>1 DEF IssuesApproved
    <3> QED
      BY <2>1, <3>1, <3>3, <3>4, <3>5 DEF IssuesApproved
  <2>4. ApprovedOnce'
    BY <2>1 DEF Delivered, ApprovedOnce
  <2> QED
    BY <2>2, <2>3, <2>4 DEF Delivered
<1>9. CASE UNCHANGED Del!vars
  BY <1>9 DEF Del!vars, Delivered, DeliverablesTyped, IssuesApproved, ApprovedOnce
<1> QED
  BY <1>1, <1>3, <1>4, <1>5, <1>6, <1>7, <1>8, <1>9 DEF Del!Next

\* Every transmittal carries what a Decision of its own approved.
LEMMA DeliveredSound == Delivered => Del!EachIssueApproved
<1> SUFFICES ASSUME Delivered PROVE Del!EachIssueApproved
  OBVIOUS
<1>1. ASSUME NEW i \in Items
      PROVE  /\ Len(approvals[i]) = Len(sent[i]) + (IF dStatus[i] = "APPROVED" THEN 1 ELSE 0)
             /\ \A k \in 1..Len(sent[i]) :
                  decision[approvals[i][k]] = [about |-> sent[i][k], outcome |-> "APPROVED"]
             /\ dStatus[i] = "APPROVED" => decision[approvals[i][Len(approvals[i])]].about = output[i]
             /\ dStatus[i] \in {"ISSUED", "ACCEPTED", "CLOSED"} => output[i] = sent[i][Len(sent[i])]
  <2>1. /\ approvals[i] \in Seq(Decisions) /\ sent[i] \in Seq(Versions) /\ IssuesApproved(i)
        /\ Len(approvals[i]) \in Nat /\ Len(sent[i]) \in Nat
        /\ \A k \in 1..Len(approvals[i]) : approvals[i][k] \in Decisions
    BY Lengths DEF Delivered
  <2>2. ASSUME NEW k \in 1..Len(sent[i])
        PROVE  decision[approvals[i][k]] = [about |-> sent[i][k], outcome |-> "APPROVED"]
    <3>1. k \in 1..Len(approvals[i]) /\ approvals[i][k] \in Decisions
      BY <2>1 DEF IssuesApproved
    <3>2. decision[approvals[i][k]].outcome = "APPROVED" /\ decision[approvals[i][k]].about = sent[i][k]
      BY <2>1, <3>1 DEF IssuesApproved
    <3> QED
      BY <3>1, <3>2 DEF Delivered, DeliverablesTyped, DecisionRows, Del!Undecided
  <2>3. Len(approvals[i]) = Len(sent[i]) + (IF dStatus[i] = "APPROVED" THEN 1 ELSE 0)
    <3>1. CASE dStatus[i] = "APPROVED"
      BY <2>1, <3>1 DEF IssuesApproved
    <3>2. CASE dStatus[i] # "APPROVED"
      <4>1. Len(approvals[i]) = Len(sent[i]) /\ Len(sent[i]) + 0 = Len(sent[i])
        BY <2>1, <3>2 DEF IssuesApproved
      <4> QED
        BY <4>1, <3>2
    <3> QED
      BY <3>1, <3>2
  <2> QED
    BY <2>1, <2>2, <2>3 DEF IssuesApproved
<1> QED
  BY <1>1 DEF Del!EachIssueApproved, Delivered, ApprovedOnce

-----------------------------------------------------------------------------
\* Publications.

\* Activities, attempts and results, and what a caller has read of them.
Unfinished == {"PENDING", "TRANSPORT_FAILED"} \cup Pub!InFlight
LoopTyped ==
  /\ activity \in [Activities -> {[status |-> "NONE"]}
       \cup [in : Transactions, subject : PublicationSubjects, status : Unfinished \cup Pub!Terminal]]
  /\ attempts \in [Activities -> Seq({"STARTED", "SENT"} \cup Pub!Ended)]
  /\ result \in [Activities -> Pub!Outcomes \cup {"none"}]
  /\ pLocal \in [PublicationCallers -> {Pub!Idle} \cup [for : {"activity"}, in : Transactions]
                   \cup [for : {"attempt"}, at : Activities, number : Nat]]

\* The last attempt of an activity, and the result, say what its status is.
LastSays(last, st) ==
  /\ last = "STARTED" => st = "SENDING"
  /\ last = "SENT" => st = "AWAITING_ACKNOWLEDGEMENT"
  /\ last = "DELIVERED" => st \in Pub!Terminal \cup {"ACKNOWLEDGED"}
  /\ last \in {"FAILED", "TIMED_OUT"} => st = "TRANSPORT_FAILED"
Loop(a) ==
  /\ \A i \in 1..(Len(attempts[a]) - 1) : attempts[a][i] \in {"FAILED", "TIMED_OUT"}
  /\ Len(attempts[a]) = 0 <=> activity[a].status = "PENDING"
  /\ Len(attempts[a]) > 0 => LastSays(attempts[a][Len(attempts[a])], activity[a].status)
  /\ result[a] # "none" <=> activity[a].status \in Pub!Terminal

\* What is not added has nothing.
Bare(a) == attempts[a] = <<>> /\ result[a] = "none"

OneUnfinished ==
  \A a, b \in Pub!Added :
    (a # b /\ activity[a].subject = activity[b].subject) => (result[a] # "none" \/ result[b] # "none")

Published ==
  /\ LoopTyped
  /\ \A c \in PublicationCallers : pLocal[c].for = "attempt" => pLocal[c].at \in Pub!Added
  /\ \A a \in Pub!Added : Loop(a)
  /\ \A a \in Activities \ Pub!Added : Bare(a)
  /\ OneUnfinished

\* Nothing is published yet.
LEMMA PublishedInit == Pub!Init => Published
<1> SUFFICES ASSUME Pub!Init PROVE Published
  OBVIOUS
<1>1. Pub!Added = {}
  BY DEF Pub!Init, Pub!Added
<1>2. LoopTyped
  BY DEF Pub!Init, LoopTyped, Pub!Idle
<1>3. /\ \A c \in PublicationCallers : pLocal[c].for # "attempt"
      /\ \A a \in Activities : Bare(a)
  BY DEF Pub!Init, Pub!Idle, Bare
<1> QED
  BY <1>1, <1>2, <1>3 DEF Published, OneUnfinished

\* The attempts of an activity.
LEMMA AttemptsKnown ==
  ASSUME LoopTyped, NEW a \in Activities
  PROVE  /\ attempts[a] \in Seq({"STARTED", "SENT"} \cup Pub!Ended) /\ Len(attempts[a]) \in Nat
         /\ \A i \in 1..Len(attempts[a]) : attempts[a][i] \in {"STARTED", "SENT"} \cup Pub!Ended
<1>1. attempts[a] \in Seq({"STARTED", "SENT"} \cup Pub!Ended)
  BY DEF LoopTyped
<1> QED
  BY <1>1

\* The status of an activity is one of those it may have.
LEMMA StatusTyped ==
  ASSUME LoopTyped, NEW a \in Pub!Added, NEW st \in Unfinished \cup Pub!Terminal,
         activity' = [activity EXCEPT ![a].status = st]
  PROVE  /\ activity' \in [Activities -> {[status |-> "NONE"]}
              \cup [in : Transactions, subject : PublicationSubjects, status : Unfinished \cup Pub!Terminal]]
         /\ activity'[a].status = st
<1>1. a \in Activities /\ activity[a] # [status |-> "NONE"]
  BY DEF Pub!Added
<1>2. activity[a] \in [in : Transactions, subject : PublicationSubjects, status : Unfinished \cup Pub!Terminal]
  BY <1>1 DEF LoopTyped
<1>3. /\ [activity[a] EXCEPT !.status = st]
           \in [in : Transactions, subject : PublicationSubjects, status : Unfinished \cup Pub!Terminal]
      /\ [activity[a] EXCEPT !.status = st].status = st
  BY <1>2
<1>4. activity' = [activity EXCEPT ![a] = [activity[a] EXCEPT !.status = st]]
  OBVIOUS
<1> QED
  BY <1>1, <1>3, <1>4 DEF LoopTyped

\* One activity moves on, and no result is withdrawn.
LEMMA ActivityMoved ==
  ASSUME Published, LoopTyped', NEW a \in Pub!Added, NEW st \in Unfinished \cup Pub!Terminal,
         activity' = [activity EXCEPT ![a].status = st],
         \A b \in Activities \ {a} : attempts'[b] = attempts[b] /\ result'[b] = result[b],
         result[a] # "none" => result'[a] # "none",
         Loop(a)',
         \A c \in PublicationCallers : pLocal'[c] \in {pLocal[c], Pub!Idle}
  PROVE  Published'
<1>1. Pub!Added \subseteq Activities
  BY DEF Pub!Added
<1>2. /\ activity'[a].status = st /\ activity'[a].subject = activity[a].subject
      /\ \A b \in Activities \ {a} : activity'[b] = activity[b]
  BY <1>1 DEF Published, LoopTyped
<1>3. Pub!Added' = Pub!Added
  BY <1>1, <1>2 DEF Pub!Added, Unfinished, Pub!Terminal, Pub!InFlight
<1>4. \A b \in Pub!Added \ {a} : Loop(b)'
  BY <1>1, <1>2 DEF Published, Loop
<1>5. \A b \in Activities \ Pub!Added : Bare(b)'
  BY <1>2 DEF Published, Bare
<1>6. OneUnfinished'
  BY <1>1, <1>2, <1>3 DEF Published, OneUnfinished
<1> QED
  BY <1>3, <1>4, <1>5, <1>6 DEF Published, Pub!Idle

\* An attempt that is under way is the last.
LEMMA MoveStep ==
  ASSUME Published, NEW a \in Activities, NEW n, NEW From \in SUBSET {"STARTED", "SENT"}, NEW To \in Pub!Ended \cup {"SENT"},
         NEW st \in Unfinished, LastSays(To, st), st # "PENDING", Pub!Move(a, n, From, To, st)
  PROVE  Published'
<1>1. /\ n \in 1..Len(attempts[a]) /\ attempts[a][n] \in {"STARTED", "SENT"}
      /\ attempts' = [attempts EXCEPT ![a][n] = To]
      /\ activity' = [activity EXCEPT ![a].status = st]
      /\ UNCHANGED <<result, pLocal>>
  BY DEF Pub!Move, Pub!Becomes
<1>2. LoopTyped /\ Len(attempts[a]) \in Nat
  BY AttemptsKnown DEF Published
<1>3. a \in Pub!Added
  BY <1>1, <1>2 DEF Published, Bare
<1>4. n = Len(attempts[a]) /\ n \in Nat /\ n > 0
  BY <1>1, <1>2, <1>3 DEF Published, Loop
<1>5. /\ attempts'[a] = [attempts[a] EXCEPT ![n] = To]
      /\ \A b \in Activities \ {a} : attempts'[b] = attempts[b]
  BY <1>1, <1>2 DEF LoopTyped
<1>6. /\ attempts'[a] \in Seq({"STARTED", "SENT"} \cup Pub!Ended)
      /\ Len(attempts'[a]) = Len(attempts[a]) /\ attempts'[a][n] = To
      /\ \A i \in 1..(n - 1) : attempts'[a][i] = attempts[a][i]
  BY <1>1, <1>2, <1>4, <1>5, AttemptsKnown
<1>7. LoopTyped'
  <2>1. activity' \in [Activities -> {[status |-> "NONE"]}
          \cup [in : Transactions, subject : PublicationSubjects, status : Unfinished \cup Pub!Terminal]]
    BY <1>1, <1>2, <1>3, StatusTyped
  <2>2. attempts' \in [Activities -> Seq({"STARTED", "SENT"} \cup Pub!Ended)]
    BY <1>1, <1>2, <1>6 DEF LoopTyped
  <2> QED
    BY <1>1, <1>2, <2>1, <2>2 DEF LoopTyped
<1>8. activity'[a].status = st
  BY <1>1, <1>2, <1>3 DEF LoopTyped, Pub!Added
<1>9. LastSays(attempts[a][n], activity[a].status) /\ result[a] = "none"
  <2>1. Loop(a)
    BY <1>3 DEF Published
  <2>2. LastSays(attempts[a][n], activity[a].status)
    BY <1>4, <2>1 DEF Loop
  <2>3. activity[a].status \notin Pub!Terminal
    BY <1>1, <2>2 DEF LastSays, Pub!Terminal
  <2> QED
    BY <2>1, <2>2, <2>3 DEF Loop
<1>10. Loop(a)'
  <2>1. Loop(a)
    BY <1>3 DEF Published
  <2>2. st \notin Pub!Terminal
    BY DEF Unfinished, Pub!InFlight, Pub!Terminal
  <2> QED
    BY <1>1, <1>4, <1>6, <1>8, <1>9, <2>1, <2>2 DEF Loop
<1> QED
  BY <1>1, <1>3, <1>5, <1>7, <1>10, ActivityMoved

\* Every step keeps the loop closed.
LEMMA PublishedKept ==
  ASSUME Published, [Pub!Next]_(Pub!vars)
  PROVE  Published'
<1>0. LoopTyped /\ Pub!Added \subseteq Activities
  BY DEF Published, Pub!Added
<1>1. ASSUME UNCHANGED <<activity, attempts, result>>, LoopTyped',
             \A c \in PublicationCallers : pLocal'[c].for = "attempt" => pLocal'[c] = pLocal[c] \/ pLocal'[c].at \in Pub!Added
      PROVE  Published'
  BY <1>1 DEF Published, Pub!Added, Loop, Bare, OneUnfinished
<1>2. ASSUME NEW t \in Transactions,
             (\E S \in {{}} \cup {{u} : u \in Transactions} : Pub!CreateTransaction(t, S)) \/ Pub!StartTransaction(t)
      PROVE  Published'
  <2>1. UNCHANGED <<activity, attempts, result, pLocal>>
    BY <1>2 DEF Pub!CreateTransaction, Pub!StartTransaction
  <2> QED
    BY <1>0, <1>1, <2>1 DEF LoopTyped
<1>3. ASSUME NEW c \in PublicationCallers, NEW t \in Transactions, Pub!ReadTransaction(c, t) PROVE Published'
  <2>1. /\ UNCHANGED <<activity, attempts, result>>
        /\ pLocal' = [pLocal EXCEPT ![c] = [for |-> "activity", in |-> t]]
    BY <1>3 DEF Pub!ReadTransaction
  <2> QED
    BY <1>0, <1>1, <2>1 DEF LoopTyped
<1>4. ASSUME NEW c \in PublicationCallers, NEW a \in Activities, Pub!ReadAttempts(c, a) PROVE Published'
  <2>1. /\ UNCHANGED <<activity, attempts, result>> /\ a \in Pub!Added
        /\ pLocal' = [pLocal EXCEPT ![c] = [for |-> "attempt", at |-> a, number |-> Len(attempts[a]) + 1]]
    BY <1>4 DEF Pub!ReadAttempts
  <2>2. Len(attempts[a]) + 1 \in Nat
    BY <1>0, AttemptsKnown
  <2> QED
    BY <1>0, <1>1, <2>1, <2>2 DEF LoopTyped
<1>5. ASSUME NEW c \in PublicationCallers, NEW a \in Activities, NEW s \in PublicationSubjects, Pub!AddActivity(c, a, s)
      PROVE  Published'
  <2>1. /\ pLocal[c].for = "activity" /\ a \notin Pub!Added /\ pLocal' = [pLocal EXCEPT ![c] = Pub!Idle]
        /\ UNCHANGED <<attempts, result>>
    BY <1>5 DEF Pub!AddActivity
  <2>2. PICK t \in Transactions : t = pLocal[c].in
    <3>1. pLocal[c].in \in Transactions
      BY <1>0, <2>1 DEF LoopTyped, Pub!Idle
    <3> QED
      BY <3>1
  <2>3. CASE Pub!Guarded(s)
    <3>1. UNCHANGED activity
      BY <1>5, <2>3 DEF Pub!AddActivity
    <3> QED
      BY <1>0, <1>1, <2>1, <3>1 DEF LoopTyped, Pub!Idle
  <2>4. CASE ~Pub!Guarded(s)
    <3>1. activity' = [activity EXCEPT ![a] = [in |-> t, subject |-> s, status |-> "PENDING"]]
      BY <1>5, <2>2, <2>4 DEF Pub!AddActivity
    <3>2. LoopTyped'
      BY <1>0, <2>1, <3>1 DEF LoopTyped, Unfinished
    <3>3. /\ activity'[a].status = "PENDING" /\ activity'[a].subject = s
          /\ \A b \in Activities \ {a} : activity'[b] = activity[b]
      BY <1>0, <3>1 DEF LoopTyped
    <3>4. Pub!Added' = Pub!Added \cup {a}
      BY <3>3 DEF Pub!Added
    <3>5. attempts[a] = <<>> /\ result[a] = "none"
      BY <2>1 DEF Published, Bare
    <3>6. Loop(a)'
      <4>1. Len(attempts'[a]) = 0
        BY <2>1, <3>5
      <4> QED
        BY <2>1, <3>3, <3>5, <4>1 DEF Loop, Pub!Terminal
    <3>7. \A b \in Pub!Added : Loop(b)'
      BY <1>0, <2>1, <3>3 DEF Published, Loop
    <3>8. \A b \in Pub!Added : activity[b].subject = s => result[b] # "none"
      BY <2>4 DEF Pub!Guarded, Published, Loop
    <3>9. OneUnfinished'
      BY <1>0, <2>1, <3>3, <3>4, <3>8 DEF Published, OneUnfinished
    <3>10. \A b \in Activities \ Pub!Added' : Bare(b)'
      BY <2>1, <3>4 DEF Published, Bare
    <3>11. \A d \in PublicationCallers : pLocal'[d].for = "attempt" => pLocal'[d].at \in Pub!Added'
      BY <1>0, <2>1, <3>4 DEF Published, LoopTyped, Pub!Idle
    <3> QED
      BY <3>2, <3>4, <3>6, <3>7, <3>9, <3>10, <3>11 DEF Published
  <2> QED
    BY <2>3, <2>4
<1>6. ASSUME NEW c \in PublicationCallers, Pub!StartAttempt(c) PROVE Published'
  <2>1. PICK a \in Pub!Added : a = pLocal[c].at
    BY <1>6 DEF Pub!StartAttempt, Published
  <2>2. pLocal' = [pLocal EXCEPT ![c] = Pub!Idle] /\ UNCHANGED result
    BY <1>6 DEF Pub!StartAttempt
  <2>3. CASE UNCHANGED <<attempts, activity>>
    BY <1>0, <1>1, <2>2, <2>3 DEF LoopTyped, Pub!Idle
  <2>4. CASE ~UNCHANGED <<attempts, activity>>
    <3>1. /\ activity[a].status \in {"PENDING", "TRANSPORT_FAILED"}
          /\ \A i \in 1..Len(attempts[a]) : attempts[a][i] \in Pub!Ended
          /\ attempts' = [attempts EXCEPT ![a] = Append(@, "STARTED")]
          /\ activity' = [activity EXCEPT ![a].status = "SENDING"]
      BY <1>6, <2>1, <2>4 DEF Pub!StartAttempt, Pub!Attemptable, Pub!Becomes
    <3>2. a \in Activities /\ Loop(a) /\ result[a] = "none" /\ Len(attempts[a]) \in Nat
      BY <1>0, <3>1, AttemptsKnown DEF Published, Loop, Pub!Terminal
    <3>3. /\ attempts'[a] = Append(attempts[a], "STARTED")
          /\ \A b \in Activities \ {a} : attempts'[b] = attempts[b]
      BY <1>0, <3>1, <3>2 DEF LoopTyped
    <3>4. /\ Len(attempts'[a]) = Len(attempts[a]) + 1
          /\ attempts'[a][Len(attempts[a]) + 1] = "STARTED"
          /\ \A i \in 1..Len(attempts[a]) : attempts'[a][i] = attempts[a][i]
          /\ attempts'[a] \in Seq({"STARTED", "SENT"} \cup Pub!Ended)
      BY <1>0, <3>2, <3>3, AttemptsKnown
    <3>5. LoopTyped'
      <4>1. activity' \in [Activities -> {[status |-> "NONE"]}
              \cup [in : Transactions, subject : PublicationSubjects, status : Unfinished \cup Pub!Terminal]]
        BY <1>0, <2>1, <3>1, StatusTyped DEF Unfinished, Pub!InFlight
      <4>2. attempts' \in [Activities -> Seq({"STARTED", "SENT"} \cup Pub!Ended)]
        BY <1>0, <3>1, <3>2, <3>3, <3>4 DEF LoopTyped
      <4> QED
        BY <1>0, <2>2, <4>1, <4>2 DEF LoopTyped
    <3>6. activity'[a].status = "SENDING"
      BY <1>0, <2>1, <3>1 DEF LoopTyped, Pub!Added
    <3>7. \A i \in 1..Len(attempts[a]) : attempts[a][i] \in {"FAILED", "TIMED_OUT"}
      <4>1. \A i \in 1..(Len(attempts[a]) - 1) : attempts[a][i] \in {"FAILED", "TIMED_OUT"}
        BY <3>2 DEF Loop
      <4>2. Len(attempts[a]) > 0 => attempts[a][Len(attempts[a])] \in {"FAILED", "TIMED_OUT"}
        <5>1. Len(attempts[a]) > 0 => LastSays(attempts[a][Len(attempts[a])], activity[a].status)
          BY <3>2 DEF Loop
        <5> QED
          BY <3>1, <3>2, <5>1 DEF LastSays, Pub!Ended, Pub!Terminal
      <4> QED
        BY <3>2, <4>1, <4>2
    <3>8. Loop(a)'
      BY <2>2, <3>2, <3>4, <3>6, <3>7 DEF Loop, LastSays, Pub!Terminal
    <3>9. "SENDING" \in Unfinished \cup Pub!Terminal /\ \A d \in PublicationCallers : pLocal'[d] \in {pLocal[d], Pub!Idle}
      BY <1>0, <2>2 DEF Unfinished, Pub!InFlight, LoopTyped
    <3> QED
      BY <2>1, <2>2, <3>1, <3>3, <3>5, <3>8, <3>9, ActivityMoved
  <2> QED
    BY <2>3, <2>4
<1>7. ASSUME NEW a \in Activities, NEW n \in 1..MaxAttempts, Pub!MarkAttemptSent(a, n) PROVE Published'
  BY <1>7, MoveStep DEF Pub!MarkAttemptSent, LastSays, Unfinished, Pub!InFlight
<1>8. ASSUME NEW a \in Activities, NEW n \in 1..MaxAttempts, Pub!FailAttempt(a, n) PROVE Published'
  <2>1. PICK to \in {"FAILED", "TIMED_OUT"} : Pub!Move(a, n, {"STARTED", "SENT"}, to, "TRANSPORT_FAILED")
    BY <1>8 DEF Pub!FailAttempt
  <2>2. LastSays(to, "TRANSPORT_FAILED") /\ to \in Pub!Ended \cup {"SENT"} /\ "TRANSPORT_FAILED" \in Unfinished
    BY DEF LastSays, Pub!Ended, Unfinished
  <2> QED
    BY <2>1, <2>2, MoveStep
<1>9. ASSUME NEW a \in Activities, NEW n \in 1..MaxAttempts, Pub!RecordAcknowledgement(a, n) PROVE Published'
  <2>1. /\ LastSays("DELIVERED", "ACKNOWLEDGED") /\ LastSays("FAILED", "TRANSPORT_FAILED")
        /\ {"DELIVERED", "FAILED"} \subseteq Pub!Ended /\ {"ACKNOWLEDGED", "TRANSPORT_FAILED"} \subseteq Unfinished
    BY DEF LastSays, Pub!Ended, Unfinished, Pub!InFlight
  <2> QED
    BY <1>9, <2>1, MoveStep DEF Pub!RecordAcknowledgement
<1>10. ASSUME NEW a \in Activities, NEW n \in 1..MaxAttempts, NEW verdict \in Pub!Outcomes,
              Pub!RecordResult(a, n, verdict)
       PROVE  Published'
  <2>1. /\ activity[a].status = "ACKNOWLEDGED" /\ result[a] = "none"
        /\ result' = [result EXCEPT ![a] = verdict]
        /\ activity' = [activity EXCEPT ![a].status = Pub!StatusOf(verdict)]
        /\ UNCHANGED <<attempts, pLocal>>
    BY <1>10 DEF Pub!RecordResult, Pub!Resolvable, Pub!Becomes
  <2>2. PICK st \in Pub!Terminal : st = Pub!StatusOf(verdict)
    BY DEF Pub!StatusOf, Pub!Outcomes, Pub!Terminal
  <2>3. a \in Pub!Added /\ Loop(a)
    BY <2>1 DEF Pub!Added, Published
  <2>4. result'[a] # "none" /\ \A b \in Activities \ {a} : result'[b] = result[b]
    BY <1>0, <2>1 DEF LoopTyped, Pub!Outcomes
  <2>5. LoopTyped' /\ activity'[a].status = st
    BY <1>0, <2>1, <2>2, <2>3, StatusTyped DEF LoopTyped
  <2>6. Len(attempts[a]) \in Nat
    BY <1>0, AttemptsKnown
  <2>7. Len(attempts[a]) > 0 /\ LastSays(attempts[a][Len(attempts[a])], "ACKNOWLEDGED")
    BY <2>1, <2>3, <2>6 DEF Loop
  <2>8. LastSays(attempts[a][Len(attempts[a])], st)
    BY <2>7 DEF LastSays, Pub!Terminal
  <2>9. Loop(a)'
    BY <2>1, <2>2, <2>3, <2>4, <2>5, <2>6, <2>7, <2>8 DEF Loop, Pub!Terminal
  <2> QED
    BY <2>1, <2>2, <2>3, <2>4, <2>5, <2>9, ActivityMoved
<1>11. CASE UNCHANGED Pub!vars
  BY <1>0, <1>1, <1>11 DEF Pub!vars, LoopTyped
<1> QED
  BY <1>2, <1>3, <1>4, <1>5, <1>6, <1>7, <1>8, <1>9, <1>10, <1>11 DEF Pub!Next

\* The three tables tell one story.
LEMMA PublishedSound == Published => Pub!LoopClosed
<1> SUFFICES ASSUME Published PROVE Pub!LoopClosed
  OBVIOUS
<1>1. ASSUME NEW a \in Pub!Added
      PROVE  LET n == Len(attempts[a])
             IN /\ \A i \in 1..n-1 : attempts[a][i] \in {"FAILED", "TIMED_OUT"}
                /\ n = 0 <=> activity[a].status = "PENDING"
                /\ n > 0 =>
                     CASE attempts[a][n] = "STARTED" -> activity[a].status = "SENDING"
                       [] attempts[a][n] = "SENT" -> activity[a].status = "AWAITING_ACKNOWLEDGEMENT"
                       [] attempts[a][n] = "DELIVERED" -> activity[a].status \in Pub!Terminal \cup {"ACKNOWLEDGED"}
                       [] OTHER -> activity[a].status = "TRANSPORT_FAILED"
                /\ (result[a] # "none") <=> (activity[a].status \in Pub!Terminal)
  <2>1. Loop(a) /\ a \in Activities
    BY DEF Published, Pub!Added
  <2>2. Len(attempts[a]) > 0 => attempts[a][Len(attempts[a])] \in {"STARTED", "SENT"} \cup Pub!Ended
    BY <2>1, AttemptsKnown DEF Published
  <2>3. Len(attempts[a]) > 0 =>
          CASE attempts[a][Len(attempts[a])] = "STARTED" -> activity[a].status = "SENDING"
            [] attempts[a][Len(attempts[a])] = "SENT" -> activity[a].status = "AWAITING_ACKNOWLEDGEMENT"
            [] attempts[a][Len(attempts[a])] = "DELIVERED" -> activity[a].status \in Pub!Terminal \cup {"ACKNOWLEDGED"}
            [] OTHER -> activity[a].status = "TRANSPORT_FAILED"
    BY <2>1, <2>2 DEF Loop, LastSays, Pub!Ended
  <2> QED
    BY <2>1, <2>3 DEF Loop
<1> QED
  BY <1>1 DEF Pub!LoopClosed, Published, OneUnfinished

-----------------------------------------------------------------------------
\* Exchange packages.

\* A package, its deliveries, and what a caller has read of them.
PackageTyped ==
  /\ package \in {"DRAFT", "FROZEN"}
  /\ received \in [Deliveries -> {"NONE", "DISPATCHED", "RECEIVED", "VALIDATED", "MAPPED",
                                  "IMPORTED", "REJECTED"}]
  /\ mapped \subseteq Deliveries /\ adopted \subseteq Deliveries
  /\ eLocal \in [ExchangeCallers -> {Exc!Idle} \cup [for : {"item"}]
                   \cup [for : {"mapping", "adoption"}, of : Deliveries]]

\* A delivery read as validated or imported is still at least that.
Validated(d) == received[d] \in {"VALIDATED", "MAPPED", "IMPORTED", "REJECTED"}
ReadStands(c) ==
  /\ eLocal[c].for = "mapping" => Validated(eLocal[c].of)
  /\ eLocal[c].for = "adoption" => received[eLocal[c].of] = "IMPORTED"

Exchanged ==
  /\ PackageTyped /\ \A c \in ExchangeCallers : ReadStands(c)
  /\ \A d \in adopted : received[d] = "IMPORTED"
  /\ \A d \in mapped : Validated(d)
  /\ package = "DRAFT" => lateItems = {} /\ \A d \in Deliveries : received[d] = "NONE"
  /\ package = "FROZEN" => frozen # {} /\ items = frozen \cup lateItems

\* A draft has no deliveries.
LEMMA ExchangedInit == Exc!Init => Exchanged
BY DEF Exc!Init, Exchanged, PackageTyped, ReadStands, Exc!Idle

\* Every step keeps what adoptions and mappings rest on.
LEMMA ExchangedKept ==
  ASSUME Exchanged, [Exc!Next]_(Exc!vars)
  PROVE  Exchanged'
<1> USE DEF Exchanged, Validated
<1>1. ASSUME NEW c \in ExchangeCallers, NEW d \in Deliveries,
             Exc!ReadForMapping(c, d) \/ Exc!ReadForAdoption(c, d)
      PROVE  Exchanged'
  <2>1. UNCHANGED <<package, items, frozen, lateItems, received, mapped, adopted>>
    BY <1>1 DEF Exc!ReadForMapping, Exc!ReadForAdoption, Exc!Read
  <2>2. PackageTyped'
    BY <1>1, <2>1 DEF Exc!ReadForMapping, Exc!ReadForAdoption, Exc!Read, PackageTyped
  <2>3. ASSUME NEW e \in ExchangeCallers PROVE ReadStands(e)'
    BY <1>1, <2>1
    DEF Exc!ReadForMapping, Exc!ReadForAdoption, Exc!Read, PackageTyped, ReadStands
  <2> QED
    BY <2>1, <2>2, <2>3
<1>2. ASSUME NEW c \in ExchangeCallers, NEW i \in PackageItems, Exc!AddPackageItem(c, i) PROVE Exchanged'
  BY <1>2 DEF Exc!AddPackageItem, Exc!Finish, PackageTyped, ReadStands, Exc!Idle
<1>3. CASE Exc!FreezePackage
  BY <1>3 DEF Exc!FreezePackage, PackageTyped, ReadStands
<1>4. ASSUME NEW d \in Deliveries, Exc!CreateDelivery(d) PROVE Exchanged'
  BY <1>4 DEF Exc!CreateDelivery, PackageTyped, ReadStands
<1>5. ASSUME NEW d \in Deliveries,
             \/ Exc!RecordReceivedDelivery(d) \/ Exc!ValidateReceived(d) \/ Exc!MarkMapped(d)
             \/ Exc!MarkImported(d) \/ Exc!RejectReceived(d)
      PROVE  Exchanged'
  <2>1. PICK to \in {"RECEIVED", "VALIDATED", "MAPPED", "IMPORTED", "REJECTED"} :
          /\ received' = [received EXCEPT ![d] = to]
          /\ UNCHANGED <<package, items, frozen, lateItems, mapped, adopted, eLocal>>
          /\ received[d] \notin {"NONE", "IMPORTED"}
          /\ Validated(d) => to \in {"MAPPED", "IMPORTED", "REJECTED"}
    BY <1>5
    DEF Exc!RecordReceivedDelivery, Exc!ValidateReceived, Exc!MarkMapped, Exc!MarkImported,
        Exc!RejectReceived,
                Exc!Becomes
  <2>2. /\ received'[d] = to /\ \A e \in Deliveries \ {d} : received'[e] = received[e]
        /\ PackageTyped'
    BY <2>1 DEF PackageTyped
  <2> QED
    BY <2>1, <2>2 DEF PackageTyped, ReadStands
<1>6. ASSUME NEW c \in ExchangeCallers, Exc!AddMapping(c) \/ Exc!AdoptAuthority(c) PROVE Exchanged'
  <2>1. eLocal[c].of \in Deliveries /\ eLocal' = [eLocal EXCEPT ![c] = Exc!Idle]
    BY <1>6 DEF Exc!AddMapping, Exc!AdoptAuthority, Exc!Finish, PackageTyped, Exc!Idle
  <2>2. PackageTyped' /\ \A e \in ExchangeCallers : ReadStands(e)'
    BY <1>6, <2>1 DEF Exc!AddMapping, Exc!AdoptAuthority, PackageTyped, ReadStands, Exc!Idle
  <2> QED
    BY <1>6, <2>2 DEF Exc!AddMapping, Exc!AdoptAuthority, ReadStands
<1>7. CASE UNCHANGED Exc!vars
  BY <1>7 DEF Exc!vars, PackageTyped, ReadStands
<1>8. ASSUME NEW c \in ExchangeCallers, Exc!ReadForItem(c) PROVE Exchanged'
  BY <1>8 DEF Exc!ReadForItem, Exc!Read, PackageTyped, ReadStands
<1> QED
  BY <1>1, <1>2, <1>3, <1>4, <1>5, <1>6, <1>7, <1>8 DEF Exc!Next

\* What an adoption of authority rests on.
LEMMA ExchangedSound == Exchanged => Exc!AdoptionsTraceable
BY DEF Exchanged, Exc!AdoptionsTraceable, PackageTyped, Validated

-----------------------------------------------------------------------------
\* Service orders.

\* A service order and its rows.
OrderTyped ==
  /\ order \in {"DRAFT", "SCHEDULED", "DISPATCHED", "IN_PROGRESS"} \cup Svc!Done
  /\ assignment \in [Assignments -> {"NONE", "PLANNED", "DISPATCHED", "ON_SITE", "COMPLETED"}]
  /\ recorded \in BOOLEAN
  /\ oLocal \in [ServiceCallers -> {Svc!Idle}
                   \cup [for : {"assignment"}, seen : {"DRAFT", "SCHEDULED"}]
                   \cup [for : {"record"}, seen : {"DISPATCHED", "IN_PROGRESS", "COMPLETED"}]]

\* An order only ever moves on: what a caller read of it lies behind it.
ReadBehind(c) ==
  oLocal[c] # Svc!Idle =>
    /\ oLocal[c].seen # "DRAFT" => order # "DRAFT"
    /\ oLocal[c].for = "record" => order \notin {"DRAFT", "SCHEDULED"}
    /\ oLocal[c].seen \in {"IN_PROGRESS", "COMPLETED"} => order # "DISPATCHED"
    /\ oLocal[c].seen = "COMPLETED" => order # "IN_PROGRESS"

\* OrderFollowsItsWork, one status at a time.
Follows ==
  /\ order = "DRAFT" => Svc!Created = {} /\ ~recorded
  /\ order = "SCHEDULED" =>
       /\ Svc!Created # {} /\ ~recorded /\ \A a \in Svc!Created : assignment[a] = "PLANNED"
  /\ order = "DISPATCHED" =>
       /\ ~recorded /\ \E a \in Svc!Created : assignment[a] = "DISPATCHED"
       /\ \A a \in Svc!Created : assignment[a] \in {"PLANNED", "DISPATCHED"}
  /\ order = "IN_PROGRESS" => recorded \/ \E a \in Svc!Created : assignment[a] = "ON_SITE"
  /\ order \in Svc!Done => recorded /\ \A a \in Svc!Created \ lateAssignments : assignment[a] = "COMPLETED"

Ordered == OrderTyped /\ (\A c \in ServiceCallers : ReadBehind(c)) /\ Follows

\* A draft has no rows.
LEMMA OrderedInit == Svc!Init => Ordered
BY DEF Svc!Init, Ordered, OrderTyped, ReadBehind, Follows, Svc!Created, Svc!Done, Svc!Idle

\* Every step moves the order on with its rows.
LEMMA OrderedKept ==
  ASSUME Ordered, [Svc!Next]_(Svc!vars)
  PROVE  Ordered'
<1> USE DEF Ordered, Svc!Advance, Svc!Done
<1>1. ASSUME NEW c \in ServiceCallers, Svc!ReadForAssignment(c) \/ Svc!ReadForRecord(c) PROVE Ordered'
  <2>1. PICK what \in {"assignment", "record"} : Svc!Read(c, what)
    BY <1>1 DEF Svc!ReadForAssignment, Svc!ReadForRecord
  <2>2. UNCHANGED <<order, assignment, recorded, lateAssignments>> /\ Svc!Created' = Svc!Created
    BY <2>1 DEF Svc!Read, Svc!Created
  <2>3. OrderTyped'
    BY <1>1, <2>2 DEF Svc!ReadForAssignment, Svc!ReadForRecord, Svc!Read, OrderTyped
  <2>4. ASSUME NEW d \in ServiceCallers PROVE ReadBehind(d)'
    BY <1>1, <2>2 DEF Svc!ReadForAssignment, Svc!ReadForRecord, Svc!Read, OrderTyped, ReadBehind
  <2> QED
    BY <2>2, <2>3, <2>4 DEF Follows
<1>2. ASSUME NEW c \in ServiceCallers, NEW a \in Assignments, Svc!CreateAssignment(c, a) PROVE Ordered'
  <2>1. /\ assignment' = [assignment EXCEPT ![a] = "PLANNED"] /\ recorded' = recorded
        /\ lateAssignments' = IF order \in Svc!Done THEN lateAssignments \cup {a} ELSE lateAssignments
        /\ order' \in {order, "SCHEDULED"} /\ (order' # order => order = "DRAFT")
        /\ oLocal' = [oLocal EXCEPT ![c] = Svc!Idle] /\ oLocal[c] # Svc!Idle
    BY <1>2 DEF Svc!CreateAssignment, Svc!Finish, Svc!Idle
  <2>2. order' # "DRAFT"
    BY <1>2, <2>1 DEF Svc!CreateAssignment, OrderTyped, ReadBehind, Svc!Idle
  <2>3. OrderTyped'
    BY <2>1 DEF OrderTyped
  <2>4. ASSUME NEW d \in ServiceCallers PROVE ReadBehind(d)'
    BY <2>1, <2>2 DEF OrderTyped, ReadBehind
  <2>5. /\ Svc!Created' = Svc!Created \cup {a} /\ assignment'[a] = "PLANNED"
        /\ \A b \in Svc!Created : b # a /\ assignment'[b] = assignment[b]
    BY <1>2, <2>1 DEF Svc!CreateAssignment, Svc!Created, OrderTyped
  <2>6. Follows'
    BY <2>1, <2>2, <2>5 DEF Follows
  <2> QED
    BY <2>3, <2>4, <2>6
<1>3. ASSUME NEW a \in Assignments, Svc!DispatchAssignment(a) PROVE Ordered'
  <2>1. /\ assignment[a] = "PLANNED" /\ UNCHANGED <<recorded, lateAssignments, oLocal>>
        /\ assignment' = [assignment EXCEPT ![a] = "DISPATCHED"] /\ Svc!Created' = Svc!Created
        /\ order' = IF order \in {"DRAFT", "SCHEDULED"} THEN "DISPATCHED" ELSE order
    BY <1>3 DEF Svc!DispatchAssignment, Svc!Created, OrderTyped
  <2>2. OrderTyped' /\ \A c \in ServiceCallers : ReadBehind(c)'
    BY <2>1 DEF OrderTyped, ReadBehind, Follows, Svc!Created
  <2>3. /\ a \in Svc!Created /\ assignment'[a] = "DISPATCHED"
        /\ \A b \in Svc!Created : b # a => assignment'[b] = assignment[b]
    BY <2>1 DEF OrderTyped, Svc!Created
  <2> QED
    BY <2>1, <2>2, <2>3 DEF Follows
<1>4. ASSUME NEW a \in Assignments, Svc!StartAssignment(a) PROVE Ordered'
  <2>1. /\ assignment[a] = "DISPATCHED" /\ UNCHANGED <<recorded, lateAssignments, oLocal>>
        /\ assignment' = [assignment EXCEPT ![a] = "ON_SITE"] /\ Svc!Created' = Svc!Created
        /\ order' = IF order \in {"DISPATCHED", "SCHEDULED"} THEN "IN_PROGRESS" ELSE order
    BY <1>4 DEF Svc!StartAssignment, Svc!Created, OrderTyped
  <2>2. /\ a \in Svc!Created /\ assignment'[a] = "ON_SITE"
        /\ \A b \in Svc!Created : b # a => assignment'[b] = assignment[b]
    BY <2>1 DEF OrderTyped, Svc!Created
  <2>3. order \notin {"DRAFT", "SCHEDULED"}
    BY <2>1, <2>2 DEF Follows
  <2>4. OrderTyped' /\ \A c \in ServiceCallers : ReadBehind(c)'
    BY <2>1, <2>3 DEF OrderTyped, ReadBehind
  <2> QED
    BY <2>1, <2>2, <2>3, <2>4 DEF Follows
<1>5. ASSUME NEW c \in ServiceCallers, Svc!RecordExecution(c) PROVE Ordered'
  <2>1. /\ UNCHANGED <<assignment, lateAssignments>> /\ recorded' = TRUE /\ Svc!Created' = Svc!Created
        /\ oLocal' = [oLocal EXCEPT ![c] = Svc!Idle]
        /\ order' \in {order, "IN_PROGRESS"} /\ (order' # order => order = "DISPATCHED")
    BY <1>5 DEF Svc!RecordExecution, Svc!Finish, Svc!Created
  <2>2. order' \notin {"DRAFT", "SCHEDULED", "DISPATCHED"}
    BY <1>5, <2>1 DEF Svc!RecordExecution, OrderTyped, ReadBehind, Svc!Idle
  <2>3. OrderTyped' /\ \A d \in ServiceCallers : ReadBehind(d)'
    BY <2>1, <2>2 DEF OrderTyped, ReadBehind
  <2> QED
    BY <2>1, <2>2, <2>3 DEF Follows
<1>6. CASE Svc!CompleteOrder
  <2>1. /\ recorded /\ order' = "COMPLETED" /\ UNCHANGED <<recorded, lateAssignments, oLocal>>
        /\ order \in {"DISPATCHED", "IN_PROGRESS"}
        /\ \A a \in Svc!Created' : assignment'[a] = "COMPLETED"
    BY <1>6 DEF Svc!CompleteOrder, Svc!Completable, Svc!Created
  <2>2. OrderTyped' /\ \A c \in ServiceCallers : ReadBehind(c)'
    BY <1>6, <2>1 DEF Svc!CompleteOrder, OrderTyped, ReadBehind
  <2> QED
    BY <2>1, <2>2 DEF Follows
<1>7. CASE Svc!AcceptOrder
  BY <1>7 DEF Svc!AcceptOrder, OrderTyped, ReadBehind, Follows, Svc!Created
<1>8. CASE UNCHANGED Svc!vars
  BY <1>8 DEF Svc!vars, OrderTyped, ReadBehind, Follows, Svc!Created
<1> QED
  BY <1>1, <1>2, <1>3, <1>4, <1>5, <1>6, <1>7, <1>8 DEF Svc!Next

\* The status of an order says what its rows say.
LEMMA OrderedSound == Ordered => Svc!OrderFollowsItsWork
<1> SUFFICES ASSUME Ordered PROVE Svc!OrderFollowsItsWork
  OBVIOUS
<1> USE DEF Ordered, Follows, Svc!Done
<1> DEFINE is == {assignment[a] : a \in Svc!Created}
<1>1. order = "DRAFT" => is = {} /\ ~recorded
  OBVIOUS
<1>2. order = "SCHEDULED" => is = {"PLANNED"} /\ ~recorded
  OBVIOUS
<1>3. order = "DISPATCHED" =>
        "DISPATCHED" \in is /\ is \subseteq {"PLANNED", "DISPATCHED"} /\ ~recorded
  OBVIOUS
<1>4. order = "IN_PROGRESS" => recorded \/ "ON_SITE" \in is
  OBVIOUS
<1>5. order \in Svc!Done => recorded /\ \A a \in Svc!Created \ lateAssignments : assignment[a] = "COMPLETED"
  OBVIOUS
<1>6. order \in {"DRAFT", "SCHEDULED", "DISPATCHED", "IN_PROGRESS"} \cup Svc!Done
  BY DEF OrderTyped
<1> QED
  BY <1>1, <1>2, <1>3, <1>4, <1>5, <1>6 DEF Svc!OrderFollowsItsWork

-----------------------------------------------------------------------------
\* Site work.

\* Rows of different tables have different ids; times are ordered.
DistinctRows == SiteIssues \cap Sit!Records = {} /\ Times \subseteq Nat

SiteWorkTyped ==
  /\ work \in {"PLANNED", "ACTIVE", "COMPLETE"}
  /\ progress \subseteq Sit!Records
  /\ issue \in [SiteIssues -> {"NONE", "OPEN", "RESOLVED"}]

SiteWork == SiteWorkTyped /\ Sit!CompletedIsDone

\* A planned package has nothing.
LEMMA SiteWorkInit == Sit!Init => SiteWork
BY DEF Sit!Init, SiteWork, SiteWorkTyped, Sit!CompletedIsDone

\* Every step keeps completion.
LEMMA SiteWorkKept ==
  ASSUME DistinctRows, SiteWork, [Sit!Next]_(Sit!vars)
  PROVE  SiteWork'
<1> USE DEF SiteWork, SiteWorkTyped
<1>1. CASE Sit!ActivateWorkPackage
  BY <1>1 DEF Sit!ActivateWorkPackage, Sit!CompletedIsDone, Sit!Raised
<1>2. CASE Sit!RecordEvidence
  BY <1>2 DEF Sit!RecordEvidence, Sit!CompletedIsDone, Sit!Raised
<1>3. CASE Sit!CompleteWorkPackage
  <2>1. /\ work # "COMPLETE" /\ work' = "COMPLETE" /\ lateWork = {} /\ evidence
        /\ UNCHANGED <<progress, evidence, issue, lateWork>> /\ Sit!Raised' = Sit!Raised
        /\ \A i \in Sit!Raised : issue[i] = "RESOLVED"
    BY <1>3 DEF Sit!CompleteWorkPackage, Sit!CompletedIsDone, Sit!Raised
  <2>2. PICK r \in progress : r.full /\ \A s \in progress : s.at <= r.at
    BY <1>3 DEF Sit!CompleteWorkPackage, Sit!DoneBy
  <2>3. \A s \in progress : ~(s.at > r.at)
    <3>1. \A s \in progress : s.at \in Nat
      BY DEF DistinctRows, Sit!Records
    <3> QED
      BY <2>2, <3>1
  <2> QED
    BY <2>1, <2>2, <2>3 DEF Sit!CompletedIsDone
<1>4. ASSUME NEW c \in SiteCallers, Sit!ReadForProgress(c) PROVE SiteWork'
  BY <1>4 DEF Sit!ReadForProgress, Sit!CompletedIsDone, Sit!Raised
<1>5. ASSUME NEW c \in SiteCallers, NEW r \in Sit!Records, Sit!RecordProgress(c, r) PROVE SiteWork'
  <2>1. /\ r \notin progress /\ progress' = progress \cup {r} /\ UNCHANGED <<evidence, issue>>
        /\ lateWork' = IF work = "COMPLETE" THEN lateWork \cup {r} ELSE lateWork
        /\ work' \in {work, "ACTIVE"} /\ (work' = "COMPLETE" <=> work = "COMPLETE")
        /\ Sit!Raised' = Sit!Raised
    BY <1>5 DEF Sit!RecordProgress, Sit!Enter, Sit!Activated, Sit!Raised
  <2>2. CASE work = "COMPLETE"
    <3>1. progress' \ lateWork' = progress \ lateWork /\ Sit!Raised' \ lateWork' \subseteq Sit!Raised \ lateWork
      BY <2>1, <2>2
    <3> QED
      BY <2>1, <2>2, <3>1 DEF Sit!CompletedIsDone
  <2>3. CASE work # "COMPLETE"
    BY <2>1, <2>3 DEF Sit!CompletedIsDone
  <2> QED
    BY <2>2, <2>3
<1>6. ASSUME NEW i \in SiteIssues, Sit!CreateIssue(i) PROVE SiteWork'
  <2>1. /\ issue' = [issue EXCEPT ![i] = "OPEN"] /\ UNCHANGED <<work, progress, evidence>>
        /\ lateWork' = IF work = "COMPLETE" THEN lateWork \cup {i} ELSE lateWork
        /\ Sit!Raised' = Sit!Raised \cup {i} /\ i \notin progress
    BY <1>6 DEF Sit!CreateIssue, Sit!Enter, Sit!Raised, DistinctRows
  <2>2. CASE work = "COMPLETE"
    <3>1. progress' \ lateWork' = progress \ lateWork
      BY <2>1, <2>2
    <3>2. \A j \in Sit!Raised' \ lateWork' : j \in Sit!Raised \ lateWork /\ issue'[j] = issue[j]
      BY <2>1, <2>2 DEF Sit!Raised
    <3> QED
      BY <2>1, <2>2, <3>1, <3>2 DEF Sit!CompletedIsDone
  <2>3. CASE work # "COMPLETE"
    BY <2>1, <2>3 DEF Sit!CompletedIsDone
  <2> QED
    BY <2>2, <2>3
<1>7. ASSUME NEW i \in SiteIssues, Sit!ResolveIssue(i) PROVE SiteWork'
  <2>1. /\ issue' = [issue EXCEPT ![i] = "RESOLVED"] /\ issue[i] = "OPEN"
        /\ UNCHANGED <<work, progress, evidence, lateWork>> /\ Sit!Raised' = Sit!Raised
    BY <1>7 DEF Sit!ResolveIssue, Sit!Raised
  <2> QED
    BY <2>1 DEF Sit!CompletedIsDone, Sit!Raised
<1>8. CASE UNCHANGED Sit!vars
  BY <1>8 DEF Sit!vars, Sit!CompletedIsDone, Sit!Raised
<1> QED
  BY <1>1, <1>2, <1>3, <1>4, <1>5, <1>6, <1>7, <1>8 DEF Sit!Next

\* Completion was earned and lasts.
LEMMA SiteWorkSound == SiteWork => Sit!CompletedIsDone
BY DEF SiteWork

-----------------------------------------------------------------------------
\* Source approvals.

ApprovalRecords ==
  {Sup!NoApproval}
    \cup [status : {"CURRENT"}, of : Tuples, from : Dates]
    \cup [status : {"SUPERSEDED"}, of : Tuples, from : Dates, by : Approvals]

\* The request that holds the supplier's row is the only one, and it was not
\* cancelled since it was locked.
SupplierLocked ==
  /\ \A r, s \in Approvers : approving[r] # Sup!Idle /\ approving[s] # Sup!Idle => r = s
  /\ \A r \in Approvers : approving[r] # Sup!Idle => supplier = "RELEASED"

SupplierTyped ==
  /\ supplier \in {"IN_WORK", "RELEASED", "CANCELLED"}
  /\ approval \in [Approvals -> ApprovalRecords]
  /\ approving \in [Approvers -> {Sup!Idle} \cup [holds : {TRUE}, of : Tuples, from : Dates]]
  /\ cancelled \in SUBSET Approvals

InLine == SupplierTyped /\ SupplierLocked /\ Sup!ApprovalsInLine

\* What ApprovalsInLine says of a tuple, and of an approval that was superseded.
OneCurrent(i) ==
  Sup!Of(i) # {} => \E c \in Sup!Current(i) :
        Sup!Current(i) = {c} /\ \A a \in Sup!Of(i) : approval[a].from <= approval[c].from
Replaced(a) ==
  approval[a].status = "SUPERSEDED" =>
    /\ approval[a].by \in Sup!Of(approval[a].of)
    /\ approval[a].from <= approval[approval[a].by].from
    /\ \A b \in Sup!Given \ {a} : approval[b].status = "SUPERSEDED" => approval[b].by # approval[a].by

LEMMA InLineParts ==
  Sup!ApprovalsInLine <=> /\ \A i \in Tuples : OneCurrent(i)
                          /\ \A a \in Sup!Given : Replaced(a)
                          /\ supplier = "CANCELLED" => Sup!Given = cancelled
BY DEF Sup!ApprovalsInLine, OneCurrent, Replaced

\* A request that is not idle holds the row, for an approval.
LEMMA HoldsUnlessIdle ==
  ASSUME SupplierTyped, NEW r \in Approvers
  PROVE  approving[r] # Sup!Idle =>
           /\ approving[r].holds = TRUE
           /\ approving[r].of \in Tuples /\ approving[r].from \in Dates
<1>1. approving[r] = Sup!Idle \/ approving[r] \in [holds : {TRUE}, of : Tuples, from : Dates]
  BY DEF SupplierTyped
<1> QED
  BY <1>1

\* What a superseded approval looks like.
LEMMA ApprovalShapes ==
  ASSUME SupplierTyped, NEW a \in Approvals
  PROVE  /\ a \in Sup!Given <=> approval[a].status \in {"CURRENT", "SUPERSEDED"}
         /\ a \in Sup!Given => approval[a].of \in Tuples /\ approval[a].from \in Dates
         /\ approval[a].status = "SUPERSEDED" => approval[a].by \in Approvals
BY DEF SupplierTyped, ApprovalRecords, Sup!NoApproval, Sup!Given

\* Nothing is approved and nobody approves.
LEMMA InLineInit == Sup!Init => InLine
<1> SUFFICES ASSUME Sup!Init PROVE InLine
  OBVIOUS
<1>1. Sup!Given = {}
  BY DEF Sup!Init, Sup!Given
<1>2. SupplierTyped
  BY DEF Sup!Init, SupplierTyped, ApprovalRecords
<1>3. SupplierLocked
  BY DEF Sup!Init, SupplierLocked
<1>4. Sup!ApprovalsInLine
  BY <1>1 DEF Sup!Init, Sup!ApprovalsInLine, Sup!Of
<1> QED
  BY <1>2, <1>3, <1>4 DEF InLine

\* A new approval takes the place of the current one of its tuple.
LEMMA ApprovalStep ==
  ASSUME Dates \subseteq Nat, InLine,
         NEW r \in Approvers, NEW a \in Approvals, Sup!CreateSourceApproval(r, a)
  PROVE  InLine'
<1>1. PICK i \in Tuples, from \in Dates : i = approving[r].of /\ from = approving[r].from
  BY HoldsUnlessIdle DEF Sup!CreateSourceApproval, InLine
<1>2. a \in Approvals /\ a \notin Sup!Given /\ supplier = "RELEASED"
  BY DEF Sup!CreateSourceApproval, InLine, SupplierLocked
<1>3. \A b \in Sup!Current(i) : from >= approval[b].from
  BY <1>1 DEF Sup!CreateSourceApproval
<1>4. approval' = [b \in Approvals |->
        CASE b = a -> [status |-> "CURRENT", of |-> i, from |-> from]
          [] b \in Sup!Current(i) -> [status |-> "SUPERSEDED", of |-> i, from |-> approval[b].from, by |-> a]
          [] OTHER -> approval[b]]
  BY <1>1 DEF Sup!CreateSourceApproval
<1>5. approving' = [approving EXCEPT ![r] = Sup!Idle] /\ UNCHANGED <<supplier, cancelled>>
  BY DEF Sup!CreateSourceApproval
<1>6. Sup!Current(i) \subseteq Sup!Given /\ Sup!Given \subseteq Approvals
  BY DEF Sup!Current, Sup!Of, Sup!Given
<1>7. approval'[a] = [status |-> "CURRENT", of |-> i, from |-> from]
  BY <1>2, <1>4, <1>6
<1>8. \A b \in Sup!Current(i) :
        approval'[b] = [status |-> "SUPERSEDED", of |-> i, from |-> approval[b].from, by |-> a]
  BY <1>2, <1>4, <1>6
<1>9. \A b \in Approvals : b # a /\ b \notin Sup!Current(i) => approval'[b] = approval[b]
  BY <1>4
<1>10. \A b \in Sup!Given : approval[b].of \in Tuples /\ approval[b].from \in Dates
  BY <1>6, ApprovalShapes DEF InLine
<1>11. SupplierTyped'
  <2>1. \A b \in Approvals : approval'[b] \in ApprovalRecords
    <3> SUFFICES ASSUME NEW b \in Approvals PROVE approval'[b] \in ApprovalRecords
      OBVIOUS
    <3>1. CASE b = a
      BY <3>1, <1>7 DEF ApprovalRecords
    <3>2. CASE b \in Sup!Current(i)
      <4>1. approval[b].from \in Dates
        BY <3>2, <1>6, <1>10
      <4>2. approval'[b] = [status |-> "SUPERSEDED", of |-> i, from |-> approval[b].from, by |-> a]
        BY <3>2, <1>8
      <4> QED
        BY <4>1, <4>2 DEF ApprovalRecords
    <3>3. CASE b # a /\ b \notin Sup!Current(i)
      BY <3>3, <1>9 DEF InLine, SupplierTyped
    <3> QED
      BY <3>1, <3>2, <3>3
  <2>2. approval' \in [Approvals -> ApprovalRecords]
    BY <2>1, <1>4
  <2> QED
    BY <1>5, <2>2 DEF InLine, SupplierTyped
<1>12. SupplierLocked'
  BY <1>5 DEF InLine, SupplierLocked, SupplierTyped
<1>a. \A b \in Sup!Current(i) : /\ approval'[b].status = "SUPERSEDED" /\ approval'[b].of = i
                              /\ approval'[b].from = approval[b].from /\ approval'[b].by = a
  <2> SUFFICES ASSUME NEW b \in Sup!Current(i)
               PROVE  /\ approval'[b].status = "SUPERSEDED" /\ approval'[b].of = i
                      /\ approval'[b].from = approval[b].from /\ approval'[b].by = a
    OBVIOUS
  <2>1. approval'[b] = [status |-> "SUPERSEDED", of |-> i, from |-> approval[b].from, by |-> a]
    BY <1>8
  <2> QED
    BY <2>1
<1>13. /\ approval'[a].status = "CURRENT" /\ approval'[a].of = i /\ approval'[a].from = from
       /\ \A b \in Sup!Current(i) : /\ approval'[b].status = "SUPERSEDED" /\ approval'[b].of = i
                                    /\ approval'[b].from = approval[b].from /\ approval'[b].by = a
  BY <1>7, <1>a
<1>14. Sup!Given' = Sup!Given \cup {a}
  <2>1. \A b \in Approvals : b \in Sup!Given <=> approval[b].status \in {"CURRENT", "SUPERSEDED"}
    BY ApprovalShapes DEF InLine
  <2>2. \A b \in Approvals : b \in Sup!Given' <=> approval'[b].status \in {"CURRENT", "SUPERSEDED"}
    BY <1>11 DEF SupplierTyped, ApprovalRecords, Sup!NoApproval, Sup!Given
  <2>3. Sup!Given' \subseteq Approvals
    BY DEF Sup!Given
  <2> QED
    BY <2>1, <2>2, <2>3, <1>6, <1>9, <1>13
<1>15. \A b \in Sup!Given : approval'[b].from = approval[b].from /\ approval'[b].of = approval[b].of
  BY <1>2, <1>6, <1>9, <1>13 DEF Sup!Current, Sup!Of
<1>16. Sup!Of(i)' = Sup!Of(i) \cup {a}
  BY <1>13, <1>14, <1>15 DEF Sup!Of
<1>17. Sup!Current(i)' = {a}
  BY <1>6, <1>9, <1>13, <1>16 DEF Sup!Of, Sup!Current
<1>18. \A j \in Tuples \ {i} : Sup!Of(j)' = Sup!Of(j)
  BY <1>13, <1>14, <1>15 DEF Sup!Of
<1>19. \A j \in Tuples \ {i} : Sup!Current(j)' = Sup!Current(j)
  BY <1>2, <1>6, <1>9, <1>18 DEF Sup!Of, Sup!Current
<1>20. \A j \in Tuples : OneCurrent(j) /\ \A b \in Sup!Given : Replaced(b)
  BY InLineParts DEF InLine
<1>21. ASSUME NEW j \in Tuples PROVE OneCurrent(j)'
  <2>1. CASE j = i
    <3>1. \A b \in Sup!Of(i) : approval[b].from <= from
      <4> SUFFICES ASSUME NEW b \in Sup!Of(i) PROVE approval[b].from <= from
        OBVIOUS
      <4>1. PICK c \in Sup!Current(i) : \A d \in Sup!Of(i) : approval[d].from <= approval[c].from
        BY <1>20 DEF OneCurrent
      <4>2. approval[b].from \in Nat /\ approval[c].from \in Nat /\ from \in Nat
        BY <1>10, <1>6 DEF Sup!Of
      <4>3. approval[b].from <= approval[c].from /\ from >= approval[c].from
        BY <1>3, <4>1
      <4> QED
        BY <4>2, <4>3
    <3>2. from <= from /\ Sup!Of(i) \subseteq Sup!Given
      BY DEF Sup!Of
    <3>3. \A b \in Sup!Of(i)' : approval'[b].from <= approval'[a].from
      BY <3>1, <3>2, <1>13, <1>15, <1>16
    <3> QED
      BY <2>1, <3>3, <1>17 DEF OneCurrent
  <2>2. CASE j # i
    <3>1. Sup!Of(j)' = Sup!Of(j) /\ Sup!Current(j)' = Sup!Current(j) /\ Sup!Of(j) \subseteq Sup!Given
      BY <2>2, <1>18, <1>19 DEF Sup!Of
    <3>2. \A b \in Sup!Of(j) : approval'[b].from = approval[b].from
      BY <3>1, <1>15
    <3>3. Sup!Current(j) \subseteq Sup!Of(j)
      BY DEF Sup!Current
    <3> QED
      BY <3>1, <3>2, <3>3, <1>20 DEF OneCurrent
  <2> QED
    BY <2>1, <2>2
<1>22. \A b \in Sup!Given' : approval'[b].status = "SUPERSEDED" =>
         b \in Sup!Given /\ (\/ b \in Sup!Current(i) /\ approval'[b].by = a
                             \/ b \notin Sup!Current(i) /\ approval'[b] = approval[b])
  BY <1>6, <1>9, <1>13, <1>14
<1>23. \A c \in Sup!Given : approval[c].status = "SUPERSEDED" =>
          approval[c].by \in Sup!Given /\ approval[c].by # a
  BY <1>2, <1>20 DEF Replaced, Sup!Of
<1>24. ASSUME NEW b \in Sup!Given' PROVE Replaced(b)'
  <2> SUFFICES ASSUME approval'[b].status = "SUPERSEDED"
               PROVE  /\ approval'[b].by \in Sup!Of(approval[b].of)'
                      /\ approval'[b].from <= approval'[approval'[b].by].from
                      /\ \A c \in Sup!Given' \ {b} :
                           approval'[c].status = "SUPERSEDED" => approval'[c].by # approval'[b].by
    BY <1>15, <1>22 DEF Replaced, Sup!Of
  <2>1. b \in Sup!Given
    BY <1>22
  <2>2. CASE b \in Sup!Current(i)
    <3>1. \A c \in Sup!Current(i) : c = b
      BY <2>2, <1>20 DEF OneCurrent, Sup!Current
    <3>2. \A c \in Sup!Given' \ {b} : approval'[c].status = "SUPERSEDED" => approval'[c].by # a
      BY <3>1, <1>22, <1>23
    <3>3. approval[b].from <= from
      BY <2>1, <2>2, <1>3, <1>10
    <3> QED
      BY <2>2, <3>2, <3>3, <1>13, <1>16 DEF Sup!Current, Sup!Of
  <2>3. CASE b \notin Sup!Current(i)
    <3>1. approval'[b] = approval[b]
      BY <2>3, <1>22
    <3>2. PICK s : s = approval[b].by
      OBVIOUS
    <3>3. /\ s \in Sup!Of(approval[b].of) /\ approval[b].from <= approval[s].from
          /\ \A c \in Sup!Given \ {b} : approval[c].status = "SUPERSEDED" => approval[c].by # s
      BY <2>1, <3>1, <3>2, <1>20 DEF Replaced
    <3>4. s # a /\ s \in Sup!Given
      BY <2>1, <3>1, <3>2, <1>23
    <3>5. s \in Sup!Given' /\ approval'[s].from = approval[s].from /\ approval'[s].of = approval[b].of
      BY <3>3, <3>4, <1>14, <1>15 DEF Sup!Of
    <3>6. \A c \in Sup!Given' \ {b} : approval'[c].status = "SUPERSEDED" => approval'[c].by # s
      BY <3>3, <3>4, <1>22
    <3> QED
      BY <3>1, <3>2, <3>3, <3>5, <3>6 DEF Sup!Of
  <2> QED
    BY <2>2, <2>3
<1>25. supplier' # "CANCELLED"
  BY <1>2, <1>5
<1>26. Sup!ApprovalsInLine'
  BY <1>21, <1>24, <1>25 DEF Sup!ApprovalsInLine, OneCurrent, Replaced
<1> QED
  BY <1>11, <1>12, <1>26 DEF InLine

\* Every step keeps the approvals in line.
LEMMA InLineKept ==
  ASSUME Dates \subseteq Nat, InLine, [Sup!Next]_(Sup!vars)
  PROVE  InLine'
<1> USE DEF InLine, SupplierTyped, SupplierLocked
<1>1. ASSUME Sup!ReleaseSupplier \/ Sup!CancelSupplier PROVE InLine'
  <2>1. \A r \in Approvers : approving[r] = Sup!Idle
    BY <1>1, HoldsUnlessIdle DEF Sup!ReleaseSupplier, Sup!CancelSupplier, Sup!Unlocked
  <2>2. UNCHANGED <<approval, approving>> /\ (supplier' = "CANCELLED" => cancelled' = Sup!Given)
        /\ supplier' \in {"RELEASED", "CANCELLED"} /\ (cancelled' = cancelled \/ cancelled' = Sup!Given)
    BY <1>1 DEF Sup!ReleaseSupplier, Sup!CancelSupplier
  <2>3. Sup!Given \subseteq Approvals /\ Sup!Given' = Sup!Given
    BY <2>2 DEF Sup!Given
  <2>4. Sup!ApprovalsInLine'
    BY <2>2, <2>3 DEF Sup!ApprovalsInLine, Sup!Of, Sup!Current, Sup!Given
  <2> QED
    BY <2>1, <2>2, <2>3, <2>4
<1>2. ASSUME NEW r \in Approvers, NEW i \in Tuples, NEW d \in Dates, Sup!BeginApproval(r, i, d)
      PROVE  InLine'
  <2>1. \A s \in Approvers : approving[s] = Sup!Idle
    BY <1>2, HoldsUnlessIdle DEF Sup!BeginApproval, Sup!Unlocked
  <2>2. Sup!ApprovalsInLine'
    BY <1>2 DEF Sup!BeginApproval, Sup!ApprovalsInLine, Sup!Of, Sup!Current, Sup!Given
  <2>3. SupplierTyped' /\ SupplierLocked'
    BY <1>2, <2>1 DEF Sup!BeginApproval
  <2> QED
    BY <2>2, <2>3
<1>3. ASSUME NEW r \in Approvers, Sup!RollBack(r) PROVE InLine'
  <2>1. Sup!ApprovalsInLine'
    BY <1>3 DEF Sup!RollBack, Sup!ApprovalsInLine, Sup!Of, Sup!Current, Sup!Given
  <2>2. SupplierTyped' /\ SupplierLocked'
    BY <1>3 DEF Sup!RollBack
  <2> QED
    BY <2>1, <2>2
<1>4. CASE UNCHANGED Sup!vars
  <2>1. UNCHANGED <<supplier, approval, approving, cancelled>>
    BY <1>4 DEF Sup!vars
  <2>2. Sup!ApprovalsInLine'
    BY <2>1 DEF Sup!ApprovalsInLine, Sup!Of, Sup!Current, Sup!Given
  <2>3. SupplierTyped' /\ SupplierLocked'
    BY <2>1
  <2> QED
    BY <2>2, <2>3
<1> QED
  BY <1>1, <1>2, <1>3, <1>4, ApprovalStep DEF Sup!Next

\* The approvals of each tuple are in line.
LEMMA InLineSound == InLine => Sup!ApprovalsInLine
BY DEF InLine

-----------------------------------------------------------------------------
\* Work execution.

ItemStatuses == {"READY", "ASSIGNED", "IN_PROGRESS", "BLOCKED", "COMPLETED", "CANCELLED"}

WorkTyped ==
  /\ workflow \in [Workflows -> [status : {"NONE"}]
                     \cup [on : DefinitionVersions, status : {"ACTIVE", "COMPLETED", "CANCELLED"}]]
  /\ workItem \in [WorkItems -> [status : {"NONE"}] \cup [in : Workflows, status : ItemStatuses]]
  /\ workLocal \in [WorkCallers -> {Work!Idle} \cup [for : {"workflow"}, on : DefinitionVersions]
                      \cup [for : {"item"}, in : Workflows] \cup [for : {"assignment"}, of : WorkItems]]
  /\ assigned \in SUBSET WorkItems /\ proof \in SUBSET WorkItems /\ lateItem \in SUBSET WorkItems

\* What was read for an item, or for its assignment.
ReadHonest(c) ==
  /\ workLocal[c].for = "item" => workLocal[c].in \in Work!Started
  /\ workLocal[c].for = "assignment" => workLocal[c].of \in Work!Created \ lateItem

\* An item is in a workflow that was started; open in a closed one, it is late.
ItemHonest(i) ==
  /\ workItem[i].in \in Work!Started
  /\ workflow[workItem[i].in].status \in Work!Closed /\ Work!Open(i) => i \in lateItem
  /\ i \in lateItem => workflow[workItem[i].in].status \in Work!Closed

Works ==
  /\ WorkTyped /\ assigned \subseteq Work!Created \ lateItem /\ lateItem \subseteq Work!Created
  /\ \A c \in WorkCallers : ReadHonest(c)
  /\ \A i \in Work!Created : ItemHonest(i)
  /\ \A i \in proof : workItem[i].status = "COMPLETED"

\* No workflow has been started.
LEMMA WorksInit == Work!Init => Works
BY DEF Work!Init, Works, WorkTyped, ReadHonest, ItemHonest, Work!Created, Work!Started,
   Work!Idle

\* The work on record when no item is created and no workflow is closed.
LEMMA ItemsStep ==
  ASSUME Works, WorkTyped', Work!Created' = Work!Created, Work!Started \subseteq Work!Started', lateItem' = lateItem,
         \A i \in Work!Created : workItem'[i].in = workItem[i].in,
         \A i \in Work!Created : ~Work!Open(i) => workItem'[i] = workItem[i],
         \A w \in Work!Started : workflow'[w].status \in Work!Closed =>
            \/ workflow'[w].status = workflow[w].status
            \/ \A i \in Work!Created : workItem[i].in = w => workItem'[i].status \in Work!Closed,
         \A w \in Work!Started : workflow[w].status \in Work!Closed => workflow'[w].status \in Work!Closed,
         assigned' \subseteq Work!Created \ lateItem,
         \A c \in WorkCallers : ReadHonest(c)',
         \A i \in proof' : workItem'[i].status = "COMPLETED"
  PROVE  Works'
<1>1. ASSUME NEW i \in Work!Created PROVE ItemHonest(i)'
  <2>1. ItemHonest(i) /\ workItem[i].in \in Work!Started
    BY DEF Works, ItemHonest
  <2> QED
    BY <2>1 DEF ItemHonest, Work!Open
<1> QED
  BY <1>1 DEF Works

\* Every step keeps the work in order.
LEMMA WorksKept ==
  ASSUME Works, [Work!Next]_(Work!vars)
  PROVE  Works'
<1>1. ASSUME \/ \E v \in DefinitionVersions : Work!PublishVersion(v) \/ Work!RetireVersion(v)
             \/ \E c \in WorkCallers, v \in DefinitionVersions : Work!ReadVersion(c, v)
             \/ \E c \in WorkCallers, w \in Workflows : Work!ReadWorkflow(c, w)
             \/ \E c \in WorkCallers, i \in WorkItems : Work!ReadForAssignment(c, i)
             \/ UNCHANGED Work!vars
      PROVE  Works'
  <2>1. /\ UNCHANGED <<workflow, workItem, assigned, proof, lateItem>>
        /\ Work!Created' = Work!Created /\ Work!Started' = Work!Started
    BY <1>1
    DEF Work!PublishVersion, Work!RetireVersion, Work!ReadVersion, Work!ReadWorkflow,
        Work!ReadForAssignment, Work!Read,
                Work!vars, Work!Created, Work!Started
  <2>2. \/ workLocal' = workLocal
        \/ \E c \in WorkCallers, v \in DefinitionVersions :
             workLocal' = [workLocal EXCEPT ![c] = [for |-> "workflow", on |-> v]]
        \/ \E c \in WorkCallers, w \in Work!Started :
             workLocal' = [workLocal EXCEPT ![c] = [for |-> "item", in |-> w]]
        \/ \E c \in WorkCallers, i \in Work!Created \ lateItem :
             workLocal' = [workLocal EXCEPT ![c] = [for |-> "assignment", of |-> i]]
    <3>1. ASSUME NEW c \in WorkCallers, NEW i \in WorkItems, Work!ReadForAssignment(c, i)
          PROVE  i \in Work!Created \ lateItem
      <4>1. i \in Work!Created /\ workflow[workItem[i].in].status = "ACTIVE"
        BY <3>1 DEF Work!ReadForAssignment
      <4> QED
        BY <4>1 DEF Works, ItemHonest, Work!Closed
    <3> QED
      BY <1>1, <3>1
      DEF Work!PublishVersion, Work!RetireVersion, Work!ReadVersion, Work!ReadWorkflow,
          Work!ReadForAssignment,
                        Work!Read, Work!vars, Work!Started
  <2>3. WorkTyped' /\ \A c \in WorkCallers : ReadHonest(c)'
    <3>1. CASE workLocal' = workLocal
      BY <2>1, <3>1 DEF Works, WorkTyped, ReadHonest
    <3>2. ASSUME NEW c \in WorkCallers, NEW v \in DefinitionVersions,
                 workLocal' = [workLocal EXCEPT ![c] = [for |-> "workflow", on |-> v]]
          PROVE  WorkTyped' /\ \A d \in WorkCallers : ReadHonest(d)'
      BY <2>1, <3>2 DEF Works, WorkTyped, ReadHonest
    <3>3. ASSUME NEW c \in WorkCallers, NEW w \in Work!Started,
                 workLocal' = [workLocal EXCEPT ![c] = [for |-> "item", in |-> w]]
          PROVE  WorkTyped' /\ \A d \in WorkCallers : ReadHonest(d)'
      <4>1. w \in Workflows
        BY DEF Work!Started
      <4> QED
        BY <2>1, <3>3, <4>1 DEF Works, WorkTyped, ReadHonest
    <3>4. ASSUME NEW c \in WorkCallers, NEW i \in Work!Created \ lateItem,
                 workLocal' = [workLocal EXCEPT ![c] = [for |-> "assignment", of |-> i]]
          PROVE  WorkTyped' /\ \A d \in WorkCallers : ReadHonest(d)'
      <4>1. i \in WorkItems
        BY DEF Work!Created
      <4> QED
        BY <2>1, <3>4, <4>1 DEF Works, WorkTyped, ReadHonest
    <3> QED
      BY <2>2, <3>1, <3>2, <3>3, <3>4
  <2> QED
    BY <2>1, <2>3, ItemsStep DEF Works
<1>2. ASSUME NEW c \in WorkCallers, NEW w \in Workflows, Work!StartWorkflow(c, w) PROVE Works'
  <2>1. /\ w \notin Work!Started /\ workLocal[c].for = "workflow"
        /\ workflow' = [workflow EXCEPT ![w] = [on |-> workLocal[c].on, status |-> "ACTIVE"]]
        /\ workLocal' = [workLocal EXCEPT ![c] = Work!Idle] /\ UNCHANGED <<workItem, assigned, proof, lateItem>>
    BY <1>2 DEF Work!StartWorkflow, Work!Finish
  <2>2. workLocal[c].on \in DefinitionVersions
    BY <2>1 DEF Works, WorkTyped, Work!Idle
  <2>3. /\ WorkTyped' /\ \A x \in Work!Started : workflow'[x] = workflow[x]
        /\ Work!Started \subseteq Work!Started' /\ Work!Created' = Work!Created
    BY <2>1, <2>2 DEF Works, WorkTyped, Work!Started, Work!Created
  <2>4. \A d \in WorkCallers : ReadHonest(d)'
    BY <2>1, <2>3 DEF Works, WorkTyped, ReadHonest, Work!Idle
  <2> QED
    BY <2>1, <2>3, <2>4, ItemsStep DEF Works
<1>3. ASSUME NEW w \in Workflows, Work!CompleteWorkflow(w) PROVE Works'
  <2>1. /\ workflow[w].status = "ACTIVE" /\ Work!OpenWork(w) = {}
        /\ workflow' = [workflow EXCEPT ![w].status = "COMPLETED"]
        /\ UNCHANGED <<workItem, assigned, proof, lateItem, workLocal>>
    BY <1>3 DEF Work!CompleteWorkflow
  <2>2. /\ WorkTyped' /\ Work!Started' = Work!Started /\ Work!Created' = Work!Created
        /\ workflow'[w].status = "COMPLETED"
        /\ \A x \in Workflows \ {w} : workflow'[x] = workflow[x]
    BY <2>1 DEF Works, WorkTyped, Work!Started, Work!Created
  <2>3. \A i \in Work!Created : workItem[i].in = w => workItem'[i].status \in Work!Closed
    BY <2>1 DEF Work!OpenWork, Work!ItemsOf, Work!Open
  <2>4. Work!Started \subseteq Workflows
    BY DEF Work!Started
  <2> QED
    BY <2>1, <2>2, <2>3, <2>4, ItemsStep DEF Works, ReadHonest, Work!Closed
<1>4. ASSUME NEW w \in Workflows, Work!CancelWorkflow(w) PROVE Works'
  <2>1. /\ workflow[w].status = "ACTIVE"
        /\ workflow' = [workflow EXCEPT ![w].status = "CANCELLED"]
        /\ UNCHANGED <<assigned, proof, lateItem, workLocal>>
    BY <1>4, Zenon DEF Work!CancelWorkflow
  <2>2. workItem' = [i \in WorkItems |->
                      IF i \in Work!OpenWork(w) THEN [workItem[i] EXCEPT !.status = "CANCELLED"] ELSE workItem[i]]
    BY <1>4, Zenon DEF Work!CancelWorkflow
  <2>3. \A i \in Work!Created : workItem[i] \in [in : Workflows, status : ItemStatuses]
    BY DEF Work!Created, Works, WorkTyped
  <2>4. ASSUME NEW i \in Work!OpenWork(w)
        PROVE  workItem'[i] = [in |-> w, status |-> "CANCELLED"]
    <3>1. i \in Work!Created /\ workItem[i].in = w /\ i \in WorkItems
      BY DEF Work!OpenWork, Work!ItemsOf, Work!Created
    <3>2. workItem'[i] = [workItem[i] EXCEPT !.status = "CANCELLED"]
      BY <2>2, <3>1, Zenon
    <3>3. workItem[i] \in [in : Workflows, status : ItemStatuses]
      BY <2>3, <3>1
    <3> QED
      BY <3>1, <3>2, <3>3
  <2>5. \A i \in WorkItems \ Work!OpenWork(w) : workItem'[i] = workItem[i]
    BY <2>2, Zenon
  <2>6. workItem' \in [WorkItems -> [status : {"NONE"}] \cup [in : Workflows, status : ItemStatuses]]
    <3>1. \A i \in WorkItems : workItem'[i] \in [status : {"NONE"}] \cup [in : Workflows, status : ItemStatuses]
      BY <2>4, <2>5 DEF Works, WorkTyped, ItemStatuses
    <3> QED
      BY <2>2, <3>1, Zenon
  <2>7. /\ WorkTyped' /\ Work!Started' = Work!Started /\ workflow'[w].status = "CANCELLED"
        /\ \A x \in Workflows \ {w} : workflow'[x] = workflow[x]
    BY <2>1, <2>6 DEF Works, WorkTyped, Work!Started
  <2>8. \A i \in Work!OpenWork(w) : /\ i \in Work!Created /\ workItem[i].in = w /\ Work!Open(i)
                                    /\ workItem'[i].in = w /\ workItem'[i].status = "CANCELLED"
    BY <2>4 DEF Work!OpenWork, Work!ItemsOf
  <2>9. Work!Created' = Work!Created
    BY <2>5, <2>8 DEF Work!Created
  <2>10. /\ \A i \in Work!Created : workItem'[i].in = workItem[i].in
         /\ \A i \in Work!Created : ~Work!Open(i) => workItem'[i] = workItem[i]
         /\ \A i \in Work!Created : workItem[i].in = w => workItem'[i].status \in Work!Closed
    BY <2>5, <2>8 DEF Work!Created, Work!OpenWork, Work!ItemsOf, Work!Open, Work!Closed
  <2>11. \A i \in proof : workItem'[i].status = "COMPLETED"
    BY <2>5, <2>8 DEF Works, WorkTyped, Work!Open, Work!Closed
  <2>12. Work!Started \subseteq Workflows
    BY DEF Work!Started
  <2> QED
    BY <2>1, <2>7, <2>9, <2>10, <2>11, <2>12, ItemsStep DEF Works, ReadHonest, Work!Closed
<1>5. ASSUME NEW c \in WorkCallers, NEW i \in WorkItems, Work!CreateWorkItem(c, i) PROVE Works'
  <2>1. PICK w \in Work!Started : w = workLocal[c].in
    BY <1>5 DEF Work!CreateWorkItem, Works, ReadHonest
  <2>2. /\ i \notin Work!Created /\ UNCHANGED <<workflow, assigned, proof>>
        /\ workItem' = [workItem EXCEPT ![i] = [in |-> w, status |-> "READY"]]
        /\ lateItem' = IF workflow[w].status \in Work!Closed THEN lateItem \cup {i} ELSE lateItem
        /\ workLocal' = [workLocal EXCEPT ![c] = Work!Idle]
    BY <1>5, <2>1 DEF Work!CreateWorkItem, Work!Finish
  <2>3. /\ workItem'[i].in = w /\ workItem'[i].status = "READY"
        /\ \A j \in WorkItems \ {i} : workItem'[j] = workItem[j]
        /\ WorkTyped' /\ Work!Started' = Work!Started
    BY <2>2 DEF Works, WorkTyped, Work!Started, ItemStatuses
  <2>4. Work!Created' = Work!Created \cup {i} /\ Work!Created \subseteq WorkItems
    BY <2>3 DEF Work!Created
  <2>5. ASSUME NEW j \in Work!Created' PROVE ItemHonest(j)'
    BY <2>1, <2>2, <2>3, <2>4 DEF Works, ItemHonest, Work!Open
  <2>6. \A d \in WorkCallers : ReadHonest(d)'
    <3>1. \A d \in WorkCallers : /\ d # c => workLocal'[d] = workLocal[d]
                                 /\ workLocal'[c] = Work!Idle
      BY <2>2 DEF Works, WorkTyped
    <3> QED
      BY <2>2, <2>3, <2>4, <3>1 DEF Works, ReadHonest, Work!Idle
  <2>7. \A j \in proof' : workItem'[j].status = "COMPLETED"
    BY <2>2, <2>3 DEF Works, WorkTyped, Work!Created
  <2> QED
    BY <2>2, <2>3, <2>4, <2>5, <2>6, <2>7 DEF Works
<1>6. ASSUME NEW c \in WorkCallers, Work!AssignWork(c) PROVE Works'
  <2>1. PICK i \in Work!Created \ lateItem : i = workLocal[c].of
    BY <1>6 DEF Work!AssignWork, Works, ReadHonest
  <2>2. /\ UNCHANGED <<workflow, proof, lateItem>> /\ workLocal' = [workLocal EXCEPT ![c] = Work!Idle]
        /\ \/ /\ Work!Open(i) /\ assigned' = assigned \cup {i}
              /\ workItem' = [workItem EXCEPT ![i].status = "ASSIGNED"] \/ workItem' = workItem
           \/ UNCHANGED <<assigned, workItem>>
    BY <1>6, <2>1 DEF Work!AssignWork, Work!Assignable, Work!Finish
  <2>3. Work!Created \subseteq WorkItems /\ workItem[i] \in [in : Workflows, status : ItemStatuses]
    BY DEF Work!Created, Works, WorkTyped
  <2>4. /\ WorkTyped' /\ Work!Started' = Work!Started /\ Work!Created' = Work!Created
        /\ assigned' \subseteq Work!Created \ lateItem
        /\ \A j \in Work!Created : workItem'[j].in = workItem[j].in /\ (~Work!Open(j) => workItem'[j] = workItem[j])
    BY <2>2, <2>3 DEF Works, WorkTyped, Work!Started, Work!Created, ItemStatuses, Work!Open
  <2>5. \A d \in WorkCallers : ReadHonest(d)'
    <3>1. \A d \in WorkCallers : /\ d # c => workLocal'[d] = workLocal[d]
                                 /\ workLocal'[c] = Work!Idle
      BY <2>2 DEF Works, WorkTyped
    <3> QED
      BY <2>2, <2>4, <3>1 DEF Works, ReadHonest, Work!Idle
  <2>6. \A j \in proof : ~Work!Open(j) /\ j \in Work!Created
    BY DEF Works, WorkTyped, Work!Open, Work!Closed, Work!Created
  <2> QED
    BY <2>2, <2>4, <2>5, <2>6, ItemsStep DEF Works
<1>7. ASSUME NEW i \in WorkItems, NEW From \in SUBSET (ItemStatuses \ Work!Closed), NEW to \in ItemStatuses,
             Work!Transition(i, From, to)
      PROVE  Works'
  <2>1. /\ workItem[i].status \in ItemStatuses \ Work!Closed /\ workItem' = [workItem EXCEPT ![i].status = to]
        /\ UNCHANGED <<workflow, assigned, proof, lateItem, workLocal>>
    BY <1>7 DEF Work!Transition
  <2>2. workItem[i] \in [in : Workflows, status : ItemStatuses]
    BY <2>1 DEF Works, WorkTyped, ItemStatuses
  <2>3. /\ WorkTyped' /\ Work!Started' = Work!Started /\ Work!Created' = Work!Created
        /\ \A j \in Work!Created : workItem'[j].in = workItem[j].in /\ (~Work!Open(j) => workItem'[j] = workItem[j])
    BY <2>1, <2>2 DEF Works, WorkTyped, Work!Started, Work!Created, ItemStatuses, Work!Open
  <2>4. \A j \in proof : ~Work!Open(j) /\ j \in Work!Created
    BY DEF Works, WorkTyped, Work!Open, Work!Closed, Work!Created
  <2> QED
    BY <2>1, <2>3, <2>4, ItemsStep DEF Works, ReadHonest
<1>8. ASSUME NEW i \in WorkItems, Work!LinkCompletionEvidence(i) PROVE Works'
  BY <1>8 DEF Work!LinkCompletionEvidence, Works, WorkTyped, ReadHonest, ItemHonest,
     Work!Created, Work!Started, Work!Open
<1>9. ASSUME NEW i \in WorkItems,
             \/ Work!StartWorkItem(i) \/ Work!BlockWorkItem(i) \/ Work!ResumeWorkItem(i)
             \/ Work!CompleteWorkItem(i) \/ Work!CancelWorkItem(i)
      PROVE  Works'
  BY <1>7, <1>9
  DEF Work!StartWorkItem, Work!BlockWorkItem, Work!ResumeWorkItem, Work!CompleteWorkItem,
      Work!CancelWorkItem,
                    ItemStatuses, Work!Closed
<1> QED
  BY <1>1, <1>2, <1>3, <1>4, <1>5, <1>6, <1>8, <1>9 DEF Work!Next

\* What is open in a closed workflow is late and nobody's.
LEMMA WorksSound == Works => Work!ClosedIsDone
BY DEF Works, Work!ClosedIsDone, ItemHonest, Work!OpenWork, Work!ItemsOf, Work!Created,
   Work!Started

-----------------------------------------------------------------------------
\* The functional framework.

\* A capacity as it is inserted.
CapacityRows ==
  [percent : 0..100, from : 1..LastDay, to : 1..LastDay + 1, unseen : BOOLEAN]

FrameworkTyped ==
  /\ governance \in [GovernanceVersions -> {"NONE", "DRAFT", "PUBLISHED", "RETIRED"}]
  /\ capacity \in Seq(CapacityRows)
  /\ govLocal \in [GovernanceCallers -> {Fun!Idle}
                     \cup [for : {"publish"}, version : GovernanceVersions, unseen : BOOLEAN]
                     \cup [for : {"allocate"}, row : CapacityRows]]

Percentages == [a \in Fun!Rows |-> capacity[a].percent]
Seen(day) == {a \in Fun!InForce(day) : ~capacity[a].unseen}
TotalSeen(day) == Cardinality(Points(Seen(day), Percentages))

\* One version is published that was seen by what follows, and no other while a caller
\* has counted.
OneIsPublished ==
  /\ \A u, v \in Fun!Published \ unseen : u = v
  /\ \A c \in GovernanceCallers : govLocal[c].for = "publish" /\ ~govLocal[c].unseen =>
       Fun!Published \ {govLocal[c].version} = {}

\* What is asked for by a caller who has seen every capacity, there is room for.
Room(c) ==
  govLocal[c].for = "allocate" /\ ~govLocal[c].row.unseen =>
    \A day \in govLocal[c].row.from..govLocal[c].row.to :
      TotalSeen(day) + govLocal[c].row.percent <= 100

Framework ==
  /\ FrameworkTyped /\ OneIsPublished
  /\ \A day \in 1..LastDay + 1 : TotalSeen(day) <= 100
  /\ \A c \in GovernanceCallers : Room(c)

\* The module counts as the sums do.
LEMMA TotalsCounted == \A T : Fun!Cardinality(T) = Cardinality(T)
BY DEF Fun!Cardinality, Cardinality

\* The rows in force are weighed with their percentages.
LEMMA RowsWeighed ==
  ASSUME FrameworkTyped, NEW S \in SUBSET Fun!Rows
  PROVE  /\ Weighed(S, Percentages)
         /\ Fun!Total(S) = Cardinality(Points(S, Percentages))
<1>1. Len(capacity) \in Nat /\ \A a \in Fun!Rows : capacity[a] \in CapacityRows
  BY DEF FrameworkTyped, Fun!Rows
<1>2. IsFiniteSet(Fun!Rows)
  <2>1. 1 \in Int /\ Len(capacity) \in Int
    BY <1>1
  <2> QED
    BY ONLY <2>1, FS_Interval, Zenon DEF Fun!Rows
<1>3. IsFiniteSet(S)
  BY <1>2, FS_Subset
<1>4. Weighed(S, Percentages)
  BY <1>1, <1>3 DEF Weighed, Percentages, CapacityRows
<1>5. UNION {{a} \X (1..capacity[a].percent) : a \in S} = Points(S, Percentages)
  BY DEF Points, Percentages
<1> QED
  BY <1>4, <1>5, TotalsCounted DEF Fun!Total

\* Nothing is published or allocated yet.
LEMMA FrameworkInit == Fun!FrameworkAssumption /\ Fun!Init => Framework
<1> SUFFICES ASSUME Fun!FrameworkAssumption, Fun!Init PROVE Framework
  OBVIOUS
<1>1. FrameworkTyped /\ OneIsPublished /\ \A c \in GovernanceCallers : Room(c)
  BY DEF Fun!Init, FrameworkTyped, OneIsPublished, Fun!Published, Room, Fun!Idle
<1>2. ASSUME NEW day \in 1..LastDay + 1 PROVE TotalSeen(day) <= 100
  <2>1. Seen(day) = {}
    BY DEF Fun!Init, Seen, Fun!InForce, Fun!Rows
  <2> QED
    BY <2>1, PointsOfNone DEF TotalSeen
<1> QED
  BY <1>1, <1>2 DEF Framework

\* A step that leaves the rows alone leaves room for what was asked for before, and
\* the caller who then asks has been told of the room there is.
LEMMA RowsAlone ==
  ASSUME Framework, capacity' = capacity, FrameworkTyped', OneIsPublished',
         \A c \in GovernanceCallers : govLocal'[c] = govLocal[c] \/ govLocal'[c].for # "allocate" \/ Room(c)'
  PROVE  Framework'
<1>1. \A day : TotalSeen(day)' = TotalSeen(day)
  BY DEF TotalSeen, Seen, Fun!InForce, Fun!Rows, Percentages
<1>2. ASSUME NEW c \in GovernanceCallers PROVE Room(c)'
  <2>1. CASE govLocal'[c] = govLocal[c]
    BY <1>1, <2>1 DEF Framework, Room
  <2> QED
    BY <2>1 DEF Room
<1> QED
  BY <1>1, <1>2 DEF Framework

\* A publication: the callers that have counted are now outdated.
LEMMA PublishKept ==
  ASSUME Framework, NEW c \in GovernanceCallers, Fun!PublishGovernanceVersion(c)
  PROVE  Framework'
<1> DEFINE v == govLocal[c].version
<1>1. /\ FrameworkTyped /\ v \in GovernanceVersions /\ govLocal[c].unseen \in BOOLEAN
      /\ govLocal[c] = [for |-> "publish", version |-> v, unseen |-> govLocal[c].unseen]
  BY DEF Framework, FrameworkTyped, Fun!PublishGovernanceVersion, Fun!Idle
<1>2. ASSUME NEW d \in GovernanceCallers
      PROVE  /\ govLocal'[d] \in {Fun!Idle} \cup [for : {"publish"}, version : GovernanceVersions, unseen : BOOLEAN]
                                   \cup [for : {"allocate"}, row : CapacityRows]
             /\ govLocal'[d].for # "publish" \/ govLocal'[d].unseen
             /\ govLocal'[d].for # "allocate" \/ govLocal'[d] = govLocal[d]
  <2>1. CASE d # c /\ govLocal[d].for = "publish"
    <3>1. govLocal[d] \in [for : {"publish"}, version : GovernanceVersions, unseen : BOOLEAN]
      BY <1>1, <2>1 DEF FrameworkTyped, Fun!Idle
    <3>2. govLocal'[d] = [govLocal[d] EXCEPT !.unseen = TRUE]
      BY <2>1 DEF Fun!PublishGovernanceVersion
    <3> QED
      BY <3>1, <3>2
  <2>2. CASE d = c \/ govLocal[d].for # "publish"
    <3>1. govLocal'[d] = Fun!Idle \/ (govLocal'[d] = govLocal[d] /\ govLocal[d].for # "publish")
      BY <2>2 DEF Fun!PublishGovernanceVersion
    <3> QED
      BY <1>1, <3>1 DEF FrameworkTyped, Fun!Idle
  <2> QED
    BY <2>1, <2>2
<1>3. FrameworkTyped'
  BY <1>1, <1>2 DEF FrameworkTyped, Fun!PublishGovernanceVersion
<1>4. OneIsPublished'
  <2>1. Fun!Published' = Fun!Published \cup {v}
    BY <1>1 DEF FrameworkTyped, Fun!PublishGovernanceVersion, Fun!Published
  <2>2. \A u, w \in Fun!Published' \ unseen' : u = w
    <3>1. CASE govLocal[c].unseen
      BY <2>1, <3>1 DEF Framework, OneIsPublished, Fun!PublishGovernanceVersion
    <3>2. CASE ~govLocal[c].unseen
      BY <2>1, <3>2 DEF Framework, OneIsPublished, Fun!PublishGovernanceVersion
    <3> QED
      BY <3>1, <3>2
  <2> QED
    BY <1>2, <2>2 DEF OneIsPublished
<1> QED
  BY <1>2, <1>3, <1>4, RowsAlone DEF Fun!PublishGovernanceVersion, Framework

\* A caller who asks has been told of all the capacities that overlap the period.
LEMMA AskKept ==
  ASSUME Framework, Percents \subseteq Nat, LastDay \in Nat,
         NEW c \in GovernanceCallers, NEW p \in Percents, NEW d \in Fun!Periods,
         Fun!BeginAllocate(c, p, d[1], d[2])
  PROVE  Framework'
<1> DEFINE Over == {a \in Fun!Rows : Fun!Overlaps(a, d[1], d[2])}
           row == [percent |-> p, from |-> d[1], to |-> d[2], unseen |-> FALSE]
<1>1. FrameworkTyped /\ d[1] \in 1..LastDay /\ d[2] \in 1..LastDay + 1 /\ p \in Nat
  BY DEF Framework, Fun!Periods, Fun!Days
<1>2. /\ Fun!Total(Over) + p <= 100 /\ capacity' = capacity
      /\ govLocal' = [govLocal EXCEPT ![c] = [for |-> "allocate", row |-> row]]
      /\ governance' = governance /\ unseen' = unseen
  BY DEF Fun!BeginAllocate
<1>3. Weighed(Over, Percentages) /\ Fun!Total(Over) = Cardinality(Points(Over, Percentages))
  BY <1>1, RowsWeighed
<1>4. Fun!Total(Over) \in Nat
  BY <1>3, PointsFinite
<1>5. p \in 0..100
  BY <1>1, <1>2, <1>4
<1> HIDE DEF Over, row
<1>6. /\ row \in CapacityRows
      /\ row.percent = p /\ row.from = d[1] /\ row.to = d[2]
  BY <1>1, <1>5 DEF row, CapacityRows
<1>7. FrameworkTyped'
  BY <1>1, <1>2, <1>6 DEF FrameworkTyped
<1>8. \A e \in GovernanceCallers : govLocal'[e] = IF e = c THEN [for |-> "allocate", row |-> row] ELSE govLocal[e]
  BY <1>1, <1>2 DEF FrameworkTyped
<1>9. OneIsPublished'
  BY <1>2, <1>8 DEF Framework, OneIsPublished, Fun!Published
<1>10. ASSUME NEW day \in d[1]..d[2] PROVE TotalSeen(day) + p <= 100
  <2>1. Len(capacity) \in Nat /\ \A a \in Fun!Rows : capacity[a] \in CapacityRows
    BY <1>1 DEF FrameworkTyped, Fun!Rows
  <2>2. Seen(day) \in SUBSET Over
    <3> SUFFICES ASSUME NEW a \in Seen(day) PROVE a \in Over
      OBVIOUS
    <3>1. a \in Fun!Rows /\ capacity[a].from <= day /\ day <= capacity[a].to
      BY DEF Seen, Fun!InForce
    <3>2. capacity[a].from \in Nat /\ capacity[a].to \in Nat
      BY <2>1, <3>1 DEF CapacityRows
    <3> QED
      BY <1>1, <3>1, <3>2 DEF Over, Fun!Overlaps
  <2>3. /\ TotalSeen(day) \in Nat
        /\ TotalSeen(day) <= Cardinality(Points(Over, Percentages))
    BY <1>3, <2>2, PointsFewer DEF TotalSeen
  <2> QED
    BY <1>1, <1>2, <1>3, <1>4, <2>3
<1>11. \A day : TotalSeen(day)' = TotalSeen(day)
  BY <1>2 DEF TotalSeen, Seen, Fun!InForce, Fun!Rows, Percentages
<1>12. Room(c)'
  BY <1>6, <1>8, <1>10, <1>11 DEF Room
<1> QED
  BY <1>2, <1>7, <1>8, <1>9, <1>12, RowsAlone

\* A capacity is inserted: there is room for it unless another was inserted since, and
\* then it is not counted among those that have seen the others.
LEMMA AllocateKept ==
  ASSUME Framework, LastDay \in Nat, NEW c \in GovernanceCallers, Fun!CreateDeploymentCapacity(c)
  PROVE  Framework'
<1> DEFINE row == govLocal[c].row
           n == Len(capacity) + 1
<1>1. FrameworkTyped /\ row \in CapacityRows /\ govLocal[c].for = "allocate" /\ n \in Nat
  BY DEF Framework, FrameworkTyped, Fun!CreateDeploymentCapacity, Fun!Idle
<1>2. /\ capacity' = Append(capacity, row) /\ Fun!Rows' = Fun!Rows \cup {n} /\ n \notin Fun!Rows
      /\ capacity'[n] = row /\ \A a \in Fun!Rows : capacity'[a] = capacity[a] /\ capacity[a] \in CapacityRows
      /\ capacity' \in Seq(CapacityRows)
  BY <1>1 DEF FrameworkTyped, Fun!CreateDeploymentCapacity, Fun!Rows
<1>3. ASSUME NEW d \in GovernanceCallers
      PROVE  /\ govLocal'[d] \in {Fun!Idle} \cup [for : {"publish"}, version : GovernanceVersions, unseen : BOOLEAN]
                                   \cup [for : {"allocate"}, row : CapacityRows]
             /\ govLocal'[d].for # "allocate" \/ govLocal'[d].row.unseen
             /\ govLocal'[d].for # "publish" \/ govLocal'[d] = govLocal[d]
  <2>1. CASE d # c /\ govLocal[d].for = "allocate"
    <3>1. govLocal[d].row \in CapacityRows /\ govLocal[d] = [for |-> "allocate", row |-> govLocal[d].row]
      BY <1>1, <2>1 DEF FrameworkTyped, Fun!Idle
    <3> DEFINE outdated == [govLocal[d].row EXCEPT !.unseen = TRUE]
    <3>2. govLocal'[d] = [for |-> "allocate", row |-> outdated]
      BY <2>1, <3>1 DEF Fun!CreateDeploymentCapacity
    <3>3. outdated \in CapacityRows /\ outdated.unseen
      BY <3>1 DEF CapacityRows
    <3> HIDE DEF outdated
    <3>4. govLocal'[d].for = "allocate" /\ govLocal'[d].row = outdated
      BY <3>2
    <3> QED
      BY <3>2, <3>3, <3>4
  <2>2. CASE d = c \/ govLocal[d].for # "allocate"
    <3>1. govLocal'[d] = Fun!Idle \/ (govLocal'[d] = govLocal[d] /\ govLocal[d].for # "allocate")
      BY <2>2 DEF Fun!CreateDeploymentCapacity
    <3> QED
      BY <1>1, <3>1 DEF FrameworkTyped, Fun!Idle
  <2> QED
    BY <2>1, <2>2
<1> HIDE DEF row, n
<1>4. FrameworkTyped'
  BY <1>1, <1>2, <1>3 DEF FrameworkTyped, Fun!CreateDeploymentCapacity
<1>5. OneIsPublished'
  <2>1. Fun!Published' = Fun!Published /\ unseen' = unseen
    BY DEF Fun!Published, Fun!CreateDeploymentCapacity
  <2>2. ASSUME NEW d \in GovernanceCallers, govLocal'[d].for = "publish" PROVE govLocal'[d] = govLocal[d]
    BY <1>3, <2>2
  <2> QED
    BY <2>1, <2>2 DEF Framework, OneIsPublished
<1>6. ASSUME NEW day \in 1..LastDay + 1 PROVE TotalSeen(day)' <= 100
  <2>1. /\ TotalSeen(day) <= 100 /\ Room(c)
    BY DEF Framework
  <2>2. Seen(day) \in SUBSET Fun!Rows /\ Seen(day) \subseteq Fun!Rows
    BY DEF Seen, Fun!InForce
  <2>3. Weighed(Seen(day), Percentages)
    BY <1>1, <2>2, RowsWeighed
  <2>4. \A a \in Seen(day) : Percentages[a] = Percentages'[a]
    BY <1>2, <2>2 DEF Percentages
  <2>5. Points(Seen(day), Percentages) = Points(Seen(day), Percentages')
    BY <2>4, PointsAlike
  <2>6. Percentages'[n] = row.percent
    BY <1>2 DEF Percentages
  <2>7. n \notin Seen(day)
    BY <1>2, <2>2
  <2>8. CASE n \in Seen(day)'
    <3>1. Seen(day)' = Seen(day) \cup {n} /\ ~row.unseen /\ row.from <= day /\ day <= row.to
      BY <1>2, <2>8 DEF Seen, Fun!InForce
    <3>2. TotalSeen(day) + row.percent <= 100
      BY <1>1, <2>1, <3>1 DEF Room, row, CapacityRows
    <3>3. Cardinality(Points(Seen(day) \cup {n}, Percentages'))
            = Cardinality(Points(Seen(day), Percentages)) + Percentages'[n]
      <4>1. Percentages'[n] \in 0..100
        BY <1>1, <2>6 DEF CapacityRows
      <4> QED
        BY <2>3, <2>4, <2>7, <4>1, PointsInserted
    <3>4. TotalSeen(day)' = TotalSeen(day) + row.percent
      BY <2>6, <3>1, <3>3 DEF TotalSeen
    <3> QED
      BY <3>2, <3>4
  <2>9. CASE n \notin Seen(day)'
    <3>1. Seen(day)' = Seen(day)
      BY <1>2, <2>9 DEF Seen, Fun!InForce
    <3> QED
      BY <2>1, <2>5, <3>1 DEF TotalSeen
  <2> QED
    BY <2>8, <2>9
<1> QED
  BY <1>3, <1>4, <1>5, <1>6 DEF Framework, Room

\* Each step of the functional framework keeps it.
LEMMA FrameworkKept == Fun!FrameworkAssumption /\ Framework /\ [Fun!Next]_(Fun!vars) => Framework'
<1> SUFFICES ASSUME Fun!FrameworkAssumption, Framework, [Fun!Next]_(Fun!vars) PROVE Framework'
  OBVIOUS
<1>1. FrameworkTyped /\ OneIsPublished /\ Percents \subseteq Nat /\ LastDay \in Nat
  BY DEF Framework, Fun!FrameworkAssumption
<1>2. ASSUME NEW v \in GovernanceVersions, Fun!CreateGovernanceVersion(v) \/ Fun!RetireGovernanceVersion(v)
      PROVE  Framework'
  <2>1. FrameworkTyped'
    BY <1>1, <1>2 DEF FrameworkTyped, Fun!CreateGovernanceVersion, Fun!RetireGovernanceVersion
  <2>2. Fun!Published' \subseteq Fun!Published /\ govLocal' = govLocal /\ unseen' = unseen
    BY <1>1, <1>2
    DEF FrameworkTyped, Fun!Published, Fun!CreateGovernanceVersion, Fun!RetireGovernanceVersion
  <2>3. OneIsPublished'
    BY <1>1, <2>2 DEF OneIsPublished
  <2> QED
    BY <1>2, <2>1, <2>2, <2>3, RowsAlone
    DEF Fun!CreateGovernanceVersion, Fun!RetireGovernanceVersion
<1>3. ASSUME NEW c \in GovernanceCallers, NEW v \in GovernanceVersions, Fun!BeginPublish(c, v) PROVE Framework'
  <2>1. govLocal' = [govLocal EXCEPT ![c] = [for |-> "publish", version |-> v, unseen |-> FALSE]]
        /\ governance' = governance /\ unseen' = unseen /\ capacity' = capacity
    BY <1>3 DEF Fun!BeginPublish
  <2>2. \A d \in GovernanceCallers : govLocal'[d] = IF d = c THEN [for |-> "publish", version |-> v, unseen |-> FALSE]
                                                    ELSE govLocal[d]
    BY <1>1, <2>1 DEF FrameworkTyped
  <2>3. FrameworkTyped'
    BY <1>1, <2>1 DEF FrameworkTyped
  <2>4. OneIsPublished'
    BY <1>1, <1>3, <2>1, <2>2
    DEF OneIsPublished, Fun!Published, Fun!BeginPublish, Fun!OthersPublished
  <2> QED
    BY <2>1, <2>2, <2>3, <2>4, RowsAlone
<1>4. CASE UNCHANGED Fun!vars
  <2>1. FrameworkTyped' /\ OneIsPublished'
    BY <1>1, <1>4 DEF Fun!vars, FrameworkTyped, OneIsPublished, Fun!Published
  <2> QED
    BY <1>4, <2>1, RowsAlone DEF Fun!vars
<1> QED
  BY <1>1, <1>2, <1>3, <1>4, PublishKept, AskKept, AllocateKept DEF Fun!Next

\* One version is published and no day has more than 100 percent, but for what was not
\* seen.
LEMMA FrameworkSound == Fun!FrameworkAssumption /\ Framework => Fun!LimitsKept
<1> SUFFICES ASSUME Framework PROVE Fun!LimitsKept
  OBVIOUS
<1>1. Cardinality(Fun!Published \ unseen) <= 1
  <2>1. CASE Fun!Published \ unseen = {}
    BY <2>1, FS_EmptySet
  <2>2. CASE Fun!Published \ unseen # {}
    <3>1. PICK v : Fun!Published \ unseen = {v}
      BY <2>2 DEF Framework, OneIsPublished
    <3> QED
      BY <3>1, FS_Singleton
  <2> QED
    BY <2>1, <2>2
<1>2. ASSUME NEW day \in 1..LastDay + 1
      PROVE  Fun!Total({a \in Fun!InForce(day) : ~capacity[a].unseen}) <= 100
  <2>1. Seen(day) \in SUBSET Fun!Rows
    BY DEF Seen, Fun!InForce
  <2>2. Fun!Total(Seen(day)) = TotalSeen(day) /\ TotalSeen(day) <= 100
    BY <2>1, RowsWeighed DEF Framework, TotalSeen
  <2> QED
    BY <2>2 DEF Seen
<1> QED
  BY <1>1, <1>2, TotalsCounted DEF Fun!LimitsKept

-----------------------------------------------------------------------------
\* Change control.

\* Rows of different tables have different ids.
DistinctIds ==
  /\ Actions \cap Discrepancies = {}
  /\ {"row", "PASS", "FAIL"} \cap (Actions \cup Discrepancies) = {}

\* A row to be inserted is of the table that its id says.
RowOK(row) ==
  \/ row.of \in {"affected", "assessment"} /\ row.id = "row"
  \/ row.of = "action" /\ row.id \in Actions
  \/ row.of = "discrepancy" /\ row.id \in Discrepancies
  \/ row.of = "verification" /\ row.id \in {"PASS", "FAIL"}

ChangeTyped ==
  /\ change \in Chg!Statuses /\ outline \in SUBSET {"affected", "assessment"}
  /\ action \in [Actions -> {"NONE", "PLANNED", "IN_PROGRESS", "COMPLETED"}]
  /\ discrepancy \in [Discrepancies -> {"NONE", "OPEN", "RESOLVED"}]
  /\ verifications \in SUBSET {"PASS", "FAIL"}
  /\ \A row \in changePending : RowOK(row)
  /\ lateRows \in SUBSET (Actions \cup Discrepancies)

\* What the transitions have counted on the way.
Counted ==
  /\ change \notin {"DRAFT", "UNDER_ASSESSMENT"} => outline = {"affected", "assessment"}
  /\ change = "VERIFYING" => \E a \in Actions : action[a] # "NONE"
  /\ change # "CLOSED" => lateRows = {}

Change == ChangeTyped /\ Counted /\ Chg!ClosedIsSettled

\* A draft has nothing.
LEMMA ChangeInit == Chg!Init => Change
BY DEF Chg!Init, Change, ChangeTyped, Counted, Chg!ClosedIsSettled, Chg!Statuses

\* The insertion of a row that was checked.
LEMMA InsertKept ==
  ASSUME DistinctIds, Change, NEW row \in changePending,
         \/ Chg!AddOutline(row) \/ Chg!CreateImplementationAction(row)
         \/ Chg!CreateVerification(row) \/ Chg!CreateDiscrepancy(row)
  PROVE  Change'
<1> USE DEF Change, ChangeTyped, Counted
<1>1. change' = change /\ RowOK(row) /\ Chg!Insert(row)
  BY DEF Chg!AddOutline, Chg!CreateImplementationAction, Chg!CreateVerification,
     Chg!CreateDiscrepancy
<1>2. /\ lateRows' \in SUBSET (Actions \cup Discrepancies) /\ lateRows \subseteq lateRows'
      /\ lateRows' \subseteq lateRows \cup {row.id}
      /\ change # "CLOSED" => lateRows' = lateRows
      /\ \A other \in changePending' : RowOK(other)
  BY <1>1 DEF Chg!Insert
<1>3. change = "CLOSED" /\ row.id \in Actions \cup Discrepancies => row.id \in lateRows'
  BY <1>1 DEF Chg!Insert
<1>4. CASE Chg!AddOutline(row)
  <2>1. row.id = "row" /\ outline' = outline \cup {row.of} /\ row.of \in {"affected", "assessment"}
        /\ UNCHANGED <<action, discrepancy, verifications>>
    BY <1>1, <1>4 DEF Chg!AddOutline, RowOK
  <2>2. lateRows' = lateRows
    BY <2>1, <1>2 DEF DistinctIds
  <2> QED
    BY <2>1, <2>2, <1>1, <1>2 DEF Chg!ClosedIsSettled, Chg!OpenActions, Chg!OpenDiscrepancies
<1>5. CASE Chg!CreateVerification(row)
  <2>1. row.id \in {"PASS", "FAIL"} /\ verifications' = verifications \cup {row.id}
        /\ UNCHANGED <<outline, action, discrepancy>>
    BY <1>1, <1>5 DEF Chg!CreateVerification, RowOK
  <2>2. lateRows' = lateRows
    BY <2>1, <1>2 DEF DistinctIds
  <2> QED
    BY <2>1, <2>2, <1>1, <1>2 DEF Chg!ClosedIsSettled, Chg!OpenActions, Chg!OpenDiscrepancies
<1>6. CASE Chg!CreateImplementationAction(row)
  <2> DEFINE n == row.id
  <2>1. n \in Actions /\ action[n] = "NONE" /\ action' = [action EXCEPT ![n] = "PLANNED"]
        /\ UNCHANGED <<outline, discrepancy, verifications>>
    BY <1>1, <1>6 DEF Chg!CreateImplementationAction, RowOK
  <2>2. lateRows' \subseteq lateRows \cup {n} /\ (change = "CLOSED" => n \in lateRows')
    BY <2>1, <1>2, <1>3
  <2> HIDE DEF n
  <2>3. /\ action'[n] = "PLANNED"
        /\ \A a \in Actions : a # n => action'[a] = action[a]
        /\ action' \in [Actions -> {"NONE", "PLANNED", "IN_PROGRESS", "COMPLETED"}]
    BY <2>1
  <2>4. Chg!OpenActions' = Chg!OpenActions \cup {n} /\ Chg!OpenDiscrepancies' = Chg!OpenDiscrepancies
    BY <2>1, <2>3 DEF Chg!OpenActions, Chg!OpenDiscrepancies
  <2>5. Chg!ClosedIsSettled'
    <3> SUFFICES ASSUME change = "CLOSED"
                 PROVE  /\ outline' = {"affected", "assessment"} /\ "PASS" \in verifications'
                        /\ Chg!OpenActions' \cup Chg!OpenDiscrepancies' \subseteq lateRows'
                        /\ \E a \in Actions \ lateRows' : action'[a] = "COMPLETED"
      BY <1>1 DEF Chg!ClosedIsSettled
    <3>1. PICK a \in Actions \ lateRows : action[a] = "COMPLETED"
      BY DEF Chg!ClosedIsSettled
    <3>2. a # n /\ a \in Actions \ lateRows' /\ action'[a] = "COMPLETED"
      BY <2>1, <2>2, <2>3, <3>1
    <3> QED
      BY <2>1, <2>2, <2>4, <3>2, <1>2 DEF Chg!ClosedIsSettled
  <2>6. ChangeTyped'
    BY <2>1, <2>3, <1>1, <1>2
  <2>7. Counted'
    BY <2>1, <2>3, <1>1, <1>2
  <2> QED
    BY <2>5, <2>6, <2>7
<1>7. CASE Chg!CreateDiscrepancy(row)
  <2> DEFINE n == row.id
  <2>1. n \in Discrepancies /\ n \notin Actions /\ discrepancy' = [discrepancy EXCEPT ![n] = "OPEN"]
        /\ UNCHANGED <<outline, action, verifications>>
    BY <1>1, <1>7 DEF Chg!CreateDiscrepancy, RowOK, DistinctIds
  <2>2. lateRows' \subseteq lateRows \cup {n} /\ (change = "CLOSED" => n \in lateRows')
    BY <2>1, <1>2, <1>3
  <2> HIDE DEF n
  <2>3. /\ \A d \in Discrepancies : d # n => discrepancy'[d] = discrepancy[d]
        /\ discrepancy' \in [Discrepancies -> {"NONE", "OPEN", "RESOLVED"}]
    BY <2>1
  <2>4. Chg!OpenActions' = Chg!OpenActions /\ Chg!OpenDiscrepancies' \subseteq Chg!OpenDiscrepancies \cup {n}
    BY <2>1, <2>3 DEF Chg!OpenActions, Chg!OpenDiscrepancies
  <2>5. Chg!ClosedIsSettled'
    BY <2>1, <2>2, <2>4, <1>1, <1>2 DEF Chg!ClosedIsSettled
  <2>6. ChangeTyped' /\ Counted'
    BY <2>1, <2>3, <1>1, <1>2
  <2> QED
    BY <2>5, <2>6
<1> QED
  BY <1>4, <1>5, <1>6, <1>7

\* Every step keeps a closed change settled.
LEMMA ChangeKept ==
  ASSUME DistinctIds, Change, [Chg!Next]_(Chg!vars)
  PROVE  Change'
<1> USE DEF Change, ChangeTyped, Counted
<1>1. ASSUME NEW of, NEW id, Chg!Check(of, id), RowOK([of |-> of, id |-> id])
      PROVE  Change'
  BY <1>1 DEF Chg!Check, Chg!ClosedIsSettled, Chg!OpenActions, Chg!OpenDiscrepancies
<1>2. ASSUME NEW row \in changePending,
             \/ Chg!AddOutline(row) \/ Chg!CreateImplementationAction(row)
             \/ Chg!CreateVerification(row) \/ Chg!CreateDiscrepancy(row)
      PROVE  Change'
  BY <1>2, InsertKept
<1>3. ASSUME NEW a \in Actions, Chg!StartImplementationAction(a) \/ Chg!CompleteImplementationAction(a)
      PROVE  Change'
  <2>1. /\ UNCHANGED <<change, outline, discrepancy, verifications, changePending, lateRows>>
        /\ action' \in [Actions -> {"NONE", "PLANNED", "IN_PROGRESS", "COMPLETED"}]
        /\ a \in Chg!OpenActions /\ \A b \in Actions : b # a => action'[b] = action[b]
        /\ action'[a] # "NONE"
    BY <1>3 DEF Chg!StartImplementationAction, Chg!CompleteImplementationAction, Chg!OpenActions
  <2>2. Chg!OpenActions' \subseteq Chg!OpenActions /\ Chg!OpenDiscrepancies' = Chg!OpenDiscrepancies
    BY <2>1 DEF Chg!OpenActions, Chg!OpenDiscrepancies
  <2>3. \A b \in Actions : action[b] = "COMPLETED" => action'[b] = "COMPLETED"
    BY <2>1 DEF Chg!OpenActions
  <2>4. \A b \in Actions : action[b] # "NONE" => action'[b] # "NONE"
    BY <2>1
  <2> QED
    BY <2>1, <2>2, <2>3, <2>4 DEF Chg!ClosedIsSettled
<1>4. ASSUME NEW d \in Discrepancies, Chg!ResolveDiscrepancy(d) PROVE Change'
  <2>1. /\ UNCHANGED <<change, outline, action, verifications, changePending, lateRows>>
        /\ discrepancy' = [discrepancy EXCEPT ![d] = "RESOLVED"]
    BY <1>4 DEF Chg!ResolveDiscrepancy
  <2>2. Chg!OpenActions' = Chg!OpenActions /\ Chg!OpenDiscrepancies' \subseteq Chg!OpenDiscrepancies
    BY <2>1 DEF Chg!OpenActions, Chg!OpenDiscrepancies
  <2> QED
    BY <2>1, <2>2 DEF Chg!ClosedIsSettled
<1>5. ASSUME Chg!StartAssessment \/ Chg!SubmitForDecision \/ Chg!ApplyDecision \/ Chg!StartImplementation
             \/ Chg!BeginVerification
      PROVE  Change'
  BY <1>5 DEF Chg!StartAssessment, Chg!SubmitForDecision, Chg!ApplyDecision,
     Chg!StartImplementation,
              Chg!BeginVerification, Chg!Becomes, Chg!ClosedIsSettled, Chg!Statuses
<1>6. CASE Chg!CloseChange
  <2>1. /\ UNCHANGED <<outline, action, discrepancy, verifications, changePending, lateRows>>
        /\ change = "VERIFYING" /\ change' = "CLOSED"
        /\ Chg!OpenActions = {} /\ Chg!OpenDiscrepancies = {} /\ "PASS" \in verifications
    BY <1>6 DEF Chg!CloseChange, Chg!Closable, Chg!Becomes
  <2>2. PICK a \in Actions : action[a] # "NONE"
    BY <2>1
  <2>3. action[a] = "COMPLETED" /\ lateRows = {}
    BY <2>1, <2>2 DEF Chg!OpenActions
  <2>4. Chg!OpenActions' = {} /\ Chg!OpenDiscrepancies' = {}
    BY <2>1 DEF Chg!OpenActions, Chg!OpenDiscrepancies
  <2> QED
    BY <2>1, <2>2, <2>3, <2>4 DEF Chg!ClosedIsSettled, Chg!Statuses
<1>7. CASE UNCHANGED Chg!vars
  BY <1>7 DEF Chg!vars, Chg!ClosedIsSettled, Chg!OpenActions, Chg!OpenDiscrepancies
<1>8. /\ RowOK([of |-> "affected", id |-> "row"]) /\ RowOK([of |-> "assessment", id |-> "row"])
      /\ \A a \in Actions : RowOK([of |-> "action", id |-> a])
      /\ \A d \in Discrepancies : RowOK([of |-> "discrepancy", id |-> d])
      /\ \A o \in {"PASS", "FAIL"} : RowOK([of |-> "verification", id |-> o])
  BY DEF RowOK
<1> QED
  BY <1>1, <1>2, <1>3, <1>4, <1>5, <1>6, <1>7, <1>8 DEF Chg!Next

\* What closes is settled.
LEMMA ChangeSound == Change => Chg!ClosedIsSettled
BY DEF Change

-----------------------------------------------------------------------------
\* Migration control.

RunStatuses == {"QUEUED", "RUNNING", "AWAITING_RECONCILIATION", "BLOCKED", "RECONCILED"}

ProgrammeTyped ==
  /\ run \in [MigrationRuns -> {Mig!NoRow} \cup [type : {"REHEARSAL", "PRODUCTION"}, status : RunStatuses]]
  /\ item \in [MigrationItems -> {Mig!NoRow} \cup [run : MigrationRuns, status : {"LOADED", "FAILED"}]]
  /\ conflict \in [Conflicts -> {Mig!NoRow} \cup
       [run : MigrationRuns, item : MigrationItems \cup {"none"}, severity : {"WARNING", "BLOCKING"},
        status : {"OPEN", "DISPOSITIONED"}]]
  /\ reconciliation \in [Reconciliations -> {Mig!NoRow} \cup
       [run : MigrationRuns, status : {"RUNNING", "VERIFIED", "CONFLICT"},
        evidence : SUBSET {"VERIFIED", "MISSING"}]]

\* The load of the run has ended.
Past(r) == run[r].status \in Mig!Loaded \cup {"RECONCILED"}

\* But for late rows: failed items have conflicts, open conflicts are warnings.
Covered(r) == \A i \in Mig!Failed(r) \ lateRuns : Mig!Tracked(i)
Cleared(r) == \A k \in Conflicts \ lateRuns :
  (conflict[k].status = "OPEN" /\ conflict[k].run = r) => conflict[k].severity = "WARNING"

\* What still holds of a checked operation when its write comes.
OpOK(op) ==
  /\ op.does = "createRun" =>
       op.id \in MigrationRuns /\ ~Mig!Exists(run[op.id]) /\ op.type \in {"REHEARSAL", "PRODUCTION"}
  /\ op.does = "recordItem" =>
       op.id \in MigrationItems /\ op.run \in MigrationRuns /\ op.outcome \in {"LOADED", "FAILED"} /\ ~Mig!Exists(item[op.id])
  /\ op.does = "createConflict" =>
       /\ op.id \in Conflicts /\ op.run \in MigrationRuns /\ op.item \in MigrationItems \cup {"none"}
       /\ op.severity \in {"WARNING", "BLOCKING"} /\ ~Mig!Exists(conflict[op.id])
  /\ op.does = "startReconciliation" =>
       /\ op.id \in Reconciliations /\ op.run \in MigrationRuns /\ ~Mig!Exists(reconciliation[op.id])
       /\ Past(op.run) /\ Covered(op.run)
  /\ op.does = "recordEvidence" =>
       /\ op.id \in Reconciliations /\ Mig!Exists(reconciliation[op.id])
       /\ op.status \in {"VERIFIED", "MISSING"}
  /\ op.does = "complete" =>
       /\ op.id \in Reconciliations /\ reconciliation[op.id].status = "RUNNING"
       /\ op.verified => /\ reconciliation[op.id].evidence = {"VERIFIED"}
                         /\ Cleared(reconciliation[op.id].run)

OperationsOK ==
  /\ \A op \in runPending : OpOK(op)
  /\ \A o, p \in runPending : o.does = p.does /\ o.id = p.id => o = p

ReconciledSound ==
  /\ \A q \in Reconciliations : Mig!Exists(reconciliation[q]) =>
       Past(reconciliation[q].run) /\ Covered(reconciliation[q].run)
  /\ \A q \in Reconciliations \ lateRuns :
       reconciliation[q].status = "VERIFIED" => reconciliation[q].evidence = {"VERIFIED"}
  /\ \A r \in MigrationRuns : run[r].status = "RECONCILED" =>
       /\ Cleared(r)
       /\ \E q \in Reconciliations : reconciliation[q].status = "VERIFIED" /\ reconciliation[q].run = r

Programme == ProgrammeTyped /\ OperationsOK /\ ReconciledSound

\* There are no rows.
LEMMA ProgrammeInit == Mig!Init => Programme
BY DEF Mig!Init, Programme, ProgrammeTyped, OperationsOK, ReconciledSound, Mig!NoRow, Mig!Exists

\* The plan, its mapping and the cutover are not what a reconciliation rests on.
LEMMA PlanKept ==
  ASSUME Programme, UNCHANGED <<run, item, conflict, reconciliation, runPending, lateRuns>>
  PROVE  Programme'
BY DEF Programme, ProgrammeTyped, OperationsOK, ReconciledSound, OpOK, Past, Covered, Cleared,
   Mig!Failed, Mig!ItemsOf, Mig!Tracked

\* The check of an operation.
LEMMA CheckedKept ==
  ASSUME Programme, NEW op, OpOK(op), Mig!Checked(op)
  PROVE  Programme'
<1>1. /\ runPending' = runPending \cup {op}
      /\ UNCHANGED <<run, item, conflict, reconciliation, lateRuns>>
      /\ \A other \in runPending : ~(other.does = op.does /\ other.id = op.id)
  BY DEF Mig!Checked
<1>2. \A o \in runPending' : OpOK(o)'
  BY <1>1 DEF Programme, OperationsOK, OpOK, Past, Covered, Cleared, Mig!Failed, Mig!ItemsOf,
     Mig!Tracked
<1>3. ProgrammeTyped' /\ ReconciledSound'
  BY <1>1 DEF Programme, ProgrammeTyped, ReconciledSound, Past, Covered, Cleared, Mig!Failed,
     Mig!ItemsOf, Mig!Tracked
<1> QED
  BY <1>1, <1>2, <1>3 DEF Programme, OperationsOK

\* A run that is new or moves on, without having been loaded before.
LEMMA RunKept ==
  ASSUME Programme, UNCHANGED <<item, conflict, reconciliation, lateRuns>>,
         runPending' \subseteq runPending,
         NEW r \in MigrationRuns, ~Past(r),
         run' \in [MigrationRuns -> {Mig!NoRow} \cup [type : {"REHEARSAL", "PRODUCTION"}, status : RunStatuses]],
         \A s \in MigrationRuns : s # r => run'[s] = run[s],
         run'[r].status # "RECONCILED",
         \A op \in runPending' : ~(op.does = "createRun" /\ op.id = r)
  PROVE  Programme'
<1>1. \A s \in MigrationRuns : /\ Past(s) => Past(s)'
                               /\ run'[s].status = "RECONCILED" => run[s].status = "RECONCILED"
  BY DEF Past
<1>2. /\ \A s \in MigrationRuns : Covered(s) => Covered(s)'
      /\ \A s \in MigrationRuns : Cleared(s) => Cleared(s)'
  BY DEF Covered, Cleared, Mig!Failed, Mig!ItemsOf, Mig!Tracked
<1>3. ASSUME NEW op \in runPending' PROVE OpOK(op)'
  <2>1. OpOK(op) /\ op \in runPending
    BY <1>3 DEF Programme, OperationsOK
  <2>2. reconciliation \in [Reconciliations -> {Mig!NoRow} \cup
       [run : MigrationRuns, status : {"RUNNING", "VERIFIED", "CONFLICT"},
        evidence : SUBSET {"VERIFIED", "MISSING"}]]
    BY DEF Programme, ProgrammeTyped
  <2>3. op.does = "complete" => reconciliation[op.id].run \in MigrationRuns
    BY <2>1, <2>2 DEF OpOK, Mig!NoRow
  <2> QED
    BY <1>1, <1>2, <1>3, <2>1, <2>3 DEF OpOK, Mig!Exists
<1>4. \A q \in Reconciliations : Mig!Exists(reconciliation[q]) => reconciliation[q].run \in MigrationRuns
  BY DEF Programme, ProgrammeTyped, Mig!Exists, Mig!NoRow
<1>5. ReconciledSound'
  BY <1>1, <1>2, <1>4 DEF Programme, ReconciledSound, Mig!Exists
<1> QED
  BY <1>3, <1>5 DEF Programme, OperationsOK, ProgrammeTyped
\* An item's result: late unless the run is still being loaded.
LEMMA ItemKept ==
  ASSUME Programme, NEW op \in runPending, Mig!RecordItem(op)
  PROVE  Programme'
<1> DEFINE n == op.id
<1>1. /\ n \in MigrationItems /\ op.run \in MigrationRuns /\ op.outcome \in {"LOADED", "FAILED"} /\ ~Mig!Exists(item[n])
      /\ op.does = "recordItem"
  BY DEF Programme, OperationsOK, OpOK, Mig!RecordItem
<1>2. /\ item' = [item EXCEPT ![n] = [run |-> op.run, status |-> op.outcome]]
      /\ UNCHANGED <<run, conflict, reconciliation>>
      /\ runPending' = runPending \ {op}
      /\ lateRuns' = IF run[op.run].status = "RUNNING" THEN lateRuns ELSE lateRuns \cup {n}
  BY DEF Mig!RecordItem, Mig!Written
<1> HIDE DEF n
<1>3. /\ item' \in [MigrationItems -> {Mig!NoRow} \cup [run : MigrationRuns, status : {"LOADED", "FAILED"}]]
      /\ \A i \in MigrationItems : i # n => item'[i] = item[i]
      /\ item'[n].run = op.run
  BY <1>1, <1>2 DEF Programme, ProgrammeTyped
<1>4. \A s \in MigrationRuns : Cleared(s) => Cleared(s)'
  BY <1>2 DEF Cleared
<1>5. ASSUME NEW s \in MigrationRuns, Past(s), Covered(s) PROVE Covered(s)'
  <2> SUFFICES ASSUME NEW i \in Mig!Failed(s)', i \notin lateRuns' PROVE Mig!Tracked(i)'
    BY DEF Covered
  <2>1. CASE i = n
    <3>1. s = op.run
      BY <2>1, <1>3 DEF Mig!Failed, Mig!ItemsOf
    <3>2. run[s].status # "RUNNING"
      BY <1>5 DEF Past, Mig!Loaded
    <3> QED
      BY <2>1, <3>1, <3>2, <1>2
  <2>2. CASE i # n
    <3>1. i \in Mig!Failed(s) /\ i \notin lateRuns
      BY <2>2, <1>2, <1>3 DEF Mig!Failed, Mig!ItemsOf
    <3> QED
      BY <3>1, <1>2, <1>5 DEF Covered, Mig!Tracked
  <2> QED
    BY <2>1, <2>2
<1>6. \A s \in MigrationRuns : Past(s) => Past(s)'
  BY <1>2 DEF Past
<1>7. \A q \in Reconciliations : Mig!Exists(reconciliation[q]) => reconciliation[q].run \in MigrationRuns
  BY DEF Programme, ProgrammeTyped, Mig!Exists, Mig!NoRow
<1>8. ASSUME NEW o \in runPending' PROVE OpOK(o)'
  <2>1. OpOK(o) /\ o \in runPending /\ ~(o.does = "recordItem" /\ o.id = n)
    BY <1>1, <1>2, <1>8 DEF Programme, OperationsOK, n
  <2>2. o.does = "recordItem" => ~Mig!Exists(item[o.id])'
    BY <2>1, <1>3 DEF OpOK, Mig!Exists
  <2>3. o.does = "complete" => reconciliation[o.id].run \in MigrationRuns
    BY <2>1, <1>7 DEF OpOK, Mig!Exists
  <2> QED
    BY <1>2, <1>4, <1>5, <1>6, <2>1, <2>2, <2>3 DEF OpOK, Mig!Exists
<1>9. ReconciledSound'
  BY <1>2, <1>4, <1>5, <1>6, <1>7 DEF Programme, ReconciledSound, Mig!Exists
<1> QED
  BY <1>2, <1>3, <1>8, <1>9 DEF Programme, OperationsOK, ProgrammeTyped

\* A conflict is recorded: late if a reconciliation has been completed or counts.
LEMMA ConflictKept ==
  ASSUME Programme, NEW op \in runPending, Mig!CreateConflict(op)
  PROVE  Programme'
<1> DEFINE n == op.id
<1>1. /\ n \in Conflicts /\ op.run \in MigrationRuns /\ op.item \in MigrationItems \cup {"none"}
      /\ op.severity \in {"WARNING", "BLOCKING"} /\ ~Mig!Exists(conflict[n])
      /\ op.does = "createConflict"
  BY DEF Programme, OperationsOK, OpOK, Mig!CreateConflict
<1>2. /\ conflict' = [conflict EXCEPT ![n] =
           [run |-> op.run, item |-> op.item, severity |-> op.severity, status |-> "OPEN"]]
      /\ UNCHANGED <<run, item, reconciliation>>
      /\ runPending' = runPending \ {op}
      /\ lateRuns \subseteq lateRuns'
      /\ n \notin lateRuns' => run[op.run].status # "RECONCILED" /\ ~Mig!Counting(op.run)
  BY DEF Mig!CreateConflict, Mig!Written, Mig!Loaded
<1> HIDE DEF n
<1>3. /\ conflict' \in [Conflicts -> {Mig!NoRow} \cup
           [run : MigrationRuns, item : MigrationItems \cup {"none"}, severity : {"WARNING", "BLOCKING"},
            status : {"OPEN", "DISPOSITIONED"}]]
      /\ \A k \in Conflicts : k # n => conflict'[k] = conflict[k]
      /\ conflict'[n].run = op.run
  BY <1>1, <1>2 DEF Programme, ProgrammeTyped
<1>4. ASSUME NEW s \in MigrationRuns, Covered(s) PROVE Covered(s)'
  <2>1. \A i \in MigrationItems : Mig!Tracked(i) => Mig!Tracked(i)'
    BY <1>1, <1>3 DEF Mig!Tracked
  <2> QED
    BY <2>1, <1>2, <1>4 DEF Covered, Mig!Failed, Mig!ItemsOf
<1>5. ASSUME NEW s \in MigrationRuns, Cleared(s), s = op.run => n \in lateRuns' PROVE Cleared(s)'
  BY <1>2, <1>3, <1>5 DEF Cleared
<1>6. \A s \in MigrationRuns : Past(s) => Past(s)'
  BY <1>2 DEF Past
<1>7. \A q \in Reconciliations : Mig!Exists(reconciliation[q]) => reconciliation[q].run \in MigrationRuns
  BY DEF Programme, ProgrammeTyped, Mig!Exists, Mig!NoRow
<1>8. ASSUME NEW o \in runPending' PROVE OpOK(o)'
  <2>1. OpOK(o) /\ o \in runPending /\ ~(o.does = "createConflict" /\ o.id = n)
    BY <1>1, <1>2, <1>8 DEF Programme, OperationsOK, n
  <2>2. o.does = "createConflict" => ~Mig!Exists(conflict[o.id])'
    BY <2>1, <1>3 DEF OpOK, Mig!Exists
  <2>3. o.does = "complete" =>
          reconciliation[o.id].run \in MigrationRuns /\ Mig!Counting(reconciliation[o.id].run)
    BY <2>1, <1>7 DEF OpOK, Mig!Exists, Mig!Counting, Mig!Completing
  <2>4. o.does = "complete" /\ o.verified => Cleared(reconciliation[o.id].run)'
    BY <2>1, <2>3, <1>2, <1>5 DEF OpOK
  <2> QED
    BY <1>2, <1>4, <1>6, <2>1, <2>2, <2>4 DEF OpOK, Mig!Exists
<1>9. ReconciledSound'
  <2>1. \A s \in MigrationRuns : run[s].status = "RECONCILED" => Cleared(s)'
    BY <1>2, <1>5 DEF Programme, ReconciledSound
  <2> QED
    BY <2>1, <1>2, <1>4, <1>6, <1>7 DEF Programme, ReconciledSound, Mig!Exists
<1> QED
  BY <1>2, <1>3, <1>8, <1>9 DEF Programme, OperationsOK, ProgrammeTyped

\* A conflict is dispositioned.
LEMMA DispositionKept ==
  ASSUME Programme, NEW n \in Conflicts, Mig!DispositionConflict(n)
  PROVE  Programme'
<1>1. /\ conflict[n].status = "OPEN" /\ conflict' = [conflict EXCEPT ![n].status = "DISPOSITIONED"]
      /\ UNCHANGED <<run, item, reconciliation, runPending, lateRuns>>
  BY DEF Mig!DispositionConflict
<1>2. /\ conflict[n] # Mig!NoRow
      /\ conflict[n] \in [run : MigrationRuns, item : MigrationItems \cup {"none"}, severity : {"WARNING", "BLOCKING"},
                          status : {"OPEN", "DISPOSITIONED"}]
  BY <1>1 DEF Programme, ProgrammeTyped, Mig!NoRow
<1>3. /\ conflict'[n] \in [run : MigrationRuns, item : MigrationItems \cup {"none"}, severity : {"WARNING", "BLOCKING"},
                           status : {"OPEN", "DISPOSITIONED"}]
      /\ conflict'[n].item = conflict[n].item /\ conflict'[n].status = "DISPOSITIONED"
      /\ \A k \in Conflicts : k # n => conflict'[k] = conflict[k]
  BY <1>1, <1>2 DEF Programme, ProgrammeTyped
<1>4. conflict' \in [Conflicts -> {Mig!NoRow} \cup
        [run : MigrationRuns, item : MigrationItems \cup {"none"}, severity : {"WARNING", "BLOCKING"},
         status : {"OPEN", "DISPOSITIONED"}]]
  BY <1>1, <1>3 DEF Programme, ProgrammeTyped
<1>5. \A s : (Covered(s) => Covered(s)') /\ (Cleared(s) => Cleared(s)')
  <2>1. \A i : Mig!Tracked(i) => Mig!Tracked(i)'
    BY <1>3 DEF Mig!Tracked, Mig!Exists
  <2>2. \A s : Covered(s) => Covered(s)'
    BY <2>1, <1>1 DEF Covered, Mig!Failed, Mig!ItemsOf
  <2>3. \A s : Cleared(s) => Cleared(s)'
    BY <1>1, <1>3 DEF Cleared
  <2> QED
    BY <2>2, <2>3
<1>6. ASSUME NEW o \in runPending PROVE OpOK(o)'
  <2>1. OpOK(o)
    BY DEF Programme, OperationsOK
  <2>2. o.does = "createConflict" => ~Mig!Exists(conflict[o.id])'
    BY <2>1, <1>1, <1>3 DEF OpOK, Mig!Exists
  <2> QED
    BY <1>1, <1>5, <2>1, <2>2 DEF OpOK, Mig!Exists, Past
<1>7. ReconciledSound'
  BY <1>1, <1>5 DEF Programme, ReconciledSound, Mig!Exists, Past
<1> QED
  BY <1>1, <1>4, <1>6, <1>7 DEF Programme, OperationsOK, ProgrammeTyped

\* A reconciliation run of a loaded run begins.
LEMMA StartKept ==
  ASSUME Programme, NEW op \in runPending, Mig!StartReconciliationRun(op)
  PROVE  Programme'
<1> DEFINE n == op.id
<1>1. /\ n \in Reconciliations /\ op.run \in MigrationRuns /\ ~Mig!Exists(reconciliation[n])
      /\ Past(op.run) /\ Covered(op.run) /\ op.does = "startReconciliation"
  BY DEF Programme, OperationsOK, OpOK, Mig!StartReconciliationRun
<1>2. /\ reconciliation' = [reconciliation EXCEPT ![n] =
           [run |-> op.run, status |-> "RUNNING", evidence |-> {}]]
      /\ UNCHANGED <<run, item, conflict, lateRuns>>
      /\ runPending' = runPending \ {op}
  BY DEF Mig!StartReconciliationRun, Mig!Written
<1> HIDE DEF n
<1>3. /\ reconciliation' \in [Reconciliations -> {Mig!NoRow} \cup
           [run : MigrationRuns, status : {"RUNNING", "VERIFIED", "CONFLICT"},
            evidence : SUBSET {"VERIFIED", "MISSING"}]]
      /\ reconciliation'[n].run = op.run /\ reconciliation'[n].status = "RUNNING"
      /\ \A q \in Reconciliations : q # n => reconciliation'[q] = reconciliation[q]
  BY <1>1, <1>2 DEF Programme, ProgrammeTyped
<1>4. \A s : /\ Covered(s) => Covered(s)'
             /\ Cleared(s) => Cleared(s)'
             /\ Past(s) => Past(s)'
  BY <1>2 DEF Covered, Cleared, Past, Mig!Failed, Mig!ItemsOf, Mig!Tracked
<1>5. ASSUME NEW o \in runPending' PROVE OpOK(o)'
  <2>1. OpOK(o) /\ o \in runPending /\ ~(o.does = "startReconciliation" /\ o.id = n)
    BY <1>1, <1>2, <1>5 DEF Programme, OperationsOK, n
  <2>2. /\ o.does = "startReconciliation" => ~Mig!Exists(reconciliation[o.id])'
        /\ o.does \in {"recordEvidence", "complete"} => o.id # n
    BY <2>1, <1>1, <1>3 DEF OpOK, Mig!Exists
  <2> QED
    BY <1>2, <1>3, <1>4, <2>1, <2>2 DEF OpOK, Mig!Exists
<1>6. ReconciledSound'
  <2>1. \A q \in Reconciliations : reconciliation[q].status = "VERIFIED" => q # n
    BY <1>1 DEF Mig!Exists
  <2>2. \A q \in Reconciliations : Mig!Exists(reconciliation[q])' =>
          Past(reconciliation[q].run)' /\ Covered(reconciliation[q].run)'
    BY <1>1, <1>3, <1>4 DEF Programme, ReconciledSound, Mig!Exists
  <2>3. \A q \in Reconciliations \ lateRuns' :
          reconciliation'[q].status = "VERIFIED" => reconciliation'[q].evidence = {"VERIFIED"}
    BY <1>2, <1>3 DEF Programme, ReconciledSound
  <2>4. ASSUME NEW r \in MigrationRuns, run'[r].status = "RECONCILED"
        PROVE  Cleared(r)' /\ \E q \in Reconciliations :
                 reconciliation'[q].status = "VERIFIED" /\ reconciliation'[q].run = r
    <3>1. PICK q \in Reconciliations : reconciliation[q].status = "VERIFIED" /\ reconciliation[q].run = r
      BY <2>4, <1>2 DEF Programme, ReconciledSound
    <3>2. reconciliation'[q] = reconciliation[q]
      BY <2>1, <3>1, <1>3
    <3>3. Cleared(r)'
      BY <2>4, <1>2, <1>4 DEF Programme, ReconciledSound
    <3> QED
      BY <3>1, <3>2, <3>3
  <2> QED
    BY <2>2, <2>3, <2>4 DEF ReconciledSound
<1> QED
  BY <1>2, <1>3, <1>5, <1>6 DEF Programme, OperationsOK, ProgrammeTyped

\* Evidence is recorded: late if the reconciliation run has ended.
LEMMA EvidenceKept ==
  ASSUME Programme, NEW op \in runPending, Mig!RecordReconciliation(op)
  PROVE  Programme'
<1> DEFINE n == op.id
<1>1. /\ n \in Reconciliations /\ Mig!Exists(reconciliation[n]) /\ op.status \in {"VERIFIED", "MISSING"}
      /\ n \notin Mig!Completing
  BY DEF Programme, OperationsOK, OpOK, Mig!RecordReconciliation
<1>2. /\ reconciliation' = [reconciliation EXCEPT ![n].evidence = @ \cup {op.status}]
      /\ UNCHANGED <<run, item, conflict>>
      /\ runPending' = runPending \ {op}
      /\ lateRuns \subseteq lateRuns'
      /\ n \notin lateRuns' => reconciliation[n].status = "RUNNING"
  BY DEF Mig!RecordReconciliation, Mig!Written
<1> HIDE DEF n
<1>3. reconciliation[n] \in [run : MigrationRuns, status : {"RUNNING", "VERIFIED", "CONFLICT"},
                             evidence : SUBSET {"VERIFIED", "MISSING"}]
  BY <1>1 DEF Programme, ProgrammeTyped, Mig!Exists, Mig!NoRow
<1>4. /\ reconciliation'[n] \in [run : MigrationRuns, status : {"RUNNING", "VERIFIED", "CONFLICT"},
                                 evidence : SUBSET {"VERIFIED", "MISSING"}]
      /\ reconciliation'[n].run = reconciliation[n].run
      /\ reconciliation'[n].status = reconciliation[n].status
      /\ \A q \in Reconciliations : q # n => reconciliation'[q] = reconciliation[q]
  BY <1>1, <1>2, <1>3 DEF Programme, ProgrammeTyped
<1>5. reconciliation' \in [Reconciliations -> {Mig!NoRow} \cup
        [run : MigrationRuns, status : {"RUNNING", "VERIFIED", "CONFLICT"},
         evidence : SUBSET {"VERIFIED", "MISSING"}]]
  BY <1>2, <1>4 DEF Programme, ProgrammeTyped
<1>6. \A q \in Reconciliations : /\ reconciliation'[q].run = reconciliation[q].run
                                 /\ reconciliation'[q].status = reconciliation[q].status
  BY <1>4
<1>7. \A s : /\ Covered(s) => Covered(s)'
             /\ Cleared(s) => Cleared(s)'
             /\ Past(s) => Past(s)'
  BY <1>2 DEF Covered, Cleared, Past, Mig!Failed, Mig!ItemsOf, Mig!Tracked
<1>8. ASSUME NEW o \in runPending' PROVE OpOK(o)'
  <2>1. OpOK(o) /\ o \in runPending
    BY <1>2, <1>8 DEF Programme, OperationsOK
  <2>2. o.does = "complete" => o.id # n
    BY <2>1, <1>1 DEF Mig!Completing
  <2> QED
    BY <1>2, <1>4, <1>6, <1>7, <2>1, <2>2 DEF OpOK, Mig!Exists
<1>9. ReconciledSound'
  <2>1. \A q \in Reconciliations : Mig!Exists(reconciliation[q])' =>
          Past(reconciliation[q].run)' /\ Covered(reconciliation[q].run)'
    BY <1>6, <1>7 DEF Programme, ReconciledSound, Mig!Exists
  <2>2. \A q \in Reconciliations \ lateRuns' :
          reconciliation'[q].status = "VERIFIED" => reconciliation'[q].evidence = {"VERIFIED"}
    BY <1>2, <1>4 DEF Programme, ReconciledSound
  <2>3. \A r \in MigrationRuns : run'[r].status = "RECONCILED" =>
          Cleared(r)' /\ \E q \in Reconciliations :
            reconciliation'[q].status = "VERIFIED" /\ reconciliation'[q].run = r
    BY <1>2, <1>6, <1>7 DEF Programme, ReconciledSound
  <2> QED
    BY <2>1, <2>2, <2>3 DEF ReconciledSound
<1> QED
  BY <1>2, <1>5, <1>8, <1>9 DEF Programme, OperationsOK, ProgrammeTyped

\* A reconciliation run ends, and its run with it.
LEMMA CompleteKept ==
  ASSUME Programme, NEW op \in runPending, Mig!CompleteReconciliationRun(op)
  PROVE  Programme'
<1> DEFINE n == op.id
           r == reconciliation[n].run
<1>1. /\ n \in Reconciliations /\ reconciliation[n].status = "RUNNING" /\ op.does = "complete"
      /\ op.verified => reconciliation[n].evidence = {"VERIFIED"} /\ Cleared(r)
  BY DEF Programme, OperationsOK, OpOK, Mig!CompleteReconciliationRun
<1>2. runPending' = runPending \ {op} /\ UNCHANGED <<item, conflict, lateRuns>>
  BY DEF Mig!CompleteReconciliationRun
<1>3. CASE run[r].status \notin Mig!Loaded
  <2>1. UNCHANGED <<reconciliation, run>>
    BY <1>3 DEF Mig!CompleteReconciliationRun
  <2> QED
    BY <1>2, <2>1
    DEF Programme, ProgrammeTyped, OperationsOK, ReconciledSound, OpOK, Past, Covered, Cleared,
        Mig!Failed,
                      Mig!ItemsOf, Mig!Tracked
<1>4. CASE run[r].status \in Mig!Loaded
  <2>1. PICK done \in {"VERIFIED", "CONFLICT"}, reached \in {"RECONCILED", "BLOCKED"} :
          /\ reconciliation' = [reconciliation EXCEPT ![n].status = done]
          /\ run' = [run EXCEPT ![r].status = reached]
          /\ reached = "RECONCILED" <=> op.verified = TRUE
          /\ done = "VERIFIED" <=> op.verified = TRUE
    <3>1. CASE op.verified = TRUE
      BY <1>4, <3>1 DEF Mig!CompleteReconciliationRun
    <3>2. CASE op.verified # TRUE
      BY <1>4, <3>2 DEF Mig!CompleteReconciliationRun
    <3> QED
      BY <3>1, <3>2
  <2>2. reconciliation[n] \in [run : MigrationRuns, status : {"RUNNING", "VERIFIED", "CONFLICT"},
                               evidence : SUBSET {"VERIFIED", "MISSING"}]
    BY <1>1 DEF Programme, ProgrammeTyped, Mig!NoRow
  <2>3. r \in MigrationRuns /\ run[r] \in [type : {"REHEARSAL", "PRODUCTION"}, status : RunStatuses]
    BY <1>4, <2>2 DEF Programme, ProgrammeTyped, Mig!NoRow, Mig!Loaded
  <2> DEFINE s == r
  <2>4. s \in MigrationRuns /\ s = reconciliation[n].run
    BY <2>3
  <2>5. /\ \A q \in Reconciliations : q # n => reconciliation'[q] = reconciliation[q]
        /\ reconciliation'[n].run = s /\ reconciliation'[n].status = done
        /\ reconciliation'[n].evidence = reconciliation[n].evidence
        /\ reconciliation'[n] \in [run : MigrationRuns, status : {"RUNNING", "VERIFIED", "CONFLICT"},
                                   evidence : SUBSET {"VERIFIED", "MISSING"}]
    BY <1>1, <2>1, <2>2 DEF Programme, ProgrammeTyped
  <2>6. /\ \A t \in MigrationRuns : t # s => run'[t] = run[t]
        /\ run'[s].status = reached
        /\ run'[s] \in [type : {"REHEARSAL", "PRODUCTION"}, status : RunStatuses]
    BY <2>1, <2>3 DEF Programme, ProgrammeTyped, RunStatuses
  <2>7. ProgrammeTyped'
    <3>1. run' \in [MigrationRuns -> {Mig!NoRow} \cup [type : {"REHEARSAL", "PRODUCTION"}, status : RunStatuses]]
      BY <2>1, <2>6 DEF Programme, ProgrammeTyped
    <3>2. reconciliation' \in [Reconciliations -> {Mig!NoRow} \cup
            [run : MigrationRuns, status : {"RUNNING", "VERIFIED", "CONFLICT"},
             evidence : SUBSET {"VERIFIED", "MISSING"}]]
      BY <2>1, <2>5 DEF Programme, ProgrammeTyped
    <3> QED
      BY <1>2, <3>1, <3>2 DEF Programme, ProgrammeTyped
  <2> HIDE DEF n, r, s
  <2>8. \A t : (Covered(t) => Covered(t)') /\ (Cleared(t) => Cleared(t)')
    BY <1>2 DEF Covered, Cleared, Mig!Failed, Mig!ItemsOf, Mig!Tracked
  <2>9. \A t \in MigrationRuns : Past(t) => Past(t)'
    BY <2>6 DEF Past, Mig!Loaded
  <2>10. \A q \in Reconciliations : reconciliation'[q].run = reconciliation[q].run
    BY <2>4, <2>5
  <2>11. \A q \in Reconciliations : Mig!Exists(reconciliation[q]) => reconciliation[q].run \in MigrationRuns
    BY DEF Programme, ProgrammeTyped, Mig!Exists, Mig!NoRow
  <2>12. \A q \in Reconciliations : Mig!Exists(reconciliation[q])' <=> Mig!Exists(reconciliation[q])
    BY <1>1, <2>5 DEF Mig!Exists
  <2>13. ASSUME NEW o \in runPending' PROVE OpOK(o)'
    <3>1. OpOK(o) /\ o \in runPending /\ ~(o.does = "complete" /\ o.id = n)
      BY <1>1, <1>2, <2>13 DEF Programme, OperationsOK, n
    <3>2. o.does = "createRun" => ~Mig!Exists(run[o.id])'
      BY <3>1, <1>4, <2>4, <2>6 DEF OpOK, Mig!Exists, Mig!Loaded, r
    <3>3. o.does = "startReconciliation" =>
            ~Mig!Exists(reconciliation[o.id])' /\ Past(o.run)' /\ Covered(o.run)'
      BY <3>1, <2>8, <2>9, <2>12 DEF OpOK
    <3>4. o.does = "recordEvidence" => Mig!Exists(reconciliation[o.id])'
      BY <3>1, <2>12 DEF OpOK
    <3>5. o.does = "complete" =>
            /\ reconciliation'[o.id].status = "RUNNING"
            /\ o.verified => /\ reconciliation'[o.id].evidence = {"VERIFIED"}
                             /\ Cleared(reconciliation[o.id].run)'
      BY <3>1, <2>5, <2>8, <2>10 DEF OpOK
    <3> QED
      BY <1>2, <3>1, <3>2, <3>3, <3>4, <3>5 DEF OpOK, Mig!Exists
  <2>14. ReconciledSound'
    <3>1. \A q \in Reconciliations : Mig!Exists(reconciliation[q])' =>
            Past(reconciliation[q].run)' /\ Covered(reconciliation[q].run)'
      BY <2>8, <2>9, <2>10, <2>11, <2>12 DEF Programme, ReconciledSound
    <3>2. \A q \in Reconciliations \ lateRuns' :
            reconciliation'[q].status = "VERIFIED" => reconciliation'[q].evidence = {"VERIFIED"}
      BY <1>1, <1>2, <2>1, <2>5 DEF Programme, ReconciledSound
    <3>3. ASSUME NEW t \in MigrationRuns, run'[t].status = "RECONCILED"
          PROVE  Cleared(t)' /\ \E q \in Reconciliations :
                   reconciliation'[q].status = "VERIFIED" /\ reconciliation'[q].run = t
      <4>1. CASE t = s
        BY <3>3, <4>1, <1>1, <2>1, <2>4, <2>5, <2>6, <2>8 DEF r
      <4>2. CASE t # s
        <5>1. PICK q \in Reconciliations :
                reconciliation[q].status = "VERIFIED" /\ reconciliation[q].run = t /\ Cleared(t)
          BY <3>3, <4>2, <2>6 DEF Programme, ReconciledSound
        <5> QED
          BY <5>1, <1>1, <2>5, <2>8
      <4> QED
        BY <4>1, <4>2
    <3> QED
      BY <3>1, <3>2, <3>3 DEF ReconciledSound
  <2> QED
    BY <1>2, <2>7, <2>13, <2>14 DEF Programme, OperationsOK
<1> QED
  BY <1>3, <1>4

\* Every step keeps the programme sound.
LEMMA ProgrammeKept == Programme /\ [Mig!Next]_(Mig!vars) => Programme'
<1> SUFFICES ASSUME Programme, [Mig!Next]_(Mig!vars) PROVE Programme'
  OBVIOUS
<1>1. ASSUME \/ Mig!ApprovePlan \/ Mig!CreateMapping \/ Mig!FreezeMapping \/ UNCHANGED Mig!vars
             \/ \E r \in MigrationRuns, verdict \in {"APPROVED", "REJECTED"} : Mig!RecordCutover(r, verdict)
      PROVE  Programme'
  BY <1>1, PlanKept
  DEF Mig!ApprovePlan, Mig!CreateMapping, Mig!FreezeMapping, Mig!RecordCutover, Mig!vars
<1>2. CASE Mig!Check
  <2>1. ASSUME NEW r \in MigrationRuns, NEW type \in {"REHEARSAL", "PRODUCTION"}, Mig!ReadForRun(r, type)
        PROVE  Programme'
    <3>1. OpOK([does |-> "createRun", id |-> r, type |-> type])
      BY <2>1 DEF Mig!ReadForRun, OpOK
    <3> QED
      BY <2>1, <3>1, CheckedKept DEF Mig!ReadForRun
  <2>2. ASSUME NEW r \in MigrationRuns, NEW i \in MigrationItems, NEW verdict \in {"LOADED", "FAILED"},
               Mig!ReadForItem(i, r, verdict)
        PROVE  Programme'
    <3>1. OpOK([does |-> "recordItem", id |-> i, run |-> r, outcome |-> verdict])
      BY <2>2 DEF Mig!ReadForItem, OpOK
    <3> QED
      BY <2>2, <3>1, CheckedKept DEF Mig!ReadForItem
  <2>3. ASSUME NEW r \in MigrationRuns, NEW k \in Conflicts, NEW i \in MigrationItems \cup {"none"},
               NEW severity \in {"WARNING", "BLOCKING"}, Mig!ReadForConflict(k, r, i, severity)
        PROVE  Programme'
    <3>1. OpOK([does |-> "createConflict", id |-> k, run |-> r, item |-> i, severity |-> severity])
      BY <2>3 DEF Mig!ReadForConflict, OpOK
    <3> QED
      BY <2>3, <3>1, CheckedKept DEF Mig!ReadForConflict
  <2>4. ASSUME NEW q \in Reconciliations, NEW r \in MigrationRuns, Mig!ReadForReconciliation(q, r)
        PROVE  Programme'
    <3>1. OpOK([does |-> "startReconciliation", id |-> q, run |-> r])
      BY <2>4 DEF Mig!ReadForReconciliation, OpOK, Past, Covered
    <3> QED
      BY <2>4, <3>1, CheckedKept DEF Mig!ReadForReconciliation
  <2>5. ASSUME NEW q \in Reconciliations, NEW status \in {"VERIFIED", "MISSING"},
               Mig!ReadForEvidence(q, status)
        PROVE  Programme'
    <3>1. OpOK([does |-> "recordEvidence", id |-> q, status |-> status])
      BY <2>5 DEF Mig!ReadForEvidence, OpOK, Mig!Exists
    <3> QED
      BY <2>5, <3>1, CheckedKept DEF Mig!ReadForEvidence
  <2>6. ASSUME NEW q \in Reconciliations, Mig!BeginComplete(q) PROVE Programme'
    <3> DEFINE clean == /\ reconciliation[q].evidence = {"VERIFIED"}
                        /\ Mig!OpenBlocking(reconciliation[q].run) = {}
    <3>1. reconciliation[q].status = "RUNNING"
          /\ Mig!Checked([does |-> "complete", id |-> q, verified |-> clean])
      BY <2>6 DEF Mig!BeginComplete
    <3>2. \A k \in Conflicts : conflict[k].status = "OPEN" =>
            conflict[k].severity \in {"WARNING", "BLOCKING"}
      BY DEF Programme, ProgrammeTyped, Mig!NoRow
    <3>3. clean => reconciliation[q].evidence = {"VERIFIED"} /\ Cleared(reconciliation[q].run)
      BY <3>2 DEF Cleared, Mig!OpenBlocking
    <3>4. PICK v \in BOOLEAN : v = clean
      OBVIOUS
    <3> HIDE DEF clean
    <3>5. OpOK([does |-> "complete", id |-> q, verified |-> v])
      BY <3>1, <3>3, <3>4 DEF OpOK
    <3> QED
      BY <3>1, <3>4, <3>5, CheckedKept
  <2> QED
    BY <1>2, <2>1, <2>2, <2>3, <2>4, <2>5, <2>6 DEF Mig!Check
<1>3. ASSUME NEW op \in runPending, Mig!CreateRun(op) PROVE Programme'
  <2>1. /\ op.id \in MigrationRuns /\ ~Mig!Exists(run[op.id]) /\ op.type \in {"REHEARSAL", "PRODUCTION"}
        /\ op.does = "createRun"
    BY <1>3 DEF Programme, OperationsOK, OpOK, Mig!CreateRun
  <2>2. /\ UNCHANGED <<item, conflict, reconciliation, lateRuns>> /\ runPending' = runPending \ {op}
        /\ run' = run \/ run' = [run EXCEPT ![op.id] = [type |-> op.type, status |-> "QUEUED"]]
    BY <1>3 DEF Mig!CreateRun
  <2>3. run' \in [MigrationRuns -> {Mig!NoRow} \cup [type : {"REHEARSAL", "PRODUCTION"}, status : RunStatuses]]
    BY <2>1, <2>2 DEF Programme, ProgrammeTyped, RunStatuses
  <2>4. /\ ~Past(op.id) /\ run'[op.id].status # "RECONCILED"
        /\ \A s \in MigrationRuns : s # op.id => run'[s] = run[s]
    BY <2>1, <2>2 DEF Programme, ProgrammeTyped, Past, Mig!Exists, Mig!Loaded
  <2>5. \A o \in runPending' : ~(o.does = "createRun" /\ o.id = op.id)
    BY <2>1, <2>2 DEF Programme, OperationsOK
  <2> QED
    BY <2>1, <2>2, <2>3, <2>4, <2>5, RunKept
<1>4. ASSUME NEW r \in MigrationRuns, Mig!StartRun(r) \/ Mig!CompleteLoad(r) PROVE Programme'
  <2>1. PICK to \in {"RUNNING", "BLOCKED", "AWAITING_RECONCILIATION"} :
          /\ run' = [run EXCEPT ![r].status = to]
          /\ UNCHANGED <<item, conflict, reconciliation, lateRuns, runPending>>
          /\ run[r].status \in {"QUEUED", "RUNNING"}
    BY <1>4 DEF Mig!StartRun, Mig!CompleteLoad
  <2>2. run[r] \in [type : {"REHEARSAL", "PRODUCTION"}, status : RunStatuses]
    BY <2>1 DEF Programme, ProgrammeTyped, Mig!NoRow
  <2>3. run' \in [MigrationRuns -> {Mig!NoRow} \cup [type : {"REHEARSAL", "PRODUCTION"}, status : RunStatuses]]
    BY <2>1, <2>2 DEF Programme, ProgrammeTyped, RunStatuses
  <2>4. /\ ~Past(r) /\ run'[r].status # "RECONCILED"
        /\ \A s \in MigrationRuns : s # r => run'[s] = run[s]
    BY <2>1, <2>2 DEF Programme, ProgrammeTyped, Past, Mig!Loaded
  <2>5. \A o \in runPending' : ~(o.does = "createRun" /\ o.id = r)
    BY <2>1 DEF Programme, OperationsOK, OpOK, Mig!Exists
  <2> QED
    BY <2>1, <2>3, <2>4, <2>5, RunKept
<1> QED
  BY <1>1, <1>2, <1>3, <1>4, ItemKept, ConflictKept, DispositionKept, StartKept, EvidenceKept,
     CompleteKept
     DEF Mig!Next, Mig!Write

\* A reconciled run is clean.
LEMMA ProgrammeSound == Programme => Mig!ReconciledIsClean
<1> SUFFICES ASSUME Programme, NEW r \in MigrationRuns, run[r].status = "RECONCILED"
             PROVE  /\ \E q \in Reconciliations :
                         /\ reconciliation[q].status = "VERIFIED" /\ reconciliation[q].run = r
                         /\ q \notin lateRuns => reconciliation[q].evidence = {"VERIFIED"}
                    /\ Cleared(r) /\ Covered(r)
  BY DEF Mig!ReconciledIsClean, Cleared, Covered
<1>1. PICK q \in Reconciliations : reconciliation[q].status = "VERIFIED" /\ reconciliation[q].run = r
  BY DEF Programme, ReconciledSound
<1> QED
  BY <1>1 DEF Programme, ReconciledSound, Mig!Exists

-----------------------------------------------------------------------------
\* Records retention.

HoldRows ==
  [status : {"NONE"}]
    \cup [status : {"ACTIVE", "RELEASED"}, subject : Rec!Subjects, type : HoldTypes, blocks : Blocks,
          imposed : Nat, released : Nat]
ApprovalRowsOf == [status : {"NONE"}] \cup [status : {"APPROVED"}, subject : Rec!Subjects, at : Nat]
RunRows ==
  [status : {"NONE"}]
    \cup [status : {"QUEUED", "RUNNING", "COMPLETED", "EXCEPTIONS"}, rule : {"ARCHIVE", "DESTROY"}]
ArchiveRows == [status : {"NONE"}] \cup [status : {"AVAILABLE", "DESTROYED"}, subject : Rec!Subjects]
Report ==
  [subject : Rec!Subjects, outcome : {"DONE", "EXCEPTION"}, checked : Nat, late : BOOLEAN]

\* What is pending names what there is.
RecordsPendingOK(op) ==
  /\ op.does = "createRun" => op.rule \in {"ARCHIVE", "DESTROY"}
  /\ op.does = "archive" => op.subject \in Rec!Subjects
  /\ op.does = "destroy" =>
       /\ op.subject \in Rec!Subjects /\ op.decision \in DispositionDecisions /\ op.checked \in Nat
       /\ op.archive # Rec!NoArchive => op.archive \in Archives /\ Rec!Exists(archive[op.archive])
  /\ op.does = "result" =>
       /\ op.run \in DispositionRuns /\ op.subject \in Rec!Subjects
       /\ op.outcome \in {"DONE", "EXCEPTION"} /\ op.checked \in Nat

RecordsTyped ==
  /\ hold \in [Holds -> HoldRows] /\ approvalOf \in [DispositionDecisions -> ApprovalRowsOf]
  /\ disposition \in [DispositionRuns -> RunRows] /\ archive \in [Archives -> ArchiveRows]
  /\ destroyed \subseteq [subject : Rec!Subjects, decision : DispositionDecisions, checked : Nat]
  /\ results \in [DispositionRuns -> SUBSET Report] /\ clock \in Nat
  /\ \A h \in Holds : hold[h].status = "RELEASED" => hold[h].released <= clock
  /\ \A op \in recPending : RecordsPendingOK(op)

\* No hold that blocked the rule for the subject is left out of account.
Clear(s, rule, checked, time) ==
  \A h \in Rec!OnSubject(s) : rule \in hold[h].blocks => Rec!Heeded(h, checked, time)

\* A destruction, pending or in evidence, and a report of a run, pending or recorded.
ApprovedFor(e) ==
  /\ Rec!Exists(approvalOf[e.decision]) /\ e.checked <= clock
  /\ Clear(e.subject, "DESTROY", e.checked, approvalOf[e.decision].at)
Reported(r, o) ==
  /\ Rec!Exists(disposition[r]) /\ o.checked <= clock
  /\ o.outcome = "DONE" =>
       Rec!Evidenced(o.subject, disposition[r].rule) /\ Clear(o.subject, disposition[r].rule, o.checked, o.checked)

\* The inductive invariant.
Accounted ==
  /\ RecordsTyped
  /\ \A e \in destroyed : ApprovedFor(e)
  /\ \A r \in DispositionRuns : \A o \in results[r] : Reported(r, o)
  /\ \A op \in recPending :
       (op.does = "destroy" => ApprovedFor(op)) /\ (op.does = "result" => Reported(op.run, op))
  /\ \A r \in DispositionRuns : disposition[r].status = "COMPLETED" =>
       \A o \in results[r] : o.outcome = "DONE" \/ o.late

\* What no step takes back: a hold is imposed or released, and all else stays.
Onward ==
  /\ \A h \in Holds :
       \/ hold'[h] = hold[h]
       \/ ~Rec!Exists(hold[h]) /\ hold'[h].imposed = clock
       \/ /\ hold[h].status = "ACTIVE" /\ hold'[h].status = "RELEASED"
          /\ hold'[h].subject = hold[h].subject /\ hold'[h].blocks = hold[h].blocks
          /\ hold'[h].imposed = hold[h].imposed
  /\ \A d \in DispositionDecisions : Rec!Exists(approvalOf[d]) => approvalOf'[d] = approvalOf[d]
  /\ \A r \in DispositionRuns : Rec!Exists(disposition[r]) => Rec!Exists(disposition'[r]) /\ disposition'[r].rule = disposition[r].rule
  /\ \A a \in Archives :
       Rec!Exists(archive[a]) => Rec!Exists(archive'[a]) /\ archive'[a].subject = archive[a].subject
  /\ destroyed \subseteq destroyed' /\ clock <= clock'

\* Nothing has been held, approved or destroyed.
LEMMA AccountedInit == Rec!Init => Accounted
<1> SUFFICES ASSUME Rec!Init PROVE Accounted
  OBVIOUS
<1>1. RecordsTyped
  BY DEF Rec!Init, RecordsTyped, Rec!NoRow, HoldRows, ApprovalRowsOf, RunRows, ArchiveRows
<1>2. /\ destroyed = {} /\ recPending = {} /\ results = [r \in DispositionRuns |-> {}]
      /\ \A r \in DispositionRuns : disposition[r].status = "NONE"
  BY DEF Rec!Init, Rec!NoRow
<1> QED
  BY <1>1, <1>2 DEF Accounted

\* Every step has values of their types, and takes nothing back.
LEMMA RecordsOnward ==
  ASSUME RecordsTyped, [Rec!Next]_(Rec!vars)
  PROVE  RecordsTyped' /\ Onward
<1>1. ASSUME NEW op, RecordsPendingOK(op), Rec!Checked(op) PROVE RecordsTyped' /\ Onward
  <2>1. recPending' = recPending \cup {op}
        /\ UNCHANGED <<policy, rules, hold, approvalOf, disposition, archive, destroyed, results, clock>>
    BY <1>1 DEF Rec!Checked
  <2> QED
    BY <1>1, <2>1 DEF RecordsTyped, RecordsPendingOK, Onward
<1>2. ASSUME NEW d \in DispositionDecisions, NEW s \in Rec!Subjects, Rec!Approve(d, s) PROVE RecordsTyped' /\ Onward
  <2>1. /\ ~Rec!Exists(approvalOf[d]) /\ clock' = clock + 1
        /\ approvalOf' = [approvalOf EXCEPT ![d] = [status |-> "APPROVED", subject |-> s, at |-> clock]]
        /\ UNCHANGED <<hold, disposition, archive, destroyed, results, recPending>>
    BY <1>2 DEF Rec!Approve, Rec!Date
  <2>2. [status |-> "APPROVED", subject |-> s, at |-> clock] \in ApprovalRowsOf
    BY DEF RecordsTyped, ApprovalRowsOf
  <2>3. approvalOf' \in [DispositionDecisions -> ApprovalRowsOf] /\ \A e \in DispositionDecisions \ {d} : approvalOf'[e] = approvalOf[e]
    BY <2>1, <2>2 DEF RecordsTyped
  <2>4. \A h \in Holds : hold[h].status = "RELEASED" => hold[h].released \in Nat
    BY DEF RecordsTyped, HoldRows
  <2> QED
    BY <2>1, <2>3, <2>4 DEF RecordsTyped, RecordsPendingOK, Onward
<1>3. ASSUME NEW h \in Holds, NEW new \in HoldRows, Rec!Date,
             hold' = [hold EXCEPT ![h] = new],
             UNCHANGED <<policy, rules, approvalOf, disposition, archive, destroyed, results, recPending>>,
             new.status = "RELEASED" => new.released = clock,
             \/ ~Rec!Exists(hold[h]) /\ new.imposed = clock
             \/ /\ hold[h].status = "ACTIVE" /\ new.status = "RELEASED"
                /\ new.subject = hold[h].subject /\ new.blocks = hold[h].blocks
                /\ new.imposed = hold[h].imposed
      PROVE  RecordsTyped' /\ Onward
  <2>1. hold' \in [Holds -> HoldRows] /\ hold'[h] = new /\ \A g \in Holds \ {h} : hold'[g] = hold[g]
    BY <1>3 DEF RecordsTyped
  <2>2. clock \in Nat /\ clock' = clock + 1
    BY <1>3 DEF RecordsTyped, Rec!Date
  <2>3. \A g \in Holds : hold'[g].status = "RELEASED" => hold'[g].released <= clock'
    <3>1. \A g \in Holds : hold[g].status = "RELEASED" => hold[g].released \in Nat /\ hold[g].released <= clock
      BY DEF RecordsTyped, HoldRows
    <3> QED
      BY <1>3, <2>1, <2>2, <3>1
  <2>4. RecordsTyped'
    BY <1>3, <2>1, <2>2, <2>3 DEF RecordsTyped, RecordsPendingOK
  <2> QED
    BY <1>3, <2>1, <2>2, <2>4 DEF Onward
<1>4. ASSUME NEW h \in Holds, NEW s \in Rec!Subjects, NEW type \in HoldTypes, NEW blocks \in Blocks,
             Rec!CreateHold(h, s, type, blocks)
      PROVE  RecordsTyped' /\ Onward
  <2> DEFINE new == [status |-> "ACTIVE", subject |-> s, type |-> type, blocks |-> blocks,
                     imposed |-> clock, released |-> clock]
  <2>1. new \in HoldRows /\ new.status = "ACTIVE" /\ new.imposed = clock
    BY DEF HoldRows, RecordsTyped
  <2>2. /\ ~Rec!Exists(hold[h]) /\ Rec!Date /\ hold' = [hold EXCEPT ![h] = new]
        /\ UNCHANGED <<policy, rules, approvalOf, disposition, archive, destroyed, results, recPending>>
    BY <1>4 DEF Rec!CreateHold
  <2> HIDE DEF new
  <2> QED
    BY <1>3, <2>1, <2>2
<1>5. ASSUME NEW h \in Holds, NEW d \in DispositionDecisions, Rec!ReleaseHold(h, d)
      PROVE  RecordsTyped' /\ Onward
  <2> DEFINE new == [status |-> "RELEASED", subject |-> hold[h].subject, type |-> hold[h].type,
                     blocks |-> hold[h].blocks, imposed |-> hold[h].imposed, released |-> clock]
  <2>1. /\ hold[h].status = "ACTIVE" /\ Rec!Date /\ hold' = [hold EXCEPT ![h] = new]
        /\ UNCHANGED <<policy, rules, approvalOf, disposition, archive, destroyed, results, recPending>>
    BY <1>5 DEF Rec!ReleaseHold
  <2>2. new \in HoldRows
    BY <2>1 DEF HoldRows, RecordsTyped
  <2>3. /\ new.status = "RELEASED" /\ new.released = clock /\ new.subject = hold[h].subject
        /\ new.blocks = hold[h].blocks /\ new.imposed = hold[h].imposed
    OBVIOUS
  <2> HIDE DEF new
  <2> QED
    BY <1>3, <2>1, <2>2, <2>3
<1>6. ASSUME NEW r \in DispositionRuns, NEW new \in RunRows, disposition' = [disposition EXCEPT ![r] = new],
             recPending' \subseteq recPending, UNCHANGED <<hold, approvalOf, archive, destroyed, results, clock>>,
             Rec!Exists(disposition[r]) => Rec!Exists(new) /\ new.rule = disposition[r].rule
      PROVE  RecordsTyped' /\ Onward
  <2>1. disposition' \in [DispositionRuns -> RunRows] /\ disposition'[r] = new /\ \A q \in DispositionRuns \ {r} : disposition'[q] = disposition[q]
    BY <1>6 DEF RecordsTyped
  <2> QED
    BY <1>6, <2>1 DEF RecordsTyped, RecordsPendingOK, Onward
<1>7. ASSUME UNCHANGED <<hold, approvalOf, disposition, archive, destroyed, results, clock>>, recPending' \subseteq recPending
      PROVE  RecordsTyped' /\ Onward
  BY <1>7 DEF RecordsTyped, RecordsPendingOK, Onward
<1>8. ASSUME NEW r \in DispositionRuns, Rec!StartRun(r) \/ Rec!CompleteRun(r) PROVE RecordsTyped' /\ Onward
  <2>1. PICK status \in {"RUNNING", "COMPLETED", "EXCEPTIONS"} :
          /\ disposition[r].status \in {"QUEUED", "RUNNING"} /\ disposition' = [disposition EXCEPT ![r].status = status]
          /\ UNCHANGED <<hold, approvalOf, archive, destroyed, results, recPending, clock>>
    BY <1>8 DEF Rec!StartRun, Rec!CompleteRun
  <2> DEFINE new == [disposition[r] EXCEPT !.status = status]
  <2>2. /\ new \in RunRows /\ disposition' = [disposition EXCEPT ![r] = new]
        /\ Rec!Exists(new) /\ new.rule = disposition[r].rule
    BY <2>1 DEF RecordsTyped, RunRows, Rec!Exists
  <2> HIDE DEF new
  <2> QED
    BY <1>6, <2>1, <2>2
<1>9. ASSUME NEW op \in recPending, Rec!CreateRun(op) PROVE RecordsTyped' /\ Onward
  <2>1. /\ op.rule \in {"ARCHIVE", "DESTROY"} /\ recPending' \subseteq recPending
        /\ UNCHANGED <<hold, approvalOf, archive, destroyed, results, clock>>
        /\ \/ disposition' = disposition
           \/ /\ ~Rec!Exists(disposition[op.run])
              /\ disposition' = [disposition EXCEPT ![op.run] = [status |-> "QUEUED", rule |-> op.rule]]
    BY <1>9 DEF Rec!CreateRun, RecordsTyped, RecordsPendingOK
  <2>2. [status |-> "QUEUED", rule |-> op.rule] \in RunRows
    BY <2>1 DEF RunRows
  <2>3. CASE op.run \in DispositionRuns /\ disposition' # disposition
    BY <1>6, <2>1, <2>2, <2>3
  <2>4. CASE disposition' = disposition
    BY <1>7, <2>1, <2>4
  <2>5. CASE op.run \notin DispositionRuns
    <3>1. disposition' = disposition
      BY <2>1, <2>5 DEF RecordsTyped
    <3> QED
      BY <1>7, <2>1, <3>1
  <2> QED
    BY <2>3, <2>4, <2>5
<1>10. ASSUME NEW op \in recPending, Rec!CreateArchive(op) PROVE RecordsTyped' /\ Onward
  <2>1. /\ op.subject \in Rec!Subjects /\ recPending' \subseteq recPending
        /\ UNCHANGED <<hold, approvalOf, disposition, destroyed, results, clock>>
        /\ archive' = [archive EXCEPT ![op.archive] =
             IF Rec!Exists(archive[op.archive]) THEN archive[op.archive]
             ELSE [status |-> "AVAILABLE", subject |-> op.subject]]
    BY <1>10 DEF Rec!CreateArchive, RecordsTyped, RecordsPendingOK
  <2>2. [status |-> "AVAILABLE", subject |-> op.subject] \in ArchiveRows
    BY <2>1 DEF ArchiveRows
  <2>3. /\ archive' \in [Archives -> ArchiveRows]
        /\ \A a \in Archives : Rec!Exists(archive[a]) => archive'[a] = archive[a]
    BY <2>1, <2>2 DEF RecordsTyped
  <2> QED
    BY <2>1, <2>3 DEF RecordsTyped, RecordsPendingOK, Onward
<1>11. ASSUME NEW op \in recPending, Rec!CreateDestruction(op) PROVE RecordsTyped' /\ Onward
  <2>1. /\ op.subject \in Rec!Subjects /\ op.decision \in DispositionDecisions /\ op.checked \in Nat
        /\ recPending' \subseteq recPending /\ UNCHANGED <<hold, approvalOf, disposition, results, clock>>
        /\ destroyed' = destroyed \cup
             {[subject |-> op.subject, decision |-> op.decision, checked |-> op.checked]}
        /\ \/ archive' = archive
           \/ /\ op.archive \in Archives /\ Rec!Exists(archive[op.archive])
              /\ archive' = [archive EXCEPT ![op.archive].status = "DESTROYED"]
    BY <1>11 DEF Rec!CreateDestruction, RecordsTyped, RecordsPendingOK
  <2>2. /\ archive' \in [Archives -> ArchiveRows]
        /\ \A a \in Archives :
             Rec!Exists(archive[a]) => Rec!Exists(archive'[a]) /\ archive'[a].subject = archive[a].subject
    <3>1. CASE archive' = archive
      BY <3>1 DEF RecordsTyped
    <3>2. ASSUME NEW b \in Archives, Rec!Exists(archive[b]),
                 archive' = [archive EXCEPT ![b].status = "DESTROYED"]
          PROVE  /\ archive' \in [Archives -> ArchiveRows]
                 /\ \A a \in Archives :
                      Rec!Exists(archive[a]) => Rec!Exists(archive'[a]) /\ archive'[a].subject = archive[a].subject
      <4> DEFINE new == [archive[b] EXCEPT !.status = "DESTROYED"]
      <4>1. new \in ArchiveRows /\ Rec!Exists(new) /\ new.subject = archive[b].subject
        BY <3>2 DEF RecordsTyped, ArchiveRows, Rec!Exists
      <4>2. archive' = [archive EXCEPT ![b] = new]
        BY <3>2
      <4> HIDE DEF new
      <4> QED
        BY <4>1, <4>2 DEF RecordsTyped
    <3> QED
      BY <2>1, <3>1, <3>2
  <2> QED
    BY <2>1, <2>2 DEF RecordsTyped, RecordsPendingOK, Onward
<1>12. ASSUME NEW op \in recPending, Rec!RecordItemResult(op) PROVE RecordsTyped' /\ Onward
  <2>1. /\ op.run \in DispositionRuns /\ recPending' \subseteq recPending
        /\ UNCHANGED <<hold, approvalOf, disposition, archive, destroyed, clock>>
        /\ results' = [results EXCEPT ![op.run] = results[op.run] \cup
             {[subject |-> op.subject, outcome |-> op.outcome, checked |-> op.checked,
               late |-> disposition[op.run].status # "RUNNING"]}]
        /\ op.subject \in Rec!Subjects /\ op.outcome \in {"DONE", "EXCEPTION"} /\ op.checked \in Nat
    BY <1>12 DEF Rec!RecordItemResult, RecordsTyped, RecordsPendingOK
  <2>2. [subject |-> op.subject, outcome |-> op.outcome, checked |-> op.checked,
         late |-> disposition[op.run].status # "RUNNING"] \in Report
    BY <2>1 DEF Report
  <2>3. results' \in [DispositionRuns -> SUBSET Report]
    BY <2>1, <2>2 DEF RecordsTyped
  <2> QED
    BY <2>1, <2>3 DEF RecordsTyped, RecordsPendingOK, Onward
<1>13. ASSUME NEW op \in recPending, Rec!AddRule(op) PROVE RecordsTyped' /\ Onward
  BY <1>7, <1>13 DEF Rec!AddRule
<1>14. CASE Rec!FreezePolicy \/ Rec!ActivatePolicy \/ UNCHANGED Rec!vars
  BY <1>7, <1>14 DEF Rec!FreezePolicy, Rec!ActivatePolicy, Rec!PolicyBecomes, Rec!vars
<1>15. ASSUME NEW rule \in {"ARCHIVE", "DESTROY"}, Rec!ReadForRule(rule) \/ \E r \in DispositionRuns : Rec!ReadForRun(r, rule)
       PROVE  RecordsTyped' /\ Onward
  BY <1>1, <1>15 DEF Rec!ReadForRule, Rec!ReadForRun, RecordsPendingOK
<1>16. ASSUME NEW r \in DispositionRuns, NEW s \in Rec!Subjects, NEW a \in Archives, Rec!ReadForArchive(r, a, s)
       PROVE  RecordsTyped' /\ Onward
  <2>1. RecordsPendingOK([does |-> "archive", archive |-> a, subject |-> s])
    BY DEF RecordsPendingOK
  <2> QED
    BY <1>1, <1>16, <2>1 DEF Rec!ReadForArchive
<1>17. ASSUME NEW r \in DispositionRuns, NEW s \in Rec!Subjects, NEW d \in DispositionDecisions,
              NEW a \in Archives \cup {Rec!NoArchive}, Rec!ReadForDestruction(r, s, d, a)
       PROVE  RecordsTyped' /\ Onward
  <2>1. RecordsPendingOK([does |-> "destroy", subject |-> s, decision |-> d, archive |-> a, checked |-> clock])
    BY <1>17 DEF RecordsPendingOK, RecordsTyped, Rec!ReadForDestruction
  <2> QED
    BY <1>1, <1>17, <2>1 DEF Rec!ReadForDestruction
<1>18. ASSUME NEW r \in DispositionRuns, NEW s \in Rec!Subjects, NEW o \in {"DONE", "EXCEPTION"}, Rec!ReadForResult(r, s, o)
       PROVE  RecordsTyped' /\ Onward
  <2>1. RecordsPendingOK([does |-> "result", run |-> r, subject |-> s, outcome |-> o,
                          checked |-> IF o = "DONE" THEN clock ELSE 0])
    BY DEF RecordsPendingOK, RecordsTyped
  <2> QED
    BY <1>1, <1>18, <2>1 DEF Rec!ReadForResult
<1> QED
  BY <1>2, <1>4, <1>5, <1>8, <1>9, <1>10, <1>11, <1>12, <1>13, <1>14, <1>15, <1>16, <1>17, <1>18
  DEF Rec!Next

\* A hold that is imposed comes after every check there was, and one that is
\* released was accounted for already.
LEMMA ClearKept ==
  ASSUME RecordsTyped, RecordsTyped', Onward, NEW s, NEW rule, NEW checked \in Nat, NEW time,
         checked <= clock, Clear(s, rule, checked, time)
  PROVE  Clear(s, rule, checked, time)'
<1> SUFFICES ASSUME NEW h \in Rec!OnSubject(s)', rule \in hold'[h].blocks
             PROVE  Rec!Heeded(h, checked, time)'
  BY DEF Clear
<1>1. h \in Holds /\ hold[h] \in HoldRows /\ hold'[h] \in HoldRows /\ Rec!Exists(hold'[h])
  BY DEF Rec!OnSubject, RecordsTyped
<1>2. CASE ~Rec!Exists(hold[h]) /\ hold'[h].imposed = clock
  BY <1>2 DEF Rec!Heeded, RecordsTyped
<1>3. CASE hold'[h] = hold[h]
  <2>1. h \in Rec!OnSubject(s)
    BY <1>1, <1>3 DEF Rec!OnSubject
  <2> QED
    BY <1>3, <2>1 DEF Clear, Rec!Heeded, Rec!Over
<1>4. CASE /\ hold[h].status = "ACTIVE" /\ hold'[h].status = "RELEASED"
           /\ hold'[h].subject = hold[h].subject /\ hold'[h].blocks = hold[h].blocks
           /\ hold'[h].imposed = hold[h].imposed
  <2>1. h \in Rec!OnSubject(s)
    BY <1>1, <1>4 DEF Rec!OnSubject, Rec!Exists
  <2>2. hold[h].imposed >= checked
    BY <1>4, <2>1 DEF Clear, Rec!Heeded, Rec!Over
  <2> QED
    BY <1>4, <2>2 DEF Rec!Heeded
<1> QED
  BY <1>1, <1>2, <1>3, <1>4 DEF Onward

\* A destruction that was in order stays in order.
LEMMA ApprovedKept ==
  ASSUME RecordsTyped, RecordsTyped', Onward,
         NEW e, e.decision \in DispositionDecisions, e.checked \in Nat, ApprovedFor(e)
  PROVE  ApprovedFor(e)'
<1>0. clock \in Nat /\ clock' \in Nat /\ clock <= clock'
  BY DEF RecordsTyped, Onward
<1>1. approvalOf'[e.decision] = approvalOf[e.decision]
  BY DEF ApprovedFor, Onward
<1>2. PICK time : time = approvalOf[e.decision].at
  OBVIOUS
<1>3. Clear(e.subject, "DESTROY", e.checked, time)'
  BY <1>2, ClearKept DEF ApprovedFor
<1>4. Rec!Exists(approvalOf[e.decision])' /\ e.checked <= clock'
  BY <1>0, <1>1 DEF ApprovedFor, Rec!Exists
<1> QED
  BY <1>1, <1>2, <1>3, <1>4 DEF ApprovedFor

\* So does a report.
LEMMA ReportedKept ==
  ASSUME RecordsTyped, RecordsTyped', Onward,
         NEW r \in DispositionRuns, NEW o, o.checked \in Nat, Reported(r, o)
  PROVE  Reported(r, o)'
<1>0. clock \in Nat /\ clock' \in Nat /\ clock <= clock'
  BY DEF RecordsTyped, Onward
<1>1. PICK rule : rule = disposition[r].rule
  OBVIOUS
<1>2. Rec!Exists(disposition'[r]) /\ disposition'[r].rule = rule /\ o.checked <= clock'
  BY <1>0, <1>1 DEF Reported, Onward
<1>3. ASSUME o.outcome = "DONE"
      PROVE  Rec!Evidenced(o.subject, rule)' /\ Clear(o.subject, rule, o.checked, o.checked)'
  <2>1. Rec!Evidenced(o.subject, rule) /\ Clear(o.subject, rule, o.checked, o.checked) /\ o.checked <= clock
    BY <1>1, <1>3 DEF Reported
  <2>2. Rec!Evidenced(o.subject, rule)'
    BY <2>1 DEF Rec!Evidenced, Onward
  <2> QED
    BY <2>1, <2>2, ClearKept
<1> QED
  BY <1>2, <1>3 DEF Reported, Rec!Exists

\* What comes to be pending was in order when it was checked.
LEMMA CheckedInOrder ==
  ASSUME Accounted, [Rec!Next]_(Rec!vars), NEW op \in recPending' \ recPending
  PROVE  (op.does = "destroy" => ApprovedFor(op)) /\ (op.does = "result" => op.run \in DispositionRuns /\ Reported(op.run, op))
<1>0. RecordsTyped /\ clock \in Nat
  BY DEF Accounted, RecordsTyped
<1>1. ASSUME NEW r \in DispositionRuns, NEW s \in Rec!Subjects, NEW d \in DispositionDecisions,
             NEW a \in Archives \cup {Rec!NoArchive}, Rec!ReadForDestruction(r, s, d, a)
      PROVE  op.does = "destroy" /\ ApprovedFor(op)
  <2>1. op = [does |-> "destroy", subject |-> s, decision |-> d, archive |-> a, checked |-> clock]
    BY <1>1 DEF Rec!ReadForDestruction, Rec!Checked
  <2>2. Rec!Exists(approvalOf[d]) /\ Rec!PostdatesReleases(d, s) /\ ~Rec!Blocked(s, "DESTROY")
    BY <1>1 DEF Rec!ReadForDestruction, Rec!Governs
  <2>3. ASSUME NEW h \in Rec!OnSubject(s), "DESTROY" \in hold[h].blocks
        PROVE  Rec!Over(h, approvalOf[d].at)
    <3>1. h \in Holds /\ hold[h].status = "RELEASED"
      BY <1>0, <2>2, <2>3
      DEF Rec!Blocked, Rec!ActiveOn, Rec!OnSubject, Rec!Exists, RecordsTyped, HoldRows
    <3>2. hold[h].released \in Nat /\ approvalOf[d].at \in Nat
      BY <1>0, <2>2, <3>1 DEF RecordsTyped, HoldRows, ApprovalRowsOf, Rec!Exists
    <3> QED
      BY <2>2, <2>3, <3>1, <3>2 DEF Rec!PostdatesReleases, Rec!Over
  <2> QED
    BY <1>0, <2>1, <2>2, <2>3 DEF ApprovedFor, Clear, Rec!Heeded
<1>2. ASSUME NEW r \in DispositionRuns, NEW s \in Rec!Subjects, NEW o \in {"DONE", "EXCEPTION"}, Rec!ReadForResult(r, s, o)
      PROVE  op.does = "result" /\ op.run \in DispositionRuns /\ Reported(op.run, op)
  <2>1. op = [does |-> "result", run |-> r, subject |-> s, outcome |-> o,
              checked |-> IF o = "DONE" THEN clock ELSE 0]
    BY <1>2 DEF Rec!ReadForResult, Rec!Checked
  <2>2. /\ op.does = "result" /\ op.run = r /\ op.subject = s /\ op.outcome = o
        /\ op.checked <= clock /\ (o = "DONE" => op.checked = clock)
    BY <1>0, <2>1
  <2>3. Rec!Exists(disposition[r])
    BY <1>2 DEF Rec!ReadForResult, Rec!Exists
  <2>4. ASSUME o = "DONE"
        PROVE  Rec!Evidenced(s, disposition[r].rule) /\ Clear(s, disposition[r].rule, clock, clock)
    <3>1. Rec!Evidenced(s, disposition[r].rule) /\ ~Rec!Blocked(s, disposition[r].rule)
      BY <1>2, <2>4 DEF Rec!ReadForResult
    <3>2. ASSUME NEW h \in Rec!OnSubject(s), disposition[r].rule \in hold[h].blocks PROVE Rec!Over(h, clock)
      <4>1. h \in Holds /\ hold[h].status = "RELEASED"
        BY <1>0, <3>1, <3>2
        DEF Rec!Blocked, Rec!ActiveOn, Rec!OnSubject, Rec!Exists, RecordsTyped, HoldRows
      <4> QED
        BY <1>0, <4>1 DEF Rec!Over, RecordsTyped
    <3> QED
      BY <3>1, <3>2 DEF Clear, Rec!Heeded
  <2> QED
    BY <2>2, <2>3, <2>4 DEF Reported
<1>3. ASSUME NEW r \in DispositionRuns, NEW s \in Rec!Subjects, NEW a \in Archives, Rec!ReadForArchive(r, a, s)
      PROVE  op.does = "archive"
  BY <1>3 DEF Rec!ReadForArchive, Rec!Checked
<1>4. ASSUME NEW rule \in {"ARCHIVE", "DESTROY"}, Rec!ReadForRule(rule) \/ \E r \in DispositionRuns : Rec!ReadForRun(r, rule)
      PROVE  op.does \in {"addRule", "createRun"}
  BY <1>4 DEF Rec!ReadForRule, Rec!ReadForRun, Rec!Checked
<1>5. \/ \E r \in DispositionRuns, s \in Rec!Subjects, d \in DispositionDecisions, a \in Archives \cup {Rec!NoArchive} :
           Rec!ReadForDestruction(r, s, d, a)
      \/ \E r \in DispositionRuns, s \in Rec!Subjects, o \in {"DONE", "EXCEPTION"} : Rec!ReadForResult(r, s, o)
      \/ \E r \in DispositionRuns, s \in Rec!Subjects, a \in Archives : Rec!ReadForArchive(r, a, s)
      \/ \E rule \in {"ARCHIVE", "DESTROY"} : Rec!ReadForRule(rule) \/ \E r \in DispositionRuns : Rec!ReadForRun(r, rule)
  BY DEF Rec!Next, Rec!vars, Rec!FreezePolicy, Rec!ActivatePolicy, Rec!PolicyBecomes,
     Rec!StartRun, Rec!CompleteRun, Rec!Approve,
         Rec!CreateHold, Rec!ReleaseHold, Rec!AddRule, Rec!CreateRun, Rec!CreateArchive,
         Rec!CreateDestruction, Rec!RecordItemResult
<1> QED
  BY <1>1, <1>2, <1>3, <1>4, <1>5

\* What is inserted was pending, and a run completes with what it has.
LEMMA AccountedKept ==
  ASSUME Accounted, [Rec!Next]_(Rec!vars)
  PROVE  Accounted'
<1>0. RecordsTyped /\ RecordsTyped' /\ Onward
  BY RecordsOnward DEF Accounted
<1>1. ASSUME NEW op \in recPending'
      PROVE  (op.does = "destroy" => ApprovedFor(op)') /\ (op.does = "result" => Reported(op.run, op)')
  <2>1. RecordsPendingOK(op)'
    BY <1>0, <1>1 DEF RecordsTyped
  <2>2. (op.does = "destroy" => ApprovedFor(op)) /\ (op.does = "result" => Reported(op.run, op))
    BY <1>1, CheckedInOrder DEF Accounted
  <2> QED
    BY <1>0, <2>1, <2>2, ApprovedKept, ReportedKept DEF RecordsPendingOK
<1>2. ASSUME NEW e \in destroyed' PROVE ApprovedFor(e)'
  <2>1. e.decision \in DispositionDecisions /\ e.checked \in Nat
    BY <1>0, <1>2 DEF RecordsTyped
  <2>2. ApprovedFor(e)
    <3>1. CASE e \in destroyed
      BY <3>1 DEF Accounted
    <3>2. CASE e \notin destroyed
      <4>1. PICK op \in recPending : Rec!CreateDestruction(op)
        <5>1. destroyed' # destroyed
          BY <1>2, <3>2
        <5> QED
          BY <5>1
          DEF Rec!Next, Rec!vars, Rec!Checked, Rec!FreezePolicy, Rec!ActivatePolicy,
              Rec!PolicyBecomes, Rec!StartRun,
             Rec!CompleteRun, Rec!ReadForRule, Rec!ReadForRun, Rec!ReadForArchive,
             Rec!ReadForDestruction, Rec!ReadForResult,
             Rec!Approve, Rec!CreateHold, Rec!ReleaseHold, Rec!AddRule, Rec!CreateRun,
             Rec!CreateArchive, Rec!RecordItemResult
      <4>2. /\ e.subject = op.subject /\ e.decision = op.decision /\ e.checked = op.checked
            /\ ApprovedFor(op)
        BY <1>2, <3>2, <4>1 DEF Rec!CreateDestruction, Accounted
      <4> QED
        BY <4>2 DEF ApprovedFor
    <3> QED
      BY <3>1, <3>2
  <2> QED
    BY <1>0, <2>1, <2>2, ApprovedKept
<1>3. ASSUME NEW r \in DispositionRuns, NEW o \in results'[r] PROVE Reported(r, o)'
  <2>1. o.checked \in Nat
    BY <1>0, <1>3 DEF RecordsTyped, Report
  <2>2. Reported(r, o)
    <3>1. CASE o \in results[r]
      BY <3>1 DEF Accounted
    <3>2. CASE o \notin results[r]
      <4>1. PICK op \in recPending : Rec!RecordItemResult(op)
        <5>1. results' # results
          BY <1>3, <3>2
        <5> QED
          BY <5>1
          DEF Rec!Next, Rec!vars, Rec!Checked, Rec!FreezePolicy, Rec!ActivatePolicy,
              Rec!PolicyBecomes, Rec!StartRun,
             Rec!CompleteRun, Rec!ReadForRule, Rec!ReadForRun, Rec!ReadForArchive,
             Rec!ReadForDestruction, Rec!ReadForResult,
             Rec!Approve, Rec!CreateHold, Rec!ReleaseHold, Rec!AddRule, Rec!CreateRun,
             Rec!CreateArchive, Rec!CreateDestruction
      <4>2. /\ o.subject = op.subject /\ o.outcome = op.outcome /\ o.checked = op.checked
            /\ r = op.run /\ Reported(r, op)
        BY <1>0, <1>3, <3>2, <4>1
        DEF Rec!RecordItemResult, Accounted, RecordsTyped, RecordsPendingOK
      <4> QED
        BY <4>2 DEF Reported
    <3> QED
      BY <3>1, <3>2
  <2> QED
    BY <1>0, <2>1, <2>2, ReportedKept
<1>4. ASSUME NEW r \in DispositionRuns, disposition'[r].status = "COMPLETED", NEW o \in results'[r]
      PROVE  o.outcome = "DONE" \/ o.late
  <2>1. CASE Rec!CompleteRun(r)
    BY <1>0, <1>4, <2>1 DEF Rec!CompleteRun, RecordsTyped
  <2>2. CASE ~Rec!CompleteRun(r)
    <3>1. disposition[r].status = "COMPLETED"
      <4>1. ASSUME NEW q \in DispositionRuns, Rec!StartRun(q) \/ Rec!CompleteRun(q) PROVE q = r \/ disposition'[r] = disposition[r]
        BY <1>0, <4>1 DEF Rec!StartRun, Rec!CompleteRun, RecordsTyped
      <4>2. ASSUME Rec!StartRun(r) PROVE FALSE
        BY <1>0, <1>4, <4>2 DEF Rec!StartRun, RecordsTyped, RunRows
      <4>3. ASSUME NEW op \in recPending, Rec!CreateRun(op) PROVE disposition'[r] = disposition[r]
        BY <1>0, <1>4, <4>3 DEF Rec!CreateRun, RecordsTyped
      <4>4. disposition'[r] = disposition[r] \/ \E q \in DispositionRuns : Rec!StartRun(q) \/ Rec!CompleteRun(q)
        BY <4>3
        DEF Rec!Next, Rec!vars, Rec!Checked, Rec!FreezePolicy, Rec!ActivatePolicy,
            Rec!PolicyBecomes,
           Rec!ReadForRule, Rec!ReadForRun, Rec!ReadForArchive, Rec!ReadForDestruction,
           Rec!ReadForResult, Rec!Approve,
           Rec!CreateHold, Rec!ReleaseHold, Rec!AddRule, Rec!CreateArchive,
           Rec!CreateDestruction, Rec!RecordItemResult
      <4> QED
        BY <1>4, <2>2, <4>1, <4>2, <4>4
    <3>2. CASE o \in results[r]
      BY <3>1, <3>2 DEF Accounted
    <3>3. CASE o \notin results[r]
      <4>1. PICK op \in recPending : Rec!RecordItemResult(op)
        <5>1. results' # results
          BY <1>4, <3>3
        <5> QED
          BY <5>1
          DEF Rec!Next, Rec!vars, Rec!Checked, Rec!FreezePolicy, Rec!ActivatePolicy,
              Rec!PolicyBecomes, Rec!StartRun,
             Rec!CompleteRun, Rec!ReadForRule, Rec!ReadForRun, Rec!ReadForArchive,
             Rec!ReadForDestruction, Rec!ReadForResult,
             Rec!Approve, Rec!CreateHold, Rec!ReleaseHold, Rec!AddRule, Rec!CreateRun,
             Rec!CreateArchive, Rec!CreateDestruction
      <4>2. r = op.run /\ o.late = (disposition[r].status # "RUNNING")
        BY <1>0, <1>4, <3>3, <4>1 DEF Rec!RecordItemResult, RecordsTyped, RecordsPendingOK
      <4> QED
        BY <3>1, <4>2
    <3> QED
      BY <3>2, <3>3
  <2> QED
    BY <2>1, <2>2
<1> QED
  BY <1>0, <1>1, <1>2, <1>3, <1>4 DEF Accounted

\* The invariant says of each row what the property does.
LEMMA AccountedSound == Accounted => Rec!DispositionsAccounted
BY DEF Accounted, Rec!DispositionsAccounted, ApprovedFor, Reported, Clear

-----------------------------------------------------------------------------
\* The fulfilment of requirements.

FulfilmentRows ==
  [requirement : Projects, person : Persons, share : Shares, capacity : Shares]

ResourcesTyped ==
  /\ period \in [Projects -> Res!Periods \cup {<<>>}]
  /\ requirement \in [Res!Requirements -> {"NONE", "OPEN", "PARTIALLY_FULFILLED", "FULFILLED"}]
  /\ fulfilled \in Seq(FulfilmentRows)
  /\ given \in [Capabilities -> Seq(Shares)]
  /\ fLocal \in [CapabilityCallers -> {Res!Idle} \cup [for : Capabilities, share : Shares, read : Nat]]

SharesGiven == [n \in DOMAIN fulfilled |-> fulfilled[n].share]
CapacitiesGiven == [n \in DOMAIN fulfilled |-> fulfilled[n].capacity]

ForProject(q) == {n \in DOMAIN fulfilled : fulfilled[n].requirement = q}
EngagedBy(person, day) ==
  {n \in DOMAIN fulfilled : /\ fulfilled[n].person = person
                            /\ period[fulfilled[n].requirement][1] <= day
                            /\ day <= period[fulfilled[n].requirement][2]}

TotalShare(q) == Cardinality(Points(ForProject(q), SharesGiven))
TotalGiven(k) == Cardinality(Points(DOMAIN given[k], given[k]))
TotalEngaged(person, day) == Cardinality(Points(EngagedBy(person, day), CapacitiesGiven))

\* What is fulfilled was required, for a period.
RequiredFirst ==
  /\ \A n \in DOMAIN fulfilled : requirement[fulfilled[n].requirement] # "NONE"
  /\ \A q \in Projects : requirement[q] # "NONE" => period[q] \in Res!Periods

Resources ==
  /\ ResourcesTyped /\ RequiredFirst
  /\ \A person \in Persons, day \in 1..LastDay + 1 : TotalEngaged(person, day) <= 100
  /\ \A q \in Projects : Res!Tells(q, TotalShare(q))
  /\ \A k \in Capabilities \ overlapped : Res!Tells(k, TotalGiven(k))
  /\ \A c \in CapabilityCallers : fLocal[c] # Res!Idle => fLocal[c].read + fLocal[c].share <= 100

\* A share is a percentage, and none is zero.
LEMMA SharesArePercentages ==
  ASSUME Res!ResourcesAssumption, NEW x \in Shares
  PROVE  x \in 1..100 /\ x \in 0..100
<1>1. x \in 1..100
  BY DEF Res!ResourcesAssumption
<1> QED
  BY <1>1

\* The rows are weighed with their shares and with what they take of a person.
LEMMA FulfilmentsWeighed ==
  ASSUME Res!ResourcesAssumption, ResourcesTyped, NEW S \in SUBSET DOMAIN fulfilled
  PROVE  Weighed(S, SharesGiven) /\ Weighed(S, CapacitiesGiven)
<1>1. Len(fulfilled) \in Nat /\ DOMAIN fulfilled = 1..Len(fulfilled)
      /\ \A n \in DOMAIN fulfilled : fulfilled[n] \in FulfilmentRows
  BY DEF ResourcesTyped
<1>2. IsFiniteSet(DOMAIN fulfilled)
  <2>1. 1 \in Int /\ Len(fulfilled) \in Int
    BY <1>1
  <2> QED
    BY ONLY <1>1, <2>1, FS_Interval, Zenon
<1>3. IsFiniteSet(S)
  BY <1>2, FS_Subset
<1>4. \A n \in S : SharesGiven[n] \in 0..100 /\ CapacitiesGiven[n] \in 0..100
  <2> SUFFICES ASSUME NEW n \in S
               PROVE  SharesGiven[n] \in 0..100 /\ CapacitiesGiven[n] \in 0..100
    OBVIOUS
  <2>1. n \in DOMAIN fulfilled /\ fulfilled[n] \in FulfilmentRows
    BY <1>1
  <2>2. SharesGiven[n] \in Shares /\ CapacitiesGiven[n] \in Shares
    BY <2>1 DEF SharesGiven, CapacitiesGiven, FulfilmentRows
  <2> QED
    BY <2>2, SharesArePercentages
<1> QED
  BY <1>3, <1>4 DEF Weighed

\* And those of a capability with theirs.
LEMMA CapabilitiesWeighed ==
  ASSUME Res!ResourcesAssumption, ResourcesTyped, NEW k \in Capabilities
  PROVE  Weighed(DOMAIN given[k], given[k])
<1>1. given[k] \in Seq(Shares)
  BY DEF ResourcesTyped
<1>2. /\ Len(given[k]) \in Nat /\ DOMAIN given[k] = 1..Len(given[k])
      /\ \A n \in DOMAIN given[k] : given[k][n] \in Shares
  BY <1>1
<1>3. IsFiniteSet(DOMAIN given[k])
  <2>1. 1 \in Int /\ Len(given[k]) \in Int
    BY <1>2
  <2> QED
    BY ONLY <1>2, <2>1, FS_Interval, Zenon
<1>4. \A n \in DOMAIN given[k] : given[k][n] \in 0..100
  BY <1>2, SharesArePercentages
<1> QED
  BY <1>3, <1>4 DEF Weighed

\* The module counts as the sums do.
LEMMA SumsCounted == \A T : Res!Cardinality(T) = Cardinality(T)
BY DEF Res!Cardinality, Cardinality

\* The sums of the module count these points.
LEMMA SumsCount ==
  /\ \A q : Res!ShareOf(q) = TotalShare(q)
  /\ \A k : Res!GivenTo(k) = TotalGiven(k)
  /\ \A person, day : Res!Engaged(person, day) = TotalEngaged(person, day)
<1>1. ASSUME NEW q PROVE Res!ShareOf(q) = TotalShare(q)
  <2>1. UNION {{n} \X (1..fulfilled[n].share) : n \in ForProject(q)}
          = Points(ForProject(q), SharesGiven)
    BY DEF Points, ForProject, SharesGiven
  <2> QED
    BY <2>1, SumsCounted DEF Res!ShareOf, TotalShare, Res!Sum, ForProject
<1>2. ASSUME NEW k PROVE Res!GivenTo(k) = TotalGiven(k)
  BY SumsCounted DEF Res!GivenTo, TotalGiven, Res!Sum, Points
<1>3. ASSUME NEW person, NEW day PROVE Res!Engaged(person, day) = TotalEngaged(person, day)
  <2>1. UNION {{n} \X (1..fulfilled[n].capacity) : n \in EngagedBy(person, day)}
          = Points(EngagedBy(person, day), CapacitiesGiven)
    BY DEF Points, EngagedBy, CapacitiesGiven
  <2> QED
    BY <2>1, SumsCounted DEF Res!Engaged, TotalEngaged, Res!Sum, EngagedBy
<1> QED
  BY <1>1, <1>2, <1>3

\* Nothing is required or given yet.
LEMMA ResourcesInit == Res!ResourcesAssumption /\ Res!Init => Resources
<1> SUFFICES ASSUME Res!ResourcesAssumption, Res!Init PROVE Resources
  OBVIOUS
<1>1. ResourcesTyped /\ RequiredFirst /\ DOMAIN fulfilled = {}
      /\ \A k \in Capabilities : DOMAIN given[k] = {}
  BY DEF Res!Init, ResourcesTyped, RequiredFirst, Res!Requirements, Res!Idle
<1>2. /\ \A q : TotalShare(q) = 0 /\ \A person, day : TotalEngaged(person, day) = 0
      /\ \A k \in Capabilities : TotalGiven(k) = 0
  <2>1. \A q : ForProject(q) = {}
    BY <1>1 DEF ForProject
  <2>2. \A person, day : EngagedBy(person, day) = {}
    BY <1>1 DEF EngagedBy
  <2> QED
    BY <1>1, <2>1, <2>2, PointsOfNone DEF TotalShare, TotalEngaged, TotalGiven
<1>3. \A r \in Res!Requirements : requirement[r] \in {"NONE", "OPEN"}
  BY DEF Res!Init
<1>4. \A r \in Res!Requirements : Res!Tells(r, 0)
  BY <1>3 DEF Res!Tells
<1>5. \A c \in CapabilityCallers : fLocal[c] = Res!Idle
  BY DEF Res!Init
<1>6. \A q \in Projects : Res!Tells(q, TotalShare(q))
  BY <1>2, <1>4 DEF Res!Requirements
<1>7. \A k \in Capabilities : Res!Tells(k, TotalGiven(k))
  BY <1>2, <1>4 DEF Res!Requirements
<1> QED
  BY <1>1, <1>2, <1>5, <1>6, <1>7 DEF Resources

\* A requirement is written: nothing was fulfilled of it.
LEMMA RequireKept ==
  ASSUME Resources, NEW q \in Projects, NEW p \in Res!Periods, Res!CreateResourceRequirement(q, p)
  PROVE  Resources'
<1>1. ResourcesTyped /\ RequiredFirst /\ requirement[q] = "NONE"
      /\ requirement' = [requirement EXCEPT ![q] = "OPEN"] /\ period' = [period EXCEPT ![q] = p]
      /\ fulfilled' = fulfilled /\ given' = given /\ fLocal' = fLocal /\ overlapped' = overlapped
  BY DEF Resources, Res!CreateResourceRequirement
<1>2. ResourcesTyped'
  BY <1>1 DEF ResourcesTyped
<1>3. RequiredFirst'
  BY <1>1 DEF RequiredFirst, ResourcesTyped, Res!Requirements
<1>4. \A n \in DOMAIN fulfilled : period'[fulfilled[n].requirement] = period[fulfilled[n].requirement]
  BY <1>1 DEF RequiredFirst, ResourcesTyped
<1>5. \A person, day : TotalEngaged(person, day)' = TotalEngaged(person, day)
  <2>1. \A person, day : EngagedBy(person, day)' = EngagedBy(person, day)
    BY <1>1, <1>4 DEF EngagedBy
  <2>2. CapacitiesGiven' = CapacitiesGiven
    BY <1>1 DEF CapacitiesGiven
  <2> QED
    BY <2>1, <2>2 DEF TotalEngaged
<1>6. /\ \A r : TotalShare(r)' = TotalShare(r) /\ \A k : TotalGiven(k)' = TotalGiven(k)
  BY <1>1 DEF TotalShare, TotalGiven, ForProject, SharesGiven
<1>7. /\ requirement'[q] = "OPEN" /\ q \in Res!Requirements
      /\ \A r \in Res!Requirements \ {q} : requirement'[r] = requirement[r]
  BY <1>1 DEF ResourcesTyped, Res!Requirements
<1>8. ASSUME NEW r \in Projects PROVE Res!Tells(r, TotalShare(r))'
  <2>1. Res!Tells(r, TotalShare(r)) /\ TotalShare(r)' = TotalShare(r)
    BY <1>6 DEF Resources
  <2> QED
    BY <1>1, <1>7, <2>1 DEF Res!Tells, Res!Requirements
<1>9. ASSUME NEW k \in Capabilities \ overlapped PROVE Res!Tells(k, TotalGiven(k))'
  <2>1. Res!Tells(k, TotalGiven(k)) /\ TotalGiven(k)' = TotalGiven(k)
    BY <1>6 DEF Resources
  <2> QED
    BY <1>1, <1>7, <2>1 DEF Res!Tells, Res!Requirements
<1> QED
  BY <1>1, <1>2, <1>3, <1>5, <1>8, <1>9 DEF Resources

\* A project is given a share of a person: the transaction has counted all that the
\* person is engaged for in the period, and all that is given to the project.
LEMMA FulfilKept ==
  ASSUME Res!ResourcesAssumption, Resources, NEW q \in Projects, NEW person \in Persons,
         NEW share \in Shares, NEW taken \in Shares,
         Res!FulfilResourceRequirement(q, person, share, taken)
  PROVE  Resources'
<1> DEFINE row == [requirement |-> q, person |-> person, share |-> share, capacity |-> taken]
           n == Len(fulfilled) + 1
<1>1. /\ ResourcesTyped /\ RequiredFirst /\ requirement[q] \in {"OPEN", "PARTIALLY_FULFILLED"}
      /\ Res!ShareOf(q) + share <= 100 /\ Res!AllocatedTo(person, period[q]) + taken <= 100
      /\ fulfilled' = Append(fulfilled, row)
      /\ requirement' = [requirement EXCEPT ![q] = Res!Reached(Res!ShareOf(q) + share)]
      /\ period' = period /\ given' = given /\ fLocal' = fLocal /\ overlapped' = overlapped
  BY DEF Resources, Res!FulfilResourceRequirement
<1>2. /\ share \in 1..100 /\ taken \in 1..100 /\ LastDay \in Nat
      /\ Projects \cap Capabilities = {}
  BY DEF Res!ResourcesAssumption
<1>3. /\ row \in FulfilmentRows /\ row.requirement = q /\ row.person = person
      /\ row.share = share /\ row.capacity = taken
  BY DEF FulfilmentRows
<1> HIDE DEF row
<1>4. /\ n \in Nat /\ DOMAIN fulfilled = 1..Len(fulfilled)
      /\ \A m \in DOMAIN fulfilled : fulfilled[m] \in FulfilmentRows
  BY <1>1 DEF ResourcesTyped
<1>5. /\ DOMAIN fulfilled' = DOMAIN fulfilled \cup {n} /\ n \notin DOMAIN fulfilled
      /\ fulfilled'[n] = row /\ \A m \in DOMAIN fulfilled : fulfilled'[m] = fulfilled[m]
      /\ fulfilled' \in Seq(FulfilmentRows)
  BY <1>1, <1>3, <1>4 DEF ResourcesTyped
<1> HIDE DEF n
<1>6. ResourcesTyped'
  BY <1>1, <1>5 DEF ResourcesTyped, Res!Reached
<1>7. /\ requirement'[q] = Res!Reached(Res!ShareOf(q) + share) /\ q \in Res!Requirements
      /\ \A r \in Res!Requirements \ {q} : requirement'[r] = requirement[r]
      /\ requirement'[q] # "NONE"
  BY <1>1 DEF ResourcesTyped, Res!Requirements, Res!Reached
<1>8. RequiredFirst'
  <2>1. ASSUME NEW m \in DOMAIN fulfilled' PROVE requirement'[fulfilled'[m].requirement] # "NONE"
    <3>1. CASE m = n
      BY <1>3, <1>5, <1>7, <3>1
    <3>2. CASE m \in DOMAIN fulfilled
      <4>1. fulfilled'[m] = fulfilled[m] /\ fulfilled[m].requirement \in Res!Requirements
            /\ requirement[fulfilled[m].requirement] # "NONE"
        BY <1>1, <1>4, <1>5, <3>2 DEF RequiredFirst, FulfilmentRows, Res!Requirements
      <4> QED
        BY <1>7, <4>1
    <3> QED
      BY <1>5, <3>1, <3>2
  <2>2. \A r \in Projects : requirement'[r] # "NONE" => period'[r] \in Res!Periods
    BY <1>1, <1>7 DEF RequiredFirst, Res!Requirements
  <2> QED
    BY <2>1, <2>2 DEF RequiredFirst
<1>9. /\ \A m \in DOMAIN fulfilled : SharesGiven'[m] = SharesGiven[m]
                                     /\ CapacitiesGiven'[m] = CapacitiesGiven[m]
      /\ SharesGiven'[n] = share /\ CapacitiesGiven'[n] = taken
  BY <1>3, <1>5 DEF SharesGiven, CapacitiesGiven
<1>10. ASSUME NEW r \in Projects PROVE Res!Tells(r, TotalShare(r))'
  <2>1. ForProject(r) \in SUBSET DOMAIN fulfilled
    BY DEF ForProject
  <2>2. Weighed(ForProject(r), SharesGiven)
    BY <1>1, <2>1, FulfilmentsWeighed
  <2>3. CASE r = q
    <3>1. ForProject(r)' = ForProject(r) \cup {n}
      BY <1>3, <1>5, <2>3 DEF ForProject
    <3>2. n \notin ForProject(r) /\ \A m \in ForProject(r) : SharesGiven'[m] = SharesGiven[m]
      BY <1>5, <1>9, <2>1
    <3>3. Cardinality(Points(ForProject(r) \cup {n}, SharesGiven'))
            = Cardinality(Points(ForProject(r), SharesGiven)) + SharesGiven'[n]
      <4>1. SharesGiven'[n] \in 0..100
        BY <1>2, <1>9
      <4> QED
        BY <2>2, <3>2, <4>1, PointsInserted
    <3>4. TotalShare(r)' = TotalShare(r) + share
      BY <1>9, <3>1, <3>3 DEF TotalShare
    <3>5. TotalShare(r) \in Nat /\ TotalShare(r) = Res!ShareOf(q)
      BY <2>2, <2>3, PointsFinite, SumsCount DEF TotalShare
    <3>6. TotalShare(r) + share \in 1..100
      <4>1. TotalShare(r) + share <= 100 /\ TotalShare(r) \in Nat /\ share \in 1..100
        BY <1>1, <1>2, <3>5
      <4> QED
        BY ONLY <4>1
    <3>7. requirement'[r] = Res!Reached(TotalShare(r) + share)
      BY <1>7, <2>3, <3>5
    <3> QED
      BY <3>4, <3>6, <3>7 DEF Res!Tells, Res!Reached
  <2>4. CASE r # q
    <3>1. ForProject(r)' = ForProject(r)
      BY <1>3, <1>5, <2>4 DEF ForProject
    <3>2. Points(ForProject(r), SharesGiven') = Points(ForProject(r), SharesGiven)
      <4>1. \A m \in ForProject(r) : SharesGiven'[m] = SharesGiven[m]
        BY <1>9, <2>1
      <4> QED
        BY <4>1, PointsAlike
    <3>3. TotalShare(r)' = TotalShare(r) /\ requirement'[r] = requirement[r]
      BY <1>7, <2>4, <3>1, <3>2 DEF TotalShare, Res!Requirements
    <3>4. Res!Tells(r, TotalShare(r))
      BY DEF Resources
    <3> QED
      BY <3>3, <3>4 DEF Res!Tells
  <2> QED
    BY <2>3, <2>4
<1>11. ASSUME NEW k \in Capabilities \ overlapped PROVE Res!Tells(k, TotalGiven(k))'
  <2>1. TotalGiven(k)' = TotalGiven(k) /\ Res!Tells(k, TotalGiven(k))
    BY <1>1 DEF TotalGiven, Resources
  <2>2. requirement'[k] = requirement[k]
    BY <1>2, <1>7 DEF Res!Requirements
  <2> QED
    BY <2>1, <2>2 DEF Res!Tells
<1>12. ASSUME NEW who \in Persons, NEW day \in 1..LastDay + 1
       PROVE  TotalEngaged(who, day)' <= 100
  <2>1. EngagedBy(who, day) \in SUBSET DOMAIN fulfilled
    BY DEF EngagedBy
  <2>2. Weighed(EngagedBy(who, day), CapacitiesGiven) /\ TotalEngaged(who, day) <= 100
    BY <1>1, <2>1, FulfilmentsWeighed DEF Resources
  <2>3. \A m \in EngagedBy(who, day) : CapacitiesGiven'[m] = CapacitiesGiven[m]
    BY <1>9, <2>1
  <2>4. EngagedBy(who, day)' = IF who = person /\ period[q][1] <= day /\ day <= period[q][2]
                               THEN EngagedBy(who, day) \cup {n} ELSE EngagedBy(who, day)
    BY <1>1, <1>3, <1>5 DEF EngagedBy
  <2>5. CASE who = person /\ period[q][1] <= day /\ day <= period[q][2]
    <3> DEFINE Over == {m \in DOMAIN fulfilled : /\ fulfilled[m].person = person
                                                 /\ Res!Overlaps(period[fulfilled[m].requirement], period[q])}
    <3>1. Res!AllocatedTo(person, period[q]) = Cardinality(Points(Over, CapacitiesGiven))
      <4>1. UNION {{m} \X (1..fulfilled[m].capacity) : m \in Over} = Points(Over, CapacitiesGiven)
        BY DEF Points, CapacitiesGiven
      <4> QED
        BY <4>1, SumsCounted DEF Res!AllocatedTo, Res!Sum
    <3>2. Weighed(Over, CapacitiesGiven)
      BY <1>1, FulfilmentsWeighed
    <3>3. EngagedBy(who, day) \in SUBSET Over
      <4> SUFFICES ASSUME NEW m \in EngagedBy(who, day) PROVE m \in Over
        OBVIOUS
      <4>1. /\ m \in DOMAIN fulfilled /\ fulfilled[m].person = person
            /\ fulfilled[m].requirement \in Projects /\ requirement[fulfilled[m].requirement] # "NONE"
            /\ period[fulfilled[m].requirement][1] <= day /\ day <= period[fulfilled[m].requirement][2]
        BY <1>1, <1>4, <2>5 DEF EngagedBy, RequiredFirst, FulfilmentRows
      <4>2. period[fulfilled[m].requirement] \in Res!Periods /\ period[q] \in Res!Periods
        BY <1>1, <4>1 DEF RequiredFirst
      <4> QED
        BY <1>2, <2>5, <4>1, <4>2 DEF Res!Periods, Res!Overlaps
    <3> HIDE DEF Over
    <3>4. /\ TotalEngaged(who, day) \in Nat /\ Res!AllocatedTo(person, period[q]) \in Nat
          /\ TotalEngaged(who, day) <= Res!AllocatedTo(person, period[q])
      BY <3>1, <3>2, <3>3, PointsFewer DEF TotalEngaged
    <3>5. Cardinality(Points(EngagedBy(who, day) \cup {n}, CapacitiesGiven'))
            = Cardinality(Points(EngagedBy(who, day), CapacitiesGiven)) + CapacitiesGiven'[n]
      <4>1. CapacitiesGiven'[n] \in 0..100 /\ n \notin EngagedBy(who, day)
        BY <1>2, <1>5, <1>9, <2>1
      <4> QED
        BY <2>2, <2>3, <4>1, PointsInserted
    <3>6. TotalEngaged(who, day)' = TotalEngaged(who, day) + taken
      BY <1>9, <2>4, <2>5, <3>5 DEF TotalEngaged
    <3> QED
      BY <1>1, <1>2, <3>4, <3>6
  <2>6. CASE ~(who = person /\ period[q][1] <= day /\ day <= period[q][2])
    <3>1. Points(EngagedBy(who, day), CapacitiesGiven') = Points(EngagedBy(who, day), CapacitiesGiven)
      BY <2>3, PointsAlike
    <3> QED
      BY <2>2, <2>4, <2>6, <3>1 DEF TotalEngaged
  <2> QED
    BY <2>5, <2>6
<1> QED
  BY <1>1, <1>6, <1>8, <1>10, <1>11, <1>12 DEF Resources

\* A capability is given a share: when its sum is not what was read, it is counted
\* among those given a share on a stale sum.
LEMMA GiveKept ==
  ASSUME Res!ResourcesAssumption, Resources, NEW c \in CapabilityCallers, Res!FulfilRequirement(c)
  PROVE  Resources'
<1> DEFINE k == fLocal[c].for
           share == fLocal[c].share
           n == Len(given[k]) + 1
<1>1. /\ ResourcesTyped /\ RequiredFirst /\ fLocal[c] # Res!Idle
      /\ given' = [given EXCEPT ![k] = Append(@, share)]
      /\ requirement' = [requirement EXCEPT ![k] = Res!Reached(fLocal[c].read + share)]
      /\ overlapped' = (IF Res!GivenTo(k) # fLocal[c].read THEN overlapped \cup {k} ELSE overlapped)
      /\ fLocal' = [fLocal EXCEPT ![c] = Res!Idle] /\ period' = period /\ fulfilled' = fulfilled
  BY DEF Resources, Res!FulfilRequirement
<1>2. /\ k \in Capabilities /\ share \in Shares /\ fLocal[c].read \in Nat
      /\ fLocal[c].read + share <= 100 /\ share \in 1..100 /\ Projects \cap Capabilities = {}
  BY <1>1 DEF Resources, ResourcesTyped, Res!ResourcesAssumption
<1> HIDE DEF k, share
<1>3. ResourcesTyped'
  <2>1. Append(given[k], share) \in Seq(Shares)
    BY <1>1, <1>2 DEF ResourcesTyped
  <2> QED
    BY <1>1, <2>1 DEF ResourcesTyped, Res!Reached
<1>4. /\ requirement'[k] = Res!Reached(fLocal[c].read + share) /\ k \in Res!Requirements
      /\ \A r \in Res!Requirements \ {k} : requirement'[r] = requirement[r]
      /\ \A q \in Projects : q \in Res!Requirements \ {k}
  BY <1>1, <1>2 DEF ResourcesTyped, Res!Requirements
<1>5. RequiredFirst'
  <2>1. \A m \in DOMAIN fulfilled : fulfilled[m].requirement \in Projects
    <3>1. \A m \in DOMAIN fulfilled : fulfilled[m] \in FulfilmentRows
      BY <1>1 DEF ResourcesTyped
    <3> QED
      BY <3>1 DEF FulfilmentRows
  <2> QED
    BY <1>1, <1>4, <2>1 DEF RequiredFirst
<1>6. /\ \A q : TotalShare(q)' = TotalShare(q)
      /\ \A person, day : TotalEngaged(person, day)' = TotalEngaged(person, day)
  BY <1>1 DEF TotalShare, TotalEngaged, ForProject, EngagedBy, SharesGiven, CapacitiesGiven
<1>7. ASSUME NEW q \in Projects PROVE Res!Tells(q, TotalShare(q))'
  <2>1. requirement'[q] = requirement[q] /\ TotalShare(q)' = TotalShare(q) /\ Res!Tells(q, TotalShare(q))
    BY <1>4, <1>6 DEF Resources
  <2> QED
    BY <2>1 DEF Res!Tells
<1>8. ASSUME NEW j \in Capabilities \ overlapped' PROVE Res!Tells(j, TotalGiven(j))'
  <2>1. CASE j # k
    <3>1. given'[j] = given[j] /\ requirement'[j] = requirement[j] /\ j \notin overlapped
      BY <1>1, <1>4, <2>1 DEF ResourcesTyped, Res!Requirements
    <3>2. Res!Tells(j, TotalGiven(j)) /\ TotalGiven(j)' = TotalGiven(j)
      BY <3>1 DEF Resources, TotalGiven
    <3> QED
      BY <3>1, <3>2 DEF Res!Tells
  <2>2. CASE j = k
    <3>1. Res!GivenTo(k) = fLocal[c].read /\ TotalGiven(k) = fLocal[c].read
      BY <1>1, <2>2, SumsCount
    <3>2. given[k] \in Seq(Shares) /\ given'[k] = Append(given[k], share)
      BY <1>1, <1>2 DEF ResourcesTyped
    <3>3. /\ n \in Nat /\ DOMAIN given'[k] = DOMAIN given[k] \cup {n} /\ n \notin DOMAIN given[k]
          /\ given'[k][n] = share /\ \A m \in DOMAIN given[k] : given'[k][m] = given[k][m]
      BY <1>2, <3>2
    <3> HIDE DEF n
    <3>4. Weighed(DOMAIN given[k], given[k])
      BY <1>1, <1>2, CapabilitiesWeighed
    <3>5. Cardinality(Points(DOMAIN given[k] \cup {n}, given'[k]))
            = Cardinality(Points(DOMAIN given[k], given[k])) + given'[k][n]
      <4>1. given'[k][n] \in 0..100
        BY <1>2, <3>3
      <4> QED
        BY <3>3, <3>4, <4>1, PointsInserted
    <3>6. Cardinality(Points(DOMAIN given'[k], given'[k])) = fLocal[c].read + share
      BY <3>1, <3>3, <3>5 DEF TotalGiven
    <3>7. TotalGiven(j)' = fLocal[c].read + share
      BY <2>2, <3>6 DEF TotalGiven
    <3>8. fLocal[c].read + share \in 1..100
      <4> DEFINE read == fLocal[c].read
      <4>1. read \in Nat /\ share \in 1..100 /\ read + share <= 100
        BY <1>2
      <4> HIDE DEF read
      <4>2. read + share \in 1..100
        BY ONLY <4>1
      <4> QED
        BY ONLY <4>2 DEF read
    <3>9. requirement'[j] = Res!Reached(fLocal[c].read + share)
      BY <1>4, <2>2
    <3> QED
      BY <3>7, <3>8, <3>9 DEF Res!Tells, Res!Reached
  <2> QED
    BY <2>1, <2>2
<1>9. \A d \in CapabilityCallers : fLocal'[d] # Res!Idle => fLocal'[d] = fLocal[d]
  BY <1>1 DEF ResourcesTyped
<1> QED
  BY <1>1, <1>3, <1>5, <1>6, <1>7, <1>8, <1>9 DEF Resources

\* Each step of the fulfilment of requirements keeps it.
LEMMA ResourcesKept == Res!ResourcesAssumption /\ Resources /\ [Res!Next]_(Res!vars) => Resources'
<1> SUFFICES ASSUME Res!ResourcesAssumption, Resources, [Res!Next]_(Res!vars) PROVE Resources'
  OBVIOUS
<1>1. ResourcesTyped /\ RequiredFirst
  BY DEF Resources
<1>2. ASSUME period' = period, requirement' = requirement, fulfilled' = fulfilled, given' = given,
             overlapped' = overlapped, ResourcesTyped',
             \A c \in CapabilityCallers : fLocal'[c] # Res!Idle => fLocal'[c].read + fLocal'[c].share <= 100
      PROVE  Resources'
  <2>1. /\ \A q : TotalShare(q)' = TotalShare(q)
        /\ \A k : TotalGiven(k)' = TotalGiven(k)
        /\ \A person, day : TotalEngaged(person, day)' = TotalEngaged(person, day)
    BY <1>2 DEF TotalShare, TotalEngaged, TotalGiven, ForProject, EngagedBy, SharesGiven,
       CapacitiesGiven
  <2>2. RequiredFirst'
    BY <1>1, <1>2 DEF RequiredFirst
  <2>3. \A q \in Projects : Res!Tells(q, TotalShare(q))'
    BY <1>2, <2>1 DEF Resources, Res!Tells
  <2>4. \A k \in Capabilities \ overlapped' : Res!Tells(k, TotalGiven(k))'
    BY <1>2, <2>1 DEF Resources, Res!Tells
  <2> QED
    BY <1>2, <2>1, <2>2, <2>3, <2>4 DEF Resources
<1>3. ASSUME NEW c \in CapabilityCallers, NEW k \in Capabilities, NEW share \in Shares,
             Res!ReadRequirement(c, k, share)
      PROVE  Resources'
  <2> DEFINE read == [for |-> k, share |-> share, read |-> Res!GivenTo(k)]
  <2>1. fLocal' = [fLocal EXCEPT ![c] = read] /\ Res!GivenTo(k) + share <= 100
        /\ period' = period /\ requirement' = requirement /\ fulfilled' = fulfilled /\ given' = given
        /\ overlapped' = overlapped
    BY <1>3 DEF Res!ReadRequirement
  <2>2. Res!GivenTo(k) \in Nat
    BY <1>1, CapabilitiesWeighed, PointsFinite, SumsCount DEF TotalGiven
  <2>3. read \in [for : Capabilities, share : Shares, read : Nat]
        /\ read.read = Res!GivenTo(k) /\ read.share = share
    BY <2>2
  <2> HIDE DEF read
  <2>4. ResourcesTyped'
    BY <1>1, <2>1, <2>3 DEF ResourcesTyped
  <2>5. \A d \in CapabilityCallers : fLocal'[d] = IF d = c THEN read ELSE fLocal[d]
    BY <1>1, <2>1 DEF ResourcesTyped
  <2>6. \A d \in CapabilityCallers : fLocal'[d] # Res!Idle => fLocal'[d].read + fLocal'[d].share <= 100
    BY <2>1, <2>3, <2>5 DEF Resources
  <2> QED
    BY <1>2, <2>1, <2>4, <2>6
<1>4. CASE UNCHANGED Res!vars
  <2>1. ResourcesTyped' /\ \A c \in CapabilityCallers : fLocal'[c] # Res!Idle => fLocal'[c].read + fLocal'[c].share <= 100
    BY <1>1, <1>4 DEF Res!vars, ResourcesTyped, Resources
  <2> QED
    BY <1>2, <1>4, <2>1 DEF Res!vars
<1> QED
  BY <1>3, <1>4, RequireKept, FulfilKept, GiveKept DEF Res!Next

\* It gives what is promised of fulfilments.
LEMMA ResourcesSound == Resources => Res!GivenOnce
BY SumsCount DEF Resources, Res!GivenOnce

-----------------------------------------------------------------------------
\* The resolution of configurations.

LatestKind == "LATEST_ESTABLISHED_BASELINE"
RunRecord(st, t, s, uses, from, explicit, found) ==
  [status |-> st, at |-> t, started |-> s, uses |-> uses, from |-> from, explicit |-> explicit,
   results |-> found]

\* Baselines, and what the writers have read, are no later than now.
InTime ==
  /\ baseline \in [ContextBaselines -> [status : {"DRAFT", "ESTABLISHED", "SUPERSEDED"}, at : Nat,
                                        holds : SUBSET ContextItems]]
  /\ confClock \in Nat /\ lateBaselines \in SUBSET ContextBaselines
  /\ held \in [BaselineWriters -> {Con!Nobody} \cup [does : {"add"}, to : ContextBaselines, item : ContextItems]
                 \cup [does : {"establish"}, of : ContextBaselines, at : 0..confClock]]

RunShaped ==
  confRun # [status |-> "NONE"] =>
    /\ confRun = RunRecord(confRun.status, confRun.at, confRun.started, confRun.uses, confRun.from, confRun.explicit, confRun.results)
    /\ confRun.status # "NONE" /\ confRun.at \in Nat /\ confRun.started \in 0..confClock

\* A result agrees with the latest baseline as of the time of the run.
ResultStands(i) ==
  LET answer == confRun.results[i]
  IN /\ answer.by = LatestKind /\ answer.status = "RESOLVED" => answer.version \in Con!LatestFor(i, confRun.at)
     /\ answer.status = "UNRESOLVED" /\ LatestKind \in confRun.uses /\ <<i, LatestKind>> \notin failed
          => Con!LatestFor(i, confRun.at) = {}

\* A criterion that was passed over found nothing, unless it threw.
PassedOver ==
  cursor.item # Con!Nothing /\ LatestKind \in cursor.tried /\ <<cursor.item, LatestKind>> \notin failed
    => Con!LatestFor(cursor.item, confRun.at) = {}

Resolution ==
  /\ InTime /\ RunShaped
  /\ cursor = [item |-> cursor.item, tried |-> cursor.tried]
  /\ confRun = [status |-> "NONE"] => cursor.item = Con!Nothing
  /\ confRun # [status |-> "NONE"] /\ lateBaselines = {} /\ confRun.at < confRun.started =>
       PassedOver /\ \A i \in Con!Recorded : ResultStands(i)

LEMMA Overwritten ==
  ASSUME NEW st, NEW t, NEW s, NEW u, NEW f, NEW e, NEW r, NEW x
  PROVE  /\ [RunRecord(st, t, s, u, f, e, r) EXCEPT !.results = x] = RunRecord(st, t, s, u, f, e, x)
         /\ [RunRecord(st, t, s, u, f, e, r) EXCEPT !.status = x] = RunRecord(x, t, s, u, f, e, r)
         /\ RunRecord(st, t, s, u, f, e, r) # [status |-> "NONE"]
         /\ RunRecord(st, t, s, u, f, e, r).status = st
         /\ RunRecord(st, t, s, u, f, e, r).at = t
         /\ RunRecord(st, t, s, u, f, e, r).started = s
         /\ RunRecord(st, t, s, u, f, e, r).uses = u
         /\ RunRecord(st, t, s, u, f, e, r).results = r
BY DEF RunRecord

LEMMA CursorOverwritten ==
  ASSUME NEW c, NEW i, NEW t, c = [item |-> i, tried |-> t], NEW x
  PROVE  /\ [c EXCEPT !.item = x] = [item |-> x, tried |-> t]
         /\ [c EXCEPT !.tried = x] = [item |-> i, tried |-> x]
         /\ c.item = i /\ c.tried = t
OBVIOUS

\* Nothing is configured, and nothing runs.
LEMMA ResolutionInit == Con!Init => Resolution
BY DEF Con!Init, Resolution, InTime, RunShaped, Con!Nobody, Con!Nothing

\* The latest baseline depends on what is established by then, and on nothing else.
LEMMA LatestSame ==
  ASSUME NEW i, NEW t,
         \A b \in ContextBaselines :
           \/ Con!Established(b) /\ baseline[b].at \leq t
           \/ Con!Established(b)' /\ baseline'[b].at \leq t
           => /\ Con!Established(b) /\ Con!Established(b)'
              /\ baseline'[b].at = baseline[b].at /\ baseline'[b].holds = baseline[b].holds
  PROVE  Con!LatestFor(i, t)' = Con!LatestFor(i, t)
<1> DEFINE those == {b \in ContextBaselines : Con!Established(b) /\ i \in baseline[b].holds /\ baseline[b].at \leq t}
<1>1. those' = those /\ \A b \in those : baseline'[b].at = baseline[b].at
  OBVIOUS
<1>2. Con!LatestFor(i, t) = {b \in those : \A c \in those : baseline[c].at \leq baseline[b].at}
  BY DEF Con!LatestFor
<1>3. Con!LatestFor(i, t)' = {b \in those' : \A c \in those' : baseline'[c].at \leq baseline'[b].at}
  BY DEF Con!LatestFor
<1> HIDE DEF those
<1> QED
  BY <1>1, <1>2, <1>3

\* Writers move what a run reads, but for the latest baselines as of a time past.
LEMMA WriterKept ==
  ASSUME Resolution, InTime', UNCHANGED <<confRun, cursor, failed>>, confClock \leq confClock', lateBaselines \subseteq lateBaselines',
         lateBaselines' = {} => \A i : \A t \in 0..(confClock - 1) : Con!LatestFor(i, t)' = Con!LatestFor(i, t)
  PROVE  Resolution'
<1>1. RunShaped'
  BY DEF Resolution, RunShaped, InTime
<1>2. ASSUME confRun # [status |-> "NONE"], lateBaselines' = {}, confRun.at < confRun.started
      PROVE  PassedOver' /\ \A i \in Con!Recorded : ResultStands(i)'
  <2>1. lateBaselines = {} /\ confRun.at \in 0..(confClock - 1)
    BY <1>2 DEF Resolution, RunShaped, InTime
  <2>2. \A i : Con!LatestFor(i, confRun.at)' = Con!LatestFor(i, confRun.at)
    <3>1. PICK t \in 0..(confClock - 1) : t = confRun.at
      BY <2>1
    <3>2. \A i : Con!LatestFor(i, t)' = Con!LatestFor(i, t)
      BY <1>2
    <3> QED
      BY <3>1, <3>2 DEF Con!LatestFor
  <2>3. PassedOver /\ \A i \in Con!Recorded : ResultStands(i)
    BY <1>2, <2>1 DEF Resolution
  <2> QED
    BY <2>2, <2>3 DEF PassedOver, ResultStands
<1> QED
  BY <1>1, <1>2 DEF Resolution, Con!Recorded

\* A run that has a next result, or has passed a criterion over.
LEMMA RunOn ==
  ASSUME Resolution, UNCHANGED Con!baselineVars
  PROVE  /\ InTime' /\ \A i, t : Con!LatestFor(i, t)' = Con!LatestFor(i, t)
         /\ UNCHANGED <<baseline, confClock, lateBaselines, held, effectivity>>
BY DEF Resolution, InTime, Con!baselineVars, Con!LatestFor, Con!Established

\* A result is recorded for the item in hand.
LEMMA RecordKept ==
  ASSUME Resolution, Con!InHand, NEW answer, Con!Record(answer),
         lateBaselines = {} /\ confRun.at < confRun.started =>
           /\ answer.by = LatestKind /\ answer.status = "RESOLVED"
                => answer.version \in Con!LatestFor(cursor.item, confRun.at)
           /\ answer.status = "UNRESOLVED" /\ LatestKind \in confRun.uses
              /\ <<cursor.item, LatestKind>> \notin failed => Con!LatestFor(cursor.item, confRun.at) = {}
  PROVE  Resolution'
<1>1. confRun # [status |-> "NONE"]
  BY DEF Con!InHand
<1>2. confRun = RunRecord(confRun.status, confRun.at, confRun.started, confRun.uses, confRun.from, confRun.explicit, confRun.results)
  BY <1>1 DEF Resolution, RunShaped
<1> DEFINE answers == [i \in Con!Recorded \cup {cursor.item} |->
                         IF i = cursor.item THEN answer ELSE confRun.results[i]]
<1>3. confRun' = [confRun EXCEPT !.results = answers] /\ cursor' = [cursor EXCEPT !.item = Con!Nothing]
      /\ failed' = failed /\ UNCHANGED Con!baselineVars
  BY DEF Con!Record
<1>4. confRun' = RunRecord(confRun.status, confRun.at, confRun.started, confRun.uses, confRun.from, confRun.explicit, answers)
  <2> HIDE DEF answers
  <2> QED
    BY <1>2, <1>3, Overwritten
<1>5. /\ confRun'.status = confRun.status /\ confRun'.at = confRun.at /\ confRun'.started = confRun.started
      /\ confRun'.uses = confRun.uses /\ confRun'.results = answers /\ confRun' # [status |-> "NONE"]
      /\ confRun'.from = confRun.from /\ confRun'.explicit = confRun.explicit
  <2> HIDE DEF answers
  <2> QED
    BY <1>4, Overwritten DEF RunRecord
<1>6. cursor'.item = Con!Nothing /\ cursor' = [item |-> cursor'.item, tried |-> cursor'.tried]
  BY <1>3, CursorOverwritten DEF Resolution
<1>7. /\ InTime' /\ \A i, t : Con!LatestFor(i, t)' = Con!LatestFor(i, t)
      /\ UNCHANGED <<confClock, lateBaselines>>
  BY <1>3, RunOn
<1>8. RunShaped'
  BY <1>1, <1>4, <1>5, <1>7 DEF Resolution, RunShaped
<1>9. ASSUME lateBaselines = {}, confRun.at < confRun.started, NEW i \in Con!Recorded' PROVE ResultStands(i)'
  <2>1. Con!Recorded' = Con!Recorded \cup {cursor.item} /\ i \in Con!Recorded \cup {cursor.item}
    BY <1>5, <1>9 DEF Con!Recorded
  <2>2. confRun'.results[i] = IF i = cursor.item THEN answer ELSE confRun.results[i]
    BY <1>5, <2>1
  <2>3. i # cursor.item => ResultStands(i)
    BY <1>1, <1>9, <2>1 DEF Resolution
  <2>4. Con!LatestFor(i, confRun.at)' = Con!LatestFor(i, confRun.at)
    <3>1. Con!LatestFor(i, confRun.at)' = Con!LatestFor(i, confRun.at)
      BY <1>3, <1>5 DEF Con!LatestFor, Con!baselineVars, Con!Established
    <3> QED
      BY <3>1
  <2> HIDE DEF answers
  <2> QED
    BY <1>3, <1>5, <1>9, <2>2, <2>3, <2>4 DEF ResultStands
<1> QED
  BY <1>1, <1>5, <1>6, <1>7, <1>8, <1>9 DEF Resolution, PassedOver

\* A criterion is passed over: it found nothing, or it threw.
LEMMA PassKept ==
  ASSUME Resolution, Con!InHand, cursor' = [cursor EXCEPT !.tried = @ \cup {Con!Kind}],
         UNCHANGED <<confRun, Con!baselineVars>>,
         \/ failed' = failed /\ Con!Found(Con!Kind, cursor.item) = {}
         \/ failed' = failed \cup {<<cursor.item, Con!Kind>>}
  PROVE  Resolution'
<1>1. cursor'.item = cursor.item /\ cursor'.tried = cursor.tried \cup {Con!Kind}
      /\ cursor' = [item |-> cursor'.item, tried |-> cursor'.tried]
  BY CursorOverwritten DEF Resolution
<1>2. InTime' /\ UNCHANGED <<confClock, lateBaselines>> /\ \A i : Con!LatestFor(i, confRun.at)' = Con!LatestFor(i, confRun.at)
  <2>1. \A i : Con!LatestFor(i, confRun.at)' = Con!LatestFor(i, confRun.at)
    BY DEF Con!LatestFor, Con!baselineVars, Con!Established
  <2> QED
    BY <2>1, RunOn
<1>3. Con!Kind = LatestKind /\ Con!Found(Con!Kind, cursor.item) = {} => Con!LatestFor(cursor.item, confRun.at) = {}
  BY DEF Con!Found, LatestKind
<1>4. PassedOver => PassedOver'
  BY <1>1, <1>2, <1>3 DEF PassedOver
<1>5. \A i \in Con!Recorded : ResultStands(i) => ResultStands(i)'
  BY <1>2 DEF ResultStands
<1>6. confRun # [status |-> "NONE"]
  BY DEF Con!InHand
<1> QED
  BY <1>1, <1>2, <1>4, <1>5, <1>6 DEF Resolution, RunShaped, Con!Recorded

\* Every step keeps the results of a run.
LEMMA ResolutionKept ==
  ASSUME Resolution, [Con!Next]_(Con!vars)
  PROVE  Resolution'
<1>0. InTime
  BY DEF Resolution
<1>1. ASSUME NEW e, Con!CreateEffectivity(e) PROVE Resolution'
  <2>1. InTime' /\ UNCHANGED <<confRun, cursor, failed, confClock, lateBaselines, baseline>>
    BY <1>0, <1>1 DEF Con!CreateEffectivity, Con!runVars, InTime
  <2>2. \A t, i : Con!LatestFor(i, t)' = Con!LatestFor(i, t)
    BY <2>1 DEF Con!LatestFor, Con!Established
  <2> QED
    BY <1>0, <2>1, <2>2, WriterKept DEF InTime
<1>2. ASSUME NEW w \in BaselineWriters, NEW b \in ContextBaselines, Con!TakeTime(w, b) \/ \E i \in ContextItems : Con!ReadForItem(w, b, i)
      PROVE  Resolution'
  <2>1. UNCHANGED <<confRun, cursor, failed, confClock, lateBaselines, baseline>>
    BY <1>2 DEF Con!TakeTime, Con!ReadForItem, Con!runVars
  <2>2. InTime'
    BY <1>0, <1>2, <2>1 DEF Con!TakeTime, Con!ReadForItem, InTime
  <2>3. \A t, i : Con!LatestFor(i, t)' = Con!LatestFor(i, t)
    BY <2>1 DEF Con!LatestFor, Con!Established
  <2> QED
    BY <1>0, <2>1, <2>2, <2>3, WriterKept DEF InTime
<1>3. ASSUME NEW w \in BaselineWriters, Con!AddBaselineItem(w) PROVE Resolution'
  <2>1. PICK b \in ContextBaselines, x \in ContextItems : b = held[w].to /\ x = held[w].item
    BY <1>0, <1>3 DEF Con!AddBaselineItem, InTime, Con!Nobody
  <2>2. /\ baseline' = [baseline EXCEPT ![b].holds = @ \cup {x}]
        /\ lateBaselines' = IF Con!Established(b) THEN lateBaselines \cup {b} ELSE lateBaselines
        /\ held' = [held EXCEPT ![w] = Con!Nobody] /\ UNCHANGED <<confRun, cursor, failed, confClock>>
    BY <1>3, <2>1 DEF Con!AddBaselineItem, Con!runVars
  <2>3. InTime'
    BY <1>0, <2>2 DEF InTime
  <2>4. /\ \A c \in ContextBaselines : c # b => baseline'[c] = baseline[c]
        /\ Con!Established(b)' = Con!Established(b)
    BY <1>0, <2>2 DEF InTime, Con!Established
  <2>5. ASSUME lateBaselines' = {}, NEW t \in 0..(confClock - 1), NEW i PROVE Con!LatestFor(i, t)' = Con!LatestFor(i, t)
    <3>1. ~Con!Established(b) /\ ~Con!Established(b)'
      BY <2>2, <2>4, <2>5
    <3> QED
      BY <2>4, <3>1, LatestSame DEF Con!Established
  <2>6. confClock \leq confClock'
    BY <1>0, <2>2 DEF InTime
  <2>7. lateBaselines \subseteq lateBaselines' /\ UNCHANGED <<confRun, cursor, failed>>
    BY <2>2
  <2> QED
    BY <2>3, <2>5, <2>6, <2>7, WriterKept
<1>4. ASSUME NEW w \in BaselineWriters, Con!EstablishBaseline(w) PROVE Resolution'
  <2>1. PICK b \in ContextBaselines, at \in 0..confClock : b = held[w].of /\ at = held[w].at
    BY <1>0, <1>4 DEF Con!EstablishBaseline, InTime, Con!Nobody
  <2>2. /\ held' = [held EXCEPT ![w] = Con!Nobody] /\ UNCHANGED <<confRun, cursor, failed, confClock>>
        /\ \/ UNCHANGED <<baseline, lateBaselines>>
           \/ /\ baseline[b].status = "DRAFT"
              /\ baseline' = [baseline EXCEPT ![b].status = "ESTABLISHED", ![b].at = at]
              /\ lateBaselines' = IF at < confClock THEN lateBaselines \cup {b} ELSE lateBaselines
    BY <1>4, <2>1 DEF Con!EstablishBaseline, Con!runVars
  <2>3. InTime' /\ confClock \leq confClock' /\ lateBaselines \subseteq lateBaselines'
    BY <1>0, <2>2 DEF InTime
  <2>4. ASSUME lateBaselines' = {}, NEW t \in 0..(confClock - 1), NEW i PROVE Con!LatestFor(i, t)' = Con!LatestFor(i, t)
    <3>1. CASE UNCHANGED baseline
      BY <3>1 DEF Con!LatestFor, Con!Established
    <3>2. CASE /\ baseline[b].status = "DRAFT"
               /\ baseline' = [baseline EXCEPT ![b].status = "ESTABLISHED", ![b].at = at]
               /\ lateBaselines' = IF at < confClock THEN lateBaselines \cup {b} ELSE lateBaselines
      <4>0. ~(at < confClock)
        BY <2>4, <3>2
      <4>1. at = confClock /\ confClock \in Nat /\ ~(confClock \leq t)
        <5>1. confClock \in Nat
          BY <1>0 DEF InTime
        <5> QED
          BY <5>1, <4>0, <2>1, <2>4
      <4>2. /\ baseline'[b].at = confClock /\ ~Con!Established(b)
            /\ \A c \in ContextBaselines : c # b => baseline'[c] = baseline[c]
        BY <1>0, <3>2, <4>1 DEF InTime, Con!Established
      <4> QED
        BY <4>1, <4>2, LatestSame DEF Con!Established
    <3> QED
      BY <2>2, <3>1, <3>2
  <2> QED
    BY <2>2, <2>3, <2>4, WriterKept
<1>5. ASSUME NEW b \in ContextBaselines, NEW c \in ContextBaselines, Con!SupersedeBaseline(b, c) PROVE Resolution'
  <2>1. /\ baseline[b].status = "ESTABLISHED" /\ UNCHANGED <<confRun, cursor, failed, confClock, held, lateBaselines>>
        /\ baseline' = [baseline EXCEPT ![b].status = "SUPERSEDED"]
    BY <1>5 DEF Con!SupersedeBaseline, Con!runVars
  <2>2. InTime' /\ confClock \leq confClock'
    BY <1>0, <2>1 DEF InTime
  <2>3. \A d \in ContextBaselines : /\ Con!Established(d)' = Con!Established(d) /\ baseline'[d].at = baseline[d].at
                                    /\ baseline'[d].holds = baseline[d].holds
    BY <1>0, <2>1 DEF InTime, Con!Established
  <2>4. \A t, i : Con!LatestFor(i, t)' = Con!LatestFor(i, t)
    BY <2>3, LatestSame
  <2> QED
    BY <2>1, <2>2, <2>4, WriterKept
<1>6. CASE Con!Tick
  <2>1. confClock' = confClock + 1 /\ UNCHANGED <<baseline, held, lateBaselines, confRun, cursor, failed>>
    BY <1>6 DEF Con!Tick, Con!runVars
  <2>2. InTime' /\ confClock \leq confClock'
    BY <1>0, <2>1 DEF InTime
  <2>3. \A t, i : Con!LatestFor(i, t)' = Con!LatestFor(i, t)
    BY <2>1 DEF Con!LatestFor, Con!Established
  <2> QED
    BY <2>1, <2>2, <2>3, WriterKept
<1>7. ASSUME NEW t \in 0..LastTime, NEW uses, NEW from, NEW explicit, Con!StartRun(t, uses, from, explicit)
      PROVE  Resolution'
  <2>1. /\ confRun' = RunRecord("RUNNING", t, confClock, uses, from, explicit, [i \in {} |-> Con!Nothing])
        /\ confRun.status = "NONE" /\ UNCHANGED <<cursor, failed, Con!baselineVars>>
    BY <1>7 DEF Con!StartRun, RunRecord
  <2>2. cursor.item = Con!Nothing /\ InTime' /\ confClock' = confClock
    BY <2>1, RunOn DEF Resolution, RunShaped
  <2>3. RunShaped' /\ Con!Recorded' = {} /\ confRun' # [status |-> "NONE"]
    BY <1>0, <2>1, <2>2 DEF RunShaped, RunRecord, Con!Recorded, InTime
  <2> QED
    BY <2>1, <2>2, <2>3 DEF Resolution, PassedOver
<1>8. ASSUME NEW i \in ContextItems, Con!TakeItem(i) PROVE Resolution'
  <2>1. /\ cursor' = [item |-> i, tried |-> {}] /\ confRun.status = "RUNNING"
        /\ UNCHANGED <<confRun, failed, Con!baselineVars>>
    BY <1>8 DEF Con!TakeItem
  <2>2. InTime' /\ UNCHANGED <<confClock, lateBaselines>> /\ \A j : Con!LatestFor(j, confRun.at)' = Con!LatestFor(j, confRun.at)
    <3>1. \A j : Con!LatestFor(j, confRun.at)' = Con!LatestFor(j, confRun.at)
      BY <2>1 DEF Con!LatestFor, Con!baselineVars, Con!Established
    <3> QED
      BY <2>1, <3>1, RunOn
  <2>3. PassedOver' /\ \A j \in Con!Recorded : ResultStands(j) => ResultStands(j)'
    BY <2>1, <2>2 DEF PassedOver, ResultStands
  <2> QED
    BY <2>1, <2>2, <2>3 DEF Resolution, RunShaped, Con!Recorded
<1>9. CASE Con!Select
  <2>1. PICK v \in Con!Found(Con!Kind, cursor.item) :
          \/ Con!Record([status |-> "CONFLICT", by |-> Con!Kind])
          \/ Con!Record([status |-> "RESOLVED", by |-> Con!Kind, version |-> v])
    BY <1>9, Zenon DEF Con!Select
  <2>2. Con!InHand /\ (Con!Kind = LatestKind => v \in Con!LatestFor(cursor.item, confRun.at))
    BY <1>9 DEF Con!Select, Con!Found, LatestKind
  <2>3. CASE Con!Record([status |-> "CONFLICT", by |-> Con!Kind])
    <3> DEFINE answer == [status |-> "CONFLICT", by |-> Con!Kind]
    <3>1. answer.status = "CONFLICT" /\ Con!Record(answer)
      BY <2>3
    <3> HIDE DEF answer
    <3> QED
      BY <2>2, <3>1, RecordKept
  <2>4. CASE Con!Record([status |-> "RESOLVED", by |-> Con!Kind, version |-> v])
    <3> DEFINE answer == [status |-> "RESOLVED", by |-> Con!Kind, version |-> v]
    <3>1. answer.status = "RESOLVED" /\ answer.by = Con!Kind /\ answer.version = v /\ Con!Record(answer)
      BY <2>4
    <3> HIDE DEF answer
    <3> QED
      BY <2>2, <3>1, RecordKept
  <2> QED
    BY <2>1, <2>3, <2>4
<1>10. CASE Con!PassOver
  BY <1>10, PassKept DEF Con!PassOver
<1>11. CASE Con!CriterionFails
  <2>1. CASE Con!Record([status |-> "ERROR", by |-> Con!Kind])
    <3> DEFINE answer == [status |-> "ERROR", by |-> Con!Kind]
    <3>1. answer.status = "ERROR" /\ Con!Record(answer) /\ Con!InHand
      BY <1>11, <2>1 DEF Con!CriterionFails
    <3> HIDE DEF answer
    <3> QED
      BY <3>1, RecordKept
  <2>2. CASE /\ failed' = failed \cup {<<cursor.item, Con!Kind>>}
             /\ cursor' = [cursor EXCEPT !.tried = @ \cup {Con!Kind}] /\ UNCHANGED <<confRun, Con!baselineVars>>
    BY <1>11, <2>2, PassKept DEF Con!CriterionFails
  <2> QED
    BY <1>11, <2>1, <2>2 DEF Con!CriterionFails
<1>12. CASE Con!NoneSelects
  <2> DEFINE answer == [status |-> "UNRESOLVED", by |-> Con!Nothing]
  <2>1. answer.status = "UNRESOLVED" /\ answer.by = Con!Nothing /\ Con!Record(answer) /\ Con!InHand /\ Con!Left = {}
    BY <1>12 DEF Con!NoneSelects
  <2>2. LatestKind \in confRun.uses => LatestKind \in cursor.tried
    <3>1. 4 \in DOMAIN Con!Kinds /\ Con!Kinds[4] = LatestKind
      BY DEF Con!Kinds, LatestKind
    <3> QED
      BY <2>1, <3>1 DEF Con!Left
  <2>3. lateBaselines = {} /\ confRun.at < confRun.started => PassedOver
    BY <2>1 DEF Con!InHand, Resolution
  <2> HIDE DEF answer
  <2> QED
    BY <2>1, <2>2, <2>3, RecordKept DEF Con!InHand, PassedOver
<1>13. CASE Con!CompleteRun
  <2>1. PICK st : confRun' = [confRun EXCEPT !.status = st] /\ st \in Con!Done
    <3> DEFINE st == CASE Con!Of("RESOLVED") = ContextItems -> "RESOLVED"
                       [] Con!Of("RESOLVED") \notin {{}, ContextItems} -> "PARTIAL"
                       [] Con!Of("ERROR") = ContextItems -> "ERROR"
                       [] OTHER -> "FAILED"
    <3>1. confRun' = [confRun EXCEPT !.status = st]
      BY <1>13 DEF Con!CompleteRun
    <3>2. st \in Con!Done
      BY DEF Con!Done
    <3> QED
      BY <3>1, <3>2
  <2>2. confRun.status = "RUNNING" /\ UNCHANGED <<cursor, failed, Con!baselineVars>>
    BY <1>13 DEF Con!CompleteRun
  <2>3. confRun # [status |-> "NONE"]
    BY <2>2
  <2>4. confRun = RunRecord(confRun.status, confRun.at, confRun.started, confRun.uses, confRun.from, confRun.explicit, confRun.results)
    BY <2>3 DEF Resolution, RunShaped
  <2>5. confRun' = RunRecord(st, confRun.at, confRun.started, confRun.uses, confRun.from, confRun.explicit, confRun.results)
    BY <2>1, <2>4, Overwritten
  <2>6. /\ confRun'.status = st /\ confRun'.at = confRun.at /\ confRun'.started = confRun.started /\ confRun'.uses = confRun.uses
        /\ confRun'.results = confRun.results /\ confRun'.from = confRun.from /\ confRun'.explicit = confRun.explicit
        /\ st # "NONE"
    BY <2>1, <2>5 DEF RunRecord, Con!Done
  <2>7. InTime' /\ UNCHANGED <<confClock, lateBaselines>> /\ \A j : Con!LatestFor(j, confRun.at)' = Con!LatestFor(j, confRun.at)
    <3>1. \A j : Con!LatestFor(j, confRun.at)' = Con!LatestFor(j, confRun.at)
      BY <2>2, <2>6 DEF Con!LatestFor, Con!baselineVars, Con!Established
    <3> QED
      BY <2>2, <3>1, RunOn
  <2>8. RunShaped'
    BY <2>3, <2>5, <2>6, <2>7 DEF Resolution, RunShaped
  <2>9. (PassedOver => PassedOver') /\ \A j \in Con!Recorded : ResultStands(j) => ResultStands(j)'
    BY <2>2, <2>6, <2>7 DEF PassedOver, ResultStands
  <2>10. Con!Recorded' = Con!Recorded /\ confRun' # [status |-> "NONE"]
    BY <2>5, <2>6 DEF Con!Recorded, RunRecord
  <2> QED
    BY <2>2, <2>3, <2>6, <2>7, <2>8, <2>9, <2>10 DEF Resolution
<1>14. CASE UNCHANGED Con!vars
  <2>1. UNCHANGED <<confRun, cursor, failed, Con!baselineVars>>
    BY <1>14 DEF Con!vars, Con!runVars
  <2>2. InTime' /\ UNCHANGED <<confClock, lateBaselines>> /\ \A j : Con!LatestFor(j, confRun.at)' = Con!LatestFor(j, confRun.at)
    <3>1. \A j : Con!LatestFor(j, confRun.at)' = Con!LatestFor(j, confRun.at)
      BY <2>1 DEF Con!LatestFor, Con!baselineVars, Con!Established
    <3> QED
      BY <2>1, <3>1, RunOn
  <2> QED
    BY <2>1, <2>2 DEF Resolution, RunShaped, PassedOver, ResultStands, Con!Recorded
<1> QED
  BY <1>1, <1>2, <1>3, <1>4, <1>5, <1>6, <1>7, <1>8, <1>9, <1>10, <1>11, <1>12, <1>13, <1>14
  DEF Con!Next

\* The results of a run as of a time past can be repeated.
LEMMA ResolutionSound == Resolution => Con!Repeatable
BY DEF Resolution, Con!Repeatable, ResultStands, LatestKind

-----------------------------------------------------------------------------
\* The runs of rule sets.

VerdictsTyped ==
  /\ member \in [RuleVersions -> SUBSET Rules] /\ latest \in {0} \cup RuleVersions
  /\ ruleRun \in [Evaluations -> {"NONE", "RUNNING"} \cup Val!Ended]
  /\ listed \in [Evaluations -> SUBSET Rules]
  /\ outcome \in [Val!Pairs -> {"NONE"} \cup Val!Answers]
  /\ ruleConflict \in [Val!Pairs -> {"NONE", "OPEN", "RESOLVED", "WAIVED", "CANCELLED"}]
  /\ step \in [Evaluations ->
       [at : {"start", "listed", "running", "cleared", "over"}]
         \cup [at : {"chosen"}, on : RuleVersions] \cup [at : {"result"}, of : Rules]]

\* The conflicts agree with the results, but for a result just recorded.
Answered(e, r) == Val!Material(e, r) <=> ruleConflict[<<e, r>>] # "NONE"
AnswersMet(e) ==
  \A r \in Rules :
    \/ Answered(e, r)
    \/ /\ Val!At(e, "result") /\ step[e].of = r /\ ruleConflict[<<e, r>>] = "NONE"
    \/ ruleRun[e] \in {"NONE", "RUNNING", "ERROR"} /\ Val!At(e, "over")

\* Where an evaluation stands says what there is of its run.
Progress(e) ==
  /\ step[e].at \in {"start", "chosen"} => ruleRun[e] = "NONE" /\ listed[e] = {}
  /\ Val!At(e, "listed") => ruleRun[e] = "NONE"
  /\ step[e].at \in {"running", "result"} => ruleRun[e] = "RUNNING"
  /\ Val!At(e, "cleared") => ruleRun[e] = "PASSED" \/ (ruleRun[e] = "NONE" /\ listed[e] = {})
  /\ step[e].at \in {"start", "chosen", "listed"} =>
       \A r \in Rules : outcome[<<e, r>>] = "NONE" /\ ruleConflict[<<e, r>>] = "NONE"
  /\ ruleRun[e] = "PASSED" => Val!Judged(e) = listed[e] /\ ~Val!Blocked(e)
  /\ e \in gone => Val!At(e, "over") /\ (ruleRun[e] = "PASSED" \/ (ruleRun[e] = "NONE" /\ listed[e] = {}))
  /\ Val!At(e, "result") => step[e].of \in listed[e]

Verdicts == VerdictsTyped /\ \A e \in Evaluations : Progress(e) /\ AnswersMet(e)

\* No evaluation has begun.
LEMMA VerdictsInit == Val!Init => Verdicts
<1> SUFFICES ASSUME Val!Init PROVE Verdicts
  OBVIOUS
<1>1. VerdictsTyped
  BY DEF Val!Init, VerdictsTyped, Val!Pairs
<1>2. ASSUME NEW e \in Evaluations PROVE Progress(e) /\ AnswersMet(e)
  BY DEF Val!Init, Progress, AnswersMet, Answered, Val!Material, Val!Failed, Val!At, Val!Pairs
<1> QED
  BY <1>1, <1>2 DEF Verdicts

\* A step of one evaluation does not concern another.
LEMMA OneEvaluationKept ==
  ASSUME Verdicts, NEW e \in Evaluations, VerdictsTyped', Progress(e)', AnswersMet(e)',
         \A d \in Evaluations \ {e} :
           /\ ruleRun'[d] = ruleRun[d] /\ listed'[d] = listed[d] /\ step'[d] = step[d]
           /\ d \in gone' <=> d \in gone
           /\ \A r \in Rules : /\ outcome'[<<d, r>>] = outcome[<<d, r>>]
                               /\ ruleConflict'[<<d, r>>] = ruleConflict[<<d, r>>]
  PROVE  Verdicts'
<1>1. ASSUME NEW d \in Evaluations \ {e} PROVE Progress(d)' /\ AnswersMet(d)'
  <2>1. Progress(d) /\ AnswersMet(d) /\ listed[d] \subseteq Rules
    BY DEF Verdicts, VerdictsTyped
  <2>2. /\ Val!Judged(d)' = Val!Judged(d) /\ Val!Blocked(d)' = Val!Blocked(d)
        /\ \A r \in Rules : Answered(d, r)' = Answered(d, r)
    BY <2>1 DEF Val!Judged, Val!Blocked, Val!InError, Val!Failed, Answered, Val!Material
  <2> QED
    BY <2>1, <2>2 DEF Progress, AnswersMet, Val!At
<1> QED
  BY <1>1 DEF Verdicts

\* Every step keeps verdicts founded.
LEMMA VerdictsKept ==
  ASSUME Verdicts, [Val!Next]_(Val!vars)
  PROVE  Verdicts'
<1> USE DEF Val!Goes, Val!At, Val!ruleVars
<1>0. \A e \in Evaluations : Progress(e) /\ AnswersMet(e) /\ listed[e] \subseteq Rules
  BY DEF Verdicts, VerdictsTyped
<1>1. ASSUME Val!CreateRuleSet \/ (\E v \in RuleVersions, r \in Rules : Val!AddRuleSetMember(v, r)) \/ UNCHANGED Val!vars
      PROVE  Verdicts'
  <2>1. VerdictsTyped' /\ UNCHANGED <<ruleRun, listed, outcome, ruleConflict, step, gone>>
    BY <1>1 DEF Val!CreateRuleSet, Val!AddRuleSetMember, Val!vars, Verdicts, VerdictsTyped
  <2>2. \A e \in Evaluations : AnswersMet(e)'
    BY <1>0, <2>1 DEF AnswersMet, Answered, Val!Material, Val!Failed
  <2>3. \A e \in Evaluations : Progress(e)'
    BY <1>0, <2>1 DEF Progress, Val!Judged, Val!Blocked, Val!InError, Val!Failed
  <2> QED
    BY <2>1, <2>2, <2>3 DEF Verdicts
<1>2. ASSUME NEW e \in Evaluations, Val!ChooseRuleSet(e) PROVE Verdicts'
  <2>1. /\ step[e].at = "start" /\ UNCHANGED <<member, latest, ruleRun, listed, outcome, ruleConflict, gone>>
        /\ step' = [step EXCEPT ![e] = IF latest = 0 THEN [at |-> "cleared"]
                                       ELSE [at |-> "chosen", on |-> latest]]
    BY <1>2 DEF Val!ChooseRuleSet
  <2>2. VerdictsTyped' /\ step'[e].at \in {"chosen", "cleared"}
        /\ \A d \in Evaluations \ {e} : step'[d] = step[d]
    BY <2>1 DEF Verdicts, VerdictsTyped
  <2>3. Progress(e)' /\ AnswersMet(e)'
    BY <1>0, <2>1, <2>2
    DEF Progress, AnswersMet, Answered, Val!Material, Val!Failed, Val!Judged, Val!Blocked,
        Val!InError
  <2> QED
    BY <2>1, <2>2, <2>3, OneEvaluationKept
<1>3. ASSUME NEW e \in Evaluations, Val!ListMembers(e) PROVE Verdicts'
  <2>1. /\ step[e].at = "chosen" /\ UNCHANGED <<member, latest, ruleRun, outcome, ruleConflict, gone>>
        /\ listed' = [listed EXCEPT ![e] = member[step[e].on]]
        /\ step' = [step EXCEPT ![e] = [at |-> "listed"]]
    BY <1>3 DEF Val!ListMembers
  <2>2. step[e].on \in RuleVersions
    BY <2>1 DEF Verdicts, VerdictsTyped
  <2>3. VerdictsTyped' /\ step'[e].at = "listed"
        /\ \A d \in Evaluations \ {e} : step'[d] = step[d] /\ listed'[d] = listed[d]
    BY <2>1, <2>2 DEF Verdicts, VerdictsTyped
  <2>4. Progress(e)' /\ AnswersMet(e)'
    BY <1>0, <2>1, <2>3 DEF Progress, AnswersMet, Answered, Val!Material, Val!Failed
  <2> QED
    BY <2>1, <2>3, <2>4, OneEvaluationKept
<1>4. ASSUME NEW e \in Evaluations, Val!CreateRun(e) PROVE Verdicts'
  <2>1. /\ step[e].at = "listed" /\ UNCHANGED <<member, latest, listed, outcome, ruleConflict, gone>>
        /\ ruleRun' = [ruleRun EXCEPT ![e] = "RUNNING"] /\ step' = [step EXCEPT ![e] = [at |-> "running"]]
    BY <1>4 DEF Val!CreateRun
  <2>2. VerdictsTyped' /\ step'[e].at = "running" /\ ruleRun'[e] = "RUNNING"
        /\ \A d \in Evaluations \ {e} : step'[d] = step[d] /\ ruleRun'[d] = ruleRun[d]
    BY <2>1 DEF Verdicts, VerdictsTyped
  <2>3. Progress(e)' /\ AnswersMet(e)'
    BY <1>0, <2>1, <2>2 DEF Progress, AnswersMet, Answered, Val!Material, Val!Failed
  <2> QED
    BY <2>1, <2>2, <2>3, OneEvaluationKept
<1>5. ASSUME NEW e \in Evaluations, NEW r \in Rules, NEW answer \in Val!Answers,
             Val!RecordResult(e, r, answer)
      PROVE  Verdicts'
  <2>1. /\ step[e].at = "running" /\ r \in listed[e] /\ outcome[<<e, r>>] = "NONE"
        /\ outcome' = [outcome EXCEPT ![<<e, r>>] = answer]
        /\ step' = [step EXCEPT ![e] = [at |-> "result", of |-> r]]
        /\ UNCHANGED <<member, latest, ruleRun, listed, ruleConflict, gone>>
    BY <1>5 DEF Val!RecordResult, Val!Judged
  <2>2. outcome' \in [Val!Pairs -> {"NONE"} \cup Val!Answers]
        /\ \A d \in Evaluations, s \in Rules : <<d, s>> # <<e, r>> => outcome'[<<d, s>>] = outcome[<<d, s>>]
    BY <2>1 DEF Verdicts, VerdictsTyped, Val!Pairs
  <2>3. VerdictsTyped' /\ step'[e] = [at |-> "result", of |-> r]
        /\ \A d \in Evaluations \ {e} : step'[d] = step[d]
    BY <2>1, <2>2 DEF Verdicts, VerdictsTyped
  <2>4. step'[e].at = "result" /\ step'[e].of = r
    BY <2>3
  <2>5. ruleConflict[<<e, r>>] = "NONE" /\ \A s \in Rules : Answered(e, s)
    <3>1. \A s \in Rules : Answered(e, s)
      BY <1>0, <2>1 DEF AnswersMet
    <3> QED
      BY <2>1, <3>1 DEF Answered, Val!Material, Val!Failed
  <2>6. AnswersMet(e)'
    BY <2>1, <2>2, <2>4, <2>5 DEF AnswersMet, Answered, Val!Material, Val!Failed
  <2>7. Progress(e)'
    BY <1>0, <2>1, <2>4 DEF Progress
  <2> QED
    BY <2>1, <2>2, <2>3, <2>6, <2>7, OneEvaluationKept
<1>6. ASSUME NEW e \in Evaluations, Val!OpenConflict(e) PROVE Verdicts'
  <2>1. PICK r \in Rules : r = step[e].of /\ r \in listed[e]
    BY <1>0, <1>6 DEF Val!OpenConflict, Progress
  <2>2. /\ step[e].at = "result" /\ UNCHANGED <<member, latest, ruleRun, listed, outcome, gone>>
        /\ ruleConflict' = IF Val!Material(e, r) THEN [ruleConflict EXCEPT ![<<e, r>>] = "OPEN"] ELSE ruleConflict
        /\ step' = [step EXCEPT ![e] = [at |-> "running"]]
    BY <1>6, <2>1 DEF Val!OpenConflict
  <2>3. /\ ruleConflict' \in [Val!Pairs -> {"NONE", "OPEN", "RESOLVED", "WAIVED", "CANCELLED"}]
        /\ Val!Material(e, r) => ruleConflict'[<<e, r>>] = "OPEN"
        /\ ~Val!Material(e, r) => ruleConflict'[<<e, r>>] = ruleConflict[<<e, r>>]
        /\ \A d \in Evaluations, s \in Rules :
             <<d, s>> # <<e, r>> => ruleConflict'[<<d, s>>] = ruleConflict[<<d, s>>]
    BY <2>2 DEF Verdicts, VerdictsTyped, Val!Pairs
  <2>4. VerdictsTyped' /\ step'[e].at = "running"
        /\ \A d \in Evaluations \ {e} : step'[d] = step[d]
    BY <2>2, <2>3 DEF Verdicts, VerdictsTyped
  <2>5. \A s \in Rules : Val!Material(e, s)' <=> Val!Material(e, s)
    BY <2>2 DEF Val!Material, Val!Failed
  <2>6. \A s \in Rules \ {r} : Answered(e, s)
    BY <1>0, <2>1, <2>2 DEF AnswersMet
  <2>7. ruleConflict[<<e, r>>] # "NONE" => Val!Material(e, r)
    BY <1>0, <2>1, <2>2 DEF AnswersMet, Answered
  <2>8. AnswersMet(e)'
    BY <2>3, <2>5, <2>6, <2>7 DEF AnswersMet, Answered
  <2>9. Progress(e)'
    BY <1>0, <2>2, <2>4 DEF Progress
  <2> QED
    BY <2>2, <2>3, <2>4, <2>8, <2>9, OneEvaluationKept
<1>7. ASSUME NEW e \in Evaluations, Val!CompleteRun(e) PROVE Verdicts'
  <2>1. /\ step[e].at = "running" /\ Val!Judged(e) = listed[e]
        /\ UNCHANGED <<member, latest, listed, outcome, ruleConflict, gone>>
        /\ ruleRun' = [ruleRun EXCEPT ![e] = IF Val!InError(e) THEN "ERROR"
                                             ELSE IF Val!Blocked(e) THEN "FAILED" ELSE "PASSED"]
        /\ step' = [step EXCEPT ![e] = [at |-> IF Val!Blocked(e) THEN "over" ELSE "cleared"]]
    BY <1>7 DEF Val!CompleteRun
  <2>2. Val!InError(e) => Val!Blocked(e)
    BY DEF Val!Blocked
  <2>3. /\ VerdictsTyped'
        /\ ruleRun'[e] = IF Val!InError(e) THEN "ERROR" ELSE IF Val!Blocked(e) THEN "FAILED" ELSE "PASSED"
        /\ step'[e].at = IF Val!Blocked(e) THEN "over" ELSE "cleared"
        /\ \A d \in Evaluations \ {e} : step'[d] = step[d] /\ ruleRun'[d] = ruleRun[d]
    BY <2>1 DEF Verdicts, VerdictsTyped, Val!Ended
  <2>4. \A r \in Rules : Answered(e, r)
    BY <1>0, <2>1 DEF AnswersMet
  <2>5. AnswersMet(e)'
    BY <2>1, <2>4 DEF AnswersMet, Answered, Val!Material, Val!Failed
  <2>6. Val!Judged(e)' = Val!Judged(e) /\ Val!Blocked(e)' = Val!Blocked(e)
    BY <2>1 DEF Val!Judged, Val!Blocked, Val!InError, Val!Failed
  <2>7. Progress(e)'
    BY <1>0, <2>1, <2>2, <2>3, <2>6 DEF Progress
  <2> QED
    BY <2>1, <2>3, <2>5, <2>7, OneEvaluationKept
<1>8. ASSUME NEW e \in Evaluations, Val!EvaluationFails(e) PROVE Verdicts'
  <2>1. /\ step[e].at \in {"listed", "running", "result"}
        /\ UNCHANGED <<member, latest, listed, outcome, ruleConflict, gone>>
        /\ ruleRun' = [ruleRun EXCEPT ![e] = IF @ = "RUNNING" THEN "ERROR" ELSE @] \/ ruleRun' = ruleRun
        /\ step' = [step EXCEPT ![e] = [at |-> "over"]]
    BY <1>8 DEF Val!EvaluationFails
  <2>2. VerdictsTyped' /\ ruleRun'[e] \in {ruleRun[e], "ERROR"} /\ step'[e].at = "over"
        /\ \A d \in Evaluations \ {e} : step'[d] = step[d] /\ ruleRun'[d] = ruleRun[d]
    BY <2>1 DEF Verdicts, VerdictsTyped, Val!Ended
  <2>3. ruleRun[e] \in {"NONE", "RUNNING"} /\ e \notin gone
    BY <1>0, <2>1 DEF Progress
  <2>4. Progress(e)' /\ AnswersMet(e)'
    BY <1>0, <2>1, <2>2, <2>3 DEF Progress, AnswersMet
  <2> QED
    BY <2>1, <2>2, <2>4, OneEvaluationKept
<1>9. ASSUME NEW e \in Evaluations, Val!GoThrough(e) PROVE Verdicts'
  <2>1. /\ step[e].at = "cleared" /\ gone' = gone \cup {e}
        /\ UNCHANGED <<member, latest, ruleRun, listed, outcome, ruleConflict>>
        /\ step' = [step EXCEPT ![e] = [at |-> "over"]]
    BY <1>9 DEF Val!GoThrough
  <2>2. VerdictsTyped' /\ step'[e].at = "over" /\ \A d \in Evaluations \ {e} : step'[d] = step[d]
    BY <2>1 DEF Verdicts, VerdictsTyped
  <2>3. \A r \in Rules : Answered(e, r)' <=> Answered(e, r)
    BY <2>1 DEF Answered, Val!Material, Val!Failed
  <2>4. AnswersMet(e)'
    BY <1>0, <2>1, <2>3 DEF AnswersMet
  <2>5. Val!Judged(e)' = Val!Judged(e) /\ Val!Blocked(e)' = Val!Blocked(e)
    BY <2>1 DEF Val!Judged, Val!Blocked, Val!InError, Val!Failed
  <2>6. Progress(e)'
    BY <1>0, <2>1, <2>2, <2>5 DEF Progress
  <2> QED
    BY <2>1, <2>2, <2>4, <2>6, OneEvaluationKept
<1>10. ASSUME NEW p \in Val!Pairs, NEW to \in {"RESOLVED", "WAIVED", "CANCELLED"},
              Val!DispositionConflict(p, to)
       PROVE  Verdicts'
  <2>1. /\ ruleConflict[p] = "OPEN" /\ ruleConflict' = [ruleConflict EXCEPT ![p] = to]
        /\ UNCHANGED <<member, latest, ruleRun, listed, outcome, step, gone>>
    BY <1>10 DEF Val!DispositionConflict
  <2>2. VerdictsTyped' /\ \A q \in Val!Pairs : ruleConflict'[q] = "NONE" <=> ruleConflict[q] = "NONE"
    BY <2>1 DEF Verdicts, VerdictsTyped
  <2>3. \A e \in Evaluations, r \in Rules : ruleConflict'[<<e, r>>] = "NONE" <=> ruleConflict[<<e, r>>] = "NONE"
    BY <2>2 DEF Val!Pairs
  <2>4. \A e \in Evaluations : AnswersMet(e)'
    BY <1>0, <2>1, <2>3 DEF AnswersMet, Answered, Val!Material, Val!Failed
  <2>5. \A e \in Evaluations : Progress(e)'
    BY <1>0, <2>1, <2>3 DEF Progress, Val!Judged, Val!Blocked, Val!InError, Val!Failed
  <2> QED
    BY <2>2, <2>4, <2>5 DEF Verdicts
<1> QED
  BY <1>1, <1>2, <1>3, <1>4, <1>5, <1>6, <1>7, <1>8, <1>9, <1>10 DEF Val!Next

\* A verdict rests on its results.
LEMMA VerdictsSound == Verdicts => Val!VerdictsFounded
<1> SUFFICES ASSUME Verdicts, NEW e \in Evaluations
             PROVE  /\ e \in gone => ruleRun[e] = "PASSED" \/ (ruleRun[e] = "NONE" /\ listed[e] = {})
                    /\ ruleRun[e] = "PASSED" =>
                         /\ Val!Judged(e) = listed[e]
                         /\ \A r \in listed[e] \cap Binding :
                              /\ outcome[<<e, r>>] # "ERROR"
                              /\ r \in Grave => outcome[<<e, r>>] # "FAILED"
                    /\ ruleRun[e] \in {"PASSED", "FAILED"} =>
                         \A r \in listed[e] : Val!Material(e, r) <=> ruleConflict[<<e, r>>] # "NONE"
  BY DEF Val!VerdictsFounded
<1>1. Progress(e) /\ AnswersMet(e) /\ listed[e] \subseteq Rules
  BY DEF Verdicts, VerdictsTyped
<1>2. ruleRun[e] = "PASSED" => \A r \in listed[e] \cap Binding :
        outcome[<<e, r>>] # "ERROR" /\ (r \in Grave => outcome[<<e, r>>] # "FAILED")
  BY <1>1 DEF Progress, Val!Blocked, Val!InError, Val!Failed
<1>3. ruleRun[e] \in {"PASSED", "FAILED"} => \A r \in listed[e] : Answered(e, r)
  BY <1>1 DEF Progress, AnswersMet, Val!At
<1> QED
  BY <1>1, <1>2, <1>3 DEF Progress, Answered

-----------------------------------------------------------------------------
\* Process plans.

\* The parts a plan had when it was last frozen, or has had no freeze read.
Fixed(p) == parts[p] \ latePart[p]

PlansTyped ==
  /\ processPlan \in [Plans -> [status : {"DRAFT", "FROZEN", "RELEASED", "SUPERSEDED"},
                                checksum : SUBSET Parts, by : Rulings \cup {Man!None}]]
  /\ parts \in [Plans -> SUBSET Parts] /\ latePart \in [Plans -> SUBSET Parts]
  /\ ruling \in [Rulings -> [outcome : {"NONE"}]
                   \cup [outcome : {"APPROVED", "REJECTED"}, cites : Plans]]
  /\ task \in [Planners -> {Man!Free} \cup [does : {"add"}, to : Plans, part : Parts]
                 \cup [does : {"freeze"}, of : Plans, found : SUBSET Parts]
                 \cup [does : {"release"}, of : Plans, on : Rulings, replaces : SUBSET Plans,
                       found : BOOLEAN]]

\* What holds while a freeze or a release has its plan, and those it replaces, locked.
TaskHeld(c) ==
  /\ task[c].does = "freeze" =>
       processPlan[task[c].of].status = "DRAFT" /\ task[c].found = Fixed(task[c].of)
  /\ task[c].does = "release" =>
       Man!Releasable(task[c].of, task[c].on) /\ task[c].replaces \subseteq Man!ReleasedPlans
  /\ \A d \in Planners \ {c} : Man!LockedBy(c) \cap Man!LockedBy(d) = {}

\* The checksum is of what the freeze had found.
Frozen(p) == processPlan[p].status # "DRAFT" => processPlan[p].checksum = Fixed(p)

Approved(p) ==
  processPlan[p].status = "RELEASED" =>
    /\ processPlan[p].by \in Rulings
    /\ ruling[processPlan[p].by].outcome = "APPROVED" /\ ruling[processPlan[p].by].cites = p

PlansInLine ==
  /\ PlansTyped
  /\ \A c \in Planners : TaskHeld(c)
  /\ \A p \in Plans : Frozen(p) /\ Approved(p)
  /\ \A p, q \in Man!ReleasedPlans : p = q
  /\ (\E p \in Plans : processPlan[p].status = "SUPERSEDED") => Man!ReleasedPlans # {}

\* All versions are empty drafts.
LEMMA PlansInit == Man!Init => PlansInLine
<1> SUFFICES ASSUME Man!Init PROVE PlansInLine
  OBVIOUS
<1>1. /\ \A p \in Plans : processPlan[p].status = "DRAFT"
      /\ \A c \in Planners : task[c] = Man!Free /\ Man!LockedBy(c) = {}
  BY DEF Man!Init, Man!LockedBy, Man!Free
<1>2. PlansTyped
  BY DEF Man!Init, PlansTyped, Man!Free, Man!None
<1> QED
  BY <1>1, <1>2 DEF PlansInLine, TaskHeld, Frozen, Approved, Man!ReleasedPlans, Man!Free

\* A part reaches a plan, in time or not.
LEMMA AddPartStep ==
  ASSUME PlansInLine, NEW c \in Planners, Man!AddPart(c)
  PROVE  PlansInLine'
<1>1. task[c] \in [does : {"add"}, to : Plans, part : Parts]
  BY DEF Man!AddPart, PlansInLine, PlansTyped, Man!Free
<1>2. PICK p \in Plans, x \in Parts :
        /\ parts' = [parts EXCEPT ![p] = @ \cup {x}]
        /\ latePart' = IF (processPlan[p].status # "DRAFT" \/ Man!Freezing(p)) /\ x \notin parts[p]
                       THEN [latePart EXCEPT ![p] = @ \cup {x}] ELSE latePart
  BY <1>1 DEF Man!AddPart
<1>3. task' = [task EXCEPT ![c] = Man!Free] /\ UNCHANGED <<processPlan, ruling>> /\ Man!ReleasedPlans' = Man!ReleasedPlans
  BY DEF Man!AddPart, Man!Turns, Man!ReleasedPlans
<1>4. PlansTyped'
  BY <1>2, <1>3 DEF PlansInLine, PlansTyped
<1>5. \A q \in Plans : processPlan[q].status # "DRAFT" \/ Man!Freezing(q) => Fixed(q)' = Fixed(q)
  BY <1>2 DEF PlansInLine, PlansTyped, Fixed
<1>6. \A q \in Plans : Frozen(q)'
  BY <1>3, <1>5 DEF PlansInLine, Frozen
<1>7. \A d \in Planners : TaskHeld(d)'
  <2>1. task'[c] = Man!Free /\ \A d \in Planners \ {c} : task'[d] = task[d]
    BY <1>3 DEF PlansInLine, PlansTyped
  <2>2. Man!LockedBy(c)' = {} /\ \A d \in Planners \ {c} : Man!LockedBy(d)' = Man!LockedBy(d)
    BY <2>1 DEF Man!LockedBy, Man!Free
  <2>3. ASSUME NEW d \in Planners \ {c}, task[d].does = "freeze"
        PROVE  processPlan'[task'[d].of].status = "DRAFT" /\ task'[d].found = Fixed(task[d].of)'
    <3>1. task[d].of \in Plans /\ Man!Freezing(task[d].of) /\ TaskHeld(d)
      BY <2>3 DEF PlansInLine, PlansTyped, Man!Free, Man!Freezing
    <3>2. Fixed(task[d].of)' = Fixed(task[d].of)
      BY <1>3, <1>5, <2>1, <2>3, <3>1 DEF Fixed
    <3> QED
      BY <1>3, <2>1, <2>3, <3>1, <3>2 DEF TaskHeld, Fixed
  <2>4. ASSUME NEW d \in Planners \ {c} PROVE TaskHeld(d)'
    <3>1. TaskHeld(d) /\ task'[d] = task[d]
      BY <2>1 DEF PlansInLine
    <3>2. task'[d].does = "release" =>
            Man!Releasable(task[d].of, task[d].on)' /\ task'[d].replaces \subseteq Man!ReleasedPlans'
      BY <1>3, <3>1 DEF TaskHeld, Man!Releasable
    <3>3. \A e \in Planners \ {d} : Man!LockedBy(d)' \cap Man!LockedBy(e)' = {}
      BY <2>2, <3>1 DEF TaskHeld
    <3> QED
      BY <2>3, <3>1, <3>2, <3>3 DEF TaskHeld
  <2>5. TaskHeld(c)'
    BY <2>1, <2>2 DEF TaskHeld, Man!Free
  <2> QED
    BY <2>4, <2>5
<1> QED
  BY <1>3, <1>4, <1>6, <1>7 DEF PlansInLine, Approved

\* A task that begins, finds what it supersedes, or ends without an effect.
LEMMA TaskStep ==
  ASSUME PlansInLine, NEW c \in Planners, UNCHANGED <<processPlan, parts, ruling>>,
         latePart' \in [Plans -> SUBSET Parts],
         \A p \in Plans : latePart'[p] = latePart[p] \/ (processPlan[p].status = "DRAFT" /\ Man!Unlocked(p, c)),
         NEW t, task' = [task EXCEPT ![c] = t],
         \/ t = Man!Free \/ t \in [does : {"add"}, to : Plans, part : Parts]
         \/ /\ t \in [does : {"freeze"}, of : Plans, found : SUBSET Parts]
            /\ processPlan[t.of].status = "DRAFT" /\ t.found = Fixed(t.of)' /\ Man!Unlocked(t.of, c)
         \/ /\ t \in [does : {"release"}, of : Plans, on : Rulings, replaces : SUBSET Plans,
                      found : BOOLEAN]
            /\ Man!Releasable(t.of, t.on) /\ t.replaces \subseteq Man!ReleasedPlans
            /\ \A p \in {t.of} \cup t.replaces : Man!Unlocked(p, c)
  PROVE  PlansInLine'
<1>1. PlansTyped'
  BY DEF PlansInLine, PlansTyped
<1>2. task'[c] = t /\ \A d \in Planners \ {c} : task'[d] = task[d]
  BY DEF PlansInLine, PlansTyped
<1>3. \A d \in Planners \ {c} : Man!LockedBy(d)' = Man!LockedBy(d)
  BY <1>2 DEF Man!LockedBy
<1>4. \A d \in Planners \ {c} : Man!LockedBy(c)' \cap Man!LockedBy(d) = {}
  <2>1. /\ t.does = "freeze" => Man!LockedBy(c)' = {t.of}
        /\ t.does = "release" => Man!LockedBy(c)' = {t.of} \cup t.replaces
        /\ t.does \notin {"freeze", "release"} => Man!LockedBy(c)' = {}
    BY <1>2 DEF Man!LockedBy
  <2>2. /\ t.does = "freeze" => Man!Unlocked(t.of, c)
        /\ t.does = "release" => \A p \in {t.of} \cup t.replaces : Man!Unlocked(p, c)
    BY DEF Man!Free
  <2> QED
    BY <2>1, <2>2 DEF Man!Unlocked
<1>5. Man!ReleasedPlans' = Man!ReleasedPlans
  BY DEF Man!ReleasedPlans
<1>6. ASSUME NEW d \in Planners PROVE TaskHeld(d)'
  <2>1. CASE d = c
    <3>1. /\ t.does = "freeze" => processPlan[t.of].status = "DRAFT" /\ t.found = Fixed(t.of)'
          /\ t.does = "release" => Man!Releasable(t.of, t.on) /\ t.replaces \subseteq Man!ReleasedPlans
      BY DEF Man!Free
    <3>2. t.does = "freeze" => processPlan'[t.of].status = "DRAFT" /\ task'[c].found = Fixed(task[c].of)'
      BY <1>2, <3>1 DEF Fixed
    <3> QED
      BY <2>1, <1>2, <1>3, <1>4, <1>5, <3>1, <3>2 DEF TaskHeld, Man!Releasable
  <2>2. CASE d # c
    <3>1. task'[d] = task[d] /\ TaskHeld(d)
      BY <2>2, <1>2 DEF PlansInLine
    <3>2. ASSUME task[d].does = "freeze"
          PROVE  processPlan'[task'[d].of].status = "DRAFT" /\ task'[d].found = Fixed(task[d].of)'
      <4>1. task[d].of \in Plans /\ task[d].of \in Man!LockedBy(d)
        BY <3>2 DEF PlansInLine, PlansTyped, Man!Free, Man!LockedBy
      <4>2. latePart'[task[d].of] = latePart[task[d].of]
        BY <2>2, <4>1 DEF Man!Unlocked
      <4> QED
        BY <3>1, <3>2, <4>2 DEF TaskHeld, Fixed
    <3>3. \A e \in Planners \ {d} : Man!LockedBy(d)' \cap Man!LockedBy(e)' = {}
      BY <1>3, <1>4, <2>2, <3>1 DEF TaskHeld
    <3> QED
      BY <1>5, <3>1, <3>2, <3>3 DEF TaskHeld, Man!Releasable
  <2> QED
    BY <2>1, <2>2
<1>7. \A p \in Plans : Frozen(p)'
  BY DEF PlansInLine, Frozen, Fixed
<1> QED
  BY <1>1, <1>5, <1>6, <1>7 DEF PlansInLine, Approved

\* A freeze takes the checksum of what it found.
LEMMA FreezeStep ==
  ASSUME PlansInLine, NEW c \in Planners, Man!CommitFreeze(c)
  PROVE  PlansInLine'
<1>1. task[c] \in [does : {"freeze"}, of : Plans, found : SUBSET Parts] /\ TaskHeld(c)
  BY DEF Man!CommitFreeze, PlansInLine, PlansTyped, Man!Free
<1>2. PICK p \in Plans : p = task[c].of
  BY <1>1
<1>3. /\ processPlan[p].status = "DRAFT" /\ task[c].found = Fixed(p)
      /\ \A d \in Planners \ {c} : p \notin Man!LockedBy(d)
  BY <1>1, <1>2 DEF TaskHeld, Man!LockedBy
<1>4. /\ processPlan' = [processPlan EXCEPT ![p] =
                    [status |-> "FROZEN", checksum |-> task[c].found, by |-> processPlan[p].by]]
      /\ task' = [task EXCEPT ![c] = Man!Free] /\ UNCHANGED <<parts, ruling, latePart>>
  BY <1>2 DEF Man!CommitFreeze, Man!Turns
<1>5. /\ processPlan'[p] = [status |-> "FROZEN", checksum |-> task[c].found, by |-> processPlan[p].by]
      /\ \A q \in Plans \ {p} : processPlan'[q] = processPlan[q]
  BY <1>4 DEF PlansInLine, PlansTyped
<1>6. task'[c] = Man!Free /\ \A d \in Planners \ {c} : task'[d] = task[d]
  BY <1>4 DEF PlansInLine, PlansTyped
<1>7. PlansTyped' /\ Man!ReleasedPlans' = Man!ReleasedPlans
  BY <1>1, <1>3, <1>4, <1>5 DEF PlansInLine, PlansTyped, Man!ReleasedPlans
<1>8. \A q \in Plans : Frozen(q)' /\ Approved(q)'
  BY <1>3, <1>4, <1>5 DEF PlansInLine, Frozen, Approved, Fixed
<1>9. Man!LockedBy(c)' = {} /\ \A d \in Planners \ {c} : Man!LockedBy(d)' = Man!LockedBy(d)
  BY <1>6 DEF Man!LockedBy, Man!Free
<1>10. ASSUME NEW d \in Planners \ {c} PROVE TaskHeld(d)'
  <2>1. TaskHeld(d) /\ task'[d] = task[d] /\ p \notin Man!LockedBy(d)
    BY <1>3, <1>6 DEF PlansInLine
  <2>2. task[d].does \in {"freeze", "release"} =>
          task[d].of \in Plans /\ task[d].of # p /\ processPlan'[task[d].of] = processPlan[task[d].of]
    BY <1>5, <2>1 DEF PlansInLine, PlansTyped, Man!Free, Man!LockedBy
  <2>3. \A e \in Planners \ {d} : Man!LockedBy(d)' \cap Man!LockedBy(e)' = {}
    BY <1>9, <2>1 DEF TaskHeld
  <2> QED
    BY <1>4, <1>7, <2>1, <2>2, <2>3 DEF TaskHeld, Man!Releasable, Fixed
<1>11. TaskHeld(c)'
  BY <1>6, <1>9 DEF TaskHeld, Man!Free
<1>12. \A q \in Plans : processPlan'[q].status = "SUPERSEDED" <=> processPlan[q].status = "SUPERSEDED"
  BY <1>3, <1>5
<1> QED
  BY <1>7, <1>8, <1>10, <1>11, <1>12 DEF PlansInLine

\* The release that takes the place of all that was in force.
LEMMA CommitStep ==
  ASSUME PlansInLine, NEW c \in Planners, Man!CommitRelease(c)
  PROVE  PlansInLine'
<1>1. /\ task[c] \in [does : {"release"}, of : Plans, on : Rulings, replaces : SUBSET Plans,
                      found : BOOLEAN]
      /\ TaskHeld(c)
  <2>1. task[c].does = "release"
    BY DEF Man!CommitRelease
  <2> QED
    BY <2>1 DEF PlansInLine, PlansTyped, Man!Free
<1>2. PICK p \in Plans, d \in Rulings, old \in SUBSET Plans :
        p = task[c].of /\ d = task[c].on /\ old = task[c].replaces
  BY <1>1
<1>3. /\ Man!Releasable(p, d) /\ old = Man!ReleasedPlans /\ p \notin old
      /\ \A e \in Planners \ {c} : ({p} \cup old) \cap Man!LockedBy(e) = {}
  <2>1. Man!KeyFree(c) /\ task[c].does = "release"
    BY DEF Man!CommitRelease
  <2> QED
    BY <1>1, <1>2, <2>1
    DEF Man!KeyFree, TaskHeld, Man!Releasable, Man!ReleasedPlans, Man!LockedBy
<1>4. /\ processPlan' = [q \in Plans |->
           CASE q = p -> [status |-> "RELEASED", checksum |-> processPlan[q].checksum, by |-> d]
             [] q \in old -> [status |-> "SUPERSEDED", checksum |-> processPlan[q].checksum, by |-> processPlan[q].by]
             [] OTHER -> processPlan[q]]
      /\ task' = [task EXCEPT ![c] = Man!Free] /\ UNCHANGED <<parts, ruling, latePart>>
  BY <1>2 DEF Man!CommitRelease, Man!Turns
<1>5. /\ processPlan'[p] = [status |-> "RELEASED", checksum |-> processPlan[p].checksum, by |-> d]
      /\ \A q \in old :
           processPlan'[q] = [status |-> "SUPERSEDED", checksum |-> processPlan[q].checksum, by |-> processPlan[q].by]
      /\ \A q \in Plans : q # p /\ q \notin old => processPlan'[q] = processPlan[q]
  BY <1>3, <1>4
<1>6. PlansTyped'
  <2>1. \A q \in Plans : processPlan[q] \in [status : {"DRAFT", "FROZEN", "RELEASED", "SUPERSEDED"},
                                             checksum : SUBSET Parts, by : Rulings \cup {Man!None}]
    BY DEF PlansInLine, PlansTyped
  <2>2. ASSUME NEW q \in Plans
        PROVE  processPlan'[q] \in [status : {"DRAFT", "FROZEN", "RELEASED", "SUPERSEDED"},
                                    checksum : SUBSET Parts, by : Rulings \cup {Man!None}]
    <3>1. processPlan[q].checksum \in SUBSET Parts /\ processPlan[q].by \in Rulings \cup {Man!None}
      BY <2>1
    <3>2. CASE q = p
      BY <1>5, <3>1, <3>2
    <3>3. CASE q # p /\ q \in old
      <4>1. processPlan'[q] = [status |-> "SUPERSEDED", checksum |-> processPlan[q].checksum, by |-> processPlan[q].by]
        BY <1>5, <3>3
      <4> QED
        BY <3>1, <4>1
    <3>4. CASE q # p /\ q \notin old
      BY <1>5, <2>1, <3>4
    <3> QED
      BY <3>2, <3>3, <3>4
  <2> QED
    BY <1>4, <2>2 DEF PlansInLine, PlansTyped
<1>7. /\ processPlan'[p].status = "RELEASED" /\ processPlan'[p].by = d /\ processPlan'[p].checksum = processPlan[p].checksum
      /\ \A q \in old : processPlan'[q].status = "SUPERSEDED" /\ processPlan'[q].checksum = processPlan[q].checksum
  <2>1. /\ processPlan'[p].status = "RELEASED" /\ processPlan'[p].by = d
        /\ processPlan'[p].checksum = processPlan[p].checksum
    BY <1>5
  <2>2. ASSUME NEW q \in old
        PROVE  processPlan'[q].status = "SUPERSEDED" /\ processPlan'[q].checksum = processPlan[q].checksum
    <3>1. processPlan'[q] = [status |-> "SUPERSEDED", checksum |-> processPlan[q].checksum, by |-> processPlan[q].by]
      BY <1>5
    <3> QED
      BY <3>1
  <2> QED
    BY <2>1, <2>2
<1>8. Man!ReleasedPlans' = {p}
  BY <1>3, <1>5, <1>7 DEF Man!ReleasedPlans
<1>9. ASSUME NEW q \in Plans PROVE Frozen(q)' /\ Approved(q)'
  <2>1. Frozen(q) /\ Approved(q)
    BY DEF PlansInLine
  <2>2. q \in old => processPlan[q].status = "RELEASED"
    BY <1>3 DEF Man!ReleasedPlans
  <2> QED
    BY <1>3, <1>4, <1>5, <1>7, <2>1, <2>2 DEF Frozen, Approved, Man!Releasable, Fixed
<1>10. ASSUME NEW e \in Planners PROVE TaskHeld(e)'
  <2>1. task'[c] = Man!Free /\ \A f \in Planners \ {c} : task'[f] = task[f]
    BY <1>4 DEF PlansInLine, PlansTyped
  <2>2. Man!LockedBy(c)' = {} /\ \A f \in Planners \ {c} : Man!LockedBy(f)' = Man!LockedBy(f)
    BY <2>1 DEF Man!LockedBy, Man!Free
  <2>3. CASE e # c
    <3>1. TaskHeld(e) /\ task'[e] = task[e] /\ ({p} \cup old) \cap Man!LockedBy(e) = {}
      BY <1>3, <2>1, <2>3 DEF PlansInLine
    <3>2. task[e].does \in {"freeze", "release"} =>
            task[e].of \in Plans /\ processPlan'[task[e].of] = processPlan[task[e].of]
      <4>1. task[e].does \in {"freeze", "release"} => task[e].of \in Plans
        BY DEF PlansInLine, PlansTyped, Man!Free
      <4>2. task[e].does \in {"freeze", "release"} => task[e].of \in Man!LockedBy(e)
        BY DEF Man!LockedBy
      <4> QED
        BY <1>5, <3>1, <4>1, <4>2
    <3>3. task[e].does = "release" => task[e].replaces = {}
      BY <1>3, <3>1 DEF Man!LockedBy, TaskHeld
    <3>4. \A f \in Planners \ {e} : Man!LockedBy(e)' \cap Man!LockedBy(f)' = {}
      BY <2>2, <2>3, <3>1 DEF TaskHeld
    <3> QED
      BY <1>4, <3>1, <3>2, <3>3, <3>4 DEF TaskHeld, Man!Releasable, Fixed
  <2>4. CASE e = c
    BY <2>1, <2>2, <2>4 DEF TaskHeld, Man!Free
  <2> QED
    BY <2>3, <2>4
<1> QED
  BY <1>6, <1>8, <1>9, <1>10 DEF PlansInLine

\* Every step keeps the plans in line.
LEMMA PlansKept ==
  ASSUME PlansInLine, [Man!Next]_(Man!vars)
  PROVE  PlansInLine'
<1>0. latePart \in [Plans -> SUBSET Parts]
  BY DEF PlansInLine, PlansTyped
<1>1. ASSUME NEW c \in Planners, NEW p \in Plans, Man!BeginFreeze(c, p) PROVE PlansInLine'
  <2>0. PICK t : t = [does |-> "freeze", of |-> p, found |-> parts[p]]
    OBVIOUS
  <2>1. /\ processPlan[p].status = "DRAFT" /\ Man!Unlocked(p, c)
        /\ latePart' = [latePart EXCEPT ![p] = {}] /\ UNCHANGED <<processPlan, parts, ruling>>
        /\ task' = [task EXCEPT ![c] = t]
    BY <1>1, <2>0 DEF Man!BeginFreeze, Man!Turns
  <2>2. /\ latePart' \in [Plans -> SUBSET Parts] /\ latePart'[p] = {}
        /\ \A q \in Plans \ {p} : latePart'[q] = latePart[q]
    BY <1>0, <2>1
  <2>3. t \in [does : {"freeze"}, of : Plans, found : SUBSET Parts] /\ t.of = p /\ t.found = parts[p]
    BY <2>0 DEF PlansInLine, PlansTyped
  <2>4. t.found = Fixed(t.of)' /\ processPlan[t.of].status = "DRAFT" /\ Man!Unlocked(t.of, c)
    BY <2>1, <2>2, <2>3 DEF Fixed
  <2>5. \A q \in Plans : latePart'[q] = latePart[q] \/ (processPlan[q].status = "DRAFT" /\ Man!Unlocked(q, c))
    BY <2>1, <2>2
  <2> QED
    BY <2>1, <2>2, <2>3, <2>4, <2>5, TaskStep
<1>2. ASSUME NEW p \in Plans, NEW d \in Rulings, NEW verdict \in {"APPROVED", "REJECTED"},
             Man!Decide(d, p, verdict)
      PROVE  PlansInLine'
  <2>1. /\ ruling[d].outcome = "NONE" /\ UNCHANGED <<processPlan, parts, task, latePart>>
        /\ ruling' = [ruling EXCEPT ![d] = [outcome |-> verdict, cites |-> p]]
    BY <1>2 DEF Man!Decide
  <2>2. PlansTyped' /\ Man!ReleasedPlans' = Man!ReleasedPlans
    BY <2>1 DEF PlansInLine, PlansTyped, Man!ReleasedPlans
  <2>3. \A e \in Rulings : ruling[e].outcome = "APPROVED" => ruling'[e] = ruling[e]
    BY <2>1 DEF PlansInLine, PlansTyped
  <2>4. \A q \in Plans : Frozen(q)' /\ Approved(q)'
    BY <2>1, <2>3 DEF PlansInLine, Frozen, Approved, Fixed
  <2>5. ASSUME NEW c \in Planners PROVE TaskHeld(c)'
    <3>1. TaskHeld(c) /\ (task[c].does = "release" => task[c].on \in Rulings)
      BY DEF PlansInLine, PlansTyped, Man!Free
    <3> QED
      BY <2>1, <2>2, <2>3, <3>1 DEF TaskHeld, Man!Releasable, Man!LockedBy, Fixed
  <2> QED
    BY <2>1, <2>2, <2>4, <2>5 DEF PlansInLine
<1>3. ASSUME NEW c \in Planners, NEW p \in Plans, NEW x \in Parts, Man!ReadPlan(c, p, x)
      PROVE  PlansInLine'
  <2> DEFINE t == [does |-> "add", to |-> p, part |-> x]
  <2>1. t \in [does : {"add"}, to : Plans, part : Parts] /\ task' = [task EXCEPT ![c] = t]
        /\ UNCHANGED <<processPlan, parts, ruling, latePart>>
    BY <1>3 DEF Man!ReadPlan, Man!Turns
  <2> HIDE DEF t
  <2> QED
    BY <1>0, <2>1, TaskStep
<1>4. ASSUME NEW c \in Planners, NEW p \in Plans, NEW d \in Rulings, Man!BeginRelease(c, p, d)
      PROVE  PlansInLine'
  <2> DEFINE t == [does |-> "release", of |-> p, on |-> d, replaces |-> {}, found |-> FALSE]
  <2>1. /\ t \in [does : {"release"}, of : Plans, on : Rulings, replaces : SUBSET Plans,
                  found : BOOLEAN]
        /\ Man!Releasable(t.of, t.on) /\ t.replaces \subseteq Man!ReleasedPlans
        /\ \A q \in {t.of} \cup t.replaces : Man!Unlocked(q, c)
        /\ task' = [task EXCEPT ![c] = t] /\ UNCHANGED <<processPlan, parts, ruling, latePart>>
    BY <1>4 DEF Man!BeginRelease, Man!Turns
  <2> HIDE DEF t
  <2> QED
    BY <1>0, <2>1, TaskStep
<1>5. ASSUME NEW c \in Planners, Man!SupersedeOthers(c) PROVE PlansInLine'
  <2> DEFINE t == [task[c] EXCEPT !.replaces = Man!ReleasedPlans, !.found = TRUE]
  <2>1. task[c] \in [does : {"release"}, of : Plans, on : Rulings, replaces : SUBSET Plans,
                     found : BOOLEAN]
    BY <1>5 DEF Man!SupersedeOthers, PlansInLine, PlansTyped, Man!Free
  <2>2. /\ t \in [does : {"release"}, of : Plans, on : Rulings, replaces : SUBSET Plans,
                  found : BOOLEAN]
        /\ t.of = task[c].of /\ t.on = task[c].on /\ t.replaces = Man!ReleasedPlans
    BY <2>1 DEF Man!ReleasedPlans
  <2>3. Man!Releasable(t.of, t.on) /\ \A d \in Planners \ {c} : Man!LockedBy(c) \cap Man!LockedBy(d) = {}
    BY <1>5, <2>2 DEF Man!SupersedeOthers, PlansInLine, TaskHeld
  <2>4. \A q \in {t.of} \cup t.replaces : Man!Unlocked(q, c)
    BY <1>5, <2>2, <2>3 DEF Man!SupersedeOthers, Man!Unlocked, Man!LockedBy
  <2>5. task' = [task EXCEPT ![c] = t] /\ UNCHANGED <<processPlan, parts, ruling, latePart>>
    BY <1>5 DEF Man!SupersedeOthers, Man!Turns
  <2> HIDE DEF t
  <2> QED
    BY <1>0, <2>2, <2>3, <2>4, <2>5, TaskStep
<1>6. ASSUME NEW c \in Planners, Man!RollBack(c) PROVE PlansInLine'
  BY <1>0, <1>6, TaskStep DEF Man!RollBack, Man!Turns
<1>7. CASE UNCHANGED Man!vars
  <2>1. UNCHANGED <<processPlan, parts, ruling, latePart, task>>
    BY <1>7 DEF Man!vars
  <2>2. PlansTyped' /\ \A p, q \in Man!ReleasedPlans' : p = q
    BY <2>1 DEF PlansInLine, PlansTyped, Man!ReleasedPlans
  <2>3. ((\E p \in Plans : processPlan[p].status = "SUPERSEDED") => Man!ReleasedPlans # {})'
    BY <2>1 DEF PlansInLine, Man!ReleasedPlans
  <2>4. \A p \in Plans : Frozen(p)' /\ Approved(p)'
    BY <2>1 DEF PlansInLine, Frozen, Fixed, Approved
  <2>5. \A d \in Planners : Man!LockedBy(d)' = Man!LockedBy(d)
    BY <2>1 DEF Man!LockedBy
  <2>6. ASSUME NEW d \in Planners PROVE TaskHeld(d)'
    BY <2>1, <2>5 DEF PlansInLine, TaskHeld, Man!Releasable, Fixed, Man!ReleasedPlans
  <2> QED
    BY <2>2, <2>3, <2>4, <2>6 DEF PlansInLine
<1> QED
  BY <1>1, <1>2, <1>3, <1>4, <1>5, <1>6, <1>7, AddPartStep, FreezeStep, CommitStep DEF Man!Next

\* One version is in force, approved as it is made.
LEMMA PlansSound == PlansInLine => Man!PlanInForce
BY DEF PlansInLine, Man!PlanInForce, Frozen, Fixed, Approved, Man!ReleasedPlans

-----------------------------------------------------------------------------
\* Opportunities.

\* Opportunities as they are kept, and what a person may have before them.
SalesTyped ==
  /\ opportunity \in [Prospects -> [stage : {"NONE"}, version : {1}]
                        \cup [stage : Sal!Stages, owner : Positions, version : Nat]]
  /\ form \in [Sellers -> {Sal!Blank}
                 \cup [at : {"shown"}, of : Prospects, version : Nat]
                 \cup [at : {"allowed", "checked"}, of : Prospects, version : Nat,
                       for : SUBSET Positions]]
  /\ holder \in [Sellers -> SUBSET Positions]
  /\ ended \in [Prospects -> {"NONE"} \cup Sal!Terminal]

\* A form is of an opportunity that exists, in the version it has or had; a checked
\* one that is not outdated may be written.
FormHonest(s) ==
  form[s] # Sal!Blank =>
    /\ form[s].of \in Sal!Created /\ form[s].version \leq opportunity[form[s].of].version
    /\ form[s].at = "checked" /\ Sal!SameVersion(s) => Sal!Editable(s)

Sales ==
  /\ SalesTyped /\ foreign = {}
  /\ \A s \in Sellers : FormHonest(s)
  /\ \A o \in Sal!Created : ended[o] = Sal!Status(opportunity[o].stage)

\* Nothing is offered yet.
LEMMA SalesInit == Sal!Init => Sales
BY DEF Sal!Init, Sales, SalesTyped, FormHonest, Sal!Created, Sal!Blank

\* An opportunity is written with a version that no form has checked.
LEMMA OpportunityWritten ==
  ASSUME Sales, NEW o \in Prospects, NEW p \in Positions, NEW stage \in Sal!Stages, NEW v \in Nat,
         opportunity' = [opportunity EXCEPT ![o] = [stage |-> stage, owner |-> p, version |-> v]],
         o \in Sal!Created => v = opportunity[o].version + 1,
         ended' = [ended EXCEPT ![o] = Sal!Status(stage)], foreign' = foreign, holder' = holder,
         \A s \in Sellers : form'[s] \in {form[s], Sal!Blank},
         form' \in [Sellers -> {form[s] : s \in Sellers} \cup {Sal!Blank}]
  PROVE  Sales'
<1>1. SalesTyped'
  BY DEF Sales, SalesTyped, Sal!Status, Sal!Stages, Sal!Terminal
<1>2. /\ opportunity'[o].stage = stage /\ opportunity'[o].version = v
      /\ \A q \in Prospects \ {o} : opportunity'[q] = opportunity[q]
      /\ Sal!Created' = Sal!Created \cup {o}
  BY DEF Sales, SalesTyped, Sal!Created, Sal!Stages
<1>3. \A q \in Sal!Created' : ended'[q] = Sal!Status(opportunity'[q].stage)
  BY <1>2 DEF Sales, SalesTyped
<1>4. ASSUME NEW s \in Sellers, form'[s] # Sal!Blank PROVE FormHonest(s)'
  <2>1. form'[s] = form[s] /\ FormHonest(s)
    BY <1>4 DEF Sales
  <2>2. form[s].of \in Sal!Created /\ form[s].version \in Nat /\ opportunity[form[s].of].version \in Nat
    BY <1>4, <2>1 DEF FormHonest, Sales, SalesTyped, Sal!Created
  <2>3. CASE form[s].of = o
    BY <1>2, <1>4, <2>1, <2>2, <2>3 DEF FormHonest, Sal!SameVersion
  <2>4. CASE form[s].of # o
    BY <1>2, <1>4, <2>1, <2>2, <2>4 DEF FormHonest, Sal!SameVersion, Sal!Editable, Sal!Created
  <2> QED
    BY <2>3, <2>4
<1> QED
  BY <1>1, <1>3, <1>4 DEF Sales, FormHonest

\* Every step keeps forms honest.
LEMMA SalesKept ==
  ASSUME Sales, [Sal!Next]_(Sal!vars)
  PROVE  Sales'
<1>1. ASSUME NEW s \in Sellers, NEW positions \in SUBSET Positions, Sal!Reassign(s, positions)
      PROVE  Sales'
  BY <1>1 DEF Sal!Reassign, Sales, SalesTyped, FormHonest, Sal!SameVersion, Sal!Editable,
     Sal!Created
<1>2. ASSUME NEW s \in Sellers, NEW p \in Positions, NEW stage \in Sal!Stages, NEW o \in Prospects,
             Sal!CreateOpportunity(s, o, p, stage)
      PROVE  Sales'
  <2>1. form \in [Sellers -> {form[t] : t \in Sellers} \cup {Sal!Blank}]
    BY DEF Sales, SalesTyped
  <2> QED
    BY <1>2, <2>1, OpportunityWritten DEF Sal!CreateOpportunity
<1>3. ASSUME NEW s \in Sellers, NEW p \in Positions, NEW stage \in Sal!Stages,
             Sal!UpdateOpportunity(s, p, stage)
      PROVE  Sales'
  <2> DEFINE o == form[s].of
  <2>1. /\ form[s] # Sal!Blank /\ o \in Sal!Created /\ o \in Prospects
        /\ opportunity[o].version \in Nat
    BY <1>3 DEF Sal!UpdateOpportunity, Sal!Blank, Sales, SalesTyped, FormHonest, Sal!Created
  <2>2. /\ \A t \in Sellers : form'[t] \in {form[t], Sal!Blank}
        /\ form' \in [Sellers -> {form[t] : t \in Sellers} \cup {Sal!Blank}]
        /\ holder' = holder
    BY <1>3 DEF Sal!UpdateOpportunity, Sales, SalesTyped
  <2>3. CASE Sal!SameVersion(s)
    <3>1. Sal!Editable(s)
      BY <1>3, <2>1, <2>3 DEF Sal!UpdateOpportunity, Sales, FormHonest
    <3>2. ended[o] = "NONE"
      BY <2>1, <3>1 DEF Sal!Editable, Sales, Sal!Status
    <3>3. /\ opportunity' = [opportunity EXCEPT ![o] =
                 [stage |-> stage, owner |-> p, version |-> opportunity[o].version + 1]]
          /\ ended' = [ended EXCEPT ![o] = Sal!Status(stage)] /\ foreign' = foreign
      BY <1>3, <2>3, <3>1, <3>2 DEF Sal!UpdateOpportunity, Sal!Editable
    <3>4. opportunity[o].version + 1 \in Nat
      BY <2>1
    <3> HIDE DEF o
    <3> QED
      BY <2>1, <2>2, <3>3, <3>4, OpportunityWritten
  <2>4. CASE ~Sal!SameVersion(s)
    <3>1. UNCHANGED <<opportunity, ended, foreign>>
      BY <1>3, <2>4 DEF Sal!UpdateOpportunity
    <3> QED
      BY <2>2, <3>1
      DEF Sales, SalesTyped, FormHonest, Sal!SameVersion, Sal!Editable, Sal!Created
  <2> QED
    BY <2>3, <2>4
<1>4. ASSUME NEW s \in Sellers,
             (\E o \in Prospects : Sal!ShowOpportunity(s, o)) \/ Sal!ResolveWork(s) \/ Sal!CheckOpportunity(s)
      PROVE  Sales'
  <2>1. /\ UNCHANGED <<opportunity, holder, ended, foreign>> /\ Sal!Created' = Sal!Created
        /\ \A t \in Sellers \ {s} : form'[t] = form[t]
    BY <1>4
    DEF Sal!ShowOpportunity, Sal!ResolveWork, Sal!CheckOpportunity, Sal!Created, Sales,
        SalesTyped
  <2>2. FormHonest(s)' /\ SalesTyped'
    <3>1. CASE \E o \in Prospects : Sal!ShowOpportunity(s, o)
      BY <2>1, <3>1
      DEF Sal!ShowOpportunity, FormHonest, Sales, SalesTyped, Sal!Created, Sal!Blank
    <3>2. CASE Sal!ResolveWork(s)
      BY <2>1, <3>2 DEF Sal!ResolveWork, FormHonest, Sales, SalesTyped, Sal!Created, Sal!Blank
    <3>3. CASE Sal!CheckOpportunity(s)
      BY <2>1, <3>3
      DEF Sal!CheckOpportunity, FormHonest, Sal!SameVersion, Sal!Editable, Sales, SalesTyped,
                        Sal!Created, Sal!Blank
    <3> QED
      BY <1>4, <3>1, <3>2, <3>3
  <2>3. \A t \in Sellers \ {s} : FormHonest(t)'
    BY <2>1 DEF Sales, FormHonest, Sal!SameVersion, Sal!Editable
  <2> QED
    BY <2>1, <2>2, <2>3 DEF Sales
<1>5. CASE UNCHANGED Sal!vars
  BY <1>5 DEF Sal!vars, Sales, SalesTyped, FormHonest, Sal!SameVersion, Sal!Editable,
     Sal!Created
<1> QED
  BY <1>1, <1>2, <1>3, <1>4, <1>5 DEF Sal!Next

\* A won or lost opportunity stays as it was closed.
LEMMA SalesSound == Sales => Sal!ClosedForGood
BY DEF Sales, Sal!ClosedForGood, Sal!Status

-----------------------------------------------------------------------------
\* The services together.

\* Every step of the whole is a step of each service, or leaves it as it is.
LEMMA Apart ==
  [Next]_vars =>
    /\ [Inf!Next]_(Inf!vars) /\ [Del!Next]_(Del!vars) /\ [Pub!Next]_(Pub!vars)
    /\ [Exc!Next]_(Exc!vars) /\ [Svc!Next]_(Svc!vars) /\ [Sit!Next]_(Sit!vars)
    /\ [Sup!Next]_(Sup!vars) /\ [Work!Next]_(Work!vars) /\ [Chg!Next]_(Chg!vars)
    /\ [Mig!Next]_(Mig!vars) /\ [Rec!Next]_(Rec!vars) /\ [Con!Next]_(Con!vars)
    /\ [Val!Next]_(Val!vars) /\ [Man!Next]_(Man!vars) /\ [Sal!Next]_(Sal!vars)
    /\ [Fun!Next]_(Fun!vars) /\ [Res!Next]_(Res!vars)
<1> USE DEF Next, OthersRest, vars,
      InformationStep, DeliverablesStep, PublicationsStep, ExchangeStep, OrdersStep, SiteStep,
      SourcingStep, WorkStep, FrameworkStep, ChangeStep, MigrationStep, RecordsStep,
      ResourcesStep, ResolutionStep, ValidationStep, PlansStep, SalesStep
<1>1. [Next]_vars => [Inf!Next]_(Inf!vars)
  BY DEF infVars, Inf!vars
<1>2. [Next]_vars => [Del!Next]_(Del!vars)
  BY DEF delVars, Del!vars
<1>3. [Next]_vars => [Pub!Next]_(Pub!vars)
  BY DEF pubVars, Pub!vars
<1>4. [Next]_vars => [Exc!Next]_(Exc!vars)
  BY DEF excVars, Exc!vars
<1>5. [Next]_vars => [Svc!Next]_(Svc!vars)
  BY DEF svcVars, Svc!vars
<1>6. [Next]_vars => [Sit!Next]_(Sit!vars)
  BY DEF sitVars, Sit!vars
<1>7. [Next]_vars => [Sup!Next]_(Sup!vars)
  BY DEF supVars, Sup!vars
<1>8. [Next]_vars => [Work!Next]_(Work!vars)
  BY DEF workVars, Work!vars
<1>9. [Next]_vars => [Chg!Next]_(Chg!vars)
  BY DEF chgVars, Chg!vars
<1>10. [Next]_vars => [Mig!Next]_(Mig!vars)
  BY DEF migVars, Mig!vars
<1>11. [Next]_vars => [Rec!Next]_(Rec!vars)
  BY DEF recVars, Rec!vars
<1>12. [Next]_vars => [Con!Next]_(Con!vars)
  BY DEF conVars, Con!vars, Con!baselineVars, Con!runVars
<1>13. [Next]_vars => [Val!Next]_(Val!vars)
  BY DEF valVars, Val!vars, Val!ruleVars
<1>14. [Next]_vars => [Man!Next]_(Man!vars)
  BY DEF manVars, Man!vars
<1>15. [Next]_vars => [Sal!Next]_(Sal!vars)
  BY DEF salVars, Sal!vars
<1>16. [Next]_vars => [Fun!Next]_(Fun!vars)
  BY DEF funVars, Fun!vars
<1>17. [Next]_vars => [Res!Next]_(Res!vars)
  BY DEF resVars, Res!vars
<1> HIDE DEF Next, OthersRest, vars,
      InformationStep, DeliverablesStep, PublicationsStep, ExchangeStep, OrdersStep, SiteStep,
      SourcingStep, WorkStep, FrameworkStep, ChangeStep, MigrationStep, RecordsStep,
      ResourcesStep, ResolutionStep, ValidationStep, PlansStep, SalesStep
<1> QED
  BY <1>1, <1>2, <1>3, <1>4, <1>5, <1>6, <1>7, <1>8, <1>9, <1>10, <1>11, <1>12, <1>13, <1>14,
     <1>15, <1>16, <1>17

\* The inductive invariant of the whole: those of the services.
Sound ==
  /\ Informed /\ Delivered /\ Published /\ Exchanged /\ Ordered /\ SiteWork /\ InLine
  /\ Works /\ Change /\ Programme /\ Accounted /\ Resolution /\ Verdicts
  /\ PlansInLine /\ Sales /\ Framework /\ Resources

\* No service loses its invariant, whichever one takes the steps.
THEOREM Invariant == Spec => []Sound
<1>1. Init => Sound
  BY InformedInit, DeliveredInit, PublishedInit, ExchangedInit, OrderedInit, SiteWorkInit,
     InLineInit, WorksInit, ChangeInit, ProgrammeInit, AccountedInit, ResolutionInit,
     VerdictsInit, PlansInit, SalesInit, FrameworkInit, ResourcesInit, OperationsAssumption
  DEF Init, Sound
<1>2. Sound /\ [Next]_vars => Sound'
  <2> SUFFICES ASSUME Sound, [Next]_vars PROVE Sound'
    OBVIOUS
  <2>1. DistinctDocuments /\ DistinctRows /\ DistinctIds /\ Dates \subseteq Nat
    BY OperationsAssumption
    DEF DistinctDocuments, DistinctRows, DistinctIds, Inf!Documents, Sit!Records
  <2>2. Informed' /\ Delivered' /\ Published' /\ Exchanged' /\ Ordered'
    BY <2>1, Apart, InformedKept, DeliveredKept, PublishedKept, ExchangedKept, OrderedKept
    DEF Sound
  <2>3. SiteWork' /\ InLine' /\ Works' /\ Change' /\ Programme'
    BY <2>1, Apart, SiteWorkKept, InLineKept, WorksKept, ChangeKept, ProgrammeKept DEF Sound
  <2>4. Accounted' /\ Resolution' /\ Verdicts' /\ PlansInLine' /\ Sales'
    BY <2>1, Apart, AccountedKept, ResolutionKept, VerdictsKept, PlansKept, SalesKept DEF Sound
  <2>5. Framework' /\ Resources'
    BY Apart, OperationsAssumption, FrameworkKept, ResourcesKept DEF Sound
  <2> QED
    BY <2>2, <2>3, <2>4, <2>5 DEF Sound
<1> QED
  BY <1>1, <1>2, PTL DEF Spec

\* What was superseded leads to what is in force, each tuple of a supplier has one
\* approval in force, and each process plan one version, approved as it is made.
THEOREM ChainsKeptInForce == Spec => []ChainsEndInForce
<1>1. Sound => ChainsEndInForce
  BY OperationsAssumption, InformedSound, InLineSound, PlansSound
  DEF Sound, ChainsEndInForce, DistinctDocuments, Inf!Documents
<1> QED
  BY <1>1, Invariant, PTL

\* What is issued was released, with the iteration it names, and approved.
THEOREM IssuesReleased == Spec => []IssuedAsReleased
<1>1. Sound => IssuedAsReleased
  BY OperationsAssumption, InformedSound, DeliveredSound
  DEF Sound, IssuedAsReleased, DistinctDocuments, Inf!Documents
<1> QED
  BY <1>1, Invariant, PTL

\* A transaction completes only when each of its activities has its answer.
THEOREM LoopsClosed == Spec => []LoopClosed
<1>1. Sound => LoopClosed
  BY PublishedSound DEF Sound, LoopClosed
<1> QED
  BY <1>1, Invariant, PTL

\* Each adoption of authority rests on an import, validated, of what was frozen.
THEOREM AdoptionsTraced == Spec => []AdoptionsTraceable
<1>1. Sound => AdoptionsTraceable
  BY ExchangedSound DEF Sound, AdoptionsTraceable
<1> QED
  BY <1>1, Invariant, PTL

\* The status of a service order says what its rows say; site work that is complete
\* was earned, and stays so.
THEOREM FieldWorkKept == Spec => []FieldWorkStands
<1>1. Sound => FieldWorkStands
  BY OrderedSound, SiteWorkSound DEF Sound, FieldWorkStands
<1> QED
  BY <1>1, Invariant, PTL

\* A workflow closes with its work, a verdict rests on its results, and a resolution
\* of a configuration can be repeated.
THEOREM OutcomesKept == Spec => []OutcomesStand
<1>1. Sound => OutcomesStand
  BY WorksSound, VerdictsSound, ResolutionSound DEF Sound, OutcomesStand
<1> QED
  BY <1>1, Invariant, PTL

\* But for what a check could not see, a function has one governance version in force,
\* no deployment more than 100 percent of its capacity on any day, no person more than
\* 100 percent of engagements, and a requirement is fulfilled once, as its status says.
THEOREM LimitsHold == Spec => []LimitsKept
<1>1. Sound => LimitsKept
  BY OperationsAssumption, FrameworkSound, ResourcesSound DEF Sound, LimitsKept
<1> QED
  BY <1>1, Invariant, PTL

\* The closure of a change leaves nothing open, but for what was inserted late; an
\* opportunity stays as it was closed.
THEOREM Settled == Spec => []ClosedIsSettled
<1>1. Sound => ClosedIsSettled
  BY ChangeSound, SalesSound DEF Sound, ClosedIsSettled
<1> QED
  BY <1>1, Invariant, PTL

\* A run is reconciled with all its items accounted for, verified, and its conflicts
\* disposed of, but for what came late.
THEOREM Reconciled == Spec => []ReconciledIsClean
<1>1. Sound => ReconciledIsClean
  BY ProgrammeSound DEF Sound, ReconciledIsClean
<1> QED
  BY <1>1, Invariant, PTL

\* A hold that blocked it stands between no destruction, or report of one, and what it
\* rests on, unless it was imposed after the check; and a run that completed without
\* exceptions reported nothing else but what was late.
THEOREM HoldsAccounted == Spec => []DispositionsAccounted
<1>1. Sound => DispositionsAccounted
  BY AccountedSound DEF Sound, DispositionsAccounted
<1> QED
  BY <1>1, Invariant, PTL

=============================================================================
