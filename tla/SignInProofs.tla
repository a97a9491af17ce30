---------------------------- MODULE SignInProofs ----------------------------
(***************************************************************************)
(* Proofs about the sessions and multi-factor challenges of MCSignIn, for  *)
(* every value of its constants.  Each has its inductive invariant, which  *)
(* the initial states satisfy, each step keeps, and which gives the        *)
(* properties the run checks; the last section joins them.                 *)
(***************************************************************************)
EXTENDS MCSignIn, Integers, WellFoundedInduction, FiniteSetTheorems, TLAPS

-----------------------------------------------------------------------------
\* The sessions.

\* Every session that was created is somewhere in the order.
SessionsTyped ==
  /\ policy \in Policies /\ asOf \in [Logins -> Policies]
  /\ recency \in Seq(Nat) /\ Len(recency) <= MaxSessions
  /\ \A s \in Created : \E i \in Created : recency[i] = s
  /\ life \in [Sessions -> {"none", "active", "expired", "revoked", "deleted"}]
  /\ \A s \in Sessions \ Created : life[s] = "none"
  /\ age \in [Sessions -> 0..2]
  /\ DOMAIN kind = Sessions
  /\ bound \subseteq Created /\ resolved \subseteq Created /\ touching \subseteq Created

\* Those in use that came in under the policy in force.
Inside == Live(policy) \ outside

\* A session bound to a disabled provider that is in use has not been let in, and so
\* not been stepped up.
ProviderKept ==
  ~provider => \A s \in bound :
    life[s] = "active" => s \notin resolved /\ Federated(kind[s].method)

\* The inductive invariant.
SessionsKept ==
  /\ SessionsTyped /\ Cardinality(Inside) <= policy.cap /\ ProviderKept

\* Numbers have a least one among them.
LEMMA Least ==
  ASSUME NEW T, T \subseteq Nat, T # {}
  PROVE  \E x \in T : \A y \in T : x <= y
<1> DEFINE R == OpToRel(<, Nat)
<1>1. IsWellFoundedOn(R, Nat)
  BY NatLessThanWellFounded
<1>2. \A i, j \in Nat : i < j => <<i, j>> \in R
  BY DEF OpToRel
<1> HIDE DEF R
<1>3. PICK x \in T : \A y \in T : ~(<<y, x>> \in R)
  BY <1>1, WFMin
<1>4. \A y \in T : ~(y < x) /\ x \in Nat /\ y \in Nat
  BY <1>2, <1>3
<1> QED
  BY <1>4

\* Sessions that were created are few, and each is somewhere in the order.
LEMMA Placed ==
  ASSUME SessionsTyped, NEW S, S \subseteq Created
  PROVE  IsFiniteSet(S) /\ Cardinality(S) \in Nat /\ \A s \in S : Position(s) \in Created
<1>1. Len(recency) \in Nat
  BY DEF SessionsTyped
<1>2. IsFiniteSet(Created)
  BY <1>1, FS_Interval DEF Created
<1>3. IsFiniteSet(S) /\ Cardinality(S) \in Nat
  BY <1>2, FS_Subset, FS_CardinalityType
<1>4. \A s \in S : Position(s) \in Created
  BY DEF Position, SessionsTyped
<1> QED
  BY <1>3, <1>4

\* The k that were seen last are at most k.
LEMMA Ranked ==
  ASSUME SessionsTyped, NEW S, S \subseteq Created, NEW k \in Nat
  PROVE  Cardinality({s \in S : Rank(s, S) <= k}) <= k
<1> DEFINE T == {s \in S : Rank(s, S) <= k}
<1>1. CASE T = {}
  BY <1>1, FS_EmptySet
<1>2. CASE T # {}
  <2> DEFINE P == {Position(s) : s \in T}
  <2>1. P \subseteq Nat /\ P # {}
    <3>1. T \subseteq Created
      OBVIOUS
    <3> HIDE DEF T
    <3>2. \A t \in T : Position(t) \in Created
      BY <3>1, Placed
    <3>3. Created \subseteq Nat
      BY DEF Created, SessionsTyped
    <3> QED
      BY <1>2, <3>2, <3>3
  <2>2. PICK m \in T : \A s \in T : Position(m) <= Position(s)
    <3> HIDE DEF T
    <3>1. PICK x \in P : \A y \in P : x <= y
      <4> HIDE DEF P
      <4> QED
        BY <2>1, Least
    <3> QED
      BY <3>1
  <2> DEFINE Later == {s \in S : Position(m) <= Position(s)}
  <2>3. T \in SUBSET Later /\ Later \subseteq Created
    BY <2>2
  <2>4. Cardinality(Later) = Rank(m, S) /\ Rank(m, S) <= k
    BY <2>2 DEF Rank
  <2> HIDE DEF T, P, Later
  <2>5. IsFiniteSet(Later) /\ Cardinality(Later) \in Nat
    BY <2>3, Placed
  <2>6. IsFiniteSet(T) /\ Cardinality(T) <= Cardinality(Later)
    BY <2>3, <2>5, FS_Subset
  <2>7. Cardinality(T) \in Nat
    BY <2>6, FS_CardinalityType
  <2> QED
    BY <2>4, <2>5, <2>6, <2>7 DEF T
<1> QED
  BY <1>1, <1>2

\* Fewer in use under the same policy keep its limit.
LEMMA Fewer ==
  ASSUME SessionsKept, SessionsTyped', policy' = policy, SessionsAssumption,
         Inside' \subseteq Inside
  PROVE  Cardinality(Inside') <= policy'.cap
<1>1. Inside \subseteq Created /\ Inside' \in SUBSET Inside
  BY DEF Inside, Live
<1>2. IsFiniteSet(Inside) /\ Cardinality(Inside) \in Nat
  BY <1>1, Placed DEF SessionsKept
<1>3. IsFiniteSet(Inside') /\ Cardinality(Inside') <= Cardinality(Inside)
  BY <1>1, <1>2, FS_Subset
<1>4. Cardinality(Inside') \in Nat
  BY <1>3, FS_CardinalityType
<1>5. policy.cap \in Nat /\ Cardinality(Inside) <= policy.cap
  BY DEF SessionsKept, SessionsTyped, SessionsAssumption
<1> QED
  BY <1>2, <1>3, <1>4, <1>5

\* Nobody has signed in.
LEMMA SessionsInit == SessionsAssumption /\ Init => SessionsKept
<1> SUFFICES ASSUME SessionsAssumption, Init PROVE SessionsKept
  OBVIOUS
<1>1. recency = <<>> /\ Len(recency) = 0 /\ Created = {}
  BY DEF Init, Created
<1>2. Unread \in Policies
  BY DEF Unread, SessionsAssumption
<1>3. SessionsTyped
  BY <1>1, <1>2 DEF Init, SessionsTyped, SessionsAssumption
<1>4. Inside = {} /\ Cardinality({}) = 0
  BY <1>1, FS_EmptySet DEF Inside, Live
<1>5. policy.cap \in Nat
  BY <1>3 DEF SessionsTyped, SessionsAssumption
<1> QED
  BY <1>3, <1>4, <1>5 DEF SessionsKept, ProviderKept, Init

\* Steps that leave the order alone, and bring nothing back to use.
LEMMA Shrinks ==
  ASSUME SessionsAssumption, SessionsKept, UNCHANGED <<policy, recency, bound, outside, asOf>>,
         life' \in [Sessions -> {"none", "active", "expired", "revoked", "deleted"}],
         age' \in [Sessions -> 0..2], DOMAIN kind' = Sessions,
         \A s \in Sessions : /\ life'[s] = "active" => life[s] = "active"
                             /\ s \notin Created => life'[s] = life[s]
                             /\ age'[s] >= age[s],
         resolved' \subseteq Created, touching' \subseteq Created
  PROVE  SessionsTyped' /\ Cardinality(Inside') <= policy'.cap
<1>1. SessionsTyped'
  BY DEF SessionsKept, SessionsTyped, Created
<1>2. ASSUME NEW s \in Inside' PROVE s \in Inside
  <2>1. /\ s \in Created /\ s \in Sessions /\ s \notin outside /\ life'[s] = "active"
        /\ age'[s] < policy.idle
    BY DEF Inside, Live, Created, Sessions, SessionsKept, SessionsTyped, SessionsAssumption
  <2>2. life[s] = "active" /\ age'[s] >= age[s] /\ age[s] \in 0..2 /\ age'[s] \in 0..2
        /\ policy.idle \in 1..2
    BY <2>1 DEF SessionsKept, SessionsTyped, SessionsAssumption
  <2>3. age[s] < policy.idle
    BY <2>1, <2>2
  <2> QED
    BY <2>1, <2>2, <2>3 DEF Inside, Live
<1> QED
  BY <1>1, <1>2, Fewer

\* What a step does to ended and idle sessions.
Final ==
  \A s \in Created : /\ life[s] # "active" => life'[s] # "active"
                     /\ policy' = policy /\ Idle(s) => Idle(s)'

\* The transaction that creates a session keeps it among as many as the policy it has
\* read allows.
LEMMA CreateKept ==
  ASSUME SessionsAssumption, SessionsKept, NEW l \in Logins, NEW s \in Sessions, Create(l, s)
  PROVE  SessionsKept' /\ Final
<1>1. /\ s = Len(recency) + 1 /\ recency' = Append(recency, s) /\ Len(recency) \in Nat
      /\ s \in Nat /\ recency \in Seq(Nat) /\ MaxSessions \in Nat /\ s <= MaxSessions
      /\ policy' = policy /\ policy \in Policies /\ asOf[l] \in Policies
  BY DEF Create, SessionsKept, SessionsTyped, SessionsAssumption, Sessions
<1>2. /\ recency' \in Seq(Nat) /\ Len(recency') = s /\ Created' = Created \cup {s}
      /\ s \notin Created /\ recency'[s] = s /\ \A i \in Created : recency'[i] = recency[i]
      /\ Created' \subseteq Sessions
  BY <1>1 DEF Created, Sessions
<1>3. \A t \in Created' : \E i \in Created' : recency'[i] = t
  BY <1>2 DEF SessionsKept, SessionsTyped
<1>4. /\ life' = [t \in Sessions |-> IF t = s THEN "active"
                                   ELSE IF t \in Evicted(asOf[l]) THEN "revoked" ELSE life[t]]
      /\ age' = [age EXCEPT ![s] = 0] /\ age'[s] = 0
      /\ \A t \in Sessions : t # s => age'[t] = age[t]
  BY DEF Create, SessionsKept, SessionsTyped
<1>5. SessionsTyped'
  <2>1. bound' \subseteq Created' /\ resolved' \subseteq Created' /\ touching' \subseteq Created'
    BY <1>2 DEF Create, SessionsKept, SessionsTyped
  <2>2. \A t \in Sessions \ Created' : life'[t] = "none"
    BY <1>2, <1>4 DEF SessionsKept, SessionsTyped, Evicted, Live
  <2>3. asOf' \in [Logins -> Policies]
    <3>1. Unread \in Policies
      BY DEF Unread, SessionsAssumption
    <3> QED
      BY <3>1 DEF Create, SessionsKept, SessionsTyped
  <2>4. life' \in [Sessions -> {"none", "active", "expired", "revoked", "deleted"}]
    BY <1>4 DEF SessionsKept, SessionsTyped
  <2>5. age' \in [Sessions -> 0..2] /\ DOMAIN kind' = Sessions
    BY DEF Create, SessionsKept, SessionsTyped
  <2>6. policy' \in Policies /\ Len(recency') <= MaxSessions
    BY <1>1, <1>2
  <2> QED
    BY <1>2, <1>3, <2>1, <2>2, <2>3, <2>4, <2>5, <2>6 DEF SessionsTyped
<1>6. Cardinality(Inside') <= policy'.cap
  <2>1. CASE asOf[l] = policy
    <3> DEFINE L == Live(policy)
               Old == {t \in L : Rank(t, L) <= policy.cap - 1}
    <3>1. L \subseteq Created /\ policy.cap - 1 \in Nat /\ policy.cap \in Nat
      BY <1>1 DEF Live, SessionsAssumption
    <3>2. Cardinality(Old) <= policy.cap - 1
      <4> HIDE DEF L
      <4> QED
        BY <3>1, Ranked DEF SessionsKept
    <3>3. IsFiniteSet(Old) /\ Cardinality(Old) \in Nat
      BY <3>1, Placed DEF SessionsKept
    <3>4. ASSUME NEW t \in Inside', t # s PROVE t \in Old
      <4>1. t \in Created /\ t \in Sessions /\ life'[t] = "active" /\ age'[t] < policy.idle
        BY <1>1, <1>2, <3>4 DEF Inside, Live
      <4>2. life[t] = "active" /\ age[t] < policy.idle /\ t \notin Evicted(policy)
        BY <1>4, <2>1, <3>4, <4>1
      <4>3. t \in L /\ ~(Rank(t, L) >= policy.cap)
        BY <4>1, <4>2 DEF Live, Evicted
      <4>4. Rank(t, L) \in Nat
        <5> HIDE DEF L
        <5> DEFINE A == {u \in L : Position(t) <= Position(u)}
        <5>1. A \subseteq Created
          BY <3>1
        <5>2. Cardinality(A) \in Nat
          <6> HIDE DEF A
          <6> QED
            BY <5>1, Placed DEF SessionsKept
        <5> QED
          BY <5>2 DEF Rank
      <4> HIDE DEF L
      <4> QED
        BY <3>1, <4>3, <4>4
    <3> HIDE DEF Old, L
    <3>5. Inside' \in SUBSET (Old \cup {s})
      BY <3>4
    <3>6. IsFiniteSet(Old \cup {s}) /\ Cardinality(Old \cup {s}) <= Cardinality(Old) + 1
      <4>1. IsFiniteSet(Old \cup {s})
            /\ Cardinality(Old \cup {s}) = IF s \in Old THEN Cardinality(Old) ELSE Cardinality(Old) + 1
        BY <3>3, FS_AddElement, Zenon
      <4> QED
        BY <3>3, <4>1
    <3>7. Cardinality(Old \cup {s}) \in Nat
      BY <3>6, FS_CardinalityType
    <3>8. IsFiniteSet(Inside') /\ Cardinality(Inside') <= Cardinality(Old \cup {s})
      BY <3>5, <3>6, FS_Subset
    <3>9. Cardinality(Inside') \in Nat
      BY <3>8, FS_CardinalityType
    <3> QED
      BY <1>1, <3>1, <3>2, <3>3, <3>6, <3>7, <3>8, <3>9
  <2>2. CASE asOf[l] # policy
    <3>1. outside' = outside \cup {s}
      BY <2>2 DEF Create
    <3>2. ASSUME NEW t \in Inside' PROVE t \in Inside
      <4>1. t \in Created /\ t \in Sessions /\ t # s /\ t \notin outside
            /\ life'[t] = "active" /\ age'[t] < policy.idle
        BY <1>1, <1>2, <3>1, <3>2 DEF Inside, Live
      <4> QED
        BY <1>4, <4>1 DEF Inside, Live
    <3> QED
      BY <1>1, <1>5, <3>2, Fewer
  <2> QED
    BY <2>1, <2>2
<1>7. ProviderKept'
  <2> SUFFICES ASSUME ~provider, NEW t \in bound', life'[t] = "active"
               PROVE  t \notin resolved /\ Federated(kind'[t].method)
    BY DEF ProviderKept, Create
  <2>1. CASE t = s
    BY <1>2, <2>1 DEF Create, SessionsKept, SessionsTyped
  <2>2. CASE t # s
    <3>1. t \in bound /\ t \in Created /\ t \in Sessions
      BY <1>2, <2>2 DEF Create, SessionsKept, SessionsTyped
    <3>2. life[t] = "active" /\ kind'[t] = kind[t]
      BY <1>4, <2>2, <3>1 DEF Create, SessionsKept, SessionsTyped
    <3> QED
      BY <3>1, <3>2 DEF SessionsKept, ProviderKept
  <2> QED
    BY <2>1, <2>2
<1>8. Final
  BY <1>2, <1>4 DEF Final, Idle, Create
<1> QED
  BY <1>5, <1>6, <1>7, <1>8 DEF SessionsKept

\* The touch of a request moves its session to the end of the order.
LEMMA TouchKept ==
  ASSUME SessionsAssumption, SessionsKept, NEW s \in Sessions, Touch(s)
  PROVE  SessionsKept' /\ Final
<1>0. s \in touching /\ s \in Created /\ Len(recency) \in Nat /\ recency \in Seq(Nat)
      /\ policy' = policy /\ life' = life
  BY DEF Touch, SessionsKept, SessionsTyped
<1>1. /\ s \in touching /\ s \in Created /\ Len(recency) \in Nat /\ recency \in Seq(Nat)
      /\ policy' = policy /\ life' = life /\ s \in Nat /\ Len(recency) \in Created
      /\ \A i \in Created : i # Len(recency) => i + 1 \in Created
  BY <1>0 DEF Created
<1>2. Position(s) \in Created /\ recency[Position(s)] = s
  BY <1>1 DEF Position, SessionsKept, SessionsTyped
<1>3. recency' = [i \in Created |-> IF i = Len(recency) THEN s
                                    ELSE IF i < Position(s) THEN recency[i] ELSE recency[i + 1]]
  BY DEF Touch
<1>4. recency' \in Seq(Nat) /\ Len(recency') = Len(recency) /\ Created' = Created
  <2> DEFINE n == Len(recency)
  <2>1. n \in Nat /\ Created = 1..n
    BY <1>1 DEF Created
  <2>2. \A i \in Created : recency[i] \in Nat
    BY <1>1 DEF Created
  <2>3. \A i \in Created : recency'[i] \in Nat
    BY <1>1, <1>3, <2>2
  <2>4. recency' \in [1..n -> Nat]
    BY <1>3, <2>1, <2>3
  <2> HIDE DEF n
  <2>5. recency' \in Seq(Nat) /\ Len(recency') = n
    BY <2>1, <2>4
  <2> QED
    BY <2>1, <2>5 DEF n, Created
<1>5. ASSUME NEW t \in Created PROVE \E i \in Created : recency'[i] = t
  <2>1. CASE t = s
    BY <1>1, <1>3, <2>1
  <2>2. CASE t # s
    <3>1. PICK i \in Created : recency[i] = t
      BY DEF SessionsKept, SessionsTyped
    <3>2. i # Position(s) /\ i \in Nat /\ Position(s) \in Nat /\ Position(s) >= 1
          /\ i <= Len(recency) /\ Position(s) <= Len(recency) /\ i >= 1
      BY <1>2, <2>2, <3>1 DEF Created
    <3>3. CASE i < Position(s)
      <4>1. i # Len(recency)
        BY <1>1, <3>2, <3>3
      <4> QED
        BY <1>3, <3>1, <3>3, <4>1
    <3>4. CASE i > Position(s)
      <4>1. i - 1 \in Created /\ i - 1 # Len(recency) /\ ~(i - 1 < Position(s)) /\ i - 1 + 1 = i
        BY <1>1, <3>2, <3>4 DEF Created
      <4> QED
        BY <1>3, <3>1, <4>1
    <3> QED
      BY <3>2, <3>3, <3>4
  <2> QED
    BY <2>1, <2>2
<1>6. age' = [age EXCEPT ![s] = 0] /\ DOMAIN age = Sessions
      /\ \A t \in Sessions : t # s => age'[t] = age[t]
  BY DEF Touch, SessionsKept, SessionsTyped
<1>7. SessionsTyped'
  <2>1. age' \in [Sessions -> 0..2] /\ DOMAIN kind' = Sessions
    BY DEF Touch, SessionsKept, SessionsTyped
  <2>2. bound' \subseteq Created /\ resolved' \subseteq Created /\ touching' \subseteq Created
    BY DEF Touch, SessionsKept, SessionsTyped
  <2>3. asOf' \in [Logins -> Policies] /\ policy' \in Policies
    BY DEF Touch, SessionsKept, SessionsTyped, loginVars
  <2> QED
    BY <1>1, <1>4, <1>5, <2>1, <2>2, <2>3 DEF SessionsKept, SessionsTyped
<1>8. ASSUME NEW t \in Inside' PROVE t \in Inside
  <2>1. t \in Created /\ t \in Sessions /\ t \notin outside' /\ life[t] = "active"
        /\ age'[t] < policy.idle
    BY <1>1, <1>4, <1>7 DEF Inside, Live, SessionsTyped, Created, Sessions, SessionsAssumption
  <2>2. t \notin outside /\ (t = s => age[t] < policy.idle)
    BY <2>1 DEF Touch
  <2>3. age[t] < policy.idle
    BY <1>6, <2>1, <2>2
  <2> QED
    BY <2>1, <2>2, <2>3 DEF Inside, Live
<1>9. Cardinality(Inside') <= policy'.cap
  BY <1>1, <1>7, <1>8, Fewer
<1>10. ProviderKept'
  BY DEF SessionsKept, ProviderKept, Touch
<1>11. Final
  <2>1. touching' = touching \ {s}
    BY DEF Touch
  <2>2. \A t \in Created : t \in Sessions
    BY DEF SessionsKept, SessionsTyped, Created, Sessions, SessionsAssumption
  <2> QED
    BY <1>1, <1>6, <2>1, <2>2 DEF Final, Idle
<1> QED
  BY <1>7, <1>9, <1>10, <1>11 DEF SessionsKept

\* A change of policy leaves as many sessions as the new one allows.
LEMMA UpdateKept ==
  ASSUME SessionsAssumption, SessionsKept, NEW p \in Policies, UpdatePolicy(p)
  PROVE  SessionsKept' /\ Final
<1>1. /\ policy' = p /\ p # policy /\ Created' = Created
      /\ life' = [s \in Sessions |-> IF s \in Unrevoked \ Retained(p) THEN "revoked" ELSE life[s]]
  BY DEF UpdatePolicy, Created
<1>2. SessionsTyped'
  BY <1>1 DEF UpdatePolicy, SessionsKept, SessionsTyped, Unrevoked, loginVars
<1>3. Complying(p) \subseteq Created /\ p.cap \in Nat
  BY DEF Complying, Live, SessionsAssumption
<1>4. Cardinality(Retained(p)) <= p.cap
  BY <1>3, Ranked DEF Retained, SessionsKept
<1>5. Retained(p) \subseteq Created
  BY <1>3 DEF Retained
<1>6. IsFiniteSet(Retained(p)) /\ Cardinality(Retained(p)) \in Nat
  BY <1>5, Placed DEF SessionsKept
<1>7. Inside' \in SUBSET Retained(p)
  <2> SUFFICES ASSUME NEW s \in Inside' PROVE s \in Retained(p)
    OBVIOUS
  <2>1. s \in Created /\ s \in Sessions /\ life'[s] = "active"
    BY <1>1 DEF Inside, Live, Created, Sessions, SessionsKept, SessionsTyped, SessionsAssumption
  <2> QED
    BY <1>1, <2>1 DEF Unrevoked
<1>8. IsFiniteSet(Inside') /\ Cardinality(Inside') <= Cardinality(Retained(p))
  BY <1>6, <1>7, FS_Subset
<1>9. Cardinality(Inside') \in Nat
  BY <1>8, FS_CardinalityType
<1>10. Cardinality(Inside') <= policy'.cap
  BY <1>1, <1>3, <1>4, <1>6, <1>8, <1>9
<1>11. ProviderKept'
  <2>1. \A s \in bound : s \in Sessions
    BY <1>2 DEF UpdatePolicy, SessionsTyped, Created, Sessions, SessionsAssumption
  <2> QED
    BY <1>1, <2>1 DEF UpdatePolicy, SessionsKept, ProviderKept
<1>12. Final
  <2>1. \A s \in Created : s \in Sessions
    BY DEF SessionsKept, SessionsTyped, Created, Sessions, SessionsAssumption
  <2> QED
    BY <1>1, <2>1 DEF Final
<1> QED
  BY <1>2, <1>10, <1>11, <1>12 DEF SessionsKept

\* Every step keeps the invariant, and brings no session back that has ended.
LEMMA SessionsMove ==
  ASSUME SessionsAssumption, SessionsKept, [Next]_vars PROVE SessionsKept' /\ Final
<1> DEFINE Lives == {"none", "active", "expired", "revoked", "deleted"}
<1>0. /\ life \in [Sessions -> Lives] /\ age \in [Sessions -> 0..2] /\ DOMAIN kind = Sessions
      /\ bound \subseteq Created /\ resolved \subseteq Created /\ touching \subseteq Created
      /\ policy \in Policies /\ policy.idle \in 1..2
      /\ Created \subseteq Sessions
      /\ \A s \in Sessions : s \notin Created => life[s] # "active" /\ life[s] = "none"
  <2>1. policy \in Policies /\ policy.idle \in 1..2
    BY DEF SessionsKept, SessionsTyped, SessionsAssumption
  <2>2. Created \subseteq Sessions
    BY DEF SessionsKept, SessionsTyped, SessionsAssumption, Created, Sessions
  <2> QED
    BY <2>1, <2>2 DEF SessionsKept, SessionsTyped
\* The sign-ins that have yet to create one.
<1>1. ASSUME NEW l \in Logins,
             (\E k \in Kinds : Authenticate(l, k)) \/ ReadPolicy(l)
      PROVE  SessionsKept' /\ Final
  <2>1. UNCHANGED <<policy, provider, recency, life, age, kind, bound, resolved, touching, outside>>
    BY <1>1 DEF Authenticate, ReadPolicy, sessionVars
  <2>2. asOf' \in [Logins -> Policies]
    BY <1>1 DEF Authenticate, ReadPolicy, SessionsKept, SessionsTyped
  <2>3. SessionsTyped' /\ Inside' = Inside
    BY <2>1, <2>2 DEF SessionsKept, SessionsTyped, Created, Inside, Live
  <2> QED
    BY <2>1, <2>3 DEF SessionsKept, ProviderKept, Final, Idle
\* Revocations and the end of sessions.
<1>2. ASSUME UNCHANGED <<policy, recency, age, kind, bound, resolved, touching, outside, asOf>>,
             life' \in [Sessions -> Lives],
             \A s \in Sessions : /\ life'[s] = "active" => life[s] = "active"
                                 /\ s \notin Created => life'[s] = life[s],
             provider' = provider \/ provider' \/ \A s \in bound : life'[s] # "active"
      PROVE  SessionsKept' /\ Final
  <2>1. \A s \in Sessions : age'[s] >= age[s]
    BY <1>0, <1>2
  <2>2. SessionsTyped' /\ Cardinality(Inside') <= policy'.cap
    BY <1>0, <1>2, <2>1, Shrinks
  <2>3. ProviderKept'
    BY <1>0, <1>2 DEF SessionsKept, ProviderKept
  <2>4. Final
    BY <1>0, <1>2 DEF Final, Idle
  <2> QED
    BY <2>2, <2>3, <2>4 DEF SessionsKept
<1>3. ASSUME NEW S, S \subseteq Created, Revoke(S) PROVE SessionsKept' /\ Final
  BY <1>0, <1>2, <1>3 DEF Revoke, loginVars
<1>4. ASSUME NEW s \in Sessions, Resolve(s) PROVE SessionsKept' /\ Final
  <2>1. /\ UNCHANGED <<policy, provider, recency, life, age, kind, bound, outside, asOf>>
        /\ s \in Created /\ Resolvable(s)
        /\ resolved' = resolved \cup {s} /\ touching' = touching \cup {s}
    BY <1>4 DEF Resolve, sessionVars, loginVars
  <2>2. \A t \in Sessions : age'[t] >= age[t]
    BY <1>0, <2>1
  <2>3. SessionsTyped' /\ Cardinality(Inside') <= policy'.cap
    BY <1>0, <2>1, <2>2, Shrinks
  <2>4. ProviderKept'
    BY <1>0, <2>1 DEF SessionsKept, ProviderKept, Resolvable
  <2>5. Final
    BY <1>0, <2>1 DEF Final, Idle, Resolvable
  <2> QED
    BY <2>3, <2>4, <2>5 DEF SessionsKept
<1>5. ASSUME NEW s \in Sessions, NEW method \in Factors, StepUp(s, method)
      PROVE  SessionsKept' /\ Final
  <2>1. /\ UNCHANGED <<policy, provider, recency, life, age, bound, resolved, touching, outside, asOf>>
        /\ s \in resolved /\ life[s] = "active" /\ DOMAIN kind' = Sessions
        /\ \A t \in Sessions : t # s => kind'[t] = kind[t]
    BY <1>0, <1>5 DEF StepUp, loginVars
  <2>2. \A t \in Sessions : age'[t] >= age[t]
    BY <1>0, <2>1
  <2>3. SessionsTyped' /\ Cardinality(Inside') <= policy'.cap
    BY <1>0, <2>1, <2>2, Shrinks
  <2>4. ProviderKept'
    BY <1>0, <2>1 DEF SessionsKept, ProviderKept
  <2>5. Final
    BY <2>1 DEF Final, Idle
  <2> QED
    BY <2>3, <2>4, <2>5 DEF SessionsKept
<1>6. ASSUME NEW active \in BOOLEAN, SetProvider(active) PROVE SessionsKept' /\ Final
  <2>1. /\ UNCHANGED <<policy, recency, age, kind, bound, resolved, touching, outside, asOf>>
        /\ life' = [s \in Sessions |-> IF ~active /\ s \in Unrevoked \cap bound THEN "revoked"
                                       ELSE life[s]]
        /\ provider' = active
    BY <1>6 DEF SetProvider, loginVars
  <2>2. life' \in [Sessions -> Lives]
    BY <1>0, <2>1
  <2>3. \A s \in Sessions : /\ life'[s] = "active" => life[s] = "active"
                            /\ s \notin Created => life'[s] = life[s]
    BY <2>1 DEF Unrevoked
  <2>4. ~active => \A s \in bound : life'[s] # "active"
    BY <1>0, <2>1 DEF Unrevoked
  <2> QED
    BY <1>2, <2>1, <2>2, <2>3, <2>4
<1>7. CASE Purge
  <2>1. UNCHANGED <<policy, provider, recency, age, kind, bound, resolved, touching, outside, asOf>>
    BY <1>7 DEF Purge, loginVars
  <2>2. PICK old \in {{}, {s \in Created : life[s] = "revoked"}} :
          life' = [s \in Sessions |-> IF s \in old \/ life[s] = "expired" THEN "deleted" ELSE life[s]]
    BY <1>7 DEF Purge
  <2>3. life' \in [Sessions -> Lives]
    BY <1>0, <2>2
  <2>4. \A s \in Sessions : /\ life'[s] = "active" => life[s] = "active"
                            /\ s \notin Created => life'[s] = life[s]
    BY <1>0, <2>2
  <2> QED
    BY <1>2, <2>1, <2>3, <2>4
<1>8. CASE IdlePeriod
  <2>1. UNCHANGED <<policy, provider, recency, life, kind, bound, resolved, touching, outside, asOf>>
        /\ age' = [s \in Sessions |-> IF s \in Created /\ age[s] < 2 THEN age[s] + 1 ELSE age[s]]
    BY <1>8 DEF IdlePeriod, loginVars
  <2>2. age' \in [Sessions -> 0..2] /\ \A s \in Sessions : age'[s] >= age[s]
    BY <1>0, <2>1
  <2>3. SessionsTyped' /\ Cardinality(Inside') <= policy'.cap
    BY <1>0, <2>1, <2>2, Shrinks
  <2>4. ProviderKept'
    BY <1>0, <2>1 DEF SessionsKept, ProviderKept
  <2>5. Final
    <3> SUFFICES ASSUME NEW s \in Created, age[s] >= policy.idle PROVE age'[s] >= policy.idle
      BY <2>1 DEF Final, Idle
    <3>1. s \in Sessions /\ age[s] \in 0..2 /\ age'[s] \in 0..2 /\ age'[s] >= age[s]
      BY <1>0, <2>2
    <3> QED
      BY <1>0, <3>1
  <2> QED
    BY <2>3, <2>4, <2>5 DEF SessionsKept
<1>9. ASSUME NEW s \in Sessions, Expire(s) PROVE SessionsKept' /\ Final
  <2>1. /\ UNCHANGED <<policy, provider, recency, age, kind, bound, resolved, touching, outside, asOf>>
        /\ s \in Created /\ life' \in [Sessions -> Lives] /\ life'[s] = "expired"
        /\ \A t \in Sessions : t # s => life'[t] = life[t]
    BY <1>0, <1>9 DEF Expire, loginVars
  <2> QED
    BY <1>2, <2>1
<1>10. CASE UNCHANGED vars
  BY <1>0, <1>2, <1>10 DEF vars, sessionVars, loginVars
<1>11. ASSUME NEW s \in Sessions, SignOut(s) \/ SignOutOthers(s) PROVE SessionsKept' /\ Final
  BY <1>3, <1>11 DEF SignOut, SignOutOthers, Unrevoked
<1>12. CASE ResetPassword
  BY <1>3, <1>12 DEF ResetPassword, Unrevoked
<1> QED
  BY <1>1, <1>4, <1>5, <1>6, <1>7, <1>8, <1>9, <1>10, <1>11, <1>12, CreateKept, TouchKept,
     UpdateKept
  DEF Next

\* As many are usable as the policy allows, and none by a disabled provider.
LEMMA SessionsSound ==
  ASSUME SessionsAssumption, SessionsKept PROVE CapRespected /\ DisabledProviderAdmitsNobody
<1>1. {s \in Created : Resolvable(s)} \ outside \in SUBSET Inside
  BY DEF Inside, Live, Resolvable
<1>2. Inside \subseteq Created
  BY DEF Inside, Live
<1>3. IsFiniteSet(Inside) /\ Cardinality(Inside) \in Nat
  BY <1>2, Placed DEF SessionsKept
<1>4. Cardinality({s \in Created : Resolvable(s)} \ outside) <= Cardinality(Inside)
  BY <1>1, <1>3, FS_Subset
<1>5. IsFiniteSet({s \in Created : Resolvable(s)} \ outside)
  BY <1>1, <1>3, FS_Subset
<1>6. Cardinality({s \in Created : Resolvable(s)} \ outside) \in Nat
  BY <1>5, FS_CardinalityType
<1>7. policy.cap \in Nat /\ Cardinality(Inside) <= policy.cap
  BY DEF SessionsKept, SessionsTyped, SessionsAssumption
<1>8. CapRespected
  BY <1>3, <1>4, <1>6, <1>7 DEF CapRespected
<1>9. DisabledProviderAdmitsNobody
  BY DEF DisabledProviderAdmitsNobody, SessionsKept, ProviderKept, Resolvable
<1> QED
  BY <1>8, <1>9

-----------------------------------------------------------------------------
\* Multi-factor authentication.

\* A code that was accepted is of the current secret or an earlier one, and of the
\* current secret none is later than the counter kept; a pending one has not been used.
CodesKept ==
  /\ secret \in Nat /\ lastCounter \in Nat /\ ~reused
  /\ \A u \in used : /\ u \in Nat \X Nat /\ u[1] <= secret
                     /\ u[1] = secret => u[2] <= lastCounter /\ status # "PENDING"

\* What can be spent is of the newest set, what was spent of it or an earlier one.
RecoveryKept ==
  /\ sets \in Nat /\ recovery \in SUBSET ({sets} \X Codes)
  /\ \A r \in spent : r \in Nat \X Codes /\ r[1] <= sets
  /\ recovery \cap spent = {}
  /\ status # "ACTIVE" => recovery = {}

\* The challenges that MFA was disabled over are closed.
BarredKept ==
  /\ opened \in 0..MaxChallenges /\ challenge \in [Mfa!Challenges -> {"open", "expired", "consumed"}]
  /\ \A c \in barred : c \in Mfa!Exists /\ challenge[c] = "consumed"

\* The inductive invariant.
Guarded == CodesKept /\ RecoveryKept /\ BarredKept

\* Nobody has enrolled.
LEMMA GuardedInit == Mfa!MfaAssumption /\ Mfa!Init => Guarded
BY DEF Mfa!MfaAssumption, Mfa!Init, Guarded, CodesKept, RecoveryKept, BarredKept

\* A TOTP code is accepted only if it is later than the counter kept, and takes its place.
LEMMA TotpKept ==
  ASSUME Mfa!MfaAssumption, CodesKept, status = "ACTIVE", Mfa!AcceptTotp PROVE CodesKept'
<1>1. PICK k \in Mfa!Acceptable(lastCounter) :
        /\ lastCounter' = k /\ used' = used \cup {<<secret, k>>}
        /\ reused' = (reused \/ <<secret, k>> \in used)
        /\ UNCHANGED <<status, secret>>
  BY DEF Mfa!AcceptTotp
<1>2. k \in Nat /\ k > lastCounter
  BY DEF Mfa!Acceptable, Mfa!Counters, Mfa!MfaAssumption
<1>3. <<secret, k>> \notin used
  BY <1>2 DEF CodesKept
<1>4. \A u \in used' : /\ u \in Nat \X Nat /\ u[1] <= secret
                       /\ u[1] = secret => u[2] <= k
  <2> TAKE u \in used'
  <2>1. CASE u \in used
    <3>1. /\ u[1] <= secret /\ u[2] \in Nat /\ lastCounter \in Nat /\ u \in Nat \X Nat
          /\ u[1] = secret => u[2] <= lastCounter
      BY <2>1 DEF CodesKept
    <3> QED
      BY <1>2, <3>1
  <2>2. CASE u = <<secret, k>>
    BY <1>2, <2>2 DEF CodesKept
  <2> QED
    BY <1>1, <2>1, <2>2
<1> QED
  BY <1>1, <1>2, <1>3, <1>4 DEF CodesKept

\* A recovery code is accepted only while it can be spent, and no longer then.
LEMMA RecoveryCodeKept ==
  ASSUME RecoveryKept, CodesKept, status = "ACTIVE", Mfa!AcceptRecoveryCode
  PROVE  RecoveryKept' /\ CodesKept'
<1>1. PICK r \in recovery :
        /\ recovery' = recovery \ {r} /\ spent' = spent \cup {r}
        /\ reused' = (reused \/ r \in spent)
        /\ UNCHANGED <<status, secret, lastCounter, sets, used>>
  BY DEF Mfa!AcceptRecoveryCode
<1>2. r \notin spent /\ r \in Nat \X Codes /\ r[1] <= sets
  BY DEF RecoveryKept
<1>3. CodesKept'
  BY <1>1, <1>2 DEF CodesKept
<1>4. RecoveryKept'
  <2>1. \A q \in spent' : q \in Nat \X Codes /\ q[1] <= sets
    BY <1>1, <1>2 DEF RecoveryKept
  <2> QED
    BY <1>1, <2>1 DEF RecoveryKept
<1> QED
  BY <1>3, <1>4

\* A new set of recovery codes is none that was spent.
LEMMA NewSetKept ==
  ASSUME RecoveryKept, Mfa!NewRecoverySet, status' = "ACTIVE", spent' = spent PROVE RecoveryKept'
<1>1. /\ sets' = sets + 1 /\ sets' \in Nat /\ recovery' = {sets'} \X Codes
  BY DEF Mfa!NewRecoverySet, RecoveryKept
<1>2. \A r \in spent : r \in Nat \X Codes /\ r[1] <= sets
  BY DEF RecoveryKept
<1>3. \A r \in spent : r[1] # sets' /\ r[1] <= sets'
  BY <1>1, <1>2 DEF RecoveryKept
<1> QED
  BY <1>1, <1>2, <1>3 DEF RecoveryKept

\* An enrolment is confirmed.
LEMMA ConfirmKept == ASSUME Guarded, Mfa!Confirm, barred' = barred PROVE Guarded'
<1>1. CodesKept'
  BY DEF Guarded, CodesKept, Mfa!Confirm
<1>2. RecoveryKept'
  BY NewSetKept DEF Guarded, Mfa!Confirm
<1>3. BarredKept'
  BY DEF Guarded, BarredKept, Mfa!Confirm, Mfa!challengeVars, Mfa!Exists
<1> QED
  BY <1>1, <1>2, <1>3 DEF Guarded

\* An open challenge, which is not barred, is used or expires.
LEMMA ClosedKept ==
  ASSUME BarredKept, NEW c, challenge[c] = "open", NEW v \in {"expired", "consumed"},
         challenge' = [challenge EXCEPT ![c] = v], opened' = opened, barred' = barred,
         passed' \ passed \subseteq {c}
  PROVE  BarredKept' /\ (passed' \ passed) \cap barred = {}
<1>1. c \notin barred
  BY DEF BarredKept
<1>2. challenge' \in [Mfa!Challenges -> {"open", "expired", "consumed"}]
  BY DEF BarredKept
<1>3. \A d \in barred : challenge'[d] = challenge[d]
  BY <1>1 DEF BarredKept
<1> QED
  BY <1>1, <1>2, <1>3 DEF BarredKept, Mfa!Exists

\* Every step keeps the invariant, and lets nothing through that was barred.
LEMMA GuardedKept ==
  ASSUME Mfa!MfaAssumption, Guarded, [Mfa!Next]_(Mfa!vars)
  PROVE  Guarded' /\ (passed' \ passed) \cap barred = {}
<1> DEFINE Shut == (passed' \ passed) \cap barred = {}
<1> USE DEF Guarded
<1>1. CASE Mfa!StartEnrollment
  <2>1. CodesKept'
    <3>1. secret' = secret + 1 /\ secret' \in Nat /\ UNCHANGED <<used, reused>> /\ lastCounter' = 0
      BY <1>1 DEF Mfa!StartEnrollment, CodesKept
    <3>2. \A u \in used : u \in Nat \X Nat /\ u[1] <= secret' /\ u[1] # secret'
      BY <3>1 DEF CodesKept
    <3> QED
      BY <3>1, <3>2 DEF CodesKept
  <2> QED
    BY <1>1, <2>1
    DEF Mfa!StartEnrollment, RecoveryKept, BarredKept, Mfa!challengeVars, Mfa!Exists
<1>2. CASE Mfa!ConfirmEnrollment
  BY <1>2, ConfirmKept DEF Mfa!ConfirmEnrollment, Mfa!Confirm, Mfa!challengeVars
<1>3. CASE Mfa!RegenerateRecoveryCodes
  <2>1. RecoveryKept'
    BY <1>3, NewSetKept DEF Mfa!RegenerateRecoveryCodes, Mfa!historyVars
  <2> QED
    BY <1>3, <2>1
    DEF Mfa!RegenerateRecoveryCodes, CodesKept, BarredKept, Mfa!challengeVars, Mfa!historyVars,
        Mfa!Exists
<1>4. CASE Mfa!CheckDisable
  BY <1>4 DEF Mfa!CheckDisable, CodesKept, RecoveryKept, BarredKept, Mfa!enrolmentVars,
     Mfa!challengeVars,
              Mfa!historyVars, Mfa!Exists
<1>5. CASE Mfa!Disable
  <2>1. \A c \in Mfa!Exists : c \in Mfa!Challenges
    BY DEF BarredKept, Mfa!Exists, Mfa!Challenges, Mfa!MfaAssumption
  <2>2. BarredKept'
    <3>1. CASE status \in {"ACTIVE", "PENDING"}
      BY <1>5, <2>1, <3>1 DEF Mfa!Disable, BarredKept, Mfa!Exists
    <3>2. CASE status \notin {"ACTIVE", "PENDING"}
      BY <1>5, <3>2 DEF Mfa!Disable, BarredKept, Mfa!Exists
    <3> QED
      BY <3>1, <3>2
  <2> QED
    BY <1>5, <2>2, <2>1 DEF Mfa!Disable, CodesKept, RecoveryKept
<1>6. ASSUME NEW l \in Logins, Mfa!Decide(l) PROVE Guarded' /\ Shut
  BY <1>6 DEF Mfa!Decide, CodesKept, RecoveryKept, BarredKept, Mfa!enrolmentVars,
     Mfa!challengeVars,
              Mfa!historyVars, Mfa!Exists
<1>7. ASSUME NEW l \in Logins, Mfa!OpenChallenge(l) PROVE Guarded' /\ Shut
  <2>1. BarredKept' /\ Shut
    <3>1. /\ opened' = opened + 1 /\ opened' \in 0..MaxChallenges /\ barred' = barred
          /\ challenge' = [c \in Mfa!Challenges |-> IF c = opened' THEN "open" ELSE "consumed"]
          /\ passed' = passed
      BY <1>7 DEF Mfa!OpenChallenge, BarredKept, Mfa!MfaAssumption, Mfa!historyVars
    <3>2. \A c \in barred : c \in 1..opened' /\ c # opened' /\ c \in Mfa!Challenges
      BY <3>1 DEF BarredKept, Mfa!Exists, Mfa!Challenges, Mfa!MfaAssumption
    <3> QED
      BY <3>1, <3>2 DEF BarredKept, Mfa!Exists
  <2> QED
    BY <1>7, <2>1
    DEF Mfa!OpenChallenge, CodesKept, RecoveryKept, Mfa!enrolmentVars, Mfa!historyVars
<1>8. ASSUME NEW c \in Mfa!Exists, Mfa!ConfirmForSignIn(c) PROVE Guarded' /\ Shut
  BY <1>8, ConfirmKept DEF Mfa!ConfirmForSignIn, Mfa!Confirm, Mfa!challengeVars
<1>9. ASSUME NEW c \in Mfa!Exists, Mfa!ConsumeEnrollment(c) PROVE Guarded' /\ Shut
  <2>1. BarredKept' /\ Shut
    <3>1. CASE challenge[c] = "open"
      BY <1>9, <3>1, ClosedKept DEF Mfa!ConsumeEnrollment, Mfa!historyVars
    <3>2. CASE challenge[c] # "open"
      BY <1>9, <3>2 DEF Mfa!ConsumeEnrollment, BarredKept, Mfa!historyVars, Mfa!Exists
    <3> QED
      BY <3>1, <3>2
  <2> QED
    BY <1>9, <2>1
    DEF Mfa!ConsumeEnrollment, CodesKept, RecoveryKept, Mfa!enrolmentVars, Mfa!historyVars
<1>10. ASSUME NEW c \in Mfa!Exists, Mfa!PassChallenge(c) PROVE Guarded' /\ Shut
  <2>1. status = "ACTIVE" /\ challenge[c] = "open"
    BY <1>10 DEF Mfa!PassChallenge, Mfa!Answerable
  <2>2. CodesKept' /\ RecoveryKept' /\ barred' = barred
    <3>1. CASE Mfa!AcceptTotp
      BY <2>1, <3>1, TotpKept DEF Mfa!AcceptTotp, RecoveryKept
    <3>2. CASE Mfa!AcceptRecoveryCode
      BY <2>1, <3>2, RecoveryCodeKept DEF Mfa!AcceptRecoveryCode
    <3> QED
      BY <1>10, <3>1, <3>2 DEF Mfa!PassChallenge
  <2>3. BarredKept' /\ Shut
    BY <1>10, <2>1, <2>2, ClosedKept DEF Mfa!PassChallenge
  <2> QED
    BY <2>2, <2>3
<1>11. ASSUME NEW c \in Mfa!Exists, Mfa!FailChallenge(c) PROVE Guarded' /\ Shut
  BY <1>11 DEF Mfa!FailChallenge, CodesKept, RecoveryKept, BarredKept, Mfa!enrolmentVars,
     Mfa!historyVars, Mfa!Exists
<1>12. ASSUME NEW c \in Mfa!Exists, Mfa!ExpireChallenge(c) PROVE Guarded' /\ Shut
  <2>1. BarredKept' /\ Shut
    BY <1>12, ClosedKept DEF Mfa!ExpireChallenge, Mfa!historyVars
  <2> QED
    BY <1>12, <2>1
    DEF Mfa!ExpireChallenge, CodesKept, RecoveryKept, Mfa!enrolmentVars, Mfa!historyVars
<1>13. CASE Mfa!StepUp
  <2>1. CASE Mfa!AcceptTotp
    BY <1>13, <2>1, TotpKept
    DEF Mfa!StepUp, Mfa!AcceptTotp, RecoveryKept, BarredKept, Mfa!challengeVars, Mfa!Exists
  <2>2. CASE Mfa!AcceptRecoveryCode
    BY <1>13, <2>2, RecoveryCodeKept
    DEF Mfa!StepUp, Mfa!AcceptRecoveryCode, BarredKept, Mfa!challengeVars, Mfa!Exists
  <2> QED
    BY <1>13, <2>1, <2>2 DEF Mfa!StepUp
<1>14. CASE Mfa!Tick
  BY <1>14 DEF Mfa!Tick, CodesKept, RecoveryKept, BarredKept, Mfa!enrolmentVars,
     Mfa!challengeVars,
               Mfa!historyVars, Mfa!Exists
<1>15. CASE Mfa!SetRequirement
  BY <1>15 DEF Mfa!SetRequirement, CodesKept, RecoveryKept, BarredKept, Mfa!enrolmentVars,
     Mfa!challengeVars,
               Mfa!historyVars, Mfa!Exists
<1>16. CASE UNCHANGED Mfa!vars
  BY <1>16 DEF Mfa!vars, CodesKept, RecoveryKept, BarredKept, Mfa!enrolmentVars,
     Mfa!challengeVars,
               Mfa!historyVars, Mfa!Exists
<1> QED
  BY <1>1, <1>2, <1>3, <1>4, <1>5, <1>6, <1>7, <1>8, <1>9, <1>10, <1>11, <1>12, <1>13, <1>14,
     <1>15, <1>16 DEF Mfa!Next

\* No code is accepted twice, and those that can be spent are fresh.
LEMMA GuardedSound == Guarded => Mfa!NothingReused /\ Mfa!RecoveryCodesFresh
BY DEF Guarded, CodesKept, RecoveryKept, Mfa!NothingReused, Mfa!RecoveryCodesFresh

-----------------------------------------------------------------------------
\* Sessions and challenges together.

signInVars == <<service, vars, mfaVars>>

\* Every step of the whole is a step of each, or leaves it as it is.
LEMMA Apart == [SignInNext]_signInVars => [Next]_vars /\ [Mfa!Next]_(Mfa!vars)
<1> USE DEF SignInNext, SessionsStep, MfaStep, signInVars
<1>1. [SignInNext]_signInVars => [Next]_vars
  OBVIOUS
<1>2. [SignInNext]_signInVars => [Mfa!Next]_(Mfa!vars)
  BY DEF mfaVars, Mfa!vars, Mfa!enrolmentVars, Mfa!challengeVars, Mfa!requestVars,
     Mfa!historyVars
<1> QED
  BY <1>1, <1>2

\* Neither loses its invariant, whichever one takes the steps.
THEOREM Invariant == SignInSpec => [](SessionsKept /\ Guarded)
<1>1. SignInInit => SessionsKept /\ Guarded
  BY SessionsAssumption, SignInAssumption, SessionsInit, GuardedInit DEF SignInInit
<1>2. SessionsKept /\ Guarded /\ [SignInNext]_signInVars => SessionsKept' /\ Guarded'
  BY SessionsAssumption, SignInAssumption, Apart, SessionsMove, GuardedKept
<1> QED
  BY <1>1, <1>2, PTL DEF SignInSpec, signInVars

\* No more sessions are usable than the policy in force allows, but for those that came
\* in outside of it: the creation and the change of policy each leave that many.
THEOREM SessionsCapped == SignInSpec => []CapRespected
<1>1. SessionsKept => CapRespected
  BY SessionsAssumption, SessionsSound
<1> QED
  BY <1>1, Invariant, PTL

\* A session bound to a disabled provider is not usable: if it is in use it came in since,
\* was never let in, and so is still of a method of the provider's.
THEOREM ProviderShutsOut == SignInSpec => []DisabledProviderAdmitsNobody
<1>1. SessionsKept => DisabledProviderAdmitsNobody
  BY SessionsAssumption, SessionsSound
<1> QED
  BY <1>1, Invariant, PTL

\* No step brings back a session that has ended, nor under the same policy an idle one.
THEOREM EndsAreFinal == SignInSpec => EndedIsFinal
<1>1. SessionsKept /\ [SignInNext]_signInVars => [Final]_vars
  BY SessionsAssumption, Apart, SessionsMove
<1>2. Final <=> \A s \in Created : /\ life[s] # "active" => life'[s] # "active"
                                   /\ policy' = policy /\ Idle(s) => Idle(s)'
  BY DEF Final
<1> QED
  BY <1>1, <1>2, Invariant, PTL DEF SignInSpec, signInVars, EndedIsFinal

\* No TOTP or recovery code is accepted at two sign-ins or step-ups.
THEOREM CodesOnce == SignInSpec => []NothingReused
<1>1. Guarded => NothingReused
  BY GuardedSound DEF NothingReused
<1> QED
  BY <1>1, Invariant, PTL

\* The recovery codes that can be spent are of the newest set, unspent, of an active enrolment.
THEOREM CodesFresh == SignInSpec => []RecoveryCodesFresh
<1>1. Guarded => RecoveryCodesFresh
  BY GuardedSound DEF RecoveryCodesFresh
<1> QED
  BY <1>1, Invariant, PTL

\* No challenge that existed when MFA was disabled leads to a session afterwards.
THEOREM DisabledForGood == SignInSpec => DisableEndsSignIns
<1>1. Guarded /\ [SignInNext]_signInVars => [(passed' \ passed) \cap barred = {}]_(Mfa!vars)
  BY SignInAssumption, Apart, GuardedKept
<1> QED
  BY <1>1, Invariant, PTL DEF SignInSpec, signInVars, DisableEndsSignIns, Mfa!DisableEndsSignIns
=============================================================================
