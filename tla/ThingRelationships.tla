-------------------------- MODULE ThingRelationships --------------------------
(***************************************************************************)
(* The relationships between Things of given types                         *)
(* (packages/persistence/src/thing-administration-command-service.ts).     *)
(*                                                                         *)
(* A relationship type has its own limits from each end; a transaction     *)
(* counts what a relationship would conflict with, without locks, and      *)
(* inserts.  No command ends a relationship or changes the type of a Thing. *)
(***************************************************************************)
EXTENDS Naturals, FiniteSets

CONSTANTS
  Things,
  TypeOf,         \* the type of each Thing
  Types,
  Parent,         \* the type each is derived from, itself where there is none
  Relations,      \* relationship types
  Ends,           \* the types each goes from and to
  ToOne, FromOne, \* of Relations: with a cardinality ONE of that end
  Periods,        \* pairs of a first and a last day
  Callers,        \* commands that may overlap
  MaxRelated      \* bound: relationships

RelationshipsAssumption == Periods \subseteq Nat \X Nat

VARIABLES
  related,      \* canonical_relationships
  local,        \* the relationship a transaction is about to insert
  unseen        \* history: relationships whose check no longer held

vars == <<related, local, unseen>>

Relationships == [type : Relations, from : Things, to : Things, period : Periods]
Idle == [type |-> "none"]

TypeOK ==
  /\ related \subseteq Relationships /\ unseen \subseteq related
  /\ local \in [Callers -> Relationships \cup {Idle}]

Init == related = {} /\ local = [c \in Callers |-> Idle] /\ unseen = {}

\* The recursive query lineage: a type and all it is derived from.
Lineage(ty) ==
  {a \in Types : \A S \in SUBSET Types :
     ty \in S /\ (\A b \in S : Parent[b] \in S) => a \in S}

TypeMatches(t, allowed) == allowed \in Lineage(TypeOf[t])

\* Mutant: only what holds on the first day is counted.
OverlapsFirstDay(r, s) == r.period[1] <= s.period[1] /\ s.period[1] <= r.period[2]

Overlaps(r, s) == r.period[1] <= s.period[2] /\ s.period[1] <= r.period[2]

Exceeded(r) ==
  \E s \in related : /\ s.type = r.type /\ Overlaps(s, r)
                     /\ \/ r.type \in ToOne /\ s.from = r.from
                        \/ r.type \in FromOne /\ s.to = r.to

RelateThings(c, r) ==
  /\ local[c] = Idle /\ Cardinality(related) < MaxRelated
  /\ TypeMatches(r.from, Ends[r.type][1]) /\ TypeMatches(r.to, Ends[r.type][2])
  /\ ~Exceeded(r)
  /\ local' = [local EXCEPT ![c] = r]
  /\ UNCHANGED <<related, unseen>>

InsertRelationship(c) ==
  /\ local[c] # Idle
  /\ related' = related \cup {local[c]}
  /\ unseen' = IF Exceeded(local[c]) THEN unseen \cup {local[c]} ELSE unseen
  /\ local' = [local EXCEPT ![c] = Idle]

Next ==
  \E c \in Callers : InsertRelationship(c) \/ \E r \in Relationships : RelateThings(c, r)

Spec == Init /\ [][Next]_vars

-----------------------------------------------------------------------------
Days == UNION {p[1]..p[2] : p \in Periods}
On(d) == {r \in related \ unseen : r.period[1] <= d /\ d <= r.period[2]}

\* On no day has a Thing more relationships of a type than the cardinality of
\* either end allows, but for those that were checked at once; and their ends are
\* of the types the relationship type names, or derived from them.
RelationshipsWellFormed ==
  /\ \A d \in Days : \A r, s \in On(d) :
       /\ r.type = s.type
       /\ (r.type \in ToOne /\ r.from = s.from) \/ (r.type \in FromOne /\ r.to = s.to)
       => r = s
  /\ \A r \in related : \A S \in {T \in SUBSET Types : \A b \in T : Parent[b] \in T} :
       /\ TypeOf[r.from] \in S => Ends[r.type][1] \in S
       /\ TypeOf[r.to] \in S => Ends[r.type][2] \in S
=============================================================================
