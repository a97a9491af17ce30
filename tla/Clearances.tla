------------------------------ MODULE Clearances ------------------------------
(***************************************************************************)
(* Security classifications of versions of objects, and who is cleared for *)
(* them (packages/persistence/src/security-classification-repository.ts).  *)
(*                                                                         *)
(* Rows have a period and are never changed.  A classification is checked  *)
(* against the others through the pool and inserted later.  An evaluation  *)
(* is of a day the caller names, and reads whom the person stands for, the *)
(* classifications, and what clears them one after the other.              *)
(***************************************************************************)
EXTENDS Naturals

CONSTANTS
  Subjects,      \* versions of objects
  Decided,       \* of Subjects: those a Decision was made about
  Levels,        \* pairs of a scheme and a rank
  Ordinal,       \* the schemes whose ranks are an order
  People,
  Seats,         \* positions
  Areas,         \* scopes other than the TENANT
  Callers,       \* assignments that may overlap
  Evaluators,    \* evaluations, one each
  Offered,       \* bound: the rows that may be inserted
  LastDay        \* bound: days are 0..LastDay

VARIABLES
  rows,     \* of security_classification_assignments, clearance_grants,
            \* security_access_exceptions and position_occupancies
  local,    \* the assignment a request has checked
  reading,  \* what an evaluation has read, or its answer
  unseen    \* history: assignments whose check no longer held

vars == <<rows, local, reading, unseen>>

Terms == {p \in (0..LastDay) \X (0..LastDay) : p[1] <= p[2]}
Principals == People \cup Seats
Scopes == {"TENANT"} \cup Areas
Assignments == [table : {"assignments"}, subject : Subjects, level : Levels, period : Terms]
ClearanceGrants ==
  {g \in [table : {"grants"}, principal : Principals, level : Levels, lower : BOOLEAN,
          scope : Scopes, period : Terms] : g.lower => g.level[1] \in Ordinal}
Exceptions ==
  [table : {"exceptions"}, principal : Principals, subject : Subjects, level : Levels,
   period : Terms]
Occupancies == [table : {"occupancies"}, person : People, seat : Seats, period : Terms]
Rows == Assignments \cup ClearanceGrants \cup Exceptions \cup Occupancies
Idle == [does |-> "nothing"]

ClearancesAssumption ==
  /\ Offered \subseteq Rows
  /\ \A l \in Levels : l = <<l[1], l[2]>> /\ l[2] \in Nat

TypeOK ==
  /\ rows \subseteq Rows /\ unseen \subseteq rows
  /\ local \in [Callers -> {Idle} \cup Assignments]
  /\ \A e \in Evaluators : reading[e].does \in {"nothing", "evaluates", "covers", "answered"}

Init ==
  /\ rows = {} /\ unseen = {}
  /\ local = [c \in Callers |-> Idle] /\ reading = [e \in Evaluators |-> Idle]

-----------------------------------------------------------------------------
\* What is inserted.

Of(table) == {r \in rows : r.table = table}

\* Mutant: only the same level is taken for an overlap.
OverlappingLevel(a) ==
  {r \in Of("assignments") :
     /\ r.subject = a.subject /\ r.level = a.level
     /\ r.period[1] <= a.period[2] /\ a.period[1] <= r.period[2]}

Overlapping(a) ==
  {r \in Of("assignments") :
     /\ r.subject = a.subject /\ r.level[1] = a.level[1]
     /\ r.period[1] <= a.period[2] /\ a.period[1] <= r.period[2]}

ReadForAssignment(c, a) ==
  /\ local[c] = Idle /\ a.table = "assignments" /\ a \notin rows
  /\ Overlapping(a) = {}
  /\ local' = [local EXCEPT ![c] = a]
  /\ UNCHANGED <<rows, reading, unseen>>

AssignClassification(c) ==
  /\ local[c] # Idle
  /\ rows' = rows \cup {local[c]}
  /\ unseen' = IF Overlapping(local[c]) = {} THEN unseen ELSE unseen \cup {local[c]}
  /\ local' = [local EXCEPT ![c] = Idle]
  /\ UNCHANGED reading

Insert(r) == rows' = rows \cup {r} /\ UNCHANGED <<local, reading, unseen>>

GrantClearance(g) == g.table = "grants" /\ Insert(g)

CreateAccessException(x) == x.table = "exceptions" /\ x.subject \in Decided /\ Insert(x)

AssignPersonToPosition(o) == o.table = "occupancies" /\ Insert(o)

-----------------------------------------------------------------------------
\* The evaluation.

EffectiveAt(table, d) == {r \in Of(table) : r.period[1] <= d /\ d <= r.period[2]}

PrincipalsOf(p, d) == {p} \cup {o.seat : o \in {r \in EffectiveAt("occupancies", d) : r.person = p}}

\* What the rows say, read at one moment: history is made of it, no answer.
OnRecord(subject, d) == {a \in EffectiveAt("assignments", d) : a.subject = subject}

Cleared(p, a, scope, d) ==
  LET principals == PrincipalsOf(p, d) IN
    \/ \E x \in EffectiveAt("exceptions", d) :
         x.principal \in principals /\ x.subject = a.subject /\ x.level = a.level
    \/ \E g \in EffectiveAt("grants", d) :
         /\ g.principal \in principals /\ g.scope \in {"TENANT", scope}
         /\ g.level[1] = a.level[1]
         /\ g.level[2] = a.level[2] \/ (g.lower /\ g.level[2] > a.level[2])

Due(p, subject, scope, d) ==
  \A a, b \in OnRecord(subject, d) :
    Cleared(p, a, scope, d) /\ (a.level[1] = b.level[1] => a = b)

ResolvePersonPrincipals(v, p, subject, scope, day) ==
  /\ reading[v] = Idle
  /\ reading' = [reading EXCEPT ![v] =
       [does |-> "evaluates", person |-> p, subject |-> subject, scope |-> scope, at |-> day,
        as |-> PrincipalsOf(p, day),
        due |-> Due(p, subject, scope, day), known |-> OnRecord(subject, day),
        before |-> rows, levels |-> {}]]
  /\ UNCHANGED <<rows, local, unseen>>

Answered(e, allowed) ==
  [does |-> "answered", person |-> e.person, subject |-> e.subject, scope |-> e.scope, at |-> e.at,
   due |-> e.due, known |-> e.known, allowed |-> allowed, quiet |-> e.before = rows]

\* Nothing to cover is allowed; two classifications of one scheme are not.
ReadAssignments(v) ==
  /\ reading[v].does = "evaluates"
  /\ LET found == {a \in EffectiveAt("assignments", reading[v].at) : a.subject = reading[v].subject}
         ambiguous == \E a, b \in found : a # b /\ a.level[1] = b.level[1]
     IN reading' = [reading EXCEPT ![v] =
          IF found = {} \/ ambiguous THEN Answered(@, found = {}) ELSE
          [@ EXCEPT !.does = "covers", !.levels = {a.level : a \in found}]]
  /\ UNCHANGED <<rows, local, unseen>>

\* Mutant: a clearance for one rank is taken for all ranks.
CoversAll(g, level) == g.level[1] = level[1] /\ (g.level = level \/ g.lower)

ClearanceCovers(g, level) ==
  g.level[1] = level[1] /\ (g.level = level \/ (g.lower /\ level[2] <= g.level[2]))

ScopeMatches(g, scope) == g.scope = "TENANT" \/ g.scope = scope

\* The two tables gain rows only, and either may clear: they are read in one step.
EvaluateAccess(v) ==
  /\ reading[v].does = "covers"
  /\ LET grants == {g \in EffectiveAt("grants", reading[v].at) :
                      g.principal \in reading[v].as /\ ScopeMatches(g, reading[v].scope)}
         exceptions == {x \in EffectiveAt("exceptions", reading[v].at) :
                          x.principal \in reading[v].as /\ x.subject = reading[v].subject}
     IN reading' = [reading EXCEPT ![v] = Answered(@, \A level \in reading[v].levels :
          \/ \E x \in exceptions : x.level = level
          \/ \E g \in grants : ClearanceCovers(g, level))]
  /\ UNCHANGED <<rows, local, unseen>>

Next ==
  \/ \E r \in Offered : GrantClearance(r) \/ CreateAccessException(r) \/ AssignPersonToPosition(r)
  \/ \E c \in Callers :
       \/ \E r \in Offered : ReadForAssignment(c, r)
       \/ AssignClassification(c)
  \/ \E v \in Evaluators :
       \/ \E p \in People, s \in Subjects, scope \in Scopes, d \in 0..LastDay :
            ResolvePersonPrincipals(v, p, s, scope, d)
       \/ ReadAssignments(v) \/ EvaluateAccess(v)

Spec == Init /\ [][Next]_vars

-----------------------------------------------------------------------------
\* But for classifications that were checked at once, a version has one
\* classification of a scheme on each day.  Whoever is allowed access is cleared
\* for every classification that was on record when the evaluation began, however
\* many rows were inserted while it went on; and one that nothing came between
\* allows exactly what the rows do.
ClearancesHonest ==
  /\ \A a, b \in Of("assignments") \ unseen :
       /\ a.subject = b.subject /\ a.level[1] = b.level[1]
       /\ a.period[1] <= b.period[2] /\ b.period[1] <= a.period[2]
       => a = b
  /\ \A v \in Evaluators : reading[v].does = "answered" =>
       LET e == reading[v] IN
         /\ e.allowed => \A a \in e.known : Cleared(e.person, a, e.scope, e.at)
         /\ e.quiet => e.allowed = e.due
=============================================================================
