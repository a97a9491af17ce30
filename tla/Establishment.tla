---------------------------- MODULE Establishment ----------------------------
(***************************************************************************)
(* Who is employed, which position does what, who occupies it and to whom  *)
(* it reports (packages/persistence/src/hcm-command-service.ts, and        *)
(* organisation-command-service.ts for occupancies without an employment). *)
(*                                                                         *)
(* Every row has a period and is never changed.  A command is one          *)
(* transaction that counts the rows its own would conflict with, by plain  *)
(* SELECTs, and inserts: local[c] is a row that was checked and is not yet *)
(* committed, and two transactions do not see each other's.                *)
(***************************************************************************)
EXTENDS Naturals, FiniteSets

CONSTANTS
  Persons,
  Positions,    \* approved positions
  Functions,    \* active functions
  Callers,      \* commands that may overlap
  Kinds,        \* of reporting lines, LINE_MANAGER among them
  Periods,      \* pairs of a first and a last day
  Open,         \* the last day of a period without an end
  MaxRows       \* bound: rows in all tables

EstablishmentAssumption == Periods \subseteq Nat \X Nat

VARIABLES
  rows,     \* of employments, position_function_assignments, position_occupancies
            \* and position_reporting_lines
  local,    \* the row a transaction is about to insert
  unseen    \* history: rows whose check no longer held when they were inserted

vars == <<rows, local, unseen>>

Employments ==
  [table : {"employments"}, person : Persons, primary : BOOLEAN, period : Periods]
Deployments ==
  [table : {"functions"}, position : Positions, function : Functions, primary : BOOLEAN,
   period : Periods]
Occupancies ==
  [table : {"occupancies"}, position : Positions, person : Persons, primary : BOOLEAN,
   employed : BOOLEAN, period : Periods]
Lines ==
  [table : {"lines"}, subordinate : Positions, manager : Positions, kind : Kinds,
   period : Periods]
Rows == Employments \cup Deployments \cup Occupancies \cup Lines
Idle == [table |-> "none"]

TypeOK ==
  /\ rows \subseteq Rows /\ unseen \subseteq rows
  /\ local \in [Callers -> Rows \cup {Idle}]

Init == rows = {} /\ local = [c \in Callers |-> Idle] /\ unseen = {}

-----------------------------------------------------------------------------
\* What the commands count.

\* The rows of a table that a period overlaps anywhere.
During(table, p) ==
  {r \in rows : r.table = table /\ r.period[1] <= p[2] /\ p[1] <= r.period[2]}

EmploymentFits(e) ==
  e.primary => ~\E r \in During("employments", e.period) : r.primary /\ r.person = e.person

DeploymentFits(d) ==
  d.primary => ~\E r \in During("functions", d.period) : r.primary /\ r.position = d.position

\* The position starts within an employment; one that ends must end within it, and
\* one without an end need not.
EmployedFits(o) ==
  /\ \E e \in rows :
       /\ e.table = "employments" /\ e.person = o.person
       /\ e.period[1] <= o.period[1] /\ o.period[1] <= e.period[2]
       /\ o.period[2] # Open => o.period[2] <= e.period[2]
  /\ o.primary => ~\E r \in During("occupancies", o.period) : r.primary /\ r.person = o.person

\* An occupancy the organisation enters is without an end, and the position must
\* be vacant on its first day (SINGLE incumbency).
VacantFits(o) ==
  /\ ~\E r \in During("occupancies", o.period) : r.position = o.position /\ r.person = o.person
  /\ ~\E r \in During("occupancies", <<o.period[1], o.period[1]>>) : r.position = o.position

ManagerKinds == {"LINE_MANAGER", "FUNCTIONAL_MANAGER"}
Above(lines, m) ==
  {q \in Positions :
     \A S \in SUBSET Positions :
       m \in S /\ (\A l \in lines : l.subordinate \in S => l.manager \in S) => q \in S}

\* Mutant: the chain is followed over line managers only.
ChainByLine(p) == {l \in During("lines", p) : l.kind = "LINE_MANAGER"}

\* The lines manager_chain follows, of any day of the period.
Chain(p) == {l \in During("lines", p) : l.kind \in ManagerKinds}

\* On a cycle the recursion would not end, and the database refuses the query.
Ends(lines, m) ==
  \A l \in lines : l.subordinate \in Above(lines, m) => l.subordinate \notin Above(lines, l.manager)

LineFits(l) ==
  /\ l.kind = "LINE_MANAGER" =>
       ~\E r \in During("lines", l.period) :
          r.kind = "LINE_MANAGER" /\ r.subordinate = l.subordinate
  /\ Ends(Chain(l.period), l.manager)
  /\ l.subordinate \notin Above(Chain(l.period), l.manager)

Fits(r) ==
  CASE r.table = "employments" -> EmploymentFits(r)
    [] r.table = "functions" -> DeploymentFits(r)
    [] r.table = "occupancies" -> IF r.employed THEN EmployedFits(r) ELSE VacantFits(r)
    [] r.table = "lines" -> LineFits(r)

-----------------------------------------------------------------------------
\* The commands, up to their INSERT.

Begin(c, r) ==
  /\ local[c] = Idle /\ Cardinality(rows) + Cardinality({d \in Callers : local[d] # Idle}) < MaxRows
  /\ r \notin rows /\ Fits(r)
  /\ local' = [local EXCEPT ![c] = r]
  /\ UNCHANGED <<rows, unseen>>

CreateEmployment(c, p, primary, period) ==
  Begin(c, [table |-> "employments", person |-> p, primary |-> primary, period |-> period])

AssignPositionToFunction(c, q, f, primary, period) ==
  Begin(c, [table |-> "functions", position |-> q, function |-> f, primary |-> primary,
            period |-> period])

AssignEmploymentToPosition(c, q, p, primary, period) ==
  Begin(c, [table |-> "occupancies", position |-> q, person |-> p, primary |-> primary,
            employed |-> TRUE, period |-> period])

\* The column is_primary is left to its default.
AssignPersonToPosition(c, q, p, period) ==
  /\ period[2] = Open
  /\ Begin(c, [table |-> "occupancies", position |-> q, person |-> p, primary |-> TRUE,
               employed |-> FALSE, period |-> period])

SetReportingLine(c, s, m, kind, period) ==
  /\ s # m
  /\ Begin(c, [table |-> "lines", subordinate |-> s, manager |-> m, kind |-> kind,
               period |-> period])

Commit(c) ==
  /\ local[c] # Idle /\ rows' = rows \cup {local[c]}
  /\ unseen' = IF Fits(local[c]) THEN unseen ELSE unseen \cup {local[c]}
  /\ local' = [local EXCEPT ![c] = Idle]

Next ==
  \E c \in Callers :
    \/ \E period \in Periods :
         \/ \E p \in Persons, primary \in BOOLEAN :
              \/ CreateEmployment(c, p, primary, period)
              \/ \E q \in Positions : AssignEmploymentToPosition(c, q, p, primary, period)
         \/ \E p \in Persons, q \in Positions : AssignPersonToPosition(c, q, p, period)
         \/ \E q \in Positions, f \in Functions, primary \in BOOLEAN :
              AssignPositionToFunction(c, q, f, primary, period)
         \/ \E s, m \in Positions, kind \in Kinds : SetReportingLine(c, s, m, kind, period)
    \/ Commit(c)

Spec == Init /\ [][Next]_vars

-----------------------------------------------------------------------------
Days == UNION {p[1]..p[2] : p \in Periods}
On(table, day) ==
  {r \in rows \ unseen : r.table = table /\ r.period[1] <= day /\ day <= r.period[2]}
OneOf(S, key(_)) == \A r, s \in S : key(r) = key(s) => r = s

\* On every day a person has one primary employment and, of those entered through
\* employments, one primary position; a position has one primary function and one
\* line manager; and nobody manages themselves, through however many line and
\* functional managers.  All this as far as what two commands inserted at once is
\* left aside.
EstablishmentSound ==
  \A day \in Days :
    /\ OneOf({r \in On("employments", day) : r.primary}, LAMBDA r : r.person)
    /\ OneOf({r \in On("occupancies", day) : r.primary /\ r.employed}, LAMBDA r : r.person)
    /\ OneOf({r \in On("functions", day) : r.primary}, LAMBDA r : r.position)
    /\ OneOf({r \in On("lines", day) : r.kind = "LINE_MANAGER"}, LAMBDA r : r.subordinate)
    /\ LET lines == {r \in On("lines", day) : r.kind \in ManagerKinds} IN
         \A l \in lines : l.subordinate \notin Above(lines, l.manager)
=============================================================================
