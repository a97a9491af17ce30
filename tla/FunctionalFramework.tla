-------------------------- MODULE FunctionalFramework --------------------------
(***************************************************************************)
(* Two rules of the functional framework                                   *)
(* (packages/persistence/src/functional-repository.ts): a function has one *)
(* PUBLISHED governance version, and the capacities allocated to one       *)
(* deployment assignment never exceed 100 percent on any day.              *)
(*                                                                         *)
(* Both are checked by a plain SELECT in the transaction that then writes: *)
(* what another transaction commits in between is not seen.  local[c] is   *)
(* what a caller's transaction has read.  A version being published is     *)
(* locked, the others are not.                                             *)
(***************************************************************************)
EXTENDS Naturals, FiniteSets, Sequences

CONSTANTS
  Versions,         \* governance versions of one function
  Callers,          \* transactions that may overlap
  MaxAllocations,   \* bound: capacities of the one deployment assignment
  LastDay,          \* bound: days are 1..LastDay, an open end is LastDay + 1
  Percents          \* percentages that are asked for

FrameworkAssumption == Percents \subseteq Nat /\ LastDay \in Nat

VARIABLES
  governance,    \* status of each version
  capacity,      \* the rows [percent, from, to, unseen], in the order of insertion
  local,         \* the command of a caller and what it has read
  unseen         \* history: versions published, and in capacity rows inserted, on
                 \* the strength of a SELECT that was out of date

vars == <<governance, capacity, local, unseen>>

Days == 1..LastDay
Idle == [for |-> "nothing"]
Periods == {p \in Days \X (1..LastDay + 1) : p[1] <= p[2]}
Published == {v \in Versions : governance[v] = "PUBLISHED"}
Rows == 1..Len(capacity)

TypeOK ==
  /\ governance \in [Versions -> {"NONE", "DRAFT", "PUBLISHED", "RETIRED"}]
  /\ \A a \in Rows :
       /\ capacity[a].percent \in Percents /\ capacity[a].unseen \in BOOLEAN
       /\ <<capacity[a].from, capacity[a].to>> \in Periods
  /\ \A c \in Callers : local[c].for \in {"nothing", "publish", "allocate"}
  /\ unseen \subseteq Versions

Init ==
  /\ governance = [v \in Versions |-> "NONE"]
  /\ capacity = <<>>
  /\ local = [c \in Callers |-> Idle]
  /\ unseen = {}

-----------------------------------------------------------------------------
\* Governance versions.

CreateGovernanceVersion(v) ==
  /\ governance[v] = "NONE" /\ governance' = [governance EXCEPT ![v] = "DRAFT"]
  /\ UNCHANGED <<capacity, local, unseen>>

Locked(v) == \E c \in Callers : local[c].for = "publish" /\ local[c].version = v

OthersPublished(v) == Published \ {v}

\* Locks the version and counts the others that are published.
BeginPublish(c, v) ==
  /\ local[c] = Idle /\ governance[v] = "DRAFT" /\ ~Locked(v)
  /\ OthersPublished(v) = {}
  /\ local' = [local EXCEPT ![c] = [for |-> "publish", version |-> v, unseen |-> FALSE]]
  /\ UNCHANGED <<governance, capacity, unseen>>

\* The transactions that have counted have not seen the new status.
PublishGovernanceVersion(c) ==
  /\ local[c].for = "publish"
  /\ governance' = [governance EXCEPT ![local[c].version] = "PUBLISHED"]
  /\ unseen' = IF local[c].unseen THEN unseen \cup {local[c].version} ELSE unseen
  /\ local' = [d \in Callers |->
                 IF d = c THEN Idle
                 ELSE IF local[d].for = "publish" THEN [local[d] EXCEPT !.unseen = TRUE]
                 ELSE local[d]]
  /\ UNCHANGED capacity

RetireGovernanceVersion(v) ==
  /\ governance[v] = "PUBLISHED"
  /\ governance' = [governance EXCEPT ![v] = "RETIRED"]
  /\ UNCHANGED <<capacity, local, unseen>>

-----------------------------------------------------------------------------
\* Capacity.

\* Mutant: an allocation that ends on the first day does not overlap.
OverlapsStrictly(a, from, to) ==
  capacity[a].to > from /\ (to = LastDay + 1 \/ capacity[a].from <= to)

\* The WHERE clause: the end of a period is part of it, and may be open.
Overlaps(a, from, to) ==
  capacity[a].to >= from /\ (to = LastDay + 1 \/ capacity[a].from <= to)

\* The sum, counted as the points of each row.
Total(S) == Cardinality(UNION {{a} \X (1..capacity[a].percent) : a \in S})

\* The SELECT: all that overlaps the period anywhere is added up.
BeginAllocate(c, percent, from, to) ==
  /\ local[c] = Idle
  /\ Total({a \in Rows : Overlaps(a, from, to)}) + percent <= 100
  /\ local' = [local EXCEPT ![c] =
       [for |-> "allocate", row |-> [percent |-> percent, from |-> from, to |-> to, unseen |-> FALSE]]]
  /\ UNCHANGED <<governance, capacity, unseen>>

\* The transactions that have made their SELECT have not seen the new row.
CreateDeploymentCapacity(c) ==
  /\ local[c].for = "allocate" /\ Len(capacity) < MaxAllocations
  /\ capacity' = Append(capacity, local[c].row)
  /\ local' = [d \in Callers |->
                 IF d = c THEN Idle
                 ELSE IF local[d].for = "allocate" THEN [local[d] EXCEPT !.row.unseen = TRUE]
                 ELSE local[d]]
  /\ UNCHANGED <<governance, unseen>>

Next ==
  \/ \E v \in Versions :
       \/ CreateGovernanceVersion(v) \/ RetireGovernanceVersion(v)
       \/ \E c \in Callers : BeginPublish(c, v)
  \/ \E c \in Callers :
       \/ PublishGovernanceVersion(c) \/ CreateDeploymentCapacity(c)
       \/ \E p \in Percents, d \in Periods : BeginAllocate(c, p, d[1], d[2])

Spec == Init /\ [][Next]_vars

-----------------------------------------------------------------------------
InForce(day) == {a \in Rows : capacity[a].from <= day /\ day <= capacity[a].to}

\* Apart from what two overlapping transactions wrote without seeing each other,
\* one version is published, and on every day, the last of one period and the
\* first of another and the days of open ends included, the capacities in force
\* add up to at most 100.
LimitsKept ==
  /\ Cardinality(Published \ unseen) <= 1
  /\ \A day \in 1..LastDay + 1 : Total({a \in InForce(day) : ~capacity[a].unseen}) <= 100
=============================================================================
