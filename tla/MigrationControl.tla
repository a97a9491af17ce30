--------------------------- MODULE MigrationControl ---------------------------
(***************************************************************************)
(* A data migration programme: one plan with its mapping, runs, item       *)
(* results, conflicts, reconciliation runs and the cutover                 *)
(* (packages/persistence/src/migration-repository.ts, with the rules of    *)
(* packages/kernel/src/migration-factories.ts).                            *)
(*                                                                         *)
(* The create and record operations check what they depend on through the  *)
(* pool and INSERT in a transaction of their own that checks nothing:      *)
(* pending holds what has been checked and is still to be inserted.  The   *)
(* completion of a reconciliation counts the conflicts before it locks the *)
(* run: it is pending between the two.                                     *)
(***************************************************************************)
EXTENDS Naturals, FiniteSets

CONSTANTS
  Runs, Items, Conflicts, Reconciliations,   \* identifiers of the rows of each table
  MaxPending                                 \* bound: operations that overlap

VARIABLES
  plan,              \* status of the plan
  mapping,           \* status of its mapping version
  run,               \* run -> [type, status]
  item,              \* item -> [run, outcome]
  conflict,          \* conflict -> [run, item, severity, status]
  reconciliation,    \* reconciliation run -> [run, status, evidence]
  cutover,           \* run -> outcome of the cutover decision about it
  pending,           \* operations between their check and their write
  late               \* history: rows inserted when their check no longer held

vars == <<plan, mapping, run, item, conflict, reconciliation, cutover, pending, late>>

NoRow == [status |-> "NONE"]
Exists(row) == row.status # "NONE"
Loaded == {"AWAITING_RECONCILIATION", "BLOCKED"}
HoldsGuard(r) ==
  Exists(run[r]) /\ run[r].type = "PRODUCTION"
    /\ run[r].status \in {"QUEUED", "RUNNING", "AWAITING_RECONCILIATION"}

TypeOK ==
  /\ plan \in {"DRAFT", "APPROVED", "ACTIVE", "COMPLETED"}
  /\ mapping \in {"NONE", "DRAFT", "FROZEN"}
  /\ \A r \in Runs : run[r].status \in
       {"NONE", "QUEUED", "RUNNING", "AWAITING_RECONCILIATION", "BLOCKED", "RECONCILED"}
  /\ \A i \in Items : item[i].status \in {"NONE", "LOADED", "FAILED"}
  /\ \A k \in Conflicts : conflict[k].status \in {"NONE", "OPEN", "DISPOSITIONED"}
  /\ \A q \in Reconciliations :
       reconciliation[q].status \in {"NONE", "RUNNING", "VERIFIED", "CONFLICT"}
  /\ cutover \in [Runs -> {"NONE", "APPROVED", "REJECTED"}]
  /\ plan = "COMPLETED" <=> \E r \in Runs : cutover[r] = "APPROVED"
  /\ Cardinality(pending) <= MaxPending
  /\ late \subseteq Items \cup Conflicts \cup Reconciliations

Init ==
  /\ plan = "DRAFT" /\ mapping = "NONE"
  /\ run = [r \in Runs |-> NoRow] /\ item = [i \in Items |-> NoRow]
  /\ conflict = [k \in Conflicts |-> NoRow]
  /\ reconciliation = [q \in Reconciliations |-> NoRow]
  /\ cutover = [r \in Runs |-> "NONE"]
  /\ pending = {} /\ late = {}

\* The check of an operation; its write comes later.
Checked(op) ==
  /\ Cardinality(pending) < MaxPending
  /\ \A other \in pending : <<other.does, other.id>> # <<op.does, op.id>>
  /\ pending' = pending \cup {op}
  /\ UNCHANGED <<plan, mapping, run, item, conflict, reconciliation, cutover, late>>

\* The write of an operation whose row is on time if `ok' still holds.
Written(op, ok) ==
  /\ pending' = pending \ {op}
  /\ late' = IF ok THEN late ELSE late \cup {op.id}

-----------------------------------------------------------------------------
\* Plan and mapping.

ApprovePlan ==
  /\ plan = "DRAFT" /\ plan' = "APPROVED"
  /\ UNCHANGED <<mapping, run, item, conflict, reconciliation, cutover, pending, late>>

CreateMapping ==
  /\ mapping = "NONE" /\ plan \in {"DRAFT", "APPROVED"} /\ mapping' = "DRAFT"
  /\ UNCHANGED <<plan, run, item, conflict, reconciliation, cutover, pending, late>>

FreezeMapping ==
  /\ mapping = "DRAFT" /\ mapping' = "FROZEN"
  /\ UNCHANGED <<plan, run, item, conflict, reconciliation, cutover, pending, late>>

-----------------------------------------------------------------------------
\* Runs, items and conflicts.

ReadForRun(r, type) ==
  /\ ~Exists(run[r]) /\ plan \in {"APPROVED", "ACTIVE"} /\ mapping = "FROZEN"
  /\ Checked([does |-> "createRun", id |-> r, type |-> type])

\* The unique active_production_guard_key: one active production run for a plan.
CreateRun(op) ==
  /\ op.does = "createRun"
  /\ pending' = pending \ {op}
  /\ run' = IF op.type = "PRODUCTION" /\ \E r \in Runs : HoldsGuard(r) THEN run
            ELSE [run EXCEPT ![op.id] = [type |-> op.type, status |-> "QUEUED"]]
  /\ UNCHANGED <<plan, mapping, item, conflict, reconciliation, cutover, late>>

\* Locks the run, then the plan, which becomes active.
StartRun(r) ==
  /\ run[r].status = "QUEUED" /\ plan \in {"APPROVED", "ACTIVE"}
  /\ run' = [run EXCEPT ![r].status = "RUNNING"] /\ plan' = "ACTIVE"
  /\ UNCHANGED <<mapping, item, conflict, reconciliation, cutover, pending, late>>

\* A loaded item names its target and its external identity.
ReadForItem(i, r, outcome) ==
  /\ ~Exists(item[i]) /\ run[r].status = "RUNNING"
  /\ Checked([does |-> "recordItem", id |-> i, run |-> r, outcome |-> outcome])

RecordItem(op) ==
  /\ op.does = "recordItem"
  /\ item' = [item EXCEPT ![op.id] = [run |-> op.run, status |-> op.outcome]]
  /\ Written(op, run[op.run].status = "RUNNING")
  /\ UNCHANGED <<plan, mapping, run, conflict, reconciliation, cutover>>

ItemsOf(r) == {i \in Items : Exists(item[i]) /\ item[i].run = r}
Failed(r) == {i \in ItemsOf(r) : item[i].status = "FAILED"}

\* i is an item of the run, or none.
ReadForConflict(k, r, i, severity) ==
  /\ ~Exists(conflict[k]) /\ run[r].status \in Loaded \cup {"RUNNING"}
  /\ i \in ItemsOf(r) \cup {"none"}
  /\ Checked([does |-> "createConflict", id |-> k, run |-> r, item |-> i, severity |-> severity])

Completing == {op.id : op \in {o \in pending : o.does = "complete"}}
Counting(r) == \E q \in Completing : reconciliation[q].run = r

CreateConflict(op) ==
  /\ op.does = "createConflict"
  /\ conflict' = [conflict EXCEPT ![op.id] =
       [run |-> op.run, item |-> op.item, severity |-> op.severity, status |-> "OPEN"]]
  /\ Written(op, run[op.run].status \in Loaded \cup {"RUNNING"} /\ ~Counting(op.run))
  /\ UNCHANGED <<plan, mapping, run, item, reconciliation, cutover>>

\* A RETRY names another run of the plan, which need not have done anything.
DispositionConflict(k) ==
  /\ conflict[k].status = "OPEN"
  /\ conflict' = [conflict EXCEPT ![k].status = "DISPOSITIONED"]
  /\ UNCHANGED <<plan, mapping, run, item, reconciliation, cutover, pending, late>>

\* Locks the run and its items.
CompleteLoad(r) ==
  /\ run[r].status = "RUNNING" /\ ItemsOf(r) # {}
  /\ run' = [run EXCEPT ![r].status = IF Failed(r) # {} THEN "BLOCKED" ELSE "AWAITING_RECONCILIATION"]
  /\ UNCHANGED <<plan, mapping, item, conflict, reconciliation, cutover, pending, late>>

-----------------------------------------------------------------------------
\* Reconciliation.

Tracked(i) == \E k \in Conflicts : Exists(conflict[k]) /\ conflict[k].item = i

ReadForReconciliation(q, r) ==
  /\ ~Exists(reconciliation[q]) /\ run[r].status \in Loaded
  /\ \A i \in Failed(r) : Tracked(i)
  /\ Checked([does |-> "startReconciliation", id |-> q, run |-> r])

StartReconciliationRun(op) ==
  /\ op.does = "startReconciliation"
  /\ reconciliation' = [reconciliation EXCEPT ![op.id] =
       [run |-> op.run, status |-> "RUNNING", evidence |-> {}]]
  /\ Written(op, TRUE)
  /\ UNCHANGED <<plan, mapping, run, item, conflict, cutover>>

\* The evidence names the identity and the target of an item of the very run.
ReadForEvidence(q, status) ==
  /\ reconciliation[q].status = "RUNNING"
  /\ \E i \in ItemsOf(reconciliation[q].run) : item[i].status = "LOADED"
  /\ Checked([does |-> "recordEvidence", id |-> q, status |-> status])

\* Waits for a completion, which has locked the evidence.
RecordReconciliation(op) ==
  /\ op.does = "recordEvidence" /\ op.id \notin Completing
  /\ reconciliation' = [reconciliation EXCEPT ![op.id].evidence = @ \cup {op.status}]
  /\ Written(op, reconciliation[op.id].status = "RUNNING")
  /\ UNCHANGED <<plan, mapping, run, item, conflict, cutover>>

\* Mutant: conflicts that were never looked at do not count.
NoneBlocking(r) == {}

OpenBlocking(r) ==
  {k \in Conflicts : /\ conflict[k].status = "OPEN"
                     /\ conflict[k].run = r /\ conflict[k].severity = "BLOCKING"}

\* Locks the reconciliation run with its evidence and counts the conflicts.
BeginComplete(q) ==
  /\ reconciliation[q].status = "RUNNING" /\ reconciliation[q].evidence # {}
  /\ Checked([does |-> "complete", id |-> q,
              verified |-> /\ reconciliation[q].evidence = {"VERIFIED"}
                           /\ OpenBlocking(reconciliation[q].run) = {}])

\* The run must still be awaiting it or blocked: everything is rolled back otherwise.
CompleteReconciliationRun(op) ==
  LET r == reconciliation[op.id].run
  IN  /\ op.does = "complete"
      /\ pending' = pending \ {op}
      /\ IF run[r].status \in Loaded
         THEN /\ reconciliation' = [reconciliation EXCEPT ![op.id].status =
                                      IF op.verified THEN "VERIFIED" ELSE "CONFLICT"]
              /\ run' = [run EXCEPT ![r].status = IF op.verified THEN "RECONCILED" ELSE "BLOCKED"]
         ELSE UNCHANGED <<reconciliation, run>>
      /\ UNCHANGED <<plan, mapping, item, conflict, cutover, late>>

-----------------------------------------------------------------------------
\* Cutover.

OthersActive(r) == {s \in Runs \ {r} : HoldsGuard(s)}

PlanAfter(outcome) == IF outcome = "APPROVED" THEN "COMPLETED" ELSE plan

\* Locks the plan.  One decision for a run; the reconciliation may be any
\* VERIFIED one.
RecordCutover(r, outcome) ==
  /\ plan = "ACTIVE" /\ cutover[r] = "NONE"
  /\ run[r].status = "RECONCILED" /\ run[r].type = "PRODUCTION"
  /\ \E q \in Reconciliations : reconciliation[q].status = "VERIFIED"
  /\ OthersActive(r) = {}
  /\ cutover' = [cutover EXCEPT ![r] = outcome]
  /\ plan' = PlanAfter(outcome)
  /\ UNCHANGED <<mapping, run, item, conflict, reconciliation, pending, late>>

Check ==
  \/ \E r \in Runs, type \in {"REHEARSAL", "PRODUCTION"} : ReadForRun(r, type)
  \/ \E r \in Runs, i \in Items, outcome \in {"LOADED", "FAILED"} : ReadForItem(i, r, outcome)
  \/ \E r \in Runs, k \in Conflicts, i \in Items \cup {"none"}, s \in {"WARNING", "BLOCKING"} :
       ReadForConflict(k, r, i, s)
  \/ \E q \in Reconciliations :
       \/ \E r \in Runs : ReadForReconciliation(q, r)
       \/ \E status \in {"VERIFIED", "MISSING"} : ReadForEvidence(q, status)
       \/ BeginComplete(q)

Write == \E op \in pending :
  \/ CreateRun(op) \/ RecordItem(op) \/ CreateConflict(op) \/ StartReconciliationRun(op)
  \/ RecordReconciliation(op) \/ CompleteReconciliationRun(op)

Next ==
  \/ ApprovePlan \/ CreateMapping \/ FreezeMapping \/ Check \/ Write
  \/ \E r \in Runs :
       \/ StartRun(r) \/ CompleteLoad(r)
       \/ \E outcome \in {"APPROVED", "REJECTED"} : RecordCutover(r, outcome)
  \/ \E k \in Conflicts : DispositionConflict(k)

Spec == Init /\ [][Next]_vars

-----------------------------------------------------------------------------
\* A run is RECONCILED on the strength of a reconciliation of its own whose
\* evidence is all VERIFIED; it has no open blocking conflict, and a conflict was
\* recorded for each of its failed items.  Rows whose check no longer held when
\* they were inserted are the only exception.
ReconciledIsClean ==
  \A r \in Runs : run[r].status = "RECONCILED" =>
    /\ \E q \in Reconciliations :
         /\ reconciliation[q].status = "VERIFIED" /\ reconciliation[q].run = r
         /\ q \notin late => reconciliation[q].evidence = {"VERIFIED"}
    /\ \A k \in Conflicts \ late :
         (conflict[k].status = "OPEN" /\ conflict[k].run = r) => conflict[k].severity = "WARNING"
    /\ \A i \in Failed(r) \ late : Tracked(i)
=============================================================================
