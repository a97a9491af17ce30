---------------------------- MODULE WorkExecution ----------------------------
(***************************************************************************)
(* Workflows and their work (packages/persistence/src/work-repository.ts,  *)
(* packages/kernel/src/work-factories.ts): versions of a workflow          *)
(* definition, the workflows started on them, their work items and the     *)
(* assignments and completion evidence of an item.                         *)
(*                                                                         *)
(* startWorkflow and createWorkItem read the row they depend on through    *)
(* the pool and insert later; assignWork reads the workflow in its         *)
(* transaction, without a lock, before it locks the item.  local[c] is     *)
(* what a caller has read.  Priorities are left out.                       *)
(***************************************************************************)
EXTENDS Naturals

CONSTANTS
  DefinitionVersions,
  Workflows,
  WorkItems,
  Callers          \* requests that may overlap

VARIABLES
  version,     \* status of each definition version
  workflow,    \* [on, status] of each workflow; status "NONE" before it is started
  item,        \* [in, status] of each item; status "NONE" before it is created
  assigned,    \* the items that have been assigned
  evidence,    \* the items with completion evidence
  late,        \* history: items created in a workflow that was already closed
  local        \* what a caller has read

vars == <<version, workflow, item, assigned, evidence, late, local>>

Idle == [for |-> "nothing"]
Closed == {"COMPLETED", "CANCELLED"}
Started == {w \in Workflows : workflow[w].status # "NONE"}
Created == {i \in WorkItems : item[i].status # "NONE"}
ItemsOf(w) == {i \in Created : item[i].in = w}
Open(i) == item[i].status \notin Closed

TypeOK ==
  /\ version \in [DefinitionVersions -> {"DRAFT", "PUBLISHED", "RETIRED"}]
  /\ \A w \in Workflows :
       /\ workflow[w].status \in {"NONE", "ACTIVE"} \cup Closed
       /\ w \in Started => workflow[w].on \in DefinitionVersions
  /\ \A i \in WorkItems :
       /\ item[i].status \in {"NONE", "READY", "ASSIGNED", "IN_PROGRESS", "BLOCKED"} \cup Closed
       /\ i \in Created => item[i].in \in Started
  /\ assigned \subseteq Created /\ evidence \subseteq Created /\ late \subseteq Created
  /\ \A c \in Callers : local[c].for \in {"nothing", "workflow", "item", "assignment"}

Init ==
  /\ version = [v \in DefinitionVersions |-> "DRAFT"]
  /\ workflow = [w \in Workflows |-> [status |-> "NONE"]]
  /\ item = [i \in WorkItems |-> [status |-> "NONE"]]
  /\ assigned = {} /\ evidence = {} /\ late = {}
  /\ local = [c \in Callers |-> Idle]

Read(c, what) ==
  /\ local[c] = Idle /\ local' = [local EXCEPT ![c] = what]
  /\ UNCHANGED <<version, workflow, item, assigned, evidence, late>>

Finish(c) == local' = [local EXCEPT ![c] = Idle]

-----------------------------------------------------------------------------
\* Definition versions and workflows.

PublishVersion(v) ==
  /\ version[v] = "DRAFT" /\ version' = [version EXCEPT ![v] = "PUBLISHED"]
  /\ UNCHANGED <<workflow, item, assigned, evidence, late, local>>

RetireVersion(v) ==
  /\ version[v] = "PUBLISHED" /\ version' = [version EXCEPT ![v] = "RETIRED"]
  /\ UNCHANGED <<workflow, item, assigned, evidence, late, local>>

\* createWorkflowInstance, on what the pool returned.
ReadVersion(c, v) ==
  /\ version[v] = "PUBLISHED"
  /\ Read(c, [for |-> "workflow", on |-> v])

StartWorkflow(c, w) ==
  /\ local[c].for = "workflow" /\ w \notin Started
  /\ workflow' = [workflow EXCEPT ![w] = [on |-> local[c].on, status |-> "ACTIVE"]]
  /\ Finish(c)
  /\ UNCHANGED <<version, item, assigned, evidence, late>>

\* Mutant: blocked work does not count.
OpenWorkUnblocked(w) == {i \in ItemsOf(w) : Open(i) /\ item[i].status # "BLOCKED"}

OpenWork(w) == {i \in ItemsOf(w) : Open(i)}

CompleteWorkflow(w) ==
  /\ workflow[w].status = "ACTIVE" /\ OpenWork(w) = {}
  /\ workflow' = [workflow EXCEPT ![w].status = "COMPLETED"]
  /\ UNCHANGED <<version, item, assigned, evidence, late, local>>

\* Cancels the open items with it.
CancelWorkflow(w) ==
  /\ workflow[w].status = "ACTIVE"
  /\ workflow' = [workflow EXCEPT ![w].status = "CANCELLED"]
  /\ item' = [i \in WorkItems |->
                IF i \in OpenWork(w) THEN [item[i] EXCEPT !.status = "CANCELLED"] ELSE item[i]]
  /\ UNCHANGED <<version, assigned, evidence, late, local>>

-----------------------------------------------------------------------------
\* Work items.

\* createWorkItem, on what the pool returned.
ReadWorkflow(c, w) ==
  /\ workflow[w].status = "ACTIVE"
  /\ Read(c, [for |-> "item", in |-> w])

\* The INSERT does not look at the workflow again.
CreateWorkItem(c, i) ==
  /\ local[c].for = "item" /\ i \notin Created
  /\ item' = [item EXCEPT ![i] = [in |-> local[c].in, status |-> "READY"]]
  /\ late' = IF workflow[local[c].in].status \in Closed THEN late \cup {i} ELSE late
  /\ Finish(c)
  /\ UNCHANGED <<version, workflow, assigned, evidence>>

\* assignWork: the workflow is read first, without a lock.
ReadForAssignment(c, i) ==
  /\ i \in Created /\ workflow[item[i].in].status = "ACTIVE"
  /\ Read(c, [for |-> "assignment", of |-> i])

\* The locked item is read afresh.
Assignable(i) == Open(i)

AssignWork(c) ==
  /\ local[c].for = "assignment"
  /\ LET i == local[c].of
     IN IF Assignable(i)
        THEN /\ assigned' = assigned \cup {i}
             /\ item' = IF item[i].status = "READY"
                        THEN [item EXCEPT ![i].status = "ASSIGNED"] ELSE item
        ELSE UNCHANGED <<assigned, item>>
  /\ Finish(c)
  /\ UNCHANGED <<version, workflow, evidence, late>>

\* A transition of one item, whatever the status of its workflow.
Transition(i, From, to) ==
  /\ item[i].status \in From
  /\ item' = [item EXCEPT ![i].status = to]
  /\ UNCHANGED <<version, workflow, assigned, evidence, late, local>>

StartWorkItem(i) == Transition(i, {"READY", "ASSIGNED"}, "IN_PROGRESS")
BlockWorkItem(i) == Transition(i, {"READY", "ASSIGNED", "IN_PROGRESS"}, "BLOCKED")
ResumeWorkItem(i) == Transition(i, {"BLOCKED"}, "IN_PROGRESS")
CompleteWorkItem(i) == Transition(i, {"ASSIGNED", "IN_PROGRESS"}, "COMPLETED")
CancelWorkItem(i) ==
  Transition(i, {"READY", "ASSIGNED", "IN_PROGRESS", "BLOCKED"}, "CANCELLED")

LinkCompletionEvidence(i) ==
  /\ item[i].status = "COMPLETED" /\ evidence' = evidence \cup {i}
  /\ UNCHANGED <<version, workflow, item, assigned, late, local>>

Next ==
  \/ \E v \in DefinitionVersions : PublishVersion(v) \/ RetireVersion(v)
  \/ \E c \in Callers :
       \/ \E v \in DefinitionVersions : ReadVersion(c, v)
       \/ \E w \in Workflows : StartWorkflow(c, w) \/ ReadWorkflow(c, w)
       \/ \E i \in WorkItems : CreateWorkItem(c, i) \/ ReadForAssignment(c, i)
       \/ AssignWork(c)
  \/ \E w \in Workflows : CompleteWorkflow(w) \/ CancelWorkflow(w)
  \/ \E i \in WorkItems :
       \/ StartWorkItem(i) \/ BlockWorkItem(i) \/ ResumeWorkItem(i)
       \/ CompleteWorkItem(i) \/ CancelWorkItem(i) \/ LinkCompletionEvidence(i)

Spec == Init /\ [][Next]_vars

-----------------------------------------------------------------------------
\* A workflow closes with its work: what is open in a closed workflow was
\* created too late, by a request that had read it while it was active, and
\* nobody is assigned to it; evidence of completion is of completed work.
ClosedIsDone ==
  /\ \A w \in Started : workflow[w].status \in Closed => OpenWork(w) \subseteq late \ assigned
  /\ \A i \in evidence : item[i].status = "COMPLETED"
=============================================================================
