--------------------------- MODULE ServiceDelivery ---------------------------
(***************************************************************************)
(* A service order in the field                                            *)
(* (packages/persistence/src/service-delivery-repository.ts,               *)
(* packages/kernel/src/service-delivery-factories.ts): its assignments,    *)
(* the execution records of it, and how both move the order on.            *)
(*                                                                         *)
(* createAssignment and recordExecution read the order without a lock and  *)
(* insert a row on that reading; the other operations lock the row they    *)
(* start from and guard the order's status in their UPDATEs.  Orders share *)
(* no rows, so there is one.  local[c] is what a caller has read.          *)
(***************************************************************************)
EXTENDS Naturals

CONSTANTS
  Assignments,
  Callers          \* requests that may overlap

VARIABLES
  order,       \* its status
  assignment,  \* status of each assignment; "NONE" before it is created
  recorded,    \* is there an execution record
  late,        \* history: assignments created when the order was complete
  local        \* what a caller has read

vars == <<order, assignment, recorded, late, local>>

Idle == [for |-> "nothing"]
Created == {a \in Assignments : assignment[a] # "NONE"}
Done == {"COMPLETED", "ACCEPTED"}

TypeOK ==
  /\ order \in {"DRAFT", "SCHEDULED", "DISPATCHED", "IN_PROGRESS"} \cup Done
  /\ assignment \in [Assignments -> {"NONE", "PLANNED", "DISPATCHED", "ON_SITE", "COMPLETED"}]
  /\ recorded \in BOOLEAN /\ late \subseteq Created
  /\ \A c \in Callers : local[c].for \in {"nothing", "assignment", "record"}

\* createOrder.
Init ==
  /\ order = "DRAFT" /\ assignment = [a \in Assignments |-> "NONE"]
  /\ recorded = FALSE /\ late = {}
  /\ local = [c \in Callers |-> Idle]

Read(c, what) ==
  /\ local[c] = Idle
  /\ local' = [local EXCEPT ![c] = [for |-> what, seen |-> order]]
  /\ UNCHANGED <<order, assignment, recorded, late>>

Finish(c) == local' = [local EXCEPT ![c] = Idle]

\* Mutant: an UPDATE by the order's id alone.
AdvanceAny(from, to) == order' = to

\* An UPDATE of the order that its WHERE clause lets pass in these states only.
Advance(from, to) == order' = IF order \in from THEN to ELSE order

-----------------------------------------------------------------------------
\* createServiceAssignment, on the order as it was read.
ReadForAssignment(c) == order \in {"DRAFT", "SCHEDULED"} /\ Read(c, "assignment")

CreateAssignment(c, a) ==
  /\ local[c].for = "assignment" /\ a \notin Created
  /\ assignment' = [assignment EXCEPT ![a] = "PLANNED"]
  /\ IF local[c].seen = "DRAFT" THEN Advance({"DRAFT"}, "SCHEDULED") ELSE UNCHANGED order
  /\ late' = IF order \in Done THEN late \cup {a} ELSE late
  /\ Finish(c)
  /\ UNCHANGED recorded

DispatchAssignment(a) ==
  /\ assignment[a] = "PLANNED"
  /\ assignment' = [assignment EXCEPT ![a] = "DISPATCHED"]
  /\ Advance({"DRAFT", "SCHEDULED"}, "DISPATCHED")
  /\ UNCHANGED <<recorded, late, local>>

\* No operation makes an assignment ACKNOWLEDGED or EN_ROUTE.
StartAssignment(a) ==
  /\ assignment[a] = "DISPATCHED"
  /\ assignment' = [assignment EXCEPT ![a] = "ON_SITE"]
  /\ Advance({"DISPATCHED", "SCHEDULED"}, "IN_PROGRESS")
  /\ UNCHANGED <<recorded, late, local>>

\* createServiceExecutionRecord, on the order as it was read.
ReadForRecord(c) == order \in {"DISPATCHED", "IN_PROGRESS", "COMPLETED"} /\ Read(c, "record")

RecordExecution(c) ==
  /\ local[c].for = "record"
  /\ recorded' = TRUE
  /\ IF local[c].seen = "DISPATCHED" THEN Advance({"DISPATCHED"}, "IN_PROGRESS") ELSE UNCHANGED order
  /\ Finish(c)
  /\ UNCHANGED <<assignment, late>>

\* completeServiceOrder.
Completable == order \in {"DISPATCHED", "IN_PROGRESS"} /\ recorded

\* Completes whatever is not complete of its assignments.
CompleteOrder ==
  /\ Completable
  /\ order' = "COMPLETED"
  /\ assignment' = [a \in Assignments |-> IF a \in Created THEN "COMPLETED" ELSE "NONE"]
  /\ UNCHANGED <<recorded, late, local>>

AcceptOrder ==
  /\ order = "COMPLETED" /\ order' = "ACCEPTED"
  /\ UNCHANGED <<assignment, recorded, late, local>>

Next ==
  \/ \E c \in Callers :
       \/ ReadForAssignment(c) \/ ReadForRecord(c) \/ RecordExecution(c)
       \/ \E a \in Assignments : CreateAssignment(c, a)
  \/ \E a \in Assignments : DispatchAssignment(a) \/ StartAssignment(a)
  \/ CompleteOrder \/ AcceptOrder

Spec == Init /\ [][Next]_vars

-----------------------------------------------------------------------------
\* The status of an order says what its rows say, although assignments and
\* records are entered on stale readings: nothing is planned under a DRAFT,
\* nobody is out under a SCHEDULED order, somebody has been sent under a
\* DISPATCHED one and nothing has happened yet, something has under an order IN_PROGRESS, and a
\* COMPLETED or ACCEPTED one has a record and no unfinished assignment but those
\* that came too late (README.md, "Divergences").
OrderFollowsItsWork ==
  LET is == {assignment[a] : a \in Created} IN
  CASE order = "DRAFT" -> is = {} /\ ~recorded
    [] order = "SCHEDULED" -> is = {"PLANNED"} /\ ~recorded
    [] order = "DISPATCHED" -> "DISPATCHED" \in is /\ is \subseteq {"PLANNED", "DISPATCHED"} /\ ~recorded
    [] order = "IN_PROGRESS" -> recorded \/ "ON_SITE" \in is
    [] OTHER -> recorded /\ \A a \in Created \ late : assignment[a] = "COMPLETED"
=============================================================================
