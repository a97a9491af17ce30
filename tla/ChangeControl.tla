---------------------------- MODULE ChangeControl ----------------------------
(***************************************************************************)
(* One controlled change: what it affects and its assessments, the         *)
(* decision, implementation actions, verifications, discrepancies and the  *)
(* closure (packages/persistence/src/change-repository.ts, with the rules  *)
(* of packages/kernel/src/change-factories.ts).                            *)
(*                                                                         *)
(* The transitions lock the change and count its rows.  A row is checked   *)
(* against the change through the pool and inserted later by a transaction *)
(* that checks nothing (pending): it waits for a transition under way, the *)
(* foreign key locks the change, but not for the state it was checked in.  *)
(***************************************************************************)
EXTENDS Naturals, FiniteSets

CONSTANTS
  Actions, Discrepancies,   \* identifiers of implementation actions and discrepancies
  MaxPending                \* bound: rows checked and not yet inserted

VARIABLES
  change,          \* status of the change
  outline,         \* which of an affected object and an impact assessment it has
  action,          \* status of each implementation action
  discrepancy,     \* status of each discrepancy
  verifications,   \* outcomes that were recorded
  pending,         \* rows between their check and their insertion
  late             \* history: rows inserted into a change that had been closed

vars == <<change, outline, action, discrepancy, verifications, pending, late>>

Statuses == {"DRAFT", "UNDER_ASSESSMENT", "AWAITING_DECISION", "APPROVED", "REJECTED",
             "IMPLEMENTING", "VERIFYING", "CLOSED"}

\* The states of the change a row of each kind is checked against.
Open == [affected     |-> {"DRAFT", "UNDER_ASSESSMENT"},
         assessment   |-> {"UNDER_ASSESSMENT"},
         action       |-> {"APPROVED", "IMPLEMENTING"},
         verification |-> {"VERIFYING"},
         discrepancy  |-> {"IMPLEMENTING", "VERIFYING"}]

TypeOK ==
  /\ change \in Statuses /\ outline \subseteq {"affected", "assessment"}
  /\ action \in [Actions -> {"NONE", "PLANNED", "IN_PROGRESS", "COMPLETED"}]
  /\ discrepancy \in [Discrepancies -> {"NONE", "OPEN", "RESOLVED"}]
  /\ verifications \subseteq {"PASS", "FAIL"}
  /\ Cardinality(pending) <= MaxPending
  /\ \A row \in pending : row.of \in DOMAIN Open
  /\ late \subseteq Actions \cup Discrepancies

Init ==
  /\ change = "DRAFT" /\ outline = {} /\ verifications = {}
  /\ action = [a \in Actions |-> "NONE"] /\ discrepancy = [d \in Discrepancies |-> "NONE"]
  /\ pending = {} /\ late = {}

-----------------------------------------------------------------------------
\* Rows: the check and the insertion.

Check(of, id) ==
  /\ change \in Open[of]
  /\ Cardinality(pending) < MaxPending
  /\ pending' = pending \cup {[of |-> of, id |-> id]}
  /\ UNCHANGED <<change, outline, action, discrepancy, verifications, late>>

Insert(row) ==
  /\ pending' = pending \ {row}
  /\ late' = IF change = "CLOSED" THEN late \cup ({row.id} \cap (Actions \cup Discrepancies)) ELSE late

AddOutline(row) ==
  /\ row.of \in {"affected", "assessment"} /\ Insert(row)
  /\ outline' = outline \cup {row.of}
  /\ UNCHANGED <<change, action, discrepancy, verifications>>

CreateImplementationAction(row) ==
  /\ row.of = "action" /\ action[row.id] = "NONE" /\ Insert(row)
  /\ action' = [action EXCEPT ![row.id] = "PLANNED"]
  /\ UNCHANGED <<change, outline, discrepancy, verifications>>

CreateVerification(row) ==
  /\ row.of = "verification" /\ Insert(row)
  /\ verifications' = verifications \cup {row.id}
  /\ UNCHANGED <<change, outline, action, discrepancy>>

CreateDiscrepancy(row) ==
  /\ row.of = "discrepancy" /\ discrepancy[row.id] = "NONE" /\ Insert(row)
  /\ discrepancy' = [discrepancy EXCEPT ![row.id] = "OPEN"]
  /\ UNCHANGED <<change, outline, action, verifications>>

-----------------------------------------------------------------------------
\* Transitions of the change.

Becomes(from, to) ==
  /\ change = from /\ change' = to
  /\ UNCHANGED <<outline, action, discrepancy, verifications, pending, late>>

OpenActions == {a \in Actions : action[a] \in {"PLANNED", "IN_PROGRESS"}}
OpenDiscrepancies == {d \in Discrepancies : discrepancy[d] = "OPEN"}

StartAssessment == Becomes("DRAFT", "UNDER_ASSESSMENT")

SubmitForDecision ==
  outline = {"affected", "assessment"} /\ Becomes("UNDER_ASSESSMENT", "AWAITING_DECISION")

ApplyDecision ==
  Becomes("AWAITING_DECISION", "APPROVED") \/ Becomes("AWAITING_DECISION", "REJECTED")

StartImplementation == Becomes("APPROVED", "IMPLEMENTING")

BeginVerification ==
  /\ \E a \in Actions : action[a] # "NONE"
  /\ OpenActions = {} /\ Becomes("IMPLEMENTING", "VERIFYING")

\* Mutant: the actions were counted when verification began.
ClosableOnceCounted == OpenDiscrepancies = {} /\ "PASS" \in verifications

\* Any PASS will do, one that a FAIL followed as well.
Closable == OpenActions = {} /\ OpenDiscrepancies = {} /\ "PASS" \in verifications

CloseChange == Closable /\ Becomes("VERIFYING", "CLOSED")

-----------------------------------------------------------------------------
\* Actions and discrepancies: whatever the state of the change.

StartImplementationAction(a) ==
  /\ action[a] = "PLANNED" /\ action' = [action EXCEPT ![a] = "IN_PROGRESS"]
  /\ UNCHANGED <<change, outline, discrepancy, verifications, pending, late>>

CompleteImplementationAction(a) ==
  /\ a \in OpenActions /\ action' = [action EXCEPT ![a] = "COMPLETED"]
  /\ UNCHANGED <<change, outline, discrepancy, verifications, pending, late>>

\* RESOLVED stands for ACCEPTED as well.
ResolveDiscrepancy(d) ==
  /\ discrepancy[d] = "OPEN" /\ discrepancy' = [discrepancy EXCEPT ![d] = "RESOLVED"]
  /\ UNCHANGED <<change, outline, action, verifications, pending, late>>

Next ==
  \/ Check("affected", "row") \/ Check("assessment", "row")
  \/ \E a \in Actions :
       \/ Check("action", a) \/ StartImplementationAction(a) \/ CompleteImplementationAction(a)
  \/ \E d \in Discrepancies : Check("discrepancy", d) \/ ResolveDiscrepancy(d)
  \/ \E outcome \in {"PASS", "FAIL"} : Check("verification", outcome)
  \/ \E row \in pending :
       \/ AddOutline(row) \/ CreateImplementationAction(row)
       \/ CreateVerification(row) \/ CreateDiscrepancy(row)
  \/ StartAssessment \/ SubmitForDecision \/ ApplyDecision
  \/ StartImplementation \/ BeginVerification \/ CloseChange

Spec == Init /\ [][Next]_vars

-----------------------------------------------------------------------------
\* A closed change was assessed and passed a verification, and neither an action
\* nor a discrepancy of it is open, however late a row that was checked before the
\* verification is inserted: all that arrive before the closure hold it up.
ClosedIsSettled ==
  change = "CLOSED" =>
    /\ outline = {"affected", "assessment"} /\ "PASS" \in verifications
    /\ OpenActions \cup OpenDiscrepancies \subseteq late
    /\ \E a \in Actions \ late : action[a] = "COMPLETED"
=============================================================================
