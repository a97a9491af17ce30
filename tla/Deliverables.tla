---------------------------- MODULE Deliverables ----------------------------
(***************************************************************************)
(* Deliverables (packages/persistence/src/deliverable-repository.ts,       *)
(* deliverable-command-service.ts, packages/kernel/src/                    *)
(* deliverable-factories.ts): an item is started, bound to a version of    *)
(* its output, reviewed, approved by a Decision, issued in a transmittal,  *)
(* answered by its recipients, accepted and closed; from review, issue and *)
(* acceptance it may go to rework.                                         *)
(*                                                                         *)
(* review, approve and issue read the item, and approve its Decision,      *)
(* before the transaction that acts: local[c] is what a caller has read.   *)
(* An output version stands for the object and the version bound together. *)
(***************************************************************************)
EXTENDS Naturals, Sequences

CONSTANTS
  Items,
  Versions,             \* output versions
  Decisions,
  Parties,              \* that may receive a transmittal
  Callers,              \* requests that may overlap
  AcceptanceRequired,   \* the items whose requirement asks for acceptance
  MaxIssues             \* bound: transmittals of an item

VARIABLES
  status,      \* of each item
  bound,       \* the items with an ACTIVE authoring binding
  output,      \* governed output version of each item, or "none"
  decision,    \* [about, outcome] of each Decision; outcome "NONE" before it is made
  reviewed,    \* the items that have a review on record
  approvals,   \* of each item: the Decisions that approved it, in order
  sent,        \* of each item: the versions of its transmittals, in order
  recipients,  \* <<item, transmittal, party, responseRequired>>
  responses,   \* <<item, transmittal, party, outcome>>
  accepted,    \* of each item: the transmittal its last acceptance named, or 0
  local        \* what a caller has read

vars == <<status, bound, output, decision, reviewed, approvals, sent,
          recipients, responses, accepted, local>>

Statuses == {"PLANNED", "IN_PROGRESS", "IN_REVIEW", "APPROVED", "ISSUED",
             "ACCEPTED", "REWORK", "CLOSED"}
Idle == [for |-> "nothing"]
Undecided == [about |-> "none", outcome |-> "NONE"]

TypeOK ==
  /\ status \in [Items -> Statuses] /\ bound \subseteq Items
  /\ output \in [Items -> Versions \cup {"none"}]
  /\ decision \in [Decisions -> {Undecided} \cup
                     [about : Versions, outcome : {"APPROVED", "REJECTED"}]]
  /\ reviewed \subseteq Items
  /\ approvals \in [Items -> Seq(Decisions)] /\ sent \in [Items -> Seq(Versions)]
  /\ recipients \subseteq Items \X (1..MaxIssues) \X Parties \X BOOLEAN
  /\ responses \subseteq Items \X (1..MaxIssues) \X Parties \X {"ACCEPTED", "REVISE"}
  /\ accepted \in [Items -> 0..MaxIssues]
  /\ \A c \in Callers : local[c].for \in {"nothing", "review", "approve", "issue"}

Init ==
  /\ status = [i \in Items |-> "PLANNED"] /\ bound = {}
  /\ output = [i \in Items |-> "none"]
  /\ decision = [d \in Decisions |-> Undecided]
  /\ reviewed = {}
  /\ approvals = [i \in Items |-> <<>>] /\ sent = [i \in Items |-> <<>>]
  /\ recipients = {} /\ responses = {}
  /\ accepted = [i \in Items |-> 0]
  /\ local = [c \in Callers |-> Idle]

Becomes(i, st) == status' = [status EXCEPT ![i] = st]
UnchangedIssues == UNCHANGED <<sent, recipients, responses, accepted>>

-----------------------------------------------------------------------------
\* Work on the output.

\* One binding of an item, unique by its key.
CreateAuthoringBinding(i) ==
  /\ i \notin bound /\ bound' = bound \cup {i}
  /\ UNCHANGED <<status, output, decision, reviewed, approvals, local>>
  /\ UnchangedIssues

StartItem(i) ==
  /\ i \in bound /\ status[i] = "PLANNED" /\ Becomes(i, "IN_PROGRESS")
  /\ UNCHANGED <<bound, output, decision, reviewed, approvals, local>>
  /\ UnchangedIssues

BindOutput(i, v) ==
  /\ status[i] \in {"IN_PROGRESS", "REWORK"}
  /\ output' = [output EXCEPT ![i] = v]
  /\ UNCHANGED <<status, bound, decision, reviewed, approvals, local>>
  /\ UnchangedIssues

SubmitForReview(i) ==
  /\ status[i] \in {"IN_PROGRESS", "REWORK"} /\ output[i] # "none"
  /\ Becomes(i, "IN_REVIEW")
  /\ UNCHANGED <<bound, output, decision, reviewed, approvals, local>>
  /\ UnchangedIssues

-----------------------------------------------------------------------------
\* Review, approval and issue: what a caller reads, and what it then does.

ReadForReview(c, i) ==
  /\ local[c] = Idle /\ status[i] = "IN_REVIEW"
  /\ local' = [local EXCEPT ![c] = [for |-> "review", item |-> i]]
  /\ UNCHANGED <<status, bound, output, decision, reviewed, approvals>>
  /\ UnchangedIssues

\* The INSERT does not look at the item again.
RecordReview(c) ==
  /\ local[c].for = "review"
  /\ reviewed' = reviewed \cup {local[c].item}
  /\ local' = [local EXCEPT ![c] = Idle]
  /\ UNCHANGED <<status, bound, output, decision, approvals>>
  /\ UnchangedIssues

\* requireAuthorityDecision: an approval of the item's version.  (The grant behind
\* a Decision is checked too; nothing ever changes one.)
ReadForApproval(c, i, d) ==
  /\ local[c] = Idle /\ output[i] # "none"
  /\ decision[d] = [about |-> output[i], outcome |-> "APPROVED"]
  /\ local' = [local EXCEPT ![c] =
                 [for |-> "approve", item |-> i, subject |-> output[i], by |-> d]]
  /\ UNCHANGED <<status, bound, output, decision, reviewed, approvals>>
  /\ UnchangedIssues

UsedDecisions == UNION {{approvals[i][k] : k \in 1..Len(approvals[i])} : i \in Items}

\* createDeliverableApproval on the locked item; a Decision approves once, by a
\* unique key.
Approvable(i, subject, d) ==
  /\ status[i] = "IN_REVIEW" /\ output[i] = subject
  /\ decision[d] = [about |-> subject, outcome |-> "APPROVED"]
  /\ d \notin UsedDecisions

Approve(c) ==
  /\ local[c].for = "approve"
  /\ LET i == local[c].item
     IN IF Approvable(i, local[c].subject, local[c].by)
        THEN /\ Becomes(i, "APPROVED")
             /\ approvals' = [approvals EXCEPT ![i] = Append(@, local[c].by)]
        ELSE UNCHANGED <<status, approvals>>
  /\ local' = [local EXCEPT ![c] = Idle]
  /\ UNCHANGED <<bound, output, decision, reviewed>>
  /\ UnchangedIssues

ReadForIssue(c, i) ==
  /\ local[c] = Idle /\ output[i] # "none"
  /\ local' = [local EXCEPT ![c] = [for |-> "issue", item |-> i, subject |-> output[i]]]
  /\ UNCHANGED <<status, bound, output, decision, reviewed, approvals>>
  /\ UnchangedIssues

\* Mutant: createTransmittal trusts the version that was read.
IssuableAsRead(i, subject) == status[i] = "APPROVED"

Issuable(i, subject) == status[i] = "APPROVED" /\ output[i] = subject

Issue(c) ==
  /\ local[c].for = "issue"
  /\ LET i == local[c].item
     IN IF Issuable(i, local[c].subject) /\ Len(sent[i]) < MaxIssues
        THEN /\ Becomes(i, "ISSUED")
             /\ sent' = [sent EXCEPT ![i] = Append(@, local[c].subject)]
        ELSE UNCHANGED <<status, sent>>
  /\ local' = [local EXCEPT ![c] = Idle]
  /\ UNCHANGED <<bound, output, decision, reviewed, approvals,
                 recipients, responses, accepted>>

-----------------------------------------------------------------------------
\* Recipients, acceptance, rework and the end.

\* Whatever the status of the item, and once for a party.
AddRecipient(i, k, p, required) ==
  /\ k \in 1..Len(sent[i])
  /\ \A r \in BOOLEAN : <<i, k, p, r>> \notin recipients
  /\ recipients' = recipients \cup {<<i, k, p, required>>}
  /\ UNCHANGED <<status, bound, output, decision, reviewed, approvals, sent,
                 responses, accepted, local>>

\* A recipient answers once, by a unique key, and at any time.
RecordResponse(i, k, p, outcome) ==
  /\ \E r \in BOOLEAN : <<i, k, p, r>> \in recipients
  /\ \A o \in {"ACCEPTED", "REVISE"} : <<i, k, p, o>> \notin responses
  /\ responses' = responses \cup {<<i, k, p, outcome>>}
  /\ UNCHANGED <<status, bound, output, decision, reviewed, approvals, sent,
                 recipients, accepted, local>>

\* markDeliverableAccepted: of the transmittal named by the caller.
AcceptedByAll(i, k) ==
  LET Mandatory == {p \in Parties : <<i, k, p, TRUE>> \in recipients}
  IN Mandatory # {} /\ \A p \in Mandatory : <<i, k, p, "ACCEPTED">> \in responses

Accept(i, k) ==
  /\ status[i] = "ISSUED" /\ i \in AcceptanceRequired
  /\ k \in 1..Len(sent[i]) /\ AcceptedByAll(i, k)
  /\ Becomes(i, "ACCEPTED")
  /\ accepted' = [accepted EXCEPT ![i] = k]
  /\ UNCHANGED <<bound, output, decision, reviewed, approvals, sent,
                 recipients, responses, local>>

\* requireReworkTrigger: a review or a response of the item, of any version, or
\* a Decision about the present one.
Triggered(i) ==
  \/ i \in reviewed
  \/ \E d \in Decisions : decision[d].about = output[i] /\ decision[d].outcome # "NONE"
  \/ \E r \in responses : r[1] = i

CreateRework(i) ==
  /\ status[i] \in {"IN_REVIEW", "ISSUED", "ACCEPTED"} /\ Triggered(i)
  /\ Becomes(i, "REWORK")
  /\ UNCHANGED <<bound, output, decision, reviewed, approvals, local>>
  /\ UnchangedIssues

Close(i) ==
  /\ status[i] \in IF i \in AcceptanceRequired THEN {"ACCEPTED"} ELSE {"ISSUED", "ACCEPTED"}
  /\ Becomes(i, "CLOSED")
  /\ UNCHANGED <<bound, output, decision, reviewed, approvals, local>>
  /\ UnchangedIssues

\* A Decision is made once, about any version (control-repository.ts).
Decide(d, v, outcome) ==
  /\ decision[d] = Undecided
  /\ decision' = [decision EXCEPT ![d] = [about |-> v, outcome |-> outcome]]
  /\ UNCHANGED <<status, bound, output, reviewed, approvals, local>>
  /\ UnchangedIssues

Next ==
  \/ \E i \in Items :
       \/ CreateAuthoringBinding(i) \/ StartItem(i) \/ SubmitForReview(i)
       \/ CreateRework(i) \/ Close(i)
       \/ \E v \in Versions : BindOutput(i, v)
       \/ \E k \in 1..MaxIssues :
            \/ Accept(i, k)
            \/ \E p \in Parties :
                 \/ \E required \in BOOLEAN : AddRecipient(i, k, p, required)
                 \/ \E outcome \in {"ACCEPTED", "REVISE"} : RecordResponse(i, k, p, outcome)
       \/ \E c \in Callers :
            \/ ReadForReview(c, i) \/ ReadForIssue(c, i)
            \/ \E d \in Decisions : ReadForApproval(c, i, d)
  \/ \E c \in Callers : RecordReview(c) \/ Approve(c) \/ Issue(c)
  \/ \E d \in Decisions, v \in Versions, outcome \in {"APPROVED", "REJECTED"} : Decide(d, v, outcome)

Spec == Init /\ [][Next]_vars

-----------------------------------------------------------------------------
\* Every transmittal carries the version that a Decision of its own approved:
\* the k-th issue of an item follows its k-th approval, which is about the very
\* version sent, and no Decision approves twice, for this item or another.  The
\* requests that bind, approve, issue and rework overlap, each with a version it
\* read before.
EachIssueApproved ==
  /\ \A i \in Items :
       /\ Len(approvals[i]) = Len(sent[i]) + (IF status[i] = "APPROVED" THEN 1 ELSE 0)
       /\ \A k \in 1..Len(sent[i]) :
            decision[approvals[i][k]] = [about |-> sent[i][k], outcome |-> "APPROVED"]
       /\ status[i] = "APPROVED" => decision[approvals[i][Len(approvals[i])]].about = output[i]
       /\ status[i] \in {"ISSUED", "ACCEPTED", "CLOSED"} => output[i] = sent[i][Len(sent[i])]
  /\ \A i, j \in Items : \A k \in 1..Len(approvals[i]), l \in 1..Len(approvals[j]) :
       approvals[i][k] = approvals[j][l] => i = j /\ k = l
=============================================================================
