-------------------------- MODULE SupplierSourcing --------------------------
(***************************************************************************)
(* Source approvals of one supplier                                        *)
(* (packages/persistence/src/supplier-sourcing-repository.ts,              *)
(* packages/kernel/src/supplier-sourcing-factories.ts): the supplier       *)
(* relationship is released, later cancelled; while it is released, the    *)
(* supplier's item may be approved for an item of ours, in a context, from *)
(* a date on, which supersedes the approval in force before.               *)
(*                                                                         *)
(* createSourceApproval holds the supplier's row from its first statement  *)
(* to its commit; since migration 0041 nothing else keeps two approvals of *)
(* one tuple (context, supplier, both items) from being current.  Decisions *)
(* and contexts are taken to be in order; sourcing rules, which no         *)
(* operation here reads, are left out.                                     *)
(***************************************************************************)
EXTENDS Naturals

CONSTANTS
  Tuples,          \* context and items of an approval of this supplier
  Approvals,
  Approvers,       \* requests that may overlap
  Dates            \* a set of naturals: when an approval takes effect

VARIABLES
  supplier,    \* its status
  approval,    \* [status, of, from, by] of each approval
  approving,   \* what each request is to approve
  cancelled    \* history: the approvals when the supplier was cancelled

vars == <<supplier, approval, approving, cancelled>>

Idle == [holds |-> FALSE]
NoApproval == [status |-> "NONE"]
Given == {a \in Approvals : approval[a] # NoApproval}
Of(i) == {a \in Given : approval[a].of = i}
Current(i) == {a \in Of(i) : approval[a].status = "CURRENT"}

TypeOK ==
  /\ supplier \in {"IN_WORK", "RELEASED", "CANCELLED"}
  /\ \A a \in Given : /\ approval[a].of \in Tuples /\ approval[a].from \in Dates
                      /\ approval[a].status = "SUPERSEDED" => approval[a].by \in Given
  /\ \A r \in Approvers : approving[r] # Idle => approving[r].of \in Tuples
  /\ cancelled \subseteq Given

\* createSupplierRelationship.
Init ==
  /\ supplier = "IN_WORK" /\ cancelled = {}
  /\ approval = [a \in Approvals |-> NoApproval]
  /\ approving = [r \in Approvers |-> Idle]

\* Mutant: the supplier is read without FOR UPDATE.
UnlockedAlways == TRUE

\* No transaction holds the supplier's row.
Unlocked == \A r \in Approvers : ~approving[r].holds

ReleaseSupplier ==
  /\ Unlocked /\ supplier = "IN_WORK" /\ supplier' = "RELEASED"
  /\ UNCHANGED <<approval, approving, cancelled>>

\* Approvals are left as they are.
CancelSupplier ==
  /\ Unlocked /\ supplier # "CANCELLED" /\ supplier' = "CANCELLED"
  /\ cancelled' = Given
  /\ UNCHANGED <<approval, approving>>

\* The lock, the readings and createSourceApproval.
BeginApproval(r, i, from) ==
  /\ Unlocked /\ approving[r] = Idle /\ supplier = "RELEASED"
  /\ approving' = [approving EXCEPT ![r] = [holds |-> TRUE, of |-> i, from |-> from]]
  /\ UNCHANGED <<supplier, approval, cancelled>>

\* The current approval is locked as it is now.  Superseding it ends it, even
\* when the new one takes effect later.
CreateSourceApproval(r, a) ==
  LET i == approving[r].of IN
  /\ approving[r] # Idle /\ a \notin Given
  /\ \A b \in Current(i) : approving[r].from >= approval[b].from
  /\ approval' = [b \in Approvals |->
       CASE b = a -> [status |-> "CURRENT", of |-> i, from |-> approving[r].from]
         [] b \in Current(i) -> [status |-> "SUPERSEDED", of |-> i, from |-> approval[b].from, by |-> a]
         [] OTHER -> approval[b]]
  /\ approving' = [approving EXCEPT ![r] = Idle]
  /\ UNCHANGED <<supplier, cancelled>>

\* Rejected, or rolled back for another reason.
RollBack(r) ==
  /\ approving[r] # Idle /\ approving' = [approving EXCEPT ![r] = Idle]
  /\ UNCHANGED <<supplier, approval, cancelled>>

Next ==
  \/ ReleaseSupplier \/ CancelSupplier
  \/ \E r \in Approvers :
       \/ \E i \in Tuples, d \in Dates : BeginApproval(r, i, d)
       \/ \E a \in Approvals : CreateSourceApproval(r, a)
       \/ RollBack(r)

Spec == Init /\ [][Next]_vars

-----------------------------------------------------------------------------
\* However requests overlap: a tuple once approved has one current approval,
\* which takes effect last of all; each other one was superseded by one of the
\* same tuple, that nothing else was superseded by; and no approval comes after the
\* supplier's cancellation.
ApprovalsInLine ==
  /\ \A i \in Tuples : Of(i) # {} => \E c \in Current(i) :
       Current(i) = {c} /\ \A a \in Of(i) : approval[a].from <= approval[c].from
  /\ \A a \in Given : approval[a].status = "SUPERSEDED" =>
       /\ approval[a].by \in Of(approval[a].of)
       /\ approval[a].from <= approval[approval[a].by].from
       /\ \A b \in Given \ {a} : approval[b].status = "SUPERSEDED" => approval[b].by # approval[a].by
  /\ supplier = "CANCELLED" => Given = cancelled
=============================================================================
