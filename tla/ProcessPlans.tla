------------------------------ MODULE ProcessPlans ------------------------------
(***************************************************************************)
(* Manufacturing process plans (packages/persistence/src/                  *)
(* manufacturing-repository.ts, packages/kernel/src/                       *)
(* manufacturing-factories.ts): the versions of one plan, filled while     *)
(* DRAFT, frozen with a checksum, and released on a Decision that cites    *)
(* that checksum, which supersedes the version released before.            *)
(*                                                                         *)
(* An operation, a sequence link, an allocation or a characteristic of an  *)
(* operation is a part; its plan is read through the pool and the part     *)
(* inserted later.  A freeze locks the row of the plan, which operations   *)
(* and sequence links refer to and therefore wait for; allocations and     *)
(* characteristics, the details, refer to the operation alone.             *)
(* Characteristics of the scope object are left out.                       *)
(***************************************************************************)
EXTENDS Naturals

CONSTANTS
  Plans,       \* versions of one plan: they share its code
  Parts,
  Details,     \* of the parts: those that do not refer to the plan itself
  Rulings,     \* Decisions on the scope object
  Planners     \* requests that may overlap

VARIABLES
  plan,        \* [status, checksum, by] of each plan; a checksum stands for its parts
  parts,       \* the parts of each plan
  ruling,      \* [outcome, cites] of each Decision
  task,        \* what a request has under way
  latePart     \* history: parts of a plan inserted since its freeze read what it has

vars == <<plan, parts, ruling, task, latePart>>

Free == [does |-> "nothing"]
None == "none"

TypeOK ==
  /\ \A p \in Plans :
       /\ plan[p].status \in {"DRAFT", "FROZEN", "RELEASED", "SUPERSEDED"}
       /\ plan[p].checksum \subseteq Parts /\ plan[p].by \in Rulings \cup {None}
       /\ parts[p] \subseteq Parts /\ latePart[p] \subseteq parts[p]
  /\ \A d \in Rulings : ruling[d].outcome \in {"NONE", "APPROVED", "REJECTED"}
  /\ \A c \in Planners : task[c].does \in {"nothing", "add", "freeze", "release"}

Init ==
  /\ plan = [p \in Plans |-> [status |-> "DRAFT", checksum |-> {}, by |-> None]]
  /\ parts = [p \in Plans |-> {}] /\ latePart = [p \in Plans |-> {}]
  /\ ruling = [d \in Rulings |-> [outcome |-> "NONE"]]
  /\ task = [c \in Planners |-> Free]

Turns(c, to) == task' = [task EXCEPT ![c] = to]

\* The rows a freeze or a release has locked: its plan and those it supersedes.
LockedBy(c) ==
  CASE task[c].does = "freeze" -> {task[c].of}
    [] task[c].does = "release" -> {task[c].of} \cup task[c].replaces
    [] OTHER -> {}
Unlocked(p, c) == \A d \in Planners \ {c} : p \notin LockedBy(d)

-----------------------------------------------------------------------------
\* What a detail belongs to, and a freeze requires.
HasOperation(p) == parts[p] \ Details # {}

\* addOperation and its like: the plan is read to be DRAFT.
ReadPlan(c, p, x) ==
  /\ task[c] = Free /\ plan[p].status = "DRAFT"
  /\ x \in Details => HasOperation(p)
  /\ Turns(c, [does |-> "add", to |-> p, part |-> x])
  /\ UNCHANGED <<plan, parts, ruling, latePart>>

Freezing(p) == \E c \in Planners : task[c].does = "freeze" /\ task[c].of = p

AddPart(c) ==
  /\ task[c].does = "add"
  /\ LET p == task[c].to
         x == task[c].part
     IN /\ x \in Details \/ Unlocked(p, c)
        /\ parts' = [parts EXCEPT ![p] = @ \cup {x}]
        /\ latePart' = IF (plan[p].status # "DRAFT" \/ Freezing(p)) /\ x \notin parts[p]
                       THEN [latePart EXCEPT ![p] = @ \cup {x}] ELSE latePart
  /\ Turns(c, Free)
  /\ UNCHANGED <<plan, ruling>>

\* freezePlan locks the plan and reads what it has.
BeginFreeze(c, p) ==
  /\ task[c] = Free /\ Unlocked(p, c)
  /\ plan[p].status = "DRAFT" /\ HasOperation(p)
  /\ Turns(c, [does |-> "freeze", of |-> p, found |-> parts[p]])
  /\ latePart' = [latePart EXCEPT ![p] = {}]
  /\ UNCHANGED <<plan, parts, ruling>>

\* The checksum is of what it found.
CommitFreeze(c) ==
  /\ task[c].does = "freeze"
  /\ plan' = [plan EXCEPT ![task[c].of] =
       [status |-> "FROZEN", checksum |-> task[c].found, by |-> @.by]]
  /\ Turns(c, Free)
  /\ UNCHANGED <<parts, ruling, latePart>>

\* A Decision on the scope object, which cites the checksum of one of its plans.
Decide(d, p, outcome) ==
  /\ ruling[d].outcome = "NONE" /\ plan[p].status # "DRAFT"
  /\ ruling' = [ruling EXCEPT ![d] = [outcome |-> outcome, cites |-> p]]
  /\ UNCHANGED <<plan, parts, task, latePart>>

\* Mutant: any approval of the scope object will do.
ApprovedAtAll(p, d) == plan[p].status = "FROZEN" /\ ruling[d].outcome = "APPROVED"

\* releaseManufacturingProcessPlan.
Releasable(p, d) ==
  /\ plan[p].status = "FROZEN"
  /\ ruling[d].outcome = "APPROVED" /\ ruling[d].cites = p

\* releasePlan: the plan is locked, and the released ones of its code are
\* superseded where they are found.
BeginRelease(c, p, d) ==
  /\ task[c] = Free /\ Unlocked(p, c) /\ Releasable(p, d)
  /\ Turns(c, [does |-> "release", of |-> p, on |-> d, replaces |-> {}, found |-> FALSE])
  /\ UNCHANGED <<plan, parts, ruling, latePart>>

ReleasedPlans == {p \in Plans : plan[p].status = "RELEASED"}

SupersedeOthers(c) ==
  /\ task[c].does = "release" /\ ~task[c].found
  /\ \A p \in ReleasedPlans : Unlocked(p, c)
  /\ Turns(c, [task[c] EXCEPT !.replaces = ReleasedPlans, !.found = TRUE])
  /\ UNCHANGED <<plan, parts, ruling, latePart>>

\* Mutant: nothing keeps a second plan of the code from being released.
AnyKey(c) == TRUE

\* active_guard_key: one plan of a code is released.
KeyFree(c) == ReleasedPlans \subseteq task[c].replaces

CommitRelease(c) ==
  /\ task[c].does = "release" /\ task[c].found /\ KeyFree(c)
  /\ plan' = [p \in Plans |->
       CASE p = task[c].of ->
              [status |-> "RELEASED", checksum |-> plan[p].checksum, by |-> task[c].on]
         [] p \in task[c].replaces ->
              [status |-> "SUPERSEDED", checksum |-> plan[p].checksum, by |-> plan[p].by]
         [] OTHER -> plan[p]]
  /\ Turns(c, Free)
  /\ UNCHANGED <<parts, ruling, latePart>>

\* A duplicate key, a deadlock or a connection that is lost.
RollBack(c) ==
  /\ task[c].does \in {"freeze", "release"} /\ Turns(c, Free)
  /\ UNCHANGED <<plan, parts, ruling, latePart>>

Next ==
  \/ \E p \in Plans, d \in Rulings, outcome \in {"APPROVED", "REJECTED"} : Decide(d, p, outcome)
  \/ \E c \in Planners :
       \/ \E p \in Plans, x \in Parts : ReadPlan(c, p, x)
       \/ \E p \in Plans : BeginFreeze(c, p) \/ \E d \in Rulings : BeginRelease(c, p, d)
       \/ AddPart(c) \/ CommitFreeze(c) \/ SupersedeOthers(c) \/ CommitRelease(c) \/ RollBack(c)

Spec == Init /\ [][Next]_vars

-----------------------------------------------------------------------------
\* Once a plan was released one of its versions is in force, and only one; and a
\* plan in force was approved as it is made: the Decision it names approved the
\* checksum of its parts, but for those that were let in after the freeze had read
\* them: on a stale reading of the plan, or past the lock, which details do not need.
PlanInForce ==
  /\ \A p, q \in ReleasedPlans : p = q
  /\ (\E p \in Plans : plan[p].status = "SUPERSEDED") => ReleasedPlans # {}
  /\ \A p \in ReleasedPlans :
       /\ ruling[plan[p].by].outcome = "APPROVED" /\ ruling[plan[p].by].cites = p
       /\ plan[p].checksum = parts[p] \ latePart[p]
=============================================================================
