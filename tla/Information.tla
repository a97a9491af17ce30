----------------------------- MODULE Information -----------------------------
(***************************************************************************)
(* Controlled information: the revisions of one container with their       *)
(* iterations, representations and issues, and the baselines of one        *)
(* context (packages/persistence/src/information-repository.ts, with the   *)
(* rules of packages/kernel/src/information-factories.ts).                 *)
(*                                                                         *)
(* What is created is checked through the pool and inserted later by a     *)
(* transaction that checks nothing.  Releases lock the row they change;    *)
(* a supersession locks two rows, one after the other.                     *)
(***************************************************************************)
EXTENDS FiniteSets

CONSTANTS
  Revisions, Baselines,   \* the revisions of the container, the baselines of the context
  Iterations,             \* iterations of any revision
  Callers                 \* requests that overlap

VARIABLES
  status,      \* of a revision or a baseline; RELEASED stands for ESTABLISHED as well
  successor,   \* what superseded a revision or a baseline
  iteration,   \* iteration -> the revision it is of and its status
  released,    \* revision -> the iteration that was released
  represented, \* iterations that have a representation
  issues,      \* issued revisions with the iteration of the representation issued
  filled,      \* baselines that have an item
  local,       \* what a request has read or locked
  late         \* history: iterations, issues and baselines written when the check
               \* no longer held

vars == <<status, successor, iteration, released, represented, issues, filled, local, late>>

Documents == Revisions \cup Baselines
Idle == [does |-> "nothing"]

TypeOK ==
  /\ status \in [Documents -> {"NONE", "DRAFT", "RELEASED", "SUPERSEDED"}]
  /\ successor \in [Documents -> Documents \cup {"none"}]
  /\ iteration \in [Iterations -> [of : Revisions \cup {"none"}, status : {"NONE", "WORKING", "FROZEN"}]]
  /\ released \in [Revisions -> Iterations \cup {"none"}]
  /\ \A r \in Revisions : released[r] # "none" => iteration[released[r]].of = r
  /\ represented \subseteq Iterations /\ filled \subseteq Baselines
  /\ issues \subseteq Revisions \X (Iterations \cup {"none"})
  /\ \A c \in Callers : local[c].does \in
       {"nothing", "createIteration", "issue", "addItem", "lock", "supersede"}
  /\ late \subseteq Iterations \cup issues \cup Baselines

Init ==
  /\ status = [d \in Documents |-> "NONE"]
  /\ successor = [d \in Documents |-> "none"]
  /\ iteration = [n \in Iterations |-> [of |-> "none", status |-> "NONE"]]
  /\ released = [r \in Revisions |-> "none"]
  /\ represented = {} /\ issues = {} /\ filled = {}
  /\ local = [c \in Callers |-> Idle]
  /\ late = {}

Locked(d) == \E c \in Callers : "holds" \in DOMAIN local[c] /\ d \in local[c].holds

Begins(c, op) ==
  /\ local[c] = Idle /\ local' = [local EXCEPT ![c] = op]
  /\ UNCHANGED <<status, successor, iteration, released, represented, issues, filled, late>>

Ends(c) == local' = [local EXCEPT ![c] = Idle]

Noted(row, onTime) == late' = IF onTime THEN late ELSE late \cup {row}

-----------------------------------------------------------------------------
\* A revision and its iterations, a baseline and its items.

Create(d) ==
  /\ status[d] = "NONE" /\ status' = [status EXCEPT ![d] = "DRAFT"]
  /\ UNCHANGED <<successor, iteration, released, represented, issues, filled, local, late>>

ReadForIteration(c, n, r) ==
  /\ iteration[n].status = "NONE" /\ status[r] = "DRAFT"
  /\ Begins(c, [does |-> "createIteration", iteration |-> n, revision |-> r])

CreateIteration(c) ==
  /\ local[c].does = "createIteration" /\ iteration[local[c].iteration].status = "NONE"
  /\ iteration' = [iteration EXCEPT ![local[c].iteration] =
                     [of |-> local[c].revision, status |-> "WORKING"]]
  /\ Noted(local[c].iteration, status[local[c].revision] = "DRAFT")
  /\ Ends(c)
  /\ UNCHANGED <<status, successor, released, represented, issues, filled>>

FreezeIteration(n) ==
  /\ iteration[n].status = "WORKING"
  /\ iteration' = [iteration EXCEPT ![n].status = "FROZEN"]
  /\ UNCHANGED <<status, successor, released, represented, issues, filled, local, late>>

\* Of an iteration in any state, one released long ago included.
CreateRepresentation(n) ==
  /\ iteration[n].status # "NONE" /\ n \notin represented
  /\ represented' = represented \cup {n}
  /\ UNCHANGED <<status, successor, iteration, released, issues, filled, local, late>>

ReadForItem(c, b) == status[b] = "DRAFT" /\ Begins(c, [does |-> "addItem", baseline |-> b])

AddBaselineItem(c) ==
  /\ local[c].does = "addItem"
  /\ filled' = filled \cup {local[c].baseline}
  /\ Noted(local[c].baseline, status[local[c].baseline] = "DRAFT")
  /\ Ends(c)
  /\ UNCHANGED <<status, successor, iteration, released, represented, issues>>

-----------------------------------------------------------------------------
\* Release and establishment, under a decision about the exact subject.

\* Mutant: an iteration in work can be released.
ReleasableInWork(r, n) == iteration[n].of = r

Releasable(r, n) == iteration[n].of = r /\ iteration[n].status = "FROZEN"

ReleaseRevision(r, n) ==
  /\ status[r] = "DRAFT" /\ ~Locked(r) /\ Releasable(r, n)
  /\ status' = [status EXCEPT ![r] = "RELEASED"] /\ released' = [released EXCEPT ![r] = n]
  /\ UNCHANGED <<successor, iteration, represented, issues, filled, local, late>>

EstablishBaseline(b) ==
  /\ status[b] = "DRAFT" /\ ~Locked(b) /\ b \in filled
  /\ status' = [status EXCEPT ![b] = "RELEASED"]
  /\ UNCHANGED <<successor, iteration, released, represented, issues, filled, local, late>>

\* A representation must be of the released iteration.
ReadForIssue(c, r, n) ==
  /\ status[r] = "RELEASED"
  /\ n = "none" \/ (n \in represented /\ released[r] = n)
  /\ Begins(c, [does |-> "issue", revision |-> r, iteration |-> n])

IssueInformation(c) ==
  LET issue == <<local[c].revision, local[c].iteration>>
  IN  /\ local[c].does = "issue"
      /\ issues' = issues \cup {issue}
      /\ Noted(issue, status[local[c].revision] = "RELEASED")
      /\ Ends(c)
      /\ UNCHANGED <<status, successor, iteration, released, represented, filled>>

-----------------------------------------------------------------------------
\* Supersession.

SameKind(d, e) == {d, e} \subseteq Revisions \/ {d, e} \subseteq Baselines

LockSuperseded(c, d, e) ==
  /\ status[d] # "NONE" /\ status[e] # "NONE" /\ d # e /\ SameKind(d, e) /\ ~Locked(d)
  /\ Begins(c, [does |-> "lock", from |-> d, to |-> e, holds |-> {d}])

\* Mutant: the replacement is read without a lock.
ReadReplacement(c) ==
  /\ local[c].does = "lock" /\ {status[local[c].from], status[local[c].to]} = {"RELEASED"}
  /\ local' = [local EXCEPT ![c].does = "supersede"]
  /\ UNCHANGED <<status, successor, iteration, released, represented, issues, filled, late>>

\* Both rows are read as they are locked, and both must be in force.
LockReplacement(c) ==
  /\ local[c].does = "lock" /\ ~Locked(local[c].to)
  /\ {status[local[c].from], status[local[c].to]} = {"RELEASED"}
  /\ local' = [local EXCEPT ![c] =
                 [does |-> "supersede", from |-> @.from, to |-> @.to, holds |-> {@.from, @.to}]]
  /\ UNCHANGED <<status, successor, iteration, released, represented, issues, filled, late>>

Supersede(c) ==
  /\ local[c].does = "supersede"
  /\ status' = [status EXCEPT ![local[c].from] = "SUPERSEDED"]
  /\ successor' = [successor EXCEPT ![local[c].from] = local[c].to]
  /\ Ends(c)
  /\ UNCHANGED <<iteration, released, represented, issues, filled, late>>

\* Refused by the rules, or the victim of a deadlock: two supersessions that lock
\* the same rows in opposite orders.
Rollback(c) ==
  /\ local[c].does = "lock" /\ Ends(c)
  /\ UNCHANGED <<status, successor, iteration, released, represented, issues, filled, late>>

Next ==
  \/ \E d \in Documents : Create(d)
  \/ \E n \in Iterations :
       \/ FreezeIteration(n) \/ CreateRepresentation(n)
       \/ \E r \in Revisions : ReleaseRevision(r, n)
  \/ \E b \in Baselines : EstablishBaseline(b)
  \/ \E c \in Callers :
       \/ \E r \in Revisions, n \in Iterations : ReadForIteration(c, n, r)
       \/ \E r \in Revisions, n \in Iterations \cup {"none"} : ReadForIssue(c, r, n)
       \/ \E b \in Baselines : ReadForItem(c, b)
       \/ \E d, e \in Documents : LockSuperseded(c, d, e)
       \/ CreateIteration(c) \/ AddBaselineItem(c) \/ IssueInformation(c)
       \/ LockReplacement(c) \/ Supersede(c) \/ Rollback(c)

Spec == Init /\ [][Next]_vars

-----------------------------------------------------------------------------
Superseded == {d \in Documents : status[d] = "SUPERSEDED"}

\* Supersessions never go in a circle, however many are decided at once: each
\* chain of successors ends at a revision, or a baseline, that is in force.
ChainsEndInForce ==
  /\ \A S \in (SUBSET Superseded) \ {{}} : \E d \in S : successor[d] \notin S
  /\ \A d \in Superseded : successor[d] \in Superseded \/ status[successor[d]] = "RELEASED"

\* What was issued is of the one iteration its revision was released with, frozen
\* and created while the revision was a draft; so a revision that goes on being
\* worked at, or is superseded, leaves its issues as they were decided.  An issue
\* whose check was out of date is of a superseded revision, not of a draft.
IssuedAsReleased ==
  \A i \in issues :
    /\ status[i[1]] = "RELEASED" \/ (status[i[1]] = "SUPERSEDED" /\ successor[i[1]] # "none")
    /\ iteration[released[i[1]]] = [of |-> i[1], status |-> "FROZEN"]
    /\ i[2] \in {released[i[1]], "none"}
=============================================================================
