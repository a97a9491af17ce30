--------------------------- MODULE SiteProduction ---------------------------
(***************************************************************************)
(* A work package on a construction site                                   *)
(* (packages/persistence/src/construction-site-production-repository.ts,   *)
(* packages/kernel/src/construction-site-production-factories.ts): its     *)
(* progress records, field evidence and issues, and its completion.        *)
(*                                                                         *)
(* Rows are inserted on a reading of the package that takes no lock;       *)
(* completeWorkPackage locks it and lists its rows.  Packages share no     *)
(* rows, so there is one.  Times are those a caller gives for a record,    *)
(* in any order; percentages matter as far as they are 100 or less.  Daily *)
(* logs, which no operation reads back, are left out.                      *)
(***************************************************************************)
EXTENDS Naturals

CONSTANTS
  Issues,
  Callers,         \* requests that may overlap
  Times            \* when a record may say that it occurred

VARIABLES
  package,     \* its status
  progress,    \* the progress records: [at, full]
  evidence,    \* is there field evidence
  issue,       \* status of each issue; "NONE" before it is raised
  late,        \* history: what was entered when the package was complete
  local        \* what a caller has read

vars == <<package, progress, evidence, issue, late, local>>

Idle == [for |-> "nothing"]
Records == [at : Times, full : BOOLEAN]
Raised == {i \in Issues : issue[i] # "NONE"}

TypeOK ==
  /\ package \in {"PLANNED", "ACTIVE", "COMPLETE"}
  /\ progress \subseteq Records /\ evidence \in BOOLEAN
  /\ issue \in [Issues -> {"NONE", "OPEN", "RESOLVED"}]
  /\ late \subseteq progress \cup Raised
  /\ \A c \in Callers : local[c].for \in {"nothing", "progress", "row"}

\* createWorkPackage; the command service gives PLANNED.
Init ==
  /\ package = "PLANNED" /\ progress = {} /\ evidence = FALSE
  /\ issue = [i \in Issues |-> "NONE"] /\ late = {}
  /\ local = [c \in Callers |-> Idle]

Finish(c) == local' = [local EXCEPT ![c] = Idle]
Enter(row) == late' = IF package = "COMPLETE" THEN late \cup {row} ELSE late

\* No operation puts a package ON_HOLD.
ActivateWorkPackage ==
  /\ package = "PLANNED" /\ package' = "ACTIVE"
  /\ UNCHANGED <<progress, evidence, issue, late, local>>

\* createSiteProgressRecord, on the package as it was read.
ReadForProgress(c) ==
  /\ local[c] = Idle /\ package # "COMPLETE"
  /\ local' = [local EXCEPT ![c] = [for |-> "progress", seen |-> package]]
  /\ UNCHANGED <<package, progress, evidence, issue, late>>

\* Mutant: an UPDATE by the package's id alone.
ActivatedAny(seen) == IF seen = "PLANNED" THEN "ACTIVE" ELSE package

\* The UPDATE, which asks for a package that is still PLANNED.
Activated(seen) == IF seen = "PLANNED" /\ package = "PLANNED" THEN "ACTIVE" ELSE package

RecordProgress(c, record) ==
  /\ local[c].for = "progress" /\ record \notin progress
  /\ progress' = progress \cup {record} /\ Enter(record)
  /\ package' = Activated(local[c].seen)
  /\ Finish(c)
  /\ UNCHANGED <<evidence, issue>>

\* createSiteFieldEvidence asks for a package that is not CANCELLED, which no
\* operation makes one.
RecordEvidence ==
  /\ evidence' = TRUE
  /\ UNCHANGED <<package, progress, issue, late, local>>

\* Likewise createSiteIssue.
CreateIssue(i) ==
  /\ i \notin Raised
  /\ issue' = [issue EXCEPT ![i] = "OPEN"] /\ Enter(i)
  /\ UNCHANGED <<package, progress, evidence, local>>

ResolveIssue(i) ==
  /\ issue[i] = "OPEN" /\ issue' = [issue EXCEPT ![i] = "RESOLVED"]
  /\ UNCHANGED <<package, progress, evidence, late, local>>

\* The record that sorts first is full; records of one time sort by their ids.
DoneBy(records) == \E r \in records : r.full /\ \A s \in records : s.at <= r.at

CompleteWorkPackage ==
  /\ package # "COMPLETE"
  /\ DoneBy(progress) /\ evidence /\ \A i \in Issues : issue[i] # "OPEN"
  /\ package' = "COMPLETE"
  /\ UNCHANGED <<progress, evidence, issue, late, local>>

Next ==
  \/ ActivateWorkPackage \/ RecordEvidence \/ CompleteWorkPackage
  \/ \E c \in Callers : ReadForProgress(c) \/ \E r \in Records : RecordProgress(c, r)
  \/ \E i \in Issues : CreateIssue(i) \/ ResolveIssue(i)

Spec == Init /\ [][Next]_vars

-----------------------------------------------------------------------------
\* Completion lasts, whatever was read before it and entered after: a package
\* with late entries is still COMPLETE, and one that is COMPLETE has evidence and,
\* but for what came late, no open issue and no record of less than 100 % that
\* occurred after the last one of 100 %.
CompletedIsDone ==
  /\ late # {} => package = "COMPLETE"
  /\ package = "COMPLETE" =>
       /\ evidence /\ \A i \in Raised \ late : issue[i] = "RESOLVED"
       /\ \E r \in progress \ late : r.full /\ \A s \in progress \ late : s.at > r.at => s.full
=============================================================================
