--------------------------- MODULE RecordsRetention ---------------------------
(***************************************************************************)
(* Retention and disposition of one record: a retention policy with its    *)
(* rules, holds, disposition runs, archives and destruction                *)
(* (packages/persistence/src/records-retention-repository.ts, with the     *)
(* rules of packages/kernel/src/records-retention-factories.ts).           *)
(*                                                                         *)
(* What is recorded is checked through the pool, against the holds among   *)
(* others, and inserted later by a transaction that checks nothing: it is  *)
(* pending in between.  Dates are compared, so a clock counts the events   *)
(* that are dated.                                                         *)
(***************************************************************************)
EXTENDS Naturals, FiniteSets

CONSTANTS
  Versions,                          \* versions of the record
  Holds, Decisions, Runs, Archives,  \* identifiers of the rows of each table
  HoldTypes,                         \* of "LEGAL", "REGULATORY", "RECORDS" and others
  Blocks,                            \* what a hold may block, of "ARCHIVE" and "DESTROY"
  MaxRules,                          \* bound: rules of the policy
  MaxEvents,                         \* bound: the clock
  MaxDestroyed,                      \* bound: destructions
  MaxPending                         \* bound: rows checked and not yet inserted

VARIABLES
  policy,      \* status of the policy
  rules,       \* the actions its rules call for
  hold,        \* hold -> [subject, type, blocks, status, imposed, released]
  decision,    \* decision -> [subject, at]: approvals only
  run,         \* run -> [rule, status]
  archive,     \* archive -> [subject, status]
  destroyed,   \* destruction evidence: subject, decision, and when it was checked
  results,     \* run -> the results recorded: subject, outcome, when what is done was
               \* checked, and whether the run had completed when it was inserted
  pending,     \* rows between their check and their insertion
  clock        \* number of dated events

vars == <<policy, rules, hold, decision, run, archive, destroyed, results, pending, clock>>

\* The record as a whole, or one version of it.
Whole == "whole"
Subjects == Versions \cup {Whole}
NoRow == [status |-> "NONE"]
Exists(row) == row.status # "NONE"
NoArchive == "no archive"

TypeOK ==
  /\ policy \in {"DRAFT", "FROZEN", "ACTIVE", "SUPERSEDED"}
  /\ rules \subseteq {"ARCHIVE", "DESTROY"}
  /\ \A h \in Holds : hold[h].status \in {"NONE", "ACTIVE", "RELEASED"}
  /\ \A d \in Decisions : decision[d].status \in {"NONE", "APPROVED"}
  /\ \A r \in Runs : run[r].status \in {"NONE", "QUEUED", "RUNNING", "COMPLETED", "EXCEPTIONS"}
  /\ \A a \in Archives : archive[a].status \in {"NONE", "AVAILABLE", "DESTROYED"}
  /\ destroyed \subseteq [subject : Subjects, decision : Decisions, checked : 0..clock]
  /\ \A r \in Runs : results[r] \subseteq
       [subject : Subjects, outcome : {"DONE", "EXCEPTION"}, checked : 0..clock, late : BOOLEAN]
  /\ Cardinality(pending) <= MaxPending
  /\ clock \in 0..MaxEvents

Init ==
  /\ policy = "DRAFT" /\ rules = {} /\ destroyed = {} /\ pending = {} /\ clock = 0
  /\ hold = [h \in Holds |-> NoRow] /\ decision = [d \in Decisions |-> NoRow]
  /\ run = [r \in Runs |-> NoRow] /\ archive = [a \in Archives |-> NoRow]
  /\ results = [r \in Runs |-> {}]

Checked(op) ==
  /\ Cardinality(pending) < MaxPending /\ pending' = pending \cup {op}
  /\ UNCHANGED <<policy, rules, hold, decision, run, archive, destroyed, results, clock>>

Date == clock < MaxEvents /\ clock' = clock + 1

-----------------------------------------------------------------------------
\* The policy.

ReadForRule(action) ==
  /\ policy = "DRAFT" /\ action \notin rules /\ Cardinality(rules) < MaxRules
  /\ Checked([does |-> "addRule", rule |-> action])

\* Into a policy that may have been frozen, and its checksum taken, since.
AddRule(op) ==
  /\ op.does = "addRule" /\ pending' = pending \ {op}
  /\ rules' = rules \cup {op.rule}
  /\ UNCHANGED <<policy, hold, decision, run, archive, destroyed, results, clock>>

\* SUPERSEDED: another version of the policy is activated.
PolicyBecomes(from, to) ==
  /\ policy = from /\ policy' = to
  /\ UNCHANGED <<rules, hold, decision, run, archive, destroyed, results, pending, clock>>

FreezePolicy == rules # {} /\ PolicyBecomes("DRAFT", "FROZEN")
ActivatePolicy == PolicyBecomes("FROZEN", "ACTIVE") \/ PolicyBecomes("ACTIVE", "SUPERSEDED")

-----------------------------------------------------------------------------
\* Holds and decisions.

Approve(d, s) ==
  /\ ~Exists(decision[d]) /\ Date
  /\ decision' = [decision EXCEPT ![d] = [status |-> "APPROVED", subject |-> s, at |-> clock]]
  /\ UNCHANGED <<policy, rules, hold, run, archive, destroyed, results, pending>>

\* A decision governs the record; if a version is meant it cites that version.
Governs(d, s) == Exists(decision[d]) /\ (s = Whole \/ decision[d].subject = s)

\* The unique active_hold_guard_key: one active hold of a type on a subject.
CreateHold(h, s, type, blocks) ==
  /\ ~Exists(hold[h]) /\ Date
  /\ type \in {"LEGAL", "REGULATORY"} => "DESTROY" \in blocks
  /\ ~ \E g \in Holds :
       hold[g].status = "ACTIVE" /\ hold[g].subject = s /\ hold[g].type = type
  /\ hold' = [hold EXCEPT ![h] =
       [status |-> "ACTIVE", subject |-> s, type |-> type, blocks |-> blocks,
        imposed |-> clock, released |-> clock]]
  /\ UNCHANGED <<policy, rules, decision, run, archive, destroyed, results, pending>>

ReleaseHold(h, d) ==
  /\ hold[h].status = "ACTIVE" /\ Date
  /\ Governs(d, hold[h].subject) /\ decision[d].at >= hold[h].imposed
  /\ hold' = [hold EXCEPT ![h] =
       [status |-> "RELEASED", subject |-> @.subject, type |-> @.type, blocks |-> @.blocks,
        imposed |-> @.imposed, released |-> clock]]
  /\ UNCHANGED <<policy, rules, decision, run, archive, destroyed, results, pending>>

\* The WHERE clause: a hold on the whole, or on the very version that is named.
OnSubject(s) ==
  {h \in Holds : Exists(hold[h]) /\ (hold[h].subject = Whole \/ (s # Whole /\ hold[h].subject = s))}
ActiveOn(s) == {h \in OnSubject(s) : hold[h].status = "ACTIVE"}
Blocked(s, rule) == \E h \in ActiveOn(s) : rule \in hold[h].blocks

-----------------------------------------------------------------------------
\* Runs and what they record.

ReadForRun(r, rule) ==
  /\ ~Exists(run[r]) /\ policy = "ACTIVE" /\ rule \in rules
  /\ Checked([does |-> "createRun", run |-> r, rule |-> rule])

\* The unique active_rule_guard_key: one active run of a rule.
CreateRun(op) ==
  LET active == {r \in Runs : run[r].status \in {"QUEUED", "RUNNING"} /\ run[r].rule = op.rule}
  IN  /\ op.does = "createRun" /\ pending' = pending \ {op}
      /\ run' = IF active = {} /\ ~Exists(run[op.run])
                THEN [run EXCEPT ![op.run] = [status |-> "QUEUED", rule |-> op.rule]] ELSE run
      /\ UNCHANGED <<policy, rules, hold, decision, archive, destroyed, results, clock>>

StartRun(r) ==
  /\ run[r].status = "QUEUED" /\ run' = [run EXCEPT ![r].status = "RUNNING"]
  /\ UNCHANGED <<policy, rules, hold, decision, archive, destroyed, results, pending, clock>>

Running(r, rule) == run[r].status = "RUNNING" /\ run[r].rule = rule

ReadForArchive(r, a, s) ==
  /\ ~Exists(archive[a]) /\ Running(r, "ARCHIVE") /\ ~Blocked(s, "ARCHIVE")
  /\ Checked([does |-> "archive", archive |-> a, subject |-> s])

CreateArchive(op) ==
  /\ op.does = "archive" /\ pending' = pending \ {op}
  /\ archive' = [archive EXCEPT ![op.archive] =
       IF Exists(@) THEN @ ELSE [status |-> "AVAILABLE", subject |-> op.subject]]
  /\ UNCHANGED <<policy, rules, hold, decision, run, destroyed, results, clock>>

\* Mutant: an approval that was given before a hold is good again after it.
ReleasesForgotten(d, s) == TRUE

\* The approval must postdate the release of every hold that blocked destruction.
PostdatesReleases(d, s) ==
  \A h \in OnSubject(s) :
    (hold[h].status = "RELEASED" /\ "DESTROY" \in hold[h].blocks) => decision[d].at >= hold[h].released

\* a is an archive of the subject, available or not, or none.
ReadForDestruction(r, s, d, a) ==
  /\ Running(r, "DESTROY") /\ Governs(d, s) /\ Cardinality(destroyed) < MaxDestroyed
  /\ a # NoArchive => Exists(archive[a]) /\ archive[a].subject = s
  /\ PostdatesReleases(d, s) /\ ~Blocked(s, "DESTROY")
  /\ Checked([does |-> "destroy", subject |-> s, decision |-> d, archive |-> a, checked |-> clock])

CreateDestruction(op) ==
  /\ op.does = "destroy" /\ pending' = pending \ {op}
  /\ destroyed' = destroyed \cup
       {[subject |-> op.subject, decision |-> op.decision, checked |-> op.checked]}
  /\ archive' = IF op.archive = NoArchive THEN archive
                ELSE [archive EXCEPT ![op.archive].status = "DESTROYED"]
  /\ UNCHANGED <<policy, rules, hold, decision, run, results, clock>>

\* Evidence of the subject: of any run.
Evidenced(s, rule) ==
  IF rule = "DESTROY" THEN \E e \in destroyed : e.subject = s
  ELSE \E a \in Archives : Exists(archive[a]) /\ archive[a].subject = s

\* Mutant: a result looks for its evidence and not for holds.
ReadForResultUnheld(r, s, outcome) ==
  /\ run[r].status = "RUNNING" /\ ~ \E o \in results[r] : o.subject = s
  /\ outcome = "DONE" => Evidenced(s, run[r].rule)
  /\ Checked([does |-> "result", run |-> r, subject |-> s, outcome |-> outcome,
               checked |-> IF outcome = "DONE" THEN clock ELSE 0])

\* One result for a subject in a run: a SELECT makes sure, not a unique key.
\* EXCEPTION: HELD, which a blocking hold requires, FAILED or SKIPPED.
ReadForResult(r, s, outcome) ==
  /\ run[r].status = "RUNNING" /\ ~ \E o \in results[r] : o.subject = s
  /\ outcome = "DONE" => Evidenced(s, run[r].rule) /\ ~Blocked(s, run[r].rule)
  /\ Checked([does |-> "result", run |-> r, subject |-> s, outcome |-> outcome,
               checked |-> IF outcome = "DONE" THEN clock ELSE 0])

RecordItemResult(op) ==
  /\ op.does = "result" /\ pending' = pending \ {op}
  /\ results' = [results EXCEPT ![op.run] = @ \cup
       {[subject |-> op.subject, outcome |-> op.outcome, checked |-> op.checked,
         late |-> run[op.run].status # "RUNNING"]}]
  /\ UNCHANGED <<policy, rules, hold, decision, run, archive, destroyed, clock>>

\* The run is locked, and its results wait for it.  EXCEPTIONS: or all of them FAILED.
CompleteRun(r) ==
  /\ run[r].status = "RUNNING" /\ results[r] # {}
  /\ run' = [run EXCEPT ![r].status =
       IF \A o \in results[r] : o.outcome = "DONE" THEN "COMPLETED" ELSE "EXCEPTIONS"]
  /\ UNCHANGED <<policy, rules, hold, decision, archive, destroyed, results, pending, clock>>

Next ==
  \/ FreezePolicy \/ ActivatePolicy
  \/ \E rule \in {"ARCHIVE", "DESTROY"} : ReadForRule(rule) \/ \E r \in Runs : ReadForRun(r, rule)
  \/ \E s \in Subjects :
       \/ \E d \in Decisions : Approve(d, s)
       \/ \E h \in Holds, type \in HoldTypes, blocks \in Blocks : CreateHold(h, s, type, blocks)
       \/ \E r \in Runs :
            \/ \E a \in Archives : ReadForArchive(r, a, s)
            \/ \E d \in Decisions, a \in Archives \cup {NoArchive} : ReadForDestruction(r, s, d, a)
            \/ \E o \in {"DONE", "EXCEPTION"} : ReadForResult(r, s, o)
  \/ \E h \in Holds, d \in Decisions : ReleaseHold(h, d)
  \/ \E r \in Runs : StartRun(r) \/ CompleteRun(r)
  \/ \E op \in pending :
       \/ AddRule(op) \/ CreateRun(op) \/ CreateArchive(op)
       \/ CreateDestruction(op) \/ RecordItemResult(op)

Spec == Init /\ [][Next]_vars

-----------------------------------------------------------------------------
\* h was over at the time, or began no earlier than the check that could have seen it.
Over(h, time) == hold[h].status = "RELEASED" /\ hold[h].released <= time
Heeded(h, checked, time) == hold[h].imposed >= checked \/ Over(h, time)

\* No hold that blocked the destruction of a subject stands between its approval and
\* the check of its destruction.  One imposed after that check, and before the INSERT
\* or later, is what the result answers for: a subject reported as done has its
\* evidence, and every hold on it was over before the report was checked, or came
\* after.  A run that completed without exceptions reported nothing else but what was
\* inserted once it had completed.
DispositionsAccounted ==
  /\ \A e \in destroyed : \A h \in OnSubject(e.subject) :
       "DESTROY" \in hold[h].blocks => Heeded(h, e.checked, decision[e.decision].at)
  /\ \A r \in Runs : \A o \in results[r] : o.outcome = "DONE" =>
       /\ Evidenced(o.subject, run[r].rule)
       /\ \A h \in OnSubject(o.subject) :
            run[r].rule \in hold[h].blocks => Heeded(h, o.checked, o.checked)
  /\ \A r \in Runs : run[r].status = "COMPLETED" =>
       \A o \in results[r] : o.outcome = "DONE" \/ o.late

Overlap(s, t) == s = t \/ Whole \in {s, t}

\* "Retention expiry does not override an effective Hold"
\* (docs/decisions/ADR-0006-shared-control-plane-canonical-identities.md:171):
\* what contains a version that is held, or is contained in what is held, is not
\* destroyed.
HoldsEffective ==
  [][\A e \in destroyed' \ destroyed, h \in Holds :
       (hold[h].status = "ACTIVE" /\ hold[h].imposed < e.checked /\ "DESTROY" \in hold[h].blocks) =>
         ~Overlap(hold[h].subject, e.subject)]_vars
=============================================================================
