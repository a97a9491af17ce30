----------------------------- MODULE ValidationRuns -----------------------------
(***************************************************************************)
(* The governed validation a command passes through                        *)
(* (packages/persistence/src/validation-execution-service.ts,              *)
(* validation-policy-repository.ts): the release of an information         *)
(* revision and the closure of a change evaluate the rule set of their     *)
(* code and go on unless it blocks.                                        *)
(*                                                                         *)
(* An evaluation reads the rule set, then its members, and writes the run, *)
(* each result and each conflict in a transaction of its own, while rule   *)
(* sets get new versions and members.  A rule of the model is a rule with  *)
(* its membership; what a handler answers is left open.  Periods of        *)
(* effect are left out.                                                    *)
(***************************************************************************)
EXTENDS Naturals

CONSTANTS
  Rules,
  Grave,       \* rules whose severity is ERROR or BLOCKING
  Binding,     \* rules that are mandatory members
  Versions,    \* of the rule set: 1..n
  Evaluations  \* one for each command that is attempted

VARIABLES
  member,      \* the rules of each version
  latest,      \* the newest version of the rule set; 0 before there is one
  run,         \* evaluation_status of each run
  listed,      \* the members an evaluation has read
  outcome,     \* <<evaluation, rule>> |-> what the handler answered
  conflict,    \* status of the conflict of a result
  step,        \* where an evaluation stands
  gone         \* the commands that went through

ruleVars == <<member, latest>>
vars == <<ruleVars, run, listed, outcome, conflict, step, gone>>

Pairs == Evaluations \X Rules
Answers == {"PASSED", "FAILED", "NOT_APPLICABLE", "ERROR"}
Ended == {"PASSED", "FAILED", "ERROR"}

TypeOK ==
  /\ member \in [Versions -> SUBSET Rules] /\ latest \in {0} \cup Versions
  /\ run \in [Evaluations -> {"NONE", "RUNNING"} \cup Ended]
  /\ listed \in [Evaluations -> SUBSET Rules]
  /\ outcome \in [Pairs -> {"NONE"} \cup Answers]
  /\ conflict \in [Pairs -> {"NONE", "OPEN", "RESOLVED", "WAIVED", "CANCELLED"}]
  /\ \A e \in Evaluations :
       step[e].at \in {"start", "chosen", "listed", "running", "result", "cleared", "over"}
  /\ gone \subseteq Evaluations

Init ==
  /\ member = [v \in Versions |-> {}] /\ latest = 0
  /\ run = [e \in Evaluations |-> "NONE"]
  /\ listed = [e \in Evaluations |-> {}]
  /\ outcome = [p \in Pairs |-> "NONE"] /\ conflict = [p \in Pairs |-> "NONE"]
  /\ step = [e \in Evaluations |-> [at |-> "start"]]
  /\ gone = {}

Goes(e, to) == step' = [step EXCEPT ![e] = to]
At(e, where) == step[e].at = where

-----------------------------------------------------------------------------
\* The rule set.

\* createRuleSet: a new version is in force before it has a member.
CreateRuleSet ==
  /\ latest + 1 \in Versions /\ latest' = latest + 1
  /\ UNCHANGED <<member, run, listed, outcome, conflict, step, gone>>

\* addRuleSetMember; rules and rule sets are created ACTIVE and stay so.
AddRuleSetMember(v, r) ==
  /\ v \leq latest /\ member' = [member EXCEPT ![v] = @ \cup {r}]
  /\ UNCHANGED <<latest, run, listed, outcome, conflict, step, gone>>

-----------------------------------------------------------------------------
\* evaluateRuleSetForCommand.

\* getActiveRuleSetByCode: where nothing is configured, nothing is evaluated.
ChooseRuleSet(e) ==
  /\ At(e, "start")
  /\ Goes(e, IF latest = 0 THEN [at |-> "cleared"] ELSE [at |-> "chosen", on |-> latest])
  /\ UNCHANGED <<ruleVars, run, listed, outcome, conflict, gone>>

ListMembers(e) ==
  /\ At(e, "chosen") /\ listed' = [listed EXCEPT ![e] = member[step[e].on]]
  /\ Goes(e, [at |-> "listed"])
  /\ UNCHANGED <<ruleVars, run, outcome, conflict, gone>>

CreateRun(e) ==
  /\ At(e, "listed") /\ run' = [run EXCEPT ![e] = "RUNNING"]
  /\ Goes(e, [at |-> "running"])
  /\ UNCHANGED <<ruleVars, listed, outcome, conflict, gone>>

Judged(e) == {r \in listed[e] : outcome[<<e, r>>] # "NONE"}

\* createRuleResult, once a handler has answered.
RecordResult(e, r, answer) ==
  /\ At(e, "running") /\ r \in listed[e] \ Judged(e)
  /\ outcome' = [outcome EXCEPT ![<<e, r>>] = answer]
  /\ Goes(e, [at |-> "result", of |-> r])
  /\ UNCHANGED <<ruleVars, run, listed, conflict, gone>>

Failed(e, r) == outcome[<<e, r>>] \in {"FAILED", "ERROR"}
Material(e, r) == Failed(e, r) /\ r \in Binding \cup Grave

\* createConflict, for a result that is material.
OpenConflict(e) ==
  /\ At(e, "result")
  /\ LET r == step[e].of
     IN conflict' = IF Material(e, r) THEN [conflict EXCEPT ![<<e, r>>] = "OPEN"] ELSE conflict
  /\ Goes(e, [at |-> "running"])
  /\ UNCHANGED <<ruleVars, run, listed, outcome, gone>>

InError(e) == \E r \in listed[e] \cap Binding : outcome[<<e, r>>] = "ERROR"

\* Mutant: a rule that could not be evaluated does not block.
BlocksOnFailure(e) == \E r \in listed[e] \cap Binding \cap Grave : outcome[<<e, r>>] = "FAILED"

Blocked(e) ==
  \/ \E r \in listed[e] \cap Binding \cap Grave : Failed(e, r)
  \/ InError(e)

CompleteRun(e) ==
  /\ At(e, "running") /\ Judged(e) = listed[e]
  /\ run' = [run EXCEPT ![e] = IF InError(e) THEN "ERROR"
                               ELSE IF Blocked(e) THEN "FAILED" ELSE "PASSED"]
  /\ Goes(e, [at |-> IF Blocked(e) THEN "over" ELSE "cleared"])
  /\ UNCHANGED <<ruleVars, listed, outcome, conflict, gone>>

\* A statement fails: the run is completed in ERROR, unless that fails as well,
\* and the command with it.
EvaluationFails(e) ==
  /\ step[e].at \in {"listed", "running", "result"}
  /\ \/ run' = [run EXCEPT ![e] = IF @ = "RUNNING" THEN "ERROR" ELSE @]
     \/ UNCHANGED run
  /\ Goes(e, [at |-> "over"])
  /\ UNCHANGED <<ruleVars, listed, outcome, conflict, gone>>

\* What the command does, in the transaction that follows.
GoThrough(e) ==
  /\ At(e, "cleared") /\ gone' = gone \cup {e}
  /\ Goes(e, [at |-> "over"])
  /\ UNCHANGED <<ruleVars, run, listed, outcome, conflict>>

\* dispositionConflict: the row is guarded by its status.
DispositionConflict(p, to) ==
  /\ conflict[p] = "OPEN" /\ conflict' = [conflict EXCEPT ![p] = to]
  /\ UNCHANGED <<ruleVars, run, listed, outcome, step, gone>>

Next ==
  \/ CreateRuleSet
  \/ \E v \in Versions, r \in Rules : AddRuleSetMember(v, r)
  \/ \E e \in Evaluations :
       \/ ChooseRuleSet(e) \/ ListMembers(e) \/ CreateRun(e)
       \/ \E r \in Rules, answer \in Answers : RecordResult(e, r, answer)
       \/ OpenConflict(e) \/ CompleteRun(e) \/ EvaluationFails(e) \/ GoThrough(e)
  \/ \E p \in Pairs, to \in {"RESOLVED", "WAIVED", "CANCELLED"} : DispositionConflict(p, to)

Spec == Init /\ [][Next]_vars

-----------------------------------------------------------------------------
\* What an evaluation says rests on what it recorded: a command went through
\* only where nothing was configured or a run PASSED, a run PASSED only with a
\* result for each member it read, none of a binding rule that failed gravely or
\* could not be evaluated, and no run that was judged to its end lacks the
\* conflict of a material result, whatever statement failed in between.
VerdictsFounded ==
  \A e \in Evaluations :
    /\ e \in gone => run[e] = "PASSED" \/ (run[e] = "NONE" /\ listed[e] = {})
    /\ run[e] = "PASSED" =>
         /\ Judged(e) = listed[e]
         /\ \A r \in listed[e] \cap Binding :
              /\ outcome[<<e, r>>] # "ERROR"
              /\ r \in Grave => outcome[<<e, r>>] # "FAILED"
    /\ run[e] \in {"PASSED", "FAILED"} =>
         \A r \in listed[e] : Material(e, r) <=> conflict[<<e, r>>] # "NONE"
=============================================================================
