----------------------- MODULE ConfigurationPromotion -----------------------
(***************************************************************************)
(* The promotion of one configuration change set to one target environment *)
(* (packages/persistence/src/configuration-promotion-repository.ts, with   *)
(* the rules of packages/kernel/src/configuration-promotion-factories.ts). *)
(*                                                                         *)
(* A baseline of the target is found by the time it was frozen at, which   *)
(* the command takes before its transaction; so does the start of a run.   *)
(* Rows are checked through the pool and inserted by a later transaction   *)
(* that checks nothing.  pending holds both: what was stamped or checked   *)
(* and is not yet written.  One run at most is QUEUED or RUNNING           *)
(* (active_target_guard_key, migration 0037).                              *)
(*                                                                         *)
(* The start and the completion of a run lock its row, which makes rows    *)
(* that refer to it wait, and read baselines, results and conflicts by     *)
(* plain SELECTs before they write: held is what they are about to write.  *)
(***************************************************************************)
EXTENDS Naturals, FiniteSets

CONSTANTS
  Baselines,    \* of the target environment
  Items,        \* of the change set
  Runs,
  MaxPending,   \* bound: commands between their two steps
  MaxTime       \* bound: the clock

VARIABLES
  baseline,     \* [status, frozen, filled] of each baseline
  changeSet,    \* status of the change set
  items,        \* its rows
  sealed,       \* the items its checksum was computed from
  run,          \* [status, expected, started, resulting] of each run
  result,       \* the outcome a run recorded for each item
  conflict,     \* a blocking conflict of each run
  held,         \* the row that a transaction is about to write of a run it has
                \* locked: a set of one, or none
  pending, clock,
  drift,        \* history: baselines frozen since the start of a run read the latest
  overlooked,   \* history: those frozen after its completion had looked for drift
  late          \* history: runs whose conflict was inserted when they had completed

baselineVars == <<baseline, drift, overlooked>>
setVars == <<changeSet, items, sealed>>
rowVars == <<result, conflict, late>>
runVars == <<run, held, rowVars>>
vars == <<baselineVars, setVars, runVars, pending, clock>>

None == "NONE"
Outcomes == {"APPLIED", "FAILED", "CONFLICT"}
Ended == {"SUCCEEDED", "FAILED", "BLOCKED"}

TypeOK ==
  /\ \A b \in Baselines :
       /\ baseline[b].status \in {None, "DRAFT", "FROZEN"}
       /\ baseline[b].frozen \in 0..clock /\ baseline[b].filled \in BOOLEAN
  /\ changeSet \in {"DRAFT", "FROZEN", "APPROVED"}
  /\ items \subseteq Items /\ sealed \subseteq items
  /\ \A r \in Runs :
       /\ run[r].status \in {None, "QUEUED", "RUNNING"} \cup Ended
       /\ run[r].expected \in Baselines \cup {None}
       /\ run[r].resulting \in Baselines \cup {None} /\ run[r].started \in 0..clock
  /\ result \in [Runs -> [Items -> Outcomes \cup {None}]]
  /\ conflict \in [Runs -> {None, "OPEN", "DISPOSITIONED"}]
  /\ Cardinality(pending) <= MaxPending /\ clock \in 0..MaxTime
  /\ \A r \in Runs : \A row \in held[r] : row.status \in {"RUNNING"} \cup Ended
  /\ drift \in [Runs -> SUBSET Baselines] /\ overlooked \in [Runs -> SUBSET Baselines]
  /\ late \subseteq Runs

Init ==
  /\ baseline = [b \in Baselines |-> [status |-> None, frozen |-> 0, filled |-> FALSE]]
  /\ changeSet = "DRAFT" /\ items = {} /\ sealed = {}
  /\ run = [r \in Runs |->
              [status |-> None, expected |-> None, started |-> 0, resulting |-> None]]
  /\ result = [r \in Runs |-> [i \in Items |-> None]]
  /\ conflict = [r \in Runs |-> None]
  /\ pending = {} /\ clock = 0 /\ held = [r \in Runs |-> {}]
  /\ drift = [r \in Runs |-> {}] /\ overlooked = drift /\ late = {}

-----------------------------------------------------------------------------
\* The first step of a command, and the end of its second.

Prepare(command) ==
  /\ Cardinality(pending) < MaxPending /\ pending' = pending \cup {command}
  /\ UNCHANGED <<baselineVars, setVars, runVars, clock>>

Perform(command) == pending' = pending \ {command} /\ UNCHANGED clock

\* The second step finds a row, a status or a key against it and throws.
Fail(command) == Perform(command) /\ UNCHANGED <<baselineVars, setVars, runVars>>

-----------------------------------------------------------------------------
\* Baselines of the target.

CreateBaseline(b) ==
  /\ baseline[b].status = None /\ baseline' = [baseline EXCEPT ![b].status = "DRAFT"]
  /\ UNCHANGED <<drift, overlooked, setVars, runVars, pending, clock>>

CheckBaselineItem(b) ==
  /\ baseline[b].status = "DRAFT" /\ ~baseline[b].filled
  /\ Prepare([of |-> "baselineItem", baseline |-> b])

AddBaselineItem(command) ==
  /\ command.of = "baselineItem" /\ Perform(command)
  /\ baseline' = [baseline EXCEPT ![command.baseline].filled = TRUE]
  /\ UNCHANGED <<drift, overlooked, setVars, runVars>>

StampFreeze(b) ==
  /\ baseline[b].status = "DRAFT" /\ Prepare([of |-> "freeze", baseline |-> b, at |-> clock])

\* The start of r has read the latest baseline.
Started(r) == run[r].status = "RUNNING" \/ \E row \in held[r] : row.status = "RUNNING"

FreezeBaseline(command) ==
  LET b == command.baseline
  IN
  /\ command.of = "freeze" /\ Perform(command)
  /\ baseline[b].status = "DRAFT" /\ baseline[b].filled
  /\ baseline' = [baseline EXCEPT ![b] =
       [status |-> "FROZEN", frozen |-> command.at, filled |-> @.filled]]
  /\ drift' = [r \in Runs |->
                 IF Started(r) THEN drift[r] \cup {b} ELSE drift[r]]
  /\ overlooked' = [r \in Runs |->
                      IF held[r] # {} THEN overlooked[r] \cup {b} ELSE overlooked[r]]
  /\ UNCHANGED <<setVars, runVars>>

Frozen == {b \in Baselines : baseline[b].status = "FROZEN"}

\* requireLatestFrozenBaseline; identifiers decide between equal times.
Latest == {b \in Frozen : \A c \in Frozen : baseline[c].frozen <= baseline[b].frozen}

-----------------------------------------------------------------------------
\* The change set.

CheckChangeItem(i) ==
  changeSet = "DRAFT" /\ i \notin items /\ Prepare([of |-> "changeItem", item |-> i])

AddChangeItem(command) ==
  /\ command.of = "changeItem" /\ Perform(command)
  /\ items' = items \cup {command.item}
  /\ UNCHANGED <<changeSet, sealed, baselineVars, runVars>>

FreezeChangeSet ==
  /\ changeSet = "DRAFT" /\ items # {}
  /\ changeSet' = "FROZEN" /\ sealed' = items
  /\ UNCHANGED <<items, baselineVars, runVars, pending, clock>>

ApproveChangeSet ==
  /\ changeSet = "FROZEN" /\ changeSet' = "APPROVED"
  /\ UNCHANGED <<items, sealed, baselineVars, runVars, pending, clock>>

-----------------------------------------------------------------------------
\* Runs.

CheckRun(r) ==
  /\ changeSet = "APPROVED" /\ run[r].status = None
  /\ \E b \in Latest : Prepare([of |-> "run", run |-> r, baseline |-> b])

Active == {r \in Runs : run[r].status \in {"QUEUED", "RUNNING"}}

CreatePromotionRun(command) ==
  /\ command.of = "run" /\ Perform(command)
  /\ Active = {} /\ run[command.run].status = None
  /\ run' = [run EXCEPT ![command.run] =
       [status |-> "QUEUED", expected |-> command.baseline, started |-> 0, resulting |-> None]]
  /\ UNCHANGED <<held, rowVars, baselineVars, setVars>>

StampStart(r) ==
  run[r].status = "QUEUED" /\ Prepare([of |-> "start", run |-> r, at |-> clock])

\* Not when another transaction has locked it.
Hold(r, row) ==
  held[r] = {} /\ held' = [held EXCEPT ![r] = {row}] /\ UNCHANGED <<run, rowVars>>

StartPromotionRun(command) ==
  LET r == command.run
  IN
  /\ command.of = "start" /\ Perform(command)
  /\ run[r].status = "QUEUED" /\ run[r].expected \in Latest
  /\ Hold(r, [status |-> "RUNNING", expected |-> run[r].expected,
               started |-> command.at, resulting |-> None])
  /\ UNCHANGED <<baselineVars, setVars>>

CheckResult(r, i, outcome) ==
  /\ run[r].status = "RUNNING" /\ i \in items
  /\ Prepare([of |-> "result", run |-> r, item |-> i, outcome |-> outcome])

RecordItemResult(command) ==
  /\ command.of = "result" /\ Perform(command) /\ held[command.run] = {}
  /\ result[command.run][command.item] = None
  /\ result' = [result EXCEPT ![command.run] = [@ EXCEPT ![command.item] = command.outcome]]
  /\ UNCHANGED <<run, held, conflict, late, baselineVars, setVars>>

CheckConflict(r) ==
  run[r].status = "RUNNING" /\ conflict[r] = None /\ Prepare([of |-> "conflict", run |-> r])

CreateConflict(command) ==
  LET r == command.run
  IN
  /\ command.of = "conflict" /\ Perform(command) /\ held[r] = {}
  /\ conflict[r] = None /\ conflict' = [conflict EXCEPT ![r] = "OPEN"]
  /\ late' = IF run[r].status \in Ended THEN late \cup {r} ELSE late
  /\ UNCHANGED <<run, held, result, baselineVars, setVars>>

\* Whatever the state of the run, which is read without a lock.
DispositionConflict(r) ==
  /\ conflict[r] = "OPEN" /\ conflict' = [conflict EXCEPT ![r] = "DISPOSITIONED"]
  /\ UNCHANGED <<run, held, result, late, baselineVars, setVars, pending, clock>>

\* Mutant: nothing is looked for after the resulting baseline.
DriftedBetween(r, b) ==
  \E c \in Frozen : run[r].started < baseline[c].frozen /\ baseline[c].frozen < baseline[b].frozen

\* Another baseline of the target has been frozen since the run started.
Drifted(r, b) == \E c \in Frozen \ {b} : baseline[c].frozen > run[r].started

\* completeConfigurationPromotionRun: what becomes of a run.
Outcome(r) ==
  LET outcomes == {result[r][i] : i \in items}
  IN  IF conflict[r] = "OPEN" \/ "CONFLICT" \in outcomes THEN "BLOCKED"
      ELSE IF "FAILED" \in outcomes THEN "FAILED" ELSE "SUCCEEDED"

CompletePromotionRun(r, b) ==
  /\ run[r].status = "RUNNING"
  /\ \A i \in items : result[r][i] # None
  /\ IF Outcome(r) = "SUCCEEDED"
     THEN b \in Frozen /\ baseline[b].frozen >= run[r].started /\ ~Drifted(r, b)
     ELSE b = None
  /\ Hold(r, [status |-> Outcome(r), expected |-> run[r].expected,
               started |-> run[r].started, resulting |-> b])
  /\ overlooked' = [overlooked EXCEPT ![r] = {}]
  /\ UNCHANGED <<baseline, drift, setVars, pending, clock>>

\* The UPDATE and the commit of a start or a completion, or its end without them.
WriteRun(r) ==
  \E row \in held[r] :
    /\ run' = [run EXCEPT ![r] = row] /\ held' = [held EXCEPT ![r] = {}]
    /\ UNCHANGED <<rowVars, baselineVars, setVars, pending, clock>>

RollBack(r) ==
  /\ held[r] # {} /\ held' = [held EXCEPT ![r] = {}]
  /\ UNCHANGED <<run, rowVars, baselineVars, setVars, pending, clock>>

Tick == clock < MaxTime /\ clock' = clock + 1 /\ UNCHANGED <<baselineVars, setVars, runVars, pending>>

Next ==
  \/ \E b \in Baselines : CreateBaseline(b) \/ CheckBaselineItem(b) \/ StampFreeze(b)
  \/ \E i \in Items : CheckChangeItem(i)
  \/ FreezeChangeSet \/ ApproveChangeSet
  \/ \E r \in Runs :
       \/ CheckRun(r) \/ StampStart(r) \/ CheckConflict(r) \/ DispositionConflict(r)
       \/ WriteRun(r) \/ RollBack(r)
       \/ \E i \in Items, outcome \in Outcomes : CheckResult(r, i, outcome)
       \/ \E b \in Baselines \cup {None} : CompletePromotionRun(r, b)
  \/ \E command \in pending :
       \/ AddBaselineItem(command) \/ FreezeBaseline(command) \/ AddChangeItem(command)
       \/ CreatePromotionRun(command) \/ StartPromotionRun(command)
       \/ RecordItemResult(command) \/ CreateConflict(command) \/ Fail(command)
  \/ Tick

Spec == Init /\ [][Next]_vars

-----------------------------------------------------------------------------
\* "Target configuration drift detected during promotion execution.": a promotion
\* that succeeded applied every item of the approved checksum, with no blocking
\* conflict but one inserted afterwards; and no baseline of the target but its own
\* was frozen from its start to the moment its completion looked for drift, unless
\* at a time read no later than the start.  One frozen between that look and the
\* UPDATE is what the completion cannot see.
PromotedUndisturbed ==
  \A r \in Runs : run[r].status = "SUCCEEDED" =>
    /\ \A i \in sealed : result[r][i] = "APPLIED"
    /\ conflict[r] = "OPEN" => r \in late
    /\ \A b \in drift[r] \ overlooked[r] :
         b = run[r].resulting \/ baseline[b].frozen <= run[r].started
=============================================================================
