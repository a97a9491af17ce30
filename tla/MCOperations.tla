---------------------------- MODULE MCOperations ----------------------------
(***************************************************************************)
(* Small instances of the services a business is run with: those for what  *)
(* is made and handed over (controlled information, deliverables,          *)
(* publications, exchange packages, service orders, site work, source      *)
(* approvals, process plans and opportunities), and those that control     *)
(* work and records (work execution, the functional framework, the         *)
(* fulfilment of requirements, change control, migration control, records  *)
(* retention, the resolution of configurations and the runs of rule sets). *)
(* Each module holds all it reads and writes of the tables of the others:  *)
(* a behaviour of one is a behaviour of the whole whatever the others do,  *)
(* so a behaviour here is of the one that `service' names, and the others  *)
(* rest in their initial states.                                           *)
(***************************************************************************)
EXTENDS Naturals, TLC

CONSTANTS
  Revisions, Baselines, Iterations, InformationCallers,
  Items, Versions, Decisions, Parties, DeliverableCallers, AcceptanceRequired, MaxIssues,
  Transactions, Activities, PublicationSubjects, PublicationCallers, MaxAttempts,
  PackageItems, Deliveries, ExchangeCallers,
  Assignments, ServiceCallers,
  SiteIssues, SiteCallers, Times,
  Tuples, Approvals, Approvers, Dates,
  DefinitionVersions, Workflows, WorkItems, WorkCallers,
  GovernanceVersions, GovernanceCallers, MaxAllocations, LastDay, Percents,
  Actions, Discrepancies, MaxPendingRows,
  MigrationRuns, MigrationItems, Conflicts, Reconciliations, MaxPendingOperations,
  RecordVersions, Holds, DispositionDecisions, DispositionRuns, Archives, HoldTypes, Blocks, MaxRules,
  MaxEvents, MaxDestroyed, MaxPendingRecords,
  Projects, Capabilities, Persons, CapabilityCallers, Shares, MaxRows,
  ContextItems, ContextBaselines, EffectiveVersions, CriteriaSets, MandatoryKinds,
  BaselineWriters, LastTime,
  Rules, Grave, Binding, RuleVersions, Evaluations,
  Plans, Parts, Details, Rulings, Planners,
  Prospects, Positions, Sellers, MaxEdits

VARIABLES
  service,
  iStatus, successor, iteration, released, represented, issues, filled, iLocal, late,
  dStatus, bound, output, decision, reviewed, approvals, sent, recipients, responses,
  accepted, dLocal,
  transaction, original, activity, attempts, result, pLocal, stranded,
  package, items, frozen, lateItems, received, mapped, adopted, eLocal,
  order, assignment, recorded, lateAssignments, oLocal,
  work, progress, evidence, issue, lateWork, wLocal,
  supplier, approval, approving, cancelled,
  version, workflow, workItem, assigned, proof, lateItem, workLocal,
  governance, capacity, govLocal, unseen,
  change, outline, action, discrepancy, verifications, changePending, lateRows,
  plan, mapping, run, item, conflict, reconciliation, cutover, runPending, lateRuns,
  policy, rules, hold, approvalOf, disposition, archive, destroyed, results, recPending, clock,
  period, requirement, fulfilled, given, fLocal, overlapped,
  baseline, effectivity, confRun, cursor, failed, held, lateBaselines, confClock,
  member, latest, ruleRun, listed, outcome, ruleConflict, step, gone,
  processPlan, parts, ruling, task, latePart,
  opportunity, holder, form, ended, foreign

Inf == INSTANCE Information
  WITH Callers <- InformationCallers, status <- iStatus, local <- iLocal
Del == INSTANCE Deliverables
  WITH Callers <- DeliverableCallers, status <- dStatus, local <- dLocal
Pub == INSTANCE Publications
  WITH Subjects <- PublicationSubjects, Callers <- PublicationCallers, local <- pLocal
Exc == INSTANCE ExchangePackages
  WITH Items <- PackageItems, Callers <- ExchangeCallers, local <- eLocal
Svc == INSTANCE ServiceDelivery
  WITH Callers <- ServiceCallers, late <- lateAssignments, local <- oLocal
Sit == INSTANCE SiteProduction
  WITH Issues <- SiteIssues, Callers <- SiteCallers, package <- work, late <- lateWork,
       local <- wLocal
Sup == INSTANCE SupplierSourcing
Work == INSTANCE WorkExecution
  WITH Callers <- WorkCallers, item <- workItem, late <- lateItem, evidence <- proof,
       local <- workLocal
Fun == INSTANCE FunctionalFramework
  WITH Versions <- GovernanceVersions, Callers <- GovernanceCallers, local <- govLocal
Chg == INSTANCE ChangeControl
  WITH MaxPending <- MaxPendingRows, pending <- changePending, late <- lateRows
Mig == INSTANCE MigrationControl
  WITH Runs <- MigrationRuns, Items <- MigrationItems, MaxPending <- MaxPendingOperations,
       pending <- runPending, late <- lateRuns
Rec == INSTANCE RecordsRetention
  WITH Versions <- RecordVersions, Decisions <- DispositionDecisions, Runs <- DispositionRuns,
       MaxPending <- MaxPendingRecords, run <- disposition,
       decision <- approvalOf, pending <- recPending
Res == INSTANCE ResourceFulfilment
  WITH Callers <- CapabilityCallers, status <- requirement, local <- fLocal,
       unseen <- overlapped
Con == INSTANCE ConfigurationResolution
  WITH Items <- ContextItems, Baselines <- ContextBaselines, Versions <- EffectiveVersions,
       Definitions <- CriteriaSets, Mandatory <- MandatoryKinds, Writers <- BaselineWriters,
       run <- confRun, late <- lateBaselines, clock <- confClock
Val == INSTANCE ValidationRuns
  WITH Versions <- RuleVersions, run <- ruleRun, conflict <- ruleConflict
Man == INSTANCE ProcessPlans
  WITH plan <- processPlan
Sal == INSTANCE Opportunities

\* Dates and times are ordered, and the ids of rows of different tables are distinct:
\* of documents, of what a site records and of the rows of a change.
ASSUME OperationsAssumption ==
  /\ Dates \cup Times \subseteq Nat
  /\ Revisions \cap Baselines = {} /\ "none" \notin Revisions \cup Baselines
  /\ SiteIssues \cap Sit!Records = {}
  /\ Actions \cap Discrepancies = {}
  /\ {"row", "PASS", "FAIL"} \cap (Actions \cup Discrepancies) = {}
  /\ Fun!FrameworkAssumption /\ Res!ResourcesAssumption

infVars == <<iStatus, successor, iteration, released, represented, issues, filled, iLocal, late>>
delVars == <<dStatus, bound, output, decision, reviewed, approvals, sent, recipients, responses,
             accepted, dLocal>>
pubVars == <<transaction, original, activity, attempts, result, pLocal, stranded>>
excVars == <<package, items, frozen, lateItems, received, mapped, adopted, eLocal>>
svcVars == <<order, assignment, recorded, lateAssignments, oLocal>>
sitVars == <<work, progress, evidence, issue, lateWork, wLocal>>
supVars == <<supplier, approval, approving, cancelled>>
workVars == <<version, workflow, workItem, assigned, proof, lateItem, workLocal>>
funVars == <<governance, capacity, govLocal, unseen>>
chgVars == <<change, outline, action, discrepancy, verifications, changePending, lateRows>>
migVars == <<plan, mapping, run, item, conflict, reconciliation, cutover, runPending, lateRuns>>
recVars == <<policy, rules, hold, approvalOf, disposition, archive, destroyed, results,
             recPending, clock>>
resVars == <<period, requirement, fulfilled, given, fLocal, overlapped>>
conVars == <<baseline, effectivity, confRun, cursor, failed, held, lateBaselines, confClock>>
valVars == <<member, latest, ruleRun, listed, outcome, ruleConflict, step, gone>>
manVars == <<processPlan, parts, ruling, task, latePart>>
salVars == <<opportunity, holder, form, ended, foreign>>
vars == <<service, infVars, delVars, pubVars, excVars, svcVars, sitVars, supVars,
          workVars, funVars, chgVars, migVars, recVars, resVars,
          conVars, valVars, manVars, salVars>>

Init ==
  /\ service \in {"information", "deliverables", "publications", "exchange", "orders", "site",
                  "sourcing", "work", "framework", "change", "migration", "records", "resources",
                  "resolution", "validation", "plans", "sales"}
  /\ Inf!Init /\ Del!Init /\ Pub!Init /\ Exc!Init /\ Svc!Init /\ Sit!Init /\ Sup!Init
  /\ Work!Init /\ Fun!Init /\ Chg!Init /\ Mig!Init /\ Rec!Init /\ Res!Init
  /\ Con!Init /\ Val!Init /\ Man!Init /\ Sal!Init

OthersRest ==
  /\ UNCHANGED service
  /\ service # "information" => UNCHANGED infVars
  /\ service # "deliverables" => UNCHANGED delVars
  /\ service # "publications" => UNCHANGED pubVars
  /\ service # "exchange" => UNCHANGED excVars
  /\ service # "orders" => UNCHANGED svcVars
  /\ service # "site" => UNCHANGED sitVars
  /\ service # "sourcing" => UNCHANGED supVars
  /\ service # "work" => UNCHANGED workVars
  /\ service # "framework" => UNCHANGED funVars
  /\ service # "change" => UNCHANGED chgVars
  /\ service # "migration" => UNCHANGED migVars
  /\ service # "records" => UNCHANGED recVars
  /\ service # "resources" => UNCHANGED resVars
  /\ service # "resolution" => UNCHANGED conVars
  /\ service # "validation" => UNCHANGED valVars
  /\ service # "plans" => UNCHANGED manVars
  /\ service # "sales" => UNCHANGED salVars

InformationStep == service = "information" /\ OthersRest /\ Inf!Next
DeliverablesStep == service = "deliverables" /\ OthersRest /\ Del!Next
PublicationsStep == service = "publications" /\ OthersRest /\ Pub!Next
ExchangeStep == service = "exchange" /\ OthersRest /\ Exc!Next
OrdersStep == service = "orders" /\ OthersRest /\ Svc!Next
SiteStep == service = "site" /\ OthersRest /\ Sit!Next
SourcingStep == service = "sourcing" /\ OthersRest /\ Sup!Next
WorkStep == service = "work" /\ OthersRest /\ Work!Next
FrameworkStep == service = "framework" /\ OthersRest /\ Fun!Next
ChangeStep == service = "change" /\ OthersRest /\ Chg!Next
MigrationStep == service = "migration" /\ OthersRest /\ Mig!Next
RecordsStep == service = "records" /\ OthersRest /\ Rec!Next
ResourcesStep == service = "resources" /\ OthersRest /\ Res!Next
ResolutionStep == service = "resolution" /\ OthersRest /\ Con!Next
ValidationStep == service = "validation" /\ OthersRest /\ Val!Next
PlansStep == service = "plans" /\ OthersRest /\ Man!Next
SalesStep == service = "sales" /\ OthersRest /\ Sal!Next

Next ==
  \/ InformationStep \/ DeliverablesStep \/ PublicationsStep \/ ExchangeStep
  \/ OrdersStep \/ SiteStep \/ SourcingStep
  \/ WorkStep \/ FrameworkStep \/ ChangeStep \/ MigrationStep \/ RecordsStep
  \/ ResourcesStep \/ ResolutionStep \/ ValidationStep \/ PlansStep \/ SalesStep

Spec == Init /\ [][Next]_vars

\* See Information, SupplierSourcing and ProcessPlans: a superseded revision or
\* baseline leads to one in force, each tuple of a supplier has one approval in
\* force, and each process plan one version, approved as it is made.
ChainsEndInForce ==
  /\ service = "information" => Inf!ChainsEndInForce
  /\ service = "sourcing" => Sup!ApprovalsInLine
  /\ service = "plans" => Man!PlanInForce

\* See Information and Deliverables: what is issued was released, with the
\* iteration it names, and approved.
IssuedAsReleased ==
  /\ service = "information" => Inf!IssuedAsReleased
  /\ service = "deliverables" => Del!EachIssueApproved

\* See Publications: a transaction has completed only when its loop is closed.
LoopClosed == service = "publications" => Pub!LoopClosed

\* See ExchangePackages: what an adoption of authority rests on.
AdoptionsTraceable == service = "exchange" => Exc!AdoptionsTraceable

\* See ServiceDelivery and SiteProduction: the status of an order says what its
\* rows say, and completion of site work was earned and lasts.
FieldWorkStands ==
  /\ service = "orders" => Svc!OrderFollowsItsWork
  /\ service = "site" => Sit!CompletedIsDone

\* See WorkExecution, ValidationRuns and ConfigurationResolution: a workflow closes
\* with its work, a verdict rests on its results, and a resolution can be repeated.
OutcomesStand ==
  /\ service = "work" => Work!ClosedIsDone
  /\ service = "validation" => Val!VerdictsFounded
  /\ service = "resolution" => Con!Repeatable

\* See FunctionalFramework and ResourceFulfilment: limits hold but for what
\* a check could not see.
LimitsKept ==
  /\ service = "framework" => Fun!LimitsKept
  /\ service = "resources" => Res!GivenOnce

\* See ChangeControl and Opportunities: nothing is left open by the closure of a
\* change, and an opportunity stays as it was closed.
ClosedIsSettled ==
  /\ service = "change" => Chg!ClosedIsSettled
  /\ service = "sales" => Sal!ClosedForGood

\* See MigrationControl: what a reconciled run rests on.
ReconciledIsClean == service = "migration" => Mig!ReconciledIsClean

\* See RecordsRetention: what was destroyed, and what was reported done, against
\* the holds there have been.
DispositionsAccounted == service = "records" => Rec!DispositionsAccounted

\* The two of a kind that a configuration names alike in several services: no
\* module tells them apart, and none chooses among them.
Interchangeable == Permutations(InformationCallers)
=============================================================================
