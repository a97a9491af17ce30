----------------------------- MODULE Commercial -----------------------------
(***************************************************************************)
(* The commercial papers of one project                                    *)
(* (packages/persistence/src/commercial-repository.ts, with the rules of   *)
(* packages/kernel/src/commercial-factories.ts): a cost plan and its       *)
(* versions, a variation and its versions.  CommercialAccounts has the     *)
(* valuations, forecasts and final accounts.                               *)
(*                                                                         *)
(* A transition locks the paper and adds up or counts its lines.  A line   *)
(* or a version is checked through the pool and inserted later by a        *)
(* transaction that checks nothing (pending).  A decision locks the        *)
(* variation, not the version it reads (deciding).                         *)
(***************************************************************************)
EXTENDS Integers, FiniteSets

CONSTANTS
  Versions,     \* versions, of the cost plan and of the variation
  Submitted,    \* submitted_amount of every variation version
  MaxLines,     \* bound: lines of a version; each is of the amount 1
  MaxPending    \* bound: lines and versions checked and not yet inserted

VARIABLES
  costVersion, costed,   \* status of each cost plan version; those with lines
  variation,             \* status of the variation
  version, lines,        \* status and number of lines of each variation version
  decided,               \* versions with a commercial_variation_decisions row
  deciding,              \* version a decision has read ISSUED under the variation's lock
  pending,
  late,                  \* history: lines inserted in versions that had been issued
  overtaken              \* history: versions superseded under a decision that had read them

costVars == <<costVersion, costed>>
variationVars == <<variation, version, lines, decided, deciding, late, overtaken>>
vars == <<costVars, variationVars, pending>>

None == "NONE"

TypeOK ==
  /\ costVersion \in [Versions -> {None, "DRAFT", "APPROVED", "SUPERSEDED"}]
  /\ variation \in {"OPEN", "CLOSED", "CANCELLED"}
  /\ version \in [Versions -> {None, "DRAFT", "ISSUED", "SUPERSEDED"}]
  /\ lines \in [Versions -> 0..MaxLines] /\ late \in [Versions -> 0..MaxLines]
  /\ costed \subseteq Versions /\ decided \subseteq Versions /\ overtaken \subseteq Versions
  /\ deciding \in Versions \cup {None}
  /\ Cardinality(pending) <= MaxPending

Init ==
  /\ costVersion = [v \in Versions |-> None] /\ costed = {}
  /\ variation = "OPEN"
  /\ version = [v \in Versions |-> None]
  /\ lines = [v \in Versions |-> 0] /\ late = [v \in Versions |-> 0]
  /\ decided = {} /\ deciding = None /\ overtaken = {}
  /\ pending = {}

-----------------------------------------------------------------------------
\* Rows: the check and the insertion.

Check(row) ==
  /\ Cardinality(pending) < MaxPending /\ pending' = pending \cup {row}
  /\ UNCHANGED <<costVars, variationVars>>

CheckCostPlanLine(v) == costVersion[v] = "DRAFT" /\ Check([of |-> "costLine", version |-> v])

CheckVariationVersion(v) ==
  variation = "OPEN" /\ version[v] = None /\ Check([of |-> "version", version |-> v])

CheckVariationLine(v) == version[v] = "DRAFT" /\ Check([of |-> "line", version |-> v])

AddCostPlanLine(row) ==
  /\ row.of = "costLine" /\ pending' = pending \ {row}
  /\ costed' = costed \cup {row.version}
  /\ UNCHANGED <<costVersion, variationVars>>

CreateVariationVersion(row) ==
  /\ row.of = "version" /\ pending' = pending \ {row}
  /\ version[row.version] = None /\ version' = [version EXCEPT ![row.version] = "DRAFT"]
  /\ UNCHANGED <<variation, lines, decided, deciding, late, overtaken, costVars>>

AddVariationLine(row) ==
  LET v == row.version
  IN
  /\ row.of = "line" /\ pending' = pending \ {row}
  /\ lines[v] < MaxLines /\ lines' = [lines EXCEPT ![v] = @ + 1]
  /\ late' = IF version[v] # "DRAFT" THEN [late EXCEPT ![v] = @ + 1] ELSE late
  /\ UNCHANGED <<variation, version, decided, deciding, overtaken, costVars>>

-----------------------------------------------------------------------------
\* Cost plan versions.

CreateCostPlanVersion(v) ==
  /\ costVersion[v] = None /\ costVersion' = [costVersion EXCEPT ![v] = "DRAFT"]
  /\ UNCHANGED <<costed, variationVars, pending>>

\* Whatever the order of the numbers: a later version is superseded as well.
ApproveCostPlanVersion(v) ==
  /\ costVersion[v] = "DRAFT" /\ v \in costed
  /\ costVersion' = [w \in Versions |->
                       IF w = v THEN "APPROVED"
                       ELSE IF costVersion[w] = "APPROVED" THEN "SUPERSEDED" ELSE costVersion[w]]
  /\ UNCHANGED <<costed, variationVars, pending>>

-----------------------------------------------------------------------------
\* Variation versions.

\* Mutant: what is short of the submitted amount may follow.
ReconcilesSoFar(v) == lines[v] <= Submitted

Reconciles(v) == lines[v] = Submitted

\* Whatever the status of the variation.
IssueVariationVersion(v) ==
  /\ version[v] = "DRAFT" /\ Reconciles(v)
  /\ version' = [w \in Versions |->
                   IF w = v THEN "ISSUED"
                   ELSE IF version[w] = "ISSUED" THEN "SUPERSEDED" ELSE version[w]]
  /\ overtaken' = IF deciding # None THEN overtaken \cup {deciding} ELSE overtaken
  /\ UNCHANGED <<variation, lines, decided, deciding, late, costVars, pending>>

\* decideVariation: the reads, under the lock of the variation, and the writes.
ReadForDecision(v) ==
  /\ deciding = None /\ variation = "OPEN" /\ version[v] = "ISSUED"
  /\ deciding' = v
  /\ UNCHANGED <<variation, version, lines, decided, late, overtaken, costVars, pending>>

DecideVariation(outcome) ==
  /\ deciding # None
  /\ variation' = outcome /\ decided' = decided \cup {deciding} /\ deciding' = None
  /\ UNCHANGED <<version, lines, late, overtaken, costVars, pending>>

Next ==
  \/ \E v \in Versions :
       \/ CheckCostPlanLine(v) \/ CheckVariationVersion(v) \/ CheckVariationLine(v)
       \/ CreateCostPlanVersion(v) \/ ApproveCostPlanVersion(v)
       \/ IssueVariationVersion(v) \/ ReadForDecision(v)
  \/ \E row \in pending :
       \/ AddCostPlanLine(row) \/ CreateVariationVersion(row)
       \/ AddVariationLine(row)
  \/ \E outcome \in {"CLOSED", "CANCELLED"} : DecideVariation(outcome)

Spec == Init /\ [][Next]_vars

-----------------------------------------------------------------------------
Is(status, f) == {v \in Versions : f[v] = status}

\* "Variation line total ... does not reconcile to submitted amount": the lines of
\* an issued version are those it was reconciled with, and lines that were checked
\* before and inserted after.  A plan has one APPROVED version and a variation one
\* ISSUED; a variation is decided once, on a version that was ISSUED as it closed
\* or that another overtook meanwhile.
FiguresStand ==
  /\ \A v \in Is("ISSUED", version) \cup Is("SUPERSEDED", version) \cup decided :
       lines[v] - late[v] = Submitted
  /\ \A v, w \in Is("APPROVED", costVersion) : v = w
  /\ \A v, w \in Is("ISSUED", version) : v = w
  /\ variation = "OPEN" <=> decided = {}
  /\ \A v, w \in decided : v = w
  /\ deciding # None => version[deciding] = "ISSUED" \/ deciding \in overtaken
=============================================================================
