------------------------- MODULE CommercialAccounts -------------------------
(***************************************************************************)
(* A valuation, a forecast and a final account                             *)
(* (packages/persistence/src/commercial-repository.ts, with the rules of   *)
(* packages/kernel/src/commercial-factories.ts).  The transitions lock the *)
(* row and count its lines; a line is checked through the pool and         *)
(* inserted later by a transaction that checks nothing (pending).          *)
(***************************************************************************)
EXTENDS Naturals, FiniteSets

CONSTANTS
  MaxLines,    \* bound: lines of a paper
  MaxPending   \* bound: lines checked and not yet inserted

VARIABLES
  status, lines, pending,
  counted   \* history: lines a valuation or forecast had, or had checked, as it left DRAFT

vars == <<status, lines, pending, counted>>

Papers == {"valuation", "forecast", "account"}
Itemised == Papers \ {"account"}

TypeOK ==
  /\ status \in [Papers -> {"DRAFT", "SUBMITTED", "CERTIFIED", "APPROVED", "AGREED", "CLOSED"}]
  /\ lines \in [Itemised -> 0..MaxLines] /\ counted \in [Itemised -> 0..MaxLines + MaxPending]
  /\ pending \in [Itemised -> 0..MaxPending]

Init ==
  /\ status = [p \in Papers |-> "DRAFT"]
  /\ lines = [p \in Itemised |-> 0] /\ counted = [p \in Itemised |-> 0]
  /\ pending = [p \in Itemised |-> 0]

CheckLine(p) ==
  /\ status[p] = "DRAFT" /\ pending[p] < MaxPending
  /\ pending' = [pending EXCEPT ![p] = @ + 1]
  /\ UNCHANGED <<status, lines, counted>>

\* addValuationLine and addForecastLine, whatever has become of the paper.
AddLine(p) ==
  /\ pending[p] > 0 /\ pending' = [pending EXCEPT ![p] = @ - 1]
  /\ lines[p] < MaxLines /\ lines' = [lines EXCEPT ![p] = @ + 1]
  /\ UNCHANGED <<status, counted>>

Becomes(p, from, to) ==
  status[p] = from /\ status' = [status EXCEPT ![p] = to] /\ UNCHANGED <<lines, pending>>

Leaves(p, to) ==
  /\ lines[p] > 0 /\ Becomes(p, "DRAFT", to)
  /\ counted' = [counted EXCEPT ![p] = lines[p] + pending[p]]

SubmitValuation == Leaves("valuation", "SUBMITTED")
CertifyValuation == Becomes("valuation", "SUBMITTED", "CERTIFIED") /\ UNCHANGED counted
CloseValuation == Becomes("valuation", "CERTIFIED", "CLOSED") /\ UNCHANGED counted
ApproveForecast == Leaves("forecast", "APPROVED")
AgreeFinalAccount == Becomes("account", "DRAFT", "AGREED") /\ UNCHANGED counted
CloseFinalAccount == Becomes("account", "AGREED", "CLOSED") /\ UNCHANGED counted

Next ==
  \/ \E p \in Itemised : CheckLine(p) \/ AddLine(p)
  \/ SubmitValuation \/ CertifyValuation \/ CloseValuation
  \/ ApproveForecast \/ AgreeFinalAccount \/ CloseFinalAccount

Spec == Init /\ [][Next]_vars

-----------------------------------------------------------------------------
\* A paper that left DRAFT had lines, and those it has gained since had been
\* checked while it was a draft: no line is checked against a paper that left it.
LinesSettle ==
  \A p \in Itemised :
    status[p] # "DRAFT" => lines[p] > 0 /\ lines[p] + pending[p] = counted[p]
=============================================================================
