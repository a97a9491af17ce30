------------------------------ MODULE Opportunities ------------------------------
(***************************************************************************)
(* Sales opportunities (packages/persistence/src/sales-command-service.ts):*)
(* a person is shown an opportunity with its row version, and what is sent *)
(* back is written if the row still has that version.                      *)
(*                                                                         *)
(* The positions a person acts for are resolved before the transaction;    *)
(* its first SELECT takes the snapshot that status and owner are checked   *)
(* on, and the UPDATE sees the row as it is.  Values, probabilities and    *)
(* dates are left out, and sales accounts stay ACTIVE once created: no     *)
(* statement changes them.                                                 *)
(***************************************************************************)
EXTENDS Naturals

CONSTANTS
  Prospects,     \* opportunities
  Positions,     \* positions that may own one
  Sellers,       \* persons, each with one form before them
  MaxEdits       \* bound on the row version

VARIABLES
  opportunity,   \* [stage, owner, version] of each; stage "NONE" before it is created
  holder,        \* the positions each person acts for
  form,          \* what a person has before them
  ended,         \* history: the stage an opportunity was closed in
  foreign        \* history: edits by a person who did not act for the owner then

vars == <<opportunity, holder, form, ended, foreign>>

Stages == {"OPEN", "WON", "LOST"}     \* OPEN stands for the six stages before these
Terminal == {"WON", "LOST"}
Blank == [at |-> "nothing"]

TypeOK ==
  /\ \A o \in Prospects :
       /\ opportunity[o].stage \in {"NONE"} \cup Stages
       /\ opportunity[o].version \in 1..(MaxEdits + 1)
       /\ ended[o] \in {"NONE"} \cup Terminal
  /\ holder \in [Sellers -> SUBSET Positions]
  /\ \A s \in Sellers : form[s].at \in {"nothing", "shown", "allowed", "checked"}

Init ==
  /\ opportunity = [o \in Prospects |-> [stage |-> "NONE", version |-> 1]]
  /\ holder = [s \in Sellers |-> Positions]
  /\ form = [s \in Sellers |-> Blank]
  /\ ended = [o \in Prospects |-> "NONE"] /\ foreign = {}

Created == {o \in Prospects : opportunity[o].stage # "NONE"}
Status(stage) == IF stage \in Terminal THEN stage ELSE "NONE"

\* Position assignments are administered elsewhere.
Reassign(s, positions) ==
  /\ holder' = [holder EXCEPT ![s] = positions]
  /\ UNCHANGED <<opportunity, form, ended, foreign>>

\* createOpportunity: it may be created in any stage.
CreateOpportunity(s, o, owner, stage) ==
  /\ o \notin Created /\ owner \in holder[s]
  /\ opportunity' = [opportunity EXCEPT ![o] =
                       [stage |-> stage, owner |-> owner, version |-> 1]]
  /\ ended' = [ended EXCEPT ![o] = Status(stage)]
  /\ UNCHANGED <<holder, form, foreign>>

ShowOpportunity(s, o) ==
  /\ form[s] = Blank /\ o \in Created
  /\ form' = [form EXCEPT ![s] = [at |-> "shown", of |-> o, version |-> opportunity[o].version]]
  /\ UNCHANGED <<opportunity, holder, ended, foreign>>

\* resolveF07Work, when the form is sent.
ResolveWork(s) ==
  /\ form[s].at = "shown"
  /\ form' = [form EXCEPT ![s] = [at |-> "allowed", of |-> @.of, version |-> @.version,
                                  for |-> holder[s]]]
  /\ UNCHANGED <<opportunity, holder, ended, foreign>>

\* Mutant: a terminal opportunity may be edited.
EditableByOwner(s) == opportunity[form[s].of].owner \in form[s].for

\* The snapshot: one's own opportunity, and one that is not terminal.
Editable(s) ==
  /\ opportunity[form[s].of].owner \in form[s].for
  /\ opportunity[form[s].of].stage \notin Terminal

CheckOpportunity(s) ==
  /\ form[s].at = "allowed"
  /\ form' = [form EXCEPT ![s] = IF Editable(s) THEN [@ EXCEPT !.at = "checked"] ELSE Blank]
  /\ UNCHANGED <<opportunity, holder, ended, foreign>>

\* Mutant: the row version is not compared.
AnyVersion(s) == TRUE

SameVersion(s) == opportunity[form[s].of].version = form[s].version

\* The UPDATE, whose new owner is one of the positions the person acts for.
UpdateOpportunity(s, owner, stage) ==
  /\ form[s].at = "checked" /\ owner \in form[s].for
  /\ opportunity[form[s].of].version \leq MaxEdits
  /\ LET o == form[s].of
     IN IF SameVersion(s)
        THEN /\ opportunity' = [opportunity EXCEPT ![o] =
                  [stage |-> stage, owner |-> owner, version |-> @.version + 1]]
             /\ ended' = IF ended[o] = "NONE" THEN [ended EXCEPT ![o] = Status(stage)] ELSE ended
             /\ foreign' = IF opportunity[o].owner \in form[s].for THEN foreign
                           ELSE foreign \cup {<<s, o>>}
        ELSE UNCHANGED <<opportunity, ended, foreign>>
  /\ form' = [form EXCEPT ![s] = Blank]
  /\ UNCHANGED holder

Next ==
  \/ \E s \in Sellers, positions \in SUBSET Positions : Reassign(s, positions)
  \/ \E s \in Sellers, p \in Positions, stage \in Stages :
       \/ \E o \in Prospects : CreateOpportunity(s, o, p, stage)
       \/ UpdateOpportunity(s, p, stage)
  \/ \E s \in Sellers, o \in Prospects : ShowOpportunity(s, o)
  \/ \E s \in Sellers : ResolveWork(s) \/ CheckOpportunity(s)

Spec == Init /\ [][Next]_vars

-----------------------------------------------------------------------------
\* A won or lost opportunity stays as it was closed, though its status and its
\* owner are checked on a snapshot that others have written behind: the UPDATE
\* finds the version that was shown, so what it replaces is what was checked.
\* And the owner it had is a position the edit was made for.
ClosedForGood ==
  /\ \A o \in Created : ended[o] # "NONE" => opportunity[o].stage = ended[o]
  /\ foreign = {}
=============================================================================
