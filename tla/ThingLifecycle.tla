---------------------------- MODULE ThingLifecycle ----------------------------
(***************************************************************************)
(* The lifecycle of one Thing                                              *)
(* (packages/persistence/src/control-repository.ts with the rules of       *)
(* packages/kernel/src/control-factories.ts), as the objects of the        *)
(* metadata-driven runtime use it                                          *)
(* (packages/persistence/src/nublox-object-runtime.ts).                    *)
(*                                                                         *)
(* An object in memory chooses a transition by the state it last read and  *)
(* sends the sequence it last read; the repository locks the row, compares *)
(* the sequence and applies the kernel's rules; the object then reads the  *)
(* Thing anew.  A Decision is made at any time, about any version.         *)
(***************************************************************************)
EXTENDS Naturals, Sequences

CONSTANTS
  Objects,        \* objects in memory that stand for the Thing
  Decisions,      \* Decisions about the Thing, of the type and outcome required
  Versions,       \* subject versions
  Transitions,    \* active definitions [from, to, controlled]
  Start,          \* the initial state
  MaxSequence     \* bound: length of the history

VARIABLES
  row,         \* object_lifecycle_states, sequence 0 before there is a row
  history,     \* object_lifecycle_history
  decided,     \* the version each Decision is about, "none" before it is made
  read         \* the state and the sequence each object last read

vars == <<row, history, decided, read>>

LifecycleStates == {t.from : t \in Transitions} \cup {t.to : t \in Transitions} \cup {Start}
NoRow == [state |-> "none", version |-> "none", sequence |-> 0, decision |-> "none"]
Unread == [state |-> "none", sequence |-> 0]

TypeOK ==
  /\ \/ row = NoRow
     \/ row \in [state : LifecycleStates, version : Versions, sequence : 1..MaxSequence,
                 decision : Decisions \cup {"none"}]
  /\ decided \in [Decisions -> Versions \cup {"none"}]
  /\ read \in [Objects -> [state : LifecycleStates \cup {"none"}, sequence : 0..MaxSequence]]

Init ==
  /\ row = NoRow /\ history = <<>>
  /\ decided = [d \in Decisions |-> "none"]
  /\ read = [o \in Objects |-> Unread]

-----------------------------------------------------------------------------
\* createThing makes the Thing and its lifecycle row in one transaction.
Initialise(v) ==
  /\ row = NoRow
  /\ row' = [state |-> Start, version |-> v, sequence |-> 1, decision |-> "none"]
  /\ history' = <<row'>>
  /\ UNCHANGED <<decided, read>>

\* load, and the reading at the end of save and of transition.
Refresh(o) ==
  /\ row # NoRow
  /\ read' = [read EXCEPT ![o] = [state |-> row.state, sequence |-> row.sequence]]
  /\ UNCHANGED <<row, history, decided>>

CreateDecision(d, v) ==
  /\ row # NoRow /\ decided[d] = "none"
  /\ decided' = [decided EXCEPT ![d] = v]
  /\ UNCHANGED <<row, history, read>>

\* The transition starts in the state that was read, and the locked row still has
\* the sequence that was read.
InOrder(o, t) == t.from = read[o].state /\ row.sequence = read[o].sequence

\* Mutant: the Decision is compared with the version the transition leads to.
DecisionFitsNext(t, d, v) ==
  IF t.controlled THEN d # "none" /\ decided[d] = v ELSE d = "none" /\ row.decision = "none"

\* A controlled transition to version v takes a Decision about the present one.
\* An uncontrolled one must name none; but the next row is made from the present
\* one, with its Decision, and so it cannot follow a controlled one.
DecisionFits(t, d, v) ==
  IF t.controlled THEN d # "none" /\ decided[d] = row.version
  ELSE d = "none" /\ row.decision = "none"

\* The version may change with the state, and a Decision may serve again.
Transition(o, t, d, v) ==
  /\ InOrder(o, t) /\ DecisionFits(t, d, v) /\ row.sequence < MaxSequence
  /\ row' = [state |-> t.to, version |-> v, sequence |-> row.sequence + 1, decision |-> d]
  /\ history' = Append(history, row')
  /\ UNCHANGED <<decided, read>>

Next ==
  \/ \E v \in Versions :
       \/ Initialise(v)
       \/ \E d \in Decisions : CreateDecision(d, v)
  \/ \E o \in Objects :
       \/ Refresh(o)
       \/ \E t \in Transitions, d \in Decisions \cup {"none"}, v \in Versions :
            Transition(o, t, d, v)

Spec == Init /\ [][Next]_vars

-----------------------------------------------------------------------------
\* The step that led from one row of the history to the next.
Justified(was, is) ==
  \E t \in Transitions :
    /\ t.from = was.state /\ t.to = is.state /\ is.sequence = was.sequence + 1
    /\ IF t.controlled THEN is.decision # "none" /\ decided[is.decision] = was.version
       ELSE is.decision = "none"

\* However many objects act on what they read of a Thing, its history is one
\* unbroken line that ends in the current row, and each controlled step in it
\* rests on a Decision about the very version the Thing had before the step.
HistoryJustified ==
  /\ Len(history) = row.sequence
  /\ history # <<>> => history[Len(history)] = row
  /\ \A n \in 2..Len(history) : Justified(history[n - 1], history[n])
===============================================================================
