----------------------------- MODULE ThingFields -----------------------------
(***************************************************************************)
(* Things and the fields their types give them                             *)
(* (packages/persistence/src/thing-administration-command-service.ts;      *)
(* fields and constraints are defined by metadata-repository.ts).          *)
(*                                                                         *)
(* A command is one transaction.  What it checks it reads as of its first  *)
(* SELECT, and without locks: in local[c] is a write that was checked and  *)
(* is to come.  Meanwhile fields are assigned to the types, constraints to *)
(* the fields, and other commands write.  A field of a type is a field of  *)
(* the types derived from it.                                              *)
(***************************************************************************)
EXTENDS Naturals

CONSTANTS
  Things,
  Types,
  Parent,         \* the type each is derived from, itself where there is none
  Fields,
  FieldOf,        \* the type each field may be assigned to
  Multiple,       \* the fields that take more than one value
  Required,       \* the fields that are assigned as required
  Default,        \* the slots the default of each field fills
  Slots,          \* sequence numbers of values, 0 among them
  Callers         \* commands that may overlap

VARIABLES
  typed,        \* the type of each Thing
  filled,       \* the slots of each field of each Thing that hold a value
  assigned,     \* the fields assigned to types
  mandatory,    \* the fields with a mandatory constraint REQUIRED
  local,        \* the write a command has checked
  excused       \* history: fields empty when they came to be demanded, by Thing

vars == <<typed, filled, assigned, mandatory, local, excused>>

None == "none"
Idle == [does |-> "nothing"]

FieldsAssumption == None \notin Types /\ Default \in [Fields -> SUBSET Slots]

TypeOK ==
  /\ typed \in [Things -> Types \cup {None}]
  /\ filled \in [Things -> [Fields -> SUBSET Slots]]
  /\ assigned \subseteq Fields /\ mandatory \subseteq assigned
  /\ \A c \in Callers : local[c].does \in {"nothing", "creates", "replaces"}
  /\ excused \subseteq Things \X Fields

Init ==
  /\ typed = [t \in Things |-> None] /\ filled = [t \in Things |-> [f \in Fields |-> {}]]
  /\ assigned = {} /\ mandatory = {} /\ excused = {}
  /\ local = [c \in Callers |-> Idle]

-----------------------------------------------------------------------------
\* Types and their fields.

\* The recursive queries lineage: a type and all it is derived from.
Lineage(ty) ==
  {a \in Types : \A S \in SUBSET Types :
     ty \in S /\ (\A b \in S : Parent[b] \in S) => a \in S}

\* Mutant: the fields of the type itself.
FieldsOwn(ty) == {f \in assigned : FieldOf[f] = ty}

EffectiveTypeAssignments(ty) == {f \in assigned : FieldOf[f] \in Lineage(ty)}

\* Mutant: the flag of the assignment, without the constraints.
DemandedByFlag(f) == f \in Required

Demanded(f) == f \in Required \cup mandatory

Empty(f) == {p \in Things \X {f} : typed[p[1]] # None /\ filled[p[1]][f] = {}}

AssignAttributeToType(f) ==
  /\ f \notin assigned /\ assigned' = assigned \cup {f}
  /\ excused' = excused \cup (IF f \in Required THEN Empty(f) ELSE {})
  /\ UNCHANGED <<typed, filled, mandatory, local>>

AssignConstraintToAttribute(f) ==
  /\ f \in assigned \ mandatory /\ mandatory' = mandatory \cup {f}
  /\ excused' = excused \cup (IF f \in Required THEN {} ELSE Empty(f))
  /\ UNCHANGED <<typed, filled, assigned, local>>

-----------------------------------------------------------------------------
\* Things.

Begin(c, write) == local[c] = Idle /\ local' = [local EXCEPT ![c] = write]

\* What a default fills where nothing is supplied.
Resolved(supplied, f) == IF supplied[f] = {} THEN Default[f] ELSE supplied[f]

SlotsFit(f, slots) == f \notin Multiple => slots \subseteq {0}

\* Values of one slot overwrite each other.
CreateThing(c, t, ty, supplied) ==
  /\ typed[t] = None /\ \A d \in Callers : local[d].does = "creates" => local[d].thing # t
  /\ LET fields == EffectiveTypeAssignments(ty)
         slots == [f \in Fields |-> IF f \in fields THEN Resolved(supplied, f) ELSE {}]
     IN /\ \A f \in Fields : supplied[f] # {} => f \in fields
        /\ \A f \in fields : SlotsFit(f, slots[f]) /\ (Demanded(f) => slots[f] # {})
        /\ Begin(c, [does |-> "creates", thing |-> t, type |-> ty, slots |-> slots])
  /\ UNCHANGED <<typed, filled, assigned, mandatory, excused>>

ReplaceThingFieldValues(c, t, f, slots) ==
  /\ typed[t] # None /\ f \in EffectiveTypeAssignments(typed[t])
  /\ SlotsFit(f, slots) /\ (Demanded(f) => slots # {})
  /\ Begin(c, [does |-> "replaces", thing |-> t, field |-> f, slots |-> slots])
  /\ UNCHANGED <<typed, filled, assigned, mandatory, excused>>

SetThingFieldValue(t, f, slot) ==
  /\ typed[t] # None /\ f \in EffectiveTypeAssignments(typed[t]) /\ SlotsFit(f, {slot})
  /\ filled' = [filled EXCEPT ![t][f] = @ \cup {slot}]
  /\ excused' = excused \ {<<t, f>>}
  /\ UNCHANGED <<typed, assigned, mandatory, local>>

\* Excused is a field that was assigned, or became required, since the check.
InsertThing(c) ==
  /\ local[c].does = "creates"
  /\ LET t == local[c].thing  ty == local[c].type  slots == local[c].slots IN
       /\ typed' = [typed EXCEPT ![t] = ty] /\ filled' = [filled EXCEPT ![t] = slots]
       /\ excused' = excused \cup
            {<<t, f>> : f \in {g \in EffectiveTypeAssignments(ty) : Demanded(g) /\ slots[g] = {}}}
  /\ local' = [local EXCEPT ![c] = Idle]
  /\ UNCHANGED <<assigned, mandatory>>

\* The DELETE of all slots and the INSERT of each.
RewriteField(c) ==
  /\ local[c].does = "replaces"
  /\ LET t == local[c].thing  f == local[c].field IN
       /\ filled' = [filled EXCEPT ![t][f] = local[c].slots]
       /\ excused' = IF local[c].slots # {} THEN excused \ {<<t, f>>}
                     ELSE excused \cup {p \in {<<t, f>>} : Demanded(f)}
  /\ local' = [local EXCEPT ![c] = Idle]
  /\ UNCHANGED <<typed, assigned, mandatory>>

Next ==
  \/ \E f \in Fields : AssignAttributeToType(f) \/ AssignConstraintToAttribute(f)
  \/ \E t \in Things, f \in Fields, slot \in Slots : SetThingFieldValue(t, f, slot)
  \/ \E c \in Callers :
       \/ \E t \in Things :
            \/ \E ty \in Types, supplied \in [Fields -> SUBSET Slots] :
                 CreateThing(c, t, ty, supplied)
            \/ \E f \in Fields, slots \in SUBSET Slots : ReplaceThingFieldValues(c, t, f, slots)
       \/ InsertThing(c) \/ RewriteField(c)

Spec == Init /\ [][Next]_vars

-----------------------------------------------------------------------------
\* A Thing holds values of the fields of its type and of those it is derived from,
\* one of each that takes one; it lacks none that is demanded, unless it lacked it
\* when it came to be demanded, and never again once it had it.
ThingsWellFormed ==
  \A t \in Things, f \in Fields :
    /\ filled[t][f] # {} => FieldOf[f] \in Lineage(typed[t])
    /\ f \in Multiple \/ filled[t][f] \subseteq {0}
    /\ /\ typed[t] # None /\ f \in assigned /\ FieldOf[f] \in Lineage(typed[t])
       /\ f \in Required \cup mandatory /\ filled[t][f] = {}
       => <<t, f>> \in excused
=============================================================================
