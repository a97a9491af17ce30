----------------------- MODULE ProjectionCheckpoints -----------------------
(***************************************************************************)
(* The checkpoint of one projection and partition: saveProjectionCheckpoint*)
(* (packages/persistence/src/portability-repository.ts 784-842) and        *)
(* advanceProjectionCheckpoint (packages/kernel/src/portability-factories. *)
(* ts 265-325).  Projectors prepare a checkpoint each and save it later;   *)
(* the save locks the row, compares and writes in one transaction.         *)
(***************************************************************************)
EXTENDS Integers

CONSTANTS
  Projectors,
  MaxEvent,   \* bound: events
  MaxTime     \* bound: updatedAt

CheckpointAssumption ==
  MaxEvent \in Nat /\ MaxTime \in Nat

VARIABLES
  saved,     \* is there a row
  row,       \* [sequence, occurred, updated]
  prepared,  \* checkpoint a projector is about to save
  clock,
  furthest   \* history: the highest sequence saved since one was left out

vars == <<saved, row, prepared, clock, furthest>>

Undefined == -1

\* A checkpoint may leave out its sequence and its event time.
Checkpoints ==
  [sequence : Undefined..MaxEvent, occurred : Undefined..MaxEvent, updated : 0..MaxTime]

\* A sequence that is left out is saved as NULL: what was on record is forgotten.
Furthest(sequence) ==
  IF sequence = Undefined THEN 0 ELSE IF sequence > furthest THEN sequence ELSE furthest

TypeOK ==
  /\ saved \in BOOLEAN /\ row \in Checkpoints
  /\ prepared \in [Projectors -> {<<>>} \cup {<<c>> : c \in Checkpoints}]
  /\ clock \in 0..MaxTime
  /\ row.updated <= clock
  /\ furthest \in 0..MaxEvent /\ row.sequence <= furthest
  /\ row.sequence # Undefined /\ row.occurred # Undefined => row.occurred = row.sequence

Init ==
  /\ saved = FALSE
  /\ row = [sequence |-> 0, occurred |-> 0, updated |-> 0]
  /\ prepared = [p \in Projectors |-> <<>>]
  /\ clock = 0 /\ furthest = 0

-----------------------------------------------------------------------------
\* A projector has worked off the events up to some point of the stream, where
\* later events occurred later.
Prepare(p, c) ==
  /\ prepared[p] = <<>> /\ c.updated = clock
  /\ c.sequence # Undefined /\ c.occurred # Undefined => c.occurred = c.sequence
  /\ prepared' = [prepared EXCEPT ![p] = <<c>>]
  /\ UNCHANGED <<saved, row, clock, furthest>>

\* Mutant: the sequence is not compared.
AdvancesByTime(old, new) ==
  /\ old.occurred # Undefined /\ new.occurred # Undefined => new.updated >= old.updated
  /\ new.updated >= old.updated

\* advanceProjectionCheckpoint.
Advances(old, new) ==
  /\ old.sequence # Undefined /\ new.sequence # Undefined => new.sequence >= old.sequence
  /\ old.occurred # Undefined /\ new.occurred # Undefined => new.occurred >= old.occurred
  /\ new.updated >= old.updated

\* saveProjectionCheckpoint; a save that does not advance throws.
Save(p) ==
  /\ prepared[p] # <<>>
  /\ prepared' = [prepared EXCEPT ![p] = <<>>]
  /\ LET new == prepared[p][1]
     IN  IF ~saved \/ Advances(row, new)
         THEN saved' = TRUE /\ row' = new /\ furthest' = Furthest(new.sequence)
         ELSE UNCHANGED <<saved, row, furthest>>
  /\ UNCHANGED clock

Tick == clock < MaxTime /\ clock' = clock + 1 /\ UNCHANGED <<saved, row, prepared, furthest>>

Next ==
  \/ \E p \in Projectors, c \in Checkpoints : Prepare(p, c)
  \/ \E p \in Projectors : Save(p)
  \/ Tick

Spec == Init /\ [][Next]_vars

-----------------------------------------------------------------------------
\* "Projection Checkpoint event sequence cannot move backwards"
\* (portability-factories.ts 295-303): whatever order projectors save in, the
\* sequence on record is the furthest that was saved since one was left out.
NeverBackwards == saved /\ row.sequence # Undefined => row.sequence = furthest
=============================================================================
