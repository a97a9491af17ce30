-------------------------- MODULE ResourceFulfilment --------------------------
(***************************************************************************)
(* Requirements and the shares of them that are fulfilled                  *)
(* (packages/persistence/src/                                              *)
(* organisational-resource-planning-command-service.ts and                 *)
(* industry-delivery-command-service.ts).                                  *)
(*                                                                         *)
(* A project's requirement is fulfilled by people: one transaction locks   *)
(* the requirement, the shares already given and all that occupies the     *)
(* person in the period.  A capability requirement is fulfilled by         *)
(* providers: the requirement and the sum of its shares are read through   *)
(* the pool, and the transaction inserts the share and writes the status   *)
(* that follows from what was read.                                        *)
(***************************************************************************)
EXTENDS Naturals, FiniteSets, Sequences, Functions

CONSTANTS
  Projects,        \* requirements of projects
  Capabilities,    \* capability requirements
  Persons,         \* people whose positions match
  Callers,         \* requests for capabilities that may overlap
  Shares,          \* percentages that are asked for
  LastDay,         \* bound: days are 1..LastDay, an open end is LastDay + 1
  MaxRows          \* bound: fulfilments of projects, and of each capability

ResourcesAssumption ==
  Shares \subseteq 1..100 /\ Projects \cap Capabilities = {} /\ LastDay \in Nat

VARIABLES
  period,       \* first and last day of each project requirement, <<>> without one
  status,       \* of every requirement
  fulfilled,    \* project fulfilments [requirement, person, share, capacity]
  given,        \* the shares given to each capability requirement
  local,        \* what a request for a capability has read
  unseen        \* history: capability requirements given a share on a stale sum

vars == <<period, status, fulfilled, given, local, unseen>>

Requirements == Projects \cup Capabilities
Periods == {p \in (1..LastDay) \X (1..LastDay + 1) : p[1] <= p[2]}
Idle == [for |-> "nothing"]

TypeOK ==
  /\ period \in [Projects -> Periods \cup {<<>>}]
  /\ status \in [Requirements -> {"NONE", "OPEN", "PARTIALLY_FULFILLED", "FULFILLED"}]
  /\ \A n \in DOMAIN fulfilled :
       fulfilled[n] \in
         [requirement : Projects, person : Persons, share : Shares, capacity : Shares]
  /\ \A k \in Capabilities : Range(given[k]) \subseteq Shares
  /\ \A c \in Callers : local[c] = Idle \/ local[c].for \in Capabilities
  /\ unseen \subseteq Capabilities

Init ==
  /\ period = [q \in Projects |-> <<>>]
  /\ status = [r \in Requirements |-> IF r \in Projects THEN "NONE" ELSE "OPEN"]
  /\ fulfilled = <<>> /\ given = [k \in Capabilities |-> <<>>]
  /\ local = [c \in Callers |-> Idle] /\ unseen = {}

Reached(total) == IF total = 100 THEN "FULFILLED" ELSE "PARTIALLY_FULFILLED"

-----------------------------------------------------------------------------
\* Projects.

CreateResourceRequirement(q, p) ==
  /\ status[q] = "NONE" /\ status' = [status EXCEPT ![q] = "OPEN"]
  /\ period' = [period EXCEPT ![q] = p]
  /\ UNCHANGED <<fulfilled, given, local, unseen>>

\* Counted as the points of each row.
Sum(rows, value(_)) == Cardinality(UNION {{n} \X (1..value(n)) : n \in rows})

ShareOf(q) ==
  Sum({n \in DOMAIN fulfilled : fulfilled[n].requirement = q}, LAMBDA n : fulfilled[n].share)

\* Mutant: a period that ends on the day another begins does not overlap it.
OverlapsStrictly(p, r) == p[1] < r[2] /\ r[1] < p[2]

Overlaps(p, r) == p[1] <= r[2] /\ r[1] <= p[2]

\* Whatever overlaps the period anywhere counts for all of it.
AllocatedTo(person, p) ==
  Sum({n \in DOMAIN fulfilled : /\ fulfilled[n].person = person
                                /\ Overlaps(period[fulfilled[n].requirement], p)},
      LAMBDA n : fulfilled[n].capacity)

FulfilResourceRequirement(q, person, share, capacity) ==
  /\ status[q] \in {"OPEN", "PARTIALLY_FULFILLED"} /\ Len(fulfilled) < MaxRows
  /\ ShareOf(q) + share <= 100
  /\ AllocatedTo(person, period[q]) + capacity <= 100
  /\ fulfilled' = Append(fulfilled, [requirement |-> q, person |-> person,
                                     share |-> share, capacity |-> capacity])
  /\ status' = [status EXCEPT ![q] = Reached(ShareOf(q) + share)]
  /\ UNCHANGED <<period, given, local, unseen>>

-----------------------------------------------------------------------------
\* Capabilities.

GivenTo(k) == Sum(DOMAIN given[k], LAMBDA n : given[k][n])

\* What is FULFILLED has no room, and is not refused for its status.
ReadRequirement(c, k, share) ==
  /\ local[c] = Idle /\ GivenTo(k) + share <= 100
  /\ local' = [local EXCEPT ![c] = [for |-> k, share |-> share, read |-> GivenTo(k)]]
  /\ UNCHANGED <<period, status, fulfilled, given, unseen>>

FulfilRequirement(c) ==
  /\ local[c] # Idle
  /\ LET k == local[c].for IN
       /\ Len(given[k]) < MaxRows
       /\ given' = [given EXCEPT ![k] = Append(@, local[c].share)]
       /\ status' = [status EXCEPT ![k] = Reached(local[c].read + local[c].share)]
       /\ unseen' = IF GivenTo(k) # local[c].read THEN unseen \cup {k} ELSE unseen
  /\ local' = [local EXCEPT ![c] = Idle]
  /\ UNCHANGED <<period, fulfilled>>

Next ==
  \/ \E q \in Projects :
       \/ \E p \in Periods : CreateResourceRequirement(q, p)
       \/ \E person \in Persons, share, capacity \in Shares :
            FulfilResourceRequirement(q, person, share, capacity)
  \/ \E c \in Callers :
       \/ \E k \in Capabilities, share \in Shares : ReadRequirement(c, k, share)
       \/ FulfilRequirement(c)

Spec == Init /\ [][Next]_vars

-----------------------------------------------------------------------------
Engaged(person, day) ==
  Sum({n \in DOMAIN fulfilled : /\ fulfilled[n].person = person
                                /\ period[fulfilled[n].requirement][1] <= day
                                /\ day <= period[fulfilled[n].requirement][2]},
      LAMBDA n : fulfilled[n].capacity)

Tells(r, total) ==
  /\ total <= 100
  /\ status[r] = "FULFILLED" <=> total = 100
  /\ status[r] = "PARTIALLY_FULFILLED" <=> total \in 1..99

\* On no day, the days of open ends included, is a person engaged for more than
\* 100 percent by all projects together; and the status of a requirement tells
\* how much of it is given, never more than all of it: of a capability as long as
\* no two requests for it have overlapped.
GivenOnce ==
  /\ \A person \in Persons, day \in 1..LastDay + 1 : Engaged(person, day) <= 100
  /\ \A q \in Projects : Tells(q, ShareOf(q))
  /\ \A k \in Capabilities \ unseen : Tells(k, GivenTo(k))
=============================================================================
