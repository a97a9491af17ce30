-------------------------- MODULE ExchangePackages --------------------------
(***************************************************************************)
(* An exchange package, its deliveries, and what recipients make of them   *)
(* (packages/persistence/src/exchange-repository.ts,                       *)
(* packages/kernel/src/exchange-factories.ts): items are collected and     *)
(* frozen, the frozen package is delivered, a delivery is received,        *)
(* validated, mapped and imported or rejected, and authority over its      *)
(* objects may be adopted once it is imported.                             *)
(*                                                                         *)
(* Insertions rest on what the pool returned before their transactions;    *)
(* freezePackage and the steps of a received delivery lock their row.      *)
(* local[c] is what a caller has read.  A delivery stands for itself and   *)
(* its one recipient; delta items, which no operation reads back, are left *)
(* out.                                                                    *)
(***************************************************************************)
EXTENDS Naturals

CONSTANTS
  Items,
  Deliveries,
  Callers          \* requests that may overlap

VARIABLES
  package,     \* its status
  items,       \* the items on record
  frozen,      \* history: the items it was frozen with
  lateItems,   \* history: items inserted after it was frozen
  received,    \* status of each delivery: "NONE", "DISPATCHED", then of its receipt
  mapped,      \* the deliveries with mappings
  adopted,     \* the deliveries with an adoption of authority
  local        \* what a caller has read

vars == <<package, items, frozen, lateItems, received, mapped, adopted, local>>

Idle == [for |-> "nothing"]

TypeOK ==
  /\ package \in {"DRAFT", "FROZEN"}
  /\ items \subseteq Items /\ frozen \subseteq items /\ lateItems \subseteq items
  /\ received \in [Deliveries -> {"NONE", "DISPATCHED", "RECEIVED", "VALIDATED", "MAPPED",
                                  "IMPORTED", "REJECTED"}]
  /\ mapped \subseteq Deliveries /\ adopted \subseteq Deliveries
  /\ \A c \in Callers : local[c].for \in {"nothing", "item", "mapping", "adoption"}

\* createPackage.
Init ==
  /\ package = "DRAFT" /\ items = {} /\ frozen = {} /\ lateItems = {}
  /\ received = [d \in Deliveries |-> "NONE"] /\ mapped = {} /\ adopted = {}
  /\ local = [c \in Callers |-> Idle]

Read(c, what) ==
  /\ local[c] = Idle /\ local' = [local EXCEPT ![c] = what]
  /\ UNCHANGED <<package, items, frozen, lateItems, received, mapped, adopted>>

Finish(c) == local' = [local EXCEPT ![c] = Idle]

-----------------------------------------------------------------------------
\* createExchangePackageItem, on what the pool returned.
ReadForItem(c) == package = "DRAFT" /\ Read(c, [for |-> "item"])

AddPackageItem(c, i) ==
  /\ local[c].for = "item" /\ i \notin items
  /\ items' = items \cup {i}
  /\ lateItems' = IF package = "FROZEN" THEN lateItems \cup {i} ELSE lateItems
  /\ Finish(c)
  /\ UNCHANGED <<package, frozen, received, mapped, adopted>>

FreezePackage ==
  /\ package = "DRAFT" /\ items # {}
  /\ package' = "FROZEN" /\ frozen' = items
  /\ UNCHANGED <<items, lateItems, received, mapped, adopted, local>>

\* createExchangeDelivery and a recipient; FROZEN is final.
CreateDelivery(d) ==
  /\ package = "FROZEN" /\ received[d] = "NONE"
  /\ received' = [received EXCEPT ![d] = "DISPATCHED"]
  /\ UNCHANGED <<package, items, frozen, lateItems, mapped, adopted, local>>

-----------------------------------------------------------------------------
\* Steps of a received delivery; transitionReceived locks its row.
Becomes(d, from, to) ==
  /\ received[d] \in from
  /\ received' = [received EXCEPT ![d] = to]
  /\ UNCHANGED <<package, items, frozen, lateItems, mapped, adopted, local>>

RecordReceivedDelivery(d) == Becomes(d, {"DISPATCHED"}, "RECEIVED")
ValidateReceived(d) == Becomes(d, {"RECEIVED"}, "VALIDATED")
MarkMapped(d) == Becomes(d, {"VALIDATED"}, "MAPPED")
MarkImported(d) == Becomes(d, {"MAPPED"}, "IMPORTED")

\* Mutant: what was imported may be rejected.
RejectReceivedAny(d) == Becomes(d, {"RECEIVED", "VALIDATED", "MAPPED", "IMPORTED"}, "REJECTED")

RejectReceived(d) == Becomes(d, {"RECEIVED", "VALIDATED", "MAPPED"}, "REJECTED")

\* createExchangeMapping.
ReadForMapping(c, d) ==
  received[d] \in {"VALIDATED", "MAPPED"} /\ Read(c, [for |-> "mapping", of |-> d])

AddMapping(c) ==
  /\ local[c].for = "mapping"
  /\ mapped' = mapped \cup {local[c].of}
  /\ Finish(c)
  /\ UNCHANGED <<package, items, frozen, lateItems, received, adopted>>

\* createAuthorityAdoption; its decision is taken to be in order.
ReadForAdoption(c, d) == received[d] = "IMPORTED" /\ Read(c, [for |-> "adoption", of |-> d])

AdoptAuthority(c) ==
  /\ local[c].for = "adoption"
  /\ adopted' = adopted \cup {local[c].of}
  /\ Finish(c)
  /\ UNCHANGED <<package, items, frozen, lateItems, received, mapped>>

Next ==
  \/ FreezePackage
  \/ \E d \in Deliveries :
       \/ CreateDelivery(d) \/ RecordReceivedDelivery(d) \/ ValidateReceived(d)
       \/ MarkMapped(d) \/ MarkImported(d) \/ RejectReceived(d)
  \/ \E c \in Callers :
       \/ ReadForItem(c) \/ (\E i \in Items : AddPackageItem(c, i))
       \/ (\E d \in Deliveries : ReadForMapping(c, d) \/ ReadForAdoption(c, d))
       \/ AddMapping(c) \/ AdoptAuthority(c)

Spec == Init /\ [][Next]_vars

-----------------------------------------------------------------------------
\* Authority is adopted on a delivery that is and stays imported, of a package
\* that was frozen with its items; all it holds beyond them was inserted on a
\* reading of the draft (README.md, "Divergences"), and a mapping is of a
\* delivery that was validated.
AdoptionsTraceable ==
  /\ \A d \in adopted : received[d] = "IMPORTED"
  /\ \A d \in mapped : received[d] \in {"VALIDATED", "MAPPED", "IMPORTED", "REJECTED"}
  /\ (\E d \in Deliveries : received[d] # "NONE") => frozen # {} /\ items = frozen \cup lateItems
=============================================================================
