------------------------ MODULE ConfigurationResolution ------------------------
(***************************************************************************)
(* Resolution of the items of one context to versions                      *)
(* (packages/persistence/src/configuration-resolution-command-service.ts   *)
(* and -repository.ts), over the baselines and effectivities written by    *)
(* information-repository.ts.                                              *)
(*                                                                         *)
(* A run reads its criteria once and then, item after item, tries them in  *)
(* order, each with a SELECT of its own: baselines are filled, established *)
(* and superseded between two of them.  A baseline selects the version     *)
(* named like it.  What is left out: the kinds and scopes of               *)
(* effectivities, and the periods of definitions, which never change.      *)
(***************************************************************************)
EXTENDS Naturals

CONSTANTS
  Items,        \* active configuration items of the context
  Baselines,    \* baselines of the context
  Versions,     \* what an effectivity may name
  Definitions,  \* sets of the kinds of criteria a definition may have
  Mandatory,    \* the kinds of criterion defined as mandatory
  Writers,      \* requests that may overlap
  LastTime

VARIABLES
  baseline,     \* [status, at, holds] of each baseline
  effectivity,  \* <<item, version>> of the effectivities written
  run,          \* [status, at, started, uses, from, explicit, results]
  cursor,       \* [item, tried] of a run under way
  failed,       \* <<item, kind>>: a criterion that threw
  held,         \* what a writer has read
  late,         \* history: baselines committed after their time, or filled after that
  clock

baselineVars == <<baseline, effectivity, held, late, clock>>
runVars == <<run, cursor, failed>>
vars == <<baselineVars, runVars>>

\* One order of the criteria; a definition gives each its sequence number.
Kinds == <<"BASELINE", "EXPLICIT_VERSION", "EFFECTIVITY", "LATEST_ESTABLISHED_BASELINE">>
KindSet == {Kinds[n] : n \in DOMAIN Kinds}
Nobody == [does |-> "nothing"]
Nothing == "none"
Established(b) == baseline[b].status \in {"ESTABLISHED", "SUPERSEDED"}
Done == {"RESOLVED", "PARTIAL", "ERROR", "FAILED"}

TypeOK ==
  /\ \A b \in Baselines :
       /\ baseline[b].status \in {"DRAFT", "ESTABLISHED", "SUPERSEDED"}
       /\ baseline[b].at \in 0..clock /\ baseline[b].holds \subseteq Items
  /\ effectivity \subseteq Items \X Versions /\ late \subseteq Baselines /\ clock \in 0..LastTime
  /\ run.status \in {"NONE", "RUNNING"} \cup Done
  /\ failed \subseteq Items \X KindSet
  /\ \A w \in Writers : held[w].does \in {"nothing", "add", "establish"}

Init ==
  /\ baseline = [b \in Baselines |-> [status |-> "DRAFT", at |-> 0, holds |-> {}]]
  /\ effectivity = {}
  /\ run = [status |-> "NONE"]
  /\ cursor = [item |-> Nothing, tried |-> {}]
  /\ failed = {} /\ late = {} /\ clock = 0
  /\ held = [w \in Writers |-> Nobody]

-----------------------------------------------------------------------------
\* What resolution reads.

CreateEffectivity(e) ==
  /\ effectivity' = effectivity \cup {e}
  /\ UNCHANGED <<baseline, held, late, clock, runVars>>

\* addBaselineItem: the baseline is read through the pool and checked to be DRAFT.
ReadForItem(w, b, i) ==
  /\ held[w] = Nobody /\ baseline[b].status = "DRAFT"
  /\ held' = [held EXCEPT ![w] = [does |-> "add", to |-> b, item |-> i]]
  /\ UNCHANGED <<baseline, effectivity, late, clock, runVars>>

AddBaselineItem(w) ==
  /\ held[w].does = "add"
  /\ LET b == held[w].to
     IN /\ baseline' = [baseline EXCEPT ![b].holds = @ \cup {held[w].item}]
        /\ late' = IF Established(b) THEN late \cup {b} ELSE late
  /\ held' = [held EXCEPT ![w] = Nobody]
  /\ UNCHANGED <<effectivity, clock, runVars>>

\* establishBaseline is given the time by the command, before its transaction.
TakeTime(w, b) ==
  /\ held[w] = Nobody
  /\ held' = [held EXCEPT ![w] = [does |-> "establish", of |-> b, at |-> clock]]
  /\ UNCHANGED <<baseline, effectivity, late, clock, runVars>>

EstablishBaseline(w) ==
  /\ held[w].does = "establish"
  /\ LET b == held[w].of
     IN IF baseline[b].status = "DRAFT" /\ baseline[b].holds # {}
        THEN /\ baseline' = [baseline EXCEPT ![b].status = "ESTABLISHED",
                                             ![b].at = held[w].at]
             /\ late' = IF held[w].at < clock THEN late \cup {b} ELSE late
        ELSE UNCHANGED <<baseline, late>>
  /\ held' = [held EXCEPT ![w] = Nobody]
  /\ UNCHANGED <<effectivity, clock, runVars>>

\* The time it was established at stays.
SupersedeBaseline(b, c) ==
  /\ b # c /\ baseline[b].status = "ESTABLISHED" /\ baseline[c].status = "ESTABLISHED"
  /\ baseline' = [baseline EXCEPT ![b].status = "SUPERSEDED"]
  /\ UNCHANGED <<effectivity, held, late, clock, runVars>>

Tick ==
  /\ clock < LastTime /\ clock' = clock + 1
  /\ UNCHANGED <<baseline, effectivity, held, late, runVars>>

-----------------------------------------------------------------------------
\* One run.

\* execute: evaluatedAt is now or a time the caller names.
StartRun(t, uses, from, explicit) ==
  /\ run.status = "NONE" /\ uses # {} /\ t \leq clock
  /\ run' = [status |-> "RUNNING", at |-> t, started |-> clock, uses |-> uses,
             from |-> from, explicit |-> explicit,
             results |-> [i \in {} |-> Nothing]]
  /\ UNCHANGED <<cursor, failed, baselineVars>>

Recorded == DOMAIN run.results

TakeItem(i) ==
  /\ run.status = "RUNNING" /\ cursor.item = Nothing /\ i \in Items \ Recorded
  /\ cursor' = [item |-> i, tried |-> {}]
  /\ UNCHANGED <<run, failed, baselineVars>>

\* The next criterion of the item in hand.
Left == {n \in DOMAIN Kinds : Kinds[n] \in run.uses \ cursor.tried}
Kind == Kinds[CHOOSE n \in Left : \A m \in Left : n \leq m]

\* Mutant: superseded baselines are passed over.
InForceFor(i, t) ==
  LET those == {b \in Baselines : /\ baseline[b].status = "ESTABLISHED"
                                  /\ i \in baseline[b].holds /\ baseline[b].at \leq t}
  IN {b \in those : \A c \in those : baseline[c].at \leq baseline[b].at}

\* findLatestEstablishedBaselineVersion, whose ties are broken by identifier.
LatestFor(i, t) ==
  LET those == {b \in Baselines : /\ Established(b)
                                  /\ i \in baseline[b].holds /\ baseline[b].at \leq t}
  IN {b \in those : \A c \in those : baseline[c].at \leq baseline[b].at}

\* What a criterion finds for an item; more than one version is a conflict.
Found(k, i) ==
  CASE k = "BASELINE" ->
         {b \in Baselines : b = run.from /\ Established(b) /\ i \in baseline[b].holds}
    [] k = "EXPLICIT_VERSION" -> {"explicit" : j \in run.explicit \cap {i}}
    [] k = "EFFECTIVITY" -> {e[2] : e \in {f \in effectivity : f[1] = i}}
    [] k = "LATEST_ESTABLISHED_BASELINE" -> LatestFor(i, run.at)

\* createItem for the item in hand.
Record(result) ==
  /\ run' = [run EXCEPT !.results = [i \in Recorded \cup {cursor.item} |->
                                       IF i = cursor.item THEN result ELSE run.results[i]]]
  /\ cursor' = [cursor EXCEPT !.item = Nothing]
  /\ UNCHANGED <<failed, baselineVars>>

InHand == run.status = "RUNNING" /\ cursor.item # Nothing

Select ==
  /\ InHand /\ Left # {}
  /\ \E v \in Found(Kind, cursor.item) :
       IF Kind = "EFFECTIVITY" /\ Found(Kind, cursor.item) # {v}
       THEN Record([status |-> "CONFLICT", by |-> Kind])
       ELSE Record([status |-> "RESOLVED", by |-> Kind, version |-> v])

PassOver ==
  /\ InHand /\ Left # {} /\ Found(Kind, cursor.item) = {}
  /\ cursor' = [cursor EXCEPT !.tried = @ \cup {Kind}]
  /\ UNCHANGED <<run, failed, baselineVars>>

\* A criterion throws: one that is not mandatory is passed over.
CriterionFails ==
  /\ InHand /\ Left # {} /\ Kind # "EXPLICIT_VERSION"
  /\ IF Kind \in Mandatory
     THEN Record([status |-> "ERROR", by |-> Kind])
     ELSE /\ failed' = failed \cup {<<cursor.item, Kind>>}
          /\ cursor' = [cursor EXCEPT !.tried = @ \cup {Kind}]
          /\ UNCHANGED <<run, baselineVars>>

NoneSelects ==
  /\ InHand /\ Left = {}
  /\ Record([status |-> "UNRESOLVED", by |-> Nothing])

Of(status) == {i \in Recorded : run.results[i].status = status}

CompleteRun ==
  /\ run.status = "RUNNING" /\ Recorded = Items
  /\ run' = [run EXCEPT !.status = CASE Of("RESOLVED") = Items -> "RESOLVED"
                                     [] Of("RESOLVED") \notin {{}, Items} -> "PARTIAL"
                                     [] Of("ERROR") = Items -> "ERROR"
                                     [] OTHER -> "FAILED"]
  /\ UNCHANGED <<cursor, failed, baselineVars>>

\* There is no catch that completes a run: one whose process ends, or whose
\* statement fails, stays RUNNING and is not taken up again.

Next ==
  \/ \E e \in Items \X Versions : CreateEffectivity(e)
  \/ \E w \in Writers :
       \/ \E b \in Baselines : TakeTime(w, b) \/ \E i \in Items : ReadForItem(w, b, i)
       \/ AddBaselineItem(w) \/ EstablishBaseline(w)
  \/ \E b, c \in Baselines : SupersedeBaseline(b, c)
  \/ Tick
  \/ \E t \in 0..LastTime, uses \in Definitions :
       \E from \in Baselines \cup {Nothing}, explicit \in SUBSET Items :
         StartRun(t, uses, from, explicit)
  \/ \E i \in Items : TakeItem(i)
  \/ Select \/ PassOver \/ CriterionFails \/ NoneSelects \/ CompleteRun

Spec == Init /\ [][Next]_vars

-----------------------------------------------------------------------------
\* A resolution as of a time that had passed when it started can be repeated:
\* whatever was established or superseded since, the latest baseline as of that
\* time is the one it found, and none where it found none.  Only a baseline
\* committed after its own time, or filled after it was established, can change
\* the answer.
Repeatable ==
  (run.status # "NONE" /\ late = {}) =>
    \A i \in Recorded :
      LET result == run.results[i]
          latest == "LATEST_ESTABLISHED_BASELINE"
      IN run.at < run.started =>
           /\ result.by = latest /\ result.status = "RESOLVED"
                => result.version \in LatestFor(i, run.at)
           /\ result.status = "UNRESOLVED" /\ latest \in run.uses /\ <<i, latest>> \notin failed
                => LatestFor(i, run.at) = {}
=============================================================================
