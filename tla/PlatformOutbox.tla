--------------------------- MODULE PlatformOutbox ---------------------------
(***************************************************************************)
(* The transactional outbox of the platform: outbox_messages               *)
(* (packages/persistence/src/platform-writes.ts, portability-repository.ts *)
(* and packages/kernel/src/portability-factories.ts).                      *)
(*                                                                         *)
(* src/ holds no dispatcher: publishers are whoever calls claimOutboxBatch *)
(* and reports each message published or failed, as the integration test   *)
(* does.  A claim moves next_attempt_at to the end of a lease and is not   *)
(* otherwise recorded; the reports do not say whose claim they settle.     *)
(***************************************************************************)
EXTENDS Naturals, FiniteSets

CONSTANTS
  Messages,
  Publishers,
  Limit,        \* of a batch
  MaxClaims,    \* bound: claims of a message
  MaxCrashes    \* bound: batches abandoned

ASSUME OutboxAssumption ==
  Limit \in Nat \ {0} /\ MaxClaims \in Nat \ {0} /\ MaxCrashes \in Nat

VARIABLES
  status,     \* of each message; "none" before the transaction that writes it
  attempts,
  next,       \* next_attempt_at: NULL or past, the end of a lease, a back-off
  batch,      \* messages a publisher has claimed and not yet reported
  answer,     \* what came of a message a publisher has sent
  late,       \* history: <<publisher, message>>, claims whose lease time has ended
  cut,        \* history: claims whose lease somebody else's report has ended
  claims,     \* of each message, counted for the bound
  crashes

vars == <<status, attempts, next, batch, answer, late, cut, claims, crashes>>

Holders(m) == {w \in Publishers : m \in batch[w]}

\* Claims of m, and those of them with a lease: of the last claim, until its time
\* ends or a report comes in from a publisher whose own lease is over.
ClaimsOf(m) == Holders(m) \X {m}
Lapsed == late \cup cut

TypeOK ==
  /\ status \in [Messages -> {"none", "PENDING", "PUBLISHED", "FAILED"}]
  /\ attempts \in [Messages -> Nat]
  /\ next \in [Messages -> {"due", "leased", "later"}]
  /\ \A m \in Messages : (status[m] = "PENDING" => attempts[m] = 0)
                      /\ (status[m] = "PUBLISHED" => next[m] = "due")
  /\ batch \in [Publishers -> SUBSET Messages]
  /\ answer \in [Publishers -> [Messages -> {"none", "ok", "error"}]]
  /\ late \subseteq Publishers \X Messages /\ cut \subseteq Publishers \X Messages
  /\ claims \in [Messages -> 0..MaxClaims]
  /\ crashes \in 0..MaxCrashes

Init ==
  /\ status = [m \in Messages |-> "none"]
  /\ attempts = [m \in Messages |-> 0]
  /\ next = [m \in Messages |-> "due"]
  /\ batch = [w \in Publishers |-> {}]
  /\ answer = [w \in Publishers |-> [m \in Messages |-> "none"]]
  /\ late = {} /\ cut = {} /\ claims = [m \in Messages |-> 0] /\ crashes = 0

-----------------------------------------------------------------------------
\* writeOutboxEvent, in the transaction of the fact it announces.
Write(m) ==
  /\ status[m] = "none"
  /\ status' = [status EXCEPT ![m] = "PENDING"]
  /\ UNCHANGED <<attempts, next, batch, answer, late, cut, claims, crashes>>

\* Mutant: what failed once is not looked for.
ClaimablePending(m) == status[m] = "PENDING" /\ next[m] = "due"

Claimable(m) == status[m] \in {"PENDING", "FAILED"} /\ next[m] = "due"

\* Mutant: no lease is taken.
ClaimUnleased(w, S) ==
  /\ batch[w] = {} /\ S # {} /\ Cardinality(S) <= Limit
  /\ \A m \in S : Claimable(m) /\ claims[m] < MaxClaims
  /\ batch' = [batch EXCEPT ![w] = S]
  /\ claims' = [m \in Messages |-> IF m \in S THEN claims[m] + 1 ELSE claims[m]]
  /\ UNCHANGED <<status, attempts, next, answer, late, cut, crashes>>

\* claimOutboxBatch.  SKIP LOCKED: reports of other messages may be under way
\* and hide them, so any of those that are due may make the batch.
Claim(w, S) ==
  /\ batch[w] = {} /\ S # {} /\ Cardinality(S) <= Limit
  /\ \A m \in S : Claimable(m) /\ claims[m] < MaxClaims
  /\ next' = [m \in Messages |-> IF m \in S THEN "leased" ELSE next[m]]
  /\ batch' = [batch EXCEPT ![w] = S]
  /\ claims' = [m \in Messages |-> IF m \in S THEN claims[m] + 1 ELSE claims[m]]
  /\ UNCHANGED <<status, attempts, answer, late, cut, crashes>>

Send(w, m) ==
  /\ m \in batch[w] /\ answer[w][m] = "none"
  /\ \E a \in {"ok", "error"} : answer' = [answer EXCEPT ![w][m] = a]
  /\ UNCHANGED <<status, attempts, next, batch, late, cut, claims, crashes>>

Settle(w, m) ==
  /\ batch' = [batch EXCEPT ![w] = @ \ {m}]
  /\ answer' = [answer EXCEPT ![w][m] = "none"]
  /\ late' = late \ {<<w, m>>}
  /\ UNCHANGED <<claims, crashes>>

\* Only PENDING and FAILED messages are reported: else the call throws.
Open(m) == status[m] \in {"PENDING", "FAILED"}

\* markOutboxPublished.
MarkPublished(w, m) ==
  /\ answer[w][m] = "ok" /\ Open(m)
  /\ status' = [status EXCEPT ![m] = "PUBLISHED"]
  /\ attempts' = [attempts EXCEPT ![m] = @ + 1]
  /\ next' = [next EXCEPT ![m] = "due"]
  /\ cut' = cut \ {<<w, m>>}
  /\ Settle(w, m)

\* A failure gives the message a new time, or none, whoever has claimed it since.
CutShort(w, m) ==
  cut' = IF <<w, m>> \in Lapsed THEN (cut \cup (ClaimsOf(m) \ late)) \ {<<w, m>>} ELSE cut

\* Mutant: the status is not looked at.
MarkFailedAny(w, m, backoff) ==
  /\ answer[w][m] = "error"
  /\ status' = [status EXCEPT ![m] = "FAILED"]
  /\ attempts' = [attempts EXCEPT ![m] = @ + 1]
  /\ next' = [next EXCEPT ![m] = IF backoff THEN "later" ELSE "due"]
  /\ CutShort(w, m)
  /\ Settle(w, m)

\* markOutboxFailed; nextAttemptAt is optional.
MarkFailed(w, m, backoff) ==
  /\ answer[w][m] = "error" /\ Open(m)
  /\ status' = [status EXCEPT ![m] = "FAILED"]
  /\ attempts' = [attempts EXCEPT ![m] = @ + 1]
  /\ next' = [next EXCEPT ![m] = IF backoff THEN "later" ELSE "due"]
  /\ CutShort(w, m)
  /\ Settle(w, m)

\* The report throws: another publisher's came first.
MarkRefused(w, m) ==
  /\ answer[w][m] # "none" /\ status[m] = "PUBLISHED"
  /\ cut' = cut \ {<<w, m>>}
  /\ Settle(w, m)
  /\ UNCHANGED <<status, attempts, next>>

Crash(w) ==
  /\ batch[w] # {} /\ crashes < MaxCrashes /\ crashes' = crashes + 1
  /\ batch' = [batch EXCEPT ![w] = {}]
  /\ answer' = [answer EXCEPT ![w] = [m \in Messages |-> "none"]]
  /\ late' = late \ ({w} \X Messages) /\ cut' = cut \ ({w} \X Messages)
  /\ UNCHANGED <<status, attempts, next, claims>>

\* Time: a lease or a back-off ends, whether or not the message is still held.
Lapse(m) ==
  /\ next[m] # "due"
  /\ next' = [next EXCEPT ![m] = "due"]
  /\ late' = IF next[m] = "leased" THEN late \cup (ClaimsOf(m) \ cut) ELSE late
  /\ UNCHANGED <<status, attempts, batch, answer, cut, claims, crashes>>

Report(w, m) ==
  MarkPublished(w, m) \/ MarkRefused(w, m) \/ \E b \in BOOLEAN : MarkFailed(w, m, b)

Next ==
  \/ \E m \in Messages : Write(m) \/ Lapse(m)
  \/ \E w \in Publishers, S \in SUBSET Messages : Claim(w, S)
  \/ \E w \in Publishers, m \in Messages : Send(w, m) \/ Report(w, m)
  \/ \E w \in Publishers : Crash(w)

Spec == Init /\ [][Next]_vars

\* Time passes, and publishers keep polling (the oldest message that is due is
\* the first of a batch) and work their batches to the end.
Fairness ==
  /\ \A m \in Messages : WF_vars(Lapse(m))
  /\ \A w \in Publishers, m \in Messages :
       /\ SF_vars(\E S \in SUBSET Messages : m \in S /\ Claim(w, S))
       /\ WF_vars(Send(w, m)) /\ WF_vars(Report(w, m))
FairSpec == Spec /\ Fairness

-----------------------------------------------------------------------------
(***************************************************************************)
(* Properties                                                              *)
(***************************************************************************)
\* claimOutboxBatch: of all who work on a message one at most has a lease, whatever
\* crashes, failures and reports came before.  A lease ends in time, with its own
\* report or, cut short, with the late failure of a publisher that had lost its
\* own: nothing else lets a message be claimed again.
LeasesExclusive ==
  \A m \in Messages : \A v, w \in Holders(m) : {<<v, m>>, <<w, m>>} \cap Lapsed = {} => v = w

\* markOutboxPublished, markOutboxFailed: a late report of another publisher
\* neither reopens a published message nor counts as an attempt of it.
PublishedIsFinal ==
  [][\A m \in Messages : status[m] = "PUBLISHED" =>
       status'[m] = "PUBLISHED" /\ attempts'[m] = attempts[m]]_vars

\* claimOutboxBatch and the reports, over crashes, failures and leases: what was
\* committed is published in the end, or claimed as often as the bound allows.
EventuallyPublished ==
  \A m \in Messages :
    status[m] = "PENDING" ~> status[m] = "PUBLISHED" \/ claims[m] = MaxClaims
=============================================================================
