------------------------ MODULE IdempotencyRecords ------------------------
(***************************************************************************)
(* The idempotency record of one key in one scope                          *)
(* (packages/persistence/src/portability-repository.ts 531-658 and         *)
(* packages/kernel/src/portability-factories.ts 149-191).                  *)
(*                                                                         *)
(* src/ holds the record, not the commands it protects: a caller claims    *)
(* the key, runs its command when the claim is no replay, and reports.     *)
(* A report names tenant, scope and key, not the claim it belongs to.      *)
(***************************************************************************)
EXTENDS Naturals

CONSTANTS
  Callers,
  Commands,   \* what callers ask for; the request hash stands for it
  MaxClaims   \* bound: claims by all callers

ASSUME IdempotencyAssumption == Commands # {} /\ MaxClaims \in Nat

VARIABLES
  status,    \* "none" when there is no record
  hash,      \* request_hash
  response,  \* response_reference: the command that produced it
  lasts,     \* expires_at is in the future or NULL
  doing,     \* command a caller runs on the strength of its claim
  overran,   \* history: callers whose record expired under their command
  trusted,   \* history: the response was reported by a caller that was in time
  given,     \* history: <<asked, answered>> of the replays of such a response
  ran,       \* history: commands reported in time since a record last expired
  claims

vars == <<status, hash, response, lasts, doing, overran, trusted, given, ran, claims>>

Idle == "idle"
ASSUME IdleAssumption == Idle \notin Commands

TypeOK ==
  /\ status \in {"none", "IN_PROGRESS", "COMPLETED", "FAILED"}
  /\ hash \in Commands /\ response \in Commands \cup {Idle}
  /\ response # Idle => status = "COMPLETED"
  /\ lasts \in BOOLEAN
  /\ doing \in [Callers -> Commands \cup {Idle}]
  /\ overran \subseteq {p \in Callers : doing[p] # Idle} /\ trusted \in BOOLEAN
  /\ given \subseteq Commands \X Commands
  /\ ran \in Nat /\ claims \in 0..MaxClaims

Init ==
  /\ status = "none" /\ hash = (CHOOSE c \in Commands : TRUE) /\ response = Idle
  /\ lasts = TRUE
  /\ doing = [p \in Callers |-> Idle]
  /\ overran = {} /\ trusted = TRUE /\ given = {} /\ ran = 0 /\ claims = 0

-----------------------------------------------------------------------------
(***************************************************************************)
(* claimIdempotency                                                        *)
(***************************************************************************)
Counted == claims < MaxClaims /\ claims' = claims + 1

\* The INSERT of a record that is not there, or the renewal of an expired one.
Take(p, c) ==
  /\ status' = "IN_PROGRESS" /\ hash' = c /\ response' = Idle /\ lasts' = TRUE
  /\ trusted' = TRUE /\ doing' = [doing EXCEPT ![p] = c]
  /\ UNCHANGED <<overran, given, ran>>

\* Mutant: a failed record is taken by whoever asks.
FreeOrFailed == status = "none" \/ ~lasts \/ status = "FAILED"

Free == status = "none" \/ ~lasts

Claim(p, c) == Counted /\ doing[p] = Idle /\ Free /\ Take(p, c)

\* A replay of the record comes with a response.
Answered == status = "COMPLETED" /\ response # Idle /\ trusted

\* Mutant: the hash is not compared.
ReplayAny(p, c) ==
  /\ Counted /\ doing[p] = Idle /\ ~Free
  /\ given' = IF Answered THEN given \cup {<<c, response>>} ELSE given
  /\ UNCHANGED <<status, hash, response, lasts, doing, overran, trusted, ran>>

\* The record is given back to be answered from.
Replay(p, c) ==
  /\ Counted /\ doing[p] = Idle /\ ~Free /\ hash = c
  /\ given' = IF Answered THEN given \cup {<<c, response>>} ELSE given
  /\ UNCHANGED <<status, hash, response, lasts, doing, overran, trusted, ran>>

\* A report of a caller throws when the record is not IN_PROGRESS.
Report(p, outcome, answer) ==
  /\ doing[p] # Idle /\ doing' = [doing EXCEPT ![p] = Idle]
  /\ overran' = overran \ {p}
  /\ ran' = IF p \in overran THEN ran ELSE ran + 1
  /\ IF status = "IN_PROGRESS"
     THEN status' = outcome /\ response' = answer /\ trusted' = (p \notin overran)
     ELSE UNCHANGED <<status, response, trusted>>
  /\ UNCHANGED <<hash, lasts, given, claims>>

\* completeIdempotency; the reference to the response is optional.
Complete(p) == \E answer \in {doing[p], Idle} : Report(p, "COMPLETED", answer)

\* failIdempotency.
Fail(p) == Report(p, "FAILED", response)

\* A caller is gone before it reports.
Crash(p) ==
  /\ doing[p] # Idle /\ doing' = [doing EXCEPT ![p] = Idle]
  /\ overran' = overran \ {p}
  /\ UNCHANGED <<status, hash, response, lasts, trusted, given, ran, claims>>

Expire ==
  /\ status # "none" /\ lasts
  /\ lasts' = FALSE /\ ran' = 0
  /\ overran' = {p \in Callers : doing[p] # Idle}
  /\ UNCHANGED <<status, hash, response, doing, trusted, given, claims>>

Next ==
  \/ \E p \in Callers, c \in Commands : Claim(p, c) \/ Replay(p, c)
  \/ \E p \in Callers : Complete(p) \/ Fail(p) \/ Crash(p)
  \/ Expire

Spec == Init /\ [][Next]_vars

-----------------------------------------------------------------------------
(***************************************************************************)
(* Properties                                                              *)
(***************************************************************************)
\* claimIdempotency: the command of a record is run once and by one caller,
\* whoever else claims, crashes, fails or comes back; a caller whose record has
\* expired under its command may still run beside, and report to, the next one.
RunsOnce ==
  LET Running == {p \in Callers \ overran : doing[p] # Idle}
  IN  /\ \A p, q \in Running : p = q
      /\ ran <= 1
      /\ ran = 1 => Running = {}

\* "Idempotency key was reused with a different request": no caller is given
\* the response to another command than its own, also after the key expired
\* and was taken for another one, unless that response was reported too late.
AnswersOwnCommand == \A g \in given : g[1] = g[2]
=============================================================================
