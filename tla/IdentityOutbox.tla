--------------------------- MODULE IdentityOutbox ---------------------------
(***************************************************************************)
(* Identity challenges and the outbox that mails their links               *)
(* (packages/persistence/src/identity-challenge-service.ts and             *)
(* identity-message-dispatcher.ts).  A challenge and its message are       *)
(* inserted together, so one id stands for both rows.                      *)
(*                                                                         *)
(* A transaction is one step: InnoDB's row and gap locks order the         *)
(* transactions of one user.  A read made through the pool before the      *)
(* transaction, the call of the mail transport, and the UPDATE that        *)
(* records its outcome are steps of their own.  Time is a set of events:   *)
(* a challenge expires, a back-off elapses, a claim grows 10 minutes old.  *)
(***************************************************************************)
EXTENDS Naturals, FiniteSets

CONSTANTS
  Users, Tenants,
  Purposes,     \* the purposes exercised, of the code's two
  Workers,      \* processes running the dispatch loop
  Batch,        \* NUBLOX_IDENTITY_EMAIL_BATCH_SIZE
  MaxAttempts,  \* 5 in the code
  SlowWorkers,  \* may a batch (15 s a message) outlive its 10-minute claim?
  MaxIds,       \* bound: challenges ever issued
  MaxCrashes    \* bound: batches abandoned by a crash or a database error

ASSUME OutboxAssumption ==
  /\ Users # {} /\ Tenants # {} /\ Purposes # {}
  /\ Purposes \subseteq {"EMAIL_VERIFICATION", "PASSWORD_RESET"}
  /\ Batch \in Nat \ {0} /\ MaxAttempts \in Nat \ {0}
  /\ SlowWorkers \in BOOLEAN
  /\ MaxIds \in Nat /\ MaxCrashes \in Nat

VARIABLES
  enabled,    \* users whose account, membership and tenant are ACTIVE
  verified,   \* users with email_verified_at
  asked,      \* requests that passed the lookup, transaction still to come
  issued,     \* challenges 1..issued exist, in queued_at order
  key,        \* key[c]: user, tenant and purpose of challenge c
  life,       \* life[c]: consumed_at, invalidated_at and expires_at of c
  msg,        \* msg[c]: status of its message
  attempts,   \* attempts[c]: attempt_count
  due,        \* due[c]: next_attempt_at is NULL or past
  stale,      \* stale[c]: last_attempt_at is over 10 minutes ago
  link,       \* link[c]: action_path still holds the raw token
  batch,      \* batch[w]: messages worker w claimed and has yet to settle
  outcome,    \* outcome[w]: what the transport said of the first of them
  mailed,     \* links that reached a mailbox
  late,       \* history: messages whose claim grew old under its worker
  acked,      \* history: messages the transport accepted
  crashes

challengeVars == <<issued, key, life>>
messageVars   == <<msg, attempts, due, stale, link>>
workerVars    == <<batch, outcome, mailed, late, acked, crashes>>
userVars      == <<enabled, verified, asked>>
vars == <<challengeVars, messageVars, workerVars, userVars>>

Ids  == 1..MaxIds
Keys == [user : Users, tenant : Tenants, purpose : Purposes]
Lives == {"none", "active", "consumed", "invalidated", "expired"}
Statuses == {"none", "QUEUED", "SENDING", "SENT", "FAILED", "CANCELLED"}

TypeOK ==
  /\ enabled \in SUBSET Users /\ verified \in SUBSET Users
  /\ asked \in SUBSET Keys
  /\ issued \in 0..MaxIds
  /\ key \in [Ids -> Keys]
  /\ life \in [Ids -> Lives]
  /\ msg \in [Ids -> Statuses]
  /\ attempts \in [Ids -> 0..MaxAttempts]
  /\ due \in [Ids -> BOOLEAN] /\ stale \in [Ids -> BOOLEAN]
  /\ link \in [Ids -> BOOLEAN]
  /\ batch \in [Workers -> SUBSET (1..issued)]
  /\ outcome \in [Workers -> {"none", "ok", "error"}]
  /\ mailed \in SUBSET (1..issued) /\ acked \in SUBSET mailed
  /\ late \in SUBSET (1..issued)
  /\ crashes \in 0..MaxCrashes

Init ==
  /\ enabled = Users /\ verified = {} /\ asked = {}
  /\ issued = 0
  /\ key = [c \in Ids |-> CHOOSE k \in Keys : TRUE]
  /\ life = [c \in Ids |-> "none"]
  /\ msg = [c \in Ids |-> "none"]
  /\ attempts = [c \in Ids |-> 0]
  /\ due = [c \in Ids |-> TRUE]
  /\ stale = [c \in Ids |-> FALSE]
  /\ link = [c \in Ids |-> FALSE]
  /\ batch = [w \in Workers |-> {}]
  /\ outcome = [w \in Workers |-> "none"]
  /\ mailed = {} /\ acked = {} /\ late = {}
  /\ crashes = 0

Exists == 1..issued

-----------------------------------------------------------------------------
(***************************************************************************)
(* Requests: registration, resendEmailVerification, requestPasswordReset   *)
(***************************************************************************)
\* The lookup through the pool; nothing it reads is locked or read again.
Ask(k) ==
  /\ k \notin asked
  /\ k.user \in enabled
  /\ k.purpose = "EMAIL_VERIFICATION" <=> k.user \notin verified
  /\ asked' = asked \cup {k}
  /\ UNCHANGED <<enabled, verified, challengeVars, messageVars, workerVars>>

\* queueIdentityChallenge.  The second UPDATE follows the first, so it also
\* finds what the first has just invalidated, but never a challenge that
\* expired with its message still queued.
Superseded(k) ==
  {c \in Exists : key[c] = k /\ life[c] \in {"active", "invalidated"}}

Issue(k) ==
  LET new == issued + 1
      cancelled == {c \in Superseded(k) :
                      msg[c] \in {"QUEUED", "FAILED", "SENDING"}}
  IN
  /\ k \in asked /\ asked' = asked \ {k}
  /\ issued < MaxIds
  /\ issued' = new
  /\ key' = [key EXCEPT ![new] = k]
  /\ life' = [c \in Ids |-> IF c = new THEN "active"
                            ELSE IF c \in Superseded(k) THEN "invalidated"
                            ELSE life[c]]
  /\ msg' = [c \in Ids |-> IF c = new THEN "QUEUED"
                           ELSE IF c \in cancelled THEN "CANCELLED"
                           ELSE msg[c]]
  /\ link' = [c \in Ids |-> c = new \/ (link[c] /\ c \notin cancelled)]
  /\ UNCHANGED <<enabled, verified, attempts, due, stale, workerVars>>

-----------------------------------------------------------------------------
(***************************************************************************)
(* Use of a link: verifyEmail and resetPassword                            *)
(***************************************************************************)
\* Mutant: invalidated_at is not looked at.
UsableInvalidated(c, purpose) ==
  /\ c \in mailed
  /\ key[c].purpose = purpose
  /\ key[c].user \in enabled
  /\ life[c] \in {"active", "invalidated"}

\* requireActiveChallenge; a token is known only from the mail.
Usable(c, purpose) ==
  /\ c \in mailed
  /\ key[c].purpose = purpose
  /\ key[c].user \in enabled
  /\ life[c] = "active"

\* MySQL assigns a single-table UPDATE's columns from left to right, so the
\* CASEs after the first already see status = 'CANCELLED': action_path stays.
CancelQueued(c) ==
  /\ msg' = [msg EXCEPT ![c] = IF @ \in {"QUEUED", "FAILED"}
                               THEN "CANCELLED" ELSE @]
  /\ UNCHANGED <<attempts, due, stale, link>>

\* Other challenges of the user and purpose, in every tenant, expired or not.
Rivals(c) ==
  {d \in Exists : /\ d # c
                  /\ key[d].user = key[c].user
                  /\ key[d].purpose = key[c].purpose
                  /\ life[d] \in {"active", "expired"}}

ConsumeAndInvalidate(c) ==
  life' = [d \in Ids |-> IF d = c THEN "consumed"
                         ELSE IF d \in Rivals(c) THEN "invalidated"
                         ELSE life[d]]

VerifyEmail(c) ==
  /\ Usable(c, "EMAIL_VERIFICATION")
  /\ key[c].user \notin verified
  /\ verified' = verified \cup {key[c].user}
  /\ ConsumeAndInvalidate(c)
  /\ CancelQueued(c)
  /\ UNCHANGED <<enabled, asked, issued, key, workerVars>>

\* The early return: the address was verified by another challenge.
VerifyAgain(c) ==
  /\ Usable(c, "EMAIL_VERIFICATION")
  /\ key[c].user \in verified
  /\ life' = [life EXCEPT ![c] = "consumed"]
  /\ CancelQueued(c)
  /\ UNCHANGED <<userVars, issued, key, workerVars>>

\* The password and the sessions it also writes are AuthSessions' subject.
ResetPassword(c) ==
  /\ Usable(c, "PASSWORD_RESET")
  /\ ConsumeAndInvalidate(c)
  /\ CancelQueued(c)
  /\ UNCHANGED <<userVars, issued, key, workerVars>>

-----------------------------------------------------------------------------
(***************************************************************************)
(* MySqlIdentityMessageDispatcher.dispatchBatch                            *)
(***************************************************************************)
\* Mutant: no claim ever expires.
NoExpiredClaims == {}

ExpiredClaims == {c \in Exists : msg[c] = "SENDING" /\ stale[c]}

\* Mutant: a message in delivery is taken.
EligibleSending ==
  {c \in Exists : /\ msg[c] \in {"QUEUED", "FAILED", "SENDING"} /\ due[c]
                  /\ attempts[c] < MaxAttempts}

Eligible ==
  {c \in Exists : /\ \/ msg[c] \in {"QUEUED", "FAILED"} /\ due[c]
                     \/ c \in ExpiredClaims
                  /\ attempts[c] < MaxAttempts}

\* ORDER BY queued_at, id LIMIT safeLimit FOR UPDATE SKIP LOCKED
Picked == {c \in Eligible : Cardinality({d \in Eligible : d < c}) < Batch}

\* The claim transaction: fail the expired claims, then take a batch.
Claim(w) ==
  /\ batch[w] = {}
  /\ Picked \cup ExpiredClaims # {}
  /\ batch' = [batch EXCEPT ![w] = Picked]
  /\ msg' = [c \in Ids |-> IF c \in Picked THEN "SENDING"
                           ELSE IF c \in ExpiredClaims THEN "FAILED"
                           ELSE msg[c]]
  /\ attempts' = [c \in Ids |-> attempts[c] + (IF c \in Picked THEN 1 ELSE 0)]
  /\ due' = [c \in Ids |-> due[c] \/ c \in ExpiredClaims]
  /\ stale' = [c \in Ids |-> stale[c] /\ c \notin Picked \cup ExpiredClaims]
  /\ UNCHANGED <<userVars, challengeVars, link, outcome, mailed, late, acked,
                 crashes>>

Current(w) == CHOOSE c \in batch[w] : \A d \in batch[w] : c <= d

\* transport.send: accepted, or an error, after which the mail may have gone
\* out all the same (a timeout, an answer lost).
Send(w) ==
  LET c == Current(w) IN
  /\ batch[w] # {} /\ outcome[w] = "none"
  /\ \/ /\ outcome' = [outcome EXCEPT ![w] = "ok"]
        /\ mailed' = mailed \cup {c} /\ acked' = acked \cup {c}
     \/ /\ outcome' = [outcome EXCEPT ![w] = "error"]
        /\ mailed' \in {mailed, mailed \cup {c}} /\ UNCHANGED acked
  /\ UNCHANGED <<userVars, challengeVars, messageVars, batch, late, crashes>>

Done(w) ==
  /\ batch' = [batch EXCEPT ![w] = @ \ {Current(w)}]
  /\ outcome' = [outcome EXCEPT ![w] = "none"]

\* Mutant: AND status = 'SENDING' is missing.
RecordSentAlways(w) ==
  LET c == Current(w) IN
  /\ outcome[w] = "ok"
  /\ msg' = [msg EXCEPT ![c] = "SENT"]
  /\ link' = [link EXCEPT ![c] = FALSE]
  /\ due' = [due EXCEPT ![c] = TRUE]
  /\ Done(w)
  /\ UNCHANGED <<userVars, challengeVars, attempts, stale, mailed, late, acked,
                 crashes>>

\* UPDATE ... WHERE id = ? AND status = 'SENDING': whoever claimed it since.
RecordSent(w) ==
  LET c == Current(w) IN
  /\ outcome[w] = "ok"
  /\ IF msg[c] = "SENDING"
     THEN /\ msg' = [msg EXCEPT ![c] = "SENT"]
          /\ link' = [link EXCEPT ![c] = FALSE]
          /\ due' = [due EXCEPT ![c] = TRUE]
     ELSE UNCHANGED <<msg, link, due>>
  /\ Done(w)
  /\ UNCHANGED <<userVars, challengeVars, attempts, stale, mailed, late, acked,
                 crashes>>

\* That UPDATE is inside the try: its failure is taken for a failed send.
RecordSentThrows(w) ==
  /\ outcome[w] = "ok"
  /\ crashes < MaxCrashes /\ crashes' = crashes + 1
  /\ outcome' = [outcome EXCEPT ![w] = "error"]
  /\ UNCHANGED <<userVars, challengeVars, messageVars, batch, mailed, late,
                 acked>>

\* Mutant: AND status = 'SENDING' is missing.
RecordFailedAlways(w) ==
  LET c == Current(w) IN
  /\ outcome[w] = "error"
  /\ msg' = [msg EXCEPT ![c] = "FAILED"]
  /\ due' = [due EXCEPT ![c] = attempts[c] >= MaxAttempts]
  /\ Done(w)
  /\ UNCHANGED <<userVars, challengeVars, attempts, stale, link, mailed, late,
                 acked, crashes>>

\* The catch block: back off, or give up with next_attempt_at = NULL.
RecordFailed(w) ==
  LET c == Current(w) IN
  /\ outcome[w] = "error"
  /\ IF msg[c] = "SENDING"
     THEN /\ msg' = [msg EXCEPT ![c] = "FAILED"]
          /\ due' = [due EXCEPT ![c] = attempts[c] >= MaxAttempts]
     ELSE UNCHANGED <<msg, due>>
  /\ Done(w)
  /\ UNCHANGED <<userVars, challengeVars, attempts, stale, link, mailed, late,
                 acked, crashes>>

\* The process dies, or a database error leaves dispatchBatch.
Crash(w) ==
  /\ batch[w] # {}
  /\ crashes < MaxCrashes /\ crashes' = crashes + 1
  /\ batch' = [batch EXCEPT ![w] = {}]
  /\ outcome' = [outcome EXCEPT ![w] = "none"]
  /\ UNCHANGED <<userVars, challengeVars, messageVars, mailed, late, acked>>

-----------------------------------------------------------------------------
(***************************************************************************)
(* The environment: time, and the administration of accounts               *)
(***************************************************************************)
Expire(c) ==
  /\ life[c] = "active"
  /\ life' = [life EXCEPT ![c] = "expired"]
  /\ UNCHANGED <<userVars, issued, key, messageVars, workerVars>>

BackoffElapses(c) ==
  /\ msg[c] = "FAILED" /\ ~due[c]
  /\ due' = [due EXCEPT ![c] = TRUE]
  /\ UNCHANGED <<userVars, challengeVars, msg, attempts, stale, link, workerVars>>

Held(c) == \E w \in Workers : c \in batch[w]

\* 10 minutes after the claim.  A batch may outlive it: up to 100 messages, each
\* cut off at 15 s.
ClaimAges(c) ==
  /\ msg[c] = "SENDING" /\ ~stale[c]
  /\ SlowWorkers \/ ~Held(c)
  /\ stale' = [stale EXCEPT ![c] = TRUE]
  /\ late' = IF Held(c) THEN late \cup {c} ELSE late
  /\ UNCHANGED <<userVars, challengeVars, msg, attempts, due, link, batch,
                 outcome, mailed, acked, crashes>>

Administer(u) ==
  /\ enabled' \in {enabled \ {u}, enabled \cup {u}}
  /\ UNCHANGED <<verified, asked, challengeVars, messageVars, workerVars>>

Work(w) ==
  Claim(w) \/ Send(w) \/ RecordSent(w) \/ RecordSentThrows(w) \/ RecordFailed(w)
TimePasses(c) == BackoffElapses(c) \/ ClaimAges(c)

Next ==
  \/ \E k \in Keys : Ask(k) \/ Issue(k)
  \/ \E c \in Exists : VerifyEmail(c) \/ VerifyAgain(c) \/ ResetPassword(c)
                       \/ Expire(c) \/ TimePasses(c)
  \/ \E w \in Workers : Work(w) \/ Crash(w)
  \/ \E u \in Users : Administer(u)

Spec == Init /\ [][Next]_vars

\* The loop of dispatch-identity-messages-loop.ts polls for ever and every
\* await in it returns; clocks move.
FairSpec ==
  /\ Spec
  /\ \A w \in Workers : WF_vars(Work(w))
  /\ \A c \in Ids : WF_vars(c \in Exists /\ TimePasses(c))

-----------------------------------------------------------------------------

\* A message that may yet be sent still has its link: the dispatcher never
\* mails an empty one, whoever cancelled or sent it meanwhile.
SendableHasLink ==
  \A c \in Exists : msg[c] \in {"QUEUED", "SENDING", "FAILED"} => link[c]

\* Two workers hold one message only if its claim grew old under one of them,
\* whatever was cancelled, failed, crashed or claimed again before.
ClaimsDisjoint ==
  \A v, w \in Workers : v # w => batch[v] \cap batch[w] \subseteq late

\* A settled message is never reopened, by a late outcome or a late claim.
SettledIsFinal ==
  [][\A c \in Exists :
       msg[c] \in {"SENT", "CANCELLED"} => msg'[c] = msg[c]]_vars

Settled(c) ==
  \/ msg[c] \in {"SENT", "CANCELLED"}
  \/ msg[c] = "FAILED" /\ attempts[c] = MaxAttempts

\* Every message is settled, crashes and lost answers notwithstanding.
EventuallySettled == \A c \in Ids : msg[c] = "QUEUED" ~> Settled(c)

\* "successful message delivery purges the raw action link from the outbox"
\* (ADR-0010:36): at the latest once nothing more will be done to the message.
DeliveredLinkPurged ==
  \A c \in Exists : c \in acked /\ Settled(c) /\ ~Held(c) => ~link[c]

\* The challenges keep the promise of OneTimeLinks.
Links == INSTANCE OneTimeLinks WITH
  state <- [c \in Ids |-> CASE life[c] = "none" -> "unissued"
                            [] life[c] = "active" -> "live"
                            [] life[c] = "consumed" -> "used"
                            [] OTHER -> "dead"]
LinksSpec == Links!LinksSpec
=============================================================================
