--------------------------- MODULE MfaChallenges ---------------------------
(***************************************************************************)
(* Multi-factor authentication of one identity in one tenant               *)
(* (packages/persistence/src/mfa-service.ts and the sign-in, enrolment and *)
(* security routes of apps/web that drive it): the TOTP enrolment with its *)
(* recovery codes, and the challenges that stand between a password and a  *)
(* session.                                                                *)
(*                                                                         *)
(* A transaction is one step (each locks the enrolment or challenge row).  *)
(* Reads made through the pool, and the two services an enrolling sign-in  *)
(* calls one after the other, are steps of their own.  A TOTP code is the  *)
(* pair of the secret it was made from and its 30-second counter.          *)
(***************************************************************************)
EXTENDS Naturals, FiniteSets

CONSTANTS
  Logins,         \* sign-in requests in flight
  Codes,          \* recovery codes in a set; RECOVERY_CODE_COUNT is 10
  Window,         \* TOTP_WINDOW, 1 in the code
  MaxAttempts,    \* MFA_MAX_ATTEMPTS, 5 in the code
  MaxChallenges,  \* bounds: challenges ever opened,
  MaxSecrets,     \*   secrets ever enrolled,
  MaxSets,        \*   sets of recovery codes,
  MaxTime         \*   the last counter of the clock

MfaAssumption ==
  /\ Window \in Nat /\ MaxAttempts \in Nat \ {0}
  /\ MaxChallenges \in Nat /\ MaxSecrets \in Nat /\ MaxSets \in Nat
  /\ MaxTime \in Nat

VARIABLES
  required,    \* mfa_requirement = 'REQUIRED'
  status,      \* status of the enrolment, NONE without a row
  secret,      \* its current secret
  lastCounter, \* last_used_counter, 0 for NULL
  recovery,    \* recovery codes not yet consumed
  sets,        \* sets of recovery codes generated
  now,         \* the clock's TOTP counter
  decided,     \* decided[l]: mode login l will open its challenge in
  disabling,   \* a disable request has passed its policy check
  opened,      \* challenges 1..opened exist
  mode,        \* mode[c]: VERIFY or ENROLL
  life,        \* life[c]: open, expired (unconsumed all the same), consumed
  attempts,    \* attempts[c]: attempt_count
  enrolling,   \* challenges whose confirmed enrolment has yet to consume them
  passed,      \* challenges that have led to an MFA session
  used,        \* history: TOTP codes accepted at sign-in or step-up,
  confirmed,   \*   counter that confirmed the current enrolment, or 0,
  spent,       \*   recovery codes accepted,
  reused,      \*   whether one of these was accepted again
  barred       \*   challenges that existed when MFA was last disabled

enrolmentVars == <<status, secret, lastCounter, recovery, sets>>
challengeVars == <<opened, mode, life, attempts, passed>>
requestVars   == <<required, now, decided, disabling, enrolling>>
historyVars   == <<used, confirmed, spent, reused, barred>>
vars == <<enrolmentVars, challengeVars, requestVars, historyVars>>

Challenges == 1..MaxChallenges
Exists     == 1..opened
Counters   == 1..(MaxTime + Window)
Totps      == (1..MaxSecrets) \X Counters

TypeOK ==
  /\ required \in BOOLEAN /\ disabling \in BOOLEAN /\ reused \in BOOLEAN
  /\ status \in {"NONE", "PENDING", "ACTIVE", "DISABLED"}
  /\ secret \in 0..MaxSecrets
  /\ lastCounter \in 0..(MaxTime + Window)
  /\ sets \in 0..MaxSets
  /\ recovery \in SUBSET ({sets} \X Codes)
  /\ now \in 1..MaxTime
  /\ decided \in [Logins -> {"none", "VERIFY", "ENROLL"}]
  /\ opened \in 0..MaxChallenges
  /\ mode \in [Challenges -> {"VERIFY", "ENROLL"}]
  /\ life \in [Challenges -> {"open", "expired", "consumed"}]
  /\ attempts \in [Challenges -> 0..MaxAttempts]
  /\ enrolling \in SUBSET Exists /\ passed \in SUBSET Exists
  /\ barred \in SUBSET Exists
  /\ used \in SUBSET Totps /\ confirmed \in 0..(MaxTime + Window)
  /\ spent \in SUBSET ((1..MaxSets) \X Codes)
  /\ status \in {"PENDING", "ACTIVE"} => secret > 0

Init ==
  /\ required \in BOOLEAN
  /\ status = "NONE" /\ secret = 0 /\ lastCounter = 0
  /\ recovery = {} /\ sets = 0 /\ now = 1
  /\ decided = [l \in Logins |-> "none"] /\ disabling = FALSE
  /\ opened = 0
  /\ mode = [c \in Challenges |-> "VERIFY"]
  /\ life = [c \in Challenges |-> "consumed"]
  /\ attempts = [c \in Challenges |-> 0]
  /\ enrolling = {} /\ passed = {}
  /\ used = {} /\ confirmed = 0 /\ spent = {} /\ reused = FALSE
  /\ barred = {}

-----------------------------------------------------------------------------
(***************************************************************************)
(* Enrolment                                                               *)
(***************************************************************************)
\* A new secret; refused while MFA is enabled.
StartEnrollment ==
  /\ status # "ACTIVE"
  /\ secret < MaxSecrets /\ secret' = secret + 1
  /\ status' = "PENDING"
  /\ lastCounter' = 0 /\ recovery' = {} /\ confirmed' = 0
  /\ UNCHANGED <<sets, challengeVars, requestVars, used, spent, reused, barred>>

NewRecoverySet ==
  /\ sets < MaxSets /\ sets' = sets + 1
  /\ recovery' = {sets + 1} \X Codes

\* The counters verifyTotp tries: around the clock, after the last one used.
Acceptable(after) == {k \in Counters : k > after /\ now - Window <= k
                                                 /\ k <= now + Window}

\* confirmEnrollment: the code is checked, its counter is not kept.
Confirm ==
  /\ status = "PENDING" /\ status' = "ACTIVE"
  /\ \E k \in Acceptable(0) : confirmed' = k
  /\ lastCounter' = 0
  /\ NewRecoverySet
  /\ UNCHANGED <<secret, challengeVars, required, now, decided, disabling,
                 used, spent, reused, barred>>

\* From the security page of a session.
ConfirmEnrollment == Confirm /\ UNCHANGED enrolling

\* From a sign-in that must enrol: resolveRequiredEnrollmentChallenge, then
\* confirmEnrollment; consuming the challenge is the next call.
ConfirmForSignIn(c) ==
  /\ mode[c] = "ENROLL" /\ life[c] = "open"
  /\ Confirm
  /\ enrolling' = enrolling \cup {c}

\* Mutant: the rows affected are not counted.
ConsumeEnrollmentUnchecked(c) ==
  /\ c \in enrolling /\ enrolling' = enrolling \ {c}
  /\ life' = [life EXCEPT ![c] = "consumed"] /\ passed' = passed \cup {c}
  /\ UNCHANGED <<enrolmentVars, opened, mode, attempts, required, now, decided,
                 disabling, historyVars>>

\* consumeRequiredEnrollmentChallenge: one row affected, or no session.
ConsumeEnrollment(c) ==
  /\ c \in enrolling /\ enrolling' = enrolling \ {c}
  /\ IF life[c] = "open"
     THEN life' = [life EXCEPT ![c] = "consumed"] /\ passed' = passed \cup {c}
     ELSE UNCHANGED <<life, passed>>
  /\ UNCHANGED <<enrolmentVars, opened, mode, attempts, required, now, decided,
                 disabling, historyVars>>

RegenerateRecoveryCodes ==
  /\ status = "ACTIVE"
  /\ NewRecoverySet
  /\ UNCHANGED <<status, secret, lastCounter, challengeVars, requestVars,
                 historyVars>>

\* The security page reads the policy, then authenticates, then disables.
CheckDisable ==
  /\ ~disabling /\ ~required /\ disabling' = TRUE
  /\ UNCHANGED <<enrolmentVars, challengeVars, required, now, decided,
                 enrolling, historyVars>>

\* Mutant: the recovery codes and challenges are left as they are.
DisableEnrollmentOnly ==
  /\ disabling /\ disabling' = FALSE
  /\ status \in {"ACTIVE", "PENDING"} /\ status' = "DISABLED"
  /\ barred' = Exists
  /\ UNCHANGED <<secret, lastCounter, recovery, sets, challengeVars, required,
                 now, decided, enrolling, used, confirmed, spent, reused>>

\* disable: the row, its codes, and every challenge not yet consumed.
Disable ==
  /\ disabling /\ disabling' = FALSE
  /\ IF status \in {"ACTIVE", "PENDING"}
     THEN /\ status' = "DISABLED" /\ recovery' = {}
          /\ life' = [c \in Challenges |-> "consumed"]
          /\ barred' = Exists
     ELSE UNCHANGED <<status, recovery, life, barred>>
  /\ UNCHANGED <<secret, lastCounter, sets, opened, mode, attempts, passed,
                 required, now, decided, enrolling, used, confirmed, spent,
                 reused>>

-----------------------------------------------------------------------------
(***************************************************************************)
(* Sign-in                                                                 *)
(***************************************************************************)
\* beginLogin's two reads through the pool; with neither an enrolment nor a
\* requirement the sign-in needs no challenge.
Decide(l) ==
  /\ decided[l] = "none"
  /\ \/ status = "ACTIVE" /\ decided' = [decided EXCEPT ![l] = "VERIFY"]
     \/ status # "ACTIVE" /\ required
        /\ decided' = [decided EXCEPT ![l] = "ENROLL"]
  /\ UNCHANGED <<enrolmentVars, challengeVars, required, now, disabling,
                 enrolling, historyVars>>

\* beginLogin's transaction: one challenge replaces all the earlier ones.
OpenChallenge(l) ==
  /\ decided[l] # "none" /\ decided' = [decided EXCEPT ![l] = "none"]
  /\ opened < MaxChallenges /\ opened' = opened + 1
  /\ mode' = [mode EXCEPT ![opened + 1] = decided[l]]
  /\ life' = [c \in Challenges |-> IF c = opened + 1 THEN "open" ELSE "consumed"]
  /\ UNCHANGED <<enrolmentVars, attempts, passed, required, now, disabling,
                 enrolling, historyVars>>

\* verifyLoginChallenge's refusals, each an early return.
Answerable(c) ==
  /\ mode[c] = "VERIFY" /\ life[c] = "open"
  /\ status = "ACTIVE"
  /\ attempts[c] < MaxAttempts

\* Mutant: the counter that matched is not written back.
AcceptTotpForgets ==
  \E k \in Acceptable(lastCounter) :
    /\ used' = used \cup {<<secret, k>>}
    /\ reused' = (reused \/ <<secret, k>> \in used)
    /\ UNCHANGED <<status, secret, lastCounter, recovery, sets, confirmed, spent,
                   barred>>

AcceptTotp ==
  \E k \in Acceptable(lastCounter) :
    /\ lastCounter' = k
    /\ used' = used \cup {<<secret, k>>}
    /\ reused' = (reused \/ <<secret, k>> \in used)
    /\ UNCHANGED <<status, secret, recovery, sets, confirmed, spent, barred>>

AcceptRecoveryCode ==
  \E r \in recovery :
    /\ recovery' = recovery \ {r}
    /\ spent' = spent \cup {r}
    /\ reused' = (reused \/ r \in spent)
    /\ UNCHANGED <<status, secret, lastCounter, sets, used, confirmed, barred>>

PassChallenge(c) ==
  /\ Answerable(c)
  /\ AcceptTotp \/ AcceptRecoveryCode
  /\ life' = [life EXCEPT ![c] = "consumed"]
  /\ passed' = passed \cup {c}
  /\ UNCHANGED <<opened, mode, attempts, requestVars>>

FailChallenge(c) ==
  /\ Answerable(c)
  /\ attempts' = [attempts EXCEPT ![c] = @ + 1]
  /\ UNCHANGED <<enrolmentVars, opened, mode, life, passed, requestVars,
                 historyVars>>

\* verifyStepUp of a live session; a wrong code changes nothing.
StepUp ==
  /\ status = "ACTIVE"
  /\ AcceptTotp \/ AcceptRecoveryCode
  /\ UNCHANGED <<challengeVars, requestVars>>

-----------------------------------------------------------------------------
(***************************************************************************)
(* The environment: time and the tenant's administrator                    *)
(***************************************************************************)
Tick ==
  /\ now < MaxTime /\ now' = now + 1
  /\ UNCHANGED <<enrolmentVars, challengeVars, required, decided, disabling,
                 enrolling, historyVars>>

ExpireChallenge(c) ==
  /\ life[c] = "open" /\ life' = [life EXCEPT ![c] = "expired"]
  /\ UNCHANGED <<enrolmentVars, opened, mode, attempts, passed, requestVars,
                 historyVars>>

SetRequirement ==
  /\ required' = ~required
  /\ UNCHANGED <<enrolmentVars, challengeVars, now, decided, disabling,
                 enrolling, historyVars>>

Next ==
  \/ StartEnrollment \/ ConfirmEnrollment \/ RegenerateRecoveryCodes
  \/ CheckDisable \/ Disable
  \/ \E l \in Logins : Decide(l) \/ OpenChallenge(l)
  \/ \E c \in Exists : \/ ConfirmForSignIn(c) \/ ConsumeEnrollment(c)
                       \/ PassChallenge(c) \/ FailChallenge(c)
                       \/ ExpireChallenge(c)
  \/ StepUp \/ Tick \/ SetRequirement

Spec == Init /\ [][Next]_vars

-----------------------------------------------------------------------------
\* "TOTP replay is prevented", recovery codes are "single-use" (ADR-0010:37-38):
\* no code accepted at a sign-in or step-up is accepted at another, however
\* challenges, step-ups and re-enrolments interleave.
NothingReused == ~reused

\* A recovery code of a superseded set never works again: what can be spent
\* belongs to the newest set and was not spent.
RecoveryCodesFresh ==
  /\ recovery \cap spent = {}
  /\ status # "ACTIVE" => recovery = {}

\* Disabling MFA ends the sign-ins it finds in progress: none of them becomes
\* an MFA session afterwards, not even through an enrolment already confirmed.
DisableEndsSignIns == [][(passed' \ passed) \cap barred = {}]_vars

\* "replay protection for already-used TOTP time windows" (README.md:132): a
\* time window that confirmed the enrolment is used.
ConfirmedNotReplayed == <<secret, confirmed>> \notin used
=============================================================================
