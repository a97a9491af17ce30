------------------------------ MODULE Passkeys ------------------------------
(***************************************************************************)
(* Passkeys of one user in one tenant: registration and authentication     *)
(* ceremonies (packages/persistence/src/passkey-service.ts).               *)
(*                                                                         *)
(* A ceremony is two requests.  The first issues a challenge.  The second  *)
(* reads challenge, policy and passkey through the pool and verifies the   *)
(* authenticator's response against them; only then a transaction locks    *)
(* the challenge, looks at it again and records the success.  What fails   *)
(* after the challenge was read is counted by another transaction.         *)
(***************************************************************************)
EXTENDS Naturals, FiniteSets

CONSTANTS
  Passkeys,     \* credentials of the user's authenticators
  Requests,     \* requests that may be under way at once
  MaxAttempts,  \* MAX_ATTEMPTS, 5 in the code
  MaxIds,       \* bound: challenges ever issued
  MaxCounter,   \* bound: signature counters
  MaxSwitches   \* bound: times the policy switches passkeys off or on

PasskeysAssumption ==
  /\ Passkeys # {}
  /\ MaxAttempts \in Nat \ {0, 1} /\ MaxIds \in Nat \ {0} /\ MaxCounter \in Nat
  /\ MaxSwitches \in Nat

VARIABLES
  enabled,    \* passkey_enabled of the tenant's policy
  issued,     \* challenges 1..issued exist
  ceremony,   \* of each challenge
  life,       \* consumed_at and expires_at of each challenge
  attempts,   \* attempt_count of each challenge
  status,     \* of each passkey
  counter,    \* signature_counter of each passkey
  device,     \* signatures each authenticator has made
  stage, ch, pk, sent,  \* of a request: progress, challenge, passkey, counter
  successes,  \* history: successes with each challenge
  wrong,      \* history: failures counted against each challenge before it succeeded
  switches

challengeVars == <<issued, ceremony, life, attempts>>
passkeyVars   == <<status, counter>>
requestVars   == <<stage, ch, pk, sent>>
historyVars   == <<successes, wrong>>
vars == <<enabled, challengeVars, passkeyVars, device, requestVars, historyVars, switches>>

Ids == 1..MaxIds
Ceremonies == {"REGISTER", "AUTHENTICATE"}
Stages == {"idle", "read", "verified", "failed"} \cup Ceremonies

TypeOK ==
  /\ enabled \in BOOLEAN /\ issued \in 0..MaxIds
  /\ ceremony \in [Ids -> Ceremonies]
  /\ life \in [Ids -> {"none", "active", "consumed", "expired"}]
  /\ \A c \in Ids : life[c] = "none" <=> c > issued
  /\ attempts \in [Ids -> 0..MaxAttempts - 1]  \* see RecordFailure
  /\ status \in [Passkeys -> {"none", "ACTIVE", "REVOKED"}]
  /\ counter \in [Passkeys -> 0..MaxCounter]
  /\ device \in [Passkeys -> 0..MaxCounter]
  /\ stage \in [Requests -> Stages]
  /\ ch \in [Requests -> Ids] /\ pk \in [Requests -> Passkeys]
  /\ sent \in [Requests -> 0..MaxCounter]
  /\ \A r \in Requests : stage[r] \in {"read", "verified", "failed"} => ch[r] <= issued
  /\ successes \in [Ids -> Nat] /\ wrong \in [Ids -> Nat]
  /\ switches \in 0..MaxSwitches

Init ==
  /\ enabled = TRUE /\ issued = 0
  /\ ceremony = [c \in Ids |-> "REGISTER"]
  /\ life = [c \in Ids |-> "none"]
  /\ attempts = [c \in Ids |-> 0]
  /\ status = [p \in Passkeys |-> "none"]
  /\ counter = [p \in Passkeys |-> 0]
  /\ device = [p \in Passkeys |-> 0]
  /\ stage = [r \in Requests |-> "idle"]
  /\ ch = [r \in Requests |-> 1]
  /\ pk = [r \in Requests |-> CHOOSE p \in Passkeys : TRUE]
  /\ sent = [r \in Requests |-> 0]
  /\ successes = [c \in Ids |-> 0] /\ wrong = [c \in Ids |-> 0]
  /\ switches = 0

\* A request ends: what it knew is of no consequence any more.
Answer(r) ==
  /\ stage' = [stage EXCEPT ![r] = "idle"]
  /\ ch' = [ch EXCEPT ![r] = 1]
  /\ pk' = [pk EXCEPT ![r] = CHOOSE p \in Passkeys : TRUE]
  /\ sent' = [sent EXCEPT ![r] = 0]

Goto(r, s) == stage' = [stage EXCEPT ![r] = s]

-----------------------------------------------------------------------------
(***************************************************************************)
(* beginRegistration and beginAuthentication                               *)
(***************************************************************************)
\* The reads: the policy and, to authenticate, a passkey to do it with.
AskBegin(r, kind) ==
  /\ stage[r] = "idle" /\ enabled
  /\ kind = "AUTHENTICATE" => \E p \in Passkeys : status[p] = "ACTIVE"
  /\ Goto(r, kind)
  /\ UNCHANGED <<enabled, challengeVars, passkeyVars, device, ch, pk, sent, historyVars, switches>>

\* Mutant: the challenges issued before are left open.
BeginBeside(r, kind) ==
  /\ stage[r] = kind /\ issued < MaxIds
  /\ issued' = issued + 1
  /\ ceremony' = [ceremony EXCEPT ![issued + 1] = kind]
  /\ life' = [life EXCEPT ![issued + 1] = "active"]
  /\ Answer(r)
  /\ UNCHANGED <<enabled, attempts, passkeyVars, device, historyVars, switches>>

\* The transaction; it looks at neither the policy nor the passkeys again.
Begin(r, kind) ==
  /\ stage[r] = kind /\ issued < MaxIds
  /\ issued' = issued + 1
  /\ ceremony' = [ceremony EXCEPT ![issued + 1] = kind]
  /\ life' = [c \in Ids |->
                IF c = issued + 1 THEN "active"
                ELSE IF ceremony[c] = kind /\ life[c] \in {"active", "expired"}
                THEN "consumed" ELSE life[c]]
  /\ Answer(r)
  /\ UNCHANGED <<enabled, attempts, passkeyVars, device, historyVars, switches>>

-----------------------------------------------------------------------------
(***************************************************************************)
(* completeRegistration and completeAuthentication                         *)
(***************************************************************************)
\* Mutant: consumed_at is not looked at when the challenge is locked.
UsableConsumed(c) ==
  life[c] \in {"active", "consumed"} /\ attempts[c] < MaxAttempts

\* challenge and, with the row locked, lockUsableChallenge.
Usable(c) == life[c] = "active" /\ attempts[c] < MaxAttempts

\* The next value of an authenticator's counter, or 0 if it keeps none.
Signatures(p) ==
  {device[p] + 1} \cup (IF device[p] = 0 THEN {0} ELSE {})

\* challenge: what fails here is not counted.
Read(r, c, p) ==
  /\ stage[r] = "idle" /\ c <= issued
  /\ Usable(c) /\ enabled
  /\ Goto(r, "read")
  /\ ch' = [ch EXCEPT ![r] = c] /\ pk' = [pk EXCEPT ![r] = p]
  /\ \E n \in Signatures(p) \cap 0..MaxCounter :
       device' = [device EXCEPT ![p] = n] /\ sent' = [sent EXCEPT ![r] = n]
  /\ UNCHANGED <<enabled, challengeVars, passkeyVars, historyVars, switches>>

\* passkeyForChallenge and the check of the counter.
Fits(p, n) == status[p] = "ACTIVE" /\ (counter[p] > 0 => n > counter[p])

Verify(r) ==
  /\ stage[r] = "read"
  /\ Goto(r, IF ceremony[ch[r]] = "REGISTER" \/ Fits(pk[r], sent[r])
             THEN "verified" ELSE "failed")
  /\ UNCHANGED <<enabled, challengeVars, passkeyVars, device, ch, pk, sent, historyVars, switches>>

\* A response that is not right: wrong challenge, origin, key or signature.
VerifyWrong(r) ==
  /\ stage[r] = "read"
  /\ Goto(r, "failed")
  /\ UNCHANGED <<enabled, challengeVars, passkeyVars, device, ch, pk, sent, historyVars, switches>>

Succeed(r) ==
  /\ life' = [life EXCEPT ![ch[r]] = "consumed"]
  /\ successes' = [successes EXCEPT ![ch[r]] = @ + 1]
  /\ Answer(r)

\* The transaction of completeRegistration.
CommitRegistration(r) ==
  LET p == pk[r]
  IN
  /\ stage[r] = "verified" /\ ceremony[ch[r]] = "REGISTER"
  /\ IF Usable(ch[r]) /\ status[p] = "none"
     THEN /\ status' = [status EXCEPT ![p] = "ACTIVE"]
          /\ counter' = [counter EXCEPT ![p] = sent[r]]
          /\ Succeed(r)
     ELSE Goto(r, "failed") /\ UNCHANGED <<passkeyVars, life, successes, ch, pk, sent>>
  /\ UNCHANGED <<enabled, issued, ceremony, attempts, device, wrong, switches>>

\* The transaction of completeAuthentication.  Its UPDATE finds no row when
\* the passkey has been revoked meanwhile; nothing looks at that.
CommitAuthentication(r) ==
  LET p == pk[r]
  IN
  /\ stage[r] = "verified" /\ ceremony[ch[r]] = "AUTHENTICATE"
  /\ IF Usable(ch[r])
     THEN /\ counter' = IF status[p] = "ACTIVE"
                        THEN [counter EXCEPT ![p] = sent[r]] ELSE counter
          /\ Succeed(r)
     ELSE Goto(r, "failed") /\ UNCHANGED <<counter, life, successes, ch, pk, sent>>
  /\ UNCHANGED <<enabled, issued, ceremony, attempts, status, device, wrong, switches>>

\* Mutant: as if the CASE saw attempt_count before the increment.
RecordFailureSimultaneous(r) ==
  LET c == ch[r]
      open == life[c] \in {"active", "expired"}
  IN
  /\ stage[r] = "failed"
  /\ attempts' = [attempts EXCEPT ![c] =
                    IF open /\ @ < MaxAttempts THEN @ + 1 ELSE @]
  /\ life' = IF open /\ attempts[c] + 1 >= MaxAttempts
             THEN [life EXCEPT ![c] = "consumed"] ELSE life
  /\ wrong' = [wrong EXCEPT ![c] = IF successes[c] = 0 THEN @ + 1 ELSE @]
  /\ Answer(r)
  /\ UNCHANGED <<enabled, issued, ceremony, passkeyVars, device, successes, switches>>

\* recordFailure.  MySQL evaluates the assignments from left to right, so the
\* CASE sees the incremented attempt_count: the challenge is consumed by its
\* failure number MaxAttempts - 1, and attempt_count goes no further.
RecordFailure(r) ==
  LET c == ch[r]
      open == life[c] \in {"active", "expired"}
  IN
  /\ stage[r] = "failed"
  /\ attempts' = [attempts EXCEPT ![c] =
                    IF open /\ @ < MaxAttempts THEN @ + 1 ELSE @]
  /\ life' = IF open /\ attempts'[c] + 1 >= MaxAttempts
             THEN [life EXCEPT ![c] = "consumed"] ELSE life
  /\ wrong' = [wrong EXCEPT ![c] = IF successes[c] = 0 THEN @ + 1 ELSE @]
  /\ Answer(r)
  /\ UNCHANGED <<enabled, issued, ceremony, passkeyVars, device, successes, switches>>

-----------------------------------------------------------------------------
\* revoke.
Revoke(p) ==
  /\ status[p] = "ACTIVE"
  /\ status' = [status EXCEPT ![p] = "REVOKED"]
  /\ UNCHANGED <<enabled, challengeVars, counter, device, requestVars, historyVars, switches>>

\* The tenant's policy switches passkeys off or on.
SetEnabled ==
  /\ switches < MaxSwitches /\ switches' = switches + 1
  /\ enabled' = ~enabled
  /\ UNCHANGED <<challengeVars, passkeyVars, device, requestVars, historyVars>>

\* Five minutes pass.
Expire(c) ==
  /\ life[c] = "active"
  /\ life' = [life EXCEPT ![c] = "expired"]
  /\ UNCHANGED <<enabled, issued, ceremony, attempts, passkeyVars, device, requestVars, historyVars, switches>>

Next ==
  \/ \E r \in Requests : Verify(r) \/ VerifyWrong(r) \/ RecordFailure(r)
  \/ \E r \in Requests, kind \in Ceremonies : AskBegin(r, kind) \/ Begin(r, kind)
  \/ \E r \in Requests, c \in Ids, p \in Passkeys : Read(r, c, p)
  \/ \E r \in Requests : CommitRegistration(r) \/ CommitAuthentication(r)
  \/ \E p \in Passkeys : Revoke(p)
  \/ SetEnabled
  \/ \E c \in Ids : Expire(c)

Spec == Init /\ [][Next]_vars

-----------------------------------------------------------------------------
(***************************************************************************)
(* Properties                                                              *)
(***************************************************************************)
\* lockUsableChallenge: of the requests that read a challenge while it was
\* open, at most one succeeds with it, and none once MAX_ATTEMPTS have failed.
OneSuccessPerChallenge ==
  \A c \in Ids : successes[c] <= 1 /\ (successes[c] = 1 => wrong[c] < MaxAttempts)

\* completeAuthentication compares the signature counter with what it read
\* before its transaction and then stores the new one: no two assertions may
\* be between the two at once, or a counter would fall and a clone go unseen.
CounterNeverFalls ==
  [][\A p \in Passkeys : counter'[p] >= counter[p]]_vars
=============================================================================
