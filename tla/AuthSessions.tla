---------------------------- MODULE AuthSessions ----------------------------
(***************************************************************************)
(* The application sessions of one user in one tenant                      *)
(* (packages/persistence/src/auth-repository.ts), the tenant's             *)
(* authentication policy (tenant-authentication-policy-repository.ts) and  *)
(* its OIDC provider's status (oidc-service.ts, setProviderStatus).        *)
(*                                                                         *)
(* A sign-in proves an identity, reads the policy through the pool, and    *)
(* then creates the session in a transaction that locks the user's         *)
(* sessions but not the policy.  A request resolves its session with a     *)
(* SELECT and, in a second statement, moves last_seen_at to now.           *)
(*                                                                         *)
(* last_seen_at is kept as an order (recency) and an age in idle periods;  *)
(* expires_at is an event.                                                 *)
(***************************************************************************)
EXTENDS Naturals, FiniteSets, Sequences

CONSTANTS
  Policies,       \* the policies administrators choose from
  Kinds,          \* how sign-ins are made: [method, strength]
  Factors,        \* the methods of step-up
  Logins,         \* sign-ins that may be under way at once
  MaxSessions,    \* bound: sessions ever created
  MaxUpdates      \* bound: changes of policy or provider

Methods == {"PASSWORD", "PASSWORD_TOTP", "PASSKEY", "OIDC", "OIDC_TOTP"}
Strengths == {"PASSWORD", "MFA"}

ASSUME SessionsAssumption ==
  /\ Policies # {}
  /\ Policies \subseteq [mfa : BOOLEAN, passkey : BOOLEAN,
                         idle : 1..2, cap : Nat \ {0}]
  /\ Kinds \subseteq [method : Methods, strength : Strengths]
  /\ Factors \subseteq {"PASSWORD_TOTP", "PASSKEY"}
  /\ MaxSessions \in Nat /\ MaxUpdates \in Nat

VARIABLES
  policy,      \* tenant_authentication_policies
  provider,    \* the OIDC provider is ACTIVE
  recency,     \* the sessions, least recently seen first
  life,        \* revoked_at and expires_at
  age,         \* idle periods since last_seen_at, at most 2
  kind,        \* authentication_method and authentication_strength
  bound,       \* sessions with an authentication_provider_id
  resolved,    \* sessions some request has found valid
  touching,    \* found valid, last_seen_at not yet written
  outside,     \* history: sessions that came in outside of the policy in force:
               \* created under an earlier one, or touched when idle for too long
  stage, how, asOf,  \* of a sign-in: progress, kind, policy it has read
  updates

sessionVars == <<recency, life, age, kind, bound>>
loginVars   == <<stage, how, asOf>>
vars == <<policy, provider, sessionVars, resolved, touching, outside, loginVars, updates>>

Sessions == 1..MaxSessions
Created  == 1..Len(recency)
Position(s) == CHOOSE i \in Created : recency[i] = s
Unread == CHOOSE p \in Policies : TRUE
Unproven == CHOOSE k \in Kinds : TRUE
Federated(method) == method \in {"OIDC", "OIDC_TOTP"}

TypeOK ==
  /\ policy \in Policies /\ provider \in BOOLEAN
  /\ Len(recency) <= MaxSessions /\ {recency[i] : i \in Created} = Created
  /\ life \in [Sessions -> {"none", "active", "expired", "revoked", "deleted"}]
  /\ \A s \in Sessions : life[s] = "none" <=> s \notin Created
  /\ age \in [Sessions -> 0..2]
  /\ \A s, t \in Created : age[recency[s]] < age[recency[t]] => t < s
  /\ kind \in [Sessions -> [method : Methods, strength : Strengths]]
  /\ bound \subseteq Created
  /\ \A s \in Created : Federated(kind[s].method) => s \in bound
  /\ resolved \subseteq Created /\ touching \subseteq resolved
  /\ outside \subseteq Created
  /\ stage \in [Logins -> {"start", "proven", "ready"}]
  /\ how \in [Logins -> Kinds] /\ asOf \in [Logins -> Policies]
  /\ updates \in 0..MaxUpdates

Init ==
  /\ policy \in Policies /\ provider = TRUE
  /\ recency = <<>>
  /\ life = [s \in Sessions |-> "none"]
  /\ age = [s \in Sessions |-> 0]
  /\ kind = [s \in Sessions |-> [method |-> "PASSWORD", strength |-> "PASSWORD"]]
  /\ bound = {} /\ resolved = {} /\ touching = {} /\ outside = {}
  /\ stage = [l \in Logins |-> "start"]
  /\ how = [l \in Logins |-> Unproven]
  /\ asOf = [l \in Logins |-> Unread]
  /\ updates = 0

-----------------------------------------------------------------------------
(***************************************************************************)
(* Sign-in                                                                 *)
(***************************************************************************)
\* authenticate, a passkey assertion or an OIDC callback, each with its own
\* look at the policy or the provider.
Authenticate(l, k) ==
  /\ stage[l] = "start"
  /\ k.method = "PASSKEY" => policy.passkey
  /\ Federated(k.method) => provider
  /\ stage' = [stage EXCEPT ![l] = "proven"]
  /\ how' = [how EXCEPT ![l] = k]
  /\ UNCHANGED <<policy, provider, sessionVars, resolved, touching, outside, asOf, updates>>

\* createSession, up to its transaction.
ReadPolicy(l) ==
  /\ stage[l] = "proven"
  /\ IF policy.mfa /\ how[l].strength # "MFA"
     THEN /\ stage' = [stage EXCEPT ![l] = "start"]
          /\ how' = [how EXCEPT ![l] = Unproven]
          /\ UNCHANGED asOf
     ELSE /\ stage' = [stage EXCEPT ![l] = "ready"]
          /\ asOf' = [asOf EXCEPT ![l] = policy]
          /\ UNCHANGED how
  /\ UNCHANGED <<policy, provider, sessionVars, resolved, touching, outside, updates>>

\* How many of them are not seen less recently than s, which is one.
Rank(s, among) == Cardinality({t \in among : Position(s) <= Position(t)})
Live(p) == {s \in Created : life[s] = "active" /\ age[s] < p.idle}

\* Mutant: one session too many is kept.
EvictedOneFewer(p) == {s \in Live(p) : Rank(s, Live(p)) > p.cap}

\* The sessions createSession revokes to make room, under policy p.
Evicted(p) == {s \in Live(p) : Rank(s, Live(p)) >= p.cap}

\* The transaction of createSession.
Create(l, s) ==
  /\ stage[l] = "ready" /\ s = Len(recency) + 1 /\ s \in Sessions
  /\ life' = [t \in Sessions |-> IF t = s THEN "active"
                                 ELSE IF t \in Evicted(asOf[l]) THEN "revoked"
                                 ELSE life[t]]
  /\ recency' = Append(recency, s)
  /\ age' = [age EXCEPT ![s] = 0]
  /\ kind' = [kind EXCEPT ![s] = how[l]]
  /\ bound' = IF Federated(how[l].method) THEN bound \cup {s} ELSE bound
  /\ stage' = [stage EXCEPT ![l] = "start"]
  /\ asOf' = [asOf EXCEPT ![l] = Unread]
  /\ how' = [how EXCEPT ![l] = Unproven]
  /\ outside' = IF asOf[l] = policy THEN {} ELSE outside \cup {s}
  /\ UNCHANGED <<policy, provider, resolved, touching, updates>>

-----------------------------------------------------------------------------
(***************************************************************************)
(* Requests                                                                *)
(***************************************************************************)
\* Mutant: last_seen_at is not looked at.
ResolvableIdle(s) ==
  /\ life[s] = "active"
  /\ policy.mfa => kind[s].strength = "MFA"
  /\ Federated(kind[s].method) => provider

\* The WHERE clause of resolveSession.
Resolvable(s) ==
  /\ life[s] = "active" /\ age[s] < policy.idle
  /\ policy.mfa => kind[s].strength = "MFA"
  /\ Federated(kind[s].method) => provider

Resolve(s) ==
  /\ s \in Created \ touching /\ Resolvable(s)
  /\ resolved' = resolved \cup {s} /\ touching' = touching \cup {s}
  /\ UNCHANGED <<policy, provider, sessionVars, outside, loginVars, updates>>

\* The UPDATE that follows: by token_hash alone.
Touch(s) ==
  /\ s \in touching /\ touching' = touching \ {s}
  /\ outside' = IF age[s] < policy.idle THEN outside ELSE outside \cup {s}
  /\ age' = [age EXCEPT ![s] = 0]
  /\ recency' = [i \in Created |-> IF i = Len(recency) THEN s
                                   ELSE IF i < Position(s) THEN recency[i] ELSE recency[i + 1]]
  /\ UNCHANGED <<policy, provider, life, kind, bound, resolved, loginVars, updates>>

\* markSessionMfaVerified, at the end of a request that was let in; the
\* provider stays bound to the session, its method does not.
StepUp(s, method) ==
  /\ s \in resolved /\ life[s] = "active"
  /\ kind' = [kind EXCEPT ![s] = [method |-> method, strength |-> "MFA"]]
  /\ UNCHANGED <<policy, provider, recency, life, age, bound, resolved, touching, outside, loginVars, updates>>

Revoke(S) ==
  /\ life' = [s \in Sessions |-> IF s \in S THEN "revoked" ELSE life[s]]
  /\ UNCHANGED <<policy, provider, recency, age, kind, bound, resolved, touching, outside, loginVars, updates>>

Unrevoked == {s \in Created : life[s] \in {"active", "expired"}}

\* revokeSession and revokeSessionById.
SignOut(s) == s \in Unrevoked /\ Revoke({s})

\* revokeOtherSessions, from session s.
SignOutOthers(s) ==
  s \in resolved /\ Revoke({t \in Created \ {s} : life[t] = "active"})

\* The revocation that ends resetPassword.
ResetPassword == Revoke(Unrevoked)

-----------------------------------------------------------------------------
(***************************************************************************)
(* Administration                                                          *)
(***************************************************************************)
Complying(p) ==
  {s \in Live(p) : /\ p.mfa => kind[s].strength = "MFA"
                   /\ p.passkey \/ kind[s].method # "PASSKEY"}

\* Of the sessions that comply with p, the most recently seen.
Retained(p) == {s \in Complying(p) : Rank(s, Complying(p)) <= p.cap}

UpdatePolicy(p) ==
  /\ updates < MaxUpdates /\ updates' = updates + 1
  /\ p # policy /\ policy' = p
  /\ outside' = {}
  /\ life' = [s \in Sessions |->
                IF s \in Unrevoked \ Retained(p) THEN "revoked" ELSE life[s]]
  /\ UNCHANGED <<provider, recency, age, kind, bound, resolved, touching, loginVars>>

\* Mutant: the sessions are found by their method.
SetProviderByMethod(active) ==
  /\ updates < MaxUpdates /\ updates' = updates + 1
  /\ provider # active /\ provider' = active
  /\ life' = [s \in Sessions |->
                IF ~active /\ s \in Unrevoked /\ Federated(kind[s].method)
                THEN "revoked" ELSE life[s]]
  /\ UNCHANGED <<policy, recency, age, kind, bound, resolved, touching, outside, loginVars>>

\* setProviderStatus.
SetProvider(active) ==
  /\ updates < MaxUpdates /\ updates' = updates + 1
  /\ provider # active /\ provider' = active
  /\ life' = [s \in Sessions |->
                IF ~active /\ s \in Unrevoked \cap bound THEN "revoked" ELSE life[s]]
  /\ UNCHANGED <<policy, recency, age, kind, bound, resolved, touching, outside, loginVars>>

\* deleteExpiredSessions; old revocations may have become 7 days old or not.
Purge ==
  /\ \E old \in {{}, {s \in Created : life[s] = "revoked"}} :
       life' = [s \in Sessions |->
                  IF s \in old \/ life[s] = "expired" THEN "deleted" ELSE life[s]]
  /\ UNCHANGED <<policy, provider, recency, age, kind, bound, resolved, touching, outside, loginVars, updates>>

-----------------------------------------------------------------------------
(***************************************************************************)
(* Time                                                                    *)
(***************************************************************************)
IdlePeriod ==
  /\ age' = [s \in Sessions |-> IF s \in Created /\ age[s] < 2
                                THEN age[s] + 1 ELSE age[s]]
  /\ UNCHANGED <<policy, provider, recency, life, kind, bound, resolved, touching, outside, loginVars, updates>>

Expire(s) ==
  /\ s \in Created /\ life[s] = "active"
  /\ life' = [life EXCEPT ![s] = "expired"]
  /\ UNCHANGED <<policy, provider, recency, age, kind, bound, resolved, touching, outside, loginVars, updates>>

Next ==
  \/ \E l \in Logins, k \in Kinds : Authenticate(l, k)
  \/ \E l \in Logins : ReadPolicy(l)
  \/ \E l \in Logins, s \in Sessions : Create(l, s)
  \/ \E s \in Sessions : Resolve(s) \/ Touch(s) \/ SignOut(s) \/ SignOutOthers(s)
  \/ \E s \in Sessions, method \in Factors : StepUp(s, method)
  \/ ResetPassword
  \/ \E p \in Policies : UpdatePolicy(p)
  \/ \E active \in BOOLEAN : SetProvider(active)
  \/ Purge
  \/ IdlePeriod
  \/ \E s \in Sessions : Expire(s)

Spec == Init /\ [][Next]_vars

-----------------------------------------------------------------------------
(***************************************************************************)
(* Properties                                                              *)
(***************************************************************************)
\* ADR-0010:41: the policy governs concurrent-session limits.  No more sessions
\* can be used than the policy in force allows, whatever the sign-ins, step-ups,
\* time and changes of policy, but for those outside of it (createSession 467-494,
\* policy update 226-288).
CapRespected ==
  Cardinality({s \in Created : Resolvable(s)} \ outside) <= policy.cap

\* A session that was revoked, expired or deleted is never usable again, and one
\* idle for too long not while the policy stays as it is, unless a request had
\* found it valid before: the touch of a request and a step-up, both by token
\* alone, do not bring it back.
Idle(s) == age[s] >= policy.idle /\ s \notin touching
EndedIsFinal ==
  [][\A s \in Created : /\ life[s] # "active" => life'[s] # "active"
                        /\ policy' = policy /\ Idle(s) => Idle(s)']_vars

\* setProviderStatus: no session that a disabled provider signed in is usable,
\* also not one stepped up with a factor of the tenant's own since, and not one
\* created by a callback that was under way.
DisabledProviderAdmitsNobody ==
  ~provider => \A s \in bound : ~Resolvable(s)
=============================================================================
