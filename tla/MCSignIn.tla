------------------------------ MODULE MCSignIn ------------------------------
(***************************************************************************)
(* Small instances of what stands behind a sign-in: the sessions of a user *)
(* under their tenant's policy, which this module extends, and an instance *)
(* of the multi-factor challenges of an identity.  Their actions share no  *)
(* variable, so a behaviour here is of the one that `service' names, and   *)
(* the other rests in one of its initial states.                           *)
(***************************************************************************)
EXTENDS AuthSessions

CONSTANTS Codes, Window, MaxAttempts, MaxChallenges, MaxSecrets, MaxSets, MaxTime

VARIABLES
  service,
  required, status, secret, lastCounter, recovery, sets, now, decided, disabling,
  opened, mode, challenge, attempts, enrolling, passed, used, confirmed, spent, reused, barred

Mfa == INSTANCE MfaChallenges WITH life <- challenge

ASSUME SignInAssumption == Mfa!MfaAssumption

Policy(mfa, passkey, idle, cap) ==
  [mfa |-> mfa, passkey |-> passkey, idle |-> idle, cap |-> cap]

\* Policies that differ in the methods, the idle periods and the number of
\* sessions they admit.
SomePolicies == {Policy(FALSE, TRUE, 2, 2), Policy(TRUE, FALSE, 1, 1)}

\* One of a single factor, bound to the provider, and one of two, bound to none.
SomeKinds == {[method |-> "OIDC", strength |-> "PASSWORD"],
              [method |-> "PASSKEY", strength |-> "MFA"]}

mfaVars == <<required, status, secret, lastCounter, recovery, sets, now, decided, disabling,
             opened, mode, challenge, attempts, enrolling, passed, used, confirmed, spent,
             reused, barred>>

SignInInit ==
  /\ service \in {"sessions", "mfa"} /\ Init /\ Mfa!Init
  /\ service = "mfa" => policy = Unread
  /\ service = "sessions" => ~required

SessionsStep == service = "sessions" /\ Next /\ UNCHANGED <<service, mfaVars>>
MfaStep == service = "mfa" /\ Mfa!Next /\ UNCHANGED <<service, vars>>

SignInNext == SessionsStep \/ MfaStep

SignInSpec == SignInInit /\ [][SignInNext]_<<service, vars, mfaVars>>

\* See MfaChallenges: no code is accepted twice, neither of an authenticator nor of
\* the set of recovery codes.
NothingReused == Mfa!NothingReused
RecoveryCodesFresh == Mfa!RecoveryCodesFresh

\* See MfaChallenges: disabling ends the sign-ins it finds in progress.
DisableEndsSignIns == Mfa!DisableEndsSignIns
=============================================================================
