\* Sign-ins of every kind, requests and step-ups; limits, methods, idle periods
\* or the provider change once under any of them.  Enrolments, disabling, challenges
\* and step-ups over two TOTP periods.
SPECIFICATION SignInSpec
CONSTANTS
  Policies <- SomePolicies
  Kinds <- SomeKinds
  Factors = {"PASSWORD_TOTP"}
  Logins = {l1}
  MaxSessions = 2
  MaxUpdates = 1
  Codes = {a}
  Window = 0
  MaxAttempts = 1
  MaxChallenges = 2
  MaxSecrets = 2
  MaxSets = 2
  MaxTime = 2
INVARIANTS CapRespected DisabledProviderAdmitsNobody RecoveryCodesFresh NothingReused
PROPERTIES EndedIsFinal DisableEndsSignIns
CHECK_DEADLOCK FALSE
