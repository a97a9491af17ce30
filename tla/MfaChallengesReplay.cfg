\* The code that confirmed an enrolment is presented again.
SPECIFICATION Spec
CONSTANTS
  Logins = {l}
  Codes = {a}
  Window = 1
  MaxAttempts = 2
  MaxChallenges = 2
  MaxSecrets = 1
  MaxSets = 1
  MaxTime = 2
INVARIANT ConfirmedNotReplayed
CHECK_DEADLOCK FALSE
