\* Two workers, both purposes: claims that expire, overlap and are abandoned.
SPECIFICATION Spec
CONSTANTS
  Users = {u}
  Tenants = {t}
  Purposes = {"PASSWORD_RESET", "EMAIL_VERIFICATION"}
  Workers = {w1, w2}
  Batch = 2
  MaxAttempts = 2
  SlowWorkers = TRUE
  MaxIds = 2
  MaxCrashes = 1
INVARIANTS ClaimsDisjoint SendableHasLink
PROPERTIES SettledIsFinal
CHECK_DEADLOCK FALSE
