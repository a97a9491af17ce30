\* A delivered message whose outcome is lost, or is recorded on the last try.
SPECIFICATION Spec
CONSTANTS
  Users = {u}
  Tenants = {t}
  Purposes = {"EMAIL_VERIFICATION"}
  Workers = {w}
  Batch = 1
  MaxAttempts = 2
  SlowWorkers = FALSE
  MaxIds = 2
  MaxCrashes = 1
INVARIANT DeliveredLinkPurged
CHECK_DEADLOCK FALSE
