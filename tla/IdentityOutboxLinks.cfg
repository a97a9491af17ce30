\* Two tenants, one worker: who may use which link, and that all are settled.
SPECIFICATION FairSpec
CONSTANTS
  Users = {u}
  Tenants = {t1, t2}
  Purposes = {"EMAIL_VERIFICATION"}
  Workers = {w}
  Batch = 2
  MaxAttempts = 2
  SlowWorkers = FALSE
  MaxIds = 2
  MaxCrashes = 1
PROPERTIES LinksSpec EventuallySettled
CHECK_DEADLOCK FALSE
