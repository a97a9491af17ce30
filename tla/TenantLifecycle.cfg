\* One tenant through the commands of the operators.
SPECIFICATION Spec
CONSTANTS
  Tenants = {t1}
  Slugs = {s1}
  Emails = {e1}
  Registrants = {r1}
  Logins = {l1}
  MaxInterruptions = 2
PROPERTY LifecycleAsDecided
CHECK_DEADLOCK FALSE
