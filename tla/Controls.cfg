\* Each service on an instance of its own; Passkeys with MAX_ATTEMPTS at 2.
SPECIFICATION ControlsSpec
CONSTANTS
  Callers = {p1, p2, p3}
  Commands = {c1, c2}
  MaxClaims = 7
  Projectors = {j1, j2}
  MaxEvent = 2
  MaxTime = 2
  ThrottledSubjects = {s1, s2}
  Networks = {n}
  SubjectNetworkLimit = 2
  NetworkLimit = 3
  Window = 2
  Block = 2
  LimiterTime = 6
  Credentials = {k1}
  Requests = {r1, r2}
  MaxAttempts = 2
  MaxIds = 3
  MaxCounter = 2
  MaxSwitches = 1
  Challenges = {h1, h2}
  Logins = {l1, l2}
  FederatedSubjects = {f1, f2}
  Users = {u1, u2}
  MaxChanges = 2
  Baselines = {b1, b2, b3}
  Items = {i1}
  Runs = {q1}
  MaxCommands = 1
  PromotionTime = 1
  Versions = {v1, v2}
  Submitted = 2
  MaxLines = 3
  MaxPending = 2
  Tenants = {t1, t2}
  Slugs = {a1, a2}
  Emails = {m1}
  Registrants = {g1, g2}
  TenantLogins = {o1}
  MaxInterruptions = 2
  Objects = {x1, x2}
  Decisions = {d1, d2}
  SubjectVersions = {y1, y2}
  Transitions <- SomeTransitions
  Start = "DRAFT"
  MaxSequence = 4
  Persons = {w1}
  Positions = {z1, z2}
  Functions = {e1}
  Clerks = {p1, p2}
  Kinds = {"LINE_MANAGER", "FUNCTIONAL_MANAGER"}
  Periods <- SomePeriods
  Open = 2
  MaxRows = 3
  People = {w1, w2}
  Administrator = w1
  Seats = {z1}
  Unit = z3
  Areas = {z4}
  Asked = {r1, r2}
  Askers = {p1, p2}
  LastDay = 1
  Grants <- SomeGrants
  Classified = {y1}
  Evaluators = {j1}
  Things = {x1}
  Slots = {0, 1}
  Linked = {x1, x2, z4}
  MaxRelated = 2
INVARIANTS TypesOK RunsOnce AnswersOwnCommand NeverBackwards Throttled
INVARIANTS SignInsHonest PromotedUndisturbed FiguresStand ServiceSound HistoryJustified
PROPERTY CounterNeverFalls
CHECK_DEADLOCK FALSE
