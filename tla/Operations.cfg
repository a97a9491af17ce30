\* Two of what may compete, and as many requests as it takes to overlap.
\* `one' and `two' are the interchangeable ones of each service.
SPECIFICATION Spec
CONSTANTS
  Revisions = {r1, r2}
  Baselines = {b1}
  Iterations = {n1, n2}
  InformationCallers = {one, two}
  Items = {i1}
  Versions = {v1, v2}
  Decisions = {d1, d2}
  Parties = {p1}
  DeliverableCallers = {one, two}
  AcceptanceRequired = {i1}
  MaxIssues = 2
  Transactions = {t1, t2}
  Activities = {one, two}
  PublicationSubjects = {s1, s2}
  PublicationCallers = {u1}
  MaxAttempts = 2
  PackageItems = {x1, x2}
  Deliveries = {g1, g2}
  ExchangeCallers = {one, two}
  Assignments = {k1, k2, k3}
  ServiceCallers = {one, two}
  SiteIssues = {j1, j2}
  SiteCallers = {one, two}
  Times = {0, 1, 2}
  Tuples = {y1, y2}
  Approvals = {z1, z2, z3}
  Approvers = {one, two}
  Dates = {0, 1}
  DefinitionVersions = {v1}
  Workflows = {w1}
  WorkItems = {i1, i2}
  WorkCallers = {one, two}
  GovernanceVersions = {g1, g2}
  GovernanceCallers = {one, two}
  MaxAllocations = 3
  LastDay = 2
  Percents = {50}
  Actions = {a1, a2}
  Discrepancies = {d1}
  MaxPendingRows = 3
  MigrationRuns = {m1, m2}
  MigrationItems = {one, two}
  Conflicts = {k1}
  Reconciliations = {q1}
  MaxPendingOperations = 2
  RecordVersions = {s1}
  Holds = {one, two}
  DispositionDecisions = {one, two}
  DispositionRuns = {r1}
  Archives = {f1}
  HoldTypes = {"LEGAL", "RECORDS"}
  Blocks = {{"ARCHIVE", "DESTROY"}}
  MaxRules = 1
  MaxEvents = 4
  MaxDestroyed = 1
  MaxPendingRecords = 1
  Projects = {j1, j2}
  Capabilities = {k1}
  Persons = {h1}
  CapabilityCallers = {one, two}
  Shares = {50, 100}
  MaxRows = 3
  ContextItems = {i1}
  ContextBaselines = {b1, b2}
  EffectiveVersions = {one, two}
  CriteriaSets = {{"BASELINE", "EXPLICIT_VERSION", "EFFECTIVITY", "LATEST_ESTABLISHED_BASELINE"}}
  MandatoryKinds = {"BASELINE"}
  BaselineWriters = {w1}
  LastTime = 1
  Rules = {r1, r2, r3}
  Grave = {r1, r3}
  Binding = {r1, r2}
  RuleVersions = {1}
  Evaluations = {e1}
  Plans = {p1, p2, p3}
  Parts = {x1, x2}
  Details = {x2}
  Rulings = {d1, d2}
  Planners = {one, two}
  Prospects = {o1}
  Positions = {p1, p2}
  Sellers = {one, two}
  MaxEdits = 2
INVARIANTS ChainsEndInForce IssuedAsReleased LoopClosed
INVARIANTS AdoptionsTraceable FieldWorkStands OutcomesStand
INVARIANTS LimitsKept ClosedIsSettled ReconciledIsClean
INVARIANTS DispositionsAccounted
SYMMETRY Interchangeable
CHECK_DEADLOCK FALSE
