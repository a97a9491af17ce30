\* Two processes run `db:migrate`, one of them also `db:retry-failed`; crashes,
\* failing SQL and edited files.
SPECIFICATION FairSpec
CONSTANTS
  N = 2
  Runners = {r1, r2}
  Retriers = {r1}
  Contents = {a, b}
  MaxEdits = 2
INVARIANTS ExclusiveApplier AppliedIsWhatRan OrderedApplication
PROPERTIES AppliedIsFinal RunsEnd
CHECK_DEADLOCK FALSE
