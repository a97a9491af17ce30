\* A version is held; the record as a whole is destroyed.
SPECIFICATION Spec
CONSTANTS
  Versions = {v1}
  Holds = {h1}
  Decisions = {d1, d2}
  Runs = {r1}
  Archives = {a1}
  MaxPending = 1
  HoldTypes = {"LEGAL"}
  MaxRules = 2
  MaxEvents = 4
  MaxDestroyed = 1
  Blocks = {{"ARCHIVE", "DESTROY"}}
PROPERTY HoldsEffective
CHECK_DEADLOCK FALSE
