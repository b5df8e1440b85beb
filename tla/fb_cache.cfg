SPECIFICATION Spec
CONSTANTS
  FB = {f1, f2, f3}
  Buf = {b1, b2}
  Owner = {o1}
  external = external
  Display = {d1, d2}
  Type = {d1, d2}
  TypeOf <- Distinct
  NoDisplay = NoDisplay
  MaxCached = 1
  MaxSame = 1
  MaxPlanes = 1
SYMMETRY Symmetry
INVARIANTS TypeOK OnScreenKept Listed OrphansMarked StopIsSeen
PROPERTY ContractKept
CHECK_DEADLOCK FALSE
