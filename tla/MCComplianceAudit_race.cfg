SPECIFICATION Spec
CONSTANTS
  Audits = {a1, a2}
  Owners = {o1, o2}
  NoOwner = NoOwner
  Requirement = {q1}
  MaxRequirements = 1
  MaxStops = 0
  MaxDbFaults = 0
SYMMETRY Symmetry
INVARIANT OneActivePerOwner
CHECK_DEADLOCK FALSE
