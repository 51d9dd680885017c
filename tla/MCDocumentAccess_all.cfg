SPECIFICATION Spec
CONSTANTS
  Docs = {d1, d2}
  Users = {ann, adm}
  Admins = {adm}
  System = System
  Principals = {ann, adm, Everyone}
  Everyone = Everyone
  NoOwner = NoOwner
  NoDoc = NoDoc
  Nobody = Nobody
  Requests = {r1, r2, r3}
  DemoFiles = 2
  MaxFaults = 2
INVARIANTS
  GoneIsUnshared
  SharingIsAccounted
  NoWaitCycle
PROPERTIES
  AccessSpec
SYMMETRY Symmetry
CHECK_DEADLOCK FALSE
