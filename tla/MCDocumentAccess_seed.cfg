SPECIFICATION Spec
CONSTANTS
  Docs = {d1, d2}
  Users = {ann, adm}
  Admins = {adm}
  System = System
  Principals = {ann, Everyone}
  Everyone = Everyone
  NoOwner = NoOwner
  NoDoc = NoDoc
  Nobody = Nobody
  Requests = {r1}
  DemoFiles = 2
  MaxFaults = 1
INVARIANT DemoIsShared
CHECK_DEADLOCK FALSE
