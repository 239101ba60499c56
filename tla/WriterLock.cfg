SPECIFICATION LockFairSpec
CONSTANTS
  bridge = bridge
  child = child
  m1 = m1
  scan = scan
  portal = portal
  Threads = {m1, scan}
  Tasks = {bridge}
  Children = {child}
  Portal = portal
  HomeOf <- Homes
  Fds = {f1, f2, f3, f4}
  None = None
INVARIANTS
  KeptBySomebody
PROPERTIES
  IsMutex
  LateLocksReturned
