CONSTANTS
  a1 = a1
  a2 = a2
  v1 = v1
  v2 = v2
  p1 = p1
  p2 = p2
  None = None
  Admins <- TwoAdmins
  SignIns <- TwoSignIns
  Passwords <- TwoPasswords
  Ports = {1, 2}
  Addresses <- OneAddress
  FreeTries = 2
  MaxWait = 2
  GlobalPerMinute = 2
  Minute = 2
  Slots = 1
  Idle = 1
  MaxAge = 2
  MaxSessions = 1
  MaxOps = 4
  MaxTime = 2
SYMMETRY Symmetry
SPECIFICATION Spec
INVARIANTS SettingsFollowed SessionsCurrent FailuresBounded
CHECK_DEADLOCK FALSE
