CONSTANTS
  s1 = s1
  p1 = p1
  p2 = p2
  u1 = u1
  Requests <- ThreeRequests
  KindOf <- ThreeKinds
  Stop = Stop
  MaxSilent = 2
SPECIFICATION FairSpec
PROPERTIES EveryRequestSettles StopJoins ParkIsShown
CHECK_DEADLOCK FALSE
