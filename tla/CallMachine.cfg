CONSTANTS
  u1 = u1
  u2 = u2
  Uuids <- TwoCalls
  Retain = 2
  Horizon = 3
SPECIFICATION Spec
INVARIANT TableSound
PROPERTIES KeptForRetention FollowsLifecycle
