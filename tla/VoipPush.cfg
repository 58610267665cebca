CONSTANTS
  alice = alice
  bob = bob
  t1 = t1
  t2 = t2
  p1 = p1
  None = None
  NoToken = NoToken
  Users <- TwoUsers
  Tokens <- TwoTokens
  Pushes <- OnePush
  RetryCount = 1
  MaxRegs = 2
  MaxUpdates = 1
SPECIFICATION Spec
INVARIANTS TokensExact PushesSound
PROPERTY PushesEnd
CHECK_DEADLOCK FALSE
