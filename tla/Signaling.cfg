CONSTANTS
  c1 = c1
  c2 = c2
  alice = alice
  s1 = s1
  NoOne = NoOne
  Clients <- TwoClients
  Users <- OneUser
  Sids <- OneSession
  SendCap = 1
  MaxFailures = 1
  MayClose = TRUE
SPECIFICATION Spec
INVARIANT SharedSound
PROPERTY HandlersFinish
CHECK_DEADLOCK FALSE
