CONSTANTS
  r1 = r1
  r2 = r2
  Nobody = Nobody
  Requests <- TwoSends
  MaxCopies = 1
SPECIFICATION Spec
INVARIANT CookiesSound
PROPERTIES ImplementsRequestReply NothingHangs
CHECK_DEADLOCK FALSE
