CONSTANTS
  o1 = o1
  o2 = o2
  o3 = o3
  a = a
  None = None
  Ops <- ThreeOps
  Calls <- OneCall
SPECIFICATION MediaSpec
INVARIANTS SessionsAgree CloseDeletesAll
CHECK_DEADLOCK FALSE
