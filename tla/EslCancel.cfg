CONSTANTS
  c1 = c1
  c2 = c2
  c3 = c3
  Event = Event
  Exit = Exit
  Notice = Notice
  Commands <- ThreeCommands
  Patient <- OnePatient
  ChanCap = 2
  MaxEvents = 1
SPECIFICATION Spec
INVARIANT CancelledIsOver
CHECK_DEADLOCK FALSE
