SPECIFICATION Spec
CONSTANTS
  Messages <- SmallMessages
  Others <- SmallTexts
  Width = 5
  Dates <- SmallDates
INVARIANTS
  CutIsNotAccepted
  LifetimeIsFromDate
PROPERTIES
  MessagesAreRead
  LoopEnds
  DateLoopEnds
CHECK_DEADLOCK FALSE
