SPECIFICATION Spec
CONSTANTS
  Budget = 5
  NoEvent = 20
  MaxUnit = 3
  VipPeriod = 3
  TimerPeriod = 4
  InputPeriod = 2
INVARIANTS
  EventsOnTime
  RebaseAsserts
  FrameBounded
PROPERTIES
  ClockMonotone
  HaltNeverOversleeps
  FrameEnds
