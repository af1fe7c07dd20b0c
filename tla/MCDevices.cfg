SPECIFICATION DevicesSpec
CONSTANTS
  RingLen = 4
  FrameMax = 2
  CallMax = 3
  Backlog = 3
  Labels = 5
  SlowPeriod = 3
  FastPeriod = 1
  FastFirst = 2
  ByteValues = 2
  Bits = 2
  BitPeriod = 2
  TimerUnit = 1
  PadUnit = 3
  TimerFrame = 3
  PadFrame = 4
  NoEvent = 20
INVARIANTS
  DevicesTypeOK
  LineTracksTimer
  NextBitIsScheduled
PROPERTIES
  LazyIsTickByTick
  EnabledTimerFires
  PadIsTickByTick
  ReadsEnd
  RingIsFifo
  EverySamplePlayed
