SPECIFICATION Spec
CONSTANTS
  Channels = {"wave", "sweep", "noise"}
  FreqBytes = 2
  LatchFreq = 3
  WaveLen = 2
  LatchClocks = 2
  EffectClocks = 2
  Ticks = 2
  SlowSweep = 2
  EnvelopeMax = 1
  NoiseFactor = 1
  ModData <- MCModData
  Intervals = {1}
  EnvLows <- MCEnvLows
  EnvHighs <- MCEnvHighs
  SweepValues <- MCSweepValues
  FrameCycles = 2
INVARIANTS
  TypeOK
  LazyIsTickByTick
  NotesEndOnTime
