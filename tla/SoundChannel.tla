---------------------------- MODULE SoundChannel ----------------------------
(***************************************************************************)
(* A note of the sound unit clocked every cycle: what the lazily updated   *)
(* channel of Vsu must be indistinguishable from.                          *)
(***************************************************************************)
EXTENDS Integers

CONSTANTS FreqBytes, WaveLen, LatchClocks, EffectClocks, Ticks, SlowSweep,
          EnvelopeMax, NoiseFactor, ModData

VARIABLES channel, Frequency, timed, EnvControl, SweepControl

Round   == EffectClocks * Ticks * Ticks
FreqTop == FreqBytes * FreqBytes

StepClocks(freq) ==
  (IF channel = "noise" THEN NoiseFactor ELSE 1) * (FreqTop - freq)

-----------------------------------------------------------------------------
(* What the present cycle of a note brings: effect ticks come every        *)
(* EffectClocks cycles of its age, and so on.                              *)
Tick(note)     == (note.age + 1) % EffectClocks = 0
TimeTick(note) == timed /\ (note.age + 1) % (EffectClocks * Ticks) = 0
FadeTick(note) == EnvControl.hi.enable /\ note.age + 1 = Round

Latches(note) == channel = "noise" /\ note.latch = 1

SweepTick(note) == channel = "sweep" /\ Tick(note) /\ note.sweepclock = 1
SweepRuns(note) == /\ SweepTick(note) /\ SweepControl.interval # 0
                   /\ EnvControl.hi.sweep
Sweeps(note)    == SweepRuns(note) /\ note.sweepcount <= 1

Modulates(note) == /\ Sweeps(note) /\ EnvControl.hi.modulate
                   /\ note.modpos < WaveLen \/ EnvControl.hi.modrepeat

NextFreq(note) ==
  LET bend == note.freq \div (2 ^ SweepControl.shift) IN
  IF Modulates(note)
  THEN (Frequency + ModData[note.modpos % WaveLen]) % FreqTop
  ELSE IF Sweeps(note) /\ ~EnvControl.hi.modulate
       THEN note.freq + (IF SweepControl.up THEN bend ELSE -bend)
       ELSE note.freq

NextLevel(note) ==
  LET next == note.level + (IF EnvControl.lo.grow THEN 1 ELSE -1) IN
  IF next \in 0 .. EnvelopeMax THEN next
  ELSE IF EnvControl.hi.repeat THEN EnvelopeMax - note.level ELSE note.level

NextPos(note) == IF note.step = 1 THEN (note.pos + 1) % WaveLen ELSE note.pos

Ends(note) == \/ TimeTick(note) /\ note.rest = 1
              \/ NextFreq(note) >= FreqTop

Clocked(note) ==
  [note EXCEPT
     !.level = IF FadeTick(note) /\ note.fade = 1 THEN NextLevel(note) ELSE @,
     !.fade  = IF ~FadeTick(note) THEN @
               ELSE IF @ = 1 THEN EnvControl.lo.reload + 1 ELSE @ - 1,
     !.freq  = NextFreq(note),
     !.step  = IF @ = 1 THEN StepClocks(note.freq) ELSE @ - 1,
     !.pos   = NextPos(note),
     !.age   = (@ + 1) % Round,
     !.rest  = IF TimeTick(note) THEN @ - 1 ELSE @,
     !.latch = IF Latches(note) THEN LatchClocks
               ELSE IF channel = "noise" THEN @ - 1 ELSE @,
     !.latched    = IF Latches(note) THEN NextPos(note) ELSE @,
     !.sweepclock = IF SweepTick(note)
                    THEN IF SweepControl.slow THEN SlowSweep ELSE 1
                    ELSE IF channel = "sweep" /\ Tick(note) THEN @ - 1 ELSE @,
     !.sweepcount = IF Sweeps(note) THEN SweepControl.interval
                    ELSE IF SweepRuns(note) THEN @ - 1 ELSE @,
     !.modpos     = IF Modulates(note) THEN (@ % WaveLen) + 1 ELSE @]

(* A note after some cycles. *)
After(note, cycles) ==
  LET at[n \in 0 .. cycles] ==
        IF n = 0 THEN note
        ELSE IF ~at[n - 1].playing THEN at[n - 1]
        ELSE IF Ends(at[n - 1]) THEN [playing |-> FALSE]
        ELSE Clocked(at[n - 1])
  IN  at[cycles]
=============================================================================
