-------------------------------- MODULE Vsu --------------------------------
(***************************************************************************)
(* One channel of the sound unit, mednafen/vb/vsu.c: the frequency counter *)
(* that plays a wave or shifts the noise register, and the effects, which  *)
(* are the interval timer, the envelope, and on the fifth channel sweep    *)
(* and modulation.  The channels share nothing but the stop register.      *)
(*                                                                         *)
(* Nothing schedules the sound unit: VSU_Update runs when the program      *)
(* writes a register and at the end of a frame, and then catches up with   *)
(* all the cycles since last_ts, in chunks up to the next thing that       *)
(* happens.  A channel that stops itself inside an update goes on with its *)
(* effects, silent, to the end of the update.                              *)
(*                                                                         *)
(* Wave and modulation data are fixed, output levels left out; WavePos of  *)
(* the noise channel counts the shifts of lfsr since it was last set to 1. *)
(*                                                                         *)
(* FirstStepShort, ChunkPastEffects and CountedPastZero are seeded faults: *)
(* each stands for the definition after it in a run that must then fail.   *)
(***************************************************************************)
EXTENDS Integers, FiniteSetsExt

CONSTANTS
  Channels,     \* the kinds of channel: "wave" (0 .. 3), "sweep", "noise"
  FreqBytes,    \* values of one half of a frequency; FreqTop is their square
  LatchFreq,    \* 2040: from here on output follows the latcher only
  WaveLen,      \* 32
  LatchClocks,  \* 120
  EffectClocks, \* 4800
  Ticks,        \* 4 effect ticks a unit of interval, 4 of these a unit of
                \* envelope time
  SlowSweep,    \* 8 effect ticks a sweep tick, with bit 7 of SweepControl
  EnvelopeMax,  \* 15
  NoiseFactor,  \* 10
  ModData,      \* the modulation table
  Intervals,    \* interval lengths the program starts notes with
  EnvLows, EnvHighs, SweepValues, \* what it writes to the effect registers,
                                  \* the first two by channel
  FrameCycles   \* bound: the longest frame explored

FreqTop == FreqBytes * FreqBytes
ModLen  == WaveLen

(* EnvControl's halves (but the level, which goes to Envelope), and the    *)
(* SweepControl register.                                                  *)
EnvLow  == [reload : 0 .. 7, grow : BOOLEAN]
EnvHigh == [enable : BOOLEAN, repeat : BOOLEAN,
            sweep : BOOLEAN, modulate : BOOLEAN, modrepeat : BOOLEAN]
Sweep   == [slow : BOOLEAN, interval : 0 .. 7, up : BOOLEAN, shift : 0 .. 7]

ASSUME VsuAssumption ==
  /\ Channels \subseteq {"wave", "sweep", "noise"}
  /\ {FreqBytes, WaveLen, LatchClocks, EffectClocks, Ticks, SlowSweep,
      EnvelopeMax, NoiseFactor, FrameCycles} \subseteq Nat \ {0}
  /\ LatchFreq \in Nat
  /\ ModData \in [0 .. ModLen - 1 -> Int]
  /\ Intervals \subseteq 0 .. 31
  /\ EnvLows \in [Channels -> SUBSET EnvLow]
  /\ EnvHighs \in [Channels -> SUBSET EnvHigh]
  /\ SweepValues \subseteq Sweep

VARIABLES
  channel,
  Frequency, timed,        \* timed: bit 5 of IntlControl
  EnvControl,              \* [lo, hi]
  SweepControl,
  chan,                    \* what VSU_Update changes, by the source's names;
                           \* playing is bit 7 of IntlControl
  last_ts, now

regs == << Frequency, timed, EnvControl, SweepControl >>
vars == << channel, regs, chan, last_ts, now >>

-----------------------------------------------------------------------------
(* VSU_Power *)
Idle ==
  [playing |-> FALSE, EffFreq |-> 0, Envelope |-> 0, WavePos |-> 0,
   FreqCounter |-> 0, LatcherClockDivider |-> LatchClocks,
   NoiseLatcherClockDivider |-> LatchClocks, NoiseLatcher |-> 0,
   EffectsClockDivider |-> EffectClocks, IntervalClockDivider |-> Ticks,
   EnvelopeClockDivider |-> Ticks, IntervalCounter |-> 0,
   EnvelopeCounter |-> 0, SweepModClockDivider |-> 1, SweepModCounter |-> 0,
   ModWavePos |-> 0]

Init ==
  /\ channel \in Channels
  /\ Frequency = 0 /\ timed = FALSE
  /\ EnvControl = [lo |-> [reload |-> 0, grow |-> FALSE],
                   hi |-> [enable |-> FALSE, repeat |-> FALSE,
                           sweep |-> FALSE, modulate |-> FALSE,
                           modrepeat |-> FALSE]]
  /\ SweepControl = [slow |-> FALSE, interval |-> 0, up |-> FALSE, shift |-> 0]
  /\ chan = Idle
  /\ last_ts = 0 /\ now = 0

-----------------------------------------------------------------------------
(* VSU_Update.  A chunk ends with the effects' clock, and with the noise   *)
(* latch, the latch of a high note, or the next step of the wave.          *)
ChunkPastEffects(c, clocks) ==
  Min({ clocks,
        IF channel = "noise" THEN c.NoiseLatcherClockDivider
        ELSE IF c.EffFreq >= LatchFreq THEN c.LatcherClockDivider
        ELSE c.FreqCounter })

Chunk(c, clocks) ==
  Min({ clocks, c.EffectsClockDivider,
        IF channel = "noise" THEN c.NoiseLatcherClockDivider
        ELSE IF c.EffFreq >= LatchFreq THEN c.LatcherClockDivider
        ELSE c.FreqCounter })

(* How often a counter that stands at left expires, and what it is then.   *)
Expiries(left, period) == IF left > 0 THEN 0 ELSE (-left) \div period + 1

Reload(left, period) == left + Expiries(left, period) * period

Period(freq) ==
  IF channel = "noise" THEN NoiseFactor * (FreqTop - freq) ELSE FreqTop - freq

Played(c, n) ==
  LET left    == c.FreqCounter - n
      pos     == (c.WavePos + Expiries(left, Period(c.EffFreq))) % WaveLen
      latches == channel = "noise" /\ c.NoiseLatcherClockDivider = n
  IN  [c EXCEPT
         !.FreqCounter = Reload(left, Period(c.EffFreq)),
         !.WavePos = pos,
         !.LatcherClockDivider = Reload(@ - n, LatchClocks),
         !.NoiseLatcherClockDivider = IF channel # "noise" THEN @
                                      ELSE IF latches THEN LatchClocks
                                      ELSE @ - n,
         !.NoiseLatcher = IF latches THEN pos ELSE @]

(* The envelope has counted down: one level up or down, wrapping only with *)
(* the repeat bit.                                                         *)
NextLevel(level) ==
  LET lo == EnvControl.lo  hi == EnvControl.hi IN
  IF lo.grow
  THEN IF level < EnvelopeMax \/ hi.repeat
       THEN (level + 1) % (EnvelopeMax + 1) ELSE level
  ELSE IF level > 0 \/ hi.repeat
       THEN (level - 1) % (EnvelopeMax + 1) ELSE level

EnvelopeTick(c) ==
  IF ~EnvControl.hi.enable THEN c
  ELSE IF c.EnvelopeCounter # 1
       THEN [c EXCEPT !.EnvelopeCounter = @ - 1]
       ELSE [c EXCEPT !.EnvelopeCounter = EnvControl.lo.reload + 1,
                      !.Envelope = NextLevel(@)]

(* The interval timer, and every Ticks units of it the envelope. *)
CountedPastZero(c) ==
  IF timed THEN [c EXCEPT !.IntervalCounter = @ - 1,
                          !.playing = @ /\ c.IntervalCounter # 0]
           ELSE c

Counted(c) ==
  IF timed THEN [c EXCEPT !.IntervalCounter = @ - 1,
                          !.playing = @ /\ c.IntervalCounter # 1]
           ELSE c

IntervalTick(c) ==
  IF c.EnvelopeClockDivider > 1
  THEN [Counted(c) EXCEPT !.EnvelopeClockDivider = @ - 1]
  ELSE EnvelopeTick([Counted(c) EXCEPT !.EnvelopeClockDivider = Ticks])

(* A new frequency: from the modulation table, or by a shift of the old    *)
(* one, which silences the channel when it goes beyond the top.            *)
Modulated(c) ==
  LET pos == c.ModWavePos % ModLen IN
  IF c.ModWavePos < ModLen \/ EnvControl.hi.modrepeat
  THEN [c EXCEPT !.EffFreq = (Frequency + ModData[pos]) % FreqTop,
                 !.ModWavePos = pos + 1]
  ELSE c

Swept(c) ==
  LET delta   == c.EffFreq \div (2 ^ SweepControl.shift)
      NewFreq == IF SweepControl.up THEN c.EffFreq + delta
                                    ELSE c.EffFreq - delta
  IN  IF NewFreq >= FreqTop THEN [c EXCEPT !.playing = FALSE]
                            ELSE [c EXCEPT !.EffFreq = NewFreq]

SweepPeriod == IF SweepControl.slow THEN SlowSweep ELSE 1

SweepTick(c) ==
  LET ticked  == [c EXCEPT !.SweepModClockDivider = SweepPeriod]
      counter == IF c.SweepModCounter > 0 THEN c.SweepModCounter - 1 ELSE 0
  IN  IF SweepControl.interval = 0 \/ ~EnvControl.hi.sweep THEN ticked
      ELSE IF counter > 0 THEN [ticked EXCEPT !.SweepModCounter = counter]
      ELSE LET due == [ticked EXCEPT !.SweepModCounter = SweepControl.interval]
           IN  IF EnvControl.hi.modulate THEN Modulated(due) ELSE Swept(due)

EffectsTick(c) ==
  LET timing == IF c.IntervalClockDivider > 1
                THEN [c EXCEPT !.IntervalClockDivider = @ - 1]
                ELSE IntervalTick([c EXCEPT !.IntervalClockDivider = Ticks])
  IN  IF channel # "sweep" THEN timing
      ELSE IF c.SweepModClockDivider > 1
           THEN [timing EXCEPT !.SweepModClockDivider = @ - 1]
           ELSE SweepTick(timing)

ChunkPlayed(c, n) ==
  LET played == Played(c, n) IN
  IF c.EffectsClockDivider > n
  THEN [played EXCEPT !.EffectsClockDivider = @ - n]
  ELSE EffectsTick([played EXCEPT !.EffectsClockDivider = EffectClocks])

(* The while loop: as long as clocks are left, a chunk of one at least. *)
AfterClocks(c, clocks) ==
  LET Round(r) ==
        IF r.clocks <= 0 THEN r
        ELSE LET n == Chunk(r.chan, r.clocks)
             IN  [chan |-> ChunkPlayed(r.chan, n), clocks |-> r.clocks - n]
      after[n \in Nat] == IF n = 0 THEN [chan |-> c, clocks |-> clocks]
                                   ELSE Round(after[n - 1])
  IN  after[clocks].chan

(* The channel after VSU_Update(now). *)
Updated == IF chan.playing THEN AfterClocks(chan, now - last_ts) ELSE chan

-----------------------------------------------------------------------------
Cycle ==
  /\ now < FrameCycles
  /\ now' = now + 1
  /\ UNCHANGED << channel, regs, chan, last_ts >>

(* What a silent channel keeps for its next note; Start sets the rest.     *)
Kept(c) ==
  IF c.playing THEN c
  ELSE [Idle EXCEPT !.Envelope = c.Envelope,
                    !.LatcherClockDivider = c.LatcherClockDivider,
                    !.NoiseLatcherClockDivider = c.NoiseLatcherClockDivider,
                    !.NoiseLatcher = c.NoiseLatcher]

(* VSU_Write: the update, then the register. *)
Update(c) ==
  /\ chan' = Kept(c)
  /\ last_ts' = now
  /\ UNCHANGED << channel, now >>

(* Wave and modulation data, levels, RAM address. *)
WriteOther ==
  /\ Update(Updated)
  /\ UNCHANGED regs

(* 0x580, or IntlControl without bit 7. *)
Stop(time) ==
  /\ Update([Updated EXCEPT !.playing = FALSE])
  /\ timed' = time
  /\ UNCHANGED << Frequency, EnvControl, SweepControl >>

(* IntlControl with bit 7: a note starts, at the envelope's present level. *)
FirstStepShort == Period(Frequency) - 1

FirstStep == Period(Frequency)

Start(time, interval) ==
  LET begun == [Updated EXCEPT
        !.playing = TRUE, !.EffFreq = Frequency, !.FreqCounter = FirstStep,
        !.IntervalCounter = interval + 1,
        !.EnvelopeCounter = EnvControl.lo.reload + 1,
        !.WavePos = 0,
        !.EffectsClockDivider = EffectClocks,
        !.IntervalClockDivider = Ticks, !.EnvelopeClockDivider = Ticks]
  IN  /\ Update(IF channel # "sweep" THEN begun
                ELSE [begun EXCEPT !.SweepModCounter = SweepControl.interval,
                                   !.SweepModClockDivider = SweepPeriod,
                                   !.ModWavePos = 0])
      /\ timed' = time
      /\ UNCHANGED << Frequency, EnvControl, SweepControl >>

(* One half of the frequency, of the register and of the note played. *)
LowSet(freq, b)  == (freq \div FreqBytes) * FreqBytes + b
HighSet(freq, b) == b * FreqBytes + (freq % FreqBytes)

WriteFrequencyLow(b) ==
  /\ Update([Updated EXCEPT !.EffFreq = LowSet(@, b)])
  /\ Frequency' = LowSet(Frequency, b)
  /\ UNCHANGED << timed, EnvControl, SweepControl >>

WriteFrequencyHigh(b) ==
  /\ Update([Updated EXCEPT !.EffFreq = HighSet(@, b)])
  /\ Frequency' = HighSet(Frequency, b)
  /\ UNCHANGED << timed, EnvControl, SweepControl >>

WriteEnvLow(lo, level) ==
  /\ Update([Updated EXCEPT !.Envelope = level])
  /\ EnvControl' = [EnvControl EXCEPT !.lo = lo]
  /\ UNCHANGED << Frequency, timed, SweepControl >>

(* The noise register starts anew; only channel 4 has sweep bits. *)
WriteEnvHigh(hi) ==
  /\ channel # "sweep" => ~hi.sweep /\ ~hi.modulate /\ ~hi.modrepeat
  /\ Update(IF channel = "noise" THEN [Updated EXCEPT !.WavePos = 0]
                                 ELSE Updated)
  /\ EnvControl' = [EnvControl EXCEPT !.hi = hi]
  /\ UNCHANGED << Frequency, timed, SweepControl >>

WriteSweep(value) ==
  /\ channel = "sweep"
  /\ Update(Updated)
  /\ SweepControl' = value
  /\ UNCHANGED << Frequency, timed, EnvControl >>

(* VSU_EndFrame *)
EndFrame ==
  /\ now > 0
  /\ chan' = Kept(Updated)
  /\ last_ts' = 0 /\ now' = 0
  /\ UNCHANGED << channel, regs >>

-----------------------------------------------------------------------------
Program ==
  \/ WriteOther
  \/ \E time \in BOOLEAN :
       \/ Stop(time)
       \/ \E interval \in Intervals : Start(time, interval)
  \/ \E b \in 0 .. FreqBytes - 1 : WriteFrequencyLow(b) \/ WriteFrequencyHigh(b)
  \/ \E lo \in EnvLows[channel], level \in 0 .. EnvelopeMax : WriteEnvLow(lo, level)
  \/ \E hi \in EnvHighs[channel] : WriteEnvHigh(hi)
  \/ \E value \in SweepValues : WriteSweep(value)

Next == Cycle \/ Program \/ EndFrame

Spec == Init /\ [][Next]_vars

-----------------------------------------------------------------------------
(* Types: above all, the counters of a playing channel are positive, for a *)
(* chunk of no clocks would keep VSU_Update in its loop for ever.          *)
TypeOK ==
  /\ Frequency \in 0 .. FreqTop - 1 /\ timed \in BOOLEAN
  /\ EnvControl \in [lo : EnvLow, hi : EnvHigh] /\ SweepControl \in Sweep
  /\ chan.EffFreq \in 0 .. FreqTop - 1
  /\ chan.Envelope \in 0 .. EnvelopeMax
  /\ chan.WavePos \in 0 .. WaveLen - 1 /\ chan.ModWavePos \in 0 .. ModLen
  /\ chan.LatcherClockDivider \in 1 .. LatchClocks
  /\ chan.NoiseLatcherClockDivider \in 1 .. LatchClocks
  /\ chan.EffectsClockDivider \in 1 .. EffectClocks
  /\ {chan.IntervalClockDivider, chan.EnvelopeClockDivider} \subseteq 1 .. Ticks
  /\ chan.SweepModClockDivider \in 1 .. SlowSweep
  /\ chan.playing =>
       /\ chan.FreqCounter \in 1 .. Period(0)
       /\ chan.EnvelopeCounter \in 1 .. 8
       /\ timed => chan.IntervalCounter \in 1 .. 32
  /\ last_ts \in 0 .. now /\ now \in 0 .. FrameCycles

(* However long the writes and frame ends let it wait, an update arrives   *)
(* where a channel clocked every cycle does, unless the note ended, which  *)
(* it does in both.                                                        *)
SoundChannel == INSTANCE SoundChannel

AsNote(c) ==
  IF ~c.playing THEN [playing |-> FALSE]
  ELSE [playing |-> TRUE, level |-> c.Envelope,
        freq |-> c.EffFreq, step |-> c.FreqCounter, pos |-> c.WavePos,
        age |-> ((Ticks - c.EnvelopeClockDivider) * Ticks
                 + Ticks - c.IntervalClockDivider) * EffectClocks
                + EffectClocks - c.EffectsClockDivider,
        rest |-> c.IntervalCounter, fade |-> c.EnvelopeCounter,
        latch |-> c.NoiseLatcherClockDivider, latched |-> c.NoiseLatcher,
        sweepclock |-> c.SweepModClockDivider,
        sweepcount |-> c.SweepModCounter, modpos |-> c.ModWavePos]

LazyIsTickByTick ==
  AsNote(Updated) = SoundChannel!After(AsNote(chan), now - last_ts)

(* A note with an interval is cut to the cycle, whatever is written and    *)
(* however late the update: (interval + 1) * Ticks effect ticks after it   *)
(* began.  Only too high a sweep ends it before.                           *)
ClocksLeft == ((chan.IntervalCounter - 1) * Ticks + chan.IntervalClockDivider - 1)
                * EffectClocks + chan.EffectsClockDivider

NotesEndOnTime ==
  chan.playing =>
    /\ timed /\ now - last_ts >= ClocksLeft => ~Updated.playing
    /\ ~timed \/ now - last_ts < ClocksLeft =>
         Updated.playing \/ (channel = "sweep" /\ SweepControl.up)
=============================================================================
