----------------------------- MODULE VsuProofs -----------------------------
(***************************************************************************)
(* Proofs about Vsu, for every value of its constants.                     *)
(*                                                                         *)
(* VSU_Update advances in chunks.  The argument is that a chunk of n       *)
(* cycles is one cycle and then a chunk of n - 1, so that an update is so  *)
(* many single cycles (Loops); what is then left to show is what a single  *)
(* cycle does.                                                             *)
(***************************************************************************)
EXTENDS Vsu, Loops

-----------------------------------------------------------------------------
(* Division: quotient and remainder are what they are defined to be. *)
LEMMA DivisionIs ==
  ASSUME NEW a \in Int, NEW p \in Nat \ {0}, NEW q \in Int, NEW r \in 0 .. p - 1,
         a = p * q + r
  PROVE  a \div p = q /\ a % p = r
  <1> DEFINE d == a \div p   e == a % p
  <1>1. d \in Int /\ e \in 0 .. p - 1 /\ a = p * d + e
    OBVIOUS
  <1> HIDE DEF d, e
  <1>2. p * q - p * d = e - r /\ p * q \in Int /\ p * d \in Int
    BY <1>1
  <1>3. CASE q >= d + 1
    <2>1. p * q >= p * (d + 1) /\ p * (d + 1) = p * d + p
      BY <1>1, <1>3
    <2> QED BY <1>1, <1>2, <2>1
  <1>4. CASE d >= q + 1
    <2>1. p * d >= p * (q + 1) /\ p * (q + 1) = p * q + p
      BY <1>1, <1>4
    <2> QED BY <1>1, <1>2, <2>1
  <1>5. CASE q = d
    BY <1>1, <1>2, <1>5 DEF d, e
  <1> QED BY <1>1, <1>3, <1>4, <1>5

LEMMA ModAgain ==
  ASSUME NEW x \in Int, NEW y \in Int, NEW p \in Nat \ {0}
  PROVE  ((x % p) + y) % p = (x + y) % p
  <1> DEFINE q == x \div p   r == x % p   s == (r + y) \div p   t == (r + y) % p
  <1>1. q \in Int /\ r \in 0 .. p - 1 /\ x = p * q + r
    OBVIOUS
  <1> HIDE DEF q, r
  <1>2. s \in Int /\ t \in 0 .. p - 1 /\ r + y = p * s + t
    BY <1>1
  <1> HIDE DEF s, t
  <1>3. x + y = p * (q + s) + t
    <2>1. p * (q + s) = p * q + p * s
      BY <1>1, <1>2
    <2> QED BY <1>1, <1>2, <2>1
  <1>4. (x + y) % p = t
    <2>1. q + s \in Int /\ x + y \in Int
      BY <1>1, <1>2
    <2> QED BY <1>2, <1>3, <2>1, DivisionIs
  <1> QED BY <1>4 DEF r, t

(* A counter that expires every p clocks. *)
LEMMA ReloadFacts ==
  ASSUME NEW left \in Int, NEW p \in Nat \ {0}
  PROVE  /\ Expiries(left, p) \in Nat /\ Reload(left, p) \in Nat \ {0}
         /\ left > 0 => Expiries(left, p) = 0 /\ Reload(left, p) = left
         /\ ~ (left > 0) => Expiries(left, p) >= 1 /\ Reload(left, p) <= p
         /\ Reload(left, p) = left + Expiries(left, p) * p
         /\ left = 0 => Expiries(left, p) = 1 /\ Reload(left, p) = p
  <1>1. CASE left > 0
    <2>1. Expiries(left, p) = 0
      BY <1>1 DEF Expiries
    <2>2. Reload(left, p) = left + 0 * p
      BY <2>1 DEF Reload
    <2> QED BY <1>1, <2>1, <2>2
  <1>2. CASE ~ (left > 0)
    <2> DEFINE q == (-left) \div p   r == (-left) % p
    <2>1. q \in Nat /\ r \in 0 .. p - 1 /\ -left = p * q + r
      <3>1. q \in Int /\ r \in 0 .. p - 1 /\ -left = p * q + r /\ -left >= 0
        BY <1>2
      <3> HIDE DEF q, r
      <3>2. q < 0 => p * q <= -p
        BY <3>1
      <3> QED BY <3>1, <3>2
    <2>2. Expiries(left, p) = q + 1
      BY <1>2 DEF Expiries
    <2> HIDE DEF q, r
    <2>3. Reload(left, p) = left + (q + 1) * p
      BY <2>2 DEF Reload
    <2>4. (q + 1) * p = p * q + p
      BY <2>1
    <2>5. Reload(left, p) = p - r
      BY <2>1, <2>3, <2>4
    <2>6. ASSUME left = 0 PROVE Expiries(left, p) = 1 /\ Reload(left, p) = p
      <3>1. 0 \div p = 0
        <4>1. 0 \in 0 .. p - 1 /\ 0 = p * 0 + 0
          OBVIOUS
        <4> QED BY <4>1, DivisionIs
      <3>2. q = 0
        BY <2>6, <3>1 DEF q
      <3> QED BY <2>2, <2>3, <2>6, <3>2
    <2> QED BY <1>2, <2>1, <2>2, <2>3, <2>5, <2>6
  <1> QED BY <1>1, <1>2

LEMMA ReloadAgain ==
  ASSUME NEW left \in Int, NEW n \in Nat, NEW p \in Nat \ {0}
  PROVE  /\ Reload(Reload(left, p) - n, p) = Reload(left - n, p)
         /\ Expiries(left - n, p) = Expiries(left, p) + Expiries(Reload(left, p) - n, p)
  <1> DEFINE e == Expiries(left, p)   y == Reload(left, p)
  <1>1. e \in Nat /\ y \in Nat \ {0} /\ y = left + e * p
    BY ReloadFacts
  <1>2. CASE left > 0
    <2>1. e = 0 /\ y = left
      BY <1>2, ReloadFacts
    <2>2. Expiries(left - n, p) \in Nat
      BY ReloadFacts
    <2> QED BY <2>1, <2>2
  <1>3. CASE ~ (left > 0)
    <2>1. e >= 1 /\ y <= p
      BY <1>3, ReloadFacts
    <2>2. ~ (left - n > 0) /\ -(left - n) = n - left /\ n - left = (n - y) + e * p
      BY <1>1, <1>3
    <2>3. Expiries(left - n, p) = (n - left) \div p + 1
      BY <2>2 DEF Expiries
    <2>4. Expiries(left - n, p) = e + Expiries(y - n, p)
      <3>1. CASE y - n > 0
        <4>1. Expiries(y - n, p) = 0
          BY <3>1 DEF Expiries
        <4>2. p - (y - n) \in 0 .. p - 1 /\ n - left = p * (e - 1) + (p - (y - n))
          <5>1. p * (e - 1) = e * p - p
            BY <1>1
          <5> HIDE DEF e, y
          <5>2. e * p \in Int
            BY <1>1
          <5> QED BY <1>1, <2>1, <2>2, <3>1, <5>1, <5>2
        <4>3. (n - left) \div p = e - 1
          <5> HIDE DEF e, y
          <5> QED BY <1>1, <4>2, DivisionIs
        <4> QED BY <1>1, <2>3, <4>1, <4>3
      <3>2. CASE ~ (y - n > 0)
        <4> DEFINE q == (n - y) \div p   r == (n - y) % p
        <4>1. q \in Int /\ r \in 0 .. p - 1 /\ n - y = p * q + r
          BY <1>1
        <4>2. Expiries(y - n, p) = q + 1
          <5>1. -(y - n) = n - y
            BY <1>1
          <5> QED BY <3>2, <5>1 DEF Expiries
        <4> HIDE DEF e, y, q, r
        <4>3. n - left = p * (q + e) + r
          <5>1. p * (q + e) = p * q + e * p
            BY <1>1, <4>1
          <5> QED BY <1>1, <2>2, <4>1, <5>1
        <4>4. (n - left) \div p = q + e
          BY <1>1, <4>1, <4>3, DivisionIs
        <4> QED BY <1>1, <2>3, <4>1, <4>2, <4>4
      <3> QED BY <3>1, <3>2
    <2>5. Reload(y - n, p) = Reload(left - n, p)
      <3> DEFINE f == Expiries(y - n, p)
      <3>1. f \in Nat
        <4>1. y - n \in Int
          BY <1>1
        <4> HIDE DEF y
        <4> QED BY <4>1, ReloadFacts
      <3>2. Reload(y - n, p) = (y - n) + f * p
        BY DEF Reload
      <3>3. Reload(left - n, p) = (left - n) + (e + f) * p
        BY <2>4 DEF Reload
      <3> HIDE DEF e, y, f
      <3>4. (e + f) * p = e * p + f * p /\ e * p \in Int /\ f * p \in Int
        BY <1>1, <3>1
      <3> QED BY <1>1, <3>2, <3>3, <3>4
    <2> QED BY <2>4, <2>5
  <1> QED BY <1>2, <1>3

-----------------------------------------------------------------------------
(* The smallest of three or of two numbers. *)
LEMMA MinOfThree ==
  ASSUME NEW x \in Int, NEW y \in Int, NEW z \in Int
  PROVE  /\ Min({x, y, z}) \in {x, y, z}
         /\ Min({x, y, z}) <= x /\ Min({x, y, z}) <= y /\ Min({x, y, z}) <= z
  <1> DEFINE S == {x, y, z}
  <1>1. \E w \in S : \A v \in S : w <= v
    BY DEF S
  <1>2. Min(S) = CHOOSE w \in S : \A v \in S : w <= v
    BY DEF Min
  <1>3. Min(S) \in S /\ \A v \in S : Min(S) <= v
    <2> HIDE DEF S
    <2> QED BY <1>1, <1>2
  <1> QED BY <1>3 DEF S

LEMMA Powers == \A s \in 0 .. 7 : 2 ^ s \in Nat \ {0}
  <1> TAKE s \in 0 .. 7
  <1>1. CASE s = 0
    BY <1>1
  <1>2. CASE s = 1
    BY <1>2
  <1>3. CASE s = 2
    BY <1>3
  <1>4. CASE s = 3
    BY <1>4
  <1>5. CASE s = 4
    BY <1>5
  <1>6. CASE s = 5
    BY <1>6
  <1>7. CASE s = 6
    BY <1>7
  <1>8. CASE s = 7
    BY <1>8
  <1> QED BY <1>1, <1>2, <1>3, <1>4, <1>5, <1>6, <1>7, <1>8

(* A quotient of a natural is one, and no larger. *)
LEMMA QuotientIs ==
  ASSUME NEW a \in Nat, NEW p \in Nat \ {0}
  PROVE  a \div p \in 0 .. a
  <1> DEFINE d == a \div p   e == a % p
  <1>1. d \in Int /\ e \in 0 .. p - 1 /\ a = p * d + e
    OBVIOUS
  <1> HIDE DEF d, e
  <1>2. d < 0 => p * d <= -p
    BY <1>1
  <1>3. d >= 0 => p * d >= d
    BY <1>1
  <1>4. p * d \in Int
    BY <1>1
  <1>5. d \in 0 .. a
    BY <1>1, <1>2, <1>3, <1>4
  <1> QED BY <1>5 DEF d

-----------------------------------------------------------------------------
(* The registers hold what can be written to them. *)
VsuSane ==
  /\ channel \in {"wave", "sweep", "noise"}
  /\ Frequency \in 0 .. FreqTop - 1 /\ timed \in BOOLEAN
  /\ EnvControl \in [lo : EnvLow, hi : EnvHigh] /\ SweepControl \in Sweep

(* What a channel may hold, playing or not, but for the counters that only *)
(* a note has, ...                                                         *)
ChanStates ==
  [playing : BOOLEAN, EffFreq : 0 .. FreqTop - 1, Envelope : 0 .. EnvelopeMax,
   WavePos : 0 .. WaveLen - 1, FreqCounter : Int,
   LatcherClockDivider : 1 .. LatchClocks,
   NoiseLatcherClockDivider : 1 .. LatchClocks, NoiseLatcher : 0 .. WaveLen - 1,
   EffectsClockDivider : 1 .. EffectClocks, IntervalClockDivider : 1 .. Ticks,
   EnvelopeClockDivider : 1 .. Ticks, IntervalCounter : Int,
   EnvelopeCounter : Int, SweepModClockDivider : 1 .. SlowSweep,
   SweepModCounter : 0 .. 7, ModWavePos : 0 .. ModLen]

(* ... and these, which an update keeps in their bounds even after it has  *)
(* ended the note; the interval timer goes on below 0 then.                *)
Begun(c) ==
  /\ c.FreqCounter \in 1 .. Period(0) /\ c.EnvelopeCounter \in 1 .. 8
  /\ timed /\ c.playing => c.IntervalCounter \in 1 .. 32

Notes == {c \in ChanStates : Begun(c)}

LEMMA Parameters ==
  /\ FreqTop \in Nat \ {0} /\ FreqBytes \in Nat \ {0} /\ WaveLen \in Nat \ {0}
  /\ LatchClocks \in Nat \ {0} /\ EffectClocks \in Nat \ {0} /\ Ticks \in Nat \ {0}
  /\ SlowSweep \in Nat \ {0} /\ EnvelopeMax \in Nat \ {0}
  /\ NoiseFactor \in Nat \ {0} /\ LatchFreq \in Nat /\ ModLen = WaveLen
  /\ ModData \in [0 .. WaveLen - 1 -> Int]
  <1>1. FreqBytes \in Nat \ {0} /\ FreqBytes * FreqBytes >= FreqBytes
    BY VsuAssumption
  <1>2. FreqTop \in Nat \ {0}
    BY <1>1 DEF FreqTop
  <1> QED BY <1>2, VsuAssumption DEF ModLen

LEMMA PeriodIs ==
  ASSUME NEW freq \in 0 .. FreqTop - 1
  PROVE  Period(freq) \in 1 .. Period(0) /\ Period(freq) \in Nat \ {0} /\ Period(0) \in Int
  <1>1. FreqTop \in Nat \ {0} /\ NoiseFactor \in Nat \ {0}
    BY Parameters
  <1>2. FreqTop - freq \in 1 .. FreqTop /\ FreqTop - 0 = FreqTop
    BY <1>1
  <1>3. NoiseFactor * (FreqTop - freq) \in 1 .. NoiseFactor * FreqTop
    BY <1>1, <1>2
  <1>4. NoiseFactor * FreqTop \in Int
    BY <1>1
  <1> QED BY <1>1, <1>2, <1>3, <1>4 DEF Period

(* A chunk is one clock at least, and no longer than what it ends with. *)
LEMMA ChunkIs ==
  ASSUME NEW c \in Notes, NEW clocks \in Nat \ {0}
  PROVE  /\ Chunk(c, clocks) \in 1 .. clocks /\ Chunk(c, clocks) <= c.EffectsClockDivider
         /\ channel = "noise" => Chunk(c, clocks) <= c.NoiseLatcherClockDivider
  <1> DEFINE x == IF channel = "noise" THEN c.NoiseLatcherClockDivider
                  ELSE IF c.EffFreq >= LatchFreq THEN c.LatcherClockDivider
                  ELSE c.FreqCounter
  <1>1. x \in Nat \ {0} /\ c.EffectsClockDivider \in Nat \ {0}
    <2>1. c.FreqCounter \in Nat \ {0}
      <3>1. Period(0) \in Int
        BY Parameters, PeriodIs
      <3> QED BY <3>1 DEF Notes, Begun
    <2>2. /\ c.NoiseLatcherClockDivider \in 1 .. LatchClocks
          /\ c.LatcherClockDivider \in 1 .. LatchClocks
          /\ c.EffectsClockDivider \in 1 .. EffectClocks
      BY DEF Notes, ChanStates
    <2> QED BY <2>1, <2>2, Parameters
  <1>2. channel = "noise" => x = c.NoiseLatcherClockDivider
    OBVIOUS
  <1>3. Chunk(c, clocks) = Min({clocks, c.EffectsClockDivider, x})
    BY DEF Chunk
  <1> DEFINE e == c.EffectsClockDivider
  <1> HIDE DEF x
  <1>4. /\ Min({clocks, e, x}) \in {clocks, e, x}
        /\ Min({clocks, e, x}) <= clocks /\ Min({clocks, e, x}) <= e
        /\ Min({clocks, e, x}) <= x
    <2>1. clocks \in Int /\ e \in Int /\ x \in Int
      BY <1>1
    <2> HIDE DEF e
    <2> QED BY <2>1, MinOfThree
  <1> QED BY <1>1, <1>2, <1>3, <1>4

-----------------------------------------------------------------------------
(* An effect tick is of the timers first and of the sweep then. *)
Timing(c) ==
  IF c.IntervalClockDivider > 1
  THEN [c EXCEPT !.IntervalClockDivider = @ - 1]
  ELSE IntervalTick([c EXCEPT !.IntervalClockDivider = Ticks])

(* What the timers leave alone. *)
SameWave(c, d) ==
  /\ d.FreqCounter = c.FreqCounter /\ d.WavePos = c.WavePos
  /\ d.LatcherClockDivider = c.LatcherClockDivider
  /\ d.NoiseLatcherClockDivider = c.NoiseLatcherClockDivider
  /\ d.NoiseLatcher = c.NoiseLatcher
  /\ d.EffectsClockDivider = c.EffectsClockDivider

SameSweep(c, d) ==
  /\ d.EffFreq = c.EffFreq /\ d.SweepModClockDivider = c.SweepModClockDivider
  /\ d.SweepModCounter = c.SweepModCounter /\ d.ModWavePos = c.ModWavePos

SameTimers(c, d) ==
  /\ d.IntervalClockDivider = c.IntervalClockDivider
  /\ d.EnvelopeClockDivider = c.EnvelopeClockDivider
  /\ d.IntervalCounter = c.IntervalCounter
  /\ d.EnvelopeCounter = c.EnvelopeCounter /\ d.Envelope = c.Envelope

LEMMA LevelIs ==
  ASSUME VsuSane, NEW level \in 0 .. EnvelopeMax
  PROVE  NextLevel(level) \in 0 .. EnvelopeMax
  <1>1. EnvelopeMax \in Nat \ {0}
    BY Parameters
  <1>2. \A x \in Int : x % (EnvelopeMax + 1) \in 0 .. EnvelopeMax
    BY <1>1
  <1> QED BY <1>1, <1>2 DEF NextLevel

LEMMA CountedIs ==
  ASSUME VsuSane, NEW c \in Notes
  PROVE  LET d == Counted(c) IN
         /\ d \in ChanStates /\ d.EnvelopeCounter \in 1 .. 8
         /\ d.FreqCounter \in 1 .. Period(0)
         /\ timed /\ d.playing => d.IntervalCounter \in 1 .. 32
         /\ SameWave(c, d) /\ SameSweep(c, d)
         /\ d.IntervalClockDivider = c.IntervalClockDivider
         /\ d.EnvelopeClockDivider = c.EnvelopeClockDivider
         /\ d.EnvelopeCounter = c.EnvelopeCounter /\ d.Envelope = c.Envelope
         /\ d.IntervalCounter = IF timed THEN c.IntervalCounter - 1 ELSE c.IntervalCounter
         /\ d.playing <=> c.playing /\ ~ (timed /\ c.IntervalCounter = 1)
  <1>1. timed \in BOOLEAN
    BY DEF VsuSane
  <1>2. CASE ~ timed
    BY <1>1, <1>2 DEF Notes, Begun, Counted, SameWave, SameSweep
  <1>3. CASE timed
    <2> DEFINE d == Counted(c)
    <2>1. d = [c EXCEPT !.IntervalCounter = @ - 1,
                        !.playing = @ /\ c.IntervalCounter # 1]
      BY <1>3 DEF Counted
    <2>2. c \in ChanStates /\ c.playing \in BOOLEAN /\ c.IntervalCounter \in Int
      BY DEF Notes, ChanStates
    <2>3. d \in ChanStates
      <3> DEFINE i == c.IntervalCounter - 1   b == c.playing /\ c.IntervalCounter # 1
      <3>1. d = [c EXCEPT !.IntervalCounter = i, !.playing = b]
        BY <2>1
      <3>2. i \in Int /\ b \in BOOLEAN
        BY <2>2
      <3> HIDE DEF d, i, b
      <3> QED BY <2>2, <3>1, <3>2 DEF ChanStates
    <2>4. /\ d.IntervalCounter = c.IntervalCounter - 1
          /\ d.playing <=> c.playing /\ c.IntervalCounter # 1
      <3>1. d.IntervalCounter = c.IntervalCounter - 1
        BY <2>1, <2>2 DEF ChanStates
      <3>2. d.playing = (c.playing /\ c.IntervalCounter # 1)
        BY <2>1, <2>2 DEF ChanStates
      <3> HIDE DEF d
      <3> QED BY <3>1, <3>2
    <2>5. /\ SameWave(c, d) /\ SameSweep(c, d)
          /\ d.IntervalClockDivider = c.IntervalClockDivider
          /\ d.EnvelopeClockDivider = c.EnvelopeClockDivider
          /\ d.EnvelopeCounter = c.EnvelopeCounter /\ d.Envelope = c.Envelope
      BY <2>1, <2>2 DEF ChanStates, SameWave, SameSweep
    <2> HIDE DEF d
    <2>6. timed /\ d.playing => d.IntervalCounter \in 1 .. 32
      BY <2>2, <2>4 DEF Notes, Begun
    <2>7. d.EnvelopeCounter \in 1 .. 8 /\ d.FreqCounter \in 1 .. Period(0)
      BY <2>5 DEF Notes, Begun, SameWave
    <2> QED BY <1>3, <2>3, <2>4, <2>5, <2>6, <2>7 DEF d
  <1> QED BY <1>2, <1>3

LEMMA EnvelopeTickIs ==
  ASSUME VsuSane, NEW c \in ChanStates, c.EnvelopeCounter \in 1 .. 8
  PROVE  LET d    == EnvelopeTick(c)
             fade == EnvControl.hi.enable
         IN
         /\ d \in ChanStates /\ d.EnvelopeCounter \in 1 .. 8
         /\ SameWave(c, d) /\ SameSweep(c, d)
         /\ d.IntervalClockDivider = c.IntervalClockDivider
         /\ d.EnvelopeClockDivider = c.EnvelopeClockDivider
         /\ d.IntervalCounter = c.IntervalCounter /\ d.playing = c.playing
         /\ d.EnvelopeCounter =
              IF ~ fade THEN c.EnvelopeCounter
              ELSE IF c.EnvelopeCounter = 1 THEN EnvControl.lo.reload + 1
              ELSE c.EnvelopeCounter - 1
         /\ d.Envelope = IF fade /\ c.EnvelopeCounter = 1 THEN NextLevel(c.Envelope)
                         ELSE c.Envelope
  <1> DEFINE d == EnvelopeTick(c)
  <1>1. /\ c.Envelope \in 0 .. EnvelopeMax /\ c.EnvelopeCounter \in Int
        /\ EnvControl.lo.reload \in 0 .. 7 /\ EnvControl.hi.enable \in BOOLEAN
    BY DEF ChanStates, VsuSane, EnvLow, EnvHigh
  <1>2. NextLevel(c.Envelope) \in 0 .. EnvelopeMax
    BY <1>1, LevelIs
  <1>3. CASE ~ EnvControl.hi.enable
    BY <1>3 DEF EnvelopeTick, SameWave, SameSweep
  <1>4. CASE EnvControl.hi.enable /\ c.EnvelopeCounter # 1
    <2>1. d = [c EXCEPT !.EnvelopeCounter = @ - 1]
      BY <1>4 DEF EnvelopeTick
    <2> HIDE DEF d
    <2>2. d \in ChanStates /\ d.EnvelopeCounter = c.EnvelopeCounter - 1
      BY <1>1, <2>1 DEF ChanStates
    <2>3. /\ SameWave(c, d) /\ SameSweep(c, d)
          /\ d.IntervalClockDivider = c.IntervalClockDivider
          /\ d.EnvelopeClockDivider = c.EnvelopeClockDivider
          /\ d.IntervalCounter = c.IntervalCounter /\ d.playing = c.playing
          /\ d.Envelope = c.Envelope
      BY <2>1 DEF ChanStates, SameWave, SameSweep
    <2> QED BY <1>4, <2>2, <2>3 DEF d
  <1>5. CASE EnvControl.hi.enable /\ c.EnvelopeCounter = 1
    <2> DEFINE e == EnvControl.lo.reload + 1   v == NextLevel(c.Envelope)
    <2>1. d = [c EXCEPT !.EnvelopeCounter = e, !.Envelope = v]
      BY <1>5 DEF EnvelopeTick
    <2>2. e \in 1 .. 8 /\ v \in 0 .. EnvelopeMax
      BY <1>1, <1>2
    <2> HIDE DEF d, e, v
    <2>3. d \in ChanStates /\ d.EnvelopeCounter = e /\ d.Envelope = v
      <3>1. e \in Int
        BY <2>2
      <3> QED BY <2>1, <2>2, <3>1 DEF ChanStates
    <2>4. /\ SameWave(c, d) /\ SameSweep(c, d)
          /\ d.IntervalClockDivider = c.IntervalClockDivider
          /\ d.EnvelopeClockDivider = c.EnvelopeClockDivider
          /\ d.IntervalCounter = c.IntervalCounter /\ d.playing = c.playing
      BY <2>1 DEF ChanStates, SameWave, SameSweep
    <2> QED BY <1>5, <2>2, <2>3, <2>4 DEF d, e, v
  <1> QED BY <1>1, <1>3, <1>4, <1>5

(* The interval timer counts when its divider expires, and the envelope    *)
(* when both dividers do.                                                  *)
TimerTicks(c) == c.IntervalClockDivider = 1
FadeTicks(c)  == TimerTicks(c) /\ c.EnvelopeClockDivider = 1

TimersMoved(c, d) ==
  /\ d.IntervalClockDivider = IF TimerTicks(c) THEN Ticks ELSE c.IntervalClockDivider - 1
  /\ d.EnvelopeClockDivider = IF FadeTicks(c) THEN Ticks
                              ELSE IF TimerTicks(c) THEN c.EnvelopeClockDivider - 1
                              ELSE c.EnvelopeClockDivider
  /\ d.IntervalCounter = IF timed /\ TimerTicks(c) THEN c.IntervalCounter - 1
                         ELSE c.IntervalCounter
  /\ d.EnvelopeCounter = IF ~ (FadeTicks(c) /\ EnvControl.hi.enable)
                         THEN c.EnvelopeCounter
                         ELSE IF c.EnvelopeCounter = 1 THEN EnvControl.lo.reload + 1
                         ELSE c.EnvelopeCounter - 1
  /\ d.Envelope = IF FadeTicks(c) /\ EnvControl.hi.enable /\ c.EnvelopeCounter = 1
                  THEN NextLevel(c.Envelope) ELSE c.Envelope

RunsOut(c) == timed /\ TimerTicks(c) /\ c.IntervalCounter = 1

LEMMA IntervalTickIs ==
  ASSUME VsuSane, NEW b \in Notes, TimerTicks(b),
         NEW c, c = [b EXCEPT !.IntervalClockDivider = Ticks]
  PROVE  LET d == IntervalTick(c) IN
         /\ d \in Notes /\ SameWave(b, d) /\ SameSweep(b, d) /\ TimersMoved(b, d)
         /\ d.playing <=> b.playing /\ ~ RunsOut(b)
  <1> DEFINE d == IntervalTick(c)
  <1>1. b \in ChanStates /\ Begun(b) /\ Ticks \in Nat \ {0}
    BY Parameters DEF Notes
  <1>2. c \in ChanStates /\ c.IntervalClockDivider = Ticks
    BY <1>1 DEF ChanStates
  <1>3. /\ SameWave(b, c) /\ SameSweep(b, c) /\ c.playing = b.playing
        /\ c.IntervalCounter = b.IntervalCounter
        /\ c.EnvelopeCounter = b.EnvelopeCounter /\ c.Envelope = b.Envelope
        /\ c.EnvelopeClockDivider = b.EnvelopeClockDivider
    BY <1>1 DEF ChanStates, SameWave, SameSweep
  <1>4. c \in Notes
    BY <1>1, <1>2, <1>3 DEF Notes, Begun, SameWave
  <1> DEFINE e == Counted(c)
  <1>5. /\ e \in ChanStates /\ e.EnvelopeCounter \in 1 .. 8
        /\ e.FreqCounter \in 1 .. Period(0)
        /\ timed /\ e.playing => e.IntervalCounter \in 1 .. 32
        /\ SameWave(c, e) /\ SameSweep(c, e)
        /\ e.IntervalClockDivider = c.IntervalClockDivider
        /\ e.EnvelopeClockDivider = c.EnvelopeClockDivider
        /\ e.EnvelopeCounter = c.EnvelopeCounter /\ e.Envelope = c.Envelope
        /\ e.IntervalCounter = IF timed THEN c.IntervalCounter - 1 ELSE c.IntervalCounter
        /\ e.playing <=> c.playing /\ ~ (timed /\ c.IntervalCounter = 1)
    BY <1>4, CountedIs
  <1> HIDE DEF e
  <1>6. b.EnvelopeClockDivider \in 1 .. Ticks
    BY <1>1 DEF ChanStates
  <1>7. CASE c.EnvelopeClockDivider > 1
    <2>1. d = [e EXCEPT !.EnvelopeClockDivider = @ - 1]
      BY <1>7 DEF IntervalTick, e
    <2> HIDE DEF d
    <2>2. d \in ChanStates /\ d.EnvelopeClockDivider = c.EnvelopeClockDivider - 1
      BY <1>1, <1>3, <1>5, <1>6, <1>7, <2>1 DEF ChanStates
    <2>3. /\ SameWave(e, d) /\ SameSweep(e, d) /\ d.playing = e.playing
          /\ d.IntervalClockDivider = e.IntervalClockDivider
          /\ d.EnvelopeCounter = e.EnvelopeCounter /\ d.Envelope = e.Envelope
          /\ d.IntervalCounter = e.IntervalCounter
      BY <1>5, <2>1 DEF ChanStates, SameWave, SameSweep
    <2>4. d \in Notes
      BY <1>5, <2>2, <2>3 DEF Notes, Begun, SameWave
    <2>5. SameWave(b, d) /\ SameSweep(b, d) /\ (d.playing <=> b.playing /\ ~ RunsOut(b))
      BY <1>3, <1>5, <2>3 DEF SameWave, SameSweep, RunsOut
    <2>6. TimersMoved(b, d)
      BY <1>2, <1>3, <1>5, <1>7, <2>2, <2>3 DEF TimersMoved, FadeTicks
    <2> QED BY <2>4, <2>5, <2>6 DEF d
  <1>8. CASE ~ (c.EnvelopeClockDivider > 1)
    <2> DEFINE f == [e EXCEPT !.EnvelopeClockDivider = Ticks]
    <2>1. d = EnvelopeTick(f)
      BY <1>8 DEF IntervalTick, e
    <2>2. f \in ChanStates /\ f.EnvelopeClockDivider = Ticks
      BY <1>1, <1>5 DEF ChanStates
    <2>3. /\ SameWave(e, f) /\ SameSweep(e, f) /\ f.playing = e.playing
          /\ f.IntervalClockDivider = e.IntervalClockDivider
          /\ f.EnvelopeCounter = e.EnvelopeCounter /\ f.Envelope = e.Envelope
          /\ f.IntervalCounter = e.IntervalCounter
      BY <1>5 DEF ChanStates, SameWave, SameSweep
    <2> HIDE DEF f
    <2>4. f.EnvelopeCounter \in 1 .. 8
      BY <1>5, <2>3
    <2>5. /\ d \in ChanStates /\ d.EnvelopeCounter \in 1 .. 8
          /\ SameWave(f, d) /\ SameSweep(f, d)
          /\ d.IntervalClockDivider = f.IntervalClockDivider
          /\ d.EnvelopeClockDivider = f.EnvelopeClockDivider
          /\ d.IntervalCounter = f.IntervalCounter /\ d.playing = f.playing
          /\ d.EnvelopeCounter =
               IF ~ EnvControl.hi.enable THEN f.EnvelopeCounter
               ELSE IF f.EnvelopeCounter = 1 THEN EnvControl.lo.reload + 1
               ELSE f.EnvelopeCounter - 1
          /\ d.Envelope = IF EnvControl.hi.enable /\ f.EnvelopeCounter = 1
                          THEN NextLevel(f.Envelope) ELSE f.Envelope
      BY <2>1, <2>2, <2>4, EnvelopeTickIs
    <2> HIDE DEF d
    <2>6. d \in Notes
      BY <1>5, <2>3, <2>5 DEF Notes, Begun, SameWave
    <2>7. SameWave(b, d) /\ SameSweep(b, d) /\ (d.playing <=> b.playing /\ ~ RunsOut(b))
      BY <1>3, <1>5, <2>3, <2>5 DEF SameWave, SameSweep, RunsOut
    <2>8. FadeTicks(b)
      BY <1>3, <1>6, <1>8 DEF FadeTicks
    <2>9. TimersMoved(b, d)
      BY <1>2, <1>3, <1>5, <2>2, <2>3, <2>5, <2>8 DEF TimersMoved
    <2> QED BY <2>6, <2>7, <2>9 DEF d
  <1> QED BY <1>7, <1>8

LEMMA TimingIs ==
  ASSUME VsuSane, NEW c \in Notes
  PROVE  LET d == Timing(c) IN
         /\ d \in Notes /\ SameWave(c, d) /\ SameSweep(c, d) /\ TimersMoved(c, d)
         /\ d.playing <=> c.playing /\ ~ RunsOut(c)
  <1> DEFINE d == Timing(c)
  <1>1. c.IntervalClockDivider \in 1 .. Ticks /\ c \in ChanStates
    BY DEF Notes, ChanStates
  <1>2. CASE c.IntervalClockDivider > 1
    <2>1. d = [c EXCEPT !.IntervalClockDivider = @ - 1]
      BY <1>2 DEF Timing
    <2> HIDE DEF d
    <2>2. d \in ChanStates /\ d.IntervalClockDivider = c.IntervalClockDivider - 1
      <3>1. Ticks \in Int
        BY Parameters
      <3>2. c.IntervalClockDivider - 1 \in 1 .. Ticks
        BY <1>1, <1>2, <3>1
      <3> QED BY <1>1, <2>1, <3>2 DEF ChanStates
    <2>3. /\ SameWave(c, d) /\ SameSweep(c, d) /\ d.playing = c.playing
          /\ d.EnvelopeClockDivider = c.EnvelopeClockDivider
          /\ d.EnvelopeCounter = c.EnvelopeCounter /\ d.Envelope = c.Envelope
          /\ d.IntervalCounter = c.IntervalCounter
      BY <1>1, <2>1 DEF ChanStates, SameWave, SameSweep
    <2>4. d \in Notes
      BY <2>2, <2>3 DEF Notes, Begun, SameWave
    <2>5. ~ TimerTicks(c)
      BY <1>2 DEF TimerTicks
    <2> QED BY <2>2, <2>3, <2>4, <2>5 DEF d, TimersMoved, FadeTicks, RunsOut
  <1>3. CASE ~ (c.IntervalClockDivider > 1)
    <2>1. TimerTicks(c)
      BY <1>1, <1>3, Parameters DEF TimerTicks
    <2>2. d = IntervalTick([c EXCEPT !.IntervalClockDivider = Ticks])
      BY <1>3 DEF Timing
    <2> QED BY <2>1, <2>2, IntervalTickIs
  <1> QED BY <1>2, <1>3

-----------------------------------------------------------------------------
(* Sweep and modulation come every so many effect ticks; when they do, and *)
(* are on, the frequency changes when SweepModCounter has run down.        *)
SweepStep(c) ==
  IF channel # "sweep" THEN c
  ELSE IF c.SweepModClockDivider > 1
       THEN [c EXCEPT !.SweepModClockDivider = @ - 1]
       ELSE SweepTick(c)

SweepTicks(c) == channel = "sweep" /\ c.SweepModClockDivider = 1
SweepRuns(c)  == SweepTicks(c) /\ SweepControl.interval # 0 /\ EnvControl.hi.sweep
SweepDue(c)   == SweepRuns(c) /\ c.SweepModCounter <= 1
Bends(c)      == /\ SweepDue(c) /\ EnvControl.hi.modulate
                 /\ c.ModWavePos < ModLen \/ EnvControl.hi.modrepeat
Shifts(c)     == SweepDue(c) /\ ~ EnvControl.hi.modulate

BentFreq(c) == (Frequency + ModData[c.ModWavePos % ModLen]) % FreqTop

ShiftedFreq(c) ==
  IF SweepControl.up THEN c.EffFreq + c.EffFreq \div (2 ^ SweepControl.shift)
                     ELSE c.EffFreq - c.EffFreq \div (2 ^ SweepControl.shift)

TooHigh(c) == Shifts(c) /\ ShiftedFreq(c) >= FreqTop

SweepMoved(c, d) ==
  /\ d.SweepModClockDivider = IF SweepTicks(c) THEN SweepPeriod
                              ELSE IF channel = "sweep" THEN c.SweepModClockDivider - 1
                              ELSE c.SweepModClockDivider
  /\ d.SweepModCounter = IF SweepDue(c) THEN SweepControl.interval
                         ELSE IF SweepRuns(c) THEN c.SweepModCounter - 1
                         ELSE c.SweepModCounter
  /\ d.ModWavePos = IF Bends(c) THEN (c.ModWavePos % ModLen) + 1 ELSE c.ModWavePos
  /\ d.EffFreq = IF Bends(c) THEN BentFreq(c)
                 ELSE IF Shifts(c) /\ ~ TooHigh(c) THEN ShiftedFreq(c)
                 ELSE c.EffFreq

LEMMA FrequenciesAre ==
  ASSUME VsuSane, NEW c \in ChanStates
  PROVE  /\ BentFreq(c) \in 0 .. FreqTop - 1 /\ c.ModWavePos % ModLen \in 0 .. ModLen - 1
         /\ ShiftedFreq(c) \in Nat /\ (~ SweepControl.up => ShiftedFreq(c) < FreqTop)
  <1>1. /\ FreqTop \in Nat \ {0} /\ ModLen \in Nat \ {0} /\ c.ModWavePos \in Int
        /\ ModData \in [0 .. ModLen - 1 -> Int] /\ Frequency \in Int
        /\ c.EffFreq \in 0 .. FreqTop - 1
    <2>1. c.ModWavePos \in Int
      BY Parameters DEF ChanStates
    <2>2. c.EffFreq \in 0 .. FreqTop - 1
      BY DEF ChanStates
    <2> QED BY <2>1, <2>2, Parameters DEF VsuSane
  <1>2. c.ModWavePos % ModLen \in 0 .. ModLen - 1
    BY <1>1
  <1>3. ModData[c.ModWavePos % ModLen] \in Int
    BY <1>1, <1>2
  <1>4. BentFreq(c) \in 0 .. FreqTop - 1
    BY <1>1, <1>3, SMTT(60) DEF BentFreq
  <1>5. SweepControl.shift \in 0 .. 7 /\ SweepControl.up \in BOOLEAN
    BY DEF VsuSane, Sweep
  <1> DEFINE p == 2 ^ SweepControl.shift
  <1>6. p \in Nat \ {0}
    BY <1>5, Powers
  <1> HIDE DEF p
  <1>7. c.EffFreq \div p \in 0 .. c.EffFreq
    BY <1>1, <1>6, QuotientIs
  <1>8. ShiftedFreq(c) = IF SweepControl.up THEN c.EffFreq + c.EffFreq \div p
                                            ELSE c.EffFreq - c.EffFreq \div p
    BY DEF ShiftedFreq, p
  <1>9. ShiftedFreq(c) \in Nat /\ (~ SweepControl.up => ShiftedFreq(c) < FreqTop)
    BY <1>1, <1>5, <1>7, <1>8
  <1> QED BY <1>2, <1>4, <1>9

LEMMA SweepPeriodIs ==
  ASSUME VsuSane
  PROVE  SweepPeriod \in 1 .. SlowSweep
  BY Parameters DEF VsuSane, Sweep, SweepPeriod

LEMMA SweepTickIs ==
  ASSUME VsuSane, NEW c \in ChanStates, SweepTicks(c)
  PROVE  LET d == SweepTick(c) IN
         /\ d \in ChanStates /\ SameWave(c, d) /\ SameTimers(c, d) /\ SweepMoved(c, d)
         /\ d.playing <=> c.playing /\ ~ TooHigh(c)
  <1> DEFINE d       == SweepTick(c)
             p       == SweepPeriod
             ticked  == [c EXCEPT !.SweepModClockDivider = p]
             counter == IF c.SweepModCounter > 0 THEN c.SweepModCounter - 1 ELSE 0
             i       == SweepControl.interval
             due     == [ticked EXCEPT !.SweepModCounter = i]
  <1>1. /\ c.SweepModCounter \in 0 .. 7 /\ i \in 0 .. 7 /\ counter \in 0 .. 7
        /\ p \in 1 .. SlowSweep
    BY SweepPeriodIs DEF VsuSane, Sweep, ChanStates
  <1> HIDE DEF p, i
  <1>2. /\ ticked \in ChanStates /\ ticked.SweepModClockDivider = p
        /\ SameWave(c, ticked) /\ SameTimers(c, ticked)
        /\ ticked.SweepModCounter = c.SweepModCounter /\ ticked.EffFreq = c.EffFreq
        /\ ticked.ModWavePos = c.ModWavePos /\ ticked.playing = c.playing
    BY <1>1 DEF ChanStates, SameWave, SameTimers
  <1>3. SweepRuns(c) <=> i # 0 /\ EnvControl.hi.sweep
    BY DEF SweepRuns, i
  <1>4. CASE ~ SweepRuns(c)
    <2>1. d = ticked
      BY <1>3, <1>4 DEF SweepTick, p, i
    <2> QED BY <1>2, <1>4, <2>1
          DEF SweepMoved, Bends, Shifts, SweepDue, TooHigh, SweepTicks, p
  <1>5. CASE SweepRuns(c) /\ counter > 0
    <2>1. d = [ticked EXCEPT !.SweepModCounter = counter]
      BY <1>3, <1>5 DEF SweepTick, p, i
    <2>2. ~ SweepDue(c) /\ counter = c.SweepModCounter - 1
      BY <1>1, <1>5 DEF SweepDue
    <2> HIDE DEF d, ticked, counter
    <2>3. d \in ChanStates /\ d.SweepModCounter = counter
      BY <1>1, <1>2, <2>1 DEF ChanStates
    <2>4. /\ SameWave(ticked, d) /\ SameTimers(ticked, d) /\ d.playing = ticked.playing
          /\ d.SweepModClockDivider = ticked.SweepModClockDivider
          /\ d.EffFreq = ticked.EffFreq /\ d.ModWavePos = ticked.ModWavePos
      BY <1>2, <2>1 DEF ChanStates, SameWave, SameTimers
    <2>5. SameWave(c, d) /\ SameTimers(c, d) /\ (d.playing <=> c.playing /\ ~ TooHigh(c))
      BY <1>2, <2>2, <2>4 DEF SameWave, SameTimers, TooHigh, Shifts
    <2>6. SweepMoved(c, d)
      BY <1>2, <1>5, <2>2, <2>3, <2>4 DEF SweepMoved, Bends, Shifts, SweepTicks, p
    <2> QED BY <2>3, <2>5, <2>6 DEF d
  <1>6. CASE SweepRuns(c) /\ ~ (counter > 0)
    <2>1. d = IF EnvControl.hi.modulate THEN Modulated(due) ELSE Swept(due)
      BY <1>3, <1>6 DEF SweepTick, p, i
    <2>2. SweepDue(c)
      BY <1>1, <1>6 DEF SweepDue
    <2>3. /\ due \in ChanStates /\ due.SweepModClockDivider = p /\ due.SweepModCounter = i
          /\ SameWave(c, due) /\ SameTimers(c, due) /\ due.playing = c.playing
          /\ due.EffFreq = c.EffFreq /\ due.ModWavePos = c.ModWavePos
      <3> HIDE DEF ticked
      <3>1. /\ due \in ChanStates /\ due.SweepModCounter = i
            /\ SameWave(ticked, due) /\ SameTimers(ticked, due)
            /\ due.playing = ticked.playing
            /\ due.SweepModClockDivider = ticked.SweepModClockDivider
            /\ due.EffFreq = ticked.EffFreq /\ due.ModWavePos = ticked.ModWavePos
        BY <1>1, <1>2 DEF ChanStates, SameWave, SameTimers
      <3> QED BY <1>2, <3>1 DEF SameWave, SameTimers
    <2> HIDE DEF d, due, ticked, counter
    <2>4. /\ BentFreq(c) \in 0 .. FreqTop - 1 /\ c.ModWavePos % ModLen \in 0 .. ModLen - 1
          /\ ShiftedFreq(c) \in Nat /\ FreqTop \in Nat /\ ModLen \in Nat
      BY FrequenciesAre, Parameters
    <2>5. CASE EnvControl.hi.modulate
      <3>1. ~ Shifts(c) /\ ~ TooHigh(c)
        BY <2>5 DEF Shifts, TooHigh
      <3>2. CASE Bends(c)
        <4> DEFINE v == BentFreq(c)   w == (c.ModWavePos % ModLen) + 1
        <4>1. d = [due EXCEPT !.EffFreq = v, !.ModWavePos = w]
          BY <2>1, <2>3, <2>5, <3>2 DEF Modulated, Bends, BentFreq
        <4>2. v \in 0 .. FreqTop - 1 /\ w \in 0 .. ModLen
          BY <2>4
        <4> HIDE DEF v, w
        <4>3. d \in ChanStates /\ d.EffFreq = v /\ d.ModWavePos = w
          BY <2>3, <4>1, <4>2 DEF ChanStates
        <4>4. /\ SameWave(due, d) /\ SameTimers(due, d) /\ d.playing = due.playing
              /\ d.SweepModClockDivider = due.SweepModClockDivider
              /\ d.SweepModCounter = due.SweepModCounter
          BY <2>3, <4>1 DEF ChanStates, SameWave, SameTimers
        <4>5. SweepMoved(c, d)
          BY <2>2, <2>3, <3>2, <4>3, <4>4 DEF SweepMoved, SweepTicks, p, i, v, w
        <4> QED BY <2>3, <3>1, <4>3, <4>4, <4>5 DEF SameWave, SameTimers, d
      <3>3. CASE ~ Bends(c)
        <4>1. d = due
          BY <2>1, <2>2, <2>3, <2>5, <3>3 DEF Modulated, Bends
        <4>2. SweepMoved(c, d)
          BY <2>2, <2>3, <3>1, <3>3, <4>1 DEF SweepMoved, SweepTicks, p, i
        <4> QED BY <2>3, <3>1, <4>1, <4>2 DEF d
      <3> QED BY <3>2, <3>3
    <2>6. CASE ~ EnvControl.hi.modulate
      <3>1. Shifts(c) /\ ~ Bends(c)
        BY <2>2, <2>6 DEF Shifts, Bends
      <3> DEFINE v == ShiftedFreq(c)
      <3>2. d = IF v >= FreqTop THEN [due EXCEPT !.playing = FALSE]
                                ELSE [due EXCEPT !.EffFreq = v]
        BY <2>1, <2>3, <2>6 DEF Swept, ShiftedFreq
      <3>3. TooHigh(c) <=> v >= FreqTop
        BY <3>1 DEF TooHigh
      <3>4. v \in Nat
        BY <2>4
      <3> HIDE DEF v
      <3>5. CASE v >= FreqTop
        <4>1. d = [due EXCEPT !.playing = FALSE]
          BY <3>2, <3>5
        <4>2. /\ d \in ChanStates /\ d.playing = FALSE /\ SameWave(due, d)
              /\ SameTimers(due, d) /\ SameSweep(due, d)
          BY <2>3, <4>1 DEF ChanStates, SameWave, SameTimers, SameSweep
        <4>3. SweepMoved(c, d)
          BY <2>2, <2>3, <3>1, <3>3, <3>5, <4>2 DEF SweepMoved, SweepTicks, SameSweep, p, i
        <4> QED BY <2>3, <3>3, <3>5, <4>2, <4>3 DEF SameWave, SameTimers, d
      <3>6. CASE ~ (v >= FreqTop)
        <4>1. d = [due EXCEPT !.EffFreq = v]
          BY <3>2, <3>6
        <4>2. v \in 0 .. FreqTop - 1
          BY <2>4, <3>4, <3>6
        <4>3. /\ d \in ChanStates /\ d.EffFreq = v /\ SameWave(due, d)
              /\ SameTimers(due, d) /\ d.playing = due.playing
              /\ d.SweepModClockDivider = due.SweepModClockDivider
              /\ d.SweepModCounter = due.SweepModCounter
              /\ d.ModWavePos = due.ModWavePos
          BY <2>3, <4>1, <4>2 DEF ChanStates, SameWave, SameTimers
        <4>4. SweepMoved(c, d)
          BY <2>2, <2>3, <3>1, <3>3, <3>6, <4>3 DEF SweepMoved, SweepTicks, p, i, v
        <4> QED BY <2>3, <3>3, <3>6, <4>3, <4>4 DEF SameWave, SameTimers, d
      <3> QED BY <3>5, <3>6
    <2> QED BY <2>5, <2>6
  <1> QED BY <1>4, <1>5, <1>6

LEMMA SweepStepIs ==
  ASSUME VsuSane, NEW c \in Notes
  PROVE  LET d == SweepStep(c) IN
         /\ d \in Notes /\ SameWave(c, d) /\ SameTimers(c, d) /\ SweepMoved(c, d)
         /\ d.playing <=> c.playing /\ ~ TooHigh(c)
  <1> DEFINE d == SweepStep(c)
  <1>1. c \in ChanStates /\ Begun(c) /\ c.SweepModClockDivider \in 1 .. SlowSweep
    BY DEF Notes, ChanStates
  <1>2. SUFFICES /\ d \in ChanStates /\ SameWave(c, d) /\ SameTimers(c, d)
                 /\ SweepMoved(c, d)
                 /\ d.playing <=> c.playing /\ ~ TooHigh(c)
    <2> HIDE DEF d
    <2> QED BY <1>1, <1>2 DEF Notes, Begun, SameWave, SameTimers, d
  <1>3. CASE channel # "sweep"
    BY <1>1, <1>3 DEF SweepStep, SweepMoved, Bends, Shifts, SweepDue, SweepRuns,
                      SweepTicks, TooHigh, SameWave, SameTimers
  <1>4. CASE channel = "sweep" /\ c.SweepModClockDivider > 1
    <2>1. d = [c EXCEPT !.SweepModClockDivider = @ - 1]
      BY <1>4 DEF SweepStep
    <2> HIDE DEF d
    <2>2. d \in ChanStates /\ d.SweepModClockDivider = c.SweepModClockDivider - 1
      <3>1. c.SweepModClockDivider - 1 \in 1 .. SlowSweep
        <4>1. SlowSweep \in Int
          BY Parameters
        <4> QED BY <1>1, <1>4, <4>1
      <3> QED BY <1>1, <2>1, <3>1 DEF ChanStates
    <2>3. /\ SameWave(c, d) /\ SameTimers(c, d) /\ d.playing = c.playing
          /\ d.SweepModCounter = c.SweepModCounter /\ d.ModWavePos = c.ModWavePos
          /\ d.EffFreq = c.EffFreq
      BY <1>1, <2>1 DEF ChanStates, SameWave, SameTimers
    <2>4. ~ SweepTicks(c)
      BY <1>4 DEF SweepTicks
    <2> QED BY <1>4, <2>2, <2>3, <2>4
          DEF d, SweepMoved, Bends, Shifts, SweepDue, SweepRuns, TooHigh
  <1>5. CASE channel = "sweep" /\ ~ (c.SweepModClockDivider > 1)
    <2>1. SweepTicks(c)
      BY <1>1, <1>5, Parameters DEF SweepTicks
    <2>2. d = SweepTick(c)
      BY <1>5 DEF SweepStep
    <2> QED BY <1>1, <2>1, <2>2, SweepTickIs
  <1> QED BY <1>3, <1>4, <1>5

(* What an effect tick does: the timers, and with the frequency they leave *)
(* alone the sweep.                                                        *)
LEMMA EffectsTickIs ==
  ASSUME VsuSane, NEW c \in Notes
  PROVE  LET d == EffectsTick(c) IN
         /\ d \in Notes /\ SameWave(c, d) /\ TimersMoved(c, d) /\ SweepMoved(c, d)
         /\ d.playing <=> c.playing /\ ~ RunsOut(c) /\ ~ TooHigh(c)
  <1> DEFINE d == EffectsTick(c)   t == Timing(c)
  <1>1. /\ t \in Notes /\ SameWave(c, t) /\ SameSweep(c, t) /\ TimersMoved(c, t)
        /\ t.playing <=> c.playing /\ ~ RunsOut(c)
    BY TimingIs
  <1>2. d = SweepStep(t)
    <2>1. t.SweepModClockDivider = c.SweepModClockDivider
      BY <1>1 DEF SameSweep
    <2> QED BY <2>1 DEF EffectsTick, SweepStep, Timing
  <1> HIDE DEF d, t
  <1>3. /\ d \in Notes /\ SameWave(t, d) /\ SameTimers(t, d) /\ SweepMoved(t, d)
        /\ d.playing <=> t.playing /\ ~ TooHigh(t)
    BY <1>1, <1>2, SweepStepIs
  <1>4. /\ SweepTicks(t) <=> SweepTicks(c)
        /\ SweepRuns(t) <=> SweepRuns(c)
        /\ SweepDue(t) <=> SweepDue(c)
        /\ Bends(t) <=> Bends(c)
        /\ Shifts(t) <=> Shifts(c)
        /\ TooHigh(t) <=> TooHigh(c)
        /\ BentFreq(t) = BentFreq(c) /\ ShiftedFreq(t) = ShiftedFreq(c)
    BY <1>1 DEF SameSweep, SweepTicks, SweepRuns, SweepDue, Bends, Shifts, TooHigh,
                BentFreq, ShiftedFreq
  <1>5. SweepMoved(c, d)
    BY <1>1, <1>3, <1>4 DEF SweepMoved, SameSweep
  <1>6. SameWave(c, d)
    BY <1>1, <1>3 DEF SameWave
  <1>7. TimersMoved(c, d)
    BY <1>1, <1>3 DEF TimersMoved, SameTimers
  <1> QED BY <1>1, <1>3, <1>4, <1>5, <1>6, <1>7 DEF d

-----------------------------------------------------------------------------
(* A channel that has played on for n clocks, written out. *)
WavePlayed(c, n, effects) ==
  [playing |-> c.playing, EffFreq |-> c.EffFreq, Envelope |-> c.Envelope,
   WavePos |-> (c.WavePos + Expiries(c.FreqCounter - n, Period(c.EffFreq))) % WaveLen,
   FreqCounter |-> Reload(c.FreqCounter - n, Period(c.EffFreq)),
   LatcherClockDivider |-> Reload(c.LatcherClockDivider - n, LatchClocks),
   NoiseLatcherClockDivider |->
     IF channel # "noise" THEN c.NoiseLatcherClockDivider
     ELSE IF c.NoiseLatcherClockDivider = n THEN LatchClocks
     ELSE c.NoiseLatcherClockDivider - n,
   NoiseLatcher |->
     IF channel = "noise" /\ c.NoiseLatcherClockDivider = n
     THEN (c.WavePos + Expiries(c.FreqCounter - n, Period(c.EffFreq))) % WaveLen
     ELSE c.NoiseLatcher,
   EffectsClockDivider |-> effects,
   IntervalClockDivider |-> c.IntervalClockDivider,
   EnvelopeClockDivider |-> c.EnvelopeClockDivider,
   IntervalCounter |-> c.IntervalCounter, EnvelopeCounter |-> c.EnvelopeCounter,
   SweepModClockDivider |-> c.SweepModClockDivider,
   SweepModCounter |-> c.SweepModCounter, ModWavePos |-> c.ModWavePos]

LEMMA PlayedIs ==
  ASSUME NEW c \in ChanStates, NEW n, NEW effects
  PROVE  /\ [Played(c, n) EXCEPT !.EffectsClockDivider = effects] = WavePlayed(c, n, effects)
         /\ Played(c, n).EffectsClockDivider = c.EffectsClockDivider
  <1> DEFINE a == (c.WavePos + Expiries(c.FreqCounter - n, Period(c.EffFreq))) % WaveLen
             b == Reload(c.FreqCounter - n, Period(c.EffFreq))
             x == Reload(c.LatcherClockDivider - n, LatchClocks)
             y == IF channel # "noise" THEN c.NoiseLatcherClockDivider
                  ELSE IF channel = "noise" /\ c.NoiseLatcherClockDivider = n
                       THEN LatchClocks ELSE c.NoiseLatcherClockDivider - n
             z == IF channel = "noise" /\ c.NoiseLatcherClockDivider = n
                  THEN a ELSE c.NoiseLatcher
  <1>1. Played(c, n) = [c EXCEPT !.FreqCounter = b, !.WavePos = a,
                                 !.LatcherClockDivider = x,
                                 !.NoiseLatcherClockDivider = y, !.NoiseLatcher = z]
    BY DEF Played
  <1>2. y = IF channel # "noise" THEN c.NoiseLatcherClockDivider
            ELSE IF c.NoiseLatcherClockDivider = n THEN LatchClocks
            ELSE c.NoiseLatcherClockDivider - n
    OBVIOUS
  <1>3. WavePlayed(c, n, effects) =
          [playing |-> c.playing, EffFreq |-> c.EffFreq, Envelope |-> c.Envelope,
           WavePos |-> a, FreqCounter |-> b, LatcherClockDivider |-> x,
           NoiseLatcherClockDivider |-> y, NoiseLatcher |-> z,
           EffectsClockDivider |-> effects,
           IntervalClockDivider |-> c.IntervalClockDivider,
           EnvelopeClockDivider |-> c.EnvelopeClockDivider,
           IntervalCounter |-> c.IntervalCounter, EnvelopeCounter |-> c.EnvelopeCounter,
           SweepModClockDivider |-> c.SweepModClockDivider,
           SweepModCounter |-> c.SweepModCounter, ModWavePos |-> c.ModWavePos]
    BY <1>2 DEF WavePlayed
  <1> HIDE DEF a, b, x, y, z
  <1>4. [[c EXCEPT !.FreqCounter = b, !.WavePos = a, !.LatcherClockDivider = x,
                   !.NoiseLatcherClockDivider = y, !.NoiseLatcher = z]
          EXCEPT !.EffectsClockDivider = effects]
        = [playing |-> c.playing, EffFreq |-> c.EffFreq, Envelope |-> c.Envelope,
           WavePos |-> a, FreqCounter |-> b, LatcherClockDivider |-> x,
           NoiseLatcherClockDivider |-> y, NoiseLatcher |-> z,
           EffectsClockDivider |-> effects,
           IntervalClockDivider |-> c.IntervalClockDivider,
           EnvelopeClockDivider |-> c.EnvelopeClockDivider,
           IntervalCounter |-> c.IntervalCounter, EnvelopeCounter |-> c.EnvelopeCounter,
           SweepModClockDivider |-> c.SweepModClockDivider,
           SweepModCounter |-> c.SweepModCounter, ModWavePos |-> c.ModWavePos]
    <2> DEFINE r(w, p, q, s, t, u) ==
          [playing |-> c.playing, EffFreq |-> c.EffFreq, Envelope |-> c.Envelope,
           WavePos |-> w, FreqCounter |-> p, LatcherClockDivider |-> q,
           NoiseLatcherClockDivider |-> s, NoiseLatcher |-> t,
           EffectsClockDivider |-> u,
           IntervalClockDivider |-> c.IntervalClockDivider,
           EnvelopeClockDivider |-> c.EnvelopeClockDivider,
           IntervalCounter |-> c.IntervalCounter, EnvelopeCounter |-> c.EnvelopeCounter,
           SweepModClockDivider |-> c.SweepModClockDivider,
           SweepModCounter |-> c.SweepModCounter, ModWavePos |-> c.ModWavePos]
    <2>1. c = r(c.WavePos, c.FreqCounter, c.LatcherClockDivider,
                c.NoiseLatcherClockDivider, c.NoiseLatcher, c.EffectsClockDivider)
      BY DEF ChanStates
    <2>2. [c EXCEPT !.FreqCounter = b, !.WavePos = a, !.LatcherClockDivider = x,
                    !.NoiseLatcherClockDivider = y, !.NoiseLatcher = z]
            = r(a, b, x, y, z, c.EffectsClockDivider)
      <3> DEFINE k0 == r(c.WavePos, c.FreqCounter, c.LatcherClockDivider,
                         c.NoiseLatcherClockDivider, c.NoiseLatcher, c.EffectsClockDivider)
                 k1 == [k0 EXCEPT !.FreqCounter = b]
                 k2 == [k1 EXCEPT !.WavePos = a]
                 k3 == [k2 EXCEPT !.LatcherClockDivider = x]
                 k4 == [k3 EXCEPT !.NoiseLatcherClockDivider = y]
                 k5 == [k4 EXCEPT !.NoiseLatcher = z]
      <3>1. k1 = r(c.WavePos, b, c.LatcherClockDivider,
                   c.NoiseLatcherClockDivider, c.NoiseLatcher, c.EffectsClockDivider)
        OBVIOUS
      <3> HIDE DEF k1
      <3>2. k2 = r(a, b, c.LatcherClockDivider,
                   c.NoiseLatcherClockDivider, c.NoiseLatcher, c.EffectsClockDivider)
        BY <3>1
      <3> HIDE DEF k2
      <3>3. k3 = r(a, b, x, c.NoiseLatcherClockDivider, c.NoiseLatcher,
                   c.EffectsClockDivider)
        BY <3>2
      <3> HIDE DEF k3
      <3>4. k4 = r(a, b, x, y, c.NoiseLatcher, c.EffectsClockDivider)
        BY <3>3
      <3> HIDE DEF k4
      <3>5. k5 = r(a, b, x, y, z, c.EffectsClockDivider)
        BY <3>4
      <3>6. c = k0
        BY <2>1
      <3> HIDE DEF k0, r
      <3> QED BY <3>5, <3>6 DEF k1, k2, k3, k4, k5
    <2>3. [r(a, b, x, y, z, c.EffectsClockDivider) EXCEPT !.EffectsClockDivider = effects]
            = r(a, b, x, y, z, effects)
      OBVIOUS
    <2> QED BY <2>2, <2>3
  <1>5. Played(c, n).EffectsClockDivider = c.EffectsClockDivider
    BY <1>1 DEF ChanStates
  <1> QED BY <1>1, <1>3, <1>4, <1>5

(* n clocks that a chunk may take. *)
Fits(c, n) ==
  /\ n \in Nat \ {0} /\ n <= c.EffectsClockDivider
  /\ channel = "noise" => n <= c.NoiseLatcherClockDivider

LEMMA ChunkPlayedIs ==
  ASSUME NEW c \in ChanStates, NEW n
  PROVE  ChunkPlayed(c, n) = IF c.EffectsClockDivider > n
                             THEN WavePlayed(c, n, c.EffectsClockDivider - n)
                             ELSE EffectsTick(WavePlayed(c, n, EffectClocks))
  <1> DEFINE p == Played(c, n)   e == c.EffectsClockDivider - n
  <1>1. /\ [p EXCEPT !.EffectsClockDivider = e] = WavePlayed(c, n, e)
        /\ [p EXCEPT !.EffectsClockDivider = EffectClocks] = WavePlayed(c, n, EffectClocks)
        /\ p.EffectsClockDivider = c.EffectsClockDivider
    BY PlayedIs
  <1>2. ChunkPlayed(c, n) = IF c.EffectsClockDivider > n
                            THEN [p EXCEPT !.EffectsClockDivider = p.EffectsClockDivider - n]
                            ELSE EffectsTick([p EXCEPT !.EffectsClockDivider = EffectClocks])
    BY DEF ChunkPlayed
  <1> HIDE DEF p
  <1> QED BY <1>1, <1>2 DEF e

LEMMA WavePlayedIn ==
  ASSUME VsuSane, NEW c \in Notes, NEW n, Fits(c, n), NEW effects \in 1 .. EffectClocks
  PROVE  WavePlayed(c, n, effects) \in Notes
  <1> DEFINE p   == Period(c.EffFreq)
             a   == (c.WavePos + Expiries(c.FreqCounter - n, p)) % WaveLen
             b   == Reload(c.FreqCounter - n, p)
             x   == Reload(c.LatcherClockDivider - n, LatchClocks)
             y   == IF channel # "noise" THEN c.NoiseLatcherClockDivider
                    ELSE IF c.NoiseLatcherClockDivider = n THEN LatchClocks
                    ELSE c.NoiseLatcherClockDivider - n
             z   == IF channel = "noise" /\ c.NoiseLatcherClockDivider = n
                    THEN a ELSE c.NoiseLatcher
             w   == WavePlayed(c, n, effects)
  <1>1. c \in ChanStates /\ Begun(c) /\ n \in Nat \ {0}
    BY DEF Notes, Fits
  <1>2. p \in 1 .. Period(0) /\ p \in Nat \ {0} /\ Period(0) \in Int
    <2>1. c.EffFreq \in 0 .. FreqTop - 1
      BY <1>1 DEF ChanStates
    <2> QED BY <2>1, PeriodIs
  <1> HIDE DEF p
  <1>3. c.FreqCounter \in 1 .. Period(0) /\ c.FreqCounter - n \in Int
    BY <1>1, <1>2 DEF Begun
  <1>4. b \in 1 .. Period(0) /\ Expiries(c.FreqCounter - n, p) \in Nat
    <2> DEFINE l == c.FreqCounter - n
    <2>1. l \in Int /\ l < Period(0)
      BY <1>1, <1>2, <1>3
    <2> HIDE DEF l
    <2>2. /\ Expiries(l, p) \in Nat /\ Reload(l, p) \in Nat \ {0}
          /\ l > 0 => Reload(l, p) = l
          /\ ~ (l > 0) => Reload(l, p) <= p
      BY <1>2, <2>1, ReloadFacts
    <2>3. Reload(l, p) \in 1 .. Period(0)
      BY <1>2, <2>1, <2>2
    <2> QED BY <2>2, <2>3 DEF l
  <1>5. a \in 0 .. WaveLen - 1
    <2>1. c.WavePos \in 0 .. WaveLen - 1
      BY <1>1 DEF ChanStates
    <2> QED BY <1>4, <2>1, Parameters, SMTT(60)
  <1>6. x \in 1 .. LatchClocks
    <2> DEFINE l == c.LatcherClockDivider - n
    <2>1. c.LatcherClockDivider \in 1 .. LatchClocks /\ LatchClocks \in Nat \ {0}
      BY <1>1, Parameters DEF ChanStates
    <2>2. l \in Int /\ l < LatchClocks
      BY <1>1, <2>1
    <2> HIDE DEF l
    <2>3. /\ Reload(l, LatchClocks) \in Nat \ {0}
          /\ l > 0 => Reload(l, LatchClocks) = l
          /\ ~ (l > 0) => Reload(l, LatchClocks) <= LatchClocks
      BY <2>1, <2>2, ReloadFacts
    <2>4. Reload(l, LatchClocks) \in 1 .. LatchClocks
      BY <2>1, <2>2, <2>3
    <2> QED BY <2>4 DEF l
  <1>7. y \in 1 .. LatchClocks
    <2>1. c.NoiseLatcherClockDivider \in 1 .. LatchClocks /\ LatchClocks \in Nat \ {0}
      BY <1>1, Parameters DEF ChanStates
    <2>2. channel = "noise" => n <= c.NoiseLatcherClockDivider
      BY DEF Fits
    <2> QED BY <1>1, <2>1, <2>2
  <1>8. z \in 0 .. WaveLen - 1
    <2>1. c.NoiseLatcher \in 0 .. WaveLen - 1
      BY <1>1 DEF ChanStates
    <2> HIDE DEF a
    <2> QED BY <1>5, <2>1
  <1>9. w = [playing |-> c.playing, EffFreq |-> c.EffFreq, Envelope |-> c.Envelope,
           WavePos |-> a, FreqCounter |-> b, LatcherClockDivider |-> x,
           NoiseLatcherClockDivider |-> y, NoiseLatcher |-> z,
           EffectsClockDivider |-> effects,
           IntervalClockDivider |-> c.IntervalClockDivider,
           EnvelopeClockDivider |-> c.EnvelopeClockDivider,
           IntervalCounter |-> c.IntervalCounter, EnvelopeCounter |-> c.EnvelopeCounter,
           SweepModClockDivider |-> c.SweepModClockDivider,
           SweepModCounter |-> c.SweepModCounter, ModWavePos |-> c.ModWavePos]
    BY DEF WavePlayed, p
  <1> HIDE DEF a, b, x, y, z, w
  <1>10. b \in Int
    BY <1>2, <1>4
  <1>11. w \in ChanStates
    BY <1>1, <1>5, <1>6, <1>7, <1>8, <1>9, <1>10 DEF ChanStates
  <1>12. Begun(w)
    BY <1>1, <1>4, <1>9 DEF Begun
  <1> QED BY <1>11, <1>12 DEF Notes, w

(* A chunk leaves a note a note. *)
LEMMA ChunkPlayedIn ==
  ASSUME VsuSane, NEW c \in Notes, NEW n, Fits(c, n)
  PROVE  ChunkPlayed(c, n) \in Notes
  <1>1. /\ c \in ChanStates /\ c.EffectsClockDivider \in 1 .. EffectClocks
        /\ EffectClocks \in Nat \ {0} /\ n \in Nat \ {0}
    BY Parameters DEF Notes, ChanStates, Fits
  <1>2. CASE c.EffectsClockDivider > n
    <2>1. c.EffectsClockDivider - n \in 1 .. EffectClocks
      BY <1>1, <1>2
    <2> QED BY <1>1, <1>2, <2>1, ChunkPlayedIs, WavePlayedIn
  <1>3. CASE ~ (c.EffectsClockDivider > n)
    <2>1. EffectClocks \in 1 .. EffectClocks
      BY <1>1
    <2>2. WavePlayed(c, n, EffectClocks) \in Notes
      BY <2>1, WavePlayedIn
    <2> QED BY <1>1, <1>3, <2>2, ChunkPlayedIs, EffectsTickIs
  <1> QED BY <1>2, <1>3

-----------------------------------------------------------------------------
(* A chunk of n clocks is a chunk of one and a chunk of the rest. *)
LEMMA WaveAgain ==
  ASSUME VsuSane, NEW c \in Notes, NEW n, Fits(c, n), n > 1,
         NEW first, NEW effects
  PROVE  WavePlayed(WavePlayed(c, 1, first), n - 1, effects) = WavePlayed(c, n, effects)
  <1> DEFINE u == WavePlayed(c, 1, first)
             p == Period(c.EffFreq)
             f == c.FreqCounter - 1
             l == c.LatcherClockDivider - 1
             k == n - 1
  <1>1. c \in ChanStates /\ n \in Nat /\ k \in Nat
    BY DEF Notes, Fits
  <1>2. /\ c.FreqCounter \in Int /\ c.LatcherClockDivider \in Int
        /\ c.NoiseLatcherClockDivider \in Int /\ c.WavePos \in Int
        /\ LatchClocks \in Nat \ {0} /\ WaveLen \in Nat \ {0}
    BY <1>1, Parameters DEF ChanStates
  <1>3. p \in Nat \ {0}
    <2>1. c.EffFreq \in 0 .. FreqTop - 1
      BY <1>1 DEF ChanStates
    <2> QED BY <2>1, PeriodIs
  <1>4. f \in Int /\ l \in Int /\ f - k = c.FreqCounter - n /\ l - k = c.LatcherClockDivider - n
    BY <1>1, <1>2
  <1>5. /\ u.WavePos = (c.WavePos + Expiries(f, p)) % WaveLen
        /\ u.FreqCounter = Reload(f, p)
        /\ u.LatcherClockDivider = Reload(l, LatchClocks)
        /\ u.NoiseLatcherClockDivider =
             IF channel # "noise" THEN c.NoiseLatcherClockDivider
             ELSE IF c.NoiseLatcherClockDivider = 1 THEN LatchClocks
             ELSE c.NoiseLatcherClockDivider - 1
        /\ u.NoiseLatcher = IF channel = "noise" /\ c.NoiseLatcherClockDivider = 1
                            THEN u.WavePos ELSE c.NoiseLatcher
        /\ u.playing = c.playing /\ u.EffFreq = c.EffFreq /\ u.Envelope = c.Envelope
        /\ u.IntervalClockDivider = c.IntervalClockDivider
        /\ u.EnvelopeClockDivider = c.EnvelopeClockDivider
        /\ u.IntervalCounter = c.IntervalCounter /\ u.EnvelopeCounter = c.EnvelopeCounter
        /\ u.SweepModClockDivider = c.SweepModClockDivider
        /\ u.SweepModCounter = c.SweepModCounter /\ u.ModWavePos = c.ModWavePos
    BY DEF WavePlayed
  <1> HIDE DEF u, p, f, l, k
  <1>6. /\ Reload(u.FreqCounter - k, p) = Reload(c.FreqCounter - n, p)
        /\ Expiries(c.FreqCounter - n, p) = Expiries(f, p) + Expiries(u.FreqCounter - k, p)
    <2>1. /\ Reload(Reload(f, p) - k, p) = Reload(f - k, p)
          /\ Expiries(f - k, p) = Expiries(f, p) + Expiries(Reload(f, p) - k, p)
      BY <1>1, <1>3, <1>4, ReloadAgain
    <2>2. u.FreqCounter = Reload(f, p) /\ f - k = c.FreqCounter - n
      BY <1>4, <1>5
    <2> QED BY <2>1, <2>2
  <1>7. Reload(u.LatcherClockDivider - k, LatchClocks)
          = Reload(c.LatcherClockDivider - n, LatchClocks)
    BY <1>1, <1>2, <1>4, <1>5, ReloadAgain
  <1>8. (u.WavePos + Expiries(u.FreqCounter - k, p)) % WaveLen
          = (c.WavePos + Expiries(c.FreqCounter - n, p)) % WaveLen
    <2> DEFINE x == Expiries(f, p)   y == Expiries(u.FreqCounter - k, p)
    <2>1. x \in Nat /\ y \in Nat
      <3>1. u.FreqCounter \in Nat
        <4>1. Reload(f, p) \in Nat \ {0}
          BY <1>3, <1>4, ReloadFacts
        <4> QED BY <1>5, <4>1
      <3>2. u.FreqCounter - k \in Int
        BY <1>1, <3>1
      <3> QED BY <1>3, <1>4, <3>2, ReloadFacts
    <2> HIDE DEF x, y
    <2>2. c.WavePos + x \in Int
      BY <1>2, <2>1
    <2>3. (((c.WavePos + x) % WaveLen) + y) % WaveLen = ((c.WavePos + x) + y) % WaveLen
      BY <1>2, <2>1, <2>2, ModAgain
    <2>4. (c.WavePos + x) + y = c.WavePos + (x + y)
      BY <1>2, <2>1
    <2>5. Expiries(c.FreqCounter - n, p) = x + y
      BY <1>6 DEF x, y
    <2>6. u.WavePos = (c.WavePos + x) % WaveLen
      BY <1>5 DEF x
    <2> QED BY <2>3, <2>4, <2>5, <2>6 DEF y
  <1>9. CASE channel # "noise"
    <2>1. u.NoiseLatcherClockDivider = c.NoiseLatcherClockDivider
          /\ u.NoiseLatcher = c.NoiseLatcher
      BY <1>5, <1>9
    <2>2. WavePlayed(u, k, effects) = WavePlayed(c, n, effects)
      BY <1>5, <1>6, <1>7, <1>8, <1>9, <2>1 DEF WavePlayed, p
    <2> QED BY <2>2 DEF u, k
  <1>10. CASE channel = "noise"
    <2> DEFINE a == (c.WavePos + Expiries(c.FreqCounter - n, p)) % WaveLen
               y(c1, n1) == IF c1.NoiseLatcherClockDivider = n1 THEN LatchClocks
                            ELSE c1.NoiseLatcherClockDivider - n1
               z(c1, n1) == IF c1.NoiseLatcherClockDivider = n1 THEN a ELSE c1.NoiseLatcher
    <2>1. c.NoiseLatcherClockDivider >= n
      BY <1>2, <1>10 DEF Fits
    <2>2. u.NoiseLatcherClockDivider = c.NoiseLatcherClockDivider - 1
          /\ u.NoiseLatcher = c.NoiseLatcher
      BY <1>1, <1>2, <1>5, <1>10, <2>1
    <2>3. (u.NoiseLatcherClockDivider = k) <=> (c.NoiseLatcherClockDivider = n)
      BY <1>1, <1>2, <2>2 DEF k
    <2>4. u.NoiseLatcherClockDivider - k = c.NoiseLatcherClockDivider - n
      BY <1>1, <1>2, <2>2 DEF k
    <2>5. y(u, k) = y(c, n) /\ z(u, k) = z(c, n)
      BY <2>2, <2>3, <2>4
    <2>6. /\ y(u, k) = IF u.NoiseLatcherClockDivider = k THEN LatchClocks
                       ELSE u.NoiseLatcherClockDivider - k
          /\ y(c, n) = IF c.NoiseLatcherClockDivider = n THEN LatchClocks
                       ELSE c.NoiseLatcherClockDivider - n
          /\ z(u, k) = IF u.NoiseLatcherClockDivider = k THEN a ELSE u.NoiseLatcher
          /\ z(c, n) = IF c.NoiseLatcherClockDivider = n THEN a ELSE c.NoiseLatcher
      OBVIOUS
    <2>7. a = (u.WavePos + Expiries(u.FreqCounter - k, p)) % WaveLen
      BY <1>8
    <2> HIDE DEF y, z
    <2>8. WavePlayed(c, n, effects) =
          [playing |-> c.playing, EffFreq |-> c.EffFreq, Envelope |-> c.Envelope,
           WavePos |-> a, FreqCounter |-> Reload(c.FreqCounter - n, p),
           LatcherClockDivider |-> Reload(c.LatcherClockDivider - n, LatchClocks),
           NoiseLatcherClockDivider |-> y(c, n), NoiseLatcher |-> z(c, n),
           EffectsClockDivider |-> effects,
           IntervalClockDivider |-> c.IntervalClockDivider,
           EnvelopeClockDivider |-> c.EnvelopeClockDivider,
           IntervalCounter |-> c.IntervalCounter, EnvelopeCounter |-> c.EnvelopeCounter,
           SweepModClockDivider |-> c.SweepModClockDivider,
           SweepModCounter |-> c.SweepModCounter, ModWavePos |-> c.ModWavePos]
      BY <1>10, <2>6 DEF WavePlayed, p
    <2>9. WavePlayed(u, k, effects) =
          [playing |-> u.playing, EffFreq |-> u.EffFreq, Envelope |-> u.Envelope,
           WavePos |-> a, FreqCounter |-> Reload(u.FreqCounter - k, p),
           LatcherClockDivider |-> Reload(u.LatcherClockDivider - k, LatchClocks),
           NoiseLatcherClockDivider |-> y(u, k), NoiseLatcher |-> z(u, k),
           EffectsClockDivider |-> effects,
           IntervalClockDivider |-> u.IntervalClockDivider,
           EnvelopeClockDivider |-> u.EnvelopeClockDivider,
           IntervalCounter |-> u.IntervalCounter, EnvelopeCounter |-> u.EnvelopeCounter,
           SweepModClockDivider |-> u.SweepModClockDivider,
           SweepModCounter |-> u.SweepModCounter, ModWavePos |-> u.ModWavePos]
      <3> HIDE DEF a
      <3> QED BY <1>5, <1>10, <2>6, <2>7 DEF WavePlayed, p
    <2> HIDE DEF a
    <2>10. WavePlayed(u, k, effects) = WavePlayed(c, n, effects)
      BY <1>5, <1>6, <1>7, <2>5, <2>8, <2>9
    <2> QED BY <2>10 DEF u, k
  <1> QED BY <1>9, <1>10

LEMMA ChunkAgain ==
  ASSUME VsuSane, NEW c \in Notes, NEW n, Fits(c, n), n > 1
  PROVE  ChunkPlayed(ChunkPlayed(c, 1), n - 1) = ChunkPlayed(c, n)
  <1> DEFINE e == c.EffectsClockDivider   u == WavePlayed(c, 1, e - 1)
  <1>1. /\ c \in ChanStates /\ e \in 1 .. EffectClocks
        /\ EffectClocks \in Nat \ {0} /\ n \in Nat /\ n <= e
    BY Parameters DEF Notes, ChanStates, Fits
  <1>2. e > 1 /\ e - 1 \in 1 .. EffectClocks
    BY <1>1
  <1>3. ChunkPlayed(c, 1) = u
    BY <1>1, <1>2, ChunkPlayedIs
  <1>4. Fits(c, 1)
    BY <1>1, <1>2 DEF Fits, Notes, ChanStates
  <1>5. u \in ChanStates
    BY <1>2, <1>4, WavePlayedIn DEF Notes
  <1>6. u.EffectsClockDivider = e - 1
    BY DEF WavePlayed
  <1> DEFINE k == n - 1
  <1>7. \A x : WavePlayed(u, k, x) = WavePlayed(c, n, x)
    BY WaveAgain
  <1>8. /\ (e - 1 > k) <=> (e > n)
        /\ e - 1 - k = e - n
    BY <1>1
  <1> HIDE DEF u, k
  <1>9. ChunkPlayed(u, k) = IF u.EffectsClockDivider > k
                            THEN WavePlayed(u, k, u.EffectsClockDivider - k)
                            ELSE EffectsTick(WavePlayed(u, k, EffectClocks))
    BY <1>5, ChunkPlayedIs
  <1>10. ChunkPlayed(c, n) = IF e > n THEN WavePlayed(c, n, e - n)
                             ELSE EffectsTick(WavePlayed(c, n, EffectClocks))
    BY <1>1, ChunkPlayedIs
  <1>11. ChunkPlayed(u, k) = ChunkPlayed(c, n)
    BY <1>6, <1>7, <1>8, <1>9, <1>10
  <1> QED BY <1>3, <1>11 DEF k

LEMMA MinOneLess ==
  ASSUME NEW x \in Int, NEW y \in Int, NEW z \in Int
  PROVE  Min({x - 1, y - 1, z - 1}) = Min({x, y, z}) - 1
  <1> DEFINE m == Min({x, y, z})   k == Min({x - 1, y - 1, z - 1})
  <1>1. m \in {x, y, z} /\ m <= x /\ m <= y /\ m <= z
    BY MinOfThree
  <1>2. k \in {x - 1, y - 1, z - 1} /\ k <= x - 1 /\ k <= y - 1 /\ k <= z - 1
    <2>1. x - 1 \in Int /\ y - 1 \in Int /\ z - 1 \in Int
      OBVIOUS
    <2> QED BY <2>1, MinOfThree
  <1> HIDE DEF m, k
  <1>3. k = m - 1
    BY <1>1, <1>2
  <1> QED BY <1>3 DEF m, k

(* When a chunk is longer than a clock, what is left of it after a clock   *)
(* is again a chunk.                                                       *)
LEMMA ChunkOn ==
  ASSUME VsuSane, NEW c \in Notes, NEW clocks \in Nat \ {0}, Chunk(c, clocks) > 1
  PROVE  /\ clocks - 1 \in Nat \ {0}
         /\ Chunk(ChunkPlayed(c, 1), clocks - 1) = Chunk(c, clocks) - 1
  <1> DEFINE e == c.EffectsClockDivider
             n == Chunk(c, clocks)
             u == WavePlayed(c, 1, e - 1)
             x == IF channel = "noise" THEN c.NoiseLatcherClockDivider
                  ELSE IF c.EffFreq >= LatchFreq THEN c.LatcherClockDivider
                  ELSE c.FreqCounter
             y == IF channel = "noise" THEN u.NoiseLatcherClockDivider
                  ELSE IF u.EffFreq >= LatchFreq THEN u.LatcherClockDivider
                  ELSE u.FreqCounter
  <1>1. /\ n = Min({clocks, e, x}) /\ n > 1
        /\ Chunk(u, clocks - 1) = Min({clocks - 1, u.EffectsClockDivider, y})
    BY DEF Chunk
  <1>2. /\ c \in ChanStates /\ e \in 1 .. EffectClocks /\ EffectClocks \in Nat \ {0}
        /\ c.FreqCounter \in Int /\ c.LatcherClockDivider \in Int
        /\ c.NoiseLatcherClockDivider \in Int /\ LatchClocks \in Nat \ {0}
        /\ c.EffFreq \in 0 .. FreqTop - 1
    BY Parameters DEF Notes, ChanStates
  <1>3. x \in Int
    BY <1>2
  <1>4. e \in Int
    BY <1>2
  <1>5. /\ u.EffectsClockDivider = e - 1 /\ u.EffFreq = c.EffFreq
        /\ channel = "noise" /\ c.NoiseLatcherClockDivider # 1
             => u.NoiseLatcherClockDivider = c.NoiseLatcherClockDivider - 1
        /\ u.LatcherClockDivider = Reload(c.LatcherClockDivider - 1, LatchClocks)
        /\ u.FreqCounter = Reload(c.FreqCounter - 1, Period(c.EffFreq))
    BY DEF WavePlayed
  <1>12. e > 1 /\ x > 1 /\ clocks > 1
    <2> HIDE DEF n, x, e
    <2>1. /\ Min({clocks, e, x}) \in {clocks, e, x}
          /\ Min({clocks, e, x}) <= clocks /\ Min({clocks, e, x}) <= e
          /\ Min({clocks, e, x}) <= x
      <3>1. clocks \in Int
        OBVIOUS
      <3> QED BY <1>3, <1>4, <3>1, MinOfThree
    <2> QED BY <1>1, <1>3, <1>4, <2>1
  <1>6. ChunkPlayed(c, 1) = u /\ e > 1
    <2>1. e > 1
      BY <1>12
    <2> QED BY <1>2, <2>1, ChunkPlayedIs
  <1>7. x > 1 /\ clocks > 1
    BY <1>12
  <1> HIDE DEF u, n
  <1>8. \A l \in Int : l > 1 => /\ Reload(l - 1, LatchClocks) = l - 1
                                /\ Reload(l - 1, Period(c.EffFreq)) = l - 1
    <2> TAKE l \in Int
    <2> HAVE l > 1
    <2> DEFINE k == l - 1
    <2>1. k \in Int /\ k > 0
      OBVIOUS
    <2> HIDE DEF k
    <2>2. Period(c.EffFreq) \in Nat \ {0}
      BY <1>2, PeriodIs
    <2>3. Reload(k, LatchClocks) = k /\ Reload(k, Period(c.EffFreq)) = k
      BY <1>2, <2>1, <2>2, ReloadFacts
    <2> QED BY <2>3 DEF k
  <1>9. y = x - 1
    <2>1. CASE channel = "noise"
      <3>1. c.NoiseLatcherClockDivider > 1
        BY <1>7, <2>1
      <3> QED BY <1>2, <1>5, <2>1, <3>1
    <2>2. CASE channel # "noise" /\ c.EffFreq >= LatchFreq
      <3>1. c.LatcherClockDivider > 1
        BY <1>7, <2>2
      <3> QED BY <1>2, <1>5, <1>8, <2>2, <3>1
    <2>3. CASE channel # "noise" /\ ~ (c.EffFreq >= LatchFreq)
      <3>1. c.FreqCounter > 1
        BY <1>7, <2>3
      <3> QED BY <1>2, <1>5, <1>8, <2>3, <3>1
    <2> QED BY <2>1, <2>2, <2>3
  <1> HIDE DEF e, x, y
  <1>10. Min({clocks - 1, e - 1, x - 1}) = Min({clocks, e, x}) - 1
    BY <1>3, <1>4, MinOneLess
  <1>11. Chunk(u, clocks - 1) = n - 1
    BY <1>1, <1>5, <1>9, <1>10
  <1> QED BY <1>6, <1>7, <1>11 DEF n

-----------------------------------------------------------------------------
(* The loop of VSU_Update (see Loops): its states, its body, the states in *)
(* which it is done, and a bound of its rounds.                            *)
LoopStates == [chan : Notes, clocks : Nat]

Round(r) ==
  IF r.clocks <= 0 THEN r
  ELSE LET n == Chunk(r.chan, r.clocks)
       IN  [chan |-> ChunkPlayed(r.chan, n), clocks |-> r.clocks - n]

ChunkRound == [r \in LoopStates |-> Round(r)]
ChunksDone == {r \in LoopStates : r.clocks = 0}
ChunkBound == [r \in LoopStates |-> r.clocks]

LEMMA ChunkFits ==
  ASSUME NEW c \in Notes, NEW clocks \in Nat \ {0}
  PROVE  Fits(c, Chunk(c, clocks)) /\ Chunk(c, clocks) \in 1 .. clocks
  BY ChunkIs DEF Fits

LEMMA RoundIs ==
  ASSUME VsuSane, NEW r \in LoopStates, r.clocks # 0
  PROVE  LET n == Chunk(r.chan, r.clocks) IN
         /\ n \in 1 .. r.clocks /\ Fits(r.chan, n)
         /\ Round(r) = [chan |-> ChunkPlayed(r.chan, n), clocks |-> r.clocks - n]
         /\ Round(r) \in LoopStates
  <1> DEFINE n == Chunk(r.chan, r.clocks)
  <1>1. r.chan \in Notes /\ r.clocks \in Nat \ {0}
    BY DEF LoopStates
  <1>2. n \in 1 .. r.clocks /\ Fits(r.chan, n)
    BY <1>1, ChunkFits
  <1>3. Round(r) = [chan |-> ChunkPlayed(r.chan, n), clocks |-> r.clocks - n]
    BY <1>1 DEF Round
  <1> HIDE DEF n
  <1>4. ChunkPlayed(r.chan, n) \in Notes
    BY <1>1, <1>2, ChunkPlayedIn
  <1>5. r.clocks - n \in Nat
    BY <1>1, <1>2
  <1>6. Round(r) \in LoopStates
    BY <1>3, <1>4, <1>5 DEF LoopStates
  <1> QED BY <1>2, <1>3, <1>6 DEF n

LEMMA ChunksTerminate ==
  ASSUME VsuSane
  PROVE  Terminates(LoopStates, ChunkRound, ChunksDone, ChunkBound)
  <1>1. ASSUME NEW r \in LoopStates PROVE Round(r) \in LoopStates
    <2>1. r.clocks = 0 => Round(r) = r
      BY DEF Round
    <2> QED BY <2>1, RoundIs
  <1>2. ChunkRound \in [LoopStates -> LoopStates]
    BY <1>1 DEF ChunkRound
  <1>3. ChunkBound \in [LoopStates -> Nat]
    BY DEF ChunkBound, LoopStates
  <1>4. ASSUME NEW r \in LoopStates \ ChunksDone
        PROVE  ChunkBound[ChunkRound[r]] < ChunkBound[r]
    <2> DEFINE n == Chunk(r.chan, r.clocks)
    <2>1. r.clocks # 0 /\ r.clocks \in Nat
      BY DEF ChunksDone, LoopStates
    <2>2. /\ n \in 1 .. r.clocks
          /\ Round(r) = [chan |-> ChunkPlayed(r.chan, n), clocks |-> r.clocks - n]
          /\ Round(r) \in LoopStates
      BY <2>1, RoundIs
    <2> HIDE DEF n
    <2>3. Round(r).clocks = r.clocks - n
      BY <2>2
    <2>4. ChunkBound[ChunkRound[r]] = Round(r).clocks /\ ChunkBound[r] = r.clocks
      BY <2>2 DEF ChunkBound, ChunkRound
    <2> QED BY <2>1, <2>2, <2>3, <2>4
  <1>5. \A r \in ChunksDone : ChunkRound[r] = r
    BY DEF ChunksDone, ChunkRound, Round
  <1> QED BY <1>2, <1>3, <1>4, <1>5 DEF Terminates, ChunksDone

(* AfterClocks is that loop. *)
ChunkEnd == [r \in LoopStates |-> [chan |-> AfterClocks(r.chan, r.clocks), clocks |-> 0]]

LEMMA ChunkLoops ==
  ASSUME VsuSane
  PROVE  EndsIn(LoopStates, ChunkRound, ChunkBound, ChunkEnd)
  <1> SUFFICES ASSUME NEW r \in LoopStates
               PROVE  \E g, n : /\ Repeats(LoopStates, ChunkRound, r, g)
                               /\ n \in Nat /\ n >= ChunkBound[r] /\ ChunkEnd[r] = g[n]
    BY DEF EndsIn
  <1>1. ChunkRound \in [LoopStates -> LoopStates] /\ ChunkBound[r] \in Nat
    BY ChunksTerminate DEF Terminates
  <1>2. PICK g : Repeats(LoopStates, ChunkRound, r, g)
    BY <1>1, Repetition
  <1>3. r = [chan |-> r.chan, clocks |-> r.clocks] /\ r.clocks \in Nat
    BY DEF LoopStates
  <1> DEFINE Body(x) == IF x.clocks <= 0 THEN x
                        ELSE LET n == Chunk(x.chan, x.clocks)
                             IN  [chan |-> ChunkPlayed(x.chan, n), clocks |-> x.clocks - n]
  <1> DEFINE after[n \in Nat] == IF n = 0 THEN [chan |-> r.chan, clocks |-> r.clocks]
                                 ELSE Body(after[n - 1])
  <1>4. AfterClocks(r.chan, r.clocks) = after[r.clocks].chan
    BY DEF AfterClocks
  <1>5. ASSUME NEW x PROVE Body(x) = Round(x)
    BY DEF Round
  <1> HIDE DEF Body
  <1>6. g = [n \in Nat |-> IF n = 0 THEN [chan |-> r.chan, clocks |-> r.clocks]
                           ELSE Body(g[n - 1])]
    <2>1. ASSUME NEW n \in Nat
          PROVE  g[n] = IF n = 0 THEN [chan |-> r.chan, clocks |-> r.clocks]
                        ELSE Body(g[n - 1])
      <3>1. CASE n = 0
        BY <1>2, <1>3, <3>1 DEF Repeats
      <3>2. CASE n # 0
        <4>1. n - 1 \in Nat /\ (n - 1) + 1 = n
          BY <3>2
        <4>2. g[n] = ChunkRound[g[n - 1]] /\ g[n - 1] \in LoopStates
          BY <1>2, <4>1 DEF Repeats
        <4>3. g[n] = Body(g[n - 1])
          BY <1>5, <4>2 DEF ChunkRound
        <4> QED BY <3>2, <4>3
      <3> QED BY <3>1, <3>2
    <2> QED BY <1>2, <2>1 DEF Repeats
  <1>7. after = [n \in Nat |-> IF n = 0 THEN [chan |-> r.chan, clocks |-> r.clocks]
                               ELSE Body(after[n - 1])]
    <2> DEFINE P(h) == h = [n \in Nat |-> IF n = 0 THEN [chan |-> r.chan, clocks |-> r.clocks]
                                          ELSE Body(h[n - 1])]
    <2>1. P(g)
      BY <1>6
    <2>2. after = CHOOSE h : P(h)
      OBVIOUS
    <2> HIDE DEF P, after
    <2>3. P(after)
      BY <2>1, <2>2
    <2> QED BY <2>3 DEF P
  <1> HIDE DEF after
  <1>8. Repeats(LoopStates, ChunkRound, r, after)
    <2>1. \A n \in Nat : after[n] = IF n = 0 THEN [chan |-> r.chan, clocks |-> r.clocks]
                                    ELSE Body(after[n - 1])
      BY <1>7
    <2>2. after[0] = r
      BY <1>3, <2>1
    <2>3. ASSUME NEW n \in Nat, after[n] \in LoopStates
          PROVE  after[n + 1] = ChunkRound[after[n]]
      <3>1. n + 1 \in Nat /\ n + 1 # 0 /\ (n + 1) - 1 = n
        OBVIOUS
      <3>2. after[n + 1] = Body(after[n])
        BY <2>1, <3>1
      <3> QED BY <1>5, <2>3, <3>2 DEF ChunkRound
    <2>4. after = [n \in Nat |-> after[n]]
      BY <1>7
    <2> QED BY <1>1, <2>2, <2>3, <2>4, Follows
  <1>9. r.clocks >= ChunkBound[r]
    BY <1>3 DEF ChunkBound
  <1>10. after[r.clocks] \in ChunksDone
    BY <1>3, <1>8, <1>9, ChunksTerminate, DoneInTime
  <1>11. after[r.clocks] = [chan |-> after[r.clocks].chan, clocks |-> 0]
    BY <1>10 DEF ChunksDone, LoopStates
  <1>12. ChunkEnd[r] = after[r.clocks]
    BY <1>4, <1>11 DEF ChunkEnd
  <1> QED BY <1>3, <1>8, <1>9, <1>12

(* An update keeps notes, ends at once without clocks, and otherwise plays *)
(* one clock and then the others.                                          *)
LEMMA AfterNone ==
  ASSUME VsuSane, NEW c \in Notes
  PROVE  AfterClocks(c, 0) = c
  <1> DEFINE r == [chan |-> c, clocks |-> 0]
  <1>1. r \in LoopStates /\ r \in ChunksDone
    BY DEF LoopStates, ChunksDone
  <1>2. ChunkEnd[r] = r
    BY <1>1, ChunksTerminate, ChunkLoops, LoopEnds
  <1>3. ChunkEnd[r] = [chan |-> AfterClocks(c, 0), clocks |-> 0]
    BY <1>1 DEF ChunkEnd
  <1> QED BY <1>2, <1>3

LEMMA AfterIn ==
  ASSUME VsuSane, NEW c \in Notes, NEW clocks \in Nat
  PROVE  AfterClocks(c, clocks) \in Notes
  <1> DEFINE r == [chan |-> c, clocks |-> clocks]
  <1>1. r \in LoopStates
    BY DEF LoopStates
  <1>2. ChunkEnd[r] \in ChunksDone
    BY <1>1, ChunksTerminate, ChunkLoops, LoopEnds
  <1>3. ChunkEnd[r] = [chan |-> AfterClocks(c, clocks), clocks |-> 0]
    BY <1>1 DEF ChunkEnd
  <1> HIDE DEF r
  <1>4. ChunkEnd[r].chan \in Notes
    BY <1>2 DEF ChunksDone, LoopStates
  <1> QED BY <1>3, <1>4

LEMMA AfterOne ==
  ASSUME VsuSane, NEW c \in Notes, NEW clocks \in Nat \ {0}
  PROVE  AfterClocks(c, clocks) = AfterClocks(ChunkPlayed(c, 1), clocks - 1)
  <1> DEFINE n == Chunk(c, clocks)
             k == clocks - 1
             u == ChunkPlayed(c, 1)
             r == [chan |-> c, clocks |-> clocks]
             q == [chan |-> u, clocks |-> k]
  <1>1. n \in 1 .. clocks /\ Fits(c, n) /\ k \in Nat
    BY ChunkFits
  <1>2. u \in Notes
    <2>1. Fits(c, 1)
      <3>1. 1 <= n /\ n <= c.EffectsClockDivider /\ n \in Int
            /\ (channel = "noise" => n <= c.NoiseLatcherClockDivider)
        BY <1>1 DEF Fits
      <3>2. c.EffectsClockDivider \in Int /\ c.NoiseLatcherClockDivider \in Int
        BY DEF Notes, ChanStates
      <3> HIDE DEF n
      <3> QED BY <3>1, <3>2 DEF Fits
    <2> QED BY <2>1, ChunkPlayedIn
  <1>3. r \in LoopStates /\ q \in LoopStates
    BY <1>1, <1>2 DEF LoopStates
  <1>4. /\ ChunkEnd[r] = [chan |-> AfterClocks(c, clocks), clocks |-> 0]
        /\ ChunkEnd[q] = [chan |-> AfterClocks(u, k), clocks |-> 0]
    BY <1>3 DEF ChunkEnd
  <1>5. ChunkEnd[ChunkRound[r]] = ChunkEnd[r]
    BY <1>3, ChunksTerminate, ChunkLoops, LoopEnds
  <1>6. ChunkEnd[ChunkRound[q]] = ChunkEnd[q]
    BY <1>3, ChunksTerminate, ChunkLoops, LoopEnds
  <1>7. ChunkRound[r] = [chan |-> ChunkPlayed(c, n), clocks |-> clocks - n]
    BY <1>3 DEF ChunkRound, Round
  <1>8. CASE n = 1
    <2>1. ChunkRound[r] = q
      BY <1>7, <1>8
    <2> QED BY <1>4, <1>5, <2>1
  <1>9. CASE n # 1
    <2>1. n > 1
      BY <1>1, <1>9
    <2>2. k \in Nat \ {0} /\ Chunk(u, k) = n - 1
      BY <2>1, ChunkOn
    <2>3. ChunkPlayed(u, n - 1) = ChunkPlayed(c, n)
      BY <1>1, <2>1, ChunkAgain
    <2>4. k - (n - 1) = clocks - n
      BY <1>1
    <2>5. ChunkRound[q] = [chan |-> ChunkPlayed(u, Chunk(u, k)), clocks |-> k - Chunk(u, k)]
      <3> HIDE DEF u, k
      <3> QED BY <1>3, <2>2 DEF ChunkRound, Round
    <2>6. ChunkRound[q] = ChunkRound[r]
      BY <1>7, <2>2, <2>3, <2>4, <2>5
    <2> QED BY <1>4, <1>5, <1>6, <2>6
  <1> QED BY <1>8, <1>9

-----------------------------------------------------------------------------
(* The inductive invariant of types: what a channel holds, and, while it   *)
(* plays, that its counters are positive.                                  *)
Fit(c, time) ==
  /\ c \in ChanStates
  /\ c.playing => /\ c.FreqCounter \in 1 .. Period(0) /\ c.EnvelopeCounter \in 1 .. 8
                  /\ time => c.IntervalCounter \in 1 .. 32

VsuInv ==
  /\ channel \in Channels /\ VsuSane
  /\ Fit(chan, timed)
  /\ last_ts \in 0 .. now /\ now \in 0 .. FrameCycles

LEMMA FitNotes ==
  ASSUME NEW c
  PROVE  /\ c \in Notes => Fit(c, timed)
         /\ Fit(c, timed) /\ c.playing => c \in Notes
  BY DEF Notes, Begun, Fit

LEMMA TypesFollow ==
  ASSUME VsuInv
  PROVE  TypeOK
  <1>1. chan \in ChanStates /\ VsuSane /\ Fit(chan, timed)
    BY DEF VsuInv, Fit
  <1>2. /\ chan.EffFreq \in 0 .. FreqTop - 1
        /\ chan.Envelope \in 0 .. EnvelopeMax
        /\ chan.WavePos \in 0 .. WaveLen - 1 /\ chan.ModWavePos \in 0 .. ModLen
        /\ chan.LatcherClockDivider \in 1 .. LatchClocks
        /\ chan.NoiseLatcherClockDivider \in 1 .. LatchClocks
        /\ chan.EffectsClockDivider \in 1 .. EffectClocks
        /\ chan.IntervalClockDivider \in 1 .. Ticks
        /\ chan.EnvelopeClockDivider \in 1 .. Ticks
        /\ chan.SweepModClockDivider \in 1 .. SlowSweep
    BY <1>1 DEF ChanStates
  <1>3. {chan.IntervalClockDivider, chan.EnvelopeClockDivider} \subseteq 1 .. Ticks
    BY <1>2
  <1>4. chan.playing => /\ chan.FreqCounter \in 1 .. Period(0)
                        /\ chan.EnvelopeCounter \in 1 .. 8
                        /\ timed => chan.IntervalCounter \in 1 .. 32
    BY <1>1 DEF Fit
  <1>5. last_ts \in 0 .. now /\ now \in 0 .. FrameCycles
    BY DEF VsuInv
  <1> QED BY <1>1, <1>2, <1>3, <1>4, <1>5 DEF TypeOK, VsuSane

LEMMA WaitIs ==
  ASSUME VsuInv
  PROVE  now - last_ts \in Nat
  <1>1. FrameCycles \in Nat /\ last_ts \in 0 .. now /\ now \in 0 .. FrameCycles
    BY VsuAssumption DEF VsuInv
  <1> QED BY <1>1

LEMMA UpdatedFits ==
  ASSUME VsuInv
  PROVE  Fit(Updated, timed)
  <1>1. CASE chan.playing
    <2>1. chan \in Notes /\ VsuSane /\ now - last_ts \in Nat
      BY <1>1, FitNotes, WaitIs DEF VsuInv
    <2>2. AfterClocks(chan, now - last_ts) \in Notes
      BY <2>1, AfterIn
    <2>3. Updated = AfterClocks(chan, now - last_ts)
      BY <1>1 DEF Updated
    <2> QED BY <2>2, <2>3, FitNotes
  <1>2. CASE ~ chan.playing
    BY <1>2 DEF Updated, VsuInv
  <1> QED BY <1>1, <1>2

LEMMA IdleFits == Idle \in ChanStates /\ ~ Idle.playing
  <1>1. /\ 0 \in 0 .. FreqTop - 1 /\ 0 \in 0 .. EnvelopeMax /\ 0 \in 0 .. WaveLen - 1
        /\ LatchClocks \in 1 .. LatchClocks /\ EffectClocks \in 1 .. EffectClocks
        /\ Ticks \in 1 .. Ticks /\ 1 \in 1 .. SlowSweep /\ 0 \in 0 .. 7
        /\ 0 \in 0 .. ModLen /\ 0 \in Int
    BY Parameters
  <1> QED BY <1>1 DEF Idle, ChanStates

LEMMA KeptFits ==
  ASSUME NEW time, NEW c, Fit(c, time)
  PROVE  Fit(Kept(c), time)
  <1>1. CASE c.playing
    BY <1>1 DEF Kept
  <1>2. CASE ~ c.playing
    <2>1. c \in ChanStates /\ Idle \in ChanStates /\ ~ Idle.playing
      BY IdleFits DEF Fit
    <2>2. Kept(c) = [Idle EXCEPT !.Envelope = c.Envelope,
                    !.LatcherClockDivider = c.LatcherClockDivider,
                    !.NoiseLatcherClockDivider = c.NoiseLatcherClockDivider,
                    !.NoiseLatcher = c.NoiseLatcher]
      BY <1>2 DEF Kept
    <2> DEFINE a == c.Envelope   b == c.LatcherClockDivider
               x == c.NoiseLatcherClockDivider   y == c.NoiseLatcher
    <2>3. /\ a \in 0 .. EnvelopeMax /\ b \in 1 .. LatchClocks
          /\ x \in 1 .. LatchClocks /\ y \in 0 .. WaveLen - 1
      BY <2>1 DEF ChanStates
    <2>4. Kept(c) = [Idle EXCEPT !.Envelope = a, !.LatcherClockDivider = b,
                    !.NoiseLatcherClockDivider = x, !.NoiseLatcher = y]
      BY <2>2
    <2> HIDE DEF a, b, x, y
    <2>5. Kept(c) \in ChanStates /\ ~ Kept(c).playing
      BY <2>1, <2>3, <2>4, ZenonT(60) DEF ChanStates
    <2> QED BY <2>5 DEF Fit
  <1> QED BY <1>1, <1>2

(* Every write leaves such a channel. *)
LEMMA UpdateInv ==
  ASSUME VsuInv, VsuSane', NEW c, Fit(c, timed'), Update(c)
  PROVE  VsuInv'
  <1>1. Fit(Kept(c), timed')
    BY KeptFits
  <1>2. /\ chan' = Kept(c) /\ last_ts' = now /\ channel' = channel /\ now' = now
        /\ channel \in Channels /\ now \in 0 .. FrameCycles
    BY DEF Update, VsuInv
  <1>3. Fit(chan, timed)'
    BY <1>1, <1>2 DEF Fit, Period
  <1>4. last_ts' \in 0 .. now'
    BY <1>2, VsuAssumption
  <1> QED BY <1>2, <1>3, <1>4 DEF VsuInv

LEMMA SetFits ==
  ASSUME NEW c, NEW time, Fit(c, time)
  PROVE  /\ Fit([c EXCEPT !.playing = FALSE], FALSE) /\ Fit([c EXCEPT !.playing = FALSE], TRUE)
         /\ \A v \in 0 .. FreqTop - 1 : Fit([c EXCEPT !.EffFreq = v], time)
         /\ \A v \in 0 .. EnvelopeMax : Fit([c EXCEPT !.Envelope = v], time)
         /\ Fit([c EXCEPT !.WavePos = 0], time)
  <1>1. c \in ChanStates
    BY DEF Fit
  <1>2. ASSUME NEW t \in BOOLEAN PROVE Fit([c EXCEPT !.playing = FALSE], t)
    <2> DEFINE d == [c EXCEPT !.playing = FALSE]
    <2>1. d \in ChanStates /\ ~ d.playing
      BY <1>1 DEF ChanStates
    <2> QED BY <2>1 DEF Fit
  <1>3. ASSUME NEW v \in 0 .. FreqTop - 1 PROVE Fit([c EXCEPT !.EffFreq = v], time)
    <2> DEFINE d == [c EXCEPT !.EffFreq = v]
    <2>1. /\ d \in ChanStates /\ d.playing = c.playing /\ d.FreqCounter = c.FreqCounter
          /\ d.EnvelopeCounter = c.EnvelopeCounter /\ d.IntervalCounter = c.IntervalCounter
      BY <1>1 DEF ChanStates
    <2> HIDE DEF d
    <2>2. Fit(d, time)
      BY <2>1 DEF Fit
    <2> QED BY <2>2 DEF d
  <1>4. ASSUME NEW v \in 0 .. EnvelopeMax PROVE Fit([c EXCEPT !.Envelope = v], time)
    <2> DEFINE d == [c EXCEPT !.Envelope = v]
    <2>1. /\ d \in ChanStates /\ d.playing = c.playing /\ d.FreqCounter = c.FreqCounter
          /\ d.EnvelopeCounter = c.EnvelopeCounter /\ d.IntervalCounter = c.IntervalCounter
      BY <1>1 DEF ChanStates
    <2> HIDE DEF d
    <2>2. Fit(d, time)
      BY <2>1 DEF Fit
    <2> QED BY <2>2 DEF d
  <1>5. Fit([c EXCEPT !.WavePos = 0], time)
    <2> DEFINE d == [c EXCEPT !.WavePos = 0]
    <2>1. 0 \in 0 .. WaveLen - 1
      BY Parameters
    <2>2. /\ d \in ChanStates /\ d.playing = c.playing /\ d.FreqCounter = c.FreqCounter
          /\ d.EnvelopeCounter = c.EnvelopeCounter /\ d.IntervalCounter = c.IntervalCounter
      BY <1>1, <2>1 DEF ChanStates
    <2> HIDE DEF d
    <2>3. Fit(d, time)
      BY <2>2 DEF Fit
    <2> QED BY <2>3 DEF d
  <1> QED BY <1>2, <1>3, <1>4, <1>5

LEMMA HalvesInRange ==
  ASSUME NEW freq \in 0 .. FreqTop - 1, NEW b \in 0 .. FreqBytes - 1
  PROVE  LowSet(freq, b) \in 0 .. FreqTop - 1 /\ HighSet(freq, b) \in 0 .. FreqTop - 1
  <1> DEFINE F == FreqBytes   q == freq \div F   r == freq % F
  <1>1. F \in Nat \ {0} /\ FreqTop = F * F /\ FreqTop \in Nat
    BY Parameters DEF FreqTop
  <1>2. q \in Int /\ r \in 0 .. F - 1 /\ freq = F * q + r /\ freq \in Nat /\ b \in 0 .. F - 1
    BY <1>1
  <1>3. LowSet(freq, b) = q * F + b /\ HighSet(freq, b) = b * F + r
    BY DEF LowSet, HighSet
  <1>4. freq < F * F
    BY <1>1
  <1> HIDE DEF F, q, r
  <1>5. q >= 0
    <2>1. q <= -1 => F * q <= -F
      BY <1>1, <1>2
    <2>2. F * q \in Int
      BY <1>1, <1>2
    <2> QED BY <1>1, <1>2, <2>1, <2>2
  <1>6. q <= F - 1
    <2>1. q >= F => F * q >= F * F
      BY <1>1, <1>2
    <2>2. F * q \in Int /\ F * F \in Int
      BY <1>1, <1>2
    <2> QED BY <1>1, <1>2, <1>4, <2>1, <2>2
  <1>7. \A x \in 0 .. F - 1, y \in 0 .. F - 1 : x * F + y \in 0 .. F * F - 1
    <2> TAKE x \in 0 .. F - 1, y \in 0 .. F - 1
    <2>1. x * F >= 0 /\ x * F <= (F - 1) * F /\ (F - 1) * F = F * F - F
      BY <1>1
    <2>2. x * F \in Int /\ F * F \in Int
      BY <1>1
    <2> QED BY <1>1, <2>1, <2>2
  <1>8. q \in 0 .. F - 1
    BY <1>1, <1>2, <1>5, <1>6
  <1> QED BY <1>1, <1>2, <1>3, <1>7, <1>8

(* What a note begins with. *)
LEMMA StartFits ==
  ASSUME VsuSane, NEW c, NEW t, Fit(c, t), NEW time, NEW interval \in 0 .. 31
  PROVE  LET begun == [c EXCEPT
               !.playing = TRUE, !.EffFreq = Frequency, !.FreqCounter = Period(Frequency),
               !.IntervalCounter = interval + 1,
               !.EnvelopeCounter = EnvControl.lo.reload + 1,
               !.WavePos = 0,
               !.EffectsClockDivider = EffectClocks,
               !.IntervalClockDivider = Ticks, !.EnvelopeClockDivider = Ticks]
         IN  /\ Fit(begun, time)
             /\ Fit([begun EXCEPT !.SweepModCounter = SweepControl.interval,
                                  !.SweepModClockDivider = SweepPeriod,
                                  !.ModWavePos = 0], time)
  <1> DEFINE f     == Period(Frequency)
             i     == interval + 1
             e     == EnvControl.lo.reload + 1
             begun == [c EXCEPT
               !.playing = TRUE, !.EffFreq = Frequency, !.FreqCounter = f,
               !.IntervalCounter = i, !.EnvelopeCounter = e, !.WavePos = 0,
               !.EffectsClockDivider = EffectClocks,
               !.IntervalClockDivider = Ticks, !.EnvelopeClockDivider = Ticks]
             s     == SweepControl.interval
             p     == SweepPeriod
             swept == [begun EXCEPT !.SweepModCounter = s, !.SweepModClockDivider = p,
                                    !.ModWavePos = 0]
  <1>1. c \in ChanStates
    BY DEF Fit
  <1>2. /\ Frequency \in 0 .. FreqTop - 1 /\ e \in 1 .. 8 /\ s \in 0 .. 7
        /\ p \in 1 .. SlowSweep
    BY SweepPeriodIs DEF VsuSane, EnvLow, Sweep
  <1>3. f \in 1 .. Period(0) /\ f \in Int
    BY <1>2, PeriodIs
  <1>4. i \in 1 .. 32 /\ i \in Int /\ e \in Int
    BY <1>2
  <1>5. /\ 0 \in 0 .. WaveLen - 1 /\ EffectClocks \in 1 .. EffectClocks
        /\ Ticks \in 1 .. Ticks /\ 0 \in 0 .. ModLen
    BY Parameters
  <1> HIDE DEF f, i, e, s, p
  <1>6. begun \in ChanStates
    BY <1>1, <1>2, <1>3, <1>4, <1>5 DEF ChanStates
  <1>7. begun.FreqCounter = f /\ begun.IntervalCounter = i /\ begun.EnvelopeCounter = e
    BY <1>1 DEF ChanStates
  <1> HIDE DEF begun
  <1>8. /\ swept \in ChanStates /\ swept.FreqCounter = begun.FreqCounter
        /\ swept.IntervalCounter = begun.IntervalCounter
        /\ swept.EnvelopeCounter = begun.EnvelopeCounter
    BY <1>2, <1>5, <1>6 DEF ChanStates
  <1> HIDE DEF swept
  <1>9. Fit(begun, time) /\ Fit(swept, time)
    BY <1>2, <1>3, <1>4, <1>6, <1>7, <1>8 DEF Fit
  <1> QED BY <1>9 DEF begun, swept, f, i, e, s, p

LEMMA VsuInitInv == Init => VsuInv
  <1> SUFFICES ASSUME Init PROVE VsuInv
    OBVIOUS
  <1>1. channel \in Channels /\ channel \in {"wave", "sweep", "noise"}
    BY VsuAssumption DEF Init
  <1>2. Frequency \in 0 .. FreqTop - 1 /\ timed \in BOOLEAN
    <2>1. Frequency = 0 /\ timed = FALSE
      BY DEF Init
    <2>2. 0 \in 0 .. FreqTop - 1
      BY Parameters
    <2> QED BY <2>1, <2>2
  <1>3. EnvControl \in [lo : EnvLow, hi : EnvHigh]
    BY DEF Init, EnvLow, EnvHigh
  <1>4. SweepControl \in Sweep
    BY DEF Init, Sweep
  <1>5. Fit(chan, timed)
    BY IdleFits DEF Init, Fit
  <1>6. last_ts \in 0 .. now /\ now \in 0 .. FrameCycles
    BY VsuAssumption DEF Init
  <1> QED BY <1>1, <1>2, <1>3, <1>4, <1>5, <1>6 DEF VsuInv, VsuSane

LEMMA VsuNextInv == VsuInv /\ [Next]_vars => VsuInv'
  <1> SUFFICES ASSUME VsuInv, [Next]_vars PROVE VsuInv'
    OBVIOUS
  <1> DEFINE u == Updated
  <1>1. Fit(u, timed) /\ VsuSane /\ channel \in Channels
    BY UpdatedFits DEF VsuInv
  <1> HIDE DEF u
  <1>2. CASE UNCHANGED vars
    BY <1>2 DEF vars, regs, VsuInv, VsuSane, Fit, Period
  <1>3. CASE Cycle
    <2>1. /\ last_ts' \in 0 .. now' /\ now' \in 0 .. FrameCycles
      <3>1. FrameCycles \in Nat
        BY VsuAssumption
      <3> QED BY <1>3, <3>1 DEF Cycle, VsuInv
    <2> QED BY <1>3, <2>1 DEF Cycle, regs, VsuInv, VsuSane, Fit, Period
  <1>4. CASE WriteOther
    <2>1. VsuSane' /\ timed' = timed
      BY <1>1, <1>4 DEF WriteOther, Update, regs, VsuSane
    <2> QED BY <1>1, <1>4, <2>1, UpdateInv DEF WriteOther, u
  <1>5. ASSUME NEW time \in BOOLEAN, Stop(time) PROVE VsuInv'
    <2>1. VsuSane' /\ timed' = time
      BY <1>1, <1>5 DEF Stop, Update, VsuSane
    <2>2. Fit([u EXCEPT !.playing = FALSE], time)
      <3>1. /\ Fit([u EXCEPT !.playing = FALSE], FALSE)
            /\ Fit([u EXCEPT !.playing = FALSE], TRUE)
        BY <1>1, SetFits
      <3> QED BY <3>1
    <2> QED BY <1>5, <2>1, <2>2, UpdateInv DEF Stop, u
  <1>6. ASSUME NEW time \in BOOLEAN, NEW interval \in Intervals, Start(time, interval)
        PROVE  VsuInv'
    <2>1. VsuSane' /\ timed' = time
      BY <1>1, <1>6 DEF Start, Update, VsuSane
    <2>2. interval \in 0 .. 31
      BY VsuAssumption, SMTT(60)
    <2> DEFINE begun == [u EXCEPT
               !.playing = TRUE, !.EffFreq = Frequency, !.FreqCounter = Period(Frequency),
               !.IntervalCounter = interval + 1,
               !.EnvelopeCounter = EnvControl.lo.reload + 1,
               !.WavePos = 0,
               !.EffectsClockDivider = EffectClocks,
               !.IntervalClockDivider = Ticks, !.EnvelopeClockDivider = Ticks]
               swept == [begun EXCEPT !.SweepModCounter = SweepControl.interval,
                                      !.SweepModClockDivider = SweepPeriod,
                                      !.ModWavePos = 0]
    <2>3. Fit(begun, time) /\ Fit(swept, time)
      BY <1>1, <2>2, StartFits, ZenonT(60)
    <2>4. Update(IF channel # "sweep" THEN begun ELSE swept)
      BY <1>6 DEF Start, FirstStep, u
    <2> HIDE DEF begun, swept
    <2>5. Fit(IF channel # "sweep" THEN begun ELSE swept, timed')
      BY <2>1, <2>3
    <2> QED BY <2>1, <2>4, <2>5, UpdateInv
  <1>7. ASSUME NEW b \in 0 .. FreqBytes - 1, WriteFrequencyLow(b) \/ WriteFrequencyHigh(b)
        PROVE  VsuInv'
    <2>1. Frequency \in 0 .. FreqTop - 1 /\ u.EffFreq \in 0 .. FreqTop - 1
      BY <1>1 DEF VsuSane, Fit, ChanStates
    <2>2. /\ \A x \in 0 .. FreqTop - 1 : /\ LowSet(x, b) \in 0 .. FreqTop - 1
                                         /\ HighSet(x, b) \in 0 .. FreqTop - 1
      BY HalvesInRange
    <2>3. /\ Fit([u EXCEPT !.EffFreq = LowSet(@, b)], timed)
          /\ Fit([u EXCEPT !.EffFreq = HighSet(@, b)], timed)
      BY <1>1, <2>1, <2>2, SetFits
    <2>4. timed' = timed /\ VsuSane'
      BY <1>1, <1>7, <2>1, <2>2 DEF WriteFrequencyLow, WriteFrequencyHigh, Update, VsuSane
    <2> QED BY <1>7, <2>3, <2>4, UpdateInv DEF WriteFrequencyLow, WriteFrequencyHigh, u
  <1>8. ASSUME NEW lo \in EnvLows[channel], NEW level \in 0 .. EnvelopeMax,
               WriteEnvLow(lo, level)
        PROVE  VsuInv'
    <2>1. lo \in EnvLow
      BY <1>1, VsuAssumption
    <2>2. EnvControl' = [lo |-> lo, hi |-> EnvControl.hi] /\ EnvControl.hi \in EnvHigh
      BY <1>1, <1>8 DEF WriteEnvLow, VsuSane
    <2>3. timed' = timed /\ VsuSane'
      BY <1>1, <1>8, <2>1, <2>2 DEF WriteEnvLow, Update, VsuSane
    <2>4. Fit([u EXCEPT !.Envelope = level], timed)
      BY <1>1, SetFits
    <2> QED BY <1>8, <2>3, <2>4, UpdateInv DEF WriteEnvLow, u
  <1>9. ASSUME NEW hi \in EnvHighs[channel], WriteEnvHigh(hi)
        PROVE  VsuInv'
    <2>1. hi \in EnvHigh
      BY <1>1, VsuAssumption
    <2>2. EnvControl' = [lo |-> EnvControl.lo, hi |-> hi] /\ EnvControl.lo \in EnvLow
      BY <1>1, <1>9 DEF WriteEnvHigh, VsuSane
    <2>3. timed' = timed /\ VsuSane'
      BY <1>1, <1>9, <2>1, <2>2 DEF WriteEnvHigh, Update, VsuSane
    <2>4. Fit([u EXCEPT !.WavePos = 0], timed)
      BY <1>1, SetFits
    <2> QED BY <1>1, <1>9, <2>3, <2>4, UpdateInv DEF WriteEnvHigh, u
  <1>10. ASSUME NEW value \in SweepValues, WriteSweep(value)
         PROVE  VsuInv'
    <2>1. value \in Sweep
      BY VsuAssumption
    <2>2. timed' = timed /\ VsuSane'
      BY <1>1, <1>10, <2>1 DEF WriteSweep, Update, VsuSane
    <2> QED BY <1>1, <1>10, <2>2, UpdateInv DEF WriteSweep, u
  <1>11. CASE EndFrame
    <2>1. Fit(Kept(u), timed)
      BY <1>1, KeptFits
    <2>2. /\ chan' = Kept(u) /\ channel' = channel /\ timed' = timed
          /\ last_ts' = 0 /\ now' = 0 /\ VsuSane'
      BY <1>1, <1>11 DEF EndFrame, regs, VsuSane, u
    <2>3. Fit(chan, timed)'
      BY <2>1, <2>2 DEF Fit, Period
    <2>4. last_ts' \in 0 .. now' /\ now' \in 0 .. FrameCycles
      BY <2>2, VsuAssumption
    <2> QED BY <1>1, <2>2, <2>3, <2>4 DEF VsuInv
  <1> QED BY <1>2, <1>3, <1>4, <1>5, <1>6, <1>7, <1>8, <1>9, <1>10, <1>11
        DEF Next, Program

LEMMA VsuAlways == Spec => []VsuInv
  BY VsuInitInv, VsuNextInv, PTL DEF Spec

(* Types: above all that a playing channel's counters are positive, so     *)
(* that every chunk is of a clock at least and VSU_Update leaves its loop. *)
THEOREM VsuTyped == Spec => []TypeOK
  <1>1. VsuInv => TypeOK
    BY TypesFollow
  <1> QED BY <1>1, VsuAlways, PTL

-----------------------------------------------------------------------------
(* One clock. *)
EffectTicks(c) == c.EffectsClockDivider = 1

Ended(c) == EffectTicks(c) /\ (RunsOut(c) \/ TooHigh(c))

WaveMoved(c, d) ==
  /\ d.FreqCounter = IF c.FreqCounter = 1 THEN Period(c.EffFreq) ELSE c.FreqCounter - 1
  /\ d.WavePos = IF c.FreqCounter = 1 THEN (c.WavePos + 1) % WaveLen ELSE c.WavePos
  /\ d.NoiseLatcherClockDivider =
       IF channel # "noise" THEN c.NoiseLatcherClockDivider
       ELSE IF c.NoiseLatcherClockDivider = 1 THEN LatchClocks
       ELSE c.NoiseLatcherClockDivider - 1
  /\ d.NoiseLatcher = IF channel = "noise" /\ c.NoiseLatcherClockDivider = 1
                      THEN d.WavePos ELSE c.NoiseLatcher

LEMMA WaveIs ==
  ASSUME VsuSane, NEW c \in Notes, NEW effects
  PROVE  LET w == WavePlayed(c, 1, effects) IN
         /\ WaveMoved(c, w) /\ SameTimers(c, w) /\ SameSweep(c, w)
         /\ w.EffectsClockDivider = effects /\ w.playing = c.playing
  <1> DEFINE w == WavePlayed(c, 1, effects)   p == Period(c.EffFreq)   l == c.FreqCounter - 1
  <1>1. c \in ChanStates /\ c.FreqCounter \in 1 .. Period(0) /\ p \in Nat \ {0}
        /\ Period(0) \in Int
    <2>1. c.EffFreq \in 0 .. FreqTop - 1 /\ c \in ChanStates
      BY DEF Notes, ChanStates
    <2> QED BY <2>1, PeriodIs DEF Notes, Begun
  <1>2. c.FreqCounter \in Int /\ c.FreqCounter >= 1
    BY <1>1
  <1>3. l \in Int /\ (l > 0 <=> c.FreqCounter # 1) /\ (l = 0 <=> c.FreqCounter = 1)
    BY <1>2
  <1>4. /\ w.FreqCounter = Reload(l, p)
        /\ w.WavePos = (c.WavePos + Expiries(l, p)) % WaveLen
        /\ w.NoiseLatcherClockDivider =
             IF channel # "noise" THEN c.NoiseLatcherClockDivider
             ELSE IF c.NoiseLatcherClockDivider = 1 THEN LatchClocks
             ELSE c.NoiseLatcherClockDivider - 1
        /\ w.NoiseLatcher = IF channel = "noise" /\ c.NoiseLatcherClockDivider = 1
                            THEN w.WavePos ELSE c.NoiseLatcher
        /\ SameTimers(c, w) /\ SameSweep(c, w)
        /\ w.EffectsClockDivider = effects /\ w.playing = c.playing
    BY DEF WavePlayed, SameTimers, SameSweep
  <1> HIDE DEF w, p, l
  <1>5. /\ l > 0 => Expiries(l, p) = 0 /\ Reload(l, p) = l
        /\ l = 0 => Expiries(l, p) = 1 /\ Reload(l, p) = p
    BY <1>1, <1>3, ReloadFacts
  <1>6. c.WavePos \in 0 .. WaveLen - 1 /\ WaveLen \in Nat \ {0}
    BY <1>1, Parameters DEF ChanStates
  <1>7. (c.WavePos + 0) % WaveLen = c.WavePos
    BY <1>6
  <1>8. WaveMoved(c, w)
    <2>1. CASE c.FreqCounter = 1
      BY <1>3, <1>4, <1>5, <2>1 DEF WaveMoved, p
    <2>2. CASE c.FreqCounter # 1
      <3>1. Expiries(l, p) = 0 /\ Reload(l, p) = c.FreqCounter - 1
        BY <1>3, <1>5, <2>2 DEF l
      <3>2. w.WavePos = c.WavePos /\ w.FreqCounter = c.FreqCounter - 1
        BY <1>4, <1>7, <3>1
      <3> QED BY <1>4, <2>2, <3>2 DEF WaveMoved
    <2> QED BY <2>1, <2>2
  <1> QED BY <1>4, <1>8 DEF w

LEMMA ClockIs ==
  ASSUME VsuSane, NEW c \in Notes
  PROVE  LET u == ChunkPlayed(c, 1) IN
         /\ u \in Notes /\ WaveMoved(c, u)
         /\ u.EffectsClockDivider = IF EffectTicks(c) THEN EffectClocks
                                    ELSE c.EffectsClockDivider - 1
         /\ ~ EffectTicks(c) => SameTimers(c, u) /\ SameSweep(c, u)
         /\ EffectTicks(c) => TimersMoved(c, u) /\ SweepMoved(c, u)
         /\ u.playing <=> c.playing /\ ~ Ended(c)
  <1> DEFINE u == ChunkPlayed(c, 1)   e == c.EffectsClockDivider
  <1>1. /\ c \in ChanStates /\ e \in 1 .. EffectClocks /\ e \in Nat
        /\ EffectClocks \in Nat \ {0} /\ EffectClocks \in 1 .. EffectClocks
        /\ c.NoiseLatcherClockDivider \in 1 .. LatchClocks /\ LatchClocks \in Nat
    <2>1. /\ c \in ChanStates /\ c.EffectsClockDivider \in 1 .. EffectClocks
          /\ c.NoiseLatcherClockDivider \in 1 .. LatchClocks
      BY DEF Notes, ChanStates
    <2> QED BY <2>1, Parameters
  <1>2. Fits(c, 1)
    BY <1>1 DEF Fits
  <1>3. u \in Notes
    BY <1>2, ChunkPlayedIn
  <1>4. CASE e > 1
    <2> DEFINE w == WavePlayed(c, 1, e - 1)
    <2>1. u = w
      BY <1>1, <1>4, ChunkPlayedIs
    <2>2. /\ WaveMoved(c, w) /\ SameTimers(c, w) /\ SameSweep(c, w)
          /\ w.EffectsClockDivider = e - 1 /\ w.playing = c.playing
      BY WaveIs
    <2> HIDE DEF u, w
    <2>3. ~ EffectTicks(c)
      BY <1>4 DEF EffectTicks
    <2> QED BY <1>3, <2>1, <2>2, <2>3 DEF Ended, u
  <1>5. CASE ~ (e > 1)
    <2> DEFINE w == WavePlayed(c, 1, EffectClocks)
    <2>1. u = EffectsTick(w) /\ w \in Notes
      BY <1>1, <1>2, <1>5, ChunkPlayedIs, WavePlayedIn
    <2>2. /\ WaveMoved(c, w) /\ SameTimers(c, w) /\ SameSweep(c, w)
          /\ w.EffectsClockDivider = EffectClocks /\ w.playing = c.playing
      BY WaveIs
    <2>3. EffectTicks(c)
      BY <1>1, <1>5 DEF EffectTicks
    <2> HIDE DEF u, w
    <2>4. /\ SameWave(w, u) /\ TimersMoved(w, u) /\ SweepMoved(w, u)
          /\ u.playing <=> w.playing /\ ~ RunsOut(w) /\ ~ TooHigh(w)
      BY <2>1, EffectsTickIs
    <2>5. /\ TimerTicks(w) <=> TimerTicks(c)
          /\ FadeTicks(w) <=> FadeTicks(c)
          /\ RunsOut(w) <=> RunsOut(c)
      BY <2>2 DEF SameTimers, TimerTicks, FadeTicks, RunsOut
    <2>6. TimersMoved(c, u)
      BY <2>2, <2>4, <2>5 DEF TimersMoved, SameTimers
    <2>7. /\ SweepTicks(w) <=> SweepTicks(c)
          /\ SweepRuns(w) <=> SweepRuns(c)
          /\ SweepDue(w) <=> SweepDue(c)
          /\ Bends(w) <=> Bends(c)
          /\ Shifts(w) <=> Shifts(c)
          /\ TooHigh(w) <=> TooHigh(c)
          /\ BentFreq(w) = BentFreq(c) /\ ShiftedFreq(w) = ShiftedFreq(c)
      BY <2>2 DEF SameSweep, SweepTicks, SweepRuns, SweepDue, Bends, Shifts, TooHigh,
                  BentFreq, ShiftedFreq
    <2>8. SweepMoved(c, u)
      BY <2>2, <2>4, <2>7 DEF SweepMoved, SameSweep
    <2>9. WaveMoved(c, u) /\ u.EffectsClockDivider = EffectClocks
      BY <2>2, <2>4 DEF WaveMoved, SameWave
    <2>10. u.playing <=> c.playing /\ ~ Ended(c)
      BY <2>2, <2>3, <2>4, <2>5, <2>7 DEF Ended
    <2> QED BY <1>3, <2>3, <2>6, <2>8, <2>9, <2>10 DEF u
  <1> QED BY <1>4, <1>5

(* An update is so many clocks. *)
Clock == [c \in Notes |-> ChunkPlayed(c, 1)]

LEMMA ClockRepeats ==
  ASSUME VsuSane, NEW c \in Notes
  PROVE  \E g : Repeats(Notes, Clock, c, g)
  <1>1. Clock \in [Notes -> Notes]
    BY ClockIs DEF Clock
  <1> QED BY <1>1, Repetition

LEMMA AfterRepeats ==
  ASSUME VsuSane, NEW c \in Notes, NEW g, Repeats(Notes, Clock, c, g), NEW k \in Nat
  PROVE  AfterClocks(c, k) = g[k]
  <1> DEFINE T == {n \in Nat : n <= k => AfterClocks(g[n], k - n) = AfterClocks(c, k)}
  <1>1. 0 \in T
    <2>1. g[0] = c /\ k - 0 = k
      BY DEF Repeats
    <2> QED BY <2>1
  <1>2. ASSUME NEW n \in T PROVE n + 1 \in T
    <2>1. n \in Nat /\ n + 1 \in Nat
      OBVIOUS
    <2>2. CASE n + 1 <= k
      <3>1. AfterClocks(g[n], k - n) = AfterClocks(c, k)
        BY <2>1, <2>2
      <3>2. g[n] \in Notes /\ g[n + 1] = ChunkPlayed(g[n], 1)
        BY <2>1 DEF Repeats, Clock
      <3> DEFINE m == k - n
      <3>3. m \in Nat \ {0} /\ m - 1 = k - (n + 1)
        BY <2>1, <2>2
      <3> HIDE DEF m
      <3>4. AfterClocks(g[n], m) = AfterClocks(ChunkPlayed(g[n], 1), m - 1)
        BY <3>2, <3>3, AfterOne
      <3>5. AfterClocks(g[n + 1], k - (n + 1)) = AfterClocks(c, k)
        BY <3>1, <3>2, <3>3, <3>4 DEF m
      <3> QED BY <2>1, <3>5
    <2>3. CASE ~ (n + 1 <= k)
      BY <2>1, <2>3
    <2> QED BY <2>2, <2>3
  <1>3. T = Nat
    <2>1. T \in SUBSET Nat
      OBVIOUS
    <2> HIDE DEF T
    <2> QED BY <1>1, <1>2, <2>1, InductionOnNat
  <1>4. k \in T
    BY <1>3
  <1>5. AfterClocks(g[k], k - k) = AfterClocks(c, k) /\ k - k = 0 /\ g[k] \in Notes
    BY <1>4 DEF Repeats
  <1>6. AfterClocks(g[k], 0) = g[k]
    BY <1>5, AfterNone
  <1> QED BY <1>5, <1>6

-----------------------------------------------------------------------------
(* The clocks a note has left, of those its interval timer gives it. *)
Left(c) == ((c.IntervalCounter - 1) * Ticks + c.IntervalClockDivider - 1) * EffectClocks
             + c.EffectsClockDivider

LEMMA CountsDown ==
  ASSUME NEW T \in Nat \ {0}, NEW C \in Nat \ {0}, NEW i \in Int,
         NEW d \in 1 .. T, NEW e \in 1 .. C
  PROVE  LET left == ((i - 1) * T + d - 1) * C + e IN
         /\ left \in Int
         /\ ((i - 1) * T + d - 1) * C + (e - 1) = left - 1
         /\ e = 1 => ((i - 1) * T + (d - 1) - 1) * C + C = left - 1
         /\ e = 1 /\ d = 1 => (((i - 1) - 1) * T + T - 1) * C + C = left - 1
         /\ i >= 1 => left >= 1 /\ (left = 1 <=> i = 1 /\ d = 1 /\ e = 1)
  <1> DEFINE j == (i - 1) * T   a == j + d - 1
  <1>1. j \in Int /\ ((i - 1) - 1) * T = j - T
    BY DEF j
  <1>2. i >= 1 => j >= 0
    BY DEF j
  <1>3. i >= 2 => j >= T
    <2>1. i >= 2 => (i - 1) * T >= 1 * T
      OBVIOUS
    <2> QED BY <2>1 DEF j
  <1>4. i = 1 => j = 0
    BY DEF j
  <1> HIDE DEF j
  <1>5. a \in Int /\ a * C \in Int /\ (a - 1) * C = a * C - C
    BY <1>1 DEF a
  <1>6. j + (d - 1) - 1 = a - 1
    BY <1>1 DEF a
  <1>7. d = 1 => (j - T) + T - 1 = a - 1
    BY <1>1 DEF a
  <1>8. i >= 1 => a >= 0 /\ (a = 0 <=> i = 1 /\ d = 1)
    BY <1>1, <1>2, <1>3, <1>4 DEF a
  <1> DEFINE left == a * C + e
  <1>9. left \in Int /\ a * C + (e - 1) = left - 1
    BY <1>5
  <1>10. e = 1 => (a - 1) * C + C = left - 1
    BY <1>5
  <1>11. a >= 0 => left >= 1 /\ (left = 1 <=> a = 0 /\ e = 1)
    <2> HIDE DEF a
    <2>1. a >= 0 => a * C >= 0
      BY <1>5
    <2>2. a >= 1 => a * C >= C
      BY <1>5
    <2>3. a = 0 => a * C = 0
      BY <1>5
    <2> QED BY <1>5, <2>1, <2>2, <2>3
  <1>12. ((i - 1) * T + d - 1) * C + e = left
    BY DEF j, a
  <1>13. (i - 1) * T = j
    BY DEF j
  <1> HIDE DEF left
  <1>14. e = 1 => (j + (d - 1) - 1) * C + C = left - 1
    BY <1>6, <1>10
  <1>15. e = 1 /\ d = 1 => ((j - T) + T - 1) * C + C = left - 1
    BY <1>7, <1>10
  <1>16. i >= 1 => left >= 1 /\ (left = 1 <=> i = 1 /\ d = 1 /\ e = 1)
    BY <1>8, <1>11
  <1>17. (j + d - 1) * C + (e - 1) = left - 1
    BY <1>9 DEF a
  <1> QED BY <1>1, <1>9, <1>12, <1>13, <1>14, <1>15, <1>16, <1>17

LEMMA LeftFacts ==
  ASSUME VsuSane, timed, NEW c \in Notes
  PROVE  /\ Left(c) \in Int
         /\ Left(ChunkPlayed(c, 1)) = Left(c) - 1
         /\ c.playing => /\ Left(c) >= 1
                         /\ (EffectTicks(c) /\ RunsOut(c)) <=> Left(c) = 1
  <1> DEFINE u == ChunkPlayed(c, 1)
             i == c.IntervalCounter   d == c.IntervalClockDivider
             e == c.EffectsClockDivider
  <1>1. i \in Int /\ d \in 1 .. Ticks /\ e \in 1 .. EffectClocks
    BY DEF Notes, ChanStates
  <1>2. Ticks \in Nat \ {0} /\ EffectClocks \in Nat \ {0}
    BY Parameters
  <1>3. Left(c) = ((i - 1) * Ticks + d - 1) * EffectClocks + e
    BY DEF Left
  <1>4. c.playing => i >= 1
    BY <1>1 DEF Notes, Begun
  <1>5. EffectTicks(c) /\ RunsOut(c) <=> i = 1 /\ d = 1 /\ e = 1
    BY DEF EffectTicks, RunsOut, TimerTicks
  <1>6. /\ u.EffectsClockDivider = IF EffectTicks(c) THEN EffectClocks ELSE e - 1
        /\ ~ EffectTicks(c) => SameTimers(c, u)
        /\ EffectTicks(c) => TimersMoved(c, u)
    BY ClockIs
  <1>7. Left(u) = ((u.IntervalCounter - 1) * Ticks + u.IntervalClockDivider - 1) * EffectClocks
                    + u.EffectsClockDivider
    BY DEF Left
  <1>8. /\ EffectTicks(c) <=> e = 1
        /\ TimerTicks(c) <=> d = 1
    BY DEF EffectTicks, TimerTicks
  <1>9. /\ e # 1 => /\ u.IntervalCounter = i /\ u.IntervalClockDivider = d
                    /\ u.EffectsClockDivider = e - 1
        /\ e = 1 /\ d # 1 => /\ u.IntervalCounter = i /\ u.IntervalClockDivider = d - 1
                             /\ u.EffectsClockDivider = EffectClocks
        /\ e = 1 /\ d = 1 => /\ u.IntervalCounter = i - 1 /\ u.IntervalClockDivider = Ticks
                             /\ u.EffectsClockDivider = EffectClocks
    BY <1>6, <1>8 DEF SameTimers, TimersMoved
  <1> HIDE DEF u, i, d, e
  <1>10. /\ Left(c) \in Int
         /\ ((i - 1) * Ticks + d - 1) * EffectClocks + (e - 1) = Left(c) - 1
         /\ e = 1 => ((i - 1) * Ticks + (d - 1) - 1) * EffectClocks + EffectClocks = Left(c) - 1
         /\ e = 1 /\ d = 1
              => (((i - 1) - 1) * Ticks + Ticks - 1) * EffectClocks + EffectClocks = Left(c) - 1
         /\ i >= 1 => Left(c) >= 1 /\ (Left(c) = 1 <=> i = 1 /\ d = 1 /\ e = 1)
    BY <1>1, <1>2, <1>3, CountsDown
  <1>11. Left(u) = Left(c) - 1
    BY <1>7, <1>9, <1>10
  <1> QED BY <1>4, <1>5, <1>10, <1>11 DEF u

(* A clock after another, a timed note has a clock less left; it plays     *)
(* while it has any, but for a sweep that goes too high.                   *)
LEMMA LeftAfter ==
  ASSUME VsuSane, timed, NEW c \in Notes, NEW g, Repeats(Notes, Clock, c, g)
  PROVE  \A n \in Nat : Left(g[n]) = Left(c) - n
  <1> DEFINE T == {n \in Nat : Left(g[n]) = Left(c) - n}
  <1>1. Left(c) \in Int
    BY LeftFacts
  <1>2. 0 \in T
    BY <1>1 DEF Repeats
  <1>3. ASSUME NEW n \in T PROVE n + 1 \in T
    <2>1. g[n] \in Notes /\ g[n + 1] = ChunkPlayed(g[n], 1)
      BY DEF Repeats, Clock
    <2>2. Left(g[n + 1]) = Left(g[n]) - 1
      BY <2>1, LeftFacts
    <2>3. Left(g[n]) = Left(c) - n /\ n \in Nat
      OBVIOUS
    <2>4. Left(g[n + 1]) = Left(c) - (n + 1)
      BY <1>1, <2>2, <2>3
    <2> QED BY <2>3, <2>4
  <1>4. T = Nat
    <2>1. T \in SUBSET Nat
      OBVIOUS
    <2> HIDE DEF T
    <2> QED BY <1>2, <1>3, <2>1, InductionOnNat
  <1> QED BY <1>4

LEMMA PlaysOn ==
  ASSUME VsuSane, NEW c \in Notes, c.playing, NEW g, Repeats(Notes, Clock, c, g),
         ~ (channel = "sweep" /\ SweepControl.up)
  PROVE  \A n \in Nat : ~ timed \/ n < Left(c) => g[n].playing
  <1> DEFINE T == {n \in Nat : ~ timed \/ n < Left(c) => g[n].playing}
  <1>1. 0 \in T
    BY DEF Repeats
  <1>2. ASSUME NEW n \in T PROVE n + 1 \in T
    <2>1. n \in Nat /\ n + 1 \in Nat /\ (~ timed \/ n < Left(c) => g[n].playing)
      OBVIOUS
    <2>2. g[n] \in Notes /\ g[n + 1] = ChunkPlayed(g[n], 1)
      BY DEF Repeats, Clock
    <2>3. g[n + 1].playing <=> g[n].playing /\ ~ Ended(g[n])
      BY <2>2, ClockIs
    <2>4. ~ TooHigh(g[n])
      <3>1. CASE channel # "sweep"
        BY <3>1 DEF TooHigh, Shifts, SweepDue, SweepRuns, SweepTicks
      <3>2. CASE ~ SweepControl.up
        <4>1. g[n] \in ChanStates
          BY <2>2 DEF Notes
        <4>2. ShiftedFreq(g[n]) \in Nat /\ ShiftedFreq(g[n]) < FreqTop
          BY <3>2, <4>1, FrequenciesAre
        <4> QED BY <4>2, Parameters DEF TooHigh
      <3> QED BY <3>1, <3>2
    <2>5. CASE ~ timed
      <3>1. ~ RunsOut(g[n])
        BY <2>5 DEF RunsOut
      <3> QED BY <2>1, <2>3, <2>4, <2>5, <3>1 DEF Ended
    <2>6. CASE timed /\ n + 1 < Left(c)
      <3>1. Left(g[n]) = Left(c) - n /\ Left(c) \in Int
        BY <2>1, <2>6, LeftAfter, LeftFacts
      <3>2. g[n].playing
        BY <2>1, <2>6, <3>1
      <3>3. (EffectTicks(g[n]) /\ RunsOut(g[n])) <=> Left(g[n]) = 1
        BY <2>2, <2>6, <3>2, LeftFacts
      <3>4. Left(g[n]) # 1
        BY <2>1, <2>6, <3>1
      <3> QED BY <2>1, <2>3, <2>4, <3>2, <3>3, <3>4 DEF Ended
    <2>7. CASE timed /\ ~ (n + 1 < Left(c))
      BY <2>1, <2>7
    <2> QED BY <2>5, <2>6, <2>7
  <1>3. T = Nat
    <2>1. T \in SUBSET Nat
      OBVIOUS
    <2> HIDE DEF T
    <2> QED BY <1>1, <1>2, <2>1, InductionOnNat
  <1> QED BY <1>3

LEMMA EndsOnTime ==
  ASSUME VsuInv
  PROVE  NotesEndOnTime
  <1> SUFFICES ASSUME chan.playing
               PROVE  /\ timed /\ now - last_ts >= ClocksLeft => ~ Updated.playing
                      /\ ~ timed \/ now - last_ts < ClocksLeft =>
                           Updated.playing \/ (channel = "sweep" /\ SweepControl.up)
    BY DEF NotesEndOnTime
  <1> DEFINE k == now - last_ts
  <1>1. VsuSane /\ chan \in Notes /\ k \in Nat
    BY FitNotes, WaitIs DEF VsuInv
  <1>2. PICK g : Repeats(Notes, Clock, chan, g)
    BY <1>1, ClockRepeats
  <1>3. ClocksLeft = Left(chan)
    BY DEF ClocksLeft, Left
  <1>4. Updated = g[k] /\ g[k] \in Notes
    <2>1. Updated = AfterClocks(chan, k)
      BY DEF Updated
    <2> HIDE DEF k
    <2>2. AfterClocks(chan, k) = g[k]
      BY <1>1, <1>2, AfterRepeats
    <2> QED BY <1>1, <1>2, <2>1, <2>2 DEF Repeats
  <1> HIDE DEF k
  <1>5. ASSUME timed, k >= Left(chan) PROVE ~ g[k].playing
    <2>1. Left(g[k]) = Left(chan) - k /\ Left(chan) \in Int
      BY <1>1, <1>2, <1>5, LeftAfter, LeftFacts
    <2>2. g[k].playing => Left(g[k]) >= 1
      BY <1>1, <1>4, <1>5, LeftFacts
    <2> QED BY <1>1, <1>5, <2>1, <2>2
  <1>6. ASSUME ~ timed \/ k < Left(chan), ~ (channel = "sweep" /\ SweepControl.up)
        PROVE  g[k].playing
    BY <1>1, <1>2, <1>6, PlaysOn
  <1> QED BY <1>3, <1>4, <1>5, <1>6 DEF k

(* A note with an interval is cut to the clock, whatever is written and    *)
(* however late the update; only a sweep that goes too high ends one       *)
(* before (VSU_Update).                                                    *)
THEOREM NotesOnTime == Spec => []NotesEndOnTime
  <1>1. VsuInv => NotesEndOnTime
    BY EndsOnTime
  <1> QED BY <1>1, VsuAlways, PTL

-----------------------------------------------------------------------------
(* The age of a note tells when its dividers expire: q, r and s are the    *)
(* counts of the envelope's, the interval timer's and the effects' divider.*)
AgeTells(T, C, q, r, s, age, round) ==
  /\ age \in Nat
  /\ (age + 1) % C = 0 <=> s = C - 1
  /\ (age + 1) % (C * T) = 0 <=> s = C - 1 /\ r = T - 1
  /\ age + 1 = round <=> s = C - 1 /\ r = T - 1 /\ q = T - 1
  /\ (age + 1) % round = IF age + 1 = round THEN 0 ELSE age + 1

LEMMA AgeTicks ==
  ASSUME NEW T \in Nat \ {0}, NEW C \in Nat \ {0},
         NEW q \in 0 .. T - 1, NEW r \in 0 .. T - 1, NEW s \in 0 .. C - 1,
         NEW age, age = (q * T + r) * C + s, NEW round, round = C * T * T
  PROVE  AgeTells(T, C, q, r, s, age, round)
  <1> DEFINE p == C * T   b == r * C   a == q * p   rd == p * T
  <1>1. p \in Nat \ {0} /\ b \in Nat
    <2>1. C * T >= C
      OBVIOUS
    <2> QED BY <2>1
  <1>2. (q * T + r) * C = a + b
    <2>1. (q * T) * C = q * (C * T)
      OBVIOUS
    <2>2. (q * T + r) * C = (q * T) * C + r * C
      OBVIOUS
    <2> QED BY <2>1, <2>2
  <1>3. b + C <= p /\ (b + C = p <=> r = T - 1)
    <2>1. (T - 1) * C = p - C
      OBVIOUS
    <2>2. r <= T - 1 => r * C <= (T - 1) * C
      OBVIOUS
    <2>3. r <= T - 2 => r * C <= (T - 2) * C /\ (T - 2) * C = p - C - C
      OBVIOUS
    <2>4. r = T - 1 => b = p - C
      BY <2>1
    <2>5. b <= p - C
      BY <2>1, <2>2
    <2>6. r # T - 1 => r <= T - 2
      OBVIOUS
    <2>7. r # T - 1 => b <= p - C - C
      BY <2>3, <2>6
    <2> HIDE DEF b, p
    <2> QED BY <1>1, <2>4, <2>5, <2>7
  <1> HIDE DEF p, b
  <1>5. a \in Nat /\ rd \in Nat \ {0} /\ a + p <= rd /\ (a + p = rd <=> q = T - 1)
    <2>1. (T - 1) * p = p * T - p /\ (T - 2) * p = p * T - p - p
      BY <1>1
    <2>2. q * p <= (T - 1) * p /\ q * p >= 0
      BY <1>1
    <2>3. q <= T - 2 => q * p <= (T - 2) * p
      BY <1>1
    <2>4. q = T - 1 => q * p = p * T - p
      BY <2>1
    <2>5. q * p \in Int /\ p * T \in Int
      BY <1>1
    <2>6. q # T - 1 => q <= T - 2
      OBVIOUS
    <2> DEFINE qp == q * p   pt == p * T
    <2>7. /\ qp \in Int /\ pt \in Int /\ qp >= 0 /\ qp <= pt - p
          /\ q = T - 1 => qp = pt - p
          /\ q # T - 1 => qp <= pt - p - p
      BY <2>1, <2>2, <2>3, <2>4, <2>5, <2>6
    <2> HIDE DEF qp, pt
    <2>8. qp \in Nat /\ pt \in Nat \ {0} /\ qp + p <= pt /\ (qp + p = pt <=> q = T - 1)
      BY <1>1, <2>7
    <2> QED BY <2>8 DEF qp, pt
  <1>6. a = p * q
    BY <1>1
  <1>7. b = C * r
    BY DEF b
  <1>8. a = C * (T * q)
    BY DEF p
  <1>9. rd = C * T * T
    BY DEF p
  <1> HIDE DEF a, rd
  <1> DEFINE n == a + b + s + 1
  <1>10. n \in Nat /\ n <= rd /\ (n = rd <=> s = C - 1 /\ r = T - 1 /\ q = T - 1)
    BY <1>1, <1>3, <1>5
  <1>11. n % C = 0 <=> s = C - 1
    <2>1. CASE s = C - 1
      <3>1. n = C * (T * q + r + 1) + 0
        <4>1. C * (T * q + r + 1) = C * (T * q) + C * r + C
          OBVIOUS
        <4> QED BY <1>1, <1>5, <1>7, <1>8, <2>1, <4>1
      <3>2. T * q + r + 1 \in Int /\ 0 \in 0 .. C - 1 /\ n \in Int
        BY <1>10
      <3> HIDE DEF n
      <3> QED BY <2>1, <3>1, <3>2, DivisionIs
    <2>2. CASE s # C - 1
      <3>1. n = C * (T * q + r) + (s + 1)
        <4>1. C * (T * q + r) = C * (T * q) + C * r
          OBVIOUS
        <4> QED BY <1>1, <1>5, <1>7, <1>8, <4>1
      <3>2. T * q + r \in Int /\ s + 1 \in 0 .. C - 1 /\ n \in Int
        BY <1>10, <2>2
      <3> HIDE DEF n
      <3>3. n % C = s + 1
        BY <3>1, <3>2, DivisionIs
      <3> QED BY <2>2, <3>3
    <2> QED BY <2>1, <2>2
  <1>12. n % p = 0 <=> s = C - 1 /\ r = T - 1
    <2>1. CASE s = C - 1 /\ r = T - 1
      <3>1. n = p * (q + 1) + 0
        <4>1. p * (q + 1) = p * q + p
          BY <1>1
        <4> QED BY <1>1, <1>3, <1>5, <1>6, <2>1, <4>1
      <3>2. q + 1 \in Int /\ 0 \in 0 .. p - 1 /\ n \in Int
        BY <1>1, <1>10
      <3> HIDE DEF n
      <3> QED BY <1>1, <2>1, <3>1, <3>2, DivisionIs
    <2>2. CASE ~ (s = C - 1 /\ r = T - 1)
      <3>1. n = p * q + (b + s + 1)
        BY <1>1, <1>5, <1>6
      <3>2. b + s + 1 \in 1 .. p - 1 /\ b + s + 1 \in 0 .. p - 1 /\ n \in Int /\ q \in Int
        BY <1>1, <1>3, <1>10, <2>2
      <3> DEFINE m == b + s + 1
      <3> HIDE DEF n, m
      <3>3. n % p = m
        BY <1>1, <3>1, <3>2, DivisionIs DEF m
      <3> QED BY <2>2, <3>2, <3>3 DEF m
    <2> QED BY <2>1, <2>2
  <1>13. n % rd = IF n = rd THEN 0 ELSE n
    <2> HIDE DEF n
    <2>1. CASE n = rd
      <3>1. n = rd * 1 + 0 /\ 0 \in 0 .. rd - 1
        BY <1>5, <2>1
      <3> QED BY <1>5, <1>10, <2>1, <3>1, DivisionIs
    <2>2. CASE n # rd
      <3>1. n = rd * 0 + n /\ n \in 0 .. rd - 1
        BY <1>5, <1>10, <2>2
      <3> QED BY <1>5, <1>10, <2>2, <3>1, DivisionIs
    <2> QED BY <2>1, <2>2
  <1>14. age + 1 = n /\ age \in Nat
    BY <1>1, <1>2, <1>5
  <1>15. p = C * T /\ rd = round
    BY <1>9 DEF p
  <1> HIDE DEF n
  <1> QED BY <1>10, <1>11, <1>12, <1>13, <1>14, <1>15 DEF AgeTells

(* What AsNote says of a channel that plays. *)
Age(c) == ((Ticks - c.EnvelopeClockDivider) * Ticks + Ticks - c.IntervalClockDivider)
            * EffectClocks + EffectClocks - c.EffectsClockDivider

LEMMA NoteIs ==
  ASSUME NEW c, c.playing
  PROVE  AsNote(c) =
           [playing |-> TRUE, level |-> c.Envelope,
            freq |-> c.EffFreq, step |-> c.FreqCounter, pos |-> c.WavePos, age |-> Age(c),
            rest |-> c.IntervalCounter, fade |-> c.EnvelopeCounter,
            latch |-> c.NoiseLatcherClockDivider, latched |-> c.NoiseLatcher,
            sweepclock |-> c.SweepModClockDivider,
            sweepcount |-> c.SweepModCounter, modpos |-> c.ModWavePos]
  BY DEF AsNote, Age

LEMMA AgeFacts ==
  ASSUME NEW c \in Notes
  PROVE  /\ Age(c) \in Nat
         /\ (Age(c) + 1) % EffectClocks = 0 <=> EffectTicks(c)
         /\ (Age(c) + 1) % (EffectClocks * Ticks) = 0 <=> EffectTicks(c) /\ TimerTicks(c)
         /\ Age(c) + 1 = SoundChannel!Round <=> EffectTicks(c) /\ FadeTicks(c)
         /\ (Age(c) + 1) % SoundChannel!Round =
              IF EffectTicks(c) /\ FadeTicks(c) THEN 0 ELSE Age(c) + 1
  <1> DEFINE T == Ticks   C == EffectClocks
             q == T - c.EnvelopeClockDivider   r == T - c.IntervalClockDivider
             s == C - c.EffectsClockDivider
             age == (q * T + r) * C + s   round == C * T * T
  <1>1. T \in Nat \ {0} /\ C \in Nat \ {0}
    BY Parameters
  <1>2. /\ c.EnvelopeClockDivider \in 1 .. T /\ c.IntervalClockDivider \in 1 .. T
        /\ c.EffectsClockDivider \in 1 .. C
    BY DEF Notes, ChanStates
  <1>3. q \in 0 .. T - 1 /\ r \in 0 .. T - 1 /\ s \in 0 .. C - 1
    BY <1>1, <1>2
  <1>4. /\ EffectTicks(c) <=> s = C - 1
        /\ TimerTicks(c) <=> r = T - 1
        /\ FadeTicks(c) <=> r = T - 1 /\ q = T - 1
    BY <1>1, <1>2 DEF EffectTicks, TimerTicks, FadeTicks
  <1>5. Age(c) = age
    <2>1. Age(c) = (q * T + T - c.IntervalClockDivider) * C + C - c.EffectsClockDivider
      BY DEF Age
    <2>2. q * T \in Int
      BY <1>1, <1>3
    <2>3. q * T + T - c.IntervalClockDivider = q * T + r
      BY <1>1, <1>2, <2>2
    <2>4. (q * T + r) * C \in Int
      BY <1>1, <1>3, <2>2
    <2> DEFINE y == (q * T + r) * C
    <2>5. Age(c) = y + C - c.EffectsClockDivider
      BY <2>1, <2>3
    <2>6. y \in Int
      BY <2>4
    <2> HIDE DEF y
    <2>7. Age(c) = y + s
      BY <1>1, <1>2, <2>5, <2>6
    <2> QED BY <2>7 DEF y
  <1>6. SoundChannel!Round = round
    BY DEF SoundChannel!Round
  <1>7. /\ age \in Nat
        /\ (age + 1) % C = 0 <=> s = C - 1
        /\ (age + 1) % (C * T) = 0 <=> s = C - 1 /\ r = T - 1
        /\ age + 1 = round <=> s = C - 1 /\ r = T - 1 /\ q = T - 1
        /\ (age + 1) % round = IF age + 1 = round THEN 0 ELSE age + 1
    <2>1. age = (q * T + r) * C + s /\ round = C * T * T
      OBVIOUS
    <2> HIDE DEF q, r, s, T, C, age, round
    <2>2. AgeTells(T, C, q, r, s, age, round)
      BY <1>1, <1>3, <2>1, AgeTicks
    <2> QED BY <2>2 DEF AgeTells
  <1> HIDE DEF age, round, q, r, s
  <1> QED BY <1>4, <1>5, <1>6, <1>7

(* A clock makes a note a clock older. *)
LEMMA AgeAfter ==
  ASSUME VsuSane, NEW c \in Notes
  PROVE  Age(ChunkPlayed(c, 1)) = (Age(c) + 1) % SoundChannel!Round
  <1> DEFINE u == ChunkPlayed(c, 1)   T == Ticks   C == EffectClocks
             x == c.EnvelopeClockDivider   d == c.IntervalClockDivider
             e == c.EffectsClockDivider
             A(x1, d1, e1) == ((T - x1) * T + T - d1) * C + C - e1
             older == (Age(c) + 1) % SoundChannel!Round
  <1>1. T \in Nat \ {0} /\ C \in Nat \ {0}
    BY Parameters
  <1>2. x \in 1 .. T /\ d \in 1 .. T /\ e \in 1 .. C
    BY DEF Notes, ChanStates
  <1>3. /\ u.EffectsClockDivider = IF EffectTicks(c) THEN EffectClocks ELSE e - 1
        /\ ~ EffectTicks(c) => SameTimers(c, u)
        /\ EffectTicks(c) => TimersMoved(c, u)
    BY ClockIs
  <1>4. /\ Age(c) = A(x, d, e)
        /\ Age(u) = A(u.EnvelopeClockDivider, u.IntervalClockDivider, u.EffectsClockDivider)
    BY DEF Age
  <1>5. older = IF EffectTicks(c) /\ FadeTicks(c) THEN 0 ELSE Age(c) + 1
    BY AgeFacts
  <1>6. /\ EffectTicks(c) <=> e = 1
        /\ TimerTicks(c) <=> d = 1
        /\ FadeTicks(c) <=> d = 1 /\ x = 1
    BY DEF EffectTicks, TimerTicks, FadeTicks
  <1> HIDE DEF u, x, d, e, T, C, older
  <1> DEFINE j == (T - x) * T
  <1>7. j \in Int /\ (T - T) * T = 0 /\ (T - (x - 1)) * T = j + T
    <2>1. T - (x - 1) = (T - x) + 1
      BY <1>1, <1>2
    <2>2. ((T - x) + 1) * T = (T - x) * T + T
      BY <1>1, <1>2
    <2> QED BY <1>1, <1>2, <2>1, <2>2
  <1> DEFINE i == (j + T - d) * C
  <1>8. i \in Int /\ (j + T - (d - 1)) * C = i + C
    <2> HIDE DEF j
    <2>1. j + T - (d - 1) = (j + T - d) + 1
      BY <1>1, <1>2, <1>7
    <2>2. ((j + T - d) + 1) * C = (j + T - d) * C + C
      BY <1>1, <1>2, <1>7
    <2> QED BY <1>1, <1>2, <1>7, <2>1, <2>2
  <1>9. A(x, d, e) = i + C - e /\ A(x, d, e) \in Int
    <2>1. A(x, d, e) = i + C - e
      OBVIOUS
    <2> HIDE DEF i, A
    <2> QED BY <1>1, <1>2, <1>8, <2>1
  <1> SUFFICES Age(u) = older
    BY DEF u, older
  <1>10. CASE e # 1
    <2>1. Age(u) = A(x, d, e - 1)
      BY <1>3, <1>4, <1>6, <1>10 DEF SameTimers, x, d
    <2>2. A(x, d, e - 1) = i + C - (e - 1)
      OBVIOUS
    <2> HIDE DEF i, A
    <2> QED BY <1>1, <1>2, <1>4, <1>5, <1>6, <1>8, <1>9, <1>10, <2>1, <2>2
  <1>11. CASE e = 1 /\ d # 1
    <2>1. Age(u) = A(x, d - 1, C)
      BY <1>3, <1>4, <1>6, <1>11 DEF TimersMoved, x, d, C
    <2>2. A(x, d - 1, C) = (j + T - (d - 1)) * C + C - C
      OBVIOUS
    <2> HIDE DEF i, A, j
    <2> QED BY <1>1, <1>2, <1>4, <1>5, <1>6, <1>8, <1>9, <1>11, <2>1, <2>2
  <1>12. CASE e = 1 /\ d = 1 /\ x # 1
    <2>1. Age(u) = A(x - 1, T, C)
      BY <1>3, <1>4, <1>6, <1>12 DEF TimersMoved, x, d, C, T
    <2>2. A(x - 1, T, C) = ((T - (x - 1)) * T + T - T) * C + C - C
      OBVIOUS
    <2>3. (T - (x - 1)) * T + T - T = j + T - (d - 1)
      <3> HIDE DEF j
      <3> QED BY <1>1, <1>2, <1>7, <1>12
    <2>4. A(x - 1, T, C) = (j + T - (d - 1)) * C + C - C
      BY <2>2, <2>3
    <2> HIDE DEF i, A, j
    <2> QED BY <1>1, <1>2, <1>4, <1>5, <1>6, <1>8, <1>9, <1>12, <2>1, <2>4
  <1>13. CASE e = 1 /\ d = 1 /\ x = 1
    <2>1. Age(u) = A(T, T, C)
      BY <1>3, <1>4, <1>6, <1>13 DEF TimersMoved, x, d, C, T
    <2>2. A(T, T, C) = ((T - T) * T + T - T) * C + C - C
      OBVIOUS
    <2>3. (T - T) * T + T - T = 0
      BY <1>1, <1>7
    <2>4. A(T, T, C) = 0 * C + C - C
      BY <2>2, <2>3
    <2>5. 0 * C + C - C = 0
      BY <1>1
    <2> QED BY <1>5, <1>6, <1>13, <2>1, <2>4, <2>5
  <1> QED BY <1>10, <1>11, <1>12, <1>13

-----------------------------------------------------------------------------
(* A note, and one with every field but playing replaced. *)
NoteWith(p, a, b, c, d, e, f, g, h, i, j, k, l) ==
  [playing |-> p, level |-> a, freq |-> b, step |-> c, pos |-> d, age |-> e,
   rest |-> f, fade |-> g, latch |-> h, latched |-> i, sweepclock |-> j,
   sweepcount |-> k, modpos |-> l]

NoteReplacing(note, a, b, c, d, e, f, g, h, i, j, k, l) ==
  [note EXCEPT !.level = a, !.fade = g, !.freq = b, !.step = c, !.pos = d, !.age = e,
               !.rest = f, !.latch = h, !.latched = i, !.sweepclock = j,
               !.sweepcount = k, !.modpos = l]

LEMMA NoteReplaced ==
  ASSUME NEW p,
         NEW a0, NEW b0, NEW c0, NEW d0, NEW e0, NEW f0,
         NEW g0, NEW h0, NEW i0, NEW j0, NEW k0, NEW l0,
         NEW a1, NEW b1, NEW c1, NEW d1, NEW e1, NEW f1,
         NEW g1, NEW h1, NEW i1, NEW j1, NEW k1, NEW l1
  PROVE  NoteReplacing(NoteWith(p, a0, b0, c0, d0, e0, f0, g0, h0, i0, j0, k0, l0),
                       a1, b1, c1, d1, e1, f1, g1, h1, i1, j1, k1, l1)
         = NoteWith(p, a1, b1, c1, d1, e1, f1, g1, h1, i1, j1, k1, l1)
  <1> DEFINE n0 == NoteWith(p, a0, b0, c0, d0, e0, f0, g0, h0, i0, j0, k0, l0)
             n1 == [n0 EXCEPT !.level = a1]
             n2 == [n1 EXCEPT !.fade = g1]
             n3 == [n2 EXCEPT !.freq = b1]
             n4 == [n3 EXCEPT !.step = c1]
             n5 == [n4 EXCEPT !.pos = d1]
             n6 == [n5 EXCEPT !.age = e1]
             n7 == [n6 EXCEPT !.rest = f1]
             n8 == [n7 EXCEPT !.latch = h1]
             n9 == [n8 EXCEPT !.latched = i1]
             n10 == [n9 EXCEPT !.sweepclock = j1]
             n11 == [n10 EXCEPT !.sweepcount = k1]
             n12 == [n11 EXCEPT !.modpos = l1]
  <1>1. n1 = NoteWith(p, a1, b0, c0, d0, e0, f0, g0, h0, i0, j0, k0, l0)
    BY DEF NoteWith
  <1> HIDE DEF n1
  <1>2. n2 = NoteWith(p, a1, b0, c0, d0, e0, f0, g1, h0, i0, j0, k0, l0)
    BY <1>1 DEF NoteWith
  <1> HIDE DEF n2
  <1>3. n3 = NoteWith(p, a1, b1, c0, d0, e0, f0, g1, h0, i0, j0, k0, l0)
    BY <1>2 DEF NoteWith
  <1> HIDE DEF n3
  <1>4. n4 = NoteWith(p, a1, b1, c1, d0, e0, f0, g1, h0, i0, j0, k0, l0)
    BY <1>3 DEF NoteWith
  <1> HIDE DEF n4
  <1>5. n5 = NoteWith(p, a1, b1, c1, d1, e0, f0, g1, h0, i0, j0, k0, l0)
    BY <1>4 DEF NoteWith
  <1> HIDE DEF n5
  <1>6. n6 = NoteWith(p, a1, b1, c1, d1, e1, f0, g1, h0, i0, j0, k0, l0)
    BY <1>5 DEF NoteWith
  <1> HIDE DEF n6
  <1>7. n7 = NoteWith(p, a1, b1, c1, d1, e1, f1, g1, h0, i0, j0, k0, l0)
    BY <1>6 DEF NoteWith
  <1> HIDE DEF n7
  <1>8. n8 = NoteWith(p, a1, b1, c1, d1, e1, f1, g1, h1, i0, j0, k0, l0)
    BY <1>7 DEF NoteWith
  <1> HIDE DEF n8
  <1>9. n9 = NoteWith(p, a1, b1, c1, d1, e1, f1, g1, h1, i1, j0, k0, l0)
    BY <1>8 DEF NoteWith
  <1> HIDE DEF n9
  <1>10. n10 = NoteWith(p, a1, b1, c1, d1, e1, f1, g1, h1, i1, j1, k0, l0)
    BY <1>9 DEF NoteWith
  <1> HIDE DEF n10
  <1>11. n11 = NoteWith(p, a1, b1, c1, d1, e1, f1, g1, h1, i1, j1, k1, l0)
    BY <1>10 DEF NoteWith
  <1> HIDE DEF n11
  <1>12. n12 = NoteWith(p, a1, b1, c1, d1, e1, f1, g1, h1, i1, j1, k1, l1)
    BY <1>11 DEF NoteWith
  <1> QED BY <1>12 DEF NoteReplacing, n1, n2, n3, n4, n5, n6, n7, n8, n9, n10, n11

LEMMA NextLevelAgrees ==
  ASSUME VsuSane, NEW note, note.level \in 0 .. EnvelopeMax
  PROVE  SoundChannel!NextLevel(note) = NextLevel(note.level)
  <1> DEFINE v == note.level   m == EnvelopeMax
             grow == EnvControl.lo.grow   rep == EnvControl.hi.repeat
  <1>1. v \in 0 .. m /\ m \in Nat \ {0} /\ grow \in BOOLEAN /\ rep \in BOOLEAN
    BY Parameters DEF VsuSane, EnvLow, EnvHigh
  <1>2. NextLevel(v) =
          IF grow THEN IF v < m \/ rep THEN (v + 1) % (m + 1) ELSE v
          ELSE IF v > 0 \/ rep THEN (v - 1) % (m + 1) ELSE v
    BY DEF NextLevel
  <1>3. SoundChannel!NextLevel(note) =
          IF v + (IF grow THEN 1 ELSE -1) \in 0 .. m THEN v + (IF grow THEN 1 ELSE -1)
          ELSE IF rep THEN m - v ELSE v
    BY DEF SoundChannel!NextLevel
  <1> HIDE DEF v, m, grow, rep
  <1>4. /\ v < m => (v + 1) % (m + 1) = v + 1
        /\ v = m => (v + 1) % (m + 1) = 0
        /\ v > 0 => (v - 1) % (m + 1) = v - 1
        /\ v = 0 => (v - 1) % (m + 1) = m
    <2>1. \A x \in 0 .. m : x % (m + 1) = x
      BY <1>1
    <2>2. ASSUME v = m PROVE (v + 1) % (m + 1) = 0
      <3>1. v + 1 = (m + 1) * 1 + 0 /\ 0 \in 0 .. (m + 1) - 1 /\ m + 1 \in Nat \ {0}
            /\ v + 1 \in Int
        BY <1>1, <2>2
      <3> DEFINE w == v + 1   n == m + 1
      <3> HIDE DEF w, n
      <3>2. w % n = 0
        BY <3>1, DivisionIs DEF w, n
      <3> QED BY <3>2 DEF w, n
    <2>3. ASSUME v = 0 PROVE (v - 1) % (m + 1) = m
      <3>1. v - 1 = (m + 1) * (-1) + m /\ m \in 0 .. (m + 1) - 1 /\ m + 1 \in Nat \ {0}
            /\ v - 1 \in Int /\ -1 \in Int
        BY <1>1, <2>3
      <3> DEFINE w == v - 1   n == m + 1
      <3> HIDE DEF w, n
      <3>2. w % n = m
        BY <3>1, DivisionIs DEF w, n
      <3> QED BY <3>2 DEF w, n
    <2>4. v < m => v + 1 \in 0 .. m
      BY <1>1
    <2>5. v > 0 => v - 1 \in 0 .. m
      BY <1>1
    <2> QED BY <2>1, <2>2, <2>3, <2>4, <2>5
  <1>5. /\ v + 1 \in 0 .. m <=> v < m
        /\ v + (-1) \in 0 .. m <=> v > 0
        /\ v + (-1) = v - 1 /\ (v < m \/ v = m) /\ (v > 0 \/ v = 0)
        /\ ~ (v = m /\ v < m) /\ ~ (v = 0 /\ v > 0)
        /\ v = m => m - v = 0
        /\ v = 0 => m - v = m
    BY <1>1
  <1>6. CASE grow
    <2>1. NextLevel(v) = IF v < m \/ rep THEN (v + 1) % (m + 1) ELSE v
      BY <1>2, <1>6
    <2>2. SoundChannel!NextLevel(note) =
            IF v + 1 \in 0 .. m THEN v + 1 ELSE IF rep THEN m - v ELSE v
      BY <1>3, <1>6
    <2>3. SoundChannel!NextLevel(note) = NextLevel(v)
      BY <1>1, <1>4, <1>5, <2>1, <2>2
    <2> QED BY <2>3 DEF v
  <1>7. CASE ~ grow
    <2>1. NextLevel(v) = IF v > 0 \/ rep THEN (v - 1) % (m + 1) ELSE v
      BY <1>2, <1>7
    <2>2. SoundChannel!NextLevel(note) =
            IF v + (-1) \in 0 .. m THEN v + (-1) ELSE IF rep THEN m - v ELSE v
      BY <1>3, <1>7
    <2>3. SoundChannel!NextLevel(note) = NextLevel(v)
      BY <1>1, <1>4, <1>5, <2>1, <2>2
    <2> QED BY <2>3 DEF v
  <1> QED BY <1>6, <1>7

(* What the present clock brings, and whether it is a note's last, the     *)
(* note tells as the channel does.                                         *)
LEMMA NoteTells ==
  ASSUME VsuSane, NEW c \in Notes, c.playing, NEW note, note = AsNote(c)
  PROVE  /\ SoundChannel!Tick(note) <=> EffectTicks(c)
         /\ SoundChannel!TimeTick(note) <=> timed /\ EffectTicks(c) /\ TimerTicks(c)
         /\ SoundChannel!FadeTick(note) <=>
              EnvControl.hi.enable /\ EffectTicks(c) /\ FadeTicks(c)
         /\ SoundChannel!SweepTick(note) <=> EffectTicks(c) /\ SweepTicks(c)
         /\ SoundChannel!SweepRuns(note) <=> EffectTicks(c) /\ SweepRuns(c)
         /\ SoundChannel!Sweeps(note) <=> EffectTicks(c) /\ SweepDue(c)
         /\ SoundChannel!Modulates(note) <=> EffectTicks(c) /\ Bends(c)
  <1>1. /\ note.age = Age(c) /\ note.sweepclock = c.SweepModClockDivider
        /\ note.sweepcount = c.SweepModCounter /\ note.modpos = c.ModWavePos
    BY NoteIs
  <1>2. /\ (Age(c) + 1) % EffectClocks = 0 <=> EffectTicks(c)
        /\ (Age(c) + 1) % (EffectClocks * Ticks) = 0 <=> EffectTicks(c) /\ TimerTicks(c)
        /\ Age(c) + 1 = SoundChannel!Round <=> EffectTicks(c) /\ FadeTicks(c)
    BY AgeFacts
  <1>3. SoundChannel!Tick(note) <=> EffectTicks(c)
    BY <1>1, <1>2 DEF SoundChannel!Tick
  <1>4. SoundChannel!TimeTick(note) <=> timed /\ EffectTicks(c) /\ TimerTicks(c)
    BY <1>1, <1>2 DEF SoundChannel!TimeTick
  <1>5. SoundChannel!FadeTick(note) <=> EnvControl.hi.enable /\ EffectTicks(c) /\ FadeTicks(c)
    BY <1>1, <1>2 DEF SoundChannel!FadeTick
  <1>6. SoundChannel!SweepTick(note) <=> EffectTicks(c) /\ SweepTicks(c)
    BY <1>1, <1>3 DEF SoundChannel!SweepTick, SweepTicks
  <1>7. SoundChannel!SweepRuns(note) <=> EffectTicks(c) /\ SweepRuns(c)
    BY <1>6 DEF SoundChannel!SweepRuns, SweepRuns
  <1>8. SoundChannel!Sweeps(note) <=> EffectTicks(c) /\ SweepDue(c)
    BY <1>1, <1>7 DEF SoundChannel!Sweeps, SweepDue
  <1>9. SoundChannel!Modulates(note) <=> EffectTicks(c) /\ Bends(c)
    BY <1>1, <1>8 DEF SoundChannel!Modulates, Bends, ModLen
  <1> QED BY <1>3, <1>4, <1>5, <1>6, <1>7, <1>8, <1>9

LEMMA NextFreqAgrees ==
  ASSUME VsuSane, NEW c \in Notes, c.playing, NEW note, note = AsNote(c)
  PROVE  /\ SoundChannel!NextFreq(note) =
              IF EffectTicks(c) /\ Bends(c) THEN BentFreq(c)
              ELSE IF EffectTicks(c) /\ Shifts(c) THEN ShiftedFreq(c)
              ELSE c.EffFreq
         /\ SoundChannel!Ends(note) <=> Ended(c)
  <1> DEFINE bend == c.EffFreq \div (2 ^ SweepControl.shift)
  <1>1. /\ note.freq = c.EffFreq /\ note.modpos = c.ModWavePos
        /\ note.rest = c.IntervalCounter
    BY NoteIs
  <1>2. /\ SoundChannel!Modulates(note) <=> EffectTicks(c) /\ Bends(c)
        /\ SoundChannel!Sweeps(note) /\ ~ EnvControl.hi.modulate <=> EffectTicks(c) /\ Shifts(c)
        /\ SoundChannel!TimeTick(note) <=> timed /\ EffectTicks(c) /\ TimerTicks(c)
    BY NoteTells DEF Shifts
  <1>3. SoundChannel!FreqTop = FreqTop
    BY DEF SoundChannel!FreqTop, FreqTop
  <1>4. bend \in Int /\ c.EffFreq \in 0 .. FreqTop - 1 /\ FreqTop \in Nat \ {0}
    <2>1. c.EffFreq \in 0 .. FreqTop - 1 /\ FreqTop \in Nat \ {0}
      BY Parameters DEF Notes, ChanStates
    <2>2. SweepControl.shift \in 0 .. 7
      BY DEF VsuSane, Sweep
    <2> DEFINE p == 2 ^ SweepControl.shift
    <2>3. p \in Nat \ {0}
      BY <2>2, Powers
    <2> HIDE DEF p
    <2>4. c.EffFreq \div p \in Int
      BY <2>1, <2>3
    <2> QED BY <2>1, <2>4 DEF p
  <1>5. ShiftedFreq(c) = IF SweepControl.up THEN c.EffFreq + bend ELSE c.EffFreq - bend
    BY DEF ShiftedFreq
  <1>6. BentFreq(c) = (Frequency + ModData[note.modpos % WaveLen]) % FreqTop
    BY <1>1 DEF BentFreq, ModLen
  <1>7. SoundChannel!NextFreq(note) =
          IF SoundChannel!Modulates(note)
          THEN (Frequency + ModData[note.modpos % WaveLen]) % FreqTop
          ELSE IF SoundChannel!Sweeps(note) /\ ~ EnvControl.hi.modulate
               THEN c.EffFreq + (IF SweepControl.up THEN bend ELSE -bend)
               ELSE c.EffFreq
    BY <1>1, <1>3 DEF SoundChannel!NextFreq
  <1> HIDE DEF bend
  <1>8. c.EffFreq + (IF SweepControl.up THEN bend ELSE -bend) = ShiftedFreq(c)
    BY <1>4, <1>5
  <1>9. SoundChannel!NextFreq(note) =
          IF EffectTicks(c) /\ Bends(c) THEN BentFreq(c)
          ELSE IF EffectTicks(c) /\ Shifts(c) THEN ShiftedFreq(c)
          ELSE c.EffFreq
    BY <1>2, <1>6, <1>7, <1>8
  <1>10. BentFreq(c) \in 0 .. FreqTop - 1
    BY FrequenciesAre DEF Notes
  <1>11. ~ (Bends(c) /\ Shifts(c))
    BY DEF Bends, Shifts
  <1>12. SoundChannel!NextFreq(note) >= FreqTop <=> EffectTicks(c) /\ TooHigh(c)
    <2>1. CASE EffectTicks(c) /\ Bends(c)
      <3>1. SoundChannel!NextFreq(note) = BentFreq(c) /\ ~ TooHigh(c)
        BY <1>9, <1>11, <2>1 DEF TooHigh
      <3> QED BY <1>4, <1>10, <3>1
    <2>2. CASE EffectTicks(c) /\ Shifts(c)
      <3>1. SoundChannel!NextFreq(note) = ShiftedFreq(c)
        BY <1>9, <1>11, <2>2
      <3> QED BY <2>2, <3>1 DEF TooHigh
    <2>3. CASE ~ (EffectTicks(c) /\ Bends(c)) /\ ~ (EffectTicks(c) /\ Shifts(c))
      <3>1. SoundChannel!NextFreq(note) = c.EffFreq /\ ~ (EffectTicks(c) /\ TooHigh(c))
        BY <1>9, <2>3 DEF TooHigh
      <3> QED BY <1>4, <3>1
    <2> QED BY <2>1, <2>2, <2>3
  <1>13. SoundChannel!Ends(note) <=> Ended(c)
    BY <1>1, <1>2, <1>3, <1>12 DEF SoundChannel!Ends, Ended, RunsOut
  <1> QED BY <1>9, <1>13

(* A clock of the channel is a clock of the note. *)
LEMMA ClockAgrees ==
  ASSUME VsuSane, NEW c \in Notes, c.playing, ChunkPlayed(c, 1).playing
  PROVE  AsNote(ChunkPlayed(c, 1)) = SoundChannel!Clocked(AsNote(c))
  <1> DEFINE u == ChunkPlayed(c, 1)   note == AsNote(c)
             level == IF SoundChannel!FadeTick(note) /\ note.fade = 1
                      THEN SoundChannel!NextLevel(note) ELSE note.level
             fade  == IF ~ SoundChannel!FadeTick(note) THEN note.fade
                      ELSE IF note.fade = 1 THEN EnvControl.lo.reload + 1 ELSE note.fade - 1
             freq  == SoundChannel!NextFreq(note)
             step  == IF note.step = 1 THEN SoundChannel!StepClocks(note.freq)
                      ELSE note.step - 1
             pos   == SoundChannel!NextPos(note)
             age   == (note.age + 1) % SoundChannel!Round
             rest  == IF SoundChannel!TimeTick(note) THEN note.rest - 1 ELSE note.rest
             latch == IF SoundChannel!Latches(note) THEN LatchClocks
                      ELSE IF channel = "noise" THEN note.latch - 1 ELSE note.latch
             latched == IF SoundChannel!Latches(note) THEN SoundChannel!NextPos(note)
                        ELSE note.latched
             sweepclock == IF SoundChannel!SweepTick(note)
                           THEN IF SweepControl.slow THEN SlowSweep ELSE 1
                           ELSE IF channel = "sweep" /\ SoundChannel!Tick(note)
                                THEN note.sweepclock - 1 ELSE note.sweepclock
             sweepcount == IF SoundChannel!Sweeps(note) THEN SweepControl.interval
                           ELSE IF SoundChannel!SweepRuns(note) THEN note.sweepcount - 1
                           ELSE note.sweepcount
             modpos == IF SoundChannel!Modulates(note) THEN (note.modpos % WaveLen) + 1
                       ELSE note.modpos
  <1>1. note = NoteWith(TRUE, c.Envelope, c.EffFreq, c.FreqCounter, c.WavePos, Age(c),
                        c.IntervalCounter, c.EnvelopeCounter, c.NoiseLatcherClockDivider,
                        c.NoiseLatcher, c.SweepModClockDivider, c.SweepModCounter,
                        c.ModWavePos)
    BY NoteIs DEF NoteWith
  <1>2. AsNote(u) = NoteWith(TRUE, u.Envelope, u.EffFreq, u.FreqCounter, u.WavePos, Age(u),
                        u.IntervalCounter, u.EnvelopeCounter, u.NoiseLatcherClockDivider,
                        u.NoiseLatcher, u.SweepModClockDivider, u.SweepModCounter,
                        u.ModWavePos)
    BY NoteIs DEF NoteWith
  <1>3. SoundChannel!Clocked(note) =
          [note EXCEPT !.level = level, !.fade = fade, !.freq = freq, !.step = step,
                       !.pos = pos, !.age = age, !.rest = rest, !.latch = latch,
                       !.latched = latched, !.sweepclock = sweepclock,
                       !.sweepcount = sweepcount, !.modpos = modpos]
    BY DEF SoundChannel!Clocked
  <1>4. /\ note.level = c.Envelope /\ note.freq = c.EffFreq /\ note.step = c.FreqCounter
        /\ note.pos = c.WavePos /\ note.age = Age(c) /\ note.rest = c.IntervalCounter
        /\ note.fade = c.EnvelopeCounter /\ note.latch = c.NoiseLatcherClockDivider
        /\ note.latched = c.NoiseLatcher /\ note.sweepclock = c.SweepModClockDivider
        /\ note.sweepcount = c.SweepModCounter /\ note.modpos = c.ModWavePos
    BY NoteIs
  <1>5. /\ u \in Notes /\ WaveMoved(c, u)
        /\ ~ EffectTicks(c) => SameTimers(c, u) /\ SameSweep(c, u)
        /\ EffectTicks(c) => TimersMoved(c, u) /\ SweepMoved(c, u)
        /\ ~ Ended(c)
    BY ClockIs
  <1>6. /\ SoundChannel!Tick(note) <=> EffectTicks(c)
        /\ SoundChannel!TimeTick(note) <=> timed /\ EffectTicks(c) /\ TimerTicks(c)
        /\ SoundChannel!FadeTick(note) <=>
             EnvControl.hi.enable /\ EffectTicks(c) /\ FadeTicks(c)
        /\ SoundChannel!SweepTick(note) <=> EffectTicks(c) /\ SweepTicks(c)
        /\ SoundChannel!SweepRuns(note) <=> EffectTicks(c) /\ SweepRuns(c)
        /\ SoundChannel!Sweeps(note) <=> EffectTicks(c) /\ SweepDue(c)
        /\ SoundChannel!Modulates(note) <=> EffectTicks(c) /\ Bends(c)
    BY NoteTells
  <1>7. freq = IF EffectTicks(c) /\ Bends(c) THEN BentFreq(c)
               ELSE IF EffectTicks(c) /\ Shifts(c) THEN ShiftedFreq(c)
               ELSE c.EffFreq
    BY NextFreqAgrees
  <1>8. Age(u) = age
    BY <1>4, AgeAfter
  <1>9. SoundChannel!NextLevel(note) = NextLevel(c.Envelope)
    <2>1. c.Envelope \in 0 .. EnvelopeMax
      BY DEF Notes, ChanStates
    <2> HIDE DEF note
    <2> QED BY <1>4, <2>1, NextLevelAgrees
  <1>10. SoundChannel!StepClocks(c.EffFreq) = Period(c.EffFreq)
    <2>1. c.EffFreq \in 0 .. FreqTop - 1 /\ FreqTop \in Nat
      BY Parameters DEF Notes, ChanStates
    <2> QED BY <2>1 DEF SoundChannel!StepClocks, Period, SoundChannel!FreqTop, FreqTop
  <1> HIDE DEF note, u
  <1>11. u.Envelope = level
    BY <1>4, <1>5, <1>6, <1>9 DEF TimersMoved, SameTimers
  <1>12. u.EnvelopeCounter = fade
    BY <1>4, <1>5, <1>6 DEF TimersMoved, SameTimers
  <1>13. u.EffFreq = freq
    <2> HIDE DEF freq
    <2>1. EffectTicks(c) => ~ TooHigh(c)
      BY <1>5 DEF Ended
    <2> QED BY <1>5, <1>7, <2>1 DEF SweepMoved, SameSweep
  <1>14. u.FreqCounter = step
    BY <1>4, <1>5, <1>10 DEF WaveMoved
  <1>15. u.WavePos = pos
    BY <1>4, <1>5 DEF WaveMoved, SoundChannel!NextPos
  <1>16. u.IntervalCounter = rest
    BY <1>4, <1>5, <1>6 DEF TimersMoved, SameTimers
  <1>17. u.NoiseLatcherClockDivider = latch
    BY <1>4, <1>5 DEF WaveMoved, SoundChannel!Latches
  <1>18. u.NoiseLatcher = latched
    BY <1>4, <1>5, <1>15 DEF WaveMoved, SoundChannel!Latches
  <1>19. u.SweepModClockDivider = sweepclock
    BY <1>4, <1>5, <1>6 DEF SweepMoved, SameSweep, SweepPeriod
  <1>20. u.SweepModCounter = sweepcount
    BY <1>4, <1>5, <1>6 DEF SweepMoved, SameSweep
  <1>21. u.ModWavePos = modpos
    BY <1>4, <1>5, <1>6 DEF SweepMoved, SameSweep, ModLen
  <1> HIDE DEF level, fade, freq, step, pos, age, rest, latch, latched, sweepclock,
               sweepcount, modpos
  <1>22. SoundChannel!Clocked(note) =
           NoteWith(TRUE, level, freq, step, pos, age, rest, fade, latch, latched,
                    sweepclock, sweepcount, modpos)
    <2>1. SoundChannel!Clocked(note) =
            NoteReplacing(note, level, freq, step, pos, age, rest, fade, latch, latched,
                          sweepclock, sweepcount, modpos)
      BY <1>3 DEF NoteReplacing
    <2> DEFINE was(p) ==
          NoteWith(p, c.Envelope, c.EffFreq, c.FreqCounter, c.WavePos, Age(c),
                   c.IntervalCounter, c.EnvelopeCounter, c.NoiseLatcherClockDivider,
                   c.NoiseLatcher, c.SweepModClockDivider, c.SweepModCounter, c.ModWavePos)
    <2>2. ASSUME NEW p
          PROVE  NoteReplacing(was(p), level, freq, step, pos, age, rest, fade, latch,
                               latched, sweepclock, sweepcount, modpos) =
                 NoteWith(p, level, freq, step, pos, age, rest, fade, latch, latched,
                          sweepclock, sweepcount, modpos)
      BY NoteReplaced
    <2>3. note = was(TRUE)
      BY <1>1
    <2> HIDE DEF was
    <2> QED BY <2>1, <2>2, <2>3
  <1>23. AsNote(u) = SoundChannel!Clocked(note)
    BY <1>2, <1>8, <1>11, <1>12, <1>13, <1>14, <1>15, <1>16, <1>17, <1>18, <1>19,
       <1>20, <1>21, <1>22
  <1> QED BY <1>23 DEF note, u

(* After is the repetition of such a clock. *)
NoteStep(note) ==
  IF ~ note.playing THEN note
  ELSE IF SoundChannel!Ends(note) THEN [playing |-> FALSE]
  ELSE SoundChannel!Clocked(note)

LEMMA AfterFollows ==
  ASSUME NEW note, NEW k \in Nat, NEW h,
         h = [n \in 0 .. k |-> IF n = 0 THEN note ELSE NoteStep(h[n - 1])]
  PROVE  SoundChannel!After(note, k) = h[k]
  <1> DEFINE Step(x) == IF ~ x.playing THEN x
                        ELSE IF SoundChannel!Ends(x) THEN [playing |-> FALSE]
                        ELSE SoundChannel!Clocked(x)
  <1> DEFINE at[n \in 0 .. k] == IF n = 0 THEN note ELSE Step(at[n - 1])
  <1>1. SoundChannel!After(note, k) = at[k]
    BY DEF SoundChannel!After
  <1>2. ASSUME NEW x PROVE Step(x) = NoteStep(x)
    BY DEF NoteStep
  <1> HIDE DEF Step
  <1>3. at = [n \in 0 .. k |-> IF n = 0 THEN note ELSE Step(at[n - 1])]
    <2> DEFINE P(f) == f = [n \in 0 .. k |-> IF n = 0 THEN note ELSE Step(f[n - 1])]
    <2>1. P(h)
      BY <1>2
    <2>2. at = CHOOSE f : P(f)
      OBVIOUS
    <2> HIDE DEF P, at
    <2>3. P(at)
      BY <2>1, <2>2
    <2> QED BY <2>3 DEF P
  <1> HIDE DEF at
  <1> DEFINE T == {n \in Nat : n <= k => at[n] = h[n]}
  <1>4. 0 \in T
    BY <1>3
  <1>5. ASSUME NEW n \in T PROVE n + 1 \in T
    <2>1. SUFFICES ASSUME n + 1 <= k PROVE at[n + 1] = h[n + 1]
      OBVIOUS
    <2>2. n \in Nat /\ n + 1 \in 0 .. k /\ n + 1 # 0 /\ (n + 1) - 1 = n /\ at[n] = h[n]
      BY <2>1
    <2>3. at[n + 1] = Step(at[n])
      BY <1>3, <2>2
    <2>4. h[n + 1] = NoteStep(h[n])
      BY <2>2
    <2> QED BY <1>2, <2>2, <2>3, <2>4
  <1>6. T = Nat
    <2>1. T \in SUBSET Nat
      OBVIOUS
    <2> HIDE DEF T
    <2> QED BY <1>4, <1>5, <2>1, InductionOnNat
  <1>7. k \in T
    BY <1>6
  <1> QED BY <1>1, <1>7

LEMMA StepAgrees ==
  ASSUME VsuSane, NEW c \in Notes
  PROVE  AsNote(ChunkPlayed(c, 1)) = NoteStep(AsNote(c))
  <1> DEFINE u == ChunkPlayed(c, 1)
  <1>1. u \in Notes /\ (u.playing <=> c.playing /\ ~ Ended(c))
    BY ClockIs
  <1>2. CASE ~ c.playing
    <2>1. AsNote(c) = [playing |-> FALSE] /\ AsNote(u) = [playing |-> FALSE]
      BY <1>1, <1>2 DEF AsNote
    <2>2. ~ AsNote(c).playing
      BY <2>1
    <2> QED BY <2>1, <2>2 DEF NoteStep
  <1>3. CASE c.playing
    <2>1. AsNote(c).playing
      BY <1>3, NoteIs
    <2>2. SoundChannel!Ends(AsNote(c)) <=> Ended(c)
      BY <1>3, NextFreqAgrees
    <2>3. CASE Ended(c)
      BY <1>1, <2>1, <2>2, <2>3 DEF NoteStep, AsNote
    <2>4. CASE ~ Ended(c)
      <3>1. AsNote(u) = SoundChannel!Clocked(AsNote(c))
        BY <1>1, <1>3, <2>4, ClockAgrees
      <3> QED BY <2>1, <2>2, <2>4, <3>1 DEF NoteStep
    <2> QED BY <2>3, <2>4
  <1> QED BY <1>2, <1>3

LEMMA LazyAgrees ==
  ASSUME VsuInv
  PROVE  LazyIsTickByTick
  <1> DEFINE k == now - last_ts
  <1>1. k \in Nat /\ VsuSane
    BY WaitIs DEF VsuInv
  <1>2. CASE chan.playing
    <2>1. chan \in Notes
      BY <1>2, FitNotes DEF VsuInv
    <2>2. PICK g : Repeats(Notes, Clock, chan, g)
      BY <1>1, <2>1, ClockRepeats
    <2>3. Updated = g[k]
      <3>1. Updated = AfterClocks(chan, k)
        BY <1>2 DEF Updated
      <3> HIDE DEF k
      <3> QED BY <1>1, <2>1, <2>2, <3>1, AfterRepeats
    <2> DEFINE note == AsNote(chan)   h == [n \in 0 .. k |-> AsNote(g[n])]
    <2>4. ASSUME NEW n \in 0 .. k
          PROVE  h[n] = IF n = 0 THEN note ELSE NoteStep(h[n - 1])
      <3>1. CASE n = 0
        BY <2>2, <3>1 DEF Repeats
      <3>2. CASE n # 0
        <4>1. n - 1 \in Nat /\ n - 1 \in 0 .. k /\ (n - 1) + 1 = n
          BY <1>1, <3>2
        <4>2. g[n - 1] \in Notes /\ g[n] = ChunkPlayed(g[n - 1], 1)
          BY <2>2, <4>1 DEF Repeats, Clock
        <4>3. AsNote(g[n]) = NoteStep(AsNote(g[n - 1]))
          BY <1>1, <4>2, StepAgrees
        <4> QED BY <3>2, <4>1, <4>3
      <3> QED BY <3>1, <3>2
    <2>5. h = [n \in 0 .. k |-> IF n = 0 THEN note ELSE NoteStep(h[n - 1])]
      BY <2>4
    <2>6. h[k] = AsNote(g[k])
      BY <1>1
    <2> HIDE DEF h, k
    <2>7. SoundChannel!After(note, k) = h[k]
      BY <1>1, <2>5, AfterFollows
    <2> QED BY <2>3, <2>6, <2>7 DEF LazyIsTickByTick, k
  <1>3. CASE ~ chan.playing
    <2> DEFINE note == AsNote(chan)   h == [n \in 0 .. k |-> note]
    <2>1. Updated = chan /\ note = [playing |-> FALSE]
      BY <1>3 DEF Updated, AsNote
    <2>2. NoteStep(note) = note
      <3>1. ~ note.playing
        BY <2>1
      <3> HIDE DEF note
      <3> QED BY <3>1 DEF NoteStep
    <2>3. ASSUME NEW n \in 0 .. k
          PROVE  h[n] = IF n = 0 THEN note ELSE NoteStep(h[n - 1])
      <3>1. n # 0 => n - 1 \in 0 .. k
        BY <1>1
      <3> HIDE DEF note
      <3> QED BY <2>2, <3>1
    <2>4. h = [n \in 0 .. k |-> IF n = 0 THEN note ELSE NoteStep(h[n - 1])]
      BY <2>3
    <2>5. h[k] = note
      BY <1>1
    <2> HIDE DEF h, k
    <2>6. SoundChannel!After(note, k) = h[k]
      BY <1>1, <2>4, AfterFollows
    <2> QED BY <2>1, <2>5, <2>6 DEF LazyIsTickByTick, k
  <1> QED BY <1>2, <1>3

(* However long an update waits, and in whatever chunks it then comes, it  *)
(* arrives where the note clocked every cycle does (VSU_Update).           *)
THEOREM LazyChannel == Spec => []LazyIsTickByTick
  <1>1. VsuInv => LazyIsTickByTick
    BY LazyAgrees
  <1> QED BY <1>1, VsuAlways, PTL
=============================================================================
