----------------------------- MODULE InputPort -----------------------------
(***************************************************************************)
(* The game pad port, mednafen/vb/input.c, with the part of the scheduler  *)
(* (src/vb_core.cpp) that calls it.                                        *)
(*                                                                         *)
(* The serial read is lazy: VBINPUT_Update shifts in all the bits that     *)
(* came since last_ts, when a register is accessed, when the scheduled     *)
(* event comes and when a frame ends.  Unlike the timer, every access      *)
(* tells the scheduler the new deadline.  A word of bits is the set of the *)
(* positions that are 1.                                                   *)
(*                                                                         *)
(* RaisedNever, UpdatedOnce, NotScheduled and ResetTSForgotten are seeded  *)
(* faults: each stands for the definition after it in a run that must then *)
(* fail.                                                                   *)
(***************************************************************************)
EXTENDS Integers

CONSTANTS
  Bits,        \* 16
  BitPeriod,   \* 640
  MaxUnit,     \* cycles an event may be late
  FrameCycles, \* bound: the longest frame explored
  NoEvent      \* VB_EVENT_NONONO

InputAssumption ==
  /\ Bits \in Nat \ {0} /\ BitPeriod \in Nat \ {0} /\ MaxUnit \in Nat
  /\ FrameCycles \in Nat \ {0} /\ NoEvent \in Nat
  /\ NoEvent > FrameCycles + BitPeriod + MaxUnit

VARIABLES
  PadData, PadLatched, SDR,
  SCR,           \* the bits of SCR the port acts on: [disabled, inhibit]
  ReadBitPos, ReadCounter,
  IntPending,    \* and the pad's bit of IRQ_Asserted
  last_ts,
  next_input_ts, \* the event vb_core has scheduled for the port
  now            \* the CPU clock

serial == << PadLatched, SDR, ReadBitPos, ReadCounter, IntPending >>
vars   == << PadData, serial, SCR, last_ts, next_input_ts, now >>

Words == SUBSET (0 .. Bits - 1)

-----------------------------------------------------------------------------
(* One round of VBINPUT_Update's while loop, and the rounds after it.  The *)
(* break leaves a ReadCounter that is not positive: no read in progress.   *)
Shifted(r) ==
  [r EXCEPT !.sdr = (@ \ {r.pos}) \union (PadLatched \intersect {r.pos}),
            !.pos = @ + 1]

RaisedNever(pending) == pending

(* The last bit raises the interrupt. *)
Raised(pending) == pending \/ ~SCR.inhibit

AfterShifting(r) ==
  LET Round(x) ==
        IF x.counter > 0 \/ x.pos = Bits THEN x
        ELSE IF x.pos + 1 < Bits
             THEN [Shifted(x) EXCEPT !.counter = @ + BitPeriod]
             ELSE [Shifted(x) EXCEPT !.pending = Raised(@)]
      after[n \in Nat] == IF n = 0 THEN r ELSE Round(after[n - 1])
  IN  after[Bits]

UpdatedOnce(ts) ==
  LET r == [counter |-> ReadCounter - (ts - last_ts), pos |-> ReadBitPos,
            sdr |-> SDR, pending |-> IntPending]
  IN  IF ReadCounter <= 0 THEN [r EXCEPT !.counter = ReadCounter]
      ELSE IF r.counter > 0 THEN r
      ELSE IF r.pos + 1 < Bits
           THEN [Shifted(r) EXCEPT !.counter = BitPeriod]
           ELSE [Shifted(r) EXCEPT !.pending = Raised(@)]

(* The port after VBINPUT_Update(ts). *)
Updated(ts) ==
  LET r == [counter |-> ReadCounter, pos |-> ReadBitPos, sdr |-> SDR,
            pending |-> IntPending]
  IN  IF ReadCounter > 0
      THEN AfterShifting([r EXCEPT !.counter = @ - (ts - last_ts)])
      ELSE r

Store(r) ==
  /\ ReadCounter' = r.counter /\ ReadBitPos' = r.pos
  /\ SDR' = r.sdr /\ IntPending' = r.pending

Deadline(counter, ts) == IF counter > 0 THEN ts + counter ELSE NoEvent

-----------------------------------------------------------------------------
(* VBINPUT_Power *)
Init ==
  /\ PadData = {} /\ PadLatched = {} /\ SDR = {}
  /\ SCR = [disabled |-> FALSE, inhibit |-> FALSE]
  /\ ReadBitPos = 0 /\ ReadCounter = 0
  /\ IntPending = FALSE
  /\ last_ts = 0
  /\ next_input_ts = NoEvent
  /\ now = 0

Cycle ==
  /\ now < FrameCycles
  /\ now < next_input_ts + MaxUnit
  /\ now' = now + 1
  /\ UNCHANGED << PadData, serial, SCR, last_ts, next_input_ts >>

NotScheduled(counter) == next_input_ts

Scheduled(counter) == Deadline(counter, now)

(* VBINPUT_Read: what it returns is PadData (InstantReadHack) or SDR. *)
Read ==
  /\ Store(Updated(now))
  /\ last_ts' = now
  /\ next_input_ts' = Scheduled(ReadCounter')
  /\ UNCHANGED << PadData, PadLatched, SCR, now >>

Latch(starts) == IF starts THEN PadData ELSE PadLatched

(* VBINPUT_Write of the control register. *)
Write(start, abort, inhibit) ==
  LET r == Updated(now)
      starts == start /\ ~SCR.disabled /\ r.counter <= 0
  IN  /\ Store([counter |-> IF abort THEN 0
                            ELSE IF starts THEN BitPeriod ELSE r.counter,
                pos     |-> IF abort \/ starts THEN 0 ELSE r.pos,
                sdr     |-> r.sdr,
                pending |-> r.pending /\ ~inhibit])
      /\ PadLatched' = Latch(starts)
      /\ SCR' = [disabled |-> abort, inhibit |-> inhibit]
      /\ last_ts' = now
      /\ next_input_ts' = Scheduled(ReadCounter')
      /\ UNCHANGED << PadData, now >>

(* EventHandler finds the port's event due. *)
Event ==
  /\ now >= next_input_ts
  /\ Store(Updated(now))
  /\ last_ts' = now
  /\ next_input_ts' = Deadline(ReadCounter', now)
  /\ UNCHANGED << PadData, PadLatched, SCR, now >>

ResetTSForgotten == last_ts' = now

(* VBINPUT_ResetTS *)
ResetTS == last_ts' = 0

(* The end of a frame: ForceEventUpdates, VBINPUT_ResetTS and RebaseTS (a  *)
(* NoEvent less some cycles is still beyond the next frame).               *)
EndFrame ==
  /\ now > 0
  /\ Store(Updated(now))
  /\ ResetTS
  /\ next_input_ts' = Deadline(ReadCounter', 0)
  /\ now' = 0
  /\ UNCHANGED << PadData, PadLatched, SCR >>

(* VBINPUT_Frame, before the first instruction of a frame. *)
Frame ==
  /\ now = 0
  /\ PadData' \in Words
  /\ UNCHANGED << serial, SCR, last_ts, next_input_ts, now >>

Program == Read \/ \E start, abort, inhibit \in BOOLEAN :
                     Write(start, abort, inhibit)

Next == Cycle \/ Program \/ Event \/ EndFrame \/ Frame

(* Time goes on, due events are handled, frames end. *)
Spec == /\ Init /\ [][Next]_vars
        /\ WF_vars(Cycle) /\ WF_vars(Event)
        /\ WF_vars(EndFrame /\ now = FrameCycles)

-----------------------------------------------------------------------------
(* Types: above all, no bit is ever shifted beyond the register.           *)
TypeOK ==
  /\ PadData \in Words /\ PadLatched \in Words /\ SDR \in Words
  /\ SCR \in [disabled : BOOLEAN, inhibit : BOOLEAN]
  /\ ReadBitPos \in 0 .. Bits
  /\ ReadCounter \in -FrameCycles .. BitPeriod
  /\ ReadCounter > 0 => ReadBitPos < Bits
  /\ IntPending \in BOOLEAN
  /\ last_ts \in 0 .. now /\ now \in 0 .. FrameCycles
  /\ next_input_ts \in 0 .. NoEvent

(* While bits are still to come, the scheduler has the exact cycle of the  *)
(* next one, or one before it: neither aborted and restarted reads nor     *)
(* frame ends leave it with a deadline that is too late.                   *)
NextBitIsScheduled ==
  ReadCounter > 0 => next_input_ts <= last_ts + ReadCounter

(* A program cannot tell the lazy port from one clocked every cycle.       *)
TickByTick == INSTANCE PadPort WITH
  pad      <- PadData,
  latch    <- PadLatched,
  pos      <- Updated(now).pos,
  left     <- IF Updated(now).counter > 0 THEN Updated(now).counter ELSE 0,
  sdr      <- Updated(now).sdr,
  disabled <- SCR.disabled,
  inhibit  <- SCR.inhibit,
  request  <- Updated(now).pending,
  time     <- now

LazyIsTickByTick == TickByTick!Spec

(* A read that the program leaves alone ends, with the buttons as they     *)
(* were when it began.  And a read in progress raises the interrupt,       *)
(* whatever accesses, late events and frame ends come meanwhile, unless    *)
(* the program inhibits it or aborts a read first.                         *)
ReadsEnd ==
  /\ <>[][~Program]_vars =>
       []<>(/\ ReadCounter <= 0
            /\ ReadBitPos = Bits => SDR = PadLatched)
  /\ (ReadCounter > 0 /\ ~SCR.inhibit)
       ~> (IntPending \/ SCR.inhibit \/ SCR.disabled)
=============================================================================
