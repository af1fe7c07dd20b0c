------------------------------ MODULE PadPort ------------------------------
(***************************************************************************)
(* What the game pad port promises a program: a shift register clocked one *)
(* CPU cycle at a time.  A read latches the buttons, shifts one bit in     *)
(* every BitPeriod cycles, lowest first, and requests an interrupt after   *)
(* the last one unless it is inhibited.  InputPort shows that the lazy     *)
(* port of the emulator cannot be told from this one.                      *)
(***************************************************************************)
EXTENDS Integers

CONSTANTS Bits, BitPeriod

VARIABLES pad,      \* the buttons held, a set of bit positions
          latch,    \* the buttons when the read in progress began
          pos,      \* bits shifted in
          left,     \* cycles to the next bit; 0: no read in progress
          sdr,      \* the shift register
          disabled, \* the abort/disable bit of the control register
          inhibit,  \* its interrupt inhibit bit
          request,  \* the interrupt request
          time      \* cycles since the frame began

port == << pad, latch, pos, left, sdr, disabled, inhibit, request >>

Init ==
  /\ pad = {} /\ latch = {} /\ sdr = {}
  /\ pos = 0 /\ left = 0
  /\ disabled = FALSE /\ inhibit = FALSE /\ request = FALSE
  /\ time = 0

Clock ==
  /\ left # 1
  /\ left' = IF left = 0 THEN 0 ELSE left - 1
  /\ time' = time + 1
  /\ UNCHANGED << pad, latch, pos, sdr, disabled, inhibit, request >>

Shift ==
  /\ left = 1
  /\ time' = time + 1
  /\ sdr' = (sdr \ {pos}) \union (latch \intersect {pos})
  /\ pos' = pos + 1
  /\ IF pos' < Bits THEN left' = BitPeriod /\ UNCHANGED request
                    ELSE left' = 0 /\ request' = (request \/ ~inhibit)
  /\ UNCHANGED << pad, latch, disabled, inhibit >>

Buttons ==
  /\ pad' \in SUBSET (0 .. Bits - 1)
  /\ UNCHANGED << latch, pos, left, sdr, disabled, inhibit, request, time >>

NewFrame == time' = 0 /\ UNCHANGED port

(* A write of the control register: start, then abort. *)
Control(start, abort, inh) ==
  LET starts == start /\ ~disabled /\ left = 0 IN
  /\ latch' = IF starts THEN pad ELSE latch
  /\ left' = IF abort THEN 0 ELSE IF starts THEN BitPeriod ELSE left
  /\ pos' = IF abort \/ starts THEN 0 ELSE pos
  /\ request' = (request /\ ~inh)
  /\ disabled' = abort /\ inhibit' = inh
  /\ UNCHANGED << pad, sdr, time >>

Next ==
  \/ Clock \/ Shift \/ Buttons \/ NewFrame
  \/ \E start, abort, inh \in BOOLEAN : Control(start, abort, inh)

Spec == Init /\ [][Next]_<< port, time >>
=============================================================================
