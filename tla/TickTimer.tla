----------------------------- MODULE TickTimer -----------------------------
(***************************************************************************)
(* What the interval timer promises a program: a counter that is clocked   *)
(* one CPU cycle at a time, seen through its registers.  The emulator      *)
(* never runs it this way; Timer shows that its lazy timer cannot be told  *)
(* from this one.                                                          *)
(***************************************************************************)
EXTENDS Integers

CONSTANTS SlowPeriod, FastPeriod, FastFirst, ByteValues

VARIABLES enable, zint, clksel,  \* the control register
          reload, counter,       \* the 16-bit registers
          divider,               \* cycles to the next count
          status,                \* TIMZSTAT
          shadow,                \* the interrupt request
          pending,               \* a new reload value was written
          time                   \* cycles since the frame began

regs == << enable, zint, clksel, reload, counter, divider, status, shadow,
           pending >>

Init ==
  /\ enable = FALSE /\ zint = FALSE /\ clksel = FALSE
  /\ reload = ByteValues * ByteValues - 1
  /\ counter = ByteValues * ByteValues - 1
  /\ divider = SlowPeriod
  /\ status = FALSE /\ shadow = FALSE /\ pending = FALSE
  /\ time = 0

Idle ==
  /\ ~enable
  /\ time' = time + 1
  /\ UNCHANGED regs

CountDown ==
  /\ enable /\ divider > 1
  /\ divider' = divider - 1
  /\ time' = time + 1
  /\ UNCHANGED << enable, zint, clksel, reload, counter, status, shadow,
                  pending >>

(* A count: reload at zero, or at once if a new value was written; the     *)
(* request is raised at zero, and again at every count while it was not    *)
(* cleared.                                                                *)
Count ==
  /\ enable /\ divider = 1
  /\ time' = time + 1
  /\ divider' = IF clksel THEN FastPeriod ELSE SlowPeriod
  /\ LET from == IF counter = 0 \/ pending THEN reload ELSE counter
     IN  counter' = IF from = 0 THEN 0 ELSE from - 1
  /\ pending' = FALSE
  /\ IF counter' = 0 \/ status
     THEN status' = TRUE /\ shadow' = TRUE
     ELSE UNCHANGED << status, shadow >>
  /\ UNCHANGED << enable, zint, clksel, reload >>

SetReload(lo, hi) ==
  /\ reload' = hi * ByteValues + lo
  /\ pending' = TRUE
  /\ UNCHANGED << enable, zint, clksel, counter, divider, status, shadow,
                  time >>

SetControl(e, z, c, clear) ==
  LET kept == status /\ (clear => enable /\ counter = 0)
  IN  /\ enable' = e /\ zint' = z /\ clksel' = c
      /\ status' = (z /\ kept)
      /\ shadow' = (z /\ shadow /\ ~clear)
      /\ divider' = IF e /\ ~enable
                    THEN IF c THEN FastFirst ELSE SlowPeriod
                    ELSE divider
      /\ UNCHANGED << reload, counter, pending, time >>

NewFrame == time' = 0 /\ UNCHANGED regs

Bytes == 0 .. ByteValues - 1

Next ==
  \/ Idle \/ CountDown \/ Count \/ NewFrame
  \/ \E b \in Bytes : \/ SetReload(b, reload \div ByteValues)
                      \/ SetReload(reload % ByteValues, b)
  \/ \E e, z, c, clear \in BOOLEAN : SetControl(e, z, c, clear)

Spec == Init /\ [][Next]_<< regs, time >>
=============================================================================
