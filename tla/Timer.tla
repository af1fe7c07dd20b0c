------------------------------- MODULE Timer -------------------------------
(***************************************************************************)
(* The interval timer, mednafen/vb/timer.c, with the part of the scheduler *)
(* (src/vb_core.cpp) that calls it.                                        *)
(*                                                                         *)
(* The timer is lazy: TIMER_Update runs when the program touches a timer   *)
(* register, when the scheduled event comes, and at the end of a frame,    *)
(* and then catches up with all the cycles since TimerLastTS at once.  The *)
(* program may run up to MaxUnit cycles past a scheduled event before the  *)
(* event is handled (EventLoop!EventsOnTime).                              *)
(*                                                                         *)
(* SettledOnce, ExpireBelowZero, RescheduledNever and ResetTSForgotten are *)
(* seeded faults: each stands for the definition after it in a run that    *)
(* must then fail.                                                         *)
(***************************************************************************)
EXTENDS Integers

CONSTANTS
  SlowPeriod,   \* 2000 cycles a count
  FastPeriod,   \* 400, with TC_TCLKSEL
  FastFirst,    \* 500: the first fast count after the timer is enabled
  ByteValues,   \* 256: values of one half of the 16-bit registers
  MaxUnit,      \* cycles an event may be late
  FrameCycles,  \* bound: the longest frame explored
  NoEvent       \* VB_EVENT_NONONO

TimerAssumption ==
  /\ {SlowPeriod, FastPeriod, FastFirst, ByteValues} \subseteq Nat \ {0}
  /\ FastPeriod <= SlowPeriod
  /\ {MaxUnit, FrameCycles} \subseteq Nat /\ NoEvent \in Nat
  /\ NoEvent > FrameCycles + SlowPeriod + FastFirst + MaxUnit

VARIABLES
  TimerControl,      \* [enable, zint, clksel]
  TimerReloadValue,
  TimerCounter,
  TimerDivider,
  TimerLastTS,
  TimerStatus,
  TimerStatusShadow,
  ReloadPending,
  irq,               \* the timer's bit of IRQ_Asserted
  next_timer_ts,     \* the event vb_core has scheduled for the timer
  now                \* the CPU clock

timer == << TimerControl, TimerReloadValue, TimerCounter, TimerDivider,
            TimerStatus, TimerStatusShadow, ReloadPending >>
vars  == << timer, TimerLastTS, irq, next_timer_ts, now >>

Bytes  == 0 .. ByteValues - 1
Values == 0 .. ByteValues * ByteValues - 1

-----------------------------------------------------------------------------
(* The timer's variables as one value, for TIMER_Update to iterate on.     *)
Here == [counter |-> TimerCounter, divider |-> TimerDivider,
         status |-> TimerStatus, shadow |-> TimerStatusShadow,
         pending |-> ReloadPending, irq |-> irq]

Reloaded(r) == IF r.counter = 0 \/ r.pending THEN TimerReloadValue
                                            ELSE r.counter

(* One round of TIMER_Update's while loop. *)
ExpireBelowZero(r) ==
  LET count == Reloaded(r) - 1
      zero  == count = 0 \/ r.status
  IN  [counter |-> count,
       divider |-> r.divider + (IF TimerControl.clksel THEN FastPeriod
                                                       ELSE SlowPeriod),
       status  |-> r.status \/ zero,
       shadow  |-> r.shadow \/ zero,
       pending |-> FALSE,
       irq     |-> (r.shadow \/ zero) /\ TimerControl.zint]

Expire(r) ==
  LET from  == Reloaded(r)
      count == IF from # 0 THEN from - 1 ELSE 0
      zero  == count = 0 \/ r.status
  IN  [counter |-> count,
       divider |-> r.divider + (IF TimerControl.clksel THEN FastPeriod
                                                       ELSE SlowPeriod),
       status  |-> r.status \/ zero,
       shadow  |-> r.shadow \/ zero,
       pending |-> FALSE,
       irq     |-> (r.shadow \/ zero) /\ TimerControl.zint]

(* The while loop: every round brings the divider nearer to being positive. *)
Settle(r) ==
  LET Round(x) == IF x.divider > 0 THEN x ELSE Expire(x)
      after[n \in Nat] == IF n = 0 THEN r ELSE Round(after[n - 1])
  IN  after[IF r.divider > 0 THEN 0 ELSE 1 - r.divider]

(* The timer after TIMER_Update(ts). *)
SettledOnce(ts) ==
  LET r == [Here EXCEPT !.divider = @ - (ts - TimerLastTS)]
  IN  IF ~TimerControl.enable THEN Here
      ELSE IF r.divider > 0 THEN r ELSE Expire(r)

Settled(ts) ==
  IF TimerControl.enable
  THEN Settle([Here EXCEPT !.divider = @ - (ts - TimerLastTS)])
  ELSE Here

(* TIMER_Update's return value. *)
Deadline(enabled, r, ts) == IF enabled THEN ts + r.divider ELSE NoEvent

-----------------------------------------------------------------------------
(* TIMER_Power, and the scheduler's first look at the timer. *)
Init ==
  /\ TimerControl = [enable |-> FALSE, zint |-> FALSE, clksel |-> FALSE]
  /\ TimerReloadValue = ByteValues * ByteValues - 1
  /\ TimerCounter = ByteValues * ByteValues - 1
  /\ TimerDivider = SlowPeriod
  /\ TimerLastTS = 0
  /\ TimerStatus = FALSE /\ TimerStatusShadow = FALSE
  /\ ReloadPending = FALSE
  /\ irq = FALSE
  /\ next_timer_ts = NoEvent
  /\ now = 0

(* The assignments TIMER_Update ends with. *)
Store(r) ==
  /\ TimerCounter' = r.counter /\ TimerDivider' = r.divider
  /\ TimerStatus' = r.status /\ TimerStatusShadow' = r.shadow
  /\ ReloadPending' = r.pending
  /\ irq' = r.irq

Cycle ==
  /\ now < FrameCycles
  /\ now < next_timer_ts + MaxUnit
  /\ now' = now + 1
  /\ UNCHANGED << timer, TimerLastTS, irq, next_timer_ts >>

(* TIMER_Read: catches up, tells the scheduler nothing. *)
Read ==
  /\ Store(Settled(now))
  /\ TimerLastTS' = now
  /\ UNCHANGED << TimerControl, TimerReloadValue, next_timer_ts, now >>

(* TIMER_Write of 0x18 or 0x1C. *)
WriteReload(value) ==
  /\ Store([Settled(now) EXCEPT !.pending = TRUE])
  /\ TimerReloadValue' = value
  /\ TimerLastTS' = now
  /\ UNCHANGED << TimerControl, next_timer_ts, now >>

RescheduledNever(enabled, divider) == next_timer_ts

(* VB_SetEvent at the end of a control write. *)
Rescheduled(enabled, divider) == IF enabled THEN now + divider
                                            ELSE next_timer_ts

(* TIMER_Write of 0x20: the faulty Z-Stat-Clr leaves TimerStatus alone     *)
(* while an enabled timer stands at zero.                                  *)
WriteControl(e, z, c, clear) ==
  LET r       == Settled(now)
      stuck   == TimerControl.enable /\ r.counter = 0
      status  == z /\ r.status /\ (clear => stuck)
      shadow  == z /\ r.shadow /\ ~clear
      divider == IF e /\ ~TimerControl.enable
                 THEN IF c THEN FastFirst ELSE SlowPeriod
                 ELSE r.divider
  IN  /\ Store([r EXCEPT !.status = status, !.shadow = shadow,
                         !.divider = divider, !.irq = shadow /\ z])
      /\ TimerControl' = [enable |-> e, zint |-> z, clksel |-> c]
      /\ TimerLastTS' = now
      /\ next_timer_ts' = Rescheduled(e, divider)
      /\ UNCHANGED << TimerReloadValue, now >>

(* EventHandler finds the timer's event due. *)
Event ==
  /\ now >= next_timer_ts
  /\ Store(Settled(now))
  /\ TimerLastTS' = now
  /\ next_timer_ts' = Deadline(TimerControl.enable, Settled(now), now)
  /\ UNCHANGED << TimerControl, TimerReloadValue, now >>

ResetTSForgotten == TimerLastTS' = now

(* TIMER_ResetTS *)
ResetTS == TimerLastTS' = 0

(* The end of a frame: ForceEventUpdates, TIMER_ResetTS, RebaseTS (a       *)
(* NoEvent less some cycles is still beyond the next frame).               *)
EndFrame ==
  /\ now > 0
  /\ Store(Settled(now))
  /\ ResetTS
  /\ next_timer_ts' = Deadline(TimerControl.enable, Settled(now), 0)
  /\ now' = 0
  /\ UNCHANGED << TimerControl, TimerReloadValue >>

Program ==
  \/ Read
  \/ \E b \in Bytes :
       \/ WriteReload((TimerReloadValue \div ByteValues) * ByteValues + b)
       \/ WriteReload((TimerReloadValue % ByteValues) + b * ByteValues)
  \/ \E e, z, c, clear \in BOOLEAN : WriteControl(e, z, c, clear)

Machine == Cycle \/ Event \/ EndFrame

Next == Program \/ Machine

(* Time goes on, due events are handled, frames end. *)
Spec == /\ Init /\ [][Next]_vars
        /\ WF_vars(Cycle) /\ WF_vars(Event)
        /\ WF_vars(EndFrame /\ now = FrameCycles)

-----------------------------------------------------------------------------
(* Types: above all, a 16-bit counter that never wraps below zero and a    *)
(* divider that is positive whenever no update is running.                 *)
TypeOK ==
  /\ TimerControl \in [enable : BOOLEAN, zint : BOOLEAN, clksel : BOOLEAN]
  /\ TimerReloadValue \in Values /\ TimerCounter \in Values
  /\ TimerDivider \in 1 .. SlowPeriod + FastFirst
  /\ TimerLastTS \in 0 .. now
  /\ {TimerStatus, TimerStatusShadow, ReloadPending, irq} \subseteq BOOLEAN
  /\ next_timer_ts \in 0 .. NoEvent
  /\ now \in 0 .. FrameCycles

(* The interrupt line is never up without cause; and when a timer that     *)
(* kept up cycle by cycle would have raised it, either it is up or an      *)
(* event is already due that will raise it, whatever reads, reload writes, *)
(* control writes and frame ends came between.                             *)
LineTracksTimer ==
  LET requested == Settled(now).shadow /\ TimerControl.zint
  IN  /\ irq => requested
      /\ requested /\ ~irq => now >= next_timer_ts

(* A program cannot tell the lazy timer from one clocked every cycle.      *)
TickByTick == INSTANCE TickTimer WITH
  enable  <- TimerControl.enable,
  zint    <- TimerControl.zint,
  clksel  <- TimerControl.clksel,
  reload  <- TimerReloadValue,
  counter <- Settled(now).counter,
  divider <- Settled(now).divider,
  status  <- Settled(now).status,
  shadow  <- Settled(now).shadow,
  pending <- Settled(now).pending,
  time    <- now

LazyIsTickByTick == TickByTick!Spec

(* Once the program leaves the timer registers alone, a timer enabled with *)
(* its interrupt interrupts.                                               *)
EnabledTimerFires ==
  <>[][Machine]_vars =>
    []<>(irq \/ ~(TimerControl.enable /\ TimerControl.zint))
=============================================================================
