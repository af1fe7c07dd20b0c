------------------------------ MODULE Devices ------------------------------
(***************************************************************************)
(* The interval timer, the game pad port and the audio ring, which share   *)
(* no state: a behaviour is one of any of the three while the other two    *)
(* stay at their initial states.                                           *)
(***************************************************************************)
EXTENDS AudioRing

CONSTANTS
  SlowPeriod, FastPeriod, FastFirst, ByteValues,  \* of the timer
  Bits, BitPeriod,                                \* of the pad
  TimerUnit, PadUnit,    \* cycles an event of each may be late
  TimerFrame, PadFrame,  \* bounds: the longest frames explored
  NoEvent                \* VB_EVENT_NONONO

VARIABLES
  which,  \* the device that runs
  TimerControl, TimerReloadValue, TimerCounter, TimerDivider, TimerLastTS,
  TimerStatus, TimerStatusShadow, ReloadPending, irq, next_timer_ts, timer_now,
  PadData, PadLatched, SDR, SCR, ReadBitPos, ReadCounter, IntPending, last_ts,
  next_input_ts, pad_now

T == INSTANCE Timer WITH
  MaxUnit <- TimerUnit, FrameCycles <- TimerFrame, now <- timer_now
I == INSTANCE InputPort WITH
  MaxUnit <- PadUnit, FrameCycles <- PadFrame, now <- pad_now

ASSUME DevicesAssumption == T!TimerAssumption /\ I!InputAssumption

timer == << TimerControl, TimerReloadValue, TimerCounter, TimerDivider,
            TimerLastTS, TimerStatus, TimerStatusShadow, ReloadPending, irq,
            next_timer_ts, timer_now >>
pad   == << PadData, PadLatched, SDR, SCR, ReadBitPos, ReadCounter,
            IntPending, last_ts, next_input_ts, pad_now >>

DevicesInit == which \in {"timer", "pad", "ring"} /\ T!Init /\ I!Init /\ Init

OfTimer(action) == which = "timer" /\ action /\ UNCHANGED << which, pad, vars >>
OfPad(action)   == which = "pad" /\ action /\ UNCHANGED << which, timer, vars >>
OfRing(action)  == which = "ring" /\ action /\ UNCHANGED << which, timer, pad >>

DevicesNext == OfTimer(T!Next) \/ OfPad(I!Next) \/ OfRing(Next)

devices == << which, timer, pad, vars >>

(* Each device under the fairness its own Spec states. *)
DevicesSpec ==
  /\ DevicesInit /\ [][DevicesNext]_devices
  /\ WF_devices(OfTimer(T!Cycle)) /\ WF_devices(OfTimer(T!Event))
  /\ WF_devices(OfTimer(T!EndFrame /\ timer_now = TimerFrame))
  /\ WF_devices(OfPad(I!Cycle)) /\ WF_devices(OfPad(I!Event))
  /\ WF_devices(OfPad(I!EndFrame /\ pad_now = PadFrame))
  /\ WF_devices(OfRing(Player))

-----------------------------------------------------------------------------
(* The types of timer.c, input.c and vb_audio.c. *)
DevicesTypeOK == T!TypeOK /\ I!TypeOK /\ TypeOK

(* timer.c: the interrupt line is never up without cause, nor down without *)
(* an event due that will raise it.                                        *)
LineTracksTimer == T!LineTracksTimer

(* timer.c implements a timer clocked every cycle. *)
LazyIsTickByTick == T!LazyIsTickByTick

(* timer.c: a timer enabled and left alone interrupts. *)
EnabledTimerFires == T!EnabledTimerFires

(* input.c: the scheduler never has too late a cycle for the next bit. *)
NextBitIsScheduled == I!NextBitIsScheduled

(* input.c implements a port clocked every cycle. *)
PadIsTickByTick == I!LazyIsTickByTick

(* input.c: a serial read left alone ends, and one neither aborted nor     *)
(* inhibited interrupts.                                                   *)
ReadsEnd == I!ReadsEnd
=============================================================================
