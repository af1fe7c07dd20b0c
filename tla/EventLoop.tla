----------------------------- MODULE EventLoop -----------------------------
(***************************************************************************)
(* Who runs when: V810::Run (hw_cpu/v810/v810_oploop.inc) and the event    *)
(* scheduling of src/vb_core.cpp, over one frame after another.            *)
(*                                                                         *)
(* The CPU executes units (an interpreted instruction, or a translated     *)
(* block, which checks the clock only at its end) until its clock reaches  *)
(* next_event_ts; EventHandler then updates every device whose event is    *)
(* due.  A device is known here only by its contract: update it at ts and  *)
(* its next deadline, due, lies after ts.  The difference between due (what*)
(* the device needs) and next_ts (what the scheduler was told) is the      *)
(* subject of this module.  Cycles are scaled down by the constants.       *)
(*                                                                         *)
(* WakeAtNever, UpdatedDueLate, BudgetReachedNever and                     *)
(* HandlerNextTSUncapped are seeded faults: each stands for the definition *)
(* after it in a run that must then fail.                                  *)
(***************************************************************************)
EXTENDS Integers

CONSTANTS
  Budget,       \* VB_FRAME_BUDGET
  NoEvent,      \* VB_EVENT_NONONO
  MaxUnit,      \* bound on the cycles of one unit
  VipPeriod,    \* 259: VIP_Update always asks to be called within a column
  TimerPeriod,  \* bound on TimerDivider
  InputPeriod   \* 640: one bit of the pad's shift register

Devices == {"vip", "timer", "input"}

ASSUME BoundsAssumption ==
  /\ Budget \in Nat \ {0} /\ MaxUnit \in Nat \ {0}
  /\ VipPeriod \in Nat \ {0} /\ TimerPeriod \in Nat \ {0}
  /\ InputPeriod \in Nat \ {0}
  /\ VipPeriod <= Budget

(* 2^31 - 1 is far beyond two frames. *)
ASSUME NoEventAssumption ==
  /\ NoEvent \in Nat
  /\ NoEvent > 2 * (Budget + MaxUnit)
  /\ NoEvent > Budget + MaxUnit + VipPeriod
  /\ NoEvent > Budget + MaxUnit + TimerPeriod
  /\ NoEvent > Budget + MaxUnit + InputPeriod

VARIABLES
  phase,         \* where vb_run_frame and V810::Run are
  timestamp,     \* the CPU clock (timestamp_rl, v810_timestamp)
  unit_start,    \* the clock when the unit in progress began
  next_event_ts, \* V810::next_event_ts
  Running,       \* V810::Running
  Halted,        \* V810::Halted
  next_ts,       \* next_vip_ts, next_timer_ts, next_input_ts
  due            \* when each device really needs an update; NoEvent: never

vars == << phase, timestamp, unit_start, next_event_ts, Running, Halted,
           next_ts, due >>

-----------------------------------------------------------------------------
Lesser(a, b) == IF a > b THEN b ELSE a

CalcNextTS(n) == Lesser(Lesser(n["vip"], n["timer"]), n["input"])

WakeAtNever(ts) == next_event_ts' = next_event_ts

(* The second half of VB_SetEvent: bring the CPU's stop forward. *)
WakeAt(ts) == next_event_ts' = Lesser(next_event_ts, ts)

(* The deadlines a device may have once updated at ts: VIP_Update always   *)
(* names one, a running timer too, VBINPUT_Update while a serial read has  *)
(* bits left.  A deadline still ahead is left alone.                       *)
NewDue(d, ts) ==
  CASE d = "vip"   -> ts + 1 .. ts + VipPeriod
    [] d = "timer" -> ts + 1 .. ts + TimerPeriod
    [] d = "input" -> (ts + 1 .. ts + InputPeriod) \union {NoEvent}

UpdatedDueLate(d, ts) == IF due[d] < ts THEN NewDue(d, ts) ELSE {due[d]}

UpdatedDue(d, ts) == IF due[d] <= ts THEN NewDue(d, ts) ELSE {due[d]}

-----------------------------------------------------------------------------
(* VB_Power: every device updated at 0, the timer and the pad are idle. *)
Init ==
  /\ phase = "idle"
  /\ timestamp = 0
  /\ unit_start = 0
  /\ due = [d \in Devices |-> IF d = "vip" THEN VipPeriod ELSE NoEvent]
  /\ next_ts = due
  /\ next_event_ts = CalcNextTS(next_ts)
  /\ Running = FALSE
  /\ Halted = FALSE

(* vb_run_frame up to Run: SetIdleHalt(false), Running = true. *)
StartFrame ==
  /\ phase = "idle"
  /\ phase' = "outer"
  /\ Running' = TRUE
  /\ Halted' = FALSE
  /\ UNCHANGED << timestamp, unit_start, next_event_ts, next_ts, due >>

(* The head of while(Running).  A halted CPU with no interrupt pending     *)
(* jumps to the next event; with one pending it does not.                  *)
SkipToEvent ==
  /\ phase = "outer" /\ Running /\ Halted
  /\ phase' = "inner"
  /\ timestamp' = next_event_ts
  /\ UNCHANGED << unit_start, next_event_ts, Running, Halted, next_ts, due >>

EnterInner ==
  /\ phase = "outer" /\ Running
  /\ phase' = "inner"
  /\ UNCHANGED << timestamp, unit_start, next_event_ts, Running, Halted,
                  next_ts, due >>

LeaveRun ==
  /\ phase = "outer" /\ ~Running
  /\ phase' = "force"
  /\ UNCHANGED << timestamp, unit_start, next_event_ts, Running, Halted,
                  next_ts, due >>

(* while(timestamp_rl < next_event_ts): a unit begins, Halted or not: only *)
(* op_INT_HANDLER, when the unit is the taking of an interrupt, clears it. *)
BeginUnit ==
  /\ phase = "inner"
  /\ timestamp < next_event_ts
  /\ phase' = "unit"
  /\ unit_start' = timestamp
  /\ \E accepts_interrupt \in BOOLEAN :
       Halted' = (Halted /\ ~accepts_interrupt)
  /\ UNCHANGED << timestamp, next_event_ts, Running, next_ts, due >>

(* A unit from which control never comes back.  The dispatcher runs the    *)
(* block of the PC and goes round again: an empty block (JitCache,         *)
(* EmptyBlocksAtEnd) leaves the PC and the clock alone, so it is run again *)
(* at once and for ever; one without an exit (EveryBlockReturns) runs on   *)
(* through the code buffer.  The clock never reaches the next event.       *)
EnterStuckBlock ==
  /\ phase = "inner"
  /\ timestamp < next_event_ts
  /\ phase' = "stuck"
  /\ UNCHANGED << timestamp, unit_start, next_event_ts, Running, Halted,
                  next_ts, due >>

Spin == phase = "stuck" /\ UNCHANGED vars

Spend ==
  /\ phase = "unit"
  /\ \E t \in timestamp + 1 .. unit_start + MaxUnit : timestamp' = t
  /\ UNCHANGED << phase, unit_start, next_event_ts, Running, Halted, next_ts,
                  due >>

(* TIMER_Read, and TIMER_Write of anything but an enabling control byte:   *)
(* the timer catches up and may be stopped, the scheduler is not told.     *)
AccessTimer ==
  /\ phase = "unit"
  /\ \E t \in UpdatedDue("timer", timestamp) \union {NoEvent} :
       due' = [due EXCEPT !["timer"] = t]
  /\ UNCHANGED << phase, timestamp, unit_start, next_event_ts, Running, Halted,
                  next_ts >>

(* TIMER_Write of a control byte with TENABLE. *)
EnableTimer ==
  /\ phase = "unit"
  /\ \E t \in NewDue("timer", timestamp) :
       /\ due' = [due EXCEPT !["timer"] = t]
       /\ next_ts' = [next_ts EXCEPT !["timer"] = t]
       /\ WakeAt(t)
  /\ UNCHANGED << phase, timestamp, unit_start, Running, Halted >>

(* VBINPUT_Read and VBINPUT_Write end in VB_SetEvent whatever they did. *)
AccessInput ==
  /\ phase = "unit"
  /\ \E t \in NewDue("input", timestamp) :
       /\ due' = [due EXCEPT !["input"] = t]
       /\ next_ts' = [next_ts EXCEPT !["input"] = t]
       /\ WakeAt(t)
  /\ UNCHANGED << phase, timestamp, unit_start, Running, Halted >>

EndUnit ==
  /\ phase = "unit"
  /\ timestamp > unit_start
  /\ phase' = "inner"
  /\ UNCHANGED << timestamp, unit_start, next_event_ts, Running, Halted,
                  next_ts, due >>

(* The HALT instruction costs its cycle and sets Halted, no more: the CPU  *)
(* goes on with the next unit until an event brings it to the outer loop.  *)
HaltUnit ==
  /\ phase = "unit"
  /\ timestamp > unit_start
  /\ phase' = "inner"
  /\ Halted' = TRUE
  /\ UNCHANGED << timestamp, unit_start, next_event_ts, Running, next_ts, due >>

(* TRAP and the invalid opcode: Exception, which halts if it is fatal, and *)
(* CHECK_HALTED, which sends a halted CPU's clock to the next event.       *)
ExceptionUnit ==
  /\ phase = "unit"
  /\ timestamp > unit_start
  /\ phase' = "inner"
  /\ \E fatal \in BOOLEAN : Halted' = (Halted \/ fatal)
  /\ timestamp' = IF Halted' /\ timestamp < next_event_ts THEN next_event_ts
                                                          ELSE timestamp
  /\ UNCHANGED << unit_start, next_event_ts, Running, next_ts, due >>

(* EventHandler: update what the schedule says is due, stop at the budget  *)
(* or when VIP_Update met the end of a video frame, choose the idle halt,  *)
(* cap the answer.                                                         *)
BudgetReachedNever == FALSE

BudgetReached == timestamp >= Budget

HandlerNextTSUncapped(n) == CalcNextTS(n)

HandlerNextTS(n) == Lesser(CalcNextTS(n), Budget)

HandledDue(d) == IF timestamp >= next_ts[d] THEN UpdatedDue(d, timestamp)
                                            ELSE {due[d]}

EventHandler ==
  /\ phase = "inner"
  /\ timestamp >= next_event_ts
  /\ phase' = "outer"
  /\ \E v \in HandledDue("vip"), t \in HandledDue("timer"),
        i \in HandledDue("input") :
       LET new == [d \in Devices |-> CASE d = "vip"   -> v
                                       [] d = "timer" -> t
                                       [] d = "input" -> i]
       IN  /\ due' = new
           /\ next_ts' = [d \in Devices |->
                            IF timestamp >= next_ts[d] THEN new[d]
                                                       ELSE next_ts[d]]
  /\ next_event_ts' = HandlerNextTS(next_ts')
  /\ \E frame_end \in {FALSE, timestamp >= next_ts["vip"]} :
       Running' = (Running /\ ~BudgetReached /\ ~frame_end)
  /\ Halted' \in BOOLEAN
  /\ UNCHANGED << timestamp, unit_start >>

(* ForceEventUpdates once Run has returned (what FixNonEvents does just    *)
(* before is overwritten here).                                            *)
ForceEventUpdates ==
  /\ phase = "force"
  /\ phase' = "rebase"
  /\ \E v \in UpdatedDue("vip", timestamp),
        t \in UpdatedDue("timer", timestamp),
        i \in UpdatedDue("input", timestamp) :
       due' = [d \in Devices |-> CASE d = "vip"   -> v
                                   [] d = "timer" -> t
                                   [] d = "input" -> i]
  /\ next_ts' = due'
  /\ next_event_ts' = CalcNextTS(next_ts')
  /\ UNCHANGED << timestamp, unit_start, Running, Halted >>

(* The devices' ResetTS, RebaseTS and V810::ResetTS(0): the next frame     *)
(* counts from 0.  RebaseTS moves VB_EVENT_NONONO like any other time.     *)
Rebase ==
  /\ phase = "rebase"
  /\ phase' = "idle"
  /\ next_ts' = [d \in Devices |-> next_ts[d] - timestamp]
  /\ due' = [d \in Devices |-> IF due[d] = NoEvent THEN NoEvent
                                ELSE due[d] - timestamp]
  /\ next_event_ts' = next_event_ts - timestamp
  /\ timestamp' = 0
  /\ unit_start' = 0
  /\ UNCHANGED << Running, Halted >>

-----------------------------------------------------------------------------
Cpu == \/ SkipToEvent \/ EnterInner \/ LeaveRun \/ BeginUnit
       \/ EndUnit \/ HaltUnit \/ ExceptionUnit

Next == \/ StartFrame \/ Cpu \/ Spend \/ EnterStuckBlock \/ Spin
        \/ AccessTimer \/ EnableTimer \/ AccessInput
        \/ EventHandler \/ ForceEventUpdates \/ Rebase

(* One thread runs all of it: whatever can go on does.  A unit that comes  *)
(* back has cost at least a clock (every interpreted instruction does, and *)
(* every translated one; the taking of an interrupt and the trampoline's   *)
(* lookup cost none and belong to the unit after them).  A block that does *)
(* not come back is no such unit but EnterStuckBlock, which nothing here   *)
(* rules out.                                                              *)
Fairness ==
  /\ WF_vars(Cpu) /\ WF_vars(Spend)
  /\ WF_vars(EventHandler) /\ WF_vars(ForceEventUpdates) /\ WF_vars(Rebase)

Spec == Init /\ [][Next]_vars /\ Fairness

-----------------------------------------------------------------------------
(* Types, and no clock value the 32-bit timestamps could not hold.         *)
TypeOK ==
  /\ phase \in {"idle", "outer", "inner", "unit", "stuck", "force", "rebase"}
  /\ timestamp \in 0 .. Budget + MaxUnit
  /\ unit_start \in 0 .. Budget
  /\ next_event_ts \in 0 .. NoEvent
  /\ Running \in BOOLEAN /\ Halted \in BOOLEAN
  /\ next_ts \in [Devices -> 0 .. NoEvent]
  /\ due \in [Devices -> 0 .. NoEvent]

(* No unit of CPU work begins while some device is overdue, whatever the   *)
(* order of register accesses, events, halts and frame ends: a deadline    *)
(* is missed by less than one unit.                                        *)
EventsOnTime ==
  phase = "unit" => \A d \in Devices : due[d] > unit_start

(* The three asserts of RebaseTS (compiled out on the device).             *)
RebaseAsserts ==
  phase = "rebase" => \A d \in Devices : next_ts[d] > timestamp

(* A frame ends within one unit of VB_FRAME_BUDGET: what EventHandler's    *)
(* cap is there for.                                                       *)
FrameBounded == timestamp < Budget + MaxUnit

(* The CPU clock never runs backwards inside a frame, though a halted CPU  *)
(* is simply sent to next_event_ts.                                        *)
ClockMonotone == [][phase # "rebase" => timestamp' >= timestamp]_vars

(* When a halted CPU skips time (at the head of the outer loop or after an *)
(* exception), it never skips past a device's deadline.                    *)
HaltNeverOversleeps ==
  [][phase' # "unit" /\ timestamp' > timestamp =>
       \A d \in Devices : timestamp' <= due[d]]_vars

(* Every frame that starts comes to its end, however its events, halts and *)
(* register accesses fall, unless the CPU is caught in a translated block  *)
(* that never comes back: nothing else keeps vb_run_frame from returning.  *)
FrameEnds == phase = "outer" ~> phase \in {"idle", "stuck"}
=============================================================================
