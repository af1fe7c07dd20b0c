----------------------------- MODULE VipProofs -----------------------------
(***************************************************************************)
(* Proofs about Vip, for every size of the screen and of the drawing that  *)
(* VipAssumption admits.                                                   *)
(*                                                                         *)
(* The argument follows two positions through VIP_Update's rounds: that of *)
(* the beam, Displayed, and that of the drawing, Drawn.  Each round adds   *)
(* the same clocks to both, so that a drawing that began with a frame is   *)
(* over before the next begins, and the buffers are swapped whole; and the *)
(* beam is never behind the clock of the vb_run_frame in progress, so that *)
(* the VIP's frame ends before the budget is spent.  Nor is it ahead of    *)
(* that clock by as much as a unit of work (Ahead).                        *)
(***************************************************************************)
EXTENDS Vip, TLAPS

(* The beam's clock: last_ts, and inside an update what it has got to.     *)
BeamClock == IF caller = "none" THEN last_ts ELSE now - clocks

Schedule ==
  /\ caller = "none" => /\ clocks = 0
                        /\ next_vip_ts = last_ts + ColumnCounter
                        /\ now < next_vip_ts + MaxUnit
  /\ caller = "force" => clocks = 0
  /\ ~Running /\ caller # "event" => last_ts = now
  /\ Running => /\ Displayed >= BeamClock
                /\ caller # "force"

(* What is left to catch up with is a column and a unit of work at most.   *)
UpdatesPrompt == now < last_ts + ColumnClocks + MaxUnit

IInv == /\ TypeOK
        /\ LineTracksPending
        /\ DrawingInStep
        /\ DrawingActive => DrawingBlock < Blocks
        /\ BudgetNeverReached
        /\ UpdatesPrompt
        /\ SboutSoonOver
        /\ Schedule

-----------------------------------------------------------------------------
(* Products, which the solvers meet only here.                             *)
LEMMA NextMultiple ==
  ASSUME NEW a \in Int, NEW b \in Int
  PROVE  (a + 1) * b = a * b + b /\ (a - 1) * b = a * b - b
  OBVIOUS

LEMMA MultipleMonotone ==
  ASSUME NEW a \in Nat, NEW c \in Nat, NEW b \in Nat, a <= c
  PROVE  a * b <= c * b /\ a * b \in Nat
  OBVIOUS

LEMMA Sizes ==
  /\ Columns \in Nat /\ ColumnClocks \in Nat /\ Blocks \in Nat
  /\ BlockClocks \in Nat /\ MaxUnit \in Nat /\ Budget \in Nat
  /\ SboutClocks \in Nat /\ MaxFRMCYC \in Nat
  /\ Columns > 0 /\ ColumnClocks > 0 /\ BlockClocks > 0 /\ MaxUnit > 0
  /\ Columns * ColumnClocks \in Nat
  /\ FrameClocks = 4 * (Columns * ColumnClocks)
  /\ Blocks > 0
  <1>1. \A x \in Nat \ {0} : x \in Nat /\ x > 0
    OBVIOUS
  <1>2. \A x, y \in Nat : x * y \in Nat
    OBVIOUS
  <1> QED BY <1>1, <1>2, VipAssumption, Zenon DEF VipAssumption, FrameClocks

(* The beam is inside the frame, and has at least the rest of its column   *)
(* to go.                                                                  *)
LEMMA BeamInFrame ==
  ASSUME TypeOK
  PROVE  /\ Displayed \in Nat
         /\ Displayed + ColumnCounter <= FrameClocks
  <1> DEFINE K == Columns * ColumnClocks
  <1>1. K \in Nat /\ FrameClocks = 4 * K /\ Columns \in Nat
        /\ ColumnClocks \in Nat
    BY Sizes
  <1>2. /\ Column \in Nat /\ Column + 1 \in Nat /\ Column + 1 <= Columns
        /\ ColumnCounter \in 1 .. ColumnClocks
        /\ DisplayRegion \in 0 .. 3
    BY <1>1 DEF TypeOK
  <1>3. (Column + 1) * ColumnClocks <= K
    BY <1>1, <1>2, MultipleMonotone
  <1>4. /\ (Column + 1) * ColumnClocks = Column * ColumnClocks + ColumnClocks
        /\ Column * ColumnClocks \in Nat
    BY <1>1, <1>2, NextMultiple, MultipleMonotone
  <1> HIDE DEF K
  <1>5. DisplayRegion * K \in 0 .. 3 * K
    <2>1. DisplayRegion = 0 \/ DisplayRegion = 1 \/ DisplayRegion = 2
          \/ DisplayRegion = 3
      BY <1>2
    <2> QED BY <2>1, <1>1
  <1>6. Displayed = DisplayRegion * K + Column * ColumnClocks
                    + (ColumnClocks - ColumnCounter)
    BY DEF Displayed, K
  <1> QED BY <1>1, <1>2, <1>3, <1>4, <1>5, <1>6

(* What a round is: some clocks, no more than are left, than the column or *)
(* the block has.                                                          *)
LEMMA RoundBounds ==
  ASSUME TypeOK, clocks > 0
  PROVE  /\ RoundClocks \in 1 .. clocks /\ RoundClocks \in 1 .. ColumnCounter
         /\ DrawingCounter > 0 => RoundClocks <= DrawingCounter
         /\ EndsBlock <=> DrawingCounter > 0 /\ RoundClocks = DrawingCounter
         /\ now \in Nat /\ last_ts \in 0 .. now /\ clocks \in 1 .. now - last_ts
  <1>1. clocks \in Nat \ {0} /\ ColumnCounter \in Nat \ {0}
        /\ DrawingCounter \in Nat
    BY Sizes DEF TypeOK
  <1> QED BY <1>1 DEF TypeOK, RoundClocks, Lesser, EndsBlock

(* A round moves the beam by its clocks, from the end of a frame to the    *)
(* beginning of the next.                                                  *)
LEMMA BeamMoves ==
  ASSUME TypeOK, clocks > 0, Displaying
  PROVE  /\ ~StartsFrame => Displayed' = Displayed + RoundClocks
         /\ StartsFrame => /\ Displayed' = 0
                           /\ Displayed + RoundClocks = FrameClocks
  <1> DEFINE K == Columns * ColumnClocks
  <1>1. K \in Nat /\ FrameClocks = 4 * K /\ Columns \in Nat \ {0}
        /\ ColumnClocks \in Nat \ {0}
    BY Sizes
  <1>2. /\ Column \in 0 .. Columns - 1
        /\ ColumnCounter \in 1 .. ColumnClocks
        /\ DisplayRegion \in 0 .. 3
    BY DEF TypeOK
  <1>3. RoundClocks \in 1 .. ColumnCounter
    BY RoundBounds
  <1>4. Column * ColumnClocks \in Nat /\ DisplayRegion * K \in Nat
    BY <1>1, <1>2
  <1>5. /\ Displayed = DisplayRegion * K + Column * ColumnClocks
                       + (ColumnClocks - ColumnCounter)
        /\ Displayed' = DisplayRegion' * K + Column' * ColumnClocks
                        + (ColumnClocks - ColumnCounter')
    BY DEF Displayed
  <1>6. CASE ~EndsColumn
    <2>1. /\ ColumnCounter' = ColumnCounter - RoundClocks
          /\ Column' = Column /\ DisplayRegion' = DisplayRegion
          /\ ~StartsFrame
      BY <1>6 DEF Displaying, EndsRegion, StartsFrame
    <2> HIDE DEF K
    <2> QED BY <2>1, <1>1, <1>2, <1>3, <1>4, <1>5
  <1>7. CASE EndsColumn /\ ~EndsRegion
    <2>1. /\ ColumnCounter' = ColumnClocks /\ RoundClocks = ColumnCounter
          /\ Column' = Column + 1 /\ DisplayRegion' = DisplayRegion
          /\ ~StartsFrame
      BY <1>7 DEF Displaying, EndsColumn, StartsFrame
    <2>2. (Column + 1) * ColumnClocks = Column * ColumnClocks + ColumnClocks
      BY <1>1, <1>2, NextMultiple
    <2> HIDE DEF K
    <2> QED BY <2>1, <2>2, <1>1, <1>2, <1>3, <1>4, <1>5
  <1>8. CASE EndsRegion
    <2>1. /\ ColumnCounter' = ColumnClocks /\ RoundClocks = ColumnCounter
          /\ Column' = 0 /\ Column = Columns - 1
          /\ DisplayRegion' = IF StartsFrame THEN 0 ELSE DisplayRegion + 1
          /\ StartsFrame <=> DisplayRegion = 3
      BY <1>8, <1>1, <1>2 DEF Displaying, EndsRegion, EndsColumn, StartsFrame
    <2>2. Column * ColumnClocks = K - ColumnClocks
      BY <1>1, <2>1, NextMultiple
    <2>3. (DisplayRegion + 1) * K = DisplayRegion * K + K
      BY <1>1, <1>2, NextMultiple
    <2>4. 0 * ColumnClocks = 0 /\ 0 * K = 0
      BY <1>1
    <2>5. DisplayRegion = 3 => DisplayRegion * K = 3 * K
      OBVIOUS
    <2> HIDE DEF K
    <2>6. CASE StartsFrame
      BY <2>1, <2>2, <2>4, <2>5, <2>6, <1>1, <1>2, <1>3, <1>5
    <2>7. CASE ~StartsFrame
      BY <2>1, <2>2, <2>3, <2>4, <2>7, <1>1, <1>2, <1>3, <1>4, <1>5
    <2> QED BY <2>6, <2>7
  <1> QED BY <1>6, <1>7, <1>8 DEF EndsRegion

(* A drawing in step with the beam is over before the next frame starts.   *)
LEMMA DrawingInTime ==
  ASSUME IInv, clocks > 0, DrawingActive, Displaying
  PROVE  ~StartsFrame
  <1>1. /\ DrawingBlock \in Nat /\ Blocks \in Nat /\ BlockClocks \in Nat
        /\ DrawingBlock + 1 <= Blocks
        /\ DrawingCounter \in 1 .. BlockClocks
    BY Sizes DEF IInv, TypeOK, DrawingInStep
  <1>2. RoundClocks \in 1 .. DrawingCounter
    BY <1>1, RoundBounds DEF IInv
  <1>3. Drawn = Displayed
    BY DEF IInv, DrawingInStep
  <1>4. Drawn + RoundClocks <= Blocks * BlockClocks
    <2>1. (DrawingBlock + 1) * BlockClocks <= Blocks * BlockClocks
      BY <1>1, MultipleMonotone
    <2>2. (DrawingBlock + 1) * BlockClocks
            = DrawingBlock * BlockClocks + BlockClocks
      BY <1>1, NextMultiple
    <2>3. DrawingBlock * BlockClocks \in Nat /\ Blocks * BlockClocks \in Nat
      BY <1>1
    <2> QED BY <2>1, <2>2, <2>3, <1>1, <1>2 DEF Drawn
  <1>5. Blocks * BlockClocks < FrameClocks /\ FrameClocks \in Nat
        /\ Blocks * BlockClocks \in Nat
    BY VipAssumption, Sizes, <1>1 DEF VipAssumption
  <1>6. StartsFrame => Displayed + RoundClocks = FrameClocks
    BY BeamMoves DEF IInv
  <1>7. Drawn \in Int
    BY <1>3, BeamInFrame DEF IInv
  <1> QED BY <1>2, <1>3, <1>4, <1>5, <1>6, <1>7

-----------------------------------------------------------------------------
LEMMA InitInv == Init => IInv
  <1> SUFFICES ASSUME Init PROVE IInv
    OBVIOUS
  <1> USE Sizes
  <1>1. TypeOK
    <2>1. /\ DisplayActive \in BOOLEAN /\ DrawingActive \in BOOLEAN
          /\ DISP \in BOOLEAN /\ XP_EN \in BOOLEAN /\ irq \in BOOLEAN
          /\ Running \in BOOLEAN
          /\ InterruptPending \subseteq Ints /\ InterruptEnable \subseteq Ints
          /\ caller \in {"none", "event", "force"}
      BY Zenon DEF Init
    <2>2. /\ Column \in 0 .. Columns - 1 /\ ColumnCounter \in 1 .. ColumnClocks
          /\ DisplayRegion \in 0 .. 3
          /\ DisplayFB \in {0, 1} /\ DrawingFB \in {0, 1}
          /\ GameFrameCounter \in 0 .. MaxFRMCYC
          /\ DrawingCounter \in 0 .. BlockClocks
          /\ DrawingBlock \in 0 .. Blocks
      BY DEF Init
    <2>3. /\ SBOUT_InactiveTime \in Int /\ FRMCYC \in 0 .. MaxFRMCYC
          /\ now \in Nat /\ next_vip_ts \in Nat
          /\ last_ts \in 0 .. now /\ clocks \in 0 .. now - last_ts
      BY DEF Init
    <2> QED BY <2>1, <2>2, <2>3 DEF TypeOK
  <1>2. LineTracksPending
    BY DEF Init, LineTracksPending
  <1>3. DrawingInStep /\ (DrawingActive => DrawingBlock < Blocks)
    BY DEF Init, DrawingInStep
  <1>4. BudgetNeverReached
    BY VipAssumption DEF Init, BudgetNeverReached, VipAssumption, FrameClocks
  <1>5. UpdatesPrompt /\ SboutSoonOver
    BY DEF Init, UpdatesPrompt, SboutSoonOver
  <1>6. Schedule
    <2>1. Displayed >= 0
      BY <1>1, BeamInFrame
    <2> QED BY <2>1 DEF Init, Schedule, BeamClock
  <1> QED BY <1>1, <1>2, <1>3, <1>4, <1>5, <1>6 DEF IInv

(* A cycle of the CPU: the clock comes no nearer to the budget than a unit *)
(* after the end of the frame.                                             *)
LEMMA CycleInv == IInv /\ Cycle => IInv'
  <1> SUFFICES ASSUME IInv, Cycle PROVE IInv'
    OBVIOUS
  <1> USE Sizes
  <1>1. TypeOK'
    BY DEF IInv, TypeOK, Cycle, display, drawing, buffers, controls, interrupt
  <1>2. LineTracksPending'
    BY DEF IInv, LineTracksPending, Cycle, interrupt
  <1>3. DrawingInStep' /\ (DrawingActive => DrawingBlock < Blocks)'
    BY DEF IInv, DrawingInStep, Drawn, Displayed, Cycle, display, drawing
  <1>4. /\ now' = now + 1 /\ now + 1 < next_vip_ts + MaxUnit
        /\ last_ts' = last_ts /\ caller = "none" /\ caller' = "none"
        /\ next_vip_ts' = next_vip_ts /\ clocks' = clocks /\ Running
        /\ Running' /\ ColumnCounter' = ColumnCounter
        /\ SBOUT_InactiveTime' = SBOUT_InactiveTime
        /\ next_vip_ts \in Nat /\ now \in Nat
    BY DEF IInv, TypeOK, Cycle, Executing, Lesser, display
  <1>5. /\ next_vip_ts = last_ts + ColumnCounter /\ Displayed >= last_ts
        /\ last_ts \in Nat /\ ColumnCounter \in 1 .. ColumnClocks
        /\ SBOUT_InactiveTime \in Int
    BY <1>4 DEF IInv, TypeOK, Schedule, BeamClock
  <1>6. next_vip_ts <= FrameClocks
    BY <1>5, BeamInFrame DEF IInv
  <1>7. BudgetNeverReached'
    BY <1>4, <1>6, VipAssumption DEF BudgetNeverReached, VipAssumption
  <1>8. UpdatesPrompt'
    BY <1>4, <1>5 DEF UpdatesPrompt
  <1>9. SboutSoonOver'
    BY <1>4, <1>5 DEF IInv, SboutSoonOver
  <1>10. Displayed' = Displayed
    BY DEF Displayed, Cycle, display
  <1>11. Schedule'
    BY <1>4, <1>5, <1>10 DEF IInv, Schedule, BeamClock
  <1> QED BY <1>1, <1>2, <1>3, <1>7, <1>8, <1>9, <1>11 DEF IInv

(* What a write to a register may change: the clockwork is not in it.      *)
LEMMA WriteInv ==
  ASSUME IInv, TypeOK', LineTracksPending', DrawingInStep',
         DrawingActive' => DrawingBlock' < Blocks,
         UNCHANGED << Column, ColumnCounter, DisplayRegion,
                      SBOUT_InactiveTime, clock >>
  PROVE  IInv'
  <1>1. BudgetNeverReached' /\ UpdatesPrompt' /\ SboutSoonOver'
    BY DEF IInv, BudgetNeverReached, UpdatesPrompt, SboutSoonOver, clock
  <1>2. Displayed' = Displayed
    BY DEF Displayed
  <1>3. Schedule'
    BY <1>2 DEF IInv, Schedule, BeamClock, clock
  <1> QED BY <1>1, <1>3 DEF IInv

LEMMA ProgramInv == IInv /\ Program => IInv'
  <1> SUFFICES ASSUME IInv, Program PROVE IInv'
    OBVIOUS
  <1> USE Sizes
  <1>1. ASSUME NEW enable \in EnableValues, WriteInterruptEnable(enable)
        PROVE  IInv'
    <2>1. enable \subseteq Ints
      BY VipAssumption, <1>1 DEF VipAssumption
    <2>2. TypeOK'
      BY <1>1, <2>1 DEF IInv, TypeOK, WriteInterruptEnable, CheckIRQ, display,
        drawing, buffers, controls, clock
    <2>3. LineTracksPending'
      BY <1>1 DEF LineTracksPending, WriteInterruptEnable, CheckIRQ
    <2>4. DrawingInStep' /\ (DrawingActive' => DrawingBlock' < Blocks)
      BY <1>1 DEF IInv, DrawingInStep, Drawn, Displayed, WriteInterruptEnable,
        display, drawing
    <2> QED BY <1>1, <2>2, <2>3, <2>4, WriteInv
          DEF WriteInterruptEnable, display
  <1>2. ASSUME NEW clear \in ClearValues, WriteInterruptClear(clear)
        PROVE  IInv'
    <2>1. TypeOK'
      BY <1>2 DEF IInv, TypeOK, WriteInterruptClear, CheckIRQ, display,
        drawing, buffers, controls, clock
    <2>2. LineTracksPending'
      BY <1>2 DEF LineTracksPending, WriteInterruptClear, CheckIRQ
    <2>3. DrawingInStep' /\ (DrawingActive' => DrawingBlock' < Blocks)
      BY <1>2 DEF IInv, DrawingInStep, Drawn, Displayed, WriteInterruptClear,
        display, drawing
    <2> QED BY <1>2, <2>1, <2>2, <2>3, WriteInv
          DEF WriteInterruptClear, display
  <1>3. ASSUME NEW disp \in BOOLEAN, NEW dprst \in BOOLEAN,
               WriteDPCTRL(disp, dprst)
        PROVE  IInv'
    <2>1. TypeOK'
      BY <1>3, ZenonT(60) DEF IInv, TypeOK, WriteDPCTRL, CheckIRQ, drawing, buffers, clock
    <2>2. LineTracksPending'
      BY <1>3 DEF IInv, LineTracksPending, WriteDPCTRL, CheckIRQ
    <2>3. DrawingInStep' /\ (DrawingActive' => DrawingBlock' < Blocks)
      BY <1>3 DEF IInv, DrawingInStep, Drawn, Displayed, WriteDPCTRL, drawing
    <2> QED BY <1>3, <2>1, <2>2, <2>3, WriteInv DEF WriteDPCTRL
  <1>4. ASSUME NEW cycles \in 0 .. MaxFRMCYC, WriteFRMCYC(cycles)
        PROVE  IInv'
    <2>1. TypeOK'
      BY <1>4 DEF IInv, TypeOK, WriteFRMCYC, display, drawing, buffers,
        interrupt, clock
    <2>2. LineTracksPending'
      BY <1>4 DEF IInv, LineTracksPending, WriteFRMCYC, interrupt
    <2>3. DrawingInStep' /\ (DrawingActive' => DrawingBlock' < Blocks)
      BY <1>4 DEF IInv, DrawingInStep, Drawn, Displayed, WriteFRMCYC, display,
        drawing
    <2> QED BY <1>4, <2>1, <2>2, <2>3, WriteInv DEF WriteFRMCYC, display
  <1>5. ASSUME NEW enable \in BOOLEAN, NEW xprst \in BOOLEAN,
               WriteXPCTRL(enable, xprst)
        PROVE  IInv'
    <2>a. /\ DrawingFB' \in {0, 1} /\ DisplayFB' \in {0, 1}
          /\ DrawingCounter' \in 0 .. BlockClocks
      BY <1>5 DEF IInv, TypeOK, WriteXPCTRL, XPRST, Other, buffers
    <2>b. /\ XP_EN' \in BOOLEAN /\ DrawingActive' \in BOOLEAN
          /\ irq' \in BOOLEAN /\ InterruptPending' \subseteq Ints
      BY <1>5, Zenon DEF IInv, TypeOK, WriteXPCTRL, CheckIRQ
    <2>1. TypeOK'
      BY <1>5, <2>a, <2>b DEF IInv, TypeOK, WriteXPCTRL, display, clock
    <2>2. LineTracksPending'
      BY <1>5 DEF IInv, LineTracksPending, WriteXPCTRL, CheckIRQ
    <2>3. DrawingInStep' /\ (DrawingActive' => DrawingBlock' < Blocks)
      BY <1>5 DEF IInv, DrawingInStep, Drawn, Displayed, WriteXPCTRL, display
    <2> QED BY <1>5, <2>1, <2>2, <2>3, WriteInv DEF WriteXPCTRL, display
  <1> QED BY <1>1, <1>2, <1>3, <1>4, <1>5 DEF Program

-----------------------------------------------------------------------------
LEMMA EventHandlerInv == IInv /\ EventHandler => IInv'
  <1> SUFFICES ASSUME IInv, EventHandler PROVE IInv'
    OBVIOUS
  <1>1. /\ now \in Nat /\ Budget \in Nat /\ now < Budget
        /\ last_ts \in 0 .. now /\ next_vip_ts \in Nat
        /\ now' = now /\ last_ts' = last_ts
    BY Sizes DEF IInv, TypeOK, BudgetNeverReached, EventHandler
  <1>2. /\ now >= next_vip_ts
        /\ caller' = "event" /\ clocks' = now - last_ts
        /\ caller = "none" /\ Running
    BY <1>1 DEF EventHandler, Executing, Lesser
  <1>3. Running' \in BOOLEAN
    <2>1. Running' = (now < Budget)
      BY Zenon DEF EventHandler
    <2>2. (now < Budget) \in BOOLEAN
      BY <1>1
    <2> QED BY <2>1, <2>2, Zenon
  <1>4. TypeOK'
    BY <1>1, <1>2, <1>3 DEF IInv, TypeOK, EventHandler, display, drawing,
      buffers, controls, interrupt
  <1>5. LineTracksPending'
    BY DEF IInv, LineTracksPending, EventHandler, interrupt
  <1>6. DrawingInStep' /\ (DrawingActive => DrawingBlock < Blocks)'
    BY DEF IInv, DrawingInStep, Drawn, Displayed, EventHandler, display, drawing
  <1>7. BudgetNeverReached' /\ UpdatesPrompt' /\ SboutSoonOver'
    BY DEF IInv, BudgetNeverReached, UpdatesPrompt, SboutSoonOver, EventHandler
  <1>8. Displayed' = Displayed
    BY DEF Displayed, EventHandler, display
  <1>9. Schedule'
    BY <1>1, <1>2, <1>8 DEF IInv, Schedule, BeamClock
  <1> QED BY <1>4, <1>5, <1>6, <1>7, <1>9 DEF IInv

LEMMA ForceEventUpdatesInv == IInv /\ ForceEventUpdates => IInv'
  <1> SUFFICES ASSUME IInv, ForceEventUpdates PROVE IInv'
    OBVIOUS
  <1>1. /\ now \in Nat /\ last_ts = now /\ ~Running
        /\ now' = now /\ last_ts' = last_ts /\ ~Running'
        /\ caller' = "force" /\ clocks' = 0
    BY DEF IInv, TypeOK, Schedule, ForceEventUpdates
  <1>2. TypeOK'
    BY <1>1 DEF IInv, TypeOK, ForceEventUpdates, display, drawing,
      buffers, controls, interrupt
  <1>3. LineTracksPending'
    BY DEF IInv, LineTracksPending, ForceEventUpdates, interrupt
  <1>4. DrawingInStep' /\ (DrawingActive => DrawingBlock < Blocks)'
    BY DEF IInv, DrawingInStep, Drawn, Displayed, ForceEventUpdates, display,
      drawing
  <1>5. BudgetNeverReached' /\ UpdatesPrompt' /\ SboutSoonOver'
    BY DEF IInv, BudgetNeverReached, UpdatesPrompt, SboutSoonOver,
      ForceEventUpdates
  <1>6. Schedule'
    BY <1>1 DEF Schedule
  <1> QED BY <1>2, <1>3, <1>4, <1>5, <1>6 DEF IInv

LEMMA ReturnToEventInv == IInv /\ ReturnToEvent => IInv'
  <1> SUFFICES ASSUME IInv, ReturnToEvent PROVE IInv'
    OBVIOUS
  <1> USE Sizes
  <1>1. /\ now \in Nat /\ now' = now /\ last_ts' = now /\ clocks' = 0
        /\ clocks = 0 /\ caller = "event" /\ caller' = "none"
        /\ next_vip_ts' = now + ColumnCounter
        /\ ColumnCounter' = ColumnCounter /\ ColumnCounter \in 1 .. ColumnClocks
        /\ last_ts \in 0 .. now
    BY DEF IInv, TypeOK, ReturnToEvent, NextUpdate, display
  <1>2. TypeOK'
    BY <1>1 DEF IInv, TypeOK, ReturnToEvent, display, drawing,
      buffers, controls, interrupt
  <1>3. LineTracksPending'
    BY DEF IInv, LineTracksPending, ReturnToEvent, interrupt
  <1>4. DrawingInStep' /\ (DrawingActive => DrawingBlock < Blocks)'
    BY DEF IInv, DrawingInStep, Drawn, Displayed, ReturnToEvent, display,
      drawing
  <1>5. BudgetNeverReached' /\ SboutSoonOver'
    BY DEF IInv, BudgetNeverReached, SboutSoonOver, ReturnToEvent
  <1>6. UpdatesPrompt'
    BY <1>1 DEF UpdatesPrompt
  <1>7. Displayed' = Displayed
    BY DEF Displayed, ReturnToEvent, display
  <1>8. Running' <=> Running
    BY DEF ReturnToEvent
  <1>9. Schedule'
    BY <1>1, <1>7, <1>8 DEF IInv, Schedule, BeamClock
  <1> QED BY <1>2, <1>3, <1>4, <1>5, <1>6, <1>9 DEF IInv

LEMMA ReturnToForceInv == IInv /\ ReturnToForce => IInv'
  <1> SUFFICES ASSUME IInv, ReturnToForce PROVE IInv'
    OBVIOUS
  <1> USE Sizes
  <1>1. /\ now \in Nat /\ now' = 0 /\ last_ts' = 0 /\ clocks' = 0
        /\ caller' = "none" /\ Running' = TRUE
        /\ ColumnCounter' = ColumnCounter /\ ColumnCounter \in 1 .. ColumnClocks
        /\ next_vip_ts' = ColumnCounter
        /\ SBOUT_InactiveTime \in Int
        /\ SBOUT_InactiveTime' = IF SBOUT_InactiveTime >= now
                                 THEN SBOUT_InactiveTime - now
                                 ELSE -1
    BY DEF IInv, TypeOK, ReturnToForce, ResetTS, NextUpdate, display
  <1>2. TypeOK'
    BY <1>1 DEF IInv, TypeOK, ReturnToForce, display, drawing,
      buffers, controls, interrupt
  <1>3. LineTracksPending'
    BY DEF IInv, LineTracksPending, ReturnToForce, interrupt
  <1>4. DrawingInStep' /\ (DrawingActive => DrawingBlock < Blocks)'
    BY DEF IInv, DrawingInStep, Drawn, Displayed, ReturnToForce, display,
      drawing
  <1>5. BudgetNeverReached'
    BY <1>1 DEF IInv, BudgetNeverReached
  <1>6. UpdatesPrompt' /\ SboutSoonOver'
    BY <1>1 DEF IInv, UpdatesPrompt, SboutSoonOver
  <1>7. Displayed' = Displayed /\ Displayed \in Nat
    BY BeamInFrame DEF IInv, Displayed, ReturnToForce, display
  <1>8. Schedule'
    BY <1>1, <1>7 DEF Schedule, BeamClock
  <1> QED BY <1>2, <1>3, <1>4, <1>5, <1>6, <1>8 DEF IInv

(* A round of VIP_Update.  Only the update of an event has rounds.         *)
LEMMA RoundInv == IInv /\ Round => IInv'
  <1> SUFFICES ASSUME IInv, Round PROVE IInv'
    OBVIOUS
  <1> USE Sizes
  <1>1. clocks > 0 /\ Drawing /\ Displaying
    BY DEF Round
  <1>2. /\ RoundClocks \in 1 .. clocks /\ RoundClocks \in 1 .. ColumnCounter
        /\ DrawingCounter > 0 => RoundClocks <= DrawingCounter
        /\ EndsBlock <=> DrawingCounter > 0 /\ RoundClocks = DrawingCounter
        /\ now \in Nat /\ last_ts \in 0 .. now /\ clocks \in 1 .. now - last_ts
    BY <1>1, RoundBounds DEF IInv
  <1>3. /\ caller = "event" /\ caller' = "event" /\ now' = now
        /\ last_ts' = last_ts /\ clocks' = clocks - RoundClocks
        /\ next_vip_ts' = next_vip_ts
    BY <1>1 DEF IInv, TypeOK, Schedule, Round
  <1>4. /\ DrawingCounter \in 0 .. BlockClocks /\ DrawingBlock \in 0 .. Blocks
        /\ DrawingActive \in BOOLEAN
        /\ DrawingActive <=> DrawingCounter > 0
        /\ DrawingActive => DrawingBlock < Blocks /\ Drawn = Displayed
    BY DEF IInv, TypeOK, DrawingInStep
  <1>5. StartsDrawing => StartsFrame /\ ~DrawingActive
    BY <1>1, DrawingInTime DEF StartsDrawing, StartsGameFrame
  <1>6. /\ ~StartsFrame => Displayed' = Displayed + RoundClocks
        /\ StartsFrame => Displayed' = 0
    BY <1>1, BeamMoves DEF IInv
  <1>7. /\ DrawingActive' \in BOOLEAN
        /\ DrawingCounter' \in 0 .. BlockClocks
        /\ DrawingBlock' \in 0 .. Blocks
        /\ DrawingActive' <=> DrawingCounter' > 0
        /\ DrawingActive' => DrawingBlock' < Blocks /\ Drawn' = Displayed'
    <2>1. CASE StartsDrawing
      <3>1. DrawingActive' = TRUE /\ DrawingCounter' = BlockClocks
            /\ DrawingBlock' = 0
        BY <1>1, <2>1 DEF Drawing, Rewound
      <3>2. Displayed' = 0
        BY <2>1, <1>5, <1>6
      <3>3. Drawn' = 0
        BY <3>1 DEF Drawn
      <3> QED BY <3>1, <3>2, <3>3
    <2>2. CASE ~StartsDrawing /\ EndsDrawing
      <3>1. EndsBlock /\ DrawingBlock + 1 = Blocks
        BY <2>2 DEF EndsDrawing
      <3>2. DrawingActive' = FALSE
        BY <1>1, <2>2, Zenon DEF Drawing
      <3>3. DrawingCounter' = 0 /\ DrawingBlock' = DrawingBlock + 1
        BY <1>1, <2>2, <3>1 DEF Drawing
      <3>4. DrawingCounter' \in 0 .. BlockClocks /\ DrawingBlock' \in 0 .. Blocks
            /\ ~(DrawingCounter' > 0)
        BY <3>1, <3>3
      <3> QED BY <3>2, <3>4
    <2>3. CASE ~StartsDrawing /\ ~EndsDrawing /\ EndsBlock
      <3>1. DrawingActive
        BY <2>3, <1>2, <1>4
      <3>2. /\ DrawingActive' = TRUE
            /\ DrawingCounter' = DrawingCounter - RoundClocks + BlockClocks
            /\ DrawingBlock' = DrawingBlock + 1 /\ DrawingBlock + 1 # Blocks
        <4>1. DrawingActive' = TRUE
          BY <1>1, <2>3, <3>1, Zenon DEF Drawing
        <4>2. DrawingBlock + 1 # Blocks
          BY <2>3 DEF EndsDrawing
        <4>3. /\ DrawingCounter' = DrawingCounter - RoundClocks + BlockClocks
              /\ DrawingBlock' = DrawingBlock + 1
          BY <1>1, <2>3 DEF Drawing, NextBlock
        <4> QED BY <4>1, <4>2, <4>3
      <3>3. DrawingCounter' = BlockClocks /\ RoundClocks = DrawingCounter
        BY <3>2, <2>3, <1>2, <1>4
      <3>4. (DrawingBlock + 1) * BlockClocks
              = DrawingBlock * BlockClocks + BlockClocks
        BY <1>4, NextMultiple
      <3>5. Displayed' = Displayed + RoundClocks
        BY <3>1, <1>1, <1>6, DrawingInTime
      <3>6. DrawingBlock * BlockClocks \in Nat
        BY <1>4
      <3>7. Drawn' = Drawn + RoundClocks
        BY <3>2, <3>3, <3>4, <3>6, <1>4 DEF Drawn
      <3> QED BY <3>1, <3>2, <3>3, <3>5, <3>7, <1>4
    <2>4. CASE ~StartsDrawing /\ ~EndsBlock /\ DrawingCounter > 0
      <3>1. DrawingActive /\ RoundClocks < DrawingCounter
        BY <2>4, <1>2, <1>4
      <3>2. /\ DrawingCounter' = DrawingCounter - RoundClocks
            /\ DrawingBlock' = DrawingBlock
        BY <1>1, <2>4 DEF Drawing, EndsDrawing
      <3>3. DrawingActive' = TRUE
        BY <1>1, <2>4, <3>1, Zenon DEF Drawing, EndsDrawing
      <3>4. Displayed' = Displayed + RoundClocks
        BY <3>1, <1>1, <1>6, DrawingInTime
      <3>5. DrawingBlock * BlockClocks \in Nat
        BY <1>4
      <3>6. Drawn' = Drawn + RoundClocks
        BY <3>2, <3>5, <1>2, <1>4 DEF Drawn
      <3> QED BY <3>1, <3>2, <3>3, <3>4, <3>6, <1>2, <1>4
    <2>5. CASE ~StartsDrawing /\ ~EndsBlock /\ ~(DrawingCounter > 0)
      <3>1. DrawingCounter' = DrawingCounter /\ DrawingBlock' = DrawingBlock
        BY <1>1, <2>5 DEF Drawing, EndsDrawing
      <3>2. DrawingActive' = FALSE
        <4>1. ~DrawingActive
          BY <2>5, <1>4
        <4> QED BY <4>1, <1>1, <2>5, Zenon DEF Drawing
      <3> QED BY <3>1, <3>2, <2>5, <1>4
    <2> QED BY <2>1, <2>2, <2>3, <2>4, <2>5 DEF EndsDrawing
  <1>8. DrawingInStep' /\ (DrawingActive => DrawingBlock < Blocks)'
    BY <1>7 DEF DrawingInStep
  <1>9. /\ Column' \in 0 .. Columns - 1 /\ ColumnCounter' \in 1 .. ColumnClocks
        /\ DisplayRegion' \in 0 .. 3 /\ GameFrameCounter' \in 0 .. MaxFRMCYC
    <2>1. /\ Column \in 0 .. Columns - 1 /\ ColumnCounter \in 1 .. ColumnClocks
          /\ DisplayRegion \in 0 .. 3 /\ GameFrameCounter \in 0 .. MaxFRMCYC
          /\ FRMCYC \in 0 .. MaxFRMCYC
      BY DEF IInv, TypeOK
    <2>2. ColumnCounter' \in 1 .. ColumnClocks
      BY <1>1, <1>2, <2>1 DEF Displaying, EndsColumn
    <2>3. Column' \in 0 .. Columns - 1
      BY <1>1, <2>1 DEF Displaying, EndsRegion
    <2>4. DisplayRegion' \in 0 .. 3
      BY <1>1, <2>1 DEF Displaying, StartsFrame
    <2>5. GameFrameCounter' \in 0 .. MaxFRMCYC
      BY <1>1, <2>1 DEF Displaying, StartsGameFrame
    <2> QED BY <2>2, <2>3, <2>4, <2>5
  <1>10. DisplayActive' \in BOOLEAN /\ Running' \in BOOLEAN
    BY <1>1, Zenon DEF IInv, TypeOK, Round, Displaying, ExitLoop
  <1>11. DisplayFB' \in {0, 1} /\ DrawingFB' \in {0, 1}
    BY DEF IInv, TypeOK, Round, Swapped, Other, buffers
  <1>12. InterruptPending' \subseteq Ints /\ irq' \in BOOLEAN
    <2>1. Raised \subseteq Ints
      BY Zenon DEF Raised
    <2> QED BY <2>1, Zenon DEF IInv, TypeOK, Round, CheckIRQ
  <1>13. SBOUT_InactiveTime \in Int /\ SBOUT_InactiveTime' =
           IF EndsBlock
           THEN now + (now - last_ts - clocks) + RoundClocks + SboutClocks
           ELSE SBOUT_InactiveTime
    BY DEF IInv, TypeOK, Round
  <1>14. TypeOK'
    BY <1>2, <1>3, <1>7, <1>9, <1>10, <1>11, <1>12, <1>13
    DEF IInv, TypeOK, Round, controls
  <1>15. LineTracksPending'
    <2>1. /\ irq' = IF Raised = {} THEN irq
                    ELSE CheckIRQ(InterruptEnable, InterruptPending')
          /\ InterruptPending' = InterruptPending \union Raised
          /\ InterruptEnable' = InterruptEnable
          /\ irq = (InterruptEnable \intersect InterruptPending # {})
      BY Zenon DEF IInv, LineTracksPending, Round
    <2>2. CASE Raised = {}
      <3>1. InterruptPending' = InterruptPending
        BY <2>1, <2>2
      <3> QED BY <2>1, <2>2, <3>1, Zenon DEF LineTracksPending
    <2>3. CASE Raised # {}
      BY <2>1, <2>3, Zenon DEF LineTracksPending, CheckIRQ
    <2> QED BY <2>2, <2>3
  <1>16. BudgetNeverReached' /\ UpdatesPrompt'
    BY <1>3 DEF IInv, BudgetNeverReached, UpdatesPrompt
  <1>17. SboutSoonOver'
    BY <1>2, <1>3, <1>13 DEF IInv, SboutSoonOver, UpdatesPrompt
  <1>18. Schedule'
    <2>1. Running' => Running /\ ~StartsFrame
      BY Zenon DEF Round, ExitLoop
    <2>2. Displayed \in Nat
      BY BeamInFrame DEF IInv
    <2>3. Running => Displayed >= now - clocks
      BY <1>3 DEF IInv, Schedule, BeamClock
    <2>4. Running' => Displayed' >= now' - clocks'
      BY <2>1, <2>2, <2>3, <1>2, <1>3, <1>6
    <2> QED BY <2>4, <1>3 DEF Schedule, BeamClock
  <1> QED BY <1>8, <1>14, <1>15, <1>16, <1>17, <1>18 DEF IInv

-----------------------------------------------------------------------------
LEMMA NextInv == IInv /\ [Next]_vars => IInv'
  <1>1. IInv /\ UNCHANGED vars => IInv'
    BY DEF IInv, TypeOK, LineTracksPending, DrawingInStep, Drawn, Displayed,
      BudgetNeverReached, UpdatesPrompt, SboutSoonOver, Schedule, BeamClock,
      vars, display, drawing, buffers, controls, interrupt, clock
  <1> QED BY <1>1, CycleInv, ProgramInv, EventHandlerInv, ForceEventUpdatesInv,
        RoundInv, ReturnToEventInv, ReturnToForceInv DEF Next, Emulator

LEMMA Invariance == Spec => []IInv
  BY InitInv, NextInv, PTL DEF Spec

(* The VIP is well typed, its interrupt line is that of its registers, and *)
(* a drawing keeps in step with the display.                               *)
THEOREM VipSafe == Spec => [](TypeOK /\ LineTracksPending /\ DrawingInStep)
  <1>1. IInv => TypeOK /\ LineTracksPending /\ DrawingInStep
    BY DEF IInv
  <1> QED BY <1>1, Invariance, PTL

(* Its second part: after every round of an update, reset and write of a   *)
(* register the VIP's interrupt line is what its two registers say.        *)
COROLLARY VipLineTracked == Spec => []LineTracksPending
  BY VipSafe, PTL

-----------------------------------------------------------------------------
(* How far the beam may be ahead of the frame's clock: by the unit of work *)
(* that overran the end of the frame before.                               *)
Ahead ==
  /\ Running => Displayed < BeamClock + MaxUnit
  /\ ~Running => Displayed + clocks < MaxUnit
  /\ caller = "event" => clocks < ColumnCounter + MaxUnit

LEMMA ProgramKeepsTime ==
  Program => UNCHANGED << Column, ColumnCounter, DisplayRegion, clock >>
  BY DEF Program, WriteInterruptEnable, WriteInterruptClear, WriteDPCTRL,
    WriteFRMCYC, WriteXPCTRL, display

LEMMA AheadRound == IInv /\ Ahead /\ Round => Ahead'
  <1> SUFFICES ASSUME IInv, Ahead, Round PROVE Ahead'
    OBVIOUS
  <1> USE Sizes
  <1>1. clocks > 0 /\ Displaying
    BY DEF Round
  <1>2. /\ RoundClocks \in 1 .. clocks /\ RoundClocks \in 1 .. ColumnCounter
        /\ now \in Nat /\ clocks \in Nat
    BY <1>1, RoundBounds DEF IInv
  <1>3. /\ caller = "event" /\ caller' = "event" /\ now' = now
        /\ clocks' = clocks - RoundClocks
    BY <1>1 DEF IInv, TypeOK, Schedule, Round
  <1>4. /\ ~StartsFrame => Displayed' = Displayed + RoundClocks
        /\ StartsFrame => Displayed' = 0
    BY <1>1, BeamMoves DEF IInv
  <1>5. Displayed \in Nat /\ ColumnCounter \in Nat
    BY BeamInFrame DEF IInv, TypeOK
  <1>6. clocks < ColumnCounter + MaxUnit
    BY <1>3 DEF Ahead
  <1>7. EndsColumn => clocks' < MaxUnit
    BY <1>2, <1>3, <1>5, <1>6 DEF EndsColumn
  <1>8. clocks' < ColumnCounter' + MaxUnit
    BY <1>1, <1>2, <1>3, <1>5, <1>6, <1>7 DEF Displaying
  <1>9. StartsFrame => EndsColumn
    BY DEF StartsFrame, EndsRegion
  <1>10. Running' <=> Running /\ ~StartsFrame
    BY Zenon DEF Round, ExitLoop
  <1>11. Running' => Displayed' < BeamClock' + MaxUnit
    BY <1>2, <1>3, <1>4, <1>5, <1>10 DEF Ahead, BeamClock
  <1>12. ~Running' => Displayed' + clocks' < MaxUnit
    <2>1. CASE StartsFrame
      BY <2>1, <1>2, <1>3, <1>4, <1>7, <1>9
    <2>2. CASE ~StartsFrame
      BY <2>2, <1>2, <1>3, <1>4, <1>5, <1>10 DEF Ahead
    <2> QED BY <2>1, <2>2
  <1> QED BY <1>8, <1>11, <1>12 DEF Ahead

LEMMA AheadNext == IInv /\ Ahead /\ [Next]_vars => Ahead'
  <1> SUFFICES ASSUME IInv, Ahead, [Next]_vars PROVE Ahead'
    OBVIOUS
  <1> USE Sizes
  <1>t. /\ now \in Nat /\ last_ts \in 0 .. now /\ clocks \in Nat
        /\ Displayed \in Nat /\ ColumnCounter \in 1 .. ColumnClocks
        /\ next_vip_ts \in Nat /\ now < Budget
    BY BeamInFrame DEF IInv, TypeOK, BudgetNeverReached
  <1>1. CASE Cycle
    <2>1. /\ UNCHANGED << Displayed, ColumnCounter, last_ts, clocks, caller,
                          Running >>
          /\ caller = "none"
      BY <1>1 DEF Cycle, Executing, Displayed, display
    <2> QED BY <2>1 DEF Ahead, BeamClock
  <1>2. CASE Program
    <2>1. UNCHANGED << Displayed, ColumnCounter, last_ts, clocks, caller,
                       Running, now >>
      BY <1>2, ProgramKeepsTime DEF Displayed, clock
    <2> QED BY <2>1 DEF Ahead, BeamClock
  <1>3. CASE EventHandler
    <2>1. /\ now' = now /\ Running /\ caller = "none"
          /\ now >= Lesser(next_vip_ts, Budget)
          /\ UNCHANGED << Displayed, ColumnCounter >>
      BY <1>3 DEF EventHandler, Executing, Displayed, display
    <2>2. now >= next_vip_ts
      BY <1>t, <2>1 DEF Lesser
    <2>3. caller' = "event" /\ clocks' = now - last_ts
      BY <1>3, <2>2 DEF EventHandler
    <2>4. Running'
      <3>1. Running' = (now < Budget)
        BY <1>3, Zenon DEF EventHandler
      <3> QED BY <3>1, <1>t
    <2>5. now < last_ts + ColumnCounter + MaxUnit
      BY <2>1 DEF IInv, Schedule
    <2>6. Displayed < last_ts + MaxUnit
      BY <2>1 DEF Ahead, BeamClock
    <2> QED BY <1>t, <2>1, <2>3, <2>4, <2>5, <2>6 DEF Ahead, BeamClock
  <1>4. CASE ForceEventUpdates
    <2>1. /\ ~Running /\ ~Running' /\ caller = "none" /\ caller' = "force"
          /\ clocks = 0 /\ clocks' = 0 /\ Displayed' = Displayed
      BY <1>4, <1>t DEF ForceEventUpdates, IInv, Schedule, Displayed, display
    <2> QED BY <2>1 DEF Ahead
  <1>5. CASE Round
    BY <1>5, AheadRound
  <1>6. CASE ReturnToEvent
    <2>1. /\ caller = "event" /\ caller' = "none" /\ clocks = 0 /\ clocks' = 0
          /\ last_ts' = now /\ Displayed' = Displayed
          /\ Running' <=> Running
      BY <1>6 DEF ReturnToEvent, Displayed, display
    <2> QED BY <1>t, <2>1 DEF Ahead, BeamClock
  <1>7. CASE ReturnToForce
    <2>1. /\ caller = "force" /\ caller' = "none" /\ clocks = 0 /\ clocks' = 0
          /\ last_ts' = 0 /\ Displayed' = Displayed /\ Running'
      BY <1>7 DEF ReturnToForce, ResetTS, Displayed, display
    <2>2. ~Running
      BY <2>1 DEF IInv, Schedule
    <2> QED BY <1>t, <2>1, <2>2 DEF Ahead, BeamClock
  <1>8. CASE UNCHANGED vars
    BY <1>8 DEF Ahead, BeamClock, Displayed, vars, display, clock
  <1> QED BY <1>1, <1>2, <1>3, <1>4, <1>5, <1>6, <1>7, <1>8
        DEF Next, Emulator

(* Whatever a program finds in the registers, the display they speak of is *)
(* where the clock of vb_run_frame says, but for a column and a unit of    *)
(* work: what one frame overruns by is all the next begins with.           *)
THEOREM VipInPhase == Spec => []RegistersInPhase
  <1>1. Init => Ahead
    BY Sizes DEF Init, Ahead, BeamClock, Displayed
  <1>2. IInv /\ Ahead => RegistersInPhase
    <2> SUFFICES ASSUME IInv, Ahead, Executing PROVE RegistersInPhase
      BY DEF RegistersInPhase
    <2>1. /\ Displayed \in Nat /\ now \in Nat /\ last_ts \in 0 .. now
          /\ MaxUnit \in Nat /\ ColumnClocks \in Nat
      BY BeamInFrame, Sizes DEF IInv, TypeOK
    <2>2. last_ts <= Displayed /\ Displayed < last_ts + MaxUnit
      BY DEF IInv, Schedule, Ahead, BeamClock, Executing
    <2>3. now < last_ts + ColumnClocks + MaxUnit
      BY DEF IInv, UpdatesPrompt
    <2> QED BY <2>1, <2>2, <2>3 DEF RegistersInPhase
  <1> QED BY <1>1, <1>2, AheadNext, Invariance, PTL DEF Spec

(* The VIP's frame ends before VB_FRAME_BUDGET is spent, and what is said  *)
(* of the end of a block below.                                            *)
THEOREM VipOnTime == Spec => [](BudgetNeverReached /\ SboutSoonOver)
  <1>1. IInv => BudgetNeverReached /\ SboutSoonOver
    BY DEF IInv
  <1> QED BY <1>1, Invariance, PTL

(* Its second part: the end of a block is reported for less than           *)
(* SboutClocks and the column and unit of work by which the update that    *)
(* drew it may have been late (the code counts from the update's end),     *)
(* frame ends in between included.                                         *)
COROLLARY BlockStatusEnds == Spec => []SboutSoonOver
  BY VipOnTime, PTL

(* The frame buffers of the VIP are a double buffer: a frame is swapped    *)
(* onto the display only once it was drawn whole.                          *)
THEOREM VipImplementsDoubleBuffer == Spec => ImplementsDoubleBuffer
  <1>1. Init => Buffers!Init
    BY DEF Init, Buffers!Init
  <1>2. IInv /\ [Next]_vars => [Buffers!Next]_<<DisplayFB, DrawingFB, DrawingActive>>
    <2> SUFFICES ASSUME IInv, [Next]_vars
                 PROVE  \/ Buffers!Next
                        \/ UNCHANGED << DisplayFB, DrawingFB, DrawingActive >>
      OBVIOUS
    <2>1. CASE Round
      <3>1. clocks > 0 /\ Drawing /\ Displaying
        BY <2>1 DEF Round
      <3>2. CASE StartsDrawing
        <4>1. ~DrawingActive
          BY <3>1, <3>2, DrawingInTime DEF StartsDrawing, StartsGameFrame
        <4>2. DrawingActive' = TRUE
          BY <3>1, <3>2 DEF Drawing
        <4>3. DisplayFB' = DrawingFB /\ DrawingFB' = Other(DrawingFB)
          BY <2>1, <3>2 DEF Round, Swapped
        <4> QED BY <4>1, <4>2, <4>3 DEF Buffers!Next, Buffers!Start,
              Buffers!Other, Other
      <3>3. CASE ~StartsDrawing
        <4>1. DisplayFB' = DisplayFB /\ DrawingFB' = DrawingFB
          BY <2>1, <3>3 DEF Round, buffers
        <4>2. DrawingActive' = (DrawingActive /\ ~EndsDrawing)
          BY <3>1, <3>3, Zenon DEF Drawing
        <4>3. DrawingActive \in BOOLEAN
          BY DEF IInv, TypeOK
        <4>4. CASE DrawingActive /\ EndsDrawing
          BY <4>1, <4>2, <4>4 DEF Buffers!Next, Buffers!Finish
        <4>5. CASE ~(DrawingActive /\ EndsDrawing)
          <5>1. DrawingActive' = DrawingActive
            BY <4>2, <4>3, <4>5, Zenon
          <5> QED BY <4>1, <5>1
        <4> QED BY <4>4, <4>5
      <3> QED BY <3>2, <3>3
    <2>2. ASSUME NEW enable \in BOOLEAN, NEW xprst \in BOOLEAN,
                 WriteXPCTRL(enable, xprst)
          PROVE  \/ Buffers!Next
                 \/ UNCHANGED << DisplayFB, DrawingFB, DrawingActive >>
      <3>1. CASE xprst
        BY <2>2, <3>1 DEF WriteXPCTRL, XPRST, Other, Buffers!Next,
          Buffers!Reset, Buffers!Other
      <3>2. CASE ~xprst
        BY <2>2, <3>2 DEF WriteXPCTRL, buffers
      <3> QED BY <3>1, <3>2
    <2>3. CASE Cycle \/ EventHandler \/ ForceEventUpdates \/ ReturnToEvent
               \/ ReturnToForce \/ UNCHANGED vars
      BY <2>3 DEF Cycle, EventHandler, ForceEventUpdates, ReturnToEvent,
        ReturnToForce, vars, buffers, drawing
    <2>4. ASSUME Program, \A enable, xprst \in BOOLEAN :
                            ~WriteXPCTRL(enable, xprst)
          PROVE  UNCHANGED << DisplayFB, DrawingFB, DrawingActive >>
      BY <2>4 DEF Program, WriteInterruptEnable, WriteInterruptClear,
        WriteDPCTRL, WriteFRMCYC, buffers, drawing
    <2> QED BY <2>1, <2>2, <2>3, <2>4 DEF Next, Emulator
  <1> QED BY <1>1, <1>2, Invariance, PTL
        DEF Spec, ImplementsDoubleBuffer, Buffers!Spec, Buffers!buffers
=============================================================================
