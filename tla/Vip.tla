-------------------------------- MODULE Vip --------------------------------
(***************************************************************************)
(* The clockwork of the video processor, mednafen/vb/vip.c: columns and    *)
(* regions of the display, the drawing of a frame buffer block by block,   *)
(* the swap of the buffers, interrupts and the status register, with the   *)
(* part of vb_run_frame and EventHandler (src/vb_core.cpp) that drives it. *)
(*                                                                         *)
(* VIP_Update goes forward in rounds, each up to the next end of a block   *)
(* or column; a round is a step here, and nothing else steps until the     *)
(* update has returned.  Register accesses do not update the VIP: they     *)
(* meet it as it was at last_ts.  Pixels, palettes, brightness and the     *)
(* block number of the status register are left out.                       *)
(*                                                                         *)
(* CheckIRQNever, XPRSTLeavingDisplay, NextBlockNever, RewoundNever,       *)
(* ExitLoopNever, NextUpdateLate and ResetTSForgotten are seeded faults:   *)
(* each stands for the definition after it in a run that must then fail.   *)
(***************************************************************************)
EXTENDS Integers

CONSTANTS
  Columns,      \* 384
  ColumnClocks, \* 259
  Blocks,       \* 28
  BlockClocks,  \* 1120 * 4
  SboutClocks,  \* 1120: how long the end of a block is reported
  MaxFRMCYC,    \* 15
  MaxUnit,      \* bound on the cycles of one unit of CPU work
  Budget,       \* VB_FRAME_BUDGET
  Ints,         \* bound: the interrupts followed, of INT_LFB_END and the rest
  EnableValues, \* the values programs write to InterruptEnable
  ClearValues   \* and to the interrupt clear register

(* The VIP keeps a bit for each and lets none act on another, so that some *)
(* of them can be followed without the rest.                               *)
Sources == {"LFB_END", "RFB_END", "GAME_START", "FRAME_START", "XP_END"}

FrameClocks == 4 * (Columns * ColumnClocks)

(* 28 * 4480 = 125440 < 4 * 384 * 259 = 397824 < 400000.                   *)
ASSUME VipAssumption ==
  /\ {Columns, ColumnClocks, Blocks, BlockClocks, MaxUnit} \subseteq Nat \ {0}
  /\ MaxFRMCYC \in Nat /\ SboutClocks \in Nat /\ Budget \in Nat
  /\ Blocks * BlockClocks < FrameClocks
  /\ FrameClocks + MaxUnit <= Budget
  /\ Ints \subseteq Sources
  /\ EnableValues \subseteq SUBSET Ints /\ ClearValues \subseteq SUBSET Ints

VARIABLES
  Column, ColumnCounter, DisplayRegion, DisplayActive, DisplayFB,
  GameFrameCounter,
  DrawingCounter, DrawingActive, DrawingFB, DrawingBlock,
  SBOUT_InactiveTime,
  DISP, XP_EN, FRMCYC,     \* the bits of DPCTRL and XPCTRL that act; FRMCYC
  InterruptPending, InterruptEnable,
  irq,                     \* the VIP's bit of IRQ_Asserted
  last_ts,
  clocks,                  \* what is left for VIP_Update's loop
  caller,                  \* of VIP_Update: EventHandler, ForceEventUpdates
  Running, next_vip_ts, now

display   == << Column, ColumnCounter, DisplayRegion, DisplayActive,
                GameFrameCounter >>
drawing   == << DrawingCounter, DrawingActive, DrawingBlock >>
buffers   == << DisplayFB, DrawingFB >>
controls  == << DISP, XP_EN, FRMCYC >>
interrupt == << InterruptPending, InterruptEnable, irq >>
clock     == << last_ts, clocks, caller, Running, next_vip_ts, now >>
vars      == << display, drawing, buffers, SBOUT_InactiveTime, controls,
                interrupt, clock >>

Lesser(a, b) == IF a < b THEN a ELSE b

Other(b) == IF b = 0 THEN 1 ELSE 0

-----------------------------------------------------------------------------
(* VIP_Power, and VB_Power's ForceEventUpdates(0). *)
Init ==
  /\ Column = 0 /\ ColumnCounter = ColumnClocks
  /\ DisplayRegion = 0 /\ DisplayActive = FALSE /\ DisplayFB = 0
  /\ GameFrameCounter = 0
  /\ DrawingCounter = 0 /\ DrawingActive = FALSE
  /\ DrawingFB = 0 /\ DrawingBlock = 0
  /\ SBOUT_InactiveTime = -1
  /\ DISP = TRUE /\ XP_EN = FALSE /\ FRMCYC = 0
  /\ InterruptPending = {} /\ InterruptEnable = {} /\ irq = FALSE
  /\ last_ts = 0 /\ clocks = 0 /\ caller = "none"
  /\ Running = TRUE
  /\ next_vip_ts = ColumnClocks
  /\ now = 0

CheckIRQNever(enable, pending) == irq

CheckIRQ(enable, pending) == enable \intersect pending # {}

-----------------------------------------------------------------------------
(* The program runs; a unit begins before the next event. *)
Executing == caller = "none" /\ Running

Cycle ==
  /\ Executing
  /\ now + 1 < Lesser(next_vip_ts, Budget) + MaxUnit
  /\ now' = now + 1
  /\ UNCHANGED << display, drawing, buffers, SBOUT_InactiveTime, controls,
                  interrupt, last_ts, clocks, caller, Running, next_vip_ts >>

WriteInterruptEnable(enable) ==
  /\ Executing
  /\ InterruptEnable' = enable
  /\ irq' = CheckIRQ(enable, InterruptPending)
  /\ UNCHANGED << display, drawing, buffers, SBOUT_InactiveTime, controls,
                  InterruptPending, clock >>

WriteInterruptClear(clear) ==
  /\ Executing
  /\ InterruptPending' = InterruptPending \ clear
  /\ irq' = CheckIRQ(InterruptEnable, InterruptPending')
  /\ UNCHANGED << display, drawing, buffers, SBOUT_InactiveTime, controls,
                  InterruptEnable, clock >>

(* DPCTRL with DPRST, and without. *)
WriteDPCTRL(disp, dprst) ==
  /\ Executing
  /\ DISP' = disp
  /\ IF dprst
     THEN /\ DisplayActive' = FALSE
          /\ InterruptPending' = InterruptPending \
               {"FRAME_START", "GAME_START", "RFB_END", "LFB_END"}
          /\ irq' = CheckIRQ(InterruptEnable, InterruptPending')
     ELSE UNCHANGED << DisplayActive, InterruptPending, irq >>
  /\ UNCHANGED << Column, ColumnCounter, DisplayRegion, GameFrameCounter,
                  drawing, buffers, SBOUT_InactiveTime, XP_EN, FRMCYC,
                  InterruptEnable, clock >>

WriteFRMCYC(cycles) ==
  /\ Executing
  /\ FRMCYC' = cycles
  /\ UNCHANGED << display, drawing, buffers, SBOUT_InactiveTime, DISP, XP_EN,
                  interrupt, clock >>

XPRSTLeavingDisplay == DrawingFB' = DisplayFB /\ UNCHANGED DisplayFB

XPRST == DrawingFB' = DisplayFB /\ DisplayFB' = Other(DisplayFB)

(* XPCTRL, that starts and resets the drawing. *)
WriteXPCTRL(enable, xprst) ==
  /\ Executing
  /\ XP_EN' = enable
  /\ IF xprst
     THEN /\ XPRST
          /\ DrawingActive' = FALSE /\ DrawingCounter' = 0
          /\ InterruptPending' = InterruptPending \ {"XP_END"}
          /\ irq' = CheckIRQ(InterruptEnable, InterruptPending')
     ELSE UNCHANGED << buffers, DrawingActive, DrawingCounter,
                       InterruptPending, irq >>
  /\ UNCHANGED << display, DrawingBlock, SBOUT_InactiveTime, DISP, FRMCYC,
                  InterruptEnable, clock >>

-----------------------------------------------------------------------------
(* EventHandler: the budget is looked at after VIP_Update, and like it can *)
(* only stop the loop.                                                     *)
EventHandler ==
  /\ Executing
  /\ now >= Lesser(next_vip_ts, Budget)
  /\ Running' = (now < Budget)
  /\ IF now >= next_vip_ts
     THEN caller' = "event" /\ clocks' = now - last_ts
     ELSE UNCHANGED << caller, clocks >>
  /\ UNCHANGED << display, drawing, buffers, SBOUT_InactiveTime, controls,
                  interrupt, last_ts, next_vip_ts, now >>

(* Run has returned to vb_run_frame. *)
ForceEventUpdates ==
  /\ caller = "none" /\ ~Running
  /\ caller' = "force"
  /\ clocks' = now - last_ts
  /\ UNCHANGED << display, drawing, buffers, SBOUT_InactiveTime, controls,
                  interrupt, last_ts, Running, next_vip_ts, now >>

-----------------------------------------------------------------------------
(* A round of VIP_Update's loop: how far it goes and what it meets there.  *)
RoundClocks ==
  LET c == Lesser(clocks, ColumnCounter)
  IN  IF DrawingCounter > 0 THEN Lesser(c, DrawingCounter) ELSE c

EndsBlock   == DrawingCounter > 0 /\ DrawingCounter <= RoundClocks
EndsDrawing == EndsBlock /\ DrawingBlock + 1 = Blocks
EndsColumn  == ColumnCounter = RoundClocks
EndsRegion  == EndsColumn /\ Column + 1 = Columns
StartsFrame == EndsRegion /\ DisplayRegion = 3
StartsGameFrame == StartsFrame /\ GameFrameCounter + 1 > FRMCYC
StartsDrawing   == StartsGameFrame /\ XP_EN

(* Regions 1 and 3 show the left and the right eye. *)
Raised ==
  {i \in Ints :
     \/ i = "XP_END"      /\ EndsDrawing
     \/ i = "LFB_END"     /\ EndsRegion /\ DisplayActive /\ DisplayRegion = 1
     \/ i = "RFB_END"     /\ EndsRegion /\ DisplayActive /\ DisplayRegion = 3
     \/ i = "FRAME_START" /\ StartsFrame /\ DISP
     \/ i = "GAME_START"  /\ StartsGameFrame}

NextBlockNever == DrawingCounter - RoundClocks

NextBlock == DrawingCounter - RoundClocks + BlockClocks

RewoundNever == DrawingBlock

Rewound == 0

Drawing ==
  /\ DrawingCounter' =
       IF StartsDrawing THEN BlockClocks
       ELSE IF EndsDrawing THEN 0
       ELSE IF EndsBlock THEN NextBlock
       ELSE IF DrawingCounter > 0 THEN DrawingCounter - RoundClocks
       ELSE DrawingCounter
  /\ DrawingActive' = (StartsDrawing \/ (DrawingActive /\ ~EndsDrawing))
  /\ DrawingBlock' = IF StartsDrawing THEN Rewound
                     ELSE IF EndsBlock THEN DrawingBlock + 1
                     ELSE DrawingBlock

Swapped == DisplayFB' = DrawingFB /\ DrawingFB' = Other(DrawingFB)

Displaying ==
  /\ ColumnCounter' = IF EndsColumn THEN ColumnClocks
                                    ELSE ColumnCounter - RoundClocks
  /\ Column' = IF EndsRegion THEN 0
               ELSE IF EndsColumn THEN Column + 1 ELSE Column
  /\ DisplayRegion' = IF StartsFrame THEN 0
                      ELSE IF EndsRegion THEN DisplayRegion + 1
                      ELSE DisplayRegion
  /\ DisplayActive' = IF StartsFrame THEN DISP ELSE DisplayActive
  /\ GameFrameCounter' = IF StartsGameFrame THEN 0
                         ELSE IF StartsFrame THEN GameFrameCounter + 1
                         ELSE GameFrameCounter

ExitLoopNever == Running

ExitLoop == Running /\ ~StartsFrame

(* running_timestamp starts from the end of the update, not from its       *)
(* beginning, as in the code.                                              *)
Round ==
  /\ clocks > 0
  /\ clocks' = clocks - RoundClocks
  /\ Drawing
  /\ Displaying
  /\ IF StartsDrawing THEN Swapped ELSE UNCHANGED buffers
  /\ SBOUT_InactiveTime' =
       IF EndsBlock
       THEN now + (now - last_ts - clocks) + RoundClocks + SboutClocks
       ELSE SBOUT_InactiveTime
  /\ InterruptPending' = InterruptPending \union Raised
  /\ irq' = IF Raised = {} THEN irq
            ELSE CheckIRQ(InterruptEnable, InterruptPending')
  /\ Running' = ExitLoop
  /\ UNCHANGED << controls, InterruptEnable, last_ts, caller, next_vip_ts,
                  now >>

NextUpdateLate(ts) == ts + ColumnCounter + 1

NextUpdate(ts) == ts + ColumnCounter

(* VIP_Update returns to EventHandler. *)
ReturnToEvent ==
  /\ caller = "event" /\ clocks = 0
  /\ caller' = "none"
  /\ last_ts' = now
  /\ next_vip_ts' = NextUpdate(now)
  /\ UNCHANGED << display, drawing, buffers, SBOUT_InactiveTime, controls,
                  interrupt, clocks, Running, now >>

ResetTSForgotten == UNCHANGED SBOUT_InactiveTime /\ last_ts' = 0

(* VIP_ResetTS, with last_ts the end of the frame.  A time gone by becomes *)
(* negative, where its value no longer matters: it is kept as -1.          *)
ResetTS ==
  /\ SBOUT_InactiveTime' = IF SBOUT_InactiveTime >= now
                           THEN SBOUT_InactiveTime - now
                           ELSE -1
  /\ last_ts' = 0

(* VIP_Update returns to ForceEventUpdates; ResetTS and RebaseTS follow,   *)
(* and the next vb_run_frame.                                              *)
ReturnToForce ==
  /\ caller = "force" /\ clocks = 0
  /\ caller' = "none"
  /\ ResetTS
  /\ next_vip_ts' = NextUpdate(now) - now
  /\ now' = 0
  /\ Running' = TRUE
  /\ UNCHANGED << display, drawing, buffers, controls, interrupt, clocks >>

-----------------------------------------------------------------------------
Program ==
  \/ \E enable \in EnableValues : WriteInterruptEnable(enable)
  \/ \E clear \in ClearValues : WriteInterruptClear(clear)
  \/ \E disp, dprst \in BOOLEAN : WriteDPCTRL(disp, dprst)
  \/ \E cycles \in 0 .. MaxFRMCYC : WriteFRMCYC(cycles)
  \/ \E enable, xprst \in BOOLEAN : WriteXPCTRL(enable, xprst)

Emulator == EventHandler \/ ForceEventUpdates \/ Round
            \/ ReturnToEvent \/ ReturnToForce

Next == Cycle \/ Program \/ Emulator

(* The CPU spends cycles, and the emulator's one thread does not stop. *)
Spec == Init /\ [][Next]_vars /\ WF_vars(Cycle) /\ WF_vars(Emulator)

-----------------------------------------------------------------------------
(* Types; a frame counter, a column or a block never runs past its end.    *)
TypeOK ==
  /\ Column \in 0 .. Columns - 1 /\ ColumnCounter \in 1 .. ColumnClocks
  /\ DisplayRegion \in 0 .. 3 /\ DisplayActive \in BOOLEAN
  /\ DisplayFB \in {0, 1} /\ DrawingFB \in {0, 1}
  /\ GameFrameCounter \in 0 .. MaxFRMCYC
  /\ DrawingCounter \in 0 .. BlockClocks /\ DrawingActive \in BOOLEAN
  /\ DrawingBlock \in 0 .. Blocks
  /\ SBOUT_InactiveTime \in Int
  /\ DISP \in BOOLEAN /\ XP_EN \in BOOLEAN /\ FRMCYC \in 0 .. MaxFRMCYC
  /\ InterruptPending \subseteq Ints /\ InterruptEnable \subseteq Ints
  /\ irq \in BOOLEAN
  /\ last_ts \in 0 .. now /\ clocks \in 0 .. now - last_ts
  /\ caller \in {"none", "event", "force"} /\ Running \in BOOLEAN
  /\ next_vip_ts \in Nat /\ now \in Nat

(* The interrupt line is the registers': no round of an update, and no     *)
(* write, changes one without the other.                                   *)
LineTracksPending == irq = (InterruptEnable \intersect InterruptPending # {})

(* Drawing keeps in step with the display, cycle by cycle, from the frame  *)
(* start that began it: late updates, resets, register writes and the ends *)
(* of vb_run_frame lose no clocks and count none twice.                    *)
Displayed == DisplayRegion * (Columns * ColumnClocks)
             + Column * ColumnClocks + (ColumnClocks - ColumnCounter)

Drawn == DrawingBlock * BlockClocks + (BlockClocks - DrawingCounter)

DrawingInStep ==
  /\ DrawingActive <=> DrawingCounter > 0
  /\ DrawingActive => Drawn = Displayed

(* Every vb_run_frame is ended by the VIP's frame start: the budget, a     *)
(* little more than a frame of the VIP, is never what ends it.             *)
BudgetNeverReached == now < Budget

(* Register accesses do not update the VIP.  The display that a program    *)
(* meets in the registers is still where the clock of its vb_run_frame     *)
(* says: less than a column and a unit of work behind, less than a unit    *)
(* ahead.  What one frame overruns is carried into the next and no more,   *)
(* however late the updates, over any number of frames.                    *)
RegistersInPhase ==
  Executing => /\ Displayed - last_ts \in 0 .. MaxUnit - 1
               /\ now - Displayed < ColumnClocks + MaxUnit

(* The status register stops reporting the end of a block in time, though  *)
(* frames begin in between: at most an update later than SboutClocks.      *)
SboutSoonOver ==
  now < SBOUT_InactiveTime =>
    SBOUT_InactiveTime - now < SboutClocks + ColumnClocks + MaxUnit

(* No frame is shown half drawn but by the program's reset, and none is    *)
(* drawn into while it is shown.                                           *)
Buffers == INSTANCE DoubleBuffer WITH
  front <- DisplayFB, back <- DrawingFB, drawing <- DrawingActive

ImplementsDoubleBuffer == Buffers!Spec

(* A drawing that has begun ends (or is given up), whatever the program    *)
(* writes: programs wait for it.                                           *)
DrawingEnds == DrawingActive ~> ~DrawingActive
=============================================================================
