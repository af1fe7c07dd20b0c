----------------------------- MODULE Interrupts -----------------------------
(***************************************************************************)
(* How an interrupt line reaches the V810: VBIRQ_Assert (src/vb_core.cpp), *)
(* SetInt and the cached decision IPendingCache, the processor status word,*)
(* the opcodes that change it, HALT and the injected idle halt, exceptions *)
(* and bit strings suspended by an event (hw_cpu/v810/).                   *)
(*                                                                         *)
(* The clock is reduced to slack, the cycles (scaled) left before          *)
(* next_event_ts.  An instruction is one step, the device accesses it      *)
(* makes included; so is a translated block.  Devices raise and drop their *)
(* lines at will.                                                          *)
(*                                                                         *)
(* SetIntLazily, AcceptedKeepingBstr and AcceptableIgnoringLevel are       *)
(* seeded faults: each stands for the definition after it in a run that    *)
(* must then fail.                                                         *)
(***************************************************************************)
EXTENDS Integers

CONSTANTS
  Levels,     \* the interrupt sources in use, among 0 .. 4
  PswValues,  \* status words the program loads with LDSR or finds at RETI
  MaxSlack    \* bound: instructions between two events

(* The bits of the status word that matter here: NMI and exception         *)
(* pending, interrupts disabled, interrupt enable level.                   *)
PSW == [NP : BOOLEAN, EP : BOOLEAN, ID : BOOLEAN, IA : 0 .. 15]

ASSUME InterruptsAssumption ==
  /\ Levels \subseteq 0 .. 4
  /\ PswValues \subseteq PSW
  /\ MaxSlack \in Nat \ {0}

VARIABLES
  phase,         \* "idle" (no frame), "outer" or "inner" loop of Run
  slack,         \* cycles before next_event_ts
  IRQ_Asserted,  \* the lines up
  ilevel,        \* the level SetInt was last given; -1: none
  psw, eipsw, fepsw,
  Halted,        \* "none", "halt" or "fatal"
  IPendingCache,
  in_bstr,       \* a bit-string instruction is suspended
  pc,            \* "code", "bstr" (the suspended one), "bad_bstr"
  vb_idle_mode

irqs == << IRQ_Asserted, ilevel >>
sys  == << psw, eipsw, fepsw >>
vars == << phase, slack, irqs, sys, Halted, IPendingCache, in_bstr, pc,
           vb_idle_mode >>

-----------------------------------------------------------------------------
(* RecalcIntLevel: the highest line up. *)
Highest(lines) == IF 4 \in lines THEN 4 ELSE IF 3 \in lines THEN 3
                  ELSE IF 2 \in lines THEN 2 ELSE IF 1 \in lines THEN 1
                  ELSE IF 0 \in lines THEN 0 ELSE -1

(* When an interrupt is to be taken. *)
AcceptableIgnoringLevel(level, w, h) ==
  level >= 0 /\ h # "fatal" /\ ~w.NP /\ ~w.EP /\ ~w.ID

Acceptable(level, w, h) ==
  /\ level >= 0
  /\ h # "fatal"
  /\ ~w.NP /\ ~w.EP /\ ~w.ID
  /\ level >= w.IA

(* RecalcIPendingCache: a value to be or-ed to the decoded opcode. *)
Pending(level, w, h) == IF Acceptable(level, w, h) THEN 255 ELSE 0

(* VBIRQ_Assert by any device, any number of times: SetInt. *)
SetIntLazily(lines) ==
  /\ IRQ_Asserted' = lines
  /\ ilevel' = Highest(lines)
  /\ IPendingCache' = IPendingCache

SetInt(lines) ==
  /\ IRQ_Asserted' = lines
  /\ ilevel' = Highest(lines)
  /\ IPendingCache' = Pending(ilevel', psw, Halted)

(* What an instruction leaves of the cycles up to the event.               *)
Spent == 0 .. slack - 1

(* SetIdleHalt: Halted is overwritten, whatever it was. *)
SetIdleHalt(idle) == Halted' = IF idle THEN "halt" ELSE "none"

(* Reset: NP is set until the program's start-up code clears it. *)
Init ==
  /\ phase = "idle" /\ slack = MaxSlack
  /\ IRQ_Asserted = {} /\ ilevel = -1
  /\ psw = [NP |-> TRUE, EP |-> FALSE, ID |-> FALSE, IA |-> 0]
  /\ eipsw = [NP |-> FALSE, EP |-> FALSE, ID |-> FALSE, IA |-> 0]
  /\ fepsw = eipsw
  /\ Halted = "none"
  /\ IPendingCache = 0
  /\ in_bstr = FALSE /\ pc = "code"
  /\ vb_idle_mode = FALSE

(* vb_run_frame *)
StartFrame ==
  /\ phase = "idle"
  /\ phase' = "outer"
  /\ vb_idle_mode' = FALSE
  /\ SetIdleHalt(FALSE)
  /\ UNCHANGED << slack, irqs, sys, IPendingCache, in_bstr, pc >>

-----------------------------------------------------------------------------
(* The head of Run's outer loop. *)
SkipWhileHalted ==
  /\ phase = "outer"
  /\ IPendingCache = 0 /\ Halted # "none"
  /\ phase' = "inner"
  /\ slack' = 0
  /\ UNCHANGED << irqs, sys, Halted, IPendingCache, in_bstr, pc, vb_idle_mode >>

EnterInner ==
  /\ phase = "outer"
  /\ IPendingCache # 0 \/ (Halted = "none" /\ ~in_bstr)
  /\ phase' = "inner"
  /\ UNCHANGED << slack, irqs, sys, Halted, IPendingCache, in_bstr, pc,
                  vb_idle_mode >>

(* A bit string: memory (and so device) accesses, and either its end or    *)
(* its suspension once the event is due.  Resumed, it is entered from the  *)
(* outer loop without being fetched again.                                 *)
BitString ==
  /\ \E lines \in SUBSET Levels : SetInt(lines)
  /\ \/ in_bstr' = FALSE /\ pc' = "code" /\ slack' \in Spent
     \/ in_bstr' = TRUE /\ pc' = "bstr" /\ slack' = 0
  /\ UNCHANGED << sys, Halted, vb_idle_mode >>

ResumeBitString ==
  /\ phase = "outer"
  /\ IPendingCache = 0 /\ Halted = "none" /\ in_bstr
  /\ phase' = "inner"
  /\ BitString

-----------------------------------------------------------------------------
(* One turn of the inner loop.  With IPendingCache set the decoded opcode  *)
(* is the interrupt handler's; else an instruction, or a translated block. *)
AcceptedKeepingBstr == UNCHANGED in_bstr

Accepted == in_bstr' = FALSE

AcceptInterrupt ==
  /\ phase = "inner" /\ slack > 0
  /\ IPendingCache # 0
  /\ eipsw' = psw
  /\ psw' = [psw EXCEPT !.EP = TRUE, !.ID = TRUE,
                        !.IA = IF ilevel + 1 > 15 THEN 15 ELSE ilevel + 1]
  /\ Halted' = "none"
  /\ Accepted
  /\ pc' = "code"
  /\ IPendingCache' = 0
  /\ slack' \in 0 .. slack
  /\ UNCHANGED << phase, irqs, fepsw, vb_idle_mode >>

Fetches ==
  /\ phase = "inner" /\ slack > 0
  /\ IPendingCache = 0
  /\ pc # "bad_bstr"
  /\ UNCHANGED << phase, vb_idle_mode >>

(* Loads, stores, arithmetic, blocks: any device may be accessed. *)
Compute ==
  /\ Fetches
  /\ \E lines \in SUBSET Levels : SetInt(lines)
  /\ slack' \in Spent
  /\ pc' = "code"
  /\ UNCHANGED << sys, Halted, in_bstr >>

StartBitString == Fetches /\ BitString

(* An instruction that replaces the status word and decides anew. *)
LoadPsw(w) ==
  /\ psw' = w
  /\ IPendingCache' = Pending(ilevel, w, Halted)
  /\ slack' \in Spent
  /\ pc' = "code"
  /\ UNCHANGED << irqs, eipsw, fepsw, Halted, in_bstr >>

EI == Fetches /\ LoadPsw([psw EXCEPT !.ID = FALSE])

LDSR == Fetches /\ \E w \in PswValues : LoadPsw(w)

RETI == Fetches /\ LoadPsw(IF psw.NP THEN fepsw ELSE eipsw)

(* LDSR to EIPSW or FEPSW: an interrupt handler that nests saves them. *)
LoadSavedPsw ==
  /\ Fetches
  /\ \E w \in PswValues : \/ eipsw' = w /\ fepsw' = fepsw
                          \/ fepsw' = w /\ eipsw' = eipsw
  /\ slack' \in Spent
  /\ pc' = "code"
  /\ UNCHANGED << irqs, psw, Halted, IPendingCache, in_bstr >>

DI ==
  /\ Fetches
  /\ psw' = [psw EXCEPT !.ID = TRUE]
  /\ IPendingCache' = 0
  /\ slack' \in Spent
  /\ pc' = "code"
  /\ UNCHANGED << irqs, eipsw, fepsw, Halted, in_bstr >>

HALT ==
  /\ Fetches
  /\ Halted' = "halt"
  /\ slack' \in Spent
  /\ pc' = "code"
  /\ UNCHANGED << irqs, sys, IPendingCache, in_bstr >>

(* Exception: fatal with NP, double with EP, regular otherwise. *)
Exception ==
  /\ in_bstr' = FALSE
  /\ IPendingCache' = 0
  /\ IF psw.NP
     THEN Halted' = "fatal" /\ UNCHANGED sys
     ELSE /\ IF psw.EP
             THEN /\ fepsw' = psw
                  /\ psw' = [psw EXCEPT !.NP = TRUE, !.ID = TRUE]
                  /\ UNCHANGED eipsw
             ELSE /\ eipsw' = psw
                  /\ psw' = [psw EXCEPT !.EP = TRUE, !.ID = TRUE]
                  /\ UNCHANGED fepsw
          /\ UNCHANGED Halted
  /\ UNCHANGED irqs

(* TRAP, DIV by zero, floating point, an invalid opcode: CHECK_HALTED      *)
(* spends a halted CPU's cycles up to the event.                           *)
Trap ==
  /\ Fetches
  /\ Exception
  /\ slack' \in IF Halted' = "none" THEN Spent ELSE {0}
  /\ pc' = "code"

(* BSTR with an invalid sub-opcode: no CHECK_HALTED, and the PC goes back  *)
(* to it; a fatal exception leaves it there.                               *)
BadBitString ==
  /\ phase = "inner" /\ slack > 0
  /\ IPendingCache = 0
  /\ Exception
  /\ pc' = IF psw.NP THEN "bad_bstr" ELSE "code"
  /\ slack' \in Spent
  /\ UNCHANGED << phase, vb_idle_mode >>

-----------------------------------------------------------------------------
(* EventHandler: the devices due are updated, then the idle halt is        *)
(* decided: with reads, the program polled the VIP ten times since the     *)
(* last event.                                                             *)
IdleMode(lines, reads) == lines = {} /\ (reads \/ vb_idle_mode)

EventHandler ==
  /\ phase = "inner" /\ slack = 0
  /\ \E lines \in SUBSET Levels, reads \in BOOLEAN :
       /\ SetInt(lines)
       /\ vb_idle_mode' = IdleMode(lines, reads)
       /\ SetIdleHalt(IdleMode(lines, reads))
  /\ slack' \in 1 .. MaxSlack
  /\ phase' \in {"outer", "idle"}
  /\ UNCHANGED << sys, in_bstr, pc >>

Instruction == \/ Compute \/ StartBitString \/ EI \/ DI \/ LDSR \/ RETI
               \/ LoadSavedPsw \/ HALT \/ Trap \/ BadBitString

Next == \/ StartFrame \/ SkipWhileHalted \/ EnterInner \/ ResumeBitString
        \/ AcceptInterrupt \/ Instruction \/ EventHandler

(* One thread runs all of it, and Playdate goes on calling for frames. *)
Spec == Init /\ [][Next]_vars /\ WF_vars(Next)

-----------------------------------------------------------------------------
TypeOK ==
  /\ phase \in {"idle", "outer", "inner"}
  /\ slack \in 0 .. MaxSlack
  /\ IRQ_Asserted \subseteq Levels
  /\ ilevel \in -1 .. 4
  /\ psw \in PSW /\ eipsw \in PSW /\ fepsw \in PSW
  /\ Halted \in {"none", "halt", "fatal"}
  /\ IPendingCache \in {0, 255} /\ in_bstr \in BOOLEAN
  /\ pc \in {"code", "bstr", "bad_bstr"}
  /\ vb_idle_mode \in BOOLEAN

(* The cached decision is never stale, although lines, status word and     *)
(* halt state change in many places and SetIdleHalt and the exceptions do  *)
(* not recompute it.                                                       *)
CacheFresh ==
  /\ ilevel = Highest(IRQ_Asserted)
  /\ IPendingCache = Pending(ilevel, psw, Halted)

(* A suspended bit string is resumed where it was left, or dropped by the  *)
(* interrupt or exception that comes first: nothing else is fetched in     *)
(* between.                                                                *)
BitStringNotMixedUp ==
  in_bstr => /\ pc = "bstr"
             /\ phase = "inner" /\ slack > 0 => IPendingCache # 0

(* Only the highest line up interrupts, only at or above the enable level, *)
(* and never a program that disabled interrupts or handles an exception.   *)
InterruptsAreLegal ==
  [][AcceptInterrupt =>
       /\ \E l \in IRQ_Asserted : /\ \A k \in IRQ_Asserted : k <= l
                                  /\ psw.IA <= l /\ psw'.IA = l + 1
       /\ ~psw.NP /\ ~psw.EP /\ ~psw.ID]_vars

(* No acceptable interrupt waits for ever, not even for a halted CPU.      *)
InterruptsAreTaken == ~ <>[] Acceptable(Highest(IRQ_Asserted), psw, Halted)

(* What the comments say, and SetIdleHalt undoes at every event: accepting *)
(* an interrupt is what takes the CPU out of HALT.                         *)
HaltEndsWithInterrupt ==
  [][Halted = "halt" /\ ~vb_idle_mode /\ Halted' = "none" =>
       AcceptInterrupt]_vars
=============================================================================
