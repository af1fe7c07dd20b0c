-------------------------- MODULE InterruptsProofs --------------------------
(***************************************************************************)
(* Proofs about Interrupts for every set of lines, status words and event  *)
(* spacing.                                                                *)
(*                                                                         *)
(* CacheFresh is not inductive alone: SetIdleHalt overwrites a fatal halt  *)
(* without recomputing IPendingCache.  FatalInv says why that is harmless: *)
(* a fatal halt implies NP, which masks every interrupt by itself.         *)
(***************************************************************************)
EXTENDS Interrupts, TLAPS

FatalInv ==
  /\ Halted = "fatal" => /\ psw.NP
                         /\ phase = "inner"
                         /\ slack = 0 \/ pc = "bad_bstr"
  /\ pc = "bad_bstr" => psw.NP

IInv == TypeOK /\ CacheFresh /\ BitStringNotMixedUp /\ FatalInv

-----------------------------------------------------------------------------
(* The highest of no line is none, of some lines one of them and no less   *)
(* than any.                                                               *)
LEMMA HighestFacts ==
  ASSUME NEW lines, lines \subseteq 0 .. 4
  PROVE  /\ Highest(lines) \in -1 .. 4
         /\ lines = {} => Highest(lines) = -1
         /\ lines # {} => Highest(lines) \in lines
         /\ \A k \in lines : k <= Highest(lines)
<1>1. \A k \in lines : k = 0 \/ k = 1 \/ k = 2 \/ k = 3 \/ k = 4
  BY 0 .. 4 = {0, 1, 2, 3, 4}
<1>2. CASE 4 \in lines
  BY <1>1, <1>2 DEF Highest
<1>3. CASE 4 \notin lines /\ 3 \in lines
  BY <1>1, <1>3 DEF Highest
<1>4. CASE 4 \notin lines /\ 3 \notin lines /\ 2 \in lines
  BY <1>1, <1>4 DEF Highest
<1>5. CASE 4 \notin lines /\ 3 \notin lines /\ 2 \notin lines /\ 1 \in lines
  BY <1>1, <1>5 DEF Highest
<1>6. CASE /\ 4 \notin lines /\ 3 \notin lines /\ 2 \notin lines
           /\ 1 \notin lines
  <2>1. CASE 0 \in lines
    BY <1>1, <1>6, <2>1 DEF Highest
  <2>2. CASE 0 \notin lines
    <3>1. lines = {}
      BY <1>1, <1>6, <2>2
    <3>2. Highest(lines) = -1
      BY <1>6, <2>2 DEF Highest
    <3> QED BY <3>1, <3>2
  <2> QED BY <2>1, <2>2
<1> QED BY <1>2, <1>3, <1>4, <1>5, <1>6

LEMMA PendingType ==
  ASSUME NEW level, NEW w \in PSW, NEW h
  PROVE  Pending(level, w, h) \in {0, 255}
  BY DEF Pending

(* A status word that masks every interrupt. *)
LEMMA MaskedNotPending ==
  ASSUME NEW level, NEW w, NEW h, w.NP \/ w.EP \/ w.ID
  PROVE  Pending(level, w, h) = 0
  BY DEF Pending, Acceptable

(* Only a fatal halt matters, and only to an unmasked status word. *)
LEMMA HaltIrrelevant ==
  ASSUME NEW level, NEW w, NEW h, NEW g,
         w.NP \/ (h # "fatal" /\ g # "fatal")
  PROVE  Pending(level, w, h) = Pending(level, w, g)
  BY DEF Pending, Acceptable

LEMMA InitHolds == Init => IInv
<1> SUFFICES ASSUME Init PROVE IInv
  OBVIOUS
<1>1. TypeOK
  <2>1. slack \in 0 .. MaxSlack
    BY InterruptsAssumption DEF Init
  <2>2. psw \in PSW /\ eipsw \in PSW /\ fepsw \in PSW
    <3>1. 0 \in 0 .. 15
      OBVIOUS
    <3> QED BY <3>1 DEF Init, PSW
  <2>3. ilevel \in -1 .. 4 /\ IRQ_Asserted \subseteq Levels
    BY DEF Init
  <2> QED BY <2>1, <2>2, <2>3 DEF Init, TypeOK
<1>2. CacheFresh
  <2>1. psw.NP
    BY DEF Init
  <2>2. Pending(ilevel, psw, Halted) = 0
    BY <2>1, MaskedNotPending
  <2> QED BY <2>2 DEF Init, CacheFresh, Highest
<1>3. BitStringNotMixedUp /\ FatalInv
  BY DEF Init, BitStringNotMixedUp, FatalInv
<1> QED BY <1>1, <1>2, <1>3 DEF IInv

(* What SetInt leaves behind, if the status word stays and the halt state  *)
(* ends up equivalent.                                                     *)
LEMMA SetIntFacts ==
  ASSUME NEW lines \in SUBSET Levels, SetInt(lines), psw \in PSW, psw' = psw,
         psw.NP \/ (Halted # "fatal" /\ Halted' # "fatal") \/ Halted' = Halted
  PROVE  /\ IRQ_Asserted' \subseteq Levels
         /\ ilevel' \in -1 .. 4
         /\ IPendingCache' \in {0, 255}
         /\ CacheFresh'
<1>1. IRQ_Asserted' = lines /\ ilevel' = Highest(lines)
      /\ IPendingCache' = Pending(ilevel', psw, Halted)
  BY DEF SetInt
<1>2. ilevel' \in -1 .. 4
  BY <1>1, HighestFacts, InterruptsAssumption
<1>3. Pending(ilevel', psw, Halted) = Pending(ilevel', psw', Halted')
  BY HaltIrrelevant
<1> QED BY <1>1, <1>2, <1>3, PendingType DEF CacheFresh

(* Between frames and at the head of the outer loop. *)
LEMMA OuterPreserves ==
  ASSUME IInv, StartFrame \/ SkipWhileHalted \/ EnterInner
  PROVE  IInv'
<1>i. TypeOK /\ CacheFresh /\ BitStringNotMixedUp /\ FatalInv
  BY DEF IInv
<1>0. UNCHANGED << irqs, sys, IPendingCache, in_bstr, pc >>
  BY DEF StartFrame, SkipWhileHalted, EnterInner
<1>1. Halted' = Halted \/ (Halted # "fatal" /\ Halted' = "none")
  BY <1>i DEF StartFrame, SkipWhileHalted, EnterInner, SetIdleHalt, FatalInv
<1>2. TypeOK'
  <2>1. slack' \in 0 .. MaxSlack
    <3>1. slack' = slack \/ slack' = 0
      BY DEF StartFrame, SkipWhileHalted, EnterInner
    <3>2. slack \in 0 .. MaxSlack
      BY <1>i DEF TypeOK
    <3> QED BY <3>1, <3>2, InterruptsAssumption
  <2>2. phase' \in {"idle", "outer", "inner"} /\ vb_idle_mode' \in BOOLEAN
    BY <1>i DEF TypeOK, StartFrame, SkipWhileHalted, EnterInner
  <2>3. Halted' \in {"none", "halt", "fatal"}
    BY <1>i, <1>1 DEF TypeOK
  <2> QED BY <1>i, <1>0, <2>1, <2>2, <2>3 DEF TypeOK, irqs, sys
<1>3. CacheFresh'
  <2>1. Pending(ilevel, psw, Halted) = Pending(ilevel, psw, Halted')
    BY <1>1, HaltIrrelevant
  <2> QED BY <1>i, <1>0, <2>1 DEF CacheFresh, irqs, sys
<1>4. BitStringNotMixedUp'
  <2>1. in_bstr' = in_bstr /\ pc' = pc /\ IPendingCache' = IPendingCache
    BY <1>0
  <2>2. CASE StartFrame
    BY <1>i, <2>1, <2>2 DEF BitStringNotMixedUp, StartFrame
  <2>3. CASE SkipWhileHalted
    BY <1>i, <2>1, <2>3 DEF BitStringNotMixedUp, SkipWhileHalted
  <2>4. CASE EnterInner
    BY <1>i, <2>1, <2>4 DEF BitStringNotMixedUp, EnterInner
  <2> QED BY <2>2, <2>3, <2>4
<1>5. FatalInv'
  BY <1>i, <1>0, <1>1 DEF FatalInv, StartFrame, SkipWhileHalted, EnterInner, sys
<1> QED BY <1>2, <1>3, <1>4, <1>5 DEF IInv

LEMMA BitStringPreserves ==
  ASSUME IInv, ResumeBitString \/ StartBitString
  PROVE  IInv'
<1>i. TypeOK /\ CacheFresh /\ BitStringNotMixedUp /\ FatalInv
  BY DEF IInv
<1>0. BitString /\ phase' = "inner" /\ Halted # "fatal"
      /\ UNCHANGED << sys, Halted, vb_idle_mode >>
  BY <1>i DEF ResumeBitString, StartBitString, Fetches, BitString, FatalInv,
              TypeOK
<1>1. PICK lines \in SUBSET Levels : SetInt(lines)
  BY <1>0 DEF BitString
<1>2. /\ IRQ_Asserted' \subseteq Levels /\ ilevel' \in -1 .. 4
      /\ IPendingCache' \in {0, 255} /\ CacheFresh'
  BY <1>i, <1>0, <1>1, SetIntFacts DEF TypeOK, sys
<1>3. \/ in_bstr' = FALSE /\ pc' = "code" /\ slack' \in Spent
      \/ in_bstr' = TRUE /\ pc' = "bstr" /\ slack' = 0
  BY <1>0 DEF BitString
<1>4. slack' \in 0 .. MaxSlack
  BY <1>i, <1>3, InterruptsAssumption DEF TypeOK, Spent
<1>5. TypeOK'
  BY <1>i, <1>0, <1>2, <1>3, <1>4 DEF TypeOK, sys
<1>6. BitStringNotMixedUp' /\ FatalInv'
  BY <1>i, <1>0, <1>3, <1>4 DEF BitStringNotMixedUp, FatalInv, sys
<1> QED BY <1>2, <1>5, <1>6 DEF IInv

LEMMA AcceptPreserves ==
  ASSUME IInv, AcceptInterrupt
  PROVE  IInv'
<1>i. TypeOK /\ CacheFresh /\ BitStringNotMixedUp /\ FatalInv
  BY DEF IInv
<1>1. psw' \in PSW /\ psw'.ID
  <2> DEFINE ia == IF ilevel + 1 > 15 THEN 15 ELSE ilevel + 1
  <2>1. ia \in 0 .. 15
    BY <1>i DEF TypeOK
  <2>2. psw' = [psw EXCEPT !.EP = TRUE, !.ID = TRUE, !.IA = ia]
    BY DEF AcceptInterrupt
  <2> HIDE DEF ia
  <2> QED BY <1>i, <2>1, <2>2 DEF TypeOK, PSW
<1>2. TypeOK'
  <2>1. slack' \in 0 .. MaxSlack
    BY <1>i, InterruptsAssumption DEF AcceptInterrupt, TypeOK
  <2>2. eipsw' = psw /\ fepsw' = fepsw
    BY DEF AcceptInterrupt
  <2> QED BY <1>i, <1>1, <2>1, <2>2 DEF AcceptInterrupt, Accepted, TypeOK, irqs
<1>3. CacheFresh'
  <2>1. Pending(ilevel', psw', Halted') = 0
    BY <1>1, MaskedNotPending
  <2> QED BY <1>i, <2>1 DEF AcceptInterrupt, CacheFresh, irqs
<1>4. BitStringNotMixedUp' /\ FatalInv'
  BY DEF AcceptInterrupt, Accepted, BitStringNotMixedUp, FatalInv
<1> QED BY <1>2, <1>3, <1>4 DEF IInv

(* No instruction is fetched while a bit string is suspended or the CPU is *)
(* halted by a fatal exception.                                            *)
LEMMA FetchFacts ==
  ASSUME IInv, Fetches
  PROVE  /\ in_bstr = FALSE /\ Halted # "fatal"
         /\ phase = "inner" /\ phase' = "inner" /\ vb_idle_mode' = vb_idle_mode
         /\ Spent \subseteq 0 .. MaxSlack
  BY InterruptsAssumption
  DEF IInv, TypeOK, BitStringNotMixedUp, FatalInv, Fetches, Spent

LEMMA ComputePreserves ==
  ASSUME IInv, Compute
  PROVE  IInv'
<1>i. TypeOK /\ CacheFresh /\ BitStringNotMixedUp /\ FatalInv
  BY DEF IInv
<1>f. Fetches
  BY DEF Compute
<1>0. /\ in_bstr = FALSE /\ Halted # "fatal"
      /\ phase = "inner" /\ phase' = "inner" /\ vb_idle_mode' = vb_idle_mode
      /\ Spent \subseteq 0 .. MaxSlack
  BY <1>f, FetchFacts
<1>1. UNCHANGED << sys, Halted, in_bstr >> /\ slack' \in Spent /\ pc' = "code"
  BY DEF Compute
<1>2. PICK lines \in SUBSET Levels : SetInt(lines)
  BY DEF Compute
<1>3. /\ IRQ_Asserted' \subseteq Levels /\ ilevel' \in -1 .. 4
      /\ IPendingCache' \in {0, 255} /\ CacheFresh'
  BY <1>i, <1>1, <1>2, SetIntFacts DEF TypeOK, sys
<1>4. TypeOK'
  BY <1>i, <1>0, <1>1, <1>3 DEF TypeOK, sys
<1>5. BitStringNotMixedUp' /\ FatalInv'
  BY <1>0, <1>1 DEF BitStringNotMixedUp, FatalInv
<1> QED BY <1>3, <1>4, <1>5 DEF IInv

LEMMA LoadPswPreserves ==
  ASSUME IInv, Fetches, NEW w \in PSW, LoadPsw(w)
  PROVE  IInv'
<1>i. TypeOK /\ CacheFresh
  BY DEF IInv
<1>0. /\ in_bstr = FALSE /\ Halted # "fatal"
      /\ phase = "inner" /\ phase' = "inner" /\ vb_idle_mode' = vb_idle_mode
      /\ Spent \subseteq 0 .. MaxSlack
  BY FetchFacts
<1>1. /\ psw' = w /\ slack' \in Spent /\ pc' = "code"
      /\ IPendingCache' = Pending(ilevel, w, Halted)
      /\ UNCHANGED << irqs, eipsw, fepsw, Halted, in_bstr >>
  BY DEF LoadPsw
<1>2. TypeOK'
  BY <1>i, <1>0, <1>1, PendingType DEF TypeOK, irqs
<1>3. CacheFresh'
  BY <1>i, <1>1 DEF CacheFresh, irqs
<1>4. BitStringNotMixedUp' /\ FatalInv'
  BY <1>0, <1>1 DEF BitStringNotMixedUp, FatalInv
<1> QED BY <1>2, <1>3, <1>4 DEF IInv

LEMMA StatusPreserves ==
  ASSUME IInv, EI \/ LDSR \/ RETI \/ LoadSavedPsw \/ DI \/ HALT
  PROVE  IInv'
<1>i. TypeOK /\ CacheFresh /\ psw \in PSW /\ eipsw \in PSW /\ fepsw \in PSW
  BY DEF IInv, TypeOK
<1>f. Fetches
  BY DEF EI, LDSR, RETI, LoadSavedPsw, DI, HALT
<1>0. /\ in_bstr = FALSE /\ Halted # "fatal"
      /\ phase = "inner" /\ phase' = "inner" /\ vb_idle_mode' = vb_idle_mode
      /\ Spent \subseteq 0 .. MaxSlack
  BY <1>f, FetchFacts
<1>1. CASE EI
  <2>1. [psw EXCEPT !.ID = FALSE] \in PSW
    BY <1>i DEF PSW
  <2> QED BY <1>1, <1>f, <2>1, LoadPswPreserves DEF EI
<1>2. CASE LDSR
  <2>1. PICK w \in PswValues : LoadPsw(w)
    BY <1>2 DEF LDSR
  <2> QED BY <1>f, <2>1, LoadPswPreserves, InterruptsAssumption
<1>3. CASE RETI
  <2>1. CASE psw.NP
    <3>1. LoadPsw(fepsw)
      BY <1>3, <2>1 DEF RETI
    <3> QED BY <1>f, <1>i, <3>1, LoadPswPreserves
  <2>2. CASE ~psw.NP
    <3>1. LoadPsw(eipsw)
      BY <1>3, <2>2 DEF RETI
    <3> QED BY <1>f, <1>i, <3>1, LoadPswPreserves
  <2> QED BY <2>1, <2>2
<1>4. CASE LoadSavedPsw
  <2>1. eipsw' \in PSW /\ fepsw' \in PSW
    BY <1>i, <1>4, InterruptsAssumption DEF LoadSavedPsw
  <2>2. /\ UNCHANGED << irqs, psw, Halted, IPendingCache, in_bstr >>
        /\ slack' \in Spent /\ pc' = "code"
    BY <1>4 DEF LoadSavedPsw
  <2>3. TypeOK' /\ CacheFresh'
    BY <1>i, <1>0, <2>1, <2>2 DEF TypeOK, CacheFresh, irqs
  <2>4. BitStringNotMixedUp' /\ FatalInv'
    BY <1>0, <2>2 DEF BitStringNotMixedUp, FatalInv
  <2> QED BY <2>3, <2>4 DEF IInv
<1>5. CASE DI
  <2>1. /\ psw' \in PSW /\ psw'.ID /\ IPendingCache' = 0
        /\ UNCHANGED << irqs, eipsw, fepsw, Halted, in_bstr >>
        /\ slack' \in Spent /\ pc' = "code"
    BY <1>i, <1>5 DEF DI, PSW
  <2>2. Pending(ilevel', psw', Halted') = 0
    BY <2>1, MaskedNotPending
  <2>3. TypeOK' /\ CacheFresh'
    BY <1>i, <1>0, <2>1, <2>2 DEF TypeOK, CacheFresh, irqs
  <2>4. BitStringNotMixedUp' /\ FatalInv'
    BY <1>0, <2>1 DEF BitStringNotMixedUp, FatalInv
  <2> QED BY <2>3, <2>4 DEF IInv
<1>6. CASE HALT
  <2>1. /\ Halted' = "halt"
        /\ UNCHANGED << irqs, sys, IPendingCache, in_bstr >>
        /\ slack' \in Spent /\ pc' = "code"
    BY <1>6 DEF HALT
  <2>2. Pending(ilevel, psw, Halted) = Pending(ilevel, psw, Halted')
    BY <1>0, <2>1, HaltIrrelevant
  <2>3. TypeOK' /\ CacheFresh'
    BY <1>i, <1>0, <2>1, <2>2 DEF TypeOK, CacheFresh, irqs, sys
  <2>4. BitStringNotMixedUp' /\ FatalInv'
    BY <1>0, <2>1 DEF BitStringNotMixedUp, FatalInv
  <2> QED BY <2>3, <2>4 DEF IInv
<1> QED BY <1>1, <1>2, <1>3, <1>4, <1>5, <1>6

LEMMA ExceptionPreserves ==
  ASSUME IInv, Trap \/ BadBitString
  PROVE  IInv'
<1>i. TypeOK /\ CacheFresh /\ FatalInv
      /\ psw \in PSW /\ eipsw \in PSW /\ fepsw \in PSW
  BY DEF IInv, TypeOK
<1>0. /\ Exception /\ phase = "inner" /\ phase' = "inner" /\ slack > 0
      /\ vb_idle_mode' = vb_idle_mode
  BY DEF Trap, BadBitString, Fetches
<1>1. /\ in_bstr' = FALSE /\ IPendingCache' = 0
      /\ UNCHANGED irqs
  BY <1>0 DEF Exception
<1>2. psw' \in PSW /\ eipsw' \in PSW /\ fepsw' \in PSW
  BY <1>i, <1>0 DEF Exception, PSW, sys
<1>3. /\ psw'.NP \/ psw'.ID
      /\ psw.NP => psw'.NP /\ Halted' = "fatal"
      /\ ~psw.NP => Halted' = Halted
  BY <1>i, <1>0 DEF Exception, PSW, sys
<1>4. slack' \in 0 .. MaxSlack
  <2>1. Spent \subseteq 0 .. MaxSlack /\ 0 \in 0 .. MaxSlack
    <3>1. slack \in 0 .. MaxSlack /\ MaxSlack \in Nat
      BY <1>i, InterruptsAssumption DEF TypeOK
    <3> QED BY <3>1 DEF Spent
  <2>2. slack' \in Spent \/ slack' = 0
    BY DEF Trap, BadBitString
  <2> QED BY <2>1, <2>2
<1>5. /\ pc' \in {"code", "bad_bstr"}
      /\ pc' = "bad_bstr" => psw.NP
      /\ Halted' = "fatal" => psw.NP /\ (slack' = 0 \/ pc' = "bad_bstr")
  <2>1. Halted' = "fatal" => psw.NP
    BY <1>i, <1>3 DEF FatalInv
  <2>2. CASE Trap
    BY <2>1, <2>2 DEF Trap
  <2>3. CASE BadBitString
    BY <2>1, <2>3 DEF BadBitString
  <2> QED BY <2>2, <2>3
<1>6. TypeOK'
  <2>1. Halted' \in {"none", "halt", "fatal"}
    BY <1>i, <1>3 DEF TypeOK
  <2> QED BY <1>i, <1>0, <1>1, <1>2, <1>4, <1>5, <2>1 DEF TypeOK, irqs
<1>7. CacheFresh'
  <2>1. Pending(ilevel', psw', Halted') = 0
    BY <1>3, MaskedNotPending
  <2> QED BY <1>i, <1>1, <2>1 DEF CacheFresh, irqs
<1>8. BitStringNotMixedUp'
  BY <1>1 DEF BitStringNotMixedUp
<1>9. FatalInv'
  BY <1>0, <1>3, <1>5 DEF FatalInv
<1> QED BY <1>6, <1>7, <1>8, <1>9 DEF IInv

LEMMA HandlerPreserves ==
  ASSUME IInv, EventHandler
  PROVE  IInv'
<1>i. TypeOK /\ CacheFresh /\ BitStringNotMixedUp /\ FatalInv
  BY DEF IInv
<1>0. PICK lines \in SUBSET Levels, reads \in BOOLEAN :
        /\ SetInt(lines)
        /\ vb_idle_mode' = IdleMode(lines, reads)
        /\ SetIdleHalt(IdleMode(lines, reads))
  BY DEF EventHandler
<1>1. /\ slack' \in 1 .. MaxSlack /\ phase' \in {"outer", "idle"}
      /\ UNCHANGED << sys, in_bstr, pc >>
  BY DEF EventHandler
<1>2. Halted' \in {"none", "halt"} /\ Halted' # "fatal"
  BY <1>0 DEF SetIdleHalt
<1>3. psw.NP \/ (Halted # "fatal" /\ Halted' # "fatal") \/ Halted' = Halted
  BY <1>i, <1>2 DEF FatalInv
<1>4. /\ IRQ_Asserted' \subseteq Levels /\ ilevel' \in -1 .. 4
      /\ IPendingCache' \in {0, 255} /\ CacheFresh'
  BY <1>i, <1>0, <1>1, <1>3, SetIntFacts DEF TypeOK, sys
<1>5. TypeOK'
  <2>1. vb_idle_mode' \in BOOLEAN
    BY <1>i, <1>0 DEF IdleMode, TypeOK
  <2>2. slack' \in 0 .. MaxSlack
    BY <1>1, InterruptsAssumption
  <2> QED BY <1>i, <1>1, <1>2, <1>4, <2>1, <2>2 DEF TypeOK, sys
<1>6. BitStringNotMixedUp'
  BY <1>i, <1>1 DEF BitStringNotMixedUp
<1>7. FatalInv'
  BY <1>i, <1>1, <1>2 DEF FatalInv, sys
<1> QED BY <1>4, <1>5, <1>6, <1>7 DEF IInv

LEMMA StutterPreserves == IInv /\ UNCHANGED vars => IInv'
  BY DEF IInv, TypeOK, CacheFresh, BitStringNotMixedUp, FatalInv, vars, irqs, sys

LEMMA NextPreserves == IInv /\ [Next]_vars => IInv'
<1> SUFFICES ASSUME IInv, [Next]_vars PROVE IInv'
  OBVIOUS
<1>1. CASE StartFrame \/ SkipWhileHalted \/ EnterInner
  BY <1>1, OuterPreserves
<1>2. CASE ResumeBitString \/ StartBitString
  BY <1>2, BitStringPreserves
<1>3. CASE AcceptInterrupt
  BY <1>3, AcceptPreserves
<1>4. CASE Compute
  BY <1>4, ComputePreserves
<1>5. CASE EI \/ LDSR \/ RETI \/ LoadSavedPsw \/ DI \/ HALT
  BY <1>5, StatusPreserves
<1>6. CASE Trap \/ BadBitString
  BY <1>6, ExceptionPreserves
<1>7. CASE EventHandler
  BY <1>7, HandlerPreserves
<1>8. CASE UNCHANGED vars
  BY <1>8, StutterPreserves
<1> QED
  BY <1>1, <1>2, <1>3, <1>4, <1>5, <1>6, <1>7, <1>8 DEF Next, Instruction

LEMMA SpecIInv == Spec => []IInv
  BY InitHolds, NextPreserves, PTL DEF Spec

-----------------------------------------------------------------------------
(* IPendingCache always holds the decision RecalcIPendingCache would take  *)
(* now, and a suspended bit string is resumed in place or dropped.         *)
THEOREM InterruptsCoherent ==
  Spec => [](TypeOK /\ CacheFresh /\ BitStringNotMixedUp)
<1>1. IInv => TypeOK /\ CacheFresh /\ BitStringNotMixedUp
  BY DEF IInv
<1> QED BY <1>1, SpecIInv, PTL

(* Its last part: between the suspension of a bit string and its end no    *)
(* other code is fetched with the bit string's opcode still kept aside.    *)
COROLLARY BitStringKept == Spec => []BitStringNotMixedUp
  BY InterruptsCoherent, PTL

(* An interrupt is taken at the highest line up, at or above the enable    *)
(* level, by a program that has interrupts enabled and no exception open.  *)
THEOREM InterruptsLegal == Spec => InterruptsAreLegal
<1>1. ASSUME IInv, AcceptInterrupt
      PROVE  /\ \E l \in IRQ_Asserted : /\ \A k \in IRQ_Asserted : k <= l
                                        /\ psw.IA <= l /\ psw'.IA = l + 1
             /\ ~psw.NP /\ ~psw.EP /\ ~psw.ID
  <2>1. TypeOK /\ CacheFresh
    BY <1>1 DEF IInv
  <2>2. Acceptable(ilevel, psw, Halted)
    BY <1>1, <2>1 DEF AcceptInterrupt, CacheFresh, Pending
  <2>3. /\ ilevel >= 0 /\ ilevel >= psw.IA
        /\ ~psw.NP /\ ~psw.EP /\ ~psw.ID
    BY <2>2 DEF Acceptable
  <2>4. ilevel = Highest(IRQ_Asserted) /\ IRQ_Asserted \subseteq 0 .. 4
    BY <2>1, InterruptsAssumption DEF CacheFresh, TypeOK
  <2>5. ilevel \in IRQ_Asserted /\ \A k \in IRQ_Asserted : k <= ilevel
    <3>1. /\ IRQ_Asserted = {} => Highest(IRQ_Asserted) = -1
          /\ IRQ_Asserted # {} => Highest(IRQ_Asserted) \in IRQ_Asserted
          /\ \A k \in IRQ_Asserted : k <= Highest(IRQ_Asserted)
      BY <2>4, HighestFacts
    <3> QED BY <2>3, <2>4, <3>1
  <2>6. psw'.IA = ilevel + 1
    <3>1. ilevel + 1 <= 15 /\ ilevel \in Int
      BY <2>1 DEF TypeOK
    <3>2. psw' = [psw EXCEPT !.EP = TRUE, !.ID = TRUE,
                             !.IA = IF ilevel + 1 > 15 THEN 15 ELSE ilevel + 1]
      BY <1>1 DEF AcceptInterrupt
    <3> QED BY <2>1, <3>1, <3>2 DEF TypeOK, PSW
  <2>7. psw.IA \in Int /\ ilevel \in Int
    BY <2>1 DEF TypeOK, PSW
  <2> QED BY <2>3, <2>5, <2>6, <2>7
<1>2. IInv /\ [Next]_vars =>
        [AcceptInterrupt =>
           /\ \E l \in IRQ_Asserted : /\ \A k \in IRQ_Asserted : k <= l
                                      /\ psw.IA <= l /\ psw'.IA = l + 1
           /\ ~psw.NP /\ ~psw.EP /\ ~psw.ID]_vars
  BY <1>1
<1> QED BY <1>2, SpecIInv, PTL DEF Spec, InterruptsAreLegal
=============================================================================
