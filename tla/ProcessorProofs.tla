--------------------------- MODULE ProcessorProofs ---------------------------
(***************************************************************************)
(* Proofs about the processor.  First JitCache, for every buffer, table,   *)
(* ROM and block size that meets SizesAssumption and RomAssumption: no     *)
(* block is overrun and none is mistaken for another.  Then Arithmetic,    *)
(* for every state of the machine, every integer instruction and the width *)
(* of the code (and of its small instances): the instruction computes what *)
(* the integers say.  Last Thumb, for the same states and widths: the code *)
(* that jit_translate emits leaves what the interpreter leaves.            *)
(***************************************************************************)
EXTENDS JitCache, Thumb, Loops

-----------------------------------------------------------------------------
(* The inductive invariant: where the write position may be, what the      *)
(* entry being filled looks like, and that no other cached block lies in   *)
(* the window reserved for it.                                             *)

PositionInv ==
  /\ jit_code_pos <= CodeWords
  /\ phase = "translating" /\ ~ended => jit_code_pos + ExitHW <= CodeWords

FillingInv ==
  phase = "translating" =>
    /\ jit_table[blk].code = code_start
    /\ jit_table[blk].hw_count = 0
    /\ code_start <= jit_code_pos
    /\ ~overlong => jit_code_pos <= code_start + MaxBlockHW

WindowInv ==
  phase = "translating" /\ ~overlong =>
    \A s \in Slots \ {blk} :
      ~Overlaps(jit_table[s], code_start, code_start + MaxBlockHW)

IntactInv == ~overlong => \A s \in Slots : code[s].intact

ResultInv ==
  result.slot # Null =>
    /\ phase = "idle"
    /\ jit_table[result.slot].vb_pc = result.pc
    /\ jit_table[result.slot].code # Null

IInv == /\ TypeOK
        /\ PositionInv
        /\ FillingInv
        /\ WindowInv
        /\ IntactInv
        /\ CachedBlocksDisjoint
        /\ ResultInv

-----------------------------------------------------------------------------
(* Facts about the constants and the helpers.                              *)

LEMMA ZeroIsSlot == 0 \in Slots
  BY SizesAssumption DEF Slots

LEMMA SlotOfType == \A pc \in Nat : SlotOf(pc) \in Slots
  BY SizesAssumption DEF SlotOf, Slots

LEMMA FetchType ==
  \A pc \in Nat : /\ Fetch(pc) \in Instr
                  /\ Fetch(pc).hw \in Nat
                  /\ Fetch(pc).hw + ExitHW <= MaxBlockHW
                  /\ Fetch(pc).len \in Nat
<1> SUFFICES ASSUME NEW pc \in Nat
             PROVE  /\ Fetch(pc) \in Instr
                    /\ Fetch(pc).hw \in Nat
                    /\ Fetch(pc).hw + ExitHW <= MaxBlockHW
                    /\ Fetch(pc).len \in Nat
  OBVIOUS
<1>1. pc % RomLen \in 0 .. RomLen - 1
  BY SizesAssumption
<1>2. Fetch(pc) \in Instr
  BY <1>1, RomAssumption DEF Fetch
<1>3. Fetch(pc).hw + ExitHW <= MaxBlockHW
  BY <1>1, RomAssumption DEF Fetch
<1> QED
  BY <1>2, <1>3 DEF Instr

LEMMA PcsNat == Pcs \subseteq Nat
  BY RomAssumption DEF Pcs

LEMMA NoBlockNeverOverlaps == \A a, b \in Int : ~Overlaps(NoBlock, a, b)
  BY DEF Overlaps, NoBlock, Null

(* Overwriting leaves every field but intact alone.                        *)
LEMMA ClobberType ==
  ASSUME TypeOK, NEW a \in Nat, NEW b \in Nat
  PROVE  Clobber(a, b) \in [Slots -> [intact : BOOLEAN, ops : Nat,
                                      exits : BOOLEAN]]
<1>1. \A s \in Slots : code[s] \in [intact : BOOLEAN, ops : Nat,
                                    exits : BOOLEAN]
  BY DEF TypeOK
<1> QED
  BY <1>1 DEF Clobber, Overlaps

(* A write inside the reserved window spoils no cached block.              *)
LEMMA WriteInWindow ==
  ASSUME TypeOK, FillingInv, WindowInv, IntactInv,
         phase = "translating", ~overlong,
         NEW end \in Nat, jit_code_pos <= end,
         end <= code_start + MaxBlockHW
  PROVE  \A s \in Slots : Clobber(jit_code_pos, end)[s].intact
<1> SUFFICES ASSUME NEW s \in Slots
             PROVE  ~Overlaps(jit_table[s], jit_code_pos, end)
  BY DEF Clobber, IntactInv, TypeOK
<1>t. /\ jit_table[s].code \in Nat \union {Null}
      /\ jit_table[s].hw_count \in Nat
      /\ jit_code_pos \in Nat /\ code_start \in Nat
  BY DEF TypeOK
<1>1. CASE s = blk
  BY <1>1, <1>t DEF FillingInv, Overlaps
<1>2. CASE s # blk
  <2>1. ~Overlaps(jit_table[s], code_start, code_start + MaxBlockHW)
    BY <1>2 DEF WindowInv
  <2> QED
    BY <2>1, <1>t, SizesAssumption DEF FillingInv, Overlaps, Null
<1> QED
  BY <1>1, <1>2
-----------------------------------------------------------------------------
LEMMA InitIInv == Init => IInv
<1> SUFFICES ASSUME Init PROVE IInv
  OBVIOUS
<1>1. TypeOK
  BY ZeroIsSlot DEF Init, TypeOK, NoBlock, NoCode, Null
<1>2. PositionInv /\ FillingInv /\ WindowInv /\ ResultInv
  BY SizesAssumption DEF Init, PositionInv, FillingInv, WindowInv, ResultInv
<1>3. IntactInv
  BY DEF Init, IntactInv, NoCode
<1>4. CachedBlocksDisjoint
  BY DEF Init, CachedBlocksDisjoint, NoBlock
<1> QED
  BY <1>1, <1>2, <1>3, <1>4 DEF IInv

LEMMA JitInitPreserves == IInv /\ JitInit => IInv'
<1> SUFFICES ASSUME IInv, JitInit PROVE IInv'
  OBVIOUS
<1> USE DEF IInv
<1>1. TypeOK'
  BY ZeroIsSlot DEF JitInit, TypeOK, NoBlock, NoCode, Null
<1>2. PositionInv' /\ FillingInv' /\ WindowInv' /\ ResultInv'
  BY SizesAssumption DEF JitInit, PositionInv, FillingInv, WindowInv, ResultInv
<1>3. IntactInv'
  BY DEF JitInit, IntactInv, NoCode
<1>4. CachedBlocksDisjoint'
  BY DEF JitInit, CachedBlocksDisjoint, NoBlock
<1> QED
  BY <1>1, <1>2, <1>3, <1>4

(* The two lookups that only read the table.                               *)
LEMMA ReadPreserves ==
  ASSUME IInv, NEW pc \in Pcs, LookupOutsideRom(pc) \/ LookupHit(pc)
  PROVE  IInv'
<1> USE DEF IInv
<1>u. UNCHANGED << jit_code_pos, jit_table, phase, blk, code_start, cur_pc, n,
                   ended, code, overlong >>
  BY DEF LookupOutsideRom, LookupHit
<1>1. TypeOK'
  BY <1>u, SlotOfType, PcsNat DEF TypeOK, LookupOutsideRom, LookupHit, Null
<1>2. PositionInv' /\ FillingInv' /\ WindowInv' /\ IntactInv'
  BY <1>u DEF PositionInv, FillingInv, WindowInv, IntactInv, Overlaps
<1>3. CachedBlocksDisjoint'
  BY <1>u DEF CachedBlocksDisjoint, Overlaps
<1>4. ResultInv'
  BY <1>u DEF LookupOutsideRom, LookupHit, Hit, ResultInv
<1> QED
  BY <1>1, <1>2, <1>3, <1>4

(* A miss: the slot and every block in the reserved window are dropped.    *)
LEMMA MissPreserves ==
  ASSUME IInv, NEW pc \in Pcs, LookupMiss(pc)
  PROVE  IInv'
<1> DEFINE cs == WrappedPos
           slot == SlotOf(pc)
           entry == [vb_pc |-> pc, code |-> cs, hw_count |-> 0]
<1>t. TypeOK /\ pc \in Nat /\ slot \in Slots
  BY PcsNat, SlotOfType DEF IInv
<1>c. cs \in Nat /\ cs + MaxBlockHW <= CodeWords
  BY SizesAssumption DEF WrappedPos, IInv, TypeOK, PositionInv
<1>e. Evict(cs, cs + MaxBlockHW) \in
        [Slots -> [vb_pc : Nat \union {Null}, code : Nat \union {Null},
                   hw_count : Nat]]
  BY <1>t DEF TypeOK, Evict, NoBlock
<1>j. /\ jit_table' \in [Slots -> [vb_pc : Nat \union {Null},
                                   code : Nat \union {Null}, hw_count : Nat]]
      /\ jit_table'[slot] = entry
      /\ \A s \in Slots \ {slot} :
           jit_table'[s] = Evict(cs, cs + MaxBlockHW)[s]
  <2>1. jit_table' = [Evict(cs, cs + MaxBlockHW) EXCEPT ![slot] = entry]
    BY DEF LookupMiss
  <2>2. entry \in [vb_pc : Nat \union {Null}, code : Nat \union {Null},
                   hw_count : Nat]
    BY <1>t, <1>c
  <2> QED
    BY <2>1, <2>2, <1>e, <1>t
<1>w. \A s \in Slots \ {slot} :
        ~Overlaps(jit_table'[s], cs, cs + MaxBlockHW)
  BY <1>j, <1>c, SizesAssumption, NoBlockNeverOverlaps DEF Evict
<1>1. TypeOK'
  <2>1. code' \in [Slots -> [intact : BOOLEAN, ops : Nat, exits : BOOLEAN]]
    <3>1. \A s \in Slots : [code[s] EXCEPT !.intact =
              @ /\ ~Overlaps(jit_table'[s], cs, cs + PrologueHW)]
            \in [intact : BOOLEAN, ops : Nat, exits : BOOLEAN]
      <4> SUFFICES ASSUME NEW s \in Slots
                   PROVE  [code[s] EXCEPT !.intact =
                             @ /\ ~Overlaps(jit_table'[s], cs, cs + PrologueHW)]
                          \in [intact : BOOLEAN, ops : Nat, exits : BOOLEAN]
        OBVIOUS
      <4>1. code[s] \in [intact : BOOLEAN, ops : Nat, exits : BOOLEAN]
        BY <1>t DEF TypeOK
      <4> QED
        BY <4>1 DEF Overlaps
    <3>2. NoCode \in [intact : BOOLEAN, ops : Nat, exits : BOOLEAN]
      BY DEF NoCode
    <3> QED
      BY <3>1, <3>2 DEF LookupMiss
  <2>2. jit_code_pos' \in Nat /\ code_start' \in Nat /\ cur_pc' \in Nat
    BY <1>t, <1>c, SizesAssumption DEF LookupMiss
  <2> QED
    BY <2>1, <2>2, <1>t, <1>j DEF LookupMiss, TypeOK, Null
<1>2. PositionInv'
  BY <1>c, SizesAssumption DEF LookupMiss, PositionInv
<1>3. FillingInv'
  BY <1>j, <1>c, SizesAssumption DEF LookupMiss, FillingInv
<1>4. WindowInv'
  BY <1>w DEF LookupMiss, WindowInv
<1>5. IntactInv'
  <2> SUFFICES ASSUME ~overlong', NEW s \in Slots
               PROVE  code'[s].intact
    BY DEF IntactInv
  <2>1. ~overlong /\ code[s].intact
    BY DEF IInv, IntactInv, LookupMiss
  <2>2. CASE s = slot \/ jit_table'[s].code = Null
    BY <2>2 DEF LookupMiss, NoCode
  <2>3. CASE s # slot /\ jit_table'[s].code # Null
    <3>1. ~Overlaps(jit_table'[s], cs, cs + PrologueHW)
      BY <2>3, <1>w, <1>j, <1>c, SizesAssumption DEF Overlaps, Null
    <3>2. code[s] \in [intact : BOOLEAN, ops : Nat, exits : BOOLEAN]
      BY <1>t DEF TypeOK
    <3>3. code'[s] = [code[s] EXCEPT !.intact =
             @ /\ ~Overlaps(jit_table'[s], cs, cs + PrologueHW)]
      BY <2>3 DEF LookupMiss
    <3> QED
      BY <3>1, <3>2, <3>3, <2>1
  <2> QED
    BY <2>2, <2>3
<1>6. CachedBlocksDisjoint'
  <2> SUFFICES ASSUME ~overlong', NEW s \in Slots, NEW t \in Slots,
                      s # t, jit_table'[t].code # Null
               PROVE  ~Overlaps(jit_table'[s], jit_table'[t].code,
                         jit_table'[t].code + jit_table'[t].hw_count)
    BY DEF CachedBlocksDisjoint, Overlaps
  <2>n. /\ jit_table'[s].code \in Nat \union {Null}
        /\ jit_table'[t].code \in Nat
        /\ jit_table'[s].hw_count \in Nat /\ jit_table'[t].hw_count \in Nat
    BY <1>j
  <2>1. CASE s = slot
    BY <2>1, <2>n, <1>j, <1>w, <1>c, SizesAssumption DEF Overlaps, Null
  <2>2. CASE t = slot
    BY <2>2, <2>n, <1>j, <1>w, <1>c, SizesAssumption DEF Overlaps, Null
  <2>3. CASE s # slot /\ t # slot
    <3>1. jit_table'[t] = jit_table[t]
      BY <2>3, <1>j DEF Evict, NoBlock
    <3>2. jit_table'[s] = jit_table[s] \/ jit_table'[s] = NoBlock
      BY <2>3, <1>j DEF Evict
    <3>3. ~Overlaps(jit_table[s], jit_table[t].code,
                    jit_table[t].code + jit_table[t].hw_count)
      BY <3>1 DEF IInv, CachedBlocksDisjoint, LookupMiss
    <3> QED
      BY <3>1, <3>2, <3>3, <2>n, NoBlockNeverOverlaps DEF Null
  <2> QED
    BY <2>1, <2>2, <2>3
<1>7. ResultInv'
  BY DEF LookupMiss, ResultInv
<1> QED
  BY <1>1, <1>2, <1>3, <1>4, <1>5, <1>6, <1>7 DEF IInv

LEMMA EmitPreserves == IInv /\ EmitInstr => IInv'
<1> SUFFICES ASSUME IInv, EmitInstr PROVE IInv'
  OBVIOUS
<1> DEFINE in == Fetch(cur_pc)
           end == jit_code_pos + in.hw
<1>t. TypeOK /\ jit_code_pos \in Nat /\ code_start \in Nat /\ blk \in Slots
  BY DEF IInv, TypeOK
<1>f. in.hw \in Nat /\ in.hw + ExitHW <= MaxBlockHW /\ in.len \in Nat
  BY FetchType DEF IInv, TypeOK
<1>e. jit_code_pos' = end /\ end \in Nat
  BY <1>t, <1>f DEF EmitInstr
<1>c. code' = [Clobber(jit_code_pos, end) EXCEPT
                 ![blk].exits = (in.kind = "ending")]
  BY <1>e DEF EmitInstr
<1>k. Clobber(jit_code_pos, end) \in
        [Slots -> [intact : BOOLEAN, ops : Nat, exits : BOOLEAN]]
  <2> HIDE DEF end
  <2> QED
    BY ClobberType, <1>t, <1>e
<1>1. TypeOK'
  <2>1. code' \in [Slots -> [intact : BOOLEAN, ops : Nat, exits : BOOLEAN]]
    BY <1>c, <1>k, <1>t, ZenonT(60)
  <2>2. cur_pc' \in Nat /\ n' \in Nat /\ ended' \in BOOLEAN
        /\ overlong' \in BOOLEAN
    BY <1>f, <1>t DEF EmitInstr, TypeOK
  <2> QED
    BY <2>1, <2>2, <1>e, <1>t DEF EmitInstr, TypeOK
<1>2. PositionInv'
  BY <1>e, <1>f, <1>t, SizesAssumption DEF EmitInstr, LoopGoesOn, PositionInv
<1>3. FillingInv'
  <2>1. /\ jit_table[blk].code = code_start /\ jit_table[blk].hw_count = 0
        /\ code_start <= jit_code_pos
    BY DEF EmitInstr, FillingInv, IInv
  <2>2. code_start <= end
    BY <2>1, <1>e, <1>f, <1>t
  <2>3. ASSUME ~overlong' PROVE jit_code_pos' <= code_start + MaxBlockHW
    <3>1. ~(jit_code_pos' > code_start + MaxBlockHW)
      BY <2>3 DEF EmitInstr
    <3> QED
      BY <3>1, <1>e, <1>t, SizesAssumption
  <2> QED
    BY <2>1, <2>2, <2>3, <1>e DEF EmitInstr, FillingInv
<1>4. WindowInv'
  BY DEF EmitInstr, WindowInv, IInv, Overlaps
<1>5. IntactInv'
  <2> SUFFICES ASSUME ~overlong' PROVE \A s \in Slots : code'[s].intact
    BY DEF IntactInv
  <2>0. ~overlong /\ ~(jit_code_pos' > code_start + MaxBlockHW)
    BY DEF EmitInstr
  <2>1. ~overlong /\ end <= code_start + MaxBlockHW
    BY <2>0, <1>e, <1>t, SizesAssumption
  <2>2. \A s \in Slots : Clobber(jit_code_pos, end)[s].intact
    BY WriteInWindow, <2>1, <1>e, <1>f, <1>t DEF IInv, EmitInstr
  <2> QED
    BY <2>2, <1>c, <1>k, <1>t
<1>6. CachedBlocksDisjoint'
  BY DEF EmitInstr, CachedBlocksDisjoint, IInv, Overlaps
<1>7. ResultInv'
  BY DEF EmitInstr, ResultInv, IInv
<1> QED
  BY <1>1, <1>2, <1>3, <1>4, <1>5, <1>6, <1>7 DEF IInv

LEMMA FallbackPreserves == IInv /\ MeetFallback => IInv'
<1> SUFFICES ASSUME IInv, MeetFallback PROVE IInv'
  OBVIOUS
<1>1. TypeOK'
  BY DEF IInv, MeetFallback, TypeOK
<1>2. PositionInv' /\ FillingInv' /\ WindowInv' /\ IntactInv' /\ ResultInv'
  BY DEF IInv, MeetFallback, PositionInv, FillingInv, WindowInv, IntactInv,
         ResultInv, Overlaps
<1>3. CachedBlocksDisjoint'
  BY DEF IInv, MeetFallback, CachedBlocksDisjoint, Overlaps
<1> QED
  BY <1>1, <1>2, <1>3 DEF IInv

LEMMA FinishPreserves == IInv /\ FinishBlock => IInv'
<1> SUFFICES ASSUME IInv, FinishBlock PROVE IInv'
  OBVIOUS
<1> DEFINE end == IF ended THEN jit_code_pos ELSE jit_code_pos + ExitHW
           count == end - code_start
<1>t. TypeOK /\ jit_code_pos \in Nat /\ code_start \in Nat /\ blk \in Slots
  BY DEF IInv, TypeOK
<1>f. /\ jit_table[blk].code = code_start /\ code_start <= jit_code_pos
      /\ phase = "translating"
  BY DEF IInv, FillingInv, FinishBlock
<1>e. end \in Nat /\ jit_code_pos <= end /\ count \in Nat
  BY <1>t, <1>f, SizesAssumption
<1>j. /\ jit_table' = [jit_table EXCEPT ![blk].hw_count = count]
      /\ jit_table' \in [Slots -> [vb_pc : Nat \union {Null},
                                   code : Nat \union {Null}, hw_count : Nat]]
      /\ jit_table'[blk].code = code_start
      /\ jit_table'[blk].vb_pc = jit_table[blk].vb_pc
      /\ jit_table'[blk].hw_count = count
      /\ \A s \in Slots \ {blk} : jit_table'[s] = jit_table[s]
  <2>1. jit_table' = [jit_table EXCEPT ![blk].hw_count = count]
    BY DEF FinishBlock, BlockLength
  <2> QED
    BY <2>1, <1>t, <1>e, <1>f DEF TypeOK
<1>k. Clobber(jit_code_pos, end) \in
        [Slots -> [intact : BOOLEAN, ops : Nat, exits : BOOLEAN]]
  <2> HIDE DEF end
  <2> QED
    BY ClobberType, <1>t, <1>e
<1>c. code' = [Clobber(jit_code_pos, end) EXCEPT
                 ![blk] = [intact |-> TRUE, ops |-> n,
                           exits |-> ~ended \/ code[blk].exits]]
  BY DEF FinishBlock
<1>1. TypeOK'
  <2>1. code' \in [Slots -> [intact : BOOLEAN, ops : Nat, exits : BOOLEAN]]
    <3>1. [intact |-> TRUE, ops |-> n, exits |-> ~ended \/ code[blk].exits]
            \in [intact : BOOLEAN, ops : Nat, exits : BOOLEAN]
      BY <1>t DEF TypeOK
    <3> QED
      BY <3>1, <1>c, <1>k, <1>t
  <2>2. jit_code_pos' \in Nat /\ overlong' \in BOOLEAN
    BY <1>e, <1>t DEF FinishBlock, TypeOK
  <2>3. result' \in [pc : Nat \union {Null}, slot : Slots \union {Null}]
    BY <1>t DEF FinishBlock, TypeOK
  <2> QED
    BY <2>1, <2>2, <2>3, <1>j, ZeroIsSlot DEF FinishBlock, TypeOK
<1>2. PositionInv'
  BY <1>t, SizesAssumption DEF FinishBlock, PositionInv, IInv
<1>3. FillingInv' /\ WindowInv'
  BY DEF FinishBlock, FillingInv, WindowInv
<1>4. ASSUME ~overlong'
      PROVE  ~overlong /\ end <= code_start + MaxBlockHW
  <2>1. ~overlong /\ ~(end > code_start + MaxBlockHW)
    BY <1>4 DEF FinishBlock
  <2> QED
    BY <2>1, <1>e, <1>t, SizesAssumption
<1>5. IntactInv'
  <2> SUFFICES ASSUME ~overlong' PROVE \A s \in Slots : code'[s].intact
    BY DEF IntactInv
  <2>1. \A s \in Slots : Clobber(jit_code_pos, end)[s].intact
    BY WriteInWindow, <1>4, <1>e, <1>f, <1>t DEF IInv
  <2> QED
    BY <2>1, <1>c, <1>k, <1>t
<1>6. CachedBlocksDisjoint'
  <2> SUFFICES ASSUME ~overlong', NEW s \in Slots, NEW t \in Slots,
                      s # t, jit_table'[t].code # Null
               PROVE  ~Overlaps(jit_table'[s], jit_table'[t].code,
                         jit_table'[t].code + jit_table'[t].hw_count)
    BY DEF CachedBlocksDisjoint, Overlaps
  <2>n. /\ jit_table'[s].code \in Nat \union {Null}
        /\ jit_table'[t].code \in Nat
        /\ jit_table'[s].hw_count \in Nat /\ jit_table'[t].hw_count \in Nat
    BY <1>j
  <2>w. \A r \in Slots \ {blk} :
          ~Overlaps(jit_table[r], code_start, code_start + MaxBlockHW)
    BY <1>4, <1>f DEF IInv, WindowInv
  <2>h. code_start + count <= code_start + MaxBlockHW
    BY <1>4, <1>e, <1>t
  <2>1. CASE s = blk
    BY <2>1, <2>n, <2>w, <2>h, <1>j, <1>t, <1>e, SizesAssumption
       DEF Overlaps, Null
  <2>2. CASE t = blk
    BY <2>2, <2>n, <2>w, <2>h, <1>j, <1>t, <1>e, SizesAssumption
       DEF Overlaps, Null
  <2>3. CASE s # blk /\ t # blk
    BY <2>3, <1>j, <1>4 DEF IInv, CachedBlocksDisjoint
  <2> QED
    BY <2>1, <2>2, <2>3
<1>7. ResultInv'
  BY <1>j, <1>t DEF FinishBlock, ResultInv, Null
<1> QED
  BY <1>1, <1>2, <1>3, <1>5, <1>6, <1>7 DEF IInv

LEMMA StutterPreserves == IInv /\ UNCHANGED vars => IInv'
BY DEF vars, IInv, TypeOK, PositionInv, FillingInv, WindowInv, IntactInv,
       CachedBlocksDisjoint, ResultInv, Overlaps

LEMMA NextPreserves == IInv /\ [Next]_vars => IInv'
<1> SUFFICES ASSUME IInv, [Next]_vars PROVE IInv'
  OBVIOUS
<1>1. CASE JitInit
  BY <1>1, JitInitPreserves
<1>2. CASE Lookup
  BY <1>2, ReadPreserves, MissPreserves DEF Lookup
<1>3. CASE Translate
  BY <1>3, EmitPreserves, FallbackPreserves, FinishPreserves DEF Translate
<1>4. CASE UNCHANGED vars
  BY <1>4, StutterPreserves
<1> QED
  BY <1>1, <1>2, <1>3, <1>4 DEF Next

LEMMA SpecIInv == Spec => []IInv
  BY InitIInv, NextPreserves, PTL DEF Spec

-----------------------------------------------------------------------------
(* The emitters never store past the end of jit_code_buf, whatever the     *)
(* program being translated: the reserve that jit_lookup's wrap and        *)
(* jit_translate's loop condition keep is enough for the last instruction  *)
(* and the exit.                                                           *)
THEOREM BufferSafe == Spec => [](TypeOK /\ BufferNotOverrun)
<1>1. IInv => TypeOK /\ BufferNotOverrun
  BY DEF IInv, PositionInv, BufferNotOverrun
<1> QED
  BY <1>1, SpecIInv, PTL

(* As long as no block has outgrown its window, jit_lookup returns code    *)
(* that is the translation of the PC asked for, and the cached blocks are  *)
(* disjoint: the wrap, the eviction scan and slot replacement are right    *)
(* under that one condition.                                               *)
THEOREM CacheCoherent == Spec => [](LookupReturnsItsCode /\ CachedBlocksDisjoint)
<1>1. IInv => LookupReturnsItsCode /\ CachedBlocksDisjoint
  <2> SUFFICES ASSUME IInv, result.slot # Null, ~overlong
               PROVE  /\ jit_table[result.slot].vb_pc = result.pc
                      /\ code[result.slot].intact
    BY DEF IInv, LookupReturnsItsCode
  <2>1. result.slot \in Slots
    BY DEF IInv, TypeOK
  <2> QED
    BY <2>1 DEF IInv, ResultInv, IntactInv
<1> QED
  BY <1>1, SpecIInv, PTL

-----------------------------------------------------------------------------
(* Where an empty block comes from: the place it begins at decides whether *)
(* jit_translate's loop is entered, and only an instruction entered can    *)
(* end the block or give it an exit before its end.                        *)

AtTheEnd(place) ==
  place \in CodeWords - MaxBlockHW - PrologueHW .. CodeWords - MaxBlockHW

BegunInv ==
  phase = "translating" =>
    /\ code_start + MaxBlockHW <= CodeWords
    /\ n = 0 => ~code[blk].exits
    /\ n = 0 /\ ~ended => jit_code_pos = code_start + PrologueHW
    /\ n > 0 \/ ended => ~AtTheEnd(code_start)

(* Every block cached and finished. *)
EmptyInv ==
  \A s \in Slots :
    jit_table[s].code # Null /\ ~(phase = "translating" /\ s = blk) =>
      (code[s].ops = 0 /\ code[s].exits <=> AtTheEnd(jit_table[s].code))

EInv == IInv /\ BegunInv /\ EmptyInv

(* What the ghost keeps of a block when the buffer is written. *)
LEMMA ClobberKeeps ==
  ASSUME TypeOK, NEW a, NEW b, NEW s \in Slots
  PROVE  /\ Clobber(a, b)[s].ops = code[s].ops
         /\ Clobber(a, b)[s].exits = code[s].exits
<1>1. code[s] \in [intact : BOOLEAN, ops : Nat, exits : BOOLEAN]
  BY DEF TypeOK
<1> QED
  BY <1>1 DEF Clobber

LEMMA EmptyMiss ==
  ASSUME EInv, NEW pc \in Pcs, LookupMiss(pc)
  PROVE  BegunInv' /\ EmptyInv'
<1> DEFINE cs == WrappedPos
           slot == SlotOf(pc)
<1>t. TypeOK /\ slot \in Slots /\ jit_code_pos \in Nat
  BY PcsNat, SlotOfType DEF EInv, IInv, TypeOK
<1>c. cs \in Nat /\ cs + MaxBlockHW <= CodeWords
  BY <1>t, SizesAssumption DEF WrappedPos
<1>b. /\ phase' = "translating" /\ blk' = slot /\ code_start' = cs
      /\ jit_code_pos' = cs + PrologueHW /\ n' = 0 /\ ended' = FALSE
  BY DEF LookupMiss
<1>g. \A s \in Slots :
        code'[s] = IF jit_table'[s].code = Null \/ s = slot
                     THEN NoCode
                     ELSE [code[s] EXCEPT !.intact =
                             @ /\ ~Overlaps(jit_table'[s], cs,
                                            cs + PrologueHW)]
  BY DEF LookupMiss
<1>1. BegunInv'
  <2>1. ~code'[slot].exits
    <3>1. slot \in Slots
      BY <1>t
    <3> HIDE DEF slot, cs
    <3>2. code'[slot] = NoCode
      BY <1>g, <3>1, Zenon
    <3> QED
      BY <3>2 DEF NoCode
  <2> QED
    BY <2>1, <1>b, <1>c DEF BegunInv
<1>2. EmptyInv'
  <2> SUFFICES ASSUME NEW s \in Slots, jit_table'[s].code # Null, s # slot
               PROVE  code'[s].ops = 0 /\ code'[s].exits
                        <=> AtTheEnd(jit_table'[s].code)
    BY <1>b DEF EmptyInv, AtTheEnd
  <2>1. jit_table'[s] = Evict(cs, cs + MaxBlockHW)[s]
    <3>1. Evict(cs, cs + MaxBlockHW) \in
            [Slots -> [vb_pc : Nat \union {Null}, code : Nat \union {Null},
                       hw_count : Nat]]
      BY <1>t DEF TypeOK, Evict, NoBlock
    <3> QED
      BY <3>1 DEF LookupMiss
  <2>2. jit_table'[s] = jit_table[s]
    BY <2>1 DEF Evict, NoBlock
  <2>3. code'[s].ops = code[s].ops /\ code'[s].exits = code[s].exits
    <3>1. code[s] \in [intact : BOOLEAN, ops : Nat, exits : BOOLEAN]
      BY <1>t DEF TypeOK
    <3> QED
      BY <3>1, <1>g
  <2>4. phase = "idle"
    BY DEF LookupMiss
  <2> QED
    BY <2>2, <2>3, <2>4 DEF EInv, EmptyInv
<1> QED
  BY <1>1, <1>2

LEMMA EmptyEmit == EInv /\ EmitInstr => BegunInv' /\ EmptyInv'
<1> SUFFICES ASSUME EInv, EmitInstr PROVE BegunInv' /\ EmptyInv'
  OBVIOUS
<1> DEFINE end == jit_code_pos + Fetch(cur_pc).hw
<1>t. /\ TypeOK /\ jit_code_pos \in Nat /\ code_start \in Nat
      /\ blk \in Slots /\ n \in Nat
  BY DEF EInv, IInv, TypeOK
<1>u. /\ UNCHANGED << jit_table, phase, blk, code_start >>
      /\ phase = "translating" /\ n' = n + 1
      /\ ~ended /\ jit_code_pos + MaxBlockHW < CodeWords
  BY DEF EmitInstr, LoopGoesOn
<1>1. BegunInv'
  <2>1. n = 0 => ~AtTheEnd(code_start)
    BY <1>t, <1>u, SizesAssumption DEF EInv, BegunInv, AtTheEnd
  <2>2. ~AtTheEnd(code_start)
    BY <2>1, <1>t, <1>u DEF EInv, BegunInv
  <2> QED
    BY <2>2, <1>t, <1>u DEF EInv, BegunInv, AtTheEnd
<1>2. EmptyInv'
  <2> SUFFICES ASSUME NEW s \in Slots, s # blk
               PROVE  code'[s].ops = code[s].ops /\ code'[s].exits = code[s].exits
    BY <1>u DEF EInv, EmptyInv, AtTheEnd
  <2>1. code' = [Clobber(jit_code_pos, end) EXCEPT
                   ![blk].exits = (Fetch(cur_pc).kind = "ending")]
    BY DEF EmitInstr
  <2>2. code'[s] = Clobber(jit_code_pos, end)[s]
    BY <2>1 DEF Clobber
  <2> QED
    BY <2>2, <1>t, ClobberKeeps
<1> QED
  BY <1>1, <1>2

LEMMA EmptyFallback == EInv /\ MeetFallback => BegunInv' /\ EmptyInv'
<1> SUFFICES ASSUME EInv, MeetFallback PROVE BegunInv' /\ EmptyInv'
  OBVIOUS
<1>t. jit_code_pos \in Nat /\ code_start \in Nat /\ n \in Nat
  BY DEF EInv, IInv, TypeOK
<1>1. ~ended /\ jit_code_pos + MaxBlockHW < CodeWords /\ phase = "translating"
  BY DEF MeetFallback, LoopGoesOn
<1>2. ~AtTheEnd(code_start)
  BY <1>t, <1>1, SizesAssumption DEF EInv, BegunInv, AtTheEnd
<1> QED
  BY <1>1, <1>2, <1>t DEF MeetFallback, EInv, BegunInv, EmptyInv, AtTheEnd

LEMMA EmptyFinish == EInv /\ FinishBlock => BegunInv' /\ EmptyInv'
<1> SUFFICES ASSUME EInv, FinishBlock PROVE BegunInv' /\ EmptyInv'
  OBVIOUS
<1> DEFINE end == IF ended THEN jit_code_pos ELSE jit_code_pos + ExitHW
           count == BlockLength(end)
           done == [intact |-> TRUE, ops |-> n,
                    exits |-> ~ended \/ code[blk].exits]
<1>t. /\ TypeOK /\ jit_code_pos \in Nat /\ code_start \in Nat
      /\ blk \in Slots /\ n \in Nat /\ ended \in BOOLEAN
  BY DEF EInv, IInv, TypeOK
<1>u. /\ phase' = "idle" /\ phase = "translating"
      /\ jit_table' = [jit_table EXCEPT ![blk].hw_count = count]
      /\ code' = [Clobber(jit_code_pos, end) EXCEPT ![blk] = done]
  BY DEF FinishBlock
<1>1. BegunInv'
  BY <1>u DEF BegunInv
<1>2. ASSUME NEW s \in Slots PROVE jit_table'[s].code = jit_table[s].code
  <2>1. jit_table[s] \in [vb_pc : Nat \union {Null}, code : Nat \union {Null},
                          hw_count : Nat]
    BY <1>t DEF TypeOK
  <2> QED
    BY <2>1, <1>u, <1>t DEF TypeOK
<1>3. EmptyInv'
  <2> SUFFICES ASSUME NEW s \in Slots, jit_table'[s].code # Null
               PROVE  code'[s].ops = 0 /\ code'[s].exits
                        <=> AtTheEnd(jit_table'[s].code)
    BY DEF EmptyInv, AtTheEnd
  <2>1. CASE s # blk
    <3>1. code'[s] = Clobber(jit_code_pos, end)[s]
      BY <2>1, <1>u DEF Clobber
    <3> HIDE DEF end
    <3>2. code'[s].ops = code[s].ops /\ code'[s].exits = code[s].exits
      BY <3>1, <1>t, ClobberKeeps
    <3> QED
      BY <2>1, <3>2, <1>2 DEF EInv, EmptyInv
  <2>2. CASE s = blk
    <3>1. code'[s] = done
      BY <2>2, <1>u, <1>t DEF Clobber
    <3>2. jit_table'[s].code = code_start
      BY <2>2, <1>2, <1>u DEF EInv, IInv, FillingInv
    <3>3. n = 0 /\ (~ended \/ code[blk].exits) <=> AtTheEnd(code_start)
      <4>1. CASE n > 0 \/ ended
        BY <4>1, <1>u, <1>t DEF EInv, BegunInv
      <4>2. CASE n = 0 /\ ~ended
        <5>1. jit_code_pos + MaxBlockHW >= CodeWords
          BY <4>2, <1>t, SizesAssumption DEF FinishBlock, LoopGoesOn
        <5> QED
          BY <4>2, <5>1, <1>u, <1>t, SizesAssumption
             DEF EInv, BegunInv, AtTheEnd
      <4> QED
        BY <4>1, <4>2, <1>t
    <3>4. done.ops = n /\ (done.exits <=> ~ended \/ code[blk].exits)
      OBVIOUS
    <3> HIDE DEF done, count, end
    <3>5. /\ code'[s].ops = n
          /\ code'[s].exits <=> ~ended \/ code[blk].exits
      BY <3>1, <3>4, Zenon
    <3> QED
      BY <3>2, <3>3, <3>5, Zenon
  <2> QED
    BY <2>1, <2>2
<1> QED
  BY <1>1, <1>3

LEMMA EmptyNext == EInv /\ [Next]_vars => EInv'
<1> SUFFICES ASSUME EInv, [Next]_vars PROVE BegunInv' /\ EmptyInv'
  BY NextPreserves DEF EInv
<1>1. CASE JitInit
  BY <1>1 DEF JitInit, BegunInv, EmptyInv, NoBlock
<1>2. ASSUME NEW pc \in Pcs, LookupOutsideRom(pc) \/ LookupHit(pc)
      PROVE  BegunInv' /\ EmptyInv'
  BY <1>2 DEF LookupOutsideRom, LookupHit, EInv, BegunInv, EmptyInv, AtTheEnd
<1>3. CASE UNCHANGED vars
  BY <1>3 DEF vars, EInv, BegunInv, EmptyInv, AtTheEnd
<1> QED
  BY <1>1, <1>2, <1>3, EmptyMiss, EmptyEmit, EmptyFallback, EmptyFinish
     DEF Next, Lookup, Translate

(* A block without an instruction is handed to the dispatcher if and only  *)
(* if it begins in the last places of the buffer before jit_lookup wraps,  *)
(* for every ROM, every table and every set of sizes, the source's own     *)
(* among them: the off-by-one between the wrap and the loop condition is   *)
(* met there, after any sequence of translations, and nowhere else.        *)
THEOREM EmptyBlocksWhere == Spec => []EmptyBlocksAtEnd
<1>1. Init => EInv
  BY InitIInv DEF Init, EInv, BegunInv, EmptyInv, NoBlock
<1>2. EInv => EmptyBlocksAtEnd
  <2> SUFFICES ASSUME EInv, result.slot # Null
               PROVE  EmptyBlocksAtEnd
    BY DEF EmptyBlocksAtEnd
  <2>1. /\ result.slot \in Slots /\ phase = "idle"
        /\ jit_table[result.slot].code # Null
    BY DEF EInv, IInv, TypeOK, ResultInv
  <2> QED
    BY <2>1 DEF EInv, EmptyInv, AtTheEnd, EmptyBlocksAtEnd
<1> QED
  BY <1>1, <1>2, EmptyNext, PTL DEF Spec

-----------------------------------------------------------------------------
(* Arithmetic, from the division of integers up: the words, the flags, the *)
(* memory, the results of each group of instructions, and at the end the   *)
(* invariant that a performed instruction is the one the interpreter does. *)

-----------------------------------------------------------------------------
(* Quotients. *)
LEMMA QuotientIs ==
  ASSUME NEW a \in Int, NEW b \in Int, b > 0, NEW q \in Int, q * b <= a, a < (q * b) + b
  PROVE  a \div b = q
<1> DEFINE k == a \div b
<1>1. k \in Int /\ k * b <= a /\ a < (k * b) + b
  BY SMT
<1> HIDE DEF k
<1>2. CASE k < q
  <2>1. (k + 1) * b <= q * b
    BY <1>1, <1>2, SMT
  <2>2. (k + 1) * b = (k * b) + b
    BY <1>1, SMT
  <2> QED
    BY <1>1, <2>1, <2>2, SMT
<1>3. CASE q < k
  <2>1. (q + 1) * b <= k * b
    BY <1>1, <1>3, SMT
  <2>2. (q + 1) * b = (q * b) + b
    BY SMT
  <2> QED
    BY <1>1, <2>1, <2>2, SMT
<1> QED
  BY <1>1, <1>2, <1>3, SMT DEF k

LEMMA QuotientBounds ==
  ASSUME NEW a \in Int, NEW b \in Int, b > 0
  PROVE  a \div b \in Int /\ (a \div b) * b <= a /\ a < ((a \div b) * b) + b
BY SMT

LEMMA RemainderOf ==
  ASSUME NEW a \in Int, NEW b \in Int, b > 0
  PROVE  a % b = a - ((a \div b) * b) /\ a % b \in 0 .. b - 1
BY QuotientBounds, SMT

LEMMA RemainderAfter ==
  ASSUME NEW a \in Int, NEW b \in Int, NEW d \in 0 .. b - 1, b > 0
  PROVE  (a + d) % b = IF (a % b) + d < b THEN (a % b) + d ELSE ((a % b) + d) - b
<1> DEFINE k == a \div b
           r == a % b
<1>1. k \in Int /\ r = a - (k * b) /\ r \in 0 .. b - 1 /\ k * b \in Int
  BY RemainderOf, SMT
<1>2. (a + d) \in Int /\ (a + d) % b = (a + d) - (((a + d) \div b) * b)
  BY RemainderOf, SMT
<1> HIDE DEF k, r
<1>3. CASE r + d < b
  <2>1. k * b <= a + d /\ a + d < (k * b) + b
    BY <1>1, <1>3, SMT
  <2>2. (a + d) \div b = k
    BY <1>1, <1>2, <2>1, QuotientIs
  <2> QED
    BY <1>1, <1>2, <1>3, <2>2, SMT DEF r
<1>4. CASE ~(r + d < b)
  <2>1. (k + 1) * b = (k * b) + b
    BY <1>1, SMT
  <2>2. (k + 1) * b <= a + d /\ a + d < ((k + 1) * b) + b /\ k + 1 \in Int
    BY <1>1, <1>4, <2>1, SMT
  <2>3. (a + d) \div b = k + 1
    BY <1>2, <2>2, QuotientIs
  <2> QED
    BY <1>1, <1>2, <1>4, <2>1, <2>3, SMT DEF r
<1> QED
  BY <1>3, <1>4

LEMMA ScaledQuotient ==
  ASSUME NEW y \in Int, NEW p \in Int, NEW q \in Int, p > 0, q > 0
  PROVE  (y * p) \div (p * q) = y \div q
<1> DEFINE k == y \div q
<1>1. k \in Int /\ k * q <= y /\ y < (k * q) + q
  BY QuotientBounds
<1> HIDE DEF k
<1>2. (k * q) * p <= y * p /\ y * p < ((k * q) + q) * p
  BY <1>1, SMT
<1>3. k * (p * q) = (k * q) * p /\ (k * (p * q)) + (p * q) = ((k * q) + q) * p
  BY <1>1, SMT
<1>4. p * q \in Int /\ p * q > 0 /\ y * p \in Int
  BY SMT
<1>5. (y * p) \div (p * q) = k
  BY <1>1, <1>2, <1>3, <1>4, QuotientIs
<1> QED
  BY <1>5 DEF k

LEMMA ShiftedQuotient ==
  ASSUME NEW y \in Int, NEW p \in Int, NEW k \in Int, p > 0
  PROVE  (y - (p * k)) \div p = (y \div p) - k
<1> DEFINE m == y \div p
<1>1. m \in Int /\ m * p <= y /\ y < (m * p) + p
  BY QuotientBounds
<1> HIDE DEF m
<1>2. (m - k) * p = (m * p) - (p * k) /\ p * k \in Int
  BY <1>1, SMT
<1>3. (y - (p * k)) \div p = m - k
  BY <1>1, <1>2, QuotientIs
<1> QED
  BY <1>3 DEF m

-----------------------------------------------------------------------------
(* Powers of two and the widths. *)
Powers == [k \in Int |-> 2^k]
LEMMA PowerAt ==
  ASSUME NEW j \in 0..32
  PROVE  Powers[j] = 2^j
BY SMT DEF Powers

LEMMA PowerList ==
  /\ Powers[0] = 1 /\ Powers[1] = 2 /\ Powers[2] = 4 /\ Powers[3] = 8 /\ Powers[4] = 16
  /\ Powers[5] = 32 /\ Powers[6] = 64 /\ Powers[7] = 128 /\ Powers[8] = 256 /\ Powers[9] = 512
  /\ Powers[10] = 1024 /\ Powers[11] = 2048 /\ Powers[12] = 4096 /\ Powers[13] = 8192
  /\ Powers[14] = 16384 /\ Powers[15] = 32768 /\ Powers[16] = 65536 /\ Powers[17] = 131072
  /\ Powers[18] = 262144 /\ Powers[19] = 524288 /\ Powers[20] = 1048576 /\ Powers[21] = 2097152
  /\ Powers[22] = 4194304 /\ Powers[23] = 8388608 /\ Powers[24] = 16777216 /\ Powers[25] = 33554432
  /\ Powers[26] = 67108864 /\ Powers[27] = 134217728 /\ Powers[28] = 268435456 /\ Powers[29] = 536870912
  /\ Powers[30] = 1073741824 /\ Powers[31] = 2147483648 /\ Powers[32] = 4294967296
BY SMT DEF Powers

LEMMA Places ==
  ASSUME NEW j \in 0..32
  PROVE  \/ j = 0 \/ j = 1 \/ j = 2 \/ j = 3 \/ j = 4 \/ j = 5 \/ j = 6 \/ j = 7 \/ j = 8
         \/ j = 9 \/ j = 10 \/ j = 11 \/ j = 12 \/ j = 13 \/ j = 14 \/ j = 15 \/ j = 16
         \/ j = 17 \/ j = 18 \/ j = 19 \/ j = 20 \/ j = 21 \/ j = 22 \/ j = 23 \/ j = 24
         \/ j = 25 \/ j = 26 \/ j = 27 \/ j = 28 \/ j = 29 \/ j = 30 \/ j = 31 \/ j = 32
BY SMT

LEMMA PowersAre ==
  ASSUME NEW j \in 0..31
  PROVE  2^j \in Nat /\ 2^j > 0 /\ 2^(j + 1) = 2 * 2^j
<1>1. j \in 0..32 /\ j + 1 \in 0..32
  BY SMT
<1>2. Powers[j] = 2^j /\ Powers[j + 1] = 2^(j + 1)
  BY <1>1, PowerAt, Zenon
<1>3. Powers[j] \in Nat /\ Powers[j] > 0 /\ Powers[j + 1] = 2 * Powers[j]
  BY <1>1, Places, PowerList, SMT
<1> QED
  BY <1>2, <1>3, Zenon

\* The widths there are, in numbers.
LEMMA Widths ==
  ASSUME ArithmeticAssumption
  PROVE  \/ W = 8  /\ Base = 256 /\ Top = 128 /\ Half = 16 /\ Byte = 4
         \/ W = 12 /\ Base = 4096 /\ Top = 2048 /\ Half = 64 /\ Byte = 8
         \/ W = 16 /\ Base = 65536 /\ Top = 32768 /\ Half = 256 /\ Byte = 16
         \/ W = 32 /\ Base = 4294967296 /\ Top = 2147483648 /\ Half = 65536 /\ Byte = 256
<1>1. W = 8 \/ W = 12 \/ W = 16 \/ W = 32
  BY DEF ArithmeticAssumption, AluAssumption
<1>2. CASE W = 8
  <2>1. W - 1 = 7 /\ W \div 2 = 4 /\ W \div 4 = 2
    BY <1>2
  <2> QED
    BY <1>2, <2>1, SMT DEF Base, Top, Half, Byte
<1>3. CASE W = 12
  <2>1. W - 1 = 11 /\ W \div 2 = 6 /\ W \div 4 = 3
    BY <1>3
  <2> QED
    BY <1>3, <2>1, SMT DEF Base, Top, Half, Byte
<1>4. CASE W = 16
  <2>1. W - 1 = 15 /\ W \div 2 = 8 /\ W \div 4 = 4
    BY <1>4
  <2> QED
    BY <1>4, <2>1, SMT DEF Base, Top, Half, Byte
<1>5. CASE W = 32
  <2>1. W - 1 = 31 /\ W \div 2 = 16 /\ W \div 4 = 8
    BY <1>5
  <2> QED
    BY <1>5, <2>1, SMT DEF Base, Top, Half, Byte
<1> QED
  BY <1>1, <1>2, <1>3, <1>4, <1>5

LEMMA WordFacts ==
  ASSUME ArithmeticAssumption
  PROVE  /\ W \in Nat /\ W > 4 /\ W <= 32 /\ Base \in Nat /\ Top \in Nat /\ Base = 2 * Top /\ Top > 4
         /\ Half \in Nat /\ Byte \in Nat /\ Half > 0 /\ Byte > 0 /\ Half * Half = Base /\ Byte * Byte = Half
BY Widths, SMT

LEMMA CountIn ==
  ASSUME ArithmeticAssumption, NEW a \in Int
  PROVE  a % W \in 0 .. W - 1
BY WordFacts, RemainderOf, SMT

LEMMA TopBit ==
  ASSUME ArithmeticAssumption, NEW y \in WordValues
  PROVE  Bit(y, W - 1) = IF y >= Top THEN 1 ELSE 0
<1>1. Bit(y, W - 1) = (y \div Top) % 2
  BY DEF Bit, Top
<1> QED
  BY <1>1, Widths, SMT DEF WordValues

LEMMA Wraps ==
  ASSUME ArithmeticAssumption, NEW y \in WordValues
  PROVE  /\ y \in Int /\ Signed(y) \in Int /\ -Top <= Signed(y) /\ Signed(y) < Top
         /\ y % Base = y /\ Signed(y) % Base = y
BY Widths, SMT DEF Signed, WordValues

LEMMA Unwraps ==
  ASSUME ArithmeticAssumption, NEW t \in Int
  PROVE  /\ t % Base \in WordValues /\ (t % Base) % Base = t % Base
         /\ (-Top <= t /\ t < Top) = (Signed(t % Base) = t)
         /\ (0 <= t /\ t < Base) = (t % Base = t)
BY Widths, SMT DEF Signed, WordValues

-----------------------------------------------------------------------------
(* The flags. *)
LEMMA SetFlagIs ==
  ASSUME NEW psw \in Nat, NEW k \in 0..3, NEW on \in BOOLEAN
  PROVE  /\ SetFlag(psw, k, on) \in Nat
         /\ \A j \in 0..3 : Bit(SetFlag(psw, k, on), j) = IF j = k THEN (IF on THEN 1 ELSE 0) ELSE Bit(psw, j)
<1>1. 2^0 = 1 /\ 2^1 = 2 /\ 2^2 = 4 /\ 2^3 = 8
  BY SMT
<1> DEFINE P == SetFlag(psw, k, on)
<1>2. CASE k = 0
  <2>1. P = (psw + (IF on THEN 1 ELSE 0)) - ((psw \div 1) % 2)
    BY <1>1, <1>2, SMT DEF SetFlag, Bit
  <2> HIDE DEF P
  <2>2. /\ P \in Nat /\ (P \div 1) % 2 = (IF on THEN 1 ELSE 0)
        /\ (P \div 2) % 2 = (psw \div 2) % 2
        /\ (P \div 4) % 2 = (psw \div 4) % 2
        /\ (P \div 8) % 2 = (psw \div 8) % 2
    BY <2>1, SMT
  <2>3. /\ P \in Nat /\ Bit(P, 0) = (IF on THEN 1 ELSE 0) /\ Bit(P, 1) = Bit(psw, 1)
        /\ Bit(P, 2) = Bit(psw, 2) /\ Bit(P, 3) = Bit(psw, 3)
    BY <1>1, <2>2 DEF Bit
  <2> QED
    BY <1>2, <2>3 DEF P
<1>3. CASE k = 1
  <2>1. P = (psw + (IF on THEN 2 ELSE 0)) - 2 * ((psw \div 2) % 2)
    BY <1>1, <1>3, SMT DEF SetFlag, Bit
  <2> HIDE DEF P
  <2>2. /\ P \in Nat /\ (P \div 2) % 2 = (IF on THEN 1 ELSE 0)
        /\ (P \div 1) % 2 = (psw \div 1) % 2
        /\ (P \div 4) % 2 = (psw \div 4) % 2
        /\ (P \div 8) % 2 = (psw \div 8) % 2
    BY <2>1, SMT
  <2>3. /\ P \in Nat /\ Bit(P, 1) = (IF on THEN 1 ELSE 0) /\ Bit(P, 0) = Bit(psw, 0)
        /\ Bit(P, 2) = Bit(psw, 2) /\ Bit(P, 3) = Bit(psw, 3)
    BY <1>1, <2>2 DEF Bit
  <2> QED
    BY <1>3, <2>3 DEF P
<1>4. CASE k = 2
  <2>1. P = (psw + (IF on THEN 4 ELSE 0)) - 4 * ((psw \div 4) % 2)
    BY <1>1, <1>4, SMT DEF SetFlag, Bit
  <2> HIDE DEF P
  <2>2. /\ P \in Nat /\ (P \div 4) % 2 = (IF on THEN 1 ELSE 0)
        /\ (P \div 1) % 2 = (psw \div 1) % 2
        /\ (P \div 2) % 2 = (psw \div 2) % 2
        /\ (P \div 8) % 2 = (psw \div 8) % 2
    BY <2>1, SMT
  <2>3. /\ P \in Nat /\ Bit(P, 2) = (IF on THEN 1 ELSE 0) /\ Bit(P, 0) = Bit(psw, 0)
        /\ Bit(P, 1) = Bit(psw, 1) /\ Bit(P, 3) = Bit(psw, 3)
    BY <1>1, <2>2 DEF Bit
  <2> QED
    BY <1>4, <2>3 DEF P
<1>5. CASE k = 3
  <2>1. P = (psw + (IF on THEN 8 ELSE 0)) - 8 * ((psw \div 8) % 2)
    BY <1>1, <1>5, SMT DEF SetFlag, Bit
  <2> HIDE DEF P
  <2>2. /\ P \in Nat /\ (P \div 8) % 2 = (IF on THEN 1 ELSE 0)
        /\ (P \div 1) % 2 = (psw \div 1) % 2
        /\ (P \div 2) % 2 = (psw \div 2) % 2
        /\ (P \div 4) % 2 = (psw \div 4) % 2
    BY <2>1, SMT
  <2>3. /\ P \in Nat /\ Bit(P, 3) = (IF on THEN 1 ELSE 0) /\ Bit(P, 0) = Bit(psw, 0)
        /\ Bit(P, 1) = Bit(psw, 1) /\ Bit(P, 2) = Bit(psw, 2)
    BY <1>1, <2>2 DEF Bit
  <2> QED
    BY <1>5, <2>3 DEF P
<1> QED
  BY <1>2, <1>3, <1>4, <1>5

\* The flags Z and S of a result v, and the flags OV and CY.
SignsOf(psw, v) == (Bit(psw, Z) = 1 <=> v = 0) /\ (Bit(psw, S) = 1 <=> v >= Top)
OthersOf(psw, ov, cy) == (Bit(psw, OV) = 1 <=> ov) /\ (Bit(psw, CY) = 1 <=> cy)

LEMMA SignsAre ==
  ASSUME NEW psw \in Nat, NEW v \in Int, Top \in Int
  PROVE  LET F == SetSZ(psw, v)
         IN F \in Nat /\ SignsOf(F, v) /\ Bit(F, OV) = Bit(psw, OV) /\ Bit(F, CY) = Bit(psw, CY)
<1> DEFINE zero == v = 0
           negative == v >= Top
           one == SetFlag(psw, Z, zero)
           two == SetFlag(one, S, negative)
<1>a. zero \in BOOLEAN /\ negative \in BOOLEAN
  OBVIOUS
<1>0. Z \in 0..3 /\ S \in 0..3 /\ OV \in 0..3 /\ CY \in 0..3 /\ Z # S /\ Z # OV /\ Z # CY /\ S # OV /\ S # CY
  BY SMT DEF Z, S, OV, CY
<1>b. (zero <=> v = 0) /\ (negative <=> v >= Top)
  OBVIOUS
<1>c. SetSZ(psw, v) = two
  BY DEF SetSZ
<1> HIDE DEF zero, negative
<1>1. /\ one \in Nat /\ Bit(one, Z) = (IF zero THEN 1 ELSE 0)
      /\ Bit(one, OV) = Bit(psw, OV) /\ Bit(one, CY) = Bit(psw, CY)
  <2>1. one \in Nat /\ \A f \in 0..3 : Bit(one, f) = IF f = Z THEN (IF zero THEN 1 ELSE 0) ELSE Bit(psw, f)
    BY <1>a, <1>0, SetFlagIs, SMTT(60)
  <2>2. Bit(one, Z) = IF zero THEN 1 ELSE 0
    BY <1>0, <2>1
  <2>3. Bit(one, OV) = Bit(psw, OV) /\ Bit(one, CY) = Bit(psw, CY)
    BY <1>0, <2>1
  <2> QED
    BY <2>1, <2>2, <2>3
<1> HIDE DEF one
<1>2. /\ two \in Nat /\ Bit(two, S) = (IF negative THEN 1 ELSE 0) /\ Bit(two, Z) = Bit(one, Z)
      /\ Bit(two, OV) = Bit(one, OV) /\ Bit(two, CY) = Bit(one, CY)
  <2>1. two \in Nat /\ \A f \in 0..3 : Bit(two, f) = IF f = S THEN (IF negative THEN 1 ELSE 0) ELSE Bit(one, f)
    BY <1>a, <1>0, <1>1, SetFlagIs, SMTT(60)
  <2>2. Bit(two, S) = IF negative THEN 1 ELSE 0
    BY <1>0, <2>1
  <2>3. Bit(two, Z) = Bit(one, Z) /\ Bit(two, OV) = Bit(one, OV) /\ Bit(two, CY) = Bit(one, CY)
    BY <1>0, <2>1
  <2> QED
    BY <2>1, <2>2, <2>3
<1> HIDE DEF two
<1>3. Bit(two, Z) = 1 <=> zero
  BY <1>a, <1>1, <1>2
<1>4. Bit(two, S) = 1 <=> negative
  BY <1>a, <1>2
<1>5. two \in Nat /\ Bit(two, OV) = Bit(psw, OV) /\ Bit(two, CY) = Bit(psw, CY)
  BY <1>1, <1>2
<1> QED
  BY <1>b, <1>c, <1>3, <1>4, <1>5, Zenon DEF SignsOf

LEMMA FlagsAre ==
  ASSUME NEW psw \in Nat, NEW v \in Int, NEW ov \in BOOLEAN, NEW cy \in BOOLEAN, Top \in Int
  PROVE  LET F == Flags(psw, v, ov, cy) IN F \in Nat /\ SignsOf(F, v) /\ OthersOf(F, ov, cy)
<1> DEFINE one == SetFlag(psw, OV, ov)
           two == SetFlag(one, CY, cy)
<1>0. OV \in 0..3 /\ CY \in 0..3 /\ OV # CY
  BY SMT DEF OV, CY
<1>1. one \in Nat /\ Bit(one, OV) = (IF ov THEN 1 ELSE 0)
  BY <1>0, SetFlagIs, SMTT(60)
<1> HIDE DEF one
<1>2. /\ two \in Nat /\ Bit(two, CY) = (IF cy THEN 1 ELSE 0) /\ Bit(two, OV) = Bit(one, OV)
  BY <1>0, <1>1, SetFlagIs, SMTT(60)
<1> HIDE DEF two
<1>3. Flags(psw, v, ov, cy) = SetSZ(two, v)
  BY DEF one, two, Flags
<1>4. /\ SetSZ(two, v) \in Nat /\ SignsOf(SetSZ(two, v), v)
      /\ Bit(SetSZ(two, v), OV) = Bit(two, OV) /\ Bit(SetSZ(two, v), CY) = Bit(two, CY)
  BY <1>2, SignsAre
<1>5. OthersOf(SetSZ(two, v), ov, cy)
  BY <1>1, <1>2, <1>4 DEF OthersOf
<1> QED
  BY <1>3, <1>4, <1>5

\* The conditions after a comparison.
LEMMA ConditionsAre ==
  ASSUME NEW psw \in Nat
  PROVE  /\ TestCond(psw, 1) = (Bit(psw, CY) = 1)
         /\ TestCond(psw, 3) = (Bit(psw, Z) = 1 \/ Bit(psw, CY) = 1)
         /\ TestCond(psw, 6) = (Bit(psw, S) # Bit(psw, OV))
         /\ TestCond(psw, 15) = ~((Bit(psw, S) # Bit(psw, OV)) \/ Bit(psw, Z) = 1)
<1>1. 1 % 8 = 1 /\ 3 % 8 = 3 /\ 6 % 8 = 6 /\ 15 % 8 = 7
  BY SMT
<1> QED
  BY <1>1, SMT DEF TestCond

LEMMA BitIs ==
  ASSUME NEW psw \in Nat, NEW k \in 0..3
  PROVE  Bit(psw, k) = 0 \/ Bit(psw, k) = 1
<1>1. 2^k = 1 \/ 2^k = 2 \/ 2^k = 4 \/ 2^k = 8
  <2>1. 2^0 = 1 /\ 2^1 = 2 /\ 2^2 = 4 /\ 2^3 = 8
    BY SMT
  <2>2. k = 0 \/ k = 1 \/ k = 2 \/ k = 3
    BY SMT
  <2> QED
    BY <2>1, <2>2, Zenon
<1> QED
  BY <1>1, SMT DEF Bit

-----------------------------------------------------------------------------
(* The bits of a word: numbers as sums of powers of two. *)
LEMMA PowerSplits ==
  ASSUME NEW j \in 0..32
  PROVE  \A k \in 0..32 : j + k <= 32 => 2^(j + k) = 2^j * 2^k
<1> DEFINE T == {k \in Nat : j + k <= 32 => 2^(j + k) = 2^j * 2^k}
<1>a. 2^j \in Nat
  <2>1. CASE j = 32
    <3>1. 2^32 \in Nat
      BY SMT
    <3> QED
      BY <2>1, <3>1
  <2>2. CASE j # 32
    <3>1. j \in 0..31
      BY <2>2
    <3> QED
      BY <3>1, PowersAre
  <2> QED
    BY <2>1, <2>2
<1>1. 0 \in T
  <2>1. 2^0 = 1 /\ j + 0 = j
    BY SMT
  <2> QED
    BY <1>a, <2>1
<1>2. ASSUME NEW k \in T PROVE k + 1 \in T
  <2> SUFFICES ASSUME j + (k + 1) <= 32 PROVE 2^(j + (k + 1)) = 2^j * 2^(k + 1)
    OBVIOUS
  <2>1. k \in 0..31 /\ j + k \in 0..31 /\ j + (k + 1) = (j + k) + 1 /\ j + k <= 32
    BY SMT
  <2>2. 2^(j + k) = 2^j * 2^k
    BY <1>2, <2>1
  <2>3. 2^(k + 1) = 2 * 2^k /\ 2^((j + k) + 1) = 2 * 2^(j + k) /\ 2^k \in Nat
    BY <2>1, PowersAre
  <2>4. \A p, q \in Nat : 2 * (p * q) = p * (2 * q)
    BY SMT
  <2>5. 2 * (2^j * 2^k) = 2^j * (2 * 2^k)
    BY <1>a, <2>3, <2>4
  <2> QED
    BY <2>1, <2>2, <2>3, <2>5
<1>3. T = Nat
  <2>1. T \in SUBSET Nat
    OBVIOUS
  <2> HIDE DEF T
  <2> QED BY <1>1, <1>2, <2>1, InductionOnNat
<1> QED
  BY <1>3

BitLists == [0 .. W - 1 -> {0, 1}]
Partial(b, k, s) == s \in [0 .. k -> Nat] /\ s[0] = 0 /\ \A i \in 0 .. k - 1 : s[i + 1] = s[i] + (b[i] * 2^i)
Sums(b, s) == Partial(b, W, s)

LEMMA PlacePower ==
  ASSUME ArithmeticAssumption, NEW k \in 0 .. W - 1
  PROVE  k \in 0..31 /\ k + 1 \in 0 .. W /\ 2^k \in Nat /\ 2^k > 0 /\ 2^(k + 1) = 2 * 2^k
<1>1. k \in 0..31 /\ k + 1 \in 0 .. W
  BY WordFacts, SMT
<1> QED
  BY <1>1, PowersAre

LEMMA BitTerm ==
  ASSUME NEW v \in {0, 1}, NEW p \in Nat
  PROVE  v * p \in Nat /\ v * p = (IF v = 0 THEN 0 ELSE p)
BY SMT

LEMMA SumsExist ==
  ASSUME ArithmeticAssumption, NEW b \in BitLists
  PROVE  \E s : Sums(b, s)
<1> DEFINE T == {k \in Nat : k <= W => \E s : Partial(b, k, s)}
<1>1. 0 \in T
  <2>1. Partial(b, 0, [i \in 0 .. 0 |-> 0])
    BY DEF Partial
  <2> QED
    BY <2>1
<1>2. ASSUME NEW k \in T PROVE k + 1 \in T
  <2> SUFFICES ASSUME k + 1 <= W PROVE \E s : Partial(b, k + 1, s)
    OBVIOUS
  <2>1. k \in Nat /\ k <= W /\ k \in 0 .. W - 1
    BY WordFacts, SMT
  <2>2. PICK s : Partial(b, k, s)
    BY <2>1
  <2>3. 2^k \in Nat /\ b[k] \in {0, 1}
    BY <2>1, PlacePower DEF BitLists
  <2>4. b[k] * 2^k \in Nat
    BY <2>3, BitTerm
  <2> DEFINE u == [i \in 0 .. k + 1 |-> IF i = k + 1 THEN s[k] + (b[k] * 2^k) ELSE s[i]]
  <2>5. s[k] \in Nat
    BY <2>1, <2>2 DEF Partial
  <2>6. u \in [0 .. k + 1 -> Nat]
    <3>1. s[k] + (b[k] * 2^k) \in Nat
      BY <2>4, <2>5
    <3>2. \A i \in 0 .. k + 1 : i # k + 1 => s[i] \in Nat
      BY <2>1, <2>2 DEF Partial
    <3> QED
      BY <3>1, <3>2
  <2>7. u[0] = 0
    BY <2>1, <2>2 DEF Partial
  <2>8. ASSUME NEW i \in 0 .. (k + 1) - 1 PROVE u[i + 1] = u[i] + (b[i] * 2^i)
    <3>1. CASE i = k
      <4>1. u[k + 1] = s[k] + (b[k] * 2^k) /\ u[k] = s[k]
        BY <2>1
      <4> QED
        BY <3>1, <4>1
    <3>2. CASE i # k
      <4>1. i \in 0 .. k - 1 /\ i + 1 \in 0 .. k /\ i + 1 # k + 1 /\ i # k + 1 /\ i \in 0 .. k
        BY <2>1, <3>2
      <4>2. u[i + 1] = s[i + 1] /\ u[i] = s[i]
        BY <2>1, <4>1
      <4> QED
        BY <2>2, <4>1, <4>2 DEF Partial
    <3> QED
      BY <3>1, <3>2
  <2>9. Partial(b, k + 1, u)
    BY <2>6, <2>7, <2>8 DEF Partial
  <2> QED
    BY <2>9
<1>3. T = Nat
  <2>1. T \in SUBSET Nat
    OBVIOUS
  <2> HIDE DEF T
  <2> QED BY <1>1, <1>2, <2>1, InductionOnNat
<1>4. W \in Nat /\ W <= W
  BY WordFacts
<1>5. PICK s : Partial(b, W, s)
  BY <1>3, <1>4
<1> QED
  BY <1>5 DEF Sums

(* Induction up to a bound. *)
LEMMA InductionUpTo ==
  ASSUME NEW M \in Nat, NEW T \in SUBSET (0 .. M), 0 \in T, \A k \in T : k < M => k + 1 \in T
  PROVE  T = 0 .. M
<1> DEFINE E == {k \in Nat : k <= M => k \in T}
<1>1. 0 \in E
  OBVIOUS
<1>2. ASSUME NEW k \in E PROVE k + 1 \in E
  OBVIOUS
<1>3. E = Nat
  <2>1. E \in SUBSET Nat
    OBVIOUS
  <2> HIDE DEF E
  <2> QED BY <1>1, <1>2, <2>1, InductionOnNat
<1>4. ASSUME NEW k \in 0 .. M PROVE k \in T
  <2>1. k \in E /\ k <= M
    BY <1>3
  <2> QED
    BY <2>1
<1>5. 0 .. M \subseteq T
  BY <1>4
<1> QED
  BY <1>5

LEMMA SumStep ==
  ASSUME ArithmeticAssumption, NEW b \in BitLists, NEW s, Sums(b, s), NEW k \in 0 .. W - 1
  PROVE  /\ s[k] \in Nat /\ s[k + 1] \in Nat /\ b[k] \in {0, 1} /\ 2^k \in Nat /\ b[k] * 2^k \in Nat
         /\ s[k + 1] = s[k] + (b[k] * 2^k) /\ b[k] * 2^k = (IF b[k] = 0 THEN 0 ELSE 2^k)
<1>1. W \in Nat /\ k \in 0 .. W /\ k + 1 \in 0 .. W /\ 2^k \in Nat
  BY WordFacts, PlacePower
<1>2. b[k] \in {0, 1}
  BY DEF BitLists
<1>3. s[k] \in Nat /\ s[k + 1] \in Nat /\ s[k + 1] = s[k] + (b[k] * 2^k)
  BY <1>1 DEF Sums, Partial
<1> QED
  BY <1>1, <1>2, <1>3, BitTerm

LEMMA SumsBelow ==
  ASSUME ArithmeticAssumption, NEW b \in BitLists, NEW s, Sums(b, s)
  PROVE  \A k \in 0 .. W : s[k] \in Nat /\ s[k] < 2^k
<1> DEFINE T == {k \in 0 .. W : s[k] \in Nat /\ s[k] < 2^k}
<1>0. W \in Nat
  BY WordFacts
<1>1. 0 \in T
  <2>1. 2^0 = 1
    BY SMT
  <2> QED
    BY <1>0, <2>1 DEF Sums, Partial
<1>2. ASSUME NEW k \in T, k < W PROVE k + 1 \in T
  <2>1. k \in 0 .. W - 1 /\ k + 1 \in 0 .. W
    BY <1>0, <1>2
  <2>2. 2^(k + 1) = 2 * 2^k /\ 2^k \in Nat
    BY <2>1, PlacePower
  <2>3. /\ s[k] \in Nat /\ s[k + 1] \in Nat /\ b[k] * 2^k \in Nat
        /\ s[k + 1] = s[k] + (b[k] * 2^k) /\ b[k] * 2^k = (IF b[k] = 0 THEN 0 ELSE 2^k)
    BY <2>1, SumStep
  <2>4. s[k] < 2^k
    OBVIOUS
  <2>5. b[k] * 2^k <= 2^k
    BY <2>2, <2>3
  <2>6. \A p, q, t, u \in Nat : q < p /\ t <= p /\ u = q + t => u < 2 * p
    BY SMT
  <2>7. s[k + 1] < 2 * 2^k
    BY <2>2, <2>3, <2>4, <2>5, <2>6
  <2> QED
    BY <2>1, <2>2, <2>3, <2>7
<1>3. T = 0 .. W
  <2>1. T \in SUBSET (0 .. W)
    OBVIOUS
  <2> HIDE DEF T
  <2> QED BY <1>0, <1>1, <1>2, <2>1, InductionUpTo
<1> QED
  BY <1>3

LEMMA SumBits ==
  ASSUME ArithmeticAssumption, NEW b \in BitLists, NEW s, Sums(b, s), NEW j \in 0 .. W - 1
  PROVE  \A k \in 0 .. W : j < k => Bit(s[k], j) = b[j]
<1> DEFINE T == {k \in 0 .. W : j < k => Bit(s[k], j) = b[j]}
<1>0. W \in Nat /\ W <= 32 /\ j \in Nat
  BY WordFacts
<1>1. 0 \in T
  BY <1>0
<1>2. ASSUME NEW k \in T, k < W PROVE k + 1 \in T
  <2>1. k \in 0 .. W - 1 /\ k + 1 \in 0 .. W /\ k \in 0 .. W
    BY <1>0, <1>2
  <2>2. /\ s[k] \in Nat /\ s[k + 1] \in Nat /\ b[k] * 2^k \in Nat /\ b[k] \in {0, 1} /\ 2^k \in Nat
        /\ s[k + 1] = s[k] + (b[k] * 2^k)
    BY <2>1, SumStep
  <2> SUFFICES ASSUME j < k + 1 PROVE Bit(s[k + 1], j) = b[j]
    BY <2>1
  <2>3. CASE j = k
    <3>1. s[k] < 2^k
      BY <2>1, SumsBelow
    <3>2. 2^k > 0
      BY <2>1, PlacePower
    <3>3. b[k] * 2^k <= s[k + 1] /\ s[k + 1] < (b[k] * 2^k) + 2^k
      BY <2>2, <3>1
    <3>4. s[k + 1] \div 2^k = b[k]
      BY <2>2, <3>2, <3>3, QuotientIs
    <3>5. b[k] % 2 = b[k]
      BY <2>2
    <3> QED
      BY <2>3, <3>4, <3>5 DEF Bit
  <2>4. CASE j # k
    <3>1. j < k /\ Bit(s[k], j) = b[j]
      BY <1>0, <1>2, <2>1, <2>4
    <3> DEFINE i == (k - j) - 1
    <3>2. j \in 0..32 /\ i \in 0..31 /\ i + 1 \in 0..32 /\ k = j + (i + 1) /\ j + (i + 1) <= 32
      BY <1>0, <2>1, <3>1
    <3>3. 2^(i + 1) = 2 * 2^i /\ 2^i \in Nat
      BY <3>2, PowersAre
    <3>4. 2^(j + (i + 1)) = 2^j * 2^(i + 1)
      BY <3>2, PowerSplits
    <3>5. 2^j \in Nat /\ 2^j > 0
      BY PlacePower
    <3> HIDE DEF i
    <3> DEFINE m == b[k] * 2^i
    <3>6. m \in Int
      BY <2>2, <3>3, BitTerm
    <3>7. b[k] * 2^k = 2^j * (2 * m)
      <4>1. \A v, p, q \in Nat : v * (p * (2 * q)) = p * (2 * (v * q))
        BY SMT
      <4>2. 2^k = 2^j * (2 * 2^i)
        BY <3>2, <3>3, <3>4
      <4>3. b[k] \in Nat
        BY <2>2
      <4> QED
        BY <3>3, <3>5, <4>1, <4>2, <4>3
    <3> HIDE DEF m
    <3>8. s[k + 1] = s[k] - (2^j * (-(2 * m)))
      <4>1. \A p, q \in Int : p * (-q) = -(p * q)
        BY SMT
      <4>2. 2 * m \in Int /\ 2^j \in Int
        BY <3>5, <3>6
      <4>3. 2^j * (-(2 * m)) = -(2^j * (2 * m))
        BY <4>1, <4>2
      <4> QED
        BY <2>2, <3>7, <4>3
    <3>9. s[k + 1] \div 2^j = (s[k] \div 2^j) - (-(2 * m))
      <4>1. -(2 * m) \in Int /\ s[k] \in Int /\ 2^j \in Int
        BY <2>2, <3>5, <3>6
      <4> QED
        BY <3>5, <3>8, <4>1, ShiftedQuotient
    <3>10. s[k] \div 2^j \in Int
      BY <2>2, <3>5, QuotientBounds
    <3>11. \A p, q \in Int : (p - (-(2 * q))) % 2 = p % 2
      BY SMT
    <3>12. (s[k + 1] \div 2^j) % 2 = (s[k] \div 2^j) % 2
      BY <3>6, <3>9, <3>10, <3>11
    <3> QED
      BY <3>1, <3>12 DEF Bit
  <2> QED
    BY <2>3, <2>4
<1>3. T = 0 .. W
  <2>1. T \in SUBSET (0 .. W)
    OBVIOUS
  <2> HIDE DEF T
  <2> QED BY <1>0, <1>1, <1>2, <2>1, InductionUpTo
<1> QED
  BY <1>3

LEMMA BitOfNumber ==
  ASSUME ArithmeticAssumption, NEW x \in Int, NEW k \in 0 .. W - 1
  PROVE  Bit(x, k) \in {0, 1} /\ x \div 2^k \in Int
<1>1. 2^k \in Int /\ 2^k > 0
  BY PlacePower
<1>2. x \div 2^k \in Int
  BY <1>1, QuotientBounds
<1>3. \A q \in Int : q % 2 \in {0, 1}
  BY SMT
<1> QED
  BY <1>2, <1>3 DEF Bit

BitsOf(x) == [k \in 0 .. W - 1 |-> Bit(x, k)]

LEMMA BitsOfType ==
  ASSUME ArithmeticAssumption, NEW x \in Int
  PROVE  BitsOf(x) \in BitLists /\ \A k \in 0 .. W - 1 : BitsOf(x)[k] = Bit(x, k)
BY BitOfNumber DEF BitsOf, BitLists

\* A word is the sum of its bits.
LEMMA WordIsSum ==
  ASSUME ArithmeticAssumption, NEW x \in WordValues, NEW s, Sums(BitsOf(x), s)
  PROVE  s[W] = x
<1>0. W \in Nat /\ x \in Int /\ x \in Nat /\ x < Base /\ Base \in Nat
  BY WordFacts DEF WordValues
<1> DEFINE T == {k \in 0 .. W : x = ((x \div 2^k) * 2^k) + s[k]}
<1>b. BitsOf(x) \in BitLists
  BY <1>0, BitsOfType
<1>1. 0 \in T
  <2>1. 2^0 = 1
    BY SMT
  <2>2. x \div 1 = x
    BY <1>0, SMT
  <2>3. s[0] = 0
    BY DEF Sums, Partial
  <2> QED
    BY <1>0, <2>1, <2>2, <2>3
<1>2. ASSUME NEW k \in T, k < W PROVE k + 1 \in T
  <2>1. k \in 0 .. W - 1 /\ k + 1 \in 0 .. W /\ k \in 0 .. W
    BY <1>0, <1>2
  <2> DEFINE p == 2^k
             q == x \div p
             h == q \div 2
             r == q % 2
  <2>2. p \in Int /\ p > 0 /\ 2^(k + 1) = 2 * p
    BY <2>1, PlacePower
  <2>3. q \in Int /\ Bit(x, k) = r /\ BitsOf(x)[k] = r
    BY <1>0, <2>1, BitOfNumber, BitsOfType DEF Bit
  <2>4. s[k] \in Nat /\ s[k] < p
    BY <1>b, <2>1, SumsBelow
  <2>5. s[k + 1] = s[k] + (r * p) /\ s[k + 1] \in Nat
    BY <1>b, <2>1, <2>3, SumStep
  <2>6. x = (q * p) + s[k]
    BY <2>1
  <2> HIDE DEF q, p
  <2>7. h \in Int /\ r \in {0, 1} /\ q = (2 * h) + r
    BY <2>3, SMT
  <2> HIDE DEF h, r
  <2>8. q * p = (h * (2 * p)) + (r * p) /\ r * p \in Int /\ h * (2 * p) \in Int /\ r * p <= p
    <3>1. q * p = ((2 * h) * p) + (r * p)
      BY <2>2, <2>7, SMT
    <3>2. (2 * h) * p = h * (2 * p)
      BY <2>2, <2>7, SMT
    <3>3. r * p \in Int /\ r * p <= p /\ h * (2 * p) \in Int
      BY <2>2, <2>7, SMT
    <3> QED
      BY <3>1, <3>2, <3>3
  <2>9. x = (h * (2 * p)) + s[k + 1]
    BY <2>4, <2>5, <2>6, <2>8
  <2>10. s[k + 1] < 2 * p /\ 2 * p > 0 /\ 2 * p \in Int /\ s[k + 1] >= 0
    BY <2>2, <2>4, <2>5, <2>8
  <2>11. h * (2 * p) <= x /\ x < (h * (2 * p)) + (2 * p)
    BY <1>0, <2>5, <2>8, <2>9, <2>10
  <2>12. x \div (2 * p) = h
    BY <1>0, <2>7, <2>10, <2>11, QuotientIs
  <2> QED
    BY <2>1, <2>2, <2>9, <2>12
<1>3. T = 0 .. W
  <2>1. T \in SUBSET (0 .. W)
    OBVIOUS
  <2> HIDE DEF T
  <2> QED BY <1>0, <1>1, <1>2, <2>1, InductionUpTo
<1>4. W \in T
  BY <1>0, <1>3
<1>5. x = ((x \div Base) * Base) + s[W]
  BY <1>4 DEF Base
<1>6. x \div Base = 0
  <2>1. 0 * Base <= x /\ x < (0 * Base) + Base /\ Base > 0
    BY <1>0
  <2> QED
    BY <1>0, <2>1, QuotientIs
<1>7. s[W] \in Nat
  BY <1>0, <1>b, SumsBelow
<1> QED
  BY <1>0, <1>5, <1>6, <1>7

\* OfBits is such a sum.
LEMMA AndIsSum ==
  ASSUME ArithmeticAssumption, NEW x \in Int, NEW y \in Int
  PROVE  LET d == [k \in 0 .. W - 1 |-> Bit(x, k) * Bit(y, k)]
         IN d \in BitLists /\ \E s : Sums(d, s) /\ And(x, y) = s[W]
<1> DEFINE d == [k \in 0 .. W - 1 |-> Bit(x, k) * Bit(y, k)]
           Is(f) == f = [k \in 0 .. W |-> IF k = 0 THEN 0 ELSE f[k - 1] + ((Bit(x, k - 1) * Bit(y, k - 1)) * 2^(k - 1))]
<1>0. W \in Nat
  BY WordFacts
<1>1. d \in BitLists
  <2>1. ASSUME NEW k \in 0 .. W - 1 PROVE Bit(x, k) * Bit(y, k) \in {0, 1}
    <3>1. Bit(x, k) \in {0, 1} /\ Bit(y, k) \in {0, 1}
      BY BitOfNumber
    <3> QED
      BY <3>1
  <2> QED
    BY <2>1 DEF BitLists
<1>2. PICK u : Sums(d, u)
  BY <1>1, SumsExist
<1>3. Is(u)
  <2>1. u \in [0 .. W -> Nat] /\ u[0] = 0
    BY <1>2 DEF Sums, Partial
  <2>2. ASSUME NEW k \in 0 .. W, k # 0
        PROVE  u[k] = u[k - 1] + ((Bit(x, k - 1) * Bit(y, k - 1)) * 2^(k - 1))
    <3>1. k - 1 \in 0 .. W - 1 /\ (k - 1) + 1 = k
      BY <1>0, <2>2
    <3>2. u[(k - 1) + 1] = u[k - 1] + (d[k - 1] * 2^(k - 1))
      BY <1>2, <3>1 DEF Sums, Partial
    <3> QED
      BY <3>1, <3>2
  <2> QED
    BY <2>1, <2>2
<1> DEFINE s == CHOOSE f : Is(f)
<1>4. And(x, y) = s[W]
  BY DEF And, OfBits
<1>5. Is(s)
  <2> HIDE DEF Is
  <2> QED
    BY <1>3
<1> HIDE DEF s
<1>6. s[0] = 0 /\ \A k \in 0 .. W - 1 : s[k + 1] = s[k] + (d[k] * 2^k)
  <2>1. s[0] = 0
    BY <1>0, <1>5
  <2>2. ASSUME NEW k \in 0 .. W - 1 PROVE s[k + 1] = s[k] + (d[k] * 2^k)
    <3>1. k + 1 \in 0 .. W /\ k + 1 # 0 /\ (k + 1) - 1 = k
      BY <1>0
    <3> QED
      BY <1>5, <3>1
  <2> QED
    BY <2>1, <2>2
<1>7. \A k \in 0 .. W : s[k] = u[k]
  <2> DEFINE T == {k \in 0 .. W : s[k] = u[k]}
  <2>1. 0 \in T
    BY <1>0, <1>2, <1>6 DEF Sums, Partial
  <2>2. ASSUME NEW k \in T, k < W PROVE k + 1 \in T
    <3>1. k \in 0 .. W - 1 /\ k + 1 \in 0 .. W
      BY <1>0, <2>2
    <3>2. u[k + 1] = u[k] + (d[k] * 2^k)
      BY <1>1, <1>2, <3>1, SumStep
    <3> QED
      BY <1>6, <3>1, <3>2
  <2>3. T = 0 .. W
    <3>1. T \in SUBSET (0 .. W)
      OBVIOUS
    <3> HIDE DEF T
    <3> QED BY <1>0, <2>1, <2>2, <3>1, InductionUpTo
  <2> QED
    BY <2>3
<1>8. And(x, y) = u[W]
  BY <1>0, <1>4, <1>7
<1> QED
  BY <1>1, <1>2, <1>8

\* Sums of bits that are combined bit by bit.
LEMMA SumsCombine ==
  ASSUME ArithmeticAssumption, NEW a \in BitLists, NEW b \in BitLists, NEW d \in BitLists, NEW o \in BitLists,
         NEW sa, Sums(a, sa), NEW sb, Sums(b, sb), NEW sd, Sums(d, sd), NEW so, Sums(o, so),
         NEW m \in {1, 2}, \A k \in 0 .. W - 1 : o[k] = (a[k] + b[k]) - (m * d[k])
  PROVE  so[W] = (sa[W] + sb[W]) - (m * sd[W])
<1> DEFINE T == {k \in 0 .. W : so[k] = (sa[k] + sb[k]) - (m * sd[k])}
<1>0. W \in Nat
  BY WordFacts
<1>1. 0 \in T
  BY <1>0 DEF Sums, Partial
<1>2. ASSUME NEW k \in T, k < W PROVE k + 1 \in T
  <2>1. k \in 0 .. W - 1 /\ k + 1 \in 0 .. W
    BY <1>0, <1>2
  <2> DEFINE p == 2^k
             ta == a[k] * p
             tb == b[k] * p
             td == d[k] * p
             to == o[k] * p
  <2>2. /\ sa[k] \in Nat /\ sa[k + 1] = sa[k] + ta /\ ta \in Nat /\ ta = (IF a[k] = 0 THEN 0 ELSE p) /\ a[k] \in {0, 1}
        /\ sb[k] \in Nat /\ sb[k + 1] = sb[k] + tb /\ tb \in Nat /\ tb = (IF b[k] = 0 THEN 0 ELSE p) /\ b[k] \in {0, 1}
        /\ sd[k] \in Nat /\ sd[k + 1] = sd[k] + td /\ td \in Nat /\ td = (IF d[k] = 0 THEN 0 ELSE p) /\ d[k] \in {0, 1}
        /\ so[k] \in Nat /\ so[k + 1] = so[k] + to /\ to \in Nat /\ to = (IF o[k] = 0 THEN 0 ELSE p) /\ o[k] \in {0, 1}
        /\ p \in Nat
    BY <2>1, SumStep
  <2> HIDE DEF ta, tb, td, to, p
  <2>3. o[k] = (a[k] + b[k]) - (m * d[k])
    BY <2>1
  <2>4. to = (ta + tb) - (m * td)
    <3>1. CASE m = 1
      BY <2>2, <2>3, <3>1
    <3>2. CASE m = 2
      BY <2>2, <2>3, <3>2
    <3> QED
      BY <3>1, <3>2
  <2>5. so[k] = (sa[k] + sb[k]) - (m * sd[k])
    OBVIOUS
  <2>6. so[k + 1] = (sa[k + 1] + sb[k + 1]) - (m * sd[k + 1])
    <3>1. CASE m = 1
      BY <2>2, <2>4, <2>5, <3>1
    <3>2. CASE m = 2
      BY <2>2, <2>4, <2>5, <3>2
    <3> QED
      BY <3>1, <3>2
  <2> QED
    BY <2>1, <2>6
<1>3. T = 0 .. W
  <2>1. T \in SUBSET (0 .. W)
    OBVIOUS
  <2> HIDE DEF T
  <2> QED BY <1>0, <1>1, <1>2, <2>1, InductionUpTo
<1>4. W \in T
  BY <1>0, <1>3
<1> QED
  BY <1>4

\* A sum is a word, with these bits.
LEMMA SumIsWord ==
  ASSUME ArithmeticAssumption, NEW b \in BitLists, NEW s, Sums(b, s)
  PROVE  s[W] \in WordValues /\ \A k \in 0 .. W - 1 : Bit(s[W], k) = b[k]
<1>1. W \in 0 .. W /\ W \in Nat
  BY WordFacts
<1>2. s[W] \in Nat /\ s[W] < Base
  BY <1>1, SumsBelow DEF Base
<1>3. \A k \in 0 .. W - 1 : k < W
  BY <1>1
<1>4. \A k \in 0 .. W - 1 : Bit(s[W], k) = b[k]
  BY <1>1, <1>3, SumBits
<1>5. s[W] \in WordValues
  BY <1>2, WordFacts DEF WordValues
<1> QED
  BY <1>4, <1>5

\* Words with the same bits are the same.
LEMMA SameBits ==
  ASSUME ArithmeticAssumption, NEW x \in WordValues, NEW y \in WordValues,
         \A k \in 0 .. W - 1 : Bit(x, k) = Bit(y, k)
  PROVE  x = y
<1>1. BitsOf(x) = BitsOf(y)
  BY DEF BitsOf
<1>2. x \in Int /\ y \in Int
  BY Wraps
<1>3. BitsOf(x) \in BitLists
  BY <1>2, BitsOfType
<1>4. PICK s : Sums(BitsOf(x), s)
  BY <1>3, SumsExist
<1>5. s[W] = x
  BY <1>4, WordIsSum
<1>6. Sums(BitsOf(y), s)
  BY <1>1, <1>4
<1>7. s[W] = y
  BY <1>6, WordIsSum
<1> QED
  BY <1>5, <1>7

LEMMA AndIs ==
  ASSUME ArithmeticAssumption, NEW x \in Int, NEW y \in Int
  PROVE  /\ And(x, y) \in WordValues
         /\ \A k \in 0 .. W - 1 : Bit(And(x, y), k) = Bit(x, k) * Bit(y, k)
<1> DEFINE d == [k \in 0 .. W - 1 |-> Bit(x, k) * Bit(y, k)]
<1>1. d \in BitLists /\ \E s : Sums(d, s) /\ And(x, y) = s[W]
  BY AndIsSum
<1>2. \A k \in 0 .. W - 1 : d[k] = Bit(x, k) * Bit(y, k)
  OBVIOUS
<1> HIDE DEF d
<1>3. PICK s : Sums(d, s) /\ And(x, y) = s[W]
  BY <1>1
<1>4. s[W] \in WordValues /\ \A k \in 0 .. W - 1 : Bit(s[W], k) = d[k]
  BY <1>1, <1>3, SumIsWord
<1> QED
  BY <1>2, <1>3, <1>4

\* The number (x + y) - m * And(x, y) for two words.
LEMMA CombinedIs ==
  ASSUME ArithmeticAssumption, NEW x \in WordValues, NEW y \in WordValues, NEW m \in {1, 2}
  PROVE  LET v == (x + y) - (m * And(x, y))
         IN /\ v \in WordValues
            /\ \A k \in 0 .. W - 1 : Bit(v, k) = (Bit(x, k) + Bit(y, k)) - (m * (Bit(x, k) * Bit(y, k)))
<1> DEFINE v == (x + y) - (m * And(x, y))
           d == [k \in 0 .. W - 1 |-> Bit(x, k) * Bit(y, k)]
           o == [k \in 0 .. W - 1 |-> (Bit(x, k) + Bit(y, k)) - (m * (Bit(x, k) * Bit(y, k)))]
<1>1. x \in Int /\ y \in Int
  BY Wraps
<1>2. d \in BitLists /\ \E s : Sums(d, s) /\ And(x, y) = s[W]
  BY <1>1, AndIsSum
<1>3. PICK sd : Sums(d, sd) /\ And(x, y) = sd[W]
  BY <1>2
<1>4. BitsOf(x) \in BitLists /\ BitsOf(y) \in BitLists
  BY <1>1, BitsOfType
<1>5. PICK sx : Sums(BitsOf(x), sx)
  BY <1>4, SumsExist
<1>6. PICK sy : Sums(BitsOf(y), sy)
  BY <1>4, SumsExist
<1>7. sx[W] = x /\ sy[W] = y
  BY <1>5, <1>6, WordIsSum
<1>8. o \in BitLists
  <2>1. ASSUME NEW k \in 0 .. W - 1
        PROVE  (Bit(x, k) + Bit(y, k)) - (m * (Bit(x, k) * Bit(y, k))) \in {0, 1}
    <3>1. Bit(x, k) \in {0, 1} /\ Bit(y, k) \in {0, 1}
      BY <1>1, BitOfNumber
    <3>2. \A p, q \in {0, 1} : (p + q) - (m * (p * q)) \in {0, 1}
      BY SMT
    <3> QED
      BY <3>1, <3>2
  <2> QED
    BY <2>1 DEF BitLists
<1>9. PICK so : Sums(o, so)
  BY <1>8, SumsExist
<1>10. \A k \in 0 .. W - 1 : o[k] = (BitsOf(x)[k] + BitsOf(y)[k]) - (m * d[k])
  BY <1>1, BitsOfType
<1>11. \A k \in 0 .. W - 1 : o[k] = (Bit(x, k) + Bit(y, k)) - (m * (Bit(x, k) * Bit(y, k)))
  OBVIOUS
<1> HIDE DEF o, d
<1>12. so[W] = (sx[W] + sy[W]) - (m * sd[W])
  BY <1>2, <1>3, <1>4, <1>5, <1>6, <1>8, <1>9, <1>10, SumsCombine, SMTT(60)
<1>13. so[W] = v
  BY <1>3, <1>7, <1>12
<1>14. so[W] \in WordValues /\ \A k \in 0 .. W - 1 : Bit(so[W], k) = o[k]
  BY <1>8, <1>9, SumIsWord
<1> QED
  BY <1>11, <1>13, <1>14

LEMMA OrIs ==
  ASSUME ArithmeticAssumption, NEW x \in WordValues, NEW y \in WordValues
  PROVE  /\ Or(x, y) \in WordValues
         /\ \A k \in 0 .. W - 1 : Bit(Or(x, y), k) = (Bit(x, k) + Bit(y, k)) - (Bit(x, k) * Bit(y, k))
<1>1. And(x, y) \in Int
  BY Wraps, AndIs
<1>2. Or(x, y) = (x + y) - (1 * And(x, y))
  BY <1>1 DEF Or
<1>3. \A k \in 0 .. W - 1 : 1 * (Bit(x, k) * Bit(y, k)) = Bit(x, k) * Bit(y, k)
  <2>1. ASSUME NEW k \in 0 .. W - 1 PROVE 1 * (Bit(x, k) * Bit(y, k)) = Bit(x, k) * Bit(y, k)
    <3>1. Bit(x, k) \in {0, 1} /\ Bit(y, k) \in {0, 1}
      BY Wraps, BitOfNumber
    <3> QED
      BY <3>1
  <2> QED
    BY <2>1
<1>4. 1 \in {1, 2}
  OBVIOUS
<1>5. /\ Or(x, y) \in WordValues
      /\ \A k \in 0 .. W - 1 : Bit(Or(x, y), k) = (Bit(x, k) + Bit(y, k)) - (1 * (Bit(x, k) * Bit(y, k)))
  BY <1>2, <1>4, CombinedIs
<1> QED
  BY <1>3, <1>5

LEMMA XorIs ==
  ASSUME ArithmeticAssumption, NEW x \in WordValues, NEW y \in WordValues
  PROVE  /\ Xor(x, y) \in WordValues
         /\ \A k \in 0 .. W - 1 : Bit(Xor(x, y), k) = (Bit(x, k) + Bit(y, k)) - (2 * (Bit(x, k) * Bit(y, k)))
<1>1. Xor(x, y) = (x + y) - (2 * And(x, y))
  BY DEF Xor
<1>2. 2 \in {1, 2}
  OBVIOUS
<1> QED
  BY <1>1, <1>2, CombinedIs

\* The word of all ones.
LEMMA OnesAre ==
  ASSUME ArithmeticAssumption
  PROVE  Base - 1 \in WordValues /\ \A k \in 0 .. W - 1 : Bit(Base - 1, k) = 1
<1> DEFINE o == [k \in 0 .. W - 1 |-> 1]
<1>0. W \in Nat
  BY WordFacts
<1>1. o \in BitLists
  BY DEF BitLists
<1>2. PICK s : Sums(o, s)
  BY <1>1, SumsExist
<1> DEFINE T == {k \in 0 .. W : s[k] = 2^k - 1}
<1>3. 0 \in T
  <2>1. 2^0 = 1
    BY SMT
  <2> QED
    BY <1>0, <1>2, <2>1 DEF Sums, Partial
<1>4. ASSUME NEW k \in T, k < W PROVE k + 1 \in T
  <2>1. k \in 0 .. W - 1 /\ k + 1 \in 0 .. W
    BY <1>0, <1>4
  <2>2. 2^(k + 1) = 2 * 2^k /\ 2^k \in Nat
    BY <2>1, PlacePower
  <2>3. o[k] = 1
    BY <2>1
  <2>4. s[k + 1] = s[k] + (o[k] * 2^k) /\ o[k] * 2^k = (IF o[k] = 0 THEN 0 ELSE 2^k)
    BY <1>1, <1>2, <2>1, SumStep
  <2> QED
    BY <2>1, <2>2, <2>3, <2>4
<1>5. T = 0 .. W
  <2>1. T \in SUBSET (0 .. W)
    OBVIOUS
  <2> HIDE DEF T
  <2> QED BY <1>0, <1>3, <1>4, <2>1, InductionUpTo
<1>6. s[W] = Base - 1
  BY <1>0, <1>5 DEF Base
<1>7. \A k \in 0 .. W - 1 : o[k] = 1
  OBVIOUS
<1> HIDE DEF o
<1> QED
  BY <1>1, <1>2, <1>6, <1>7, SumIsWord

LEMMA NotIs ==
  ASSUME ArithmeticAssumption, NEW x \in WordValues
  PROVE  Not(x) \in WordValues /\ \A k \in 0 .. W - 1 : Bit(Not(x), k) = 1 - Bit(x, k)
<1> DEFINE ones == Base - 1
<1>1. ones \in WordValues /\ \A k \in 0 .. W - 1 : Bit(ones, k) = 1
  BY OnesAre
<1>2. x \in Int /\ ones \in Int /\ Base \in Int
  BY <1>1, Wraps, WordFacts
<1>3. Not(x) = ones - x
  BY DEF Not
<1> HIDE DEF ones
<1>4. ASSUME NEW k \in 0 .. W - 1 PROVE Bit(x, k) \in {0, 1}
  BY <1>2, BitOfNumber
<1>5. And(x, ones) = x
  <2>1. And(x, ones) \in WordValues /\ \A k \in 0 .. W - 1 : Bit(And(x, ones), k) = Bit(x, k) * Bit(ones, k)
    BY <1>2, AndIs
  <2>2. \A k \in 0 .. W - 1 : Bit(And(x, ones), k) = Bit(x, k)
    BY <1>1, <1>4, <2>1
  <2> QED
    BY <2>1, <2>2, SameBits
<1>6. Xor(x, ones) = Not(x)
  BY <1>2, <1>3, <1>5 DEF Xor
<1>7. /\ Xor(x, ones) \in WordValues
      /\ \A k \in 0 .. W - 1 : Bit(Xor(x, ones), k) = (Bit(x, k) + Bit(ones, k)) - (2 * (Bit(x, k) * Bit(ones, k)))
  BY <1>1, XorIs
<1>8. \A k \in 0 .. W - 1 : (Bit(x, k) + Bit(ones, k)) - (2 * (Bit(x, k) * Bit(ones, k))) = 1 - Bit(x, k)
  BY <1>1, <1>4
<1> QED
  BY <1>6, <1>7, <1>8

-----------------------------------------------------------------------------
(* What the steps of a handler leave of the machine. *)
LEMMA TickIs ==
  ASSUME NEW d \in Machines, NEW j \in Int
  PROVE  /\ Tick(d, j) \in Machines /\ Tick(d, j).P = d.P /\ Tick(d, j).psw = d.psw
         /\ Tick(d, j).mem = d.mem /\ Tick(d, j).exc = d.exc /\ Tick(d, j).pc = d.pc
BY DEF Tick, Machines

LEMMA Next2Is ==
  ASSUME NEW d \in Machines
  PROVE  /\ Next2(d) \in Machines /\ Next2(d).P = d.P /\ Next2(d).psw = d.psw
         /\ Next2(d).mem = d.mem /\ Next2(d).exc = d.exc
BY DEF Next2, Machines

LEMMA Next4Is ==
  ASSUME NEW d \in Machines
  PROVE  /\ Next4(d) \in Machines /\ Next4(d).P = d.P /\ Next4(d).psw = d.psw
         /\ Next4(d).mem = d.mem /\ Next4(d).exc = d.exc
BY DEF Next4, Machines

LEMMA AfterIs ==
  ASSUME NEW d \in Machines, NEW op \in LastOps
  PROVE  /\ After(d, op) \in Machines /\ After(d, op).P = d.P /\ After(d, op).psw = d.psw
         /\ After(d, op).mem = d.mem /\ After(d, op).exc = d.exc /\ After(d, op).pc = d.pc
BY DEF After, Machines

LEMMA ExceptionIs ==
  ASSUME NEW d \in Machines, NEW why \in Exceptions
  PROVE  /\ Exception(d, why) \in Machines /\ Exception(d, why).P = d.P /\ Exception(d, why).psw = d.psw
         /\ Exception(d, why).mem = d.mem /\ Exception(d, why).exc = why /\ Exception(d, why).pc = d.pc
BY DEF Exception, Machines

LEMMA PswIs ==
  ASSUME NEW d \in Machines, NEW psw \in Nat
  PROVE  LET e == [d EXCEPT !.psw = psw]
         IN e \in Machines /\ e.P = d.P /\ e.psw = psw /\ e.mem = d.mem /\ e.exc = d.exc /\ e.pc = d.pc
BY DEF Machines

LEMMA MemIs ==
  ASSUME NEW d \in Machines, NEW m \in [0 .. MemSize - 1 -> 0 .. Byte - 1]
  PROVE  LET e == [d EXCEPT !.mem = m]
         IN e \in Machines /\ e.P = d.P /\ e.psw = d.psw /\ e.mem = m /\ e.exc = d.exc /\ e.pc = d.pc
BY DEF Machines

LEMMA PREGIs ==
  ASSUME ArithmeticAssumption, NEW d \in Machines, NEW r \in Regs, NEW v \in Int
  PROVE  LET e == SetPREG(d, r, v)
         IN /\ e \in Machines /\ e.psw = d.psw /\ e.mem = d.mem /\ e.exc = d.exc /\ e.pc = d.pc
            /\ e.P[r] = v % Base /\ \A s \in Regs \ {r} : e.P[s] = d.P[s]
<1>1. v % Base \in WordValues
  BY Unwraps
<1>2. d.P \in [Regs -> WordValues]
  BY DEF Machines
<1> DEFINE F == [d.P EXCEPT ![r] = v % Base]
<1>3. F \in [Regs -> WordValues] /\ F[r] = v % Base /\ \A s \in Regs \ {r} : F[s] = d.P[s]
  BY <1>1, <1>2
<1>4. SetPREG(d, r, v) = [d EXCEPT !.P = F]
  BY DEF SetPREG
<1> HIDE DEF F
<1> QED
  BY <1>3, <1>4 DEF Machines

LEMMA EnteredIs ==
  ASSUME ArithmeticAssumption, was \in Machines
  PROVE  /\ Entered \in Machines /\ Entered.psw = was.psw /\ Entered.mem = was.mem /\ Entered.exc = was.exc
         /\ Entered.pc = was.pc /\ Entered.P[0] = 0 /\ \A s \in Regs \ {0} : Entered.P[s] = was.P[s]
         /\ \A s \in Regs : Entered.P[s] \in WordValues
<1>1. 0 \in WordValues /\ 0 \in Regs
  BY WordFacts DEF WordValues, ArithmeticAssumption
<1>2. was.P \in [Regs -> WordValues]
  BY DEF Machines
<1> DEFINE F == [was.P EXCEPT ![0] = 0]
<1>3. F \in [Regs -> WordValues] /\ F[0] = 0 /\ \A s \in Regs \ {0} : F[s] = was.P[s]
  BY <1>1, <1>2
<1>4. Entered = [was EXCEPT !.P = F]
  BY DEF Entered
<1> HIDE DEF F
<1> QED
  BY <1>3, <1>4 DEF Machines

\* The machine after the operand fetch of a handler.
LEMMA BegunIs ==
  ASSUME NEW d \in Machines, NEW j \in Int
  PROVE  LET two == Tick(Next2(d), j)  four == Tick(Next4(d), j)
         IN /\ two \in Machines /\ two.P = d.P /\ two.psw = d.psw /\ two.mem = d.mem /\ two.exc = d.exc
            /\ four \in Machines /\ four.P = d.P /\ four.psw = d.psw /\ four.mem = d.mem /\ four.exc = d.exc
BY Next2Is, Next4Is, TickIs

LEMMA FlaggedIs ==
  ASSUME ArithmeticAssumption, NEW d \in Machines, NEW v \in Int, NEW ov \in BOOLEAN, NEW cy \in BOOLEAN
  PROVE  LET e == Flagged(d, [v |-> v, ov |-> ov, cy |-> cy])
         IN /\ e \in Machines /\ e.P = d.P /\ e.mem = d.mem /\ e.exc = d.exc /\ e.pc = d.pc
            /\ SignsOf(e.psw, v) /\ OthersOf(e.psw, ov, cy)
<1> DEFINE F == Flags(d.psw, v, ov, cy)
           e == Flagged(d, [v |-> v, ov |-> ov, cy |-> cy])
<1>1. d.psw \in Nat /\ Top \in Int
  BY WordFacts DEF Machines
<1>2. F \in Nat /\ SignsOf(F, v) /\ OthersOf(F, ov, cy)
  BY <1>1, FlagsAre
<1>3. e = [d EXCEPT !.psw = F]
  BY DEF Flagged
<1> HIDE DEF F, e
<1>4. /\ e \in Machines /\ e.P = d.P /\ e.psw = F /\ e.mem = d.mem /\ e.exc = d.exc /\ e.pc = d.pc
  BY <1>2, <1>3, PswIs
<1> QED
  BY <1>2, <1>4 DEF e

-----------------------------------------------------------------------------
(* Sums and differences, with their carry and their overflow. *)
LEMMA SumIs ==
  ASSUME ArithmeticAssumption, NEW x \in WordValues, NEW y \in WordValues
  PROVE  \E v \in Int, ov \in BOOLEAN, cy \in BOOLEAN :
            /\ Sum(y, x) = [v |-> v, ov |-> ov, cy |-> cy]
            /\ v = (x + y) % Base
            /\ ov <=> ~InRange(Signed(x) + Signed(y))
            /\ cy <=> x + y >= Base
<1> DEFINE t == (y + x) % Base
           ov == Bit(y, W - 1) = Bit(x, W - 1) /\ Bit(y, W - 1) # Bit(t, W - 1)
           cy == t < y
<1>1. Sum(y, x) = [v |-> t, ov |-> ov, cy |-> cy]
  BY DEF Sum
<1>2. t \in WordValues /\ t \in Int /\ t = (x + y) % Base
  <2>1. y + x \in Int /\ x + y = y + x
    BY WordFacts DEF WordValues
  <2>2. t \in WordValues
    BY <2>1, Unwraps
  <2> QED
    BY <2>1, <2>2, Wraps
<1>3. ov \in BOOLEAN /\ cy \in BOOLEAN
  OBVIOUS
<1>4. ov <=> ((y >= Top <=> x >= Top) /\ ~(y >= Top <=> t >= Top))
  <2> HIDE DEF t
  <2>1. /\ Bit(y, W - 1) = (IF y >= Top THEN 1 ELSE 0) /\ Bit(x, W - 1) = (IF x >= Top THEN 1 ELSE 0)
        /\ Bit(t, W - 1) = (IF t >= Top THEN 1 ELSE 0)
    BY <1>2, TopBit
  <2> QED
    BY <2>1
<1>5. cy <=> t < y
  OBVIOUS
<1> HIDE DEF t, ov, cy
<1>6. ((y >= Top <=> x >= Top) /\ ~(y >= Top <=> t >= Top)) <=> ~InRange(Signed(x) + Signed(y))
  BY <1>2, Widths, SMT DEF WordValues, Signed, InRange
<1>7. t < y <=> x + y >= Base
  BY <1>2, Widths, SMT DEF WordValues
<1> QED
  BY <1>1, <1>2, <1>3, <1>4, <1>5, <1>6, <1>7

LEMMA DifferenceIs ==
  ASSUME ArithmeticAssumption, NEW x \in WordValues, NEW y \in WordValues
  PROVE  \E v \in Int, ov \in BOOLEAN, cy \in BOOLEAN :
            /\ Difference(y, x) = [v |-> v, ov |-> ov, cy |-> cy]
            /\ v = (y - x) % Base
            /\ ov <=> ~InRange(Signed(y) - Signed(x))
            /\ cy <=> y < x
<1> DEFINE t == (y - x) % Base
           ov == Bit(y, W - 1) # Bit(x, W - 1) /\ Bit(y, W - 1) # Bit(t, W - 1)
           cy == t > y
<1>1. Difference(y, x) = [v |-> t, ov |-> ov, cy |-> cy]
  BY DEF Difference
<1>2. t \in WordValues /\ t \in Int
  <2>1. y - x \in Int
    BY WordFacts DEF WordValues
  <2>2. t \in WordValues
    BY <2>1, Unwraps
  <2> QED
    BY <2>2, Wraps
<1>3. ov \in BOOLEAN /\ cy \in BOOLEAN
  OBVIOUS
<1>4. ov <=> (~(y >= Top <=> x >= Top) /\ ~(y >= Top <=> t >= Top))
  <2> HIDE DEF t
  <2>1. /\ Bit(y, W - 1) = (IF y >= Top THEN 1 ELSE 0) /\ Bit(x, W - 1) = (IF x >= Top THEN 1 ELSE 0)
        /\ Bit(t, W - 1) = (IF t >= Top THEN 1 ELSE 0)
    BY <1>2, TopBit
  <2> QED
    BY <2>1
<1>5. cy <=> t > y
  OBVIOUS
<1>a. t = (y - x) % Base
  OBVIOUS
<1> HIDE DEF t, ov, cy
<1>6. (~(y >= Top <=> x >= Top) /\ ~(y >= Top <=> t >= Top)) <=> ~InRange(Signed(y) - Signed(x))
  BY <1>2, <1>a, Widths, SMT DEF WordValues, Signed, InRange
<1>7. t > y <=> y < x
  BY <1>2, <1>a, Widths, SMT DEF WordValues
<1> QED
  BY <1>1, <1>2, <1>a, <1>3, <1>4, <1>5, <1>6, <1>7

LEMMA SignZeroIs ==
  ASSUME NEW v \in Int, NEW t \in Int, v = t % Base, SignsOf(c.psw, v)
  PROVE  SignZero(t)
BY DEF SignsOf, SignZero, IsFlag

LEMMA AddResult ==
  ASSUME ArithmeticAssumption, NEW d \in Machines, NEW r \in Regs, NEW x \in WordValues, NEW y \in WordValues,
         c = SetPREG(Flagged(d, Sum(y, x)), r, Sum(y, x).v), job.r2 = r
  PROVE  Added(x, y)
<1>1. PICK v \in Int, ov \in BOOLEAN, cy \in BOOLEAN :
            /\ Sum(y, x) = [v |-> v, ov |-> ov, cy |-> cy]
            /\ v = (x + y) % Base
            /\ ov <=> ~InRange(Signed(x) + Signed(y))
            /\ cy <=> x + y >= Base
  BY SumIs
<1>2. x + y \in Int
  BY Wraps
<1> DEFINE e == Flagged(d, Sum(y, x))
<1>3. e \in Machines /\ SignsOf(e.psw, v) /\ OthersOf(e.psw, ov, cy)
  BY <1>1, FlaggedIs
<1>4. c = SetPREG(e, r, v)
  BY <1>1
<1> HIDE DEF e
<1>5. c.psw = e.psw /\ c.P[r] = v % Base
  BY <1>3, <1>4, PREGIs
<1>6. c.P[job.r2] = (x + y) % Base
  BY <1>1, <1>2, <1>5, Unwraps
<1>7. SignZero(x + y)
  BY <1>1, <1>2, <1>3, <1>5, SignZeroIs
<1>8. IsFlag(CY) <=> x + y >= Base
  BY <1>1, <1>3, <1>5 DEF OthersOf, IsFlag
<1>9. IsFlag(OV) <=> ~InRange(Signed(x) + Signed(y))
  BY <1>1, <1>3, <1>5 DEF OthersOf, IsFlag
<1>10. IsFlag(CY) \in BOOLEAN /\ IsFlag(OV) \in BOOLEAN /\ (~InRange(Signed(x) + Signed(y))) \in BOOLEAN
  BY DEF IsFlag, InRange
<1> QED
  BY <1>6, <1>7, <1>8, <1>9, <1>10 DEF Added

LEMMA CompareResult ==
  ASSUME ArithmeticAssumption, NEW d \in Machines, NEW x \in WordValues, NEW y \in WordValues,
         c.psw = Flagged(d, Difference(y, x)).psw
  PROVE  Compared(x, y)
<1>1. PICK v \in Int, ov \in BOOLEAN, cy \in BOOLEAN :
            /\ Difference(y, x) = [v |-> v, ov |-> ov, cy |-> cy]
            /\ v = (y - x) % Base
            /\ ov <=> ~InRange(Signed(y) - Signed(x))
            /\ cy <=> y < x
  BY DifferenceIs
<1>2. x \in Int /\ y \in Int /\ y - x \in Int /\ Signed(x) \in Int /\ Signed(y) \in Int
  BY Wraps
<1> DEFINE e == Flagged(d, Difference(y, x))
<1>3. e \in Machines /\ SignsOf(e.psw, v) /\ OthersOf(e.psw, ov, cy)
  BY <1>1, FlaggedIs
<1>4. c.psw = e.psw
  OBVIOUS
<1> HIDE DEF e
<1>5. c.psw \in Nat /\ SignsOf(c.psw, v) /\ OthersOf(c.psw, ov, cy)
  BY <1>3, <1>4 DEF Machines
<1>6. SignZero(y - x)
  BY <1>1, <1>2, <1>5, SignZeroIs
<1>7. IsFlag(OV) = ~InRange(Signed(y) - Signed(x))
  <2>1. IsFlag(OV) <=> ~InRange(Signed(y) - Signed(x))
    BY <1>1, <1>5 DEF OthersOf, IsFlag
  <2>2. IsFlag(OV) \in BOOLEAN /\ (~InRange(Signed(y) - Signed(x))) \in BOOLEAN
    BY DEF IsFlag, InRange
  <2> QED
    BY <2>1, <2>2
\* A difference that wraps has the wrong sign.
<1>8. /\ v = 0 <=> y = x
      /\ (v >= Top <=> ~ov) <=> Signed(y) < Signed(x)
      /\ Signed(y) = Signed(x) <=> y = x
  <2>1. /\ v = 0 <=> y = x
        /\ Signed(y) = Signed(x) <=> y = x
    BY <1>1, Widths, SMT DEF WordValues, Signed
  <2>2. CASE InRange(Signed(y) - Signed(x))
    <3>1. v >= Top <=> Signed(y) < Signed(x)
      BY <1>1, <2>2, Widths, SMT DEF WordValues, Signed, InRange
    <3> QED
      BY <1>1, <2>1, <2>2, <3>1
  <2>3. CASE ~InRange(Signed(y) - Signed(x))
    <3>1. ~(v >= Top) <=> Signed(y) < Signed(x)
      BY <1>1, <2>3, Widths, SMT DEF WordValues, Signed, InRange
    <3> QED
      BY <1>1, <2>1, <2>3, <3>1
  <2> QED
    BY <2>2, <2>3
<1>9. S \in 0..3 /\ OV \in 0..3
  BY SMT DEF S, OV
<1>10. /\ Bit(c.psw, S) = 0 \/ Bit(c.psw, S) = 1
       /\ Bit(c.psw, OV) = 0 \/ Bit(c.psw, OV) = 1
  BY <1>5, <1>9, BitIs
<1>11. /\ Bit(c.psw, Z) = 1 <=> y = x
       /\ Bit(c.psw, CY) = 1 <=> y < x
       /\ Bit(c.psw, S) # Bit(c.psw, OV) <=> Signed(y) < Signed(x)
  BY <1>1, <1>5, <1>8, <1>10 DEF SignsOf, OthersOf
<1>12. /\ TestCond(c.psw, 1) = (y < x)
       /\ TestCond(c.psw, 3) = (y <= x)
       /\ TestCond(c.psw, 6) = (Signed(y) < Signed(x))
       /\ TestCond(c.psw, 15) = (Signed(y) > Signed(x))
  BY <1>2, <1>5, <1>8, <1>11, ConditionsAre
<1> QED
  BY <1>6, <1>7, <1>12 DEF Compared

-----------------------------------------------------------------------------
(* Shifts. *)
\* The two powers that a shift count splits the width into.
LEMMA WidthSplits ==
  ASSUME ArithmeticAssumption, NEW j \in 0..W
  PROVE  2^j \in Nat /\ 2^j > 0 /\ 2^(W - j) \in Nat /\ 2^(W - j) > 0 /\ 2^j * 2^(W - j) = Base
<1>1. j \in 0..32 /\ W - j \in 0..32 /\ W \in 0..32
  BY Widths, SMT
<1>2. Powers[j] = 2^j /\ Powers[W - j] = 2^(W - j) /\ Powers[W] = Base
  BY <1>1, PowerAt, Zenon DEF Base
<1>3. /\ Powers[j] \in Nat /\ Powers[j] > 0 /\ Powers[W - j] \in Nat /\ Powers[W - j] > 0
      /\ Powers[j] * Powers[W - j] = Powers[W]
  <2>1. CASE W = 8
    BY <1>1, <2>1, Places, PowerList, SMT
  <2>2. CASE W = 12
    BY <1>1, <2>2, Places, PowerList, SMT
  <2>3. CASE W = 16
    BY <1>1, <2>3, Places, PowerList, SMT
  <2>4. CASE W = 32
    BY <1>1, <2>4, Places, PowerList, SMT
  <2> QED
    BY <2>1, <2>2, <2>3, <2>4, Widths
<1> QED
  BY <1>2, <1>3, Zenon

LEMMA LeftShiftIs ==
  ASSUME ArithmeticAssumption, NEW y \in WordValues, NEW j \in 0 .. W - 1
  PROVE  \E v \in Int, cy \in BOOLEAN :
            /\ Shifted("SHL", y, j) = [v |-> v, ov |-> FALSE, cy |-> cy]
            /\ y * 2^j \in Int /\ v = (y * 2^j) % Base
            /\ cy <=> (j > 0 /\ ((y * 2^j) \div Base) % 2 = 1)
<1> DEFINE v == (y * 2^j) % Base
           cy == j # 0 /\ Bit(y, W - j) = 1
<1>1. j \in 0..W /\ y \in Int
  BY WordFacts, Wraps
<1>2. 2^j \in Nat /\ 2^j > 0 /\ 2^(W - j) \in Nat /\ 2^(W - j) > 0 /\ 2^j * 2^(W - j) = Base
  BY <1>1, WidthSplits
<1>3. y * 2^j \in Int
  BY <1>1, <1>2, SMT
<1>4. v \in Int
  BY <1>3, Unwraps, Wraps
<1>5. (y * 2^j) \div Base = y \div 2^(W - j)
  <2> DEFINE p == 2^j
             q == 2^(W - j)
  <2>1. p \in Int /\ q \in Int /\ p > 0 /\ q > 0 /\ p * q = Base
    BY <1>2, SMT
  <2> HIDE DEF p, q
  <2>2. (y * p) \div Base = y \div q
    BY <1>1, <2>1, ScaledQuotient
  <2> QED
    BY <2>2 DEF p, q
<1>6. cy <=> (j > 0 /\ ((y * 2^j) \div Base) % 2 = 1)
  BY <1>5 DEF Bit
<1>7. Shifted("SHL", y, j) = [v |-> v, ov |-> FALSE, cy |-> cy]
  BY DEF Shifted
<1>8. cy \in BOOLEAN
  OBVIOUS
<1> HIDE DEF cy
<1> QED
  BY <1>3, <1>4, <1>6, <1>7, <1>8

LEMMA RightShiftIs ==
  ASSUME ArithmeticAssumption, NEW y \in WordValues, NEW j \in 0 .. W - 1
  PROVE  \E v \in Int, cy \in BOOLEAN :
            /\ Shifted("SHR", y, j) = [v |-> v, ov |-> FALSE, cy |-> cy]
            /\ y \div 2^j \in Int /\ v = (y \div 2^j) % Base
            /\ cy <=> (j > 0 /\ (y \div 2^(j - 1)) % 2 = 1)
<1> DEFINE v == y \div 2^j
           cy == j # 0 /\ Bit(y, j - 1) = 1
<1>1. j \in 0..31 /\ y \in Int /\ 0 <= y /\ y < Base
  <2>1. j \in 0..31
    BY Widths, SMT
  <2> QED
    BY <2>1, Widths, SMT DEF WordValues
<1>2. 2^j \in Nat /\ 2^j > 0
  BY <1>1, PowersAre
<1>3. v \in Int /\ 0 <= v /\ v < Base
  <2> DEFINE p == 2^j
  <2>1. p \in Int /\ p > 0
    BY <1>2, SMT
  <2> HIDE DEF p
  <2>2. y \div p \in Int /\ (y \div p) * p <= y /\ y < ((y \div p) * p) + p
    BY <1>1, <2>1, QuotientBounds
  <2>3. 0 <= y \div p /\ y \div p <= y
    BY <1>1, <2>1, <2>2, SMT
  <2> QED
    BY <1>1, <2>2, <2>3, WordFacts DEF p
<1>4. v = v % Base
  BY <1>3, Unwraps
<1>5. cy <=> (j > 0 /\ (y \div 2^(j - 1)) % 2 = 1)
  BY DEF Bit
<1>6. Shifted("SHR", y, j) = [v |-> v, ov |-> FALSE, cy |-> cy]
  BY DEF Shifted
<1>7. cy \in BOOLEAN
  OBVIOUS
<1> HIDE DEF cy
<1> QED
  BY <1>3, <1>4, <1>5, <1>6, <1>7

\* The sign that is shifted in is above the last bit that is shifted out.
LEMMA ArithmeticShiftIs ==
  ASSUME ArithmeticAssumption, NEW y \in WordValues, NEW j \in 0 .. W - 1
  PROVE  \E v \in Int, cy \in BOOLEAN :
            /\ Shifted("SAR", y, j) = [v |-> v, ov |-> FALSE, cy |-> cy]
            /\ Signed(y) \div 2^j \in Int /\ v = (Signed(y) \div 2^j) % Base
            /\ cy <=> (j > 0 /\ (Signed(y) \div 2^(j - 1)) % 2 = 1)
<1> DEFINE v == (Signed(y) \div 2^j) % Base
           cy == j # 0 /\ Bit(y, j - 1) = 1
<1>1. j \in 0..31 /\ j \in 0..W /\ y \in Int /\ Signed(y) \in Int
  <2>1. j \in 0..31 /\ j \in 0..W
    BY Widths, SMT
  <2> QED
    BY <2>1, Wraps
<1>2. 2^j \in Nat /\ 2^j > 0
  BY <1>1, PowersAre
<1>3. Signed(y) \div 2^j \in Int
  BY <1>1, <1>2, SMT
<1>4. v \in Int
  BY <1>3, Unwraps, Wraps
<1>5. ASSUME j > 0
      PROVE  (y \div 2^(j - 1)) % 2 = (Signed(y) \div 2^(j - 1)) % 2
  <2> DEFINE p == 2^(j - 1)
             q == 2^(W - j)
  <2>1. j - 1 \in 0..31 /\ (j - 1) + 1 = j
    BY <1>1, <1>5
  <2>2. p \in Nat /\ p > 0 /\ 2^j = 2 * p
    BY <2>1, PowersAre
  <2>3. q \in Nat /\ 2^j * q = Base
    BY <1>1, WidthSplits
  <2>4. (2 * p) * q = Base
    BY <2>2, <2>3
  <2> HIDE DEF p, q
  <2>5. p * (2 * q) = Base
    BY <2>2, <2>3, <2>4, SMT
  <2>6. (y - Base) \div p = (y \div p) - (2 * q)
    <3>1. 2 * q \in Int /\ p \in Int
      BY <2>2, <2>3
    <3>2. (y - (p * (2 * q))) \div p = (y \div p) - (2 * q)
      BY <1>1, <2>2, <3>1, ShiftedQuotient
    <3> QED
      BY <2>5, <3>2
  <2>7. y \div p \in Int
    BY <1>1, <2>2, SMT
  <2>8. ((y \div p) - (2 * q)) % 2 = (y \div p) % 2
    <3> DEFINE k == y \div p
    <3>1. k \in Int
      BY <2>7
    <3> HIDE DEF k
    <3>2. (k - (2 * q)) % 2 = k % 2
      BY <2>3, <3>1, SMT
    <3> QED
      BY <3>2 DEF k
  <2>9. Signed(y) = y \/ Signed(y) = y - Base
    BY DEF Signed
  <2>10. (y \div p) % 2 = (Signed(y) \div p) % 2
    BY <2>6, <2>8, <2>9
  <2> QED
    BY <2>10 DEF p
<1>6. cy <=> (j > 0 /\ (Signed(y) \div 2^(j - 1)) % 2 = 1)
  BY <1>5 DEF Bit
<1>7. Shifted("SAR", y, j) = [v |-> v, ov |-> FALSE, cy |-> cy]
  BY DEF Shifted
<1>8. cy \in BOOLEAN
  OBVIOUS
<1> HIDE DEF cy
<1> QED
  BY <1>3, <1>4, <1>6, <1>7, <1>8

\* A shift whose exact value is t.
LEMMA ShiftResult ==
  ASSUME ArithmeticAssumption, NEW d \in Machines, NEW r \in Regs, NEW t \in Int, NEW v \in Int,
         NEW cy \in BOOLEAN, v = t % Base, job.r2 = r,
         c = SetPREG(Flagged(d, [v |-> v, ov |-> FALSE, cy |-> cy]), r, v)
  PROVE  c.P[job.r2] = t % Base /\ SignZero(t) /\ ~IsFlag(OV) /\ (IsFlag(CY) <=> cy)
<1> DEFINE e == Flagged(d, [v |-> v, ov |-> FALSE, cy |-> cy])
<1>1. e \in Machines /\ SignsOf(e.psw, v) /\ OthersOf(e.psw, FALSE, cy)
  BY FlaggedIs
<1> HIDE DEF e
<1>2. c.psw = e.psw /\ c.P[r] = v % Base
  BY <1>1, PREGIs DEF e
<1>3. c.P[job.r2] = t % Base
  BY <1>2, Unwraps
<1>4. SignZero(t)
  BY <1>1, <1>2, SignZeroIs
<1> QED
  BY <1>1, <1>2, <1>3, <1>4 DEF OthersOf, IsFlag

-----------------------------------------------------------------------------
(* One instruction. *)
Plain == After(Entered, "other")

LEMMA PlainIs ==
  ASSUME ArithmeticAssumption, was \in Machines
  PROVE  /\ Plain \in Machines /\ Plain.P = Entered.P /\ Plain.psw = was.psw /\ Plain.mem = was.mem
         /\ Plain.exc = was.exc /\ Plain.pc = was.pc
<1>1. Entered \in Machines /\ Entered.psw = was.psw /\ Entered.mem = was.mem /\ Entered.exc = was.exc /\ Entered.pc = was.pc
  BY EnteredIs
<1>2. "other" \in LastOps
  BY SMTT(60) DEF LastOps
<1> QED
  BY <1>1, <1>2, AfterIs, Zenon DEF Plain

LEMMA Dispatched ==
  ASSUME c = Execute(was, job)
  PROVE  /\ job.op \in AddSubs => c = AddSub(Plain, job)
         /\ job.op \in Shifts => c = Shift(Plain, job)
         /\ job.op = "ADD_I" => c = ADD_I(Plain, job)
         /\ job.op = "CMP_I" => c = CMP_I(Plain, job)
         /\ job.op \in Shifts_I => c = Shift_I(Plain, job)
         /\ job.op \in Logics => c = Logic(Plain, job)
         /\ job.op \in Longs => c = Long(Plain, job)
         /\ job.op = "CAXI" => c = CAXI(Plain, job)
         /\ job.op \in {"MUL", "MULU"} => c = Multiply(Entered, job)
         /\ job.op = "DIVU" => c = DIVU(Entered, job)
         /\ job.op = "DIV" => c = DIV(Entered, job)
BY ZenonT(60) DEF Execute, Plain, Entered, AddSubs, Shifts, Logics, Shifts_I, Longs, Ins, Outs

LEMMA ExtendIs ==
  ASSUME ArithmeticAssumption, NEW x \in Int, NEW j \in {ImmBits, W \div 2}
  PROVE  Extend(x, j) \in WordValues
<1>1. j \in 0..W
  BY Widths, SMT DEF ArithmeticAssumption, AluAssumption
<1>2. 2^j \in Nat /\ 2^j > 0
  BY <1>1, WidthSplits
<1> DEFINE y == x % 2^j
           t == IF y >= 2^(j - 1) THEN y - 2^j ELSE y
<1>3. t \in Int
  BY <1>2, SMT
<1>4. Extend(x, j) = t % Base
  BY DEF Extend
<1> HIDE DEF t
<1> QED
  BY <1>3, <1>4, Unwraps

LEMMA OperandsAre ==
  ASSUME ArithmeticAssumption, was \in Machines, job \in Instructions, job.op # "BCOND"
  PROVE  /\ job.r1 \in Regs /\ job.r2 \in Regs /\ job.imm \in Int
         /\ Entered.P[job.r1] \in WordValues /\ Entered.P[job.r2] \in WordValues
         /\ Source \in WordValues /\ Target \in WordValues
         /\ Count \in 0 .. W - 1
<1>1. job.r1 \in Regs /\ job.r2 \in Regs /\ job.imm \in Int
  BY DEF Instructions
<1>2. Entered.P[job.r1] \in WordValues /\ Entered.P[job.r2] \in WordValues
  BY <1>1, EnteredIs
<1>3. Extend(job.imm, ImmBits) \in WordValues /\ Extend(job.imm, W \div 2) \in WordValues
  BY <1>1, ExtendIs
<1>4. Source \in WordValues
  <2>1. job.op \in {"ORI", "ANDI", "XORI"} => job.imm \in WordValues
    <3>1. 0 .. Half - 1 \subseteq WordValues
      BY Widths, SMT DEF WordValues
    <3> QED
      BY <3>1 DEF Instructions, Longs
  <2> QED
    BY <1>2, <1>3, <2>1 DEF Source
<1>5. Target \in WordValues
  BY <1>2 DEF Target
<1>6. Count \in 0 .. W - 1
  <2> DEFINE j == IF job.op \in Shifts_I THEN job.imm ELSE Entered.P[job.r1]
  <2>1. j \in Int
    BY <1>1, <1>2, Wraps
  <2>2. Count = j % W
    BY DEF Count
  <2> HIDE DEF j
  <2> QED
    BY <2>1, <2>2, Widths, SMT
<1> QED
  BY <1>1, <1>2, <1>4, <1>5, <1>6

\* Where a handler of a two-byte and of a four-byte format goes on from.
LEMMA FetchedIs ==
  ASSUME ArithmeticAssumption, was \in Machines, NEW j \in Int
  PROVE  LET two == Tick(Next2(Plain), j)  four == Tick(Next4(Plain), j)
         IN /\ two \in Machines /\ two.P = Entered.P /\ four \in Machines /\ four.P = Entered.P
            /\ four.mem = was.mem
BY PlainIs, BegunIs

LEMMA SumsExact ==
  ASSUME ArithmeticAssumption, was \in Machines, job \in Instructions, c = Execute(was, job),
         job.op \in {"ADD", "ADD_I", "ADDI"}
  PROVE  Added(Source, Target)
<1>1. /\ job.r1 \in Regs /\ job.r2 \in Regs /\ Source \in WordValues /\ Target \in WordValues
  BY OperandsAre
<1>2. Plain.P = Entered.P
  BY PlainIs
<1> DEFINE two == Tick(Next2(Plain), 1)
           four == Tick(Next4(Plain), 1)
<1>3. two \in Machines /\ four \in Machines
  BY FetchedIs
<1>4. CASE job.op = "ADD"
  <2>1. c = AddSub(Plain, job)
    BY <1>4, Dispatched DEF AddSubs
  <2>2. Source = Entered.P[job.r1] /\ Target = Entered.P[job.r2]
    BY <1>4 DEF Source, Target, Imm5Ops, Shifts_I, Longs
  <2>3. c = SetPREG(Flagged(two, Sum(Target, Source)), job.r2, Sum(Target, Source).v)
    BY <1>2, <1>4, <2>1, <2>2 DEF AddSub
  <2> QED
    BY <1>1, <1>3, <2>3, AddResult
<1>5. CASE job.op = "ADD_I"
  <2>1. c = ADD_I(Plain, job)
    BY <1>5, Dispatched
  <2>2. Source = Extend(job.imm, ImmBits) /\ Target = Entered.P[job.r2]
    BY <1>5 DEF Source, Target, Imm5Ops, Longs
  <2>3. c = SetPREG(Flagged(two, Sum(Target, Source)), job.r2, Sum(Target, Source).v)
    BY <1>2, <2>1, <2>2 DEF ADD_I
  <2> QED
    BY <1>1, <1>3, <2>3, AddResult
<1>6. CASE job.op = "ADDI"
  <2>1. c = Long(Plain, job)
    BY <1>6, Dispatched DEF Longs
  <2>2. Source = Extend(job.imm, W \div 2) /\ Target = Entered.P[job.r1]
    BY <1>6 DEF Source, Target, Imm5Ops, Shifts_I, Longs
  <2>3. c = SetPREG(Flagged(four, Sum(Target, Source)), job.r2, (Target + Source) % Base)
    BY <1>2, <1>6, <2>1, <2>2 DEF Long
  <2>4. Sum(Target, Source).v = (Target + Source) % Base
    BY DEF Sum
  <2>5. c = SetPREG(Flagged(four, Sum(Target, Source)), job.r2, Sum(Target, Source).v)
    BY <2>3, <2>4
  <2> QED
    BY <1>1, <1>3, <2>5, AddResult
<1> QED
  BY <1>4, <1>5, <1>6

LEMMA RegsKept ==
  ASSUME ArithmeticAssumption, was \in Machines, c.P = Entered.P
  PROVE  SameRegs
<1>1. \A r \in Regs \ {0} : Entered.P[r] = was.P[r]
  BY EnteredIs
<1> QED
  BY <1>1 DEF SameRegs, Kept

\* The difference that a comparison leaves in no register.
LEMMA FlaggedOnly ==
  ASSUME ArithmeticAssumption, NEW d \in Machines, NEW x \in WordValues, NEW y \in WordValues
  PROVE  /\ Flagged(d, Difference(y, x)) \in Machines
         /\ Flagged(d, Difference(y, x)).P = d.P /\ Flagged(d, Difference(y, x)).mem = d.mem
         /\ Difference(y, x).v = (y - x) % Base /\ Difference(y, x).v \in WordValues
<1>1. PICK v \in Int, ov \in BOOLEAN, cy \in BOOLEAN :
            /\ Difference(y, x) = [v |-> v, ov |-> ov, cy |-> cy]
            /\ v = (y - x) % Base
  BY DifferenceIs
<1>2. y - x \in Int
  BY Wraps
<1> QED
  BY <1>1, <1>2, FlaggedIs, Unwraps

LEMMA ComparisonsExact ==
  ASSUME ArithmeticAssumption, was \in Machines, job \in Instructions, c = Execute(was, job),
         job.op \in {"SUB", "CMP", "CMP_I"}
  PROVE  /\ Compared(Source, Target)
         /\ job.op = "SUB" => c.P[job.r2] = (Target - Source) % Base
         /\ job.op # "SUB" => SameRegs
<1>1. /\ job.r1 \in Regs /\ job.r2 \in Regs /\ Source \in WordValues /\ Target \in WordValues
  BY OperandsAre
<1>2. Plain.P = Entered.P
  BY PlainIs
<1> DEFINE two == Tick(Next2(Plain), 1)
           e == Flagged(two, Difference(Target, Source))
<1>3. two \in Machines /\ two.P = Entered.P
  BY FetchedIs
<1>4. /\ e \in Machines /\ e.P = Entered.P
      /\ Difference(Target, Source).v = (Target - Source) % Base /\ Difference(Target, Source).v \in WordValues
  BY <1>1, <1>3, FlaggedOnly
<1>5. CASE job.op = "SUB"
  <2>1. c = AddSub(Plain, job)
    BY <1>5, Dispatched DEF AddSubs
  <2>2. Source = Entered.P[job.r1] /\ Target = Entered.P[job.r2]
    BY <1>5 DEF Source, Target, Imm5Ops, Shifts_I, Longs
  <2>3. c = SetPREG(e, job.r2, Difference(Target, Source).v)
    BY <1>2, <1>5, <2>1, <2>2 DEF AddSub
  <2> HIDE DEF e
  <2>4. Difference(Target, Source).v \in Int /\ Difference(Target, Source).v % Base = Difference(Target, Source).v
    BY <1>4, Wraps
  <2>5. c.psw = e.psw /\ c.P[job.r2] = Difference(Target, Source).v
    BY <1>1, <1>4, <2>3, <2>4, PREGIs
  <2>6. c.psw = Flagged(two, Difference(Target, Source)).psw
    BY <2>5 DEF e
  <2> QED
    BY <1>1, <1>3, <1>4, <1>5, <2>5, <2>6, CompareResult
<1>6. CASE job.op = "CMP"
  <2>1. c = AddSub(Plain, job)
    BY <1>6, Dispatched DEF AddSubs
  <2>2. Source = Entered.P[job.r1] /\ Target = Entered.P[job.r2]
    BY <1>6 DEF Source, Target, Imm5Ops, Shifts_I, Longs
  <2>3. c = e
    BY <1>2, <1>6, <2>1, <2>2 DEF AddSub
  <2>4. Compared(Source, Target)
    BY <1>1, <1>3, <2>3, CompareResult
  <2>5. SameRegs
    BY <1>4, <2>3, RegsKept
  <2> QED
    BY <1>6, <2>4, <2>5
<1>7. CASE job.op = "CMP_I"
  <2>1. c = CMP_I(Plain, job)
    BY <1>7, Dispatched
  <2>2. Source = Extend(job.imm, ImmBits) /\ Target = Entered.P[job.r2]
    BY <1>7 DEF Source, Target, Imm5Ops, Longs
  <2>3. c = e
    BY <1>2, <2>1, <2>2 DEF CMP_I
  <2>4. Compared(Source, Target)
    BY <1>1, <1>3, <2>3, CompareResult
  <2>5. SameRegs
    BY <1>4, <2>3, RegsKept
  <2> QED
    BY <1>7, <2>4, <2>5
<1> QED
  BY <1>5, <1>6, <1>7

LEMMA ShiftsExact ==
  ASSUME ArithmeticAssumption, was \in Machines, job \in Instructions, c = Execute(was, job),
         job.op \in Shifts \cup Shifts_I
  PROVE  /\ job.op \in {"SHL", "SHL_I"} => ShiftedBy(Count, Target, TRUE)
         /\ job.op \in {"SHR", "SHR_I"} => ShiftedBy(Count, Target, FALSE)
         /\ job.op \in {"SAR", "SAR_I"} => ShiftedBy(Count, Signed(Target), FALSE)
<1>0. job.op # "BCOND"
  BY DEF Shifts, Shifts_I
<1>1. job.r2 \in Regs /\ Target \in WordValues /\ Count \in 0 .. W - 1
  BY <1>0, OperandsAre
<1>2. Plain.P = Entered.P
  BY PlainIs
<1> DEFINE two == Tick(Next2(Plain), 1)
           op == IF job.op \in {"SHL", "SHL_I"} THEN "SHL" ELSE IF job.op \in {"SHR", "SHR_I"} THEN "SHR" ELSE "SAR"
           x == Shifted(op, Target, Count)
<1>3. two \in Machines
  BY FetchedIs
<1>4. c = SetPREG(Flagged(two, x), job.r2, x.v)
  <2>1. Target = Plain.P[job.r2]
    BY <1>2 DEF Target, Shifts, Shifts_I, Longs
  <2>2. CASE job.op \in Shifts
    <3>1. c = Shift(Plain, job)
      BY <2>2, Dispatched
    <3>2. Count = Plain.P[job.r1] % W /\ op = job.op
      BY <1>2, <2>2 DEF Count, Shifts, Shifts_I
    <3> HIDE DEF op
    <3> QED
      BY <2>1, <3>1, <3>2 DEF Shift
  <2>3. CASE job.op \in Shifts_I
    <3>1. c = Shift_I(Plain, job)
      BY <2>3, Dispatched
    <3>2. Count = job.imm % W
      BY <2>3 DEF Count
    <3>3. op = CASE job.op = "SHL_I" -> "SHL" [] job.op = "SHR_I" -> "SHR" [] job.op = "SAR_I" -> "SAR"
      BY <2>3 DEF Shifts_I
    <3> HIDE DEF op
    <3> QED
      BY <2>1, <3>1, <3>2, <3>3 DEF Shift_I
  <2> QED
    BY <2>2, <2>3
<1>5. CASE job.op \in {"SHL", "SHL_I"}
  <2>1. PICK v \in Int, cy \in BOOLEAN :
            /\ Shifted("SHL", Target, Count) = [v |-> v, ov |-> FALSE, cy |-> cy]
            /\ Target * 2^Count \in Int /\ v = (Target * 2^Count) % Base
            /\ cy <=> (Count > 0 /\ ((Target * 2^Count) \div Base) % 2 = 1)
    BY <1>1, LeftShiftIs
  <2>2. x = [v |-> v, ov |-> FALSE, cy |-> cy]
    BY <1>5, <2>1
  <2> HIDE DEF x
  <2>3. c = SetPREG(Flagged(two, [v |-> v, ov |-> FALSE, cy |-> cy]), job.r2, v)
    BY <1>4, <2>2
  <2> DEFINE t == Target * 2^Count
  <2>4. t \in Int /\ v = t % Base
    BY <2>1
  <2> HIDE DEF t
  <2>5. c.P[job.r2] = t % Base /\ SignZero(t) /\ ~IsFlag(OV) /\ (IsFlag(CY) <=> cy)
    BY <1>1, <1>3, <2>3, <2>4, ShiftResult, ZenonT(60)
  <2>6. IsFlag(CY) = (Count > 0 /\ (t \div Base) % 2 = 1)
    BY <2>1, <2>5 DEF IsFlag, t
  <2> QED
    BY <1>5, <2>5, <2>6 DEF ShiftedBy, t
<1>6. CASE job.op \in {"SHR", "SHR_I"}
  <2>1. PICK v \in Int, cy \in BOOLEAN :
            /\ Shifted("SHR", Target, Count) = [v |-> v, ov |-> FALSE, cy |-> cy]
            /\ Target \div 2^Count \in Int /\ v = (Target \div 2^Count) % Base
            /\ cy <=> (Count > 0 /\ (Target \div 2^(Count - 1)) % 2 = 1)
    BY <1>1, RightShiftIs
  <2>2. x = [v |-> v, ov |-> FALSE, cy |-> cy]
    BY <1>6, <2>1
  <2> HIDE DEF x
  <2>3. c = SetPREG(Flagged(two, [v |-> v, ov |-> FALSE, cy |-> cy]), job.r2, v)
    BY <1>4, <2>2
  <2> DEFINE t == Target \div 2^Count
  <2>4. t \in Int /\ v = t % Base
    BY <2>1
  <2> HIDE DEF t
  <2>5. c.P[job.r2] = t % Base /\ SignZero(t) /\ ~IsFlag(OV) /\ (IsFlag(CY) <=> cy)
    BY <1>1, <1>3, <2>3, <2>4, ShiftResult, ZenonT(60)
  <2>6. IsFlag(CY) = (Count > 0 /\ (Target \div 2^(Count - 1)) % 2 = 1)
    BY <2>1, <2>5 DEF IsFlag
  <2> QED
    BY <1>6, <2>5, <2>6 DEF ShiftedBy, t
<1>7. CASE job.op \in {"SAR", "SAR_I"}
  <2>1. PICK v \in Int, cy \in BOOLEAN :
            /\ Shifted("SAR", Target, Count) = [v |-> v, ov |-> FALSE, cy |-> cy]
            /\ Signed(Target) \div 2^Count \in Int /\ v = (Signed(Target) \div 2^Count) % Base
            /\ cy <=> (Count > 0 /\ (Signed(Target) \div 2^(Count - 1)) % 2 = 1)
    BY <1>1, ArithmeticShiftIs
  <2>2. x = [v |-> v, ov |-> FALSE, cy |-> cy]
    BY <1>7, <2>1
  <2> HIDE DEF x
  <2>3. c = SetPREG(Flagged(two, [v |-> v, ov |-> FALSE, cy |-> cy]), job.r2, v)
    BY <1>4, <2>2
  <2> DEFINE t == Signed(Target) \div 2^Count
  <2>4. t \in Int /\ v = t % Base
    BY <2>1
  <2> HIDE DEF t
  <2>5. c.P[job.r2] = t % Base /\ SignZero(t) /\ ~IsFlag(OV) /\ (IsFlag(CY) <=> cy)
    BY <1>1, <1>3, <2>3, <2>4, ShiftResult
  <2>6. IsFlag(CY) = (Count > 0 /\ (Signed(Target) \div 2^(Count - 1)) % 2 = 1)
    BY <2>1, <2>5 DEF IsFlag
  <2> QED
    BY <1>7, <2>5, <2>6 DEF ShiftedBy, t
<1> QED
  BY <1>5, <1>6, <1>7 DEF Shifts, Shifts_I

-----------------------------------------------------------------------------
(* Products. *)
\* Overflow set before or after the signs.
LEMMA OverflowIs ==
  ASSUME ArithmeticAssumption, NEW psw \in Nat, NEW v \in Int, NEW ov \in BOOLEAN
  PROVE  LET F == SetFlag(SetSZ(psw, v), OV, ov)  G == SetSZ(SetFlag(psw, OV, ov), v)
         IN /\ F \in Nat /\ SignsOf(F, v) /\ (Bit(F, OV) = 1 <=> ov)
            /\ G \in Nat /\ SignsOf(G, v) /\ (Bit(G, OV) = 1 <=> ov)
<1>0. Z \in 0..3 /\ S \in 0..3 /\ OV \in 0..3 /\ Z # OV /\ S # OV /\ Top \in Int
  BY WordFacts, SMT DEF Z, S, OV
<1> DEFINE one == SetSZ(psw, v)
           F == SetFlag(one, OV, ov)
           two == SetFlag(psw, OV, ov)
           G == SetSZ(two, v)
<1>1. one \in Nat /\ SignsOf(one, v)
  BY <1>0, SignsAre
<1> HIDE DEF one
<1>2. F \in Nat /\ Bit(F, OV) = (IF ov THEN 1 ELSE 0) /\ Bit(F, Z) = Bit(one, Z) /\ Bit(F, S) = Bit(one, S)
  BY <1>0, <1>1, SetFlagIs
<1> HIDE DEF F
<1>3. SignsOf(F, v) /\ (Bit(F, OV) = 1 <=> ov)
  BY <1>1, <1>2 DEF SignsOf
<1>4. two \in Nat /\ Bit(two, OV) = (IF ov THEN 1 ELSE 0)
  BY <1>0, SetFlagIs
<1> HIDE DEF two
<1>5. G \in Nat /\ SignsOf(G, v) /\ Bit(G, OV) = Bit(two, OV)
  BY <1>0, <1>4, SignsAre
<1>6. Bit(G, OV) = 1 <=> ov
  BY <1>4, <1>5
<1> QED
  BY <1>2, <1>3, <1>5, <1>6 DEF F, G, one, two

LEMMA ProductBounds ==
  ASSUME NEW B \in Nat, NEW x \in Int, NEW y \in Int, -B <= x, x <= B, -B <= y, y <= B
  PROVE  x * y \in Int /\ -(B * B) <= x * y /\ x * y <= B * B
<1>1. \A a, b \in Nat : a <= B /\ b <= B => a * b \in Nat /\ a * b <= B * B
  <2> SUFFICES ASSUME NEW a \in Nat, NEW b \in Nat, a <= B, b <= B
               PROVE  a * b \in Nat /\ a * b <= B * B
    OBVIOUS
  <2>1. a * b <= B * b
    BY SMT
  <2>2. B * b <= B * B
    BY SMT
  <2>3. a * b \in Nat /\ B * b \in Nat /\ B * B \in Nat
    BY SMT
  <2> QED
    BY <2>1, <2>2, <2>3, SMT
<1>2. CASE x >= 0 /\ y >= 0
  <2>1. x \in Nat /\ y \in Nat
    BY <1>2, SMT
  <2> QED
    BY <1>1, <2>1, SMT
<1>3. CASE x >= 0 /\ y < 0
  <2>1. x \in Nat /\ -y \in Nat /\ x * (-y) = -(x * y) /\ x * y \in Int /\ -y <= B
    BY <1>3, SMT
  <2>2. x * (-y) \in Nat /\ x * (-y) <= B * B
    BY <1>1, <2>1
  <2>3. B * B \in Nat
    BY SMT
  <2> QED
    BY <2>1, <2>2, <2>3, SMT
<1>4. CASE x < 0 /\ y >= 0
  <2>1. -x \in Nat /\ y \in Nat /\ (-x) * y = -(x * y) /\ x * y \in Int /\ -x <= B
    BY <1>4, SMT
  <2>2. (-x) * y \in Nat /\ (-x) * y <= B * B
    BY <1>1, <2>1
  <2>3. B * B \in Nat
    BY SMT
  <2> QED
    BY <2>1, <2>2, <2>3, SMT
<1>5. CASE x < 0 /\ y < 0
  <2>1. -x \in Nat /\ -y \in Nat /\ (-x) * (-y) = x * y /\ x * y \in Int /\ -x <= B /\ -y <= B
    BY <1>5, SMT
  <2>2. (-x) * (-y) \in Nat /\ (-x) * (-y) <= B * B
    BY <1>1, <2>1
  <2>3. B * B \in Nat
    BY SMT
  <2> QED
    BY <2>1, <2>2, <2>3, SMT
<1> QED
  BY <1>2, <1>3, <1>4, <1>5

\* The two halves of a product put together.
LEMMA WideIs ==
  ASSUME ArithmeticAssumption, NEW p \in Int, -(Base * Base) <= p, p < Base * Base
  PROVE  LET hi == (p \div Base) % Base  lo == p % Base
         IN /\ hi \in WordValues /\ lo \in WordValues
            /\ (hi * Base) + lo = IF p < 0 THEN (Base * Base) + p ELSE p
BY Widths, SMT DEF WordValues

LEMMA MultiplyResult ==
  ASSUME ArithmeticAssumption, was \in Machines, job \in Instructions, job.r2 \in Regs, job.r2 # 30,
         NEW p \in Int, -(Base * Base) <= p, p < Base * Base, NEW ov \in BOOLEAN,
         NEW e, e = SetPREG(SetPREG(Tick(Next2(Entered), 13), 30, (p \div Base) % Base), job.r2, p % Base),
         c = After([e EXCEPT !.psw = SetFlag(SetSZ(@, p % Base), OV, ov)], "long")
  PROVE  /\ (c.P[30] * Base) + c.P[job.r2] = (IF p < 0 THEN (Base * Base) + p ELSE p)
         /\ SignZero(p) /\ (IsFlag(OV) <=> ov)
<1> DEFINE hi == (p \div Base) % Base
           lo == p % Base
           two == Tick(Next2(Entered), 13)
           up == SetPREG(two, 30, hi)
<1>1. hi \in WordValues /\ lo \in WordValues /\ (hi * Base) + lo = IF p < 0 THEN (Base * Base) + p ELSE p
  BY WideIs
<1>2. lo = p % Base /\ 30 \in Regs /\ 30 # job.r2
  BY DEF ArithmeticAssumption
<1>3. two \in Machines /\ two.psw = was.psw
  BY EnteredIs, BegunIs
<1>a. e = SetPREG(up, job.r2, lo)
  OBVIOUS
<1>b. c = After([e EXCEPT !.psw = SetFlag(SetSZ(e.psw, lo), OV, ov)], "long")
  BY DEF After
<1> HIDE DEF hi, lo, two
<1>4. hi \in Int /\ hi % Base = hi /\ lo \in Int /\ lo % Base = lo
  BY <1>1, Wraps
<1>5. up \in Machines /\ up.P[30] = hi
  BY <1>2, <1>3, <1>4, PREGIs, ZenonT(60)
<1> HIDE DEF up
<1>6. e \in Machines /\ e.P[30] = hi /\ e.P[job.r2] = lo
  <2> DEFINE f == SetPREG(up, job.r2, lo)
  <2>1. f \in Machines /\ f.P[job.r2] = lo % Base /\ \A s \in Regs \ {job.r2} : f.P[s] = up.P[s]
    BY <1>4, <1>5, PREGIs
  <2>2. e = f
    BY <1>a
  <2> HIDE DEF f
  <2>3. 30 \in Regs \ {job.r2}
    BY <1>2
  <2> QED
    BY <1>4, <1>5, <2>1, <2>2, <2>3
<1> DEFINE F == SetFlag(SetSZ(e.psw, lo), OV, ov)
           g == [e EXCEPT !.psw = F]
<1>7. e.psw \in Nat
  BY <1>6 DEF Machines
<1>8. F \in Nat /\ SignsOf(F, lo) /\ (Bit(F, OV) = 1 <=> ov)
  BY <1>4, <1>7, OverflowIs, ZenonT(60)
<1> HIDE DEF F
<1>9. g \in Machines /\ g.P = e.P /\ g.psw = F
  BY <1>6, <1>8, PswIs
<1>10. "long" \in LastOps
  BY DEF LastOps
<1>11. c = After(g, "long")
  BY <1>b DEF F
<1> HIDE DEF g
<1>12. c.P = e.P /\ c.psw = F
  BY <1>9, <1>10, <1>11, AfterIs
<1>13. SignZero(p)
  BY <1>2, <1>4, <1>8, <1>12, SignZeroIs
<1> QED
  BY <1>1, <1>6, <1>8, <1>12, <1>13 DEF IsFlag

LEMMA ProductsExact ==
  ASSUME ArithmeticAssumption, was \in Machines, job \in Instructions, c = Execute(was, job),
         job.op \in {"MUL", "MULU"}
  PROVE  /\ job.op = "MUL" => Multiplied(Signed(Source), Signed(Target))
         /\ job.op = "MULU" => Multiplied(Source, Target)
<1>1. /\ job.r1 \in Regs /\ job.r2 \in Regs /\ Source \in WordValues /\ Target \in WordValues
  BY OperandsAre
<1>2. Source = Entered.P[job.r1] /\ Target = Entered.P[job.r2]
  BY DEF Source, Target, Imm5Ops, Shifts_I, Longs
<1>3. c = Multiply(Entered, job)
  BY Dispatched
<1>4. CASE job.op = "MUL"
  <2> DEFINE p == Signed(Source) * Signed(Target)
             ov == p # Signed(p % Base)
             e == SetPREG(SetPREG(Tick(Next2(Entered), 13), 30, (p \div Base) % Base), job.r2, p % Base)
  <2>1. c = After([e EXCEPT !.psw = SetFlag(SetSZ(@, p % Base), OV, ov)], "long")
    BY <1>2, <1>3, <1>4, ZenonT(60) DEF Multiply, Wide
  <2>2. p \in Int /\ -(Top * Top) <= p /\ p <= Top * Top
    <3>1. /\ Signed(Source) \in Int /\ -Top <= Signed(Source) /\ Signed(Source) < Top
          /\ Signed(Target) \in Int /\ -Top <= Signed(Target) /\ Signed(Target) < Top
      BY <1>1, Wraps
    <3>2. Top \in Nat
      BY WordFacts
    <3> DEFINE x == Signed(Source)
               y == Signed(Target)
    <3>3. x \in Int /\ y \in Int /\ -Top <= x /\ x <= Top /\ -Top <= y /\ y <= Top
      BY <3>1, <3>2
    <3> HIDE DEF x, y
    <3>4. x * y \in Int /\ -(Top * Top) <= x * y /\ x * y <= Top * Top
      BY <3>2, <3>3, ProductBounds
    <3> QED
      BY <3>4 DEF x, y
  <2>3. ov \in BOOLEAN
    OBVIOUS
  <2>4. ov <=> p # Signed(p % Base)
    OBVIOUS
  <2>5. p = Signed(Source) * Signed(Target)
    OBVIOUS
  <2> HIDE DEF p, ov, e
  <2>6. -(Base * Base) <= p /\ p < Base * Base
    BY <2>2, Widths, SMT
  <2>7. ov <=> ~InRange(p)
    BY <2>2, <2>4, Unwraps DEF InRange
  <2>8. ASSUME job.r2 # 30
        PROVE  /\ (c.P[30] * Base) + c.P[job.r2] = (IF p < 0 THEN (Base * Base) + p ELSE p)
               /\ SignZero(p) /\ (IsFlag(OV) <=> ov)
    BY <1>1, <2>1, <2>2, <2>3, <2>6, <2>8, MultiplyResult DEF e
  <2>9. job.r2 # 30 => IsFlag(OV) = ~InRange(p)
    BY <2>7, <2>8 DEF IsFlag, InRange
  <2> QED
    BY <1>4, <2>5, <2>8, <2>9, SMTT(60) DEF Multiplied
<1>5. CASE job.op = "MULU"
  <2> DEFINE p == Source * Target
             ov == p # p % Base
             e == SetPREG(SetPREG(Tick(Next2(Entered), 13), 30, (p \div Base) % Base), job.r2, p % Base)
  <2>1. c = After([e EXCEPT !.psw = SetFlag(SetSZ(@, p % Base), OV, ov)], "long")
    BY <1>2, <1>3, <1>5, ZenonT(60) DEF Multiply, Wide
  <2>2. p \in Int /\ 0 <= p /\ p < Base * Base
    <3> DEFINE x == Source
               y == Target
    <3>1. x \in Nat /\ y \in Nat /\ x <= Base - 1 /\ y <= Base - 1 /\ Base - 1 \in Nat
      BY <1>1, Widths, SMT DEF WordValues
    <3> HIDE DEF x, y
    <3>2. x * y \in Int /\ x * y <= (Base - 1) * (Base - 1)
      BY <3>1, ProductBounds, SMT
    <3>3. 0 <= x * y
      BY <3>1, SMT
    <3>4. (Base - 1) * (Base - 1) \in Int /\ (Base - 1) * (Base - 1) < Base * Base
      BY Widths, SMT
    <3>5. x * y < Base * Base
      BY <3>2, <3>4, WordFacts
    <3> QED
      BY <3>2, <3>3, <3>5 DEF x, y
  <2>3. ov \in BOOLEAN
    OBVIOUS
  <2>4. ov <=> p # p % Base
    OBVIOUS
  <2>5. p = Source * Target
    OBVIOUS
  <2> HIDE DEF p, ov, e
  <2>6. -(Base * Base) <= p
    BY <2>2, Widths, SMT
  <2>7. ov <=> p >= Base
    BY <2>2, <2>4, Widths, SMT
  <2>8. ASSUME job.r2 # 30
        PROVE  /\ (c.P[30] * Base) + c.P[job.r2] = (IF p < 0 THEN (Base * Base) + p ELSE p)
               /\ SignZero(p) /\ (IsFlag(OV) <=> ov)
    BY <1>1, <2>1, <2>2, <2>3, <2>6, <2>8, MultiplyResult DEF e
  <2>9. job.r2 # 30 => IsFlag(OV) = (p >= Base)
    BY <2>7, <2>8 DEF IsFlag
  <2> QED
    BY <1>5, <2>5, <2>8, <2>9, SMTT(60) DEF Multiplied
<1> QED
  BY <1>4, <1>5

-----------------------------------------------------------------------------
(* Quotients and remainders. *)
\* Division towards zero: the remainder has the sign of the dividend.
LEMMA QuotIs ==
  ASSUME NEW x \in Int, NEW y \in Int, x # 0
  PROVE  LET q == Quot(y, x)  r == y - x * Quot(y, x)
         IN /\ q \in Int /\ r \in Int /\ y = (q * x) + r
            /\ Magnitude(r) < Magnitude(x) /\ (r = 0 \/ (r < 0) = (y < 0))
            /\ Magnitude(q) * Magnitude(x) <= Magnitude(y)
<1> DEFINE m == Magnitude(y)
           j == Magnitude(x)
           k == m \div j
<1>1. m \in Nat /\ j \in Nat /\ j > 0
  BY DEF Magnitude
<1>2. m = (IF y < 0 THEN -y ELSE y) /\ j = (IF x < 0 THEN -x ELSE x)
  BY DEF Magnitude
<1>3. Quot(y, x) = IF (y < 0) # (x < 0) THEN -k ELSE k
  BY DEF Quot
<1> HIDE DEF m, j
<1>4. k \in Int /\ k * j <= m /\ m < (k * j) + j
  BY <1>1, QuotientBounds
<1>5. k >= 0
  <2>1. k < 0 => (k * j) + j <= 0
    <3> SUFFICES ASSUME k < 0 PROVE (k * j) + j <= 0
      OBVIOUS
    <3> HIDE DEF k
    <3>1. (k + 1) * j = (k * j) + j
      BY <1>1, <1>4, SMT
    <3>2. (k + 1) * j <= 0
      BY <1>1, <1>4, SMT
    <3> QED
      BY <3>1, <3>2
  <2> QED
    BY <1>1, <1>4, <2>1
<1> DEFINE q == Quot(y, x)
           w == k * j
<1> HIDE DEF k
<1>6. w \in Int
  BY <1>1, <1>4, SMT
<1>7. /\ q \in Int
      /\ x * q = IF y < 0 THEN -w ELSE w
      /\ Magnitude(q) = k
  <2>1. CASE x < 0 /\ y < 0
    <3>1. q = k /\ x = -j
      BY <1>2, <1>3, <2>1
    <3> HIDE DEF q
    <3>2. x * q = -w
      BY <1>1, <1>4, <3>1, SMT
    <3> QED
      BY <1>4, <1>5, <2>1, <3>1, <3>2 DEF Magnitude
  <2>2. CASE x < 0 /\ y >= 0
    <3>1. q = -k /\ x = -j
      BY <1>2, <1>3, <2>2
    <3> HIDE DEF q
    <3>2. x * q = w
      BY <1>1, <1>4, <3>1, SMT
    <3> QED
      BY <1>4, <1>5, <2>2, <3>1, <3>2 DEF Magnitude
  <2>3. CASE x >= 0 /\ y < 0
    <3>1. q = -k /\ x = j
      BY <1>2, <1>3, <2>3
    <3> HIDE DEF q
    <3>2. x * q = -w
      BY <1>1, <1>4, <3>1, SMT
    <3> QED
      BY <1>4, <1>5, <2>3, <3>1, <3>2 DEF Magnitude
  <2>4. CASE x >= 0 /\ y >= 0
    <3>1. q = k /\ x = j
      BY <1>2, <1>3, <2>4
    <3> HIDE DEF q
    <3>2. x * q = w
      BY <1>1, <1>4, <3>1, SMT
    <3> QED
      BY <1>4, <1>5, <2>4, <3>1, <3>2 DEF Magnitude
  <2> QED
    BY <2>1, <2>2, <2>3, <2>4
<1>8. x * q \in Int /\ q * x = x * q
  BY <1>7, SMT
<1> DEFINE u == x * q
           r == y - u
<1>9. u \in Int /\ u = (IF y < 0 THEN -w ELSE w) /\ w <= m /\ m < w + j
  BY <1>4, <1>7, <1>8
<1>a. q * x = u
  BY <1>8
<1> HIDE DEF q, w, u
<1>10. /\ r \in Int /\ y = u + r /\ Magnitude(r) < j /\ (r = 0 \/ (r < 0) = (y < 0))
  BY <1>1, <1>2, <1>6, <1>9 DEF Magnitude
<1>11. Magnitude(q) * j <= m
  BY <1>7, <1>9 DEF w
<1>12. q \in Int
  BY <1>7
<1> QED
  BY <1>a, <1>10, <1>11, <1>12 DEF q, u, j, m

LEMMA DividedResult ==
  ASSUME ArithmeticAssumption, NEW d \in Machines, job.r2 \in Regs, NEW q \in Int, NEW r \in Int, NEW ov \in BOOLEAN,
         c = Divided(d, job, q, r, ov)
  PROVE  /\ SignsOf(c.psw, q % Base) /\ (IsFlag(OV) <=> ov) /\ c.P[job.r2] = q % Base
         /\ job.r2 # 30 => c.P[30] = r % Base
<1> DEFINE two == Next2(d)
           low == SetPREG(two, 30, r)
           e == SetPREG(low, job.r2, q)
<1>1. two \in Machines
  BY Next2Is
<1>2. 30 \in Regs
  BY DEF ArithmeticAssumption
<1>3. low \in Machines /\ low.P[30] = r % Base
  BY <1>1, <1>2, PREGIs
<1>4. e \in Machines /\ e.P[job.r2] = q % Base /\ \A s \in Regs \ {job.r2} : e.P[s] = low.P[s]
  BY <1>3, PREGIs, ZenonT(60)
<1>5. job.r2 # 30 => e.P[30] = r % Base
  BY <1>2, <1>3, <1>4
<1> DEFINE G == SetSZ(SetFlag(e.psw, OV, ov), q % Base)
<1>6. c = [e EXCEPT !.psw = G]
  BY DEF Divided
<1> HIDE DEF two, low, e
<1>7. e.psw \in Nat /\ q % Base \in Int
  BY <1>4, Unwraps, Wraps DEF Machines
<1>8. G \in Nat /\ SignsOf(G, q % Base) /\ (Bit(G, OV) = 1 <=> ov)
  BY <1>7, OverflowIs
<1> HIDE DEF G
<1>9. c.P = e.P /\ c.psw = G
  BY <1>4, <1>6, <1>8, PswIs
<1> QED
  BY <1>4, <1>5, <1>8, <1>9 DEF IsFlag

\* Division by zero changes nothing but the exception.
LEMMA ZeroDivides ==
  ASSUME ArithmeticAssumption, was \in Machines, NEW j \in Int,
         c = ZeroDivide(After(Tick(Entered, j), "long"))
  PROVE  c.exc = "ZERO_DIV" /\ SameRegs /\ c.pc = was.pc
<1> DEFINE one == Tick(Entered, j)
           two == After(one, "long")
<1>1. Entered \in Machines /\ Entered.pc = was.pc
  BY EnteredIs
<1>2. one \in Machines /\ one.P = Entered.P /\ one.pc = was.pc
  BY <1>1, TickIs
<1> HIDE DEF one
<1>3. "long" \in LastOps /\ "ZERO_DIV" \in Exceptions
  BY DEF LastOps, Exceptions
<1>4. two \in Machines /\ two.P = Entered.P /\ two.pc = was.pc
  BY <1>2, <1>3, AfterIs
<1>5. c = Exception(two, "ZERO_DIV")
  BY DEF ZeroDivide, one
<1> HIDE DEF two
<1>6. c.exc = "ZERO_DIV" /\ c.P = Entered.P /\ c.pc = was.pc
  BY <1>3, <1>4, <1>5, ExceptionIs
<1> QED
  BY <1>6, RegsKept

LEMMA LongIs ==
  ASSUME ArithmeticAssumption, was \in Machines, NEW j \in Int
  PROVE  After(Tick(Entered, j), "long") \in Machines
<1>1. Tick(Entered, j) \in Machines
  BY EnteredIs, TickIs
<1>2. "long" \in LastOps
  BY DEF LastOps
<1> QED
  BY <1>1, <1>2, AfterIs

LEMMA UnsignedDivisionExact ==
  ASSUME ArithmeticAssumption, was \in Machines, job \in Instructions, c = Execute(was, job), job.op = "DIVU"
  PROVE  DividedBy(Source, Target, c.P[job.r2], c.P[30])
<1> DEFINE x == Source
           y == Target
           e == After(Tick(Entered, 36), "long")
<1>1. /\ job.r1 \in Regs /\ job.r2 \in Regs /\ x \in WordValues /\ y \in WordValues
  BY OperandsAre
<1>2. x = Entered.P[job.r1] /\ y = Entered.P[job.r2]
  BY DEF Source, Target, Imm5Ops, Shifts_I, Longs
<1>3. c = IF x = 0 THEN ZeroDivide(e) ELSE Divided(e, job, y \div x, y % x, FALSE)
  BY <1>2, Dispatched DEF DIVU
<1>4. e \in Machines
  BY LongIs
<1>5. CASE x = 0
  <2>1. c.exc = "ZERO_DIV" /\ SameRegs /\ c.pc = was.pc
    BY <1>3, <1>5, ZeroDivides
  <2> QED
    BY <1>5, <2>1 DEF DividedBy
<1>6. CASE x # 0
  <2> DEFINE q == y \div x
             r == y % x
  <2>a. c = Divided(e, job, q, r, FALSE)
    BY <1>3, <1>6
  <2> HIDE DEF x, y, e
  <2>1. x \in Int /\ x > 0 /\ y \in Int /\ 0 <= y /\ y < Base /\ x < Base
    BY <1>1, <1>6, Widths, SMT DEF WordValues
  <2>2. q \in Int /\ q * x <= y /\ y < (q * x) + x
    BY <2>1, QuotientBounds
  <2>3. r \in Int /\ 0 <= r /\ r < x /\ y = (q * x) + r
    <3>1. y = x * (y \div x) + (y % x)
      BY <2>1, SMT
    <3>2. x * (y \div x) = (y \div x) * x
      BY <2>1, SMT
    <3> QED
      BY <2>1, <3>1, <3>2, SMT
  <2> HIDE DEF q, r
  <2>4. 0 <= q /\ q <= y
    <3>1. CASE q < 0
      <4>1. (q + 1) * x <= 0 /\ (q + 1) * x = (q * x) + x
        BY <2>1, <2>2, <3>1, SMT
      <4> QED
        BY <2>1, <2>2, <4>1
    <3>2. CASE q >= 0
      <4>1. q * x >= q
        BY <2>1, <2>2, <3>2, SMT
      <4>2. q * x \in Int
        BY <2>1, <2>2, SMT
      <4> QED
        BY <2>1, <2>2, <3>2, <4>1, <4>2
    <3> QED
      BY <2>2, <3>1, <3>2
  <2>5. q % Base = q /\ r % Base = r
    BY <2>1, <2>2, <2>3, <2>4, Widths, SMT
  <2>6. FALSE \in BOOLEAN
    OBVIOUS
  <2>7. /\ SignsOf(c.psw, q) /\ ~IsFlag(OV) /\ c.P[job.r2] = q
        /\ job.r2 # 30 => c.P[30] = r
    <3>1. /\ SignsOf(c.psw, q % Base) /\ (IsFlag(OV) <=> FALSE) /\ c.P[job.r2] = q % Base
          /\ job.r2 # 30 => c.P[30] = r % Base
      BY <1>1, <1>4, <2>2, <2>3, <2>6, <2>a, DividedResult
    <3> QED
      BY <2>5, <3>1
  <2>8. SignZero(q)
    BY <2>2, <2>5, <2>7, SignZeroIs
  <2>9. Magnitude(r) < Magnitude(x) /\ (r = 0 \/ (r < 0) = (y < 0))
    BY <2>1, <2>3 DEF Magnitude
  <2>10. IsFlag(OV) = (job.op = "DIV" /\ y = -Top /\ x = -1)
    BY <2>7 DEF IsFlag
  <2>11. DividedBy(x, y, c.P[job.r2], c.P[30])
    <3>1. SignZero(c.P[job.r2])
      BY <2>7, <2>8
    <3>2. job.r2 # 30 => /\ y = (c.P[job.r2] * x) + c.P[30] /\ Magnitude(c.P[30]) < Magnitude(x)
                         /\ (c.P[30] = 0 \/ (c.P[30] < 0) = (y < 0))
      BY <2>3, <2>7, <2>9
    <3> QED
      BY <1>6, <2>10, <3>1, <3>2 DEF DividedBy
  <2> QED
    BY <2>11 DEF x, y
<1> QED
  BY <1>5, <1>6

LEMMA SignedDivisionExact ==
  ASSUME ArithmeticAssumption, was \in Machines, job \in Instructions, c = Execute(was, job), job.op = "DIV"
  PROVE  DividedBy(Signed(Source), Signed(Target), Signed(c.P[job.r2]), Signed(c.P[30]))
<1> DEFINE x == Signed(Source)
           y == Signed(Target)
           e == After(Tick(Entered, 38), "long")
           q == Quot(y, x)
           r == y - x * Quot(y, x)
<1>1. /\ job.r1 \in Regs /\ job.r2 \in Regs /\ Source \in WordValues /\ Target \in WordValues
  BY OperandsAre
<1>2. Source = Entered.P[job.r1] /\ Target = Entered.P[job.r2]
  BY DEF Source, Target, Imm5Ops, Shifts_I, Longs
<1>3. c = IF x = 0 THEN ZeroDivide(e)
          ELSE IF y = -Top /\ x = -1 THEN Divided(e, job, Top, 0, TRUE)
          ELSE Divided(e, job, q, r, FALSE)
  BY <1>2, Dispatched DEF DIV
<1>4. e \in Machines
  BY LongIs
<1>5. x \in Int /\ -Top <= x /\ x < Top /\ y \in Int /\ -Top <= y /\ y < Top
  BY <1>1, Wraps
<1>6. CASE x = 0
  <2>1. c.exc = "ZERO_DIV" /\ SameRegs /\ c.pc = was.pc
    BY <1>3, <1>6, ZeroDivides
  <2> QED
    BY <1>6, <2>1 DEF DividedBy
<1>7. CASE y = -Top /\ x = -1
  <2>1. c = Divided(e, job, Top, 0, TRUE)
    BY <1>3, <1>7
  <2>2. Top \in Int /\ 0 \in Int /\ TRUE \in BOOLEAN
    BY WordFacts
  <2> HIDE DEF x, y, e
  <2>3. SignsOf(c.psw, Top % Base) /\ (IsFlag(OV) <=> TRUE) /\ c.P[job.r2] = Top % Base
    BY <1>1, <1>4, <2>1, <2>2, DividedResult
  <2>4. Top % Base \in Int /\ Signed(Top % Base) = -Top /\ Top % Base = (-Top) % Base /\ -Top \in Int
    BY Widths, SMT DEF Signed
  <2>5. SignZero(Signed(c.P[job.r2]))
    BY <2>3, <2>4, SignZeroIs
  <2>6. IsFlag(OV) = (job.op = "DIV" /\ y = -Top /\ x = -1)
    BY <1>7, <2>3 DEF IsFlag
  <2>7. x # 0
    BY <1>7
  <2>8. DividedBy(x, y, Signed(c.P[job.r2]), Signed(c.P[30]))
    BY <2>3, <2>5, <2>6, <2>7 DEF DividedBy
  <2> QED
    BY <2>8 DEF x, y
<1>8. CASE x # 0 /\ ~(y = -Top /\ x = -1)
  <2>1. c = Divided(e, job, q, r, FALSE)
    BY <1>3, <1>8
  <2> HIDE DEF x, y, e
  <2>2. /\ q \in Int /\ r \in Int /\ y = (q * x) + r
        /\ Magnitude(r) < Magnitude(x) /\ (r = 0 \/ (r < 0) = (y < 0))
        /\ Magnitude(q) * Magnitude(x) <= Magnitude(y)
    BY <1>5, <1>8, QuotIs
  <2>3. InRange(q)
    <3>1. Top \in Nat /\ Top > 4
      BY WordFacts
    <3>2. CASE Magnitude(x) = 1
      <4>1. x = 1 \/ x = -1
        BY <1>5, <3>2 DEF Magnitude
      <4>2. r = 0
        BY <2>2, <3>2 DEF Magnitude
      <4> HIDE DEF q, r
      <4>3. CASE x = 1
        <5>1. y = q
          BY <2>2, <4>2, <4>3
        <5> QED
          BY <1>5, <3>1, <5>1 DEF InRange
      <4>4. CASE x = -1
        <5>1. y = -q
          BY <2>2, <4>2, <4>4
        <5> QED
          BY <1>5, <1>8, <2>2, <3>1, <4>4, <5>1 DEF InRange
      <4> QED
        BY <4>1, <4>3, <4>4
    <3>3. CASE Magnitude(x) # 1
      <4> DEFINE j == Magnitude(x)
                 k == Magnitude(q)
      <4> HIDE DEF q, r
      <4>1. j \in Nat /\ j >= 2 /\ k \in Nat /\ Magnitude(y) <= Top
        BY <1>5, <1>8, <2>2, <3>1, <3>3 DEF Magnitude
      <4>2. k * j <= Magnitude(y) /\ Magnitude(y) \in Int
        BY <1>5, <2>2 DEF Magnitude
      <4> HIDE DEF j, k
      <4>3. k * 2 <= k * j
        BY <4>1, SMT
      <4>4. k * 2 <= Top
        <5>1. k * j \in Int
          BY <4>1, SMT
        <5> QED
          BY <3>1, <4>1, <4>2, <4>3, <5>1
      <4>5. k < Top
        BY <3>1, <4>1, <4>4
      <4> QED
        BY <2>2, <3>1, <4>5 DEF InRange, k, Magnitude
    <3> QED
      BY <3>2, <3>3
  <2>4. InRange(r)
    <3>1. Top \in Nat /\ Top > 4
      BY WordFacts
    <3> HIDE DEF r
    <3> QED
      BY <1>5, <2>2, <3>1 DEF InRange, Magnitude
  <2> HIDE DEF q, r
  <2>5. Signed(q % Base) = q /\ Signed(r % Base) = r
    BY <2>2, <2>3, <2>4, Unwraps DEF InRange
  <2>6. FALSE \in BOOLEAN
    OBVIOUS
  <2>7. /\ SignsOf(c.psw, q % Base) /\ (IsFlag(OV) <=> FALSE) /\ c.P[job.r2] = q % Base
        /\ job.r2 # 30 => c.P[30] = r % Base
    BY <1>1, <1>4, <2>1, <2>2, <2>6, DividedResult
  <2>8. Signed(c.P[job.r2]) = q /\ (job.r2 # 30 => Signed(c.P[30]) = r)
    BY <2>5, <2>7
  <2>9. SignZero(q)
    <3>1. q % Base \in Int
      BY <2>2, Unwraps, Wraps
    <3> QED
      BY <2>2, <2>7, <3>1, SignZeroIs
  <2>10. IsFlag(OV) = (job.op = "DIV" /\ y = -Top /\ x = -1)
    BY <1>8, <2>7 DEF IsFlag
  <2>11. DividedBy(x, y, Signed(c.P[job.r2]), Signed(c.P[30]))
    <3>1. SignZero(Signed(c.P[job.r2]))
      BY <2>8, <2>9
    <3>2. job.r2 # 30 => /\ y = (Signed(c.P[job.r2]) * x) + Signed(c.P[30]) /\ Magnitude(Signed(c.P[30])) < Magnitude(x)
                         /\ (Signed(c.P[30]) = 0 \/ (Signed(c.P[30]) < 0) = (y < 0))
      BY <2>2, <2>8
    <3> QED
      BY <1>8, <2>10, <3>1, <3>2 DEF DividedBy
  <2> QED
    BY <2>11 DEF x, y
<1> QED
  BY <1>6, <1>7, <1>8

-----------------------------------------------------------------------------
(* A word in memory. *)
Bytes == 0 .. Byte - 1
Contents == [0 .. MemSize - 1 -> Bytes]

LEMMA PlacesApart ==
  ASSUME ArithmeticAssumption, NEW a \in Int
  PROVE  LET p == a % MemSize  q == (a + 1) % MemSize  r == (a + 2) % MemSize  s == ((a + 2) + 1) % MemSize
         IN /\ p \in 0 .. MemSize - 1 /\ q \in 0 .. MemSize - 1 /\ r \in 0 .. MemSize - 1 /\ s \in 0 .. MemSize - 1
            /\ p # q /\ p # r /\ p # s /\ q # r /\ q # s /\ r # s
<1>1. MemSize \in Int /\ MemSize >= 4
  BY DEF ArithmeticAssumption, AluAssumption
<1> DEFINE p == a % MemSize
           after(d) == IF p + d < MemSize THEN p + d ELSE (p + d) - MemSize
<1>2. p \in 0 .. MemSize - 1
  BY <1>1, RemainderOf, SMT
<1>3. (a + 1) % MemSize = after(1) /\ (a + 2) % MemSize = after(2) /\ (a + 3) % MemSize = after(3)
  BY <1>1, RemainderAfter, SMT
<1>4. (a + 2) + 1 = a + 3
  BY SMT
<1> HIDE DEF p
<1>5. /\ after(1) \in 0 .. MemSize - 1 /\ after(2) \in 0 .. MemSize - 1 /\ after(3) \in 0 .. MemSize - 1
      /\ p # after(1) /\ p # after(2) /\ p # after(3)
      /\ after(1) # after(2) /\ after(1) # after(3) /\ after(2) # after(3)
  BY <1>1, <1>2, SMT
<1> HIDE DEF after
<1> QED
  BY <1>2, <1>3, <1>4, <1>5 DEF p

LEMMA BytesAreWord ==
  ASSUME ArithmeticAssumption, NEW b0 \in Bytes, NEW b1 \in Bytes, NEW b2 \in Bytes, NEW b3 \in Bytes
  PROVE  (b0 + (Byte * b1)) + (Half * (b2 + (Byte * b3))) \in WordValues
BY Widths, SMT DEF Bytes, WordValues

LEMMA WordAsBytes ==
  ASSUME ArithmeticAssumption, NEW v \in WordValues
  PROVE  LET b0 == (v % Half) % Byte
             b1 == ((v % Half) \div Byte) % Byte
             b2 == (v \div Half) % Byte
             b3 == ((v \div Half) \div Byte) % Byte
         IN /\ b0 \in Bytes /\ b1 \in Bytes /\ b2 \in Bytes /\ b3 \in Bytes
            /\ (b0 + (Byte * b1)) + (Half * (b2 + (Byte * b3))) = v
<1> DEFINE h == v % Half
           g == v \div Half
<1>1. /\ h \in 0 .. Half - 1 /\ g \in 0 .. Half - 1 /\ h + (Half * g) = v
  BY Widths, SMT DEF WordValues
<1> HIDE DEF h, g
<1>2. /\ h % Byte \in Bytes /\ (h \div Byte) % Byte \in Bytes
      /\ (h % Byte) + (Byte * ((h \div Byte) % Byte)) = h
  BY <1>1, Widths, SMT DEF Bytes
<1>3. /\ g % Byte \in Bytes /\ (g \div Byte) % Byte \in Bytes
      /\ (g % Byte) + (Byte * ((g \div Byte) % Byte)) = g
  BY <1>1, Widths, SMT DEF Bytes
<1>4. ((h % Byte) + (Byte * ((h \div Byte) % Byte))) + (Half * ((g % Byte) + (Byte * ((g \div Byte) % Byte)))) = v
  BY <1>1, <1>2, <1>3
<1> QED
  BY <1>2, <1>3, <1>4 DEF h, g

LEMMA ReadIs ==
  ASSUME ArithmeticAssumption, NEW m \in Contents, NEW a \in Int
  PROVE  Read32(m, a) \in WordValues
<1> DEFINE p == a % MemSize
           q == (a + 1) % MemSize
           r == (a + 2) % MemSize
           s == ((a + 2) + 1) % MemSize
<1>1. p \in 0 .. MemSize - 1 /\ q \in 0 .. MemSize - 1 /\ r \in 0 .. MemSize - 1 /\ s \in 0 .. MemSize - 1
  BY PlacesApart
<1>2. Read32(m, a) = (m[p] + (Byte * m[q])) + (Half * (m[r] + (Byte * m[s])))
  BY DEF Read32, Read16
<1> HIDE DEF p, q, r, s
<1>3. m[p] \in Bytes /\ m[q] \in Bytes /\ m[r] \in Bytes /\ m[s] \in Bytes
  BY <1>1 DEF Contents
<1> QED
  BY <1>2, <1>3, BytesAreWord

LEMMA WrittenIs ==
  ASSUME ArithmeticAssumption, NEW m \in Contents, NEW a \in Int, NEW v \in WordValues
  PROVE  Write32(m, a, v) \in Contents /\ Read32(Write32(m, a, v), a) = v
<1> DEFINE p == a % MemSize
           q == (a + 1) % MemSize
           r == (a + 2) % MemSize
           s == ((a + 2) + 1) % MemSize
           b0 == (v % Half) % Byte
           b1 == ((v % Half) \div Byte) % Byte
           b2 == (v \div Half) % Byte
           b3 == ((v \div Half) \div Byte) % Byte
           j == Write32(m, a, v)
<1>1. /\ p \in 0 .. MemSize - 1 /\ q \in 0 .. MemSize - 1 /\ r \in 0 .. MemSize - 1 /\ s \in 0 .. MemSize - 1
      /\ p # q /\ p # r /\ p # s /\ q # r /\ q # s /\ r # s
  BY PlacesApart
<1>2. /\ b0 \in Bytes /\ b1 \in Bytes /\ b2 \in Bytes /\ b3 \in Bytes
      /\ (b0 + (Byte * b1)) + (Half * (b2 + (Byte * b3))) = v
  BY WordAsBytes
<1>3. j = [[m EXCEPT ![p] = b0, ![q] = b1] EXCEPT ![r] = b2, ![s] = b3]
  BY DEF Write32, Write16
<1>4. Read32(j, a) = (j[p] + (Byte * j[q])) + (Half * (j[r] + (Byte * j[s])))
  BY DEF Read32, Read16
<1> HIDE DEF p, q, r, s, b0, b1, b2, b3, j
<1>5. j \in Contents /\ j[p] = b0 /\ j[q] = b1 /\ j[r] = b2 /\ j[s] = b3
  BY <1>1, <1>2, <1>3 DEF Contents
<1> QED
  BY <1>2, <1>4, <1>5 DEF j

LEMMA ExchangesExact ==
  ASSUME ArithmeticAssumption, was \in Machines, job \in Instructions, c = Execute(was, job), job.op = "CAXI"
  PROVE  Exchanged(Address(Entered, job, 4), Target)
<1> DEFINE a == Address(Entered, job, 4)
           old == Read32(was.mem, a)
           y == Target
           four == Tick(Next4(Plain), 26)
           d == Difference(y, old)
           e == Flagged(four, d)
           new == IF d.v = 0 THEN Entered.P[30] ELSE old
           m == Write32(was.mem, a, new)
           g == [e EXCEPT !.mem = m]
<1>1. job.r1 \in Regs /\ job.r2 \in Regs /\ job.imm \in Int /\ Entered.P[job.r1] \in WordValues /\ y \in WordValues
  BY OperandsAre
<1>2. y = Entered.P[job.r2]
  BY DEF Target, Longs
<1>3. a \in Int
  <2> DEFINE sum == Extend(job.imm, W \div 2) + Entered.P[job.r1]
  <2>1. Extend(job.imm, W \div 2) \in WordValues
    BY <1>1, ExtendIs
  <2>2. sum \in Int
    BY <1>1, <2>1, Wraps
  <2>3. a = (sum % Base) - ((sum % Base) % 4)
    BY DEF Address
  <2> HIDE DEF sum, a
  <2>4. sum % Base \in Int
    BY <2>2, Unwraps, Wraps
  <2> QED
    BY <2>3, <2>4, SMT
<1>4. was.mem \in Contents
  BY DEF Machines, Contents, Bytes
<1>5. old \in WordValues
  BY <1>3, <1>4, ReadIs
<1>6. Plain.P = Entered.P /\ Plain.mem = was.mem
  BY PlainIs
<1>7. four \in Machines /\ four.P = Entered.P /\ four.mem = was.mem
  BY FetchedIs
<1>8. c = SetPREG([e EXCEPT !.mem = Write32(e.mem, a, new)], job.r2, old)
  <2>1. Address(Plain, job, 4) = a
    BY <1>6 DEF Address
  <2>2. c = CAXI(Plain, job)
    BY Dispatched
  <2> QED
    BY <1>2, <1>6, <2>1, <2>2 DEF CAXI
<1>9. /\ e \in Machines /\ e.P = four.P /\ e.mem = four.mem
      /\ d.v = (y - old) % Base
  BY <1>1, <1>5, <1>7, FlaggedOnly
<1>10. d.v = 0 <=> old = y
  <2> HIDE DEF d, old, y
  <2> QED
    BY <1>1, <1>5, <1>9, Widths, SMT DEF WordValues
<1>11. 30 \in Regs /\ 30 \in Regs \ {0}
  BY DEF ArithmeticAssumption
<1>12. Entered.P[30] = was.P[30] /\ Entered.P[30] \in WordValues
  BY <1>11, EnteredIs
<1>13. new \in WordValues /\ new = IF old = y THEN was.P[30] ELSE old
  BY <1>5, <1>10, <1>12
<1>14. m \in Contents /\ Read32(m, a) = new
  BY <1>3, <1>4, <1>13, WrittenIs
<1>15. c = SetPREG(g, job.r2, old)
  BY <1>7, <1>8, <1>9
<1>16. e.psw = Flagged(four, Difference(y, old)).psw
  OBVIOUS
<1>17. old = Read32(was.mem, a)
  OBVIOUS
<1> HIDE DEF a, old, y, four, d, e, new, m
<1>18. m \in [0 .. MemSize - 1 -> 0 .. Byte - 1]
  BY <1>14 DEF Contents, Bytes
<1>19. g \in Machines /\ g.psw = e.psw /\ g.mem = m
  BY <1>9, <1>18, MemIs
<1> HIDE DEF g
<1>20. old \in Int /\ old % Base = old
  BY <1>5, Wraps
<1>21. c.psw = g.psw /\ c.mem = g.mem /\ c.P[job.r2] = old
  BY <1>1, <1>15, <1>19, <1>20, PREGIs
<1>22. Compared(old, y)
  BY <1>1, <1>5, <1>7, <1>16, <1>19, <1>21, CompareResult
<1>23. Exchanged(a, y)
  BY <1>13, <1>14, <1>17, <1>19, <1>21, <1>22 DEF Exchanged
<1> QED
  BY <1>23 DEF a, y

-----------------------------------------------------------------------------
(* The operations on bits. *)
LEMMA LogicResult ==
  ASSUME ArithmeticAssumption, NEW d \in Machines, d.psw = was.psw, NEW r \in Regs, NEW v \in WordValues,
         c = SetPREG(Logical(d, v), r, v), job.r2 = r
  PROVE  Combined(Ones(v))
<1> DEFINE one == SetFlag(d.psw, OV, FALSE)
           psw == SetSZ(one, v)
           e == Logical(d, v)
<1>0. OV \in 0..3 /\ CY \in 0..3 /\ OV # CY /\ d.psw \in Nat /\ Top \in Int /\ v \in Int
  <2>1. OV \in 0..3 /\ CY \in 0..3 /\ OV # CY
    BY SMT DEF OV, CY
  <2>2. d.psw \in Nat
    BY DEF Machines
  <2> QED
    BY <2>1, <2>2, Wraps, WordFacts
<1>1. one \in Nat /\ Bit(one, OV) = 0 /\ Bit(one, CY) = Bit(d.psw, CY)
  <2>1. /\ SetFlag(d.psw, OV, FALSE) \in Nat
        /\ \A f \in 0..3 : Bit(SetFlag(d.psw, OV, FALSE), f) = IF f = OV THEN (IF FALSE THEN 1 ELSE 0) ELSE Bit(d.psw, f)
    BY <1>0, SetFlagIs
  <2> QED
    BY <1>0, <2>1
<1>2. e = [d EXCEPT !.psw = psw]
  BY DEF Logical
<1> HIDE DEF one
<1>3. psw \in Nat /\ SignsOf(psw, v) /\ Bit(psw, OV) = 0 /\ Bit(psw, CY) = Bit(d.psw, CY)
  BY <1>0, <1>1, SignsAre
<1> HIDE DEF psw
<1>4. e \in Machines /\ e.psw = psw
  BY <1>2, <1>3, PswIs
<1>5. c = SetPREG(e, r, v)
  OBVIOUS
<1> HIDE DEF e
<1>6. c.psw = psw /\ c.P[r] = v % Base
  BY <1>0, <1>4, <1>5, PREGIs
<1>7. c.P[job.r2] = v
  BY <1>6, Wraps
<1>8. SignZero(v)
  BY <1>0, <1>3, <1>6, Wraps, SignZeroIs
<1>9. ~IsFlag(OV) /\ IsFlag(CY) = (Bit(was.psw, CY) = 1)
  BY <1>3, <1>6 DEF IsFlag
<1> QED
  BY <1>7, <1>8, <1>9 DEF Combined

\* The operations on bits, as operations on the places that hold a one.
LEMMA PlacesOf ==
  ASSUME ArithmeticAssumption, NEW x \in WordValues, NEW y \in WordValues
  PROVE  /\ Ones(Or(x, y)) = Ones(x) \cup Ones(y)
         /\ Ones(And(x, y)) = Ones(x) \cap Ones(y)
         /\ Ones(Xor(x, y)) = (Ones(x) \cup Ones(y)) \ (Ones(x) \cap Ones(y))
         /\ Ones(Not(x)) = (0 .. W - 1) \ Ones(x)
<1>1. x \in Int /\ y \in Int
  BY Wraps
<1>2. ASSUME NEW k \in 0 .. W - 1
      PROVE  /\ Bit(Or(x, y), k) = 1 <=> (Bit(x, k) = 1 \/ Bit(y, k) = 1)
             /\ Bit(And(x, y), k) = 1 <=> (Bit(x, k) = 1 /\ Bit(y, k) = 1)
             /\ Bit(Xor(x, y), k) = 1 <=> (Bit(x, k) = 1 \/ Bit(y, k) = 1) /\ ~(Bit(x, k) = 1 /\ Bit(y, k) = 1)
             /\ Bit(Not(x), k) = 1 <=> ~(Bit(x, k) = 1)
  <2> DEFINE a == Bit(x, k)
             b == Bit(y, k)
  <2>1. a \in {0, 1} /\ b \in {0, 1}
    BY <1>1, BitOfNumber
  <2>2. /\ Bit(Or(x, y), k) = (a + b) - (a * b) /\ Bit(And(x, y), k) = a * b
        /\ Bit(Xor(x, y), k) = (a + b) - (2 * (a * b)) /\ Bit(Not(x), k) = 1 - a
    BY <1>1, OrIs, AndIs, XorIs, NotIs
  <2> HIDE DEF a, b
  <2>3. /\ (a + b) - (a * b) = 1 <=> (a = 1 \/ b = 1)
        /\ a * b = 1 <=> (a = 1 /\ b = 1)
        /\ (a + b) - (2 * (a * b)) = 1 <=> (a = 1 \/ b = 1) /\ ~(a = 1 /\ b = 1)
        /\ 1 - a = 1 <=> ~(a = 1)
    BY <2>1
  <2> QED
    BY <2>2, <2>3 DEF a, b
<1> QED
  BY <1>2 DEF Ones

LEMMA LogicExact ==
  ASSUME ArithmeticAssumption, was \in Machines, job \in Instructions, c = Execute(was, job),
         job.op \in Logics \cup {"ORI", "ANDI", "XORI"}
  PROVE  LET x == Ones(Source)  y == Ones(Target)
         IN /\ job.op \in {"OR", "ORI"} => Combined(x \cup y)
            /\ job.op \in {"AND", "ANDI"} => Combined(x \cap y)
            /\ job.op \in {"XOR", "XORI"} => Combined((x \cup y) \ (x \cap y))
            /\ job.op = "NOT" => Combined((0 .. W - 1) \ x)
<1>0. job.op # "BCOND"
  BY DEF Logics
<1>1. /\ job.r1 \in Regs /\ job.r2 \in Regs /\ Source \in WordValues /\ Target \in WordValues
  BY <1>0, OperandsAre
<1>2. Plain.P = Entered.P /\ Plain \in Machines /\ Plain.psw = was.psw
  BY PlainIs
<1> DEFINE two == Tick(Next2(Plain), 1)
           four == Tick(Next4(Plain), 1)
<1>3. two \in Machines /\ four \in Machines /\ two.psw = was.psw /\ four.psw = was.psw
  BY <1>2, BegunIs
<1> DEFINE v == CASE job.op \in {"OR", "ORI"} -> Or(Source, Target)
                  [] job.op \in {"AND", "ANDI"} -> And(Source, Target)
                  [] job.op \in {"XOR", "XORI"} -> Xor(Source, Target)
                  [] job.op = "NOT" -> Not(Source)
<1>4. ASSUME job.op \in Logics
      PROVE  c = SetPREG(Logical(two, v), job.r2, v)
  <2>0. job.op \notin Longs /\ job.op \notin Imm5Ops
    BY <1>4 DEF Logics, Longs, Imm5Ops, Shifts_I
  <2>1. c = Logic(Plain, job)
    BY <1>4, Dispatched
  <2>2. Source = Entered.P[job.r1] /\ Target = Entered.P[job.r2]
    BY <1>4, SMTT(60) DEF Source, Target, Imm5Ops, Shifts_I, Logics, Longs
  <2>3. c = SetPREG(Logical(two, v), job.r2, v)
    BY <1>2, <1>4, <2>1, <2>2 DEF Logic, Logics
  <2> QED
    BY <2>3
<1>5. ASSUME job.op \in {"ORI", "ANDI", "XORI"}
      PROVE  c = SetPREG(Logical(four, v), job.r2, v)
  <2>1. c = Long(Plain, job)
    BY <1>5, Dispatched DEF Longs
  <2>2. Source = job.imm /\ Target = Entered.P[job.r1]
    BY <1>5, SMTT(60) DEF Source, Target, Imm5Ops, Shifts_I, Longs
  <2>3. c = SetPREG(Logical(four, v), job.r2, v)
    BY <1>2, <1>5, <2>1, <2>2 DEF Long
  <2> QED
    BY <2>3
<1>6. v \in WordValues
  <2>1. /\ Or(Source, Target) \in WordValues /\ And(Source, Target) \in WordValues
        /\ Xor(Source, Target) \in WordValues /\ Not(Source) \in WordValues
    BY <1>1, Wraps, OrIs, AndIs, XorIs, NotIs
  <2> QED
    BY <2>1 DEF Logics
<1>7. /\ job.op \in {"OR", "ORI"} => v = Or(Source, Target)
      /\ job.op \in {"AND", "ANDI"} => v = And(Source, Target)
      /\ job.op \in {"XOR", "XORI"} => v = Xor(Source, Target)
      /\ job.op = "NOT" => v = Not(Source)
  OBVIOUS
<1> HIDE DEF v, two, four
<1>8. c = SetPREG(Logical(two, v), job.r2, v) \/ c = SetPREG(Logical(four, v), job.r2, v)
  BY <1>4, <1>5
<1>9. Combined(Ones(v))
  BY <1>1, <1>3, <1>6, <1>8, LogicResult
<1> QED
  BY <1>1, <1>7, <1>9, PlacesOf

-----------------------------------------------------------------------------
(* Every instruction that is executed, in every state it is executed in. *)
Executed == stage = "done" => was \in Machines /\ job \in Instructions /\ c = Execute(was, job)

LEMMA ExecutedExact ==
  ASSUME ArithmeticAssumption, Executed
  PROVE  ArithmeticIsExact
<1> SUFFICES ASSUME stage = "done", job.op \in IntegerOps
             PROVE  ArithmeticIsExact
  BY DEF ArithmeticIsExact
<1>1. was \in Machines /\ job \in Instructions /\ c = Execute(was, job)
  BY DEF Executed
<1>2. job.op \in {"ADD", "ADD_I", "ADDI"} => Added(Source, Target)
  BY <1>1, SumsExact
<1>3. job.op \in {"SUB", "CMP", "CMP_I"} =>
         /\ Compared(Source, Target)
         /\ job.op = "SUB" => c.P[job.r2] = (Target - Source) % Base
         /\ job.op # "SUB" => SameRegs
  BY <1>1, ComparisonsExact
<1>4. job.op \in {"SHL", "SHR", "SAR", "SHL_I", "SHR_I", "SAR_I"} =>
         /\ job.op \in {"SHL", "SHL_I"} => ShiftedBy(Count, Target, TRUE)
         /\ job.op \in {"SHR", "SHR_I"} => ShiftedBy(Count, Target, FALSE)
         /\ job.op \in {"SAR", "SAR_I"} => ShiftedBy(Count, Signed(Target), FALSE)
  BY <1>1, ShiftsExact DEF Shifts, Shifts_I
<1>5. job.op \in {"MUL", "MULU"} =>
         /\ job.op = "MUL" => Multiplied(Signed(Source), Signed(Target))
         /\ job.op = "MULU" => Multiplied(Source, Target)
  BY <1>1, ProductsExact
<1>6. job.op = "DIVU" => DividedBy(Source, Target, c.P[job.r2], c.P[30])
  BY <1>1, UnsignedDivisionExact
<1>7. job.op = "DIV" => DividedBy(Signed(Source), Signed(Target), Signed(c.P[job.r2]), Signed(c.P[30]))
  BY <1>1, SignedDivisionExact
<1>8. job.op = "CAXI" => Exchanged(Address(Entered, job, 4), Target)
  BY <1>1, ExchangesExact
<1> DEFINE bitwise == Logics \cup {"ORI", "ANDI", "XORI"}
           others == {"ADD", "ADD_I", "ADDI", "SUB", "CMP", "CMP_I", "SHL", "SHL_I", "SHR", "SHR_I", "SAR", "SAR_I",
                      "MUL", "MULU", "DIVU", "DIV", "CAXI"}
<1>9. \/ job.op \in {"ADD", "ADD_I", "ADDI"} \/ job.op = "SUB" \/ job.op \in {"CMP", "CMP_I"}
      \/ job.op \in {"SHL", "SHL_I"} \/ job.op \in {"SHR", "SHR_I"} \/ job.op \in {"SAR", "SAR_I"}
      \/ job.op = "MUL" \/ job.op = "MULU" \/ job.op = "DIVU" \/ job.op = "DIV" \/ job.op = "CAXI"
      \/ job.op \in bitwise \/ job.op \notin bitwise \cup others
  OBVIOUS
<1>10. CASE job.op \in {"ADD", "ADD_I", "ADDI"}
  BY <1>2, <1>10 DEF ArithmeticIsExact
<1>11. CASE job.op = "SUB"
  BY <1>3, <1>11 DEF ArithmeticIsExact
<1>12. CASE job.op \in {"CMP", "CMP_I"}
  BY <1>3, <1>12 DEF ArithmeticIsExact
<1>13. CASE job.op \in {"SHL", "SHL_I"}
  BY <1>4, <1>13 DEF ArithmeticIsExact
<1>14. CASE job.op \in {"SHR", "SHR_I"}
  BY <1>4, <1>14 DEF ArithmeticIsExact
<1>15. CASE job.op \in {"SAR", "SAR_I"}
  BY <1>4, <1>15 DEF ArithmeticIsExact
<1>16. CASE job.op = "MUL"
  BY <1>5, <1>16 DEF ArithmeticIsExact
<1>17. CASE job.op = "MULU"
  BY <1>5, <1>17 DEF ArithmeticIsExact
<1>18. CASE job.op = "DIVU"
  BY <1>6, <1>18 DEF ArithmeticIsExact
<1>19. CASE job.op = "DIV"
  BY <1>7, <1>19 DEF ArithmeticIsExact
<1>20. CASE job.op = "CAXI"
  BY <1>8, <1>20 DEF ArithmeticIsExact
<1>21. CASE job.op \in bitwise
  <2>1. LET x == Ones(Source)  y == Ones(Target)
        IN /\ job.op \in {"OR", "ORI"} => Combined(x \cup y)
           /\ job.op \in {"AND", "ANDI"} => Combined(x \cap y)
           /\ job.op \in {"XOR", "XORI"} => Combined((x \cup y) \ (x \cap y))
           /\ job.op = "NOT" => Combined((0 .. W - 1) \ x)
    BY <1>1, <1>21, LogicExact
  <2> QED
    BY <1>21, <2>1 DEF ArithmeticIsExact, Logics
<1>22. CASE job.op \notin bitwise \cup others
  BY <1>22 DEF ArithmeticIsExact, Logics
<1> QED
  BY <1>22, <1>9, <1>10, <1>11, <1>12, <1>13, <1>14, <1>15, <1>16, <1>17, <1>18, <1>19, <1>20, <1>21

\* Whatever states a program is in and whatever instructions it executes there,
\* at each of the widths: every integer instruction of the interpreter computes
\* what the integers say (v810_oploop.inc).
THEOREM ArithmeticExact == ArithmeticSpec => []ArithmeticIsExact
<1>1. ArithmeticAssumption
  BY ArithmeticAssumption
<1>2. Rest => Executed
  BY DEF Rest, Executed
<1>3. Executed /\ [ExecuteInteger \/ Forget]_arithmetic => Executed'
  <2> SUFFICES ASSUME Executed, [ExecuteInteger \/ Forget]_arithmetic
               PROVE  Executed'
    OBVIOUS
  <2>1. CASE ExecuteInteger
    <3>1. PICK d \in States : \E i \in Code(d) : Perform(d, i)
      BY <2>1 DEF ExecuteInteger
    <3>2. PICK i \in Code(d) : Perform(d, i)
      BY <3>1
    <3>3. d \in Machines /\ i \in Instructions
      BY <1>1 DEF ArithmeticAssumption
    <3> QED
      BY <3>2, <3>3 DEF Perform, Executed
  <2>2. CASE Forget
    BY <2>2 DEF Forget, Executed
  <2>3. CASE UNCHANGED arithmetic
    BY <2>3 DEF arithmetic, Executed
  <2> QED
    BY <2>1, <2>2, <2>3
<1>4. Executed => ArithmeticIsExact
  BY <1>1, ExecutedExact
<1> QED
  BY <1>2, <1>3, <1>4, PTL DEF ArithmeticSpec

-----------------------------------------------------------------------------
(* The blocks that jit_translate emits.  A block is executed one instruction *)
(* after another: Traces lists the states it goes through, Leads says that it *)
(* takes s to t.  Leads composes over concatenation, and Run computes the  *)
(* machine to which it leads.                                              *)

\* at[k] is the state after k instructions of the block.
Traces(at, emitted, junk, s) == at[0] = s /\ \A k \in 1 .. Len(emitted) : at[k] = Do(at[k - 1], emitted[k], junk)
Leads(emitted, junk, s, t) ==
  /\ \E A : emitted \in Seq(A)
  /\ \E at : Traces(at, emitted, junk, s) /\ at[Len(emitted)] = t

LEMMA SeqJoin ==
  ASSUME NEW A, NEW B, NEW p \in Seq(A), NEW q \in Seq(B)
  PROVE  /\ p \o q \in Seq(A \cup B) /\ Len(p) \in Nat /\ Len(q) \in Nat /\ Len(p \o q) = Len(p) + Len(q)
         /\ \A k \in 1 .. Len(p) : (p \o q)[k] = p[k]
         /\ \A k \in 1 .. Len(q) : (p \o q)[Len(p) + k] = q[k]
<1>1. p \in Seq(A \cup B) /\ q \in Seq(A \cup B)
  OBVIOUS
<1> QED
  BY <1>1

LEMMA LeadsOne ==
  ASSUME NEW junk, NEW s, NEW u
  PROVE  Leads(<<u>>, junk, s, Do(s, u, junk))
<1> DEFINE at == [k \in 0..1 |-> IF k = 0 THEN s ELSE Do(s, u, junk)]
<1>1. <<u>> \in Seq({u}) /\ Len(<<u>>) = 1
  OBVIOUS
<1>2. at[0] = s /\ at[1] = Do(s, u, junk)
  OBVIOUS
<1>3. \A k \in 1..1 : at[k] = Do(at[k - 1], <<u>>[k], junk)
  BY <1>2
<1> QED
  BY <1>1, <1>2, <1>3 DEF Leads, Traces

LEMMA LeadsNone ==
  ASSUME NEW junk, NEW s
  PROVE  Leads(<<>>, junk, s, s)
<1>1. <<>> \in Seq({}) /\ Len(<<>>) = 0
  OBVIOUS
<1>2. Traces([k \in {0} |-> s], <<>>, junk, s)
  BY <1>1 DEF Traces
<1> QED
  BY <1>1, <1>2 DEF Leads

LEMMA LeadsOn ==
  ASSUME NEW p, NEW q, NEW junk, NEW s, NEW t, NEW z, Leads(p, junk, s, t), Leads(q, junk, t, z)
  PROVE  Leads(p \o q, junk, s, z)
<1>1. PICK A : p \in Seq(A)
  BY DEF Leads
<1>2. PICK B : q \in Seq(B)
  BY DEF Leads
<1>3. PICK a : Traces(a, p, junk, s) /\ a[Len(p)] = t
  BY DEF Leads
<1>4. PICK b : Traces(b, q, junk, t) /\ b[Len(q)] = z
  BY DEF Leads
<1> DEFINE m == Len(p)
           l == Len(q)
           at == [k \in 0 .. m + l |-> IF k <= m THEN a[k] ELSE b[k - m]]
<1>5. /\ p \o q \in Seq(A \cup B) /\ m \in Nat /\ l \in Nat /\ Len(p \o q) = m + l
      /\ \A k \in 1 .. m : (p \o q)[k] = p[k]
      /\ \A k \in 1 .. l : (p \o q)[m + k] = q[k]
  BY <1>1, <1>2, SeqJoin
<1> HIDE DEF m, l
<1>6. at[0] = s
  BY <1>3, <1>5 DEF Traces
<1>7. at[m + l] = z
  <2>1. CASE l = 0
    <3>1. z = t
      BY <1>4, <2>1 DEF Traces, l
    <3> QED
      BY <1>3, <1>5, <2>1, <3>1 DEF m
  <2>2. CASE l # 0
    <3>1. at[m + l] = b[l]
      BY <1>5, <2>2
    <3> QED
      BY <1>4, <3>1 DEF l
  <2> QED
    BY <2>1, <2>2
<1>8. ASSUME NEW k \in 1 .. m + l PROVE at[k] = Do(at[k - 1], (p \o q)[k], junk)
  <2>1. CASE k <= m
    <3>1. k \in 1 .. m /\ k - 1 \in 0 .. m /\ k - 1 \in 0 .. m + l /\ k \in 0 .. m + l
      BY <1>5, <2>1
    <3>2. at[k] = a[k] /\ at[k - 1] = a[k - 1]
      BY <3>1, <2>1
    <3>3. a[k] = Do(a[k - 1], p[k], junk)
      BY <1>3, <3>1 DEF Traces, m
    <3> QED
      BY <1>5, <3>1, <3>2, <3>3
  <2>2. CASE k > m
    <3> DEFINE i == k - m
    <3>1. i \in 1 .. l /\ i - 1 \in 0 .. l /\ k = m + i /\ k - 1 \in 0 .. m + l /\ k \in 0 .. m + l /\ ~(k <= m)
      BY <1>5, <2>2
    <3>2. at[k] = b[i]
      BY <3>1
    <3>3. at[k - 1] = b[i - 1]
      <4>1. CASE i = 1
        <5>1. k - 1 = m
          BY <1>5, <3>1, <4>1
        <5>2. at[k - 1] = a[m] /\ i - 1 = 0
          BY <1>5, <3>1, <4>1, <5>1
        <5> QED
          BY <1>3, <1>4, <5>2 DEF Traces, m
      <4>2. CASE i # 1
        <5>1. ~(k - 1 <= m) /\ (k - 1) - m = i - 1
          BY <1>5, <3>1, <4>2
        <5> QED
          BY <3>1, <5>1
      <4> QED
        BY <4>1, <4>2
    <3>4. b[i] = Do(b[i - 1], q[i], junk)
      BY <1>4, <3>1 DEF Traces, l
    <3>5. (p \o q)[m + i] = q[i]
      BY <1>5, <3>1
    <3> HIDE DEF i, at
    <3>6. (p \o q)[k] = q[i]
      BY <3>1, <3>5
    <3> QED
      BY <3>2, <3>3, <3>4, <3>6
  <2> QED
    BY <1>5, <2>1, <2>2, SMTT(60)
<1>9. Traces(at, p \o q, junk, s) /\ at[Len(p \o q)] = z
  BY <1>5, <1>6, <1>7, <1>8 DEF Traces
<1> QED
  BY <1>5, <1>9 DEF Leads

LEMMA LeadsExec ==
  ASSUME NEW emitted, NEW junk, NEW s, NEW t, Leads(emitted, junk, s, t)
  PROVE  Exec(s, emitted, junk) = t
<1> DEFINE m == Len(emitted)
           Is(f) == f = [k \in 0 .. Len(emitted) |-> IF k = 0 THEN s ELSE Do(f[k - 1], emitted[k], junk)]
<1>1. PICK a : Traces(a, emitted, junk, s) /\ a[m] = t
  BY DEF Leads
<1>2. m \in Nat
  BY DEF Leads
<1> DEFINE b == [k \in 0 .. m |-> a[k]]
<1>3. Is(b)
  <2>1. ASSUME NEW k \in 0 .. m, k # 0 PROVE a[k] = Do(b[k - 1], emitted[k], junk)
    <3>1. k \in 1 .. m /\ k - 1 \in 0 .. m
      BY <1>2, <2>1
    <3>2. b[k - 1] = a[k - 1]
      BY <3>1
    <3> HIDE DEF b
    <3> QED
      BY <1>1, <3>1, <3>2 DEF Traces
  <2>2. a[0] = s
    BY <1>1 DEF Traces
  <2>3. \A k \in 0 .. m : b[k] = IF k = 0 THEN s ELSE Do(b[k - 1], emitted[k], junk)
    BY <2>1, <2>2
  <2> QED
    BY <2>3
<1> DEFINE f == CHOOSE g : Is(g)
<1>4. Exec(s, emitted, junk) = f[m]
  BY DEF Exec
<1>5. Is(f)
  <2> HIDE DEF Is
  <2> QED
    BY <1>3
<1> HIDE DEF f
<1>6. \A k \in 0 .. m : f[k] = a[k]
  <2> DEFINE T == {k \in 0 .. m : f[k] = a[k]}
  <2>1. 0 \in T
    BY <1>1, <1>2, <1>5 DEF Traces
  <2>2. ASSUME NEW k \in T, k < m PROVE k + 1 \in T
    <3>1. k + 1 \in 1 .. m /\ k + 1 \in 0 .. m /\ (k + 1) - 1 = k /\ k + 1 # 0
      BY <1>2, <2>2
    <3>2. f[k + 1] = Do(f[k], emitted[k + 1], junk)
      BY <1>5, <3>1
    <3>3. a[k + 1] = Do(a[k], emitted[k + 1], junk)
      BY <1>1, <3>1 DEF Traces
    <3>4. f[k] = a[k]
      BY <2>2
    <3> QED
      BY <3>1, <3>2, <3>3, <3>4
  <2>3. T = 0 .. m
    <3>1. T \in SUBSET (0 .. m)
      OBVIOUS
    <3> HIDE DEF T
    <3> QED BY <1>2, <2>1, <2>2, <3>1, InductionUpTo
  <2> QED
    BY <2>3
<1> QED
  BY <1>1, <1>2, <1>4, <1>6

-----------------------------------------------------------------------------
(* The places of a word one by one: masks, shifts, alignments and flags.   *)

LEMMA SmallPower ==
  ASSUME NEW k \in 0..31
  PROVE  (k >= 1 => 2^k >= 2) /\ (k >= 2 => 2^k >= 4) /\ (k >= 4 => 2^k >= 16)
<1>0. k \in 0..32
  BY SMT
<1>1. Powers[k] = 2^k
  BY <1>0, PowerAt, Zenon
<1>2. (k >= 1 => Powers[k] >= 2) /\ (k >= 2 => Powers[k] >= 4) /\ (k >= 4 => Powers[k] >= 16)
  BY Places, PowerList, SMT
<1> QED
  BY <1>1, <1>2, Zenon

LEMMA HighPlace ==
  ASSUME NEW k \in 0..31, NEW x \in Nat, x < 2^k
  PROVE  Bit(x, k) = 0
<1>1. 2^k \in Nat /\ 2^k > 0
  BY PowersAre
<1>2. x \div 2^k = 0
  BY <1>1, QuotientIs, SMT
<1> QED
  BY <1>2, SMT DEF Bit

LEMMA MultiplePlace ==
  ASSUME NEW j \in 0..31, NEW k \in 0..31, j < k, NEW h \in Nat
  PROVE  h * 2^k \in Nat /\ Bit(h * 2^k, j) = 0
<1> DEFINE m == k - j - 1
<1>1. m \in 0..31 /\ m + 1 \in 0..32 /\ j + (m + 1) = k /\ j + (m + 1) <= 32
  BY SMT
<1>2. 2^j \in Nat /\ 2^j > 0 /\ 2^m \in Nat /\ 2^(m + 1) = 2 * 2^m /\ j \in 0..32
  <2>1. j \in 0..32
    BY SMT
  <2> QED
    BY <1>1, <2>1, PowersAre
<1>3. 2^k = 2^j * 2^(m + 1)
  BY <1>1, <1>2, PowerSplits
<1>4. \A p, q \in Nat : p > 0 => h * (p * (2 * q)) = (2 * (h * q)) * p /\ (2 * (h * q)) * p \in Nat /\ h * q \in Nat
  BY SMT
<1> DEFINE e == h * 2^m
<1>5. h * 2^k = (2 * e) * 2^j /\ (2 * e) * 2^j \in Nat /\ e \in Nat
  BY <1>2, <1>3, <1>4
<1> HIDE DEF m, e
<1>6. (h * 2^k) \div 2^j = 2 * e
  <2>1. 2 * e \in Int /\ (2 * e) * 2^j <= h * 2^k /\ h * 2^k < ((2 * e) * 2^j) + 2^j /\ h * 2^k \in Int /\ 2^j \in Int
    BY <1>2, <1>5, SMT
  <2> QED
    BY <1>2, <2>1, QuotientIs
<1>7. (2 * e) % 2 = 0
  BY <1>5, SMT
<1>8. h * 2^k \in Nat
  BY <1>5
<1>9. Bit(h * 2^k, j) = 0
  BY <1>6, <1>7, Zenon DEF Bit
<1> QED
  BY <1>8, <1>9

LEMMA PlaceBits ==
  ASSUME ArithmeticAssumption, NEW k \in 0 .. W - 1
  PROVE  2^k \in WordValues /\ \A j \in 0 .. W - 1 : Bit(2^k, j) = IF j = k THEN 1 ELSE 0
<1>0. k \in 0..31 /\ 2^k \in Nat /\ 2^k > 0 /\ W \in Nat
  BY PlacePower, WordFacts
<1>1. 2^k \in WordValues
  <2>1. W - k \in 0..32 /\ k + (W - k) = W /\ k \in 0..32 /\ (W - k) - 1 \in 0..31 /\ ((W - k) - 1) + 1 = W - k
    BY <1>0, WordFacts, SMT
  <2>2. Base = 2^k * 2^(W - k)
    <3>1. 2^(k + (W - k)) = 2^k * 2^(W - k)
      BY <2>1, PowerSplits, WordFacts
    <3>2. 2^(k + (W - k)) = 2^W
      BY <2>1
    <3> QED
      BY <3>1, <3>2, Zenon DEF Base
  <2>3. 2^(W - k) = 2 * 2^((W - k) - 1) /\ 2^((W - k) - 1) \in Nat /\ 2^((W - k) - 1) > 0
    BY <2>1, PowersAre
  <2>4. \A p, q \in Nat : p > 0 /\ q > 0 => p < p * (2 * q)
    BY SMT
  <2>5. 2^k < Base
    BY <1>0, <2>2, <2>3, <2>4
  <2> QED
    BY <1>0, <2>5, WordFacts, SMT DEF WordValues
<1>2. ASSUME NEW j \in 0 .. W - 1 PROVE Bit(2^k, j) = IF j = k THEN 1 ELSE 0
  <2>0. j \in 0..31 /\ 2^j \in Nat /\ 2^j > 0
    BY PlacePower
  <2>1. CASE j < k
    <3>1. 1 * 2^k = 2^k
      BY <1>0
    <3>2. Bit(1 * 2^k, j) = 0
      BY <1>0, <2>0, <2>1, MultiplePlace
    <3> QED
      BY <1>0, <2>0, <2>1, <3>1, <3>2
  <2>2. CASE j = k
    <3>1. 1 * 2^k <= 2^k /\ 2^k < (1 * 2^k) + 2^k
      BY <1>0, SMT
    <3>2. 2^k \div 2^k = 1
      BY <1>0, <3>1, QuotientIs
    <3>4. 1 % 2 = 1
      OBVIOUS
    <3>3. Bit(2^k, k) = 1
      BY <3>2, <3>4, Zenon DEF Bit
    <3> QED
      BY <2>2, <3>3
  <2>3. CASE j > k
    <3>1. k + (j - k) = j /\ j - k \in 0..32 /\ k \in 0..32 /\ (j - k) - 1 \in 0..31 /\ ((j - k) - 1) + 1 = j - k /\ k + (j - k) <= 32
      BY <1>0, <2>0, <2>3, SMT
    <3>2. 2^j = 2^k * 2^(j - k)
      BY <3>1, PowerSplits
    <3>3. 2^(j - k) = 2 * 2^((j - k) - 1) /\ 2^((j - k) - 1) \in Nat /\ 2^((j - k) - 1) > 0
      BY <3>1, PowersAre
    <3>4. \A p, q \in Nat : p > 0 /\ q > 0 => p < p * (2 * q)
      BY SMT
    <3>5. 2^k < 2^j
      BY <1>0, <3>2, <3>3, <3>4
    <3>6. Bit(2^k, j) = 0
      BY <1>0, <2>0, <3>5, HighPlace
    <3>7. j # k
      BY <1>0, <2>0, <2>3, SMT
    <3> QED
      BY <3>6, <3>7
  <2> QED
    BY <1>0, <2>0, <2>1, <2>2, <2>3
<1> QED
  BY <1>1, <1>2

LEMMA ZeroBits ==
  ASSUME ArithmeticAssumption
  PROVE  0 \in WordValues /\ \A j \in 0 .. W - 1 : Bit(0, j) = 0
<1>1. 0 \in WordValues
  BY WordFacts, SMT DEF WordValues
<1>2. ASSUME NEW j \in 0 .. W - 1 PROVE Bit(0, j) = 0
  BY PlacePower, HighPlace
<1> QED
  BY <1>1, <1>2

LEMMA WordBit ==
  ASSUME ArithmeticAssumption, NEW x \in Int, NEW k \in 0 .. W - 1
  PROVE  Bit(x, k) \in {0, 1}
BY BitOfNumber

\* What is left of a word under a single one.
LEMMA AndPlace ==
  ASSUME ArithmeticAssumption, NEW x \in Int, NEW k \in 0 .. W - 1
  PROVE  And(x, 2^k) = IF Bit(x, k) = 1 THEN 2^k ELSE 0
<1> DEFINE p == 2^k
           v == IF Bit(x, k) = 1 THEN p ELSE 0
<1>1. p \in WordValues /\ p \in Int /\ \A j \in 0 .. W - 1 : Bit(p, j) = IF j = k THEN 1 ELSE 0
  BY PlaceBits, Wraps
<1> HIDE DEF p
<1>2. And(x, p) \in WordValues /\ \A j \in 0 .. W - 1 : Bit(And(x, p), j) = Bit(x, j) * Bit(p, j)
  BY <1>1, AndIs
<1>3. v \in WordValues
  BY <1>1, ZeroBits
<1>4. ASSUME NEW j \in 0 .. W - 1 PROVE Bit(And(x, p), j) = Bit(v, j)
  <2>1. Bit(x, j) \in {0, 1} /\ Bit(x, k) \in {0, 1}
    BY WordBit
  <2>2. Bit(And(x, p), j) = IF j = k THEN Bit(x, k) ELSE 0
    BY <1>1, <1>2, <2>1
  <2>3. Bit(v, j) = IF Bit(x, k) = 1 THEN (IF j = k THEN 1 ELSE 0) ELSE 0
    BY <1>1, ZeroBits
  <2> QED
    BY <2>1, <2>2, <2>3
<1>5. And(x, p) = v
  BY <1>2, <1>3, <1>4, SameBits
<1> QED
  BY <1>5 DEF p

\* And does not mind the order.
LEMMA AndTurned ==
  ASSUME ArithmeticAssumption, NEW x \in Int, NEW y \in Int
  PROVE  And(x, y) = And(y, x) /\ Or(x, y) = Or(y, x) /\ Xor(x, y) = Xor(y, x)
<1>1. /\ And(x, y) \in WordValues /\ And(y, x) \in WordValues
      /\ \A k \in 0 .. W - 1 : Bit(And(x, y), k) = Bit(x, k) * Bit(y, k) /\ Bit(And(y, x), k) = Bit(y, k) * Bit(x, k)
  BY AndIs
<1>2. ASSUME NEW k \in 0 .. W - 1 PROVE Bit(x, k) * Bit(y, k) = Bit(y, k) * Bit(x, k)
  <2>1. Bit(x, k) \in {0, 1} /\ Bit(y, k) \in {0, 1}
    BY WordBit
  <2> QED
    BY <2>1
<1>3. And(x, y) = And(y, x)
  BY <1>1, <1>2, SameBits
<1>4. x + y = y + x
  OBVIOUS
<1> QED
  BY <1>3, <1>4 DEF Or, Xor

\* Clearing the places of a mask takes away what they hold.
LEMMA BicIs ==
  ASSUME ArithmeticAssumption, NEW x \in WordValues, NEW y \in WordValues
  PROVE  /\ And(x, Not(y)) = x - And(x, y) /\ And(x, Not(y)) \in WordValues
         /\ \A k \in 0 .. W - 1 : Bit(And(x, Not(y)), k) = IF Bit(y, k) = 1 THEN 0 ELSE Bit(x, k)
<1> DEFINE a == And(x, y)
           v == Xor(x, a)
<1>0. x \in Int /\ y \in Int
  BY Wraps
<1>1. a \in WordValues /\ a \in Int /\ \A k \in 0 .. W - 1 : Bit(a, k) = Bit(x, k) * Bit(y, k)
  BY <1>0, AndIs, Wraps
<1>2. Not(y) \in WordValues /\ Not(y) \in Int /\ \A k \in 0 .. W - 1 : Bit(Not(y), k) = 1 - Bit(y, k)
  BY NotIs, Wraps
<1>3. And(x, Not(y)) \in WordValues /\ \A k \in 0 .. W - 1 : Bit(And(x, Not(y)), k) = Bit(x, k) * Bit(Not(y), k)
  BY <1>0, <1>2, AndIs
<1> HIDE DEF a
<1>4. And(x, a) \in WordValues /\ \A k \in 0 .. W - 1 : Bit(And(x, a), k) = Bit(x, k) * Bit(a, k)
  BY <1>0, <1>1, AndIs
<1>5. v \in WordValues /\ \A k \in 0 .. W - 1 : Bit(v, k) = (Bit(x, k) + Bit(a, k)) - (2 * (Bit(x, k) * Bit(a, k)))
  BY <1>1, XorIs
<1>6. ASSUME NEW k \in 0 .. W - 1 PROVE Bit(x, k) \in {0, 1} /\ Bit(y, k) \in {0, 1}
  BY <1>0, WordBit
<1>7. And(x, a) = a
  <2>1. ASSUME NEW k \in 0 .. W - 1 PROVE Bit(And(x, a), k) = Bit(a, k)
    <3>1. \A p, q \in {0, 1} : p * (p * q) = p * q
      OBVIOUS
    <3> QED
      BY <1>1, <1>4, <1>6, <3>1
  <2> QED
    BY <1>1, <1>4, <2>1, SameBits
<1>8. v = x - a
  BY <1>0, <1>1, <1>7 DEF Xor
<1>9. ASSUME NEW k \in 0 .. W - 1
      PROVE  /\ Bit(x, k) * Bit(Not(y), k) = (IF Bit(y, k) = 1 THEN 0 ELSE Bit(x, k))
             /\ Bit(v, k) = (IF Bit(y, k) = 1 THEN 0 ELSE Bit(x, k))
  <2>1. Bit(x, k) \in {0, 1} /\ Bit(y, k) \in {0, 1}
    BY <1>6
  <2>2. \A p, q \in {0, 1} : /\ p * (1 - q) = (IF q = 1 THEN 0 ELSE p)
                             /\ (p + (p * q)) - (2 * (p * (p * q))) = (IF q = 1 THEN 0 ELSE p)
    OBVIOUS
  <2>3. Bit(a, k) = Bit(x, k) * Bit(y, k) /\ Bit(Not(y), k) = 1 - Bit(y, k)
    BY <1>1, <1>2
  <2>4. Bit(v, k) = (Bit(x, k) + Bit(a, k)) - (2 * (Bit(x, k) * Bit(a, k)))
    BY <1>5
  <2> QED
    BY <2>1, <2>2, <2>3, <2>4
<1> HIDE DEF v
<1>10. And(x, Not(y)) = v
  <2>1. \A k \in 0 .. W - 1 : Bit(And(x, Not(y)), k) = Bit(v, k)
    BY <1>3, <1>9
  <2> QED
    BY <1>3, <1>5, <2>1, SameBits
<1> QED
  BY <1>3, <1>5, <1>8, <1>9, <1>10 DEF a

LEMMA NestedQuotient ==
  ASSUME NEW x \in Nat, NEW p \in Nat, NEW q \in Nat, p > 0, q > 0
  PROVE  (x \div p) \div q = x \div (p * q)
<1> DEFINE a == x \div p
           b == a \div q
<1>1. a \in Int /\ a * p <= x /\ x < (a * p) + p
  BY QuotientBounds
<1> HIDE DEF a
<1>2. b \in Int /\ b * q <= a /\ a < (b * q) + q
  BY <1>1, QuotientBounds
<1> HIDE DEF b
<1>3. (b * q) * p <= a * p
  BY <1>1, <1>2, SMT
<1>4. (a + 1) * p <= ((b * q) + q) * p /\ (a + 1) * p = (a * p) + p
  BY <1>1, <1>2, SMT
<1>5. b * (p * q) = (b * q) * p /\ (b * (p * q)) + (p * q) = ((b * q) + q) * p
  BY <1>2, SMT
<1>6. p * q \in Int /\ p * q > 0
  BY SMT
<1>7. x \div (p * q) = b
  BY <1>1, <1>2, <1>3, <1>4, <1>5, <1>6, QuotientIs
<1> QED
  BY <1>7 DEF a, b

\* The places of a word shifted to the right.
LEMMA ShiftedPlace ==
  ASSUME NEW x \in Nat, NEW m \in 0..31, NEW k \in 0..31, m + k <= 31
  PROVE  x \div 2^m \in Nat /\ Bit(x \div 2^m, k) = Bit(x, m + k)
<1>1. 2^m \in Nat /\ 2^m > 0 /\ 2^k \in Nat /\ 2^k > 0
  BY PowersAre
<1>2. 2^(m + k) = 2^m * 2^k
  <2>1. m \in 0..32 /\ k \in 0..32 /\ m + k <= 32
    BY SMT
  <2> QED
    BY <2>1, PowerSplits
<1>3. (x \div 2^m) \div 2^k = x \div (2^m * 2^k)
  BY <1>1, NestedQuotient
<1>4. \A p \in Nat : p > 0 => x \div p \in Nat
  BY SMT
<1>5. Bit(x \div 2^m, k) = Bit(x, m + k)
  BY <1>2, <1>3, Zenon DEF Bit
<1> QED
  BY <1>1, <1>4, <1>5

\* The two and the four lowest places of a number.
LEMMA LowPlaces ==
  /\ 2^0 = 1 /\ 2^1 = 2 /\ 2^2 = 4 /\ 2^3 = 8
  /\ \A x \in Int : Bit(x, 0) = x % 2 /\ Bit(x, 1) = (x \div 2) % 2 /\ Bit(x, 2) = (x \div 4) % 2 /\ Bit(x, 3) = (x \div 8) % 2
<1>1. 2^0 = 1 /\ 2^1 = 2 /\ 2^2 = 4 /\ 2^3 = 8
  BY SMT
<1>2. \A x \in Int : x \div 1 = x
  BY SMT
<1> QED
  BY <1>1, <1>2, Zenon DEF Bit

LEMMA MaskPlaces ==
  /\ Bit(1, 0) = 1 /\ Bit(1, 1) = 0 /\ Bit(1, 2) = 0 /\ Bit(1, 3) = 0
  /\ Bit(3, 0) = 1 /\ Bit(3, 1) = 1 /\ Bit(3, 2) = 0 /\ Bit(3, 3) = 0
  /\ Bit(8, 0) = 0 /\ Bit(8, 1) = 0 /\ Bit(8, 2) = 0 /\ Bit(8, 3) = 1
  /\ Bit(9, 0) = 1 /\ Bit(9, 1) = 0 /\ Bit(9, 2) = 0 /\ Bit(9, 3) = 1
  /\ Bit(11, 0) = 1 /\ Bit(11, 1) = 1 /\ Bit(11, 2) = 0 /\ Bit(11, 3) = 1
  /\ Bit(15, 0) = 1 /\ Bit(15, 1) = 1 /\ Bit(15, 2) = 1 /\ Bit(15, 3) = 1
BY LowPlaces, SMT

LEMMA NibblePlaces ==
  ASSUME ArithmeticAssumption, NEW x \in 0..15
  PROVE  x \in WordValues /\ (\A k \in 0 .. W - 1 : k >= 4 => Bit(x, k) = 0)
         /\ (x <= 3 => \A k \in 0 .. W - 1 : k >= 2 => Bit(x, k) = 0)
<1>1. x \in WordValues /\ x \in Nat
  BY WordFacts, Widths, SMT DEF WordValues
<1>2. ASSUME NEW k \in 0 .. W - 1, k >= 4 PROVE Bit(x, k) = 0
  <2>1. k \in 0..31 /\ 2^k >= 16 /\ 2^k \in Nat
    BY <1>2, PlacePower, SmallPower
  <2>2. x < 2^k
    BY <2>1
  <2> QED
    BY <1>1, <2>1, <2>2, HighPlace
<1>3. ASSUME x <= 3, NEW k \in 0 .. W - 1, k >= 2 PROVE Bit(x, k) = 0
  <2>1. k \in 0..31 /\ 2^k >= 4 /\ 2^k \in Nat
    BY <1>3, PlacePower, SmallPower
  <2>2. x < 2^k
    BY <1>3, <2>1
  <2> QED
    BY <1>1, <2>1, <2>2, HighPlace
<1> QED
  BY <1>1, <1>2, <1>3

\* Aligned down to two and to four.
LEMMA AlignedIs ==
  ASSUME ArithmeticAssumption, NEW x \in WordValues
  PROVE  And(x, Not(1)) = x - (x % 2) /\ And(x, Not(3)) = x - (x % 4)
<1>0. x \in Int /\ x \in Nat /\ 0 \in 0 .. W - 1 /\ 1 \in 0 .. W - 1 /\ 1 \in WordValues /\ 3 \in WordValues
  <2>1. x \in Int /\ x \in Nat /\ 0 \in 0 .. W - 1 /\ 1 \in 0 .. W - 1
    BY WordFacts, SMT DEF WordValues
  <2> QED
    BY <2>1, NibblePlaces, SMT
<1>1. And(x, 1) = x % 2
  <2>1. And(x, 2^0) = IF Bit(x, 0) = 1 THEN 2^0 ELSE 0
    BY <1>0, AndPlace
  <2>2. And(x, 1) = IF x % 2 = 1 THEN 1 ELSE 0
    BY <1>0, <2>1, LowPlaces, Zenon
  <2> QED
    BY <1>0, <2>2
<1>2. And(x, 3) = x % 4
  <2> DEFINE y == x % 4
  <2>1. y \in 0..3 /\ y \in 0..15 /\ y \in Int
    BY <1>0
  <2>2. Bit(y, 0) = Bit(x, 0) /\ Bit(y, 1) = Bit(x, 1)
    <3>1. y % 2 = x % 2 /\ (y \div 2) % 2 = (x \div 2) % 2
      BY <1>0
    <3> HIDE DEF y
    <3> QED
      BY <1>0, <2>1, <3>1, LowPlaces, ZenonT(60)
  <2> HIDE DEF y
  <2>3. y \in WordValues /\ \A k \in 0 .. W - 1 : k >= 2 => Bit(y, k) = 0
    BY <2>1, NibblePlaces
  <2>4. \A k \in 0 .. W - 1 : k >= 2 => Bit(3, k) = 0
    BY NibblePlaces
  <2>5. And(x, 3) \in WordValues /\ \A k \in 0 .. W - 1 : Bit(And(x, 3), k) = Bit(x, k) * Bit(3, k)
    BY <1>0, AndIs
  <2>6. ASSUME NEW k \in 0 .. W - 1 PROVE Bit(And(x, 3), k) = Bit(y, k)
    <3>1. Bit(x, k) \in {0, 1} /\ Bit(x, 0) \in {0, 1} /\ Bit(x, 1) \in {0, 1}
      BY <1>0, WordBit
    <3>2. CASE k = 0
      BY <2>2, <2>5, <3>1, <3>2, MaskPlaces
    <3>3. CASE k = 1
      BY <2>2, <2>5, <3>1, <3>3, MaskPlaces
    <3>4. CASE k >= 2
      <4>1. Bit(And(x, 3), k) = Bit(x, k) * 0
        BY <2>4, <2>5, <3>4
      <4> QED
        BY <2>3, <3>1, <3>4, <4>1
    <3> QED
      BY <3>2, <3>3, <3>4, WordFacts
  <2>7. And(x, 3) = y
    BY <2>3, <2>5, <2>6, SameBits
  <2> QED
    BY <2>7 DEF y
<1> QED
  BY <1>0, <1>1, <1>2, BicIs

\* Setting a flag sets one place of a word.
LEMMA SetPlace ==
  ASSUME ArithmeticAssumption, NEW x \in WordValues, NEW k \in 0 .. W - 1, NEW on \in BOOLEAN
  PROVE  /\ SetFlag(x, k, on) \in WordValues
         /\ \A j \in 0 .. W - 1 : Bit(SetFlag(x, k, on), j) = IF j = k THEN (IF on THEN 1 ELSE 0) ELSE Bit(x, j)
<1> DEFINE p == 2^k
           a == And(x, p)
           f == SetFlag(x, k, on)
<1>1. p \in WordValues /\ p \in Int /\ \A j \in 0 .. W - 1 : Bit(p, j) = IF j = k THEN 1 ELSE 0
  BY PlaceBits, Wraps
<1>2. x \in Int /\ \A j \in 0 .. W - 1 : Bit(x, j) \in {0, 1}
  BY Wraps, WordBit
<1>3. a = Bit(x, k) * p
  <2>1. a = IF Bit(x, k) = 1 THEN p ELSE 0
    BY <1>2, AndPlace
  <2>2. Bit(x, k) \in {0, 1}
    BY <1>2
  <2> HIDE DEF p, a
  <2> QED
    BY <1>1, <2>1, <2>2
<1>4. f = (x + (IF on THEN p ELSE 0)) - (Bit(x, k) * p)
  BY DEF SetFlag
<1>5. a \in WordValues /\ a \in Int
  BY <1>1, <1>2, AndIs, Wraps
<1>6. CASE on = TRUE
  <2>1. f = Or(x, p)
    BY <1>3, <1>4, <1>6 DEF Or
  <2>2. /\ Or(x, p) \in WordValues
        /\ \A j \in 0 .. W - 1 : Bit(Or(x, p), j) = (Bit(x, j) + Bit(p, j)) - (Bit(x, j) * Bit(p, j))
    BY <1>1, OrIs
  <2> HIDE DEF f, p
  <2>3. ASSUME NEW j \in 0 .. W - 1 PROVE Bit(f, j) = IF j = k THEN 1 ELSE Bit(x, j)
    <3>1. Bit(x, j) \in {0, 1}
      BY <1>2
    <3> QED
      BY <1>1, <2>1, <2>2, <3>1
  <2> QED
    BY <1>6, <2>1, <2>2, <2>3 DEF f
<1>7. CASE on = FALSE
  <2>1. f = x - a
    BY <1>2, <1>3, <1>4, <1>5, <1>7
  <2>2. And(x, Not(p)) = x - a
    BY <1>1, BicIs
  <2>3. f = And(x, Not(p))
    BY <2>1, <2>2, Zenon
  <2>4. /\ And(x, Not(p)) \in WordValues
        /\ \A j \in 0 .. W - 1 : Bit(And(x, Not(p)), j) = IF Bit(p, j) = 1 THEN 0 ELSE Bit(x, j)
    BY <1>1, BicIs
  <2> HIDE DEF f, p
  <2>5. ASSUME NEW j \in 0 .. W - 1 PROVE Bit(f, j) = IF j = k THEN 0 ELSE Bit(x, j)
    BY <1>1, <2>3, <2>4
  <2> QED
    BY <1>7, <2>3, <2>4, <2>5 DEF f
<1> QED
  BY <1>6, <1>7

\* A word put together from its halves.
LEMMA HalvesJoin ==
  ASSUME ArithmeticAssumption, NEW h \in 0 .. Half - 1, NEW l \in 0 .. Half - 1
  PROVE  Or(h * Half, l) = (h * Half) + l /\ h * Half \in WordValues /\ l \in WordValues
<1> DEFINE m == W \div 2
           x == h * Half
<1>0. m \in 1..31 /\ m \in 0..31 /\ m \in Nat
  BY Widths, SMT
<1>1. h \in Nat /\ l \in Nat /\ l \in WordValues /\ x \in WordValues /\ l < Half /\ Half \in Nat
  BY Widths, SMT DEF WordValues
<1>2. ASSUME NEW k \in 0 .. W - 1 PROVE Bit(x, k) = 0 \/ Bit(l, k) = 0
  <2>1. k \in 0..31
    BY PlacePower
  <2>2. CASE k < m
    <3>1. Bit(h * 2^m, k) = 0
      BY <1>0, <1>1, <2>1, <2>2, MultiplePlace
    <3> QED
      BY <3>1, Zenon DEF Half
  <2>3. CASE k >= m
    <3>1. k - m \in 0..32 /\ m \in 0..32 /\ m + (k - m) = k /\ k - m \in 0..31 /\ m + (k - m) <= 32
      BY <1>0, <2>1, <2>3
    <3>2. 2^k = 2^m * 2^(k - m)
      <4>1. 2^(m + (k - m)) = 2^m * 2^(k - m)
        BY <3>1, PowerSplits
      <4> QED
        BY <3>1, <4>1
    <3>3. 2^(k - m) \in Nat /\ 2^(k - m) > 0 /\ 2^m \in Nat /\ 2^m = Half
      BY <1>0, <3>1, PowersAre DEF Half
    <3>4. \A p, q \in Nat : q > 0 => p <= p * q
      BY SMT
    <3>5. l < 2^k
      <4>1. 2^m <= 2^m * 2^(k - m)
        BY <3>3, <3>4
      <4>2. 2^k \in Nat
        BY <2>1, PowersAre
      <4> QED
        BY <1>1, <3>2, <3>3, <4>1, <4>2
    <3> QED
      BY <1>1, <2>1, <3>5, HighPlace
  <2> HIDE DEF m, x
  <2> QED
    BY <1>0, <2>1, <2>2, <2>3
<1> HIDE DEF m, x
<1>3. And(x, l) \in WordValues /\ \A k \in 0 .. W - 1 : Bit(And(x, l), k) = Bit(x, k) * Bit(l, k)
  BY <1>1, AndIs, Wraps
<1>4. ASSUME NEW k \in 0 .. W - 1 PROVE Bit(And(x, l), k) = Bit(0, k)
  <2>1. Bit(x, k) \in {0, 1} /\ Bit(l, k) \in {0, 1}
    BY <1>1, Wraps, WordBit
  <2> QED
    BY <1>2, <1>3, <2>1, ZeroBits
<1>5. And(x, l) = 0
  BY <1>3, <1>4, ZeroBits, SameBits
<1> QED
  BY <1>1, <1>5, Wraps DEF Or, x

-----------------------------------------------------------------------------
(* The states of a block between two instructions, with machine d, scratch *)
(* registers r and APSR a, and where each kind of instruction leads.       *)

At(d, r, a) == [c |-> d, r |-> r, apsr |-> a, skip |-> 0]
\* The scratch registers r0 to r3, and a program register put and read.
Files == [0..3 -> WordValues]
Put(d, k, v) == IF k = 0 THEN d ELSE [d EXCEPT !.P[k] = v]
Held(d, k) == IF k = 0 THEN 0 ELSE d.P[k]

LEMMA LeadsLdrPreg ==
  ASSUME NEW junk, NEW d, NEW r, NEW a, NEW rt, NEW ri
  PROVE  Leads(<<LdrPreg(rt, ri)>>, junk, At(d, r, a), At(d, [r EXCEPT ![rt] = Held(d, ri)], a))
<1> DEFINE u == LdrPreg(rt, ri)
<1>1. u[1] = "LDP" /\ u[2] = rt /\ u[3] = ri
  BY DEF LdrPreg
<1> HIDE DEF u
<1>2. Do(At(d, r, a), u, junk) = At(d, [r EXCEPT ![rt] = Held(d, ri)], a)
  BY <1>1 DEF Do, At, Load, Held
<1> QED
  BY <1>2, LeadsOne DEF u

LEMMA LeadsStrPreg ==
  ASSUME NEW junk, NEW d, NEW r, NEW a, NEW rt, NEW ri
  PROVE  Leads(<<StrPreg(rt, ri)>>, junk, At(d, r, a), At(Put(d, ri, r[rt]), r, a))
<1> DEFINE u == StrPreg(rt, ri)
<1>1. u[1] = "STP" /\ u[2] = rt /\ u[3] = ri
  BY DEF StrPreg
<1> HIDE DEF u
<1>2. Do(At(d, r, a), u, junk) = At(Put(d, ri, r[rt]), r, a)
  BY <1>1 DEF Do, At, Put
<1> QED
  BY <1>2, LeadsOne DEF u

LEMMA LeadsLdrPsw ==
  ASSUME NEW junk, NEW d, NEW r, NEW a, NEW rt
  PROVE  Leads(<<LdrPsw(rt)>>, junk, At(d, r, a), At(d, [r EXCEPT ![rt] = d.psw], a))
<1> DEFINE u == LdrPsw(rt)
<1>1. u[1] = "LDPSW" /\ u[2] = rt
  BY DEF LdrPsw
<1> HIDE DEF u
<1>2. Do(At(d, r, a), u, junk) = At(d, [r EXCEPT ![rt] = d.psw], a)
  BY <1>1 DEF Do, At, Load
<1> QED
  BY <1>2, LeadsOne DEF u

LEMMA LeadsStrPsw ==
  ASSUME NEW junk, NEW d, NEW r, NEW a, NEW rt
  PROVE  Leads(<<StrPsw(rt)>>, junk, At(d, r, a), At([d EXCEPT !.psw = r[rt]], r, a))
<1> DEFINE u == StrPsw(rt)
<1>1. u[1] = "STPSW" /\ u[2] = rt
  BY DEF StrPsw
<1> HIDE DEF u
<1>2. Do(At(d, r, a), u, junk) = At([d EXCEPT !.psw = r[rt]], r, a)
  BY <1>1 DEF Do, At
<1> QED
  BY <1>2, LeadsOne DEF u

LEMMA LeadsMrs ==
  ASSUME NEW junk, NEW d, NEW r, NEW a, NEW rt
  PROVE  Leads(<<<<"MRS", rt>>>>, junk, At(d, r, a), At(d, [r EXCEPT ![rt] = a], a))
<1> DEFINE u == <<"MRS", rt>>
<1>1. u[1] = "MRS" /\ u[2] = rt
  OBVIOUS
<1> HIDE DEF u
<1>2. Do(At(d, r, a), u, junk) = At(d, [r EXCEPT ![rt] = a], a)
  BY <1>1 DEF Do, At, Load
<1> QED
  BY <1>2, LeadsOne DEF u

LEMMA LeadsMov32 ==
  ASSUME NEW junk, NEW d, NEW r, NEW a, NEW rt, NEW v
  PROVE  Leads(<<Mov32(rt, v)>>, junk, At(d, r, a), At(d, [r EXCEPT ![rt] = v % Base], a))
<1> DEFINE u == Mov32(rt, v)
<1>1. u[1] = "MOV32" /\ u[2] = rt /\ u[3] = v
  BY DEF Mov32
<1> HIDE DEF u
<1>2. Do(At(d, r, a), u, junk) = At(d, [r EXCEPT ![rt] = v % Base], a)
  BY <1>1 DEF Do, At, Load
<1> QED
  BY <1>2, LeadsOne DEF u

LEMMA LeadsClock ==
  ASSUME NEW junk, NEW d, NEW r, NEW a, NEW k
  PROVE  Leads(<<AddClock(k)>>, junk, At(d, r, a), At(Tick(d, k), r, a))
<1> DEFINE u == AddClock(k)
<1>1. u[1] = "CLOCK" /\ u[2] = k
  BY DEF AddClock
<1> HIDE DEF u
<1>2. Do(At(d, r, a), u, junk) = At(Tick(d, k), r, a)
  BY <1>1 DEF Do, At, Tick
<1> QED
  BY <1>2, LeadsOne DEF u

\* A call of the bus.
Called(d, f, r) == [d EXCEPT !.mem = CASE f = "w8" -> Write8(d.mem, r[1], r[2])
                                       [] f = "w16" -> Write16(d.mem, r[1], r[2])
                                       [] OTHER -> d.mem]
Answer(d, f, r, junk) == CASE f = "r8s" -> Extend(Read8(d.mem, r[1]), W \div 4)
                           [] f = "r16s" -> Extend(Read16(d.mem, r[1]), W \div 2)
                           [] OTHER -> junk
Clobbered(r, v, junk) == [k \in 0..3 |-> IF k = 0 THEN v ELSE IF junk = 0 THEN r[k] ELSE junk]
LEMMA LeadsBl ==
  ASSUME NEW junk, NEW d, NEW r, NEW a, NEW f
  PROVE  Leads(<<Bl(f)>>, junk, At(d, r, a), At(Called(d, f, r), Clobbered(r, Answer(d, f, r, junk), junk), junk))
<1> DEFINE u == Bl(f)
<1>1. u[1] = "BL" /\ u[2] = f
  BY DEF Bl
<1> HIDE DEF u
<1>2. Do(At(d, r, a), u, junk) = Call(At(d, r, a), f, junk)
  BY <1>1 DEF Do, At
<1>3. Call(At(d, r, a), f, junk) = At(Called(d, f, r), Clobbered(r, Answer(d, f, r, junk), junk), junk)
  <2> DEFINE s == At(d, r, a)
             w == CASE f = "w8" -> Write8(s.c.mem, s.r[1], s.r[2])
                    [] f = "w16" -> Write16(s.c.mem, s.r[1], s.r[2])
                    [] OTHER -> s.c.mem
             v == CASE f = "r8s" -> Extend(Read8(s.c.mem, s.r[1]), W \div 4)
                    [] f = "r16s" -> Extend(Read16(s.c.mem, s.r[1]), W \div 2)
                    [] OTHER -> junk
  <2>1. s.c = d /\ s.r = r
    BY DEF At
  <2>3. v = Answer(d, f, r, junk)
    BY <2>1, Zenon DEF Answer
  <2>4. [d EXCEPT !.mem = w] = Called(d, f, r)
    BY <2>1, Zenon DEF Called
  <2>5. Call(s, f, junk) = [s EXCEPT !.c.mem = w, !.apsr = junk,
                               !.r = [k \in 0..3 |-> IF k = 0 THEN v ELSE IF junk = 0 THEN @[k] ELSE junk]]
    BY DEF Call
  <2> HIDE DEF w, v
  <2>6. Call(s, f, junk) = At([d EXCEPT !.mem = w], Clobbered(r, v, junk), junk)
    <3> DEFINE s1 == [s EXCEPT !.c.mem = w]
               s2 == [s1 EXCEPT !.apsr = junk]
               g == [k \in 0..3 |-> IF k = 0 THEN v ELSE IF junk = 0 THEN s2.r[k] ELSE junk]
    <3>1. Call(s, f, junk) = [s2 EXCEPT !.r = g]
      BY <2>5
    <3>2. s1 = At([d EXCEPT !.mem = w], r, a)
      BY DEF At
    <3> HIDE DEF s1
    <3>3. s2 = At([d EXCEPT !.mem = w], r, junk)
      BY <3>2 DEF At
    <3> HIDE DEF s2
    <3>4. s2.r = r
      BY <3>3 DEF At
    <3>5. g = Clobbered(r, v, junk)
      BY <3>4 DEF Clobbered
    <3> HIDE DEF g
    <3>6. [s2 EXCEPT !.r = g] = At([d EXCEPT !.mem = w], g, junk)
      BY <3>3 DEF At
    <3> QED
      BY <3>1, <3>5, <3>6
  <2> QED
    BY <2>3, <2>4, <2>6
<1> QED
  BY <1>2, <1>3, LeadsOne DEF u

\* Branches, and what they jump over.
LEMMA LeadsBranch ==
  ASSUME NEW junk, NEW d, NEW r, NEW a, NEW k
  PROVE  /\ Leads(<<<<"BEQ", k>>>>, junk, At(d, r, a), IF Bit(a, ArmZ) = 1 THEN [At(d, r, a) EXCEPT !.skip = k] ELSE At(d, r, a))
         /\ Leads(<<<<"BNE", k>>>>, junk, At(d, r, a), IF Bit(a, ArmZ) = 0 THEN [At(d, r, a) EXCEPT !.skip = k] ELSE At(d, r, a))
         /\ Leads(<<<<"CBZ", 1, k>>>>, junk, At(d, r, a), IF r[1] = 0 THEN [At(d, r, a) EXCEPT !.skip = k] ELSE At(d, r, a))
<1> DEFINE u == <<"BEQ", k>>
           v == <<"BNE", k>>
           w == <<"CBZ", 1, k>>
<1>1. u[1] = "BEQ" /\ u[2] = k /\ v[1] = "BNE" /\ v[2] = k /\ w[1] = "CBZ" /\ w[2] = 1 /\ w[3] = k
  OBVIOUS
<1> HIDE DEF u, v, w
<1>2. Do(At(d, r, a), u, junk) = IF Bit(a, ArmZ) = 1 THEN [At(d, r, a) EXCEPT !.skip = k] ELSE At(d, r, a)
  BY <1>1 DEF Do, At
<1>3. Do(At(d, r, a), v, junk) = IF Bit(a, ArmZ) = 0 THEN [At(d, r, a) EXCEPT !.skip = k] ELSE At(d, r, a)
  BY <1>1 DEF Do, At
<1>4. Do(At(d, r, a), w, junk) = IF r[1] = 0 THEN [At(d, r, a) EXCEPT !.skip = k] ELSE At(d, r, a)
  BY <1>1 DEF Do, At
<1>5. Leads(<<u>>, junk, At(d, r, a), Do(At(d, r, a), u, junk)) /\ Leads(<<v>>, junk, At(d, r, a), Do(At(d, r, a), v, junk))
      /\ Leads(<<w>>, junk, At(d, r, a), Do(At(d, r, a), w, junk))
  BY LeadsOne
<1> QED
  BY <1>2, <1>3, <1>4, <1>5 DEF u, v, w

Skipping(s, k) == [s EXCEPT !.skip = k]
LEMMA LeadsSkip ==
  ASSUME NEW junk, NEW d, NEW r, NEW a, NEW u, NEW k \in Nat, k > 0
  PROVE  Leads(<<u>>, junk, Skipping(At(d, r, a), k), Skipping(At(d, r, a), k - 1))
<1>1. Do(Skipping(At(d, r, a), k), u, junk) = Skipping(At(d, r, a), k - 1)
  <2> DEFINE s == Skipping(At(d, r, a), k)
  <2>1. s.skip = k /\ s.skip > 0 /\ [s EXCEPT !.skip = k - 1] = Skipping(At(d, r, a), k - 1)
    BY DEF Skipping, At
  <2> HIDE DEF s
  <2>2. Do(s, u, junk) = [s EXCEPT !.skip = s.skip - 1]
    BY <2>1 DEF Do
  <2> QED
    BY <2>1, <2>2 DEF s
<1> QED
  BY <1>1, LeadsOne

-----------------------------------------------------------------------------
(* The data instructions: the value of one, and the flags it leaves.       *)

\* The value of a data instruction on operands that are words.
ArmValue(name, y, x) ==
  CASE name = "ADD" -> (y + x) % Base   [] name = "SUB" -> (y - x) % Base
    [] name \in Shifts -> Shifted(name, y, x).v
    [] name = "AND" -> And(y, x)        [] name = "ORR" -> Or(y, x)
    [] name = "EOR" -> Xor(y, x)        [] name = "BIC" -> And(y, Not(x))
    [] name = "MVN" -> Not(x)           [] name = "MOV" -> x
    [] name = "UXTH" -> x % Half        [] name = "MOD" -> y % x
    [] name = "ROR" -> ((y \div 2^x) + (y % 2^x) * 2^(W - x)) % Base
DataNames == {"ADD", "SUB", "SHL", "SHR", "SAR", "AND", "ORR", "EOR", "BIC", "MVN", "MOV", "UXTH", "MOD", "ROR"}
Counted(name, x) == (name \in Shifts => x < W) /\ (name = "MOD" => x > 0) /\ (name = "ROR" => x = 2)

LEMMA ShiftedWord ==
  ASSUME ArithmeticAssumption, NEW y \in WordValues, NEW x \in 0 .. W - 1, NEW name \in Shifts
  PROVE  /\ Shifted(name, y, x).v \in WordValues /\ Shifted(name, y, x).cy \in BOOLEAN
         /\ x = 0 => Shifted(name, y, x).v = y
<1>0. 2^x \in Nat /\ 2^x > 0 /\ y \in Int /\ Signed(y) \in Int /\ x \in Int
  BY PlacePower, Wraps
<1>1. Shifted(name, y, x).v = IF name = "SHL" THEN (y * 2^x) % Base
                               ELSE IF name = "SHR" THEN y \div 2^x ELSE (Signed(y) \div 2^x) % Base
  BY DEF Shifted
<1>2. Shifted(name, y, x).cy \in BOOLEAN
  BY DEF Shifted
<1>3. \A p \in Nat : p > 0 => y * p \in Int /\ Signed(y) \div p \in Int /\ y \div p \in Int /\ y \div p >= 0 /\ y \div p <= y
  <2>1. y \in Nat
    BY WordFacts, SMT DEF WordValues
  <2>2. Signed(y) \in Int
    BY <1>0
  <2> QED
    BY <2>1, <2>2, SMT
<1>4. (y * 2^x) % Base \in WordValues /\ (Signed(y) \div 2^x) % Base \in WordValues /\ y \div 2^x \in WordValues
  <2>1. y * 2^x \in Int /\ Signed(y) \div 2^x \in Int /\ y \div 2^x \in Int /\ y \div 2^x >= 0 /\ y \div 2^x <= y
    BY <1>0, <1>3
  <2>2. y \div 2^x \in WordValues
    <3> DEFINE z == y \div 2^x
    <3>1. z \in Int /\ z >= 0 /\ z <= y
      BY <2>1
    <3> HIDE DEF z
    <3>2. z \in WordValues
      BY <3>1, WordFacts DEF WordValues
    <3> QED
      BY <3>2 DEF z
  <2> QED
    BY <2>1, <2>2, Unwraps
<1>5. ASSUME x = 0 PROVE Shifted(name, y, x).v = y
  <2>1. 2^x = 1
    BY <1>5, SMT
  <2>2. y * 1 = y /\ y \div 1 = y /\ Signed(y) \div 1 = Signed(y)
    BY <1>0
  <2>3. y % Base = y /\ Signed(y) % Base = y
    BY Wraps
  <2> QED
    BY <1>1, <2>1, <2>2, <2>3
<1> QED
  BY <1>1, <1>2, <1>4, <1>5

LEMMA ArmIs ==
  ASSUME ArithmeticAssumption, NEW y \in WordValues, NEW x \in WordValues, NEW a \in WordValues,
         NEW name \in DataNames, Counted(name, x)
  PROVE  LET e == ArmResult(name, y, x, a)
         IN e.v = ArmValue(name, y, x) /\ e.v \in WordValues /\ e.cy \in BOOLEAN /\ e.ov \in BOOLEAN
<1> DEFINE e == ArmResult(name, y, x, a)
           Kept1(v) == [v |-> v % Base, cy |-> Bit(a, ArmC) = 1, ov |-> Bit(a, ArmV) = 1]
           Good == e.v = ArmValue(name, y, x) /\ e.v \in WordValues /\ e.cy \in BOOLEAN /\ e.ov \in BOOLEAN
<1>0. x \in Int /\ y \in Int /\ x % Base = x /\ y % Base = y
  BY Wraps
<1>1. ASSUME NEW v \in WordValues, e = Kept1(v), ArmValue(name, y, x) = v PROVE Good
  <2>1. v % Base = v
    BY Wraps
  <2> QED
    BY <1>1, <2>1
<1>2. CASE name = "ADD"
  <2>1. e = Sum(y, x) /\ ArmValue(name, y, x) = (y + x) % Base
    BY <1>2 DEF ArmResult, ArmValue, Shifts
  <2> QED
    BY <1>0, <2>1, Unwraps DEF Sum
<1>3. CASE name = "SUB"
  <2>1. e = [Difference(y, x) EXCEPT !.cy = (x <= y)] /\ ArmValue(name, y, x) = (y - x) % Base
    BY <1>3 DEF ArmResult, ArmValue, Shifts
  <2> QED
    BY <1>0, <2>1, Unwraps DEF Difference
<1>4. CASE name \in Shifts
  <2>1. ArmValue(name, y, x) = Shifted(name, y, x).v
    BY <1>4 DEF ArmValue, Shifts
  <2>2. e = IF x = 0 THEN Kept1(y) ELSE [Shifted(name, y, x) EXCEPT !.ov = Kept1(0).ov]
    BY <1>4 DEF ArmResult, Shifts
  <2>3. x \in 0 .. W - 1
    BY <1>0, <1>4, WordFacts, SMT DEF Counted, WordValues
  <2>4. Shifted(name, y, x).v \in WordValues /\ Shifted(name, y, x).cy \in BOOLEAN /\ (x = 0 => Shifted(name, y, x).v = y)
    BY <1>4, <2>3, ShiftedWord
  <2>5. CASE x = 0
    BY <1>1, <2>1, <2>2, <2>4, <2>5
  <2>6. CASE x # 0
    <3>1. e.v = Shifted(name, y, x).v /\ e.cy = Shifted(name, y, x).cy /\ e.ov = Kept1(0).ov
      BY <2>2, <2>6 DEF Shifted
    <3> QED
      BY <2>1, <2>4, <3>1
  <2> QED
    BY <2>5, <2>6
<1>5. CASE name = "AND"
  <2>1. e = Kept1(And(y, x)) /\ ArmValue(name, y, x) = And(y, x)
    BY <1>5 DEF ArmResult, ArmValue, Shifts
  <2> QED
    BY <1>0, <1>1, <2>1, AndIs
<1>6. CASE name = "ORR"
  <2>1. e = Kept1(Or(y, x)) /\ ArmValue(name, y, x) = Or(y, x)
    BY <1>6 DEF ArmResult, ArmValue, Shifts
  <2> QED
    BY <1>0, <1>1, <2>1, OrIs
<1>7. CASE name = "EOR"
  <2>1. e = Kept1(Xor(y, x)) /\ ArmValue(name, y, x) = Xor(y, x)
    BY <1>7 DEF ArmResult, ArmValue, Shifts
  <2> QED
    BY <1>0, <1>1, <2>1, XorIs
<1>8. CASE name = "BIC"
  <2>1. e = Kept1(And(y, Not(x))) /\ ArmValue(name, y, x) = And(y, Not(x))
    BY <1>8 DEF ArmResult, ArmValue, Shifts
  <2> QED
    BY <1>0, <1>1, <2>1, BicIs
<1>9. CASE name = "MVN"
  <2>1. e = Kept1(Not(x)) /\ ArmValue(name, y, x) = Not(x)
    BY <1>9 DEF ArmResult, ArmValue, Shifts
  <2> QED
    BY <1>0, <1>1, <2>1, NotIs
<1>10. CASE name = "MOV"
  <2>1. e = Kept1(x) /\ ArmValue(name, y, x) = x
    BY <1>10 DEF ArmResult, ArmValue, Shifts
  <2> QED
    BY <1>0, <1>1, <2>1
<1>11. CASE name = "UXTH"
  <2>1. e = Kept1(x % Half) /\ ArmValue(name, y, x) = x % Half
    BY <1>11 DEF ArmResult, ArmValue, Shifts
  <2>2. x % Half \in WordValues
    BY <1>0, Widths, SMT DEF WordValues
  <2> QED
    BY <1>0, <1>1, <2>1, <2>2
<1>12. CASE name = "MOD"
  <2>1. e = Kept1(y % x) /\ ArmValue(name, y, x) = y % x
    BY <1>12 DEF ArmResult, ArmValue, Shifts
  <2>2. y % x \in 0 .. x - 1
    BY <1>0, <1>12, RemainderOf DEF Counted
  <2>3. y % x \in WordValues
    <3> DEFINE m == y % x
    <3>1. m \in 0 .. x - 1
      BY <2>2
    <3> HIDE DEF m
    <3>2. m \in WordValues
      BY <1>0, <3>1, WordFacts DEF WordValues
    <3> QED
      BY <3>2 DEF m
  <2> QED
    BY <1>0, <1>1, <2>1, <2>3
<1>13. CASE name = "ROR"
  <2> DEFINE z == (y \div 2^x) + (y % 2^x) * 2^(W - x)
  <2>1. e = Kept1(z) /\ ArmValue(name, y, x) = z % Base
    BY <1>13 DEF ArmResult, ArmValue, Shifts
  <2>2. z % Base \in WordValues
    <3>1. x = 2 /\ 2^x = 4 /\ W - x \in 0..31
      <4>1. x = 2 /\ W - x \in 0..31
        BY <1>13, WordFacts DEF Counted, Shifts
      <4> QED
        BY <4>1, LowPlaces
    <3>2. 2^(W - x) \in Nat
      BY <3>1, PowersAre
    <3>3. y \div 2^x \in Int /\ y % 2^x \in Int
      BY <1>0, <3>1
    <3>4. \A p, q, t \in Int : p + (q * t) \in Int
      BY SMT
    <3>5. z \in Int
      BY <3>2, <3>3, <3>4
    <3> HIDE DEF z
    <3> QED
      BY <3>5, Unwraps
  <2> QED
    BY <1>0, <1>1, <2>1, <2>2
<1> QED
  BY <1>2, <1>3, <1>4, <1>5, <1>6, <1>7, <1>8, <1>9, <1>10, <1>11, <1>12, <1>13 DEF DataNames, Shifts

\* The flags a data instruction leaves, and those it shows.
Marked(a, e) == SetFlag(SetFlag(SetFlag(SetFlag(a, ArmN, e.v >= Top), ArmZ, e.v = 0), ArmC, e.cy), ArmV, e.ov)
Shows(a, v) == Bit(a, ArmZ) = (IF v = 0 THEN 1 ELSE 0) /\ Bit(a, ArmN) = (IF v >= Top THEN 1 ELSE 0)

LEMMA MarkedIs ==
  ASSUME ArithmeticAssumption, NEW a \in WordValues, NEW e, e.cy \in BOOLEAN, e.ov \in BOOLEAN
  PROVE  Marked(a, e) \in WordValues /\ Shows(Marked(a, e), e.v)
<1> DEFINE sign == e.v >= Top
           zero == e.v = 0
           one == SetFlag(a, ArmN, sign)
           two == SetFlag(one, ArmZ, zero)
           three == SetFlag(two, ArmC, e.cy)
<1>0. /\ ArmN \in 0 .. W - 1 /\ ArmZ \in 0 .. W - 1 /\ ArmC \in 0 .. W - 1 /\ ArmV \in 0 .. W - 1
      /\ ArmZ # ArmN /\ ArmC # ArmN /\ ArmC # ArmZ /\ ArmV # ArmN /\ ArmV # ArmZ
  BY WordFacts, SMT DEF ArmN, ArmZ, ArmC, ArmV
<1>a. sign \in BOOLEAN /\ zero \in BOOLEAN
  OBVIOUS
<1> HIDE DEF sign, zero
<1>1. one \in WordValues /\ Bit(one, ArmN) = IF sign THEN 1 ELSE 0
  BY <1>0, <1>a, SetPlace
<1> HIDE DEF one
<1>2. two \in WordValues /\ Bit(two, ArmZ) = (IF zero THEN 1 ELSE 0) /\ Bit(two, ArmN) = Bit(one, ArmN)
  BY <1>0, <1>a, <1>1, SetPlace, SMTT(60)
<1> HIDE DEF two
<1>3. three \in WordValues /\ Bit(three, ArmZ) = Bit(two, ArmZ) /\ Bit(three, ArmN) = Bit(two, ArmN)
  BY <1>0, <1>2, SetPlace
<1> HIDE DEF three
<1> DEFINE four == SetFlag(three, ArmV, e.ov)
<1>4. four \in WordValues /\ Bit(four, ArmZ) = Bit(three, ArmZ) /\ Bit(four, ArmN) = Bit(three, ArmN)
  BY <1>0, <1>3, SetPlace
<1>5. four = Marked(a, e)
  BY DEF one, two, three, Marked, sign, zero
<1> HIDE DEF four
<1> QED
  BY <1>1, <1>2, <1>3, <1>4, <1>5 DEF Shows, sign, zero

LEMMA DataRuns ==
  ASSUME NEW junk, NEW d, NEW r, NEW a, NEW name \in DataNames, NEW sets \in BOOLEAN, NEW rd, NEW rn, NEW o
  PROVE  LET e == ArmResult(name, r[rn], IF o[1] = "r" THEN r[o[2]] ELSE o[2], a)
         IN Leads(<<<<name, sets, rd, rn, o>>>>, junk, At(d, r, a),
                  At(d, IF rd = -1 THEN r ELSE [r EXCEPT ![rd] = e.v], IF sets THEN Marked(a, e) ELSE a))
<1> DEFINE u == <<name, sets, rd, rn, o>>
           s == At(d, r, a)
           e == ArmResult(name, r[rn], IF o[1] = "r" THEN r[o[2]] ELSE o[2], a)
<1>1. u[1] = name /\ u[2] = sets /\ u[3] = rd /\ u[4] = rn /\ u[5] = o
  OBVIOUS
<1> HIDE DEF u
<1>2. s.skip = 0 /\ s.r = r /\ s.apsr = a
  BY DEF At
<1>3. Do(s, u, junk) = Data(s, u)
  <2>1. ~(s.skip > 0)
    BY <1>2
  <2>2. /\ u[1] # "LDP" /\ u[1] # "STP" /\ u[1] # "LDPSW" /\ u[1] # "STPSW" /\ u[1] # "MRS" /\ u[1] # "MOV32"
        /\ u[1] # "CLOCK" /\ u[1] # "BEQ" /\ u[1] # "BNE" /\ u[1] # "CBZ" /\ u[1] # "BL" /\ u[1] # "EXIT"
    BY <1>1 DEF DataNames
  <2> HIDE DEF s
  <2> QED
    BY <2>1, <2>2 DEF Do
<1>4. ArmResult(u[1], s.r[u[4]], Operand(s, u[5]), s.apsr) = e
  BY <1>1, <1>2 DEF Operand
<1> DEFINE t == IF u[2] THEN [s EXCEPT !.apsr = Marked(s.apsr, e)] ELSE s
<1>5. Data(s, u) = IF u[3] = -1 THEN t ELSE Load(t, u[3], e.v)
  BY <1>4 DEF Data, Marked
<1> HIDE DEF e
<1>6. t = At(d, r, IF sets THEN Marked(a, e) ELSE a)
  BY <1>1, <1>2 DEF At
<1> HIDE DEF t
<1>7. Load(t, rd, e.v) = At(d, [r EXCEPT ![rd] = e.v], IF sets THEN Marked(a, e) ELSE a)
  BY <1>6 DEF At, Load
<1>8. Do(s, u, junk) = At(d, IF rd = -1 THEN r ELSE [r EXCEPT ![rd] = e.v], IF sets THEN Marked(a, e) ELSE a)
  BY <1>1, <1>3, <1>5, <1>6, <1>7
<1>9. Leads(<<u>>, junk, s, Do(s, u, junk))
  BY LeadsOne
<1> QED
  BY <1>8, <1>9 DEF u, e

\* With an operand x that is a word.
IsOperand(o, r, x) == x \in WordValues /\ (IF o[1] = "r" THEN r[o[2]] ELSE o[2]) = x
LEMMA OperandIs ==
  ASSUME ArithmeticAssumption, NEW r \in Files, NEW v \in Int, NEW k \in 0..3
  PROVE  IsOperand(R(k), r, r[k]) /\ IsOperand(I(v), r, v % Base) /\ (v \in WordValues => IsOperand(I(v), r, v))
<1>1. R(k)[1] = "r" /\ R(k)[2] = k /\ I(v)[1] = "i" /\ I(v)[2] = v % Base
  BY DEF R, I
<1>2. r[k] \in WordValues /\ v % Base \in WordValues
  BY Unwraps DEF Files
<1>3. IsOperand(R(k), r, r[k]) /\ IsOperand(I(v), r, v % Base)
  BY <1>1, <1>2 DEF IsOperand
<1>4. v \in WordValues => v % Base = v
  BY Wraps
<1> QED
  BY <1>3, <1>4

SetsFlags(u, junk, s, d, r, v) == \E f \in WordValues : Leads(<<u>>, junk, s, At(d, r, f)) /\ Shows(f, v)
LEMMA LeadsData ==
  ASSUME ArithmeticAssumption, NEW junk, NEW d, NEW r \in Files, NEW a \in WordValues, NEW rd \in 0..3, NEW rn \in 0..3,
         NEW name \in DataNames, NEW o, NEW x, IsOperand(o, r, x), Counted(name, x)
  PROVE  LET v == ArmValue(name, r[rn], x)
         IN /\ v \in WordValues /\ [r EXCEPT ![rd] = v] \in Files
            /\ Leads(<<<<name, FALSE, rd, rn, o>>>>, junk, At(d, r, a), At(d, [r EXCEPT ![rd] = v], a))
            /\ SetsFlags(<<name, TRUE, rd, rn, o>>, junk, At(d, r, a), d, [r EXCEPT ![rd] = v], v)
            /\ SetsFlags(<<name, TRUE, -1, rn, o>>, junk, At(d, r, a), d, r, v)
<1> DEFINE e == ArmResult(name, r[rn], IF o[1] = "r" THEN r[o[2]] ELSE o[2], a)
           v == ArmValue(name, r[rn], x)
<1>1. e = ArmResult(name, r[rn], x, a) /\ x \in WordValues /\ r[rn] \in WordValues
  BY DEF IsOperand, Files
<1>2. e.v = v /\ e.v \in WordValues /\ e.cy \in BOOLEAN /\ e.ov \in BOOLEAN
  <2> HIDE DEF e
  <2> QED
    BY <1>1, ArmIs
<1>3. /\ Leads(<<<<name, FALSE, rd, rn, o>>>>, junk, At(d, r, a), At(d, IF rd = -1 THEN r ELSE [r EXCEPT ![rd] = e.v], IF FALSE THEN Marked(a, e) ELSE a))
      /\ Leads(<<<<name, TRUE, rd, rn, o>>>>, junk, At(d, r, a), At(d, IF rd = -1 THEN r ELSE [r EXCEPT ![rd] = e.v], IF TRUE THEN Marked(a, e) ELSE a))
      /\ Leads(<<<<name, TRUE, -1, rn, o>>>>, junk, At(d, r, a), At(d, IF -1 = -1 THEN r ELSE [r EXCEPT ![-1] = e.v], IF TRUE THEN Marked(a, e) ELSE a))
  BY DataRuns, ZenonT(60)
<1> HIDE DEF e, v
<1>4. Marked(a, e) \in WordValues /\ Shows(Marked(a, e), v)
  BY <1>2, MarkedIs
<1>5. [r EXCEPT ![rd] = v] \in Files
  BY <1>2 DEF Files
<1>6. rd # -1
  OBVIOUS
<1>7. /\ Leads(<<<<name, FALSE, rd, rn, o>>>>, junk, At(d, r, a), At(d, [r EXCEPT ![rd] = v], a))
      /\ Leads(<<<<name, TRUE, rd, rn, o>>>>, junk, At(d, r, a), At(d, [r EXCEPT ![rd] = v], Marked(a, e)))
      /\ Leads(<<<<name, TRUE, -1, rn, o>>>>, junk, At(d, r, a), At(d, r, Marked(a, e)))
  BY <1>2, <1>3, <1>6
<1> DEFINE u == <<name, TRUE, rd, rn, o>>
           w == <<name, TRUE, -1, rn, o>>
<1>8. Leads(<<u>>, junk, At(d, r, a), At(d, [r EXCEPT ![rd] = v], Marked(a, e))) /\ Leads(<<w>>, junk, At(d, r, a), At(d, r, Marked(a, e)))
  BY <1>7
<1> HIDE DEF u, w
<1>9. /\ SetsFlags(u, junk, At(d, r, a), d, [r EXCEPT ![rd] = v], v)
      /\ SetsFlags(w, junk, At(d, r, a), d, r, v)
  BY <1>4, <1>8 DEF SetsFlags
<1> QED
  BY <1>2, <1>5, <1>7, <1>9 DEF v, u, w

-----------------------------------------------------------------------------
(* Lists of instructions, joined.                                          *)

LEMMA JoinedTwo ==
  ASSUME NEW a, NEW b
  PROVE  <<a>> \o <<b>> = <<a, b>>
<1> DEFINE A == {a, b}
           z == <<a>> \o <<b>>
<1>1. <<a>> \in Seq(A) /\ <<b>> \in Seq(A) /\ Len(<<a>>) = 1 /\ Len(<<b>>) = 1
  OBVIOUS
<1>2. z \in Seq(A) /\ Len(z) = 2 /\ z[1] = a /\ z[2] = b
  BY <1>1
<1> HIDE DEF z
<1>3. z = <<a, b>>
  BY <1>2
<1> QED
  BY <1>3 DEF z

LEMMA JoinedThree ==
  ASSUME NEW a, NEW b, NEW d
  PROVE  <<a>> \o <<b, d>> = <<a, b, d>>
<1> DEFINE A == {a, b, d}
           z == <<a>> \o <<b, d>>
<1>1. <<a>> \in Seq(A) /\ <<b, d>> \in Seq(A) /\ Len(<<a>>) = 1 /\ Len(<<b, d>>) = 2
  OBVIOUS
<1>2. z \in Seq(A) /\ Len(z) = 3 /\ z[1] = a /\ z[2] = b /\ z[3] = d
  BY <1>1
<1> HIDE DEF z
<1>3. z = <<a, b, d>>
  BY <1>2
<1> QED
  BY <1>3 DEF z

LEMMA JoinedFour ==
  ASSUME NEW a, NEW b, NEW d, NEW e
  PROVE  <<a>> \o <<b, d, e>> = <<a, b, d, e>>
<1> DEFINE A == {a, b, d, e}
           z == <<a>> \o <<b, d, e>>
<1>1. <<a>> \in Seq(A) /\ <<b, d, e>> \in Seq(A) /\ Len(<<a>>) = 1 /\ Len(<<b, d, e>>) = 3
  OBVIOUS
<1>2. z \in Seq(A) /\ Len(z) = 4 /\ z[1] = a /\ z[2] = b /\ z[3] = d /\ z[4] = e
  BY <1>1
<1> HIDE DEF z
<1>3. z = <<a, b, d, e>>
  BY <1>2
<1> QED
  BY <1>3 DEF z

LEMMA JoinedFive ==
  ASSUME NEW a, NEW b, NEW d, NEW e, NEW f
  PROVE  <<a>> \o <<b, d, e, f>> = <<a, b, d, e, f>>
<1> DEFINE A == {a, b, d, e, f}
           z == <<a>> \o <<b, d, e, f>>
<1>1. <<a>> \in Seq(A) /\ <<b, d, e, f>> \in Seq(A) /\ Len(<<a>>) = 1 /\ Len(<<b, d, e, f>>) = 4
  OBVIOUS
<1>2. z \in Seq(A) /\ Len(z) = 5 /\ z[1] = a /\ z[2] = b /\ z[3] = d /\ z[4] = e /\ z[5] = f
  BY <1>1
<1> HIDE DEF z
<1>3. z = <<a, b, d, e, f>>
  BY <1>2
<1> QED
  BY <1>3 DEF z

LEMMA LeadsTwo ==
  ASSUME NEW j, NEW u, NEW v, NEW s, NEW s1, NEW s2, Leads(<<u>>, j, s, s1), Leads(<<v>>, j, s1, s2)
  PROVE  Leads(<<u, v>>, j, s, s2)
<1>1. Leads(<<u>> \o <<v>>, j, s, s2)
  BY LeadsOn
<1>2. <<u>> \o <<v>> = <<u, v>>
  BY JoinedTwo, Zenon
<1> QED
  BY <1>1, <1>2

LEMMA LeadsThree ==
  ASSUME NEW j, NEW u, NEW v, NEW x, NEW s, NEW s1, NEW s2, NEW s3,
         Leads(<<u>>, j, s, s1), Leads(<<v>>, j, s1, s2), Leads(<<x>>, j, s2, s3)
  PROVE  Leads(<<u, v, x>>, j, s, s3)
<1>1. Leads(<<v, x>>, j, s1, s3)
  BY LeadsTwo
<1>2. Leads(<<u>> \o <<v, x>>, j, s, s3)
  BY <1>1, LeadsOn
<1>3. <<u>> \o <<v, x>> = <<u, v, x>>
  BY JoinedThree, Zenon
<1> QED
  BY <1>2, <1>3

LEMMA LeadsFour ==
  ASSUME NEW j, NEW u, NEW v, NEW x, NEW y, NEW s, NEW s1, NEW s2, NEW s3, NEW s4,
         Leads(<<u>>, j, s, s1), Leads(<<v>>, j, s1, s2), Leads(<<x>>, j, s2, s3), Leads(<<y>>, j, s3, s4)
  PROVE  Leads(<<u, v, x, y>>, j, s, s4)
<1>1. Leads(<<v, x, y>>, j, s1, s4)
  BY LeadsThree
<1>2. Leads(<<u>> \o <<v, x, y>>, j, s, s4)
  BY <1>1, LeadsOn
<1>3. <<u>> \o <<v, x, y>> = <<u, v, x, y>>
  BY JoinedFour, Zenon
<1> QED
  BY <1>2, <1>3

LEMMA LeadsFive ==
  ASSUME NEW j, NEW u, NEW v, NEW x, NEW y, NEW z, NEW s, NEW s1, NEW s2, NEW s3, NEW s4, NEW s5,
         Leads(<<u>>, j, s, s1), Leads(<<v>>, j, s1, s2), Leads(<<x>>, j, s2, s3), Leads(<<y>>, j, s3, s4),
         Leads(<<z>>, j, s4, s5)
  PROVE  Leads(<<u, v, x, y, z>>, j, s, s5)
<1>1. Leads(<<v, x, y, z>>, j, s1, s5)
  BY LeadsFour
<1>2. Leads(<<u>> \o <<v, x, y, z>>, j, s, s5)
  BY <1>1, LeadsOn
<1>3. <<u>> \o <<v, x, y, z>> = <<u, v, x, y, z>>
  BY JoinedFive, Zenon
<1> QED
  BY <1>2, <1>3

-----------------------------------------------------------------------------
(* The flags of the APSR in PSW. *)
LEMMA TopPowers ==
  ASSUME ArithmeticAssumption
  PROVE  /\ 2^(W - 4) * 16 = Base /\ 2^(W - 4) \in Nat /\ 2^(W - 4) > 0
         /\ \/ 2^(W - 2) = 64 /\ Base = 256
            \/ 2^(W - 2) = 1024 /\ Base = 4096
            \/ 2^(W - 2) = 16384 /\ Base = 65536
            \/ 2^(W - 2) = 1073741824 /\ Base = 4294967296
<1>1. CASE W = 8
  <2>1. W - 4 = 4 /\ W - 2 = 6
    BY <1>1
  <2>2. 2^(W - 4) = 2^4 /\ 2^(W - 2) = 2^6
    BY <2>1, Zenon
  <2>3. 2^4 = 16 /\ 2^6 = 64 /\ Base = 256
    BY <1>1, Widths, SMT
  <2> QED
    BY <2>2, <2>3, SMT
<1>2. CASE W = 12
  <2>1. W - 4 = 8 /\ W - 2 = 10
    BY <1>2
  <2>2. 2^(W - 4) = 2^8 /\ 2^(W - 2) = 2^10
    BY <2>1, Zenon
  <2>3. 2^8 = 256 /\ 2^10 = 1024 /\ Base = 4096
    BY <1>2, Widths, SMT
  <2> QED
    BY <2>2, <2>3, SMT
<1>3. CASE W = 16
  <2>1. W - 4 = 12 /\ W - 2 = 14
    BY <1>3
  <2>2. 2^(W - 4) = 2^12 /\ 2^(W - 2) = 2^14
    BY <2>1, Zenon
  <2>3. 2^12 = 4096 /\ 2^14 = 16384 /\ Base = 65536
    BY <1>3, Widths, SMT
  <2> QED
    BY <2>2, <2>3, SMT
<1>4. CASE W = 32
  <2>1. W - 4 = 28 /\ W - 2 = 30
    BY <1>4
  <2>2. 2^(W - 4) = 2^28 /\ 2^(W - 2) = 2^30
    BY <2>1, Zenon
  <2>3. 2^28 = 268435456 /\ 2^30 = 1073741824 /\ Base = 4294967296
    BY <1>4, Widths, SMT
  <2> QED
    BY <2>2, <2>3, SMT
<1> QED
  BY <1>1, <1>2, <1>3, <1>4, Widths

LEMMA RotatedFlags ==
  ASSUME ArithmeticAssumption, NEW a \in WordValues
  PROVE  LET y == a \div 2^(W - 4)
             v == ((y \div 2^2) + (y % 2^2) * 2^(W - 2)) % Base
         IN y \in WordValues /\ v \in WordValues /\ Bit(v, 0) = Bit(a, ArmZ) /\ Bit(v, 1) = Bit(a, ArmN)
<1> DEFINE y == a \div 2^(W - 4)
           v == ((y \div 2^2) + (y % 2^2) * 2^(W - 2)) % Base
<1>1. a \in Nat /\ W - 4 \in 0..31 /\ (W - 4) + 2 = ArmZ /\ (W - 4) + 3 = ArmN /\ (W - 4) + 3 <= 31 /\ (W - 4) + 2 <= 31
  BY WordFacts, SMT DEF WordValues, ArmZ, ArmN
<1>2. y \in Nat /\ Bit(y, 2) = Bit(a, ArmZ) /\ Bit(y, 3) = Bit(a, ArmN)
  <2>1. y \in Nat /\ Bit(y, 2) = Bit(a, (W - 4) + 2)
    <3>1. 2 \in 0..31
      OBVIOUS
    <3> QED
      BY <1>1, <3>1, ShiftedPlace
  <2>2. Bit(y, 3) = Bit(a, (W - 4) + 3)
    <3>1. 3 \in 0..31
      OBVIOUS
    <3> QED
      BY <1>1, <3>1, ShiftedPlace
  <2> QED
    BY <1>1, <2>1, <2>2, Zenon
<1>3. y \in 0..15
  <2> DEFINE p == 2^(W - 4)
  <2>1. p * 16 = Base /\ p \in Nat /\ p > 0 /\ a < Base
    BY TopPowers, WordFacts DEF WordValues
  <2> HIDE DEF p
  <2>2. (a \div p) * p <= a
    BY <1>1, <2>1, QuotientBounds
  <2>3. ASSUME y > 15 PROVE FALSE
    <3> DEFINE q == a \div p
    <3>1. q \in Nat /\ q > 15
      BY <1>2, <2>3 DEF p
    <3> HIDE DEF q
    <3>2. q * p >= 16 * p
      BY <2>1, <3>1, SMT
    <3> QED
      BY <1>1, <2>1, <2>2, <3>2 DEF q
  <2> QED
    BY <1>2, <2>3
<1> HIDE DEF y
<1>4. Bit(y, 2) = (y \div 4) % 2 /\ Bit(y, 3) = (y \div 8) % 2 /\ y \in WordValues
  <2>1. y \in Int
    BY <1>3
  <2>2. y \in WordValues
    BY <1>3, NibblePlaces
  <2> QED
    BY <2>1, <2>2, LowPlaces
<1> DEFINE q == 2^(W - 2)
<1>5. \/ q = 64 /\ Base = 256
      \/ q = 1024 /\ Base = 4096
      \/ q = 16384 /\ Base = 65536
      \/ q = 1073741824 /\ Base = 4294967296
  BY TopPowers
<1>6. v = ((y \div 4) + (y % 4) * q) % Base
  BY LowPlaces, Zenon
<1> HIDE DEF q, v
<1>7. v \in Nat /\ v < Base /\ v % 2 = (y \div 4) % 2 /\ (v \div 2) % 2 = (y \div 8) % 2
  <2>1. CASE q = 64 /\ Base = 256
    BY <1>3, <1>6, <2>1, SMT
  <2>2. CASE q = 1024 /\ Base = 4096
    BY <1>3, <1>6, <2>2, SMT
  <2>3. CASE q = 16384 /\ Base = 65536
    BY <1>3, <1>6, <2>3, SMT
  <2>4. CASE q = 1073741824 /\ Base = 4294967296
    BY <1>3, <1>6, <2>4, SMT
  <2> QED
    BY <1>5, <2>1, <2>2, <2>3, <2>4
<1>8. v \in WordValues
  BY <1>7, WordFacts DEF WordValues
<1>9. Bit(v, 0) = v % 2 /\ Bit(v, 1) = (v \div 2) % 2
  <2>1. v \in Int
    BY <1>7
  <2> QED
    BY <2>1, LowPlaces
<1> QED
  BY <1>2, <1>4, <1>7, <1>8, <1>9 DEF v, y

StoresFlags(emitted, junk, d, r, a) ==
  \E p \in WordValues, r1 \in Files : /\ Leads(emitted, junk, At(d, r, a), At([d EXCEPT !.psw = p], r1, a))
                                     /\ Bit(p, 0) = Bit(a, ArmZ) /\ Bit(p, 1) = Bit(a, ArmN) /\ r1[0] = r[0]
LEMMA EmitPswFlagsIs ==
  ASSUME ArithmeticAssumption, NEW junk, NEW d, d.psw \in WordValues, NEW r \in Files, NEW a \in WordValues,
         NEW sub \in BOOLEAN, NEW mask \in {3, 11, 15}
  PROVE  StoresFlags(EmitPswFlags(sub, mask), junk, d, r, a)
<1> DEFINE y == a \div 2^(W - 4)
           v == ((y \div 2^2) + (y % 2^2) * 2^(W - 2)) % Base
           f1 == [r EXCEPT ![2] = a]
           f2 == [f1 EXCEPT ![2] = y]
           f3 == [f2 EXCEPT ![2] = v]
           v4 == IF sub THEN Xor(v, 8) ELSE v
           f4 == IF sub THEN [f3 EXCEPT ![2] = v4] ELSE f3
           v5 == And(v4, mask)
           f5 == [f4 EXCEPT ![2] = v5]
           f6 == [f5 EXCEPT ![1] = d.psw]
           v7 == And(d.psw, Not(15))
           f7 == [f6 EXCEPT ![1] = v7]
           p == Or(v7, v5)
           f8 == [f7 EXCEPT ![1] = p]
<1>0. /\ 15 \in WordValues /\ 8 \in WordValues /\ mask \in WordValues /\ 2 \in WordValues /\ W - 4 \in WordValues
      /\ 0 \in 0 .. W - 1 /\ 1 \in 0 .. W - 1 /\ 15 \in Int /\ 8 \in Int /\ mask \in Int /\ 2 \in Int /\ W - 4 \in Int
      /\ W - 4 < W /\ 2 \in 0..3 /\ 1 \in 0..3
  <2>1. 15 \in WordValues /\ 8 \in WordValues /\ mask \in WordValues /\ 2 \in WordValues
    BY NibblePlaces, SMT
  <2> QED
    BY <2>1, Widths, SMT DEF WordValues
<1>1. y \in WordValues /\ v \in WordValues /\ Bit(v, 0) = Bit(a, ArmZ) /\ Bit(v, 1) = Bit(a, ArmN)
  BY RotatedFlags
<1>2. f1 \in Files /\ f1[2] = a /\ f2 \in Files /\ f2[2] = y /\ f3 \in Files /\ f3[2] = v
  BY <1>1 DEF Files
<1>3. Leads(<<<<"MRS", 2>>>>, junk, At(d, r, a), At(d, f1, a))
  BY LeadsMrs
<1>4. Leads(<<<<"SHR", FALSE, 2, 2, I(W - 4)>>>>, junk, At(d, f1, a), At(d, f2, a))
  <2>1. IsOperand(I(W - 4), f1, W - 4) /\ Counted("SHR", W - 4) /\ "SHR" \in DataNames
    BY <1>0, <1>2, OperandIs DEF Counted, DataNames
  <2>2. ArmValue("SHR", f1[2], W - 4) = y
    BY <1>2 DEF ArmValue, Shifted, Shifts
  <2> HIDE DEF f1, y
  <2> QED
    BY <1>0, <1>2, <2>1, <2>2, LeadsData
<1>5. Leads(<<<<"ROR", FALSE, 2, 2, I(2)>>>>, junk, At(d, f2, a), At(d, f3, a))
  <2>1. IsOperand(I(2), f2, 2) /\ Counted("ROR", 2) /\ "ROR" \in DataNames
    BY <1>0, <1>2, OperandIs DEF Counted, DataNames, Shifts
  <2>2. ArmValue("ROR", f2[2], 2) = v
    BY <1>2 DEF ArmValue, Shifts
  <2> HIDE DEF f2, v
  <2> QED
    BY <1>0, <1>2, <2>1, <2>2, LeadsData
<1> HIDE DEF v, y
<1>6. v4 \in WordValues /\ Bit(v4, 0) = Bit(v, 0) /\ Bit(v4, 1) = Bit(v, 1)
  <2>1. CASE sub
    <3>1. /\ Xor(v, 8) \in WordValues
          /\ \A k \in 0 .. W - 1 : Bit(Xor(v, 8), k) = (Bit(v, k) + Bit(8, k)) - (2 * (Bit(v, k) * Bit(8, k)))
      BY <1>0, <1>1, XorIs
    <3>2. Bit(v, 0) \in {0, 1} /\ Bit(v, 1) \in {0, 1}
      BY <1>0, <1>1, Wraps, WordBit
    <3> QED
      BY <1>0, <2>1, <3>1, <3>2, MaskPlaces
  <2>2. CASE ~sub
    BY <1>1, <2>2
  <2> QED
    BY <2>1, <2>2
<1>7. f4 \in Files /\ f4[2] = v4
  BY <1>2, <1>6 DEF Files
<1>8. Leads(IF sub THEN <<<<"EOR", FALSE, 2, 2, I(8)>>>> ELSE <<>>, junk, At(d, f3, a), At(d, f4, a))
  <2>1. CASE sub
    <3>1. IsOperand(I(8), f3, 8) /\ Counted("EOR", 8) /\ "EOR" \in DataNames
      BY <1>0, <1>2, OperandIs DEF Counted, DataNames, Shifts
    <3>2. ArmValue("EOR", f3[2], 8) = v4
      BY <1>2, <2>1 DEF ArmValue, Shifts
    <3> HIDE DEF f3, v4
    <3> QED
      BY <1>0, <1>2, <2>1, <3>1, <3>2, LeadsData
  <2>2. CASE ~sub
    BY <2>2, LeadsNone
  <2> QED
    BY <2>1, <2>2
<1>9. v5 \in WordValues /\ Bit(v5, 0) = Bit(v4, 0) /\ Bit(v5, 1) = Bit(v4, 1)
  <2>1. v5 \in WordValues /\ \A k \in 0 .. W - 1 : Bit(v5, k) = Bit(v4, k) * Bit(mask, k)
    <3>1. v4 \in Int
      BY <1>6, Wraps
    <3> HIDE DEF v4
    <3> QED
      BY <1>0, <3>1, AndIs
  <2>2. Bit(v4, 0) \in {0, 1} /\ Bit(v4, 1) \in {0, 1} /\ Bit(mask, 0) = 1 /\ Bit(mask, 1) = 1
    BY <1>0, <1>6, Wraps, WordBit, MaskPlaces
  <2> HIDE DEF v4, v5
  <2> QED
    BY <1>0, <2>1, <2>2
<1>10. f5 \in Files /\ f6 \in Files /\ f6[1] = d.psw /\ f6[2] = v5
  BY <1>7, <1>9 DEF Files
<1>11. Leads(<<<<"AND", FALSE, 2, 2, I(mask)>>>>, junk, At(d, f4, a), At(d, f5, a))
  <2>1. IsOperand(I(mask), f4, mask) /\ Counted("AND", mask) /\ "AND" \in DataNames
    BY <1>0, <1>7, OperandIs DEF Counted, DataNames, Shifts
  <2>2. ArmValue("AND", f4[2], mask) = v5
    BY <1>7 DEF ArmValue, Shifts
  <2> HIDE DEF f4, v5
  <2> QED
    BY <1>0, <1>7, <2>1, <2>2, LeadsData
<1>12. Leads(<<LdrPsw(1)>>, junk, At(d, f5, a), At(d, f6, a))
  BY LeadsLdrPsw
<1>13. v7 \in WordValues /\ Bit(v7, 0) = 0 /\ Bit(v7, 1) = 0
  <2>1. /\ v7 \in WordValues
        /\ \A k \in 0 .. W - 1 : Bit(v7, k) = IF Bit(15, k) = 1 THEN 0 ELSE Bit(d.psw, k)
    BY <1>0, BicIs
  <2> HIDE DEF v7
  <2> QED
    BY <1>0, <2>1, MaskPlaces
<1>14. f7 \in Files /\ f7[1] = v7 /\ f7[2] = v5
  BY <1>10, <1>13 DEF Files
<1>15. Leads(<<<<"BIC", FALSE, 1, 1, I(15)>>>>, junk, At(d, f6, a), At(d, f7, a))
  <2>1. IsOperand(I(15), f6, 15) /\ Counted("BIC", 15) /\ "BIC" \in DataNames
    BY <1>0, <1>10, OperandIs DEF Counted, DataNames, Shifts
  <2>2. ArmValue("BIC", f6[1], 15) = v7
    BY <1>10 DEF ArmValue, Shifts
  <2> HIDE DEF f6, v7
  <2> QED
    BY <1>0, <1>10, <2>1, <2>2, LeadsData
<1>16. p \in WordValues /\ Bit(p, 0) = Bit(v5, 0) /\ Bit(p, 1) = Bit(v5, 1)
  <2>1. /\ p \in WordValues
        /\ \A k \in 0 .. W - 1 : Bit(p, k) = (Bit(v7, k) + Bit(v5, k)) - (Bit(v7, k) * Bit(v5, k))
    BY <1>9, <1>13, OrIs
  <2>2. Bit(v5, 0) \in {0, 1} /\ Bit(v5, 1) \in {0, 1}
    BY <1>0, <1>9, Wraps, WordBit
  <2> HIDE DEF v5, v7, p
  <2> QED
    BY <1>0, <1>13, <2>1, <2>2
<1>17. f8 \in Files /\ f8[1] = p /\ f8[0] = r[0]
  BY <1>14, <1>16 DEF Files
<1>18. Leads(<<<<"ORR", FALSE, 1, 1, R(2)>>>>, junk, At(d, f7, a), At(d, f8, a))
  <2>1. IsOperand(R(2), f7, v5) /\ Counted("ORR", v5) /\ "ORR" \in DataNames
    BY <1>0, <1>14, OperandIs, ZenonT(60) DEF Counted, DataNames, Shifts
  <2>2. ArmValue("ORR", f7[1], v5) = p
    BY <1>14 DEF ArmValue, Shifts
  <2> HIDE DEF f7, v5, p
  <2> QED
    BY <1>0, <1>14, <2>1, <2>2, LeadsData
<1>19. Leads(<<StrPsw(1)>>, junk, At(d, f8, a), At([d EXCEPT !.psw = p], f8, a))
  <2> HIDE DEF f8, p
  <2> QED
    BY <1>17, LeadsStrPsw
<1> HIDE DEF f1, f2, f3, f4, f5, f6, f7, f8, p, v4, v5, v7
<1>20. Leads(<<<<"MRS", 2>>, <<"SHR", FALSE, 2, 2, I(W - 4)>>, <<"ROR", FALSE, 2, 2, I(2)>>>>, junk, At(d, r, a), At(d, f3, a))
  BY <1>3, <1>4, <1>5, LeadsThree
<1>21. Leads(<<<<"AND", FALSE, 2, 2, I(mask)>>, LdrPsw(1), <<"BIC", FALSE, 1, 1, I(15)>>,
               <<"ORR", FALSE, 1, 1, R(2)>>, StrPsw(1)>>, junk, At(d, f4, a), At([d EXCEPT !.psw = p], f8, a))
  BY <1>11, <1>12, <1>15, <1>18, <1>19, LeadsFive
<1>22. Leads(EmitPswFlags(sub, mask), junk, At(d, r, a), At([d EXCEPT !.psw = p], f8, a))
  BY <1>8, <1>20, <1>21, LeadsOn DEF EmitPswFlags
<1>23. Bit(p, 0) = Bit(a, ArmZ) /\ Bit(p, 1) = Bit(a, ArmN) /\ f8[0] = r[0]
  BY <1>1, <1>6, <1>9, <1>16, <1>17
<1> QED
  BY <1>16, <1>17, <1>22, <1>23 DEF StoresFlags

-----------------------------------------------------------------------------
(* A block from its start, and the interpreter, from the same machine.     *)

\* Where ExecuteBoth starts, and the start and the end of a block.
Ready == was \in Machines /\ was.psw \in WordValues /\ was.pc \in 0 .. Base - 5 /\ job \in Instructions
Scratch == [k \in 0..3 |-> job.junk]
Block(emitted, t) == Leads(emitted, job.junk, At(was, Scratch, job.junk), t)
Ended(d, r, a) == Skipping(At([d EXCEPT !.pc = r[0]], r, a), 1000)

LEMMA LeadsEnd ==
  ASSUME NEW junk, NEW d, NEW r, NEW a
  PROVE  Leads(<<<<"EXIT">>>>, junk, At(d, r, a), Ended(d, r, a))
<1> DEFINE u == <<"EXIT">>
<1>1. u[1] = "EXIT"
  OBVIOUS
<1> HIDE DEF u
<1>2. Do(At(d, r, a), u, junk) = Ended(d, r, a)
  <2> DEFINE s == At(d, r, a)
             s1 == [s EXCEPT !.c.pc = r[0]]
  <2>1. s.skip = 0 /\ s.r = r /\ s.c = d
    BY DEF At
  <2>2. s1 = At([d EXCEPT !.pc = r[0]], r, a)
    BY DEF At
  <2> HIDE DEF s
  <2>3. Do(s, u, junk) = [s EXCEPT !.c.pc = s.r[0], !.skip = 1000]
    BY <1>1, <2>1 DEF Do
  <2>4. Do(s, u, junk) = [s1 EXCEPT !.skip = 1000]
    BY <2>1, <2>3
  <2> HIDE DEF s1
  <2>5. [s1 EXCEPT !.skip = 1000] = Ended(d, r, a)
    BY <2>2 DEF Ended, Skipping
  <2> QED
    BY <2>4, <2>5 DEF s
<1> QED
  BY <1>2, LeadsOne DEF u

Left(d, r, a, p) == Skipping(At([d EXCEPT !.pc = p % Base], [r EXCEPT ![0] = p % Base], a), 1000)
LEMMA LeadsExit ==
  ASSUME NEW junk, NEW d, NEW r \in Files, NEW a, NEW p
  PROVE  Leads(Exit(p), junk, At(d, r, a), Left(d, r, a, p))
<1> DEFINE r1 == [r EXCEPT ![0] = p % Base]
<1>1. Leads(<<Mov32(0, p)>>, junk, At(d, r, a), At(d, r1, a))
  BY LeadsMov32
<1>2. r1[0] = p % Base
  BY DEF Files
<1>3. Ended(d, r1, a) = Left(d, r, a, p)
  BY <1>2 DEF Ended, Left
<1> HIDE DEF r1
<1>4. Leads(<<Mov32(0, p), <<"EXIT">>>>, junk, At(d, r, a), Ended(d, r1, a))
  BY <1>1, LeadsEnd, LeadsTwo
<1> QED
  BY <1>3, <1>4 DEF Exit

LEMMA RunIs ==
  ASSUME NEW emitted, NEW t, Block(emitted, t)
  PROVE  Run(was, emitted, job.junk) = t.c
<1>1. Exec(At(was, Scratch, job.junk), emitted, job.junk) = t
  BY LeadsExec DEF Block
<1> QED
  BY <1>1 DEF Run, At, Scratch

LEMMA BlockEnds ==
  ASSUME NEW emitted, NEW d, NEW r \in Files, NEW a, Block(emitted, At(d, r, a)), NEW p
  PROVE  Run(was, emitted \o Exit(p), job.junk) = [d EXCEPT !.pc = p % Base]
<1>1. Block(emitted \o Exit(p), Left(d, r, a, p))
  BY LeadsExit, LeadsOn DEF Block
<1>2. Left(d, r, a, p).c = [d EXCEPT !.pc = p % Base]
  BY DEF Left, Skipping, At
<1> QED
  BY <1>1, <1>2, RunIs

\* What an instruction does to the machine that neither jumps nor stores: value v
\* in register k, the flags Z and S.
ZeroOf(v) == IF v = 0 THEN 1 ELSE 0
SignOf(v) == IF v >= Top THEN 1 ELSE 0
Leaves(e, k, v, z, s) ==
  /\ e.P = Put(was, k, v).P /\ e.mem = was.mem /\ e.ts = was.ts + 1
  /\ Bit(e.psw, Z) = z /\ Bit(e.psw, S) = s
Computes(emitted, k, v, z, s) ==
  \E d \in Machines, r \in Files : \E a : Block(emitted, At(d, r, a)) /\ Leaves(d, k, v, z, s)
Gives(k, v, z, s, len) ==
  /\ Kept(c.P) = Kept(Put(was, k, v).P) /\ c.mem = was.mem /\ c.ts = was.ts + 1 /\ c.pc = was.pc + len
  /\ Bit(c.psw, Z) = z /\ Bit(c.psw, S) = s
\* What JitAgrees asks of an instruction other than a load or a store.
Agrees ==
  /\ Kept(jit.P) = Kept(c.P) /\ jit.mem = c.mem /\ jit.pc = c.pc
  /\ Bit(jit.psw, Z) = Bit(c.psw, Z) /\ Bit(jit.psw, S) = Bit(c.psw, S)
  /\ jit.ts = c.ts

LEMMA BothAgree ==
  ASSUME ArithmeticAssumption, Ready, NEW emitted, NEW k, NEW v, NEW z, NEW s, NEW len \in {2, 4},
         Computes(emitted, k, v, z, s), Gives(k, v, z, s, len), jit = Run(was, emitted \o Exit(was.pc + len), job.junk)
  PROVE  Agrees
<1>1. PICK d \in Machines, r \in Files : \E a : Block(emitted, At(d, r, a)) /\ Leaves(d, k, v, z, s)
  BY DEF Computes
<1>2. PICK a : Block(emitted, At(d, r, a)) /\ Leaves(d, k, v, z, s)
  BY <1>1
<1>3. jit = [d EXCEPT !.pc = (was.pc + len) % Base]
  BY <1>2, BlockEnds
<1>4. (was.pc + len) % Base = was.pc + len
  BY Widths, SMT DEF Ready
<1>5. jit.P = d.P /\ jit.mem = d.mem /\ jit.ts = d.ts /\ jit.psw = d.psw /\ jit.pc = was.pc + len
  BY <1>3, <1>4 DEF Machines
<1> QED
  BY <1>2, <1>5 DEF Leaves, Gives, Agrees

-----------------------------------------------------------------------------
(* The interpreter. *)
Begun(len) == Tick(IF len = 2 THEN Next2(Plain) ELSE Next4(Plain), 1)

LEMMA BegunAt ==
  ASSUME ArithmeticAssumption, Ready, NEW len \in {2, 4}
  PROVE  /\ Begun(len) \in Machines /\ Begun(len).P = Entered.P /\ Begun(len).psw = was.psw /\ Begun(len).mem = was.mem
         /\ Begun(len).pc = was.pc + len /\ Begun(len).ts = was.ts + 1
<1>0. was \in Machines
  BY DEF Ready
<1>1. Plain \in Machines /\ Plain.P = Entered.P /\ Plain.psw = was.psw /\ Plain.mem = was.mem /\ Plain.pc = was.pc
  BY <1>0, PlainIs
<1>2. Plain.ts = was.ts
  <2>1. Entered \in Machines
    BY <1>0, EnteredIs
  <2>2. Entered.ts = was.ts
    BY <1>0 DEF Entered, Machines
  <2> QED
    BY <2>1, <2>2 DEF Plain, After, Machines
<1>3. Next2(Plain).pc = was.pc + 2 /\ Next4(Plain).pc = was.pc + 4 /\ Next2(Plain).ts = was.ts /\ Next4(Plain).ts = was.ts
  BY <1>1, <1>2 DEF Next2, Next4, Machines
<1>4. /\ Next2(Plain) \in Machines /\ Next2(Plain).P = Entered.P /\ Next2(Plain).psw = was.psw /\ Next2(Plain).mem = was.mem
      /\ Next4(Plain) \in Machines /\ Next4(Plain).P = Entered.P /\ Next4(Plain).psw = was.psw /\ Next4(Plain).mem = was.mem
  BY <1>1, Next2Is, Next4Is
<1> DEFINE g == IF len = 2 THEN Next2(Plain) ELSE Next4(Plain)
<1>5. /\ g \in Machines /\ g.P = Entered.P /\ g.psw = was.psw /\ g.mem = was.mem /\ g.pc = was.pc + len /\ g.ts = was.ts
  BY <1>3, <1>4
<1>6. Begun(len) = Tick(g, 1)
  BY DEF Begun
<1> HIDE DEF g
<1>7. Tick(g, 1).ts = was.ts + 1
  BY <1>5 DEF Tick, Machines
<1> QED
  BY <1>5, <1>6, <1>7, TickIs

LEMMA HeldIs ==
  ASSUME ArithmeticAssumption, Ready, NEW k \in Regs
  PROVE  Held(was, k) = Entered.P[k] /\ Entered.P[k] \in WordValues
<1>1. Entered.P[0] = 0 /\ (\A q \in Regs \ {0} : Entered.P[q] = was.P[q]) /\ (\A q \in Regs : Entered.P[q] \in WordValues)
  BY EnteredIs DEF Ready
<1> QED
  BY <1>1 DEF Held

LEMMA PutIs ==
  ASSUME ArithmeticAssumption, NEW d \in Machines, NEW k \in Regs, NEW v \in WordValues
  PROVE  /\ Put(d, k, v) \in Machines /\ Put(d, k, v).psw = d.psw /\ Put(d, k, v).mem = d.mem /\ Put(d, k, v).ts = d.ts
         /\ Put(d, k, v).pc = d.pc
BY DEF Put, Machines

\* The register a handler writes.
LEMMA KeptPut ==
  ASSUME ArithmeticAssumption, Ready, NEW d \in Machines, d.P = Entered.P, NEW k \in Regs, NEW v \in WordValues
  PROVE  LET e == SetPREG(d, k, v)
         IN /\ e \in Machines /\ Kept(e.P) = Kept(Put(was, k, v).P) /\ e.mem = d.mem /\ e.ts = d.ts
            /\ e.pc = d.pc /\ e.psw = d.psw
<1> DEFINE e == SetPREG(d, k, v)
<1>1. v \in Int /\ v % Base = v /\ was \in Machines
  BY Wraps DEF Ready
<1>2. /\ e \in Machines /\ e.psw = d.psw /\ e.mem = d.mem /\ e.pc = d.pc
      /\ e.P[k] = v /\ \A q \in Regs \ {k} : e.P[q] = d.P[q]
  BY <1>1, PREGIs
<1>3. e.ts = d.ts
  BY DEF SetPREG, Machines
<1>4. \A q \in Regs \ {0} : Entered.P[q] = was.P[q]
  BY <1>1, EnteredIs
<1> HIDE DEF e
<1>5. \A q \in Regs \ {0} : e.P[q] = Put(was, k, v).P[q]
  <2>1. CASE k = 0
    BY <1>2, <1>4, <2>1 DEF Put
  <2>2. CASE k # 0
    <3>1. Put(was, k, v).P = [was.P EXCEPT ![k] = v] /\ was.P \in [Regs -> WordValues]
      BY <1>1, <2>2 DEF Put, Machines
    <3> QED
      BY <1>2, <1>4, <2>2, <3>1
  <2> QED
    BY <2>1, <2>2
<1> QED
  BY <1>2, <1>3, <1>5 DEF e, Kept

LEMMA KeptSame ==
  ASSUME ArithmeticAssumption, Ready
  PROVE  Kept(Entered.P) = Kept(was.P) /\ Put(was, 0, 0) = was
<1>1. \A q \in Regs \ {0} : Entered.P[q] = was.P[q]
  BY EnteredIs DEF Ready
<1> QED
  BY <1>1 DEF Kept, Put

\* The flags Z and S.
LEMMA SignBits ==
  ASSUME NEW psw \in Nat, NEW v, SignsOf(psw, v)
  PROVE  Bit(psw, Z) = ZeroOf(v) /\ Bit(psw, S) = SignOf(v)
<1>1. Z \in 0..3 /\ S \in 0..3
  BY SMT DEF Z, S
<1>2. (Bit(psw, Z) = 0 \/ Bit(psw, Z) = 1) /\ (Bit(psw, S) = 0 \/ Bit(psw, S) = 1)
  BY <1>1, BitIs
<1> QED
  BY <1>2 DEF SignsOf, ZeroOf, SignOf

LEMMA FlaggedGives ==
  ASSUME ArithmeticAssumption, Ready, NEW len \in {2, 4}, NEW k \in Regs, NEW v \in WordValues,
         NEW ov \in BOOLEAN, NEW cy \in BOOLEAN
  PROVE  /\ c = SetPREG(Flagged(Begun(len), [v |-> v, ov |-> ov, cy |-> cy]), k, v) => Gives(k, v, ZeroOf(v), SignOf(v), len)
         /\ c = Flagged(Begun(len), [v |-> v, ov |-> ov, cy |-> cy]) => Gives(0, 0, ZeroOf(v), SignOf(v), len)
<1> DEFINE d == Begun(len)
           e == Flagged(d, [v |-> v, ov |-> ov, cy |-> cy])
<1>1. /\ d \in Machines /\ d.P = Entered.P /\ d.mem = was.mem
      /\ d.pc = was.pc + len /\ d.ts = was.ts + 1
  BY BegunAt
<1> HIDE DEF d
<1>2. v \in Int
  BY Wraps
<1>3. /\ e \in Machines /\ e.P = d.P /\ e.mem = d.mem /\ e.pc = d.pc
      /\ SignsOf(e.psw, v)
  BY <1>1, <1>2, FlaggedIs
<1>4. e.ts = d.ts
  BY <1>1 DEF Flagged, Machines
<1> HIDE DEF e
<1>5. e.psw \in Nat
  BY <1>3 DEF Machines
<1>6. Bit(e.psw, Z) = ZeroOf(v) /\ Bit(e.psw, S) = SignOf(v)
  BY <1>3, <1>5, SignBits
<1>7. ASSUME c = SetPREG(e, k, v) PROVE Gives(k, v, ZeroOf(v), SignOf(v), len)
  BY <1>1, <1>3, <1>4, <1>6, <1>7, KeptPut DEF Gives
<1>8. ASSUME c = e PROVE Gives(0, 0, ZeroOf(v), SignOf(v), len)
  BY <1>1, <1>3, <1>4, <1>6, <1>8, KeptSame DEF Gives
<1> QED
  BY <1>7, <1>8 DEF d, e

LEMMA LogicalGives ==
  ASSUME ArithmeticAssumption, Ready, NEW len \in {2, 4}, NEW k \in Regs, NEW v \in WordValues,
         c = SetPREG(Logical(Begun(len), v), k, v)
  PROVE  Gives(k, v, ZeroOf(v), SignOf(v), len)
<1> DEFINE d == Begun(len)
           one == SetFlag(d.psw, OV, FALSE)
           psw == SetSZ(one, v)
           e == Logical(d, v)
<1>1. /\ d \in Machines /\ d.P = Entered.P /\ d.mem = was.mem
      /\ d.pc = was.pc + len /\ d.ts = was.ts + 1
  BY BegunAt
<1> HIDE DEF d
<1>2. v \in Int /\ Top \in Int /\ OV \in 0..3 /\ d.psw \in Nat
  <2>1. OV \in 0..3
    BY SMT DEF OV
  <2> QED
    BY <1>1, <2>1, Wraps, WordFacts DEF Machines
<1>3. one \in Nat
  BY <1>2, SetFlagIs
<1> HIDE DEF one
<1>4. psw \in Nat /\ SignsOf(psw, v)
  BY <1>2, <1>3, SignsAre
<1>5. e = [d EXCEPT !.psw = psw]
  BY DEF Logical, one
<1> HIDE DEF psw, e
<1>6. /\ e \in Machines /\ e.P = d.P /\ e.mem = d.mem /\ e.pc = d.pc /\ e.psw = psw
  BY <1>1, <1>4, <1>5, PswIs
<1>7. e.ts = d.ts
  BY <1>1, <1>5 DEF Machines
<1>8. Bit(e.psw, Z) = ZeroOf(v) /\ Bit(e.psw, S) = SignOf(v)
  BY <1>4, <1>6, SignBits
<1>9. c = SetPREG(e, k, v)
  BY DEF e, d
<1> QED
  BY <1>1, <1>6, <1>7, <1>8, <1>9, KeptPut DEF Gives

LEMMA MovedGives ==
  ASSUME ArithmeticAssumption, Ready, NEW len \in {2, 4}, NEW k \in Regs, NEW v \in WordValues,
         c = SetPREG(Begun(len), k, v)
  PROVE  Gives(k, v, Bit(was.psw, Z), Bit(was.psw, S), len)
BY BegunAt, KeptPut DEF Gives

-----------------------------------------------------------------------------
(* The blocks that compute a value with its flags and store both.          *)

LEMMA Started ==
  ASSUME ArithmeticAssumption, Ready
  PROVE  /\ Scratch \in Files /\ job.junk \in WordValues /\ was \in Machines /\ was.psw \in WordValues
         /\ Scratch[0] = job.junk /\ job.r2 \in Regs /\ job.imm \in Int
BY DEF Ready, Instructions, Scratch, Files

\* The clock of one cycle, and the flags before it.
LEMMA DoneComputes ==
  ASSUME ArithmeticAssumption, Ready, NEW emitted, NEW d \in Machines, NEW r \in Files, NEW a, Block(emitted, At(d, r, a)),
         NEW k, NEW v, d.P = Put(was, k, v).P, d.mem = was.mem, d.ts = was.ts
  PROVE  Computes(emitted \o Done, k, v, Bit(d.psw, Z), Bit(d.psw, S))
<1>1. Leads(<<AddClock(1)>>, job.junk, At(d, r, a), At(Tick(d, 1), r, a))
  BY LeadsClock
<1>2. Block(emitted \o Done, At(Tick(d, 1), r, a))
  BY <1>1, LeadsOn DEF Block, Done
<1>3. Tick(d, 1) \in Machines /\ Tick(d, 1).P = d.P /\ Tick(d, 1).psw = d.psw /\ Tick(d, 1).mem = d.mem
  BY TickIs
<1>4. Tick(d, 1).ts = was.ts + 1
  BY DEF Tick, Machines
<1> QED
  BY <1>2, <1>3, <1>4 DEF Computes, Leaves

HasFlags(emitted, d, r, a, v) ==
  \E p \in WordValues, r1 \in Files : /\ Block(emitted, At([d EXCEPT !.psw = p], r1, a))
                                     /\ Bit(p, Z) = ZeroOf(v) /\ Bit(p, S) = SignOf(v) /\ r1[0] = r[0]
LEMMA FlagsStored ==
  ASSUME ArithmeticAssumption, Ready, NEW emitted, NEW d \in Machines, d.psw \in WordValues, NEW r \in Files, NEW a \in WordValues,
         Block(emitted, At(d, r, a)), NEW v, Shows(a, v), NEW sub \in BOOLEAN, NEW mask \in {3, 11, 15}
  PROVE  HasFlags(emitted \o EmitPswFlags(sub, mask), d, r, a, v)
<1>0. StoresFlags(EmitPswFlags(sub, mask), job.junk, d, r, a)
  BY EmitPswFlagsIs
<1>1. PICK p \in WordValues, r1 \in Files :
            /\ Leads(EmitPswFlags(sub, mask), job.junk, At(d, r, a), At([d EXCEPT !.psw = p], r1, a))
            /\ Bit(p, 0) = Bit(a, ArmZ) /\ Bit(p, 1) = Bit(a, ArmN) /\ r1[0] = r[0]
  BY <1>0 DEF StoresFlags
<1>2. Block(emitted \o EmitPswFlags(sub, mask), At([d EXCEPT !.psw = p], r1, a))
  BY <1>1, LeadsOn DEF Block
<1>3. Bit(p, Z) = ZeroOf(v) /\ Bit(p, S) = SignOf(v)
  BY <1>1 DEF Shows, ZeroOf, SignOf, Z, S
<1> QED
  BY <1>1, <1>2, <1>3 DEF HasFlags

LEMMA PswPut ==
  ASSUME ArithmeticAssumption, NEW d \in Machines, NEW p \in WordValues
  PROVE  LET e == [d EXCEPT !.psw = p]
         IN e \in Machines /\ e.P = d.P /\ e.psw = p /\ e.mem = d.mem /\ e.ts = d.ts /\ e.pc = d.pc
<1>1. p \in Nat
  BY WordFacts, SMT DEF WordValues
<1> QED
  BY <1>1 DEF Machines

LEMMA FlagsComputed ==
  ASSUME ArithmeticAssumption, Ready, NEW emitted, NEW k \in Regs, NEW w \in WordValues, NEW r \in Files, NEW a \in WordValues,
         Block(emitted, At(Put(was, k, w), r, a)), NEW v, Shows(a, v), NEW sub \in BOOLEAN, NEW mask \in {3, 11, 15}
  PROVE  /\ Computes(emitted \o EmitPswFlags(sub, mask) \o Done, k, w, ZeroOf(v), SignOf(v))
<1> DEFINE d == Put(was, k, w)
<1>1. d \in Machines /\ d.psw = was.psw /\ d.mem = was.mem /\ d.ts = was.ts /\ d.psw \in WordValues
  BY PutIs, Started, ZenonT(60)
<1> HIDE DEF d
<1>2. Block(emitted, At(d, r, a))
  BY DEF d
<1>a. HasFlags(emitted \o EmitPswFlags(sub, mask), d, r, a, v)
  BY <1>1, <1>2, FlagsStored
<1>3. PICK p \in WordValues, r1 \in Files :
            /\ Block(emitted \o EmitPswFlags(sub, mask), At([d EXCEPT !.psw = p], r1, a))
            /\ Bit(p, Z) = ZeroOf(v) /\ Bit(p, S) = SignOf(v) /\ r1[0] = r[0]
  BY <1>a DEF HasFlags
<1> DEFINE e == [d EXCEPT !.psw = p]
<1>4. e \in Machines /\ e.P = d.P /\ e.psw = p /\ e.mem = d.mem /\ e.ts = d.ts
  BY <1>1, PswPut
<1> HIDE DEF e
<1>5. Computes((emitted \o EmitPswFlags(sub, mask)) \o Done, k, w, Bit(e.psw, Z), Bit(e.psw, S))
  <2>1. e.P = Put(was, k, w).P /\ e.mem = was.mem /\ e.ts = was.ts
    BY <1>1, <1>4 DEF d
  <2>2. Block(emitted \o EmitPswFlags(sub, mask), At(e, r1, a))
    BY <1>3 DEF e
  <2> QED
    BY <1>4, <2>1, <2>2, DoneComputes
<1> QED
  BY <1>3, <1>4, <1>5

\* Two operands, the second one in r1.
Brings(u, x) == \A r, a : Leads(<<u>>, job.junk, At(was, r, a), At(was, [r EXCEPT ![1] = x], a))
LEMMA OperandsBrought ==
  ASSUME ArithmeticAssumption, Ready
  PROVE  /\ \A q \in Regs : Brings(LdrPreg(1, q), Entered.P[q])
         /\ \A v \in WordValues : Brings(Mov32(1, v), v)
<1>1. ASSUME NEW q \in Regs PROVE Brings(LdrPreg(1, q), Entered.P[q])
  <2>1. Held(was, q) = Entered.P[q]
    BY HeldIs
  <2> QED
    BY <2>1, LeadsLdrPreg DEF Brings
<1>2. ASSUME NEW v \in WordValues PROVE Brings(Mov32(1, v), v)
  <2>1. v % Base = v
    BY Wraps
  <2>2. ASSUME NEW r, NEW a PROVE Leads(<<Mov32(1, v)>>, job.junk, At(was, r, a), At(was, [r EXCEPT ![1] = v], a))
    <3>1. Leads(<<Mov32(1, v)>>, job.junk, At(was, r, a), At(was, [r EXCEPT ![1] = v % Base], a))
      BY LeadsMov32
    <3> QED
      BY <2>1, <3>1
  <2> QED
    BY <2>2 DEF Brings
<1> QED
  BY <1>1, <1>2

Brought(p, u, x) ==
  \E r \in Files : /\ Block(<<LdrPreg(0, p), u>>, At(was, r, job.junk)) /\ r[0] = Entered.P[p] /\ r[1] = x
                   /\ Block(<<LdrPreg(0, p)>>, At(was, [Scratch EXCEPT ![0] = Entered.P[p]], job.junk))
                   /\ Leads(<<u>>, job.junk, At(was, [Scratch EXCEPT ![0] = Entered.P[p]], job.junk), At(was, r, job.junk))
LEMMA Loaded ==
  ASSUME ArithmeticAssumption, Ready, NEW p \in Regs, NEW u, NEW x \in WordValues, Brings(u, x)
  PROVE  Brought(p, u, x)
<1> DEFINE f == [Scratch EXCEPT ![0] = Entered.P[p]]
           r == [f EXCEPT ![1] = x]
<1>1. Held(was, p) = Entered.P[p] /\ Entered.P[p] \in WordValues /\ Scratch \in Files
  BY HeldIs, Started
<1>2. f \in Files /\ r \in Files /\ r[0] = Entered.P[p] /\ r[1] = x
  BY <1>1 DEF Files
<1>3. Block(<<LdrPreg(0, p)>>, At(was, f, job.junk))
  BY <1>1, LeadsLdrPreg DEF Block
<1>4. Leads(<<u>>, job.junk, At(was, f, job.junk), At(was, r, job.junk))
  BY DEF Brings
<1> HIDE DEF f, r
<1>5. Block(<<LdrPreg(0, p), u>>, At(was, r, job.junk))
  BY <1>3, <1>4, LeadsTwo DEF Block
<1> QED
  BY <1>2, <1>3, <1>4, <1>5 DEF f, Brought

\* A data instruction on them that sets the flags, and its result in a register.
LEMMA Operated ==
  ASSUME ArithmeticAssumption, Ready, NEW p \in Regs, NEW u, NEW x \in WordValues, Brings(u, x),
         NEW name \in DataNames, Counted(name, x), NEW k \in Regs
  PROVE  LET v == ArmValue(name, Entered.P[p], x)
         IN /\ v \in WordValues
            /\ \E r \in Files, a \in WordValues :
                  /\ Shows(a, v)
                  /\ Block(<<LdrPreg(0, p), u, DataS(name)>>, At(was, r, a))
                  /\ Block(<<LdrPreg(0, p), u, DataS(name), StrPreg(0, k)>>, At(Put(was, k, v), r, a))
                  /\ Block(<<LdrPreg(0, p), u>> \o <<DataS(name), StrPreg(0, k)>>, At(Put(was, k, v), r, a))
<1> DEFINE v == ArmValue(name, Entered.P[p], x)
           junk == job.junk
           g == [Scratch EXCEPT ![0] = Entered.P[p]]
<1>0. junk \in WordValues
  BY Started
<1>1. PICK f \in Files : /\ Block(<<LdrPreg(0, p), u>>, At(was, f, junk)) /\ f[0] = Entered.P[p] /\ f[1] = x
                         /\ Block(<<LdrPreg(0, p)>>, At(was, g, junk))
                         /\ Leads(<<u>>, junk, At(was, g, junk), At(was, f, junk))
  BY Loaded DEF Brought
<1> HIDE DEF g
<1>2. IsOperand(R(1), f, x) /\ 0 \in 0..3 /\ 1 \in 0..3
  BY <1>1, OperandIs
<1> DEFINE r == [f EXCEPT ![0] = v]
<1>3. /\ v \in WordValues /\ r \in Files
      /\ SetsFlags(<<name, TRUE, 0, 0, R(1)>>, junk, At(was, f, junk), was, r, v)
  BY <1>0, <1>1, <1>2, LeadsData
<1>4. PICK a \in WordValues : Leads(<<DataS(name)>>, junk, At(was, f, junk), At(was, r, a)) /\ Shows(a, v)
  BY <1>3 DEF DataS, SetsFlags
<1>5. r[0] = v
  BY <1>1 DEF Files
<1> HIDE DEF r, v, junk
<1>6. Leads(<<StrPreg(0, k)>>, junk, At(was, r, a), At(Put(was, k, v), r, a))
  BY <1>5, LeadsStrPreg
<1> DEFINE start == At(was, Scratch, job.junk)
<1>7. Leads(<<LdrPreg(0, p)>>, junk, start, At(was, g, junk))
  BY <1>1 DEF Block, junk
<1> HIDE DEF start
<1>8. Leads(<<LdrPreg(0, p), u, DataS(name)>>, junk, start, At(was, r, a))
  BY <1>1, <1>4, <1>7, LeadsThree
<1>9. Leads(<<LdrPreg(0, p), u, DataS(name), StrPreg(0, k)>>, junk, start, At(Put(was, k, v), r, a))
  BY <1>1, <1>4, <1>6, <1>7, LeadsFour
<1>10. Leads(<<DataS(name), StrPreg(0, k)>>, junk, At(was, f, junk), At(Put(was, k, v), r, a))
  BY <1>4, <1>6, LeadsTwo
<1>11. Leads(<<LdrPreg(0, p), u>>, junk, start, At(was, f, junk))
  BY <1>1 DEF Block, start, junk
<1>12. Leads(<<LdrPreg(0, p), u>> \o <<DataS(name), StrPreg(0, k)>>, junk, start, At(Put(was, k, v), r, a))
  BY <1>10, <1>11, LeadsOn
<1>13. /\ Block(<<LdrPreg(0, p), u, DataS(name)>>, At(was, r, a))
       /\ Block(<<LdrPreg(0, p), u, DataS(name), StrPreg(0, k)>>, At(Put(was, k, v), r, a))
       /\ Block(<<LdrPreg(0, p), u>> \o <<DataS(name), StrPreg(0, k)>>, At(Put(was, k, v), r, a))
  BY <1>8, <1>9, <1>12, SMTT(60) DEF Block, start, junk
<1> QED
  BY <1>3, <1>4, <1>13 DEF v

-----------------------------------------------------------------------------
(* The groups of instructions, and the handler each one goes to.           *)

\* The interpreter and the block have run.
Both == c = Execute(was, job) /\ jit = Run(was, Emitted(job, was.pc), job.junk)

LEMMA DispatchedToo ==
  ASSUME c = Execute(was, job)
  PROVE  /\ job.op = "MOV" => c = MOV(Plain, job)
         /\ job.op = "JMP" => c = JMP(Plain, job)
         /\ job.op = "MOV_I" => c = MOV_I(Plain, job)
         /\ job.op = "SETF" => c = SETF(Plain, job)
         /\ job.op = "BCOND" => c = Branch(Plain, job)
         /\ job.op \in {"JR", "JAL"} => c = Jump(Plain, job)
         /\ job.op = "NOP" => c = NOP(Plain, job)
         /\ job.op \in {"LD_B", "LD_H"} => c = LoadNarrow(Entered, job)
         /\ job.op = "LD_W" => c = LD_W(Entered, job)
         /\ job.op \in {"ST_B", "ST_H"} => c = StoreNarrow(Entered, job)
         /\ job.op = "ST_W" => c = ST_W(Entered, job)
BY ZenonT(60) DEF Execute, Plain, Entered, AddSubs, Shifts, Logics, Shifts_I, Longs, Ins, Outs

LEMMA EmittedIs ==
  /\ job.op \in {"MOV", "ADD", "SUB", "CMP"} => Emitted(job, was.pc) = EmitMoveAdd(job) \o Exit(was.pc + 2)
  /\ job.op \in Shifts => Emitted(job, was.pc) = EmitShift(job) \o Exit(was.pc + 2)
  /\ job.op \in Logics => Emitted(job, was.pc) = EmitLogic(job) \o Exit(was.pc + 2)
  /\ job.op \in Shifts_I => Emitted(job, was.pc) = EmitShift_I(job) \o Exit(was.pc + 2)
  /\ job.op \in {"MOV_I", "ADD_I", "SETF", "CMP_I"} => Emitted(job, was.pc) = EmitImmediate(job) \o Exit(was.pc + 2)
  /\ job.op \in Longs => Emitted(job, was.pc) = EmitLong(job) \o Exit(was.pc + 4)
  /\ job.op \in Loads => Emitted(job, was.pc) = EmitLoad(job) \o Exit(was.pc + 4)
  /\ job.op \in Stores => Emitted(job, was.pc) = EmitStore(job) \o Exit(was.pc + 4)
  /\ job.op = "NOP" => Emitted(job, was.pc) = Done \o Exit(was.pc + 2)
  /\ job.op = "JMP" => Emitted(job, was.pc) = EmitJmp(job) \o <<>>
  /\ job.op \in {"JR", "JAL"} => Emitted(job, was.pc) = EmitJump(job, was.pc) \o <<>>
  /\ job.op = "BCOND" => Emitted(job, was.pc) = EmitBranch(job, was.pc) \o <<>>
BY ZenonT(60) DEF Emitted, EmitBranch, AddSubs, Shifts, Logics, Shifts_I, Longs, Loads, Stores, Long4, EndsBlock

\* The instructions that move a value and leave the flags.
LEMMA MovesAgree ==
  ASSUME ArithmeticAssumption, Ready, Both, job.op \in {"MOV", "MOV_I"}
  PROVE  Agrees
<1>0. /\ job.r1 \in Regs /\ job.r2 \in Regs /\ Entered.P[job.r1] \in WordValues
      /\ Extend(job.imm, ImmBits) \in WordValues /\ Scratch \in Files /\ was \in Machines
  <2>1. job.r1 \in Regs /\ job.r2 \in Regs /\ job.imm \in Int /\ Entered.P[job.r1] \in WordValues
    BY OperandsAre DEF Ready
  <2> QED
    BY <2>1, ExtendIs, Started
<1>1. Plain.P = Entered.P
  BY PlainIs DEF Ready
<1> DEFINE v == IF job.op = "MOV" THEN Entered.P[job.r1] ELSE Extend(job.imm, ImmBits)
           u == IF job.op = "MOV" THEN LdrPreg(0, job.r1) ELSE Mov32(0, Extend(job.imm, ImmBits))
           emitted == <<u, StrPreg(0, job.r2)>>
           r == [Scratch EXCEPT ![0] = v]
<1>2. v \in WordValues /\ r \in Files /\ r[0] = v
  BY <1>0 DEF Files
<1>3. c = SetPREG(Begun(2), job.r2, v)
  <2>1. CASE job.op = "MOV"
    <3>1. c = MOV(Plain, job)
      BY <2>1, DispatchedToo DEF Both
    <3> QED
      BY <1>1, <2>1, <3>1 DEF MOV, Begun
  <2>2. CASE job.op = "MOV_I"
    <3>1. c = MOV_I(Plain, job)
      BY <2>2, DispatchedToo DEF Both
    <3> QED
      BY <2>2, <3>1 DEF MOV_I, Begun
  <2> QED
    BY <2>1, <2>2
<1>4. Emitted(job, was.pc) = (emitted \o Done) \o Exit(was.pc + 2)
  <2>1. CASE job.op = "MOV"
    BY <2>1, EmittedIs DEF EmitMoveAdd
  <2>2. CASE job.op = "MOV_I"
    <3>1. Emitted(job, was.pc) = EmitImmediate(job) \o Exit(was.pc + 2)
      BY <2>2, EmittedIs
    <3>2. EmitImmediate(job) = emitted \o Done
      BY <2>2 DEF EmitImmediate
    <3> QED
      BY <3>1, <3>2
  <2> QED
    BY <2>1, <2>2
<1>5. Leads(<<u>>, job.junk, At(was, Scratch, job.junk), At(was, r, job.junk))
  <2>1. CASE job.op = "MOV"
    <3>1. Held(was, job.r1) = v
      BY <1>0, <2>1, HeldIs
    <3> QED
      BY <2>1, <3>1, LeadsLdrPreg
  <2>2. CASE job.op = "MOV_I"
    <3>1. v % Base = v /\ u = Mov32(0, v)
      BY <1>2, <2>2, Wraps
    <3> HIDE DEF v, u
    <3>2. Leads(<<Mov32(0, v)>>, job.junk, At(was, Scratch, job.junk), At(was, [Scratch EXCEPT ![0] = v % Base], job.junk))
      BY LeadsMov32
    <3> QED
      BY <3>1, <3>2
  <2> QED
    BY <2>1, <2>2
<1> HIDE DEF v, u, r
<1>6. Leads(<<StrPreg(0, job.r2)>>, job.junk, At(was, r, job.junk), At(Put(was, job.r2, v), r, job.junk))
  BY <1>2, LeadsStrPreg
<1>7. Block(emitted, At(Put(was, job.r2, v), r, job.junk))
  BY <1>5, <1>6, LeadsTwo DEF Block
<1> HIDE DEF emitted
<1> DEFINE d == Put(was, job.r2, v)
<1>8. d \in Machines /\ d.psw = was.psw /\ d.mem = was.mem /\ d.ts = was.ts /\ d.P = Put(was, job.r2, v).P
  BY <1>0, <1>2, PutIs, SMTT(60)
<1> HIDE DEF d
<1>9. Block(emitted, At(d, r, job.junk))
  BY <1>7 DEF d
<1>10. Computes(emitted \o Done, job.r2, v, Bit(d.psw, Z), Bit(d.psw, S))
  BY <1>2, <1>8, <1>9, DoneComputes
<1>11. Gives(job.r2, v, Bit(was.psw, Z), Bit(was.psw, S), 2)
  BY <1>0, <1>2, <1>3, MovedGives
<1>12. jit = Run(was, (emitted \o Done) \o Exit(was.pc + 2), job.junk)
  BY <1>4 DEF Both
<1>13. Computes(emitted \o Done, job.r2, v, Bit(was.psw, Z), Bit(was.psw, S))
  BY <1>8, <1>10
<1> QED
  BY <1>11, <1>12, <1>13, BothAgree

\* A value computed with flags, whatever the two sides are made of.
LEMMA FlaggedAgree ==
  ASSUME ArithmeticAssumption, Ready, NEW len \in {2, 4}, NEW k \in Regs, NEW v \in WordValues,
         NEW r \in Files, NEW a \in WordValues, Shows(a, v), NEW emitted, NEW sub \in BOOLEAN, NEW mask \in {3, 11, 15},
         \/ Block(emitted, At(Put(was, k, v), r, a)) /\ Gives(k, v, ZeroOf(v), SignOf(v), len)
         \/ Block(emitted, At(was, r, a)) /\ Gives(0, 0, ZeroOf(v), SignOf(v), len),
         jit = Run(was, (emitted \o EmitPswFlags(sub, mask) \o Done) \o Exit(was.pc + len), job.junk)
  PROVE  Agrees
<1>1. CASE Block(emitted, At(Put(was, k, v), r, a)) /\ Gives(k, v, ZeroOf(v), SignOf(v), len)
  <2>1. Computes(emitted \o EmitPswFlags(sub, mask) \o Done, k, v, ZeroOf(v), SignOf(v))
    BY <1>1, FlagsComputed
  <2> QED
    BY <1>1, <2>1, BothAgree
<1>2. CASE Block(emitted, At(was, r, a)) /\ Gives(0, 0, ZeroOf(v), SignOf(v), len)
  <2>1. Put(was, 0, 0) = was /\ 0 \in Regs /\ 0 \in WordValues
    BY KeptSame, ZeroBits DEF ArithmeticAssumption
  <2>2. Block(emitted, At(Put(was, 0, 0), r, a))
    BY <1>2, <2>1
  <2>3. Computes(emitted \o EmitPswFlags(sub, mask) \o Done, 0, 0, ZeroOf(v), SignOf(v))
    BY <2>1, <2>2, FlagsComputed
  <2> QED
    BY <1>2, <2>3, BothAgree
<1> QED
  BY <1>1, <1>2

-----------------------------------------------------------------------------
(* Sums, differences and comparisons.                                      *)

\* Two operands, a data instruction, the flags.
ForBoth(emitted, p, u, name, k, v, len) ==
  \/ /\ emitted = <<LdrPreg(0, p), u, DataS(name), StrPreg(0, k)>> \/ emitted = <<LdrPreg(0, p), u>> \o <<DataS(name), StrPreg(0, k)>>
     /\ Gives(k, v, ZeroOf(v), SignOf(v), len)
  \/ /\ emitted = <<LdrPreg(0, p), u, DataS(name)>>
     /\ Gives(0, 0, ZeroOf(v), SignOf(v), len)
LEMMA OperatedAgree ==
  ASSUME ArithmeticAssumption, Ready, NEW p \in Regs, NEW u, NEW x \in WordValues, Brings(u, x),
         NEW name \in DataNames, Counted(name, x), NEW k \in Regs, NEW len \in {2, 4}, NEW v,
         v = ArmValue(name, Entered.P[p], x), NEW emitted, NEW sub \in BOOLEAN, NEW mask \in {3, 11, 15},
         ForBoth(emitted, p, u, name, k, v, len),
         jit = Run(was, (emitted \o EmitPswFlags(sub, mask) \o Done) \o Exit(was.pc + len), job.junk)
  PROVE  Agrees
<1>1. v \in WordValues /\ \E r \in Files, a \in WordValues :
                  /\ Shows(a, v)
                  /\ Block(<<LdrPreg(0, p), u, DataS(name)>>, At(was, r, a))
                  /\ Block(<<LdrPreg(0, p), u, DataS(name), StrPreg(0, k)>>, At(Put(was, k, v), r, a))
                  /\ Block(<<LdrPreg(0, p), u>> \o <<DataS(name), StrPreg(0, k)>>, At(Put(was, k, v), r, a))
  BY Operated
<1>2. PICK r \in Files, a \in WordValues :
                  /\ Shows(a, v)
                  /\ Block(<<LdrPreg(0, p), u, DataS(name)>>, At(was, r, a))
                  /\ Block(<<LdrPreg(0, p), u, DataS(name), StrPreg(0, k)>>, At(Put(was, k, v), r, a))
                  /\ Block(<<LdrPreg(0, p), u>> \o <<DataS(name), StrPreg(0, k)>>, At(Put(was, k, v), r, a))
  BY <1>1
<1>3. \/ Block(emitted, At(Put(was, k, v), r, a)) /\ Gives(k, v, ZeroOf(v), SignOf(v), len)
      \/ Block(emitted, At(was, r, a)) /\ Gives(0, 0, ZeroOf(v), SignOf(v), len)
  BY <1>2 DEF ForBoth
<1> QED
  BY <1>1, <1>2, <1>3, FlaggedAgree

LEMMA SumsAgree ==
  ASSUME ArithmeticAssumption, Ready, Both, job.op \in {"ADD", "SUB", "CMP", "ADD_I", "CMP_I", "ADDI"}
  PROVE  Agrees
<1> DEFINE x == IF job.op \in AddSubs THEN Entered.P[job.r1]
                ELSE IF job.op = "ADDI" THEN Extend(job.imm, W \div 2) ELSE Extend(job.imm, ImmBits)
           p == IF job.op = "ADDI" THEN job.r1 ELSE job.r2
           u == IF job.op \in AddSubs THEN LdrPreg(1, job.r1) ELSE Mov32(1, x)
           name == IF job.op \in {"ADD", "ADD_I", "ADDI"} THEN "ADD" ELSE "SUB"
           len == IF job.op = "ADDI" THEN 4 ELSE 2
           y == Entered.P[p]
           D == IF name = "ADD" THEN Sum(y, x) ELSE Difference(y, x)
           v == ArmValue(name, y, x)
           emitted == IF job.op = "ADDI" THEN <<LdrPreg(0, p), u>> \o <<DataS(name), StrPreg(0, job.r2)>>
                   ELSE IF job.op \in {"CMP", "CMP_I"} THEN <<LdrPreg(0, p), u, DataS(name)>>
                   ELSE <<LdrPreg(0, p), u, DataS(name), StrPreg(0, job.r2)>>
           sub == name = "SUB"
<1>0. /\ job.r1 \in Regs /\ job.r2 \in Regs /\ job.imm \in Int
      /\ Entered.P[job.r1] \in WordValues /\ Entered.P[job.r2] \in WordValues
  BY OperandsAre DEF Ready
<1>1. x \in WordValues /\ y \in WordValues /\ p \in Regs /\ name \in DataNames /\ len \in {2, 4}
  BY <1>0, ExtendIs DEF DataNames
<1>2. Brings(u, x)
  <2>1. CASE job.op \in AddSubs
    BY <1>0, <2>1, OperandsBrought
  <2>2. CASE job.op \notin AddSubs
    <3>1. u = Mov32(1, x)
      BY <2>2
    <3> HIDE DEF u, x
    <3> QED
      BY <1>1, <3>1, OperandsBrought
  <2> QED
    BY <2>1, <2>2
<1>3. Counted(name, x)
  BY DEF Counted, Shifts
<1>4. Plain.P = Entered.P
  BY PlainIs DEF Ready
<1>5. \E ov, cy \in BOOLEAN : D = [v |-> v, ov |-> ov, cy |-> cy]
  <2>1. CASE name = "ADD"
    <3>1. v = (y + x) % Base
      <4> HIDE DEF name, y, x
      <4> QED
        BY <2>1 DEF ArmValue, Shifts
    <3>2. D = Sum(y, x) /\ y + x = x + y
      BY <1>1, <2>1, Wraps
    <3> HIDE DEF D, v, y, x, name
    <3> QED
      BY <1>1, <3>1, <3>2, SumIs
  <2>2. CASE name = "SUB"
    <3>1. v = (y - x) % Base
      <4> HIDE DEF name, y, x
      <4> QED
        BY <2>2 DEF ArmValue, Shifts
    <3>2. D = Difference(y, x)
      BY <2>2
    <3> HIDE DEF D, v, y, x, name
    <3> QED
      BY <1>1, <3>1, <3>2, DifferenceIs
  <2> QED
    BY <2>1, <2>2
<1>6. PICK ov, cy \in BOOLEAN : D = [v |-> v, ov |-> ov, cy |-> cy]
  BY <1>5
<1>7. v \in WordValues
  <2> HIDE DEF v, y, x, u, p, name
  <2>1. ArmValue(name, Entered.P[p], x) \in WordValues
    BY <1>0, <1>1, <1>2, <1>3, Operated
  <2> QED
    BY <2>1 DEF v, y
<1>8. IF job.op \in {"CMP", "CMP_I"} THEN c = Flagged(Begun(len), D) ELSE c = SetPREG(Flagged(Begun(len), D), job.r2, D.v)
  <2>1. CASE job.op \in AddSubs
    <3>1. c = AddSub(Plain, job)
      BY <2>1, Dispatched DEF Both
    <3> QED
      BY <1>4, <2>1, <3>1 DEF AddSub, Begun, AddSubs
  <2>2. CASE job.op = "ADD_I"
    <3>1. c = ADD_I(Plain, job)
      BY <2>2, Dispatched DEF Both
    <3> QED
      BY <1>4, <2>2, <3>1 DEF ADD_I, Begun, AddSubs
  <2>3. CASE job.op = "CMP_I"
    <3>1. c = CMP_I(Plain, job)
      BY <2>3, Dispatched DEF Both
    <3> QED
      BY <1>4, <2>3, <3>1 DEF CMP_I, Begun, AddSubs
  <2>4. CASE job.op = "ADDI"
    <3>1. c = Long(Plain, job)
      BY <2>4, Dispatched DEF Both, Longs
    <3>2. D = Sum(y, x) /\ D.v = (y + x) % Base
      BY <2>4 DEF Sum
    <3>3. y = Plain.P[job.r1] /\ x = Extend(job.imm, W \div 2) /\ len = 4
      BY <1>4, <2>4 DEF AddSubs
    <3>4. c = SetPREG(Flagged(Tick(Next4(Plain), 1), Sum(y, x)), job.r2, (y + x) % Base)
      BY <2>4, <3>1, <3>3, SMTT(60) DEF Long
    <3> QED
      BY <2>4, <3>2, <3>3, <3>4 DEF Begun
  <2> QED
    BY <2>1, <2>2, <2>3, <2>4 DEF AddSubs
<1>9. Emitted(job, was.pc) = (emitted \o EmitPswFlags(sub, 15) \o Done) \o Exit(was.pc + len)
  <2>1. CASE job.op \in AddSubs
    <3>1. Emitted(job, was.pc) = EmitMoveAdd(job) \o Exit(was.pc + 2)
      BY <2>1, EmittedIs DEF AddSubs
    <3>2. EmitMoveAdd(job) = emitted \o EmitPswFlags(sub, 15) \o Done
      BY <2>1 DEF EmitMoveAdd, AddSubs
    <3> QED
      BY <2>1, <3>1, <3>2 DEF AddSubs
  <2>2. CASE job.op \in {"ADD_I", "CMP_I"}
    <3>1. Emitted(job, was.pc) = EmitImmediate(job) \o Exit(was.pc + 2)
      BY <2>2, EmittedIs
    <3>2. EmitImmediate(job) = emitted \o EmitPswFlags(sub, 15) \o Done
      BY <2>2 DEF EmitImmediate, AddSubs
    <3> QED
      BY <2>2, <3>1, <3>2
  <2>3. CASE job.op = "ADDI"
    <3>1. Emitted(job, was.pc) = EmitLong(job) \o Exit(was.pc + 4)
      BY <2>3, EmittedIs DEF Longs
    <3>2. EmitLong(job) = EmitAddImmediate(job) \o Done
      BY <2>3 DEF EmitLong
    <3>3. EmitAddImmediate(job) = emitted \o EmitPswFlags(sub, 15)
      BY <2>3 DEF EmitAddImmediate, Operands, AddSubs
    <3> QED
      BY <2>3, <3>1, <3>2, <3>3
  <2> QED
    BY <2>1, <2>2, <2>3 DEF AddSubs
<1>10. \/ /\ emitted = <<LdrPreg(0, p), u, DataS(name), StrPreg(0, job.r2)>> \/ emitted = <<LdrPreg(0, p), u>> \o <<DataS(name), StrPreg(0, job.r2)>>
          /\ job.op \notin {"CMP", "CMP_I"}
       \/ /\ emitted = <<LdrPreg(0, p), u, DataS(name)>>
          /\ job.op \in {"CMP", "CMP_I"}
  OBVIOUS
<1>11. sub \in BOOLEAN
  OBVIOUS
<1>12. v = ArmValue(name, Entered.P[p], x)
  OBVIOUS
<1> HIDE DEF x, p, u, name, len, y, D, v, emitted, sub
<1>13. IF job.op \in {"CMP", "CMP_I"} THEN Gives(0, 0, ZeroOf(v), SignOf(v), len) ELSE Gives(job.r2, v, ZeroOf(v), SignOf(v), len)
  <2>1. D.v = v
    BY <1>6
  <2> QED
    BY <1>0, <1>1, <1>6, <1>7, <1>8, <2>1, FlaggedGives
<1>14. jit = Run(was, (emitted \o EmitPswFlags(sub, 15) \o Done) \o Exit(was.pc + len), job.junk)
  BY <1>9 DEF Both
<1>15. 15 \in {3, 11, 15}
  OBVIOUS
<1>16. ForBoth(emitted, p, u, name, job.r2, v, len)
  BY <1>10, <1>13, Zenon DEF ForBoth
<1> QED
  BY <1>0, <1>1, <1>2, <1>3, <1>11, <1>12, <1>14, <1>15, <1>16, OperatedAgree

-----------------------------------------------------------------------------
(* The logical instructions, with a register and with a constant.          *)

LEMMA JoinedLast ==
  ASSUME NEW a, NEW b, NEW d, NEW e
  PROVE  <<a, b, d>> \o <<e>> = <<a, b, d, e>>
<1> DEFINE A == {a, b, d, e}
           z == <<a, b, d>> \o <<e>>
<1>1. <<a, b, d>> \in Seq(A) /\ <<e>> \in Seq(A) /\ Len(<<a, b, d>>) = 3 /\ Len(<<e>>) = 1
  OBVIOUS
<1>2. z \in Seq(A) /\ Len(z) = 4 /\ z[1] = a /\ z[2] = b /\ z[3] = d /\ z[4] = e
  BY <1>1
<1> HIDE DEF z
<1>3. z = <<a, b, d, e>>
  BY <1>2
<1> QED
  BY <1>3 DEF z

LEMMA LogicAgrees ==
  ASSUME ArithmeticAssumption, Ready, Both, job.op \in {"OR", "AND", "XOR", "ORI", "ANDI", "XORI"}
  PROVE  Agrees
<1> DEFINE long == job.op \in {"ORI", "ANDI", "XORI"}
           x == IF long THEN job.imm ELSE Entered.P[job.r1]
           p == IF long THEN job.r1 ELSE job.r2
           u == IF long THEN Mov32(1, x) ELSE LdrPreg(1, job.r1)
           name == CASE job.op \in {"OR", "ORI"} -> "ORR" [] job.op \in {"AND", "ANDI"} -> "AND" [] job.op \in {"XOR", "XORI"} -> "EOR"
           len == IF long THEN 4 ELSE 2
           y == Entered.P[p]
           v == ArmValue(name, y, x)
           emitted == IF long THEN <<LdrPreg(0, p), u>> \o <<DataS(name), StrPreg(0, job.r2)>>
                   ELSE <<LdrPreg(0, p), u, DataS(name), StrPreg(0, job.r2)>>
<1>0. /\ job.r1 \in Regs /\ job.r2 \in Regs /\ job.imm \in Int
      /\ Entered.P[job.r1] \in WordValues /\ Entered.P[job.r2] \in WordValues
  BY OperandsAre DEF Ready
<1>1. x \in WordValues /\ y \in WordValues /\ p \in Regs /\ name \in DataNames /\ len \in {2, 4}
  <2>1. long => job.imm \in WordValues
    <3>1. 0 .. Half - 1 \subseteq WordValues
      BY Widths, SMT DEF WordValues
    <3> QED
      BY <3>1 DEF Ready, Instructions, Longs
  <2> QED
    BY <1>0, <2>1 DEF DataNames
<1>2. Brings(u, x)
  <2>1. CASE ~long
    BY <1>0, <2>1, OperandsBrought
  <2>2. CASE long
    <3>1. u = Mov32(1, x)
      BY <2>2
    <3> HIDE DEF u, x
    <3> QED
      BY <1>1, <3>1, OperandsBrought
  <2> QED
    BY <2>1, <2>2
<1>3. Counted(name, x)
  BY DEF Counted, Shifts
<1>4. Plain.P = Entered.P
  BY PlainIs DEF Ready
<1>5. v = CASE job.op \in {"OR", "ORI"} -> Or(x, y) [] job.op \in {"AND", "ANDI"} -> And(x, y) [] job.op \in {"XOR", "XORI"} -> Xor(x, y)
  <2>1. x \in Int /\ y \in Int
    BY <1>1, Wraps
  <2>2. And(x, y) = And(y, x) /\ Or(x, y) = Or(y, x) /\ Xor(x, y) = Xor(y, x)
    <3> HIDE DEF x, y
    <3> QED
      BY <2>1, AndTurned
  <2>3. CASE job.op \in {"OR", "ORI"}
    <3>1. name = "ORR"
      BY <2>3
    <3>2. v = Or(y, x)
      <4> HIDE DEF name, x, y
      <4> QED
        BY <3>1 DEF ArmValue, Shifts
    <3> HIDE DEF v, x, y
    <3> QED
      BY <2>2, <2>3, <3>2
  <2>4. CASE job.op \in {"AND", "ANDI"}
    <3>1. name = "AND"
      BY <2>4
    <3>2. v = And(y, x)
      <4> HIDE DEF name, x, y
      <4> QED
        BY <3>1 DEF ArmValue, Shifts
    <3> HIDE DEF v, x, y
    <3> QED
      BY <2>2, <2>4, <3>2
  <2>5. CASE job.op \in {"XOR", "XORI"}
    <3>1. name = "EOR"
      BY <2>5
    <3>2. v = Xor(y, x)
      <4> HIDE DEF name, x, y
      <4> QED
        BY <3>1 DEF ArmValue, Shifts
    <3> HIDE DEF v, x, y
    <3> QED
      BY <2>2, <2>5, <3>2
  <2> QED
    BY <2>3, <2>4, <2>5
<1>6. v \in WordValues
  <2> HIDE DEF v, y, x, u, p, name
  <2>1. ArmValue(name, Entered.P[p], x) \in WordValues
    BY <1>0, <1>1, <1>2, <1>3, Operated
  <2> QED
    BY <2>1 DEF v, y
<1>7. c = SetPREG(Logical(Begun(len), v), job.r2, v)
  <2>1. CASE ~long
    <3>1. c = Logic(Plain, job)
      BY <2>1, Dispatched DEF Both, Logics
    <3>2. x = Plain.P[job.r1] /\ y = Plain.P[job.r2] /\ len = 2
      BY <1>4, <2>1
    <3> HIDE DEF x, y, v, len
    <3> QED
      BY <1>5, <2>1, <3>1, <3>2 DEF Logic, Begun
  <2>2. CASE long
    <3>1. c = Long(Plain, job)
      BY <2>2, Dispatched DEF Both, Longs
    <3>2. x = job.imm /\ y = Plain.P[job.r1] /\ len = 4
      BY <1>4, <2>2
    <3> HIDE DEF x, y, v, len
    <3> QED
      BY <1>5, <2>2, <3>1, <3>2 DEF Long, Begun
  <2> QED
    BY <2>1, <2>2
<1>8. Emitted(job, was.pc) = (emitted \o EmitPswFlags(FALSE, 3) \o Done) \o Exit(was.pc + len)
  <2>1. CASE ~long
    <3>1. Emitted(job, was.pc) = EmitLogic(job) \o Exit(was.pc + 2)
      BY <2>1, EmittedIs DEF Logics
    <3>2. name = CASE job.op = "OR" -> "ORR" [] job.op = "AND" -> "AND" [] job.op = "XOR" -> "EOR"
      BY <2>1
    <3>3. EmitLogic(job) = <<LdrPreg(0, p), u, DataS(name)>> \o <<StrPreg(0, job.r2)>> \o EmitPswFlags(FALSE, 3) \o Done
      <4>1. p = job.r2 /\ u = LdrPreg(1, job.r1)
        BY <2>1
      <4> HIDE DEF p, u, name
      <4> QED
        BY <2>1, <3>2, <4>1 DEF EmitLogic
    <3>4. emitted = <<LdrPreg(0, p), u, DataS(name)>> \o <<StrPreg(0, job.r2)>> /\ len = 2
      <4>1. emitted = <<LdrPreg(0, p), u, DataS(name), StrPreg(0, job.r2)>> /\ len = 2
        BY <2>1
      <4> HIDE DEF p, u, name, emitted
      <4> QED
        BY <4>1, JoinedLast, Zenon
    <3> HIDE DEF p, u, name, emitted, len
    <3> QED
      BY <3>1, <3>3, <3>4
  <2>2. CASE long
    <3>1. Emitted(job, was.pc) = EmitLong(job) \o Exit(was.pc + 4)
      BY <2>2, EmittedIs DEF Longs
    <3>2. EmitLong(job) = Operands(job, job.imm) \o <<DataS(name), StrPreg(0, job.r2)>> \o EmitPswFlags(FALSE, 3) \o Done
      BY <2>2 DEF EmitLong
    <3>3. emitted = Operands(job, job.imm) \o <<DataS(name), StrPreg(0, job.r2)>> /\ len = 4
      BY <2>2 DEF Operands
    <3> HIDE DEF p, u, name, emitted, len
    <3> QED
      BY <3>1, <3>2, <3>3
  <2> QED
    BY <2>1, <2>2
<1>9. emitted = <<LdrPreg(0, p), u, DataS(name), StrPreg(0, job.r2)>> \/ emitted = <<LdrPreg(0, p), u>> \o <<DataS(name), StrPreg(0, job.r2)>>
  OBVIOUS
<1>10. v = ArmValue(name, Entered.P[p], x)
  OBVIOUS
<1> HIDE DEF x, p, u, name, len, y, v, emitted, long
<1>11. Gives(job.r2, v, ZeroOf(v), SignOf(v), len)
  BY <1>0, <1>1, <1>6, <1>7, LogicalGives
<1>12. jit = Run(was, (emitted \o EmitPswFlags(FALSE, 3) \o Done) \o Exit(was.pc + len), job.junk)
  BY <1>8 DEF Both
<1>13. ForBoth(emitted, p, u, name, job.r2, v, len)
  BY <1>9, <1>11, Zenon DEF ForBoth
<1>14. 3 \in {3, 11, 15} /\ FALSE \in BOOLEAN
  OBVIOUS
<1> QED
  BY <1>0, <1>1, <1>2, <1>3, <1>10, <1>12, <1>13, <1>14, OperatedAgree, ZenonT(60)

\* NOT has one operand.
LEMMA NotAgrees ==
  ASSUME ArithmeticAssumption, Ready, Both, job.op = "NOT"
  PROVE  Agrees
<1> DEFINE x == Entered.P[job.r1]
           v == Not(x)
           f == [Scratch EXCEPT ![0] = x]
           r == [f EXCEPT ![0] = v]
           u == <<"MVN", TRUE, 0, 0, R(0)>>
           emitted == <<LdrPreg(0, job.r1), u>> \o <<StrPreg(0, job.r2)>>
<1>0. /\ job.r1 \in Regs /\ job.r2 \in Regs /\ x \in WordValues /\ Scratch \in Files /\ job.junk \in WordValues
  <2>1. job.r1 \in Regs /\ job.r2 \in Regs /\ Entered.P[job.r1] \in WordValues
    BY OperandsAre DEF Ready
  <2> QED
    BY <2>1, Started
<1>1. f \in Files /\ f[0] = x
  BY <1>0 DEF Files
<1>2. Leads(<<LdrPreg(0, job.r1)>>, job.junk, At(was, Scratch, job.junk), At(was, f, job.junk))
  <2>1. Held(was, job.r1) = x
    BY <1>0, HeldIs
  <2> QED
    BY <2>1, LeadsLdrPreg
<1> HIDE DEF f
<1>3. v \in WordValues /\ r \in Files /\ SetsFlags(u, job.junk, At(was, f, job.junk), was, r, v)
  <2>1. IsOperand(R(0), f, x) /\ 0 \in 0..3
    BY <1>1, OperandIs
  <2>2. Counted("MVN", x) /\ "MVN" \in DataNames
    BY DEF Counted, DataNames, Shifts
  <2>3. ArmValue("MVN", f[0], x) = v
    BY DEF ArmValue, Shifts
  <2> HIDE DEF v, x
  <2> QED
    BY <1>0, <1>1, <2>1, <2>2, <2>3, LeadsData
<1>4. PICK a \in WordValues : Leads(<<u>>, job.junk, At(was, f, job.junk), At(was, r, a)) /\ Shows(a, v)
  BY <1>3 DEF SetsFlags
<1>5. r[0] = v
  BY <1>1 DEF Files
<1>6. Emitted(job, was.pc) = (emitted \o EmitPswFlags(FALSE, 3) \o Done) \o Exit(was.pc + 2)
  <2>1. Emitted(job, was.pc) = EmitLogic(job) \o Exit(was.pc + 2)
    BY EmittedIs DEF Logics
  <2>2. EmitLogic(job) = emitted \o EmitPswFlags(FALSE, 3) \o Done
    BY DEF EmitLogic
  <2> QED
    BY <2>1, <2>2
<1>7. c = SetPREG(Logical(Begun(2), v), job.r2, v)
  <2>1. c = Logic(Plain, job)
    BY Dispatched DEF Both, Logics
  <2>2. Plain.P = Entered.P
    BY PlainIs DEF Ready
  <2> QED
    BY <2>1, <2>2 DEF Logic, Begun
<1> HIDE DEF r, v, x, u
<1>8. Leads(<<StrPreg(0, job.r2)>>, job.junk, At(was, r, a), At(Put(was, job.r2, v), r, a))
  BY <1>5, LeadsStrPreg
<1>9. Leads(<<LdrPreg(0, job.r1), u>>, job.junk, At(was, Scratch, job.junk), At(was, r, a))
  BY <1>2, <1>4, LeadsTwo
<1>10. Block(emitted, At(Put(was, job.r2, v), r, a))
  BY <1>8, <1>9, LeadsOn DEF Block
<1> HIDE DEF emitted
<1>11. Gives(job.r2, v, ZeroOf(v), SignOf(v), 2)
  BY <1>0, <1>3, <1>7, LogicalGives
<1>12. jit = Run(was, (emitted \o EmitPswFlags(FALSE, 3) \o Done) \o Exit(was.pc + 2), job.junk)
  BY <1>6 DEF Both
<1>13. 3 \in {3, 11, 15} /\ FALSE \in BOOLEAN
  OBVIOUS
<1> QED
  BY <1>0, <1>3, <1>4, <1>10, <1>11, <1>12, <1>13, FlaggedAgree

-----------------------------------------------------------------------------
(* MOVEA, MOVHI, NOP and the jumps.                                        *)

LEMMA PlainTime ==
  ASSUME ArithmeticAssumption, Ready
  PROVE  Plain.ts = was.ts /\ Entered.ts = was.ts
<1>0. was \in Machines
  BY DEF Ready
<1>1. Entered \in Machines
  BY <1>0, EnteredIs
<1>2. Entered.ts = was.ts
  BY <1>0 DEF Entered, Machines
<1> QED
  BY <1>1, <1>2 DEF Plain, After, Machines

\* MOVEA and MOVHI add without the flags.
LEMMA AddressesAgree ==
  ASSUME ArithmeticAssumption, Ready, Both, job.op \in {"MOVEA", "MOVHI"}
  PROVE  Agrees
<1> DEFINE x == IF job.op = "MOVEA" THEN Extend(job.imm, W \div 2) ELSE job.imm * Half
           y == Entered.P[job.r1]
           v == (y + x) % Base
           u == Mov32(1, x)
           w == <<"ADD", FALSE, 0, 0, R(1)>>
           emitted == <<LdrPreg(0, job.r1), u>> \o <<w, StrPreg(0, job.r2)>>
<1>0. /\ job.r1 \in Regs /\ job.r2 \in Regs /\ job.imm \in Int /\ y \in WordValues /\ job.junk \in WordValues
      /\ Extend(job.imm, W \div 2) \in WordValues
  <2>1. job.r1 \in Regs /\ job.r2 \in Regs /\ job.imm \in Int /\ Entered.P[job.r1] \in WordValues
    BY OperandsAre DEF Ready
  <2> QED
    BY <2>1, ExtendIs, Started
<1>1. x \in WordValues
  <2>1. job.imm \in 0 .. Half - 1
    BY DEF Ready, Instructions, Longs
  <2>2. job.imm * Half \in WordValues
    <3>1. 0 \in 0 .. Half - 1
      BY WordFacts, SMT
    <3> QED
      BY <2>1, <3>1, HalvesJoin
  <2> QED
    BY <1>0, <2>2
<1>2. Plain.P = Entered.P
  BY PlainIs DEF Ready
<1>3. c = SetPREG(Begun(4), job.r2, v)
  <2>1. c = Long(Plain, job)
    BY Dispatched DEF Both, Longs
  <2>2. CASE job.op = "MOVEA"
    BY <1>2, <2>1, <2>2 DEF Long, Begun
  <2>3. CASE job.op = "MOVHI"
    <3>1. c = SetPREG(Begun(4), job.r2, (x + y) % Base)
      BY <1>2, <2>1, <2>3 DEF Long, Begun
    <3>2. x + y = y + x
      BY <1>0, <1>1, Wraps
    <3> QED
      BY <3>1, <3>2
  <2> QED
    BY <2>2, <2>3
<1>4. Emitted(job, was.pc) = (emitted \o Done) \o Exit(was.pc + 4)
  <2>1. Emitted(job, was.pc) = EmitLong(job) \o Exit(was.pc + 4)
    BY EmittedIs DEF Longs
  <2>2. EmitLong(job) = emitted \o Done
    BY DEF EmitLong, EmitAddImmediate, PlainAdd, Operands
  <2> QED
    BY <2>1, <2>2
<1>a. y = Entered.P[job.r1] /\ v = (y + x) % Base
  OBVIOUS
<1> HIDE DEF x, y, v
<1>5. Brings(u, x)
  BY <1>1, OperandsBrought
<1> HIDE DEF u
<1>b. Brought(job.r1, u, x)
  BY <1>0, <1>1, <1>5, Loaded
<1>6. PICK r \in Files : /\ Block(<<LdrPreg(0, job.r1), u>>, At(was, r, job.junk)) /\ r[0] = y /\ r[1] = x
  BY <1>a, <1>b DEF Brought
<1> DEFINE g == [r EXCEPT ![0] = v]
<1>7. v \in WordValues /\ g \in Files /\ Leads(<<w>>, job.junk, At(was, r, job.junk), At(was, g, job.junk))
  <2>1. IsOperand(R(1), r, x) /\ 0 \in 0..3 /\ 1 \in 0..3
    BY <1>6, OperandIs
  <2>2. Counted("ADD", x) /\ "ADD" \in DataNames
    BY DEF Counted, DataNames, Shifts
  <2>3. ArmValue("ADD", r[0], x) = v
    BY <1>6, <1>a DEF ArmValue, Shifts
  <2> QED
    BY <1>0, <2>1, <2>2, <2>3, LeadsData
<1>8. g[0] = v
  BY DEF Files
<1> HIDE DEF w, g
<1>9. Leads(<<StrPreg(0, job.r2)>>, job.junk, At(was, g, job.junk), At(Put(was, job.r2, v), g, job.junk))
  BY <1>8, LeadsStrPreg
<1>10. Leads(<<w, StrPreg(0, job.r2)>>, job.junk, At(was, r, job.junk), At(Put(was, job.r2, v), g, job.junk))
  BY <1>7, <1>9, LeadsTwo
<1>11. Block(emitted, At(Put(was, job.r2, v), g, job.junk))
  BY <1>6, <1>10, LeadsOn DEF Block
<1> HIDE DEF emitted
<1> DEFINE d == Put(was, job.r2, v)
<1>12. d \in Machines /\ d.psw = was.psw /\ d.mem = was.mem /\ d.ts = was.ts /\ d.P = Put(was, job.r2, v).P
  BY <1>0, <1>7, PutIs, Started
<1> HIDE DEF d
<1>13. Computes(emitted \o Done, job.r2, v, Bit(d.psw, Z), Bit(d.psw, S))
  <2>1. Block(emitted, At(d, g, job.junk))
    BY <1>11 DEF d
  <2> QED
    BY <1>7, <1>12, <2>1, DoneComputes
<1>14. Gives(job.r2, v, Bit(was.psw, Z), Bit(was.psw, S), 4)
  BY <1>0, <1>3, <1>7, MovedGives
<1>15. jit = Run(was, (emitted \o Done) \o Exit(was.pc + 4), job.junk)
  BY <1>4 DEF Both
<1>16. Computes(emitted \o Done, job.r2, v, Bit(was.psw, Z), Bit(was.psw, S))
  BY <1>12, <1>13
<1> QED
  BY <1>14, <1>15, <1>16, BothAgree

LEMMA NopAgrees ==
  ASSUME ArithmeticAssumption, Ready, Both, job.op = "NOP"
  PROVE  Agrees
<1> DEFINE d == Tick(was, 1)
           e == Tick(Plain, 1)
<1>0. was \in Machines /\ was.pc \in Int /\ Plain \in Machines /\ Scratch \in Files
  BY PlainIs, Started DEF Ready, Machines
<1>1. Leads(<<AddClock(1)>>, job.junk, At(was, Scratch, job.junk), At(d, Scratch, job.junk))
  BY LeadsClock
<1>2. Block(Done, At(d, Scratch, job.junk))
  BY <1>1 DEF Block, Done
<1>3. d \in Machines /\ d.P = was.P /\ d.psw = was.psw /\ d.mem = was.mem
  BY <1>0, TickIs
<1>4. d.ts = was.ts + 1
  BY <1>0 DEF Tick, Machines
<1>5. c = Next2(e)
  <2>1. c = NOP(Plain, job)
    BY DispatchedToo DEF Both
  <2> QED
    BY <2>1 DEF NOP
<1>6. e \in Machines /\ e.P = Entered.P /\ e.psw = was.psw /\ e.mem = was.mem /\ e.pc = was.pc
  BY <1>0, PlainIs, TickIs
<1>7. e.ts = was.ts + 1
  BY <1>0, PlainTime DEF Tick, Machines
<1> HIDE DEF d, e
<1>8. c.P = Entered.P /\ c.psw = was.psw /\ c.mem = was.mem
  BY <1>5, <1>6, Next2Is
<1>9. c.pc = was.pc + 2 /\ c.ts = was.ts + 1
  BY <1>5, <1>6, <1>7 DEF Next2, Machines
<1>10. Gives(0, 0, Bit(was.psw, Z), Bit(was.psw, S), 2)
  BY <1>8, <1>9, KeptSame DEF Gives
<1>11. Computes(Done, 0, 0, Bit(was.psw, Z), Bit(was.psw, S))
  BY <1>0, <1>2, <1>3, <1>4, KeptSame DEF Computes, Leaves
<1>12. jit = Run(was, Done \o Exit(was.pc + 2), job.junk)
  BY EmittedIs DEF Both
<1> QED
  BY <1>10, <1>11, <1>12, BothAgree

-----------------------------------------------------------------------------
(* The jumps. *)
LEMMA JumpsFrom ==
  ASSUME ArithmeticAssumption, Ready, NEW x \in Int, NEW j \in Int
  PROVE  LET e == [Tick(Plain, j) EXCEPT !.pc = x]
         IN /\ e \in Machines /\ e.P = Entered.P /\ e.psw = was.psw /\ e.mem = was.mem
            /\ e.pc = x /\ e.ts = was.ts + j
<1> DEFINE d == Tick(Plain, j)
<1>1. Plain \in Machines /\ Plain.P = Entered.P /\ Plain.psw = was.psw /\ Plain.mem = was.mem
  BY PlainIs DEF Ready
<1>2. d \in Machines /\ d.P = Entered.P /\ d.psw = was.psw /\ d.mem = was.mem
  BY <1>1, TickIs
<1>3. d.ts = was.ts + j
  BY <1>1, PlainTime DEF Tick, Machines
<1> HIDE DEF d
<1>4. LET e == [d EXCEPT !.pc = x]
      IN e \in Machines /\ e.P = d.P /\ e.psw = d.psw /\ e.mem = d.mem /\ e.pc = x /\ e.ts = d.ts
  BY <1>2 DEF Machines
<1> QED
  BY <1>2, <1>3, <1>4 DEF d

\* A block that ends at x after j more clocks, without the registers or with one.
LEMMA JumpsAgree ==
  ASSUME ArithmeticAssumption, Ready, NEW k \in Regs, NEW v \in WordValues, NEW j \in Int, NEW x \in Int, NEW emitted, NEW t,
         Block(emitted, t), t.c = [Tick(Put(was, k, v), j) EXCEPT !.pc = x], jit = Run(was, emitted, job.junk),
         \/ c = SetPREG([Tick(Plain, j) EXCEPT !.pc = x], k, v)
         \/ k = 0 /\ c = [Tick(Plain, j) EXCEPT !.pc = x]
  PROVE  Agrees
<1> DEFINE d == Put(was, k, v)
           e == [Tick(Plain, j) EXCEPT !.pc = x]
<1>1. d \in Machines /\ d.psw = was.psw /\ d.mem = was.mem /\ d.ts = was.ts
  BY PutIs, Started
<1>2. jit = [Tick(d, j) EXCEPT !.pc = x]
  BY RunIs
<1>3. Put(was, k, v).P = d.P /\ (k = 0 => d = was)
  BY DEF Put
<1> HIDE DEF d
<1>4. Tick(d, j) \in Machines /\ Tick(d, j).P = d.P /\ Tick(d, j).psw = d.psw /\ Tick(d, j).mem = d.mem
  BY <1>1, TickIs
<1>5. Tick(d, j).ts = d.ts + j
  BY <1>1 DEF Tick, Machines
<1>6. jit.P = d.P /\ jit.psw = was.psw /\ jit.mem = was.mem /\ jit.ts = was.ts + j /\ jit.pc = x
  <2> DEFINE g == Tick(d, j)
  <2>1. g \in Machines /\ g.P = d.P /\ g.psw = d.psw /\ g.mem = d.mem /\ g.ts = d.ts + j /\ jit = [g EXCEPT !.pc = x]
    BY <1>2, <1>4, <1>5
  <2> HIDE DEF g
  <2>2. jit.P = g.P /\ jit.psw = g.psw /\ jit.mem = g.mem /\ jit.ts = g.ts /\ jit.pc = x
    BY <2>1 DEF Machines
  <2> QED
    BY <1>1, <2>1, <2>2
<1>7. /\ e \in Machines /\ e.P = Entered.P /\ e.psw = was.psw /\ e.mem = was.mem
      /\ e.pc = x /\ e.ts = was.ts + j
  BY JumpsFrom
<1>8. \/ c = SetPREG(e, k, v)
      \/ k = 0 /\ c = e
  OBVIOUS
<1> HIDE DEF e
<1>9. CASE c = SetPREG(e, k, v)
  <2>1. Kept(c.P) = Kept(d.P) /\ c.mem = e.mem /\ c.ts = e.ts /\ c.pc = e.pc /\ c.psw = e.psw
    BY <1>3, <1>7, <1>9, KeptPut
  <2> QED
    BY <1>6, <1>7, <2>1 DEF Agrees
<1>10. CASE k = 0 /\ c = e
  <2>1. d = was /\ Kept(Entered.P) = Kept(was.P)
    BY <1>3, <1>10, KeptSame
  <2> QED
    BY <1>6, <1>7, <1>10, <2>1 DEF Agrees
<1> QED
  BY <1>8, <1>9, <1>10

LEMMA JumpRegisterAgrees ==
  ASSUME ArithmeticAssumption, Ready, Both, job.op = "JMP"
  PROVE  Agrees
<1> DEFINE y == Entered.P[job.r1]
           x == Even(y)
           f == [Scratch EXCEPT ![0] = y]
           g == [f EXCEPT ![0] = x]
           u == <<"BIC", FALSE, 0, 0, I(1)>>
<1>0. job.r1 \in Regs /\ y \in WordValues /\ job.junk \in WordValues /\ Scratch \in Files /\ 1 \in WordValues
  <2>1. job.r1 \in Regs /\ Entered.P[job.r1] \in WordValues
    BY OperandsAre DEF Ready
  <2>2. 1 \in WordValues
    BY NibblePlaces, SMT
  <2> QED
    BY <2>1, <2>2, Started
<1>1. Leads(<<LdrPreg(0, job.r1)>>, job.junk, At(was, Scratch, job.junk), At(was, f, job.junk))
  <2>1. Held(was, job.r1) = y
    BY <1>0, HeldIs
  <2> QED
    BY <2>1, LeadsLdrPreg
<1>2. f \in Files /\ f[0] = y
  BY <1>0 DEF Files
<1>3. And(y, Not(1)) = x
  BY <1>0, AlignedIs DEF Even
<1> HIDE DEF f, x
<1>4. x \in WordValues /\ g \in Files /\ Leads(<<u>>, job.junk, At(was, f, job.junk), At(was, g, job.junk))
  <2>1. IsOperand(I(1), f, 1) /\ 0 \in 0..3
    BY <1>0, <1>2, OperandIs
  <2>2. Counted("BIC", 1) /\ "BIC" \in DataNames
    BY DEF Counted, DataNames, Shifts
  <2>3. ArmValue("BIC", f[0], 1) = x
    BY <1>2, <1>3 DEF ArmValue, Shifts
  <2> QED
    BY <1>0, <1>2, <2>1, <2>2, <2>3, LeadsData
<1>5. g[0] = x
  BY <1>2 DEF Files
<1> HIDE DEF g, u
<1>6. Leads(<<AddClock(3)>>, job.junk, At(was, g, job.junk), At(Tick(was, 3), g, job.junk))
  BY LeadsClock
<1>7. Leads(<<<<"EXIT">>>>, job.junk, At(Tick(was, 3), g, job.junk), Ended(Tick(was, 3), g, job.junk))
  BY LeadsEnd
<1> DEFINE q == <<"EXIT">>
           t == Ended(Tick(was, 3), g, job.junk)
<1>8. Leads(<<q>>, job.junk, At(Tick(was, 3), g, job.junk), t)
  BY <1>7
<1>9. t.c = [Tick(was, 3) EXCEPT !.pc = x]
  BY <1>5 DEF Ended, Skipping, At
<1>10. EmitJmp(job) = <<LdrPreg(0, job.r1), u, AddClock(3), q>>
  BY DEF EmitJmp, u
<1> HIDE DEF q, t
<1>11. Leads(<<LdrPreg(0, job.r1), u, AddClock(3), q>>, job.junk, At(was, Scratch, job.junk), t)
  BY <1>1, <1>4, <1>6, <1>8, LeadsFour
<1>12. Block(EmitJmp(job) \o <<>>, t)
  <2>1. Leads(<<>>, job.junk, t, t)
    BY LeadsNone
  <2> QED
    BY <1>10, <1>11, <2>1, LeadsOn DEF Block
<1>13. c = [Tick(Plain, 3) EXCEPT !.pc = x]
  <2>1. c = JMP(Plain, job)
    BY DispatchedToo DEF Both
  <2>2. Plain.P = Entered.P
    BY PlainIs DEF Ready
  <2> QED
    BY <2>1, <2>2 DEF JMP, x
<1>14. jit = Run(was, EmitJmp(job) \o <<>>, job.junk)
  BY EmittedIs DEF Both
<1>15. Put(was, 0, 0) = was /\ 0 \in Regs /\ 0 \in WordValues /\ x \in Int
  BY <1>4, KeptSame, ZeroBits, Wraps DEF ArithmeticAssumption
<1>16. t.c = [Tick(Put(was, 0, 0), 3) EXCEPT !.pc = x]
  BY <1>9, <1>15
<1> HIDE DEF y
<1> QED
  BY <1>12, <1>13, <1>14, <1>15, <1>16, JumpsAgree

LEMMA JumpTargetAgrees ==
  ASSUME ArithmeticAssumption, Ready, Both, job.op \in {"JR", "JAL"}
  PROVE  Agrees
<1> DEFINE p == was.pc + Even(job.imm)
           x == p % Base
           v == IF job.op = "JAL" THEN was.pc + 4 ELSE 0
           k == IF job.op = "JAL" THEN 31 ELSE 0
           link == IF job.op = "JAL" THEN <<Mov32(0, was.pc + 4), StrPreg(0, 31)>> ELSE <<>>
           f == IF job.op = "JAL" THEN [Scratch EXCEPT ![0] = v] ELSE Scratch
           d == Put(was, k, v)
<1>0. was.pc \in Int /\ job.imm \in Int /\ Scratch \in Files /\ job.junk \in WordValues /\ was.pc + 4 \in WordValues /\ 0 \in WordValues
      /\ 31 \in Regs /\ 0 \in Regs
  <2>1. was.pc + 4 \in WordValues /\ was.pc \in Int /\ 0 \in WordValues
    BY WordFacts, SMT DEF Ready, WordValues
  <2> QED
    BY <2>1, Started DEF ArithmeticAssumption
<1>1. x \in WordValues /\ x \in Int
  <2>1. Even(job.imm) \in Int
    BY <1>0, SMT DEF Even
  <2>2. p \in Int
    BY <1>0, <2>1
  <2> HIDE DEF p
  <2> QED
    BY <2>2, Unwraps, Wraps
<1>2. v \in WordValues /\ k \in Regs /\ f \in Files
  BY <1>0 DEF Files
<1>3. Leads(link, job.junk, At(was, Scratch, job.junk), At(d, f, job.junk))
  <2>1. CASE job.op = "JAL"
    <3>1. v % Base = v /\ f = [Scratch EXCEPT ![0] = v] /\ f[0] = v /\ k = 31 /\ v = was.pc + 4
      BY <1>0, <1>2, <2>1, Wraps DEF Files
    <3> HIDE DEF v, f, k
    <3>2. Leads(<<Mov32(0, was.pc + 4)>>, job.junk, At(was, Scratch, job.junk), At(was, f, job.junk))
      <4>1. Leads(<<Mov32(0, v)>>, job.junk, At(was, Scratch, job.junk), At(was, [Scratch EXCEPT ![0] = v % Base], job.junk))
        BY LeadsMov32
      <4> QED
        BY <3>1, <4>1
    <3>3. Leads(<<StrPreg(0, 31)>>, job.junk, At(was, f, job.junk), At(Put(was, 31, f[0]), f, job.junk))
      BY LeadsStrPreg
    <3>4. Leads(<<Mov32(0, was.pc + 4), StrPreg(0, 31)>>, job.junk, At(was, Scratch, job.junk), At(Put(was, 31, f[0]), f, job.junk))
      BY <3>2, <3>3, LeadsTwo
    <3> QED
      BY <2>1, <3>1, <3>4
  <2>2. CASE job.op # "JAL"
    <3>1. d = was /\ f = Scratch /\ link = <<>>
      BY <2>2 DEF Put
    <3> QED
      BY <3>1, LeadsNone
  <2> QED
    BY <2>1, <2>2
<1>4. Emitted(job, was.pc) = (link \o <<AddClock(3)>> \o Exit(p)) \o <<>>
  BY EmittedIs DEF EmitJump
<1>5. IF job.op = "JAL" THEN c = SetPREG([Tick(Plain, 3) EXCEPT !.pc = x], k, v) ELSE c = [Tick(Plain, 3) EXCEPT !.pc = x]
  <2>1. c = Jump(Plain, job)
    BY DispatchedToo DEF Both
  <2>2. Plain.pc = was.pc /\ Plain \in Machines
    BY PlainIs DEF Ready
  <2>3. Tick(Plain, 3).pc = was.pc
    BY <2>2, TickIs
  <2>4. [Tick(Plain, 3) EXCEPT !.pc = (@ + Even(job.imm)) % Base] = [Tick(Plain, 3) EXCEPT !.pc = x]
    BY <2>3
  <2> QED
    BY <2>1, <2>2, <2>4 DEF Jump
<1>6. job.op = "JAL" \/ k = 0
  OBVIOUS
<1>a. d = Put(was, k, v) /\ x = p % Base
  OBVIOUS
<1> HIDE DEF p, x, v, k, link, f, d
<1> DEFINE e == Tick(d, 3)
           t == Left(e, f, job.junk, p)
<1>7. Leads(<<AddClock(3)>>, job.junk, At(d, f, job.junk), At(e, f, job.junk))
  BY LeadsClock
<1>8. Leads(Exit(p), job.junk, At(e, f, job.junk), t)
  BY <1>2, LeadsExit
<1>9. t.c = [Tick(Put(was, k, v), 3) EXCEPT !.pc = x]
  BY <1>a DEF Left, Skipping, At
<1> HIDE DEF t, e
<1>10. Leads(link \o <<AddClock(3)>>, job.junk, At(was, Scratch, job.junk), At(e, f, job.junk))
  BY <1>3, <1>7, LeadsOn
<1>11. Leads(link \o <<AddClock(3)>> \o Exit(p), job.junk, At(was, Scratch, job.junk), t)
  BY <1>8, <1>10, LeadsOn
<1>12. Block((link \o <<AddClock(3)>> \o Exit(p)) \o <<>>, t)
  <2>1. Leads(<<>>, job.junk, t, t)
    BY LeadsNone
  <2> QED
    BY <1>11, <2>1, LeadsOn DEF Block
<1>13. jit = Run(was, (link \o <<AddClock(3)>> \o Exit(p)) \o <<>>, job.junk)
  BY <1>4 DEF Both
<1>14. \/ c = SetPREG([Tick(Plain, 3) EXCEPT !.pc = x], k, v)
       \/ k = 0 /\ c = [Tick(Plain, 3) EXCEPT !.pc = x]
  BY <1>5, <1>6
<1> QED
  BY <1>1, <1>2, <1>9, <1>12, <1>13, <1>14, JumpsAgree

-----------------------------------------------------------------------------
(* The conditions of SETF and BCOND, as numbers.                           *)

\* The eight conditions of TestCond without the negation.
Holds(psw, k) ==
  LET z == Bit(psw, 0)  s == Bit(psw, 1)  ov == Bit(psw, 2)  cy == Bit(psw, 3)
      lt == (s + ov) - (2 * (s * ov))
  IN CASE k = 0 -> ov [] k = 1 -> cy [] k = 2 -> z [] k = 3 -> (cy + z) - (cy * z)
       [] k = 4 -> s [] k = 5 -> 1 [] k = 6 -> lt [] k = 7 -> (lt + z) - (lt * z)

LEMMA HoldsIs ==
  ASSUME ArithmeticAssumption, NEW psw \in WordValues, NEW k \in 0..7
  PROVE  /\ Holds(psw, k) \in {0, 1}
         /\ TestCond(psw, k) = (Holds(psw, k) = 1) /\ TestCond(psw, k + 8) = (Holds(psw, k) = 0)
<1> DEFINE z == Bit(psw, 0)
           s == Bit(psw, 1)
           ov == Bit(psw, 2)
           cy == Bit(psw, 3)
           lt == (s + ov) - (2 * (s * ov))
<1>1. z \in {0, 1} /\ s \in {0, 1} /\ ov \in {0, 1} /\ cy \in {0, 1}
  <2>1. psw \in Nat
    BY WordFacts, SMT DEF WordValues
  <2> QED
    BY <2>1, BitIs
<1>2. /\ k % 8 = k /\ (k + 8) % 8 = k /\ k < 8 /\ ~(k + 8 < 8)
  BY SMT
<1>3. TestCond(psw, k) = CASE k = 0 -> ov = 1 [] k = 1 -> cy = 1 [] k = 2 -> z = 1 [] k = 3 -> z = 1 \/ cy = 1
                            [] k = 4 -> s = 1 [] k = 5 -> TRUE [] k = 6 -> s # ov [] k = 7 -> s # ov \/ z = 1
  <2> HIDE DEF z, s, ov, cy
  <2> QED
    BY <1>2 DEF TestCond, Z, S, OV, CY, z, s, ov, cy
<1>4. TestCond(psw, k + 8) = ~(CASE k = 0 -> ov = 1 [] k = 1 -> cy = 1 [] k = 2 -> z = 1 [] k = 3 -> z = 1 \/ cy = 1
                            [] k = 4 -> s = 1 [] k = 5 -> TRUE [] k = 6 -> s # ov [] k = 7 -> s # ov \/ z = 1)
  <2> HIDE DEF z, s, ov, cy
  <2> QED
    BY <1>2 DEF TestCond, Z, S, OV, CY, z, s, ov, cy
<1>5. Holds(psw, k) = CASE k = 0 -> ov [] k = 1 -> cy [] k = 2 -> z [] k = 3 -> (cy + z) - (cy * z)
       [] k = 4 -> s [] k = 5 -> 1 [] k = 6 -> lt [] k = 7 -> (lt + z) - (lt * z)
  BY DEF Holds
<1>6. k = 0 \/ k = 1 \/ k = 2 \/ k = 3 \/ k = 4 \/ k = 5 \/ k = 6 \/ k = 7
  BY SMT
<1>7. lt \in {0, 1} /\ (lt = 1 <=> s # ov) /\ (lt = 0 <=> ~(s # ov))
  <2> HIDE DEF s, ov
  <2> QED
    BY <1>1
<1> HIDE DEF z, s, ov, cy, lt
<1>8. /\ (cy + z) - (cy * z) \in {0, 1} /\ ((cy + z) - (cy * z) = 1 <=> (z = 1 \/ cy = 1)) /\ ((cy + z) - (cy * z) = 0 <=> ~(z = 1 \/ cy = 1))
      /\ (lt + z) - (lt * z) \in {0, 1} /\ ((lt + z) - (lt * z) = 1 <=> (s # ov \/ z = 1)) /\ ((lt + z) - (lt * z) = 0 <=> ~(s # ov \/ z = 1))
  BY <1>1, <1>7
<1> DEFINE or == (cy + z) - (cy * z)
           le == (lt + z) - (lt * z)
           h == Holds(psw, k)
           yes == TestCond(psw, k)
           no == TestCond(psw, k + 8)
<1>9. /\ or \in {0, 1} /\ (or = 1 <=> (z = 1 \/ cy = 1)) /\ (or = 0 <=> ~(z = 1 \/ cy = 1))
      /\ le \in {0, 1} /\ (le = 1 <=> (s # ov \/ z = 1)) /\ (le = 0 <=> ~(s # ov \/ z = 1))
  BY <1>8
<1>10. h = CASE k = 0 -> ov [] k = 1 -> cy [] k = 2 -> z [] k = 3 -> or [] k = 4 -> s [] k = 5 -> 1 [] k = 6 -> lt [] k = 7 -> le
  BY <1>5
<1>11. /\ yes = CASE k = 0 -> ov = 1 [] k = 1 -> cy = 1 [] k = 2 -> z = 1 [] k = 3 -> z = 1 \/ cy = 1
                            [] k = 4 -> s = 1 [] k = 5 -> TRUE [] k = 6 -> s # ov [] k = 7 -> s # ov \/ z = 1
       /\ no = ~(CASE k = 0 -> ov = 1 [] k = 1 -> cy = 1 [] k = 2 -> z = 1 [] k = 3 -> z = 1 \/ cy = 1
                            [] k = 4 -> s = 1 [] k = 5 -> TRUE [] k = 6 -> s # ov [] k = 7 -> s # ov \/ z = 1)
  BY <1>3, <1>4
<1>13. no = ~yes
  BY <1>3, <1>4, Zenon DEF yes, no
<1> HIDE DEF or, le, h, yes, no
<1>12. h \in {0, 1} /\ yes = (h = 1) /\ no = (h = 0)
  <2>1. CASE k = 0
    BY <1>1, <1>10, <1>11, <2>1
  <2>2. CASE k = 1
    BY <1>1, <1>10, <1>11, <2>2
  <2>3. CASE k = 2
    BY <1>1, <1>10, <1>11, <2>3
  <2>4. CASE k = 3
    BY <1>9, <1>10, <1>11, <2>4
  <2>5. CASE k = 4
    BY <1>1, <1>10, <1>11, <2>5
  <2>6. CASE k = 5
    <3>1. h = 1
      BY <1>10, <2>6
    <3>2. yes
      BY <1>11, <2>6
    <3>3. ~no
      BY <1>13, <3>2
    <3>4. yes = TRUE /\ no = FALSE
      <4>1. yes \in BOOLEAN /\ no \in BOOLEAN
        BY <1>11, <1>13, <2>6
      <4> QED
        BY <3>2, <3>3, <4>1
    <3>5. (h = 1) = TRUE /\ (h = 0) = FALSE
      BY <3>1
    <3> QED
      BY <3>1, <3>4, <3>5
  <2>7. CASE k = 6
    BY <1>7, <1>10, <1>11, <2>7
  <2>8. CASE k = 7
    BY <1>9, <1>10, <1>11, <2>8
  <2> QED
    BY <1>6, <2>1, <2>2, <2>3, <2>4, <2>5, <2>6, <2>7, <2>8
<1> QED
  BY <1>12 DEF h, yes, no

\* Code that finds out whether a condition holds, from PSW in r0.
Found(emitted, g, a, h) == \E r \in Files : /\ Leads(emitted, job.junk, At(was, g, a), At(was, r, a))
                                         /\ r[0] = was.psw /\ Bit(r[1], 0) = h
Finds(emitted, h) == \A g \in Files, a \in WordValues : g[0] = was.psw => Found(emitted, g, a, h)

\* A data instruction on r1 or r2 while r0 holds PSW.
Sends(u, g, a, rd, v) ==
  LET r == [g EXCEPT ![rd] = v]
  IN /\ v \in WordValues /\ r \in Files /\ r[0] = g[0] /\ r[rd] = v /\ \A k \in 0..3 : k # rd => r[k] = g[k]
     /\ Leads(<<u>>, job.junk, At(was, g, a), At(was, r, a))
LEMMA LeadsFrom ==
  ASSUME ArithmeticAssumption, Ready, NEW g \in Files, NEW a \in WordValues, NEW rd \in {1, 2}, NEW rn \in {0, 1},
         NEW name \in DataNames, NEW o, NEW x, IsOperand(o, g, x), Counted(name, x)
  PROVE  Sends(<<name, FALSE, rd, rn, o>>, g, a, rd, ArmValue(name, g[rn], x))
<1> DEFINE v == ArmValue(name, g[rn], x)
           r == [g EXCEPT ![rd] = v]
<1>1. v \in WordValues /\ r \in Files /\ Leads(<<<<name, FALSE, rd, rn, o>>>>, job.junk, At(was, g, a), At(was, r, a))
  <2>1. rd \in 0..3 /\ rn \in 0..3
    OBVIOUS
  <2> QED
    BY <2>1, LeadsData
<1> HIDE DEF v
<1>2. r[0] = g[0] /\ r[rd] = v /\ \A k \in 0..3 : k # rd => r[k] = g[k]
  BY DEF Files
<1> QED
  BY <1>1, <1>2 DEF v, Sends

\* LSR of PSW.
LEMMA ShiftFinds ==
  ASSUME ArithmeticAssumption, Ready, NEW g \in Files, NEW a \in WordValues, g[0] = was.psw, NEW k \in {1, 2, 3}, NEW rd \in {1, 2}
  PROVE  LET v == was.psw \div 2^k
             r == [g EXCEPT ![rd] = v]
         IN /\ v \in WordValues /\ Bit(v, 0) = Bit(was.psw, k) /\ r \in Files /\ r[0] = was.psw /\ r[rd] = v
            /\ \A q \in 0..3 : q # rd => r[q] = g[q]
            /\ Leads(<<<<"SHR", FALSE, rd, 0, I(k)>>>>, job.junk, At(was, g, a), At(was, r, a))
<1> DEFINE v == was.psw \div 2^k
<1>0. k \in WordValues /\ k \in 0..31 /\ 0 \in 0..31 /\ k + 0 <= 31 /\ k + 0 = k /\ k < W /\ was.psw \in Nat /\ k \in Int
  <2>1. k \in 0..15
    BY SMT
  <2>2. k \in WordValues
    BY <2>1, NibblePlaces
  <2> QED
    BY <2>1, <2>2, WordFacts, SMT DEF Ready, WordValues
<1>1. IsOperand(I(k), g, k) /\ Counted("SHR", k) /\ "SHR" \in DataNames
  <2>1. 0 \in 0..3
    OBVIOUS
  <2> QED
    BY <1>0, <2>1, OperandIs DEF Counted, DataNames
<1>2. ArmValue("SHR", g[0], k) = v
  BY DEF ArmValue, Shifted, Shifts
<1>3. Bit(v, 0) = Bit(was.psw, k)
  <2>1. Bit(v, 0) = Bit(was.psw, k + 0)
    BY <1>0, ShiftedPlace
  <2> QED
    BY <1>0, <2>1
<1> HIDE DEF v
<1>4. Sends(<<"SHR", FALSE, rd, 0, I(k)>>, g, a, rd, ArmValue("SHR", g[0], k))
  <2>1. 0 \in {0, 1}
    OBVIOUS
  <2> QED
    BY <1>1, <2>1, LeadsFrom
<1> QED
  BY <1>2, <1>3, <1>4 DEF v, Sends

LEMMA XorFinds ==
  ASSUME ArithmeticAssumption, Ready
  PROVE  Finds(SignXorOverflow, Holds(was.psw, 6))
<1> SUFFICES ASSUME NEW g \in Files, NEW a \in WordValues, g[0] = was.psw
             PROVE  Found(SignXorOverflow, g, a, Holds(was.psw, 6))
  BY DEF Finds
<1> DEFINE v1 == was.psw \div 2^1
           v2 == was.psw \div 2^2
           r1 == [g EXCEPT ![1] = v1]
           r2 == [r1 EXCEPT ![2] = v2]
           v3 == Xor(v1, v2)
           r3 == [r2 EXCEPT ![1] = v3]
<1>1. /\ v1 \in WordValues /\ Bit(v1, 0) = Bit(was.psw, 1) /\ r1 \in Files /\ r1[0] = was.psw /\ r1[1] = v1
      /\ Leads(<<<<"SHR", FALSE, 1, 0, I(1)>>>>, job.junk, At(was, g, a), At(was, r1, a))
  BY ShiftFinds
<1> HIDE DEF v1, r1
<1>2. /\ v2 \in WordValues /\ Bit(v2, 0) = Bit(was.psw, 2) /\ r2 \in Files /\ r2[0] = was.psw /\ r2[2] = v2 /\ r2[1] = r1[1]
      /\ Leads(<<<<"SHR", FALSE, 2, 0, I(2)>>>>, job.junk, At(was, r1, a), At(was, r2, a))
  <2>1. 2 \in {1, 2, 3} /\ 2 \in {1, 2} /\ 1 \in 0..3 /\ 1 # 2
    OBVIOUS
  <2> QED
    BY <1>1, <2>1, ShiftFinds
<1> HIDE DEF v2, r2
<1>3. /\ v3 \in WordValues /\ r3 \in Files /\ r3[0] = was.psw /\ r3[1] = v3
      /\ Leads(<<<<"EOR", FALSE, 1, 1, R(2)>>>>, job.junk, At(was, r2, a), At(was, r3, a))
  <2>1. IsOperand(R(2), r2, v2)
    BY <1>2, OperandIs
  <2>2. Counted("EOR", v2) /\ "EOR" \in DataNames
    BY DEF Counted, DataNames, Shifts
  <2>3. ArmValue("EOR", r2[1], v2) = v3
    BY <1>1, <1>2 DEF ArmValue, Shifts
  <2>4. Sends(<<"EOR", FALSE, 1, 1, R(2)>>, r2, a, 1, ArmValue("EOR", r2[1], v2))
    BY <1>2, <2>1, <2>2, LeadsFrom
  <2> HIDE DEF v3
  <2> QED
    BY <1>2, <2>3, <2>4 DEF Sends
<1>4. Bit(v3, 0) = Holds(was.psw, 6)
  <2>1. \A k \in 0 .. W - 1 : Bit(v3, k) = (Bit(v1, k) + Bit(v2, k)) - (2 * (Bit(v1, k) * Bit(v2, k)))
    BY <1>1, <1>2, XorIs
  <2>2. 0 \in 0 .. W - 1
    BY WordFacts
  <2>3. Bit(v3, 0) = (Bit(v1, 0) + Bit(v2, 0)) - (2 * (Bit(v1, 0) * Bit(v2, 0)))
    BY <2>1, <2>2
  <2> QED
    BY <1>1, <1>2, <2>3 DEF Holds
<1> HIDE DEF v3, r3
<1>5. Leads(SignXorOverflow, job.junk, At(was, g, a), At(was, r3, a))
  BY <1>1, <1>2, <1>3, LeadsThree DEF SignXorOverflow
<1> QED
  BY <1>3, <1>4, <1>5 DEF Found

LEMMA OrFinds ==
  ASSUME ArithmeticAssumption, Ready, NEW emitted, NEW h \in {0, 1}, Finds(emitted, h)
  PROVE  Finds(emitted \o OrZ, (h + Bit(was.psw, 0)) - (h * Bit(was.psw, 0)))
<1> SUFFICES ASSUME NEW g \in Files, NEW a \in WordValues, g[0] = was.psw
             PROVE  Found(emitted \o OrZ, g, a, (h + Bit(was.psw, 0)) - (h * Bit(was.psw, 0)))
  BY DEF Finds
<1>1. PICK r \in Files : Leads(emitted, job.junk, At(was, g, a), At(was, r, a)) /\ r[0] = was.psw /\ Bit(r[1], 0) = h
  BY DEF Finds, Found
<1> DEFINE v == Or(r[1], was.psw)
           q == [r EXCEPT ![1] = v]
<1>2. /\ v \in WordValues /\ q \in Files /\ q[0] = was.psw /\ q[1] = v
      /\ Leads(<<<<"ORR", FALSE, 1, 1, R(0)>>>>, job.junk, At(was, r, a), At(was, q, a))
  <2>1. IsOperand(R(0), r, was.psw)
    BY <1>1, OperandIs
  <2>2. Counted("ORR", was.psw) /\ "ORR" \in DataNames
    BY DEF Counted, DataNames, Shifts
  <2>3. ArmValue("ORR", r[1], was.psw) = v
    BY DEF ArmValue, Shifts
  <2>4. Sends(<<"ORR", FALSE, 1, 1, R(0)>>, r, a, 1, ArmValue("ORR", r[1], was.psw))
    BY <2>1, <2>2, LeadsFrom
  <2> HIDE DEF v
  <2> QED
    BY <1>1, <2>3, <2>4 DEF Sends
<1>3. Bit(v, 0) = (h + Bit(was.psw, 0)) - (h * Bit(was.psw, 0))
  <2>1. r[1] \in WordValues /\ was.psw \in WordValues /\ 0 \in 0 .. W - 1
    BY WordFacts DEF Files, Ready
  <2>2. \A k \in 0 .. W - 1 : Bit(v, k) = (Bit(r[1], k) + Bit(was.psw, k)) - (Bit(r[1], k) * Bit(was.psw, k))
    BY <2>1, OrIs
  <2>3. Bit(v, 0) = (Bit(r[1], 0) + Bit(was.psw, 0)) - (Bit(r[1], 0) * Bit(was.psw, 0))
    BY <2>1, <2>2
  <2> QED
    BY <1>1, <2>3
<1> HIDE DEF v, q
<1>4. Leads(emitted \o OrZ, job.junk, At(was, g, a), At(was, q, a))
  BY <1>1, <1>2, LeadsOn DEF OrZ
<1> QED
  BY <1>2, <1>3, <1>4 DEF Found

-----------------------------------------------------------------------------
(* SETF: the code that finds the condition out.                            *)

LEMMA ShiftHolds ==
  ASSUME ArithmeticAssumption, Ready, NEW k \in {1, 2, 3}
  PROVE  Finds(<<<<"SHR", FALSE, 1, 0, I(k)>>>>, Bit(was.psw, k))
<1> SUFFICES ASSUME NEW g \in Files, NEW a \in WordValues, g[0] = was.psw
             PROVE  Found(<<<<"SHR", FALSE, 1, 0, I(k)>>>>, g, a, Bit(was.psw, k))
  BY DEF Finds
<1> DEFINE v == was.psw \div 2^k
           r == [g EXCEPT ![1] = v]
<1>1. /\ Bit(v, 0) = Bit(was.psw, k) /\ r \in Files /\ r[0] = was.psw /\ r[1] = v
      /\ Leads(<<<<"SHR", FALSE, 1, 0, I(k)>>>>, job.junk, At(was, g, a), At(was, r, a))
  <2>1. 1 \in {1, 2}
    OBVIOUS
  <2> QED
    BY <2>1, ShiftFinds, ZenonT(60)
<1> HIDE DEF v, r
<1>2. Bit(r[1], 0) = Bit(was.psw, k)
  BY <1>1
<1> QED
  BY <1>1, <1>2 DEF Found

LEMMA MovHolds ==
  ASSUME ArithmeticAssumption, Ready
  PROVE  Finds(<<MovReg(1, 0)>>, Bit(was.psw, 0)) /\ Finds(<<Mov32(1, 1)>>, 1)
<1>1. ASSUME NEW g \in Files, NEW a \in WordValues, g[0] = was.psw
      PROVE  Found(<<MovReg(1, 0)>>, g, a, Bit(was.psw, 0))
  <2> DEFINE x == was.psw
             r == [g EXCEPT ![1] = x]
  <2>1. IsOperand(R(0), g, x) /\ 1 \in {1, 2} /\ 1 \in {0, 1} /\ 0 \in 0..3 /\ 1 \in 0..3
    BY <1>1, OperandIs
  <2>2. Counted("MOV", x) /\ "MOV" \in DataNames
    BY DEF Counted, DataNames, Shifts
  <2>3. ArmValue("MOV", g[1], x) = x
    BY DEF ArmValue, Shifts
  <2>4. Sends(<<"MOV", FALSE, 1, 1, R(0)>>, g, a, 1, ArmValue("MOV", g[1], x))
    BY <2>1, <2>2, LeadsFrom
  <2>5. r \in Files /\ r[0] = g[0] /\ r[1] = x /\ Leads(<<MovReg(1, 0)>>, job.junk, At(was, g, a), At(was, r, a))
    BY <2>3, <2>4 DEF Sends, MovReg
  <2> HIDE DEF r
  <2> QED
    BY <1>1, <2>5 DEF Found
<1>2. ASSUME NEW g \in Files, NEW a \in WordValues, g[0] = was.psw
      PROVE  Found(<<Mov32(1, 1)>>, g, a, 1)
  <2> DEFINE r == [g EXCEPT ![1] = 1]
  <2>1. 1 \in WordValues /\ 1 % Base = 1
    <3>1. 1 \in WordValues
      BY NibblePlaces, SMT
    <3> QED
      BY <3>1, Wraps
  <2>2. r \in Files /\ r[0] = g[0] /\ r[1] = 1
    BY <2>1 DEF Files
  <2>3. Leads(<<Mov32(1, 1)>>, job.junk, At(was, g, a), At(was, r, a))
    <3>1. Leads(<<Mov32(1, 1)>>, job.junk, At(was, g, a), At(was, [g EXCEPT ![1] = 1 % Base], a))
      BY LeadsMov32
    <3> QED
      BY <2>1, <3>1
  <2> HIDE DEF r
  <2>4. Bit(r[1], 0) = 1
    BY <2>2, MaskPlaces
  <2> QED
    BY <1>2, <2>2, <2>3, <2>4 DEF Found
<1> QED
  BY <1>1, <1>2 DEF Finds

\* The code of emit_setf that finds out a condition.
ValueOf(k) ==
  CASE k = 0 -> <<<<"SHR", FALSE, 1, 0, I(2)>>>>        [] k = 1 -> <<<<"SHR", FALSE, 1, 0, I(3)>>>>
    [] k = 2 -> <<MovReg(1, 0)>>        [] k = 3 -> <<<<"SHR", FALSE, 1, 0, I(3)>>>> \o OrZ
    [] k = 4 -> <<<<"SHR", FALSE, 1, 0, I(1)>>>>        [] k = 5 -> <<Mov32(1, 1)>>
    [] k = 6 -> SignXorOverflow         [] k = 7 -> SignXorOverflow \o OrZ
Negate(cond) == IF cond < 8 THEN <<>> ELSE <<<<"EOR", TRUE, 1, 1, I(1)>>>>
Lowest == <<"AND", FALSE, 1, 1, I(1)>>

LEMMA EmitSetfIs ==
  ASSUME NEW cond \in 0..15, NEW rd
  PROVE  EmitSetf(cond, rd) = <<LdrPsw(0)>> \o ValueOf(cond % 8) \o <<Lowest>> \o Negate(cond) \o <<Lowest, StrPreg(1, rd)>>
BY DEF EmitSetf, ValueOf, Negate, Lowest

LEMMA ValueFinds ==
  ASSUME ArithmeticAssumption, Ready, NEW k \in 0..7
  PROVE  Finds(ValueOf(k), Holds(was.psw, k))
<1>0. was.psw \in WordValues /\ was.psw \in Nat
  BY WordFacts, SMT DEF Ready, WordValues
<1> DEFINE z == Bit(was.psw, 0)
           s == Bit(was.psw, 1)
           ov == Bit(was.psw, 2)
           cy == Bit(was.psw, 3)
           lt == Holds(was.psw, 6)
<1>1. cy \in {0, 1}
  <2>1. 3 \in 0..3
    OBVIOUS
  <2> QED
    BY <1>0, <2>1, BitIs
<1>2. lt \in {0, 1}
  <2>1. 6 \in 0..7
    OBVIOUS
  <2> QED
    BY <1>0, <2>1, HoldsIs
<1>3. /\ Holds(was.psw, 0) = ov /\ Holds(was.psw, 1) = cy /\ Holds(was.psw, 2) = z /\ Holds(was.psw, 3) = (cy + z) - (cy * z)
      /\ Holds(was.psw, 4) = s /\ Holds(was.psw, 5) = 1 /\ Holds(was.psw, 7) = (lt + z) - (lt * z)
  BY DEF Holds
<1> HIDE DEF z, s, ov, cy, lt
<1>4. /\ Finds(<<<<"SHR", FALSE, 1, 0, I(1)>>>>, s) /\ Finds(<<<<"SHR", FALSE, 1, 0, I(2)>>>>, ov)
      /\ Finds(<<<<"SHR", FALSE, 1, 0, I(3)>>>>, cy)
  BY ShiftHolds DEF s, ov, cy
<1>5. Finds(<<MovReg(1, 0)>>, z) /\ Finds(<<Mov32(1, 1)>>, 1)
  BY MovHolds DEF z
<1>6. Finds(SignXorOverflow, lt)
  BY XorFinds DEF lt
<1>7. Finds(<<<<"SHR", FALSE, 1, 0, I(3)>>>> \o OrZ, (cy + z) - (cy * z))
  BY <1>1, <1>4, OrFinds DEF z
<1>8. Finds(SignXorOverflow \o OrZ, (lt + z) - (lt * z))
  BY <1>2, <1>6, OrFinds DEF z
<1>9. k = 0 \/ k = 1 \/ k = 2 \/ k = 3 \/ k = 4 \/ k = 5 \/ k = 6 \/ k = 7
  BY SMT
<1>10. CASE k = 0
  BY <1>3, <1>4, <1>10 DEF ValueOf
<1>11. CASE k = 1
  BY <1>3, <1>4, <1>11 DEF ValueOf
<1>12. CASE k = 2
  BY <1>3, <1>5, <1>12 DEF ValueOf
<1>13. CASE k = 3
  BY <1>3, <1>7, <1>13 DEF ValueOf
<1>14. CASE k = 4
  BY <1>3, <1>4, <1>14 DEF ValueOf
<1>15. CASE k = 5
  BY <1>3, <1>5, <1>15 DEF ValueOf
<1>16. CASE k = 6
  BY <1>6, <1>16 DEF ValueOf, lt
<1>17. CASE k = 7
  BY <1>3, <1>8, <1>17 DEF ValueOf
<1> QED
  BY <1>9, <1>10, <1>11, <1>12, <1>13, <1>14, <1>15, <1>16, <1>17

\* The two ANDs and what is between them.
Leaves1(emitted, g, a, v) == \E r \in Files, f \in WordValues : Leads(emitted, job.junk, At(was, g, a), At(was, r, f)) /\ r[1] = v
LEMMA LowestIs ==
  ASSUME ArithmeticAssumption, Ready, NEW g \in Files, NEW a \in WordValues
  PROVE  /\ [g EXCEPT ![1] = Bit(g[1], 0)] \in Files
         /\ Leads(<<Lowest>>, job.junk, At(was, g, a), At(was, [g EXCEPT ![1] = Bit(g[1], 0)], a))
<1>0. g[1] \in WordValues /\ g[1] \in Int /\ 0 \in 0 .. W - 1 /\ 1 \in WordValues /\ 1 \in {1, 2} /\ 1 \in {0, 1} /\ 0 \in 0..3
  <2>1. g[1] \in WordValues /\ 0 \in 0 .. W - 1
    BY WordFacts DEF Files
  <2>2. 1 \in WordValues
    BY NibblePlaces, SMT
  <2> QED
    BY <2>1, <2>2, Wraps
<1>1. And(g[1], 1) = Bit(g[1], 0)
  <2>1. And(g[1], 2^0) = IF Bit(g[1], 0) = 1 THEN 2^0 ELSE 0
    BY <1>0, AndPlace
  <2>2. 2^0 = 1
    BY LowPlaces
  <2>3. Bit(g[1], 0) \in {0, 1}
    BY <1>0, WordBit
  <2>4. And(g[1], 1) = IF Bit(g[1], 0) = 1 THEN 1 ELSE 0
    BY <2>1, <2>2, Zenon
  <2> QED
    BY <2>3, <2>4
<1>2. IsOperand(I(1), g, 1)
  BY <1>0, OperandIs
<1>3. Counted("AND", 1) /\ "AND" \in DataNames
  BY DEF Counted, DataNames, Shifts
<1>4. ArmValue("AND", g[1], 1) = Bit(g[1], 0)
  BY <1>1 DEF ArmValue, Shifts
<1>5. Sends(<<"AND", FALSE, 1, 1, I(1)>>, g, a, 1, ArmValue("AND", g[1], 1))
  BY <1>0, <1>2, <1>3, LeadsFrom
<1> QED
  BY <1>4, <1>5 DEF Sends, Lowest

LEMMA NegateIs ==
  ASSUME ArithmeticAssumption, Ready, NEW cond \in 0..15, NEW g \in Files, NEW a \in WordValues, NEW h \in {0, 1}, g[1] = h
  PROVE  Leaves1(Negate(cond), g, a, IF cond < 8 THEN h ELSE 1 - h)
<1>1. CASE cond < 8
  <2>1. Leads(Negate(cond), job.junk, At(was, g, a), At(was, g, a))
    BY <1>1, LeadsNone DEF Negate
  <2> QED
    BY <1>1, <2>1 DEF Leaves1
<1>2. CASE ~(cond < 8)
  <2> DEFINE v == Xor(h, 1)
             r == [g EXCEPT ![1] = v]
  <2>0. 1 \in WordValues /\ h \in WordValues /\ h \in Int /\ 1 \in Int /\ 0 \in WordValues
    <3>1. 1 \in WordValues
      BY NibblePlaces, SMT
    <3>2. 0 \in WordValues
      BY ZeroBits
    <3> QED
      BY <3>1, <3>2
  <2>1. v = 1 - h
    <3>1. v \in WordValues /\ \A k \in 0 .. W - 1 : Bit(v, k) = (Bit(h, k) + Bit(1, k)) - (2 * (Bit(h, k) * Bit(1, k)))
      BY <2>0, XorIs
    <3>2. 1 - h \in WordValues
      BY <2>0
    <3>3. ASSUME NEW k \in 0 .. W - 1 PROVE Bit(1, k) = (IF k = 0 THEN 1 ELSE 0) /\ Bit(0, k) = 0
      <4>1. Bit(0, k) = 0
        BY ZeroBits
      <4>2. 0 \in 0 .. W - 1
        BY WordFacts
      <4>3. Bit(2^0, k) = IF k = 0 THEN 1 ELSE 0
        BY <4>2, PlaceBits
      <4>4. 2^0 = 1
        BY LowPlaces
      <4> QED
        BY <4>1, <4>3, <4>4, Zenon
    <3>4. ASSUME NEW k \in 0 .. W - 1 PROVE Bit(v, k) = Bit(1 - h, k)
      <4>1. Bit(v, k) = (Bit(h, k) + Bit(1, k)) - (2 * (Bit(h, k) * Bit(1, k)))
        BY <3>1
      <4>2. CASE h = 0
        BY <3>3, <4>1, <4>2
      <4>3. CASE h = 1
        BY <3>3, <4>1, <4>3
      <4> QED
        BY <4>2, <4>3
    <3> HIDE DEF v
    <3> QED
      BY <3>1, <3>2, <3>4, SameBits
  <2>2. IsOperand(I(1), g, 1) /\ 1 \in 0..3
    BY <2>0, OperandIs
  <2>3. Counted("EOR", 1) /\ "EOR" \in DataNames
    BY DEF Counted, DataNames, Shifts
  <2>4. ArmValue("EOR", g[1], 1) = v
    <3>1. ArmValue("EOR", g[1], 1) = Xor(g[1], 1)
      BY DEF ArmValue, Shifts
    <3> QED
      BY <3>1
  <2>5. r \in Files /\ SetsFlags(<<"EOR", TRUE, 1, 1, I(1)>>, job.junk, At(was, g, a), was, r, v)
    <3> DEFINE w == ArmValue("EOR", g[1], 1)
    <3>1. [g EXCEPT ![1] = w] \in Files /\ SetsFlags(<<"EOR", TRUE, 1, 1, I(1)>>, job.junk, At(was, g, a), was, [g EXCEPT ![1] = w], w)
      BY <2>2, <2>3, LeadsData
    <3> HIDE DEF w, v
    <3>2. w = v
      BY <2>4 DEF w
    <3> QED
      BY <3>1, <3>2
  <2>6. PICK f \in WordValues : Leads(<<<<"EOR", TRUE, 1, 1, I(1)>>>>, job.junk, At(was, g, a), At(was, r, f)) /\ Shows(f, v)
    BY <2>5 DEF SetsFlags
  <2>7. r[1] = 1 - h
    BY <2>1 DEF Files
  <2> HIDE DEF r
  <2>8. Leads(Negate(cond), job.junk, At(was, g, a), At(was, r, f))
    BY <1>2, <2>6 DEF Negate
  <2> QED
    BY <1>2, <2>5, <2>7, <2>8 DEF Leaves1
<1> QED
  BY <1>1, <1>2

LEMMA ConditionSet ==
  ASSUME ArithmeticAssumption, Ready, NEW cond \in 0..15, NEW v, v = IF TestCond(was.psw, cond) THEN 1 ELSE 0
  PROVE  Computes(EmitSetf(cond, job.r2) \o Done, job.r2, v, Bit(was.psw, Z), Bit(was.psw, S))
<1> DEFINE k == cond % 8
           h == Holds(was.psw, k)
           junk == job.junk
           g == [Scratch EXCEPT ![0] = was.psw]
<1>0. k \in 0..7 /\ (cond < 8 => cond = k) /\ (~(cond < 8) => cond = k + 8) /\ was.psw \in WordValues /\ junk \in WordValues /\ Scratch \in Files
      /\ job.r2 \in Regs /\ was \in Machines
  <2>1. k \in 0..7 /\ (cond < 8 => cond = k) /\ (~(cond < 8) => cond = k + 8)
    BY SMT
  <2> QED
    BY <2>1, Started
<1> HIDE DEF k
<1>1. h \in {0, 1} /\ TestCond(was.psw, k) = (h = 1) /\ TestCond(was.psw, k + 8) = (h = 0)
  BY <1>0, HoldsIs
<1> HIDE DEF h
<1>2. v = IF cond < 8 THEN h ELSE 1 - h
  <2>1. CASE cond < 8
    BY <1>0, <1>1, <2>1
  <2>2. CASE ~(cond < 8)
    <3>1. TestCond(was.psw, cond) = (h = 0)
      BY <1>0, <1>1, <2>2
    <3>2. v = IF h = 0 THEN 1 ELSE 0
      BY <3>1
    <3> QED
      BY <1>1, <2>2, <3>2
  <2> QED
    BY <2>1, <2>2
<1>3. Leads(<<LdrPsw(0)>>, junk, At(was, Scratch, junk), At(was, g, junk))
  BY LeadsLdrPsw
<1>4. g \in Files /\ g[0] = was.psw
  BY <1>0 DEF Files
<1> HIDE DEF g
<1>5. Finds(ValueOf(k), h)
  BY <1>0, ValueFinds DEF h
<1>6. Found(ValueOf(k), g, junk, h)
  BY <1>0, <1>4, <1>5 DEF Finds
<1>7. PICK r \in Files : Leads(ValueOf(k), junk, At(was, g, junk), At(was, r, junk)) /\ Bit(r[1], 0) = h
  BY <1>6 DEF Found
<1> DEFINE r1 == [r EXCEPT ![1] = h]
<1>8. r1 \in Files /\ Leads(<<Lowest>>, junk, At(was, r, junk), At(was, r1, junk))
  BY <1>0, <1>7, LowestIs
<1>9. r1[1] = h
  BY <1>7 DEF Files
<1> HIDE DEF r1
<1>10. Leaves1(Negate(cond), r1, junk, v)
  BY <1>0, <1>1, <1>2, <1>8, <1>9, NegateIs
<1>11. PICK r2 \in Files, f \in WordValues : Leads(Negate(cond), junk, At(was, r1, junk), At(was, r2, f)) /\ r2[1] = v
  BY <1>10 DEF Leaves1
<1> DEFINE q == [r2 EXCEPT ![1] = Bit(r2[1], 0)]
<1>12. q \in Files /\ Leads(<<Lowest>>, junk, At(was, r2, f), At(was, q, f))
  BY LowestIs
<1>13. q[1] = v /\ v \in {0, 1}
  <2>1. v \in {0, 1}
    BY <1>1, <1>2
  <2>2. Bit(v, 0) = v
    <3>1. v \in Int /\ \A x \in Int : Bit(x, 0) = x % 2
      <4>1. v \in Int
        BY <2>1
      <4>2. \A x \in Int : Bit(x, 0) = x % 2
        BY LowPlaces, Zenon
      <4> QED
        BY <4>1, <4>2
    <3>2. Bit(v, 0) = v % 2
      BY <3>1, Zenon
    <3> QED
      BY <2>1, <3>2
  <2> QED
    BY <1>11, <2>1, <2>2 DEF Files
<1> HIDE DEF q
<1> DEFINE d == Put(was, job.r2, v)
<1>14. Leads(<<StrPreg(1, job.r2)>>, junk, At(was, q, f), At(d, q, f))
  BY <1>13, LeadsStrPreg
<1>15. v \in WordValues
  <2>1. 0 \in WordValues /\ 1 \in WordValues
    BY ZeroBits, NibblePlaces, SMT
  <2> QED
    BY <1>13, <2>1
<1>16. d \in Machines /\ d.psw = was.psw /\ d.mem = was.mem /\ d.ts = was.ts /\ d.P = Put(was, job.r2, v).P
  BY <1>0, <1>15, PutIs
<1> HIDE DEF d
<1> DEFINE start == At(was, Scratch, junk)
<1> HIDE DEF start
<1>17. Leads(<<Lowest, StrPreg(1, job.r2)>>, junk, At(was, r2, f), At(d, q, f))
  BY <1>12, <1>14, LeadsTwo
<1> DEFINE a1 == <<LdrPsw(0)>>
           a2 == a1 \o ValueOf(k)
           a3 == a2 \o <<Lowest>>
           a4 == a3 \o Negate(cond)
           a5 == a4 \o <<Lowest, StrPreg(1, job.r2)>>
<1>18. Leads(a1, junk, start, At(was, g, junk))
  BY <1>3 DEF start
<1>19. Leads(a2, junk, start, At(was, r, junk))
  BY <1>7, <1>18, LeadsOn
<1>20. Leads(a3, junk, start, At(was, r1, junk))
  BY <1>8, <1>19, LeadsOn
<1>21. Leads(a4, junk, start, At(was, r2, f))
  BY <1>11, <1>20, LeadsOn
<1>22. Leads(a5, junk, start, At(d, q, f))
  BY <1>17, <1>21, LeadsOn
<1>23. a5 = EmitSetf(cond, job.r2)
  BY EmitSetfIs DEF k
<1>24. Block(EmitSetf(cond, job.r2), At(d, q, f))
  BY <1>22, <1>23 DEF Block, start
<1>25. Computes(EmitSetf(cond, job.r2) \o Done, job.r2, v, Bit(d.psw, Z), Bit(d.psw, S))
  BY <1>12, <1>16, <1>24, DoneComputes
<1> QED
  BY <1>16, <1>25

LEMMA SetfAgrees ==
  ASSUME ArithmeticAssumption, Ready, Both, job.op = "SETF"
  PROVE  Agrees
<1> DEFINE cond == job.imm % 16
           v == IF TestCond(was.psw, cond) THEN 1 ELSE 0
<1>0. cond \in 0..15 /\ job.r2 \in Regs
  <2>1. job.imm \in Int /\ job.r2 \in Regs
    BY Started
  <2> QED
    BY <2>1, SMT
<1>1. Plain.psw = was.psw
  BY PlainIs DEF Ready
<1>2. c = SetPREG(Begun(2), job.r2, v)
  <2>1. c = SETF(Plain, job)
    BY DispatchedToo DEF Both
  <2> QED
    BY <1>1, <2>1 DEF SETF, Begun
<1>3. Emitted(job, was.pc) = (EmitSetf(cond, job.r2) \o Done) \o Exit(was.pc + 2)
  <2>1. Emitted(job, was.pc) = EmitImmediate(job) \o Exit(was.pc + 2)
    BY EmittedIs
  <2>2. EmitImmediate(job) = EmitSetf(cond, job.r2) \o Done
    BY DEF EmitImmediate
  <2> QED
    BY <2>1, <2>2
<1>4. v \in WordValues
  <2>1. 0 \in WordValues /\ 1 \in WordValues
    BY ZeroBits, NibblePlaces, SMT
  <2> QED
    BY <2>1
<1>5. Computes(EmitSetf(cond, job.r2) \o Done, job.r2, v, Bit(was.psw, Z), Bit(was.psw, S))
  BY <1>0, ConditionSet
<1> HIDE DEF v, cond
<1>6. Gives(job.r2, v, Bit(was.psw, Z), Bit(was.psw, S), 2)
  BY <1>0, <1>2, <1>4, MovedGives
<1>7. jit = Run(was, (EmitSetf(cond, job.r2) \o Done) \o Exit(was.pc + 2), job.junk)
  BY <1>3 DEF Both
<1> QED
  BY <1>5, <1>6, <1>7, BothAgree

-----------------------------------------------------------------------------
(* BCOND: the code that tests the condition.                               *)

\* Code that sets the flag Z when a condition does not hold, from PSW in r0.
Tested(emitted, g, a, h) == \E r \in Files, f \in WordValues :
  Leads(emitted, job.junk, At(was, g, a), At(was, r, f)) /\ Bit(f, ArmZ) = 1 - h
Tests(emitted, h) == \A g \in Files, a \in WordValues : g[0] = was.psw => Tested(emitted, g, a, h)

\* A test that leaves the registers.
LEMMA TestedBy ==
  ASSUME ArithmeticAssumption, Ready, NEW g \in Files, NEW a \in WordValues, NEW rn \in 0..3, NEW o, NEW x, IsOperand(o, g, x),
         NEW h \in {0, 1}, And(g[rn], x) = 0 <=> h = 0
  PROVE  Tested(<<<<"AND", TRUE, -1, rn, o>>>>, g, a, h)
<1> DEFINE w == ArmValue("AND", g[rn], x)
<1>1. SetsFlags(<<"AND", TRUE, -1, rn, o>>, job.junk, At(was, g, a), was, g, w)
  <2>1. Counted("AND", x) /\ "AND" \in DataNames /\ 0 \in 0..3
    BY DEF Counted, DataNames, Shifts
  <2> QED
    BY <2>1, LeadsData
<1>2. w = And(g[rn], x)
  BY DEF ArmValue, Shifts
<1> HIDE DEF w
<1>3. PICK f \in WordValues : Leads(<<<<"AND", TRUE, -1, rn, o>>>>, job.junk, At(was, g, a), At(was, g, f)) /\ Shows(f, w)
  BY <1>1 DEF SetsFlags
<1>4. Bit(f, ArmZ) = 1 - h
  <2>1. CASE h = 0
    <3>1. w = 0
      BY <1>2, <2>1
    <3> QED
      BY <1>3, <2>1, <3>1 DEF Shows
  <2>2. CASE h = 1
    <3>1. w # 0
      BY <1>2, <2>2
    <3> QED
      BY <1>3, <2>2, <3>1 DEF Shows
  <2> QED
    BY <2>1, <2>2
<1> QED
  BY <1>3, <1>4 DEF Tested

LEMMA PlaceTests ==
  ASSUME ArithmeticAssumption, Ready, NEW k \in 0..3, NEW x, x = 2^k
  PROVE  Tests(<<<<"AND", TRUE, -1, 0, I(x)>>>>, Bit(was.psw, k))
<1> SUFFICES ASSUME NEW g \in Files, NEW a \in WordValues, g[0] = was.psw
             PROVE  Tested(<<<<"AND", TRUE, -1, 0, I(x)>>>>, g, a, Bit(was.psw, k))
  BY DEF Tests
<1>0. k \in 0 .. W - 1 /\ was.psw \in Int /\ was.psw \in Nat /\ 0 \in 0..3
  BY WordFacts, SMT DEF Ready, WordValues
<1>1. x \in WordValues /\ x \in Int /\ x > 0
  <2>1. 2^k \in WordValues /\ 2^k > 0
    BY <1>0, PlaceBits, PlacePower
  <2> QED
    BY <2>1, Wraps
<1>2. And(was.psw, x) = IF Bit(was.psw, k) = 1 THEN x ELSE 0
  BY <1>0, AndPlace
<1> DEFINE h == Bit(was.psw, k)
<1>3. h \in {0, 1}
  BY <1>0, WordBit
<1>4. IsOperand(I(x), g, x)
  BY <1>0, <1>1, OperandIs
<1>5. And(g[0], x) = 0 <=> h = 0
  BY <1>1, <1>2, <1>3
<1> HIDE DEF h
<1>6. Tested(<<<<"AND", TRUE, -1, 0, I(x)>>>>, g, a, h)
  BY <1>0, <1>3, <1>4, <1>5, TestedBy
<1> QED
  BY <1>6 DEF h

LEMMA FoundTests ==
  ASSUME ArithmeticAssumption, Ready, NEW emitted, NEW h \in {0, 1}, Finds(emitted, h)
  PROVE  Tests(emitted \o <<<<"AND", TRUE, -1, 1, I(1)>>>>, h)
<1> SUFFICES ASSUME NEW g \in Files, NEW a \in WordValues, g[0] = was.psw
             PROVE  Tested(emitted \o <<<<"AND", TRUE, -1, 1, I(1)>>>>, g, a, h)
  BY DEF Tests
<1>1. Found(emitted, g, a, h)
  BY DEF Finds
<1>2. PICK r \in Files : Leads(emitted, job.junk, At(was, g, a), At(was, r, a)) /\ Bit(r[1], 0) = h
  BY <1>1 DEF Found
<1>3. And(r[1], 1) = 0 <=> h = 0
  <2>1. r[1] \in Int /\ 0 \in 0 .. W - 1
    BY WordFacts, Wraps DEF Files
  <2>2. And(r[1], 2^0) = IF Bit(r[1], 0) = 1 THEN 2^0 ELSE 0
    BY <2>1, AndPlace
  <2>3. 2^0 = 1
    BY LowPlaces
  <2>4. And(r[1], 1) = IF Bit(r[1], 0) = 1 THEN 1 ELSE 0
    BY <2>2, <2>3, Zenon
  <2> QED
    BY <1>2, <2>4
<1>4. IsOperand(I(1), r, 1) /\ 1 \in 0..3
  <2>1. 1 \in WordValues /\ 1 \in Int /\ 1 \in 0..3 /\ 0 \in 0..3
    BY NibblePlaces, SMT
  <2> QED
    BY <2>1, OperandIs
<1>5. Tested(<<<<"AND", TRUE, -1, 1, I(1)>>>>, r, a, h)
  BY <1>3, <1>4, TestedBy
<1>6. PICK q \in Files, f \in WordValues : Leads(<<<<"AND", TRUE, -1, 1, I(1)>>>>, job.junk, At(was, r, a), At(was, q, f)) /\ Bit(f, ArmZ) = 1 - h
  BY <1>5 DEF Tested
<1>7. Leads(emitted \o <<<<"AND", TRUE, -1, 1, I(1)>>>>, job.junk, At(was, g, a), At(was, q, f))
  BY <1>2, <1>6, LeadsOn
<1> QED
  BY <1>6, <1>7 DEF Tested

\* Not higher: PSW under Z and CY, twice.
LEMMA TwoPlaces ==
  ASSUME ArithmeticAssumption, NEW x \in WordValues
  PROVE  LET a == And(x, 9) IN And(x, a) = 0 <=> (Bit(x, 3) + Bit(x, 0)) - (Bit(x, 3) * Bit(x, 0)) = 0
<1> DEFINE a == And(x, 9)
           b == And(x, a)
           z == Bit(x, 0)
           cy == Bit(x, 3)
<1>0. x \in Int /\ 9 \in WordValues /\ 9 \in Int /\ 0 \in 0 .. W - 1 /\ 1 \in 0 .. W - 1 /\ 2 \in 0 .. W - 1 /\ 3 \in 0 .. W - 1
  <2>1. 9 \in WordValues
    BY NibblePlaces, SMT
  <2> QED
    <3>1. x \in Int /\ 9 \in Int
      BY <2>1, Wraps
    <3>2. 0 \in 0 .. W - 1 /\ 1 \in 0 .. W - 1 /\ 2 \in 0 .. W - 1 /\ 3 \in 0 .. W - 1
      BY WordFacts, SMT
    <3> QED
      BY <2>1, <3>1, <3>2
<1>1. a \in WordValues /\ a \in Int /\ \A k \in 0 .. W - 1 : Bit(a, k) = Bit(x, k) * Bit(9, k)
  <2>1. a \in WordValues /\ \A k \in 0 .. W - 1 : Bit(a, k) = Bit(x, k) * Bit(9, k)
    BY <1>0, AndIs
  <2> QED
    BY <2>1, Wraps
<1>2. b \in WordValues /\ \A k \in 0 .. W - 1 : Bit(b, k) = Bit(x, k) * Bit(a, k)
  <2> HIDE DEF a
  <2> QED
    BY <1>0, <1>1, AndIs
<1>3. ASSUME NEW k \in 0 .. W - 1 PROVE Bit(b, k) = Bit(x, k) * (Bit(x, k) * Bit(9, k))
  BY <1>1, <1>2, Zenon
<1>4. z \in {0, 1} /\ cy \in {0, 1}
  BY <1>0, WordBit
<1>5. Bit(9, 0) = 1 /\ Bit(9, 3) = 1
  BY MaskPlaces
<1>6. Bit(b, 0) = z /\ Bit(b, 3) = cy
  <2>1. Bit(b, 0) = z * (z * 1) /\ Bit(b, 3) = cy * (cy * 1)
    BY <1>0, <1>3, <1>5
  <2> HIDE DEF z, cy
  <2> QED
    BY <1>4, <2>1
<1>7. ASSUME z = 0, cy = 0 PROVE b = 0
  <2>1. ASSUME NEW k \in 0 .. W - 1 PROVE Bit(b, k) = Bit(0, k)
    <3>1. Bit(0, k) = 0
      BY ZeroBits
    <3>2. CASE k = 0 \/ k = 3
      BY <1>6, <1>7, <3>1, <3>2
    <3>3. CASE k = 1 \/ k = 2 \/ k >= 4
      <4>1. Bit(9, k) = 0
        <5>1. CASE k >= 4
          <6>1. 9 \in 0..15
            OBVIOUS
          <6> QED
            BY <5>1, <6>1, NibblePlaces
        <5>2. CASE k = 1
          BY <5>2, MaskPlaces
        <5>3. CASE k = 2
          BY <5>3, MaskPlaces
        <5> QED
          BY <3>3, <5>1, <5>2, <5>3
      <4>2. Bit(x, k) \in {0, 1}
        BY <1>0, WordBit
      <4> QED
        BY <1>3, <3>1, <4>1, <4>2
    <3> QED
      BY <3>2, <3>3, SMT
  <2>2. 0 \in WordValues
    BY ZeroBits
  <2> HIDE DEF b
  <2> QED
    BY <1>2, <2>1, <2>2, SameBits
<1>8. ASSUME b = 0 PROVE z = 0 /\ cy = 0
  <2>1. Bit(0, 0) = 0 /\ Bit(0, 3) = 0
    BY <1>0, ZeroBits
  <2> HIDE DEF b, z, cy
  <2> QED
    BY <1>6, <1>8, <2>1
<1> HIDE DEF z, cy, b
<1>9. (cy + z) - (cy * z) = 0 <=> (z = 0 /\ cy = 0)
  BY <1>4
<1> QED
  BY <1>7, <1>8, <1>9 DEF z, cy, b

LEMMA HigherTests ==
  ASSUME ArithmeticAssumption, Ready
  PROVE  Tests(<<<<"AND", FALSE, 1, 0, I(9)>>, <<"AND", TRUE, -1, 0, R(1)>>>>, Holds(was.psw, 3))
<1> DEFINE u1 == <<"AND", FALSE, 1, 0, I(9)>>
           u2 == <<"AND", TRUE, -1, 0, R(1)>>
           h == Holds(was.psw, 3)
<1> SUFFICES ASSUME NEW g \in Files, NEW a \in WordValues, g[0] = was.psw
             PROVE  Tested(<<u1, u2>>, g, a, h)
  BY DEF Tests
<1>0. was.psw \in WordValues /\ 0 \in 0..3 /\ 1 \in 0..3 /\ 9 \in WordValues /\ 9 \in Int /\ 1 \in {1, 2} /\ 0 \in {0, 1}
  <2>1. 9 \in WordValues
    BY NibblePlaces, SMT
  <2> QED
    BY <2>1 DEF Ready
<1> DEFINE w == And(was.psw, 9)
           r == [g EXCEPT ![1] = w]
<1>1. r \in Files /\ r[0] = was.psw /\ r[1] = w /\ Leads(<<u1>>, job.junk, At(was, g, a), At(was, r, a))
  <2>1. IsOperand(I(9), g, 9)
    BY <1>0, OperandIs
  <2>2. Counted("AND", 9) /\ "AND" \in DataNames
    BY DEF Counted, DataNames, Shifts
  <2>3. ArmValue("AND", g[0], 9) = w
    BY DEF ArmValue, Shifts
  <2>4. Sends(u1, g, a, 1, ArmValue("AND", g[0], 9))
    BY <1>0, <2>1, <2>2, LeadsFrom
  <2> HIDE DEF w
  <2> QED
    BY <2>3, <2>4 DEF Sends
<1>2. And(was.psw, w) = 0 <=> h = 0
  <2>1. h = (Bit(was.psw, 3) + Bit(was.psw, 0)) - (Bit(was.psw, 3) * Bit(was.psw, 0))
    BY DEF Holds
  <2> HIDE DEF h
  <2> QED
    BY <1>0, <2>1, TwoPlaces
<1>3. h \in {0, 1}
  <2>1. 3 \in 0..7
    OBVIOUS
  <2> QED
    BY <1>0, <2>1, HoldsIs
<1>4. IsOperand(R(1), r, w)
  BY <1>0, <1>1, OperandIs
<1> HIDE DEF r, w, h
<1>5. Tested(<<u2>>, r, a, h)
  BY <1>0, <1>1, <1>2, <1>3, <1>4, TestedBy
<1> HIDE DEF u1, u2
<1>6. PICK q \in Files, f \in WordValues : Leads(<<u2>>, job.junk, At(was, r, a), At(was, q, f)) /\ Bit(f, ArmZ) = 1 - h
  BY <1>5 DEF Tested
<1>7. Leads(<<u1, u2>>, job.junk, At(was, g, a), At(was, q, f))
  BY <1>1, <1>6, LeadsTwo
<1> QED
  BY <1>6, <1>7 DEF Tested

PlaceOf(k) == <<<<"AND", TRUE, -1, 0, I(MaskOf(k))>>>>
TestOf(k) == CASE k \in {0, 1, 2, 4} -> PlaceOf(k)
               [] k = 3 -> <<<<"AND", FALSE, 1, 0, I(9)>>, <<"AND", TRUE, -1, 0, R(1)>>>>
               [] k = 6 -> SignXorOverflow \o <<<<"AND", TRUE, -1, 1, I(1)>>>>
               [] k = 7 -> SignXorOverflow \o OrZ \o <<<<"AND", TRUE, -1, 1, I(1)>>>>
LEMMA TestOfTests ==
  ASSUME ArithmeticAssumption, Ready, NEW k \in 0..7, k # 5
  PROVE  Tests(TestOf(k), Holds(was.psw, k))
<1>0. was.psw \in WordValues
  BY DEF Ready
<1>1. MaskOf(0) = 4 /\ MaskOf(1) = 8 /\ MaskOf(2) = 1 /\ MaskOf(4) = 2
  BY DEF MaskOf
<1>2. 4 = 2^2 /\ 8 = 2^3 /\ 1 = 2^0 /\ 2 = 2^1
  BY LowPlaces
<1> DEFINE T(x) == <<<<"AND", TRUE, -1, 0, I(x)>>>>
<1>3. Tests(T(4), Bit(was.psw, 2)) /\ Tests(T(8), Bit(was.psw, 3)) /\ Tests(T(1), Bit(was.psw, 0)) /\ Tests(T(2), Bit(was.psw, 1))
  <2>1. 0 \in 0..3 /\ 1 \in 0..3 /\ 2 \in 0..3 /\ 3 \in 0..3
    OBVIOUS
  <2> QED
    BY <1>2, <2>1, PlaceTests
<1> HIDE DEF T
<1>4. Tests(TestOf(3), Holds(was.psw, 3))
  BY HigherTests DEF TestOf
<1>5. Holds(was.psw, 6) \in {0, 1} /\ Holds(was.psw, 7) \in {0, 1}
  <2>1. 6 \in 0..7 /\ 7 \in 0..7
    OBVIOUS
  <2> QED
    BY <1>0, <2>1, HoldsIs
<1>6. Tests(TestOf(6), Holds(was.psw, 6))
  <2>1. Finds(SignXorOverflow, Holds(was.psw, 6))
    BY XorFinds
  <2>2. Tests(SignXorOverflow \o <<<<"AND", TRUE, -1, 1, I(1)>>>>, Holds(was.psw, 6))
    BY <1>5, <2>1, FoundTests
  <2>3. TestOf(6) = SignXorOverflow \o <<<<"AND", TRUE, -1, 1, I(1)>>>>
    BY DEF TestOf
  <2> QED
    BY <2>2, <2>3
<1>7. Tests(TestOf(7), Holds(was.psw, 7))
  <2>1. Finds(SignXorOverflow \o OrZ, Holds(was.psw, 7))
    <3>1. 7 \in 0..7
      OBVIOUS
    <3>2. ValueOf(7) = SignXorOverflow \o OrZ
      BY DEF ValueOf
    <3> QED
      BY <3>1, <3>2, ValueFinds
  <2>2. Tests((SignXorOverflow \o OrZ) \o <<<<"AND", TRUE, -1, 1, I(1)>>>>, Holds(was.psw, 7))
    BY <1>5, <2>1, FoundTests
  <2>3. TestOf(7) = (SignXorOverflow \o OrZ) \o <<<<"AND", TRUE, -1, 1, I(1)>>>>
    BY DEF TestOf
  <2> QED
    BY <2>2, <2>3
<1>8. /\ Holds(was.psw, 0) = Bit(was.psw, 2) /\ Holds(was.psw, 1) = Bit(was.psw, 3) /\ Holds(was.psw, 2) = Bit(was.psw, 0)
      /\ Holds(was.psw, 4) = Bit(was.psw, 1)
  BY DEF Holds
<1>9. TestOf(0) = T(4) /\ TestOf(1) = T(8) /\ TestOf(2) = T(1) /\ TestOf(4) = T(2)
  <2>1. ASSUME NEW q \in {0, 1, 2, 4} PROVE TestOf(q) = PlaceOf(q)
    <3> DEFINE b == <<<<"AND", FALSE, 1, 0, I(9)>>, <<"AND", TRUE, -1, 0, R(1)>>>>
               d == SignXorOverflow \o <<<<"AND", TRUE, -1, 1, I(1)>>>>
               e == SignXorOverflow \o OrZ \o <<<<"AND", TRUE, -1, 1, I(1)>>>>
    <3>1. TestOf(q) = CASE q \in {0, 1, 2, 4} -> PlaceOf(q) [] q = 3 -> b [] q = 6 -> d [] q = 7 -> e
      BY Zenon DEF TestOf
    <3> HIDE DEF b, d, e
    <3> QED
      BY <3>1
  <2>2. ASSUME NEW q PROVE PlaceOf(q) = T(MaskOf(q))
    BY DEF PlaceOf, T
  <2> QED
    BY <1>1, <2>1, <2>2
<1>10. k = 0 \/ k = 1 \/ k = 2 \/ k = 3 \/ k = 4 \/ k = 6 \/ k = 7
  BY SMT
<1> QED
  BY <1>3, <1>4, <1>6, <1>7, <1>8, <1>9, <1>10

-----------------------------------------------------------------------------
(* BCOND: the two ways out of a block.                                     *)

\* Three instructions jumped over.
LEMMA SkipsThree ==
  ASSUME NEW junk, NEW d, NEW r, NEW a, NEW u1, NEW u2, NEW u3, NEW k \in Nat, k >= 3
  PROVE  Leads(<<u1>> \o <<u2, u3>>, junk, Skipping(At(d, r, a), k), Skipping(At(d, r, a), k - 3))
<1> DEFINE s0 == Skipping(At(d, r, a), k)
           s1 == Skipping(At(d, r, a), k - 1)
           s2 == Skipping(At(d, r, a), (k - 1) - 1)
           s3 == Skipping(At(d, r, a), ((k - 1) - 1) - 1)
<1>1. Leads(<<u1>>, junk, s0, s1) /\ Leads(<<u2>>, junk, s1, s2) /\ Leads(<<u3>>, junk, s2, s3)
  <2>1. k > 0 /\ k - 1 \in Nat /\ k - 1 > 0 /\ (k - 1) - 1 \in Nat /\ (k - 1) - 1 > 0
    OBVIOUS
  <2> QED
    BY <2>1, LeadsSkip
<1>2. ((k - 1) - 1) - 1 = k - 3
  OBVIOUS
<1> HIDE DEF s0, s1, s2, s3
<1>3. Leads(<<u2, u3>>, junk, s1, s3)
  BY <1>1, LeadsTwo
<1>4. Leads(<<u1>> \o <<u2, u3>>, junk, s0, s3)
  BY <1>1, <1>3, LeadsOn
<1> QED
  BY <1>2, <1>4 DEF s0, s3

\* Clocks and an exit.
Goes(j, p) == <<AddClock(j)>> \o Exit(p)
LEMMA GoesOut ==
  ASSUME NEW junk, NEW d, NEW r \in Files, NEW a, NEW j, NEW p
  PROVE  Leads(Goes(j, p), junk, At(d, r, a), Left(Tick(d, j), r, a, p))
<1> DEFINE e == Tick(d, j)
<1>1. Leads(<<AddClock(j)>>, junk, At(d, r, a), At(e, r, a))
  BY LeadsClock
<1> HIDE DEF e
<1>2. Leads(Exit(p), junk, At(e, r, a), Left(e, r, a, p))
  BY LeadsExit
<1>3. Leads(Goes(j, p), junk, At(d, r, a), Left(e, r, a, p))
  BY <1>1, <1>2, LeadsOn DEF Goes
<1> QED
  BY <1>3 DEF e
LEMMA GoesNot ==
  ASSUME NEW junk, NEW d, NEW r, NEW a, NEW j, NEW p, NEW k \in Nat, k >= 3
  PROVE  Leads(Goes(j, p), junk, Skipping(At(d, r, a), k), Skipping(At(d, r, a), k - 3))
<1> DEFINE u1 == AddClock(j)
           u2 == Mov32(0, p)
           u3 == <<"EXIT">>
<1> HIDE DEF u1, u2, u3
<1>1. Goes(j, p) = <<u1>> \o <<u2, u3>>
  BY DEF Goes, Exit, u1, u2, u3
<1> QED
  BY <1>1, SkipsThree

LEMMA GoesLen ==
  ASSUME NEW j, NEW p
  PROVE  Len(Goes(j, p)) = 3
<1> DEFINE u1 == AddClock(j)
           u2 == Mov32(0, p)
           u3 == <<"EXIT">>
<1> HIDE DEF u1, u2, u3
<1>1. Goes(j, p) = <<u1, u2, u3>>
  BY JoinedThree DEF Goes, Exit, u1, u2, u3
<1> QED
  BY <1>1

BranchName(cond) == IF cond < 8 THEN "BEQ" ELSE "BNE"
LEMMA EmitCondBranchIs ==
  ASSUME NEW cond, NEW taken, NEW past
  PROVE  EmitCondBranch(cond, taken, past) =
           IF cond = 5 THEN <<LdrPsw(0)>> \o Goes(3, taken)
           ELSE IF cond = 13 THEN <<LdrPsw(0)>> \o Goes(1, past)
           ELSE <<LdrPsw(0)>> \o TestOf(cond % 8) \o <<<<BranchName(cond), 3>>>> \o Goes(3, taken) \o Goes(1, past)
<1> DEFINE go == Goes(3, taken)
           stay == Goes(1, past)
           test == TestOf(cond % 8)
           over == IF cond < 8 THEN <<<<"BEQ", Len(go)>>>> ELSE <<<<"BNE", Len(go)>>>>
<1>1. EmitCondBranch(cond, taken, past) =
           CASE cond = 5 -> <<LdrPsw(0)>> \o go
             [] cond = 13 -> <<LdrPsw(0)>> \o stay
             [] OTHER -> <<LdrPsw(0)>> \o test \o over \o go \o stay
  BY Zenon DEF EmitCondBranch, Goes, TestOf, PlaceOf
<1>2. Len(go) = 3
  BY GoesLen
<1> HIDE DEF go, stay, test
<1>3. over = <<<<BranchName(cond), 3>>>>
  BY <1>2 DEF BranchName
<1> HIDE DEF over
<1> QED
  BY <1>1, <1>3 DEF go, stay, test

\* The block ends as the condition says.
EndsAt(emitted, j, p) == \E t : Block(emitted, t) /\ t.c = [Tick(was, j) EXCEPT !.pc = p % Base]
LEMMA CondBranchIs ==
  ASSUME ArithmeticAssumption, Ready, NEW cond \in 0..15, NEW taken, NEW past
  PROVE  IF TestCond(was.psw, cond) THEN EndsAt(EmitCondBranch(cond, taken, past), 3, taken)
         ELSE EndsAt(EmitCondBranch(cond, taken, past), 1, past)
<1> DEFINE k == cond % 8
           h == Holds(was.psw, k)
           junk == job.junk
           g == [Scratch EXCEPT ![0] = was.psw]
           start == At(was, Scratch, junk)
           emitted == EmitCondBranch(cond, taken, past)
<1>0. k \in 0..7 /\ (cond < 8 => cond = k) /\ (~(cond < 8) => cond = k + 8) /\ was.psw \in WordValues /\ junk \in WordValues /\ Scratch \in Files
  <2>1. k \in 0..7 /\ (cond < 8 => cond = k) /\ (~(cond < 8) => cond = k + 8)
    BY SMT
  <2> QED
    BY <2>1, Started
<1>a. k = cond % 8
  OBVIOUS
<1> HIDE DEF k
<1>1. h \in {0, 1} /\ TestCond(was.psw, k) = (h = 1) /\ TestCond(was.psw, k + 8) = (h = 0)
  BY <1>0, HoldsIs
<1>2. Leads(<<LdrPsw(0)>>, junk, start, At(was, g, junk))
  BY LeadsLdrPsw
<1>3. g \in Files /\ g[0] = was.psw
  BY <1>0 DEF Files
<1> HIDE DEF g, start
<1>4. ASSUME NEW r \in Files, NEW a, NEW j, NEW p PROVE Left(Tick(was, j), r, a, p).c = [Tick(was, j) EXCEPT !.pc = p % Base]
  BY DEF Left, Skipping, At
<1>5. CASE cond = 5
  <2>1. emitted = <<LdrPsw(0)>> \o Goes(3, taken)
    BY <1>5, EmitCondBranchIs
  <2>2. k = 5 /\ h = 1
    <3>1. k = 5
      BY <1>a, <1>5, SMT
    <3> QED
      BY <3>1 DEF Holds
  <2>3. TestCond(was.psw, cond)
    BY <1>0, <1>1, <1>5, <2>2
  <2> DEFINE t == Left(Tick(was, 3), g, junk, taken)
  <2>4. Leads(Goes(3, taken), junk, At(was, g, junk), t)
    BY <1>3, GoesOut
  <2>5. t.c = [Tick(was, 3) EXCEPT !.pc = taken % Base]
    BY <1>3, <1>4
  <2> HIDE DEF t
  <2>6. Leads(emitted, junk, start, t)
    BY <1>2, <2>1, <2>4, LeadsOn
  <2>7. EndsAt(emitted, 3, taken)
    BY <2>5, <2>6 DEF EndsAt, Block, start
  <2> QED
    BY <2>3, <2>7
<1>6. CASE cond = 13
  <2>1. emitted = <<LdrPsw(0)>> \o Goes(1, past)
    <3>1. cond # 5
      BY <1>6
    <3> QED
      BY <1>6, <3>1, EmitCondBranchIs, Zenon
  <2>2. k = 5 /\ h = 1
    <3>1. k = 5
      BY <1>a, <1>6, SMT
    <3> QED
      BY <3>1 DEF Holds
  <2>3. ~TestCond(was.psw, cond)
    <3>1. cond = k + 8
      BY <1>0, <1>6
    <3>2. TestCond(was.psw, cond) = (h = 0)
      BY <1>1, <3>1
    <3> QED
      <4>1. h = 1
        BY <2>2
      <4> HIDE DEF h
      <4>2. ~(h = 0)
        BY <4>1
      <4> QED
        BY <3>2, <4>2
  <2> DEFINE t == Left(Tick(was, 1), g, junk, past)
  <2>4. Leads(Goes(1, past), junk, At(was, g, junk), t)
    BY <1>3, GoesOut
  <2>5. t.c = [Tick(was, 1) EXCEPT !.pc = past % Base]
    BY <1>3, <1>4
  <2> HIDE DEF t
  <2>6. Leads(emitted, junk, start, t)
    BY <1>2, <2>1, <2>4, LeadsOn
  <2>7. EndsAt(emitted, 1, past)
    BY <2>5, <2>6 DEF EndsAt, Block, start
  <2> QED
    BY <2>3, <2>7
<1>7. CASE cond # 5 /\ cond # 13
  <2> DEFINE name == BranchName(cond)
             over == <<<<name, 3>>>>
             go == Goes(3, taken)
             stay == Goes(1, past)
             yes == TestCond(was.psw, cond)
  <2>1. emitted = <<LdrPsw(0)>> \o TestOf(k) \o over \o go \o stay
    <3>1. emitted = IF cond = 5 THEN <<LdrPsw(0)>> \o go ELSE IF cond = 13 THEN <<LdrPsw(0)>> \o stay
                 ELSE <<LdrPsw(0)>> \o TestOf(cond % 8) \o over \o go \o stay
      <4> HIDE DEF go, stay, name
      <4>1. EmitCondBranch(cond, taken, past) =
           IF cond = 5 THEN <<LdrPsw(0)>> \o Goes(3, taken)
           ELSE IF cond = 13 THEN <<LdrPsw(0)>> \o Goes(1, past)
           ELSE <<LdrPsw(0)>> \o TestOf(cond % 8) \o <<<<BranchName(cond), 3>>>> \o Goes(3, taken) \o Goes(1, past)
        BY EmitCondBranchIs, Zenon
      <4> QED
        BY <4>1, Zenon DEF go, stay, name
    <3> HIDE DEF emitted, over, go, stay
    <3> QED
      BY <1>7, <1>a, <3>1
  <2>2. k # 5
    BY <1>0, <1>7
  <2>3. Tests(TestOf(k), h)
    BY <1>0, <2>2, TestOfTests
  <2>4. Tested(TestOf(k), g, junk, h)
    BY <1>0, <1>3, <2>3 DEF Tests
  <2> HIDE DEF h
  <2>5. PICK r \in Files, f \in WordValues : Leads(TestOf(k), junk, At(was, g, junk), At(was, r, f)) /\ Bit(f, ArmZ) = 1 - h
    BY <2>4 DEF Tested
  <2> DEFINE s == At(was, r, f)
             s3 == Skipping(s, 3)
  <2>6. Leads(over, junk, s, IF yes THEN s ELSE s3)
    <3>1. CASE cond < 8
      <4>1. Leads(<<<<"BEQ", 3>>>>, junk, s, IF Bit(f, ArmZ) = 1 THEN s3 ELSE s)
        BY LeadsBranch DEF Skipping
      <4>2. yes <=> h = 1
        BY <1>0, <1>1, <3>1
      <4>3. (IF Bit(f, ArmZ) = 1 THEN s3 ELSE s) = IF yes THEN s ELSE s3
        <5> HIDE DEF yes, s, s3
        <5>1. CASE h = 0
          <6>1. Bit(f, ArmZ) = 1
            BY <2>5, <5>1
          <6> QED
            BY <4>2, <5>1, <6>1
        <5>2. CASE h = 1
          <6>1. Bit(f, ArmZ) = 0
            BY <2>5, <5>2
          <6> QED
            BY <4>2, <5>2, <6>1
        <5> QED
          BY <1>1, <5>1, <5>2
      <4>4. over = <<<<"BEQ", 3>>>>
        BY <3>1 DEF BranchName
      <4> QED
        BY <4>1, <4>3, <4>4
    <3>2. CASE ~(cond < 8)
      <4>1. Leads(<<<<"BNE", 3>>>>, junk, s, IF Bit(f, ArmZ) = 0 THEN s3 ELSE s)
        BY LeadsBranch DEF Skipping
      <4>2. yes <=> h = 0
        BY <1>0, <1>1, <3>2
      <4>3. (IF Bit(f, ArmZ) = 0 THEN s3 ELSE s) = IF yes THEN s ELSE s3
        <5> HIDE DEF yes, s, s3
        <5>1. CASE h = 0
          <6>1. Bit(f, ArmZ) = 1
            BY <2>5, <5>1
          <6> QED
            BY <4>2, <5>1, <6>1
        <5>2. CASE h = 1
          <6>1. Bit(f, ArmZ) = 0
            BY <2>5, <5>2
          <6> QED
            BY <4>2, <5>2, <6>1
        <5> QED
          BY <1>1, <5>1, <5>2
      <4>4. over = <<<<"BNE", 3>>>>
        BY <3>2 DEF BranchName
      <4> QED
        BY <4>1, <4>3, <4>4
    <3> QED
      BY <3>1, <3>2
  <2> DEFINE a1 == <<LdrPsw(0)>>
             a2 == a1 \o TestOf(k)
             a3 == a2 \o over
             a4 == a3 \o go
             a5 == a4 \o stay
  <2>7. Leads(a2, junk, start, s)
    BY <1>2, <2>5, LeadsOn
  <2> HIDE DEF over, a2
  <2>8. Leads(a3, junk, start, IF yes THEN s ELSE s3)
    BY <2>6, <2>7, LeadsOn
  <2> HIDE DEF a3, emitted
  <2>9. a5 = emitted
    BY <2>1 DEF a3, a2
  <2>10. CASE yes
    <3> DEFINE e == Tick(was, 3)
               t == Left(e, r, f, taken)
               e1 == [e EXCEPT !.pc = taken % Base]
               r1 == [r EXCEPT ![0] = taken % Base]
               t1 == Skipping(At(e1, r1, f), 1000 - 3)
    <3>1. Leads(a3, junk, start, s)
      BY <2>8, <2>10
    <3>2. Leads(go, junk, s, t)
      BY GoesOut
    <3>3. t = Skipping(At(e1, r1, f), 1000)
      BY DEF Left
    <3>4. Leads(stay, junk, t, t1)
      <4> HIDE DEF e1, r1, t, stay
      <4>1. Leads(Goes(1, past), junk, Skipping(At(e1, r1, f), 1000), t1)
        BY GoesNot
      <4> QED
        BY <3>3, <4>1 DEF stay
    <3>5. t1.c = [Tick(was, 3) EXCEPT !.pc = taken % Base]
      BY DEF Skipping, At
    <3> HIDE DEF t, t1, go, stay, s
    <3>6. Leads(a4, junk, start, t)
      BY <3>1, <3>2, LeadsOn
    <3> HIDE DEF a4
    <3>7. Leads(a5, junk, start, t1)
      BY <3>4, <3>6, LeadsOn
    <3>8. EndsAt(emitted, 3, taken)
      BY <2>9, <3>5, <3>7 DEF EndsAt, Block, start
    <3> QED
      BY <2>10, <3>8 DEF emitted
  <2>11. CASE ~yes
    <3> DEFINE t == Left(Tick(was, 1), r, f, past)
    <3>1. Leads(a3, junk, start, s3)
      BY <2>8, <2>11
    <3>2. Leads(go, junk, s3, s)
      <4>1. Leads(Goes(3, taken), junk, Skipping(At(was, r, f), 3), Skipping(At(was, r, f), 3 - 3))
        BY GoesNot
      <4>2. Skipping(At(was, r, f), 3 - 3) = At(was, r, f)
        BY DEF Skipping, At
      <4> QED
        BY <4>1, <4>2
    <3>3. Leads(stay, junk, s, t)
      BY GoesOut
    <3>4. t.c = [Tick(was, 1) EXCEPT !.pc = past % Base]
      BY <1>4
    <3> HIDE DEF t, go, stay, s, s3
    <3>5. Leads(a4, junk, start, s)
      BY <3>1, <3>2, LeadsOn
    <3> HIDE DEF a4
    <3>6. Leads(a5, junk, start, t)
      BY <3>3, <3>5, LeadsOn
    <3>7. EndsAt(emitted, 1, past)
      BY <2>9, <3>4, <3>6 DEF EndsAt, Block, start
    <3> QED
      BY <2>11, <3>7 DEF emitted
  <2> QED
    BY <2>10, <2>11
<1> QED
  BY <1>5, <1>6, <1>7

LEMMA BranchesAgree ==
  ASSUME ArithmeticAssumption, Ready, Both, job.op = "BCOND"
  PROVE  Agrees
<1> DEFINE yes == TestCond(was.psw, job.r1)
           x == (was.pc + Even(job.imm)) % Base
           past == was.pc + 2
           p == IF yes THEN x ELSE past
           j == IF yes THEN 3 ELSE 1
           emitted == EmitCondBranch(job.r1, x, past)
<1>0. job.r1 \in 0..15 /\ job.imm \in Int /\ was \in Machines /\ was.pc \in 0 .. Base - 5
  BY DEF Ready, Instructions
<1>1. x \in WordValues /\ past \in WordValues
  <2>1. Even(job.imm) \in Int /\ was.pc \in Int
    BY <1>0, WordFacts, SMT DEF Even
  <2>2. past \in WordValues
    BY <1>0, WordFacts, SMT DEF WordValues
  <2>3. was.pc + Even(job.imm) \in Int
    BY <2>1
  <2> QED
    BY <2>2, <2>3, Unwraps
<1>2. p % Base = p /\ p \in Int
  BY <1>1, Wraps
<1>3. EndsAt(emitted, j, p)
  <2> HIDE DEF x, past
  <2>1. IF yes THEN EndsAt(emitted, 3, x) ELSE EndsAt(emitted, 1, past)
    BY <1>0, CondBranchIs
  <2> QED
    BY <2>1
<1>4. Emitted(job, was.pc) = emitted \o <<>>
  <2>1. Emitted(job, was.pc) = EmitBranch(job, was.pc) \o <<>>
    BY EmittedIs
  <2>2. EmitBranch(job, was.pc) = emitted
    BY DEF EmitBranch
  <2> QED
    BY <2>1, <2>2
<1>5. c = [Tick(Plain, j) EXCEPT !.pc = p]
  <2>1. c = Branch(Plain, job)
    BY DispatchedToo DEF Both
  <2>2. Plain.psw = was.psw /\ Plain.pc = was.pc /\ Plain \in Machines
    BY <1>0, PlainIs
  <2>3. Tick(Plain, 3).pc = was.pc /\ Tick(Plain, 1).pc = was.pc
    BY <2>2, TickIs
  <2>4. c = IF yes THEN [Tick(Plain, 3) EXCEPT !.pc = (@ + Even(job.imm)) % Base] ELSE Next2(Tick(Plain, 1))
    BY <2>1, <2>2 DEF Branch
  <2>5. CASE yes
    <3>1. c = [Tick(Plain, 3) EXCEPT !.pc = x]
      BY <2>3, <2>4, <2>5
    <3> QED
      BY <2>5, <3>1
  <2>6. CASE ~yes
    <3>1. c = [Tick(Plain, 1) EXCEPT !.pc = past]
      BY <2>3, <2>4, <2>6 DEF Next2
    <3> QED
      BY <2>6, <3>1
  <2> QED
    BY <2>5, <2>6
<1>6. j \in Int
  OBVIOUS
<1> HIDE DEF emitted, p, j
<1>7. PICK t : Block(emitted, t) /\ t.c = [Tick(was, j) EXCEPT !.pc = p % Base]
  BY <1>3 DEF EndsAt
<1>8. Block(emitted \o <<>>, t)
  <2>1. Leads(<<>>, job.junk, t, t)
    BY LeadsNone
  <2> QED
    BY <1>7, <2>1, LeadsOn DEF Block
<1>9. jit = Run(was, emitted \o <<>>, job.junk)
  BY <1>4 DEF Both
<1>10. Put(was, 0, 0) = was /\ 0 \in Regs /\ 0 \in WordValues
  BY KeptSame, ZeroBits DEF ArithmeticAssumption
<1>11. t.c = [Tick(Put(was, 0, 0), j) EXCEPT !.pc = p]
  BY <1>2, <1>7, <1>10
<1> QED
  BY <1>2, <1>5, <1>6, <1>8, <1>9, <1>10, <1>11, JumpsAgree

-----------------------------------------------------------------------------
(* The shifts by a register.                                               *)

\* The interpreter.
LEMMA ShiftGives ==
  ASSUME ArithmeticAssumption, Ready, NEW name \in Shifts, NEW y \in WordValues, NEW x \in 0 .. W - 1,
         c = SetPREG(Flagged(Begun(2), Shifted(name, y, x)), job.r2, Shifted(name, y, x).v)
  PROVE  LET v == Shifted(name, y, x).v IN v \in WordValues /\ Gives(job.r2, v, ZeroOf(v), SignOf(v), 2)
<1> DEFINE D == Shifted(name, y, x)
           v == D.v
           cy == D.cy
<1>1. v \in WordValues /\ cy \in BOOLEAN
  BY ShiftedWord
<1>2. D = [v |-> v, ov |-> FALSE, cy |-> cy]
  BY DEF Shifted
<1>3. c = SetPREG(Flagged(Begun(2), D), job.r2, v) /\ job.r2 \in Regs
  BY Started
<1> HIDE DEF D, v, cy
<1>4. c = SetPREG(Flagged(Begun(2), [v |-> v, ov |-> FALSE, cy |-> cy]), job.r2, v)
  BY <1>2, <1>3
<1>5. Gives(job.r2, v, ZeroOf(v), SignOf(v), 2)
  <2>1. 2 \in {2, 4} /\ FALSE \in BOOLEAN
    OBVIOUS
  <2> QED
    BY <1>1, <1>3, <1>4, <2>1, FlaggedGives
<1> QED
  BY <1>1, <1>5 DEF v, D

\* The end of a shift by a register: CY goes unless r1 is zero.
ClearCarry == <<<<"CBZ", 1, 3>>, LdrPsw(1), <<"BIC", FALSE, 1, 1, I(8)>>, StrPsw(1)>>
ClearsCarry(d, r, a) ==
  \E p \in WordValues, q \in Files : /\ Leads(ClearCarry, job.junk, At(d, r, a), At([d EXCEPT !.psw = p], q, a))
                                    /\ Bit(p, Z) = Bit(d.psw, Z) /\ Bit(p, S) = Bit(d.psw, S)
LEMMA ClearCarryIs ==
  ASSUME ArithmeticAssumption, NEW d \in Machines, d.psw \in WordValues, NEW r \in Files, NEW a \in WordValues
  PROVE  ClearsCarry(d, r, a)
<1> DEFINE junk == job.junk
           s == At(d, r, a)
           u1 == <<"CBZ", 1, 3>>
           u2 == LdrPsw(1)
           u3 == <<"BIC", FALSE, 1, 1, I(8)>>
           u4 == StrPsw(1)
<1> HIDE DEF junk
<1>1. Leads(<<u1>>, junk, s, IF r[1] = 0 THEN Skipping(s, 3) ELSE s)
  BY LeadsBranch DEF Skipping
<1>2. CASE r[1] = 0
  <2> DEFINE s3 == Skipping(s, 3)
             s2 == Skipping(s, 3 - 1)
             s1 == Skipping(s, (3 - 1) - 1)
             s0 == Skipping(s, ((3 - 1) - 1) - 1)
  <2>1. Leads(<<u2>>, junk, s3, s2) /\ Leads(<<u3>>, junk, s2, s1) /\ Leads(<<u4>>, junk, s1, s0)
    <3>1. 3 \in Nat /\ 3 > 0 /\ 3 - 1 \in Nat /\ 3 - 1 > 0 /\ (3 - 1) - 1 \in Nat /\ (3 - 1) - 1 > 0
      OBVIOUS
    <3> HIDE DEF u2, u3, u4
    <3> QED
      BY <3>1, LeadsSkip
  <2>2. s0 = s
    BY DEF Skipping, At
  <2>3. Leads(<<u1>>, junk, s, s3)
    BY <1>1, <1>2
  <2>4. [d EXCEPT !.psw = d.psw] = d
    BY DEF Machines
  <2> HIDE DEF s0, s1, s2, s3, s, u1, u2, u3, u4
  <2>5. Leads(<<u1, u2, u3, u4>>, junk, s, s)
    BY <2>1, <2>2, <2>3, LeadsFour
  <2>6. Leads(ClearCarry, junk, At(d, r, a), At([d EXCEPT !.psw = d.psw], r, a))
    BY <2>4, <2>5 DEF ClearCarry, s, u1, u2, u3, u4
  <2> QED
    BY <2>6 DEF ClearsCarry, junk
<1>3. CASE r[1] # 0
  <2> DEFINE r1 == [r EXCEPT ![1] = d.psw]
             v == And(d.psw, Not(8))
             r2 == [r1 EXCEPT ![1] = v]
             e == [d EXCEPT !.psw = v]
  <2>0. 8 \in WordValues /\ 8 \in Int /\ 1 \in 0..3
    BY NibblePlaces, SMT
  <2>1. Leads(<<u2>>, junk, s, At(d, r1, a))
    BY LeadsLdrPsw
  <2>2. r1 \in Files /\ r1[1] = d.psw
    BY DEF Files
  <2> HIDE DEF r1, v
  <2>3. v \in WordValues /\ r2 \in Files /\ Leads(<<u3>>, junk, At(d, r1, a), At(d, r2, a))
    <3>1. IsOperand(I(8), r1, 8)
      BY <2>0, <2>2, OperandIs
    <3>2. Counted("BIC", 8) /\ "BIC" \in DataNames
      BY DEF Counted, DataNames, Shifts
    <3>3. ArmValue("BIC", r1[1], 8) = v
      BY <2>2 DEF ArmValue, Shifts, v
    <3> QED
      <4> DEFINE o == I(8)
                 name == "BIC"
                 y == 8
                 one == 1
      <4>1. name \in DataNames /\ one \in 0..3 /\ IsOperand(o, r1, y) /\ Counted(name, y) /\ ArmValue(name, r1[one], y) = v
        BY <2>0, <3>1, <3>2, <3>3
      <4>2. u3 = <<name, FALSE, one, one, o>> /\ r2 = [r1 EXCEPT ![one] = v]
        OBVIOUS
      <4> HIDE DEF o, name, y, one, u3, r2, e, s
      <4> DEFINE q == [r1 EXCEPT ![one] = ArmValue(name, r1[one], y)]
                 b == ArmValue(name, r1[one], y)
      <4>3. b \in WordValues /\ q \in Files /\ Leads(<<<<name, FALSE, one, one, o>>>>, junk, At(d, r1, a), At(d, q, a))
        BY <2>2, <4>1, LeadsData
      <4>4. b = v /\ q = r2
        BY <4>1, <4>2
      <4> HIDE DEF q, b
      <4> QED
        BY <4>2, <4>3, <4>4
  <2>4. r2[1] = v
    BY <2>2 DEF Files
  <2> HIDE DEF r2
  <2>5. Leads(<<u4>>, junk, At(d, r2, a), At(e, r2, a))
    <3>1. Leads(<<StrPsw(1)>>, junk, At(d, r2, a), At([d EXCEPT !.psw = r2[1]], r2, a))
      BY LeadsStrPsw
    <3> QED
      BY <2>4, <3>1
  <2>6. Leads(<<u1>>, junk, s, s)
    BY <1>1, <1>3
  <2>7. Bit(v, Z) = Bit(d.psw, Z) /\ Bit(v, S) = Bit(d.psw, S)
    <3>1. \A k \in 0 .. W - 1 : Bit(v, k) = IF Bit(8, k) = 1 THEN 0 ELSE Bit(d.psw, k)
      BY <2>0, BicIs DEF v
    <3>2. 0 \in 0 .. W - 1 /\ 1 \in 0 .. W - 1
      BY WordFacts
    <3>3. Bit(8, 0) = 0 /\ Bit(8, 1) = 0
      BY MaskPlaces
    <3> QED
      BY <3>1, <3>2, <3>3 DEF Z, S
  <2> HIDE DEF e, s, u1, u2, u3, u4
  <2>8. Leads(<<u1, u2, u3, u4>>, junk, s, At(e, r2, a))
    BY <2>1, <2>3, <2>5, <2>6, LeadsFour
  <2>9. Leads(ClearCarry, junk, At(d, r, a), At([d EXCEPT !.psw = v], r2, a))
    BY <2>8 DEF ClearCarry, s, u1, u2, u3, u4, e
  <2> QED
    BY <2>3, <2>7, <2>9 DEF ClearsCarry, junk
<1> QED
  BY <1>2, <1>3

\* A shift by a register as far as its result.
ShiftCode(k) == <<LdrPreg(0, k), LdrPreg(1, job.r1), <<"MOD", FALSE, 1, 1, I(W)>>, DataS(job.op), StrPreg(0, k)>>
HasShifted(k, v) == \E r \in Files, a \in WordValues : Block(ShiftCode(k), At(Put(was, k, v), r, a)) /\ Shows(a, v)
LEMMA ShiftRuns ==
  ASSUME ArithmeticAssumption, Ready, job.op \in Shifts
  PROVE  HasShifted(job.r2, Shifted(job.op, Entered.P[job.r2], Entered.P[job.r1] % W).v)
<1> DEFINE junk == job.junk
           k == job.r2
           y == Entered.P[k]
           x == Entered.P[job.r1]
           w == x % W
           v == Shifted(job.op, y, w).v
           start == At(was, Scratch, junk)
           g == [Scratch EXCEPT ![0] = y]
           u1 == LdrPreg(0, k)
           u2 == LdrPreg(1, job.r1)
           u3 == <<"MOD", FALSE, 1, 1, I(W)>>
           u4 == DataS(job.op)
           u5 == StrPreg(0, k)
<1>0. /\ job.r1 \in Regs /\ k \in Regs /\ x \in WordValues /\ y \in WordValues /\ junk \in WordValues /\ 1 \in 0..3 /\ 0 \in 0..3
      /\ w \in 0 .. W - 1
  <2>1. job.r1 \in Regs /\ k \in Regs /\ x \in WordValues /\ y \in WordValues
    BY OperandsAre DEF Ready, Shifts
  <2>2. x \in Int /\ W \in Nat /\ W > 0
    <3>1. W \in Nat /\ W > 0
      BY WordFacts, SMT
    <3> HIDE DEF x
    <3> QED
      BY <2>1, <3>1, Wraps
  <2>3. w \in 0 .. W - 1
    <3> HIDE DEF x
    <3> QED
      BY <2>2, RemainderOf, WordFacts, SMT
  <2> QED
    BY <2>1, <2>3, Started
<1>1. w \in WordValues /\ W \in WordValues /\ W \in Int /\ W > 0
  <2>1. W \in WordValues /\ W > 0
    BY Widths, SMT DEF WordValues
  <2>2. \A q \in 0 .. W - 1 : q \in WordValues
    BY Widths, SMT DEF WordValues
  <2> HIDE DEF w
  <2> QED
    BY <1>0, <2>1, <2>2, Wraps
<1>2. Brought(k, u2, x)
  <2>1. Brings(u2, x)
    BY <1>0, OperandsBrought
  <2> HIDE DEF u2, x
  <2> QED
    BY <1>0, <2>1, Loaded
<1>a. y = Entered.P[k] /\ w = x % W /\ v = Shifted(job.op, y, w).v
  OBVIOUS
<1> HIDE DEF x, y, w, v, g, u1, u2, u3, u4, u5, start
<1>3. PICK f \in Files : /\ f[0] = y /\ f[1] = x
                         /\ Block(<<u1>>, At(was, [Scratch EXCEPT ![0] = y], junk))
                         /\ Leads(<<u2>>, junk, At(was, [Scratch EXCEPT ![0] = y], junk), At(was, f, junk))
  BY <1>2, <1>a DEF Brought, u1
<1> DEFINE h == [f EXCEPT ![1] = w]
<1>4. h \in Files /\ Leads(<<u3>>, junk, At(was, f, junk), At(was, h, junk))
  <2>1. IsOperand(I(W), f, W)
    BY <1>0, <1>1, OperandIs
  <2>2. Counted("MOD", W) /\ "MOD" \in DataNames
    BY <1>1 DEF Counted, DataNames, Shifts
  <2>3. ArmValue("MOD", f[1], W) = w
    BY <1>3, <1>a DEF ArmValue, Shifts
  <2>4. Leads(<<<<"MOD", FALSE, 1, 1, I(W)>>>>, junk, At(was, f, junk), At(was, [f EXCEPT ![1] = ArmValue("MOD", f[1], W)], junk))
        /\ [f EXCEPT ![1] = ArmValue("MOD", f[1], W)] \in Files
    BY <1>0, <2>1, <2>2, LeadsData
  <2> QED
    BY <2>3, <2>4 DEF u3
<1>5. h[0] = y /\ h[1] = w
  BY <1>3 DEF Files
<1> HIDE DEF h
<1> DEFINE r == [h EXCEPT ![0] = v]
<1>6. v \in WordValues /\ r \in Files /\ SetsFlags(u4, junk, At(was, h, junk), was, r, v)
  <2>1. IsOperand(R(1), h, w)
    BY <1>0, <1>4, <1>5, OperandIs
  <2>2. Counted(job.op, w) /\ job.op \in DataNames
    <3>1. w < W /\ job.op # "MOD" /\ job.op # "ROR"
      BY <1>0, <1>1 DEF Shifts
    <3> QED
      BY <3>1 DEF Counted, DataNames, Shifts
  <2>3. ArmValue(job.op, h[0], w) = v
    <3> DEFINE name == job.op
    <3>1. name \in Shifts /\ name # "ADD" /\ name # "SUB"
      BY DEF Shifts
    <3> HIDE DEF name
    <3>2. ArmValue(name, h[0], w) = Shifted(name, h[0], w).v
      BY <3>1 DEF ArmValue, Shifts
    <3> QED
      BY <1>5, <1>a, <3>2 DEF name
  <2> DEFINE q == ArmValue(job.op, h[0], w)
  <2>4. q \in WordValues /\ [h EXCEPT ![0] = q] \in Files
        /\ SetsFlags(<<job.op, TRUE, 0, 0, R(1)>>, junk, At(was, h, junk), was, [h EXCEPT ![0] = q], q)
    BY <1>0, <1>4, <2>1, <2>2, LeadsData
  <2> HIDE DEF q
  <2>5. q = v
    BY <2>3 DEF q
  <2> QED
    BY <2>4, <2>5 DEF u4, DataS
<1>7. PICK a \in WordValues : Leads(<<u4>>, junk, At(was, h, junk), At(was, r, a)) /\ Shows(a, v)
  BY <1>6 DEF SetsFlags
<1>8. r[0] = v
  BY <1>4 DEF Files
<1> HIDE DEF r
<1>9. Leads(<<u5>>, junk, At(was, r, a), At(Put(was, k, v), r, a))
  BY <1>8, LeadsStrPreg DEF u5
<1>10. Leads(<<u1>>, junk, start, At(was, [Scratch EXCEPT ![0] = y], junk))
  BY <1>3 DEF Block, start
<1>11. Leads(<<u1, u2, u3, u4, u5>>, junk, start, At(Put(was, k, v), r, a))
  BY <1>3, <1>4, <1>7, <1>9, <1>10, LeadsFive
<1>12. Block(ShiftCode(k), At(Put(was, k, v), r, a))
  BY <1>11 DEF Block, start, ShiftCode, u1, u2, u3, u4, u5
<1>13. HasShifted(k, v)
  BY <1>6, <1>7, <1>12 DEF HasShifted
<1> QED
  BY <1>13 DEF v, y, w, x

-----------------------------------------------------------------------------
(* The shifts by a constant, whose flags come before the register.         *)

\* A machine with another PSW.
PswSet(d, p) == [d EXCEPT !.psw = p]
LEMMA PswSetIs ==
  ASSUME ArithmeticAssumption, NEW d \in Machines, NEW p \in WordValues
  PROVE  /\ PswSet(d, p) \in Machines /\ PswSet(d, p).P = d.P /\ PswSet(d, p).psw = p /\ PswSet(d, p).mem = d.mem
         /\ PswSet(d, p).ts = d.ts
BY PswPut DEF PswSet

LEMMA ShiftAgrees ==
  ASSUME ArithmeticAssumption, Ready, Both, job.op \in Shifts
  PROVE  Agrees
<1> DEFINE k == job.r2
           y == Entered.P[k]
           x == Entered.P[job.r1] % W
           v == Shifted(job.op, y, x).v
           d == Put(was, k, v)
           flags == EmitPswFlags(FALSE, 11)
           emitted == ShiftCode(k) \o flags \o ClearCarry
<1>0. k \in Regs /\ y \in WordValues /\ x \in 0 .. W - 1 /\ was \in Machines /\ job.r1 \in Regs
  <2>1. k \in Regs /\ y \in WordValues /\ Entered.P[job.r1] \in WordValues /\ job.r1 \in Regs
    BY OperandsAre DEF Ready, Shifts
  <2> DEFINE z == Entered.P[job.r1]
  <2> HIDE DEF z
  <2>2. z \in WordValues
    BY <2>1 DEF z
  <2>3. z % W \in 0 .. W - 1
    BY <2>2, WordFacts, RemainderOf, SMT DEF WordValues
  <2> QED
    BY <2>1, <2>3, Started DEF z
<1>1. HasShifted(k, v)
  BY ShiftRuns
<1>2. c = SetPREG(Flagged(Begun(2), Shifted(job.op, y, x)), k, v)
  <2>1. c = Shift(Plain, job)
    BY Dispatched DEF Both
  <2>2. Plain.P = Entered.P
    BY PlainIs, SMTT(60) DEF Ready
  <2> QED
    BY <2>1, <2>2 DEF Shift, Begun
<1>3. v \in WordValues /\ Gives(k, v, ZeroOf(v), SignOf(v), 2)
  BY <1>0, <1>2, ShiftGives
<1>4. Emitted(job, was.pc) = (emitted \o Done) \o Exit(was.pc + 2)
  <2>1. Emitted(job, was.pc) = EmitShift(job) \o Exit(was.pc + 2)
    BY EmittedIs
  <2>2. EmitShift(job) = emitted \o Done
    BY DEF EmitShift, ShiftCode, ClearCarry
  <2> QED
    BY <2>1, <2>2
<1> HIDE DEF v, y, x
<1>5. PICK r \in Files, a \in WordValues : Block(ShiftCode(k), At(d, r, a)) /\ Shows(a, v)
  BY <1>1 DEF HasShifted
<1>6. d \in Machines /\ d.psw = was.psw /\ d.mem = was.mem /\ d.ts = was.ts /\ d.psw \in WordValues /\ d.P = Put(was, k, v).P
  BY <1>0, <1>3, PutIs, Started
<1> HIDE DEF d
<1>7. HasFlags(ShiftCode(k) \o flags, d, r, a, v)
  <2>1. 11 \in {3, 11, 15} /\ FALSE \in BOOLEAN
    OBVIOUS
  <2> QED
    BY <1>5, <1>6, <2>1, FlagsStored
<1>8. PICK p \in WordValues, r1 \in Files : /\ Block(ShiftCode(k) \o flags, At(PswSet(d, p), r1, a))
                                           /\ Bit(p, Z) = ZeroOf(v) /\ Bit(p, S) = SignOf(v)
  BY <1>7 DEF HasFlags, PswSet
<1> DEFINE e == PswSet(d, p)
<1>9. e \in Machines /\ e.P = d.P /\ e.psw = p /\ e.mem = d.mem /\ e.ts = d.ts
  BY <1>6, PswSetIs
<1> HIDE DEF e
<1>10. ClearsCarry(e, r1, a)
  BY <1>9, ClearCarryIs
<1>11. PICK p1 \in WordValues, q \in Files : /\ Leads(ClearCarry, job.junk, At(e, r1, a), At(PswSet(e, p1), q, a))
                                             /\ Bit(p1, Z) = Bit(e.psw, Z) /\ Bit(p1, S) = Bit(e.psw, S)
  BY <1>10 DEF ClearsCarry, PswSet
<1> DEFINE e1 == PswSet(e, p1)
<1>12. e1 \in Machines /\ e1.P = e.P /\ e1.psw = p1 /\ e1.mem = e.mem /\ e1.ts = e.ts
  BY <1>9, PswSetIs
<1> HIDE DEF e1
<1>13. Block(ShiftCode(k) \o flags, At(e, r1, a))
  BY <1>8 DEF e
<1>14. Block(emitted, At(e1, q, a))
  BY <1>11, <1>13, LeadsOn DEF Block, e1
<1> HIDE DEF emitted
<1>15. e1.P = Put(was, k, v).P /\ e1.mem = was.mem /\ e1.ts = was.ts
  BY <1>6, <1>9, <1>12
<1>16. Computes(emitted \o Done, k, v, Bit(e1.psw, Z), Bit(e1.psw, S))
  BY <1>12, <1>14, <1>15, DoneComputes
<1>17. Bit(e1.psw, Z) = ZeroOf(v) /\ Bit(e1.psw, S) = SignOf(v)
  BY <1>8, <1>9, <1>11, <1>12
<1>18. jit = Run(was, (emitted \o Done) \o Exit(was.pc + 2), job.junk)
  BY <1>4 DEF Both
<1>19. Computes(emitted \o Done, k, v, ZeroOf(v), SignOf(v))
  BY <1>16, <1>17
<1> QED
  BY <1>3, <1>18, <1>19, BothAgree

\* A shift by a constant: the flags come before the register.
ShiftName == CASE job.op = "SHL_I" -> "SHL" [] job.op = "SHR_I" -> "SHR" [] job.op = "SAR_I" -> "SAR"
Flagging(x) == IF x = 0 THEN <<<<"MOV", TRUE, 1, 1, R(0)>>>> \o EmitPswFlags(FALSE, 3)
               ELSE <<<<ShiftName, TRUE, 0, 0, I(x)>>>> \o EmitPswFlags(FALSE, 11)
HasOne(emitted, g, v) == \E p \in WordValues, r \in Files, a \in WordValues :
  /\ Leads(emitted, job.junk, At(was, g, job.junk), At(PswSet(was, p), r, a))
  /\ r[0] = v /\ Bit(p, Z) = ZeroOf(v) /\ Bit(p, S) = SignOf(v)
LEMMA OneFlagged ==
  ASSUME ArithmeticAssumption, Ready, NEW g \in Files, NEW v, NEW u, NEW r \in Files, r[0] = v,
         SetsFlags(u, job.junk, At(was, g, job.junk), was, r, v), NEW sub \in BOOLEAN, NEW mask \in {3, 11, 15}, NEW emitted,
         emitted = <<u>> \o EmitPswFlags(sub, mask)
  PROVE  HasOne(emitted, g, v)
<1>0. was.psw \in WordValues /\ FALSE \in BOOLEAN
  BY Started
<1>1. PICK a \in WordValues : Leads(<<u>>, job.junk, At(was, g, job.junk), At(was, r, a)) /\ Shows(a, v)
  BY DEF SetsFlags
<1>2. StoresFlags(EmitPswFlags(sub, mask), job.junk, was, r, a)
  BY <1>0, EmitPswFlagsIs
<1>3. PICK p \in WordValues, r1 \in Files :
          /\ Leads(EmitPswFlags(sub, mask), job.junk, At(was, r, a), At(PswSet(was, p), r1, a))
          /\ Bit(p, 0) = Bit(a, ArmZ) /\ Bit(p, 1) = Bit(a, ArmN) /\ r1[0] = r[0]
  BY <1>2 DEF StoresFlags, PswSet
<1>4. Leads(emitted, job.junk, At(was, g, job.junk), At(PswSet(was, p), r1, a))
  BY <1>1, <1>3, LeadsOn
<1>5. Bit(p, Z) = ZeroOf(v) /\ Bit(p, S) = SignOf(v)
  BY <1>1, <1>3 DEF Shows, ZeroOf, SignOf, Z, S
<1> QED
  BY <1>3, <1>4, <1>5 DEF HasOne

LEMMA FlaggingIs ==
  ASSUME ArithmeticAssumption, Ready, NEW name, name = ShiftName, name \in Shifts, NEW x \in 0 .. W - 1, NEW g \in Files
  PROVE  HasOne(Flagging(x), g, Shifted(name, g[0], x).v)
<1> DEFINE y == g[0]
           v == Shifted(name, y, x).v
           junk == job.junk
<1>0. y \in WordValues /\ junk \in WordValues /\ 0 \in 0..3 /\ 1 \in 0..3 /\ was.psw \in WordValues /\ was \in Machines
  BY Started DEF Files
<1>1. v \in WordValues /\ (x = 0 => v = y)
  BY <1>0, ShiftedWord
<1>2. 3 \in {3, 11, 15} /\ 11 \in {3, 11, 15} /\ FALSE \in BOOLEAN
  OBVIOUS
<1>4. CASE x = 0
  <2> DEFINE u == <<"MOV", TRUE, 1, 1, R(0)>>
             r == [g EXCEPT ![1] = y]
  <2>1. SetsFlags(u, junk, At(was, g, junk), was, r, v) /\ r \in Files
    <3>1. IsOperand(R(0), g, y)
      BY <1>0, OperandIs
    <3>2. Counted("MOV", y) /\ "MOV" \in DataNames
      BY DEF Counted, DataNames, Shifts
    <3> DEFINE b == ArmValue("MOV", g[1], y)
    <3>3. [g EXCEPT ![1] = b] \in Files /\ SetsFlags(<<"MOV", TRUE, 1, 1, R(0)>>, junk, At(was, g, junk), was, [g EXCEPT ![1] = b], b)
      BY <1>0, <3>1, <3>2, LeadsData
    <3>4. b = y
      BY DEF ArmValue, Shifts
    <3> HIDE DEF b, y
    <3> QED
      BY <1>1, <1>4, <3>3, <3>4
  <2>2. r[0] = v
    BY <1>1, <1>4 DEF Files
  <2>3. Flagging(x) = <<u>> \o EmitPswFlags(FALSE, 3)
    BY <1>4 DEF Flagging
  <2> DEFINE sub == FALSE
             mask == 3
             list == Flagging(x)
  <2>4. sub \in BOOLEAN /\ mask \in {3, 11, 15} /\ list = <<u>> \o EmitPswFlags(sub, mask)
    BY <2>3
  <2> HIDE DEF u, r, v, sub, mask, list
  <2>5. HasOne(list, g, v)
    BY <2>1, <2>2, <2>4, OneFlagged
  <2> QED
    BY <2>5 DEF list, v
<1>5. CASE x # 0
  <2> DEFINE o == I(x)
             u == <<name, TRUE, 0, 0, o>>
             r == [g EXCEPT ![0] = v]
  <2>0. x \in WordValues /\ x \in Int
    <3>1. \A q \in 0 .. W - 1 : q \in WordValues
      BY Widths, SMT DEF WordValues
    <3> QED
      BY <3>1
  <2>1. SetsFlags(u, junk, At(was, g, junk), was, r, v) /\ r \in Files
    <3>1. IsOperand(o, g, x)
      BY <1>0, <2>0, OperandIs
    <3>2. Counted(name, x) /\ name \in DataNames
      <4>1. x < W
        BY WordFacts
      <4> QED
        BY <4>1 DEF Counted, DataNames, Shifts
    <3> DEFINE b == ArmValue(name, g[0], x)
    <3>4. b = v
      <4>1. name # "ADD" /\ name # "SUB"
        BY DEF Shifts
      <4> HIDE DEF y
      <4>2. ArmValue(name, y, x) = Shifted(name, y, x).v
        BY <4>1 DEF ArmValue, Shifts
      <4> QED
        BY <4>2 DEF y
    <3> HIDE DEF o
    <3>3. [g EXCEPT ![0] = b] \in Files /\ SetsFlags(<<name, TRUE, 0, 0, o>>, junk, At(was, g, junk), was, [g EXCEPT ![0] = b], b)
      BY <1>0, <3>1, <3>2, LeadsData
    <3> HIDE DEF b, v
    <3> QED
      BY <3>3, <3>4
  <2>2. r[0] = v
    BY DEF Files
  <2>3. Flagging(x) = <<u>> \o EmitPswFlags(FALSE, 11)
    BY <1>5 DEF Flagging
  <2> DEFINE sub == FALSE
             mask == 11
             list == Flagging(x)
  <2>4. sub \in BOOLEAN /\ mask \in {3, 11, 15} /\ list = <<u>> \o EmitPswFlags(sub, mask)
    BY <2>3
  <2> HIDE DEF u, r, v, sub, mask, list
  <2>5. HasOne(list, g, v)
    BY <2>1, <2>2, <2>4, OneFlagged
  <2> QED
    BY <2>5 DEF list, v
<1> QED
  BY <1>4, <1>5

LEMMA ShiftImmediateAgrees ==
  ASSUME ArithmeticAssumption, Ready, Both, job.op \in Shifts_I
  PROVE  Agrees
<1> DEFINE k == job.r2
           name == ShiftName
           y == Entered.P[k]
           x == job.imm % W
           v == Shifted(name, y, x).v
           junk == job.junk
           g == [Scratch EXCEPT ![0] = y]
           emitted == <<LdrPreg(0, k)>> \o Flagging(x) \o <<StrPreg(0, k)>>
<1>0. k \in Regs /\ y \in WordValues /\ x \in 0 .. W - 1 /\ was \in Machines /\ name \in Shifts /\ Scratch \in Files
  <2>1. k \in Regs /\ y \in WordValues /\ job.imm \in Int
    BY OperandsAre DEF Ready, Shifts_I
  <2>2. x \in 0 .. W - 1
    BY <2>1, CountIn, Zenon
  <2>3. name \in Shifts
    BY DEF ShiftName, Shifts_I, Shifts
  <2> QED
    BY <2>1, <2>2, <2>3, Started
<1>1. c = SetPREG(Flagged(Begun(2), Shifted(name, y, x)), k, v)
  <2>1. c = Shift_I(Plain, job)
    BY Dispatched DEF Both
  <2>2. Plain.P = Entered.P
    BY PlainIs DEF Ready
  <2> QED
    BY <2>1, <2>2 DEF Shift_I, Begun, ShiftName
<1>2. v \in WordValues /\ Gives(k, v, ZeroOf(v), SignOf(v), 2)
  <2> HIDE DEF name
  <2> QED
    BY <1>0, <1>1, ShiftGives
<1>3. Emitted(job, was.pc) = (emitted \o Done) \o Exit(was.pc + 2)
  <2>1. Emitted(job, was.pc) = EmitShift_I(job) \o Exit(was.pc + 2)
    BY EmittedIs
  <2>2. EmitShift_I(job) = emitted \o Done
    BY Zenon DEF EmitShift_I, Flagging, ShiftName
  <2> QED
    BY <2>1, <2>2
<1>4. Block(<<LdrPreg(0, k)>>, At(was, g, junk))
  <2>1. Held(was, k) = y
    BY <1>0, HeldIs
  <2> QED
    BY <2>1, LeadsLdrPreg DEF Block
<1>5. g \in Files /\ g[0] = y
  BY <1>0 DEF Files
<1> HIDE DEF g
<1>6. HasOne(Flagging(x), g, v)
  <2>1. name = ShiftName
    OBVIOUS
  <2> HIDE DEF name, x, y
  <2>2. HasOne(Flagging(x), g, Shifted(name, g[0], x).v)
    BY <1>0, <1>5, <2>1, FlaggingIs
  <2> QED
    BY <1>5, <2>2
<1> HIDE DEF v, x, y, name
<1>7. PICK p \in WordValues, r \in Files, a \in WordValues :
        /\ Leads(Flagging(x), junk, At(was, g, junk), At(PswSet(was, p), r, a))
        /\ r[0] = v /\ Bit(p, Z) = ZeroOf(v) /\ Bit(p, S) = SignOf(v)
  BY <1>6 DEF HasOne
<1> DEFINE e == PswSet(was, p)
           d == Put(e, k, v)
<1>8. e \in Machines /\ e.P = was.P /\ e.psw = p /\ e.mem = was.mem /\ e.ts = was.ts
  BY <1>0, PswSetIs
<1>9. d.P = Put(was, k, v).P
  <2> HIDE DEF e
  <2> QED
    BY <1>0, <1>8 DEF Put, Machines
<1> HIDE DEF e
<1>10. d \in Machines /\ d.psw = p /\ d.mem = was.mem /\ d.ts = was.ts
  BY <1>0, <1>2, <1>8, PutIs
<1>11. Leads(<<StrPreg(0, k)>>, junk, At(e, r, a), At(d, r, a))
  BY <1>7, LeadsStrPreg
<1> HIDE DEF d
<1>12. Leads(Flagging(x), junk, At(was, g, junk), At(e, r, a))
  BY <1>7 DEF e
<1>13. Block(<<LdrPreg(0, k)>> \o Flagging(x), At(e, r, a))
  BY <1>4, <1>12, LeadsOn DEF Block
<1>14. Block(emitted, At(d, r, a))
  BY <1>11, <1>13, LeadsOn DEF Block
<1> HIDE DEF emitted
<1>15. Computes(emitted \o Done, k, v, Bit(d.psw, Z), Bit(d.psw, S))
  BY <1>9, <1>10, <1>14, DoneComputes
<1>16. jit = Run(was, (emitted \o Done) \o Exit(was.pc + 2), job.junk)
  BY <1>3 DEF Both
<1>17. Computes(emitted \o Done, k, v, ZeroOf(v), SignOf(v))
  BY <1>7, <1>10, <1>15
<1> QED
  BY <1>2, <1>16, <1>17, BothAgree

-----------------------------------------------------------------------------
(* Loads and stores: the address they compute.                             *)

LEMMA PlainData ==
  ASSUME ArithmeticAssumption, Ready, NEW d, NEW r \in Files, NEW a \in WordValues, NEW k \in 0..3,
         NEW name \in DataNames, NEW o, NEW x, IsOperand(o, r, x), Counted(name, x), NEW v, v = ArmValue(name, r[k], x)
  PROVE  /\ v \in WordValues /\ [r EXCEPT ![k] = v] \in Files
         /\ Leads(<<<<name, FALSE, k, k, o>>>>, job.junk, At(d, r, a), At(d, [r EXCEPT ![k] = v], a))
BY LeadsData

\* The block has the address in r1 and has kept r3.
Aimed(d, r, a, low, at) == \E q \in Files :
  /\ Leads(EmitAddress(job, low), job.junk, At(d, r, a), At(d, q, a)) /\ q[1] = at /\ q[3] = r[3]
LEMMA AddressIs ==
  ASSUME ArithmeticAssumption, Ready, job.op # "BCOND", NEW d, d.P = was.P, NEW r \in Files, NEW a \in WordValues,
         NEW align \in {1, 2, 4}
  PROVE  Aimed(d, r, a, align - 1, Address(Entered, job, align)) /\ Address(Entered, job, align) \in WordValues
<1> DEFINE y == Entered.P[job.r1]
           x == Extend(job.imm, W \div 2)
           v == (x + y) % Base
           low == align - 1
           at == Address(Entered, job, align)
           junk == job.junk
<1>0. /\ job.r1 \in Regs /\ y \in WordValues /\ x \in WordValues /\ x % Base = x /\ v \in WordValues /\ y + x = x + y
      /\ 1 \in 0..3 /\ 2 \in 0..3
  <2>1. job.r1 \in Regs /\ job.imm \in Int /\ y \in WordValues
    BY OperandsAre DEF Ready
  <2>2. x \in WordValues
    BY <2>1, ExtendIs
  <2>3. x \in Int /\ y \in Int /\ x % Base = x
    BY <2>1, <2>2, Wraps
  <2> HIDE DEF x, y
  <2>4. x + y \in Int /\ y + x = x + y
    BY <2>3
  <2>5. v \in WordValues
    BY <2>4, Unwraps
  <2> QED
    BY <2>1, <2>2, <2>3, <2>4, <2>5 DEF y, x
<1>1. at = v - (v % align)
  BY DEF Address
<1>2. Held(d, job.r1) = y
  BY <1>0, HeldIs DEF Held
<1> HIDE DEF at, v
<1>3. at \in WordValues
  <2>1. v \in Int /\ 0 <= v /\ v < Base /\ Base \in Nat
    BY <1>0, WordFacts, SMT DEF WordValues
  <2>2. v - (v % 1) = v /\ v - (v % 2) \in 0..v /\ v - (v % 4) \in 0..v
    BY <2>1, SMT
  <2>3. at \in 0..v
    BY <1>1, <2>1, <2>2
  <2> QED
    BY <2>1, <2>3, SMT DEF WordValues
<1> DEFINE r1 == [r EXCEPT ![1] = y]
           r2 == [r1 EXCEPT ![2] = x]
           r3 == [r2 EXCEPT ![1] = v]
           q == [r3 EXCEPT ![1] = at]
<1>4. r1 \in Files /\ r2 \in Files /\ r2[1] = y /\ r2[2] = x /\ r2[3] = r[3]
  BY <1>0 DEF Files
<1>5. Leads(<<LdrPreg(1, job.r1)>>, junk, At(d, r, a), At(d, r1, a))
  BY <1>2, LeadsLdrPreg
<1>6. Leads(<<Mov32(2, x)>>, junk, At(d, r1, a), At(d, r2, a))
  <2> HIDE DEF x, r1
  <2>1. Leads(<<Mov32(2, x)>>, junk, At(d, r1, a), At(d, [r1 EXCEPT ![2] = x % Base], a))
    BY LeadsMov32
  <2> QED
    BY <1>0, <2>1
<1> HIDE DEF r1, r2
<1> DEFINE w == <<"ADD", FALSE, 1, 1, R(2)>>
<1>7. r3 \in Files /\ Leads(<<w>>, junk, At(d, r2, a), At(d, r3, a))
  <2>1. IsOperand(R(2), r2, x)
    BY <1>0, <1>4, OperandIs
  <2>2. Counted("ADD", x) /\ "ADD" \in DataNames
    BY DEF Counted, DataNames, Shifts
  <2>3. v = ArmValue("ADD", r2[1], x)
    BY <1>0, <1>4 DEF ArmValue, Shifts, v
  <2> DEFINE name == "ADD"
             o == R(2)
             k == 1
  <2>4. IsOperand(o, r2, x) /\ Counted(name, x) /\ name \in DataNames /\ k \in 0..3 /\ v = ArmValue(name, r2[k], x)
    BY <1>0, <2>1, <2>2, <2>3
  <2> HIDE DEF name, o, k, x
  <2>5. [r2 EXCEPT ![k] = v] \in Files /\ Leads(<<<<name, FALSE, k, k, o>>>>, job.junk, At(d, r2, a), At(d, [r2 EXCEPT ![k] = v], a))
    <3>1. r2 \in Files
      BY <1>4
    <3> HIDE DEF y
    <3> QED
      BY <3>1, <2>4, PlainData, ZenonT(60)
  <2> QED
    BY <2>5 DEF name, o, k
<1>8. r3[1] = v /\ r3[3] = r[3]
  BY <1>4 DEF Files
<1> HIDE DEF r3, w
<1>9. Leads(<<LdrPreg(1, job.r1), Mov32(2, x), w>>, junk, At(d, r, a), At(d, r3, a))
  <2> HIDE DEF x
  <2> QED
    BY <1>5, <1>6, <1>7, LeadsThree
<1>10. CASE align = 1
  <2>1. EmitAddress(job, low) = <<LdrPreg(1, job.r1), Mov32(2, x), w>> \o <<>>
    BY <1>10 DEF EmitAddress, w
  <2>2. Leads(<<>>, junk, At(d, r3, a), At(d, r3, a))
    BY LeadsNone
  <2>3. Leads(EmitAddress(job, low), junk, At(d, r, a), At(d, r3, a))
    <3> HIDE DEF x
    <3> QED
      BY <1>9, <2>1, <2>2, LeadsOn
  <2>4. at = v
    BY <1>0, <1>1, <1>10, SMT DEF WordValues
  <2> QED
    BY <1>3, <1>7, <1>8, <2>3, <2>4 DEF Aimed, at
<1>11. CASE align # 1
  <2> DEFINE u == <<"BIC", FALSE, 1, 1, I(low)>>
  <2>1. EmitAddress(job, low) = <<LdrPreg(1, job.r1), Mov32(2, x), w>> \o <<u>>
    BY <1>11 DEF EmitAddress, w
  <2>2. low \in WordValues /\ low \in Int
    BY NibblePlaces, SMT
  <2>3. And(v, Not(low)) = at
    <3>1. align = 2 \/ align = 4
      BY <1>11
    <3>2. And(v, Not(1)) = v - (v % 2) /\ And(v, Not(3)) = v - (v % 4)
      BY <1>0, AlignedIs
    <3>3. 2 - 1 = 1 /\ 4 - 1 = 3
      OBVIOUS
    <3> QED
      BY <1>1, <3>1, <3>2, <3>3
  <2> HIDE DEF low
  <2>4. IsOperand(I(low), r3, low)
    BY <1>0, <1>7, <2>2, OperandIs
  <2>5. Counted("BIC", low) /\ "BIC" \in DataNames
    BY DEF Counted, DataNames, Shifts
  <2>6. at = ArmValue("BIC", r3[1], low)
    BY <1>8, <2>3 DEF ArmValue, Shifts
  <2> DEFINE name == "BIC"
             o == I(low)
             k == 1
  <2>7. IsOperand(o, r3, low) /\ Counted(name, low) /\ name \in DataNames /\ k \in 0..3 /\ at = ArmValue(name, r3[k], low)
    BY <1>0, <2>4, <2>5, <2>6
  <2> HIDE DEF name, o, k, x
  <2>8. [r3 EXCEPT ![k] = at] \in Files /\ Leads(<<<<name, FALSE, k, k, o>>>>, job.junk, At(d, r3, a), At(d, [r3 EXCEPT ![k] = at], a))
    BY <1>7, <2>7, PlainData, ZenonT(60)
  <2>9. q \in Files /\ Leads(<<u>>, junk, At(d, r3, a), At(d, q, a))
    BY <2>8 DEF name, o, k
  <2>10. q[1] = at /\ q[3] = r[3]
    BY <1>7, <1>8 DEF Files
  <2> HIDE DEF q, u
  <2>11. Leads(EmitAddress(job, low), junk, At(d, r, a), At(d, q, a))
    BY <1>9, <2>1, <2>9, LeadsOn
  <2> QED
    BY <1>3, <2>9, <2>10, <2>11 DEF Aimed, at, low
<1> QED
  BY <1>10, <1>11

\* A call of the bus: the value it reads is in r0, and r3 holds where the call
\* leaves the registers alone.
LEMMA NarrowIs ==
  ASSUME ArithmeticAssumption, NEW m \in Contents, NEW a \in Int
  PROVE  /\ Read8(m, a) \in Int /\ Extend(Read8(m, a), W \div 4) \in WordValues
         /\ Read16(m, a) \in 0 .. Half - 1 /\ Extend(Read16(m, a), W \div 2) \in WordValues
         /\ Extend(Read16(m, a), W \div 2) % Half = Read16(m, a)
         /\ (Extend(Read16(m, a), W \div 2) * Half) % Base = Read16(m, a) * Half
<1> DEFINE p == a % MemSize
           q == (a + 1) % MemSize
           x == m[p]
           y == m[q]
           z == x + (Byte * y)
<1>1. p \in 0 .. MemSize - 1 /\ q \in 0 .. MemSize - 1
  BY PlacesApart
<1> HIDE DEF p, q
<1>2. x \in Bytes /\ y \in Bytes
  BY <1>1 DEF Contents
<1>3. Read8(m, a) = x /\ Read16(m, a) = z
  BY DEF Read8, Read16, p, q
<1> HIDE DEF x, y
<1>4. z \in 0 .. Half - 1 /\ x \in Int
  BY <1>2, Widths, SMT DEF Bytes
<1> HIDE DEF z
<1>5. z \in Int
  BY <1>4
<1>6. Extend(z, W \div 2) \in WordValues
  BY <1>5, ExtendIs
<1>7. Extend(x, W \div 4) \in WordValues
  <2> DEFINE j == W \div 4
             k == 2^j
             h == 2^(j - 1)
             v == x % k
             t == IF v >= h THEN v - k ELSE v
  <2>1. j \in 0..W
    BY Widths, SMT
  <2>2. k \in Nat /\ k > 0
    BY <2>1, WidthSplits
  <2>3. Extend(x, j) = t % Base
    BY DEF Extend
  <2> HIDE DEF k, h
  <2>4. v \in Int
    BY <1>4, <2>2, SMT
  <2>5. t \in Int
    BY <2>2, <2>4
  <2> HIDE DEF t
  <2> QED
    BY <2>3, <2>5, Unwraps
<1>8. Extend(z, W \div 2) % Half = z /\ (Extend(z, W \div 2) * Half) % Base = z * Half
  <2> DEFINE h == 2^((W \div 2) - 1)
             e == Extend(z, W \div 2)
  <2>1. z % Half = z
    BY <1>4, WordFacts, SMT
  <2>2. e = (IF z >= h THEN z - Half ELSE z) % Base
    BY <2>1 DEF Extend, Half
  <2> HIDE DEF h
  <2>3. \/ e = (z - Half) % Base
        \/ e = z % Base
    BY <2>2
  <2> HIDE DEF e
  <2>4. ASSUME e = z % Base PROVE e % Half = z /\ (e * Half) % Base = z * Half
    <3>1. e = z /\ (z * Half) \in WordValues
      <4>1. 0 \in 0 .. Half - 1
        BY WordFacts, SMT
      <4>2. z \in WordValues /\ z * Half \in WordValues
        BY <1>4, <4>1, HalvesJoin
      <4> QED
        BY <2>4, <4>2, Wraps
    <3> QED
      BY <2>1, <3>1, Wraps
  <2>5. ASSUME e = (z - Half) % Base PROVE e % Half = z /\ (e * Half) % Base = z * Half
    <3>1. e = (z - Half) + Base /\ z \in Int /\ 0 <= z /\ z < Half
      BY <1>4, <2>5, Widths, SMT
    <3>2. e % Half = z /\ (e * Half) % Base = z * Half
      BY <3>1, Widths, SMT
    <3> QED
      BY <3>2
  <2> QED
    BY <2>3, <2>4, <2>5 DEF e
<1> QED
  BY <1>3, <1>4, <1>6, <1>7, <1>8

-----------------------------------------------------------------------------
(* Loads and stores: the calls of jit_mem_r8s, r16s, w8 and w16.           *)

\* What a call reads, and where it leads.
Reading(f, m, at) == IF f = "r8s" THEN Extend(Read8(m, at), W \div 4) ELSE Extend(Read16(m, at), W \div 2)
Reads(f, r, a) == \E q \in Files :
  /\ Leads(<<Bl(f)>>, job.junk, At(was, r, a), At(was, q, job.junk))
  /\ q[0] = Reading(f, was.mem, r[1]) /\ q[3] = IF job.junk = 0 THEN r[3] ELSE job.junk
LEMMA CallReads ==
  ASSUME ArithmeticAssumption, Ready, NEW f \in {"r8s", "r16s"}, NEW r \in Files, NEW a
  PROVE  Reads(f, r, a) /\ Reading(f, was.mem, r[1]) \in WordValues
<1> DEFINE junk == job.junk
           v == Reading(f, was.mem, r[1])
           q == Clobbered(r, v, junk)
<1>0. was \in Machines /\ junk \in WordValues /\ was.mem \in Contents /\ r[1] \in Int
  <2>1. r[1] \in WordValues
    BY DEF Files
  <2>2. r[1] \in Int
    BY <2>1, Wraps
  <2>3. was \in Machines /\ was.mem \in Contents
    BY Started DEF Machines, Contents, Bytes
  <2> QED
    BY <2>2, <2>3, Started
<1>1. v \in WordValues
  BY <1>0, NarrowIs DEF Reading
<1>2. v = Answer(was, f, r, junk)
  BY DEF Answer, Reading
<1>3. Called(was, f, r) = was
  <2>1. Called(was, f, r) = [was EXCEPT !.mem = was.mem]
    BY DEF Called
  <2> QED
    BY <1>0, <2>1 DEF Machines
<1> HIDE DEF v
<1>4. q \in Files /\ q[0] = v /\ q[3] = IF junk = 0 THEN r[3] ELSE junk
  BY <1>0, <1>1 DEF Clobbered, Files
<1> HIDE DEF q
<1>5. Leads(<<Bl(f)>>, junk, At(was, r, a), At(was, q, junk))
  <2>1. Leads(<<Bl(f)>>, junk, At(was, r, a), At(Called(was, f, r), Clobbered(r, Answer(was, f, r, junk), junk), junk))
    BY LeadsBl
  <2> QED
    BY <1>2, <1>3, <2>1 DEF q
<1> QED
  BY <1>1, <1>4, <1>5 DEF Reads, v

\* The machine with another memory, and where a call that writes leads.
Stored(m) == [was EXCEPT !.mem = m]
LEMMA StoredIs ==
  ASSUME Ready, NEW m \in Contents
  PROVE  Stored(m) \in Machines /\ Stored(m).P = was.P /\ Stored(m).psw = was.psw /\ Stored(m).mem = m
BY MemIs DEF Ready, Stored, Contents, Bytes

Writing(f, m, at, v) == IF f = "w8" THEN Write8(m, at, v) ELSE Write16(m, at, v)
Writes(f, m, r, a) == \E q \in Files :
  Leads(<<Bl(f)>>, job.junk, At(Stored(m), r, a), At(Stored(Writing(f, m, r[1], r[2])), q, job.junk))
LEMMA CallWrites ==
  ASSUME ArithmeticAssumption, Ready, NEW f \in {"w8", "w16"}, NEW m \in Contents, NEW r \in Files, NEW a
  PROVE  Writes(f, m, r, a) /\ Writing(f, m, r[1], r[2]) \in Contents
<1> DEFINE junk == job.junk
           m2 == Writing(f, m, r[1], r[2])
           q == Clobbered(r, junk, junk)
<1>0. junk \in WordValues /\ r[1] \in Int /\ r[2] \in Int
  <2>1. r[1] \in WordValues /\ r[2] \in WordValues
    BY DEF Files
  <2> QED
    BY <2>1, Wraps, Started
<1>1. m2 \in Contents
  <2> DEFINE x == r[1] % MemSize
             y == (r[1] + 1) % MemSize
             b == r[2] % Byte
             d == (r[2] \div Byte) % Byte
  <2>1. x \in 0 .. MemSize - 1 /\ y \in 0 .. MemSize - 1
    BY <1>0, PlacesApart
  <2>2. b \in Bytes /\ d \in Bytes
    BY <1>0, Widths, SMT DEF Bytes
  <2>3. m2 = IF f = "w8" THEN [m EXCEPT ![x] = b] ELSE [m EXCEPT ![x] = b, ![y] = d]
    BY DEF Writing, Write8, Write16
  <2> HIDE DEF x, y, b, d, m2
  <2> QED
    BY <2>1, <2>2, <2>3 DEF Contents
<1>2. Answer(Stored(m), f, r, junk) = junk
  BY DEF Answer
<1>3. Called(Stored(m), f, r) = Stored(m2)
  <2>1. Stored(m).mem = m
    BY StoredIs
  <2>2. Called(Stored(m), f, r) = [Stored(m) EXCEPT !.mem = m2]
    BY <2>1 DEF Called, Writing
  <2> HIDE DEF m2
  <2>3. [Stored(m) EXCEPT !.mem = m2] = [was EXCEPT !.mem = m2]
    BY DEF Stored
  <2> QED
    BY <2>2, <2>3 DEF Stored
<1> HIDE DEF m2
<1>4. q \in Files
  BY <1>0 DEF Clobbered, Files
<1>5. Leads(<<Bl(f)>>, junk, At(Stored(m), r, a), At(Stored(m2), q, junk))
  <2>1. Leads(<<Bl(f)>>, junk, At(Stored(m), r, a),
              At(Called(Stored(m), f, r), Clobbered(r, Answer(Stored(m), f, r, junk), junk), junk))
    BY LeadsBl
  <2> QED
    BY <1>2, <1>3, <2>1
<1> HIDE DEF q
<1> QED
  BY <1>1, <1>4, <1>5 DEF Writes, m2

\* What a block and the interpreter leave, but for the clocks.
Matches(regs) ==
  /\ regs => Kept(jit.P) = Kept(c.P)
  /\ jit.mem = c.mem /\ jit.pc = c.pc
  /\ Bit(jit.psw, Z) = Bit(c.psw, Z) /\ Bit(jit.psw, S) = Bit(c.psw, S)

LEMMA BlockLeaves ==
  ASSUME ArithmeticAssumption, Ready, NEW emitted, NEW d \in Machines, NEW j \in Int, NEW r \in Files, NEW a,
         Block(emitted, At(Tick(d, j), r, a)), jit = Run(was, emitted \o Exit(was.pc + 4), job.junk)
  PROVE  jit.P = d.P /\ jit.mem = d.mem /\ jit.psw = d.psw /\ jit.pc = was.pc + 4
<1> DEFINE e == Tick(d, j)
<1>1. e \in Machines /\ e.P = d.P /\ e.psw = d.psw /\ e.mem = d.mem
  BY TickIs
<1> HIDE DEF e
<1>2. jit = [e EXCEPT !.pc = (was.pc + 4) % Base]
  BY BlockEnds DEF e
<1>3. (was.pc + 4) % Base = was.pc + 4
  BY Widths, SMT DEF Ready
<1> QED
  BY <1>1, <1>2, <1>3 DEF Machines

LEMMA FetchedFour ==
  ASSUME ArithmeticAssumption, Ready, NEW j \in Int
  PROVE  LET e == Tick(Next4(Entered), j)
         IN e \in Machines /\ e.P = Entered.P /\ e.psw = was.psw /\ e.mem = was.mem /\ e.pc = was.pc + 4
<1>1. Entered \in Machines /\ Entered.psw = was.psw /\ Entered.mem = was.mem /\ Entered.pc = was.pc
  BY EnteredIs DEF Ready
<1> DEFINE g == Next4(Entered)
<1>2. g \in Machines /\ g.P = Entered.P /\ g.psw = was.psw /\ g.mem = was.mem
  BY <1>1, Next4Is
<1>3. g.pc = was.pc + 4
  BY <1>1 DEF Next4, Machines
<1> HIDE DEF g
<1> QED
  BY <1>2, <1>3, TickIs DEF g

LEMMA LoadMatches ==
  ASSUME ArithmeticAssumption, Ready, NEW emitted, NEW k \in Regs, NEW v \in WordValues, NEW w \in WordValues, NEW j \in Int,
         NEW r \in Files, NEW a, Block(emitted, At(Tick(Put(was, k, v), j), r, a)),
         jit = Run(was, emitted \o Exit(was.pc + 4), job.junk),
         NEW t \in Int, c = After(SetPREG(Tick(Next4(Entered), t), k, w), "LD")
  PROVE  Matches(v = w) /\ Kept(jit.P) = Kept(Put(was, k, v).P) /\ Kept(c.P) = Kept(Put(was, k, w).P)
<1> DEFINE d == Put(was, k, v)
           e == Tick(Next4(Entered), t)
           g == SetPREG(e, k, w)
<1>0. was \in Machines
  BY Started
<1>1. d \in Machines /\ d.psw = was.psw /\ d.mem = was.mem
  BY <1>0, PutIs
<1>2. e \in Machines /\ e.P = Entered.P /\ e.psw = was.psw /\ e.mem = was.mem /\ e.pc = was.pc + 4
  BY FetchedFour
<1> HIDE DEF d, e
<1>3. g \in Machines /\ Kept(g.P) = Kept(Put(was, k, w).P) /\ g.mem = e.mem /\ g.pc = e.pc /\ g.psw = e.psw
  BY <1>2, KeptPut
<1>4. jit.P = d.P /\ jit.mem = d.mem /\ jit.psw = d.psw /\ jit.pc = was.pc + 4
  BY <1>1, BlockLeaves DEF d
<1>5. c = After(g, "LD") /\ "LD" \in LastOps
  BY DEF e, LastOps
<1> HIDE DEF g
<1>6. c.P = g.P /\ c.psw = g.psw /\ c.mem = g.mem /\ c.pc = g.pc
  BY <1>3, <1>5, AfterIs
<1> QED
  BY <1>1, <1>2, <1>3, <1>4, <1>6 DEF Matches, d

LEMMA StoreMatches ==
  ASSUME ArithmeticAssumption, Ready, NEW emitted, NEW m \in Contents, NEW j \in Int, NEW r \in Files, NEW a,
         Block(emitted, At(Tick(Stored(m), j), r, a)),
         jit = Run(was, emitted \o Exit(was.pc + 4), job.junk),
         NEW t \in Int, c = After([Tick(Next4(Entered), t) EXCEPT !.mem = m], "ST")
  PROVE  Matches(TRUE)
<1> DEFINE d == Stored(m)
           e == Tick(Next4(Entered), t)
           g == [e EXCEPT !.mem = m]
<1>1. d \in Machines /\ d.psw = was.psw /\ d.mem = m /\ d.P = was.P
  BY StoredIs
<1>2. e \in Machines /\ e.P = Entered.P /\ e.psw = was.psw /\ e.mem = was.mem /\ e.pc = was.pc + 4
  BY FetchedFour
<1> HIDE DEF d, e
<1>3. g \in Machines /\ g.P = e.P /\ g.mem = m /\ g.pc = e.pc /\ g.psw = e.psw
  BY <1>2, MemIs DEF Contents, Bytes
<1>4. jit.P = d.P /\ jit.mem = d.mem /\ jit.psw = d.psw /\ jit.pc = was.pc + 4
  BY <1>1, BlockLeaves DEF d
<1>5. c = After(g, "ST") /\ "ST" \in LastOps
  BY DEF e, LastOps
<1> HIDE DEF g
<1>6. c.P = g.P /\ c.psw = g.psw /\ c.mem = g.mem /\ c.pc = g.pc
  BY <1>3, <1>5, AfterIs
<1> QED
  BY <1>1, <1>2, <1>3, <1>4, <1>6, KeptSame DEF Matches

-----------------------------------------------------------------------------
(* Loads and stores of a byte and of a halfword.                           *)

LEMMA ClocksInt ==
  ASSUME NEW near \in Int, NEW far \in Int
  PROVE  1 + LoadClocks(Entered, near, far) \in Int
BY DEF LoadClocks

LEMMA NarrowLoadMatches ==
  ASSUME ArithmeticAssumption, Ready, Both, job.op \in {"LD_B", "LD_H"}
  PROVE  Matches(TRUE)
<1> DEFINE f == IF job.op = "LD_B" THEN "r8s" ELSE "r16s"
           align == IF job.op = "LD_B" THEN 1 ELSE 2
           at == Address(Entered, job, align)
           k == job.r2
           junk == job.junk
           low == align - 1
           v == Reading(f, was.mem, at)
           t == 1 + LoadClocks(Entered, 1, 2)
           tail == <<Bl(f), StrPreg(0, k), AddClock(3)>>
           emitted == EmitAddress(job, low) \o tail
<1>0. k \in Regs /\ Scratch \in Files /\ junk \in WordValues /\ was \in Machines /\ t \in Int /\ Entered.mem = was.mem
  BY Started, ClocksInt, EnteredIs
<1>1. c = After(SetPREG(Tick(Next4(Entered), t), k, v), "LD")
  <2>1. c = LoadNarrow(Entered, job)
    BY DispatchedToo DEF Both
  <2> QED
    BY <1>0, <2>1 DEF LoadNarrow, Reading
<1>2. jit = Run(was, emitted \o Exit(was.pc + 4), junk)
  <2>1. Emitted(job, was.pc) = EmitLoad(job) \o Exit(was.pc + 4)
    BY EmittedIs DEF Loads
  <2>2. EmitLoad(job) = emitted
    <3>1. CASE job.op = "LD_B"
      <4>1. low = 0 /\ f = "r8s"
        BY <3>1
      <4> HIDE DEF low, f
      <4> QED
        BY <3>1, <4>1 DEF EmitLoad
    <3>2. CASE job.op = "LD_H"
      <4>1. low = 1 /\ f = "r16s"
        BY <3>2
      <4> HIDE DEF low, f
      <4> QED
        BY <3>2, <4>1 DEF EmitLoad
    <3> QED
      BY <3>1, <3>2
  <2> QED
    BY <2>1, <2>2 DEF Both
<1>3. job.op # "BCOND" /\ f \in {"r8s", "r16s"} /\ align \in {1, 2, 4}
  OBVIOUS
<1> HIDE DEF t, align, f
<1>4. Aimed(was, Scratch, junk, low, at)
  BY <1>0, <1>3, AddressIs
<1> HIDE DEF low, at
<1>5. PICK r \in Files : /\ Leads(EmitAddress(job, low), junk, At(was, Scratch, junk), At(was, r, junk)) /\ r[1] = at
  BY <1>4 DEF Aimed
<1>6. Reads(f, r, junk) /\ Reading(f, was.mem, r[1]) \in WordValues
  BY <1>3, CallReads
<1>7. PICK q \in Files : Leads(<<Bl(f)>>, junk, At(was, r, junk), At(was, q, junk)) /\ q[0] = v
  BY <1>5, <1>6 DEF Reads
<1>8. v \in WordValues
  BY <1>5, <1>6
<1> HIDE DEF v
<1>9. Leads(<<StrPreg(0, k)>>, junk, At(was, q, junk), At(Put(was, k, v), q, junk))
  BY <1>7, LeadsStrPreg
<1>10. Leads(<<AddClock(3)>>, junk, At(Put(was, k, v), q, junk), At(Tick(Put(was, k, v), 3), q, junk))
  BY LeadsClock
<1>11. Leads(tail, junk, At(was, r, junk), At(Tick(Put(was, k, v), 3), q, junk))
  BY <1>7, <1>9, <1>10, LeadsThree
<1> HIDE DEF tail
<1>12. Block(emitted, At(Tick(Put(was, k, v), 3), q, junk))
  BY <1>5, <1>11, LeadsOn DEF Block
<1> HIDE DEF emitted
<1>13. Matches(v = v)
  <2> DEFINE j == 3
  <2>1. j \in Int /\ Block(emitted, At(Tick(Put(was, k, v), j), q, junk))
    BY <1>12
  <2> HIDE DEF j
  <2> QED
    BY <1>0, <1>1, <1>2, <1>8, <2>1, LoadMatches
<1> QED
  BY <1>13 DEF Matches

LEMMA NarrowStoreMatches ==
  ASSUME ArithmeticAssumption, Ready, Both, job.op \in {"ST_B", "ST_H"}
  PROVE  Matches(TRUE)
<1> DEFINE f == IF job.op = "ST_B" THEN "w8" ELSE "w16"
           align == IF job.op = "ST_B" THEN 1 ELSE 2
           at == Address(Entered, job, align)
           k == job.r2
           y == Entered.P[k]
           junk == job.junk
           low == align - 1
           m == Writing(f, was.mem, at, y)
           t == IF Entered.lastop = "ST" THEN 2 ELSE 1
           tail == <<LdrPreg(2, k), Bl(f), AddClock(2)>>
           emitted == EmitAddress(job, low) \o tail
<1>0. /\ k \in Regs /\ Scratch \in Files /\ junk \in WordValues /\ was \in Machines /\ t \in Int /\ Entered.mem = was.mem
      /\ was.mem \in Contents
  BY Started, EnteredIs DEF Machines, Contents, Bytes
<1>1. c = After([Tick(Next4(Entered), t) EXCEPT !.mem = m], "ST")
  <2>1. c = StoreNarrow(Entered, job)
    BY DispatchedToo DEF Both
  <2> QED
    BY <1>0, <2>1 DEF StoreNarrow, Writing
<1>2. jit = Run(was, emitted \o Exit(was.pc + 4), junk)
  <2>1. Emitted(job, was.pc) = EmitStore(job) \o Exit(was.pc + 4)
    BY EmittedIs DEF Stores
  <2>2. EmitStore(job) = emitted
    <3>1. CASE job.op = "ST_B"
      <4>1. low = 0 /\ f = "w8"
        BY <3>1
      <4> HIDE DEF low, f
      <4> QED
        BY <3>1, <4>1 DEF EmitStore
    <3>2. CASE job.op = "ST_H"
      <4>1. low = 1 /\ f = "w16"
        BY <3>2
      <4> HIDE DEF low, f
      <4> QED
        BY <3>2, <4>1 DEF EmitStore
    <3> QED
      BY <3>1, <3>2
  <2> QED
    BY <2>1, <2>2 DEF Both
<1>3. job.op # "BCOND" /\ f \in {"w8", "w16"} /\ align \in {1, 2, 4}
  OBVIOUS
<1> HIDE DEF t, align, f
<1>4. Aimed(was, Scratch, junk, low, at)
  BY <1>0, <1>3, AddressIs
<1> HIDE DEF low, at
<1>5. PICK r \in Files : /\ Leads(EmitAddress(job, low), junk, At(was, Scratch, junk), At(was, r, junk)) /\ r[1] = at
  BY <1>4 DEF Aimed
<1> DEFINE g == [r EXCEPT ![2] = y]
<1>6. Held(was, k) = y /\ y \in WordValues
  BY <1>0, HeldIs
<1>7. g \in Files /\ g[1] = at /\ g[2] = y
  BY <1>5, <1>6 DEF Files
<1>8. Leads(<<LdrPreg(2, k)>>, junk, At(was, r, junk), At(was, g, junk))
  BY <1>6, LeadsLdrPreg
<1> HIDE DEF g
<1>9. Writes(f, was.mem, g, junk) /\ Writing(f, was.mem, g[1], g[2]) \in Contents
  BY <1>0, <1>3, <1>7, CallWrites
<1>10. Stored(was.mem) = was
  BY <1>0 DEF Stored, Machines
<1>11. PICK q \in Files : Leads(<<Bl(f)>>, junk, At(was, g, junk), At(Stored(m), q, junk))
  BY <1>7, <1>9, <1>10 DEF Writes
<1>12. m \in Contents
  BY <1>7, <1>9
<1> HIDE DEF m
<1>13. Leads(<<AddClock(2)>>, junk, At(Stored(m), q, junk), At(Tick(Stored(m), 2), q, junk))
  BY LeadsClock
<1>14. Leads(tail, junk, At(was, r, junk), At(Tick(Stored(m), 2), q, junk))
  BY <1>8, <1>11, <1>13, LeadsThree
<1> HIDE DEF tail
<1>15. Block(emitted, At(Tick(Stored(m), 2), q, junk))
  BY <1>5, <1>14, LeadsOn DEF Block
<1> HIDE DEF emitted
<1> DEFINE j == 2
<1>16. j \in Int /\ Block(emitted, At(Tick(Stored(m), j), q, junk))
  BY <1>15
<1> HIDE DEF j
<1> QED
  BY <1>0, <1>1, <1>2, <1>12, <1>16, StoreMatches

-----------------------------------------------------------------------------
(* The load of a word, by two calls.                                       *)

LEMMA JoinedSix ==
  ASSUME NEW a, NEW b, NEW d, NEW e, NEW f, NEW g
  PROVE  <<a>> \o <<b, d, e, f, g>> = <<a, b, d, e, f, g>>
<1> DEFINE A == {a, b, d, e, f, g}
           z == <<a>> \o <<b, d, e, f, g>>
<1>1. <<a>> \in Seq(A) /\ <<b, d, e, f, g>> \in Seq(A) /\ Len(<<a>>) = 1 /\ Len(<<b, d, e, f, g>>) = 5
  OBVIOUS
<1>2. z \in Seq(A) /\ Len(z) = 6 /\ z[1] = a /\ z[2] = b /\ z[3] = d /\ z[4] = e /\ z[5] = f /\ z[6] = g
  BY <1>1
<1> HIDE DEF z
<1>3. z = <<a, b, d, e, f, g>>
  BY <1>2
<1> QED
  BY <1>3 DEF z

LEMMA LeadsSix ==
  ASSUME NEW j, NEW u, NEW v, NEW x, NEW y, NEW z, NEW w, NEW s, NEW s1, NEW s2, NEW s3, NEW s4, NEW s5, NEW s6,
         Leads(<<u>>, j, s, s1), Leads(<<v>>, j, s1, s2), Leads(<<x>>, j, s2, s3), Leads(<<y>>, j, s3, s4),
         Leads(<<z>>, j, s4, s5), Leads(<<w>>, j, s5, s6)
  PROVE  Leads(<<u, v, x, y, z, w>>, j, s, s6)
<1>1. Leads(<<v, x, y, z, w>>, j, s1, s6)
  BY LeadsFive
<1>2. Leads(<<u>> \o <<v, x, y, z, w>>, j, s, s6)
  BY <1>1, LeadsOn
<1>3. <<u>> \o <<v, x, y, z, w>> = <<u, v, x, y, z, w>>
  BY JoinedSix, ZenonT(60)
<1> QED
  BY <1>2, <1>3

\* The second halfword of an aligned word follows the first without a wrap.
LEMMA NextHalfword ==
  ASSUME ArithmeticAssumption, Ready, job.op # "BCOND"
  PROVE  LET at == Address(Entered, job, 4) IN at \in WordValues => (at + 2) % Base = at + 2 /\ at + 2 \in WordValues
<1> DEFINE v == (Extend(job.imm, W \div 2) + Entered.P[job.r1]) % Base
           at == Address(Entered, job, 4)
<1>1. SUFFICES ASSUME at \in WordValues PROVE (at + 2) % Base = at + 2 /\ at + 2 \in WordValues
  OBVIOUS
<1>2. at = v - (v % 4)
  BY DEF Address
<1> HIDE DEF at
<1>3. v \in Int /\ at \in Int
  <2>1. at \in Int
    BY <1>1, Wraps
  <2>2. v \in Int
    <3>1. job.imm \in Int /\ Entered.P[job.r1] \in WordValues
      BY OperandsAre DEF Ready
    <3>2. Extend(job.imm, W \div 2) \in WordValues
      BY <3>1, ExtendIs
    <3>3. Extend(job.imm, W \div 2) \in Int /\ Entered.P[job.r1] \in Int
      BY <3>1, <3>2, Wraps
    <3>4. Extend(job.imm, W \div 2) + Entered.P[job.r1] \in Int
      BY <3>3
    <3> QED
      BY <3>4, Unwraps, Wraps
  <2> QED
    BY <2>1, <2>2
<1> HIDE DEF v
<1>4. at % 4 = 0
  BY <1>2, <1>3, SMT
<1> QED
  BY <1>1, <1>3, <1>4, Widths, SMT DEF WordValues

LEMMA KeptEach ==
  ASSUME NEW p, NEW q, Kept(p) = Kept(q), NEW r \in Regs \ {0}
  PROVE  p[r] = q[r]
BY DEF Kept

\* A number of two halves, less its remainder, is its upper half: for the
\* widths there are, and then for the width of the machine.
LEMMA UpperPart ==
  ASSUME NEW K \in Int, K = 16 \/ K = 64 \/ K = 256 \/ K = 65536,
         NEW u \in Int, NEW l \in Int, 0 <= l, l < K
  PROVE  ((u * K) + l) - (((u * K) + l) % K) = u * K
BY SMTT(30)

LEMMA UpperHalf ==
  ASSUME ArithmeticAssumption,
         NEW low \in 0 .. Half - 1, NEW high \in 0 .. Half - 1
  PROVE  ((high * Half) + low) - (((high * Half) + low) % Half) = high * Half
<1>1. Half = 16 \/ Half = 64 \/ Half = 256 \/ Half = 65536
  BY Widths, SMTT(30)
<1>2. Half \in Int
  BY <1>1, SMTT(30)
<1>3. high \in Int /\ low \in Int /\ 0 <= low /\ low < Half
  BY <1>2, SMTT(30)
<1> QED
  BY <1>1, <1>2, <1>3, UpperPart, SMTT(30)

LEMMA WordLoadMatches ==
  ASSUME ArithmeticAssumption, Ready, Both, job.op = "LD_W"
  PROVE  /\ Matches(job.junk = 0)
         /\ job.junk # 0 => \A r \in Regs \ {0} : jit.P[r] = LeftIn(r)
<1> DEFINE at == Address(Entered, job, 4)
           k == job.r2
           junk == job.junk
           m == was.mem
           h == Read16(m, at)
           g == Read16(m, at + 2)
           e1 == Extend(h, W \div 2)
           e2 == Extend(g, W \div 2)
           w == Read32(m, at)
           t == 1 + LoadClocks(Entered, 3, 4)
           aim == EmitAddress(job, 3)
           u1 == <<"UXTH", FALSE, 3, 3, R(0)>>
           u2 == <<"ADD", FALSE, 1, 1, I(2)>>
           u3 == <<"SHL", FALSE, 0, 0, I(W \div 2)>>
           u4 == <<"ORR", FALSE, 0, 0, R(3)>>
           mid == <<Bl("r16s"), u1>>
           tail == <<u2, Bl("r16s"), u3, u4, StrPreg(0, k), AddClock(4)>>
           emitted == ((aim \o mid) \o aim) \o tail
<1>0. /\ k \in Regs /\ Scratch \in Files /\ junk \in WordValues /\ was \in Machines /\ t \in Int /\ Entered.mem = was.mem
      /\ m \in Contents /\ job.op # "BCOND" /\ 0 \in 0..3 /\ 1 \in 0..3 /\ 3 \in 0..3 /\ "r16s" \in {"r8s", "r16s"}
  <2>1. k \in Regs /\ Scratch \in Files /\ junk \in WordValues /\ was \in Machines
    BY Started
  <2>2. t \in Int
    BY ClocksInt
  <2>3. Entered.mem = was.mem /\ m \in Contents
    BY <2>1, EnteredIs DEF Machines, Contents, Bytes
  <2> QED
    BY <2>1, <2>2, <2>3
<1>1. c = After(SetPREG(Tick(Next4(Entered), t), k, w), "LD")
  <2>1. c = LD_W(Entered, job)
    BY DispatchedToo DEF Both
  <2> QED
    BY <1>0, <2>1 DEF LD_W
<1>2. jit = Run(was, emitted \o Exit(was.pc + 4), junk)
  <2>1. Emitted(job, was.pc) = EmitLoad(job) \o Exit(was.pc + 4)
    BY EmittedIs DEF Loads
  <2>2. EmitLoad(job) = emitted
    BY DEF EmitLoad
  <2> QED
    BY <2>1, <2>2 DEF Both
<1> HIDE DEF t
<1>3. /\ at \in WordValues
      /\ \A r \in Files : Aimed(was, r, junk, 3, at)
  <2>1. 4 \in {1, 2, 4} /\ 4 - 1 = 3
    OBVIOUS
  <2> DEFINE align == 4
  <2>2. align \in {1, 2, 4} /\ align - 1 = 3
    BY <2>1
  <2> HIDE DEF align
  <2>3. ASSUME NEW r \in Files PROVE Address(Entered, job, align) \in WordValues /\ Aimed(was, r, junk, align - 1, Address(Entered, job, align))
    BY <1>0, <2>2, AddressIs
  <2> QED
    BY <1>0, <2>2, <2>3 DEF align
<1>4. (at + 2) % Base = at + 2 /\ at + 2 \in WordValues /\ at \in Int /\ at + 2 \in Int
  <2>1. (at + 2) % Base = at + 2 /\ at + 2 \in WordValues
    BY <1>0, <1>3, NextHalfword
  <2> QED
    BY <1>3, <2>1, Wraps
<1>5. w = h + (Half * g)
  BY DEF Read32
<1> HIDE DEF at, aim, m
<1>6. h \in 0 .. Half - 1 /\ e1 \in WordValues /\ e1 % Half = h /\ g \in 0 .. Half - 1 /\ e2 \in WordValues
      /\ (e2 * Half) % Base = g * Half
  BY <1>0, <1>4, NarrowIs
<1> HIDE DEF h, g, e1, e2
<1>7. g * Half \in WordValues /\ h \in WordValues /\ Or(g * Half, h) = (g * Half) + h
  BY <1>6, HalvesJoin
<1>8. (g * Half) + h = w
  BY <1>5, <1>6, WordFacts, SMT
<1>9. w \in WordValues
  BY <1>0, <1>4, ReadIs DEF w
<1> HIDE DEF w
<1>10. PICK r1 \in Files : Leads(aim, junk, At(was, Scratch, junk), At(was, r1, junk)) /\ r1[1] = at
  BY <1>0, <1>3 DEF Aimed, aim
<1>11. Reads("r16s", r1, junk)
  BY <1>0, CallReads
<1>12. PICK r2 \in Files : Leads(<<Bl("r16s")>>, junk, At(was, r1, junk), At(was, r2, junk)) /\ r2[0] = e1
  BY <1>10, <1>11 DEF Reads, Reading, e1, h, m
<1> DEFINE r3 == [r2 EXCEPT ![3] = h]
<1>13. r3 \in Files /\ Leads(<<u1>>, junk, At(was, r2, junk), At(was, r3, junk))
  <2> DEFINE name == "UXTH"
             o == R(0)
             j == 3
  <2>1. IsOperand(o, r2, e1)
    BY <1>0, <1>12, OperandIs
  <2>2. Counted(name, e1) /\ name \in DataNames /\ h = ArmValue(name, r2[j], e1)
    BY <1>6 DEF Counted, DataNames, Shifts, ArmValue
  <2>3. j \in 0..3
    BY <1>0
  <2> HIDE DEF name, o, j
  <2>4. [r2 EXCEPT ![j] = h] \in Files /\ Leads(<<<<name, FALSE, j, j, o>>>>, job.junk, At(was, r2, job.junk), At(was, [r2 EXCEPT ![j] = h], job.junk))
    <3>1. job.junk \in WordValues
      BY <1>0
    <3> QED
      BY <3>1, <1>12, <2>1, <2>2, <2>3, PlainData, ZenonT(60)
  <2> QED
    BY <2>4 DEF name, o, j
<1>14. r3[3] = h
  BY <1>12 DEF Files
<1> HIDE DEF r3
<1>15. PICK r4 \in Files : Leads(aim, junk, At(was, r3, junk), At(was, r4, junk)) /\ r4[1] = at /\ r4[3] = h
  BY <1>3, <1>13, <1>14 DEF Aimed, aim
<1> DEFINE r5 == [r4 EXCEPT ![1] = at + 2]
<1>16. r5 \in Files /\ Leads(<<u2>>, junk, At(was, r4, junk), At(was, r5, junk))
  <2> DEFINE name == "ADD"
             x == 2
             o == I(x)
             j == 1
             v == at + 2
  <2>1. x \in WordValues /\ x \in Int
    BY WordFacts, SMT DEF WordValues
  <2>2. IsOperand(o, r4, x)
    BY <1>0, <1>15, <2>1, OperandIs
  <2>3. Counted(name, x) /\ name \in DataNames /\ v = ArmValue(name, r4[j], x)
    BY <1>4, <1>15 DEF Counted, DataNames, Shifts, ArmValue
  <2>4. j \in 0..3
    BY <1>0
  <2> HIDE DEF name, x, o, j, v
  <2>5. [r4 EXCEPT ![j] = v] \in Files /\ Leads(<<<<name, FALSE, j, j, o>>>>, job.junk, At(was, r4, job.junk), At(was, [r4 EXCEPT ![j] = v], job.junk))
    <3>1. job.junk \in WordValues
      BY <1>0
    <3> QED
      BY <3>1, <1>15, <2>2, <2>3, <2>4, PlainData
  <2> QED
    BY <2>5 DEF name, x, o, j, v
<1>17. r5[1] = at + 2 /\ r5[3] = h
  BY <1>15 DEF Files
<1> HIDE DEF r5
<1>18. Reads("r16s", r5, junk)
  BY <1>0, <1>16, CallReads
<1>19. PICK r6 \in Files : /\ Leads(<<Bl("r16s")>>, junk, At(was, r5, junk), At(was, r6, junk))
                           /\ r6[0] = e2 /\ r6[3] = IF junk = 0 THEN h ELSE junk
  BY <1>17, <1>18 DEF Reads, Reading, e2, g, m
<1> DEFINE y == g * Half
           r7 == [r6 EXCEPT ![0] = y]
<1>20. r7 \in Files /\ Leads(<<u3>>, junk, At(was, r6, junk), At(was, r7, junk))
  <2> DEFINE name == "SHL"
             x == W \div 2
             o == I(x)
             j == 0
  <2>1. x \in WordValues /\ x \in Int /\ x < W
    BY Widths, SMT DEF WordValues
  <2>2. IsOperand(o, r6, x)
    BY <1>0, <1>19, <2>1, OperandIs
  <2>3. Counted(name, x) /\ name \in DataNames
    BY <2>1 DEF Counted, DataNames, Shifts
  <2>4. y = ArmValue(name, r6[j], x)
    <3>1. ArmValue(name, r6[j], x) = Shifted(name, r6[j], x).v
      BY DEF ArmValue, Shifts
    <3>2. Shifted(name, e2, x).v = (e2 * Half) % Base
      BY DEF Shifted, Half
    <3> QED
      BY <1>6, <1>19, <3>1, <3>2
  <2>5. j \in 0..3
    BY <1>0
  <2> HIDE DEF name, x, o, j, y
  <2>6. [r6 EXCEPT ![j] = y] \in Files /\ Leads(<<<<name, FALSE, j, j, o>>>>, job.junk, At(was, r6, job.junk), At(was, [r6 EXCEPT ![j] = y], job.junk))
    BY <1>0, <1>19, <2>2, <2>3, <2>4, <2>5, PlainData, ZenonT(60)
  <2> QED
    BY <2>6 DEF name, x, o, j
<1>21. r7[0] = y /\ r7[3] = r6[3] /\ r7[3] \in WordValues
  BY <1>19, <1>20 DEF Files
<1> HIDE DEF r7, y
<1> DEFINE z == r7[3]
           v == Or(y, z)
           r8 == [r7 EXCEPT ![0] = v]
<1>22. v \in WordValues /\ r8 \in Files /\ Leads(<<u4>>, junk, At(was, r7, junk), At(was, r8, junk))
  <2> DEFINE name == "ORR"
             o == R(3)
             j == 0
  <2>1. IsOperand(o, r7, z)
    BY <1>0, <1>20, OperandIs
  <2>2. Counted(name, z) /\ name \in DataNames /\ v = ArmValue(name, r7[j], z)
    BY <1>21 DEF Counted, DataNames, Shifts, ArmValue
  <2>3. j \in 0..3
    BY <1>0
  <2> HIDE DEF name, o, j, v, z
  <2>4. v \in WordValues /\ [r7 EXCEPT ![j] = v] \in Files /\ Leads(<<<<name, FALSE, j, j, o>>>>, job.junk, At(was, r7, job.junk), At(was, [r7 EXCEPT ![j] = v], job.junk))
    <3>1. job.junk \in WordValues
      BY <1>0
    <3>2. r7 \in Files
      BY <1>20
    <3> QED
      BY <3>1, <3>2, <2>1, <2>2, <2>3, PlainData, ZenonT(60)
  <2> QED
    BY <2>4 DEF name, o, j, v, z
<1>23. r8[0] = v
  BY <1>20 DEF Files
<1>24. junk = 0 => v = w
  BY <1>7, <1>8, <1>19, <1>21 DEF y
<1>24a. junk # 0 => v = Or(w - (w % Half), junk)
  <2>1. w - (w % Half) = g * Half
    BY <1>6, <1>8, UpperHalf, Zenon
  <2> QED
    BY <1>19, <1>21, <2>1 DEF y
<1> HIDE DEF r8, v, z, u1, u2, u3, u4
<1>25. Leads(<<StrPreg(0, k)>>, junk, At(was, r8, junk), At(Put(was, k, v), r8, junk))
  BY <1>23, LeadsStrPreg
<1>26. Leads(<<AddClock(4)>>, junk, At(Put(was, k, v), r8, junk), At(Tick(Put(was, k, v), 4), r8, junk))
  BY LeadsClock
<1>27. Leads(tail, junk, At(was, r4, junk), At(Tick(Put(was, k, v), 4), r8, junk))
  BY <1>16, <1>19, <1>20, <1>22, <1>25, <1>26, LeadsSix
<1>28. Leads(mid, junk, At(was, r1, junk), At(was, r3, junk))
  BY <1>12, <1>13, LeadsTwo
<1> HIDE DEF tail, mid
<1>29. Block(emitted, At(Tick(Put(was, k, v), 4), r8, junk))
  <2>1. Block(aim \o mid, At(was, r3, junk))
    BY <1>10, <1>28, LeadsOn DEF Block
  <2>2. Block((aim \o mid) \o aim, At(was, r4, junk))
    BY <1>15, <2>1, LeadsOn DEF Block
  <2> QED
    BY <1>27, <2>2, LeadsOn DEF Block
<1> HIDE DEF emitted
<1>30. Matches(v = w) /\ Kept(jit.P) = Kept(Put(was, k, v).P) /\ Kept(c.P) = Kept(Put(was, k, w).P)
  <2> DEFINE j == 4
  <2>1. j \in Int /\ Block(emitted, At(Tick(Put(was, k, v), j), r8, junk))
    BY <1>29
  <2> HIDE DEF j
  <2> QED
    BY <1>0, <1>1, <1>2, <1>9, <1>22, <2>1, LoadMatches
<1>31. junk # 0 => \A r \in Regs \ {0} : jit.P[r] = LeftIn(r)
  <2> SUFFICES ASSUME junk # 0, NEW r \in Regs \ {0}
               PROVE  jit.P[r] = LeftIn(r)
    OBVIOUS
  <2>1. jit.P[r] = Put(was, k, v).P[r] /\ c.P[r] = Put(was, k, w).P[r]
    BY <1>30, KeptEach
  <2>2. CASE r = k
    <3>1. Put(was, k, v).P[k] = v /\ Put(was, k, w).P[k] = w
      BY <1>0, <2>2 DEF Put, Machines
    <3> QED
      BY <1>24a, <2>1, <2>2, <3>1 DEF LeftIn, LowHalfLost
  <2>3. CASE r # k
    <3>1. Put(was, k, v).P[r] = was.P[r] /\ Put(was, k, w).P[r] = was.P[r]
      BY <1>0, <2>3 DEF Put, Machines
    <3> QED
      BY <2>1, <2>3, <3>1 DEF LeftIn
  <2> QED
    BY <2>2, <2>3
<1> QED
  BY <1>24, <1>30, <1>31 DEF Matches

-----------------------------------------------------------------------------
(* The store of a word, by two calls.                                      *)

LEMMA HalvesWritten ==
  ASSUME ArithmeticAssumption, NEW m, NEW at, NEW y \in WordValues
  PROVE  Write32(m, at, y) = Write16(Write16(m, at, y), at + 2, y \div Half)
<1>1. (y % Half) % Byte = y % Byte /\ ((y % Half) \div Byte) % Byte = (y \div Byte) % Byte
  BY Widths, SMT DEF WordValues
<1>2. Write16(m, at, y % Half) = Write16(m, at, y)
  BY <1>1, Zenon DEF Write16
<1> QED
  BY <1>2 DEF Write32

LEMMA WordStoreMatches ==
  ASSUME ArithmeticAssumption, Ready, Both, job.op = "ST_W"
  PROVE  Matches(TRUE)
<1> DEFINE at == Address(Entered, job, 4)
           k == job.r2
           junk == job.junk
           m == was.mem
           y == Entered.P[k]
           high == y \div Half
           m1 == Write16(m, at, y)
           m2 == Write16(m1, at + 2, high)
           e == Stored(m1)
           t == IF Entered.lastop = "ST" THEN 4 ELSE 1
           aim == EmitAddress(job, 3)
           u1 == <<"ADD", FALSE, 1, 1, I(2)>>
           u2 == <<"SHR", FALSE, 2, 2, I(W \div 2)>>
           mid == <<LdrPreg(2, k), Bl("w16")>>
           tail == <<u1, LdrPreg(2, k), u2, Bl("w16"), AddClock(2)>>
           emitted == ((aim \o mid) \o aim) \o tail
<1>0. /\ k \in Regs /\ Scratch \in Files /\ junk \in WordValues /\ was \in Machines /\ t \in Int
      /\ m \in Contents /\ job.op # "BCOND" /\ 1 \in 0..3 /\ 2 \in 0..3 /\ "w16" \in {"w8", "w16"}
  <2>1. k \in Regs /\ Scratch \in Files /\ junk \in WordValues /\ was \in Machines
    BY Started
  <2>2. m \in Contents
    BY <2>1 DEF Machines, Contents, Bytes
  <2> QED
    BY <2>1, <2>2
<1>1. y \in WordValues /\ Held(was, k) = y
  BY <1>0, HeldIs
<1>2. c = After([Tick(Next4(Entered), t) EXCEPT !.mem = m2], "ST")
  <2> DEFINE g == Tick(Next4(Entered), t)
  <2>1. c = After([g EXCEPT !.mem = Write32(g.mem, at, y)], "ST")
    BY DispatchedToo DEF Both, ST_W
  <2>2. g.mem = m
    BY <1>0, FetchedFour
  <2>3. Write32(m, at, y) = m2
    BY <1>1, HalvesWritten
  <2> HIDE DEF g
  <2>4. c = After([g EXCEPT !.mem = m2], "ST")
    BY <2>1, <2>2, <2>3
  <2> QED
    BY <2>4 DEF g
<1>3. jit = Run(was, emitted \o Exit(was.pc + 4), junk)
  <2>1. Emitted(job, was.pc) = EmitStore(job) \o Exit(was.pc + 4)
    BY EmittedIs DEF Stores
  <2>2. EmitStore(job) = emitted
    BY DEF EmitStore
  <2> QED
    BY <2>1, <2>2 DEF Both
<1> HIDE DEF t
<1>4. /\ at \in WordValues
      /\ \A d : d.P = was.P => \A r \in Files : Aimed(d, r, junk, 3, at)
  <2> DEFINE align == 4
  <2>1. align \in {1, 2, 4} /\ align - 1 = 3
    OBVIOUS
  <2> HIDE DEF align
  <2>2. ASSUME NEW d, d.P = was.P, NEW r \in Files
        PROVE Address(Entered, job, align) \in WordValues /\ Aimed(d, r, junk, align - 1, Address(Entered, job, align))
    BY <1>0, <2>1, <2>2, AddressIs
  <2> QED
    BY <1>0, <2>1, <2>2 DEF align
<1>5. (at + 2) % Base = at + 2 /\ at + 2 \in WordValues
  BY <1>0, <1>4, NextHalfword
<1>6. high \in WordValues
  BY <1>1, Widths, SMT DEF WordValues
<1> HIDE DEF at, aim, y
<1>7. PICK r1 \in Files : Leads(aim, junk, At(was, Scratch, junk), At(was, r1, junk)) /\ r1[1] = at
  BY <1>0, <1>4 DEF Aimed, aim
<1> DEFINE r2 == [r1 EXCEPT ![2] = y]
<1>8. r2 \in Files /\ r2[1] = at /\ r2[2] = y
  BY <1>1, <1>7 DEF Files
<1>9. Leads(<<LdrPreg(2, k)>>, junk, At(was, r1, junk), At(was, r2, junk))
  BY <1>1, LeadsLdrPreg
<1> HIDE DEF r2
<1>10. Writes("w16", m, r2, junk) /\ Writing("w16", m, r2[1], r2[2]) \in Contents
  BY <1>0, <1>8, CallWrites
<1>11. Stored(m) = was
  BY <1>0 DEF Stored, Machines
<1>12. Writing("w16", m, r2[1], r2[2]) = m1
  BY <1>8 DEF Writing
<1>13. PICK r3 \in Files : Leads(<<Bl("w16")>>, junk, At(was, r2, junk), At(e, r3, junk))
  BY <1>10, <1>11, <1>12 DEF Writes
<1>14. m1 \in Contents
  BY <1>10, <1>12
<1> HIDE DEF m1
<1>15. e \in Machines /\ e.P = was.P
  BY <1>14, StoredIs
<1>16. Held(e, k) = y
  BY <1>1, <1>15 DEF Held
<1> HIDE DEF e
<1>17. PICK r4 \in Files : Leads(aim, junk, At(e, r3, junk), At(e, r4, junk)) /\ r4[1] = at
  BY <1>4, <1>15 DEF Aimed, aim
<1> DEFINE r5 == [r4 EXCEPT ![1] = at + 2]
<1>18. r5 \in Files /\ Leads(<<u1>>, junk, At(e, r4, junk), At(e, r5, junk))
  <2> DEFINE name == "ADD"
             x == 2
             o == I(x)
             j == 1
             v == at + 2
  <2>1. x \in WordValues /\ x \in Int
    BY WordFacts, SMT DEF WordValues
  <2>2. IsOperand(o, r4, x)
    BY <1>0, <1>17, <2>1, OperandIs
  <2>3. Counted(name, x) /\ name \in DataNames /\ v = ArmValue(name, r4[j], x)
    BY <1>5, <1>17 DEF Counted, DataNames, Shifts, ArmValue
  <2>4. j \in 0..3
    BY <1>0
  <2> HIDE DEF name, x, o, j, v
  <2>5. [r4 EXCEPT ![j] = v] \in Files /\ Leads(<<<<name, FALSE, j, j, o>>>>, job.junk, At(e, r4, job.junk), At(e, [r4 EXCEPT ![j] = v], job.junk))
    <3>1. job.junk \in WordValues /\ r4 \in Files
      BY <1>0, <1>17
    <3> QED
      BY <3>1, <2>2, <2>3, <2>4, PlainData, ZenonT(60)
  <2> QED
    BY <2>5 DEF name, x, o, j, v
<1>19. r5[1] = at + 2
  BY <1>17 DEF Files
<1> HIDE DEF r5
<1> DEFINE r6 == [r5 EXCEPT ![2] = y]
<1>20. r6 \in Files /\ r6[1] = at + 2 /\ r6[2] = y
  BY <1>1, <1>18, <1>19 DEF Files
<1>21. Leads(<<LdrPreg(2, k)>>, junk, At(e, r5, junk), At(e, r6, junk))
  BY <1>16, LeadsLdrPreg
<1> HIDE DEF r6
<1> DEFINE r7 == [r6 EXCEPT ![2] = high]
<1>22. r7 \in Files /\ Leads(<<u2>>, junk, At(e, r6, junk), At(e, r7, junk))
  <2> DEFINE name == "SHR"
             x == W \div 2
             o == I(x)
             j == 2
  <2>1. x \in WordValues /\ x \in Int /\ x < W
    BY Widths, SMT DEF WordValues
  <2>2. IsOperand(o, r6, x)
    BY <1>0, <1>20, <2>1, OperandIs
  <2>3. Counted(name, x) /\ name \in DataNames
    BY <2>1 DEF Counted, DataNames, Shifts
  <2>4. high = ArmValue(name, r6[j], x)
    <3>1. ArmValue(name, r6[j], x) = Shifted(name, r6[j], x).v
      BY DEF ArmValue, Shifts
    <3>2. Shifted(name, y, x).v = y \div Half
      BY DEF Shifted, Half
    <3> QED
      BY <1>20, <3>1, <3>2
  <2>5. j \in 0..3
    BY <1>0
  <2> HIDE DEF name, x, o, j, high
  <2>6. [r6 EXCEPT ![j] = high] \in Files /\ Leads(<<<<name, FALSE, j, j, o>>>>, job.junk, At(e, r6, job.junk), At(e, [r6 EXCEPT ![j] = high], job.junk))
    <3>1. job.junk \in WordValues /\ r6 \in Files
      BY <1>0, <1>20
    <3> QED
      BY <3>1, <2>2, <2>3, <2>4, <2>5, PlainData, ZenonT(60)
  <2> QED
    BY <2>6 DEF name, x, o, j
<1> HIDE DEF high
<1>23. r7[1] = at + 2 /\ r7[2] = high
  BY <1>6, <1>20 DEF Files
<1> HIDE DEF r7
<1>24. Writes("w16", m1, r7, junk) /\ Writing("w16", m1, r7[1], r7[2]) \in Contents
  BY <1>0, <1>14, <1>22, CallWrites
<1>25. Writing("w16", m1, r7[1], r7[2]) = m2
  BY <1>23 DEF Writing
<1>26. PICK r8 \in Files : Leads(<<Bl("w16")>>, junk, At(e, r7, junk), At(Stored(m2), r8, junk))
  BY <1>24, <1>25 DEF Writes, e
<1>27. m2 \in Contents
  BY <1>24, <1>25
<1> HIDE DEF m2, u1, u2
<1>28. Leads(<<AddClock(2)>>, junk, At(Stored(m2), r8, junk), At(Tick(Stored(m2), 2), r8, junk))
  BY LeadsClock
<1>29. Leads(tail, junk, At(e, r4, junk), At(Tick(Stored(m2), 2), r8, junk))
  BY <1>18, <1>21, <1>22, <1>26, <1>28, LeadsFive
<1>30. Leads(mid, junk, At(was, r1, junk), At(e, r3, junk))
  BY <1>9, <1>13, LeadsTwo
<1> HIDE DEF tail, mid
<1>31. Block(emitted, At(Tick(Stored(m2), 2), r8, junk))
  <2>1. Block(aim \o mid, At(e, r3, junk))
    BY <1>7, <1>30, LeadsOn DEF Block
  <2>2. Block((aim \o mid) \o aim, At(e, r4, junk))
    BY <1>17, <2>1, LeadsOn DEF Block
  <2> QED
    BY <1>29, <2>2, LeadsOn DEF Block
<1> HIDE DEF emitted
<1> DEFINE j == 2
<1>32. j \in Int /\ Block(emitted, At(Tick(Stored(m2), j), r8, junk))
  BY <1>31
<1> HIDE DEF j
<1> QED
  BY <1>0, <1>2, <1>3, <1>27, <1>32, StoreMatches

-----------------------------------------------------------------------------
(* Every instruction that jit_translate translates.                        *)

\* The invariant: the instruction started in a state of ThumbAssumption, and
\* both machines are what the interpreter and the block make of that state.
TranslatedRan ==
  stage = "done" => /\ Ready /\ c = Execute(was, job)
                    /\ job.op \in Translated => jit = Run(was, Emitted(job, was.pc), job.junk)

LEMMA TranslatedAgree ==
  ASSUME ArithmeticAssumption, TranslatedRan
  PROVE  JitAgrees
<1> SUFFICES ASSUME stage = "done", job.op \in Translated
             PROVE  JitAgrees
  BY DEF JitAgrees
<1>1. Ready /\ Both
  BY DEF TranslatedRan, Both
<1>2. CASE job.op \in Loads \cup Stores
  <2>1. job.op \in {"LD_B", "LD_H"} => Matches(TRUE)
    BY <1>1, NarrowLoadMatches
  <2>2. job.op \in {"ST_B", "ST_H"} => Matches(TRUE)
    BY <1>1, NarrowStoreMatches
  <2>3. job.op = "ST_W" => Matches(TRUE)
    BY <1>1, WordStoreMatches
  <2>4. job.op = "LD_W" => /\ Matches(job.junk = 0)
                           /\ job.junk # 0 => \A r \in Regs \ {0} : jit.P[r] = LeftIn(r)
    BY <1>1, WordLoadMatches
  <2>5. Matches(FALSE) /\ ~Timed
    BY <1>2, <2>1, <2>2, <2>3, <2>4 DEF Loads, Stores, Timed, Matches
  <2>6. \A r \in Regs \ {0} : jit.P[r] = LeftIn(r)
    <3>1. CASE LowHalfLost
      BY <2>4, <3>1 DEF LowHalfLost
    <3>2. CASE ~LowHalfLost
      <4>1. Matches(TRUE)
        BY <1>2, <2>1, <2>2, <2>3, <2>4, <3>2 DEF Loads, Stores, LowHalfLost, Matches
      <4> QED
        BY <3>2, <4>1, KeptEach DEF Matches, LeftIn
    <3> QED
      BY <3>1, <3>2
  <2> QED
    BY <2>5, <2>6 DEF Matches, JitAgrees
<1>3. CASE job.op \notin Loads \cup Stores
  <2>1. \/ job.op \in {"OR", "AND", "XOR", "ORI", "ANDI", "XORI"} \/ job.op = "NOT"
        \/ job.op \in {"MOVEA", "MOVHI"} \/ job.op = "NOP" \/ job.op = "JMP"
        \/ job.op \in {"JR", "JAL"} \/ job.op = "SETF" \/ job.op = "BCOND"
        \/ job.op \in Shifts \/ job.op \in Shifts_I \/ job.op \in {"MOV", "MOV_I"}
        \/ job.op \in {"ADD", "SUB", "CMP", "ADD_I", "CMP_I", "ADDI"}
    BY <1>3 DEF Translated, AddSubs, Logics, Longs, EndsBlock
  <2>2. Agrees
    BY <1>1, <2>1, LogicAgrees, NotAgrees, AddressesAgree, NopAgrees, JumpRegisterAgrees, JumpTargetAgrees,
       SetfAgrees, BranchesAgree, ShiftAgrees, ShiftImmediateAgrees, MovesAgree, SumsAgree
  <2>3. ~LowHalfLost
    BY <1>3 DEF LowHalfLost, Loads
  <2>4. \A r \in Regs \ {0} : jit.P[r] = LeftIn(r)
    BY <2>2, <2>3, KeptEach DEF Agrees, LeftIn
  <2> QED
    BY <2>2, <2>4 DEF Agrees, JitAgrees
<1> QED
  BY <1>2, <1>3

\* Whatever integer instruction is executed, from whatever state with PSW a word
\* and pc in the cartridge, if jit_translate translates it, the block it emits
\* leaves the registers, the memory, the next pc and the flags Z and S of the
\* interpreter, and its clocks where the block can know them (v810_jit.c:496);
\* but where the callee of LD_W's second call uses r3, the register loaded has the
\* right high halfword joined with what the callee left there (LeftIn).
THEOREM TranslationAgrees == ThumbSpec => []JitAgrees
<1>1. ArithmeticAssumption /\ ThumbAssumption
  BY ArithmeticAssumption, ThumbAssumption
<1>2. Rest /\ jit = Unknown => TranslatedRan
  BY DEF Rest, TranslatedRan
<1>3. TranslatedRan /\ [ExecuteBoth \/ (Forget /\ jit' = Unknown)]_<<arithmetic, jit>> => TranslatedRan'
  <2> SUFFICES ASSUME TranslatedRan, [ExecuteBoth \/ (Forget /\ jit' = Unknown)]_<<arithmetic, jit>>
               PROVE  TranslatedRan'
    OBVIOUS
  <2>1. CASE ExecuteBoth
    <3>1. PICK d \in States : \E i \in Code(d) : Perform(d, i)
      BY <2>1 DEF ExecuteBoth, ExecuteInteger
    <3>2. PICK i \in Code(d) : Perform(d, i)
      BY <3>1
    <3>3. d \in Machines /\ i \in Instructions /\ d.psw \in WordValues /\ d.pc \in 0 .. Base - 5
      BY <1>1 DEF ArithmeticAssumption, ThumbAssumption
    <3>4. was' = d /\ job' = i /\ c' = Execute(was', job')
      BY <3>2 DEF Perform
    <3>5. Ready'
      BY <3>3, <3>4 DEF Ready
    <3>6. job'.op \in Translated => jit' = Run(was', Emitted(job', was'.pc), job'.junk)
      BY <2>1 DEF ExecuteBoth
    <3> QED
      BY <3>4, <3>5, <3>6 DEF TranslatedRan
  <2>2. CASE Forget /\ jit' = Unknown
    BY <2>2 DEF Forget, TranslatedRan
  <2>3. CASE UNCHANGED <<arithmetic, jit>>
    BY <2>3 DEF arithmetic, TranslatedRan, Ready
  <2> QED
    BY <2>1, <2>2, <2>3
<1>4. TranslatedRan => JitAgrees
  BY <1>1, TranslatedAgree
<1> QED
  BY <1>2, <1>3, <1>4, PTL DEF ThumbSpec
=============================================================================
