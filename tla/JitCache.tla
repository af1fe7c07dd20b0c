------------------------------ MODULE JitCache ------------------------------
(***************************************************************************)
(* The translation cache of the V810 -> Thumb-2 JIT (src/v810_jit.c): the  *)
(* circular code buffer, the direct-mapped block table, and the translator *)
(* seen as a writer of the buffer.                                         *)
(*                                                                         *)
(* Generated code is abstracted to its extent, in halfwords, and to how it *)
(* ends.  Three ghost fields per slot say what the table cannot know about *)
(* the halfwords its entry points at: whether they are still the ones the  *)
(* block was translated to, how many V810 instructions they hold, and      *)
(* whether control leaves them through an exit.  PCs count halfwords from  *)
(* the base of the ROM window (vb_pc >> 1).                                *)
(*                                                                         *)
(* HitIgnoringPc, WrappedNever, EvictContained and MeetFallbackGoesOn are  *)
(* seeded faults: each stands for the definition that follows it in a run  *)
(* that must then fail.                                                    *)
(***************************************************************************)
EXTENDS Integers

CONSTANTS
  CodeWords,    \* JIT_CODE_WORDS: halfwords in jit_code_buf
  MaxBlockHW,   \* JIT_MAX_BLOCK_HW: halfwords reserved for one block
  MaxOps,       \* JIT_MAX_OPS: V810 instructions in one block
  HtabSize,     \* JIT_HTAB_SIZE: slots of jit_table
  PrologueHW,   \* halfwords emit_prologue writes
  ExitHW,       \* halfwords emit_exit writes
  RomLen,       \* halfwords of ROM behind jit_rom_mask
  Rom,          \* Rom[a]: the instruction the switch decodes at ROM halfword a
  RomPcs,       \* PCs with upper byte 7 (mirrors of the ROM included)
  OtherPcs      \* PCs of code the CPU runs outside the ROM window

Null  == -1
Slots == 0 .. HtabSize - 1
Pcs   == RomPcs \union OtherPcs

(* An instruction is "plain" (falls through to the next one), "ending" (a  *)
(* branch or jump: its code holds the block's exits) or "fallback" (left   *)
(* to the interpreter); len is its size in ROM, hw the code it emits.      *)
Instr == [kind : {"plain", "ending", "fallback"}, len : 1 .. 2, hw : Nat]

ASSUME SizesAssumption ==
  /\ CodeWords \in Nat /\ MaxBlockHW \in Nat /\ MaxOps \in Nat \ {0}
  /\ HtabSize \in Nat \ {0} /\ RomLen \in Nat \ {0}
  /\ PrologueHW \in Nat \ {0} /\ ExitHW \in Nat \ {0}
  /\ MaxBlockHW <= CodeWords
  /\ PrologueHW + ExitHW <= MaxBlockHW

ASSUME RomAssumption ==
  /\ Rom \in [0 .. RomLen - 1 -> Instr]
  /\ \A a \in 0 .. RomLen - 1 : Rom[a].hw + ExitHW <= MaxBlockHW
  /\ RomPcs \subseteq Nat /\ OtherPcs \subseteq Nat
  /\ RomPcs \intersect OtherPcs = {}

VARIABLES
  jit_code_pos, \* next free halfword of the code buffer
  jit_table,    \* slot -> [vb_pc, code, hw_count]; code = Null: empty slot
  phase,        \* "idle", or "translating" inside jit_translate
  blk,          \* slot jit_translate fills
  code_start,   \* jit_code_pos when it began
  cur_pc,       \* next instruction to translate
  n,            \* instructions translated so far
  ended,        \* the instruction that ends the block was met
  result,       \* what the last jit_lookup returned: [pc, slot]
  code,         \* ghost: slot -> [intact, ops, exits]
  overlong      \* ghost: some block since jit_init outgrew MaxBlockHW

vars == << jit_code_pos, jit_table, phase, blk, code_start, cur_pc, n, ended,
           result, code, overlong >>

-----------------------------------------------------------------------------
NoBlock == [vb_pc |-> Null, code |-> Null, hw_count |-> 0]
NoCode  == [intact |-> TRUE, ops |-> 0, exits |-> FALSE]

SlotOf(pc) == pc % HtabSize
Fetch(pc)  == Rom[pc % RomLen]

HitIgnoringPc(pc) == jit_table[SlotOf(pc)].code # Null

Hit(pc) == /\ jit_table[SlotOf(pc)].vb_pc = pc
           /\ jit_table[SlotOf(pc)].code # Null

(* The entry's code shares a halfword with [from, to). *)
Overlaps(entry, from, to) ==
  /\ entry.code # Null
  /\ entry.code < to
  /\ entry.code + entry.hw_count > from

(* The ghost after [from, to) of the buffer is overwritten. *)
Clobber(from, to) ==
  [s \in Slots |->
     [code[s] EXCEPT !.intact = @ /\ ~Overlaps(jit_table[s], from, to)]]

LoopGoesOn == /\ ~ended
              /\ n < MaxOps
              /\ jit_code_pos + MaxBlockHW < CodeWords

-----------------------------------------------------------------------------
Init ==
  /\ jit_code_pos = 0
  /\ jit_table = [s \in Slots |-> NoBlock]
  /\ phase = "idle"
  /\ blk = 0 /\ code_start = 0 /\ cur_pc = 0 /\ n = 0 /\ ended = FALSE
  /\ result = [pc |-> Null, slot |-> Null]
  /\ code = [s \in Slots |-> NoCode]
  /\ overlong = FALSE

(* jit_init: a cartridge is loaded, jit_flush empties the cache. *)
JitInit ==
  /\ phase = "idle"
  /\ jit_code_pos' = 0
  /\ jit_table' = [s \in Slots |-> NoBlock]
  /\ result' = [pc |-> Null, slot |-> Null]
  /\ code' = [s \in Slots |-> NoCode]
  /\ overlong' = FALSE
  /\ UNCHANGED << phase, blk, code_start, cur_pc, n, ended >>

(* jit_lookup of code outside the ROM: the interpreter runs it. *)
LookupOutsideRom(pc) ==
  /\ phase = "idle"
  /\ pc \in OtherPcs
  /\ result' = [pc |-> pc, slot |-> Null]
  /\ UNCHANGED << jit_code_pos, jit_table, phase, blk, code_start, cur_pc, n,
                  ended, code, overlong >>

LookupHit(pc) ==
  /\ phase = "idle"
  /\ pc \in RomPcs
  /\ Hit(pc)
  /\ result' = [pc |-> pc, slot |-> SlotOf(pc)]
  /\ UNCHANGED << jit_code_pos, jit_table, phase, blk, code_start, cur_pc, n,
                  ended, code, overlong >>

(* A miss: wrap the write position, evict what the reserved window         *)
(* overlaps, clear the slot, and start jit_translate (entry fields and     *)
(* prologue).                                                              *)
WrappedNever == jit_code_pos

WrappedPos == IF jit_code_pos + MaxBlockHW > CodeWords THEN 0
                                                       ELSE jit_code_pos

EvictContained(from, to) ==
  [s \in Slots |-> IF /\ jit_table[s].code \in from .. to - 1
                      /\ jit_table[s].code + jit_table[s].hw_count <= to
                   THEN NoBlock ELSE jit_table[s]]

Evict(from, to) ==
  [s \in Slots |-> IF Overlaps(jit_table[s], from, to) THEN NoBlock
                                                       ELSE jit_table[s]]

LookupMiss(pc) ==
  /\ phase = "idle"
  /\ pc \in RomPcs
  /\ ~Hit(pc)
  /\ LET cs == WrappedPos IN
       /\ jit_table' = [Evict(cs, cs + MaxBlockHW) EXCEPT
                          ![SlotOf(pc)] = [vb_pc |-> pc, code |-> cs,
                                           hw_count |-> 0]]
       /\ code' = [s \in Slots |->
                     IF jit_table'[s].code = Null \/ s = SlotOf(pc)
                       THEN NoCode
                       ELSE [code[s] EXCEPT !.intact =
                               @ /\ ~Overlaps(jit_table'[s], cs,
                                              cs + PrologueHW)]]
       /\ code_start' = cs
       /\ jit_code_pos' = cs + PrologueHW
  /\ phase' = "translating"
  /\ blk' = SlotOf(pc)
  /\ cur_pc' = pc
  /\ n' = 0
  /\ ended' = FALSE
  /\ result' = [pc |-> Null, slot |-> Null]
  /\ UNCHANGED overlong

(* One turn of jit_translate's loop over a translatable instruction. *)
EmitInstr ==
  LET in == Fetch(cur_pc) IN
  /\ phase = "translating"
  /\ LoopGoesOn
  /\ in.kind # "fallback"
  /\ jit_code_pos' = jit_code_pos + in.hw
  /\ code' = [Clobber(jit_code_pos, jit_code_pos') EXCEPT
                ![blk].exits = (in.kind = "ending")]
  /\ cur_pc' = cur_pc + in.len
  /\ n' = n + 1
  /\ ended' = (in.kind = "ending")
  /\ overlong' = (overlong \/ jit_code_pos' > code_start + MaxBlockHW)
  /\ UNCHANGED << jit_table, phase, blk, code_start, result >>

(* An instruction the translator leaves to the interpreter: the loop ends, *)
(* and ended = 1 also skips the final emit_exit.                           *)
MeetFallbackGoesOn ==
  /\ phase = "translating"
  /\ LoopGoesOn
  /\ Fetch(cur_pc).kind = "fallback"
  /\ UNCHANGED vars

MeetFallback ==
  /\ phase = "translating"
  /\ LoopGoesOn
  /\ Fetch(cur_pc).kind = "fallback"
  /\ ended' = TRUE
  /\ UNCHANGED << jit_code_pos, jit_table, phase, blk, code_start, cur_pc, n,
                  result, code, overlong >>

BlockLength(end) == end - code_start

(* The end of jit_translate, and of the jit_lookup that called it.         *)
FinishBlock ==
  LET end == IF ended THEN jit_code_pos ELSE jit_code_pos + ExitHW IN
  /\ phase = "translating"
  /\ ~LoopGoesOn
  /\ jit_code_pos' = end
  /\ jit_table' = [jit_table EXCEPT ![blk].hw_count = BlockLength(end)]
  /\ code' = [Clobber(jit_code_pos, end) EXCEPT
                ![blk] = [intact |-> TRUE, ops |-> n,
                          exits |-> ~ended \/ code[blk].exits]]
  /\ overlong' = (overlong \/ end > code_start + MaxBlockHW)
  /\ result' = [pc |-> jit_table[blk].vb_pc, slot |-> blk]
  /\ phase' = "idle"
  /\ blk' = 0 /\ code_start' = 0 /\ cur_pc' = 0 /\ n' = 0 /\ ended' = FALSE

-----------------------------------------------------------------------------
Lookup == \E pc \in Pcs : \/ LookupOutsideRom(pc)
                          \/ LookupHit(pc)
                          \/ LookupMiss(pc)
Translate == EmitInstr \/ MeetFallback \/ FinishBlock

Next == JitInit \/ Lookup \/ Translate

(* jit_translate is a loop of the emulator's only thread: once entered it  *)
(* is not abandoned.  Nothing obliges the CPU to look anything up.         *)
Spec == Init /\ [][Next]_vars /\ WF_vars(Translate)

-----------------------------------------------------------------------------
TypeOK ==
  /\ jit_code_pos \in Nat
  /\ jit_table \in [Slots -> [vb_pc : Nat \union {Null},
                             code : Nat \union {Null}, hw_count : Nat]]
  /\ phase \in {"idle", "translating"}
  /\ blk \in Slots /\ code_start \in Nat /\ cur_pc \in Nat /\ n \in Nat
  /\ ended \in BOOLEAN
  /\ result \in [pc : Nat \union {Null}, slot : Slots \union {Null}]
  /\ code \in [Slots -> [intact : BOOLEAN, ops : Nat, exits : BOOLEAN]]
  /\ overlong \in BOOLEAN

(* The emitters store to jit_code_buf without a bound check: only the wrap *)
(* in jit_lookup and the loop condition of jit_translate keep them inside, *)
(* with room left for the exit that ends a block cut short.                *)
BufferNotOverrun ==
  /\ jit_code_pos <= CodeWords
  /\ phase = "translating" /\ ~ended => jit_code_pos + ExitHW <= CodeWords

(* The block jit_lookup hands to the dispatcher starts at the PC it asked  *)
(* for, and its halfwords are still the ones that PC was translated to --  *)
(* as long as no block has outgrown the MaxBlockHW halfwords that eviction *)
(* assumes ("invalidate any block whose code overlaps the region we are    *)
(* about to write").                                                       *)
LookupReturnsItsCode ==
  result.slot # Null /\ ~overlong =>
    /\ jit_table[result.slot].vb_pc = result.pc
    /\ code[result.slot].intact

(* The same for every block that stays cached: while no block is overlong, *)
(* two cached blocks never share a halfword of the buffer.                 *)
CachedBlocksDisjoint ==
  ~overlong =>
    \A s, t \in Slots :
      s # t /\ jit_table[t].code # Null =>
        ~Overlaps(jit_table[s], jit_table[t].code,
                  jit_table[t].code + jit_table[t].hw_count)

(* Entering jit_translate leads to a block handed to the dispatcher.       *)
TranslationEnds == phase = "translating" ~> phase = "idle"

(* jit_lookup wraps when less than MaxBlockHW is left, jit_translate's     *)
(* loop wants more than that after the prologue: a block begun in the last *)
(* places before the wrap is cached with no instruction in it, and its     *)
(* exit goes back to its own PC.  The dispatcher would run it for ever at  *)
(* no clocks.  Over any sequence of translations that happens in those     *)
(* PrologueHW + 1 places and nowhere else: every other block handed out    *)
(* holds an instruction, or met the interpreter's at once.                 *)
EmptyBlocksAtEnd ==
  result.slot # Null =>
    ( code[result.slot].ops = 0 /\ code[result.slot].exits
      <=> jit_table[result.slot].code \in
            CodeWords - MaxBlockHW - PrologueHW .. CodeWords - MaxBlockHW )

(* What the comments promise, and the code does not keep: eviction is      *)
(* enough for every block ...                                              *)
EveryReturnedBlockIntact ==
  result.slot # Null => code[result.slot].intact

(* ... an unsupported instruction ends the block early and the interpreter *)
(* handles it, so control comes back from every block.                      *)
EveryBlockReturns ==
  result.slot # Null => code[result.slot].exits
=============================================================================
