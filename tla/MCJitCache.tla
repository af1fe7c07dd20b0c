----------------------------- MODULE MCJitCache -----------------------------
(***************************************************************************)
(* Small instances of JitCache.  The buffer holds three or four blocks,    *)
(* and two PCs compete for each slot.                                      *)
(***************************************************************************)
EXTENDS JitCache

Plain(hw)  == [kind |-> "plain",    len |-> 1, hw |-> hw]
Wide(hw)   == [kind |-> "plain",    len |-> 2, hw |-> hw]
Ending(hw) == [kind |-> "ending",   len |-> 1, hw |-> hw]
Fallback   == [kind |-> "fallback", len |-> 1, hw |-> 0]

(* Everything at once: a run of long instructions, a branch, an            *)
(* instruction for the interpreter, a short run up to MaxOps.              *)
MCRom(a) == CASE a = 0 -> Plain(4)
              [] a = 1 -> Wide(5)
              [] a = 2 -> Plain(3)
              [] a = 3 -> Ending(3)
              [] a = 4 -> Fallback
              [] a = 5 -> Plain(1)
              [] a = 6 -> Plain(2)
              [] a = 7 -> Ending(4)
RomMixed == [a \in 0 .. 7 |-> MCRom(a)]

(* Blocks of three instructions at most, which a window of                 *)
(* PrologueHW + 3 * 3 + ExitHW always holds.                               *)
RomShort == [a \in 0 .. 8 |->
               IF a = 4 THEN Fallback
               ELSE IF a % 3 = 2 THEN Ending(3)
               ELSE IF a = 6 THEN Wide(2)
               ELSE IF a % 2 = 0 THEN Plain(2) ELSE Plain(3)]

(* The source's own window, block length, prologue, exit and emitted sizes *)
(* (an ADD emits 26 halfwords, a JR 10), only the buffer cut from 131072   *)
(* halfwords to 4096: 22 ADDs and a JR, then straight-line ADDs cut into   *)
(* blocks of JIT_MAX_OPS.                                                  *)
RomAdds == [a \in 0 .. 299 |-> IF a = 22 THEN Ending(10) ELSE Plain(26)]
=============================================================================
