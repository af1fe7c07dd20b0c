------------------------------- MODULE Thumb -------------------------------
(***************************************************************************)
(* The ARM code that jit_translate of v810_jit.c emits for one V810        *)
(* instruction, its execution, and the comparison with the interpreter.    *)
(* A block keeps the program registers under r8, the system registers      *)
(* under r7 and the timestamp in r6, all part of the machine state c of    *)
(* Alu; r0 to r3 and the APSR are scratch, and a call of jit_mem_* leaves  *)
(* junk in r1-r3 and the flags.                                            *)
(* An emitted instruction is a tuple: its name, then its operands.         *)
(***************************************************************************)
EXTENDS Arithmetic

\* PSW is a word, and translated code lies in the cartridge, where no pc wraps.
ThumbAssumption == \A d \in States : d.psw \in WordValues /\ d.pc \in 0 .. Base - 5
ASSUME ThumbAssumption

VARIABLE jit                            \* the machine after the translated code

\* N, Z, C, V are the top four bits of the APSR.
ArmN == W - 1
ArmZ == W - 2
ArmC == W - 3
ArmV == W - 4

------------------------------------------------------------------------------
(* Execution. *)
\* The value and the carry and overflow of a data instruction; a logical one
\* leaves the two flags, and so does a shift by nothing the carry.
ArmResult(name, y, x, apsr) ==
    LET keep(v) == [v |-> v % Base, cy |-> Bit(apsr, ArmC) = 1, ov |-> Bit(apsr, ArmV) = 1]
    IN CASE name = "ADD" -> Sum(y, x)
         [] name = "SUB" -> [Difference(y, x) EXCEPT !.cy = (x <= y)]
         [] name \in Shifts -> IF x = 0 THEN keep(y)
                               ELSE [Shifted(name, y, x) EXCEPT !.ov = keep(0).ov]
         [] name = "AND" -> keep(And(y, x))      [] name = "ORR" -> keep(Or(y, x))
         [] name = "EOR" -> keep(Xor(y, x))      [] name = "BIC" -> keep(And(y, Not(x)))
         [] name = "MVN" -> keep(Not(x))         [] name = "MOV" -> keep(x)
         [] name = "ROR" -> keep((y \div 2^x) + (y % 2^x) * 2^(W - x))
         [] name = "UXTH" -> keep(x % Half)
         [] name = "MOD" -> keep(y % x)

\* One instruction u of a block in the scratch state s; junk is what a callee
\* leaves behind.
Operand(s, o) == IF o[1] = "r" THEN s.r[o[2]] ELSE o[2]
Load(s, rd, v) == [s EXCEPT !.r[rd] = v]

Data(s, u) ==                   \* <<name, sets flags, rd or -1, rn, operand>>
    LET d == ArmResult(u[1], s.r[u[4]], Operand(s, u[5]), s.apsr)
        f == SetFlag(SetFlag(SetFlag(SetFlag(s.apsr, ArmN, d.v >= Top), ArmZ, d.v = 0),
                             ArmC, d.cy), ArmV, d.ov)
        t == IF u[2] THEN [s EXCEPT !.apsr = f] ELSE s
    IN IF u[3] = -1 THEN t ELSE Load(t, u[3], d.v)

\* jit_mem_r8s, r16s, w8, w16: r1 is the address and r2 the value.
Call(s, f, junk) ==
    LET m == s.c.mem  a == s.r[1]
        v == CASE f = "r8s" -> Extend(Read8(m, a), W \div 4)
               [] f = "r16s" -> Extend(Read16(m, a), W \div 2)
               [] OTHER -> junk
        n == CASE f = "w8" -> Write8(m, a, s.r[2])
               [] f = "w16" -> Write16(m, a, s.r[2])
               [] OTHER -> m
    IN [s EXCEPT !.c.mem = n, !.apsr = junk,
                 !.r = [k \in 0..3 |-> IF k = 0 THEN v ELSE IF junk = 0 THEN @[k] ELSE junk]]

Do(s, u, junk) ==
    CASE s.skip > 0 -> [s EXCEPT !.skip = @ - 1]
      [] s.skip = 0 /\ u[1] = "LDP" -> Load(s, u[2], IF u[3] = 0 THEN 0 ELSE s.c.P[u[3]])
      [] s.skip = 0 /\ u[1] = "STP" -> IF u[3] = 0 THEN s ELSE [s EXCEPT !.c.P[u[3]] = s.r[u[2]]]
      [] s.skip = 0 /\ u[1] = "LDPSW" -> Load(s, u[2], s.c.psw)
      [] s.skip = 0 /\ u[1] = "STPSW" -> [s EXCEPT !.c.psw = s.r[u[2]]]
      [] s.skip = 0 /\ u[1] = "MRS" -> Load(s, u[2], s.apsr)
      [] s.skip = 0 /\ u[1] = "MOV32" -> Load(s, u[2], u[3] % Base)
      [] s.skip = 0 /\ u[1] = "CLOCK" -> [s EXCEPT !.c.ts = @ + u[2]]
      [] s.skip = 0 /\ u[1] = "BEQ" -> IF Bit(s.apsr, ArmZ) = 1 THEN [s EXCEPT !.skip = u[2]] ELSE s
      [] s.skip = 0 /\ u[1] = "BNE" -> IF Bit(s.apsr, ArmZ) = 0 THEN [s EXCEPT !.skip = u[2]] ELSE s
      [] s.skip = 0 /\ u[1] = "CBZ" -> IF s.r[u[2]] = 0 THEN [s EXCEPT !.skip = u[3]] ELSE s
      [] s.skip = 0 /\ u[1] = "BL" -> Call(s, u[2], junk)
      [] s.skip = 0 /\ u[1] = "EXIT" -> [s EXCEPT !.c.pc = s.r[0], !.skip = 1000]
      [] OTHER -> Data(s, u)

\* The emitted code, an instruction after the other.
Exec(s, code, junk) ==
    LET at[k \in 0 .. Len(code)] == IF k = 0 THEN s ELSE Do(at[k - 1], code[k], junk)
    IN at[Len(code)]
\* A block from its prologue to its epilogue.
Run(d, code, junk) ==
    Exec([c |-> d, r |-> [k \in 0..3 |-> junk], apsr |-> junk, skip |-> 0], code, junk).c

------------------------------------------------------------------------------
(* The emitters. *)
R(k) == <<"r", k>>
I(v) == <<"i", v % Base>>
LdrPreg(rt, ri) == <<"LDP", rt, ri>>          \* a MOVW of 0 for register 0
StrPreg(rt, ri) == <<"STP", rt, ri>>          \* nothing for register 0
LdrPsw(rt) == <<"LDPSW", rt>>
StrPsw(rt) == <<"STPSW", rt>>
Mov32(rd, v) == <<"MOV32", rd, v>>            \* MOVW, and MOVT when the top half is not zero
MovReg(rd, rn) == <<"MOV", FALSE, rd, rd, R(rn)>>
AddClock(n) == <<"CLOCK", n>>
Bl(f) == <<"BL", f>>
Exit(pc) == <<Mov32(0, pc), <<"EXIT">>>>

\* emit_psw_flags.  LSR by 28 leaves NZCV in the four low bits of a word; the
\* rotation by 2 is over the whole word, so that C and V go to its top.
EmitPswFlags(sub, mask) ==
    <<<<"MRS", 2>>, <<"SHR", FALSE, 2, 2, I(W - 4)>>, <<"ROR", FALSE, 2, 2, I(2)>>>>
    \o (IF sub THEN <<<<"EOR", FALSE, 2, 2, I(8)>>>> ELSE <<>>)
    \o <<<<"AND", FALSE, 2, 2, I(mask)>>, LdrPsw(1), <<"BIC", FALSE, 1, 1, I(15)>>,
         <<"ORR", FALSE, 1, 1, R(2)>>, StrPsw(1)>>

\* S^OV in bit 0 of r1.
SignXorOverflow == <<<<"SHR", FALSE, 1, 0, I(1)>>, <<"SHR", FALSE, 2, 0, I(2)>>,
                     <<"EOR", FALSE, 1, 1, R(2)>>>>
OrZ == <<<<"ORR", FALSE, 1, 1, R(0)>>>>
MaskOf(k) == CASE k = 0 -> 4 [] k = 1 -> 8 [] k = 2 -> 1 [] k = 4 -> 2

EmitCondBranch(cond, taken, not) ==
    LET k == cond % 8
        test == CASE k \in {0, 1, 2, 4} -> <<<<"AND", TRUE, -1, 0, I(MaskOf(k))>>>>
                  [] k = 3 -> <<<<"AND", FALSE, 1, 0, I(9)>>, <<"AND", TRUE, -1, 0, R(1)>>>>
                  [] k = 6 -> SignXorOverflow \o <<<<"AND", TRUE, -1, 1, I(1)>>>>
                  [] k = 7 -> SignXorOverflow \o OrZ \o <<<<"AND", TRUE, -1, 1, I(1)>>>>
        go == <<AddClock(3)>> \o Exit(taken)
        stay == <<AddClock(1)>> \o Exit(not)
        over == IF cond < 8 THEN <<<<"BEQ", Len(go)>>>> ELSE <<<<"BNE", Len(go)>>>>
    IN CASE cond = 5 -> <<LdrPsw(0)>> \o go
         [] cond = 13 -> <<LdrPsw(0)>> \o stay
         [] OTHER -> <<LdrPsw(0)>> \o test \o over \o go \o stay

EmitSetf(cond, rd) ==
    LET k == cond % 8
        shift(n) == <<"SHR", FALSE, 1, 0, I(n)>>
        value == CASE k = 0 -> <<shift(2)>>            [] k = 1 -> <<shift(3)>>
                   [] k = 2 -> <<MovReg(1, 0)>>        [] k = 3 -> <<shift(3)>> \o OrZ
                   [] k = 4 -> <<shift(1)>>            [] k = 5 -> <<Mov32(1, 1)>>
                   [] k = 6 -> SignXorOverflow         [] k = 7 -> SignXorOverflow \o OrZ
        negate == IF cond < 8 THEN <<>> ELSE <<<<"EOR", TRUE, 1, 1, I(1)>>>>
    IN <<LdrPsw(0)>> \o value \o <<<<"AND", FALSE, 1, 1, I(1)>>>> \o negate
         \o <<<<"AND", FALSE, 1, 1, I(1)>>, StrPreg(1, rd)>>

\* A data instruction on r0 and r1 that sets the flags.
DataS(name) == <<name, TRUE, 0, 0, R(1)>>
Done == <<AddClock(1)>>

EmitMoveAdd(i) ==
    CASE i.op = "MOV" -> <<LdrPreg(0, i.r1), StrPreg(0, i.r2)>> \o Done
      [] i.op = "ADD" -> <<LdrPreg(0, i.r2), LdrPreg(1, i.r1), DataS("ADD"), StrPreg(0, i.r2)>>
                         \o EmitPswFlags(FALSE, 15) \o Done
      [] i.op = "SUB" -> <<LdrPreg(0, i.r2), LdrPreg(1, i.r1), DataS("SUB"), StrPreg(0, i.r2)>>
                         \o EmitPswFlags(TRUE, 15) \o Done
      [] i.op = "CMP" -> <<LdrPreg(0, i.r2), LdrPreg(1, i.r1), DataS("SUB")>>
                         \o EmitPswFlags(TRUE, 15) \o Done

\* The CBZ tests r1, which emit_psw_flags has overwritten with PSW.
EmitShift(i) ==
    <<LdrPreg(0, i.r2), LdrPreg(1, i.r1), <<"MOD", FALSE, 1, 1, I(W)>>, DataS(i.op),
      StrPreg(0, i.r2)>> \o EmitPswFlags(FALSE, 11)
    \o <<<<"CBZ", 1, 3>>, LdrPsw(1), <<"BIC", FALSE, 1, 1, I(8)>>, StrPsw(1)>> \o Done

\* Mutant: the target with its low bit.
EmitJmpOdd(i) == <<LdrPreg(0, i.r1), AddClock(3), <<"EXIT">>>>
EmitJmp(i) == <<LdrPreg(0, i.r1), <<"BIC", FALSE, 0, 0, I(1)>>, AddClock(3), <<"EXIT">>>>

EmitLogic(i) ==
    (IF i.op = "NOT" THEN <<LdrPreg(0, i.r1), <<"MVN", TRUE, 0, 0, R(0)>>>>
     ELSE <<LdrPreg(0, i.r2), LdrPreg(1, i.r1),
            DataS(CASE i.op = "OR" -> "ORR" [] i.op = "AND" -> "AND" [] i.op = "XOR" -> "EOR")>>)
    \o <<StrPreg(0, i.r2)>> \o EmitPswFlags(FALSE, 3) \o Done

EmitImmediate(i) ==
    LET imm == Extend(i.imm, ImmBits)
    IN CASE i.op = "MOV_I" -> <<Mov32(0, imm), StrPreg(0, i.r2)>> \o Done
         [] i.op = "ADD_I" -> <<LdrPreg(0, i.r2), Mov32(1, imm), DataS("ADD"), StrPreg(0, i.r2)>>
                              \o EmitPswFlags(FALSE, 15) \o Done
         [] i.op = "SETF" -> EmitSetf(i.imm % 16, i.r2) \o Done
         [] i.op = "CMP_I" -> <<LdrPreg(0, i.r2), Mov32(1, imm), DataS("SUB")>>
                              \o EmitPswFlags(TRUE, 15) \o Done

\* A shift by a constant: S and Z of the operand when it is zero.
EmitShift_I(i) ==
    LET n == i.imm % W
        op == CASE i.op = "SHL_I" -> "SHL" [] i.op = "SHR_I" -> "SHR" [] i.op = "SAR_I" -> "SAR"
    IN <<LdrPreg(0, i.r2)>>
       \o (IF n = 0 THEN <<<<"MOV", TRUE, 1, 1, R(0)>>>> \o EmitPswFlags(FALSE, 3)
           ELSE <<<<op, TRUE, 0, 0, I(n)>>>> \o EmitPswFlags(FALSE, 11))
       \o <<StrPreg(0, i.r2)>> \o Done

Operands(i, v) == <<LdrPreg(0, i.r1), Mov32(1, v)>>
PlainAdd(i, v) == Operands(i, v) \o <<<<"ADD", FALSE, 0, 0, R(1)>>, StrPreg(0, i.r2)>>
EmitAddImmediate(i) ==
    LET s == Extend(i.imm, W \div 2)
    IN IF i.op = "MOVEA" THEN PlainAdd(i, s)
       ELSE Operands(i, s) \o <<DataS("ADD"), StrPreg(0, i.r2)>> \o EmitPswFlags(FALSE, 15)
EmitLong(i) ==
    LET logic(name) == Operands(i, i.imm) \o <<DataS(name), StrPreg(0, i.r2)>>
                       \o EmitPswFlags(FALSE, 3)
    IN (CASE i.op \in {"MOVEA", "ADDI"} -> EmitAddImmediate(i)
          [] i.op = "MOVHI" -> PlainAdd(i, i.imm * Half)
          [] i.op = "ORI" -> logic("ORR")
          [] i.op = "ANDI" -> logic("AND")
          [] i.op = "XORI" -> logic("EOR")) \o Done

\* JR and JAL: the exit is the target.
EmitJump(i, pc) ==
    (IF i.op = "JAL" THEN <<Mov32(0, pc + 4), StrPreg(0, 31)>> ELSE <<>>)
    \o <<AddClock(3)>> \o Exit(pc + Even(i.imm))

\* r1 = base + displacement, without its low bits.
EmitAddress(i, low) ==
    <<LdrPreg(1, i.r1), Mov32(2, Extend(i.imm, W \div 2)), <<"ADD", FALSE, 1, 1, R(2)>>>>
    \o (IF low = 0 THEN <<>> ELSE <<<<"BIC", FALSE, 1, 1, I(low)>>>>)

\* Mutant: the low halfword waits in r2, where the address is computed again.
EmitLoadInR2(i) ==
    CASE i.op = "LD_B" -> EmitAddress(i, 0) \o <<Bl("r8s"), StrPreg(0, i.r2), AddClock(3)>>
      [] i.op = "LD_H" -> EmitAddress(i, 1) \o <<Bl("r16s"), StrPreg(0, i.r2), AddClock(3)>>
      [] i.op = "LD_W" ->
             EmitAddress(i, 3) \o <<Bl("r16s"), <<"UXTH", FALSE, 2, 2, R(0)>>>>
             \o EmitAddress(i, 3) \o <<<<"ADD", FALSE, 1, 1, I(2)>>, Bl("r16s"),
                 <<"SHL", FALSE, 0, 0, I(W \div 2)>>, <<"ORR", FALSE, 0, 0, R(2)>>,
                 StrPreg(0, i.r2), AddClock(4)>>

EmitLoad(i) ==
    CASE i.op = "LD_B" -> EmitAddress(i, 0) \o <<Bl("r8s"), StrPreg(0, i.r2), AddClock(3)>>
      [] i.op = "LD_H" -> EmitAddress(i, 1) \o <<Bl("r16s"), StrPreg(0, i.r2), AddClock(3)>>
      [] i.op = "LD_W" ->       \* the low halfword waits in r3 for the second call
             EmitAddress(i, 3) \o <<Bl("r16s"), <<"UXTH", FALSE, 3, 3, R(0)>>>>
             \o EmitAddress(i, 3) \o <<<<"ADD", FALSE, 1, 1, I(2)>>, Bl("r16s"),
                 <<"SHL", FALSE, 0, 0, I(W \div 2)>>, <<"ORR", FALSE, 0, 0, R(3)>>,
                 StrPreg(0, i.r2), AddClock(4)>>

EmitStore(i) ==
    CASE i.op = "ST_B" -> EmitAddress(i, 0) \o <<LdrPreg(2, i.r2), Bl("w8"), AddClock(2)>>
      [] i.op = "ST_H" -> EmitAddress(i, 1) \o <<LdrPreg(2, i.r2), Bl("w16"), AddClock(2)>>
      [] i.op = "ST_W" ->
             EmitAddress(i, 3) \o <<LdrPreg(2, i.r2), Bl("w16")>>
             \o EmitAddress(i, 3) \o <<<<"ADD", FALSE, 1, 1, I(2)>>, LdrPreg(2, i.r2),
                 <<"SHR", FALSE, 2, 2, I(W \div 2)>>, Bl("w16"), AddClock(2)>>

EmitBranch(i, pc) == IF i.op = "NOP" THEN Done
                     ELSE EmitCondBranch(i.r1, (pc + Even(i.imm)) % Base, pc + 2)

------------------------------------------------------------------------------
Loads == {"LD_B", "LD_H", "LD_W"}
Stores == {"ST_B", "ST_H", "ST_W"}
EndsBlock == {"JMP", "JR", "JAL", "BCOND"}
\* Everything else ends the block for the interpreter.
Translated == {"MOV", "MOV_I", "ADD_I", "SETF", "CMP_I", "NOP"} \cup AddSubs \cup Shifts \cup Logics
    \cup Shifts_I \cup Longs \cup Loads \cup Stores \cup EndsBlock
Long4 == Longs \cup Loads \cup Stores

\* The block jit_translate makes of instruction i when the next one is not
\* translated.
Emitted(i, pc) ==
    (CASE i.op \in {"MOV"} \cup AddSubs -> EmitMoveAdd(i)
       [] i.op \in Shifts -> EmitShift(i)             [] i.op = "JMP" -> EmitJmp(i)
       [] i.op \in Logics -> EmitLogic(i)             [] i.op \in Shifts_I -> EmitShift_I(i)
       [] i.op \in {"MOV_I", "ADD_I", "SETF", "CMP_I"} -> EmitImmediate(i)
       [] i.op \in Longs -> EmitLong(i)               [] i.op \in {"JR", "JAL"} -> EmitJump(i, pc)
       [] i.op \in Loads -> EmitLoad(i)               [] i.op \in Stores -> EmitStore(i)
       [] i.op \in {"NOP", "BCOND"} -> EmitBranch(i, pc))
    \o (IF i.op \in EndsBlock THEN <<>>
        ELSE Exit(IF i.op \in Long4 THEN pc + 4 ELSE pc + 2))

------------------------------------------------------------------------------
(* The translated code against the interpreter. *)
ExecuteBoth ==
    /\ ExecuteInteger
    /\ jit' = IF job'.op \in Translated THEN Run(was', Emitted(job', was'.pc), job'.junk) ELSE was'
ThumbSpec == /\ Rest /\ jit = Unknown
             /\ [][ExecuteBoth \/ (Forget /\ jit' = Unknown)]_<<arithmetic, jit>>

LowHalfLost == job.op = "LD_W" /\ job.junk # 0      \* r3 did not outlive the second call
\* What a block leaves in register r: the interpreter's value, or, of a word loaded
\* without its low halfword, the high one joined with what the callee left in r3.
LeftIn(r) == IF LowHalfLost /\ r = job.r2 THEN Or(c.P[r] - (c.P[r] % Half), job.junk) ELSE c.P[r]
Timed == job.op \notin Loads \cup Stores     \* a block does not know lastop

\* Every instruction jit_translate translates leaves the registers, the memory,
\* the next pc, the clocks and the flags S and Z of the interpreter, with one
\* register twice, with register 0, for every condition and combination of flags
\* (v810_jit.c:496).  One register does not agree: that of LD_W when the callee of
\* the second call uses r3, as the calling convention permits (v810_jit.c:977);
\* its low halfword is then not the one in memory, and nothing else is lost.  The
\* clocks of loads and stores are left open; CY and OV are for JitFlagsAgree.
JitAgrees ==
    stage = "done" /\ job.op \in Translated =>
        /\ \A r \in Regs \ {0} : jit.P[r] = LeftIn(r)
        /\ jit.mem = c.mem /\ jit.pc = c.pc
        /\ Bit(jit.psw, Z) = Bit(c.psw, Z) /\ Bit(jit.psw, S) = Bit(c.psw, S)
        /\ Timed => jit.ts = c.ts

\* v810_jit.c:210: "ROR.W r2, r2, #2 -> bits[3:0] = [C,V,N,Z] = V810 [CY,OV,S,Z]":
\* an addition or subtraction leaves the four flags of the interpreter.
JitFlagsAgree ==
    stage = "done" /\ job.op \in AddSubs \cup {"ADD_I", "CMP_I", "ADDI"} => jit.psw = c.psw
=============================================================================
