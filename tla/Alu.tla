-------------------------------- MODULE Alu --------------------------------
(***************************************************************************)
(* What the interpreter of v810_oploop.inc does with one integer           *)
(* instruction.  A machine state c is a record:                            *)
(*   P      the program registers     psw    the flag bits 0-9 of PSW      *)
(*   pc     the program counter       ts     the timestamp                 *)
(*   lastop the last opcode class     mem    the bytes of the bus          *)
(*   exc    the exception raised                                           *)
(* An instruction i is [op, r1, r2, imm]: the operation, the register      *)
(* fields in bits 0-4 and 5-9 of the first halfword, and the immediate or  *)
(* displacement.  Words are W bits wide (32 in the code), halfwords W/2,   *)
(* bytes W/4; a 5-bit field has ImmBits bits, and shift counts and bit     *)
(* offsets are taken modulo W as the code takes them modulo 32.            *)
(***************************************************************************)
EXTENDS Integers, Sequences, FiniteSets

CONSTANTS W, ImmBits, MemSize

AluAssumption == W \in {8, 12, 16, 32} /\ ImmBits \in 2..W /\ MemSize \in Nat /\ MemSize >= 4

Base == 2^W
Top == 2^(W - 1)
Half == 2^(W \div 2)
Byte == 2^(W \div 4)

Signed(x) == IF x >= Top THEN x - Base ELSE x

\* The low n bits of x, sign-extended to a word: sign_5, sign_8, sign_9, sign_16.
Extend(x, n) == LET y == x % 2^n IN (IF y >= 2^(n - 1) THEN y - 2^n ELSE y) % Base

Bit(x, k) == (x \div 2^k) % 2
OfBits(b(_)) ==
    LET sum[k \in 0..W] == IF k = 0 THEN 0 ELSE sum[k - 1] + b(k - 1) * 2^(k - 1)
    IN sum[W]
And(x, y) == OfBits(LAMBDA k : Bit(x, k) * Bit(y, k))
Or(x, y) == (x + y) - And(x, y)
Xor(x, y) == (x + y) - 2 * And(x, y)
Not(x) == (Base - 1) - x

------------------------------------------------------------------------------
(* PSW: Z, S, OV, CY are bits 0-3. *)
Z == 0
S == 1
OV == 2
CY == 3

SetFlag(psw, k, on) == (psw + (IF on THEN 2^k ELSE 0)) - Bit(psw, k) * 2^k
SetSZ(psw, v) == SetFlag(SetFlag(psw, Z, v = 0), S, v >= Top)
Flags(psw, v, ov, cy) == SetSZ(SetFlag(SetFlag(psw, OV, ov), CY, cy), v)

\* The sixteen conditions: the second eight negate the first.
TestCond(psw, k) ==
    LET z == Bit(psw, Z) = 1
        lt == Bit(psw, S) # Bit(psw, OV)
        holds == CASE k % 8 = 0 -> Bit(psw, OV) = 1 [] k % 8 = 1 -> Bit(psw, CY) = 1
                   [] k % 8 = 2 -> z                [] k % 8 = 3 -> z \/ Bit(psw, CY) = 1
                   [] k % 8 = 4 -> Bit(psw, S) = 1  [] k % 8 = 5 -> TRUE
                   [] k % 8 = 6 -> lt               [] k % 8 = 7 -> lt \/ z
    IN IF k < 8 THEN holds ELSE ~holds

Even(x) == x - (x % 2)
Tick(c, n) == [c EXCEPT !.ts = @ + n]
SetPREG(c, r, v) == [c EXCEPT !.P[r] = v % Base]
Next2(c) == [c EXCEPT !.pc = @ + 2]     \* the operand fetch of a two-byte format
Next4(c) == [c EXCEPT !.pc = @ + 4]
Exception(c, code) == [c EXCEPT !.exc = code]

Sum(y, x) == LET t == (y + x) % Base
             IN [v |-> t, ov |-> Bit(y, W - 1) = Bit(x, W-1) /\ Bit(y, W - 1) # Bit(t, W-1),
                 cy |-> t < y]
Difference(y, x) == LET t == (y - x) % Base
                    IN [v |-> t, ov |-> Bit(y, W - 1) # Bit(x, W-1) /\ Bit(y, W - 1) # Bit(t, W-1),
                        cy |-> t > y]
Flagged(c, d) == [c EXCEPT !.psw = Flags(@, d.v, d.ov, d.cy)]
Logical(c, v) == [c EXCEPT !.psw = SetSZ(SetFlag(@, OV, FALSE), v)]     \* CY stays

\* A shift of y by n: the value, and the last bit shifted out.
Shifted(op, y, n) ==
    LET left == op = "SHL"
        v == IF left THEN (y * 2^n) % Base
             ELSE IF op = "SHR" THEN y \div 2^n
             ELSE (Signed(y) \div 2^n) % Base
    IN [v |-> v, ov |-> FALSE, cy |-> n # 0 /\ Bit(y, IF left THEN W - n ELSE n - 1) = 1]

------------------------------------------------------------------------------
(* Formats I and II. *)
MOV(c, i) == SetPREG(Tick(Next2(c), 1), i.r2, c.P[i.r1])

AddSub(c, i) ==
    LET d == IF i.op = "ADD" THEN Sum(c.P[i.r2], c.P[i.r1])
             ELSE Difference(c.P[i.r2], c.P[i.r1])
        e == Flagged(Tick(Next2(c), 1), d)
    IN IF i.op = "CMP" THEN e ELSE SetPREG(e, i.r2, d.v)

Shift(c, i) == LET d == Shifted(i.op, c.P[i.r2], c.P[i.r1] % W)
               IN SetPREG(Flagged(Tick(Next2(c), 1), d), i.r2, d.v)

JMP(c, i) == [Tick(c, 3) EXCEPT !.pc = Even(c.P[i.r1])]

Logic(c, i) ==
    LET x == c.P[i.r1]  y == c.P[i.r2]
        v == CASE i.op = "OR" -> Or(x, y) [] i.op = "AND" -> And(x, y)
               [] i.op = "XOR" -> Xor(x, y) [] i.op = "NOT" -> Not(x)
    IN SetPREG(Logical(Tick(Next2(c), 1), v), i.r2, v)

MOV_I(c, i) == SetPREG(Tick(Next2(c), 1), i.r2, Extend(i.imm, ImmBits))

ADD_I(c, i) == LET d == Sum(c.P[i.r2], Extend(i.imm, ImmBits))
               IN SetPREG(Flagged(Tick(Next2(c), 1), d), i.r2, d.v)

SETF(c, i) == SetPREG(Tick(Next2(c), 1), i.r2, IF TestCond(c.psw, i.imm % 16) THEN 1 ELSE 0)

CMP_I(c, i) == Flagged(Tick(Next2(c), 1), Difference(c.P[i.r2], Extend(i.imm, ImmBits)))

Shift_I(c, i) ==
    LET op == CASE i.op = "SHL_I" -> "SHL" [] i.op = "SHR_I" -> "SHR" [] i.op = "SAR_I" -> "SAR"
        d == Shifted(op, c.P[i.r2], i.imm % W)
    IN SetPREG(Flagged(Tick(Next2(c), 1), d), i.r2, d.v)

------------------------------------------------------------------------------
(* Control transfer: imm is the displacement of a branch and i.r1 its      *)
(* condition.                                                              *)
Branch(c, i) == IF TestCond(c.psw, i.r1)
                THEN [Tick(c, 3) EXCEPT !.pc = (@ + Even(i.imm)) % Base]
                ELSE Next2(Tick(c, 1))
Jump(c, i) ==
    LET e == [Tick(c, 3) EXCEPT !.pc = (@ + Even(i.imm)) % Base]
    IN IF i.op = "JAL" THEN SetPREG(e, 31, c.pc + 4) ELSE e
NOP(c, i) == Next2(Tick(c, 1))

------------------------------------------------------------------------------
(* Format V: register r1, a halfword immediate, target r2. *)
Long(c, i) ==
    LET y == c.P[i.r1]
        e == Tick(Next4(c), 1)
        s == Extend(i.imm, W \div 2)
        v == CASE i.op \in {"MOVEA", "ADDI"} -> (y + s) % Base
               [] i.op = "ORI" -> Or(i.imm, y) [] i.op = "ANDI" -> And(i.imm, y)
               [] i.op = "XORI" -> Xor(i.imm, y) [] i.op = "MOVHI" -> (i.imm * Half + y) % Base
        f == CASE i.op = "ADDI" -> Flagged(e, Sum(y, s))
               [] i.op \in {"ORI", "ANDI", "XORI"} -> Logical(e, v)
               [] OTHER -> e
    IN SetPREG(f, i.r2, v)

------------------------------------------------------------------------------
(* The bus: 16 bits wide on this console, so that a word takes two reads   *)
(* or writes.  Addresses wrap over a small memory.                         *)
Read8(m, a) == m[a % MemSize]
Read16(m, a) == m[a % MemSize] + Byte * m[(a + 1) % MemSize]
Read32(m, a) == Read16(m, a) + Half * Read16(m, a + 2)
Write8(m, a, v) == [m EXCEPT ![a % MemSize] = v % Byte]
Write16(m, a, v) == [m EXCEPT ![a % MemSize] = v % Byte, ![(a + 1) % MemSize] = (v \div Byte) % Byte]
Write32(m, a, v) == Write16(Write16(m, a, v % Half), a + 2, v \div Half)

Address(c, i, align) == LET a == (Extend(i.imm, W \div 2) + c.P[i.r1]) % Base IN a - (a % align)
After(c, op) == [c EXCEPT !.lastop = op]

\* Clocks of a load on top of the first, after a load or after anything else
\* but a long instruction.
LoadClocks(c, near, far) == IF c.lastop = "long" THEN 0 ELSE IF c.lastop = "LD" THEN near ELSE far

LoadNarrow(c, i) ==
    LET v == IF i.op = "LD_B" THEN Extend(Read8(c.mem, Address(c, i, 1)), W \div 4)
             ELSE Extend(Read16(c.mem, Address(c, i, 2)), W \div 2)
    IN After(SetPREG(Tick(Next4(c), 1 + LoadClocks(c, 1, 2)), i.r2, v), "LD")

LD_W(c, i) == After(SetPREG(Tick(Next4(c), 1 + LoadClocks(c, 3, 4)), i.r2,
                            Read32(c.mem, Address(c, i, 4))), "LD")

\* Stores: the address register is r1, the value register r2.
StoreNarrow(c, i) ==
    LET m == IF i.op = "ST_B" THEN Write8(c.mem, Address(c, i, 1), c.P[i.r2])
             ELSE Write16(c.mem, Address(c, i, 2), c.P[i.r2])
    IN After([Tick(Next4(c), IF c.lastop = "ST" THEN 2 ELSE 1) EXCEPT !.mem = m], "ST")

ST_W(c, i) == After([Tick(Next4(c), IF c.lastop = "ST" THEN 4 ELSE 1) EXCEPT
                        !.mem = Write32(@, Address(c, i, 4), c.P[i.r2])], "ST")

In(c, i) ==
    LET v == CASE i.op = "IN_B" -> Read8(c.mem, Address(c, i, 1))
               [] i.op = "IN_H" -> Read16(c.mem, Address(c, i, 2))
               [] i.op = "IN_W" -> Read32(c.mem, Address(c, i, 4))
    IN After(SetPREG(Tick(Next4(c), IF i.op = "IN_W" THEN 5 ELSE 3), i.r2, v), "IN")

Out(c, i) ==
    LET v == c.P[i.r2]
        m == CASE i.op = "OUT_B" -> Write8(c.mem, Address(c, i, 1), v)
               [] i.op = "OUT_H" -> Write16(c.mem, Address(c, i, 2), v)
               [] i.op = "OUT_W" -> Write32(c.mem, Address(c, i, 4), v)
        more == IF c.lastop # "OUT" THEN 0 ELSE IF i.op = "OUT_W" THEN 3 ELSE 1
    IN After([Tick(Next4(c), 1 + more) EXCEPT !.mem = m], "OUT")

\* Compare and exchange: the word at r1 + imm with r2, against register 30.
CAXI(c, i) ==
    LET a == Address(c, i, 4)
        old == Read32(c.mem, a)
        d == Difference(c.P[i.r2], old)
    IN SetPREG([Flagged(Tick(Next4(c), 26), d) EXCEPT
                   !.mem = Write32(@, a, IF d.v = 0 THEN c.P[30] ELSE old)], i.r2, old)

------------------------------------------------------------------------------
(* Long instructions: the high half of a product and the remainder go to   *)
(* register 30 first, so that r2 = 30 gets the low half or the quotient.   *)
Wide(x) == [hi |-> (x \div Base) % Base, lo |-> x % Base]

Multiply(c, i) ==
    LET p == IF i.op = "MUL" THEN Signed(c.P[i.r1]) * Signed(c.P[i.r2])
             ELSE c.P[i.r1] * c.P[i.r2]
        lo == Wide(p).lo
        e == SetPREG(SetPREG(Tick(Next2(c), 13), 30, Wide(p).hi), i.r2, lo)
        ov == p # (IF i.op = "MUL" THEN Signed(lo) ELSE lo)
    IN After([e EXCEPT !.psw = SetFlag(SetSZ(@, lo), OV, ov)], "long")

\* C's division: towards zero.
Magnitude(a) == IF a < 0 THEN -a ELSE a
Quot(a, b) == LET q == Magnitude(a) \div Magnitude(b)
              IN IF (a < 0) # (b < 0) THEN -q ELSE q
Divided(c, i, q, r, ov) ==
    [SetPREG(SetPREG(Next2(c), 30, r), i.r2, q) EXCEPT
        !.psw = SetSZ(SetFlag(@, OV, ov), q % Base)]
ZeroDivide(c) == Exception(c, "ZERO_DIV")          \* pc is back on the instruction

DIVU(c, i) ==
    LET e == After(Tick(c, 36), "long")
        x == c.P[i.r1]  y == c.P[i.r2]
    IN IF x = 0 THEN ZeroDivide(e) ELSE Divided(e, i, y \div x, y % x, FALSE)

\* Mutant: without the most negative number over -1.
DIVUnguarded(c, i) ==
    LET e == After(Tick(c, 38), "long")
        x == Signed(c.P[i.r1])  y == Signed(c.P[i.r2])
    IN IF x = 0 THEN ZeroDivide(e) ELSE Divided(e, i, Quot(y, x), y - x * Quot(y, x), FALSE)

DIV(c, i) ==
    LET e == After(Tick(c, 38), "long")
        x == Signed(c.P[i.r1])  y == Signed(c.P[i.r2])
    IN IF x = 0 THEN ZeroDivide(e)
       ELSE IF y = -Top /\ x = -1 THEN Divided(e, i, Top, 0, TRUE)
       ELSE Divided(e, i, Quot(y, x), y - x * Quot(y, x), FALSE)

TRAP(c, i) == Exception(Tick(Next2(c), 15), "TRAP")

\* The word after the trampoline at the end of a fast-map region reads INVALID:
\* the pc is resolved again, and only an opcode that is still invalid raises.
INVALID(c, i) == IF i.imm = 0 THEN c ELSE Exception(Tick(c, 1), "INVALID_OP")

------------------------------------------------------------------------------
AddSubs == {"ADD", "SUB", "CMP"}
Shifts == {"SHL", "SHR", "SAR"}
Logics == {"OR", "AND", "XOR", "NOT"}
Shifts_I == {"SHL_I", "SHR_I", "SAR_I"}
Longs == {"MOVEA", "ADDI", "ORI", "ANDI", "XORI", "MOVHI"}
Ins == {"IN_B", "IN_H", "IN_W"}
Outs == {"OUT_B", "OUT_H", "OUT_W"}
IntegerOps == AddSubs \cup Shifts \cup Logics \cup Shifts_I \cup Longs \cup Ins \cup Outs
    \cup {"MOV", "JMP", "MOV_I", "ADD_I", "SETF", "CMP_I", "BCOND", "JR", "JAL", "NOP",
          "LD_B", "LD_H", "LD_W", "ST_B", "ST_H", "ST_W", "CAXI", "MUL", "MULU", "DIV",
          "DIVU", "TRAP", "INVALID"}

\* The dispatch table, and the register writes every turn of the loop makes:
\* register 0 reads zero, and lastop becomes the opcode where the handler does
\* not set it.
Execute(c0, i) ==
    LET c == [c0 EXCEPT !.P[0] = 0]
        other == After(c, "other")
    IN CASE i.op = "MOV" -> MOV(other, i)         [] i.op \in AddSubs -> AddSub(other, i)
         [] i.op \in Shifts -> Shift(other, i)    [] i.op = "JMP" -> JMP(other, i)
         [] i.op \in Logics -> Logic(other, i)    [] i.op = "MOV_I" -> MOV_I(other, i)
         [] i.op = "ADD_I" -> ADD_I(other, i)     [] i.op = "SETF" -> SETF(other, i)
         [] i.op = "CMP_I" -> CMP_I(other, i)     [] i.op \in Shifts_I -> Shift_I(other, i)
         [] i.op = "BCOND" -> Branch(other, i)    [] i.op \in {"JR", "JAL"} -> Jump(other, i)
         [] i.op = "NOP" -> NOP(other, i)         [] i.op \in Longs -> Long(other, i)
         [] i.op \in {"LD_B", "LD_H"} -> LoadNarrow(c, i)   [] i.op = "LD_W" -> LD_W(c, i)
         [] i.op \in {"ST_B", "ST_H"} -> StoreNarrow(c, i)  [] i.op = "ST_W" -> ST_W(c, i)
         [] i.op \in Ins -> In(c, i)              [] i.op \in Outs -> Out(c, i)
         [] i.op = "CAXI" -> CAXI(other, i)       [] i.op \in {"MUL", "MULU"} -> Multiply(c, i)
         [] i.op = "DIVU" -> DIVU(c, i)           [] i.op = "DIV" -> DIV(c, i)
         [] i.op = "TRAP" -> TRAP(other, i)       [] i.op = "INVALID" -> INVALID(other, i)
=============================================================================
