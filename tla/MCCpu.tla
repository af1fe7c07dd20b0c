-------------------------------- MODULE MCCpu --------------------------------
(***************************************************************************)
(* One instruction of the CPU at a time, for TLC: the interpreter executes *)
(* an integer instruction (c), next to it the translated code of the same  *)
(* instruction (jit); or a floating-point operation; or a bit string, over *)
(* several turns, with events and interrupts between them.                 *)
(***************************************************************************)
EXTENDS Thumb, SoftFloat, BitStrings, TLC

CONSTANTS Words,        \* operands of integer instructions
          Floats,       \* operands of floating-point instructions
          Junk,         \* what a call of the bus leaves in r1-r3 (0: preserved)
          Kinds         \* the parts of the processor to explore

ASSUME FloatAssumption

vars == <<arithmetic, jit>>

Machine(P, psw, lastop, mem) ==
    [P |-> [r \in Regs |-> IF r \in DOMAIN P THEN P[r] ELSE 7], psw |-> psw, pc |-> 64, ts |-> 0,
     lastop |-> lastop, mem |-> mem, exc |-> "none", have_src |-> FALSE, src |-> 0,
     have_dst |-> FALSE, dst |-> 0, in_bstr |-> "none", stop |-> FALSE, found |-> FALSE]
Memory == [a \in 0..MemSize - 1 |-> (a * 5 + 3) % Byte]
Instr(op, r1, r2, imm) == [op |-> op, r1 |-> r1, r2 |-> r2, imm |-> imm, junk |-> 0]

Init == Rest /\ jit = Unknown

------------------------------------------------------------------------------
(* The integer instructions, and the states they are tried in. *)
RegOps == {"MOV", "JMP", "MUL", "MULU", "DIV", "DIVU"} \cup AddSubs \cup Shifts \cup Logics
MemoryOps == Loads \cup Stores \cup Ins \cup Outs \cup {"CAXI"}

\* A single pair of registers for most operands, and the other pairs - one
\* register twice, register 0, register 30 - with the flags set.
Pairs(psw) == IF psw = 0 THEN {<<1, 2>>} ELSE {<<1, 2>>, <<1, 1>>, <<0, 2>>, <<1, 0>>, <<2, 30>>}

IntegerInstrs(psw) ==
    {Instr(op, p[1], p[2], 0) : op \in RegOps, p \in Pairs(psw)}
        \cup {Instr(op, 0, 2, n) : op \in Imm5Ops, n \in {0, 1, 7, 8, 11, 15}}
        \cup {Instr(op, 1, 2, n) : op \in Longs, n \in {0, 1, 31, 32, 63}}
\* Branches, SETF and jumps from every combination of the flags.
Conditional ==
    {Instr("SETF", 0, 2, k) : k \in 0..15}
        \cup {Instr("BCOND", k, 0, n) : k \in 0..15 \ {13}, n \in {6, Base - 8}}
        \cup {Instr(op, 0, 0, 2 * k) : op \in {"JR", "JAL", "NOP", "TRAP"}, k \in 0..15}
        \cup {Instr("INVALID", 0, 0, again) : again \in {0, 1}}
Transfers ==
    {[Instr(op, 1, 2, n) EXCEPT !.junk = junk] : op \in MemoryOps, n \in {0, 1, 7, 62}, junk \in Junk}

Computing == {Machine((1 :> x) @@ (2 :> y), psw, "other", Memory) : x \in Words, y \in Words, psw \in {0, 15}}
Branching == {Machine((1 :> 5) @@ (2 :> 9), psw, "long", Memory) : psw \in 0..15}
Transferring ==
    {Machine((1 :> a) @@ (2 :> v), 0, last, [Memory EXCEPT ![31] = 0]) :
        a \in {0, 5, 30}, v \in {Read32(Memory, 4), 1365, 2730, Base - 1}, last \in {"other", "LD", "ST", "OUT", "long"}}
Tried == IF "integer" \in Kinds THEN UNION {Computing, Branching, Transferring} ELSE {}
\* What is executed where: transfers with a zero in the last byte, branches after
\* a long instruction.
CodeOf(d) == CASE d.mem[31] = 0 -> Transfers [] d.lastop = "long" -> Conditional [] OTHER -> IntegerInstrs(d.psw)

ExecuteFloat ==
    /\ "float" \in Kinds /\ stage = "idle"
    /\ \E op \in FloatOps, x, y \in Floats :
           LET d == Machine((1 :> y) @@ (2 :> x), 15, "other", Memory)
               i == Instr(op, 1, 2, 0)
           IN stage' = "done" /\ was' = d /\ job' = i /\ c' = fpu_subop(d, i) /\ jit' = d

------------------------------------------------------------------------------
(* Bit strings: the source in words 0-2, the destination in words 3-5; the *)
(* interrupt handler moves bits from word 6 to word 7.                     *)
Turn(d, op) == \E next \in {0, 1000} :
    /\ c' = BSTR(d, op, next)
    /\ stage' = IF c'.in_bstr = "none" THEN "done" ELSE "suspended"

\* For a search: words 0-2 hold one bit that is looked for, at most.
Sparse(one, at) == [a \in 0..MemSize - 1 |->
    LET v == IF a = at \div (W \div 4) /\ at < 3 * W THEN 2^(at % (W \div 4)) ELSE 0
    IN IF one THEN v ELSE (Byte - 1) - v]

StartString ==
    /\ "bits" \in Kinds /\ stage = "idle"
    /\ \E so \in {0, 4, W - 1}, len \in {0, 1, 7, W + 1, 2 * W - 4}, op \in BitOps \cup Searches :
       \E at \in IF op \in BitOps THEN {0, 4, W - 1} ELSE {0, 5, W - 1, W, W + 4, 2 * W, 3 * W} :
          LET moves == (26 :> at) @@ (27 :> so) @@ (28 :> len) @@ (29 :> 12) @@ (30 :> 0)
              looks == (27 :> so) @@ (28 :> len) @@ (30 :> IF op \in Down THEN 8 ELSE 0)
              d == IF op \in BitOps THEN Machine(moves, 0, "other", Memory)
                   ELSE Machine(looks, 0, "other", Sparse(op \in For1, at))
          IN was' = d /\ job' = Instr(op, 0, 0, 0) /\ Turn(d, op)
    /\ UNCHANGED jit

\* The next turn of a suspended one, at once or after a handler.
ResumeString == stage \in {"suspended", "interrupted"} /\ Turn(c, job.op) /\ UNCHANGED <<was, job, jit>>

\* An interrupt between two turns: its handler runs a bit string of its own,
\* restores the registers and returns to the instruction.
InterruptString ==
    /\ stage = "suspended" /\ stage' = "interrupted"
    /\ LET h == [TakeInterrupt(c) EXCEPT !.P = (26 :> 0) @@ (27 :> 3) @@ (28 :> 5) @@ (29 :> 28)
                                              @@ (30 :> 24) @@ @]
       IN c' = [BSTR(h, "NOTBSU", 100000) EXCEPT !.P = c.P, !.psw = c.psw, !.pc = c.pc]
    /\ UNCHANGED <<was, job, jit>>

Finish == Forget /\ jit' = Unknown

Next == \/ ExecuteBoth \/ ExecuteFloat
        \/ StartString \/ ResumeString \/ InterruptString \/ Finish
Spec == Init /\ [][Next]_vars

------------------------------------------------------------------------------
(* Floating point against exact rationals. *)
\* The positive rational num/den * 2^e, rounded to F + 1 bits, ties to even:
\* the exponent field it needs and the significand.
Nearest(num, den, e) ==
    LET scale(k) == IF k >= 0 THEN <<num, den * 2^k>> ELSE <<num * 2^(-k), den>>
        fits(k) == LET s == scale(k) IN 2^F * s[2] <= s[1] /\ s[1] < 2^(F + 1) * s[2]
        k == CHOOSE j \in -(F + 2)..(2 * F + 8) : fits(j)
        n == scale(k)[1]  d == scale(k)[2]
        q == n \div d  r == n % d
        up == IF 2 * r > d \/ (2 * r = d /\ q % 2 = 1) THEN q + 1 ELSE q
        carry == up = 2^(F + 1)
    IN [exp |-> e + k + Bias + F + (IF carry THEN 1 ELSE 0),
        sig |-> IF carry THEN 2^F ELSE up, exact |-> r = 0]

\* A non-zero operand is Man * 2^Pow.
Man(a) == 2^F + Frac(a)
Pow(a) == Exp(a) - (Bias + F)
HasFlag(k) == Bit(c.psw, k) = 1
Fails(flag, code) == c.exc = code /\ HasFlag(flag) /\ SameRegs /\ c.pc = was.pc

\* The result of an operation whose exact value is num/den * 2^e.
Rounded(neg, n) ==
    LET over == n.exp > Special - 1
        under == n.exp < 1
        exp == IF over THEN n.exp - WrapExp ELSE n.exp
    IN /\ c.P[2] = IF under THEN Pack(neg, 0, 0) ELSE Pack(neg, exp, n.sig - 2^F)
       /\ HasFlag(FPR) = (under \/ ~n.exact) /\ HasFlag(FUD) = under
       /\ HasFlag(FOV) = over /\ c.exc = (IF over THEN "FOV" ELSE "none")
       /\ c.pc = (IF over THEN was.pc ELSE was.pc + 4)
       /\ IsFlag(Z) = under /\ IsFlag(S) = (neg /\ ~under) /\ IsFlag(CY) = IsFlag(S) /\ ~IsFlag(OV)
RoundsTo(neg, num, den, e) == Rounded(neg, Nearest(num, den, e))
ZeroResult(neg) == c.P[2] = Pack(neg, 0, 0) /\ IsFlag(Z) /\ ~IsFlag(S) /\ c.exc = "none"

\* The exact x + y, y already negated for a subtraction.
Adds(x, y) ==
    LET min == IF Pow(x) < Pow(y) THEN Pow(x) ELSE Pow(y)
        far == (Pow(x) + Pow(y)) - min - (F + 4)
        man(a, low) == IF Pow(a) < low THEN 1 ELSE Man(a) * 2^(Pow(a) - low)
        term(a, low) == IF Exp(a) = 0 THEN 0 ELSE IF Neg(a) THEN -man(a, low) ELSE man(a, low)
        total(sum, low) == IF sum # 0 THEN RoundsTo(sum < 0, Magnitude(sum), 1, low)
                           ELSE ZeroResult(x = y /\ Neg(x))
        from(low) == total(term(x, low) + term(y, low), low)
    IN from(IF min < far THEN far ELSE min)         \* far below, only that it is not zero counts
\* An integer rounded by up(q, twice the remainder, the divisor).
Integer2(y, up(_, _, _)) ==
    LET p == Pow(y)
        d == IF p < 0 THEN 2^(-p) ELSE 1
        m == IF Exp(y) = 0 THEN 0 ELSE IF p >= 0 THEN Man(y) * 2^p
             ELSE up(Man(y) \div d, 2 * (Man(y) % d), d)
        v == IF Neg(y) THEN -m ELSE m
    IN IF InRange(v) THEN /\ c.P[2] = v % Base /\ c.exc = "none"
                          /\ HasFlag(FPR) = (Exp(y) # 0 /\ p < 0 /\ Man(y) % d # 0)
       ELSE Fails(FIV, "FIV")
ToEven(q, r, d) == IF r > d \/ (r = d /\ q % 2 = 1) THEN q + 1 ELSE q
Chopped(q, r, d) == q

\* The order of two operands: their words, negated below zero.
Key(a) == IF Neg(a) THEN -(a % Top) ELSE a

\* An operation of the FPU gives the exact result rounded to nearest even; a
\* result too large keeps its fraction with the exponent wrapped and raises, one
\* too small is a zero of its sign; reserved operands, zero divisors and integers
\* out of range leave the registers and the pc (softfloat.c, v810_cpu.cpp:940).
FloatsRounded ==
    stage = "done" /\ job.op \in FloatOps =>
        LET x == was.P[2]  y == was.P[1]
            neg == Neg(x) # Neg(y)
            minus(a) == (a + Top) % Base
            used == IF job.op \in MathOps \cup {"CMPF_S"} THEN {x, y} ELSE {y}
        IN CASE job.op \in {"XB", "XH", "REV", "MPYHW"} -> TRUE
             [] job.op = "CVT_WS" -> IF y = 0 THEN ZeroResult(FALSE)
                                     ELSE RoundsTo(Neg(y), Magnitude(Signed(y)), 1, 0)
             [] job.op # "CVT_WS" /\ \E v \in used : ReservedOperand(v) -> Fails(FRO, "FRO")
             [] OTHER ->
                CASE job.op = "ADDF_S" -> Adds(x, y)
                  [] job.op = "SUBF_S" -> Adds(x, minus(y))
                  [] job.op = "MULF_S" -> IF Exp(x) = 0 \/ Exp(y) = 0 THEN ZeroResult(neg)
                                          ELSE RoundsTo(neg, Man(x) * Man(y), 1, Pow(x) + Pow(y))
                  [] job.op = "DIVF_S" ->
                         IF Exp(y) = 0 THEN IF Exp(x) = 0 THEN Fails(FIV, "FIV") ELSE Fails(FZD, "FZD")
                         ELSE IF Exp(x) = 0 THEN ZeroResult(neg)
                         ELSE RoundsTo(neg, Man(x), Man(y), Pow(x) - Pow(y))
                  [] job.op = "CMPF_S" -> /\ IsFlag(Z) = (Key(x) = Key(y)) /\ IsFlag(S) = (Key(x) < Key(y))
                                          /\ IsFlag(CY) = IsFlag(S) /\ ~IsFlag(OV) /\ SameRegs
                  [] job.op = "CVT_SW" -> Integer2(y, ToEven)
                  [] job.op = "TRNC_SW" -> Integer2(y, Chopped)

------------------------------------------------------------------------------
(* Bit strings against the bits. *)
Lane(m, word, off) == Bit(Read32(m, 4 * (word + off \div W)), off % W)
Length == was.P[28]
SrcBit(k) == Lane(was.mem, 0, was.P[27] + k)
Wanted == IF job.op \in For1 THEN 1 ELSE 0

MovedWhole ==
    LET d == was.P[26]
        new(k) == IF k < d \/ k >= d + Length THEN Lane(was.mem, 3, k)
                  ELSE BitOp(job.op, SrcBit(k - d), Lane(was.mem, 3, k))
    IN /\ \A k \in 0..3 * W - 1 : Lane(c.mem, 3, k) = new(k)
       /\ \A a \in 0..11 \cup 24..27 : c.mem[a] = was.mem[a]
       /\ c.P[26] = (d + Length) % W /\ c.P[29] = 12 + 4 * ((d + Length) \div W)
       /\ c.P[27] = (was.P[27] + Length) % W /\ c.P[28] = 0
\* Word 7 is as it was, or its low five bits are the complement of bits 3-7 of word 6.
HandlerWhole ==
    LET handled(k) == IF k < 5 THEN 1 - Lane(was.mem, 6, 3 + k) ELSE Lane(was.mem, 7, k)
    IN \/ \A a \in 28..31 : c.mem[a] = was.mem[a]
       \/ \A k \in 0..W - 1 : Lane(c.mem, 7, k) = handled(k)
FoundFirst ==
    LET hits == {k \in 0..Length - 1 : SrcBit(k) = Wanted}
        n == CHOOSE k \in hits : \A j \in hits : k <= j
    IN IF hits = {} THEN IsFlag(Z) /\ c.P[29] = was.P[29] + Length /\ c.P[28] = 0
       ELSE /\ ~IsFlag(Z) /\ c.P[29] = was.P[29] + n /\ c.P[28] = Length - n
            /\ (Signed(c.P[30]) \div 4) * W + c.P[27] = (was.P[27] + n) - 1

\* However often a bit string instruction is suspended or interrupted, also by a
\* handler with bit strings of its own, it does to each bit of the destination
\* what its name says, once, and touches nothing else; an upward search stops
\* before the first bit it is for (v810_cpu.cpp:677).
BitStringsWhole ==
    stage = "done" =>
        /\ job.op \in BitOps /\ was.P[29] = 12 => MovedWhole
        /\ job.op \in Searches \ Down => FoundFirst
        /\ job.op \in BitOps \cup Searches => HandlerWhole

\* v810_cpu.cpp:763: "Set Z flag to 0 if the bit was found", and to 1 when "the
\* search is over, and the bit was not found": so of a search downwards.
DownFinds ==
    stage = "done" /\ job.op \in Down =>
        IsFlag(Z) = ~\E k \in 0..Length - 1 : Lane(was.mem, 0, 2 * W + was.P[27] - k) = Wanted
=============================================================================
