----------------------------- MODULE Arithmetic -----------------------------
(***************************************************************************)
(* The integer instructions of Alu against the integers: any state of the  *)
(* machine that a program is in, any instruction that it executes there,   *)
(* and the outcome compared with what the instruction is meant to compute. *)
(***************************************************************************)
EXTENDS Alu

CONSTANTS Regs,         \* the program registers there are
          States,       \* the states a program may be in
          Code(_)       \* the instructions it may execute there

WordValues == 0 .. Base - 1
LastOps == {"LD", "ST", "IN", "OUT", "long", "other"}
Exceptions == {"none", "TRAP", "INVALID_OP", "ZERO_DIV"}
Machines ==
    [P : [Regs -> WordValues], psw : Nat, pc : Int, ts : Int, lastop : LastOps,
     mem : [0 .. MemSize - 1 -> 0 .. Byte - 1], exc : Exceptions,
     have_src : BOOLEAN, src : Int, have_dst : BOOLEAN, dst : Int,
     in_bstr : STRING, stop : BOOLEAN, found : BOOLEAN]
\* A branch has its condition where the others have their first register; the
\* immediate of format V is a halfword.  What a callee leaves behind is a word.
Instructions ==
    {i \in [op : STRING, r1 : Nat, r2 : Regs, imm : Int, junk : WordValues] :
        /\ i.r1 \in IF i.op = "BCOND" THEN 0..15 ELSE Regs
        /\ i.op \in Longs => i.imm \in 0 .. Half - 1}

ArithmeticAssumption ==
    /\ AluAssumption
    /\ {0, 30, 31} \subseteq Regs
    /\ States \subseteq Machines /\ \A d \in States : Code(d) \subseteq Instructions
ASSUME ArithmeticAssumption

VARIABLES stage, c, was, job    \* what goes on; the machine, before and after an instruction
arithmetic == <<stage, c, was, job>>

Unknown == [none |-> TRUE]
Rest == stage = "idle" /\ c = Unknown /\ was = Unknown /\ job = Unknown

Perform(d, i) == stage' = "done" /\ was' = d /\ job' = i /\ c' = Execute(d, i)
ExecuteInteger == stage = "idle" /\ \E d \in States : \E i \in Code(d) : Perform(d, i)
Forget == /\ stage = "done" /\ stage' = "idle"
          /\ c' = Unknown /\ was' = Unknown /\ job' = Unknown

ArithmeticSpec == Rest /\ [][ExecuteInteger \/ Forget]_arithmetic

------------------------------------------------------------------------------
(* What an instruction is meant to compute; register 0 reads zero. *)
Imm5Ops == {"MOV_I", "ADD_I", "CMP_I"} \cup Shifts_I
IsFlag(k) == Bit(c.psw, k) = 1
InRange(v) == -Top <= v /\ v < Top
SignZero(v) == IsFlag(Z) = (v % Base = 0) /\ IsFlag(S) = (v % Base >= Top)
Kept(P) == [r \in Regs \ {0} |-> P[r]]
SameRegs == Kept(c.P) = Kept(was.P)

Entered == [was EXCEPT !.P[0] = 0]
Source == CASE job.op \in Imm5Ops -> Extend(job.imm, ImmBits)
            [] job.op = "ADDI" -> Extend(job.imm, W \div 2)
            [] job.op \in {"ORI", "ANDI", "XORI"} -> job.imm
            [] OTHER -> Entered.P[job.r1]
Target == Entered.P[IF job.op \in Longs THEN job.r1 ELSE job.r2]
Count == (IF job.op \in Shifts_I THEN job.imm ELSE Entered.P[job.r1]) % W

Added(x, y) ==
    /\ c.P[job.r2] = (x + y) % Base
    /\ SignZero(x + y) /\ IsFlag(CY) = (x + y >= Base) /\ IsFlag(OV) = ~InRange(Signed(x) + Signed(y))
\* After a comparison of y with x the conditions are the relations they are named for.
Compared(x, y) ==
    /\ SignZero(y - x) /\ IsFlag(OV) = ~InRange(Signed(y) - Signed(x))
    /\ TestCond(c.psw, 1) = (y < x) /\ TestCond(c.psw, 3) = (y <= x)
    /\ TestCond(c.psw, 6) = (Signed(y) < Signed(x)) /\ TestCond(c.psw, 15) = (Signed(y) > Signed(x))
ShiftedBy(n, y, left) ==
    LET scaled == IF left THEN y * 2^n ELSE y \div 2^n
    IN /\ c.P[job.r2] = scaled % Base
       /\ SignZero(scaled) /\ ~IsFlag(OV)
       /\ IsFlag(CY) = (n > 0 /\ (IF left THEN (scaled \div Base) % 2 ELSE (y \div 2^(n - 1)) % 2) = 1)
\* The places of a word that hold a one.
Ones(x) == {k \in 0 .. W - 1 : Bit(x, k) = 1}
Combined(places) ==
    LET v == c.P[job.r2]
    IN /\ v \in WordValues /\ Ones(v) = places
       /\ SignZero(v) /\ ~IsFlag(OV) /\ IsFlag(CY) = (Bit(was.psw, CY) = 1)
Multiplied(x, y) ==
    job.r2 # 30 => /\ c.P[30] * Base + c.P[job.r2] = (IF x * y < 0 THEN Base * Base + x * y ELSE x * y)
                   /\ SignZero(x * y)
                   /\ IsFlag(OV) = (IF job.op = "MUL" THEN ~InRange(x * y) ELSE x * y >= Base)
\* Only the most negative number over -1 has no quotient.
DividedBy(x, y, q, r) ==
    IF x = 0 THEN c.exc = "ZERO_DIV" /\ SameRegs /\ c.pc = was.pc
    ELSE /\ SignZero(q)
         /\ IsFlag(OV) = (job.op = "DIV" /\ y = -Top /\ x = -1)
         /\ ~IsFlag(OV) /\ job.r2 # 30 =>
                /\ y = q * x + r /\ Magnitude(r) < Magnitude(x)
                /\ (r = 0 \/ (r < 0) = (y < 0))
\* A word in memory compared with the register and exchanged if it is the same.
Exchanged(a, y) ==
    LET old == Read32(was.mem, a)
    IN /\ Compared(old, y) /\ c.P[job.r2] = old
       /\ Read32(c.mem, a) = IF old = y THEN was.P[30] ELSE old

\* Every integer instruction computes what the integers say: sums, differences,
\* shifts, products and quotients, and the operations on bits, with their flags,
\* for register 0, one register twice and register 30 as well (v810_oploop.inc).
ArithmeticIsExact ==
    stage = "done" /\ job.op \in IntegerOps =>
        LET x == Source  y == Target
        IN CASE job.op \in {"ADD", "ADD_I", "ADDI"} -> Added(x, y)
             [] job.op = "SUB" -> Compared(x, y) /\ c.P[job.r2] = (y - x) % Base
             [] job.op \in {"CMP", "CMP_I"} -> Compared(x, y) /\ SameRegs
             [] job.op \in {"SHL", "SHL_I"} -> ShiftedBy(Count, y, TRUE)
             [] job.op \in {"SHR", "SHR_I"} -> ShiftedBy(Count, y, FALSE)
             [] job.op \in {"SAR", "SAR_I"} -> ShiftedBy(Count, Signed(y), FALSE)
             [] job.op \in {"OR", "ORI"} -> Combined(Ones(x) \cup Ones(y))
             [] job.op \in {"AND", "ANDI"} -> Combined(Ones(x) \cap Ones(y))
             [] job.op \in {"XOR", "XORI"} -> Combined((Ones(x) \cup Ones(y)) \ (Ones(x) \cap Ones(y)))
             [] job.op = "NOT" -> Combined((0 .. W - 1) \ Ones(x))
             [] job.op = "MUL" -> Multiplied(Signed(x), Signed(y))
             [] job.op = "MULU" -> Multiplied(x, y)
             [] job.op = "DIVU" -> DividedBy(x, y, c.P[job.r2], c.P[30])
             [] job.op = "DIV" -> DividedBy(Signed(x), Signed(y), Signed(c.P[job.r2]), Signed(c.P[30]))
             [] job.op = "CAXI" -> Exchanged(Address(Entered, job, 4), y)
             [] OTHER -> TRUE
=============================================================================
