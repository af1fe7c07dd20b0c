------------------------------ MODULE SoftFloat ------------------------------
(***************************************************************************)
(* The floating-point instructions: fpu_subop of v810_cpu.cpp and the part *)
(* of softfloat.c it reaches.  A word holds a sign, E exponent bits and    *)
(* W - 1 - E fraction bits (8 and 23 in the code).  CheckFPInputException  *)
(* keeps subnormals, infinities and NaNs out of softfloat, so that its     *)
(* arms for them are not here.                                             *)
(***************************************************************************)
EXTENDS Alu

CONSTANT E
FloatAssumption == E \in 3..8 /\ W - 1 - E \in 2..23 /\ 2^(E - 1) >= W + 1   \* an integer fits

F == W - 1 - E
G == E - 1                      \* guard bits below the fraction while rounding
Bias == 2^(E - 1) - 1
Special == 2^E - 1              \* the exponent of infinities and NaNs
WrapExp == 3 * 2^(E - 2)

Frac(a) == a % 2^F
Exp(a) == (a \div 2^F) % 2^E
Neg(a) == a >= Top
Pack(neg, exp, sig) == ((IF neg THEN Top ELSE 0) + exp * 2^F + sig) % Base

\* A result: the word and the exception flags raised.
Result(v, fl) == [v |-> v % Base, fl |-> fl]
When(b, f) == IF b THEN {f} ELSE {}

\* Mutant: the bits shifted out are lost.
JamLost(a, n) == a \div 2^n
\* Shift right, any bit lost jammed into bit 0.
Jam(a, n) == IF n >= W THEN (IF a = 0 THEN 0 ELSE 1)
             ELSE LET q == a \div 2^n
                  IN IF a % 2^n # 0 /\ q % 2 = 0 THEN q + 1 ELSE q

LeadingZeros(a) == CHOOSE n \in 0..W : a < 2^(W - n) /\ (n = W \/ a >= 2^(W - n - 1))

\* Round to nearest even.  Too large, the exponent wraps by WrapExp; too small,
\* the value is rounded as a subnormal.
RoundAndPack(neg, exp, sig) ==
    LET half == 2^(G - 1)
        over == exp > Special - 2 \/ (exp = Special - 2 /\ sig + half >= Top)
        exp1 == IF over THEN exp - WrapExp ELSE exp
        tiny == exp1 < -1 \/ sig + half < Top
        sig1 == IF exp1 < 0 THEN Jam(sig, -exp1) ELSE sig
        rest == sig1 % 2^G
        up == (sig1 + half) \div 2^G
        sig2 == IF rest = half THEN Even(up) ELSE up
        fl == When(over, "overflow") \cup When(rest # 0, "inexact")
              \cup When(exp1 < 0 /\ tiny /\ rest # 0, "underflow")
    IN Result(Pack(neg, IF exp1 < 0 \/ sig2 = 0 THEN 0 ELSE exp1, sig2), fl)

NormalizeRoundAndPack(neg, exp, sig) ==
    LET n == LeadingZeros(sig) - 1 IN RoundAndPack(neg, exp - n, sig * 2^n)

Int32ToFloat32(a) ==
    IF a = 0 THEN Result(0, {})
    ELSE IF a = Top THEN Result(Pack(TRUE, Bias + W - 1, 0), {})
    ELSE NormalizeRoundAndPack(a > Top, Bias + W - 3, Magnitude(Signed(a)))

MostNegative == Pack(TRUE, Bias + W - 1, 0)
TooLarge(a) == IF a = MostNegative THEN Result(Top, {})
               ELSE Result(IF Neg(a) THEN Top ELSE Top - 1, {"invalid"})

Float32ToInt32(a) ==
    LET n == Exp(a) - (Bias + F)
        sig == Frac(a) + 2^F
        small == Exp(a) < Bias - 1
        extra == IF small THEN Exp(a) + Frac(a) ELSE (sig * 2^(W + n)) % Base
        z == IF small THEN 0 ELSE sig \div 2^(-n)
        up == IF extra < Top THEN z ELSE IF extra = Top THEN Even(z + 1) ELSE z + 1
        m == IF n >= 0 THEN sig * 2^n ELSE up
    IN IF n >= 0 /\ Exp(a) >= Bias + W - 1 THEN TooLarge(a)
       ELSE Result(IF Neg(a) THEN -m ELSE m, When(n < 0 /\ extra # 0, "inexact"))

Float32ToInt32RoundToZero(a) ==
    LET n == Exp(a) - (Bias + W - 1)
        sig == (Frac(a) + 2^F) * 2^E
        z == sig \div 2^(-n)
    IN IF n >= 0 THEN TooLarge(a)
       ELSE IF Exp(a) <= Bias - 1 THEN Result(0, When(Exp(a) + Frac(a) # 0, "inexact"))
       ELSE Result(IF Neg(a) THEN -z ELSE z, When(sig % 2^(-n) # 0, "inexact"))

\* |a| + |b|, x the operand of the larger exponent.
AddSigs(a, b, neg) ==
    LET x == IF Exp(a) >= Exp(b) THEN a ELSE b
        y == IF Exp(a) >= Exp(b) THEN b ELSE a
        one == 2^(W - 3)
        sx == Frac(x) * 2^(G - 1)
        sy == Frac(y) * 2^(G - 1)
        d == Exp(x) - Exp(y)
        shifted == IF Exp(y) = 0 THEN Jam(sy, d - 1) ELSE Jam(sy + one, d)
        sum == IF d = 0 THEN 2 * one + sx + sy ELSE one + sx + shifted
        carried == d = 0 \/ 2 * sum >= Top
    IN IF d = 0 /\ Exp(a) = 0 THEN Result(Pack(neg, 0, (sx + sy) \div 2^(G - 1)), {})
       ELSE RoundAndPack(neg, IF carried THEN Exp(x) ELSE Exp(x) - 1, IF carried THEN sum ELSE 2 * sum)

\* |a| - |b|.
SubSigs(a, b, neg) ==
    LET aBigger == Exp(a) > Exp(b) \/ (Exp(a) = Exp(b) /\ Frac(a) > Frac(b))
        x == IF aBigger THEN a ELSE b
        y == IF aBigger THEN b ELSE a
        one == 2^(W - 2)
        sx == Frac(x) * 2^G
        sy == Frac(y) * 2^G
        d == Exp(x) - Exp(y)
        exp == IF d = 0 /\ Exp(x) = 0 THEN 1 ELSE Exp(x)
        shifted == IF Exp(y) = 0 THEN Jam(sy, d - 1) ELSE Jam(sy + one, d)
        diff == IF d = 0 THEN sx - sy ELSE (one + sx) - shifted
    IN IF a % Top = b % Top THEN Result(0, {})
       ELSE NormalizeRoundAndPack(neg = aBigger, exp - 1, diff)

Float32Add(a, b) == IF Neg(a) = Neg(b) THEN AddSigs(a, b, Neg(a)) ELSE SubSigs(a, b, Neg(a))
Float32Sub(a, b) == IF Neg(a) = Neg(b) THEN SubSigs(a, b, Neg(a)) ELSE AddSigs(a, b, Neg(a))

Float32Mul(a, b) ==
    LET neg == Neg(a) # Neg(b)
        exp == (Exp(a) + Exp(b)) - Bias
        p == ((Frac(a) + 2^F) * 2^G) * ((Frac(b) + 2^F) * 2^(G + 1))
        sig == Or(p \div Base, IF p % Base # 0 THEN 1 ELSE 0)
    IN IF Exp(a) = 0 \/ Exp(b) = 0 THEN Result(Pack(neg, 0, 0), {})
       ELSE RoundAndPack(neg, IF 2 * sig < Top THEN exp - 1 ELSE exp, IF 2 * sig < Top THEN 2 * sig ELSE sig)

\* How often a loop adds `step' to a negative remainder until it is not.
Times(rem, step) == IF rem >= 0 THEN 0 ELSE ((step - 1) - rem) \div step

\* The quotient of a:0 by b from half words, up to 2 too large.
EstimateDiv64To32(a, b) ==
    LET b0 == b \div Half
        z0 == IF b0 * Half <= a THEN Base - Half ELSE (a \div b0) * Half
        r0 == a * Base - b * z0
        n == Times(r0, b * Half)
        r1 == ((r0 + n * b * Half) \div Half) % Base
    IN IF b <= a THEN Base - 1
       ELSE (z0 - n * Half) + (IF b0 * Half <= r1 THEN Half - 1 ELSE r1 \div b0)

Float32Div(a, b) ==
    LET neg == Neg(a) # Neg(b)
        sa == (Frac(a) + 2^F) * 2^G
        sb == (Frac(b) + 2^F) * 2^(G + 1)
        big == sb <= 2 * sa
        num == IF big THEN sa \div 2 ELSE sa
        exp == (Exp(a) - Exp(b)) + (Bias - 2) + (IF big THEN 1 ELSE 0)
        est == EstimateDiv64To32(num, sb)
        n == Times(num * Base - sb * est, sb)
        exact == est - n
        rem == num * Base - sb * exact
        sig == IF est % 2^(G - 1) > 2 THEN est
               ELSE Or(exact, IF rem % Base # 0 THEN 1 ELSE 0)
    IN IF Exp(b) = 0 THEN Result(0, {IF Exp(a) = 0 THEN "invalid" ELSE "divbyzero"})
       ELSE IF Exp(a) = 0 THEN Result(Pack(neg, 0, 0), {})
       ELSE RoundAndPack(neg, exp, sig)

Float32Eq(a, b) == a = b \/ (a % Top = 0 /\ b % Top = 0)
Float32Lt(a, b) == IF Neg(a) # Neg(b) THEN Neg(a) /\ ~(a % Top = 0 /\ b % Top = 0)
                   ELSE a # b /\ Neg(a) # (a < b)

------------------------------------------------------------------------------
(* v810_cpu.cpp: PSW bits 4-9 are FPR, FUD, FOV, FZD, FIV, FRO. *)
FPR == 4
FUD == 5
FOV == 6
FZD == 7
FIV == 8
FRO == 9

SetFPUOPNonFPUFlags(psw, v) ==
    LET zero == v % Top = 0
        p == SetFlag(SetFlag(psw, OV, FALSE), Z, zero)
    IN SetFlag(SetFlag(p, S, ~zero /\ Neg(v)), CY, ~zero /\ Neg(v))

ReservedOperand(v) == v % Top # 0 /\ Exp(v) \in {0, Special}

\* The exception of a reserved operand: pc is back on the instruction, c0's pc.
Reserved(c, c0) == Exception([c EXCEPT !.psw = SetFlag(@, FRO, TRUE), !.pc = c0.pc], "FRO")

KillsResult(fl) == "invalid" \in fl \/ "divbyzero" \in fl

FPU_DoException(c, c0, fl) ==
    LET raise(d, k, code) == Exception([d EXCEPT !.psw = SetFlag(@, k, TRUE), !.pc = c0.pc], code)
        sticky(d, k, f) == IF f \in fl THEN [d EXCEPT !.psw = SetFlag(@, k, TRUE)] ELSE d
        kept == sticky(sticky(c, FUD, "underflow"), FPR, "inexact")
    IN IF "invalid" \in fl THEN raise(c, FIV, "FIV")
       ELSE IF "divbyzero" \in fl THEN raise(c, FZD, "FZD")
       ELSE IF "overflow" \in fl THEN raise(kept, FOV, "FOV") ELSE kept

IsSubnormal(v) == Exp(v) = 0 /\ Frac(v) # 0

FPU_Math_Template(c, c0, i, r) ==
    LET fl == r.fl \cup (IF IsSubnormal(r.v) THEN {"underflow", "inexact"} ELSE {})
        v == IF "underflow" \in fl THEN Pack(Neg(r.v), 0, 0) ELSE r.v
        stored == [SetPREG(c, i.r2, v) EXCEPT !.psw = SetFPUOPNonFPUFlags(@, v)]
    IN FPU_DoException(IF KillsResult(fl) THEN c ELSE stored, c0, fl)

ToInteger(c, c0, i, r) ==
    LET stored == [SetPREG(c, i.r2, r.v) EXCEPT !.psw = SetSZ(SetFlag(@, OV, FALSE), r.v)]
    IN FPU_DoException(IF KillsResult(r.fl) THEN c ELSE stored, c0, r.fl)

\* Nintendo's instructions; REV reads the second operand only.
Rearranged(op, x, y) ==
    LET h == W \div 2
    IN CASE op = "XB" -> (x \div Half) * Half + (x % Byte) * Byte + ((x \div Byte) % Byte)
         [] op = "XH" -> (x % Half) * Half + (x \div Half)
         [] op = "REV" -> OfBits(LAMBDA k : Bit(y, (W - 1) - k))
         [] op = "MPYHW" -> (Signed(Extend(x, h)) * Signed(Extend(y, h))) % Base

Clocks == [XB |-> 1, XH |-> 1, REV |-> 1, MPYHW |-> 8, CVT_WS |-> 5, CVT_SW |-> 8, ADDF_S |-> 8,
           SUBF_S |-> 11, CMPF_S |-> 6, MULF_S |-> 7, DIVF_S |-> 43, TRNC_SW |-> 7]
FloatOps == DOMAIN Clocks
MathOps == {"ADDF_S", "SUBF_S", "MULF_S", "DIVF_S"}

CMPF(c, x, y) ==
    LET lt == ~Float32Eq(x, y) /\ Float32Lt(x, y)
        p == SetFlag(SetFlag(c.psw, OV, FALSE), Z, Float32Eq(x, y))
    IN [c EXCEPT !.psw = SetFlag(SetFlag(p, S, lt), CY, lt)]

\* r2 is the target and first operand, r1 the second or only one.
fpu_subop(c0, i) ==
    LET c == Tick(Next4(After([c0 EXCEPT !.P[0] = 0], "long")), 1 + Clocks[i.op])
        x == c.P[i.r2]
        y == c.P[i.r1]
        reads == IF i.op \in MathOps \cup {"CMPF_S"} THEN {x, y}
                 ELSE IF i.op \in {"CVT_SW", "TRNC_SW"} THEN {y} ELSE {}
    IN IF \E v \in reads : ReservedOperand(v) THEN Reserved(c, c0)
       ELSE CASE i.op \in {"XB", "XH", "REV", "MPYHW"} -> SetPREG(c, i.r2, Rearranged(i.op, x, y))
              [] i.op = "CVT_WS" -> LET r == Int32ToFloat32(y)
                                    IN FPU_DoException([SetPREG(c, i.r2, r.v) EXCEPT
                                          !.psw = SetFPUOPNonFPUFlags(@, r.v)], c0, r.fl)
              [] i.op = "CVT_SW" -> ToInteger(c, c0, i, Float32ToInt32(y))
              [] i.op = "TRNC_SW" -> ToInteger(c, c0, i, Float32ToInt32RoundToZero(y))
              [] i.op = "CMPF_S" -> CMPF(c, x, y)
              [] i.op = "ADDF_S" -> FPU_Math_Template(c, c0, i, Float32Add(x, y))
              [] i.op = "SUBF_S" -> FPU_Math_Template(c, c0, i, Float32Sub(x, y))
              [] i.op = "MULF_S" -> FPU_Math_Template(c, c0, i, Float32Mul(x, y))
              [] i.op = "DIVF_S" -> FPU_Math_Template(c, c0, i, Float32Div(x, y))
=============================================================================
