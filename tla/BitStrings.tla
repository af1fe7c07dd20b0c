------------------------------ MODULE BitStrings ------------------------------
(***************************************************************************)
(* The bit string instructions: bstr_subop of v810_cpu.cpp.  Registers 26  *)
(* to 30 hold the offsets, the length and the addresses of the strings and *)
(* are written back when the instruction is suspended, which it is at a    *)
(* word boundary once the next event is due.  The machine state has, on    *)
(* top of Alu's, the cached words src and dst with their `have' flags, and *)
(* the word being executed again, in_bstr.                                 *)
(***************************************************************************)
EXTENDS Alu

Mask4(a) == a - (a % 4)

\* Two halfword transfers of two clocks.
BSTR_RWORD(c, a) == [v |-> Read32(c.mem, a), ts |-> c.ts + 4]
BSTR_WWORD(c, a, v) == [c EXCEPT !.mem = Write32(@, a, v), !.ts = @ + 4]

\* The eight operations on a source bit s and a destination bit d.
BitOp(op, s, d) ==
    LET n == 1 - s
        t == IF op \in {"ORNBSU", "ANDNBSU", "XORNBSU", "NOTBSU"} THEN n ELSE s
    IN CASE op \in {"MOVBSU", "NOTBSU"} -> t
         [] op \in {"ORBSU", "ORNBSU"} -> IF t + d > 0 THEN 1 ELSE 0
         [] op \in {"ANDBSU", "ANDNBSU"} -> t * d
         [] op \in {"XORBSU", "XORNBSU"} -> (t + d) % 2
BitOps == {"MOVBSU", "NOTBSU", "ORBSU", "ORNBSU", "ANDBSU", "ANDNBSU", "XORBSU", "XORNBSU"}

FetchSrc(c, a, extra) ==
    IF c.have_src THEN c
    ELSE LET w == BSTR_RWORD(c, a)
         IN [c EXCEPT !.have_src = TRUE, !.src = w.v, !.ts = w.ts + extra]
FetchDst(c, a) ==
    IF c.have_dst THEN c
    ELSE LET w == BSTR_RWORD(c, a) IN [c EXCEPT !.have_dst = TRUE, !.dst = w.v, !.ts = w.ts]

\* One turn of DO_BSTR.
OneBit(c0, op, next) ==
    LET moved(c) == [c EXCEPT !.dst = SetFlag(@, c.P[26], BitOp(op, Bit(c.src, c.P[27]), Bit(@, c.P[26])) = 1),
                              !.P[27] = (@ + 1) % W, !.P[26] = (@ + 1) % W, !.P[28] = @ - 1]
        onward(c) == IF c.P[27] # 0 THEN c ELSE [c EXCEPT !.P[30] = @ + 4, !.have_src = FALSE]
        full(c) == [c EXCEPT !.P[29] = @ + 4, !.have_dst = FALSE, !.stop = c.ts >= next]
        stored(c) == IF c.P[26] # 0 THEN c ELSE full(BSTR_WWORD(c, c.P[29], c.dst))
    IN stored(onward(moved(FetchDst(FetchSrc(c0, c0.P[30], 0), c0.P[29]))))

RECURSIVE Bits(_, _, _)
Bits(c, op, next) ==
    IF c.P[28] > 0 /\ ~c.stop THEN Bits(OneBit(c, op, next), op, next)
    ELSE IF c.have_dst THEN BSTR_WWORD(c, c.P[29], c.dst) ELSE c

\* Do_BSTR_Search, up (dir = 1) or down (dir = -1) for a bit.
RECURSIVE Search(_, _, _, _)
Search(c0, dir, bit, next) ==
    LET c == FetchSrc(c0, c0.P[30], 1)
        so == c.P[27]
        back == so - dir
        found == [c EXCEPT !.P[27] = back % W, !.found = TRUE,
                           !.P[30] = (IF back \in 0..W - 1 THEN @ ELSE @ - dir * 4) % Base]
        on == (so + dir) % W
        more == [c EXCEPT !.P[27] = on, !.P[29] = @ + 1, !.P[28] = @ - 1]
        edge == [more EXCEPT !.have_src = FALSE, !.P[30] = (@ + dir * 4) % Base,
                             !.stop = more.ts >= next]
    IN IF c0.P[28] = 0 \/ c0.stop THEN c0
       ELSE IF Bit(c.src, so) = bit THEN found
       ELSE Search(IF on = 0 THEN edge ELSE more, dir, bit, next)

SearchFlag(c) == IF c.found THEN [c EXCEPT !.psw = SetFlag(@, Z, FALSE)]
                 ELSE IF c.P[28] = 0 THEN [c EXCEPT !.psw = SetFlag(@, Z, TRUE)] ELSE c

Searches == {"SCH0BSU", "SCH0BSD", "SCH1BSU", "SCH1BSD"}
Down == {"SCH0BSD", "SCH1BSD"}
For1 == {"SCH1BSU", "SCH1BSD"}

\* bstr_subop: an instruction in, the machine state after one run of it and
\* whether there is more to do.
bstr_subop(c0, op, next) ==
    LET masked == IF op \in Searches THEN [c0 EXCEPT !.P[27] = @ % W, !.P[30] = Mask4(@)]
                  ELSE [c0 EXCEPT !.P[26] = @ % W, !.P[27] = @ % W, !.P[29] = Mask4(@),
                                  !.P[30] = Mask4(@)]
        c == [masked EXCEPT !.stop = FALSE, !.found = FALSE]
        outcome(d) == [c |-> d, more |-> d.P[28] > 0 /\ ~d.found]
    IN outcome(IF op \in Searches
               THEN SearchFlag(Search(c, IF op \in Down THEN -1 ELSE 1,
                                      IF op \in For1 THEN 1 ELSE 0, next))
               ELSE Bits(c, op, next))

\* The BSTR handler: on the first run one clock; unfinished, the instruction is
\* kept for the next turn, and finished, the cached words are dropped.
BSTR(c, op, next) ==
    LET kept(r) == IF r.more THEN [r.c EXCEPT !.in_bstr = op]
                   ELSE [r.c EXCEPT !.in_bstr = "none", !.have_src = FALSE, !.have_dst = FALSE, !.pc = @ + 2]
    IN kept(bstr_subop(IF c.in_bstr = "none" THEN Tick(c, 1) ELSE c, op, next))

\* Mutant: the cached words outlive the instruction.
TakeInterruptKeeping(c) == [c EXCEPT !.in_bstr = "none"]
\* Taking an interrupt forgets the suspended instruction and its words.
TakeInterrupt(c) == [c EXCEPT !.in_bstr = "none", !.have_src = FALSE, !.have_dst = FALSE]
===============================================================================
