------------------------------- MODULE Memory -------------------------------
(***************************************************************************)
(* The memory of the console as the processor sees it: the bus callbacks   *)
(* of vb_core.cpp with the video memory of vip.c behind them, and the map  *)
(* through which the interpreter fetches, SetFastMap in v810_cpu.cpp.      *)
(*                                                                         *)
(* m holds the bytes written so far, the size of the cartridge, WCR and    *)
(* the mappings made.  An address is a signed word of 32 bits; a halfword  *)
(* is the pair of its bytes.                                               *)
(*                                                                         *)
(* VIP_CellShifted and RB_RDOPWrapped are seeded faults: each stands for   *)
(* the definition after it in a run that must then fail.                   *)
(***************************************************************************)
EXTENDS Integers, Sequences

PSIZE == 65536          \* V810_FAST_MAP_PSIZE
TRAMPOLINE == 1024      \* V810_FAST_MAP_TRAMPOLINE_SIZE

Region(A) == (A % 2^27) \div 2^24
Nowhere == <<"nowhere", 0>>

(* A byte of a cartridge file, recognised by its place.                    *)
RomByte(i) == 1 + (i % 251)

(* GPROM holds the copies of a cartridge of less than 64K.                 *)
ByteAt(m, cell) == CASE cell \in DOMAIN m.bytes -> m.bytes[cell]
                   [] cell \notin DOMAIN m.bytes /\ cell[1] = "GPROM" -> RomByte(cell[2] % m.size)
                   [] OTHER -> 0

Store(m, cell, b) ==
  [m EXCEPT !.bytes = [c \in DOMAIN m.bytes \cup ({cell} \ {Nowhere}) |-> IF c = cell THEN b ELSE m.bytes[c]]]
Following(cell) == IF cell = Nowhere THEN Nowhere ELSE <<cell[1], cell[2] + 1>>
Halfword(m, cell) == <<ByteAt(m, cell), ByteAt(m, Following(cell))>>
StoreHalfword(m, cell, V) == Store(Store(m, cell, V[1]), Following(cell), V[2])

-----------------------------------------------------------------------------
(* The video memory; its registers are the subject of Vip.  FB is one array *)
(* of two buffers of two eyes; the pieces of CHR_RAM behind the buffers are  *)
(* joined by bits 15 and 16 of the address.                                  *)
VIP_CellShifted(A) ==
  CASE A \div 65536 \in 0..1 /\ A % 32768 >= 24576 -> <<"CHR_RAM", (A % 8192) + 8192 * ((A \div 16384) % 4)>>
    [] A \div 65536 \in 0..1 /\ A % 32768 < 24576 -> <<"FB", 24576 * (2 * ((A \div 32768) % 2) + (A \div 65536)) + (A % 32768)>>
    [] A \div 65536 \in 2..3 -> <<"DRAM", A % 131072>>
    [] A \div 65536 = 7 -> <<"CHR_RAM", A % 32768>>
    [] OTHER -> Nowhere

VIP_Cell(A) ==
  CASE A \div 65536 \in 0..1 /\ A % 32768 >= 24576 -> <<"CHR_RAM", (A % 8192) + 8192 * ((A \div 32768) % 4)>>
    [] A \div 65536 \in 0..1 /\ A % 32768 < 24576 -> <<"FB", 24576 * (2 * ((A \div 32768) % 2) + (A \div 65536)) + (A % 32768)>>
    [] A \div 65536 \in 2..3 -> <<"DRAM", A % 131072>>
    [] A \div 65536 = 7 -> <<"CHR_RAM", A % 32768>>
    [] OTHER -> Nowhere

VIP_Read8(m, A) == ByteAt(m, VIP_Cell(A))
VIP_Read16(m, A) == Halfword(m, VIP_Cell(A))
VIP_Write8(m, A, V) == Store(m, VIP_Cell(A), V)
VIP_Write16(m, A, V) == StoreHalfword(m, VIP_Cell(A), V)

(* Of the control registers, the one that no device keeps. *)
HWCTRL_Read(m, A) == IF A % 256 = 36 THEN 252 + (m.WCR % 4) ELSE 0
HWCTRL_Write(m, A, V) == IF A % 256 = 36 THEN [m EXCEPT !.WCR = V % 4] ELSE m

-----------------------------------------------------------------------------
(* The cells of the other regions. *)
Cell(m, A) == CASE Region(A) = 5 -> <<"WRAM", A % 65536>>
                [] Region(A) = 6 -> <<"GPRAM", A % 65536>>
                [] Region(A) = 7 -> <<"GPROM", A % m.length>>
                [] OTHER -> Nowhere

MemRead8(m, A) == CASE Region(A) = 0 -> VIP_Read8(m, A % 2^27)
                    [] Region(A) = 2 -> HWCTRL_Read(m, A)
                    [] OTHER -> ByteAt(m, Cell(m, A))
MemRead16(m, A) == CASE Region(A) = 0 -> VIP_Read16(m, A % 2^27)
                     [] Region(A) = 2 -> <<HWCTRL_Read(m, A), 0>>
                     [] OTHER -> Halfword(m, Cell(m, A))

(* The sound unit takes what region 1 is given. *)
MemWrite8(m, A, V) == CASE Region(A) = 0 -> VIP_Write8(m, A % 2^27, V)
                        [] Region(A) = 2 -> HWCTRL_Write(m, A, V)
                        [] Region(A) \in 5..6 -> Store(m, Cell(m, A), V)
                        [] OTHER -> m
MemWrite16(m, A, V) == CASE Region(A) = 0 -> VIP_Write16(m, A % 2^27, V)
                         [] Region(A) = 2 -> HWCTRL_Write(m, A, V[1])
                         [] Region(A) \in 5..6 -> StoreHalfword(m, Cell(m, A), V)
                         [] OTHER -> m

-----------------------------------------------------------------------------
(* Fetching.  A place is a region's allocation or the dummy region, and an *)
(* offset; behind each lies a trampoline of invalid instructions.          *)
Init_FastMap == <<>>
SetFastMap(m, name, region, length) == [m EXCEPT !.maps = Append(@, [name |-> name, region |-> region, length |-> length])]
Addresses(map) == 32 * (2^24 \div map.length)

FastMap(m, pc) ==
  LET over == {i \in DOMAIN m.maps : m.maps[i].region = Region(pc)}
  IN IF over = {} THEN [name |-> "DummyRegion", length |-> PSIZE, off |-> pc % PSIZE, pc |-> pc]
     ELSE LET map == m.maps[CHOOSE i \in over : \A k \in over : k <= i]
          IN [name |-> map.name, length |-> map.length, off |-> pc % map.length, pc |-> pc]

InvalidOp == <<0, 216>>
PastEnd == <<-1, -1>>

RB_RDOPWrapped(m, at, by) == Halfword(m, <<at.name, (at.off + by) % at.length>>)

RB_RDOP(m, at, by) ==
  CASE at.off + by + 1 < at.length -> Halfword(m, <<at.name, at.off + by>>)
    [] at.off + by >= at.length /\ at.off + by + 1 < at.length + TRAMPOLINE -> InvalidOp
    [] OTHER -> PastEnd

RB_SETPC(m, pc) == FastMap(m, pc)
RB_INCPC(at, by) == [at EXCEPT !.off = @ + by, !.pc = @ + by]

(* An invalid instruction is looked up once more where the map has it now. *)
LookUpAgain(m, at) == RB_SETPC(m, at.pc)

-----------------------------------------------------------------------------
(* A new processor with its mappings, memory cleared; the cartridge is     *)
(* copied until 64K are full.                                              *)
Fresh(size) == [bytes |-> [c \in {} |-> 0], size |-> size, length |-> IF size < PSIZE THEN PSIZE ELSE size,
                WCR |-> 0, maps |-> Init_FastMap]
vb_load_rom_data(size) ==
  SetFastMap(SetFastMap(SetFastMap(Fresh(size), "WRAM", 5, 65536), "GPROM", 7, Fresh(size).length), "GPRAM", 6, 65536)

(* Power clears what it is not the cartridge that keeps. *)
VB_Power(m) == [m EXCEPT !.bytes = [c \in {c \in DOMAIN m.bytes : c[1] = "GPRAM"} |-> m.bytes[c]], !.WCR = 0]
=============================================================================
