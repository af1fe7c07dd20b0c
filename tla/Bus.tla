-------------------------------- MODULE Bus --------------------------------
(***************************************************************************)
(* A program on the memory map of Memory: it writes and reads bytes and    *)
(* halfwords at any address, jumps, and fetches its instructions one after *)
(* the other, in any order.                                                *)
(*                                                                         *)
(* flat keeps beside the memory what was written, by address, so that a    *)
(* read can be compared with the last write to the same byte.  The memory  *)
(* map is stated there a second time, by Canonical, from the hardware's    *)
(* point of view: which addresses are mirrors of one another.              *)
(*                                                                         *)
(* The program is alone here: the video unit, which draws into the frame   *)
(* buffers by itself, and the registers of the devices, whose values are   *)
(* the subject of Vip, Timer and InputPort, are left out, and nothing is   *)
(* said of what a register reads as (IsRegister).                          *)
(***************************************************************************)
EXTENDS Memory, FiniteSets

CONSTANTS Sizes,          \* of the cartridges that are accepted
          Written, Read,  \* the addresses a program writes and reads
          Bytes, Halfwords, \* what it writes, a halfword as the pair of its bytes
          Jumps,          \* where it goes on
          MaxWritten,     \* bounds for TLC: the addresses in flat,
          MaxAhead        \*   and the bytes fetched beyond a jump

\* A cartridge has a size of 2^8 to 2^24 (vb_core.cpp:435-437); a halfword and
\* an instruction are at an even address (the processor clears bit 0).
BusAssumption ==
  /\ Sizes \subseteq {2^k : k \in 8..24}
  /\ Written \subseteq Int /\ Read \subseteq Int /\ Bytes \subseteq 0..255 /\ Halfwords \subseteq (0..255) \X (0..255)
  /\ Jumps \subseteq {a \in Int : a % 2 = 0}
ASSUME BusAssumption

VARIABLES mem, at, flat
memory == <<mem, at, flat>>

Aligned(addresses) == {a \in addresses : a % 2 = 0}
Start(region) == region * 2^24

(* The address of the same byte without its mirrors.  The last 8K of each  *)
(* of the first four pages of 32K of the video memory are the characters,  *)
(* which are whole in page 15 and again in page 14.                        *)
Page(a) == (a % 2^27) \div 32768
Canonical(a) ==
  LET l == a % 2^27
      off == l % 32768
  IN CASE Region(a) \in 5..6 -> Start(Region(a)) + (l % 65536)
       [] Page(a) \in 0..3 /\ off >= 24576 -> 491520 + 8192 * Page(a) + (off - 24576)
       [] Page(a) = 14 -> l + 32768
       [] Region(a) = 2 -> Start(2) + (l % 256)
       [] OTHER -> l

Noted(bytes, a, b) == [p \in DOMAIN bytes \cup {Canonical(a)} |-> IF p = Canonical(a) THEN b ELSE bytes[p]]
LastWritten(a) == IF Canonical(a) \in DOMAIN flat THEN flat[Canonical(a)] ELSE 0

(* Where bytes are kept: the two memories and, in the video memory, the    *)
(* frame buffers, the characters and the world and map data.               *)
Backed(a) == Region(a) \in 5..6 \/ Page(a) \in 0..7 \/ Page(a) \in 14..15

Expected(a) ==
  CASE Region(a) = 7 -> RomByte((a % 2^24) % mem.size)
    [] Region(a) = 2 -> IF Canonical(a) = Start(2) + 36 THEN 252 + (LastWritten(a) % 4) ELSE 0
    [] Backed(a) -> LastWritten(a)
    [] OTHER -> 0

-----------------------------------------------------------------------------
Inserted == mem.size # 0

BusInit == mem = Fresh(0) /\ at = FastMap(Fresh(0), -16) /\ flat = [p \in {} |-> 0]

Insert == /\ ~Inserted
          /\ \E size \in Sizes : mem' = VB_Power(vb_load_rom_data(size))
          /\ at' = RB_SETPC(mem', -16) /\ flat' = [p \in {} |-> 0]

WriteByte ==
  /\ Inserted /\ UNCHANGED at
  /\ \E A \in Written, V \in Bytes : mem' = MemWrite8(mem, A, V) /\ flat' = Noted(flat, A, V)
  /\ Cardinality(DOMAIN flat') <= MaxWritten

\* A register of the hardware has the low byte of a halfword.
WriteHalfword ==
  /\ Inserted /\ UNCHANGED at
  /\ \E A \in Aligned(Written), V \in Halfwords :
        /\ mem' = MemWrite16(mem, A, V)
        /\ flat' = IF Region(A) = 2 THEN Noted(flat, A, V[1]) ELSE Noted(Noted(flat, A, V[1]), A + 1, V[2])
  /\ Cardinality(DOMAIN flat') <= MaxWritten

JumpTo == /\ Inserted /\ UNCHANGED <<mem, flat>>
          /\ \E pc \in Jumps : at' = RB_SETPC(mem, pc)

\* Behind the end of a mapping the program meets an invalid instruction.
Trapped == at.off >= at.length
\* An instruction of two or four bytes, or the trampoline.
Fetch ==
  /\ Inserted /\ UNCHANGED <<mem, flat>>
  /\ \/ Trapped /\ at' = LookUpAgain(mem, at)
     \/ /\ ~Trapped /\ (\E pc \in Jumps : at.pc - pc \in 0..MaxAhead)
        /\ \E n \in {2, 4} : at' = RB_INCPC(at, n)

BusNext == Insert \/ WriteByte \/ WriteHalfword \/ JumpTo \/ Fetch
BusSpec == BusInit /\ [][BusNext]_memory

-----------------------------------------------------------------------------
(* The registers of the devices: vip.c's from 5E000H up, in either half of  *)
(* its region, and those of the timer and the pad port in region 2.         *)
IsRegister(a) == \/ a % 2^27 \in 385024..393215
                 \/ Region(a) = 2 /\ a % 256 \in {16, 20, 24, 28, 32, 40}

\* A read of anything but a device's register gives what the program last wrote
\* through any mirror of its address, or the cartridge, or the wait control
\* register, or nothing where nothing is kept (vb_core.cpp MemRead8 to
\* MemWrite16, vip.c VIP_Read8 to VIP_Write16).
ReadsWhole ==
  \A a \in Read : ~IsRegister(a) =>
    /\ MemRead8(mem, a) = Expected(a)
    /\ a % 2 = 0 => MemRead16(mem, a) = <<Expected(a), IF Region(a) = 2 THEN 0 ELSE Expected(a + 1)>>

\* The halfword that a read of its address gives; a fetch in the video memory or
\* among the registers, which are not mapped, is not compared.
AsRead(halfword, pc) == Region(pc) \notin {0, 2} => halfword = <<Expected(pc), Expected(pc + 1)>>

\* An instruction is fetched from the bytes that a read gives, with one exception:
\* when the last halfword of a mapping begins an instruction of four bytes, its
\* second halfword is the invalid instruction of the trampoline, and not that of
\* the mirror that a read would give.  Nothing is fetched from behind the
\* trampoline, and a program that has run into it goes on at the mirror
\* (v810_cpu.cpp SetFastMap, v810_oploop.inc DO_AM_FPP to DO_AM_VIb, INVALID).
FetchesWhole ==
  IF Trapped
  THEN /\ RB_RDOP(mem, at, 0) = InvalidOp
       /\ LookUpAgain(mem, at).pc = at.pc
       /\ LookUpAgain(mem, at).off < LookUpAgain(mem, at).length
  ELSE /\ RB_RDOP(mem, at, 0) # PastEnd /\ AsRead(RB_RDOP(mem, at, 0), at.pc)
       /\ IF at.off + 2 < at.length
          THEN RB_RDOP(mem, at, 2) # PastEnd /\ AsRead(RB_RDOP(mem, at, 2), at.pc + 2)
          ELSE RB_RDOP(mem, at, 2) = InvalidOp

\* Both at once; the mappings fill the space of their region and the table of
\* addresses that vb_load_rom_data allocates for them.
MemoryWhole ==
  Inserted => /\ ReadsWhole
              /\ FetchesWhole
              /\ mem.size \in {2^k : k \in 8..24}
              /\ \A i \in DOMAIN mem.maps : Addresses(mem.maps[i]) <= 8192
=============================================================================
