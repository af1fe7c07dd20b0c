----------------------------- MODULE BusProofs -----------------------------
(***************************************************************************)
(* The memory of Bus, for every set of cartridge sizes, of addresses and   *)
(* of bytes: a read gives what was last written, through whichever mirror, *)
(* and a fetch gives what a read gives, but for the second halfword of an  *)
(* instruction that runs over the end of a mapping.                        *)
(*                                                                         *)
(* The argument is in three parts.  An address has a place in memory       *)
(* (Place) and an address without mirrors (Canonical), the first from the  *)
(* code, the second from the hardware's map; two addresses share a byte of *)
(* memory exactly when they share the second (SameByte).  So a write keeps *)
(* the agreement of memory and history (Faithful...).  And a fetch runs on *)
(* from the place looked up at a jump (PlaceInv): as long as it stays in   *)
(* the mapping it stays where a new lookup would find it, since lengths    *)
(* are powers of two, and it leaves the mapping by two bytes at most.      *)
(***************************************************************************)
EXTENDS Bus, SequenceTheorems, TLAPS

-----------------------------------------------------------------------------
(* Addresses: powers of two by name, pages, and the place of a byte.       *)
M24 == 16777216
M27 == 134217728

LEMMA Powers == 2^24 = M24 /\ 2^27 = M27 /\ M24 = 16777216 /\ M27 = 134217728
  BY SMT DEF M24, M27

LEMMA RegionIs ==
  ASSUME NEW a \in Int
  PROVE  /\ a % M27 \in Int /\ 0 <= a % M27 /\ a % M27 < M27
         /\ Region(a) = (a % M27) \div M24
         /\ Region(a) \in 0..7
         /\ a % M27 = M24 * Region(a) + ((a % M27) % M24)
         /\ Page(a) = (a % M27) \div 32768
         /\ Page(a) \in Int /\ 0 <= Page(a) /\ Page(a) < 4096
         /\ Region(a) = Page(a) \div 512
  BY Powers, SMT DEF Region, Page

(* Where a byte of memory is, whichever part of the code looks it up.      *)
Place(A) == CASE Region(A) = 0 -> VIP_Cell(A % 2^27)
              [] Region(A) = 5 -> <<"WRAM", A % 65536>>
              [] Region(A) = 6 -> <<"GPRAM", A % 65536>>
              [] OTHER -> Nowhere

LEMMA Pages ==
  ASSUME NEW l \in Int, 0 <= l
  PROVE  LET page == l \div 32768   off == l % 32768
         IN  /\ page \in Int /\ off \in Int /\ 0 <= page /\ 0 <= off /\ off < 32768
             /\ l = 32768 * page + off
             /\ l \div 65536 = page \div 2
             /\ off >= 24576 => l % 8192 = off - 24576
             /\ page \in 4..7 => l % 131072 = l - 131072
  BY SMT

LEMMA PageHalves ==
  ASSUME NEW page \in Int, 0 <= page
  PROVE  /\ page \div 2 \in 0..1 <=> page \in 0..3
         /\ page \div 2 \in 2..3 <=> page \in 4..7
         /\ page \div 2 = 7 <=> page \in 14..15
         /\ page \in 0..3 => page % 4 = page
  BY SMT

LEMMA PageCases ==
  ASSUME NEW page \in Int, 0 <= page, NEW off \in Int, NEW chr, NEW fb, NEW dram, NEW whole, NEW none
  PROVE  (CASE page \div 2 \in 0..1 /\ off >= 24576 -> chr
            [] page \div 2 \in 0..1 /\ off < 24576 -> fb
            [] page \div 2 \in 2..3 -> dram
            [] page \div 2 = 7 -> whole
            [] OTHER -> none)
         = (CASE page \in 0..3 /\ off >= 24576 -> chr
              [] page \in 0..3 /\ off < 24576 -> fb
              [] page \in 4..7 -> dram
              [] page \in 14..15 -> whole
              [] OTHER -> none)
  BY PageHalves, SMT

LEMMA VideoCell ==
  ASSUME NEW l \in Int, 0 <= l, NEW page, NEW off, page = l \div 32768, off = l % 32768
  PROVE  /\ page \in 0..3 /\ off >= 24576 => VIP_Cell(l) = <<"CHR_RAM", 8192 * page + (off - 24576)>>
         /\ page \in 0..3 /\ ~(off >= 24576) => VIP_Cell(l) = <<"FB", 24576 * (2 * (page % 2) + (page \div 2)) + off>>
         /\ page \in 4..7 => VIP_Cell(l) = <<"DRAM", l - 131072>>
         /\ page \in 14..15 => VIP_Cell(l) = <<"CHR_RAM", off>>
         /\ page \notin 0..3 /\ page \notin 4..7 /\ page \notin 14..15 => VIP_Cell(l) = Nowhere
<1> DEFINE chr == <<"CHR_RAM", (l % 8192) + 8192 * (page % 4)>>
           fb == <<"FB", 24576 * (2 * (page % 2) + (page \div 2)) + off>>
           dram == <<"DRAM", l % 131072>>
           whole == <<"CHR_RAM", off>>
<1>1. /\ page \in Int /\ off \in Int /\ 0 <= page
      /\ l \div 65536 = page \div 2
      /\ off >= 24576 => l % 8192 = off - 24576
      /\ page \in 4..7 => l % 131072 = l - 131072
  BY Pages, SMT
<1>2. VIP_Cell(l) =
         CASE page \div 2 \in 0..1 /\ off >= 24576 -> chr
           [] page \div 2 \in 0..1 /\ off < 24576 -> fb
           [] page \div 2 \in 2..3 -> dram
           [] page \div 2 = 7 -> whole
           [] OTHER -> Nowhere
  BY <1>1, SMT DEF VIP_Cell
<1>3. /\ page \in 0..3 /\ off >= 24576 => chr = <<"CHR_RAM", 8192 * page + (off - 24576)>>
      /\ page \in 4..7 => dram = <<"DRAM", l - 131072>>
  <2>1. page \in 0..3 => page % 4 = page
    BY <1>1, PageHalves, SMT
  <2>2. page \in 0..3 /\ off >= 24576 => (l % 8192) + 8192 * (page % 4) = 8192 * page + (off - 24576)
    BY <1>1, <2>1, SMT
  <2> QED
    BY <1>1, <2>2
<1> HIDE DEF chr, dram, fb, whole
<1>4. VIP_Cell(l) =
         CASE page \in 0..3 /\ off >= 24576 -> chr
           [] page \in 0..3 /\ off < 24576 -> fb
           [] page \in 4..7 -> dram
           [] page \in 14..15 -> whole
           [] OTHER -> Nowhere
  BY <1>1, <1>2, PageCases, SMT
<1> QED
  <2>1. page \in 0..3 /\ off >= 24576 => VIP_Cell(l) = chr
    BY <1>4
  <2>2. page \in 0..3 /\ ~(off >= 24576) => VIP_Cell(l) = fb
    <3>1. ~(off >= 24576) => off < 24576
      BY <1>1, SMT
    <3> QED
      BY <1>4, <3>1
  <2>3. page \in 4..7 => VIP_Cell(l) = dram
    <3>1. page \in 4..7 => page \notin 0..3
      BY SMT
    <3> QED
      BY <1>4, <3>1
  <2>4. page \in 14..15 => VIP_Cell(l) = whole
    <3>1. page \in 14..15 => page \notin 0..3 /\ page \notin 4..7
      BY SMT
    <3> QED
      BY <1>4, <3>1
  <2>5. page \notin 0..3 /\ page \notin 4..7 /\ page \notin 14..15 => VIP_Cell(l) = Nowhere
    BY <1>4
  <2> QED
    BY <1>3, <2>1, <2>2, <2>3, <2>4, <2>5 DEF fb, whole

(* A place by page and offset.                                             *)
Off(a) == (a % M27) % 32768

LEMMA OffType ==
  ASSUME NEW a \in Int
  PROVE  Off(a) \in Int /\ 0 <= Off(a)
  BY RegionIs, SMT DEF Off

LEMMA OffIs ==
  ASSUME NEW a \in Int
  PROVE  /\ Off(a) \in Int /\ 0 <= Off(a) /\ Off(a) < 32768
         /\ a % M27 = 32768 * Page(a) + Off(a)
         /\ Page(a) \in Int /\ 0 <= Page(a)
         /\ Page(a) < 512 <=> Region(a) = 0
         /\ (a % M27) % 65536 = a % 65536
<1>1. a % M27 \in Int /\ 0 <= a % M27 /\ Page(a) = (a % M27) \div 32768 /\ Region(a) = Page(a) \div 512
  BY RegionIs, SMT
<1>2. (a % M27) % 65536 = a % 65536
  BY Powers, SMT
<1>3. Page(a) \in Int /\ 0 <= Page(a)
  BY RegionIs, SMT
<1>4. Page(a) < 512 <=> Region(a) = 0
  BY <1>1, <1>3, SMT
<1> QED
  BY <1>1, <1>2, <1>3, <1>4, SMT DEF Off

LEMMA VideoPages ==
  ASSUME NEW a \in Int
  PROVE  /\ Region(a) # 0 => Page(a) \notin 0..3 /\ Page(a) \notin 4..7 /\ Page(a) \notin 14..15 /\ Page(a) # 14
         /\ Off(a) >= 24576 <=> ~(Off(a) < 24576)
  BY OffIs, SMTT(60)

LEMMA PlaceIs ==
  ASSUME NEW a \in Int
  PROVE  Place(a) =
           CASE Region(a) = 5 -> <<"WRAM", a % 65536>>
             [] Region(a) = 6 -> <<"GPRAM", a % 65536>>
             [] Page(a) \in 0..3 /\ Off(a) >= 24576 -> <<"CHR_RAM", 8192 * Page(a) + (Off(a) - 24576)>>
             [] Page(a) \in 0..3 /\ Off(a) < 24576 -> <<"FB", 24576 * (2 * (Page(a) % 2) + (Page(a) \div 2)) + Off(a)>>
             [] Page(a) \in 4..7 -> <<"DRAM", (a % M27) - 131072>>
             [] Page(a) \in 14..15 -> <<"CHR_RAM", Off(a)>>
             [] OTHER -> Nowhere
<1> DEFINE l == a % M27
<1>1. l \in Int /\ 0 <= l /\ Page(a) = l \div 32768 /\ Off(a) = l % 32768
  BY RegionIs, SMT DEF Off
<1>2. VIP_Cell(l) =
           CASE Page(a) \in 0..3 /\ Off(a) >= 24576 -> <<"CHR_RAM", 8192 * Page(a) + (Off(a) - 24576)>>
             [] Page(a) \in 0..3 /\ Off(a) < 24576 -> <<"FB", 24576 * (2 * (Page(a) % 2) + (Page(a) \div 2)) + Off(a)>>
             [] Page(a) \in 4..7 -> <<"DRAM", l - 131072>>
             [] Page(a) \in 14..15 -> <<"CHR_RAM", Off(a)>>
             [] OTHER -> Nowhere
  <2> HIDE DEF l
  <2> QED BY <1>1, VideoCell, SMT
<1>3. /\ Region(a) = Page(a) \div 512
      /\ Page(a) \in Int /\ 0 <= Page(a)
  BY RegionIs, SMT
<1>4. /\ Region(a) = 5 => Page(a) \notin 0..3 /\ Page(a) \notin 4..7 /\ Page(a) \notin 14..15
      /\ Region(a) = 6 => Page(a) \notin 0..3 /\ Page(a) \notin 4..7 /\ Page(a) \notin 14..15
      /\ Page(a) \in 0..3 \/ Page(a) \in 4..7 \/ Page(a) \in 14..15 => Region(a) = 0
  BY <1>3, SMT
<1>5. Place(a) = CASE Region(a) = 0 -> VIP_Cell(l)
                   [] Region(a) = 5 -> <<"WRAM", a % 65536>>
                   [] Region(a) = 6 -> <<"GPRAM", a % 65536>>
                   [] OTHER -> Nowhere
  BY Powers, SMT DEF Place
<1> HIDE DEF l
<1>6. CASE Region(a) = 0
  <2>1. Place(a) = VIP_Cell(l) /\ Region(a) # 5 /\ Region(a) # 6
    BY <1>5, <1>6, SMT
  <2> QED
    BY <1>2, <2>1, SMT DEF l
<1>7. CASE Region(a) # 0
  BY <1>4, <1>5, <1>7, SMT
<1> QED
  BY <1>6, <1>7

LEMMA PlaceOfFrame ==
  ASSUME NEW a \in Int, Page(a) \in 0..3, ~(Off(a) >= 24576)
  PROVE  Place(a) = <<"FB", 24576 * (2 * (Page(a) % 2) + (Page(a) \div 2)) + Off(a)>>
<1>1. Region(a) # 5 /\ Region(a) # 6 /\ Off(a) < 24576
  BY VideoPages
<1>2. Page(a) \notin 4..7 /\ Page(a) \notin 14..15
  BY SMT
<1> QED
  BY <1>1, <1>2, PlaceIs, SMT

LEMMA CanonicalIs ==
  ASSUME NEW a \in Int
  PROVE  Canonical(a) =
           CASE Region(a) = 5 -> 83886080 + (a % 65536)
             [] Region(a) = 6 -> 100663296 + (a % 65536)
             [] Page(a) \in 0..3 /\ Off(a) >= 24576 -> 491520 + 8192 * Page(a) + (Off(a) - 24576)
             [] Page(a) = 14 -> (a % M27) + 32768
             [] Region(a) = 2 -> 33554432 + (a % 256)
             [] OTHER -> a % M27
<1> DEFINE l == a % M27
<1>1. /\ l \in Int
      /\ Page(a) \in Int
      /\ Page(a) \in 0..3 \/ Page(a) = 14 => Region(a) = 0
  BY RegionIs, SMT
<1>2. l % 65536 = a % 65536 /\ l % 256 = a % 256 /\ Off(a) = l % 32768
  BY Powers, SMT DEF Off
<1>3. Canonical(a) =
         CASE Region(a) \in 5..6 -> Start(Region(a)) + (l % 65536)
           [] Page(a) \in 0..3 /\ Off(a) >= 24576 -> 491520 + 8192 * Page(a) + (Off(a) - 24576)
           [] Page(a) = 14 -> l + 32768
           [] Region(a) = 2 -> Start(2) + (l % 256)
           [] OTHER -> l
  BY <1>2, Powers, SMT DEF Canonical
<1>4. Start(5) = 83886080 /\ Start(6) = 100663296 /\ Start(2) = 33554432
  BY Powers, SMT DEF Start
<1> HIDE DEF l
<1> SUFFICES Canonical(a) =
           CASE Region(a) = 5 -> 83886080 + (a % 65536)
             [] Region(a) = 6 -> 100663296 + (a % 65536)
             [] Page(a) \in 0..3 /\ Off(a) >= 24576 -> 491520 + 8192 * Page(a) + (Off(a) - 24576)
             [] Page(a) = 14 -> l + 32768
             [] Region(a) = 2 -> 33554432 + (a % 256)
             [] OTHER -> l
  BY SMT DEF l
<1> QED
  BY <1>1, <1>2, <1>3, <1>4, SMT

(* An address without mirrors lies where the addresses that it stands for   *)
(* lie.                                                                     *)
LEMMA Reduced ==
  ASSUME NEW c \in Int, 0 <= c, c < M27
  PROVE  /\ c % M27 = c
         /\ Region(c) = c \div M24 /\ Page(c) = c \div 32768 /\ Off(c) = c % 32768
<1>1. c % M27 = c
  BY SMT DEF M27
<1> QED
  BY <1>1, RegionIs DEF Off

LEMMA CanonicalOfRam ==
  ASSUME NEW a \in Int, NEW r \in 5..6, Region(a) = r
  PROVE  /\ Canonical(a) \in Int
         /\ Canonical(a) = M24 * r + (a % 65536)
         /\ Region(Canonical(a)) = r
         /\ Canonical(a) % 65536 = a % 65536
<1>1. Canonical(a) = M24 * r + (a % 65536)
  <2>1. CASE r = 5
    <3>1. M24 * r = 83886080
      BY <2>1, Powers, SMT
    <3>2. Canonical(a) = 83886080 + (a % 65536)
      BY <2>1, CanonicalIs, VideoPages, SMT
    <3> QED
      BY <3>1, <3>2
  <2>2. CASE r = 6
    <3>1. M24 * r = 100663296
      BY <2>2, Powers, SMT
    <3>2. Canonical(a) = 100663296 + (a % 65536)
      BY <2>2, CanonicalIs, VideoPages, SMT
    <3> QED
      BY <3>1, <3>2
  <2> QED
    BY <2>1, <2>2, SMT
<1>2. a % 65536 \in Int /\ 0 <= a % 65536 /\ a % 65536 < 65536
  BY SMT
<1>3. /\ Canonical(a) \in Int /\ 0 <= Canonical(a) /\ Canonical(a) < M27
      /\ Canonical(a) \div M24 = r
      /\ Canonical(a) % 65536 = a % 65536
  BY <1>1, <1>2, Powers, SMT
<1> QED
  BY <1>1, <1>3, Reduced

LEMMA CanonicalOfBank ==
  ASSUME NEW a \in Int, Page(a) \in 0..3, Off(a) >= 24576
  PROVE  LET c == Canonical(a)
         IN  c \in Int /\ Page(c) = 15 /\ Off(c) = 8192 * Page(a) + (Off(a) - 24576)
<1> DEFINE c == Canonical(a)
<1>1. Region(a) = 0
  BY OffIs, SMT
<1>2. c = 491520 + 8192 * Page(a) + (Off(a) - 24576)
  BY <1>1, CanonicalIs, SMT
<1>3. Page(a) \in 0..3 /\ Off(a) \in Int /\ Off(a) < 32768 /\ Off(a) >= 24576
  BY OffIs, SMT
<1> HIDE DEF c
<1>4. c \in Int /\ 0 <= c /\ c < M27 /\ c \div 32768 = 15 /\ c % 32768 = 8192 * Page(a) + (Off(a) - 24576)
  BY <1>2, <1>3, Powers, SMT
<1>5. Page(c) = 15 /\ Off(c) = 8192 * Page(a) + (Off(a) - 24576)
  BY <1>4, Reduced
<1> QED
  BY <1>4, <1>5 DEF c

LEMMA CanonicalOfPage14 ==
  ASSUME NEW a \in Int, Page(a) = 14
  PROVE  LET c == Canonical(a)
         IN  c \in Int /\ Page(c) = 15 /\ Off(c) = Off(a)
<1> DEFINE c == Canonical(a)
<1>1. Region(a) = 0
  BY OffIs, SMT
<1>2. c = (a % M27) + 32768
  BY <1>1, CanonicalIs, SMT
<1>3. Off(a) \in Int /\ 0 <= Off(a) /\ Off(a) < 32768 /\ a % M27 = 32768 * 14 + Off(a)
  BY OffIs, SMT
<1> HIDE DEF c
<1>4. c \in Int /\ 0 <= c /\ c < M27 /\ c \div 32768 = 15 /\ c % 32768 = Off(a)
  BY <1>2, <1>3, Powers, SMT
<1>5. Page(c) = 15 /\ Off(c) = Off(a)
  BY <1>4, Reduced
<1> QED
  BY <1>4, <1>5 DEF c

LEMMA CanonicalOfHardware ==
  ASSUME NEW a \in Int, Region(a) = 2
  PROVE  /\ Canonical(a) = 33554432 + (a % 256)
         /\ Canonical(a) \in Int /\ Region(Canonical(a)) = 2
<1> DEFINE c == Canonical(a)
<1>1. c = 33554432 + (a % 256)
  <2>1. Page(a) \notin 0..3 /\ Page(a) # 14
    BY OffIs, SMTT(60)
  <2> QED
    BY <2>1, CanonicalIs, SMT
<1>2. a % 256 \in Int /\ 0 <= a % 256 /\ a % 256 < 256
  BY SMT
<1> HIDE DEF c
<1>3. c \in Int /\ 0 <= c /\ c < M27 /\ c \div M24 = 2
  BY <1>1, <1>2, Powers, SMT
<1>4. Region(c) = 2
  BY <1>3, Reduced
<1> QED
  BY <1>1, <1>3, <1>4 DEF c

LEMMA CanonicalOfOther ==
  ASSUME NEW a \in Int, Region(a) \notin {2, 5, 6}, ~(Page(a) \in 0..3 /\ Off(a) >= 24576), Page(a) # 14
  PROVE  LET c == Canonical(a)
         IN  c \in Int /\ c = a % M27 /\ Region(c) = Region(a) /\ Page(c) = Page(a) /\ Off(c) = Off(a)
<1> DEFINE c == Canonical(a)
<1>1. c = a % M27
  BY CanonicalIs, SMT
<1> HIDE DEF c
<1>2. c \in Int /\ 0 <= c /\ c < M27
  BY <1>1, RegionIs, SMT
<1>3. Region(c) = c \div M24 /\ Page(c) = c \div 32768 /\ Off(c) = c % 32768
  BY <1>2, Reduced
<1>4. Region(c) = Region(a) /\ Page(c) = Page(a) /\ Off(c) = Off(a)
  BY <1>1, <1>3, RegionIs DEF Off
<1> QED
  BY <1>1, <1>2, <1>4 DEF c

(* The three facts the proof of the memory needs of mirrors: an address has *)
(* its byte where its canonical address has it, ...                         *)
LEMMA SamePlace ==
  ASSUME NEW a \in Int
  PROVE  /\ Canonical(a) \in Int
         /\ Region(Canonical(a)) = Region(a)
         /\ Backed(Canonical(a)) <=> Backed(a)
         /\ Backed(a) => Place(Canonical(a)) = Place(a)
<1> DEFINE c == Canonical(a)
<1>1. CASE Region(a) \in 5..6
  <2>1. c \in Int /\ Region(c) = Region(a) /\ c % 65536 = a % 65536
    BY <1>1, CanonicalOfRam
  <2>2. Region(c) \in 5..6
    BY <1>1, <2>1
  <2>3. Place(c) = Place(a)
    BY <1>1, <2>1, SMT DEF Place
  <2> QED
    BY <1>1, <2>1, <2>2, <2>3 DEF Backed
<1>2. CASE Page(a) \in 0..3 /\ Off(a) >= 24576
  <2>1. c \in Int /\ Page(c) = 15 /\ Off(c) = 8192 * Page(a) + (Off(a) - 24576)
    BY <1>2, CanonicalOfBank
  <2>2. Region(c) = 0 /\ Region(a) = 0
    BY <1>2, <2>1, OffIs, SMT
  <2>3. Place(c) = <<"CHR_RAM", Off(c)>>
    <3> HIDE DEF c
    <3> QED BY <2>1, <2>2, PlaceIs, SMT
  <2>4. Place(a) = <<"CHR_RAM", 8192 * Page(a) + (Off(a) - 24576)>>
    <3>1. Region(a) # 5 /\ Region(a) # 6
      BY <2>2, SMT
    <3> QED
      BY <1>2, <3>1, PlaceIs, VideoPages, SMT
  <2>5. Backed(a) /\ Backed(c)
    BY <1>2, <2>1, SMT DEF Backed
  <2> QED
    BY <2>1, <2>2, <2>3, <2>4, <2>5
<1>3. CASE Page(a) = 14
  <2>1. c \in Int /\ Page(c) = 15 /\ Off(c) = Off(a)
    BY <1>3, CanonicalOfPage14
  <2>2. Region(c) = 0 /\ Region(a) = 0
    BY <1>3, <2>1, OffIs, SMT
  <2>3. Place(c) = <<"CHR_RAM", Off(c)>>
    <3> HIDE DEF c
    <3> QED BY <2>1, <2>2, PlaceIs, SMT
  <2>4. Place(a) = <<"CHR_RAM", Off(a)>>
    BY <1>3, <2>2, PlaceIs, SMT
  <2>5. Backed(a) /\ Backed(c)
    BY <1>3, <2>1, SMT DEF Backed
  <2> QED
    BY <2>1, <2>2, <2>3, <2>4, <2>5
<1>4. CASE Region(a) = 2
  <2>1. c \in Int /\ Region(c) = 2
    BY <1>4, CanonicalOfHardware
  <2>2. ~Backed(a) /\ ~Backed(c)
    <3>1. \A x \in Int : Region(x) = 2 => ~Backed(x)
      <4> SUFFICES ASSUME NEW x \in Int, Region(x) = 2, Backed(x)
                   PROVE  FALSE
        OBVIOUS
      <4>1. Page(x) \in 0..7 \/ Page(x) \in 14..15
        BY SMT DEF Backed
      <4>2. Region(x) = 0
        BY <4>1, OffIs, SMTT(60)
      <4> QED
        BY <4>2, SMT
    <3> HIDE DEF c
    <3> QED
      BY <1>4, <2>1, <3>1
  <2> QED
    BY <1>4, <2>1, <2>2
<1>5. CASE Region(a) \notin {2, 5, 6} /\ ~(Page(a) \in 0..3 /\ Off(a) >= 24576) /\ Page(a) # 14
  <2>1. c \in Int /\ c = a % M27 /\ Region(c) = Region(a) /\ Page(c) = Page(a) /\ Off(c) = Off(a)
    BY <1>5, CanonicalOfOther
  <2>2. c % M27 = a % M27
    BY <2>1, RegionIs, Reduced
  <2>3. Place(c) = Place(a)
    <3>1. Region(a) # 5 /\ Region(a) # 6 /\ Region(c) # 5 /\ Region(c) # 6
      BY <1>5, <2>1
    <3> HIDE DEF c
    <3> QED
      BY <2>1, <2>2, <3>1, Powers, SMT DEF Place
  <2>4. Backed(c) <=> Backed(a)
    BY <2>1 DEF Backed
  <2> QED
    BY <2>1, <2>3, <2>4
<1> QED
  BY <1>1, <1>2, <1>3, <1>4, <1>5, RegionIs, SMT

(* ... and addresses that share a byte have the same canonical address.     *)
Home(cell) ==
  CASE cell[1] = "WRAM" -> 83886080 + cell[2]
    [] cell[1] = "GPRAM" -> 100663296 + cell[2]
    [] cell[1] = "CHR_RAM" -> 491520 + cell[2]
    [] cell[1] = "DRAM" -> 131072 + cell[2]
    [] OTHER -> 32768 * (2 * ((cell[2] \div 24576) % 2) + ((cell[2] \div 24576) \div 2)) + (cell[2] % 24576)

LEMMA HomeIs ==
  ASSUME NEW a \in Int, Backed(a)
  PROVE  Canonical(a) = Home(Place(a))
<1>1. CASE Region(a) = 5
  <2>1. Place(a) = <<"WRAM", a % 65536>> /\ Canonical(a) = 83886080 + (a % 65536)
    BY <1>1, PlaceIs, CanonicalIs, VideoPages, SMT
  <2> QED
    BY <2>1 DEF Home
<1>2. CASE Region(a) = 6
  <2>1. Place(a) = <<"GPRAM", a % 65536>> /\ Canonical(a) = 100663296 + (a % 65536)
    BY <1>2, PlaceIs, CanonicalIs, VideoPages, SMT
  <2> QED
    BY <2>1, SMT DEF Home
<1>3. CASE Region(a) \notin 5..6
  <2>1. Page(a) \in 0..7 \/ Page(a) \in 14..15
    BY <1>3 DEF Backed
  <2>2. Region(a) = 0
    BY <2>1, OffIs, SMTT(60)
  <2>3. Region(a) # 5 /\ Region(a) # 6 /\ Region(a) # 2
    BY <2>2, SMT
  <2>4. CASE Page(a) \in 0..3 /\ Off(a) >= 24576
    <3>1. Place(a) = <<"CHR_RAM", 8192 * Page(a) + (Off(a) - 24576)>>
      BY <2>3, <2>4, PlaceIs, VideoPages, SMT
    <3>2. Canonical(a) = 491520 + 8192 * Page(a) + (Off(a) - 24576)
      BY <2>3, <2>4, CanonicalIs, SMT
    <3> QED
      BY <2>4, <3>1, <3>2, OffIs, SMT DEF Home
  <2>5. CASE Page(a) \in 0..3 /\ ~(Off(a) >= 24576)
    <3> DEFINE p == Page(a)   f == Off(a)   n == 2 * (p % 2) + (p \div 2)
    <3>1. p \in 0..3 /\ f \in Int /\ 0 <= f /\ f < 24576
      BY <2>5, OffIs, SMT
    <3>2. Place(a) = <<"FB", 24576 * n + f>>
      BY <2>3, <2>5, <3>1, PlaceIs, SMT
    <3>3. Canonical(a) = 32768 * p + f
      <4>1. Canonical(a) = a % M27
        BY <2>3, <2>5, CanonicalIs, SMT
      <4> QED
        BY <4>1, OffIs
    <3> HIDE DEF p, f
    <3>4. n \in 0..3 /\ 2 * (n % 2) + (n \div 2) = p
      BY <3>1, SMT
    <3> HIDE DEF n
    <3>5. (24576 * n + f) \div 24576 = n /\ (24576 * n + f) % 24576 = f
      BY <3>1, <3>4, SMT
    <3> DEFINE o == 24576 * n + f
    <3>6. Home(<<"FB", o>>) = 32768 * (2 * ((o \div 24576) % 2) + ((o \div 24576) \div 2)) + (o % 24576)
      BY SMT DEF Home
    <3>7. Home(<<"FB", o>>) = 32768 * p + f
      BY <3>4, <3>5, <3>6
    <3> QED
      BY <3>2, <3>3, <3>7
  <2>6. CASE Page(a) \in 4..7
    <3>1. Page(a) \notin 0..3 /\ Page(a) # 14
      BY <2>6, SMT
    <3>2. Place(a) = <<"DRAM", (a % M27) - 131072>> /\ Canonical(a) = a % M27
      BY <2>3, <2>6, <3>1, PlaceIs, CanonicalIs
    <3> QED
      BY <3>2, RegionIs, SMT DEF Home
  <2>7. CASE Page(a) = 14
    <3>1. Page(a) \notin 0..3 /\ Page(a) \notin 4..7
      BY <2>7, SMT
    <3>2. Place(a) = <<"CHR_RAM", Off(a)>> /\ Canonical(a) = (a % M27) + 32768
      BY <2>3, <2>7, <3>1, PlaceIs, CanonicalIs, SMT
    <3>3. a % M27 = 32768 * 14 + Off(a)
      BY <2>7, OffIs
    <3> QED
      BY <3>2, <3>3, OffIs, SMT DEF Home
  <2>8. CASE Page(a) = 15
    <3>1. Page(a) \notin 0..3 /\ Page(a) \notin 4..7 /\ Page(a) # 14
      BY <2>8, SMT
    <3>2. Place(a) = <<"CHR_RAM", Off(a)>> /\ Canonical(a) = a % M27
      BY <2>3, <2>8, <3>1, PlaceIs, CanonicalIs, SMT
    <3>3. a % M27 = 32768 * 15 + Off(a)
      BY <2>8, OffIs
    <3> QED
      BY <3>2, <3>3, OffIs, SMT DEF Home
  <2> QED
    BY <2>1, <2>4, <2>5, <2>6, <2>7, <2>8, SMT
<1> QED
  BY <1>1, <1>2, <1>3, SMT

LEMMA SameByte ==
  ASSUME NEW a \in Int, NEW b \in Int, Backed(a)
  PROVE  /\ Backed(b) => (Place(a) = Place(b) <=> Canonical(a) = Canonical(b))
         /\ ~Backed(b) => Canonical(a) # Canonical(b)
<1>1. Canonical(a) = Canonical(b) => Backed(b)
  BY SamePlace
<1>2. ASSUME Backed(b), Place(a) = Place(b)
      PROVE  Canonical(a) = Canonical(b)
  BY <1>2, HomeIs
<1>3. ASSUME Backed(b), Canonical(a) = Canonical(b)
      PROVE  Place(a) = Place(b)
  BY <1>3, SamePlace
<1> QED
  BY <1>1, <1>2, <1>3

(* The sizes of cartridges, and the lengths of the memories mapped.        *)
SizeList == {256, 512, 1024, 2048, 4096, 8192, 16384, 32768, 65536, 131072, 262144, 524288, 1048576,
             2097152, 4194304, 8388608, 16777216}
LengthList == {65536, 131072, 262144, 524288, 1048576, 2097152, 4194304, 8388608, 16777216}

LEMMA SizesAre == {2^k : k \in 8..24} = SizeList
<1> DEFINE P == [k \in Int |-> 2^k]
<1>1. /\ P[8] = 256 /\ P[9] = 512 /\ P[10] = 1024 /\ P[11] = 2048 /\ P[12] = 4096
      /\ P[13] = 8192 /\ P[14] = 16384 /\ P[15] = 32768 /\ P[16] = 65536 /\ P[17] = 131072
      /\ P[18] = 262144 /\ P[19] = 524288 /\ P[20] = 1048576 /\ P[21] = 2097152
      /\ P[22] = 4194304 /\ P[23] = 8388608 /\ P[24] = 16777216
  BY SMT
<1>2. \A k \in 8..24 : P[k] = 2^k
  BY SMT
<1> HIDE DEF P
<1>3. \A k \in 8..24 : k = 8 \/ k = 9 \/ k = 10 \/ k = 11 \/ k = 12 \/ k = 13 \/ k = 14 \/ k = 15 \/ k = 16
        \/ k = 17 \/ k = 18 \/ k = 19 \/ k = 20 \/ k = 21 \/ k = 22 \/ k = 23 \/ k = 24
  BY SMT
<1>4. \A k \in 8..24 : P[k] \in SizeList
  BY <1>1, <1>3, SMT DEF SizeList
<1>5. \A s \in SizeList : \E k \in 8..24 : s = P[k]
  BY <1>1, SMT DEF SizeList
<1> QED
  BY <1>2, <1>4, <1>5

LEMMA LengthsAre ==
  ASSUME NEW s \in SizeList, NEW l, l = IF s < 65536 THEN 65536 ELSE s
  PROVE  l \in LengthList
  BY SMT DEF SizeList, LengthList

LEMMA CopiesFit ==
  ASSUME NEW s \in SizeList, NEW l, l = IF s < 65536 THEN 65536 ELSE s, NEW a \in Int
  PROVE  (a % M24) % s = a % s /\ (a % l) % s = a % s
<1>1. (a % 16777216) % s = a % s
  BY SMT DEF SizeList
<1>2. s < 65536 => (a % 65536) % s = a % s
  BY SMT DEF SizeList
<1>3. (a % s) % s = a % s
  BY SMT DEF SizeList
<1> QED
  BY <1>1, <1>2, <1>3, Powers, SMT

LEMMA LengthFacts ==
  ASSUME NEW l \in LengthList
  PROVE  /\ l \in Int /\ l >= 65536 /\ l % 2 = 0
         /\ 32 * (M24 \div l) <= 8192
  BY SMT DEF LengthList, M24

LEMMA InBlock ==
  ASSUME NEW l \in LengthList, NEW a \in Int
  PROVE  /\ a % l \in Int /\ 0 <= a % l /\ a % l < l
         /\ a % 2 = 0 => (a % l) % 2 = 0
         /\ a % 2 = 0 => (a + 1) % l = (a % l) + 1
  BY SMT DEF LengthList

LEMMA Onward ==
  ASSUME NEW l \in LengthList, NEW a \in Int, NEW n \in Nat, (a % l) + n < l
  PROVE  /\ (a + n) % l = (a % l) + n
         /\ (a + n) \div M24 = a \div M24
  BY SMT DEF LengthList, M24

LEMMA RegionByBlock ==
  ASSUME NEW a \in Int, NEW b \in Int, a \div M24 = b \div M24
  PROVE  Region(a) = Region(b)
<1>1. \A x \in Int : (x % M27) \div M24 = (x \div M24) % 8
  BY Powers, SMT
<1> QED
  BY <1>1, RegionIs, SMT

LEMMA EvenPairs ==
  ASSUME NEW a \in Int, a % 2 = 0
  PROVE  /\ Region(a + 1) = Region(a)
         /\ Page(a + 1) = Page(a)
         /\ Off(a + 1) = Off(a) + 1
         /\ Off(a) % 2 = 0
         /\ Off(a) >= 24576 <=> Off(a + 1) >= 24576
         /\ Backed(a + 1) <=> Backed(a)
<1> DEFINE l == a % M27
<1>1. /\ (a + 1) % M27 = l + 1
      /\ l \in Int /\ 0 <= l /\ l % 2 = 0
  BY Powers, SMT
<1>2. \A x \in Int : x % 2 = 0 =>
        /\ (x + 1) \div M24 = x \div M24
        /\ (x + 1) \div 32768 = x \div 32768
        /\ (x + 1) % 32768 = (x % 32768) + 1
        /\ (x % 32768) % 2 = 0
  BY Powers, SMT
<1>3. /\ Region(a) = l \div M24 /\ Region(a + 1) = (l + 1) \div M24
      /\ Page(a) = l \div 32768 /\ Page(a + 1) = (l + 1) \div 32768
      /\ Off(a) = l % 32768 /\ Off(a + 1) = (l + 1) % 32768
  <2>1. a + 1 \in Int
    BY SMT
  <2> QED
    BY <1>1, <2>1, RegionIs DEF Off
<1> HIDE DEF l
<1>4. /\ Region(a + 1) = Region(a) /\ Page(a + 1) = Page(a) /\ Off(a + 1) = Off(a) + 1 /\ Off(a) % 2 = 0
  BY <1>1, <1>2, <1>3
<1>5. Off(a) >= 24576 <=> Off(a + 1) >= 24576
  <2>1. \A x \in Int : x % 2 = 0 => (x >= 24576 <=> x + 1 >= 24576)
    BY SMT
  <2>2. Off(a) \in Int
    BY OffType
  <2> HIDE DEF l
  <2>3. Off(a) >= 24576 <=> Off(a) + 1 >= 24576
    BY <1>4, <2>1, <2>2
  <2> QED
    BY <1>4, <2>3
<1> QED
  BY <1>4, <1>5 DEF Backed

-----------------------------------------------------------------------------
(* The memory as a record, and what a store changes in it.                  *)
IsTable(b) == b = [x \in DOMAIN b |-> b[x]]
IsMemory(m) ==
  /\ m = [bytes |-> m.bytes, size |-> m.size, length |-> m.length, WCR |-> m.WCR, maps |-> m.maps]
  /\ IsTable(m.bytes)
  /\ \A c \in DOMAIN m.bytes : c[1] \notin {"nowhere", "GPROM", "DummyRegion"}

SameCartridge(m, n) ==
  m.size = n.size /\ m.length = n.length /\ m.maps = n.maps

LEMMA StoreIs ==
  ASSUME NEW m, IsMemory(m), NEW cell, cell = Nowhere \/ cell[1] \notin {"nowhere", "GPROM", "DummyRegion"}, NEW b
  PROVE  LET n == Store(m, cell, b)
         IN  /\ IsMemory(n)
             /\ SameCartridge(n, m) /\ n.WCR = m.WCR
             /\ \A x : ByteAt(n, x) = IF x = cell /\ cell # Nowhere THEN b ELSE ByteAt(m, x)
<1> DEFINE B == [c \in DOMAIN m.bytes \cup ({cell} \ {Nowhere}) |-> IF c = cell THEN b ELSE m.bytes[c]]
           n == Store(m, cell, b)
<1>1. n = [m EXCEPT !.bytes = B]
  BY DEF Store
<1>2. m = [bytes |-> m.bytes, size |-> m.size, length |-> m.length, WCR |-> m.WCR, maps |-> m.maps]
  BY DEF IsMemory
<1>3. \A c \in DOMAIN m.bytes : c[1] \notin {"nowhere", "GPROM", "DummyRegion"}
  BY DEF IsMemory
<1>4. DOMAIN B = DOMAIN m.bytes \cup ({cell} \ {Nowhere})
  OBVIOUS
<1>5. \A c \in DOMAIN B : c[1] \notin {"nowhere", "GPROM", "DummyRegion"}
  BY <1>3, <1>4
<1>6. IsTable(B)
  BY DEF IsTable
<1>7. Nowhere \notin DOMAIN m.bytes
  BY <1>3, SMT DEF Nowhere
<1>8. \A c : c \in DOMAIN B => B[c] = IF c = cell THEN b ELSE m.bytes[c]
  OBVIOUS
<1> HIDE DEF B
<1>9. n = [bytes |-> B, size |-> m.size, length |-> m.length, WCR |-> m.WCR, maps |-> m.maps]
  BY <1>1, <1>2, SMT
<1> HIDE DEF n
<1>10. n.bytes = B /\ n.size = m.size /\ n.length = m.length /\ n.WCR = m.WCR /\ n.maps = m.maps
  BY <1>9, SMT
<1>11. IsMemory(n)
  BY <1>5, <1>6, <1>9, <1>10 DEF IsMemory
<1>12. SameCartridge(n, m)
  BY <1>10 DEF SameCartridge
<1>13. ASSUME NEW x
       PROVE  ByteAt(n, x) = IF x = cell /\ cell # Nowhere THEN b ELSE ByteAt(m, x)
  <2>1. CASE x = cell /\ cell # Nowhere
    BY <2>1, <1>4, <1>8, <1>10 DEF ByteAt
  <2>2. CASE x # cell \/ cell = Nowhere
    <3>1. x \in DOMAIN B <=> x \in DOMAIN m.bytes
      BY <2>2, <1>4, <1>7
    <3>2. x \in DOMAIN B => B[x] = m.bytes[x]
      BY <2>2, <3>1, <1>7, <1>8
    <3> QED
      BY <2>2, <3>1, <3>2, <1>10 DEF ByteAt
  <2> QED
    BY <2>1, <2>2
<1> QED
  BY <1>10, <1>11, <1>12, <1>13 DEF n

(* Memory and history agree: every byte is the one last written.            *)
Last(f, a) == IF Canonical(a) \in DOMAIN f THEN f[Canonical(a)] ELSE 0
Agrees(m, f) == \A a \in Int : Backed(a) => ByteAt(m, Place(a)) = Last(f, a)

LEMMA BackedPlace ==
  ASSUME NEW a \in Int, Backed(a)
  PROVE  \E name \in {"WRAM", "GPRAM", "CHR_RAM", "FB", "DRAM"}, o \in Int :
            /\ Place(a) = <<name, o>>
            /\ a % 2 = 0 => Place(a + 1) = <<name, o + 1>>
<1> DEFINE P(name, o) == /\ Place(a) = <<name, o>>
                         /\ a % 2 = 0 => Place(a + 1) = <<name, o + 1>>
<1>0. a + 1 \in Int
  BY SMT
<1>1. a % 2 = 0 =>
        /\ Region(a + 1) = Region(a) /\ Page(a + 1) = Page(a) /\ Off(a + 1) = Off(a) + 1
        /\ Off(a) >= 24576 <=> Off(a + 1) >= 24576
        /\ (a + 1) % 65536 = (a % 65536) + 1
        /\ (a + 1) % M27 = (a % M27) + 1
  BY EvenPairs, Powers, SMT
<1>2. /\ a % 65536 \in Int /\ a % M27 \in Int /\ Off(a) \in Int /\ Page(a) \in Int
      /\ Off(a) >= 24576 <=> ~(Off(a) < 24576)
      /\ Off(a + 1) >= 24576 <=> ~(Off(a + 1) < 24576)
  BY <1>0, OffIs, RegionIs, VideoPages, SMT
<1>3. CASE Region(a) = 5
  <2>1. Place(a) = <<"WRAM", a % 65536>>
    BY <1>3, PlaceIs, VideoPages, SMT
  <2>2. a % 2 = 0 => Place(a + 1) = <<"WRAM", (a % 65536) + 1>>
    BY <1>0, <1>1, <1>3, PlaceIs, VideoPages, SMT
  <2> QED
    BY <1>2, <2>1, <2>2
<1>4. CASE Region(a) = 6
  <2>1. Place(a) = <<"GPRAM", a % 65536>>
    BY <1>4, PlaceIs, VideoPages, SMT
  <2>2. a % 2 = 0 => Place(a + 1) = <<"GPRAM", (a % 65536) + 1>>
    BY <1>0, <1>1, <1>4, PlaceIs, VideoPages, SMT
  <2> QED
    BY <1>2, <2>1, <2>2
<1>5. CASE Region(a) \notin 5..6
  <2>1. Page(a) \in 0..7 \/ Page(a) \in 14..15
    BY <1>5 DEF Backed
  <2>2. Region(a) # 5 /\ Region(a) # 6 /\ (a % 2 = 0 => Region(a + 1) # 5 /\ Region(a + 1) # 6)
    BY <1>1, <1>5, SMT
  <2>3. CASE Page(a) \in 0..3 /\ Off(a) >= 24576
    <3> DEFINE o == 8192 * Page(a) + (Off(a) - 24576)
    <3>1. Place(a) = <<"CHR_RAM", o>>
      BY <1>2, <2>2, <2>3, PlaceIs
    <3>2. a % 2 = 0 => Place(a + 1) = <<"CHR_RAM", 8192 * Page(a + 1) + (Off(a + 1) - 24576)>>
      BY <1>0, <1>1, <1>2, <2>2, <2>3, PlaceIs
    <3>3. o \in Int /\ (a % 2 = 0 => 8192 * Page(a + 1) + (Off(a + 1) - 24576) = o + 1)
      BY <1>1, <1>2, SMT
    <3> QED
      BY <3>1, <3>2, <3>3
  <2>4. CASE Page(a) \in 0..3 /\ ~(Off(a) >= 24576)
    <3> DEFINE n(x) == 24576 * (2 * (Page(x) % 2) + (Page(x) \div 2))
               o == n(a) + Off(a)
    <3>1. Place(a) = <<"FB", o>>
      BY <1>2, <2>2, <2>4, PlaceIs
    <3>2. a % 2 = 0 => Place(a + 1) = <<"FB", n(a + 1) + Off(a + 1)>>
      <4>1. a % 2 = 0 => Page(a + 1) \in 0..3 /\ ~(Off(a + 1) >= 24576)
        BY <1>1, <2>4
      <4> QED
        BY <1>0, <4>1, PlaceOfFrame
    <3>3. o \in Int /\ (a % 2 = 0 => n(a + 1) + Off(a + 1) = o + 1)
      <4>1. n(a) \in Int
        BY <1>2, SMT
      <4>2. a % 2 = 0 => n(a + 1) = n(a)
        BY <1>1
      <4> HIDE DEF n
      <4> QED
        BY <1>1, <1>2, <4>1, <4>2, SMT
    <3> QED
      BY <3>1, <3>2, <3>3
  <2>5. CASE Page(a) \in 4..7
    <3> DEFINE o == (a % M27) - 131072
    <3>0. Page(a) \notin 0..3
      BY <2>5, SMT
    <3>1. Place(a) = <<"DRAM", o>>
      BY <2>2, <2>5, <3>0, PlaceIs, SMT
    <3>2. a % 2 = 0 => Place(a + 1) = <<"DRAM", ((a + 1) % M27) - 131072>>
      BY <1>0, <1>1, <2>2, <2>5, <3>0, PlaceIs, SMT
    <3>3. o \in Int /\ (a % 2 = 0 => ((a + 1) % M27) - 131072 = o + 1)
      BY <1>1, <1>2, SMT
    <3> QED
      BY <3>1, <3>2, <3>3
  <2>6. CASE Page(a) \in 14..15
    <3>0. Page(a) \notin 0..3 /\ Page(a) \notin 4..7
      BY <2>6, SMT
    <3>1. Place(a) = <<"CHR_RAM", Off(a)>>
      BY <2>2, <2>6, <3>0, PlaceIs, SMT
    <3>2. a % 2 = 0 => Place(a + 1) = <<"CHR_RAM", Off(a + 1)>>
      BY <1>0, <1>1, <2>2, <2>6, <3>0, PlaceIs, SMT
    <3> QED
      BY <1>1, <1>2, <3>1, <3>2
  <2> QED
    BY <1>2, <2>1, <2>3, <2>4, <2>5, <2>6, SMT
<1> QED
  BY <1>3, <1>4, <1>5, SMT

LEMMA PlaceNames ==
  ASSUME NEW a \in Int
  PROVE  /\ Backed(a) => Place(a) # Nowhere /\ Place(a)[1] \notin {"nowhere", "GPROM", "DummyRegion"}
         /\ ~Backed(a) => Place(a) = Nowhere
<1>1. CASE Backed(a)
  <2>1. PICK name \in {"WRAM", "GPRAM", "CHR_RAM", "FB", "DRAM"}, o \in Int : Place(a) = <<name, o>>
    BY <1>1, BackedPlace
  <2> QED
    BY <1>1, <2>1, SMT DEF Nowhere
<1>2. CASE ~Backed(a)
  <2>1. Region(a) # 5 /\ Region(a) # 6 /\ Page(a) \notin 0..7 /\ Page(a) \notin 14..15
    BY <1>2, SMT DEF Backed
  <2>2. Page(a) \notin 0..3 /\ Page(a) \notin 4..7
    BY <2>1, SMT
  <2> QED
    BY <1>2, <2>1, <2>2, PlaceIs
<1> QED
  BY <1>1, <1>2

LEMMA LastNoted ==
  ASSUME NEW f, NEW A, NEW a, NEW b
  PROVE  Last(Noted(f, A, b), a) = IF Canonical(a) = Canonical(A) THEN b ELSE Last(f, a)
<1> DEFINE n == [p \in DOMAIN f \cup {Canonical(A)} |-> IF p = Canonical(A) THEN b ELSE f[p]]
<1>1. Noted(f, A, b) = n
  BY DEF Noted
<1>2. DOMAIN n = DOMAIN f \cup {Canonical(A)}
  OBVIOUS
<1>3. \A p \in DOMAIN n : n[p] = IF p = Canonical(A) THEN b ELSE f[p]
  OBVIOUS
<1> HIDE DEF n
<1> QED
  BY <1>1, <1>2, <1>3 DEF Last

LEMMA AgreesAfterStore ==
  ASSUME NEW m, IsMemory(m), NEW f, Agrees(m, f), NEW A \in Int, NEW b
  PROVE  Agrees(Store(m, Place(A), b), Noted(f, A, b))
<1> DEFINE n == Store(m, Place(A), b)
<1>1. Place(A) = Nowhere \/ Place(A)[1] \notin {"nowhere", "GPROM", "DummyRegion"}
  BY PlaceNames
<1>2. \A x : ByteAt(n, x) = IF x = Place(A) /\ Place(A) # Nowhere THEN b ELSE ByteAt(m, x)
  BY <1>1, StoreIs
<1> SUFFICES ASSUME NEW a \in Int, Backed(a)
             PROVE  ByteAt(n, Place(a)) = Last(Noted(f, A, b), a)
  BY DEF Agrees
<1>3. ByteAt(m, Place(a)) = Last(f, a)
  BY DEF Agrees
<1>4. CASE Backed(A)
  <2>1. Place(a) = Place(A) <=> Canonical(a) = Canonical(A)
    BY <1>4, SameByte
  <2>2. Place(A) # Nowhere
    BY <1>4, PlaceNames
  <2> QED
    BY <1>2, <1>3, <2>1, <2>2, LastNoted
<1>5. CASE ~Backed(A)
  <2>1. Canonical(a) # Canonical(A)
    BY <1>5, SameByte
  <2>2. Place(A) = Nowhere
    BY <1>5, PlaceNames
  <2> QED
    BY <1>2, <1>3, <2>1, <2>2, LastNoted
<1> QED
  BY <1>4, <1>5

(* A write to where no byte is kept changes the history alone.              *)
LEMMA AgreesElsewhere ==
  ASSUME NEW m, NEW f, Agrees(m, f), NEW A \in Int, ~Backed(A), NEW b
  PROVE  Agrees(m, Noted(f, A, b))
<1> SUFFICES ASSUME NEW a \in Int, Backed(a)
             PROVE  ByteAt(m, Place(a)) = Last(Noted(f, A, b), a)
  BY DEF Agrees
<1>1. Canonical(a) # Canonical(A)
  BY SameByte
<1>2. ByteAt(m, Place(a)) = Last(f, a)
  BY DEF Agrees
<1> QED
  BY <1>1, <1>2, LastNoted

(* The second byte of a halfword lies behind the first.                     *)
LEMMA FollowingIs ==
  ASSUME NEW a \in Int, a % 2 = 0
  PROVE  Following(Place(a)) = Place(a + 1)
<1>0. a + 1 \in Int
  BY SMT
<1>1. Backed(a + 1) <=> Backed(a)
  BY EvenPairs
<1>2. CASE ~Backed(a)
  <2>1. Place(a) = Nowhere /\ Place(a + 1) = Nowhere
    BY <1>0, <1>1, <1>2, PlaceNames
  <2> QED
    BY <2>1 DEF Following
<1>3. CASE Backed(a)
  <2>1. PICK name \in {"WRAM", "GPRAM", "CHR_RAM", "FB", "DRAM"}, o \in Int :
           Place(a) = <<name, o>> /\ Place(a + 1) = <<name, o + 1>>
    BY <1>3, BackedPlace
  <2>2. Place(a) # Nowhere
    BY <1>3, PlaceNames
  <2> QED
    BY <2>1, <2>2, SMT DEF Following
<1> QED
  BY <1>2, <1>3

-----------------------------------------------------------------------------
(* The inductive invariant: what a loaded cartridge leaves in the map, ...   *)
MapsAre(q, length) ==
  /\ DOMAIN q = {1, 2, 3}
  /\ q[1] = [name |-> "WRAM", region |-> 5, length |-> 65536]
  /\ q[2] = [name |-> "GPROM", region |-> 7, length |-> length]
  /\ q[3] = [name |-> "GPRAM", region |-> 6, length |-> 65536]

CartridgeInv(m) ==
  /\ IsMemory(m)
  /\ m.size \in SizeList
  /\ m.length = IF m.size < 65536 THEN 65536 ELSE m.size
  /\ MapsAre(m.maps, m.length)

(* ... that the one register kept here has what was last written to it, ... *)
Register == Start(2) + 36
RegisterInv(m, f) ==
  /\ Register \in DOMAIN f => f[Register] \in Int
  /\ m.WCR = IF Register \in DOMAIN f THEN f[Register] % 4 ELSE 0

(* ... and where the next instruction is fetched: within a mapping or just   *)
(* behind it.                                                               *)
NameOf(region) == CASE region = 5 -> "WRAM" [] region = 6 -> "GPRAM" [] region = 7 -> "GPROM" [] OTHER -> "DummyRegion"
LengthOf(m, region) == IF region = 7 THEN m.length ELSE 65536

PlaceInv(m, p) ==
  /\ p = [name |-> p.name, length |-> p.length, off |-> p.off, pc |-> p.pc]
  /\ p.pc \in Int /\ p.pc % 2 = 0
  /\ p.off \in Int /\ 0 <= p.off /\ p.off % 2 = 0
  /\ p.length \in LengthList
  /\ p.off <= p.length + 2
  /\ p.off < p.length => /\ p.name = NameOf(Region(p.pc))
                         /\ p.length = LengthOf(m, Region(p.pc))
                         /\ p.off = p.pc % p.length

LEMMA RegisterIs ==
  ASSUME NEW a \in Int
  PROVE  Canonical(a) = Register <=> Region(a) = 2 /\ a % 256 = 36
<1>1. Register = 33554432 + 36
  BY Powers, SMT DEF Register, Start
<1>2. CASE Region(a) = 2
  <2>1. Canonical(a) = 33554432 + (a % 256)
    BY <1>2, CanonicalOfHardware
  <2>2. a % 256 \in Int
    BY SMT
  <2> QED
    BY <1>1, <1>2, <2>1, <2>2, SMT
<1>3. CASE Region(a) # 2
  <2>1. Region(Register) = 2
    <3>1. Register \in Int /\ 0 <= Register /\ Register < M27 /\ Register \div M24 = 2
      BY <1>1, Powers, SMT
    <3> QED
      BY <3>1, Reduced
  <2>2. Region(Canonical(a)) = Region(a)
    BY SamePlace
  <2> QED
    BY <1>3, <2>1, <2>2
<1> QED
  BY <1>2, <1>3

LEMMA ThreeAppended ==
  ASSUME NEW a, NEW b, NEW c
  PROVE  LET q == Append(Append(Append(Init_FastMap, a), b), c)
         IN  DOMAIN q = {1, 2, 3} /\ q[1] = a /\ q[2] = b /\ q[3] = c
<1> DEFINE S == {a, b, c}
           p == Append(Init_FastMap, a)   q == Append(p, b)   r == Append(q, c)
<1>1. a \in S /\ b \in S /\ c \in S
  OBVIOUS
<1> HIDE DEF S
<1>2. Init_FastMap \in Seq(S) /\ Len(Init_FastMap) = 0
  BY SMT DEF Init_FastMap
<1>3. p \in Seq(S) /\ Len(p) = 1 /\ p[1] = a
  BY <1>1, <1>2, SMT
<1> HIDE DEF p
<1>4. q \in Seq(S) /\ Len(q) = 2 /\ q[1] = a /\ q[2] = b
  BY <1>1, <1>3, AppendProperties, SMT
<1> HIDE DEF q
<1>5. r \in Seq(S) /\ Len(r) = 3 /\ r[1] = a /\ r[2] = b /\ r[3] = c
  <2>0. q \in Seq(S) /\ c \in S
    BY <1>1, <1>4
  <2>1. /\ r \in Seq(S) /\ Len(r) = Len(q) + 1
        /\ \A i \in 1 .. Len(q) : r[i] = q[i]
        /\ r[Len(q) + 1] = c
    BY <2>0, AppendProperties
  <2> HIDE DEF r
  <2> QED
    BY <1>4, <2>1, SMT
<1>6. DOMAIN r = {1, 2, 3}
  BY <1>5, SMT
<1> QED
  BY <1>5, <1>6 DEF p, q

LEMMA SetFastMapIs ==
  ASSUME NEW b, NEW s, NEW l, NEW w, NEW q, NEW name, NEW region, NEW length
  PROVE  SetFastMap([bytes |-> b, size |-> s, length |-> l, WCR |-> w, maps |-> q], name, region, length)
         = [bytes |-> b, size |-> s, length |-> l, WCR |-> w,
            maps |-> Append(q, [name |-> name, region |-> region, length |-> length])]
  BY SMTT(60) DEF SetFastMap

LEMMA PowerIs ==
  ASSUME NEW b, DOMAIN b = {}, IsTable(b), NEW s, NEW l, NEW w, NEW q
  PROVE  VB_Power([bytes |-> b, size |-> s, length |-> l, WCR |-> w, maps |-> q])
         = [bytes |-> b, size |-> s, length |-> l, WCR |-> 0, maps |-> q]
<1> DEFINE m == [bytes |-> b, size |-> s, length |-> l, WCR |-> w, maps |-> q]
           k == [c \in {c \in DOMAIN m.bytes : c[1] = "GPRAM"} |-> m.bytes[c]]
           n == [m EXCEPT !.bytes = k]
<1>1. VB_Power(m) = [n EXCEPT !.WCR = 0]
  BY DEF VB_Power
<1>2. k = b
  <2>1. m.bytes = b
    OBVIOUS
  <2> HIDE DEF m
  <2>2. {c \in DOMAIN m.bytes : c[1] = "GPRAM"} = {}
    BY <2>1
  <2>3. k = [c \in {} |-> m.bytes[c]]
    BY <2>2
  <2>4. b = [c \in {} |-> m.bytes[c]]
    BY <2>1 DEF IsTable
  <2> QED
    BY <2>3, <2>4
<1> HIDE DEF k
<1>3. n = [bytes |-> k, size |-> s, length |-> l, WCR |-> w, maps |-> q]
  BY SMT
<1> HIDE DEF n
<1>4. [n EXCEPT !.WCR = 0] = [bytes |-> k, size |-> s, length |-> l, WCR |-> 0, maps |-> q]
  BY <1>3, SMT
<1> QED
  BY <1>1, <1>2, <1>4

LEMMA LoadedIs ==
  ASSUME NEW s \in SizeList
  PROVE  LET m == VB_Power(vb_load_rom_data(s))
         IN  /\ CartridgeInv(m) /\ m.size = s /\ m.WCR = 0
             /\ \A x : x[1] # "GPROM" => ByteAt(m, x) = 0
<1> DEFINE none == [x \in {} |-> 0]
           L == IF s < 65536 THEN 65536 ELSE s
           a == [name |-> "WRAM", region |-> 5, length |-> 65536]
           b == [name |-> "GPROM", region |-> 7, length |-> L]
           c == [name |-> "GPRAM", region |-> 6, length |-> 65536]
           Rec(q) == [bytes |-> none, size |-> s, length |-> L, WCR |-> 0, maps |-> q]
           q1 == Append(Init_FastMap, a)   q2 == Append(q1, b)   q3 == Append(q2, c)
           m == VB_Power(vb_load_rom_data(s))
<1>1. Fresh(s) = Rec(Init_FastMap) /\ Fresh(s).length = L
  BY SMT DEF Fresh, PSIZE
<1>2. DOMAIN none = {} /\ IsTable(none)
  BY DEF IsTable
<1>3. MapsAre(q3, L)
  BY ThreeAppended, SMTT(60) DEF MapsAre
<1>4. \A q, name, region, length :
        SetFastMap(Rec(q), name, region, length) = Rec(Append(q, [name |-> name, region |-> region, length |-> length]))
  BY SetFastMapIs
<1>5. \A q : VB_Power(Rec(q)) = Rec(q)
  <2> HIDE DEF none, L, a, b, c, q1, q2, q3
  <2> QED
    BY <1>2, PowerIs
<1> HIDE DEF none, L, Rec
<1>6. SetFastMap(Rec(Init_FastMap), "WRAM", 5, 65536) = Rec(q1)
  BY <1>4
<1>7. SetFastMap(Rec(q1), "GPROM", 7, L) = Rec(q2)
  <2> HIDE DEF q1
  <2> QED BY <1>4
<1>8. SetFastMap(Rec(q2), "GPRAM", 6, 65536) = Rec(q3)
  <2> HIDE DEF q2
  <2> QED BY <1>4
<1> HIDE DEF q1, q2, q3
<1>9. m = Rec(q3)
  BY <1>1, <1>5, <1>6, <1>7, <1>8 DEF vb_load_rom_data
<1> HIDE DEF m
<1>10. m.bytes = none /\ m.size = s /\ m.length = L /\ m.WCR = 0 /\ m.maps = q3
  BY <1>9, SMT DEF Rec
<1>12. IsMemory(m)
  BY <1>9, <1>2, <1>10 DEF IsMemory, Rec
<1>13. CartridgeInv(m)
  BY <1>3, <1>10, <1>12 DEF CartridgeInv, L
<1>14. \A x : x[1] # "GPROM" => ByteAt(m, x) = 0
  BY <1>2, <1>10 DEF ByteAt
<1> QED
  BY <1>10, <1>13, <1>14 DEF m

LEMMA FastMapIs ==
  ASSUME NEW m, CartridgeInv(m), NEW pc \in Int
  PROVE  FastMap(m, pc) = [name |-> NameOf(Region(pc)), length |-> LengthOf(m, Region(pc)),
                           off |-> pc % LengthOf(m, Region(pc)), pc |-> pc]
<1> DEFINE r == Region(pc)
           M == m.maps
           over == {i \in DOMAIN M : M[i].region = r}
<1>2. /\ DOMAIN M = {1, 2, 3}
      /\ M[1] = [name |-> "WRAM", region |-> 5, length |-> 65536]
      /\ M[2] = [name |-> "GPROM", region |-> 7, length |-> m.length]
      /\ M[3] = [name |-> "GPRAM", region |-> 6, length |-> 65536]
  BY DEF CartridgeInv, MapsAre
<1> HIDE DEF M
<1>3. M[1].region = 5 /\ M[2].region = 7 /\ M[3].region = 6
  BY <1>2, SMT
<1>4. ASSUME NEW i \in {1, 2, 3}, over = {i}
      PROVE  FastMap(m, pc) = [name |-> M[i].name, length |-> M[i].length, off |-> pc % M[i].length, pc |-> pc]
  <2>1. (CHOOSE j \in over : \A k \in over : k <= j) = i
    BY <1>4, SMT
  <2> HIDE DEF over
  <2> QED
    BY <1>4, <2>1 DEF FastMap, M, over
<1>5. CASE r = 5
  <2>1. over = {1}
    BY <1>2, <1>3, <1>5, SMT
  <2>2. M[1].name = "WRAM" /\ M[1].length = 65536
    BY <1>2, SMT
  <2>3. NameOf(r) = "WRAM" /\ LengthOf(m, r) = 65536
    BY <1>5, SMT DEF NameOf, LengthOf
  <2> QED
    BY <1>4, <2>1, <2>2, <2>3
<1>6. CASE r = 7
  <2>1. over = {2}
    BY <1>2, <1>3, <1>6, SMT
  <2>2. M[2].name = "GPROM" /\ M[2].length = m.length
    BY <1>2, SMT
  <2>3. NameOf(r) = "GPROM" /\ LengthOf(m, r) = m.length
    BY <1>6, SMT DEF NameOf, LengthOf
  <2> QED
    BY <1>4, <2>1, <2>2, <2>3
<1>7. CASE r = 6
  <2>1. over = {3}
    BY <1>2, <1>3, <1>7, SMT
  <2>2. M[3].name = "GPRAM" /\ M[3].length = 65536
    BY <1>2, SMT
  <2>3. NameOf(r) = "GPRAM" /\ LengthOf(m, r) = 65536
    BY <1>7, SMT DEF NameOf, LengthOf
  <2> QED
    BY <1>4, <2>1, <2>2, <2>3
<1>8. CASE r \notin {5, 6, 7}
  <2>1. over = {}
    BY <1>2, <1>3, <1>8, SMT
  <2>2. NameOf(r) = "DummyRegion" /\ LengthOf(m, r) = 65536
    BY <1>8, SMT DEF NameOf, LengthOf
  <2>3. FastMap(m, pc) = [name |-> "DummyRegion", length |-> PSIZE, off |-> pc % PSIZE, pc |-> pc]
    BY <2>1 DEF FastMap, M
  <2> QED
    BY <2>2, <2>3, SMT DEF PSIZE
<1> QED
  BY <1>5, <1>6, <1>7, <1>8

-----------------------------------------------------------------------------
(* What the callbacks of the bus do to the memory, by the place of a byte.   *)
LEMMA WritesAre ==
  ASSUME NEW m, NEW A \in Int, NEW V
  PROVE  /\ Region(A) \in {0, 5, 6} => /\ MemWrite8(m, A, V) = Store(m, Place(A), V)
                                       /\ MemWrite16(m, A, V) = StoreHalfword(m, Place(A), V)
         /\ Region(A) = 2 => /\ MemWrite8(m, A, V) = HWCTRL_Write(m, A, V)
                             /\ MemWrite16(m, A, V) = HWCTRL_Write(m, A, V[1])
         /\ Region(A) \notin {0, 2, 5, 6} => MemWrite8(m, A, V) = m /\ MemWrite16(m, A, V) = m
<1>1. CASE Region(A) = 0
  <2>1. Place(A) = VIP_Cell(A % 2^27)
    BY <1>1 DEF Place
  <2>2. MemWrite8(m, A, V) = VIP_Write8(m, A % 2^27, V) /\ MemWrite16(m, A, V) = VIP_Write16(m, A % 2^27, V)
    BY <1>1, SMT DEF MemWrite8, MemWrite16
  <2> QED
    BY <1>1, <2>1, <2>2 DEF VIP_Write8, VIP_Write16
<1>2. CASE Region(A) \in 5..6
  <2>1. Place(A) = Cell(m, A)
    BY <1>2, SMT DEF Place, Cell
  <2>2. MemWrite8(m, A, V) = Store(m, Cell(m, A), V) /\ MemWrite16(m, A, V) = StoreHalfword(m, Cell(m, A), V)
    BY <1>2, SMT DEF MemWrite8, MemWrite16
  <2>3. Region(A) # 2 /\ Region(A) \in {0, 5, 6}
    BY <1>2, SMT
  <2> QED
    BY <2>1, <2>2, <2>3
<1>3. CASE Region(A) = 2
  BY <1>3, SMT DEF MemWrite8, MemWrite16
<1>4. CASE Region(A) \notin {0, 2, 5, 6}
  <2>1. Region(A) # 0 /\ Region(A) # 2 /\ Region(A) \notin 5..6
    BY <1>4, SMT
  <2>2. MemWrite8(m, A, V) = m /\ MemWrite16(m, A, V) = m
    BY <2>1 DEF MemWrite8, MemWrite16
  <2> QED
    BY <1>4, <2>2
<1> QED
  BY <1>1, <1>2, <1>3, <1>4, SMT

(* A memory that keeps up with a history, together.                         *)
Faithful(m, f) == CartridgeInv(m) /\ Agrees(m, f) /\ RegisterInv(m, f)

LEMMA RegisterKept ==
  ASSUME NEW f, NEW A \in Int, NEW b, ~(Region(A) = 2 /\ A % 256 = 36)
  PROVE  /\ Register \in DOMAIN Noted(f, A, b) <=> Register \in DOMAIN f
         /\ Register \in DOMAIN f => Noted(f, A, b)[Register] = f[Register]
<1>1. Canonical(A) # Register
  BY RegisterIs
<1> QED
  BY <1>1 DEF Noted

LEMMA FaithfulStore ==
  ASSUME NEW m, NEW f, Faithful(m, f), NEW A \in Int, Region(A) # 2, NEW b
  PROVE  /\ Faithful(Store(m, Place(A), b), Noted(f, A, b))
         /\ SameCartridge(Store(m, Place(A), b), m)
<1> DEFINE n == Store(m, Place(A), b)
<1>1. IsMemory(m)
  BY DEF Faithful, CartridgeInv
<1>2. Place(A) = Nowhere \/ Place(A)[1] \notin {"nowhere", "GPROM", "DummyRegion"}
  BY PlaceNames
<1>3. IsMemory(n) /\ SameCartridge(n, m) /\ n.WCR = m.WCR
  BY <1>1, <1>2, StoreIs
<1>4. Agrees(n, Noted(f, A, b))
  BY <1>1, AgreesAfterStore DEF Faithful
<1> HIDE DEF n
<1>5. CartridgeInv(n)
  BY <1>3 DEF Faithful, CartridgeInv, SameCartridge
<1>6. RegisterInv(n, Noted(f, A, b))
  BY <1>3, RegisterKept DEF Faithful, RegisterInv
<1> QED
  BY <1>3, <1>4, <1>5, <1>6 DEF Faithful, n

LEMMA NotBacked ==
  ASSUME NEW A \in Int, Region(A) \notin {0, 5, 6}
  PROVE  ~Backed(A)
<1>1. Region(A) # 0 /\ Region(A) \notin 5..6
  BY SMT
<1>2. Page(A) \notin 0..3 /\ Page(A) \notin 4..7 /\ Page(A) \notin 14..15
  BY <1>1, VideoPages
<1>3. Page(A) \notin 0..7
  BY <1>2, RegionIs, SMT
<1> QED
  BY <1>1, <1>2, <1>3 DEF Backed

LEMMA FaithfulElsewhere ==
  ASSUME NEW m, NEW f, Faithful(m, f), NEW A \in Int, Region(A) \notin {0, 2, 5, 6}, NEW b
  PROVE  Faithful(m, Noted(f, A, b))
<1>1. ~Backed(A)
  BY NotBacked
<1>2. Agrees(m, Noted(f, A, b))
  BY <1>1, AgreesElsewhere DEF Faithful
<1>3. RegisterInv(m, Noted(f, A, b))
  BY RegisterKept DEF Faithful, RegisterInv
<1> QED
  BY <1>2, <1>3 DEF Faithful

LEMMA FaithfulRegister ==
  ASSUME NEW m, NEW f, Faithful(m, f), NEW A \in Int, Region(A) = 2, NEW b \in Int
  PROVE  /\ Faithful(HWCTRL_Write(m, A, b), Noted(f, A, b))
         /\ SameCartridge(HWCTRL_Write(m, A, b), m)
<1>0. ~Backed(A)
  BY NotBacked
<1>1. CASE A % 256 # 36
  <2>1. HWCTRL_Write(m, A, b) = m
    BY <1>1 DEF HWCTRL_Write
  <2>2. Agrees(m, Noted(f, A, b))
    BY <1>0, AgreesElsewhere DEF Faithful
  <2>3. RegisterInv(m, Noted(f, A, b))
    BY <1>1, RegisterKept DEF Faithful, RegisterInv
  <2> QED
    BY <2>1, <2>2, <2>3 DEF Faithful, SameCartridge
<1>2. CASE A % 256 = 36
  <2> DEFINE n == [m EXCEPT !.WCR = b % 4]
             w == b % 4
  <2>1. HWCTRL_Write(m, A, b) = n
    BY <1>2 DEF HWCTRL_Write
  <2>2. m = [bytes |-> m.bytes, size |-> m.size, length |-> m.length, WCR |-> m.WCR, maps |-> m.maps]
    BY DEF Faithful, CartridgeInv, IsMemory
  <2>3. n = [bytes |-> m.bytes, size |-> m.size, length |-> m.length, WCR |-> w, maps |-> m.maps]
    <3> HIDE DEF w
    <3>1. [m EXCEPT !.WCR = w] = [bytes |-> m.bytes, size |-> m.size, length |-> m.length, WCR |-> w, maps |-> m.maps]
      BY <2>2, SMT
    <3> QED
      BY <3>1 DEF w
  <2> HIDE DEF n, w
  <2>4. n.bytes = m.bytes /\ n.size = m.size /\ n.length = m.length /\ n.WCR = w /\ n.maps = m.maps
    BY <2>3, SMT
  <2>5. IsMemory(n) /\ SameCartridge(n, m)
    BY <2>3, <2>4 DEF Faithful, CartridgeInv, IsMemory, SameCartridge
  <2>6. CartridgeInv(n)
    BY <2>4, <2>5 DEF Faithful, CartridgeInv
  <2>7. Agrees(n, Noted(f, A, b))
    <3>1. Agrees(m, Noted(f, A, b))
      BY <1>0, AgreesElsewhere DEF Faithful
    <3>2. \A x : ByteAt(n, x) = ByteAt(m, x)
      BY <2>4 DEF ByteAt
    <3> QED
      BY <3>1, <3>2 DEF Agrees
  <2>8. RegisterInv(n, Noted(f, A, b))
    <3>1. Canonical(A) = Register
      BY <1>2, RegisterIs
    <3>2. Register \in DOMAIN Noted(f, A, b) /\ Noted(f, A, b)[Register] = b
      BY <3>1 DEF Noted
    <3> QED
      BY <2>4, <3>2 DEF RegisterInv, w
  <2> QED
    BY <2>1, <2>5, <2>6, <2>7, <2>8 DEF Faithful
<1> QED
  BY <1>1, <1>2

LEMMA FaithfulByte ==
  ASSUME NEW m, NEW f, Faithful(m, f), NEW A \in Int, NEW V \in Int
  PROVE  /\ Faithful(MemWrite8(m, A, V), Noted(f, A, V))
         /\ SameCartridge(MemWrite8(m, A, V), m)
<1>1. CASE Region(A) \in {0, 5, 6}
  <2>1. Region(A) # 2
    BY <1>1
  <2> QED
    BY <1>1, <2>1, WritesAre, FaithfulStore
<1>2. CASE Region(A) = 2
  BY <1>2, WritesAre, FaithfulRegister
<1>3. CASE Region(A) \notin {0, 2, 5, 6}
  <2>1. MemWrite8(m, A, V) = m
    BY <1>3, WritesAre
  <2> QED
    BY <1>3, <2>1, FaithfulElsewhere DEF SameCartridge
<1> QED
  BY <1>1, <1>2, <1>3

LEMMA FaithfulHalfword ==
  ASSUME NEW m, NEW f, Faithful(m, f), NEW A \in Int, A % 2 = 0, NEW V, V[1] \in Int
  PROVE  /\ Faithful(MemWrite16(m, A, V), IF Region(A) = 2 THEN Noted(f, A, V[1]) ELSE Noted(Noted(f, A, V[1]), A + 1, V[2]))
         /\ SameCartridge(MemWrite16(m, A, V), m)
<1>0. A + 1 \in Int /\ Region(A + 1) = Region(A) /\ Following(Place(A)) = Place(A + 1)
  <2>1. A + 1 \in Int
    BY SMT
  <2> QED
    BY <2>1, EvenPairs, FollowingIs
<1>1. CASE Region(A) \in {0, 5, 6}
  <2>1. Region(A) # 2
    BY <1>1
  <2> DEFINE n == Store(m, Place(A), V[1])
  <2>2. Faithful(n, Noted(f, A, V[1])) /\ SameCartridge(n, m)
    BY <2>1, FaithfulStore
  <2>3. MemWrite16(m, A, V) = Store(n, Place(A + 1), V[2])
    BY <1>0, <1>1, WritesAre DEF StoreHalfword
  <2> HIDE DEF n
  <2>4. /\ Faithful(Store(n, Place(A + 1), V[2]), Noted(Noted(f, A, V[1]), A + 1, V[2]))
        /\ SameCartridge(Store(n, Place(A + 1), V[2]), n)
    BY <1>0, <2>1, <2>2, FaithfulStore
  <2> QED
    BY <2>1, <2>2, <2>3, <2>4 DEF SameCartridge
<1>2. CASE Region(A) = 2
  BY <1>2, WritesAre, FaithfulRegister
<1>3. CASE Region(A) \notin {0, 2, 5, 6}
  <2>1. MemWrite16(m, A, V) = m /\ Region(A) # 2
    BY <1>3, WritesAre
  <2>2. Faithful(m, Noted(f, A, V[1]))
    BY <1>3, FaithfulElsewhere
  <2>3. Faithful(m, Noted(Noted(f, A, V[1]), A + 1, V[2]))
    BY <1>0, <1>3, <2>2, FaithfulElsewhere
  <2> QED
    BY <2>1, <2>3 DEF SameCartridge
<1> QED
  BY <1>1, <1>2, <1>3

(* A read gives what is expected.                                           *)
LEMMA EmptyPlaces ==
  ASSUME NEW m, CartridgeInv(m), NEW x, x[1] \in {"nowhere", "DummyRegion"}
  PROVE  ByteAt(m, x) = 0
<1>1. x \notin DOMAIN m.bytes
  BY DEF CartridgeInv, IsMemory
<1>2. x[1] # "GPROM"
  BY SMT
<1> QED
  BY <1>1, <1>2 DEF ByteAt

LEMMA RomByteAt ==
  ASSUME NEW m, CartridgeInv(m), NEW a \in Int
  PROVE  ByteAt(m, <<"GPROM", a % m.length>>) = RomByte((a % 2^24) % m.size)
<1> DEFINE x == <<"GPROM", a % m.length>>
<1>0. x[1] = "GPROM" /\ x[2] = a % m.length
  BY SMT
<1>1. x \notin DOMAIN m.bytes
  BY <1>0 DEF CartridgeInv, IsMemory
<1> HIDE DEF x
<1>2. ByteAt(m, x) = RomByte((a % m.length) % m.size)
  BY <1>0, <1>1 DEF ByteAt
<1>3. (a % M24) % m.size = a % m.size /\ (a % m.length) % m.size = a % m.size
  BY CopiesFit DEF CartridgeInv
<1>4. 2^24 = M24
  BY Powers
<1> QED
  BY <1>2, <1>3, <1>4 DEF x

LEMMA ReadsAre ==
  ASSUME Faithful(mem, flat), NEW a \in Int
  PROVE  MemRead8(mem, a) = Expected(a)
<1>0. CartridgeInv(mem) /\ Agrees(mem, flat) /\ RegisterInv(mem, flat)
  BY DEF Faithful
<1>1. Backed(a) => Region(a) # 7 /\ Region(a) # 2
  BY NotBacked, SMT
<1>2. Backed(a) => ByteAt(mem, Place(a)) = LastWritten(a)
  BY <1>0 DEF Agrees, Last, LastWritten
<1>3. ~Backed(a) => ByteAt(mem, Place(a)) = 0
  <2>1. ~Backed(a) => Place(a)[1] = "nowhere"
    BY PlaceNames, SMT DEF Nowhere
  <2> QED
    BY <1>0, <2>1, EmptyPlaces
<1>4. Region(a) # 7 /\ Region(a) # 2 => Expected(a) = ByteAt(mem, Place(a))
  BY <1>1, <1>2, <1>3 DEF Expected
<1>5. CASE Region(a) = 0
  <2>1. MemRead8(mem, a) = ByteAt(mem, Place(a))
    BY <1>5, SMT DEF MemRead8, VIP_Read8, Place
  <2> QED
    BY <1>4, <1>5, <2>1, SMT
<1>6. CASE Region(a) = 2
  <2>1. MemRead8(mem, a) = HWCTRL_Read(mem, a)
    BY <1>6, SMT DEF MemRead8
  <2>2. Expected(a) = IF Canonical(a) = Register THEN 252 + (LastWritten(a) % 4) ELSE 0
    BY <1>1, <1>6, SMT DEF Expected, Register
  <2>3. Canonical(a) = Register <=> a % 256 = 36
    BY <1>6, RegisterIs
  <2>4. CASE a % 256 = 36
    <3>1. mem.WCR = LastWritten(a) % 4 /\ LastWritten(a) \in Int
      <4>1. 0 % 4 = 0
        BY SMT
      <4> QED
        BY <1>0, <2>3, <2>4, <4>1 DEF RegisterInv, LastWritten
    <3>2. mem.WCR % 4 = LastWritten(a) % 4
      BY <3>1, SMT
    <3> QED
      BY <2>1, <2>2, <2>3, <2>4, <3>2 DEF HWCTRL_Read
  <2>5. CASE a % 256 # 36
    BY <2>1, <2>2, <2>3, <2>5 DEF HWCTRL_Read
  <2> QED
    BY <2>4, <2>5
<1>7. CASE Region(a) = 7
  <2>1. MemRead8(mem, a) = ByteAt(mem, <<"GPROM", a % mem.length>>)
    BY <1>7, SMT DEF MemRead8, Cell
  <2>2. Expected(a) = RomByte((a % 2^24) % mem.size)
    BY <1>1, <1>7, SMT DEF Expected
  <2> QED
    BY <1>0, <2>1, <2>2, RomByteAt
<1>8. CASE Region(a) \notin {0, 2, 7}
  <2>1. Place(a) = Cell(mem, a)
    BY <1>8, SMT DEF Place, Cell
  <2>2. MemRead8(mem, a) = ByteAt(mem, Cell(mem, a))
    BY <1>8, SMT DEF MemRead8
  <2> QED
    BY <1>4, <1>8, <2>1, <2>2, SMT
<1> QED
  BY <1>5, <1>6, <1>7, <1>8

LEMMA PairsAre ==
  ASSUME Faithful(mem, flat), NEW a \in Int, a % 2 = 0
  PROVE  MemRead16(mem, a) = <<MemRead8(mem, a), IF Region(a) = 2 THEN 0 ELSE MemRead8(mem, a + 1)>>
<1>0. CartridgeInv(mem)
  BY DEF Faithful
<1>1. a + 1 \in Int /\ Region(a + 1) = Region(a) /\ Following(Place(a)) = Place(a + 1)
  <2>1. a + 1 \in Int
    BY SMT
  <2> QED
    BY <2>1, EvenPairs, FollowingIs
<1>2. CASE Region(a) = 0
  <2>1. MemRead16(mem, a) = Halfword(mem, Place(a)) /\ MemRead8(mem, a) = ByteAt(mem, Place(a))
    BY <1>2, SMT DEF MemRead16, MemRead8, VIP_Read16, VIP_Read8, Place
  <2>2. MemRead8(mem, a + 1) = ByteAt(mem, Place(a + 1))
    BY <1>1, <1>2, SMT DEF MemRead8, VIP_Read8, Place
  <2>3. Region(a) # 2
    BY <1>2, SMT
  <2> QED
    BY <1>1, <2>1, <2>2, <2>3 DEF Halfword
<1>3. CASE Region(a) = 2
  BY <1>3, SMT DEF MemRead16, MemRead8
<1>4. CASE Region(a) = 7
  <2> DEFINE o == a % mem.length
  <2>1. MemRead16(mem, a) = Halfword(mem, <<"GPROM", o>>) /\ MemRead8(mem, a) = ByteAt(mem, <<"GPROM", o>>)
    BY <1>4, SMT DEF MemRead16, MemRead8, Cell
  <2>2. MemRead8(mem, a + 1) = ByteAt(mem, <<"GPROM", (a + 1) % mem.length>>)
    BY <1>1, <1>4, SMT DEF MemRead8, Cell
  <2>3. mem.length \in LengthList
    BY <1>0, LengthsAre DEF CartridgeInv
  <2>4. (a + 1) % mem.length = o + 1
    BY <2>3, InBlock
  <2>5. Following(<<"GPROM", o>>) = <<"GPROM", o + 1>>
    BY SMT DEF Following, Nowhere
  <2>6. Region(a) # 2
    BY <1>4, SMT
  <2> QED
    BY <2>1, <2>2, <2>4, <2>5, <2>6 DEF Halfword
<1>5. CASE Region(a) \notin {0, 2, 7}
  <2>1. Cell(mem, a) = Place(a) /\ Cell(mem, a + 1) = Place(a + 1)
    BY <1>1, <1>5, SMT DEF Place, Cell
  <2>2. MemRead16(mem, a) = Halfword(mem, Place(a)) /\ MemRead8(mem, a) = ByteAt(mem, Place(a))
    BY <1>5, <2>1, SMT DEF MemRead16, MemRead8
  <2>3. MemRead8(mem, a + 1) = ByteAt(mem, Place(a + 1))
    BY <1>1, <1>5, <2>1, SMT DEF MemRead8
  <2>4. Region(a) # 2
    BY <1>5, SMT
  <2> QED
    BY <1>1, <2>2, <2>3, <2>4 DEF Halfword
<1> QED
  BY <1>2, <1>3, <1>4, <1>5

-----------------------------------------------------------------------------
(* Where the next instruction is fetched.                                   *)
LEMMA PlacesTyped ==
  ASSUME NEW m, CartridgeInv(m), NEW r
  PROVE  LengthOf(m, r) \in LengthList
<1>1. m.length \in LengthList
  BY LengthsAre DEF CartridgeInv
<1>2. 65536 \in LengthList
  BY SMT DEF LengthList
<1> QED
  BY <1>1, <1>2 DEF LengthOf

LEMMA Placed ==
  ASSUME NEW m, CartridgeInv(m), NEW pc \in Int, pc % 2 = 0
  PROVE  /\ PlaceInv(m, FastMap(m, pc))
         /\ FastMap(m, pc).pc = pc
         /\ FastMap(m, pc).off < FastMap(m, pc).length
<1> DEFINE n == NameOf(Region(pc))   l == LengthOf(m, Region(pc))   o == pc % l   p == FastMap(m, pc)
<1>1. p = [name |-> n, length |-> l, off |-> o, pc |-> pc]
  BY FastMapIs
<1>2. l \in LengthList
  BY PlacesTyped
<1>3. o \in Int /\ 0 <= o /\ o < l /\ o % 2 = 0
  BY <1>2, InBlock
<1>4. l \in Int
  BY <1>2, LengthFacts
<1> HIDE DEF n, l, p
<1>5. p.name = n /\ p.length = l /\ p.off = pc % l /\ p.pc = pc
  BY <1>1
<1> HIDE DEF o
<1>6. o <= l + 2
  BY <1>3, <1>4, SMT
<1>7. p = [name |-> p.name, length |-> p.length, off |-> p.off, pc |-> p.pc]
  BY <1>1, <1>5 DEF o
<1>8. p.off = o
  BY <1>5 DEF o
<1> QED
  BY <1>2, <1>3, <1>5, <1>6, <1>7, <1>8 DEF PlaceInv, n, l, p

LEMMA Steps ==
  ASSUME NEW o \in Int, NEW l \in Int, 0 <= o, o < l, o % 2 = 0, l % 2 = 0, NEW pc \in Int, pc % 2 = 0, NEW n \in {2, 4}
  PROVE  /\ o + n \in Int /\ 0 <= o + n /\ (o + n) % 2 = 0 /\ o + n <= l + 2
         /\ pc + n \in Int /\ (pc + n) % 2 = 0
         /\ n \in Nat
  BY SMT

LEMMA IncIs ==
  ASSUME NEW N, NEW l, NEW o, NEW pc, NEW n
  PROVE  RB_INCPC([name |-> N, length |-> l, off |-> o, pc |-> pc], n) = [name |-> N, length |-> l, off |-> o + n, pc |-> pc + n]
<1> DEFINE p == [name |-> N, length |-> l, off |-> o, pc |-> pc]
           p1 == [p EXCEPT !.off = @ + n]
<1>1. RB_INCPC(p, n) = [p1 EXCEPT !.pc = @ + n]
  BY DEF RB_INCPC
<1>2. p1 = [name |-> N, length |-> l, off |-> o + n, pc |-> pc]
  OBVIOUS
<1> HIDE DEF p1
<1>3. [p1 EXCEPT !.pc = @ + n] = [name |-> N, length |-> l, off |-> o + n, pc |-> pc + n]
  BY <1>2
<1> QED
  BY <1>1, <1>3

LEMMA Advanced ==
  ASSUME NEW m, CartridgeInv(m), NEW p, PlaceInv(m, p), p.off < p.length, NEW n \in {2, 4}
  PROVE  PlaceInv(m, RB_INCPC(p, n))
<1> DEFINE N == p.name   l == p.length   o == p.off   pc == p.pc   q == RB_INCPC(p, n)
<1>1. p = [name |-> N, length |-> l, off |-> o, pc |-> pc]
  BY DEF PlaceInv
<1>2. /\ pc \in Int /\ pc % 2 = 0 /\ o \in Int /\ 0 <= o /\ o % 2 = 0 /\ l \in LengthList /\ o < l
      /\ N = NameOf(Region(pc)) /\ l = LengthOf(m, Region(pc)) /\ o = pc % l
  BY DEF PlaceInv
<1>3. l \in Int /\ l % 2 = 0
  BY <1>2, LengthFacts
<1> HIDE DEF N, l, o, pc
<1>4. q = [name |-> N, length |-> l, off |-> o + n, pc |-> pc + n]
  BY <1>1, IncIs
<1>5. /\ o + n \in Int /\ 0 <= o + n /\ (o + n) % 2 = 0 /\ o + n <= l + 2
      /\ pc + n \in Int /\ (pc + n) % 2 = 0 /\ n \in Nat
  BY <1>2, <1>3, Steps
<1>6. o + n < l => /\ o + n = (pc + n) % l
                   /\ Region(pc + n) = Region(pc)
  <2> SUFFICES ASSUME o + n < l
               PROVE  o + n = (pc + n) % l /\ Region(pc + n) = Region(pc)
    OBVIOUS
  <2>1. (pc % l) + n < l
    BY <1>2
  <2>2. (pc + n) % l = (pc % l) + n /\ (pc + n) \div M24 = pc \div M24
    BY <1>2, <1>5, <2>1, Onward
  <2>3. Region(pc + n) = Region(pc)
    BY <1>2, <1>5, <2>2, RegionByBlock
  <2> QED
    BY <1>2, <2>2, <2>3
<1> HIDE DEF q
<1>7. q.name = N /\ q.length = l /\ q.off = o + n /\ q.pc = pc + n
  BY <1>4
<1>8. q = [name |-> q.name, length |-> q.length, off |-> q.off, pc |-> q.pc]
  BY <1>4, <1>7
<1>9. PlaceInv(m, q)
  <2> DEFINE on == o + n
             pcn == pc + n
  <2>1. q.off = on /\ q.pc = pcn /\ on = o + n /\ pcn = pc + n
    BY <1>7
  <2> HIDE DEF on, pcn
  <2>2. /\ on \in Int /\ 0 <= on /\ on % 2 = 0 /\ on <= l + 2 /\ pcn \in Int /\ pcn % 2 = 0
        /\ on < l => on = pcn % l /\ Region(pcn) = Region(pc)
    BY <1>5, <1>6, <2>1
  <2> QED
    BY <1>2, <1>7, <1>8, <2>1, <2>2 DEF PlaceInv
<1> QED
  BY <1>9 DEF q

LEMMA PlaceKept ==
  ASSUME NEW m, NEW n, SameCartridge(n, m), NEW p, PlaceInv(m, p)
  PROVE  PlaceInv(n, p)
<1>1. \A r : LengthOf(n, r) = LengthOf(m, r)
  BY DEF LengthOf, SameCartridge
<1> QED
  BY <1>1 DEF PlaceInv

(* What is fetched there.                                                   *)
LEMMA FetchIs ==
  ASSUME NEW m, CartridgeInv(m), NEW p, PlaceInv(m, p)
  PROVE  /\ p.off < p.length =>
              RB_RDOP(m, p, 0) = <<ByteAt(m, <<p.name, p.off>>), ByteAt(m, <<p.name, p.off + 1>>)>>
         /\ ~(p.off < p.length) => RB_RDOP(m, p, 0) = InvalidOp
<1> DEFINE l == p.length   o == p.off
<1>1. o \in Int /\ 0 <= o /\ o % 2 = 0 /\ l \in Int /\ l % 2 = 0 /\ o <= l + 2
  BY LengthFacts DEF PlaceInv
<1> HIDE DEF l, o
<1>2. o + 0 = o /\ (o < l <=> o + 1 < l) /\ (~(o < l) => o >= l /\ o + 1 < l + 1024 /\ ~(o + 1 < l))
  BY <1>1, SMT
<1>3. RB_RDOP(m, p, 0) = CASE o + 1 < l -> Halfword(m, <<p.name, o>>)
                           [] o >= l /\ o + 1 < l + 1024 -> InvalidOp
                           [] OTHER -> PastEnd
  <2>1. RB_RDOP(m, p, 0) = CASE o + 0 + 1 < l -> Halfword(m, <<p.name, o + 0>>)
                           [] o + 0 >= l /\ o + 0 + 1 < l + 1024 -> InvalidOp
                           [] OTHER -> PastEnd
    BY DEF RB_RDOP, TRAMPOLINE, l, o
  <2> QED
    BY <1>2, <2>1
<1>4. CASE o < l
  <2>0. ~(o >= l)
    BY <1>1, <1>4, SMT
  <2>1. RB_RDOP(m, p, 0) = Halfword(m, <<p.name, o>>)
    BY <1>2, <1>3, <1>4, <2>0
  <2>2. p.name # "nowhere"
    BY <1>4 DEF PlaceInv, NameOf, o, l
  <2>3. Following(<<p.name, o>>) = <<p.name, o + 1>>
    BY <2>2, SMT DEF Following, Nowhere
  <2> QED
    BY <1>4, <2>1, <2>3 DEF Halfword, o, l
<1>5. CASE ~(o < l)
  BY <1>2, <1>3, <1>5 DEF o, l
<1> QED
  BY <1>4, <1>5 DEF o, l

(* ... are the bytes that a read gives, where anything is mapped.           *)
LEMMA FetchesAre ==
  ASSUME NEW m, CartridgeInv(m), NEW p, PlaceInv(m, p), p.off < p.length
  PROVE  /\ Region(p.pc) \notin {0, 2} => RB_RDOP(m, p, 0) = <<MemRead8(m, p.pc), MemRead8(m, p.pc + 1)>>
         /\ Region(p.pc) \in {0, 2} => RB_RDOP(m, p, 0) = <<0, 0>>
<1> DEFINE a == p.pc   l == p.length
<1>1. a \in Int /\ a % 2 = 0 /\ l \in LengthList /\ p.off = a % l /\ p.name = NameOf(Region(a)) /\ l = LengthOf(m, Region(a))
  BY DEF PlaceInv
<1>2. a + 1 \in Int /\ Region(a + 1) = Region(a)
  <2>1. a + 1 \in Int
    BY <1>1, SMT
  <2> QED
    BY <1>1, <2>1, EvenPairs
<1> HIDE DEF a, l
<1>3. (a + 1) % l = (a % l) + 1
  BY <1>1, InBlock
<1>4. RB_RDOP(m, p, 0) = <<ByteAt(m, <<NameOf(Region(a)), a % l>>), ByteAt(m, <<NameOf(Region(a)), (a + 1) % l>>)>>
  BY <1>1, <1>3, FetchIs
<1>5. CASE Region(a) \in {5, 6, 7}
  <2>1. \A x \in {a, a + 1} : MemRead8(m, x) = ByteAt(m, <<NameOf(Region(x)), x % LengthOf(m, Region(x))>>)
    <3> SUFFICES ASSUME NEW x \in Int, Region(x) \in {5, 6, 7}
                 PROVE  MemRead8(m, x) = ByteAt(m, <<NameOf(Region(x)), x % LengthOf(m, Region(x))>>)
      BY <1>1, <1>2, <1>5
    <3>1. MemRead8(m, x) = ByteAt(m, Cell(m, x))
      BY SMT DEF MemRead8
    <3>2. Cell(m, x) = <<NameOf(Region(x)), x % LengthOf(m, Region(x))>>
      BY SMT DEF Cell, NameOf, LengthOf
    <3> QED
      BY <3>1, <3>2
  <2>2. MemRead8(m, a) = ByteAt(m, <<NameOf(Region(a)), a % l>>)
    BY <1>1, <2>1
  <2>3. MemRead8(m, a + 1) = ByteAt(m, <<NameOf(Region(a)), (a + 1) % l>>)
    BY <1>1, <1>2, <2>1
  <2>4. Region(a) \notin {0, 2}
    BY <1>5, SMT
  <2> QED
    BY <1>4, <2>2, <2>3, <2>4 DEF a
<1>6. CASE Region(a) \notin {5, 6, 7}
  <2>1. NameOf(Region(a)) = "DummyRegion"
    BY <1>6, SMT DEF NameOf
  <2>2. \A o : ByteAt(m, <<"DummyRegion", o>>) = 0
    <3> SUFFICES ASSUME NEW o PROVE ByteAt(m, <<"DummyRegion", o>>) = 0
      OBVIOUS
    <3>1. <<"DummyRegion", o>>[1] \in {"nowhere", "DummyRegion"}
      BY SMT
    <3> QED
      BY <3>1, EmptyPlaces
  <2>3. RB_RDOP(m, p, 0) = <<0, 0>>
    BY <1>4, <2>1, <2>2
  <2>4. \A x \in {a, a + 1} : Region(a) \notin {0, 2} => MemRead8(m, x) = 0
    <3> SUFFICES ASSUME NEW x \in Int, Region(x) \notin {0, 2, 5, 6, 7}
                 PROVE  MemRead8(m, x) = 0
      BY <1>1, <1>2, <1>6
    <3>1. MemRead8(m, x) = ByteAt(m, Cell(m, x))
      BY SMT DEF MemRead8
    <3>2. Cell(m, x) = Nowhere
      BY SMT DEF Cell
    <3>3. Nowhere[1] \in {"nowhere", "DummyRegion"}
      BY SMT DEF Nowhere
    <3> QED
      BY <3>1, <3>2, <3>3, EmptyPlaces
  <2> QED
    BY <1>6, <2>3, <2>4 DEF a
<1> QED
  BY <1>5, <1>6

-----------------------------------------------------------------------------
(* The inductive invariant, and that every action keeps it.                 *)
History(f) == \A p \in DOMAIN f : f[p] \in Nat

BusInv ==
  Inserted => /\ Faithful(mem, flat)
              /\ History(flat)
              /\ PlaceInv(mem, at)

LEMMA HistoryNoted ==
  ASSUME NEW f, History(f), NEW a, NEW b \in Nat
  PROVE  History(Noted(f, a, b))
  BY DEF History, Noted

LEMMA InsertKeeps == Insert => BusInv'
<1> SUFFICES ASSUME Insert
             PROVE  BusInv'
  OBVIOUS
<1>1. PICK size \in Sizes : mem' = VB_Power(vb_load_rom_data(size))
  BY DEF Insert
<1>2. at' = FastMap(mem', -16) /\ flat' = [p \in {} |-> 0]
  BY DEF Insert, RB_SETPC
<1>3. size \in SizeList
  BY BusAssumption, SizesAre DEF BusAssumption
<1>4. /\ CartridgeInv(mem') /\ mem'.WCR = 0
      /\ \A x : x[1] # "GPROM" => ByteAt(mem', x) = 0
  BY <1>1, <1>3, LoadedIs
<1>5. DOMAIN flat' = {}
  BY <1>2
<1>6. Agrees(mem', flat')
  <2> SUFFICES ASSUME NEW a \in Int, Backed(a)
               PROVE  ByteAt(mem', Place(a)) = Last(flat', a)
    BY DEF Agrees
  <2>1. Place(a)[1] # "GPROM"
    BY PlaceNames
  <2> QED
    BY <1>4, <1>5, <2>1 DEF Last
<1>7. RegisterInv(mem', flat')
  BY <1>4, <1>5 DEF RegisterInv
<1>8. History(flat')
  BY <1>5 DEF History
<1>9. PlaceInv(mem', at')
  <2>1. -16 \in Int /\ (-16) % 2 = 0
    BY SMT
  <2> QED
    BY <1>2, <1>4, <2>1, Placed
<1> QED
  BY <1>4, <1>6, <1>7, <1>8, <1>9 DEF BusInv, Faithful

LEMMA WriteByteKeeps == BusInv /\ WriteByte => BusInv'
<1> SUFFICES ASSUME BusInv, WriteByte
             PROVE  BusInv'
  OBVIOUS
<1>1. Faithful(mem, flat) /\ History(flat) /\ PlaceInv(mem, at) /\ at' = at
  BY DEF BusInv, WriteByte
<1>2. PICK A \in Written, V \in Bytes : mem' = MemWrite8(mem, A, V) /\ flat' = Noted(flat, A, V)
  BY DEF WriteByte
<1>3. A \in Int /\ V \in Int /\ V \in Nat
  BY BusAssumption, SMT DEF BusAssumption
<1>4. Faithful(mem', flat') /\ SameCartridge(mem', mem)
  BY <1>1, <1>2, <1>3, FaithfulByte
<1>5. History(flat')
  BY <1>1, <1>2, <1>3, HistoryNoted
<1>6. PlaceInv(mem', at')
  BY <1>1, <1>4, PlaceKept
<1> QED
  BY <1>4, <1>5, <1>6 DEF BusInv

LEMMA WriteHalfwordKeeps == BusInv /\ WriteHalfword => BusInv'
<1> SUFFICES ASSUME BusInv, WriteHalfword
             PROVE  BusInv'
  OBVIOUS
<1>1. Faithful(mem, flat) /\ History(flat) /\ PlaceInv(mem, at) /\ at' = at
  BY DEF BusInv, WriteHalfword
<1>2. PICK A \in Aligned(Written), V \in Halfwords :
         /\ mem' = MemWrite16(mem, A, V)
         /\ flat' = IF Region(A) = 2 THEN Noted(flat, A, V[1]) ELSE Noted(Noted(flat, A, V[1]), A + 1, V[2])
  BY DEF WriteHalfword
<1>3. A \in Int /\ A % 2 = 0
  BY BusAssumption DEF BusAssumption, Aligned
<1>4. V[1] \in Int /\ V[1] \in Nat /\ V[2] \in Nat
  <2>1. V \in (0..255) \X (0..255)
    BY BusAssumption DEF BusAssumption
  <2>2. V[1] \in 0..255 /\ V[2] \in 0..255
    BY <2>1
  <2> QED
    BY <2>2, SMT
<1>5. Faithful(mem', flat') /\ SameCartridge(mem', mem)
  BY <1>1, <1>2, <1>3, <1>4, FaithfulHalfword
<1>6. History(flat')
  BY <1>1, <1>2, <1>4, HistoryNoted
<1>7. PlaceInv(mem', at')
  BY <1>1, <1>5, PlaceKept
<1> QED
  BY <1>5, <1>6, <1>7 DEF BusInv

LEMMA JumpToKeeps == BusInv /\ JumpTo => BusInv'
<1> SUFFICES ASSUME BusInv, JumpTo
             PROVE  BusInv'
  OBVIOUS
<1>1. Faithful(mem, flat) /\ History(flat) /\ mem' = mem /\ flat' = flat
  BY DEF BusInv, JumpTo
<1>2. PICK pc \in Jumps : at' = FastMap(mem, pc)
  BY DEF JumpTo, RB_SETPC
<1>3. pc \in Int /\ pc % 2 = 0
  BY BusAssumption DEF BusAssumption
<1>4. PlaceInv(mem', at')
  BY <1>1, <1>2, <1>3, Placed DEF Faithful
<1> QED
  BY <1>1, <1>4 DEF BusInv

LEMMA FetchKeeps == BusInv /\ Fetch => BusInv'
<1> SUFFICES ASSUME BusInv, Fetch
             PROVE  BusInv'
  OBVIOUS
<1>1. Faithful(mem, flat) /\ History(flat) /\ PlaceInv(mem, at) /\ CartridgeInv(mem) /\ mem' = mem /\ flat' = flat
  BY DEF BusInv, Fetch, Faithful
<1>2. CASE Trapped /\ at' = LookUpAgain(mem, at)
  <2>1. at.pc \in Int /\ at.pc % 2 = 0
    BY <1>1 DEF PlaceInv
  <2>2. PlaceInv(mem', at')
    BY <1>1, <1>2, <2>1, Placed DEF LookUpAgain, RB_SETPC
  <2> QED
    BY <1>1, <2>2 DEF BusInv
<1>3. CASE ~Trapped /\ \E n \in {2, 4} : at' = RB_INCPC(at, n)
  <2>1. at.off < at.length
    <3>1. at.off \in Int /\ at.length \in Int
      BY <1>1, LengthFacts DEF PlaceInv
    <3> QED
      BY <1>3, <3>1, SMT DEF Trapped
  <2>2. PlaceInv(mem', at')
    BY <1>1, <1>3, <2>1, Advanced
  <2> QED
    BY <1>1, <2>2 DEF BusInv
<1> QED
  BY <1>2, <1>3 DEF Fetch

(* The invariant is inductive: it holds before a cartridge is inserted and  *)
(* every access of a program keeps it.                                      *)
THEOREM BusInvariant == BusSpec => []BusInv
<1>1. BusInit => BusInv
  <2>1. Fresh(0).size = 0
    BY SMT DEF Fresh
  <2> QED
    BY <2>1 DEF BusInit, BusInv, Inserted
<1>2. BusInv /\ [BusNext]_memory => BusInv'
  <2> SUFFICES ASSUME BusInv, [BusNext]_memory
               PROVE  BusInv'
    OBVIOUS
  <2>1. CASE UNCHANGED memory
    BY <2>1 DEF memory, BusInv, Inserted
  <2> QED
    BY <2>1, InsertKeeps, WriteByteKeeps, WriteHalfwordKeeps, JumpToKeeps, FetchKeeps DEF BusNext
<1> QED
  BY <1>1, <1>2, PTL DEF BusSpec

-----------------------------------------------------------------------------
(* What the invariant gives.                                                *)
LEMMA ExpectedIsByte ==
  ASSUME Faithful(mem, flat), History(flat), NEW a \in Int, Region(a) # 2
  PROVE  Expected(a) # -1
<1>1. \A x \in Int : RomByte(x) # -1
  BY SMT DEF RomByte
<1>2. LastWritten(a) # -1
  BY SMT DEF LastWritten, History
<1>3. (a % 2^24) % mem.size \in Int
  <2>1. a % 2^24 \in Int
    BY Powers, SMT
  <2> QED
    BY <2>1, SMT DEF Faithful, CartridgeInv, SizeList
<1> QED
  BY <1>1, <1>2, <1>3 DEF Expected

LEMMA ReadsFollow == BusInv /\ Inserted => ReadsWhole
<1> SUFFICES ASSUME BusInv, Inserted, NEW a \in Read
             PROVE  /\ MemRead8(mem, a) = Expected(a)
                    /\ a % 2 = 0 => MemRead16(mem, a) = <<Expected(a), IF Region(a) = 2 THEN 0 ELSE Expected(a + 1)>>
  BY DEF ReadsWhole
<1>1. Faithful(mem, flat)
  BY DEF BusInv
<1>2. a \in Int
  BY BusAssumption DEF BusAssumption
<1>3. MemRead8(mem, a) = Expected(a)
  BY <1>1, <1>2, ReadsAre
<1>4. ASSUME a % 2 = 0
      PROVE  MemRead16(mem, a) = <<Expected(a), IF Region(a) = 2 THEN 0 ELSE Expected(a + 1)>>
  <2>1. a + 1 \in Int
    BY <1>2, SMT
  <2>2. MemRead8(mem, a + 1) = Expected(a + 1)
    BY <1>1, <2>1, ReadsAre
  <2>3. MemRead16(mem, a) = <<MemRead8(mem, a), IF Region(a) = 2 THEN 0 ELSE MemRead8(mem, a + 1)>>
    BY <1>1, <1>2, <1>4, PairsAre
  <2> QED
    BY <1>3, <2>2, <2>3
<1> QED
  BY <1>3, <1>4

(* The halfword at a place in a mapping.                                    *)
LEMMA FetchAsRead ==
  ASSUME Faithful(mem, flat), History(flat), NEW p, PlaceInv(mem, p), p.off < p.length
  PROVE  RB_RDOP(mem, p, 0) # PastEnd /\ AsRead(RB_RDOP(mem, p, 0), p.pc)
<1>1. CartridgeInv(mem) /\ p.pc \in Int /\ p.pc % 2 = 0
  BY DEF Faithful, PlaceInv
<1>2. CASE Region(p.pc) \notin {0, 2}
  <2>1. p.pc + 1 \in Int /\ Region(p.pc) # 2
    BY <1>1, <1>2, SMT
  <2>2. MemRead8(mem, p.pc) = Expected(p.pc) /\ MemRead8(mem, p.pc + 1) = Expected(p.pc + 1)
    BY <1>1, <2>1, ReadsAre
  <2>3. RB_RDOP(mem, p, 0) = <<Expected(p.pc), Expected(p.pc + 1)>>
    BY <1>1, <1>2, <2>2, FetchesAre
  <2>4. Expected(p.pc) # -1
    BY <1>1, <2>1, ExpectedIsByte
  <2> QED
    BY <2>3, <2>4, SMT DEF PastEnd, AsRead
<1>3. CASE Region(p.pc) \in {0, 2}
  <2>1. RB_RDOP(mem, p, 0) = <<0, 0>>
    BY <1>1, <1>3, FetchesAre
  <2> QED
    BY <1>3, <2>1, SMT DEF PastEnd, AsRead
<1> QED
  BY <1>2, <1>3

(* The second halfword is the first of the place two bytes on.              *)
LEMMA SecondHalfword ==
  ASSUME NEW m, NEW p, PlaceInv(m, p)
  PROVE  LET q == RB_INCPC(p, 2)
         IN  /\ RB_RDOP(m, p, 2) = RB_RDOP(m, q, 0)
             /\ q.off = p.off + 2 /\ q.length = p.length /\ q.pc = p.pc + 2
<1> DEFINE N == p.name   l == p.length   o == p.off   pc == p.pc   q == RB_INCPC(p, 2)
<1>1. p = [name |-> N, length |-> l, off |-> o, pc |-> pc]
  BY DEF PlaceInv
<1>2. o \in Int
  BY DEF PlaceInv
<1> HIDE DEF N, l, o, pc
<1>3. q = [name |-> N, length |-> l, off |-> o + 2, pc |-> pc + 2]
  BY <1>1, IncIs
<1> HIDE DEF q
<1>4. q.name = N /\ q.off = o + 2 /\ q.length = l /\ q.pc = pc + 2
  BY <1>3
<1>5. (o + 2) + 0 = o + 2
  BY <1>2, SMT
<1>6. RB_RDOP(m, p, 2) = RB_RDOP(m, q, 0)
  BY <1>4, <1>5 DEF RB_RDOP, N, l, o
<1> QED
  BY <1>4, <1>6 DEF q, l, o, pc

LEMMA FetchesFollow == BusInv /\ Inserted => FetchesWhole
<1> SUFFICES ASSUME BusInv, Inserted
             PROVE  FetchesWhole
  OBVIOUS
<1>1. Faithful(mem, flat) /\ History(flat) /\ PlaceInv(mem, at) /\ CartridgeInv(mem)
  BY DEF BusInv, Faithful
<1>2. /\ at.pc \in Int /\ at.pc % 2 = 0
      /\ at.off \in Int /\ at.length \in Int
  BY <1>1, LengthFacts DEF PlaceInv
<1>3. Trapped <=> ~(at.off < at.length)
  BY <1>2, SMT DEF Trapped
<1>4. CASE Trapped
  <2>1. RB_RDOP(mem, at, 0) = InvalidOp
    BY <1>1, <1>3, <1>4, FetchIs
  <2>2. LookUpAgain(mem, at).pc = at.pc /\ LookUpAgain(mem, at).off < LookUpAgain(mem, at).length
    BY <1>1, <1>2, Placed DEF LookUpAgain, RB_SETPC
  <2> QED
    BY <1>4, <2>1, <2>2 DEF FetchesWhole
<1>5. CASE ~Trapped
  <2> DEFINE next == RB_INCPC(at, 2)
  <2>1. RB_RDOP(mem, at, 0) # PastEnd /\ AsRead(RB_RDOP(mem, at, 0), at.pc)
    BY <1>1, <1>3, <1>5, FetchAsRead
  <2>2. /\ RB_RDOP(mem, at, 2) = RB_RDOP(mem, next, 0)
        /\ next.off = at.off + 2 /\ next.length = at.length /\ next.pc = at.pc + 2
    BY <1>1, SecondHalfword
  <2>3. PlaceInv(mem, next)
    BY <1>1, <1>3, <1>5, Advanced
  <2> HIDE DEF next
  <2>4. CASE at.off + 2 < at.length
    <3>1. RB_RDOP(mem, next, 0) # PastEnd /\ AsRead(RB_RDOP(mem, next, 0), next.pc)
      BY <1>1, <2>2, <2>3, <2>4, FetchAsRead
    <3> QED
      BY <1>5, <2>1, <2>2, <2>4, <3>1 DEF FetchesWhole
  <2>5. CASE ~(at.off + 2 < at.length)
    <3>1. RB_RDOP(mem, next, 0) = InvalidOp
      BY <1>1, <2>2, <2>3, <2>5, FetchIs
    <3> QED
      BY <1>5, <2>1, <2>2, <2>5, <3>1 DEF FetchesWhole
  <2> QED
    BY <2>4, <2>5
<1> QED
  BY <1>4, <1>5

LEMMA TablesFollow ==
  ASSUME NEW m, CartridgeInv(m), NEW i \in DOMAIN m.maps
  PROVE  Addresses(m.maps[i]) <= 8192
<1>1. m.length \in LengthList /\ 65536 \in LengthList
  <2>1. 65536 \in LengthList
    BY SMT DEF LengthList
  <2> QED
    BY <2>1, LengthsAre DEF CartridgeInv
<1>2. m.maps[i].length \in LengthList
  <2>1. i = 1 \/ i = 2 \/ i = 3
    BY DEF CartridgeInv, MapsAre
  <2>2. m.maps[1].length = 65536 /\ m.maps[2].length = m.length /\ m.maps[3].length = 65536
    BY DEF CartridgeInv, MapsAre
  <2> QED
    BY <1>1, <2>1, <2>2
<1> QED
  BY <1>2, LengthFacts, Powers DEF Addresses

(* Reads of anything but a device's register give what was last written      *)
(* through any mirror of the address, and fetches what reads give, or, for   *)
(* the second halfword at the end of a mapping, the trampoline's invalid     *)
(* instruction: for every set of sizes, addresses and bytes.                 *)
THEOREM BusWhole == BusSpec => []MemoryWhole
<1>1. BusInv => MemoryWhole
  <2> SUFFICES ASSUME BusInv, Inserted
               PROVE  /\ ReadsWhole /\ FetchesWhole
                      /\ mem.size \in {2^k : k \in 8..24}
                      /\ \A i \in DOMAIN mem.maps : Addresses(mem.maps[i]) <= 8192
    BY DEF MemoryWhole
  <2>1. CartridgeInv(mem)
    BY DEF BusInv, Faithful
  <2>2. mem.size \in {2^k : k \in 8..24}
    BY <2>1, SizesAre DEF CartridgeInv
  <2> QED
    BY <2>1, <2>2, ReadsFollow, FetchesFollow, TablesFollow
<1> QED
  BY <1>1, BusInvariant, PTL

=============================================================================
