----------------------------- MODULE Cartridge -----------------------------
(***************************************************************************)
(* The sizes of the cartridge files that vb_load_rom_data of vb_core.cpp   *)
(* takes: a file is refused unless its size is the power of two that       *)
(* round_up_pow2 smears out of it.  For TLC alone: Bus has the sizes as a  *)
(* constant.                                                               *)
(***************************************************************************)
LOCAL INSTANCE Integers
LOCAL INSTANCE Bitwise

round_up_pow2(n) ==
  LET a == (n - 1) | ((n - 1) \div 2)
      b == a | (a \div 4)
      c == b | (b \div 16)
      d == c | (c \div 256)
      e == d | (d \div 65536)
  IN e + 1

Accepted(size) == size = round_up_pow2(size) /\ size >= 256 /\ size <= 2^24
=============================================================================
