------------------------------- MODULE MCVip -------------------------------
(***************************************************************************)
(* Vip with a video frame of sixteen cycles, in columns of two, and a      *)
(* drawing of two blocks of five.  A unit of three cycles: an update may   *)
(* come two cycles late, after the end of a whole further column or in the *)
(* middle of one, and the end of a block may fall before, on or after      *)
(* those of the columns it is made up for with.  One interrupt of the      *)
(* display and the one of the drawing.                                     *)
(***************************************************************************)
EXTENDS Vip

MCInts == {"RFB_END", "XP_END"}

MCEnableValues == {MCInts}

MCClearValues == {MCInts}
=============================================================================
