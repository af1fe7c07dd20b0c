---------------------------- MODULE MCInterrupts ----------------------------
(***************************************************************************)
(* Interrupts with two lines and the status words a program uses: the      *)
(* start-up word, everything enabled, a handler at level 1 and one that    *)
(* lets higher levels in.                                                  *)
(***************************************************************************)
EXTENDS Interrupts

MCPsw == { [NP |-> FALSE, EP |-> FALSE, ID |-> FALSE, IA |-> 0],
           [NP |-> FALSE, EP |-> FALSE, ID |-> FALSE, IA |-> 1],
           [NP |-> TRUE,  EP |-> FALSE, ID |-> TRUE,  IA |-> 0] }
=============================================================================
