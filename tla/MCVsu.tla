------------------------------- MODULE MCVsu -------------------------------
(***************************************************************************)
(* Vsu with frequencies of two bits, three levels and effect ticks of two  *)
(* cycles.  The registers take a few values each, which together use every *)
(* effect both ways; a frame is longer than the shortest note.             *)
(***************************************************************************)
EXTENDS Vsu

MCModData == [i \in 0 .. WaveLen - 1 |-> IF i = 0 THEN -1 ELSE 2]

MCEnvLows == [c \in Channels |->
                IF c = "sweep" THEN {}
                ELSE {[reload |-> 1, grow |-> TRUE]}]

Hi(e, r, s, m, mr) == [enable |-> e, repeat |-> r, sweep |-> s,
                       modulate |-> m, modrepeat |-> mr]

MCEnvHighs == [c \in Channels |->
                 IF c = "sweep"
                 THEN {Hi(FALSE, FALSE, TRUE, FALSE, FALSE),
                       Hi(FALSE, FALSE, TRUE, TRUE, TRUE)}
                 ELSE {Hi(TRUE, FALSE, FALSE, FALSE, FALSE),
                       Hi(TRUE, TRUE, FALSE, FALSE, FALSE)}]

MCSweepValues == {[slow |-> TRUE, interval |-> 1, up |-> TRUE, shift |-> 1],
                  [slow |-> FALSE, interval |-> 1, up |-> FALSE, shift |-> 1]}
=============================================================================
