----------------------------- MODULE SampleFifo -----------------------------
(***************************************************************************)
(* What vb_audio promises between the emulator and the sound system: a     *)
(* first-in first-out queue of stereo samples.  Every sample pushed is     *)
(* played once, whole, and in the order of pushing.                        *)
(***************************************************************************)
EXTENDS Sequences, Integers

CONSTANT Samples

VARIABLES queue, played

Init == queue = << >> /\ played \in Samples

Push == /\ \E s \in Samples : queue' = Append(queue, s)
        /\ UNCHANGED played

Play == /\ queue # << >>
        /\ played' = Head(queue)
        /\ queue' = Tail(queue)

Next == Push \/ Play

Spec == Init /\ [][Next]_<< queue, played >>
=============================================================================
