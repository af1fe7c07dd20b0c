---------------------------- MODULE DoubleBuffer ----------------------------
(***************************************************************************)
(* What the drawing side of the VIP promises the display side: two frame   *)
(* buffers, one shown and one drawn into.  A drawing begins by showing     *)
(* what the last one drew, and only once that one is complete; no drawing  *)
(* is ever into the buffer shown.  Vip shows that mednafen/vb/vip.c keeps  *)
(* this promise.                                                           *)
(***************************************************************************)
VARIABLES
  front,   \* the buffer shown
  back,    \* the buffer drawn into
  drawing

buffers == << front, back, drawing >>

Other(b) == IF b = 0 THEN 1 ELSE 0

(* Both start at the same, blank buffer. *)
Init == front = 0 /\ back = 0 /\ drawing = FALSE

Start ==
  /\ ~drawing
  /\ drawing' = TRUE
  /\ front' = back
  /\ back' = Other(back)

Finish ==
  /\ drawing
  /\ drawing' = FALSE
  /\ UNCHANGED << front, back >>

(* The program's reset gives a drawing up, and shows the other buffer. *)
Reset ==
  /\ drawing' = FALSE
  /\ back' = front
  /\ front' = Other(front)

Next == Start \/ Finish \/ Reset

Spec == Init /\ [][Next]_buffers
=============================================================================
