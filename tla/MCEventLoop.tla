---------------------------- MODULE MCEventLoop ----------------------------
(***************************************************************************)
(* EventLoop with the proportions of the real one: a frame is several VIP  *)
(* columns, a unit may outlast a deadline, and NoEvent lies beyond every   *)
(* time a frame can reach, before and after it is rebased.                 *)
(***************************************************************************)
EXTENDS EventLoop
=============================================================================
