----------------------------- MODULE AudioRing -----------------------------
(***************************************************************************)
(* The ring buffer between vb_audio_push (main thread) and audio_callback  *)
(* (the sound system's thread), src/vb_audio.c, one store or load at a     *)
(* time.  No lock: ring_write has one writer, ring_read the other.         *)
(*                                                                         *)
(* A sample is a label; its left and right halves carry the same one, so a *)
(* torn sample shows.  Labels repeat modulo Labels, which outnumbers the   *)
(* samples alive at once.  Stores become visible in program order (only    *)
(* the two indices are volatile; the compiler and the CPU are trusted).    *)
(* The sound system calls back often enough that a push never finds more   *)
(* than Backlog samples, its own included, still to play: nothing in the   *)
(* code checks it.                                                         *)
(*                                                                         *)
(* AvailHoldingOneBack and NextCallKeepingCount are seeded faults: each    *)
(* stands for the definition after it in a run that must then fail.        *)
(***************************************************************************)
EXTENDS Sequences, Integers

CONSTANTS
  RingLen,  \* RING_LEN
  FrameMax, \* the most samples one frame produces
  CallMax,  \* the most samples one callback asks for
  Backlog,  \* what the sound system lets pile up
  Labels    \* bound: distinct samples

ASSUME RingAssumption ==
  /\ RingLen \in Nat \ {0} /\ FrameMax \in Nat \ {0} /\ CallMax \in Nat \ {0}
  /\ Backlog \in Nat /\ FrameMax <= Backlog /\ Backlog < RingLen
  /\ Labels \in Nat /\ Labels > Backlog

Slots  == 0 .. RingLen - 1
Label  == 0 .. Labels - 1
Sample == [l : Label, r : Label]

VARIABLES
  ring,       \* ring_l and ring_r
  ring_write, ring_read,
  push,       \* the pusher: [pc, left]
  label,      \* the sample it stores next
  call,       \* the callback: [pc, left, avail, got]
  played,     \* the last sample handed to the sound system
  unplayed    \* ghost: samples published and not yet played

vars == << ring, ring_write, ring_read, push, label, call, played, unplayed >>

-----------------------------------------------------------------------------
Advance(i) == IF i + 1 = RingLen THEN 0 ELSE i + 1

AvailHoldingOneBack == IF ring_write > ring_read THEN ring_write - ring_read - 1
                       ELSE IF ring_write = ring_read THEN 0
                       ELSE ring_write - ring_read + RingLen - 1

(* (ring_write - ring_read) & RING_MASK *)
Avail == IF ring_write >= ring_read THEN ring_write - ring_read
                                    ELSE ring_write - ring_read + RingLen

Silence == [l |-> 0, r |-> 0]
Idle    == [pc |-> "idle", left |-> 0, avail |-> 0, got |-> Silence]

(* vb_audio_init. *)
Init ==
  /\ ring = [i \in Slots |-> Silence]
  /\ ring_write = 0 /\ ring_read = 0
  /\ push = [pc |-> "idle", left |-> 0]
  /\ label = 1
  /\ call = Idle
  /\ played = Silence
  /\ unplayed = 0

(* vb_audio_push: vb_sound_samples pairs. *)
StartPush ==
  /\ push.pc = "idle"
  /\ \E n \in 1 .. FrameMax :
       /\ unplayed + n <= Backlog
       /\ push' = [pc |-> "left", left |-> n]
  /\ UNCHANGED << ring, ring_write, ring_read, label, call, played, unplayed >>

StoreLeft ==
  /\ push.pc = "left"
  /\ ring' = [ring EXCEPT ![ring_write].l = label]
  /\ push' = [push EXCEPT !.pc = "right"]
  /\ UNCHANGED << ring_write, ring_read, label, call, played, unplayed >>

StoreRight ==
  /\ push.pc = "right"
  /\ ring' = [ring EXCEPT ![ring_write].r = label]
  /\ push' = [push EXCEPT !.pc = "publish"]
  /\ UNCHANGED << ring_write, ring_read, label, call, played, unplayed >>

Publish ==
  /\ push.pc = "publish"
  /\ ring_write' = Advance(ring_write)
  /\ label' = IF label + 1 = Labels THEN 0 ELSE label + 1
  /\ unplayed' = unplayed + 1
  /\ push' = IF push.left = 1 THEN [pc |-> "idle", left |-> 0]
             ELSE [pc |-> "left", left |-> push.left - 1]
  /\ UNCHANGED << ring, ring_read, call, played >>

(* audio_callback: the samples available are counted once. *)
StartCall ==
  /\ call.pc = "idle"
  /\ \E n \in 1 .. CallMax :
       call' = [pc |-> "left", left |-> n, avail |-> Avail, got |-> Silence]
  /\ UNCHANGED << ring, ring_write, ring_read, push, label, played, unplayed >>

LoadLeft ==
  /\ call.pc = "left"
  /\ call.avail > 0
  /\ call' = [call EXCEPT !.pc = "right", !.got.l = ring[ring_read].l]
  /\ UNCHANGED << ring, ring_write, ring_read, push, label, played, unplayed >>

LoadRight ==
  /\ call.pc = "right"
  /\ call' = [call EXCEPT !.pc = "advance", !.got.r = ring[ring_read].r]
  /\ UNCHANGED << ring, ring_write, ring_read, push, label, played, unplayed >>

NextCallKeepingCount == IF call.left = 1 THEN Idle
                        ELSE [call EXCEPT !.pc = "left", !.left = @ - 1]

NextCall == IF call.left = 1 THEN Idle
            ELSE [pc |-> "left", left |-> call.left - 1,
                  avail |-> call.avail - 1, got |-> call.got]

FreeSlot ==
  /\ call.pc = "advance"
  /\ ring_read' = Advance(ring_read)
  /\ played' = call.got
  /\ unplayed' = unplayed - 1
  /\ call' = NextCall
  /\ UNCHANGED << ring, ring_write, push, label >>

(* Underrun: silence to the end of the callback's buffer. *)
Underrun ==
  /\ call.pc = "left"
  /\ call.avail = 0
  /\ call' = Idle
  /\ UNCHANGED << ring, ring_write, ring_read, push, label, played, unplayed >>

Pusher == StartPush \/ StoreLeft \/ StoreRight \/ Publish
Player == StartCall \/ LoadLeft \/ LoadRight \/ FreeSlot \/ Underrun

Next == Pusher \/ Player

(* The sound system goes on calling back; the emulator may stop. *)
Spec == Init /\ [][Next]_vars /\ WF_vars(Player)

-----------------------------------------------------------------------------
TypeOK ==
  /\ ring \in [Slots -> Sample]
  /\ ring_write \in Slots /\ ring_read \in Slots
  /\ push \in [pc : {"idle", "left", "right", "publish"}, left : 0 .. FrameMax]
  /\ label \in Label
  /\ call \in [pc : {"idle", "left", "right", "advance"}, left : 0 .. CallMax,
               avail : 0 .. RingLen - 1, got : Sample]
  /\ played \in Sample
  /\ unplayed \in 0 .. Backlog

(* The slot k places after ring_read. *)
SlotAt(k) == IF ring_read + k < RingLen THEN ring_read + k
                                        ELSE ring_read + k - RingLen

(* The published slots from ring_read on, as a queue. *)
Unplayed == [k \in 1 .. unplayed |-> ring[SlotAt(k - 1)]]

(* The ring is a first-in first-out queue of whole samples. *)
Fifo == INSTANCE SampleFifo WITH
  Samples <- {s \in Sample : s.l = s.r}, queue <- Unplayed

RingIsFifo == Fifo!Spec

(* A published sample is played in the end.  The labels go round, so it is *)
(* enough to follow one of them.                                           *)
EverySamplePlayed ==
  (\E k \in DOMAIN Unplayed : Unplayed[k].l = 1) ~> played = [l |-> 1, r |-> 1]
=============================================================================
