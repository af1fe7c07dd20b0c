--------------------------- MODULE DevicesProofs ---------------------------
(***************************************************************************)
(* The audio ring, the interval timer and the game pad port of Devices,    *)
(* for every value of their constants.                                     *)
(*                                                                         *)
(* The ring is a queue of whole samples.  The unplayed samples fill the    *)
(* slots from ring_read up to ring_write, fewer than the ring has, so that *)
(* the slot the pusher is writing is none of them; what the callback       *)
(* counted when it began is still there, since only it frees slots.        *)
(*                                                                         *)
(* Of timer and port: their types, their deadlines, and that each, lazy as *)
(* it is, implements a device clocked every cycle.  An update is a loop,   *)
(* which Loops reasons about; what the proofs need of it are two lemmas    *)
(* for each device, SettleDone and SettleOn for the timer's, ShiftDone and *)
(* ShiftOn for the port's: a loop that has nothing to do changes nothing,  *)
(* and otherwise ends as it does after one round more.                     *)
(***************************************************************************)
EXTENDS Devices, SequenceTheorems, Loops

-----------------------------------------------------------------------------
(* The audio ring. *)
Whole(s) == s.l = s.r

(* The pusher: what it still has to store fits in the backlog, and the     *)
(* halves it has stored wait in the slot ring_write.                       *)
PushInv ==
  /\ push.pc # "idle" => push.left >= 1 /\ unplayed + push.left <= Backlog
  /\ push.pc \in {"right", "publish"} => ring[ring_write].l = label
  /\ push.pc = "publish" => ring[ring_write].r = label

(* The callback: what it counted is still unplayed, and what it has loaded *)
(* is the oldest of them.                                                  *)
CallInv ==
  /\ call.pc # "idle" => call.left >= 1 /\ call.avail <= unplayed
  /\ call.pc \in {"right", "advance"} =>
       call.avail >= 1 /\ call.got.l = ring[ring_read].l
  /\ call.pc = "advance" => call.got.r = ring[ring_read].r

RingInv ==
  /\ ring_write = SlotAt(unplayed)
  /\ \A k \in 0 .. unplayed - 1 : Whole(ring[SlotAt(k)])
  /\ Whole(played)

IInv == TypeOK /\ RingInv /\ PushInv /\ CallInv

-----------------------------------------------------------------------------
(* Slots counted from ring_read: they are slots, and apart. *)
LEMMA SlotsApart ==
  ASSUME ring_read \in Slots,
         NEW j \in 0 .. Backlog, NEW k \in 0 .. Backlog
  PROVE  /\ SlotAt(k) \in Slots
         /\ SlotAt(j) = SlotAt(k) => j = k
         /\ SlotAt(0) = ring_read
         /\ Advance(SlotAt(k)) \in Slots
         /\ k < Backlog => Advance(SlotAt(k)) = SlotAt(k + 1)
  BY RingAssumption, SMT DEF RingAssumption, Slots, SlotAt, Advance

(* Freeing a slot moves every other one a place nearer. *)
LEMMA SlotsShift ==
  ASSUME ring_read \in Slots, ring_read' = Advance(ring_read),
         NEW k \in 0 .. Backlog - 1
  PROVE  SlotAt(k)' = SlotAt(k + 1)
  BY RingAssumption, SMT DEF RingAssumption, Slots, SlotAt, Advance

(* Counted from two indices, the samples available are the unplayed. *)
LEMMA AvailExact ==
  ASSUME ring_read \in Slots, unplayed \in 0 .. Backlog,
         ring_write = SlotAt(unplayed)
  PROVE  Avail = unplayed
  BY RingAssumption, SMT DEF RingAssumption, Slots, SlotAt, Avail

LEMMA InitInv ==
  ASSUME Init
  PROVE  IInv
  <1>1. TypeOK
    BY RingAssumption, SMT DEF RingAssumption, Init, TypeOK, Slots, Label, Sample, Silence, Idle
  <1>2. RingInv
    BY RingAssumption, SMT DEF RingAssumption, Init, RingInv, SlotAt, Slots, Silence, Whole
  <1>3. PushInv /\ CallInv
    BY DEF Init, PushInv, CallInv, Idle
  <1> QED BY <1>1, <1>2, <1>3 DEF IInv

(* Steps of the pusher: they write the slot ring_write, which no unplayed  *)
(* sample holds, and publish it when it is whole.                          *)
LEMMA StartPushInv ==
  ASSUME IInv, StartPush
  PROVE  IInv'
  <1>1. TypeOK'
    BY RingAssumption, SMT DEF RingAssumption, IInv, TypeOK, StartPush
  <1>2. RingInv'
    BY DEF IInv, RingInv, StartPush, SlotAt
  <1>3. PushInv'
    BY RingAssumption, SMT DEF RingAssumption, IInv, PushInv, StartPush
  <1>4. CallInv'
    BY DEF IInv, CallInv, StartPush
  <1> QED BY <1>1, <1>2, <1>3, <1>4 DEF IInv

LEMMA FreeSlotsKept ==
  ASSUME IInv, push.pc # "idle"
  PROVE  /\ \A k \in 0 .. unplayed - 1 : SlotAt(k) \in Slots /\ SlotAt(k) # ring_write
         /\ call.pc \in {"right", "advance"} => ring_read # ring_write
         /\ unplayed < Backlog
  <1>1. unplayed \in 0 .. Backlog /\ unplayed < Backlog
    BY RingAssumption, SMT DEF RingAssumption, IInv, TypeOK, PushInv
  <1>2. ASSUME NEW k \in 0 .. unplayed - 1
        PROVE  SlotAt(k) \in Slots /\ SlotAt(k) # ring_write
    <2>1. k \in 0 .. Backlog /\ unplayed \in 0 .. Backlog /\ k # unplayed
      BY RingAssumption, <1>1, SMT DEF RingAssumption
    <2>2. ring_read \in Slots /\ ring_write = SlotAt(unplayed)
      BY DEF IInv, TypeOK, RingInv
    <2> QED BY <2>1, <2>2, SlotsApart
  <1>3. call.pc \in {"right", "advance"} => ring_read # ring_write
    <2>1. HAVE call.pc \in {"right", "advance"}
    <2>2. 0 \in 0 .. unplayed - 1
      BY <1>1, <2>1, SMT DEF IInv, TypeOK, CallInv
    <2>3. SlotAt(0) = ring_read
      BY RingAssumption, SMT DEF IInv, TypeOK, Slots, RingAssumption, SlotAt
    <2> QED BY <1>2, <2>2, <2>3
  <1> QED BY <1>1, <1>2, <1>3

LEMMA StoreLeftInv ==
  ASSUME IInv, StoreLeft
  PROVE  IInv'
  <1>0. push.pc # "idle"
    BY DEF StoreLeft
  <1>1. TypeOK'
    <2>1. ring' \in [Slots -> Sample]
      <3>1. [ring[ring_write] EXCEPT !.l = label] \in Sample
        BY DEF IInv, TypeOK, Sample
      <3> QED BY <3>1 DEF IInv, TypeOK, StoreLeft
    <2> QED BY <2>1 DEF IInv, TypeOK, StoreLeft
  <1>2. RingInv'
    <2>1. \A k \in 0 .. unplayed - 1 : ring'[SlotAt(k)] = ring[SlotAt(k)]
      BY <1>0, FreeSlotsKept DEF IInv, TypeOK, StoreLeft
    <2> QED BY <2>1 DEF IInv, RingInv, StoreLeft, SlotAt
  <1>3. PushInv'
    <2>1. ring[ring_write] \in [l : Label, r : Label] /\ ring' = [ring EXCEPT ![ring_write].l = label]
      BY DEF IInv, TypeOK, StoreLeft, Sample
    <2>2. ring'[ring_write].l = label /\ ring'[ring_write].l = label
      BY <2>1 DEF IInv, TypeOK, PushInv, StoreLeft
    <2> QED BY <2>2 DEF IInv, TypeOK, PushInv, StoreLeft
  <1>4. CallInv'
    BY <1>0, FreeSlotsKept DEF IInv, TypeOK, CallInv, StoreLeft
  <1> QED BY <1>1, <1>2, <1>3, <1>4 DEF IInv

LEMMA StoreRightInv ==
  ASSUME IInv, StoreRight
  PROVE  IInv'
  <1>0. push.pc # "idle"
    BY DEF StoreRight
  <1>1. TypeOK'
    <2>1. ring' \in [Slots -> Sample]
      <3>1. [ring[ring_write] EXCEPT !.r = label] \in Sample
        BY DEF IInv, TypeOK, Sample
      <3> QED BY <3>1 DEF IInv, TypeOK, StoreRight
    <2> QED BY <2>1 DEF IInv, TypeOK, StoreRight
  <1>2. RingInv'
    <2>1. \A k \in 0 .. unplayed - 1 : ring'[SlotAt(k)] = ring[SlotAt(k)]
      BY <1>0, FreeSlotsKept DEF IInv, TypeOK, StoreRight
    <2> QED BY <2>1 DEF IInv, RingInv, StoreRight, SlotAt
  <1>3. PushInv'
    <2>1. ring[ring_write] \in [l : Label, r : Label] /\ ring' = [ring EXCEPT ![ring_write].r = label]
      BY DEF IInv, TypeOK, StoreRight, Sample
    <2>2. ring'[ring_write].r = label /\ ring'[ring_write].l = label
      BY <2>1 DEF IInv, TypeOK, PushInv, StoreRight
    <2> QED BY <2>2 DEF IInv, TypeOK, PushInv, StoreRight
  <1>4. CallInv'
    BY <1>0, FreeSlotsKept DEF IInv, TypeOK, CallInv, StoreRight
  <1> QED BY <1>1, <1>2, <1>3, <1>4 DEF IInv

LEMMA PublishInv ==
  ASSUME IInv, Publish
  PROVE  IInv'
  <1>0. push.pc # "idle" /\ unplayed \in 0 .. Backlog /\ unplayed < Backlog
    BY FreeSlotsKept DEF Publish, IInv, TypeOK
  <1>1. ring_write' = SlotAt(unplayed') /\ ring_write' \in Slots
    <2>1. ring_read \in Slots /\ ring_write = SlotAt(unplayed)
      BY DEF IInv, TypeOK, RingInv
    <2> QED BY <1>0, <2>1, SlotsApart DEF Publish
  <1>2. TypeOK'
    BY RingAssumption, <1>0, <1>1, SMT DEF RingAssumption, IInv, TypeOK, PushInv, Publish, Label
  <1>3. RingInv'
    <2>1. Whole(ring[ring_write])
      BY DEF IInv, PushInv, Publish, Whole
    <2>2. ASSUME NEW k \in 0 .. unplayed' - 1
          PROVE  Whole(ring[SlotAt(k)])
      <3>1. k \in 0 .. unplayed - 1 \/ k = unplayed
        BY <1>0, SMT DEF Publish
      <3> QED BY <2>1, <3>1 DEF IInv, RingInv
    <2> QED BY <1>1, <2>2 DEF IInv, RingInv, Publish, SlotAt
  <1>4. PushInv'
    BY RingAssumption, <1>0, SMT DEF RingAssumption, IInv, TypeOK, PushInv, Publish
  <1>5. CallInv'
    BY RingAssumption, <1>0, SMT DEF IInv, TypeOK, CallInv, Publish, RingAssumption
  <1> QED BY <1>2, <1>3, <1>4, <1>5 DEF IInv

-----------------------------------------------------------------------------
(* Steps of the callback: it counts what is there, and takes the oldest. *)
LEMMA StartCallInv ==
  ASSUME IInv, StartCall
  PROVE  IInv'
  <1>0. Avail = unplayed /\ unplayed \in 0 .. RingLen - 1
    BY RingAssumption, AvailExact, SMT DEF IInv, TypeOK, RingInv, RingAssumption
  <1>1. TypeOK'
    <2>1. Silence \in Sample
      BY RingAssumption, SMT DEF RingAssumption, Silence, Sample, Label
    <2>2. call' \in [pc : {"idle", "left", "right", "advance"}, left : 0 .. CallMax,
                     avail : 0 .. RingLen - 1, got : Sample]
      BY RingAssumption, <1>0, <2>1, SMT DEF RingAssumption, StartCall
    <2> QED BY <2>2 DEF IInv, TypeOK, StartCall
  <1>2. RingInv' /\ PushInv'
    BY DEF IInv, RingInv, PushInv, StartCall, SlotAt
  <1>3. CallInv'
    BY <1>0, SMT DEF CallInv, StartCall
  <1> QED BY <1>1, <1>2, <1>3 DEF IInv

LEMMA LoadLeftInv ==
  ASSUME IInv, LoadLeft
  PROVE  IInv'
  <1>1. TypeOK'
    <2>1. [call.got EXCEPT !.l = ring[ring_read].l] \in Sample
      BY DEF IInv, TypeOK, Sample
    <2>2. call' \in [pc : {"idle", "left", "right", "advance"}, left : 0 .. CallMax,
                     avail : 0 .. RingLen - 1, got : Sample]
      BY <2>1 DEF IInv, TypeOK, LoadLeft
    <2> QED BY <2>2 DEF IInv, TypeOK, LoadLeft
  <1>2. RingInv' /\ PushInv'
    BY DEF IInv, RingInv, PushInv, LoadLeft, SlotAt
  <1>3. CallInv'
    <2>1. /\ call'.left = call.left /\ call'.avail = call.avail
          /\ call'.got = [call.got EXCEPT !.l = ring[ring_read].l]
          /\ call.avail \in 0 .. RingLen - 1
          /\ call.got \in [l : Label, r : Label]
      BY DEF IInv, TypeOK, LoadLeft, Sample
    <2>2. /\ call'.got.l = ring[ring_read].l
          /\ call'.got.r = call.got.r
      BY <2>1
    <2> QED BY <2>1, <2>2, SMT DEF IInv, CallInv, LoadLeft
  <1> QED BY <1>1, <1>2, <1>3 DEF IInv

LEMMA LoadRightInv ==
  ASSUME IInv, LoadRight
  PROVE  IInv'
  <1>1. TypeOK'
    <2>1. [call.got EXCEPT !.r = ring[ring_read].r] \in Sample
      BY DEF IInv, TypeOK, Sample
    <2>2. call' \in [pc : {"idle", "left", "right", "advance"}, left : 0 .. CallMax,
                     avail : 0 .. RingLen - 1, got : Sample]
      BY <2>1 DEF IInv, TypeOK, LoadRight
    <2> QED BY <2>2 DEF IInv, TypeOK, LoadRight
  <1>2. RingInv' /\ PushInv'
    BY DEF IInv, RingInv, PushInv, LoadRight, SlotAt
  <1>3. CallInv'
    <2>1. /\ call'.left = call.left /\ call'.avail = call.avail
          /\ call'.got = [call.got EXCEPT !.r = ring[ring_read].r]
          /\ call.avail \in 0 .. RingLen - 1
          /\ call.got \in [l : Label, r : Label]
      BY DEF IInv, TypeOK, LoadRight, Sample
    <2>2. /\ call'.got.r = ring[ring_read].r
          /\ call'.got.l = call.got.l
      BY <2>1
    <2> QED BY <2>1, <2>2, SMT DEF IInv, CallInv, LoadRight
  <1> QED BY <1>1, <1>2, <1>3 DEF IInv

(* What the callback is about to hand over is the oldest sample, whole. *)
LEMMA GotOldest ==
  ASSUME IInv, call.pc = "advance"
  PROVE  /\ call.got = ring[ring_read] /\ Whole(call.got) /\ call.got \in Sample
         /\ call.avail >= 1 /\ call.left >= 1 /\ unplayed >= 1
         /\ call.avail <= unplayed
  <1>1. /\ call.avail >= 1 /\ call.left >= 1 /\ unplayed >= 1
        /\ call.avail <= unplayed
    BY SMT DEF IInv, TypeOK, CallInv
  <1>2. call.got = ring[ring_read] /\ call.got \in Sample
    <2>1. /\ call.got.l = ring[ring_read].l /\ call.got.r = ring[ring_read].r
          /\ call.got \in Sample /\ ring[ring_read] \in Sample
      BY DEF IInv, TypeOK, CallInv
    <2> QED BY <2>1 DEF Sample
  <1>3. Whole(ring[ring_read])
    <2>1. 0 \in 0 .. unplayed - 1 /\ SlotAt(0) = ring_read
      BY RingAssumption, <1>1, SMT DEF IInv, TypeOK, Slots, RingAssumption, SlotAt
    <2> QED BY <2>1 DEF IInv, RingInv
  <1> QED BY <1>1, <1>2, <1>3

LEMMA FreeSlotInv ==
  ASSUME IInv, FreeSlot
  PROVE  IInv'
  <1>0. /\ call.got = ring[ring_read] /\ Whole(call.got) /\ call.got \in Sample
        /\ call.avail >= 1 /\ call.left >= 1 /\ unplayed >= 1
        /\ call.avail <= unplayed
    BY GotOldest DEF FreeSlot
  <1>1. ring_read \in Slots /\ ring_read' = Advance(ring_read)
        /\ unplayed \in 0 .. Backlog
    BY DEF IInv, TypeOK, FreeSlot
  <1>2. \A k \in 0 .. unplayed' : k \in 0 .. Backlog - 1 /\ SlotAt(k)' = SlotAt(k + 1)
    <2> SUFFICES ASSUME NEW k \in 0 .. unplayed' PROVE k \in 0 .. Backlog - 1 /\ SlotAt(k)' = SlotAt(k + 1)
      BY SMT
    <2>1. k \in 0 .. Backlog - 1
      BY RingAssumption, <1>0, <1>1, SMT DEF FreeSlot, RingAssumption
    <2> QED BY <1>1, <2>1, SlotsShift
  <1>3. TypeOK'
    <2>1. ring_read' \in Slots
      BY RingAssumption, <1>1, SMT DEF Slots, Advance, RingAssumption
    <2>2. call' \in [pc : {"idle", "left", "right", "advance"}, left : 0 .. CallMax,
                      avail : 0 .. RingLen - 1, got : Sample]
      BY RingAssumption, <1>0, SMT DEF IInv, TypeOK, FreeSlot, NextCall, Idle, Silence, Sample, Label, RingAssumption
    <2>3. unplayed' \in 0 .. Backlog
      BY RingAssumption, <1>0, <1>1, SMT DEF FreeSlot, RingAssumption
    <2> QED BY <1>0, <2>1, <2>2, <2>3 DEF IInv, TypeOK, FreeSlot
  <1>4. RingInv'
    <2>1. ring_write' = SlotAt(unplayed)'
      <3>1. SlotAt(unplayed)' = SlotAt(unplayed)
        BY RingAssumption, <1>1, <1>0, SMT DEF SlotAt, Advance, Slots, RingAssumption, FreeSlot
      <3> QED BY <3>1 DEF FreeSlot, IInv, RingInv
    <2>2. ASSUME NEW k \in 0 .. unplayed' - 1
          PROVE  Whole(ring'[SlotAt(k)'])
      <3>1. k \in 0 .. unplayed' /\ k + 1 \in 0 .. unplayed - 1
        BY RingAssumption, <1>1, SMT DEF FreeSlot, RingAssumption
      <3> QED BY <1>2, <3>1 DEF FreeSlot, IInv, RingInv
    <2>3. Whole(played')
      BY <1>0 DEF FreeSlot
    <2>4. (\A k \in 0 .. unplayed - 1 : Whole(ring[SlotAt(k)]))'
      BY <2>2 DEF Whole, SlotAt
    <2> QED BY <2>1, <2>3, <2>4 DEF RingInv, Whole, SlotAt
  <1>5. PushInv'
    BY RingAssumption, <1>1, SMT DEF IInv, TypeOK, PushInv, FreeSlot, RingAssumption
  <1>6. CallInv'
    BY <1>0, SMT DEF IInv, TypeOK, CallInv, FreeSlot, NextCall, Idle
  <1> QED BY <1>3, <1>4, <1>5, <1>6 DEF IInv

LEMMA UnderrunInv ==
  ASSUME IInv, Underrun
  PROVE  IInv'
  <1>1. TypeOK'
    BY RingAssumption, SMT DEF RingAssumption, IInv, TypeOK, Underrun, Idle, Silence, Sample, Label
  <1>2. RingInv' /\ PushInv'
    BY DEF IInv, RingInv, PushInv, Underrun, SlotAt
  <1>3. CallInv'
    BY DEF CallInv, Underrun, Idle
  <1> QED BY <1>1, <1>2, <1>3 DEF IInv

LEMMA NextInv ==
  ASSUME IInv, [Next]_vars
  PROVE  IInv'
  <1>1. CASE Pusher
    BY <1>1, StartPushInv, StoreLeftInv, StoreRightInv, PublishInv DEF Pusher
  <1>2. CASE Player
    BY <1>2, StartCallInv, LoadLeftInv, LoadRightInv, FreeSlotInv, UnderrunInv DEF Player
  <1>3. CASE UNCHANGED vars
    BY <1>3 DEF vars, IInv, TypeOK, RingInv, PushInv, CallInv, SlotAt
  <1> QED BY <1>1, <1>2, <1>3 DEF Next

(* For every size of the ring, the frames and the callbacks that leaves    *)
(* the backlog shorter than the ring: indices, counts and samples keep     *)
(* their types, and the halves under way are those of the oldest and the   *)
(* next sample, whatever the two threads interleave.                       *)
THEOREM RingSafe ==
  Spec => []IInv
  <1>1. Init => IInv
    BY InitInv
  <1>2. IInv /\ [Next]_vars => IInv'
    BY NextInv
  <1> QED BY <1>1, <1>2, PTL DEF Spec

-----------------------------------------------------------------------------
(* The slots from ring_read on, as the queue of whole samples. *)
WholeSamples == {s \in Sample : s.l = s.r}

LEMMA UnplayedIsQueue ==
  ASSUME IInv
  PROVE  /\ unplayed \in Nat
         /\ Unplayed \in Seq(WholeSamples)
         /\ Len(Unplayed) = unplayed
         /\ DOMAIN Unplayed = 1 .. unplayed
         /\ \A k \in 1 .. unplayed : Unplayed[k] = ring[SlotAt(k - 1)]
  <1>1. unplayed \in Nat /\ unplayed \in 0 .. Backlog
    BY RingAssumption, SMT DEF IInv, TypeOK, RingAssumption
  <1>2. \A k \in 1 .. unplayed : ring[SlotAt(k - 1)] \in WholeSamples
    <2> SUFFICES ASSUME NEW k \in 1 .. unplayed PROVE ring[SlotAt(k - 1)] \in WholeSamples
      OBVIOUS
    <2>1. k - 1 \in 0 .. unplayed - 1 /\ k - 1 \in 0 .. Backlog
      BY RingAssumption, <1>1, SMT DEF RingAssumption
    <2>2. SlotAt(k - 1) \in Slots
      BY <2>1, SlotsApart DEF IInv, TypeOK
    <2> QED BY <2>1, <2>2 DEF IInv, TypeOK, RingInv, Whole, WholeSamples
  <1>3. Unplayed \in [1 .. unplayed -> WholeSamples]
    BY <1>2 DEF Unplayed
  <1>4. Unplayed \in Seq(WholeSamples)
    BY <1>1, <1>3, SMT
  <1>5. Len(Unplayed) = unplayed
    BY <1>1, <1>3, <1>4, LenProperties, SMT
  <1> QED BY <1>1, <1>3, <1>4, <1>5 DEF Unplayed

LEMMA UnplayedIsQueueNext ==
  IInv' => (Unplayed \in Seq(WholeSamples) /\ Len(Unplayed) = unplayed)'
  <1>1. IInv => Unplayed \in Seq(WholeSamples) /\ Len(Unplayed) = unplayed
    BY UnplayedIsQueue
  <1> QED BY <1>1, PTL

LEMMA QueueBegins ==
  ASSUME Init
  PROVE  Fifo!Init
  <1>1. Unplayed = << >>
    BY InitInv, UnplayedIsQueue, EmptySeq, SMT DEF Init
  <1>2. played \in WholeSamples
    BY RingAssumption, SMT DEF Init, Silence, WholeSamples, Sample, Label, RingAssumption
  <1> QED BY <1>1, <1>2 DEF Fifo!Init, WholeSamples

LEMMA PublishPushes ==
  ASSUME IInv, Publish
  PROVE  Fifo!Push
  <1> DEFINE new == ring[ring_write]
  <1>1. IInv' /\ unplayed' = unplayed + 1 /\ unplayed \in Nat
    BY PublishInv, UnplayedIsQueue DEF Publish
  <1>2. new \in WholeSamples
    BY DEF IInv, TypeOK, PushInv, Publish, WholeSamples
  <1>3. Unplayed' \in Seq(WholeSamples) /\ Len(Unplayed') = unplayed + 1
    BY <1>1, UnplayedIsQueueNext
  <1>4. Append(Unplayed, new) \in Seq(WholeSamples)
        /\ Len(Append(Unplayed, new)) = unplayed + 1
    BY <1>2, UnplayedIsQueue, AppendProperties
  <1>5. ASSUME NEW k \in 1 .. unplayed + 1
        PROVE  Unplayed'[k] = Append(Unplayed, new)[k]
    <2>1. Unplayed'[k] = ring[SlotAt(k - 1)]
      BY <1>1 DEF Unplayed, Publish, SlotAt
    <2>2. CASE k = unplayed + 1
      BY <1>1, <1>2, <2>1, <2>2, UnplayedIsQueue, AppendProperties DEF IInv, RingInv
    <2>3. CASE k # unplayed + 1
      <3>1. k \in 1 .. unplayed
        BY <1>1, <2>3, SMT
      <3> QED BY <1>2, <2>1, <3>1, UnplayedIsQueue, AppendProperties
    <2> QED BY <2>2, <2>3
  <1>6. Unplayed' = Append(Unplayed, new)
    BY <1>3, <1>4, <1>5, SeqEqual
  <1> QED BY <1>2, <1>6 DEF Fifo!Push, WholeSamples, Publish

LEMMA FreeSlotPlays ==
  ASSUME IInv, FreeSlot
  PROVE  Fifo!Play
  <1>1. IInv' /\ unplayed' = unplayed - 1 /\ unplayed \in Nat /\ unplayed >= 1
    BY FreeSlotInv, GotOldest, UnplayedIsQueue DEF FreeSlot
  <1>2. Unplayed # << >> /\ played' = Head(Unplayed)
    <2>1. Unplayed # << >>
      BY <1>1, UnplayedIsQueue, EmptySeq
    <2>2. Head(Unplayed) = Unplayed[1]
      BY UnplayedIsQueue, <2>1, SMT
    <2>3. Unplayed[1] = ring[ring_read]
      <3>1. 1 \in 1 .. unplayed /\ SlotAt(1 - 1) = ring_read
        BY RingAssumption, <1>1, SMT DEF IInv, TypeOK, Slots, RingAssumption, SlotAt
      <3> QED BY <3>1, UnplayedIsQueue
    <2> QED BY <2>1, <2>2, <2>3, GotOldest DEF FreeSlot
  <1>3. Unplayed' \in Seq(WholeSamples) /\ Len(Unplayed') = unplayed - 1
    BY <1>1, UnplayedIsQueueNext
  <1>4. /\ Tail(Unplayed) \in Seq(WholeSamples)
        /\ Len(Tail(Unplayed)) = unplayed - 1
        /\ \A k \in 1 .. unplayed - 1 : Tail(Unplayed)[k] = Unplayed[k + 1]
    BY <1>2, UnplayedIsQueue, HeadTailProperties
  <1>5. ASSUME NEW k \in 1 .. unplayed - 1
        PROVE  Unplayed'[k] = Tail(Unplayed)[k]
    <2>1. k - 1 \in 0 .. Backlog - 1 /\ k + 1 \in 1 .. unplayed /\ (k - 1) + 1 = (k + 1) - 1
      BY RingAssumption, <1>1, SMT DEF IInv, TypeOK, RingAssumption
    <2>2. SlotAt(k - 1)' = SlotAt((k + 1) - 1)
      BY <2>1, SlotsShift DEF IInv, TypeOK, FreeSlot
    <2>3. Unplayed'[k] = ring[SlotAt(k - 1)']
      BY <1>1 DEF Unplayed, FreeSlot
    <2> QED BY <1>4, <2>1, <2>2, <2>3, UnplayedIsQueue
  <1>6. Unplayed' = Tail(Unplayed)
    BY <1>3, <1>4, <1>5, SeqEqual
  <1> QED BY <1>2, <1>6 DEF Fifo!Play

LEMMA OthersKeepQueue ==
  ASSUME IInv,
         StartPush \/ StoreLeft \/ StoreRight \/ StartCall
         \/ LoadLeft \/ LoadRight \/ Underrun \/ UNCHANGED vars
  PROVE  UNCHANGED << Unplayed, played >>
  <1>1. CASE StoreLeft \/ StoreRight
    <2>1. push.pc # "idle" /\ ring_write \in Slots
      BY <1>1 DEF StoreLeft, StoreRight, IInv, TypeOK
    <2>2. ASSUME NEW k \in 1 .. unplayed
          PROVE  ring'[SlotAt(k - 1)] = ring[SlotAt(k - 1)]
      <3>1. k - 1 \in 0 .. unplayed - 1
        BY SMT DEF IInv, TypeOK
      <3>2. SlotAt(k - 1) # ring_write /\ SlotAt(k - 1) \in Slots
        BY <2>1, <3>1, FreeSlotsKept
      <3> QED BY <1>1, <3>2 DEF StoreLeft, StoreRight, IInv, TypeOK
    <2> QED BY <1>1, <2>2 DEF StoreLeft, StoreRight, Unplayed, SlotAt
  <1>2. CASE StartPush \/ StartCall \/ LoadLeft \/ LoadRight \/ Underrun \/ UNCHANGED vars
    BY <1>2 DEF StartPush, StartCall, LoadLeft, LoadRight, Underrun, vars, Unplayed, SlotAt
  <1> QED BY <1>1, <1>2

(* The ring implements a first-in first-out queue of whole samples: a      *)
(* publication of ring_write pushes, an advance of ring_read plays the     *)
(* oldest, and the other loads and stores of the two threads change        *)
(* nothing the listener could hear.                                        *)
THEOREM RingImplementsFifo ==
  Spec => RingIsFifo
  <1>1. Init => Fifo!Init
    BY QueueBegins
  <1>2. IInv /\ [Next]_vars => [Fifo!Next]_<< Unplayed, played >>
    <2> SUFFICES ASSUME IInv, [Next]_vars PROVE [Fifo!Next]_<< Unplayed, played >>
      OBVIOUS
    <2>1. CASE Publish
      BY <2>1, PublishPushes DEF Fifo!Next
    <2>2. CASE FreeSlot
      BY <2>2, FreeSlotPlays DEF Fifo!Next
    <2>3. CASE StartPush \/ StoreLeft \/ StoreRight \/ StartCall
               \/ LoadLeft \/ LoadRight \/ Underrun \/ UNCHANGED vars
      BY <2>3, OthersKeepQueue
    <2> QED BY <2>1, <2>2, <2>3 DEF Next, Pusher, Player
  <1> QED BY <1>1, <1>2, RingSafe, PTL DEF Spec, RingIsFifo, Fifo!Spec

-----------------------------------------------------------------------------
(* The timer.  The states that TIMER_Update's loop goes through, its body, *)
(* and how many rounds are still to come.                                  *)
TimerStates == [counter : T!Values, divider : Int, status : BOOLEAN,
                shadow : BOOLEAN, pending : BOOLEAN, irq : BOOLEAN]
TimerDone   == {r \in TimerStates : r.divider > 0}
TimerRound  == [r \in TimerStates |-> IF r.divider > 0 THEN r ELSE T!Expire(r)]
TimerBound  == [r \in TimerStates |-> IF r.divider > 0 THEN 0 ELSE 1 - r.divider]

(* What the loop relies on. *)
TimerSane ==
  /\ TimerControl \in [enable : BOOLEAN, zint : BOOLEAN, clksel : BOOLEAN]
  /\ TimerReloadValue \in T!Values
  /\ {SlowPeriod, FastPeriod, FastFirst, ByteValues} \subseteq Nat \ {0}
  /\ FastPeriod <= SlowPeriod

LEMMA ExpireFacts ==
  ASSUME TimerSane, NEW r \in TimerStates
  PROVE  /\ T!Expire(r) \in TimerStates
         /\ T!Expire(r).divider > r.divider
         /\ r.divider <= 0 => T!Expire(r).divider <= SlowPeriod
         /\ r.shadow => T!Expire(r).shadow
         /\ T!Expire(r).irq <=> T!Expire(r).shadow /\ TimerControl.zint
         /\ \A n \in Int : [T!Expire(r) EXCEPT !.divider = @ - n]
                             = T!Expire([r EXCEPT !.divider = @ - n])
  <1>1. ByteValues * ByteValues \in Nat /\ T!Values = 0 .. ByteValues * ByteValues - 1
    BY DEF TimerSane, T!Values
  <1>2. T!Reloaded(r) \in T!Values
    BY DEF TimerSane, TimerStates, T!Reloaded
  <1>3. (IF T!Reloaded(r) # 0 THEN T!Reloaded(r) - 1 ELSE 0) \in T!Values
    BY <1>1, <1>2
  <1>4. (IF TimerControl.clksel THEN FastPeriod ELSE SlowPeriod) \in 1 .. SlowPeriod
    BY DEF TimerSane
  <1>5. T!Expire(r) \in TimerStates
    BY <1>3, <1>4 DEF TimerStates, T!Expire, TimerSane
  <1>6. ASSUME NEW n \in Int
        PROVE  [T!Expire(r) EXCEPT !.divider = @ - n] = T!Expire([r EXCEPT !.divider = @ - n])
    <2> DEFINE q == [r EXCEPT !.divider = @ - n]
               period == IF TimerControl.clksel THEN FastPeriod ELSE SlowPeriod
               x == T!Expire(r)
    <2>1. /\ q.divider = r.divider - n /\ q.counter = r.counter /\ q.status = r.status
          /\ q.shadow = r.shadow /\ q.pending = r.pending
      BY DEF TimerStates
    <2>2. T!Reloaded(q) = T!Reloaded(r)
      BY <2>1 DEF T!Reloaded
    <2> HIDE DEF q
    <2>3. T!Expire(q) = [counter |-> x.counter, divider |-> (r.divider - n) + period,
                         status |-> x.status, shadow |-> x.shadow,
                         pending |-> x.pending, irq |-> x.irq]
      BY <2>1, <2>2 DEF T!Expire
    <2>4. x.divider = r.divider + period /\ r.divider \in Int /\ period \in Int
      BY <1>4 DEF T!Expire, TimerStates
    <2>5. (r.divider - n) + period = x.divider - n
      BY <2>4
    <2> HIDE DEF x, period
    <2>6. x \in TimerStates
      BY <1>5 DEF x
    <2>7. [x EXCEPT !.divider = @ - n]
            = [counter |-> x.counter, divider |-> x.divider - n, status |-> x.status,
               shadow |-> x.shadow, pending |-> x.pending, irq |-> x.irq]
      BY <2>6 DEF TimerStates
    <2> QED BY <2>3, <2>5, <2>7 DEF q, x
  <1>7. T!Expire(r).divider > r.divider /\ (r.divider <= 0 => T!Expire(r).divider <= SlowPeriod)
    BY <1>4 DEF TimerStates, T!Expire, TimerSane
  <1>8. /\ r.shadow => T!Expire(r).shadow
        /\ T!Expire(r).irq <=> T!Expire(r).shadow /\ TimerControl.zint
    BY DEF TimerStates, T!Expire
  <1> QED BY <1>5, <1>6, <1>7, <1>8

LEMMA TimerTerminates ==
  ASSUME TimerSane
  PROVE  Terminates(TimerStates, TimerRound, TimerDone, TimerBound)
  <1>1. TimerRound \in [TimerStates -> TimerStates]
    BY ExpireFacts DEF TimerRound
  <1>2. TimerBound \in [TimerStates -> Nat]
    BY DEF TimerBound, TimerStates
  <1>3. ASSUME NEW r \in TimerStates \ TimerDone
        PROVE  TimerBound[TimerRound[r]] < TimerBound[r]
    <2>1. r.divider \in Int /\ ~ (r.divider > 0)
      BY <1>3 DEF TimerDone, TimerStates
    <2>2. TimerRound[r] = T!Expire(r) /\ TimerRound[r] \in TimerStates
      BY <2>1, ExpireFacts DEF TimerRound
    <2>3. TimerRound[r].divider > r.divider /\ TimerRound[r].divider \in Int
      BY <2>2, ExpireFacts DEF TimerStates
    <2> QED BY <2>1, <2>2, <2>3 DEF TimerBound
  <1> QED BY <1>1, <1>2, <1>3 DEF Terminates, TimerDone, TimerRound

(* Settle is that loop. *)
TimerEnd == [r \in TimerStates |-> T!Settle(r)]

LEMMA SettleLoops ==
  ASSUME TimerSane
  PROVE  EndsIn(TimerStates, TimerRound, TimerBound, TimerEnd)
  <1> SUFFICES ASSUME NEW r \in TimerStates
               PROVE  \E g, n : /\ Repeats(TimerStates, TimerRound, r, g)
                               /\ n \in Nat /\ n >= TimerBound[r] /\ TimerEnd[r] = g[n]
    BY DEF EndsIn
  <1>1. TimerRound \in [TimerStates -> TimerStates] /\ TimerBound[r] \in Nat
    BY TimerTerminates DEF Terminates
  <1>2. PICK g : Repeats(TimerStates, TimerRound, r, g)
    BY <1>1, Repetition
  <1> DEFINE Round(x) == IF x.divider > 0 THEN x ELSE T!Expire(x)
  <1> DEFINE after[n \in Nat] == IF n = 0 THEN r ELSE Round(after[n - 1])
  <1>3. TimerEnd[r] = after[TimerBound[r]]
    <2>1. TimerBound[r] = IF r.divider > 0 THEN 0 ELSE 1 - r.divider
      BY DEF TimerBound
    <2>2. T!Settle(r) = after[IF r.divider > 0 THEN 0 ELSE 1 - r.divider]
      BY DEF T!Settle
    <2> QED BY <2>1, <2>2 DEF TimerEnd
  <1>4. g = [n \in Nat |-> IF n = 0 THEN r ELSE Round(g[n - 1])]
    <2>1. ASSUME NEW n \in Nat PROVE g[n] = IF n = 0 THEN r ELSE Round(g[n - 1])
      <3>1. CASE n = 0
        BY <1>2, <3>1 DEF Repeats
      <3>2. CASE n # 0
        <4>1. n - 1 \in Nat /\ (n - 1) + 1 = n
          BY <3>2
        <4> QED BY <1>2, <3>2, <4>1 DEF TimerRound, Repeats
      <3> QED BY <3>1, <3>2
    <2> QED BY <1>2, <2>1 DEF Repeats
  <1>5. after = [n \in Nat |-> IF n = 0 THEN r ELSE Round(after[n - 1])]
    <2> DEFINE P(h) == h = [n \in Nat |-> IF n = 0 THEN r ELSE Round(h[n - 1])]
    <2>1. P(g)
      BY <1>4
    <2>2. after = CHOOSE h : P(h)
      OBVIOUS
    <2> HIDE DEF P, after
    <2>3. P(after)
      BY <2>1, <2>2
    <2> QED BY <2>3 DEF P
  <1> HIDE DEF after
  <1>6. Repeats(TimerStates, TimerRound, r, after)
    <2>1. \A n \in Nat : after[n] = IF n = 0 THEN r ELSE Round(after[n - 1])
      BY <1>5
    <2>2. after[0] = r
      BY <2>1
    <2>3. ASSUME NEW n \in Nat, after[n] \in TimerStates
          PROVE  after[n + 1] = TimerRound[after[n]]
      <3>1. n + 1 \in Nat /\ n + 1 # 0 /\ (n + 1) - 1 = n
        OBVIOUS
      <3>2. after[n + 1] = Round(after[n])
        BY <2>1, <3>1
      <3> QED BY <2>3, <3>2 DEF TimerRound
    <2>4. after = [n \in Nat |-> after[n]]
      BY <1>5
    <2> QED BY <1>1, <2>2, <2>3, <2>4, Follows
  <1> QED BY <1>1, <1>3, <1>6

LEMMA SettleDone ==
  ASSUME TimerSane, NEW r \in TimerStates, r.divider > 0
  PROVE  T!Settle(r) = r
  <1>1. TimerEnd[r] = r
    BY TimerTerminates, SettleLoops, LoopEnds DEF TimerDone
  <1> QED BY <1>1 DEF TimerEnd

LEMMA SettleOn ==
  ASSUME TimerSane, NEW r \in TimerStates, ~ (r.divider > 0)
  PROVE  T!Settle(T!Expire(r)) = T!Settle(r)
  <1>1. TimerEnd[TimerRound[r]] = TimerEnd[r]
    BY TimerTerminates, SettleLoops, LoopEnds
  <1>2. TimerRound[r] = T!Expire(r) /\ T!Expire(r) \in TimerStates
    BY ExpireFacts DEF TimerRound
  <1> QED BY <1>1, <1>2 DEF TimerEnd

(* What an update leaves: a divider that is positive, and no longer than a *)
(* period unless it was before; a request that it has not withdrawn; and   *)
(* an interrupt line that is up for a request only.                        *)
SettledWell(r, s) ==
  /\ s \in TimerStates /\ s.divider > 0
  /\ s.divider <= r.divider \/ s.divider <= SlowPeriod
  /\ r.shadow => s.shadow
  /\ (r.irq <=> r.shadow /\ TimerControl.zint) => (s.irq <=> s.shadow /\ TimerControl.zint)

LEMMA SettledThrough ==
  ASSUME TimerSane, NEW r \in TimerStates, NEW q \in TimerStates, NEW s,
         q.divider <= SlowPeriod, r.shadow => q.shadow,
         q.irq <=> q.shadow /\ TimerControl.zint, SettledWell(q, s)
  PROVE  SettledWell(r, s)
  <1>1. /\ s \in TimerStates /\ s.divider > 0
        /\ s.divider <= q.divider \/ s.divider <= SlowPeriod
        /\ q.shadow => s.shadow
        /\ s.irq <=> s.shadow /\ TimerControl.zint
    BY DEF SettledWell
  <1>2. s.divider \in Int /\ q.divider \in Int /\ SlowPeriod \in Int
    BY <1>1 DEF TimerStates, TimerSane
  <1>3. s.divider <= SlowPeriod
    BY <1>1, <1>2
  <1> QED BY <1>1, <1>3 DEF SettledWell

LEMMA SettleFacts ==
  ASSUME TimerSane, NEW r \in TimerStates
  PROVE  SettledWell(r, T!Settle(r))
  <1> DEFINE G == {x \in TimerStates : SettledWell(x, T!Settle(x))}
  <1>1. ASSUME NEW x \in TimerDone PROVE x \in G
    <2>1. x \in TimerStates /\ x.divider > 0 /\ x.divider \in Int
      BY DEF TimerDone, TimerStates
    <2>2. T!Settle(x) = x
      BY <2>1, SettleDone
    <2> QED BY <2>1, <2>2 DEF SettledWell
  <1>2. ASSUME NEW x \in TimerStates \ TimerDone, TimerRound[x] \in G PROVE x \in G
    <2>1. x \in TimerStates /\ ~ (x.divider > 0) /\ x.divider \in Int
      BY DEF TimerDone, TimerStates
    <2> DEFINE y == T!Expire(x)   s == T!Settle(x)
    <2>2. /\ y \in TimerStates /\ y.divider <= SlowPeriod
          /\ x.shadow => y.shadow
          /\ y.irq <=> y.shadow /\ TimerControl.zint
      BY <2>1, ExpireFacts
    <2>3. SettledWell(y, s)
      <3>1. TimerRound[x] = y
        BY <2>1 DEF TimerRound
      <3>2. T!Settle(y) = s
        BY <2>1, SettleOn
      <3> QED BY <1>2, <3>1, <3>2
    <2>4. SettledWell(x, s)
      BY <2>1, <2>2, <2>3, SettledThrough
    <2> QED BY <2>1, <2>4
  <1>3. G = TimerStates
    <2>1. G \in SUBSET TimerStates /\ TimerDone \subseteq G
      BY <1>1
    <2> HIDE DEF G
    <2> QED BY <1>2, <2>1, TimerTerminates, LoopInduction
  <1> QED BY <1>3

(* To catch up, and after n more cycles again, is to catch up once. *)
Later(r, n) == [r EXCEPT !.divider = @ - n]

LEMMA LaterFacts ==
  ASSUME NEW r \in TimerStates, NEW n \in Nat
  PROVE  Later(r, n) \in TimerStates /\ Later(r, n).divider = r.divider - n
  BY DEF Later, TimerStates

LEMMA LaterAgain ==
  ASSUME NEW r \in TimerStates, NEW n \in Nat
  PROVE  Later(Later(r, n), 1) = Later(r, n + 1)
  <1>1. \A x \in TimerStates, k \in Nat :
          Later(x, k) = [counter |-> x.counter, divider |-> x.divider - k,
                         status |-> x.status, shadow |-> x.shadow,
                         pending |-> x.pending, irq |-> x.irq]
    BY DEF Later, TimerStates
  <1>2. (r.divider - n) - 1 = r.divider - (n + 1) /\ n + 1 \in Nat
    BY DEF TimerStates
  <1>3. Later(Later(r, n), 1) = [counter |-> r.counter, divider |-> (r.divider - n) - 1,
                                 status |-> r.status, shadow |-> r.shadow,
                                 pending |-> r.pending, irq |-> r.irq]
    <2>1. Later(r, n) \in TimerStates
      BY LaterFacts
    <2>2. Later(r, n) = [counter |-> r.counter, divider |-> r.divider - n,
                         status |-> r.status, shadow |-> r.shadow,
                         pending |-> r.pending, irq |-> r.irq]
      BY <1>1
    <2>3. Later(Later(r, n), 1) = [counter |-> Later(r, n).counter,
                                   divider |-> Later(r, n).divider - 1,
                                   status |-> Later(r, n).status,
                                   shadow |-> Later(r, n).shadow,
                                   pending |-> Later(r, n).pending, irq |-> Later(r, n).irq]
      BY <1>1, <2>1
    <2> QED BY <2>2, <2>3
  <1> QED BY <1>1, <1>2, <1>3

LEMMA SettleTwice ==
  ASSUME TimerSane, NEW r \in TimerStates, NEW n \in Nat
  PROVE  T!Settle(Later(T!Settle(r), n)) = T!Settle(Later(r, n))
  <1> DEFINE G == {x \in TimerStates :
                     T!Settle(Later(T!Settle(x), n)) = T!Settle(Later(x, n))}
  <1>1. ASSUME NEW x \in TimerDone PROVE x \in G
    BY SettleDone DEF TimerDone
  <1>2. ASSUME NEW x \in TimerStates \ TimerDone, TimerRound[x] \in G PROVE x \in G
    <2>1. x \in TimerStates /\ ~ (x.divider > 0) /\ x.divider \in Int
      BY DEF TimerDone, TimerStates
    <2>2. TimerRound[x] = T!Expire(x)
      BY <2>1 DEF TimerRound
    <2>3. T!Settle(Later(T!Settle(T!Expire(x)), n)) = T!Settle(Later(T!Expire(x), n))
      BY <1>2, <2>2
    <2>4. Later(T!Expire(x), n) = T!Expire(Later(x, n))
      BY <2>1, ExpireFacts DEF Later
    <2>5. T!Settle(T!Expire(x)) = T!Settle(x)
      BY <2>1, SettleOn
    <2>6. T!Settle(T!Expire(Later(x, n))) = T!Settle(Later(x, n))
      <3>1. Later(x, n) \in TimerStates /\ ~ (Later(x, n).divider > 0)
        BY <2>1, LaterFacts
      <3> QED BY <3>1, SettleOn
    <2> QED BY <2>1, <2>3, <2>4, <2>5, <2>6
  <1>3. G = TimerStates
    <2>1. G \in SUBSET TimerStates /\ TimerDone \subseteq G
      BY <1>1
    <2> HIDE DEF G
    <2> QED BY <1>2, <2>1, TimerTerminates, LoopInduction
  <1> QED BY <1>3

(* Where an update leads depends on the two registers only. *)
LEMMA SettleKept ==
  ASSUME UNCHANGED << TimerControl, TimerReloadValue >>, NEW r
  PROVE  T!Settle(r)' = T!Settle(r)
  <1>1. \A x : T!Expire(x)' = T!Expire(x)
    BY DEF T!Expire, T!Reloaded
  <1> QED BY <1>1 DEF T!Settle

-----------------------------------------------------------------------------
(* The timer's invariant: besides the types, an interrupt line that is up  *)
(* for a request only, and an event scheduled for the next count or        *)
(* earlier.                                                                *)
TimerInv ==
  /\ T!TypeOK
  /\ irq <=> TimerStatusShadow /\ TimerControl.zint
  /\ TimerControl.enable => next_timer_ts <= TimerLastTS + TimerDivider

(* The timer, if it caught up now. *)
Caught == T!Settled(timer_now)

LEMMA TimerSanity ==
  ASSUME TimerInv
  PROVE  TimerSane /\ T!Here \in TimerStates /\ T!Here.divider = TimerDivider
  BY DevicesAssumption DEF DevicesAssumption, T!TimerAssumption, TimerInv, T!TypeOK,
     TimerSane, T!Here, TimerStates

LEMMA CaughtFacts ==
  ASSUME TimerInv
  PROVE  /\ Caught \in TimerStates
         /\ Caught.divider \in 1 .. SlowPeriod + FastFirst
         /\ Caught.irq <=> Caught.shadow /\ TimerControl.zint
         /\ TimerStatusShadow => Caught.shadow
         /\ TimerControl.enable => next_timer_ts <= timer_now + Caught.divider
         /\ Caught.shadow /\ ~ TimerStatusShadow => TimerControl.enable /\ next_timer_ts <= timer_now
  <1> DEFINE here == T!Here   n == timer_now - TimerLastTS   late == Later(here, n)
  <1>1. /\ TimerSane /\ here \in TimerStates /\ here.divider = TimerDivider
        /\ TimerDivider \in 1 .. SlowPeriod + FastFirst
        /\ SlowPeriod \in Nat /\ FastFirst \in Nat
        /\ n \in Nat /\ timer_now \in Nat /\ TimerLastTS \in Nat /\ next_timer_ts \in Nat
    BY TimerSanity, DevicesAssumption DEF TimerInv, T!TypeOK, TimerSane,
       DevicesAssumption, T!TimerAssumption
  <1>2. here.shadow = TimerStatusShadow /\ here.irq = irq
    BY DEF T!Here
  <1>3. CASE ~ TimerControl.enable
    <2>1. Caught = here
      BY <1>3 DEF Caught, T!Settled
    <2> QED BY <1>1, <1>2, <1>3, <2>1 DEF TimerInv
  <1>4. CASE TimerControl.enable
    <2>1. /\ late \in TimerStates /\ late.divider = TimerDivider - n
          /\ late.shadow = TimerStatusShadow /\ late.irq = irq
      BY <1>1, <1>2, LaterFacts DEF Later, TimerStates
    <2>2. Caught = T!Settle(late)
      BY <1>4 DEF Caught, T!Settled, Later
    <2>3. SettledWell(late, Caught)
      BY <1>1, <2>1, <2>2, SettleFacts
    <2>4. late.divider > 0 => Caught = late
      BY <1>1, <2>1, <2>2, SettleDone
    <2> HIDE DEF late
    <2>5. /\ Caught \in TimerStates /\ Caught.divider > 0
          /\ Caught.divider <= late.divider \/ Caught.divider <= SlowPeriod
          /\ TimerStatusShadow => Caught.shadow
          /\ Caught.irq <=> Caught.shadow /\ TimerControl.zint
      BY <2>1, <2>3 DEF SettledWell, TimerInv
    <2>6. Caught.divider \in Int
      BY <2>5 DEF TimerStates
    <2>7. Caught.divider \in 1 .. SlowPeriod + FastFirst
      BY <1>1, <2>1, <2>5, <2>6
    <2>8. next_timer_ts <= TimerLastTS + TimerDivider
      BY <1>4 DEF TimerInv
    <2>9. next_timer_ts <= timer_now + Caught.divider
      BY <1>1, <2>1, <2>4, <2>5, <2>6, <2>8
    <2>10. Caught.shadow /\ ~ TimerStatusShadow => next_timer_ts <= timer_now
      <3>1. CASE late.divider > 0
        BY <2>1, <2>4, <3>1
      <3>2. CASE ~ (late.divider > 0)
        BY <1>1, <2>1, <2>8, <3>2
      <3> QED BY <3>1, <3>2
    <2> QED BY <1>4, <2>5, <2>7, <2>9, <2>10
  <1> QED BY <1>3, <1>4

(* A timer that is up to date has nothing to catch up with. *)
LEMMA CaughtUp ==
  ASSUME TimerInv, TimerLastTS = timer_now
  PROVE  Caught = T!Here
  <1>1. TimerSane /\ T!Here \in TimerStates /\ T!Here.divider > 0
    BY TimerSanity DEF TimerInv, T!TypeOK
  <1>2. [T!Here EXCEPT !.divider = @ - (timer_now - TimerLastTS)] = T!Here
    BY <1>1 DEF TimerInv, T!TypeOK, T!Here
  <1> QED BY <1>1, <1>2, SettleDone DEF Caught, T!Settled

LEMMA TimerInitInv ==
  ASSUME T!Init
  PROVE  TimerInv
  <1>1. ByteValues * ByteValues - 1 \in T!Values
    <2>1. ByteValues \in Nat \ {0}
      BY DevicesAssumption DEF DevicesAssumption, T!TimerAssumption
    <2>2. ByteValues * ByteValues \in Nat \ {0}
      BY <2>1
    <2> QED BY <2>2 DEF T!Values
  <1>2. /\ SlowPeriod \in 1 .. SlowPeriod + FastFirst /\ NoEvent \in Nat
        /\ TimerFrame \in Nat
    BY DevicesAssumption DEF DevicesAssumption, T!TimerAssumption
  <1>3. T!TypeOK
    <2>1. TimerControl \in [enable : BOOLEAN, zint : BOOLEAN, clksel : BOOLEAN]
      BY DEF T!Init
    <2>2. TimerReloadValue \in T!Values /\ TimerCounter \in T!Values
      BY <1>1 DEF T!Init
    <2>3. {TimerStatus, TimerStatusShadow, ReloadPending, irq} \subseteq BOOLEAN
      BY DEF T!Init
    <2>4. /\ TimerDivider \in 1 .. SlowPeriod + FastFirst /\ TimerLastTS \in 0 .. timer_now
          /\ next_timer_ts \in 0 .. NoEvent /\ timer_now \in 0 .. TimerFrame
      BY <1>2 DEF T!Init
    <2> QED BY <2>1, <2>2, <2>3, <2>4 DEF T!TypeOK
  <1> QED BY <1>3 DEF T!Init, TimerInv

(* What a catching-up stores has its types. *)
LEMMA StoreTypes ==
  ASSUME NEW s \in TimerStates, T!Store(s),
         s.divider \in 1 .. SlowPeriod + FastFirst
  PROVE  /\ TimerCounter' \in T!Values
         /\ TimerDivider' \in 1 .. SlowPeriod + FastFirst
         /\ {TimerStatus, TimerStatusShadow, ReloadPending, irq}' \subseteq BOOLEAN
         /\ T!Here' = s
  BY DEF TimerStates, T!Store, T!Here

LEMMA TimerCycleInv ==
  ASSUME TimerInv, T!Cycle
  PROVE  TimerInv'
  BY DevicesAssumption DEF TimerInv, T!TypeOK, T!Cycle, T!timer, DevicesAssumption, T!TimerAssumption

LEMMA TimerReadInv ==
  ASSUME TimerInv, T!Read
  PROVE  TimerInv' /\ TimerLastTS' = timer_now' /\ T!Here' = Caught
  <1>1. T!Store(Caught)
    BY DEF T!Read, Caught
  <1> HIDE DEF Caught
  <1>2. /\ TimerCounter' \in T!Values
        /\ TimerDivider' \in 1 .. SlowPeriod + FastFirst
        /\ {TimerStatus, TimerStatusShadow, ReloadPending, irq}' \subseteq BOOLEAN
        /\ T!Here' = Caught
    BY <1>1, CaughtFacts, StoreTypes
  <1>3. TimerDivider' = Caught.divider /\ irq' = Caught.irq /\ TimerStatusShadow' = Caught.shadow
    BY <1>1 DEF T!Store
  <1> QED BY <1>2, <1>3, CaughtFacts DEF TimerInv, T!TypeOK, T!Read

LEMMA WriteReloadInv ==
  ASSUME TimerInv, NEW value \in T!Values, T!WriteReload(value)
  PROVE  TimerInv' /\ TimerLastTS' = timer_now' /\ T!Here' = [Caught EXCEPT !.pending = TRUE]
  <1> DEFINE s == [Caught EXCEPT !.pending = TRUE]
  <1>1. T!Store(s)
    BY DEF T!WriteReload, Caught
  <1>2. /\ s \in TimerStates /\ s.divider = Caught.divider
        /\ s.irq = Caught.irq /\ s.shadow = Caught.shadow
    BY CaughtFacts DEF TimerStates
  <1> HIDE DEF s
  <1>3. /\ TimerCounter' \in T!Values
        /\ TimerDivider' \in 1 .. SlowPeriod + FastFirst
        /\ {TimerStatus, TimerStatusShadow, ReloadPending, irq}' \subseteq BOOLEAN
        /\ T!Here' = s
    BY <1>1, <1>2, CaughtFacts, StoreTypes
  <1>4. TimerDivider' = Caught.divider /\ irq' = Caught.irq /\ TimerStatusShadow' = Caught.shadow
    BY <1>1, <1>2 DEF T!Store
  <1>5. TimerInv' /\ TimerLastTS' = timer_now'
    BY <1>3, <1>4, CaughtFacts DEF TimerInv, T!TypeOK, T!WriteReload
  <1> QED BY <1>3, <1>5 DEF s

(* What a control write leaves of the caught-up timer. *)
Controlled(e, z, c, clear) ==
  LET status == z /\ Caught.status /\ (clear => TimerControl.enable /\ Caught.counter = 0)
      shadow == z /\ Caught.shadow /\ ~clear
  IN  [Caught EXCEPT !.status = status, !.shadow = shadow,
                     !.divider = IF e /\ ~TimerControl.enable
                                 THEN IF c THEN FastFirst ELSE SlowPeriod ELSE @,
                     !.irq = shadow /\ z]

LEMMA WriteControlInv ==
  ASSUME TimerInv, NEW e \in BOOLEAN, NEW z \in BOOLEAN, NEW c \in BOOLEAN,
         NEW clear \in BOOLEAN, T!WriteControl(e, z, c, clear)
  PROVE  /\ TimerInv' /\ TimerLastTS' = timer_now'
         /\ T!Here' = Controlled(e, z, c, clear)
  <1> DEFINE s == Controlled(e, z, c, clear)
             first == IF c THEN FastFirst ELSE SlowPeriod
             status == z /\ Caught.status /\ (clear => TimerControl.enable /\ Caught.counter = 0)
             shadow == z /\ Caught.shadow /\ ~clear
             divider == IF e /\ ~TimerControl.enable THEN first ELSE Caught.divider
             up == shadow /\ z
  <1>1. T!Store(s)
    BY CaughtFacts DEF T!WriteControl, Caught, Controlled, TimerStates
  <1>2. first \in 1 .. SlowPeriod + FastFirst
    BY DevicesAssumption DEF DevicesAssumption, T!TimerAssumption
  <1>3. /\ s \in TimerStates
        /\ s.divider = IF e /\ ~TimerControl.enable THEN first ELSE Caught.divider
        /\ s.irq <=> s.shadow /\ z
    <2>1. s = [Caught EXCEPT !.status = status, !.shadow = shadow, !.divider = divider, !.irq = up]
      BY CaughtFacts DEF Controlled, TimerStates
    <2>2. status \in BOOLEAN /\ shadow \in BOOLEAN /\ up \in BOOLEAN /\ (up <=> shadow /\ z)
      OBVIOUS
    <2>3. divider \in Int
      BY <1>2, CaughtFacts
    <2> HIDE DEF status, shadow, divider, up, s
    <2>4. s \in TimerStates /\ s.divider = divider /\ s.irq = up /\ s.shadow = shadow
      BY <2>1, <2>2, <2>3, CaughtFacts DEF TimerStates
    <2> QED BY <2>2, <2>4 DEF divider
  <1>4. s.divider \in 1 .. SlowPeriod + FastFirst
    BY <1>2, <1>3, CaughtFacts
  <1>5. next_timer_ts' = IF e THEN timer_now + s.divider ELSE next_timer_ts
    BY <1>3 DEF T!WriteControl, T!Rescheduled, Caught
  <1> HIDE DEF s
  <1>6. /\ TimerCounter' \in T!Values
        /\ TimerDivider' \in 1 .. SlowPeriod + FastFirst
        /\ {TimerStatus, TimerStatusShadow, ReloadPending, irq}' \subseteq BOOLEAN
        /\ T!Here' = s
    BY <1>1, <1>3, <1>4, StoreTypes
  <1>7. TimerDivider' = s.divider /\ irq' = s.irq /\ TimerStatusShadow' = s.shadow
    BY <1>1 DEF T!Store
  <1>8. /\ TimerControl' = [enable |-> e, zint |-> z, clksel |-> c]
        /\ TimerLastTS' = timer_now /\ timer_now' = timer_now
        /\ TimerReloadValue' = TimerReloadValue
    BY DEF T!WriteControl
  <1>9. next_timer_ts' \in 0 .. NoEvent
    BY <1>4, <1>5, DevicesAssumption DEF TimerInv, T!TypeOK, DevicesAssumption, T!TimerAssumption
  <1>10. TimerInv'
    <2>1. T!TypeOK'
      BY <1>6, <1>8, <1>9 DEF TimerInv, T!TypeOK
    <2>2. (irq <=> TimerStatusShadow /\ TimerControl.zint)'
      BY <1>3, <1>7, <1>8
    <2>3. (TimerControl.enable => next_timer_ts <= TimerLastTS + TimerDivider)'
      BY <1>4, <1>5, <1>7, <1>8 DEF TimerInv, T!TypeOK
    <2> QED BY <2>1, <2>2, <2>3 DEF TimerInv
  <1> QED BY <1>6, <1>8, <1>10 DEF s

LEMMA TimerEventInv ==
  ASSUME TimerInv, T!Event
  PROVE  TimerInv' /\ TimerLastTS' = timer_now' /\ T!Here' = Caught
  <1>1. T!Store(Caught)
    BY DEF T!Event, Caught
  <1>2. /\ TimerCounter' \in T!Values
        /\ TimerDivider' \in 1 .. SlowPeriod + FastFirst
        /\ {TimerStatus, TimerStatusShadow, ReloadPending, irq}' \subseteq BOOLEAN
        /\ T!Here' = Caught
    BY <1>1, CaughtFacts, StoreTypes
  <1>3. TimerDivider' = Caught.divider /\ irq' = Caught.irq /\ TimerStatusShadow' = Caught.shadow
    BY <1>1 DEF T!Store
  <1>4. next_timer_ts' = IF TimerControl.enable THEN timer_now + Caught.divider ELSE NoEvent
    BY DEF T!Event, T!Deadline, Caught
  <1>5. next_timer_ts' \in 0 .. NoEvent
    BY <1>4, CaughtFacts, DevicesAssumption
       DEF TimerInv, T!TypeOK, DevicesAssumption, T!TimerAssumption
  <1> HIDE DEF Caught
  <1>6. TimerInv'
    <2>1. T!TypeOK'
      BY <1>2, <1>5 DEF TimerInv, T!TypeOK, T!Event
    <2>2. (irq <=> TimerStatusShadow /\ TimerControl.zint)'
      BY <1>3, CaughtFacts DEF T!Event
    <2>3. (TimerControl.enable => next_timer_ts <= TimerLastTS + TimerDivider)'
      BY <1>3, <1>4, CaughtFacts DEF T!Event, TimerInv, T!TypeOK
    <2> QED BY <2>1, <2>2, <2>3 DEF TimerInv
  <1> QED BY <1>2, <1>6 DEF T!Event

LEMMA TimerEndFrameInv ==
  ASSUME TimerInv, T!EndFrame
  PROVE  TimerInv' /\ TimerLastTS' = timer_now' /\ T!Here' = Caught
  <1>1. T!Store(Caught)
    BY DEF T!EndFrame, Caught
  <1>2. /\ TimerCounter' \in T!Values
        /\ TimerDivider' \in 1 .. SlowPeriod + FastFirst
        /\ {TimerStatus, TimerStatusShadow, ReloadPending, irq}' \subseteq BOOLEAN
        /\ T!Here' = Caught
    BY <1>1, CaughtFacts, StoreTypes
  <1>3. TimerDivider' = Caught.divider /\ irq' = Caught.irq /\ TimerStatusShadow' = Caught.shadow
    BY <1>1 DEF T!Store
  <1>4. next_timer_ts' = IF TimerControl.enable THEN Caught.divider ELSE NoEvent
    BY CaughtFacts DEF T!EndFrame, T!Deadline, Caught
  <1>5. next_timer_ts' \in 0 .. NoEvent
    BY <1>4, CaughtFacts, DevicesAssumption
       DEF TimerInv, T!TypeOK, DevicesAssumption, T!TimerAssumption
  <1>6. TimerInv'
    <2>1. TimerFrame \in Nat /\ timer_now' = 0 /\ TimerLastTS' = 0
      BY DevicesAssumption DEF DevicesAssumption, T!TimerAssumption, T!EndFrame, T!ResetTS
    <2>2. T!TypeOK'
      BY <1>2, <1>5, <2>1 DEF TimerInv, T!TypeOK, T!EndFrame
    <2>3. (irq <=> TimerStatusShadow /\ TimerControl.zint)'
      BY <1>3, CaughtFacts DEF T!EndFrame
    <2>4. (TimerControl.enable => next_timer_ts <= TimerLastTS + TimerDivider)'
      <3>1. Caught.divider \in Int
        BY CaughtFacts
      <3>2. TimerControl' = TimerControl
        BY DEF T!EndFrame
      <3>3. TimerControl.enable => next_timer_ts' <= 0 + TimerDivider'
        BY <1>3, <1>4, <3>1
      <3> QED BY <2>1, <3>2, <3>3
    <2> QED BY <2>2, <2>3, <2>4 DEF TimerInv
  <1> QED BY <1>2, <1>6 DEF T!EndFrame, T!ResetTS

(* The halves of the reload register that the program can write. *)
LEMMA HalvesAreValues ==
  ASSUME TimerInv, NEW b \in T!Bytes
  PROVE  /\ (TimerReloadValue \div ByteValues) * ByteValues + b \in T!Values
         /\ (TimerReloadValue % ByteValues) + b * ByteValues \in T!Values
  <1> DEFINE hi == TimerReloadValue \div ByteValues
             lo == TimerReloadValue % ByteValues
  <1>1. ByteValues \in Nat \ {0} /\ b \in 0 .. ByteValues - 1
    BY DevicesAssumption DEF DevicesAssumption, T!TimerAssumption, T!Bytes
  <1>2. TimerReloadValue \in 0 .. ByteValues * ByteValues - 1
    BY DEF TimerInv, T!TypeOK, T!Values
  <1>3. hi \in 0 .. ByteValues - 1 /\ lo \in 0 .. ByteValues - 1
    <2>1. lo \in 0 .. ByteValues - 1 /\ hi \in Int /\ TimerReloadValue = ByteValues * hi + lo
      BY <1>1, <1>2
    <2> HIDE DEF hi, lo
    <2>2. ByteValues * hi <= ByteValues * ByteValues - 1 /\ ByteValues * hi > - ByteValues
      BY <1>1, <1>2, <2>1
    <2>3. hi < ByteValues
      <3>1. hi >= ByteValues => ByteValues * hi >= ByteValues * ByteValues
        BY <1>1, <2>1
      <3> QED BY <1>1, <2>1, <2>2, <3>1
    <2>4. hi >= 0
      <3>1. hi <= -1 => ByteValues * hi <= - ByteValues
        BY <1>1, <2>1
      <3> QED BY <1>1, <2>1, <2>2, <3>1
    <2> QED BY <1>1, <2>1, <2>3, <2>4
  <1>4. ASSUME NEW h \in 0 .. ByteValues - 1, NEW l \in 0 .. ByteValues - 1
        PROVE  h * ByteValues + l \in T!Values
    <2>1. h * ByteValues <= (ByteValues - 1) * ByteValues /\ h * ByteValues >= 0
      BY <1>1, <1>4
    <2> QED BY <1>1, <1>4, <2>1 DEF T!Values
  <1>5. lo + b * ByteValues = b * ByteValues + lo
    BY <1>1, <1>3
  <1> HIDE DEF hi, lo
  <1>6. hi * ByteValues + b \in T!Values /\ lo + b * ByteValues \in T!Values
    BY <1>1, <1>3, <1>4, <1>5
  <1> QED BY <1>6 DEF hi, lo

LEMMA TimerNextInv ==
  ASSUME TimerInv, T!Next
  PROVE  TimerInv'
  <1>1. ASSUME NEW b \in T!Bytes,
               \/ T!WriteReload((TimerReloadValue \div ByteValues) * ByteValues + b)
               \/ T!WriteReload((TimerReloadValue % ByteValues) + b * ByteValues)
        PROVE  TimerInv'
    BY <1>1, HalvesAreValues, WriteReloadInv
  <1>2. ASSUME NEW e \in BOOLEAN, NEW z \in BOOLEAN, NEW c \in BOOLEAN,
               NEW clear \in BOOLEAN, T!WriteControl(e, z, c, clear)
        PROVE  TimerInv'
    BY <1>2, WriteControlInv
  <1> QED BY <1>1, <1>2, TimerReadInv, TimerCycleInv, TimerEventInv, TimerEndFrameInv
          DEF T!Next, T!Program, T!Machine

-----------------------------------------------------------------------------
(* The lazy timer implements the one clocked every cycle. *)
LEMMA CaughtUpNext ==
  (TimerInv /\ TimerLastTS = timer_now)' => (Caught = T!Here)'
  <1>1. TimerInv /\ TimerLastTS = timer_now => Caught = T!Here
    BY CaughtUp
  <1> QED BY <1>1, PTL

LEMMA CycleCaught ==
  ASSUME TimerInv, T!Cycle
  PROVE  Caught' = IF ~TimerControl.enable THEN Caught
                   ELSE IF Caught.divider > 1 THEN Later(Caught, 1)
                   ELSE T!Expire(Later(Caught, 1))
  <1> DEFINE n == timer_now - TimerLastTS
  <1>1. /\ UNCHANGED << TimerControl, TimerReloadValue >> /\ T!Here' = T!Here
        /\ timer_now' = timer_now + 1 /\ TimerLastTS' = TimerLastTS
    BY DEF T!Cycle, T!timer, T!Here
  <1>2. TimerSane /\ T!Here \in TimerStates /\ n \in Nat /\ n + 1 \in Nat
    BY TimerSanity DEF TimerInv, T!TypeOK
  <1>3. CASE ~TimerControl.enable
    BY <1>1, <1>3 DEF Caught, T!Settled
  <1>4. CASE TimerControl.enable
    <2> DEFINE late == Later(T!Here, n)
    <2>1. Caught = T!Settle(late)
      BY <1>4 DEF Caught, T!Settled, Later
    <2>2. Caught' = T!Settle(Later(T!Here, n + 1))
      <3>1. \A x : T!Expire(x)' = T!Expire(x)
        BY <1>1 DEF T!Expire, T!Reloaded
      <3>2. [T!Here EXCEPT !.divider = @ - (timer_now - TimerLastTS)]' = Later(T!Here, n + 1)
        <4>1. timer_now' - TimerLastTS' = n + 1
          BY <1>1 DEF TimerInv, T!TypeOK
        <4> QED BY <1>1, <4>1 DEF Later
      <3>3. PICK x : x = Later(T!Here, n + 1)
        OBVIOUS
      <3>4. Caught' = T!Settle(x)'
        BY <1>1, <1>4, <3>2, <3>3 DEF Caught, T!Settled
      <3> QED BY <1>1, <3>3, <3>4, SettleKept
    <2>3. Later(T!Here, n + 1) = Later(late, 1) /\ late \in TimerStates
      BY <1>2, LaterFacts, LaterAgain
    <2>4. Caught' = T!Settle(Later(Caught, 1))
      <3> HIDE DEF late
      <3> QED BY <1>2, <2>1, <2>2, <2>3, SettleTwice
    <2>5. /\ Later(Caught, 1) \in TimerStates
          /\ Later(Caught, 1).divider = Caught.divider - 1 /\ Caught.divider \in Nat \ {0}
      <3>1. Caught \in TimerStates /\ Caught.divider \in Nat \ {0}
        BY CaughtFacts
      <3> QED BY <3>1, LaterFacts
    <2>6. CASE Caught.divider > 1
      <3>1. Later(Caught, 1).divider > 0
        BY <2>5, <2>6
      <3> QED BY <1>2, <1>4, <2>4, <2>5, <2>6, <3>1, SettleDone
    <2>7. CASE ~ (Caught.divider > 1)
      <3>1. ~ (Later(Caught, 1).divider > 0) /\ Later(Caught, 1).divider = 0
        BY <2>5, <2>7
      <3>2. T!Expire(Later(Caught, 1)) \in TimerStates /\ T!Expire(Later(Caught, 1)).divider > 0
        BY <1>2, <2>5, <3>1, ExpireFacts
      <3> QED BY <1>2, <1>4, <2>4, <2>5, <2>7, <3>1, <3>2, SettleDone, SettleOn
    <2> QED BY <2>6, <2>7
  <1> QED BY <1>3, <1>4

LEMMA TickInit ==
  ASSUME T!Init
  PROVE  T!TickByTick!Init
  <1>1. T!Settled(timer_now) = T!Here
    BY DEF T!Init, T!Settled
  <1> QED BY <1>1 DEF T!Init, T!Here, T!TickByTick!Init

(* A cycle of the timer is a cycle of the clocked one, counting or not. *)
LEMMA CycleTicks ==
  ASSUME TimerInv, T!Cycle
  PROVE  T!TickByTick!Idle \/ T!TickByTick!CountDown \/ T!TickByTick!Count
  <1>1. /\ UNCHANGED << TimerControl, TimerReloadValue >> /\ timer_now' = timer_now + 1
        /\ Caught = T!Settled(timer_now)
    BY DEF T!Cycle, T!timer, Caught
  <1>2. Caught \in TimerStates /\ Caught.divider \in Nat \ {0}
    BY CaughtFacts
  <1>3. CASE ~TimerControl.enable
    <2>1. Caught' = Caught
      BY <1>3, CycleCaught
    <2> QED BY <1>1, <1>3, <2>1 DEF Caught, T!TickByTick!Idle, T!TickByTick!regs
  <1>4. CASE TimerControl.enable /\ Caught.divider > 1
    <2>1. Caught' = Later(Caught, 1)
      BY <1>4, CycleCaught
    <2>2. /\ Caught'.divider = Caught.divider - 1 /\ Caught'.counter = Caught.counter
          /\ Caught'.status = Caught.status /\ Caught'.shadow = Caught.shadow
          /\ Caught'.pending = Caught.pending
      BY <1>2, <2>1 DEF Later, TimerStates
    <2> QED BY <1>1, <1>4, <2>2 DEF Caught, T!TickByTick!CountDown
  <1>5. CASE TimerControl.enable /\ ~ (Caught.divider > 1)
    <2> DEFINE last == Later(Caught, 1)
               from == IF Caught.counter = 0 \/ Caught.pending THEN TimerReloadValue ELSE Caught.counter
               count == IF from = 0 THEN 0 ELSE from - 1
               zero == count = 0 \/ Caught.status
    <2>1. Caught.divider = 1 /\ Caught' = T!Expire(last)
      BY <1>2, <1>5, CycleCaught
    <2>2. /\ last.divider = 0 /\ last.counter = Caught.counter /\ last.status = Caught.status
          /\ last.shadow = Caught.shadow /\ last.pending = Caught.pending
      BY <1>2, <2>1 DEF Later, TimerStates
    <2>3. IF TimerControl.clksel THEN FastPeriod \in Int ELSE SlowPeriod \in Int
      BY DevicesAssumption DEF DevicesAssumption, T!TimerAssumption
    <2>4. /\ Caught'.divider = IF TimerControl.clksel THEN FastPeriod ELSE SlowPeriod
          /\ Caught'.counter = count /\ Caught'.pending = FALSE
          /\ Caught'.status = (Caught.status \/ zero)
          /\ Caught'.shadow = (Caught.shadow \/ zero)
      <3> HIDE DEF last
      <3> QED BY <2>1, <2>2, <2>3 DEF T!Expire, T!Reloaded
    <2>5. Caught.status \in BOOLEAN /\ Caught.shadow \in BOOLEAN
      BY <1>2 DEF TimerStates
    <2>6. IF count = 0 \/ Caught.status THEN Caught'.status = TRUE /\ Caught'.shadow = TRUE
          ELSE Caught'.status = Caught.status /\ Caught'.shadow = Caught.shadow
      <3> HIDE DEF count
      <3> QED BY <2>4, <2>5
    <2>7. T!TickByTick!Count
      BY <1>1, <1>5, <2>1, <2>4, <2>6 DEF Caught, T!TickByTick!Count
    <2> QED BY <2>7
  <1> QED BY <1>3, <1>4, <1>5

(* A register access finds what it would find in the clocked timer. *)
LEMMA ReadTicks ==
  ASSUME TimerInv, T!Read \/ T!Event
  PROVE  UNCHANGED << T!TickByTick!regs, timer_now >>
  <1>1. Caught' = Caught
    BY TimerReadInv, TimerEventInv, CaughtUpNext
  <1>2. UNCHANGED << TimerControl, TimerReloadValue, timer_now >>
    BY DEF T!Read, T!Event
  <1> QED BY <1>1, <1>2 DEF Caught, T!TickByTick!regs

LEMMA EndFrameTicks ==
  ASSUME TimerInv, T!EndFrame
  PROVE  T!TickByTick!NewFrame
  <1>1. Caught' = Caught
    BY TimerEndFrameInv, CaughtUpNext
  <1>2. UNCHANGED << TimerControl, TimerReloadValue >> /\ timer_now' = 0
    BY DEF T!EndFrame
  <1> QED BY <1>1, <1>2 DEF Caught, T!TickByTick!NewFrame, T!TickByTick!regs

LEMMA WriteReloadTicks ==
  ASSUME TimerInv, NEW lo, NEW hi, NEW value \in T!Values,
         value = hi * ByteValues + lo, T!WriteReload(value)
  PROVE  T!TickByTick!SetReload(lo, hi)
  <1>1. Caught' = [Caught EXCEPT !.pending = TRUE]
    BY WriteReloadInv, CaughtUpNext
  <1>2. /\ Caught'.counter = Caught.counter /\ Caught'.divider = Caught.divider
        /\ Caught'.status = Caught.status /\ Caught'.shadow = Caught.shadow
        /\ Caught'.pending = TRUE
    BY <1>1, CaughtFacts DEF TimerStates
  <1>3. UNCHANGED << TimerControl, timer_now >> /\ TimerReloadValue' = hi * ByteValues + lo
    BY DEF T!WriteReload
  <1> QED BY <1>2, <1>3 DEF Caught, T!TickByTick!SetReload

LEMMA WriteControlTicks ==
  ASSUME TimerInv, NEW e \in BOOLEAN, NEW z \in BOOLEAN, NEW c \in BOOLEAN,
         NEW clear \in BOOLEAN, T!WriteControl(e, z, c, clear)
  PROVE  T!TickByTick!SetControl(e, z, c, clear)
  <1> DEFINE status == z /\ Caught.status /\ (clear => TimerControl.enable /\ Caught.counter = 0)
             shadow == z /\ Caught.shadow /\ ~clear
             divider == IF e /\ ~TimerControl.enable
                        THEN IF c THEN FastFirst ELSE SlowPeriod ELSE Caught.divider
  <1>1. Caught' = Controlled(e, z, c, clear)
    BY WriteControlInv, CaughtUpNext
  <1>2. /\ Caught'.counter = Caught.counter /\ Caught'.pending = Caught.pending
        /\ Caught'.status = status /\ Caught'.shadow = shadow /\ Caught'.divider = divider
    BY <1>1, CaughtFacts DEF Controlled, TimerStates
  <1>3. /\ TimerControl' = [enable |-> e, zint |-> z, clksel |-> c]
        /\ UNCHANGED << TimerReloadValue, timer_now >>
    BY DEF T!WriteControl
  <1> QED BY <1>2, <1>3 DEF Caught, T!TickByTick!SetControl

LEMMA TimerTicks ==
  ASSUME TimerInv, T!Next
  PROVE  [T!TickByTick!Next]_<< T!TickByTick!regs, timer_now >>
  <1>1. ASSUME NEW b \in T!Bytes,
               T!WriteReload((TimerReloadValue \div ByteValues) * ByteValues + b)
        PROVE  T!TickByTick!SetReload(b, TimerReloadValue \div ByteValues)
    BY <1>1, HalvesAreValues, WriteReloadTicks
  <1>2. ASSUME NEW b \in T!Bytes,
               T!WriteReload((TimerReloadValue % ByteValues) + b * ByteValues)
        PROVE  T!TickByTick!SetReload(TimerReloadValue % ByteValues, b)
    <2>1. /\ TimerReloadValue \in Nat /\ ByteValues \in Nat \ {0} /\ b \in Nat
      BY DevicesAssumption DEF DevicesAssumption, T!TimerAssumption, TimerInv, T!TypeOK,
         T!Values, T!Bytes
    <2>2. (TimerReloadValue % ByteValues) + b * ByteValues
            = b * ByteValues + (TimerReloadValue % ByteValues)
      BY <2>1
    <2> QED BY <1>2, <2>2, HalvesAreValues, WriteReloadTicks
  <1>3. ASSUME NEW e \in BOOLEAN, NEW z \in BOOLEAN, NEW c \in BOOLEAN,
               NEW clear \in BOOLEAN, T!WriteControl(e, z, c, clear)
        PROVE  T!TickByTick!SetControl(e, z, c, clear)
    BY <1>3, WriteControlTicks
  <1> QED BY <1>1, <1>2, <1>3, CycleTicks, ReadTicks, EndFrameTicks
          DEF T!Next, T!Program, T!Machine, T!TickByTick!Next, T!TickByTick!Bytes, T!Bytes

LEMMA TimerAtRest ==
  ASSUME UNCHANGED timer
  PROVE  /\ TimerInv => TimerInv'
         /\ UNCHANGED << T!TickByTick!regs, timer_now >>
  <1>1. TimerInv => TimerInv'
    BY DEF timer, TimerInv, T!TypeOK
  <1>2. UNCHANGED << TimerControl, TimerReloadValue, timer_now, TimerLastTS, T!Here >>
    BY DEF timer, T!Here
  <1>3. Caught' = Caught
    <2>1. \A x : T!Expire(x)' = T!Expire(x)
      BY <1>2 DEF T!Expire, T!Reloaded
    <2>2. PICK x : x = [T!Here EXCEPT !.divider = @ - (timer_now - TimerLastTS)]
      OBVIOUS
    <2>3. T!Settle(x)' = T!Settle(x)
      BY <1>2, SettleKept
    <2>4. [T!Here EXCEPT !.divider = @ - (timer_now - TimerLastTS)]' = x
      BY <1>2, <2>2
    <2> QED BY <1>2, <2>2, <2>3, <2>4 DEF Caught, T!Settled
  <1> QED BY <1>1, <1>2, <1>3 DEF Caught, timer, T!TickByTick!regs

(* What the interrupt controller hears of the timer. *)
LEMMA TimerLine ==
  ASSUME TimerInv
  PROVE  T!LineTracksTimer
  BY CaughtFacts DEF T!LineTracksTimer, Caught, TimerInv, T!TypeOK

-----------------------------------------------------------------------------
(* The game pad port.  The states that VBINPUT_Update's loop goes through, *)
(* its body, and a bound of the rounds still to come: the bits not yet     *)
(* shifted in.                                                             *)
PadStates == [counter : Int, pos : 0 .. Bits, sdr : I!Words, pending : BOOLEAN]

ShiftIn(r) == IF r.pos + 1 < Bits
              THEN [I!Shifted(r) EXCEPT !.counter = @ + BitPeriod]
              ELSE [I!Shifted(r) EXCEPT !.pending = @ \/ ~SCR.inhibit]

PadDone  == {r \in PadStates : r.counter > 0 \/ r.pos = Bits}
PadRound == [r \in PadStates |->
               IF r.counter > 0 \/ r.pos = Bits THEN r ELSE ShiftIn(r)]
PadBound == [r \in PadStates |-> Bits - r.pos]

PadSane ==
  /\ SCR \in [disabled : BOOLEAN, inhibit : BOOLEAN]
  /\ Bits \in Nat \ {0} /\ BitPeriod \in Nat \ {0}
  /\ PadLatched \in I!Words

Sooner(r, n) == [r EXCEPT !.counter = @ - n]

LEMMA SoonerFacts ==
  ASSUME NEW r \in PadStates, NEW n \in Nat
  PROVE  /\ Sooner(r, n) \in PadStates /\ Sooner(r, n).counter = r.counter - n
         /\ Sooner(r, n).pos = r.pos /\ Sooner(r, n).sdr = r.sdr
         /\ Sooner(r, n).pending = r.pending
         /\ Sooner(r, n) = [counter |-> r.counter - n, pos |-> r.pos, sdr |-> r.sdr,
                            pending |-> r.pending]
  BY DEF Sooner, PadStates

(* One bit: the state after it, as a record. *)
LEMMA ShiftInIs ==
  ASSUME PadSane, NEW r \in PadStates, r.pos # Bits
  PROVE  /\ ShiftIn(r) \in PadStates
         /\ ShiftIn(r) =
              [counter |-> IF r.pos + 1 < Bits THEN r.counter + BitPeriod ELSE r.counter,
               pos     |-> r.pos + 1,
               sdr     |-> (r.sdr \ {r.pos}) \union (PadLatched \intersect {r.pos}),
               pending |-> IF r.pos + 1 < Bits THEN r.pending ELSE r.pending \/ ~SCR.inhibit]
  <1> DEFINE word == (r.sdr \ {r.pos}) \union (PadLatched \intersect {r.pos})
             asked == r.pending \/ ~SCR.inhibit
  <1>1. /\ r.counter \in Int /\ r.pos \in 0 .. Bits /\ r.sdr \in I!Words
        /\ r.pending \in BOOLEAN /\ r.pos + 1 \in 0 .. Bits /\ asked \in BOOLEAN
        /\ r.counter + BitPeriod \in Int
    BY DEF PadStates, PadSane
  <1>2. word \in I!Words
    BY <1>1 DEF I!Words, PadSane
  <1>3. I!Shifted(r) = [counter |-> r.counter, pos |-> r.pos + 1, sdr |-> word,
                        pending |-> r.pending]
    <2>1. I!Shifted(r) = [r EXCEPT !.sdr = word, !.pos = r.pos + 1]
      BY DEF I!Shifted
    <2> HIDE DEF word
    <2> QED BY <2>1 DEF PadStates
  <1> HIDE DEF word, asked
  <1>4. ShiftIn(r) = [counter |-> IF r.pos + 1 < Bits THEN r.counter + BitPeriod ELSE r.counter,
                      pos |-> r.pos + 1, sdr |-> word,
                      pending |-> IF r.pos + 1 < Bits THEN r.pending ELSE asked]
    BY <1>3 DEF ShiftIn, asked
  <1>5. ShiftIn(r) \in PadStates
    BY <1>1, <1>2, <1>4 DEF PadStates
  <1> QED BY <1>4, <1>5 DEF word, asked

LEMMA ShiftInFacts ==
  ASSUME PadSane, NEW r \in PadStates, r.pos # Bits, ~ (r.counter > 0)
  PROVE  /\ ShiftIn(r).pos = r.pos + 1
         /\ ShiftIn(r).counter >= r.counter /\ ShiftIn(r).counter <= BitPeriod
         /\ ShiftIn(r).counter > 0 => ShiftIn(r).pos < Bits
         /\ \A n \in Nat : Sooner(ShiftIn(r), n) = ShiftIn(Sooner(r, n))
  <1>1. r.counter \in Int /\ r.pos \in 0 .. Bits /\ Bits \in Nat /\ BitPeriod \in Nat \ {0}
    BY DEF PadStates, PadSane
  <1>2. /\ ShiftIn(r).pos = r.pos + 1
        /\ ShiftIn(r).counter = IF r.pos + 1 < Bits THEN r.counter + BitPeriod ELSE r.counter
    BY ShiftInIs
  <1>3. ASSUME NEW n \in Nat PROVE Sooner(ShiftIn(r), n) = ShiftIn(Sooner(r, n))
    <2> DEFINE word == (r.sdr \ {r.pos}) \union (PadLatched \intersect {r.pos})
               asked == IF r.pos + 1 < Bits THEN r.pending ELSE r.pending \/ ~SCR.inhibit
    <2>1. ShiftIn(r) \in PadStates /\ ShiftIn(r).sdr = word /\ ShiftIn(r).pending = asked
      BY ShiftInIs
    <2>2. Sooner(ShiftIn(r), n) = [counter |-> ShiftIn(r).counter - n, pos |-> r.pos + 1,
                                   sdr |-> word, pending |-> asked]
      BY <1>2, <2>1, SoonerFacts
    <2>3. /\ Sooner(r, n) \in PadStates /\ Sooner(r, n).counter = r.counter - n
          /\ Sooner(r, n).pos = r.pos /\ Sooner(r, n).sdr = r.sdr
          /\ Sooner(r, n).pending = r.pending
      BY SoonerFacts
    <2>4. ShiftIn(Sooner(r, n)) =
            [counter |-> IF r.pos + 1 < Bits THEN (r.counter - n) + BitPeriod ELSE r.counter - n,
             pos |-> r.pos + 1, sdr |-> word, pending |-> asked]
      BY <2>3, ShiftInIs
    <2>5. (IF r.pos + 1 < Bits THEN (r.counter - n) + BitPeriod ELSE r.counter - n)
            = ShiftIn(r).counter - n
      BY <1>1, <1>2
    <2> QED BY <2>2, <2>4, <2>5
  <1> QED BY <1>1, <1>2, <1>3

LEMMA PadTerminates ==
  ASSUME PadSane
  PROVE  Terminates(PadStates, PadRound, PadDone, PadBound)
  <1>1. PadRound \in [PadStates -> PadStates]
    BY ShiftInIs DEF PadRound
  <1>2. PadBound \in [PadStates -> Nat]
    BY DEF PadBound, PadStates, PadSane
  <1>3. ASSUME NEW r \in PadStates \ PadDone
        PROVE  PadBound[PadRound[r]] < PadBound[r]
    <2>1. r.pos \in 0 .. Bits /\ r.pos # Bits /\ ~ (r.counter > 0) /\ Bits \in Nat
      BY <1>3 DEF PadDone, PadStates, PadSane
    <2>2. PadRound[r] = ShiftIn(r) /\ ShiftIn(r) \in PadStates /\ ShiftIn(r).pos = r.pos + 1
      BY <2>1, ShiftInIs, ShiftInFacts DEF PadRound
    <2>3. PadBound[PadRound[r]] = Bits - (r.pos + 1) /\ PadBound[r] = Bits - r.pos
      BY <2>2 DEF PadBound
    <2> QED BY <2>1, <2>3
  <1> QED BY <1>1, <1>2, <1>3 DEF Terminates, PadDone, PadRound

(* AfterShifting is that loop. *)
PadEnd == [r \in PadStates |-> I!AfterShifting(r)]

LEMMA ShiftingLoops ==
  ASSUME PadSane
  PROVE  EndsIn(PadStates, PadRound, PadBound, PadEnd)
  <1> SUFFICES ASSUME NEW r \in PadStates
               PROVE  \E g, n : /\ Repeats(PadStates, PadRound, r, g)
                               /\ n \in Nat /\ n >= PadBound[r] /\ PadEnd[r] = g[n]
    BY DEF EndsIn
  <1>1. PadRound \in [PadStates -> PadStates]
    BY PadTerminates DEF Terminates
  <1>2. PICK g : Repeats(PadStates, PadRound, r, g)
    BY <1>1, Repetition
  <1> DEFINE Round(x) == IF x.counter > 0 \/ x.pos = Bits THEN x
                         ELSE IF x.pos + 1 < Bits
                              THEN [I!Shifted(x) EXCEPT !.counter = @ + BitPeriod]
                              ELSE [I!Shifted(x) EXCEPT !.pending = @ \/ ~SCR.inhibit]
  <1> DEFINE after[n \in Nat] == IF n = 0 THEN r ELSE Round(after[n - 1])
  <1>3. PadEnd[r] = after[Bits]
    BY DEF PadEnd, I!AfterShifting, I!Raised
  <1>4. \A x \in PadStates : PadRound[x] = Round(x)
    BY DEF PadRound, ShiftIn
  <1> HIDE DEF Round
  <1>5. g = [n \in Nat |-> IF n = 0 THEN r ELSE Round(g[n - 1])]
    <2>1. ASSUME NEW n \in Nat PROVE g[n] = IF n = 0 THEN r ELSE Round(g[n - 1])
      <3>1. CASE n = 0
        BY <1>2, <3>1 DEF Repeats
      <3>2. CASE n # 0
        <4>1. n - 1 \in Nat /\ (n - 1) + 1 = n
          BY <3>2
        <4> QED BY <1>2, <1>4, <3>2, <4>1 DEF Repeats
      <3> QED BY <3>1, <3>2
    <2> QED BY <1>2, <2>1 DEF Repeats
  <1>6. after = [n \in Nat |-> IF n = 0 THEN r ELSE Round(after[n - 1])]
    <2> DEFINE P(h) == h = [n \in Nat |-> IF n = 0 THEN r ELSE Round(h[n - 1])]
    <2>1. P(g)
      BY <1>5
    <2>2. after = CHOOSE h : P(h)
      OBVIOUS
    <2> HIDE DEF P, after
    <2>3. P(after)
      BY <2>1, <2>2
    <2> QED BY <2>3 DEF P
  <1> HIDE DEF after
  <1>7. Repeats(PadStates, PadRound, r, after)
    <2>1. \A n \in Nat : after[n] = IF n = 0 THEN r ELSE Round(after[n - 1])
      BY <1>6
    <2>2. after[0] = r
      BY <2>1
    <2>3. ASSUME NEW n \in Nat, after[n] \in PadStates
          PROVE  after[n + 1] = PadRound[after[n]]
      <3>1. n + 1 \in Nat /\ n + 1 # 0 /\ (n + 1) - 1 = n
        OBVIOUS
      <3>2. after[n + 1] = Round(after[n])
        BY <2>1, <3>1
      <3> QED BY <1>4, <2>3, <3>2
    <2>4. after = [n \in Nat |-> after[n]]
      BY <1>6
    <2> QED BY <1>1, <2>2, <2>3, <2>4, Follows
  <1>8. Bits \in Nat /\ Bits >= PadBound[r]
    BY DEF PadBound, PadStates, PadSane
  <1> QED BY <1>3, <1>7, <1>8

LEMMA ShiftDone ==
  ASSUME PadSane, NEW r \in PadStates, r.counter > 0 \/ r.pos = Bits
  PROVE  I!AfterShifting(r) = r
  <1>1. PadEnd[r] = r
    BY PadTerminates, ShiftingLoops, LoopEnds DEF PadDone
  <1> QED BY <1>1 DEF PadEnd

LEMMA ShiftOn ==
  ASSUME PadSane, NEW r \in PadStates, ~ (r.counter > 0), r.pos # Bits
  PROVE  I!AfterShifting(ShiftIn(r)) = I!AfterShifting(r)
  <1>1. PadEnd[PadRound[r]] = PadEnd[r]
    BY PadTerminates, ShiftingLoops, LoopEnds
  <1>2. PadRound[r] = ShiftIn(r) /\ ShiftIn(r) \in PadStates
    BY ShiftInIs DEF PadRound
  <1> QED BY <1>1, <1>2 DEF PadEnd

(* What an update leaves: no bit due, the time to the next no longer than  *)
(* a period unless it was before, and bits to come if one is timed.        *)
ShiftedWell(r, s) ==
  /\ s \in PadStates
  /\ s.counter > 0 \/ s.pos = Bits
  /\ s.counter >= r.counter
  /\ s.counter <= r.counter \/ s.counter <= BitPeriod
  /\ (r.counter > 0 => r.pos < Bits) => (s.counter > 0 => s.pos < Bits)

LEMMA ShiftedThrough ==
  ASSUME PadSane, NEW r \in PadStates, NEW q \in PadStates, NEW s,
         q.counter >= r.counter, q.counter <= BitPeriod,
         q.counter > 0 => q.pos < Bits, ShiftedWell(q, s)
  PROVE  ShiftedWell(r, s)
  <1>1. /\ s \in PadStates
        /\ s.counter > 0 \/ s.pos = Bits
        /\ s.counter >= q.counter
        /\ s.counter <= q.counter \/ s.counter <= BitPeriod
        /\ s.counter > 0 => s.pos < Bits
    BY DEF ShiftedWell
  <1>2. s.counter \in Int /\ q.counter \in Int /\ r.counter \in Int /\ BitPeriod \in Int
    BY <1>1 DEF PadStates, PadSane
  <1>3. s.counter <= BitPeriod /\ s.counter >= r.counter
    BY <1>1, <1>2
  <1> QED BY <1>1, <1>3 DEF ShiftedWell

LEMMA ShiftingFacts ==
  ASSUME PadSane, NEW r \in PadStates
  PROVE  ShiftedWell(r, I!AfterShifting(r))
  <1> DEFINE G == {x \in PadStates : ShiftedWell(x, I!AfterShifting(x))}
  <1>1. ASSUME NEW x \in PadDone PROVE x \in G
    <2>1. x \in PadStates /\ (x.counter > 0 \/ x.pos = Bits) /\ x.counter \in Int
      BY DEF PadDone, PadStates
    <2>2. I!AfterShifting(x) = x
      BY <2>1, ShiftDone
    <2> QED BY <2>1, <2>2 DEF ShiftedWell
  <1>2. ASSUME NEW x \in PadStates \ PadDone, PadRound[x] \in G PROVE x \in G
    <2>1. x \in PadStates /\ ~ (x.counter > 0) /\ x.pos # Bits
      BY DEF PadDone
    <2>2. /\ ShiftIn(x) \in PadStates
          /\ ShiftIn(x).counter >= x.counter /\ ShiftIn(x).counter <= BitPeriod
          /\ ShiftIn(x).counter > 0 => ShiftIn(x).pos < Bits
      BY <2>1, ShiftInIs, ShiftInFacts
    <2>3. ShiftedWell(ShiftIn(x), I!AfterShifting(x))
      <3>1. PadRound[x] = ShiftIn(x)
        BY <2>1 DEF PadRound
      <3>2. I!AfterShifting(ShiftIn(x)) = I!AfterShifting(x)
        BY <2>1, ShiftOn
      <3> QED BY <1>2, <3>1, <3>2
    <2>4. ShiftedWell(x, I!AfterShifting(x))
      BY <2>1, <2>2, <2>3, ShiftedThrough
    <2> QED BY <2>1, <2>4
  <1>3. G = PadStates
    <2>1. G \in SUBSET PadStates /\ PadDone \subseteq G
      BY <1>1
    <2> HIDE DEF G
    <2> QED BY <1>2, <2>1, PadTerminates, LoopInduction
  <1> QED BY <1>3

LEMMA ShiftTwice ==
  ASSUME PadSane, NEW r \in PadStates, NEW n \in Nat
  PROVE  I!AfterShifting(Sooner(I!AfterShifting(r), n)) = I!AfterShifting(Sooner(r, n))
  <1> DEFINE G == {x \in PadStates :
                     I!AfterShifting(Sooner(I!AfterShifting(x), n)) = I!AfterShifting(Sooner(x, n))}
  <1>1. ASSUME NEW x \in PadDone PROVE x \in G
    BY ShiftDone DEF PadDone
  <1>2. ASSUME NEW x \in PadStates \ PadDone, PadRound[x] \in G PROVE x \in G
    <2>1. x \in PadStates /\ ~ (x.counter > 0) /\ x.counter \in Int /\ x.pos # Bits
      BY DEF PadDone, PadStates
    <2>2. PadRound[x] = ShiftIn(x)
      BY <2>1 DEF PadRound
    <2>3. I!AfterShifting(Sooner(I!AfterShifting(ShiftIn(x)), n))
            = I!AfterShifting(Sooner(ShiftIn(x), n))
      BY <1>2, <2>2
    <2>4. Sooner(ShiftIn(x), n) = ShiftIn(Sooner(x, n))
      BY <2>1, ShiftInFacts
    <2>5. I!AfterShifting(ShiftIn(x)) = I!AfterShifting(x)
      BY <2>1, ShiftOn
    <2>6. I!AfterShifting(ShiftIn(Sooner(x, n))) = I!AfterShifting(Sooner(x, n))
      <3>1. /\ Sooner(x, n) \in PadStates /\ ~ (Sooner(x, n).counter > 0)
            /\ Sooner(x, n).pos # Bits
        BY <2>1, SoonerFacts
      <3> QED BY <3>1, ShiftOn
    <2> QED BY <2>1, <2>3, <2>4, <2>5, <2>6
  <1>3. G = PadStates
    <2>1. G \in SUBSET PadStates /\ PadDone \subseteq G
      BY <1>1
    <2> HIDE DEF G
    <2> QED BY <1>2, <2>1, PadTerminates, LoopInduction
  <1> QED BY <1>3

(* Where an update leads depends on the buttons latched and the inhibit    *)
(* bit only.                                                               *)
LEMMA ShiftingLoopsNext ==
  PadSane' => (\A S, f, m, end : << S, f, m, end >> = << PadStates, PadRound, PadBound, PadEnd >>
                                   => EndsIn(S, f, m, end))'
  <1>1. PadSane => \A S, f, m, end :
                     << S, f, m, end >> = << PadStates, PadRound, PadBound, PadEnd >>
                       => EndsIn(S, f, m, end)
    BY ShiftingLoops
  <1> QED BY <1>1, PTL

LEMMA ShiftingKept ==
  ASSUME PadSane, UNCHANGED << PadLatched, SCR >>, NEW r \in PadStates
  PROVE  I!AfterShifting(r)' = I!AfterShifting(r)
  <1>1. PadSane'
    BY DEF PadSane
  <1>2. PadRound' = PadRound
    <2>1. \A x : ShiftIn(x)' = ShiftIn(x)
      BY DEF ShiftIn, I!Shifted
    <2> QED BY <2>1 DEF PadRound
  <1>3. PadStates' = PadStates /\ PadBound' = PadBound
    BY DEF PadStates, PadBound
  <1>4. EndsIn(PadStates, PadRound, PadBound, PadEnd')
    BY <1>1, <1>2, <1>3, ShiftingLoopsNext
  <1>5. PadEnd'[r] = PadEnd[r]
    BY <1>4, PadTerminates, ShiftingLoops, SameEnds
  <1> QED BY <1>3, <1>5 DEF PadEnd

-----------------------------------------------------------------------------
(* The port's invariant: besides the types, an event scheduled for the     *)
(* next bit or earlier, which is a property of its own.                    *)
PadInv == I!TypeOK /\ I!NextBitIsScheduled

(* The port as it is, and if it were brought up to date now. *)
PadHere == [counter |-> ReadCounter, pos |-> ReadBitPos, sdr |-> SDR,
            pending |-> IntPending]
PadNow  == I!Updated(pad_now)

LEMMA PadSanity ==
  ASSUME PadInv
  PROVE  /\ PadSane /\ PadHere \in PadStates
         /\ PadHere.counter = ReadCounter /\ PadHere.pos = ReadBitPos
  BY DevicesAssumption DEF DevicesAssumption, I!InputAssumption, PadInv, I!TypeOK,
     PadSane, PadHere, PadStates

LEMMA PadNowIs ==
  PadNow = IF ReadCounter > 0 THEN I!AfterShifting(Sooner(PadHere, pad_now - last_ts))
                              ELSE PadHere
  BY DEF PadNow, I!Updated, PadHere, Sooner

LEMMA PadNowFacts ==
  ASSUME PadInv
  PROVE  /\ PadNow \in PadStates
         /\ PadNow.counter \in - PadFrame .. BitPeriod
         /\ PadNow.counter > 0 => PadNow.pos < Bits
         /\ ReadCounter > 0 => PadNow.counter > 0 \/ PadNow.pos = Bits
  <1> DEFINE n == pad_now - last_ts   late == Sooner(PadHere, n)
  <1>1. /\ PadSane /\ PadHere \in PadStates
        /\ PadHere.counter = ReadCounter /\ PadHere.pos = ReadBitPos
        /\ ReadCounter \in - PadFrame .. BitPeriod
        /\ ReadCounter > 0 => ReadBitPos < Bits
        /\ n \in 0 .. PadFrame /\ PadFrame \in Nat \ {0} /\ BitPeriod \in Nat \ {0}
    BY PadSanity, DevicesAssumption DEF PadInv, I!TypeOK, DevicesAssumption, I!InputAssumption
  <1>2. CASE ~ (ReadCounter > 0)
    BY <1>1, <1>2, PadNowIs
  <1>3. CASE ReadCounter > 0
    <2>1. /\ late \in PadStates /\ late.counter = ReadCounter - n /\ late.pos = ReadBitPos
          /\ PadNow = I!AfterShifting(late)
      BY <1>1, <1>3, SoonerFacts, PadNowIs, SMTT(60)
    <2>2. ShiftedWell(late, PadNow)
      BY <1>1, <2>1, ShiftingFacts
    <2> HIDE DEF late
    <2>3. /\ PadNow \in PadStates
          /\ PadNow.counter > 0 \/ PadNow.pos = Bits
          /\ PadNow.counter >= late.counter
          /\ PadNow.counter <= late.counter \/ PadNow.counter <= BitPeriod
          /\ PadNow.counter > 0 => PadNow.pos < Bits
      <3>1. late.counter > 0 => late.pos < Bits
        BY <1>1, <1>3, <2>1
      <3> QED BY <2>2, <3>1 DEF ShiftedWell
    <2>4. PadNow.counter \in Int
      BY <2>3 DEF PadStates
    <2>5. PadNow.counter \in - PadFrame .. BitPeriod
      BY <1>1, <1>3, <2>1, <2>3, <2>4
    <2> QED BY <2>3, <2>5
  <1> QED BY <1>2, <1>3

LEMMA PadUpToDate ==
  ASSUME PadInv, last_ts = pad_now
  PROVE  PadNow = PadHere
  <1>1. PadSane /\ PadHere \in PadStates /\ PadHere.counter = ReadCounter
    BY PadSanity
  <1>2. Sooner(PadHere, pad_now - last_ts) = PadHere
    BY <1>1 DEF Sooner, PadHere, PadInv, I!TypeOK
  <1> QED BY <1>1, <1>2, PadNowIs, ShiftDone

LEMMA PadUpToDateNext ==
  (PadInv /\ last_ts = pad_now)' => (PadNow = PadHere)'
  <1>1. PadInv /\ last_ts = pad_now => PadNow = PadHere
    BY PadUpToDate
  <1> QED BY <1>1, PTL

LEMMA PadInitInv ==
  ASSUME I!Init
  PROVE  PadInv
  <1>1. {} \in I!Words
    BY DEF I!Words
  <1>2. Bits \in Nat \ {0} /\ PadFrame \in Nat /\ BitPeriod \in Nat /\ NoEvent \in Nat
    BY DevicesAssumption DEF DevicesAssumption, I!InputAssumption
  <1>3. SCR \in [disabled : BOOLEAN, inhibit : BOOLEAN]
    BY DEF I!Init
  <1>4. /\ ReadBitPos \in 0 .. Bits /\ ReadCounter \in - PadFrame .. BitPeriod
        /\ ~ (ReadCounter > 0) /\ IntPending \in BOOLEAN
        /\ last_ts \in 0 .. pad_now /\ pad_now \in 0 .. PadFrame
        /\ next_input_ts \in 0 .. NoEvent
    <2>1. /\ ReadBitPos = 0 /\ ReadCounter = 0 /\ IntPending = FALSE /\ last_ts = 0
          /\ next_input_ts = NoEvent /\ pad_now = 0
      BY DEF I!Init
    <2>2. 0 \in 0 .. Bits /\ 0 \in - PadFrame .. BitPeriod /\ 0 \in 0 .. PadFrame
          /\ NoEvent \in 0 .. NoEvent /\ 0 \in 0 .. 0 /\ ~ (0 > 0)
      BY <1>2
    <2> QED BY <2>1, <2>2
  <1>5. PadData \in I!Words /\ PadLatched \in I!Words /\ SDR \in I!Words
    BY <1>1 DEF I!Init
  <1> QED BY <1>3, <1>4, <1>5 DEF PadInv, I!TypeOK, I!NextBitIsScheduled

(* What an access or an update stores keeps the invariant, with the event  *)
(* scheduled accordingly.                                                  *)
LEMMA PadStoreInv ==
  ASSUME PadInv, NEW s \in PadStates, I!Store(s),
         s.counter \in - PadFrame .. BitPeriod, s.counter > 0 => s.pos < Bits,
         PadData' \in I!Words, PadLatched' \in I!Words,
         SCR' \in [disabled : BOOLEAN, inhibit : BOOLEAN],
         pad_now' \in 0 .. PadFrame, last_ts' = pad_now',
         next_input_ts' = IF s.counter > 0 THEN pad_now' + s.counter ELSE NoEvent
  PROVE  PadInv' /\ PadHere' = s
  <1>1. /\ ReadCounter' = s.counter /\ ReadBitPos' = s.pos
        /\ SDR' = s.sdr /\ IntPending' = s.pending
    BY DEF I!Store
  <1>2. PadHere' = s
    BY <1>1 DEF PadHere, PadStates
  <1>3. /\ s.pos \in 0 .. Bits /\ s.sdr \in I!Words /\ s.pending \in BOOLEAN
        /\ s.counter \in Int
    BY DEF PadStates
  <1>4. next_input_ts' \in 0 .. NoEvent /\ pad_now' \in Nat
    BY <1>3, DevicesAssumption DEF DevicesAssumption, I!InputAssumption
  <1>5. I!TypeOK'
    BY <1>1, <1>3, <1>4 DEF I!TypeOK, I!Words
  <1>6. I!NextBitIsScheduled'
    BY <1>1, <1>3, <1>4 DEF I!NextBitIsScheduled
  <1> QED BY <1>2, <1>5, <1>6 DEF PadInv

LEMMA PadCycleInv ==
  ASSUME PadInv, I!Cycle
  PROVE  PadInv'
  BY DevicesAssumption DEF PadInv, I!TypeOK, I!NextBitIsScheduled, I!Cycle, I!serial,
     DevicesAssumption, I!InputAssumption

LEMMA PadReadInv ==
  ASSUME PadInv, I!Read \/ I!Event \/ I!EndFrame
  PROVE  PadInv' /\ PadNow' = PadNow
  <1>1. I!Store(PadNow)
    BY DEF I!Read, I!Event, I!EndFrame, PadNow
  <1>2. /\ PadNow \in PadStates /\ PadNow.counter \in - PadFrame .. BitPeriod
        /\ PadNow.counter > 0 => PadNow.pos < Bits
    BY PadNowFacts
  <1>3. /\ PadData' \in I!Words /\ PadLatched' \in I!Words
        /\ SCR' \in [disabled : BOOLEAN, inhibit : BOOLEAN]
    BY DEF I!Read, I!Event, I!EndFrame, PadInv, I!TypeOK
  <1>4. pad_now' \in 0 .. PadFrame /\ last_ts' = pad_now'
    BY DevicesAssumption DEF I!Read, I!Event, I!EndFrame, I!ResetTS, PadInv, I!TypeOK,
       DevicesAssumption, I!InputAssumption
  <1>5. next_input_ts' = IF PadNow.counter > 0 THEN pad_now' + PadNow.counter ELSE NoEvent
    <2>1. ReadCounter' = PadNow.counter
      BY <1>1 DEF I!Store
    <2> QED BY <2>1 DEF I!Read, I!Event, I!EndFrame, I!Scheduled, I!Deadline
  <1>6. PadInv' /\ PadHere' = PadNow
    <2> HIDE DEF PadNow
    <2> QED BY <1>1, <1>2, <1>3, <1>4, <1>5, PadStoreInv
  <1>7. PadNow' = PadHere'
    BY <1>4, <1>6, PadUpToDateNext
  <1> QED BY <1>6, <1>7

(* What a control write leaves of the port brought up to date. *)
Begins(start) == start /\ ~SCR.disabled /\ PadNow.counter <= 0

Commanded(start, abort, inhibit) ==
  [counter |-> IF abort THEN 0 ELSE IF Begins(start) THEN BitPeriod ELSE PadNow.counter,
   pos     |-> IF abort \/ Begins(start) THEN 0 ELSE PadNow.pos,
   sdr     |-> PadNow.sdr,
   pending |-> PadNow.pending /\ ~inhibit]

LEMMA PadWriteInv ==
  ASSUME PadInv, NEW start \in BOOLEAN, NEW abort \in BOOLEAN, NEW inhibit \in BOOLEAN,
         I!Write(start, abort, inhibit)
  PROVE  PadInv' /\ PadNow' = Commanded(start, abort, inhibit)
  <1> DEFINE s == Commanded(start, abort, inhibit)
  <1>1. I!Store(s)
    BY DEF I!Write, Commanded, Begins, PadNow
  <1>2. PadNow \in PadStates /\ PadNow.counter \in - PadFrame .. BitPeriod
        /\ (PadNow.counter > 0 => PadNow.pos < Bits)
        /\ Bits \in Nat \ {0} /\ BitPeriod \in Nat \ {0} /\ PadFrame \in Nat
    BY PadNowFacts, DevicesAssumption DEF DevicesAssumption, I!InputAssumption
  <1>3. s.counter \in - PadFrame .. BitPeriod /\ (s.counter > 0 => s.pos < Bits)
        /\ s.pos \in 0 .. Bits
    BY <1>2 DEF Commanded, PadStates
  <1>4. s \in PadStates
    <2>1. s.sdr \in I!Words /\ s.pending \in BOOLEAN /\ s.counter \in Int
      BY <1>2, <1>3 DEF Commanded, PadStates
    <2> QED BY <1>3, <2>1 DEF Commanded, PadStates
  <1>5. /\ PadData' \in I!Words /\ PadLatched' \in I!Words
        /\ SCR' \in [disabled : BOOLEAN, inhibit : BOOLEAN]
        /\ pad_now' \in 0 .. PadFrame /\ last_ts' = pad_now'
    BY DEF I!Write, I!Latch, PadInv, I!TypeOK
  <1>6. next_input_ts' = IF s.counter > 0 THEN pad_now' + s.counter ELSE NoEvent
    <2>1. ReadCounter' = s.counter
      BY <1>1 DEF I!Store
    <2> QED BY <2>1 DEF I!Write, I!Scheduled, I!Deadline
  <1>7. PadInv' /\ PadHere' = s
    <2> HIDE DEF s
    <2> QED BY <1>1, <1>3, <1>4, <1>5, <1>6, PadStoreInv
  <1>8. PadNow' = PadHere'
    BY <1>5, <1>7, PadUpToDateNext
  <1> QED BY <1>7, <1>8

(* The same variables bring the port up to date the same way. *)
LEMMA PadNowKept ==
  ASSUME PadInv, UNCHANGED << PadLatched, SCR, PadHere, ReadCounter, last_ts, pad_now >>
  PROVE  PadNow' = PadNow
  <1>1. PadSane /\ PadHere \in PadStates /\ PadHere.counter = ReadCounter
        /\ pad_now - last_ts \in Nat
    BY PadSanity DEF PadInv, I!TypeOK
  <1>2. PICK x \in PadStates : x = Sooner(PadHere, pad_now - last_ts)
    BY <1>1, SoonerFacts
  <1>3. I!AfterShifting(x)' = I!AfterShifting(x)
    BY <1>1, ShiftingKept
  <1>4. Sooner(PadHere, pad_now - last_ts)' = x
    BY <1>2 DEF Sooner
  <1>5. PadNow' = IF ReadCounter' > 0 THEN I!AfterShifting(x)' ELSE PadHere'
    <2>1. (PadNow = IF ReadCounter > 0 THEN I!AfterShifting(Sooner(PadHere, pad_now - last_ts))
                                       ELSE PadHere)'
      BY PadNowIs, PTL
    <2> QED BY <1>4, <2>1
  <1> QED BY <1>2, <1>3, <1>5, PadNowIs

LEMMA PadFrameInv ==
  ASSUME PadInv, I!Frame
  PROVE  PadInv' /\ PadNow' = PadNow
  <1>1. PadInv'
    BY DEF PadInv, I!TypeOK, I!NextBitIsScheduled, I!Frame, I!serial
  <1>2. UNCHANGED << PadLatched, SCR, PadHere, ReadCounter, last_ts, pad_now >>
    BY DEF I!Frame, I!serial, PadHere
  <1> QED BY <1>1, <1>2, PadNowKept

LEMMA PadNextInv ==
  ASSUME PadInv, I!Next
  PROVE  PadInv'
  BY PadCycleInv, PadReadInv, PadWriteInv, PadFrameInv DEF I!Next, I!Program

-----------------------------------------------------------------------------
(* The lazy port implements the one clocked every cycle. *)
LEMMA PadCycleNow ==
  ASSUME PadInv, I!Cycle
  PROVE  PadNow' = IF ~ (ReadCounter > 0) THEN PadNow
                   ELSE IF PadNow.counter = 1 THEN ShiftIn(Sooner(PadNow, 1))
                   ELSE Sooner(PadNow, 1)
  <1> DEFINE n == pad_now - last_ts
  <1>1. /\ UNCHANGED << PadLatched, SCR, PadHere, ReadCounter >>
        /\ pad_now' = pad_now + 1 /\ last_ts' = last_ts
    BY DEF I!Cycle, I!serial, PadHere
  <1>2. PadSane /\ PadHere \in PadStates /\ n \in Nat /\ n + 1 \in Nat
        /\ pad_now' - last_ts' = n + 1
    BY <1>1, PadSanity DEF PadInv, I!TypeOK
  <1>3. (PadNow = IF ReadCounter > 0 THEN I!AfterShifting(Sooner(PadHere, pad_now - last_ts))
                                     ELSE PadHere)'
    BY PadNowIs, PTL
  <1>4. CASE ~ (ReadCounter > 0)
    BY <1>1, <1>3, <1>4, PadNowIs
  <1>5. CASE ReadCounter > 0
    <2>1. PICK late \in PadStates : late = Sooner(PadHere, n)
      BY <1>2, SoonerFacts
    <2>2. PadNow = I!AfterShifting(late)
      BY <1>5, <2>1, PadNowIs
    <2>3. Sooner(PadHere, n + 1) = Sooner(late, 1) /\ Sooner(late, 1) \in PadStates
      <3>1. /\ late.counter = PadHere.counter - n /\ late.pos = PadHere.pos
            /\ late.sdr = PadHere.sdr /\ late.pending = PadHere.pending
        BY <1>2, <2>1, SoonerFacts
      <3>2. (PadHere.counter - n) - 1 = PadHere.counter - (n + 1)
        BY <1>2 DEF PadStates
      <3>3. Sooner(PadHere, n + 1) =
              [counter |-> PadHere.counter - (n + 1), pos |-> PadHere.pos, sdr |-> PadHere.sdr,
               pending |-> PadHere.pending]
        BY <1>2, SoonerFacts
      <3>4. /\ Sooner(late, 1) \in PadStates
            /\ Sooner(late, 1) =
                 [counter |-> late.counter - 1, pos |-> late.pos, sdr |-> late.sdr,
                  pending |-> late.pending]
        BY SoonerFacts
      <3> QED BY <3>1, <3>2, <3>3, <3>4
    <2>4. PadNow' = I!AfterShifting(Sooner(late, 1))
      <3>1. PICK x \in PadStates : x = Sooner(late, 1)
        BY <2>3
      <3>2. Sooner(PadHere, pad_now - last_ts)' = x
        BY <1>1, <1>2, <2>3, <3>1 DEF Sooner
      <3>3. PadNow' = I!AfterShifting(x)'
        BY <1>1, <1>3, <1>5, <3>2
      <3> QED BY <1>1, <1>2, <3>1, <3>3, ShiftingKept
    <2>5. PadNow' = I!AfterShifting(Sooner(PadNow, 1))
      BY <1>2, <2>2, <2>4, ShiftTwice
    <2>6. /\ PadNow \in PadStates /\ PadNow.counter \in Int
          /\ PadNow.counter > 0 => PadNow.pos < Bits
          /\ PadNow.counter > 0 \/ PadNow.pos = Bits
      BY <1>5, PadNowFacts
    <2>7. /\ Sooner(PadNow, 1) \in PadStates
          /\ Sooner(PadNow, 1).counter = PadNow.counter - 1
          /\ Sooner(PadNow, 1).pos = PadNow.pos
      BY <2>6, SoonerFacts
    <2>8. CASE PadNow.counter = 1
      <3>1. /\ ~ (Sooner(PadNow, 1).counter > 0) /\ Sooner(PadNow, 1).counter = 0
            /\ Sooner(PadNow, 1).pos # Bits
        BY <2>6, <2>7, <2>8 DEF PadStates
      <3>2. PICK y \in PadStates : y = ShiftIn(Sooner(PadNow, 1))
        BY <1>2, <2>7, <3>1, ShiftInIs
      <3>3. y.counter > 0 \/ y.pos = Bits
        BY <1>2, <2>7, <3>1, <3>2, ShiftInIs DEF PadSane, PadStates
      <3>4. I!AfterShifting(Sooner(PadNow, 1)) = y
        BY <1>2, <2>7, <3>1, <3>2, <3>3, ShiftOn, ShiftDone
      <3> QED BY <1>5, <2>5, <2>8, <3>2, <3>4
    <2>9. CASE PadNow.counter # 1
      <3>1. Sooner(PadNow, 1).counter > 0 \/ Sooner(PadNow, 1).pos = Bits
        BY <2>6, <2>7, <2>9
      <3> QED BY <1>2, <1>5, <2>5, <2>7, <2>9, <3>1, ShiftDone
    <2> QED BY <2>8, <2>9
  <1> QED BY <1>4, <1>5

LEMMA PadTickInit ==
  ASSUME I!Init
  PROVE  I!TickByTick!Init
  <1>1. PadNow = PadHere
    BY PadNowIs DEF I!Init
  <1>2. /\ I!Updated(pad_now).counter = 0 /\ I!Updated(pad_now).pos = 0
        /\ I!Updated(pad_now).sdr = {} /\ I!Updated(pad_now).pending = FALSE
    BY <1>1 DEF PadNow, PadHere, I!Init
  <1> QED BY <1>2 DEF I!Init, I!TickByTick!Init

(* The time to the next bit, as the clocked port counts it. *)
Left == IF PadNow.counter > 0 THEN PadNow.counter ELSE 0

LEMMA PadCycleTicks ==
  ASSUME PadInv, I!Cycle
  PROVE  I!TickByTick!Clock \/ I!TickByTick!Shift
  <1>1. /\ UNCHANGED << PadData, PadLatched, SCR >> /\ pad_now' = pad_now + 1
    BY DEF I!Cycle, I!serial
  <1>2. /\ PadNow \in PadStates /\ PadNow.counter \in Int
        /\ PadNow.counter > 0 => PadNow.pos < Bits
        /\ PadSane
    BY PadNowFacts, PadSanity
  <1>3. CASE ReadCounter > 0 /\ PadNow.counter = 1
    <2> DEFINE q == Sooner(PadNow, 1)
    <2>1. PadNow' = ShiftIn(q)
      BY <1>3, PadCycleNow
    <2>2. /\ q \in PadStates /\ q.counter = 0 /\ q.pos = PadNow.pos /\ q.sdr = PadNow.sdr
          /\ q.pending = PadNow.pending /\ q.pos # Bits
      BY <1>2, <1>3, SoonerFacts DEF PadStates
    <2> HIDE DEF q
    <2>3. /\ PadNow'.counter = IF PadNow.pos + 1 < Bits THEN BitPeriod ELSE 0
          /\ PadNow'.pos = PadNow.pos + 1
          /\ PadNow'.sdr = (PadNow.sdr \ {PadNow.pos}) \union (PadLatched \intersect {PadNow.pos})
          /\ PadNow'.pending = IF PadNow.pos + 1 < Bits THEN PadNow.pending
                               ELSE PadNow.pending \/ ~SCR.inhibit
      <3>1. 0 + BitPeriod = BitPeriod
        BY <1>2 DEF PadSane
      <3> QED BY <1>2, <2>1, <2>2, <3>1, ShiftInIs
    <2>4. Left = 1 /\ Left' = IF PadNow.pos + 1 < Bits THEN BitPeriod ELSE 0
      BY <1>2, <1>3, <2>3 DEF Left, PadSane
    <2>5. IF PadNow'.pos < Bits THEN Left' = BitPeriod /\ PadNow'.pending = PadNow.pending
          ELSE Left' = 0 /\ PadNow'.pending = (PadNow.pending \/ ~SCR.inhibit)
      BY <2>3, <2>4
    <2>6. I!TickByTick!Shift
      BY <1>1, <2>3, <2>4, <2>5 DEF I!TickByTick!Shift, Left, PadNow
    <2> QED BY <2>6
  <1>4. CASE ~ (ReadCounter > 0 /\ PadNow.counter = 1)
    <2>1. Left # 1 /\ Left' = (IF Left = 0 THEN 0 ELSE Left - 1)
          /\ PadNow'.pos = PadNow.pos /\ PadNow'.sdr = PadNow.sdr
          /\ PadNow'.pending = PadNow.pending
      <3>1. CASE ~ (ReadCounter > 0)
        <4>1. PadNow = PadHere /\ PadNow' = PadNow /\ PadHere.counter = ReadCounter
          BY <3>1, PadCycleNow, PadNowIs, PadSanity
        <4> QED BY <3>1, <4>1 DEF Left
      <3>2. CASE ReadCounter > 0
        <4>1. PadNow' = Sooner(PadNow, 1) /\ PadNow.counter # 1
          BY <1>4, <3>2, PadCycleNow
        <4>2. /\ PadNow'.counter = PadNow.counter - 1 /\ PadNow'.pos = PadNow.pos
              /\ PadNow'.sdr = PadNow.sdr /\ PadNow'.pending = PadNow.pending
          BY <1>2, <4>1, SoonerFacts
        <4> QED BY <1>2, <4>1, <4>2 DEF Left
      <3> QED BY <3>1, <3>2
    <2>2. I!TickByTick!Clock
      BY <1>1, <2>1 DEF I!TickByTick!Clock, Left, PadNow
    <2> QED BY <2>2
  <1> QED BY <1>3, <1>4

LEMMA PadReadTicks ==
  ASSUME PadInv, I!Read \/ I!Event \/ I!EndFrame
  PROVE  UNCHANGED << I!TickByTick!port, pad_now >> \/ I!TickByTick!NewFrame
  <1>1. PadNow' = PadNow
    BY PadReadInv
  <1>2. UNCHANGED << PadData, PadLatched, SCR >> /\ pad_now' \in {pad_now, 0}
    BY DEF I!Read, I!Event, I!EndFrame
  <1> QED BY <1>1, <1>2 DEF PadNow, I!TickByTick!port, I!TickByTick!NewFrame

LEMMA PadWriteTicks ==
  ASSUME PadInv, NEW start \in BOOLEAN, NEW abort \in BOOLEAN, NEW inhibit \in BOOLEAN,
         I!Write(start, abort, inhibit)
  PROVE  I!TickByTick!Control(start, abort, inhibit)
  <1> DEFINE starts == start /\ ~SCR.disabled /\ Left = 0
  <1>1. PadNow' = Commanded(start, abort, inhibit)
    BY PadWriteInv
  <1>2. Begins(start) <=> starts
    BY PadNowFacts DEF Begins, Left, PadStates
  <1>3. /\ PadNow'.counter = IF abort THEN 0 ELSE IF starts THEN BitPeriod ELSE PadNow.counter
        /\ PadNow'.pos = IF abort \/ starts THEN 0 ELSE PadNow.pos
        /\ PadNow'.sdr = PadNow.sdr
        /\ PadNow'.pending = (PadNow.pending /\ ~inhibit)
    BY <1>1, <1>2 DEF Commanded
  <1>4. Left' = IF abort THEN 0 ELSE IF starts THEN BitPeriod ELSE Left
    <2>1. BitPeriod > 0
      BY PadSanity DEF PadSane
    <2>2. Left' = IF PadNow'.counter > 0 THEN PadNow'.counter ELSE 0
      BY DEF Left
    <2>3. CASE abort
      BY <1>3, <2>2, <2>3
    <2>4. CASE ~abort /\ starts
      BY <1>3, <2>1, <2>2, <2>4
    <2>5. CASE ~abort /\ ~starts
      BY <1>3, <2>2, <2>5 DEF Left
    <2> QED BY <2>3, <2>4, <2>5
  <1>5. /\ SCR' = [disabled |-> abort, inhibit |-> inhibit]
        /\ UNCHANGED << PadData, pad_now >>
        /\ PadLatched' = IF starts THEN PadData ELSE PadLatched
    BY <1>2 DEF I!Write, I!Latch, Begins, PadNow
  <1> QED BY <1>3, <1>4, <1>5 DEF I!TickByTick!Control, Left, PadNow

LEMMA PadFrameTicks ==
  ASSUME PadInv, I!Frame
  PROVE  I!TickByTick!Buttons
  <1>1. PadNow' = PadNow
    BY PadFrameInv
  <1>2. UNCHANGED << PadLatched, SCR, pad_now >> /\ PadData' \in SUBSET (0 .. Bits - 1)
    BY DEF I!Frame, I!serial, I!Words
  <1> QED BY <1>1, <1>2 DEF PadNow, I!TickByTick!Buttons

LEMMA PadTicks ==
  ASSUME PadInv, I!Next
  PROVE  [I!TickByTick!Next]_<< I!TickByTick!port, pad_now >>
  BY PadCycleTicks, PadReadTicks, PadWriteTicks, PadFrameTicks
     DEF I!Next, I!Program, I!TickByTick!Next

LEMMA PadAtRest ==
  ASSUME UNCHANGED pad
  PROVE  /\ PadInv => PadInv'
         /\ PadInv => UNCHANGED << I!TickByTick!port, pad_now >>
  <1>1. PadInv => PadInv'
    BY DEF pad, PadInv, I!TypeOK, I!NextBitIsScheduled
  <1>2. ASSUME PadInv PROVE UNCHANGED << I!TickByTick!port, pad_now >>
    <2>1. UNCHANGED << PadData, PadLatched, SCR, PadHere, ReadCounter, last_ts, pad_now >>
      BY DEF pad, PadHere
    <2>2. PadNow' = PadNow
      BY <1>2, <2>1, PadNowKept
    <2> QED BY <2>1, <2>2 DEF PadNow, I!TickByTick!port
  <1> QED BY <1>1, <1>2

-----------------------------------------------------------------------------
(* The three devices together. *)
DevicesInv == TimerInv /\ PadInv /\ IInv

LEMMA DevicesInitInv ==
  ASSUME DevicesInit
  PROVE  DevicesInv
  BY TimerInitInv, PadInitInv, InitInv DEF DevicesInit, DevicesInv

LEMMA DevicesNextInv ==
  ASSUME DevicesInv, [DevicesNext]_devices
  PROVE  DevicesInv'
  <1>1. CASE OfTimer(T!Next)
    <2>1. TimerInv' /\ UNCHANGED pad /\ UNCHANGED vars
      BY <1>1, TimerNextInv DEF OfTimer, DevicesInv
    <2> QED BY <2>1, PadAtRest, NextInv DEF DevicesInv
  <1>2. CASE OfPad(I!Next)
    <2>1. PadInv' /\ UNCHANGED timer /\ UNCHANGED vars
      BY <1>2, PadNextInv DEF OfPad, DevicesInv
    <2> QED BY <2>1, TimerAtRest, NextInv DEF DevicesInv
  <1>3. CASE OfRing(Next)
    <2>1. IInv' /\ UNCHANGED timer /\ UNCHANGED pad
      BY <1>3, NextInv DEF OfRing, DevicesInv
    <2> QED BY <2>1, TimerAtRest, PadAtRest DEF DevicesInv
  <1>4. CASE UNCHANGED devices
    <2>1. UNCHANGED timer /\ UNCHANGED pad /\ UNCHANGED vars
      BY <1>4 DEF devices
    <2> QED BY <2>1, TimerAtRest, PadAtRest, NextInv DEF DevicesInv
  <1> QED BY <1>1, <1>2, <1>3, <1>4 DEF DevicesNext

LEMMA DevicesAlways ==
  DevicesSpec => []DevicesInv
  <1>1. DevicesInit => DevicesInv
    BY DevicesInitInv
  <1>2. DevicesInv /\ [DevicesNext]_devices => DevicesInv'
    BY DevicesNextInv
  <1> QED BY <1>1, <1>2, PTL DEF DevicesSpec

(* The variables of timer.c, input.c and vb_audio.c keep their types: the  *)
(* timer's counter never wraps below zero, its divider is positive when no *)
(* update is running, no bit is shifted beyond the pad's register, and the *)
(* ring's indices stay in the ring.                                        *)
THEOREM DevicesTyped ==
  DevicesSpec => []DevicesTypeOK
  <1>1. DevicesInv => DevicesTypeOK
    BY DEF DevicesInv, TimerInv, PadInv, IInv, DevicesTypeOK
  <1> QED BY <1>1, DevicesAlways, PTL

(* The timer's interrupt line is never up without cause; and it is up as   *)
(* soon as a timer that kept up with the clock would have raised it, or an *)
(* event is due that will raise it.                                        *)
THEOREM TimerLineTracked ==
  DevicesSpec => []LineTracksTimer
  <1>1. DevicesInv => LineTracksTimer
    BY TimerLine DEF DevicesInv, LineTracksTimer
  <1> QED BY <1>1, DevicesAlways, PTL

(* While bits are to come, the scheduler has the exact cycle of the next   *)
(* one or an earlier one.                                                  *)
THEOREM NextBitScheduled ==
  DevicesSpec => []NextBitIsScheduled
  <1>1. DevicesInv => NextBitIsScheduled
    BY DEF DevicesInv, PadInv, NextBitIsScheduled
  <1> QED BY <1>1, DevicesAlways, PTL

(* The timer that catches up only when it is looked at implements the one  *)
(* that is clocked every cycle: no sequence of register accesses, events   *)
(* and frame ends can tell one from the other.                             *)
THEOREM TimerImplementsTicks ==
  DevicesSpec => LazyIsTickByTick
  <1>1. DevicesInit => T!TickByTick!Init
    BY TickInit DEF DevicesInit
  <1>2. DevicesInv /\ [DevicesNext]_devices
          => [T!TickByTick!Next]_<< T!TickByTick!regs, timer_now >>
    <2> SUFFICES ASSUME DevicesInv, [DevicesNext]_devices
                 PROVE  [T!TickByTick!Next]_<< T!TickByTick!regs, timer_now >>
      OBVIOUS
    <2>1. CASE OfTimer(T!Next)
      BY <2>1, TimerTicks DEF OfTimer, DevicesInv
    <2>2. CASE UNCHANGED timer
      BY <2>2, TimerAtRest
    <2> QED BY <2>1, <2>2 DEF DevicesNext, OfPad, OfRing, devices
  <1> QED BY <1>1, <1>2, DevicesAlways, PTL
          DEF DevicesSpec, LazyIsTickByTick, T!LazyIsTickByTick, T!TickByTick!Spec

(* The pad port that shifts its bits in late implements the one that is    *)
(* clocked every cycle.                                                    *)
THEOREM PadImplementsTicks ==
  DevicesSpec => PadIsTickByTick
  <1>1. DevicesInit => I!TickByTick!Init
    BY PadTickInit DEF DevicesInit
  <1>2. DevicesInv /\ [DevicesNext]_devices
          => [I!TickByTick!Next]_<< I!TickByTick!port, pad_now >>
    <2> SUFFICES ASSUME DevicesInv, [DevicesNext]_devices
                 PROVE  [I!TickByTick!Next]_<< I!TickByTick!port, pad_now >>
      OBVIOUS
    <2>1. CASE OfPad(I!Next)
      BY <2>1, PadTicks DEF OfPad, DevicesInv
    <2>2. CASE UNCHANGED pad
      BY <2>2, PadAtRest DEF DevicesInv
    <2> QED BY <2>1, <2>2 DEF DevicesNext, OfTimer, OfRing, devices
  <1> QED BY <1>1, <1>2, DevicesAlways, PTL
          DEF DevicesSpec, PadIsTickByTick, I!LazyIsTickByTick, I!TickByTick!Spec
=============================================================================
