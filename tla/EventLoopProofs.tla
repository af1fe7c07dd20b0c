-------------------------- MODULE EventLoopProofs --------------------------
(***************************************************************************)
(* Proofs about EventLoop for every budget, unit length and device period. *)
(*                                                                         *)
(* The heart is CoverInv: next_event_ts <= next_ts[d] <= due[d] at every   *)
(* step of every frame, so the CPU stops no later than the scheduler's     *)
(* entry of a device, and the entry is no later than the device's real     *)
(* deadline.  PhaseInv adds what the position in the loop says about the   *)
(* clock and next_event_ts.                                                *)
(***************************************************************************)
EXTENDS EventLoop, TLAPS

Period(d) == IF d = "vip" THEN VipPeriod
             ELSE IF d = "timer" THEN TimerPeriod ELSE InputPeriod

ShapeInv ==
  /\ phase \in {"idle", "outer", "inner", "unit", "stuck", "force", "rebase"}
  /\ timestamp \in Nat /\ unit_start \in Nat
  /\ next_event_ts \in Int
  /\ next_ts \in [Devices -> Int]
  /\ due \in [Devices -> Int]

FlagsInv == Running \in BOOLEAN /\ Halted \in BOOLEAN

(* What the contract of a device says of its deadline. *)
DueInv ==
  /\ due["vip"] # NoEvent
  /\ \A d \in Devices : 
       /\ due[d] >= 1
       /\ due[d] = NoEvent \/ due[d] <= timestamp + Period(d)

CoverInv ==
  \A d \in Devices : 1 <= next_event_ts /\ next_event_ts <= next_ts[d]
                     /\ next_ts[d] <= due[d]

PhaseInv ==
  /\ unit_start < Budget /\ timestamp < Budget + MaxUnit
  /\ phase = "idle" => timestamp = 0 /\ next_event_ts <= Budget
  /\ phase \in {"outer", "inner", "unit"} => next_event_ts <= Budget
  /\ phase = "outer" /\ Running => timestamp < next_event_ts
  /\ phase = "unit" => /\ unit_start < next_event_ts
                       /\ unit_start <= timestamp
                       /\ timestamp <= unit_start + MaxUnit
  /\ phase = "rebase" => /\ next_event_ts > timestamp
                         /\ \A d \in Devices : next_ts[d] > timestamp
                         /\ next_event_ts <= timestamp + VipPeriod

IInv == ShapeInv /\ FlagsInv /\ DueInv /\ CoverInv /\ PhaseInv

-----------------------------------------------------------------------------
(* Facts about the helpers.                                                *)

LEMMA LesserFacts ==
  ASSUME NEW a \in Int, NEW b \in Int
  PROVE  /\ Lesser(a, b) \in Int
         /\ Lesser(a, b) <= a
         /\ Lesser(a, b) <= b
         /\ Lesser(a, b) = a \/ Lesser(a, b) = b
  BY DEF Lesser

LEMMA CalcNextTSFacts ==
  ASSUME NEW nn \in [Devices -> Int]
  PROVE  /\ CalcNextTS(nn) \in Int
         /\ \A d \in Devices : CalcNextTS(nn) <= nn[d]
         /\ \E d \in Devices : CalcNextTS(nn) = nn[d]
  BY DEF CalcNextTS, Lesser, Devices

LEMMA PeriodFacts ==
  \A d \in Devices : /\ Period(d) \in Nat \ {0}
                     /\ NoEvent > Budget + MaxUnit + Period(d)
  BY BoundsAssumption, NoEventAssumption DEF Devices, Period

(* What an update at ts may answer.                                        *)
Answers(d, ts, t) ==
  /\ t \in Int
  /\ t >= ts + 1
  /\ t = NoEvent \/ t <= ts + Period(d)
  /\ d = "vip" => t # NoEvent

LEMMA NewDueFacts ==
  ASSUME NEW d \in Devices, NEW ts \in Nat, ts < Budget + MaxUnit,
         NEW t \in NewDue(d, ts)
  PROVE  Answers(d, ts, t)
<1> USE BoundsAssumption, NoEventAssumption
<1>1. CASE d = "vip"
  <2>1. NewDue(d, ts) = ts + 1 .. ts + VipPeriod
    BY <1>1 DEF NewDue
  <2> QED BY <2>1, <1>1 DEF Answers, Period
<1>2. CASE d = "timer"
  <2>1. NewDue(d, ts) = ts + 1 .. ts + TimerPeriod
    BY <1>2 DEF NewDue
  <2> QED BY <2>1, <1>2 DEF Answers, Period
<1>3. CASE d = "input"
  <2>1. NewDue(d, ts) = (ts + 1 .. ts + InputPeriod) \union {NoEvent}
    BY <1>3 DEF NewDue
  <2> QED BY <2>1, <1>3 DEF Answers, Period
<1> QED BY <1>1, <1>2, <1>3 DEF Devices

LEMMA UpdatedDueFacts ==
  ASSUME IInv, NEW d \in Devices, NEW t \in UpdatedDue(d, timestamp)
  PROVE  Answers(d, timestamp, t)
<1>1. timestamp \in Nat /\ timestamp < Budget + MaxUnit /\ due[d] \in Int
  BY DEF IInv, ShapeInv, PhaseInv
<1>2. CASE due[d] <= timestamp
  BY <1>1, <1>2, NewDueFacts DEF UpdatedDue
<1>3. CASE ~(due[d] <= timestamp)
  <2>1. t = due[d]
    BY <1>3 DEF UpdatedDue
  <2>2. d = "vip" => due[d] # NoEvent
    BY DEF IInv, DueInv
  <2>3. due[d] = NoEvent \/ due[d] <= timestamp + Period(d)
    BY DEF IInv, DueInv
  <2> QED BY <1>1, <1>3, <2>1, <2>2, <2>3 DEF Answers
<1> QED BY <1>2, <1>3

(* CHECK_HALTED moves the clock to the next event or not at all.           *)
LEMMA ExceptionFacts ==
  ASSUME timestamp \in Nat, next_event_ts \in Int, ExceptionUnit
  PROVE  /\ phase = "unit" /\ phase' = "inner"
         /\ UNCHANGED << unit_start, next_event_ts, Running, next_ts, due >>
         /\ timestamp <= timestamp'
         /\ timestamp' = timestamp \/ timestamp' = next_event_ts
<1>1. /\ phase = "unit" /\ phase' = "inner"
      /\ UNCHANGED << unit_start, next_event_ts, Running, next_ts, due >>
  BY DEF ExceptionUnit
<1>2. timestamp' = IF Halted' /\ timestamp < next_event_ts THEN next_event_ts
                                                          ELSE timestamp
  BY DEF ExceptionUnit
<1>3. CASE Halted' /\ timestamp < next_event_ts
  BY <1>1, <1>2, <1>3
<1>4. CASE ~(Halted' /\ timestamp < next_event_ts)
  BY <1>1, <1>2, <1>4
<1> QED BY <1>3, <1>4

LEMMA InitHolds == Init => IInv
<1> SUFFICES ASSUME Init PROVE IInv
  OBVIOUS
<1> USE BoundsAssumption, NoEventAssumption
<1>0. /\ due = [d \in Devices |-> IF d = "vip" THEN VipPeriod ELSE NoEvent]
      /\ next_ts = due
      /\ "vip" \in Devices
  BY DEF Init, Devices
<1>a. \A d \in Devices : due[d] = IF d = "vip" THEN VipPeriod ELSE NoEvent
  BY <1>0
<1>1. /\ due \in [Devices -> Int] /\ next_ts = due
      /\ due["vip"] = VipPeriod
      /\ \A d \in Devices : (due[d] = VipPeriod /\ d = "vip") \/ due[d] = NoEvent
  <2>1. \A d \in Devices :
          (IF d = "vip" THEN VipPeriod ELSE NoEvent) \in Int
    OBVIOUS
  <2>2. due \in [Devices -> Int]
    BY <1>0, <2>1
  <2> QED BY <1>0, <1>a, <2>2
<1>2. next_event_ts = VipPeriod
  <2>1. next_event_ts = CalcNextTS(due)
    BY <1>0 DEF Init
  <2>2. \A d \in Devices : VipPeriod <= due[d]
    BY <1>1
  <2> QED BY <1>1, <2>1, <2>2, CalcNextTSFacts, <1>0
<1>b. phase = "idle" /\ timestamp = 0 /\ unit_start = 0
  BY DEF Init
<1>c. FlagsInv
  BY DEF Init, FlagsInv
<1>3. ShapeInv
  BY <1>1, <1>2, <1>b DEF ShapeInv
<1>4. DueInv
  <2>1. NoEvent > VipPeriod /\ NoEvent >= 1 /\ Period("vip") = VipPeriod
    BY DEF Period
  <2> QED BY <1>1, <1>b, <2>1 DEF DueInv
<1>5. CoverInv
  BY <1>1, <1>2 DEF CoverInv
<1>6. PhaseInv
  <2>1. unit_start < Budget /\ timestamp < Budget + MaxUnit
    BY <1>b
  <2>2. phase \notin {"outer", "inner", "unit", "rebase"}
    BY <1>b
  <2> QED BY <1>2, <1>b, <2>1, <2>2 DEF PhaseInv
<1> QED BY <1>c, <1>3, <1>4, <1>5, <1>6 DEF IInv

-----------------------------------------------------------------------------
(* Every action preserves the invariant.                                   *)

(* Control steps: they leave next_ts and due alone.                        *)
LEMMA ControlPreserves ==
  ASSUME IInv, StartFrame \/ SkipToEvent \/ EnterInner \/ LeaveRun \/ BeginUnit
               \/ EnterStuckBlock \/ Spin \/ Spend \/ EndUnit \/ HaltUnit
               \/ ExceptionUnit
  PROVE  IInv'
<1> USE BoundsAssumption, NoEventAssumption
<1>0. UNCHANGED << next_event_ts, next_ts, due >>
  BY DEF StartFrame, SkipToEvent, EnterInner, LeaveRun, BeginUnit, Spend,
         EndUnit, HaltUnit, ExceptionUnit, EnterStuckBlock, Spin, vars
<1>i. ShapeInv /\ DueInv /\ CoverInv /\ PhaseInv /\ "vip" \in Devices
  BY DEF IInv, Devices
<1>1. FlagsInv'
  BY DEF IInv, FlagsInv, StartFrame, SkipToEvent, EnterInner, LeaveRun,
         BeginUnit, Spend, EndUnit, HaltUnit, ExceptionUnit, EnterStuckBlock,
         Spin, vars
<1>2. /\ timestamp \in Nat /\ timestamp' \in Nat /\ timestamp <= timestamp'
      /\ unit_start' \in Nat
      /\ next_event_ts \in Int /\ 1 <= next_event_ts
      /\ phase' \in {"outer", "inner", "unit", "stuck", "force"}
  <2>1. next_event_ts \in Nat /\ 1 <= next_event_ts
    BY <1>i DEF ShapeInv, CoverInv
  <2>2. timestamp \in Nat /\ unit_start \in Nat
    BY <1>i DEF ShapeInv
  <2>3. CASE StartFrame \/ EnterInner \/ LeaveRun \/ BeginUnit \/ EndUnit
    BY <2>1, <2>2, <2>3 DEF StartFrame, EnterInner, LeaveRun, BeginUnit, EndUnit
  <2>4. CASE SkipToEvent
    BY <1>i, <2>1, <2>2, <2>4 DEF SkipToEvent, PhaseInv
  <2>5. CASE Spend
    BY <2>1, <2>2, <2>5 DEF Spend
  <2>6. CASE HaltUnit
    BY <2>1, <2>2, <2>6 DEF HaltUnit
  <2>7. CASE ExceptionUnit
    BY <2>1, <2>2, <2>7, ExceptionFacts
  <2>8. CASE EnterStuckBlock \/ Spin
    BY <2>1, <2>2, <2>8 DEF EnterStuckBlock, Spin, vars
  <2> QED BY <2>3, <2>4, <2>5, <2>6, <2>7, <2>8
<1>3. ShapeInv'
  BY <1>0, <1>2, <1>i DEF ShapeInv
<1>4. DueInv'
  <2>1. \A d \in Devices : due[d] \in Int /\ Period(d) \in Nat
    BY <1>i, PeriodFacts DEF ShapeInv
  <2> QED BY <1>0, <1>2, <1>i, <2>1 DEF DueInv
<1>5. CoverInv'
  BY <1>0, <1>i DEF CoverInv
<1>6. PhaseInv'
  <2>s. timestamp \in Nat /\ unit_start \in Nat /\ next_event_ts \in Int
    BY <1>i DEF ShapeInv
  <2>1. CASE StartFrame
    BY <1>i, <1>0, <1>2, <2>s, <2>1 DEF PhaseInv, StartFrame
  <2>2. CASE SkipToEvent
    BY <1>i, <1>0, <1>2, <2>s, <2>2 DEF PhaseInv, SkipToEvent
  <2>3. CASE EnterInner \/ LeaveRun
    BY <1>i, <1>0, <1>2, <2>s, <2>3 DEF PhaseInv, EnterInner, LeaveRun
  <2>4. CASE BeginUnit
    BY <1>i, <1>0, <1>2, <2>s, <2>4 DEF PhaseInv, BeginUnit
  <2>5. CASE Spend
    BY <1>i, <1>0, <1>2, <2>s, <2>5 DEF PhaseInv, Spend
  <2>6. CASE EndUnit
    BY <1>i, <1>0, <1>2, <2>s, <2>6 DEF PhaseInv, EndUnit
  <2>7. CASE HaltUnit
    BY <1>i, <1>0, <1>2, <2>s, <2>7 DEF PhaseInv, HaltUnit
  <2>8. CASE ExceptionUnit
    BY <1>i, <1>0, <1>2, <2>s, <2>8, ExceptionFacts DEF PhaseInv
  <2>9. CASE EnterStuckBlock \/ Spin
    BY <1>i, <1>0, <1>2, <2>s, <2>9 DEF PhaseInv, EnterStuckBlock, Spin, vars
  <2> QED BY <2>1, <2>2, <2>3, <2>4, <2>5, <2>6, <2>7, <2>8, <2>9
<1> QED BY <1>1, <1>3, <1>4, <1>5, <1>6 DEF IInv

(* A device access inside a unit: the device d is updated, perhaps stopped *)
(* (t = NoEvent), and the scheduler is told or not.                        *)
LEMMA AccessPreserves ==
  ASSUME IInv, phase = "unit",
         NEW d \in Devices, d # "vip", NEW t,
         t = NoEvent \/ Answers(d, timestamp, t),
         due' = [due EXCEPT ![d] = t],
         \/ next_ts' = [next_ts EXCEPT ![d] = t] /\ WakeAt(t)
         \/ /\ next_ts' = next_ts /\ next_event_ts' = next_event_ts
            /\ next_ts[d] <= t,
         UNCHANGED << phase, timestamp, unit_start, Running, Halted >>
  PROVE  IInv'
<1> USE BoundsAssumption, NoEventAssumption
<1>i. ShapeInv /\ DueInv /\ CoverInv /\ PhaseInv
  BY DEF IInv
<1>1. FlagsInv'
  BY DEF IInv, FlagsInv
<1>2. /\ timestamp \in Nat /\ unit_start \in Nat /\ next_event_ts \in Int
      /\ timestamp < Budget + MaxUnit /\ unit_start <= timestamp
      /\ unit_start < next_event_ts /\ next_event_ts <= Budget
      /\ 1 <= next_event_ts
  BY <1>i DEF ShapeInv, PhaseInv, CoverInv
<1>3. /\ t \in Int /\ t >= timestamp + 1
      /\ t = NoEvent \/ t <= timestamp + Period(d)
  BY <1>2 DEF Answers
<1>4. /\ \A e \in Devices : due'[e] = IF e = d THEN t ELSE due[e]
      /\ due' \in [Devices -> Int]
  BY <1>i, <1>3 DEF ShapeInv
<1>5. /\ next_ts' \in [Devices -> Int]
      /\ next_event_ts' \in Int
      /\ unit_start < next_event_ts' /\ next_event_ts' <= Budget
      /\ 1 <= next_event_ts'
      /\ \A e \in Devices : next_event_ts' <= next_ts'[e]
      /\ \A e \in Devices : next_ts'[e] <= due'[e]
  <2>c. \A e \in Devices : /\ next_ts[e] \in Int /\ due[e] \in Int
                           /\ next_event_ts <= next_ts[e]
                           /\ next_ts[e] <= due[e]
    BY <1>i DEF ShapeInv, CoverInv
  <2>1. CASE next_ts' = [next_ts EXCEPT ![d] = t] /\ WakeAt(t)
    <3>1. /\ \A e \in Devices : next_ts'[e] = IF e = d THEN t ELSE next_ts[e]
          /\ next_ts' \in [Devices -> Int]
      BY <1>i, <1>3, <2>1 DEF ShapeInv
    <3>2. /\ next_event_ts' \in Int
          /\ next_event_ts' <= next_event_ts /\ next_event_ts' <= t
          /\ next_event_ts' = next_event_ts \/ next_event_ts' = t
      BY <1>2, <1>3, <2>1, LesserFacts DEF WakeAt
    <3> QED BY <1>2, <1>3, <1>4, <2>c, <3>1, <3>2
  <2>2. CASE /\ next_ts' = next_ts /\ next_event_ts' = next_event_ts
             /\ next_ts[d] <= t
    BY <1>i, <1>2, <1>4, <2>c, <2>2 DEF ShapeInv
  <2> QED BY <2>1, <2>2
<1>6. ShapeInv'
  BY <1>i, <1>4, <1>5 DEF ShapeInv
<1>7. DueInv'
  <2>1. \A e \in Devices : Period(e) \in Nat
    BY PeriodFacts
  <2> QED BY <1>i, <1>2, <1>3, <1>4, <2>1 DEF DueInv, Devices
<1>8. CoverInv'
  BY <1>5 DEF CoverInv
<1>9. PhaseInv'
  BY <1>i, <1>5 DEF PhaseInv
<1> QED BY <1>1, <1>6, <1>7, <1>8, <1>9 DEF IInv

LEMMA AccessActionsPreserve ==
  ASSUME IInv, AccessTimer \/ EnableTimer \/ AccessInput
  PROVE  IInv'
<1>i. /\ timestamp \in Nat /\ timestamp < Budget + MaxUnit
      /\ "timer" \in Devices /\ "input" \in Devices
      /\ next_ts["timer"] \in Int /\ due["timer"] \in Int
      /\ next_ts["timer"] <= due["timer"]
  BY DEF IInv, ShapeInv, PhaseInv, CoverInv, Devices
<1>n. due["timer"] <= NoEvent
  <2>1. NoEvent > timestamp + Period("timer")
    BY <1>i, PeriodFacts, BoundsAssumption, NoEventAssumption
  <2>2. due["timer"] = NoEvent \/ due["timer"] <= timestamp + Period("timer")
    BY <1>i DEF IInv, DueInv
  <2> QED BY <1>i, <2>1, <2>2, PeriodFacts, NoEventAssumption
<1>1. CASE AccessTimer
  <2>1. PICK t \in UpdatedDue("timer", timestamp) \union {NoEvent} :
          due' = [due EXCEPT !["timer"] = t]
    BY <1>1 DEF AccessTimer
  <2>2. t = NoEvent \/ Answers("timer", timestamp, t)
    BY <1>i, UpdatedDueFacts
  <2>3. next_ts["timer"] <= t
    <3>1. CASE t = NoEvent
      BY <1>i, <1>n, <3>1, NoEventAssumption
    <3>2. CASE t # NoEvent
      <4>1. t \in Int /\ t >= timestamp + 1
        BY <2>2, <3>2 DEF Answers
      <4>2. due["timer"] <= timestamp \/ t = due["timer"]
        BY <3>2 DEF UpdatedDue
      <4> QED BY <1>i, <4>1, <4>2
    <3> QED BY <3>1, <3>2
  <2> QED
    BY <1>i, <1>1, <2>1, <2>2, <2>3, AccessPreserves, "timer" # "vip"
    DEF AccessTimer
<1>2. CASE EnableTimer
  <2>1. PICK t \in NewDue("timer", timestamp) :
          /\ due' = [due EXCEPT !["timer"] = t]
          /\ next_ts' = [next_ts EXCEPT !["timer"] = t]
          /\ WakeAt(t)
    BY <1>2 DEF EnableTimer
  <2>2. Answers("timer", timestamp, t)
    BY <1>i, NewDueFacts
  <2> QED
    BY <1>i, <1>2, <2>1, <2>2, AccessPreserves, "timer" # "vip"
    DEF EnableTimer
<1>3. CASE AccessInput
  <2>1. PICK t \in NewDue("input", timestamp) :
          /\ due' = [due EXCEPT !["input"] = t]
          /\ next_ts' = [next_ts EXCEPT !["input"] = t]
          /\ WakeAt(t)
    BY <1>3 DEF AccessInput
  <2>2. Answers("input", timestamp, t)
    BY <1>i, NewDueFacts
  <2> QED
    BY <1>i, <1>3, <2>1, <2>2, AccessPreserves, "input" # "vip"
    DEF AccessInput
<1> QED BY <1>1, <1>2, <1>3

LEMMA HandlerPreserves ==
  ASSUME IInv, EventHandler
  PROVE  IInv'
<1> USE BoundsAssumption, NoEventAssumption
<1>i. ShapeInv /\ DueInv /\ CoverInv /\ PhaseInv
  BY DEF IInv
<1>1. FlagsInv'
  BY DEF IInv, FlagsInv, EventHandler
<1>2. /\ timestamp \in Nat /\ unit_start \in Nat
      /\ timestamp < Budget + MaxUnit /\ unit_start < Budget
      /\ timestamp' = timestamp /\ unit_start' = unit_start
      /\ phase' = "outer"
  BY <1>i DEF ShapeInv, PhaseInv, EventHandler
<1>c. \A d \in Devices : /\ next_ts[d] \in Int /\ due[d] \in Int
                         /\ 1 <= next_ts[d] /\ next_ts[d] <= due[d]
  BY <1>i DEF ShapeInv, CoverInv
<1>3. PICK new \in [Devices -> Int] :
        /\ \A d \in Devices : new[d] \in HandledDue(d)
        /\ due' = new
        /\ next_ts' = [d \in Devices |-> IF timestamp >= next_ts[d]
                                        THEN new[d] ELSE next_ts[d]]
  <2>1. PICK v \in HandledDue("vip"), t \in HandledDue("timer"),
             i \in HandledDue("input") :
          LET new == [d \in Devices |-> CASE d = "vip"   -> v
                                          [] d = "timer" -> t
                                          [] d = "input" -> i]
          IN  /\ due' = new
              /\ next_ts' = [d \in Devices |->
                               IF timestamp >= next_ts[d] THEN new[d]
                                                          ELSE next_ts[d]]
    BY DEF EventHandler
  <2> DEFINE new == [d \in Devices |-> CASE d = "vip"   -> v
                                         [] d = "timer" -> t
                                         [] d = "input" -> i]
  <2>2. /\ due' = new
        /\ next_ts' = [d \in Devices |-> IF timestamp >= next_ts[d]
                                        THEN new[d] ELSE next_ts[d]]
    BY <2>1
  <2>3. new["vip"] = v /\ new["timer"] = t /\ new["input"] = i
    BY DEF Devices
  <2>d. new = [d \in Devices |-> new[d]]
    BY <2>2 DEF EventHandler
  <2> HIDE DEF new
  <2>4. \A d \in Devices : new[d] \in HandledDue(d)
    BY <2>1, <2>3 DEF Devices
  <2>5. \A d \in Devices : \A x \in HandledDue(d) : x \in Int
    BY <1>c, UpdatedDueFacts DEF HandledDue, Answers
  <2>6. new \in [Devices -> Int]
    BY <2>4, <2>5, <2>d
  <2> QED BY <2>2, <2>4, <2>6
<1>4. \A d \in Devices :
        /\ new[d] \in Int /\ new[d] >= 1
        /\ new[d] = NoEvent \/ new[d] <= timestamp + Period(d)
        /\ d = "vip" => new[d] # NoEvent
        /\ timestamp >= next_ts[d] => new[d] > timestamp
        /\ timestamp < next_ts[d] => new[d] = due[d]
  <2> SUFFICES ASSUME NEW d \in Devices
               PROVE  /\ new[d] \in Int /\ new[d] >= 1
                      /\ new[d] = NoEvent \/ new[d] <= timestamp + Period(d)
                      /\ d = "vip" => new[d] # NoEvent
                      /\ timestamp >= next_ts[d] => new[d] > timestamp
                      /\ timestamp < next_ts[d] => new[d] = due[d]
    OBVIOUS
  <2>0. new[d] \in HandledDue(d) /\ new[d] \in Int
    BY <1>3
  <2>1. CASE timestamp >= next_ts[d]
    <3>1. Answers(d, timestamp, new[d])
      BY <2>0, <2>1, UpdatedDueFacts DEF HandledDue
    <3> QED BY <1>2, <1>c, <2>1, <3>1 DEF Answers
  <2>2. CASE ~(timestamp >= next_ts[d])
    <3>1. new[d] = due[d]
      BY <2>0, <2>2 DEF HandledDue
    <3> QED BY <1>2, <1>c, <1>i, <2>2, <3>1 DEF DueInv
  <2> QED BY <2>1, <2>2
<1>5. /\ next_ts' \in [Devices -> Int]
      /\ \A d \in Devices :
           next_ts'[d] = IF timestamp >= next_ts[d] THEN new[d] ELSE next_ts[d]
  BY <1>3, <1>c, <1>4
<1>6. \A d \in Devices : /\ next_ts'[d] > timestamp
                         /\ next_ts'[d] >= 1
                         /\ next_ts'[d] <= due'[d]
  BY <1>2, <1>3, <1>4, <1>5, <1>c
<1>7. /\ next_event_ts' \in Int
      /\ next_event_ts' <= Budget
      /\ \A d \in Devices : next_event_ts' <= next_ts'[d]
      /\ \/ next_event_ts' = Budget
         \/ \E d \in Devices : next_event_ts' = next_ts'[d]
  <2>1. next_event_ts' = Lesser(CalcNextTS(next_ts'), Budget)
    BY DEF EventHandler, HandlerNextTS
  <2>2. /\ CalcNextTS(next_ts') \in Int
        /\ \A d \in Devices : CalcNextTS(next_ts') <= next_ts'[d]
        /\ \E d \in Devices : CalcNextTS(next_ts') = next_ts'[d]
    BY <1>5, CalcNextTSFacts
  <2>3. /\ next_event_ts' \in Int
        /\ next_event_ts' <= Budget
        /\ next_event_ts' <= CalcNextTS(next_ts')
        /\ \/ next_event_ts' = Budget
           \/ next_event_ts' = CalcNextTS(next_ts')
    <3> DEFINE c == CalcNextTS(next_ts')
    <3>1. c \in Int /\ Budget \in Int
      BY <2>2
    <3>2. next_event_ts' = Lesser(c, Budget)
      BY <2>1
    <3> HIDE DEF c
    <3>3. /\ Lesser(c, Budget) \in Int
          /\ Lesser(c, Budget) <= c
          /\ Lesser(c, Budget) <= Budget
          /\ Lesser(c, Budget) = c \/ Lesser(c, Budget) = Budget
      BY <3>1, LesserFacts
    <3>4. /\ next_event_ts' \in Int
          /\ next_event_ts' <= Budget
          /\ next_event_ts' <= c
          /\ next_event_ts' = Budget \/ next_event_ts' = c
      BY <3>2, <3>3
    <3> QED BY <3>4 DEF c
  <2>4. \A d \in Devices : next_ts'[d] \in Int
    BY <1>5
  <2>5. \A d \in Devices : next_event_ts' <= next_ts'[d]
    BY <2>2, <2>3, <2>4
  <2>6. \/ next_event_ts' = Budget
        \/ \E d \in Devices : next_event_ts' = next_ts'[d]
    BY <2>2, <2>3
  <2> QED BY <2>3, <2>5, <2>6
<1>8. ShapeInv'
  BY <1>2, <1>3, <1>5, <1>7 DEF ShapeInv
<1>9. DueInv'
  <2>1. "vip" \in Devices
    BY DEF Devices
  <2> QED BY <1>2, <1>3, <1>4, <2>1 DEF DueInv
<1>10. CoverInv'
  BY <1>5, <1>6, <1>7 DEF CoverInv
<1>11. PhaseInv'
  <2>1. Running' => timestamp < Budget
    <3>1. PICK e \in {FALSE, timestamp >= next_ts["vip"]} :
            Running' = (Running /\ ~BudgetReached /\ ~e)
      BY Zenon DEF EventHandler
    <3>2. Running' => ~BudgetReached
      BY <3>1
    <3> QED BY <1>2, <3>2 DEF BudgetReached
  <2>2. \A d \in Devices : next_ts'[d] \in Int
    BY <1>5
  <2>3. Running' => timestamp < next_event_ts'
    BY <1>2, <1>6, <1>7, <2>1, <2>2
  <2> QED BY <1>2, <1>7, <2>3 DEF PhaseInv
<1> QED BY <1>1, <1>8, <1>9, <1>10, <1>11 DEF IInv

LEMMA ForcePreserves ==
  ASSUME IInv, ForceEventUpdates
  PROVE  IInv'
<1> USE BoundsAssumption, NoEventAssumption
<1>1. FlagsInv'
  BY DEF IInv, FlagsInv, ForceEventUpdates
<1>2. /\ timestamp \in Nat /\ unit_start \in Nat
      /\ timestamp < Budget + MaxUnit /\ unit_start < Budget
      /\ timestamp' = timestamp /\ unit_start' = unit_start
      /\ phase' = "rebase"
  BY DEF IInv, ShapeInv, PhaseInv, ForceEventUpdates
<1>3. \A d \in Devices : due'[d] \in UpdatedDue(d, timestamp)
  <2>1. PICK v \in UpdatedDue("vip", timestamp),
             t \in UpdatedDue("timer", timestamp),
             i \in UpdatedDue("input", timestamp) :
          due' = [d \in Devices |-> CASE d = "vip"   -> v
                                      [] d = "timer" -> t
                                      [] d = "input" -> i]
    BY DEF ForceEventUpdates
  <2>2. due'["vip"] = v /\ due'["timer"] = t /\ due'["input"] = i
    BY <2>1 DEF Devices
  <2> QED BY <2>1, <2>2 DEF Devices
<1>4. \A d \in Devices : Answers(d, timestamp, due'[d])
  BY <1>3, UpdatedDueFacts
<1>5. due' = [d \in Devices |-> due'[d]] /\ next_ts' = due'
      /\ next_event_ts' = CalcNextTS(due')
  BY DEF ForceEventUpdates
<1>6. due' \in [Devices -> Int]
  BY <1>4, <1>5 DEF Answers
<1>7. /\ next_event_ts' \in Int
      /\ \A d \in Devices : next_event_ts' <= due'[d]
      /\ \E d \in Devices : next_event_ts' = due'[d]
  BY <1>5, <1>6, CalcNextTSFacts
<1>8. /\ "vip" \in Devices
      /\ due'["vip"] # NoEvent
      /\ due'["vip"] <= timestamp + VipPeriod
  BY <1>4 DEF Answers, Devices, Period
<1>9. \A d \in Devices :
        /\ due'[d] \in Int /\ due'[d] > timestamp /\ due'[d] >= 1
        /\ due'[d] = NoEvent \/ due'[d] <= timestamp + Period(d)
  BY <1>2, <1>4 DEF Answers
<1>10. ShapeInv'
  BY <1>2, <1>5, <1>6, <1>7 DEF ShapeInv
<1>11. DueInv'
  BY <1>2, <1>8, <1>9 DEF DueInv
<1>12. next_event_ts' > timestamp
  BY <1>2, <1>7, <1>9
<1>13. CoverInv'
  BY <1>2, <1>5, <1>7, <1>9, <1>12 DEF CoverInv
<1>14. PhaseInv'
  <2>1. next_event_ts' <= timestamp + VipPeriod
    BY <1>2, <1>6, <1>7, <1>8
  <2> QED BY <1>2, <1>5, <1>9, <1>12, <2>1 DEF PhaseInv
<1> QED BY <1>1, <1>10, <1>11, <1>13, <1>14 DEF IInv

(* The next frame counts from zero: every time moves back by timestamp.    *)
LEMMA RebasePreserves ==
  ASSUME IInv, Rebase
  PROVE  IInv'
<1> USE BoundsAssumption, NoEventAssumption
<1>1. FlagsInv'
  BY DEF IInv, FlagsInv, Rebase
<1>2. /\ timestamp \in Nat /\ next_event_ts \in Int
      /\ timestamp < Budget + MaxUnit
      /\ next_event_ts > timestamp
      /\ next_event_ts <= timestamp + VipPeriod
      /\ "vip" \in Devices /\ due["vip"] # NoEvent
  BY DEF IInv, ShapeInv, PhaseInv, DueInv, Rebase, Devices
<1>3. \A d \in Devices :
        /\ next_ts[d] \in Int /\ due[d] \in Int /\ Period(d) \in Nat
        /\ next_event_ts <= next_ts[d] /\ next_ts[d] <= due[d]
        /\ next_ts[d] > timestamp
        /\ due[d] = NoEvent \/ due[d] <= timestamp + Period(d)
  BY PeriodFacts DEF IInv, ShapeInv, CoverInv, PhaseInv, DueInv, Rebase
<1>4. /\ phase' = "idle" /\ timestamp' = 0 /\ unit_start' = 0
      /\ next_event_ts' = next_event_ts - timestamp
      /\ next_ts' = [d \in Devices |-> next_ts[d] - timestamp]
      /\ due' = [d \in Devices |-> IF due[d] = NoEvent THEN NoEvent
                                  ELSE due[d] - timestamp]
  BY DEF Rebase
<1>5. \A d \in Devices :
        /\ next_ts'[d] = next_ts[d] - timestamp
        /\ due'[d] = IF due[d] = NoEvent THEN NoEvent ELSE due[d] - timestamp
  BY <1>4
<1>6. ShapeInv'
  <2>1. \A d \in Devices : /\ next_ts[d] - timestamp \in Int
                           /\ (IF due[d] = NoEvent THEN NoEvent
                               ELSE due[d] - timestamp) \in Int
    BY <1>2, <1>3
  <2>2. next_ts' \in [Devices -> Int] /\ due' \in [Devices -> Int]
    BY <1>4, <2>1
  <2> QED BY <1>2, <1>4, <2>2 DEF ShapeInv
<1>7. DueInv'
  <2>1. due["vip"] < NoEvent
    BY <1>2, <1>3, PeriodFacts
  <2>2. due'["vip"] # NoEvent
    BY <1>2, <1>3, <1>5, <2>1
  <2>3. \A d \in Devices :
          /\ due'[d] >= 1
          /\ due'[d] = NoEvent \/ due'[d] <= 0 + Period(d)
    BY <1>2, <1>3, <1>5
  <2> QED BY <1>4, <2>2, <2>3 DEF DueInv
<1>8. CoverInv'
  BY <1>2, <1>3, <1>4, <1>5 DEF CoverInv
<1>9. PhaseInv'
  BY <1>2, <1>4 DEF PhaseInv
<1> QED BY <1>1, <1>6, <1>7, <1>8, <1>9 DEF IInv

LEMMA StutterPreserves == IInv /\ UNCHANGED vars => IInv'
  BY DEF IInv, ShapeInv, FlagsInv, DueInv, CoverInv, PhaseInv, vars

LEMMA NextPreserves == IInv /\ [Next]_vars => IInv'
<1> SUFFICES ASSUME IInv, [Next]_vars PROVE IInv'
  OBVIOUS
<1>1. CASE \/ StartFrame \/ SkipToEvent \/ EnterInner \/ LeaveRun
           \/ BeginUnit \/ EnterStuckBlock \/ Spin \/ Spend \/ EndUnit
           \/ HaltUnit \/ ExceptionUnit
  BY <1>1, ControlPreserves
<1>2. CASE AccessTimer \/ EnableTimer \/ AccessInput
  BY <1>2, AccessActionsPreserve
<1>3. CASE EventHandler
  BY <1>3, HandlerPreserves
<1>4. CASE ForceEventUpdates
  BY <1>4, ForcePreserves
<1>5. CASE Rebase
  BY <1>5, RebasePreserves
<1>6. CASE UNCHANGED vars
  BY <1>6, StutterPreserves
<1> QED BY <1>1, <1>2, <1>3, <1>4, <1>5, <1>6 DEF Next, Cpu

LEMMA SpecIInv == Spec => []IInv
  BY InitHolds, NextPreserves, PTL DEF Spec

-----------------------------------------------------------------------------
(* The types, no unit begins while a device is overdue, RebaseTS's asserts *)
(* hold, and a frame overruns VB_FRAME_BUDGET by less than one unit.       *)
THEOREM SchedulingSafe ==
  Spec => [](TypeOK /\ EventsOnTime /\ RebaseAsserts /\ FrameBounded)
<1> USE BoundsAssumption, NoEventAssumption
<1>1. ASSUME IInv PROVE TypeOK
  <2>1. \A d \in Devices : /\ next_ts[d] \in 0 .. NoEvent
                           /\ due[d] \in 0 .. NoEvent
    BY <1>1, PeriodFacts
    DEF IInv, ShapeInv, DueInv, CoverInv, PhaseInv
  <2>2. /\ next_ts = [d \in Devices |-> next_ts[d]]
        /\ due = [d \in Devices |-> due[d]]
    BY <1>1 DEF IInv, ShapeInv
  <2>3. /\ next_ts \in [Devices -> 0 .. NoEvent]
        /\ due \in [Devices -> 0 .. NoEvent]
    BY <2>1, <2>2
  <2>4. next_event_ts \in 0 .. NoEvent
    <3>1. "vip" \in Devices
      BY DEF Devices
    <3> QED BY <1>1, <2>1, <3>1 DEF IInv, ShapeInv, CoverInv
  <2>5. timestamp \in 0 .. Budget + MaxUnit /\ unit_start \in 0 .. Budget
    BY <1>1 DEF IInv, ShapeInv, PhaseInv
  <2>6. Running \in BOOLEAN /\ Halted \in BOOLEAN
    BY <1>1 DEF IInv, FlagsInv
  <2>7. phase \in {"idle", "outer", "inner", "unit", "stuck", "force", "rebase"}
    BY <1>1 DEF IInv, ShapeInv
  <2> QED BY <2>3, <2>4, <2>5, <2>6, <2>7, Zenon DEF TypeOK
<1>2. IInv => EventsOnTime /\ RebaseAsserts /\ FrameBounded
  BY DEF IInv, ShapeInv, CoverInv, PhaseInv, EventsOnTime, RebaseAsserts,
         FrameBounded
<1>3. IInv => TypeOK
  BY <1>1
<1> QED BY <1>2, <1>3, SpecIInv, PTL

(* Its parts on their own: what RebaseTS asserts of the devices' deadlines *)
(* at the end of a frame is true, though the build drops the asserts;      *)
COROLLARY RebaseSound == Spec => []RebaseAsserts
  BY SchedulingSafe, PTL

(* and EventHandler's cap ends a frame within one unit of VB_FRAME_BUDGET. *)
COROLLARY FrameOverrun == Spec => []FrameBounded
  BY SchedulingSafe, PTL

(* The clock never runs backwards, and a halted CPU never oversleeps.      *)
THEOREM TimeSound == Spec => ClockMonotone /\ HaltNeverOversleeps
<1> USE BoundsAssumption
<1>1. ASSUME IInv, [Next]_vars
      PROVE  [phase # "rebase" => timestamp' >= timestamp]_vars
  <2>1. timestamp \in Nat /\ next_event_ts \in Int
    BY <1>1 DEF IInv, ShapeInv
  <2>2. phase = "outer" /\ Running => timestamp < next_event_ts
    BY <1>1 DEF IInv, PhaseInv
  <2>3. CASE SkipToEvent
    BY <2>1, <2>2, <2>3 DEF SkipToEvent
  <2>4. CASE Spend \/ ExceptionUnit
    BY <2>1, <2>4, ExceptionFacts DEF Spend
  <2>5. CASE Rebase
    BY <2>5 DEF Rebase
  <2>6. CASE timestamp' = timestamp
    BY <2>1, <2>6
  <2> QED
    BY <1>1, <2>3, <2>4, <2>5, <2>6
    DEF Next, Cpu, vars, StartFrame, EnterInner, LeaveRun, BeginUnit, EndUnit,
        HaltUnit, EnterStuckBlock, Spin, AccessTimer, EnableTimer, AccessInput,
        EventHandler, ForceEventUpdates
<1>2. ASSUME IInv, [Next]_vars
      PROVE  [phase' # "unit" /\ timestamp' > timestamp =>
                \A d \in Devices : timestamp' <= due[d]]_vars
  <2>1. timestamp \in Nat /\ next_event_ts \in Int
    BY <1>2 DEF IInv, ShapeInv
  <2>2. \A d \in Devices : /\ due[d] \in Int /\ next_ts[d] \in Int
                           /\ next_event_ts <= next_ts[d]
                           /\ next_ts[d] <= due[d]
    BY <1>2 DEF IInv, ShapeInv, CoverInv
  <2>3. CASE SkipToEvent \/ ExceptionUnit
    BY <2>1, <2>2, <2>3, ExceptionFacts DEF SkipToEvent
  <2>4. CASE Spend
    BY <2>4 DEF Spend
  <2>5. CASE Rebase
    BY <2>1, <2>5 DEF Rebase
  <2>6. CASE timestamp' = timestamp
    BY <2>1, <2>6
  <2> QED
    BY <1>2, <2>3, <2>4, <2>5, <2>6
    DEF Next, Cpu, vars, StartFrame, EnterInner, LeaveRun, BeginUnit, EndUnit,
        HaltUnit, EnterStuckBlock, Spin, AccessTimer, EnableTimer, AccessInput,
        EventHandler, ForceEventUpdates
<1> QED
  BY <1>1, <1>2, SpecIInv, PTL DEF Spec, ClockMonotone, HaltNeverOversleeps

(* The first half of it: no step but the rebasing of a frame's end, that   *)
(* of a halted CPU to next_event_ts included, sets the CPU's clock back.   *)
COROLLARY ClockForward == Spec => ClockMonotone
  BY TimeSound
=============================================================================
