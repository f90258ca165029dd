--------------------------- MODULE FixedTimeProofs ---------------------------
(***************************************************************************)
(* Proofs about the fixed-time reports, for any slot, any frame length,    *)
(* any number of devices and any durations of the broadcast.               *)
(***************************************************************************)
EXTENDS FixedTime, TLAPS

LEMMA ConstantFacts ==
  /\ Slot \in Nat
  /\ Frame \in Nat /\ Frame >= 1
  /\ Interval * DevNum \in Nat
  /\ Word \in Nat /\ Round \in Nat /\ Half \in Int /\ Round < Half
  /\ Half + Half < Word
  /\ Late \in Nat /\ Late = Slot + Frame + Frame
  /\ Round = Slot + Interval * DevNum
  <1>1. Slot \in Nat /\ Frame \in Nat /\ Frame >= 1 /\ Interval \in Nat /\ DevNum \in Nat
    BY FixedTimeAssumption
  <1>2. Interval * DevNum \in Nat
    BY <1>1
  <1>3. Round \in Nat /\ Round = Slot + Interval * DevNum
    BY <1>1, <1>2 DEF Round
  <1>4. Late \in Nat /\ Late = Slot + Frame + Frame
    BY <1>1 DEF Late
  <1>5. Word \in Nat /\ Half \in Int /\ Round < Half /\ Half + Half < Word
    BY FixedTimeAssumption DEF Half
  <1> QED
    BY <1>1, <1>2, <1>3, <1>4, <1>5

(* The two places on the list. *)
LEMMA PlaceFacts ==
  ASSUME NEW d \in Devices, Order[d] # -1
  PROVE  \/ Order[d] = 0 /\ Order[d] * Frame = 0
         \/ Order[d] = 1 /\ Order[d] * Frame = Frame
  <1>1. Order[d] \in {0, 1}
    BY FixedTimeAssumption
  <1> QED
    BY <1>1, ConstantFacts

LEMMA WordFacts ==
  /\ Word \in Nat /\ Word >= 1
  /\ \A x \in Int : x % Word \in Nat
  /\ \A x \in 0..Round : x % Word = x
  <1>1. Word >= 1 /\ Round < Word
    BY ConstantFacts
  <1>2. \A x \in Int : x % Word \in Nat
    BY <1>1, ConstantFacts
  <1>3. \A x \in 0..Round : x % Word = x
    BY <1>1, ConstantFacts
  <1> QED
    BY <1>1, <1>2, <1>3, ConstantFacts

LEMMA DelayType ==
  ASSUME NEW took \in Nat
  PROVE  Delay(took) \in Nat
  <1>1. Slot + Interval * DevNum - took \in Int
    BY ConstantFacts
  <1> QED
    BY <1>1, WordFacts DEF Delay

(* A broadcast that leaves room leaves all of the plan's time.              *)
LEMMA DelayKeepsPlan ==
  ASSUME NEW took \in Nat, ~Overlong(took)
  PROVE  Delay(took) >= Late
  <1> DEFINE p == Interval * DevNum
  <1>1. p \in Nat /\ took + 2 * Frame <= p
    BY ConstantFacts DEF Overlong
  <1>2. Round = Slot + p
    BY ConstantFacts
  <1>3. Slot + p - took \in 0..Round
    <2> HIDE DEF p
    <2> QED
      BY <1>1, <1>2, ConstantFacts
  <1>4. Delay(took) = Slot + p - took
    BY <1>3, WordFacts DEF Delay
  <1> HIDE DEF p
  <1> QED
    BY <1>1, <1>4, ConstantFacts

LEMMA OlderType ==
  ASSUME NEW age \in Ages
  PROVE  Older(age) \in Ages
  BY ConstantFacts DEF Older, Ages

LEMMA StartType ==
  ASSUME NEW d \in Devices, Order[d] # -1, NEW age \in Ages
  PROVE  /\ StartIn(d, age) \in Int
         /\ StartIn(d, age) <= Late
         /\ StartIn(d, age) + age = Slot + Order[d] * Frame
         /\ age = Late => StartIn(d, age) < 0
  <1> DEFINE p == Order[d] * Frame
  <1>1. p = 0 \/ p = Frame
    BY PlaceFacts
  <1>2. StartIn(d, age) = Slot + p - age
    BY DEF StartIn
  <1> HIDE DEF p
  <1>3. /\ StartIn(d, age) \in Int
        /\ StartIn(d, age) <= Late
        /\ StartIn(d, age) + age = Slot + p
        /\ age = Late => StartIn(d, age) < 0
    BY <1>1, <1>2, ConstantFacts DEF Ages
  <1> QED
    BY <1>3 DEF p

-----------------------------------------------------------------------------
LEMMA TypedInit == Init => TypeOK
  <1> SUFFICES ASSUME Init PROVE TypeOK
    OBVIOUS
  <1>1. 0 \in Ages /\ Late \in Ages
    BY ConstantFacts DEF Ages
  <1>2. queue \in [Devices -> Seq(Ages)]
    BY DEF Init
  <1> QED
    BY <1>1, <1>2 DEF Init, TypeOK

LEMMA TakeTypes ==
  ASSUME TypeOK, NEW d \in Devices, Take(d)
  PROVE  TypeOK'
  <1>1. queue[d] \in Seq(Ages) /\ queue[d] # <<>>
    BY DEF TypeOK, Take
  <1>2. Head(queue[d]) \in Ages /\ Tail(queue[d]) \in Seq(Ages)
    BY <1>1
  <1>3. queue' \in [Devices -> Seq(Ages)]
    BY <1>2 DEF TypeOK, Take
  <1>4. Order[d] # -1 /\ StartIn(d, Head(queue[d])) >= 0 =>
          StartIn(d, Head(queue[d])) \in Ages
    <2> DEFINE start == StartIn(d, Head(queue[d]))
    <2>1. Order[d] # -1 => start \in Int /\ start <= Late
      BY <1>2, StartType
    <2> HIDE DEF start
    <2>2. Order[d] # -1 /\ start >= 0 => start \in Ages
      BY <2>1, ConstantFacts DEF Ages
    <2> QED
      BY <2>2 DEF start
  <1>5. 0 \in Ages
    BY ConstantFacts DEF Ages
  <1>6. /\ task' \in [Devices -> {"wait", "armed", "air", "held"}]
        /\ left' \in [Devices -> Ages]
        /\ late' \in [Devices -> BOOLEAN]
    BY <1>4, <1>5 DEF TypeOK, Take
  <1> QED
    BY <1>3, <1>6 DEF TypeOK, Take, gwVars

LEMMA TypedStep == TypeOK /\ [Next]_vars => TypeOK'
  <1> SUFFICES ASSUME TypeOK, [Next]_vars PROVE TypeOK'
    OBVIOUS
  <1>1. CASE BroadcastEnds
    <2>1. timer' \in Nat
      BY <1>1, DelayType DEF BroadcastEnds, TypeOK
    <2>2. 0 \in Ages
      BY ConstantFacts DEF Ages
    <2>3. queue' \in [Devices -> Seq(Ages)]
      <3>1. PICK heard \in SUBSET Devices : Insert(heard)
        BY <1>1 DEF BroadcastEnds
      <3>2. \A d \in Devices : Append(queue[d], 0) \in Seq(Ages) /\ queue[d] \in Seq(Ages)
        BY <2>2 DEF TypeOK
      <3> QED
        BY <3>1, <3>2 DEF Insert
    <2>4. Overlong(timer) \in BOOLEAN /\ (timer > Round) \in BOOLEAN
      BY DEF Overlong
    <2> QED
      BY <1>1, <2>1, <2>2, <2>3, <2>4 DEF BroadcastEnds, TypeOK
  <1>2. CASE BroadcastBegins
    BY <1>2 DEF BroadcastBegins, TypeOK, devVars
  <1>3. ASSUME NEW d \in Devices, Take(d) PROVE TypeOK'
    BY <1>3, TakeTypes
  <1>4. ASSUME NEW d \in Devices, ReportBegins(d) PROVE TypeOK'
    <2>1. Frame \in Ages
      BY ConstantFacts DEF Ages
    <2> QED
      BY <1>4, <2>1 DEF ReportBegins, TypeOK, gwVars
  <1>5. ASSUME NEW d \in Devices, ReportEnds(d) PROVE TypeOK'
    BY <1>5 DEF ReportEnds, TypeOK, gwVars
  <1>6. ASSUME NEW d \in Devices, SendReturns(d) PROVE TypeOK'
    BY <1>6 DEF SendReturns, TypeOK, gwVars
  <1>7. CASE Tick
    <2>1. timer' \in Nat
      BY <1>7 DEF Tick, GatewayIdle, TypeOK
    <2>2. since' \in Ages
      BY <1>7, OlderType DEF Tick, TypeOK
    <2>3. \A d \in Devices :
            [k \in 1..Len(queue[d]) |-> Older(queue[d][k])] \in Seq(Ages)
      <3> TAKE d \in Devices
      <3>1. queue[d] \in Seq(Ages) /\ Len(queue[d]) \in Nat
        BY DEF TypeOK
      <3>2. \A k \in 1..Len(queue[d]) : Older(queue[d][k]) \in Ages
        BY <3>1, OlderType
      <3> QED
        BY <3>1, <3>2
    <2>4. queue' \in [Devices -> Seq(Ages)]
      BY <1>7, <2>3 DEF Tick
    <2>5. left' \in [Devices -> Ages]
      <3>1. \A d \in Devices : task[d] \in {"armed", "air"} => left[d] > 0
        BY <1>7 DEF Tick, DeviceIdle
      <3>2. \A d \in Devices : left[d] \in Ages
        BY DEF TypeOK
      <3> QED
        BY <1>7, <3>1, <3>2, ConstantFacts DEF Tick, Ages
    <2> QED
      BY <1>7, <2>1, <2>2, <2>4, <2>5 DEF Tick, TypeOK
  <1>8. CASE UNCHANGED vars
    BY <1>8 DEF vars, gwVars, devVars, TypeOK
  <1> QED
    BY <1>1, <1>2, <1>3, <1>4, <1>5, <1>6, <1>7, <1>8 DEF Next, Gateway

(* Every variable of the model stays in its type. *)
THEOREM TypeCorrect == Spec => []TypeOK
  <1>1. Init => TypeOK
    BY TypedInit
  <1>2. TypeOK /\ [Next]_vars => TypeOK'
    BY TypedStep
  <1> QED
    BY <1>1, <1>2, PTL DEF Spec

-----------------------------------------------------------------------------
(* Why the plan works: what the ticks since the last broadcast say of all   *)
(* that is still to come.  A message is as old as the last broadcast, or so *)
(* old that its report would be late; a report that is on time waits for    *)
(* its place after the broadcast, and the gateway for the end of the last.  *)
GatewayPlan ==
  /\ gw = "delay" => timer + since >= Late
  /\ gw = "send" => since = Late

MessagePlan == \A d \in Devices : \A k \in 1..Len(queue[d]) : queue[d][k] \in {since, Late}

ArmedPlan(d) ==
  task[d] = "armed" /\ ~late[d] =>
    Order[d] # -1 /\ left[d] + since = Slot + Order[d] * Frame

AirPlan(d) ==
  OnTime(d) =>
    /\ Order[d] # -1
    /\ left[d] <= Frame
    /\ left[d] + since = Slot + Order[d] * Frame + Frame

Plan == GatewayPlan /\ MessagePlan /\ \A d \in Devices : ArmedPlan(d) /\ AirPlan(d)

PlanInv == TypeOK /\ (overlong \/ Plan)

(* A report on time keeps since below Late, and so the gateway silent.      *)
LEMMA OnTimeEarly ==
  ASSUME TypeOK, NEW d \in Devices, ArmedPlan(d), AirPlan(d),
         OnTime(d) \/ (task[d] = "armed" /\ ~late[d])
  PROVE  since < Late
  <1>1. left[d] \in Ages /\ since \in Ages
    BY DEF TypeOK
  <1>2. Order[d] # -1
    BY DEF ArmedPlan, AirPlan
  <1>3. Order[d] * Frame = 0 \/ Order[d] * Frame = Frame
    BY <1>2, PlaceFacts
  <1> DEFINE p == Order[d] * Frame
  <1>4. \/ left[d] + since = Slot + p
        \/ left[d] > 0 /\ left[d] + since = Slot + p + Frame
    BY DEF ArmedPlan, AirPlan, OnTime
  <1>5. p = 0 \/ p = Frame
    BY <1>3
  <1> HIDE DEF p
  <1> QED
    BY <1>1, <1>4, <1>5, ConstantFacts DEF Ages

LEMMA PlanInit == Init => PlanInv
  <1> SUFFICES ASSUME Init PROVE PlanInv
    OBVIOUS
  <1>1. GatewayPlan
    BY DEF Init, GatewayPlan
  <1>2. MessagePlan
    BY DEF Init, MessagePlan
  <1>3. \A d \in Devices : ArmedPlan(d) /\ AirPlan(d)
    BY DEF Init, ArmedPlan, AirPlan, OnTime
  <1> QED
    BY <1>1, <1>2, <1>3, TypedInit DEF PlanInv, Plan

(* The reports of the other devices are not touched. *)
LEMMA PlanOfOthers ==
  ASSUME Plan, NEW d \in Devices, task'[d] = task[d], left'[d] = left[d],
         late'[d] = late[d], since' = since
  PROVE  ArmedPlan(d)' /\ AirPlan(d)'
  <1>1. ArmedPlan(d) /\ AirPlan(d)
    BY DEF Plan
  <1> QED
    BY <1>1 DEF ArmedPlan, AirPlan, OnTime

(* An element of a queue of old messages to which a new one may be added.  *)
LEMMA AppendedElement ==
  ASSUME NEW S, NEW q \in Seq(S), NEW z, \A j \in 1..Len(q) : q[j] = z,
         NEW r, r = q \/ r = Append(q, 0), NEW k \in 1..Len(r)
  PROVE  r[k] \in {0, z}
  <1>1. CASE r = q
    BY <1>1
  <1>2. CASE r = Append(q, 0)
    <2>1. CASE k = Len(q) + 1
      BY <1>2, <2>1
    <2>2. CASE k # Len(q) + 1
      BY <1>2, <2>2
    <2> QED
      BY <2>1, <2>2
  <1> QED
    BY <1>1, <1>2

LEMMA BroadcastEndsPlan ==
  ASSUME TypeOK, Plan, BroadcastEnds, ~overlong'
  PROVE  Plan'
  <1>1. timer \in Nat /\ ~Overlong(timer) /\ gw = "send" /\ since = Late /\ since' = 0
    BY DEF BroadcastEnds, TypeOK, Plan, GatewayPlan
  <1>2. GatewayPlan'
    <2>1. timer' >= Late /\ timer' \in Nat
      BY <1>1, DelayKeepsPlan, DelayType DEF BroadcastEnds
    <2>2. gw' # "send"
      BY DEF BroadcastEnds
    <2>3. timer' + since' >= Late
      <3>1. \A t, s \in Nat : t >= Late /\ s = 0 => t + s >= Late
        BY ConstantFacts
      <3> QED
        BY <1>1, <2>1, <3>1
    <2> QED
      BY <2>2, <2>3 DEF GatewayPlan
  <1>3. MessagePlan'
    <2> SUFFICES ASSUME NEW d \in Devices, NEW k \in 1..Len(queue'[d])
                 PROVE  queue'[d][k] \in {0, Late}
      BY <1>1 DEF MessagePlan
    <2>1. PICK heard \in SUBSET Devices : Insert(heard)
      BY DEF BroadcastEnds
    <2>2. queue'[d] = queue[d] \/ queue'[d] = Append(queue[d], 0)
      BY <2>1 DEF Insert
    <2>3. queue[d] \in Seq(Ages) /\ \A j \in 1..Len(queue[d]) : queue[d][j] = Late
      BY <1>1 DEF TypeOK, Plan, MessagePlan
    <2> QED
      BY <2>2, <2>3, AppendedElement
  <1>4. ASSUME NEW d \in Devices PROVE ArmedPlan(d)' /\ AirPlan(d)'
    <2>1. ~OnTime(d) /\ ~(task[d] = "armed" /\ ~late[d])
      <3>1. ArmedPlan(d) /\ AirPlan(d) /\ ~(since < Late)
        BY <1>1, ConstantFacts DEF Plan
      <3> QED
        BY <3>1, OnTimeEarly
    <2>2. task' = task /\ left' = left /\ late' = late
      BY DEF BroadcastEnds
    <2> QED
      BY <2>1, <2>2 DEF ArmedPlan, AirPlan, OnTime
  <1> QED
    BY <1>2, <1>3, <1>4 DEF Plan

LEMMA BroadcastBeginsPlan ==
  ASSUME TypeOK, Plan, BroadcastBegins
  PROVE  Plan'
  <1>1. since = Late
    BY ConstantFacts DEF BroadcastBegins, TypeOK, Plan, GatewayPlan, Ages
  <1>2. GatewayPlan'
    BY <1>1 DEF BroadcastBegins, GatewayPlan
  <1>3. MessagePlan'
    BY DEF BroadcastBegins, devVars, Plan, MessagePlan
  <1>4. \A d \in Devices : ArmedPlan(d)' /\ AirPlan(d)'
    BY PlanOfOthers DEF BroadcastBegins, devVars
  <1> QED
    BY <1>2, <1>3, <1>4 DEF Plan

LEMMA TakePlan ==
  ASSUME TypeOK, Plan, NEW d \in Devices, Take(d)
  PROVE  Plan'
  <1>1. GatewayPlan'
    BY DEF Take, gwVars, Plan, GatewayPlan
  <1>2. /\ queue[d] \in Seq(Ages) /\ queue[d] # <<>>
        /\ since \in Ages /\ since' = since
    BY DEF TypeOK, Take, gwVars
  <1>3. MessagePlan'
    <2> SUFFICES ASSUME NEW e \in Devices, NEW k \in 1..Len(queue'[e])
                 PROVE  queue'[e][k] \in {since, Late}
      BY <1>2 DEF MessagePlan
    <2>1. CASE e = d
      <3>1. queue'[d] = Tail(queue[d])
        BY DEF Take, TypeOK
      <3>2. k + 1 \in 1..Len(queue[d]) /\ queue'[d][k] = queue[d][k + 1]
        BY <1>2, <2>1, <3>1
      <3> QED
        BY <2>1, <3>2 DEF Plan, MessagePlan
    <2>2. CASE e # d
      BY <2>2 DEF Take, Plan, MessagePlan, TypeOK
    <2> QED
      BY <2>1, <2>2
  <1>4. Head(queue[d]) \in {since, Late} /\ Head(queue[d]) \in Ages
    <2>1. 1 \in 1..Len(queue[d]) /\ Head(queue[d]) = queue[d][1]
      BY <1>2
    <2> QED
      BY <1>2, <2>1, ConstantFacts DEF Plan, MessagePlan, Ages
  <1>5. ASSUME NEW e \in Devices PROVE ArmedPlan(e)' /\ AirPlan(e)'
    <2>1. CASE task'[e] = task[e] /\ left'[e] = left[e] /\ late'[e] = late[e]
      BY <1>2, <2>1, PlanOfOthers
    <2>2. CASE e = d /\ Order[d] # -1 /\ StartIn(d, Head(queue[d])) >= 0
               /\ task'[d] = "armed" /\ left'[d] = StartIn(d, Head(queue[d]))
      <3>1. Head(queue[d]) = since
        BY <1>4, <2>2, StartType, ConstantFacts DEF Ages
      <3>2. left'[d] + since = Slot + Order[d] * Frame
        BY <1>4, <2>2, <3>1, StartType
      <3> QED
        BY <1>2, <2>2, <3>2 DEF ArmedPlan, AirPlan, OnTime
    <2>3. CASE e = d /\ task'[d] = "armed" /\ late'[d]
      BY <2>3 DEF ArmedPlan, AirPlan, OnTime
    <2> QED
      BY <2>1, <2>2, <2>3 DEF Take, TypeOK
  <1> QED
    BY <1>1, <1>3, <1>5 DEF Plan

LEMMA ReportPlan ==
  ASSUME TypeOK, Plan, NEW d \in Devices, ReportBegins(d) \/ ReportEnds(d) \/ SendReturns(d)
  PROVE  Plan'
  <1>1. UNCHANGED <<gwVars, queue, late>>
    BY DEF ReportBegins, ReportEnds, SendReturns
  <1>2. GatewayPlan'
    BY <1>1 DEF gwVars, Plan, GatewayPlan
  <1>3. MessagePlan'
    BY <1>1 DEF gwVars, Plan, MessagePlan
  <1>4. ASSUME NEW e \in Devices PROVE ArmedPlan(e)' /\ AirPlan(e)'
    <2>1. CASE e # d
      <3>1. task'[e] = task[e] /\ left'[e] = left[e] /\ late'[e] = late[e] /\ since' = since
        BY <1>1, <2>1 DEF ReportBegins, ReportEnds, SendReturns, TypeOK, gwVars
      <3> QED
        BY <3>1, PlanOfOthers
    <2>2. CASE e = d /\ ReportBegins(d)
      <3>1. /\ task'[d] = "air" /\ left'[d] = Frame /\ late'[d] = late[d] /\ since' = since
            /\ task[d] = "armed" /\ left[d] = 0
        BY <1>1, <2>2 DEF ReportBegins, TypeOK, gwVars
      <3>2. ~late[d] => Order[d] # -1 /\ 0 + since = Slot + Order[d] * Frame
        BY <3>1 DEF Plan, ArmedPlan
      <3>3. ~late[d] => Frame + since = Slot + Order[d] * Frame + Frame
        <4> DEFINE p == Order[d] * Frame
        <4>1. ~late[d] => Order[d] # -1 /\ (p = 0 \/ p = Frame) /\ 0 + since = Slot + p
          BY <3>2, PlaceFacts
        <4>2. since \in Nat
          BY ConstantFacts DEF TypeOK, Ages
        <4> HIDE DEF p
        <4>3. ~late[d] => Frame + since = Slot + p + Frame
          BY <4>1, <4>2, ConstantFacts
        <4> QED
          BY <4>3 DEF p
      <3> QED
        BY <2>2, <3>1, <3>2, <3>3, ConstantFacts DEF ArmedPlan, AirPlan, OnTime
    <2>3. CASE e = d /\ ~ReportBegins(d)
      <3>1. task'[d] \in {"wait", "held"}
        BY <2>3 DEF ReportEnds, SendReturns, TypeOK
      <3> QED
        BY <2>3, <3>1 DEF ArmedPlan, AirPlan, OnTime
    <2> QED
      BY <2>1, <2>2, <2>3
  <1> QED
    BY <1>2, <1>3, <1>4 DEF Plan

LEMMA TickPlan ==
  ASSUME TypeOK, Plan, Tick
  PROVE  Plan'
  <1>1. /\ since \in Ages /\ timer \in Nat
        /\ since' = Older(since)
    BY DEF TypeOK, Tick
  <1>2. GatewayPlan'
    BY <1>1, ConstantFacts DEF Tick, GatewayIdle, Plan, GatewayPlan, Older, Ages
  <1>3. MessagePlan'
    <2> SUFFICES ASSUME NEW d \in Devices, NEW k \in 1..Len(queue'[d])
                 PROVE  queue'[d][k] \in {since', Late}
      BY DEF MessagePlan
    <2>1. queue[d] \in Seq(Ages) /\ Len(queue[d]) \in Nat
      BY DEF TypeOK
    <2>2. queue'[d] = [j \in 1..Len(queue[d]) |-> Older(queue[d][j])]
      BY DEF Tick
    <2>3. Len(queue'[d]) = Len(queue[d])
      BY <2>1, <2>2
    <2>4. k \in 1..Len(queue[d]) /\ queue'[d][k] = Older(queue[d][k])
      BY <2>2, <2>3
    <2>5. queue[d][k] \in {since, Late}
      BY <2>4 DEF Plan, MessagePlan
    <2> QED
      BY <1>1, <2>4, <2>5, ConstantFacts DEF Older
  <1>4. ASSUME NEW d \in Devices PROVE ArmedPlan(d)' /\ AirPlan(d)'
    <2>1. task' = task /\ late' = late
      BY DEF Tick
    <2>2. left[d] \in Ages
      BY DEF TypeOK
    <2>3. CASE task[d] \in {"armed", "air"} /\ left[d] > 0 /\ ~late[d]
      <3>1. ArmedPlan(d) /\ AirPlan(d)
        BY DEF Plan
      <3>2. since < Late
        BY <2>3, <3>1, OnTimeEarly DEF OnTime
      <3>3. since' = since + 1 /\ left'[d] = left[d] - 1
        BY <1>1, <2>3, <3>2 DEF Older, Tick
      <3>4. left'[d] + since' = left[d] + since
        BY <1>1, <2>2, <3>3, ConstantFacts DEF Ages
      <3>5. left[d] <= Frame => left'[d] <= Frame
        BY <2>2, <3>3, ConstantFacts DEF Ages
      <3> QED
        BY <2>1, <2>3, <3>1, <3>4, <3>5 DEF ArmedPlan, AirPlan, OnTime
    <2>4. CASE task[d] \notin {"armed", "air"} \/ late[d]
      BY <2>1, <2>4 DEF ArmedPlan, AirPlan, OnTime
    <2> QED
      BY <2>3, <2>4 DEF Tick, DeviceIdle
  <1> QED
    BY <1>2, <1>3, <1>4 DEF Plan

LEMMA PlanStep == PlanInv /\ [Next]_vars => PlanInv'
  <1> SUFFICES ASSUME PlanInv, [Next]_vars PROVE PlanInv'
    OBVIOUS
  <1>1. TypeOK /\ TypeOK'
    BY TypedStep DEF PlanInv
  <1>2. overlong => overlong'
    BY <1>1 DEF Next, Gateway, vars, gwVars, BroadcastEnds, BroadcastBegins, Take, ReportBegins,
              ReportEnds, SendReturns, Tick, TypeOK
  <1>3. SUFFICES ASSUME ~overlong' PROVE Plan'
    BY <1>1 DEF PlanInv
  <1>4. Plan
    BY <1>2, <1>3 DEF PlanInv
  <1>5. CASE UNCHANGED vars
    <2>1. GatewayPlan'
      BY <1>4, <1>5 DEF vars, gwVars, Plan, GatewayPlan
    <2>2. MessagePlan'
      BY <1>4, <1>5 DEF vars, gwVars, devVars, Plan, MessagePlan
    <2>3. \A d \in Devices : ArmedPlan(d)' /\ AirPlan(d)'
      BY <1>4, <1>5, PlanOfOthers DEF vars, gwVars, devVars
    <2> QED
      BY <2>1, <2>2, <2>3 DEF Plan
  <1> QED
    BY <1>1, <1>3, <1>4, <1>5, BroadcastEndsPlan, BroadcastBeginsPlan, TakePlan, ReportPlan,
       TickPlan DEF Next, Gateway

LEMMA PlanSuffices == PlanInv => NoCollision
  <1> SUFFICES ASSUME PlanInv, ~overlong, NEW d \in Devices, OnTime(d)
               PROVE  gw # "send" /\ \A e \in Devices \ {d} : ~OnTime(e)
    BY DEF NoCollision
  <1>1. TypeOK /\ Plan
    BY DEF PlanInv
  <1>2. gw # "send"
    <2>1. ArmedPlan(d) /\ AirPlan(d)
      BY <1>1 DEF Plan
    <2>2. since < Late
      BY <1>1, <2>1, OnTimeEarly
    <2> QED
      BY <1>1, <2>2, ConstantFacts DEF Plan, GatewayPlan
  <1>3. ASSUME NEW e \in Devices \ {d}, OnTime(e) PROVE FALSE
    <2>1. AirPlan(d) /\ AirPlan(e)
      BY <1>1 DEF Plan
    <2>2. Order[d] # Order[e] /\ Order[d] # -1 /\ Order[e] # -1
      BY <1>3, <2>1, FixedTimeAssumption DEF AirPlan
    <2> DEFINE p == Order[d] * Frame
               q == Order[e] * Frame
    <2>3. (p = 0 /\ q = Frame) \/ (p = Frame /\ q = 0)
      <3>1. (Order[d] = 0 /\ p = 0) \/ (Order[d] = 1 /\ p = Frame)
        BY <2>2, PlaceFacts
      <3>2. (Order[e] = 0 /\ q = 0) \/ (Order[e] = 1 /\ q = Frame)
        BY <2>2, PlaceFacts
      <3> HIDE DEF p, q
      <3> QED
        BY <2>2, <3>1, <3>2
    <2>4. /\ left[d] + since = Slot + p + Frame /\ left[d] > 0 /\ left[d] <= Frame
          /\ left[e] + since = Slot + q + Frame /\ left[e] > 0 /\ left[e] <= Frame
      BY <1>3, <2>1 DEF AirPlan, OnTime
    <2>5. left[d] \in Nat /\ left[e] \in Nat /\ since \in Nat
      BY <1>1, ConstantFacts DEF TypeOK, Ages
    <2> HIDE DEF p, q
    <2> QED
      BY <2>3, <2>4, <2>5, ConstantFacts
  <1> QED
    BY <1>2, <1>3

(* No report that is on time meets another one or the next broadcast.       *)
THEOREM ReportsApart == Spec => []NoCollision
  <1>1. Init => PlanInv
    BY PlanInit
  <1>2. PlanInv /\ [Next]_vars => PlanInv'
    BY PlanStep
  <1>3. PlanInv => NoCollision
    BY PlanSuffices
  <1> QED
    BY <1>1, <1>2, <1>3, PTL DEF Spec

-----------------------------------------------------------------------------
(* The timer refuses the delay exactly when the broadcast outlasted the     *)
(* round: up to there the delay is what is left of the round, and beyond it *)
(* lies at the upper end of the word.                                       *)
LEMMA DelayRefused ==
  ASSUME NEW took \in AirTimes
  PROVE  took \in Nat /\ (Delay(took) < Half <=> took <= Round)
  <1> DEFINE p == Interval * DevNum
  <1>1. /\ p \in Nat /\ Round = Slot + p
        /\ took \in Nat /\ took <= Round + Half
    BY ConstantFacts, FixedTimeAssumption
  <1>2. Delay(took) = (Slot + p - took) % Word
    BY DEF Delay
  <1> HIDE DEF p
  <1>3. ASSUME took <= Round PROVE Delay(took) < Half
    <2>1. Slot + p - took \in 0..Round
      BY <1>1, <1>3, ConstantFacts
    <2>2. Delay(took) = Slot + p - took
      BY <1>2, <2>1, WordFacts
    <2> QED
      BY <1>1, <2>1, <2>2, ConstantFacts
  <1>4. ASSUME took > Round PROVE ~(Delay(took) < Half)
    <2> DEFINE x == Slot + p - took
    <2>1. x \in Int /\ x < 0 /\ x + Half >= 0
      BY <1>1, <1>4, ConstantFacts
    <2>2. Delay(took) = x % Word
      BY <1>2
    <2> HIDE DEF x
    <2>3. x % Word = x + Word
      BY <2>1, ConstantFacts
    <2> QED
      BY <2>1, <2>2, <2>3, ConstantFacts
  <1> QED
    BY <1>1, <1>3, <1>4, ConstantFacts

(* The gateway is lost in the timer's assertion exactly when a broadcast has *)
(* outlasted the whole round, for all durations and any width of the delay:  *)
(* the safety half of GatewayGoesOn.                                         *)
THEOREM GatewayLostIff == Spec => []GatewayLost
  <1>1. Init => GatewayLost
    BY DEF Init, GatewayLost
  <1>2. TypeOK /\ GatewayLost /\ [Next]_vars => GatewayLost'
    <2> SUFFICES ASSUME TypeOK, GatewayLost, [Next]_vars PROVE GatewayLost'
      OBVIOUS
    <2>1. CASE BroadcastEnds
      <3>1. gw = "send" /\ timer \in AirTimes /\ timer \in Nat
        BY <2>1 DEF BroadcastEnds, TypeOK
      <3>2. ~outlasted
        BY <3>1 DEF GatewayLost
      <3>3. gw' = "assert" <=> ~(Delay(timer) < Half)
        BY <2>1 DEF BroadcastEnds
      <3>4. outlasted' <=> timer > Round
        BY <2>1, <3>2 DEF BroadcastEnds
      <3>5. Delay(timer) < Half <=> ~(timer > Round)
        BY <3>1, DelayRefused, ConstantFacts
      <3> QED
        BY <3>3, <3>4, <3>5 DEF GatewayLost
    <2>2. CASE BroadcastBegins
      BY <2>2 DEF BroadcastBegins, GatewayLost
    <2>3. CASE ~BroadcastEnds /\ ~BroadcastBegins
      BY <2>3 DEF Next, Gateway, vars, gwVars, Take, ReportBegins, ReportEnds, SendReturns,
                  Tick, GatewayLost
    <2> QED
      BY <2>1, <2>2, <2>3
  <1> QED
    BY <1>1, <1>2, TypeCorrect, PTL DEF Spec
=============================================================================
