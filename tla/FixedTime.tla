------------------------------ MODULE FixedTime ------------------------------
(***************************************************************************)
(* The fixed-time demonstrations of PS/app/test: a gateway                 *)
(* (test_wiota_fixed_time_gw.c) broadcasts the list of the devices that    *)
(* shall report, and each device on it (test_wiota_fixed_time_dev.c) sends *)
(* its report at a time of its own, counted from the reception of the      *)
(* broadcast: cur_rf_cnt + bc_interval + order * state_get_frame_len().    *)
(* The gateway keeps no record of the reports; its next broadcast comes    *)
(* when it believes them all to be over.                                   *)
(*                                                                         *)
(* In a device the stack's thread puts a broadcast with the time of its    *)
(* reception into a queue (user_recv_callback), from which a task takes it *)
(* (manager_operation_task).  The clocks are taken to run equally fast, so *)
(* times are kept as ticks that are left or have gone by.                  *)
(***************************************************************************)
EXTENDS Integers, Sequences

CONSTANTS
  Devices,
  Order,      \* the place of a device in msg.dev_id, or -1: it is not listed
  Slot,       \* ASYNC_BC_SLOT: from a broadcast to the first report
  Interval,   \* ASYNC_REPORT_INTAERVAL: the time the gateway leaves for a report
  DevNum,     \* ASYNC_BC_DEV_NUM: the reports it leaves time for
  Frame,      \* state_get_frame_len: the time a report takes
  AirTimes,   \* how long the gateway's blocking broadcast may take
  Jitter,     \* how long a message waits for a task that is free
  QueueSize,  \* messages operation_queue_handle holds
  Word        \* 2^32, or an even bound in its place: values of a tick count

Round == Slot + Interval * DevNum
Half  == (Word - 1) \div 2   \* RT_TICK_MAX / 2: a timer takes less
Late  == Slot + 2 * Frame    \* an age at which every report is over
Ages  == 0..Late

ASSUME FixedTimeAssumption ==
  /\ Order \in [Devices -> {-1, 0, 1}]
  /\ \A d, e \in Devices : Order[d] = Order[e] /\ Order[d] # -1 => d = e
  /\ Slot \in Nat /\ Interval \in Nat /\ DevNum \in Nat
  /\ Frame \in Nat \ {0}
  /\ AirTimes \subseteq Nat \ {0}
  /\ Jitter \in Nat
  /\ QueueSize \in Nat \ {0}
  /\ Word \in Nat /\ Round < Half
  /\ \A took \in AirTimes : took <= Round + Half

VARIABLES
  gw,       \* the gateway's task: in the "send" call, in the "delay", or lost
            \* in the "assert" of the timer
  timer,    \* ticks spent in the call, or left of the delay
  since,    \* ticks since its last broadcast was over, up to Late
  overlong, \* some broadcast has taken longer than the plan has room for
  outlasted, \* some broadcast has taken longer than a whole Round
  queue,    \* a device's messages: the age of each, up to Late
  task,     \* a device's task: it may "wait" for a message or for its start
            \* time ("armed"), be on the "air", or be held by the stack after that
  left,     \* ticks to the start of its report, then to the end of it
  late      \* the start time had passed when the message was taken

gwVars  == <<gw, timer, since, overlong, outlasted>>
devVars == <<queue, task, left, late>>
vars    == <<gwVars, devVars>>

Init ==
  /\ gw = "send"
  /\ timer = 0
  /\ since = Late
  /\ overlong = FALSE
  /\ outlasted = FALSE
  /\ queue = [d \in Devices |-> <<>>]
  /\ task = [d \in Devices |-> "wait"]
  /\ left = [d \in Devices |-> 0]
  /\ late = [d \in Devices |-> FALSE]

-----------------------------------------------------------------------------
(* The gateway. *)

(* Mutant: the delay is computed without the type's width. *)
DelaySigned(took) == Slot + Interval * DevNum - took

(* Mutant: the operands of the subtraction are swapped. *)
DelaySwapped(took) == (took - (Slot + Interval * DevNum)) % Word

(* delay_time, an unsigned int. *)
Delay(took) == (Slot + Interval * DevNum - took) % Word

(* No room is left for the reports of two devices. *)
Overlong(took) == took + 2 * Frame > Interval * DevNum

(* user_recv_callback: a full queue does not take the message, whose buffer *)
(* is then freed.                                                           *)
Insert(heard) ==
  queue' = [d \in Devices |->
    IF d \in heard /\ Len(queue[d]) < QueueSize THEN Append(queue[d], 0) ELSE queue[d]]

(* uc_wiota_send_data returns, with success or not; any of the devices may  *)
(* have heard it.  The timer's assertion refuses half of the range or more. *)
BroadcastEnds ==
  /\ gw = "send"
  /\ timer \in AirTimes
  /\ timer' = Delay(timer)
  /\ gw' = IF Delay(timer) < Half THEN "delay" ELSE "assert"
  /\ since' = 0
  /\ overlong' = (overlong \/ Overlong(timer))
  /\ outlasted' = (outlasted \/ timer > Round)
  /\ \E heard \in SUBSET Devices : Insert(heard)
  /\ UNCHANGED <<task, left, late>>

BroadcastBegins ==
  /\ gw = "delay"
  /\ timer = 0
  /\ gw' = "send"
  /\ UNCHANGED <<timer, since, overlong, outlasted, devVars>>

-----------------------------------------------------------------------------
(* A device. *)

(* Mutant: the start time is counted from now. *)
StartInNow(d, age) == Slot + Order[d] * Frame

(* Ticks until dev_start_time, counted from the reception. *)
StartIn(d, age) == Slot + Order[d] * Frame - age

(* rt_mq_recv, and what becomes of the message: it is freed by a device     *)
(* that is not on the list; a report waits for its start time; what the     *)
(* stack does when that has passed is its secret, it sends at once or not.  *)
Take(d) ==
  /\ task[d] = "wait"
  /\ queue[d] # <<>>
  /\ queue' = [queue EXCEPT ![d] = Tail(@)]
  /\ LET start == StartIn(d, Head(queue[d])) IN
     \/ /\ Order[d] = -1
        /\ UNCHANGED <<task, left, late>>
     \/ /\ Order[d] # -1 /\ start >= 0
        /\ task' = [task EXCEPT ![d] = "armed"]
        /\ left' = [left EXCEPT ![d] = start]
        /\ late' = [late EXCEPT ![d] = FALSE]
     \/ /\ Order[d] # -1 /\ start < 0
        /\ task' = [task EXCEPT ![d] = "armed"]
        /\ left' = [left EXCEPT ![d] = 0]
        /\ late' = [late EXCEPT ![d] = TRUE]
     \/ /\ Order[d] # -1 /\ start < 0
        /\ UNCHANGED <<task, left, late>>
  /\ UNCHANGED gwVars

ReportBegins(d) ==
  /\ task[d] = "armed"
  /\ left[d] = 0
  /\ task' = [task EXCEPT ![d] = "air"]
  /\ left' = [left EXCEPT ![d] = Frame]
  /\ UNCHANGED <<gwVars, queue, late>>

(* The report is over.  The call returns, or holds the task for up to its   *)
(* timeout of 60 s, which is long enough to fill the queue.                 *)
ReportEnds(d) ==
  /\ task[d] = "air"
  /\ left[d] = 0
  /\ task' \in {[task EXCEPT ![d] = "wait"], [task EXCEPT ![d] = "held"]}
  /\ UNCHANGED <<gwVars, queue, left, late>>

SendReturns(d) ==
  /\ task[d] = "held"
  /\ task' = [task EXCEPT ![d] = "wait"]
  /\ UNCHANGED <<gwVars, queue, left, late>>

-----------------------------------------------------------------------------
(* Time passes where nothing is due. *)

Older(age) == IF age < Late THEN age + 1 ELSE age

GatewayIdle ==
  \/ gw = "send" /\ \E took \in AirTimes : timer < took
  \/ gw = "delay" /\ timer > 0
  \/ gw = "assert"

DeviceIdle(d) ==
  /\ task[d] \in {"armed", "air"} => left[d] > 0
  /\ task[d] = "wait" /\ queue[d] # <<>> => Head(queue[d]) < Jitter

Tick ==
  /\ GatewayIdle
  /\ \A d \in Devices : DeviceIdle(d)
  /\ timer' = CASE gw = "send"   -> timer + 1
                [] gw = "delay"  -> timer - 1
                [] gw = "assert" -> timer
  /\ since' = Older(since)
  /\ queue' = [d \in Devices |-> [k \in 1..Len(queue[d]) |-> Older(queue[d][k])]]
  /\ left' = [d \in Devices |-> IF task[d] \in {"armed", "air"} THEN left[d] - 1 ELSE left[d]]
  /\ UNCHANGED <<gw, overlong, outlasted, task, late>>

Gateway == BroadcastEnds \/ BroadcastBegins
Next ==
  \/ Gateway
  \/ \E d \in Devices : Take(d) \/ ReportBegins(d) \/ ReportEnds(d) \/ SendReturns(d)
  \/ Tick

Spec == Init /\ [][Next]_vars

(* Time goes on, and what is due is done. *)
FairSpec == Spec /\ WF_vars(Next) /\ WF_vars(Gateway)

-----------------------------------------------------------------------------
(* Type correctness. *)
TypeOK ==
  /\ gw \in {"send", "delay", "assert"}
  /\ timer \in Nat
  /\ since \in Ages
  /\ overlong \in BOOLEAN
  /\ outlasted \in BOOLEAN
  /\ queue \in [Devices -> Seq(Ages)]
  /\ task \in [Devices -> {"wait", "armed", "air", "held"}]
  /\ left \in [Devices -> Ages]
  /\ late \in [Devices -> BOOLEAN]

(* The plan works: as long as no broadcast took longer than there is room   *)
(* for, a report that is sent at its start time meets neither another one   *)
(* nor the gateway's next broadcast, however long the message that asked    *)
(* for it lay in the queue.                                                 *)
OnTime(d) == task[d] = "air" /\ left[d] > 0 /\ ~late[d]
NoCollision ==
  overlong \/ \A d \in Devices : OnTime(d) =>
    gw # "send" /\ \A e \in Devices \ {d} : ~OnTime(e)

(* The unsigned delay is one the timer refuses exactly when a broadcast has  *)
(* outlasted the whole round: the gateway is then lost in the assertion for  *)
(* good, and in no other case, however little time was left.                 *)
GatewayLost == gw = "assert" <=> outlasted

(* The gateway broadcasts again and again, until a broadcast outlasts the    *)
(* round.  One that merely leaves too little room for the reports (Overlong) *)
(* shortens the delay, down to none, and does not stop it.                   *)
GatewayGoesOn == [](GatewayLost /\ <>(gw = "send" \/ outlasted))
=============================================================================
