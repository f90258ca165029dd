------------------------------ MODULE StoreRing ------------------------------
(***************************************************************************)
(* The ring of received messages of PS/at/at_wiota_gpio_report.c.  The     *)
(* protocol stack's thread calls wiota_recv_callback, which in store mode  *)
(* puts the message into the ring and raises the report pin                *)
(* (wiota_data_insert); a one-shot timer lowers it again; the AT thread's  *)
(* AT+STOREDATA prints and empties the ring (wiota_data_show) and AT+MODE  *)
(* switches the mode.  Nothing is locked, so each access to the ring, to   *)
(* wiota_save_index, to the pin, the timer or the heap is a step of its    *)
(* own.  Of a length only matters whether it is 0: an insertion tests the  *)
(* data pointer alone, the walk of AT+STOREDATA the length as well.        *)
(***************************************************************************)
EXTENDS Integers, Sequences, FiniteSets

CONSTANTS
  N,          \* WIOTA_DATA_NUM
  None,       \* a null data pointer
  Empty,      \* the messages the stack delivers in a buffer with a length of 0
  TakeTurns,  \* TRUE: while a message is stored neither AT+STOREDATA runs nor
              \* the report pulse ends, nor the reverse
  MaxMsgs,    \* bound: messages in a behaviour
  MaxModes    \* bound: AT+MODE commands in a behaviour

ASSUME RingAssumption ==
  /\ N \in Nat \ {0}
  /\ None \notin Nat
  /\ Empty \subseteq Nat
  /\ TakeTurns \in BOOLEAN
  /\ MaxMsgs \in Nat
  /\ MaxModes \in Nat

VARIABLES
  mode,     \* wiota_gpio_mode: "uart" or "store"
  modes,    \* AT+MODE commands so far
  ring,     \* the data pointers of wiota_save_data
  sized,    \* its slots with a data_len above 0
  index,    \* wiota_save_index
  arrived,  \* messages received so far; a message is its number
  live,     \* messages whose buffer is allocated
  printed,  \* every message printed, in order
  timer,    \* wiota_gpio_timer: "none" (not created), "idle" or "active"
  due,      \* the timer has run out, its callback has yet to write the pin
  pin,      \* the report pin: "low" or "high"
  cb,       \* where the stack's thread is in wiota_data_insert
  at,       \* where the AT thread is in wiota_data_show
  i, max,   \* its loop counter and limit
  broken    \* what has gone wrong: "doubleFree", "useAfterFree", "outside"

cbVars == <<arrived, cb>>
atVars == <<at, i, max>>
pulse  == <<timer, due, pin>>
vars   == <<mode, modes, ring, sized, index, cbVars, atVars, live, printed, broken, pulse>>

Slots == 0..N-1
Msgs  == 1..MaxMsgs
Slot  == i % N

Init ==
  /\ mode = "uart"
  /\ modes = 0
  /\ ring = [s \in Slots |-> None]
  /\ sized = {}
  /\ index = -1
  /\ arrived = 0
  /\ live = {}
  /\ printed = <<>>
  /\ cb = "idle"
  /\ at = "idle"
  /\ i = 0
  /\ max = 0
  /\ broken = {}
  /\ timer \in {"none", "idle"}
  /\ due = FALSE
  /\ pin = "low"

(* rt_free: a null pointer is ignored, a block that is free already fails   *)
(* its assertion.                                                           *)
Free(m) ==
  /\ live' = live \ {m}
  /\ broken' = broken \cup (IF m # None /\ m \notin live THEN {"doubleFree"} ELSE {})

-----------------------------------------------------------------------------
(* The stack's thread. *)

(* wiota_recv_callback with a message that was received.  In UART mode it   *)
(* is printed, unless it is of a type that is not shown, and freed.         *)
Receive ==
  /\ cb = "idle"
  /\ TakeTurns => at = "idle" /\ ~due
  /\ arrived < MaxMsgs
  /\ arrived' = arrived + 1
  /\ \/ /\ mode = "uart"
        /\ printed' \in {printed, Append(printed, arrived')}
        /\ UNCHANGED <<live, cb>>
     \/ /\ mode = "store"
        /\ cb' = "wrap"
        /\ live' = live \cup {arrived'}
        /\ UNCHANGED printed
  /\ UNCHANGED <<mode, modes, ring, sized, index, atVars, broken, pulse>>

(* Mutant: the index goes one slot further before it wraps. *)
InsertWrapLate ==
  /\ cb = "wrap"
  /\ cb' = "next"
  /\ index' = IF index >= N THEN -1 ELSE index
  /\ UNCHANGED <<mode, modes, ring, sized, arrived, atVars, live, printed, broken, pulse>>

InsertWrap ==
  /\ cb = "wrap"
  /\ cb' = "next"
  /\ index' = IF index + 1 >= N THEN -1 ELSE index
  /\ UNCHANGED <<mode, modes, ring, sized, arrived, atVars, live, printed, broken, pulse>>

InsertNext ==
  /\ cb = "next"
  /\ cb' = "drop"
  /\ index' = index + 1
  /\ UNCHANGED <<mode, modes, ring, sized, arrived, atVars, live, printed, broken, pulse>>

(* wiota_save_index % WIOTA_DATA_NUM is -1 in C when the index is -1: the   *)
(* access falls outside the array.                                          *)
Outside(then) ==
  /\ index = -1
  /\ cb' = then
  /\ broken' = broken \cup {"outside"}
  /\ UNCHANGED <<ring, sized, live>>

(* Mutant: the displaced message is not freed. *)
InsertDropLeak ==
  /\ cb = "drop"
  /\ cb' = "copy"
  /\ UNCHANGED <<mode, modes, ring, sized, index, arrived, atVars, live, printed, broken, pulse>>

(* The message in the way is freed ... *)
InsertDrop ==
  /\ cb = "drop"
  /\ \/ Outside("copy")
     \/ index # -1 /\ cb' = "copy" /\ Free(ring[index % N]) /\ UNCHANGED <<ring, sized>>
  /\ UNCHANGED <<mode, modes, index, arrived, atVars, printed, pulse>>

(* ... and the new one is copied over it. *)
InsertCopy ==
  /\ cb = "copy"
  /\ \/ Outside("report")
     \/ /\ index # -1
        /\ cb' = "report"
        /\ ring' = [ring EXCEPT ![index % N] = arrived]
        /\ sized' = IF arrived \in Empty THEN sized \ {index % N} ELSE sized \cup {index % N}
        /\ UNCHANGED <<live, broken>>
  /\ UNCHANGED <<mode, modes, index, arrived, atVars, printed, pulse>>

(* Mutant: the pin is not written. *)
ReportQuiet ==
  /\ cb = "report"
  /\ cb' = IF timer = "idle" THEN "start" ELSE "idle"
  /\ UNCHANGED <<mode, modes, ring, sized, index, arrived, atVars, live, printed, broken, pulse>>

(* wiota_gpio_report_state: a pulse under way announces this message too.   *)
Report ==
  /\ cb = "report"
  /\ \/ timer = "idle" /\ cb' = "start" /\ pin' = "high"
     \/ timer # "idle" /\ cb' = "idle" /\ UNCHANGED pin
  /\ UNCHANGED <<mode, modes, ring, sized, index, arrived, atVars, live, printed, broken, timer, due>>

(* Mutant: the timer is not started. *)
ReportStartNot ==
  /\ cb = "start"
  /\ cb' = "idle"
  /\ UNCHANGED <<mode, modes, ring, sized, index, arrived, atVars, live, printed, broken, pulse>>

ReportStart ==
  /\ cb = "start"
  /\ cb' = "idle"
  /\ timer' = "active"
  /\ UNCHANGED <<mode, modes, ring, sized, index, arrived, atVars, live, printed, broken, due, pin>>

-----------------------------------------------------------------------------
(* The timer thread: it takes a timer that has run out off its list, which  *)
(* ends its active state, and then calls wiota_gpio_timer_cb.               *)

TimerExpires ==
  /\ timer = "active" /\ ~due
  /\ TakeTurns => cb = "idle"
  /\ timer' = "idle"
  /\ due' = TRUE
  /\ UNCHANGED <<mode, modes, ring, sized, index, cbVars, atVars, live, printed, broken, pin>>

PulseLow ==
  /\ due
  /\ pin' = "low"
  /\ due' = FALSE
  /\ UNCHANGED <<mode, modes, ring, sized, index, cbVars, atVars, live, printed, broken, timer>>

-----------------------------------------------------------------------------
(* The AT thread. *)

SetMode ==
  /\ at = "idle"
  /\ TakeTurns => cb = "idle"
  /\ modes < MaxModes
  /\ modes' = modes + 1
  /\ mode' \in {"uart", "store"}
  /\ UNCHANGED <<ring, sized, index, cbVars, atVars, live, printed, broken, pulse>>

(* Mutant: the walk always begins at the first slot. *)
ShowBeginFirst ==
  /\ at = "idle"
  /\ TakeTurns => cb = "idle"
  /\ index # -1
  /\ at' = "print"
  /\ i' = 0
  /\ max' = N
  /\ UNCHANGED <<mode, modes, ring, sized, index, cbVars, live, printed, broken, pulse>>

(* The walk begins after the newest message, at the oldest one. *)
ShowBegin ==
  /\ at = "idle"
  /\ TakeTurns => cb = "idle"
  /\ index # -1
  /\ at' = "print"
  /\ IF index + 1 >= N THEN i' = 0 /\ max' = N
                       ELSE i' = index + 1 /\ max' = index + 1 + N
  /\ UNCHANGED <<mode, modes, ring, sized, index, cbVars, live, printed, broken, pulse>>

(* A slot with a null pointer is passed over, and so is one with a length   *)
(* of 0, whose buffer is then not freed either.                             *)
ShowPrint ==
  /\ at = "print"
  /\ \/ /\ ring[Slot] = None \/ Slot \notin sized
        /\ at' = "clear"
        /\ UNCHANGED <<printed, broken>>
     \/ /\ ring[Slot] # None /\ Slot \in sized
        /\ at' = "free"
        /\ printed' = Append(printed, ring[Slot])
        /\ broken' = broken \cup (IF ring[Slot] \in live THEN {} ELSE {"useAfterFree"})
  /\ UNCHANGED <<mode, modes, ring, sized, index, cbVars, i, max, live, pulse>>

ShowFree ==
  /\ at = "free"
  /\ at' = "clear"
  /\ Free(ring[Slot])
  /\ UNCHANGED <<mode, modes, ring, sized, index, cbVars, i, max, printed, pulse>>

(* Mutant: the loop goes on without having emptied the slot. *)
ShowClearNot ==
  /\ at = "clear"
  /\ i' = i + 1
  /\ at' = IF i + 1 < max THEN "print" ELSE "reset"
  /\ UNCHANGED <<mode, modes, ring, sized, index, cbVars, max, live, printed, broken, pulse>>

(* Mutant: the pointer stays in its slot. *)
ShowClearKeep ==
  /\ at = "clear"
  /\ at' = "zero"
  /\ UNCHANGED <<mode, modes, ring, sized, index, cbVars, i, max, live, printed, broken, pulse>>

(* The pointer goes first, ...                                              *)
ShowClear ==
  /\ at = "clear"
  /\ at' = "zero"
  /\ ring' = [ring EXCEPT ![Slot] = None]
  /\ UNCHANGED <<mode, modes, sized, index, cbVars, i, max, live, printed, broken, pulse>>

(* ... then the length.                                                     *)
ShowZero ==
  /\ at = "zero"
  /\ sized' = sized \ {Slot}
  /\ i' = i + 1
  /\ at' = IF i + 1 < max THEN "print" ELSE "reset"
  /\ UNCHANGED <<mode, modes, ring, index, cbVars, max, live, printed, broken, pulse>>

ShowReset ==
  /\ at = "reset"
  /\ at' = "idle"
  /\ index' = -1
  /\ UNCHANGED <<mode, modes, ring, sized, cbVars, i, max, live, printed, broken, pulse>>

Insert == InsertWrap \/ InsertNext \/ InsertDrop \/ InsertCopy \/ Report \/ ReportStart
Show   == ShowPrint \/ ShowFree \/ ShowClear \/ ShowZero \/ ShowReset
Pulse  == TimerExpires \/ PulseLow
Next   == Receive \/ Insert \/ SetMode \/ ShowBegin \/ Show \/ Pulse

Spec == Init /\ [][Next]_vars

(* Threads that are not blocked get on, and a running timer runs out.       *)
FairSpec == Spec /\ WF_vars(Insert) /\ WF_vars(Pulse)

-----------------------------------------------------------------------------
(* Type correctness. *)
TypeOK ==
  /\ mode \in {"uart", "store"}
  /\ modes \in 0..MaxModes
  /\ ring \in [Slots -> Msgs \cup {None}]
  /\ sized \subseteq Slots
  /\ index \in -1..N-1
  /\ arrived \in 0..MaxMsgs
  /\ live \subseteq Msgs
  /\ printed \in Seq(Msgs)
  /\ timer \in {"none", "idle", "active"}
  /\ due \in BOOLEAN
  /\ pin \in {"low", "high"}
  /\ cb \in {"idle", "wrap", "next", "drop", "copy", "report", "start"}
  /\ at \in {"idle", "print", "free", "clear", "zero", "reset"}
  /\ i \in 0..2*N
  /\ max \in 0..2*N
  /\ broken \subseteq {"doubleFree", "useAfterFree", "outside"}

(* No message is printed twice, however insertions and AT+STOREDATA         *)
(* interleave.                                                              *)
PrintedOnce ==
  \A j, k \in 1..Len(printed) : printed[j] = printed[k] => j = k

(* Where the two never run at the same time nothing goes wrong: no buffer   *)
(* is freed twice or read after it was freed, no slot outside the ring is   *)
(* touched.                                                                 *)
Sound == broken = {}

(* ... and whatever the ring points to is allocated, and whatever is        *)
(* allocated is in the ring, but for empty messages: AT+STOREDATA clears    *)
(* their pointers without freeing their buffers, which are lost.  No other  *)
(* buffer ever is.                                                          *)
NoLeak ==
  cb = "idle" /\ at = "idle" =>
    LET held == {ring[s] : s \in Slots} \ {None}
    IN  held \subseteq live /\ live \ held \subseteq Empty

(* ... and the host is told of every stored message: when one has been      *)
(* stored the pin is high, raised for it or by a pulse that has not ended.  *)
Tells     == cb # "idle" /\ cb' = "idle" => timer = "none" \/ pin' = "high"
Announced == [][Tells]_vars

(* Every pulse ends, however storing and the timer interleave.              *)
PulseEnds == pin = "high" ~> pin = "low"

(* What rt_free asserts of its block (rt-thread/src/mem.c).                 *)
NoDoubleFree == "doubleFree" \notin broken

(* The messages the ring holds, oldest first.  A walk has printed what is   *)
(* behind it; an insertion has moved the index before it replaces the       *)
(* oldest message.                                                          *)
First ==
  CASE at = "print"                     -> i
    [] at \in {"free", "clear", "zero"} -> i + 1
    [] cb \in {"drop", "copy"}          -> index
    [] OTHER                            -> index + 1
Left    == IF at \in {"print", "free", "clear", "zero"} THEN max - First ELSE N
Meets(k) == ring[(First + k) % N]

(* The walk meets the empty slots first, and the messages behind them.      *)
Empties == Cardinality({k \in 0..Left-1 : Meets(k) = None})
Held    == [k \in 1..Left-Empties |-> Meets(Empties + k - 1)]

(* The ring does what the queue promises.                                   *)
Queue     == INSTANCE StoreQueue WITH Capacity <- N, queue <- Held
QueueSpec == Queue!Spec
=============================================================================
