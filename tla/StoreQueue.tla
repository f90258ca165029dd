----------------------------- MODULE StoreQueue -----------------------------
(***************************************************************************)
(* What the store mode of the GPIO report promises: a queue of the newest  *)
(* Capacity messages.  A message that finds it full displaces the oldest;  *)
(* AT+STOREDATA prints the queue oldest first, but drops an empty message  *)
(* unprinted; in UART mode a message is printed at once, whatever the      *)
(* queue still holds.                                                      *)
(***************************************************************************)
EXTENDS Naturals, Sequences

CONSTANTS
  Capacity,
  Empty     \* the messages of length 0

VARIABLES
  arrived,  \* messages received so far; a message is its number
  queue,
  printed   \* every message printed, in order

Init ==
  /\ arrived = 0
  /\ queue = <<>>
  /\ printed = <<>>

(* The message reaches the queue some time after it has arrived. *)
Arrive ==
  /\ arrived' = arrived + 1
  /\ UNCHANGED <<queue, printed>>

Store(m) ==
  /\ queue' = Append(IF Len(queue) < Capacity THEN queue ELSE Tail(queue), m)
  /\ UNCHANGED <<arrived, printed>>

PrintOldest ==
  /\ queue # <<>>
  /\ Head(queue) \notin Empty
  /\ printed' = Append(printed, Head(queue))
  /\ queue' = Tail(queue)
  /\ UNCHANGED arrived

DropEmpty ==
  /\ queue # <<>>
  /\ Head(queue) \in Empty
  /\ queue' = Tail(queue)
  /\ UNCHANGED <<arrived, printed>>

Pass ==
  /\ arrived' = arrived + 1
  /\ printed' = Append(printed, arrived')
  /\ UNCHANGED queue

Next == Arrive \/ Store(arrived) \/ PrintOldest \/ DropEmpty \/ Pass

Spec == Init /\ [][Next]_<<arrived, queue, printed>>
=============================================================================
