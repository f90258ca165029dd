-------------------------------- MODULE Relay --------------------------------
(***************************************************************************)
(* The relay demonstration of PS/app/test/wiota_relay_test.c: one device   *)
(* built with ONLY_SEND_TEST sends a numbered message now and then, all    *)
(* others pass on what they hear.  In each of the others the stack's       *)
(* thread puts received messages into a queue (test_recv_async_callback)   *)
(* and a relay task takes them out, drops a number it has just relayed,    *)
(* waits, and broadcasts the rest again.  A message is its number: the     *)
(* sender's id in it differs from the id of every device that relays, so   *)
(* buf->id != data.id always holds.                                        *)
(***************************************************************************)
EXTENDS Integers, Sequences, FiniteSets

CONSTANTS
  Sender,    \* the device with ONLY_SEND_TEST
  Relays,    \* the devices without it
  Near,      \* the relays that hear a device
  Capacity,  \* messages test_aync_queueHandle holds: 10, 80 bytes with their headers
  Copies,    \* times a message is sent (test_async_send_data)
  Modulus,   \* values of a number, 2^32 in the code
  Lossy,     \* TRUE: a neighbour may miss all copies of a message
  Patient,   \* TRUE: the sender's delay outlasts the relaying of its message
  MaxSends   \* bound: messages of the sender

Devices == Relays \cup {Sender}
Numbers == 0..Modulus-1

ASSUME RelayAssumption ==
  /\ IsFiniteSet(Relays) /\ Sender \notin Relays
  /\ Near \in [Devices -> SUBSET Relays]
  /\ Capacity \in Nat \ {0}
  /\ Copies \in Nat \ {0}
  /\ Modulus \in Nat \ {0, 1}
  /\ Lossy \in BOOLEAN
  /\ Patient \in BOOLEAN
  /\ MaxSends \in Nat

VARIABLES
  num,     \* data.num of the sender
  sends,   \* messages it has begun to send
  task,    \* where a device's task is: "wait", "delay" or "send"
  left,    \* copies it has yet to send
  missed,  \* neighbours that have heard none of the copies so far
  queue,   \* a relay's queue
  buf,     \* the message its task works on
  last,    \* its test_recv_num
  lost,    \* some message met a full queue: its buffer is lost
  relayed  \* times a relay has relayed since the sender's last message, up to 2

relayVars == <<queue, buf, last, lost, relayed>>
vars == <<num, sends, task, left, missed, relayVars>>

Unset   == Modulus - 1

(* Mutant: the number is kept in a wider integer. *)
SuccWide(n) == n + 1

(* data.num++ *)
Succ(n) == (n + 1) % Modulus

(* Nothing of a message is left: no task works and no queue holds any. *)
Quiet ==
  /\ \A d \in Devices : task[d] = "wait"
  /\ \A r \in Relays : queue[r] = <<>>

Init ==
  /\ num \in Numbers
  /\ sends = 0
  /\ task = [d \in Devices |-> "wait"]
  /\ left = [d \in Devices |-> 0]
  /\ missed = [d \in Devices |-> {}]
  /\ queue = [r \in Relays |-> <<>>]
  /\ buf = [r \in Relays |-> 0]
  /\ last = [r \in Relays |-> Unset]
  /\ lost = FALSE
  /\ relayed = [r \in Relays |-> 0]

(* test_async_send_data begins. *)
Broadcast(d) ==
  /\ task' = [task EXCEPT ![d] = "send"]
  /\ left' = [left EXCEPT ![d] = Copies]
  /\ missed' = [missed EXCEPT ![d] = Near[d]]

(* The sender's first message, or the next one after its delay. *)
Originate ==
  /\ task[Sender] = "wait"
  /\ Patient => Quiet
  /\ sends < MaxSends
  /\ sends' = sends + 1
  /\ num' = IF sends = 0 THEN num ELSE Succ(num)
  /\ Broadcast(Sender)
  /\ relayed' = [r \in Relays |-> 0]
  /\ UNCHANGED <<queue, buf, last, lost>>

(* test_recv_async_callback of the relays that hear a copy.  If the queue   *)
(* stays full for four ticks the message is dropped without being freed.    *)
Receive(heard, m) ==
  /\ queue' = [r \in Relays |->
       IF r \in heard /\ Len(queue[r]) < Capacity THEN Append(queue[r], m) ELSE queue[r]]
  /\ lost' = (lost \/ \E r \in heard : Len(queue[r]) >= Capacity)

(* One uc_wiota_send_data: some of the neighbours hear it.  After the last  *)
(* copy a relay frees its buffer and waits again.                           *)
Send(d) ==
  /\ task[d] = "send"
  /\ left' = [left EXCEPT ![d] = @ - 1]
  /\ task' = [task EXCEPT ![d] = IF left[d] = 1 THEN "wait" ELSE "send"]
  /\ \E heard \in SUBSET Near[d] :
       /\ left[d] = 1 /\ ~Lossy => missed[d] \subseteq heard
       /\ missed' = [missed EXCEPT ![d] = @ \ heard]
       /\ Receive(heard, IF d = Sender THEN num ELSE buf[d])
  /\ UNCHANGED <<num, sends, buf, last, relayed>>

(* The task takes a message from the queue. *)
Take(r) ==
  /\ task[r] = "wait"
  /\ queue[r] # <<>>
  /\ queue' = [queue EXCEPT ![r] = Tail(@)]
  /\ buf' = [buf EXCEPT ![r] = Head(queue[r])]
  /\ UNCHANGED <<num, sends, left, missed, last, lost, relayed>>

(* Mutant: a message is relayed every time it is heard. *)
FreshAlways(r) == TRUE

(* Mutant: only a higher number is new. *)
FreshHigher(r) == Head(queue[r]) > last[r]

Fresh(r) == Head(queue[r]) # last[r]

(* Mutant: an old message is put back to be looked at later. *)
DropPutsBack(r) ==
  /\ task[r] = "wait"
  /\ queue[r] # <<>>
  /\ ~Fresh(r)
  /\ queue' = [queue EXCEPT ![r] = Append(Tail(@), Head(@))]
  /\ buf' = [buf EXCEPT ![r] = Head(queue[r])]
  /\ UNCHANGED <<num, sends, task, left, missed, last, lost, relayed>>

(* The message is freed, or its delay begins. *)
Drop(r) == Take(r) /\ ~Fresh(r) /\ UNCHANGED task
Keep(r) == Take(r) /\ Fresh(r) /\ task' = [task EXCEPT ![r] = "delay"]

(* Mutant: the number is not remembered. *)
RelayForgets(r) ==
  /\ task[r] = "delay"
  /\ Broadcast(r)
  /\ relayed' = [relayed EXCEPT ![r] = IF @ < 2 THEN @ + 1 ELSE 2]
  /\ UNCHANGED <<num, sends, queue, buf, last, lost>>

(* The delay is over: the number is remembered and the message sent.        *)
Relay(r) ==
  /\ task[r] = "delay"
  /\ last' = [last EXCEPT ![r] = buf[r]]
  /\ Broadcast(r)
  /\ relayed' = [relayed EXCEPT ![r] = IF @ < 2 THEN @ + 1 ELSE 2]
  /\ UNCHANGED <<num, sends, queue, buf, lost>>

Work(d) == Send(d) \/ (d \in Relays /\ (Drop(d) \/ Keep(d) \/ Relay(d)))
Next    == Originate \/ \E d \in Devices : Work(d)

(* Delays and sends end, and a task that has a message takes it.            *)
Spec     == Init /\ [][Next]_vars
FairSpec == Spec /\ \A d \in Devices : WF_vars(Work(d))

-----------------------------------------------------------------------------
(* Type correctness. *)
TypeOK ==
  /\ num \in Numbers
  /\ sends \in 0..MaxSends
  /\ task \in [Devices -> {"wait", "delay", "send"}]
  /\ left \in [Devices -> 0..Copies]
  /\ missed \in [Devices -> SUBSET Relays]
  /\ queue \in [Relays -> Seq(Numbers)]
  /\ buf \in [Relays -> Numbers]
  /\ last \in [Relays -> Numbers]
  /\ lost \in BOOLEAN
  /\ relayed \in [Relays -> 0..2]

(* With a patient sender no relay broadcasts a message twice, whatever the  *)
(* topology and whichever copies are lost: test_recv_num alone is enough.   *)
RelaysOnce == \A r \in Relays : relayed[r] <= 1

(* With a patient sender no queue overflows, so no buffer is lost, if it    *)
(* has room for every copy of every neighbour.                              *)
Heard(r)       == {d \in Devices : r \in Near[d]}
HasRoom        == \A r \in Relays : Copies * Cardinality(Heard(r)) <= Capacity
NothingDropped == HasRoom => ~lost

(* When all is quiet, whoever hears a device that has sent the message has  *)
(* relayed it, if the air lets one copy through: a message is dropped only  *)
(* because it has been relayed.                                             *)
HasSent(d)  == IF d = Sender THEN sends > 0 ELSE relayed[d] >= 1
NoneSkipped ==
  Quiet /\ ~lost /\ ~Lossy =>
    \A d \in Devices : HasSent(d) => \A r \in Near[d] : last[r] = num

(* Who is to hear of a message: the relays a chain of neighbours leads to,  *)
(* which no set closed under hearing can do without.                        *)
Closed(S) == Near[Sender] \subseteq S /\ \A q \in S : Near[q] \subseteq S
Reached   == {r \in Relays : \A S \in SUBSET Relays : Closed(S) => r \in S}

(* When all is quiet every relay that is connected to the sender has        *)
(* relayed its last message -- but for a first message whose number is the  *)
(* one test_recv_num starts with.                                           *)
AllReached ==
  Quiet /\ sends > 0 /\ ~(sends = 1 /\ num = Unset) => \A r \in Reached : relayed[r] >= 1

(* Every broadcast storm ends. *)
StormEnds == ~Quiet ~> Quiet
=============================================================================
