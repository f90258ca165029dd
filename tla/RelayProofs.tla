----------------------------- MODULE RelayProofs -----------------------------
(***************************************************************************)
(* Proofs about the relay demonstration, for any topology, any loss, any   *)
(* queue and any number of copies.                                         *)
(***************************************************************************)
EXTENDS Relay, FiniteSetTheorems, TLAPS

LEMMA NumberFacts ==
  /\ 0 \in Numbers
  /\ Unset \in Numbers
  /\ \A n \in Numbers : Succ(n) \in Numbers
  BY RelayAssumption DEF Numbers, Unset, Succ

LEMMA ConstantFacts ==
  /\ \A d \in Devices : Near[d] \in SUBSET Relays
  /\ Copies \in Nat /\ Copies >= 1
  /\ Sender \in Devices /\ \A r \in Relays : r \in Devices
  <1>1. \A d \in Devices : Near[d] \in SUBSET Relays
    BY RelayAssumption
  <1>2. Copies \in Nat /\ Copies >= 1
    BY RelayAssumption
  <1> QED
    BY <1>1, <1>2 DEF Devices

(* A task that sends has copies left. *)
Counts == \A d \in Devices : task[d] = "send" => left[d] >= 1

Typed == TypeOK /\ Counts

LEMMA TypedInit == Init => Typed
  <1> SUFFICES ASSUME Init PROVE Typed
    OBVIOUS
  <1>1. num \in Numbers /\ lost \in BOOLEAN /\ queue \in [Relays -> Seq(Numbers)]
    <2>1. num \in Numbers /\ lost \in BOOLEAN
      BY DEF Init
    <2>2. queue \in [Relays -> Seq(Numbers)]
      BY DEF Init
    <2> QED
      BY <2>1, <2>2
  <1>2. sends \in 0..MaxSends
    <2>1. 0 \in 0..MaxSends
      BY RelayAssumption
    <2> QED
      BY <2>1 DEF Init
  <1>3. left \in [Devices -> 0..Copies] /\ relayed \in [Relays -> 0..2]
    BY ConstantFacts DEF Init
  <1>4. buf \in [Relays -> Numbers] /\ last \in [Relays -> Numbers]
    BY NumberFacts DEF Init
  <1>5. /\ task \in [Devices -> {"wait", "delay", "send"}]
        /\ missed \in [Devices -> SUBSET Relays]
        /\ Counts
    BY DEF Init, Counts
  <1> QED
    BY <1>1, <1>2, <1>3, <1>4, <1>5 DEF Typed, TypeOK

LEMMA BroadcastTypes ==
  ASSUME Typed, NEW d \in Devices, Broadcast(d)
  PROVE  /\ task' \in [Devices -> {"wait", "delay", "send"}]
         /\ left' \in [Devices -> 0..Copies]
         /\ missed' \in [Devices -> SUBSET Relays]
         /\ Counts'
  <1>1. Near[d] \in SUBSET Relays /\ Copies \in 0..Copies /\ Copies >= 1
    BY ConstantFacts
  <1> QED
    BY <1>1 DEF Counts, Typed, TypeOK, Broadcast

LEMMA TypedStep == Typed /\ [Next]_vars => Typed'
  <1> SUFFICES ASSUME Typed, [Next]_vars PROVE Typed'
    OBVIOUS
  <1> USE DEF Typed
  <1>1. CASE Originate
    <2>1. sends' \in 0..MaxSends /\ num' \in Numbers
      BY <1>1, NumberFacts, RelayAssumption DEF Originate, TypeOK
    <2>2. Sender \in Devices
      BY DEF Devices
    <2> QED
      BY <1>1, <2>1, <2>2, BroadcastTypes DEF Originate, TypeOK
  <1>2. ASSUME NEW d \in Devices, Send(d) PROVE Typed'
    <2>1. left[d] >= 1 /\ left[d] \in 0..Copies
      BY <1>2 DEF Send, Counts, TypeOK
    <2>2. left' \in [Devices -> 0..Copies]
      BY <1>2, <2>1, ConstantFacts DEF Send, TypeOK
    <2>3. task' \in [Devices -> {"wait", "delay", "send"}]
      BY <1>2 DEF Send, TypeOK
    <2>4. Counts'
      <3> SUFFICES ASSUME NEW e \in Devices, task'[e] = "send" PROVE left'[e] >= 1
        BY DEF Counts
      <3>1. CASE e = d
        BY <1>2, <2>1, <3>1 DEF Send, TypeOK
      <3>2. CASE e # d
        BY <1>2, <3>2 DEF Send, TypeOK, Counts
      <3> QED
        BY <3>1, <3>2
    <2> DEFINE m == IF d = Sender THEN num ELSE buf[d]
    <2>5. m \in Numbers
      BY DEF TypeOK, Devices
    <2>6. PICK heard \in SUBSET Near[d] :
            /\ missed' = [missed EXCEPT ![d] = @ \ heard]
            /\ Receive(heard, m)
      BY <1>2 DEF Send
    <2> HIDE DEF m
    <2>7. missed' \in [Devices -> SUBSET Relays]
      BY <2>6 DEF TypeOK
    <2>8. ASSUME NEW r \in Relays
          PROVE  queue'[r] \in Seq(Numbers)
      BY <2>5, <2>6 DEF Receive, TypeOK
    <2>9. queue' \in [Relays -> Seq(Numbers)] /\ lost' \in BOOLEAN
      BY <2>6, <2>8 DEF Receive, TypeOK
    <2> QED
      BY <1>2, <2>2, <2>3, <2>4, <2>7, <2>9 DEF Send, TypeOK
  <1>3. ASSUME NEW r \in Relays, Drop(r) \/ Keep(r) PROVE Typed'
    <2>0. Take(r)
      BY <1>3 DEF Drop, Keep
    <2>1. Head(queue[r]) \in Numbers /\ Tail(queue[r]) \in Seq(Numbers)
      BY <2>0 DEF Take, TypeOK
    <2>2. queue' \in [Relays -> Seq(Numbers)] /\ buf' \in [Relays -> Numbers]
      BY <2>0, <2>1 DEF Take, TypeOK
    <2>3. task' \in [Devices -> {"wait", "delay", "send"}] /\ Counts'
      BY <1>3 DEF Drop, Keep, Take, TypeOK, Counts
    <2> QED
      BY <1>3, <2>2, <2>3 DEF Drop, Keep, Take, TypeOK
  <1>4. ASSUME NEW r \in Relays, Relay(r) PROVE Typed'
    <2>1. r \in Devices
      BY DEF Devices
    <2>2. last' \in [Relays -> Numbers]
      BY <1>4 DEF Relay, TypeOK
    <2>3. relayed' \in [Relays -> 0..2]
      <3>1. relayed[r] \in 0..2
        BY DEF TypeOK
      <3> DEFINE more == IF relayed[r] < 2 THEN relayed[r] + 1 ELSE 2
      <3>2. more \in 0..2
        BY <3>1
      <3>3. relayed' = [relayed EXCEPT ![r] = more]
        BY <1>4 DEF Relay
      <3> HIDE DEF more
      <3> QED
        BY <3>2, <3>3 DEF TypeOK
    <2> QED
      BY <1>4, <2>1, <2>2, <2>3, BroadcastTypes DEF Relay, TypeOK
  <1>5. CASE UNCHANGED vars
    BY <1>5 DEF vars, relayVars, TypeOK, Counts
  <1> QED
    BY <1>1, <1>2, <1>3, <1>4, <1>5 DEF Next, Work

(* Every variable stays in its type. *)
THEOREM TypeCorrect == Spec => []TypeOK
  <1>1. Typed => TypeOK
    BY DEF Typed
  <1> QED
    BY <1>1, TypedInit, TypedStep, PTL DEF Spec

(***************************************************************************)
(* With a patient sender only its last message is about.  A relay that has *)
(* relayed it remembers its number, and one that is about to has not       *)
(* relayed it yet.                                                         *)
(***************************************************************************)
OnlyLast ==
  \A r \in Relays :
    /\ \A k \in 1..Len(queue[r]) : queue[r][k] = num
    /\ task[r] # "wait" => buf[r] = num

Remembers ==
  \A r \in Relays :
    /\ relayed[r] <= 1
    /\ relayed[r] = 1 => last[r] = num
    /\ task[r] = "delay" => relayed[r] = 0

StormInv == Typed /\ OnlyLast /\ Remembers

LEMMA StormInit == Init => StormInv
  BY TypedInit DEF Init, StormInv, OnlyLast, Remembers, Devices

LEMMA StormStep ==
  ASSUME Patient
  PROVE  StormInv /\ [Next]_vars => StormInv'
  <1> SUFFICES ASSUME StormInv, [Next]_vars PROVE StormInv'
    OBVIOUS
  <1>0. Typed /\ Typed' /\ TypeOK /\ Relays \subseteq Devices /\ Sender \notin Relays
    BY TypedStep, RelayAssumption DEF StormInv, Typed, Devices
  <1>1. CASE Originate
    <2>1. \A r \in Relays : task[r] = "wait" /\ queue[r] = <<>>
      BY <1>0, <1>1 DEF Originate, Quiet
    <2>2. \A r \in Relays : task'[r] = "wait" /\ queue'[r] = <<>> /\ relayed'[r] = 0
      BY <1>0, <1>1, <2>1 DEF Originate, Broadcast, TypeOK
    <2> QED
      BY <1>0, <2>2 DEF StormInv, OnlyLast, Remembers
  <1>2. ASSUME NEW d \in Devices, Send(d) PROVE StormInv'
    <2> DEFINE m == IF d = Sender THEN num ELSE buf[d]
    <2>1. m = num
      BY <1>2 DEF Send, StormInv, OnlyLast, Devices
    <2>2. PICK heard : Receive(heard, m)
      BY <1>2 DEF Send
    <2> HIDE DEF m
    <2>3. /\ UNCHANGED <<num, buf, last, relayed>>
          /\ \A r \in Relays : task'[r] # "wait" => task[r] # "wait"
          /\ \A r \in Relays : task'[r] = "delay" => task[r] = "delay"
      BY <1>0, <1>2 DEF Send, TypeOK
    <2>4. ASSUME NEW r \in Relays
          PROVE  \A k \in 1..Len(queue'[r]) : queue'[r][k] = num
      <3>1. queue[r] \in Seq(Numbers) /\ \A k \in 1..Len(queue[r]) : queue[r][k] = num
        BY <1>0 DEF TypeOK, StormInv, OnlyLast
      <3>2. queue'[r] = queue[r] \/ queue'[r] = Append(queue[r], num)
        BY <2>1, <2>2 DEF Receive
      <3>3. num \in Numbers
        BY <1>0 DEF TypeOK
      <3> QED
        BY <3>1, <3>2, <3>3
    <2> QED
      BY <1>0, <2>3, <2>4 DEF StormInv, OnlyLast, Remembers
  <1>3. ASSUME NEW r \in Relays, Drop(r) \/ Keep(r) PROVE StormInv'
    <2>1. /\ task[r] = "wait" /\ queue[r] # <<>> /\ queue[r] \in Seq(Numbers)
          /\ queue' = [queue EXCEPT ![r] = Tail(@)]
          /\ buf' = [buf EXCEPT ![r] = Head(queue[r])]
          /\ UNCHANGED <<num, last, relayed>>
      BY <1>0, <1>3 DEF Drop, Keep, Take, TypeOK
    <2>2. Head(queue[r]) = num
      BY <2>1 DEF StormInv, OnlyLast
    <2>3. \A k \in 1..Len(Tail(queue[r])) : Tail(queue[r])[k] = num
      BY <2>1 DEF StormInv, OnlyLast
    <2>4. OnlyLast'
      <3> SUFFICES ASSUME NEW q \in Relays
                   PROVE  /\ \A k \in 1..Len(queue'[q]) : queue'[q][k] = num
                          /\ task'[q] # "wait" => buf'[q] = num
        BY <2>1 DEF OnlyLast
      <3>1. CASE q = r
        BY <1>0, <2>1, <2>2, <2>3, <3>1 DEF TypeOK
      <3>2. CASE q # r
        BY <1>0, <1>3, <2>1, <3>2 DEF TypeOK, Drop, Keep, StormInv, OnlyLast
      <3> QED
        BY <3>1, <3>2
    <2>5. Remembers'
      <3>1. CASE Drop(r)
        BY <2>1, <3>1 DEF Drop, StormInv, Remembers
      <3>2. CASE Keep(r)
        <4>1. last[r] # num
          BY <2>2, <3>2 DEF Keep, Fresh
        <4>2. relayed[r] = 0
          BY <1>0, <4>1 DEF StormInv, Remembers, TypeOK
        <4> QED
          BY <1>0, <2>1, <3>2, <4>2 DEF Keep, StormInv, Remembers, TypeOK
      <3> QED
        BY <1>3, <3>1, <3>2
    <2> QED
      BY <1>0, <2>4, <2>5 DEF StormInv
  <1>4. ASSUME NEW r \in Relays, Relay(r) PROVE StormInv'
    <2>1. relayed[r] = 0 /\ buf[r] = num
      BY <1>4 DEF Relay, StormInv, OnlyLast, Remembers
    <2>2. OnlyLast'
      BY <1>0, <1>4, <2>1 DEF Relay, Broadcast, StormInv, OnlyLast, TypeOK
    <2>3. Remembers'
      BY <1>0, <1>4, <2>1 DEF Relay, Broadcast, StormInv, Remembers, TypeOK
    <2> QED
      BY <1>0, <2>2, <2>3 DEF StormInv
  <1>5. CASE UNCHANGED vars
    BY <1>0, <1>5 DEF vars, relayVars, StormInv, OnlyLast, Remembers
  <1> QED
    BY <1>1, <1>2, <1>3, <1>4, <1>5 DEF Next, Work

(* Whatever the topology and the losses, with a patient sender each relay   *)
(* broadcasts a message at most once (RelaysOnce).                          *)
THEOREM NoEcho ==
  ASSUME Patient PROVE Spec => []RelaysOnce
  <1>1. StormInv => RelaysOnce
    BY DEF StormInv, Remembers, RelaysOnce
  <1>2. StormInv /\ [Next]_vars => StormInv'
    BY StormStep
  <1> QED
    BY <1>1, <1>2, StormInit, PTL DEF Spec

(***************************************************************************)
(* A neighbour that has heard a copy has the message in its queue or in    *)
(* work, or has relayed it; and a device that has sent all copies has been *)
(* heard by every neighbour.                                               *)
(***************************************************************************)
Has(r) == queue[r] # <<>> \/ task[r] = "delay" \/ last[r] = num

HeardHas ==
  ~lost => \A d \in Devices : HasSent(d) => \A r \in Near[d] \ missed[d] : Has(r)

AllHeard ==
  ~Lossy => \A d \in Devices : HasSent(d) /\ task[d] # "send" => missed[d] = {}

SpreadInv == StormInv /\ HeardHas /\ AllHeard

LEMMA SpreadInit == Init => SpreadInv
  <1> SUFFICES ASSUME Init PROVE SpreadInv
    OBVIOUS
  <1>1. \A d \in Devices : ~HasSent(d)
    BY DEF Init, HasSent, Devices
  <1> QED
    BY <1>1, StormInit DEF SpreadInv, HeardHas, AllHeard

LEMMA SpreadStep ==
  ASSUME Patient
  PROVE  SpreadInv /\ [Next]_vars => SpreadInv'
  <1> SUFFICES ASSUME SpreadInv, [Next]_vars PROVE SpreadInv'
    OBVIOUS
  <1>0. /\ StormInv /\ StormInv' /\ TypeOK /\ TypeOK'
        /\ Relays \subseteq Devices /\ Sender \in Devices /\ Sender \notin Relays
        /\ \A d \in Devices : Near[d] \subseteq Relays
    BY StormStep, ConstantFacts, RelayAssumption DEF SpreadInv, StormInv, Typed, Devices
  <1>1. CASE Originate
    <2>1. \A d \in Devices : HasSent(d)' => d = Sender
      BY <1>0, <1>1 DEF Originate, HasSent, Devices
    <2>2. missed'[Sender] = Near[Sender] /\ task'[Sender] = "send"
      BY <1>0, <1>1 DEF Originate, Broadcast, TypeOK
    <2> QED
      BY <1>0, <2>1, <2>2 DEF SpreadInv, HeardHas, AllHeard
  <1>2. ASSUME NEW d \in Devices, Send(d) PROVE SpreadInv'
    <2> DEFINE m == IF d = Sender THEN num ELSE buf[d]
    <2>1. PICK heard \in SUBSET Near[d] :
            /\ left[d] = 1 /\ ~Lossy => missed[d] \subseteq heard
            /\ missed' = [missed EXCEPT ![d] = @ \ heard]
            /\ Receive(heard, m)
      BY <1>2 DEF Send
    <2>2. /\ task[d] = "send"
          /\ task' = [task EXCEPT ![d] = IF left[d] = 1 THEN "wait" ELSE "send"]
          /\ UNCHANGED <<num, sends, last, relayed>>
      BY <1>2 DEF Send
    <2> HIDE DEF m
    <2>3. \A e \in Devices : HasSent(e)' = HasSent(e)
      BY <2>2 DEF HasSent
    <2>4. ASSUME NEW r \in Relays, ~lost'
          PROVE  (Has(r) => Has(r)') /\ (r \in heard => Has(r)')
      <3>1. queue[r] \in Seq(Numbers) /\ queue'[r] \in Seq(Numbers)
        BY <1>0 DEF TypeOK
      <3>2. queue'[r] = IF r \in heard /\ Len(queue[r]) < Capacity
                        THEN Append(queue[r], m) ELSE queue[r]
        BY <2>1 DEF Receive
      <3>3. r \in heard => ~(Len(queue[r]) >= Capacity)
        BY <2>1, <2>4 DEF Receive
      <3>4. r \in heard => Len(queue[r]) < Capacity
        BY <3>1, <3>3, RelayAssumption
      <3>5. Append(queue[r], m) # <<>>
        BY <3>1
      <3>6. (queue[r] # <<>> => queue'[r] # <<>>) /\ (r \in heard => queue'[r] # <<>>)
        BY <3>2, <3>4, <3>5
      <3>7. task[r] = "delay" => task'[r] = "delay"
        BY <1>0, <2>2 DEF TypeOK
      <3> QED
        BY <2>2, <3>6, <3>7 DEF Has
    <2>5. HeardHas'
      <3> SUFFICES ASSUME ~lost', NEW e \in Devices, HasSent(e),
                          NEW r \in Near[e] \ missed'[e]
                   PROVE  Has(r)'
        BY <2>3 DEF HeardHas
      <3>1. r \in Relays /\ ~lost
        BY <1>0, <2>1 DEF Receive
      <3>2. CASE r \notin missed[e]
        BY <2>4, <3>1, <3>2 DEF SpreadInv, HeardHas
      <3>3. CASE r \in missed[e]
        <4>1. r \in heard
          BY <1>0, <2>1, <3>3 DEF TypeOK
        <4> QED
          BY <2>4, <3>1, <4>1
      <3> QED
        BY <3>2, <3>3
    <2>6. AllHeard'
      <3> SUFFICES ASSUME ~Lossy, NEW e \in Devices, HasSent(e), task'[e] # "send"
                   PROVE  missed'[e] = {}
        BY <2>3 DEF AllHeard
      <3>1. CASE e = d
        BY <1>0, <2>1, <2>2, <3>1 DEF TypeOK
      <3>2. CASE e # d
        BY <1>0, <2>1, <2>2, <3>2 DEF SpreadInv, AllHeard, TypeOK
      <3> QED
        BY <3>1, <3>2
    <2> QED
      BY <1>0, <2>5, <2>6 DEF SpreadInv
  <1>3. ASSUME NEW q \in Relays, Drop(q) \/ Keep(q) PROVE SpreadInv'
    <2>1. Take(q) /\ queue[q] \in Seq(Numbers)
      BY <1>0, <1>3 DEF Drop, Keep, TypeOK
    <2>2. Head(queue[q]) = num
      BY <2>1 DEF Take, StormInv, OnlyLast, SpreadInv
    <2>3. \A d \in Devices : HasSent(d)' = HasSent(d) /\ missed'[d] = missed[d]
      BY <2>1 DEF Take, HasSent
    <2>4. Has(q)'
      <3>1. CASE Drop(q)
        BY <2>1, <2>2, <3>1 DEF Drop, Fresh, Take, Has
      <3>2. CASE Keep(q)
        BY <1>0, <3>2 DEF Keep, Has, TypeOK
      <3> QED
        BY <1>3, <3>1, <3>2
    <2>5. \A r \in Relays : Has(r) => Has(r)'
      <3> SUFFICES ASSUME NEW r \in Relays, r # q, Has(r) PROVE Has(r)'
        BY <2>4
      <3>1. queue'[r] = queue[r] /\ task'[r] = task[r] /\ last' = last /\ num' = num
        BY <1>0, <1>3, <2>1 DEF Drop, Keep, Take, TypeOK
      <3> QED
        BY <3>1 DEF Has
    <2>6. HeardHas'
      BY <1>0, <2>1, <2>3, <2>5 DEF SpreadInv, HeardHas, Take
    <2>7. AllHeard'
      <3>1. \A d \in Devices : task[d] = "send" => task'[d] = "send"
        BY <1>0, <1>3, <2>1 DEF Drop, Keep, Take, TypeOK
      <3> QED
        BY <2>3, <3>1 DEF SpreadInv, AllHeard
    <2> QED
      BY <1>0, <2>6, <2>7 DEF SpreadInv
  <1>4. ASSUME NEW q \in Relays, Relay(q) PROVE SpreadInv'
    <2>1. /\ q \in Devices /\ task[q] = "delay" /\ buf[q] = num
          /\ last' = [last EXCEPT ![q] = num]
          /\ task' = [task EXCEPT ![q] = "send"]
          /\ missed' = [missed EXCEPT ![q] = Near[q]]
          /\ UNCHANGED <<num, sends, queue, lost>>
      BY <1>0, <1>4 DEF Relay, Broadcast, StormInv, OnlyLast
    <2>2. \A d \in Devices : d # q => HasSent(d)' = HasSent(d)
      BY <1>0, <1>4 DEF Relay, HasSent, TypeOK, Devices
    <2>3. \A r \in Relays : Has(r) => Has(r)'
      BY <1>0, <2>1 DEF Has, TypeOK
    <2>4. missed'[q] = Near[q] /\ task'[q] = "send"
      BY <1>0, <2>1 DEF TypeOK
    <2>5. \A d \in Devices : d # q => missed'[d] = missed[d] /\ task'[d] = task[d]
      BY <1>0, <2>1 DEF TypeOK
    <2> QED
      BY <1>0, <2>1, <2>2, <2>3, <2>4, <2>5 DEF SpreadInv, HeardHas, AllHeard
  <1>5. CASE UNCHANGED vars
    BY <1>0, <1>5 DEF vars, relayVars, SpreadInv, HeardHas, AllHeard, HasSent, Has
  <1> QED
    BY <1>1, <1>2, <1>3, <1>4, <1>5 DEF Next, Work

(* Whatever the topology, a message is dropped only where it has been       *)
(* relayed: once all is quiet every neighbour of a device that has sent the *)
(* message has its number (NoneSkipped).                                    *)
THEOREM NobodySkipped ==
  ASSUME Patient PROVE Spec => []NoneSkipped
  <1>1. SpreadInv => NoneSkipped
    <2> SUFFICES ASSUME SpreadInv, Quiet, ~lost, ~Lossy,
                        NEW d \in Devices, HasSent(d), NEW r \in Near[d]
                 PROVE  last[r] = num
      BY DEF NoneSkipped
    <2>1. r \in Relays /\ r \in Devices
      BY ConstantFacts
    <2>2. missed[d] = {}
      BY DEF SpreadInv, AllHeard, Quiet
    <2> QED
      BY <2>1, <2>2 DEF SpreadInv, HeardHas, Has, Quiet
  <1>2. SpreadInv /\ [Next]_vars => SpreadInv'
    BY SpreadStep
  <1> QED
    BY <1>1, <1>2, SpreadInit, PTL DEF Spec

(***************************************************************************)
(* No queue overflows that has room for every copy of every neighbour: a   *)
(* queue holds no more messages than copies have been sent within the      *)
(* hearing of its relay.                                                   *)
(***************************************************************************)
CopiesSent(r) ==
  {t \in Heard(r) \X (1..Copies) : HasSent(t[1]) /\ t[2] > left[t[1]]}

(* A device that sends has counted the message as sent. *)
SendsOwn == \A d \in Devices : task[d] = "send" => HasSent(d)

Counted == \A r \in Relays : Len(queue[r]) <= Cardinality(CopiesSent(r))

RoomInv == StormInv /\ SendsOwn /\ Counted /\ NothingDropped

LEMMA CopiesFinite ==
  ASSUME NEW r \in Relays
  PROVE  /\ IsFiniteSet(Heard(r) \X (1..Copies))
         /\ Cardinality(Heard(r)) \in Nat
         /\ Cardinality(Heard(r) \X (1..Copies)) = Cardinality(Heard(r)) * Copies
  <1>1. IsFiniteSet(Devices)
    BY RelayAssumption, FS_AddElement DEF Devices
  <1>2. IsFiniteSet(Heard(r)) /\ Cardinality(Heard(r)) \in Nat
    BY <1>1, FS_Subset, FS_CardinalityType DEF Heard
  <1>3. IsFiniteSet(1..Copies) /\ Cardinality(1..Copies) = Copies
    BY ConstantFacts, FS_Interval
  <1> QED
    BY <1>2, <1>3, FS_Product

LEMMA CopiesSentFinite ==
  ASSUME NEW r \in Relays
  PROVE  IsFiniteSet(CopiesSent(r)) /\ Cardinality(CopiesSent(r)) \in Nat
  <1>1. CopiesSent(r) \subseteq Heard(r) \X (1..Copies)
    BY DEF CopiesSent
  <1> QED
    BY <1>1, CopiesFinite, FS_Subset, FS_CardinalityType

LEMMA RoomInit == Init => RoomInv
  <1> SUFFICES ASSUME Init PROVE RoomInv
    OBVIOUS
  <1>1. \A r \in Relays : Len(queue[r]) = 0
    BY DEF Init
  <1>2. Counted
    <2> SUFFICES ASSUME NEW r \in Relays PROVE Len(queue[r]) <= Cardinality(CopiesSent(r))
      BY DEF Counted
    <2>1. Cardinality(CopiesSent(r)) \in Nat
      BY CopiesSentFinite
    <2> QED
      BY <1>1, <2>1
  <1>3. SendsOwn /\ NothingDropped
    BY DEF Init, SendsOwn, NothingDropped
  <1> QED
    BY <1>2, <1>3, StormInit DEF RoomInv

(* A copy that is sent counts for each relay that may hear it. *)
LEMMA SendCounts ==
  ASSUME Typed, SendsOwn, NEW d \in Devices, Send(d), NEW r \in Relays
  PROVE  /\ IsFiniteSet(CopiesSent(r)')
         /\ Cardinality(CopiesSent(r)') \in Nat
         /\ Cardinality(CopiesSent(r)') <= Cardinality(Heard(r)) * Copies
         /\ Cardinality(CopiesSent(r)) <= Cardinality(CopiesSent(r)')
         /\ r \in Near[d] => Cardinality(CopiesSent(r)) + 1 <= Cardinality(CopiesSent(r)')
  <1> DEFINE all == Heard(r) \X (1..Copies)
             old == CopiesSent(r)
             new == CopiesSent(r)'
  <1>1. /\ left' = [left EXCEPT ![d] = left[d] - 1] /\ left \in [Devices -> 0..Copies]
        /\ left[d] \in 1..Copies /\ HasSent(d)
        /\ \A e \in Devices : HasSent(e)' = HasSent(e)
    BY DEF Send, Typed, TypeOK, Counts, SendsOwn, HasSent
  <1>2. Heard(r) \subseteq Devices
    BY DEF Heard
  <1>3. new = {t \in all : HasSent(t[1]) /\ t[2] > left'[t[1]]}
    BY <1>1, <1>2 DEF CopiesSent, Heard
  <1>4. old \subseteq new
    <2> SUFFICES ASSUME NEW t \in old PROVE t \in new
      OBVIOUS
    <2>1. t \in all /\ HasSent(t[1]) /\ t[2] > left[t[1]] /\ t[2] \in Nat /\ t[1] \in Devices
      BY <1>2, ConstantFacts DEF CopiesSent
    <2>2. t[2] > left'[t[1]]
      BY <1>1, <2>1
    <2> QED
      BY <1>3, <2>1, <2>2
  <1>5. new \subseteq all
    BY <1>3
  <1>6. /\ IsFiniteSet(new) /\ IsFiniteSet(old)
        /\ Cardinality(new) \in Nat /\ Cardinality(old) \in Nat
        /\ Cardinality(new) <= Cardinality(all) /\ Cardinality(old) <= Cardinality(new)
    <2>1. IsFiniteSet(all) /\ IsFiniteSet(old) /\ Cardinality(old) \in Nat
      BY CopiesFinite, CopiesSentFinite
    <2>2. IsFiniteSet(new) /\ Cardinality(new) <= Cardinality(all)
      BY <1>5, <2>1, FS_Subset
    <2>3. Cardinality(new) \in Nat
      BY <2>2, FS_CardinalityType
    <2>4. Cardinality(old) <= Cardinality(new)
      BY <1>4, <2>2, FS_Subset
    <2> QED
      BY <2>1, <2>2, <2>3, <2>4
  <1>7. ASSUME r \in Near[d] PROVE Cardinality(old) + 1 <= Cardinality(new)
    <2> DEFINE copy == <<d, left[d]>>
    <2>1. copy \in all
      BY <1>1, <1>7 DEF Heard
    <2>2. copy \notin old
      BY <1>1 DEF CopiesSent
    <2>3. copy \in new
      <3>1. copy[1] = d /\ copy[2] = left[d] /\ left'[d] = left[d] - 1
        BY <1>1
      <3> QED
        BY <1>1, <1>3, <2>1, <3>1
    <2> HIDE DEF copy, old, new
    <2>4. old \cup {copy} \subseteq new
      BY <1>4, <2>3
    <2>5. Cardinality(old \cup {copy}) = Cardinality(old) + 1
      BY <1>6, <2>2, FS_AddElement
    <2>6. Cardinality(old \cup {copy}) <= Cardinality(new)
      BY <1>6, <2>4, FS_Subset
    <2> QED
      BY <2>5, <2>6
  <1> HIDE DEF old, new, all
  <1>8. Cardinality(all) = Cardinality(Heard(r)) * Copies
    BY CopiesFinite DEF all
  <1> QED
    BY <1>6, <1>7, <1>8 DEF old, new

LEMMA RoomStep ==
  ASSUME Patient
  PROVE  RoomInv /\ [Next]_vars => RoomInv'
  <1> SUFFICES ASSUME RoomInv, [Next]_vars PROVE RoomInv'
    OBVIOUS
  <1>0. /\ StormInv /\ StormInv' /\ Typed /\ TypeOK /\ TypeOK' /\ SendsOwn /\ NothingDropped
        /\ Relays \subseteq Devices /\ Sender \in Devices /\ Sender \notin Relays
    BY StormStep, RelayAssumption DEF RoomInv, StormInv, Typed, Devices
  <1>1. \A r \in Relays : /\ Len(queue[r]) \in Nat
                          /\ Len(queue[r]) <= Cardinality(CopiesSent(r))
                          /\ Cardinality(CopiesSent(r)) \in Nat
    BY <1>0, CopiesSentFinite DEF TypeOK, RoomInv, Counted
  <1>2. CASE Originate
    <2>1. /\ \A r \in Relays : Len(queue'[r]) = 0
          /\ \A d \in Devices : task'[d] = "send" => d = Sender
          /\ sends' > 0 /\ lost' = lost
      BY <1>0, <1>2 DEF Originate, Quiet, Broadcast, TypeOK
    <2>2. ASSUME NEW r \in Relays PROVE Cardinality(CopiesSent(r)') \in Nat
      <3>1. CopiesSent(r)' \subseteq Heard(r) \X (1..Copies)
        BY DEF CopiesSent, Heard
      <3> QED
        BY <3>1, CopiesFinite, FS_Subset, FS_CardinalityType
    <2> QED
      BY <1>0, <2>1, <2>2 DEF RoomInv, SendsOwn, HasSent, Counted, NothingDropped
  <1>3. ASSUME NEW d \in Devices, Send(d) PROVE RoomInv'
    <2> DEFINE m == IF d = Sender THEN num ELSE buf[d]
    <2>1. PICK heard \in SUBSET Near[d] : Receive(heard, m)
      BY <1>3 DEF Send
    <2> HIDE DEF m
    <2>2. Near[d] \subseteq Relays
      BY ConstantFacts
    <2>3. Counted'
      <3> SUFFICES ASSUME NEW r \in Relays
                   PROVE  Len(queue'[r]) <= Cardinality(CopiesSent(r)')
        BY DEF Counted
      <3>1. \/ Len(queue'[r]) = Len(queue[r])
            \/ r \in Near[d] /\ Len(queue'[r]) = Len(queue[r]) + 1
        <4>1. queue[r] \in Seq(Numbers) /\ m \in Numbers
          BY <1>0 DEF TypeOK, Devices, m
        <4>2. Len(Append(queue[r], m)) = Len(queue[r]) + 1
          BY <4>1
        <4>3. queue'[r] = IF r \in heard /\ Len(queue[r]) < Capacity
                          THEN Append(queue[r], m) ELSE queue[r]
          BY <2>1 DEF Receive
        <4>4. r \in heard => r \in Near[d]
          BY <2>1
        <4> QED
          BY <4>2, <4>3, <4>4
      <3>2. /\ Cardinality(CopiesSent(r)') \in Nat
            /\ Cardinality(CopiesSent(r)) <= Cardinality(CopiesSent(r)')
            /\ r \in Near[d] => Cardinality(CopiesSent(r)) + 1 <= Cardinality(CopiesSent(r)')
        BY <1>0, <1>3, SendCounts
      <3>3. /\ Len(queue[r]) \in Nat /\ Cardinality(CopiesSent(r)) \in Nat
            /\ Len(queue[r]) <= Cardinality(CopiesSent(r))
        BY <1>1
      <3>4. CASE Len(queue'[r]) = Len(queue[r])
        BY <3>2, <3>3, <3>4
      <3>5. CASE r \in Near[d] /\ Len(queue'[r]) = Len(queue[r]) + 1
        BY <3>2, <3>3, <3>5
      <3> QED
        BY <3>1, <3>4, <3>5
    <2>4. NothingDropped'
      <3> SUFFICES ASSUME HasRoom, lost' PROVE FALSE
        BY DEF NothingDropped, HasRoom, Heard
      <3>1. ~lost
        BY <1>0 DEF NothingDropped
      <3>2. PICK r \in heard : Len(queue[r]) >= Capacity
        BY <2>1, <3>1 DEF Receive
      <3>3. r \in Relays /\ r \in Near[d]
        BY <2>1, <2>2
      <3>4. /\ Cardinality(CopiesSent(r)') \in Nat
            /\ Cardinality(CopiesSent(r)') <= Cardinality(Heard(r)) * Copies
            /\ Cardinality(CopiesSent(r)) + 1 <= Cardinality(CopiesSent(r)')
        BY <1>0, <1>3, <3>3, SendCounts
      <3>5. Copies * Cardinality(Heard(r)) <= Capacity
        BY <3>3 DEF HasRoom
      <3>6. /\ Cardinality(Heard(r)) \in Nat
            /\ Copies * Cardinality(Heard(r)) = Cardinality(Heard(r)) * Copies
        <4>1. \A a, b \in Nat : a * b = b * a
          OBVIOUS
        <4>2. Cardinality(Heard(r)) \in Nat /\ Copies \in Nat
          BY <3>3, CopiesFinite, ConstantFacts
        <4> QED
          BY <4>1, <4>2, Zenon
      <3>7. Cardinality(CopiesSent(r)') <= Capacity
        <4> DEFINE room == Cardinality(Heard(r)) * Copies
        <4>1. room \in Nat /\ room <= Capacity
          BY <3>5, <3>6, ConstantFacts
        <4>2. Cardinality(CopiesSent(r)') <= room
          BY <3>4
        <4> HIDE DEF room
        <4> QED
          BY <3>4, <4>1, <4>2, RelayAssumption
      <3> QED
        BY <1>1, <3>2, <3>3, <3>4, <3>7, RelayAssumption
    <2>5. SendsOwn'
      <3>1. \A e \in Devices : task'[e] = "send" => task[e] = "send"
        BY <1>0, <1>3 DEF Send, TypeOK
      <3>2. \A e \in Devices : HasSent(e)' = HasSent(e)
        BY <1>3 DEF Send, HasSent
      <3> QED
        BY <1>0, <3>1, <3>2 DEF SendsOwn
    <2> QED
      BY <1>0, <2>3, <2>4, <2>5 DEF RoomInv
  <1>4. ASSUME NEW q \in Relays, Drop(q) \/ Keep(q) PROVE RoomInv'
    <2>1. /\ queue[q] # <<>> /\ queue[q] \in Seq(Numbers)
          /\ queue' = [queue EXCEPT ![q] = Tail(@)]
          /\ UNCHANGED <<sends, left, lost, relayed>>
      BY <1>0, <1>4 DEF Drop, Keep, Take, TypeOK
    <2>2. \A r \in Relays : Len(queue'[r]) <= Len(queue[r]) /\ Len(queue'[r]) \in Nat
      BY <1>0, <2>1 DEF TypeOK
    <2>3. \A r \in Relays : CopiesSent(r)' = CopiesSent(r)
      BY <2>1 DEF CopiesSent, Heard, HasSent
    <2>4. Counted'
      BY <1>1, <2>2, <2>3 DEF Counted
    <2>5. SendsOwn'
      <3>1. \A e \in Devices : task'[e] = "send" => task[e] = "send"
        BY <1>0, <1>4 DEF Drop, Keep, TypeOK
      <3> QED
        BY <1>0, <2>1, <3>1 DEF SendsOwn, HasSent
    <2> QED
      BY <1>0, <2>1, <2>4, <2>5 DEF RoomInv, NothingDropped
  <1>5. ASSUME NEW q \in Relays, Relay(q) PROVE RoomInv'
    <2>1. /\ q \in Devices /\ task[q] = "delay" /\ relayed[q] = 0
          /\ task' = [task EXCEPT ![q] = "send"]
          /\ left' = [left EXCEPT ![q] = Copies]
          /\ relayed' = [relayed EXCEPT ![q] = 1]
          /\ UNCHANGED <<sends, queue, lost>>
      <3>1. task[q] = "delay" /\ relayed[q] = 0
        BY <1>0, <1>5 DEF Relay, StormInv, Remembers
      <3>2. relayed' = [relayed EXCEPT ![q] = IF relayed[q] < 2 THEN relayed[q] + 1 ELSE 2]
        BY <1>5 DEF Relay
      <3>3. (IF relayed[q] < 2 THEN relayed[q] + 1 ELSE 2) = 1
        BY <3>1
      <3> QED
        BY <1>0, <1>5, <3>1, <3>2, <3>3 DEF Relay, Broadcast
    <2>2. /\ ~HasSent(q) /\ HasSent(q)'
          /\ \A e \in Devices : e # q => HasSent(e)' = HasSent(e)
      BY <1>0, <2>1 DEF HasSent, TypeOK, Devices
    <2>3. ASSUME NEW r \in Relays PROVE CopiesSent(r)' = CopiesSent(r)
      <3>1. Heard(r) \subseteq Devices
        BY DEF Heard
      <3>2. ASSUME NEW t \in Heard(r) \X (1..Copies)
            PROVE  (HasSent(t[1])' /\ t[2] > left'[t[1]]) <=> (HasSent(t[1]) /\ t[2] > left[t[1]])
        <4>1. t[1] \in Devices /\ t[2] \in 1..Copies
          BY <3>1
        <4>2. CASE t[1] = q
          BY <1>0, <2>1, <2>2, <4>1, <4>2, ConstantFacts DEF TypeOK
        <4>3. CASE t[1] # q
          BY <1>0, <2>1, <2>2, <4>1, <4>3 DEF TypeOK
        <4> QED
          BY <4>2, <4>3
      <3> QED
        BY <3>2 DEF CopiesSent, Heard
    <2>4. Counted'
      BY <1>1, <2>1, <2>3 DEF Counted
    <2>5. SendsOwn'
      BY <1>0, <2>1, <2>2 DEF SendsOwn, TypeOK
    <2> QED
      BY <1>0, <2>1, <2>4, <2>5 DEF RoomInv, NothingDropped
  <1>6. CASE UNCHANGED vars
    <2>1. UNCHANGED <<sends, task, left, queue, lost, relayed>>
      BY <1>6 DEF vars, relayVars
    <2>2. \A r \in Relays : CopiesSent(r)' = CopiesSent(r)
      BY <2>1 DEF CopiesSent, Heard, HasSent
    <2> QED
      BY <1>0, <1>1, <2>1, <2>2 DEF RoomInv, Counted, SendsOwn, HasSent, NothingDropped
  <1> QED
    BY <1>2, <1>3, <1>4, <1>5, <1>6 DEF Next, Work

(* With a patient sender no queue overflows that has room for every copy of *)
(* every neighbour, whatever the topology (NothingDropped).                 *)
THEOREM RoomEnough ==
  ASSUME Patient PROVE Spec => []NothingDropped
  <1>1. RoomInv => NothingDropped
    BY DEF RoomInv
  <1>2. RoomInv /\ [Next]_vars => RoomInv'
    BY RoomStep
  <1> QED
    BY <1>1, <1>2, RoomInit, PTL DEF Spec

(***************************************************************************)
(* Every relay connected to the sender relays each message: a number that  *)
(* it remembers, and has not relayed, is an older one.  Only the number    *)
(* test_recv_num starts with, as the number of a first message, is taken   *)
(* for one that has been relayed.                                          *)
(***************************************************************************)
StartsUnset == sends = 1 /\ num = Unset

NewsToAll ==
  sends > 0 /\ ~StartsUnset => \A r \in Reached : last[r] = num => relayed[r] >= 1

NoneYet ==
  /\ sends = 0 => Quiet
  /\ sends = 0 \/ StartsUnset => \A r \in Relays : last[r] = Unset

(* A relay about to relay works on a number it does not remember. *)
DelaysNews == \A r \in Relays : task[r] = "delay" => last[r] # num

ReachInv == SpreadInv /\ NothingDropped /\ NewsToAll /\ NoneYet /\ DelaysNews

LEMMA ReachedClosed == Reached \subseteq Relays /\ Closed(Reached)
  <1>1. Reached \subseteq Relays
    BY DEF Reached
  <1>2. Near[Sender] \subseteq Relays /\ \A q \in Relays : Near[q] \subseteq Relays
    BY ConstantFacts
  <1>3. Near[Sender] \subseteq Reached
    BY <1>2 DEF Reached, Closed
  <1>4. ASSUME NEW q \in Reached PROVE Near[q] \subseteq Reached
    BY <1>1, <1>2 DEF Reached, Closed
  <1> QED
    BY <1>1, <1>3, <1>4 DEF Closed

(* Once all is quiet the relays that remember the number of the last        *)
(* message are all that are connected to the sender.                        *)
LEMMA QuietReached ==
  ASSUME ~Lossy, HasRoom, ReachInv, Quiet, sends > 0, ~StartsUnset
  PROVE  \A r \in Reached : relayed[r] >= 1 /\ last[r] = num
  <1> DEFINE S == {r \in Reached : relayed[r] >= 1}
  <1>1. ~lost /\ NoneSkipped
    <2>1. ~lost
      BY DEF ReachInv, NothingDropped
    <2>2. ASSUME NEW d \in Devices, HasSent(d), NEW r \in Near[d] PROVE last[r] = num
      <3>1. r \in Relays /\ r \in Devices
        BY ConstantFacts
      <3>2. missed[d] = {}
        BY <2>2 DEF ReachInv, SpreadInv, AllHeard, Quiet
      <3> QED
        BY <2>1, <2>2, <3>1, <3>2 DEF ReachInv, SpreadInv, HeardHas, Has, Quiet
    <2> QED
      BY <2>1, <2>2 DEF NoneSkipped
  <1>2. ASSUME NEW d \in Devices, HasSent(d), Near[d] \subseteq Reached PROVE Near[d] \subseteq S
    <2> SUFFICES ASSUME NEW r \in Near[d] PROVE relayed[r] >= 1
      BY <1>2
    <2>1. last[r] = num
      BY <1>1, <1>2 DEF NoneSkipped
    <2> QED
      BY <1>2, <2>1 DEF ReachInv, NewsToAll
  <1>3. Closed(S)
    <2>1. Near[Sender] \subseteq S
      <3>1. Sender \in Devices /\ HasSent(Sender)
        BY DEF HasSent, Devices
      <3> QED
        BY <1>2, <3>1, ReachedClosed DEF Closed
    <2>2. ASSUME NEW q \in S PROVE Near[q] \subseteq S
      <3>1. q \in Devices /\ HasSent(q) /\ Near[q] \subseteq Reached
        BY ReachedClosed, RelayAssumption DEF Closed, Devices, HasSent
      <3> QED
        BY <1>2, <3>1
    <2> QED
      BY <2>1, <2>2 DEF Closed
  <1>4. S \in SUBSET Relays
    BY ReachedClosed
  <1>5. Reached \subseteq S
    BY <1>3, <1>4 DEF Reached
  <1>6. \A r \in Relays : relayed[r] >= 1 => last[r] = num
    <2>1. \A r \in Relays : /\ relayed[r] \in 0..2 /\ relayed[r] <= 1
                            /\ relayed[r] = 1 => last[r] = num
      BY DEF ReachInv, SpreadInv, StormInv, Remembers, Typed, TypeOK
    <2> QED
      BY <2>1
  <1> QED
    BY <1>5, <1>6, ReachedClosed

LEMMA ReachInit == Init => ReachInv
  BY SpreadInit DEF Init, ReachInv, NothingDropped, NewsToAll, NoneYet, DelaysNews, Quiet, Devices

LEMMA SuccDiffers == \A n \in Numbers : Succ(n) # n
  <1> SUFFICES ASSUME NEW n \in Numbers PROVE Succ(n) # n
    OBVIOUS
  <1> USE RelayAssumption DEF Numbers, Succ
  <1>1. CASE n + 1 < Modulus
    BY <1>1
  <1>2. CASE n + 1 = Modulus
    BY <1>2
  <1> QED
    BY <1>1, <1>2

LEMMA ReachStep ==
  ASSUME Patient, ~Lossy, HasRoom
  PROVE  NothingDropped' /\ ReachInv /\ [Next]_vars => ReachInv'
  <1> SUFFICES ASSUME NothingDropped', ReachInv, [Next]_vars
               PROVE  NewsToAll' /\ NoneYet' /\ DelaysNews'
    BY SpreadStep DEF ReachInv
  <1>0. /\ SpreadInv /\ StormInv /\ TypeOK /\ NewsToAll /\ NoneYet /\ DelaysNews
        /\ Relays \subseteq Devices /\ Sender \in Devices /\ Sender \notin Relays
        /\ Reached \subseteq Relays /\ Unset \in Numbers /\ sends \in Nat
    BY RelayAssumption, ReachedClosed, NumberFacts
       DEF ReachInv, SpreadInv, StormInv, Typed, TypeOK, Devices
  <1>1. CASE Originate
    <2>1. /\ Quiet /\ sends' = sends + 1 /\ num' = IF sends = 0 THEN num ELSE Succ(num)
          /\ UNCHANGED last /\ num \in Numbers
      BY <1>0, <1>1 DEF Originate, TypeOK
    <2>2. \A r \in Relays : task'[r] = "wait"
      BY <1>0, <1>1, <2>1 DEF Originate, Broadcast, Quiet, TypeOK
    <2>3. CASE sends = 0
      BY <1>0, <2>1, <2>2, <2>3 DEF NewsToAll, NoneYet, DelaysNews, StartsUnset, Unset
    <2>4. CASE sends > 0
      <3>1. \A r \in Reached : last[r] = num
        BY <1>0, <2>1, <2>4, QuietReached DEF NoneYet, StartsUnset
      <3>2. num' # num /\ sends' # 0 /\ sends' # 1
        BY <1>0, <2>1, <2>4, SuccDiffers
      <3> QED
        BY <2>1, <2>2, <3>1, <3>2 DEF NewsToAll, NoneYet, DelaysNews, StartsUnset
    <2> QED
      BY <1>0, <2>3, <2>4
  <1>2. ASSUME NEW d \in Devices, Send(d) PROVE NewsToAll' /\ NoneYet' /\ DelaysNews'
    <2>1. UNCHANGED <<num, sends, last, relayed>> /\ sends # 0
      BY <1>0, <1>2 DEF Send, NoneYet, Quiet
    <2>2. \A r \in Relays : task'[r] = "delay" => task[r] = "delay"
      BY <1>0, <1>2 DEF Send, TypeOK
    <2> QED
      BY <1>0, <2>1, <2>2 DEF NewsToAll, NoneYet, DelaysNews, StartsUnset
  <1>3. ASSUME NEW q \in Relays, Drop(q) \/ Keep(q)
        PROVE  NewsToAll' /\ NoneYet' /\ DelaysNews'
    <2>1. UNCHANGED <<num, sends, last, relayed>> /\ queue[q] # <<>> /\ queue[q] \in Seq(Numbers)
      BY <1>0, <1>3 DEF Drop, Keep, Take, TypeOK
    <2>2. sends # 0
      BY <1>0, <2>1 DEF NoneYet, Quiet
    <2>3. Head(queue[q]) = num
      BY <1>0, <2>1 DEF StormInv, OnlyLast
    <2>4. ASSUME NEW r \in Relays, task'[r] = "delay" PROVE last[r] # num
      <3>1. CASE task[r] = "delay"
        BY <1>0, <3>1 DEF DelaysNews
      <3>2. CASE task[r] # "delay"
        BY <1>0, <1>3, <2>3, <2>4, <3>2 DEF Drop, Keep, Fresh, TypeOK
      <3> QED
        BY <3>1, <3>2
    <2> QED
      BY <1>0, <2>1, <2>2, <2>4 DEF NewsToAll, NoneYet, DelaysNews, StartsUnset
  <1>4. ASSUME NEW q \in Relays, Relay(q)
        PROVE  NewsToAll' /\ NoneYet' /\ DelaysNews'
    <2>1. /\ task[q] = "delay" /\ buf[q] = num /\ last[q] # num /\ relayed[q] = 0
          /\ last' = [last EXCEPT ![q] = num]
          /\ task' = [task EXCEPT ![q] = "send"]
          /\ UNCHANGED <<num, sends>>
      BY <1>0, <1>4 DEF Relay, Broadcast, StormInv, OnlyLast, Remembers, DelaysNews
    <2>2. relayed'[q] = 1 /\ \A r \in Relays : r # q => relayed'[r] = relayed[r]
      BY <1>0, <1>4, <2>1 DEF Relay, TypeOK
    <2>3. NewsToAll'
      BY <1>0, <2>1, <2>2 DEF NewsToAll, StartsUnset, TypeOK
    <2>4. NoneYet'
      <3>1. ~StartsUnset
        BY <1>0, <2>1 DEF NoneYet, StartsUnset
      <3>2. sends # 0
        BY <1>0, <2>1 DEF NoneYet, Quiet
      <3> QED
        BY <2>1, <3>1, <3>2 DEF NoneYet, StartsUnset
    <2>5. DelaysNews'
      BY <1>0, <2>1 DEF DelaysNews, TypeOK
    <2> QED
      BY <2>3, <2>4, <2>5
  <1>5. CASE UNCHANGED vars
    BY <1>0, <1>5 DEF vars, relayVars, NewsToAll, NoneYet, DelaysNews, StartsUnset, Quiet
  <1> QED
    BY <1>1, <1>2, <1>3, <1>4, <1>5 DEF Next, Work

(* With a patient sender, a medium that lets one copy of each message       *)
(* through, and room in the queues, every relay that a chain of neighbours  *)
(* connects to the sender has relayed its last message once all is quiet    *)
(* (AllReached).                                                            *)
THEOREM EveryoneReached ==
  ASSUME Patient, ~Lossy, HasRoom PROVE Spec => []AllReached
  <1>1. ReachInv => AllReached
    BY QuietReached DEF AllReached, StartsUnset
  <1>2. NothingDropped' /\ ReachInv /\ [Next]_vars => ReachInv'
    BY ReachStep
  <1> QED
    BY <1>1, <1>2, ReachInit, RoomEnough, PTL DEF Spec

-----------------------------------------------------------------------------
(* Why a storm ends, whatever is lost and whatever the queues drop: three   *)
(* finite sets, of which every step shrinks one and leaves those before it  *)
(* alone.  They are the relays that have yet to find the message new, what  *)
(* the tasks have yet to do for it, and what the queues hold.               *)
Untouched == {r \in Relays : relayed[r] = 0 /\ task[r] # "delay"}

(* f[d] pieces of each d in D, at most n. *)
Pieces(D, f, n) == {x \in D \X (1..n) : x[2] <= f[x[1]]}

Todo == [d \in Devices |-> CASE task[d] = "delay" -> Copies + 1
                             [] task[d] = "send"  -> left[d]
                             [] task[d] = "wait"  -> 0]
Held == [r \in Relays |-> Len(queue[r])]

ToDo   == Pieces(Devices, Todo, Copies + 1)
Queued == Pieces(Relays, Held, Capacity)

Shrinks(S, T) == T \subseteq S /\ T # S

StormShrinks ==
  \/ Shrinks(Untouched, Untouched')
  \/ Untouched' = Untouched /\ Shrinks(ToDo, ToDo')
  \/ Untouched' = Untouched /\ ToDo' = ToDo /\ Shrinks(Queued, Queued')

Finite == IsFiniteSet(Untouched) /\ IsFiniteSet(ToDo) /\ IsFiniteSet(Queued)

LEMMA StormFinite == Finite
  <1>1. IsFiniteSet(Relays) /\ IsFiniteSet(Devices)
    <2>1. IsFiniteSet(Relays)
      BY RelayAssumption
    <2> QED
      BY <2>1, FS_AddElement DEF Devices
  <1>2. Copies \in Nat /\ Capacity \in Nat
    BY RelayAssumption
  <1>3. IsFiniteSet(1..Copies+1) /\ IsFiniteSet(1..Capacity)
    BY <1>2, FS_Interval
  <1>4. IsFiniteSet(Devices \X (1..Copies+1)) /\ IsFiniteSet(Relays \X (1..Capacity))
    BY <1>1, <1>3, FS_Product
  <1>5. /\ Untouched \subseteq Relays
        /\ ToDo \subseteq Devices \X (1..Copies+1)
        /\ Queued \subseteq Relays \X (1..Capacity)
    BY DEF Untouched, ToDo, Queued, Pieces
  <1> QED
    BY <1>1, <1>4, <1>5, FS_Subset DEF Finite

QueuesFit == \A r \in Relays : Len(queue[r]) <= Capacity

ShrinkInv == StormInv /\ QueuesFit

LEMMA ShrinkInit == Init => ShrinkInv
  <1> SUFFICES ASSUME Init PROVE ShrinkInv
    OBVIOUS
  <1>1. QueuesFit
    BY RelayAssumption DEF Init, QueuesFit
  <1> QED
    BY <1>1, StormInit DEF ShrinkInv

LEMMA FitStep ==
  ASSUME Typed, QueuesFit, [Next]_vars
  PROVE  QueuesFit'
  <1>0. Capacity \in Nat /\ \A r \in Relays : queue[r] \in Seq(Numbers) /\ Len(queue[r]) <= Capacity
    BY RelayAssumption DEF Typed, TypeOK, QueuesFit
  <1>1. ASSUME NEW d \in Devices, Send(d) PROVE QueuesFit'
    <2>1. PICK heard, m : Receive(heard, m)
      BY <1>1 DEF Send
    <2>2. ASSUME NEW r \in Relays PROVE Len(queue'[r]) <= Capacity
      <3>1. \/ queue'[r] = queue[r]
            \/ Len(queue[r]) < Capacity /\ queue'[r] = Append(queue[r], m)
        BY <2>1 DEF Receive
      <3> QED
        BY <1>0, <3>1
    <2> QED
      BY <2>2 DEF QueuesFit
  <1>2. ASSUME NEW r \in Relays, Take(r) PROVE QueuesFit'
    <2>1. ASSUME NEW q \in Relays PROVE Len(queue'[q]) <= Capacity
      <3>1. queue[r] # <<>>
        BY <1>2 DEF Take
      <3>2. queue'[q] = queue[q] \/ (q = r /\ queue'[q] = Tail(queue[r]))
        BY <1>2 DEF Take, Typed, TypeOK
      <3>3. queue[r] # <<>> => Len(Tail(queue[r])) <= Capacity
        BY <1>0
      <3> QED
        BY <1>0, <3>1, <3>2, <3>3
    <2> QED
      BY <2>1 DEF QueuesFit
  <1>3. CASE UNCHANGED queue
    BY <1>3 DEF QueuesFit
  <1> QED
    BY <1>1, <1>2, <1>3 DEF Next, Work, Originate, Drop, Keep, Relay, vars, relayVars

LEMMA PiecesShrink ==
  ASSUME NEW D, NEW f, NEW g, NEW n \in Nat, NEW d \in D,
         f[d] \in 1..n, g[d] \in Nat, g[d] < f[d],
         \A e \in D : e # d => g[e] = f[e]
  PROVE  Shrinks(Pieces(D, f, n), Pieces(D, g, n))
  <1>1. ASSUME NEW x \in Pieces(D, g, n) PROVE x \in Pieces(D, f, n)
    <2>1. x \in D \X (1..n) /\ x[2] <= g[x[1]]
      BY DEF Pieces
    <2>2. x[1] \in D /\ x[2] \in 1..n
      BY <2>1
    <2>3. CASE x[1] = d
      <3>1. x[2] <= f[d]
        BY <2>1, <2>2, <2>3
      <3> QED
        BY <2>1, <2>3, <3>1 DEF Pieces
    <2>4. CASE x[1] # d
      <3>1. x[2] <= f[x[1]]
        BY <2>1, <2>2, <2>4
      <3> QED
        BY <2>1, <3>1 DEF Pieces
    <2> QED
      BY <2>3, <2>4
  <1> DEFINE top == <<d, f[d]>>
  <1>2. top \in D \X (1..n) /\ top[1] = d /\ top[2] = f[d] /\ f[d] <= f[d] /\ ~(f[d] <= g[d])
    OBVIOUS
  <1> HIDE DEF top
  <1>3. top \in Pieces(D, f, n) /\ top \notin Pieces(D, g, n)
    BY <1>2 DEF Pieces
  <1> QED
    BY <1>1, <1>2, <1>3 DEF Shrinks

(* A copy is sent. *)
LEMMA SendShrinks ==
  ASSUME ShrinkInv, Typed', NEW d \in Devices, Send(d)
  PROVE  StormShrinks
  <1>0. Typed /\ Copies \in Nat /\ Relays \subseteq Devices
    BY ConstantFacts DEF ShrinkInv, StormInv, Devices
  <1>1. Untouched' = Untouched
    BY <1>0 DEF Send, Untouched, Typed, TypeOK
  <1>2. Todo[d] = left[d] /\ left[d] \in 1..Copies+1
    BY <1>0 DEF Send, Todo, Typed, TypeOK, Counts
  <1>3. Todo'[d] = left[d] - 1
    BY <1>0, <1>2 DEF Send, Todo, Typed, TypeOK
  <1>4. \A e \in Devices : e # d => Todo'[e] = Todo[e]
    BY <1>0 DEF Send, Todo, Typed, TypeOK
  <1>5. Todo[d] \in 1..Copies+1 /\ Todo'[d] \in Nat /\ Todo'[d] < Todo[d] /\ Copies + 1 \in Nat
    BY <1>0, <1>2, <1>3
  <1> HIDE DEF Todo
  <1>6. Shrinks(ToDo, ToDo')
    BY <1>4, <1>5, PiecesShrink DEF ToDo
  <1> QED
    BY <1>1, <1>6 DEF StormShrinks

(* A relay's delay is over: the copies it announced are left. *)
LEMMA RelayShrinks ==
  ASSUME ShrinkInv, Typed', NEW r \in Relays, Relay(r)
  PROVE  StormShrinks
  <1>0. Typed /\ Copies \in Nat /\ r \in Devices /\ relayed[r] = 0
    BY ConstantFacts DEF ShrinkInv, StormInv, Remembers, Relay
  <1>1. Untouched' = Untouched
    BY <1>0 DEF Relay, Broadcast, Untouched, Typed, TypeOK, Devices
  <1>2. Todo[r] = Copies + 1 /\ Todo'[r] = Copies
    BY <1>0 DEF Relay, Broadcast, Todo, Typed, TypeOK
  <1>3. \A e \in Devices : e # r => Todo'[e] = Todo[e]
    BY <1>0 DEF Relay, Broadcast, Todo, Typed, TypeOK
  <1>4. Todo[r] \in 1..Copies+1 /\ Todo'[r] \in Nat /\ Todo'[r] < Todo[r] /\ Copies + 1 \in Nat
    BY <1>0, <1>2
  <1> HIDE DEF Todo
  <1>5. Shrinks(ToDo, ToDo')
    BY <1>0, <1>3, <1>4, PiecesShrink DEF ToDo
  <1> QED
    BY <1>1, <1>5 DEF StormShrinks

(* A relay finds a message new; it has not done so before. *)
LEMMA KeepShrinks ==
  ASSUME ShrinkInv, NEW r \in Relays, Keep(r)
  PROVE  StormShrinks
  <1>0. Typed /\ Relays \subseteq Devices /\ UNCHANGED relayed
    BY DEF ShrinkInv, StormInv, Keep, Take, Devices
  <1>1. queue[r] # <<>> /\ queue[r] \in Seq(Numbers) /\ task[r] = "wait" /\ Fresh(r)
    BY <1>0 DEF Keep, Take, Typed, TypeOK
  <1>2. Head(queue[r]) = num
    BY <1>1 DEF ShrinkInv, StormInv, OnlyLast
  <1>3. relayed[r] \in 0..2 /\ relayed[r] <= 1 /\ relayed[r] # 1
    BY <1>0, <1>1, <1>2 DEF Fresh, ShrinkInv, StormInv, Remembers, Typed, TypeOK
  <1>4. r \in Untouched /\ r \notin Untouched'
    BY <1>0, <1>1, <1>3 DEF Untouched, Keep, Typed, TypeOK
  <1>5. Untouched' \subseteq Untouched
    BY <1>0 DEF Untouched, Keep, Typed, TypeOK
  <1> QED
    BY <1>4, <1>5 DEF StormShrinks, Shrinks

(* A copy that is dropped leaves the queue, and nothing else changes. *)
LEMMA DropShrinks ==
  ASSUME ShrinkInv, NEW r \in Relays, Drop(r)
  PROVE  StormShrinks
  <1>1. Untouched' = Untouched /\ ToDo' = ToDo
    BY DEF Drop, Take, Untouched, ToDo, Pieces, Todo
  <1>2. /\ Capacity \in Nat /\ queue[r] \in Seq(Numbers) /\ queue[r] # <<>>
        /\ Len(queue[r]) <= Capacity
    BY RelayAssumption DEF ShrinkInv, StormInv, QueuesFit, Drop, Take, Typed, TypeOK
  <1>3. Held[r] = Len(queue[r]) /\ Held'[r] = Len(Tail(queue[r]))
    BY DEF Held, Drop, Take, ShrinkInv, StormInv, Typed, TypeOK
  <1>4. \A q \in Relays : q # r => Held'[q] = Held[q]
    BY DEF Held, Drop, Take, ShrinkInv, StormInv, Typed, TypeOK
  <1>5. Held[r] \in 1..Capacity /\ Held'[r] \in Nat /\ Held'[r] < Held[r]
    BY <1>2, <1>3
  <1> HIDE DEF Held
  <1>6. Shrinks(Queued, Queued')
    BY <1>2, <1>4, <1>5, PiecesShrink DEF Queued
  <1> QED
    BY <1>1, <1>6 DEF StormShrinks

(* With a patient sender no storm goes on for ever: every step but a new    *)
(* message of the sender shrinks one of three finite sets and leaves those  *)
(* before it alone, whatever the topology, the losses and the queues.       *)
THEOREM StormDies ==
  ASSUME Patient PROVE Spec => []Finite /\ [][Originate \/ StormShrinks]_vars
  <1>1. ShrinkInv /\ [Next]_vars => ShrinkInv'
    BY StormStep, FitStep DEF ShrinkInv, StormInv
  <1>2. ShrinkInv /\ [Next]_vars => [Originate \/ StormShrinks]_vars
    <2> SUFFICES ASSUME ShrinkInv, Next, ~Originate PROVE StormShrinks
      OBVIOUS
    <2>1. Typed'
      BY TypedStep DEF ShrinkInv, StormInv
    <2>2. PICK d \in Devices : Work(d)
      BY DEF Next
    <2> QED
      BY <2>1, <2>2, SendShrinks, RelayShrinks, KeepShrinks, DropShrinks DEF Work
  <1> QED
    BY <1>1, <1>2, ShrinkInit, StormFinite, PTL DEF Spec
=============================================================================
