--------------------------- MODULE StoreRingProofs ---------------------------
(***************************************************************************)
(* Proofs about the ring of stored messages, for a ring of any size and    *)
(* any number of messages: what holds however the two threads interleave,  *)
(* and what holds when they take turns.                                    *)
(***************************************************************************)
EXTENDS StoreRing, FiniteSetTheorems, TLAPS

LEMMA ModFacts ==
  ASSUME NEW a \in Nat
  PROVE  a % N \in Slots
  BY RingAssumption DEF Slots

(* Types, with what the program points say of the index and of the walk.    *)
PointsOK ==
  /\ cb = "next" => index < N-1
  /\ cb # "idle" => arrived \in Msgs
  /\ at \in {"print", "free", "clear", "zero"} => i < max

Typed == TypeOK /\ PointsOK

LEMMA TypedInit == Init => Typed
  <1> SUFFICES ASSUME Init PROVE Typed
    OBVIOUS
  <1>1. ring \in [Slots -> Msgs \cup {None}]
    BY DEF Init
  <1>2. sized \subseteq Slots /\ printed \in Seq(Msgs)
    BY DEF Init
  <1>3. PointsOK
    BY DEF Init, PointsOK
  <1>4. i \in 0..2*N /\ max \in 0..2*N /\ index \in -1..N-1
    BY RingAssumption DEF Init
  <1>5. modes \in 0..MaxModes /\ arrived \in 0..MaxMsgs
    BY RingAssumption DEF Init
  <1>6. live \subseteq Msgs /\ broken \subseteq {"doubleFree", "useAfterFree", "outside"}
    BY DEF Init
  <1>7. TypeOK
    BY <1>1, <1>2, <1>4, <1>5, <1>6 DEF Init, TypeOK
  <1> QED
    BY <1>3, <1>7 DEF Typed

LEMMA SlotFacts ==
  ASSUME TypeOK
  PROVE  Slot \in Slots /\ (index # -1 => index % N \in Slots)
  <1>1. i \in Nat /\ (index # -1 => index \in Nat)
    BY RingAssumption DEF TypeOK
  <1> QED
    BY <1>1, ModFacts DEF Slot

LEMMA TypedStep == Typed /\ [Next]_vars => Typed'
  <1> SUFFICES ASSUME Typed, [Next]_vars PROVE Typed'
    OBVIOUS
  <1> USE RingAssumption DEF Typed, pulse
  <1>1. CASE Receive
    <2>1. arrived' \in Msgs /\ arrived' \in 0..MaxMsgs
      BY <1>1 DEF Receive, TypeOK, Msgs
    <2>2. Append(printed, arrived') \in Seq(Msgs)
      BY <2>1 DEF TypeOK
    <2>3. printed' \in Seq(Msgs)
      BY <1>1, <2>2 DEF Receive, TypeOK
    <2>4. live' \subseteq Msgs
      BY <1>1, <2>1 DEF Receive, TypeOK
    <2> QED
      BY <1>1, <2>1, <2>3, <2>4 DEF Receive, TypeOK, PointsOK, atVars
  <1>2. CASE InsertWrap
    BY <1>2 DEF InsertWrap, TypeOK, PointsOK, atVars
  <1>3. CASE InsertNext
    BY <1>3 DEF InsertNext, TypeOK, PointsOK, atVars
  <1>4. CASE InsertDrop
    BY <1>4 DEF InsertDrop, Outside, Free, TypeOK, PointsOK, atVars
  <1>5. CASE InsertCopy
    <2>1. ring' \in [Slots -> Msgs \cup {None}]
      <3>1. CASE ring' = ring
        BY <3>1 DEF TypeOK
      <3>2. CASE index # -1 /\ cb = "copy" /\ ring' = [ring EXCEPT ![index % N] = arrived]
        <4>1. arrived \in Msgs
          BY <3>2 DEF PointsOK
        <4> QED
          BY <3>2, <4>1 DEF TypeOK
      <3> QED
        BY <1>5, <3>1, <3>2 DEF InsertCopy, Outside
    <2>2. sized' \subseteq Slots
      BY <1>5, SlotFacts DEF InsertCopy, Outside, TypeOK
    <2> QED
      BY <1>5, <2>1, <2>2 DEF InsertCopy, Outside, TypeOK, PointsOK, atVars
  <1>6. CASE SetMode
    BY <1>6 DEF SetMode, TypeOK, PointsOK, atVars, cbVars
  <1>7. CASE ShowBegin
    BY <1>7 DEF ShowBegin, TypeOK, PointsOK, cbVars
  <1>8. CASE ShowPrint
    <2>1. ring[Slot] \in Msgs \cup {None}
      BY SlotFacts DEF TypeOK
    <2>2. printed' \in Seq(Msgs)
      BY <1>8, <2>1 DEF ShowPrint, TypeOK
    <2> QED
      BY <1>8, <2>2 DEF ShowPrint, TypeOK, PointsOK, cbVars
  <1>9. CASE ShowFree
    BY <1>9 DEF ShowFree, Free, TypeOK, PointsOK, cbVars
  <1>10. CASE ShowClear
    <2>1. ring' \in [Slots -> Msgs \cup {None}]
      BY <1>10 DEF ShowClear, TypeOK
    <2> QED
      BY <1>10, <2>1 DEF ShowClear, TypeOK, PointsOK, cbVars
  <1>11. CASE ShowZero \/ ShowReset
    <2>1. sized' \subseteq Slots
      BY <1>11 DEF ShowZero, ShowReset, TypeOK
    <2>2. i' \in 0..2*N /\ index' \in -1..N-1 /\ at' \in {"idle", "print", "reset"}
      BY <1>11 DEF ShowZero, ShowReset, TypeOK, PointsOK
    <2>3. /\ at' = "print" => i' < max'
          /\ index' \in {index, -1} /\ UNCHANGED <<cb, arrived>>
      BY <1>11 DEF ShowZero, ShowReset, cbVars
    <2>4. PointsOK'
      BY <2>2, <2>3 DEF TypeOK, PointsOK
    <2>5. UNCHANGED <<mode, modes, ring, cb, arrived, max, live, printed, broken, pulse>>
      BY <1>11 DEF ShowZero, ShowReset, cbVars
    <2> QED
      BY <2>1, <2>2, <2>4, <2>5 DEF TypeOK
  <1>12. CASE Report \/ ReportStart
    BY <1>12 DEF Report, ReportStart, TypeOK, PointsOK, atVars
  <1>13. CASE TimerExpires \/ PulseLow
    BY <1>13 DEF TimerExpires, PulseLow, TypeOK, PointsOK, atVars, cbVars
  <1>14. CASE UNCHANGED vars
    BY <1>14 DEF vars, cbVars, atVars, TypeOK, PointsOK
  <1> QED
    BY <1>1, <1>2, <1>3, <1>4, <1>5, <1>6, <1>7, <1>8, <1>9, <1>10, <1>11, <1>12,
       <1>13, <1>14 DEF Next, Insert, Show, Pulse

(* The ring, its index and the walk of AT+STOREDATA stay in their bounds,   *)
(* for a ring of any size and any interleaving of the two threads.          *)
THEOREM TypeCorrect == Spec => []TypeOK
  <1>1. Typed => TypeOK
    BY DEF Typed
  <1> QED
    BY <1>1, TypedInit, TypedStep, PTL DEF Spec

(***************************************************************************)
(* No message is printed twice, whatever the interleaving.  A message is   *)
(* in one slot at most; one that is printed is out of the ring, except for *)
(* the slot the walk has printed and not yet cleared; and the message on   *)
(* its way into the ring is nowhere yet.                                   *)
(***************************************************************************)
Shown(m) == \E k \in 1..Len(printed) : printed[k] = m

OneSlot ==
  \A s, t \in Slots : ring[s] = ring[t] /\ ring[s] # None => s = t

Carries == cb \in {"wrap", "next", "drop", "copy"}

OnTheWay ==
  Carries => ~Shown(arrived) /\ \A s \in Slots : ring[s] # arrived

Known ==
  /\ \A s \in Slots : ring[s] # None => ring[s] <= arrived
  /\ \A k \in 1..Len(printed) : printed[k] <= arrived

GoneWhenShown ==
  \A s \in Slots :
    ring[s] # None /\ Shown(ring[s]) => at \in {"free", "clear"} /\ s = Slot

OnceInv ==
  Typed /\ PrintedOnce /\ OneSlot /\ OnTheWay /\ Known /\ GoneWhenShown

(* Printing a message that has not been printed. *)
LEMMA PrintNew ==
  ASSUME Typed, NEW m \in Msgs, printed' = Append(printed, m)
  PROVE  /\ \A k \in Msgs : Shown(k)' <=> Shown(k) \/ k = m
         /\ ~Shown(m) /\ PrintedOnce => PrintedOnce'
  <1>1. /\ printed \in Seq(Msgs) /\ Len(printed) \in Nat
        /\ Len(printed') = Len(printed) + 1
        /\ printed'[Len(printed) + 1] = m
        /\ \A k \in 1..Len(printed) : printed'[k] = printed[k]
    BY DEF Typed, TypeOK
  <1>2. ASSUME NEW k \in Msgs PROVE Shown(k)' <=> Shown(k) \/ k = m
    <2>1. ASSUME Shown(k) PROVE Shown(k)'
      BY <1>1, <2>1 DEF Shown
    <2>2. ASSUME k = m PROVE Shown(k)'
      <3>1. Len(printed) + 1 \in 1..Len(printed')
        BY <1>1
      <3> QED
        BY <1>1, <2>2, <3>1 DEF Shown
    <2>3. ASSUME Shown(k)', k # m PROVE Shown(k)
      <3>1. PICK j \in 1..Len(printed') : printed'[j] = k
        BY <2>3 DEF Shown
      <3>2. j \in 1..Len(printed)
        BY <1>1, <2>3, <3>1
      <3> QED
        BY <1>1, <3>1, <3>2 DEF Shown
    <2> QED
      BY <2>1, <2>2, <2>3
  <1>3. ASSUME ~Shown(m), PrintedOnce PROVE PrintedOnce'
    <2> SUFFICES ASSUME NEW j \in 1..Len(printed'), NEW k \in 1..Len(printed'),
                        printed'[j] = printed'[k]
                 PROVE  j = k
      BY DEF PrintedOnce
    <2>1. CASE j \in 1..Len(printed) /\ k \in 1..Len(printed)
      BY <1>1, <1>3, <2>1 DEF PrintedOnce
    <2>2. CASE j = Len(printed) + 1 /\ k \in 1..Len(printed)
      BY <1>1, <1>3, <2>2 DEF Shown
    <2>3. CASE j \in 1..Len(printed) /\ k = Len(printed) + 1
      BY <1>1, <1>3, <2>3 DEF Shown
    <2> QED
      BY <1>1, <2>1, <2>2, <2>3
  <1> QED
    BY <1>2, <1>3

LEMMA OnceInit == Init => OnceInv
  BY TypedInit
     DEF Init, OnceInv, PrintedOnce, OneSlot, OnTheWay, Carries, Known, GoneWhenShown, Shown

LEMMA OnceStep == OnceInv /\ [Next]_vars => OnceInv'
  <1> SUFFICES ASSUME OnceInv, [Next]_vars PROVE OnceInv'
    OBVIOUS
  <1>0. Typed /\ Typed' /\ TypeOK
    BY TypedStep DEF OnceInv, Typed
  <1>1. CASE Receive
    <2>1. /\ arrived' = arrived + 1 /\ arrived' \in Msgs /\ arrived \in Nat
          /\ ring' = ring /\ UNCHANGED <<at, i>> /\ cb = "idle"
      BY <1>0, <1>1, RingAssumption DEF Receive, TypeOK, Msgs, atVars
    <2>2. /\ ~Shown(arrived') /\ \A s \in Slots : ring[s] # arrived'
          /\ \A s \in Slots : ring[s] # None => ring[s] <= arrived'
      BY <1>0, <2>1, RingAssumption DEF OnceInv, Known, Shown, TypeOK, Msgs
    <2>3. \A k \in 1..Len(printed) : printed[k] \in Nat /\ printed[k] <= arrived
      <3>1. \A k \in 1..Len(printed) : printed[k] \in Msgs
        BY <1>0 DEF TypeOK
      <3> QED
        BY <3>1, RingAssumption DEF OnceInv, Known, Msgs
    <2>4. /\ \A k \in 1..Len(printed) : printed[k] <= arrived'
          /\ \A s \in Slots : ring'[s] # None => ring'[s] <= arrived'
      BY <2>1, <2>2, <2>3
    <2>5. CASE printed' = printed
      <3>1. Known'
        BY <2>2, <2>5, <2>4 DEF Known
      <3>2. OnTheWay'
        BY <2>1, <2>2, <2>5 DEF OnTheWay, Carries, Shown
      <3> QED
        BY <1>0, <2>1, <2>5, <3>1, <3>2
           DEF OnceInv, PrintedOnce, OneSlot, GoneWhenShown, Shown, Slot
    <2>6. CASE printed' = Append(printed, arrived') /\ cb' = cb
      <3>1. PrintedOnce'
        BY <1>0, <2>1, <2>2, <2>6, PrintNew DEF OnceInv
      <3>2. \A k \in Msgs : Shown(k)' <=> Shown(k) \/ k = arrived'
        BY <1>0, <2>1, <2>6, PrintNew
      <3>3. GoneWhenShown'
        BY <1>0, <2>1, <2>2, <3>2 DEF OnceInv, GoneWhenShown, TypeOK, Slot
      <3>4. Known'
        <4>1. ASSUME NEW k \in 1..Len(printed') PROVE printed'[k] <= arrived'
          <5>1. CASE k \in 1..Len(printed)
            BY <1>0, <2>6, <2>4, <5>1 DEF TypeOK
          <5>2. CASE k = Len(printed) + 1
            BY <1>0, <2>1, <2>6, <5>2 DEF TypeOK, Msgs
          <5> QED
            BY <1>0, <2>6, <5>1, <5>2 DEF TypeOK
        <4> QED
          BY <2>4, <4>1 DEF Known
      <3> QED
        BY <1>0, <2>1, <2>6, <3>1, <3>3, <3>4 DEF OnceInv, OneSlot, OnTheWay, Carries
    <2> QED
      BY <1>1, <2>5, <2>6 DEF Receive
  <1>2. CASE InsertWrap \/ InsertNext \/ InsertDrop
    BY <1>0, <1>2
       DEF InsertWrap, InsertNext, InsertDrop, Outside, atVars,
           OnceInv, PrintedOnce, OneSlot, OnTheWay, Carries, Known, GoneWhenShown, Shown, Slot
  <1>3. CASE InsertCopy
    <2>1. CASE ring' = ring
      BY <1>0, <1>3, <2>1
         DEF InsertCopy, Outside, atVars,
             OnceInv, PrintedOnce, OneSlot, OnTheWay, Carries, Known, GoneWhenShown, Shown, Slot
    <2>2. CASE index # -1 /\ ring' = [ring EXCEPT ![index % N] = arrived]
      <3> DEFINE here == index % N
      <3>1. /\ cb = "copy" /\ cb' = "report" /\ arrived \in Msgs
            /\ UNCHANGED <<printed, at, i, arrived>>
        BY <1>0, <1>3, <2>2 DEF InsertCopy, Outside, atVars, Typed, PointsOK
      <3>2. here \in Slots /\ ring' = [ring EXCEPT ![here] = arrived]
        BY <1>0, <2>2, SlotFacts
      <3> HIDE DEF here
      <3>3. /\ ring'[here] = arrived
            /\ \A s \in Slots : s # here => ring'[s] = ring[s]
        BY <1>0, <3>2 DEF TypeOK
      <3>4. ~Shown(arrived) /\ \A s \in Slots : ring[s] # arrived
        BY <3>1 DEF OnceInv, OnTheWay, Carries
      <3>5. OneSlot'
        BY <3>3, <3>4 DEF OnceInv, OneSlot
      <3>6. GoneWhenShown'
        BY <3>1, <3>3, <3>4 DEF OnceInv, GoneWhenShown, Shown, Slot
      <3>7. Known'
        BY <3>1, <3>3 DEF OnceInv, Known, Msgs
      <3> QED
        BY <1>0, <3>1, <3>5, <3>6, <3>7 DEF OnceInv, PrintedOnce, OnTheWay, Carries
    <2> QED
      BY <1>3, <2>1, <2>2 DEF InsertCopy, Outside
  <1>4. CASE SetMode \/ ShowBegin
    BY <1>0, <1>4
       DEF SetMode, ShowBegin, atVars, cbVars,
           OnceInv, PrintedOnce, OneSlot, OnTheWay, Carries, Known, GoneWhenShown, Shown, Slot
  <1>5. CASE ShowPrint
    <2>1. CASE ring[Slot] = None \/ Slot \notin sized
      BY <1>0, <1>5, <2>1
         DEF ShowPrint, cbVars,
             OnceInv, PrintedOnce, OneSlot, OnTheWay, Carries, Known, GoneWhenShown, Shown, Slot
    <2>2. CASE ring[Slot] # None /\ Slot \in sized
      <3> DEFINE m == ring[Slot]
      <3>1. /\ at = "print" /\ at' = "free" /\ printed' = Append(printed, m)
            /\ UNCHANGED <<ring, arrived, cb, i>>
        BY <1>5, <2>2 DEF ShowPrint, cbVars
      <3>2. Slot \in Slots /\ m \in Msgs /\ m <= arrived
        BY <1>0, <2>2, SlotFacts DEF OnceInv, Known, TypeOK
      <3>3. ~Shown(m)
        BY <3>1, <3>2, <2>2 DEF OnceInv, GoneWhenShown
      <3>4. Carries => arrived # m /\ arrived \in Msgs
        BY <1>0, <3>2 DEF OnceInv, OnTheWay, Carries, Typed, PointsOK
      <3>5. m = ring[Slot] /\ Slot' = Slot
        BY <3>1 DEF Slot
      <3> HIDE DEF m
      <3>6. /\ PrintedOnce'
            /\ \A k \in Msgs : Shown(k)' <=> Shown(k) \/ k = m
        BY <1>0, <3>1, <3>2, <3>3, PrintNew DEF OnceInv
      <3>7. OnTheWay'
        BY <3>1, <3>4, <3>6 DEF OnceInv, OnTheWay, Carries
      <3>8. GoneWhenShown'
        <4> SUFFICES ASSUME NEW s \in Slots, ring[s] # None, Shown(ring[s])'
                     PROVE  s = Slot
          BY <3>1, <3>5 DEF GoneWhenShown
        <4>1. ring[s] \in Msgs
          BY <1>0 DEF TypeOK
        <4>2. Shown(ring[s]) \/ ring[s] = m
          BY <3>1, <3>6, <4>1 DEF Shown
        <4>3. CASE ring[s] = m
          BY <2>2, <3>2, <3>5, <4>3 DEF OnceInv, OneSlot
        <4>4. CASE Shown(ring[s])
          BY <3>1, <4>4 DEF OnceInv, GoneWhenShown
        <4> QED
          BY <4>2, <4>3, <4>4
      <3>9. Known'
        BY <1>0, <3>1, <3>2 DEF OnceInv, Known, TypeOK, Msgs
      <3> QED
        BY <1>0, <3>1, <3>6, <3>7, <3>8, <3>9 DEF OnceInv, OneSlot
    <2> QED
      BY <2>1, <2>2
  <1>6. CASE ShowFree
    BY <1>0, <1>6
       DEF ShowFree, cbVars,
           OnceInv, PrintedOnce, OneSlot, OnTheWay, Carries, Known, GoneWhenShown, Shown, Slot
  <1>7. CASE ShowClear
    <2> DEFINE here == Slot
    <2>1. here \in Slots
      BY <1>0, SlotFacts
    <2>2. /\ ring' = [ring EXCEPT ![here] = None]
          /\ UNCHANGED <<printed, arrived, cb>> /\ at = "clear"
      BY <1>7 DEF ShowClear, cbVars
    <2>3. \A s \in Slots : Shown(ring[s]) /\ ring[s] # None => s = here
      BY DEF OnceInv, GoneWhenShown
    <2> HIDE DEF here
    <2>4. ring'[here] = None /\ \A s \in Slots : s # here => ring'[s] = ring[s]
      BY <1>0, <2>1, <2>2 DEF TypeOK
    <2>5. GoneWhenShown'
      BY <2>2, <2>3, <2>4 DEF GoneWhenShown, Shown
    <2>6. OneSlot' /\ Known'
      BY <2>2, <2>4 DEF OnceInv, OneSlot, Known
    <2>7. OnTheWay'
      <3> SUFFICES ASSUME Carries
                   PROVE  ~Shown(arrived)' /\ \A s \in Slots : ring'[s] # arrived
        BY <2>2 DEF OnTheWay, Carries
      <3>1. arrived # None
        BY <1>0, RingAssumption DEF TypeOK
      <3> QED
        BY <2>2, <2>4, <3>1 DEF OnceInv, OnTheWay, Shown
    <2> QED
      BY <1>0, <2>2, <2>5, <2>6, <2>7 DEF OnceInv, PrintedOnce
  <1>8. CASE ShowZero \/ ShowReset
    BY <1>0, <1>8
       DEF ShowZero, ShowReset, cbVars,
           OnceInv, PrintedOnce, OneSlot, OnTheWay, Carries, Known, GoneWhenShown, Shown, Slot
  <1>9. CASE Report \/ ReportStart \/ Pulse
    BY <1>0, <1>9
       DEF Report, ReportStart, Pulse, TimerExpires, PulseLow, atVars, cbVars,
           OnceInv, PrintedOnce, OneSlot, OnTheWay, Carries, Known, GoneWhenShown, Shown, Slot
  <1>10. CASE UNCHANGED vars
    BY <1>0, <1>10
       DEF vars, cbVars, atVars,
           OnceInv, PrintedOnce, OneSlot, OnTheWay, Carries, Known, GoneWhenShown, Shown, Slot
  <1> QED
    BY <1>1, <1>2, <1>3, <1>4, <1>5, <1>6, <1>7, <1>8, <1>9, <1>10 DEF Next, Insert, Show

(* No interleaving of insertions and AT+STOREDATA prints a message twice    *)
(* (PrintedOnce).                                                           *)
THEOREM NeverTwice == Spec => []PrintedOnce
  <1>1. OnceInv => PrintedOnce
    BY DEF OnceInv
  <1> QED
    BY <1>1, OnceInit, OnceStep, PTL DEF Spec

(***************************************************************************)
(* Where the two threads take turns the heap is in order: the allocated    *)
(* buffers are those in the ring and the one on its way into it, less the  *)
(* one that has been freed or passed over and is about to be replaced or   *)
(* cleared, and buffers of empty messages.  A length of 0 in a slot that   *)
(* is in use is then the length of its message.                            *)
(***************************************************************************)
Stored == {ring[s] : s \in Slots} \ {None}

Owns(used) == used \subseteq live /\ live \subseteq used \cup Empty

Owned ==
  /\ ~Carries /\ at # "clear" => Owns(Stored)
  /\ cb \in {"wrap", "next", "drop"} => Owns(Stored \cup {arrived})
  /\ cb = "copy" => Owns((Stored \ {ring[index % N]}) \cup {arrived})
  /\ at = "clear" => Owns(Stored \ {ring[Slot]})

Lengths == \A s \in Slots : ring[s] # None => (s \in sized <=> ring[s] \notin Empty)

TurnsOK ==
  /\ cb = "idle" \/ at = "idle"
  /\ cb \in {"drop", "copy"} => index # -1
  /\ at = "free" => ring[Slot] # None
  /\ at = "zero" => ring[Slot] = None

TurnInv == OnceInv /\ Sound /\ Owned /\ Lengths /\ TurnsOK

(* Writing one slot replaces its message and no other. *)
LEMMA StoredWrite ==
  ASSUME OnceInv, NEW here \in Slots, NEW v, ring' = [ring EXCEPT ![here] = v]
  PROVE  Stored' = ((Stored \ {ring[here]}) \cup {v}) \ {None}
  <1>1. /\ ring'[here] = v
        /\ \A s \in Slots : s # here => ring'[s] = ring[s]
    BY DEF OnceInv, Typed, TypeOK
  <1>2. \A s \in Slots : s # here /\ ring[s] # None => ring[s] # ring[here]
    BY DEF OnceInv, OneSlot
  <1>3. ASSUME NEW m, m \in Stored' PROVE m \in ((Stored \ {ring[here]}) \cup {v}) \ {None}
    BY <1>1, <1>2, <1>3 DEF Stored
  <1>4. ASSUME NEW m, m \in ((Stored \ {ring[here]}) \cup {v}) \ {None} PROVE m \in Stored'
    BY <1>1, <1>4 DEF Stored
  <1> QED
    BY <1>3, <1>4

LEMMA TurnInit == Init => TurnInv
  BY OnceInit, RingAssumption
     DEF Init, TurnInv, Sound, Owned, Owns, Lengths, Carries, TurnsOK, Stored

LEMMA TurnStep ==
  ASSUME TakeTurns
  PROVE  TurnInv /\ [Next]_vars => TurnInv'
  <1> SUFFICES ASSUME TurnInv, [Next]_vars PROVE TurnInv'
    OBVIOUS
  <1>0. OnceInv /\ OnceInv' /\ TypeOK /\ TypeOK'
    BY OnceStep DEF TurnInv, OnceInv, Typed
  <1>1. None \notin live /\ None # arrived
    <2>1. live \subseteq Nat
      BY <1>0, RingAssumption DEF TypeOK, Msgs
    <2>2. arrived \in Nat
      BY <1>0, RingAssumption DEF TypeOK
    <2> QED
      BY <2>1, <2>2, RingAssumption
  <1>2. CASE Receive
    BY <1>0, <1>2 DEF Receive, atVars, TurnInv, Sound, Owned, Owns, Lengths, Carries, TurnsOK, Stored, Slot
  <1>3. CASE InsertWrap
    BY <1>0, <1>3 DEF InsertWrap, atVars, TurnInv, Sound, Owned, Owns, Lengths, Carries, TurnsOK, Stored, Slot
  <1>4. CASE InsertNext
    <2>1. index' # -1
      BY <1>0, <1>4, RingAssumption DEF InsertNext, TypeOK
    <2> QED
      BY <1>0, <1>4, <2>1 DEF InsertNext, atVars, TurnInv, Sound, Owned, Owns, Lengths, Carries, TurnsOK, Stored, Slot
  <1>5. CASE InsertDrop
    <2> DEFINE m == ring[index % N]
    <2>1. /\ cb = "drop" /\ cb' = "copy" /\ index # -1 /\ at = "idle"
          /\ Free(m) /\ UNCHANGED <<ring, sized, index, arrived, at, i>>
      BY <1>5 DEF InsertDrop, Outside, TurnInv, TurnsOK, atVars
    <2>2. index % N \in Slots
      BY <1>0, <2>1, SlotFacts
    <2>3. m # arrived /\ (m # None => m \in Stored)
      BY <2>1, <2>2 DEF TurnInv, OnceInv, OnTheWay, Carries, Stored
    <2>4. Owns(Stored \cup {arrived})
      BY <2>1 DEF TurnInv, Owned, Carries
    <2>5. m' = m /\ Stored' = Stored /\ Lengths'
      BY <2>1 DEF Stored, TurnInv, Lengths
    <2> HIDE DEF m
    <2>6. Owns((Stored \ {m}) \cup {arrived})' /\ broken' = {}
      BY <2>1, <2>3, <2>4, <2>5 DEF Free, TurnInv, Sound, Owns
    <2> QED
      BY <1>0, <2>1, <2>5, <2>6 DEF TurnInv, Sound, Owned, Carries, TurnsOK, m
  <1>6. CASE InsertCopy
    <2>1. /\ cb = "copy" /\ cb' = "report" /\ index # -1 /\ at = "idle"
          /\ ring' = [ring EXCEPT ![index % N] = arrived]
          /\ sized' = IF arrived \in Empty THEN sized \ {index % N}
                                          ELSE sized \cup {index % N}
          /\ UNCHANGED <<live, broken, index, arrived, at, i>>
      BY <1>6 DEF InsertCopy, Outside, TurnInv, TurnsOK, atVars
    <2>2. index % N \in Slots
      BY <1>0, <2>1, SlotFacts
    <2>3. Stored' = ((Stored \ {ring[index % N]}) \cup {arrived}) \ {None}
      BY <1>0, <2>1, <2>2, StoredWrite
    <2>4. Owns((Stored \ {ring[index % N]}) \cup {arrived})
      BY <2>1 DEF TurnInv, Owned, Carries
    <2>5. Owns(Stored)'
      BY <1>1, <2>1, <2>3, <2>4 DEF Owns
    <2>6. Lengths'
      <3> SUFFICES ASSUME NEW s \in Slots, ring'[s] # None
                   PROVE  s \in sized' <=> ring'[s] \notin Empty
        BY DEF Lengths
      <3>1. CASE s = index % N
        BY <1>0, <2>1, <3>1 DEF TypeOK
      <3>2. CASE s # index % N
        BY <1>0, <2>1, <3>2 DEF TypeOK, TurnInv, Lengths
      <3> QED
        BY <3>1, <3>2
    <2> QED
      BY <1>0, <2>1, <2>5, <2>6 DEF TurnInv, Sound, Owned, Carries, TurnsOK
  <1>7. CASE SetMode
    BY <1>0, <1>7 DEF SetMode, atVars, cbVars, TurnInv, Sound, Owned, Owns, Lengths, Carries, TurnsOK, Stored, Slot
  <1>8. CASE ShowBegin
    BY <1>0, <1>8 DEF ShowBegin, cbVars, TurnInv, Sound, Owned, Owns, Lengths, Carries, TurnsOK, Stored, Slot
  <1>9. CASE ShowPrint
    <2>1. /\ at = "print" /\ cb = "idle" /\ Owns(Stored)
          /\ UNCHANGED <<ring, sized, live, cb, i>>
      BY <1>9 DEF ShowPrint, cbVars, TurnInv, Owned, Carries, TurnsOK
    <2>2. Slot' = Slot /\ Stored' = Stored /\ Lengths'
      BY <2>1 DEF Slot, Stored, TurnInv, Lengths
    <2>3. Slot \in Slots
      BY <1>0, SlotFacts
    <2>4. CASE (ring[Slot] = None \/ Slot \notin sized) /\ at' = "clear" /\ broken' = broken
      <3>1. ring[Slot] = None \/ ring[Slot] \in Empty
        BY <2>3, <2>4 DEF TurnInv, Lengths
      <3>2. Owns(Stored \ {ring[Slot]})'
        BY <2>1, <2>2, <3>1 DEF Owns, Stored
      <3> QED
        BY <1>0, <2>1, <2>2, <2>4, <3>2 DEF TurnInv, Sound, Owned, Carries, TurnsOK
    <2>5. CASE ring[Slot] # None /\ at' = "free"
      <3>1. ring[Slot] \in live
        BY <2>1, <2>3, <2>5 DEF Stored, Owns
      <3>2. broken' = {}
        BY <1>9, <2>5, <3>1 DEF ShowPrint, TurnInv, Sound
      <3>3. Owns(Stored)'
        BY <2>1, <2>2 DEF Owns
      <3> QED
        BY <1>0, <2>1, <2>2, <2>5, <3>2, <3>3 DEF TurnInv, Sound, Owned, Carries, TurnsOK
    <2> QED
      BY <1>9, <2>4, <2>5 DEF ShowPrint
  <1>10. CASE ShowFree
    <2>1. /\ at = "free" /\ at' = "clear" /\ cb = "idle" /\ Owns(Stored)
          /\ Free(ring[Slot]) /\ ring[Slot] # None
          /\ UNCHANGED <<ring, sized, cb, i>>
      BY <1>10 DEF ShowFree, cbVars, TurnInv, Owned, Carries, TurnsOK
    <2>2. Slot \in Slots /\ Slot' = Slot /\ Stored' = Stored /\ Lengths'
      BY <1>0, <2>1, SlotFacts DEF Slot, Stored, TurnInv, Lengths
    <2>3. ring[Slot] \in live
      BY <2>1, <2>2 DEF Stored, Owns
    <2>4. Owns(Stored \ {ring[Slot]})' /\ broken' = {}
      BY <2>1, <2>2, <2>3 DEF Free, TurnInv, Sound, Owns
    <2> QED
      BY <1>0, <2>1, <2>2, <2>4 DEF TurnInv, Sound, Owned, Carries, TurnsOK
  <1>11. CASE ShowClear
    <2>1. /\ at = "clear" /\ at' = "zero" /\ cb = "idle"
          /\ Owns(Stored \ {ring[Slot]}) /\ ring' = [ring EXCEPT ![Slot] = None]
          /\ UNCHANGED <<live, sized, cb, i, broken>>
      BY <1>11 DEF ShowClear, cbVars, TurnInv, Owned, Carries, TurnsOK
    <2>2. Stored' = ((Stored \ {ring[Slot]}) \cup {None}) \ {None}
      BY <1>0, <2>1, SlotFacts, StoredWrite
    <2>3. Owns(Stored)'
      BY <1>1, <2>1, <2>2 DEF Owns, Stored
    <2>4. ring'[Slot] = None /\ \A s \in Slots : s # Slot => ring'[s] = ring[s]
      BY <1>0, <2>1, SlotFacts DEF TypeOK
    <2>5. Lengths' /\ (ring[Slot])' = None
      BY <2>1, <2>4 DEF TurnInv, Lengths, Slot
    <2> QED
      BY <1>0, <2>1, <2>3, <2>5 DEF TurnInv, Sound, Owned, Carries, TurnsOK
  <1>12. CASE ShowZero \/ ShowReset
    <2>1. /\ at \in {"zero", "reset"} /\ at' \in {"print", "reset", "idle"} /\ cb = "idle"
          /\ sized' = sized \/ (ring[Slot] = None /\ sized' = sized \ {Slot})
          /\ UNCHANGED <<ring, live, cb, broken>>
      BY <1>12 DEF ShowZero, ShowReset, cbVars, TurnInv, TurnsOK
    <2>2. Lengths'
      BY <2>1 DEF TurnInv, Lengths
    <2>3. Owns(Stored)'
      BY <2>1 DEF TurnInv, Owned, Carries, Owns, Stored
    <2> QED
      BY <1>0, <2>1, <2>2, <2>3 DEF TurnInv, Sound, Owned, Carries, TurnsOK
  <1>13. CASE Report \/ ReportStart \/ Pulse
    BY <1>0, <1>13 DEF Report, ReportStart, Pulse, TimerExpires, PulseLow, atVars, cbVars,
       TurnInv, Sound, Owned, Owns, Lengths, Carries, TurnsOK, Stored, Slot
  <1>14. CASE UNCHANGED vars
    BY <1>0, <1>14 DEF vars, cbVars, atVars, TurnInv, Sound, Owned, Owns, Lengths, Carries, TurnsOK, Stored, Slot
  <1> QED
    BY <1>2, <1>3, <1>4, <1>5, <1>6, <1>7, <1>8, <1>9, <1>10, <1>11, <1>12, <1>13,
       <1>14 DEF Next, Insert, Show

(* Without a message during AT+STOREDATA nothing is freed twice, read after *)
(* it was freed, or written outside the ring (Sound).                       *)
THEOREM TurnsSound ==
  ASSUME TakeTurns PROVE Spec => []Sound
  <1>1. TurnInv => Sound
    BY DEF TurnInv
  <1>2. TurnInv /\ [Next]_vars => TurnInv'
    BY TurnStep
  <1> QED
    BY <1>1, <1>2, TurnInit, PTL DEF Spec

(* ... and no buffer is lost but those of empty messages, which the walk    *)
(* clears without freeing: everything else allocated is in the ring, and    *)
(* everything in the ring is allocated (NoLeak).                            *)
THEOREM TurnsNoLeak ==
  ASSUME TakeTurns PROVE Spec => []NoLeak
  <1>1. TurnInv => NoLeak
    BY DEF TurnInv, Owned, Owns, Carries, Stored, NoLeak
  <1>2. TurnInv /\ [Next]_vars => TurnInv'
    BY TurnStep
  <1> QED
    BY <1>1, <1>2, TurnInit, PTL DEF Spec

(***************************************************************************)
(* The pulse that tells the host of a stored message, where it does not    *)
(* end while a message is stored.                                          *)
(***************************************************************************)
PulseInv ==
  /\ cb # "idle" => ~due
  /\ due => timer # "active"
  /\ cb = "start" => timer = "idle" /\ pin = "high"
  /\ cb # "start" => (pin = "high" <=> timer = "active" \/ due)

LEMMA PulseInit == Init => PulseInv
  BY DEF Init, PulseInv

LEMMA PulseStep ==
  ASSUME TakeTurns
  PROVE  TypeOK /\ PulseInv /\ [Next]_vars => PulseInv'
  <1> SUFFICES ASSUME TypeOK, PulseInv, [Next]_vars PROVE PulseInv'
    OBVIOUS
  <1> USE DEF PulseInv, TypeOK, pulse
  <1>1. CASE Receive
    BY <1>1 DEF Receive
  <1>2. CASE InsertWrap \/ InsertNext
    BY <1>2 DEF InsertWrap, InsertNext
  <1>3. CASE InsertDrop \/ InsertCopy
    BY <1>3 DEF InsertDrop, InsertCopy, Outside
  <1>4. CASE Report \/ ReportStart
    BY <1>4 DEF Report, ReportStart
  <1>5. CASE TimerExpires \/ PulseLow
    BY <1>5 DEF TimerExpires, PulseLow, cbVars
  <1>6. CASE SetMode \/ ShowBegin \/ Show
    BY <1>6 DEF SetMode, ShowBegin, Show, ShowPrint, ShowFree, ShowClear, ShowZero, ShowReset, cbVars
  <1>7. CASE UNCHANGED vars
    BY <1>7 DEF vars, cbVars
  <1> QED
    BY <1>1, <1>2, <1>3, <1>4, <1>5, <1>6, <1>7 DEF Next, Insert, Pulse

(* Every stored message is announced: when it is in the ring the report     *)
(* pin is high, unless the timer could not be created (Announced).          *)
THEOREM TurnsAnnounced ==
  ASSUME TakeTurns PROVE Spec => Announced
  <1>1. TypeOK /\ PulseInv /\ [Next]_vars => PulseInv'
    BY PulseStep
  <1>2. TypeOK /\ PulseInv /\ [Next]_vars => [Tells]_vars
    <2> SUFFICES ASSUME TypeOK, PulseInv, Next, cb # "idle", cb' = "idle"
                 PROVE  timer = "none" \/ pin' = "high"
      BY DEF Tells
    <2>1. Report \/ ReportStart
      BY DEF Next, Insert, Show, Pulse, Receive, InsertWrap, InsertNext, InsertDrop,
         InsertCopy, Outside, SetMode, ShowBegin, ShowPrint, ShowFree, ShowClear,
         ShowZero, ShowReset, TimerExpires, PulseLow, cbVars
    <2> QED
      BY <2>1 DEF Report, ReportStart, PulseInv, TypeOK
  <1> QED
    BY <1>1, <1>2, PulseInit, TypeCorrect, PTL DEF Spec, Announced

(***************************************************************************)
(* Where the threads take turns the ring is the queue of StoreQueue.  Read *)
(* from First, where AT+STOREDATA begins or has got to, the ring holds its *)
(* empty slots first; an insertion moves First past the slot it fills, and *)
(* the walk moves First past the slot it prints.                           *)
(***************************************************************************)
LEMMA ModTwice ==
  ASSUME NEW x \in 0..2*N-1
  PROVE  x % N = IF x < N THEN x ELSE x - N
  <1> USE RingAssumption
  <1>1. CASE x < N
    BY <1>1
  <1>2. CASE x >= N
    <2>1. x - N \in 0..N-1
      BY <1>2
    <2>2. x = 1 * N + (x - N)
      BY <1>2
    <2> QED
      BY <1>2, <2>1, <2>2
  <1> QED
    BY <1>1, <1>2

LEMMA CountFirst ==
  ASSUME NEW g \in Nat
  PROVE  Cardinality(0..g-1) = g
  BY FS_Interval

EmptyUpTo(g) == \A k \in 0..Left-1 : Meets(k) = None <=> k < g

LEMMA HeldIs ==
  ASSUME Left \in Nat, NEW g \in 0..Left, EmptyUpTo(g)
  PROVE  Held = [k \in 1..Left-g |-> Meets(g + k - 1)]
  <1>1. {k \in 0..Left-1 : Meets(k) = None} = 0..g-1
    BY DEF EmptyUpTo
  <1>2. Cardinality(0..g-1) = g
    BY CountFirst
  <1>3. Empties = g
    BY <1>1, <1>2, Zenon DEF Empties
  <1> QED
    BY <1>3 DEF Held

LEMMA HeldIsNext ==
  ASSUME NEW left \in Nat, Left' = left, NEW g \in 0..left, EmptyUpTo(g)'
  PROVE  Held' = [k \in 1..left-g |-> Meets(g + k - 1)']
  <1>1. {k \in 0..left-1 : Meets(k)' = None} = 0..g-1
    BY DEF EmptyUpTo
  <1>2. Cardinality(0..g-1) = g
    BY CountFirst
  <1>3. Empties' = Cardinality({k \in 0..left-1 : Meets(k)' = None})
    BY DEF Empties
  <1>4. Empties' = g
    BY <1>1, <1>2, <1>3
  <1> QED
    BY <1>4 DEF Held

(* The queue as seen from First, in the current state and in the next. *)
LEMMA NoneMoves ==
  ASSUME Left \in Nat, NEW g \in 0..Left, EmptyUpTo(g),
         Left' = Left, \A k \in 0..Left-1 : Meets(k)' = Meets(k)
  PROVE  EmptyUpTo(g)' /\ Held' = Held
  <1>1. EmptyUpTo(g)'
    BY DEF EmptyUpTo
  <1>2. /\ Held  = [k \in 1..Left-g |-> Meets(g + k - 1)]
        /\ Held' = [k \in 1..Left-g |-> Meets(g + k - 1)']
    BY <1>1, HeldIs, HeldIsNext
  <1>3. \A k \in 1..Left-g : Meets(g + k - 1)' = Meets(g + k - 1)
    OBVIOUS
  <1> QED
    BY <1>1, <1>2, <1>3

(* First moves over one slot: an empty one, or the oldest message. *)
LEMMA OneLess ==
  ASSUME Left \in Nat \ {0}, NEW g \in 0..Left, EmptyUpTo(g),
         Left' = Left - 1, \A k \in 0..Left-2 : Meets(k)' = Meets(k + 1)
  PROVE  /\ Meets(0) = None => g # 0 /\ EmptyUpTo(g - 1)' /\ Held' = Held
         /\ Meets(0) # None => /\ g = 0 /\ EmptyUpTo(0)'
                               /\ Held # <<>> /\ Head(Held) = Meets(0)
                               /\ Held' = Tail(Held)
  <1>1. Held = [k \in 1..Left-g |-> Meets(g + k - 1)]
    BY HeldIs
  <1>2. Meets(0) = None <=> g # 0
    BY DEF EmptyUpTo
  <1>3. ASSUME g # 0 PROVE EmptyUpTo(g - 1)' /\ Held' = Held
    <2>1. EmptyUpTo(g - 1)'
      BY <1>3 DEF EmptyUpTo
    <2>2. Held' = [k \in 1..Left'-(g-1) |-> Meets((g - 1) + k - 1)']
      BY <1>3, <2>1, HeldIsNext
    <2>3. Left' - (g-1) = Left - g
      OBVIOUS
    <2>4. \A k \in 1..Left-g : Meets((g - 1) + k - 1)' = Meets(g + k - 1)
      <3> SUFFICES ASSUME NEW k \in 1..Left-g
                   PROVE  Meets((g - 1) + k - 1)' = Meets(g + k - 1)
        OBVIOUS
      <3>1. (g - 1) + k - 1 \in 0..Left-2
        BY <1>3
      <3>2. ((g - 1) + k - 1) + 1 = g + k - 1
        OBVIOUS
      <3> QED
        BY <3>1, <3>2
    <2> QED
      BY <1>1, <2>1, <2>2, <2>3, <2>4
  <1>4. ASSUME g = 0
        PROVE  EmptyUpTo(0)' /\ Held # <<>> /\ Head(Held) = Meets(0) /\ Held' = Tail(Held)
    <2>1. EmptyUpTo(0)'
      BY <1>4 DEF EmptyUpTo
    <2>2. Held' = [k \in 1..Left-1 |-> Meets(0 + k - 1)']
      BY <1>4, <2>1, HeldIsNext
    <2>3. \A k \in 1..Left-1 : Meets(0 + k - 1)' = Meets(0 + (k + 1) - 1)
      <3> SUFFICES ASSUME NEW k \in 1..Left-1
                   PROVE  Meets(0 + k - 1)' = Meets(0 + (k + 1) - 1)
        OBVIOUS
      <3>1. 0 + k - 1 \in 0..Left-2 /\ (0 + k - 1) + 1 = 0 + (k + 1) - 1
        OBVIOUS
      <3> QED
        BY <3>1
    <2>4. Held = [k \in 1..Left |-> Meets(0 + k - 1)]
      BY <1>1, <1>4
    <2>5. Held # <<>> /\ Head(Held) = Meets(0 + 1 - 1) /\ Len(Held) = Left
      BY <2>4
    <2>6. Tail(Held) = [k \in 1..Left-1 |-> Meets(0 + (k + 1) - 1)]
      BY <2>4, <2>5
    <2>7. 0 + 1 - 1 = 0
      OBVIOUS
    <2> QED
      BY <2>1, <2>2, <2>3, <2>5, <2>6, <2>7
  <1> QED
    BY <1>2, <1>3, <1>4

(* First moves over the slot that the message m has just taken. *)
LEMMA OneStored ==
  ASSUME Left = N, Left' = N, NEW g \in 0..N, EmptyUpTo(g), NEW m, m # None,
         \A k \in 0..N-2 : Meets(k)' = Meets(k + 1), Meets(N - 1)' = m
  PROVE  /\ EmptyUpTo(IF g = 0 THEN 0 ELSE g - 1)'
         /\ Held' = Append(IF Len(Held) < N THEN Held ELSE Tail(Held), m)
  <1> USE RingAssumption
  <1>1. Held = [k \in 1..N-g |-> Meets(g + k - 1)]
    BY HeldIs
  <1>2. Len(Held) = N - g
    BY <1>1
  <1>3. CASE g # 0
    <2>1. EmptyUpTo(g - 1)'
      BY <1>3 DEF EmptyUpTo
    <2>2. Held' = [k \in 1..N-(g-1) |-> Meets((g - 1) + k - 1)']
      BY <1>3, <2>1, HeldIsNext
    <2>3. \A k \in 1..N-g : Meets((g - 1) + k - 1)' = Meets(g + k - 1)
      <3> SUFFICES ASSUME NEW k \in 1..N-g
                   PROVE  Meets((g - 1) + k - 1)' = Meets(g + k - 1)
        OBVIOUS
      <3>1. (g - 1) + k - 1 \in 0..N-2 /\ ((g - 1) + k - 1) + 1 = g + k - 1
        BY <1>3
      <3> QED
        BY <3>1
    <2>4. N - (g-1) = (N - g) + 1 /\ (g - 1) + (N - (g-1)) - 1 = N - 1
      OBVIOUS
    <2>5. Append(Held, m) = [k \in 1..(N-g)+1 |-> IF k = (N-g)+1 THEN m ELSE Meets(g + k - 1)]
      BY <1>1, <1>2
    <2>6. Held' = Append(Held, m)
      <3>1. Meets((g - 1) + ((N - g) + 1) - 1)' = m
        BY <2>4
      <3>2. \A k \in 1..(N-g)+1 :
              Meets((g - 1) + k - 1)' = IF k = (N-g)+1 THEN m ELSE Meets(g + k - 1)
        BY <2>3, <3>1
      <3> QED
        BY <2>2, <2>4, <2>5, <3>2
    <2> QED
      BY <1>2, <1>3, <2>1, <2>6
  <1>4. CASE g = 0
    <2>1. EmptyUpTo(0)'
      BY <1>4 DEF EmptyUpTo
    <2>2. Held' = [k \in 1..N |-> Meets(0 + k - 1)']
      BY <2>1, HeldIsNext
    <2>3. \A k \in 1..N-1 : Meets(0 + k - 1)' = Meets(0 + (k + 1) - 1)
      <3> SUFFICES ASSUME NEW k \in 1..N-1
                   PROVE  Meets(0 + k - 1)' = Meets(0 + (k + 1) - 1)
        OBVIOUS
      <3>1. 0 + k - 1 \in 0..N-2 /\ (0 + k - 1) + 1 = 0 + (k + 1) - 1
        OBVIOUS
      <3> QED
        BY <3>1
    <2>4. Held = [k \in 1..N |-> Meets(0 + k - 1)] /\ Len(Held) = N
      BY <1>1, <1>2, <1>4
    <2>5. Tail(Held) = [k \in 1..N-1 |-> Meets(0 + (k + 1) - 1)]
      BY <2>4
    <2>6. Append(Tail(Held), m) =
            [k \in 1..N |-> IF k = N THEN m ELSE Meets(0 + (k + 1) - 1)]
      <3> DEFINE tail == Tail(Held)
      <3>1. tail = [k \in 1..N-1 |-> Meets(0 + (k + 1) - 1)]
        BY <2>5
      <3> HIDE DEF tail
      <3>2. Len(tail) = N - 1
        BY <3>1
      <3>3. Append(tail, m) = [k \in 1..N |-> IF k = N THEN m ELSE tail[k]]
        BY <3>1, <3>2
      <3> QED
        <4>1. Append(tail, m) =
                [k \in 1..N |-> IF k = N THEN m ELSE Meets(0 + (k + 1) - 1)]
          BY <3>1, <3>3
        <4> QED
          BY <4>1, Zenon DEF tail
    <2>7. 0 + N - 1 = N - 1
      OBVIOUS
    <2>8. Held' = Append(Tail(Held), m)
      BY <2>2, <2>3, <2>6, <2>7
    <2>9. ~(Len(Held) < N) /\ (IF g = 0 THEN 0 ELSE g - 1) = 0
      BY <1>4, <2>4
    <2> QED
      BY <2>1, <2>8, <2>9, Zenon
  <1> QED
    BY <1>3, <1>4

Blank   == \A s \in Slots : ring[s] = None
Walking == at \in {"print", "free", "clear", "zero"}

(* An index of -1 means an empty ring, except while it wraps; the walk goes *)
(* once around, and the slots behind it are empty; the empty slots come     *)
(* first.                                                                   *)
WalkOK ==
  /\ index = -1 /\ cb # "next" => Blank
  /\ at = "reset" => Blank
  /\ at # "idle" => index # -1
  /\ Walking => /\ max \in N..2*N-1
                /\ max - N <= i
                /\ \A x \in max-N..i-1 : ring[x % N] = None
  /\ \E g \in 0..Left : EmptyUpTo(g)

QueueInv == TurnInv /\ WalkOK

(* Where First is, and how far the walk still has to go. *)
LEMMA FirstFacts ==
  ASSUME Typed, TurnsOK, WalkOK
  PROVE  /\ First \in Nat /\ Left \in Nat /\ First + Left <= 2*N
         /\ ~Walking => Left = N
         /\ \A k \in 0..Left-1 : First + k \in 0..2*N-1
  <1> USE RingAssumption
  <1>1. index \in -1..N-1 /\ i \in Nat
    BY DEF Typed, TypeOK
  <1>2. CASE Walking
    <2>1. max \in N..2*N-1 /\ i < max
      BY <1>2 DEF WalkOK, Walking, Typed, PointsOK
    <2>2. First \in {i, i + 1} /\ Left = max - First
      <3>1. cb = "idle"
        BY <1>2 DEF TurnsOK, Walking
      <3> QED
        BY <1>2, <3>1 DEF First, Left, Walking
    <2> QED
      BY <1>1, <1>2, <2>1, <2>2
  <1>3. CASE ~Walking
    <2>1. Left = N /\ First = IF cb \in {"drop", "copy"} THEN index ELSE index + 1
      BY <1>3 DEF First, Left, Walking
    <2>2. cb \in {"drop", "copy"} => index # -1
      BY DEF TurnsOK
    <2> QED
      BY <1>1, <2>1, <2>2
  <1> QED
    BY <1>2, <1>3

(* A step that leaves the slots of the walk as they were. *)
LEMMA SameWalk ==
  ASSUME Typed, TurnsOK, WalkOK, Left' = Left,
         \A k \in 0..Left-1 : Meets(k)' = Meets(k)
  PROVE  (\E g \in 0..Left : EmptyUpTo(g))' /\ Held' = Held
  <1>1. PICK g \in 0..Left : EmptyUpTo(g)
    BY DEF WalkOK
  <1>2. EmptyUpTo(g)' /\ Held' = Held
    BY <1>1, FirstFacts, NoneMoves
  <1>3. g \in 0..Left'
    BY <1>1
  <1> QED
    BY <1>2, <1>3

LEMMA WalkInit == Init => QueueInv /\ Queue!Init
  <1> SUFFICES ASSUME Init PROVE QueueInv /\ Queue!Init
    OBVIOUS
  <1> USE RingAssumption
  <1>1. Typed /\ TurnInv
    BY TypedInit, TurnInit
  <1>2. Left = N /\ First = 0
    BY DEF Init, Left, First
  <1>3. \A k \in 0..N-1 : Meets(k) = None
    <2>1. \A k \in 0..N-1 : (0 + k) % N \in Slots
      BY ModFacts
    <2> QED
      BY <1>2, <2>1 DEF Init, Meets
  <1>4. N \in 0..Left /\ EmptyUpTo(N)
    BY <1>2, <1>3 DEF EmptyUpTo
  <1>5. WalkOK
    BY <1>4 DEF Init, WalkOK, Blank, Walking
  <1>6. Held = [k \in 1..N-N |-> Meets(N + k - 1)]
    BY <1>2, <1>4, HeldIs
  <1>7. Held = <<>>
    BY <1>6
  <1> QED
    BY <1>1, <1>5, <1>7 DEF Init, QueueInv, Queue!Init

LEMMA CopyStores ==
  ASSUME QueueInv, InsertCopy
  PROVE  (\E g \in 0..Left : EmptyUpTo(g))' /\ Queue!Store(arrived)
  <1> USE RingAssumption
  <1>1. /\ cb = "copy" /\ cb' = "report" /\ index # -1 /\ at = "idle"
        /\ ring' = [ring EXCEPT ![index % N] = arrived]
        /\ UNCHANGED <<index, arrived, at, i, max, printed>>
    BY DEF InsertCopy, Outside, QueueInv, TurnInv, TurnsOK, atVars
  <1>2. /\ index \in 0..N-1 /\ index % N = index
        /\ ring \in [Slots -> Msgs \cup {None}] /\ arrived \in Msgs
    <2>1. index \in 0..N-1
      BY <1>1 DEF QueueInv, TurnInv, OnceInv, Typed, TypeOK
    <2>2. index % N = index
      BY <2>1, ModTwice
    <2> QED
      BY <1>1, <2>1, <2>2 DEF QueueInv, TurnInv, OnceInv, Typed, TypeOK, PointsOK
  <1>3. First = index /\ First' = index + 1 /\ Left = N /\ Left' = N
    BY <1>1 DEF First, Left
  <1>4. \A k \in 0..N-2 : Meets(k)' = Meets(k + 1)
    <2> SUFFICES ASSUME NEW k \in 0..N-2 PROVE Meets(k)' = Meets(k + 1)
      OBVIOUS
    <2>1. index + 1 + k \in 0..2*N-1 /\ index + (k + 1) = index + 1 + k
      BY <1>2
    <2>2. (index + 1 + k) % N \in Slots /\ (index + 1 + k) % N # index
      <3>1. (index + 1 + k) % N = IF index + 1 + k < N THEN index + 1 + k
                                                       ELSE (index + 1 + k) - N
        <4> DEFINE x == index + 1 + k
        <4>1. x \in 0..2*N-1
          BY <2>1
        <4> HIDE DEF x
        <4>2. x % N = IF x < N THEN x ELSE x - N
          BY <4>1, ModTwice
        <4> QED
          BY <4>2 DEF x
      <3> QED
        BY <1>2, <2>1, <3>1 DEF Slots
    <2>3. ring'[(index + 1 + k) % N] = ring[(index + 1 + k) % N]
      BY <1>1, <1>2, <2>2
    <2> QED
      BY <1>3, <2>1, <2>3 DEF Meets
  <1>5. Meets(N - 1)' = arrived
    <2>1. index + 1 + (N - 1) \in 0..2*N-1 /\ index + 1 + (N - 1) = index + N
      BY <1>2
    <2>2. (index + 1 + (N - 1)) % N = index
      BY <1>2, <2>1, ModTwice
    <2>3. ring'[index] = arrived
      BY <1>1, <1>2 DEF Slots
    <2> QED
      BY <1>3, <2>2, <2>3 DEF Meets
  <1>6. arrived # None
    BY <1>2 DEF Msgs
  <1>7. PICK g \in 0..N : EmptyUpTo(g)
    BY <1>3 DEF QueueInv, WalkOK
  <1> DEFINE h == IF g = 0 THEN 0 ELSE g - 1
  <1>8. /\ EmptyUpTo(h)'
        /\ Held' = Append(IF Len(Held) < N THEN Held ELSE Tail(Held), arrived)
    BY <1>3, <1>4, <1>5, <1>6, <1>7, OneStored
  <1>9. h \in 0..N
    OBVIOUS
  <1> HIDE DEF h
  <1>10. (\E g_1 \in 0..Left : EmptyUpTo(g_1))'
    BY <1>3, <1>8, <1>9
  <1> QED
    BY <1>1, <1>8, <1>10 DEF Queue!Store

(* The walk prints the oldest message, drops it when it is empty, or steps  *)
(* over a free slot.                                                        *)
LEMMA PrintShows ==
  ASSUME QueueInv, ShowPrint
  PROVE  /\ (\E g \in 0..Left : EmptyUpTo(g))'
         /\ Queue!PrintOldest \/ Queue!DropEmpty \/ UNCHANGED <<arrived, Held, printed>>
  <1> USE RingAssumption
  <1>1. /\ at = "print" /\ at' \in {"free", "clear"} /\ cb = "idle"
        /\ UNCHANGED <<ring, index, cb, arrived, i, max>>
    BY DEF ShowPrint, QueueInv, TurnInv, TurnsOK, cbVars
  <1>2. i \in Nat /\ max \in Nat /\ i < max
    BY <1>1 DEF QueueInv, TurnInv, OnceInv, Typed, TypeOK, PointsOK
  <1>3. /\ First = i /\ First' = i + 1
        /\ Left = max - i /\ Left' = Left - 1 /\ Left \in Nat \ {0}
    BY <1>1, <1>2 DEF First, Left
  <1>4. \A k \in 0..Left-2 : Meets(k)' = Meets(k + 1)
    <2> SUFFICES ASSUME NEW k \in 0..Left-2 PROVE Meets(k)' = Meets(k + 1)
      OBVIOUS
    <2>1. i + 1 + k = i + (k + 1)
      BY <1>2
    <2> QED
      BY <1>1, <1>3, <2>1 DEF Meets
  <1>5. Meets(0) = ring[Slot]
    BY <1>2, <1>3 DEF Meets, Slot
  <1>6. PICK g \in 0..Left : EmptyUpTo(g)
    BY DEF QueueInv, WalkOK
  <1>7. /\ Meets(0) = None => g # 0 /\ EmptyUpTo(g - 1)' /\ Held' = Held
        /\ Meets(0) # None => /\ g = 0 /\ EmptyUpTo(0)'
                              /\ Held # <<>> /\ Head(Held) = Meets(0)
                              /\ Held' = Tail(Held)
    BY <1>3, <1>4, <1>6, OneLess
  <1>8. CASE ring[Slot] = None
    <2>1. g - 1 \in 0..Left-1 /\ EmptyUpTo(g - 1)' /\ Held' = Held
      BY <1>3, <1>5, <1>7, <1>8
    <2>2. (\E g_1 \in 0..Left : EmptyUpTo(g_1))'
      BY <1>3, <2>1
    <2>3. printed' = printed
      BY <1>8 DEF ShowPrint
    <2> QED
      BY <1>1, <2>1, <2>2, <2>3
  <1>9. CASE ring[Slot] # None
    <2>1. EmptyUpTo(0)' /\ Held # <<>> /\ Head(Held) = ring[Slot] /\ Held' = Tail(Held)
      BY <1>5, <1>7, <1>9
    <2>2. (\E g_1 \in 0..Left : EmptyUpTo(g_1))'
      <3>1. 0 \in 0..Left-1
        BY <1>3
      <3> QED
        BY <1>3, <2>1, <3>1
    <2>3. Slot \in sized <=> ring[Slot] \notin Empty
      BY <1>9, SlotFacts DEF QueueInv, TurnInv, OnceInv, Typed, Lengths
    <2>4. CASE Slot \in sized
      <3>1. printed' = Append(printed, ring[Slot])
        BY <1>9, <2>4 DEF ShowPrint
      <3> QED
        BY <1>1, <2>1, <2>2, <2>3, <2>4, <3>1 DEF Queue!PrintOldest
    <2>5. CASE Slot \notin sized
      <3>1. printed' = printed
        BY <2>5 DEF ShowPrint
      <3> QED
        BY <1>1, <2>1, <2>2, <2>3, <2>5, <3>1 DEF Queue!DropEmpty
    <2> QED
      BY <2>4, <2>5
  <1> QED
    BY <1>8, <1>9

(* What the walk has still to look at is not the slot it is at. *)
LEMMA AheadOfSlot ==
  ASSUME i \in Nat, i < max, max \in N..2*N-1, max - N <= i, NEW x \in max-N..max-1
  PROVE  x % N \in Slots /\ (x % N = Slot <=> x = i)
  <1> USE RingAssumption
  <1>1. Slot = IF i < N THEN i ELSE i - N
    BY ModTwice DEF Slot
  <1>2. x \in 0..2*N-1
    OBVIOUS
  <1>3. x % N = IF x < N THEN x ELSE x - N
    BY <1>2, ModTwice
  <1> QED
    BY <1>1, <1>2, <1>3 DEF Slots

(* Clearing a slot the walk has passed changes nothing in front of it. *)
LEMMA ClearKeeps ==
  ASSUME QueueInv, ShowClear
  PROVE  WalkOK' /\ Held' = Held
  <1> USE RingAssumption
  <1>1. /\ at = "clear" /\ at' = "zero" /\ cb = "idle" /\ index # -1
        /\ ring' = [ring EXCEPT ![Slot] = None]
        /\ UNCHANGED <<index, cb, i, max>>
    BY DEF ShowClear, QueueInv, TurnInv, TurnsOK, WalkOK, cbVars
  <1>2. /\ i \in Nat /\ i < max /\ max \in N..2*N-1 /\ max - N <= i
        /\ \A x \in max-N..i-1 : ring[x % N] = None
        /\ ring \in [Slots -> Msgs \cup {None}]
    BY <1>1 DEF QueueInv, TurnInv, OnceInv, Typed, TypeOK, PointsOK, WalkOK, Walking
  <1>3. ASSUME NEW x \in max-N..max-1
        PROVE  ring'[x % N] = IF x = i THEN None ELSE ring[x % N]
    BY <1>1, <1>2, AheadOfSlot
  <1>4. \A x \in max-N..i-1 : ring'[x % N] = None
    <2> SUFFICES ASSUME NEW x \in max-N..i-1 PROVE ring'[x % N] = None
      OBVIOUS
    <2>1. x \in max-N..max-1 /\ x # i
      BY <1>2
    <2>2. ring[x % N] = None
      BY <1>2
    <2> QED
      BY <1>3, <2>1, <2>2
  <1>5. First = i + 1 /\ Left = max - (i + 1) /\ UNCHANGED <<First, Left>>
    BY <1>1 DEF First, Left
  <1>6. \A k \in 0..Left-1 : Meets(k)' = Meets(k)
    <2> SUFFICES ASSUME NEW k \in 0..Left-1 PROVE Meets(k)' = Meets(k)
      OBVIOUS
    <2> DEFINE x == i + 1 + k
    <2>1. x \in max-N..max-1 /\ x # i
      BY <1>2, <1>5
    <2> HIDE DEF x
    <2>2. ring'[x % N] = ring[x % N]
      BY <1>3, <2>1
    <2> QED
      BY <1>5, <2>2 DEF Meets, x
  <1>7. (\E g \in 0..Left : EmptyUpTo(g))' /\ Held' = Held
    BY <1>5, <1>6, SameWalk DEF QueueInv, TurnInv, OnceInv
  <1> QED
    BY <1>1, <1>2, <1>4, <1>7 DEF WalkOK, Walking

(* The walk goes on to the next slot; behind the last one the ring is       *)
(* empty.                                                                   *)
LEMMA ZeroKeeps ==
  ASSUME QueueInv, ShowZero
  PROVE  WalkOK' /\ Held' = Held
  <1> USE RingAssumption
  <1>1. /\ at = "zero" /\ cb = "idle" /\ index # -1 /\ ring[Slot] = None
        /\ i' = i + 1
        /\ at' = IF i + 1 < max THEN "print" ELSE "reset"
        /\ UNCHANGED <<ring, index, cb, max>>
    BY DEF ShowZero, QueueInv, TurnInv, TurnsOK, WalkOK, cbVars
  <1>2. /\ i \in Nat /\ i < max /\ max \in N..2*N-1 /\ max - N <= i
        /\ \A x \in max-N..i-1 : ring[x % N] = None
    BY <1>1 DEF QueueInv, TurnInv, OnceInv, Typed, TypeOK, PointsOK, WalkOK, Walking
  <1>5. \A x \in max-N..i : ring[x % N] = None
    <2> SUFFICES ASSUME NEW x \in max-N..i PROVE ring[x % N] = None
      OBVIOUS
    <2>1. CASE x = i
      BY <1>1, <2>1 DEF Slot
    <2>2. CASE x # i
      <3>1. x \in max-N..i-1
        BY <1>2, <2>2
      <3> QED
        BY <1>2, <3>1
    <2> QED
      BY <2>1, <2>2
  <1>6. First = i + 1 /\ Left = max - (i + 1)
    BY <1>1 DEF First, Left
  <1>7. CASE i + 1 < max
    <2>1. at' = "print" /\ First' = i + 1 /\ Left' = Left /\ i' = i + 1
      BY <1>1, <1>6, <1>7 DEF First, Left
    <2>2. \A k \in 0..Left-1 : Meets(k)' = Meets(k)
      <3> SUFFICES ASSUME NEW k \in 0..Left-1 PROVE Meets(k)' = Meets(k)
        OBVIOUS
      <3>1. First' = First /\ ring' = ring
        BY <1>1, <1>6, <2>1
      <3> QED
        BY <3>1 DEF Meets
    <2>3. (\E g \in 0..Left : EmptyUpTo(g))' /\ Held' = Held
      BY <2>1, <2>2, SameWalk DEF QueueInv, TurnInv, OnceInv
    <2>4. \A x \in max'-N..i'-1 : ring'[x % N] = None
      <3>1. max' = max /\ i' - 1 = i /\ ring' = ring
        BY <1>1, <1>2
      <3> QED
        BY <1>5, <3>1, Zenon
    <2> QED
      BY <1>1, <1>2, <2>1, <2>3, <2>4 DEF WalkOK, Walking
  <1>8. CASE i + 1 >= max
    <2>1. i + 1 = max /\ at' = "reset" /\ index' # -1
      BY <1>1, <1>2, <1>8
    <2>2. \A s \in Slots : ring'[s] = None
      <3> SUFFICES ASSUME NEW s \in Slots PROVE ring'[s] = None
        OBVIOUS
      <3> DEFINE x == IF s >= max - N THEN s ELSE s + N
      <3>1. x \in max-N..i /\ x \in 0..2*N-1 /\ s = IF x < N THEN x ELSE x - N
        BY <1>2, <2>1 DEF Slots
      <3> HIDE DEF x
      <3>2. x % N = s
        BY <3>1, ModTwice
      <3> QED
        BY <1>1, <1>5, <3>1, <3>2
    <2>3. Left = 0 /\ Left' = N
      BY <1>1, <1>6, <2>1 DEF Left
    <2>4. \A k \in 0..N-1 : (First' + k) % N \in Slots
      <3>1. First' = index + 1 /\ index + 1 \in Nat
        BY <1>1, <2>1 DEF First, QueueInv, TurnInv, OnceInv, Typed, TypeOK
      <3> QED
        BY <3>1, ModFacts
    <2>5. EmptyUpTo(N)' /\ EmptyUpTo(0)
      BY <2>2, <2>3, <2>4 DEF EmptyUpTo, Meets
    <2>6. Held = [k \in 1..0-0 |-> Meets(0 + k - 1)] /\ Held' = [k \in 1..N-N |-> Meets(N + k - 1)']
      BY <2>3, <2>5, HeldIs, HeldIsNext
    <2>7. Held' = Held
      BY <2>6
    <2>8. (\E g \in 0..Left : EmptyUpTo(g))'
      BY <2>3, <2>5
    <2> QED
      BY <2>1, <2>2, <2>7, <2>8 DEF WalkOK, Blank, Walking
  <1> QED
    BY <1>2, <1>7, <1>8

LEMMA WrapKeeps ==
  ASSUME QueueInv, InsertWrap
  PROVE  WalkOK' /\ Held' = Held
  <1> USE RingAssumption
  <1>1. /\ cb = "wrap" /\ cb' = "next" /\ at = "idle"
        /\ index' = IF index + 1 >= N THEN -1 ELSE index
        /\ UNCHANGED <<ring, at, i, max>>
    BY DEF InsertWrap, QueueInv, TurnInv, TurnsOK, atVars
  <1>2. index \in -1..N-1
    BY DEF QueueInv, TurnInv, OnceInv, Typed, TypeOK
  <1>3. First = index + 1 /\ First' = index' + 1 /\ Left = N /\ Left' = N
    BY <1>1 DEF First, Left
  <1>4. \A k \in 0..N-1 : Meets(k)' = Meets(k)
    <2>1. CASE index' = index
      BY <1>1, <1>3, <2>1 DEF Meets
    <2>2. CASE index + 1 = N /\ index' = -1
      <3> SUFFICES ASSUME NEW k \in 0..N-1 PROVE Meets(k)' = Meets(k)
        OBVIOUS
      <3>1. First = N /\ First' = 0
        BY <1>3, <2>2
      <3> DEFINE x == N + k
      <3>2. x \in 0..2*N-1 /\ x >= N /\ x - N = k
        OBVIOUS
      <3> HIDE DEF x
      <3>3. x % N = k
        BY <3>2, ModTwice
      <3>4. (0 + k) % N = k
        <4>1. 0 + k = k /\ k \in 0..2*N-1
          OBVIOUS
        <4>2. k % N = k
          BY <4>1, ModTwice
        <4> QED
          BY <4>1, <4>2
      <3> QED
        BY <1>1, <3>1, <3>3, <3>4 DEF Meets, x
    <2> QED
      BY <1>1, <1>2, <2>1, <2>2
  <1>5. (\E g \in 0..Left : EmptyUpTo(g))' /\ Held' = Held
    BY <1>3, <1>4, SameWalk DEF QueueInv, TurnInv, OnceInv
  <1> QED
    BY <1>1, <1>5 DEF WalkOK, Walking

LEMMA BeginKeeps ==
  ASSUME TakeTurns, QueueInv, ShowBegin
  PROVE  WalkOK' /\ Held' = Held
  <1> USE RingAssumption
  <1>1. /\ at = "idle" /\ at' = "print" /\ index # -1 /\ cb = "idle"
        /\ UNCHANGED <<ring, index, cb>>
        /\ i' = IF index + 1 >= N THEN 0 ELSE index + 1
        /\ max' = i' + N
    BY DEF ShowBegin, QueueInv, TurnInv, OnceInv, Typed, TypeOK, cbVars
  <1>2. index \in 0..N-1 /\ i' \in 0..N-1
    BY <1>1 DEF QueueInv, TurnInv, OnceInv, Typed, TypeOK
  <1>3. First = index + 1 /\ First' = i' /\ Left' = N /\ Left = N
    BY <1>1, <1>2 DEF First, Left
  <1>4. \A k \in 0..N-1 : Meets(k)' = Meets(k)
    <2> SUFFICES ASSUME NEW k \in 0..N-1 PROVE Meets(k)' = Meets(k)
      OBVIOUS
    <2>1. CASE i' = index + 1
      BY <1>1, <1>3, <2>1 DEF Meets
    <2>2. CASE index + 1 = N /\ i' = 0
      <3> DEFINE x == N + k
      <3>1. x \in 0..2*N-1 /\ x >= N /\ x - N = k
        OBVIOUS
      <3> HIDE DEF x
      <3>2. x % N = k
        BY <3>1, ModTwice
      <3>3. (0 + k) % N = k
        <4>1. 0 + k = k /\ k \in 0..2*N-1
          OBVIOUS
        <4>2. k % N = k
          BY <4>1, ModTwice
        <4> QED
          BY <4>1, <4>2
      <3> QED
        BY <1>1, <1>3, <2>2, <3>2, <3>3 DEF Meets, x
    <2> QED
      BY <1>1, <1>2, <2>1, <2>2
  <1>5. (\E g \in 0..Left : EmptyUpTo(g))' /\ Held' = Held
    BY <1>3, <1>4, SameWalk DEF QueueInv, TurnInv, OnceInv
  <1>6. max' \in N..2*N-1 /\ max' - N = i'
    BY <1>1, <1>2
  <1>7. \A x \in max'-N..i'-1 : ring'[x % N] = None
    <2>1. PICK b \in 0..N-1 : i' = b /\ max' - N = b
      BY <1>2, <1>6
    <2>2. b..b-1 = {}
      OBVIOUS
    <2> QED
      BY <2>1, <2>2
  <1> QED
    BY <1>1, <1>2, <1>5, <1>6, <1>7 DEF WalkOK, Walking

LEMMA ResetKeeps ==
  ASSUME QueueInv, ShowReset
  PROVE  WalkOK' /\ Held' = Held
  <1> USE RingAssumption
  <1>1. /\ at = "reset" /\ at' = "idle" /\ cb = "idle" /\ index' = -1
        /\ UNCHANGED <<ring, cb, i, max>> /\ Blank
    BY DEF ShowReset, QueueInv, TurnInv, TurnsOK, WalkOK, cbVars
  <1>2. index \in -1..N-1
    BY DEF QueueInv, TurnInv, OnceInv, Typed, TypeOK
  <1>3. First = index + 1 /\ First' = 0 /\ Left = N /\ Left' = N
    BY <1>1 DEF First, Left
  <1>4. \A k \in 0..N-1 : Meets(k)' = Meets(k)
    <2>1. \A k \in 0..N-1 : (index + 1 + k) % N \in Slots /\ (0 + k) % N \in Slots
      BY <1>2, ModFacts
    <2> QED
      BY <1>1, <1>3, <2>1 DEF Meets, Blank
  <1>5. (\E g \in 0..Left : EmptyUpTo(g))' /\ Held' = Held
    BY <1>3, <1>4, SameWalk DEF QueueInv, TurnInv, OnceInv
  <1> QED
    BY <1>1, <1>5 DEF WalkOK, Walking, Blank

LEMMA QueueStep ==
  ASSUME TakeTurns
  PROVE  QueueInv /\ [Next]_vars => QueueInv' /\ [Queue!Next]_<<arrived, Held, printed>>
  <1> SUFFICES ASSUME QueueInv, [Next]_vars
               PROVE  WalkOK' /\ [Queue!Next]_<<arrived, Held, printed>>
    BY TurnStep DEF QueueInv
  <1>0. /\ TurnInv /\ TurnInv' /\ Typed /\ Typed' /\ TurnsOK /\ TurnsOK' /\ WalkOK
    BY TurnStep DEF QueueInv, TurnInv, OnceInv
  <1>1. ASSUME UNCHANGED <<ring, First, Left>>
        PROVE  (\E g \in 0..Left : EmptyUpTo(g))' /\ Held' = Held
    <2>1. \A k \in 0..Left-1 : Meets(k)' = Meets(k)
      BY <1>1 DEF Meets
    <2> QED
      BY <1>0, <1>1, <2>1, SameWalk
  <1>2. CASE Receive
    <2>1. /\ cb = "idle" /\ cb' \in {"idle", "wrap"} /\ at = "idle" /\ arrived' = arrived + 1
          /\ UNCHANGED <<ring, index, at, i, max>>
      BY <1>2 DEF Receive, atVars
    <2>2. UNCHANGED <<First, Left>>
      BY <2>1 DEF First, Left
    <2>3. (\E g \in 0..Left : EmptyUpTo(g))' /\ Held' = Held
      BY <1>1, <2>1, <2>2
    <2>4. WalkOK'
      BY <1>0, <2>1, <2>3 DEF WalkOK, Walking, Blank
    <2>5. printed' \in {printed, Append(printed, arrived')}
      BY <1>2 DEF Receive
    <2>6. Queue!Arrive \/ Queue!Pass
      BY <2>1, <2>3, <2>5 DEF Queue!Arrive, Queue!Pass
    <2> QED
      BY <2>4, <2>6 DEF Queue!Next
  <1>3. CASE InsertWrap
    BY <1>3, WrapKeeps DEF InsertWrap
  <1>4. CASE InsertNext
    <2>1. /\ cb = "next" /\ cb' = "drop" /\ at = "idle" /\ index' = index + 1
          /\ UNCHANGED <<ring, at, i, max, arrived, printed>>
      BY <1>0, <1>4 DEF InsertNext, atVars, TurnsOK
    <2>2. UNCHANGED <<First, Left>>
      BY <2>1 DEF First, Left
    <2>3. (\E g \in 0..Left : EmptyUpTo(g))' /\ Held' = Held
      BY <1>1, <2>1, <2>2
    <2>4. index' # -1
      BY <1>0, <2>1 DEF TurnsOK
    <2> QED
      BY <1>0, <2>1, <2>3, <2>4 DEF WalkOK, Walking
  <1>5. CASE InsertDrop
    <2>1. /\ cb = "drop" /\ cb' = "copy" /\ at = "idle" /\ index # -1
          /\ UNCHANGED <<ring, index, at, i, max, arrived, printed>>
      BY <1>0, <1>5 DEF InsertDrop, Outside, atVars, TurnsOK
    <2>2. UNCHANGED <<First, Left>>
      BY <2>1 DEF First, Left
    <2>3. (\E g \in 0..Left : EmptyUpTo(g))' /\ Held' = Held
      BY <1>1, <2>1, <2>2
    <2> QED
      BY <1>0, <2>1, <2>3 DEF WalkOK, Walking
  <1>6. CASE InsertCopy
    <2>1. /\ cb = "copy" /\ cb' = "report" /\ at = "idle" /\ index # -1
          /\ UNCHANGED <<index, at>>
      BY <1>0, <1>6 DEF InsertCopy, Outside, atVars, TurnsOK
    <2>2. (\E g \in 0..Left : EmptyUpTo(g))' /\ Queue!Store(arrived)
      BY <1>6, CopyStores
    <2> QED
      BY <2>1, <2>2 DEF WalkOK, Walking, Queue!Next
  <1>7. CASE Report \/ ReportStart
    <2>1. /\ cb \in {"report", "start"} /\ cb' \in {"start", "idle"} /\ at = "idle"
          /\ UNCHANGED <<ring, index, at, i, max, arrived, printed>>
      BY <1>0, <1>7 DEF Report, ReportStart, atVars, TurnsOK
    <2>2. UNCHANGED <<First, Left>>
      BY <2>1 DEF First, Left
    <2>3. (\E g \in 0..Left : EmptyUpTo(g))' /\ Held' = Held
      BY <1>1, <2>1, <2>2
    <2> QED
      BY <1>0, <2>1, <2>3 DEF WalkOK, Walking, Blank
  <1>8. CASE SetMode \/ Pulse \/ UNCHANGED vars
    <2>1. UNCHANGED <<ring, index, cb, at, i, max, arrived, printed>>
      BY <1>8 DEF SetMode, Pulse, TimerExpires, PulseLow, vars, atVars, cbVars
    <2>2. UNCHANGED <<First, Left>>
      BY <2>1 DEF First, Left
    <2>3. (\E g \in 0..Left : EmptyUpTo(g))' /\ Held' = Held
      BY <1>1, <2>1, <2>2
    <2> QED
      BY <1>0, <2>1, <2>3 DEF WalkOK, Walking, Blank
  <1>9. CASE ShowBegin
    BY <1>9, BeginKeeps DEF ShowBegin, cbVars
  <1>10. CASE ShowPrint
    <2>1. /\ at = "print" /\ at' \in {"free", "clear"}
          /\ UNCHANGED <<ring, index, cb, i, max>>
      BY <1>10 DEF ShowPrint, cbVars
    <2>2. /\ (\E g \in 0..Left : EmptyUpTo(g))'
          /\ Queue!PrintOldest \/ Queue!DropEmpty \/ UNCHANGED <<arrived, Held, printed>>
      BY <1>10, PrintShows
    <2>3. WalkOK'
      BY <1>0, <2>1, <2>2 DEF WalkOK, Walking, Blank
    <2> QED
      BY <2>2, <2>3 DEF Queue!Next
  <1>11. CASE ShowFree
    <2>1. /\ at = "free" /\ at' = "clear" /\ cb = "idle"
          /\ UNCHANGED <<ring, index, cb, i, max, arrived, printed>>
      BY <1>0, <1>11 DEF ShowFree, cbVars, TurnsOK
    <2>2. UNCHANGED <<First, Left>>
      BY <2>1 DEF First, Left
    <2>3. (\E g \in 0..Left : EmptyUpTo(g))' /\ Held' = Held
      BY <1>1, <2>1, <2>2
    <2> QED
      BY <1>0, <2>1, <2>3 DEF WalkOK, Walking, Blank
  <1>12. CASE ShowClear \/ ShowZero
    BY <1>12, ClearKeeps, ZeroKeeps DEF ShowClear, ShowZero, cbVars
  <1>13. CASE ShowReset
    BY <1>13, ResetKeeps DEF ShowReset, cbVars
  <1> QED
    BY <1>2, <1>3, <1>4, <1>5, <1>6, <1>7, <1>8, <1>9, <1>10, <1>11, <1>12, <1>13
       DEF Next, Insert, Show

(* Where AT+STOREDATA and insertions take turns the ring is the queue that  *)
(* StoreQueue promises: the newest N messages are kept, in order, the       *)
(* oldest gives way, and a walk prints them oldest first, all but the       *)
(* empty ones, which it drops (QueueSpec).                                  *)
THEOREM TurnsQueue ==
  ASSUME TakeTurns PROVE Spec => QueueSpec
  <1>1. Init => QueueInv /\ Queue!Init
    BY WalkInit
  <1>2. QueueInv /\ [Next]_vars => QueueInv' /\ [Queue!Next]_<<arrived, Held, printed>>
    BY QueueStep
  <1> QED
    BY <1>1, <1>2, PTL DEF Spec, QueueSpec, Queue!Spec
=============================================================================
