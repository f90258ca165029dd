--------------------------- MODULE TransModeProofs ---------------------------
(***************************************************************************)
(* Proofs about the transparent transmission for every alphabet, every end *)
(* string and every value of the lengths.                                  *)
(***************************************************************************)
EXTENDS TransMode, TLAPS, SequenceTheorems, WellFoundedInduction

(* What is true of the buffer at the top of the loop: it is short enough,   *)
(* and holds no line break but, perhaps, at its very start.                 *)
BufInv ==
  /\ Len(buf) <= MaxLen + Len(EndString) + 2
  /\ Unbroken(buf)

(* Messages are prefixes of what was read. *)
LEMMA ChopFacts ==
  ASSUME NEW s \in Seq(Chars), NEW n \in Nat, n <= Len(s)
  PROVE  /\ Chop(s, n) \in Seq(Chars)
         /\ Len(Chop(s, n)) = Len(s) - n
         /\ \A k \in 1..Len(s) - n : Chop(s, n)[k] = s[k]
  <1>1. 1 \in Int /\ Len(s) - n \in 0..Len(s)
    OBVIOUS
  <1> QED
    BY <1>1 DEF Chop

LEMMA MessageFacts ==
  ASSUME TransAssumption, NEW s \in Seq(Chars)
  PROVE  /\ Message(s) \in Seq(Chars)
         /\ Len(Message(s)) \in 0..Len(s)
         /\ \A k \in 1..Len(Message(s)) : Message(s)[k] = s[k]
         /\ ~Break(s) => Message(s) = s
         /\ Break(s) => Len(Message(s)) <= Len(s) - 2
         /\ Break(s) => Len(Message(s)) >= Len(s) - 2 - Len(EndString)
  <1>1. Len(EndString) \in Nat
    BY DEF TransAssumption
  <1>2. CASE Leaves(s)
    <2>1. Len(s) > 2
      BY <1>2 DEF Leaves, Break
    <2>2. Len(Chop(s, 2)) = Len(s) - 2
      BY <2>1, ChopFacts
    <2>3. 2 + Len(EndString) \in Nat /\ 2 + Len(EndString) <= Len(s)
      BY <1>1, <1>2, <2>2 DEF Leaves, EndsWith
    <2>4. Message(s) = Chop(s, 2 + Len(EndString)) /\ Break(s)
      BY <1>2 DEF Message, Leaves
    <2> DEFINE n == 2 + Len(EndString)
    <2>5. /\ Chop(s, n) \in Seq(Chars)
          /\ Len(Chop(s, n)) = Len(s) - n
          /\ \A k \in 1..Len(s) - n : Chop(s, n)[k] = s[k]
      BY <2>3, ChopFacts
    <2>6. Len(s) \in Nat /\ Len(s) - n = Len(s) - 2 - Len(EndString) /\ Len(s) - n \in 0..Len(s)
      BY <1>1, <2>3
    <2> HIDE DEF n
    <2>7. Message(s) = Chop(s, n)
      BY <2>4 DEF n
    <2> QED
      BY <1>1, <2>4, <2>5, <2>6, <2>7
  <1>3. CASE ~Leaves(s) /\ Break(s)
    <2>1. Len(s) > 2
      BY <1>3 DEF Break
    <2>2. Message(s) = Chop(s, 2)
      BY <1>3 DEF Message
    <2>3. /\ Chop(s, 2) \in Seq(Chars)
          /\ Len(Chop(s, 2)) = Len(s) - 2
          /\ \A k \in 1..Len(s) - 2 : Chop(s, 2)[k] = s[k]
      BY <2>1, ChopFacts
    <2> QED
      BY <1>1, <1>3, <2>1, <2>2, <2>3
  <1>4. CASE ~Leaves(s) /\ ~Break(s)
    BY <1>4 DEF Message
  <1> QED
    BY <1>2, <1>3, <1>4

(* Every state has its type (TypeOK); in particular no empty message is     *)
(* given to uc_wiota_send_data.                                             *)
THEOREM TypeCorrect == Spec => []TypeOK
  <1> USE TransAssumption
  <1>1. Init => TypeOK
    BY DEF Init, TypeOK, TransAssumption
  <1>2. TypeOK /\ [Next]_vars => TypeOK'
    <2> SUFFICES ASSUME TypeOK, [Next]_vars PROVE TypeOK'
      OBVIOUS
    <2> USE DEF TypeOK
    <2>1. CASE Enter
      BY <2>1 DEF Enter
    <2>2. ASSUME NEW c \in Chars, Read(c) PROVE TypeOK'
      <3> DEFINE got == Append(buf, c)
      <3>1. got \in Seq(Chars) /\ lines \o got \in Seq(Chars)
        OBVIOUS
      <3>2. Message(got) \in Seq(Chars)
        BY <3>1, MessageFacts
      <3>3. typed' \in 0..MaxTyped
        BY <2>2 DEF Read, TransAssumption
      <3>4. Send(Message(got)) => sent' \in Seq(Seq(Chars) \ {<<>>})
        BY <3>2 DEF Send
      <3>5. \/ mode' = "tooLong" /\ buf' = <<>> /\ UNCHANGED <<sent, lines>>
            \/ mode' \in {"leaving", "trans"} /\ buf' = <<>> /\ Send(Message(got))
               /\ lines' = lines \o got
            \/ buf' = got /\ UNCHANGED <<mode, sent, lines>>
        BY <2>2 DEF Read
      <3> HIDE DEF got
      <3>6. mode' \in {"at", "trans", "tooLong", "leaving"} /\ lines' \in Seq(Chars)
        BY <3>1, <3>5
      <3>7. buf' \in Seq(Chars)
        <4>1. <<>> \in Seq(Chars) /\ (buf' = <<>> \/ buf' = got)
          BY <3>5
        <4> QED
          BY <3>1, <4>1
      <3>8. sent' \in Seq(Seq(Chars) \ {<<>>})
        BY <3>4, <3>5
      <3> QED
        BY <3>3, <3>6, <3>7, <3>8
    <2>3. CASE ThrowAway
      BY <2>3 DEF ThrowAway, TransAssumption
    <2>4. CASE Silence
      BY <2>4 DEF Silence
    <2>5. CASE UNCHANGED vars
      BY <2>5 DEF vars
    <2> QED
      BY <2>1, <2>2, <2>3, <2>4, <2>5 DEF Next
  <1> QED
    BY <1>1, <1>2, PTL DEF Spec

(* A character that ends no line leaves the buffer unbroken. *)
LEMMA AppendUnbroken ==
  ASSUME TransAssumption, NEW s \in Seq(Chars), NEW c \in Chars,
         Unbroken(s), ~Break(Append(s, c))
  PROVE  Unbroken(Append(s, c))
  <1> DEFINE got == Append(s, c)
  <1>1. got \in Seq(Chars) /\ Len(got) = Len(s) + 1 /\ got[Len(got)] = c
        /\ \A j \in 1..Len(s) : got[j] = s[j]
    OBVIOUS
  <1> SUFFICES ASSUME NEW k \in 2..Len(got) - 1, got[k] = CR, got[k+1] = LF
               PROVE  FALSE
    BY DEF Unbroken
  <1>2. CASE k + 1 <= Len(s)
    <2>1. k \in 2..Len(s) - 1 /\ s[k] = CR /\ s[k+1] = LF
      BY <1>1, <1>2
    <2> QED
      BY <2>1 DEF Unbroken
  <1>3. CASE k + 1 = Len(got)
    <2>1. Len(got) > 2
      BY <1>3
    <2>2. got[Len(got) - 1] = CR /\ got[Len(got)] = LF /\ Len(got) - 1 \in 1..Len(got)
      BY <1>1, <1>3, <2>1
    <2>3. Len(<<CR, LF>>) = 2
      OBVIOUS
    <2> HIDE DEF got
    <2>4. SubSeq(got, Len(got) - 1, Len(got)) = <<CR, LF>>
      <3> DEFINE t == SubSeq(got, Len(got) - 1, Len(got))
      <3>1. t \in Seq(Chars) /\ Len(t) = 2 /\ t[1] = CR /\ t[2] = LF
        BY <1>1, <2>2
      <3> HIDE DEF t
      <3>2. t = <<CR, LF>>
        BY <3>1
      <3> QED
        BY <3>2 DEF t
    <2>5. EndsWith(got, <<CR, LF>>)
      <3>1. Len(got) - Len(<<CR, LF>>) + 1 = Len(got) - 1
        BY <1>1, <2>3
      <3> QED
        BY <2>1, <2>3, <2>4, <3>1 DEF EndsWith
    <2> QED
      BY <2>1, <2>5 DEF Break, got
  <1> QED
    BY <1>1, <1>2, <1>3

LEMMA MessageUnbroken ==
  ASSUME TransAssumption, NEW s \in Seq(Chars), NEW c \in Chars,
         Unbroken(s), Break(Append(s, c))
  PROVE  Unbroken(Message(Append(s, c)))
  <1> DEFINE got == Append(s, c)
             m   == Message(got)
  <1>1. got \in Seq(Chars) /\ Len(got) = Len(s) + 1 /\ \A j \in 1..Len(s) : got[j] = s[j]
    OBVIOUS
  <1>2. m \in Seq(Chars) /\ Len(m) \in Nat /\ Len(m) <= Len(got) - 2
        /\ \A k \in 1..Len(m) : m[k] = got[k]
    <2>1. Break(got)
      OBVIOUS
    <2> HIDE DEF got, m
    <2>2. /\ Message(got) \in Seq(Chars)
          /\ Len(Message(got)) \in 0..Len(got)
          /\ \A k \in 1..Len(Message(got)) : Message(got)[k] = got[k]
          /\ Len(Message(got)) <= Len(got) - 2
      BY <1>1, <2>1, MessageFacts
    <2> QED
      BY <2>2 DEF m
  <1> HIDE DEF m, got
  <1>3. SUFFICES ASSUME NEW k \in 2..Len(m) - 1 PROVE ~(m[k] = CR /\ m[k+1] = LF)
    BY DEF Unbroken, m, got
  <1>4. k \in 1..Len(m) /\ k + 1 \in 1..Len(m) /\ k \in 2..Len(s) - 1
    BY <1>1, <1>2
  <1>5. m[k] = s[k] /\ m[k+1] = s[k+1]
    BY <1>1, <1>2, <1>4
  <1> QED
    BY <1>4, <1>5 DEF Unbroken

SafeInv == TypeOK /\ BufInv /\ SentFits /\ SentUnbroken

LEMMA SafeInit == TransAssumption /\ Init => BufInv /\ SentFits /\ SentUnbroken
  BY DEF TransAssumption, Init, BufInv, SentFits, SentUnbroken, Unbroken

LEMMA SafeStep ==
  ASSUME TransAssumption, SafeInv, [Next]_vars
  PROVE  (BufInv /\ SentFits /\ SentUnbroken)'
  <1> USE DEF SafeInv, TypeOK
  <1>0. Len(EndString) \in Nat /\ MaxLen \in Nat
    BY DEF TransAssumption
  <1>1. CASE Enter
    BY <1>1 DEF Enter, BufInv, SentFits, SentUnbroken, Unbroken
  <1>2. ASSUME NEW c \in Chars, Read(c) PROVE (BufInv /\ SentFits /\ SentUnbroken)'
    <2> DEFINE got == Append(buf, c)
    <2>1. got \in Seq(Chars) /\ Len(got) = Len(buf) + 1
      OBVIOUS
    <2>2. CASE TooLong(got) /\ buf' = <<>> /\ UNCHANGED <<sent, lines>>
      BY <1>0, <2>2 DEF BufInv, SentFits, SentUnbroken, Unbroken
    <2>3. CASE ~TooLong(got) /\ Break(got) /\ buf' = <<>> /\ Send(Message(got))
      <3>1. BufInv'
        BY <1>0, <2>3 DEF BufInv, Unbroken
      <3>2. Len(Message(got)) <= MaxLen /\ Message(got) \in Seq(Chars)
        <4> HIDE DEF got
        <4>1. Message(got) \in Seq(Chars) /\ Len(Message(got)) \in Nat
          BY <2>1, MessageFacts
        <4> QED
          BY <1>0, <2>3, <4>1 DEF TooLong
      <3>3. Unbroken(Message(got))
        BY <2>3, MessageUnbroken DEF BufInv
      <3>4. CASE sent' = sent
        BY <3>1, <3>4 DEF SentFits, SentUnbroken
      <3>5. CASE sent' = Append(sent, Message(got))
        <4>1. Len(sent') = Len(sent) + 1 /\ sent'[Len(sent) + 1] = Message(got)
              /\ \A k \in 1..Len(sent) : sent'[k] = sent[k]
          BY <3>2, <3>5
        <4>2. SUFFICES ASSUME NEW k \in 1..Len(sent')
                       PROVE  Len(sent'[k]) <= MaxLen /\ Unbroken(sent'[k])
          BY <3>1 DEF SentFits, SentUnbroken, Unbroken
        <4>3. CASE k \in 1..Len(sent)
          BY <4>1, <4>3 DEF SentFits, SentUnbroken
        <4>4. CASE k = Len(sent) + 1
          BY <3>2, <3>3, <4>1, <4>4
        <4> QED
          BY <4>1, <4>3, <4>4
      <3> QED
        BY <2>3, <3>4, <3>5 DEF Send
    <2>4. CASE ~TooLong(got) /\ ~Break(got) /\ buf' = got /\ UNCHANGED sent
      <3>1. Message(got) = got
        BY <2>1, <2>4, MessageFacts
      <3>2. Len(got) <= MaxLen + Len(EndString) + 2
        BY <1>0, <2>1, <2>4, <3>1 DEF TooLong
      <3>3. Unbroken(got)
        BY <2>4, AppendUnbroken DEF BufInv
      <3> QED
        BY <2>4, <3>2, <3>3 DEF BufInv, SentFits, SentUnbroken
    <2> QED
      BY <1>2, <2>2, <2>3, <2>4 DEF Read
  <1>3. CASE ThrowAway
    BY <1>3 DEF ThrowAway, BufInv, SentFits, SentUnbroken
  <1>4. CASE Silence
    BY <1>4 DEF Silence, BufInv, SentFits, SentUnbroken
  <1>5. CASE UNCHANGED vars
    BY <1>5 DEF vars, BufInv, SentFits, SentUnbroken
  <1> QED
    BY <1>1, <1>2, <1>3, <1>4, <1>5 DEF Next

LEMMA Safe == Spec => []SafeInv
  <1>1. Init => BufInv /\ SentFits /\ SentUnbroken
    BY SafeInit, TransAssumption
  <1>2. SafeInv /\ [Next]_vars => (BufInv /\ SentFits /\ SentUnbroken)'
    BY SafeStep, TransAssumption
  <1> QED
    BY <1>1, <1>2, TypeCorrect, PTL DEF Spec, SafeInv

(* get_char_timeout never writes outside pBuff, whatever the host types and *)
(* whatever end string it chose (WritesInside).                             *)
THEOREM InsideBuffer == Spec => []WritesInside
  <1>1. SafeInv => WritesInside
    <2>1. Len(EndString) \in Nat /\ Len(EndString) <= EndMax
          /\ MaxLen \in Nat /\ EndMax \in Nat /\ CrcLen \in Nat /\ CrcLen >= 2
      BY TransAssumption DEF TransAssumption
    <2>2. ASSUME NEW n \in Nat, n <= MaxLen + Len(EndString) + 2
          PROVE  n < MaxLen + EndMax + CrcLen + 1
      BY <2>1, <2>2
    <2>3. SafeInv => Len(buf) \in Nat /\ Len(buf) <= MaxLen + Len(EndString) + 2
      BY DEF SafeInv, TypeOK, BufInv
    <2> QED
      BY <2>2, <2>3 DEF WritesInside, BuffSize
  <1> QED
    BY <1>1, Safe, PTL

(* No message is longer than the radio takes (SentFits).                    *)
THEOREM MessagesFit == Spec => []SentFits
  BY Safe, PTL DEF SafeInv

(* No message swallows a line break (SentUnbroken).                         *)
THEOREM BreaksEndMessages == Spec => []SentUnbroken
  BY Safe, PTL DEF SafeInv

-----------------------------------------------------------------------------
(* Leaving the mode.                                                        *)
EndLine == EndString \o <<CR, LF>>

LEMMA EndLineFacts ==
  ASSUME TransAssumption
  PROVE  /\ EndString \in Seq(Chars) /\ Len(EndString) \in Nat /\ Len(EndString) >= 1
         /\ EndLine \in Seq(Chars) /\ Len(EndLine) = Len(EndString) + 2
         /\ \A k \in 1..Len(EndString) :
              EndLine[k] = EndString[k] /\ EndString[k] # LF
         /\ EndLine[Len(EndString) + 1] = CR
         /\ EndLine[Len(EndString) + 2] = LF
  <1>1. EndString \in Seq(Chars \ {CR, LF}) /\ CR \in Chars /\ LF \in Chars
        /\ Len(EndString) >= 1
    BY DEF TransAssumption
  <1>2. EndString \in Seq(Chars) /\ \A k \in 1..Len(EndString) : EndString[k] # LF
    BY <1>1
  <1>3. <<CR, LF>> \in Seq(Chars) /\ Len(<<CR, LF>>) = 2
        /\ <<CR, LF>>[1] = CR /\ <<CR, LF>>[2] = LF
    BY <1>1
  <1> QED
    BY <1>1, <1>2, <1>3 DEF EndLine

(* EndsWith character by character. *)
LEMMA EndsWithPoints ==
  ASSUME NEW s \in Seq(Chars), NEW t \in Seq(Chars)
  PROVE  EndsWith(s, t) <=>
           /\ Len(s) >= Len(t)
           /\ \A k \in 1..Len(t) : s[Len(s) - Len(t) + k] = t[k]
  <1>1. CASE Len(s) >= Len(t)
    <2> DEFINE u == SubSeq(s, Len(s) - Len(t) + 1, Len(s))
    <2>1. /\ u \in Seq(Chars) /\ Len(u) = Len(t)
          /\ \A k \in 1..Len(t) : u[k] = s[Len(s) - Len(t) + k]
      BY <1>1
    <2> HIDE DEF u
    <2>2. u = t <=> \A k \in 1..Len(t) : u[k] = t[k]
      BY <2>1, SeqEqual
    <2> QED
      BY <1>1, <2>1, <2>2 DEF EndsWith, u
  <1>2. CASE ~(Len(s) >= Len(t))
    BY <1>2 DEF EndsWith
  <1> QED
    BY <1>1, <1>2

(* A line that ends with the end string leaves, and no other.               *)
LEMMA LeavesPoints ==
  ASSUME TransAssumption, NEW s \in Seq(Chars), Break(s)
  PROVE  Leaves(s) <=> EndsWith(s, EndLine)
  <1> DEFINE n == Len(EndString)
             c == Chop(s, 2)
  <1>1. Len(s) \in Nat /\ Len(s) > 2 /\ n \in Nat /\ EndString \in Seq(Chars)
    BY EndLineFacts DEF Break
  <1>2. c \in Seq(Chars) /\ Len(c) = Len(s) - 2 /\ \A k \in 1..Len(s) - 2 : c[k] = s[k]
    BY <1>1, ChopFacts
  <1>3. s[Len(s) - 1] = CR /\ s[Len(s)] = LF
    <2>1. <<CR, LF>> \in Seq(Chars) /\ Len(<<CR, LF>>) = 2
          /\ <<CR, LF>>[1] = CR /\ <<CR, LF>>[2] = LF
      BY DEF TransAssumption
    <2>2. EndsWith(s, <<CR, LF>>)
      BY DEF Break
    <2>3. \A k \in 1..2 : s[Len(s) - 2 + k] = <<CR, LF>>[k]
      BY <2>1, <2>2, EndsWithPoints
    <2>4. Len(s) - 2 + 1 = Len(s) - 1 /\ Len(s) - 2 + 2 = Len(s)
      BY <1>1
    <2> QED
      BY <2>1, <2>3, <2>4
  <1> HIDE DEF n, c
  <1>4. Leaves(s) <=> Len(s) - 2 >= n /\ \A k \in 1..n : s[Len(s) - 2 - n + k] = EndString[k]
    <2>1. EndsWith(c, EndString) <=>
            Len(c) >= n /\ \A k \in 1..n : c[Len(c) - n + k] = EndString[k]
      BY <1>1, <1>2, EndsWithPoints DEF n
    <2>2. ASSUME Len(c) >= n, NEW k \in 1..n
          PROVE  c[Len(c) - n + k] = s[Len(s) - 2 - n + k]
      <3>1. Len(c) - n + k \in 1..Len(s) - 2 /\ Len(c) - n + k = Len(s) - 2 - n + k
        BY <1>1, <1>2, <2>2
      <3> QED
        BY <1>2, <3>1
    <2>3. Leaves(s) <=> EndsWith(c, EndString)
      BY DEF Leaves, c
    <2> QED
      BY <1>1, <1>2, <2>1, <2>2, <2>3
  <1>5. EndsWith(s, EndLine) <=>
          Len(s) >= n + 2 /\ \A k \in 1..n + 2 : s[Len(s) - (n + 2) + k] = EndLine[k]
    <2>1. EndLine \in Seq(Chars) /\ Len(EndLine) = n + 2
      BY EndLineFacts DEF n
    <2>2. EndsWith(s, EndLine) <=>
            /\ Len(s) >= Len(EndLine)
            /\ \A k \in 1..Len(EndLine) : s[Len(s) - Len(EndLine) + k] = EndLine[k]
      BY <2>1, EndsWithPoints
    <2> QED
      BY <2>1, <2>2
  <1>6. ASSUME Len(s) >= n + 2
        PROVE  (\A k \in 1..n + 2 : s[Len(s) - (n + 2) + k] = EndLine[k])
                 <=> \A k \in 1..n : s[Len(s) - 2 - n + k] = EndString[k]
    <2>1. \A k \in Int : Len(s) - (n + 2) + k = Len(s) - 2 - n + k
      BY <1>1
    <2>2. Len(s) - 2 - n + (n + 1) = Len(s) - 1 /\ Len(s) - 2 - n + (n + 2) = Len(s)
      BY <1>1
    <2>3. \A k \in 1..n + 2 : k \in 1..n \/ k = n + 1 \/ k = n + 2
      BY <1>1
    <2>4. \A k \in 1..n : k \in 1..n + 2 /\ EndLine[k] = EndString[k]
      BY <1>1, EndLineFacts DEF n
    <2>5. EndLine[n + 1] = CR /\ EndLine[n + 2] = LF
      BY EndLineFacts DEF n
    <2>6. ASSUME \A k \in 1..n + 2 : s[Len(s) - (n + 2) + k] = EndLine[k], NEW k \in 1..n
          PROVE  s[Len(s) - 2 - n + k] = EndString[k]
      <3>1. k \in Int /\ k \in 1..n + 2 /\ EndLine[k] = EndString[k]
        BY <2>4
      <3>2. s[Len(s) - (n + 2) + k] = EndLine[k] /\ Len(s) - (n + 2) + k = Len(s) - 2 - n + k
        BY <2>1, <2>6, <3>1
      <3> QED
        BY <3>1, <3>2
    <2>7. ASSUME \A k \in 1..n : s[Len(s) - 2 - n + k] = EndString[k], NEW k \in 1..n + 2
          PROVE  s[Len(s) - (n + 2) + k] = EndLine[k]
      <3>1. Len(s) - (n + 2) + k = Len(s) - 2 - n + k
        BY <2>1
      <3>2. CASE k \in 1..n
        BY <2>4, <2>7, <3>1, <3>2
      <3>3. CASE k = n + 1 \/ k = n + 2
        BY <1>3, <2>2, <2>5, <3>1, <3>3
      <3> QED
        BY <2>3, <3>2, <3>3
    <2> QED
      BY <2>6, <2>7
  <1> QED
    BY <1>1, <1>4, <1>5, <1>6

(* The end string cannot begin in an earlier line, which ends with LF.      *)
LEMMA JoinedLines ==
  ASSUME TransAssumption, NEW l \in Seq(Chars), NEW s \in Seq(Chars),
         l = <<>> \/ l[Len(l)] = LF, Len(s) >= 2
  PROVE  EndsWith(l \o s, EndLine) <=> EndsWith(s, EndLine)
  <1> DEFINE n == Len(EndLine)
             j == l \o s
  <1>1. n \in Nat /\ n >= 3 /\ EndLine \in Seq(Chars)
    BY EndLineFacts
  <1>2. j \in Seq(Chars) /\ Len(j) = Len(l) + Len(s) /\ Len(l) \in Nat /\ Len(s) \in Nat
        /\ (\A k \in 1..Len(l) : j[k] = l[k])
        /\ \A k \in 1..Len(s) : j[Len(l) + k] = s[k]
    OBVIOUS
  <1>7. SUFFICES EndsWith(j, EndLine) <=> EndsWith(s, EndLine)
    BY DEF j
  <1> HIDE DEF n, j
  <1>3. EndsWith(s, EndLine) <=>
          Len(s) >= n /\ \A k \in 1..n : s[Len(s) - n + k] = EndLine[k]
    BY <1>1, EndsWithPoints DEF n
  <1>4. EndsWith(j, EndLine) <=>
          Len(j) >= n /\ \A k \in 1..n : j[Len(j) - n + k] = EndLine[k]
    BY <1>1, <1>2, EndsWithPoints DEF n
  <1>5. CASE Len(s) >= n
    <2>1. ASSUME NEW k \in 1..n PROVE j[Len(j) - n + k] = s[Len(s) - n + k]
      <3>1. Len(s) - n + k \in 1..Len(s) /\ Len(j) - n + k = Len(l) + (Len(s) - n + k)
        BY <1>1, <1>2, <1>5
      <3> QED
        BY <1>2, <3>1
    <2>2. (\A k \in 1..n : j[Len(j) - n + k] = EndLine[k])
            <=> \A k \in 1..n : s[Len(s) - n + k] = EndLine[k]
      BY <2>1
    <2>3. Len(j) >= n
      BY <1>1, <1>2, <1>5
    <2> QED
      BY <1>3, <1>4, <1>5, <2>2, <2>3
  <1>6. CASE Len(s) < n
    <2>1. SUFFICES ASSUME EndsWith(j, EndLine) PROVE FALSE
      BY <1>1, <1>2, <1>3, <1>6
    <2> DEFINE k == n - Len(s)
    <2>2. Len(j) >= n /\ \A i \in 1..n : j[Len(j) - n + i] = EndLine[i]
      BY <1>4, <2>1
    <2>3. k \in 1..n - 2 /\ Len(j) - n + k = Len(l) /\ Len(l) >= 1
      BY <1>1, <1>2, <1>6, <2>2
    <2>4. k \in 1..n /\ k \in 1..Len(EndString)
      BY <1>1, <2>3, EndLineFacts DEF n
    <2> HIDE DEF k
    <2>5. j[Len(l)] = EndLine[k]
      BY <2>2, <2>3, <2>4
    <2>6. EndLine[k] # LF
      BY <2>4, EndLineFacts
    <2>7. j[Len(l)] = l[Len(l)] /\ l # <<>>
      BY <1>2, <2>3
    <2> QED
      BY <2>5, <2>6, <2>7
  <1> QED
    BY <1>1, <1>2, <1>5, <1>6

(* The lines read end with LF, and with the end string exactly when the     *)
(* mode is being left.                                                      *)
LineInv ==
  /\ lines = <<>> \/ lines[Len(lines)] = LF
  /\ mode = "leaving" => EndsWith(lines, EndLine)
  /\ mode \in {"trans", "tooLong"} => ~EndsWith(lines, EndLine)

LEMMA LineStep ==
  ASSUME TransAssumption, TypeOK, LineInv, [Next]_vars
  PROVE  LineInv'
  <1> USE DEF TypeOK
  <1>1. CASE Enter
    <2>1. lines' = <<>> /\ mode' = "trans"
      BY <1>1 DEF Enter
    <2>2. ~EndsWith(<<>>, EndLine)
      BY EndLineFacts DEF EndsWith
    <2> QED
      BY <2>1, <2>2 DEF LineInv
  <1>2. ASSUME NEW c \in Chars, Read(c) PROVE LineInv'
    <2> DEFINE got == Append(buf, c)
    <2>1. got \in Seq(Chars)
      OBVIOUS
    <2>2. mode = "trans"
      BY <1>2 DEF Read
    <2>3. CASE mode' \in {"trans", "tooLong"} /\ UNCHANGED lines
      BY <2>2, <2>3 DEF LineInv
    <2>4. CASE /\ Break(got) /\ lines' = lines \o got
               /\ mode' = IF Leaves(got) THEN "leaving" ELSE "trans"
      <3> HIDE DEF got
      <3>1. Len(got) \in Nat /\ Len(got) > 2
        BY <2>1, <2>4 DEF Break
      <3>2. EndsWith(lines \o got, EndLine) <=> Leaves(got)
        BY <2>1, <2>4, <3>1, LeavesPoints, JoinedLines DEF LineInv
      <3>3. got[Len(got)] = LF
        <4>1. <<CR, LF>> \in Seq(Chars) /\ Len(<<CR, LF>>) = 2 /\ <<CR, LF>>[2] = LF
          BY DEF TransAssumption
        <4>2. \A k \in 1..2 : got[Len(got) - 2 + k] = <<CR, LF>>[k]
          BY <2>1, <2>4, <4>1, EndsWithPoints DEF Break
        <4>3. Len(got) - 2 + 2 = Len(got)
          BY <3>1
        <4> QED
          BY <4>1, <4>2, <4>3
      <3>4. lines'[Len(lines')] = LF
        <4>1. Len(lines') = Len(lines) + Len(got) /\ lines'[Len(lines) + Len(got)] = got[Len(got)]
          BY <2>1, <2>4, <3>1
        <4> QED
          BY <3>3, <4>1
      <3> QED
        BY <2>4, <3>2, <3>4 DEF LineInv
    <2> QED
      BY <1>2, <2>2, <2>3, <2>4 DEF Read
  <1>3. CASE ThrowAway
    BY <1>3 DEF ThrowAway, LineInv
  <1>4. CASE Silence
    BY <1>4 DEF Silence, LineInv
  <1>5. CASE UNCHANGED vars
    BY <1>5 DEF vars, LineInv
  <1> QED
    BY <1>1, <1>2, <1>3, <1>4, <1>5 DEF Next

(* The mode is left by a line that ends with the end string and is not      *)
(* thrown away as too long, and by nothing else, for every end string       *)
(* without a line break (LeavesOnEnd).                                      *)
THEOREM EndStringLeaves == Spec => []LeavesOnEnd
  <1>1. Init => LineInv
    BY DEF Init, LineInv
  <1>2. TypeOK /\ LineInv /\ [Next]_vars => LineInv'
    BY LineStep, TransAssumption
  <1>3. LineInv => LeavesOnEnd
    BY DEF LineInv, LeavesOnEnd, EndLine
  <1> QED
    BY <1>1, <1>2, <1>3, TypeCorrect, PTL DEF Spec

-----------------------------------------------------------------------------
(***************************************************************************)
(* Nothing is lost.  Rejoined is defined by recursion: it is first shown   *)
(* that the recursion has exactly one solution, by the least number for    *)
(* which it has none and the least for which two solutions differ.         *)
(***************************************************************************)
LEMMA Least ==
  ASSUME NEW T \in SUBSET Nat, T # {}
  PROVE  \E x \in T : \A y \in T : x <= y
  <1>1. \E x \in T : \A y \in T : ~(<<y, x>> \in OpToRel(<, Nat))
    BY NatLessThanWellFounded, WFMin
  <1>2. PICK x \in T : \A y \in T : ~(<<y, x>> \in OpToRel(<, Nat))
    BY <1>1
  <1>3. ASSUME NEW y \in T PROVE x <= y
    <2>1. <<y, x>> \notin OpToRel(<, Nat)
      BY <1>2
    <2>2. ~(y < x)
      BY <2>1 DEF OpToRel
    <2> QED
      BY <2>2
  <1> QED
    BY <1>3

Joins(s, f) ==
  f = [k \in 0..Len(s) |-> IF k = 0 THEN <<>> ELSE f[k-1] \o s[k] \o <<CR, LF>>]

(* f joins the first n messages. *)
JoinsUpTo(s, n, f) ==
  /\ f \in [0..n -> Seq(Chars)]
  /\ f[0] = <<>>
  /\ \A k \in 1..n : f[k] = f[k-1] \o s[k] \o <<CR, LF>>

LEMMA JoinTyped ==
  ASSUME TransAssumption, NEW l \in Seq(Chars), NEW m \in Seq(Chars)
  PROVE  l \o m \o <<CR, LF>> \in Seq(Chars)
  <1>1. <<CR, LF>> \in Seq(Chars)
    BY DEF TransAssumption
  <1> QED
    BY <1>1

LEMMA JoinExists ==
  ASSUME TransAssumption, NEW s \in Seq(Seq(Chars))
  PROVE  \E f : JoinsUpTo(s, Len(s), f)
  <1> DEFINE bad == {n \in 0..Len(s) : ~\E f : JoinsUpTo(s, n, f)}
  <1>0. Len(s) \in 0..Len(s)
    OBVIOUS
  <1>1. SUFFICES ASSUME bad # {} PROVE FALSE
    BY <1>0, Zenon
  <1>2. PICK n \in bad : \A y \in bad : n <= y
    <2>1. bad \in SUBSET Nat
      OBVIOUS
    <2> HIDE DEF bad
    <2> QED
      BY <1>1, <2>1, Least
  <1>3. n \in 0..Len(s) /\ ~\E f : JoinsUpTo(s, n, f)
    OBVIOUS
  <1>4. CASE n = 0
    <2> DEFINE f == [k \in 0..0 |-> <<>>]
    <2>1. f \in [0..0 -> Seq(Chars)] /\ f[0] = <<>>
      <3>1. <<>> \in Seq(Chars)
        OBVIOUS
      <3> QED
        BY <3>1
    <2>2. JoinsUpTo(s, 0, f)
      BY <2>1 DEF JoinsUpTo
    <2> QED
      BY <1>3, <1>4, <2>2
  <1>5. CASE n > 0
    <2>1. n - 1 \in 0..Len(s) /\ n - 1 \notin bad
      <3>1. n - 1 \in 0..Len(s) /\ ~(n <= n - 1)
        BY <1>3, <1>5
      <3> HIDE DEF bad
      <3> QED
        BY <1>2, <3>1
    <2>2. PICK f : JoinsUpTo(s, n - 1, f)
      BY <2>1
    <2> DEFINE next == f[n-1] \o s[n] \o <<CR, LF>>
               g == [k \in 0..n |-> IF k = n THEN next ELSE f[k]]
    <2>3. f[n-1] \in Seq(Chars) /\ s[n] \in Seq(Chars)
      BY <1>3, <1>5, <2>2 DEF JoinsUpTo
    <2>4. next \in Seq(Chars)
      BY <2>3, JoinTyped
    <2> HIDE DEF next
    <2>5. g \in [0..n -> Seq(Chars)] /\ g[0] = <<>>
      BY <1>3, <1>5, <2>2, <2>4 DEF JoinsUpTo
    <2>6. ASSUME NEW k \in 1..n PROVE g[k] = g[k-1] \o s[k] \o <<CR, LF>>
      <3>1. g[k-1] = f[k-1] /\ g[k] = IF k = n THEN next ELSE f[k]
        BY <1>3, <2>6
      <3> HIDE DEF g
      <3>2. CASE k = n
        BY <3>1, <3>2 DEF next
      <3>3. CASE k # n
        <4>1. k \in 1..n-1
          BY <1>3, <2>6, <3>3
        <4>2. f[k] = f[k-1] \o s[k] \o <<CR, LF>>
          BY <2>2, <4>1 DEF JoinsUpTo
        <4> QED
          BY <3>1, <3>3, <4>2
      <3> QED
        BY <3>2, <3>3
    <2>7. JoinsUpTo(s, n, g)
      BY <2>5, <2>6 DEF JoinsUpTo
    <2> QED
      BY <1>3, <2>7
  <1> QED
    BY <1>3, <1>4, <1>5

(* The recursion for the messages s has a solution, and no other. *)
LEMMA JoinsSolved ==
  ASSUME TransAssumption, NEW s \in Seq(Seq(Chars))
  PROVE  \E f : Joins(s, f)
  <1>1. PICK f : JoinsUpTo(s, Len(s), f)
    BY JoinExists
  <1>2. /\ f \in [0..Len(s) -> Seq(Chars)] /\ f[0] = <<>>
        /\ \A k \in 1..Len(s) : f[k] = f[k-1] \o s[k] \o <<CR, LF>>
    BY <1>1 DEF JoinsUpTo
  <1>3. \A k \in 0..Len(s) :
          f[k] = IF k = 0 THEN <<>> ELSE f[k-1] \o s[k] \o <<CR, LF>>
    BY <1>2
  <1>4. f = [k \in 0..Len(s) |-> f[k]]
    BY <1>2
  <1>5. Joins(s, f)
    BY <1>3, <1>4 DEF Joins
  <1> QED
    BY <1>5

LEMMA JoinsPoints ==
  ASSUME NEW s \in Seq(Seq(Chars)), NEW f, Joins(s, f)
  PROVE  /\ f[0] = <<>>
         /\ \A k \in 1..Len(s) : f[k] = f[k-1] \o s[k] \o <<CR, LF>>
  <1>1. Len(s) \in Nat
    OBVIOUS
  <1>2. ASSUME NEW k \in 0..Len(s)
        PROVE  f[k] = IF k = 0 THEN <<>> ELSE f[k-1] \o s[k] \o <<CR, LF>>
    BY DEF Joins
  <1>3. \A k \in 1..Len(s) : k \in 0..Len(s) /\ k # 0
    BY <1>1
  <1>4. 0 \in 0..Len(s)
    BY <1>1
  <1> QED
    BY <1>2, <1>3, <1>4

(* Two solutions agree on the messages their sequences share. *)
LEMMA JoinsAgree ==
  ASSUME NEW s \in Seq(Seq(Chars)), NEW t \in Seq(Seq(Chars)), NEW f, NEW g,
         Joins(s, f), Joins(t, g), Len(s) <= Len(t), \A k \in 1..Len(s) : t[k] = s[k]
  PROVE  \A k \in 0..Len(s) : g[k] = f[k]
  <1> DEFINE bad == {k \in 0..Len(s) : g[k] # f[k]}
  <1>0. Len(s) \in Nat /\ Len(t) \in Nat
    OBVIOUS
  <1>1. SUFFICES ASSUME bad # {} PROVE FALSE
    OBVIOUS
  <1>2. PICK n \in bad : \A y \in bad : n <= y
    <2>1. bad \in SUBSET Nat
      OBVIOUS
    <2> HIDE DEF bad
    <2> QED
      BY <1>1, <2>1, Least
  <1>3. n \in 0..Len(s) /\ g[n] # f[n]
    OBVIOUS
  <1>4. n # 0
    BY <1>3, JoinsPoints
  <1>5. n - 1 \in 0..Len(s) /\ n \in 1..Len(s) /\ n \in 1..Len(t) /\ ~(n <= n - 1)
    BY <1>0, <1>3, <1>4
  <1>6. g[n-1] = f[n-1]
    <2>1. n - 1 \notin bad
      <3> HIDE DEF bad
      <3> QED
        BY <1>2, <1>5
    <2> QED
      BY <1>5, <2>1
  <1>7. g[n] = f[n]
    <2>1. f[n] = f[n-1] \o s[n] \o <<CR, LF>>
      BY <1>5, JoinsPoints
    <2>2. g[n] = g[n-1] \o t[n] \o <<CR, LF>>
      BY <1>5, JoinsPoints
    <2>3. t[n] = s[n]
      BY <1>5
    <2> QED
      BY <1>6, <2>1, <2>2, <2>3
  <1> QED
    BY <1>3, <1>7

LEMMA RejoinedJoins ==
  ASSUME TransAssumption, sent \in Seq(Seq(Chars))
  PROVE  Joins(sent, Rejoined)
  <1>1. \E f : Joins(sent, f)
    BY JoinsSolved
  <1>2. Joins(sent, CHOOSE f : Joins(sent, f))
    BY <1>1
  <1>3. Rejoined = CHOOSE f : Joins(sent, f)
    BY DEF Rejoined, Joins
  <1> QED
    BY <1>2, <1>3

LEMMA RejoinedNextJoins ==
  ASSUME TransAssumption, sent' \in Seq(Seq(Chars))
  PROVE  Joins(sent', Rejoined')
  <1>1. \E f : Joins(sent', f)
    BY JoinsSolved
  <1>2. Joins(sent', CHOOSE f : Joins(sent', f))
    BY <1>1
  <1>3. Rejoined' = CHOOSE f : Joins(sent', f)
    BY DEF Rejoined, Joins
  <1> QED
    BY <1>2, <1>3

LEMMA RejoinedTyped ==
  ASSUME TransAssumption, sent \in Seq(Seq(Chars))
  PROVE  \A k \in 0..Len(sent) : Rejoined[k] \in Seq(Chars)
  <1>1. PICK f : JoinsUpTo(sent, Len(sent), f)
    BY JoinExists
  <1>2. f \in [0..Len(sent) -> Seq(Chars)]
    BY <1>1 DEF JoinsUpTo
  <1>3. Joins(sent, f)
    <2>1. \A k \in 0..Len(sent) :
            f[k] = IF k = 0 THEN <<>> ELSE f[k-1] \o sent[k] \o <<CR, LF>>
      BY <1>1 DEF JoinsUpTo
    <2>2. f = [k \in 0..Len(sent) |-> f[k]]
      BY <1>2
    <2> QED
      BY <2>1, <2>2 DEF Joins
  <1>4. Joins(sent, Rejoined)
    BY RejoinedJoins
  <1>5. \A k \in 0..Len(sent) : Rejoined[k] = f[k]
    <2>1. Len(sent) <= Len(sent)
      OBVIOUS
    <2> QED
      BY <1>3, <1>4, <2>1, JoinsAgree
  <1> QED
    BY <1>2, <1>5

OneMore(s, t) ==
  /\ Len(t) = Len(s) + 1
  /\ \A k \in 1..Len(s) : t[k] = s[k]

(* One message more in the sequence: its solution goes on from the other.   *)
LEMMA JoinsKeep ==
  ASSUME NEW s \in Seq(Seq(Chars)), NEW t \in Seq(Seq(Chars)),
         OneMore(s, t), NEW f, NEW g, Joins(s, f), Joins(t, g)
  PROVE  g[Len(s)] = f[Len(s)]
  <1>1. /\ Len(s) \in Nat /\ Len(t) \in Nat /\ Len(t) = Len(s) + 1 /\ Len(s) <= Len(t)
        /\ \A k \in 1..Len(s) : t[k] = s[k]
    BY DEF OneMore
  <1>2. \A k \in 0..Len(s) : g[k] = f[k]
    BY <1>1, JoinsAgree
  <1> QED
    BY <1>1, <1>2

LEMMA JoinsAppend ==
  ASSUME NEW s \in Seq(Seq(Chars)), NEW t \in Seq(Seq(Chars)),
         OneMore(s, t), NEW f, NEW g, Joins(s, f), Joins(t, g)
  PROVE  g[Len(t)] = f[Len(s)] \o t[Len(t)] \o <<CR, LF>>
  <1>1. Len(t) \in 1..Len(t) /\ Len(t) - 1 = Len(s)
    BY DEF OneMore
  <1>2. \A k \in 1..Len(t) : g[k] = g[k-1] \o t[k] \o <<CR, LF>>
    BY JoinsPoints
  <1>3. g[Len(t)] = g[Len(s)] \o t[Len(t)] \o <<CR, LF>>
    BY <1>1, <1>2
  <1>4. g[Len(s)] = f[Len(s)]
    BY JoinsKeep
  <1> QED
    BY <1>3, <1>4

LEMMA RejoinedNext ==
  ASSUME TransAssumption, sent \in Seq(Seq(Chars)), sent' \in Seq(Seq(Chars)),
         OneMore(sent, sent')
  PROVE  /\ Rejoined'[Len(sent)] = Rejoined[Len(sent)]
         /\ Rejoined'[Len(sent')] = Rejoined[Len(sent)] \o sent'[Len(sent')] \o <<CR, LF>>
  <1>1. Joins(sent, Rejoined) /\ Joins(sent', Rejoined')
    BY RejoinedJoins, RejoinedNextJoins
  <1>2. Rejoined'[Len(sent)] = Rejoined[Len(sent)]
    BY <1>1, JoinsKeep
  <1>3. Rejoined'[Len(sent')] = Rejoined[Len(sent)] \o sent'[Len(sent')] \o <<CR, LF>>
    BY <1>1, JoinsAppend
  <1> QED
    BY <1>2, <1>3

(* A message that is sent is joined to those before it. *)
LEMMA RejoinedAppend ==
  ASSUME TransAssumption, sent \in Seq(Seq(Chars)), NEW m \in Seq(Chars),
         sent' = Append(sent, m)
  PROVE  /\ Len(sent') = Len(sent) + 1 /\ sent'[Len(sent')] = m /\ sent' # <<>>
         /\ Rejoined'[Len(sent') - 1] = Rejoined[Len(sent)]
         /\ Rejoined'[Len(sent')] = Rejoined[Len(sent)] \o m \o <<CR, LF>>
  <1>1. /\ sent' \in Seq(Seq(Chars)) /\ Len(sent) \in Nat /\ Len(sent') = Len(sent) + 1
        /\ \A k \in 1..Len(sent) : sent'[k] = sent[k]
        /\ sent'[Len(sent) + 1] = m /\ sent' # <<>>
    OBVIOUS
  <1>2. sent'[Len(sent')] = m /\ Len(sent') - 1 = Len(sent)
    BY <1>1
  <1>3. OneMore(sent, sent')
    BY <1>1 DEF OneMore
  <1> QED
    BY <1>1, <1>2, <1>3, RejoinedNext

LEMMA EndsSplit ==
  ASSUME NEW s \in Seq(Chars), NEW t \in Seq(Chars), EndsWith(s, t)
  PROVE  s = Chop(s, Len(t)) \o t
  <1>1. Len(s) \in Nat /\ Len(t) \in Nat /\ Len(t) <= Len(s)
        /\ SubSeq(s, Len(s) - Len(t) + 1, Len(s)) = t
    BY DEF EndsWith
  <1> DEFINE k == Len(s) - Len(t)
  <1>2. 1 \in 1..Len(s)+1 /\ k \in 1-1..Len(s) /\ Len(s) \in k..Len(s)
    BY <1>1
  <1>3. SubSeq(s, 1, k) \o SubSeq(s, k + 1, Len(s)) = SubSeq(s, 1, Len(s))
    BY <1>2, ConcatAdjacentSubSeq
  <1>4. SubSeq(s, 1, Len(s)) = s
    BY SubSeqFull
  <1> QED
    BY <1>1, <1>3, <1>4 DEF Chop

(* A line is its message and what ended it. *)
LEMMA MessageLine ==
  ASSUME TransAssumption, NEW s \in Seq(Chars), Break(s)
  PROVE  /\ ~Leaves(s) => s = Message(s) \o <<CR, LF>> /\ Message(s) # <<>>
         /\ Leaves(s) => s = Message(s) \o EndString \o <<CR, LF>>
  <1>1. <<CR, LF>> \in Seq(Chars) /\ Len(<<CR, LF>>) = 2 /\ EndString \in Seq(Chars)
        /\ Len(EndString) \in Nat
    BY EndLineFacts DEF TransAssumption
  <1>2. Len(s) \in Nat /\ Len(s) > 2 /\ EndsWith(s, <<CR, LF>>)
    BY DEF Break
  <1>3. s = Chop(s, 2) \o <<CR, LF>>
    BY <1>1, <1>2, EndsSplit
  <1>4. Chop(s, 2) \in Seq(Chars) /\ Len(Chop(s, 2)) = Len(s) - 2
        /\ \A k \in 1..Len(s) - 2 : Chop(s, 2)[k] = s[k]
    BY <1>2, ChopFacts
  <1>5. CASE ~Leaves(s)
    <2>1. Message(s) = Chop(s, 2)
      BY <1>5 DEF Message
    <2>2. Len(Message(s)) > 0
      BY <1>2, <1>4, <2>1
    <2> QED
      BY <1>3, <1>5, <2>1, <2>2
  <1>6. CASE Leaves(s)
    <2> DEFINE n == 2 + Len(EndString)
    <2>1. EndsWith(Chop(s, 2), EndString) /\ Message(s) = Chop(s, n)
      BY <1>6 DEF Leaves, Message
    <2>2. Chop(s, 2) = Chop(Chop(s, 2), Len(EndString)) \o EndString
      BY <1>1, <1>4, <2>1, EndsSplit
    <2>3. Len(EndString) <= Len(s) - 2
      BY <1>4, <2>1 DEF EndsWith
    <2>4. n \in Nat /\ n <= Len(s) /\ Len(s) - n = Len(s) - 2 - Len(EndString)
      BY <1>1, <1>2, <2>3
    <2>5. Chop(s, n) \in Seq(Chars) /\ Len(Chop(s, n)) = Len(s) - n
          /\ \A k \in 1..Len(s) - n : Chop(s, n)[k] = s[k]
      BY <2>4, ChopFacts
    <2> DEFINE c == Chop(s, 2)
    <2>6. c \in Seq(Chars) /\ Len(c) = Len(s) - 2 /\ \A k \in 1..Len(s) - 2 : c[k] = s[k]
      BY <1>4
    <2> HIDE DEF c, n
    <2>7. Chop(c, Len(EndString)) \in Seq(Chars)
          /\ Len(Chop(c, Len(EndString))) = Len(s) - 2 - Len(EndString)
          /\ \A k \in 1..Len(s) - 2 - Len(EndString) : Chop(c, Len(EndString))[k] = c[k]
      <3> DEFINE e == Len(EndString)
      <3>1. e \in Nat /\ e <= Len(c) /\ Len(c) - e = Len(s) - 2 - e
        BY <1>1, <1>2, <2>3, <2>6
      <3> HIDE DEF e
      <3>2. Chop(c, e) \in Seq(Chars) /\ Len(Chop(c, e)) = Len(c) - e
            /\ \A k \in 1..Len(c) - e : Chop(c, e)[k] = c[k]
        BY <2>6, <3>1, ChopFacts
      <3>3. 1..Len(c) - e = 1..Len(s) - 2 - e
        BY <3>1
      <3> QED
        BY <3>1, <3>2, <3>3 DEF e
    <2>8. \A k \in 1..Len(s) - n : Chop(c, Len(EndString))[k] = Chop(s, n)[k]
      <3> SUFFICES ASSUME NEW k \in 1..Len(s) - n
                   PROVE  Chop(c, Len(EndString))[k] = Chop(s, n)[k]
        OBVIOUS
      <3>1. k \in 1..Len(s) - 2 /\ k \in 1..Len(s) - 2 - Len(EndString)
        BY <1>1, <1>2, <2>4
      <3> QED
        BY <2>5, <2>6, <2>7, <3>1
    <2>9. Chop(c, Len(EndString)) = Chop(s, n)
      BY <2>4, <2>5, <2>7, <2>8, SeqEqual
    <2>10. c = Message(s) \o EndString
      BY <2>1, <2>2, <2>9 DEF c, n
    <2> QED
      BY <1>3, <1>6, <2>10 DEF c
  <1> QED
    BY <1>5, <1>6

(* While a message may still come, the lines read are the messages sent.    *)
LostInv ==
  /\ NothingLost
  /\ mode \in {"trans", "tooLong"} => lines = Rejoined[Len(sent)]

LEMMA CharsAssociative ==
  ASSUME NEW a \in Seq(Chars), NEW b \in Seq(Chars), NEW c \in Seq(Chars)
  PROVE  (a \o b) \o c = a \o (b \o c)
  BY ConcatAssociative

LEMMA SentTyped ==
  ASSUME sent \in Seq(Seq(Chars) \ {<<>>})
  PROVE  sent \in Seq(Seq(Chars)) /\ Len(sent) \in Nat
  OBVIOUS

(* A step that sends nothing leaves the messages joined as they were. *)
LEMMA LostKept ==
  ASSUME LostInv, UNCHANGED <<sent, lines>>,
         mode' = mode \/ mode \in {"trans", "tooLong"} \/ mode' = "at"
  PROVE  LostInv'
  <1>1. Rejoined' = Rejoined
    BY DEF Rejoined
  <1>2. sent' = sent /\ lines' = lines
    OBVIOUS
  <1>3. CASE lines = Rejoined[Len(sent)]
    <2>1. lines' = Rejoined'[Len(sent')]
      BY <1>1, <1>2, <1>3
    <2> QED
      BY <2>1 DEF LostInv, NothingLost
  <1>4. CASE lines # Rejoined[Len(sent)]
    <2>1. mode \in {"leaving", "at"}
      BY <1>4 DEF LostInv, NothingLost
    <2>2. mode' \in {"leaving", "at"}
      BY <2>1
    <2> DEFINE cut(r, s) ==
                 \/ lines = r[Len(s)] \o EndString \o <<CR, LF>>
                 \/ s # <<>> /\ lines = r[Len(s) - 1] \o s[Len(s)] \o EndString \o <<CR, LF>>
    <2>3. cut(Rejoined, sent)
      BY <1>4 DEF LostInv, NothingLost
    <2>4. cut(Rejoined', sent')
      <3> HIDE DEF cut
      <3> QED
        BY <1>1, <1>2, <2>3
    <2>5. NothingLost'
      BY <1>2, <2>2, <2>4, Zenon DEF NothingLost
    <2> QED
      BY <2>2, <2>5 DEF LostInv
  <1> QED
    BY <1>3, <1>4

(* A complete line that is short enough. *)
LEMMA LineKeepsLost ==
  ASSUME TransAssumption, TypeOK, LostInv, mode = "trans", NEW got \in Seq(Chars),
         Break(got), mode' = (IF Leaves(got) THEN "leaving" ELSE "trans"),
         Send(Message(got)), lines' = lines \o got
  PROVE  LostInv'
  <1> DEFINE m == Message(got)
             r == Rejoined[Len(sent)]
             crlf == <<CR, LF>>
  <1>1. sent \in Seq(Seq(Chars)) /\ Len(sent) \in Nat
    BY SentTyped DEF TypeOK
  <1>2. m \in Seq(Chars)
    BY MessageFacts
  <1>3. lines = r /\ lines' = r \o got /\ r \in Seq(Chars)
    BY DEF LostInv, TypeOK
  <1>4. crlf \in Seq(Chars) /\ EndString \in Seq(Chars)
    BY EndLineFacts DEF TransAssumption
  <1>5. CASE ~Leaves(got)
    <2>1. got = m \o crlf /\ m # <<>>
      BY <1>5, MessageLine
    <2>2. sent' = Append(sent, m)
      BY <2>1 DEF Send
    <2>3. Rejoined'[Len(sent')] = (r \o m) \o crlf
      BY <1>1, <1>2, <2>2, RejoinedAppend
    <2> HIDE DEF m, r, crlf
    <2>4. (r \o m) \o crlf = r \o (m \o crlf)
      BY <1>2, <1>3, <1>4, CharsAssociative
    <2>5. lines' = Rejoined'[Len(sent')]
      BY <1>3, <2>1, <2>3, <2>4
    <2> QED
      BY <2>5 DEF LostInv, NothingLost
  <1>6. CASE Leaves(got)
    <2>1. got = (m \o EndString) \o crlf
      BY <1>6, MessageLine
    <2>2. mode' = "leaving"
      BY <1>6
    <2>3. CASE m = <<>>
      <3>1. sent' = sent
        BY <2>3 DEF Send
      <3>2. Rejoined'[Len(sent')] = r
        BY <3>1 DEF Rejoined
      <3> HIDE DEF m, r, crlf
      <3>3. got = EndString \o crlf
        <4>1. m \o EndString = EndString
          BY <1>4, <2>3, ConcatEmptySeq
        <4> QED
          BY <2>1, <4>1
      <3>4. (r \o EndString) \o crlf = r \o (EndString \o crlf)
        BY <1>3, <1>4, CharsAssociative
      <3>5. lines' = (Rejoined'[Len(sent')] \o EndString) \o crlf
        BY <1>3, <3>2, <3>3, <3>4
      <3> QED
        BY <2>2, <3>5 DEF LostInv, NothingLost, crlf
    <2>4. CASE m # <<>>
      <3>1. sent' = Append(sent, m)
        BY <2>4 DEF Send
      <3>2. sent' # <<>> /\ sent'[Len(sent')] = m /\ Rejoined'[Len(sent') - 1] = r
        BY <1>1, <1>2, <3>1, RejoinedAppend
      <3> HIDE DEF m, r, crlf
      <3>3. ((r \o m) \o EndString) \o crlf = r \o ((m \o EndString) \o crlf)
        <4>1. (r \o m) \o EndString = r \o (m \o EndString)
          BY <1>2, <1>3, <1>4, CharsAssociative
        <4>2. m \o EndString \in Seq(Chars)
          BY <1>2, <1>4
        <4>3. (r \o (m \o EndString)) \o crlf = r \o ((m \o EndString) \o crlf)
          BY <1>3, <1>4, <4>2, CharsAssociative
        <4> QED
          BY <4>1, <4>3
      <3>4. lines' = ((Rejoined'[Len(sent') - 1] \o sent'[Len(sent')]) \o EndString) \o crlf
        BY <1>3, <2>1, <3>2, <3>3
      <3> QED
        BY <2>2, <3>2, <3>4 DEF LostInv, NothingLost, crlf
    <2> QED
      BY <2>3, <2>4
  <1> QED
    BY <1>5, <1>6

(* Nothing typed in a complete line that was not thrown away as too long is *)
(* lost, invented, repeated or reordered (NothingLost), whatever is typed.  *)
THEOREM LinesArrive == Spec => []NothingLost
  <1> USE TransAssumption
  <1>1. Init => LostInv
    <2> SUFFICES ASSUME Init PROVE LostInv
      OBVIOUS
    <2>1. sent = <<>> /\ lines = <<>> /\ mode = "at" /\ Len(sent) = 0
      BY DEF Init
    <2>2. Rejoined[0] = <<>>
      <3>1. sent \in Seq(Seq(Chars))
        BY <2>1
      <3> QED
        BY <3>1, RejoinedJoins, JoinsPoints
    <2>3. lines = Rejoined[Len(sent)]
      BY <2>1, <2>2
    <2> QED
      BY <2>3 DEF LostInv, NothingLost
  <1>2. TypeOK /\ LostInv /\ [Next]_vars => LostInv'
    <2> SUFFICES ASSUME TypeOK, LostInv, [Next]_vars PROVE LostInv'
      OBVIOUS
    <2>1. CASE Enter
      <3>1. sent' = <<>> /\ lines' = <<>> /\ mode' = "trans"
        BY <2>1 DEF Enter
      <3>2. sent' \in Seq(Seq(Chars)) /\ Len(sent') = 0
        BY <3>1
      <3>3. Joins(sent', Rejoined')
        BY <3>2, RejoinedNextJoins
      <3>4. Rejoined'[0] = <<>>
        BY <3>2, <3>3, JoinsPoints
      <3>5. lines' = Rejoined'[Len(sent')]
        BY <3>1, <3>2, <3>4
      <3> QED
        BY <3>5 DEF LostInv, NothingLost
    <2>2. CASE \E c \in Chars : Read(c)
      <3>1. PICK c \in Chars : Read(c)
        BY <2>2
      <3> DEFINE got == Append(buf, c)
      <3>2. mode = "trans" /\ got \in Seq(Chars)
        BY <3>1 DEF Read, TypeOK
      <3>3. \/ TooLong(got) /\ mode' = "tooLong" /\ UNCHANGED <<sent, lines>>
            \/ /\ Break(got) /\ mode' = (IF Leaves(got) THEN "leaving" ELSE "trans")
               /\ Send(Message(got)) /\ lines' = lines \o got
            \/ UNCHANGED <<mode, sent, lines>>
        BY <3>1 DEF Read
      <3> HIDE DEF got
      <3> QED
        BY <3>2, <3>3, LostKept, LineKeepsLost
    <2>3. CASE ThrowAway
      BY <2>3, LostKept DEF ThrowAway
    <2>4. CASE Silence
      BY <2>4, LostKept DEF Silence
    <2>5. CASE UNCHANGED vars
      BY <2>5, LostKept DEF vars
    <2> QED
      BY <2>1, <2>2, <2>3, <2>4, <2>5 DEF Next
  <1>3. LostInv => NothingLost
    BY DEF LostInv
  <1> QED
    BY <1>1, <1>2, <1>3, TypeCorrect, PTL DEF Spec
=============================================================================
