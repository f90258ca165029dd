---------------------------- MODULE SubframeProofs ----------------------------
(***************************************************************************)
(* Proofs about the number of subframes, for every message and every       *)
(* modulation: the number chosen is the least with the fewest frames for   *)
(* the length it is chosen for, and near the best for the message.         *)
(***************************************************************************)
EXTENDS Subframe, TLAPS

LEMMA TimesMonotone ==
  ASSUME NEW b \in Nat, NEW x \in Int, NEW y \in Int, x <= y
  PROVE  x * b <= y * b
  <1>1. (y - x) * b >= 0
    OBVIOUS
  <1>2. (y - x) * b = y * b - x * b
    OBVIOUS
  <1>3. x * b \in Int /\ y * b \in Int
    OBVIOUS
  <1> QED
    BY <1>1, <1>2, <1>3

LEMMA DivFacts ==
  ASSUME NEW x \in Int, NEW b \in Nat \ {0}
  PROVE  x \div b \in Int /\ (x \div b) * b <= x /\ x < (x \div b) * b + b
  OBVIOUS

(* Rounding up is adjoint to multiplication. *)
LEMMA CeilDivFacts ==
  ASSUME NEW a \in Int, NEW b \in Nat \ {0}, NEW c \in Int
  PROVE  CeilDiv(a, b) \in Int /\ (CeilDiv(a, b) <= c <=> a <= c * b)
  <1> DEFINE x == a + b - 1
             q == x \div b
             p == q * b
             r == c * b
  <1>1. x \in Int /\ CeilDiv(a, b) = q
    BY DEF CeilDiv
  <1>2. q \in Int /\ p <= x /\ x < p + b
    BY <1>1, DivFacts
  <1>3. ASSUME q <= c PROVE p <= r
    BY <1>2, <1>3, TimesMonotone
  <1>4. ASSUME c + 1 <= q PROVE r + b <= p
    <2>1. (c + 1) * b <= q * b
      BY <1>2, <1>4, TimesMonotone
    <2>2. (c + 1) * b = r + b
      OBVIOUS
    <2> QED
      BY <2>1, <2>2
  <1>5. p \in Int /\ r \in Int
    BY <1>2
  <1>6. x = a + b - 1
    OBVIOUS
  <1> HIDE DEF x, q, p, r
  <1>7. ASSUME q <= c PROVE a <= r
    BY <1>2, <1>3, <1>5, <1>6, <1>7
  <1>8. ASSUME c + 1 <= q PROVE ~(a <= r)
    BY <1>2, <1>4, <1>5, <1>6, <1>8
  <1> QED
    BY <1>1, <1>2, <1>7, <1>8 DEF r

(* The bytes a load stands for. *)
IsLoad(load) == load.first \in Nat \ {0} /\ load.sub \in Nat /\ load.first <= load.sub

LEMMA CapacityFacts ==
  ASSUME NEW load, IsLoad(load), NEW k \in Nat \ {0}
  PROVE  Capacity(k, load) \in Nat \ {0}
  <1> DEFINE f == load.first
             s == load.sub
             p == s * (k - 1)
  <1>1. f \in Nat \ {0} /\ p \in Nat
    BY DEF IsLoad
  <1>2. Capacity(k, load) = p + f
    BY DEF Capacity
  <1> HIDE DEF f, p
  <1> QED
    BY <1>1, <1>2

(* With k subframes the bytes fit into so many frames just when they fit    *)
(* when they are spread evenly, and that is when k is large enough.         *)
LEMMA NumberBest ==
  ASSUME NEW load, IsLoad(load), NEW full \in Nat, NEW n \in Nat \ {0}, NEW k \in Nat \ {0}
  PROVE  Frames(full, k, load) <= n <=> Number(CeilDiv(full, n), load) <= k
  <1> DEFINE f == load.first
             s == load.sub
             c == Capacity(k, load)
             a == CeilDiv(full, n)
             p == s * (k - 1)
             t == (k - 1) * s
  <1>1. c \in Nat \ {0} /\ f \in Nat \ {0} /\ s \in Nat \ {0} /\ p \in Nat
    BY CapacityFacts DEF IsLoad
  <1>2. c = p + f /\ p = t /\ t \in Int
    BY <1>1 DEF Capacity
  <1>3. Frames(full, k, load) = CeilDiv(full, c)
    BY DEF Frames
  <1>4. Number(a, load) = 1 + CeilDiv(a - f, s)
    BY DEF Number
  <1> HIDE DEF c, f, s, p
  <1>5. CeilDiv(full, c) <= n <=> full <= n * c
    BY <1>1, CeilDivFacts
  <1>6. a \in Int /\ (a <= c <=> full <= c * n)
    BY <1>1, CeilDivFacts
  <1> HIDE DEF a
  <1>7. a - f \in Int /\ k - 1 \in Int
    BY <1>1, <1>6
  <1>8. CeilDiv(a - f, s) \in Int /\ (CeilDiv(a - f, s) <= k - 1 <=> a - f <= t)
    BY <1>1, <1>7, CeilDivFacts
  <1> HIDE DEF t
  <1>9. Number(a, load) <= k <=> a - f <= t
    BY <1>4, <1>8
  <1>10. a <= c <=> a - f <= t
    BY <1>1, <1>2, <1>6
  <1>11. c * n = n * c
    BY <1>1
  <1>12. Frames(full, k, load) <= n <=> Number(a, load) <= k
    BY <1>3, <1>5, <1>6, <1>9, <1>10, <1>11
  <1> QED
    BY <1>12 DEF a

LEMMA LargestFacts ==
  ASSUME NEW load, IsLoad(load)
  PROVE  /\ Largest(load) = 7 * load.sub + load.first
         /\ Capacity(MaxSubframes, load) = 7 * load.sub + load.first
         /\ Capacity(2, load) = load.sub + load.first
  BY DEF IsLoad, Largest, Capacity, MaxSubframes

(* Two subframes are too few for the fewest frames. *)
LEMMA TwoTooFew ==
  ASSUME NEW load, IsLoad(load), NEW full \in Nat, full > Largest(load)
  PROVE  LET n == Frames(full, MaxSubframes, load)
         IN n \in Nat \ {0} /\ ~(Frames(full, 2, load) <= n)
  <1> DEFINE n == Frames(full, MaxSubframes, load)
             L == Capacity(MaxSubframes, load)
             u == Capacity(2, load)
             w == n * u
             z == (n - 1) * L
             y == (n - 1) * u
  <1>1. L \in Nat /\ u \in Nat \ {0} /\ 4 * u <= L /\ full > L /\ L \in Nat \ {0}
    BY LargestFacts DEF IsLoad
  <1>2. n = CeilDiv(full, L) /\ Frames(full, 2, load) = CeilDiv(full, u)
    BY DEF Frames
  <1> HIDE DEF n, L, u
  <1>3. n \in Int /\ ~(n <= n - 1) /\ (n <= 1 <=> full <= 1 * L)
    <2>1. full \in Int /\ 1 \in Int
      OBVIOUS
    <2>2. CeilDiv(full, L) \in Int /\ (CeilDiv(full, L) <= 1 <=> full <= 1 * L)
      BY <1>1, <2>1, CeilDivFacts
    <2> QED
      BY <1>2, <2>2
  <1>4. n \in Nat /\ n >= 2
    BY <1>1, <1>3
  <1>5. ~(full <= z)
    BY <1>1, <1>2, <1>3, CeilDivFacts
  <1>6. CeilDiv(full, u) <= n <=> full <= w
    BY <1>1, <1>3, CeilDivFacts
  <1>7. z >= 4 * y
    <2>1. (4 * u) * (n - 1) <= L * (n - 1)
      BY <1>1, <1>4, TimesMonotone
    <2>2. (4 * u) * (n - 1) = 4 * y /\ L * (n - 1) = z
      BY <1>1, <1>4
    <2> QED
      BY <2>1, <2>2
  <1>8. w = y + u /\ u <= y
    <2>1. 1 * u <= (n - 1) * u
      BY <1>1, <1>4, TimesMonotone
    <2> QED
      BY <1>1, <1>4, <2>1
  <1>9. w \in Int /\ y \in Int /\ z \in Int
    BY <1>1, <1>4
  <1> HIDE DEF w, y, z
  <1>10. ~(full <= w)
    BY <1>1, <1>5, <1>7, <1>8, <1>9
  <1>11. n \in Nat \ {0} /\ ~(Frames(full, 2, load) <= n)
    BY <1>2, <1>4, <1>6, <1>10
  <1> QED
    BY <1>11 DEF n

LEMMA FullType ==
  ASSUME NEW load, IsLoad(load), NEW len \in Nat \ {0}, NEW crc \in Nat
  PROVE  Full(len, load, crc) \in Nat
  <1>1. CeilDiv(len, 2) \in Nat
    BY DEF CeilDiv
  <1> QED
    BY <1>1 DEF Full

(* wiota_app_subframe returns a number the stack accepts.  Where the length *)
(* it is chosen for, of a long message one half, does not fit into one      *)
(* frame it is the best number for that length.                             *)
THEOREM SubframeNumBest ==
  ASSUME NEW load, IsLoad(load), NEW len \in Nat \ {0}, NEW crc \in Nat
  PROVE  LET full   == Full(len, load, crc)
             number == SubframeNum(len, load, crc)
         IN /\ number \in MinSubframes..MaxSubframes
            /\ full > Largest(load) =>
                 \A k \in 1..MaxSubframes :
                   Frames(full, k, load) <= Frames(full, MaxSubframes, load) <=> k >= number
  <1> DEFINE full   == Full(len, load, crc)
             number == SubframeNum(len, load, crc)
             n      == Frames(full, MaxSubframes, load)
  <1>1. full \in Nat /\ Largest(load) \in Nat
    BY FullType, LargestFacts DEF IsLoad
  <1>2. /\ full <= Largest(load) => number = MinSubframes
        /\ ~(full <= Largest(load)) => number = Number(CeilDiv(full, n), load)
    BY DEF SubframeNum, Average
  <1>3. MinSubframes \in MinSubframes..MaxSubframes /\ MaxSubframes = 8 /\ MinSubframes = 3
    BY DEF MinSubframes, MaxSubframes
  <1>4. full <= Largest(load) <=> ~(full > Largest(load))
    BY <1>1
  <1> HIDE DEF full, number
  <1>5. ASSUME full > Largest(load)
        PROVE  /\ n \in Nat \ {0} /\ ~(Frames(full, 2, load) <= n)
               /\ number = Number(CeilDiv(full, n), load)
               /\ number \in Int
    <2>1. n \in Nat \ {0} /\ ~(Frames(full, 2, load) <= n)
      BY <1>1, <1>5, TwoTooFew
    <2>2. number = Number(CeilDiv(full, n), load)
      BY <1>2, <1>4, <1>5
    <2> HIDE DEF n
    <2>3. CeilDiv(full, n) \in Int
      BY <1>1, <2>1, CeilDivFacts
    <2>4. CeilDiv(full, n) - load.first \in Int /\ load.sub \in Nat \ {0}
      BY <2>3 DEF IsLoad
    <2>5. CeilDiv(CeilDiv(full, n) - load.first, load.sub) \in Int
      BY <2>4, CeilDivFacts
    <2> QED
      BY <2>1, <2>2, <2>5 DEF Number
  <1>6. ASSUME full > Largest(load), NEW k \in Nat \ {0}
        PROVE  Frames(full, k, load) <= n <=> number <= k
    BY <1>1, <1>5, <1>6, NumberBest
  <1>7. ASSUME full > Largest(load) PROVE number \in MinSubframes..MaxSubframes
    <2>1. ~(number <= 2)
      BY <1>5, <1>6, <1>7
    <2>2. n <= n
      BY <1>5, <1>7
    <2>3. number <= MaxSubframes
      BY <1>3, <1>6, <1>7, <2>2
    <2> QED
      BY <1>3, <1>5, <1>7, <2>1, <2>3
  <1>8. number \in MinSubframes..MaxSubframes
    BY <1>2, <1>3, <1>4, <1>7
  <1>9. ASSUME full > Largest(load), NEW k \in 1..MaxSubframes
        PROVE  Frames(full, k, load) <= n <=> k >= number
    <2>1. k \in Nat \ {0}
      BY <1>3
    <2> QED
      BY <1>5, <1>6, <1>9, <2>1
  <1> QED
    BY <1>8, <1>9 DEF full, number

(* Counting frames: n of them carry n times what one does. *)
LEMMA FramesFacts ==
  ASSUME NEW load, IsLoad(load), NEW len \in Nat, NEW k \in Nat \ {0}, NEW n \in Int
  PROVE  /\ Frames(len, k, load) \in Int
         /\ Frames(len, k, load) <= n <=> len <= n * Capacity(k, load)
  BY CapacityFacts, CeilDivFacts DEF Frames

(* A length that was halved is half the message, and the checksum.          *)
LEMMA FullFacts ==
  ASSUME NEW load, IsLoad(load), NEW len \in Nat \ {0}, NEW crc \in Nat
  PROVE  LET full == Full(len, load, crc)
         IN /\ full \in Nat
            /\ len > Largest(load) => len <= 2 * full /\ 2 * full <= len + 5
            /\ len <= Largest(load) => len <= full /\ full <= len + 2
  <1>1. Largest(load) \in Nat
    BY LargestFacts DEF IsLoad
  <1>2. CeilDiv(len, 2) \in Nat /\ len <= 2 * CeilDiv(len, 2) /\ 2 * CeilDiv(len, 2) <= len + 1
    BY DEF CeilDiv
  <1> QED
    BY <1>1, <1>2 DEF Full

(* What a number of subframes is worth for the half it is worth for the     *)
(* whole, but for the frame that the rounding of each half costs.           *)
LEMMA LongNear ==
  ASSUME NEW load, IsLoad(load), NEW len \in Nat \ {0}, NEW crc \in Nat,
         NEW k \in Nat \ {0}, Full(len, load, crc) > Largest(load),
         Frames(Full(len, load, crc), k, load)
           <= Frames(Full(len, load, crc), MaxSubframes, load)
  PROVE  Frames(len, k, load) <= Frames(len, MaxSubframes, load) + 2
  <1> DEFINE full == Full(len, load, crc)
             L == Capacity(MaxSubframes, load)
             C == Capacity(k, load)
             n == Frames(full, MaxSubframes, load)
             most == Frames(len, k, load)
             least == Frames(len, MaxSubframes, load)
             p == n * C
             q == (n - 1) * L
             z == (2 * n - 3) * L
  <1>1. MaxSubframes \in Nat \ {0}
    BY DEF MaxSubframes
  <1>2. L \in Nat /\ L >= 8 /\ Largest(load) = L /\ C \in Nat \ {0}
    BY LargestFacts, CapacityFacts DEF IsLoad
  <1>3. /\ full \in Nat
        /\ len > L => len <= 2 * full /\ 2 * full <= len + 5
        /\ len <= L => len <= full /\ full <= len + 2
    BY <1>2, FullFacts
  <1>4. full > L
    BY <1>2
  <1>5. n \in Int /\ most \in Int /\ least \in Int
    BY <1>1, <1>3, FramesFacts
  <1>6. full <= p
    BY <1>3, <1>5, FramesFacts
  <1>7. ~(full <= q)
    <2>1. ~(n <= n - 1) /\ n - 1 \in Int
      BY <1>5
    <2> QED
      BY <1>1, <1>3, <2>1, FramesFacts
  <1>8. p \in Int /\ q \in Int /\ z \in Int
    BY <1>2, <1>5
  <1>9. CASE len > L
    <2>1. most <= 2 * n
      <3>1. (2 * n) * C = 2 * p
        BY <1>2, <1>5
      <3>2. len <= 2 * p
        <4> HIDE DEF p, full, L
        <4> QED
          BY <1>3, <1>6, <1>8, <1>9
      <3> QED
        BY <1>5, <3>1, <3>2, FramesFacts
    <2>2. 2 * n - 3 < least
      <3>1. z = 2 * q - L
        BY <1>2, <1>5
      <3>2. ~(len <= z)
        <4> HIDE DEF q, z, full, L
        <4> QED
          BY <1>2, <1>3, <1>7, <1>8, <1>9, <3>1
      <3>3. 2 * n - 3 \in Int
        BY <1>5
      <3>4. ~(least <= 2 * n - 3)
        BY <1>1, <3>2, <3>3, FramesFacts
      <3> HIDE DEF least, n
      <3> QED
        BY <1>5, <3>3, <3>4
    <2> HIDE DEF most, least, n
    <2>3. most <= least + 2
      BY <1>5, <2>1, <2>2
    <2> QED
      BY <2>3 DEF most, least
  <1>10. CASE len <= L
    <2>1. most <= n
      <3>1. len <= p
        <4> HIDE DEF p, full, L
        <4> QED
          BY <1>3, <1>6, <1>8, <1>10
      <3> QED
        BY <1>5, <3>1, FramesFacts
    <2>2. n <= 2
      <3>1. full <= 2 * L
        <4> HIDE DEF full, L
        <4> QED
          BY <1>2, <1>3, <1>10
      <3> QED
        BY <1>1, <1>3, <3>1, FramesFacts
    <2>3. 0 < least
      <3>1. ~(len <= 0 * L)
        BY <1>2
      <3> QED
        BY <1>1, <1>5, <3>1, FramesFacts
    <2> HIDE DEF most, least, n
    <2>4. most <= least + 2
      BY <1>5, <2>1, <2>2, <2>3
    <2> QED
      BY <2>4 DEF most, least
  <1> QED
    BY <1>2, <1>9, <1>10

(* Three subframes carry more than a seventh of two of the longest frames.  *)
LEMMA ShortNear ==
  ASSUME NEW load, IsLoad(load), NEW len \in Nat \ {0}, NEW crc \in Nat,
         Full(len, load, crc) <= Largest(load)
  PROVE  Frames(len, MinSubframes, load) <= Frames(len, MaxSubframes, load) + 5
  <1> DEFINE L == Capacity(MaxSubframes, load)
             C == Capacity(MinSubframes, load)
             most == Frames(len, MinSubframes, load)
             least == Frames(len, MaxSubframes, load)
  <1>1. MaxSubframes \in Nat \ {0} /\ MinSubframes \in Nat \ {0}
    BY DEF MaxSubframes, MinSubframes
  <1>2. C = 2 * load.sub + load.first
    BY DEF Capacity, MinSubframes, IsLoad
  <1>3. /\ L \in Nat \ {0} /\ C \in Nat /\ Largest(load) = L
        /\ L <= 4 * C /\ 2 * L <= 7 * C
    BY <1>2, LargestFacts DEF IsLoad
  <1>4. most \in Int /\ least \in Int
    BY <1>1, FramesFacts
  <1>5. len > L => len <= 2 * L
    BY <1>3, FullFacts
  <1>6. /\ most <= 4 <=> len <= 4 * C
        /\ most <= 7 <=> len <= 7 * C
        /\ least <= 0 <=> len <= 0 * L
        /\ least <= 1 <=> len <= 1 * L
    BY <1>1, FramesFacts
  <1> HIDE DEF most, least, L, C
  <1>7. most <= least + 5
    BY <1>3, <1>4, <1>5, <1>6
  <1> QED
    BY <1>7 DEF most, least

(* For the whole message the number costs at most two frames more than the  *)
(* longest frames would take, and where its half fits into one frame at     *)
(* most five.                                                               *)
THEOREM SubframeNumNear ==
  ASSUME NEW load, IsLoad(load), NEW len \in Nat \ {0}, NEW crc \in Nat
  PROVE  Frames(len, SubframeNum(len, load, crc), load)
           <= Frames(len, MaxSubframes, load)
                + (IF Full(len, load, crc) > Largest(load) THEN 2 ELSE 5)
  <1> DEFINE full   == Full(len, load, crc)
             number == SubframeNum(len, load, crc)
  <1>1. full \in Nat /\ Largest(load) \in Nat
    BY FullType, LargestFacts DEF IsLoad
  <1>2. CASE full > Largest(load)
    <2>1. /\ number \in 1..MaxSubframes
          /\ Frames(full, number, load) <= Frames(full, MaxSubframes, load)
      <3>1. /\ number \in MinSubframes..MaxSubframes
            /\ \A k \in 1..MaxSubframes :
                 Frames(full, k, load) <= Frames(full, MaxSubframes, load) <=> k >= number
        BY <1>2, SubframeNumBest
      <3> HIDE DEF full, number
      <3>2. number \in 1..MaxSubframes /\ number >= number
        BY <3>1 DEF MinSubframes, MaxSubframes
      <3> QED
        BY <3>1, <3>2
    <2>2. number \in Nat \ {0}
      <3> HIDE DEF number
      <3> QED
        BY <2>1
    <2>3. Frames(len, number, load) <= Frames(len, MaxSubframes, load) + 2
      BY <1>2, <2>1, <2>2, LongNear
    <2> QED
      BY <1>2, <2>3
  <1>3. CASE ~(full > Largest(load))
    <2>1. full <= Largest(load)
      BY <1>1, <1>3
    <2>2. number = MinSubframes
      BY <2>1 DEF SubframeNum
    <2>3. Frames(len, number, load) <= Frames(len, MaxSubframes, load) + 5
      BY <2>1, <2>2, ShortNear
    <2> QED
      BY <1>3, <2>3
  <1> QED
    BY <1>2, <1>3
=============================================================================
