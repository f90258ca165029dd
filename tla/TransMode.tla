------------------------------ MODULE TransMode ------------------------------
(***************************************************************************)
(* The transparent transmission of AT+WIOTATRANS (at_wiotatrans_process in *)
(* PS/at/at_wiota.c).  The AT thread reads characters into a buffer of     *)
(* WIOTA_TRANS_BUFF characters; CR LF ends a message, which is sent, and a *)
(* message that ends with the end string leaves the mode.  A message that  *)
(* is too long is thrown away, with everything that follows it without a   *)
(* silence of 200 ms; an end string at its end is thrown away with it and  *)
(* does not leave the mode.                                                *)
(***************************************************************************)
EXTENDS Naturals, Sequences

CONSTANTS
  Chars,      \* what a host types
  CR, LF,
  EndString,  \* strEnd: WIOTA_TRANS_END_STRING, or the host's own
  MaxLen,     \* WIOTA_TRANS_MAX_LEN
  EndMax,     \* WIOTA_TRANS_END_STRING_MAX
  CrcLen,     \* CRC16_LEN
  MaxTyped    \* bound: characters typed in a behaviour

ASSUME TransAssumption ==
  /\ CR \in Chars /\ LF \in Chars /\ CR # LF
  /\ EndString \in Seq(Chars \ {CR, LF})
  /\ Len(EndString) \in 1..EndMax
  /\ MaxLen \in Nat \ {0}
  /\ EndMax \in Nat
  /\ CrcLen \in Nat \ {0, 1}  \* the room for two more characters that pBuff relies on
  /\ MaxTyped \in Nat

BuffSize == MaxLen + EndMax + CrcLen + 1

VARIABLES
  mode,   \* "at", "trans", or throwing characters away: "tooLong", "leaving"
  buf,    \* the nSeekRx characters at the start of pBuff
  sent,   \* the messages given to uc_wiota_send_data, in order
  lines,  \* the characters read in complete lines that were not thrown away
  typed   \* characters read so far

vars == <<mode, buf, sent, lines, typed>>

Init ==
  /\ mode = "at"
  /\ buf = <<>>
  /\ sent = <<>>
  /\ lines = <<>>
  /\ typed = 0

EndsWith(s, t) ==
  /\ Len(s) >= Len(t)
  /\ SubSeq(s, Len(s) - Len(t) + 1, Len(s)) = t

Chop(s, n) == SubSeq(s, 1, Len(s) - n)

(* AT+WIOTATRANS on a running stack; without the memory for pBuff the       *)
(* command fails.                                                           *)
Enter ==
  /\ mode = "at"
  /\ mode' = "trans"
  /\ sent' = <<>>
  /\ lines' = <<>>
  /\ UNCHANGED <<buf, typed>>

(* Mutant: a line shorter than the end string is not looked at. *)
BreakEnd(s) == Len(s) > Len(EndString) + 2 /\ EndsWith(s, <<CR, LF>>)

(* Mutant: any LF ends a line. *)
BreakLf(s) == Len(s) > 2 /\ EndsWith(s, <<LF>>)

(* nSeekRx > 2: a CR LF that nothing precedes does not end a line.          *)
Break(s) == Len(s) > 2 /\ EndsWith(s, <<CR, LF>>)

(* Mutant: only the last character of the end string is compared. *)
LeavesLast(s) ==
  Break(s) /\ EndsWith(Chop(s, 2), SubSeq(EndString, Len(EndString), Len(EndString)))

Leaves(s) == Break(s) /\ EndsWith(Chop(s, 2), EndString)

(* What is left of the characters read when the line break and the end      *)
(* string are cut off.                                                      *)
Message(s) ==
  IF Leaves(s) THEN Chop(s, 2 + Len(EndString)) ELSE IF Break(s) THEN Chop(s, 2) ELSE s

(* Mutant: only a complete line is measured. *)
TooLongLine(s) == Break(s) /\ Len(Message(s)) > MaxLen

(* Mutant: one character more is let through. *)
TooLongLate(s) ==
  \/ Len(Message(s)) > MaxLen + Len(EndString) + 2
  \/ Break(s) /\ Len(Message(s)) > MaxLen + 1

TooLong(s) ==
  \/ Len(Message(s)) > MaxLen + Len(EndString) + 2
  \/ Break(s) /\ Len(Message(s)) > MaxLen

(* Mutant: an empty message is sent too. *)
SendEmpty(m) == sent' = Append(sent, m)

Send(m) == sent' = IF m = <<>> THEN sent ELSE Append(sent, m)

(* One pass of the loop, with the character that get_char returned. *)
Read(c) ==
  LET got == Append(buf, c) IN
  /\ mode = "trans"
  /\ typed < MaxTyped
  /\ typed' = typed + 1
  /\ \/ /\ TooLong(got)
        /\ mode' = "tooLong"
        /\ buf' = <<>>
        /\ UNCHANGED <<sent, lines>>
     \/ /\ ~TooLong(got) /\ Break(got)
        /\ mode' = IF Leaves(got) THEN "leaving" ELSE "trans"
        /\ buf' = <<>>
        /\ Send(Message(got))
        /\ lines' = lines \o got
     \/ /\ ~TooLong(got) /\ ~Break(got)
        /\ buf' = got
        /\ UNCHANGED <<mode, sent, lines>>

(* The loops that read until 200 ms pass without a character. *)
ThrowAway ==
  /\ mode \in {"tooLong", "leaving"}
  /\ typed < MaxTyped
  /\ typed' = typed + 1
  /\ UNCHANGED <<mode, buf, sent, lines>>

Silence ==
  /\ \/ mode = "tooLong" /\ mode' = "trans"
     \/ mode = "leaving" /\ mode' = "at"
  /\ UNCHANGED <<buf, sent, lines, typed>>

Next == Enter \/ (\E c \in Chars : Read(c)) \/ ThrowAway \/ Silence

Spec == Init /\ [][Next]_vars

-----------------------------------------------------------------------------
(* Type correctness; no message is empty. *)
TypeOK ==
  /\ mode \in {"at", "trans", "tooLong", "leaving"}
  /\ buf \in Seq(Chars)
  /\ sent \in Seq(Seq(Chars) \ {<<>>})
  /\ lines \in Seq(Chars)
  /\ typed \in 0..MaxTyped

(* The next character is written inside pBuff, whatever the host types and  *)
(* whatever end string it chose: &pBuff[nSeekRx] of get_char_timeout.       *)
WritesInside == Len(buf) < BuffSize

(* uc_wiota_send_data gets no message of more than WIOTA_TRANS_MAX_LEN       *)
(* characters.                                                              *)
SentFits == \A k \in 1..Len(sent) : Len(sent[k]) <= MaxLen

(* No line break is swallowed: only the characters that begin a message can *)
(* be CR LF.                                                                *)
Unbroken(m)   == \A k \in 2..Len(m) - 1 : ~(m[k] = CR /\ m[k+1] = LF)
SentUnbroken  == \A k \in 1..Len(sent) : Unbroken(sent[k])

(* Nothing typed in a complete line that was not thrown away is lost,       *)
(* invented, repeated or reordered: the messages, each with the line break  *)
(* (and the last with the end string) that ended it, are those lines.  An   *)
(* end string on a line of its own sends nothing.                           *)
Rejoined[k \in 0..Len(sent)] ==
  IF k = 0 THEN <<>> ELSE Rejoined[k-1] \o sent[k] \o <<CR, LF>>
NothingLost ==
  \/ lines = Rejoined[Len(sent)]
  \/ /\ mode \in {"leaving", "at"}
     /\ \/ lines = Rejoined[Len(sent)] \o EndString \o <<CR, LF>>
        \/ /\ sent # <<>>
           /\ lines = Rejoined[Len(sent) - 1] \o sent[Len(sent)] \o EndString \o <<CR, LF>>

(* The mode is left by a line that ends with the end string and by nothing  *)
(* else, and such a line always leaves it, unless it is so long that it is  *)
(* thrown away: that one never does (nRun is set again), and the host must  *)
(* type the end string once more.                                           *)
LeavesOnEnd ==
  mode \in {"trans", "leaving"} =>
    (mode = "leaving" <=> EndsWith(lines, EndString \o <<CR, LF>>))
=============================================================================
