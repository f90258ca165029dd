---------------------------- MODULE AtSimplified ----------------------------
(***************************************************************************)
(* The simplified AT commands (PS/at_simplified/at_simplified.c).  The     *)
(* module keeps its own copy of every setting in at_simplified_local; a    *)
(* setting is either handed to the running protocol stack or, where the    *)
(* stack cannot take it while it runs, the stack is restarted and given    *)
(* all of them again (at_wiota_run).  AT handlers run to completion in the *)
(* AT thread, so a command is one action.  AT+SEND hands a message to the  *)
(* stack, compressed if that makes it shorter, and marked so that the peer *)
(* knows (at_wiota_recv_callback).                                         *)
(*                                                                         *)
(* Frequencies and bandwidths are counted in steps of a grid on which both *)
(* lie; the tables FREQ_RANGES and the bandwidths of at_get_bw_value are   *)
(* constants.                                                              *)
(***************************************************************************)
EXTENDS Integers, Sequences, Subframe

CONSTANTS
  Requests,     \* frequencies a host asks for
  Ranges,       \* FREQ_RANGES: spectrum index -> <<lowest, highest>>
  Width,        \* at_get_bw_value: bandwidth level -> width
  Addrs, Subs, Powers,    \* the values of AT+ADDR, AT+SYNC and AT+POWER
  DefaultSub, DefaultPower, DefaultFreq, DefaultBw,
  Static,       \* the configuration uc_wiota_init loads
  GarbageIds,   \* what at_get_max_awaken_id may find outside its tables
  Texts,        \* the lengths a host asks to send
  Sizes,        \* the lengths fastlz_compress may make of a message
  Load,         \* uc_wiota_get_subframe_data_len: mcs -> cast -> bytes
  CrcLimit      \* uc_wiota_get_crc

(* RATE_MODE_MAP, one row per rate mode, and the limits of id_max_array.    *)
Symbol == <<0, 0, 1, 1, 1, 1, 2, 3>>
Mcs    == <<3, 2, 3, 2, 1, 0, 0, 0>>
IdMax(symbol) == <<1023, 4095, 16383, 65535>>[symbol + 1]
Rates  == 1..8
DefaultRate == 4

WordMax == 65535      \* an id is an unsigned short
Word    == 0..WordMax

(* The bytes of a message, of which its sender's address takes the first.   *)
Limit(cast) == IF cast = "broadcast" THEN 1021 ELSE 310
Header      == 4
Cast(dest)  == IF dest = 0 THEN "broadcast" ELSE "unicast"

VARIABLES
  local,   \* at_simplified_local
  config,  \* what the running stack has been told
  ids,     \* the wake-up ids the last command has given to the stack
  reply,   \* "OK" or "FAIL": the answer to the last command
  mark,    \* the stack's flag uc_wiota_set_data_compress_for_send
  air      \* the message the last command has handed to the stack, if any

vars == <<local, config, ids, reply, mark, air>>

(* at_get_base_freq_and_spectrum_idx: the last range that holds f, and f    *)
(* rounded down to a multiple of the bandwidth.                             *)
Holding(f)    == {s \in DOMAIN Ranges : Ranges[s][1] <= f /\ f <= Ranges[s][2]}
IsLast(s, S)  == s \in S /\ \A t \in S : t <= s
SpectrumOf(f) == CHOOSE s \in Holding(f) : IsLast(s, Holding(f))

ASSUME TablesAssumption ==
  /\ \A s \in DOMAIN Ranges : Ranges[s][1] \in Nat /\ Ranges[s][2] \in Nat
  /\ \A level \in DOMAIN Width : Width[level] \in Nat \ {0}

ASSUME RequestsAssumption ==
  \A f \in Requests \cup {DefaultFreq} :
    f \in Nat /\ (Holding(f) # {} => \E s \in Holding(f) : IsLast(s, Holding(f)))

(* at_simplified_init asserts that it finds a range for the first frequency. *)
ASSUME DefaultsAssumption == Holding(DefaultFreq) # {} /\ DefaultBw \in DOMAIN Width

ASSUME IdsAssumption == Addrs \cup {Static.userid} \subseteq Nat /\ GarbageIds \subseteq Word

ASSUME MessagesAssumption ==
  /\ Texts \subseteq Nat /\ Sizes \subseteq Nat \ {0} /\ CrcLimit \in Nat
  /\ \A mcs \in 0..3, cast \in {"broadcast", "unicast"} :
       /\ Load[mcs][cast].first \in Nat \ {0} /\ Load[mcs][cast].sub \in Nat
       /\ Load[mcs][cast].first <= Load[mcs][cast].sub

(* Mutant: the frequency is taken as it is. *)
AlignNot(f, base, width) == f

(* Mutant: the frequency is rounded up. *)
AlignUp(f, base, width) == base + ((f - base + width - 1) \div width) * width

Align(f, base, width) == base + ((f - base) \div width) * width

(* WIOTA_FREQUENCE_INDEX. *)
Index(f, base, width) == (f - base) \div width

(* Mutant: the subsystem id is left to the static data. *)
RunConfigForgetful(l) ==
  [ symbol   |-> Symbol[l.rate],
    spectrum |-> l.spectrum,
    freqIdx  |-> Index(l.cur, l.base, Width[l.bw]),
    bw       |-> l.bw,
    sub      |-> Static.sub,
    userid   |-> l.addr,
    power    |-> l.power,
    mcs      |-> Mcs[l.rate] ]

(* What at_wiota_run leaves the stack with: it exits without saving, is     *)
(* initialised again and is given every setting of the local copy.          *)
RunConfig(l) ==
  [ symbol   |-> Symbol[l.rate],
    spectrum |-> l.spectrum,
    freqIdx  |-> Index(l.cur, l.base, Width[l.bw]),
    bw       |-> l.bw,
    sub      |-> l.sub,
    userid   |-> l.addr,
    power    |-> l.power,
    mcs      |-> Mcs[l.rate] ]

Run(l) == config' = RunConfig(l)

(* at_simplified_init, up to and including at_wiota_run. *)
FreshLocal ==
  LET spectrum == SpectrumOf(DefaultFreq)
      base     == Ranges[spectrum][1]
  IN [ addr |-> Static.userid, sub |-> DefaultSub, power |-> DefaultPower,
       rate |-> DefaultRate, bw |-> DefaultBw, spectrum |-> spectrum,
       base |-> base, cur |-> Align(DefaultFreq, base, Width[DefaultBw]) ]

Init ==
  /\ local = FreshLocal
  /\ config = RunConfig(FreshLocal)
  /\ ids = {}
  /\ reply = "OK"
  /\ mark = FALSE
  /\ air = {}

-----------------------------------------------------------------------------
Answer(r) == reply' = r /\ ids' = {}

(* A value that the stack takes while it runs: nothing happens if it is the *)
(* one already set, and the local copy changes only if the stack took it.   *)
Give(field, told, value) ==
  \/ /\ local[field] = value
     /\ Answer("OK")
     /\ UNCHANGED <<local, config>>
  \/ /\ local[field] # value
     /\ Answer("OK")
     /\ local' = [local EXCEPT ![field] = value]
     /\ config' = [config EXCEPT ![told] = value]
  \/ /\ local[field] # value
     /\ Answer("FAIL")
     /\ UNCHANGED <<local, config>>

(* Mutant: the local copy is written before the stack is asked. *)
SetPowerEarly(power) ==
  /\ local' = [local EXCEPT !.power = power]
  /\ \/ Answer("OK") /\ config' = [config EXCEPT !.power = power]
     \/ Answer("FAIL") /\ UNCHANGED config

SetPower(power) == Give("power", "power", power)

SetAddr(addr) == Give("addr", "userid", addr)

SetSub(sub) == Give("sub", "sub", sub)

(* AT+FREQ.  In the range in use the stack is told the new index, which it  *)
(* may refuse; another range needs a restart.                               *)
SetFreq(f) ==
  \/ /\ Holding(f) = {}
     /\ Answer("FAIL")
     /\ UNCHANGED <<local, config>>
  \/ /\ Holding(f) # {}
     /\ LET spectrum == SpectrumOf(f)
            base     == Ranges[spectrum][1]
            cur      == Align(f, base, Width[local.bw])
            new      == [local EXCEPT !.spectrum = spectrum, !.base = base, !.cur = cur]
        IN
        \/ /\ new = local
           /\ Answer("OK")
           /\ UNCHANGED <<local, config>>
        \/ /\ new # local /\ spectrum = local.spectrum
           /\ Answer("OK")
           /\ local' = new
           /\ config' = [config EXCEPT !.freqIdx = Index(cur, base, Width[local.bw])]
        \/ /\ new # local /\ spectrum = local.spectrum
           /\ Answer("FAIL")
           /\ UNCHANGED <<local, config>>
        \/ /\ spectrum # local.spectrum
           /\ Answer("OK")
           /\ local' = new
           /\ Run(new)

(* AT+BW and AT+RATE always restart the stack. *)
Restart(new) ==
  /\ Answer("OK")
  /\ local' = new
  /\ IF new = local THEN UNCHANGED config ELSE Run(new)

SetBandwidth(level) == Restart([local EXCEPT !.bw = level])
SetRate(rate)       == Restart([local EXCEPT !.rate = rate])

(* at_get_max_awaken_id.  Rows are numbered from 1 here and from 0 in the   *)
(* code, which uses the rate mode itself as the row: that is the next       *)
(* mode's row, and for the last mode one that does not exist.               *)
MaxIds(rate) == IF rate + 1 \in Rates THEN {IdMax(Symbol[rate + 1])} ELSE GarbageIds

(* The wake-up id of one address: an unsigned remainder, cut to 16 bits.    *)
AwakenId(addr, max) == IF max < 2 THEN addr % (WordMax + 1) ELSE addr % (max - 1)

(* AT+SLEEP.  A mode or a time out of range is refused.  The chip starts    *)
(* afresh when it wakes up; a sleep that does not succeed returns.  In      *)
(* radio wake-up mode the stack is given the ids this device wakes up for.  *)
Sleep ==
  \/ Answer("FAIL") /\ UNCHANGED <<local, config>>
  \/ /\ reply' = "OK"
     /\ \/ ids' = {}
        \/ \E max \in MaxIds(local.rate) :
             ids' = {AwakenId(config.userid, max), max}
     /\ \/ UNCHANGED <<local, config>>
        \/ local' = FreshLocal /\ Run(FreshLocal)

(* AT+WAKEUP: the id that is sent, to one address or (0) to everyone.  A    *)
(* time out of range is refused first.                                      *)
WakeUp(addr) ==
  /\ \/ Answer("FAIL")
     \/ /\ reply' \in {"OK", "FAIL"}
        /\ \E max \in MaxIds(local.rate) :
             ids' = IF addr = 0 THEN {max} ELSE {AwakenId(addr, max)}
  /\ UNCHANGED <<local, config>>

(* Mutant: the flag is set where a message is compressed, and never reset.  *)
MarkOnce(packed) == packed \/ mark

(* What the stack's flag is set to, before every message.                   *)
Mark(packed) == packed

(* What the stack sends for a text of len bytes that became size bytes: it  *)
(* marks the message by its flag.                                           *)
Message(dest, len, size, flag) ==
  LET packed == size < Header + len
      load   == Load[config.mcs][Cast(dest)]
  IN [ from |-> config.userid, text |-> len, size |-> size, load |-> load,
       packed |-> packed, marked |-> flag,
       number |-> SubframeNum(size, load, CrcLimit) ]

(* AT+SEND.  A length out of range is refused; a full heap or a host that   *)
(* stops typing for ten seconds ends the command; else the message is sent, *)
(* with success or not.  (wiota_app_subframe accepts every length that      *)
(* comes this far.)                                                         *)
Send(dest, len) ==
  \/ /\ Answer("FAIL")
     /\ air' = {}
     /\ UNCHANGED <<local, config, mark>>
  \/ /\ len \in 1 .. Limit(Cast(dest)) - Header
     /\ \E size \in Sizes \cup {Header + len} :
          /\ size <= Header + len
          /\ mark' = Mark(size < Header + len)
          /\ air' = {Message(dest, len, size, mark')}
     /\ \/ Answer("OK") \/ Answer("FAIL")
     /\ UNCHANGED <<local, config>>

(* What the peer's at_wiota_recv_callback prints: sender and text, if the   *)
(* flag told it right whether to decompress.                                *)
Printed(message) ==
  IF message.marked = message.packed THEN <<message.from, message.text>> ELSE <<>>

Settings ==
  \/ \E power \in Powers : SetPower(power)
  \/ \E addr \in Addrs : SetAddr(addr) \/ WakeUp(addr)
  \/ \E sub \in Subs : SetSub(sub)
  \/ \E f \in Requests : SetFreq(f)
  \/ \E level \in DOMAIN Width : SetBandwidth(level)
  \/ \E rate \in Rates : SetRate(rate)
  \/ Sleep \/ WakeUp(0)

Next ==
  \/ Settings /\ air' = {} /\ mark' \in {mark, FALSE}
  \/ \E dest \in Addrs \cup {0}, len \in Texts : Send(dest, len)

Spec == Init /\ [][Next]_vars

-----------------------------------------------------------------------------
Loads == {Load[mcs][cast] : mcs \in 0..3, cast \in {"broadcast", "unicast"}}

(* Type correctness: the settings are ones the commands accept, and the     *)
(* current frequency lies in the range it was found in.                     *)
TypeOK ==
  /\ local \in [ addr : Addrs \cup {Static.userid}, sub : Subs \cup {DefaultSub},
                 power : Powers \cup {DefaultPower}, rate : Rates, bw : DOMAIN Width,
                 spectrum : DOMAIN Ranges, base : Nat, cur : Nat ]
  /\ local.base = Ranges[local.spectrum][1]
  /\ local.cur \in local.base .. Ranges[local.spectrum][2]
  /\ config \in [ userid : Addrs \cup {Static.userid}, sub : Subs \cup {DefaultSub},
                  power : Powers \cup {DefaultPower}, bw : DOMAIN Width,
                  spectrum : DOMAIN Ranges, freqIdx : Nat, symbol : 0..3, mcs : 0..3 ]
  /\ ids \subseteq Word
  /\ reply \in {"OK", "FAIL"}
  /\ mark \in BOOLEAN
  /\ air \subseteq [ from : Addrs \cup {Static.userid}, text : Texts,
                    size : Nat \ {0}, load : Loads,
                    packed : BOOLEAN, marked : BOOLEAN, number : Int ]

(* What AT+POWER?, AT+SYNC?, AT+BW?, AT+RATE? and AT+FREQ? answer from the  *)
(* local copy is what the stack runs with, through every restart.           *)
StackMatches ==
  /\ config.power = local.power
  /\ config.userid = local.addr
  /\ config.sub = local.sub
  /\ config.bw = local.bw
  /\ config.spectrum = local.spectrum
  /\ config.symbol = Symbol[local.rate]
  /\ config.mcs = Mcs[local.rate]
  /\ config.freqIdx = Index(local.cur, local.base, Width[local.bw])

(* A setting the stack refuses leaves no trace: neither the local copy nor  *)
(* the stack has changed when the command fails.                            *)
FailedChangesNothing == [][reply' = "FAIL" => UNCHANGED <<local, config>>]_vars

(* Whenever AT+FREQ changes the frequency, the one it reports is the one    *)
(* transmitted: it is a whole number of bandwidths above the base.          *)
OnGrid       == local.base + config.freqIdx * Width[config.bw] = local.cur
FreqRealised == [][local'.cur # local.cur => OnGrid']_vars

(* Whatever was sent before, compressed or not, and whatever became of the  *)
(* stack's flag since, a message goes out with the flag that is true of it: *)
(* the peer prints this device's address and the text typed.                *)
PeerReads == \A message \in air : Printed(message) = <<local.addr, message.text>>

(* The length the number of subframes is chosen for (of a long message one  *)
(* half) takes the fewest frames possible with that number and any larger   *)
(* one, unless it fits into one frame.                                      *)
HalfBest(message) ==
  LET half == Full(message.size, message.load, CrcLimit)
  IN half > Largest(message.load) =>
       \A k \in 1..MaxSubframes :
         Frames(half, k, message.load) <= Frames(half, MaxSubframes, message.load)
           <=> k >= message.number

(* The whole message takes at most two frames more than the longest frames  *)
(* would need, though the number was chosen for a half; where one half      *)
(* would fit into a frame, at most five more.                               *)
NearBest(message) ==
  Frames(message.size, message.number, message.load)
    <= Frames(message.size, MaxSubframes, message.load)
         + (IF Full(message.size, message.load, CrcLimit) > Largest(message.load)
            THEN 2 ELSE 5)

(* The number of subframes is one the stack accepts, the best for the       *)
(* length it is chosen for, and near the best for every message sent.       *)
SubframesFit ==
  \A message \in air :
    message.number \in MinSubframes..MaxSubframes /\ HalfBest(message) /\ NearBest(message)

(* A wake-up id is one the symbol length in use has room for                *)
(* (uc_wiota_get_awaken_id_limit).                                          *)
AwakenIdFits == \A id \in ids : id <= IdMax(config.symbol)
=============================================================================
