------------------------- MODULE AtSimplifiedProofs -------------------------
(***************************************************************************)
(* Proofs about the simplified AT commands for every table of frequency    *)
(* ranges and bandwidths and every set of settings.                        *)
(***************************************************************************)
EXTENDS AtSimplified, SubframeProofs, TLAPS

(* Rounding down to the grid. *)
LEMMA AlignFacts ==
  ASSUME NEW f \in Nat, NEW base \in Nat, base <= f, NEW w \in Nat \ {0}
  PROVE  /\ Align(f, base, w) \in Nat
         /\ Align(f, base, w) \in base..f
         /\ Index(f, base, w) \in Nat
         /\ base + Index(Align(f, base, w), base, w) * w = Align(f, base, w)
  <1> DEFINE q == (f - base) \div w
             p == q * w
  <1>1. q \in Nat /\ q * w <= f - base
    OBVIOUS
  <1>2. (q * w) \div w = q
    BY <1>1
  <1>3. Align(f, base, w) = base + p /\ Index(f, base, w) = q
    BY DEF Align, Index
  <1> HIDE DEF q
  <1>4. p \in Nat
    BY <1>1
  <1>5. p <= f - base /\ p \div w = q
    BY <1>1, <1>2
  <1>6. q * w = p
    OBVIOUS
  <1> HIDE DEF p
  <1>7. (base + p) - base = p
    BY <1>4
  <1>8. Index(Align(f, base, w), base, w) = q
    BY <1>3, <1>5, <1>7 DEF Index
  <1>9. base + p \in Nat /\ base + p \in base..f
    BY <1>4, <1>5
  <1>10. base + Index(Align(f, base, w), base, w) * w = base + p
    BY <1>6, <1>8
  <1> QED
    BY <1>1, <1>3, <1>9, <1>10

LEMMA RangeType ==
  ASSUME NEW s \in DOMAIN Ranges
  PROVE  Ranges[s][1] \in Nat /\ Ranges[s][2] \in Nat
  BY TablesAssumption

(* The range a frequency is found in holds it. *)
LEMMA SpectrumFacts ==
  ASSUME NEW f \in Requests \cup {DefaultFreq}, Holding(f) # {}
  PROVE  /\ SpectrumOf(f) \in DOMAIN Ranges
         /\ Ranges[SpectrumOf(f)][1] \in Nat /\ Ranges[SpectrumOf(f)][2] \in Nat
         /\ Ranges[SpectrumOf(f)][1] <= f /\ f <= Ranges[SpectrumOf(f)][2]
  <1>1. \E s \in Holding(f) : IsLast(s, Holding(f))
    BY RequestsAssumption
  <1>2. SpectrumOf(f) \in Holding(f)
    BY <1>1 DEF SpectrumOf
  <1>3. SpectrumOf(f) \in DOMAIN Ranges
        /\ Ranges[SpectrumOf(f)][1] <= f /\ f <= Ranges[SpectrumOf(f)][2]
    BY <1>2 DEF Holding
  <1> QED
    BY <1>3, RangeType

LocalOK(l) ==
  /\ l \in [ addr : Addrs \cup {Static.userid}, sub : Subs \cup {DefaultSub},
             power : Powers \cup {DefaultPower}, rate : Rates, bw : DOMAIN Width,
             spectrum : DOMAIN Ranges, base : Nat, cur : Nat ]
  /\ l.base = Ranges[l.spectrum][1]
  /\ l.cur \in l.base .. Ranges[l.spectrum][2]

ConfigType ==
  [ userid : Addrs \cup {Static.userid}, sub : Subs \cup {DefaultSub},
    power : Powers \cup {DefaultPower}, bw : DOMAIN Width,
    spectrum : DOMAIN Ranges, freqIdx : Nat, symbol : 0..3, mcs : 0..3 ]

(* What is kept together: both copies are well formed and agree.            *)
Copies(l, c) ==
  /\ LocalOK(l)
  /\ c \in ConfigType
  /\ c.power = l.power
  /\ c.userid = l.addr
  /\ c.sub = l.sub
  /\ c.bw = l.bw
  /\ c.spectrum = l.spectrum
  /\ c.symbol = Symbol[l.rate]
  /\ c.mcs = Mcs[l.rate]
  /\ c.freqIdx = Index(l.cur, l.base, Width[l.bw])

(* The frequency index is a natural number for every well-formed copy.      *)
LEMMA IndexType ==
  ASSUME NEW l, LocalOK(l)
  PROVE  Index(l.cur, l.base, Width[l.bw]) \in Nat
  <1>1. l.bw \in DOMAIN Width /\ l.cur \in Nat /\ l.base \in Nat
        /\ l.spectrum \in DOMAIN Ranges
    BY DEF LocalOK
  <1>2. /\ Ranges[l.spectrum][1] \in Nat /\ Ranges[l.spectrum][2] \in Nat
        /\ Width[l.bw] \in Nat \ {0}
    BY <1>1, TablesAssumption
  <1>3. l.base <= l.cur
    BY <1>1, <1>2 DEF LocalOK
  <1> QED
    BY <1>1, <1>2, <1>3, AlignFacts

LEMMA TableTypes ==
  ASSUME NEW rate \in Rates
  PROVE  Symbol[rate] \in 0..3 /\ Mcs[rate] \in 0..3
  BY DEF Rates, Symbol, Mcs

(* at_wiota_run makes the stack agree with whatever the local copy says.    *)
LEMMA RunAgrees ==
  ASSUME NEW l, LocalOK(l), Run(l)
  PROVE  Copies(l, config')
  <1>1. Index(l.cur, l.base, Width[l.bw]) \in Nat
    BY IndexType
  <1>2. /\ l.rate \in Rates /\ l.bw \in DOMAIN Width /\ l.spectrum \in DOMAIN Ranges
        /\ l.addr \in Addrs \cup {Static.userid} /\ l.sub \in Subs \cup {DefaultSub}
        /\ l.power \in Powers \cup {DefaultPower}
    BY DEF LocalOK
  <1>3. Symbol[l.rate] \in 0..3 /\ Mcs[l.rate] \in 0..3
    BY <1>2, TableTypes
  <1>4. config' \in ConfigType
    BY <1>1, <1>2, <1>3 DEF Run, RunConfig, ConfigType
  <1> QED
    BY <1>4 DEF Run, RunConfig, Copies

(* AT+FREQ leaves a well-formed local copy, on the grid of its bandwidth.   *)
Tuned(l, f) ==
  LET spectrum == SpectrumOf(f)
      base     == Ranges[spectrum][1]
  IN [l EXCEPT !.spectrum = spectrum, !.base = base, !.cur = Align(f, base, Width[l.bw])]

LEMMA FreqLocal ==
  ASSUME NEW f \in Requests, Holding(f) # {}, NEW l, LocalOK(l)
  PROVE  /\ LocalOK(Tuned(l, f))
         /\ Tuned(l, f).base
              + Index(Tuned(l, f).cur, Tuned(l, f).base, Width[l.bw]) * Width[l.bw]
              = Tuned(l, f).cur
  <1> DEFINE spectrum == SpectrumOf(f)
             base     == Ranges[spectrum][1]
             cur      == Align(f, base, Width[l.bw])
             new      == Tuned(l, f)
  <1>1. /\ spectrum \in DOMAIN Ranges /\ base \in Nat /\ Ranges[spectrum][2] \in Nat
        /\ base <= f /\ f <= Ranges[spectrum][2]
    BY SpectrumFacts
  <1>2. Width[l.bw] \in Nat \ {0} /\ f \in Nat
    BY TablesAssumption, RequestsAssumption DEF LocalOK
  <1>3. /\ new = [l EXCEPT !.spectrum = spectrum, !.base = base, !.cur = cur]
        /\ base = Ranges[spectrum][1]
    BY DEF Tuned
  <1>4. cur = Align(f, base, Width[l.bw])
    OBVIOUS
  <1> HIDE DEF spectrum, base, new, cur
  <1>5. cur \in Nat /\ cur \in base..f
        /\ base + Index(cur, base, Width[l.bw]) * Width[l.bw] = cur
    BY <1>1, <1>2, <1>4, AlignFacts
  <1>6. cur \in base..Ranges[spectrum][2]
    BY <1>1, <1>2, <1>5
  <1>7. new.spectrum = spectrum /\ new.base = base /\ new.cur = cur /\ new.bw = l.bw
    BY <1>3 DEF LocalOK
  <1>8. new \in [ addr : Addrs \cup {Static.userid}, sub : Subs \cup {DefaultSub},
                  power : Powers \cup {DefaultPower}, rate : Rates, bw : DOMAIN Width,
                  spectrum : DOMAIN Ranges, base : Nat, cur : Nat ]
    BY <1>1, <1>3, <1>5 DEF LocalOK
  <1>9. LocalOK(new)
    BY <1>3, <1>6, <1>7, <1>8 DEF LocalOK
  <1>10. new.base + Index(new.cur, new.base, Width[l.bw]) * Width[l.bw] = new.cur
    BY <1>5, <1>7
  <1> QED
    BY <1>9, <1>10 DEF new

(***************************************************************************)
(* The two copies.                                                         *)
(***************************************************************************)
Inv == Copies(local, config)

(* The settings a device starts with. *)
LEMMA FreshFacts ==
  /\ LocalOK(FreshLocal)
  /\ FreshLocal.base
       + Index(FreshLocal.cur, FreshLocal.base, Width[FreshLocal.bw]) * Width[FreshLocal.bw]
       = FreshLocal.cur
  <1> DEFINE spectrum == SpectrumOf(DefaultFreq)
             base     == Ranges[spectrum][1]
             cur      == Align(DefaultFreq, base, Width[DefaultBw])
             new      == FreshLocal
  <1>1. /\ spectrum \in DOMAIN Ranges /\ base \in Nat /\ Ranges[spectrum][2] \in Nat
        /\ base <= DefaultFreq /\ DefaultFreq <= Ranges[spectrum][2]
    BY SpectrumFacts, DefaultsAssumption
  <1>2. Width[DefaultBw] \in Nat \ {0} /\ DefaultFreq \in Nat /\ DefaultBw \in DOMAIN Width
    BY TablesAssumption, RequestsAssumption, DefaultsAssumption
  <1>3. base = Ranges[spectrum][1] /\ cur = Align(DefaultFreq, base, Width[DefaultBw])
    OBVIOUS
  <1>4. new = [ addr |-> Static.userid, sub |-> DefaultSub, power |-> DefaultPower,
                rate |-> DefaultRate, bw |-> DefaultBw,
                spectrum |-> spectrum, base |-> base, cur |-> cur ]
    BY DEF FreshLocal
  <1> HIDE DEF spectrum, base, cur, new
  <1>5. cur \in Nat /\ cur \in base..DefaultFreq
        /\ base + Index(cur, base, Width[DefaultBw]) * Width[DefaultBw] = cur
    BY <1>1, <1>2, <1>3, AlignFacts
  <1>6. LocalOK(new)
    <2>1. cur \in base..Ranges[spectrum][2]
      BY <1>1, <1>2, <1>5
    <2>2. DefaultRate \in Rates
      BY DEF DefaultRate, Rates
    <2> QED
      BY <1>1, <1>2, <1>3, <1>4, <1>5, <2>1, <2>2 DEF LocalOK
  <1>7. new.base + Index(new.cur, new.base, Width[new.bw]) * Width[new.bw] = new.cur
    BY <1>4, <1>5
  <1> QED
    BY <1>6, <1>7 DEF new

LEMMA InitCopies == Init => Inv
  <1> SUFFICES ASSUME Init PROVE Copies(local, config)
    BY DEF Inv
  <1>1. LocalOK(local) /\ config = RunConfig(local)
    BY FreshFacts DEF Init
  <1>2. config \in ConfigType
    <2>1. Index(local.cur, local.base, Width[local.bw]) \in Nat
      BY <1>1, IndexType
    <2>2. Symbol[local.rate] \in 0..3 /\ Mcs[local.rate] \in 0..3
      BY <1>1, TableTypes DEF LocalOK
    <2> QED
      BY <1>1, <2>1, <2>2 DEF RunConfig, ConfigType, LocalOK
  <1> QED
    BY <1>1, <1>2 DEF Copies, RunConfig

(* A value that a running stack takes changes both copies or neither.       *)
LEMMA GiveCopies ==
  ASSUME Inv,
         \/ \E v \in Powers : Give("power", "power", v)
         \/ \E v \in Addrs : Give("addr", "userid", v)
         \/ \E v \in Subs : Give("sub", "sub", v)
  PROVE  Inv'
  <1> USE DEF Inv
  <1>1. ASSUME NEW v \in Powers, Give("power", "power", v) PROVE Inv'
    <2>1. CASE UNCHANGED <<local, config>>
      BY <2>1 DEF Copies, LocalOK
    <2>2. CASE local' = [local EXCEPT !["power"] = v] /\ config' = [config EXCEPT !["power"] = v]
      <3>1. LocalOK(local') /\ config' \in ConfigType
        BY <2>2 DEF Copies, LocalOK, ConfigType
      <3> QED
        BY <2>2, <3>1 DEF Copies, LocalOK, ConfigType
    <2> QED
      BY <1>1, <2>1, <2>2 DEF Give
  <1>2. ASSUME NEW v \in Addrs, Give("addr", "userid", v) PROVE Inv'
    <2>1. CASE UNCHANGED <<local, config>>
      BY <2>1 DEF Copies, LocalOK
    <2>2. CASE local' = [local EXCEPT !["addr"] = v] /\ config' = [config EXCEPT !["userid"] = v]
      <3>1. LocalOK(local') /\ config' \in ConfigType
        BY <2>2 DEF Copies, LocalOK, ConfigType
      <3> QED
        BY <2>2, <3>1 DEF Copies, LocalOK, ConfigType
    <2> QED
      BY <1>2, <2>1, <2>2 DEF Give
  <1>3. ASSUME NEW v \in Subs, Give("sub", "sub", v) PROVE Inv'
    <2>1. CASE UNCHANGED <<local, config>>
      BY <2>1 DEF Copies, LocalOK
    <2>2. CASE local' = [local EXCEPT !["sub"] = v] /\ config' = [config EXCEPT !["sub"] = v]
      <3>1. LocalOK(local') /\ config' \in ConfigType
        BY <2>2 DEF Copies, LocalOK, ConfigType
      <3> QED
        BY <2>2, <3>1 DEF Copies, LocalOK, ConfigType
    <2> QED
      BY <1>3, <2>1, <2>2 DEF Give
  <1> QED
    BY <1>1, <1>2, <1>3

(* AT+FREQ, in the range in use and into another one. *)
LEMMA SetFreqCopies ==
  ASSUME Inv, NEW f \in Requests, SetFreq(f)
  PROVE  Inv' /\ (local'.cur # local.cur => OnGrid')
  <1> DEFINE spectrum == SpectrumOf(f)
             base     == Ranges[spectrum][1]
             cur      == Align(f, base, Width[local.bw])
             new      == [local EXCEPT !.spectrum = spectrum, !.base = base, !.cur = cur]
  <1>1. CASE UNCHANGED <<local, config>>
    BY <1>1 DEF Inv, Copies, LocalOK
  <1>2. ASSUME Holding(f) # {}
        PROVE  /\ LocalOK(new)
               /\ base + Index(cur, base, Width[local.bw]) * Width[local.bw] = cur
    <2>1. LocalOK(local)
      BY DEF Inv, Copies
    <2>2. new = Tuned(local, f)
      BY DEF Tuned
    <2>3. new.base = base /\ new.cur = cur
      BY <2>1 DEF LocalOK
    <2> HIDE DEF spectrum, base, cur, new
    <2>4. /\ LocalOK(new)
          /\ new.base + Index(new.cur, new.base, Width[local.bw]) * Width[local.bw] = new.cur
      BY <1>2, <2>1, <2>2, FreqLocal
    <2> QED
      BY <2>3, <2>4
  <1>3. CASE /\ Holding(f) # {} /\ spectrum = local.spectrum
             /\ local' = new
             /\ config' = [config EXCEPT !.freqIdx = Index(cur, base, Width[local.bw])]
    <2>1. LocalOK(new) /\ base + Index(cur, base, Width[local.bw]) * Width[local.bw] = cur
      BY <1>2, <1>3
    <2>2. new.base = base /\ new.cur = cur /\ new.bw = local.bw
          /\ new.addr = local.addr /\ new.sub = local.sub /\ new.power = local.power
          /\ new.rate = local.rate /\ new.spectrum = spectrum
      BY DEF Inv, Copies, LocalOK
    <2> HIDE DEF new, cur, base, spectrum
    <2>3. Index(cur, base, Width[local.bw]) \in Nat
      BY <2>1, <2>2, IndexType
    <2>4. config' \in ConfigType /\ config'.freqIdx = Index(cur, base, Width[local.bw])
          /\ config'.bw = config.bw
      BY <1>3, <2>3 DEF Inv, Copies, ConfigType
    <2>5. Inv'
      BY <1>3, <2>1, <2>2, <2>4 DEF Inv, Copies, ConfigType
    <2>6. OnGrid'
      BY <1>3, <2>1, <2>2, <2>4 DEF OnGrid, Inv, Copies
    <2> QED
      BY <2>5, <2>6
  <1>4. CASE Holding(f) # {} /\ local' = new /\ Run(new)
    <2>1. LocalOK(new) /\ base + Index(cur, base, Width[local.bw]) * Width[local.bw] = cur
      BY <1>2, <1>4
    <2>2. new.base = base /\ new.cur = cur /\ new.bw = local.bw
      BY DEF Inv, Copies, LocalOK
    <2> HIDE DEF new, cur, base, spectrum
    <2>3. Copies(new, config')
      BY <1>4, <2>1, RunAgrees
    <2>4. Inv'
      BY <1>4, <2>3 DEF Inv
    <2>5. OnGrid'
      BY <1>4, <2>1, <2>2, <2>3 DEF OnGrid, Copies
    <2> QED
      BY <2>4, <2>5
  <1> QED
    BY <1>1, <1>3, <1>4 DEF SetFreq

LEMMA RestartCopies ==
  ASSUME Inv,
         \/ \E level \in DOMAIN Width : SetBandwidth(level)
         \/ \E rate \in Rates : SetRate(rate)
  PROVE  Inv' /\ local'.cur = local.cur
  <1>1. PICK new : Restart(new) /\ LocalOK(new) /\ new.cur = local.cur
    <2>1. ASSUME NEW level \in DOMAIN Width, SetBandwidth(level)
          PROVE  \E new : Restart(new) /\ LocalOK(new) /\ new.cur = local.cur
      <3> DEFINE new == [local EXCEPT !.bw = level]
      <3>1. LocalOK(new) /\ new.cur = local.cur
        BY DEF Inv, Copies, LocalOK
      <3> QED
        BY <2>1, <3>1 DEF SetBandwidth
    <2>2. ASSUME NEW rate \in Rates, SetRate(rate)
          PROVE  \E new : Restart(new) /\ LocalOK(new) /\ new.cur = local.cur
      <3> DEFINE new == [local EXCEPT !.rate = rate]
      <3>1. LocalOK(new) /\ new.cur = local.cur
        BY DEF Inv, Copies, LocalOK
      <3> QED
        BY <2>2, <3>1 DEF SetRate
    <2> QED
      BY <2>1, <2>2
  <1>2. CASE new = local
    BY <1>1, <1>2 DEF Restart, Inv, Copies
  <1>3. CASE new # local
    BY <1>1, <1>3, RunAgrees DEF Restart, Inv
  <1> QED
    BY <1>2, <1>3

LEMMA StepCopies == Inv /\ [Next]_vars => Inv' /\ (local'.cur # local.cur => OnGrid')
  <1> SUFFICES ASSUME Inv, [Next]_vars PROVE Inv' /\ (local'.cur # local.cur => OnGrid')
    OBVIOUS
  <1>1. CASE UNCHANGED <<local, config>>
    BY <1>1 DEF Inv
  <1>2. CASE \/ \E v \in Powers : Give("power", "power", v)
             \/ \E v \in Addrs : Give("addr", "userid", v)
             \/ \E v \in Subs : Give("sub", "sub", v)
    <2>1. Inv'
      BY <1>2, GiveCopies
    <2>2. local'.cur = local.cur
      BY <1>2 DEF Give, Inv, Copies, LocalOK
    <2> QED
      BY <2>1, <2>2
  <1>3. ASSUME NEW f \in Requests, SetFreq(f)
        PROVE  Inv' /\ (local'.cur # local.cur => OnGrid')
    BY <1>3, SetFreqCopies
  <1>4. CASE \/ \E level \in DOMAIN Width : SetBandwidth(level)
             \/ \E rate \in Rates : SetRate(rate)
    BY <1>4, RestartCopies
  <1>5. CASE \E addr \in Addrs \cup {0} : WakeUp(addr)
    BY <1>1, <1>5 DEF WakeUp
  <1>7. CASE Sleep
    <2>1. CASE local' = FreshLocal /\ Run(FreshLocal)
      <3>1. Copies(FreshLocal, config')
        BY <2>1, FreshFacts, RunAgrees
      <3>2. Inv'
        BY <2>1, <3>1 DEF Inv
      <3>3. OnGrid'
        BY <2>1, <3>1, FreshFacts DEF OnGrid, Copies
      <3> QED
        BY <3>2, <3>3
    <2> QED
      BY <1>1, <1>7, <2>1 DEF Sleep
  <1>6. CASE UNCHANGED vars
    BY <1>1, <1>6 DEF vars
  <1>8. CASE Settings
    BY <1>2, <1>3, <1>4, <1>5, <1>7, <1>8 DEF Settings, SetPower, SetAddr, SetSub
  <1>9. CASE \E dest \in Addrs \cup {0}, len \in Texts : Send(dest, len)
    BY <1>1, <1>9 DEF Send
  <1> QED
    BY <1>6, <1>8, <1>9 DEF Next

(* Through any sequence of commands, refusals and restarts, what the        *)
(* queries answer is what the stack runs with (StackMatches).               *)
THEOREM StackAgrees == Spec => []StackMatches
  <1>1. Inv => StackMatches
    BY DEF Inv, Copies, StackMatches
  <1> QED
    BY <1>1, InitCopies, StepCopies, PTL DEF Spec

(* A frequency that AT+FREQ reports is the one transmitted (FreqRealised).  *)
THEOREM ReportedIsTransmitted == Spec => FreqRealised
  <1>1. Inv /\ [Next]_vars => (local'.cur # local.cur => OnGrid')
    BY StepCopies
  <1>2. Inv /\ [Next]_vars => Inv'
    BY StepCopies
  <1> QED
    BY <1>1, <1>2, InitCopies, PTL DEF Spec, FreqRealised

(* A command that fails changes neither copy (FailedChangesNothing).        *)
THEOREM FailureIsClean == Spec => FailedChangesNothing
  <1>1. [Next]_vars => [reply' = "FAIL" => UNCHANGED <<local, config>>]_vars
    <2> SUFFICES ASSUME [Next]_vars, reply' = "FAIL", ~UNCHANGED vars
                 PROVE  UNCHANGED <<local, config>>
      OBVIOUS
    <2>1. CASE Settings
      BY <2>1 DEF Settings, SetPower, SetAddr, SetSub, Give, SetFreq, SetBandwidth, SetRate,
                  Restart, Answer, Sleep, WakeUp
    <2>2. CASE \E dest \in Addrs \cup {0}, len \in Texts : Send(dest, len)
      BY <2>2 DEF Send
    <2> QED
      BY <2>1, <2>2 DEF Next
  <1> QED
    BY <1>1, PTL DEF Spec, FailedChangesNothing

(***************************************************************************)
(* The ids.                                                                *)
(***************************************************************************)
LEMMA ModFacts ==
  ASSUME NEW a \in Nat, NEW n \in Nat \ {0}
  PROVE  a % n \in Nat /\ a % n < n
  OBVIOUS

LEMMA WordMaxType == WordMax \in Nat
  BY DEF WordMax

LEMMA AwakenIdFacts ==
  ASSUME NEW addr \in Nat, NEW max \in Word
  PROVE  AwakenId(addr, max) \in Word
  <1> DEFINE n == IF max < 2 THEN WordMax + 1 ELSE max - 1
             m == addr % n
  <1>1. n \in Nat \ {0} /\ n <= WordMax + 1
    BY WordMaxType DEF Word
  <1>2. AwakenId(addr, max) = m
    BY DEF AwakenId
  <1> HIDE DEF n
  <1>3. m \in Nat /\ m < n
    BY <1>1, ModFacts
  <1> HIDE DEF m
  <1>4. m \in Word
    BY <1>1, <1>3, WordMaxType DEF Word
  <1> QED
    BY <1>2, <1>4

LEMMA MaxIdsFacts ==
  ASSUME NEW rate \in Rates
  PROVE  MaxIds(rate) \subseteq Word
  <1>1. \A symbol \in 0..3 : IdMax(symbol) \in Word
    <2>1. IdMax(0) = 1023 /\ IdMax(1) = 4095 /\ IdMax(2) = 16383 /\ IdMax(3) = 65535
      BY SMT DEF IdMax
    <2>2. 1023 \in Word /\ 4095 \in Word /\ 16383 \in Word /\ 65535 \in Word
      BY SMT DEF Word, WordMax
    <2> QED
      BY <2>1, <2>2, SMT
  <1>2. CASE rate + 1 \in Rates
    BY <1>1, <1>2, TableTypes DEF MaxIds
  <1>3. CASE rate + 1 \notin Rates
    BY <1>3, IdsAssumption DEF MaxIds
  <1> QED
    BY <1>2, <1>3

IdsOK == ids \subseteq Word /\ reply \in {"OK", "FAIL"}

LEMMA StepIds == Inv /\ IdsOK /\ [Next]_vars => IdsOK'
  <1> SUFFICES ASSUME Inv, IdsOK, [Next]_vars PROVE IdsOK'
    OBVIOUS
  <1>1. local.rate \in Rates /\ config.userid \in Nat
    BY IdsAssumption DEF Inv, Copies, LocalOK, ConfigType
  <1>2. MaxIds(local.rate) \subseteq Word
    BY <1>1, MaxIdsFacts
  <1>3. CASE ids' = {} /\ reply' \in {"OK", "FAIL"}
    BY <1>3 DEF IdsOK
  <1>4. CASE Sleep
    <2>1. CASE ids' = {} /\ reply' \in {"OK", "FAIL"}
      BY <1>3, <2>1
    <2>2. CASE \E max \in MaxIds(local.rate) : ids' = {AwakenId(config.userid, max), max}
      <3>1. PICK max \in MaxIds(local.rate) : ids' = {AwakenId(config.userid, max), max}
        BY <2>2
      <3>2. max \in Word /\ AwakenId(config.userid, max) \in Word
        BY <1>1, <1>2, <3>1, AwakenIdFacts
      <3>3. reply' \in {"OK", "FAIL"}
        BY <1>4 DEF Sleep, Answer
      <3> QED
        BY <3>1, <3>2, <3>3 DEF IdsOK
    <2> QED
      BY <1>4, <2>1, <2>2 DEF Sleep, Answer
  <1>5. ASSUME NEW addr \in Nat, WakeUp(addr) PROVE IdsOK'
    <2>1. CASE Answer("FAIL")
      BY <1>3, <2>1 DEF Answer
    <2>2. ASSUME NEW max \in MaxIds(local.rate), reply' \in {"OK", "FAIL"},
                 ids' = IF addr = 0 THEN {max} ELSE {AwakenId(addr, max)}
          PROVE  IdsOK'
      <3>1. max \in Word /\ AwakenId(addr, max) \in Word
        BY <1>2, <2>2, AwakenIdFacts
      <3> QED
        BY <2>2, <3>1 DEF IdsOK
    <2> QED
      BY <1>5, <2>1, <2>2 DEF WakeUp
  <1>6. CASE UNCHANGED vars
    BY <1>6 DEF vars, IdsOK
  <1>7. CASE \E addr \in Addrs : WakeUp(addr)
    BY <1>5, <1>7, IdsAssumption
  <1>8. CASE \/ \E power \in Powers : SetPower(power)
             \/ \E addr \in Addrs : SetAddr(addr)
             \/ \E sub \in Subs : SetSub(sub)
             \/ \E f \in Requests : SetFreq(f)
             \/ \E level \in DOMAIN Width : SetBandwidth(level)
             \/ \E rate \in Rates : SetRate(rate)
    BY <1>3, <1>8 DEF SetPower, SetAddr, SetSub, Give, SetFreq, SetBandwidth, SetRate,
                      Restart, Answer
  <1>9. CASE Settings
    BY <1>4, <1>5, <1>7, <1>8, <1>9 DEF Settings
  <1>10. CASE \E dest \in Addrs \cup {0}, len \in Texts : Send(dest, len)
    BY <1>3, <1>10 DEF Send, Answer
  <1> QED
    BY <1>6, <1>9, <1>10 DEF Next

(***************************************************************************)
(* Messages.                                                               *)
(***************************************************************************)
MessageType == [ from : Addrs \cup {Static.userid}, text : Texts,
                 size : Nat \ {0}, load : Loads,
                 packed : BOOLEAN, marked : BOOLEAN, number : Int ]

AirInv ==
  /\ mark \in BOOLEAN
  /\ air \subseteq MessageType
  /\ \A message \in air :
       /\ message.from = local.addr
       /\ message.marked = message.packed
       /\ message.number = SubframeNum(message.size, message.load, CrcLimit)

LEMMA LoadsFacts ==
  ASSUME NEW load \in Loads
  PROVE  IsLoad(load)
  <1>1. PICK mcs \in 0..3, cast \in {"broadcast", "unicast"} : load = Load[mcs][cast]
    BY DEF Loads
  <1> QED
    BY <1>1, MessagesAssumption DEF IsLoad

LEMMA MinSubframesType == MinSubframes \in Int /\ MaxSubframes \in Int
  BY DEF MinSubframes, MaxSubframes

LEMMA StepAir == Inv /\ AirInv /\ [Next]_vars => AirInv'
  <1> SUFFICES ASSUME Inv, AirInv, [Next]_vars PROVE AirInv'
    OBVIOUS
  <1>1. CASE air' = {} /\ mark' \in {mark, FALSE}
    BY <1>1 DEF AirInv
  <1>2. ASSUME NEW dest, NEW len \in Texts,
               len \in 1..Limit(Cast(dest)) - Header,
               NEW size \in Sizes \cup {Header + len},
               mark' = Mark(size < Header + len), air' = {Message(dest, len, size, mark')},
               UNCHANGED local
        PROVE  AirInv'
    <2> DEFINE load    == Load[config.mcs][Cast(dest)]
               packed  == size < Header + len
               message == Message(dest, len, size, mark')
    <2>1. load \in Loads /\ IsLoad(load)
      <3>1. config.mcs \in 0..3 /\ Cast(dest) \in {"broadcast", "unicast"}
        BY DEF Inv, Copies, ConfigType, Cast
      <3>2. load \in Loads
        BY <3>1 DEF Loads
      <3> QED
        BY <3>2, LoadsFacts
    <2>2. size \in Nat \ {0}
      BY <1>2, MessagesAssumption DEF Header
    <2>3. SubframeNum(size, load, CrcLimit) \in Int
      BY <2>1, <2>2, SubframeNumBest, MessagesAssumption, MinSubframesType
    <2>4. message = [ from |-> config.userid, text |-> len, size |-> size, load |-> load,
                      packed |-> packed, marked |-> packed,
                      number |-> SubframeNum(size, load, CrcLimit) ]
      BY <1>2 DEF Message, Mark
    <2>5. config.userid \in Addrs \cup {Static.userid} /\ config.userid = local.addr
      BY DEF Inv, Copies, ConfigType
    <2>6. packed \in BOOLEAN /\ mark' \in BOOLEAN
      BY <1>2 DEF Mark
    <2> HIDE DEF load, packed
    <2>7. message \in MessageType
      BY <2>1, <2>2, <2>3, <2>4, <2>5, <2>6 DEF MessageType
    <2>8. /\ message.from = local'.addr
          /\ message.marked = message.packed
          /\ message.number = SubframeNum(message.size, message.load, CrcLimit)
      BY <1>2, <2>4, <2>5
    <2> HIDE DEF message
    <2>9. air' = {message}
      BY <1>2 DEF message
    <2> QED
      BY <2>6, <2>7, <2>8, <2>9 DEF AirInv
  <1>3. ASSUME NEW dest \in Addrs \cup {0}, NEW len \in Texts, Send(dest, len)
        PROVE  AirInv'
    BY <1>1, <1>2, <1>3 DEF Send
  <1>4. CASE UNCHANGED vars
    BY <1>4 DEF vars, AirInv
  <1> QED
    BY <1>1, <1>3, <1>4 DEF Next

LEMMA InitAir == Init => AirInv
  BY DEF Init, AirInv

LEMMA InvAir == Spec => [](Inv /\ AirInv)
  <1>1. Inv /\ [Next]_vars => Inv'
    BY StepCopies
  <1> QED
    BY <1>1, InitCopies, InitAir, StepAir, PTL DEF Spec

(* The peer prints what was typed, by whom (PeerReads).                     *)
THEOREM PeerPrintsText == Spec => []PeerReads
  <1>1. AirInv => PeerReads
    BY DEF AirInv, PeerReads, Printed
  <1> QED
    BY <1>1, InvAir, PTL

(* The number of subframes is accepted by the stack, is the least with the  *)
(* fewest frames for the length it is chosen for, and costs the message at  *)
(* most two frames more than the longest frames would take, or five where   *)
(* one half of it fits into a frame (SubframesFit).                         *)
THEOREM FittingSubframes == Spec => []SubframesFit
  <1>1. AirInv => SubframesFit
    <2> SUFFICES ASSUME AirInv, NEW message \in air
                 PROVE  /\ message.number \in MinSubframes..MaxSubframes
                        /\ HalfBest(message) /\ NearBest(message)
      BY DEF SubframesFit
    <2>1. /\ message.size \in Nat \ {0} /\ message.load \in Loads
          /\ message.number = SubframeNum(message.size, message.load, CrcLimit)
      BY DEF AirInv, MessageType
    <2>2. IsLoad(message.load) /\ CrcLimit \in Nat
      BY <2>1, LoadsFacts, MessagesAssumption
    <2>3. message.number \in MinSubframes..MaxSubframes /\ HalfBest(message)
      BY <2>1, <2>2, SubframeNumBest DEF HalfBest
    <2>4. NearBest(message)
      BY <2>1, <2>2, SubframeNumNear DEF NearBest
    <2> QED
      BY <2>3, <2>4
  <1> QED
    BY <1>1, InvAir, PTL

(* Settings stay acceptable, the frequency in its range, ids in 16 bits     *)
(* (TypeOK).                                                                *)
THEOREM TypeCorrect == Spec => []TypeOK
  <1>1. Init => IdsOK
    BY DEF Init, IdsOK
  <1>2. Inv /\ IdsOK /\ AirInv => TypeOK
    BY DEF Inv, Copies, LocalOK, ConfigType, IdsOK, AirInv, MessageType, TypeOK
  <1>3. Inv /\ [Next]_vars => Inv'
    BY StepCopies
  <1> QED
    BY <1>1, <1>2, <1>3, InitCopies, StepIds, InvAir, PTL DEF Spec
=============================================================================
