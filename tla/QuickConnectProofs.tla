------------------------- MODULE QuickConnectProofs -------------------------
(* Proofs about QuickConnect, for all sets of frequencies and modes, any    *)
(* number of commands and any number of baseband failures.                  *)
EXTENDS QuickConnect, TLAPS

(* The program points of an open that still has its uc_wiota_run to do. *)
BeforeRun == {"open", "openAt", "openQc", "delay200", "init", "qcInit",
              "freq", "symbol", "band", "delay50", "check", "run"}

(* qc_auto_run is set, and an open is started, only with both mutexes there; *)
(* while qc_auto_run is clear the one open that was under way either has its *)
(* uc_wiota_run ahead (none counted yet) or behind (no other can begin).     *)
LateInv ==
  /\ TypeOK
  /\ BuffersAccounted
  /\ qc = "boot" => mutexes = "none"
  /\ OpenHasMutexes
  /\ at \in {"startExit", "stopExit"} \cup InDelay => mutexes = "both"
  /\ autoRun = 1 => lateRuns = 0
  /\ qc \in BeforeRun => lateRuns = 0
  /\ AtMostOneLateRun

LEMMA LateInvInit == Init => LateInv
  BY QcAssumption DEF Init, LateInv, TypeOK, BuffersAccounted, OpenHasMutexes, AtMostOneLateRun,
     Request, Reading, Opening, Closing, BeforeRun, InCall, InDelay, InSend

(* Each action of the qc thread, of the AT thread and of the baseband keeps *)
(* LateInv.                                                                 *)
LEMMA LateInvStep == LateInv /\ [Next]_vars => LateInv'
<1> SUFFICES ASSUME LateInv, [Next]_vars PROVE LateInv'
  OBVIOUS
<1> USE QcAssumption DEF LateInv, TypeOK, BuffersAccounted, OpenHasMutexes, AtMostOneLateRun,
        Reading, Opening, Closing, BeforeRun, InCall, InDelay, InSend, states, req, sends
<1>1. CASE QcBoot
  BY <1>1 DEF QcBoot, QcStep
<1>2. CASE QcPoll
  BY <1>2 DEF QcPoll, QcStep
<1>3. CASE OpenClose
  BY <1>3 DEF OpenClose, QcStep, WiotaExit
<1>4. CASE OpenInit
  BY <1>4 DEF OpenInit, QcStep, WiotaInit
<1>5. CASE OpenRead
  BY <1>5 DEF OpenRead, Take, QcStep
<1>6. CASE OpenCheck
  BY <1>6 DEF OpenCheck, QcStep
<1>7. CASE OpenRun
  BY <1>7 DEF OpenRun, QcStep, WiotaRun
<1>8. ASSUME NEW f \in Freqs, NEW m \in Modes, QuickStart(f, m) PROVE LateInv'
  BY <1>8 DEF QuickStart, ClearAndExit, Accept, WiotaExit
<1>9. CASE QuickStop
  BY <1>9 DEF QuickStop, ClearAndExit, Accept, WiotaExit
<1>10. CASE Cfun
  BY <1>10 DEF Cfun, Accept, WiotaInit, WiotaRun, WiotaExit
<1>11. CASE QuickReturn
  BY <1>11 DEF QuickReturn
<1>12. CASE CfunReturn
  BY <1>12 DEF CfunReturn
<1>13. CASE BasebandError
  BY <1>13 DEF BasebandError
<1>14. CASE UNCHANGED vars
  BY <1>14 DEF vars
<1>15. CASE Send \/ SendRefused
  BY <1>15 DEF Send, SendRefused, Accept
<1>16. CASE Typed
  BY <1>16 DEF Typed, Control
<1>17. CASE SendEnds
  BY <1>17 DEF SendEnds, Control
<1>18. CASE SendCallback
  BY <1>18 DEF SendCallback, Control
<1> QED
  BY <1>1, <1>2, <1>3, <1>4, <1>5, <1>6, <1>7, <1>8, <1>9, <1>10, <1>11,
     <1>12, <1>13, <1>14, <1>15, <1>16, <1>17, <1>18
     DEF Next, QcNext, AtNext, AtReturns

(* Every variable stays in its type. *)
THEOREM TypeCorrect == Spec => []TypeOK
<1>1. LateInv => TypeOK
  BY DEF LateInv
<1> QED
  BY <1>1, LateInvInit, LateInvStep, PTL DEF Spec

(* quick_open_wiota never takes a mutex that does not exist. *)
THEOREM NoMissingMutex == Spec => []OpenHasMutexes
<1>1. LateInv => OpenHasMutexes
  BY DEF LateInv
<1> QED
  BY <1>1, LateInvInit, LateInvStep, PTL DEF Spec

(* After a stop the qc thread starts WIoTa at most once more. *)
THEOREM OneLateRun == Spec => []AtMostOneLateRun
<1>1. LateInv => AtMostOneLateRun
  BY DEF LateInv
<1> QED
  BY <1>1, LateInvInit, LateInvStep, PTL DEF Spec

(* Every send buffer has an owner, whatever the host does and however the   *)
(* stack answers (BuffersAccounted).                                        *)
THEOREM NoBufferLost == Spec => []BuffersAccounted
<1>1. LateInv => BuffersAccounted
  BY DEF LateInv
<1> QED
  BY <1>1, LateInvInit, LateInvStep, PTL DEF Spec

-----------------------------------------------------------------------------
(* A polite host.  From here on PoliteHost is an assumption of each fact.   *)

(* An open runs only while qc_auto_run is set; a start or a stop that found *)
(* the service open has cleared it and, once uc_wiota_exit has returned,    *)
(* has put the service in its EXIT state.                                   *)
StopInv ==
  /\ TypeOK
  /\ BuffersAccounted
  /\ autoRun = 0 => ~Opening
  /\ at \in {"startExit", "stopExit"} \cup InDelay => autoRun = 0
  /\ at \in InDelay => qcState = "EXIT"
  /\ autoRun = 0 /\ at \notin {"startExit", "stopExit", "assert"} => qcState = "EXIT"

LEMMA StopInvInit == Init => StopInv
  BY QcAssumption DEF Init, StopInv, TypeOK, BuffersAccounted, Request, Reading, Opening, Closing,
     InCall, InDelay, InSend

LEMMA StopInvStep ==
  ASSUME PoliteHost, StopInv, [Next]_vars
  PROVE  StopInv'
<1> USE QcAssumption DEF StopInv, TypeOK, BuffersAccounted, Reading, Opening, Closing, InCall,
        InDelay, InSend, states, req, sends
<1>1. CASE QcBoot
  BY <1>1 DEF QcBoot, QcStep
<1>2. CASE QcPoll
  BY <1>2 DEF QcPoll, QcStep
<1>3. CASE OpenClose
  BY <1>3 DEF OpenClose, QcStep, WiotaExit
<1>4. CASE OpenInit
  BY <1>4 DEF OpenInit, QcStep, WiotaInit
<1>5. CASE OpenRead
  BY <1>5 DEF OpenRead, Take, QcStep
<1>6. CASE OpenCheck
  BY <1>6 DEF OpenCheck, QcStep
<1>7. CASE OpenRun
  BY <1>7 DEF OpenRun, QcStep, WiotaRun
<1>8. ASSUME NEW f \in Freqs, NEW m \in Modes, QuickStart(f, m) PROVE StopInv'
  BY <1>8 DEF QuickStart, ClearAndExit, Accept, WiotaExit
<1>9. CASE QuickStop
  BY <1>9 DEF QuickStop, ClearAndExit, Accept, WiotaExit
<1>10. CASE Cfun
  BY <1>10 DEF Cfun, Accept, WiotaInit, WiotaRun, WiotaExit
<1>11. CASE QuickReturn
  BY <1>11 DEF QuickReturn
<1>12. CASE CfunReturn
  BY <1>12 DEF CfunReturn
<1>13. CASE BasebandError
  BY <1>13 DEF BasebandError
<1>14. CASE UNCHANGED vars
  BY <1>14 DEF vars
<1>15. CASE Send \/ SendRefused
  <2>1. CASE Send
    BY <2>1 DEF Send, Accept
  <2>2. CASE SendRefused
    BY <2>2 DEF SendRefused, Accept
  <2> QED
    BY <1>15, <2>1, <2>2
<1>16. CASE Typed
  <2>1. CASE at = "chars"
    BY <1>16, <2>1 DEF Typed, Control
  <2>2. CASE at = "charsNoBlock"
    BY <1>16, <2>2 DEF Typed, Control
  <2> QED
    BY <1>16, <2>1, <2>2 DEF Typed
<1>17. CASE SendEnds
  BY <1>17 DEF SendEnds, Control
<1>18. CASE SendCallback
  BY <1>18 DEF SendCallback, Control
<1> QED
  BY <1>1, <1>2, <1>3, <1>4, <1>5, <1>6, <1>7, <1>8, <1>9, <1>10, <1>11,
     <1>12, <1>13, <1>14, <1>15, <1>16, <1>17, <1>18
     DEF Next, QcNext, AtNext, AtReturns

(* With a polite host an answered stop leaves nothing open or opening,      *)
(* whatever other commands that host uses.                                  *)
THEOREM PoliteStopIsFinal ==
  ASSUME PoliteHost PROVE Spec => []StopIsFinal
<1>1. StopInv => StopIsFinal
  BY DEF StopInv, StopIsFinal
<1>2. StopInv /\ [Next]_vars => StopInv'
  BY StopInvStep
<1> QED
  BY <1>1, <1>2, StopInvInit, PTL DEF Spec

-----------------------------------------------------------------------------
(* A polite host that leaves AT+WIOTAINIT and AT+WIOTARUN=1 alone. *)

AfterInit == {"qcInit", "freq", "symbol", "band", "delay50", "check", "run"}
AfterRun  == {"atRun", "power", "rate", "subnum", "qcRun"}
Told      == {"power", "rate", "subnum", "qcRun"}

(* What each part of the state says about the protocol stack. *)
StackInv ==
  /\ qc \in {"openAt", "openQc", "delay200", "init"} => stack = "null"
  /\ qc \in AfterInit => stack = "init"
  /\ qc \in AfterRun => LinkUp
  /\ qc \in {"init"} \cup AfterInit \cup AfterRun => Quiet
  /\ qcState = "EXIT" /\ qc \notin AfterInit => stack = "null"
  /\ at \in {"startExit", "stopExit", "exitSet"} \cup InDelay => stack = "null"
  /\ at \notin {"initSet", "runSet"}
  /\ qc = "auto" => StatusDown
  /\ stack = "error" => errors > 0
  /\ at \in InSend /\ errors = 0 => stack = "run" /\ qc # "auto" /\ ~Opening

(* What wiota_state says about it. *)
AtStateInv ==
  /\ qc \in (AfterInit \ {"qcInit"}) \cup AfterRun => qcState = "INIT"
  /\ qc \in {"delay200", "init", "qcInit"} => qcState = "EXIT"
  /\ qc \in {"openQc", "delay200", "init", "atRun"} \cup AfterInit => atState # "RUN"
  /\ qc \in Told => atState = "RUN"
  /\ qcState = "EXIT" => atState # "RUN"
  /\ at \in InDelay => atState = "EXIT"
  /\ Quiet /\ (~Opening \/ qc = "open") => (atState = "RUN" <=> LinkUp)

(* What the stack was given: each field filled so far by the open under way, *)
(* and all of them once quick connect is in its RUN state.                   *)
LinkInv ==
  /\ OpenHasMutexes
  /\ qc = "boot" => mutexes = "none"
  /\ at \in {"startExit", "stopExit"} \cup InDelay => mutexes = "both"
  /\ qcState # "EXIT" => mutexes = "both"
  /\ qc \in (AfterInit \ {"qcInit", "freq"}) \cup AfterRun => link["freq"] = curFreq
  /\ qc \in {"band", "delay50", "check", "run"} \cup AfterRun => link["symbol"] = curMode
  /\ qc \in {"delay50", "check", "run"} \cup AfterRun => link["band"] = curMode
  /\ qc \in {"rate", "subnum", "qcRun"} => link["power"] = curMode
  /\ qc \in {"subnum", "qcRun"} => link["rate"] = curMode
  /\ qc = "qcRun" => link["subnum"] = curMode
  /\ qcState = "RUN" /\ at \notin {"startExit", "stopExit"} =>
       link = Request(curFreq, curMode)

QuickInv == StopInv /\ StackInv /\ AtStateInv /\ LinkInv

QuickOnly == PoliteHost /\ Commands \subseteq {"start", "stop", "exit", "send", "sendNoBlock"}

LEMMA QuickInvInit == Init => QuickInv
<1> SUFFICES ASSUME Init PROVE QuickInv
  OBVIOUS
<1>1. StopInv
  BY StopInvInit
<1>2. StackInv /\ AtStateInv /\ LinkInv
  BY DEF Init, StackInv, AtStateInv, LinkInv, OpenHasMutexes, Opening, Closing,
     Reading, AfterInit, AfterRun, Told, LinkUp, Quiet, StatusDown, InCall, InDelay, InSend
<1> QED
  BY <1>1, <1>2 DEF QuickInv

LEMMA QuickInvStep ==
  ASSUME QuickOnly, QuickInv, [Next]_vars
  PROVE  QuickInv'
<1>1. StopInv'
  BY StopInvStep DEF QuickInv, QuickOnly
<1>2. StackInv' /\ AtStateInv' /\ LinkInv'
  <2> USE QcAssumption DEF QuickOnly, QuickInv, StopInv, TypeOK, StackInv, AtStateInv, LinkInv,
          OpenHasMutexes, Reading, Opening, Closing, AfterInit, AfterRun, Told,
          LinkUp, Quiet, StatusDown, InCall, InDelay, InSend, states, req, sends
  <2>1. CASE QcBoot
    BY <2>1 DEF QcBoot, QcStep
  <2>2. CASE QcPoll
    BY <2>2 DEF QcPoll, QcStep, StatusDown
  <2>3. CASE OpenClose
    BY <2>3 DEF OpenClose, QcStep, WiotaExit
  <2>4. CASE OpenInit
    BY <2>4 DEF OpenInit, QcStep, WiotaInit, AtBlocked
  <2>5. CASE OpenRead
    BY <2>5 DEF OpenRead, Take, QcStep
  <2>6. CASE OpenCheck
    BY <2>6 DEF OpenCheck, QcStep
  <2>7. CASE OpenRun
    BY <2>7 DEF OpenRun, QcStep, WiotaRun, Request
  <2>8. ASSUME NEW f \in Freqs, NEW m \in Modes, QuickStart(f, m)
        PROVE  StackInv' /\ AtStateInv' /\ LinkInv'
    BY <2>8 DEF QuickStart, ClearAndExit, Accept, WiotaExit
  <2>9. CASE QuickStop
    BY <2>9 DEF QuickStop, ClearAndExit, Accept, WiotaExit
  <2>10. CASE Cfun
    BY <2>10 DEF Cfun, Accept, WiotaInit, WiotaRun, WiotaExit
  <2>11. CASE QuickReturn
    BY <2>11 DEF QuickReturn
  <2>12. CASE CfunReturn
    BY <2>12 DEF CfunReturn
  <2>13. CASE BasebandError
    BY <2>13 DEF BasebandError
  <2>14. CASE UNCHANGED vars
    BY <2>14 DEF vars
  <2>15. CASE Send \/ SendRefused
    BY <2>15 DEF Send, SendRefused, Accept
  <2>16. CASE Typed
    BY <2>16 DEF Typed, Control
  <2>17. CASE SendEnds
    BY <2>17 DEF SendEnds, Control
  <2>18. CASE SendCallback
    BY <2>18 DEF SendCallback, Control
  <2> QED
    BY <2>1, <2>2, <2>3, <2>4, <2>5, <2>6, <2>7, <2>8, <2>9, <2>10, <2>11,
       <2>12, <2>13, <2>14, <2>15, <2>16, <2>17, <2>18
       DEF Next, QcNext, AtNext, AtReturns
<1> QED
  BY <1>1, <1>2 DEF QuickInv

(* The AT layer's RUN state means a stack that is up, whenever the host can *)
(* send a command and while it types a message (MustRunMeansRunning).       *)
THEOREM PoliteStatesAgree ==
  ASSUME QuickOnly PROVE Spec => []MustRunMeansRunning
<1>1. QuickInv => MustRunMeansRunning
  BY DEF QuickInv, AtStateInv, MustRunMeansRunning
<1>2. QuickInv /\ [Next]_vars => QuickInv'
  BY QuickInvStep
<1> QED
  BY <1>1, <1>2, QuickInvInit, PTL DEF Spec

(* ... and a stack that is up is one the AT layer knows to be running       *)
(* (RunningIsKnown).                                                        *)
THEOREM PoliteRunningKnown ==
  ASSUME QuickOnly PROVE Spec => []RunningIsKnown
<1>1. QuickInv => RunningIsKnown
  BY DEF QuickInv, AtStateInv, RunningIsKnown
<1>2. QuickInv /\ [Next]_vars => QuickInv'
  BY QuickInvStep
<1> QED
  BY <1>1, <1>2, QuickInvInit, PTL DEF Spec

(* uc_wiota_init is called on a stack that is down. *)
THEOREM PoliteInitOnDownStack ==
  ASSUME QuickOnly PROVE Spec => []InitOnDownStack
<1>1. QuickInv => InitOnDownStack
  BY DEF QuickInv, StackInv, InitOnDownStack
<1>2. QuickInv /\ [Next]_vars => QuickInv'
  BY QuickInvStep
<1> QED
  BY <1>1, <1>2, QuickInvInit, PTL DEF Spec

(* An open link has the frequency and all the parameters of one request,    *)
(* the last one.                                                            *)
THEOREM PoliteLinkMatches ==
  ASSUME QuickOnly PROVE Spec => []LinkMatchesRequest
<1>1. QuickInv => LinkMatchesRequest
  BY DEF QuickInv, LinkInv, LinkMatchesRequest
<1>2. QuickInv /\ [Next]_vars => QuickInv'
  BY QuickInvStep
<1> QED
  BY <1>1, <1>2, QuickInvInit, PTL DEF Spec

(* Only a failure of the baseband can bring the stack down under a message. *)
THEOREM PoliteSendsOnLink ==
  ASSUME QuickOnly PROVE Spec => []SendsOnLink
<1>1. QuickInv => SendsOnLink
  BY DEF QuickInv, StackInv, SendsOnLink
<1>2. QuickInv /\ [Next]_vars => QuickInv'
  BY QuickInvStep
<1> QED
  BY <1>1, <1>2, QuickInvInit, PTL DEF Spec
=============================================================================
