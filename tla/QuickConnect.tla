---------------------------- MODULE QuickConnect ----------------------------
(***************************************************************************)
(* The quick-connect service: the "qc" thread that opens WIoTa by itself   *)
(* (applications/quick_connect/quick_connect.c) and the AT server thread   *)
(* whose handlers AT+WIOTAQC, AT+WIOTAINIT, AT+WIOTARUN, AT+WIOTASEND and   *)
(* AT+WIOTASENDNOBK drive the same protocol stack (PS/at/at_wiota.c).      *)
(*                                                                         *)
(* The AT thread has priority 3, the qc thread priority 31 (the idle       *)
(* thread's).  So a qc step is taken only while the AT thread is blocked:  *)
(* waiting for a character, inside uc_wiota_init/run/exit or in            *)
(* rt_thread_mdelay.  Between two of those points the AT thread is one     *)
(* action; the qc thread can be preempted anywhere, so it is one step per  *)
(* access to shared state.                                                 *)
(*                                                                         *)
(* p_mutex_qc_state and p_mutex_qc_run each guard a single assignment, so  *)
(* take-assign-release is one step; what remains visible of the mutexes is *)
(* whether they exist yet.                                                 *)
(***************************************************************************)
EXTENDS Naturals

CONSTANTS
  Freqs,        \* frequency indexes a host asks for
  Modes,        \* the e_qc_mode values below QC_MODE_MAX, one row of qc_cfg each
  InRange,      \* <<f, m>>: uc_wiota_set_freq_info accepts f at m's bandwidth
  InitFreq,     \* the initializer of cur_freq
  InitMode,     \* the initializer of cur_mode
  Commands,     \* the AT commands the host uses
  PoliteHost,   \* TRUE: a command is sent only while no open is in progress
  HeapMayFail,  \* TRUE: rt_mutex_create and rt_malloc may return NULL
  MaxCommands,  \* bound: AT commands in a behaviour
  MaxErrors     \* bound: times the baseband fails by itself

ASSUME QcAssumption ==
  /\ InRange \subseteq Freqs \X Modes
  /\ InitFreq \in Freqs
  /\ InitMode \in Modes
  /\ Commands \subseteq {"start", "stop", "init", "run", "exit", "send", "sendNoBlock"}
  /\ PoliteHost \in BOOLEAN
  /\ HeapMayFail \in BOOLEAN
  /\ MaxCommands \in Nat
  /\ MaxErrors \in Nat

VARIABLES
  stack,     \* the protocol stack: "null", "init", "run" or "error"
  link,      \* the parameters given to it: the frequency, and for each field
             \* that comes from qc_cfg the mode whose row it was read from
  atState,   \* wiota_state of at_wiota.c
  qcState,   \* qc_wiota_state
  autoRun,   \* qc_auto_run
  curFreq,
  curMode,
  mutexes,   \* how far quick_connect_init got: "none", "state" or "both"
  qc,        \* where the qc thread is
  at,        \* where the AT thread is
  commands,  \* AT commands sent so far
  errors,    \* baseband failures so far
  lateRuns,  \* uc_wiota_run calls of qc while qc_auto_run is clear
  heap,      \* send buffers that are allocated
  pending,   \* messages sent without blocking that the stack has yet to answer
  kept       \* buffers left to the stack because it answered with a timeout

states == <<atState, qcState>>
req    == <<autoRun, curFreq, curMode>>
sends  == <<heap, pending, kept>>
vars   == <<stack, link, states, req, mutexes, qc, at, commands, errors, lateRuns, sends>>

(* Where the AT thread waits and lets lower priorities run. *)
InCall    == {"startExit", "stopExit", "initSet", "runSet", "exitSet"}
InDelay   == {"startDelay", "stopDelay"}
InSend    == {"chars", "charsNoBlock", "sending"}
AtBlocked == at \in {"idle"} \cup InCall \cup InDelay \cup InSend

(* The program points of quick_open_wiota; a read of cur_freq or of cur_mode *)
(* has the name of the field it fills.                                       *)
Closing == {"open", "openAt", "openQc"}
Reading == {"freq", "symbol", "band", "power", "rate", "subnum"}
Opening == qc \in Closing \cup Reading \cup
                  {"delay200", "init", "qcInit", "delay50", "check", "run", "atRun", "qcRun"}

(* uc_wiota_get_state() is UC_STATUS_NULL or UC_STATUS_ERROR. *)
StatusDown == stack \in {"null", "init", "error"}
LinkUp     == stack \in {"run", "error"}

(* What an undisturbed open for frequency f and mode m hands to the stack. *)
Request(f, m) == [field \in Reading |-> IF field = "freq" THEN f ELSE m]

Init ==
  /\ stack = "null"
  /\ link = Request(InitFreq, InitMode)
  /\ atState = "DEFAULT"
  /\ qcState = "EXIT"
  /\ autoRun = 0
  /\ curFreq = InitFreq
  /\ curMode = InitMode
  /\ mutexes = "none"
  /\ qc = "boot"
  /\ at = "idle"
  /\ commands = 0
  /\ errors = 0
  /\ lateRuns = 0
  /\ heap = 0
  /\ pending = 0
  /\ kept = 0

-----------------------------------------------------------------------------
(* The library calls.  What a second init does is the library's secret: it  *)
(* is ignored or starts over.                                               *)
WiotaInit == stack' \in IF stack = "null" THEN {"init"} ELSE {stack, "init"}
WiotaRun  == stack' = IF stack = "init" THEN "run" ELSE stack
WiotaExit == stack' = "null"

-----------------------------------------------------------------------------
(* The qc thread. *)

QcStep(from, to) ==
  /\ AtBlocked
  /\ qc = from
  /\ qc' = to
  /\ UNCHANGED <<req, at, commands, errors, sends>>

(* quick_connect_init: the second mutex is tried only if the first exists. *)
QcBoot ==
  /\ QcStep("boot", "sleep")
  /\ mutexes' \in IF HeapMayFail THEN {"none", "state", "both"} ELSE {"both"}
  /\ UNCHANGED <<stack, link, states, lateRuns>>

(* Mutant: a failed baseband is not taken for a stopped one. *)
QcPollNull ==
  /\ \/ QcStep("sleep", "poll")
     \/ QcStep("poll", IF stack \in {"null", "init"} THEN "auto" ELSE "sleep")
     \/ QcStep("auto", IF autoRun = 1 THEN "open" ELSE "sleep")
  /\ UNCHANGED <<stack, link, states, mutexes, lateRuns>>

(* Mutant: qc_auto_run is not looked at. *)
QcPollAlways ==
  /\ \/ QcStep("sleep", "poll")
     \/ QcStep("poll", IF StatusDown THEN "open" ELSE "sleep")
  /\ UNCHANGED <<stack, link, states, mutexes, lateRuns>>

(* Ten passes of rt_thread_mdelay(100), then the two conditions of an open. *)
QcPoll ==
  /\ \/ QcStep("sleep", "poll")
     \/ QcStep("poll", IF StatusDown THEN "auto" ELSE "sleep")
     \/ QcStep("auto", IF autoRun = 1 THEN "open" ELSE "sleep")
  /\ UNCHANGED <<stack, link, states, mutexes, lateRuns>>

(* Mutant: the states are reset and the stack is left as it is. *)
OpenCloseStates ==
  /\ \/ QcStep("open", "openAt") /\ UNCHANGED states
     \/ QcStep("openAt", "openQc") /\ atState' = "EXIT" /\ UNCHANGED qcState
     \/ QcStep("openQc", "delay200") /\ qcState' = "EXIT" /\ UNCHANGED atState
  /\ UNCHANGED <<stack, link, mutexes, lateRuns>>

(* quick_open_wiota closes what an earlier open left behind. *)
OpenClose ==
  /\ \/ QcStep("open", "openAt") /\ qcState # "EXIT" /\ WiotaExit /\ UNCHANGED states
     \/ QcStep("open", "delay200") /\ qcState = "EXIT" /\ UNCHANGED <<stack, states>>
     \/ QcStep("openAt", "openQc") /\ atState' = "EXIT" /\ UNCHANGED <<stack, qcState>>
     \/ QcStep("openQc", "delay200") /\ qcState' = "EXIT" /\ UNCHANGED <<stack, atState>>
  /\ UNCHANGED <<link, mutexes, lateRuns>>

(* No library call of the AT thread lasts the 200 ms of the delay. *)
OpenInit ==
  /\ \/ QcStep("delay200", "init") /\ at \notin InCall /\ UNCHANGED <<stack, qcState>>
     \/ QcStep("init", "qcInit") /\ WiotaInit /\ UNCHANGED qcState
     \/ QcStep("qcInit", "freq") /\ qcState' = "INIT" /\ UNCHANGED stack
  /\ UNCHANGED <<link, atState, mutexes, lateRuns>>

Take(field, to, value) ==
  /\ QcStep(field, to)
  /\ link' = [link EXCEPT ![field] = value]

(* Mutant: the subframe number of the earlier mode stays. *)
OpenReadPart ==
  /\ \/ Take("freq", "symbol", curFreq)
     \/ Take("symbol", "band", curMode)
     \/ Take("band", "delay50", curMode)
     \/ Take("power", "rate", curMode)
     \/ Take("rate", "qcRun", curMode)
  /\ UNCHANGED <<stack, states, mutexes, lateRuns>>

(* The reads of cur_freq and cur_mode: three go into the configuration,     *)
(* which is then set and saved, and three into the calls after              *)
(* uc_wiota_run.                                                            *)
OpenRead ==
  /\ \/ Take("freq", "symbol", curFreq)
     \/ Take("symbol", "band", curMode)
     \/ Take("band", "delay50", curMode)
     \/ Take("power", "rate", curMode)
     \/ Take("rate", "subnum", curMode)
     \/ Take("subnum", "qcRun", curMode)
  /\ UNCHANGED <<stack, states, mutexes, lateRuns>>

(* After 50 ms the frequency is checked; a refusal returns at once and      *)
(* leaves everything done so far as it is.  Whether a stack that is down    *)
(* accepts the frequency is the library's secret.                           *)
OpenCheck ==
  /\ \/ QcStep("delay50", "check")
     \/ QcStep("check", "run") /\ <<link.freq, link.band>> \in InRange
     \/ /\ QcStep("check", "sleep")
        /\ <<link.freq, link.band>> \in InRange => stack = "null"
  /\ UNCHANGED <<stack, link, states, mutexes, lateRuns>>

(* Mutant: the AT layer is not told. *)
OpenRunSilent ==
  /\ \/ QcStep("run", "power") /\ WiotaRun /\ UNCHANGED qcState
     \/ QcStep("qcRun", "sleep") /\ qcState' = "RUN" /\ UNCHANGED stack
  /\ UNCHANGED <<link, atState, mutexes, lateRuns>>

(* Mutant: the service falls back to QC_DEF. *)
OpenRunDef ==
  /\ \/ QcStep("run", "power") /\ WiotaRun /\ UNCHANGED qcState
     \/ QcStep("qcRun", "sleep") /\ qcState' = "DEF" /\ UNCHANGED stack
  /\ UNCHANGED <<link, atState, mutexes, lateRuns>>

OpenRun ==
  /\ \/ /\ QcStep("run", "atRun")
        /\ WiotaRun
        /\ lateRuns' = IF autoRun = 0 /\ lateRuns < 2 THEN lateRuns + 1 ELSE lateRuns
        /\ UNCHANGED states
     \/ /\ QcStep("atRun", "power")
        /\ atState' = "RUN"
        /\ UNCHANGED <<stack, qcState, lateRuns>>
     \/ /\ QcStep("qcRun", "sleep")
        /\ qcState' = "RUN"
        /\ UNCHANGED <<stack, atState, lateRuns>>
  /\ UNCHANGED <<link, mutexes>>

QcNext ==
  QcBoot \/ QcPoll \/ OpenClose \/ OpenInit \/ OpenRead \/ OpenCheck \/ OpenRun

-----------------------------------------------------------------------------
(* The AT thread. *)

Accept(cmd) ==
  /\ at = "idle"
  /\ cmd \in Commands
  /\ PoliteHost => qc # "boot" /\ ~Opening
  /\ commands < MaxCommands
  /\ commands' = commands + 1
  /\ UNCHANGED <<link, mutexes, qc, errors>>

(* The first thing wiota_quick_connect_start and _stop do with the service: *)
(* clr_qc_auto_run, whose rt_mutex_take(NULL) fails an assertion and spins  *)
(* for ever at the AT thread's priority, then uc_wiota_exit if it is open.  *)
ClearAndExit(wait) ==
  /\ UNCHANGED <<states, lateRuns>>
  /\ \/ mutexes # "both" /\ at' = "assert" /\ UNCHANGED <<stack, autoRun>>
     \/ mutexes = "both" /\ qcState # "EXIT" /\ autoRun' = 0 /\ WiotaExit /\ at' = wait

(* Mutant: the flags are written without the mutexes. *)
QuickStartUnlocked(f, m) ==
  /\ Accept("start")
  /\ curFreq' = f
  /\ curMode' = m
  /\ autoRun' = 1
  /\ lateRuns' = 0
  /\ UNCHANGED <<stack, states, at, sends>>

(* wiota_quick_connect_start; a mode that is out of bounds changes nothing. *)
QuickStart(f, m) ==
  /\ Accept("start")
  /\ curFreq' = f
  /\ curMode' = m
  /\ UNCHANGED sends
  /\ \/ ClearAndExit("startExit")
     \/ /\ mutexes = "both" /\ qcState = "EXIT"
        /\ autoRun' = 1
        /\ lateRuns' = 0
        /\ UNCHANGED <<stack, states, at>>

(* Mutant: the flag is cleared and the link is left up. *)
QuickStopFlag ==
  /\ Accept("stop")
  /\ mutexes = "both"
  /\ autoRun' = 0
  /\ UNCHANGED <<stack, states, curFreq, curMode, at, lateRuns, sends>>

(* wiota_quick_connect_stop. *)
QuickStop ==
  /\ Accept("stop")
  /\ UNCHANGED <<curFreq, curMode, sends>>
  /\ \/ ClearAndExit("stopExit")
     \/ /\ mutexes = "both" /\ qcState = "EXIT"
        /\ autoRun' = 0
        /\ UNCHANGED <<stack, states, at, lateRuns>>

(* Mutant: at_wiota_set_state(AT_WIOTA_EXIT) is missing. *)
QuickReturnSilent ==
  /\ \/ /\ at \in {"startExit", "stopExit"}
        /\ at' = "idle"
        /\ qcState' = "EXIT"
        /\ autoRun' = IF at = "startExit" THEN 1 ELSE autoRun
  /\ UNCHANGED <<stack, link, atState, curFreq, curMode, mutexes, qc, commands, errors,
                 lateRuns, sends>>

(* uc_wiota_exit has returned: both states become EXIT; after mdelay(100)   *)
(* a start sets qc_auto_run, and the handler answers.                       *)
QuickReturn ==
  /\ \/ /\ at \in {"startExit", "stopExit"}
        /\ at' = IF at = "startExit" THEN "startDelay" ELSE "stopDelay"
        /\ atState' = "EXIT"
        /\ qcState' = "EXIT"
        /\ UNCHANGED <<autoRun, lateRuns>>
     \/ /\ at = "startDelay"
        /\ at' = "idle"
        /\ autoRun' = 1
        /\ lateRuns' = 0
        /\ UNCHANGED states
     \/ /\ at = "stopDelay"
        /\ at' = "idle"
        /\ UNCHANGED <<states, autoRun, lateRuns>>
  /\ UNCHANGED <<stack, link, curFreq, curMode, mutexes, qc, commands, errors, sends>>

(* at_wiota_init_exec and at_wiota_cfun_setup up to their library call. *)
Cfun ==
  /\ \/ Accept("init") /\ atState \in {"DEFAULT", "EXIT"} /\ WiotaInit /\ at' = "initSet"
     \/ Accept("run") /\ atState = "INIT" /\ WiotaRun /\ at' = "runSet"
     \/ Accept("exit") /\ atState = "RUN" /\ WiotaExit /\ at' = "exitSet"
  /\ UNCHANGED <<states, req, lateRuns, sends>>

(* The library call has returned: the handler sets wiota_state and answers. *)
CfunReturn ==
  /\ \/ at = "initSet" /\ atState' = "INIT"
     \/ at = "runSet" /\ atState' = "RUN"
     \/ at = "exitSet" /\ atState' = "EXIT"
  /\ at' = "idle"
  /\ UNCHANGED <<stack, link, qcState, req, mutexes, qc, commands, errors, lateRuns, sends>>

-----------------------------------------------------------------------------
(* AT+WIOTASEND and AT+WIOTASENDNOBK.                                        *)

Control == <<stack, link, states, req, mutexes, qc, errors, lateRuns>>

(* Mutant: WIOTA_MUST_RUN is missing. *)
SendUnchecked ==
  /\ \/ Accept("send") /\ at' = "chars"
     \/ Accept("sendNoBlock") /\ at' = "charsNoBlock"
  /\ heap' = heap + 1
  /\ UNCHANGED <<stack, states, req, lateRuns, pending, kept>>

(* WIOTA_MUST_RUN, then at_wiotasend_handle_data, which asks for the text.  *)
(* Without the memory for it, or for a text of one character, the command   *)
(* fails at once.                                                           *)
Send ==
  /\ \/ Accept("send") /\ at' = "chars"
     \/ Accept("sendNoBlock") /\ at' = "charsNoBlock"
  /\ atState = "RUN"
  /\ heap' = heap + 1
  /\ UNCHANGED <<stack, states, req, lateRuns, pending, kept>>

SendRefused ==
  /\ Accept("send") \/ Accept("sendNoBlock")
  /\ atState = "RUN"
  /\ UNCHANGED <<stack, states, req, lateRuns, at, sends>>

(* The last character is there and the message is handed to the stack,      *)
(* whatever the stack is by now; without blocking the handler answers OK.   *)
Typed ==
  /\ \/ at = "chars" /\ at' = "sending" /\ UNCHANGED pending
     \/ at = "charsNoBlock" /\ at' = "idle" /\ pending' = pending + 1
  /\ UNCHANGED <<Control, commands, heap, kept>>

(* Mutant: the handler waits for the next character without a timeout. *)
SendNeverEnds ==
  /\ at = "sending"
  /\ at' = "idle"
  /\ heap' = heap - 1
  /\ UNCHANGED <<Control, commands, pending, kept>>

(* Mutant: the buffer is freed after uc_wiota_send_data only. *)
SendEndsLeak ==
  /\ at \in {"chars", "charsNoBlock", "sending"}
  /\ at' = "idle"
  /\ heap' = IF at = "sending" THEN heap - 1 ELSE heap
  /\ UNCHANGED <<Control, commands, pending, kept>>

(* No character comes for ten seconds, or the blocking call has returned    *)
(* with success, failure or a timeout: the buffer is freed.                 *)
SendEnds ==
  /\ at \in {"chars", "charsNoBlock", "sending"}
  /\ at' = "idle"
  /\ heap' = heap - 1
  /\ UNCHANGED <<Control, commands, pending, kept>>

(* at_send_callback, in the stack's thread.  After a timeout the buffer is  *)
(* not freed ("if timeout, will assert!").                                  *)
SendCallback ==
  /\ pending > 0
  /\ pending' = pending - 1
  /\ \/ heap' = heap - 1 /\ UNCHANGED kept
     \/ kept' = kept + 1 /\ UNCHANGED heap
  /\ UNCHANGED <<Control, commands, at>>

AtReturns == QuickReturn \/ CfunReturn \/ SendEnds

AtNext ==
  \/ \E f \in Freqs, m \in Modes : QuickStart(f, m)
  \/ QuickStop \/ Cfun \/ Send \/ SendRefused \/ Typed \/ AtReturns

-----------------------------------------------------------------------------
(* The baseband fails by itself and reports UC_STATUS_ERROR. *)
BasebandError ==
  /\ stack = "run"
  /\ errors < MaxErrors
  /\ stack' = "error"
  /\ errors' = errors + 1
  /\ UNCHANGED <<link, states, req, mutexes, qc, at, commands, lateRuns, sends>>

Next == QcNext \/ AtNext \/ SendCallback \/ BasebandError

(* A ready thread of the highest priority runs, and its waits end; a        *)
(* blocked AT thread leaves the processor to qc.  The host owes nothing: no *)
(* fairness on commands and on Typed.                                       *)
Fairness == WF_vars(QcNext) /\ WF_vars(AtReturns)

Spec     == Init /\ [][Next]_vars
FairSpec == Spec /\ Fairness

-----------------------------------------------------------------------------
(* Type correctness. *)
TypeOK ==
  /\ stack \in {"null", "init", "run", "error"}
  /\ link \in [Reading -> Freqs \cup Modes]
  /\ atState \in {"DEFAULT", "INIT", "RUN", "EXIT"}
  /\ qcState \in {"INIT", "RUN", "EXIT"}
  /\ autoRun \in {0, 1}
  /\ curFreq \in Freqs
  /\ curMode \in Modes
  /\ mutexes \in {"none", "state", "both"}
  /\ Opening \/ qc \in {"boot", "sleep", "poll", "auto"}
  /\ at \in {"idle", "assert"} \cup InCall \cup InDelay \cup InSend
  /\ commands \in 0..MaxCommands
  /\ errors \in 0..MaxErrors
  /\ lateRuns \in 0..2
  /\ heap \in Nat /\ pending \in Nat /\ kept \in Nat

(* An open never meets a missing mutex: set_qc_wiota_state in the qc thread *)
(* cannot fail rt_mutex_take's assertion, because only a start that found   *)
(* both mutexes can have armed qc_auto_run.                                 *)
OpenHasMutexes == Opening \/ autoRun = 1 => mutexes = "both"

(* From the moment AT+WIOTAQC=0 clears qc_auto_run until the next start     *)
(* sets it, the qc thread starts WIoTa at most once (the open that was      *)
(* under way), however many commands come in between.                       *)
AtMostOneLateRun == lateRuns <= 1

(* With a host that sends nothing during an open, an answered stop is       *)
(* final: nothing is being opened and the service is in its EXIT state.     *)
StopIsFinal == at = "idle" /\ autoRun = 0 => qcState = "EXIT" /\ ~Opening

(* With such a host a link that quick connect brought up runs with the      *)
(* frequency and with every parameter of the one mode that was asked for.   *)
LinkMatchesRequest ==
  qcState = "RUN" /\ ~Opening /\ at \notin {"startExit", "stopExit"} =>
    link = Request(curFreq, curMode)

(* WIOTA_MUST_RUN(wiota_state) admits a data command: then the stack is up. *)
(* It says so while the text of a message is typed, too.                    *)
Quiet == at \in {"idle"} \cup InSend
MustRunMeansRunning == Quiet /\ atState = "RUN" /\ ~Opening => LinkUp

(* ... and the other way round: a running stack is one the AT layer knows.  *)
RunningIsKnown == Quiet /\ LinkUp /\ ~Opening => atState = "RUN"

(* Between the check and the use of the stack, which may be ten seconds a   *)
(* character apart, only a failure of the baseband can make quick connect   *)
(* close the stack under a message.                                         *)
SendsOnLink == at \in InSend /\ errors = 0 => stack = "run"

(* quick_open_wiota initialises a stack that is down, never one that is     *)
(* initialised or running.                                                  *)
InitOnDownStack == qc = "init" => stack = "null"

(* What rt_mutex_take asserts (rt-thread/src/ipc.c): no thread takes a      *)
(* mutex that was never created.                                            *)
MutexNotNull == at # "assert"

(* While quick connect is armed with a frequency the stack accepts, a       *)
(* stack that is down comes up again, unless the host disarms it or the AT  *)
(* thread is lost in an assertion.                                          *)
Armed      == autoRun = 1 /\ <<curFreq, curMode>> \in InRange
Reconnects == Armed /\ StatusDown ~> stack = "run" \/ ~Armed \/ at = "assert"

(* A command that was accepted is answered, whatever the host types or      *)
(* leaves out after it.                                                     *)
Answered == at # "idle" ~> at \in {"idle", "assert"}

(* No path through a send loses its buffer or frees it twice: a buffer is   *)
(* in the handler, with the stack, or left to the stack after a timeout.    *)
BuffersAccounted == heap = pending + kept + (IF at \in InSend THEN 1 ELSE 0)
=============================================================================
