# WIoTa AT modem: a TLA+ verification project

The program is the firmware of a WIoTa module: an RT-Thread application that puts an
AT command interface in front of a binary protocol-stack library (`PS/lib`). What the
repository adds to RT-Thread and the library is small and concurrent: AT handlers, a
background thread that opens the link by itself, callbacks from the stack's thread, one-shot
timers, and a few demonstrations of the API. All paths below are relative to `src/`.

## 1. Inventory

| Part | Code | State it keeps | Operations | Modelled in |
|---|---|---|---|---|
| Quick connect service | `applications/quick_connect/quick_connect.c` | `cur_mode`, `cur_freq`, `qc_auto_run`, `qc_wiota_state`, two mutexes | `quick_connect_task`, `quick_open_wiota`, `wiota_quick_connect_start/_stop` | `QuickConnect` |
| AT layer, life cycle of the stack | `PS/at/at_wiota.c` | `wiota_state` | AT+WIOTAINIT, AT+WIOTARUN, AT+WIOTAQC | `QuickConnect` |
| AT layer, transparent transmission | `PS/at/at_wiota.c` | a line buffer, the end string | AT+WIOTATRANS | `TransMode` |
| AT layer, sending | `PS/at/at_wiota.c` | send buffers | AT+WIOTASEND, AT+WIOTASENDNOBK, `at_send_callback` | `QuickConnect` |
| AT layer, parameters | `PS/at/at_wiota.c` | none | one command per parameter of the stack | no |
| GPIO report, message store | `PS/at/at_wiota_gpio_report.c`, `wiota_recv_callback` | `wiota_save_data[]`, `wiota_save_index`, `wiota_gpio_mode` | `wiota_data_insert`, AT+STOREDATA, AT+MODE | `StoreRing`, `StoreQueue` |
| GPIO report, pulses | `PS/at/at_wiota_gpio_report.c` | two timers, two pins | report pulse, AT+PULSEWIDTH, AT+WAKEOUTPIN | report pulse: `StoreRing` |
| Simplified AT, settings | `PS/at_simplified/at_simplified.c` | `at_simplified_local` | AT+POWER, +ADDR, +SYNC, +FREQ, +BW, +RATE, +SLEEP, +WAKEUP | `AtSimplified` |
| Simplified AT, data | the same | the stack's compression flag | AT+SEND, `at_wiota_recv_callback` | `AtSimplified` |
| Subframe number | `PS/at_simplified/subframe_app.c` | none (pure) | `wiota_app_subframe` | `Subframe` |
| Relay demonstration | `PS/app/test/wiota_relay_test.c` | a queue of pointers, the last message number | receive, relay, originate | `Relay` |
| Fixed-time gateway and device | `PS/app/test/test_wiota_fixed_time_*.c` | the gateway's delay; a device's queue of broadcasts and its start time | broadcast and wait; receive, report in time | `FixedTime` |
| Protocol stack | `PS/lib`, `PS/app/include/uc_wiota_api.h` | status, configuration, radio | `uc_wiota_*` | external, by its use |
| Application start | `applications/wiota_app.c`, `main.c` | none | order of start | initial state of `QuickConnect` |
| AT server, RT-Thread, drivers, FastLZ | vendored | | | by their use |
| Factory, boot and log commands; other demonstrations; peripheral examples | `PS/at/at_factory.c`, `at_boot.c`, `PS/app/test/`, `applications_example/` | none worth the name | | no |

### How the parts interact

- The **AT server thread** (priority 3) runs every AT handler to its end, one at a time. It
  blocks while it waits for a character, in `rt_thread_mdelay`, and possibly inside the
  library calls `uc_wiota_init`, `uc_wiota_run` and `uc_wiota_exit`.
- The **qc thread** (priority 31, the idle thread's) calls the same library functions and
  writes the AT layer's `wiota_state` through `at_wiota_set_state`. It can be preempted
  between any two instructions. The mutexes it shares with the AT thread guard one
  assignment each, never a sequence.
- The **stack's thread** calls `wiota_recv_callback` when a message arrives, which in store
  mode writes the ring the AT thread prints and empties. Nothing is locked. It also calls
  `at_send_callback`, which frees the buffer of a message that AT+WIOTASENDNOBK left to the stack.
- **The timer thread** ends the report and wake-out pulses. It marks a timer as run out before
  it calls the timer's callback, so the callback may come after the timer was started again.
- **Fixed-time devices** share nothing but the air: a gateway's broadcast starts a clock in each
  of them, in the stack's thread, and a task acts on it later.
- The simplified command set and the full one are alternatives chosen at build time.

### What is hard, and what makes each part correct

`PROJECT.json` lists every hazard at its line with the property that covers it. In short:

- *Quick connect*: an open is some fourteen steps with two delays, and a stop or a start can
  come between any two of them; three places (`stack`, `wiota_state`, `qc_wiota_state`)
  must agree at the end. An armed service must bring a failed stack up again.
- *Sending*: `wiota_state` is checked before the text is typed, at up to ten seconds a character,
  and the stack is used after it, while the qc thread runs; each of the six ways a send can end
  disposes of the buffer in its own way.
- *Message store*: a two-thread ring with ownership of heap buffers: each buffer freed once,
  each message printed at most once, oldest first, the newest kept, each stored message
  announced by a pulse that ends. An empty message is a case of its own: the insertion tests its
  pointer, the walk its length as well.
- *Transparent transmission*: the line buffer must be long enough for every end string, and
  line break, end string and overlong line can all meet in one character.
- *Relay*: relays broadcast to relays that broadcast back, each message three times, and the
  comparison of one number is all that ends the storm; it must not end before everyone has the
  message, and no copy may be lost to a full queue, because its buffer is lost with it.
- *Simplified settings*: the local copy from which queries are answered must be what the
  stack runs with, through refusals, restarts and sleeps, and a reported frequency must be
  one the index arithmetic can transmit.
- *Simplified data*: whether a message is compressed travels in a flag of the stack that may
  outlive it; the number of subframes is found by one halving, one average and three roundings.
- *Fixed time*: the reports of all devices must fit between two broadcasts whose duration the
  gateway learns only afterwards, wherever a broadcast waited on its way to a device's task.

## 2. Modules

| Module | Kind | Content |
|---|---|---|
| `QuickConnect` | system | qc thread, AT thread, stack |
| `MCQuickConnect` | instance | two frequencies, two modes |
| `QuickConnectProofs` | proofs | ten theorems |
| `StoreQueue` | abstract specification | a queue of the newest messages |
| `StoreRing` | system, refines `StoreQueue` | the ring and the report pulse, step by step |
| `StoreRingProofs` | proofs | six theorems, among them the refinement |
| `TransMode`, `MCTransMode`, `TransModeProofs` | system, instance, proofs | transparent transmission; six theorems |
| `Subframe`, `SubframeProofs` | pure operators, proofs | the subframe number; lemmas on rounded division, two theorems |
| `AtSimplified`, `MCAtSimplified`, `AtSimplifiedProofs` | system (extends `Subframe`), instance, proofs | settings and messages of the simplified set; six theorems |
| `Relay`, `MCRelay`, `RelayProofs` | system, instance, proofs | a network of relays; six theorems |
| `FixedTime`, `MCFixedTime`, `FixedTimeProofs` | system in discrete time, instance, proofs | a gateway and its devices; three theorems |

A definition called "Mutant" in a comment is a plausible mistake in the definition that
follows it. It is never part of a specification; substituting it shows that the property it
is paired with in `PROJECT.json` depends on the code being as it is.

### QuickConnect

| Model | Code |
|---|---|
| `stack` | what `uc_wiota_get_state` reports: `null`, `init`, `run`, `error` |
| `link` | the parameters handed to the stack, each with the request it was read from |
| `atState`, `qcState` | `wiota_state`, `qc_wiota_state` |
| `autoRun`, `curFreq`, `curMode` | `qc_auto_run`, `cur_freq`, `cur_mode` |
| `mutexes` | how far `quick_connect_init` got |
| `qc`, `at` | program counters of the two threads |
| `lateRuns` | a history variable: starts by qc since the service was disarmed |
| `QcPoll` | the two conditions of `quick_connect_task` |
| `OpenClose`, `OpenInit`, `OpenRead`, `OpenCheck`, `OpenRun` | `quick_open_wiota`, top to bottom |
| `QuickStart`, `QuickStop`, `QuickReturn` | `wiota_quick_connect_start`, `_stop`, after the library call |
| `Cfun`, `CfunReturn` | AT+WIOTAINIT and AT+WIOTARUN |
| `heap`, `pending`, `kept` | send buffers allocated; those the stack has yet to answer for; those left to it after a timeout |
| `Send`, `SendRefused`, `Typed`, `SendEnds` | AT+WIOTASEND and AT+WIOTASENDNOBK: the check and the buffer, the last character, the ways out |
| `SendCallback` | `at_send_callback` |
| `BasebandError` | the stack's own failure |

The grain follows the priorities. A qc step is one access to shared state and is possible only
while the AT thread is blocked; the AT thread between two points where it blocks is one action.
Assumed of the library, because only its callers are visible: a second init is ignored or starts
over (both are tried); a run on a stack that is down does nothing; the frequency check may refuse
any frequency on a stack that is down; no init, run or exit of the AT thread lasts the 200 ms delay
of an open (a send may last as long as it likes); a message sent without blocking is answered by
the callback once or never. A failed `RT_ASSERT` loops for ever at its thread's priority: the state
`at = "assert"`.

### StoreRing and StoreQueue

`ring`, `index`, `mode` are `wiota_save_data`, `wiota_save_index`, `wiota_gpio_mode`; a message
is its number; `live` is the heap; `printed` is the history of the output. `Receive` and the
`Insert*` actions are `wiota_recv_callback` and `wiota_data_insert` in the stack's thread, the
`Show*` actions are `wiota_data_show` in the AT thread, each one access to shared memory. Of a
message's length matters only whether it is 0: `Empty` are the messages delivered so, `sized` the
slots with a `data_len` above 0. `wiota_data_show` tests both (`at_wiota_gpio_report.c:138`) but clears
the pointer in any case (line 151): an empty message is neither printed nor freed, and `NoLeak`
says that its buffer is the only kind that is ever lost. `StoreQueue` has `DropEmpty` for it.
`broken` records a double free, a read after free and an index outside the array, where C
has no defined outcome. `timer`, `due` and `pin` are the report pulse: `Report` and `ReportStart`
are `wiota_gpio_report_state` at the end of an insertion, `TimerExpires` is RT-Thread's timer thread
taking the timer off its list and `PulseLow` the callback that lowers the pin. The timer may not have
been created; then nothing is announced. `TakeTurns` says whether the environment keeps a message
from arriving during AT+STOREDATA or at the end of a pulse. Without it the late callback of one pulse
can lower the pin of the next, and a third message finds a running timer and a low pin:
`Announced` fails then, and is claimed with `TakeTurns` only. The refinement maps the ring to the
queue `Held`, read from `First` past the empty slots. `First` depends
on both program counters: an insertion has already moved the index when it displaces, and a
walk has already printed what is behind it.

### TransMode

One `Read(c)` is one pass of the loop of `at_wiotatrans_process`: append, test for a line break,
for the end string, for the length, send. `ThrowAway` and `Silence` are the two loops that
discard until 200 ms pass without a character. `lines` is a history of what was typed in complete
lines that were not thrown away. The sizes of the buffer are constants, so that the theorems hold for all of them;
`CrcLen >= 2` is the one fact about them the code silently relies on. A line that is too long is thrown
away with its end string, which the code has already found and cut off (`nRun` is set to 1 again): it does not leave the mode,
and `NothingLost` and `LeavesOnEnd` speak of the other lines. That an overlong line never leaves is part
of `LeavesOnEnd`.

### AtSimplified

`local` is `at_simplified_local`; `config` is what the running stack has been told since
its last restart; `ids` are the wake-up ids the last command gave to it. A command is one action, because
nothing else writes these. A library call may refuse a setting (`Give`, `SetFreq`). Frequencies
and bandwidths are integers on a common grid and the tables are constants. After AT+SLEEP the
chip starts afresh, or the sleep did not succeed and the handler returns. The calls inside
`at_wiota_run` are assumed to succeed, as the code does.

`Send` is AT+SEND. A text is its length; what `fastlz_compress` makes of it is any length, and the
code takes it if it is shorter than the four bytes of address and the text. `air` is the message
handed over, `mark` the stack's flag that it is compressed, with which the message goes out: whether the flag outlives a message,
a setting or a restart is the library's secret, so both are tried. `Printed` is what
`at_wiota_recv_callback` of a peer makes of the message: it decompresses when the flag that came
with the message says so. A length that is refused, a full heap and a host that stops typing all
end the command without a message.

### Subframe

`SubframeNum` is `wiota_app_subframe`, its steps named: `Full` (halving a long message, room for the
checksum), `Average` (over the fewest frames) and `Number` (of subframes for so many bytes). How
many bytes a subframe carries depends on the modulation and is a parameter (`load`). The code
computes `min_fram_len` by the same formula as `max_fram_len` (`subframe_app.c:94`), so every
message of up to one largest frame is given three subframes, and several short frames, where the
comment in line 110 speaks of messages that fit the smallest. A longer message is halved first, and the
number chosen is the best for the half, not for the message: 310 bytes with loads of 9 get six
subframes and take six frames, where eight subframes would take five. And a message of up to two of the largest
frames, whose half fits into one, gets three subframes as well. `SubframesFit` says what
remains true: the number is accepted by the stack, it is the best for the length it is chosen for, and the
whole message takes at most two frames more than the fewest possible, or five where its half fits into one frame.

### FixedTime

| Model | Code |
|---|---|
| `gw`, `timer` | the gateway's task: in `uc_wiota_send_data`, in `rt_thread_delay(delay_time)`, or in the assertion of `rt_timer_control` |
| `since` | history: ticks since the last broadcast ended |
| `overlong`, `outlasted` | history: a broadcast has taken longer than the plan has room for; one has taken longer than the whole round |
| `queue` | a device's `operation_queue_handle`: for each message how long ago it was received |
| `task`, `left` | its `manager_operation_task` and the ticks to `dev_start_time`, then to the end of the report |
| `late` | the start time had passed when the message was taken |
| `Delay`, `StartIn` | the two computations, the first modulo `Word` as the type is unsigned |

Times are kept as differences, and one `Tick` moves all of them; it waits for whatever is due.
All clocks are taken to run equally fast and the reception of a broadcast to coincide with its
end. The count of a broadcast and the data of the reports, which nothing tests, are left out. What the
library does with a start time in the past is its secret: it sends at once, or not at all. A
report may hold its task for the 60 s of its timeout, long enough to fill the queue.

There are two limits for the duration of a broadcast. One that leaves too little room for the reports
(`Overlong`) may make the next broadcast meet them: `NoCollision` is claimed as long as there was none.
Such a broadcast shortens the delay, down to none when it takes the whole round, and the gateway goes on.
One that takes longer than the whole round (970 ms in the code) makes the unsigned delay
wrap: it is then nearly `2^32` ticks, which RT-Thread refuses with an assertion (`rt-thread/src/timer.c:585`),
and the gateway hangs. `GatewayGoesOn` says that it hangs exactly then and otherwise broadcasts for ever. That
a broadcast does not take longer than the round and half of the range of a tick together, 24 days, is an assumption; the call has a
timeout of 60 s.

### Relay

| Model | Code |
|---|---|
| `queue` | a relay's `test_aync_queueHandle` |
| `task` | where its task is: waiting for the queue, in the delay, in `test_async_send_data` |
| `left`, `missed` | copies it has yet to send; neighbours that have heard none of them |
| `buf`, `last` | `buf->num`, `test_recv_num` |
| `num` | `data.num` of the device built with `ONLY_SEND_TEST` |
| `lost`, `relayed` | history: a full queue was met; relays of the last message, counted to 2 |

A message is its number: it carries the sender's id, which no relay has, so the second half of the
condition in line 247 is always true. `Send` is one `uc_wiota_send_data` together with
`test_recv_async_callback` in every device that hears it. Which devices hear which is any graph
(`Near`). With `Lossy` FALSE each neighbour hears at least one of the three copies, with `Lossy` TRUE
nothing is promised. A device that sends can still receive, as the API lets it.
`Patient` says that the sender's 15 s of waiting outlast the relaying of its message.
Without it a late copy of one message can meet a relay that has already gone on to the next and is relayed
again, so `RelaysOnce` is claimed for a patient sender only.

The queue is made for 20 pointers but holds 10: `uc_create_test_queue` gives it four bytes per
message, and `rt_mq_init` puts a header of four bytes before each. Hence `Capacity` is a
constant and `NothingDropped` asks for room for three copies from every neighbour: with the
code's sizes a relay may hear three devices, not six.

## 3. Runs

| Run | Bounds | Question and answer |
|---|---|---|
| `qc_polite` | 2 frequencies, 2 modes, 6 commands of 4 kinds, 2 failures; the host waits for an open to end | The three states agree, a stop is final, a link has the parameters of one request, and a message is typed and sent on a running stack unless the baseband fails. |
| `qc_any` | the same, 4 commands of any of 7 kinds at any moment, 1 failure, heap may refuse | No missing mutex in an open, one late start at most, every send buffer has one owner, every command is answered, and the service reconnects. |
| `qc_stale` | impatient host | A stop in the middle of an open leaves `wiota_state` RUN on a stack that is down (`quick_connect.c:241`). |
| `qc_boot` | one command | A command before the qc thread has run takes a mutex that does not exist (`quick_connect.c:92`, asserted in `rt-thread/src/ipc.c:924`). |
| `store_turns` | ring of 3, 8 messages, three of them empty, 3 mode changes | The ring is a queue of the newest messages; nothing is freed twice, nothing but the buffer of an empty message leaks; every stored message is announced. |
| `store_any` | ring of 2, 4 messages, one of them empty, 2 mode changes | With any interleaving a message is still printed at most once, and every pulse ends. |
| `store_race` | ring of 2, 5 messages, one of them empty, 2 mode changes | With any interleaving a buffer can be freed twice (`at_wiota_gpio_report.c:347`). |
| `trans` | lines of 4, end string of 2, 10 characters of 4 kinds | Nothing is written outside the buffer, broken, or lost unless its line is too long; the end string of a line that is not, and nothing else, leaves. |
| `simplified` | 2 overlapping ranges, 2 bandwidths, 6 frequencies, all 8 rates; 8 lengths of text, 5 of its compressed form, 4 loads of a subframe | Queries, stack and frequency grid agree; a refusal leaves no trace; a peer reads every message; none takes many more frames than need be. |
| `simplified_ids` | the same | The limit of the wake-up id is taken from the wrong row (`at_simplified.c:297`). |
| `relay` | sender and two relays in a triangle, a third relay behind one of them; queue of 9, 3 copies, 3 messages, numbers modulo 3 | Every relay passes every message on exactly once, nothing is dropped, the storm ends. |
| `fixed_time` | two devices on the list and one that is not, queue of 2, frames of 2 ticks in slots of 2, 4 durations of a broadcast, times modulo 64 | Reports sent at their start time meet neither each other nor the next broadcast; the gateway goes on until a broadcast outlasts the round. |

**Why the bounds are enough.** Two frequencies and two modes distinguish an old from a new
request, and the pair that is out of range gives the refusal path. Six commands are start,
send, start, stop and two more; a baseband failure can fall anywhere among them. With an
impolite host four commands are two that overlap an open, a send and one after it. A
ring of 3 with 8 messages wraps twice and refills after a walk, and its empty messages are the second, fifth and sixth, so that one is met by a walk and displaced, alone and after another; a ring of 2 keeps the
interleavings of two threads small while one can lap the other. Ten characters are two whole lines
with an end string or one overlong line and one after it. In the simplified set the state space
is finite without bounds; the lengths are the limits of both kinds of message (310 and 1021 with the
address), one past each, one that is a little more than one largest frame, an empty and a short text; the loads have a first subframe as long as the
others and shorter ones. The relays have a cycle and a path, a queue that just has room
(3 copies of 3 neighbours), and with three numbers every message sequence wraps and one starts with
the number `test_recv_num` is born with. The broadcasts of `fixed_time` take one tick, two (the most
that leaves room for the reports), the whole round (8), so that no delay is left, or one tick more (9), so that it wraps; a task held by the stack lets the
queue fill and messages age past every start time.

**Deadlock** is checked in `qc_polite`, in the simplified runs and in `fixed_time`: the qc thread polls
for ever, a command is always possible and time goes on. `qc_any` and `qc_stale` say `CHECK_DEADLOCK FALSE` because a
failed assertion really stops both threads; the `store_*` runs, `trans` and `relay` because their bound on
messages or characters ends a behaviour.

**Fairness.** In `QuickConnect`, `FairSpec` has weak fairness of `QcNext` and of `AtReturns`. RT-Thread runs a ready
thread of the highest priority; delays and library calls end, which gives `AtReturns`, and a
blocked AT thread leaves the processor to qc, which gives `QcNext`. `AtReturns` includes the end of a
send: `get_char_timeout` and the blocking call have timeouts. Commands, the last character of a text and failures of
the baseband have no fairness: a host owes nothing. The
liveness properties are `Reconnects` and `Answered`. In `StoreRing`, `FairSpec` has weak fairness of `Insert` (the
stack's thread, once in an insertion, waits for nothing) and of `Pulse` (a running timer runs out and
its callback is called); none of messages or commands. The liveness property is `PulseEnds`.
In `Relay`, `FairSpec` has weak fairness of `Work(d)` for each device: delays and sends end, and a task
blocked on its queue is woken by a message. The sender need never send. The liveness property is
`StormEnds`. In `FixedTime`, `FairSpec` says that time goes on and what is due is done (`Next`) and that
a broadcast that has taken one of its durations ends (`Gateway`); the liveness property is `GatewayGoesOn`.

**A polite host** (`PoliteHost`) sends nothing while an open is under way. It is the condition
under which the service keeps its promises; the run `qc_stale` shows it is needed.

## 4. Proofs

Every theorem holds for all values of the constants; the assumptions are the named ASSUMEs of
the modules and those a theorem states. Where an invariant is not inductive it is
strengthened:

- **QuickConnectProofs.** `LateInv` adds to `TypeOK` that a program point before
  `uc_wiota_run` has not yet counted a late run: that gives `TypeCorrect`, `NoMissingMutex`
  and `OneLateRun` for any host, and with the sum of the buffers, which is inductive with the types,
  `NoBufferLost`. For a polite host `StopInv` ties the AT thread's program
  counter to the flag and the qc state (`PoliteStopIsFinal`). For a polite host that uses quick
  connect, AT+WIOTARUN=0 and the two send commands only (`QuickOnly`), `QuickInv` adds at each program point of an open
  what the stack is (`StackInv`), what the AT layer believes (`AtStateInv`) and which fields of
  the link are already those of the request (`LinkInv`); this gives `PoliteStatesAgree`,
  `PoliteRunningKnown`, `PoliteInitOnDownStack`, `PoliteLinkMatches` and `PoliteSendsOnLink`, the last because
  without a failure the qc thread never gets past its poll while a message is typed. The run `qc_polite` has the
  same restriction.
- **StoreRingProofs.** `Typed` bounds the index at each program point. `OnceInv` holds under
  every interleaving: a message is in one slot at most, one on its way is nowhere yet, and a
  printed one is in the ring only in the slot the walk has yet to clear; hence `NeverTwice`.
  With `TakeTurns`, `TurnInv` adds that the live buffers are exactly those in the ring, less
  the one being replaced or cleared; and those empty messages have left behind; hence `TurnsSound` and `TurnsNoLeak`. `PulseInv` says that the pin is high exactly
  while the timer runs or its callback is due, which gives `TurnsAnnounced`. `TurnsQueue` is the refinement of
  `StoreQueue`: `QueueInv` adds to `TurnInv` that, read from `First`, the empty slots come before the
  messages, that a walk goes once around and leaves empty slots behind it, and that an index of -1
  outside an insertion means an empty ring (`WalkOK`). A copy then appends a message and, when
  the ring was full, loses the eldest; a print takes the first; every other step leaves `Held` alone, the moved index
  making up for the moved program counter.
- **TransModeProofs.** `BufInv` says that the characters in the buffer hold no complete line and
  are not yet too long; `SafeInv` adds the two properties of messages. `InsideBuffer` uses that
  the tolerated overlong line (`MaxLen` + the end string + 2) is below the size of the buffer.
  `EndStringLeaves` needs that the lines read end with LF (`LineInv`): the end string has no line
  break, so its occurrence at the end of all lines lies in the last one. `LinesArrive` needs to know that in
  any mode in which another message may come the lines are exactly the messages joined (`LostInv`). The joining
  is a recursive function over the messages; that it has one solution and no other is proved by
  extending a solution message by message and by taking the least index at which two would differ
  (`JoinExists`, `JoinsAgree`), so a longer sequence of messages goes on from the shorter.
- **AtSimplifiedProofs.** `Copies(local, config)` is the relation a restart establishes, a change
  of one setting keeps, and a refusal does not touch. The grid argument of
  `ReportedIsTransmitted` rests on a lemma that division by the width undoes the rounding. `AirInv`
  says of the message just handed over that its flag says whether it is packed and that its number is
  that of `SubframeNum` for a load in the table; `PeerPrintsText` and, with the lemmas of `SubframeProofs`, `FittingSubframes` follow.
- **SubframeProofs.** A rounded-up division is the least factor that suffices (`CeilDivFacts`); hence
  the average fits into the fewest frames, and the number of subframes is the least whose frames are as few
  for the length it is chosen for (`SubframeNumBest`). Twice the frames of the half, and the two bytes of the
  checksum, bound those of the message (`SubframeNumNear`).
- **RelayProofs.** For a patient sender `StormInv` says that the only number about is the sender's
  (`OnlyLast`) and that a relay that has relayed it remembers it (`Remembers`): `NoEcho`. `SpreadInv`
  adds, when the air lets one copy through, that a neighbour not in `missed` has the message
  in its queue, in its task or behind it (`HeardHas`), and that after a send all neighbours have
  (`AllHeard`): `NobodySkipped`. `RoomInv` counts the copies sent within the hearing of a relay:
  its queue holds no more messages than that, and a patient sender sends so few that three of each neighbour
  suffice (`RoomEnough`). `ReachInv` adds that a relay that remembers the number has relayed the message, unless it is
  the first and has the number `test_recv_num` is born with; with `AllHeard`, when all is quiet the relays
  that have relayed are closed under hearing and hold `Reached`, the smallest such set (`EveryoneReached`, which assumes enough room and no loss). `StormDies` is the safety half of
  `StormEnds`: three finite sets, the relays that have yet to find the message new, what the tasks
  have yet to do and what the queues hold, of which every step but a new message shrinks one and leaves those before
  it alone. All of them hold for every finite graph.
- **FixedTimeProofs.** `Plan` relates each clock to the ticks since the last broadcast: the gateway's delay
  and that time add up to the rest of the round, a message is no older than it, and a report ends at its
  place in the plan. While no broadcast was overlong the plan holds (`PlanInv`), so two reports are a frame
  apart and all of them end before the delay does: `ReportsApart`. `GatewayLostIff` is the safety half of
  `GatewayGoesOn`: up to the length of a round the delay is what is left of it, and beyond it lies at the upper end of
  the word, so the timer refuses it then and only then.

Every invariant and action property of a passing run, and the refinement, is the subject of a theorem. Model-checked only are
the liveness properties `Reconnects`, `Answered`, `PulseEnds`, `StormEnds` and `GatewayGoesOn`: fairness
and what is enabled are outside the prover. The prover has no induction over data; where an argument needed one it was made
by a least counterexample (`TransModeProofs`) or avoided, by counting the empty slots (`StoreRing`) and
by saying `Reached` as the smallest closed set (`Relay`).

## 5. Disagreements between code and repository

Four runs end in a violation; `PROJECT.json` quotes the line each of them contradicts.

## 6. Not modelled

- The inside of the protocol stack: a library without source. What it may do with a second init, a past
  start time, a flag or a refused call is left open in the models that meet it.
- The parameter commands of `at_wiota.c` (AT+WIOTAFREQ, +WIOTACONFIG, +WIOTAPOW and the like), the radio
  queries, AT+WIOTARECV, AT+WIOTALPM and the configuration of paging: each parses its arguments and hands them to the library, and
  keeps no state. AT+WIOTACONFIG reads the configuration and writes it back, as `quick_open_wiota`
  does, but asks for `wiota_state` INIT, so the two can meet only where AT+WIOTAINIT is
  mixed into an open.
- AT+PULSEWIDTH, AT+WAKEOUTPIN and the wake-out pulse: no other part reads those pins, and what they do to
  a pulse under way (a pin left high) contradicts no line of the repository. Two hazards describe it.
- The content of flash after a refused frequency, and the argument parser's writes through a
  pointer of another width: both are listed as hazards.
- AT+SN, AT+VER and AT+RSSI and the three state pins of the simplified set; the preamble times of
  `subframe_app.c`, for which no caller asks; the LED of the relays.
- Formatting and printing, the watchdog, factory, boot and log commands, the straight-line
  demonstrations of sending and sleeping: no state of their own.
- RT-Thread with its file systems, network stacks and device drivers, FastLZ and the peripheral examples.
  They are nearly all of the repository's lines, but vendored; the firmware's own code is some ten
  thousand lines, most of them straight calls of the library. The kernel's priorities, mutexes,
  queues, heap and one-shot timers are modelled as far as the firmware depends on them.

## 7. What is left

The order in which the project was built was: quick connect, the message store, transparent transmission,
the simplified settings, the relays, fixed time, the simplified messages with the subframe number, and sending.
What could be added to it:

1. the commands on the two pins, if it is decided what a pulse that is cut short should do;
2. the configuration in flash across a reset, with the refused frequency of `quick_connect.c:225`;
3. results of the library calls inside `at_wiota_run`, if the code comes to look at them.
