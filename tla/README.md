# OpenWize in TLA+

TLA+ models of the OpenWize device stack, the TLC configurations that check
them, and theorems about them that TLAPS has checked. OpenWize is the firmware of
a Wize (LAN, 169 MHz) device: a few FreeRTOS tasks that exchange frames with a
gateway through a radio. Paths below are relative to the repository, and a file
name alone is that of the component's source.

## The system

| Component | Source | State | Operations |
|---|---|---|---|
| Network device | `sources/WizeCore/net` | `eState` (UNKNOWN, IDLE, BUSY, ERROR), `eErrType`, media, protocol configuration, the radio behind it | Init, Uninit, Send, Recv, Listen, Ioctl; the PHY's callback |
| Network manager | `sources/WizeCore/mgr/src/net_mgr.c` | owner (`hCaller`, `hMutex`), `hLock`, listen type, `bListenPend`, `u8Detected`, the request's timer | Open, Close, Send, Listen, ListenReady, SetUplink, SetDwlink; its task |
| ADM, INST, DWN sessions | `sources/WizeCore/mgr/src/{adm,inst,dwn}_mgr.c` | `eState`, delay timer, pending flags, message buffers, the campaign | one function `fsm(event) -> flags` each |
| Session dispatcher | `sources/WizeCore/app/src/ses_dispatcher.c` | active session, pending command, event group | its task: calls, network events, delays, results; the configuration of the device |
| Commands | `.../app/src/internal/adm_internal.c` | last command and response | prepare the response (`AdmInt_PreCmd`) |
| Ping replies | `.../app/src/internal/inst_internal.c` | ring of the eight best replies | Init, Add, End |
| Application interface | `.../app/src/wize_api.c` | a mutex per session | ExecPing, Send, SendEx |
| Time manager | `.../app/src/time_mgr.c` | pending correction, drift | its task |
| Protocol | `sources/WizeCore/proto` | configuration, statistics | build, extract, update and clear statistics |
| Time events | `sources/Samples/TimeEvt` | sorted list of timers, one hardware alarm | start, stop, update of the clock, the alarm's interrupt |
| Parameters | `sources/Samples/Parameters`, `demo/.../app/gen` | the values | local and remote access, default values |
| Image storage | `sources/Samples/ImgStorage` | block bitmap, pending double words, flash | Setup, Init, StoreBlock, IsComplete |
| Reed-Solomon | `sources/Samples/ReedSolomon` | tables | encode, decode |
| CRC, cryptography | `sources/Samples/{CRC_sw,Crypto}` | keys | check, cipher, hash |
| Logger | `sources/Samples/Logger` | pool of lines, semaphore, mutex, queue | Put, Post, Frame; its task |
| Serial port, fake PHY | `demo/Nucleo-L476/{bsp,device/PhyFake}` | port, frame buffer | Tx, Rx, abort, interrupts |
| Board, demonstration | `demo/Nucleo-L476` | | the application task calls ExecPing, then SendEx, in turn |

How they interact. An application task calls `wize_api.c`, which takes the
session's mutex, posts an OPEN to the dispatcher's notification word
(overwriting it) and waits on an event group. The dispatcher configures the
device from the parameters and runs the session's `fsm`; the `fsm` calls
NetMgr_Send and NetMgr_Listen, which start the radio and a timer and return. The
PHY's interrupt and the timer's or their bits into the notification word of the
net_mgr task, which turns a word into events and or's these into the
dispatcher's word. A received command is answered, and executed once its answer
is sent. The session then starts a delay (a time event, whose expiry is again a
bit of the dispatcher's word), or ends: the dispatcher closes the network manager
and sets the bits the application waits for. A command may write the parameters
of the clock, which the time manager's task polls.

What is hard. Everything is signalled by bits that are or-ed together: two
events that arrive before a task runs are one word, and the order is lost.
Interrupts change the device between two statements of the task. A refused call,
a lost answer or a late timer leaves a session, a lock or a waiting task behind.
Timers outlive what they were armed for; counters and differences of times have
narrow unsigned types; flash can be programmed once; a buffer is shared by both
directions of a line. The list under `hazards` in `PROJECT.json` has each of these
at its line.

What makes each part correct:

- *network manager*: an accepted request is answered; SEND_DONE means sent;
  a message the caller still holds is not overwritten; the radio works with the
  configuration of the session;
- *dispatcher and sessions*: a session runs for a waiting caller and always has
  something on its way; a call returns, with the outcome of its own session; a
  command is executed at most once, and only when it has been answered;
- *commands*: a command changes what the head-end may write, to legal values, all
  or nothing; an answer fits and tells nothing that may not be read; *ping
  replies*: the strongest is reported;
- *DWN*: no window outside the announced days and blocks, never without a timer,
  and an end;
- *time events and clock*: armed timers expire, once, neither early nor late, over
  midnight and over corrections of the clock; no midnight is missed;
- *image storage*: what is complete is whole, no double word is programmed twice;
- *protocol*: what is delivered is what was sent; every frame is counted once;
- *logger*: who passes the semaphore finds a buffer; lines come out whole, once,
  in order;
- *serial port*: frames are sent and received whole; the port is never left busy
  under an idle device.

## Modules

| Module | What it is |
|---|---|
| `NetMgr` | the net_mgr task on the network device, with the PHY's and the timer's interrupts and the task that owns the manager; the mapping to `NetService` |
| `NetService` | abstract: what the manager promises the sessions |
| `MCNetMgr` | `NetMgr` for TLC, with the retry loops |
| `NetConf` | `NetMgr` composed with the parameters and the configuration of device and radio |
| `NetMgrProofs` | the theorems about `NetMgr` and `NetConf` |
| `SesDisp` | dispatcher, ADM and INST sessions, commands and application calls, on `NetService` |
| `SesDispProofs` | the theorems about `SesDisp` |
| `DwnMgr`, `MCDwnMgr`, `DwnMgrProofs` | the DWN session, an instance, its theorems |
| `TimeEvt`, `MCTimeEvt` | the list of timers on the RTC's alarm, and with a clock that is updated at midnight |
| `TimeMgr` | the time manager's task, on `TimeEvt` |
| `PingReply` | the ring of replies |
| `AdmCmd` | commands, parameters and the end of a ping, on `PingReply` |
| `ParamTable`, `MCAdmCmd` | the demonstration's table of parameters; `AdmCmd` with it |
| `AdmCmdProofs` | the theorems about `AdmCmd` |
| `Proto`, `ProtoProofs` | frames, filters, keys and statistics, and the theorems about them |
| `ReedSolomon`, `MCProto` | encoder and decoder over any field; `Proto` with a decoder over eight elements |
| `ImgStorage`, `ImgStorageProofs` | the storage of an image, and the theorems about it |
| `Logger`, `LogService`, `MCLogger` | the logger, what it promises, the mapping between them |
| `LoggerProofs` | the theorems about `Logger` |
| `Uart`, `PhyFake` | the serial port; the fake PHY and the network device on it |
| `BoardProofs` | the theorems about `PhyFake` on `Uart`, and about `TimeEvt` and `TimeMgr` |

`SesDisp` instances `NetService` with the variables of the same names, so the
network manager there is whatever `NetService` allows, and `NetMgr` has the
refinement mapping (`Owed`, `Service`, `ServiceSpec`) that makes it such a manager.
`Logger` is in the same way a `LogService`, which keeps the lines and nothing of the
pool. TLC checks both mappings on an instance; TLAPS proves them.

Definitions named `Bug...` stand before the definition they alter. They show that
a property fails when the code has that mistake; no specification uses them.

Each module has one type invariant. Where a run checks it, it is a part of a named
conjunction with the safety invariants of the module that have it as their ground
(`SesInv`, `TimeInv`, `TimeMgrInv`, `DwnInv`, `ImgInv`, `StatsInv`, `AdmInv`,
`IInv`).

### NetMgr

The task's loop is cut wherever an interrupt can change what the task reads
next: `Wait` (the word is taken), `Switch` (the device's state is read), `FsmTx`,
the five `FsmRx...`/`FsmNoRx`, `FsmTimeout` (the blocks of `_net_mgr_fsm_`),
`Abort`, `Notify`, `Release`. `pc` says which is next; `word` and `back` are
`u32Evt` and `u32BackEvt`. Error, abort and retry helpers are operators that give
the set of devices they may leave: `Cleared`, `TryAbort`, `Started`,
`NotStarted`. A call into the radio is one step with the change of the state
beside it.

The variables that are reset at the head of the loop are reset in `Notify`,
after which nothing reads them. `phase`, `req`, `unread`, `reading` and `sent`
are not in the code: they follow the caller (which uses the manager as the
sessions do: a request after the last has ended) and say what the properties are
about. `EvtCb` is the callback by which the PHY's interrupt changes the device and
or-s its event into the word.

The caller starts a session only when the tasks have nothing to read
(`Quiescent`): the call comes from an application task, which the demonstration
runs below the two tasks. It may close at any time between two steps of its own.

`ErrorEvt` is `{RX_STARTED, TX_COMPLETE}`: `NETDEV_EVT_ERROR` is 0x05 and is
or-ed into the word like the others. No driver in the repository raises
`PHYDEV_EVT_ERROR`; `net_api.c` handles it, so `PhyErrorEvents` switches it on.

### NetConf

A session that has opened the manager reads the parameters and hands them to the
device, first the medium (`CfgMedium`), then the protocol (`CfgProto`). An exchange
then sends and listens (`Exchange`), a download tunes its downlink and opens a
window (`Tune`, `Window`), again after a window that has expired (`NextWindow`). The
other calls of the interface are `SetField` and `SetUplink`. The parameters are
written by the application or by a command (`WriteParam`) whenever no session is in
the middle of reading them. `OnAirAsAsked` compares what the radio uses with what
the session has asked for. A parameter is 0, 1 or `OutOfRange`; `Touched` names the
one that is written under way, `MaxWrites` bounds how often.

### SesDisp

`pc` follows `_ses_disp_fsm_` through its three parts (`api`, `net`, `delay`), with
a step for each run of a session's `fsm` and a step for what is done with its
flags. An `fsm` step is one action with the calls it makes: `AdmIdle` ...
`AdmSending`, `InstIdle` ... `InstListening`; `Goto` is the end of both functions,
where COMPLETE is added. `Value`, `BckFlg`, `SetBits` and `Mask` are the results and
the event group, `Outcome` what each call makes of the bits it wakes with.

Simplifications, none of which removes a step of the dispatcher:

- the manager's answers come between two words of the dispatcher; delays expire
  at any time, and with `Concurrent` the two application tasks call at any time,
  whatever their priority (the call overwrites the dispatcher's word);
- NET_EVENT_ERROR and NET_EVENT_FRM_PASSED are left out: no session tests them
  (a request that ends with an error leaves its session waiting, see below);
- commands are well formed and have growing numbers; a repeated command keeps its
  number; WRITE_PARAM stands for all that are prepared and executed the same way
  (`AdmCmd` has all of them); the number 0 (which a device that has just started
  takes for already answered) is left out;
- SES_EVT_CLOSE and SES_EVT_DAY_PASSED have no sender in the repository, the DWN
  session no opener; the arguments of the calls are valid;
- `executed` counts to 2, which is enough to see a second execution.

### DwnMgr

One action per call of `_dwn_mgr_fsm_`: `Open` (with `_dwn_mgr_adjustInit_`, whose
local variables are the operators from `Late` to `WindowLeft`), `Close`, `Ready`,
`DelayExpired` (a window, the next day, or the end) and `NetEvent`. `timer` is what
`TimeEvt` promises of one timer. `Announced` is a new announcement, which only
arrives while no session is open; a second passes when the tasks have nothing to
do. Blocks and days are counted in the widths of the code. `WindowsInCampaign`
relates the windows to the announcement, whatever has been missed or refused
before.

### TimeEvt, TimeMgr

`list` is the chain from `pCurrent`; `value`, `initVal`, `lastUpd` and `alarm` are
the code's. A tick stands for a stretch of time, `Day` ticks are a day: all that
matters is whether a timer ends before, at or after another and the midnight.
`armed` and `left` follow what the tasks have asked for, and the list and its
values are compared with them. `Scanned` is the loop of the interrupt, `Expired` what it
does for one timer. `TimerStop` is cut where the alarm may interrupt
(`TimerStopGo`). `MCTimeEvt` adds the update at midnight; `TimeMgr` is the task that
does it, with the wake-up timer of the RTC, the correction that is pending and
the comparison and the store of CLOCK_CURRENT_EPOC as two steps. `Reload` is the
register's value in its two ranges, in seconds; `ToMidnight` turns what the counter
makes of it (`FiresIn`) into ticks of `TickSec` seconds.

### AdmCmd, ParamTable, PingReply

`Receive` is the examination of a command with every test in its order (`PreCmd`,
`AnnTests`, `Refused`), `RspSent` and `RspNotSent` what becomes of its answer,
`PostCmd` the execution. `LocalWrite` may come between them. The table is a
constant: access for both sides, size, restriction; `ParamTable` is the one the
build generates for the demonstration, with the default values and what
`Storage_Init` sets. A ping (`PingOpen`, `Pong`, `PingDone`) fills the ring of
`PingReply`, which keeps the code's links between containers, so that a container
that the code unlinks is not there any more, and re-examines a command that waits
for its result.

### Proto, ReedSolomon

A frame on the air is what the checks look at. `ExchangeTests` and `DownloadTests`
list them in the code's order, the first that fails gives the code of the error,
`RxUpdate` counts it. CRC, cipher and hash are symbolic (a changed body or key is
always told). The decoder of `Proto` is a constant; `MCProto` gives it the one of
`ReedSolomon`, which is the source's algorithm for any field (`MM`, `PP`, `TT`), with
its tables in unsigned bytes: there the -1 that marks the logarithm of zero
becomes the greatest byte and the tests for -1 fail. `CorrectsUnlessZero` says
what is left: words are corrected unless such a zero had to be kept.

### ImgStorage

Which parts of the flash are written is a set; a part is the body of a block or a
double word that two blocks share, with the blocks whose bytes are in it. Blocks
are numbered as the code does, lines have four of them, a line finds its buffer
by its number. `Begin`, `EraseFailed`, `Refused` are the outcomes of ImgStore_Init, `Stored`
and `Dropped` those of ImgStore_StoreBlock.

### Logger

`Call` to `Send` follow a task through Logger_Put, Logger_Post and Logger_Frame with
`_acquire_` inlined; the index in `_scan_` is a step each. `PrintStep` is the task
that prints and releases. Lines are counted, not written: `PutEnd`, `PostEnd` and
`FrameEnd` are the last index each writes, for every stamp and size.

### Uart, PhyFake

`Uart` has the port with its registers as far as the code looks at them (RDR, CMF,
the enabled interrupts), the state of the driver (`gState`, `RxState`) and the
two interrupt routines. The PHY's port is LPUART1 (platform.c:65), whose overrun the
board disables (board/src/main.c:305): a character that nobody fetches is overwritten
by the next (`Arrive`), and the last one is the first that a reception stores. The
branch of `_bsp_com_RxISR_8BIT` that throws a character away is never taken. `PhyFake` cuts the calls of the device where an interrupt
finds them half done: a transmission before its interrupt is enabled (`DoTx`), a
reception likewise (`DoRx`), and the end of WizeNet_Listen (`Listening`), which
overwrites the state a completion has left. The far end says any character at any
time the processor is not in the interrupt. `Delivered` has what a stale or wrong
character may be read as.

## Runs

All of them pass. For each property `PROJECT.json` also has a mutant: a plausible
mistake in one definition that makes the run fail.

| Run | Shows | Distinct states |
|---|---|---|
| `MCNetMgr.cfg` | no request is lost and each is answered, SEND_DONE is true, the inductive invariant `IInv`, the implementation of `NetService` and the retry loops, with every call that can fail failing | 910 006 |
| `NetConf.cfg` | with error events of the PHY too, the radio works with the configuration of its session, and a message the session holds is not overwritten | 4 705 810 |
| `SesDisp.cfg` | sessions run for their callers, delays for their sessions, results for their calls; the outcome tells errors; every call returns; two commands | 15 746 |
| `SesDispConcurrent.cfg` | a command is executed once, after its answer, even with two application tasks that call at any time, and refusals | 4 830 577 |
| `MCTimeEvt.cfg` | three timers of all kinds: the list is the armed timers, none is late or early, over midnight and an advanced clock | 431 613 |
| `TimeMgr.cfg` | the same list under the time manager, with the alarm interrupting a stop: no midnight is missed, the drift is applied once in its period | 1 631 340 |
| `MCDwnMgr.cfg` | a session opened before, in or after its campaign, with refusals and errors: never without a timer, windows in the campaign only, and an end | 69 342 |
| `ImgStorage.cfg` | blocks in any order, repeated or lost, on a flash that fails: what is complete is whole, nothing is programmed twice, a block is dropped only for a line with its buffer | 785 279 |
| `MCProto.cfg` | frames with two wrong fields or three wrong symbols while keys are rewritten: what is delivered is what was sent, statistics add up | 210 618 |
| `MCAdmCmd.cfg` | every outcome of every command against the demonstration's table, with local writes under way, and pings; `AdmInv` has the ring of the replies in it (`RingInv`) | 501 642 |
| `MCLogger.cfg` | three tasks, two buffers: the pool serves, lines fit, the implementation of `LogService`, every task comes back | 39 010 |
| `PhyFake.cfg` | a far end that says anything at any time: frames are whole, the port never refuses, the device comes back | 48 652 |

The switches of each configuration select which of the environment's powers a run
has, so that a run says under which conditions the code keeps its promise:

- `PhyCallFails`, `ProtoFails`, `TimerFails`: the calls into radio, protocol and
  timers may fail. `PhyErrorEvents`: the driver raises PHYDEV_EVT_ERROR. With it
  `IInv`, `NoLostRequest`, `SendDoneMeansSent` and `Answered` fail (see below), so
  only `NetConf.cfg` has it.
- `NetRefuses`: NetMgr_Send and NetMgr_Listen may be refused; a refused session never
  ends, which breaks `SesInv` and `CallReturns`. `Coalesced`: a completion and
  the timeout may be in one word; it breaks `DelayHasSession`, a part of `SesInv`.
  `Concurrent`: two application tasks.
- `Disciplined`: a task starts a timer only when it is not armed, as all callers
  in the repository do but for the ones named below; without it the list breaks.
  `Preempt`: the alarm may interrupt
  TimerStop after it has looked at the head. With three timers this breaks the
  list (below), with one it does not.
- `NetFails`, `FlashFails`: the manager reports errors; the flash refuses.
- `ClosesUnderRequest`: the session is closed while the port is busy. It breaks
  `NeverRefused` (below), and is off.
- `BackBy`, `Back` are empty: a clock that is put back makes timers late and breaks
  `NeverLate` (below).

*Bounds*, and why they are enough.

- `NetMgr` has none: its state is finite as it is (one caller, sets of events);
  frames, requests and sessions go on for ever. `NetConf` bounds the writes: one
  parameter changes once, which shows a radio with the old and the new value.
- `SesDisp` bounds the numbers of the commands by `MaxCmd`; sessions and repetitions
  are unbounded. One command shows a repetition in the same and in later sessions;
  two add the change of the number. There are two application tasks, one per
  session type: the tasks of a type exclude each other by its mutex.
- `TimeEvt`: three timers give a head, an inner and a last one; a day of three ticks
  with values below and above a day; five ticks cross a midnight, and the clock may
  be advanced by one more. `TimeMgr`: one timer of four ticks and eight ticks of a
  clock have two midnights and, with a period of two days, the drift's. A tick is
  28800 seconds, a third of a day: the reload has the range of 17 bits at the first
  one and of 16 bits at the others; `WakesAfterMidnight` has every second.
- `DwnMgr`: campaigns of up to three days of ten seconds, two or three blocks three
  seconds apart; the bound on the time, 35, is behind the last window of the longest.
- `ImgStorage`: nine blocks are two whole lines and one block, as the last one of the
  source's 809; two buffers for three lines, so that lines contend for one; images
  that do not fill a line, that are whole lines, that fill the storage, and one that is
  too large.
- `MCProto`: a field of eight elements, seven symbols, two to correct: up to three
  wrong symbols, at some places, are one more than the code can do. Frames differ in
  up to two fields from one that is accepted. Two frames are enough for the
  averages and a change between them.
- `MCAdmCmd`: the whole table; one command for every error code and some that
  succeed; four gateways for a ring of three.
- `MCLogger`: lines around every boundary of the size of a buffer.
- `PhyFake`: frames of one byte and a buffer of four characters, so that a line
  may be too long.

*Deadlock* is checked in every run but two: in `SesDispConcurrent.cfg` a refused
request stops its session for good (below), and in `MCLogger.cfg` all the lines
have been printed at the end.

*Fairness.*

- `NetMgr`: the task runs when it can (its priority is above the application's), an
  armed timer expires (time passes), and NetMgr_Send and NetMgr_Listen get to the
  end they have begun. The radio and the caller owe nothing.
- `SesDisp`: the dispatcher runs, armed delays expire, a woken task returns, and the
  manager answers. The last is strong fairness because the model lets answers in
  only between two words: the manager's own timer runs all the time and
  `Answered` is what it gives.
- `DwnMgr`: expiries and events are treated, time passes, the manager answers
  (`Answered` again). Nobody has to open, close or return a buffer.
- `Logger`: the logger's task and each task that logs run when they can. Nothing is
  assumed of who gets a semaphore first: the lines are finite.
- `PhyFake`: interrupts are taken; a call that has begun goes on, windows end and
  completions are treated, with strong fairness, because the far end's characters
  interrupt the task again and again and each interrupt ends.

*What the liveness properties leave open.* A DETECT window can be expanded for ever
if frames keep starting (see below), and `Answered` has that exception. `Ends` has the
exception of a window that an error has ended, `ComesBack` that of an interrupt
that nobody acknowledges.

## Proofs

Everything below is for all values of the constants that meet the named ASSUMEs of
the modules; TLC evaluates these in every run. A further hypothesis is a switch or
a size that the text names.

**`NetMgrProofs`** (`SwitchesAreBoolean`, `TouchedAreParameters`)

- `TypeCorrect`: `Spec => []TypeOK`;
- `NoRequestLost`, `OneToken`, `SendDoneIsTrue`: with `PhyErrorEvents = FALSE`,
  `Spec => []NoLostRequest`, `Spec => []IInv`, `Spec => []SendDoneMeansSent`;
- `ServiceKept`: with `PhyErrorEvents = FALSE`, `Spec => ServiceSpec`, the
  implementation of `NetService`;
- `OnAirAsAskedAlways`, `NoOverwriteAlways`: `SpecC => []OnAirAsAsked`,
  `SpecC => NoOverwrite`, about `NetConf`, for all values of the switches.

`NoLostRequest` and `SendDoneMeansSent` are not inductive: a request may end by its completion with its timer
stopped while its answer is still in the task's hands, and SEND_DONE is true only
if no completion of an earlier request is on its way. `IInv` therefore follows the
token that one start of the radio is: the active radio, then the completion in
`notif`, then in `word`, then the answer in `back`. `TokenInv` says that there is one
outside of MANY windows and none when the caller may make a request, `KindInv` that
it is of the kind of the last request, `SentInv` that a token of a transmission
means a transmission, `ErrorInv` that the device is in error under a request only
when the task is about to answer, `LoopInv` and `CallerInv` what each place in the
loop knows. `DeviceOutcomes` and `RelistenOutcomes` say once what the device operators
can return. Then there is a lemma per action (`WaitKeeps` ... `ListenReadyKeeps`), and
`InvStep` collects them. Without the hypothesis these properties are false (below).
`ServiceKept` maps a request that is owed (`Owed`) to the one of `NetService`; each
action is then a step of `NetService` or changes nothing the sessions see. It needs
one fact more, `RecvInv`: RECV_DONE is never in the task's hands after a
transmission.

The two theorems about `NetConf` hold with error events too, so that they cannot rest on
`IInv`: `ConfSteps` says that a step of `NetConf` is one of `NetMgr`, or leaves its variables
alone, or is `NextWindow`, and `CInv` and `AsAsked` start anew. `AsAsked` says how far the device has
what the session relies on at each place of the session, `StageInv` that nothing else
moves while the configuration is handed over, `AskInv` that a request is only where the
configuration is complete. For the buffer, a reception is one token again, but `RxInv` and
`HoldInv` have to follow it in MANY windows as well: a message that is held is
announced in exactly one place, no frame can come then or `pend` is set, and a call of
`NetMgr_ListenReady` that is not read yet (`Rearm`) means that the buffer is free. There
is a lemma per action (`WaitHolds` ... `TakeHolds`); `RecvFindsFree` is the property's core.

**`SesDispProofs`** (`ConstantsTyped`). `FsmRuns` says what one run of a session's `fsm`
may do, and is all the rest uses of the sessions' states. `TypeCorrect`,
`ExecutedOnceAlways` and `ExecutedWasAnsweredAlways` hold for every switch, the
concurrent callers included. The invariant is `OnceInv`: a command is counted only
when its number is that of the last response, and a response is sent only in the
state in which its command is still in the buffer.

`NoStaleResultAlways`, `FailedIffErrorAlways` have the hypothesis
`Serial == ~Coalesced /\ ~Concurrent`, `SesInvAlways` also that the manager does not
refuse; each hypothesis is needed (see the switches). `SerialInv` says that who waits,
which session is active, which delay runs and what is in the notification words are
one and the same thing: `CallsInv` (one call at a time), `AnswersInv` (the manager's
bits come to its owner between two words, never a DONE with a TIMEOUT), `IdleInv`
(without a session everything is at rest, and a call is in a word), `ActiveInv`,
`DelayInv` (a delay runs or is announced exactly while the session awaits it),
`ErrorInv` (an error takes the session to IDLE, and the bits tell it). `RunsInv` adds
that a session in a state that waits for the manager has its request there.

**`DwnMgrProofs`** (`DwnConstants`): `DwnInvAlways`, `Spec => []DwnInv`. `NeverStuck` needs to
know which timer runs: `Timed` adds that it is the periodic one between the windows
of a day and in a window, and the absolute one, or its expiry, before a day.
`AdjustedFits` is the arithmetic of a session that is opened late: with the tests
the code makes, what is left of the days and blocks is in the width of its type.
`StepCounted` and `StepMarks` keep types and widths. `WindowsInCampaignAlways`,
`Spec => WindowsInCampaign`, needs where the session is in its campaign: `InDays` says that
`dayNext` is the start and as many days as are gone, and that the windows had and the
blocks left are together no more than the blocks of a day; `OnTime` that the next window is no later than the
blocks left allow; `OneEvent` that events come one at a time. The case that is hard
is again the session opened late (`AdjustedInCampaign`): a first window that is delayed
has cost a block.

**`AdmCmdProofs`** (`AdmConstants`): `AnnouncedFitsAlways`, `RemoteChangesLegalAlways`,
`ReadIsAllowedAlways`, `AdmInvAlways`. The invariant `Checked` ties the three variables between check
and execution: a pending command is the one in `cmd`, and was accepted in `rsp`, so
that what is executed has passed the tests, although a local write may have come
between. `WriteAnswer`, `ReadAnswer`, `AnnAnswer` say what an accepted answer means;
`MinIsLeast` and `MaxIsGreatest` are for the first test that fails and the last value
that is written. `AdmInvAlways`, `Spec => []AdmInv`, also uses `PingConstants` and
`ValuesAgree`: `StrongestReported` needs to know the ring at every moment. `RingInv` says that
the links lead from the worst container over some others, each of them once, to the best
and back to the worst, that none of these is stronger than the best, and that the best is as strong as
the strongest reply of an unknown gateway so far. `AddKeepsRing` is a reply that takes a container and is
linked into its place (`PlaceOnRing`, `LinkedKeepsRing`), `EndReports` the walk round the ring
at the end. The walks are recursive functions: `Iteration` shows that such a function
exists, `UpTo` finds its values one after the other; both are proved by the least number where
they would fail, since the provers cannot use the library's inductions.

**`ProtoProofs`** (`ProtoConstants`): `DeliveredAsSentAlways`, `Spec => []DeliveredAsSent`, and
`StatsAlwaysAddUp`, `Spec => []StatsInv`, for all frames, keys and configurations. Nothing is
assumed of `Decoded`: a decoder that returns the wrong word for the right one is
allowed for. `VerdictPasses` says that a list of tests ends in SUCCESS only if every
test has passed; `DownloadAccepted` and `ExchangeAccepted` take from it the tests that
tell a changed body or another key. `RxUpdateTyped` and `RxUpdateCounts` are for one more
frame in the statistics; `MeanBounded` keeps the average in its byte.

**`ImgStorageProofs`** (`ImgConstants`): `TypeCorrect`, `ImgInvAlways`,
`WrittenOnceAlways` for every size, number of buffers and images. `BufferInv` is
inductive: the bitmap is in range, a buffer in use holds a line that has begun and
is not full (`PendInv`), and what is written belongs to a marked block, a shared double
word to two of them (`FlashInv`). `CompleteIsWholeAlways`:
`BlockNb % 8 \in {0, 1} => (Spec => []CompleteIsWhole)`. The source's 809 meets it; of the
other remainders the bitmap's last byte has several blocks that an Init does not
clear, and the property is false. `SoundInv` describes a flash that was erased for this
image: the one mark that may be left is of the last block there is (`StaleInv`), the
buffers hold the bytes of the lines begun (`HeldInv`), the flash is exactly the
bodies of the marked blocks and the ends whose two blocks are there (`WrittenInv`), and
the code's count is the number of `Done` blocks (`CountInv`), those whose end is
written and the last ones of full lines. `Done` is part of the image, so that a count
that is the image's size means the whole image.

**`LoggerProofs`** (`LoggerConstants`, `StampFits`): `TypeCorrect`, `PoolServesAlways`,
`LineFitsAlways`. The pool serves because `sem` + tasks with a unit and no buffer +
locked buffers + the unit the printer owes = `NB` (`Counted`), which a step preserves
only if every locked buffer has one owner (`Owned`), the scan is exclusive
(`Exclusive`), and what it has seen still holds (`Seen`). `EndFits` is the arithmetic of
the three writers, `StampFits` the size of a buffer it needs. `KeepsService`:
`Spec => Service!Safety`, every step of the logger is one of `LogService` or hidden;
`TextInv` says that a queued buffer has the text of the line that its task has
handed over. The run checks `ServiceSpec`, which has the fairness as well.

**`BoardProofs`**, the serial port (`SizesFit`, `ClosesIsBoolean`): `TypeCorrect`, `SentWholeAlways`,
`GotWholeAlways`, for every length and every far end, closing under a request
included. `FrameInv` says that one direction at a time has the buffer, and only for a
device that waits for it: while a transmission runs, what is on the line and what is
left of the buffer are the frame (`TxInv`), while a reception runs the buffer has the
characters heard (`RxInv`). `NeverRefusedAlways` (`~ClosesUnderRequest`) adds `PortInv`:
a port that is busy serves the device.

**`BoardProofs`**, the timers (`TimeConstants`, `DayConstants`, `TimeMgrConstants`), for any
number of timers, ticks in the day and values that are not 0 (as time_evt.c:133 asks).

- `TimeInvAlways`, `NeverLateAlways`, `NeverEarlyAlways`: `Advancing => (DaySpec => ...)`, where
  `Advancing` is `Disciplined /\ ~Preempt /\ BackBy = {}`. Each conjunct is needed (see the
  switches).
- `TimeMgrInvAlways`: `MgrSpec => []TimeMgrInv`, for all values of the switches.
- `DriftPacedAlways`: `Forward => (MgrSpec => DriftPaced)`, where `Forward` is `Back = {}` and dates
  more than a day ahead. A date that is nearer is reached while the task waits for
  midnight, and then puts the clock back.
- `ManagedTimers`: `Disciplined /\ ~Preempt /\ Forward` gives
  `MgrSpec => [](TimeInv /\ NeverLate) /\ NeverEarly`: the timers with the task itself.

`TimeInv` and `NeverLate` are not inductive: a value in the list is only right at the last update,
and a list that is out of order loses nothing until it is read. `CoreInv` says that each
value less the time since the update (`Age`) is what is left of the timer, or, for an absolute
one under an advanced clock, no less than what is left to its date (`AgreeInv`); that no timer has less
left than those before it (`OrderInv`); and that the alarm is for the head and has not been
missed (`AlarmInv`). `UpdateFinds` draws what an update finds, `Settled` what a
step with an update has to leave. All of it needs an update within a day (`Recent`), because a head that is a day away
has no alarm: `DailyInv` has it from the midnights of `MCTimeEvt`, `MidTimers` from the
wake-up that `PaceInv` follows. `WakesAfterMidnight` is about the reload at every second
of the day: the timer fires one second after midnight, or two in the range of 17 bits, never
before it. `ToMidnightIs` needs no more than that, and a tick that divides the day and is longer
than two seconds, for the wake-up to be in the tick that begins at midnight. What `Insert` and `Removed` do to the order and the members is
proved from the places of the list (`InsertKeeps`, `RemovedKeeps`). The interrupt's loop is a recursive
function: `Iteration` shows that it exists, and `ScanKeeps` carries through its turns (`Passed`)
that the timers it has met and found with nothing left are out, or periodic and back in their
place. `PaceInv` also says that the days left and the nights gone are together no less than the
period of the drift (`Counted`), and that what is pending is ahead of the clock.

*Only model-checked:* liveness (`Answered`, `CallReturns`, `Ends`, `ComesBack`, and the
fairness of `LogService`); the retry loops and the Reed-Solomon code, which are
recursive (`RetriesSummarised`, `CorrectsUnlessZero`).

## What the models show beside the properties

These are departures from a comment, or places where a promise needs a condition.
The first ones are those that the switches and exceptions above refer to.

*Network manager.*

- `NETDEV_EVT_ERROR` (0x05) or-ed into the word contains TX_COMPLETE (0x04) and is
  reported as NET_EVENT_SEND_DONE, "Message has been sent" (net_mgr.h:57). Read
  together with the expiry it loses the request (net_mgr.c:482); alone it frees
  `hLock` while the request still waits for its timeout. No session treats
  NET_EVENT_ERROR. All this needs a driver that raises PHYDEV_EVT_ERROR.
- `bListenPend` is cleared by NetMgr_ListenReady only (net_mgr.c:633): a MANY window
  that ends before its last message is released makes the next MANY window drop its
  first frame, although nothing is overwritten by then (the comment at :632).
- A frame of another type clears `u8Detected`, so that a DETECT window may be expanded
  again (net_mgr.c:733).
- An answer before the call has armed its timer arms a timer for an answered request:
  its TIMEOUT reaches the session later, and the late `xSemaphoreGive` (net_mgr.c:541)
  can free `hLock` under the next request.
- A frame that races a window's TIMEOUT or NetMgr_Close, of another type or refused,
  makes the task listen again: the radio stays on without request and timer, after a
  Close until the next Open; in a DWN session the next window is refused as BUSY.
- NetMgr_SetUplink and NetMgr_SetDwlink, refused for the modulation, have already
  changed the channel. CFG_MEDIUM is not checked where the SET controls are. CLR_ERR
  with NULL and a PHY error returns ERROR but clears.

*Configuration.* `sProto_Cfg.DwnId` is not initialised: CFG_PROTO overwrites DwnId with
what the stack held, nobody issues SET_DWNID, and download frames are filtered by it
(ses_dispatcher.c:684-716, proto.c:478). The results of the two NetMgr_Ioctl and of
NetMgr_Open are ignored (ses_dispatcher.c:270, :718). The parameters are read one after
another without a lock. The limit of a message is the one of the opening, while
READ_PARAM answers are checked against the present one.

*Sessions and calls.*

- A refused NetMgr_Send in IDLE returns ERROR without COMPLETE, and the call waits for
  ever (adm_mgr.c:146, wize_api.c:101). A transmission that times out ends without
  SES_FLG_ERROR, and SendEx reports SUCCESS (ses_dispatcher.c:519).
- WizeApi_Send tests `u32Ret & SES_MGR_FLG_REQUEST`, which FAILED passes
  (wize_api.c:318 against :286), and reports the command of an earlier session.
- SES_EVT_OPEN resets `u8ByPassCmd`, so EXCH_RX_LENGTH = 0 does not disable the
  reception window (adm_mgr.c:143).
- A command whose response was not sent is taken for done when it is repeated, and is
  never executed (adm_internal.c:80 against "2 : action already done", :71).
- A word with SEND_DONE or RECV_DONE and TIMEOUT starts a delay and goes to IDLE
  without stopping it (adm_mgr.c:288, ses_dispatcher.c:307).
- ADM and INST calls share the value bits 0x0000FFFF: with two application tasks one
  is woken by the other's result (wize_api.c:132, :237).
- WizeApi_GetAdmRsp tests the size of the command (wize_api.c:191); both getters take
  `hMutex`, which the dispatcher does not hold while it writes; `pMsg` is dereferenced
  before its NULL test (wize_api.c:147).

*DWN session.* One that joins a running day late starts its windows off the slots
(dwn_mgr.c:286, :345). NET_EVENT_ERROR in a window is ignored, and the session listens
for ever. A refused NetMgr_Listen leaves the periodic timer armed in IDLE. The first slot of
a campaign that is opened in advance is skipped. A campaign that fills the whole day
ends in ERROR after its first day. `sRecvMsg` may be listened into while `u8Pending`.
`u8DayPassed` wraps at 256 days. No call opens SES_DWN; SES_EVT_DAY_PASSED, which lies
in SES_MGR_EVT_MSK, is never sent.

*Time.* TimerInit or TimerStart on an armed last timer corrupts the list; TimerStop
races with the alarm (time_evt.c:311); a clock that is put back under an ABSOLUTE head
makes others late. A write of CLOCK_CURRENT_EPOC between the wake-up and the next
poll, or between its comparison and store, is lost; a pending correction is overwritten
(time_mgr.c:185); a negative drift breaks `DriftPaced`. The wake-up timer's reload
is -0xFFFF where its comment has 86400 - 65536 = 20864, and the counter counts one
more: it fires one or two seconds after midnight (`WakesAfterMidnight`).

*Images.* With a BLOCK_NB that is not a multiple of 8 (809) the "Clear the entire
bitmap" (img_storage.c:452) leaves block 808 marked, and its bit is past `aBitMap`.
A partial last line never frees its buffer. Identifiers beyond the image are accepted and
counted. A failed erasure leaves bitmap and count; results of writes are ignored;
GetMaxBlockNb truncates bytes to 16 bits.

*Protocol.* Frames of 22 to 24 bytes give an `l_size` that wraps. L7RECEIVE_LENGTH_MAX is
compared with the whole frame (proto.c:165). `u8RxRssiMin` and `u8TxNoiseMin` start at 0
and never change; the noise is never measured. KEYSEL has four bits, so
PROTO_KEYID_UNK_ERR is never returned. `u8_KeyId > KEY_MAX_NB` is off by one, and
`_set_key_` copies even for a refused identifier.

*Reed-Solomon.* The arrays `s`, `reg` and `z` (rs.c:273-275) are `uint8_t` and hold -1 as
255, so the tests for -1 (rs.c:384, 388, 413, 431-455, 480) are always true. Some
patterns of 2 to 16 errors are not corrected, although rs.h:60 says they are.

*Ping replies.* A reply not worse than the worst but worse than the second worst is
linked through its own container: container and reply are lost, and the ring shrinks.
InstInt_End then walks round, and PING_REPLY1 has not the biggest RSSI
(parameters_lan_ids.h:78). Its return value is the opposite of what it documents.

*Commands.* DayRepeat is tested in its lower four bits but used whole. Channels 91 to 99
truncate to 0. An unknown command sets the size of the request instead of the
response (adm_internal.c:132). The half second of WM4800 is lost, so that the last
block may start exactly a day after the first. An announcement ten days old with one
more day is accepted. Param_LocalAccess does not check conformity. The response to
EXECINSTPING is never compared with L7TRANSMIT_LENGTH_MAX.

*Logger.* A frame longer than its line is cut silently (logger.c:299-311); Logger_Frame
relies on a short `pStr` (:287); if `_acquire_` returned -1 the semaphore's unit would be
lost (:157), which `PoolServes` excludes.

*Serial port.* NetMgr_Close under a request and an Open leave `gState` or `RxState` BUSY
while BSP_Uart_Init clears the interrupts: the port refuses every later request. After
an abort CMIE stays set, and CMF is cleared only in the reception's interrupt. A
reception takes RDR and CMF as it finds them: a stale character in RDR is its first one and
misaligns the frame, unless the frame's first character has overwritten it by then; a stale CMF
completes it with its first character, whatever that is. A completion before WizeNet_Listen's `eState = BUSY` (net_api.c:291) is
overwritten: the frame is lost. A line of BUF_SZ characters without '\r' writes one
past the buffer. `_get_recv` does not compare the length with what has come. RTOIE is set
in both branches (bsp_uart.c:480-489).

## Not modelled

- The getters of `wize_api.c`, its argument checks and the device's identification:
  they copy.
- SES_EVT_CLOSE and SES_EVT_DAY_PASSED, which nothing sends.
- The arithmetic of the CRC, the ciphers and hashes: no state, and symbolic in `Proto`.
- The 9-bit and address modes of the serial port and the console; other PHYs. An
  interrupt is taken before the next character is over, and the time-out of a
  transmission is longer than the transmission.
- In `NetMgr`, a failing pfUnInit in `Close`: its result is ignored and the state
  after it the same (net_api.c:125); a completion between pfRx and `eState = BUSY`, which
  is one step there (`Started`) and two in `PhyFake`.
- In `TimeEvt`, an alarm that is set to a moment that is over when it is written: a tick
  has no parts, and an alarm set to the present tick fires in it (`AlarmDue`).
- In `AdmCmd`, a WRITE_PARAM whose last parameter is cut off: the code takes the bytes
  behind the frame for its value (adm_internal.c:249), so that it is a command with some value.
- In `ImgStorage`'s runs, block numbers beyond the image: the code accepts them up to
  BLOCK_NB and counts them (img_storage.c:93), so that the application has to keep to those of
  the image. The theorems make the same assumption.
- Reading a configuration back, and PHY controls that pass a value on.
- The storage of the parameters in flash, which the demonstration never reads back;
  the initialisation of the board, which is over before the tasks run.
- The generated HAL, the build's scripts and the generator of the tables.
