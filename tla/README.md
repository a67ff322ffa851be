# Verification of the gts8pwifi input, lid and USB-C software

TLA+ models of the programs of this repository that keep state and run
concurrently on the Galaxy Tab S8+ port: the folio classifier, the daemon that
feeds it, the console policy that reads it, the keyboard driver that is one of
its inputs, the touch and pen drivers around a sleep, the USB-C port, and the
harness that judges the boot loader's patching of the device tree. TLC checks them
on small instances, and TLAPS proves their safety for every value of the constants.

Paths below are relative to `src/`. `FS` is `pmaports-overlay/temp/folio-state`,
`DEV` is `pmaports-overlay/device/testing/device-samsung-gts8pwifi`, `KRN` is
`pmaports-overlay/device/testing/linux-postmarketos-qcom-sm8450`.

## 1. Inventory

| Component | State | Operations | Modelled by |
|---|---|---|---|
| classifier, `FS/folio_state.c` | context, two baselines, lid, pen, two streaks | `folio_state_init`, `folio_state_step` | `FolioState`, `FolioClassifier` |
| foliod, `FS/foliod.c` | hard signals, sample sequence, four timers, two sensor objects | GLib callbacks: gpio-keys, `/dev/input` monitor, timers, libssc answers, SIGUSR1 | `Foliod`, `FolioReport`; its configuration `FoliodConfig` |
| console-blank, `DEV/console-blank.sh` | lid, idle count, suspend count, open descriptors | one poll every two seconds | `ConsoleBlank` |
| stm32-pogo, `KRN/stm32-pogo.c` | rail, session flags, two input devices, three delayed works | two threaded interrupts, three works, probe and remove | `StmPogo`, `KeyboardSession` |
| fts1ba90a, `KRN/fts1ba90a.c` | two rails, interrupt depth, contacts | interrupt, suspend, resume, probe, remove | `FtsTouch` |
| wacom-wez01, `KRN/wacom-wez01.c` | rail, sampling, `prox` | interrupt, suspend, resume, probe, remove | `WacomPen` |
| panel-samsung-s6tuum1, `KRN/` | rail, reset line | prepare, enable, disable, unprepare | not modelled |
| max77705-typec, `KRN/` (four patches) | role, VBUS reference, contract and request, input limit, recovery, event fifo | interrupt handler, four works, teardown | `UsbcState`, `UsbcPort` |
| uniloader-fdt-harness, `tools/uniloader-fdt-harness` | the patched blob, what is expected of it, failures so far | one run, step by step | `FdtHarness` |
| max77705 charger and MFD, `KRN/` (eight patches) | registers, OTG regulator | mainline driver changed in hunks | not modelled |
| cameras, lens, camss, clocks, dwc3, q6v5, audio, `KRN/` | per-SoC data and single hunks | | not modelled |
| hexagonrpcd, `pmaports-overlay/temp/hexagonrpcd` | files open for the DSP | seven patches over a program that is elsewhere | not modelled |
| set-up scripts, `DEV/*.sh` | none of their own | one-shot I/O | not modelled |
| uniloader port, downstream kernel, build, tools, device facts | none at run time | | not modelled |

How the parts meet:

```
 hall switches --gpio-keys--> foliod --classifier--> virtual device (SW_LID)
 keyboard on pins --> stm32-pogo --input device-->  foliod        |
 SLPI sensors <--libssc (async)--> foliod <--SIGUSR1-- console-blank
 power key, touch, pen, keys --evdev--> console-blank --fbcon bind--> panel
 systemd suspend --> touch and pen drivers; suspend count --> console-blank
 PD source, CC pins --> MAX77705 --interrupts--> USB-C driver --> charger, boost
```

* stm32-pogo registers an input device while a keyboard is docked; foliod sees
  that as a change of `/dev/input` and takes it for the signal "keyboard
  present". In `Foliod` it is the action `KeyboardMoves`; in `StmPogo` it is
  the pair `kbd`, `tp`.
* foliod publishes SW_LID; console-blank queries it once per poll. In
  `ConsoleBlank` the device is the variable `lidDev`, which may change, come
  and go at any time.
* console-blank sends foliod SIGUSR1 when there is input under a closed lid.
  In `ConsoleBlank` that is `sinceKick' = 0`; in `Foliod` it is `Usr1`, which
  may happen at any time.

What makes this code hard, and what makes each part correct:

* **foliod** must never wait for libssc, which may retry for 100 s. A sample is
  a chain of asynchronous calls any of which may answer late, twice a timeout
  later, or never. Correct: it never stops reporting, never leaves a sensor
  streaming, never loses a trigger or an input edge, never mixes two samples.
* **the classifier** sees readings that straddle a transition. Correct: learned
  baselines cannot drift off, a closed lid has evidence, edges are edges.
* **console-blank** polls, and everything outside moves between its reads.
  Correct: dark while the lid is closed, lit by input, the press that wakes the
  tablet does not blank it, idle time is really idle.
* **stm32-pogo** cancels works it does not wait for while it holds a mutex they
  want. Correct: no device and no handler without power, no device without a
  handshake of its own session, no rail held for a keyboard that does not talk.
* **the touch and pen drivers** are suspended and resumed while contacts are
  down and any power or I2C step may fail. Correct: nothing stays pressed over
  a sleep, the interrupt and the rails are balanced.
* **the USB-C port** reads some things as levels and others as reports that a later
  report overwrites, may lose events, and speaks to a chip that may reset between
  any two of them. Correct: no VBUS at a port that is not the source, no more current
  than the contract of the moment, no going on with a chip that forgot its settings.
* **the harness** is believed when it says PASS. Correct: no fault of the code it
  tests, and no two together, gets past its comparisons.

`PROJECT.json` lists the individual hazards, each at its line, with the
properties that cover it.

## 2. Plan

Order of work: classifier and daemon first (the repository's own core logic),
then the two neighbours of the daemon, then the drivers.

1. done: `FolioState` (pure step), `FolioClassifier` (any inputs), `Foliod`
   (the main loop), `FolioReport` (what a reader of the virtual device may rely
   on), refinement `Foliod` => `FolioReport`, proofs of both.
2. done: `ConsoleBlank` and `StmPogo`, model-checked, their safety proved.
3. done: `FtsTouch` and `WacomPen`, model-checked, and the proofs of their
   balance (rails, interrupt depth) and of the pen's release.
4. done: `UsbcState` and `UsbcPort` from the max77705-typec patches, with the
   safety of VBUS, recovery and removal proved; `FdtHarness`; `FoliodConfig`; the
   contacts of `FtsTouch` proved.
5. left: `FolioConsole`, the composition of `FolioReport` and `ConsoleBlank`
   over one virtual device and SIGUSR1: the console follows the folio. It would
   add liveness only: `ConsoleBlank` lets the lid of the virtual device change at
   any time, so its safety theorems hold beside any daemon.
6. done: proofs of the charger's limits in `UsbcPort`, of the action property of
   the classifier, and of what a PASS of the harness is worth.
7. done: `KeyboardSession`, what the keyboard driver promises the input subsystem,
   and the proof that `StmPogo` implements it.

Abstract specifications: `FolioReport` for the daemon, `KeyboardSession` for the
keyboard driver; for 5 the pair of lid and console as one register.

## 3. The modules

### FolioState, FolioClassifier

`FolioState` is the translation of `folio_state_step`: `Step(s, in)` is built of
`Enter` (a change of context clears the streaks and the baseline), one operator
per arm of the switch (`Docked`, `Bare`, `Attached`), and `Count` (`failStreak`).
Magnetometer values are integers and the moving average is `\div 8`; the
lux value is the flag `bright` (above `light_veto_lux`). `failStreak` is capped
at `FallbackAfter`, where the code only compares. `FolioClassifier` is a machine
that feeds any `Inputs` to `Step`. Its history variable `suspected` remembers,
without looking at the streak the code counts, whether the last reading of the
present bare stay looked like a reversed pen against the baseline of its time.

### Foliod, FolioReport

One action per GLib callback; a callback runs to completion, so it is one step.
`phase` has the values of `enum phase`, split so that a libssc call in flight is
told from the wait for a measurement. `rescanId`, `triggerId`, `heartbeatId`
and `timeoutId` say whether that source is armed: an armed timer may fire at any
time, which covers every delay. The helpers `Report`, `StartRound`,
`FinishRound`, `EndRound` and `AfterTimeout` are `step_and_publish`,
`sample_start`, `sample_finish` and `sample_timeout`.

Three things can fail on the input side, as `Failing` allows. A scan whose
`opendir` fails sees nothing (`RescanFails`). A scan that succeeds passes over a
device whose node it cannot open or libevdev cannot read (`Skips`): a keyboard
then counts as absent, and a gpio-keys that is passed over is closed and its
switches keep their last level. Neither is tried again. And a read of gpio-keys may
fail after some of the events (`GpioReadFails`): the levels they told stay in
`hard`, no trigger is armed, and the rescan that follows finds nothing changed.
`swEvents` is the set of switches whose events wait on the descriptor. `deaf` and
`discarded` are history: the devices the last scan failed to see, and whether a
failed read threw a change away that no trigger has made up for since.

`FolioReport` knows neither sensors nor timers: `seen` is the context of the
known hard signals, `shown` the one last reported, `round` the sample. Under the
mapping `seen <- PickContext(hard)`, `shown <- st.prev`, `round <- Round` the
daemon implements it.

### FoliodConfig

The whole numbers of `configure()`: the file fills in what the environment leaves
unset, `strtoul` takes a number of any size and sign, the cast to `unsigned` cuts it
down, and three settings that come out as zero become one. `UintRange` is 2^32 and
a `long` holds its square. It has no behaviour of its own; it says where the
constants of `Foliod` and `FolioState` come from.

### ConsoleBlank

`pc` walks through one poll: `sleep` -> `query` -> `check` -> one of the four
branches -> `sleep`. Every read of something outside is its own step, and the
descriptors are drained one by one (`toDrain`) in any order, so keys, suspends
and lid changes fall anywhere. The power key's bytes are kept by what made them
(`press`, `release`, `wakePress`, `wakeRelease`), which the script cannot see
and the properties need. Idle time is counted in polls.

### StmPogo

`lock` is `dev_lock`; each thread has a program counter that stops where another
thread can make a difference: before the mutex, at a sleep, at an I2C exchange,
and at `disable_irq`, which waits for the handler (`StopBegin` | `StopEnd`).
`queued` holds the delayed works; a queued work may start at any time.
`shook`, `staleWatch` and `gaveUp` are history.

`KeyboardSession` is the driver without works, interrupts or a mutex: a session has
power, may shake hands, and is closed before its power goes; devices appear one
after another in a session that shook hands and leave together. `StmPogo` maps to
it by `SessionPhase` (from `rail`, `started`, `shook`, and whether `conn_work` boots the
MCU), `Registered` (from `kbd` and `tp`) and `held`. `stm32_pogo_stop` is `Close` at its
first half, which ends the session, and `Undock` at its second; between them the
handler may still `Report`, because `disable_irq` waits for it. The works, the
watchdog and the steps of `remove` are stutters but for what they do of these.
`SessionsInOrder` is the specification under that mapping.

### FtsTouch

The chip (`touching`, `scanning`, `fifo`), two rails counted as the regulator
core counts them, `irqDepth` as the interrupt core counts it, and `pm`. The
handler `Irq` empties up to `Batch` events in one step, because `disable_irq`
waits for it and nothing else of the driver runs beside it; the chip runs beside
everything, so resume is four steps, and the wait for the echo of the scan
command (`EchoEats`) may eat events that were meant for the handler. An event
that finds the FIFO full turns its last place into the overflow event. What the
handler shows of a finger is the last word on it in what it read (`After`). A failed
read may take events with it (`lost`). Every failing step is an action or a
disjunct with a `Fault`.

### WacomPen

The handler is two steps, the read and the report, and `SuspendDisable` waits
until it is idle, which is what `disable_irq` does and the property
`NoToolInSleep` rests on. `told` is what the chip last said of the pen: it
repeats a pen in range, and says once that it left.

### UsbcState, UsbcPort

The driver is the file `max77705.c` that the four patches leave behind; where a later
patch changes a function of an earlier one, the definition is that of the result.
`UsbcState` has one operator per function of the driver that runs under `u->lock`,
from the port (a record: `struct max77705_usbc`, and what it wrote to the chip) to
the port. `f` is the set of calls that fail meanwhile; `sent` and `busy` are the
answers of the chip to a request and of the charger to an enable.
`Scan` is the loop of `best_pos` over the offers, a function of how far it has come:
what it counts as equal is not transitive, so it is a scan and not a maximum.
`OrdinarySource` says what the driver takes for granted of a source and does not
check: the order USB PD gives the fixed offers, the floor of the limit, and no more
current from an offer above 9 V than from one the driver takes.

`UsbcPort` puts these functions into the threads they run in. The interrupt
handler is two steps, since the reports it reads may have changed since it read the
interrupts; the ordered workqueue runs one work at a time, and `max77705_usbc_work`
takes one event per step, so the handler fills the fifo between any two events. A
delayed work that is queued may start at any time; `recover_work` waits for its
minute, and `window` says whether the minute of the recovery window began before.
`pm` is the next thing the teardown cancels. `stopFailed`, `ilimFailed`, `ccMissed`,
`unread` and `undone` are history, each what excuses a property: a failure, or, for
`undone`, a retry that was not sent and gave the limit back while an earlier
request was out.

### FdtHarness

One action per step of `harness_main`. uniLoader's functions are external: each may
do what it is called for, fail, or report success and damage the tree, in any of the
ways `Damaged` lists, `MaxDamage` times over a run. A tree maps paths to
sequences of properties. A node of the blob names a property once, as dtc sees to;
by damage a name may come to occur twice, which is how damage escapes a comparison
by name alone. The memmove cases are the harness's own, and
`Moves` lists ways memmove may go about them; `Reference` is the byte loop the
harness compares with.

## 4. The runs

| Run (`.cfg`) | Question | Distinct states |
|---|---|---|
| `classifier` (`FolioClassifier`) | Do baselines, lid and pen keep their promises under every sequence of table rows and hard signals? | 295,609 |
| `classifier_slow_close` (`FolioClassifierSlow`) | Does the closed reading after a slow close read closed, as the test says? **No.** | |
| `foliod` (`Foliod`) | With libssc free to answer late, wrongly or never, and scans, device nodes and reads that may fail: streams, timeouts, stale reports, missed inputs, lost triggers, mixed samples; does it implement the safety of `FolioReport`? | 4,280,740 |
| `foliod_live` (`FoliodLive`) | With only the main loop fair, and device nodes and reads that may fail, is the report corrected in the end, and does the daemon implement `FolioReport` with its liveness? If libssc answers its calls, does every abandoned sample end? | 296,500 |
| `console` (`ConsoleBlank`) | Do lid, input, wake press and idle time decide as the header promises, and does a quiet tablet go dark? | 265,318 |
| `pogo` (`StmPogo`) | Power, conn line and remove against three works and two handlers; does the driver implement `KeyboardSession`; does a keyboard that is silent or gone lose its power? | 144,007 |
| `pogo_watchdog` (`StmPogoWatchdog`) | Does a watchdog end only the session it was armed for? **No.** | |
| `fts` (`FtsTouch`) | Rails and contacts over sleeps, failing steps and an overflowing FIFO | 64,044 |
| `wacom` (`WacomPen`) | The tool over sleeps that begin anywhere and reads that fail | 24,188 |
| `usbc` (`UsbcPort`) | VBUS, input limit, requests, recovery and remove against partners, sources, a chip that resets, lost events and failing calls; does a port left in peace settle? | 1,460,197 |
| `usbc_request` (`UsbcPortRequest`) | Is the limit, lowered for a request, raised only by the answer? **No.** | |
| `fdt_harness` (`FdtHarness`) | Does PASS mean that the blob is patched as meant and memmove moves every byte? | 2,851,024 |

Two properties of the daemon are stated with what the code does not do.
`MissedInputIsPending` and the first half of `HardSignalsShown` leave out the
devices in `deaf`, which the last scan failed to see and the code does not look for
again. `StaleReportIsPending` leaves out a change in `discarded`, provided that the
heartbeat is armed when both heartbeats are on; without heartbeats it waits for the
next trigger, whatever that is, and may wait for good. `HardSignalsShown` and
`ReportsAsPromised` say the same as liveness: `Corrects` is that nothing stays
discarded or that the heartbeat fires, and only behind it is the report promised to
become right. Without each of these exceptions TLC finds the property violated.
`PenIsFollowed` and `StuckFingerHasCause` are stated for runs in which no
read failed, since a failed read may take the last packet with it.

Bounds. The daemon, the console, the touch and the keyboard loop for ever; what is
bounded is the outside: `MaxChanges`, `MaxSuspends`, `MaxEdges`. Two changes of
the world let a second change arrive in every state the answer to the first goes
through, which is what every property of `Foliod` compares; the proofs remove the
bound. Three changes and one suspend let a lid move, a key press and another key
press fall around a sleep. Three edges are attach, detach, attach: the shortest
run with a session before and a session after. `MagSamples = 2` is the smallest
value for which a partial sample exists. `FolioClassifier.cfg` uses the measured
table in units of 25 microtesla, so that the learned baselines take few values;
`FolioClassifierSlow.cfg` uses the shipped numbers. `Foliod` starts from every world
in which the magnet of hall 169 is away; it comes as one of the changes. `FoliodLive`
starts attached, the context in which a sample, its timeout and a context
change meet, and its sensors report no measurement, since none decides the context
a report shows or is needed for a sample to end; its scans see the directory, since a
scan that sees no device at all is, for each of them, one that passes over it. Two fingers and a FIFO of three with a batch of two overflow it and
leave events for a second run of the handler; six moves of the fingers, three
faults and three sleeps allow a sleep after a failed resume after a sleep.
`UsbcPort.cfg` gives partner, source, chip and failing calls a common budget of
`MaxEvents = 3`, at most one of them a failing call, on top of any number of answers
of the source, retries and minutes that pass; a fifo of one overflows with the second
event, a burst of one is exceeded by the second reset, and `PluggedIn` starts with a
charger plugged in or nothing, so that the budget is spent on what follows. The
charger offers two fixed contracts, the better of which asks for more voltage, and
one the driver does not take; `ChargerIsOrdinary` (`MCUsbcPort`) shows that
`OrdinarySource` holds of it. Two requests are one that is answered or lost and its
retry; `UsbcPortRequest.cfg` has the three of the code and no failing call, since
its question needs none. `FdtHarness.cfg` allows two wrong doings, the
number that can hide each other, and takes every overlap case of the harness as it
is. `UintRange = 4` is checked at the borders of both widths by an assumption of
`MCFoliod`; the theorem has no bound.

Deadlock is checked except for `StmPogo`, `FtsTouch`, `WacomPen` and `UsbcPort`,
where a removed driver has nothing left to do, and `FdtHarness`, which ends.

## 5. Fairness

* `Foliod!LoopSpec`: weak fairness of the trigger, the sample timeout, the
  rescan, the gpio-keys and directory callbacks. GLib dispatches a source that
  stays ready. libssc has **no** fairness: it may never answer. The heartbeat is
  fair only to the left of the implications that need it (`Corrects`): each report
  arms it anew, and with it off nothing else makes up for a change that a failed
  read discarded.
* `AbandonedSampleEnds` assumes in addition that libssc answers the calls in
  flight (`WF_vars(Answers)` to the left of its implication); measurements may
  still never come. No other property assumes that.
* `ConsoleBlank!FairSpec`: the script goes on. Nothing is assumed of the outside.
* `StmPogo!FairSpec`: threads run; steps that need the mutex are strongly fair,
  since the kernel's mutex hands over to a waiter that has been passed by. The
  MCU has no fairness: it may never speak.
* `FtsTouch!FairSpec`: the handler runs while the line is low, a resume goes on,
  and the chip repeats a finger that stays. Suspend is not fair.
* `WacomPen!FairSpec`: the chip tells a pen in range and a pen that left, the
  handler runs, and a suspend or resume that began goes on.
* `UsbcPort!FairSpec`: while the interrupt thread, the worker of the queue or time
  can take a step, one of them does; nothing more is needed, since every work ends.
  Partner, source and chip are not fair.

## 6. Proofs

Assumptions: `ConfigAssumption` (`FolioState`), `InputsAssumption`
(`FolioClassifier`), `FoliodAssumption`, `ConsoleAssumption`, `PogoAssumption`,
`FtsAssumption`, `WacomAssumption`, `UsbcStateAssumption`, `UsbcPortAssumption`,
`UintAssumption`, `FdtAssumption`: types and signs of the constants, nothing
about their size. The bounds on the outside
(`MaxChanges`, `MaxSleeps`, `MaxFaults`) are any natural numbers in the proofs.

**Classifier** (`FolioClassifierProofs`). The invariant is
`Kept(st)`: the type, `NearSeeds`, and that the lid has its evidence. The type
alone is not inductive, because the average of a baseline must stay between two
integers the window bounds; `EighthIsBetween` is the one arithmetical fact,
`LearnKeepsNear` uses it, and each arm has its own lemma, which `StepKeeps`
combines. Theorems: `TypeCorrect`, `BaselinesStayNear`, `ClosedLidNeedsMagnet`.
The action property is `ReversedIsConfirmed`. Its invariant is `StreakIsSuspicion`:
the code's streak is above zero exactly while the last reading of the present bare
stay looked reversed. `StepStreak` carries that through one step: the streak is
cleared by a change of context, kept by the other arms, and counted by the bare arm,
which moves the baseline only after it has compared (`BareStreak`); a step that
announces the pen finds it above zero and counts a second reading.

**Daemon** (`FoliodProofs`). `IInv` is the conjunction of the type, the checked
invariants and `SequenceIsCoherent`. Of the classifier it needs only that a step
keeps the type (`StepTypes`). None of its parts is inductive alone: `StaleReportIsPending`
needs `TimeoutGuardsSample` (the sample that will report must still have its
timeout) and `NeverSilent` (which makes the heartbeat the one timer left for a
discarded change). `TimeoutGuardsSample` needs `SequenceIsCoherent` (who is waiting
for what), and `NeverSilent` needs that a report arms the heartbeat, which needs the type of
`st`. `SequenceIsCoherent` is proved and not a property of a run.
`StreamsAreClosed` is needed where a round begins. One lemma per handler;
`StepsKeep` combines them.

**Refinement** (also in `FoliodProofs`). Each handler maps to one action of
`FolioReport` or to a stutter, by the same case split. `ReportsAreRight` is the
safety half, `NoTriggerIsLost` the action property `TriggerIsSampled`.

**Configuration** (also in `FoliodProofs`). `AnyConfigurationIsUsable`: for any
environment and any file, the numbers the daemon runs on are those
`FoliodAssumption` and `ConfigAssumption` take for granted, because the check for
zero comes after the cast. `LoadingIsDone`: the environment comes before the file,
and loading twice changes nothing.

**Console** (`ConsoleBlankProofs`). `IInv` is the type and five parts: what the
branch of a poll says of the lid (`Branches`), that a console dark for the lid is
on its way to a poll that knows it was closed before (`Dark`), that input of this
poll is remembered (`Lit`), that the idle count never runs ahead of the quiet
polls (`Earned`), and that a queued wake press has its suspend still to be noticed
(`Wakes`). The three action properties follow from it and from `WhoBlanks`, which
names the only two steps that turn a lit console off.

**Keyboard** (`StmPogoProofs`). `Owners` says who holds the mutex at which program
counter; `Sessions` what a session has between `ConnAttach` and `StopEnd`, from
which power and handshake follow; `Follows` that a `conn_work` whose level is out
of date has another run coming; `Drains` that `remove` cancels what could queue
the next work before that work. Only together are they inductive: nobody may take
the power between another owner's steps.
`KeyboardSessions` is the refinement: `StopBeginCloses` and `StopEndUndocks` treat
the two halves of a stop once for their three callers; `Unseen` says which steps
stutter. `IcRegister` is the step that needs the invariant: `ic_work` looked at the
session before it took 200 ms and more, and `Owners` with `Sessions` shows that
nobody could close it under the mutex, so the devices appear in a session that is
still talking. `HandshakeFirst` is the part of it that a reader of `started` and
`handshaken` cares for.

**Touch** (`FtsTouchProofs`). `Balanced` adds to the two properties what power
each `pm` has. The one case that needs thought is a failed resume, after which
the driver is `up` without power: then `failedResumes > 0`, so the depth is not
0, and `InterruptHasPower` follows from `DepthCountsFailedResumes`.
For the contacts, `StuckFingerHasCause` alone is not inductive: a press that is
still in the FIFO will become a contact, so it must have its end behind it in the
FIFO (`PressesEnd`), and a chip that does not scan must have nothing queued and
nothing shown (`Quiet`). The handler empties part of the FIFO in one step;
`LatestIsLast` says that the last word on a finger in that part exists and is the
last, by a least element of the natural numbers, so that what ends it is in the rest.

**Pen** (`WacomPenProofs`). `Released` says that a suspended driver has no
handler running, and that every packet that will show the tool, in the chip or
in the handler, is one whose release is still to come (`ReleaseComes`).

**USB-C** (`UsbcPortProofs`). `IInv` is the type, `Sound(port)`, `SourceKnown` and
`Drains`. `Sound` is about the record alone: an unplugged port has no contract and
nothing queued, VBUS is on for a source only, a held port is safe, a forgotten chip
shows in its masks. It has one lemma per function of `UsbcState`, so a step of
`UsbcPort` needs only the lemmas of the functions it calls. `SourceKnown` relates
the port to the pins: one that wrongly takes itself for the source has the
interrupt, the event or the resync that will tell it still to come. `Drains` says,
work by work, what a removal that has come this far can no longer have.

For the charger's limits, `LimitFits` adds `ContractNoted` to `IInv`: a contract
that is in force has its report still to come, was missed by a failed read, or is
the one the port has noted, with the limit that goes with it.
`RequestsAreCovered` rests on `Covered`, which says two things of the record:
`Within`, that the limit is never above what the noted contract allows, and
`Asked`, that a request which is out has lowered it to what both allow. `Asked`
needs to know what was picked. `ScanExists` and `ScanIs` show that the recursive
function is what it says, by a least counterexample; `ScanStands` carries what the scan knows of the offers behind it from one
place to the next; and `BestOfferIsPicked` is what a reader wants of it: the offer
picked is one the driver takes, none it takes is better by more than the slack, and
one of more voltage is worse. From that follows `LessVoltageMoreCurrent`, and so
that the limit needs no lowering where the driver does not lower it.
`RequestsAreCovered` has `OrdinarySource` as its hypothesis and is false without
it: on a source that offers 5 V at 500 mA and 12 V at 3 A, and negotiated the
second by itself, asking for the first is not asking for more voltage, the limit
is left as it was, and it is more than 500 mA.

**Harness** (`FdtHarnessProofs`). `IInv` is the type and `Progress`: what is expected at
each step, and that, as long as nothing has failed, the command line came through and
the buffer that is judged was compared after the last step that touches it. Two facts
carry `PassIsPatched`. By `SetPropMatches`,
setting an expected property of a tree that matches gives one that matches; and by
`MatchesAgree` two trees that match the same expectation agree, so the buffer
agrees with the tree that was meant. The second counts: a node that has every
expected property and is as long as that has nothing else (`NothingElse`, by the
number of places). It needs that a node of the blob names a property once;
otherwise the properties `p, p` of the blob are matched by `p, q`, which is as long
and has every name. `PassIsMoved` is arithmetic: 7 has an inverse modulo 256, so
two bytes of the pattern are equal only a multiple of 256 apart (`PatternTells`),
and for each way of `Moves` to go wrong there is a byte that tells (`UpShows`,
`DownShows`, `IdleShows`). The theorem is about those ways, and not about a memmove
that copies something else altogether.

Type correctness is a theorem of every component's proofs, and no run
repeats it. `TypeCorrect` is part of each `IInv`.

Every invariant and every safety property of a step that a passing run checks is a
theorem. Only model-checked is liveness: `HardSignalsShown`, `ReportsAsPromised` with
its fairness, `AbandonedSampleEnds`, `EventuallyDark`, `FingersAreShown`,
`PenIsFollowed`, `UnusedKeyboardPowersOff` and `PortSettles`. They need fairness,
and so ENABLED, which the prover does not reason about.

## 7. What was found

Three runs show the code doing something else than a comment, a test or the
description of a patch says; `PROJECT.json` quotes both sides.

1. `classifier_slow_close`: `baseline_window` (150) is wider than `closed_dz`
   (85), so readings of a lid that closes slowly (-380, then -450 twice) are
   learned as open, and the closed reading -477 that follows reads open.
2. `pogo_watchdog`: a watchdog that fired and waits for the mutex behind a stop
   ends the session that started meanwhile; nothing tries again before the next
   edge of the conn line.
3. `usbc_request`: a request that is not sent leaves a retry queued, and neither the
   next contract nor the next request calls it off. A retry that runs while a later
   request is out, and is not sent either, raises the limit to that of the present
   contract before the source has answered (`max77705-typec.patch`, 865-867; what it
   promises is at 26-27 and 835-838). If the source then accepts more voltage, the
   charger draws the current of the lower one until the report is handled. The proof
   of `RequestsAreCovered` came upon it: `Covered` is not inductive without `undone`.

Observations that no run is spent on:

* a suspend between the check for one and the drain of the power key, in the same
  poll, lets the wake press blank the console until the next poll;
  `WakePressIsDiscarded` excepts exactly that;
* a read of gpio-keys that fails after it took a switch event over
  (`foliod.c:903-909`) returns before the trigger, and the rescan it schedules
  compares `d->hard` with what it is already: the lid or pen that moved is reported
  with the next trigger of any kind, or by the heartbeat, and not at all when there
  is neither;
* a keyboard or gpio-keys whose node cannot be opened while the directory is walked
  (`foliod.c:953-960`) counts as absent until an event node comes, goes or changes its
  attributes;
* a trigger during a hung sample steps the classifier with no reading, and that step
  counts as a failed sample towards the fallback;
* hall 169 closes the lid after the bare or docked arm has classified the pen, so
  a closed row may change `pen_docked`;
* the rescan of `console-blank.sh` closes descriptors with input still queued on
  them; `InputLights` speaks of input the script has seen;
* one failed resume of the touch driver leaves its interrupt disabled for good;
  `DepthCountsFailedResumes`, proved, states it;
* a heartbeat set to a multiple of 2^32 is off, and a negative setting wraps;
* an empty value in the environment keeps the file's value out and the default in;
* on a contract that is not fixed, the USB-C driver raises the limit as soon as it
  asks for another, and keeps it raised if the request is not sent;
  `LimitFitsContract` excepts it;
* a port held safe is retried once, a minute later; when that retry fails to set the
  chip up, nothing is queued and only a reset that reports itself gets it out
  (`max77705-typec-review-fixes.patch`, 24-26, 418, 436);
* a hard reset that drops CCStat to none before the work reads it does not start the
  pause after a hard reset, since the detach has forgotten the request;
* the overlap cases of the harness that move by 4096 compare a pattern that repeats
  after 256 bytes, so they cannot fail;
* a short write of the patched blob (`plat_linux.c`) goes unnoticed, and the verdict
  stays PASS.

## 8. What is left out

* foliod: `--once`, the thresholds of the configuration (floats), uinput set-up,
  logging.
* console-blank: `status`, `on`, `off`, the exits at start and when no input
  node is left, and a clock that is set back: it suppresses `kick_foliod`
  (`LAST_KICK`) until it has caught up, and date(1) is set by chrony on this image.
* stm32-pogo: the I2C framing, keymap, coordinates and the reset pulse.
* max77705-typec: offers that change while a source is attached (the driver reads
  them again at each PSRDY, `max77705-typec.patch:780-783`), an answer that selects
  none of them (900-901; here a contract that is not read), the mailbox protocol (a command succeeds, fails, or is answered
  unseen), data role, VCONN and orientation, the Type-C class, the power supply's
  properties, the parsing of sink capabilities.
* the harness: printing, limits on depth and path length, the system calls of its
  two platforms.
* floats: the classifier computes in `float`; the model in integers. Rounding
  below one microtesla is not told apart by any threshold.
* `/dev/input` names: a node renumbered between a rescan and a query is not
  modelled.
* the components marked so in the table; `PROJECT.json` gives the reasons.
