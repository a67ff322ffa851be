------------------------------- MODULE Foliod -------------------------------
(***************************************************************************)
(* The folio-state daemon, foliod.c: a GLib main loop whose handlers read  *)
(* the hall switches, follow the keyboard device, run one sample sequence  *)
(* at a time through the asynchronous libssc calls, and report lid and pen *)
(* through the classifier of FolioState.                                   *)
(*                                                                         *)
(* Every handler runs to completion, so each is one action.  The world     *)
(* (devices, magnets, signals) and libssc (its callbacks) move between     *)
(* handlers.  Timers are armed or not; an armed one may fire at any time.  *)
(* Not modelled: --once, the log lines, a write to uinput that fails.      *)
(***************************************************************************)
EXTENDS FolioState

CONSTANTS
    Readings,           \* magnetometer readings the sensor may report
    MagSamples,         \* readings averaged per sample, mag_samples
    HeartbeatS,         \* heartbeat_s, 0 disables
    AttachedHeartbeatS, \* attached_heartbeat_s, 0 disables
    Failing,            \* what can fail: opendir, a device's node, a read
    MaxChanges          \* bound: changes of the world in a behaviour

ASSUME FoliodAssumption ==
    /\ Readings \subseteq Reading
    /\ MagSamples \in Nat \ {0}
    /\ HeartbeatS \in Nat
    /\ AttachedHeartbeatS \in Nat
    /\ Failing \subseteq {"scan", "node", "read"}
    /\ MaxChanges \in Nat

VARIABLES
    world,          \* the real levels, and whether gpio-keys exists
    changes,        \* how often the world has changed
    swEvents,       \* switches with events on the open gpio-keys descriptor
    hangup,         \* the open gpio-keys descriptor has hung up
    dirEvents,      \* a change of /dev/input waits in the file monitor
    streaming,      \* sensors the SLPI is streaming: subset of {"mag", "light"}
    hard,           \* d->hard
    hardKnown,      \* d->hard_known
    gpioOpen,       \* d->gpio_watch and d->gpio
    deaf,           \* history: devices the last scan failed to see
    discarded,      \* history: a failed read threw a change away, and no
                    \* trigger has fired since
    rescanId, triggerId, heartbeatId, timeoutId,    \* armed timers
    mag, light,     \* the sensor objects
    phase, sampling, abandoned, rerun,
    magN, magSum, magOk,
    bright,         \* light_ok with light_lux above the veto
    st              \* d->st; its output fields are d->last

worldVars == <<world, changes>>
queueVars == <<swEvents, hangup, dirEvents>>
inputVars == <<hard, hardKnown, gpioOpen, deaf, discarded, rescanId>>
sensorVars == <<mag, light>>
roundVars == <<phase, sampling, abandoned, rerun, timeoutId, streaming>>
readingVars == <<magN, magSum, magOk, bright>>
reportVars == <<st, heartbeatId>>

vars == <<worldVars, queueVars, inputVars, triggerId, sensorVars, roundVars,
          readingVars, reportVars>>

SensorObject == {"none", "creating", "ready"}

(* enum phase.  The five phases named for a libssc call have that call in  *)
(* flight; the two Collect phases wait for a measurement.                  *)
Phases == {"Idle", "WaitSensors", "MagOpen", "MagCollect", "MagClose",
           "LightOpen", "LightCollect", "LightClose"}

Devices == {"kb", "gpio"}
Switches == {"hall23", "hall169"}

World == [kb : BOOLEAN, hall23 : BOOLEAN, hall169 : BOOLEAN, gpio : BOOLEAN]

TypeOK ==
    /\ world \in World
    /\ changes \in 0..MaxChanges
    /\ swEvents \subseteq Switches /\ hangup \in BOOLEAN /\ dirEvents \in BOOLEAN
    /\ streaming \subseteq {"mag", "light"}
    /\ hard \in Hard
    /\ hardKnown \in BOOLEAN /\ gpioOpen \in BOOLEAN
    /\ deaf \subseteq Devices /\ discarded \in BOOLEAN
    /\ rescanId \in BOOLEAN /\ triggerId \in BOOLEAN
    /\ heartbeatId \in BOOLEAN /\ timeoutId \in BOOLEAN
    /\ mag \in SensorObject /\ light \in SensorObject
    /\ phase \in Phases
    /\ sampling \in BOOLEAN /\ abandoned \in BOOLEAN /\ rerun \in BOOLEAN
    /\ magN \in 0..MagSamples
    /\ magSum \in Reading
    /\ magOk \in BOOLEAN /\ bright \in BOOLEAN
    /\ st \in State

-----------------------------------------------------------------------------
(* Reporting.                                                              *)

Average == [z |-> IF magN = 0 THEN 0 ELSE magSum.z \div magN,
            x |-> IF magN = 0 THEN 0 ELSE magSum.x \div magN]

NoReading == [z |-> 0, x |-> 0]

SampleInput(m, usable) ==
    [hard |-> hard, magValid |-> usable,
     mag |-> IF usable THEN Average ELSE NoReading,
     bright |-> bright, absent |-> m = "none"]

HardInput(m) ==
    [hard |-> hard, magValid |-> FALSE, mag |-> NoReading,
     bright |-> FALSE, absent |-> m = "none"]

(* arm_heartbeat: one shot, for the context just reported.                 *)
HeartbeatArmed(s) ==
    IF s.prev = "attached" THEN AttachedHeartbeatS > 0 ELSE HeartbeatS > 0

(* step_and_publish.                                                       *)
Report(input) ==
    /\ st' = Step(st, input)
    /\ heartbeatId' = HeartbeatArmed(st')

-----------------------------------------------------------------------------
(* The sample sequence.                                                    *)

(* Broken form: the sums of the previous sample are not cleared.           *)
StartRoundKeepingSum(m, l) ==
    /\ sampling' = TRUE
    /\ abandoned' = FALSE
    /\ rerun' = FALSE
    /\ timeoutId' = TRUE
    /\ UNCHANGED readingVars
    /\ mag' = IF m = "none" THEN "creating" ELSE m
    /\ light' = IF l = "none" THEN "creating" ELSE l
    /\ phase' = IF m = "ready" /\ l = "ready" THEN "MagOpen" ELSE "WaitSensors"

(* sample_start with no sample in progress.  ensure_sensors asks for every *)
(* object that is missing and the sample waits for the answers.            *)
StartRound(m, l) ==
    /\ sampling' = TRUE
    /\ abandoned' = FALSE
    /\ rerun' = FALSE
    /\ timeoutId' = TRUE
    /\ magN' = 0
    /\ magSum' = NoReading
    /\ magOk' = FALSE
    /\ bright' = FALSE
    /\ mag' = IF m = "none" THEN "creating" ELSE m
    /\ light' = IF l = "none" THEN "creating" ELSE l
    /\ phase' = IF m = "ready" /\ l = "ready" THEN "MagOpen" ELSE "WaitSensors"

(* Broken form: the timeout source is left behind.                         *)
EndRoundTimerLeft(m, l) ==
    /\ sampling' = FALSE
    /\ abandoned' = FALSE
    /\ rerun' = FALSE
    /\ phase' = "Idle"
    /\ mag' = m
    /\ light' = l
    /\ UNCHANGED <<readingVars, timeoutId>>

EndRound(m, l) ==
    /\ sampling' = FALSE
    /\ abandoned' = FALSE
    /\ rerun' = FALSE
    /\ timeoutId' = FALSE
    /\ phase' = "Idle"
    /\ mag' = m
    /\ light' = l
    /\ UNCHANGED readingVars

(* Broken form: the report is made again for an abandoned sample.          *)
FinishRoundAgain(m, l) ==
    /\ Report(SampleInput(m, magOk))
    /\ IF rerun THEN StartRound(m, l) ELSE EndRound(m, l)

(* Broken form: a rerun that came in is dropped.                           *)
FinishRoundNoRerun(m, l) ==
    /\ IF abandoned THEN UNCHANGED reportVars ELSE Report(SampleInput(m, magOk))
    /\ EndRound(m, l)

(* sample_finish, with the sensor objects as the caller leaves them.       *)
FinishRound(m, l) ==
    /\ IF abandoned THEN UNCHANGED reportVars ELSE Report(SampleInput(m, magOk))
    /\ IF rerun THEN StartRound(m, l) ELSE EndRound(m, l)

Goto(p) ==
    /\ phase' = p
    /\ UNCHANGED <<sampling, abandoned, rerun, timeoutId, sensorVars, reportVars>>

(* sample_advance from PH_LIGHT_OPEN.                                      *)
LightPhase ==
    IF light # "ready" \/ abandoned
    THEN FinishRound(mag, light)
    ELSE Goto("LightOpen") /\ UNCHANGED readingVars

(* sample_advance from PH_IDLE, when the sensors have been answered.       *)
BeginReading(m, l) ==
    IF abandoned \/ (m # "ready" /\ l # "ready")
    THEN FinishRound(m, l)
    ELSE /\ phase' = IF m = "ready" THEN "MagOpen" ELSE "LightOpen"
         /\ mag' = m
         /\ light' = l
         /\ UNCHANGED <<sampling, abandoned, rerun, timeoutId, readingVars,
                        reportVars>>

(* mag_new_cb and light_new_cb, and sensors_created behind both: the       *)
(* sequence goes on when neither object is still being created.            *)
SensorsCreated(m, l) ==
    IF m = "creating" \/ l = "creating"
    THEN /\ mag' = m
         /\ light' = l
         /\ UNCHANGED <<phase, sampling, abandoned, rerun, timeoutId,
                        readingVars, reportVars>>
    ELSE BeginReading(m, l)

CallbackFrame == UNCHANGED <<worldVars, queueVars, inputVars, triggerId>>

MagNew ==
    /\ mag = "creating"
    /\ \E m \in {"none", "ready"} : SensorsCreated(m, light)
    /\ UNCHANGED streaming
    /\ CallbackFrame

LightNew ==
    /\ light = "creating"
    /\ \E l \in {"none", "ready"} : SensorsCreated(mag, l)
    /\ UNCHANGED streaming
    /\ CallbackFrame

(* mag_open_cb *)
MagOpened ==
    /\ phase = "MagOpen"
    /\ \/ /\ streaming' = streaming \cup {"mag"}
          /\ Goto(IF abandoned THEN "MagClose" ELSE "MagCollect")
          /\ UNCHANGED readingVars
       \/ /\ LightPhase
          /\ UNCHANGED streaming
    /\ CallbackFrame

(* mag_measurement: readings outside PH_MAG_COLLECT are dropped.           *)
MagMeasurement(r) ==
    /\ phase = "MagCollect"
    /\ magN' = magN + 1
    /\ magSum' = [z |-> magSum.z + r.z, x |-> magSum.x + r.x]
    /\ magOk' = (magN' >= MagSamples)
    /\ Goto(IF magN' >= MagSamples THEN "MagClose" ELSE "MagCollect")
    /\ UNCHANGED <<bright, streaming>>
    /\ CallbackFrame

(* mag_close_cb.  A close that fails moves on all the same; libssc is taken *)
(* to have stopped the stream either way.                                  *)
MagClosed ==
    /\ phase = "MagClose"
    /\ streaming' = streaming \ {"mag"}
    /\ LightPhase
    /\ CallbackFrame

(* light_open_cb *)
LightOpened ==
    /\ phase = "LightOpen"
    /\ \/ /\ streaming' = streaming \cup {"light"}
          /\ Goto(IF abandoned THEN "LightClose" ELSE "LightCollect")
          /\ UNCHANGED readingVars
       \/ /\ FinishRound(mag, light)
          /\ UNCHANGED streaming
    /\ CallbackFrame

(* light_measurement *)
LightMeasurement(b) ==
    /\ phase = "LightCollect"
    /\ bright' = b
    /\ Goto("LightClose")
    /\ UNCHANGED <<magN, magSum, magOk, streaming>>
    /\ CallbackFrame

(* light_close_cb *)
LightClosed ==
    /\ phase = "LightClose"
    /\ streaming' = streaming \ {"light"}
    /\ FinishRound(mag, light)
    /\ CallbackFrame

(* Broken form: a sensor left waiting for a report stays open.             *)
AfterTimeoutStayOpen(p) == p

(* A sensor left waiting for a report is closed now.                       *)
AfterTimeout(p) ==
    CASE p = "MagCollect" -> "MagClose"
      [] p = "LightCollect" -> "LightClose"
      [] OTHER -> p

(* sample_timeout: report with what there is, a partial average included,  *)
(* and abandon the sample.                                                 *)
SampleTimeout ==
    /\ timeoutId
    /\ timeoutId' = FALSE
    /\ magOk' = (magOk \/ magN > 0)
    /\ Report(SampleInput(mag, magOk'))
    /\ abandoned' = TRUE
    /\ phase' = AfterTimeout(phase)
    /\ UNCHANGED <<sampling, rerun, streaming, sensorVars, magN, magSum, bright>>
    /\ CallbackFrame

-----------------------------------------------------------------------------
(* Triggers.                                                               *)

(* Broken form: a trigger during an abandoned sample waits for its end.    *)
SampleStartWaiting ==
    IF sampling
    THEN /\ rerun' = TRUE
         /\ UNCHANGED <<reportVars, phase, sampling, abandoned, timeoutId,
                        sensorVars, readingVars>>
    ELSE StartRound(mag, light) /\ UNCHANGED reportVars

(* sample_start: a sample in progress is followed by another; while the    *)
(* sensors are known slow the hard signals are reported at once.           *)
SampleStart ==
    IF sampling
    THEN /\ rerun' = TRUE
         /\ IF abandoned \/ phase = "WaitSensors"
            THEN Report(HardInput(mag)) ELSE UNCHANGED reportVars
         /\ UNCHANGED <<phase, sampling, abandoned, timeoutId, sensorVars,
                        readingVars>>
    ELSE StartRound(mag, light) /\ UNCHANGED reportVars

TriggerFire ==
    /\ triggerId
    /\ triggerId' = FALSE
    /\ discarded' = FALSE
    /\ SampleStart
    /\ UNCHANGED <<worldVars, queueVars, hard, hardKnown, gpioOpen, deaf,
                   rescanId, streaming>>

Heartbeat ==
    /\ heartbeatId
    /\ heartbeatId' = FALSE
    /\ triggerId' = TRUE
    /\ UNCHANGED <<worldVars, queueVars, inputVars, sensorVars, roundVars,
                   readingVars, st>>

-----------------------------------------------------------------------------
(* Inputs.                                                                 *)

InputFrame == UNCHANGED <<worldVars, sensorVars, roundVars, readingVars, reportVars>>

(* gpio_drop *)
DropGpio ==
    /\ gpioOpen' = FALSE
    /\ swEvents' = {}
    /\ hangup' = FALSE

(* A hang-up is looked at first and loses the events.                      *)
GpioHangup ==
    /\ hangup
    /\ DropGpio
    /\ rescanId' = TRUE
    /\ UNCHANGED <<hard, discarded, triggerId>>

(* Broken form: a switch event is taken over without a trigger.            *)
GpioDrainedSilent ==
    /\ ~hangup /\ swEvents # {}
    /\ hard' = [hard EXCEPT !.hall23 = world.hall23, !.hall169 = world.hall169]
    /\ swEvents' = {}
    /\ UNCHANGED <<gpioOpen, hangup, discarded, rescanId, triggerId>>

(* Every event is drained.  After an overrun libevdev reports only the     *)
(* differences, so a switch that came back may go unnoticed.               *)
GpioDrained ==
    /\ ~hangup /\ swEvents # {}
    /\ hard' = [hard EXCEPT !.hall23 = world.hall23, !.hall169 = world.hall169]
    /\ \E changed \in BOOLEAN :
          /\ hard' # hard => changed
          /\ triggerId' = (triggerId \/ changed)
    /\ swEvents' = {}
    /\ UNCHANGED <<gpioOpen, hangup, discarded, rescanId>>

(* A read fails after some of the events.  The levels that were taken over *)
(* stay in d->hard; that there were any is forgotten with the return.      *)
GpioReadFails ==
    /\ "read" \in Failing
    /\ ~hangup /\ swEvents # {}
    /\ \E taken \in SUBSET swEvents :
          /\ hard' = [hard EXCEPT !.hall23 = (@ # ("hall23" \in taken)),
                                  !.hall169 = (@ # ("hall169" \in taken))]
          /\ discarded' = (discarded \/ taken # {})
    /\ DropGpio
    /\ rescanId' = TRUE
    /\ UNCHANGED triggerId

(* gpio_readable *)
GpioReadable ==
    /\ gpioOpen
    /\ GpioHangup \/ GpioDrained \/ GpioReadFails
    /\ UNCHANGED <<dirEvents, deaf, hardKnown>>
    /\ InputFrame

(* dir_changed *)
DirChanged ==
    /\ dirEvents
    /\ dirEvents' = FALSE
    /\ rescanId' = TRUE
    /\ UNCHANGED <<swEvents, hangup, hard, hardKnown, deaf, discarded, gpioOpen,
                   triggerId>>
    /\ InputFrame

(* The devices whose node a walk of /dev/input may fail to open or libevdev *)
(* may fail to read: scan_inputs passes over them and succeeds.            *)
Skips == IF "node" \in Failing THEN SUBSET Devices ELSE {{}}

Found(device, skipped) == world[device] /\ device \notin skipped

(* Broken form: the levels are not read when gpio-keys is opened.          *)
ScannedOldLevels(skipped) ==
    [hard EXCEPT !.kb = Found("kb", skipped)]

(* What scan_inputs leaves in d->hard: the switches of a gpio-keys that is *)
(* not found keep their last level.                                        *)
Scanned(skipped) ==
    [kb |-> Found("kb", skipped),
     hall23 |-> IF Found("gpio", skipped) THEN world.hall23 ELSE hard.hall23,
     hall169 |-> IF Found("gpio", skipped) THEN world.hall169 ELSE hard.hall169]

(* rescan_fire over scan_inputs, which reopens gpio-keys and reads the     *)
(* levels afresh.  A device that was passed over is not tried again.       *)
RescanFire ==
    /\ rescanId
    /\ rescanId' = FALSE
    /\ \E skipped \in Skips :
          /\ hard' = Scanned(skipped)
          /\ gpioOpen' = Found("gpio", skipped)
          /\ deaf' = {device \in skipped : world[device]}
    /\ hardKnown' = TRUE
    /\ triggerId' = (triggerId \/ ~hardKnown \/ hard' # hard)
    /\ swEvents' = {}
    /\ hangup' = FALSE
    /\ UNCHANGED <<dirEvents, discarded>>
    /\ InputFrame

(* rescan_fire when opendir fails: nothing is read, nothing is retried.    *)
RescanFails ==
    /\ "scan" \in Failing
    /\ rescanId
    /\ rescanId' = FALSE
    /\ deaf' = Devices
    /\ UNCHANGED <<queueVars, hard, hardKnown, gpioOpen, discarded, triggerId>>
    /\ InputFrame

(* on_usr1 *)
Usr1 ==
    /\ triggerId' = TRUE
    /\ UNCHANGED <<queueVars, inputVars>>
    /\ InputFrame

-----------------------------------------------------------------------------
(* The world: at most MaxChanges changes.                                  *)

WorldFrame == UNCHANGED <<inputVars, triggerId, sensorVars, roundVars,
                          readingVars, reportVars>>

ChangeWorld(w) ==
    /\ changes < MaxChanges
    /\ changes' = changes + 1
    /\ world' = w
    /\ WorldFrame

(* A magnet comes or goes: the kernel queues an event for a live gpio-keys *)
(* descriptor.                                                             *)
MagnetMoves ==
    /\ \E sw \in Switches :
          /\ ChangeWorld([world EXCEPT ![sw] = ~@])
          /\ swEvents' = IF world.gpio /\ gpioOpen /\ ~hangup
                         THEN swEvents \cup {sw} ELSE swEvents
    /\ UNCHANGED <<hangup, dirEvents>>

(* stm32-pogo registers or unregisters the keyboard.                       *)
KeyboardMoves ==
    /\ ChangeWorld([world EXCEPT !.kb = ~@])
    /\ dirEvents' = TRUE
    /\ UNCHANGED <<swEvents, hangup>>

(* gpio-keys is unbound or bound again; unbinding hangs an open descriptor *)
(* up.                                                                     *)
GpioMoves ==
    /\ ChangeWorld([world EXCEPT !.gpio = ~@])
    /\ dirEvents' = TRUE
    /\ hangup' = (hangup \/ (gpioOpen /\ world.gpio))
    /\ UNCHANGED swEvents

-----------------------------------------------------------------------------
(* main: scan_inputs, then sample_start with no sensor object yet.         *)
Init ==
    /\ world \in World
    /\ changes = 0
    /\ swEvents = {} /\ hangup = FALSE /\ dirEvents = FALSE
    /\ streaming = {}
    /\ hardKnown \in {TRUE} \cup {"scan" \notin Failing}
    /\ deaf \in IF hardKnown
               THEN {{device \in skipped : world[device]} : skipped \in Skips}
               ELSE {Devices}
    /\ discarded = FALSE
    /\ gpioOpen = Found("gpio", deaf)
    /\ hard = [kb |-> Found("kb", deaf),
               hall23 |-> gpioOpen /\ world.hall23,
               hall169 |-> gpioOpen /\ world.hall169]
    /\ rescanId = FALSE /\ triggerId = FALSE /\ heartbeatId = FALSE
    /\ mag = "creating" /\ light = "creating"
    /\ phase = "WaitSensors" /\ sampling = TRUE
    /\ abandoned = FALSE /\ rerun = FALSE /\ timeoutId = TRUE
    /\ magN = 0 /\ magSum = NoReading /\ magOk = FALSE /\ bright = FALSE
    /\ st = InitState

Timers == TriggerFire \/ Heartbeat \/ SampleTimeout \/ RescanFire \/ RescanFails
Inbox == GpioReadable \/ DirChanged
Callbacks ==
    \/ MagNew \/ LightNew \/ MagOpened \/ MagClosed \/ LightOpened \/ LightClosed
    \/ \E r \in Readings : MagMeasurement(r)
    \/ \E b \in BOOLEAN : LightMeasurement(b)

Next == Timers \/ Inbox \/ Callbacks \/ Usr1
        \/ MagnetMoves \/ KeyboardMoves \/ GpioMoves

Spec == Init /\ [][Next]_vars

(* The main loop dispatches every source that stays ready; libssc need not *)
(* ever answer.                                                            *)
LoopFairness ==
    /\ WF_vars(TriggerFire) /\ WF_vars(SampleTimeout)
    /\ WF_vars(RescanFire) /\ WF_vars(GpioReadable) /\ WF_vars(DirChanged)

LoopSpec == Spec /\ LoopFairness

(* libssc answers a call; it need not ever report a measurement.           *)
Answers == MagNew \/ LightNew \/ MagOpened \/ MagClosed \/ LightOpened \/ LightClosed

-----------------------------------------------------------------------------
(* Safety.                                                                 *)

(* No sensor streams between samples (foliod.c:16-18, issue #46), and a    *)
(* sample that was abandoned waits for no report: whatever was opened is   *)
(* on its way to being closed, along every path through the sequence.      *)
StreamsAreClosed ==
    /\ "mag" \in streaming <=> phase \in {"MagCollect", "MagClose"}
    /\ "light" \in streaming <=> phase \in {"LightCollect", "LightClose"}
    /\ abandoned => phase \notin {"MagCollect", "LightCollect"}

(* The phase tells what the daemon is waiting for: an idle daemon owes     *)
(* nothing, the sensor a phase reads exists, and a creation is waited for. *)
SequenceIsCoherent ==
    /\ sampling <=> phase # "Idle"
    /\ ~sampling => ~abandoned /\ ~rerun
    /\ phase = "WaitSensors" <=> (mag = "creating" \/ light = "creating")
    /\ phase \in {"MagOpen", "MagCollect", "MagClose"} => mag = "ready"
    /\ phase \in {"LightOpen", "LightCollect", "LightClose"} => light = "ready"
    /\ phase = "MagCollect" => magN < MagSamples

(* A sample that has not been reported has its timeout armed, so a silent  *)
(* sensor cannot hold it; one that is over has none, so a late timeout     *)
(* cannot report for the next one.                                         *)
TimeoutGuardsSample == timeoutId <=> sampling /\ ~abandoned

(* With both heartbeats on, something is always armed that leads to the    *)
(* next report: the daemon cannot fall silent, whatever libssc does.       *)
NeverSilent ==
    HeartbeatS > 0 /\ AttachedHeartbeatS > 0 =>
        heartbeatId \/ triggerId \/ timeoutId

(* When the hard signals and the context on the virtual device disagree,   *)
(* the correction is under way: a trigger is armed or a sample that will   *)
(* still be reported is running.  One exit of gpio_readable breaks this: a *)
(* read that fails after it took a change over forgets to trigger for it,  *)
(* and the rescan it asks for compares d->hard with itself                 *)
(* (foliod.c:903-909).  Such a change waits for the next trigger of any    *)
(* kind, at the latest the one of the heartbeat when the heartbeats are on.*)
StaleReportIsPending ==
    PickContext(hard) # st.prev =>
        \/ triggerId
        \/ sampling /\ ~abandoned
        \/ /\ discarded
           /\ HeartbeatS > 0 /\ AttachedHeartbeatS > 0 => heartbeatId

(* What the daemon has wrong about a device has an event on its way that   *)
(* will put it right; so has a gpio-keys that is there and not yet opened. *)
(* A scan that fails (foliod.c:940-943), or that passes over this device   *)
(* because its node cannot be opened (foliod.c:953-960), is not tried      *)
(* again, so for the devices it missed this starts over with the next.     *)
MissedInputIsPending ==
    /\ "kb" \notin deaf /\ hard.kb # world.kb => dirEvents \/ rescanId
    /\ "gpio" \notin deaf /\ world.gpio =>
          /\ \A sw \in Switches : hard[sw] # world[sw] =>
                sw \in swEvents \/ hangup \/ dirEvents \/ rescanId
          /\ ~gpioOpen => dirEvents \/ rescanId

(* What a report averages was read in the sample it reports: a new sample  *)
(* starts from nothing, and a usable average has a reading behind it.      *)
ReadingsAreThisRounds ==
    /\ magOk => magN > 0
    /\ phase \in {"WaitSensors", "MagOpen"} => magN = 0 /\ ~magOk /\ ~bright

(* A trigger that came during a sample is not lost: that sample ends only  *)
(* into another one, with a timeout of its own.                            *)
TriggerIsSampled ==
    [][rerun /\ ~rerun' => sampling' /\ timeoutId' /\ magN' = 0]_vars

-----------------------------------------------------------------------------
(* Liveness.                                                               *)

(* What corrects a report: every change of the hard signals triggers, or   *)
(* the heartbeat does in the place of one that a failed read discarded.    *)
Corrects == <>[]~discarded \/ WF_vars(Heartbeat)

(* Once the world is still the daemon knows the hard signals of every      *)
(* device its last scan did not miss, and the reported context is the one  *)
(* those pick, even if libssc never answers a single call.                 *)
HardSignalsShown ==
    /\ <>[]("kb" \notin deaf) => <>[](hard.kb = world.kb)
    /\ <>[]("gpio" \notin deaf) =>
          <>[](world.gpio => \A sw \in Switches : hard[sw] = world[sw])
    /\ Corrects => <>[](st.prev = PickContext(hard))

(* When libssc answers its calls every abandoned sample comes to its end,  *)
(* and the next trigger tries again.                                       *)
AbandonedSampleEnds == WF_vars(Answers) => (abandoned ~> ~abandoned)

-----------------------------------------------------------------------------
Round == IF ~sampling THEN "idle" ELSE IF abandoned THEN "reported" ELSE "open"

Abs == INSTANCE FolioReport
         WITH seen <- PickContext(hard), shown <- st.prev, round <- Round

(* The daemon implements FolioReport, with no help from libssc; that it    *)
(* replaces what is out of date rests on Corrects.                         *)
ReportsAsPromised ==
    /\ Abs!Init
    /\ [][Abs!Next]_(Abs!vars)
    /\ Corrects => Abs!Fairness

(* Its safety alone, which needs no fairness and no working rescan: every  *)
(* report shows the context of the hard signals known at that moment, and  *)
(* a sample is reported once.                                              *)
ReportsSafely == Abs!Init /\ [][Abs!Next]_(Abs!vars)
=============================================================================
