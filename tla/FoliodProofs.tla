---------------------------- MODULE FoliodProofs ----------------------------
(***************************************************************************)
(* The safety of the daemon for every configuration, any number of         *)
(* changes of the world and any behaviour of libssc; its refinement of     *)
(* FolioReport; and that any configuration gives it usable numbers.        *)
(***************************************************************************)
EXTENDS Foliod, FoliodConfig, WellFoundedInduction, TLAPS

IInv ==
    /\ TypeOK
    /\ SequenceIsCoherent
    /\ StreamsAreClosed
    /\ TimeoutGuardsSample
    /\ ReadingsAreThisRounds
    /\ StaleReportIsPending
    /\ NeverSilent
    /\ MissedInputIsPending

(* The classifier's step, as far as the daemon rests on it: it yields a     *)
(* state, which notes the context.                                         *)
LEMMA BaselineTypes ==
  ASSUME NEW s \in State, NEW c \in Contexts, NEW b \in Baseline
  PROVE  [s EXCEPT !.base[c] = b] \in State
  BY DEF State

LEMMA LearnTypes ==
  ASSUME NEW b \in Baseline, NEW z \in Int, NEW x \in Int, NEW cond
  PROVE  LearnIf(cond, b, z, x) \in Baseline
<1>1. /\ b.z + (z - b.z) \div 8 \in Int
      /\ b.x + (x - b.x) \div 8 \in Int
  BY DEF Baseline
<1> QED
  BY <1>1 DEF LearnIf, Learn, Baseline

LEMMA EnterTypes ==
  ASSUME NEW s \in State, NEW i \in Input, NEW c \in Contexts
  PROVE  Enter(Count(s, i), c) \in State
<1> DEFINE n == Count(s, i)
           b == IF c = "attached" THEN Seeded(n.base["docked"].z, 0)
                ELSE [n.base[c] EXCEPT !.learned = FALSE]
           t == [n EXCEPT !.revStreak = 0]
<1>1. n \in State
  <2>1. Capped(s.failStreak, FallbackAfter) \in 0..FallbackAfter /\ 0 \in 0..FallbackAfter
    BY ConfigAssumption DEF State, Capped
  <2> QED
    BY <2>1 DEF State, Count
<1> HIDE DEF n
<1>2. n.base["docked"] \in Baseline /\ n.base[c] \in Baseline
  BY <1>1 DEF State, Contexts
<1>3. b \in Baseline
  <2>1. Seeded(n.base["docked"].z, 0) \in Baseline
    BY <1>2 DEF Baseline, Seeded
  <2>2. [n.base[c] EXCEPT !.learned = FALSE] \in Baseline
    BY <1>2 DEF Baseline
  <2> QED
    BY <2>1, <2>2
<1>4. t \in State
  BY <1>1 DEF State
<1>5. Enter(n, c) = n \/ Enter(n, c) = [t EXCEPT !.base[c] = b]
  <2>1. t.base = n.base
    BY <1>1 DEF State
  <2> HIDE DEF b
  <2>2. [n EXCEPT !.revStreak = 0, !.base[c] = b] = [t EXCEPT !.base[c] = b]
    BY <1>1 DEF State
  <2> QED
    BY <2>2 DEF Enter, b
<1> HIDE DEF b, t
<1> QED
  BY <1>1, <1>3, <1>4, <1>5, BaselineTypes DEF n

(* One arm for each context.                                               *)
LEMMA ArmTypes ==
  ASSUME NEW s \in State, NEW i \in Input
  PROVE  Docked(s, i) \in State /\ Bare(s, i) \in State /\ Attached(s, i) \in State
<1> DEFINE base(c) == s.base[c]
           Shown(o) == o \in State /\ o.base = s.base
<1>1. /\ \A c \in Contexts : base(c) \in Baseline
      /\ i.mag.z \in Int /\ i.mag.x \in Int /\ 0 \in Int
  BY DEF State, Input, Reading
<1>2. ASSUME NEW o, Shown(o), NEW c \in Contexts, NEW cond, NEW x \in Int
      PROVE  [o EXCEPT !.base[c] = LearnIf(cond, @, i.mag.z, x)] \in State
  <2>1. LearnIf(cond, o.base[c], i.mag.z, x) \in Baseline
    BY <1>1, <1>2, LearnTypes
  <2> QED
    BY <1>2, <2>1, BaselineTypes
<1>3. Docked(s, i) \in State
  <2> DEFINE pen == i.mag.z - s.base["docked"].z >= PenDzDocked
             open == [s EXCEPT !.lid = FALSE, !.penReversed = FALSE]
             o == [open EXCEPT !.penDocked = pen]
  <2>1. pen \in BOOLEAN
    BY <1>1, ConfigAssumption DEF Contexts, Baseline
  <2> HIDE DEF pen
  <2>2. Shown(open) /\ Shown(o)
    BY <2>1 DEF State
  <2>3. Docked(s, i) = IF ~i.magValid THEN open
                       ELSE [o EXCEPT !.base["docked"] = LearnIf(~pen, @, i.mag.z, 0)]
    BY DEF Docked, pen
  <2> HIDE DEF open, o, Shown
  <2>4. [o EXCEPT !.base["docked"] = LearnIf(~pen, @, i.mag.z, 0)] \in State
    BY <1>1, <1>2, <2>2 DEF Contexts
  <2>5. open \in State
    BY <2>2 DEF Shown
  <2> QED
    BY <2>3, <2>4, <2>5
<1>4. Bare(s, i) \in State
  <2> DEFINE dz == i.mag.z - s.base["bare"].z
             dx == i.mag.x - s.base["bare"].x
             pen == dz >= PenDzBare
             looks == ~pen /\ dz <= -ReversedDz /\ dx <= -ReversedDx
             streak == IF looks THEN Capped(s.revStreak, 2) ELSE 0
             rev == streak = 2
             open == [s EXCEPT !.lid = FALSE]
             o == [open EXCEPT !.penDocked = pen, !.penReversed = rev,
                               !.revStreak = streak]
  <2>1. pen \in BOOLEAN
    BY <1>1, ConfigAssumption DEF Contexts, Baseline
  <2>2. streak \in 0..2 /\ rev \in BOOLEAN
    <3>1. Capped(s.revStreak, 2) \in 0..2
      BY DEF State, Capped
    <3> HIDE DEF looks
    <3> QED
      BY <3>1
  <2>3. Bare(s, i) = IF ~i.magValid THEN open
                     ELSE [o EXCEPT !.base["bare"] =
                                      LearnIf(~pen /\ ~rev, @, i.mag.z, i.mag.x)]
    BY DEF Bare
  <2> HIDE DEF pen, streak, rev
  <2>4. Shown(open) /\ Shown(o)
    BY <2>1, <2>2 DEF State
  <2> HIDE DEF open, o, Shown
  <2>5. [o EXCEPT !.base["bare"] = LearnIf(~pen /\ ~rev, @, i.mag.z, i.mag.x)] \in State
    BY <1>1, <1>2, <2>4 DEF Contexts
  <2>6. open \in State
    BY <2>4 DEF Shown
  <2> QED
    BY <2>3, <2>5, <2>6
<1>5. Attached(s, i) \in State
  <2> DEFINE closed == IF i.magValid
                       THEN i.mag.z - s.base["attached"].z <= -ClosedDz
                       ELSE i.absent \/ s.failStreak >= FallbackAfter \/ s.lid
             lid == closed /\ ~i.bright
             o == [s EXCEPT !.lid = lid]
  <2>1. lid \in BOOLEAN
    OBVIOUS
  <2>2. Attached(s, i) =
          [o EXCEPT !.base["attached"] =
                      LearnIf(i.magValid /\ ~closed, @, i.mag.z, 0)]
    BY DEF Attached
  <2> HIDE DEF closed, lid
  <2>3. Shown(o)
    BY <2>1 DEF State
  <2> HIDE DEF o, Shown
  <2> QED
    BY <1>1, <1>2, <2>2, <2>3, SMTT(30) DEF Contexts
<1> QED
  BY <1>3, <1>4, <1>5

LEMMA StepTypes ==
  ASSUME NEW s \in State, NEW i \in Input
  PROVE  Step(s, i) \in State /\ Step(s, i).prev = PickContext(i.hard)
<1> DEFINE c == PickContext(i.hard)
           e == Enter(Count(s, i), c)
           r == CASE c = "docked" -> Docked(e, i)
                  [] c = "bare" -> Bare(e, i)
                  [] c = "attached" -> Attached(e, i)
           lid == r.lid \/ i.hard.hall169
           last == IF ~lid /\ i.magValid /\ c # "attached"
                   THEN IF r.penDocked THEN "present" ELSE "absent"
                   ELSE r.lastOpenPen
<1>1. c \in Contexts
  BY DEF PickContext, Contexts
<1>2. r \in State
  <2>1. e \in State
    BY <1>1, EnterTypes
  <2> HIDE DEF c, e
  <2> QED
    BY <1>1, <2>1, ArmTypes DEF Contexts
<1>3. Step(s, i) = [r EXCEPT !.prev = c, !.lid = lid, !.lastOpenPen = last]
  BY DEF Step
<1> HIDE DEF r, c
<1>4. lid \in BOOLEAN /\ last \in PenSeen
  BY <1>2 DEF State, PenSeen, Input, Hard
<1> HIDE DEF lid, last
<1> QED
  BY <1>1, <1>2, <1>3, <1>4 DEF State, c

LEMMA InitTypes == InitState \in State
<1> DEFINE f == [c \in Contexts |-> IF c = "bare" THEN Seeded(BaseZBare, BaseXBare)
                                                 ELSE Seeded(BaseZDocked, 0)]
<1>1. f \in [Contexts -> Baseline]
  BY ConfigAssumption DEF Baseline, Seeded
<1> HIDE DEF f
<1>2. 0 \in 0..2 /\ 0 \in 0..FallbackAfter
  BY ConfigAssumption
<1> QED
  BY <1>1, <1>2 DEF InitState, State, PenSeen, f

(* The input of a report has its type.                                     *)
LEMMA InputTypes ==
  ASSUME TypeOK, NEW m, NEW usable \in BOOLEAN
  PROVE  SampleInput(m, usable) \in Input /\ HardInput(m) \in Input
<1>1. Average \in Reading /\ NoReading \in Reading
  <2>1. magSum.z \in Int /\ magSum.x \in Int /\ magN \in Nat
    BY FoliodAssumption DEF TypeOK, Reading
  <2>2. magN # 0 => magSum.z \div magN \in Int /\ magSum.x \div magN \in Int
    BY <2>1
  <2> QED
    BY <2>1, <2>2 DEF Average, NoReading, Reading
<1>2. hard \in Hard /\ bright \in BOOLEAN
  BY DEF TypeOK
<1> QED
  BY <1>1, <1>2 DEF SampleInput, HardInput, Input

(* A report leaves the classifier kept, shows the context of the hard      *)
(* signals, and arms the heartbeat of that context.                        *)
LEMMA ReportShows ==
  ASSUME TypeOK, NEW i \in Input, i.hard = hard, Report(i)
  PROVE  /\ st' \in State
         /\ st'.prev = PickContext(hard)
         /\ heartbeatId' \in BOOLEAN
         /\ HeartbeatS > 0 /\ AttachedHeartbeatS > 0 => heartbeatId'
<1>1. st' \in State /\ st'.prev = PickContext(hard)
  BY StepTypes DEF TypeOK, Report
<1>2. HeartbeatArmed(st') \in BOOLEAN
  <2>1. (AttachedHeartbeatS > 0) \in BOOLEAN /\ (HeartbeatS > 0) \in BOOLEAN
    BY FoliodAssumption
  <2>2. CASE st'.prev = "attached"
    BY <2>1, <2>2, Zenon DEF HeartbeatArmed
  <2>3. CASE st'.prev # "attached"
    BY <2>1, <2>3, Zenon DEF HeartbeatArmed
  <2> QED
    BY <2>2, <2>3
<1>3. HeartbeatS > 0 /\ AttachedHeartbeatS > 0 => HeartbeatArmed(st') = TRUE
  BY FoliodAssumption DEF HeartbeatArmed
<1>4. heartbeatId' = HeartbeatArmed(st')
  BY DEF Report
<1> HIDE DEF HeartbeatArmed
<1> QED
  BY <1>1, <1>2, <1>3, <1>4

(* A round is started or ended: the parts of the invariant that concern    *)
(* the sequence.                                                           *)
Quiet == /\ TypeOK /\ SequenceIsCoherent /\ StreamsAreClosed
         /\ TimeoutGuardsSample /\ ReadingsAreThisRounds

LEMMA StartRoundQuiet ==
  ASSUME NEW m \in {"none", "ready"}, NEW l \in {"none", "ready"},
         StartRound(m, l), streaming' = {}
  PROVE  /\ SequenceIsCoherent' /\ StreamsAreClosed'
         /\ TimeoutGuardsSample' /\ ReadingsAreThisRounds'
         /\ mag' \in SensorObject /\ light' \in SensorObject
         /\ magSum' \in Reading /\ magN' \in 0..MagSamples
         /\ timeoutId' /\ sampling' /\ ~abandoned'
  BY FoliodAssumption
  DEF StartRound, SequenceIsCoherent, StreamsAreClosed, TimeoutGuardsSample,
      ReadingsAreThisRounds, SensorObject, NoReading, Reading

LEMMA EndRoundQuiet ==
  ASSUME Quiet, NEW m \in {"none", "ready"}, NEW l \in {"none", "ready"},
         EndRound(m, l), streaming' = {}
  PROVE  /\ SequenceIsCoherent' /\ StreamsAreClosed'
         /\ TimeoutGuardsSample' /\ ReadingsAreThisRounds'
         /\ ~sampling'
  BY DEF EndRound, Quiet, SequenceIsCoherent, StreamsAreClosed, readingVars,
      TimeoutGuardsSample, ReadingsAreThisRounds

(* sample_finish leaves the invariant, whoever calls it, provided nothing  *)
(* streams any more.                                                       *)
LEMMA FinishRoundKeeps ==
  ASSUME IInv, sampling,
         NEW m \in {"none", "ready"}, NEW l \in {"none", "ready"},
         FinishRound(m, l), streaming' = {}, CallbackFrame
  PROVE  IInv'
<1> USE DEF CallbackFrame, worldVars, queueVars, inputVars
<1>1. /\ st' \in State /\ heartbeatId' \in BOOLEAN
      /\ ~abandoned => st'.prev = PickContext(hard)
      /\ ~abandoned /\ HeartbeatS > 0 /\ AttachedHeartbeatS > 0 => heartbeatId'
      /\ abandoned => st' = st /\ heartbeatId' = heartbeatId
  <2>1. CASE abandoned
    BY <2>1 DEF FinishRound, reportVars, IInv, TypeOK
  <2>2. CASE ~abandoned
    <3>1. SampleInput(m, magOk) \in Input
      BY InputTypes DEF IInv, TypeOK
    <3>2. Report(SampleInput(m, magOk)) /\ SampleInput(m, magOk).hard = hard
      BY <2>2 DEF FinishRound, SampleInput
    <3> QED
      BY <2>2, <3>1, <3>2, ReportShows DEF IInv
  <2> QED
    BY <2>1, <2>2
<1>2. /\ SequenceIsCoherent' /\ StreamsAreClosed'
      /\ TimeoutGuardsSample' /\ ReadingsAreThisRounds'
      /\ mag' \in SensorObject /\ light' \in SensorObject
      /\ magSum' \in Reading /\ magN' \in 0..MagSamples
      /\ (timeoutId' /\ sampling' /\ ~abandoned') \/ ~sampling'
      /\ phase' \in Phases
      /\ {sampling', abandoned', rerun', timeoutId', magOk', bright'} \subseteq BOOLEAN
  <2>1. CASE rerun
    <3>1. StartRound(m, l)
      BY <2>1 DEF FinishRound
    <3> QED
      BY <3>1, StartRoundQuiet DEF StartRound, Phases
  <2>2. CASE ~rerun
    <3>1. EndRound(m, l)
      BY <2>2 DEF FinishRound
    <3> QED
      BY <3>1, EndRoundQuiet
      DEF EndRound, Phases, Quiet, IInv, TypeOK, SensorObject, readingVars
  <2> QED
    BY <2>1, <2>2
<1>3. TypeOK'
  BY <1>1, <1>2 DEF IInv, TypeOK
<1>4. StaleReportIsPending'
  <2>1. abandoned /\ PickContext(hard) # st.prev =>
          \/ triggerId
          \/ discarded /\ (HeartbeatS > 0 /\ AttachedHeartbeatS > 0 => heartbeatId)
    BY DEF IInv, StaleReportIsPending
  <2> QED
    BY <1>1, <2>1 DEF StaleReportIsPending, PickContext
<1>5. NeverSilent'
  <2>1. abandoned => ~timeoutId
    BY DEF IInv, TimeoutGuardsSample
  <2> QED
    BY <1>1, <2>1 DEF IInv, NeverSilent
<1>6. MissedInputIsPending'
  BY DEF IInv, MissedInputIsPending
<1> QED
  BY <1>1, <1>2, <1>3, <1>4, <1>5, <1>6 DEF IInv

(* A step of the sequence that reports nothing and ends nothing: what the  *)
(* invariant says beyond the sequence does not move.                       *)
LEMMA SilentStepKeeps ==
  ASSUME IInv, CallbackFrame, UNCHANGED <<st, heartbeatId, sampling, abandoned, timeoutId>>
  PROVE  /\ st' \in State /\ StaleReportIsPending' /\ NeverSilent'
         /\ MissedInputIsPending' /\ TimeoutGuardsSample'
  BY DEF IInv, TypeOK, CallbackFrame, worldVars, queueVars, inputVars,
      StaleReportIsPending, PickContext, NeverSilent, MissedInputIsPending,
      TimeoutGuardsSample

LEMMA LightPhaseKeeps ==
  ASSUME IInv, sampling, mag = "ready", light # "creating",
         streaming' = {}, LightPhase, CallbackFrame
  PROVE  IInv'
<1>1. mag \in {"none", "ready"} /\ light \in {"none", "ready"}
  BY DEF IInv, TypeOK, SensorObject
<1>2. CASE light # "ready" \/ abandoned
  BY <1>1, <1>2, FinishRoundKeeps DEF LightPhase
<1>3. CASE ~(light # "ready" \/ abandoned)
  <2>1. Goto("LightOpen") /\ UNCHANGED readingVars
    BY <1>3 DEF LightPhase
  <2>2. /\ st' \in State /\ StaleReportIsPending' /\ NeverSilent'
        /\ MissedInputIsPending' /\ TimeoutGuardsSample'
    BY <2>1, SilentStepKeeps DEF Goto, reportVars
  <2>3. TypeOK'
    BY <2>1 DEF IInv, TypeOK, Goto, reportVars, sensorVars, readingVars, Phases,
        CallbackFrame, worldVars, queueVars, inputVars
  <2>4. SequenceIsCoherent' /\ StreamsAreClosed' /\ ReadingsAreThisRounds'
    BY <1>3, <2>1 DEF IInv, SequenceIsCoherent, StreamsAreClosed,
        ReadingsAreThisRounds, Goto, reportVars, sensorVars, readingVars
  <2> QED
    BY <2>2, <2>3, <2>4 DEF IInv
<1> QED
  BY <1>2, <1>3

LEMMA SensorsCreatedKeeps ==
  ASSUME IInv, phase = "WaitSensors", UNCHANGED streaming, CallbackFrame,
         NEW m \in SensorObject, NEW l \in SensorObject, SensorsCreated(m, l)
  PROVE  IInv'
<1>0. sampling /\ streaming' = {}
  BY DEF IInv, SequenceIsCoherent, StreamsAreClosed, TypeOK
<1>1. CASE m = "creating" \/ l = "creating"
  <2>1. /\ mag' = m /\ light' = l
        /\ UNCHANGED <<phase, sampling, abandoned, rerun, timeoutId, readingVars,
                       reportVars>>
    BY <1>1 DEF SensorsCreated
  <2>2. /\ st' \in State /\ StaleReportIsPending' /\ NeverSilent'
        /\ MissedInputIsPending' /\ TimeoutGuardsSample'
    BY <2>1, SilentStepKeeps DEF reportVars
  <2>3. TypeOK'
    BY <2>1 DEF IInv, TypeOK, reportVars, readingVars,
        CallbackFrame, worldVars, queueVars, inputVars
  <2>4. SequenceIsCoherent' /\ StreamsAreClosed' /\ ReadingsAreThisRounds'
    BY <1>1, <2>1 DEF IInv, SequenceIsCoherent, StreamsAreClosed,
        ReadingsAreThisRounds, reportVars, readingVars
  <2> QED
    BY <2>2, <2>3, <2>4 DEF IInv
<1>2. CASE ~(m = "creating" \/ l = "creating")
  <2>1. m \in {"none", "ready"} /\ l \in {"none", "ready"} /\ BeginReading(m, l)
    BY <1>2 DEF SensorObject, SensorsCreated
  <2>2. CASE abandoned \/ (m # "ready" /\ l # "ready")
    BY <1>0, <2>1, <2>2, FinishRoundKeeps DEF BeginReading
  <2>3. CASE ~(abandoned \/ (m # "ready" /\ l # "ready"))
    <3>1. /\ phase' = IF m = "ready" THEN "MagOpen" ELSE "LightOpen"
          /\ mag' = m /\ light' = l
          /\ UNCHANGED <<sampling, abandoned, rerun, timeoutId, readingVars,
                         reportVars>>
      BY <2>1, <2>3 DEF BeginReading
    <3>2. /\ st' \in State /\ StaleReportIsPending' /\ NeverSilent'
          /\ MissedInputIsPending' /\ TimeoutGuardsSample'
      BY <3>1, SilentStepKeeps DEF reportVars
    <3>3. TypeOK'
      BY <2>1, <3>1 DEF IInv, TypeOK, reportVars, readingVars, Phases,
          CallbackFrame, worldVars, queueVars, inputVars
    <3>4. SequenceIsCoherent' /\ StreamsAreClosed' /\ ReadingsAreThisRounds'
      BY <1>0, <2>1, <2>3, <3>1 DEF IInv, SequenceIsCoherent, StreamsAreClosed,
          ReadingsAreThisRounds, reportVars, readingVars
    <3> QED
      BY <3>2, <3>3, <3>4 DEF IInv
  <2> QED
    BY <2>2, <2>3
<1> QED
  BY <1>1, <1>2

-----------------------------------------------------------------------------
(* The callbacks of libssc.                                                *)

LEMMA CreationKeeps == IInv /\ (MagNew \/ LightNew) => IInv'
<1>1. ASSUME IInv, MagNew PROVE IInv'
  <2>1. PICK m \in {"none", "ready"} : SensorsCreated(m, light)
    BY <1>1 DEF MagNew
  <2>2. phase = "WaitSensors" /\ m \in SensorObject /\ light \in SensorObject
    BY <1>1 DEF MagNew, IInv, SequenceIsCoherent, TypeOK, SensorObject
  <2> QED
    BY <1>1, <2>1, <2>2, SensorsCreatedKeeps DEF MagNew
<1>2. ASSUME IInv, LightNew PROVE IInv'
  <2>1. PICK l \in {"none", "ready"} : SensorsCreated(mag, l)
    BY <1>2 DEF LightNew
  <2>2. phase = "WaitSensors" /\ l \in SensorObject /\ mag \in SensorObject
    BY <1>2 DEF LightNew, IInv, SequenceIsCoherent, TypeOK, SensorObject
  <2> QED
    BY <1>2, <2>1, <2>2, SensorsCreatedKeeps DEF LightNew
<1> QED
  BY <1>1, <1>2

LEMMA MagOpenedKeeps == IInv /\ MagOpened => IInv'
<1> SUFFICES ASSUME IInv, MagOpened PROVE IInv'
  OBVIOUS
<1>1. /\ phase = "MagOpen" /\ sampling /\ mag = "ready" /\ light # "creating"
      /\ streaming = {} /\ CallbackFrame
  BY DEF MagOpened, IInv, SequenceIsCoherent, StreamsAreClosed, TypeOK
<1>2. CASE /\ streaming' = streaming \cup {"mag"}
           /\ Goto(IF abandoned THEN "MagClose" ELSE "MagCollect")
           /\ UNCHANGED readingVars
  <2>1. /\ st' \in State /\ StaleReportIsPending' /\ NeverSilent'
        /\ MissedInputIsPending' /\ TimeoutGuardsSample'
    BY <1>1, <1>2, SilentStepKeeps DEF Goto, reportVars
  <2>2. TypeOK'
    BY <1>1, <1>2 DEF IInv, TypeOK, Goto, reportVars, sensorVars, readingVars,
        Phases, CallbackFrame, worldVars, queueVars, inputVars
  <2>3. SequenceIsCoherent' /\ StreamsAreClosed' /\ ReadingsAreThisRounds'
    BY <1>1, <1>2, FoliodAssumption DEF IInv, SequenceIsCoherent, StreamsAreClosed,
        ReadingsAreThisRounds, Goto, reportVars, sensorVars, readingVars
  <2> QED
    BY <2>1, <2>2, <2>3 DEF IInv
<1>3. CASE LightPhase /\ UNCHANGED streaming
  BY <1>1, <1>3, LightPhaseKeeps
<1> QED
  BY <1>2, <1>3 DEF MagOpened

LEMMA MagMeasurementKeeps ==
  ASSUME IInv, NEW r \in Readings, MagMeasurement(r)
  PROVE  IInv'
<1>1. /\ r.z \in Int /\ r.x \in Int /\ magSum.z \in Int /\ magSum.x \in Int
      /\ magN \in Nat /\ magN < MagSamples /\ MagSamples \in Nat
  BY FoliodAssumption
  DEF MagMeasurement, IInv, TypeOK, Reading, SequenceIsCoherent
<1>2. /\ st' \in State /\ StaleReportIsPending' /\ NeverSilent'
      /\ MissedInputIsPending' /\ TimeoutGuardsSample'
  BY SilentStepKeeps DEF MagMeasurement, Goto, reportVars
<1>3. magN' \in 0..MagSamples /\ magOk' \in BOOLEAN /\ magSum' \in Reading
  BY <1>1 DEF MagMeasurement, Reading
<1>4. TypeOK'
  BY <1>3 DEF MagMeasurement, IInv, TypeOK, Goto, reportVars, sensorVars,
      Phases, CallbackFrame, worldVars, queueVars, inputVars
<1>5. SequenceIsCoherent' /\ StreamsAreClosed' /\ ReadingsAreThisRounds'
  BY <1>1 DEF MagMeasurement, IInv, SequenceIsCoherent, StreamsAreClosed,
      ReadingsAreThisRounds, Goto, reportVars, sensorVars
<1> QED
  BY <1>2, <1>4, <1>5 DEF IInv

LEMMA MagClosedKeeps == IInv /\ MagClosed => IInv'
<1> SUFFICES ASSUME IInv, MagClosed PROVE IInv'
  OBVIOUS
<1>1. /\ sampling /\ mag = "ready" /\ light # "creating" /\ streaming' = {}
      /\ LightPhase /\ CallbackFrame
  BY DEF MagClosed, IInv, SequenceIsCoherent, StreamsAreClosed, TypeOK
<1> QED
  BY <1>1, LightPhaseKeeps

LEMMA LightOpenedKeeps == IInv /\ LightOpened => IInv'
<1> SUFFICES ASSUME IInv, LightOpened PROVE IInv'
  OBVIOUS
<1>1. /\ phase = "LightOpen" /\ sampling /\ light = "ready"
      /\ mag \in {"none", "ready"} /\ streaming = {} /\ CallbackFrame
  BY DEF LightOpened, IInv, SequenceIsCoherent, StreamsAreClosed, TypeOK, SensorObject
<1>2. CASE /\ streaming' = streaming \cup {"light"}
           /\ Goto(IF abandoned THEN "LightClose" ELSE "LightCollect")
           /\ UNCHANGED readingVars
  <2>1. /\ st' \in State /\ StaleReportIsPending' /\ NeverSilent'
        /\ MissedInputIsPending' /\ TimeoutGuardsSample'
    BY <1>1, <1>2, SilentStepKeeps DEF Goto, reportVars
  <2>2. TypeOK'
    BY <1>1, <1>2 DEF IInv, TypeOK, Goto, reportVars, sensorVars, readingVars,
        Phases, CallbackFrame, worldVars, queueVars, inputVars
  <2>3. SequenceIsCoherent' /\ StreamsAreClosed' /\ ReadingsAreThisRounds'
    BY <1>1, <1>2 DEF IInv, SequenceIsCoherent, StreamsAreClosed,
        ReadingsAreThisRounds, Goto, reportVars, sensorVars, readingVars
  <2> QED
    BY <2>1, <2>2, <2>3 DEF IInv
<1>3. CASE FinishRound(mag, light) /\ UNCHANGED streaming
  BY <1>1, <1>3, FinishRoundKeeps
<1> QED
  BY <1>2, <1>3 DEF LightOpened

LEMMA LightMeasurementKeeps ==
  ASSUME IInv, NEW b \in BOOLEAN, LightMeasurement(b)
  PROVE  IInv'
<1>1. /\ st' \in State /\ StaleReportIsPending' /\ NeverSilent'
      /\ MissedInputIsPending' /\ TimeoutGuardsSample'
  BY SilentStepKeeps DEF LightMeasurement, Goto, reportVars
<1>2. TypeOK'
  BY DEF LightMeasurement, IInv, TypeOK, Goto, reportVars, sensorVars,
      Phases, CallbackFrame, worldVars, queueVars, inputVars
<1>3. SequenceIsCoherent' /\ StreamsAreClosed' /\ ReadingsAreThisRounds'
  BY DEF LightMeasurement, IInv, SequenceIsCoherent, StreamsAreClosed,
      ReadingsAreThisRounds, Goto, reportVars, sensorVars
<1> QED
  BY <1>1, <1>2, <1>3 DEF IInv

LEMMA LightClosedKeeps == IInv /\ LightClosed => IInv'
<1> SUFFICES ASSUME IInv, LightClosed PROVE IInv'
  OBVIOUS
<1>1. /\ sampling /\ light = "ready" /\ mag \in {"none", "ready"}
      /\ streaming' = {} /\ FinishRound(mag, light) /\ CallbackFrame
  BY DEF LightClosed, IInv, SequenceIsCoherent, StreamsAreClosed, TypeOK, SensorObject
<1> QED
  BY <1>1, FinishRoundKeeps

-----------------------------------------------------------------------------
(* The timers and the triggers.                                            *)

LEMMA SampleTimeoutKeeps == IInv /\ SampleTimeout => IInv'
<1> SUFFICES ASSUME IInv, SampleTimeout PROVE IInv'
  OBVIOUS
<1>1. /\ TypeOK /\ st \in State /\ magOk' \in BOOLEAN /\ sampling /\ ~abandoned
      /\ magN \in 0..MagSamples
  BY DEF SampleTimeout, IInv, TypeOK, TimeoutGuardsSample
<1>2. /\ SampleInput(mag, magOk') \in Input
      /\ SampleInput(mag, magOk').hard = hard
      /\ Report(SampleInput(mag, magOk'))
  BY <1>1, InputTypes DEF SampleInput, SampleTimeout
<1>3. /\ st' \in State /\ st'.prev = PickContext(hard) /\ heartbeatId' \in BOOLEAN
      /\ HeartbeatS > 0 /\ AttachedHeartbeatS > 0 => heartbeatId'
  BY <1>1, <1>2, ReportShows
<1>4. /\ abandoned' /\ ~timeoutId' /\ phase' = AfterTimeout(phase)
      /\ UNCHANGED <<sampling, rerun, streaming, mag, light, magN, magSum, bright,
                     world, changes, swEvents, hangup, dirEvents, hard,
                     hardKnown, gpioOpen, deaf, discarded, rescanId, triggerId>>
      /\ abandoned' \in BOOLEAN /\ timeoutId' \in BOOLEAN
  BY DEF SampleTimeout, sensorVars, CallbackFrame, worldVars, queueVars, inputVars
<1>5. phase' \in Phases
  BY <1>4 DEF AfterTimeout, Phases, IInv, TypeOK
<1>6. TypeOK'
  BY <1>1, <1>3, <1>4, <1>5 DEF TypeOK
<1>7. SequenceIsCoherent' /\ StreamsAreClosed' /\ TimeoutGuardsSample'
  BY <1>1, <1>4
  DEF IInv, TypeOK, Phases, AfterTimeout, SequenceIsCoherent, StreamsAreClosed,
      TimeoutGuardsSample
<1>8. ReadingsAreThisRounds'
  <2>1. magOk' => magN' > 0
    BY <1>1, <1>4, FoliodAssumption DEF SampleTimeout, IInv, ReadingsAreThisRounds
  <2>2. phase' \in {"WaitSensors", "MagOpen"} => phase' = phase
    BY <1>4 DEF AfterTimeout
  <2>3. magN = 0 /\ ~magOk => ~magOk'
    <3>1. magOk' = (magOk \/ magN > 0) /\ magOk \in BOOLEAN
      BY DEF SampleTimeout, IInv, TypeOK
    <3>2. magN = 0 => ~(magN > 0)
      OBVIOUS
    <3> QED
      BY <3>1, <3>2, Zenon
  <2> QED
    BY <1>4, <2>1, <2>2, <2>3 DEF IInv, ReadingsAreThisRounds
<1>9. StaleReportIsPending' /\ NeverSilent' /\ MissedInputIsPending'
  BY <1>3, <1>4
  DEF IInv, StaleReportIsPending, NeverSilent, MissedInputIsPending, PickContext
<1> QED
  BY <1>3, <1>6, <1>7, <1>8, <1>9 DEF IInv

LEMMA TriggerFireKeeps == IInv /\ TriggerFire => IInv'
<1> SUFFICES ASSUME IInv, TriggerFire PROVE IInv'
  OBVIOUS
<1>1. /\ ~triggerId' /\ triggerId' \in BOOLEAN /\ discarded' = FALSE
      /\ UNCHANGED <<world, changes, swEvents, hangup, dirEvents, hard,
                     hardKnown, gpioOpen, deaf, rescanId, streaming>>
      /\ SampleStart
  BY DEF TriggerFire, worldVars, queueVars, inputVars
<1>2. MissedInputIsPending'
  BY <1>1 DEF IInv, MissedInputIsPending
<1>3. CASE sampling
  <2>1. /\ rerun' = TRUE
        /\ UNCHANGED <<phase, sampling, abandoned, timeoutId, mag, light,
                       magN, magSum, magOk, bright>>
    BY <1>1, <1>3 DEF SampleStart, sensorVars, readingVars
  <2>2. SequenceIsCoherent' /\ StreamsAreClosed' /\ TimeoutGuardsSample'
        /\ ReadingsAreThisRounds'
    BY <1>1, <1>3, <2>1 DEF IInv, SequenceIsCoherent, StreamsAreClosed,
        TimeoutGuardsSample, ReadingsAreThisRounds
  <2>3. CASE abandoned \/ phase = "WaitSensors"
    <3>1. Report(HardInput(mag)) /\ HardInput(mag) \in Input /\ HardInput(mag).hard = hard
      <4>1. HardInput(mag) \in Input
        BY InputTypes DEF IInv
      <4> QED
        BY <1>1, <1>3, <2>3, <4>1 DEF SampleStart, HardInput
    <3>2. /\ st' \in State /\ st'.prev = PickContext(hard) /\ heartbeatId' \in BOOLEAN
          /\ HeartbeatS > 0 /\ AttachedHeartbeatS > 0 => heartbeatId'
      BY <3>1, ReportShows DEF IInv
    <3>3. TypeOK'
      BY <1>1, <2>1, <3>2 DEF IInv, TypeOK
    <3>4. StaleReportIsPending' /\ NeverSilent'
      BY <1>1, <3>2 DEF StaleReportIsPending, NeverSilent, PickContext
    <3> QED
      BY <1>2, <2>2, <3>2, <3>3, <3>4 DEF IInv
  <2>4. CASE ~abandoned /\ phase # "WaitSensors"
    <3>1. UNCHANGED <<st, heartbeatId>>
      BY <1>1, <1>3, <2>4 DEF SampleStart, reportVars
    <3>2. TypeOK'
      <4>1. TypeOK /\ {triggerId', discarded', rerun'} \subseteq BOOLEAN
        BY <1>1, <2>1 DEF IInv
      <4> QED
        BY <1>1, <2>1, <3>1, <4>1 DEF TypeOK
    <3>3. StaleReportIsPending' /\ NeverSilent'
      BY <1>1, <1>3, <2>1, <2>4, <3>1
      DEF IInv, StaleReportIsPending, NeverSilent, TimeoutGuardsSample, PickContext
    <3> QED
      BY <1>2, <2>2, <3>1, <3>2, <3>3 DEF IInv
  <2> QED
    BY <2>3, <2>4
<1>4. CASE ~sampling
  <2>1. StartRound(mag, light) /\ UNCHANGED <<st, heartbeatId>>
    BY <1>1, <1>4 DEF SampleStart, reportVars
  <2>2. /\ mag \in {"none", "ready"} /\ light \in {"none", "ready"}
        /\ streaming' = {}
    BY <1>1, <1>4
    DEF IInv, TypeOK, SensorObject, SequenceIsCoherent, StreamsAreClosed
  <2>3. /\ SequenceIsCoherent' /\ StreamsAreClosed'
        /\ TimeoutGuardsSample' /\ ReadingsAreThisRounds'
        /\ mag' \in SensorObject /\ light' \in SensorObject
        /\ magSum' \in Reading /\ magN' \in 0..MagSamples
        /\ timeoutId' /\ sampling' /\ ~abandoned'
    BY <2>1, <2>2, StartRoundQuiet
  <2>4. /\ phase' \in Phases
        /\ {sampling', abandoned', rerun', timeoutId', magOk', bright'} \subseteq BOOLEAN
    BY <2>1 DEF StartRound, Phases
  <2>5. TypeOK'
    BY <1>1, <2>1, <2>3, <2>4 DEF IInv, TypeOK
  <2>6. StaleReportIsPending' /\ NeverSilent'
    BY <2>3 DEF StaleReportIsPending, NeverSilent
  <2> QED
    BY <1>2, <2>1, <2>3, <2>5, <2>6 DEF IInv
<1> QED
  BY <1>3, <1>4 DEF IInv, TypeOK

LEMMA HeartbeatKeeps == IInv /\ Heartbeat => IInv'
<1> SUFFICES ASSUME IInv, Heartbeat PROVE IInv'
  OBVIOUS
<1>1. /\ heartbeatId' = FALSE /\ triggerId' = TRUE
      /\ UNCHANGED <<world, changes, swEvents, hangup, dirEvents, hard, hardKnown,
                     gpioOpen, deaf, discarded, rescanId, mag, light, phase, sampling, abandoned,
                     rerun, timeoutId, streaming, magN, magSum, magOk, bright, st>>
  BY DEF Heartbeat, worldVars, queueVars, inputVars, sensorVars, roundVars,
      readingVars
<1>2. TypeOK' /\ st' \in State
  <2>1. TypeOK /\ heartbeatId' \in BOOLEAN /\ triggerId' \in BOOLEAN
    BY <1>1 DEF IInv
  <2>2. TypeOK'
    BY <1>1, <2>1 DEF TypeOK
  <2>3. st' \in State
    BY <1>1 DEF IInv, TypeOK
  <2> QED
    BY <2>2, <2>3
<1>3. SequenceIsCoherent' /\ StreamsAreClosed' /\ TimeoutGuardsSample'
      /\ ReadingsAreThisRounds'
  BY <1>1 DEF IInv, SequenceIsCoherent, StreamsAreClosed, TimeoutGuardsSample,
      ReadingsAreThisRounds
<1>4. StaleReportIsPending' /\ NeverSilent' /\ MissedInputIsPending'
  BY <1>1 DEF IInv, StaleReportIsPending, NeverSilent, MissedInputIsPending
<1> QED
  BY <1>2, <1>3, <1>4 DEF IInv

-----------------------------------------------------------------------------
(* The inputs and the world: the sequence stays as it is.                  *)

SequenceFrame ==
    UNCHANGED <<sensorVars, roundVars, readingVars, reportVars>>

LEMMA SequenceFrameKeeps ==
  ASSUME IInv, SequenceFrame
  PROVE  /\ st' \in State /\ SequenceIsCoherent' /\ StreamsAreClosed'
         /\ TimeoutGuardsSample' /\ ReadingsAreThisRounds'
         /\ st' = st /\ UNCHANGED <<sampling, abandoned>>
         /\ (triggerId => triggerId') => NeverSilent'
  BY DEF IInv, TypeOK, SequenceFrame, sensorVars, roundVars, readingVars, reportVars,
    SequenceIsCoherent, StreamsAreClosed, TimeoutGuardsSample,
    ReadingsAreThisRounds, NeverSilent

(* The hard signals move only with a trigger or a failed read.             *)
LEMMA NoticedKeeps ==
  ASSUME IInv, SequenceFrame, triggerId => triggerId', discarded => discarded',
         hard' # hard => triggerId' \/ discarded'
  PROVE  StaleReportIsPending'
<1>1. /\ st' = st /\ sampling' = sampling /\ abandoned' = abandoned
      /\ TimeoutGuardsSample' /\ NeverSilent'
  BY SequenceFrameKeeps
<1>2. CASE discarded'
  BY <1>1, <1>2 DEF StaleReportIsPending, TimeoutGuardsSample, NeverSilent
<1>3. CASE hard' = hard /\ ~discarded'
  BY <1>1, <1>3 DEF IInv, StaleReportIsPending, PickContext
<1>4. CASE hard' # hard /\ ~discarded'
  BY <1>4 DEF StaleReportIsPending
<1> QED
  BY <1>2, <1>3, <1>4

(* A handler of the inputs: types, what it notices, and what is missed.    *)
InputKept ==
    /\ triggerId' \in BOOLEAN /\ (triggerId => triggerId')
    /\ discarded' \in BOOLEAN /\ (discarded => discarded')
    /\ hard' \in Hard /\ (hard' # hard => triggerId' \/ discarded')
    /\ {hangup', dirEvents', hardKnown', gpioOpen', rescanId'} \subseteq BOOLEAN
    /\ swEvents' \subseteq Switches /\ deaf' \subseteq Devices
    /\ MissedInputIsPending'

LEMMA GpioReadableKeeps ==
  ASSUME IInv, GpioReadable PROVE InputKept
<1>1. /\ world' = world /\ UNCHANGED <<dirEvents, deaf, hardKnown>>
      /\ world \in World /\ hard \in Hard /\ TypeOK /\ MissedInputIsPending
  BY DEF GpioReadable, InputFrame, worldVars, IInv, TypeOK
<1>2. CASE GpioHangup
  <2>1. /\ UNCHANGED <<hard, discarded, triggerId>>
        /\ gpioOpen' = FALSE /\ swEvents' = {} /\ hangup' = FALSE /\ rescanId' = TRUE
    BY <1>2 DEF GpioHangup, DropGpio
  <2>2. MissedInputIsPending'
    BY <1>1, <2>1 DEF MissedInputIsPending
  <2> QED
    BY <1>1, <2>1, <2>2 DEF InputKept, TypeOK
<1>3. CASE GpioDrained
  <2>1. /\ hard' \in Hard /\ hard'.kb = hard.kb
        /\ \A sw \in Switches : hard'[sw] = world[sw]
    BY <1>1, <1>3 DEF GpioDrained, Hard, World, Switches
  <2>2. /\ triggerId' \in BOOLEAN /\ (triggerId => triggerId')
        /\ (hard' # hard => triggerId')
    BY <1>1, <1>3 DEF GpioDrained, TypeOK
  <2>3. swEvents' = {} /\ UNCHANGED <<gpioOpen, hangup, discarded, rescanId>>
    BY <1>3 DEF GpioDrained
  <2>4. MissedInputIsPending'
    BY <1>1, <2>1, <2>3 DEF MissedInputIsPending
  <2> QED
    BY <1>1, <2>1, <2>2, <2>3, <2>4 DEF InputKept, TypeOK
<1>4. CASE GpioReadFails
  <2>1. PICK taken \in SUBSET swEvents :
          /\ hard' = [hard EXCEPT !.hall23 = (@ # ("hall23" \in taken)),
                                  !.hall169 = (@ # ("hall169" \in taken))]
          /\ discarded' = (discarded \/ taken # {})
    BY <1>4 DEF GpioReadFails
  <2>2. /\ UNCHANGED triggerId
        /\ gpioOpen' = FALSE /\ swEvents' = {} /\ hangup' = FALSE /\ rescanId' = TRUE
    BY <1>4 DEF GpioReadFails, DropGpio
  <2>3. hard' \in Hard /\ hard'.kb = hard.kb
    BY <1>1, <2>1 DEF Hard
  <2>4. taken = {} => hard' = hard
    <3> SUFFICES ASSUME taken = {} PROVE hard' = hard
      OBVIOUS
    <3>1. /\ (hard.hall23 # ("hall23" \in taken)) = hard.hall23
          /\ (hard.hall169 # ("hall169" \in taken)) = hard.hall169
      BY <1>1 DEF Hard
    <3>2. hard' = [hard EXCEPT !.hall23 = hard.hall23, !.hall169 = hard.hall169]
      BY <2>1, <3>1
    <3> QED
      BY <1>1, <3>2 DEF Hard
  <2>5. MissedInputIsPending'
    BY <1>1, <2>2, <2>3 DEF MissedInputIsPending
  <2>6. /\ discarded' \in BOOLEAN /\ (discarded => discarded')
        /\ (hard' # hard => discarded')
    BY <1>1, <2>1, <2>4 DEF TypeOK
  <2> QED
    BY <1>1, <2>2, <2>3, <2>5, <2>6 DEF InputKept, TypeOK
<1> QED
  BY <1>2, <1>3, <1>4 DEF GpioReadable

LEMMA RescanFireKeeps ==
  ASSUME IInv, RescanFire PROVE InputKept
<1>1. /\ world' = world /\ UNCHANGED <<dirEvents, discarded>>
      /\ rescanId' = FALSE /\ swEvents' = {} /\ hangup' = FALSE /\ hardKnown' = TRUE
      /\ world \in World /\ hard \in Hard /\ TypeOK
  BY DEF RescanFire, InputFrame, worldVars, IInv, TypeOK
<1>2. PICK skipped \in Skips :
        /\ hard' = Scanned(skipped)
        /\ gpioOpen' = Found("gpio", skipped)
        /\ deaf' = {device \in skipped : world[device]}
  BY DEF RescanFire
<1>3. skipped \subseteq Devices
  BY <1>2 DEF Skips
<1>4. /\ Found("kb", skipped) \in BOOLEAN /\ Found("gpio", skipped) \in BOOLEAN
      /\ Found("kb", skipped) = (world.kb /\ "kb" \notin deaf')
      /\ Found("gpio", skipped) = (world.gpio /\ "gpio" \notin deaf')
  BY <1>1, <1>2 DEF Found, World
<1>5. /\ hard' \in Hard
      /\ hard'.kb = Found("kb", skipped)
      /\ Found("gpio", skipped) => \A sw \in Switches : hard'[sw] = world[sw]
  BY <1>1, <1>2, <1>4 DEF Scanned, Hard, World, Switches
<1>6. MissedInputIsPending'
  <2>1. "kb" \notin deaf' => hard'.kb = world'.kb
    BY <1>1, <1>4, <1>5 DEF World
  <2>2. "gpio" \notin deaf' /\ world'.gpio =>
          gpioOpen' /\ \A sw \in Switches : hard'[sw] = world'[sw]
    BY <1>1, <1>2, <1>4, <1>5
  <2> QED
    BY <2>1, <2>2 DEF MissedInputIsPending
<1>7. /\ triggerId' \in BOOLEAN /\ (triggerId => triggerId')
      /\ (hard' # hard => triggerId')
  BY <1>1 DEF RescanFire, TypeOK
<1>8. gpioOpen' \in BOOLEAN /\ deaf' \subseteq Devices
  BY <1>2, <1>3, <1>4
<1> QED
  BY <1>1, <1>5, <1>6, <1>7, <1>8 DEF InputKept, TypeOK

LEMMA InputsKeep ==
  IInv /\ (GpioReadable \/ DirChanged \/ RescanFire \/ RescanFails \/ Usr1) => IInv'
<1> SUFFICES ASSUME IInv,
                    GpioReadable \/ DirChanged \/ RescanFire \/ RescanFails \/ Usr1
             PROVE  IInv'
  OBVIOUS
<1>1. SequenceFrame /\ world' = world /\ changes' = changes
  BY DEF GpioReadable, DirChanged, RescanFire, RescanFails, Usr1, InputFrame,
      SequenceFrame, worldVars
<1>2. InputKept
  <2>1. CASE GpioReadable
    BY <2>1, GpioReadableKeeps
  <2>2. CASE RescanFire
    BY <2>2, RescanFireKeeps
  <2>3. CASE DirChanged
    BY <1>1, <2>3 DEF DirChanged, InputKept, IInv, TypeOK, MissedInputIsPending
  <2>4. CASE RescanFails
    BY <1>1, <2>4
    DEF RescanFails, queueVars, InputKept, IInv, TypeOK, MissedInputIsPending, Devices
  <2>5. CASE Usr1
    BY <1>1, <2>5
    DEF Usr1, queueVars, inputVars, InputKept, IInv, TypeOK, MissedInputIsPending
  <2> QED
    BY <2>1, <2>2, <2>3, <2>4, <2>5
<1>3. TypeOK'
  BY <1>1, <1>2 DEF InputKept, IInv, TypeOK, SequenceFrame, sensorVars, roundVars,
      readingVars, reportVars
<1>4. StaleReportIsPending'
  BY <1>1, <1>2, NoticedKeeps DEF InputKept
<1> QED
  BY <1>1, <1>2, <1>3, <1>4, SequenceFrameKeeps DEF IInv, InputKept

LEMMA WorldKeeps == IInv /\ (MagnetMoves \/ KeyboardMoves \/ GpioMoves) => IInv'
<1> SUFFICES ASSUME IInv, MagnetMoves \/ KeyboardMoves \/ GpioMoves PROVE IInv'
  OBVIOUS
<1>1. /\ SequenceFrame
      /\ UNCHANGED <<hard, hardKnown, gpioOpen, deaf, discarded, rescanId, triggerId>>
      /\ changes < MaxChanges /\ changes' = changes + 1
  BY DEF MagnetMoves, KeyboardMoves, GpioMoves, ChangeWorld, WorldFrame,
      SequenceFrame, inputVars
<1>2. changes' \in 0..MaxChanges
  BY <1>1, FoliodAssumption DEF IInv, TypeOK
<1>3. /\ world' \in World
      /\ swEvents' \subseteq Switches /\ {hangup', dirEvents'} \subseteq BOOLEAN
      /\ MissedInputIsPending'
  <2>1. /\ world \in World /\ swEvents \subseteq Switches
        /\ {hangup, dirEvents, gpioOpen} \subseteq BOOLEAN /\ MissedInputIsPending
    BY DEF IInv, TypeOK
  <2>2. CASE MagnetMoves
    <3>1. PICK sw \in Switches :
            /\ world' = [world EXCEPT ![sw] = ~@]
            /\ swEvents' = IF world.gpio /\ gpioOpen /\ ~hangup
                           THEN swEvents \cup {sw} ELSE swEvents
      BY <2>2 DEF MagnetMoves, ChangeWorld
    <3>2. /\ world' \in World /\ world'.kb = world.kb /\ world'.gpio = world.gpio
          /\ \A other \in Switches \ {sw} : world'[other] = world[other]
      BY <2>1, <3>1 DEF World, Switches
    <3>3. UNCHANGED <<hangup, dirEvents>>
      BY <2>2 DEF MagnetMoves
    <3> QED
      BY <1>1, <2>1, <3>1, <3>2, <3>3 DEF MissedInputIsPending
  <2>3. CASE KeyboardMoves
    BY <1>1, <2>1, <2>3 DEF KeyboardMoves, ChangeWorld, MissedInputIsPending, World,
        Switches
  <2>4. CASE GpioMoves
    BY <1>1, <2>1, <2>4 DEF GpioMoves, ChangeWorld, MissedInputIsPending, World,
        Switches
  <2> QED
    BY <2>2, <2>3, <2>4
<1>4. TypeOK'
  BY <1>1, <1>2, <1>3 DEF IInv, TypeOK, SequenceFrame, sensorVars, roundVars,
      readingVars, reportVars
<1>5. StaleReportIsPending'
  BY <1>1, NoticedKeeps
<1> QED
  BY <1>1, <1>3, <1>4, <1>5, SequenceFrameKeeps DEF IInv

-----------------------------------------------------------------------------
LEMMA InitKeeps == Init => IInv
<1> SUFFICES ASSUME Init PROVE IInv
  OBVIOUS
<1>1. /\ world \in World /\ hardKnown \in BOOLEAN /\ deaf \subseteq Devices
      /\ Found("gpio", deaf) \in BOOLEAN /\ Found("kb", deaf) \in BOOLEAN
      /\ gpioOpen = Found("gpio", deaf)
  BY DEF Init, Found, World, Skips, Devices
<1>11. /\ hard \in Hard /\ hard.kb = Found("kb", deaf)
       /\ gpioOpen => \A sw \in Switches : hard[sw] = world[sw]
  BY <1>1 DEF Init, Hard, World, Switches
<1>2. st \in State
  BY InitTypes DEF Init
<1>3. magSum \in Reading /\ magN \in 0..MagSamples /\ changes \in 0..MaxChanges
  BY FoliodAssumption DEF Init, NoReading, Reading
<1>4. TypeOK
  BY <1>1, <1>11, <1>2, <1>3 DEF Init, TypeOK, SensorObject, Phases
<1>5. SequenceIsCoherent /\ StreamsAreClosed /\ TimeoutGuardsSample
      /\ ReadingsAreThisRounds /\ StaleReportIsPending /\ NeverSilent
  BY DEF Init, SequenceIsCoherent, StreamsAreClosed, TimeoutGuardsSample,
      ReadingsAreThisRounds, StaleReportIsPending, NeverSilent
<1>6. MissedInputIsPending
  BY <1>1, <1>11 DEF MissedInputIsPending, Found, World, Hard
<1> QED
  BY <1>2, <1>4, <1>5, <1>6 DEF IInv

LEMMA StepsKeep == IInv /\ [Next]_vars => IInv'
<1> SUFFICES ASSUME IInv, [Next]_vars PROVE IInv'
  OBVIOUS
<1>1. CASE Timers
  BY <1>1, TriggerFireKeeps, HeartbeatKeeps, SampleTimeoutKeeps, InputsKeep DEF Timers
<1>2. CASE Inbox
  BY <1>2, InputsKeep DEF Inbox
<1>3. CASE Callbacks
  BY <1>3, CreationKeeps, MagOpenedKeeps, MagMeasurementKeeps, MagClosedKeeps,
      LightOpenedKeeps, LightMeasurementKeeps, LightClosedKeeps DEF Callbacks
<1>4. CASE Usr1
  BY <1>4, InputsKeep
<1>5. CASE MagnetMoves \/ KeyboardMoves \/ GpioMoves
  BY <1>5, WorldKeeps
<1>6. CASE UNCHANGED vars
  <2>1. UNCHANGED <<world, changes, swEvents, hangup, dirEvents, hard, hardKnown,
                    gpioOpen, deaf, discarded, rescanId, triggerId>>
    BY <1>6 DEF vars, worldVars, queueVars, inputVars
  <2>2. SequenceFrame
    BY <1>6 DEF vars, SequenceFrame
  <2>3. TypeOK'
    BY <2>1, <2>2 DEF IInv, TypeOK, SequenceFrame, sensorVars, roundVars,
        readingVars, reportVars
  <2>4. MissedInputIsPending' /\ StaleReportIsPending'
    BY <2>1, <2>2, NoticedKeeps DEF IInv, MissedInputIsPending
  <2> QED
    BY <2>1, <2>2, <2>3, <2>4, SequenceFrameKeeps DEF IInv
<1> QED
  BY <1>1, <1>2, <1>3, <1>4, <1>5, <1>6 DEF Next

(* The inductive invariant holds always.                                   *)
THEOREM Invariant == Spec => []IInv
  BY InitKeeps, StepsKeep, PTL DEF Spec

(* Every variable of the daemon has its type in every reachable state:     *)
(* the count of readings never passes mag_samples, the sequence is always  *)
(* in one of the phases of foliod.c.                                       *)
THEOREM TypeCorrect == Spec => []TypeOK
<1>1. IInv => TypeOK
  BY DEF IInv
<1> QED
  BY Invariant, <1>1, PTL

(* Whatever libssc answers or leaves unanswered, no sensor streams between *)
(* samples and an abandoned sample waits for no measurement.               *)
THEOREM NoStreamIsLeftOpen == Spec => [](StreamsAreClosed /\ SequenceIsCoherent)
<1>1. IInv => StreamsAreClosed /\ SequenceIsCoherent
  BY DEF IInv
<1> QED
  BY Invariant, <1>1, PTL

(* The sample timeout is armed exactly while an unreported sample runs.    *)
THEOREM UnreportedSampleHasTimeout == Spec => []TimeoutGuardsSample
<1>1. IInv => TimeoutGuardsSample
  BY DEF IInv
<1> QED
  BY Invariant, <1>1, PTL

(* A new sample starts from no readings and no verdict of the old one.     *)
THEOREM NoReadingIsCarriedOver == Spec => []ReadingsAreThisRounds
<1>1. IInv => ReadingsAreThisRounds
  BY DEF IInv
<1> QED
  BY Invariant, <1>1, PTL

(* With both heartbeats on, a timer that leads to the next report is       *)
(* always armed.                                                           *)
THEOREM DaemonNeverFallsSilent == Spec => []NeverSilent
<1>1. IInv => NeverSilent
  BY DEF IInv
<1> QED
  BY Invariant, <1>1, PTL

(* A virtual device that shows the wrong context is about to be corrected, *)
(* but for a change that a failed read discarded (foliod.c:903-909); that  *)
(* one has the heartbeat behind it when the heartbeats are on.             *)
THEOREM StaleReportIsCorrected == Spec => []StaleReportIsPending
<1>1. IInv => StaleReportIsPending
  BY DEF IInv
<1> QED
  BY Invariant, <1>1, PTL

(* A hard signal the daemon has wrong has an event on its way, unless the  *)
(* last scan failed to see its device (foliod.c:940-943, 953-960).         *)
THEOREM NoInputIsMissed == Spec => []MissedInputIsPending
<1>1. IInv => MissedInputIsPending
  BY DEF IInv
<1> QED
  BY Invariant, <1>1, PTL

-----------------------------------------------------------------------------
(* Every step of the daemon is a step of FolioReport or none, and a        *)
(* trigger that comes during a sample is not lost.                         *)

AbsStep == [Abs!Next]_(Abs!vars)

RerunKept == rerun /\ ~rerun' => sampling' /\ timeoutId' /\ magN' = 0

(* A step that leaves the sequence and the report alone shows at most a    *)
(* change of the hard signals.                                             *)
LEMMA QuietStepMaps ==
  ASSUME IInv, st'.prev = st.prev, Round' = Round, hard' \in Hard
  PROVE  AbsStep
<1>1. PickContext(hard)' \in Contexts
  BY DEF PickContext, Contexts, Hard
<1>2. Abs!Contexts = Contexts
  BY DEF Abs!Contexts, Contexts
<1> QED
  BY <1>1, <1>2 DEF AbsStep, Abs!Next, Abs!Notice

LEMMA ReportMaps ==
  ASSUME IInv, NEW i \in Input, i.hard = hard, Report(i), hard' = hard
  PROVE  st'.prev = PickContext(hard) /\ PickContext(hard)' = PickContext(hard)
<1>1. st'.prev = PickContext(hard)
  BY ReportShows DEF IInv
<1> QED
  BY <1>1 DEF PickContext

(* sample_finish reports an open sample once and a reported one no more,   *)
(* and ends a sample that owes another only into that one.                 *)
LEMMA FinishRoundMaps ==
  ASSUME IInv, sampling, NEW m, NEW l, FinishRound(m, l), hard' = hard
  PROVE  AbsStep /\ RerunKept
<1>1. RerunKept
  BY DEF RerunKept, FinishRound, StartRound, EndRound, IInv, TypeOK
<1>2. (Round' = "open") \/ (Round' = "idle")
  BY DEF FinishRound, StartRound, EndRound, Round
<1>3. PickContext(hard)' = PickContext(hard)
  BY DEF PickContext
<1>4. CASE abandoned
  <2>1. Round = "reported" /\ st' = st
    BY <1>4 DEF FinishRound, reportVars, Round
  <2> HIDE DEF Round
  <2> QED
    BY <1>1, <1>2, <1>3, <2>1 DEF AbsStep, Abs!Next, Abs!End
<1>5. CASE ~abandoned
  <2>1. SampleInput(m, magOk) \in Input /\ SampleInput(m, magOk).hard = hard
    BY InputTypes DEF IInv, TypeOK, SampleInput
  <2>2. st'.prev = PickContext(hard)
    BY <1>5, <2>1, ReportMaps DEF FinishRound
  <2>3. Round = "open"
    BY <1>5 DEF Round
  <2> HIDE DEF Round
  <2> QED
    BY <1>1, <1>2, <1>3, <2>2, <2>3 DEF AbsStep, Abs!Next, Abs!Answer
<1> QED
  BY <1>1, <1>4, <1>5

LEMMA LightPhaseMaps ==
  ASSUME IInv, sampling, LightPhase, hard' = hard
  PROVE  AbsStep /\ RerunKept
<1>1. CASE light # "ready" \/ abandoned
  BY <1>1, FinishRoundMaps DEF LightPhase
<1>2. CASE ~(light # "ready" \/ abandoned)
  <2>1. UNCHANGED <<sampling, abandoned, rerun, st>>
    BY <1>2 DEF LightPhase, Goto, reportVars
  <2> QED
    BY <2>1, QuietStepMaps DEF RerunKept, Round, IInv, TypeOK
<1> QED
  BY <1>1, <1>2

LEMMA SensorsCreatedMaps ==
  ASSUME IInv, sampling, NEW m, NEW l, SensorsCreated(m, l), hard' = hard
  PROVE  AbsStep /\ RerunKept
<1>1. CASE UNCHANGED <<sampling, abandoned, rerun, st>>
  BY <1>1, QuietStepMaps DEF RerunKept, Round, IInv, TypeOK
<1>2. CASE FinishRound(m, l)
  BY <1>2, FinishRoundMaps
<1> QED
  BY <1>1, <1>2 DEF SensorsCreated, BeginReading, reportVars

LEMMA CallbacksMap == IInv /\ Callbacks => AbsStep /\ RerunKept
<1> SUFFICES ASSUME IInv, Callbacks PROVE AbsStep /\ RerunKept
  OBVIOUS
<1>1. hard' = hard
  BY DEF Callbacks, MagNew, LightNew, MagOpened, MagMeasurement, MagClosed,
      LightOpened, LightMeasurement, LightClosed, CallbackFrame, inputVars
<1>2. sampling /\ hard \in Hard
  BY DEF Callbacks, MagNew, LightNew, MagOpened, MagMeasurement, MagClosed,
      LightOpened, LightMeasurement, LightClosed, IInv, SequenceIsCoherent, TypeOK
<1>3. ASSUME UNCHANGED <<sampling, abandoned, rerun, st>> PROVE AbsStep /\ RerunKept
  BY <1>1, <1>2, <1>3, QuietStepMaps DEF RerunKept, Round
<1>4. CASE MagNew \/ LightNew
  BY <1>1, <1>2, <1>4, SensorsCreatedMaps DEF MagNew, LightNew
<1>5. CASE MagOpened
  BY <1>1, <1>2, <1>3, <1>5, LightPhaseMaps DEF MagOpened, Goto, reportVars
<1>6. CASE MagClosed
  BY <1>1, <1>2, <1>6, LightPhaseMaps DEF MagClosed
<1>7. CASE LightOpened
  BY <1>1, <1>2, <1>3, <1>7, FinishRoundMaps DEF LightOpened, Goto, reportVars
<1>8. CASE LightClosed
  BY <1>1, <1>2, <1>8, FinishRoundMaps DEF LightClosed
<1>9. CASE \E r \in Readings : MagMeasurement(r)
  BY <1>3, <1>9 DEF MagMeasurement, Goto, reportVars
<1>10. CASE \E b \in BOOLEAN : LightMeasurement(b)
  BY <1>3, <1>10 DEF LightMeasurement, Goto, reportVars
<1> QED
  BY <1>4, <1>5, <1>6, <1>7, <1>8, <1>9, <1>10 DEF Callbacks

LEMMA SampleTimeoutMaps == IInv /\ SampleTimeout => AbsStep /\ RerunKept
<1> SUFFICES ASSUME IInv, SampleTimeout PROVE AbsStep /\ RerunKept
  OBVIOUS
<1>1. /\ hard' = hard /\ sampling /\ ~abandoned /\ sampling' = sampling
      /\ abandoned' /\ rerun' = rerun /\ magOk' \in BOOLEAN
  BY DEF SampleTimeout, CallbackFrame, inputVars, IInv, TimeoutGuardsSample, TypeOK
<1>2. SampleInput(mag, magOk') \in Input /\ SampleInput(mag, magOk').hard = hard
  BY <1>1, InputTypes DEF IInv, SampleInput
<1>3. st'.prev = PickContext(hard) /\ PickContext(hard)' = PickContext(hard)
  BY <1>1, <1>2, ReportMaps DEF SampleTimeout
<1>4. Round = "open" /\ Round' = "reported"
  BY <1>1 DEF Round
<1>5. AbsStep
  BY <1>3, <1>4 DEF AbsStep, Abs!Next, Abs!Answer
<1> QED
  BY <1>1, <1>5 DEF RerunKept

LEMMA TriggerFireMaps == IInv /\ TriggerFire => AbsStep /\ RerunKept
<1> SUFFICES ASSUME IInv, TriggerFire PROVE AbsStep /\ RerunKept
  OBVIOUS
<1>1. /\ hard' = hard /\ hard \in Hard /\ SampleStart
      /\ PickContext(hard)' = PickContext(hard)
  BY DEF TriggerFire, inputVars, IInv, TypeOK, PickContext
<1>2. CASE sampling
  <2>1. rerun' /\ UNCHANGED <<sampling, abandoned>>
    BY <1>1, <1>2 DEF SampleStart
  <2>2. CASE UNCHANGED <<st>>
    BY <1>1, <2>1, <2>2, QuietStepMaps DEF Round, RerunKept
  <2>3. CASE Report(HardInput(mag))
    <3>1. HardInput(mag) \in Input /\ HardInput(mag).hard = hard
      BY InputTypes DEF IInv, TypeOK, HardInput
    <3>2. st'.prev = PickContext(hard)
      BY <1>1, <2>3, <3>1, ReportMaps
    <3>3. Round' = Round /\ Round # "idle"
      BY <1>2, <2>1 DEF Round
    <3> QED
      BY <1>1, <2>1, <3>2, <3>3 DEF AbsStep, Abs!Next, Abs!Refresh, RerunKept
  <2> QED
    BY <1>1, <1>2, <2>2, <2>3 DEF SampleStart, reportVars
<1>3. CASE ~sampling
  <2>1. Round = "idle" /\ Round' = "open" /\ st' = st /\ ~rerun
    BY <1>1, <1>3
    DEF Round, SampleStart, StartRound, reportVars, IInv, SequenceIsCoherent
  <2> QED
    BY <1>1, <2>1 DEF AbsStep, Abs!Next, Abs!Begin, RerunKept
<1> QED
  BY <1>2, <1>3 DEF IInv, TypeOK

LEMMA StepsMap == IInv /\ [Next]_vars => AbsStep /\ (RerunKept \/ UNCHANGED vars)
<1> SUFFICES ASSUME IInv, [Next]_vars PROVE AbsStep /\ (RerunKept \/ UNCHANGED vars)
  OBVIOUS
<1>1. hard' \in Hard
  BY StepsKeep DEF IInv, TypeOK
<1>2. ASSUME UNCHANGED <<sampling, abandoned, rerun, st>> PROVE AbsStep /\ RerunKept
  BY <1>1, <1>2, QuietStepMaps DEF RerunKept, Round
<1>3. CASE Callbacks \/ SampleTimeout \/ TriggerFire
  BY <1>3, CallbacksMap, SampleTimeoutMaps, TriggerFireMaps
<1>4. CASE Heartbeat
  BY <1>2, <1>4 DEF Heartbeat, roundVars
<1>5. CASE RescanFire \/ RescanFails \/ Inbox \/ Usr1
  BY <1>2, <1>5 DEF RescanFire, RescanFails, Inbox, GpioReadable, DirChanged, Usr1,
      InputFrame, roundVars, reportVars
<1>6. CASE MagnetMoves \/ KeyboardMoves \/ GpioMoves
  BY <1>2, <1>6 DEF MagnetMoves, KeyboardMoves, GpioMoves, ChangeWorld, WorldFrame,
      roundVars, reportVars
<1>7. CASE UNCHANGED vars
  BY <1>2, <1>7 DEF vars, roundVars, reportVars
<1> QED
  BY <1>3, <1>4, <1>5, <1>6, <1>7 DEF Next, Timers

(* A trigger that comes during a sample, in any phase of it and however    *)
(* the sample ends, is followed by a sample with a timeout of its own.     *)
THEOREM NoTriggerIsLost == Spec => TriggerIsSampled
<1>1. IInv /\ [Next]_vars =>
        [rerun /\ ~rerun' => sampling' /\ timeoutId' /\ magN' = 0]_vars
  BY StepsMap DEF RerunKept
<1> QED
  BY Invariant, <1>1, PTL DEF Spec, TriggerIsSampled

(* The daemon implements the safety of FolioReport: what it reports is the *)
(* context of the hard signals it knows, once for a sample.                *)
THEOREM ReportsAreRight == Spec => ReportsSafely
<1>1. Init => Abs!Init
  <2> SUFFICES ASSUME Init PROVE Abs!Init
    OBVIOUS
  <2>1. PickContext(hard) \in Abs!Contexts
    BY DEF PickContext, Abs!Contexts
  <2>2. st.prev = "none" /\ Round = "open"
    BY DEF Init, InitState, Round
  <2> QED
    BY <2>1, <2>2 DEF Abs!Init
<1>2. IInv /\ [Next]_vars => [Abs!Next]_(Abs!vars)
  BY StepsMap DEF AbsStep
<1> QED
  BY Invariant, <1>1, <1>2, PTL DEF Spec, ReportsSafely

-----------------------------------------------------------------------------
(* The configuration.                                                      *)

(* Every line has an earliest one of its key.                              *)
LEMMA FirstIsFirst ==
  ASSUME NEW file \in Seq(Line), NEW key, Sets(file, key) # {}
  PROVE  /\ First(file, key) \in Sets(file, key)
         /\ \A j \in Sets(file, key) : First(file, key) <= j
<1> DEFINE R == OpToRel(<, Nat)
<1>1. Sets(file, key) \subseteq Nat
  BY DEF Sets
<1>2. IsWellFoundedOn(R, Nat)
  BY NatLessThanWellFounded
<1> HIDE DEF R
<1>3. PICK i \in Sets(file, key) : \A j \in Sets(file, key) : ~(<<j, i>> \in R)
  BY <1>1, <1>2, WFMin
<1>4. \A j \in Sets(file, key) : i <= j
  <2> SUFFICES ASSUME NEW j \in Sets(file, key) PROVE i <= j
    OBVIOUS
  <2>1. i \in Nat /\ j \in Nat
    BY <1>1
  <2>2. j < i => <<j, i>> \in R
    BY <2>1 DEF R, OpToRel
  <2> QED
    BY <1>3, <2>1, <2>2
<1> QED
  BY <1>4 DEF First

(* What env_uint stores fits an unsigned int.                              *)
LEMMA UnsignedInt ==
  ASSUME NEW n \in Int
  PROVE  Strtoul(n) % UintRange \in Nat
<1> DEFINE range == UintRange * UintRange
<1>1. range \in Nat \ {0}
  BY UintAssumption
<1> HIDE DEF range
<1>2. n % range \in Nat
  BY <1>1
<1>3. range - 1 \in Nat
  BY <1>1
<1>4. Strtoul(n) \in Nat
  BY <1>2, <1>3 DEF Strtoul, range
<1> QED
  BY <1>4, UintAssumption

(* The file adds settings to the environment and nothing else.             *)
LEMMA LoadedType ==
  ASSUME NEW env \in Environment, NEW file \in Seq(Line)
  PROVE  Loaded(env, file) \in Environment
<1> DEFINE new == {file[i].key : i \in DOMAIN file}
<1>0. PICK set \in SUBSET Keys : env \in [set -> Setting]
  BY DEF Environment
<1>1. \A i \in DOMAIN file : file[i] \in Line
  OBVIOUS
<1>2. new \in SUBSET Keys
  BY <1>1 DEF Line
<1>3. ASSUME NEW key \in DOMAIN env \cup new
      PROVE  Loaded(env, file)[key] \in Setting
  <2>1. CASE key \in DOMAIN env
    BY <1>0, <2>1 DEF Loaded
  <2>2. CASE key \notin DOMAIN env
    <3>1. Sets(file, key) # {}
      BY <1>3, <2>2 DEF Sets
    <3>2. First(file, key) \in DOMAIN file
      BY <3>1, FirstIsFirst DEF Sets
    <3>3. file[First(file, key)].val \in Setting
      BY <1>1, <3>2 DEF Line
    <3> QED
      BY <1>3, <2>2, <3>3 DEF Loaded
  <2> QED
    BY <2>1, <2>2
<1>4. Loaded(env, file) \in [DOMAIN env \cup new -> Setting]
  BY <1>3 DEF Loaded
<1>5. DOMAIN env \cup new \in SUBSET Keys
  BY <1>0, <1>2
<1> QED
  BY <1>4, <1>5 DEF Environment

(* Whatever the environment and the file hold, of any size and sign, the   *)
(* numbers the daemon goes by are those ConfigAssumption and               *)
(* FoliodAssumption take for granted: no mean over no readings, no sample  *)
(* that is over at once (foliod.c:237-287).                                *)
THEOREM AnyConfigurationIsUsable ==
  ASSUME NEW env \in Environment, NEW file \in Seq(Line)
  PROVE  Usable(Configured(Loaded(env, file)))
<1> DEFINE e == Loaded(env, file)
<1>1. PICK set \in SUBSET Keys : e \in [set -> Setting]
  BY LoadedType DEF Environment
<1> HIDE DEF e
<1>2. ASSUME NEW key, NEW default \in Nat
      PROVE  EnvUint(e, key, default) \in Nat
  <2>1. key \in DOMAIN e => e[key].n \in Int
    BY <1>1 DEF Setting
  <2> QED
    BY <2>1, UnsignedInt DEF EnvUint
<1>3. \A n \in Nat : AtLeastOne(n) \in Nat \ {0}
  BY DEF AtLeastOne
<1>4. Usable(Configured(e))
  BY <1>2, <1>3 DEF Usable, Configured
<1> QED
  BY <1>4 DEF e

(* The file never overrides the environment nor an earlier line of itself, *)
(* and loading it once more changes nothing (foliod.c:187-189).            *)
THEOREM LoadingIsDone ==
  ASSUME NEW env \in Environment, NEW file \in Seq(Line)
  PROVE  LoadedForGood(env, file)
<1> DEFINE once == Loaded(env, file)
<1>1. \A key \in DOMAIN env : once[key] = env[key]
  BY DEF Loaded
<1>2. DOMAIN once = DOMAIN env \cup {file[i].key : i \in DOMAIN file}
  BY DEF Loaded
<1>3. once = [key \in DOMAIN once |-> once[key]]
  BY DEF Loaded
<1> HIDE DEF once
<1>4. Loaded(once, file) = [key \in DOMAIN once |-> once[key]]
  BY <1>2 DEF Loaded
<1> QED
  BY <1>1, <1>3, <1>4 DEF LoadedForGood, once
=============================================================================
