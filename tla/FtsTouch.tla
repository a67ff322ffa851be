------------------------------ MODULE FtsTouch ------------------------------
(***************************************************************************)
(* The touchscreen driver, fts1ba90a.c: a threaded level interrupt that    *)
(* empties the chip's event FIFO, and the suspend and resume around it.    *)
(*                                                                         *)
(* Nothing but the chip runs beside the driver: disable_irq waits for the  *)
(* handler and resume enables it last, so the handler and suspend are one  *)
(* step each, while resume stops wherever the chip may change its FIFO.    *)
(* Left out: coordinates, the chip ids, the calibration at probe and the   *)
(* lengths of the waits.                                                   *)
(***************************************************************************)
EXTENDS Naturals, Sequences

CONSTANTS
    Fingers,        \* the slots, tid
    FifoSize,       \* events the chip queues
    Batch,          \* events the handler takes in one run, FTS_FIFO_MAX
    MaxTouches,     \* bound: fingers put down or lifted
    MaxFaults,      \* bound: steps that fail
    MaxSleeps       \* bound: suspends

ASSUME FtsAssumption ==
    /\ {FifoSize, Batch} \subseteq Nat \ {0}
    /\ {MaxTouches, MaxFaults, MaxSleeps} \subseteq Nat

VARIABLES
    touching,       \* the fingers on the glass
    touches,        \* how often that has changed
    scanning,       \* the chip scans
    fifo,           \* events waiting in the chip
    vdd, avdd,      \* enable counts of this consumer's rails
    irqDepth,       \* how often the interrupt is disabled; it runs at 0
    reported,       \* slots userspace sees as active
    pm,             \* where the driver is between probe and remove
    faults, sleeps,
    failedResumes,  \* history: resumes that returned an error
    lost            \* history: a read that failed took events with it

glass == <<touching, touches>>
chip == <<scanning, fifo>>
rails == <<vdd, avdd>>
counts == <<faults, sleeps, failedResumes>>

vars == <<glass, chip, rails, irqDepth, reported, pm, counts, lost>>

QueueFull == [kind |-> "full"]
Event == [kind : {"press", "move", "release"}, finger : Fingers] \cup {QueueFull}

Resuming == {"powered", "reset", "configured"}

TypeOK ==
    /\ touching \subseteq Fingers /\ reported \subseteq Fingers
    /\ touches \in 0..MaxTouches /\ faults \in 0..MaxFaults
    /\ sleeps \in 0..MaxSleeps /\ failedResumes \in 0..sleeps
    /\ scanning \in BOOLEAN /\ lost \in BOOLEAN
    /\ fifo \in Seq(Event) /\ Len(fifo) <= FifoSize
    /\ vdd \in 0..1 /\ avdd \in 0..1
    /\ irqDepth \in 0..(MaxSleeps + 2)
    /\ pm \in {"unbound", "up", "asleep", "removed"} \cup Resuming

-----------------------------------------------------------------------------
(* The chip and the glass.                                                 *)

(* An event that finds the FIFO full is dropped, and the last place says   *)
(* so.                                                                     *)
Queued(q, e) ==
    IF Len(q) < FifoSize THEN Append(q, e)
    ELSE [q EXCEPT ![FifoSize] = QueueFull]

Post(kind, f) ==
    fifo' = IF scanning THEN Queued(fifo, [kind |-> kind, finger |-> f]) ELSE fifo

DriverFrame == UNCHANGED <<scanning, rails, irqDepth, reported, pm, counts, lost>>

FingerMoves ==
    /\ touches < MaxTouches
    /\ touches' = touches + 1
    /\ \E f \in Fingers :
          \/ f \notin touching /\ touching' = touching \cup {f} /\ Post("press", f)
          \/ f \in touching /\ touching' = touching \ {f} /\ Post("release", f)
    /\ DriverFrame

(* A finger that stays is reported again.                                  *)
ChipRepeats(f) ==
    /\ scanning /\ f \in touching
    /\ Len(fifo) < FifoSize /\ ~\E i \in 1..Len(fifo) : fifo[i] # QueueFull /\ fifo[i].finger = f
    /\ Post("move", f)
    /\ UNCHANGED glass
    /\ DriverFrame

-----------------------------------------------------------------------------
(* fts1ba90a_irq_handler.                                                  *)

(* handle_coordinate and handle_status: a press or a move makes the slot   *)
(* active, a release ends it, and the overflow ends every slot.            *)

(* Broken form: only a press makes a contact.                              *)
TellingPressOnly(f, n) ==
    {i \in 1..n : \/ fifo[i] = QueueFull
                  \/ fifo[i].kind # "move" /\ fifo[i].finger = f}

(* Broken form: the overflow is only logged.                               *)
TellingNoOverflow(f, n) ==
    {i \in 1..n : fifo[i] # QueueFull /\ fifo[i].finger = f}

(* Which of the first n events say something of slot f.                    *)
Telling(f, n) ==
    {i \in 1..n : fifo[i] = QueueFull \/ fifo[i].finger = f}

Latest(told) == CHOOSE i \in told : \A j \in told : j <= i

(* The active slots after the first n events: the last word counts.        *)
After(n) ==
    {f \in Fingers : LET told == Telling(f, n)
                     IN  IF told = {} THEN f \in reported
                         ELSE fifo[Latest(told)].kind \in {"press", "move"}}

Taken == IF Len(fifo) < Batch THEN Len(fifo) ELSE Batch
Rest(n) == SubSeq(fifo, n + 1, Len(fifo))

IrqFrame == UNCHANGED <<glass, scanning, rails, irqDepth, pm, sleeps, failedResumes>>

Irq ==
    /\ irqDepth = 0 /\ fifo # <<>>
    /\ reported' = After(Taken)
    /\ fifo' = Rest(Taken)
    /\ UNCHANGED <<faults, lost>>
    /\ IrqFrame

(* The first read fails, or the second; what was being read may be gone.   *)
IrqReadFails ==
    /\ irqDepth = 0 /\ fifo # <<>>
    /\ faults < MaxFaults
    /\ faults' = faults + 1
    /\ \E n \in {0, 1} :
          /\ n < Taken
          /\ reported' = After(n)
          /\ \/ fifo' = Rest(n) /\ UNCHANGED lost
             \/ /\ \E m \in (n + 1)..(IF n = 0 THEN 1 ELSE Taken) : fifo' = Rest(m)
                /\ lost' = TRUE
    /\ IrqFrame

-----------------------------------------------------------------------------
(* Power.                                                                  *)

Fault == faults < MaxFaults /\ faults' = faults + 1
NoFault == UNCHANGED faults

(* Broken form: vdd stays on when avdd does not come.                      *)
PowerOnFailsKeepingVdd ==
    /\ Fault
    /\ \/ UNCHANGED vdd
       \/ vdd' = vdd + 1
    /\ UNCHANGED avdd

(* fts1ba90a_power_on when either regulator fails: the first is given back.*)
PowerOnFails == Fault /\ UNCHANGED rails

PowerOn == NoFault /\ vdd' = vdd + 1 /\ avdd' = avdd + 1

(* fts1ba90a_power_off.  The regulator core refuses a disable that was not *)
(* preceded by an enable, and warns.                                       *)
PowerOff ==
    /\ avdd' = IF avdd > 0 THEN avdd - 1 ELSE avdd
    /\ vdd' = IF vdd > 0 THEN vdd - 1 ELSE vdd
    /\ scanning' = FALSE
    /\ fifo' = <<>>

-----------------------------------------------------------------------------
(* Suspend and resume.                                                     *)

(* SENSE_OFF may fail; the power goes all the same.                        *)
Suspend ==
    /\ pm = "up" /\ sleeps < MaxSleeps
    /\ sleeps' = sleeps + 1
    /\ pm' = "asleep"
    /\ irqDepth' = irqDepth + 1
    /\ reported' = {}
    /\ lost' = FALSE
    /\ PowerOff
    /\ UNCHANGED <<glass, faults, failedResumes>>

ResumeFrame == UNCHANGED <<glass, reported, sleeps, lost>>

ResumePower ==
    /\ pm = "asleep"
    /\ PowerOn
    /\ pm' = "powered"
    /\ UNCHANGED <<chip, irqDepth, failedResumes>>
    /\ ResumeFrame

(* resume returns at once.  The PM core logs the error and goes on.        *)
ResumePowerFails ==
    /\ pm = "asleep"
    /\ PowerOnFails
    /\ pm' = "up"
    /\ failedResumes' = failedResumes + 1
    /\ UNCHANGED <<chip, irqDepth>>
    /\ ResumeFrame

(* wait_for_ready: events are read and dropped until the chip is ready.    *)
WaitForReady(ok) ==
    /\ fifo' = <<>>
    /\ IF ok THEN NoFault ELSE Fault

SystemReset(ok) == scanning' = FALSE /\ WaitForReady(ok)

(* A first wait_for_ready, whose failure is logged and has no other effect, *)
(* and the reset.                                                          *)
ResumeReset ==
    /\ pm = "powered"
    /\ \E ok \in BOOLEAN :
          SystemReset(ok) /\ pm' = IF ok THEN "reset" ELSE "configured"
    /\ UNCHANGED <<rails, irqDepth, failedResumes>>
    /\ ResumeFrame

(* fts1ba90a_configure: the touch types are set, the FIFO is cleared, the  *)
(* scan begins.                                                            *)
ResumeConfigure ==
    /\ pm = "reset"
    /\ \/ NoFault /\ scanning' = TRUE
       \/ Fault /\ scanning' \in BOOLEAN
    /\ fifo' = <<>>
    /\ pm' = "configured"
    /\ UNCHANGED <<rails, irqDepth, failedResumes>>
    /\ ResumeFrame

(* The wait for the echo of the scan command takes event after event from  *)
(* the FIFO and drops what is not the echo.                                *)
EchoEats ==
    /\ pm = "configured" /\ fifo # <<>>
    /\ fifo' = Tail(fifo)
    /\ UNCHANGED <<scanning, rails, irqDepth, pm, faults, failedResumes>>
    /\ ResumeFrame

ResumeEnable ==
    /\ pm = "configured"
    /\ pm' = "up"
    /\ irqDepth' = irqDepth - 1
    /\ UNCHANGED <<chip, rails, faults, failedResumes>>
    /\ ResumeFrame

-----------------------------------------------------------------------------
(* probe and remove.                                                       *)

(* A step of probe that fails takes the power back; the input device goes  *)
(* with the driver.                                                        *)
Probe ==
    /\ pm = "unbound"
    /\ \/ PowerOn /\ scanning' = TRUE /\ irqDepth' = 0 /\ pm' = "up"
       \/ Fault /\ UNCHANGED <<rails, scanning, irqDepth, pm>>
    /\ UNCHANGED <<glass, fifo, reported, sleeps, failedResumes, lost>>

Remove ==
    /\ pm = "up"
    /\ pm' = "removed"
    /\ irqDepth' = irqDepth + 1
    /\ reported' = {}
    /\ PowerOff
    /\ UNCHANGED <<glass, counts, lost>>

(* irqDepth is 1 before the interrupt is requested.                        *)
Init ==
    /\ touching = {} /\ touches = 0
    /\ scanning = FALSE /\ fifo = <<>>
    /\ vdd = 0 /\ avdd = 0
    /\ irqDepth = 1 /\ reported = {} /\ pm = "unbound"
    /\ faults = 0 /\ sleeps = 0 /\ failedResumes = 0
    /\ lost = FALSE

Resume == ResumePower \/ ResumeReset \/ ResumeConfigure \/ ResumeEnable

Next == \/ FingerMoves \/ (\E f \in Fingers : ChipRepeats(f)) \/ Irq \/ IrqReadFails
        \/ Suspend \/ Resume \/ ResumePowerFails \/ EchoEats \/ Probe \/ Remove

Spec == Init /\ [][Next]_vars

(* The handler runs while the line is low, the PM core finishes a resume,  *)
(* the chip repeats a finger that stays.                                   *)
FairSpec == Spec /\ WF_vars(Irq) /\ WF_vars(Resume)
            /\ \A f \in Fingers : WF_vars(ChipRepeats(f))

-----------------------------------------------------------------------------
(* The handler talks to the chip only while both rails are up, and neither *)
(* rail is up without the other: across failed resumes, the suspend after  *)
(* one, and remove.                                                        *)
InterruptHasPower == /\ irqDepth = 0 => vdd = 1
                     /\ vdd = avdd

(* What keeps the interrupt disabled: the sleep, and every resume that     *)
(* failed.  One failed resume therefore leaves the screen dead for good,   *)
(* also after resumes that succeed.                                        *)
DepthCountsFailedResumes ==
    pm # "unbound" =>
        irqDepth = failedResumes + (IF pm = "up" THEN 0 ELSE 1)

(* A slot that is active without a finger has its release, or the overflow *)
(* that stands for it, in the FIFO, also when the finger was lifted in a   *)
(* sleep; only a failed read can lose both.                                *)
StuckFingerHasCause ==
    lost \/ \A f \in reported \ touching :
        \E i \in 1..Len(fifo) :
            fifo[i] = QueueFull \/ fifo[i] = [kind |-> "release", finger |-> f]

(* A finger that stays on a screen that works is shown, also when its      *)
(* press was eaten by the resume or by an overflow.                        *)
FingersAreShown ==
    \A f \in Fingers :
        <>[](f \in touching /\ pm = "up" /\ scanning /\ irqDepth = 0)
            => <>[](f \in reported)
=============================================================================
