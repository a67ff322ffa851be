------------------------------ MODULE WacomPen ------------------------------
(***************************************************************************)
(* The pen driver, wacom-wez01.c: a threaded level interrupt that reads    *)
(* one packet, and the suspend and resume around it.                       *)
(*                                                                         *)
(* The handler is two steps, the read and what it does with the packet, so *)
(* that a suspend may begin between them.  Of a packet only its kind and   *)
(* whether the pen is in range are kept.                                   *)
(***************************************************************************)
EXTENDS Naturals

CONSTANTS
    MaxMoves,       \* bound: the pen comes into range or leaves it
    MaxFaults,      \* bound: transfers that fail
    MaxSleeps,      \* bound: suspends
    MaxOthers       \* bound: packets that are no coordinates

ASSUME WacomAssumption == {MaxMoves, MaxFaults, MaxSleeps, MaxOthers} \subseteq Nat

VARIABLES
    pen,            \* the pen is in range
    sampling,       \* the chip samples
    told,           \* what the chip last said of the pen
    packet,         \* what waits in the chip: "none", "in", "out", "other"
    irqOn,          \* the interrupt is enabled
    isr,            \* "idle", or the packet wacom_irq has read
    prox,           \* w->prox: userspace sees the tool
    pm,             \* "up", a step of suspend or resume, "asleep", "removed"
    moves, faults, sleeps, others,
    lost            \* history: a failed read took a packet with it

world == <<pen, moves>>
chip == <<sampling, told, packet>>
counts == <<sleeps, others>>

vars == <<world, chip, irqOn, isr, prox, pm, faults, counts, lost>>

Packets == {"in", "out", "other"}
Bit(inRange) == IF inRange THEN "in" ELSE "out"

Flags ==
    /\ pen \in BOOLEAN /\ sampling \in BOOLEAN /\ told \in BOOLEAN
    /\ irqOn \in BOOLEAN /\ prox \in BOOLEAN /\ lost \in BOOLEAN

TypeOK ==
    /\ Flags
    /\ packet \in Packets \cup {"none"}
    /\ isr \in Packets \cup {"idle"}
    /\ pm \in {"up", "stop", "release", "asleep", "start", "enable", "removed"}
    /\ moves \in 0..MaxMoves /\ faults \in 0..MaxFaults
    /\ sleeps \in 0..MaxSleeps /\ others \in 0..MaxOthers

Fault == faults < MaxFaults /\ faults' = faults + 1
NoFault == UNCHANGED faults

-----------------------------------------------------------------------------
(* The pen and the chip.                                                   *)

PenMoves ==
    /\ moves < MaxMoves
    /\ moves' = moves + 1
    /\ pen' = ~pen
    /\ UNCHANGED <<chip, irqOn, isr, prox, pm, faults, counts, lost>>

(* A pen in range is told again and again, a pen that left once.           *)
ChipTells ==
    /\ sampling /\ packet = "none"
    /\ pen \/ told
    /\ packet' = Bit(pen)
    /\ told' = pen
    /\ UNCHANGED <<world, sampling, irqOn, isr, prox, pm, faults, counts, lost>>

(* A reply, a notification, a gesture.                                     *)
ChipOther ==
    /\ packet = "none" /\ others < MaxOthers
    /\ packet' = "other"
    /\ others' = others + 1
    /\ UNCHANGED <<world, sampling, told, irqOn, isr, prox, pm, faults, sleeps, lost>>

-----------------------------------------------------------------------------
(* wacom_irq.                                                              *)

IrqRead ==
    /\ irqOn /\ isr = "idle" /\ packet # "none"
    /\ \/ NoFault /\ isr' = packet /\ packet' = "none" /\ UNCHANGED lost
       \/ Fault /\ UNCHANGED <<isr, packet, lost>>
       \/ Fault /\ packet' = "none" /\ lost' = TRUE /\ UNCHANGED isr
    /\ UNCHANGED <<world, sampling, told, irqOn, prox, pm, counts>>

(* Broken form: every packet is parsed as coordinates.                     *)
IrqReportAnyPacket ==
    /\ isr # "idle"
    /\ isr' = "idle"
    /\ prox' = (isr # "out")
    /\ UNCHANGED <<world, chip, irqOn, pm, faults, counts, lost>>

IrqReport ==
    /\ isr # "idle"
    /\ isr' = "idle"
    /\ prox' = IF isr = "other" THEN prox ELSE isr = "in"
    /\ UNCHANGED <<world, chip, irqOn, pm, faults, counts, lost>>

-----------------------------------------------------------------------------
(* Suspend and resume.                                                     *)

StillFrame == UNCHANGED <<world, isr, others>>
SleepFrame == StillFrame /\ UNCHANGED <<told, packet>>

(* Broken form: disable_irq_nosync.                                        *)
SuspendDisableNoSync ==
    /\ pm = "up" /\ sleeps < MaxSleeps
    /\ sleeps' = sleeps + 1
    /\ irqOn' = FALSE
    /\ pm' = "stop"
    /\ UNCHANGED <<sampling, prox, faults, lost>>
    /\ SleepFrame

(* disable_irq waits for the handler.                                      *)
SuspendDisable ==
    /\ pm = "up" /\ sleeps < MaxSleeps
    /\ isr = "idle"
    /\ sleeps' = sleeps + 1
    /\ irqOn' = FALSE
    /\ pm' = "stop"
    /\ UNCHANGED <<sampling, prox, faults, lost>>
    /\ SleepFrame

(* The STOP may raise a packet of its own; one that fails leaves the chip  *)
(* sampling through the sleep.                                             *)
SuspendStop ==
    /\ pm = "stop"
    /\ \/ NoFault /\ sampling' = FALSE
       \/ Fault /\ UNCHANGED sampling
    /\ \/ UNCHANGED <<told, packet>>
       \/ packet' = Bit(pen) /\ told' = pen
    /\ pm' = "release"
    /\ UNCHANGED <<irqOn, prox, sleeps, lost>>
    /\ StillFrame

SuspendRelease ==
    /\ pm = "release"
    /\ prox' = FALSE
    /\ pm' = "asleep"
    /\ lost' = FALSE
    /\ UNCHANGED <<sampling, irqOn, faults, sleeps>>
    /\ SleepFrame

(* SURVEY_EXIT, whose failure is logged.                                   *)
ResumeExit ==
    /\ pm = "asleep"
    /\ pm' = "start"
    /\ UNCHANGED <<sampling, irqOn, prox, faults, sleeps, lost>>
    /\ SleepFrame

(* Broken form: sampling is not started again.                             *)
ResumeStartNothing ==
    /\ pm = "start"
    /\ pm' = "enable"
    /\ UNCHANGED <<sampling, irqOn, prox, faults, sleeps, lost>>
    /\ SleepFrame

ResumeStart ==
    /\ pm = "start"
    /\ \/ NoFault /\ sampling' = TRUE
       \/ Fault /\ UNCHANGED sampling
    /\ pm' = "enable"
    /\ UNCHANGED <<irqOn, prox, sleeps, lost>>
    /\ SleepFrame

ResumeEnable ==
    /\ pm = "enable"
    /\ irqOn' = TRUE
    /\ pm' = "up"
    /\ UNCHANGED <<sampling, prox, faults, sleeps, lost>>
    /\ SleepFrame

(* STOP, and the power: the interrupt is freed by the device core, so a    *)
(* handler may still be running; the input device goes with it.            *)
Remove ==
    /\ pm = "up"
    /\ pm' = "removed"
    /\ sampling' = FALSE
    /\ packet' = "none"
    /\ irqOn' = FALSE
    /\ UNCHANGED <<world, told, isr, prox, faults, counts, lost>>

(* wacom_probe: the interrupt is requested before the sampling starts.     *)
Init ==
    /\ pen \in BOOLEAN /\ moves = 0
    /\ sampling \in BOOLEAN /\ told = FALSE /\ packet = "none"
    /\ irqOn = TRUE /\ isr = "idle" /\ prox = FALSE /\ pm = "up"
    /\ faults = 0 /\ sleeps = 0 /\ others = 0
    /\ lost = FALSE

Sleep == SuspendStop \/ SuspendRelease \/ ResumeExit \/ ResumeStart \/ ResumeEnable

Next == PenMoves \/ ChipTells \/ ChipOther \/ IrqRead \/ IrqReport
        \/ SuspendDisable \/ Sleep \/ Remove

Spec == Init /\ [][Next]_vars

FairSpec == Spec /\ WF_vars(ChipTells) /\ WF_vars(IrqRead) /\ WF_vars(IrqReport)
                 /\ WF_vars(Sleep)

-----------------------------------------------------------------------------
(* Userspace never sees the tool during a sleep: no packet read before it, *)
(* and none raised by the STOP, undoes the forced release                  *)
(* (wacom-wez01.c:448-451).                                                *)
NoToolInSleep == pm \in {"asleep", "start", "enable"} => ~prox

(* A tool that is shown without a pen is about to be released: its release *)
(* is in the handler, in the chip, or still to be told.  Only a failed     *)
(* read, or a chip that does not sample, loses it.                         *)
ToolIsReleased ==
    prox /\ ~pen => \/ isr = "out" \/ packet = "out" \/ told
                    \/ lost \/ pm \in {"stop", "release", "removed"}

(* Once the pen rests the tool is shown exactly while the pen is there, if *)
(* no transfer ever failed, however many sleeps came between.              *)
PenIsFollowed ==
    sampling /\ [](faults = 0) => <>(pm = "removed") \/ <>[](prox = pen)
=============================================================================
