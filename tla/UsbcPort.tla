------------------------------ MODULE UsbcPort ------------------------------
(***************************************************************************)
(* The USB-C port driver at work: a threaded interrupt handler that queues *)
(* events in a small fifo, and four works on one ordered queue, so that of *)
(* them one runs at a time, under u->lock.  Handler and works meet in the  *)
(* fifo; the chip, the partner and the source go on meanwhile.             *)
(*                                                                         *)
(* A handled event is one step: the levels it reads change only by what    *)
(* raises an interrupt of its own.  The handler is two, the read that      *)
(* clears the interrupts and the read of the reports, since a later report *)
(* overwrites an earlier one between them.  A delayed work that is queued  *)
(* may start at any time; only recover_work waits for its minute.          *)
(***************************************************************************)
EXTENDS UsbcState

CONSTANTS
    PluggedIn,          \* what may be on the CC pins when the driver is probed
    FifoSize,           \* MAX77705_EV_FIFO_SIZE
    MaxEvents,          \* bound: what partner, source and chip do of their own,
                        \* and the calls that fail
    MaxFaults           \* bound: calls that fail

ASSUME UsbcPortAssumption ==
    /\ PluggedIn \subseteq CcStats
    /\ FifoSize \in Nat /\ MaxEvents \in Nat /\ MaxFaults \in Nat

VARIABLES
    cc,             \* CCStat, the level
    real,           \* the contract in force, 0 without one
    ints,           \* interrupts the chip has raised
    report,         \* the last PDMsg, in PD_STATUS0
    sys,            \* the last SYSMsg, in USBC_STATUS2
    isr,            \* the interrupts max77705_usbc_irq has read
    fifo, overflow, resetLost,
    workQ,          \* u->work is queued
    draining, any,  \* it runs; it has had an event
    port,           \* struct max77705_usbc
    pm,             \* "up", or the next thing the removal cancels
    events, faults

partner == <<cc, real>>
chip == <<ints, report, sys>>
queue == <<fifo, overflow, resetLost>>
work == <<workQ, draining, any>>

vars == <<partner, chip, isr, queue, work, port, pm, events, faults>>

Kinds == {"cc", "pdmsg", "psrdy", "sys"}

TypeOK ==
    /\ cc \in CcStats /\ real \in 0..Len(SrcPdos)
    /\ ints \subseteq Kinds /\ isr \subseteq Kinds
    /\ report \in Msgs /\ sys \in {"reset", "other"}
    /\ fifo \in Seq(Event) /\ Len(fifo) <= FifoSize
    /\ overflow \in BOOLEAN /\ resetLost \in BOOLEAN
    /\ workQ \in BOOLEAN /\ draining \in BOOLEAN /\ any \in BOOLEAN
    /\ port \in Port
    /\ pm \in {"up", "work", "retry", "vbus", "recover", "detach", "removed"}
    /\ events \in 0..MaxEvents /\ faults \in 0..MaxFaults

-----------------------------------------------------------------------------
(* The partner, the source and the chip.                                   *)

Happens ==
    /\ pm # "removed"
    /\ events + faults < MaxEvents
    /\ events' = events + 1
    /\ UNCHANGED <<isr, queue, work, pm, faults>>

(* Once the driver is being removed nobody listens.                        *)
Raise(kinds) == ints' = IF pm = "up" THEN ints \cup kinds ELSE {}
Reports(msg) == Raise({"pdmsg"}) /\ report' = IF pm = "up" THEN msg ELSE report

PartnerMoves ==
    /\ Happens
    /\ cc' \in CcStats \ {cc}
    /\ real' = 0 /\ port' = [port EXCEPT !.wire = 0]
    /\ Raise({"cc"})
    /\ UNCHANGED <<report, sys>>

(* The source makes a contract of its own choice.                          *)
SourceOffers ==
    /\ Happens
    /\ cc = "sink"
    /\ real' \in Pos \ {real} /\ port' = [port EXCEPT !.wire = 0]
    /\ Raise({"psrdy"})
    /\ UNCHANGED <<cc, report, sys>>

(* A contract is announced by the PSRDY interrupt and by a report as well. *)
SourceRepeats ==
    /\ Happens
    /\ real # 0
    /\ Reports("ready")
    /\ UNCHANGED <<partner, sys, port>>

HardResets ==
    /\ Happens
    /\ cc \in {"sink", "source"}
    /\ real' = 0 /\ port' = [port EXCEPT !.wire = 0]
    /\ Reports("hardReset")
    /\ UNCHANGED <<cc, sys>>

(* The steps of a power role swap, and VBUS off at the firmware's word.    *)
Swaps ==
    /\ Happens
    /\ cc \in {"sink", "source"}
    /\ \E m \in {"vbusOff", "toSource"} : Reports(m)
    /\ UNCHANGED <<partner, sys, port>>

(* The chip forgets its settings, and says so or only restarts on the CC   *)
(* pins.                                                                   *)
ChipResets ==
    /\ Happens
    /\ real' = 0
    /\ port' = [port EXCEPT !.wire = 0, !.configured = FALSE, !.masks = FALSE]
    /\ \/ pm = "up" /\ Raise({"sys"}) /\ sys' = "reset"
       \/ Raise({"cc"}) /\ UNCHANGED sys
    /\ UNCHANGED <<cc, report>>

ChipSpeaks ==
    /\ pm = "up"
    /\ Happens
    /\ Raise({"sys"}) /\ sys' = "other"
    /\ UNCHANGED <<partner, report, port>>

(* The source answers the request on the wire, if it is still there.       *)
SourceAnswers ==
    /\ pm # "removed"
    /\ port.wire # 0 /\ real # 0
    /\ port' = [port EXCEPT !.wire = 0]
    /\ \/ real' = port.wire /\ Raise({"psrdy"}) /\ UNCHANGED report
       \/ Reports("reject") /\ UNCHANGED real
    /\ UNCHANGED <<cc, sys, isr, queue, work, pm, events, faults>>

World == \/ PartnerMoves \/ SourceOffers \/ SourceRepeats \/ HardResets \/ Swaps
         \/ ChipResets \/ ChipSpeaks

-----------------------------------------------------------------------------
(* max77705_usbc_irq.                                                      *)

(* At most one call fails in a step, and MaxFaults over all.               *)
MayFail == faults < MaxFaults /\ events + faults < MaxEvents
Failures == {{}} \cup IF MayFail THEN {{c} : c \in Calls} ELSE {}
Fails(f) == faults' = IF f = {} THEN faults ELSE faults + 1

IrqRead ==
    /\ pm = "up"
    /\ isr = {} /\ ints # {}
    /\ isr' = ints /\ ints' = {}
    /\ UNCHANGED <<partner, report, sys, queue, work, port, pm, events, faults>>

(* What the handler makes of the reports; the read of either may fail.  A  *)
(* report is looked at on its own interrupt only, and forgotten then.      *)
Seen(failed) ==
    [reset |-> "sys" \in isr /\ sys = "reset" /\ ~failed,
     psrdy |-> "psrdy" \in isr,
     msg |-> IF "pdmsg" \in isr /\ ~failed THEN report ELSE "none"]

Queued(e) == IF Len(fifo) < FifoSize THEN Append(fifo, e) ELSE fifo

IrqQueue ==
    /\ isr # {} /\ isr' = {}
    /\ \E failed \in IF MayFail THEN BOOLEAN ELSE {FALSE} :
         LET e == Seen(failed)
             full == Len(fifo) >= FifoSize
         IN  /\ faults' = IF failed THEN faults + 1 ELSE faults
             /\ fifo' = Queued(e)
             /\ overflow' = (overflow \/ full)
             /\ resetLost' = (resetLost \/ (full /\ e.reset))
             /\ port' = [port EXCEPT !.unread =
                           @ \/ (full /\ AboutContract(e))
                             \/ (failed /\ "pdmsg" \in isr)]
    /\ workQ' = TRUE
    /\ report' = IF "pdmsg" \in ints THEN report ELSE "none"
    /\ sys' = IF "sys" \in ints THEN sys ELSE "other"
    /\ UNCHANGED <<partner, ints, draining, any, pm, events>>

-----------------------------------------------------------------------------
(* The works.  "sent" and "busy" are the answers of the chip to a request  *)
(* and of the charger to an enable.                                        *)

WorkFrame == UNCHANGED <<partner, chip, isr, pm, events>>
Idle == ~draining

WorkBegin ==
    /\ workQ /\ Idle
    /\ workQ' = FALSE /\ draining' = TRUE /\ any' = FALSE
    /\ UNCHANGED <<queue, port, faults>>
    /\ WorkFrame

WorkEvent ==
    /\ draining /\ fifo # <<>>
    /\ fifo' = Tail(fifo) /\ any' = TRUE
    /\ UNCHANGED <<overflow, resetLost, workQ, draining>>
    /\ WorkFrame
    /\ \E f \in Failures, sent, busy \in BOOLEAN :
         /\ Fails(f)
         /\ port' = HandleEv(port, Head(fifo), cc, real, sent, busy, f)

WorkEnd ==
    /\ draining /\ fifo = <<>>
    /\ overflow' = FALSE /\ resetLost' = FALSE
    /\ draining' = FALSE /\ any' = FALSE
    /\ UNCHANGED <<fifo, workQ>>
    /\ WorkFrame
    /\ \E f \in Failures, sent, busy \in BOOLEAN :
         /\ Fails(f)
         /\ port' = Resync(port, any, overflow, resetLost, cc, real, sent, busy, f)

VbusWork ==
    /\ port.vbusQ /\ Idle
    /\ UNCHANGED <<queue, work, faults>>
    /\ WorkFrame
    /\ \E busy \in BOOLEAN : port' = VbusRun(port, busy)

RetryWork ==
    /\ port.retryQ /\ Idle
    /\ UNCHANGED <<queue, work>>
    /\ WorkFrame
    /\ \E f \in Failures, sent \in BOOLEAN :
         /\ Fails(f)
         /\ port' = PdRequest([port EXCEPT !.retryQ = FALSE], sent, f)

RecoverWork ==
    /\ port.recoverQ = "due" /\ Idle
    /\ UNCHANGED <<queue, work>>
    /\ WorkFrame
    /\ \E f \in Failures, sent, busy \in BOOLEAN :
         /\ Fails(f)
         /\ port' = RecoverRun(port, cc, real, sent, busy, f)

(* Sixty seconds go by for the recovery window, for the wait of            *)
(* recover_work, which a window begun before it does not outlast, and for  *)
(* the pause after a hard reset.                                           *)
TimePasses ==
    /\ \/ port.window # "closed" /\ port' = [port EXCEPT !.window = "closed"]
       \/ /\ port.recoverQ = "waiting" /\ port.window # "old"
          /\ port' = [port EXCEPT !.recoverQ = "due"]
       \/ port.backoff /\ port' = [port EXCEPT !.backoff = FALSE]
    /\ UNCHANGED <<queue, work, faults>>
    /\ WorkFrame

-----------------------------------------------------------------------------
(* Unbinding: the interrupt goes first, teardown() cancels work by work    *)
(* and waits for it, then lets the partner go.  A work that still runs may *)
(* queue one that has been cancelled.                                      *)

(* Broken form: a work that runs is not waited for.                        *)
RemovingAtOnce(from, to) ==
    /\ pm = from
    /\ pm' = to
    /\ UNCHANGED <<partner, chip, isr, queue, events>>

Removing(from, to) ==
    /\ pm = from /\ Idle
    /\ pm' = to
    /\ UNCHANGED <<partner, chip, isr, queue, events>>

RemoveIrq ==
    /\ pm = "up" /\ isr = {}
    /\ pm' = "work" /\ ints' = {} /\ report' = "none" /\ sys' = "other"
    /\ UNCHANGED <<partner, isr, queue, work, port, events, faults>>

RemoveWork ==
    /\ Removing("work", "retry")
    /\ workQ' = FALSE
    /\ UNCHANGED <<draining, any, port, faults>>

RemoveDelayed ==
    /\ \/ Removing("retry", "vbus") /\ port' = [port EXCEPT !.retryQ = FALSE]
       \/ Removing("vbus", "recover") /\ port' = [port EXCEPT !.vbusQ = FALSE]
       \/ Removing("recover", "detach") /\ port' = [port EXCEPT !.recoverQ = "off"]
    /\ UNCHANGED <<work, faults>>

RemoveDetach ==
    /\ Removing("detach", "removed")
    /\ UNCHANGED work
    /\ \E f \in Failures : Fails(f) /\ port' = LetGo(port, f)

-----------------------------------------------------------------------------
(* Probe has set the chip up, with the interrupt still off, and queues the *)
(* work that reads the levels; VBUS found on is off, or its disable failed. *)
Init ==
    /\ cc \in PluggedIn /\ real = 0
    /\ ints = {} /\ report = "none" /\ sys = "other"
    /\ isr = {} /\ fifo = <<>> /\ overflow = FALSE /\ resetLost = FALSE
    /\ workQ = TRUE /\ draining = FALSE /\ any = FALSE
    /\ \E on \in BOOLEAN :
         port = [cc |-> "none", vbusOn |-> on, vbusQ |-> FALSE, retries |-> 0,
                 contract |-> FALSE, sel |-> 0, req |-> 0, nreq |-> 0,
                 backoff |-> FALSE, retryQ |-> FALSE, ilim |-> IlimBase,
                 halted |-> FALSE, recoverQ |-> "off", recoveries |-> 0,
                 window |-> "closed", configured |-> TRUE, masks |-> TRUE,
                 wire |-> 0, stopFailed |-> on, ilimFailed |-> FALSE,
                 undone |-> FALSE,
                 ccMissed |-> FALSE, unread |-> FALSE]
    /\ pm = "up" /\ events = 0 /\ faults = 0

Handler == IrqRead \/ IrqQueue
Work == WorkBegin \/ WorkEvent \/ WorkEnd
Remove == RemoveIrq \/ RemoveWork \/ RemoveDelayed \/ RemoveDetach

Driver == \/ Handler \/ Work \/ VbusWork \/ RetryWork \/ RecoverWork
          \/ TimePasses

Next == World \/ SourceAnswers \/ Driver \/ Remove

Spec == Init /\ [][Next]_vars

(* The interrupt thread, the worker of the queue and time go on: while any *)
(* of them can take a step, one of them does.                              *)
FairSpec == Spec /\ WF_vars(Driver)

-----------------------------------------------------------------------------
(* The first of these is on its way to the port.                           *)
CcComing == "cc" \in ints \cup isr \/ fifo # <<>> \/ overflow \/ workQ
ReadyComing ==
    \/ "psrdy" \in ints \cup isr
    \/ \E i \in 1..Len(fifo) : AboutContract(fifo[i])

(* The boost drives VBUS only while the port is the source, and no longer  *)
(* than it takes the driver to learn that it is not: across swaps, hard    *)
(* resets, recovery and retries.  A regulator that will not switch off, or *)
(* a status register that cannot be read, is the only excuse.              *)
VbusFollowsPort ==
    port.vbusOn =>
        \/ port.stopFailed
        \/ /\ port.cc = "source" /\ ~port.halted
           /\ pm = "up" => cc = "source" \/ CcComing \/ port.ccMissed

(* The charger draws no more than the contract in force allows, unless its *)
(* report is still on the way or was lost, or the charger refused.  On a   *)
(* contract that is not fixed the limit is raised as soon as another is    *)
(* asked for, and stays up when the request is not sent.                   *)
LimitFitsContract ==
    pm = "up" /\ real # 0 /\ port.ilim > ContractIlim(real) =>
        \/ ReadyComing \/ port.unread \/ port.ilimFailed
        \/ ~SrcPdos[real].fixed /\ port.nreq > 0

(* A request the driver has out is covered: whichever way the source       *)
(* answers it, the limit fits the contract that follows, unless a retry of *)
(* an earlier one went unsent meanwhile and undid that.                    *)
RequestIsCovered ==
    port.req # 0 =>
        port.ilim <= ContractIlim(port.req) \/ port.ilimFailed \/ port.undone

(* A port that is held does nothing: no VBUS, no contract, no request, the *)
(* limit at its floor, whatever is plugged or reported.                    *)
HeldPortIsSafe ==
    port.halted =>
        /\ port.cc = "none" /\ ~port.contract
        /\ ~port.vbusQ /\ ~port.retryQ
        /\ port.vbusOn => port.stopFailed
        /\ port.ilim = IlimSafe \/ port.ilimFailed

(* The driver never goes on with a chip that forgot its settings: a reset  *)
(* shows in the masks until the settings are back or the port is held.     *)
ResetIsNoticed == ~port.configured => port.halted \/ ~port.masks

(* After teardown nothing is queued and VBUS is off.                       *)
RemovedIsQuiet ==
    pm = "removed" =>
        /\ ~workQ /\ ~draining
        /\ ~port.vbusQ /\ ~port.retryQ /\ port.recoverQ = "off"
        /\ port.vbusOn => port.stopFailed

(* Left in peace the port settles, if no call ever fails: it knows what is *)
(* on its pins, its chip is set up, and nothing is tried for ever; a held  *)
(* port has only been reset too often.                                     *)
PortSettles ==
    <>[](faults = 0 /\ pm = "up" =>
           /\ ~port.vbusQ /\ ~port.retryQ
           /\ ~port.halted =>
                 /\ port.cc = cc /\ port.configured
                 /\ real # 0 => port.sel = real \/ port.unread)

-----------------------------------------------------------------------------
(* What the comment says and the code does not do.                         *)

(* max77705-typec.patch:28-30: the limit, lowered before more voltage is   *)
(* asked for, is raised again after the next PSRDY, not before it.         *)
LimitWaitsForAnswer ==
    port.req # 0 => port.ilim <= ContractIlim(port.req) \/ port.ilimFailed
=============================================================================
