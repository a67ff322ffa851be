------------------------------- MODULE StmPogo -------------------------------
(***************************************************************************)
(* The pogo-pin keyboard driver, stm32-pogo.c: two threaded interrupt      *)
(* handlers, three delayed works and remove(), over one mutex.             *)
(*                                                                         *)
(* A step ends where another thread can make a difference: before the      *)
(* mutex is taken, around a sleep or an I2C exchange, and where            *)
(* disable_irq waits for the handler.  An exchange holds i2c_lock from     *)
(* beginning to end and meets only the MCU, so each is one step with any   *)
(* of its outcomes.  A delayed work that is queued may start at any time.  *)
(*                                                                         *)
(* Left out: the MCU's version, mode and geometry answers beyond success   *)
(* or failure, the keymap, the coordinates, the caps-lock LED and the      *)
(* reset pulse, which changes nothing the driver keeps.                    *)
(***************************************************************************)
EXTENDS Naturals

CONSTANT MaxEdges               \* bound: edges of the conn line

ASSUME PogoAssumption == MaxEdges \in Nat

VARIABLES
    conn,           \* the conn line: a keyboard is on the pins
    edges,          \* how many edges it has made
    connPending,    \* an edge waits for its handler
    connIsr,        \* stm32_pogo_conn_isr: "idle" or "cancelled"
    queued,         \* works that are queued: subset of Works
    connPc, connState,  \* conn_work, and the level it read
    initPc, icPc,   \* init_work and ic_work
    removePc,       \* stm32_pogo_remove
    lock,           \* who holds dev_lock
    rail,           \* the vdd regulator is on
    irqOn,          \* the attn interrupt is enabled
    attnIsr,        \* stm32_pogo_attn_isr
    started, handshaken,
    kbd, tp,        \* the input devices exist
    held,           \* of {"key", "finger"}: what is reported pressed
    shook,          \* history: this session has had a handshake
    staleWatch,     \* history: the init_work that runs was armed by another session
    gaveUp          \* history: nothing will be tried before the next edge

lineVars == <<conn, edges>>
connVars == <<connPending, connIsr, connPc, connState>>
session == <<started, handshaken, rail, irqOn>>
devices == <<kbd, tp, held>>

vars == <<lineVars, connVars, queued, initPc, icPc, removePc, lock, session,
          attnIsr, devices, shook, staleWatch, gaveUp>>

Works == {"conn", "init", "ic"}
Threads == Works \cup {"remove"}
Stopping == "stopping"

Flags ==
    /\ conn \in BOOLEAN /\ connPending \in BOOLEAN /\ connState \in BOOLEAN
    /\ rail \in BOOLEAN /\ irqOn \in BOOLEAN
    /\ started \in BOOLEAN /\ handshaken \in BOOLEAN
    /\ kbd \in BOOLEAN /\ tp \in BOOLEAN
    /\ shook \in BOOLEAN /\ staleWatch \in BOOLEAN /\ gaveUp \in BOOLEAN

TypeOK ==
    /\ Flags
    /\ edges \in 0..MaxEdges
    /\ connIsr \in {"idle", "cancelled"}
    /\ queued \subseteq Works
    /\ connPc \in {"idle", "lock", "boot", "arm", Stopping}
    /\ initPc \in {"idle", "lock", Stopping}
    /\ icPc \in {"idle", "lock", "mode", "probe"}
    /\ removePc \in {"none", "conn", "init", "ic", "lock", Stopping, "removed"}
    /\ lock \in Threads \cup {"none"}
    /\ attnIsr \in {"idle", "exchange", "version", "settle"}
    /\ held \subseteq {"key", "finger"}

-----------------------------------------------------------------------------
(* stm32_pogo_stop, in two steps: until disable_irq, and from where it has *)
(* waited for the handler to the end of the caller, which gives the mutex  *)
(* back.  Cutting the power and unregistering the devices are one step:    *)
(* the mutex is held, and the handler, which could tell them apart, is off.*)

StopBegin ==
    /\ started' = FALSE
    /\ handshaken' = FALSE
    /\ irqOn' = FALSE
    /\ UNCHANGED <<rail, devices, queued>>

(* Broken form: the power goes without waiting for the handler.            *)
StopEndAtOnce ==
    /\ queued' = queued \ {"init", "ic"}
    /\ rail' = FALSE
    /\ kbd' = FALSE /\ tp' = FALSE /\ held' = {}
    /\ lock' = "none"
    /\ UNCHANGED <<started, handshaken, irqOn>>

(* Broken form: the delayed works stay queued.                             *)
StopEndLeavingWorks ==
    /\ attnIsr = "idle"
    /\ rail' = FALSE
    /\ kbd' = FALSE /\ tp' = FALSE /\ held' = {}
    /\ lock' = "none"
    /\ UNCHANGED <<started, handshaken, irqOn, queued>>

StopEnd ==
    /\ attnIsr = "idle"
    /\ queued' = queued \ {"init", "ic"}
    /\ rail' = FALSE
    /\ kbd' = FALSE /\ tp' = FALSE /\ held' = {}
    /\ lock' = "none"
    /\ UNCHANGED <<started, handshaken, irqOn>>

-----------------------------------------------------------------------------
(* The conn line.                                                          *)

(* Broken form: the queued work is cancelled and a new one queued only for *)
(* an attach.                                                              *)
ConnScheduleAttachOnly ==
    /\ connIsr = "cancelled"
    /\ connIsr' = "idle"
    /\ queued' = IF conn THEN queued \cup {"conn"} ELSE queued
    /\ UNCHANGED <<lineVars, connPending, connPc, connState, initPc, icPc, removePc,
                   lock, session, attnIsr, devices, shook, staleWatch, gaveUp>>

(* stm32_pogo_conn_isr.                                                    *)
ConnCancel ==
    /\ connPending /\ connIsr = "idle" /\ removePc = "none"
    /\ connPending' = FALSE
    /\ connIsr' = "cancelled"
    /\ queued' = queued \ {"conn"}
    /\ UNCHANGED <<lineVars, connPc, connState, initPc, icPc, removePc, lock, session,
                   attnIsr, devices, shook, staleWatch, gaveUp>>

ConnSchedule ==
    /\ connIsr = "cancelled"
    /\ connIsr' = "idle"
    /\ queued' = queued \cup {"conn"}
    /\ UNCHANGED <<lineVars, connPending, connPc, connState, initPc, icPc, removePc,
                   lock, session, attnIsr, devices, shook, staleWatch, gaveUp>>

(* stm32_pogo_conn_work: the level is read before the mutex is taken.      *)
ConnRun ==
    /\ "conn" \in queued /\ connPc = "idle"
    /\ queued' = queued \ {"conn"}
    /\ connState' = conn
    /\ connPc' = "lock"
    /\ UNCHANGED <<lineVars, connPending, connIsr, initPc, icPc, removePc, lock,
                   session, attnIsr, devices, shook, staleWatch, gaveUp>>

(* The keyboard left: stm32_pogo_stop.                                     *)
ConnDetach ==
    /\ connPc = "lock" /\ lock = "none" /\ ~connState
    /\ IF started
       THEN StopBegin /\ connPc' = Stopping /\ lock' = "conn"
       ELSE connPc' = "idle" /\ UNCHANGED <<lock, session, devices, queued>>
    /\ UNCHANGED <<lineVars, connPending, connIsr, connState, initPc, icPc, removePc,
                   attnIsr, shook, staleWatch, gaveUp>>

ConnStopped ==
    /\ connPc = Stopping
    /\ StopEnd
    /\ connPc' = "idle"
    /\ UNCHANGED <<lineVars, connPending, connIsr, connState, initPc, icPc, removePc,
                   attnIsr, shook, staleWatch, gaveUp>>

(* The keyboard came: stm32_pogo_start up to the 50 ms of sleep, unless    *)
(* the regulator fails.                                                    *)
ConnAttach ==
    /\ connPc = "lock" /\ lock = "none" /\ connState
    /\ \/ /\ started
          /\ connPc' = "idle"
          /\ UNCHANGED <<lock, rail, gaveUp>>
       \/ /\ ~started
          /\ rail' = TRUE
          /\ lock' = "conn"
          /\ connPc' = "boot"
          /\ UNCHANGED gaveUp
       \/ /\ ~started
          /\ connPc' = "idle"
          /\ gaveUp' = TRUE
          /\ UNCHANGED <<lock, rail>>
    /\ UNCHANGED <<lineVars, connPending, connIsr, connState, queued, initPc, icPc,
                   removePc, started, handshaken, irqOn, attnIsr, devices, shook,
                   staleWatch>>

(* Broken form: the handshake of the session before is still there.        *)
ConnEnableKeepingHandshake ==
    /\ connPc = "boot"
    /\ started' = TRUE
    /\ irqOn' = TRUE
    /\ connPc' = "arm"
    /\ shook' = FALSE
    /\ staleWatch' = (initPc = "lock")
    /\ UNCHANGED <<lineVars, connPending, connIsr, connState, queued, initPc, icPc,
                   removePc, lock, rail, handshaken, attnIsr, devices, gaveUp>>

(* From enable_irq on the handler may run.                                 *)
ConnEnable ==
    /\ connPc = "boot"
    /\ started' = TRUE
    /\ handshaken' = FALSE
    /\ irqOn' = TRUE
    /\ connPc' = "arm"
    /\ shook' = FALSE
    /\ staleWatch' = (initPc = "lock")
    /\ UNCHANGED <<lineVars, connPending, connIsr, connState, queued, initPc, icPc,
                   removePc, lock, rail, attnIsr, devices, gaveUp>>

(* Broken form: no watchdog is armed.                                      *)
ConnArmNothing ==
    /\ connPc = "arm"
    /\ lock' = "none"
    /\ connPc' = "idle"
    /\ UNCHANGED <<lineVars, connPending, connIsr, connState, queued, initPc, icPc,
                   removePc, session, attnIsr, devices, shook, staleWatch, gaveUp>>

(* The watchdog is armed last, even when the handshake is over by then.    *)
ConnArm ==
    /\ connPc = "arm"
    /\ queued' = queued \cup {"init"}
    /\ lock' = "none"
    /\ connPc' = "idle"
    /\ UNCHANGED <<lineVars, connPending, connIsr, connState, initPc, icPc, removePc,
                   session, attnIsr, devices, shook, staleWatch, gaveUp>>

-----------------------------------------------------------------------------
(* stm32_pogo_init_work, the handshake watchdog.                           *)

InitFires ==
    /\ "init" \in queued /\ initPc = "idle"
    /\ queued' = queued \ {"init"}
    /\ initPc' = "lock"
    /\ staleWatch' = FALSE
    /\ UNCHANGED <<lineVars, connVars, icPc, removePc, lock, session, attnIsr,
                   devices, shook, gaveUp>>

InitCheck ==
    /\ initPc = "lock" /\ lock = "none"
    /\ IF started /\ ~handshaken
       THEN StopBegin /\ initPc' = Stopping /\ lock' = "init" /\ gaveUp' = TRUE
       ELSE initPc' = "idle" /\ UNCHANGED <<lock, session, devices, queued, gaveUp>>
    /\ UNCHANGED <<lineVars, connVars, icPc, removePc, attnIsr, shook, staleWatch>>

InitStopped ==
    /\ initPc = Stopping
    /\ StopEnd
    /\ initPc' = "idle"
    /\ UNCHANGED <<lineVars, connVars, icPc, removePc, attnIsr, shook, staleWatch,
                   gaveUp>>

-----------------------------------------------------------------------------
(* stm32_pogo_ic_work, the setup after the handshake.                      *)

IcFires ==
    /\ "ic" \in queued /\ icPc = "idle"
    /\ queued' = queued \ {"ic"}
    /\ icPc' = "lock"
    /\ UNCHANGED <<lineVars, connVars, initPc, removePc, lock, session, attnIsr,
                   devices, shook, staleWatch, gaveUp>>

IcFrame == UNCHANGED <<lineVars, connVars, queued, initPc, removePc, session, attnIsr,
                       shook, staleWatch, gaveUp>>

IcCheck ==
    /\ icPc = "lock" /\ lock = "none"
    /\ IF started /\ handshaken
       THEN icPc' = "mode" /\ lock' = "ic"
       ELSE icPc' = "idle" /\ UNCHANGED lock
    /\ UNCHANGED devices
    /\ IcFrame

(* GET_MODE, and ABORT with its 200 ms when the MCU is not in its app.     *)
IcMode ==
    /\ icPc = "mode"
    /\ \/ icPc' = "probe" /\ UNCHANGED lock
       \/ icPc' = "idle" /\ lock' = "none"
    /\ UNCHANGED devices
    /\ IcFrame

(* A fresh keyboard has no key down.                                       *)
RegisterKbd ==
    /\ kbd' = TRUE \/ UNCHANGED kbd
    /\ held' = IF kbd THEN held ELSE held \ {"key"}

RegisterTp == tp' = TRUE \/ UNCHANGED tp

(* The touchpad is looked for, what is missing is registered; either       *)
(* registration may fail.                                                  *)
IcRegister ==
    /\ icPc = "probe"
    /\ icPc' = "idle"
    /\ lock' = "none"
    /\ RegisterKbd /\ RegisterTp
    /\ IcFrame

-----------------------------------------------------------------------------
(* stm32_pogo_attn_isr.                                                    *)

AttnFrame == UNCHANGED <<lineVars, connVars, initPc, icPc, removePc, lock, started,
                         rail, irqOn, kbd, tp, staleWatch, gaveUp>>

(* ATTN is low: the keyboard on the pins, with power, pulls it.            *)
AttnFires ==
    /\ irqOn /\ rail /\ conn /\ attnIsr = "idle"
    /\ attnIsr' = "exchange"
    /\ UNCHANGED <<queued, handshaken, held, shook>>
    /\ AttnFrame

(* A press or a release; without the device the event is dropped.          *)
KeypadEvent == kbd /\ held' \in {held \cup {"key"}, held \ {"key"}}
TouchpadEvent == tp /\ held' \in {held \cup {"finger"}, held \ {"finger"}}

(* The cover is folded: everything is released.                            *)
HallEvent == held' = {}

(* stm32_pogo_xfer gives up, or nothing is to be dispatched.               *)
NoEvent == UNCHANGED held

AttnExchange ==
    /\ attnIsr = "exchange"
    /\ \/ attnIsr' = "version" /\ UNCHANGED held
       \/ attnIsr' = "idle" /\ (NoEvent \/ KeypadEvent \/ TouchpadEvent \/ HallEvent)
    /\ UNCHANGED <<queued, handshaken, shook>>
    /\ AttnFrame

(* stm32_pogo_read_version, whose failure is only logged.                  *)
AttnVersion ==
    /\ attnIsr = "version"
    /\ attnIsr' = "settle"
    /\ handshaken' = TRUE
    /\ shook' = TRUE
    /\ UNCHANGED <<queued, held>>
    /\ AttnFrame

AttnSettle ==
    /\ attnIsr = "settle"
    /\ attnIsr' = "idle"
    /\ queued' = (queued \ {"init"}) \cup {"ic"}
    /\ UNCHANGED <<handshaken, held, shook>>
    /\ AttnFrame

-----------------------------------------------------------------------------
(* stm32_pogo_remove: each cancel_delayed_work_sync waits for its work.    *)

RemoveFrame == UNCHANGED <<lineVars, connVars, initPc, icPc, attnIsr, shook,
                           staleWatch, gaveUp>>

RemoveBegin ==
    /\ removePc = "none" /\ connIsr = "idle"
    /\ removePc' = "conn"
    /\ UNCHANGED <<queued, lock, session, devices>>
    /\ RemoveFrame

Cancelled(work, next) ==
    /\ queued' = queued \ {work}
    /\ removePc' = next
    /\ UNCHANGED <<lock, session, devices>>

RemoveCancel ==
    /\ \/ removePc = "conn" /\ connPc = "idle" /\ Cancelled("conn", "init")
       \/ removePc = "init" /\ initPc = "idle" /\ Cancelled("init", "ic")
       \/ removePc = "ic" /\ icPc = "idle" /\ Cancelled("ic", "lock")
    /\ RemoveFrame

RemoveStop ==
    /\ removePc = "lock" /\ lock = "none"
    /\ IF started
       THEN StopBegin /\ removePc' = Stopping /\ lock' = "remove"
       ELSE removePc' = "removed" /\ UNCHANGED <<lock, session, devices, queued>>
    /\ RemoveFrame

RemoveStopped ==
    /\ removePc = Stopping
    /\ StopEnd
    /\ removePc' = "removed"
    /\ RemoveFrame

-----------------------------------------------------------------------------
(* A keyboard is put on the pins or taken off.                             *)
ConnMoves ==
    /\ edges < MaxEdges
    /\ edges' = edges + 1
    /\ conn' = ~conn
    /\ connPending' = TRUE
    /\ gaveUp' = FALSE
    /\ UNCHANGED <<connIsr, connPc, connState, queued, initPc, icPc, removePc, lock,
                   session, attnIsr, devices, shook, staleWatch>>

(* stm32_pogo_probe.                                                       *)
Init ==
    /\ conn \in BOOLEAN
    /\ edges = 0
    /\ connPending = FALSE /\ connIsr = "idle"
    /\ queued = IF conn THEN {"conn"} ELSE {}
    /\ connPc = "idle" /\ connState = FALSE
    /\ initPc = "idle" /\ icPc = "idle" /\ removePc = "none"
    /\ lock = "none"
    /\ rail = FALSE /\ irqOn = FALSE /\ attnIsr = "idle"
    /\ started = FALSE /\ handshaken = FALSE
    /\ kbd = FALSE /\ tp = FALSE /\ held = {}
    /\ shook = FALSE /\ staleWatch = FALSE /\ gaveUp = FALSE

ConnHandler == ConnCancel \/ ConnSchedule
ConnWork == ConnRun \/ ConnDetach \/ ConnStopped \/ ConnAttach \/ ConnEnable \/ ConnArm
InitWork == InitFires \/ InitCheck \/ InitStopped
IcWork == IcFires \/ IcCheck \/ IcMode \/ IcRegister
AttnHandler == AttnExchange \/ AttnVersion \/ AttnSettle
Remove == RemoveCancel \/ RemoveStop \/ RemoveStopped

Next == \/ ConnHandler \/ ConnWork \/ InitWork \/ IcWork
        \/ AttnFires \/ AttnHandler \/ RemoveBegin \/ Remove \/ ConnMoves

Spec == Init /\ [][Next]_vars

(* Threads that can run do, and a mutex waiter is served in the end (the   *)
(* kernel hands a contended mutex over); the MCU need not ever speak.      *)
Fairness ==
    /\ WF_vars(ConnHandler) /\ SF_vars(ConnWork) /\ SF_vars(InitWork)
    /\ SF_vars(IcWork) /\ WF_vars(AttnHandler) /\ SF_vars(Remove)

FairSpec == Spec /\ Fairness

-----------------------------------------------------------------------------
(* The input devices live, and the handler talks to the MCU, only while    *)
(* the keyboard has power (stm32-pogo.c:114-115); the interrupt is never   *)
(* left enabled without, and nothing stays pressed on a device that went.  *)
NothingWithoutPower ==
    /\ kbd \/ tp \/ irqOn \/ attnIsr # "idle" => rail
    /\ "key" \in held => kbd
    /\ "finger" \in held => tp

(* No device without a handshake of the session it belongs to, however a   *)
(* late handshake, a stop and the next start fall.                         *)
DevicesFollowHandshake == (kbd \/ tp) => shook

(* The keyboard as the input subsystem sees it.                            *)
SessionPhase ==
    IF ~rail THEN "off"
    ELSE IF started THEN IF shook THEN "talking" ELSE "on"
    ELSE IF connPc = "boot" THEN "on" ELSE "closing"

Registered == {d \in {"key", "finger"} : IF d = "key" THEN kbd ELSE tp}

Session == INSTANCE KeyboardSession
           WITH Inputs <- {"key", "finger"},
                phase <- SessionPhase, devices <- Registered, pressed <- held

(* The driver implements KeyboardSession: whatever the order of its works, *)
(* its handlers and remove, a device appears only in a session of its own  *)
(* handshake (stm32-pogo.c:526), all leave with the power, with nothing    *)
(* pressed, and no session begins before the last one has been taken down. *)
SessionsInOrder == Session!Spec

(* The driver has the state of the conn line, or something that will bring *)
(* it there is on its way, or it gave up until the next edge.              *)
ConnIsFollowed ==
    removePc = "none" /\ started # conn =>
        \/ connPending \/ connIsr # "idle" \/ "conn" \in queued \/ connPc # "idle"
        \/ gaveUp

(* After remove nothing has power, nothing is queued and no work of the    *)
(* driver runs, but for an ic_work the handler queued after its cancel.    *)
RemovedIsQuiet ==
    removePc = "removed" =>
        /\ ~rail /\ ~irqOn /\ ~kbd /\ ~tp /\ attnIsr = "idle"
        /\ queued = {} /\ connPc = "idle" /\ initPc = "idle"
        /\ icPc \in {"idle", "lock"}

(* Power is held only for a keyboard that is there and talks: a half-docked *)
(* one does not hold the rail for ever (stm32-pogo.c:606-611), and one that *)
(* has left for good loses rail and devices, though disable_irq under the   *)
(* mutex waits for a handler.                                               *)
UnusedKeyboardPowersOff ==
    /\ rail ~> handshaken \/ ~rail
    /\ <>[]~conn => <>[](~rail /\ ~kbd /\ ~tp)

-----------------------------------------------------------------------------
(* stm32-pogo.c:606-611 and 653: an attach is declared failed when it has  *)
(* not shaken hands in its three seconds.  A watchdog that fired for the   *)
(* session before and waited for the mutex behind its stop ends the next   *)
(* session at its start.                                                   *)
WatchdogEndsItsOwnSession ==
    [][initPc = "lock" /\ initPc' = Stopping => ~staleWatch]_vars
=============================================================================
