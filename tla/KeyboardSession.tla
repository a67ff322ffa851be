--------------------------- MODULE KeyboardSession ---------------------------
(***************************************************************************)
(* What the keyboard driver promises the input subsystem, without works,   *)
(* interrupts or a mutex.  A session has power, may have a handshake, and  *)
(* is closed before its power goes; input devices come one after another   *)
(* in a session that has shaken hands, stay to its end and leave together, *)
(* and only a device that is there has something pressed.                  *)
(***************************************************************************)
CONSTANT Inputs         \* the input devices a keyboard can have

VARIABLES
    phase,              \* "off", "on", "talking" (the hands are shaken), "closing"
    devices,            \* the devices that are registered
    pressed             \* those on which something is pressed

vars == <<phase, devices, pressed>>

Init == phase = "off" /\ devices = {} /\ pressed = {}

Dock ==
    /\ phase = "off"
    /\ phase' = "on"
    /\ UNCHANGED <<devices, pressed>>

Talk ==
    /\ phase = "on"
    /\ phase' = "talking"
    /\ UNCHANGED <<devices, pressed>>

(* A device that appears has nothing pressed.                              *)
Appear ==
    /\ phase = "talking"
    /\ devices \subseteq devices' /\ devices' \subseteq Inputs
    /\ UNCHANGED <<phase, pressed>>

(* What was on its way when the session was closed is still reported.      *)
Report ==
    /\ phase \in {"talking", "closing"}
    /\ pressed' \subseteq devices
    /\ UNCHANGED <<phase, devices>>

Close ==
    /\ phase \in {"on", "talking"}
    /\ phase' = "closing"
    /\ UNCHANGED <<devices, pressed>>

(* Nothing is left pressed and no device is left behind.                   *)
Undock ==
    /\ phase = "closing"
    /\ phase' = "off"
    /\ devices' = {} /\ pressed' = {}

Next == Dock \/ Talk \/ Appear \/ Report \/ Close \/ Undock

Spec == Init /\ [][Next]_vars
=============================================================================
