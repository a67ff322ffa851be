----------------------------- MODULE MCUsbcPort -----------------------------
(* The USB-C port with a charger of 5 V 3 A, 9 V 2 A and a range of        *)
(* voltages the driver does not ask for.                                   *)
EXTENDS UsbcPort

Charger == <<[fixed |-> TRUE, mv |-> 5000, ma |-> 3000],
             [fixed |-> TRUE, mv |-> 9000, ma |-> 2000],
             [fixed |-> FALSE, mv |-> 5000, ma |-> 3000]>>

ASSUME ChargerIsOrdinary == OrdinarySource
=============================================================================
