------------------------------ MODULE MCFoliod ------------------------------
(* foliod on small instances: one closed reading, thresholds in units of    *)
(* that reading.                                                           *)
EXTENDS Foliod, FoliodConfig

ClosedFolioReading == [z |-> -2, x |-> 0]
OneReading == {ClosedFolioReading}

(* The safety run starts with the magnet of hall 169 away, from any other   *)
(* state of the world.                                                     *)
LidAwayInit == Init /\ ~world.hall169
LidAwaySpec == LidAwayInit /\ [][Next]_vars

(* The liveness runs start with the folio on the tablet and off the pins.  *)
StartAttached ==
    world = [kb |-> FALSE, hall23 |-> TRUE, hall169 |-> FALSE, gpio |-> TRUE]

AttachedInit == Init /\ StartAttached
AttachedLoopSpec == AttachedInit /\ [][Next]_vars /\ LoopFairness

(* Two keys, set to numbers at the borders of both widths or to text, in   *)
(* the environment and in files of up to two lines.                        *)
SomeKeys == {"MAG_SAMPLES", "HEARTBEAT_S"}
LongRange == UintRange * UintRange
SomeSettings ==
    [form : {"number"}, n : {-LongRange, -1, 0, 1, UintRange, LongRange - 1, LongRange}]
    \cup [form : {"text"}, n : {0}]
SomeEnvironments == UNION {[set -> SomeSettings] : set \in SUBSET SomeKeys}
SomeLines == [key : SomeKeys, val : SomeSettings]
SomeFiles == UNION {[1..len -> SomeLines] : len \in 0..2}

ASSUME ConfigurationIsUsable ==
    \A env \in SomeEnvironments, file \in SomeFiles :
        /\ Usable(Configured(Loaded(env, file)))
        /\ LoadedForGood(env, file)
=============================================================================
