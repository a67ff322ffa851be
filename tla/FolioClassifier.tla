--------------------------- MODULE FolioClassifier ---------------------------
(***************************************************************************)
(* The classifier driven by any sequence of inputs, the way foliod and     *)
(* test_folio_state.c drive folio_state_step.                              *)
(***************************************************************************)
EXTENDS FolioState

CONSTANT Inputs                 \* the inputs a step may be given

ASSUME InputsAssumption == Inputs \subseteq Input

VARIABLES st,                   \* struct folio_state
          in,                   \* the input of the last step
          forgotten,            \* the pen_forgotten output of the last step
          suspected             \* history: the last reading of this bare stay
                                \* looked reversed

vars == <<st, in, forgotten, suspected>>

TypeOK ==
    /\ st \in State
    /\ in \in Input
    /\ forgotten \in BOOLEAN
    /\ suspected \in BOOLEAN

(* Before the first step there is no input: a bare tablet stands in.       *)
NoInput == [hard |-> [kb |-> FALSE, hall23 |-> FALSE, hall169 |-> FALSE],
            magValid |-> FALSE, mag |-> [z |-> 0, x |-> 0],
            bright |-> FALSE, absent |-> FALSE]

(* A reading in the place of a reversed pen, against the bare baseline of  *)
(* its time.                                                               *)
LooksReversed(s, i) ==
    LET dz == i.mag.z - s.base["bare"].z
        dx == i.mag.x - s.base["bare"].x
    IN  i.magValid /\ dz < PenDzBare /\ dz <= -ReversedDz /\ dx <= -ReversedDx

Init == st = InitState /\ in = NoInput /\ forgotten = FALSE /\ suspected = FALSE

Classify(i) ==
    /\ in' = i
    /\ st' = Step(st, i)
    /\ forgotten' = PenForgotten(st, st')
    /\ suspected' = /\ PickContext(i.hard) = "bare"
                    /\ \/ LooksReversed(st, i)
                       \/ ~i.magValid /\ st.prev = "bare" /\ suspected

Next == \E i \in Inputs : Classify(i)

Spec == Init /\ [][Next]_vars

-----------------------------------------------------------------------------
(* A baseline sits at most baseline_window from its seed, however long the *)
(* moving average has been fed, and the attached seed at most as far from  *)
(* the docked one: folio_state.h:67, "a baseline may sit at most this far  *)
(* from its seed on Z".                                                    *)
BaselinesNearSeeds == NearSeeds(st)

(* A closed lid always has a magnet behind it: hall 169, or hall 23 with   *)
(* the keyboard off the pins and no light on the sensor.  Neither a held   *)
(* lid nor the fallback may outlive the context that justified it.         *)
ClosedLidHasMagnet ==
    st.lid => \/ in.hard.hall169
              \/ in.hard.hall23 /\ ~in.hard.kb /\ ~in.bright

(* A reversed pen is announced only by the second of two readings in a row *)
(* that look so, both of one stay in the bare context: "it needs two       *)
(* consecutive samples" (folio_state.c:42-44).  A sample without a reading *)
(* in between neither counts nor breaks the pair.                          *)
ReversedNeedsTwoReadings ==
    [][st'.penReversed /\ ~st.penReversed =>
         /\ st.prev = "bare" /\ suspected
         /\ PickContext(in'.hard) = "bare" /\ LooksReversed(st, in')]_vars

-----------------------------------------------------------------------------
(* What the comment says and the code does not do.                         *)

(* folio_state.c:35-37: a transitional reading cannot become the baseline, *)
(* and test_folio_state.c:350-351: the closed reading that follows still   *)
(* reads closed.  The window is wider than closed_dz, so readings of a     *)
(* slow close pull the attached baseline down until closed reads open.     *)
ClosedReading(z) == z <= BaseZDocked - 2 * ClosedDz

ClosedReadingReadsClosed ==
    /\ st.prev = "attached" /\ in.magValid /\ ~in.bright
    /\ st.base["docked"].z = BaseZDocked
    /\ ClosedReading(in.mag.z)
    => st.lid
=============================================================================
