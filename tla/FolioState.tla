----------------------------- MODULE FolioState -----------------------------
(***************************************************************************)
(* The folio, lid and pen classifier of foliod, folio_state.c: pure        *)
(* operators from a classifier state and one set of inputs to the next     *)
(* state.  Readings are integers in microtesla; the exponential average    *)
(* of learn() rounds down to a whole microtesla, which keeps it between    *)
(* the old baseline and the reading, as the float does.                    *)
(*                                                                         *)
(* Left out: the x of the docked and attached baselines, which the code    *)
(* learns and never reads, and the last_* diagnostics.  The two streak     *)
(* counters stop at the value they are compared with.  The lux value is    *)
(* reduced to what is asked of it: valid and above light_veto_lux.         *)
(***************************************************************************)
EXTENDS Integers

CONSTANTS
    PenDzBare, PenDzDocked,     \* dZ from which a pen is on the strip
    ReversedDz, ReversedDx,     \* how far below the baseline a reversed pen is
    ClosedDz,                   \* how far below the baseline a closed folio is
    BaseZBare, BaseXBare,       \* seeds of the bare baseline
    BaseZDocked,                \* seed of the docked baseline
    BaselineWindow,             \* farthest a learned reading is from its seed
    FallbackAfter               \* steps without a reading before hall 23 decides

ASSUME ConfigAssumption ==
    /\ {PenDzBare, PenDzDocked, ReversedDz, ReversedDx, ClosedDz,
        BaseZBare, BaseXBare, BaseZDocked} \subseteq Int
    /\ BaselineWindow \in Nat
    /\ FallbackAfter \in Nat \ {0}

Contexts == {"bare", "docked", "attached"}
PenSeen == {"unknown", "absent", "present"}

Reading == [z : Int, x : Int]

Hard == [kb : BOOLEAN, hall23 : BOOLEAN, hall169 : BOOLEAN]

(* bright: the light sample is valid and above light_veto_lux.             *)
Input == [hard : Hard, magValid : BOOLEAN, mag : Reading,
          bright : BOOLEAN, absent : BOOLEAN]

Baseline == [z : Int, x : Int, seed : Int, learned : BOOLEAN]

(* prev is the context of the last step, "none" before the first; lid,     *)
(* penDocked and penReversed are the last output.                          *)
State == [base : [Contexts -> Baseline],
          prev : Contexts \cup {"none"},
          lid : BOOLEAN, penDocked : BOOLEAN, penReversed : BOOLEAN,
          lastOpenPen : PenSeen,
          revStreak : 0..2, failStreak : 0..FallbackAfter]

Seeded(z, x) == [z |-> z, x |-> x, seed |-> z, learned |-> FALSE]

InitState ==
    [base |-> [c \in Contexts |-> IF c = "bare" THEN Seeded(BaseZBare, BaseXBare)
                                                ELSE Seeded(BaseZDocked, 0)],
     prev |-> "none",
     lid |-> FALSE, penDocked |-> FALSE, penReversed |-> FALSE,
     lastOpenPen |-> "unknown",
     revStreak |-> 0, failStreak |-> 0]

Capped(n, cap) == IF n < cap THEN n + 1 ELSE cap

-----------------------------------------------------------------------------
PickContext(hard) ==
    IF hard.kb THEN "docked" ELSE IF hard.hall23 THEN "attached" ELSE "bare"

(* Broken form: the window follows the baseline instead of the seed.       *)
InWindowOfBaseline(b, z) == z - b.z <= BaselineWindow /\ b.z - z <= BaselineWindow

InWindow(b, z) == z - b.seed <= BaselineWindow /\ b.seed - z <= BaselineWindow

(* learn(): the first open, no-pen reading in a context sets the baseline, *)
(* later ones move it by an eighth; far from the seed none is learned.     *)
Learn(b, z, x) ==
    IF ~InWindow(b, z) THEN b
    ELSE [b EXCEPT !.z = IF b.learned THEN @ + (z - @) \div 8 ELSE z,
                   !.x = IF b.learned THEN @ + (x - @) \div 8 ELSE x,
                   !.learned = TRUE]

LearnIf(cond, b, z, x) == IF cond THEN Learn(b, z, x) ELSE b

(* Broken form: the reversed streak survives a trip through another        *)
(* context.                                                                *)
EnterKeepingStreak(s, c) ==
    IF s.prev = c THEN s
    ELSE [s EXCEPT !.base[c] = [@ EXCEPT !.learned = FALSE]]

(* A context change starts the learning of the new context over; the       *)
(* attached baseline is seeded from what the docked one has become.        *)
Enter(s, c) ==
    IF s.prev = c THEN s
    ELSE [s EXCEPT
            !.revStreak = 0,
            !.base[c] = IF c = "attached" THEN Seeded(s.base["docked"].z, 0)
                                          ELSE [@ EXCEPT !.learned = FALSE]]

-----------------------------------------------------------------------------
(* One operator per arm of the switch in folio_state_step.                 *)

(* Broken form: the keyboard no longer means open.                         *)
DockedHoldingLid(s, in) == [s EXCEPT !.penReversed = FALSE]

Docked(s, in) ==
    LET open == [s EXCEPT !.lid = FALSE, !.penReversed = FALSE]
        pen == in.mag.z - s.base["docked"].z >= PenDzDocked
    IN  IF ~in.magValid THEN open
        ELSE [open EXCEPT !.penDocked = pen,
                          !.base["docked"] = LearnIf(~pen, @, in.mag.z, 0)]

Bare(s, in) ==
    LET open == [s EXCEPT !.lid = FALSE]
        dz == in.mag.z - s.base["bare"].z
        dx == in.mag.x - s.base["bare"].x
        pen == dz >= PenDzBare
        looksReversed == ~pen /\ dz <= -ReversedDz /\ dx <= -ReversedDx
        streak == IF looksReversed THEN Capped(s.revStreak, 2) ELSE 0
        rev == streak = 2
    IN  IF ~in.magValid THEN open
        ELSE [open EXCEPT !.penDocked = pen,
                          !.penReversed = rev,
                          !.revStreak = streak,
                          !.base["bare"] =
                              LearnIf(~pen /\ ~rev, @, in.mag.z, in.mag.x)]

(* Without a reading the lid holds, until FallbackAfter steps in a row     *)
(* have had none or the daemon has no magnetometer object.                 *)
Attached(s, in) ==
    LET magClosed ==
          IF in.magValid
          THEN in.mag.z - s.base["attached"].z <= -ClosedDz
          ELSE in.absent \/ s.failStreak >= FallbackAfter \/ s.lid
    IN  [s EXCEPT !.lid = magClosed /\ ~in.bright,
                  !.base["attached"] =
                      LearnIf(in.magValid /\ ~magClosed, @, in.mag.z, 0)]

Count(s, in) ==
    [s EXCEPT !.failStreak = IF in.magValid THEN 0 ELSE Capped(@, FallbackAfter)]

(* folio_state_step: the whole step, hall 169 last.                        *)
Step(s, in) ==
    LET c == PickContext(in.hard)
        e == Enter(Count(s, in), c)
        r == CASE c = "docked" -> Docked(e, in)
               [] c = "bare" -> Bare(e, in)
               [] c = "attached" -> Attached(e, in)
        lid == r.lid \/ in.hard.hall169
        penSeen == in.magValid /\ c # "attached"
    IN  [r EXCEPT !.prev = c,
                  !.lid = lid,
                  !.lastOpenPen = IF ~lid /\ penSeen
                                  THEN IF r.penDocked THEN "present" ELSE "absent"
                                  ELSE @]

(* The pen_forgotten output of the step from s to t.                       *)
PenForgotten(s, t) == t.lid /\ ~s.lid /\ t.lastOpenPen = "absent"

-----------------------------------------------------------------------------
(* What every reachable state keeps.                                       *)
Near(z, w) == z - w <= BaselineWindow /\ w - z <= BaselineWindow

NearSeeds(s) ==
    /\ \A c \in Contexts : Near(s.base[c].z, s.base[c].seed)
    /\ s.base["bare"].seed = BaseZBare
    /\ s.base["docked"].seed = BaseZDocked
    /\ Near(s.base["attached"].seed, BaseZDocked)
=============================================================================
