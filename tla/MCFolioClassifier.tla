-------------------------- MODULE MCFolioClassifier --------------------------
(***************************************************************************)
(* The classifier fed the rows of the 2026-09-22 table (folio_state.c:7-14) *)
(* in every combination with the hard signals, as happens when a sample    *)
(* straddles a transition.  MCInputs are in units of 25 microtesla, with   *)
(* the thresholds of FolioClassifier.cfg; MCSlowCloseInputs are in         *)
(* microtesla, with the shipped thresholds.                                *)
(***************************************************************************)
EXTENDS FolioClassifier

Row(z, x) == [z |-> z, x |-> x]

ScaledRows == {Row(5, 8),       \* bare, pen away
               Row(14, 6),      \* bare, pen on the strip
               Row(4, 6),       \* bare, pen reversed
               Row(-12, 0),     \* docked, pen away
               Row(-2, 0),      \* docked, pen on the strip
               Row(-17, 0),     \* docked, at the far edge of the window
               Row(-19, 0)}     \* folio closed

SlowClose == {Row(-305, 0), Row(-380, 0), Row(-450, 0), Row(-477, 0)}

H(kb, h23, h169) == [kb |-> kb, hall23 |-> h23, hall169 |-> h169]

Hards == {H(TRUE, FALSE, FALSE), H(TRUE, TRUE, FALSE), H(FALSE, TRUE, FALSE),
          H(FALSE, FALSE, FALSE), H(FALSE, FALSE, TRUE)}

(* The light sample matters in the attached context only.                  *)
Brights(h) == IF PickContext(h) = "attached" THEN BOOLEAN ELSE {FALSE}

Readable(rows) ==
    UNION {{[hard |-> h, magValid |-> TRUE, mag |-> r, bright |-> b,
             absent |-> FALSE] : r \in rows, b \in Brights(h)} : h \in Hards}

Missed ==
    UNION {{[hard |-> h, magValid |-> FALSE, mag |-> Row(0, 0), bright |-> b,
             absent |-> a] : a \in BOOLEAN, b \in Brights(h)} : h \in Hards}

MCInputs == Readable(ScaledRows) \cup Missed
MCSlowCloseInputs == Readable(SlowClose)

ScaledZDocked == -12
TableZDocked == -305
=============================================================================
