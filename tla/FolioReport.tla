----------------------------- MODULE FolioReport -----------------------------
(***************************************************************************)
(* What foliod promises the readers of its virtual device, without sensors *)
(* or timers: the context it shows was the right one when it was shown, a  *)
(* sample is reported once, and a context that is out of date is replaced. *)
(***************************************************************************)
Contexts == {"bare", "docked", "attached"}

VARIABLES seen,         \* the context the known hard signals pick
          shown,        \* the context last reported, "none" before the first
          round         \* the sample: "idle", "open", or "reported" and closing

vars == <<seen, shown, round>>

Init ==
    /\ seen \in Contexts
    /\ shown = "none"
    /\ round = "open"

(* A hard signal changes; nothing is reported in the same step.            *)
Notice ==
    /\ seen' \in Contexts
    /\ UNCHANGED <<shown, round>>

Begin ==
    /\ round = "idle"
    /\ round' = "open"
    /\ UNCHANGED <<seen, shown>>

(* The one report of a sample.  It may end the sample, or end it and begin *)
(* the next, or leave it to be closed.                                     *)
Answer ==
    /\ round = "open"
    /\ shown' = seen
    /\ round' \in {"idle", "open", "reported"}
    /\ UNCHANGED seen

(* A report of the hard signals alone, while the sensors are slow.         *)
Refresh ==
    /\ round # "idle"
    /\ shown' = seen
    /\ UNCHANGED <<seen, round>>

(* The end of a sample that was reported before: nothing is reported.      *)
End ==
    /\ round = "reported"
    /\ round' \in {"idle", "open"}
    /\ UNCHANGED <<seen, shown>>

Next == Notice \/ Begin \/ Answer \/ Refresh \/ End

Stale == shown # seen

Correct == Stale /\ (Answer \/ Refresh)
BeginWhenStale == Stale /\ Begin

Fairness == WF_vars(Correct) /\ WF_vars(BeginWhenStale)

Spec == Init /\ [][Next]_vars /\ Fairness
=============================================================================
