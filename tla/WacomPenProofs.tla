--------------------------- MODULE WacomPenProofs ---------------------------
(***************************************************************************)
(* The pen tool across sleeps and failed reads, for any number of either.  *)
(***************************************************************************)
EXTENDS WacomPen, TLAPS

(* A release is in the chip or still to be told, or a reason it never      *)
(* comes.                                                                  *)
ReleaseComes ==
    packet = "out" \/ told \/ lost \/ pm \in {"stop", "release", "removed"}

(* Suspend waits for the handler, so what it releases stays released; and  *)
(* every packet that shows the tool is one the chip has to take back.      *)
Released ==
    /\ NoToolInSleep
    /\ pm \notin {"up", "removed"} => ~irqOn /\ isr = "idle"
    /\ pm = "removed" => ~irqOn
    /\ packet = "in" => told
    /\ isr = "in" => ReleaseComes
    /\ prox => isr = "out" \/ ReleaseComes

IInv == TypeOK /\ Released

LEMMA Bounds ==
    /\ MaxMoves \in Nat /\ MaxFaults \in Nat
    /\ MaxSleeps \in Nat /\ MaxOthers \in Nat
BY WacomAssumption

LEMMA IInvImplies == IInv => NoToolInSleep /\ ToolIsReleased
BY DEF IInv, Released, ToolIsReleased, ReleaseComes

LEMMA InitIInv == Init => IInv
<1>1. SUFFICES ASSUME Init PROVE IInv
  OBVIOUS
<1>2. Flags
  BY <1>1 DEF Init, Flags
<1>3. TypeOK
  BY <1>1, <1>2, Bounds DEF Init, TypeOK, Packets
<1>4. Released
  BY <1>1 DEF Init, Released, NoToolInSleep
<1>5. QED
  BY <1>3, <1>4 DEF IInv

LEMMA ChipKeeps ==
    ASSUME IInv, PenMoves \/ ChipTells \/ ChipOther
    PROVE  IInv'
<1>1. CASE PenMoves
  <2>1. Flags'
    BY <1>1 DEF IInv, TypeOK, Flags,
                PenMoves, chip, counts
  <2>2. TypeOK'
    BY <1>1, <2>1, Bounds DEF IInv, TypeOK, Packets,
                PenMoves, chip, counts
  <2>3. Released'
    BY <1>1 DEF IInv, TypeOK, Flags, Packets, Released, NoToolInSleep, ReleaseComes,
                PenMoves, chip, counts
  <2>4. QED
    BY <2>2, <2>3 DEF IInv
<1>2. CASE ChipTells
  <2>1. Flags'
    BY <1>2 DEF IInv, TypeOK, Flags,
                ChipTells, Bit, world, counts
  <2>2. TypeOK'
    BY <1>2, <2>1, Bounds DEF IInv, TypeOK, Packets,
                ChipTells, Bit, world, counts
  <2>3. Released'
    BY <1>2 DEF IInv, TypeOK, Flags, Packets, Released, NoToolInSleep, ReleaseComes,
                ChipTells, Bit, world, counts
  <2>4. QED
    BY <2>2, <2>3 DEF IInv
<1>3. CASE ChipOther
  <2>1. Flags'
    BY <1>3 DEF IInv, TypeOK, Flags,
                ChipOther, world
  <2>2. TypeOK'
    BY <1>3, <2>1, Bounds DEF IInv, TypeOK, Packets,
                ChipOther, world
  <2>3. Released'
    BY <1>3 DEF IInv, TypeOK, Flags, Packets, Released, NoToolInSleep, ReleaseComes,
                ChipOther, world
  <2>4. QED
    BY <2>2, <2>3 DEF IInv
<1>4. QED
  BY <1>1, <1>2, <1>3

LEMMA IrqKeeps ==
    ASSUME IInv, IrqRead \/ IrqReport
    PROVE  IInv'
<1>1. CASE IrqRead
  <2>1. Flags'
    BY <1>1 DEF IInv, TypeOK, Flags,
                IrqRead, Fault, NoFault, world, counts
  <2>2. TypeOK'
    BY <1>1, <2>1, Bounds DEF IInv, TypeOK, Packets,
                IrqRead, Fault, NoFault, world, counts
  <2>3. Released'
    BY <1>1 DEF IInv, TypeOK, Flags, Packets, Released, NoToolInSleep, ReleaseComes,
                IrqRead, Fault, NoFault, world, counts
  <2>4. QED
    BY <2>2, <2>3 DEF IInv
<1>2. CASE IrqReport
  <2>1. Flags'
    BY <1>2 DEF IInv, TypeOK, Flags,
                IrqReport, world, chip, counts
  <2>2. TypeOK'
    BY <1>2, <2>1, Bounds DEF IInv, TypeOK, Packets,
                IrqReport, world, chip, counts
  <2>3. Released'
    BY <1>2 DEF IInv, TypeOK, Flags, Packets, Released, NoToolInSleep, ReleaseComes,
                IrqReport, world, chip, counts
  <2>4. QED
    BY <2>2, <2>3 DEF IInv
<1>3. QED
  BY <1>1, <1>2

LEMMA SuspendKeeps ==
    ASSUME IInv, SuspendDisable \/ SuspendStop \/ SuspendRelease
    PROVE  IInv'
<1>1. CASE SuspendDisable
  <2>1. Flags'
    BY <1>1 DEF IInv, TypeOK, Flags,
                SuspendDisable, SleepFrame, StillFrame, world
  <2>2. TypeOK'
    BY <1>1, <2>1, Bounds DEF IInv, TypeOK, Packets,
                SuspendDisable, SleepFrame, StillFrame, world
  <2>3. Released'
    BY <1>1 DEF IInv, TypeOK, Flags, Packets, Released, NoToolInSleep, ReleaseComes,
                SuspendDisable, SleepFrame, StillFrame, world
  <2>4. QED
    BY <2>2, <2>3 DEF IInv
<1>2. CASE SuspendStop
  <2>1. Flags'
    BY <1>2 DEF IInv, TypeOK, Flags,
                SuspendStop, StillFrame, Fault, NoFault, Bit, world
  <2>2. TypeOK'
    BY <1>2, <2>1, Bounds DEF IInv, TypeOK, Packets,
                SuspendStop, StillFrame, Fault, NoFault, Bit, world
  <2>3. Released'
    BY <1>2 DEF IInv, TypeOK, Flags, Packets, Released, NoToolInSleep, ReleaseComes,
                SuspendStop, StillFrame, Fault, NoFault, Bit, world
  <2>4. QED
    BY <2>2, <2>3 DEF IInv
<1>3. CASE SuspendRelease
  <2>1. Flags'
    BY <1>3 DEF IInv, TypeOK, Flags,
                SuspendRelease, SleepFrame, StillFrame, world
  <2>2. TypeOK'
    BY <1>3, <2>1, Bounds DEF IInv, TypeOK, Packets,
                SuspendRelease, SleepFrame, StillFrame, world
  <2>3. Released'
    BY <1>3 DEF IInv, TypeOK, Flags, Packets, Released, NoToolInSleep, ReleaseComes,
                SuspendRelease, SleepFrame, StillFrame, world
  <2>4. QED
    BY <2>2, <2>3 DEF IInv
<1>4. QED
  BY <1>1, <1>2, <1>3

LEMMA ResumeKeeps ==
    ASSUME IInv, ResumeExit \/ ResumeStart \/ ResumeEnable
    PROVE  IInv'
<1>1. CASE ResumeExit
  <2>1. Flags'
    BY <1>1 DEF IInv, TypeOK, Flags,
                ResumeExit, SleepFrame, StillFrame, world
  <2>2. TypeOK'
    BY <1>1, <2>1, Bounds DEF IInv, TypeOK, Packets,
                ResumeExit, SleepFrame, StillFrame, world
  <2>3. Released'
    BY <1>1 DEF IInv, TypeOK, Flags, Packets, Released, NoToolInSleep, ReleaseComes,
                ResumeExit, SleepFrame, StillFrame, world
  <2>4. QED
    BY <2>2, <2>3 DEF IInv
<1>2. CASE ResumeStart
  <2>1. Flags'
    BY <1>2 DEF IInv, TypeOK, Flags,
                ResumeStart, Fault, NoFault, SleepFrame, StillFrame, world
  <2>2. TypeOK'
    BY <1>2, <2>1, Bounds DEF IInv, TypeOK, Packets,
                ResumeStart, Fault, NoFault, SleepFrame, StillFrame, world
  <2>3. Released'
    BY <1>2 DEF IInv, TypeOK, Flags, Packets, Released, NoToolInSleep, ReleaseComes,
                ResumeStart, Fault, NoFault, SleepFrame, StillFrame, world
  <2>4. QED
    BY <2>2, <2>3 DEF IInv
<1>3. CASE ResumeEnable
  <2>1. Flags'
    BY <1>3 DEF IInv, TypeOK, Flags,
                ResumeEnable, SleepFrame, StillFrame, world
  <2>2. TypeOK'
    BY <1>3, <2>1, Bounds DEF IInv, TypeOK, Packets,
                ResumeEnable, SleepFrame, StillFrame, world
  <2>3. Released'
    BY <1>3 DEF IInv, TypeOK, Flags, Packets, Released, NoToolInSleep, ReleaseComes,
                ResumeEnable, SleepFrame, StillFrame, world
  <2>4. QED
    BY <2>2, <2>3 DEF IInv
<1>4. QED
  BY <1>1, <1>2, <1>3

LEMMA RemoveKeeps == ASSUME IInv, Remove PROVE IInv'
BY DEF Remove, IInv, TypeOK, Flags, Packets, Released, NoToolInSleep, ReleaseComes,
       world, counts

LEMMA StepKeeps == IInv /\ [Next]_vars => IInv'
<1>1. SUFFICES ASSUME IInv, [Next]_vars PROVE IInv'
  OBVIOUS
<1>2. CASE Next
  BY <1>1, <1>2, ChipKeeps, IrqKeeps, SuspendKeeps, ResumeKeeps, RemoveKeeps
     DEF Next, Sleep
<1>3. CASE UNCHANGED vars
  BY <1>1, <1>3 DEF IInv, TypeOK, Flags, Released, NoToolInSleep, ReleaseComes,
                    vars, world, chip, counts
<1>4. QED
  BY <1>1, <1>2, <1>3

LEMMA AlwaysIInv == Spec => []IInv
BY InitIInv, StepKeeps, PTL DEF Spec

(* Every variable of the pen driver has its type.                          *)
THEOREM TypeCorrect == Spec => []TypeOK
<1>1. IInv => TypeOK
  BY DEF IInv
<1>2. QED
  BY AlwaysIInv, <1>1, PTL

(* Nothing shows the tool during a sleep: neither a packet read before it  *)
(* nor one the STOP raised.                                                *)
THEOREM SleepShowsNoTool == Spec => []NoToolInSleep
BY AlwaysIInv, IInvImplies, PTL

(* A tool that is shown without a pen has its release on the way, unless a *)
(* failed read took it.                                                    *)
THEOREM ToolGoesWithPen == Spec => []ToolIsReleased
BY AlwaysIInv, IInvImplies, PTL
=============================================================================
