---------------------------- MODULE StmPogoProofs ----------------------------
(***************************************************************************)
(* The keyboard driver's safety, for any number of edges of the conn line: *)
(* who holds the mutex where, what a session has, what brings the driver   *)
(* to the line's level, and what remove leaves.                            *)
(***************************************************************************)
EXTENDS StmPogo, TLAPS

Stops == connPc = Stopping \/ initPc = Stopping \/ removePc = Stopping

(* The mutex has the owner its program counters say.                       *)
Owners ==
    /\ lock = "conn" <=> connPc \in {"boot", "arm", Stopping}
    /\ lock = "init" <=> initPc = Stopping
    /\ lock = "ic" <=> icPc \in {"mode", "probe"}
    /\ lock = "remove" <=> removePc = Stopping

(* A session begins at ConnAttach, is open between ConnEnable and          *)
(* StopBegin, and all that belongs to it is gone at StopEnd.               *)
Sessions ==
    /\ irqOn => started
    /\ started => rail
    /\ rail => started \/ Stops \/ connPc = "boot"
    /\ Stops \/ connPc = "boot" => rail /\ ~started
    /\ connPc = "arm" => started
    /\ icPc \in {"mode", "probe"} => started /\ shook
    /\ handshaken => shook
    /\ kbd \/ tp => shook
    /\ kbd \/ tp \/ attnIsr # "idle" \/ "ic" \in queued => started \/ Stops
    /\ "key" \in held => kbd
    /\ "finger" \in held => tp

EdgeComing == connPending \/ connIsr # "idle" \/ "conn" \in queued

(* A conn_work that read a level the line has left has another run coming. *)
Follows ==
    /\ connPc \in {"boot", "arm"} => connState
    /\ connPc = Stopping => ~connState
    /\ removePc = "none" /\ connPc # "idle" /\ ~(connState <=> conn) => EdgeComing
    /\ removePc = "none" /\ ~(started <=> conn) =>
          EdgeComing \/ connPc # "idle" \/ gaveUp
    /\ removePc = "none" /\ initPc = Stopping =>
          EdgeComing \/ connPc # "idle" \/ gaveUp

(* remove cancels what could queue the next work before that work.         *)
Drains ==
    /\ removePc # "none" => connIsr = "idle"
    /\ removePc \in {"init", "ic", "lock", Stopping, "removed"} =>
          connPc = "idle" /\ "conn" \notin queued
    /\ removePc \in {"ic", "lock", Stopping, "removed"} =>
          initPc = "idle" /\ "init" \notin queued
    /\ removePc = "removed" => ~started

IInv == TypeOK /\ Owners /\ Sessions /\ Follows /\ Drains

(* The handler of the conn line.                                           *)
LEMMA ConnHandlerKeeps ==
    ASSUME IInv,
           ConnCancel \/ ConnSchedule
    PROVE  IInv'
<1>1. CASE ConnCancel
  <2>1. Flags'
    BY <1>1, ZenonT(30) DEF IInv, TypeOK, Flags, ConnCancel, lineVars, connVars,
           session, devices
  <2>2. TypeOK'
    BY <1>1, <2>1, PogoAssumption DEF IInv, TypeOK, Works, Threads, Stopping,
           ConnCancel, lineVars, connVars, session, devices
  <2>3. Owners'
    BY <1>1 DEF IInv, Owners, Stopping, TypeOK, Threads, Works, ConnCancel,
           lineVars, connVars, session, devices
  <2>4. Sessions'
    BY <1>1 DEF IInv, TypeOK, Owners, Sessions, Stops, Stopping, ConnCancel,
           lineVars, connVars, session, devices
  <2>5. Follows'
    BY <1>1 DEF IInv, TypeOK, Flags, Owners, Sessions, Follows, EdgeComing,
           Stops, Stopping, ConnCancel, lineVars, connVars, session, devices
  <2>6. Drains'
    BY <1>1 DEF IInv, TypeOK, Owners, Sessions, Drains, Stops, Stopping,
           ConnCancel, lineVars, connVars, session, devices
  <2>7. QED
    BY <2>2, <2>3, <2>4, <2>5, <2>6 DEF IInv
<1>2. CASE ConnSchedule
  <2>1. Flags'
    BY <1>2 DEF IInv, TypeOK, Flags, ConnSchedule, lineVars, connVars,
           session, devices
  <2>2. TypeOK'
    BY <1>2, <2>1, PogoAssumption DEF IInv, TypeOK, Works, Threads, Stopping,
           ConnSchedule, lineVars, connVars, session, devices
  <2>3. Owners'
    BY <1>2 DEF IInv, Owners, Stopping, TypeOK, Threads, Works, ConnSchedule,
           lineVars, connVars, session, devices
  <2>4. Sessions'
    BY <1>2 DEF IInv, TypeOK, Owners, Sessions, Stops, Stopping, ConnSchedule,
           lineVars, connVars, session, devices
  <2>5. Follows'
    BY <1>2 DEF IInv, TypeOK, Flags, Owners, Sessions, Follows, EdgeComing,
           Stops, Stopping, ConnSchedule, lineVars, connVars, session, devices
  <2>6. Drains'
    BY <1>2 DEF IInv, TypeOK, Owners, Sessions, Drains, Stops, Stopping,
           ConnSchedule, lineVars, connVars, session, devices
  <2>7. QED
    BY <2>2, <2>3, <2>4, <2>5, <2>6 DEF IInv
<1>3. QED
  BY <1>1, <1>2

(* Attach and detach.                                                      *)
LEMMA ConnWorkKeeps ==
    ASSUME IInv,
           ConnRun \/ ConnDetach \/ ConnStopped
              \/ ConnAttach \/ ConnEnable \/ ConnArm
    PROVE  IInv'
<1>1. CASE ConnRun
  <2>1. Flags'
    BY <1>1 DEF IInv, TypeOK, Flags, ConnRun, lineVars, connVars, session,
           devices
  <2>2. TypeOK'
    BY <1>1, <2>1, PogoAssumption DEF IInv, TypeOK, Works, Threads, Stopping,
           ConnRun, lineVars, connVars, session, devices
  <2>3. Owners'
    BY <1>1 DEF IInv, Owners, Stopping, TypeOK, Threads, Works, ConnRun,
           lineVars, connVars, session, devices
  <2>4. Sessions'
    BY <1>1 DEF IInv, TypeOK, Owners, Sessions, Stops, Stopping, ConnRun,
           lineVars, connVars, session, devices
  <2>5. Follows'
    BY <1>1 DEF IInv, TypeOK, Flags, Owners, Sessions, Follows, EdgeComing,
           Stops, Stopping, ConnRun, lineVars, connVars, session, devices
  <2>6. Drains'
    BY <1>1 DEF IInv, TypeOK, Owners, Sessions, Drains, Stops, Stopping,
           ConnRun, lineVars, connVars, session, devices
  <2>7. QED
    BY <2>2, <2>3, <2>4, <2>5, <2>6 DEF IInv
<1>2. CASE ConnDetach
  <2>1. Flags'
    BY <1>2, ZenonT(30) DEF IInv, TypeOK, Flags, ConnDetach, StopBegin, lineVars,
           connVars, session, devices
  <2>2. TypeOK'
    BY <1>2, <2>1, PogoAssumption DEF IInv, TypeOK, Works, Threads, Stopping,
           ConnDetach, StopBegin, lineVars, connVars, session, devices
  <2>3. Owners'
    BY <1>2 DEF IInv, Owners, Stopping, TypeOK, Threads, Works, ConnDetach,
           StopBegin, lineVars, connVars, session, devices
  <2>4. Sessions'
    BY <1>2 DEF IInv, TypeOK, Owners, Sessions, Stops, Stopping, ConnDetach,
           StopBegin, lineVars, connVars, session, devices
  <2>5. Follows'
    BY <1>2 DEF IInv, TypeOK, Flags, Owners, Sessions, Follows, EdgeComing,
           Stops, Stopping, ConnDetach, StopBegin, lineVars, connVars,
           session, devices
  <2>6. Drains'
    BY <1>2 DEF IInv, TypeOK, Owners, Sessions, Drains, Stops, Stopping,
           ConnDetach, StopBegin, lineVars, connVars, session, devices
  <2>7. QED
    BY <2>2, <2>3, <2>4, <2>5, <2>6 DEF IInv
<1>3. CASE ConnStopped
  <2>1. Flags'
    BY <1>3 DEF IInv, TypeOK, Flags, ConnStopped, StopEnd, lineVars, connVars,
           session, devices
  <2>2. TypeOK'
    BY <1>3, <2>1, PogoAssumption DEF IInv, TypeOK, Works, Threads, Stopping,
           ConnStopped, StopEnd, lineVars, connVars, session, devices
  <2>3. Owners'
    BY <1>3 DEF IInv, Owners, Stopping, TypeOK, Threads, Works, ConnStopped,
           StopEnd, lineVars, connVars, session, devices
  <2>4. Sessions'
    BY <1>3 DEF IInv, TypeOK, Owners, Sessions, Stops, Stopping, ConnStopped,
           StopEnd, lineVars, connVars, session, devices
  <2>5. Follows'
    BY <1>3 DEF IInv, TypeOK, Flags, Owners, Sessions, Follows, EdgeComing,
           Stops, Stopping, ConnStopped, StopEnd, lineVars, connVars, session,
           devices
  <2>6. Drains'
    BY <1>3 DEF IInv, TypeOK, Owners, Sessions, Drains, Stops, Stopping,
           ConnStopped, StopEnd, lineVars, connVars, session, devices
  <2>7. QED
    BY <2>2, <2>3, <2>4, <2>5, <2>6 DEF IInv
<1>4. CASE ConnAttach
  <2>1. Flags'
    <3>1. /\ UNCHANGED <<conn, connPending, connState, kbd, tp, shook, staleWatch>>
          /\ UNCHANGED <<started, handshaken, irqOn>>
      BY <1>4, Zenon DEF ConnAttach, lineVars, devices
    <3>2. rail' \in {rail, TRUE} /\ gaveUp' \in {gaveUp, TRUE}
      BY <1>4, Zenon DEF ConnAttach
    <3>3. rail' \in BOOLEAN /\ gaveUp' \in BOOLEAN
      BY <3>2, Zenon DEF IInv, TypeOK, Flags
    <3> QED
      BY <3>1, <3>3, Zenon DEF IInv, TypeOK, Flags
  <2>2. TypeOK'
    BY <1>4, <2>1, PogoAssumption DEF IInv, TypeOK, Works, Threads, Stopping,
           ConnAttach, lineVars, connVars, session, devices
  <2>3. Owners'
    BY <1>4 DEF IInv, Owners, Stopping, TypeOK, Threads, Works, ConnAttach,
           lineVars, connVars, session, devices
  <2>4. Sessions'
    BY <1>4 DEF IInv, TypeOK, Owners, Sessions, Stops, Stopping, ConnAttach,
           lineVars, connVars, session, devices
  <2>5. Follows'
    BY <1>4 DEF IInv, TypeOK, Flags, Owners, Sessions, Follows, EdgeComing,
           Stops, Stopping, ConnAttach, lineVars, connVars, session, devices
  <2>6. Drains'
    BY <1>4 DEF IInv, TypeOK, Owners, Sessions, Drains, Stops, Stopping,
           ConnAttach, lineVars, connVars, session, devices
  <2>7. QED
    BY <2>2, <2>3, <2>4, <2>5, <2>6 DEF IInv
<1>5. CASE ConnEnable
  <2>1. Flags'
    BY <1>5 DEF IInv, TypeOK, Flags, ConnEnable, lineVars, connVars, session,
           devices
  <2>2. TypeOK'
    BY <1>5, <2>1, PogoAssumption DEF IInv, TypeOK, Works, Threads, Stopping,
           ConnEnable, lineVars, connVars, session, devices
  <2>3. Owners'
    BY <1>5 DEF IInv, Owners, Stopping, TypeOK, Threads, Works, ConnEnable,
           lineVars, connVars, session, devices
  <2>4. Sessions'
    BY <1>5 DEF IInv, TypeOK, Owners, Sessions, Stops, Stopping, ConnEnable,
           lineVars, connVars, session, devices
  <2>5. Follows'
    BY <1>5 DEF IInv, TypeOK, Flags, Owners, Sessions, Follows, EdgeComing,
           Stops, Stopping, ConnEnable, lineVars, connVars, session, devices
  <2>6. Drains'
    BY <1>5 DEF IInv, TypeOK, Owners, Sessions, Drains, Stops, Stopping,
           ConnEnable, lineVars, connVars, session, devices
  <2>7. QED
    BY <2>2, <2>3, <2>4, <2>5, <2>6 DEF IInv
<1>6. CASE ConnArm
  <2>1. Flags'
    BY <1>6 DEF IInv, TypeOK, Flags, ConnArm, lineVars, connVars, session,
           devices
  <2>2. TypeOK'
    BY <1>6, <2>1, PogoAssumption DEF IInv, TypeOK, Works, Threads, Stopping,
           ConnArm, lineVars, connVars, session, devices
  <2>3. Owners'
    BY <1>6 DEF IInv, Owners, Stopping, TypeOK, Threads, Works, ConnArm,
           lineVars, connVars, session, devices
  <2>4. Sessions'
    BY <1>6 DEF IInv, TypeOK, Owners, Sessions, Stops, Stopping, ConnArm,
           lineVars, connVars, session, devices
  <2>5. Follows'
    BY <1>6 DEF IInv, TypeOK, Flags, Owners, Sessions, Follows, EdgeComing,
           Stops, Stopping, ConnArm, lineVars, connVars, session, devices
  <2>6. Drains'
    BY <1>6 DEF IInv, TypeOK, Owners, Sessions, Drains, Stops, Stopping,
           ConnArm, lineVars, connVars, session, devices
  <2>7. QED
    BY <2>2, <2>3, <2>4, <2>5, <2>6 DEF IInv
<1>7. QED
  BY <1>1, <1>2, <1>3, <1>4, <1>5, <1>6

(* The watchdog.                                                           *)
LEMMA InitWorkKeeps ==
    ASSUME IInv,
           InitFires \/ InitCheck \/ InitStopped
    PROVE  IInv'
<1>1. CASE InitFires
  <2>1. Flags'
    BY <1>1, ZenonT(30) DEF IInv, TypeOK, Flags, InitFires, lineVars, connVars,
           session, devices
  <2>2. TypeOK'
    BY <1>1, <2>1, PogoAssumption DEF IInv, TypeOK, Works, Threads, Stopping,
           InitFires, lineVars, connVars, session, devices
  <2>3. Owners'
    BY <1>1 DEF IInv, Owners, Stopping, TypeOK, Threads, Works, InitFires,
           lineVars, connVars, session, devices
  <2>4. Sessions'
    BY <1>1 DEF IInv, TypeOK, Owners, Sessions, Stops, Stopping, InitFires,
           lineVars, connVars, session, devices
  <2>5. Follows'
    BY <1>1 DEF IInv, TypeOK, Flags, Owners, Sessions, Follows, EdgeComing,
           Stops, Stopping, InitFires, lineVars, connVars, session, devices
  <2>6. Drains'
    BY <1>1 DEF IInv, TypeOK, Owners, Sessions, Drains, Stops, Stopping,
           InitFires, lineVars, connVars, session, devices
  <2>7. QED
    BY <2>2, <2>3, <2>4, <2>5, <2>6 DEF IInv
<1>2. CASE InitCheck
  <2>1. Flags'
    <3>1. /\ UNCHANGED <<conn, connPending, connState, rail>>
          /\ UNCHANGED <<kbd, tp, shook, staleWatch>>
      BY <1>2, Zenon DEF InitCheck, StopBegin, lineVars, connVars, session, devices
    <3>2. /\ started' \in {started, FALSE} /\ handshaken' \in {handshaken, FALSE}
          /\ irqOn' \in {irqOn, FALSE} /\ gaveUp' \in {gaveUp, TRUE}
      BY <1>2, Zenon DEF InitCheck, StopBegin, session
    <3>3. /\ started' \in BOOLEAN /\ handshaken' \in BOOLEAN
          /\ irqOn' \in BOOLEAN /\ gaveUp' \in BOOLEAN
      BY <3>2, Zenon DEF IInv, TypeOK, Flags
    <3> QED
      BY <3>1, <3>3, Zenon DEF IInv, TypeOK, Flags
  <2>2. TypeOK'
    BY <1>2, <2>1, PogoAssumption, ZenonT(30) DEF IInv, TypeOK, Works, Threads,
           Stopping, InitCheck, StopBegin, lineVars, connVars, session, devices
  <2>3. Owners'
    BY <1>2 DEF IInv, Owners, Stopping, TypeOK, Threads, Works, InitCheck,
           StopBegin, lineVars, connVars, session, devices
  <2>4. Sessions'
    BY <1>2 DEF IInv, TypeOK, Owners, Sessions, Stops, Stopping, InitCheck,
           StopBegin, lineVars, connVars, session, devices
  <2>5. Follows'
    BY <1>2 DEF IInv, TypeOK, Flags, Owners, Sessions, Follows, EdgeComing,
           Stops, Stopping, InitCheck, StopBegin, lineVars, connVars, session,
           devices
  <2>6. Drains'
    BY <1>2 DEF IInv, TypeOK, Owners, Sessions, Drains, Stops, Stopping,
           InitCheck, StopBegin, lineVars, connVars, session, devices
  <2>7. QED
    BY <2>2, <2>3, <2>4, <2>5, <2>6 DEF IInv
<1>3. CASE InitStopped
  <2>1. Flags'
    BY <1>3 DEF IInv, TypeOK, Flags, InitStopped, StopEnd, lineVars, connVars,
           session, devices
  <2>2. TypeOK'
    BY <1>3, <2>1, PogoAssumption DEF IInv, TypeOK, Works, Threads, Stopping,
           InitStopped, StopEnd, lineVars, connVars, session, devices
  <2>3. Owners'
    BY <1>3 DEF IInv, Owners, Stopping, TypeOK, Threads, Works, InitStopped,
           StopEnd, lineVars, connVars, session, devices
  <2>4. Sessions'
    BY <1>3 DEF IInv, TypeOK, Owners, Sessions, Stops, Stopping, InitStopped,
           StopEnd, lineVars, connVars, session, devices
  <2>5. Follows'
    BY <1>3 DEF IInv, TypeOK, Flags, Owners, Sessions, Follows, EdgeComing,
           Stops, Stopping, InitStopped, StopEnd, lineVars, connVars, session,
           devices
  <2>6. Drains'
    BY <1>3 DEF IInv, TypeOK, Owners, Sessions, Drains, Stops, Stopping,
           InitStopped, StopEnd, lineVars, connVars, session, devices
  <2>7. QED
    BY <2>2, <2>3, <2>4, <2>5, <2>6 DEF IInv
<1>4. QED
  BY <1>1, <1>2, <1>3

(* The setup after the handshake.                                          *)
LEMMA IcWorkKeeps ==
    ASSUME IInv,
           IcFires \/ IcCheck \/ IcMode \/ IcRegister
    PROVE  IInv'
<1>1. CASE IcFires
  <2>1. Flags'
    BY <1>1 DEF IInv, TypeOK, Flags, IcFires, lineVars, connVars, session,
           devices
  <2>2. TypeOK'
    BY <1>1, <2>1, PogoAssumption DEF IInv, TypeOK, Works, Threads, Stopping,
           IcFires, lineVars, connVars, session, devices
  <2>3. Owners'
    BY <1>1 DEF IInv, Owners, Stopping, TypeOK, Threads, Works, IcFires,
           lineVars, connVars, session, devices
  <2>4. Sessions'
    BY <1>1 DEF IInv, TypeOK, Owners, Sessions, Stops, Stopping, IcFires,
           lineVars, connVars, session, devices
  <2>5. Follows'
    BY <1>1 DEF IInv, TypeOK, Flags, Owners, Sessions, Follows, EdgeComing,
           Stops, Stopping, IcFires, lineVars, connVars, session, devices
  <2>6. Drains'
    BY <1>1 DEF IInv, TypeOK, Owners, Sessions, Drains, Stops, Stopping,
           IcFires, lineVars, connVars, session, devices
  <2>7. QED
    BY <2>2, <2>3, <2>4, <2>5, <2>6 DEF IInv
<1>2. CASE IcCheck
  <2>1. Flags'
    BY <1>2 DEF IInv, TypeOK, Flags, IcCheck, IcFrame, lineVars, connVars,
           session, devices
  <2>2. TypeOK'
    BY <1>2, <2>1, PogoAssumption DEF IInv, TypeOK, Works, Threads, Stopping,
           IcCheck, IcFrame, lineVars, connVars, session, devices
  <2>3. Owners'
    BY <1>2 DEF IInv, Owners, Stopping, TypeOK, Threads, Works, IcCheck,
           IcFrame, lineVars, connVars, session, devices
  <2>4. Sessions'
    BY <1>2 DEF IInv, TypeOK, Owners, Sessions, Stops, Stopping, IcCheck,
           IcFrame, lineVars, connVars, session, devices
  <2>5. Follows'
    BY <1>2 DEF IInv, TypeOK, Flags, Owners, Sessions, Follows, EdgeComing,
           Stops, Stopping, IcCheck, IcFrame, lineVars, connVars, session,
           devices
  <2>6. Drains'
    BY <1>2 DEF IInv, TypeOK, Owners, Sessions, Drains, Stops, Stopping,
           IcCheck, IcFrame, lineVars, connVars, session, devices
  <2>7. QED
    BY <2>2, <2>3, <2>4, <2>5, <2>6 DEF IInv
<1>3. CASE IcMode
  <2>1. Flags'
    BY <1>3 DEF IInv, TypeOK, Flags, IcMode, IcFrame, lineVars, connVars,
           session, devices
  <2>2. TypeOK'
    BY <1>3, <2>1, PogoAssumption DEF IInv, TypeOK, Works, Threads, Stopping,
           IcMode, IcFrame, lineVars, connVars, session, devices
  <2>3. Owners'
    BY <1>3 DEF IInv, Owners, Stopping, TypeOK, Threads, Works, IcMode,
           IcFrame, lineVars, connVars, session, devices
  <2>4. Sessions'
    BY <1>3 DEF IInv, TypeOK, Owners, Sessions, Stops, Stopping, IcMode,
           IcFrame, lineVars, connVars, session, devices
  <2>5. Follows'
    BY <1>3 DEF IInv, TypeOK, Flags, Owners, Sessions, Follows, EdgeComing,
           Stops, Stopping, IcMode, IcFrame, lineVars, connVars, session,
           devices
  <2>6. Drains'
    BY <1>3 DEF IInv, TypeOK, Owners, Sessions, Drains, Stops, Stopping,
           IcMode, IcFrame, lineVars, connVars, session, devices
  <2>7. QED
    BY <2>2, <2>3, <2>4, <2>5, <2>6 DEF IInv
<1>4. CASE IcRegister
  <2>1. Flags'
    <3>1. kbd' \in BOOLEAN
      BY <1>4, Zenon DEF IInv, TypeOK, Flags, IcRegister, RegisterKbd
    <3>2. tp' \in BOOLEAN
      BY <1>4, Zenon DEF IInv, TypeOK, Flags, IcRegister, RegisterTp
    <3>3. QED
      BY <1>4, <3>1, <3>2
         DEF IInv, TypeOK, Flags, IcRegister, IcFrame, lineVars, connVars, session
  <2>2. TypeOK'
    BY <1>4, <2>1, PogoAssumption DEF IInv, TypeOK, Works, Threads, Stopping,
           IcRegister, RegisterKbd, RegisterTp, IcFrame, lineVars, connVars,
           session, devices
  <2>3. Owners'
    BY <1>4 DEF IInv, Owners, Stopping, TypeOK, Threads, Works, IcRegister,
           RegisterKbd, RegisterTp, IcFrame, lineVars, connVars, session,
           devices
  <2>4. Sessions'
    BY <1>4 DEF IInv, TypeOK, Owners, Sessions, Stops, Stopping, IcRegister,
           RegisterKbd, RegisterTp, IcFrame, lineVars, connVars, session,
           devices
  <2>5. Follows'
    BY <1>4 DEF IInv, TypeOK, Flags, Owners, Sessions, Follows, EdgeComing,
           Stops, Stopping, IcRegister, RegisterKbd, RegisterTp, IcFrame,
           lineVars, connVars, session, devices
  <2>6. Drains'
    BY <1>4 DEF IInv, TypeOK, Owners, Sessions, Drains, Stops, Stopping,
           IcRegister, RegisterKbd, RegisterTp, IcFrame, lineVars, connVars,
           session, devices
  <2>7. QED
    BY <2>2, <2>3, <2>4, <2>5, <2>6 DEF IInv
<1>5. QED
  BY <1>1, <1>2, <1>3, <1>4

(* The handler of the attn line.                                           *)
LEMMA AttnKeeps ==
    ASSUME IInv,
           AttnFires \/ AttnExchange \/ AttnVersion \/ AttnSettle
    PROVE  IInv'
<1>1. CASE AttnFires
  <2>1. Flags'
    BY <1>1 DEF IInv, TypeOK, Flags, AttnFires, AttnFrame, lineVars, connVars,
           session, devices
  <2>2. TypeOK'
    BY <1>1, <2>1, PogoAssumption DEF IInv, TypeOK, Works, Threads, Stopping,
           AttnFires, AttnFrame, lineVars, connVars, session, devices
  <2>3. Owners'
    BY <1>1 DEF IInv, Owners, Stopping, TypeOK, Threads, Works, AttnFires,
           AttnFrame, lineVars, connVars, session, devices
  <2>4. Sessions'
    BY <1>1 DEF IInv, TypeOK, Owners, Sessions, Stops, Stopping, AttnFires,
           AttnFrame, lineVars, connVars, session, devices
  <2>5. Follows'
    BY <1>1 DEF IInv, TypeOK, Flags, Owners, Sessions, Follows, EdgeComing,
           Stops, Stopping, AttnFires, AttnFrame, lineVars, connVars, session,
           devices
  <2>6. Drains'
    BY <1>1 DEF IInv, TypeOK, Owners, Sessions, Drains, Stops, Stopping,
           AttnFires, AttnFrame, lineVars, connVars, session, devices
  <2>7. QED
    BY <2>2, <2>3, <2>4, <2>5, <2>6 DEF IInv
<1>2. CASE AttnExchange
  <2>1. Flags'
    BY <1>2 DEF IInv, TypeOK, Flags, AttnExchange, KeypadEvent, TouchpadEvent,
           HallEvent, NoEvent, AttnFrame, lineVars, connVars, session, devices
  <2>2. TypeOK'
    <3>1. held' \subseteq {"key", "finger"}
      BY <1>2 DEF IInv, TypeOK, AttnExchange, KeypadEvent, TouchpadEvent,
             HallEvent, NoEvent
    <3>2. QED
      BY <1>2, <2>1, <3>1, PogoAssumption
         DEF IInv, TypeOK, Works, Threads, Stopping, AttnExchange, AttnFrame,
             lineVars, connVars
  <2>3. Owners'
    BY <1>2 DEF IInv, Owners, Stopping, TypeOK, Threads, Works, AttnExchange,
           KeypadEvent, TouchpadEvent, HallEvent, NoEvent, AttnFrame,
           lineVars, connVars, session, devices
  <2>4. Sessions'
    BY <1>2 DEF IInv, TypeOK, Owners, Sessions, Stops, Stopping, AttnExchange,
           KeypadEvent, TouchpadEvent, HallEvent, NoEvent, AttnFrame,
           lineVars, connVars, session, devices
  <2>5. Follows'
    BY <1>2 DEF IInv, TypeOK, Flags, Owners, Sessions, Follows, EdgeComing,
           Stops, Stopping, AttnExchange, KeypadEvent, TouchpadEvent,
           HallEvent, NoEvent, AttnFrame, lineVars, connVars, session, devices
  <2>6. Drains'
    BY <1>2 DEF IInv, TypeOK, Owners, Sessions, Drains, Stops, Stopping,
           AttnExchange, KeypadEvent, TouchpadEvent, HallEvent, NoEvent,
           AttnFrame, lineVars, connVars, session, devices
  <2>7. QED
    BY <2>2, <2>3, <2>4, <2>5, <2>6 DEF IInv
<1>3. CASE AttnVersion
  <2>1. Flags'
    BY <1>3 DEF IInv, TypeOK, Flags, AttnVersion, AttnFrame, lineVars,
           connVars, session, devices
  <2>2. TypeOK'
    BY <1>3, <2>1, PogoAssumption DEF IInv, TypeOK, Works, Threads, Stopping,
           AttnVersion, AttnFrame, lineVars, connVars, session, devices
  <2>3. Owners'
    BY <1>3 DEF IInv, Owners, Stopping, TypeOK, Threads, Works, AttnVersion,
           AttnFrame, lineVars, connVars, session, devices
  <2>4. Sessions'
    BY <1>3 DEF IInv, TypeOK, Owners, Sessions, Stops, Stopping, AttnVersion,
           AttnFrame, lineVars, connVars, session, devices
  <2>5. Follows'
    BY <1>3 DEF IInv, TypeOK, Flags, Owners, Sessions, Follows, EdgeComing,
           Stops, Stopping, AttnVersion, AttnFrame, lineVars, connVars,
           session, devices
  <2>6. Drains'
    BY <1>3 DEF IInv, TypeOK, Owners, Sessions, Drains, Stops, Stopping,
           AttnVersion, AttnFrame, lineVars, connVars, session, devices
  <2>7. QED
    BY <2>2, <2>3, <2>4, <2>5, <2>6 DEF IInv
<1>4. CASE AttnSettle
  <2>1. Flags'
    BY <1>4 DEF IInv, TypeOK, Flags, AttnSettle, AttnFrame, lineVars,
           connVars, session, devices
  <2>2. TypeOK'
    BY <1>4, <2>1, PogoAssumption DEF IInv, TypeOK, Works, Threads, Stopping,
           AttnSettle, AttnFrame, lineVars, connVars, session, devices
  <2>3. Owners'
    BY <1>4 DEF IInv, Owners, Stopping, TypeOK, Threads, Works, AttnSettle,
           AttnFrame, lineVars, connVars, session, devices
  <2>4. Sessions'
    BY <1>4 DEF IInv, TypeOK, Owners, Sessions, Stops, Stopping, AttnSettle,
           AttnFrame, lineVars, connVars, session, devices
  <2>5. Follows'
    BY <1>4 DEF IInv, TypeOK, Flags, Owners, Sessions, Follows, EdgeComing,
           Stops, Stopping, AttnSettle, AttnFrame, lineVars, connVars,
           session, devices
  <2>6. Drains'
    BY <1>4 DEF IInv, TypeOK, Owners, Sessions, Drains, Stops, Stopping,
           AttnSettle, AttnFrame, lineVars, connVars, session, devices
  <2>7. QED
    BY <2>2, <2>3, <2>4, <2>5, <2>6 DEF IInv
<1>5. QED
  BY <1>1, <1>2, <1>3, <1>4

(* remove.                                                                 *)
LEMMA RemovalKeeps ==
    ASSUME IInv,
           RemoveBegin \/ RemoveCancel \/ RemoveStop \/ RemoveStopped
    PROVE  IInv'
<1>1. CASE RemoveBegin
  <2>1. Flags'
    BY <1>1 DEF IInv, TypeOK, Flags, RemoveBegin, RemoveFrame, lineVars,
           connVars, session, devices
  <2>2. TypeOK'
    BY <1>1, <2>1, PogoAssumption DEF IInv, TypeOK, Works, Threads, Stopping,
           RemoveBegin, RemoveFrame, lineVars, connVars, session, devices
  <2>3. Owners'
    BY <1>1 DEF IInv, Owners, Stopping, TypeOK, Threads, Works, RemoveBegin,
           RemoveFrame, lineVars, connVars, session, devices
  <2>4. Sessions'
    BY <1>1 DEF IInv, TypeOK, Owners, Sessions, Stops, Stopping, RemoveBegin,
           RemoveFrame, lineVars, connVars, session, devices
  <2>5. Follows'
    BY <1>1 DEF IInv, TypeOK, Flags, Owners, Sessions, Follows, EdgeComing,
           Stops, Stopping, RemoveBegin, RemoveFrame, lineVars, connVars,
           session, devices
  <2>6. Drains'
    BY <1>1 DEF IInv, TypeOK, Owners, Sessions, Drains, Stops, Stopping,
           RemoveBegin, RemoveFrame, lineVars, connVars, session, devices
  <2>7. QED
    BY <2>2, <2>3, <2>4, <2>5, <2>6 DEF IInv
<1>2. CASE RemoveCancel
  <2>1. Flags'
    BY <1>2 DEF IInv, TypeOK, Flags, RemoveCancel, Cancelled, RemoveFrame,
           lineVars, connVars, session, devices
  <2>2. TypeOK'
    <3>1. /\ removePc' \in {"init", "ic", "lock"} /\ queued' \subseteq queued
          /\ UNCHANGED <<edges, connIsr, connPc, initPc, icPc, lock, attnIsr, held>>
      BY <1>2 DEF RemoveCancel, Cancelled, RemoveFrame, lineVars, connVars, devices
    <3> QED
      BY <2>1, <3>1 DEF IInv, TypeOK
  <2>3. Owners'
    BY <1>2 DEF IInv, Owners, Stopping, TypeOK, Threads, Works, RemoveCancel,
           Cancelled, RemoveFrame, lineVars, connVars, session, devices
  <2>4. Sessions'
    BY <1>2 DEF IInv, TypeOK, Owners, Sessions, Stops, Stopping, RemoveCancel,
           Cancelled, RemoveFrame, lineVars, connVars, session, devices
  <2>5. Follows'
    BY <1>2 DEF IInv, TypeOK, Flags, Owners, Sessions, Follows, EdgeComing,
           Stops, Stopping, RemoveCancel, Cancelled, RemoveFrame, lineVars,
           connVars, session, devices
  <2>6. Drains'
    BY <1>2 DEF IInv, TypeOK, Owners, Sessions, Drains, Stops, Stopping,
           RemoveCancel, Cancelled, RemoveFrame, lineVars, connVars, session,
           devices
  <2>7. QED
    BY <2>2, <2>3, <2>4, <2>5, <2>6 DEF IInv
<1>3. CASE RemoveStop
  <2>1. Flags'
    <3>1. /\ UNCHANGED <<conn, connPending, connState, rail>>
          /\ UNCHANGED <<kbd, tp, shook, staleWatch, gaveUp>>
      BY <1>3, Zenon DEF RemoveStop, StopBegin, RemoveFrame, lineVars, connVars,
         session, devices
    <3>2. /\ started' \in {started, FALSE} /\ handshaken' \in {handshaken, FALSE}
          /\ irqOn' \in {irqOn, FALSE}
      BY <1>3, Zenon DEF RemoveStop, StopBegin, session
    <3>3. started' \in BOOLEAN /\ handshaken' \in BOOLEAN /\ irqOn' \in BOOLEAN
      BY <3>2, Zenon DEF IInv, TypeOK, Flags
    <3> QED
      BY <3>1, <3>3, Zenon DEF IInv, TypeOK, Flags
  <2>2. TypeOK'
    BY <1>3, <2>1, PogoAssumption DEF IInv, TypeOK, Works, Threads, Stopping,
           RemoveStop, StopBegin, RemoveFrame, lineVars, connVars, session,
           devices
  <2>3. Owners'
    BY <1>3 DEF IInv, Owners, Stopping, TypeOK, Threads, Works, RemoveStop,
           StopBegin, RemoveFrame, lineVars, connVars, session, devices
  <2>4. Sessions'
    BY <1>3 DEF IInv, TypeOK, Owners, Sessions, Stops, Stopping, RemoveStop,
           StopBegin, RemoveFrame, lineVars, connVars, session, devices
  <2>5. Follows'
    BY <1>3 DEF IInv, TypeOK, Flags, Owners, Sessions, Follows, EdgeComing,
           Stops, Stopping, RemoveStop, StopBegin, RemoveFrame, lineVars,
           connVars, session, devices
  <2>6. Drains'
    BY <1>3 DEF IInv, TypeOK, Owners, Sessions, Drains, Stops, Stopping,
           RemoveStop, StopBegin, RemoveFrame, lineVars, connVars, session,
           devices
  <2>7. QED
    BY <2>2, <2>3, <2>4, <2>5, <2>6 DEF IInv
<1>4. CASE RemoveStopped
  <2>1. Flags'
    BY <1>4 DEF IInv, TypeOK, Flags, RemoveStopped, StopEnd, RemoveFrame,
           lineVars, connVars, session, devices
  <2>2. TypeOK'
    BY <1>4, <2>1, PogoAssumption DEF IInv, TypeOK, Works, Threads, Stopping,
           RemoveStopped, StopEnd, RemoveFrame, lineVars, connVars, session,
           devices
  <2>3. Owners'
    BY <1>4 DEF IInv, Owners, Stopping, TypeOK, Threads, Works, RemoveStopped,
           StopEnd, RemoveFrame, lineVars, connVars, session, devices
  <2>4. Sessions'
    BY <1>4 DEF IInv, TypeOK, Owners, Sessions, Stops, Stopping,
           RemoveStopped, StopEnd, RemoveFrame, lineVars, connVars, session,
           devices
  <2>5. Follows'
    BY <1>4 DEF IInv, TypeOK, Flags, Owners, Sessions, Follows, EdgeComing,
           Stops, Stopping, RemoveStopped, StopEnd, RemoveFrame, lineVars,
           connVars, session, devices
  <2>6. Drains'
    BY <1>4 DEF IInv, TypeOK, Owners, Sessions, Drains, Stops, Stopping,
           RemoveStopped, StopEnd, RemoveFrame, lineVars, connVars, session,
           devices
  <2>7. QED
    BY <2>2, <2>3, <2>4, <2>5, <2>6 DEF IInv
<1>5. QED
  BY <1>1, <1>2, <1>3, <1>4

(* A keyboard comes or goes.                                               *)
LEMMA MovesKeep == ASSUME IInv, ConnMoves PROVE IInv'
<1>1. Flags'
  BY DEF IInv, TypeOK, Flags, ConnMoves, lineVars, connVars, session,
           devices
<1>2. TypeOK'
  BY <1>1, PogoAssumption DEF IInv, TypeOK, Works, Threads, Stopping,
           ConnMoves, lineVars, connVars, session, devices
<1>3. Owners'
  BY DEF IInv, Owners, Stopping, TypeOK, Threads, Works, ConnMoves,
           lineVars, connVars, session, devices
<1>4. Sessions'
  BY DEF IInv, TypeOK, Owners, Sessions, Stops, Stopping, ConnMoves,
           lineVars, connVars, session, devices
<1>5. Follows'
  BY DEF IInv, TypeOK, Flags, Owners, Sessions, Follows, EdgeComing,
           Stops, Stopping, ConnMoves, lineVars, connVars, session, devices
<1>6. Drains'
  BY DEF IInv, TypeOK, Owners, Sessions, Drains, Stops, Stopping,
           ConnMoves, lineVars, connVars, session, devices
<1>7. QED
  BY <1>2, <1>3, <1>4, <1>5, <1>6 DEF IInv

LEMMA InitIInv == Init => IInv
<1>1. SUFFICES ASSUME Init PROVE IInv
  OBVIOUS
<1>2. Flags
  BY <1>1 DEF Init, Flags
<1>3. TypeOK
  BY <1>1, <1>2, PogoAssumption DEF Init, TypeOK, Works, Threads
<1>4. Owners /\ Sessions /\ Drains
  BY <1>1 DEF Init, Owners, Sessions, Drains, Stops, Stopping
<1>5. Follows
  BY <1>1 DEF Init, Follows, EdgeComing, Stopping
<1>6. QED
  BY <1>3, <1>4, <1>5 DEF IInv

LEMMA StepKeeps == IInv /\ [Next]_vars => IInv'
<1>1. SUFFICES ASSUME IInv, [Next]_vars PROVE IInv'
  OBVIOUS
<1>2. CASE Next
  BY <1>1, <1>2, ConnHandlerKeeps, ConnWorkKeeps, InitWorkKeeps, IcWorkKeeps,
     AttnKeeps, RemovalKeeps, MovesKeep
     DEF Next, ConnHandler, ConnWork, InitWork, IcWork, AttnHandler, Remove
<1>3. CASE UNCHANGED vars
  BY <1>1, <1>3
     DEF IInv, TypeOK, Flags, Owners, Sessions, Follows, EdgeComing, Drains, Stops,
         vars, lineVars, connVars, session, devices
<1>4. QED
  BY <1>1, <1>2, <1>3

LEMMA AlwaysIInv == Spec => []IInv
BY InitIInv, StepKeeps, PTL DEF Spec

(* Every variable of the keyboard driver has its type.                     *)
THEOREM TypeCorrect == Spec => []TypeOK
<1>1. IInv => TypeOK
  BY DEF IInv
<1>2. QED
  BY AlwaysIInv, <1>1, PTL

(* No device, no enabled interrupt and no running handler without power,   *)
(* however detach, watchdog and remove meet.                               *)
THEOREM PowerForAll == Spec => []NothingWithoutPower
<1>1. IInv => NothingWithoutPower
  BY DEF IInv, Sessions, NothingWithoutPower
<1>2. QED
  BY AlwaysIInv, <1>1, PTL

(* No device without a handshake of its own session.                       *)
THEOREM HandshakeFirst == Spec => []DevicesFollowHandshake
<1>1. IInv => DevicesFollowHandshake
  BY DEF IInv, Sessions, DevicesFollowHandshake
<1>2. QED
  BY AlwaysIInv, <1>1, PTL

(* The driver has the level of the conn line, or is being brought there.   *)
THEOREM LineIsFollowed == Spec => []ConnIsFollowed
<1>1. IInv => ConnIsFollowed
  <2>1. SUFFICES ASSUME IInv, removePc = "none", started # conn
                 PROVE  EdgeComing \/ connPc # "idle" \/ gaveUp
    BY DEF ConnIsFollowed, EdgeComing
  <2>2. ~(started <=> conn)
    BY <2>1, Zenon DEF IInv, TypeOK, Flags
  <2>3. QED
    BY <2>1, <2>2 DEF IInv, Follows
<1>2. QED
  BY AlwaysIInv, <1>1, PTL

(* remove leaves no power, no device, no queued work and no work that does *)
(* anything.                                                               *)
THEOREM RemoveLeavesNothing == Spec => []RemovedIsQuiet
<1>1. IInv => RemovedIsQuiet
  BY DEF IInv, TypeOK, Works, Owners, Sessions, Drains, Stops, Stopping, RemovedIsQuiet
<1>2. QED
  BY AlwaysIInv, <1>1, PTL

-----------------------------------------------------------------------------
(* The refinement: every step is a step of KeyboardSession or none.        *)

(* A step that leaves rail, session and devices alone is not seen; a       *)
(* handshake counts only in an open session.                               *)
LEMMA Unseen ==
    ASSUME UNCHANGED <<rail, started, kbd, tp, held>>,
           started => (shook' <=> shook),
           ~started => (connPc' = "boot" <=> connPc = "boot")
    PROVE  UNCHANGED Session!vars
<1>1. SessionPhase' = SessionPhase
  BY DEF SessionPhase
<1>2. Registered' = Registered
  BY DEF Registered
<1>3. QED
  BY <1>1, <1>2 DEF Session!vars

LEMMA StopBeginCloses ==
    ASSUME IInv, started, StopBegin, connPc' # "boot"
    PROVE  Session!Close
<1>1. SessionPhase \in {"on", "talking"}
  BY DEF IInv, Sessions, SessionPhase
<1>2. SessionPhase' = "closing"
  BY DEF IInv, Sessions, SessionPhase, StopBegin
<1>3. Registered' = Registered /\ held' = held
  BY DEF StopBegin, devices, Registered
<1>4. QED
  BY <1>1, <1>2, <1>3 DEF Session!Close

LEMMA StopEndUndocks ==
    ASSUME IInv, Stops, StopEnd
    PROVE  Session!Undock
<1>1. rail /\ ~started /\ connPc # "boot"
  BY DEF IInv, Sessions, Owners, Stops, Stopping
<1>2. SessionPhase = "closing"
  BY <1>1 DEF SessionPhase
<1>3. SessionPhase' = "off"
  BY DEF StopEnd, SessionPhase
<1>4. Registered' = {} /\ held' = {}
  BY DEF StopEnd, Registered
<1>5. QED
  BY <1>2, <1>3, <1>4 DEF Session!Undock

LEMMA ConnWorkImplements ==
    ASSUME IInv, ConnWork
    PROVE  [Session!Next]_(Session!vars)
<1>1. CASE ConnRun
  BY <1>1, Unseen DEF ConnRun, session, devices
<1>2. CASE ConnDetach /\ started
  BY <1>2, StopBeginCloses DEF ConnDetach, Stopping, Session!Next
<1>3. CASE ConnDetach /\ ~started
  BY <1>3, Unseen DEF ConnDetach, session, devices
<1>4. CASE ConnStopped
  BY <1>4, StopEndUndocks DEF ConnStopped, Stops, Session!Next
<1>5. CASE ConnAttach
  <2>1. connPc = "lock" /\ UNCHANGED <<started, shook, kbd, tp, held>>
    BY <1>5 DEF ConnAttach, devices
  <2>2. CASE UNCHANGED rail /\ connPc' = "idle"
    BY <2>1, <2>2, Unseen
  <2>3. CASE ~started /\ rail' = TRUE /\ connPc' = "boot"
    <3>1. ~rail
      BY <1>5, <2>1, <2>3 DEF IInv, Owners, Sessions, Stops, ConnAttach, Stopping
    <3>2. SessionPhase = "off" /\ SessionPhase' = "on"
      BY <2>1, <2>3, <3>1 DEF SessionPhase
    <3>3. Registered' = Registered
      BY <2>1 DEF Registered
    <3>4. QED
      BY <2>1, <3>2, <3>3 DEF Session!Dock, Session!Next
  <2>4. QED
    BY <1>5, <2>2, <2>3, Zenon DEF ConnAttach
<1>6. CASE ConnEnable
  <2>1. SessionPhase = "on" /\ SessionPhase' = "on"
    BY <1>6 DEF IInv, Sessions, ConnEnable, SessionPhase
  <2>2. Registered' = Registered /\ held' = held
    BY <1>6 DEF ConnEnable, devices, Registered
  <2>3. QED
    BY <2>1, <2>2 DEF Session!vars
<1>7. CASE ConnArm
  BY <1>7, Unseen DEF ConnArm, session, devices
<1>8. QED
  BY <1>1, <1>2, <1>3, <1>4, <1>5, <1>6, <1>7 DEF ConnWork

LEMMA InitWorkImplements ==
    ASSUME IInv, InitWork
    PROVE  [Session!Next]_(Session!vars)
<1>1. CASE InitFires
  BY <1>1, Unseen DEF InitFires, connVars, session, devices
<1>2. CASE InitCheck
  <2>1. CASE started /\ ~handshaken
    <3>1. connPc' # "boot"
      BY <1>2, <2>1 DEF IInv, Sessions, InitCheck, connVars
    <3>2. QED
      BY <1>2, <2>1, <3>1, StopBeginCloses DEF InitCheck, Session!Next
  <2>2. CASE ~(started /\ ~handshaken)
    BY <1>2, <2>2, Unseen DEF InitCheck, connVars, session, devices
  <2>3. QED
    BY <2>1, <2>2
<1>3. CASE InitStopped
  BY <1>3, StopEndUndocks DEF InitStopped, Stops, Session!Next
<1>4. QED
  BY <1>1, <1>2, <1>3 DEF InitWork

(* The devices come while ic_work holds the mutex of a session that shook  *)
(* hands, so nobody can close it meanwhile.                                *)
LEMMA IcWorkImplements ==
    ASSUME IInv, IcWork
    PROVE  [Session!Next]_(Session!vars)
<1>1. CASE IcFires
  BY <1>1, Unseen DEF IcFires, connVars, session, devices
<1>2. CASE IcCheck \/ IcMode
  BY <1>2, Unseen DEF IcCheck, IcMode, IcFrame, connVars, session, devices
<1>3. CASE IcRegister
  <2>1. SessionPhase = "talking" /\ SessionPhase' = "talking"
    BY <1>3 DEF IInv, Sessions, IcRegister, IcFrame, session, SessionPhase
  <2>2. (kbd => kbd') /\ (tp => tp')
    BY <1>3 DEF IcRegister, RegisterKbd, RegisterTp
  <2>3. /\ Registered \subseteq Registered'
        /\ Registered' \subseteq {"key", "finger"}
    BY <2>2 DEF Registered
  <2>4. held' = held
    BY <1>3 DEF IInv, TypeOK, Sessions, IcRegister, RegisterKbd
  <2>5. QED
    BY <2>1, <2>3, <2>4 DEF Session!Appear, Session!Next
<1>4. QED
  BY <1>1, <1>2, <1>3 DEF IcWork

(* The handler may still report while disable_irq waits for it.            *)
LEMMA AttnImplements ==
    ASSUME IInv, AttnFires \/ AttnHandler
    PROVE  [Session!Next]_(Session!vars)
<1>1. CASE AttnFires
  BY <1>1, Unseen DEF AttnFires, AttnFrame, connVars
<1>2. CASE AttnExchange
  <2>1. /\ attnIsr = "exchange"
        /\ UNCHANGED <<rail, started, shook, connPc, kbd, tp>>
    BY <1>2 DEF AttnExchange, AttnFrame, connVars
  <2>2. SessionPhase' = SessionPhase /\ Registered' = Registered
    BY <2>1 DEF SessionPhase, Registered
  <2>3. CASE UNCHANGED held
    BY <2>2, <2>3 DEF Session!vars
  <2>4. CASE held' # held
    <3>1. held' \subseteq Registered
      BY <1>2, <2>4 DEF IInv, TypeOK, Sessions, AttnExchange, NoEvent, KeypadEvent,
         TouchpadEvent, HallEvent, Registered
    <3>2. kbd \/ tp
      BY <1>2, <2>4 DEF IInv, TypeOK, Sessions, AttnExchange, NoEvent, KeypadEvent,
         TouchpadEvent, HallEvent
    <3>3. rail /\ shook /\ (started \/ connPc # "boot")
      BY <3>2 DEF IInv, Sessions, Owners, Stops, Stopping
    <3>4. SessionPhase \in {"talking", "closing"}
      BY <3>3 DEF SessionPhase
    <3>5. QED
      BY <2>2, <3>1, <3>4 DEF Session!Report, Session!Next
  <2>5. QED
    BY <2>3, <2>4
<1>3. CASE AttnVersion
  <2>1. /\ UNCHANGED <<rail, started, connPc, kbd, tp, held>>
        /\ shook'
    BY <1>3 DEF AttnVersion, AttnFrame, connVars
  <2>2. CASE started /\ ~shook
    <3>1. SessionPhase = "on" /\ SessionPhase' = "talking"
      BY <2>1, <2>2 DEF IInv, Sessions, SessionPhase
    <3>2. Registered' = Registered
      BY <2>1 DEF Registered
    <3>3. QED
      BY <2>1, <3>1, <3>2 DEF Session!Talk, Session!Next
  <2>3. CASE started => shook
    BY <2>1, <2>3, Unseen
  <2>4. QED
    BY <2>2, <2>3
<1>4. CASE AttnSettle
  BY <1>4, Unseen DEF AttnSettle, AttnFrame, connVars
<1>5. QED
  BY <1>1, <1>2, <1>3, <1>4 DEF AttnHandler

LEMMA RemoveImplements ==
    ASSUME IInv, RemoveBegin \/ Remove
    PROVE  [Session!Next]_(Session!vars)
<1>1. CASE RemoveBegin
  BY <1>1, Unseen DEF RemoveBegin, RemoveFrame, connVars, session, devices
<1>2. CASE RemoveCancel
  BY <1>2, Unseen DEF RemoveCancel, Cancelled, RemoveFrame, connVars, session, devices
<1>3. CASE RemoveStop /\ started
  <2>1. connPc' # "boot"
    BY <1>3 DEF IInv, Sessions, RemoveStop, RemoveFrame, connVars
  <2>2. QED
    BY <1>3, <2>1, StopBeginCloses DEF RemoveStop, Session!Next
<1>4. CASE RemoveStop /\ ~started
  BY <1>4, Unseen DEF RemoveStop, RemoveFrame, connVars, session, devices
<1>5. CASE RemoveStopped
  BY <1>5, StopEndUndocks DEF RemoveStopped, Stops, Session!Next
<1>6. QED
  BY <1>1, <1>2, <1>3, <1>4, <1>5 DEF Remove

LEMMA StepImplements ==
    ASSUME IInv, [Next]_vars
    PROVE  [Session!Next]_(Session!vars)
<1>1. CASE ConnHandler
  BY <1>1, Unseen DEF ConnHandler, ConnCancel, ConnSchedule, session, devices
<1>2. CASE ConnMoves
  BY <1>2, Unseen DEF ConnMoves, session, devices
<1>3. CASE UNCHANGED vars
  BY <1>3, Unseen DEF vars, connVars, session, devices
<1>4. QED
  BY <1>1, <1>2, <1>3, ConnWorkImplements, InitWorkImplements, IcWorkImplements,
     AttnImplements, RemoveImplements DEF Next

(* The driver implements KeyboardSession: devices come and go with the     *)
(* session of their own handshake, for any number of edges of the line.    *)
THEOREM KeyboardSessions == Spec => SessionsInOrder
<1>1. Init => Session!Init
  BY DEF Init, Session!Init, SessionPhase, Registered
<1>2. IInv /\ [Next]_vars => [Session!Next]_(Session!vars)
  BY StepImplements
<1>3. QED
  BY AlwaysIInv, <1>1, <1>2, PTL DEF Spec, SessionsInOrder, Session!Spec
=============================================================================
