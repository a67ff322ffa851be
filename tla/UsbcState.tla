------------------------------ MODULE UsbcState ------------------------------
(***************************************************************************)
(* The USB-C port driver, max77705.c as the four max77705-typec patches    *)
(* leave it: what each of its functions makes of struct max77705_usbc, all *)
(* of them under u->lock.  A function takes the port and f, the set of the *)
(* calls into the chip, the charger and the regulator that fail while it   *)
(* runs, and returns the port.                                             *)
(*                                                                         *)
(* Left out: what the driver tells the Type-C class and the role switch,   *)
(* the properties it shows, the default sink capabilities, and a charger   *)
(* that is absent.  The driver reads the offers again at each PSRDY; here  *)
(* a source keeps the offers it has, and an answer that selects none of    *)
(* them, on which the driver returns at once, is a contract not read.      *)
(***************************************************************************)
EXTENDS Integers, Sequences, FiniteSets

CONSTANTS
    SrcPdos,            \* what a source offers: [fixed, mv, ma]
    IlimBase,           \* the input limit found at probe, mA
    VbusRetries,        \* MAX77705_VBUS_RETRIES
    MaxRequests,        \* MAX77705_PD_MAX_REQUESTS
    RecoveryBurst       \* MAX77705_RECOVERY_BURST

Pdo == [fixed : BOOLEAN, mv : Nat \ {0}, ma : Nat]
Pos == 1..Len(SrcPdos)

ASSUME UsbcStateAssumption ==
    /\ SrcPdos \in Seq(Pdo)
    /\ IlimBase \in Nat
    /\ VbusRetries \in Nat /\ MaxRequests \in Nat /\ RecoveryBurst \in Nat

Smaller(a, b) == IF a <= b THEN a ELSE b

-----------------------------------------------------------------------------
(* The sink policy.                                                        *)
PdMaxMv == 9000
PdMaxMa == 3000
PdMaxMw == 15000
MwSlack == 100
IlimSafe == 500

Acceptable == {i \in Pos : /\ SrcPdos[i].fixed
                           /\ SrcPdos[i].mv >= 5000 /\ SrcPdos[i].mv <= PdMaxMv}

PdoIlim(i) == Smaller(Smaller(SrcPdos[i].ma, PdMaxMa),
                      (PdMaxMw * 1000) \div SrcPdos[i].mv)

(* The input limit the contract on an offer allows; a contract that is not *)
(* fixed is never one the driver asked for.                                *)
ContractIlim(i) == IF SrcPdos[i].fixed THEN PdoIlim(i) ELSE IlimSafe
ContractMv(i) == IF SrcPdos[i].fixed THEN SrcPdos[i].mv ELSE 5000

(* The scan of best_pos over the first n offers: what counts as equal is   *)
(* not transitive, so the order of the offers matters.                     *)
Mw(i) == (SrcPdos[i].mv * PdoIlim(i)) \div 1000

Better(i, b) ==
    /\ i \in Acceptable
    /\ \/ Mw(i) > b.mw + MwSlack
       \/ Mw(i) + MwSlack >= b.mw /\ SrcPdos[i].mv > b.mv

Took(i, b) ==
    [pos |-> i, mw |-> IF Mw(i) > b.mw THEN Mw(i) ELSE b.mw, mv |-> SrcPdos[i].mv]

Scan[n \in 0..Len(SrcPdos)] ==
    IF n = 0 THEN [pos |-> 0, mw |-> 0, mv |-> 0]
    ELSE IF Better(n, Scan[n - 1]) THEN Took(n, Scan[n - 1]) ELSE Scan[n - 1]

BestPos == Scan[Len(SrcPdos)].pos

(* What the driver takes for granted of a source.  USB PD has the fixed    *)
(* offers in the order of their voltage, each voltage once; an offer feeds *)
(* the floor of the limit, and one beyond PdMaxMv no more current than one *)
(* the driver takes.                                                       *)
OffersInOrder ==
    \A i, j \in Pos :
        i < j /\ SrcPdos[i].fixed /\ SrcPdos[j].fixed => SrcPdos[i].mv < SrcPdos[j].mv

OrdinarySource ==
    /\ OffersInOrder
    /\ \A j \in Acceptable : SrcPdos[j].ma >= IlimSafe
    /\ \A i \in Pos, j \in Acceptable :
          SrcPdos[i].fixed /\ SrcPdos[i].mv > PdMaxMv => PdoIlim(i) <= PdoIlim(j)

-----------------------------------------------------------------------------
CcStats == {"none", "sink", "source", "accessory"}
Windows == {"closed", "new", "old"}

(* Calls that can fail; "ask" is a request that was not sent, "answer" one *)
(* whose answer the driver did not see, "peek" the look at the masks.      *)
Calls == {"cc", "caps", "stop", "limit", "lower", "undo", "ask", "answer",
          "init", "masks", "peek"}

(* What the driver keeps, and of the chip what it writes: its settings,    *)
(* its interrupt masks, and the request on the wire.                       *)
Port == [cc : CcStats, vbusOn : BOOLEAN, vbusQ : BOOLEAN, retries : Nat,
         contract : BOOLEAN, sel : 0..Len(SrcPdos), req : 0..Len(SrcPdos),
         nreq : Nat, backoff : BOOLEAN, retryQ : BOOLEAN,
         ilim : Nat, halted : BOOLEAN, recoverQ : {"off", "waiting", "due"},
         recoveries : Nat,
         window : Windows,      \* "old": begun before the wait of recover_work
         configured : BOOLEAN, masks : BOOLEAN, wire : 0..Len(SrcPdos),
         stopFailed : BOOLEAN,  \* history: the last regulator_disable failed
         ilimFailed : BOOLEAN,  \* history: the last change of the limit failed
         undone : BOOLEAN,      \* history: a request went unsent, and the
                                \* limit back up, while another was out
         ccMissed : BOOLEAN,    \* history: the last read of CC_STATUS0 failed
         unread : BOOLEAN]      \* history: a contract went by unread

SetIlim(p, ma, call, f) ==
    IF call \in f THEN [p EXCEPT !.ilimFailed = TRUE]
    ELSE [p EXCEPT !.ilim = ma, !.ilimFailed = FALSE]

RestoreIlim(p, f) ==
    IF IlimBase > 0 THEN SetIlim(p, IlimBase, "limit", f) ELSE p

-----------------------------------------------------------------------------
(* VBUS.  A refused enable leaves a retry behind; a failed disable keeps   *)
(* the reference.                                                          *)
VbusOff(p, f) ==
    IF "stop" \in f THEN [p EXCEPT !.vbusQ = FALSE, !.stopFailed = p.vbusOn]
    ELSE [p EXCEPT !.vbusQ = FALSE, !.stopFailed = FALSE, !.vbusOn = FALSE]

(* vbus_set(true) succeeds; "busy" stands for a bus that is still powered. *)
CanSource(p, busy) == p.vbusOn \/ (~p.halted /\ ~busy)

(* Broken form: VBUS at the firmware's word, whatever CCStat says.         *)
VbusSourceUnchecked(p, delayed, busy) ==
    IF ~delayed /\ CanSource(p, busy)
    THEN [p EXCEPT !.retries = 0, !.vbusOn = TRUE, !.stopFailed = FALSE]
    ELSE [p EXCEPT !.retries = 0, !.vbusQ = TRUE]

VbusSource(p, delayed, busy) ==
    IF ~delayed /\ p.cc = "source" /\ CanSource(p, busy)
    THEN [p EXCEPT !.retries = 0, !.vbusOn = TRUE, !.stopFailed = FALSE]
    ELSE [p EXCEPT !.retries = 0, !.vbusQ = TRUE]

VbusRun(p, busy) ==
    LET q == [p EXCEPT !.vbusQ = FALSE]
    IN  IF p.cc # "source" \/ p.halted THEN q
        ELSE IF CanSource(p, busy) THEN [q EXCEPT !.vbusOn = TRUE, !.stopFailed = FALSE]
        ELSE [q EXCEPT !.retries = @ + 1,
                       !.vbusQ = p.retries + 1 < VbusRetries]

-----------------------------------------------------------------------------
(* CCStat.                                                                 *)
PdReset(p) ==
    [p EXCEPT !.retryQ = FALSE, !.contract = FALSE, !.sel = 0, !.req = 0,
              !.undone = FALSE]

Detach(p, f) ==
    LET q == VbusOff(p, f)
        r == IF p.cc = "sink" THEN RestoreIlim(q, f) ELSE q
    IN  [PdReset(r) EXCEPT !.nreq = 0, !.cc = "none"]

(* Broken form: an unplugged port is left as it is.                        *)
LetGoIfAttached(p, f) == IF p.cc # "none" THEN Detach(p, f) ELSE p

LetGo(p, f) == IF p.cc # "none" THEN Detach(p, f) ELSE VbusOff(p, f)

(* update_cc(): only an attach as source starts VBUS, and leaving another  *)
(* role for it ends that role's contract; other changes keep the contract. *)
UpdateCc(p, cc, busy, f) ==
    LET q == [(IF cc # "source" THEN VbusOff(p, f) ELSE p) EXCEPT !.ccMissed = FALSE]
        r == [q EXCEPT !.cc = cc]
    IN  IF cc = p.cc THEN q
        ELSE IF cc = "none" THEN Detach(q, f)
        ELSE IF cc # "source" THEN r
        ELSE VbusSource(IF p.cc = "none" THEN r ELSE PdReset(RestoreIlim(r, f)),
                        FALSE, busy)

-----------------------------------------------------------------------------
(* Sink PD.                                                                *)

(* What the driver may ask for now; 0 is nothing.                          *)
Wanted(p) ==
    IF /\ p.contract /\ p.sel # 0
       /\ BestPos \in Acceptable \ {p.sel}
       /\ p.nreq < MaxRequests /\ ~p.backoff
    THEN BestPos ELSE 0

(* Broken form: what the present contract allows.                          *)
BothIlimPresentOnly(i, j) == ContractIlim(i)

(* What both contracts allow.                                              *)
BothIlim(i, j) ==
    IF SrcPdos[i].fixed THEN Smaller(PdoIlim(j), PdoIlim(i)) ELSE PdoIlim(j)

(* The limit is lowered before more voltage is asked for; a request that   *)
(* was not sent gives the present contract its limit back, also when an    *)
(* earlier one is still out: neither a request nor a contract calls off    *)
(* the retry that is queued.                                               *)
PdRequest(p, sent, f) ==
    LET best == Wanted(p)
        up == ContractMv(best) > ContractMv(p.sel)
        q == IF up THEN SetIlim(p, BothIlim(p.sel, best), "lower", f) ELSE p
        r == [q EXCEPT !.nreq = @ + 1]
        s == IF SrcPdos[p.sel].fixed
             THEN [SetIlim(r, PdoIlim(p.sel), "undo", f) EXCEPT !.undone = p.req # 0]
             ELSE r
    IN  IF best = 0 THEN p
        ELSE IF up /\ "lower" \in f THEN q
        ELSE IF "answer" \in f THEN [s EXCEPT !.wire = best]
        ELSE IF "ask" \in f THEN s
        ELSE IF sent THEN [r EXCEPT !.req = best, !.wire = best, !.undone = FALSE]
        ELSE [s EXCEPT !.retryQ = TRUE]

(* pd_ready(), with the contract the chip reports, 0 without PSRDY.        *)
PdReady(p, real, sent, f) ==
    IF p.cc # "sink" \/ real = 0 THEN p
    ELSE IF "caps" \in f THEN [p EXCEPT !.unread = TRUE]
    ELSE PdRequest(SetIlim([p EXCEPT !.contract = TRUE, !.sel = real, !.req = 0,
                                     !.undone = FALSE, !.unread = FALSE],
                           ContractIlim(real), "limit", f), sent, f)

PdRejected(p, f) ==
    IF p.cc # "sink" \/ p.req = 0 \/ p.sel = 0 THEN p
    ELSE SetIlim([p EXCEPT !.req = 0, !.undone = FALSE], ContractIlim(p.sel), "limit", f)

HardReset(p, f) ==
    LET q == VbusOff(p, f)
    IN  IF p.cc = "source" THEN VbusSource(q, TRUE, FALSE)
        ELSE IF p.cc # "sink" THEN q
        ELSE PdReset(RestoreIlim([q EXCEPT !.backoff = @ \/ p.req # 0], f))

PdMsg(p, msg, busy, f) ==
    CASE msg = "reject" -> PdRejected(p, f)
      [] msg = "hardReset" -> HardReset(p, f)
      [] msg = "vbusOff" -> VbusOff(p, f)
      [] msg = "toSource" -> VbusSource(p, FALSE, busy)
      [] OTHER -> p

-----------------------------------------------------------------------------
(* Recovery from a reset of the chip.                                      *)
(* Broken form: the port is not marked as held.                            *)
FailSafeUnmarked(p, f) ==
    [SetIlim(LetGo(p, f), IlimSafe, "limit", f) EXCEPT
       !.recoverQ = IF @ = "off" THEN "waiting" ELSE @]

FailSafe(p, f) ==
    LET q == SetIlim(LetGo(p, f), IlimSafe, "limit", f)
    IN  [q EXCEPT !.halted = TRUE,
                  !.recoverQ = IF @ = "off" THEN "waiting" ELSE @,
                  !.window = IF q.recoverQ = "off" /\ @ = "new" THEN "old" ELSE @]

(* hw_init(): the masks first, then the commands.                          *)
HwInit(p, f) ==
    IF "masks" \in f THEN p
    ELSE IF "init" \in f THEN [p EXCEPT !.masks = TRUE]
    ELSE [p EXCEPT !.masks = TRUE, !.configured = TRUE]

(* The window restarts with the first recovery after its end.              *)
Recover(p, f) ==
    LET fresh == p.recoveries = 0 \/ p.window = "closed"
        q == IF fresh THEN [p EXCEPT !.recoveries = 0, !.window = "new"] ELSE p
        a == [q EXCEPT !.recoveries = @ + 1]
        r == HwInit(IF p.cc # "none" THEN Detach(a, f) ELSE a, f)
    IN  IF q.recoveries >= RecoveryBurst
        THEN IF p.halted THEN q ELSE FailSafe(q, f)
        ELSE IF {"masks", "init"} \cap f # {}
        THEN IF p.halted THEN r ELSE FailSafe(r, f)
        ELSE IF p.halted THEN RestoreIlim([r EXCEPT !.halted = FALSE], f)
        ELSE r

-----------------------------------------------------------------------------
(* One event: what the interrupt handler queued.  The work makes an empty  *)
(* one where it resyncs from the levels alone.                             *)
Msgs == {"none", "ready", "reject", "hardReset", "vbusOff", "toSource"}
Event == [reset : BOOLEAN, psrdy : BOOLEAN, msg : Msgs]
NoEvent == [reset |-> FALSE, psrdy |-> FALSE, msg |-> "none"]

AboutContract(e) == e.psrdy \/ e.msg = "ready"

(* Broken form: the contract is read before the report is looked at.       *)
HandleEvReadyFirst(p, e, cc, real, sent, busy, f) ==
    LET q == IF e.reset THEN Recover(p, f) ELSE p
        m == UpdateCc(q, cc, busy, f)
    IN  IF q.halted \/ "cc" \in f THEN q
        ELSE PdMsg(PdReady(m, real, sent, f), e.msg, busy, f)

(* handle_ev(), with the levels of the moment: the partner on the CC pins  *)
(* and the contract in force.                                              *)
HandleEv(p, e, cc, real, sent, busy, f) ==
    LET q == IF e.reset THEN Recover(p, f) ELSE p
        m == PdMsg(UpdateCc(q, cc, busy, f), e.msg, busy, f)
    IN  IF q.halted THEN [q EXCEPT !.unread = TRUE]
        ELSE IF "cc" \in f THEN [q EXCEPT !.unread = TRUE, !.ccMissed = TRUE]
        ELSE IF AboutContract(e) \/ (m.cc = "sink" /\ ~m.contract)
        THEN PdReady(m, real, sent, f)
        ELSE m

(* The end of the work, with the fifo empty: a reset whose report was lost *)
(* is made up for, and the levels are read again after that, after an      *)
(* overflow, and when there was no event at all.                           *)
Resync(p, any, overflow, resetLost, cc, real, sent, busy, f) ==
    LET lost == resetLost \/ (~p.masks /\ "peek" \notin f)
        q == IF lost THEN Recover(p, f) ELSE p
    IN  IF lost \/ ~any \/ overflow
        THEN HandleEv(q, NoEvent, cc, real, sent, busy, f)
        ELSE q

(* Broken form: what is attached by then is not picked up.                 *)
RecoverRunBlind(p, cc, real, sent, busy, f) ==
    LET q == [p EXCEPT !.recoverQ = "off"]
    IN  IF p.halted THEN Recover(q, f) ELSE q

(* recover_work(): once, a minute after the port was held.                 *)
RecoverRun(p, cc, real, sent, busy, f) ==
    LET q == [p EXCEPT !.recoverQ = "off"]
    IN  IF p.halted
        THEN HandleEv(Recover(q, f), NoEvent, cc, real, sent, busy, f)
        ELSE q
=============================================================================
