--------------------------- MODULE UsbcPortProofs ---------------------------
(***************************************************************************)
(* The USB-C port's safety, for any source, any fifo and any number of     *)
(* events and failures: first what each function of UsbcState keeps of the *)
(* port, then what each step of UsbcPort keeps of all of it.               *)
(***************************************************************************)
EXTENDS UsbcPort, WellFoundedInduction, TLAPS

(* With nothing plugged in there is no contract to ask another of.         *)
Unplugged(p) == p.cc = "none" => ~p.contract /\ ~p.retryQ

(* VBUS is on for a partner, or because it would not go off.               *)
Driven(p) == p.vbusOn => p.stopFailed \/ (p.cc = "source" /\ ~p.halted)

Held(p) ==
    p.halted => /\ p.cc = "none" /\ ~p.contract
                /\ ~p.vbusQ /\ ~p.retryQ
                /\ p.vbusOn => p.stopFailed
                /\ p.ilim = IlimSafe \/ p.ilimFailed

Noticed(p) == ~p.configured => p.halted \/ ~p.masks

Sound(p) == p \in Port /\ Unplugged(p) /\ Driven(p) /\ Held(p) /\ Noticed(p)

(* What the functions that neither hold nor recover the port leave alone.  *)
Running(p) == p \in Port /\ ~p.halted /\ Unplugged(p) /\ Driven(p)

SameChip(p, q) ==
    /\ q.configured = p.configured /\ q.masks = p.masks
    /\ q.recoverQ = p.recoverQ

(* A port that takes itself for the source is right, or hears of it.       *)
CcHeard == "cc" \in ints \cup isr \/ fifo # <<>> \/ overflow \/ port.ccMissed
SourceKnown == pm = "up" /\ port.cc = "source" /\ cc # "source" => CcHeard

(* The removal, work by work.                                              *)
Drains ==
    /\ pm # "up" => isr = {}
    /\ pm \notin {"up", "work"} => ~workQ /\ ~draining
    /\ pm \in {"detach", "removed"} => port.recoverQ = "off"
    /\ pm = "removed" =>
          ~port.vbusQ /\ ~port.retryQ /\ port.cc = "none"

IInv == TypeOK /\ Sound(port) /\ SourceKnown /\ Drains

-----------------------------------------------------------------------------
(* The offers of a source and the scan that picks one.                     *)

(* A set of numbers has a least one.                                       *)
LEMMA LeastOf ==
    ASSUME NEW T, T \subseteq Nat, T # {}
    PROVE  \E k \in T : \A m \in T : k <= m
<1> DEFINE R == OpToRel(<, Nat)
<1>1. IsWellFoundedOn(R, Nat)
  BY NatLessThanWellFounded
<1>2. ASSUME NEW m \in Nat, NEW k \in Nat, m < k PROVE <<m, k>> \in R
  BY <1>2 DEF OpToRel
<1> HIDE DEF R
<1>3. PICK k \in T : \A m \in T : ~(<<m, k>> \in R)
  BY <1>1, WFMin
<1>4. ASSUME NEW m \in T PROVE k <= m
  <2>1. m \in Nat /\ k \in Nat /\ ~(m < k)
    BY <1>2, <1>3
  <2> QED
    BY <2>1
<1> QED
  BY <1>4

(* The offers, as numbers.                                                 *)
LEMMA OfferTypes ==
    ASSUME NEW i \in Pos
    PROVE  /\ SrcPdos[i].fixed \in BOOLEAN
           /\ SrcPdos[i].mv \in Nat \ {0} /\ SrcPdos[i].ma \in Nat
           /\ PdoIlim(i) \in Nat /\ Mw(i) \in Nat
<1>1. SrcPdos[i] \in Pdo
  BY UsbcStateAssumption DEF Pos
<1>2. SrcPdos[i].fixed \in BOOLEAN /\ SrcPdos[i].ma \in Nat /\ SrcPdos[i].mv \in Nat \ {0}
  BY <1>1 DEF Pdo
<1>3. (PdMaxMw * 1000) \div SrcPdos[i].mv \in Nat
  BY <1>2 DEF PdMaxMw
<1>4. PdoIlim(i) \in Nat
  BY <1>2, <1>3 DEF PdoIlim, Smaller, PdMaxMa
<1>5. SrcPdos[i].mv * PdoIlim(i) \in Nat
  BY <1>2, <1>4
<1> QED
  BY <1>2, <1>4, <1>5 DEF Mw

(* The recursive definition of Scan defines a function.                    *)
ScanZero == [pos |-> 0, mw |-> 0, mv |-> 0]
ScanNext(b, n) == IF Better(n, b) THEN Took(n, b) ELSE b
IsScan(s, n) ==
    s = [k \in 0..n |-> IF k = 0 THEN ScanZero ELSE ScanNext(s[k - 1], k)]

LEMMA ScanExtends ==
    ASSUME NEW n \in Nat \ {0}, NEW s, IsScan(s, n - 1)
    PROVE  \E t : IsScan(t, n)
<1> DEFINE t == [k \in 0..n |-> IF k = n THEN ScanNext(s[n - 1], n) ELSE s[k]]
<1>1. \A k \in 0..(n - 1) : s[k] = IF k = 0 THEN ScanZero ELSE ScanNext(s[k - 1], k)
  BY DEF IsScan
<1> HIDE DEF ScanZero
<1>2. ASSUME NEW k \in 0..n
      PROVE  t[k] = IF k = 0 THEN ScanZero ELSE ScanNext(t[k - 1], k)
  <2>1. CASE k = 0
    <3>1. t[k] = s[k] /\ k \in 0..(n - 1)
      BY <2>1
    <3> QED
      BY <1>1, <2>1, <3>1
  <2>2. CASE k = n
    <3>1. t[k] = ScanNext(s[n - 1], n) /\ k # 0
      BY <2>2
    <3>2. n - 1 \in 0..n /\ n - 1 # n
      OBVIOUS
    <3>3. t[n - 1] = s[n - 1]
      BY <3>2
    <3> QED
      BY <2>2, <3>1, <3>3
  <2>3. CASE k # 0 /\ k # n
    <3>1. k \in 0..(n - 1) /\ k - 1 \in 0..n /\ k - 1 # n
      BY <2>3
    <3>2. t[k] = s[k] /\ t[k - 1] = s[k - 1]
      BY <2>3, <3>1
    <3> QED
      BY <1>1, <2>3, <3>1, <3>2
  <2> QED
    BY <2>1, <2>2, <2>3
<1>3. t = [k \in 0..n |-> t[k]]
  OBVIOUS
<1> HIDE DEF t
<1>4. t = [k \in 0..n |-> IF k = 0 THEN ScanZero ELSE ScanNext(t[k - 1], k)]
  BY <1>2, <1>3
<1> QED
  BY <1>4 DEF IsScan

LEMMA ScanExists == \A n \in Nat : \E s : IsScan(s, n)
<1> DEFINE T == {n \in Nat : ~\E s : IsScan(s, n)}
<1>1. SUFFICES ASSUME T # {} PROVE FALSE
  OBVIOUS
<1>2. PICK k \in T : \A m \in T : k <= m
  BY <1>1, LeastOf
<1>3. k \in Nat /\ ~\E s : IsScan(s, k)
  OBVIOUS
<1>4. k # 0
  <2> DEFINE z == [j \in 0..0 |-> ScanZero]
  <2>1. IsScan(z, 0)
    BY DEF IsScan
  <2> QED
    BY <1>3, <2>1
<1>5. k - 1 \in Nat /\ k - 1 \notin T
  BY <1>2, <1>3, <1>4
<1>6. PICK s : IsScan(s, k - 1)
  BY <1>5
<1> QED
  BY <1>3, <1>4, <1>6, ScanExtends

LEMMA ScanIs ==
    \A n \in 0..Len(SrcPdos) :
        Scan[n] = IF n = 0 THEN ScanZero ELSE ScanNext(Scan[n - 1], n)
<1>1. Len(SrcPdos) \in Nat
  BY UsbcStateAssumption
<1>2. Scan = CHOOSE s : IsScan(s, Len(SrcPdos))
  BY DEF Scan, IsScan, ScanNext, ScanZero
<1>3. IsScan(Scan, Len(SrcPdos))
  BY <1>1, <1>2, ScanExists
<1> QED
  BY <1>3 DEF IsScan
(* Arithmetic of the scan.                                                 *)
LEMMA DivBelow ==
    ASSUME NEW x \in Nat, NEW y \in Nat, x \div 1000 < y \div 1000
    PROVE  x < y
  OBVIOUS

LEMMA ProductBelow ==
    ASSUME NEW v \in Nat, NEW w \in Nat, NEW a \in Nat, NEW b \in Nat,
           w < v, v * a < w * b
    PROVE  a <= b
<1> SUFFICES ASSUME b < a PROVE FALSE
  OBVIOUS
<1>1. w * b <= w * a
  OBVIOUS
<1>2. w * a <= v * a
  OBVIOUS
<1>3. w * b \in Nat /\ w * a \in Nat /\ v * a \in Nat
  OBVIOUS
<1> QED
  BY <1>1, <1>2, <1>3

(* What the scan knows of the offers it has seen, when they come in the    *)
(* order of their voltage: the offer it stands at gives the power it       *)
(* remembers, less the slack at most, and those behind it give less than   *)
(* that.                                                                   *)
Stands(n) ==
    LET b == Scan[n]
    IN  /\ b.pos \in 0..n /\ b.mw \in Nat /\ b.mv \in Nat
        /\ b.pos = 0 => b.mw = 0 /\ b.mv = 0
        /\ b.pos # 0 => /\ b.pos \in Acceptable /\ b.mv = SrcPdos[b.pos].mv
                        /\ b.mw <= Mw(b.pos) + MwSlack
        /\ \A i \in Acceptable :
              i <= n => /\ Mw(i) <= b.mw
                        /\ i > b.pos => Mw(i) + MwSlack < b.mw

LEMMA AcceptableTypes ==
    ASSUME NEW i \in Acceptable
    PROVE  /\ i \in Pos /\ i \in Nat /\ i > 0 /\ SrcPdos[i].fixed
           /\ SrcPdos[i].mv \in Nat /\ 5000 <= SrcPdos[i].mv
           /\ SrcPdos[i].mv <= PdMaxMv
           /\ PdoIlim(i) \in Nat /\ Mw(i) \in Nat
  BY OfferTypes, UsbcStateAssumption DEF Acceptable, Pos

LEMMA StandsNext ==
    ASSUME OffersInOrder, NEW n \in Pos, Stands(n - 1)
    PROVE  Stands(n)
<1> DEFINE b == Scan[n - 1]
           c == Scan[n]
<1>1. /\ Len(SrcPdos) \in Nat /\ n \in Nat /\ n # 0
      /\ n \in 0..Len(SrcPdos) /\ n - 1 \in Nat
  BY UsbcStateAssumption DEF Pos
<1>2. c = IF Better(n, b) THEN Took(n, b) ELSE b
  BY <1>1, ScanIs DEF ScanNext
<1>3. /\ b.pos \in 0..(n - 1) /\ b.mw \in Nat /\ b.mv \in Nat
      /\ b.pos = 0 => b.mw = 0 /\ b.mv = 0
      /\ b.pos # 0 => /\ b.pos \in Acceptable /\ b.mv = SrcPdos[b.pos].mv
                      /\ b.mw <= Mw(b.pos) + MwSlack
      /\ \A i \in Acceptable :
            i <= n - 1 => /\ Mw(i) <= b.mw
                          /\ i > b.pos => Mw(i) + MwSlack < b.mw
  BY DEF Stands
<1> HIDE DEF b, c
<1>4. CASE Better(n, b)
  <2>1. c = Took(n, b)
    BY <1>2, <1>4
  <2>2. /\ c.pos = n /\ c.mv = SrcPdos[n].mv
        /\ c.mw = IF Mw(n) > b.mw THEN Mw(n) ELSE b.mw
    BY <2>1 DEF Took
  <2>3. n \in Acceptable /\ Mw(n) + MwSlack >= b.mw /\ Mw(n) \in Nat
    <3>1. n \in Acceptable /\ Mw(n) \in Nat
      BY <1>4, AcceptableTypes DEF Better
    <3> QED
      BY <1>3, <1>4, <3>1 DEF Better, MwSlack
  <2>4. SrcPdos[n].mv \in Nat
    BY <2>3, AcceptableTypes
  <2>5. c.mw \in Nat /\ c.mw <= Mw(n) + MwSlack
    BY <1>3, <2>2, <2>3 DEF MwSlack
  <2>6. ASSUME NEW i \in Acceptable, i <= n
        PROVE  Mw(i) <= c.mw /\ ~(i > n)
    <3>1. i \in Nat /\ Mw(i) \in Nat
      BY AcceptableTypes
    <3>2. CASE i = n
      BY <1>1, <1>3, <2>2, <2>3, <3>2
    <3>3. CASE i # n
      <4>1. Mw(i) <= b.mw
        BY <1>1, <1>3, <2>6, <3>1, <3>3
      <4>2. b.mw <= c.mw
        BY <1>3, <2>2, <2>3
      <4>3. Mw(i) <= c.mw
        BY <1>3, <2>5, <3>1, <4>1, <4>2
      <4> QED
        BY <1>1, <2>6, <3>1, <4>3
    <3> QED
      BY <3>2, <3>3
  <2> QED
    BY <1>1, <2>2, <2>3, <2>4, <2>5, <2>6 DEF Stands, c
<1>5. CASE ~Better(n, b)
  <2>1. c = b
    BY <1>2, <1>5
  <2>2. ASSUME NEW i \in Acceptable, i > b.pos, i <= n
        PROVE  Mw(i) + MwSlack < b.mw
    <3>1. CASE i = n
      <4>1. /\ Mw(n) \in Nat /\ SrcPdos[n].mv \in Nat /\ 5000 <= SrcPdos[n].mv
            /\ SrcPdos[n].fixed
        BY <2>2, <3>1, AcceptableTypes
      <4>2. SrcPdos[n].mv > b.mv
        <5>1. CASE b.pos = 0
          BY <1>3, <4>1, <5>1
        <5>2. CASE b.pos # 0
          <6>1. b.pos \in Pos /\ SrcPdos[b.pos].fixed /\ SrcPdos[b.pos].mv \in Nat
            BY <1>3, <5>2, AcceptableTypes
          <6>2. b.pos < n
            BY <1>1, <1>3
          <6>3. SrcPdos[b.pos].mv < SrcPdos[n].mv
            BY <4>1, <6>1, <6>2 DEF OffersInOrder
          <6> QED
            BY <1>3, <4>1, <5>2, <6>1, <6>3
        <5> QED
          BY <5>1, <5>2
      <4>3. ~(Mw(n) + MwSlack >= b.mw)
        BY <1>5, <2>2, <3>1, <4>2 DEF Better
      <4> QED
        BY <1>3, <3>1, <4>1, <4>3 DEF MwSlack
    <3>2. CASE i # n
      <4>1. i <= n - 1
        BY <1>1, <2>2, <3>2, AcceptableTypes
      <4> QED
        BY <1>3, <2>2, <4>1
    <3> QED
      BY <3>1, <3>2
  <2>3. b.pos \in 0..n
    BY <1>1, <1>3
  <2>4. ASSUME NEW i \in Acceptable, i <= n
        PROVE  Mw(i) <= b.mw
    <3>1. i \in Nat /\ Mw(i) \in Nat
      BY AcceptableTypes
    <3>2. CASE i > b.pos
      BY <1>3, <2>2, <2>4, <3>1, <3>2 DEF MwSlack
    <3>3. CASE ~(i > b.pos)
      BY <1>1, <1>3, <2>4, <3>1, <3>3
    <3> QED
      BY <3>2, <3>3
  <2> QED
    BY <1>3, <2>1, <2>2, <2>3, <2>4 DEF Stands, c
<1> QED
  BY <1>4, <1>5

LEMMA ScanStands == OffersInOrder => \A n \in 0..Len(SrcPdos) : Stands(n)
<1> SUFFICES ASSUME OffersInOrder
             PROVE  \A n \in 0..Len(SrcPdos) : Stands(n)
  OBVIOUS
<1> DEFINE T == {n \in 0..Len(SrcPdos) : ~Stands(n)}
<1>1. SUFFICES ASSUME T # {} PROVE FALSE
  OBVIOUS
<1>2. Len(SrcPdos) \in Nat /\ T \subseteq Nat
  BY UsbcStateAssumption
<1>3. PICK k \in T : \A m \in T : k <= m
  BY <1>1, <1>2, LeastOf
<1>4. k \in 0..Len(SrcPdos) /\ ~Stands(k)
  OBVIOUS
<1>5. k # 0
  <2>1. Scan[0] = ScanZero
    BY <1>2, ScanIs
  <2>2. Stands(0)
    <3>1. Scan[0].pos = 0 /\ Scan[0].mw = 0 /\ Scan[0].mv = 0
      BY <2>1 DEF ScanZero
    <3>2. ~\E i \in Acceptable : i <= 0
      BY AcceptableTypes
    <3> QED
      BY <3>1, <3>2 DEF Stands
  <2> QED
    BY <1>4, <2>2
<1>6. k - 1 \in 0..Len(SrcPdos) /\ k \in Pos
  BY <1>2, <1>4, <1>5 DEF Pos
<1>7. Stands(k - 1)
  <2>1. k - 1 \notin T
    BY <1>2, <1>3, <1>4
  <2> QED
    BY <1>6, <2>1
<1> QED
  BY <1>4, <1>6, <1>7, StandsNext

(* max77705_usbc_best_pos(): of the offers the policy takes the driver     *)
(* picks one that gives the most power, but for the slack, and one of more *)
(* voltage gives less; it picks none only if the policy takes none.        *)
THEOREM BestOfferIsPicked ==
    ASSUME OffersInOrder, NEW i \in Acceptable
    PROVE  /\ BestPos \in Acceptable
           /\ Mw(i) <= Mw(BestPos) + MwSlack
           /\ SrcPdos[i].mv > SrcPdos[BestPos].mv => Mw(i) < Mw(BestPos)
<1> DEFINE n == Len(SrcPdos)
           b == Scan[n]
<1>1. n \in Nat /\ n \in 0..n
  BY UsbcStateAssumption
<1>2. Stands(n)
  BY <1>1, ScanStands
<1>3. /\ i \in Pos /\ SrcPdos[i].fixed /\ i \in 1..n
      /\ SrcPdos[i].mv \in Nat /\ Mw(i) \in Nat
  BY AcceptableTypes DEF Pos
<1>4. /\ b.pos \in 0..n /\ b.mw \in Nat
      /\ b.pos = 0 => b.mw = 0
      /\ b.pos # 0 => b.pos \in Acceptable /\ b.mw <= Mw(b.pos) + MwSlack
      /\ Mw(i) <= b.mw
      /\ i > b.pos => Mw(i) + MwSlack < b.mw
  BY <1>1, <1>2, <1>3 DEF Stands
<1> HIDE DEF b
<1>5. b.pos # 0
  BY <1>1, <1>3, <1>4 DEF MwSlack
<1>6. /\ b.pos \in Pos /\ SrcPdos[b.pos].fixed /\ b.pos \in Nat
      /\ SrcPdos[b.pos].mv \in Nat /\ Mw(b.pos) \in Nat
  BY <1>4, <1>5, AcceptableTypes
<1>7. ASSUME SrcPdos[i].mv > SrcPdos[b.pos].mv PROVE i > b.pos
  <2>1. ~(i < b.pos)
    BY <1>3, <1>6, <1>7 DEF OffersInOrder
  <2>2. i # b.pos
    BY <1>3, <1>7
  <2> QED
    BY <1>1, <1>3, <1>6, <2>1, <2>2
<1>8. Mw(i) <= Mw(b.pos) + MwSlack
  BY <1>3, <1>4, <1>5, <1>6 DEF MwSlack
<1>9. i > b.pos => Mw(i) < Mw(b.pos)
  BY <1>3, <1>4, <1>5, <1>6 DEF MwSlack
<1> QED
  BY <1>4, <1>5, <1>7, <1>8, <1>9 DEF BestPos, b

(* An offer of more voltage than the one picked gives less current.        *)
LEMMA LessVoltageMoreCurrent ==
    ASSUME OffersInOrder,
           NEW i \in Acceptable, SrcPdos[BestPos].mv < SrcPdos[i].mv
    PROVE  PdoIlim(i) <= PdoIlim(BestPos)
<1> DEFINE best == BestPos
<1>1. best \in Acceptable /\ SrcPdos[best].mv < SrcPdos[i].mv
  BY BestOfferIsPicked
<1>2. /\ SrcPdos[i].mv \in Nat /\ PdoIlim(i) \in Nat /\ Mw(i) \in Nat
  BY AcceptableTypes
<1> HIDE DEF best
<1>3. /\ SrcPdos[best].mv \in Nat /\ PdoIlim(best) \in Nat /\ Mw(best) \in Nat
  BY <1>1, AcceptableTypes
<1>4. Mw(i) < Mw(best)
  BY <1>1, <1>2, BestOfferIsPicked DEF best
<1>5. SrcPdos[i].mv * PdoIlim(i) < SrcPdos[best].mv * PdoIlim(best)
  <2>1. /\ SrcPdos[i].mv * PdoIlim(i) \in Nat
        /\ SrcPdos[best].mv * PdoIlim(best) \in Nat
    BY <1>2, <1>3
  <2> QED
    BY <1>4, <2>1, DivBelow DEF Mw
<1>6. PdoIlim(i) <= PdoIlim(best)
  BY <1>1, <1>2, <1>3, <1>5, ProductBelow
<1> QED
  BY <1>6 DEF best

-----------------------------------------------------------------------------
(* The limits the policy gives are limits.                                 *)
LEMMA IlimTypes ==
    /\ \A i \in Pos : PdoIlim(i) \in Nat /\ ContractIlim(i) \in Nat
    /\ \A i, j \in Pos : BothIlim(i, j) \in Nat
  BY OfferTypes DEF ContractIlim, BothIlim, Smaller, IlimSafe

LEMMA ZeroInRange == 0 \in 0..Len(SrcPdos)
  BY UsbcStateAssumption

LEMMA WantedRange ==
    ASSUME NEW p \in Port
    PROVE  /\ Wanted(p) \in 0..Len(SrcPdos)
           /\ Wanted(p) # 0 => Wanted(p) \in Pos /\ p.sel \in Pos /\ p.contract
  BY UsbcStateAssumption DEF Wanted, Acceptable, Pos, Port

(* The charger.                                                            *)
LEMMA SetIlimKeeps ==
    ASSUME NEW p \in Port, NEW ma \in Nat, NEW call, NEW f,
           NEW q, q = SetIlim(p, ma, call, f)
    PROVE  /\ q \in Port
           /\ q.cc = p.cc /\ q.vbusOn = p.vbusOn /\ q.vbusQ = p.vbusQ
           /\ q.stopFailed = p.stopFailed /\ q.contract = p.contract
           /\ q.sel = p.sel /\ q.retryQ = p.retryQ
           /\ q.halted = p.halted /\ q.window = p.window
           /\ q.recoveries = p.recoveries
           /\ SameChip(p, q)
           /\ q.ilim = ma \/ q.ilimFailed
  BY ZenonT(30) DEF SetIlim, Port, SameChip

LEMMA RestoreIlimKeeps ==
    ASSUME NEW p \in Port, NEW f, NEW q, q = RestoreIlim(p, f)
    PROVE  /\ q \in Port
           /\ q.cc = p.cc /\ q.vbusOn = p.vbusOn /\ q.vbusQ = p.vbusQ
           /\ q.stopFailed = p.stopFailed /\ q.contract = p.contract
           /\ q.sel = p.sel /\ q.retryQ = p.retryQ
           /\ q.halted = p.halted /\ q.window = p.window
           /\ q.recoveries = p.recoveries
           /\ SameChip(p, q)
  BY UsbcStateAssumption, ZenonT(30) DEF RestoreIlim, SetIlim, Port, SameChip

(* VBUS.                                                                   *)
LEMMA VbusOffKeeps ==
    ASSUME NEW p \in Port, NEW f, NEW q, q = VbusOff(p, f)
    PROVE  /\ q \in Port
           /\ q.vbusOn => q.stopFailed
           /\ ~q.vbusQ
           /\ q.cc = p.cc /\ q.contract = p.contract /\ q.sel = p.sel
           /\ q.retryQ = p.retryQ /\ q.halted = p.halted
           /\ q.window = p.window /\ q.recoveries = p.recoveries
           /\ SameChip(p, q)
<1>1. CASE "stop" \in f
  <2>1. q = [p EXCEPT !.vbusQ = FALSE, !.stopFailed = p.vbusOn]
    BY <1>1 DEF VbusOff
  <2> QED
    BY <2>1, ZenonT(30) DEF Port, SameChip
<1>2. CASE "stop" \notin f
  <2>1. q = [p EXCEPT !.vbusQ = FALSE, !.stopFailed = FALSE, !.vbusOn = FALSE]
    BY <1>2 DEF VbusOff
  <2> QED
    BY <2>1, ZenonT(30) DEF Port, SameChip
<1> QED
  BY <1>1, <1>2

LEMMA VbusSourceKeeps ==
    ASSUME NEW p, Running(p), NEW delayed \in BOOLEAN, NEW busy \in BOOLEAN,
           NEW q, q = VbusSource(p, delayed, busy)
    PROVE  Running(q) /\ SameChip(p, q) /\ q.cc = p.cc
<1>1. q \in Port
  BY DEF VbusSource, Running, Port
<1> QED
  BY <1>1 DEF VbusSource, Running, Port, SameChip, Unplugged, Driven

LEMMA VbusRunKeeps ==
    ASSUME NEW p, Sound(p), NEW busy \in BOOLEAN,
           NEW q, q = VbusRun(p, busy)
    PROVE  /\ Sound(q) /\ q.cc = p.cc /\ q.recoverQ = p.recoverQ
           /\ q.ccMissed = p.ccMissed
           /\ q.retryQ = p.retryQ
<1>1. p \in Port /\ VbusRetries \in Nat
  BY UsbcStateAssumption DEF Sound
<1>2. q \in Port
  <2> DEFINE again == p.retries + 1 < VbusRetries
  <2>1. again \in BOOLEAN
    OBVIOUS
  <2> HIDE DEF again
  <2>2. p.retries + 1 \in Nat
    BY <1>1 DEF Port
  <2>3. CASE p.cc # "source" \/ p.halted \/ CanSource(p, busy)
    BY <1>1, <2>3, ZenonT(30) DEF VbusRun, Port
  <2>4. CASE ~(p.cc # "source" \/ p.halted \/ CanSource(p, busy))
    <3>1. q = [p EXCEPT !.vbusQ = again, !.retries = p.retries + 1]
      BY <1>1, <2>4 DEF VbusRun, Port, again
    <3> QED
      BY <1>1, <2>1, <2>2, <3>1, ZenonT(30) DEF Port
  <2> QED
    BY <2>3, <2>4
<1>3. /\ q.cc = p.cc /\ q.recoverQ = p.recoverQ /\ q.ccMissed = p.ccMissed
      /\ q.retryQ = p.retryQ /\ q.contract = p.contract /\ q.halted = p.halted
      /\ q.ilim = p.ilim /\ q.ilimFailed = p.ilimFailed
      /\ q.configured = p.configured /\ q.masks = p.masks
  BY <1>1 DEF VbusRun, Port
<1>4. /\ p.cc # "source" \/ p.halted =>
            ~q.vbusQ /\ q.vbusOn = p.vbusOn /\ q.stopFailed = p.stopFailed
      /\ p.cc = "source" /\ ~p.halted =>
            (q.vbusOn => q.stopFailed \/ (q.cc = "source" /\ ~q.halted))
  BY <1>1 DEF VbusRun, Port
<1> QED
  BY <1>1, <1>2, <1>3, <1>4 DEF Sound, Unplugged, Driven, Held, Noticed

(* CCStat.                                                                 *)
LEMMA NoneKeeps ==
    ASSUME NEW p \in Port, NEW q, q = [p EXCEPT !.nreq = 0, !.cc = "none"]
    PROVE  /\ q \in Port
           /\ q.cc = "none"
           /\ q.contract = p.contract /\ q.vbusQ = p.vbusQ
           /\ q.retryQ = p.retryQ /\ q.vbusOn = p.vbusOn
           /\ q.stopFailed = p.stopFailed /\ q.halted = p.halted
           /\ q.window = p.window /\ q.recoveries = p.recoveries
           /\ SameChip(p, q)
  BY DEF Port, CcStats, SameChip

LEMMA PdResetType ==
    ASSUME NEW p \in Port, NEW q, q = PdReset(p)
    PROVE  /\ q \in Port
           /\ q.cc = p.cc /\ ~q.contract /\ ~q.retryQ
           /\ q.vbusQ = p.vbusQ /\ q.vbusOn = p.vbusOn
           /\ q.stopFailed = p.stopFailed /\ q.halted = p.halted
           /\ q.window = p.window /\ q.recoveries = p.recoveries
           /\ SameChip(p, q)
  BY ZeroInRange, ZenonT(30) DEF PdReset, Port, SameChip

LEMMA DetachKeeps ==
    ASSUME NEW p \in Port, NEW f, NEW q, q = Detach(p, f)
    PROVE  /\ q \in Port
           /\ q.cc = "none" /\ ~q.contract /\ ~q.vbusQ /\ ~q.retryQ
           /\ q.vbusOn => q.stopFailed
           /\ q.halted = p.halted
           /\ q.window = p.window /\ q.recoveries = p.recoveries
           /\ SameChip(p, q)
<1> DEFINE o == VbusOff(p, f)
           r == IF p.cc = "sink" THEN RestoreIlim(o, f) ELSE o
           t == PdReset(r)
<1>1. /\ o \in Port /\ ~o.vbusQ /\ (o.vbusOn => o.stopFailed)
      /\ o.halted = p.halted /\ o.window = p.window
      /\ o.recoveries = p.recoveries /\ SameChip(p, o)
  BY VbusOffKeeps
<1>2. /\ r \in Port /\ ~r.vbusQ /\ (r.vbusOn => r.stopFailed)
      /\ r.halted = p.halted /\ r.window = p.window
      /\ r.recoveries = p.recoveries /\ SameChip(p, r)
  BY <1>1, RestoreIlimKeeps DEF SameChip
<1>3. q = [t EXCEPT !.nreq = 0, !.cc = "none"]
  BY DEF Detach
<1> HIDE DEF r
<1>4. /\ t \in Port /\ ~t.vbusQ /\ (t.vbusOn => t.stopFailed)
      /\ ~t.contract /\ ~t.retryQ
      /\ t.halted = p.halted /\ t.window = p.window
      /\ t.recoveries = p.recoveries /\ SameChip(p, t)
  BY <1>2, PdResetType DEF SameChip
<1> HIDE DEF t
<1>5. /\ q \in Port
      /\ q.cc = "none"
      /\ q.contract = t.contract /\ q.vbusQ = t.vbusQ
      /\ q.retryQ = t.retryQ /\ q.vbusOn = t.vbusOn
      /\ q.stopFailed = t.stopFailed /\ q.halted = t.halted
      /\ q.window = t.window /\ q.recoveries = t.recoveries
      /\ SameChip(t, q)
  BY <1>3, <1>4, NoneKeeps
<1> QED
  BY <1>4, <1>5 DEF SameChip

LEMMA LetGoKeeps ==
    ASSUME NEW p \in Port, Unplugged(p), NEW f, NEW q, q = LetGo(p, f)
    PROVE  /\ q \in Port
           /\ q.cc = "none" /\ ~q.contract /\ ~q.vbusQ /\ ~q.retryQ
           /\ q.vbusOn => q.stopFailed
           /\ q.halted = p.halted
           /\ q.window = p.window /\ q.recoveries = p.recoveries
           /\ SameChip(p, q)
<1>1. CASE p.cc # "none"
  <2>1. q = Detach(p, f)
    BY <1>1 DEF LetGo
  <2> QED
    BY <2>1, DetachKeeps
<1>2. CASE p.cc = "none"
  <2>1. q = VbusOff(p, f)
    BY <1>2 DEF LetGo
  <2> QED
    BY <1>2, <2>1, VbusOffKeeps DEF Unplugged
<1> QED
  BY <1>1, <1>2

LEMMA PdResetKeeps ==
    ASSUME NEW p, Running(p), NEW q, q = PdReset(p)
    PROVE  Running(q) /\ SameChip(p, q) /\ q.cc = p.cc
  BY PdResetType DEF Running, Unplugged, Driven

(* update_cc() takes CCStat over.                                          *)
LEMMA CcTaken ==
    ASSUME NEW p \in Port, NEW c \in CcStats,
           NEW q, q = [p EXCEPT !.cc = c]
    PROVE  /\ q \in Port /\ q.cc = c /\ SameChip(p, q)
           /\ q.halted = p.halted
           /\ q.vbusOn = p.vbusOn /\ q.stopFailed = p.stopFailed
  BY DEF Port, SameChip

LEMMA UpdateCcKeeps ==
    ASSUME NEW p, Running(p), NEW c \in CcStats, NEW busy \in BOOLEAN, NEW f,
           NEW q, q = UpdateCc(p, c, busy, f)
    PROVE  Running(q) /\ SameChip(p, q) /\ q.cc = c
<1> DEFINE a == IF c # "source" THEN VbusOff(p, f) ELSE p
           b == [a EXCEPT !.ccMissed = FALSE]
           r == [b EXCEPT !.cc = c]
           s == IF p.cc = "none" THEN r ELSE PdReset(RestoreIlim(r, f))
<1>1. /\ Running(a) /\ SameChip(p, a) /\ a.cc = p.cc
      /\ c # "source" /\ a.vbusOn => a.stopFailed
  BY VbusOffKeeps DEF Running, SameChip, Unplugged, Driven
<1> HIDE DEF a
<1>2. /\ Running(b) /\ SameChip(p, b) /\ b.cc = p.cc
      /\ c # "source" /\ b.vbusOn => b.stopFailed
  BY <1>1 DEF Running, SameChip, Unplugged, Driven, Port
<1> HIDE DEF b
<1>3. CASE c = p.cc
  BY <1>2, <1>3 DEF UpdateCc, a, b
<1>4. CASE c # p.cc /\ c = "none"
  <2>1. q = Detach(b, f)
    BY <1>4 DEF UpdateCc, a, b
  <2> QED
    <3>1. b \in Port
      BY <1>2 DEF Running
    <3>2. /\ q \in Port
          /\ q.cc = "none" /\ ~q.contract /\ ~q.retryQ
          /\ q.vbusOn => q.stopFailed
          /\ q.halted = b.halted /\ SameChip(b, q)
      BY <2>1, <3>1, DetachKeeps
    <3> QED
      BY <1>2, <1>4, <3>2 DEF Running, SameChip, Unplugged, Driven
<1>5. CASE c # p.cc /\ c \notin {"none", "source"}
  <2>1. q = r
    BY <1>5 DEF UpdateCc, a, b
  <2>2. b \in Port
    BY <1>2 DEF Running
  <2>3. /\ q \in Port /\ q.cc = c /\ SameChip(b, q) /\ q.halted = b.halted
        /\ q.vbusOn = b.vbusOn /\ q.stopFailed = b.stopFailed
    BY <2>1, <2>2, CcTaken
  <2> QED
    BY <1>2, <1>5, <2>3 DEF Running, SameChip, Unplugged, Driven
<1>6. CASE c # p.cc /\ c = "source"
  <2>1. q = VbusSource(s, FALSE, busy)
    BY <1>6 DEF UpdateCc, a, b
  <2>2. Running(r) /\ SameChip(p, r) /\ r.cc = c
    <3>1. b \in Port
      BY <1>2 DEF Running
    <3>2. /\ r \in Port /\ r.cc = c /\ SameChip(b, r) /\ r.halted = b.halted
          /\ r.vbusOn = b.vbusOn /\ r.stopFailed = b.stopFailed
      BY <3>1, CcTaken
    <3> QED
      BY <1>2, <1>6, <3>2 DEF Running, SameChip, Unplugged, Driven
  <2> HIDE DEF r
  <2>3. Running(RestoreIlim(r, f)) /\ SameChip(p, RestoreIlim(r, f))
        /\ RestoreIlim(r, f).cc = c
    BY <2>2, RestoreIlimKeeps DEF Running, SameChip, Unplugged, Driven
  <2>4. Running(s) /\ SameChip(p, s) /\ s.cc = c
    BY <2>2, <2>3, PdResetKeeps DEF SameChip
  <2> HIDE DEF s
  <2>5. Running(q) /\ SameChip(s, q) /\ q.cc = s.cc
    BY <2>1, <2>4, VbusSourceKeeps
  <2> QED
    BY <2>4, <2>5 DEF SameChip
<1> QED
  BY <1>3, <1>4, <1>5, <1>6

(* Sink PD.                                                                *)
LEMMA CountKeeps ==
    ASSUME NEW p, Running(p), NEW q, q = [p EXCEPT !.nreq = @ + 1]
    PROVE  Running(q) /\ SameChip(p, q) /\ q.cc = p.cc /\ q.contract = p.contract
  BY SMTT(30) DEF Running, Port, SameChip, Unplugged, Driven

LEMMA AskKeeps ==
    ASSUME NEW p, Running(p), p.contract, NEW i \in 0..Len(SrcPdos),
           NEW q, \/ q = [p EXCEPT !.wire = i]
                  \/ q = [p EXCEPT !.req = i, !.wire = i, !.undone = FALSE]
                  \/ q = [p EXCEPT !.retryQ = TRUE]
    PROVE  Running(q) /\ SameChip(p, q) /\ q.cc = p.cc
<1>1. CASE q = [p EXCEPT !.wire = i]
  BY <1>1 DEF Running, Port, SameChip, Unplugged, Driven
<1>2. CASE q = [p EXCEPT !.req = i, !.wire = i, !.undone = FALSE]
  BY <1>2 DEF Running, Port, SameChip, Unplugged, Driven
<1>3. CASE q = [p EXCEPT !.retryQ = TRUE]
  BY <1>3 DEF Running, Port, SameChip, Unplugged, Driven
<1> QED
  BY <1>1, <1>2, <1>3

LEMMA UndoneKeeps ==
    ASSUME NEW p, Running(p), NEW b \in BOOLEAN,
           NEW q, q = [p EXCEPT !.undone = b]
    PROVE  Running(q) /\ SameChip(p, q) /\ q.cc = p.cc /\ q.contract = p.contract
  BY DEF Running, Port, SameChip, Unplugged, Driven

LEMMA PdRequestKeeps ==
    ASSUME NEW p, Running(p), NEW sent \in BOOLEAN, NEW f,
           NEW q, q = PdRequest(p, sent, f)
    PROVE  Running(q) /\ SameChip(p, q) /\ q.cc = p.cc
<1> DEFINE best == Wanted(p)
           up == ContractMv(best) > ContractMv(p.sel)
           a == IF up THEN SetIlim(p, BothIlim(p.sel, best), "lower", f) ELSE p
           r == [a EXCEPT !.nreq = @ + 1]
           back == SetIlim(r, PdoIlim(p.sel), "undo", f)
           again == p.req # 0
           s == IF SrcPdos[p.sel].fixed THEN [back EXCEPT !.undone = again] ELSE r
<1>1. CASE best = 0
  BY <1>1 DEF PdRequest, SameChip
<1>2. CASE best # 0
  <2>1. best \in Pos /\ p.sel \in Pos /\ best \in 0..Len(SrcPdos) /\ p.contract
    BY <1>2, WantedRange DEF Running
  <2>2. PdoIlim(p.sel) \in Nat /\ BothIlim(p.sel, best) \in Nat
    BY <2>1, IlimTypes
  <2>3. /\ Running(a) /\ SameChip(p, a) /\ a.cc = p.cc /\ a.contract = p.contract
    BY <2>2, SetIlimKeeps DEF Running, SameChip, Unplugged, Driven
  <2>4. q = IF up /\ "lower" \in f THEN a
            ELSE IF "answer" \in f THEN [s EXCEPT !.wire = best]
            ELSE IF "ask" \in f THEN s
            ELSE IF sent THEN [r EXCEPT !.req = best, !.wire = best, !.undone = FALSE]
            ELSE [s EXCEPT !.retryQ = TRUE]
    BY <1>2 DEF PdRequest
  <2> HIDE DEF best, up, a
  <2>5. /\ Running(r) /\ SameChip(p, r) /\ r.cc = p.cc /\ r.contract = p.contract
    BY <2>3, CountKeeps DEF SameChip
  <2> HIDE DEF r
  <2>6. /\ Running(back) /\ SameChip(p, back) /\ back.cc = p.cc
        /\ back.contract = p.contract
    BY <2>2, <2>5, SetIlimKeeps DEF Running, SameChip, Unplugged, Driven
  <2>7. again \in BOOLEAN
    OBVIOUS
  <2> HIDE DEF back, again
  <2>8. /\ Running(s) /\ SameChip(p, s) /\ s.cc = p.cc /\ s.contract = p.contract
    BY <2>5, <2>6, <2>7, UndoneKeeps DEF SameChip
  <2> HIDE DEF s
  <2> QED
    BY <2>1, <2>3, <2>4, <2>5, <2>8, AskKeeps, ZenonT(30) DEF SameChip
<1> QED
  BY <1>1, <1>2

LEMMA ReadyKeeps ==
    ASSUME NEW p, Running(p), p.cc = "sink", NEW n \in 0..Len(SrcPdos),
           NEW q, q = [p EXCEPT !.contract = TRUE, !.sel = n, !.req = 0,
                                !.undone = FALSE, !.unread = FALSE]
    PROVE  Running(q) /\ SameChip(p, q) /\ q.cc = p.cc
  BY ZeroInRange DEF Running, Port, SameChip, Unplugged, Driven

LEMMA BackoffKeeps ==
    ASSUME NEW p, Running(p), NEW late \in BOOLEAN,
           NEW q, q = [p EXCEPT !.backoff = @ \/ late]
    PROVE  Running(q) /\ SameChip(p, q) /\ q.cc = p.cc
<1>1. (p.backoff \/ late) \in BOOLEAN
  OBVIOUS
<1> QED
  BY <1>1 DEF Running, Port, SameChip, Unplugged, Driven

LEMMA PdRequestCc ==
    ASSUME NEW p \in Port, NEW sent \in BOOLEAN, NEW f,
           NEW q, q = PdRequest(p, sent, f)
    PROVE  q.ccMissed = p.ccMissed
  BY DEF PdRequest, SetIlim, Port

LEMMA PdRequestUnread ==
    ASSUME NEW p \in Port, NEW sent \in BOOLEAN, NEW f,
           NEW q, q = PdRequest(p, sent, f)
    PROVE  q.unread = p.unread
  BY DEF PdRequest, SetIlim, Port

LEMMA PdReadyKeeps ==
    ASSUME NEW p, Running(p), NEW n \in 0..Len(SrcPdos), NEW sent \in BOOLEAN,
           NEW f, NEW q, q = PdReady(p, n, sent, f)
    PROVE  Running(q) /\ SameChip(p, q) /\ q.cc = p.cc
<1> DEFINE a == [p EXCEPT !.contract = TRUE, !.sel = n, !.req = 0,
                          !.undone = FALSE, !.unread = FALSE]
           b == SetIlim(a, ContractIlim(n), "limit", f)
<1>1. CASE p.cc # "sink" \/ n = 0
  BY <1>1 DEF PdReady, SameChip
<1>2. CASE p.cc = "sink" /\ n # 0 /\ "caps" \in f
  <2>1. q = [p EXCEPT !.unread = TRUE]
    BY <1>2 DEF PdReady
  <2> QED
    BY <2>1, ZenonT(30) DEF Running, Port, SameChip, Unplugged, Driven
<1>3. CASE p.cc = "sink" /\ n # 0 /\ "caps" \notin f
  <2>1. Running(a) /\ SameChip(p, a) /\ a.cc = p.cc
    BY <1>3, ReadyKeeps
  <2>2. n \in Pos /\ ContractIlim(n) \in Nat
    BY <1>3, IlimTypes, UsbcStateAssumption DEF Pos
  <2>3. q = PdRequest(b, sent, f)
    BY <1>3 DEF PdReady
  <2> HIDE DEF a
  <2>4. Running(b) /\ SameChip(p, b) /\ b.cc = p.cc
    BY <2>1, <2>2, SetIlimKeeps DEF Running, SameChip, Unplugged, Driven
  <2> HIDE DEF b
  <2> QED
    BY <2>3, <2>4, PdRequestKeeps DEF SameChip
<1> QED
  BY <1>1, <1>2, <1>3

LEMMA PdRejectedKeeps ==
    ASSUME NEW p, Running(p), NEW f, NEW q, q = PdRejected(p, f)
    PROVE  Running(q) /\ SameChip(p, q) /\ q.cc = p.cc
<1> DEFINE a == [p EXCEPT !.req = 0, !.undone = FALSE]
<1>1. CASE p.cc # "sink" \/ p.req = 0 \/ p.sel = 0
  BY <1>1 DEF PdRejected, SameChip
<1>2. CASE p.cc = "sink" /\ p.req # 0 /\ p.sel # 0
  <2>1. Running(a) /\ SameChip(p, a) /\ a.cc = p.cc
    BY ZeroInRange DEF Running, Port, SameChip, Unplugged, Driven
  <2>2. p.sel \in Pos /\ ContractIlim(p.sel) \in Nat
    BY <1>2, IlimTypes, UsbcStateAssumption DEF Pos, Running, Port
  <2>3. q = SetIlim(a, ContractIlim(p.sel), "limit", f)
    BY <1>2 DEF PdRejected
  <2> HIDE DEF a
  <2> QED
    BY <2>1, <2>2, <2>3, SetIlimKeeps DEF Running, SameChip, Unplugged, Driven
<1> QED
  BY <1>1, <1>2

LEMMA HardResetKeeps ==
    ASSUME NEW p, Running(p), NEW f, NEW q, q = HardReset(p, f)
    PROVE  Running(q) /\ SameChip(p, q) /\ q.cc = p.cc
<1> DEFINE o == VbusOff(p, f)
           late == p.req # 0
           b == [o EXCEPT !.backoff = @ \/ late]
           r == RestoreIlim(b, f)
<1>1. Running(o) /\ SameChip(p, o) /\ o.cc = p.cc
  BY VbusOffKeeps DEF Running, Unplugged, Driven
<1>2. /\ p.cc = "source" => q = VbusSource(o, TRUE, FALSE)
      /\ p.cc \notin {"source", "sink"} => q = o
      /\ p.cc = "sink" => q = PdReset(r)
  BY DEF HardReset
<1> HIDE DEF o
<1>3. ASSUME p.cc = "source"
      PROVE  Running(q) /\ SameChip(p, q) /\ q.cc = p.cc
  <2>1. q = VbusSource(o, TRUE, FALSE)
    BY <1>2, <1>3
  <2>2. Running(q) /\ SameChip(o, q) /\ q.cc = o.cc
    BY <1>1, <2>1, VbusSourceKeeps
  <2> QED
    BY <1>1, <2>2 DEF SameChip
<1>4. late \in BOOLEAN
  OBVIOUS
<1> HIDE DEF late
<1>5. Running(b) /\ SameChip(p, b) /\ b.cc = p.cc
  BY <1>1, <1>4, BackoffKeeps DEF SameChip
<1> HIDE DEF b
<1>6. Running(r) /\ SameChip(p, r) /\ r.cc = p.cc
  BY <1>5, RestoreIlimKeeps DEF Running, SameChip, Unplugged, Driven
<1> HIDE DEF r
<1>7. p.cc = "sink" => Running(q) /\ SameChip(p, q) /\ q.cc = p.cc
  BY <1>2, <1>6, PdResetKeeps DEF SameChip
<1> QED
  BY <1>1, <1>2, <1>3, <1>7

LEMMA PdMsgKeeps ==
    ASSUME NEW p, Running(p), NEW msg \in Msgs, NEW busy \in BOOLEAN, NEW f,
           NEW q, q = PdMsg(p, msg, busy, f)
    PROVE  Running(q) /\ SameChip(p, q) /\ q.cc = p.cc
<1>1. CASE msg = "reject"
  BY <1>1, PdRejectedKeeps DEF PdMsg
<1>2. CASE msg = "hardReset"
  BY <1>2, HardResetKeeps DEF PdMsg
<1>3. CASE msg = "vbusOff"
  <2>1. q = VbusOff(p, f)
    BY <1>3 DEF PdMsg
  <2> QED
    BY <2>1, VbusOffKeeps DEF Running, Unplugged, Driven
<1>4. CASE msg = "toSource"
  <2>1. q = VbusSource(p, FALSE, busy)
    BY <1>4 DEF PdMsg
  <2> QED
    BY <2>1, VbusSourceKeeps
<1>5. CASE msg \in {"none", "ready"}
  BY <1>5 DEF PdMsg, SameChip
<1> QED
  BY <1>1, <1>2, <1>3, <1>4, <1>5 DEF Msgs

-----------------------------------------------------------------------------
(* Recovery.  A port let go with its limit at the floor may be held.       *)
LEMMA HoldKeeps ==
    ASSUME NEW p \in Port,
           NEW q, q = [p EXCEPT !.halted = TRUE,
                        !.recoverQ = IF @ = "off" THEN "waiting" ELSE @,
                        !.window = IF p.recoverQ = "off" /\ @ = "new" THEN "old"
                                   ELSE @]
    PROVE  /\ q \in Port /\ q.halted
           /\ q.cc = p.cc /\ q.contract = p.contract /\ q.vbusQ = p.vbusQ
           /\ q.retryQ = p.retryQ /\ q.vbusOn = p.vbusOn
           /\ q.stopFailed = p.stopFailed
           /\ q.ilim = p.ilim /\ q.ilimFailed = p.ilimFailed
<1>1. CASE p.recoverQ = "off" /\ p.window = "new"
  BY <1>1 DEF Port, Windows
<1>2. CASE p.recoverQ = "off" /\ p.window # "new"
  BY <1>2 DEF Port, Windows
<1>3. CASE p.recoverQ # "off"
  BY <1>3 DEF Port, Windows
<1> QED
  BY <1>1, <1>2, <1>3

LEMMA FailSafeKeeps ==
    ASSUME NEW p \in Port, Unplugged(p), NEW f, NEW q, q = FailSafe(p, f)
    PROVE  Sound(q) /\ q.halted /\ q.cc = "none"
<1> DEFINE a == LetGo(p, f)
           b == SetIlim(a, IlimSafe, "limit", f)
<1>1. /\ a \in Port /\ a.cc = "none" /\ ~a.contract /\ ~a.vbusQ /\ ~a.retryQ
      /\ a.vbusOn => a.stopFailed
  BY LetGoKeeps
<1>2. q = [b EXCEPT !.halted = TRUE,
                    !.recoverQ = IF @ = "off" THEN "waiting" ELSE @,
                    !.window = IF b.recoverQ = "off" /\ @ = "new" THEN "old"
                               ELSE @]
  BY DEF FailSafe
<1> HIDE DEF a
<1>3. IlimSafe \in Nat
  BY DEF IlimSafe
<1>4. /\ b \in Port /\ b.cc = "none" /\ ~b.contract /\ ~b.vbusQ /\ ~b.retryQ
      /\ b.vbusOn => b.stopFailed
      /\ b.ilim = IlimSafe \/ b.ilimFailed
  BY <1>1, <1>3, SetIlimKeeps
<1> HIDE DEF b
<1>5. /\ q \in Port /\ q.halted
      /\ q.cc = b.cc /\ q.contract = b.contract /\ q.vbusQ = b.vbusQ
      /\ q.retryQ = b.retryQ /\ q.vbusOn = b.vbusOn
      /\ q.stopFailed = b.stopFailed
      /\ q.ilim = b.ilim /\ q.ilimFailed = b.ilimFailed
  BY <1>2, <1>4, HoldKeeps
<1> QED
  BY <1>4, <1>5 DEF Sound, Unplugged, Driven, Held, Noticed

LEMMA HwInitKeeps ==
    ASSUME NEW p \in Port, NEW f, NEW q, q = HwInit(p, f)
    PROVE  /\ q \in Port
           /\ q.cc = p.cc /\ q.contract = p.contract /\ q.vbusQ = p.vbusQ
           /\ q.retryQ = p.retryQ /\ q.vbusOn = p.vbusOn
           /\ q.stopFailed = p.stopFailed /\ q.halted = p.halted
           /\ q.ilim = p.ilim /\ q.ilimFailed = p.ilimFailed
           /\ q.recoverQ = p.recoverQ
           /\ {"masks", "init"} \cap f = {} => q.configured
<1>1. CASE "masks" \in f
  BY <1>1 DEF HwInit
<1>2. CASE "masks" \notin f /\ "init" \in f
  <2>1. q = [p EXCEPT !.masks = TRUE]
    BY <1>2 DEF HwInit
  <2> QED
    BY <1>2, <2>1, ZenonT(30) DEF Port
<1>3. CASE "masks" \notin f /\ "init" \notin f
  <2>1. q = [p EXCEPT !.masks = TRUE, !.configured = TRUE]
    BY <1>3 DEF HwInit
  <2> QED
    BY <1>3, <2>1, ZenonT(30) DEF Port
<1> QED
  BY <1>1, <1>2, <1>3

LEMMA WindowKeeps ==
    ASSUME NEW p, Sound(p),
           NEW q, q = p \/ q = [p EXCEPT !.recoveries = 0, !.window = "new"]
    PROVE  Sound(q) /\ q.cc = p.cc /\ q.halted = p.halted
<1>1. CASE q = p
  BY <1>1
<1>2. CASE q = [p EXCEPT !.recoveries = 0, !.window = "new"]
  <2>1. q \in Port
    BY <1>2 DEF Sound, Port, Windows
  <2> QED
    BY <1>2, <2>1 DEF Sound, Port, Unplugged, Driven, Held, Noticed
<1> QED
  BY <1>1, <1>2

LEMMA RecoveriesKeeps ==
    ASSUME NEW p, Sound(p), NEW q, q = [p EXCEPT !.recoveries = @ + 1]
    PROVE  Sound(q) /\ q.cc = p.cc /\ q.halted = p.halted
<1>1. q \in Port
  BY SMTT(30) DEF Sound, Port
<1> QED
  BY <1>1 DEF Sound, Port, Unplugged, Driven, Held, Noticed

LEMMA ReleaseKeeps ==
    ASSUME NEW p \in Port, NEW q, q = [p EXCEPT !.halted = FALSE]
    PROVE  /\ q \in Port /\ ~q.halted
           /\ q.cc = p.cc /\ q.contract = p.contract
           /\ q.retryQ = p.retryQ /\ q.vbusOn = p.vbusOn
           /\ q.stopFailed = p.stopFailed /\ q.configured = p.configured
  BY DEF Port

LEMMA RecoverKeeps ==
    ASSUME NEW p, Sound(p), NEW f, NEW q, q = Recover(p, f)
    PROVE  Sound(q)
<1> DEFINE fresh == p.recoveries = 0 \/ p.window = "closed"
           b == IF fresh THEN [p EXCEPT !.recoveries = 0, !.window = "new"] ELSE p
           a == [b EXCEPT !.recoveries = @ + 1]
           d == IF p.cc # "none" THEN Detach(a, f) ELSE a
           r == HwInit(d, f)
<1>1. Sound(b) /\ b.cc = p.cc /\ b.halted = p.halted
  BY WindowKeeps
<1>2. Sound(a) /\ a.cc = p.cc /\ a.halted = p.halted
  <2> HIDE DEF b
  <2> QED
    BY <1>1, RecoveriesKeeps
<1>3. q = IF b.recoveries >= RecoveryBurst
          THEN IF p.halted THEN b ELSE FailSafe(b, f)
          ELSE IF {"masks", "init"} \cap f # {}
          THEN IF p.halted THEN r ELSE FailSafe(r, f)
          ELSE IF p.halted THEN RestoreIlim([r EXCEPT !.halted = FALSE], f)
          ELSE r
  BY DEF Recover
<1> HIDE DEF b, a
<1>4. /\ d \in Port /\ d.cc = "none" /\ ~d.contract /\ ~d.retryQ
      /\ d.vbusOn => d.stopFailed
      /\ d.halted = p.halted
      /\ p.halted => Sound(d)
  <2>1. CASE p.cc # "none"
    <3>1. a \in Port /\ d = Detach(a, f) /\ ~p.halted
      BY <1>2, <2>1 DEF Sound, Held
    <3> QED
      BY <1>2, <3>1, DetachKeeps
  <2>2. CASE p.cc = "none"
    BY <1>2, <2>2 DEF Sound, Unplugged, Driven, Held
  <2> QED
    BY <2>1, <2>2
<1> HIDE DEF d
<1>5. /\ r \in Port /\ r.cc = "none" /\ ~r.contract /\ ~r.retryQ
      /\ r.vbusOn => r.stopFailed
      /\ r.halted = p.halted
      /\ p.halted => Sound(r)
      /\ {"masks", "init"} \cap f = {} => r.configured
  BY <1>4, HwInitKeeps DEF Sound, Unplugged, Driven, Held, Noticed
<1> HIDE DEF r
<1>6. Unplugged(b) /\ b \in Port /\ Unplugged(r)
  BY <1>1, <1>5 DEF Sound, Unplugged
<1>7. CASE b.recoveries >= RecoveryBurst
  BY <1>1, <1>3, <1>6, <1>7, FailSafeKeeps
<1>8. CASE ~(b.recoveries >= RecoveryBurst) /\ {"masks", "init"} \cap f # {}
  BY <1>3, <1>5, <1>6, <1>8, FailSafeKeeps
<1>9. CASE ~(b.recoveries >= RecoveryBurst) /\ {"masks", "init"} \cap f = {}
  <2>1. CASE p.halted
    <3> DEFINE g == [r EXCEPT !.halted = FALSE]
    <3>1. /\ g \in Port /\ g.cc = "none" /\ ~g.contract /\ ~g.retryQ
          /\ g.vbusOn => g.stopFailed
          /\ ~g.halted /\ g.configured
      BY <1>5, <1>9, ReleaseKeeps
    <3>2. q = RestoreIlim(g, f)
      BY <1>3, <1>9, <2>1
    <3> HIDE DEF g
    <3> QED
      BY <3>1, <3>2, RestoreIlimKeeps
      DEF Sound, Unplugged, Driven, Held, Noticed, SameChip
  <2>2. CASE ~p.halted
    BY <1>3, <1>5, <1>9, <2>2 DEF Sound, Unplugged, Driven, Held, Noticed
  <2> QED
    BY <2>1, <2>2
<1> QED
  BY <1>7, <1>8, <1>9

(* A handled event leaves a sound port that is what the CC pins say, unless *)
(* they could not be read.                                                 *)
LEMMA NotedKeeps ==
    ASSUME NEW p, Sound(p),
           NEW q, \/ q = [p EXCEPT !.unread = TRUE]
                  \/ q = [p EXCEPT !.unread = TRUE, !.ccMissed = TRUE]
    PROVE  Sound(q) /\ q.cc = p.cc /\ q.halted = p.halted
<1>1. CASE q = [p EXCEPT !.unread = TRUE]
  <2>1. q \in Port
    BY <1>1 DEF Sound, Port
  <2> QED
    BY <1>1, <2>1 DEF Sound, Port, Unplugged, Driven, Held, Noticed
<1>2. CASE q = [p EXCEPT !.unread = TRUE, !.ccMissed = TRUE]
  <2>1. q \in Port
    BY <1>2 DEF Sound, Port
  <2> QED
    BY <1>2, <2>1 DEF Sound, Port, Unplugged, Driven, Held, Noticed
<1> QED
  BY <1>1, <1>2

LEMMA HandleEvKeeps ==
    ASSUME NEW p, Sound(p), NEW e \in Event, NEW c \in CcStats,
           NEW n \in 0..Len(SrcPdos), NEW sent \in BOOLEAN,
           NEW busy \in BOOLEAN, NEW f,
           NEW q, q = HandleEv(p, e, c, n, sent, busy, f)
    PROVE  Sound(q) /\ (q.cc = "source" => c = "source" \/ q.ccMissed)
<1> DEFINE a == IF e.reset THEN Recover(p, f) ELSE p
           u == UpdateCc(a, c, busy, f)
           m == PdMsg(u, e.msg, busy, f)
<1>1. Sound(a)
  BY RecoverKeeps
<1>2. q = IF a.halted THEN [a EXCEPT !.unread = TRUE]
          ELSE IF "cc" \in f THEN [a EXCEPT !.unread = TRUE, !.ccMissed = TRUE]
          ELSE IF AboutContract(e) \/ (m.cc = "sink" /\ ~m.contract)
          THEN PdReady(m, n, sent, f)
          ELSE m
  BY DEF HandleEv
<1> HIDE DEF a
<1>3. CASE a.halted
  <2>1. Sound(q) /\ q.cc = a.cc
    BY <1>1, <1>2, <1>3, NotedKeeps
  <2> QED
    BY <1>1, <1>3, <2>1 DEF Sound, Held
<1>4. CASE ~a.halted /\ "cc" \in f
  <2>1. q = [a EXCEPT !.unread = TRUE, !.ccMissed = TRUE]
    BY <1>2, <1>4
  <2>2. Sound(q)
    BY <1>1, <2>1, NotedKeeps
  <2>3. q.ccMissed
    BY <1>1, <2>1 DEF Sound, Port
  <2> QED
    BY <2>2, <2>3
<1>5. CASE ~a.halted /\ "cc" \notin f
  <2>1. Running(a)
    BY <1>1, <1>5 DEF Sound, Running
  <2>2. Running(u) /\ SameChip(a, u) /\ u.cc = c
    BY <2>1, UpdateCcKeeps
  <2> HIDE DEF u
  <2>3. e.msg \in Msgs
    BY DEF Event
  <2>4. Running(m) /\ SameChip(a, m) /\ m.cc = c
    BY <2>2, <2>3, PdMsgKeeps DEF SameChip
  <2> HIDE DEF m
  <2>5. Running(q) /\ SameChip(a, q) /\ q.cc = c
    BY <1>2, <1>5, <2>4, PdReadyKeeps DEF SameChip
  <2> QED
    BY <1>1, <1>5, <2>5 DEF Sound, Running, SameChip, Held, Noticed
<1> QED
  BY <1>3, <1>4, <1>5

LEMMA NoEventType == NoEvent \in Event
  BY DEF NoEvent, Event, Msgs

LEMMA ResyncKeeps ==
    ASSUME NEW p, Sound(p), NEW had, NEW full, NEW lost, NEW c \in CcStats,
           NEW n \in 0..Len(SrcPdos), NEW sent \in BOOLEAN,
           NEW busy \in BOOLEAN, NEW f,
           NEW q, q = Resync(p, had, full, lost, c, n, sent, busy, f)
    PROVE  /\ Sound(q)
           /\ \/ q = p /\ ~full
              \/ q.cc = "source" => c = "source" \/ q.ccMissed
<1> DEFINE gone == lost \/ (~p.masks /\ "peek" \notin f)
           a == IF gone THEN Recover(p, f) ELSE p
<1>1. Sound(a)
  BY RecoverKeeps
<1>2. q = IF gone \/ ~had \/ full
          THEN HandleEv(a, NoEvent, c, n, sent, busy, f) ELSE a
  BY DEF Resync
<1>3. CASE gone \/ ~had \/ full
  <2> HIDE DEF a
  <2> QED
    BY <1>1, <1>2, <1>3, NoEventType, HandleEvKeeps
<1>4. CASE ~(gone \/ ~had \/ full)
  BY <1>1, <1>2, <1>4
<1> QED
  BY <1>3, <1>4

LEMMA RecoverQKeeps ==
    ASSUME NEW p, Sound(p), NEW r \in {"off", "due"},
           NEW q, q = [p EXCEPT !.recoverQ = r]
    PROVE  Sound(q) /\ q.cc = p.cc /\ q.ccMissed = p.ccMissed
<1>1. q \in Port
  BY DEF Sound, Port
<1> QED
  BY <1>1 DEF Sound, Port, Unplugged, Driven, Held, Noticed

LEMMA RecoverRunKeeps ==
    ASSUME NEW p, Sound(p), NEW c \in CcStats, NEW n \in 0..Len(SrcPdos),
           NEW sent \in BOOLEAN, NEW busy \in BOOLEAN, NEW f,
           NEW q, q = RecoverRun(p, c, n, sent, busy, f)
    PROVE  /\ Sound(q)
           /\ \/ q.cc = p.cc /\ q.ccMissed = p.ccMissed
              \/ q.cc = "source" => c = "source" \/ q.ccMissed
<1> DEFINE a == [p EXCEPT !.recoverQ = "off"]
           b == Recover(a, f)
<1>1. Sound(a) /\ a.cc = p.cc /\ a.ccMissed = p.ccMissed
  BY RecoverQKeeps
<1>2. q = IF p.halted THEN HandleEv(b, NoEvent, c, n, sent, busy, f) ELSE a
  BY DEF RecoverRun
<1> HIDE DEF a
<1>3. Sound(b)
  BY <1>1, RecoverKeeps
<1> HIDE DEF b
<1> QED
  BY <1>1, <1>2, <1>3, NoEventType, HandleEvKeeps

-----------------------------------------------------------------------------
(* The input limit.  A contract on the offer n is taken note of: the       *)
(* driver knows it, and the charger draws what it allows.                  *)
Draws(p, n) ==
    \/ p.ilimFailed
    \/ p.ilim <= ContractIlim(n)
    \/ ~SrcPdos[n].fixed /\ p.nreq > 0

Noted(p, n) == p.cc = "sink" /\ p.contract /\ p.sel = n /\ Draws(p, n)

SameLimit(p, q) ==
    /\ q.contract = p.contract /\ q.sel = p.sel /\ q.req = p.req
    /\ q.nreq = p.nreq /\ q.ilim = p.ilim /\ q.ilimFailed = p.ilimFailed
    /\ q.undone = p.undone /\ q.unread = p.unread

LEMMA SameLimitNoted ==
    ASSUME NEW p, NEW q, SameLimit(p, q), q.cc = p.cc, NEW n, Noted(p, n)
    PROVE  Noted(q, n)
  BY DEF SameLimit, Noted, Draws

(* VBUS has nothing to do with it.                                         *)
LEMMA VbusOffLimit ==
    ASSUME NEW p \in Port, NEW f, NEW q, q = VbusOff(p, f)
    PROVE  q \in Port /\ SameLimit(p, q) /\ q.cc = p.cc
<1>1. CASE "stop" \in f
  <2>1. q = [p EXCEPT !.vbusQ = FALSE, !.stopFailed = p.vbusOn]
    BY <1>1 DEF VbusOff
  <2> QED
    BY <2>1, ZenonT(30) DEF Port, SameLimit
<1>2. CASE "stop" \notin f
  <2>1. q = [p EXCEPT !.vbusQ = FALSE, !.stopFailed = FALSE, !.vbusOn = FALSE]
    BY <1>2 DEF VbusOff
  <2> QED
    BY <2>1, ZenonT(30) DEF Port, SameLimit
<1> QED
  BY <1>1, <1>2

LEMMA VbusSourceLimit ==
    ASSUME NEW p \in Port, NEW delayed \in BOOLEAN, NEW busy \in BOOLEAN,
           NEW q, q = VbusSource(p, delayed, busy)
    PROVE  q \in Port /\ SameLimit(p, q) /\ q.cc = p.cc
  BY ZenonT(30) DEF VbusSource, Port, SameLimit

LEMMA VbusRunLimit ==
    ASSUME NEW p \in Port, NEW busy, NEW q, q = VbusRun(p, busy)
    PROVE  SameLimit(p, q) /\ q.cc = p.cc
<1> DEFINE b == p.retries + 1 < VbusRetries
<1>1. \/ q = [p EXCEPT !.vbusQ = FALSE]
      \/ q = [p EXCEPT !.vbusQ = FALSE, !.vbusOn = TRUE, !.stopFailed = FALSE]
      \/ q = [p EXCEPT !.retries = @ + 1, !.vbusQ = b]
  BY DEF VbusRun, Port
<1> HIDE DEF b
<1> QED
  BY <1>1, ZenonT(30) DEF Port, SameLimit

LEMMA SetIlimLimit ==
    ASSUME NEW p \in Port, NEW ma \in Nat, NEW call, NEW f,
           NEW q, q = SetIlim(p, ma, call, f)
    PROVE  /\ q \in Port /\ q.cc = p.cc
           /\ q.contract = p.contract /\ q.sel = p.sel /\ q.req = p.req
           /\ q.nreq = p.nreq /\ q.undone = p.undone /\ q.unread = p.unread
           /\ call \in f => q.ilimFailed /\ q.ilim = p.ilim
           /\ call \notin f => ~q.ilimFailed /\ q.ilim = ma
  BY ZenonT(30) DEF SetIlim, Port

LEMMA CountLimit ==
    ASSUME NEW p \in Port, NEW q, q = [p EXCEPT !.nreq = @ + 1]
    PROVE  /\ q \in Port /\ q.cc = p.cc
           /\ q.contract = p.contract /\ q.sel = p.sel /\ q.req = p.req
           /\ q.nreq \in Nat /\ q.nreq > 0
           /\ q.undone = p.undone /\ q.unread = p.unread
           /\ q.ilim = p.ilim /\ q.ilimFailed = p.ilimFailed
<1>1. p.nreq + 1 \in Nat /\ p.nreq + 1 > 0
  BY DEF Port
<1> QED
  BY <1>1 DEF Port

LEMMA UndoneLimit ==
    ASSUME NEW p \in Port, NEW b \in BOOLEAN, NEW q, q = [p EXCEPT !.undone = b]
    PROVE  /\ q \in Port /\ q.cc = p.cc
           /\ q.contract = p.contract /\ q.sel = p.sel /\ q.req = p.req
           /\ q.nreq = p.nreq /\ q.undone = b /\ q.unread = p.unread
           /\ q.ilim = p.ilim /\ q.ilimFailed = p.ilimFailed
  BY DEF Port

(* A request lowers the limit, or leaves it, or gives the contract its own *)
(* limit back; only on a contract that is not fixed may it raise it, and   *)
(* then counts as one.                                                     *)
LEMMA PdRequestNoted ==
    ASSUME NEW p \in Port, NEW n \in Pos, Noted(p, n), NEW sent \in BOOLEAN, NEW f,
           NEW q, q = PdRequest(p, sent, f)
    PROVE  Noted(q, n) /\ q.unread = p.unread
<1> DEFINE best == Wanted(p)
           up == ContractMv(best) > ContractMv(n)
           a == IF up THEN SetIlim(p, BothIlim(n, best), "lower", f) ELSE p
           r == [a EXCEPT !.nreq = @ + 1]
           back == SetIlim(r, PdoIlim(n), "undo", f)
           again == p.req # 0
           s == IF SrcPdos[n].fixed THEN [back EXCEPT !.undone = again] ELSE r
<1>1. CASE best = 0
  BY <1>1 DEF PdRequest
<1>2. CASE best # 0
  <2>1. best \in Pos /\ p.sel = n
    BY <1>2, WantedRange DEF Noted
  <2>2. /\ PdoIlim(n) \in Nat /\ BothIlim(n, best) \in Nat /\ PdoIlim(best) \in Nat
        /\ SrcPdos[n].fixed => /\ ContractIlim(n) = PdoIlim(n)
                               /\ BothIlim(n, best) <= PdoIlim(n)
    BY <2>1, IlimTypes DEF ContractIlim, BothIlim, Smaller
  <2>3. q = IF up /\ "lower" \in f THEN a
            ELSE IF "answer" \in f THEN [s EXCEPT !.wire = best]
            ELSE IF "ask" \in f THEN s
            ELSE IF sent THEN [r EXCEPT !.req = best, !.wire = best, !.undone = FALSE]
            ELSE [s EXCEPT !.retryQ = TRUE]
    BY <1>2, <2>1 DEF PdRequest
  <2>4. again \in BOOLEAN
    OBVIOUS
  <2> HIDE DEF best, again
  <2>5. /\ a \in Port /\ a.cc = p.cc /\ a.contract = p.contract /\ a.sel = p.sel
        /\ a.unread = p.unread /\ a.nreq = p.nreq
        /\ up /\ "lower" \in f => a.ilimFailed
        /\ SrcPdos[n].fixed => a.ilimFailed \/ a.ilim <= PdoIlim(n)
    <3>1. CASE up
      BY <2>2, <3>1, SetIlimLimit
    <3>2. CASE ~up
      BY <2>2, <3>2 DEF Noted, Draws
    <3> QED
      BY <3>1, <3>2
  <2> HIDE DEF up, a
  <2>6. /\ r \in Port /\ r.cc = p.cc /\ r.contract = p.contract /\ r.sel = p.sel
        /\ r.unread = p.unread /\ r.nreq > 0
        /\ r.ilim = a.ilim /\ r.ilimFailed = a.ilimFailed
    BY <2>5, CountLimit
  <2> HIDE DEF r
  <2>7. /\ back \in Port /\ back.cc = p.cc /\ back.contract = p.contract
        /\ back.sel = p.sel /\ back.unread = p.unread /\ back.nreq = r.nreq
        /\ back.ilimFailed \/ back.ilim = PdoIlim(n)
    BY <2>2, <2>6, SetIlimLimit
  <2> HIDE DEF back
  <2>8. /\ s \in Port /\ s.cc = p.cc /\ s.contract = p.contract /\ s.sel = p.sel
        /\ s.unread = p.unread /\ s.nreq > 0
        /\ SrcPdos[n].fixed => s.ilimFailed \/ s.ilim <= PdoIlim(n)
    BY <2>2, <2>4, <2>6, <2>7, UndoneLimit
  <2> HIDE DEF s
  <2>9. p.cc = "sink" /\ p.contract /\ p.sel = n
    BY DEF Noted
  <2>10. Noted(a, n) \/ ~(up /\ "lower" \in f)
    BY <2>5, <2>9 DEF Noted, Draws
  <2>11. Noted(r, n)
    BY <2>2, <2>5, <2>6, <2>9 DEF Noted, Draws
  <2>12. Noted(s, n)
    BY <2>2, <2>8, <2>9 DEF Noted, Draws
  <2>13. CASE up /\ "lower" \in f
    BY <2>3, <2>5, <2>10, <2>13
  <2>14. CASE ~(up /\ "lower" \in f)
    <3>1. CASE q = s
      BY <2>8, <2>12, <3>1
    <3>2. CASE q = [s EXCEPT !.wire = best] \/ q = [s EXCEPT !.retryQ = TRUE]
      <4>1. /\ q.cc = s.cc /\ q.contract = s.contract /\ q.sel = s.sel
            /\ q.nreq = s.nreq /\ q.ilim = s.ilim /\ q.ilimFailed = s.ilimFailed
            /\ q.unread = s.unread
        BY <2>8, <3>2 DEF Port
      <4> QED
        BY <2>8, <2>12, <4>1 DEF Noted, Draws
    <3>3. CASE q = [r EXCEPT !.req = best, !.wire = best, !.undone = FALSE]
      BY <2>6, <2>11, <3>3 DEF Noted, Draws, Port
    <3> QED
      BY <2>3, <2>14, <3>1, <3>2, <3>3
  <2> QED
    BY <2>13, <2>14
<1> QED
  BY <1>1, <1>2

LEMMA PdReadyNoted ==
    ASSUME NEW p \in Port, p.cc = "sink", NEW n \in Pos, NEW sent \in BOOLEAN, NEW f,
           NEW q, q = PdReady(p, n, sent, f)
    PROVE  q.unread \/ Noted(q, n)
<1> DEFINE a == [p EXCEPT !.contract = TRUE, !.sel = n, !.req = 0,
                          !.undone = FALSE, !.unread = FALSE]
           b == SetIlim(a, ContractIlim(n), "limit", f)
<1>1. n # 0 /\ n \in 0..Len(SrcPdos) /\ ContractIlim(n) \in Nat
  BY IlimTypes, UsbcStateAssumption DEF Pos
<1>2. CASE "caps" \in f
  <2>1. q = [p EXCEPT !.unread = TRUE]
    BY <1>1, <1>2 DEF PdReady
  <2> QED
    BY <2>1 DEF Port
<1>3. CASE "caps" \notin f
  <2>1. q = PdRequest(b, sent, f)
    BY <1>1, <1>3 DEF PdReady
  <2>2. a \in Port /\ a.cc = "sink" /\ a.contract /\ a.sel = n
    BY <1>1, ZeroInRange DEF Port
  <2> HIDE DEF a
  <2>3. b \in Port /\ b.cc = "sink" /\ b.contract /\ b.sel = n
        /\ (b.ilimFailed \/ b.ilim = ContractIlim(n))
    BY <1>1, <2>2, ZenonT(30) DEF SetIlim, Port
  <2>4. Noted(b, n)
    BY <1>1, <2>3 DEF Noted, Draws
  <2> HIDE DEF b
  <2> QED
    BY <2>1, <2>3, <2>4, PdRequestNoted
<1> QED
  BY <1>2, <1>3

LEMMA RestoreIlimLimit ==
    ASSUME NEW p \in Port, NEW f, NEW q, q = RestoreIlim(p, f)
    PROVE  /\ q \in Port /\ q.cc = p.cc
           /\ q.contract = p.contract /\ q.sel = p.sel /\ q.req = p.req
           /\ q.nreq = p.nreq /\ q.undone = p.undone /\ q.unread = p.unread
  BY SetIlimLimit, UsbcStateAssumption DEF RestoreIlim

LEMMA PdResetLimit ==
    ASSUME NEW p \in Port, NEW q, q = PdReset(p)
    PROVE  q \in Port /\ ~q.contract /\ q.req = 0 /\ q.unread = p.unread
  BY ZeroInRange, ZenonT(30) DEF PdReset, Port

LEMMA HardResetLimit ==
    ASSUME NEW p \in Port, NEW f, NEW q, q = HardReset(p, f)
    PROVE  /\ q.unread = p.unread
           /\ \/ SameLimit(p, q) /\ q.cc = p.cc
              \/ ~q.contract /\ q.req = 0
<1> DEFINE o == VbusOff(p, f)
           late == p.req # 0
           b == [o EXCEPT !.backoff = @ \/ late]
           r == RestoreIlim(b, f)
<1>1. o \in Port /\ SameLimit(p, o) /\ o.cc = p.cc
  BY VbusOffLimit
<1>2. /\ p.cc = "source" => q = VbusSource(o, TRUE, FALSE)
      /\ p.cc \notin {"source", "sink"} => q = o
      /\ p.cc = "sink" => q = PdReset(r)
  BY DEF HardReset
<1>3. late \in BOOLEAN
  OBVIOUS
<1> HIDE DEF o, late
<1>4. b \in Port /\ b.unread = p.unread
  <2>1. (o.backoff \/ late) \in BOOLEAN
    OBVIOUS
  <2> QED
    BY <1>1, <2>1, ZenonT(30) DEF Port, SameLimit
<1> HIDE DEF b
<1>5. r \in Port /\ r.unread = p.unread
  BY <1>4, RestoreIlimLimit
<1> HIDE DEF r
<1>6. CASE p.cc = "source"
  <2>1. SameLimit(o, q) /\ q.cc = o.cc
    BY <1>1, <1>2, <1>6, VbusSourceLimit
  <2> QED
    BY <1>1, <2>1 DEF SameLimit
<1>7. CASE p.cc = "sink"
  BY <1>2, <1>5, <1>7, PdResetLimit
<1>8. CASE p.cc \notin {"source", "sink"}
  BY <1>1, <1>2, <1>8 DEF SameLimit
<1> QED
  BY <1>6, <1>7, <1>8

LEMMA PdRejectedLimit ==
    ASSUME NEW p \in Port, NEW f, NEW q, q = PdRejected(p, f)
    PROVE  \/ q = p
           \/ /\ p.sel \in Pos
              /\ q.cc = p.cc /\ q.contract = p.contract /\ q.sel = p.sel
              /\ q.req = 0 /\ q.nreq = p.nreq /\ q.unread = p.unread
              /\ q.ilimFailed \/ q.ilim = ContractIlim(p.sel)
<1> DEFINE a == [p EXCEPT !.req = 0, !.undone = FALSE]
<1>1. CASE p.cc # "sink" \/ p.req = 0 \/ p.sel = 0
  BY <1>1 DEF PdRejected
<1>2. CASE p.cc = "sink" /\ p.req # 0 /\ p.sel # 0
  <2>1. /\ a \in Port /\ a.cc = p.cc /\ a.contract = p.contract /\ a.sel = p.sel
        /\ a.req = 0 /\ a.nreq = p.nreq /\ a.unread = p.unread
    BY ZeroInRange DEF Port
  <2>2. p.sel \in Pos /\ ContractIlim(p.sel) \in Nat
    BY <1>2, IlimTypes, UsbcStateAssumption DEF Pos, Port
  <2>3. q = SetIlim(a, ContractIlim(p.sel), "limit", f)
    BY <1>2 DEF PdRejected
  <2> HIDE DEF a
  <2> QED
    BY <2>1, <2>2, <2>3, SetIlimLimit
<1> QED
  BY <1>1, <1>2

(* A report either ends the contract or leaves what is noted of it.        *)
LEMMA PdMsgNoted ==
    ASSUME NEW p \in Port, NEW msg \in Msgs, NEW busy \in BOOLEAN, NEW f,
           NEW q, q = PdMsg(p, msg, busy, f), q.contract
    PROVE  /\ p.contract /\ q.unread = p.unread
           /\ \A n \in Pos : Noted(p, n) => Noted(q, n)
<1>1. CASE msg = "reject"
  <2>1. q = PdRejected(p, f)
    BY <1>1 DEF PdMsg
  <2>2. CASE q = p
    BY <2>2
  <2>3. CASE q # p
    BY <2>1, <2>3, PdRejectedLimit, IlimTypes DEF Noted, Draws
  <2> QED
    BY <2>2, <2>3
<1>2. CASE msg = "hardReset"
  <2>1. q = HardReset(p, f)
    BY <1>2 DEF PdMsg
  <2>2. SameLimit(p, q) /\ q.cc = p.cc
    BY <2>1, HardResetLimit
  <2> QED
    BY <2>2, SameLimitNoted DEF SameLimit
<1>3. CASE msg \in {"vbusOff", "toSource"}
  <2>1. q = VbusOff(p, f) \/ q = VbusSource(p, FALSE, busy)
    BY <1>3 DEF PdMsg
  <2>2. SameLimit(p, q) /\ q.cc = p.cc
    <3>1. CASE q = VbusOff(p, f)
      BY <3>1, VbusOffLimit
    <3>2. CASE q = VbusSource(p, FALSE, busy)
      BY <3>2, VbusSourceLimit
    <3> QED
      BY <2>1, <3>1, <3>2
  <2> QED
    BY <2>2, SameLimitNoted DEF SameLimit
<1>4. CASE msg \in {"none", "ready"}
  BY <1>4 DEF PdMsg
<1> QED
  BY <1>1, <1>2, <1>3, <1>4 DEF Msgs

LEMMA UpdateCcNoted ==
    ASSUME NEW p \in Port, NEW busy \in BOOLEAN, NEW f,
           NEW q, q = UpdateCc(p, "sink", busy, f)
    PROVE  /\ q.contract = p.contract /\ q.unread = p.unread
           /\ \A n \in Pos : Noted(p, n) => Noted(q, n)
<1> DEFINE o == VbusOff(p, f)
           b == [o EXCEPT !.ccMissed = FALSE]
<1>1. o \in Port /\ SameLimit(p, o) /\ o.cc = p.cc
  BY VbusOffLimit
<1>2. q = IF p.cc = "sink" THEN b ELSE [b EXCEPT !.cc = "sink"]
  BY DEF UpdateCc
<1> HIDE DEF o
<1>3. b \in Port /\ SameLimit(p, b) /\ b.cc = p.cc
  BY <1>1 DEF Port, SameLimit
<1> HIDE DEF b
<1>4. CASE p.cc = "sink"
  BY <1>2, <1>3, <1>4, SameLimitNoted DEF SameLimit
<1>5. CASE p.cc # "sink"
  <2>1. q.contract = b.contract /\ q.unread = b.unread
    BY <1>2, <1>3, <1>5 DEF Port
  <2> QED
    BY <1>3, <1>5, <2>1 DEF SameLimit, Noted
<1> QED
  BY <1>4, <1>5

(* The recovery from a reset leaves nothing plugged in, so no contract.    *)
LEMMA RecoverForgets ==
    ASSUME NEW p, Sound(p), NEW f, NEW q, q = Recover(p, f)
    PROVE  ~q.contract
<1> DEFINE fresh == p.recoveries = 0 \/ p.window = "closed"
           b == IF fresh THEN [p EXCEPT !.recoveries = 0, !.window = "new"] ELSE p
           a == [b EXCEPT !.recoveries = @ + 1]
           d == IF p.cc # "none" THEN Detach(a, f) ELSE a
           r == HwInit(d, f)
           g == [r EXCEPT !.halted = FALSE]
<1>1. Sound(b) /\ b.cc = p.cc /\ b.halted = p.halted
  BY WindowKeeps
<1>2. Sound(a) /\ a.cc = p.cc /\ a.halted = p.halted
  <2> HIDE DEF b
  <2> QED
    BY <1>1, RecoveriesKeeps
<1>3. q = IF b.recoveries >= RecoveryBurst
          THEN IF p.halted THEN b ELSE FailSafe(b, f)
          ELSE IF {"masks", "init"} \cap f # {}
          THEN IF p.halted THEN r ELSE FailSafe(r, f)
          ELSE IF p.halted THEN RestoreIlim(g, f)
          ELSE r
  BY DEF Recover
<1> HIDE DEF b, a
<1>4. d \in Port /\ ~d.contract /\ ~d.retryQ /\ d.cc = "none"
  BY <1>2, DetachKeeps DEF Sound, Unplugged
<1> HIDE DEF d
<1>5. r \in Port /\ Unplugged(r) /\ ~r.contract /\ (p.halted => ~b.contract)
  BY <1>1, <1>4, HwInitKeeps DEF Sound, Held, Unplugged
<1> HIDE DEF r
<1>6. ASSUME NEW x, x = b \/ x = r PROVE ~FailSafe(x, f).contract
  <2>1. x \in Port /\ Unplugged(x)
    BY <1>1, <1>5, <1>6 DEF Sound
  <2>2. Sound(FailSafe(x, f)) /\ FailSafe(x, f).halted
    BY <2>1, FailSafeKeeps
  <2> QED
    BY <2>2 DEF Sound, Held
<1>7. ~RestoreIlim(g, f).contract
  <2>1. g \in Port /\ ~g.contract
    BY <1>5 DEF Port
  <2> HIDE DEF g
  <2> QED
    BY <2>1, RestoreIlimLimit
<1> QED
  BY <1>3, <1>5, <1>6, <1>7

(* A handled event takes note of the contract in force, or marks it as     *)
(* unread, if the event is about it or the port has none yet; what was     *)
(* noted or marked before stays so.                                        *)
LEMMA HandleEvNoted ==
    ASSUME NEW p, Sound(p), NEW e \in Event, NEW n \in Pos,
           NEW sent \in BOOLEAN, NEW busy \in BOOLEAN, NEW f,
           AboutContract(e) \/ ~p.contract \/ p.unread \/ Noted(p, n),
           NEW q, q = HandleEv(p, e, "sink", n, sent, busy, f)
    PROVE  q.unread \/ Noted(q, n)
<1> DEFINE a == IF e.reset THEN Recover(p, f) ELSE p
           u == UpdateCc(a, "sink", busy, f)
           m == PdMsg(u, e.msg, busy, f)
<1>1. Sound(a) /\ (e.reset => ~a.contract)
  BY RecoverKeeps, RecoverForgets
<1>2. q = IF a.halted THEN [a EXCEPT !.unread = TRUE]
          ELSE IF "cc" \in f THEN [a EXCEPT !.unread = TRUE, !.ccMissed = TRUE]
          ELSE IF AboutContract(e) \/ (m.cc = "sink" /\ ~m.contract)
          THEN PdReady(m, n, sent, f)
          ELSE m
  BY DEF HandleEv
<1>3. ~e.reset => a = p
  OBVIOUS
<1> HIDE DEF a
<1>4. CASE a.halted \/ "cc" \in f
  BY <1>1, <1>2, <1>4 DEF Sound, Port
<1>5. CASE ~a.halted /\ "cc" \notin f
  <2>1. Running(a)
    BY <1>1, <1>5 DEF Sound, Running
  <2>2. "sink" \in CcStats /\ e.msg \in Msgs
    BY DEF CcStats, Event
  <2>3. Running(u) /\ u.cc = "sink"
    BY <2>1, <2>2, UpdateCcKeeps
  <2>4. /\ u.contract = a.contract /\ u.unread = a.unread
        /\ Noted(a, n) => Noted(u, n)
    BY <2>1, UpdateCcNoted DEF Running
  <2> HIDE DEF u
  <2>5. Running(m) /\ m.cc = "sink"
    BY <2>2, <2>3, PdMsgKeeps
  <2>6. m.contract => /\ u.contract /\ m.unread = u.unread
                      /\ Noted(u, n) => Noted(m, n)
    BY <2>2, <2>3, PdMsgNoted DEF Running
  <2> HIDE DEF m
  <2>7. CASE AboutContract(e) \/ ~m.contract
    <3>1. q = PdReady(m, n, sent, f)
      BY <1>2, <1>5, <2>5, <2>7
    <3> QED
      BY <2>5, <3>1, PdReadyNoted DEF Running
  <2>8. CASE ~AboutContract(e) /\ m.contract
    <3>1. q = m
      BY <1>2, <1>5, <2>5, <2>8
    <3>2. a.contract /\ a = p
      BY <1>1, <1>3, <2>4, <2>6, <2>8
    <3> QED
      BY <2>4, <2>6, <2>8, <3>1, <3>2
  <2> QED
    BY <2>7, <2>8
<1> QED
  BY <1>4, <1>5

LEMMA ResyncNoted ==
    ASSUME NEW p, Sound(p), NEW had, NEW full, NEW lost, NEW n \in Pos,
           NEW sent \in BOOLEAN, NEW busy \in BOOLEAN, NEW f,
           p.unread \/ Noted(p, n),
           NEW q, q = Resync(p, had, full, lost, "sink", n, sent, busy, f)
    PROVE  q.unread \/ Noted(q, n)
<1> DEFINE gone == lost \/ (~p.masks /\ "peek" \notin f)
           a == IF gone THEN Recover(p, f) ELSE p
<1>1. Sound(a) /\ (~a.contract \/ a.unread \/ Noted(a, n))
  BY RecoverKeeps, RecoverForgets
<1>2. q = IF gone \/ ~had \/ full
          THEN HandleEv(a, NoEvent, "sink", n, sent, busy, f) ELSE a
  BY DEF Resync
<1>3. CASE gone \/ ~had \/ full
  <2> HIDE DEF a
  <2> QED
    BY <1>1, <1>2, <1>3, NoEventType, HandleEvNoted
<1>4. CASE ~(gone \/ ~had \/ full)
  BY <1>2, <1>4
<1> QED
  BY <1>3, <1>4

LEMMA RecoverRunNoted ==
    ASSUME NEW p, Sound(p), NEW n \in Pos,
           NEW sent \in BOOLEAN, NEW busy \in BOOLEAN, NEW f,
           p.unread \/ Noted(p, n),
           NEW q, q = RecoverRun(p, "sink", n, sent, busy, f)
    PROVE  q.unread \/ Noted(q, n)
<1> DEFINE a == [p EXCEPT !.recoverQ = "off"]
           b == Recover(a, f)
<1>1. Sound(a)
  BY RecoverQKeeps
<1>2. a.unread \/ Noted(a, n)
  BY DEF Sound, Port, Noted, Draws
<1>3. q = IF p.halted THEN HandleEv(b, NoEvent, "sink", n, sent, busy, f) ELSE a
  BY DEF RecoverRun
<1> HIDE DEF a
<1>4. Sound(b) /\ ~b.contract
  BY <1>1, RecoverKeeps, RecoverForgets
<1> HIDE DEF b
<1> QED
  BY <1>2, <1>3, <1>4, NoEventType, HandleEvNoted

-----------------------------------------------------------------------------
(* Requests.  While a contract is known the charger draws what it allows,  *)
(* or, on one that is not fixed and once the driver has asked for another, *)
(* what the other allows; a request that is out is for the best offer and  *)
(* is covered.                                                             *)
Within(p) ==
    p.contract /\ p.sel # 0 =>
        \/ p.ilimFailed
        \/ p.ilim <= ContractIlim(p.sel)
        \/ ~SrcPdos[p.sel].fixed /\ p.nreq > 0 /\ p.ilim <= PdoIlim(BestPos)

Asked(p) ==
    p.req # 0 =>
        /\ p.contract /\ p.sel # 0
        /\ p.req = BestPos /\ BestPos \in Acceptable
        /\ p.undone \/ p.ilimFailed \/ p.ilim <= PdoIlim(BestPos)

Covered(p) == Within(p) /\ Asked(p)

Forgot(p) == ~p.contract /\ p.req = 0

LEMMA ForgotCovered ==
    ASSUME NEW p, Forgot(p)
    PROVE  Covered(p)
  BY DEF Forgot, Covered, Within, Asked

LEMMA SameCovered ==
    ASSUME NEW p, Covered(p), NEW q,
           q.contract = p.contract, q.sel = p.sel, q.req = p.req,
           q.nreq = p.nreq, q.ilim = p.ilim, q.ilimFailed = p.ilimFailed,
           q.undone = p.undone
    PROVE  Covered(q)
  BY DEF Covered, Within, Asked

LEMMA SameLimitCovered ==
    ASSUME NEW p, Covered(p), NEW q, SameLimit(p, q)
    PROVE  Covered(q)
  BY SameCovered DEF SameLimit

(* An offer the driver takes feeds the floor of the limit.                 *)
LEMMA FloorIsFed ==
    ASSUME OrdinarySource, NEW i \in Acceptable
    PROVE  IlimSafe <= PdoIlim(i)
<1> DEFINE v == SrcPdos[i].mv
           d == (PdMaxMw * 1000) \div v
<1>1. /\ i \in Pos /\ v \in Nat \ {0} /\ v <= PdMaxMv
      /\ SrcPdos[i].ma \in Nat /\ SrcPdos[i].ma >= IlimSafe
  BY OfferTypes DEF Acceptable, OrdinarySource
<1> HIDE DEF v
<1>2. d \in Nat /\ d >= 500
  BY <1>1 DEF PdMaxMw, PdMaxMv
<1>3. PdoIlim(i) = Smaller(Smaller(SrcPdos[i].ma, PdMaxMa), d)
  BY DEF PdoIlim, v
<1> HIDE DEF d
<1> QED
  BY <1>1, <1>2, <1>3 DEF Smaller, PdMaxMa, IlimSafe

(* Asking for no more voltage, the driver may keep what the contract it    *)
(* has allows: the offer it asks for allows as much.                       *)
LEMMA NoMoreVoltage ==
    ASSUME OrdinarySource, NEW n \in Pos, BestPos \in Acceptable, BestPos # n,
           ~(ContractMv(BestPos) > ContractMv(n))
    PROVE  ContractIlim(n) <= PdoIlim(BestPos)
<1> DEFINE best == BestPos
<1>1. /\ best \in Pos /\ SrcPdos[best].fixed
      /\ SrcPdos[best].mv \in Nat /\ SrcPdos[best].mv >= 5000
  BY AcceptableTypes DEF Acceptable
<1>2. OffersInOrder
  BY DEF OrdinarySource
<1>3. SrcPdos[n].mv \in Nat
  BY OfferTypes
<1>4. CASE ~SrcPdos[n].fixed
  BY <1>4, FloorIsFed DEF ContractIlim
<1>5. CASE SrcPdos[n].fixed
  <2>1. ~(SrcPdos[best].mv > SrcPdos[n].mv) /\ ContractIlim(n) = PdoIlim(n)
    BY <1>1, <1>5 DEF ContractMv, ContractIlim
  <2> HIDE DEF best
  <2>2. SrcPdos[best].mv # SrcPdos[n].mv
    <3>1. n \in Int /\ best \in Int /\ best # n
      BY <1>1 DEF Pos, best
    <3>2. n < best \/ best < n
      BY <3>1
    <3> QED
      BY <1>1, <1>2, <1>3, <1>5, <3>2 DEF OffersInOrder
  <2>3. SrcPdos[best].mv < SrcPdos[n].mv
    BY <1>1, <1>3, <2>1, <2>2
  <2>4. CASE n \in Acceptable
    BY <1>2, <2>1, <2>3, <2>4, LessVoltageMoreCurrent DEF best
  <2>5. CASE n \notin Acceptable
    <3>1. SrcPdos[n].mv > PdMaxMv
      BY <1>1, <1>3, <1>5, <2>3, <2>5 DEF Acceptable, PdMaxMv
    <3> QED
      BY <1>5, <2>1, <3>1 DEF OrdinarySource
  <2> QED
    BY <2>4, <2>5
<1> QED
  BY <1>4, <1>5

LEMMA PdRequestCovered ==
    ASSUME OrdinarySource, NEW p \in Port, Covered(p), NEW sent \in BOOLEAN, NEW f,
           NEW q, q = PdRequest(p, sent, f)
    PROVE  Covered(q)
<1> DEFINE best == Wanted(p)
           n == p.sel
           up == ContractMv(best) > ContractMv(n)
           a == IF up THEN SetIlim(p, BothIlim(n, best), "lower", f) ELSE p
           r == [a EXCEPT !.nreq = @ + 1]
           back == SetIlim(r, PdoIlim(n), "undo", f)
           again == p.req # 0
           s == IF SrcPdos[n].fixed THEN [back EXCEPT !.undone = again] ELSE r
<1>1. CASE best = 0
  BY <1>1 DEF PdRequest
<1>2. CASE best # 0
  <2>1. /\ best \in Pos /\ n \in Pos /\ p.contract
        /\ best = BestPos /\ best \in Acceptable /\ best # n
    BY <1>2, WantedRange DEF Wanted
  <2>2. n # 0
    BY <2>1, UsbcStateAssumption DEF Pos
  <2>3. /\ PdoIlim(n) \in Nat /\ BothIlim(n, best) \in Nat /\ PdoIlim(best) \in Nat
        /\ ContractIlim(n) \in Nat
        /\ BothIlim(n, best) <= PdoIlim(best)
        /\ SrcPdos[n].fixed => /\ ContractIlim(n) = PdoIlim(n)
                               /\ BothIlim(n, best) <= PdoIlim(n)
    BY <2>1, IlimTypes DEF ContractIlim, BothIlim, Smaller
  <2>4. ~up => ContractIlim(n) <= PdoIlim(best)
    BY <2>1, NoMoreVoltage
  <2>5. q = IF up /\ "lower" \in f THEN a
            ELSE IF "answer" \in f THEN [s EXCEPT !.wire = best]
            ELSE IF "ask" \in f THEN s
            ELSE IF sent THEN [r EXCEPT !.req = best, !.wire = best, !.undone = FALSE]
            ELSE [s EXCEPT !.retryQ = TRUE]
    BY <1>2 DEF PdRequest
  <2>6. again \in BOOLEAN
    OBVIOUS
  <2>7. Within(p) /\ Asked(p)
    BY DEF Covered
  <2> HIDE DEF best, n, again
  <2>9. /\ a \in Port /\ a.contract /\ a.sel = n /\ a.req = p.req
        /\ a.undone = p.undone /\ a.nreq = p.nreq
        /\ up /\ "lower" \in f => a.ilimFailed
        /\ ~(up /\ "lower" \in f) =>
              /\ a.ilimFailed \/ a.ilim <= PdoIlim(best)
              /\ SrcPdos[n].fixed => a.ilimFailed \/ a.ilim <= PdoIlim(n)
    <3>1. CASE up
      BY <2>1, <2>3, <3>1, SetIlimLimit DEF n
    <3>2. CASE ~up
      <4>1. a = p /\ a.ilim \in Nat
        BY <3>2 DEF Port
      <4>2. \/ p.ilimFailed
            \/ p.ilim <= ContractIlim(n)
            \/ ~SrcPdos[n].fixed /\ p.ilim <= PdoIlim(best)
        BY <2>1, <2>2, <2>7 DEF Within, n
      <4>3. a.ilimFailed \/ a.ilim <= PdoIlim(best)
        BY <2>3, <2>4, <3>2, <4>1, <4>2
      <4> QED
        BY <2>1, <2>3, <3>2, <4>1, <4>2, <4>3 DEF n
    <3> QED
      BY <3>1, <3>2
  <2> HIDE DEF up, a
  <2>10. /\ r \in Port /\ r.contract /\ r.sel = n /\ r.req = p.req
         /\ r.undone = p.undone /\ r.nreq > 0
         /\ r.ilim = a.ilim /\ r.ilimFailed = a.ilimFailed
    BY <2>9, CountLimit
  <2> HIDE DEF r
  <2>11. /\ back \in Port /\ back.contract /\ back.sel = n /\ back.req = p.req
         /\ back.ilimFailed \/ back.ilim = PdoIlim(n)
    BY <2>3, <2>10, SetIlimLimit
  <2> HIDE DEF back
  <2>12. /\ SrcPdos[n].fixed =>
               /\ s.req = p.req /\ (p.req # 0 => s.undone)
               /\ s.ilimFailed \/ s.ilim <= PdoIlim(n)
         /\ ~SrcPdos[n].fixed => s = r
         /\ s \in Port /\ s.contract /\ s.sel = n
    <3>1. CASE SrcPdos[n].fixed
      <4>1. PICK t \in BOOLEAN : s = [back EXCEPT !.undone = t] /\ (p.req # 0 => t)
        BY <2>6, <3>1 DEF again
      <4> HIDE DEF s
      <4>2. /\ s \in Port /\ s.contract = back.contract /\ s.sel = back.sel
            /\ s.req = back.req /\ (t => s.undone)
            /\ s.ilim = back.ilim /\ s.ilimFailed = back.ilimFailed
        BY <2>11, <4>1 DEF Port
      <4> QED
        BY <2>3, <2>11, <3>1, <4>1, <4>2
    <3>2. CASE ~SrcPdos[n].fixed
      BY <2>10, <3>2
    <3> QED
      BY <3>1, <3>2
  <2> HIDE DEF s
  <2>13. p.req # 0 => p.req = best
    BY <2>1, <2>7 DEF Asked
  <2>14. CASE up /\ "lower" \in f
    <3>1. q = a
      BY <2>5, <2>14
    <3> QED
      BY <2>1, <2>2, <2>9, <2>13, <2>14, <3>1 DEF Covered, Within, Asked
  <2>15. CASE ~(up /\ "lower" \in f)
    <3>1. Covered(r)
      BY <2>1, <2>2, <2>3, <2>9, <2>10, <2>13, <2>15 DEF Covered, Within, Asked
    <3>2. Covered(s)
      <4>1. CASE SrcPdos[n].fixed
        BY <2>1, <2>2, <2>3, <2>12, <2>13, <4>1 DEF Covered, Within, Asked
      <4>2. CASE ~SrcPdos[n].fixed
        BY <2>12, <3>1, <4>2
      <4> QED
        BY <4>1, <4>2
    <3>3. CASE q = s
      BY <3>2, <3>3
    <3>4. CASE q = [s EXCEPT !.wire = best] \/ q = [s EXCEPT !.retryQ = TRUE]
      <4>1. /\ q.contract = s.contract /\ q.sel = s.sel /\ q.req = s.req
            /\ q.nreq = s.nreq /\ q.ilim = s.ilim
            /\ q.ilimFailed = s.ilimFailed /\ q.undone = s.undone
        BY <2>12, <3>4, ZenonT(30) DEF Port
      <4> QED
        BY <3>2, <4>1, SameCovered
    <3>5. CASE q = [r EXCEPT !.req = best, !.wire = best, !.undone = FALSE]
      <4>1. /\ q.contract = r.contract /\ q.sel = r.sel /\ q.req = best
            /\ q.nreq = r.nreq /\ q.ilim = r.ilim
            /\ q.ilimFailed = r.ilimFailed
        BY <2>10, <3>5, ZenonT(30) DEF Port
      <4>2. Within(q)
        BY <3>1, <4>1 DEF Covered, Within
      <4>3. Asked(q)
        BY <2>1, <2>2, <2>9, <2>10, <2>15, <4>1 DEF Asked
      <4> QED
        BY <4>2, <4>3 DEF Covered
    <3> QED
      BY <2>5, <2>15, <3>3, <3>4, <3>5
  <2> QED
    BY <2>14, <2>15
<1> QED
  BY <1>1, <1>2

LEMMA PdReadyCovered ==
    ASSUME OrdinarySource, NEW p \in Port, Covered(p), NEW n \in 0..Len(SrcPdos),
           NEW sent \in BOOLEAN, NEW f, NEW q, q = PdReady(p, n, sent, f)
    PROVE  Covered(q)
<1> DEFINE a == [p EXCEPT !.contract = TRUE, !.sel = n, !.req = 0,
                          !.undone = FALSE, !.unread = FALSE]
           b == SetIlim(a, ContractIlim(n), "limit", f)
<1>1. CASE p.cc # "sink" \/ n = 0
  BY <1>1 DEF PdReady
<1>2. CASE p.cc = "sink" /\ n # 0 /\ "caps" \in f
  <2>1. q = [p EXCEPT !.unread = TRUE]
    BY <1>2 DEF PdReady
  <2> QED
    BY <2>1, SameCovered DEF Port
<1>3. CASE p.cc = "sink" /\ n # 0 /\ "caps" \notin f
  <2>1. q = PdRequest(b, sent, f)
    BY <1>3 DEF PdReady
  <2>2. n \in Pos /\ ContractIlim(n) \in Nat
    BY <1>3, IlimTypes, UsbcStateAssumption DEF Pos
  <2>3. a \in Port /\ a.req = 0 /\ a.sel = n
    BY ZeroInRange DEF Port
  <2> HIDE DEF a
  <2>4. b \in Port /\ b.req = 0 /\ b.sel = n
        /\ (b.ilimFailed \/ b.ilim = ContractIlim(n))
    BY <2>2, <2>3, SetIlimLimit
  <2>5. Covered(b)
    BY <2>2, <2>4 DEF Covered, Within, Asked
  <2> HIDE DEF b
  <2> QED
    BY <2>1, <2>4, <2>5, PdRequestCovered
<1> QED
  BY <1>1, <1>2, <1>3

LEMMA PdMsgCovered ==
    ASSUME NEW p \in Port, Covered(p), NEW msg \in Msgs, NEW busy \in BOOLEAN, NEW f,
           NEW q, q = PdMsg(p, msg, busy, f)
    PROVE  Covered(q)
<1>1. CASE msg = "reject"
  <2>1. q = PdRejected(p, f)
    BY <1>1 DEF PdMsg
  <2>2. CASE q = p
    BY <2>2
  <2>3. CASE q # p
    <3>1. p.sel \in Pos /\ q.sel = p.sel /\ q.req = 0
          /\ (q.ilimFailed \/ q.ilim = ContractIlim(p.sel))
      BY <2>1, <2>3, PdRejectedLimit
    <3>2. ContractIlim(p.sel) \in Nat
      BY <3>1, IlimTypes
    <3> QED
      BY <3>1, <3>2 DEF Covered, Within, Asked
  <2> QED
    BY <2>2, <2>3
<1>2. CASE msg = "hardReset"
  <2>1. q = HardReset(p, f)
    BY <1>2 DEF PdMsg
  <2>2. SameLimit(p, q) \/ Forgot(q)
    BY <2>1, HardResetLimit DEF Forgot
  <2> QED
    BY <2>2, SameLimitCovered, ForgotCovered
<1>3. CASE msg = "vbusOff"
  <2>1. q = VbusOff(p, f)
    BY <1>3 DEF PdMsg
  <2> QED
    BY <2>1, VbusOffLimit, SameLimitCovered
<1>4. CASE msg = "toSource"
  <2>1. q = VbusSource(p, FALSE, busy)
    BY <1>4 DEF PdMsg
  <2> QED
    BY <2>1, VbusSourceLimit, SameLimitCovered
<1>5. CASE msg \in {"none", "ready"}
  BY <1>5 DEF PdMsg
<1> QED
  BY <1>1, <1>2, <1>3, <1>4, <1>5 DEF Msgs

LEMMA DetachForgets ==
    ASSUME NEW p \in Port, NEW f, NEW q, q = Detach(p, f)
    PROVE  q \in Port /\ Forgot(q)
<1> DEFINE o == VbusOff(p, f)
           r == IF p.cc = "sink" THEN RestoreIlim(o, f) ELSE o
           t == PdReset(r)
<1>1. o \in Port
  BY VbusOffLimit
<1>2. q = [t EXCEPT !.nreq = 0, !.cc = "none"]
  BY DEF Detach
<1> HIDE DEF o
<1>3. r \in Port
  BY <1>1, RestoreIlimLimit
<1> HIDE DEF r
<1>4. t \in Port /\ ~t.contract /\ t.req = 0
  BY <1>3, PdResetLimit
<1> HIDE DEF t
<1>5. q \in Port /\ q.contract = t.contract
  BY <1>2, <1>4, NoneKeeps
<1>6. q.req = t.req
  BY <1>2, <1>4 DEF Port
<1> QED
  BY <1>4, <1>5, <1>6 DEF Forgot

LEMMA UpdateCcCovered ==
    ASSUME NEW p \in Port, Covered(p), NEW c \in CcStats, NEW busy \in BOOLEAN, NEW f,
           NEW q, q = UpdateCc(p, c, busy, f)
    PROVE  Covered(q)
<1> DEFINE o == IF c # "source" THEN VbusOff(p, f) ELSE p
           b == [o EXCEPT !.ccMissed = FALSE]
           r == [b EXCEPT !.cc = c]
           i == RestoreIlim(r, f)
           s == IF p.cc = "none" THEN r ELSE PdReset(i)
<1>1. q = IF c = p.cc THEN b
          ELSE IF c = "none" THEN Detach(b, f)
          ELSE IF c # "source" THEN r
          ELSE VbusSource(s, FALSE, busy)
  BY DEF UpdateCc
<1>2. o \in Port /\ Covered(o)
  BY VbusOffLimit, SameLimitCovered
<1> HIDE DEF o
<1>3. b \in Port /\ Covered(b)
  <2>1. /\ b \in Port
        /\ b.contract = o.contract /\ b.sel = o.sel /\ b.req = o.req
        /\ b.nreq = o.nreq /\ b.ilim = o.ilim
        /\ b.ilimFailed = o.ilimFailed /\ b.undone = o.undone
    BY <1>2 DEF Port
  <2> QED
    BY <1>2, <2>1, SameCovered
<1> HIDE DEF b
<1>4. r \in Port /\ Covered(r)
  <2>1. /\ r \in Port
        /\ r.contract = b.contract /\ r.sel = b.sel /\ r.req = b.req
        /\ r.nreq = b.nreq /\ r.ilim = b.ilim
        /\ r.ilimFailed = b.ilimFailed /\ r.undone = b.undone
    BY <1>3 DEF Port
  <2> QED
    BY <1>3, <2>1, SameCovered
<1> HIDE DEF r
<1>5. i \in Port
  BY <1>4, RestoreIlimLimit
<1> HIDE DEF i
<1>6. s \in Port /\ Covered(s)
  BY <1>4, <1>5, PdResetLimit, ForgotCovered DEF Forgot
<1> HIDE DEF s
<1>7. Covered(Detach(b, f))
  BY <1>3, DetachForgets, ForgotCovered
<1>8. Covered(VbusSource(s, FALSE, busy))
  BY <1>6, VbusSourceLimit, SameLimitCovered
<1> QED
  BY <1>1, <1>3, <1>4, <1>7, <1>8

(* Letting go of a partner, or of none, forgets what was asked of one.     *)
LEMMA LetGoForgets ==
    ASSUME NEW p \in Port, Unplugged(p), Covered(p), NEW f, NEW q, q = LetGo(p, f)
    PROVE  q \in Port /\ Forgot(q)
<1>1. CASE p.cc # "none"
  <2>1. q = Detach(p, f)
    BY <1>1 DEF LetGo
  <2> QED
    BY <2>1, DetachForgets
<1>2. CASE p.cc = "none"
  <2>1. q = VbusOff(p, f) /\ Forgot(p)
    BY <1>2 DEF LetGo, Unplugged, Covered, Asked, Forgot
  <2> QED
    BY <2>1, VbusOffLimit DEF SameLimit, Forgot
<1> QED
  BY <1>1, <1>2

LEMMA FailSafeForgets ==
    ASSUME NEW p \in Port, Unplugged(p), Covered(p), NEW f, NEW q, q = FailSafe(p, f)
    PROVE  Forgot(q)
<1> DEFINE a == LetGo(p, f)
           b == SetIlim(a, IlimSafe, "limit", f)
<1>1. a \in Port /\ Forgot(a)
  BY LetGoForgets
<1>2. \E w, k : q = [b EXCEPT !.halted = TRUE, !.recoverQ = k, !.window = w]
  BY DEF FailSafe
<1> HIDE DEF a
<1>3. IlimSafe \in Nat
  BY DEF IlimSafe
<1>4. b \in Port /\ Forgot(b)
  BY <1>1, <1>3, SetIlimLimit DEF Forgot
<1> HIDE DEF b
<1> QED
  BY <1>2, <1>4 DEF Port, Forgot

LEMMA RecoverCovered ==
    ASSUME NEW p, Sound(p), Covered(p), NEW f, NEW q, q = Recover(p, f)
    PROVE  Covered(q)
<1> DEFINE fresh == p.recoveries = 0 \/ p.window = "closed"
           b == IF fresh THEN [p EXCEPT !.recoveries = 0, !.window = "new"] ELSE p
           a == [b EXCEPT !.recoveries = @ + 1]
           d == IF p.cc # "none" THEN Detach(a, f) ELSE a
           r == HwInit(d, f)
           g == [r EXCEPT !.halted = FALSE]
<1>1. q = IF b.recoveries >= RecoveryBurst
          THEN IF p.halted THEN b ELSE FailSafe(b, f)
          ELSE IF {"masks", "init"} \cap f # {}
          THEN IF p.halted THEN r ELSE FailSafe(r, f)
          ELSE IF p.halted THEN RestoreIlim(g, f)
          ELSE r
  BY DEF Recover
<1>2. Sound(b) /\ b.cc = p.cc /\ Covered(b)
  <2>1. Sound(b) /\ b.cc = p.cc
    BY WindowKeeps
  <2>2. /\ b.contract = p.contract /\ b.sel = p.sel /\ b.req = p.req
        /\ b.nreq = p.nreq /\ b.ilim = p.ilim
        /\ b.ilimFailed = p.ilimFailed /\ b.undone = p.undone
    BY DEF Sound, Port
  <2> HIDE DEF b
  <2> QED
    BY <2>1, <2>2, SameCovered
<1> HIDE DEF b
<1>3. Sound(a) /\ a.cc = p.cc /\ Covered(a)
  <2>1. Sound(a) /\ a.cc = p.cc
    BY <1>2, RecoveriesKeeps
  <2>2. /\ a.contract = b.contract /\ a.sel = b.sel /\ a.req = b.req
        /\ a.nreq = b.nreq /\ a.ilim = b.ilim
        /\ a.ilimFailed = b.ilimFailed /\ a.undone = b.undone
    BY <1>2 DEF Sound, Port
  <2> HIDE DEF a
  <2> QED
    BY <1>2, <2>1, <2>2, SameCovered
<1> HIDE DEF a
<1>4. d \in Port /\ Forgot(d) /\ Unplugged(d)
  <2>1. CASE p.cc # "none"
    BY <1>3, <2>1, DetachForgets, DetachKeeps DEF Sound, Unplugged
  <2>2. CASE p.cc = "none"
    BY <1>3, <2>2 DEF Sound, Unplugged, Covered, Asked, Forgot
  <2> QED
    BY <2>1, <2>2
<1> HIDE DEF d
<1>5. r \in Port /\ Forgot(r) /\ Unplugged(r)
  <2>1. \/ r = d
        \/ r = [d EXCEPT !.masks = TRUE]
        \/ r = [d EXCEPT !.masks = TRUE, !.configured = TRUE]
    BY DEF HwInit
  <2>2. /\ r \in Port /\ r.cc = d.cc /\ r.contract = d.contract /\ r.retryQ = d.retryQ
    BY <1>4, HwInitKeeps
  <2> HIDE DEF r
  <2>3. r.req = d.req
    BY <1>4, <2>1 DEF Port
  <2> QED
    BY <1>4, <2>2, <2>3 DEF Forgot, Unplugged
<1> HIDE DEF r
<1>6. Covered(r)
  BY <1>5, ForgotCovered
<1>7. Covered(FailSafe(b, f)) /\ Covered(FailSafe(r, f))
  BY <1>2, <1>5, <1>6, FailSafeForgets, ForgotCovered DEF Sound
<1>8. Covered(RestoreIlim(g, f))
  <2>1. g \in Port /\ Forgot(g)
    BY <1>5 DEF Port, Forgot
  <2> HIDE DEF g
  <2>2. Forgot(RestoreIlim(g, f))
    BY <2>1, RestoreIlimLimit DEF Forgot
  <2> QED
    BY <2>2, ForgotCovered
<1> QED
  BY <1>1, <1>2, <1>6, <1>7, <1>8

LEMMA HandleEvCovered ==
    ASSUME OrdinarySource, NEW p, Sound(p), Covered(p), NEW e \in Event,
           NEW c \in CcStats, NEW n \in 0..Len(SrcPdos),
           NEW sent \in BOOLEAN, NEW busy \in BOOLEAN, NEW f,
           NEW q, q = HandleEv(p, e, c, n, sent, busy, f)
    PROVE  Covered(q)
<1> DEFINE a == IF e.reset THEN Recover(p, f) ELSE p
           u == UpdateCc(a, c, busy, f)
           m == PdMsg(u, e.msg, busy, f)
<1>1. Sound(a) /\ Covered(a)
  BY RecoverKeeps, RecoverCovered
<1>2. q = IF a.halted THEN [a EXCEPT !.unread = TRUE]
          ELSE IF "cc" \in f THEN [a EXCEPT !.unread = TRUE, !.ccMissed = TRUE]
          ELSE IF AboutContract(e) \/ (m.cc = "sink" /\ ~m.contract)
          THEN PdReady(m, n, sent, f)
          ELSE m
  BY DEF HandleEv
<1> HIDE DEF a
<1>3. CASE a.halted \/ "cc" \in f
  <2>1. /\ q.contract = a.contract /\ q.sel = a.sel /\ q.req = a.req
        /\ q.nreq = a.nreq /\ q.ilim = a.ilim
        /\ q.ilimFailed = a.ilimFailed /\ q.undone = a.undone
    BY <1>1, <1>2, <1>3 DEF Sound, Port
  <2> QED
    BY <1>1, <2>1, SameCovered
<1>4. CASE ~a.halted /\ "cc" \notin f
  <2>1. Running(a)
    BY <1>1, <1>4 DEF Sound, Running
  <2>2. e.msg \in Msgs
    BY DEF Event
  <2>3. Running(u) /\ Covered(u)
    BY <1>1, <2>1, UpdateCcKeeps, UpdateCcCovered DEF Running
  <2> HIDE DEF u
  <2>4. Running(m) /\ Covered(m)
    BY <2>2, <2>3, PdMsgKeeps, PdMsgCovered DEF Running
  <2> HIDE DEF m
  <2>5. Covered(PdReady(m, n, sent, f))
    BY <2>4, PdReadyCovered DEF Running
  <2> QED
    BY <1>2, <1>4, <2>4, <2>5
<1> QED
  BY <1>3, <1>4

LEMMA ResyncCovered ==
    ASSUME OrdinarySource, NEW p, Sound(p), Covered(p), NEW had, NEW full, NEW lost,
           NEW c \in CcStats, NEW n \in 0..Len(SrcPdos),
           NEW sent \in BOOLEAN, NEW busy \in BOOLEAN, NEW f,
           NEW q, q = Resync(p, had, full, lost, c, n, sent, busy, f)
    PROVE  Covered(q)
<1> DEFINE gone == lost \/ (~p.masks /\ "peek" \notin f)
           a == IF gone THEN Recover(p, f) ELSE p
<1>1. Sound(a) /\ Covered(a)
  BY RecoverKeeps, RecoverCovered
<1>2. q = IF gone \/ ~had \/ full
          THEN HandleEv(a, NoEvent, c, n, sent, busy, f) ELSE a
  BY DEF Resync
<1> HIDE DEF a
<1> QED
  BY <1>1, <1>2, NoEventType, HandleEvCovered

LEMMA RecoverRunCovered ==
    ASSUME OrdinarySource, NEW p, Sound(p), Covered(p),
           NEW c \in CcStats, NEW n \in 0..Len(SrcPdos),
           NEW sent \in BOOLEAN, NEW busy \in BOOLEAN, NEW f,
           NEW q, q = RecoverRun(p, c, n, sent, busy, f)
    PROVE  Covered(q)
<1> DEFINE a == [p EXCEPT !.recoverQ = "off"]
           b == Recover(a, f)
<1>1. Sound(a)
  BY RecoverQKeeps
<1>2. q = IF p.halted THEN HandleEv(b, NoEvent, c, n, sent, busy, f) ELSE a
  BY DEF RecoverRun
<1>3. Covered(a)
  <2>1. /\ a.contract = p.contract /\ a.sel = p.sel /\ a.req = p.req
        /\ a.nreq = p.nreq /\ a.ilim = p.ilim
        /\ a.ilimFailed = p.ilimFailed /\ a.undone = p.undone
    BY DEF Sound, Port
  <2> HIDE DEF a
  <2> QED
    BY <2>1, SameCovered
<1> HIDE DEF a
<1>4. Sound(b) /\ Covered(b)
  BY <1>1, <1>3, RecoverKeeps, RecoverCovered
<1> HIDE DEF b
<1> QED
  BY <1>2, <1>3, <1>4, NoEventType, HandleEvCovered

-----------------------------------------------------------------------------
(* What the steps of UsbcPort change of the port themselves.               *)
LEMMA WireKeeps ==
    ASSUME NEW p, Sound(p),
           NEW q, q = [p EXCEPT !.wire = 0]
    PROVE  /\ Sound(q) /\ q.cc = p.cc /\ q.ccMissed = p.ccMissed
           /\ q.vbusQ = p.vbusQ /\ q.retryQ = p.retryQ
           /\ q.recoverQ = p.recoverQ
<1>1. q \in Port
  BY ZeroInRange DEF Sound, Port, Windows
<1> QED
  BY <1>1 DEF Sound, Port, Unplugged, Driven, Held, Noticed

LEMMA ForgetKeeps ==
    ASSUME NEW p, Sound(p),
           NEW q, q = [p EXCEPT !.wire = 0, !.configured = FALSE, !.masks = FALSE]
    PROVE  /\ Sound(q) /\ q.cc = p.cc /\ q.ccMissed = p.ccMissed
           /\ q.vbusQ = p.vbusQ /\ q.retryQ = p.retryQ
           /\ q.recoverQ = p.recoverQ
<1>1. q \in Port
  BY ZeroInRange, ZenonT(30) DEF Sound, Port, Windows
<1> QED
  BY <1>1 DEF Sound, Port, Unplugged, Driven, Held, Noticed

LEMMA UnreadKeeps ==
    ASSUME NEW p, Sound(p), NEW b \in BOOLEAN,
           NEW q, q = [p EXCEPT !.unread = b]
    PROVE  /\ Sound(q) /\ q.cc = p.cc /\ q.ccMissed = p.ccMissed
           /\ q.vbusQ = p.vbusQ /\ q.retryQ = p.retryQ
           /\ q.recoverQ = p.recoverQ
<1>1. q \in Port
  BY ZeroInRange DEF Sound, Port, Windows
<1> QED
  BY <1>1 DEF Sound, Port, Unplugged, Driven, Held, Noticed

LEMMA WindowEnds ==
    ASSUME NEW p, Sound(p),
           NEW q, q = [p EXCEPT !.window = "closed"]
    PROVE  /\ Sound(q) /\ q.cc = p.cc /\ q.ccMissed = p.ccMissed
           /\ q.vbusQ = p.vbusQ /\ q.retryQ = p.retryQ
           /\ q.recoverQ = p.recoverQ
<1>1. q \in Port
  BY ZeroInRange DEF Sound, Port, Windows
<1> QED
  BY <1>1 DEF Sound, Port, Unplugged, Driven, Held, Noticed

LEMMA BackoffEnds ==
    ASSUME NEW p, Sound(p),
           NEW q, q = [p EXCEPT !.backoff = FALSE]
    PROVE  /\ Sound(q) /\ q.cc = p.cc /\ q.ccMissed = p.ccMissed
           /\ q.vbusQ = p.vbusQ /\ q.retryQ = p.retryQ
           /\ q.recoverQ = p.recoverQ
<1>1. q \in Port
  BY ZeroInRange DEF Sound, Port, Windows
<1> QED
  BY <1>1 DEF Sound, Port, Unplugged, Driven, Held, Noticed

LEMMA RetryOff ==
    ASSUME NEW p, Sound(p),
           NEW q, q = [p EXCEPT !.retryQ = FALSE]
    PROVE  /\ Sound(q) /\ q.cc = p.cc /\ q.ccMissed = p.ccMissed
           /\ ~q.retryQ /\ q.recoverQ = p.recoverQ /\ q.halted = p.halted
<1>1. q \in Port
  BY ZeroInRange DEF Sound, Port, Windows
<1> QED
  BY <1>1, SMTT(30) DEF Sound, Port, Unplugged, Driven, Held, Noticed

LEMMA VbusRetryOff ==
    ASSUME NEW p, Sound(p),
           NEW q, q = [p EXCEPT !.vbusQ = FALSE]
    PROVE  /\ Sound(q) /\ q.cc = p.cc /\ q.ccMissed = p.ccMissed
           /\ ~q.vbusQ /\ q.recoverQ = p.recoverQ
<1>1. q \in Port
  BY ZeroInRange DEF Sound, Port, Windows
<1> QED
  BY <1>1 DEF Sound, Port, Unplugged, Driven, Held, Noticed

LEMMA LetGoHeld ==
    ASSUME NEW p, Sound(p), p.halted, NEW f, NEW q, q = LetGo(p, f)
    PROVE  Held(q)
<1>1. p \in Port /\ q = VbusOff(p, f)
  BY DEF Sound, Held, LetGo
<1>2. q.ilim = p.ilim /\ q.ilimFailed = p.ilimFailed
  BY <1>1 DEF VbusOff, Port
<1>3. /\ q.vbusOn => q.stopFailed
      /\ ~q.vbusQ
      /\ q.cc = p.cc /\ q.contract = p.contract /\ q.retryQ = p.retryQ
  BY <1>1, VbusOffKeeps
<1> QED
  BY <1>2, <1>3 DEF Sound, Held

LEMMA LetGoSound ==
    ASSUME NEW p, Sound(p), NEW f, NEW q, q = LetGo(p, f)
    PROVE  /\ Sound(q) /\ q.cc = "none" /\ ~q.vbusQ /\ ~q.retryQ
           /\ q.recoverQ = p.recoverQ
<1>1. p \in Port /\ Unplugged(p)
  BY DEF Sound
<1>2. /\ q \in Port
      /\ q.cc = "none" /\ ~q.contract /\ ~q.vbusQ /\ ~q.retryQ
      /\ q.vbusOn => q.stopFailed
      /\ q.halted = p.halted
      /\ SameChip(p, q)
  BY <1>1, LetGoKeeps
<1>3. ~p.halted => Held(q)
  BY <1>2 DEF Held
<1> QED
  BY <1>2, <1>3, LetGoHeld DEF Sound, Unplugged, Driven, Noticed, SameChip

-----------------------------------------------------------------------------
(* A step of partner, source or chip that keeps the driver's part.  A      *)
(* change of the CC level raises its interrupt while somebody listens.     *)
Outside ==
    /\ cc' \in CcStats /\ real' \in 0..Len(SrcPdos)
    /\ ints' \subseteq Kinds /\ report' \in Msgs /\ sys' \in {"reset", "other"}
    /\ events' \in 0..MaxEvents
    /\ pm = "up" => ints \subseteq ints'
    /\ pm = "up" /\ cc' # cc => "cc" \in ints'
    /\ Sound(port') /\ port'.cc = port.cc /\ port'.ccMissed = port.ccMissed
    /\ port'.vbusQ = port.vbusQ /\ port'.retryQ = port.retryQ
    /\ port'.recoverQ = port.recoverQ
    /\ UNCHANGED <<isr, queue, work, pm, faults>>

LEMMA OutsideKeeps ==
    ASSUME IInv, Outside
    PROVE  IInv'
<1>1. TypeOK'
  BY DEF IInv, TypeOK, Outside, queue, work, Sound
<1>2. SourceKnown'
  BY DEF IInv, Outside, SourceKnown, CcHeard, queue
<1>3. Drains'
  BY DEF IInv, Outside, Drains, work
<1> QED
  BY <1>1, <1>2, <1>3 DEF IInv, Outside

LEMMA HappensTypes ==
    ASSUME IInv, Happens
    PROVE  events' \in 0..MaxEvents /\ UNCHANGED <<isr, queue, work, pm, faults>>
  BY UsbcPortAssumption DEF IInv, TypeOK, Happens

LEMMA WorldKeeps ==
    ASSUME IInv, World \/ SourceAnswers
    PROVE  IInv'
<1>1. /\ 0 \in 0..Len(SrcPdos)
      /\ \A i \in Pos : i \in 0..Len(SrcPdos)
      /\ Sound(port)
      /\ cc \in CcStats /\ real \in 0..Len(SrcPdos)
      /\ ints \subseteq Kinds /\ report \in Msgs /\ sys \in {"reset", "other"}
      /\ port.wire \in 0..Len(SrcPdos) /\ events \in 0..MaxEvents
  BY ZeroInRange, UsbcStateAssumption DEF IInv, TypeOK, Pos, Sound, Port
<1>2. CASE PartnerMoves
  BY <1>1, <1>2, HappensTypes, WireKeeps, OutsideKeeps
  DEF PartnerMoves, Raise, Kinds, Outside
<1>3. CASE SourceOffers
  BY <1>1, <1>3, HappensTypes, WireKeeps, OutsideKeeps
  DEF SourceOffers, Raise, Kinds, Outside
<1>4. CASE SourceRepeats
  BY <1>1, <1>4, HappensTypes, OutsideKeeps
  DEF SourceRepeats, Reports, Raise, Kinds, Msgs, Outside, partner
<1>5. CASE HardResets
  BY <1>1, <1>5, HappensTypes, WireKeeps, OutsideKeeps
  DEF HardResets, Reports, Raise, Kinds, Msgs, Outside
<1>6. CASE Swaps
  BY <1>1, <1>6, HappensTypes, OutsideKeeps
  DEF Swaps, Reports, Raise, Kinds, Msgs, Outside, partner
<1>7. CASE ChipResets
  BY <1>1, <1>7, HappensTypes, ForgetKeeps, OutsideKeeps
  DEF ChipResets, Raise, Kinds, Outside
<1>8. CASE ChipSpeaks
  BY <1>1, <1>8, HappensTypes, OutsideKeeps
  DEF ChipSpeaks, Raise, Kinds, Outside, partner
<1>9. CASE SourceAnswers
  BY <1>1, <1>9, WireKeeps, OutsideKeeps
  DEF SourceAnswers, Reports, Raise, Kinds, Msgs, Outside
<1> QED
  BY <1>2, <1>3, <1>4, <1>5, <1>6, <1>7, <1>8, <1>9 DEF World

(* The interrupt handler.                                                  *)
LEMMA HandlerKeeps ==
    ASSUME IInv, Handler
    PROVE  IInv'
<1>1. CASE IrqRead
  BY <1>1 DEF IrqRead, IInv, TypeOK, Sound, Unplugged, Driven, Held, Noticed,
     SourceKnown, CcHeard, Drains, queue, work, partner
<1>2. CASE IrqQueue
  <2>1. PICK failed \in BOOLEAN :
          LET e == Seen(failed)
              full == Len(fifo) >= FifoSize
          IN  /\ faults' = IF failed THEN faults + 1 ELSE faults
              /\ failed => MayFail
              /\ fifo' = Queued(e)
              /\ overflow' = (overflow \/ full)
              /\ resetLost' = (resetLost \/ (full /\ e.reset))
              /\ port' = [port EXCEPT !.unread =
                            @ \/ (full /\ AboutContract(e))
                              \/ (failed /\ "pdmsg" \in isr)]
    BY <1>2 DEF IrqQueue
  <2> DEFINE e == Seen(failed)
             full == Len(fifo) >= FifoSize
             b == port.unread \/ (full /\ AboutContract(e))
                              \/ (failed /\ "pdmsg" \in isr)
  <2>2. b \in BOOLEAN
    OBVIOUS
  <2>3. port' = [port EXCEPT !.unread = b]
    BY <2>1
  <2> HIDE DEF b
  <2>4. Sound(port') /\ port'.cc = port.cc /\ port'.ccMissed = port.ccMissed
        /\ port'.vbusQ = port.vbusQ /\ port'.retryQ = port.retryQ
        /\ port'.recoverQ = port.recoverQ
    BY <2>2, <2>3, UnreadKeeps DEF IInv
  <2>5. e \in Event
    BY DEF Seen, Event, IInv, TypeOK, Msgs
  <2>6. /\ fifo' \in Seq(Event) /\ Len(fifo') <= FifoSize
        /\ fifo # <<>> => fifo' # <<>>
        /\ fifo' # <<>> \/ overflow'
    <3> HIDE DEF e
    <3>1. fifo \in Seq(Event) /\ Len(fifo) <= FifoSize /\ FifoSize \in Nat
      BY UsbcPortAssumption DEF IInv, TypeOK
    <3>2. fifo' = IF Len(fifo) < FifoSize THEN Append(fifo, e) ELSE fifo
      BY <2>1 DEF Queued, e
    <3>3. overflow' = (overflow \/ Len(fifo) >= FifoSize)
      BY <2>1
    <3>4. CASE Len(fifo) < FifoSize
      <4>1. fifo' = Append(fifo, e)
        BY <3>2, <3>4
      <4> QED
        BY <2>5, <3>1, <3>4, <4>1
    <3>5. CASE ~(Len(fifo) < FifoSize)
      <4>1. fifo' = fifo
        BY <3>2, <3>5
      <4>2. Len(fifo) \in Nat
        BY <3>1
      <4>3. Len(fifo) >= FifoSize
        BY <3>1, <3>5, <4>2
      <4>4. overflow'
        BY <3>3, <4>3, Zenon
      <4> QED
        BY <3>1, <4>1, <4>4
    <3> QED
      BY <3>4, <3>5
  <2>7. faults' \in 0..MaxFaults
    BY <2>1, UsbcPortAssumption DEF IInv, TypeOK, MayFail
  <2>8. overflow' \in BOOLEAN /\ resetLost' \in BOOLEAN
    BY <2>1
  <2>9. pm = "up"
    BY <1>2 DEF IInv, Drains, IrqQueue
  <2>10. TypeOK'
    BY <1>2, <2>4, <2>6, <2>7, <2>8 DEF IrqQueue, IInv, TypeOK, Sound, partner, Msgs
  <2>11. SourceKnown'
    BY <1>2, <2>4, <2>6 DEF IrqQueue, SourceKnown, CcHeard
  <2>12. Drains'
    BY <1>2, <2>9 DEF IrqQueue, Drains
  <2> QED
    BY <2>4, <2>10, <2>11, <2>12 DEF IInv
<1> QED
  BY <1>1, <1>2 DEF Handler

(* The works.                                                              *)
LEMMA FailsTypes ==
    ASSUME IInv, NEW f \in Failures, Fails(f)
    PROVE  faults' \in 0..MaxFaults
<1>1. f # {} => MayFail
  BY DEF Failures
<1> QED
  BY <1>1, UsbcPortAssumption DEF Fails, IInv, TypeOK, MayFail

LEMMA WorkKeeps ==
    ASSUME IInv, Work
    PROVE  IInv'
<1>1. /\ Sound(port) /\ cc \in CcStats /\ real \in 0..Len(SrcPdos)
  BY DEF IInv, TypeOK
<1>2. CASE WorkBegin
  BY <1>2, ZenonT(30) DEF WorkBegin, Idle, WorkFrame, IInv, TypeOK, Sound, Unplugged,
     Driven, Held, Noticed, SourceKnown, CcHeard, Drains, queue, partner, chip
<1>3. CASE WorkEvent
  <2>1. PICK f \in Failures, sent \in BOOLEAN, busy \in BOOLEAN :
          /\ Fails(f)
          /\ port' = HandleEv(port, Head(fifo), cc, real, sent, busy, f)
    BY <1>3 DEF WorkEvent
  <2>2. fifo \in Seq(Event) /\ fifo # <<>> /\ FifoSize \in Nat /\ Len(fifo) <= FifoSize
    BY <1>3, UsbcPortAssumption DEF WorkEvent, IInv, TypeOK
  <2>3. /\ Head(fifo) \in Event
        /\ Tail(fifo) \in Seq(Event) /\ Len(Tail(fifo)) <= FifoSize
    BY <2>2
  <2>4. Sound(port') /\ (port'.cc = "source" => cc = "source" \/ port'.ccMissed)
    BY <1>1, <2>1, <2>3, HandleEvKeeps
  <2>5. faults' \in 0..MaxFaults
    BY <2>1, FailsTypes
  <2>6. /\ fifo' = Tail(fifo) /\ any' = TRUE
        /\ UNCHANGED <<overflow, resetLost, workQ, draining, cc, real, ints, report,
                       sys, isr, pm, events>>
        /\ draining
    BY <1>3 DEF WorkEvent, WorkFrame, partner, chip
  <2>7. TypeOK'
    BY <2>3, <2>4, <2>5, <2>6 DEF IInv, TypeOK, Sound
  <2>8. SourceKnown'
    BY <2>4, <2>6 DEF SourceKnown, CcHeard
  <2>9. Drains'
    BY <2>6 DEF IInv, Drains
  <2> QED
    BY <2>4, <2>7, <2>8, <2>9 DEF IInv
<1>4. CASE WorkEnd
  <2>1. PICK f \in Failures, sent \in BOOLEAN, busy \in BOOLEAN :
          /\ Fails(f)
          /\ port' = Resync(port, any, overflow, resetLost, cc, real, sent, busy, f)
    BY <1>4 DEF WorkEnd
  <2>2. /\ Sound(port')
        /\ \/ port' = port /\ ~overflow
           \/ port'.cc = "source" => cc = "source" \/ port'.ccMissed
    BY <1>1, <2>1, ResyncKeeps
  <2>3. faults' \in 0..MaxFaults
    BY <2>1, FailsTypes
  <2>4. /\ fifo = <<>> /\ draining
        /\ overflow' = FALSE /\ resetLost' = FALSE /\ draining' = FALSE /\ any' = FALSE
        /\ UNCHANGED <<fifo, workQ, cc, real, ints, report, sys, isr, pm, events>>
    BY <1>4 DEF WorkEnd, WorkFrame, partner, chip
  <2>5. TypeOK'
    BY <2>2, <2>3, <2>4 DEF IInv, TypeOK, Sound
  <2>6. SourceKnown'
    BY <2>2, <2>4 DEF IInv, SourceKnown, CcHeard
  <2>7. Drains'
    BY <2>4 DEF IInv, Drains
  <2> QED
    BY <2>2, <2>5, <2>6, <2>7 DEF IInv
<1> QED
  BY <1>2, <1>3, <1>4 DEF Work

(* What the delayed works leave alone, and what they make of the port.     *)
LEMMA DelayedKeeps ==
    ASSUME IInv, UNCHANGED <<queue, work>>, WorkFrame,
           faults' \in 0..MaxFaults,
           Sound(port'),
           \/ port'.cc = port.cc /\ port'.ccMissed = port.ccMissed
           \/ port'.cc = "source" => cc = "source" \/ port'.ccMissed,
           pm \in {"detach", "removed"} => port'.recoverQ = "off",
           pm = "removed" => ~port'.vbusQ /\ ~port'.retryQ /\ port'.cc = "none"
    PROVE  IInv'
<1>1. TypeOK'
  BY DEF IInv, TypeOK, queue, work, WorkFrame, partner, chip, Sound
<1>2. SourceKnown'
  BY DEF IInv, SourceKnown, CcHeard, queue, WorkFrame, partner, chip
<1>3. Drains'
  BY DEF IInv, Drains, work, WorkFrame
<1> QED
  BY <1>1, <1>2, <1>3 DEF IInv

LEMMA DelayedWorksKeep ==
    ASSUME IInv, VbusWork \/ RetryWork \/ RecoverWork \/ TimePasses
    PROVE  IInv'
<1>1. /\ Sound(port) /\ cc \in CcStats /\ real \in 0..Len(SrcPdos)
      /\ faults \in 0..MaxFaults
      /\ pm \in {"detach", "removed"} => port.recoverQ = "off"
      /\ pm = "removed" => ~port.vbusQ /\ ~port.retryQ /\ port.cc = "none"
  BY DEF IInv, TypeOK, Drains
<1>2. CASE VbusWork
  <2>1. PICK busy \in BOOLEAN : port' = VbusRun(port, busy)
    BY <1>2 DEF VbusWork
  <2>2. /\ Sound(port') /\ port'.cc = port.cc /\ port'.recoverQ = port.recoverQ
        /\ port'.ccMissed = port.ccMissed
    BY <1>1, <2>1, VbusRunKeeps
  <2>3. port.vbusQ /\ UNCHANGED <<queue, work, faults>> /\ WorkFrame
    BY <1>2 DEF VbusWork
  <2> QED
    BY <1>1, <2>2, <2>3, DelayedKeeps
<1>3. CASE RetryWork
  <2> DEFINE a == [port EXCEPT !.retryQ = FALSE]
  <2>1. PICK f \in Failures, sent \in BOOLEAN :
          Fails(f) /\ port' = PdRequest(a, sent, f)
    BY <1>3 DEF RetryWork
  <2>2. port.retryQ /\ UNCHANGED <<queue, work>> /\ WorkFrame
    BY <1>3 DEF RetryWork
  <2>3. /\ Sound(a) /\ a.cc = port.cc /\ a.ccMissed = port.ccMissed
        /\ a.recoverQ = port.recoverQ /\ a.halted = port.halted
    BY <1>1, RetryOff
  <2>4. ~port.halted
    BY <1>1, <2>2 DEF Sound, Held
  <2> HIDE DEF a
  <2>5. Running(a)
    BY <2>3, <2>4 DEF Sound, Running
  <2>6. Running(port') /\ SameChip(a, port') /\ port'.cc = a.cc
    BY <2>1, <2>5, PdRequestKeeps
  <2>7. port'.ccMissed = a.ccMissed
    BY <2>1, <2>3, PdRequestCc DEF Sound
  <2>8. Sound(port')
    <3>1. Noticed(a)
      BY <2>3 DEF Sound
    <3>2. ~port'.halted
      BY <2>6 DEF Running
    <3>3. Noticed(port')
      BY <2>3, <2>4, <2>6, <3>1 DEF Noticed, SameChip
    <3> QED
      BY <2>6, <3>2, <3>3 DEF Sound, Running, Held
  <2>9. faults' \in 0..MaxFaults
    BY <2>1, FailsTypes
  <2>10. port'.recoverQ = port.recoverQ
    BY <2>3, <2>6 DEF SameChip
  <2> QED
    BY <1>1, <2>2, <2>3, <2>6, <2>7, <2>8, <2>9, <2>10, DelayedKeeps
<1>4. CASE RecoverWork
  <2>1. PICK f \in Failures, sent \in BOOLEAN, busy \in BOOLEAN :
          Fails(f) /\ port' = RecoverRun(port, cc, real, sent, busy, f)
    BY <1>4 DEF RecoverWork
  <2>2. port.recoverQ = "due" /\ UNCHANGED <<queue, work>> /\ WorkFrame
    BY <1>4 DEF RecoverWork
  <2>3. /\ Sound(port')
        /\ \/ port'.cc = port.cc /\ port'.ccMissed = port.ccMissed
           \/ port'.cc = "source" => cc = "source" \/ port'.ccMissed
    BY <1>1, <2>1, RecoverRunKeeps
  <2>4. faults' \in 0..MaxFaults
    BY <2>1, FailsTypes
  <2> QED
    BY <1>1, <2>2, <2>3, <2>4, DelayedKeeps
<1>5. CASE TimePasses
  <2>1. UNCHANGED <<queue, work, faults>> /\ WorkFrame
    BY <1>5 DEF TimePasses
  <2>2. CASE port' = [port EXCEPT !.window = "closed"]
    BY <1>1, <2>1, <2>2, WindowEnds, DelayedKeeps
  <2>3. CASE port.recoverQ = "waiting" /\ port' = [port EXCEPT !.recoverQ = "due"]
    BY <1>1, <2>1, <2>3, RecoverQKeeps, DelayedKeeps
  <2>4. CASE port' = [port EXCEPT !.backoff = FALSE]
    BY <1>1, <2>1, <2>4, BackoffEnds, DelayedKeeps
  <2> QED
    BY <1>5, <2>2, <2>3, <2>4 DEF TimePasses
<1> QED
  BY <1>2, <1>3, <1>4, <1>5

(* The removal.                                                            *)
LEMMA RemoveKeeps ==
    ASSUME IInv, Remove
    PROVE  IInv'
<1>1. /\ Sound(port) /\ faults \in 0..MaxFaults
  BY DEF IInv, TypeOK
<1>2. CASE RemoveIrq
  BY <1>2 DEF RemoveIrq, IInv, TypeOK, Sound, Unplugged, Driven, Held, Noticed,
     SourceKnown, CcHeard, Drains, queue, work, partner, Msgs
<1>3. CASE RemoveWork
  BY <1>3 DEF RemoveWork, Removing, Idle, IInv, TypeOK, Sound, Unplugged, Driven,
     Held, Noticed, SourceKnown, CcHeard, Drains, queue, partner, chip
<1>4. CASE RemoveDelayed
  <2>1. /\ Sound(port')
        /\ pm' = "detach" => port'.recoverQ = "off"
    <3>1. CASE Removing("retry", "vbus") /\ port' = [port EXCEPT !.retryQ = FALSE]
      BY <1>1, <3>1, RetryOff DEF Removing
    <3>2. CASE Removing("vbus", "recover") /\ port' = [port EXCEPT !.vbusQ = FALSE]
      BY <1>1, <3>2, VbusRetryOff DEF Removing
    <3>3. CASE Removing("recover", "detach")
               /\ port' = [port EXCEPT !.recoverQ = "off"]
      BY <1>1, <3>3, RecoverQKeeps DEF Removing
    <3> QED
      BY <1>4, <3>1, <3>2, <3>3 DEF RemoveDelayed
  <2>2. /\ pm \in {"retry", "vbus", "recover"} /\ pm' \in {"vbus", "recover", "detach"}
        /\ ~draining
        /\ UNCHANGED <<cc, real, ints, report, sys, isr, fifo, overflow, resetLost,
                       events, workQ, draining, any, faults>>
    BY <1>4 DEF RemoveDelayed, Removing, Idle, partner, chip, queue, work
  <2> QED
    BY <2>1, <2>2 DEF IInv, TypeOK, Sound, SourceKnown, Drains
<1>5. CASE RemoveDetach
  <2>1. PICK f \in Failures : Fails(f) /\ port' = LetGo(port, f)
    BY <1>5 DEF RemoveDetach
  <2>2. /\ Sound(port') /\ port'.cc = "none" /\ ~port'.vbusQ /\ ~port'.retryQ
        /\ port'.recoverQ = port.recoverQ
    BY <1>1, <2>1, LetGoSound
  <2>3. faults' \in 0..MaxFaults
    BY <2>1, FailsTypes
  <2>4. /\ pm = "detach" /\ pm' = "removed"
        /\ UNCHANGED <<cc, real, ints, report, sys, isr, fifo, overflow, resetLost,
                       events, workQ, draining, any>>
    BY <1>5 DEF RemoveDetach, Removing, partner, chip, queue, work
  <2> QED
    BY <2>2, <2>3, <2>4 DEF IInv, TypeOK, Sound, SourceKnown, Drains
<1> QED
  BY <1>2, <1>3, <1>4, <1>5 DEF Remove

-----------------------------------------------------------------------------
(* Probe leaves a port that is sound.                                      *)
LEMMA Initially == Init => IInv
<1> SUFFICES ASSUME Init PROVE IInv
  OBVIOUS
<1>1. PICK on \in BOOLEAN :
         port = [cc |-> "none", vbusOn |-> on, vbusQ |-> FALSE, retries |-> 0,
                 contract |-> FALSE, sel |-> 0, req |-> 0, nreq |-> 0,
                 backoff |-> FALSE, retryQ |-> FALSE, ilim |-> IlimBase,
                 halted |-> FALSE, recoverQ |-> "off", recoveries |-> 0,
                 window |-> "closed", configured |-> TRUE, masks |-> TRUE,
                 wire |-> 0, stopFailed |-> on, ilimFailed |-> FALSE,
                 undone |-> FALSE,
                 ccMissed |-> FALSE, unread |-> FALSE]
  BY DEF Init
<1>2. port \in Port
  BY <1>1, ZeroInRange, UsbcStateAssumption DEF Port, CcStats, Windows
<1>3. Sound(port) /\ port.cc = "none"
  BY <1>1, <1>2 DEF Sound, Unplugged, Driven, Held, Noticed
<1>4. /\ cc \in CcStats /\ real = 0
      /\ ints = {} /\ report = "none" /\ sys = "other" /\ isr = {} /\ fifo = <<>>
      /\ overflow = FALSE /\ resetLost = FALSE
      /\ workQ = TRUE /\ draining = FALSE /\ any = FALSE
      /\ pm = "up" /\ events = 0 /\ faults = 0
  BY UsbcPortAssumption DEF Init
<1>5. fifo \in Seq(Event) /\ Len(fifo) <= FifoSize
  BY <1>4, UsbcPortAssumption
<1>6. 0 \in 0..MaxEvents /\ 0 \in 0..MaxFaults
  BY UsbcPortAssumption
<1>7. TypeOK
  BY <1>2, <1>4, <1>5, <1>6, ZeroInRange DEF TypeOK, Msgs
<1> QED
  BY <1>3, <1>4, <1>7 DEF IInv, SourceKnown, Drains

(* Every step keeps the invariant.                                         *)
LEMMA Inductive == IInv /\ [Next]_vars => IInv'
<1> SUFFICES ASSUME IInv, [Next]_vars PROVE IInv'
  OBVIOUS
<1>1. CASE World \/ SourceAnswers
  BY <1>1, WorldKeeps
<1>2. CASE Handler
  BY <1>2, HandlerKeeps
<1>3. CASE Work
  BY <1>3, WorkKeeps
<1>4. CASE VbusWork \/ RetryWork \/ RecoverWork \/ TimePasses
  BY <1>4, DelayedWorksKeep
<1>5. CASE Remove
  BY <1>5, RemoveKeeps
<1>6. CASE UNCHANGED vars
  BY <1>6 DEF vars, partner, chip, queue, work, IInv, TypeOK, SourceKnown, CcHeard,
     Drains
<1> QED
  BY <1>1, <1>2, <1>3, <1>4, <1>5, <1>6 DEF Next, Driver

(* IInv holds throughout.                                                  *)
LEMMA Invariance == Spec => []IInv
<1> QED
  BY Initially, Inductive, PTL DEF Spec

(* The driver's state stays within its type, the fifo within its size: an  *)
(* event more than MAX77705_EV_FIFO_SIZE is marked as lost, not stored.    *)
THEOREM TypeCorrect == Spec => []TypeOK
<1>1. IInv => TypeOK
  BY DEF IInv
<1> QED
  BY <1>1, Invariance, PTL

(* max77705_vbus_set(): the boost drives VBUS only for a port that is the  *)
(* source, through swaps, hard resets, recovery, retries and removal.      *)
THEOREM VbusOnlyAsSource == Spec => []VbusFollowsPort
<1>1. IInv => VbusFollowsPort
  BY DEF IInv, Sound, Driven, SourceKnown, CcHeard, VbusFollowsPort, CcComing
<1> QED
  BY <1>1, Invariance, PTL

(* max77705_fail_safe(): a port that is held is without VBUS, contract and *)
(* request, and its input limit is at the floor.                           *)
THEOREM HeldIsSafe == Spec => []HeldPortIsSafe
<1>1. IInv => HeldPortIsSafe
  BY DEF IInv, Sound, Held, HeldPortIsSafe
<1> QED
  BY <1>1, Invariance, PTL

(* max77705_masks_lost() and max77705_recover(): the settings are lost no  *)
(* longer than the masks tell, or the port is held.                        *)
THEOREM ResetNeverMissed == Spec => []ResetIsNoticed
<1>1. IInv => ResetIsNoticed
  BY DEF IInv, Sound, Noticed, ResetIsNoticed
<1> QED
  BY <1>1, Invariance, PTL

(* max77705_usbc_teardown(): whatever a work that still ran has queued     *)
(* behind it, nothing is left when it returns, and VBUS is off.            *)
THEOREM RemovedStaysQuiet == Spec => []RemovedIsQuiet
<1>1. IInv => RemovedIsQuiet
  BY DEF IInv, Sound, Driven, Drains, RemovedIsQuiet
<1> QED
  BY <1>1, Invariance, PTL

-----------------------------------------------------------------------------
(* The contract in force, step by step: until its report has been handled  *)
(* or lost, the report is on its way; from then on the contract is noted.  *)
ContractNoted ==
    pm = "up" /\ real # 0 =>
        /\ cc = "sink"
        /\ ReadyComing \/ port.unread \/ Noted(port, real)

LEMMA WorldNotes ==
    ASSUME IInv, ContractNoted, World \/ SourceAnswers
    PROVE  ContractNoted'
<1> SUFFICES ASSUME pm' = "up", real' # 0
             PROVE  /\ cc' = "sink"
                    /\ ReadyComing' \/ port'.unread \/ Noted(port', real')
  BY DEF ContractNoted
<1>1. port \in Port /\ pm = "up" /\ UNCHANGED <<isr, fifo>>
  BY DEF IInv, TypeOK, World, PartnerMoves, SourceOffers, SourceRepeats, HardResets,
     Swaps, ChipResets, ChipSpeaks, SourceAnswers, Happens, queue
<1>2. CASE SourceOffers \/ (SourceAnswers /\ real' # real)
  <2>1. cc' = "sink"
    BY <1>1, <1>2 DEF SourceOffers, SourceAnswers, ContractNoted
  <2>2. "psrdy" \in ints'
    BY <1>1, <1>2 DEF SourceOffers, SourceAnswers, Raise
  <2> QED
    BY <2>1, <2>2 DEF ReadyComing
<1>3. CASE \/ SourceRepeats \/ Swaps \/ ChipSpeaks
           \/ SourceAnswers /\ real' = real
  <2>1. cc' = cc /\ real' = real /\ ints \subseteq ints'
    BY <1>1, <1>3 DEF SourceRepeats, Swaps, ChipSpeaks, SourceAnswers, Reports, Raise,
       partner
  <2>2. port' = port \/ port' = [port EXCEPT !.wire = 0]
    BY <1>3 DEF SourceRepeats, Swaps, ChipSpeaks, SourceAnswers
  <2>3. /\ port'.unread = port.unread
        /\ Noted(port, real) => Noted(port', real)
    BY <1>1, <2>2 DEF Port, Noted, Draws
  <2> QED
    BY <1>1, <2>1, <2>3 DEF ContractNoted, ReadyComing
<1>4. CASE PartnerMoves \/ HardResets \/ ChipResets
  BY <1>4 DEF PartnerMoves, HardResets, ChipResets
<1> QED
  <2>1. SourceAnswers => real' = real \/ real' # real
    OBVIOUS
  <2> QED
    BY <1>2, <1>3, <1>4, <2>1 DEF World

LEMMA HandlerNotes ==
    ASSUME IInv, ContractNoted, Handler
    PROVE  ContractNoted'
<1> SUFFICES ASSUME pm = "up", real # 0
             PROVE  ReadyComing' \/ port'.unread \/ Noted(port', real)
  BY DEF Handler, IrqRead, IrqQueue, partner, ContractNoted
<1>1. ReadyComing \/ port.unread \/ Noted(port, real)
  BY DEF ContractNoted
<1>2. CASE IrqRead
  BY <1>1, <1>2 DEF IrqRead, ReadyComing, queue
<1>3. CASE IrqQueue
  <2>1. PICK failed \in BOOLEAN :
          LET e == Seen(failed)
              full == Len(fifo) >= FifoSize
          IN  /\ fifo' = Queued(e)
              /\ port' = [port EXCEPT !.unread =
                            @ \/ (full /\ AboutContract(e))
                              \/ (failed /\ "pdmsg" \in isr)]
    BY <1>3 DEF IrqQueue
  <2> DEFINE e == Seen(failed)
             full == Len(fifo) >= FifoSize
             b == port.unread \/ (full /\ AboutContract(e))
                              \/ (failed /\ "pdmsg" \in isr)
  <2>2. port' = [port EXCEPT !.unread = b] /\ fifo' = Queued(e)
    BY <2>1
  <2>3. "psrdy" \in isr => e.psrdy
    BY DEF Seen
  <2>4. full /\ AboutContract(e) => b
    OBVIOUS
  <2>5. port.unread => b
    OBVIOUS
  <2> HIDE DEF e, b
  <2>6. /\ port'.unread = b
        /\ Noted(port, real) => Noted(port', real)
    BY <2>2 DEF IInv, TypeOK, Port, Noted, Draws
  <2>7. fifo \in Seq(Event) /\ FifoSize \in Nat /\ Len(fifo) \in Nat
    BY UsbcPortAssumption DEF IInv, TypeOK
  <2>8. ints' = ints
    BY <1>3 DEF IrqQueue
  <2>9. CASE "psrdy" \in isr
    <3>1. AboutContract(e)
      BY <2>3, <2>9 DEF AboutContract
    <3>2. CASE full
      BY <2>4, <2>6, <3>1, <3>2
    <3>3. CASE ~full
      <4>1. fifo' = Append(fifo, e)
        BY <2>2, <2>7, <3>3 DEF Queued
      <4>2. Len(fifo') = Len(fifo) + 1 /\ fifo'[Len(fifo) + 1] = e
        BY <2>7, <4>1
      <4>3. Len(fifo) + 1 \in 1..Len(fifo')
        BY <2>7, <4>2
      <4> QED
        BY <3>1, <4>2, <4>3 DEF ReadyComing
    <3> QED
      BY <3>2, <3>3
  <2>10. CASE "psrdy" \in ints
    BY <2>8, <2>10 DEF ReadyComing
  <2>11. CASE \E i \in 1..Len(fifo) : AboutContract(fifo[i])
    <3>1. PICK i \in 1..Len(fifo) : AboutContract(fifo[i])
      BY <2>11
    <3>2. i \in 1..Len(fifo') /\ fifo'[i] = fifo[i]
      <4>1. CASE fifo' = fifo
        BY <4>1
      <4>2. CASE fifo' = Append(fifo, e)
        BY <2>7, <4>2
      <4> QED
        BY <2>2, <4>1, <4>2 DEF Queued
    <3> QED
      BY <3>1, <3>2 DEF ReadyComing
  <2>12. CASE port.unread \/ Noted(port, real)
    BY <2>5, <2>6, <2>12
  <2> QED
    BY <1>1, <2>9, <2>10, <2>11, <2>12 DEF ReadyComing
<1> QED
  BY <1>2, <1>3 DEF Handler

LEMMA WorkNotes ==
    ASSUME IInv, ContractNoted, Work
    PROVE  ContractNoted'
<1> SUFFICES ASSUME pm = "up", real # 0
             PROVE  ReadyComing' \/ port'.unread \/ Noted(port', real)
  BY DEF Work, WorkBegin, WorkEvent, WorkEnd, WorkFrame, partner, ContractNoted
<1>1. /\ cc = "sink" /\ real \in Pos /\ Sound(port)
      /\ ReadyComing \/ port.unread \/ Noted(port, real)
  BY UsbcStateAssumption DEF ContractNoted, IInv, TypeOK, Pos
<1>2. CASE WorkBegin
  BY <1>1, <1>2 DEF WorkBegin, WorkFrame, ReadyComing, queue, chip
<1>3. CASE WorkEvent
  <2>1. PICK f \in Failures, sent \in BOOLEAN, busy \in BOOLEAN :
          port' = HandleEv(port, Head(fifo), cc, real, sent, busy, f)
    BY <1>3 DEF WorkEvent
  <2>2. fifo \in Seq(Event) /\ fifo # <<>> /\ Len(fifo) \in Nat /\ Len(fifo) # 0
    BY <1>3 DEF WorkEvent, IInv, TypeOK
  <2>3. Head(fifo) \in Event /\ Head(fifo) = fifo[1]
    BY <2>2
  <2>4. /\ fifo' = Tail(fifo) /\ ints' = ints /\ isr' = isr
    BY <1>3 DEF WorkEvent, WorkFrame, chip
  <2>5. CASE AboutContract(Head(fifo)) \/ port.unread \/ Noted(port, real)
    BY <1>1, <2>1, <2>3, <2>5, HandleEvNoted
  <2>6. CASE "psrdy" \in ints \cup isr
    BY <2>4, <2>6 DEF ReadyComing
  <2>7. ASSUME NEW i \in 1..Len(fifo), AboutContract(fifo[i]), i # 1
        PROVE  ReadyComing'
    <3>1. i - 1 \in 1..Len(Tail(fifo)) /\ Tail(fifo)[i - 1] = fifo[i]
      BY <2>2, <2>7
    <3>2. \E j \in 1..Len(fifo') : AboutContract(fifo'[j])
      BY <2>4, <2>7, <3>1
    <3> QED
      BY <3>2 DEF ReadyComing
  <2> QED
    BY <1>1, <2>3, <2>5, <2>6, <2>7 DEF ReadyComing
<1>4. CASE WorkEnd
  <2>1. PICK f \in Failures, sent \in BOOLEAN, busy \in BOOLEAN :
          port' = Resync(port, any, overflow, resetLost, cc, real, sent, busy, f)
    BY <1>4 DEF WorkEnd
  <2>2. fifo' = fifo /\ ints' = ints /\ isr' = isr
    BY <1>4 DEF WorkEnd, WorkFrame, chip
  <2>3. CASE ReadyComing
    BY <2>2, <2>3 DEF ReadyComing
  <2>4. CASE port.unread \/ Noted(port, real)
    BY <1>1, <2>1, <2>4, ResyncNoted
  <2> QED
    BY <1>1, <2>3, <2>4
<1> QED
  BY <1>2, <1>3, <1>4 DEF Work

LEMMA DelayedWorksNote ==
    ASSUME IInv, ContractNoted, VbusWork \/ RetryWork \/ RecoverWork \/ TimePasses
    PROVE  ContractNoted'
<1>1. UNCHANGED <<cc, real, pm, ints, isr, fifo>>
  BY DEF VbusWork, RetryWork, RecoverWork, TimePasses, WorkFrame, partner, chip, queue
<1> SUFFICES ASSUME pm = "up", real # 0, port.unread \/ Noted(port, real)
             PROVE  port'.unread \/ Noted(port', real)
  BY <1>1 DEF ContractNoted, ReadyComing
<1>2. cc = "sink" /\ real \in Pos /\ Sound(port) /\ port \in Port
  BY UsbcStateAssumption DEF ContractNoted, IInv, TypeOK, Pos
<1>3. CASE VbusWork
  <2>1. PICK busy \in BOOLEAN : port' = VbusRun(port, busy)
    BY <1>3 DEF VbusWork
  <2>2. SameLimit(port, port') /\ port'.cc = port.cc
    BY <1>2, <2>1, VbusRunLimit
  <2> QED
    BY <2>2, SameLimitNoted DEF SameLimit
<1>4. CASE RetryWork
  <2> DEFINE a == [port EXCEPT !.retryQ = FALSE]
  <2>1. PICK f \in Failures, sent \in BOOLEAN : port' = PdRequest(a, sent, f)
    BY <1>4 DEF RetryWork
  <2>2. /\ a \in Port /\ a.unread = port.unread
        /\ Noted(port, real) => Noted(a, real)
    BY <1>2 DEF Port, Noted, Draws
  <2> HIDE DEF a
  <2>3. port'.unread = a.unread
    BY <2>1, <2>2, PdRequestUnread
  <2>4. CASE port.unread
    BY <2>2, <2>3, <2>4
  <2>5. CASE Noted(port, real)
    BY <1>2, <2>1, <2>2, <2>5, PdRequestNoted
  <2> QED
    BY <2>4, <2>5
<1>5. CASE RecoverWork
  <2>1. PICK f \in Failures, sent \in BOOLEAN, busy \in BOOLEAN :
          port' = RecoverRun(port, cc, real, sent, busy, f)
    BY <1>5 DEF RecoverWork
  <2> QED
    BY <1>2, <2>1, RecoverRunNoted
<1>6. CASE TimePasses
  <2>1. \/ port' = [port EXCEPT !.window = "closed"]
        \/ port' = [port EXCEPT !.recoverQ = "due"]
        \/ port' = [port EXCEPT !.backoff = FALSE]
    BY <1>6 DEF TimePasses
  <2>2. SameLimit(port, port') /\ port'.cc = port.cc
    BY <1>2, <2>1 DEF Port, SameLimit
  <2> QED
    BY <2>2, SameLimitNoted DEF SameLimit
<1> QED
  BY <1>3, <1>4, <1>5, <1>6

LEMMA NotedInductive == IInv /\ ContractNoted /\ [Next]_vars => ContractNoted'
<1> SUFFICES ASSUME IInv, ContractNoted, [Next]_vars PROVE ContractNoted'
  OBVIOUS
<1>1. CASE World \/ SourceAnswers
  BY <1>1, WorldNotes
<1>2. CASE Handler
  BY <1>2, HandlerNotes
<1>3. CASE Work
  BY <1>3, WorkNotes
<1>4. CASE VbusWork \/ RetryWork \/ RecoverWork \/ TimePasses
  BY <1>4, DelayedWorksNote
<1>5. CASE Remove
  BY <1>5 DEF Remove, RemoveIrq, RemoveWork, RemoveDelayed, RemoveDetach, Removing,
     ContractNoted
<1>6. CASE UNCHANGED vars
  BY <1>6 DEF vars, partner, chip, queue, work, ContractNoted, ReadyComing
<1> QED
  BY <1>1, <1>2, <1>3, <1>4, <1>5, <1>6 DEF Next, Driver

(* max77705_usbc_pd_ready(), set_ilim(): under every order of reports and  *)
(* events, lost ones and failing calls, the charger draws what the         *)
(* contract in force allows.                                               *)
THEOREM LimitFits == Spec => []LimitFitsContract
<1>1. Init => ContractNoted
  BY DEF Init, ContractNoted
<1>2. IInv /\ ContractNoted => LimitFitsContract
  <2> SUFFICES ASSUME IInv, ContractNoted, pm = "up", real # 0,
                      port.ilim > ContractIlim(real)
               PROVE  \/ ReadyComing \/ port.unread \/ port.ilimFailed
                      \/ ~SrcPdos[real].fixed /\ port.nreq > 0
    BY DEF LimitFitsContract
  <2>1. port.ilim \in Nat /\ ContractIlim(real) \in Nat
    <3>1. real \in Pos
      BY UsbcStateAssumption DEF IInv, TypeOK, Pos
    <3> QED
      BY <3>1, IlimTypes DEF IInv, TypeOK, Port
  <2> QED
    BY <2>1 DEF ContractNoted, Noted, Draws
<1> QED
  BY <1>1, <1>2, Invariance, NotedInductive, PTL DEF Spec
-----------------------------------------------------------------------------
(* The steps of the driver and of the world keep requests covered.         *)
LEMMA CoveredInductive ==
    ASSUME OrdinarySource
    PROVE  IInv /\ Covered(port) /\ [Next]_vars => Covered(port)'
<1> SUFFICES ASSUME IInv, Covered(port), [Next]_vars PROVE Covered(port')
  OBVIOUS
<1>1. /\ Sound(port) /\ port \in Port /\ Unplugged(port)
      /\ cc \in CcStats /\ real \in 0..Len(SrcPdos)
  BY DEF IInv, TypeOK, Sound
<1>2. ASSUME SameLimit(port, port') PROVE Covered(port')
  BY <1>2, SameLimitCovered
<1>3. CASE World \/ SourceAnswers
  <2>1. \/ port' = port
        \/ port' = [port EXCEPT !.wire = 0]
        \/ port' = [port EXCEPT !.wire = 0, !.configured = FALSE, !.masks = FALSE]
    BY <1>3 DEF World, PartnerMoves, SourceOffers, SourceRepeats, HardResets,
       Swaps, ChipResets, ChipSpeaks, SourceAnswers
  <2>2. SameLimit(port, port')
    BY <1>1, <2>1 DEF Port, SameLimit
  <2> QED
    BY <1>2, <2>2
<1>4. CASE Handler
  <2>1. \E b : port' = port \/ port' = [port EXCEPT !.unread = b]
    BY <1>4 DEF Handler, IrqRead, IrqQueue
  <2>2. /\ port'.contract = port.contract /\ port'.sel = port.sel
        /\ port'.req = port.req /\ port'.nreq = port.nreq
        /\ port'.ilim = port.ilim /\ port'.ilimFailed = port.ilimFailed
        /\ port'.undone = port.undone
    BY <1>1, <2>1 DEF Port
  <2> QED
    BY <2>2, SameCovered
<1>5. CASE Work
  <2>1. CASE WorkBegin
    BY <2>1 DEF WorkBegin
  <2>2. CASE WorkEvent
    <3>1. PICK f \in Failures, sent \in BOOLEAN, busy \in BOOLEAN :
            port' = HandleEv(port, Head(fifo), cc, real, sent, busy, f)
      BY <2>2 DEF WorkEvent
    <3>2. Head(fifo) \in Event
      BY <2>2 DEF WorkEvent, IInv, TypeOK
    <3> QED
      BY <1>1, <3>1, <3>2, HandleEvCovered
  <2>3. CASE WorkEnd
    <3>1. PICK f \in Failures, sent \in BOOLEAN, busy \in BOOLEAN :
            port' = Resync(port, any, overflow, resetLost, cc, real, sent, busy, f)
      BY <2>3 DEF WorkEnd
    <3> QED
      BY <1>1, <3>1, ResyncCovered
  <2> QED
    BY <1>5, <2>1, <2>2, <2>3 DEF Work
<1>6. CASE VbusWork
  <2>1. PICK busy \in BOOLEAN : port' = VbusRun(port, busy)
    BY <1>6 DEF VbusWork
  <2> QED
    BY <1>1, <1>2, <2>1, VbusRunLimit
<1>7. CASE RetryWork
  <2> DEFINE a == [port EXCEPT !.retryQ = FALSE]
  <2>1. PICK f \in Failures, sent \in BOOLEAN : port' = PdRequest(a, sent, f)
    BY <1>7 DEF RetryWork
  <2>2. a \in Port /\ SameLimit(port, a)
    BY <1>1 DEF Port, SameLimit
  <2> HIDE DEF a
  <2> QED
    BY <2>1, <2>2, SameLimitCovered, PdRequestCovered
<1>8. CASE RecoverWork
  <2>1. PICK f \in Failures, sent \in BOOLEAN, busy \in BOOLEAN :
          port' = RecoverRun(port, cc, real, sent, busy, f)
    BY <1>8 DEF RecoverWork
  <2> QED
    BY <1>1, <2>1, RecoverRunCovered
<1>9. CASE TimePasses
  <2>1. \/ port' = [port EXCEPT !.window = "closed"]
        \/ port' = [port EXCEPT !.recoverQ = "due"]
        \/ port' = [port EXCEPT !.backoff = FALSE]
    BY <1>9 DEF TimePasses
  <2> QED
    BY <1>1, <1>2, <2>1 DEF Port, SameLimit
<1>10. CASE Remove
  <2>1. CASE RemoveDetach
    <3>1. PICK f \in Failures : port' = LetGo(port, f)
      BY <2>1 DEF RemoveDetach
    <3> QED
      BY <1>1, <3>1, LetGoForgets, ForgotCovered
  <2>2. CASE RemoveIrq \/ RemoveWork \/ RemoveDelayed
    <3>1. \/ port' = port
          \/ port' = [port EXCEPT !.retryQ = FALSE]
          \/ port' = [port EXCEPT !.vbusQ = FALSE]
          \/ port' = [port EXCEPT !.recoverQ = "off"]
      BY <2>2 DEF RemoveIrq, RemoveWork, RemoveDelayed
    <3> QED
      BY <1>1, <1>2, <3>1 DEF Port, SameLimit
  <2> QED
    BY <1>10, <2>1, <2>2 DEF Remove
<1>11. CASE UNCHANGED vars
  BY <1>11 DEF vars
<1> QED
  BY <1>3, <1>4, <1>5, <1>6, <1>7, <1>8, <1>9, <1>10, <1>11 DEF Next, Driver

(* max77705_usbc_pd_request(): with a source as USB PD has it, whichever   *)
(* way the source answers the request that is out, the charger draws no    *)
(* more than it will allow, through retries, reports in any order, lost    *)
(* answers and failing calls; but for a retry that undid it.               *)
THEOREM RequestsAreCovered ==
    ASSUME OrdinarySource
    PROVE  Spec => []RequestIsCovered
<1>1. Init => Covered(port)
  BY DEF Init, Covered, Within, Asked
<1>2. IInv /\ Covered(port) => RequestIsCovered
  <2> SUFFICES ASSUME Covered(port), port.req # 0
               PROVE  port.ilim <= ContractIlim(port.req) \/ port.ilimFailed
                        \/ port.undone
    BY DEF RequestIsCovered
  <2>1. port.req \in Acceptable /\ port.req = BestPos
    BY DEF Covered, Asked
  <2>2. ContractIlim(port.req) = PdoIlim(BestPos)
    BY <2>1, AcceptableTypes DEF ContractIlim
  <2> QED
    BY <2>2 DEF Covered, Asked
<1>3. IInv /\ Covered(port) /\ [Next]_vars => Covered(port)'
  BY CoveredInductive
<1> QED
  BY <1>1, <1>2, <1>3, Invariance, PTL DEF Spec
=============================================================================
