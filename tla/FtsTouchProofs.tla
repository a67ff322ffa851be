--------------------------- MODULE FtsTouchProofs ---------------------------
(***************************************************************************)
(* The interrupt depth, the rails and the contacts of the touch driver,    *)
(* for any fifo and any number of sleeps and of failing steps.             *)
(***************************************************************************)
EXTENDS FtsTouch, WellFoundedInduction, TLAPS

(* What the two properties need of the state: a failed resume leaves the   *)
(* driver up without power, so power follows from the depth only.          *)
Balanced ==
    /\ failedResumes \in Nat /\ irqDepth \in Nat
    /\ pm \in {"unbound", "up", "asleep", "removed"} \cup Resuming
    /\ vdd \in {0, 1} /\ vdd = avdd
    /\ pm \in {"unbound", "asleep", "removed"} => vdd = 0
    /\ pm \in Resuming => vdd = 1
    /\ pm = "up" /\ failedResumes = 0 => vdd = 1
    /\ pm = "unbound" => irqDepth = 1 /\ failedResumes = 0
    /\ DepthCountsFailedResumes

LEMMA BalancedImplies == Balanced => InterruptHasPower
BY DEF Balanced, InterruptHasPower, DepthCountsFailedResumes, Resuming

LEMMA InitBalanced == Init => Balanced
BY DEF Init, Balanced, DepthCountsFailedResumes, Resuming

(* The chip and the handler touch neither rail nor depth.                  *)
LEMMA ChipKeeps ==
    ASSUME Balanced,
           FingerMoves \/ (\E f \in Fingers : ChipRepeats(f))
              \/ Irq \/ IrqReadFails \/ EchoEats
    PROVE  Balanced'
<1>1. UNCHANGED <<rails, irqDepth, pm, failedResumes>>
  BY DEF FingerMoves, ChipRepeats, DriverFrame, Irq, IrqReadFails, IrqFrame,
         EchoEats, counts
<1>2. QED
  BY <1>1 DEF Balanced, DepthCountsFailedResumes, rails

LEMMA SuspendKeeps == ASSUME Balanced, Suspend PROVE Balanced'
BY DEF Balanced, DepthCountsFailedResumes, Resuming, Suspend, PowerOff

LEMMA ResumeKeeps ==
    ASSUME Balanced, Resume \/ ResumePowerFails
    PROVE  Balanced'
<1>1. CASE ResumePower
  BY <1>1 DEF Balanced, DepthCountsFailedResumes, Resuming, ResumePower, PowerOn
<1>2. CASE ResumePowerFails
  BY <1>2 DEF Balanced, DepthCountsFailedResumes, Resuming, ResumePowerFails,
              PowerOnFails, rails
<1>3. CASE ResumeReset
  BY <1>3 DEF Balanced, DepthCountsFailedResumes, Resuming, ResumeReset, rails
<1>4. CASE ResumeConfigure
  BY <1>4 DEF Balanced, DepthCountsFailedResumes, Resuming, ResumeConfigure, rails
<1>5. CASE ResumeEnable
  BY <1>5 DEF Balanced, DepthCountsFailedResumes, Resuming, ResumeEnable, rails
<1>6. QED
  BY <1>1, <1>2, <1>3, <1>4, <1>5 DEF Resume

LEMMA BindingKeeps == ASSUME Balanced, Probe \/ Remove PROVE Balanced'
<1>1. CASE Probe
  BY <1>1 DEF Balanced, DepthCountsFailedResumes, Resuming, Probe, PowerOn, rails
<1>2. CASE Remove
  BY <1>2 DEF Balanced, DepthCountsFailedResumes, Resuming, Remove, PowerOff, counts
<1>3. QED
  BY <1>1, <1>2

LEMMA StepKeeps == Balanced /\ [Next]_vars => Balanced'
<1>1. SUFFICES ASSUME Balanced, [Next]_vars PROVE Balanced'
  OBVIOUS
<1>2. CASE Next
  BY <1>1, <1>2, ChipKeeps, SuspendKeeps, ResumeKeeps, BindingKeeps DEF Next
<1>3. CASE UNCHANGED vars
  BY <1>1, <1>3 DEF Balanced, DepthCountsFailedResumes, vars, rails, counts
<1>4. QED
  BY <1>1, <1>2, <1>3

LEMMA AlwaysBalanced == Spec => []Balanced
BY InitBalanced, StepKeeps, PTL DEF Spec

-----------------------------------------------------------------------------
(* The contacts.  What a contact needs to end is in the fifo: for one the  *)
(* driver shows anywhere, for one it has still to read after its press.    *)

Ends(i, f) == fifo[i] = QueueFull \/ fifo[i] = [kind |-> "release", finger |-> f]

PressesEnd ==
    \A i \in 1..Len(fifo) :
        fifo[i].kind \in {"press", "move"} /\ fifo[i].finger \notin touching =>
            \E j \in (i + 1)..Len(fifo) : Ends(j, fifo[i].finger)

(* A chip that does not scan has nothing to say and nothing shown.         *)
Quiet ==
    /\ ~scanning => fifo = <<>> /\ reported = {}
    /\ pm # "up" => reported = {}
    /\ pm \in {"asleep"} \cup Resuming => failedResumes < sleeps

IInv == Balanced /\ TypeOK /\ Quiet /\ PressesEnd /\ StuckFingerHasCause

(* A set of indices has a greatest one.                                    *)
LEMMA LatestIsLast ==
    ASSUME NEW n \in Nat, NEW told \in SUBSET (1..n), told # {}
    PROVE  Latest(told) \in told /\ \A j \in told : j <= Latest(told)
<1> DEFINE R == OpToRel(<, Nat)
           T == {n - i : i \in told}
<1>1. T \subseteq Nat /\ T # {}
  <2>1. \A i \in told : n - i \in Nat
    OBVIOUS
  <2> QED
    BY <2>1
<1>2. IsWellFoundedOn(R, Nat)
  BY NatLessThanWellFounded
<1> HIDE DEF R, T
<1>3. PICK k \in T : \A m \in T : ~(<<m, k>> \in R)
  BY <1>1, <1>2, WFMin
<1>4. PICK i \in told : k = n - i
  BY DEF T
<1>5. ASSUME NEW j \in told PROVE j <= i
  <2>1. n - j \in T /\ n - j \in Nat /\ k \in Nat
    BY <1>1 DEF T
  <2>2. n - j < k => <<n - j, k>> \in R
    BY <2>1 DEF R, OpToRel
  <2> QED
    BY <1>3, <1>4, <2>1, <2>2
<1> QED
  BY <1>5 DEF Latest

(* The fifo after one more event: what it held is still there, or the      *)
(* overflow is in its place, and the last place tells of the event.        *)
LEMMA QueuedHolds ==
    ASSUME NEW q \in Seq(Event), Len(q) <= FifoSize, NEW e \in Event,
           NEW r, r = Queued(q, e)
    PROVE  /\ r \in Seq(Event) /\ Len(r) <= FifoSize /\ Len(r) >= Len(q)
           /\ \A i \in 1..Len(q) : r[i] = q[i] \/ r[i] = QueueFull
           /\ Len(r) > 0 /\ (r[Len(r)] = e \/ r[Len(r)] = QueueFull)
           /\ \A i \in 1..Len(r) : i > Len(q) => i = Len(r)
<1>1. CASE Len(q) < FifoSize
  <2>1. r = Append(q, e)
    BY <1>1 DEF Queued
  <2>2. /\ r \in Seq(Event) /\ Len(r) = Len(q) + 1 /\ r[Len(q) + 1] = e
        /\ \A i \in 1..Len(q) : r[i] = q[i]
    BY <2>1
  <2> QED
    BY <1>1, <2>2, FtsAssumption
<1>2. CASE ~(Len(q) < FifoSize)
  <2>1. r = [q EXCEPT ![FifoSize] = QueueFull] /\ Len(q) = FifoSize
    BY <1>2, FtsAssumption DEF Queued
  <2>2. QueueFull \in Event
    BY DEF Event
  <2>3. /\ r \in Seq(Event) /\ Len(r) = Len(q) /\ r[FifoSize] = QueueFull
        /\ \A i \in 1..Len(q) : i # FifoSize => r[i] = q[i]
    BY <2>1, <2>2, FtsAssumption
  <2> QED
    BY <2>1, <2>3, FtsAssumption
<1> QED
  BY <1>1, <1>2

(* Taking events from the front takes no later end away.                   *)
LEMMA RestHolds ==
    ASSUME IInv, NEW n \in 0..Len(fifo), fifo' = Rest(n), touching' = touching
    PROVE  /\ fifo' \in Seq(Event) /\ Len(fifo') <= FifoSize
           /\ \A j \in (n + 1)..Len(fifo), f \in Fingers :
                 Ends(j, f) => \E i \in 1..Len(fifo') : Ends(i, f)'
           /\ PressesEnd'
<1>1. fifo \in Seq(Event) /\ Len(fifo) <= FifoSize /\ Len(fifo) \in Nat
  BY DEF IInv, TypeOK
<1>2. /\ fifo' \in Seq(Event) /\ Len(fifo') = Len(fifo) - n
      /\ \A i \in 1..Len(fifo') : fifo'[i] = fifo[n + i]
  BY <1>1 DEF Rest
<1>3. \A f : \A j \in (n + 1)..Len(fifo) :
         Ends(j, f) => j - n \in 1..Len(fifo') /\ Ends(j - n, f)'
  BY <1>1, <1>2 DEF Ends
<1>4. PressesEnd'
  <2> SUFFICES ASSUME NEW i \in 1..Len(fifo'), NEW f, f = fifo'[i].finger,
                      fifo'[i].kind \in {"press", "move"}, f \notin touching
               PROVE  \E j \in (i + 1)..Len(fifo') : Ends(j, f)'
    BY DEF PressesEnd, Ends
  <2>1. n + i \in 1..Len(fifo) /\ fifo'[i] = fifo[n + i]
    BY <1>1, <1>2
  <2>2. PICK j \in (n + i + 1)..Len(fifo) : Ends(j, f)
    BY <2>1 DEF IInv, PressesEnd
  <2>3. j \in (n + 1)..Len(fifo) /\ j - n \in (i + 1)..Len(fifo')
    BY <1>1, <1>2, <2>2
  <2>4. Ends(j - n, f)'
    BY <1>3, <2>2, <2>3
  <2> QED
    BY <2>3, <2>4
<1>5. Len(fifo') <= FifoSize
  BY <1>1, <1>2, FtsAssumption
<1>6. ASSUME NEW j \in (n + 1)..Len(fifo), NEW f, Ends(j, f)
      PROVE  \E i \in 1..Len(fifo') : Ends(i, f)'
  BY <1>3, <1>6
<1> QED
  BY <1>2, <1>4, <1>5, <1>6

(* What the handler shows after n events has its end behind them: it was   *)
(* shown before and nothing was said of it, or its last word is a press.   *)
LEMMA AfterHolds ==
    ASSUME IInv, ~lost, NEW n \in 0..Len(fifo), NEW f \in After(n) \ touching
    PROVE  \E j \in (n + 1)..Len(fifo) : Ends(j, f)
<1> DEFINE told == Telling(f, n)
<1>1. f \in Fingers /\ fifo \in Seq(Event) /\ Len(fifo) \in Nat /\ n \in Nat
  BY DEF IInv, TypeOK, After
<1>2. \A j \in 1..n : Ends(j, f) => j \in told
  BY DEF Ends, Telling
<1>3. CASE told = {}
  <2>1. f \in reported \ touching
    BY <1>3 DEF After
  <2>2. PICK j \in 1..Len(fifo) : Ends(j, f)
    BY <2>1 DEF IInv, StuckFingerHasCause, Ends
  <2> QED
    BY <1>1, <1>2, <1>3, <2>2
<1>4. CASE told # {}
  <2> DEFINE l == Latest(told)
  <2>1. l \in told /\ \A j \in told : j <= l
    BY <1>1, <1>4, LatestIsLast DEF Telling
  <2>2. fifo[l].kind \in {"press", "move"}
    BY <1>4 DEF After
  <2>3. l \in 1..n /\ fifo[l].finger = f
    BY <2>1, <2>2 DEF Telling, QueueFull
  <2> HIDE DEF l, told
  <2>4. PICK j \in (l + 1)..Len(fifo) : Ends(j, f)
    BY <1>1, <2>2, <2>3 DEF IInv, PressesEnd
  <2>5. j \notin 1..n
    BY <1>1, <1>2, <2>1, <2>3, <2>4
  <2> QED
    BY <1>1, <2>3, <2>4, <2>5
<1> QED
  BY <1>3, <1>4

(* A chip that reports what it did, to a fifo that has what it had.        *)
LEMMA PostKeeps ==
    ASSUME IInv, scanning, NEW f \in Fingers,
           NEW kind \in {"press", "move", "release"}, Post(kind, f),
           touching' \subseteq Fingers, reported' = reported, lost' = lost,
           touching \ {f} \subseteq touching',
           kind \in {"press", "move"} => f \in touching',
           kind # "release" => touching \subseteq touching'
    PROVE  /\ fifo' \in Seq(Event) /\ Len(fifo') <= FifoSize
           /\ PressesEnd' /\ StuckFingerHasCause'
<1> DEFINE e == [kind |-> kind, finger |-> f]
<1>1. /\ fifo \in Seq(Event) /\ Len(fifo) <= FifoSize /\ Len(fifo) \in Nat
      /\ reported \subseteq Fingers /\ touching \subseteq Fingers
  BY DEF IInv, TypeOK
<1>2. e \in Event /\ fifo' = Queued(fifo, e)
  BY DEF Post, Event
<1>3. /\ fifo' \in Seq(Event) /\ Len(fifo') <= FifoSize /\ Len(fifo') >= Len(fifo)
      /\ \A i \in 1..Len(fifo) : fifo'[i] = fifo[i] \/ fifo'[i] = QueueFull
      /\ Len(fifo') > 0 /\ (fifo'[Len(fifo')] = e \/ fifo'[Len(fifo')] = QueueFull)
      /\ \A i \in 1..Len(fifo') : i > Len(fifo) => i = Len(fifo')
  <2> PICK r : r = fifo'
    OBVIOUS
  <2>1. /\ r \in Seq(Event) /\ Len(r) <= FifoSize /\ Len(r) >= Len(fifo)
        /\ \A i \in 1..Len(fifo) : r[i] = fifo[i] \/ r[i] = QueueFull
        /\ Len(r) > 0 /\ (r[Len(r)] = e \/ r[Len(r)] = QueueFull)
        /\ \A i \in 1..Len(r) : i > Len(fifo) => i = Len(r)
    BY <1>1, <1>2, QueuedHolds, ZenonT(30)
  <2> QED
    BY <2>1
<1>4. Len(fifo') \in Nat
  BY <1>3
<1>5. \A g : \A i \in 1..Len(fifo) : Ends(i, g) => Ends(i, g)'
  BY <1>3 DEF Ends
<1>6. \A i \in 1..Len(fifo) : i \in 1..Len(fifo')
  BY <1>1, <1>3, <1>4
<1> PICK last \in Nat : last = Len(fifo')
  BY <1>4
<1>7. kind = "release" => Ends(last, f)'
  BY <1>3 DEF Ends
<1>8. PressesEnd'
  <2> SUFFICES ASSUME NEW i \in 1..Len(fifo'), NEW g, g = fifo'[i].finger,
                      fifo'[i].kind \in {"press", "move"}, g \notin touching'
               PROVE  \E j \in (i + 1)..Len(fifo') : Ends(j, g)'
    BY DEF PressesEnd, Ends
  <2>1. fifo'[i] # QueueFull
    BY DEF QueueFull
  <2>2. fifo'[i] # e
    <3> SUFFICES ASSUME fifo'[i] = e PROVE FALSE
      OBVIOUS
    <3>1. kind \in {"press", "move"} /\ g = f
      BY DEF e
    <3> QED
      BY <3>1
  <2>3. i \in 1..Len(fifo) /\ fifo'[i] = fifo[i]
    BY <1>1, <1>3, <1>4, <2>1, <2>2
  <2>4. CASE g \notin touching
    <3>1. PICK j \in (i + 1)..Len(fifo) : Ends(j, g)
      BY <2>3, <2>4 DEF IInv, PressesEnd
    <3>2. j \in 1..Len(fifo) /\ j \in (i + 1)..Len(fifo')
      BY <1>1, <1>3, <1>4, <2>3, <3>1
    <3> QED
      BY <1>5, <3>1, <3>2
  <2>5. CASE g \in touching
    <3>1. g = f /\ kind = "release"
      BY <2>5
    <3>2. i # last
      BY <1>3, <2>1, <2>2
    <3>3. last \in (i + 1)..Len(fifo')
      BY <1>4, <3>2
    <3> QED
      BY <1>7, <3>1, <3>3
  <2> QED
    BY <2>4, <2>5
<1>9. StuckFingerHasCause'
  <2> SUFFICES ASSUME ~lost, NEW g \in reported \ touching'
               PROVE  \E j \in 1..Len(fifo') : Ends(j, g)'
    BY DEF StuckFingerHasCause, Ends
  <2>1. CASE g \in touching
    <3>1. g = f /\ kind = "release"
      BY <2>1
    <3>2. last \in 1..Len(fifo')
      BY <1>3, <1>4
    <3> QED
      BY <1>7, <3>1, <3>2
  <2>2. CASE g \notin touching
    <3>1. PICK j \in 1..Len(fifo) : Ends(j, g)
      BY <2>2 DEF IInv, StuckFingerHasCause, Ends
    <3> QED
      BY <1>5, <1>6, <3>1
  <2> QED
    BY <2>1, <2>2
<1> QED
  BY <1>3, <1>8, <1>9

(* A chip that does not scan says nothing, and shows nothing.              *)
LEMMA SilenceKeeps ==
    ASSUME IInv, ~scanning, fifo' = fifo, reported' = reported
    PROVE  PressesEnd' /\ StuckFingerHasCause'
<1>1. fifo' = <<>> /\ reported' = {}
  BY DEF IInv, Quiet
<1> QED
  BY <1>1 DEF PressesEnd, StuckFingerHasCause

LEMMA GlassKeeps ==
    ASSUME IInv, FingerMoves \/ \E f \in Fingers : ChipRepeats(f)
    PROVE  (TypeOK /\ Quiet /\ PressesEnd /\ StuckFingerHasCause)'
<1>1. UNCHANGED <<scanning, rails, irqDepth, reported, pm, counts, lost>>
  BY DEF FingerMoves, ChipRepeats, DriverFrame
<1>2. /\ touching' \subseteq Fingers /\ touches' \in 0..MaxTouches
      /\ ~scanning => fifo' = fifo
  <2>1. CASE FingerMoves
    BY <2>1, FtsAssumption DEF FingerMoves, Post, IInv, TypeOK
  <2>2. CASE \E f \in Fingers : ChipRepeats(f)
    BY <2>2 DEF ChipRepeats, IInv, TypeOK, glass
  <2> QED
    BY <2>1, <2>2
<1>3. /\ fifo' \in Seq(Event) /\ Len(fifo') <= FifoSize
      /\ PressesEnd' /\ StuckFingerHasCause'
  <2>1. CASE ~scanning
    BY <1>1, <1>2, <2>1, SilenceKeeps DEF IInv, TypeOK
  <2>2. CASE scanning /\ FingerMoves
    <3>1. PICK f \in Fingers :
             \/ f \notin touching /\ touching' = touching \cup {f} /\ Post("press", f)
             \/ f \in touching /\ touching' = touching \ {f} /\ Post("release", f)
      BY <2>2 DEF FingerMoves
    <3>2. CASE touching' = touching \cup {f} /\ Post("press", f)
      BY <1>1, <1>2, <2>2, <3>2, PostKeeps
    <3>3. CASE touching' = touching \ {f} /\ Post("release", f)
      BY <1>1, <1>2, <2>2, <3>3, PostKeeps
    <3> QED
      BY <3>1, <3>2, <3>3
  <2>3. CASE scanning /\ \E f \in Fingers : ChipRepeats(f)
    <3>1. PICK f \in Fingers : f \in touching /\ Post("move", f)
      BY <2>3 DEF ChipRepeats
    <3>2. touching' = touching
      BY <2>3 DEF ChipRepeats, glass
    <3> QED
      BY <1>1, <1>2, <2>3, <3>1, <3>2, PostKeeps
  <2> QED
    BY <2>1, <2>2, <2>3
<1>4. TypeOK' /\ Quiet'
  BY <1>1, <1>2, <1>3 DEF IInv, TypeOK, Quiet, rails, counts
<1> QED
  BY <1>3, <1>4

LEMMA HandlerKeeps ==
    ASSUME IInv, Irq \/ IrqReadFails
    PROVE  (TypeOK /\ Quiet /\ PressesEnd /\ StuckFingerHasCause)'
<1>1. /\ UNCHANGED <<glass, scanning, rails, irqDepth, pm, sleeps, failedResumes>>
      /\ irqDepth = 0 /\ fifo # <<>>
  BY DEF Irq, IrqReadFails, IrqFrame
<1>2. /\ fifo \in Seq(Event) /\ Len(fifo) \in Nat /\ Len(fifo) <= FifoSize
      /\ Taken \in 0..Len(fifo)
  BY <1>1, FtsAssumption DEF IInv, TypeOK, Taken
<1>3. \/ /\ lost' = lost
         /\ \E n \in 0..Len(fifo) : fifo' = Rest(n) /\ reported' = After(n)
      \/ /\ lost'
         /\ \E n \in 0..Len(fifo) : fifo' = Rest(n)
  <2>1. CASE Irq
    BY <1>2, <2>1 DEF Irq
  <2>2. CASE IrqReadFails
    <3>1. PICK n \in {0, 1} :
             /\ n < Taken
             /\ reported' = After(n)
             /\ \/ fifo' = Rest(n) /\ UNCHANGED lost
                \/ /\ \E m \in (n + 1)..(IF n = 0 THEN 1 ELSE Taken) : fifo' = Rest(m)
                   /\ lost' = TRUE
      BY <2>2 DEF IrqReadFails
    <3>2. n \in 0..Len(fifo) /\ 1 \in 0..Len(fifo)
      BY <1>2, <3>1
    <3>3. CASE fifo' = Rest(n) /\ UNCHANGED lost
      BY <3>1, <3>2, <3>3
    <3>4. CASE lost' /\ \E m \in (n + 1)..(IF n = 0 THEN 1 ELSE Taken) : fifo' = Rest(m)
      <4>1. PICK m \in (n + 1)..(IF n = 0 THEN 1 ELSE Taken) : fifo' = Rest(m)
        BY <3>4
      <4>2. m \in 0..Len(fifo)
        BY <1>2, <3>2
      <4> QED
        BY <3>4, <4>1, <4>2
    <3> QED
      BY <3>1, <3>3, <3>4
  <2> QED
    BY <2>1, <2>2
<1>4. PICK n \in 0..Len(fifo) : fifo' = Rest(n) /\ (lost' \/ reported' = After(n))
  BY <1>3
<1>5. touching' = touching
  BY <1>1 DEF glass
<1>6. /\ fifo' \in Seq(Event) /\ Len(fifo') <= FifoSize /\ PressesEnd'
      /\ \A j \in (n + 1)..Len(fifo), f \in Fingers :
            Ends(j, f) => \E k \in 1..Len(fifo') : Ends(k, f)'
  BY <1>4, <1>5, RestHolds
<1>7. StuckFingerHasCause'
  <2> SUFFICES ASSUME ~lost', NEW f \in reported' \ touching
               PROVE  \E k \in 1..Len(fifo') : Ends(k, f)'
    BY <1>5 DEF StuckFingerHasCause, Ends
  <2>1. ~lost /\ f \in After(n) \ touching /\ f \in Fingers
    BY <1>3, <1>4 DEF After
  <2>2. PICK j \in (n + 1)..Len(fifo) : Ends(j, f)
    BY <2>1, AfterHolds
  <2> QED
    BY <1>6, <2>1, <2>2
<1>8. /\ reported' \subseteq Fingers /\ faults' \in 0..MaxFaults
      /\ lost' \in BOOLEAN
  <2>1. reported' \subseteq Fingers
    BY DEF Irq, IrqReadFails, After
  <2>2. CASE Irq
    BY <2>1, <2>2 DEF Irq, IInv, TypeOK
  <2>3. CASE IrqReadFails
    <3>1. faults' \in 0..MaxFaults
      BY <2>3, FtsAssumption DEF IrqReadFails, IInv, TypeOK
    <3>2. lost' \in BOOLEAN
      BY <2>3 DEF IrqReadFails, IInv, TypeOK
    <3> QED
      BY <2>1, <3>1, <3>2
  <2> QED
    BY <2>2, <2>3
<1>9. TypeOK'
  BY <1>1, <1>6, <1>8 DEF IInv, TypeOK, rails, glass
<1>10. pm = "up" /\ scanning
  <2>1. irqDepth = 0 /\ fifo # <<>>
    BY <1>1
  <2> QED
    BY <2>1 DEF IInv, Quiet, Balanced, DepthCountsFailedResumes, Resuming
<1>11. Quiet'
  BY <1>1, <1>10 DEF Quiet, IInv, Resuming
<1> QED
  BY <1>6, <1>7, <1>9, <1>11

(* The wait for the echo takes one event, while nothing is shown.          *)
LEMMA EchoKeeps ==
    ASSUME IInv, EchoEats
    PROVE  (TypeOK /\ Quiet /\ PressesEnd /\ StuckFingerHasCause)'
<1>1. /\ UNCHANGED <<scanning, rails, irqDepth, pm, faults, failedResumes>>
      /\ UNCHANGED <<glass, reported, sleeps, lost>>
      /\ pm = "configured" /\ fifo # <<>> /\ fifo' = Tail(fifo)
  BY DEF EchoEats, ResumeFrame
<1>2. fifo \in Seq(Event) /\ Len(fifo) \in Nat /\ touching' = touching
  BY <1>1 DEF IInv, TypeOK, glass
<1>3. 1 \in 0..Len(fifo) /\ fifo' = Rest(1)
  BY <1>1, <1>2 DEF Rest
<1>4. fifo' \in Seq(Event) /\ Len(fifo') <= FifoSize /\ PressesEnd'
  BY <1>2, <1>3, RestHolds
<1>5. reported' = {} /\ (~scanning => fifo' = <<>>)
  BY <1>1 DEF IInv, Quiet
<1>6. TypeOK'
  BY <1>1, <1>4 DEF IInv, TypeOK, rails, glass
<1>7. Quiet' /\ StuckFingerHasCause'
  BY <1>1, <1>5 DEF IInv, Quiet, StuckFingerHasCause
<1> QED
  BY <1>4, <1>6, <1>7

(* Power, reset and configuration leave an empty fifo or the one there was, *)
(* and show nothing while they go on.                                      *)
LEMMA PowerKeeps ==
    ASSUME IInv, Balanced', TypeOK',
           Suspend \/ Resume \/ ResumePowerFails \/ Probe \/ Remove
    PROVE  (Quiet /\ PressesEnd /\ StuckFingerHasCause)'
<1>1. touching' = touching
  BY DEF Suspend, Resume, ResumePower, ResumeReset, ResumeConfigure, ResumeEnable,
         ResumePowerFails, Probe, Remove, ResumeFrame, glass
<1>2. fifo' = <<>> \/ fifo' = fifo
  BY DEF Suspend, Resume, ResumePower, ResumeReset, ResumeConfigure, ResumeEnable,
         ResumePowerFails, Probe, Remove, PowerOff, SystemReset, WaitForReady, chip
<1>3. reported' = {}
  BY DEF Suspend, Resume, ResumePower, ResumeReset, ResumeConfigure, ResumeEnable,
         ResumePowerFails, Probe, Remove, ResumeFrame, IInv, Quiet, Resuming
<1>4. PressesEnd'
  <2>1. CASE fifo' = <<>>
    BY <2>1 DEF PressesEnd
  <2>2. CASE fifo' = fifo
    BY <1>1, <2>2 DEF PressesEnd, IInv, Ends
  <2> QED
    BY <1>2, <2>1, <2>2
<1>5. StuckFingerHasCause'
  BY <1>3 DEF StuckFingerHasCause
<1>6. ~scanning' => fifo' = <<>>
  BY DEF Suspend, Resume, ResumePower, ResumeReset, ResumeConfigure, ResumeEnable,
         ResumePowerFails, Probe, Remove, PowerOff, SystemReset, WaitForReady, chip,
         IInv, Quiet
<1>7. pm' \in {"asleep"} \cup Resuming => failedResumes' < sleeps'
  <2>1. CASE Suspend
    BY <2>1 DEF Suspend, IInv, TypeOK
  <2>2. CASE Resume
    BY <2>2 DEF Resume, ResumePower, ResumeReset, ResumeConfigure, ResumeEnable,
                ResumeFrame, IInv, Quiet, Resuming
  <2>3. CASE ResumePowerFails \/ Probe \/ Remove
    BY <2>3 DEF ResumePowerFails, Probe, Remove, Resuming
  <2> QED
    BY <2>1, <2>2, <2>3
<1> QED
  BY <1>3, <1>4, <1>5, <1>6, <1>7 DEF Quiet

LEMMA EmptyFits == <<>> \in Seq(Event) /\ Len(<<>>) <= FifoSize
<1>1. FifoSize \in Nat /\ Len(<<>>) = 0
  BY FtsAssumption
<1> QED
  BY <1>1

(* What they leave has its type.                                           *)
LEMMA PowerType ==
    ASSUME IInv, Balanced',
           Suspend \/ Resume \/ ResumePowerFails \/ Probe \/ Remove
    PROVE  TypeOK'
<1>1. fifo' \in Seq(Event) /\ Len(fifo') <= FifoSize
  <2>1. fifo' = <<>> \/ fifo' = fifo
    BY DEF Suspend, Resume, ResumePower, ResumeReset, ResumeConfigure, ResumeEnable,
           ResumePowerFails, Probe, Remove, PowerOff, SystemReset, WaitForReady, chip
  <2>2. CASE fifo' = <<>>
    BY <2>2, EmptyFits
  <2>3. CASE fifo' = fifo
    BY <2>3 DEF IInv, TypeOK
  <2> QED
    BY <2>1, <2>2, <2>3
<1>2. UNCHANGED glass /\ (reported' = reported \/ reported' = {})
  BY DEF Suspend, Resume, ResumePower, ResumeReset, ResumeConfigure, ResumeEnable,
         ResumePowerFails, Probe, Remove, ResumeFrame
<1>3. scanning' \in BOOLEAN /\ lost' \in BOOLEAN
  <2>1. scanning' \in {scanning, TRUE, FALSE} /\ lost' \in {lost, TRUE, FALSE}
    BY Zenon DEF Suspend, Resume, ResumePower, ResumeReset, ResumeConfigure,
         ResumeEnable, ResumePowerFails, Probe, Remove, ResumeFrame, PowerOff,
         SystemReset, chip
  <2> QED
    BY <2>1, Zenon DEF IInv, TypeOK
<1>4. faults' \in 0..MaxFaults
  BY FtsAssumption, SMTT(30)
  DEF Suspend, Resume, ResumePower, ResumeReset, ResumeConfigure, ResumeEnable,
      ResumePowerFails, Probe, Remove, PowerOn, PowerOnFails, SystemReset,
      WaitForReady, Fault, NoFault, counts, IInv, TypeOK
<1>5. sleeps' \in 0..MaxSleeps /\ failedResumes' \in 0..sleeps'
  <2>1. CASE Suspend
    BY <2>1, FtsAssumption DEF Suspend, IInv, TypeOK
  <2>2. CASE ResumePowerFails
    BY <2>2, FtsAssumption DEF ResumePowerFails, ResumeFrame, IInv, TypeOK, Quiet
  <2>3. CASE Resume \/ Probe \/ Remove
    BY <2>3 DEF Resume, ResumePower, ResumeReset, ResumeConfigure, ResumeEnable,
                Probe, Remove, ResumeFrame, counts, IInv, TypeOK
  <2> QED
    BY <2>1, <2>2, <2>3
<1>6. irqDepth' \in 0..(MaxSleeps + 2)
  <2>1. MaxSleeps \in Nat /\ irqDepth' \in Nat /\ failedResumes' \in Nat
    BY FtsAssumption DEF Balanced
  <2>2. failedResumes' <= MaxSleeps
    BY <1>5, <2>1
  <2>3. \/ irqDepth' = 1
        \/ irqDepth' = failedResumes' + 0
        \/ irqDepth' = failedResumes' + 1
    BY DEF Balanced, DepthCountsFailedResumes
  <2>4. \A m, d, n \in Nat : d <= m /\ (n = 1 \/ n = d + 0 \/ n = d + 1) => n <= m + 2
    OBVIOUS
  <2>5. irqDepth' <= MaxSleeps + 2
    BY <2>1, <2>2, <2>3, <2>4
  <2> QED
    BY <2>1, <2>5
<1> QED
  BY <1>1, <1>2, <1>3, <1>4, <1>5, <1>6 DEF IInv, TypeOK, Balanced, glass

LEMMA Invariant == Spec => []IInv
<1>1. Init => IInv
  <2> SUFFICES ASSUME Init PROVE IInv
    OBVIOUS
  <2>1. TypeOK
    <3>1. {MaxTouches, MaxFaults, MaxSleeps} \subseteq Nat
      BY FtsAssumption
    <3>2. /\ touches \in 0..MaxTouches /\ faults \in 0..MaxFaults
          /\ sleeps \in 0..MaxSleeps /\ failedResumes \in 0..sleeps
          /\ irqDepth \in 0..(MaxSleeps + 2)
      BY <3>1 DEF Init
    <3>3. fifo \in Seq(Event) /\ Len(fifo) <= FifoSize
      BY EmptyFits DEF Init
    <3>4. /\ touching \subseteq Fingers /\ reported \subseteq Fingers
          /\ scanning \in BOOLEAN /\ lost \in BOOLEAN
      BY DEF Init
    <3>5. /\ vdd \in 0..1 /\ avdd \in 0..1
          /\ pm \in {"unbound", "up", "asleep", "removed"} \cup Resuming
      BY DEF Init
    <3> QED
      BY <3>2, <3>3, <3>4, <3>5 DEF TypeOK
  <2> QED
    BY <2>1, InitBalanced
    DEF Init, IInv, Quiet, PressesEnd, StuckFingerHasCause, Resuming
<1>2. IInv /\ [Next]_vars => IInv'
  <2> SUFFICES ASSUME IInv, [Next]_vars PROVE IInv'
    OBVIOUS
  <2>1. Balanced'
    BY StepKeeps DEF IInv
  <2>2. CASE FingerMoves \/ (\E f \in Fingers : ChipRepeats(f))
    BY <2>1, <2>2, GlassKeeps DEF IInv
  <2>3. CASE Irq \/ IrqReadFails
    BY <2>1, <2>3, HandlerKeeps DEF IInv
  <2>4. CASE EchoEats
    BY <2>1, <2>4, EchoKeeps DEF IInv
  <2>5. CASE Suspend \/ Resume \/ ResumePowerFails \/ Probe \/ Remove
    BY <2>1, <2>5, PowerType, PowerKeeps DEF IInv
  <2>6. CASE UNCHANGED vars
    BY <2>1, <2>6
    DEF IInv, TypeOK, Quiet, PressesEnd, StuckFingerHasCause, Ends, vars, glass,
        chip, rails, counts
  <2> QED
    BY <2>2, <2>3, <2>4, <2>5, <2>6 DEF Next
<1> QED
  BY <1>1, <1>2, PTL DEF Spec

(* Every variable of the touch driver has its type.                        *)
THEOREM TypeCorrect == Spec => []TypeOK
<1>1. IInv => TypeOK
  BY DEF IInv
<1> QED
  BY Invariant, <1>1, PTL

(* Contacts do not outlive their finger: for any fifo, any batch and any   *)
(* number of sleeps, overflows and resumes that fail, a slot shown without *)
(* its finger has its release, or the overflow that stands for it, still   *)
(* to be read, unless a failed read took events from the chip.             *)
THEOREM StuckFingersEnd == Spec => []StuckFingerHasCause
<1>1. IInv => StuckFingerHasCause
  BY DEF IInv
<1> QED
  BY Invariant, <1>1, PTL

(* The handler talks to the chip only with both rails up, and the rails    *)
(* never part, however many resumes fail and whatever order suspend,       *)
(* resume and remove come in.                                              *)
THEOREM HandlerHasPower == Spec => []InterruptHasPower
BY AlwaysBalanced, BalancedImplies, PTL

(* The interrupt is disabled once for a sleep and once for every resume    *)
(* that failed, and never enabled more often than it was disabled.         *)
THEOREM DepthIsFailedResumes == Spec => []DepthCountsFailedResumes
<1>1. Balanced => DepthCountsFailedResumes
  BY DEF Balanced
<1>2. QED
  BY AlwaysBalanced, <1>1, PTL
=============================================================================
