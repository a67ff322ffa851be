------------------------ MODULE FolioClassifierProofs ------------------------
(***************************************************************************)
(* What the classifier keeps, for every threshold, seed and window, and    *)
(* for any sequence of inputs: its type, its baselines near their seeds, a *)
(* closed lid only with a magnet behind it, and a reversed pen only in a   *)
(* bare stay.  First what one step keeps, arm by arm.                      *)
(***************************************************************************)
EXTENDS FolioClassifier, TLAPS

(* The eighth of a difference, rounded down, lies between zero and it.     *)
LEMMA EighthIsBetween ==
  ASSUME NEW d \in Int
  PROVE  /\ d \div 8 \in Int
         /\ d >= 0 => 0 <= d \div 8 /\ d \div 8 <= d
         /\ d < 0 => d <= d \div 8 /\ d \div 8 <= 0
  OBVIOUS

(* learn() keeps the seed, and keeps a baseline within the window of it.   *)
LEMMA LearnKeepsNear ==
  ASSUME NEW b \in Baseline, NEW z \in Int, NEW x \in Int, Near(b.z, b.seed)
  PROVE  /\ Learn(b, z, x) \in Baseline
         /\ Learn(b, z, x).seed = b.seed
         /\ Near(Learn(b, z, x).z, b.seed)
<1> DEFINE m == b.z + (z - b.z) \div 8
<1>1. m \in Int /\ b.x + (x - b.x) \div 8 \in Int
  BY EighthIsBetween DEF Baseline
<1>2. InWindow(b, z) => Near(z, b.seed) /\ Near(m, b.seed)
  <2> SUFFICES ASSUME InWindow(b, z)
               PROVE  Near(z, b.seed) /\ Near(m, b.seed)
    OBVIOUS
  <2>1. z - b.z \in Int /\ b.z \in Int /\ b.seed \in Int
    BY DEF Baseline
  <2>2. (b.z <= m /\ m <= z) \/ (z <= m /\ m <= b.z)
    BY <2>1, EighthIsBetween
  <2> QED
    BY <1>1, <2>1, <2>2, ConfigAssumption DEF Near, InWindow
<1> QED
  BY <1>1, <1>2 DEF Learn, Baseline

Kept(s) == s \in State /\ NearSeeds(s)

(* Replacing one baseline by one as near to the same seed.                 *)
LEMMA NewBaseline ==
  ASSUME NEW s, Kept(s), NEW c \in Contexts, NEW b \in Baseline,
         b.seed = s.base[c].seed, Near(b.z, b.seed)
  PROVE  Kept([s EXCEPT !.base[c] = b])
<1> DEFINE t == [s EXCEPT !.base[c] = b]
<1>1. t.base = [s.base EXCEPT ![c] = b] /\ s.base \in [Contexts -> Baseline]
  BY DEF Kept, State
<1>2. t \in State
  BY <1>1 DEF Kept, State
<1>3. \A d \in Contexts : t.base[d] = IF d = c THEN b ELSE s.base[d]
  BY <1>1
<1>4. NearSeeds(t)
  BY <1>3 DEF Kept, NearSeeds, Contexts
<1> QED
  BY <1>2, <1>4 DEF Kept

LEMMA CountKeeps ==
  ASSUME NEW s, Kept(s), NEW i \in Input
  PROVE  Kept(Count(s, i))
<1>1. Count(s, i).failStreak \in 0..FallbackAfter
  BY ConfigAssumption DEF Kept, State, Count, Capped
<1>2. Count(s, i).base = s.base
  BY DEF Kept, State, Count
<1>3. Count(s, i) \in State
  BY <1>1 DEF Kept, State, Count
<1> QED
  BY <1>2, <1>3 DEF Kept, NearSeeds

(* Entering a context: only the attached seed may change, to what the      *)
(* docked baseline has become.                                             *)
LEMMA EnterKeeps ==
  ASSUME NEW s, Kept(s), NEW c \in Contexts
  PROVE  Kept(Enter(s, c))
<1> DEFINE b == IF c = "attached" THEN Seeded(s.base["docked"].z, 0)
                ELSE [s.base[c] EXCEPT !.learned = FALSE]
           t == [s EXCEPT !.revStreak = 0, !.base[c] = b]
<1>1. s.base \in [Contexts -> Baseline] /\ t.base = [s.base EXCEPT ![c] = b]
  BY DEF Kept, State
<1>2. b \in Baseline
  <2>1. s.base["docked"] \in Baseline /\ s.base[c] \in Baseline
    BY <1>1 DEF Contexts
  <2>2. Seeded(s.base["docked"].z, 0) \in Baseline
    BY <2>1 DEF Baseline, Seeded
  <2>3. [s.base[c] EXCEPT !.learned = FALSE] \in Baseline
    BY <2>1 DEF Baseline
  <2> QED
    BY <2>2, <2>3
<1>3. t \in State
  <2> HIDE DEF b
  <2>1. 0 \in 0..2
    OBVIOUS
  <2> QED
    BY <1>1, <1>2, <2>1 DEF Kept, State
<1>4. Near(b.z, b.seed) /\ (c # "attached" => b.seed = s.base[c].seed)
  BY <1>1, ConfigAssumption DEF Kept, NearSeeds, Near, Seeded, Baseline, Contexts
<1>5. c = "attached" => Near(b.seed, BaseZDocked)
  BY DEF Kept, NearSeeds, Seeded, Contexts
<1>6. \A d \in Contexts : t.base[d] = IF d = c THEN b ELSE s.base[d]
  BY <1>1
<1>7. NearSeeds(t)
  BY <1>4, <1>5, <1>6 DEF Kept, NearSeeds, Contexts
<1> HIDE DEF t
<1>8. Enter(s, c) = s \/ Enter(s, c) = t
  BY DEF Enter, t
<1> QED
  BY <1>3, <1>7, <1>8 DEF Kept

LEMMA LearnIfKeepsNear ==
  ASSUME NEW b \in Baseline, NEW z \in Int, NEW x \in Int, Near(b.z, b.seed),
         NEW cond
  PROVE  /\ LearnIf(cond, b, z, x) \in Baseline
         /\ LearnIf(cond, b, z, x).seed = b.seed
         /\ Near(LearnIf(cond, b, z, x).z, b.seed)
  BY LearnKeepsNear DEF LearnIf

LEMMA DockedKeeps ==
  ASSUME NEW s, Kept(s), NEW i \in Input
  PROVE  Kept(Docked(s, i))
<1> DEFINE open == [s EXCEPT !.lid = FALSE, !.penReversed = FALSE]
           pen == i.mag.z - s.base["docked"].z >= PenDzDocked
           b == LearnIf(~pen, s.base["docked"], i.mag.z, 0)
           o == [open EXCEPT !.penDocked = pen]
<1>1. open.base = s.base /\ open \in State
  BY DEF Kept, State
<1>2. o \in State /\ o.base = s.base
  <2>1. pen \in BOOLEAN
    BY ConfigAssumption DEF Kept, State, Baseline, Contexts, Input, Reading
  <2> HIDE DEF pen, open
  <2> QED
    BY <1>1, <2>1 DEF State
<1>3. Kept(open) /\ Kept(o)
  BY <1>1, <1>2 DEF Kept, NearSeeds
<1>4. /\ b \in Baseline /\ b.seed = s.base["docked"].seed
      /\ Near(b.z, b.seed)
  <2>1. s.base["docked"] \in Baseline /\ i.mag.z \in Int /\ 0 \in Int
    BY DEF Kept, State, Contexts, Input, Reading
  <2>2. Near(s.base["docked"].z, s.base["docked"].seed)
    BY DEF Kept, NearSeeds, Contexts
  <2> QED
    BY <2>1, <2>2, LearnIfKeepsNear
<1>5. Kept([o EXCEPT !.base["docked"] = b])
  <2> HIDE DEF o, b
  <2> QED
    BY <1>2, <1>3, <1>4, NewBaseline DEF Contexts
<1>6. Docked(s, i) = open \/ Docked(s, i) = [o EXCEPT !.base["docked"] = b]
  BY <1>1, <1>2 DEF Docked
<1> QED
  BY <1>3, <1>5, <1>6
LEMMA BareKeeps ==
  ASSUME NEW s, Kept(s), NEW i \in Input
  PROVE  Kept(Bare(s, i))
<1> DEFINE open == [s EXCEPT !.lid = FALSE]
           dz == i.mag.z - s.base["bare"].z
           dx == i.mag.x - s.base["bare"].x
           pen == dz >= PenDzBare
           looks == ~pen /\ dz <= -ReversedDz /\ dx <= -ReversedDx
           streak == IF looks THEN Capped(s.revStreak, 2) ELSE 0
           rev == streak = 2
           b == LearnIf(~pen /\ ~rev, s.base["bare"], i.mag.z, i.mag.x)
           o == [open EXCEPT !.penDocked = pen, !.penReversed = rev,
                             !.revStreak = streak]
<1>1. open.base = s.base /\ open \in State
  BY DEF Kept, State
<1>2. o \in State /\ o.base = s.base
  <2>1. pen \in BOOLEAN
    BY ConfigAssumption DEF Kept, State, Baseline, Contexts, Input, Reading
  <2>2. streak \in 0..2 /\ rev \in BOOLEAN
    <3>1. s.revStreak \in 0..2
      BY DEF Kept, State
    <3>2. Capped(s.revStreak, 2) \in 0..2
      BY <3>1 DEF Capped
    <3> HIDE DEF looks
    <3> QED
      BY <3>2
  <2> HIDE DEF pen, open, streak, rev
  <2> QED
    BY <1>1, <2>1, <2>2 DEF State
<1>3. Kept(open) /\ Kept(o)
  BY <1>1, <1>2 DEF Kept, NearSeeds
<1>4. /\ b \in Baseline /\ b.seed = s.base["bare"].seed
      /\ Near(b.z, b.seed)
  <2>1. s.base["bare"] \in Baseline /\ i.mag.z \in Int /\ i.mag.x \in Int
    BY DEF Kept, State, Contexts, Input, Reading
  <2>2. Near(s.base["bare"].z, s.base["bare"].seed)
    BY DEF Kept, NearSeeds, Contexts
  <2> HIDE DEF pen, rev
  <2> QED
    BY <2>1, <2>2, LearnIfKeepsNear
<1>5. Kept([o EXCEPT !.base["bare"] = b])
  <2> HIDE DEF o, b
  <2> QED
    BY <1>2, <1>3, <1>4, NewBaseline DEF Contexts
<1>6. Bare(s, i) = IF ~i.magValid THEN open
                   ELSE [open EXCEPT !.penDocked = pen, !.penReversed = rev,
                                     !.revStreak = streak, !.base["bare"] = b]
  BY DEF Bare
<1>7. [open EXCEPT !.penDocked = pen, !.penReversed = rev,
                   !.revStreak = streak, !.base["bare"] = b]
        = [o EXCEPT !.base["bare"] = b]
  <2> HIDE DEF pen, streak, rev, b, open
  <2> QED
    BY <1>1, <1>2 DEF State
<1> QED
  BY <1>3, <1>5, <1>6, <1>7

LEMMA AttachedKeeps ==
  ASSUME NEW s, Kept(s), NEW i \in Input
  PROVE  Kept(Attached(s, i))
<1> DEFINE closed == IF i.magValid
                     THEN i.mag.z - s.base["attached"].z <= -ClosedDz
                     ELSE i.absent \/ s.failStreak >= FallbackAfter \/ s.lid
           lid == closed /\ ~i.bright
           b == LearnIf(i.magValid /\ ~closed, s.base["attached"], i.mag.z, 0)
           o == [s EXCEPT !.lid = lid]
<1>1. o \in State /\ o.base = s.base
  <2>1. lid \in BOOLEAN
    OBVIOUS
  <2> HIDE DEF lid
  <2> QED
    BY <2>1 DEF Kept, State
<1>2. Kept(o)
  BY <1>1 DEF Kept, NearSeeds
<1>3. /\ b \in Baseline /\ b.seed = s.base["attached"].seed
      /\ Near(b.z, b.seed)
  <2>1. s.base["attached"] \in Baseline /\ i.mag.z \in Int /\ 0 \in Int
    BY DEF Kept, State, Contexts, Input, Reading
  <2>2. Near(s.base["attached"].z, s.base["attached"].seed)
    BY DEF Kept, NearSeeds, Contexts
  <2> HIDE DEF closed
  <2> QED
    BY <2>1, <2>2, LearnIfKeepsNear
<1>4. Kept([o EXCEPT !.base["attached"] = b])
  <2> HIDE DEF o, b
  <2> QED
    BY <1>1, <1>2, <1>3, NewBaseline DEF Contexts
<1>5. Attached(s, i) = [s EXCEPT !.lid = lid, !.base["attached"] = b]
  BY DEF Attached
<1>6. [s EXCEPT !.lid = lid, !.base["attached"] = b]
        = [o EXCEPT !.base["attached"] = b]
  <2> HIDE DEF lid, b
  <2> QED
    BY DEF Kept, State
<1> QED
  BY <1>4, <1>5, <1>6

(* The whole step keeps the classifier's state and its baselines.          *)
LEMMA StepKeeps ==
  ASSUME NEW s, Kept(s), NEW i \in Input
  PROVE  Kept(Step(s, i)) /\ Step(s, i).prev = PickContext(i.hard)
<1> DEFINE c == PickContext(i.hard)
           e == Enter(Count(s, i), c)
           r == CASE c = "docked" -> Docked(e, i)
                  [] c = "bare" -> Bare(e, i)
                  [] c = "attached" -> Attached(e, i)
           lid == r.lid \/ i.hard.hall169
           seen == i.magValid /\ c # "attached"
           last == IF ~lid /\ seen
                   THEN IF r.penDocked THEN "present" ELSE "absent"
                   ELSE r.lastOpenPen
<1>1. c \in Contexts
  BY DEF PickContext, Contexts
<1>2. Kept(e)
  BY <1>1, CountKeeps, EnterKeeps
<1>3. Kept(r)
  <2> HIDE DEF e, c
  <2> QED
    BY <1>1, <1>2, DockedKeeps, BareKeeps, AttachedKeeps DEF Contexts
<1> HIDE DEF r, c
<1>4. lid \in BOOLEAN /\ last \in PenSeen
  BY <1>3 DEF Kept, State, PenSeen, Input, Hard
<1>5. Step(s, i) = [r EXCEPT !.prev = c, !.lid = lid, !.lastOpenPen = last]
  BY DEF Step, r, c
<1> HIDE DEF lid, last
<1>6. /\ Step(s, i) \in State
      /\ Step(s, i).base = r.base
      /\ Step(s, i).prev = c
  BY <1>1, <1>3, <1>4, <1>5 DEF Kept, State
<1> QED
  BY <1>3, <1>6 DEF Kept, NearSeeds, c

LEMMA InitKept == Kept(InitState)
<1> DEFINE f == [c \in Contexts |-> IF c = "bare" THEN Seeded(BaseZBare, BaseXBare)
                                                 ELSE Seeded(BaseZDocked, 0)]
<1>1. f \in [Contexts -> Baseline]
  BY ConfigAssumption DEF Baseline, Seeded
<1>2. /\ InitState.base = f
      /\ InitState \in State
  <2> HIDE DEF f
  <2>1. 0 \in 0..2 /\ 0 \in 0..FallbackAfter
    BY ConfigAssumption
  <2> QED
    BY <1>1, <2>1 DEF InitState, State, PenSeen, f
<1>3. NearSeeds(InitState)
  BY <1>2, ConfigAssumption DEF NearSeeds, Near, Seeded, Contexts
<1> QED
  BY <1>2, <1>3 DEF Kept

(* A step closes the lid only with a magnet behind it.                     *)
LEMMA StepLid ==
  ASSUME NEW s, Kept(s), NEW i \in Input, Step(s, i).lid
  PROVE  i.hard.hall169 \/ (i.hard.hall23 /\ ~i.hard.kb /\ ~i.bright)
<1> DEFINE c == PickContext(i.hard)
           e == Enter(Count(s, i), c)
           r == CASE c = "docked" -> Docked(e, i)
                  [] c = "bare" -> Bare(e, i)
                  [] c = "attached" -> Attached(e, i)
           lid == r.lid \/ i.hard.hall169
           last == IF ~lid /\ i.magValid /\ c # "attached"
                   THEN IF r.penDocked THEN "present" ELSE "absent"
                   ELSE r.lastOpenPen
<1>1. c \in Contexts
  BY DEF PickContext, Contexts
<1>2. Kept(e)
  BY <1>1, CountKeeps, EnterKeeps
<1> HIDE DEF e
<1>3. Kept(r)
  <2> HIDE DEF c
  <2> QED
    BY <1>1, <1>2, DockedKeeps, BareKeeps, AttachedKeeps DEF Contexts
<1>4. c # "attached" => ~r.lid
  <2>1. ~Docked(e, i).lid
    BY <1>2 DEF Docked, Kept, State
  <2>2. ~Bare(e, i).lid
    BY <1>2 DEF Bare, Kept, State
  <2> HIDE DEF c
  <2> QED
    BY <1>1, <2>1, <2>2 DEF Contexts
<1>5. c = "attached" => (r.lid => ~i.bright)
  <2>1. Attached(e, i).lid => ~i.bright
    BY <1>2 DEF Attached, Kept, State
  <2> HIDE DEF c
  <2> QED
    BY <2>1
<1>6. Step(s, i) = [r EXCEPT !.prev = c, !.lid = lid, !.lastOpenPen = last]
  BY DEF Step, e
<1>7. Step(s, i).lid = lid
  <2> HIDE DEF r, c, last, lid
  <2> QED
    BY <1>3, <1>6 DEF Kept, State
<1>8. c = "attached" <=> i.hard.hall23 /\ ~i.hard.kb
  BY DEF PickContext
<1> HIDE DEF r, c
<1> QED
  BY <1>4, <1>5, <1>7, <1>8

(* The streak starts over on entering a context; the output holds.         *)
LEMMA EnterStreak ==
  ASSUME NEW s, Kept(s), NEW i \in Input, NEW c \in Contexts,
         NEW e, e = Enter(Count(s, i), c)
  PROVE  /\ e.penReversed = s.penReversed
         /\ e.revStreak = IF s.prev = c THEN s.revStreak ELSE 0
         /\ e.base["bare"].z = s.base["bare"].z /\ e.base["bare"].x = s.base["bare"].x
<1> DEFINE n == Count(s, i)
<1>1. /\ n \in State /\ n.prev = s.prev /\ n.penReversed = s.penReversed
      /\ n.revStreak = s.revStreak /\ n.base = s.base
  <2>1. Kept(n)
    BY CountKeeps
  <2>2. /\ n.prev = s.prev /\ n.penReversed = s.penReversed
        /\ n.revStreak = s.revStreak /\ n.base = s.base
    BY DEF Kept, State, Count
  <2> QED
    BY <2>1, <2>2 DEF Kept
<1> HIDE DEF n
<1>2. CASE n.prev = c
  BY <1>1, <1>2 DEF Enter, n
<1>3. CASE n.prev # c
  <2> DEFINE b == IF c = "attached" THEN Seeded(n.base["docked"].z, 0)
                  ELSE [n.base[c] EXCEPT !.learned = FALSE]
  <2>1. e = [n EXCEPT !.revStreak = 0, !.base[c] = b]
    BY <1>3 DEF Enter, n
  <2>2. c = "bare" => b.z = n.base["bare"].z /\ b.x = n.base["bare"].x
    BY <1>1 DEF State, Contexts, Baseline
  <2> HIDE DEF b
  <2>3. e.penReversed = n.penReversed /\ e.revStreak = 0
    BY <1>1, <2>1 DEF State
  <2>4. e.base = [n.base EXCEPT ![c] = b]
    BY <1>1, <2>1 DEF State
  <2>5. e.base["bare"] = IF c = "bare" THEN b ELSE n.base["bare"]
    BY <1>1, <2>4 DEF State, Contexts
  <2> QED
    BY <1>1, <1>3, <2>2, <2>3, <2>5
<1> QED
  BY <1>2, <1>3

(* The bare arm counts readings that look reversed, and calls a pen        *)
(* reversed at the second in a row.                                        *)
LEMMA BareStreak ==
  ASSUME NEW s, Kept(s), NEW i \in Input
  PROVE  /\ Bare(s, i).revStreak = IF ~i.magValid THEN s.revStreak
                                   ELSE IF LooksReversed(s, i)
                                   THEN Capped(s.revStreak, 2) ELSE 0
         /\ Bare(s, i).penReversed /\ ~s.penReversed =>
              LooksReversed(s, i) /\ s.revStreak # 0
<1> DEFINE open == [s EXCEPT !.lid = FALSE]
           dz == i.mag.z - s.base["bare"].z
           dx == i.mag.x - s.base["bare"].x
           pen == dz >= PenDzBare
           looks == ~pen /\ dz <= -ReversedDz /\ dx <= -ReversedDx
           streak == IF looks THEN Capped(s.revStreak, 2) ELSE 0
           rev == streak = 2
           b == LearnIf(~pen /\ ~rev, s.base["bare"], i.mag.z, i.mag.x)
           t == [open EXCEPT !.penDocked = pen, !.penReversed = rev,
                             !.revStreak = streak, !.base["bare"] = b]
<1>1. /\ open \in State /\ open.penReversed = s.penReversed
      /\ open.revStreak = s.revStreak
  BY DEF Kept, State
<1>2. Bare(s, i) = IF ~i.magValid THEN open ELSE t
  BY DEF Bare
<1>3. t.penReversed = rev /\ t.revStreak = streak
  <2> HIDE DEF open, pen, rev, streak, b
  <2> QED
    BY <1>1 DEF State
<1>4. i.magValid => (looks <=> LooksReversed(s, i))
  <2>1. dz \in Int /\ PenDzBare \in Int
    BY ConfigAssumption DEF Kept, State, Contexts, Baseline, Input, Reading
  <2> QED
    BY <2>1 DEF LooksReversed
<1>5. rev => looks /\ Capped(s.revStreak, 2) = 2
  <2> HIDE DEF looks
  <2> QED
    OBVIOUS
<1>6. Capped(s.revStreak, 2) = 2 => s.revStreak # 0
  BY DEF Capped
<1> HIDE DEF open, t, rev, looks
<1> QED
  BY <1>1, <1>2, <1>3, <1>4, <1>5, <1>6

(* A step keeps the streak to the bare stay it counts in, and calls a pen  *)
(* reversed that was not only at the second reading of such a streak.      *)
LEMMA StepStreak ==
  ASSUME NEW s, Kept(s), NEW i \in Input, s.revStreak # 0 => s.prev = "bare"
  PROVE  /\ Step(s, i).revStreak # 0 <=>
              /\ PickContext(i.hard) = "bare"
              /\ LooksReversed(s, i) \/ (~i.magValid /\ s.revStreak # 0)
         /\ Step(s, i).penReversed /\ ~s.penReversed =>
              /\ s.revStreak # 0
              /\ PickContext(i.hard) = "bare" /\ LooksReversed(s, i)
<1> DEFINE c == PickContext(i.hard)
           e == Enter(Count(s, i), c)
           r == CASE c = "docked" -> Docked(e, i)
                  [] c = "bare" -> Bare(e, i)
                  [] c = "attached" -> Attached(e, i)
           lid == r.lid \/ i.hard.hall169
           last == IF ~lid /\ i.magValid /\ c # "attached"
                   THEN IF r.penDocked THEN "present" ELSE "absent"
                   ELSE r.lastOpenPen
<1>1. c \in Contexts
  BY DEF PickContext, Contexts
<1>2. Kept(e)
  BY <1>1, CountKeeps, EnterKeeps
<1>3. /\ e.penReversed = s.penReversed
      /\ e.revStreak = IF s.prev = c THEN s.revStreak ELSE 0
      /\ LooksReversed(e, i) <=> LooksReversed(s, i)
  <2> HIDE DEF c
  <2>1. /\ e.penReversed = s.penReversed
        /\ e.revStreak = IF s.prev = c THEN s.revStreak ELSE 0
        /\ e.base["bare"].z = s.base["bare"].z /\ e.base["bare"].x = s.base["bare"].x
    BY <1>1, EnterStreak
  <2> HIDE DEF e
  <2> QED
    BY <2>1 DEF LooksReversed
<1>4. Step(s, i) = [r EXCEPT !.prev = c, !.lid = lid, !.lastOpenPen = last]
  BY DEF Step
<1> HIDE DEF e
<1>5. Kept(r)
  <2> HIDE DEF c
  <2> QED
    BY <1>1, <1>2, DockedKeeps, BareKeeps, AttachedKeeps DEF Contexts
<1>6. Step(s, i).penReversed = r.penReversed /\ Step(s, i).revStreak = r.revStreak
  <2> HIDE DEF r, c, last, lid
  <2> QED
    BY <1>4, <1>5 DEF Kept, State
<1>7. CASE c = "bare"
  <2>1. r = Bare(e, i)
    BY <1>7
  <2>2. Capped(s.revStreak, 2) # 0 /\ Capped(0, 2) # 0
    BY DEF Capped, Kept, State
  <2>3. LooksReversed(s, i) => i.magValid
    BY DEF LooksReversed
  <2> HIDE DEF r
  <2>4. /\ r.revStreak = IF ~i.magValid THEN e.revStreak
                         ELSE IF LooksReversed(s, i) THEN Capped(e.revStreak, 2) ELSE 0
        /\ r.penReversed /\ ~s.penReversed => LooksReversed(s, i) /\ e.revStreak # 0
    BY <1>2, <1>3, <2>1, BareStreak
  <2> HIDE DEF c
  <2> QED
    BY <1>3, <1>6, <1>7, <2>2, <2>3, <2>4 DEF c
<1>8. CASE c # "bare"
  <2>1. Docked(e, i).revStreak = e.revStreak /\ ~Docked(e, i).penReversed
    BY <1>2 DEF Docked, Kept, State
  <2>2. /\ Attached(e, i).revStreak = e.revStreak
        /\ Attached(e, i).penReversed = e.penReversed
    BY <1>2 DEF Attached, Kept, State
  <2>3. e.revStreak = 0
    <3> HIDE DEF c
    <3> QED
      BY <1>3, <1>8
  <2>4. r.revStreak = 0 /\ (r.penReversed => s.penReversed)
    <3> HIDE DEF c
    <3> QED
      BY <1>1, <1>3, <1>8, <2>1, <2>2, <2>3 DEF Contexts
  <2> HIDE DEF r
  <2> QED
    BY <1>6, <1>8, <2>4
<1> QED
  BY <1>7, <1>8

-----------------------------------------------------------------------------
(* The streak counts exactly while the last reading of the present bare    *)
(* stay looked reversed.                                                   *)
StreakIsSuspicion ==
    /\ st.revStreak # 0 <=> suspected
    /\ suspected => st.prev = "bare"

IInv == TypeOK /\ Kept(st) /\ ClosedLidHasMagnet /\ StreakIsSuspicion

LEMMA Inductive ==
  /\ Init => IInv
  /\ IInv /\ [Next]_vars => IInv'
<1>1. Init => IInv
  <2>1. [kb |-> FALSE, hall23 |-> FALSE, hall169 |-> FALSE] \in Hard
    BY DEF Hard
  <2>2. [z |-> 0, x |-> 0] \in Reading
    BY DEF Reading
  <2>3. NoInput \in Input
    BY <2>1, <2>2 DEF NoInput, Input
  <2>4. ~InitState.lid /\ InitState.revStreak = 0
    BY DEF InitState
  <2> QED
    BY <2>3, <2>4, InitKept
    DEF Init, IInv, TypeOK, Kept, ClosedLidHasMagnet, StreakIsSuspicion
<1>2. ASSUME IInv, [Next]_vars
      PROVE  IInv'
  <2>1. CASE UNCHANGED vars
    BY <1>2, <2>1 DEF IInv, TypeOK, vars, Kept, NearSeeds, ClosedLidHasMagnet,
        StreakIsSuspicion
  <2>2. CASE Next
    <3>1. PICK i \in Inputs : Classify(i)
      BY <2>2 DEF Next
    <3>2. i \in Input
      BY InputsAssumption
    <3>3. Kept(st') /\ in' \in Input
      BY <1>2, <3>1, <3>2, StepKeeps DEF IInv, Classify
    <3>4. forgotten' \in BOOLEAN
      BY <1>2, <3>1, <3>3 DEF IInv, Kept, State, Classify, PenForgotten
    <3>5. ClosedLidHasMagnet'
      BY <1>2, <3>1, <3>2, StepLid DEF IInv, Classify, ClosedLidHasMagnet
    <3>6. StreakIsSuspicion' /\ suspected' \in BOOLEAN
      <4>1. Kept(st) /\ st' = Step(st, i) /\ (st.revStreak # 0 => st.prev = "bare")
        BY <1>2, <3>1 DEF IInv, StreakIsSuspicion, Classify
      <4>2. /\ st'.prev = PickContext(i.hard)
            /\ st'.revStreak # 0 <=>
                 /\ PickContext(i.hard) = "bare"
                 /\ LooksReversed(st, i) \/ (~i.magValid /\ st.revStreak # 0)
        BY <3>2, <4>1, StepKeeps, StepStreak
      <4>3. suspected' = /\ PickContext(i.hard) = "bare"
                         /\ \/ LooksReversed(st, i)
                            \/ ~i.magValid /\ st.prev = "bare" /\ suspected
        BY <3>1 DEF Classify
      <4>4. (st.revStreak # 0 <=> suspected) /\ (suspected => st.prev = "bare")
        BY <1>2 DEF IInv, StreakIsSuspicion
      <4>5. suspected' \in BOOLEAN
        BY <4>3, Zenon
      <4> QED
        BY <4>2, <4>3, <4>4, <4>5, Zenon DEF StreakIsSuspicion
    <3> QED
      BY <3>3, <3>4, <3>5, <3>6 DEF IInv, TypeOK, Kept, NearSeeds
  <2> QED
    BY <1>2, <2>1, <2>2
<1> QED
  BY <1>1, <1>2

(* The classifier's state has its type after any sequence of steps.        *)
THEOREM TypeCorrect == Spec => []TypeOK
<1>1. IInv => TypeOK
  BY DEF IInv
<1> QED
  BY <1>1, Inductive, PTL DEF Spec

(* No sequence of readings carries a baseline farther than baseline_window *)
(* from its seed, for any thresholds and any window.                       *)
THEOREM BaselinesStayNear == Spec => []BaselinesNearSeeds
<1>1. IInv => BaselinesNearSeeds
  BY DEF IInv, Kept, BaselinesNearSeeds
<1> QED
  BY <1>1, Inductive, PTL DEF Spec

(* A closed lid always has a magnet behind it, for any thresholds and any  *)
(* readings: neither a held lid nor the fallback outlives its context.     *)
THEOREM ClosedLidNeedsMagnet == Spec => []ClosedLidHasMagnet
<1>1. IInv => ClosedLidHasMagnet
  BY DEF IInv
<1> QED
  BY <1>1, Inductive, PTL DEF Spec

(* folio_state.c:42-44: the pen is announced as reversed only by a reading *)
(* that looks so against the bare baseline, when the reading before it in  *)
(* the same bare stay looked so too, for any thresholds and readings.      *)
THEOREM ReversedIsConfirmed == Spec => ReversedNeedsTwoReadings
<1>1. IInv /\ [Next]_vars =>
        [st'.penReversed /\ ~st.penReversed =>
           /\ st.prev = "bare" /\ suspected
           /\ PickContext(in'.hard) = "bare" /\ LooksReversed(st, in')]_vars
  <2> SUFFICES ASSUME IInv, Next, st'.penReversed, ~st.penReversed
               PROVE  /\ st.prev = "bare" /\ suspected
                      /\ PickContext(in'.hard) = "bare" /\ LooksReversed(st, in')
    OBVIOUS
  <2>1. PICK i \in Inputs : Classify(i)
    BY DEF Next
  <2>2. i \in Input /\ st' = Step(st, i) /\ in' = i
    BY <2>1, InputsAssumption DEF Classify
  <2>3. /\ Kept(st) /\ (st.revStreak # 0 => st.prev = "bare")
        /\ st.revStreak # 0 => suspected
    BY DEF IInv, StreakIsSuspicion
  <2>4. st.revStreak # 0 /\ PickContext(i.hard) = "bare" /\ LooksReversed(st, i)
    BY <2>2, <2>3, StepStreak
  <2> QED
    BY <2>2, <2>3, <2>4
<1> QED
  BY <1>1, Inductive, PTL DEF Spec, ReversedNeedsTwoReadings
=============================================================================
