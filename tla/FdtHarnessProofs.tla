-------------------------- MODULE FdtHarnessProofs --------------------------
(***************************************************************************)
(* What a verdict of PASS is worth, for any blob, command line and overlap *)
(* cases, and any number of wrong doings.  First properties of a node,     *)
(* found by name; then what a comparison that finds nothing says of two    *)
(* trees; then the steps of the harness.                                   *)
(***************************************************************************)
EXTENDS FdtHarness, FiniteSetTheorems, WellFoundedInduction, TLAPS

(* A set of numbers has a least one.                                       *)
LEMMA LeastPlace ==
    ASSUME NEW T, T \subseteq Nat, T # {}
    PROVE  \E k \in T : \A m \in T : k <= m
<1> DEFINE R == OpToRel(<, Nat)
<1>1. IsWellFoundedOn(R, Nat)
  BY NatLessThanWellFounded
<1>2. ASSUME NEW m \in Nat, NEW k \in Nat, m < k PROVE <<m, k>> \in R
  BY <1>2 DEF OpToRel
<1> HIDE DEF R
<1>3. PICK k \in T : \A m \in T : ~(<<m, k>> \in R)
  BY <1>1, WFMin
<1>4. ASSUME NEW m \in T PROVE k <= m
  <2>1. ~(m < k)
    BY <1>2, <1>3
  <2> QED
    BY <2>1
<1> QED
  BY <1>4

(* First() is the first place of a name, or 0.                             *)
LEMMA FirstIs ==
    ASSUME NEW props \in Seq(Property), NEW name
    PROVE  /\ First(props, name) \in 0..Len(props)
           /\ Has(props, name) <=> \E i \in 1..Len(props) : props[i].name = name
           /\ Has(props, name) =>
                /\ First(props, name) \in 1..Len(props)
                /\ props[First(props, name)].name = name
                /\ \A i \in 1..Len(props) :
                     props[i].name = name => First(props, name) <= i
<1> DEFINE I == {i \in 1..Len(props) : props[i].name = name}
<1>1. First(props, name) = IF I # {} THEN Min(I) ELSE 0
  BY DEF First, SelectInSeq
<1>2. Len(props) \in Nat
  OBVIOUS
<1>3. CASE I = {}
  BY <1>1, <1>2, <1>3 DEF Has
<1>4. CASE I # {}
  <2>1. I \subseteq Nat
    OBVIOUS
  <2>2. PICK k \in I : \A m \in I : k <= m
    BY <1>4, <2>1, LeastPlace
  <2>3. Min(I) \in I /\ \A m \in I : Min(I) <= m
    <3> HIDE DEF I
    <3> QED
      BY <2>2 DEF Min
  <2> QED
    BY <1>1, <1>4, <2>3 DEF Has
<1> QED
  BY <1>3, <1>4

(* The same of a property that is there, put to use.                       *)
LEMMA ValueIs ==
    ASSUME NEW props \in Seq(Property), NEW name, Has(props, name)
    PROVE  /\ name \in PropNames /\ Value(props, name) \in Seq(Nat)
           /\ props[First(props, name)] = [name |-> name, val |-> Value(props, name)]
<1>1. /\ First(props, name) \in 1..Len(props)
      /\ props[First(props, name)].name = name
  BY FirstIs
<1>2. props[First(props, name)] \in Property
  BY <1>1
<1> QED
  BY <1>1, <1>2 DEF Value, Property

LEMMA IntervalCounts ==
    ASSUME NEW n \in Nat
    PROVE  IsFiniteSet(1..n) /\ Cardinality(1..n) = n
<1>1. IsFiniteSet(1..n) /\ Cardinality(1..n) = IF 1 > n THEN 0 ELSE n - 1 + 1
  BY FS_Interval
<1> QED
  BY <1>1

-----------------------------------------------------------------------------
Once(props) ==
    \A i, j \in DOMAIN props : props[i].name = props[j].name => i = j

Names(props) == {m \in PropNames : Has(props, m)}

(* A node that names a property once has as many names as properties.      *)
LEMMA OnceCounts ==
    ASSUME NEW props \in Seq(Property), Once(props)
    PROVE  IsFiniteSet(Names(props)) /\ Cardinality(Names(props)) = Len(props)
<1> DEFINE f == [i \in 1..Len(props) |-> props[i].name]
<1>1. /\ \A i \in 1..Len(props) : props[i] \in Property /\ props[i].name \in PropNames
      /\ Len(props) \in Nat /\ DOMAIN props = 1..Len(props)
  <2>1. Len(props) \in Nat /\ DOMAIN props = 1..Len(props)
    OBVIOUS
  <2>2. \A i \in 1..Len(props) : props[i] \in Property
    OBVIOUS
  <2> QED
    BY <2>1, <2>2 DEF Property
<1>2. \A i \in 1..Len(props) : f[i] \in Names(props)
  BY <1>1, FirstIs DEF Names
<1>3. \A m \in Names(props) : \E i \in 1..Len(props) : f[i] = m
  BY FirstIs DEF Names
<1>4. f \in Bijection(1..Len(props), Names(props))
  <2>1. \A i, j \in 1..Len(props) : f[i] = f[j] => i = j
    BY <1>1 DEF Once
  <2> QED
    BY <1>2, <1>3, <2>1 DEF Bijection, Injection, Surjection, IsInjective
<1>5. IsFiniteSet(1..Len(props)) /\ Cardinality(1..Len(props)) = Len(props)
  BY <1>1, IntervalCounts
<1> QED
  BY <1>4, <1>5, FS_Bijection DEF ExistsBijection

(* What a name is expected to have.                                        *)
Want(a, node, exp, m) ==
    IF <<node, m>> \in DOMAIN exp THEN exp[<<node, m>>] ELSE Value(a[node], m)

Pairs(exp) ==
    /\ IsFiniteSet(DOMAIN exp)
    /\ \A e \in DOMAIN exp : \E m \in PropNames : e = <<Chosen, m>>

NewNames(a, node, exp) == {e[2] : e \in NewAt(a, node, exp)}

LEMMA NewNamesAre ==
    ASSUME NEW a, NEW node, NEW exp, Pairs(exp)
    PROVE  /\ NewNames(a, node, exp) \subseteq PropNames
           /\ \A m : m \in NewNames(a, node, exp)
                        <=> <<node, m>> \in DOMAIN exp /\ ~Has(a[node], m)
           /\ IsFiniteSet(NewAt(a, node, exp))
           /\ IsFiniteSet(NewNames(a, node, exp))
           /\ Cardinality(NewNames(a, node, exp)) = Cardinality(NewAt(a, node, exp))
<1> DEFINE S == NewAt(a, node, exp)
           T == NewNames(a, node, exp)
           f == [e \in S |-> e[2]]
<1>1. ASSUME NEW e \in S
      PROVE  e \in DOMAIN exp /\ e = <<node, e[2]>> /\ e[2] \in PropNames
  <2>1. e \in DOMAIN exp /\ e[1] = node
    BY DEF NewAt
  <2>2. PICK m \in PropNames : e = <<Chosen, m>>
    BY <2>1 DEF Pairs
  <2> QED
    BY <2>1, <2>2
<1>2. \A m : m \in T <=> <<node, m>> \in S
  BY <1>1 DEF NewNames
<1>3. \A m : <<node, m>> \in S <=> <<node, m>> \in DOMAIN exp /\ ~Has(a[node], m)
  BY DEF NewAt
<1>4. IsFiniteSet(S)
  BY FS_Subset DEF NewAt, Pairs
<1>5. f \in Bijection(S, T)
  <2>1. \A e \in S : f[e] \in T
    BY DEF NewNames
  <2>2. \A d, e \in S : f[d] = f[e] => d = e
    BY <1>1
  <2>3. \A m \in T : \E e \in S : f[e] = m
    BY DEF NewNames
  <2> QED
    BY <2>1, <2>2, <2>3 DEF Bijection, Injection, Surjection, IsInjective
<1>6. T \subseteq PropNames
  BY <1>1 DEF NewNames
<1> QED
  BY <1>2, <1>3, <1>4, <1>5, <1>6, FS_Bijection DEF ExistsBijection

(* A node that compares equal names what was there and what is new, each   *)
(* once: with as many places as names, no place is left for another.       *)
LEMMA NothingElse ==
    ASSUME NEW a, NEW b, NEW node, NEW exp, Pairs(exp),
           a[node] \in Seq(Property), Once(a[node]), b[node] \in Seq(Property),
           SameProps(a, b, node, exp),
           Len(b[node]) = Len(a[node]) + Cardinality(NewAt(a, node, exp))
    PROVE  /\ Names(b[node]) = Names(a[node]) \cup NewNames(a, node, exp)
           /\ \A m \in Names(b[node]) : Value(b[node], m) = Want(a, node, exp, m)
           /\ ToSet(b[node]) = {[name |-> m, val |-> Want(a, node, exp, m)] :
                                    m \in Names(b[node])}
<1> DEFINE p == a[node]
           q == b[node]
           N == Names(p) \cup NewNames(a, node, exp)
           f == [m \in N |-> First(q, m)]
<1>1. /\ Len(p) \in Nat /\ DOMAIN p = 1..Len(p)
      /\ Len(q) \in Nat /\ DOMAIN q = 1..Len(q)
  OBVIOUS
<1>2. ASSUME NEW m \in N PROVE Holds(b, node, m, Want(a, node, exp, m))
  <2>1. CASE m \in Names(p)
    <3> DEFINE i == First(p, m)
    <3>1. i \in DOMAIN p /\ p[i].name = m
      BY <1>1, <2>1, FirstIs DEF Names
    <3>2. p[i].val = Value(p, m)
      BY DEF Value
    <3> QED
      BY <3>1, <3>2 DEF SameProps, Want
  <2>2. CASE m \in NewNames(a, node, exp)
    <3>1. <<node, m>> \in NewAt(a, node, exp) /\ <<node, m>> \in DOMAIN exp
      BY <2>2, NewNamesAre DEF NewAt
    <3> QED
      BY <3>1 DEF SameProps, Want
  <2> QED
    BY <2>1, <2>2
<1>3. IsFiniteSet(N) /\ Cardinality(N) = Len(q)
  <2>1. Names(p) \cap NewNames(a, node, exp) = {}
    BY NewNamesAre DEF Names
  <2>2. /\ IsFiniteSet(Names(p)) /\ Cardinality(Names(p)) = Len(p)
        /\ IsFiniteSet(NewNames(a, node, exp))
        /\ Cardinality(NewNames(a, node, exp)) = Cardinality(NewAt(a, node, exp))
    BY OnceCounts, NewNamesAre
  <2>3. /\ IsFiniteSet(N)
        /\ Cardinality(N) = Cardinality(Names(p)) + Cardinality(NewNames(a, node, exp))
                               - Cardinality({})
    <3> HIDE DEF p
    <3> QED
      BY <2>1, <2>2, FS_Union
  <2>4. Cardinality({}) = 0
    BY FS_EmptySet
  <2>5. Cardinality(NewAt(a, node, exp)) \in Nat
    BY NewNamesAre, FS_CardinalityType
  <2> HIDE DEF N
  <2> QED
    BY <1>1, <2>2, <2>3, <2>4, <2>5
<1>4. f \in Injection(N, 1..Len(q))
  <2>1. \A m \in N : f[m] \in 1..Len(q) /\ q[f[m]].name = m
    BY <1>2, FirstIs DEF Holds
  <2>2. \A m, n \in N : f[m] = f[n] => m = n
    BY <2>1
  <2> QED
    BY <2>1, <2>2 DEF Injection, IsInjective
<1>5. f \in Surjection(N, 1..Len(q))
  <2>1. IsFiniteSet(1..Len(q)) /\ Cardinality(1..Len(q)) = Len(q)
    BY <1>1, IntervalCounts
  <2> QED
    BY <1>3, <1>4, <2>1, FS_Injection
<1>6. \A i \in 1..Len(q) : \E m \in N : i = First(q, m)
  BY <1>5 DEF Surjection
<1>7. N \subseteq PropNames
  BY NewNamesAre DEF Names
<1>8. Names(q) = N
  <2>1. ASSUME NEW m \in Names(q) PROVE m \in N
    <3>1. First(q, m) \in 1..Len(q) /\ q[First(q, m)].name = m
      BY FirstIs DEF Names
    <3>2. PICK n \in N : First(q, m) = First(q, n)
      BY <1>6, <3>1
    <3>3. q[First(q, n)].name = n
      BY <1>2, FirstIs DEF Holds
    <3> QED
      BY <3>1, <3>2, <3>3
  <2>2. ASSUME NEW m \in N PROVE m \in Names(q)
    BY <1>2, <1>7 DEF Names, Holds
  <2> QED
    BY <2>1, <2>2
<1>9. \A m \in N : q[First(q, m)] = [name |-> m, val |-> Want(a, node, exp, m)]
  BY <1>2, ValueIs DEF Holds
<1>10. ToSet(q) = {[name |-> m, val |-> Want(a, node, exp, m)] : m \in N}
  <2>1. ASSUME NEW i \in 1..Len(q)
        PROVE  \E m \in N : q[i] = [name |-> m, val |-> Want(a, node, exp, m)]
    BY <1>6, <1>9
  <2>2. ASSUME NEW m \in N
        PROVE  \E i \in 1..Len(q) : q[i] = [name |-> m, val |-> Want(a, node, exp, m)]
    <3>1. First(q, m) \in 1..Len(q)
      BY <1>2, FirstIs DEF Holds
    <3> QED
      BY <1>9, <3>1
  <2> HIDE DEF N
  <2> QED
    BY <1>1, <2>1, <2>2 DEF ToSet
<1> QED
  BY <1>2, <1>8, <1>10 DEF Holds

-----------------------------------------------------------------------------
(* fdt_setprop() gives the property its value, adds it if it was not       *)
(* there, and leaves the others alone.                                     *)
IsSet(q, p, name, val) ==
    /\ q \in Seq(Property)
    /\ Len(q) = Len(p) + (IF Has(p, name) THEN 0 ELSE 1)
    /\ Has(q, name) /\ Value(q, name) = val
    /\ \A m : m # name /\ Has(p, m) => Has(q, m) /\ Value(q, m) = Value(p, m)

LEMMA SetPropSets ==
    ASSUME NEW t, Tree(t), Chosen \in DOMAIN t,
           NEW name, NEW val, [name |-> name, val |-> val] \in Property
    PROVE  IsSet(SetProp(t, name, val)[Chosen], t[Chosen], name, val)
<1> DEFINE p == t[Chosen]
           q == SetProp(t, name, val)[Chosen]
           new == [name |-> name, val |-> val]
           k == First(p, name)
<1>1. p \in Seq(Property) /\ new \in Property /\ Len(p) \in Nat /\ DOMAIN p = 1..Len(p)
  BY DEF Tree
<1>2. q = IF k = 0 THEN <<new>> \o p ELSE [p EXCEPT ![k] = new]
  BY DEF SetProp, ReplaceAt, Tree
<1> HIDE DEF q
<1>3. new.name = name /\ new.val = val
  OBVIOUS
<1> HIDE DEF new, k
<1>4. ASSUME ~Has(p, name) PROVE IsSet(q, p, name, val)
  <2>1. q = <<new>> \o p
    BY <1>2, <1>4 DEF Has, k
  <2>2. /\ q \in Seq(Property) /\ Len(q) = Len(p) + 1 /\ q[1] = new
        /\ \A i \in 1..Len(p) : q[i + 1] = p[i]
    BY <1>1, <2>1
  <2>3. Has(q, name) /\ First(q, name) <= 1 /\ First(q, name) \in 1..Len(q)
    BY <1>1, <1>3, <2>2, FirstIs
  <2>4. Value(q, name) = val
    <3>1. First(q, name) = 1
      BY <2>3
    <3> QED
      BY <1>3, <2>2, <3>1 DEF Value
  <2>5. ASSUME NEW m, m # name, Has(p, m)
        PROVE  Has(q, m) /\ Value(q, m) = Value(p, m)
    <3>1. /\ First(p, m) \in 1..Len(p) /\ p[First(p, m)].name = m
          /\ \A i \in 1..Len(p) : p[i].name = m => First(p, m) <= i
      BY <1>1, <2>5, FirstIs
    <3>2. q[First(p, m) + 1].name = m /\ First(p, m) + 1 \in 1..Len(q)
      BY <1>1, <2>2, <3>1
    <3>3. /\ Has(q, m) /\ First(q, m) \in 1..Len(q) /\ q[First(q, m)].name = m
          /\ First(q, m) <= First(p, m) + 1
      BY <2>2, <3>2, FirstIs
    <3>4. First(q, m) # 1
      BY <1>3, <2>2, <2>5, <3>3
    <3>5. First(q, m) - 1 \in 1..Len(p) /\ q[First(q, m)] = p[First(q, m) - 1]
      <4>1. First(q, m) - 1 \in 1..Len(p)
        BY <1>1, <2>2, <3>3, <3>4
      <4>2. q[(First(q, m) - 1) + 1] = p[First(q, m) - 1]
        BY <2>2, <4>1
      <4> QED
        BY <3>3, <4>1, <4>2
    <3>6. First(q, m) = First(p, m) + 1
      BY <3>1, <3>3, <3>5
    <3> QED
      BY <3>1, <3>3, <3>5, <3>6 DEF Value
  <2> QED
    BY <1>4, <2>2, <2>3, <2>4, <2>5 DEF IsSet
<1>5. ASSUME Has(p, name) PROVE IsSet(q, p, name, val)
  <2>1. k \in 1..Len(p) /\ p[k].name = name
    BY <1>1, <1>5, FirstIs DEF k
  <2>2. q = [p EXCEPT ![k] = new]
    BY <1>2, <2>1
  <2>3. /\ q \in Seq(Property) /\ Len(q) = Len(p)
        /\ \A i \in 1..Len(p) : q[i] = IF i = k THEN new ELSE p[i]
    BY <1>1, <2>1, <2>2
  <2>4. \A i \in 1..Len(p) : q[i].name = p[i].name
    BY <1>3, <2>1, <2>3
  <2>5. ASSUME NEW m, Has(p, m)
        PROVE  Has(q, m) /\ First(q, m) = First(p, m)
    <3>1. /\ First(p, m) \in 1..Len(p) /\ p[First(p, m)].name = m
          /\ \A i \in 1..Len(p) : p[i].name = m => First(p, m) <= i
      BY <1>1, <2>5, FirstIs
    <3>2. q[First(p, m)].name = m /\ First(p, m) \in 1..Len(q)
      BY <2>3, <2>4, <3>1
    <3>3. Has(q, m)
      BY <2>3, <3>2, FirstIs
    <3>4. /\ First(q, m) \in 1..Len(q) /\ q[First(q, m)].name = m
          /\ First(q, m) <= First(p, m)
      BY <2>3, <3>2, <3>3, FirstIs
    <3>5. First(q, m) \in 1..Len(p)
      BY <2>3, <3>4
    <3>6. First(p, m) <= First(q, m)
      BY <2>4, <3>1, <3>4, <3>5
    <3> QED
      BY <3>1, <3>3, <3>4, <3>5, <3>6
  <2>6. Has(q, name) /\ Value(q, name) = val
    BY <1>3, <1>5, <2>1, <2>3, <2>5 DEF Value, k
  <2>7. ASSUME NEW m, m # name, Has(p, m)
        PROVE  Has(q, m) /\ Value(q, m) = Value(p, m)
    <3>1. First(p, m) \in 1..Len(p) /\ p[First(p, m)].name = m
      BY <1>1, <2>7, FirstIs
    <3> QED
      BY <2>1, <2>3, <2>5, <2>7, <3>1 DEF Value
  <2>8. Len(q) = Len(p) + 0
    BY <1>1, <2>3
  <2> QED
    BY <1>5, <2>3, <2>6, <2>7, <2>8 DEF IsSet
<1> QED
  BY <1>4, <1>5 DEF q

LEMMA SetPropTree ==
    ASSUME NEW t, Tree(t), NEW name, NEW val, [name |-> name, val |-> val] \in Property
    PROVE  /\ Tree(SetProp(t, name, val))
           /\ DOMAIN SetProp(t, name, val) = DOMAIN t
           /\ \A n \in DOMAIN t : n # Chosen => SetProp(t, name, val)[n] = t[n]
<1>1. CASE Chosen \notin DOMAIN t
  BY <1>1 DEF SetProp
<1>2. CASE Chosen \in DOMAIN t
  <2>1. PICK q : SetProp(t, name, val) = [t EXCEPT ![Chosen] = q]
    BY <1>2 DEF SetProp
  <2>2. q = SetProp(t, name, val)[Chosen]
    BY <1>2, <2>1 DEF Tree
  <2>3. q \in Seq(Property)
    BY <1>2, <2>2, SetPropSets DEF IsSet
  <2> QED
    BY <2>1, <2>3 DEF Tree
<1> QED
  BY <1>1, <1>2

LEMMA ExpectIs ==
    ASSUME NEW exp, Pairs(exp), NEW name, NEW val,
           [name |-> name, val |-> val] \in Property, <<Chosen, name>> \notin DOMAIN exp
    PROVE  /\ Pairs(Expect(exp, name, val))
           /\ DOMAIN Expect(exp, name, val) = DOMAIN exp \cup {<<Chosen, name>>}
           /\ Expect(exp, name, val)[<<Chosen, name>>] = val
           /\ \A e \in DOMAIN exp : Expect(exp, name, val)[e] = exp[e]
<1>1. DOMAIN Expect(exp, name, val) = DOMAIN exp \cup {<<Chosen, name>>}
  BY DEF Expect
<1>2. IsFiniteSet(DOMAIN exp \cup {<<Chosen, name>>})
  BY FS_AddElement DEF Pairs
<1>3. \E m \in PropNames : <<Chosen, name>> = <<Chosen, m>>
  BY DEF Property
<1>4. Pairs(Expect(exp, name, val))
  BY <1>1, <1>2, <1>3 DEF Pairs
<1>5. Expect(exp, name, val)[<<Chosen, name>>] = val
  BY DEF Expect
<1>6. ASSUME NEW e \in DOMAIN exp PROVE Expect(exp, name, val)[e] = exp[e]
  <2>1. e[2] # name
    BY DEF Pairs
  <2> QED
    BY <2>1 DEF Expect
<1> QED
  BY <1>1, <1>4, <1>5, <1>6

(* The comparison finds nothing in a tree that is set as expected.         *)
LEMMA SetPropMatches ==
    ASSUME NEW a, Tree(a), NamedOnce(a), Chosen \in DOMAIN a,
           NEW t, Tree(t), NEW exp, Pairs(exp), Matches(a, t, exp),
           NEW name, NEW val, [name |-> name, val |-> val] \in Property,
           <<Chosen, name>> \notin DOMAIN exp
    PROVE  Matches(a, SetProp(t, name, val), Expect(exp, name, val))
<1> DEFINE b == SetProp(t, name, val)
           exq == Expect(exp, name, val)
           here == <<Chosen, name>>
<1>1. /\ Chosen \in DOMAIN t
      /\ SameProps(a, t, Chosen, exp)
      /\ Len(t[Chosen]) = Len(a[Chosen]) + Cardinality(NewAt(a, Chosen, exp))
  BY DEF Matches
<1>2. /\ a[Chosen] \in Seq(Property) /\ Once(a[Chosen]) /\ t[Chosen] \in Seq(Property)
  BY <1>1 DEF Tree, NamedOnce, Once
<1>3. /\ DOMAIN b = DOMAIN t
      /\ \A n \in DOMAIN t : n # Chosen => b[n] = t[n]
  BY SetPropTree
<1>4. IsSet(b[Chosen], t[Chosen], name, val)
  BY <1>1, SetPropSets
<1>5. /\ DOMAIN exq = DOMAIN exp \cup {here} /\ exq[here] = val
      /\ \A e \in DOMAIN exp : exq[e] = exp[e]
  BY ExpectIs
<1> HIDE DEF b, exq
<1>6. Has(t[Chosen], name) <=> Has(a[Chosen], name)
  <2>1. Names(t[Chosen]) = Names(a[Chosen]) \cup NewNames(a, Chosen, exp)
    BY <1>1, <1>2, NothingElse, SMTT(30)
  <2>2. name \notin NewNames(a, Chosen, exp)
    BY NewNamesAre
  <2>3. \E m \in PropNames : m = name
    BY DEF Property
  <2> QED
    BY <2>1, <2>2, <2>3 DEF Names
<1>7. NewAt(a, Chosen, exq) =
        IF Has(a[Chosen], name) THEN NewAt(a, Chosen, exp)
                                ELSE NewAt(a, Chosen, exp) \cup {here}
  BY <1>5 DEF NewAt
<1>8. SameProps(a, b, Chosen, exq)
  <2>1. ASSUME NEW m, NEW v, Holds(t, Chosen, m, v), m # name
        PROVE  Holds(b, Chosen, m, v)
    BY <1>4, <2>1 DEF Holds, IsSet
  <2>2. Holds(b, Chosen, name, val)
    BY <1>4 DEF Holds, IsSet
  <2>3. ASSUME NEW i \in DOMAIN a[Chosen]
        PROVE  LET e == <<Chosen, a[Chosen][i].name>>
               IN  Holds(b, Chosen, a[Chosen][i].name,
                         IF e \in DOMAIN exq THEN exq[e] ELSE a[Chosen][i].val)
    <3> DEFINE m == a[Chosen][i].name
               e == <<Chosen, m>>
    <3>1. CASE m = name
      BY <1>5, <2>2, <3>1
    <3>2. CASE m # name
      <4>1. Holds(t, Chosen, m, IF e \in DOMAIN exp THEN exp[e] ELSE a[Chosen][i].val)
        BY <1>1 DEF SameProps
      <4>2. /\ e \in DOMAIN exq <=> e \in DOMAIN exp
            /\ e \in DOMAIN exp => exq[e] = exp[e]
        BY <1>5, <3>2
      <4> QED
        BY <2>1, <3>2, <4>1, <4>2
    <3> QED
      BY <3>1, <3>2
  <2>4. ASSUME NEW e \in NewAt(a, Chosen, exq)
        PROVE  Holds(b, Chosen, e[2], exq[e])
    <3>1. CASE e = here
      BY <1>5, <2>2, <3>1
    <3>2. CASE e # here
      <4>1. e \in NewAt(a, Chosen, exp) /\ e \in DOMAIN exp
        BY <1>7, <3>2 DEF NewAt
      <4>2. Holds(t, Chosen, e[2], exp[e])
        BY <1>1, <4>1 DEF SameProps
      <4>3. e[2] # name
        BY <4>1 DEF Pairs
      <4> QED
        BY <1>5, <2>1, <4>1, <4>2, <4>3
    <3> QED
      BY <3>1, <3>2
  <2> QED
    BY <2>3, <2>4 DEF SameProps
<1>9. Len(b[Chosen]) = Len(a[Chosen]) + Cardinality(NewAt(a, Chosen, exq))
  <2>1. IsFiniteSet(NewAt(a, Chosen, exp)) /\ Cardinality(NewAt(a, Chosen, exp)) \in Nat
    BY NewNamesAre, FS_CardinalityType
  <2>2. here \notin NewAt(a, Chosen, exp)
    BY DEF NewAt
  <2>3. Cardinality(NewAt(a, Chosen, exp) \cup {here})
          = Cardinality(NewAt(a, Chosen, exp)) + 1
    BY <2>1, <2>2, FS_AddElement
  <2>4. Len(a[Chosen]) \in Nat
    BY <1>2
  <2> QED
    BY <1>1, <1>4, <1>6, <1>7, <2>1, <2>3, <2>4 DEF IsSet
<1>10. ASSUME NEW n \in DOMAIN a, n # Chosen
       PROVE  /\ SameProps(a, b, n, exq)
              /\ Len(b[n]) = Len(a[n]) + Cardinality(NewAt(a, n, exq))
  <2>1. /\ n \in DOMAIN t /\ SameProps(a, t, n, exp)
        /\ Len(t[n]) = Len(a[n]) + Cardinality(NewAt(a, n, exp))
    BY DEF Matches
  <2>2. b[n] = t[n]
    BY <1>3, <1>10, <2>1
  <2>3. \A m : <<n, m>> \notin DOMAIN exp /\ <<n, m>> \notin DOMAIN exq
    BY <1>5, <1>10 DEF Pairs
  <2>4. NewAt(a, n, exp) = {} /\ NewAt(a, n, exq) = {}
    BY <1>5, <1>10 DEF NewAt, Pairs
  <2> QED
    BY <2>1, <2>2, <2>3, <2>4 DEF SameProps, Holds
<1> QED
  BY <1>1, <1>3, <1>8, <1>9, <1>10 DEF Matches, b, exq

Nothing == [e \in {} |-> <<>>]

LEMMA UntouchedMatches ==
    ASSUME NEW a, Tree(a), NamedOnce(a)
    PROVE  Pairs(Nothing) /\ Matches(a, a, Nothing)
<1>1. Pairs(Nothing) /\ DOMAIN Nothing = {}
  BY FS_EmptySet DEF Pairs, Nothing
<1>2. ASSUME NEW n \in DOMAIN a
      PROVE  /\ SameProps(a, a, n, Nothing)
             /\ Len(a[n]) = Len(a[n]) + Cardinality(NewAt(a, n, Nothing))
  <2>1. /\ a[n] \in Seq(Property) /\ Once(a[n]) /\ Len(a[n]) \in Nat
        /\ DOMAIN a[n] = 1..Len(a[n])
    <3>1. a[n] \in Seq(Property)
      BY DEF Tree
    <3> QED
      BY <3>1 DEF NamedOnce, Once
  <2>2. NewAt(a, n, Nothing) = {}
    BY <1>1 DEF NewAt
  <2>3. ASSUME NEW i \in DOMAIN a[n]
        PROVE  Holds(a, n, a[n][i].name, a[n][i].val)
    <3> DEFINE m == a[n][i].name
    <3>1. Has(a[n], m) /\ First(a[n], m) \in DOMAIN a[n] /\ a[n][First(a[n], m)].name = m
      BY <2>1, FirstIs
    <3>2. First(a[n], m) = i
      BY <2>1, <3>1 DEF Once
    <3> QED
      BY <3>1, <3>2 DEF Holds, Value
  <2>4. SameProps(a, a, n, Nothing)
    BY <1>1, <2>2, <2>3 DEF SameProps
  <2> QED
    BY <2>1, <2>2, <2>4, FS_EmptySet
<1> QED
  BY <1>1, <1>2 DEF Matches

(* Two trees that compare equal to one blob are equal, but for the order   *)
(* of the properties in a node.                                            *)
LEMMA MatchesAgree ==
    ASSUME NEW a, Tree(a), NamedOnce(a), NEW b, Tree(b), NEW c, Tree(c),
           NEW exp, Pairs(exp), Matches(a, b, exp), Matches(a, c, exp)
    PROVE  /\ DOMAIN b = DOMAIN a
           /\ \A n \in DOMAIN a : Len(b[n]) = Len(c[n]) /\ ToSet(b[n]) = ToSet(c[n])
<1>1. DOMAIN b = DOMAIN a
  <2>1. /\ IsFiniteSet(DOMAIN b) /\ DOMAIN a \subseteq DOMAIN b
        /\ Cardinality(DOMAIN b) = Cardinality(DOMAIN a)
    BY DEF Matches, Tree
  <2> QED
    BY <2>1, FS_Subset
<1>2. ASSUME NEW n \in DOMAIN a
      PROVE  Len(b[n]) = Len(c[n]) /\ ToSet(b[n]) = ToSet(c[n])
  <2>1. /\ n \in DOMAIN b /\ SameProps(a, b, n, exp)
        /\ Len(b[n]) = Len(a[n]) + Cardinality(NewAt(a, n, exp))
        /\ n \in DOMAIN c /\ SameProps(a, c, n, exp)
        /\ Len(c[n]) = Len(a[n]) + Cardinality(NewAt(a, n, exp))
    BY DEF Matches
  <2>2. /\ a[n] \in Seq(Property) /\ Once(a[n])
        /\ b[n] \in Seq(Property) /\ c[n] \in Seq(Property)
    BY <2>1 DEF Tree, NamedOnce, Once
  <2>3. /\ Names(b[n]) = Names(a[n]) \cup NewNames(a, n, exp)
        /\ ToSet(b[n]) = {[name |-> m, val |-> Want(a, n, exp, m)] : m \in Names(b[n])}
    BY <2>1, <2>2, NothingElse, SMTT(30)
  <2>4. /\ Names(c[n]) = Names(a[n]) \cup NewNames(a, n, exp)
        /\ ToSet(c[n]) = {[name |-> m, val |-> Want(a, n, exp, m)] : m \in Names(c[n])}
    BY <2>1, <2>2, NothingElse, SMTT(30)
  <2> QED
    BY <2>1, <2>3, <2>4
<1> QED
  BY <1>1, <1>2

-----------------------------------------------------------------------------
(* What uniLoader leaves is a tree, and what it hands over a string.       *)
LEMMA DamagedTypes ==
    ASSUME NEW t, Tree(t), NEW u \in Damaged(t)
    PROVE  Tree(u)
<1>1. CASE \E d \in DOMAIN t : u = [n \in DOMAIN t \ {d} |-> t[n]]
  BY <1>1, FS_RemoveElement DEF Tree
<1>2. CASE u = [n \in DOMAIN t \cup {"/odd"} |-> IF n = "/odd" THEN <<>> ELSE t[n]]
  <2>1. IsFiniteSet(DOMAIN t \cup {"/odd"})
    BY FS_AddElement DEF Tree
  <2>2. <<>> \in Seq(Property)
    OBVIOUS
  <2> QED
    BY <1>2, <2>1, <2>2 DEF Tree
<1>3. ASSUME NEW n \in DOMAIN t, NEW q \in Seq(Property), u = [t EXCEPT ![n] = q]
      PROVE  Tree(u)
  BY <1>3 DEF Tree
<1>4. /\ << 9 >> \in Seq(Nat) /\ "odd" \in PropNames
      /\ Odd \in Property
  <2>1. << 9 >> \in Seq(Nat) /\ "odd" \in PropNames
    <3>1. << 9 >> \in Seq(Nat)
      OBVIOUS
    <3>2. "odd" \in PropNames
      BY FdtAssumption
    <3> QED
      BY <3>1, <3>2
  <2> DEFINE nine == << 9 >>
  <2> HIDE DEF nine
  <2>2. [name |-> "odd", val |-> nine] \in Property
    BY <2>1 DEF Property, nine
  <2> QED
    BY <2>1, <2>2 DEF Odd, nine
<1>5. ASSUME NEW n \in DOMAIN t, NEW q,
             \/ q = Append(t[n], Odd)
             \/ \E i \in DOMAIN t[n] :
                  \/ q = RemoveAt(t[n], i)
                  \/ q = Append(t[n], t[n][i])
                  \/ q = [t[n] EXCEPT ![i].val = << 9 >>]
                  \/ q = [t[n] EXCEPT ![i].name = "odd"]
      PROVE  q \in Seq(Property)
  <2>1. t[n] \in Seq(Property)
    BY DEF Tree
  <2>2. CASE q = Append(t[n], Odd)
    BY <1>4, <2>1, <2>2
  <2>3. ASSUME NEW i \in DOMAIN t[n], q = RemoveAt(t[n], i)
        PROVE  q \in Seq(Property)
    BY <2>1, <2>3 DEF RemoveAt
  <2>4. ASSUME NEW i \in DOMAIN t[n], q = Append(t[n], t[n][i])
        PROVE  q \in Seq(Property)
    BY <2>1, <2>4
  <2>5. ASSUME NEW i \in DOMAIN t[n],
               \/ q = [t[n] EXCEPT ![i].val = << 9 >>]
               \/ q = [t[n] EXCEPT ![i].name = "odd"]
        PROVE  q \in Seq(Property)
    <3>1. t[n][i] \in [name : PropNames, val : Seq(Nat)]
      <4>1. t[n][i] \in Property
        BY <2>1
      <4> QED
        BY <4>1 DEF Property
    <3>2. \A v \in Seq(Nat) : [t[n][i] EXCEPT !.val = v] \in Property
      BY <3>1 DEF Property
    <3>3. \A m \in PropNames : [t[n][i] EXCEPT !.name = m] \in Property
      BY <3>1 DEF Property
    <3>4. ASSUME NEW e \in Property, q = [t[n] EXCEPT ![i] = e] PROVE q \in Seq(Property)
      BY <2>1, <3>4
    <3>5. q = [t[n] EXCEPT ![i] = [@ EXCEPT !.val = << 9 >>]]
            \/ q = [t[n] EXCEPT ![i] = [@ EXCEPT !.name = "odd"]]
      BY <2>5
    <3> QED
      BY <1>4, <3>2, <3>3, <3>4, <3>5
  <2> QED
    BY <1>5, <2>2, <2>3, <2>4, <2>5
<1>6. \/ \E d \in DOMAIN t : u = [n \in DOMAIN t \ {d} |-> t[n]]
      \/ u = [n \in DOMAIN t \cup {"/odd"} |-> IF n = "/odd" THEN <<>> ELSE t[n]]
      \/ \E n \in DOMAIN t : \E q : q \in DamagedProps(t[n]) /\ u = [t EXCEPT ![n] = q]
  <2> DEFINE without == {[n \in DOMAIN t \ {d} |-> t[n]] : d \in DOMAIN t \ {"/"}}
             more == [n \in DOMAIN t \cup {"/odd"} |-> IF n = "/odd" THEN <<>> ELSE t[n]]
             changed(n) == {[t EXCEPT ![n] = p] : p \in DamagedProps(t[n])}
  <2>1. u \in without \/ u = more \/ u \in UNION {changed(n) : n \in DOMAIN t}
    <3>1. Damaged(t) = without \cup {more} \cup UNION {changed(n) : n \in DOMAIN t}
      BY DEF Damaged
    <3> HIDE DEF without, more, changed
    <3> QED
      BY <3>1
  <2>2. CASE u \in without
    BY <2>2
  <2>3. CASE u \in UNION {changed(n) : n \in DOMAIN t}
    <3>1. \E n \in DOMAIN t : u \in changed(n)
      <4> HIDE DEF changed
      <4> QED
        BY <2>3
    <3> QED
      BY <3>1
  <2> QED
    BY <2>1, <2>2, <2>3
<1>7. ASSUME NEW n \in DOMAIN t, NEW q \in DamagedProps(t[n])
      PROVE  q \in Seq(Property)
  BY <1>5 DEF DamagedProps
<1> QED
  BY <1>1, <1>2, <1>3, <1>6, <1>7

LEMMA CallTypes ==
    ASSUME Tree(buf), damage \in 0..MaxDamage, NEW t, Tree(t), NEW r \in Calls(t)
    PROVE  Tree(r.tree) /\ r.ok \in BOOLEAN /\ damage + r.hurt \in 0..MaxDamage
<1>1. MaxDamage \in Nat
  BY FdtAssumption
<1>2. CASE r = [tree |-> t, ok |-> Chosen \in DOMAIN t, hurt |-> 0]
  BY <1>1, <1>2
<1>3. CASE r = [tree |-> buf, ok |-> FALSE, hurt |-> 0]
  BY <1>1, <1>3
<1>4. ASSUME damage < MaxDamage, NEW u \in Damaged(t), r = [tree |-> u, ok |-> TRUE, hurt |-> 1]
      PROVE  Tree(r.tree) /\ r.ok \in BOOLEAN /\ damage + r.hurt \in 0..MaxDamage
  BY <1>1, <1>4, DamagedTypes
<1> QED
  BY <1>2, <1>3, <1>4 DEF Calls

LEMMA CstrTypes ==
    ASSUME NEW s \in Seq(Nat)
    PROVE  Cstr(s) \in Seq(Nat)
<1> DEFINE z == s \o <<0>>
           I == {i \in 1..Len(z) : z[i] = 0}
           k == SelectInSeq(z, LAMBDA b : b = 0)
<1>1. k = IF I # {} THEN Min(I) ELSE 0
  BY DEF SelectInSeq
<1>2. Len(s) \in Nat /\ Len(z) = Len(s) + 1 /\ z[Len(s) + 1] = 0
  OBVIOUS
<1>3. I \subseteq Nat /\ I # {}
  BY <1>2
<1>4. PICK j \in I : \A m \in I : j <= m
  BY <1>3, LeastPlace
<1>5. Min(I) \in I
  <2> HIDE DEF I
  <2> QED
    BY <1>4 DEF Min
<1>6. k \in 1..Len(s) + 1
  BY <1>1, <1>2, <1>3, <1>5
<1>7. Cstr(s) = SubSeq(s, 1, k - 1)
  BY DEF Cstr
<1> HIDE DEF k
<1>8. \A i \in 1..k - 1 : s[i] \in Nat
  BY <1>2, <1>6
<1> QED
  BY <1>2, <1>6, <1>7, <1>8

LEMMA CopiedTypes ==
    ASSUME NEW s \in Cmdlines, s = cmdline
    PROVE  Copied \in Seq(Nat)
<1>1. s \in Seq(Nat) /\ Len(s) \in Nat /\ CmdlineMax \in Nat \ {0}
  BY FdtAssumption
<1> DEFINE n == IF Len(s) < CmdlineMax THEN Len(s) ELSE CmdlineMax - 1
<1>2. n \in 0..Len(s)
  BY <1>1
<1>3. Copied = SubSeq(s, 1, n)
  BY DEF Copied
<1> HIDE DEF n
<1> QED
  BY <1>1, <1>2, <1>3

-----------------------------------------------------------------------------
(* What the harness expects of the buffer after step 2, and after step 3.  *)
Initrd == Expect(Expect(Nothing, "initrd-start", << 1 >>), "initrd-end", << 2 >>)
Wanted == Expect(Initrd, "bootargs", Cstr(Copied))

(* As long as nothing has failed, each step has left what the next one     *)
(* compares with: the buffer of the verdict was compared after the last    *)
(* step that touches it, and with a command line that was itself compared. *)
Progress ==
    /\ pc \in {"open", "initrdStart", "initrdEnd"} => expects = Nothing
    /\ pc \in {"copy", "bootargs"} => expects = Initrd
    /\ pc = "bootargs" /\ ~failed => str = Copied
    /\ pc # "open" /\ ~failed => Chosen \in DOMAIN blob
    /\ pc \in {"overlap", "verdict"} /\ ~failed => Matches(blob, buf, Wanted)
    /\ pc = "verdict" /\ ~failed => Ok[memmove]
    /\ result # "none" => pc = "done"
    /\ result = "PASS" =>
          /\ Chosen \in DOMAIN blob /\ Matches(blob, buf, Wanted) /\ Ok[memmove]

IInv == TypeOK /\ Progress

LEMMA Strings ==
    ASSUME TypeOK
    PROVE  /\ [name |-> "initrd-start", val |-> << 1 >>] \in Property
           /\ [name |-> "initrd-end", val |-> << 2 >>] \in Property
           /\ [name |-> "bootargs", val |-> Cstr(str)] \in Property
           /\ [name |-> "bootargs", val |-> Cstr(Copied)] \in Property
<1>1. << 1 >> \in Seq(Nat) /\ << 2 >> \in Seq(Nat)
  OBVIOUS
<1>2. Cstr(str) \in Seq(Nat) /\ Cstr(Copied) \in Seq(Nat)
  BY CstrTypes, CopiedTypes DEF TypeOK
<1> DEFINE one == << 1 >>
           two == << 2 >>
<1> HIDE DEF one, two
<1>3. \A m \in {"initrd-start", "initrd-end", "bootargs"}, v \in Seq(Nat) :
         [name |-> m, val |-> v] \in Property
  BY FdtAssumption DEF Property
<1> QED
  BY <1>1, <1>2, <1>3

(* The three expectations are of three properties.                         *)
LEMMA Expected ==
    ASSUME TypeOK, NEW v, [name |-> "bootargs", val |-> v] \in Property
    PROVE  /\ Pairs(Nothing) /\ DOMAIN Nothing = {}
           /\ Pairs(Expect(Nothing, "initrd-start", << 1 >>))
           /\ <<Chosen, "initrd-end">> \notin DOMAIN Expect(Nothing, "initrd-start", << 1 >>)
           /\ Pairs(Initrd) /\ <<Chosen, "bootargs">> \notin DOMAIN Initrd
           /\ Pairs(Expect(Initrd, "bootargs", v))
<1>1. Pairs(Nothing) /\ DOMAIN Nothing = {}
  BY FS_EmptySet DEF Pairs, Nothing
<1> DEFINE E == Expect(Nothing, "initrd-start", << 1 >>)
<1>2. Pairs(E) /\ DOMAIN E = {<<Chosen, "initrd-start">>}
  <2>1. <<Chosen, "initrd-start">> \notin DOMAIN Nothing
    BY <1>1
  <2> HIDE DEF Nothing
  <2>2. Pairs(E) /\ DOMAIN E = DOMAIN Nothing \cup {<<Chosen, "initrd-start">>}
    BY <1>1, <2>1, ExpectIs, Strings
  <2> QED
    BY <1>1, <2>2
<1>3. <<Chosen, "initrd-end">> \notin DOMAIN E
  BY <1>2
<1> HIDE DEF E
<1>4. Pairs(Initrd)
      /\ DOMAIN Initrd = {<<Chosen, "initrd-start">>} \cup {<<Chosen, "initrd-end">>}
  BY <1>2, <1>3, ExpectIs, Strings DEF Initrd, E
<1>5. <<Chosen, "bootargs">> \notin DOMAIN Initrd
  BY <1>4
<1>6. Pairs(Expect(Initrd, "bootargs", v))
  BY <1>4, <1>5, ExpectIs
<1> QED
  BY <1>1, <1>2, <1>3, <1>4, <1>5, <1>6 DEF E

(* What three fdt_setprop() make of the blob compares equal to it.         *)
LEMMA PatchedMatches ==
    ASSUME TypeOK, Chosen \in DOMAIN blob
    PROVE  Tree(Patched) /\ Matches(blob, Patched, Wanted)
<1> DEFINE t == SetProp(blob, "initrd-start", << 1 >>)
           u == SetProp(t, "initrd-end", << 2 >>)
           E == Expect(Nothing, "initrd-start", << 1 >>)
<1>1. Tree(blob) /\ NamedOnce(blob)
  BY FdtAssumption DEF TypeOK
<1>2. Tree(t) /\ Matches(blob, t, E)
  BY <1>1, UntouchedMatches, Strings, Expected, SetPropTree, SetPropMatches
<1> HIDE DEF t
<1>3. Tree(u) /\ Matches(blob, u, Initrd)
  BY <1>1, <1>2, Strings, Expected, SetPropTree, SetPropMatches DEF Initrd
<1> HIDE DEF u
<1>4. /\ Tree(SetProp(u, "bootargs", Cstr(Copied)))
      /\ Matches(blob, SetProp(u, "bootargs", Cstr(Copied)), Wanted)
  BY <1>1, <1>3, Strings, Expected, SetPropTree, SetPropMatches DEF Wanted
<1> QED
  BY <1>4 DEF Patched, t, u

LEMMA Initially == Init => IInv
<1> SUFFICES ASSUME Init PROVE IInv
  OBVIOUS
<1>1. Tree(buf)
  BY FS_EmptySet DEF Init, Tree
<1>2. <<>> \in Seq(Nat) /\ 0 \in 0..MaxDamage
  BY FdtAssumption
<1>3. TypeOK
  BY <1>1, <1>2 DEF Init, TypeOK
<1> QED
  BY <1>3 DEF Init, IInv, Progress, Nothing

LEMMA ExpectTypes ==
    ASSUME TypeOK, NEW m, NEW v, [name |-> m, val |-> v] \in Property
    PROVE  \A e \in DOMAIN Expect(expects, m, v) :
              e[1] = Chosen /\ Expect(expects, m, v)[e] \in Seq(Nat)
<1>1. DOMAIN Expect(expects, m, v) = DOMAIN expects \cup {<<Chosen, m>>}
  BY DEF Expect
<1>2. v \in Seq(Nat)
  BY DEF Property
<1> QED
  BY <1>1, <1>2 DEF Expect, TypeOK

LEMMA OpenKeeps == IInv /\ Open => IInv'
<1> SUFFICES ASSUME IInv, Open PROVE IInv'
  OBVIOUS
<1>1. Tree(blob) /\ NamedOnce(blob) /\ Tree(buf) /\ damage \in 0..MaxDamage
  BY FdtAssumption DEF IInv, TypeOK
<1>2. PICK r \in Calls(blob) :
        /\ buf' = r.tree /\ damage' = damage + r.hurt
        /\ failed' = (~r.ok \/ ~Matches(blob, r.tree, expects)
                        \/ Chosen \notin DOMAIN r.tree)
        /\ pc' = IF r.ok /\ Chosen \in DOMAIN r.tree THEN "initrdStart" ELSE "verdict"
  BY DEF Open
<1>3. Tree(r.tree) /\ r.ok \in BOOLEAN /\ damage + r.hurt \in 0..MaxDamage
  BY <1>1, CallTypes
<1>4. TypeOK'
  <2>1. failed' \in BOOLEAN /\ pc' \in {"initrdStart", "verdict"}
    BY <1>2
  <2>2. Tree(buf')
    BY <1>2, <1>3
  <2> QED
    BY <1>2, <1>3, <2>1, <2>2 DEF IInv, TypeOK, Open, given, Tree
<1>5. ~failed' => Chosen \in DOMAIN blob /\ pc' = "initrdStart"
  <2> SUFFICES ASSUME ~failed' PROVE Chosen \in DOMAIN blob /\ pc' = "initrdStart"
    OBVIOUS
  <2>1. r.ok /\ Matches(blob, r.tree, expects) /\ Chosen \in DOMAIN r.tree
    BY <1>2
  <2>2. expects = Nothing /\ Pairs(Nothing)
    BY Expected, Strings DEF IInv, Progress, Open
  <2>3. DOMAIN r.tree = DOMAIN blob
    BY <1>1, <1>3, <2>1, <2>2, MatchesAgree
  <2> QED
    BY <1>2, <2>1, <2>3
<1>6. Progress'
  <2>1. pc' \in {"initrdStart", "verdict"} /\ result' = result /\ result = "none"
    BY <1>2 DEF Open, IInv, TypeOK, Progress
  <2>2. expects' = Nothing /\ blob' = blob
    BY DEF Open, given, IInv, Progress
  <2> QED
    BY <1>5, <2>1, <2>2 DEF Progress
<1> QED
  BY <1>4, <1>6 DEF IInv

LEMMA InitrdStartKeeps == IInv /\ InitrdStart => IInv'
<1> SUFFICES ASSUME IInv, InitrdStart PROVE IInv'
  OBVIOUS
<1> DEFINE t == SetProp(buf, "initrd-start", << 1 >>)
<1>1. Tree(t) /\ Tree(buf) /\ damage \in 0..MaxDamage
  BY SetPropTree, Strings DEF IInv, TypeOK
<1>2. PICK r \in Calls(t) :
        /\ buf' = r.tree /\ damage' = damage + r.hurt
        /\ failed' = (failed \/ ~r.ok)
  BY DEF InitrdStart
<1> HIDE DEF t
<1>3. Tree(r.tree) /\ damage + r.hurt \in 0..MaxDamage
  BY <1>1, CallTypes
<1>4. TypeOK'
  <2>1. failed' \in BOOLEAN /\ Tree(buf')
    BY <1>2, <1>3
  <2> QED
    BY <1>2, <1>3, <2>1 DEF IInv, TypeOK, InitrdStart, given, Tree
<1>5. ~failed' => ~failed
  BY <1>2
<1>6. Progress'
  BY <1>5 DEF IInv, TypeOK, Progress, InitrdStart, given
<1> QED
  BY <1>4, <1>6 DEF IInv

LEMMA InitrdEndKeeps == IInv /\ InitrdEnd => IInv'
<1> SUFFICES ASSUME IInv, InitrdEnd PROVE IInv'
  OBVIOUS
<1> DEFINE t == SetProp(buf, "initrd-end", << 2 >>)
<1>1. Tree(t) /\ Tree(buf) /\ damage \in 0..MaxDamage
  BY SetPropTree, Strings DEF IInv, TypeOK
<1>2. PICK r \in Calls(t) :
        /\ buf' = r.tree /\ damage' = damage + r.hurt
        /\ failed' = (failed \/ ~r.ok \/ ~Matches(blob, r.tree, expects'))
  BY DEF InitrdEnd
<1> HIDE DEF t
<1>3. Tree(r.tree) /\ damage + r.hurt \in 0..MaxDamage
  BY <1>1, CallTypes
<1>4. expects' = Initrd
  BY DEF InitrdEnd, IInv, Progress, Initrd
<1>5. \A e \in DOMAIN Initrd : e[1] = Chosen /\ Initrd[e] \in Seq(Nat)
  <2> DEFINE E == Expect(Nothing, "initrd-start", << 1 >>)
  <2>1. DOMAIN E = {<<Chosen, "initrd-start">>}
    BY DEF Expect, Nothing
  <2>2. E[<<Chosen, "initrd-start">>] = << 1 >>
    BY DEF Expect
  <2>3. DOMAIN Initrd = DOMAIN E \cup {<<Chosen, "initrd-end">>}
    BY DEF Expect, Initrd
  <2> HIDE DEF E
  <2>4. \A e \in DOMAIN Initrd : Initrd[e] = << 2 >> \/ Initrd[e] = << 1 >>
    BY <2>1, <2>2, <2>3 DEF Expect, Initrd, E
  <2>5. << 1 >> \in Seq(Nat) /\ << 2 >> \in Seq(Nat)
    OBVIOUS
  <2> QED
    BY <2>1, <2>3, <2>4, <2>5, SMTT(30)
<1>6. TypeOK'
  <2>1. failed' \in BOOLEAN /\ Tree(buf')
    BY <1>2, <1>3
  <2> QED
    BY <1>2, <1>3, <1>4, <1>5, <2>1 DEF IInv, TypeOK, InitrdEnd, given, Tree
<1>7. ~failed' => ~failed
  BY <1>2
<1>8. Progress'
  BY <1>4, <1>7 DEF IInv, TypeOK, Progress, InitrdEnd, given
<1> QED
  BY <1>6, <1>8 DEF IInv

LEMMA CopyKeeps == IInv /\ Copy => IInv'
<1> SUFFICES ASSUME IInv, Copy PROVE IInv'
  OBVIOUS
<1>1. Copied \in Seq(Nat) /\ MaxDamage \in Nat
  BY CopiedTypes, FdtAssumption DEF IInv, TypeOK
<1>2. /\ str' \in Seq(Nat) /\ damage' \in 0..MaxDamage /\ failed' \in BOOLEAN
      /\ ~failed' => ~failed /\ str' = Copied
  <2>1. CASE str' = Copied /\ UNCHANGED <<damage, failed>>
    BY <1>1, <2>1 DEF IInv, TypeOK
  <2>2. ASSUME damage < MaxDamage, damage' = damage + 1,
               NEW i \in DOMAIN Copied, NEW b \in {0, 9}, str' = [Copied EXCEPT ![i] = b],
               failed' = (failed \/ str' # Copied)
        PROVE  /\ str' \in Seq(Nat) /\ damage' \in 0..MaxDamage /\ failed' \in BOOLEAN
               /\ ~failed' => ~failed /\ str' = Copied
    <3>1. str' \in Seq(Nat)
      BY <1>1, <2>2
    <3>2. damage' \in 0..MaxDamage
      BY <1>1, <2>2 DEF IInv, TypeOK
    <3> QED
      BY <2>2, <3>1, <3>2
  <2> QED
    BY <2>1, <2>2 DEF Copy
<1>3. TypeOK'
  BY <1>2 DEF IInv, TypeOK, Copy, given, Tree
<1>4. Copied' = Copied
  BY DEF Copied, Copy, given
<1>5. Progress'
  BY <1>2, <1>4 DEF IInv, TypeOK, Progress, Copy, given
<1> QED
  BY <1>3, <1>5 DEF IInv

LEMMA BootargsKeeps == IInv /\ Bootargs => IInv'
<1> SUFFICES ASSUME IInv, Bootargs PROVE IInv'
  OBVIOUS
<1> DEFINE t == SetProp(buf, "bootargs", Cstr(str))
<1>1. Tree(t) /\ Tree(buf) /\ damage \in 0..MaxDamage
  BY SetPropTree, Strings DEF IInv, TypeOK
<1>2. PICK r \in Calls(t) :
        /\ buf' = r.tree /\ damage' = damage + r.hurt
        /\ failed' = (failed \/ ~r.ok \/ ~Matches(blob, r.tree, expects'))
  BY DEF Bootargs
<1> HIDE DEF t
<1>3. Tree(r.tree) /\ damage + r.hurt \in 0..MaxDamage
  BY <1>1, CallTypes
<1>4. expects' = Expect(expects, "bootargs", Cstr(str))
  BY DEF Bootargs
<1>5. TypeOK'
  <2>1. failed' \in BOOLEAN /\ Tree(buf')
    BY <1>2, <1>3
  <2>2. \A e \in DOMAIN expects' : e[1] = Chosen /\ expects'[e] \in Seq(Nat)
    BY <1>4, ExpectTypes, Strings DEF IInv
  <2> QED
    BY <1>2, <1>3, <2>1, <2>2 DEF IInv, TypeOK, Bootargs, given, Tree
<1>6. ~failed' => ~failed /\ Matches(blob, buf', Wanted)
  <2> SUFFICES ASSUME ~failed' PROVE ~failed /\ Matches(blob, buf', Wanted)
    OBVIOUS
  <2>1. ~failed /\ Matches(blob, buf', expects')
    BY <1>2
  <2>2. expects' = Wanted
    BY <1>4, <2>1 DEF IInv, Progress, Bootargs, Wanted
  <2> QED
    BY <2>1, <2>2
<1>7. Wanted' = Wanted
  BY DEF Wanted, Initrd, Nothing, Copied, Bootargs, given
<1>8. Progress'
  BY <1>6, <1>7 DEF IInv, TypeOK, Progress, Bootargs, given
<1> QED
  BY <1>5, <1>8 DEF IInv

(* The rest leaves the buffer alone.                                       *)
LEMMA EndKeeps == IInv /\ (Overlap \/ Fault \/ Verdict) => IInv'
<1> SUFFICES ASSUME IInv, Overlap \/ Fault \/ Verdict PROVE IInv'
  OBVIOUS
<1>1. UNCHANGED <<given, buf, str, expects, damage>>
  BY DEF Overlap, Fault, Verdict
<1>2. Wanted' = Wanted
  BY <1>1 DEF Wanted, Initrd, Nothing, Copied, given
<1>3. (Ok[memmove])' = Ok[memmove]
  BY <1>1 DEF given, Ok
<1>4. CASE Overlap
  <2>1. failed' \in BOOLEAN
    BY <1>4 DEF Overlap, IInv, TypeOK
  <2>2. ~failed' => ~failed /\ Ok[memmove]
    BY <1>4 DEF Overlap
  <2>3. TypeOK'
    BY <1>1, <1>4, <2>1 DEF IInv, TypeOK, Overlap, given, Tree
  <2>4. Progress'
    BY <1>1, <1>2, <1>3, <1>4, <2>2 DEF IInv, Progress, Overlap, given
  <2> QED
    BY <2>3, <2>4 DEF IInv
<1>5. CASE Fault
  <2>1. TypeOK'
    BY <1>1, <1>5 DEF IInv, TypeOK, Fault, given, Tree
  <2>2. Progress'
    BY <1>1, <1>2, <1>3, <1>5 DEF IInv, Progress, Fault, given
  <2> QED
    BY <2>1, <2>2 DEF IInv
<1>6. CASE Verdict
  <2>1. TypeOK'
    BY <1>1, <1>6 DEF IInv, TypeOK, Verdict, given, Tree
  <2>2. Progress'
    BY <1>1, <1>2, <1>3, <1>6 DEF IInv, Progress, Verdict, given
  <2> QED
    BY <2>1, <2>2 DEF IInv
<1> QED
  BY <1>4, <1>5, <1>6

LEMMA Inductive == IInv /\ [Next]_vars => IInv'
<1> SUFFICES ASSUME IInv, [Next]_vars PROVE IInv'
  OBVIOUS
<1>1. CASE UNCHANGED vars
  <2>1. Wanted' = Wanted
    BY <1>1 DEF vars, given, Wanted, Initrd, Nothing, Copied
  <2>2. (Ok[memmove])' = Ok[memmove]
    BY <1>1 DEF vars, given, Ok
  <2>3. TypeOK'
    BY <1>1 DEF IInv, TypeOK, vars, given, Tree
  <2>4. Copied' = Copied
    BY <1>1 DEF vars, given, Copied
  <2>5. Progress'
    BY <1>1, <2>1, <2>2, <2>4 DEF IInv, Progress, vars, given
  <2> QED
    BY <2>3, <2>5 DEF IInv
<1>2. CASE Next
  BY <1>2, OpenKeeps, InitrdStartKeeps, InitrdEndKeeps, CopyKeeps, BootargsKeeps, EndKeeps
     DEF Next
<1> QED
  BY <1>1, <1>2

LEMMA Invariance == Spec => []IInv
  BY Initially, Inductive, PTL DEF Spec

(* What the harness works on is a tree after every step, however uniLoader *)
(* damages it.                                                             *)
THEOREM TypeCorrect == Spec => []TypeOK
<1>1. IInv => TypeOK
  BY DEF IInv
<1> QED
  BY <1>1, Invariance, PTL

(* A PASS is given only to the blob patched as meant, for any blob, any    *)
(* command line and any number of wrong doings: compare_trees() and the    *)
(* check of the copy leave nothing to hide behind.                         *)
THEOREM PassIsPatched == Spec => []PassMeansPatched
<1>1. IInv => PassMeansPatched
  <2> SUFFICES ASSUME IInv, result = "PASS"
               PROVE  /\ DOMAIN buf = DOMAIN blob
                      /\ \A n \in DOMAIN blob :
                           Len(buf[n]) = Len(Patched[n]) /\ ToSet(buf[n]) = ToSet(Patched[n])
    BY DEF PassMeansPatched
  <2>1. /\ Tree(blob) /\ NamedOnce(blob) /\ Tree(buf)
        /\ Chosen \in DOMAIN blob /\ Matches(blob, buf, Wanted)
    BY FdtAssumption DEF IInv, TypeOK, Progress
  <2>2. Tree(Patched) /\ Matches(blob, Patched, Wanted)
    BY <2>1, PatchedMatches DEF IInv
  <2>3. Pairs(Wanted)
    BY Strings, Expected DEF IInv, Wanted
  <2> QED
    BY <2>1, <2>2, <2>3, MatchesAgree
<1> QED
  BY <1>1, Invariance, PTL

-----------------------------------------------------------------------------
(* The overlap cases.                                                      *)
OverlapCase == [delta : Int, n : Nat, base : Nat]

(* Bytes of the pattern are equal only a multiple of 256 apart.            *)
LEMMA PatternTells ==
    ASSUME NEW x \in Int, NEW y \in Int, Pattern(x) = Pattern(y)
    PROVE  (x - y) % 256 = 0
  BY DEF Pattern

LEMMA Quotients ==
    ASSUME NEW s \in Nat \ {0}
    PROVE  /\ s % s = 0 /\ s \div s = 1
           /\ \A i \in 0..s - 1 : i % s = i /\ i \div s = 0
<1>1. s % s = 0 /\ s \div s = 1
  OBVIOUS
<1>2. ASSUME NEW i \in 0..s - 1 PROVE i % s = i /\ i \div s = 0
  OBVIOUS
<1> QED
  BY <1>1, <1>2

(* The byte loop of the harness never reads what it has written.           *)
LEMMA ReferenceMoves ==
    ASSUME NEW c \in OverlapCase, NEW i \in Int
    PROVE  Reference(c, i) = i
  BY DEF Reference, Source, OverlapCase

(* A loop upwards that overlaps its source goes wrong at the place where   *)
(* it first reads what it wrote, one step above the start ...              *)
LEMMA UpShows ==
    ASSUME NEW c \in OverlapCase, c.delta % 256 # 0,
           \A k \in 0..c.n - 1 :
              Pattern(c.base + Source(TRUE, c, k)) = Pattern(c.base + k)
    PROVE  \A i \in 0..c.n - 1 : Source(TRUE, c, i) = i
<1>1. PICK s \in Int, n \in Nat, b \in Nat : c.delta = s /\ c.n = n /\ c.base = b
  BY DEF OverlapCase
<1>2. CASE ~(s > 0)
  BY <1>1, <1>2 DEF Source
<1>3. CASE s > 0
  <2>1. \A k : Source(TRUE, c, k) = k % s
    BY <1>1, <1>3 DEF Source
  <2>2. s \in Nat \ {0}
    BY <1>1, <1>3
  <2>3. \A k \in 0..n - 1 : Pattern(b + (k % s)) = Pattern(b + k)
    BY <1>1, <2>1
  <2>4. ~(s < n)
    <3> SUFFICES ASSUME s < n PROVE FALSE
      OBVIOUS
    <3>1. Pattern(b + (s % s)) = Pattern(b + s)
      BY <1>1, <2>2, <2>3
    <3>2. b + (s % s) = b
      BY <1>1, <2>2, Quotients
    <3>3. ((b + s) - b) % 256 = 0
      BY <1>1, <3>1, <3>2, PatternTells
    <3>4. (b + s) - b = s
      BY <1>1
    <3> QED
      BY <1>1, <3>3, <3>4
  <2>5. \A i \in 0..n - 1 : i % s = i
    <3> TAKE i \in 0..n - 1
    <3>1. i \in 0..s - 1
      BY <1>1, <2>4
    <3> QED
      BY <2>2, <3>1, Quotients
  <2> QED
    BY <1>1, <2>1, <2>5
<1> QED
  BY <1>2, <1>3

(* ... and one downwards one step below the end.                           *)
LEMMA DownShows ==
    ASSUME NEW c \in OverlapCase, c.delta % 256 # 0,
           \A k \in 0..c.n - 1 :
              Pattern(c.base + Source(FALSE, c, k)) = Pattern(c.base + k)
    PROVE  \A i \in 0..c.n - 1 : Source(FALSE, c, i) = i
<1>1. PICK d \in Int, n \in Nat, b \in Nat : c.delta = d /\ c.n = n /\ c.base = b
  BY DEF OverlapCase
<1>2. CASE ~(d < 0)
  BY <1>1, <1>2 DEF Source
<1>3. CASE d < 0
  <2>1. PICK s \in Nat \ {0} : s = -d
    BY <1>1, <1>3
  <2>2. \A k : Source(FALSE, c, k) = k + s * ((n - 1 - k) \div s)
    BY <1>1, <1>3, <2>1 DEF Source
  <2>3. \A k \in 0..n - 1 : Pattern(b + (k + s * ((n - 1 - k) \div s))) = Pattern(b + k)
    BY <1>1, <2>2
  <2>4. ~(s < n)
    <3> SUFFICES ASSUME s < n PROVE FALSE
      OBVIOUS
    <3>1. PICK k \in 0..n - 1 : n - 1 - k = s
      <4>1. n - 1 - s \in 0..n - 1 /\ n - 1 - (n - 1 - s) = s
        BY <1>1, <2>1
      <4> QED
        BY <4>1
    <3>2. Pattern(b + (k + s * (s \div s))) = Pattern(b + k)
      BY <2>3, <3>1
    <3>3. s * (s \div s) = s
      <4>1. s \div s = 1
        BY Quotients
      <4> QED
        BY <4>1
    <3>4. ((b + (k + s)) - (b + k)) % 256 = 0
      BY <1>1, <3>2, <3>3, PatternTells
    <3>5. (b + (k + s)) - (b + k) = -d
      BY <1>1, <2>1
    <3>6. (-d) % 256 = 0
      BY <3>4, <3>5
    <3> QED
      BY <1>1, <3>6
  <2>5. ASSUME NEW i \in 0..n - 1 PROVE i + s * ((n - 1 - i) \div s) = i
    <3>1. n - 1 - i \in 0..s - 1
      BY <1>1, <2>4
    <3>2. (n - 1 - i) \div s = 0
      BY <3>1, Quotients
    <3> QED
      BY <3>2
  <2> QED
    BY <1>1, <2>2, <2>5
<1> QED
  BY <1>2, <1>3

(* A byte that is not moved is told from the one that belongs there.       *)
LEMMA IdleShows ==
    ASSUME NEW c \in OverlapCase, c.delta % 256 # 0, NEW i \in 0..c.n - 1
    PROVE  Pattern(c.base + c.delta + i) # Pattern(c.base + i)
<1>1. c.delta \in Int /\ c.n \in Nat /\ c.base \in Nat /\ i \in Int
  BY DEF OverlapCase
<1>2. (c.base + c.delta + i) - (c.base + i) = c.delta
  BY <1>1
<1> QED
  BY <1>1, <1>2, PatternTells

(* A case that passes, and can tell, was moved right, every byte of it.    *)
LEMMA CaseShows ==
    ASSUME NEW m \in Memmoves, NEW c \in OverlapCase, c.delta % 256 # 0, CaseOk(m, c),
           NEW i \in 0..c.n - 1
    PROVE  Moves(m, c, i) = i
<1>1. c.delta \in Int /\ c.n \in Nat /\ c.base \in Nat
  BY DEF OverlapCase
<1>2. \A k \in 0..c.n - 1 :
         Pattern(IF Moves(m, c, k) = -1 THEN c.base + c.delta + k
                 ELSE c.base + Moves(m, c, k)) = Pattern(c.base + k)
  BY ReferenceMoves DEF CaseOk
<1>3. \A k \in 0..c.n - 1 :
         Moves(m, c, k) # -1 /\ Pattern(c.base + Moves(m, c, k)) = Pattern(c.base + k)
  BY <1>2, IdleShows
<1>4. CASE m = "right"
  BY <1>4 DEF Moves
<1>5. CASE m = "up" \/ (m = "wrongWay" /\ c.delta > 0)
  <2>1. \A k : Moves(m, c, k) = Source(TRUE, c, k)
    BY <1>5 DEF Moves
  <2> QED
    BY <1>3, <2>1, UpShows
<1>6. CASE m = "down" \/ (m = "wrongWay" /\ ~(c.delta > 0))
  <2>1. (c.delta > 0) \in BOOLEAN
    BY <1>1
  <2>2. m = "wrongWay" => (c.delta > 0) = FALSE
    BY <1>6, <2>1
  <2>3. \A k : Moves(m, c, k) = Source(FALSE, c, k)
    BY <1>6, <2>2 DEF Moves
  <2> QED
    BY <1>3, <2>3, DownShows
<1>7. CASE m \in {"short", "idleAligned", "idleApart", "idleAlignedApart"}
  <2>1. Moves(m, c, i) = i \/ Moves(m, c, i) = -1
    BY <1>7 DEF Moves
  <2> QED
    BY <1>3, <2>1
<1> QED
  BY <1>4, <1>5, <1>6, <1>7, FdtAssumption

(* A PASS is given only with a memmove that moves every byte of every case *)
(* whose distance is no multiple of 256, for any cases: in each way it can *)
(* go wrong, the pattern has a byte that tells.                            *)
THEOREM PassIsMoved == Spec => []PassMeansMoved
<1>1. IInv => PassMeansMoved
  <2> SUFFICES ASSUME IInv, result = "PASS"
               PROVE  memmove \in MovesAll
    BY DEF PassMeansMoved
  <2>1. memmove \in Memmoves /\ Ok[memmove]
    BY DEF IInv, TypeOK, Progress
  <2>2. \A k \in DOMAIN Cases : CaseOk(memmove, Cases[k])
    BY <2>1 DEF Ok
  <2>3. ASSUME NEW k \in Tells PROVE Cases[k] \in OverlapCase /\ Cases[k].delta % 256 # 0
    <3>1. Cases \in Seq([delta : Int, n : Nat, base : Nat]) /\ k \in DOMAIN Cases
      BY FdtAssumption DEF Tells
    <3>2. ASSUME NEW S, Cases \in Seq(S) PROVE Cases[k] \in S
      BY <3>1, <3>2
    <3> QED
      BY <3>1, <3>2 DEF Tells, OverlapCase
  <2> QED
    BY <2>1, <2>2, <2>3, CaseShows DEF MovesAll, Tells
<1> QED
  BY <1>1, Invariance, PTL
=============================================================================
