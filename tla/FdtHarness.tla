----------------------------- MODULE FdtHarness -----------------------------
(***************************************************************************)
(* tools/uniloader-fdt-harness: the harness runs uniLoader's own patching  *)
(* of the device tree, step by step, and after each step compares the      *)
(* buffer with the blob it came from; then it tries uniLoader's memmove.   *)
(* What it runs may do the wrong thing: a verdict of PASS is worth what    *)
(* the comparisons notice.                                                 *)
(*                                                                         *)
(* A tree maps the full path of a node to the sequence of its properties,  *)
(* in which a name may be repeated.  Left out: the output, the depth and   *)
(* the length of paths, and the sizes of the buffer, which show as calls   *)
(* that fail.                                                              *)
(***************************************************************************)
EXTENDS Integers, Sequences, FiniteSets, SequencesExt

CONSTANTS
    PropNames,      \* names of properties
    Blobs,          \* trees uniLoader may be given
    Cmdlines,       \* and command lines, sequences of bytes
    CmdlineMax,
    Cases,          \* the overlap cases: [delta, n, base]
    Memmoves,       \* ways memmove may go about it
    MaxDamage       \* bound: wrong doings of uniLoader's functions

Chosen == "/chosen"

Property == [name : PropNames, val : Seq(Nat)]

Tree(t) == IsFiniteSet(DOMAIN t) /\ t \in [DOMAIN t -> Seq(Property)]

(* A node of a blob names a property once, which dtc sees to.              *)
NamedOnce(t) ==
    \A n \in DOMAIN t : \A i, j \in DOMAIN t[n] : t[n][i].name = t[n][j].name => i = j

ASSUME FdtAssumption ==
    /\ {"initrd-start", "initrd-end", "bootargs", "odd"} \subseteq PropNames
    /\ \A b \in Blobs : Tree(b) /\ NamedOnce(b)
    /\ Cmdlines \subseteq Seq(Nat)
    /\ CmdlineMax \in Nat \ {0}
    /\ Cases \in Seq([delta : Int, n : Nat, base : Nat])
    /\ Memmoves \subseteq {"right", "up", "down", "wrongWay", "short", "idleAligned",
                           "idleApart", "idleAlignedApart"}
    /\ MaxDamage \in Nat

VARIABLES
    pc, platform, blob, cmdline, memmove,
    buf,            \* fdt_buf
    str, expects, failed, result,
    damage

vars == <<pc, platform, blob, cmdline, memmove, buf, str, expects, failed, result,
          damage>>
given == <<platform, blob, cmdline, memmove>>

-----------------------------------------------------------------------------
(* libfdt, as the harness uses it.                                         *)
First(props, name) == SelectInSeq(props, LAMBDA p : p.name = name)
Has(props, name) == First(props, name) # 0
Value(props, name) == props[First(props, name)].val

SetProp(tree, name, val) ==
    LET new == [name |-> name, val |-> val]
        old == First(tree[Chosen], name)
    IN  IF Chosen \notin DOMAIN tree THEN tree
        ELSE [tree EXCEPT ![Chosen] = IF old = 0 THEN <<new>> \o @
                                      ELSE ReplaceAt(@, old, new)]

(* The bytes of a C string before its NUL.                                 *)
Cstr(s) == SubSeq(s, 1, SelectInSeq(s \o <<0>>, LAMBDA b : b = 0) - 1)

-----------------------------------------------------------------------------
(* compare_trees() finds nothing: only what is expected has changed in b,  *)
(* or is new there.                                                        *)
NewAt(a, node, exp) == {e \in DOMAIN exp : e[1] = node /\ ~Has(a[node], e[2])}

Holds(b, node, name, val) == Has(b[node], name) /\ Value(b[node], name) = val

SameProps(a, b, node, exp) ==
    /\ \A i \in DOMAIN a[node] :
         LET p == a[node][i]
             e == <<node, p.name>>
         IN  Holds(b, node, p.name, IF e \in DOMAIN exp THEN exp[e] ELSE p.val)
    /\ \A e \in NewAt(a, node, exp) : Holds(b, node, e[2], exp[e])

(* Broken form: the properties of a node are not counted.                  *)
MatchesUncounted(a, b, exp) ==
    /\ Cardinality(DOMAIN b) = Cardinality(DOMAIN a)
    /\ \A node \in DOMAIN a : node \in DOMAIN b /\ SameProps(a, b, node, exp)

Matches(a, b, exp) ==
    /\ Cardinality(DOMAIN b) = Cardinality(DOMAIN a)
    /\ \A node \in DOMAIN a :
         /\ node \in DOMAIN b
         /\ SameProps(a, b, node, exp)
         /\ Len(b[node]) = Len(a[node]) + Cardinality(NewAt(a, node, exp))

Expect(exp, name, val) ==
    [e \in DOMAIN exp \cup {<<Chosen, name>>} |-> IF e[2] = name THEN val ELSE exp[e]]

-----------------------------------------------------------------------------
(* overlap_case().  A byte loop that runs into what it has written repeats *)
(* it; Source is where the byte for the i-th place of the destination      *)
(* comes from, in the region to be moved.                                  *)
Pattern(k) == (k * 7 + 3) % 256

Source(up, c, i) ==
    LET step == IF c.delta > 0 THEN c.delta ELSE -c.delta
    IN  IF up /\ c.delta > 0 THEN i % step
        ELSE IF ~up /\ c.delta < 0 THEN i + step * ((c.n - 1 - i) \div step)
        ELSE i

Overlaps(c) == c.delta < c.n /\ -c.delta < c.n
Aligned(c) == c.delta % 8 = 0 /\ c.n % 8 = 0 /\ c.base % 8 = 0

(* memmove, right or wrong; -1 for a byte it does not write.               *)
Moves(m, c, i) ==
    CASE m = "right" -> i
      [] m = "up" -> Source(TRUE, c, i)
      [] m = "down" -> Source(FALSE, c, i)
      [] m = "wrongWay" -> Source(c.delta > 0, c, i)
      [] m = "short" -> IF i = c.n - 1 THEN -1 ELSE i
      [] m = "idleAligned" -> IF Aligned(c) /\ Overlaps(c) THEN -1 ELSE i
      [] m = "idleApart" -> IF Overlaps(c) THEN i ELSE -1
      [] m = "idleAlignedApart" -> IF Aligned(c) /\ ~Overlaps(c) THEN -1 ELSE i

(* Broken form: the reference copies towards itself.                       *)
ReferenceTowards(c, i) == Source(c.delta > 0, c, i)

Reference(c, i) == Source(c.delta <= 0, c, i)

(* The two arrays are equal.                                               *)
CaseOk(m, c) ==
    \A i \in 0..c.n - 1 :
        LET j == Moves(m, c, i)
        IN  Pattern(IF j = -1 THEN c.base + c.delta + i ELSE c.base + j)
              = Pattern(c.base + Reference(c, i))

Ok == [m \in Memmoves |-> \A k \in DOMAIN Cases : CaseOk(m, Cases[k])]

-----------------------------------------------------------------------------
(* uniLoader's functions.  One may do what it is called for, fail and      *)
(* leave the buffer, or say that all is well and leave it damaged.         *)
Odd == [name |-> "odd", val |-> <<9>>]

DamagedProps(props) ==
    {Append(props, Odd)}
    \cup {RemoveAt(props, i) : i \in DOMAIN props}
    \cup {Append(props, props[i]) : i \in DOMAIN props}
    \cup {[props EXCEPT ![i].val = <<9>>] : i \in DOMAIN props}
    \cup {[props EXCEPT ![i].name = "odd"] : i \in DOMAIN props}

Damaged(tree) ==
    {[n \in DOMAIN tree \ {d} |-> tree[n]] : d \in DOMAIN tree \ {"/"}}
    \cup {[n \in DOMAIN tree \cup {"/odd"} |-> IF n = "/odd" THEN <<>> ELSE tree[n]]}
    \cup UNION {{[tree EXCEPT ![n] = p] : p \in DamagedProps(tree[n])} : n \in DOMAIN tree}

Calls(want) ==
    {[tree |-> want, ok |-> Chosen \in DOMAIN want, hurt |-> 0],
     [tree |-> buf, ok |-> FALSE, hurt |-> 0]}
    \cup {[tree |-> t, ok |-> TRUE, hurt |-> 1] :
            t \in IF damage < MaxDamage THEN Damaged(want) ELSE {}}

Init ==
    /\ pc = "open"
    /\ platform \in {"linux", "virt"}
    /\ blob \in Blobs /\ cmdline \in Cmdlines /\ memmove \in Memmoves
    /\ buf = [n \in {} |-> <<>>] /\ str = <<>>
    /\ expects = [e \in {} |-> <<>>]
    /\ failed = FALSE /\ result = "none"
    /\ damage = 0

(* fdt_open_into() fails, or there is no /chosen to patch: that is all.    *)
Open ==
    /\ pc = "open"
    /\ \E r \in Calls(blob) :
         /\ buf' = r.tree /\ damage' = damage + r.hurt
         /\ failed' = (~r.ok \/ ~Matches(blob, r.tree, expects)
                       \/ Chosen \notin DOMAIN r.tree)
         /\ pc' = IF r.ok /\ Chosen \in DOMAIN r.tree THEN "initrdStart"
                  ELSE "verdict"
    /\ UNCHANGED <<given, str, expects, result>>

InitrdStart ==
    /\ pc = "initrdStart" /\ pc' = "initrdEnd"
    /\ \E r \in Calls(SetProp(buf, "initrd-start", <<1>>)) :
         /\ buf' = r.tree /\ damage' = damage + r.hurt
         /\ failed' = (failed \/ ~r.ok)
    /\ UNCHANGED <<given, str, expects, result>>

InitrdEnd ==
    /\ pc = "initrdEnd" /\ pc' = "copy"
    /\ expects' = Expect(Expect(expects, "initrd-start", <<1>>), "initrd-end", <<2>>)
    /\ \E r \in Calls(SetProp(buf, "initrd-end", <<2>>)) :
         /\ buf' = r.tree /\ damage' = damage + r.hurt
         /\ failed' = (failed \/ ~r.ok \/ ~Matches(blob, r.tree, expects'))
    /\ UNCHANGED <<given, str, result>>

(* The command line goes through str, which ends in a NUL.                 *)
Copied == SubSeq(cmdline, 1, IF Len(cmdline) < CmdlineMax THEN Len(cmdline)
                             ELSE CmdlineMax - 1)

Copy ==
    /\ pc = "copy" /\ pc' = "bootargs"
    /\ \/ str' = Copied /\ UNCHANGED <<damage, failed>>
       \/ /\ damage < MaxDamage /\ damage' = damage + 1
          /\ \E i \in DOMAIN Copied, b \in {0, 9} : str' = [Copied EXCEPT ![i] = b]
          /\ failed' = (failed \/ str' # Copied)
    /\ UNCHANGED <<given, buf, expects, result>>

(* What is expected of bootargs is what str holds; that bootargs reads     *)
(* back is checked once more.                                              *)
Bootargs ==
    /\ pc = "bootargs" /\ pc' = "overlap"
    /\ expects' = Expect(expects, "bootargs", Cstr(str))
    /\ \E r \in Calls(SetProp(buf, "bootargs", Cstr(str))) :
         /\ buf' = r.tree /\ damage' = damage + r.hurt
         /\ failed' = (failed \/ ~r.ok \/ ~Matches(blob, r.tree, expects'))
    /\ UNCHANGED <<given, str, result>>

Overlap ==
    /\ pc = "overlap" /\ pc' = "verdict"
    /\ failed' = (failed \/ ~Ok[memmove])
    /\ UNCHANGED <<given, buf, str, expects, result, damage>>

(* With the MMU off memcpy.S may take an alignment fault.                  *)
Fault ==
    /\ pc \in {"copy", "overlap"} /\ platform = "virt"
    /\ pc' = "done" /\ result' = "FAULT"
    /\ UNCHANGED <<given, buf, str, expects, failed, damage>>

Verdict ==
    /\ pc = "verdict" /\ pc' = "done"
    /\ result' = IF failed THEN "FAIL" ELSE "PASS"
    /\ UNCHANGED <<given, buf, str, expects, failed, damage>>

Next == \/ Open \/ InitrdStart \/ InitrdEnd \/ Copy \/ Bootargs \/ Overlap
        \/ Fault \/ Verdict

Spec == Init /\ [][Next]_vars

-----------------------------------------------------------------------------
TypeOK ==
    /\ pc \in {"open", "initrdStart", "initrdEnd", "copy", "bootargs", "overlap",
              "verdict", "done"}
    /\ platform \in {"linux", "virt"}
    /\ blob \in Blobs /\ cmdline \in Cmdlines /\ memmove \in Memmoves
    /\ Tree(buf) /\ str \in Seq(Nat)
    /\ \A e \in DOMAIN expects : e[1] = Chosen /\ expects[e] \in Seq(Nat)
    /\ failed \in BOOLEAN /\ result \in {"none", "PASS", "FAIL", "FAULT"}
    /\ damage \in 0..MaxDamage

(* The blob as uniLoader is meant to leave it.                             *)
Patched ==
    SetProp(SetProp(SetProp(blob, "initrd-start", <<1>>), "initrd-end", <<2>>),
            "bootargs", Cstr(Copied))

(* The verdict is PASS only for a buffer that has the nodes of the blob,   *)
(* the properties of each, the three expected ones with the values meant   *)
(* for them, and nothing else: no two wrong doings hide each other.        *)
PassMeansPatched ==
    result = "PASS" =>
        /\ DOMAIN buf = DOMAIN blob
        /\ \A n \in DOMAIN blob :
             Len(buf[n]) = Len(Patched[n]) /\ ToSet(buf[n]) = ToSet(Patched[n])

(* The verdict is PASS only with a memmove that moves every byte of every  *)
(* case.  The bytes of the array repeat after 256: the cases that move by  *)
(* a multiple of it, +4096 twice, cannot fail and show nothing.            *)
Tells == {k \in DOMAIN Cases : Cases[k].delta % 256 # 0}
MovesAll == {m \in Memmoves : \A k \in Tells :
               \A i \in 0..Cases[k].n - 1 : Moves(m, Cases[k], i) = i}
PassMeansMoved == result = "PASS" => memmove \in MovesAll
=============================================================================
