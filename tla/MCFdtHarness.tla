---------------------------- MODULE MCFdtHarness ----------------------------
(* A small blob, with bootargs of its own or without; command lines that   *)
(* fit str, do not, and hold a NUL; and the harness's own overlap cases.   *)
EXTENDS FdtHarness

Prop(name, val) == [name |-> name, val |-> val]
Blob(chosen) == [n \in {"/", Chosen, "/soc"} |->
                   IF n = Chosen THEN chosen
                   ELSE IF n = "/" THEN <<Prop("model", <<3>>)>>
                   ELSE <<Prop("reg", <<4>>), Prop("status", <<5>>)>>]

TwoBlobs == {Blob(<<>>), Blob(<<Prop("bootargs", <<6>>)>>)}

(* A blob that names the property it will be given, and one with no node   *)
(* to patch.                                                               *)
OddBlobs == {Blob(<<Prop("bootargs", <<6>>), Prop("initrd-end", <<7>>)>>),
             [n \in {"/"} |-> <<Prop("model", <<3>>)>>]}

AllBlobs == TwoBlobs \cup OddBlobs
Lines == {<<>>, <<7, 8>>, <<7, 8, 7>>, <<7, 0, 8>>}

Case(delta, n) == [delta |-> delta, n |-> n, base |-> 64]
HarnessCases ==
    <<Case(4, 3000), Case(20, 3000), Case(2, 3001), Case(-4, 3000), Case(-20, 3000),
      Case(16, 8000), Case(1, 100), Case(3, 20), Case(8, 4096), Case(-8, 4096),
      Case(4096, 4000), Case(4096, 4001), Case(4097, 4000)>>
=============================================================================
