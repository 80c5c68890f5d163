---------------------------- MODULE MCDataFiles ----------------------------
(* Two PhraseLists and an IPList over two ConfigMaps, two WAFs: w1 ignores  *)
(* unknown lists, w2 is strict and its RuleSets declare p1 and i1.          *)
EXTENDS DataFiles

MCHomeOf == [x \in Lists \cup ConfigMaps \cup Wafs |-> "ns"]
MCLinesOf == [w \in Wafs |-> <<{"f"}, {"f", "s"}, {"g"}, {}>>]
MCPolicyOf == [w \in Wafs |-> IF w = "w1" THEN "IgnoreUnknown" ELSE "Strict"]
MCPacksOf == [w \in Wafs |-> IF w = "w1" THEN {} ELSE {"p1", "i1"}]
Inline(f, n) == [NoSpec EXCEPT !.file = f, !.content = [i \in 1..n |-> <<f, i>>]]
FromMap(f, c) == [NoSpec EXCEPT !.file = f, !.cm = {c}]
FromParts(f, p) == [NoSpec EXCEPT !.file = f, !.parts = p]
MCListSpecs == {FromMap("f", "c1"), Inline("g", 5), Inline("s", 1),
                [Inline("s", 2) EXCEPT !.allow = TRUE],
                [Inline("f", 1) EXCEPT !.cm = {"c1"}]}
MCStartSpecs == [l \in {"p1", "i1"} |-> IF l = "p1" THEN FromParts("f", <<"c1", "c2">>)
                                       ELSE FromParts("g", <<"c1">>)]
=============================================================================
