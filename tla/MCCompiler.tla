----------------------------- MODULE MCCompiler -----------------------------
(* Compiler with small inputs for each of its parts, for TLC. *)
EXTENDS Compiler

(* Layout: descriptions of up to three fragments; names are made distinct  *)
(* per fragment, so that a name occurs twice only inside one.              *)
Decl(n, ty, len)        == [op |-> "decl", name |-> n, ty |-> ty, len |-> len]
Pdecl(n, ty, argc, len) == [op |-> "pdecl", name |-> n, ty |-> ty, argc |-> argc, len |-> len]
One(n, ty)  == Decl(n, ty, "one")
If(c)       == [op |-> "if", c |-> c]
Else        == [op |-> "else"]
Fi          == [op |-> "fi"]
Union       == [op |-> "union"]
End(n, len) == [op |-> "end", name |-> n, len |-> len]
Here        == -2              \* Lay!Here
F(f, args)  == [op |-> "func", f |-> f, args |-> args]

Often == {
    <<One(1, "word")>>, <<Decl(1, "fix", "rest")>>, <<Pdecl(1, "rec", 1, "n")>>, <<Pdecl(1, "rec", 1, "one")>>,
    <<If("c"), One(1, "bit"), Else, One(2, "word"), Fi>>,
    <<If("c"), Decl(1, "fix", "n"), If("d"), One(2, "bit"), Else, One(3, "word"), Fi, One(4, "bit"), Fi>>,
    <<If("d"), Pdecl(1, "rec", 1, "n"), Else, If("c"), One(2, "fix"), Fi, One(3, "bit"), Fi>>,
    <<Union, One(1, "bit"), One(2, "fix"), End(3, "one")>>,
    <<Union, One(1, "bit"), One(2, "word"), One(3, "bit"), One(4, "word"), One(5, "fix"), End(6, "n")>>,
    <<F("align_bits", <<4>>)>>, <<F("skip_bytes", <<1>>)>>, <<F("pad_phys_bytes", <<2, 1>>)>>}

Seldom == {
    <<Decl(1, "bit", "n")>>, <<Pdecl(1, "rec", 1, "fixed")>>, <<Decl(1, "bit", "rest")>>,
    <<F("set_bits", <<Here>>)>>, <<F("set_bytes", <<1>>)>>,
    <<F("skip_bits", <<3>>)>>, <<F("align_bytes", <<2>>)>>, <<F("align_bits", <<3>>)>>,
    <<F("skip_bits", <<1, 2>>)>>, <<F("unknown", <<1>>)>>,
    <<One(1, "rec")>>, <<Pdecl(1, "rec", 2, "one")>>, <<Pdecl(1, "fix", 1, "one")>>,
    <<Union, One(1, "bit"), One(2, "word"), One(3, "fix"), One(4, "bit"), End(5, "one")>>,
    <<Union, One(1, "bit"), One(2, "fix"), One(3, "word"), End(4, "one")>>,
    <<Union, One(1, "bit"), End(2, "one")>>,
    <<Union, Decl(1, "bit", "n"), One(2, "fix"), End(3, "one")>>,
    <<Union, One(1, "bit"), F("skip_bits", <<1>>), One(2, "fix"), End(3, "one")>>,
    <<Union, One(1, "bit"), If("c"), One(2, "bit"), Fi, End(3, "one")>>,
    <<Union, One(1, "bit"), Union, One(2, "fix"), One(3, "bit"), End(4, "one"), End(5, "one")>>,
    <<Union, One(1, "bit"), One(2, "bit"), One(3, "bit"), One(4, "bit"), One(5, "bit"), One(6, "bit"),
      One(7, "bit"), One(8, "bit"), End(9, "one")>>,
    <<If("c"), Union, One(1, "bit"), One(2, "fix"), End(3, "one"), Fi>>,
    <<If("d"), One(1, "bit"), F("skip_bits", <<1>>), Fi>>,
    <<If("c"), One(1, "bit"), Else, One(1, "word"), Fi, One(2, "bit")>>,
    <<One(1, "bit"), Pdecl(1, "rec", 1, "n"), Pdecl(2, "rec", 1, "n")>>}

Rename(t, k) == IF t.op \in {"decl", "pdecl", "end"} THEN [t EXCEPT !.name = @ + (10 * (k - 1))] ELSE t
Item(fr, k)  == [i \in DOMAIN fr |-> Rename(fr[i], k)]
MCDescs ==
    {Item(a, 1) : a \in Often \cup Seldom}
    \cup {Item(a, 1) \o Item(b, 2) : a \in Often \cup Seldom, b \in Often \cup Seldom}
    \cup {Item(a, 1) \o Item(b, 2) \o Item(c, 3) : a \in Often, b \in Often, c \in Often}

MCInsts == {
    [base |-> 0, holds |-> {},         n |-> 2, recs |-> <<1, 4>>, phys |-> 0],
    [base |-> 0, holds |-> {"c", "d"}, n |-> 3, recs |-> <<3, 1>>, phys |-> 8],
    [base |-> 5, holds |-> {"c"},      n |-> 0, recs |-> <<2, 2>>, phys |-> 3],
    [base |-> 7, holds |-> {"d"},      n |-> 2, recs |-> <<4, 1>>, phys |-> 0]}

-----------------------------------------------------------------------------
(* Resolve: a disk of nodes of leaves; node and leaf are told a number k.  *)
Prim  == "prim"        \* Res!Prim
NoIdx == -1            \* Res!NoIdx
Call  == -2            \* Res!Call

Single(ty, rel, shift) ==
    [ty |-> ty, single |-> TRUE, fixed |-> FALSE, rel |-> rel, shift |-> shift, arg |-> "none"]
Array(ty, rel, shift, fixed, arg) ==
    [ty |-> ty, single |-> FALSE, fixed |-> fixed, rel |-> rel, shift |-> shift, arg |-> arg]

MCSyms ==
    [disk |-> [h |-> Single(Prim, 0, FALSE), n |-> Single("node", 4, FALSE),
               a |-> Array("node", 8, FALSE, FALSE, "idx"), d |-> Array("leaf", 30, FALSE, TRUE, "none"),
               p |-> Array(Prim, 40, FALSE, TRUE, "none")],
     node |-> [x |-> Single(Prim, 1, TRUE), m |-> [Single("leaf", 2, FALSE) EXCEPT !.arg = "own"],
               b |-> Array("leaf", 5, TRUE, FALSE, "idx"), c |-> Array("leaf", 20, FALSE, FALSE, "own")],
     leaf |-> [v |-> Single(Prim, 1, FALSE), w |-> Single(Prim, 2, TRUE),
               q |-> Array(Prim, 3, TRUE, TRUE, "none")]]
MCArgTypes == [disk |-> <<>>, node |-> [k |-> "int", o |-> "leaf"], leaf |-> [k |-> "int"]]
MCBase     == [disk |-> 100, node |-> 12, leaf |-> 3]

Clo(o, a, v) == [off |-> o, arg |-> a, virt |-> v]
Var(t, c)    == [ty |-> t, clo |-> c]
MCFuncs == [root |-> [ret |-> "node", clo |-> Clo(200, 3, 1)], count |-> [ret |-> "int", clo |-> Clo(9, 0, 0)]]

Scope(k, t, c, vs) == [kind |-> k, ty |-> t, this |-> c, vars |-> vs]
MCScopes == {
    Scope("type", "disk", Clo(0, 0, 0), <<>>),
    Scope("type", "node", Clo(300, 2, 5), [k |-> Var("int", Clo(2, 0, 0)), o |-> Var("leaf", Clo(50, 4, 0))]),
    Scope("type", "node", Clo(300, 2, 5), [m |-> Var("node", Clo(70, 1, 0))]),
    Scope("func", "none", Clo(0, 0, 0), [y |-> Var("node", Clo(400, 5, 2)), i |-> Var("int", Clo(3, 0, 0))]),
    Scope("packet", "none", Clo(0, 0, 0), [y |-> Var("node", Clo(500, 1, 3))])}

Comp(n, i) == [name |-> n, idx |-> i]
Comps(ns)  == {Comp(n, i) : n \in ns, i \in {NoIdx, 2}}
Calls      == {Comp(n, Call) : n \in {"root", "count", "none"}}
Heads == Comps({"n", "a", "d", "m", "b", "c", "o", "y", "i", "disk", "node", "this", "none"})
Mids  == Comps({"n", "a", "d", "m", "b", "c", "k", "o", "none"}) \cup {Comp("a", 0), Comp("b", 0)}
Ends  == Comps({"x", "m", "b", "v", "w", "q", "k"})
MCNames ==
    {<<h>> : h \in Heads \cup Comps({"h", "p", "x"})}
    \cup {<<h, e>> : h \in Heads \cup Calls, e \in Mids \cup Ends}
    \cup {<<h, m, e>> : h \in Heads \cup Calls, m \in Mids, e \in Ends}
    \cup {<<Comp("disk", NoIdx), m, n, e>> :
            m \in Comps({"n", "a"}), n \in Comps({"m", "b", "c"}), e \in Ends}

-----------------------------------------------------------------------------
(* CodeGen *)
Cmp(a)      == [c |-> "cmp", a |-> a]
Leaf(x)     == [e |-> "leaf", x |-> x]
CV(c, t, f) == [e |-> "cv", c |-> c, t |-> t, f |-> f]

MCConds == {
    [c |-> "and", l |-> [c |-> "or", l |-> Cmp("a"), r |-> Cmp("b")], r |-> [c |-> "not", x |-> Cmp("d")]],
    [c |-> "bad"]}
MCExprs == {
    Leaf("x"), CV([c |-> "or", l |-> Cmp("a"), r |-> Cmp("b")], Leaf("y"), Leaf("z")),
    CV(Cmp("a"), CV(Cmp("b"), Leaf("x"), Leaf("y")), Leaf("z")), [e |-> "bad"]}

(* The constants above are the ones the modules have. *)
ASSUME SameConstants == Here = Lay!Here /\ Prim = Res!Prim /\ NoIdx = Res!NoIdx /\ Call = Res!Call

-----------------------------------------------------------------------------
(* Params *)
MCArgs == [disk |-> <<>>, ino |-> <<"int">>, blk |-> <<"ino", "int">>, dir |-> <<"disk", "ino", "int">>]

Memo(r, c) == [ret |-> r, calls |-> c]
MCMemos == {
    <<Memo("ino", 0), Memo("int", 0), Memo("ino", 1)>>, <<Memo("blk", 0), Memo("disk", 0), Memo("blk", 1)>>,
    <<Memo("int", 2), Memo("int", 0), Memo("disk", 4), Memo("disk", 0)>>, <<Memo("ino", 2), Memo("ino", 0)>>}
=============================================================================
