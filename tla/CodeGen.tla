------------------------------ MODULE CodeGen ------------------------------
(***************************************************************************)
(* The code generator for functions: how the statements of a function      *)
(* (func.cc), its conditions (cond.cc), conditional values (expr.cc) and   *)
(* the thunks of conditional fields (CodeBuilder::genCodeCond) become basic *)
(* blocks.  The statements are visited in their order; a visit that holds  *)
(* blocks in its locals while it visits the statements inside it is an     *)
(* entry of the stack open.                                                *)
(*                                                                         *)
(* The values computed are left out: a comparison is an atom whose outcome *)
(* is chosen when it is evaluated, the value of an expression is the leaf  *)
(* it comes from.                                                          *)
(***************************************************************************)
EXTENDS Integers, FiniteSets, Sequences, SequencesExt, FiniteSetsExt, TLC

CONSTANTS
    Conds,      \* condition trees
    Exprs,      \* expression trees
    MaxStmts,   \* the longest function, in statements
    MaxEvals    \* the comparisons a run of the function makes

VARIABLES
    toks,       \* the function so far, as the parser read it
    gen,        \* [code: the blocks, cur: GetInsertBlock(), regs: values numbered so far]
    open,       \* the locals of the open visits of FuncCondStmt and FuncWhileStmt
    phase       \* "gen", "done"

cgv == <<toks, gen, open, phase>>

Reg(n)   == <<"reg", n>>
Const(x) == <<"const", x>>

Terminators == {"br", "cbr", "ret"}
IsEmpty(g, b)    == g.code[b] = <<>>
Terminated(g, b) == ~IsEmpty(g, b) /\ Last(g.code[b]).i \in Terminators

-----------------------------------------------------------------------------
(* IRBuilder: instructions go to the end of the insert block. *)
Emit(g, ins)         == [g EXCEPT !.code[g.cur] = Append(@, ins)]
SetInsertPoint(g, b) == [g EXCEPT !.cur = b]
NewBlocks(g, n)      == [g EXCEPT !.code = @ \o [i \in 1 .. n |-> <<>>]]
Br(g, b)             == Emit(g, [i |-> "br", to |-> b])
CondBr(g, v, t, f)   == Emit(g, [i |-> "cbr", v |-> v, then |-> t, else |-> f])
Define(g, ins)       == [Emit(g, ins @@ [r |-> g.regs + 1]) EXCEPT !.regs = @ + 1]
Top(g)               == Reg(g.regs)

RECURSIVE GenCond(_, _)

CmpOp(g, c) == LET h == Define(g, [i |-> "cmp", a |-> c.a]) IN [g |-> h, v |-> Top(h)]

CondNot(g, c) ==
    LET in == GenCond(g, c.x)
        h  == Define(in.g, [i |-> "not", v |-> in.v])
    IN  [g |-> h, v |-> Top(h)]

BOPAnd(g, c) ==
    LET n    == Len(g.code)    \* and_then, and_else, and_merge are n+1, n+2, n+3
        lhs  == GenCond(NewBlocks(g, 3), c.l)
        rhs  == GenCond(SetInsertPoint(CondBr(lhs.g, lhs.v, n + 1, n + 2), n + 1), c.r)
        else == SetInsertPoint(Br(rhs.g, n + 3), n + 2)
        h    == Define(SetInsertPoint(Br(else, n + 3), n + 3),
                       [i |-> "phi", in |-> <<<<rhs.v, rhs.g.cur>>, <<Const(FALSE), n + 2>>>>])
    IN  [g |-> h, v |-> Top(h)]

(* The mutant short-circuits to false. *)
MutOr(g, c) ==
    LET n    == Len(g.code)
        lhs  == GenCond(NewBlocks(g, 3), c.l)
        then == Br(SetInsertPoint(CondBr(lhs.g, lhs.v, n + 1, n + 2), n + 1), n + 3)
        rhs  == GenCond(SetInsertPoint(then, n + 2), c.r)
        h    == Define(SetInsertPoint(Br(rhs.g, n + 3), n + 3),
                       [i |-> "phi", in |-> <<<<Const(FALSE), n + 1>>, <<rhs.v, rhs.g.cur>>>>])
    IN  [g |-> h, v |-> Top(h)]

BOPOr(g, c) ==
    LET n    == Len(g.code)
        lhs  == GenCond(NewBlocks(g, 3), c.l)
        then == Br(SetInsertPoint(CondBr(lhs.g, lhs.v, n + 1, n + 2), n + 1), n + 3)
        rhs  == GenCond(SetInsertPoint(then, n + 2), c.r)
        h    == Define(SetInsertPoint(Br(rhs.g, n + 3), n + 3),
                       [i |-> "phi", in |-> <<<<Const(TRUE), n + 1>>, <<rhs.v, rhs.g.cur>>>>])
    IN  [g |-> h, v |-> Top(h)]

GenCond(g, c) ==
    CASE c.c = "cmp" -> CmpOp(g, c)
      [] c.c = "not" -> CondNot(g, c)
      [] c.c = "and" -> BOPAnd(g, c)
      [] c.c = "or"  -> BOPOr(g, c)

RECURSIVE GenExpr(_, _)

(* The phi names cv_then and cv_else, wherever the two values ended up. *)
CondVal(g, e) ==
    LET n  == Len(g.code)
        c  == GenCond(NewBlocks(g, 3), e.c)
        t  == GenExpr(SetInsertPoint(CondBr(c.g, c.v, n + 1, n + 2), n + 1), e.t)
        f  == GenExpr(SetInsertPoint(Br(t.g, n + 3), n + 2), e.f)
        h  == Define(SetInsertPoint(Br(f.g, n + 3), n + 3),
                     [i |-> "phi", in |-> <<<<t.v, n + 1>>, <<f.v, n + 2>>>>])
    IN  [g |-> h, v |-> Top(h)]

GenExpr(g, e) == IF e.e = "leaf" THEN [g |-> g, v |-> Const(e.x)] ELSE CondVal(g, e)

-----------------------------------------------------------------------------
CodeInit ==
    /\ toks = <<>> /\ open = <<>> /\ phase = "gen"
    /\ gen = [code |-> <<(<<>>)>>, cur |-> 1, regs |-> 0]

Braces == {"else", "fi", "od"}

(* FuncBlock: the next statement is visited. *)
Visit(t) ==
    /\ phase = "gen" /\ Len(SelectSeq(toks, LAMBDA u : u.t \notin Braces)) < MaxStmts
    /\ toks' = Append(toks, t) /\ UNCHANGED phase

(* An expression that does not evaluate is reported and the statement      *)
(* leaves no code.                                                         *)
FuncAssign ==
    \E e \in Exprs :
        /\ Visit([t |-> "set", e |-> e])
        /\ IF e.e = "bad" THEN gen' = gen
           ELSE gen' = LET x == GenExpr(gen, e) IN Emit(x.g, [i |-> "set", v |-> x.v])
        /\ UNCHANGED open

FuncRet ==
    \E e \in Exprs :
        /\ e.e # "bad"
        /\ Visit([t |-> "ret", e |-> e])
        /\ gen' = LET x == GenExpr(gen, e) IN Emit(x.g, [i |-> "ret", v |-> x.v])
        /\ UNCHANGED open

(* FuncCondStmt, to the visit of is_true. *)
FuncThen ==
    \E c \in Conds, else \in BOOLEAN :
        LET n     == Len(gen.code)                     \* func_then is n+1
            merge == IF else THEN n + 3 ELSE n + 2
            x     == GenCond(NewBlocks(gen, merge - n), c)
        IN  /\ c.c # "bad"
            /\ Visit([t |-> "if", c |-> c, else |-> else])
            /\ gen' = SetInsertPoint(CondBr(x.g, x.v, n + 1, n + 2), n + 1)
            /\ open' = Append(open, [v |-> "if", branch |-> n + 1, merge |-> merge, else |-> else])

(* After a branch: the block the branch began with is looked at, and then  *)
(* the one it ended in, if that is empty.                                  *)
EndBranch(g, o) ==
    LET h == IF Terminated(g, o.branch) THEN g ELSE Br(g, o.merge)
    IN  IF IsEmpty(h, h.cur) THEN Br(h, o.merge) ELSE h

FuncElse ==
    /\ open # <<>> /\ Last(open).v = "if" /\ Last(open).else
    /\ phase = "gen" /\ toks' = Append(toks, [t |-> "else"]) /\ UNCHANGED phase
    /\ LET o == Last(open)
       IN  /\ gen' = SetInsertPoint(EndBranch(gen, o), o.branch + 1)
           /\ open' = Append(Front(open), [o EXCEPT !.branch = @ + 1, !.else = FALSE])

FuncMerge ==
    /\ open # <<>> /\ Last(open).v = "if" /\ ~Last(open).else
    /\ phase = "gen" /\ toks' = Append(toks, [t |-> "fi"]) /\ UNCHANGED phase
    /\ LET o == Last(open) IN gen' = SetInsertPoint(EndBranch(gen, o), o.merge)
    /\ open' = Front(open)

FuncWhileStmt ==
    \E c \in Conds :
        LET n == Len(gen.code)     \* while_cond, while_begin, while_end are n+1, n+2, n+3
            x == GenCond(SetInsertPoint(Br(NewBlocks(gen, 3), n + 1), n + 1), c)
        IN  /\ c.c # "bad"
            /\ Visit([t |-> "while", c |-> c])
            /\ gen' = SetInsertPoint(CondBr(x.g, x.v, n + 2, n + 3), n + 2)
            /\ open' = Append(open, [v |-> "while", cond |-> n + 1])

EndBody(g, o) == IF Terminated(g, g.cur) THEN g ELSE Br(g, o.cond)

FuncWhileEnd ==
    /\ open # <<>> /\ Last(open).v = "while"
    /\ phase = "gen" /\ toks' = Append(toks, [t |-> "od"]) /\ UNCHANGED phase
    /\ LET o == Last(open) IN gen' = SetInsertPoint(EndBody(gen, o), o.cond + 2)
    /\ open' = Front(open)

(* A condition for which no code can be made ends the visit of its         *)
(* statement: the new blocks stay as they are.                             *)
CondFails ==
    /\ \E c \in Conds : c.c = "bad"
    /\ \E s \in {"if", "while"} :
        /\ Visit([t |-> "badcond"])
        /\ gen' = IF s = "if" THEN NewBlocks(gen, 2)
                  ELSE LET n == Len(gen.code)
                       IN  SetInsertPoint(Br(NewBlocks(gen, 3), n + 1), n + 1)
    /\ UNCHANGED open

(* Func::genCode, at its end. *)
genCode == phase = "gen" /\ open = <<>> /\ phase' = "done" /\ UNCHANGED <<toks, gen, open>>

(* CodeBuilder::genCodeCond, a function of its own. *)
genCodeCond ==
    \E c \in Conds, t \in Exprs, f \in Exprs :
        LET x == GenCond(gen, c)
            n == Len(x.g.code)     \* codecond_then, codecond_else
            y == GenExpr(SetInsertPoint(CondBr(NewBlocks(x.g, 2), x.v, n + 1, n + 2), n + 1), t)
            z == GenExpr(SetInsertPoint(Emit(y.g, [i |-> "ret", v |-> y.v]), n + 2), f)
        IN  /\ toks = <<>> /\ phase = "gen"
            /\ c.c # "bad" /\ t.e # "bad" /\ f.e # "bad"
            /\ toks' = <<[t |-> "if", c |-> c, else |-> TRUE], [t |-> "ret", e |-> t], [t |-> "else"],
                         [t |-> "ret", e |-> f], [t |-> "fi"], [t |-> "thunk"]>>
            /\ gen' = Emit(z.g, [i |-> "ret", v |-> z.v])
            /\ phase' = "done" /\ UNCHANGED open

CodeNext ==
    \/ FuncAssign \/ FuncRet \/ FuncThen \/ FuncElse \/ FuncMerge
    \/ FuncWhileStmt \/ FuncWhileEnd \/ CondFails \/ genCode \/ genCodeCond

-----------------------------------------------------------------------------
(* What LLVM demands of the blocks it is given. *)
Blocks == DOMAIN gen.code
Jumps(b) ==
    LET l == Last(gen.code[b])
    IN  CASE l.i = "br" -> {l.to} [] l.i = "cbr" -> {l.then, l.else} [] OTHER -> {}
Closed(b) ==
    /\ Terminated(gen, b)
    /\ \A k \in 1 .. Len(gen.code[b]) - 1 : gen.code[b][k].i \notin Terminators
Preds(b)  == {p \in Blocks : b \in Jumps(p)}
PhisFit(b) ==
    \A ins \in ToSet(gen.code[b]) :
        ins.i = "phi" => {ins.in[k][2] : k \in DOMAIN ins.in} = Preds(b)
WellFormed == (\A b \in Blocks : Closed(b)) /\ (\A b \in Blocks : PhisFit(b))

(* The functions whose blocks are not: the statements of a brace pair, and *)
(* where its last split of the control flow is.                            *)
Opens(k)  == toks[k].t \in {"if", "while"}
Closes(k) == toks[k].t \in {"fi", "od"}
Level(k)  == Cardinality({j \in 1 .. k - 1 : Opens(j)}) - Cardinality({j \in 1 .. k - 1 : Closes(j)})
Match(k)  == Min({j \in k + 1 .. Len(toks) : Closes(j) /\ Level(j) = Level(k) + 1})
ElseOf(k) == Min({j \in k + 1 .. Match(k) : Level(j) = Level(k) + 1 /\ toks[j].t \in {"else", "fi"}})

(* The statements between lo and hi that leave code behind. *)
Stmts(lo, hi) ==
    {k \in lo .. hi : /\ Level(k) = Level(lo) /\ toks[k].t \in {"set", "ret", "if", "while", "badcond"}
                      /\ ~(toks[k].t = "set" /\ toks[k].e.e = "bad")}
Split(k)    == Opens(k) \/ (toks[k].t = "set" /\ toks[k].e.e = "cv")
Returns(lo, hi) == Stmts(lo, hi) # {} /\ toks[Max(Stmts(lo, hi))].t = "ret"

AfterReturn(lo, hi) == \E j, k \in Stmts(lo, hi) : j < k /\ toks[j].t = "ret"
Dangling(lo, hi) ==
    LET splits == {k \in Stmts(lo, hi) : Split(k)}
    IN  /\ splits # {} /\ ~Returns(lo, hi)
        /\ ~(Opens(Max(splits)) /\ Max(splits) = Max(Stmts(lo, hi)))
Nested(e) == e.e = "cv" /\ (e.t.e = "cv" \/ e.f.e = "cv")

Whiles == {k \in DOMAIN toks : toks[k].t = "while"}
Ifs    == {k \in DOMAIN toks : toks[k].t = "if"}
Bodies == {<<k + 1, Match(k) - 1>> : k \in Whiles}
Branches == {<<k + 1, ElseOf(k) - 1>> : k \in Ifs} \cup {<<ElseOf(k) + 1, Match(k) - 1>> : k \in Ifs}
IsThunk == toks # <<>> /\ Last(toks).t = "thunk"

Misshapen ==
    \/ \E k \in DOMAIN toks : toks[k].t = "badcond" \/ (toks[k].t \in {"set", "ret"} /\ Nested(toks[k].e))
    \/ \E r \in Bodies \cup Branches \cup {<<1, Len(toks)>>} : AfterReturn(r[1], r[2])
    \/ \E r \in Branches : Dangling(r[1], r[2])
    \/ ~IsThunk /\ ~Returns(1, Len(toks))

(* The code handed to LLVM is well formed for every function but these: a  *)
(* statement after a return; a function that does not end in a return,     *)
(* though all its branches may return; a branch of an if that goes on      *)
(* after an inner if, while or conditional value (FuncCondStmt looks at    *)
(* the block the branch began with); a conditional value in another; a     *)
(* condition that cannot be compiled.                                      *)
CodeClosed == phase = "done" => (WellFormed <=> ~Misshapen)

-----------------------------------------------------------------------------
(* A run of the code, o being the outcomes of the comparisons in their     *)
(* order: what it compares, assigns and returns.                           *)
RECURSIVE RunCode(_, _, _, _, _, _)
RunCode(b, k, from, regs, o, trace) ==
    LET ins    == gen.code[b][k]
        Val(v) == IF v[1] = "const" THEN v[2] ELSE regs[v[2]]
        Go(to) == RunCode(to, 1, b, regs, o, trace)
        On(r, p, tr) == RunCode(b, k + 1, from, r, p, tr)
    IN  CASE ins.i = "cmp" ->
                IF o = <<>> THEN trace
                ELSE On((ins.r :> Head(o)) @@ regs, Tail(o), Append(trace, <<"cmp", ins.a>>))
          [] ins.i = "not" -> On((ins.r :> ~Val(ins.v)) @@ regs, o, trace)
          [] ins.i = "phi" ->
                LET e == CHOOSE e \in ToSet(ins.in) : e[2] = from
                IN  On((ins.r :> Val(e[1])) @@ regs, o, trace)
          [] ins.i = "set" -> On(regs, o, Append(trace, <<"set", Val(ins.v)>>))
          [] ins.i = "ret" -> Append(trace, <<"ret", Val(ins.v)>>)
          [] ins.i = "br"  -> Go(ins.to)
          [] ins.i = "cbr" -> Go(IF Val(ins.v) THEN ins.then ELSE ins.else)

(* What the condition and the expression are in the language: left to      *)
(* right, stopping early.  out is FALSE when the outcomes ran out.         *)
Ev(v, o, tr) == [v |-> v, o |-> o, tr |-> tr, out |-> FALSE]

RECURSIVE SrcCond(_, _, _)
SrcCond(c, o, tr) ==
    CASE c.c = "cmp" -> IF o = <<>> THEN [v |-> FALSE, o |-> o, tr |-> tr, out |-> TRUE]
                        ELSE Ev(Head(o), Tail(o), Append(tr, <<"cmp", c.a>>))
      [] c.c = "not" -> LET x == SrcCond(c.x, o, tr) IN [x EXCEPT !.v = ~x.v]
      [] c.c \in {"and", "or"} ->
            LET l == SrcCond(c.l, o, tr)
            IN  IF l.out \/ l.v = (c.c = "or") THEN l ELSE SrcCond(c.r, l.o, l.tr)

RECURSIVE SrcExpr(_, _, _)
SrcExpr(e, o, tr) ==
    IF e.e = "leaf" THEN Ev(e.x, o, tr)
    ELSE LET c == SrcCond(e.c, o, tr)
         IN  IF c.out THEN c ELSE SrcExpr(IF c.v THEN e.t ELSE e.f, c.o, c.tr)

Opener(k) == CHOOSE j \in 1 .. k - 1 : Opens(j) /\ Match(j) = k
IfOf(k)   == CHOOSE j \in 1 .. k - 1 : toks[j].t = "if" /\ ElseOf(j) = k

RECURSIVE RunSource(_, _, _)
RunSource(k, o, tr) ==
    LET t    == toks[k]
        expr == SrcExpr(t.e, o, tr)
        cond == SrcCond(t.c, o, tr)
    IN  CASE t.t = "set" /\ t.e.e = "bad" -> RunSource(k + 1, o, tr)
          [] t.t = "set" /\ t.e.e # "bad" ->
                IF expr.out THEN expr.tr
                ELSE RunSource(k + 1, expr.o, Append(expr.tr, <<"set", expr.v>>))
          [] t.t = "ret" -> IF expr.out THEN expr.tr ELSE Append(expr.tr, <<"ret", expr.v>>)
          [] t.t \in {"if", "while"} ->
                IF cond.out THEN cond.tr
                ELSE IF cond.v THEN RunSource(k + 1, cond.o, cond.tr)
                ELSE RunSource((IF t.t = "if" THEN ElseOf(k) ELSE Match(k)) + 1, cond.o, cond.tr)
          [] t.t = "else" -> RunSource(Match(IfOf(k)) + 1, o, tr)
          [] t.t = "fi"   -> RunSource(k + 1, o, tr)
          [] t.t = "od"   -> RunSource(Opener(k), o, tr)

Outcomes == [1 .. MaxEvals -> BOOLEAN]

(* Where the code is well formed it does what the function says: the same  *)
(* comparisons in the same order, none after && or || is decided, the same *)
(* assignments and the same result, through every nesting.                 *)
CodeMeansSource ==
    phase = "done" /\ ~Misshapen
        => \A o \in Outcomes : RunCode(1, 1, 0, <<>>, o, <<>>) = RunSource(1, o, <<>>)
=============================================================================
