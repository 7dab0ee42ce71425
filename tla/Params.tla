------------------------------- MODULE Params -------------------------------
(***************************************************************************)
(* How closures travel in the code the compiler makes: the arguments of a  *)
(* type packed into a parameter buffer (storeExprIntoParamBuf), unpacked   *)
(* when a thunk begins (loadArgsFromArray), picked out of it by a path     *)
(* (extractParamVal), returned through a closure of the caller             *)
(* (codeGenClosureRetCall, FuncRet), and kept in the table of the          *)
(* functions without arguments, which the runtime fills once at its start  *)
(* (memotab.cc, fsl_load_memo).                                            *)
(*                                                                         *)
(* heap is the stack and the table as words; an alloca is a region of it.  *)
(* Every number a program puts in is a new one, so that two words are      *)
(* equal only when one is a copy of the other.  A type is given as many    *)
(* arguments as it takes, though the compiler does not compare the counts. *)
(* No alloca goes away before the program ends, and a boolean in the       *)
(* table, cut to a bit when it is read, is a number like any other.        *)
(***************************************************************************)
EXTENDS Integers, FiniteSets, Sequences, SequencesExt, TLC

CONSTANTS
    Args,       \* for each type, the types of its arguments; "int" is not a type
    MaxLive,    \* the closures and numbers a program makes
    MemoLists   \* the functions without arguments: sequences of [ret, calls]

VARIABLES
    memo_f,     \* f_list; a function returns what the program has, or what it calls
    loaded,     \* how many of them fsl_load_memo has called
    heap, regions,
    live,       \* what the program holds: a closure, and the value it was made with
    fresh,      \* the next new number
    over,       \* a copy or a store went past its region
    memo_val    \* <<v>> for each function called so far, v its value, or None

pav == <<memo_f, loaded, heap, regions, live, fresh, over, memo_val>>

RT_CLO_ELEMS == 3
Null == 0
None == <<>>
Junk == -1

-----------------------------------------------------------------------------
RECURSIVE getParamBufEntryCount(_)

Entries(ty) == IF ty = "int" THEN 1 ELSE getParamBufEntryCount(ty) + (RT_CLO_ELEMS - 1)

(* The mutant forgets the translation of a closure. *)
MutEntries(args) == FoldLeft(LAMBDA n, a : n + (IF a = "int" THEN 1 ELSE getParamBufEntryCount(a) + 1), 0, args)

getNumParamBufEntries(args) == FoldLeft(LAMBDA n, a : n + Entries(a), 0, args)

getParamBufEntryCount(t) == getNumParamBufEntries(Args[t])

getParamBufBaseIdx(args, idx) == FoldLeft(LAMBDA n, a : n + Entries(a), 0, SubSeq(args, 1, idx - 1))

-----------------------------------------------------------------------------
(* The memo table is the first region. *)
MutTabEntries(f) == IF f.ret = "int" THEN 1 ELSE RT_CLO_ELEMS

getNumTabEntries(f) == IF f.ret = "int" THEN 1 ELSE RT_CLO_ELEMS + getParamBufEntryCount(f.ret)

getFuncIdx(i) == 1 + FoldLeft(LAMBDA n, f : n + getNumTabEntries(f), 0, SubSeq(memo_f, 1, i - 1))
TabSize       == getFuncIdx(Len(memo_f) + 1) - 1

(* A machine state that actions build up: memory, its regions, over. *)
Mem == [heap |-> heap, regions |-> regions, over |-> over]

alloca(m, n) == [m EXCEPT !.heap = @ \o [i \in 1 .. n |-> Junk], !.regions = @ \cup {<<Len(m.heap) + 1, n>>}]
Brk(m)       == Len(m.heap) + 1        \* where the next region will be

Fits(m, at, n) == n = 0 \/ \E r \in m.regions : r[1] <= at /\ at + n <= r[1] + r[2]

(* emitMemcpy64, and the stores of single words. *)
Put(m, at, words) ==
    [m EXCEPT !.over = @ \/ ~Fits(m, at, Len(words)),
              !.heap = [i \in DOMAIN @ |-> IF i \in at .. at + Len(words) - 1 THEN words[i - at + 1] ELSE @[i]]]

Get(m, at, n) == [i \in 1 .. n |-> IF at + i - 1 \in DOMAIN m.heap THEN m.heap[at + i - 1] ELSE Junk]

emitMemcpy64(m, dst, src, n) ==
    [Put(m, dst, Get(m, src, n)) EXCEPT !.over = @ \/ ~Fits(m, src, n) \/ ~Fits(m, dst, n)]

storeClosureIntoParamBuf(m, at, t, clo) ==
    emitMemcpy64(Put(m, at, <<clo.off, clo.xlate>>), at + 2, clo.pb, getParamBufEntryCount(t))

storeExprIntoParamBuf(m, at, ty, clo) ==
    IF ty = "int" THEN Put(m, at, <<clo.off>>) ELSE storeClosureIntoParamBuf(m, at, ty, clo)

(* ThunkParams::storeIntoParamBuf, storeExprListIntoParamBuf: pb_idx moves *)
(* by what each expression stored.                                         *)
storeIntoParamBuf(m, pb, args, clos) ==
    FoldLeft(LAMBDA s, i : [m   |-> storeExprIntoParamBuf(s.m, pb + s.idx, args[i], clos[i]),
                            idx |-> s.idx + Entries(args[i])],
             [m |-> m, idx |-> 0], [i \in DOMAIN args |-> i]).m

(* createTmpClosure out of a parameter buffer. *)
createTmpClosure(m, t, at) ==
    LET n == getParamBufEntryCount(t)
        a == IF Args[t] = <<>> THEN m ELSE alloca(m, n)
        c == [off |-> Get(m, at, 1)[1], xlate |-> Get(m, at + 1, 1)[1],
              pb  |-> IF Args[t] = <<>> THEN Null ELSE Brk(m)]
    IN  [m |-> IF Args[t] = <<>> THEN m ELSE emitMemcpy64(a, c.pb, at + 2, n), clo |-> c]

copyClosure(m, t, src, dst) == emitMemcpy64(m, dst.pb, src.pb, getParamBufEntryCount(t))

-----------------------------------------------------------------------------
Program(m) ==
    /\ memo_f = m /\ loaded = 0 /\ memo_val = <<>>
    /\ heap = [i \in 1 .. TabSize |-> 0] /\ regions = {<<1, TabSize>>}
    /\ live = <<>> /\ fresh = 100 /\ over = FALSE

ParamsInit == \E m \in MemoLists : Program(m)

SetMem(m) == heap' = m.heap /\ regions' = m.regions /\ over' = m.over
Hold(t, clo, val) == live' = Append(live, [t |-> t, clo |-> clo, val |-> val])
Room(n) == Len(live) + n <= MaxLive

Number ==
    /\ Room(1)
    /\ Hold("int", [off |-> fresh, xlate |-> Null, pb |-> Null], fresh)
    /\ fresh' = fresh + 1
    /\ UNCHANGED <<memo_f, loaded, heap, regions, over, memo_val>>

(* A field of type t: its offset thunk is called, a buffer is made         *)
(* (paramsAllocaByCount), the params thunk packs the arguments into it.    *)
Field ==
    \E t \in DOMAIN Args : \E xs \in [1 .. Len(Args[t]) -> DOMAIN live] :
        /\ Room(1)
        /\ \A i \in DOMAIN xs : live[xs[i]].t = Args[t][i]
        /\ LET a == alloca(Mem, getParamBufEntryCount(t))
           IN  SetMem(storeIntoParamBuf(a, Brk(Mem), Args[t], [i \in DOMAIN xs |-> live[xs[i]].clo]))
        /\ Hold(t, [off |-> fresh, xlate |-> fresh + 1, pb |-> Brk(Mem)],
                [off |-> fresh, xlate |-> fresh + 1, args |-> [i \in DOMAIN xs |-> live[xs[i]].val]])
        /\ fresh' = fresh + 2
        /\ UNCHANGED <<memo_f, loaded, memo_val>>

(* A thunk of the closure begins: loadArgsFromArray walks the buffer.      *)
loadArgsFromArray ==
    \E h \in DOMAIN live :
        LET l    == live[h]
            args == Args[l.t]
            Step(s, i) ==
                IF args[i] = "int"
                THEN [m |-> s.m, idx |-> s.idx + 1,
                      got |-> Append(s.got, [t |-> "int", val |-> l.val.args[i],
                                             clo |-> [off |-> Get(s.m, l.clo.pb + s.idx, 1)[1],
                                                      xlate |-> Null, pb |-> Null]])]
                ELSE LET c == createTmpClosure(s.m, args[i], l.clo.pb + s.idx)
                     IN  [m |-> c.m, idx |-> s.idx + getParamBufEntryCount(args[i]) + 2,
                          got |-> Append(s.got, [t |-> args[i], clo |-> c.clo, val |-> l.val.args[i]])]
            r == FoldLeft(Step, [m |-> Mem, idx |-> 0, got |-> <<>>], [i \in DOMAIN args |-> i])
        IN  /\ l.t # "int" /\ args # <<>> /\ Room(Len(args))
            /\ SetMem(r.m) /\ live' = live \o r.got
            /\ UNCHANGED <<memo_f, loaded, fresh, memo_val>>

(* TypeStack::followIdIdx with the name of an argument; one that is a type *)
(* stops the compiler.                                                     *)
extractParamVal ==
    \E h \in DOMAIN live :
        /\ live[h].t # "int" /\ Room(1)
        /\ \E i \in DOMAIN Args[live[h].t] :
            LET at == live[h].clo.pb + getParamBufBaseIdx(Args[live[h].t], i)
            IN  /\ Args[live[h].t][i] = "int"
                /\ Hold("int", [off |-> Get(Mem, at, 1)[1], xlate |-> Null, pb |-> Null],
                        live[h].val.args[i])
        /\ UNCHANGED <<memo_f, loaded, heap, regions, fresh, over, memo_val>>

(* A function that returns a closure of the program: the caller's RETCLO.  *)
codeGenClosureRetCall ==
    \E h \in DOMAIN live :
        LET l == live[h]
            c == [l.clo EXCEPT !.pb = Brk(Mem)]
        IN  /\ l.t # "int" /\ Room(1)
            /\ SetMem(copyClosure(alloca(Mem, getParamBufEntryCount(l.t)), l.t, l.clo, c))
            /\ Hold(l.t, c, l.val)
            /\ UNCHANGED <<memo_f, loaded, fresh, memo_val>>

(* The closure an entry of the table holds. *)
TabClosure(i) ==
    LET b == getFuncIdx(i) IN [off |-> heap[b], pb |-> heap[b + 1], xlate |-> heap[b + 2]]

(* fsl_do_memo: the next function runs and returns into its entry.         *)
StoreMemo(i, clo, val) ==
    LET f == memo_f[i]  b == getFuncIdx(i)
        p == IF f.ret = "int" THEN Put(Mem, b, <<clo.off>>)
             ELSE copyClosure(Put(Mem, b, <<clo.off, b + RT_CLO_ELEMS, clo.xlate>>), f.ret, clo,
                              [clo EXCEPT !.pb = b + RT_CLO_ELEMS])
    IN  SetMem(p) /\ loaded' = i /\ memo_val' = Append(memo_val, val)

Callable == loaded < Len(memo_f)

(* The function returns something of its own. *)
MemoOwn ==
    /\ Callable /\ memo_f[loaded + 1].calls = 0
    /\ \E h \in DOMAIN live :
        /\ live[h].t = memo_f[loaded + 1].ret
        /\ StoreMemo(loaded + 1, live[h].clo, <<live[h].val>>)
    /\ UNCHANGED <<memo_f, live, fresh>>

(* It returns what another one returns: memoCallPrim and memoCallType read *)
(* the table, whether or not the other has been called.                    *)
MemoCall ==
    /\ Callable /\ memo_f[loaded + 1].calls # 0
    /\ LET j == memo_f[loaded + 1].calls
       IN  StoreMemo(loaded + 1,
                     IF memo_f[j].ret = "int" THEN [off |-> heap[getFuncIdx(j)], xlate |-> Null, pb |-> Null]
                     ELSE TabClosure(j),
                     IF j <= loaded THEN memo_val[j] ELSE None)
    /\ UNCHANGED <<memo_f, live, fresh>>

(* Later, any function calls one of them. *)
memoFuncCall ==
    \E i \in DOMAIN memo_f :
        /\ loaded = Len(memo_f) /\ Room(1) /\ memo_val[i] # None
        /\ \/ /\ memo_f[i].ret = "int"
              /\ Hold("int", [off |-> heap[getFuncIdx(i)], xlate |-> Null, pb |-> Null],
                      memo_val[i][1])
              /\ UNCHANGED <<heap, regions, over>>
           \/ /\ memo_f[i].ret # "int"
              /\ LET c == [TabClosure(i) EXCEPT !.pb = Brk(Mem)]
                 IN  /\ SetMem(copyClosure(alloca(Mem, getParamBufEntryCount(memo_f[i].ret)),
                                           memo_f[i].ret, TabClosure(i), c))
                     /\ Hold(memo_f[i].ret, c, memo_val[i][1])
        /\ UNCHANGED <<memo_f, loaded, fresh, memo_val>>

ParamsNext ==
    \/ Number \/ Field \/ loadArgsFromArray \/ extractParamVal \/ codeGenClosureRetCall
    \/ MemoOwn \/ MemoCall \/ memoFuncCall

-----------------------------------------------------------------------------
(* The words a value is: an argument that is a closure lies in the buffer  *)
(* with its own arguments after it.                                        *)
RECURSIVE Flat(_, _)
FlatArgs(t, v) == FlattenSeq([i \in DOMAIN Args[t] |-> Flat(Args[t][i], v.args[i])])
Flat(ty, v)    == IF ty = "int" THEN <<v>> ELSE <<v.off, v.xlate>> \o FlatArgs(ty, v)

Stands(t, clo, val) ==
    IF t = "int" THEN clo.off = val
    ELSE /\ clo.off = val.off /\ clo.xlate = val.xlate
         /\ LET w == FlatArgs(t, val) IN Get(Mem, clo.pb, Len(w)) = w

(* However often closures were packed into one another, unpacked, returned *)
(* and kept, each still has the offset, the translation and the arguments  *)
(* it was made with: what one routine counts as entries of the buffer is   *)
(* what the others count, and no store or copy leaves its buffer.          *)
ArgsSurvive ==
    /\ (\A i \in DOMAIN memo_val : memo_val[i] # None) => ~over
    /\ \A h \in DOMAIN live : Stands(live[h].t, live[h].clo, live[h].val)

(* Once the table is loaded every entry has its function's value, with no  *)
(* entry written over by another; a function that calls one declared after *)
(* it has none: it keeps the zeroes it read, and if the closure it read    *)
(* has arguments it copied them from a null pointer.                       *)
MemoExact ==
    \A i \in 1 .. loaded :
        IF memo_f[i].ret = "int"
        THEN heap[getFuncIdx(i)] = (IF memo_val[i] = None THEN 0 ELSE memo_val[i][1])
        ELSE IF memo_val[i] = None THEN TabClosure(i).off = 0
        ELSE Stands(memo_f[i].ret, TabClosure(i), memo_val[i][1])
=============================================================================
