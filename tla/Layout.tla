------------------------------- MODULE Layout -------------------------------
(***************************************************************************)
(* How the compiler lays a type out: the walk of SymTabThunkBuilder over   *)
(* the statements of a type (symtab_thunkbuilder.cc), the thunk functions  *)
(* it registers for every field (thunk_*.cc), the symbol table the field   *)
(* tables are made of (symtab.cc, table_gen.cc), and what the runtime adds *)
(* (__computeArrayBits, __max2 .. __max7).                                 *)
(*                                                                         *)
(* A description is a sequence of statements: a block's braces are the     *)
(* "if", "else", "fi", "union" and "end" statements.  A thunk function is  *)
(* an expression over the closure it is called with; here it is the value  *)
(* it has for one closure, the instance: where it starts, which conditions *)
(* hold, the value of the array bound, the sizes of its records.  Thunks   *)
(* call each other by name, which is what fn is for.  Fail is the abort of *)
(* fsl_fail and of a failed assertion in a thunk.                          *)
(***************************************************************************)
EXTENDS Integers, FiniteSets, Sequences, SequencesExt, TLC

CONSTANTS
    Descs,      \* the descriptions the compiler is given
    Insts,      \* instances: [base, holds, n, recs, phys]
    Word,       \* 2^64: thunks compute in unsigned 64-bit integers
    ByteBits,   \* 8
    Rest        \* the number an array bound  Rest - from_base_bits()  starts from

VARIABLES
    desc, inst, pos,    \* the type being compiled; the closure; the statement visited next
    last_tf,            \* the thunk field the next offset is computed from
    last_tf_union_off,  \* the offset all members of the open union share, or None
    cond_stack,         \* the conditions around the statement, by their values
    ifs,                \* what the open visits of TypeCond hold in their locals
    union_c, weak_c,
    fn,                 \* thunkfuncs_map: the functions of a field, by its name
    symtab, num_fields,
    stop                \* "" or why the compiler stopped here

lyv == <<desc, inst, pos, last_tf, last_tf_union_off, cond_stack, ifs, union_c, weak_c, fn,
         symtab, num_fields, stop>>

Fail  == -1
None  == -2
BASE  == 0             \* the name "__base"; fields have positive names
Fresh == -pos          \* the name of an invisible field: __rebase_T_7, __align_bits_7

Prims == {"bit", "word"}      \* ctypes_map
Users == {"rec", "fix"}       \* types_map; a rec takes an argument, its index, and has one of two sizes
NumArgs(t)  == IF t = "rec" THEN 1 ELSE 0
Size(t, i)  ==
    CASE t = "bit" -> 1 [] t = "word" -> 2 [] t = "fix" -> 3 [] t = "rec" -> inst.recs[(i % 2) + 1]
Tok         == desc[pos]
Running     == pos <= Len(desc) /\ stop = ""
Seen(name)  == name \in DOMAIN fn

(* AOPAdd, AOPSub, AOPMul, AOPMod; an argument that aborts aborts the call. *)
Arith(v, a, b) == IF Fail \in {a, b} THEN Fail ELSE v % Word
AOPAdd(a, b)   == Arith(a + b, a, b)
AOPSub(a, b)   == Arith(a - b, a, b)
AOPMul(a, b)   == Arith(a * b, a, b)
AOPMod(a, b)   == IF Fail \in {a, b} THEN Fail ELSE a % b

-----------------------------------------------------------------------------
(* max.c *)
max2(a, b) == IF a > b THEN a ELSE b

max3(a) ==
    CASE a[1] >= a[2] /\ a[1] >= a[3] -> a[1]
      [] ~(a[1] >= a[2] /\ a[1] >= a[3]) /\ a[2] >= a[1] /\ a[2] >= a[3] -> a[2]
      [] OTHER -> a[3]

max4(a) ==
    LET Top(i) == \A j \in 1 .. 4 : a[i] >= a[j]
    IN  IF Top(1) THEN a[1] ELSE IF Top(2) \/ Top(3) THEN a[2] ELSE a[4]

maxValue(a) ==
    CASE Len(a) = 2 -> max2(a[1], a[2])
      [] Len(a) = 3 -> max3(a)
      [] OTHER      -> FoldLeft(max2, max4(a), SubSeq(a, 5, Len(a)))

-----------------------------------------------------------------------------
SumSizes(ty, n) == ((n \div 2) * (Size(ty, 0) + Size(ty, 1))) + ((n % 2) * Size(ty, 0))

(* __computeArrayBits: the field is found by its number in the table of    *)
(* all fields; the sizes of the elements are added up, the argument of     *)
(* each being its index.                                                   *)
computeArrayBits(t, f) ==
    IF t.num + 1 \notin DOMAIN symtab \/ Fail \in {f.off, f.elems} THEN Fail
    ELSE IF symtab[t.num + 1].num # t.num THEN Fail
    ELSE SumSizes(t.ty, f.elems) % Word

copyNumBits(t) ==
    LET f == fn[t.name]
    IN  CASE t.single            -> f.size
          [] ~t.single /\ t.flat -> AOPMul(f.size, f.elems)
          [] OTHER               -> computeArrayBits(t, f)

copyNextOffset(t) == AOPAdd(fn[t.name].off, copyNumBits(t))

copyCurrentOffset == IF union_c > 0 THEN last_tf_union_off ELSE copyNextOffset(last_tf)
copyFromBase      == AOPSub(copyCurrentOffset, inst.base)
getConds          == \A i \in DOMAIN cond_stack : cond_stack[i]

-----------------------------------------------------------------------------
Begin(d, i) ==
    /\ desc = d /\ inst = i /\ pos = 1 /\ stop = ""
    /\ last_tf = [name |-> BASE, single |-> FALSE, flat |-> TRUE, ty |-> "bit", num |-> Fail]
    /\ fn = (BASE :> [off |-> i.base, size |-> 0, elems |-> 0])
    /\ last_tf_union_off = None /\ cond_stack = <<>> /\ ifs = <<>> /\ union_c = 0 /\ weak_c = 0
    /\ symtab = <<>> /\ num_fields = 0

LayoutInit == \E d \in Descs, i \in Insts : Begin(d, i)

(* The compiler stops: a failed assertion, exit(), or freed memory used.   *)
Stop(why) == stop' = why /\ UNCHANGED <<desc, inst, pos, last_tf, last_tf_union_off, cond_stack,
                                        ifs, union_c, weak_c, fn, symtab, num_fields>>

(* registerFunc: the first functions of a name stay. *)
registerFunc(name, f) == fn' = IF Seen(name) THEN fn ELSE fn @@ (name :> f)

(* addToCurrentSymTab, its last overload: a name that is there already is  *)
(* not added, and nobody looks at what add() returned.                     *)
AddField(name, ty, single, flat, f) ==
    /\ registerFunc(name, f)
    /\ last_tf' = [name |-> name, single |-> single, flat |-> flat, ty |-> ty, num |-> num_fields]
    /\ num_fields' = num_fields + 1
    /\ symtab' = IF Seen(name) THEN symtab
                 ELSE Append(symtab, [name |-> name, num |-> num_fields, weak |-> weak_c > 0,
                                      cond |-> cond_stack # <<>>, user |-> ty \notin Prims])

(* createInvisible: functions without an entry of the symbol table.        *)
Invisible(off, size) ==
    /\ registerFunc(Fresh, [off |-> off, size |-> size, elems |-> 1])
    /\ last_tf' = [name |-> Fresh, single |-> TRUE, flat |-> TRUE, ty |-> "bit", num |-> Fail]
    /\ UNCHANGED <<symtab, num_fields>>

(* ThunkFieldOffset, or ThunkFieldOffsetCond with fsl_fail as the value of *)
(* a field that is not present.                                            *)
FieldOffset ==
    CASE last_tf_union_off # None              -> last_tf_union_off
      [] last_tf_union_off = None /\ getConds  -> copyCurrentOffset
      [] last_tf_union_off = None /\ ~getConds -> Fail

NumElems(t) ==
    CASE t.len = "one" -> 1
      [] t.len \in {"n", "fixed"} -> inst.n
      [] t.len = "rest" -> AOPSub(Rest, copyCurrentOffset)

(* addToCurrentSymTab, its first overload, argc being the number of        *)
(* expressions the declaration gives its type.  In a union the bound of an *)
(* array is handed the union's own offset, which rewriteReplace deletes    *)
(* while the other members still use it.                                   *)
AddDecl(t) ==
    /\ LET off == FieldOffset
       IN  AddField(t.name, t.ty, t.len = "one", t.ty \in Prims \/ t.len = "fixed",
                    [off |-> off, elems |-> NumElems(t),
                     size |-> IF t.ty \in Users /\ off = Fail THEN Fail ELSE Size(t.ty, 0)])
    /\ pos' = pos + 1
    /\ UNCHANGED <<desc, inst, last_tf_union_off, cond_stack, ifs, union_c, weak_c, stop>>

InUnion == last_tf_union_off # None

Declare(t, argc) ==
    \/ InUnion /\ cond_stack # <<>> /\ Stop("assert")
    \/ InUnion /\ cond_stack = <<>> /\ t.len # "one" /\ Stop("freed")
    \/ ~(InUnion /\ cond_stack # <<>>) /\ NumArgs(t.ty) \notin {0, argc} /\ Stop("exit")
    \/ /\ ~InUnion \/ (cond_stack = <<>> /\ t.len = "one")
       /\ NumArgs(t.ty) \in {0, argc}
       /\ AddDecl(t)

visit_TypeDecl      == Running /\ Tok.op = "decl" /\ Declare(Tok, 0)
visit_TypeParamDecl == Running /\ Tok.op = "pdecl" /\ Declare(Tok, Tok.argc)

-----------------------------------------------------------------------------
(* visit(const TypeCond* ): before the true statement, between the two, and *)
(* after them, where rebaseByCond makes the field later offsets start from. *)
CondTrue ==
    /\ Running /\ Tok.op = "if"
    /\ ifs' = Append(ifs, [val |-> Tok.c \in inst.holds, off |-> copyCurrentOffset, tf |-> last_tf,
                           true |-> last_tf, else |-> FALSE])
    /\ weak_c' = weak_c + 1
    /\ cond_stack' = Append(cond_stack, Tok.c \in inst.holds)
    /\ pos' = pos + 1
    /\ UNCHANGED <<desc, inst, last_tf, last_tf_union_off, union_c, fn, symtab, num_fields, stop>>

MutNoReset ==
    /\ Running /\ Tok.op = "else"
    /\ ifs' = [ifs EXCEPT ![Len(ifs)].true = last_tf, ![Len(ifs)].else = TRUE]
    /\ cond_stack' = Append(Front(cond_stack), ~Last(cond_stack))
    /\ pos' = pos + 1
    /\ UNCHANGED <<desc, inst, last_tf, last_tf_union_off, union_c, weak_c, fn, symtab, num_fields,
                   stop>>

CondFalse ==
    /\ Running /\ Tok.op = "else"
    /\ ifs' = [ifs EXCEPT ![Len(ifs)].true = last_tf, ![Len(ifs)].else = TRUE]
    /\ last_tf' = Last(ifs).tf
    /\ cond_stack' = Append(Front(cond_stack), ~Last(cond_stack))
    /\ pos' = pos + 1
    /\ UNCHANGED <<desc, inst, last_tf_union_off, union_c, weak_c, fn, symtab, num_fields, stop>>

rebaseByCond(i, t, f) ==
    LET holds == i.val /\ (\A k \in 1 .. Len(cond_stack) - 1 : cond_stack[k])
    IN  Invisible(IF holds THEN copyNextOffset(t)
                  ELSE IF i.else THEN copyNextOffset(f) ELSE i.off, 0)

CondEnd ==
    /\ Running /\ Tok.op = "fi"
    /\ LET i == Last(ifs) IN rebaseByCond(i, IF i.else THEN i.true ELSE last_tf, last_tf)
    /\ ifs' = Front(ifs) /\ cond_stack' = Front(cond_stack) /\ weak_c' = weak_c - 1
    /\ pos' = pos + 1
    /\ UNCHANGED <<desc, inst, last_tf_union_off, union_c, stop>>

-----------------------------------------------------------------------------
(* visit(const TypeUnion* ): before the members.  A union in a union is     *)
(* visited, but its type is never found again.                              *)
UnionBegin ==
    /\ Running /\ Tok.op = "union"
    /\ \/ union_c > 0 /\ Stop("assert")
       \/ /\ union_c = 0
          /\ last_tf_union_off' = copyCurrentOffset
          /\ weak_c' = weak_c + 1 /\ union_c' = 1 /\ pos' = pos + 1
          /\ UNCHANGED <<desc, inst, last_tf, cond_stack, ifs, fn, symtab, num_fields, stop>>

(* The sizes of the members of the union that ends at e: the table of the  *)
(* type the second getSymTab makes of it.                                  *)
MemberSizes(e) ==
    LET first == CHOOSE i \in 1 .. e : desc[i].op = "union" /\ \A j \in i + 1 .. e : desc[j].op # "union"
        decls == SelectSeq(SubSeq(desc, first, e), LAMBDA t : t.op \in {"decl", "pdecl"})
        table == FoldLeft(LAMBDA s, t : IF \E m \in ToSet(s) : m.name = t.name THEN s ELSE Append(s, t),
                          <<>>, decls)
    IN  [i \in DOMAIN table |-> Size(table[i].ty, 0)]

(* addUnionToSymTab, called after the visit of the members is over. *)
UnionEnd ==
    /\ Running /\ Tok.op = "end"
    /\ LET sizes == MemberSizes(pos)
       IN  \/ Len(sizes) \notin 2 .. 7 /\ Stop("codegen")
           \/ /\ Len(sizes) \in 2 .. 7
              /\ registerFunc(Tok.name, [off |-> last_tf_union_off, size |-> maxValue(sizes),
                                         elems |-> NumElems(Tok)])
              /\ last_tf' = [name |-> Tok.name, single |-> Tok.len = "one", flat |-> TRUE,
                             ty |-> "union", num |-> num_fields]
              /\ num_fields' = num_fields + 1
              /\ symtab' = IF Seen(Tok.name) THEN symtab
                           ELSE Append(symtab, [name |-> Tok.name, num |-> num_fields,
                                                weak |-> weak_c - 1 > 0, cond |-> cond_stack # <<>>,
                                                user |-> TRUE])
              /\ last_tf_union_off' = None /\ union_c' = 0 /\ weak_c' = weak_c - 1 /\ pos' = pos + 1
              /\ UNCHANGED <<desc, inst, cond_stack, ifs, stop>>

-----------------------------------------------------------------------------
(* visit(const TypeFunc* ) *)
ArgCount(f) ==
    CASE f \in {"set_bits", "set_bytes", "skip_bits", "skip_bytes", "align_bits", "align_bytes"} -> 1
      [] f = "pad_phys_bytes" -> 2
      [] OTHER -> 0          \* not in tbf_map

(* setupArgs: an argument is a number or from_base_bits(). *)
Here   == None
Arg(i) == IF Tok.args[i] = Here THEN copyFromBase ELSE Tok.args[i]

TBFAlignBits(a) == Invisible(copyCurrentOffset, AOPMod(AOPSub(a, copyFromBase), a))
TBFSetBits(a)   == Invisible(AOPAdd(inst.base, a), 0)
TBFSkipBits(a)  == Invisible(copyCurrentOffset, a)

toPhys(off) == AOPAdd(off, inst.phys)

TBFPadPhysBytes(align, min) ==
    LET rem == AOPSub(align, AOPMod(toPhys(copyCurrentOffset), align))
    IN  Invisible(copyCurrentOffset, CASE rem = Fail -> Fail [] rem < min -> rem [] OTHER -> 0)

doIt(f) ==
    LET Bits(i)  == Arg(i)
        Bytes(i) == AOPMul(Arg(i), ByteBits)
    IN  CASE f = "set_bits"       -> TBFSetBits(Bits(1))
          [] f = "set_bytes"      -> TBFSetBits(Bytes(1))
          [] f = "skip_bits"      -> TBFSkipBits(Bits(1))
          [] f = "skip_bytes"     -> TBFSkipBits(Bytes(1))
          [] f = "align_bits"     -> TBFAlignBits(Bits(1))
          [] f = "align_bytes"    -> TBFAlignBits(Bytes(1))
          [] f = "pad_phys_bytes" -> TBFPadPhysBytes(Bytes(1), Bytes(2))

(* An unknown function, or a wrong number of arguments, is reported and    *)
(* passed over.  In a union setupArgs deletes the offset of the union.     *)
visit_TypeFunc ==
    /\ Running /\ Tok.op = "func"
    /\ \/ /\ ArgCount(Tok.f) > 0 /\ union_c > 0
          /\ Stop("freed")
       \/ /\ ArgCount(Tok.f) = Len(Tok.args) /\ union_c = 0 /\ cond_stack # <<>>
          /\ Stop("assert")
       \/ /\ ArgCount(Tok.f) = 0 \/ ArgCount(Tok.f) # Len(Tok.args)
          /\ ~(ArgCount(Tok.f) > 0 /\ union_c > 0)
          /\ pos' = pos + 1
          /\ UNCHANGED <<desc, inst, last_tf, last_tf_union_off, cond_stack, ifs, union_c, weak_c,
                         fn, symtab, num_fields, stop>>
       \/ /\ ArgCount(Tok.f) = Len(Tok.args) /\ union_c = 0 /\ cond_stack = <<>>
          /\ doIt(Tok.f)
          /\ pos' = pos + 1
          /\ UNCHANGED <<desc, inst, last_tf_union_off, cond_stack, ifs, union_c, weak_c, stop>>

LayoutNext ==
    \/ visit_TypeDecl \/ visit_TypeParamDecl \/ visit_TypeFunc
    \/ CondTrue \/ CondFalse \/ CondEnd
    \/ UnionBegin \/ UnionEnd

(* getSymTab, after the visit: the size of the type.                       *)
Compiled  == pos > Len(desc) /\ stop = ""
ThunkSize == AOPSub(copyNextOffset(last_tf), inst.base)

(* genUserFieldsByType: the table the scanner and the browsers walk.       *)
StrongOrConditional == {e \in ToSet(symtab) : ~(e.weak /\ ~e.cond)}

-----------------------------------------------------------------------------
(* The layout a reader of the description expects: a cursor that passes    *)
(* over the fields in their order, in the branches that are taken.         *)
RefStart == [cur |-> inst.base, taken |-> <<>>, union |-> None, widest |-> 0, over |-> FALSE, at |-> <<>>]

Live(r) == \A i \in DOMAIN r.taken : r.taken[i]

RefBits(t, start) ==
    CASE t.len = "one" -> Size(t.ty, 0)
      [] t.len = "fixed" -> inst.n * Size(t.ty, 0)
      [] t.len = "n" -> FoldLeft(LAMBDA x, i : x + Size(t.ty, i - 1), 0, [i \in 1 .. inst.n |-> i])
      [] t.len = "rest" -> (Rest - (start - inst.base)) * Size(t.ty, 0)

NextMultiple(x, m) == CHOOSE y \in x .. x + m - 1 : y % m = 0

RefFunc(t, cur) ==
    LET a(i) == IF t.args[i] = Here THEN cur - inst.base ELSE t.args[i]
        unit == IF t.f \in {"set_bits", "skip_bits", "align_bits"} THEN 1 ELSE ByteBits
        v(i) == a(i) * unit
    IN  CASE ArgCount(t.f) = 0 \/ ArgCount(t.f) # Len(t.args) -> cur
          [] t.f \in {"set_bits", "set_bytes"}     -> inst.base + v(1)
          [] t.f \in {"skip_bits", "skip_bytes"}   -> cur + v(1)
          [] t.f \in {"align_bits", "align_bytes"} -> inst.base + NextMultiple(cur - inst.base, v(1))
          [] t.f = "pad_phys_bytes" ->
                LET edge == NextMultiple(cur + inst.phys + 1, v(1)) - inst.phys
                IN  IF edge - cur < v(2) THEN edge ELSE cur

RefStep(r, t) ==
    CASE t.op \in {"decl", "pdecl"} /\ r.union # None ->
            [r EXCEPT !.at = (t.name :> r.union) @@ @, !.widest = max2(@, RefBits(t, r.union))]
      [] t.op \in {"decl", "pdecl"} /\ r.union = None ->
            [r EXCEPT !.at = (t.name :> IF Live(r) THEN r.cur ELSE Fail) @@ @,
                      !.cur = IF Live(r) THEN @ + RefBits(t, r.cur) ELSE @,
                      !.over = @ \/ (t.len = "rest" /\ r.cur - inst.base > Rest)]
      [] t.op = "if"    -> [r EXCEPT !.taken = Append(@, t.c \in inst.holds)]
      [] t.op = "else"  -> [r EXCEPT !.taken = Append(Front(@), ~Last(@))]
      [] t.op = "fi"    -> [r EXCEPT !.taken = Front(@)]
      [] t.op = "union" -> [r EXCEPT !.union = r.cur, !.widest = 0]
      [] t.op = "end"   -> [r EXCEPT !.at = (t.name :> r.union) @@ @, !.union = None,
                                     !.cur = r.union + r.widest * (IF t.len = "one" THEN 1 ELSE inst.n)]
      [] t.op = "func"  -> [r EXCEPT !.cur = RefFunc(t, r.cur)]

Ref == FoldLeft(RefStep, RefStart, desc)

-----------------------------------------------------------------------------
(* What a description must keep clear of for its thunks to mean this.      *)
Declared     == SelectSeq(desc, LAMBDA t : t.op \in {"decl", "pdecl", "end"})
Distinct     == \A i, j \in DOMAIN Declared : Declared[i].name = Declared[j].name => i = j
Aligned(t)   == t.op = "func" /\ t.f \in {"align_bits", "align_bytes"} => Word % t.args[1] = 0
Slips(sizes) == Len(sizes) >= 4 /\ \A j \in {1, 2, 4} : sizes[3] > sizes[j]

Plain ==
    /\ Distinct
    /\ \A i \in DOMAIN desc : Aligned(desc[i])
    /\ (\E i \in DOMAIN Declared : Declared[i].len = "rest") => inst.base = 0 /\ ~Ref.over
    /\ \A e \in DOMAIN desc : desc[e].op = "end" => ~Slips(MemberSizes(e))

(* Whatever nesting of conditions, unions, arrays and offset functions     *)
(* came before it, a field's offset thunk (copyNextOffset, rebaseByCond)   *)
(* is where a cursor passing over the present fields arrives, and fails    *)
(* exactly for a field that is not present.  Four kinds of descriptions    *)
(* are excepted: names used twice, alignments that do not divide 2^64,     *)
(* from_base_bits() in the bound of an array away from the base, and the   *)
(* unions __max4 is wrong about.                                           *)
LayoutExact ==
    Compiled /\ Plain => \A e \in ToSet(symtab) : fn[e.name].off = Ref.at[e.name]

(* ... and the size thunk is the number of bits the cursor passed over. *)
SizeExact == Compiled /\ Plain => ThunkSize = AOPSub(Ref.cur, inst.base)

Bits(e) ==
    LET f == fn[e.name]
        d == CHOOSE t \in ToSet(Declared) : t.name = e.name
    IN  CASE f.off = Fail -> {}
          [] d.op = "end" -> f.off .. f.off + (f.size * f.elems) - 1
          [] OTHER        -> f.off .. f.off + RefBits(d, f.off) - 1

(* The fields of the table the scanner walks (getSymsStrongOrConditional)  *)
(* that are present share no bit, unless the description moves back.       *)
ScanDisjoint ==
    Compiled /\ Plain /\ (\A t \in ToSet(desc) : t.op = "func" => t.f \notin {"set_bits", "set_bytes"})
        => \A d, e \in StrongOrConditional : d # e => Bits(d) \cap Bits(e) = {}

Depth(i, open, close) ==
    Cardinality({j \in 1 .. i - 1 : desc[j].op = open}) - Cardinality({j \in 1 .. i - 1 : desc[j].op = close})

Unsupported(i) ==
    LET t == desc[i]  in_if == Depth(i, "if", "fi") > 0  in_union == Depth(i, "union", "end") > 0
    IN  \/ t.op = "union" /\ (in_if \/ in_union)
        \/ t.op = "if" /\ in_union
        \/ t.op \in {"decl", "pdecl"} /\ in_union /\ t.len # "one"
        \/ t.op = "func" /\ ArgCount(t.f) > 0 /\ (in_union \/ (in_if /\ ArgCount(t.f) = Len(t.args)))
        \/ t.op = "end" /\ Len(MemberSizes(i)) \notin 2 .. 7
        \/ t.op = "decl" /\ NumArgs(t.ty) # 0
        \/ t.op = "pdecl" /\ NumArgs(t.ty) \notin {0, t.argc}

(* The compiler stops only on what it cannot express: a union in an if or  *)
(* in a union, conditions, arrays or offset functions in a union, an       *)
(* offset function in an if, a union of one or of more than seven members, *)
(* and a type given the wrong number of arguments.                         *)
StopsExplained ==
    (Distinct /\ stop # "" => \E i \in DOMAIN desc : Unsupported(i)) /\
    (Compiled => ~\E i \in DOMAIN desc : Unsupported(i))
=============================================================================
