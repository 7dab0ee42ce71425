------------------------------ MODULE Compiler ------------------------------
(***************************************************************************)
(* Four parts of the FSL compiler, in the order main() runs them: the      *)
(* layout of types (Layout), the resolution of names (Resolve), the blocks *)
(* of functions (CodeGen) and the passing of closures in the code that     *)
(* results (Params).  They hand each other finished tables and             *)
(* expressions and share no state while they work, so a behaviour is one   *)
(* of them at work; the variables of the others stay as they are.          *)
(***************************************************************************)
EXTENDS Integers, FiniteSets, Sequences

CONSTANTS
    Descs, Insts, Word, ByteBits, Rest,                         \* Layout
    Syms, ArgTypes, Base, PrimBits, Funcs, Scopes, Names,       \* Resolve
    Conds, Exprs, MaxStmts, MaxEvals,                            \* CodeGen
    Args, MaxLive, MemoLists                                    \* Params

VARIABLES
    pass,
    desc, inst, pos, last_tf, last_tf_union_off, cond_stack, ifs, union_c, weak_c, fn, symtab,
    num_fields, stop,                                           \* Layout
    scope, path, at, top, parent, outcome,                      \* Resolve
    toks, gen, open, phase,                                     \* CodeGen
    memo_f, loaded, heap, regions, live, fresh, over, memo_val  \* Params

Lay == INSTANCE Layout
Res == INSTANCE Resolve
Cod == INSTANCE CodeGen
Par == INSTANCE Params

ASSUME CompilerAssumption ==
    /\ ByteBits \in Nat \ {0} /\ Word \in Nat \ {0} /\ Rest \in 0 .. Word - 1
    /\ MaxStmts \in Nat /\ MaxEvals \in Nat /\ MaxLive \in Nat
    /\ DOMAIN Syms = DOMAIN ArgTypes /\ DOMAIN Syms = DOMAIN Base /\ "disk" \in DOMAIN Syms

(* A part that is not at work has been given nothing. *)
IdleLayout  == Lay!Begin(<<>>, CHOOSE i \in Insts : TRUE)
IdleResolve == Res!Ask(CHOOSE s \in Scopes : TRUE, <<>>)
IdleParams  == Par!Program(<<>>)

Init ==
    \/ pass = "layout"  /\ Lay!LayoutInit /\ IdleResolve /\ Cod!CodeInit /\ IdleParams
    \/ pass = "resolve" /\ IdleLayout /\ Res!ResolveInit /\ Cod!CodeInit /\ IdleParams
    \/ pass = "code"    /\ IdleLayout /\ IdleResolve /\ Cod!CodeInit /\ IdleParams
    \/ pass = "params"  /\ IdleLayout /\ IdleResolve /\ Cod!CodeInit /\ Par!ParamsInit

layouting == <<desc, inst, pos, last_tf, last_tf_union_off, cond_stack, ifs, union_c, weak_c, fn,
               symtab, num_fields, stop>>
resolving == <<scope, path, at, top, parent, outcome>>
coding    == <<toks, gen, open, phase>>
passing   == <<memo_f, loaded, heap, regions, live, fresh, over, memo_val>>
vars      == <<pass, layouting, resolving, coding, passing>>

LayoutStep  == pass = "layout"  /\ Lay!LayoutNext  /\ UNCHANGED <<pass, resolving, coding, passing>>
ResolveStep == pass = "resolve" /\ Res!ResolveNext /\ UNCHANGED <<pass, layouting, coding, passing>>
CodeStep    == pass = "code"    /\ Cod!CodeNext    /\ UNCHANGED <<pass, layouting, resolving, passing>>
ParamsStep  == pass = "params"  /\ Par!ParamsNext  /\ UNCHANGED <<pass, layouting, resolving, coding>>

Next == LayoutStep \/ ResolveStep \/ CodeStep \/ ParamsStep
Spec == Init /\ [][Next]_vars

-----------------------------------------------------------------------------
(* The offset thunk of a field is where a cursor that passes over the      *)
(* present fields before it arrives, and fails for absent fields; the size *)
(* thunk of a type is the number of bits that cursor passes over, and the  *)
(* fields in the table the scanner walks do not overlap in an object.  The *)
(* compiler stops at exactly the fragments it cannot express: unions in an *)
(* if or a union, arrays, conditions and offset functions in a union, and  *)
(* the others Layout names.                                                *)
LayoutExact ==
    pass = "layout" =>
        Lay!LayoutExact /\ Lay!SizeExact /\ Lay!ScanDisjoint /\ Lay!StopsExplained

(* A right path is resolved to the place it means, and one that goes wrong *)
(* behind its head is silently cut to the last field that was right.  The  *)
(* type found for a path without resolving it is the type it resolves to   *)
(* (Resolve).                                                              *)
PathExact ==
    pass = "resolve" => Res!PathExact /\ Res!WrongPathsAreCut /\ Res!TypesAgree

(* Every block of a function gets one terminator and every phi names its   *)
(* predecessors, except for the functions CodeGen calls misshapen; and     *)
(* well-formed code makes the comparisons and assignments of its source in *)
(* their order and returns its value.                                      *)
CodeMeansSource == pass = "code" => Cod!CodeClosed /\ Cod!CodeMeansSource

(* Closures packed, unpacked, returned and kept still have the arguments   *)
(* they were made with, and no copy leaves its buffer (Params).            *)
ArgsSurvive == pass = "params" => Par!ArgsSurvive

(* Every entry of the loaded memo table has the value of its function,     *)
(* unless the function calls one declared after it (Params).               *)
MemoExact == pass = "params" => Par!MemoExact
=============================================================================
