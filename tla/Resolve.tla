------------------------------- MODULE Resolve -------------------------------
(***************************************************************************)
(* How the compiler turns a name into a place: EvalCtx (evalctx.cc) finds  *)
(* what the head of a path is, TypeStack and TypeBase (type_stack.cc)      *)
(* follow the rest of it field by field.                                   *)
(*                                                                         *)
(* The expressions built are the values they have for one program state: a *)
(* closure is [off, arg, virt], arg being the value of the argument k of   *)
(* its type.  Thunks (Offset, Params, Size) are functions of the closure   *)
(* they are called with, as the thunks of Layout are.                      *)
(***************************************************************************)
EXTENDS Integers, FiniteSets, Sequences, SequencesExt, TLC

CONSTANTS
    Syms,       \* symbol tables: type -> field -> [ty, single, fixed, rel, shift, arg]
    ArgTypes,   \* the arguments of a type: type -> name -> "int" or a type
    Base,       \* how a type's size starts; it grows with the argument
    PrimBits,   \* the size of every primitive field
    Funcs,      \* functions: name -> [ret, clo]; clo is what the call returns
    Scopes,     \* evaluation contexts: [kind, ty, this, vars]; kind is type, func or packet
    Names       \* paths: sequences of [name, idx]; a call is a head with idx = Call

VARIABLES
    scope, path,
    at,         \* the components of the path that are behind
    top,        \* TypeStack::getTop(): [ty, sym, clo, value]
    parent,     \* parent_closure
    outcome     \* "" while it goes on; "closure", "read", "value", "null", "assert"

rsv == <<scope, path, at, top, parent, outcome>>

NoIdx == -1
Call  == -2
Prim  == "prim"     \* getType() = NULL
NoTop == <<>>

Known(t, f) == t \in DOMAIN Syms /\ f \in DOMAIN Syms[t]
TheDisk     == [off |-> 0, arg |-> 0, virt |-> 0]      \* mkBaseClosure

-----------------------------------------------------------------------------
(* The thunks. *)
Offset(t, f, clo) == clo.off + Syms[t][f].rel + (IF Syms[t][f].shift THEN clo.arg ELSE 0)
Params(t, f, clo, i) ==
    CASE Syms[t][f].arg = "none" -> 0 [] Syms[t][f].arg = "idx" -> i [] Syms[t][f].arg = "own" -> clo.arg
TypeSize(ty, arg) == IF ty = Prim THEN PrimBits ELSE Base[ty] + arg
SizeOf(t, f, clo) == TypeSize(Syms[t][f].ty, Params(t, f, clo, 0))

computeArrayBits(t, f, clo, n) ==
    FoldLeft(LAMBDA s, i : s + TypeSize(Syms[t][f].ty, Params(t, f, clo, i - 1)), 0, [i \in 1 .. n |-> i])

(* setNewOffsetsArray: where element i is.                                 *)
MutElement(t, f, clo, i) == Offset(t, f, clo) + (SizeOf(t, f, clo) * i)

Element(t, f, clo, i) ==
    IF Syms[t][f].ty = Prim \/ Syms[t][f].fixed THEN Offset(t, f, clo) + (SizeOf(t, f, clo) * i)
    ELSE Offset(t, f, clo) + computeArrayBits(t, f, clo, i)

(* setNewOffsets: replaceClosure has put 0 for the index into the call of  *)
(* the params thunk before setNewOffsetsArray looks for "@" in it.         *)
CanFollow(t, f, i) == Syms[t][f].single <=> i = NoIdx
setNewOffsets(t, f, clo, i) ==
    [clo EXCEPT !.off = IF i = NoIdx THEN Offset(t, f, clo) ELSE Element(t, f, clo, i),
                !.arg = Params(t, f, clo, 0)]

-----------------------------------------------------------------------------
Ask(s, p) ==
    /\ scope = s /\ path = p
    /\ at = 0 /\ top = NoTop /\ parent = TheDisk /\ outcome = ""

ResolveInit == \E s \in Scopes, p \in Names : Ask(s, p)

Start == at = 0 /\ outcome = ""
Head1 == path[1]
End(o) == outcome' = o /\ UNCHANGED <<scope, path, at, top, parent>>

SetHead(t, sym, clo, p) ==
    /\ top' = [ty |-> t, sym |-> sym, clo |-> clo, value |-> FALSE]
    /\ parent' = p /\ at' = 1
    /\ UNCHANGED <<scope, path, outcome>>

InVars  == Head1.name \in DOMAIN scope.vars /\ scope.vars[Head1.name].ty # "int"
InType  == scope.kind = "type" /\ Known(scope.ty, Head1.name)
IsPath  == Len(path) > 1
Callee  == Head1.name \in DOMAIN Funcs /\ Funcs[Head1.name].ret # "int"
Plain1  == Head1.idx # Call

(* A call at the head. *)
resolveIdStructFHead ==
    /\ Start /\ IsPath /\ Head1.idx = Call
    /\ \/ ~Callee /\ End("null")
       \/ Callee /\ LET f == Funcs[Head1.name] IN SetHead(f.ret, FALSE, f.clo, f.clo)

(* The arguments of the type, or what the scope of a statement holds.      *)
resolveIdStructVarScope ==
    /\ Start /\ IsPath /\ Plain1 /\ scope.kind # "func" /\ InVars
    /\ LET v == scope.vars[Head1.name] IN SetHead(v.ty, FALSE, v.clo, v.clo)

(* A field of the type; what setNewOffsets returns is not looked at.       *)
resolveIdStructCurScope ==
    /\ Start /\ IsPath /\ Plain1 /\ ~InVars /\ InType
    /\ SetHead(Syms[scope.ty][Head1.name].ty, TRUE,
               IF CanFollow(scope.ty, Head1.name, Head1.idx)
               THEN setNewOffsets(scope.ty, Head1.name, scope.this, Head1.idx) ELSE scope.this,
               scope.this)

resolveIdStructFunc ==
    /\ Start /\ IsPath /\ Plain1 /\ scope.kind = "func" /\ InVars
    /\ \/ Head1.idx # NoIdx /\ End("null")
       \/ Head1.idx = NoIdx /\ LET v == scope.vars[Head1.name] IN SetHead(v.ty, FALSE, v.clo, v.clo)

(* The end of resolveTypeStack: a type of that name, which must be disk.   *)
resolveGlobal ==
    /\ Start /\ IsPath /\ Plain1 /\ ~InVars /\ ~InType
    /\ \/ (Head1.idx # NoIdx \/ Head1.name \notin DOMAIN Syms) /\ End("null")
       \/ Head1.idx = NoIdx /\ Head1.name \in DOMAIN Syms \ {"disk"} /\ End("assert")
       \/ Head1.idx = NoIdx /\ Head1.name = "disk" /\ SetHead("disk", FALSE, TheDisk, TheDisk)

-----------------------------------------------------------------------------
(* followIdIdx, and the loop of resolveTail that calls it: a component     *)
(* that cannot be followed ends the loop, with what was reached so far.    *)
Nxt == path[at + 1]
Ended == at = Len(path) \/ top.ty = Prim
HasField == Known(top.ty, Nxt.name)
NamesArg == ~Ended /\ ~HasField /\ Nxt.name \in DOMAIN ArgTypes[top.ty]

Follows == ~Ended /\ HasField /\ CanFollow(top.ty, Nxt.name, Nxt.idx)

Resolving == at > 0 /\ outcome = ""

followField ==
    /\ Resolving /\ Follows
    /\ top' = [ty |-> Syms[top.ty][Nxt.name].ty, sym |-> TRUE, value |-> FALSE,
               clo |-> setNewOffsets(top.ty, Nxt.name, top.clo, Nxt.idx)]
    /\ at' = at + 1
    /\ UNCHANGED <<scope, path, parent, outcome>>

followArg ==
    /\ Resolving /\ NamesArg
    /\ \/ ArgTypes[top.ty][Nxt.name] # "int" /\ End("assert")
       \/ /\ ArgTypes[top.ty][Nxt.name] = "int"
          /\ top' = [ty |-> Prim, sym |-> FALSE, value |-> TRUE,
                     clo |-> [top.clo EXCEPT !.off = top.clo.arg]]
          /\ at' = at + 1
          /\ UNCHANGED <<scope, path, parent, outcome>>

Stuck == Resolving /\ ~Follows /\ ~NamesArg

(* resolveVal(const IdStruct* ), after the type stack: a value, a closure, *)
(* or a read at the offset.  resolveLoc ends like it.                      *)
resolveVal ==
    /\ Stuck
    /\ \/ top.value /\ End("value")
       \/ ~top.value /\ ~top.sym /\ End("assert")
       \/ ~top.value /\ top.sym /\ End(IF top.ty = Prim THEN "read" ELSE "closure")

-----------------------------------------------------------------------------
(* resolveVal(const Id* ): a name alone. *)
Answer(o, ty, clo) ==
    /\ top' = [ty |-> ty, sym |-> TRUE, clo |-> clo, value |-> FALSE]
    /\ outcome' = o /\ at' = 1 /\ UNCHANGED <<scope, path, parent>>

resolveId ==
    /\ Start /\ ~IsPath /\ Head1.idx = NoIdx
    /\ \/ scope.kind = "type" /\ Head1.name = "this" /\ Answer("closure", scope.ty, scope.this)
       \/ /\ InType /\ Head1.name # "this"
          /\ Answer(IF Syms[scope.ty][Head1.name].ty = Prim THEN "read" ELSE "closure",
                    Syms[scope.ty][Head1.name].ty,
                    [scope.this EXCEPT !.off = Offset(scope.ty, Head1.name, scope.this),
                                       !.arg = Params(scope.ty, Head1.name, scope.this, 0)])
       \/ /\ scope.kind = "func" /\ Head1.name \in DOMAIN scope.vars
          /\ Answer("closure", scope.vars[Head1.name].ty, scope.vars[Head1.name].clo)
       \/ /\ ~InType /\ ~(scope.kind = "type" /\ Head1.name = "this")
          /\ ~(scope.kind = "func" /\ Head1.name \in DOMAIN scope.vars)
          /\ CASE Head1.name = "disk" -> Answer("closure", "disk", TheDisk)
               [] Head1.name \in DOMAIN Syms \ {"disk"} -> End("assert")
               [] OTHER -> End("null")

(* resolveVal(const IdArray* ), resolveArrayInType: here the index is the  *)
(* argument of the params thunk.                                           *)
resolveArrayInType ==
    /\ Start /\ ~IsPath /\ Head1.idx >= 0
    /\ \/ ~InType /\ End("assert")
       \/ /\ InType
          /\ Answer(IF Syms[scope.ty][Head1.name].ty = Prim THEN "read" ELSE "closure",
                    Syms[scope.ty][Head1.name].ty,
                    [scope.this EXCEPT !.off = Element(scope.ty, Head1.name, scope.this, Head1.idx),
                                       !.arg = Params(scope.ty, Head1.name, scope.this, Head1.idx)])

ResolveNext ==
    \/ resolveIdStructFHead \/ resolveIdStructVarScope \/ resolveIdStructCurScope
    \/ resolveIdStructFunc \/ resolveGlobal \/ followField \/ followArg \/ resolveVal
    \/ resolveId \/ resolveArrayInType

-----------------------------------------------------------------------------
(* getType: what the type of a name is, found without resolving it.        *)
Unknown == "unknown"

getTypeId(n) ==
    CASE scope.kind = "type" /\ n = "this" -> scope.ty
      [] scope.kind = "type" /\ n # "this" /\ Known(scope.ty, n) -> Syms[scope.ty][n].ty
      [] OTHER ->
            IF scope.kind # "packet" /\ n \in DOMAIN scope.vars
            THEN IF scope.vars[n].ty = "int" THEN Unknown ELSE scope.vars[n].ty
            ELSE IF n \in DOMAIN Syms THEN n ELSE Unknown

getTypeHead ==
    IF Head1.idx # Call THEN getTypeId(Head1.name)
    ELSE IF Head1.name \in DOMAIN Funcs THEN Funcs[Head1.name].ret ELSE Unknown

TypeStep(t, c) == IF Known(t, c.name) THEN Syms[t][c.name].ty ELSE Unknown

getTypeIdStruct == FoldLeft(TypeStep, getTypeHead, Tail(path))

-----------------------------------------------------------------------------
(* What a path means: the closure of its head, then every component in     *)
(* turn, an element of an array having its own index for an argument.      *)
Right(t, f, clo, i) ==
    LET n == IF i = NoIdx THEN 0 ELSE i
    IN  [clo EXCEPT !.off = Offset(t, f, clo) + computeArrayBits(t, f, clo, n),
                    !.arg = Params(t, f, clo, n)]

HeadMeans ==
    CASE Head1.idx = Call -> [ty |-> Funcs[Head1.name].ret, clo |-> Funcs[Head1.name].clo]
      [] Head1.idx # Call /\ InVars ->
            [ty |-> scope.vars[Head1.name].ty, clo |-> scope.vars[Head1.name].clo]
      [] Head1.idx # Call /\ ~InVars /\ InType ->
            [ty |-> Syms[scope.ty][Head1.name].ty, clo |-> Right(scope.ty, Head1.name, scope.this, Head1.idx)]
      [] OTHER -> [ty |-> "disk", clo |-> TheDisk]

Walk(m, c) ==
    IF Known(m.ty, c.name) THEN [ty |-> Syms[m.ty][c.name].ty, clo |-> Right(m.ty, c.name, m.clo, c.idx)]
    ELSE [ty |-> Prim, clo |-> [m.clo EXCEPT !.off = m.clo.arg]]

Meaning(n) == FoldLeft(Walk, HeadMeans, SubSeq(path, 2, n))

(* The components that are what the language asks for: a field of the type *)
(* reached, with an index exactly when it is an array, or an argument.     *)
Fits(n) ==
    LET m == Meaning(n - 1)  c == path[n]
    IN  /\ m.ty # Prim
        /\ \/ Known(m.ty, c.name) /\ CanFollow(m.ty, c.name, c.idx)
           \/ ~Known(m.ty, c.name) /\ c.name \in DOMAIN ArgTypes[m.ty] /\ ArgTypes[m.ty][c.name] = "int"
HeadFits ==
    CASE Head1.idx = Call -> Callee
      [] Head1.idx # Call /\ InVars -> Head1.idx = NoIdx
      [] Head1.idx # Call /\ ~InVars /\ InType -> CanFollow(scope.ty, Head1.name, Head1.idx)
      [] OTHER -> Head1.name = "disk" /\ Head1.idx = NoIdx
Good == HeadFits /\ \A n \in 2 .. Len(path) : Fits(n)

(* A component that is an element of an array whose type is told its index. *)
ToldIndex(t, c) == Known(t, c.name) /\ c.idx > 0 /\ Syms[t][c.name].arg = "idx"
Indexed ==
    \/ InType /\ ~InVars /\ ToldIndex(scope.ty, Head1)
    \/ \E n \in 2 .. Len(path) : ToldIndex(Meaning(n - 1).ty, path[n])

Resolved == outcome \in {"closure", "read", "value"}

(* A path that is right is resolved to the place it means, and read        *)
(* through the translation of its head, whatever mixture of scopes,        *)
(* fields, arrays of fixed and of varying elements and arguments it is.    *)
(* Excepted are paths through an element, other than the first, of an      *)
(* array whose type is told the element's index: the arguments are those   *)
(* of element 0 (setNewOffsets).  The same element named without a path    *)
(* (resolveArrayInType) has its own.                                       *)
PathExact ==
    /\ IsPath /\ Good /\ ~Indexed /\ outcome # ""
           => Resolved /\ top.clo = Meaning(Len(path)).clo /\ parent.virt = top.clo.virt
    /\ ~IsPath /\ InType /\ Head1.idx >= 0 /\ outcome # ""
           => top.clo = Right(scope.ty, Head1.name, scope.this, Head1.idx)

(* A path that is wrong after its head (no such field, an index too many,  *)
(* or one missing) is not refused when a field came before the mistake: it *)
(* means the last field that was right.                                    *)
WrongPathsAreCut ==
    IsPath /\ HeadFits /\ ~Good /\ ~Indexed /\ outcome # "" =>
        LET n == CHOOSE n \in 1 .. Len(path) - 1 : ~Fits(n + 1) /\ \A k \in 2 .. n : Fits(k)
            m == Meaning(n)
        IN  \/ Resolved /\ at = n /\ top.clo = m.clo
            \/ outcome = "assert" /\ (n = 1 \/ path[n + 1].name \in DOMAIN ArgTypes[m.ty])

(* The type found without resolving a path is the type it resolves to,     *)
(* unless an argument has the name of a field of the type, or the path     *)
(* begins at an argument of a write packet.                                *)
TypesAgree ==
    IsPath /\ Good /\ outcome \in {"closure", "read"} /\ ~(InVars /\ (InType \/ scope.kind = "packet"))
        => getTypeIdStruct = top.ty
=============================================================================
