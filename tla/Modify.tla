------------------------------- MODULE Modify -------------------------------
(***************************************************************************)
(* The modify tool (tool/modify.c): a dotted path is looked up from the    *)
(* origin, element by element, first among the fields, then among the      *)
(* points-to ranges, then among the virtual types.  One run of the tool is *)
(* one step.  An element of a path may carry an index ("files[1]"), which  *)
(* only the search among the virtual types strips and nobody uses.         *)
(***************************************************************************)
EXTENDS Bridge

CONSTANTS
    Requests,       \* the paths asked for, behind the name of the origin
    Bare            \* the elements with an index, and their names

VARIABLES
    req,            \* the path of the run, <<"?">> before it
    found           \* where the primitive lies, -1 when it was not found

modifyvars == <<heap, nodes, held, req, found>>

get_name(e) == IF e \in DOMAIN Bare THEN Bare[e] ELSE e

(* find_field runs over as many entries as the complete table has, of the  *)
(* table without the weak fields: past its end when the name is not in it. *)
find_field(o, e) ==
    LET i == SelectInSeq(FieldAll(o), LAMBDA f : f.nm = e)
    IN  IF i = 0 /\ Len(o.tf) > Len(FieldAll(o)) THEN -1 ELSE i
find_pt(o, e) == SelectInSeq(o.pt, LAMBDA m : m.nm # "" /\ m.nm = e)
find_virt(o, e) == SelectInSeq(o.vt, LAMBDA v : v.nm # "" /\ v.nm = get_name(e))

Stopped(h) == h.st # "ok"

RECURSIVE lookup_(_, _, _), lookup(_, _, _)

(* __lookup: the parent stays with the caller. *)
Into(next, rest) == lookup(next.h, next.t, rest)
IntoField(next, f, rest) == IF f.typ = Prim \/ next.t = 0 THEN next ELSE Into(next, rest)
FieldsOf(h, t, o, e, rest) ==
    LET i == find_field(o, e)
        f == FieldAll(o)[i]
    IN  IF i = -1 THEN Null(Halt(h, "oob"), "OOB")
        ELSE IF i = 0 \/ (f.typ = Prim /\ rest # <<>>) THEN Null(h, "NOFIELD")
        ELSE IntoField(typeinfo_follow_field(h, t, f), f, rest)
lookup_fields(h, t, e, rest) == FieldsOf(h, t, Obj(h, t), e, rest)

PointsOf(h, t, o, e, rest) ==
    IF find_pt(o, e) = 0 THEN Null(h, "NOPOINTSTO")
    ELSE Into(typeinfo_follow_pointsto(h, t, o.pt[find_pt(o, e)], 0), rest)
lookup_pointstos(h, t, e, rest) == PointsOf(h, t, Obj(h, t), e, rest)

(* The rest is looked up in the parent, which the callee then frees. *)
lookup_virts(h, t, e, rest) ==
    IF find_virt(Obj(h, t), e) = 0 THEN Null(h, "NOVIRT") ELSE lookup(h, t, rest)

Settled(r) == r.t # 0 \/ Stopped(r.h)
OrVirts(r, t, e, rest) == IF Settled(r) THEN r ELSE lookup_virts(r.h, t, e, rest)
OrPointstos(r, t, e, rest) ==
    IF Settled(r) THEN r ELSE OrVirts(lookup_pointstos(r.h, t, e, rest), t, e, rest)
lookup_(h, t, path) ==
    IF path = <<>> \/ t = 0 THEN Null(Halt(h, "abort"), "ASSERT")
    ELSE OrPointstos(lookup_fields(h, t, Head(path), Tail(path)), t, Head(path), Tail(path))

\* Mutant: the parent is freed only when nothing was found.
KeepFound(r, t) == IF Settled(r) THEN r ELSE [r EXCEPT !.h = typeinfo_free(r.h, t)]

(* lookup: "takes ownership of cur_ti". *)
Disown(r, t) == IF Stopped(r.h) THEN r ELSE [r EXCEPT !.h = typeinfo_free(r.h, t)]
lookup(h, t, path) == Disown(lookup_(h, t, path), t)

Looked(g, path) == IF g.t = 0 THEN g ELSE lookup_(g.h, g.t, path)

(* tool_entry: what was found is printed, which wants a field, and freed,  *)
(* then the origin is.                                                     *)
modify_entry(path) ==
    /\ req = <<"?">>
    /\ req' = path
    /\ \E g \in {typeinfo_alloc_origin(heap)} : \E r \in {Looked(g, path)} :
        /\ found' = IF r.t # 0 THEN ti_phys_offset(r.h, r.t) ELSE -1
        /\ heap' = IF g.t = 0 \/ Stopped(r.h) THEN r.h
                   ELSE typeinfo_free(IF r.t = 0 THEN r.h ELSE typeinfo_free(r.h, r.t), g.t)
    /\ UNCHANGED <<nodes, held>>

ModifyInit == heap = NoHeap /\ nodes = <<>> /\ held = <<>> /\ req = <<"?">> /\ found = -1
ModifyNext == \E p \in Requests : modify_entry(p)

-----------------------------------------------------------------------------
(* A path of listed fields and of pointers, each with a first element that *)
(* verifies, that ends at a primitive: where the primitive lies, else -1.  *)
RECURSIVE PlainWalk(_, _, _, _)
PlainWalk(seen, typ, off, path) ==
    LET o == At(heap, typ, off)
        f == SelectInSeq(o.tf, LAMBDA x : ~x.weak /\ x.cond /\ x.nm = Head(path))
        m == SelectInSeq(o.pt, LAMBDA x : x.nm = Head(path) /\ x.offs # <<>>)
        strong == \A i \in DOMAIN o.tf : ~o.tf[i].weak
        go(t, a) == PlainWalk(seen \cup {<<typ, off>>}, t, a, Tail(path))
    IN  IF path = <<>> \/ ~o.ok \/ <<typ, off>> \in seen THEN -1
        ELSE IF f # 0
             THEN IF o.tf[f].typ # Prim THEN go(o.tf[f].typ, off + o.tf[f].off)
                  ELSE IF Len(path) = 1 THEN off + o.tf[f].off ELSE -1
        ELSE IF m # 0 /\ strong THEN go(o.pt[m].typ, o.pt[m].offs[1])
        ELSE -1

(* Such a path is found, at the right place; the tool does not abort and   *)
(* leaves no type_info behind, however deep the recursion was and whoever  *)
(* owned the type_infos on the way.                                        *)
FoundExact ==
    req # <<"?">> /\ PlainWalk({}, OriginType, 0, req) # -1 =>
        /\ heap = NoHeap
        /\ found = PlainWalk({}, OriginType, 0, req)

(* Whether a run looked up a virtual type. *)
SeesVirt(path) ==
    \E p \in DOMAIN heap.dev, i \in DOMAIN path :
        \E v \in Range(heap.dev[p].vt) : v.nm = get_name(path[i])
=============================================================================
