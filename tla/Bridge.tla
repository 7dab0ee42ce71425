------------------------------- MODULE Bridge -------------------------------
(***************************************************************************)
(* Bridge nodes (runtime/bridge.c): what a front end shows as one node, a  *)
(* type, a primitive or an array of either, points-to or virtual objects.  *)
(* A node holds references to the type_infos it is about: ti is fbn_ti or  *)
(* fbn_prim_ti, par is fbn_f_parent or fbn_arr_parent.                     *)
(*                                                                         *)
(* The state is the heap and what the clients of the runtime hold: nodes,  *)
(* by handle, and type_infos of their own.                                 *)
(***************************************************************************)
EXTENDS TypeInfo

CONSTANTS
    Handles,        \* what names an open node: an open file, an inode
    NoLimit         \* ~0, the size of an array whose size is not known

VARIABLES
    heap,           \* type_infos and mappings
    nodes,          \* the nodes held, by handle
    held            \* the type_infos clients hold, innermost first

hvars == <<heap, nodes, held>>

NoNode == [k |-> "none", ti |-> 0, par |-> 0, mem |-> NoMem, max |-> 0]
Made(h, b) == [h |-> h, b |-> b]
NoFbn(h) == Made(h, NoNode)
TypeNode(g) == Made(g.h, IF g.t = 0 THEN NoNode ELSE [NoNode EXCEPT !.k = "type", !.ti = g.t])

fbn_is_array(b) == b.k \in {"tf", "prims", "pt", "vt"}

(* A field of one element is a type or a primitive, of more an array. *)
FieldNode(g, p, f) ==
    IF g.t # 0 /\ f.typ = Prim
    THEN Made(typeinfo_ref(g.h, p),
              [k |-> "prim", ti |-> g.t, par |-> p, mem |-> f, max |-> 0])
    ELSE TypeNode(g)
fsl_bridge_follow_tf(h, p, f) ==
    LET n == Len(f.sizes)
    IN  IF ~f.cond \/ n = 0 THEN NoFbn(h)
        ELSE IF n > 1
             THEN Made(typeinfo_ref(h, p),
                       [k |-> IF f.typ = Prim THEN "prims" ELSE "tf",
                        ti |-> 0, par |-> p, mem |-> f, max |-> n])
        ELSE FieldNode(typeinfo_follow_field(h, p, f), p, f)

(* fsl_bridge_follow_name: a member of a type. *)
MemberNode(h, p, o, nm) ==
    LET f == fsl_lookup_field(o, nm)
        m == fsl_lookup_points(o, nm)
        v == fsl_lookup_virt(o, nm)
        arr(k, mem, max) == Made(typeinfo_ref(h, p),
                [k |-> k, ti |-> 0, par |-> p, mem |-> mem, max |-> max])
    IN  IF f # 0 THEN fsl_bridge_follow_tf(h, p, o.tf[f])
        ELSE IF m # 0 THEN IF o.pt[m].offs = <<>> THEN NoFbn(h)
                           ELSE arr("pt", o.pt[m], Len(o.pt[m].offs))
        ELSE IF v # 0 THEN arr("vt", o.vt[v], NoLimit)
        ELSE NoFbn(h)
fsl_bridge_follow_name(h, p, nm) == MemberNode(h, p, Obj(h, p), nm)

fsl_bridge_idx_into(h, b, idx) ==
    IF ~fbn_is_array(b) THEN NoFbn(Halt(h, "abort"))
    ELSE IF idx >= b.max \/ b.k = "prims" THEN NoFbn(h)
    ELSE TypeNode(Follow(h, b.par, b.k, b.mem, idx))

(* An element of an array by the name it gives itself. *)
fsl_bridge_follow_pretty_name(h, b, nm) ==
    IF b.k \in {"tf", "pt", "vt"} THEN TypeNode(FollowNameOf(h, b.par, b.k, b.mem, nm))
    ELSE NoFbn(h)

(* fsl_bridge_free: fbn_ti, the parents, fbn_prim_ti. *)
FreeIf(c, h, t) == IF c THEN typeinfo_free(h, t) ELSE h
fsl_bridge_free(h, b) ==
    FreeIf(b.k = "prim", FreeIf(b.par # 0, FreeIf(b.k = "type", h, b.ti), b.par), b.ti)

(* r with the node it was reached through freed. *)
FreeVia(r, b) == Made(fsl_bridge_free(r.h, b), r.b)

(* fsl_bridge_fbn_follow_name: in an array, a member of its first element. *)
OfFirst(e, nm) ==
    IF e.b = NoNode THEN e ELSE FreeVia(fsl_bridge_follow_name(e.h, e.b.ti, nm), e.b)
fsl_bridge_fbn_follow_name(h, b, nm) ==
    IF fbn_is_array(b) THEN OfFirst(fsl_bridge_idx_into(h, b, 0), nm)
    ELSE IF b.k = "prim" THEN NoFbn(Halt(h, "abort"))
    ELSE fsl_bridge_follow_name(h, b.ti, nm)

fsl_bridge_from_ti(g) == TypeNode(g)

(* The elements of an array, each opened by itself. *)
Elements(h, b, last) == [i \in 0 .. last |-> Follow(h, b.par, b.k, b.mem, i)]

fbn_bytes(h, b) ==
    CASE b.k = "type" -> Obj(h, b.ti).size
      [] b.k \in {"prim", "prims", "tf"} -> ti_field_size(b.mem)
      [] OTHER -> 0

(* fsl_bridge_up_array: the array an element was taken from.  The size of  *)
(* the new node is left at 0.                                              *)
fsl_bridge_up_array(h, b) ==
    LET i == h.ti[b.ti]
    IN  IF i.prev = 0 \/ i.kind = "origin" \/ (i.kind = "tf" /\ Len(i.mem.sizes) = 1)
        THEN NoFbn(h)
        ELSE Made(typeinfo_ref(h, i.prev),
                  [k |-> i.kind, ti |-> 0, par |-> i.prev, mem |-> i.mem, max |-> 0])

-----------------------------------------------------------------------------
(* What refers to a type_info or a mapping. *)
Count(S, P(_)) == Cardinality({x \in S : P(x)})
TiRefs(t) ==
    Count(DOMAIN heap.ti, LAMBDA c : heap.ti[c].prev = t)
    + Count(DOMAIN nodes, LAMBDA n : nodes[n].ti = t)
    + Count(DOMAIN nodes, LAMBDA n : nodes[n].par = t)
    + Count(DOMAIN held, LAMBDA k : held[k] = t)

RECURSIVE MapsAbove(_)
MapsAbove(t) ==
    LET x == heap.ti[t].xl IN IF x = 0 THEN <<>> ELSE <<x>> \o MapsAbove(heap.rt[x].clo)
RtRefs(x) ==
    Count(DOMAIN heap.ti, LAMBDA t : heap.ti[t].xl = x)
    + Count(DOMAIN heap.rt, LAMBDA y : x \in Range(MapsAbove(heap.rt[y].clo)))

Running == heap.st = "ok"

(* At rest the counts are exactly the references that exist, so nothing is *)
(* freed early and nothing stays for ever: a mapping is counted by every   *)
(* type_info read through it and by every mapping nested below it.         *)
RefsExact ==
    Running =>
        /\ \A t \in DOMAIN heap.ti : heap.ti[t].ref = TiRefs(t)
        /\ \A x \in DOMAIN heap.rt : heap.rt[x].ref = RtRefs(x)
        /\ \A t \in DOMAIN heap.ti : TiRefs(t) > 0
        /\ \A x \in DOMAIN heap.rt : RtRefs(x) > 0

(* Nothing freed is ever used: fsl_virt_unref_all looks at a mapping after *)
(* giving its reference back, but it is never the last one, because the    *)
(* predecessor that is also read through it goes later.                    *)
NoUseAfterFree ==
    /\ heap.st # "freed"
    /\ \A t \in DOMAIN heap.ti :
          /\ heap.ti[t].prev \in DOMAIN heap.ti \cup {0}
          /\ heap.ti[t].xl \in DOMAIN heap.rt \cup {0}
    /\ \A x \in DOMAIN heap.rt : heap.rt[x].clo \in DOMAIN heap.ti

(* No object is reached through itself, however the circle was closed:     *)
(* through fields, pointers or virtual types.                              *)
ChainsSimple ==
    Running => \A t \in DOMAIN heap.ti : LET c == <<t>> \o Chain(heap, t) IN
        \A i, j \in DOMAIN c :
            /\ i < j /\ heap.ti[c[i]].typ = heap.ti[c[j]].typ /\ heap.ti[c[i]].typ # Prim
            /\ heap.ti[c[i]].chk /\ heap.ti[c[j]].chk
            => ti_phys_offset(heap, c[i]) # ti_phys_offset(heap, c[j])

=============================================================================
