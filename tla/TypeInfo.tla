------------------------------ MODULE TypeInfo ------------------------------
(***************************************************************************)
(* The type_infos of the runtime (runtime/type_info.c): how an object on   *)
(* the device is opened from the one that contains or points to it, and    *)
(* the reference counts of the type_infos and of the mappings of virtual   *)
(* types (runtime/virt.c) they are read through.                           *)
(*                                                                         *)
(* A heap h is a record: h.dev what lies on the device (no operation here  *)
(* changes it), h.ti the type_infos alive and h.rt the mappings alive, by  *)
(* address, h.st "ok", or "abort" after a failed assertion or a NULL       *)
(* dereference, or "freed" after a use of freed memory.  0 is NULL.        *)
(* The operations are functions from heaps to heaps; what they open comes  *)
(* back as [h, t, err].  The unit of offsets is a byte.                    *)
(*                                                                         *)
(* What a points-to range names lies at a place on the device itself.  The *)
(* code takes the mapping it lies in from it_range, which gives one where  *)
(* the expression is a place in a virtual object; Content has none such.   *)
(***************************************************************************)
EXTENDS Integers, Sequences, SequencesExt, FiniteSets, FiniteSetsExt, Functions

CONSTANTS
    DevSize,        \* bytes of the device
    OriginType,     \* fsl_rt_origin_typenum
    Prim,           \* TYPENUM_INVALID
    Named,          \* the types that have a member "name"
    Content         \* what lies on the device: objects by type and place

(* An object: whether its asserts hold, its size, its name, its fields,    *)
(* points-to ranges and virtual types.  A member has a name ("" is NULL)   *)
(* and the type of its elements.  A weak field (of a union, say) is in the *)
(* table that names are looked up in but not in the one that is listed.    *)
FieldType  == [nm : STRING, typ : STRING, cond : BOOLEAN, weak : BOOLEAN, off : Nat,
               sizes : Seq(Nat)]
PointsType == [nm : STRING, typ : STRING, min : Nat, offs : Seq(Nat)]
VirtType   == [nm : STRING, typ : STRING, min : Nat, srcsz : Nat, bases : Seq(Nat)]
ObjectType == [ok : BOOLEAN, size : Nat, name : STRING, tf : Seq(FieldType),
               pt : Seq(PointsType), vt : Seq(VirtType)]

ASSUME TypeInfoAssumption ==
    /\ DevSize \in Nat \ {0} /\ <<OriginType, 0>> \in DOMAIN Content
    /\ \A p \in DOMAIN Content : Content[p] \in ObjectType /\ p[1] # Prim

Garbage == [ok |-> FALSE, size |-> 1, name |-> "", tf |-> <<>>, pt |-> <<>>, vt |-> <<>>]
At(h, typ, poff) ==
    IF <<typ, poff>> \in DOMAIN h.dev THEN h.dev[<<typ, poff>>] ELSE Garbage

FieldAll(o) == SelectSeq(o.tf, LAMBDA f : ~f.weak)        \* tt_fieldall_thunkoff

NoHeap == [dev |-> Content, ti |-> <<>>, rt |-> <<>>, st |-> "ok"]
Fresh(f) == CHOOSE i \in 1 .. Cardinality(DOMAIN f) + 1 : i \notin DOMAIN f
With(f, i, r) == [j \in DOMAIN f \cup {i} |-> IF j = i THEN r ELSE f[j]]
Halt(h, why) == [h EXCEPT !.st = IF @ = "ok" THEN why ELSE @]
Null(h, err) == [h |-> h, t |-> 0, err |-> err]

-----------------------------------------------------------------------------
(* Mappings: the closure (of a type_info) their iterator is evaluated in,  *)
(* the virtual type, the reference count.                                  *)
TotalOf(v) == v.srcsz * Len(v.bases)
XlateOf(v, voff) == v.bases[(voff \div v.srcsz) + 1] + (voff % v.srcsz)

ti_phys_offset(h, t) ==
    LET i == h.ti[t] IN IF i.xl = 0 THEN i.off ELSE XlateOf(h.rt[i.xl].virt, i.off)
Obj(h, t) == At(h, h.ti[t].typ, ti_phys_offset(h, t))

fsl_virt_ref(h, x) == IF x = 0 THEN h ELSE [h EXCEPT !.rt[x].ref = @ + 1]

RECURSIVE RefAll(_, _)
RefAll(h, t) ==
    LET x == h.ti[t].xl
    IN  IF x = 0 THEN h ELSE RefAll(fsl_virt_ref(h, x), h.rt[x].clo)

RECURSIVE fsl_virt_unref(_, _), UnrefAll(_, _), VirtFree(_, _)
(* fsl_virt_unref_all: up the chain of mappings; a mapping is looked at    *)
(* after its reference was given back.                                     *)
UnrefAll(h, t) ==
    IF t \notin DOMAIN h.ti THEN Halt(h, "freed")
    ELSE LET x == h.ti[t].xl
             above(h1) == IF x \notin DOMAIN h1.rt THEN Halt(h1, "freed")
                          ELSE UnrefAll(h1, h1.rt[x].clo)
         IN  IF x = 0 THEN h ELSE above(fsl_virt_unref(h, x))

VirtFree(h, x) ==
    [UnrefAll(h, h.rt[x].clo) EXCEPT !.rt = Restrict(@, DOMAIN @ \ {x})]

fsl_virt_unref(h, x) ==
    IF x = 0 THEN h
    ELSE IF x \notin DOMAIN h.rt THEN Halt(h, "freed")
    ELSE IF h.rt[x].ref = 1 THEN VirtFree(h, x)
    ELSE [h EXCEPT !.rt[x].ref = @ - 1]

(* fsl_virt_alloc: no mapping for an empty range, nor one that starts      *)
(* where the mapping it is read through starts.                            *)
VirtAlloc(h, t, v) ==
    LET x    == Fresh(h.rt)
        up   == h.ti[t].xl
        loop == up # 0 /\ XlateOf(h.rt[up].virt, 0) = XlateOf(v, 0)
        checked(h1) == IF v.bases = <<>> \/ loop THEN [h |-> VirtFree(h1, x), x |-> 0]
                       ELSE [h |-> h1, x |-> x]
    IN  checked([RefAll(h, t) EXCEPT !.rt = With(@, x, [clo |-> t, virt |-> v, ref |-> 1])])

(* fsl_virt_get_nth, -1 for a bad offset: from object to object, then a    *)
(* look at the whole of the last one.                                      *)
SizeAt(h, v, voff) == At(h, v.typ, XlateOf(v, voff)).size
Past(v, n, sz)  == IF n + sz >= TotalOf(v) \/ sz = 0 THEN -1 ELSE n + sz
NextOff(h, v, n) == IF n = -1 THEN -1 ELSE Past(v, n, SizeAt(h, v, n))
RECURSIVE WalkOff(_, _, _)
WalkOff(h, v, idx) == IF idx = 0 THEN 0 ELSE NextOff(h, v, WalkOff(h, v, idx - 1))
Whole(h, v, idx, n) == IF idx > 0 /\ n # -1 /\ n + SizeAt(h, v, n) > TotalOf(v) THEN -1 ELSE n
NthOff(h, v, idx) == Whole(h, v, idx, WalkOff(h, v, idx))

-----------------------------------------------------------------------------

(* With the last reference go the mapping, then the predecessor. *)
RECURSIVE typeinfo_free(_, _)
typeinfo_free(h, t) ==
    IF t \notin DOMAIN h.ti THEN Halt(h, "freed")
    ELSE IF h.ti[t].ref > 1 THEN [h EXCEPT !.ti[t].ref = @ - 1]
    ELSE LET i == h.ti[t]
             prev(h1) == IF i.prev = 0 THEN h1 ELSE typeinfo_free(h1, i.prev)
         IN  [prev(fsl_virt_unref(h, i.xl)) EXCEPT !.ti = Restrict(@, DOMAIN @ \ {t})]

typeinfo_ref(h, t) == [h EXCEPT !.ti[t].ref = @ + 1]

(* The chain of predecessors, nearest first. *)
RECURSIVE Chain(_, _)
Chain(h, t) == IF h.ti[t].prev = 0 THEN <<>> ELSE <<h.ti[t].prev>> \o Chain(h, h.ti[t].prev)

ti_has_loop(h, t) ==
    \E p \in Range(Chain(h, t)) :
        h.ti[p].typ = h.ti[t].typ /\ ti_phys_offset(h, p) = ti_phys_offset(h, t)

typeinfo_verify(h, t) == ~ti_has_loop(h, t) /\ (h.ti[t].typ = Prim \/ Obj(h, t).ok)

(* td: type, offset and mapping; how: the kind of the member, the member   *)
(* and the index the object was reached by.                                *)
typeinfo_alloc_generic(h, td, how, prev) ==
    LET t  == Fresh(h.ti)
        i  == [typ |-> td.typ, off |-> td.off, xl |-> td.xl, prev |-> prev, ref |-> 1,
               kind |-> how.kind, mem |-> how.mem, idx |-> how.idx, chk |-> TRUE]
        from(h1) == IF prev = 0 THEN h1 ELSE typeinfo_ref(h1, prev)
    IN  IF td.off >= DevSize THEN Null(h, "OK")
        ELSE [h |-> from(fsl_virt_ref([h EXCEPT !.ti = With(@, t, i)], td.xl)),
              t |-> t, err |-> "OK"]

Verified(h, t, err) ==
    IF typeinfo_verify(h, t) THEN [h |-> h, t |-> t, err |-> "OK"]
    ELSE Null(typeinfo_free(h, t), err)

NoMem == [nm |-> ""]
NoWay == [kind |-> "origin", mem |-> NoMem, idx |-> 0]

\* Mutant: the reference to the mapping is not taken.
InsideNoRef(g, x) ==
    IF g.t = 0 THEN g ELSE Verified([g.h EXCEPT !.ti[g.t].xl = x], g.t, "OK")

(* A field lies in the same mapping as the object it is a field of. *)
Inside(g, x) ==
    IF g.t = 0 THEN g
    ELSE Verified(fsl_virt_ref([g.h EXCEPT !.ti[g.t].xl = x], x), g.t, "OK")

typeinfo_alloc_by_field(h, td, how, p) ==
    Inside(typeinfo_alloc_generic(h, td, how, p), IF p = 0 THEN 0 ELSE h.ti[p].xl)

typeinfo_alloc_origin(h) ==
    typeinfo_alloc_by_field(h, [typ |-> OriginType, off |-> 0, xl |-> 0], NoWay, 0)

(* ti_field_off: elements of a field lie one behind the other. *)
RECURSIVE SumTo(_, _)
SumTo(sizes, n) == IF n = 0 THEN 0 ELSE SumTo(sizes, n - 1) + sizes[n]
ti_field_off(h, p, f, idx) == h.ti[p].off + f.off + SumTo(f.sizes, idx)
ti_field_size(f) == SumTo(f.sizes, Len(f.sizes))

typeinfo_follow_field_idx(h, p, f, idx) ==
    typeinfo_alloc_by_field(h,
        [typ |-> f.typ, off |-> ti_field_off(h, p, f, idx), xl |-> 0],
        [kind |-> "tf", mem |-> f, idx |-> idx], p)

typeinfo_follow_field(h, p, f) ==
    IF f.cond THEN typeinfo_follow_field_idx(h, p, f, 0) ELSE Null(h, "OK")

(* idx counts from 0 here, from the minimum of the range in the code.  No  *)
(* bound is looked at: behind the last element of the range lies a zero.   *)
PointsAt(m, idx) == IF idx < Len(m.offs) THEN m.offs[idx + 1] ELSE 0

Pointed(g) == IF g.t = 0 THEN g ELSE Verified(g.h, g.t, "OK")
typeinfo_follow_pointsto(h, p, m, idx) ==
    IF m.offs = <<>> THEN Null(h, "OK")
    ELSE Pointed(typeinfo_alloc_generic(h,
                    [typ |-> m.typ, off |-> PointsAt(m, idx), xl |-> 0],
                    [kind |-> "pt", mem |-> m, idx |-> idx], p))

(* typeinfo_alloc_virt_idx: a is the new mapping, off the place of the     *)
(* object in it, g the type_info.                                          *)
VirtOpened(a, g) ==
    IF g.t = 0 THEN Null(VirtFree(a.h, a.x), "BADALLOC")
    ELSE Verified(fsl_virt_unref(g.h, a.x), g.t, "BADVERIFY")
VirtOpen(a, p, v, idx, off) ==
    IF off = -1 THEN Null(VirtFree(a.h, a.x), "BADIDX")
    ELSE IF XlateOf(v, off) >= DevSize THEN Null(VirtFree(a.h, a.x), "OK")
    ELSE VirtOpened(a, typeinfo_alloc_generic(a.h,
                            [typ |-> v.typ, off |-> off, xl |-> a.x],
                            [kind |-> "vt", mem |-> v, idx |-> idx], p))
VirtIdx(a, p, v, idx) ==
    IF a.x = 0 THEN Null(a.h, "BADVIRT") ELSE VirtOpen(a, p, v, idx, NthOff(a.h, v, idx))
typeinfo_follow_virt(h, p, v, idx) == VirtIdx(VirtAlloc(h, p, v), p, v, idx)

(* typeinfo_virt_next: the same type_info, one object further, which is    *)
(* not verified again (chk).                                               *)
typeinfo_virt_next(h, t) ==
    LET i == h.ti[t]
        moved(off) ==
            IF off = -1 THEN Null(typeinfo_free(h, t), "EOF")
            ELSE [h |-> [h EXCEPT !.ti[t].idx = @ + 1, !.ti[t].off = off, !.ti[t].chk = FALSE],
                  t |-> t, err |-> "OK"]
    IN  moved(NthOff(h, h.rt[i.xl].virt, i.idx + 1))

-----------------------------------------------------------------------------
(* Members by name (lookup.c): fields before points-to before virtual.     *)
fsl_lookup_field(o, nm)  == SelectInSeq(o.tf, LAMBDA f : f.nm = nm)
fsl_lookup_points(o, nm) == SelectInSeq(o.pt, LAMBDA m : m.nm # "" /\ m.nm = nm)
fsl_lookup_virt(o, nm)   == SelectInSeq(o.vt, LAMBDA v : v.nm # "" /\ v.nm = nm)
fsl_lookup_has(o, nm) ==
    fsl_lookup_field(o, nm) # 0 \/ fsl_lookup_points(o, nm) # 0 \/ fsl_lookup_virt(o, nm) # 0

(* The elements of a member, whatever its kind. *)
Follow(h, p, kind, m, idx) ==
    CASE kind = "tf" -> typeinfo_follow_field_idx(h, p, m, idx)
      [] kind = "pt" -> typeinfo_follow_pointsto(h, p, m, idx)
      [] kind = "vt" -> typeinfo_follow_virt(h, p, m, idx)

(* typeinfo_lookup_follow_idx_all without names. *)
FollowMember(h, p, o, nm, idx) ==
    LET f == fsl_lookup_field(o, nm)
        m == fsl_lookup_points(o, nm)
        v == fsl_lookup_virt(o, nm)
    IN  IF f # 0 THEN IF o.tf[f].typ = Prim \/ ~o.tf[f].cond THEN Null(h, "OK")
                      ELSE typeinfo_follow_field_idx(h, p, o.tf[f], idx)
        ELSE IF m # 0 THEN typeinfo_follow_pointsto(h, p, o.pt[m], idx)
        ELSE IF v # 0 THEN typeinfo_follow_virt(h, p, o.vt[v], idx)
        ELSE Null(h, "OK")
typeinfo_lookup_follow_idx(h, p, nm, idx) == FollowMember(h, p, Obj(h, p), nm, idx)

(* typeinfo_getname, with the type_info of the name opened and freed. *)
typeinfo_getname(h, t) == Obj(h, t).name

(* typeinfo_follow_name_tf, _pt and _vt: the first index, from begin to    *)
(* end, whose element can be opened and has the name; the others are freed *)
(* again.  A walk over a virtual type ends at the first error other than a *)
(* failed verification.                                                    *)
Goes(h, p, m, idx) == Follow(h, p, "vt", m, idx).err \in {"OK", "BADVERIFY"}
IsNamed(g, nm) == g.t # 0 /\ typeinfo_getname(g.h, g.t) = nm
FollowMin(h, p, kind, m, hits) ==
    IF hits = {} THEN Null(h, "OK") ELSE Follow(h, p, kind, m, Min(hits))
FollowName(h, p, kind, m, idxs, nm) ==
    IF m.typ \notin Named THEN Null(h, "OK")
    ELSE FollowMin(h, p, kind, m, {k \in idxs : IsNamed(Follow(h, p, kind, m, k), nm)})

(* One index too far: "idx <= max_idx" with the number of elements. *)
typeinfo_follow_name_tf(h, p, f, nm) ==
    IF f.typ = Prim THEN Null(h, "OK") ELSE FollowName(h, p, "tf", f, 0 .. Len(f.sizes), nm)

typeinfo_follow_name_pt(h, p, m, nm) ==
    FollowName(h, p, "pt", m, 0 .. Len(m.offs) - 1, nm)

(* The walk starts with the minimum of the source range as its index. *)
typeinfo_follow_name_vt(h, p, v, nm) ==
    FollowName(h, p, "vt", v,
        {k \in v.min .. TotalOf(v) : \A j \in v.min .. k - 1 : Goes(h, p, v, j)}, nm)

FollowNameOf(h, p, kind, m, nm) ==
    CASE kind = "tf" -> typeinfo_follow_name_tf(h, p, m, nm)
      [] kind = "pt" -> typeinfo_follow_name_pt(h, p, m, nm)
      [] kind = "vt" -> typeinfo_follow_name_vt(h, p, m, nm)

(* typeinfo_follow_name: a sibling by name. *)
typeinfo_follow_name(h, t, nm) ==
    LET i == h.ti[t]
    IN  IF i.prev = 0 \/ i.kind \notin {"pt", "vt"} THEN Null(h, "OK")
        ELSE FollowNameOf(h, i.prev, i.kind, i.mem, nm)

(* typeinfo_reindex: a sibling by index. *)
typeinfo_reindex(h, t, idx) ==
    LET i == h.ti[t]
    IN  IF i.prev = 0 \/ (i.kind = "tf" /\ Len(i.mem.sizes) <= idx) THEN Null(h, "OK")
        ELSE Follow(h, i.prev, i.kind, i.mem, idx)
=============================================================================
