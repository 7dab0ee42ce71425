------------------------------- MODULE Holder -------------------------------
(***************************************************************************)
(* A user of the type_info interface: it holds type_infos, opens members,  *)
(* siblings and successors of those it holds, and frees them in any order. *)
(***************************************************************************)
EXTENDS Bridge

CONSTANTS
    MaxHeld,        \* type_infos held at a time
    HNames,         \* names asked for
    HIdx            \* indices asked for

Take(g) ==
    /\ heap' = g.h
    /\ held' = IF g.t = 0 THEN held ELSE Append(held, g.t)
    /\ UNCHANGED nodes

(* One tree of type_infos at a time. *)
open_origin == heap.ti = <<>> /\ Take(typeinfo_alloc_origin(heap))

(* typeinfo_lookup_follow_idx_all: names are a last effort. *)
typeinfo_lookup_follow_idx_all(t, nm, idx) ==
    Take(IF fsl_lookup_has(Obj(heap, t), nm) THEN typeinfo_lookup_follow_idx(heap, t, nm, idx)
         ELSE typeinfo_follow_name(heap, t, nm))

(* typeinfo_follow_into_name: the element of a member that has the name. *)
IntoName(t, o, fnm, nm) ==
    LET f == fsl_lookup_field(o, fnm)
        m == fsl_lookup_points(o, fnm)
        v == fsl_lookup_virt(o, fnm)
    IN  IF f # 0 THEN typeinfo_follow_name_tf(heap, t, o.tf[f], nm)
        ELSE IF m # 0 THEN typeinfo_follow_name_pt(heap, t, o.pt[m], nm)
        ELSE IF v # 0 THEN typeinfo_follow_name_vt(heap, t, o.vt[v], nm)
        ELSE Null(heap, "OK")
typeinfo_follow_into_name(t, fnm, nm) == Take(IntoName(t, Obj(heap, t), fnm, nm))

reindex(t, idx) == Take(typeinfo_reindex(heap, t, idx))

(* A points-to range is followed as an iterator (typeinfo_follow_iter). *)
follow_iter(t, k, idx) ==
    LET m == Obj(heap, t).pt[k]
    IN  idx < Len(m.offs) /\ Take(typeinfo_follow_pointsto(heap, t, m, idx))

(* A holder's type_info is moved to the next object of its virtual type.   *)
virt_next(k) ==
    LET t == held[k]
    IN  /\ heap.ti[t].kind = "vt" /\ heap.ti[t].ref = 1
        /\ \E g \in {typeinfo_virt_next(heap, t)} :
            heap' = g.h /\ held' = IF g.t = 0 THEN RemoveAt(held, k) ELSE held
        /\ UNCHANGED nodes

release(k) ==
    /\ heap' = typeinfo_free(heap, held[k])
    /\ held' = RemoveAt(held, k)
    /\ UNCHANGED nodes

(* The node of a type_info becomes the node of the array it is in. *)
up_array(k) ==
    LET b == [NoNode EXCEPT !.k = "type", !.ti = held[k]]
        r == fsl_bridge_up_array(heap, b)
    IN  /\ nodes = <<>> /\ r.b # NoNode
        /\ heap' = r.h /\ nodes' = With(nodes, Min(Handles), r.b)
        /\ UNCHANGED held

drop_array(n) ==
    /\ heap' = fsl_bridge_free(heap, nodes[n])
    /\ nodes' = Restrict(nodes, DOMAIN nodes \ {n})
    /\ UNCHANGED held

HolderInit == heap = NoHeap /\ nodes = <<>> /\ held = <<>>

HolderNext ==
    /\ heap.st = "ok"
    /\ \/ /\ Len(held) < MaxHeld
          /\ \/ open_origin
             \/ \E k \in DOMAIN held, i \in HIdx : LET t == held[k] IN
                  /\ heap.ti[t].typ # Prim
                  /\ \/ reindex(t, i)
                     \/ \E nm \in HNames : typeinfo_lookup_follow_idx_all(t, nm, i)
                     \/ \E j \in DOMAIN Obj(heap, t).pt : follow_iter(t, j, i)
                     \/ i = 0 /\ \E f, nm \in HNames : typeinfo_follow_into_name(t, f, nm)
       \/ \E k \in DOMAIN held : release(k) \/ virt_next(k) \/ up_array(k)
       \/ \E n \in DOMAIN nodes : drop_array(n)
=============================================================================
