------------------------------ MODULE Browser ------------------------------
(***************************************************************************)
(* The browser (tool/browser.c) and what it prints (runtime/type_print.c). *)
(* menu and select_* call each other: a menu is a type_info on the stack   *)
(* held, the current one first.  The numbers printed before the members    *)
(* are the numbers the user types.                                         *)
(***************************************************************************)
EXTENDS Bridge

CONSTANT MaxElem        \* the element numbers a user types

VARIABLE menus          \* "start", "menu", "exit" (exit(0)), "bye"

browservars == <<heap, nodes, held, menus>>

(* The lines typeinfo_print_fields, _pointstos and _virts print: the       *)
(* number ("---" for a primitive is 0 - 1) and the member.                 *)
typeinfo_print_fields(o) ==
    {<<IF FieldAll(o)[i].typ = Prim THEN -1 ELSE i - 1, FieldAll(o)[i]>> :
        i \in {j \in DOMAIN FieldAll(o) : FieldAll(o)[j].cond}}

\* Mutant: the numbers go on from the fields that are shown.
PointstosFromShown(o) ==
    {<<Cardinality(typeinfo_print_fields(o)) + i - 1, o.pt[i]>> :
        i \in {j \in DOMAIN o.pt : o.pt[j].offs # <<>>}}

typeinfo_print_pointstos(o) ==
    {<<Len(FieldAll(o)) + i - 1, o.pt[i]>> : i \in {j \in DOMAIN o.pt : o.pt[j].offs # <<>>}}

typeinfo_print_virts(o) ==
    {<<Len(FieldAll(o)) + Len(o.pt) + i - 1, o.vt[i]>> :
        i \in {j \in DOMAIN o.vt : o.vt[j].bases # <<>>}}

(* typeinfo_print_path: from the origin to the current type_info. *)
typeinfo_print_path(h, t) == Reverse(<<t>> \o Chain(h, t))

-----------------------------------------------------------------------------
cur == Head(held)

Enter(g) ==
    IF g.t = 0 THEN heap' = g.h /\ UNCHANGED held
    ELSE heap' = g.h /\ held' = <<g.t>> \o held

(* select_field: the condition of the field is not looked at; one element, *)
(* or none, is element 0.                                                  *)
select_field(f, e) ==
    /\ IF Len(f.sizes) > 1 THEN e < Len(f.sizes) ELSE e = 0
    /\ IF f.typ = Prim THEN UNCHANGED <<heap, held>>
       ELSE Enter(typeinfo_follow_field_idx(heap, cur, f, e))

(* select_pointsto: an empty range asks for an element past the end.       *)
select_pointsto(m, e) ==
    /\ IF Len(m.offs) > 1 THEN e < Len(m.offs) ELSE e = 0
    /\ Enter(typeinfo_follow_pointsto(heap, cur, m, e))

select_virt(v, e) == Enter(typeinfo_follow_virt(heap, cur, v, e))

(* The member a number stands for. *)
Chosen(o, n) ==
    LET f == Len(FieldAll(o))
        p == f + Len(o.pt)
    IN  IF n < f THEN <<"tf", FieldAll(o)[n + 1]>>
        ELSE IF n < p THEN <<"pt", o.pt[n - f + 1]>>
        ELSE IF n < p + Len(o.vt) THEN <<"vt", o.vt[n - p + 1]>>
        ELSE <<"bad", NoMem>>

handle_menu_choice(n, e) ==
    LET c == Chosen(Obj(heap, cur), n)
    IN  /\ menus = "menu"
        /\ \/ c[1] = "tf" /\ select_field(c[2], e)
           \/ c[1] = "pt" /\ select_pointsto(c[2], e)
           \/ c[1] = "vt" /\ select_virt(c[2], e)
           \/ c[1] = "bad" /\ UNCHANGED <<heap, held>>
        /\ UNCHANGED <<nodes, menus>>

(* The end of the input, or a number below MCMD_DUMP2FILE: the menu        *)
(* returns and its caller frees the type_info.                             *)
menu_return ==
    /\ menus = "menu"
    /\ heap' = typeinfo_free(heap, cur)
    /\ held' = Tail(held)
    /\ menus' = IF Len(held) = 1 THEN "bye" ELSE "menu"
    /\ UNCHANGED nodes

MCMD_EXIT == menus = "menu" /\ menus' = "exit" /\ UNCHANGED hvars

tool_entry ==
    LET g == typeinfo_alloc_origin(heap)
    IN  /\ menus = "start"
        /\ Enter(g)
        /\ menus' = IF g.t = 0 THEN "bye" ELSE "menu"
        /\ UNCHANGED nodes

BrowserInit == heap = NoHeap /\ nodes = <<>> /\ held = <<>> /\ menus = "start"

BrowserNext ==
    \/ tool_entry \/ menu_return \/ MCMD_EXIT
    \/ /\ menus = "menu"
       /\ \E n \in 0 .. Len(FieldAll(Obj(heap, cur))) + Len(Obj(heap, cur).pt)
                        + Len(Obj(heap, cur).vt), e \in 0 .. MaxElem :
              handle_menu_choice(n, e)

-----------------------------------------------------------------------------
(* A number the printer puts before a member opens that member: printer    *)
(* and menu number the same tables although each counts on its own.        *)
NumbersAgree ==
    menus = "menu" => LET o == Obj(heap, cur) IN
        \A line \in typeinfo_print_fields(o) \cup typeinfo_print_pointstos(o)
                    \cup typeinfo_print_virts(o) :
            line[1] # -1 => Chosen(o, line[1])[2] = line[2]

(* The path that is printed is the menus the user will come back through,  *)
(* and it names no object twice, so going down comes to an end even where  *)
(* pointers form a circle.                                                 *)
PathIsMenus ==
    menus = "menu" =>
        /\ typeinfo_print_path(heap, cur) = Reverse(held)
        /\ \A i, j \in DOMAIN held :
              /\ heap.ti[held[i]].typ = heap.ti[held[j]].typ
              /\ ti_phys_offset(heap, held[i]) = ti_phys_offset(heap, held[j])
              => i = j
=============================================================================
