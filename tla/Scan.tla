-------------------------------- MODULE Scan --------------------------------
(***************************************************************************)
(* The scan of a file system (runtime/scan.c): from one object to all it   *)
(* contains or points to, with a stack of frames instead of recursion, and *)
(* the reference counts of the type_infos it makes on the way              *)
(* (runtime/type_info.c).                                                  *)
(*                                                                         *)
(* An object on the device is a model value: a place together with a type. *)
(* A type_info is the chain of objects it was reached through, root first, *)
(* the object itself last (ti_prev).  Objects may point to each other in   *)
(* circles.                                                                *)
(*                                                                         *)
(* A step is a round of a loop in one of the sto_fill_next functions.      *)
(***************************************************************************)
EXTENDS Integers, Sequences, SequencesExt, FiniteSets, Bags

CONSTANTS
    Obj, Root,      \* objects on the device, the one the scan starts from
    Scenarios,      \* what the objects hold and what callbacks answer, see below
    MaxFrames       \* bound on the frames allocated

(* Per object: strong and conditional fields with the objects in them,     *)
(* ranges of pointers, virtual types with the objects they are made of.    *)
Field     == [nofollow : BOOLEAN, present : BOOLEAN, elems : Seq(Obj)]
TableType == [strong : Seq(Field), cond : Seq(Field), pointsto : Seq(Seq(Obj)),
              virt : Seq(Seq(Obj))]

ASSUME ScanAssumption ==
    /\ IsFiniteSet(Obj) /\ Root \in Obj
    /\ \A s \in Scenarios :
          /\ DOMAIN s.tab = Obj /\ \A o \in Obj : s.tab[o] \in TableType
          /\ s.verdicts \subseteq {"CONTINUE", "TERMINATE", "SKIP", "EXIT_TYPE"}
    /\ MaxFrames \in Nat

(* The heap has room for as many frames as a scan can need: malloc is not  *)
(* taken to fail.                                                          *)
ASSUME HeapAssumption == MaxFrames > 3 * Cardinality(Obj)

VARIABLES
    tab,            \* what the objects hold
    verdicts,       \* what the callbacks other than so_pt may return
    good,           \* the objects that lie on the device and pass their asserts
    deep,           \* SCAN_FL_DEEP
    mem,            \* the frames of the heap, by address
    head, buf,      \* stk_head and stk_next; 0 is NULL
    sctx_stk_free,  \* the free list
    refs,           \* the type_infos alive, with their ti_ref_c
    visited,        \* the type_infos so_ti was called for
    last,           \* the last callback, what it was called for and its verdict
    pc              \* "begin", "scan", "done"

device == <<tab, verdicts, good>>
calls == <<visited, last>>
vars == <<device, deep, mem, head, buf, sctx_stk_free, refs, calls, pc>>

is_ret_done(v) == v \in {"TERMINATE", "EXIT_TYPE"}

-----------------------------------------------------------------------------
(* Type_infos. *)
RootTi   == <<Root>>
ObjOf(ti) == Last(ti)

ti_has_loop(chain) == \E i \in 1 .. Len(chain) - 1 : chain[i] = Last(chain)

(* typeinfo_follow_*: NULL for an object that is off the device, fails its *)
(* asserts or closes a circle.                                             *)
CanFollow(ti, o) == o \in good /\ ~ti_has_loop(Append(ti, o))

(* The new type_info has one reference, its predecessor one more. *)
typeinfo_alloc_generic(r, ti) == r (+) SetToBag({ti, Front(ti)})

(* typeinfo_free drops a reference, and with the last one goes the         *)
(* reference to the predecessor.                                           *)
typeinfo_free(r, ti) ==
    LET chain(n) == SubSeq(ti, 1, n)
    IN  r (-) SetToBag({chain(n) : n \in
                {k \in 1 .. Len(ti) : \A m \in k + 1 .. Len(ti) : r[chain(m)] = 1}})

-----------------------------------------------------------------------------
(* Frames. *)
scan_stkops_tab == <<"fieldstrong", "cond", "pointsto_all", "virt_all">>

Ids    == 1 .. MaxFrames
Unused == [ops |-> "unused", ti |-> <<>>, idx |-> 0, arg |-> <<>>, next |-> 0]
Frame(ops, ti, arg) == [ops |-> ops, ti |-> ti, idx |-> 0, arg |-> arg, next |-> 0]

Top      == mem[head]
Tab      == tab[ObjOf(Top.ti)]
Running(ops) == pc = "scan" /\ head # 0 /\ Top.ops = ops

fsl_alloc(m) == CHOOSE i \in Ids : m[i] = Unused

(* The round ends and the frame stays on top. *)
Stay ==
    /\ mem' = [mem EXCEPT ![head].idx = @ + 1]
    /\ UNCHANGED <<head, buf, sctx_stk_free>>

\* Mutant: the frame taken from the free list stays on it.
NextBufferShared(m) ==
    IF sctx_stk_free # 0
    THEN buf' = sctx_stk_free /\ sctx_stk_free' = sctx_stk_free /\ mem' = m
    ELSE buf' = fsl_alloc(m) /\ mem' = [m EXCEPT ![buf'] = Frame("fresh", <<>>, <<>>)]
         /\ UNCHANGED sctx_stk_free

(* A buffer for the frame after the one just pushed. *)
NextBuffer(m) ==
    IF sctx_stk_free # 0
    THEN /\ buf' = sctx_stk_free
         /\ sctx_stk_free' = m[sctx_stk_free].next
         /\ mem' = [m EXCEPT ![sctx_stk_free].next = 0]
    ELSE /\ buf' = fsl_alloc(m)
         /\ mem' = [m EXCEPT ![buf'] = Frame("fresh", <<>>, <<>>)]
         /\ UNCHANGED sctx_stk_free

(* scan_stk_next, with a frame to push. *)
Push(frame) ==
    /\ head' = buf
    /\ NextBuffer([mem EXCEPT ![head].idx = @ + 1,
                              ![buf] = [frame EXCEPT !.next = head]])

(* scan_stk_next without: the frame goes to the free list. *)
Pop ==
    /\ head' = Top.next
    /\ sctx_stk_free' = head
    /\ mem' = [mem EXCEPT ![head].next = sctx_stk_free]
    /\ UNCHANGED buf

Call(cb, ti, v) ==
    /\ visited' = IF cb = "so_ti" THEN Append(visited, ti) ELSE visited
    /\ last' = [cb |-> cb, ti |-> ti, ret |-> v]

(* A type_info is made and create_stk_type hands it to so_ti. *)
create_stk_type(ti, v) ==
    /\ Call("so_ti", ti, v)
    /\ LET r == typeinfo_alloc_generic(refs, ti)
       IN  refs' = IF is_ret_done(v) THEN typeinfo_free(r, ti) ELSE r
    /\ IF is_ret_done(v) THEN Pop ELSE Push(Frame("type", ti, <<>>))

-----------------------------------------------------------------------------
(* The sto_fill_next functions. *)

stkop_type_next ==
    /\ Running("type")
    /\ IF Top.idx = Len(scan_stkops_tab)
       THEN Pop /\ refs' = typeinfo_free(refs, Top.ti)
       ELSE Push(Frame(scan_stkops_tab[Top.idx + 1], Top.ti, <<>>)) /\ UNCHANGED refs
    /\ UNCHANGED <<device, deep, calls, pc>>

Followed(field) == deep \/ ~field.nofollow

stkop_fieldstrong_next(v) ==
    /\ Running("fieldstrong")
    /\ IF Top.idx >= Len(Tab.strong)
       THEN Pop /\ UNCHANGED calls
       ELSE LET tf == Tab.strong[Top.idx + 1]
            IN  /\ Call("so_strong", Top.ti, v)
                /\ \/ is_ret_done(v) /\ Pop
                   \/ ~is_ret_done(v) /\ Followed(tf)
                      /\ Push(Frame("fieldarray", Top.ti, tf.elems))
                   \/ ~is_ret_done(v) /\ ~Followed(tf) /\ Stay
    /\ UNCHANGED <<device, deep, refs, pc>>

(* Unlike above, a present field that is not followed ends the frame. *)
stkop_cond_next(v) ==
    /\ Running("cond")
    /\ IF Top.idx >= Len(Tab.cond)
       THEN Pop /\ UNCHANGED calls
       ELSE LET tf == Tab.cond[Top.idx + 1]
            IN  /\ Call("so_cond", Top.ti, v)
                /\ \/ (is_ret_done(v) \/ (tf.present /\ ~Followed(tf))) /\ Pop
                   \/ ~is_ret_done(v) /\ tf.present /\ Followed(tf)
                      /\ Push(Frame("fieldarray", Top.ti, tf.elems))
                   \/ ~is_ret_done(v) /\ ~tf.present /\ Stay
    /\ UNCHANGED <<device, deep, refs, pc>>

(* An element of an array, a range of pointers or a virtual type: the end  *)
(* of the table, an object that cannot be followed, or a new type_info.    *)
NextElement(v, size, Otherwise) ==
    LET o == Top.arg[Top.idx + 1]
    IN  \/ Top.idx >= size /\ Pop /\ Otherwise /\ UNCHANGED refs
        \/ Top.idx < size /\ ~CanFollow(Top.ti, o) /\ Stay /\ Otherwise /\ UNCHANGED refs
        \/ Top.idx < size /\ CanFollow(Top.ti, o) /\ create_stk_type(Append(Top.ti, o), v)

\* Mutant: the last element of an array is left out.
ArrayOneShort(v) ==
    /\ Running("fieldarray")
    /\ NextElement(v, Len(Top.arg) - 1, UNCHANGED calls)
    /\ UNCHANGED <<device, deep, pc>>

stkop_fieldarray_next(v) ==
    /\ Running("fieldarray")
    /\ NextElement(v, Len(Top.arg), UNCHANGED calls)
    /\ UNCHANGED <<device, deep, pc>>

(* No tool has an so_pt; it is taken to go on. *)
stkop_pointsto_next(v) ==
    /\ Running("pointsto")
    /\ NextElement(v, Len(Top.arg), UNCHANGED calls)
    /\ UNCHANGED <<device, deep, pc>>

(* The tables of pointers and of virtual types; an empty range is passed   *)
(* over.                                                                   *)
stkop_pointsto_all_next ==
    /\ Running("pointsto_all")
    /\ IF Top.idx >= Len(Tab.pointsto) THEN Pop
       ELSE LET range == Tab.pointsto[Top.idx + 1]
            IN  IF range = <<>> THEN Stay ELSE Push(Frame("pointsto", Top.ti, range))
    /\ UNCHANGED <<device, deep, refs, calls, pc>>

stkop_virt_all_next ==
    /\ Running("virt_all")
    /\ IF Top.idx >= Len(Tab.virt) THEN Pop
       ELSE Push(Frame("virt", Top.ti, Tab.virt[Top.idx + 1]))
    /\ UNCHANGED <<device, deep, refs, calls, pc>>

\* Mutant: an object that cannot be followed is tried again.
VirtRetries(v, w) ==
    /\ Running("virt")
    /\ IF Top.idx < Len(Top.arg) /\ ~CanFollow(Top.ti, Top.arg[Top.idx + 1])
       THEN Call("so_virt", Top.ti, v) /\ UNCHANGED <<mem, head, buf, sctx_stk_free, refs>>
       ELSE NextElement(w, Len(Top.arg), Call("so_virt", Top.ti, v))
    /\ UNCHANGED <<device, deep, pc>>

(* so_virt is asked before the object is looked at, also once behind the   *)
(* last one, where the index turns out to be bad.                          *)
stkop_virt_next(v, w) ==
    /\ Running("virt")
    /\ \/ is_ret_done(v) /\ Pop /\ Call("so_virt", Top.ti, v) /\ UNCHANGED refs
       \/ ~is_ret_done(v) /\ NextElement(w, Len(Top.arg), Call("so_virt", Top.ti, v))
    /\ UNCHANGED <<device, deep, pc>>

-----------------------------------------------------------------------------
Init ==
    /\ \E s \in Scenarios : tab = s.tab /\ verdicts = s.verdicts
    /\ good \in {S \in SUBSET Obj : Root \in S}
    /\ deep \in BOOLEAN
    /\ mem = [i \in Ids |-> Unused]
    /\ head = 0 /\ buf = 0 /\ sctx_stk_free = 0
    /\ refs = SetToBag({RootTi})            \* the caller's
    /\ visited = <<>> /\ last = [cb |-> "none", ti |-> <<>>, ret |-> "CONTINUE"]
    /\ pc = "begin"

(* scan_type_ctx up to its loop. *)
scan_type_ctx(v) ==
    /\ pc = "begin"
    /\ Call("so_ti", RootTi, v)
    /\ LET r == refs (+) SetToBag({RootTi})
       IN  IF is_ret_done(v)
           THEN /\ refs' = typeinfo_free(r, RootTi)
                /\ pc' = "done"
                /\ UNCHANGED <<mem, head, buf>>
           ELSE /\ refs' = r
                /\ pc' = "scan"
                /\ head' = 1 /\ buf' = 2
                /\ mem' = [mem EXCEPT ![1] = Frame("type", RootTi, <<>>),
                                      ![2] = Frame("fresh", <<>>, <<>>)]
    /\ UNCHANGED <<device, deep, sctx_stk_free>>

(* The frames linked from a frame on. *)
Linked(first) ==
    LET nth[k \in 0 .. MaxFrames] ==
            IF k = 0 THEN first
            ELSE LET i == nth[k - 1] IN IF i = 0 THEN 0 ELSE mem[i].next
    IN  {nth[k] : k \in 0 .. MaxFrames} \ {0}

(* The end of the loop: the spare buffer and the free list are released. *)
scan_ctx_drain_freelist ==
    /\ pc = "scan" /\ head = 0
    /\ mem' = [i \in Ids |-> IF i \in {buf} \union Linked(sctx_stk_free) THEN Unused ELSE mem[i]]
    /\ buf' = 0 /\ sctx_stk_free' = 0
    /\ pc' = "done"
    /\ UNCHANGED <<device, deep, head, refs, calls>>

Finished == pc = "done" /\ UNCHANGED vars

Step ==
    \/ stkop_type_next \/ stkop_pointsto_all_next \/ stkop_virt_all_next
    \/ \E v \in verdicts :
          \/ scan_type_ctx(v)
          \/ stkop_fieldstrong_next(v) \/ stkop_cond_next(v)
          \/ stkop_fieldarray_next(v) \/ stkop_pointsto_next(v)
          \/ \E w \in verdicts : stkop_virt_next(v, w)
    \/ scan_ctx_drain_freelist

Next == Step \/ Finished
Spec == Init /\ [][Next]_vars /\ WF_vars(Step)

-----------------------------------------------------------------------------
Allocated == {i \in Ids : mem[i] # Unused}
OnStack   == Linked(head)

(* Every frame the scan allocated is on the stack, on the free list or the *)
(* spare one, and only in one of these; none is left when it is over.      *)
FramesAccounted ==
    /\ Allocated = OnStack \union Linked(sctx_stk_free) \union ({buf} \ {0})
    /\ OnStack \intersect Linked(sctx_stk_free) = {}
    /\ buf \notin OnStack \union Linked(sctx_stk_free)
    /\ pc = "done" => Allocated = {}

(* Nothing on the stack has been freed, and nothing is kept that no frame  *)
(* needs: a type_info is referred to by its frame and by the type_infos    *)
(* reached through it, the first one by the caller too.                    *)
RefsExact ==
    LET frames(ti)   == {i \in OnStack : mem[i].ops = "type" /\ mem[i].ti = ti}
        children(ti) == {t \in DOMAIN refs : Len(t) = Len(ti) + 1 /\ Front(t) = ti}
    IN  /\ \A i \in OnStack : mem[i].ti \in DOMAIN refs
        /\ \A ti \in DOMAIN refs :
              refs[ti] = Cardinality(frames(ti)) + Cardinality(children(ti))
                         + (IF ti = RootTi THEN 1 ELSE 0)

(* The stack is no deeper than three frames to an object: circles on the   *)
(* device are cut when an object comes up again in its own chain.          *)
StackBounded == Cardinality(Allocated) <= 3 * Cardinality(Obj) + 1

(* The stack machine accounts for all it takes, at every step and whatever *)
(* the callbacks answer: frames, type_infos and depth.                     *)
Accounted == FramesAccounted /\ RefsExact /\ StackBounded

(* The scan ends, circles or not. *)
Terminates == <>(pc = "done")

-----------------------------------------------------------------------------
(* Reference: the chains from ti on in the order of the description, every *)
(* object after the one it is reached through.                             *)
Chains == {s \in SeqOf(Obj, Cardinality(Obj)) :
              Len(s) > 0 /\ s[1] = Root /\ IsInjective(s)}

Order[ti \in Chains] ==
    LET t         == tab[Last(ti)]
        follow(o) == IF CanFollow(ti, o) THEN Order[Append(ti, o)] ELSE <<>>
        all(os)   == FlattenSeq([i \in 1 .. Len(os) |-> follow(os[i])])
        fields(fs) == FlattenSeq([i \in 1 .. Len(fs) |->
                         IF fs[i].present /\ Followed(fs[i]) THEN all(fs[i].elems) ELSE <<>>])
    IN  <<ti>> \o fields(t.strong) \o fields(t.cond)
        \o all(FlattenSeq(t.pointsto)) \o all(FlattenSeq(t.virt))

(* At most one field of a conditional group is present where one of them   *)
(* is not to be followed, as in the descriptions under fs/.                *)
Exclusive ==
    \A o \in Obj : \A i \in 1 .. Len(tab[o].cond) :
        LET f == tab[o].cond[i]
        IN  f.present /\ f.nofollow =>
                \A k \in i + 1 .. Len(tab[o].cond) : ~tab[o].cond[k].present

(* so_ti is called for each of these chains once and in this order, when   *)
(* no callback cuts the scan short.                                        *)
VisitsInOrder ==
    Exclusive /\ verdicts = {"CONTINUE"} /\ pc = "done" => visited = Order[RootTi]

(* scan.h: SCAN_RET_TERMINATE, "do not scan anything else". *)
TerminateStops == [][last.ret = "TERMINATE" => UNCHANGED calls]_vars
=============================================================================
