------------------------------ MODULE KernelFs ------------------------------
(***************************************************************************)
(* The file system of the kernel module (kernel/mod/inode.c, the inodes of *)
(* kernel/mod/super.c): every inode owns a bridge node, directories are    *)
(* listed in pieces as large as the caller's buffer, files are read        *)
(* through one page.                                                       *)
(***************************************************************************)
EXTENDS Bridge

CONSTANTS
    KNumber,        \* the names that are digits, and their value
    KNames,         \* the names looked up
    BufEnts         \* how many entries a buffer of getdents may take

VARIABLES
    files,          \* open files by inode: f_pos, fp_realpos, names given out
    pages,          \* cached pages by inode: the f_pos they were filled at, bytes
    oops            \* what killed the kernel thread

kfsvars == <<heap, nodes, held, files, pages, oops>>

KNameOf(i) == CHOOSE s \in DOMAIN KNumber : KNumber[s] = i

(* fsl_inode_iget: when new_inode fails its caller goes on with the error  *)
(* as if it were an inode.                                                 *)
fsl_inode_iget(r, h) ==
    \/ heap' = r.h /\ nodes' = With(nodes, h, r.b) /\ UNCHANGED oops
    \/ heap' = Halt(r.h, "abort") /\ oops' = "new_inode" /\ UNCHANGED nodes

fsl_fill_super(h) ==
    /\ nodes = <<>>
    /\ \E fbn \in {fsl_bridge_from_ti(typeinfo_alloc_origin(heap))} :
        fbn.b # NoNode /\ fsl_inode_iget(fbn, h)
    /\ UNCHANGED <<held, files, pages>>

(* fsl_type_lookup and fsl_array_lookup. *)
LookupIn(b, nm) ==
    IF b.k = "type" THEN fsl_bridge_follow_name(heap, b.ti, nm)
    ELSE IF nm \in DOMAIN KNumber THEN fsl_bridge_idx_into(heap, b, KNumber[nm])
    ELSE fsl_bridge_follow_pretty_name(heap, b, nm)

fsl_lookup(dir, nm, h) ==
    /\ nodes[dir].k # "prim" /\ h \notin DOMAIN nodes
    /\ \E r \in {LookupIn(nodes[dir], nm)} :
        IF r.b = NoNode THEN heap' = r.h /\ UNCHANGED <<nodes, oops>>
        ELSE fsl_inode_iget(r, h)
    /\ UNCHANGED <<held, files, pages>>

(* An inode nobody has open is dropped, and with it its page. *)
fsl_destroy_inode(h) ==
    /\ h \notin DOMAIN files
    /\ heap' = fsl_bridge_free(heap, nodes[h])
    /\ nodes' = Restrict(nodes, DOMAIN nodes \ {h})
    /\ pages' = Restrict(pages, DOMAIN pages \ {h})
    /\ UNCHANGED <<held, files, oops>>

fsl_type_open(h) ==
    /\ h \notin DOMAIN files
    /\ files' = With(files, h, [pos |-> 0, real |-> 0, seen |-> <<>>])
    /\ UNCHANGED <<heap, nodes, held, pages, oops>>

fsl_type_release(h) ==
    /\ files' = Restrict(files, DOMAIN files \ {h})
    /\ UNCHANGED <<heap, nodes, held, pages, oops>>

(* generic_file_llseek knows nothing of fp_realpos. *)
llseek(h, pos) ==
    /\ files' = [files EXCEPT ![h].pos = pos]
    /\ UNCHANGED <<heap, nodes, held, pages, oops>>

-----------------------------------------------------------------------------
(* What a directory holds, by fp_realpos: a name, or "" for what is passed *)
(* over.                                                                   *)
TypeSlots(h, t, o) ==
    LET F == FieldAll(o)
    IN  [i \in DOMAIN F |-> IF fsl_bridge_follow_tf(h, t, F[i]).b = NoNode THEN "" ELSE F[i].nm]
        \o [i \in DOMAIN o.pt |-> IF o.pt[i].offs = <<>> THEN "" ELSE o.pt[i].nm]
        \o [i \in DOMAIN o.vt |-> IF o.vt[i].bases = <<>> THEN "" ELSE o.vt[i].nm]

(* fsl_readdir_array_fbn: ends at the first element that cannot be opened, *)
(* unless it is of a virtual type and failed its asserts.                  *)
KNumbered(nm, i) == IF nm = "" THEN KNameOf(i) ELSE nm
SlotName(g, i) == IF g.t = 0 THEN "" ELSE KNumbered(typeinfo_getname(g.h, g.t), i)
SlotsOf(els, n) ==
    LET bad == {i \in DOMAIN els : els[i].t = 0 /\ els[i].err # "BADVERIFY"}
    IN  [k \in 1 .. Min(bad \cup {n}) |-> SlotName(els[k - 1], k - 1)]
Reach(b) == IF b.k = "prims" THEN 0 ELSE IF b.k = "vt" THEN TotalOf(b.mem) + 1 ELSE b.max
ArraySlots(h, b) == SlotsOf(Elements(h, b, Reach(b) - 1), Reach(b))

Slots(h, b) == IF b.k = "type" THEN TypeSlots(h, b.ti, Obj(h, b.ti)) ELSE ArraySlots(h, b)
Names(s) == SelectSeq(s, LAMBDA nm : nm # "")

\* Mutant: the position moves on although the buffer took no more.
FillPast(f, s, room) ==
    LET at   == {k \in f.real + 1 .. Len(s) : s[k] # ""}
        stop == {k \in at : Cardinality({j \in at : j < k}) = room}
        real == IF stop = {} THEN Max({f.real, Len(s)}) ELSE Min(stop)
    IN  [pos |-> f.pos, real |-> real,
         seen |-> f.seen \o SubSeq(Names(SubSeq(s, f.real + 1, real)), 1, room)]

(* The listing goes on at fp_realpos and stops there when the buffer is    *)
(* full; the position that was handed to the full buffer is used up.       *)
Fill(f, s, room) ==
    LET at   == {k \in f.real + 1 .. Len(s) : s[k] # ""}
        stop == {k \in at : Cardinality({j \in at : j < k}) = room}
        real == IF stop = {} THEN Max({f.real, Len(s)}) ELSE Min(stop) - 1
        new  == Names(SubSeq(s, f.real + 1, real))
    IN  [pos |-> f.pos + Len(new) + Cardinality(stop), real |-> real, seen |-> f.seen \o new]

(* fsl_type_readdir and fsl_array_readdir: "." and ".." first. *)
fsl_readdir(h, buf) ==
    LET f    == files[h]
        dots == IF f.pos < 2 THEN 2 - f.pos ELSE 0
        f1   == [f EXCEPT !.pos = @ + dots]
    IN  /\ nodes[h].k # "prim"
        /\ files' = [files EXCEPT ![h] =
                        IF buf < dots THEN [f EXCEPT !.pos = @ + buf]
                        ELSE Fill(f1, Slots(heap, nodes[h]), buf - dots)]
        /\ UNCHANGED <<heap, nodes, held, pages, oops>>

-----------------------------------------------------------------------------
PrimBytes(h, b) ==
    LET i == h.ti[b.ti] IN
    [k \in 1 .. fbn_bytes(h, b) |->
        IF i.xl = 0 THEN i.off + k - 1 ELSE XlateOf(h.rt[i.xl].virt, i.off + k - 1)]

(* fsl_prim_readpage: the position of the file is added to the page's.     *)
(* Bytes past the end are zero and not recorded.                           *)
ReadPage(b, at) == [at |-> at, bytes |-> SubSeq(PrimBytes(heap, b), at + 1, fbn_bytes(heap, b))]

fsl_prim_readpage(h) ==
    LET f == files[h]
    IN  /\ nodes[h].k = "prim" /\ h \notin DOMAIN pages
        /\ pages' = IF f.pos >= fbn_bytes(heap, nodes[h]) THEN pages
                    ELSE With(pages, h, ReadPage(nodes[h], f.pos))
        /\ UNCHANGED <<heap, nodes, held, files, oops>>

KfsInit ==
    /\ heap = NoHeap /\ nodes = <<>> /\ held = <<>>
    /\ files = <<>> /\ pages = <<>> /\ oops = "none"

KfsNext ==
    /\ heap.st = "ok"
    /\ \/ fsl_fill_super(Min(Handles))
       \/ \E d \in DOMAIN nodes, nm \in KNames, h \in Handles : fsl_lookup(d, nm, h)
       \/ \E h \in DOMAIN nodes : fsl_destroy_inode(h) \/ fsl_type_open(h)
       \/ \E h \in DOMAIN files :
            \/ fsl_type_release(h) \/ fsl_prim_readpage(h)
            \/ \E n \in BufEnts : fsl_readdir(h, n)
            \/ \E p \in 0 .. 2 : llseek(h, p)

-----------------------------------------------------------------------------
(* However small the buffers and wherever the listing was interrupted, an  *)
(* open directory gives out its entries in order, each exactly once: what  *)
(* was given out is a prefix, and exactly the part before fp_realpos.  (So *)
(* a rewound directory lists only "." and "..".)                           *)
EmitsOnce ==
    \A h \in DOMAIN files : nodes[h].k # "prim" =>
        files[h].seen = Names(SubSeq(Slots(heap, nodes[h]), 1, files[h].real))

(* A page that was filled by a read from the start of the file holds the   *)
(* file, wherever it lies on the device; only new_inode can kill a lookup. *)
PagesExact ==
    /\ \A h \in DOMAIN pages : pages[h].at = 0 => pages[h].bytes = PrimBytes(heap, nodes[h])
    /\ heap.st = "abort" => oops = "new_inode"
=============================================================================
