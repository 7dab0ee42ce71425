---------------------------- MODULE FuseBrowser ----------------------------
(***************************************************************************)
(* The FUSE browser (tool/fuse-browser.c, tool/fuse_node.c): paths are     *)
(* resolved to bridge nodes, types and arrays are directories, primitives  *)
(* are files.  FUSE is run single threaded (-s), so a handler is a step.   *)
(***************************************************************************)
EXTENDS Bridge

CONSTANTS
    Fds,            \* the open files
    Number,         \* the names that are digits, and their value
    Paths,          \* the paths asked for
    MaxIo,          \* bytes of a read or write, at most
    IO_MAX_ACCESS   \* entries of the write log; a byte written takes one

VARIABLE out        \* the last call and what it gave

NoOut == [op |-> "none"]
fusevars == <<heap, nodes, held, out>>

is_int(s) == s \in DOMAIN Number

(* A name is a member (of element 0, in an array) before it is the name an *)
(* element gives itself.                                                   *)
OrPretty(r, b, e) == IF r.b # NoNode THEN r ELSE fsl_bridge_follow_pretty_name(r.h, b, e)
Step(h, b, e) ==
    IF is_int(e) THEN fsl_bridge_idx_into(h, b, Number[e])
    ELSE OrPretty(fsl_bridge_fbn_follow_name(h, b, e), b, e)

(* The rest of the path below a node that goes when it was followed. *)
RECURSIVE fbn_from_relpath(_, _, _)
Below(new, path) ==
    IF new.b = NoNode \/ path = <<>> THEN new
    ELSE FreeVia(fbn_from_relpath(new.h, new.b, path), new.b)
fbn_from_relpath(h, b, path) ==
    IF path = <<>> THEN Made(h, b) ELSE Below(Step(h, b, Head(path)), Tail(path))

fslnode_by_path(h, path) == Below(fsl_bridge_from_ti(typeinfo_alloc_origin(h)), path)

FileKinds == {"prim", "prims"}
IsFile(b) == b.k \in FileKinds

(* FUSE asks for a path only below what it was told is a directory.        *)
Asked(path) ==
    path = <<>> \/ fslnode_by_path(heap, Front(path)).b.k \notin FileKinds \cup {"none"}

-----------------------------------------------------------------------------
(* fslfuse_getattr: the root is answered without a node. *)
fslfuse_getattr(path) ==
    /\ Asked(path)
    /\ \E r \in {fslnode_by_path(heap, path)} :
        /\ out' = [op |-> "getattr", path |-> path, size |-> fbn_bytes(r.h, r.b)]
        /\ heap' = IF path = <<>> THEN heap
                   ELSE IF r.b = NoNode THEN r.h ELSE fsl_bridge_free(r.h, r.b)
    /\ UNCHANGED <<nodes, held>>

(* A directory of primitives can be opened as a directory as well. *)
OpenIf(f, path, kinds) ==
    /\ f \notin DOMAIN nodes /\ Asked(path)
    /\ out' = [op |-> "open", path |-> path]
    /\ \E r \in {fslnode_by_path(heap, path)} :
        IF r.b # NoNode /\ r.b.k \in kinds
        THEN heap' = r.h /\ nodes' = With(nodes, f, r.b)
        ELSE /\ heap' = IF r.b = NoNode THEN r.h ELSE fsl_bridge_free(r.h, r.b)
             /\ UNCHANGED nodes
    /\ UNCHANGED held

fslfuse_opendir(f, path) == OpenIf(f, path, {"type", "tf", "prims", "pt", "vt"})
fslfuse_open(f, path)    == OpenIf(f, path, FileKinds)

fslfuse_close(f) ==
    /\ heap' = fsl_bridge_free(heap, nodes[f])
    /\ nodes' = Restrict(nodes, DOMAIN nodes \ {f})
    /\ out' = [op |-> "close"]
    /\ UNCHANGED held

-----------------------------------------------------------------------------
(* An entry of a listing: its name and the member, or the element of the   *)
(* member, it is about.                                                    *)
Entry(nm, kind, mem, idx) == [nm |-> nm, kind |-> kind, mem |-> mem, idx |-> idx]

Shown(s, kind) == [k \in DOMAIN s |-> Entry(s[k].nm, kind, s[k], 0)]

read_ti_dir(o) ==
    Shown(SelectSeq(FieldAll(o), LAMBDA f : f.cond), "tf")
    \o Shown(SelectSeq(o.pt, LAMBDA m : m.nm # "" /\ m.offs # <<>>), "pt")
    \o Shown(SelectSeq(o.vt, LAMBDA v : v.nm # "" /\ v.bases # <<>>), "vt")

NameOf(i) == CHOOSE s \in DOMAIN Number : Number[s] = i

(* read_array_dir: an element that cannot be opened is left out; a virtual *)
(* type ends at the first error that is not a failed verification.         *)
Ends(b, g) == b.k = "vt" /\ g.t = 0 /\ g.err # "BADVERIFY"
Numbered(nm, i) == IF nm = "" THEN NameOf(i) ELSE nm
Listed(b, els) ==
    LET shown == SetToSortSeq({i \in DOMAIN els : els[i].t # 0 /\
                                  \A j \in 0 .. i : ~Ends(b, els[j])}, <)
    IN  [k \in DOMAIN shown |-> LET g == els[shown[k]] IN
            Entry(Numbered(typeinfo_getname(g.h, g.t), shown[k]), b.k, b.mem, shown[k])]
read_array_dir(h, b) ==
    Listed(b, Elements(h, b, IF b.k = "vt" THEN TotalOf(b.mem) ELSE b.max - 1))

fslfuse_readdir(f) ==
    LET b == nodes[f]
    IN  /\ ~IsFile(b)
        /\ out' = [op |-> "readdir", f |-> f,
                   ents |-> IF b.k = "type" THEN read_ti_dir(Obj(heap, b.ti))
                            ELSE read_array_dir(heap, b)]
        /\ UNCHANGED hvars

-----------------------------------------------------------------------------
(* fslfuse_prep_io: the type_info of the file; the one of an array of      *)
(* primitives is made for the call and freed after it.                     *)
PrepIo(b) ==
    IF b.k = "prim" THEN [h |-> heap, t |-> b.ti, err |-> "OK"]
    ELSE typeinfo_follow_field_idx(heap, b.par, b.mem, 0)

\* Mutant: the size is cut to the file, not to what is left of it.
ClipToFile(len, offset, size) == IF size + offset > len THEN len ELSE size

Clip(len, offset, size) == IF size + offset > len THEN len - offset ELSE size

(* The bytes of the device: a read goes through the mapping of the type_   *)
(* info, a write to the offset in the mapping as if it were the device's.  *)
ReadAt(h, t, k) ==
    LET i == h.ti[t] IN IF i.xl = 0 THEN i.off + k ELSE XlateOf(h.rt[i.xl].virt, i.off + k)
WriteAt(h, t, k) == h.ti[t].off + k

Io(f, offset, size, op) ==
    LET b   == nodes[f]
        limit       == IF op = "read" THEN MaxIo ELSE IO_MAX_ACCESS
        at(h, t, k) == IF op = "read" THEN ReadAt(h, t, k) ELSE WriteAt(h, t, k)
        len == fbn_bytes(heap, b)
        n   == Clip(len, offset, size)
        res(n1, bytes) == [op |-> op, f |-> f, size |-> n1, bytes |-> bytes]
    IN  /\ IsFile(b)
        /\ \E p \in {PrepIo(b)} :
             IF offset >= len THEN out' = res(0, <<>>) /\ UNCHANGED heap
             ELSE IF p.t = 0 \/ n > limit
                  THEN out' = res(n, <<>>) /\ heap' = Halt(heap, "abort")
             ELSE /\ out' = res(n, [k \in 1 .. n |-> at(p.h, p.t, offset + k - 1)])
                  /\ heap' = IF b.k = "prims" THEN typeinfo_free(p.h, p.t) ELSE p.h
        /\ UNCHANGED <<nodes, held>>

fslfuse_read(f, offset, size)  == Io(f, offset, size, "read")
fslfuse_write(f, offset, size) == Io(f, offset, size, "write")

-----------------------------------------------------------------------------
FuseInit == heap = NoHeap /\ nodes = <<>> /\ held = <<>> /\ out = NoOut

FuseNext ==
    /\ heap.st = "ok"
    /\ \/ \E p \in Paths : fslfuse_getattr(p)
       \/ \E f \in Fds, p \in Paths : fslfuse_opendir(f, p) \/ fslfuse_open(f, p)
       \/ \E f \in DOMAIN nodes :
            \/ fslfuse_close(f) \/ fslfuse_readdir(f)
            \/ \E o \in 0 .. MaxIo, n \in 1 .. MaxIo :
                   fslfuse_read(f, o, n) \/ fslfuse_write(f, o, n)

-----------------------------------------------------------------------------
(* What is listed can be opened under the name it is listed by, and is     *)
(* then the object that was listed, with these exceptions of the code: a   *)
(* field is listed by its condition alone; a member hides later ones of    *)
(* the same name, and a member of the first element of an array hides the  *)
(* elements of that name; an element that calls itself by digits is taken  *)
(* for an index; an element of a virtual type is found by name only from   *)
(* the minimum of the source range on.                                     *)
ListedResolves ==
    out.op = "readdir" => LET b == nodes[out.f] IN
        \A k \in DOMAIN out.ents : LET e == out.ents[k] IN
          \A r \in {fbn_from_relpath(heap, b, <<e.nm>>)} : LET i == r.h.ti[r.b.ti] IN
            \/ r.b # NoNode /\ r.b.ti = 0 /\ r.b.mem = e.mem
            \/ r.b # NoNode /\ r.b.ti # 0 /\ i.mem = e.mem /\ i.idx = e.idx
            \/ \E j \in 1 .. k - 1 : out.ents[j].nm = e.nm
            \/ b.k = "type" /\ e.kind = "tf" /\ r.b = NoNode
            \/ fbn_is_array(b) /\
                 \/ /\ is_int(e.nm)
                    /\ \A g \in {Follow(heap, b.par, e.kind, e.mem, e.idx)} :
                          typeinfo_getname(g.h, g.t) = e.nm
                 \/ ~is_int(e.nm) /\ fsl_bridge_fbn_follow_name(heap, b, e.nm).b # NoNode
                 \/ ~is_int(e.nm) /\ e.kind = "vt" /\ e.idx < e.mem.min

(* The process ends by an assertion only when a number is asked for below  *)
(* what is no array, or when more is written at once than the write log    *)
(* holds.                                                                  *)
AbortsExplained ==
    heap.st = "abort" =>
        \/ out.op = "write" /\ out.size > IO_MAX_ACCESS
        \/ out.op \in {"getattr", "open"} /\ \E k \in DOMAIN out.path :
              /\ is_int(out.path[k])
              /\ ~fbn_is_array(fslnode_by_path(NoHeap, SubSeq(out.path, 1, k - 1)).b)

(* The bytes of a file, in order, wherever they lie on the device. *)
FileBytes(b) ==
    LET bytes(p, n) == [k \in 1 .. n |-> ReadAt(p.h, p.t, k - 1)]
    IN  bytes(PrepIo(b), fbn_bytes(heap, b))

(* A read returns a run of the file's bytes, and a write goes to the bytes *)
(* that a read at the same place would return, except inside a virtual     *)
(* type, where a write is not translated.                                  *)
IoInFile ==
    out.op \in {"read", "write"} /\ out.bytes # <<>> => LET b == nodes[out.f] IN
        \/ \E k \in 0 .. Len(FileBytes(b)) - out.size :
               out.bytes = SubSeq(FileBytes(b), k + 1, k + out.size)
        \/ out.op = "write" /\ heap.ti[b.par].xl # 0
=============================================================================
