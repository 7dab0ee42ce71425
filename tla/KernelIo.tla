------------------------------ MODULE KernelIo ------------------------------
(***************************************************************************)
(* The I/O layer of the kernel module (kernel/mod/io.c, kernel/mod/cache.c)*)
(* and the threads in it: readers of the mounted file system and tools     *)
(* started by ioctl.  The line cache has no lock.  A miss first gives the  *)
(* slot its new line number and then sleeps until the block is there; a    *)
(* hit is a pointer into the slot that is followed later.                  *)
(*                                                                         *)
(* The block device is seen through the kernel's buffers: "view" is what   *)
(* a buffer that is up to date holds, and what the device holds of any     *)
(* other block.  bh_submit_read fills a buffer that is not up to date, or  *)
(* fails and leaves it as it is; on one that is up to date it only takes   *)
(* the lock off.  So the lock protects nothing: lines are copied out of a  *)
(* buffer, and bytes stored into it, one by one between the steps of other *)
(* threads.  A failed read kills the thread in a miss and is not looked at *)
(* anywhere else: a write then marks a buffer up to date that was never    *)
(* read, and nothing is claimed of that block any more.  Not in the model: *)
(* the second unlock_buffer may take the lock of another thread's read;    *)
(* write-back and its errors.  A lookup, with the line number a miss gives *)
(* its slot, and the loop that drops lines are a step each: what could     *)
(* come between them only takes a line out once more, or is marked as met. *)
(*                                                                         *)
(* The size the code asks for is a page and its block numbers count        *)
(* blocks, so both must be the same.                                       *)
(***************************************************************************)
EXTENDS Integers, Sequences, FiniteSets

CONSTANTS
    Threads,        \* who may be in the layer
    LineBytes,      \* FSL_IO_CACHE_BYTES
    Ents,           \* FSL_IO_CACHE_ENTS
    NBytes,         \* size of the device
    PageBytes,      \* PAGE_SIZE, the size of a block
    BitsPerByte,    \* 8 in the code
    MaxMangled,     \* bound: accesses begin while no more blocks are mangled
    Accesses        \* offset and size in bytes of the reads and writes

VARIABLES
    view,           \* the bytes of the device
    ents,           \* ioc_ents
    thr,            \* where each thread is
    ret,            \* the last read's answer, where one thread runs alone
    crew,           \* the threads of this behaviour
    spoilt,         \* slots two misses met in, or a read error left behind
    uptodate,       \* blocks with a buffer in use that is up to date
    mangled         \* blocks a write marked up to date that had not been read

bufvars == <<uptodate, mangled>>
kiovars == <<view, ents, thr, ret, crew, spoilt, bufvars>>

BitPos == 0 .. BitsPerByte - 1
Byte  == [BitPos -> {0, 1}]
Zero  == [b \in BitPos |-> 0]
Addr  == 0 .. NBytes - 1
Slots == 0 .. Ents - 1
NoLine == -1
NoBytes == [i \in {} |-> 0]

byte_to_line(b) == b \div LineBytes
Slot(l) == l % Ents
Off == 0 .. LineBytes - 1
Block(a) == a \div PageBytes
Sound(a) == Block(a) \notin mangled

(* A thread: what it does, the lines it still has to get, the bytes left   *)
(* of a copy, and, for the properties only, the values each byte had since *)
(* it came ("seen"), those a write has replaced ("old"), and whether       *)
(* another thread's miss met it in one of its slots.                       *)
Idle == [pc |-> "idle"]
Busy(t) == thr[t].pc \in {"probe", "fill", "copy", "join"}
Missing(th) == th.pc \in {"fill", "copy"}
Filling(s) == {t \in crew : Missing(thr[t]) /\ Slot(Head(thr[t].lines)) = s}
Using(s) == {t \in crew : Busy(t) /\ \E l \in thr[t].all : Slot(l) = s}
Solo == \E t \in Threads : crew = {t}
Answer(bytes) == ret' = IF Solo THEN bytes ELSE ret
Writing == {t \in crew : thr[t].pc \in {"store", "drop"}}

(* What the properties allow a byte to be.                                 *)
Since(a) == {view[a]} \cup UNION {thr[t].old[a] : t \in {u \in Writing : a \in DOMAIN thr[u].old}}

(* A device of zeroes to begin with.                                      *)
Blank == [a \in Addr |-> Zero]

fsl_io_cache_init == [s \in Slots |-> [addr |-> NoLine, data |-> [o \in Off |-> Zero]]]

KioInit ==
    /\ view = Blank
    /\ ents = fsl_io_cache_init
    /\ crew \in SUBSET Threads \ {{}}
    /\ thr = [t \in Threads |-> Idle]
    /\ ret = NoBytes /\ spoilt = {}
    /\ uptodate = {} /\ mangled = {}

-----------------------------------------------------------------------------
(* Buffers: bh_submit_read, and brelse.  A buffer nobody uses may be       *)
(* written out and taken away at any time, so nothing is kept of it.       *)
Uses(u, b) ==
    \/ thr[u].pc = "copy" /\ Block(Head(thr[u].lines) * LineBytes) = b
    \/ thr[u].pc = "store" /\ Block(thr[u].off) = b
Shared(t, b) == \E u \in crew \ {t} : Uses(u, b)

Read(b) == uptodate' = uptodate \cup {b}
ReadFails(b) == b \notin uptodate /\ UNCHANGED uptodate
Release(t, b) == uptodate' = IF Shared(t, b) THEN uptodate ELSE uptodate \ {b}

-----------------------------------------------------------------------------
(* Reads: fsl_io_cache_get and fsl_io_cache_get_unaligned. *)
Begin(t, off, n, then) ==
    LET first == byte_to_line(off)
        last  == byte_to_line(off + n - 1)
    IN  /\ thr[t] = Idle /\ off + n <= NBytes
        /\ thr' = [thr EXCEPT ![t] =
              [pc |-> "probe", off |-> off, n |-> n, then |-> then,
               lines |-> IF first = last THEN <<first>> ELSE <<first, last>>,
               all |-> {first, last}, left |-> {}, met |-> FALSE,
               seen |-> [a \in off .. off + n - 1 |-> Since(a)]]]
        /\ UNCHANGED <<view, ents, ret, crew, spoilt, bufvars>>

fsl_io_cache_get(t, off, n) == Begin(t, off, n, "read")

Got(th) ==
    [th EXCEPT !.lines = Tail(@), !.left = {}, !.pc = IF Len(th.lines) = 1 THEN "join" ELSE "probe"]

(* fsl_io_cache_hitmiss, up to the read of a miss. *)
fsl_io_cache_find(t) ==
    LET th  == thr[t]
        l   == Head(th.lines)
        s   == Slot(l)
        hit == ents[s].addr = l
        bad == s \in spoilt \/ Filling(s) # {}
    IN  /\ th.pc = "probe"
        /\ IF hit
           THEN /\ thr' = [thr EXCEPT ![t] = [Got(th) EXCEPT !.met = @ \/ bad]]
                /\ UNCHANGED <<ents, spoilt>>
           ELSE /\ ents' = [ents EXCEPT ![s].addr = l]
                /\ thr' = [u \in Threads |->
                      IF u = t THEN [th EXCEPT !.pc = "fill", !.left = Off, !.met = @ \/ Filling(s) # {}]
                      ELSE IF u \in Using(s) THEN [thr[u] EXCEPT !.met = TRUE] ELSE thr[u]]
                /\ spoilt' = IF Filling(s) = {} THEN spoilt \ {s} ELSE spoilt \cup {s}
        /\ UNCHANGED <<view, ret, crew, bufvars>>

(* fsl_io_cache_put: bh_submit_read comes back, and the line is copied,    *)
(* whosever the slot is by now.                                            *)
fsl_io_cache_put(t) ==
    /\ thr[t].pc = "fill"
    /\ Read(Block(Head(thr[t].lines) * LineBytes))
    /\ thr' = [thr EXCEPT ![t].pc = "copy"]
    /\ UNCHANGED <<view, ents, ret, crew, spoilt, mangled>>

CopyByte(t) ==
    LET th == thr[t]
        l  == Head(th.lines)
    IN  /\ th.pc = "copy"
        /\ \E o \in th.left :
              /\ ents' = [ents EXCEPT ![Slot(l)].data[o] = view[l * LineBytes + o]]
              /\ IF th.left = {o}
                 THEN thr' = [thr EXCEPT ![t] = Got(th)] /\ Release(t, Block(l * LineBytes))
                 ELSE thr' = [thr EXCEPT ![t].left = @ \ {o}] /\ UNCHANGED uptodate
        /\ UNCHANGED <<view, ret, crew, spoilt, mangled>>

(* "ERROR READING": the thread is gone, its line number stays in the slot. *)
ReadError(t) ==
    /\ thr[t].pc = "fill"
    /\ ReadFails(Block(Head(thr[t].lines) * LineBytes))
    /\ thr' = [thr EXCEPT ![t] = [pc |-> "dead"]]
    /\ spoilt' = spoilt \cup {Slot(Head(thr[t].lines))}
    /\ UNCHANGED <<view, ents, ret, crew, mangled>>

\* Mutant: all bytes come from the slot of the first.
JoinedOneSlot(th) ==
    [i \in 0 .. th.n - 1 |-> ents[Slot(byte_to_line(th.off))].data[(th.off + i) % LineBytes]]

(* The bytes are taken from the slots and the caller goes on with them.    *)
Joined(th) ==
    [i \in 0 .. th.n - 1 |->
        LET a == th.off + i IN ents[Slot(byte_to_line(a))].data[a % LineBytes]]

Join(t) ==
    LET th  == thr[t]
        got == Joined(th)
    IN  /\ th.pc = "join"
        /\ IF th.then = "read"
           THEN /\ Answer(IF \A a \in DOMAIN th.seen : Sound(a) THEN got ELSE ret)
                /\ thr' = [thr EXCEPT ![t] = Idle]
           ELSE /\ thr' = [thr EXCEPT ![t] = [pc |-> "rmw", off |-> th.off, byte |-> got[0]]]
                /\ UNCHANGED ret
        /\ UNCHANGED <<view, ents, crew, spoilt, bufvars>>

-----------------------------------------------------------------------------
(* Writes: the block is read, or not, the bytes are stored, the buffer is  *)
(* marked up to date, and the lines are dropped.                           *)
Store(t, off, n, buf, again) ==
    /\ Read(Block(off)) \/ ReadFails(Block(off))
    /\ thr' = [thr EXCEPT ![t] =
          [pc |-> "store", off |-> off, n |-> n, left |-> off .. off + n - 1,
           buf |-> [a \in off .. off + n - 1 |-> buf[a - off]],
           old |-> [a \in off .. off + n - 1 |-> {}], again |-> again]]
    /\ UNCHANGED <<view, ents, ret, crew, spoilt, mangled>>

(* Past the last byte: set_buffer_uptodate, and the buffer is let go.      *)
Stored(th) == [pc |-> "drop", off |-> th.off, n |-> th.n, old |-> th.old, again |-> th.again]

(* A byte stored in a buffer that is up to date is the device's at once.   *)
StoreByte(t) ==
    /\ thr[t].pc = "store" /\ Block(thr[t].off) \in uptodate
    /\ \E a \in thr[t].left :
          LET v  == thr[t].buf[a]
              th == [thr[t] EXCEPT !.left = @ \ {a}, !.old[a] = @ \cup {view[a]}]
          IN  /\ view' = [view EXCEPT ![a] = v]
              /\ thr' = [u \in Threads |->
                    IF u = t THEN IF th.left = {} THEN Stored(th) ELSE th
                    ELSE IF Busy(u) /\ a \in DOMAIN thr[u].seen
                         THEN [thr[u] EXCEPT !.seen[a] = @ \cup {v}]
                    ELSE thr[u]]
              /\ IF th.left = {} THEN Release(t, Block(th.off)) ELSE UNCHANGED uptodate
    /\ UNCHANGED <<ents, ret, crew, spoilt, mangled>>

(* In one that is not, another thread's read may overwrite it.  If none    *)
(* has when the buffer is marked, the block becomes what was in the buffer *)
(* and what it was given there.                                            *)
StoreUnread(t) ==
    LET b == Block(thr[t].off)
    IN  /\ thr[t].pc = "store" /\ b \notin uptodate /\ thr[t].left # {}
        /\ \E a \in thr[t].left : thr' = [thr EXCEPT ![t].left = @ \ {a}]
        /\ UNCHANGED <<view, ents, ret, crew, spoilt, bufvars>>

MarkUnread(t) ==
    LET b == Block(thr[t].off)
    IN  /\ thr[t].pc = "store" /\ thr[t].left = {}
        /\ thr' = [thr EXCEPT ![t] = Stored(@)]
        /\ IF b \in uptodate
           THEN Release(t, b) /\ UNCHANGED <<view, mangled>>
           ELSE /\ view' \in [Addr -> Byte]
                /\ \A a \in Addr : Block(a) # b => view'[a] = view[a]
                /\ mangled' = mangled \cup {b}
                /\ uptodate' = IF Shared(t, b) THEN uptodate \cup {b} ELSE uptodate
        /\ UNCHANGED <<ents, ret, crew, spoilt>>

(* The bytes are in one page: fsl_io_write asserts it. *)
InPage(off, n) == off + n <= NBytes /\ off \div PageBytes = (off + n - 1) \div PageBytes

fsl_io_write(t, off, n, buf) == thr[t] = Idle /\ InPage(off, n) /\ Store(t, off, n, buf, FALSE)

(* Bytes that cross the end of a page would be copied past its buffer;     *)
(* such calls are left out.                                                *)
fsl_io_write_bytes(t, off, n, buf) == thr[t] = Idle /\ InPage(off, n) /\ Store(t, off, n, buf, FALSE)

(* The byte is read through the cache; which bit becomes what is decided   *)
(* here only when it is written.                                           *)
fsl_io_write_bit(t, off) == Begin(t, off, 1, "bit")

WithBit(v, bit, val) == [v EXCEPT ![bit] = val]

WriteBack(t, bit, val) ==
    LET th == thr[t]
    IN  /\ th.pc = "rmw"
        /\ Store(t, th.off, 1, [i \in 0 .. 0 |-> WithBit(th.byte, bit, val)], TRUE)

(* The lines are dropped; fsl_io_write does so again for a bit.            *)
Dropped(th) == IF th.again THEN [th EXCEPT !.again = FALSE, !.old = [a \in DOMAIN @ |-> {}]] ELSE Idle

\* Mutant: the last line of the write is not looked at.
DropFirstOnly(t) ==
    LET first == byte_to_line(thr[t].off)
    IN  /\ thr[t].pc = "drop"
        /\ ents' = [s \in Slots |->
              IF ents[s].addr = first THEN [ents[s] EXCEPT !.addr = NoLine] ELSE ents[s]]
        /\ thr' = [thr EXCEPT ![t] = Dropped(@)]
        /\ UNCHANGED <<view, ret, crew, spoilt, bufvars>>

fsl_io_cache_drop_bytes(t) ==
    LET first == byte_to_line(thr[t].off)
        last  == byte_to_line(thr[t].off + thr[t].n + LineBytes - 1)
    IN  /\ thr[t].pc = "drop"
        /\ ents' = [s \in Slots |-> IF ents[s].addr \in first .. last
                                    THEN [ents[s] EXCEPT !.addr = NoLine] ELSE ents[s]]
        /\ thr' = [thr EXCEPT ![t] = Dropped(@)]
        /\ UNCHANGED <<view, ret, crew, spoilt, bufvars>>

(* fsl_io_read_bytes inside a block; it never gets to a second one.  After *)
(* a failed read it returns what is in the buffer; such an answer is not   *)
(* kept, nor are those of several threads, which may be torn.              *)
fsl_io_read_bytes(t, off, n) ==
    LET b == Block(off)
    IN  /\ thr[t] = Idle /\ InPage(off, n)
        /\ \/ /\ Answer([i \in 0 .. n - 1 |-> view[off + i]])
              /\ uptodate' = IF Shared(t, b) THEN uptodate \cup {b} ELSE uptodate
           \/ ReadFails(b) /\ UNCHANGED ret
        /\ UNCHANGED <<view, ents, thr, crew, spoilt, mangled>>

Call(t, off, n) ==
    \/ fsl_io_cache_get(t, off, n) \/ fsl_io_read_bytes(t, off, n)
    \/ n = 1 /\ fsl_io_write_bit(t, off)
    \/ \E buf \in [0 .. n - 1 -> Byte] : fsl_io_write(t, off, n, buf) \/ fsl_io_write_bytes(t, off, n, buf)

KioNext ==
    \E t \in crew :
        \/ thr[t] = Idle /\ Cardinality(mangled) <= MaxMangled
           /\ \E acc \in Accesses : Call(t, acc[1], acc[2])
        \/ \E bit \in BitPos, val \in {0, 1} : WriteBack(t, bit, val)
        \/ fsl_io_cache_find(t) \/ fsl_io_cache_put(t) \/ CopyByte(t) \/ ReadError(t) \/ Join(t)
        \/ StoreByte(t) \/ StoreUnread(t) \/ MarkUnread(t) \/ fsl_io_cache_drop_bytes(t)

-----------------------------------------------------------------------------
(* A byte of a line in the cache is what the device holds, or what a write *)
(* that has still to drop the line has replaced, whatever misses and       *)
(* writes of other threads ran at the same time, unless two misses met in  *)
(* its slot or its block was marked without being read: a miss that a      *)
(* write overtakes leaves no stale line behind.                            *)
LinesCoherent ==
    \A s \in Slots \ spoilt : LET l == ents[s].addr IN
        \/ l = NoLine \/ Filling(s) # {}
        \/ \A o \in Off : Sound(l * LineBytes + o) => ents[s].data[o] \in Since(l * LineBytes + o)

(* A read that met no other miss in its slots returns, for each byte, a    *)
(* value the byte had while the read ran or one that a write not yet       *)
(* finished has replaced, unless its block was marked without being read.  *)
JoinsSeen ==
    \A t \in crew : thr[t].pc = "join" /\ ~thr[t].met =>
        \A i \in 0 .. thr[t].n - 1 : LET a == thr[t].off + i IN
            Sound(a) => Joined(thr[t])[i] \in thr[t].seen[a]

(* With one thread nobody can tell the cache is there: the layer is the    *)
(* device RawDisk describes.  A failed read ends a get; where the code     *)
(* goes on, a write may change all of its page, and the answer of          *)
(* fsl_io_read_bytes, or of a get in such a page, is not a device's.       *)
Raw == INSTANCE RawDisk WITH
    disk <- IF Solo THEN view ELSE Blank,
    up   <- ~Solo \/ \A t \in crew : thr[t].pc # "dead"
=============================================================================
