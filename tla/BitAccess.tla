----------------------------- MODULE BitAccess -----------------------------
(***************************************************************************)
(* Words of any width at any bit: __getLocalPhys (rt-pread/io.c), its      *)
(* misaligned and byte-swapping variants (runtime/io.c), the two ways the  *)
(* cache assembles a word (rt-pread/cache.c), and fsl_io_write.            *)
(*                                                                         *)
(* None of them looks at the value of a bit, so a bit is known by where it *)
(* came from: a word maps its positions, 0 being the least significant, to *)
(* origins.  That lines are in the cache and up to date is IoCache's       *)
(* subject; here a line is the bytes of the device.  The host is little    *)
(* endian, as the Makefile has it.                                         *)
(***************************************************************************)
EXTENDS Integers, Sequences, FiniteSets

CONSTANTS
    ByteBits,       \* 8
    WordBytes,      \* 8
    LineBytes,      \* FSL_IO_CACHE_BYTES, 32
    DevBytes,
    AccessOffs,     \* where words are read and written
    MaxElems        \* the longest array

VARIABLES
    mode,           \* __fsl_mode
    cells,          \* the bits of the device, each byte from its least significant bit
    mem,            \* what the user of the runtime has written, in the order of mode
    ret             \* what the last read returned: [off, n, val], or None

bav == <<mode, cells, mem, ret>>

WordBits == WordBytes * ByteBits
Pos      == 0 .. WordBits - 1
DevBits  == 0 .. (DevBytes * ByteBits) - 1

(* Origins: a bit of the device as it was, or of a value written.          *)
Zero  == [from |-> "zero",  at |-> 0]
Mixed == [from |-> "mixed", at |-> 0]      \* two bits or-ed
Stray == [from |-> "stray", at |-> 0]      \* memory behind a cache line
Disk(p) == [from |-> "disk", at |-> p]
Val(i)  == [from |-> "val",  at |-> i]

None  == [off |-> 0, n |-> 0, val |-> <<>>]
Abort == <<>>                              \* a failed assertion

Shl(w, n)    == [i \in Pos |-> IF i >= n THEN w[i - n] ELSE Zero]
Shr(w, n)    == [i \in Pos |-> IF i + n < WordBits THEN w[i + n] ELSE Zero]
Low(w, n)    == [i \in Pos |-> IF i < n THEN w[i] ELSE Zero]
Or(v, w)     == [i \in Pos |-> IF v[i] = Zero THEN w[i] ELSE IF w[i] \in {Zero, v[i]} THEN v[i] ELSE Mixed]

-----------------------------------------------------------------------------
LineOf(off) == off \div (LineBytes * ByteBits)

(* A load of k bytes from a line, by a pointer of that width.              *)
Load(off, k) ==
    [i \in Pos |-> IF i >= k * ByteBits THEN Zero
                   ELSE IF LineOf(off + i) = LineOf(off) THEN cells[off + i] ELSE Stray]

(* fsl_io_cache_get, inside a line: by how many bytes are asked for, how   *)
(* many are loaded and how many bits are kept of them.                     *)
Loaded(k) == CASE k \in {0, 1} -> 1 [] k = 2 -> 2 [] k \in {3, 4} -> 4 [] k \in 5 .. 8 -> 8
Kept(k)   ==
    CASE k \in {3, 5} -> k * ByteBits
      [] k \in {6, 7} -> (k * ByteBits) + (ByteBits \div 2)     \* 0xfffffffffffff has 52 bits
      [] OTHER -> WordBits

Aligned(off, n) ==
    LET k == (n + ByteBits - 1) \div ByteBits
    IN  Low(Low(Load(off, Loaded(k)), Kept(k)), n)

(* fsl_io_cache_get_unaligned: the bytes are copied to join_buf, the whole *)
(* ones are put together.                                                  *)
MutJoined(off, n) == [i \in Pos |-> IF i < n - ByteBits THEN cells[off + i] ELSE Zero]

Joined(off, n) == [i \in Pos |-> IF i < (n \div ByteBits) * ByteBits THEN cells[off + i] ELSE Zero]

CacheGet(off, n) ==
    IF LineOf(off) = LineOf(off + n - 1) THEN Aligned(off, n) ELSE Joined(off, n)

swapBytes(w, k) ==
    IF k \in {1, 2, 4, 5, 6, 8}
    THEN [i \in Pos |-> IF i < k * ByteBits
                        THEN w[((k - 1 - (i \div ByteBits)) * ByteBits) + (i % ByteBits)] ELSE Zero]
    ELSE Abort

AlignedPhys(off, n) ==
    IF n % ByteBits = 0 /\ mode = "big" THEN swapBytes(CacheGet(off, n), n \div ByteBits)
    ELSE CacheGet(off, n)

ByteAt(off) == (off \div ByteBits) * ByteBits
LeftBits(off, n) == IF ByteBits - (off % ByteBits) > n THEN n ELSE ByteBits - (off % ByteBits)

(* (1UL << num_bits) - 1; for a whole word the shift is undefined: the     *)
(* processor shifts by 0, a compiler that knows the width may keep all.    *)
Masked(w, n, wide) == IF n < WordBits THEN Low(w, n) ELSE Low(w, wide)

Misalign(off, n, wide) ==
    LET left  == LeftBits(off, n)
        full  == (n - left) \div ByteBits
        right == n - ((full * ByteBits) + left)
        next  == ByteAt(off) + ByteBits
        a     == Shr(AlignedPhys(ByteAt(off), ByteBits), off % ByteBits)
        b     == IF full = 0 THEN a ELSE Or(a, Shl(AlignedPhys(next, full * ByteBits), left))
        c     == Masked(b, n, wide)
    IN  IF right = 0 THEN c
        ELSE Or(c, Shl(Low(AlignedPhys(next + (full * ByteBits), ByteBits), right), left + (full * ByteBits)))

(* The assertion on the parts fails for a field that ends inside the byte  *)
(* it begins in, because its end is counted twice.                         *)
MisalignSwp(off, n, wide) ==
    LET left  == LeftBits(off, n)
        right == (off + n) % ByteBits
        full  == (n - (left + right)) \div ByteBits
        next  == ByteAt(off) + ByteBits
        mid   == AlignedPhys(next, full * ByteBits)
        a     == Shl(Low(AlignedPhys(ByteAt(off), ByteBits), left), n - left)
        b     == IF full = 0 THEN a ELSE Or(a, Shl(mid, right))
        c     == IF right = 0 THEN b
                 ELSE Or(b, Shr(AlignedPhys(next + (full * ByteBits), ByteBits), ByteBits - right))
    IN  IF n < left + right \/ (full > 0 /\ mid = Abort) THEN Abort ELSE Masked(c, n, wide)

getLocalPhys(off, n, wide) ==
    CASE off % ByteBits = 0 -> AlignedPhys(off, n)
      [] off % ByteBits # 0 /\ mode = "big" -> MisalignSwp(off, n, wide)
      [] OTHER -> Misalign(off, n, wide)

-----------------------------------------------------------------------------
(* The place of bit q of the device in the order of the description: least *)
(* significant bit first, or most significant bit first.                   *)
Place(q) == IF mode = "big" THEN ByteAt(q) + ByteBits - 1 - (q % ByteBits) ELSE q

AccessInit ==
    /\ mode \in {"little", "big"}
    /\ cells = [p \in DevBits |-> Disk(p)]
    /\ mem = [q \in DevBits |-> Disk(Place(q))]
    /\ ret = None

Fits(off, n) == off + n <= DevBytes * ByteBits

(* __getLocal of an object that is not in a virtual type. *)
getLocal(off, n) ==
    /\ ret = None /\ n \in 1 .. WordBits /\ Fits(off, n)
    /\ \E wide \in {0, WordBits} : ret' = [off |-> off, n |-> n, val |-> getLocalPhys(off, n, wide)]
    /\ UNCHANGED <<mode, cells, mem>>

(* The caller has used the value. *)
Used == ret # None /\ ret' = None /\ UNCHANGED <<mode, cells, mem>>

(* The bound lets the element behind the last one through. *)
getLocalArray(base, n, idx, elems) == n * idx <= n * elems /\ getLocal(base + (n * idx), n)

(* What the user means by a write of the bits Val(0) .. Val(n-1).          *)
Meant(off, n) ==
    [q \in DevBits |-> IF q \notin off .. off + n - 1 THEN mem[q]
                       ELSE IF mode = "big" THEN Val(n - 1 - (q - off)) ELSE Val(q - off)]

(* fsl_io_write: one bit, or whole bytes, the least significant first.     *)
fsl_io_write(off, n) ==
    /\ n = 1 \/ (off % ByteBits = 0 /\ n % ByteBits = 0)
    /\ Fits(off, n)
    /\ cells' = [p \in DevBits |-> IF p \in off .. off + n - 1 THEN Val(p - off) ELSE cells[p]]
    /\ ret = None /\ mem' = Meant(off, n)
    /\ UNCHANGED <<mode, ret>>

WasWritten == \E q \in DevBits : mem[q].from = "val"

(* One write, and reads before and after it. *)
AccessNext ==
    \/ Used
    \/ \E off \in AccessOffs, n \in 1 .. WordBits : getLocal(off, n)
    \/ \E off \in AccessOffs, n \in {1, ByteBits}, idx, elems \in 0 .. MaxElems :
            getLocalArray(off, n, idx, elems)
    \/ \E off \in AccessOffs, n \in {1} \cup {k * ByteBits : k \in 1 .. WordBytes} :
            ret = None /\ ~WasWritten /\ fsl_io_write(off, n)

-----------------------------------------------------------------------------
Whole(n)   == n % ByteBits = 0
Strad(off, n) == LineOf(off) # LineOf(off + n - 1)

(* A read the runtime answers wrongly: a width that is no multiple of 8,   *)
(* aligned, over the end of a line, loses its last bits; a misaligned read *)
(* of 64 bits masks everything away; and in big-endian mode an aligned     *)
(* width that is no multiple of 8 is not swapped.                          *)
Amiss(r) ==
    \/ r.off % ByteBits = 0 /\ ~Whole(r.n) /\ (Strad(r.off, r.n) \/ mode = "big")
    \/ r.off % ByteBits # 0 /\ r.n = WordBits

(* The other reads that come back return the bits of the description, in   *)
(* the order of its mode and with zeroes above them, whatever the          *)
(* alignment, the width and the lines they touch, and see what was written *)
(* before; except that writes are little endian in both modes.             *)
WordsExact ==
    ret # None /\ ret.val # Abort /\ ~Amiss(ret) /\ ~(mode = "big" /\ WasWritten) =>
        \A i \in Pos :
            ret.val[i] = IF i >= ret.n THEN Zero
                         ELSE mem[IF mode = "big" THEN ret.off + ret.n - 1 - i ELSE ret.off + i]

MiddleBytes(off, n) ==
    IF off % ByteBits = 0 THEN n \div ByteBits ELSE (n - LeftBits(off, n)) \div ByteBits

(* Reads abort only in big-endian mode, for a field that ends inside the   *)
(* byte it begins in and for three or seven whole bytes to be swapped.     *)
AbortsOnlySwapped ==
    ret # None =>
        (ret.val = Abort <=>
            /\ mode = "big"
            /\ \/ ret.off % ByteBits # 0 /\ (ret.off % ByteBits) + ret.n < ByteBits
               \/ (ret.off % ByteBits = 0 => Whole(ret.n)) /\ MiddleBytes(ret.off, ret.n) \in {3, 7})
=============================================================================
