------------------------------ MODULE IoCache ------------------------------
(***************************************************************************)
(* The I/O layer of the userspace runtime (runtime/rt-pread): a device     *)
(* behind a direct-mapped, read-only cache of fixed-size lines.            *)
(*                                                                         *)
(* Small reads go through the cache; bulk reads and all writes go straight *)
(* to the device, and every write drops the lines it may have changed.     *)
(* The cache is correct when no caller can tell it is there, which is      *)
(* Implements below: the module implements RawDisk.                        *)
(*                                                                         *)
(* A byte is the function from its bit positions to its bits, so that the  *)
(* read-modify-write of a single bit is what the code does and not an      *)
(* assignment.  A value of several bytes is the function from 0 .. n-1 to  *)
(* its bytes, lowest address (least significant byte) first.               *)
(***************************************************************************)
EXTENDS Integers

CONSTANTS
    LineBytes,     \* FSL_IO_CACHE_BYTES
    Ents,          \* FSL_IO_CACHE_ENTS
    NBytes,        \* size of the device in bytes
    BitsPerByte,   \* 8 in the code
    MaxAccess,     \* the most bytes a cached read or a single write moves (8)
    MaxBulk        \* the most bytes fsl_io_read_bytes / write_bytes move

(***************************************************************************)
(* The reader of two lines dereferences both slots after filling both, so  *)
(* two neighbouring lines must not share a slot: Ents is at least 2.  The  *)
(* assertion line_begin + 1 = line_end of the straddling read needs        *)
(* accesses no longer than a line.                                         *)
(***************************************************************************)
ASSUME LineAssumption == LineBytes \in Nat \ {0}
ASSUME EntsAssumption == Ents \in Nat \ {0, 1}
ASSUME SizeAssumption == NBytes \in Nat \ {0}
ASSUME BitsAssumption == BitsPerByte \in Nat \ {0}
ASSUME AccessAssumption == MaxAccess \in 1 .. LineBytes
ASSUME BulkAssumption == MaxBulk \in Nat \ {0}

VARIABLES
    disk,          \* the backing file, one value per byte address
    ents,          \* ioc_ents: per slot the line it holds and its data
    ret,           \* the bytes the last read returned
    up             \* the process is running

vars == <<disk, ents, ret, up>>

Bit      == {0, 1}
Word     == 0 .. 2                  \* a value may be wider than its field
BitPos   == 0 .. BitsPerByte - 1
Byte     == [BitPos -> Bit]
Addr     == 0 .. NBytes - 1
LineOff  == 0 .. LineBytes - 1
Slots    == 0 .. Ents - 1
NoLine   == -1                       \* ce_addr = ~0
NoBytes  == [i \in {} |-> 0]

byte_to_line(b) == b \div LineBytes

(* Lines that lie on the device as a whole; pread of any other is short. *)
Readable(l) == (l + 1) * LineBytes <= NBytes
Lines       == {l \in Addr : Readable(l)}

Entry == [addr : Lines \union {NoLine}, data : [LineOff -> Byte]]

-----------------------------------------------------------------------------
(* The cache, as functions of its entries c and the current device. *)

Slot(l) == l % Ents

LineOnDisk(d, l) == [o \in LineOff |-> d[l * LineBytes + o]]

fsl_io_cache_find(c, l) == c[Slot(l)].addr = l

fsl_io_cache_put(c, l) ==
    [c EXCEPT ![Slot(l)] = [addr |-> l, data |-> LineOnDisk(disk, l)]]

fsl_io_cache_hitmiss(c, l) ==
    IF fsl_io_cache_find(c, l) THEN c ELSE fsl_io_cache_put(c, l)

(* A miss on a line that is not wholly on the device ends the process. *)
Faults(c, l) == ~fsl_io_cache_find(c, l) /\ ~Readable(l)

\* Mutant: only the line of the first byte is dropped.
DropFirstLineOnly(c, off, n) ==
    [s \in Slots |->
        IF c[s].addr = byte_to_line(off)
        THEN [addr |-> NoLine, data |-> c[s].data]
        ELSE c[s]]

fsl_io_cache_drop_bytes(c, off, n) ==
    LET first == byte_to_line(off)
        last  == byte_to_line(off + n + LineBytes - 1)
    IN  [s \in Slots |->
            IF \E l \in first .. last : Slot(l) = s /\ c[s].addr = l
            THEN [addr |-> NoLine, data |-> c[s].data]
            ELSE c[s]]

\* Mutant: the byte after the access decides the last line.
LastLineTooFar(off, n) == byte_to_line(off + n)

(* The slots after a cached read of n bytes: one line, or two neighbours. *)
LastLine(off, n) == byte_to_line(off + n - 1)

Filled(c, off, n) ==
    LET c0 == fsl_io_cache_hitmiss(c, byte_to_line(off))
    IN  IF LastLine(off, n) = byte_to_line(off)
        THEN c0
        ELSE fsl_io_cache_hitmiss(c0, LastLine(off, n))

GetFaults(c, off, n) ==
    Faults(c, byte_to_line(off)) \/ Faults(c, LastLine(off, n))

(* The bytes assembled from the slots c once both lines are in. *)
\* Mutant: the second line is read at the offset in the access.
JoinWrongOffset(c, off, n) ==
    LET line_begin == byte_to_line(off)
        cache0_off == off - line_begin * LineBytes
    IN  [i \in 0 .. n - 1 |->
            IF i < LineBytes - cache0_off
            THEN c[Slot(line_begin)].data[cache0_off + i]
            ELSE c[Slot(LastLine(off, n))].data[i]]

fsl_io_cache_get_unaligned(c, off, n) ==
    LET line_begin == byte_to_line(off)
        cache0_off == off - line_begin * LineBytes
        cache0_len == LineBytes - cache0_off
    IN  [i \in 0 .. n - 1 |->
            IF i < cache0_len
            THEN c[Slot(line_begin)].data[cache0_off + i]
            ELSE c[Slot(LastLine(off, n))].data[i - cache0_len]]

fsl_io_cache_get(c, off, n) ==
    IF byte_to_line(off) # LastLine(off, n)
    THEN fsl_io_cache_get_unaligned(c, off, n)
    ELSE [i \in 0 .. n - 1 |->
            c[Slot(byte_to_line(off))].data[(off % LineBytes) + i]]

(* pwrite64 of the n bytes buf at off. *)
Overwrite(d, off, n, buf) ==
    [a \in Addr |-> IF a \in off .. off + n - 1 THEN buf[a - off] ELSE d[a]]

pwrite(off, n, buf) == disk' = Overwrite(disk, off, n, buf)

-----------------------------------------------------------------------------
(* fsl_io_alloc: the device is opened with whatever it holds. *)
EmptyLine == [o \in LineOff |-> [b \in BitPos |-> 0]]

fsl_io_cache_init == [s \in Slots |-> [addr |-> NoLine, data |-> EmptyLine]]

Init ==
    /\ disk \in [Addr -> Byte]
    /\ ents = fsl_io_cache_init
    /\ ret = NoBytes
    /\ up = TRUE

(* __getLocalPhys on a byte aligned address. *)
GetLocalPhys(off, n) ==
    /\ up
    /\ off + n <= NBytes
    /\ ~GetFaults(ents, off, n)
    /\ ents' = Filled(ents, off, n)
    /\ ret' = fsl_io_cache_get(ents', off, n)
    /\ UNCHANGED <<disk, up>>

(* The same when a line it needs reaches past the end: the process exits.  *)
(* The read inside fsl_io_write_bit fails in this way too.                 *)
GetLocalPhysFaults(off, n) ==
    /\ up
    /\ off + n <= NBytes
    /\ GetFaults(ents, off, n)
    /\ up' = FALSE
    /\ UNCHANGED <<disk, ents, ret>>

\* Mutants: the new bit is or-ed into the byte; the value is not masked.
BitByteOrOnly(off, left, val) ==
    [fsl_io_cache_get(Filled(ents, off, 1), off, 1)[0] EXCEPT
        ![left] = IF val % 2 = 1 THEN 1 ELSE @]

BitByteNoMask(off, left, val) ==
    [fsl_io_cache_get(Filled(ents, off, 1), off, 1)[0] EXCEPT ![left] = val]

(* The byte fsl_io_write puts back to write one bit: the byte as the cache *)
(* delivers it, with the bit changed to the lowest bit of val.             *)
BitByte(off, left, val) ==
    [fsl_io_cache_get(Filled(ents, off, 1), off, 1)[0] EXCEPT ![left] = val % 2]

BitBuf(off, left, val) == [i \in 0 .. 0 |-> BitByte(off, left, val)]

(* fsl_io_write of one bit: read the byte through the cache, change the    *)
(* bit, write the byte, drop its line.                                     *)
fsl_io_write_bit(off, left, val) ==
    /\ up
    /\ ~GetFaults(ents, off, 1)
    /\ pwrite(off, 1, BitBuf(off, left, val))
    /\ ents' = fsl_io_cache_drop_bytes(Filled(ents, off, 1), off, 1)
    /\ UNCHANGED <<ret, up>>

(* fsl_io_write of n whole bytes. *)
fsl_io_write(off, n, buf) ==
    /\ up
    /\ off + n <= NBytes
    /\ pwrite(off, n, buf)
    /\ ents' = fsl_io_cache_drop_bytes(ents, off, n + 1)
    /\ UNCHANGED <<ret, up>>

(* Bulk transfers bypass the cache; the write drops what it covers. *)
fsl_io_read_bytes(off, n) ==
    /\ up
    /\ off + n <= NBytes
    /\ ret' = [i \in 0 .. n - 1 |-> disk[off + i]]
    /\ UNCHANGED <<disk, ents, up>>

fsl_io_write_bytes(off, n, buf) ==
    /\ up
    /\ off + n <= NBytes
    /\ pwrite(off, n, buf)
    /\ ents' = fsl_io_cache_drop_bytes(ents, off, n)
    /\ UNCHANGED <<ret, up>>

(* The tool ends, or was ended by a failed read, and another run opens the *)
(* device again with an empty cache.                                       *)
Reopen ==
    /\ up' = TRUE
    /\ ents' = fsl_io_cache_init
    /\ ret' = NoBytes
    /\ UNCHANGED disk

Next ==
    \/ \E off \in Addr, n \in 1 .. MaxAccess :
          \/ GetLocalPhys(off, n)
          \/ GetLocalPhysFaults(off, n)
          \/ \E buf \in [0 .. n - 1 -> Byte] : fsl_io_write(off, n, buf)
    \/ \E off \in Addr, left \in BitPos, val \in Word : fsl_io_write_bit(off, left, val)
    \/ \E off \in Addr, n \in 1 .. MaxBulk :
          \/ fsl_io_read_bytes(off, n)
          \/ \E buf \in [0 .. n - 1 -> Byte] : fsl_io_write_bytes(off, n, buf)
    \/ Reopen

Spec == Init /\ [][Next]_vars

-----------------------------------------------------------------------------
(* Every variable keeps its type: entries hold lines that lie on the device. *)
TypeOK ==
    /\ disk \in [Addr -> Byte]
    /\ ents \in [Slots -> Entry]
    /\ \E n \in 0 .. NBytes : ret \in [0 .. n - 1 -> Byte]
    /\ up \in BOOLEAN

(* A line sits in the slot its number selects, the only place where find   *)
(* and drop_bytes look for it.                                             *)
Placed == \A s \in Slots : ents[s].addr # NoLine => Slot(ents[s].addr) = s

(* Coherence: what a valid slot holds is what the device holds.  The code  *)
(* keeps it by dropping, after each write, the lines the write covers; a   *)
(* slot that survives a write it should not have survived breaks it.       *)
Coherent ==
    \A s \in Slots :
        ents[s].addr # NoLine => ents[s].data = LineOnDisk(disk, ents[s].addr)

(* Whatever the history of the cache, the byte a write of one bit puts     *)
(* back changes that bit of the device and no other, though the rest of    *)
(* the byte comes from a slot.                                             *)
BitWriteExact ==
    \A off \in Addr, left \in BitPos, val \in Word :
        ~GetFaults(ents, off, 1)
            => Overwrite(disk, off, 1, BitBuf(off, left, val))
                  = [disk EXCEPT ![off] = [disk[off] EXCEPT ![left] = val % 2]]

(* A cached read ends the process exactly when it touches the bytes after  *)
(* the last whole line of the device: the cache never fetches a line the   *)
(* access does not reach, and never holds one that is not whole.           *)
Tail == (NBytes \div LineBytes) * LineBytes

FaultsOnlyInTail ==
    \A off \in Addr, n \in 1 .. MaxAccess :
        off + n <= NBytes => (GetFaults(ents, off, n) <=> off + n > Tail)

(* Reads return what the writes left: the cache cannot be observed.        *)
Raw == INSTANCE RawDisk
Implements == Raw!Spec
=============================================================================
