--------------------------- MODULE IoCacheProofs ---------------------------
(***************************************************************************)
(* Proofs about IoCache for every line size, number of slots and device    *)
(* size: type correctness, placement and coherence of the cache, exactness *)
(* of single-bit writes, where reads may fail, and that the cached device  *)
(* implements the raw one.                                                 *)
(***************************************************************************)
EXTENDS IoCache, TLAPS

Assumptions ==
    /\ LineBytes \in Nat \ {0}
    /\ Ents \in Nat \ {0, 1}
    /\ NBytes \in Nat \ {0}
    /\ BitsPerByte \in Nat \ {0}
    /\ MaxAccess \in 1 .. LineBytes
    /\ MaxBulk \in Nat \ {0}

LEMMA Consts == Assumptions
BY LineAssumption, EntsAssumption, SizeAssumption, BitsAssumption,
   AccessAssumption, BulkAssumption DEF Assumptions

(* A table of slots is good for a device d: typed, placed and coherent. *)
Good(c, d) ==
    /\ c \in [Slots -> Entry]
    /\ \A s \in Slots : c[s].addr # NoLine =>
          /\ Slot(c[s].addr) = s
          /\ c[s].data = LineOnDisk(d, c[s].addr)

(* The inductive invariant. *)
IInv ==
    /\ disk \in [Addr -> Byte]
    /\ Good(ents, disk)
    /\ \E n \in 0 .. NBytes : ret \in [0 .. n - 1 -> Byte]
    /\ up \in BOOLEAN

-----------------------------------------------------------------------------
(* Arithmetic of lines. *)

LEMMA DivFacts ==
    ASSUME NEW b \in Nat
    PROVE  /\ byte_to_line(b) \in Nat
           /\ byte_to_line(b) * LineBytes <= b
           /\ b < byte_to_line(b) * LineBytes + LineBytes
           /\ b = byte_to_line(b) * LineBytes + (b % LineBytes)
           /\ b % LineBytes \in 0 .. LineBytes - 1
BY LineAssumption DEF byte_to_line

LEMMA DivUnique ==
    ASSUME NEW q \in Nat, NEW r \in 0 .. LineBytes - 1
    PROVE  q * LineBytes + r \in Nat /\ byte_to_line(q * LineBytes + r) = q
BY LineAssumption DEF byte_to_line

LEMMA DivMonotone ==
    ASSUME NEW a \in Nat, NEW b \in Nat, a <= b
    PROVE  byte_to_line(a) <= byte_to_line(b)
BY LineAssumption DEF byte_to_line

LEMMA SlotType == ASSUME NEW l \in Nat PROVE Slot(l) \in Slots
BY EntsAssumption DEF Slot, Slots

(* Neighbouring lines use different slots. *)
LEMMA NeighbourSlots == ASSUME NEW l \in Nat PROVE Slot(l) # Slot(l + 1)
<1> SUFFICES ASSUME l % Ents = (l + 1) % Ents PROVE FALSE
  BY DEF Slot
<1> DEFINE p == l \div Ents  q == (l + 1) \div Ents
<1>1. p \in Nat /\ q \in Nat
  BY EntsAssumption
<1>2. l = p * Ents + (l % Ents) /\ l + 1 = q * Ents + ((l + 1) % Ents)
  BY EntsAssumption
<1>3. l % Ents \in Nat
  BY EntsAssumption
<1> HIDE DEF p, q
<1>4. q * Ents = p * Ents + 1
  BY <1>1, <1>2, <1>3, EntsAssumption
<1>5. CASE q <= p
  <2>1. q * Ents <= p * Ents
    BY <1>5, <1>1, EntsAssumption
  <2> QED BY <2>1, <1>4, <1>1, EntsAssumption
<1>6. CASE q >= p + 1
  <2>1. q * Ents >= (p + 1) * Ents /\ (p + 1) * Ents = p * Ents + Ents
    BY <1>6, <1>1, EntsAssumption
  <2> QED BY <2>1, <1>4, <1>1, EntsAssumption
<1> QED BY <1>1, <1>5, <1>6

(* The bytes of a readable line are on the device, and belong to it. *)
LEMMA LineBytesOnDisk ==
    ASSUME NEW l \in Lines, NEW o \in LineOff
    PROVE  /\ l \in Nat
           /\ l * LineBytes + o \in Addr
           /\ byte_to_line(l * LineBytes + o) = l
<1>1. l \in Nat /\ (l + 1) * LineBytes <= NBytes
  BY SizeAssumption DEF Lines, Readable, Addr
<1>2. (l + 1) * LineBytes = l * LineBytes + LineBytes /\ l * LineBytes \in Nat
  BY <1>1, LineAssumption
<1>3. o \in 0 .. LineBytes - 1
  BY DEF LineOff
<1> QED
  BY <1>1, <1>2, <1>3, DivUnique, LineAssumption, SizeAssumption DEF Addr

LEMMA LineOnDiskType ==
    ASSUME NEW d \in [Addr -> Byte], NEW l \in Lines
    PROVE  LineOnDisk(d, l) \in [LineOff -> Byte]
BY LineBytesOnDisk DEF LineOnDisk

(* A readable line number is a member of Lines. *)
LEMMA ReadableLine ==
    ASSUME NEW l \in Nat, Readable(l) PROVE l \in Lines
<1>1. (l + 1) * LineBytes >= l + 1
  BY LineAssumption
<1> QED
  BY <1>1, LineAssumption, SizeAssumption DEF Readable, Lines, Addr

-----------------------------------------------------------------------------
(* What the cache operations do to a good table. *)

(* After hitmiss the slot of l holds l as the device has it. *)
LEMMA HitmissGood ==
    ASSUME disk \in [Addr -> Byte], NEW c, Good(c, disk), NEW l \in Nat, ~Faults(c, l)
    PROVE  LET c2 == fsl_io_cache_hitmiss(c, l)
           IN  /\ l \in Lines
               /\ Good(c2, disk)
               /\ c2[Slot(l)].addr = l
               /\ c2[Slot(l)].data = LineOnDisk(disk, l)
               /\ \A s \in Slots \ {Slot(l)} : c2[s] = c[s]
<1>1. l # NoLine
  BY DEF NoLine
<1>2. CASE fsl_io_cache_find(c, l)
  <2>1. c[Slot(l)].addr = l /\ Slot(l) \in Slots /\ c[Slot(l)] \in Entry
    BY <1>2, SlotType DEF fsl_io_cache_find, Good
  <2>2. l \in Lines
    BY <2>1, <1>1 DEF Entry
  <2> QED BY <1>1, <1>2, <2>1, <2>2 DEF fsl_io_cache_hitmiss, Good
<1>3. CASE ~fsl_io_cache_find(c, l)
  <2>1. l \in Lines
    BY <1>3, ReadableLine DEF Faults
  <2> DEFINE e == [addr |-> l, data |-> LineOnDisk(disk, l)]
  <2>2. e \in Entry
    BY <2>1, LineOnDiskType DEF Entry
  <2>3. fsl_io_cache_hitmiss(c, l) = [c EXCEPT ![Slot(l)] = e]
    BY <1>3 DEF fsl_io_cache_hitmiss, fsl_io_cache_put
  <2>4. Slot(l) \in Slots
    BY SlotType
  <2> QED BY <2>1, <2>2, <2>3, <2>4 DEF Good
<1> QED BY <1>2, <1>3

(* A line outside the dropped range is not touched by the write. *)
LEMMA UntouchedLine ==
    ASSUME NEW off \in Nat, NEW n \in Nat, NEW k \in Nat, n <= k,
           NEW l \in Lines,
           l \notin byte_to_line(off) .. byte_to_line(off + k + LineBytes - 1),
           NEW o \in LineOff
    PROVE  l * LineBytes + o \notin off .. off + n - 1
<1> DEFINE a == l * LineBytes + o
<1>1. l \in Nat /\ a \in Nat /\ byte_to_line(a) = l
  BY LineBytesOnDisk DEF Addr
<1> HIDE DEF a
<1> SUFFICES ASSUME a \in off .. off + n - 1 PROVE FALSE
  BY DEF a
<1>2. off <= a /\ a <= off + k + LineBytes - 1 /\ off + k + LineBytes - 1 \in Nat
  BY <1>1, LineAssumption
<1>3. byte_to_line(off) <= l /\ l <= byte_to_line(off + k + LineBytes - 1)
  BY <1>1, <1>2, DivMonotone
<1>4. byte_to_line(off) \in Nat /\ byte_to_line(off + k + LineBytes - 1) \in Nat
  BY <1>2, DivFacts
<1> QED BY <1>1, <1>3, <1>4

(* Dropping at least the written range keeps the table good for the new    *)
(* contents of the device.                                                 *)
LEMMA DropGood ==
    ASSUME NEW d \in [Addr -> Byte], NEW c, Good(c, d),
           NEW off \in Nat, NEW n \in Nat, NEW k \in Nat, n <= k,
           NEW buf \in [0 .. n - 1 -> Byte]
    PROVE  /\ Overwrite(d, off, n, buf) \in [Addr -> Byte]
           /\ Good(fsl_io_cache_drop_bytes(c, off, k), Overwrite(d, off, n, buf))
<1> DEFINE d2 == Overwrite(d, off, n, buf)
           c2 == fsl_io_cache_drop_bytes(c, off, k)
           first == byte_to_line(off)
           last == byte_to_line(off + k + LineBytes - 1)
<1>1. d2 \in [Addr -> Byte]
  BY SizeAssumption DEF Overwrite, Addr
<1>2. c2 = [s \in Slots |->
               IF \E l \in first .. last : Slot(l) = s /\ c[s].addr = l
               THEN [addr |-> NoLine, data |-> c[s].data] ELSE c[s]]
  BY DEF fsl_io_cache_drop_bytes
<1>3. c \in [Slots -> Entry]
  BY DEF Good
<1>4. c2 \in [Slots -> Entry]
  BY <1>2, <1>3 DEF Entry
<1>5. ASSUME NEW s \in Slots, c2[s].addr # NoLine
      PROVE  Slot(c2[s].addr) = s /\ c2[s].data = LineOnDisk(d2, c2[s].addr)
  <2>1. c2[s] = c[s] /\ ~\E l \in first .. last : Slot(l) = s /\ c[s].addr = l
    BY <1>2, <1>5
  <2> DEFINE l == c[s].addr
  <2>2. c[s].addr # NoLine /\ l \in Lines
    BY <2>1, <1>3, <1>5 DEF Entry
  <2>3. Slot(l) = s /\ c[s].data = LineOnDisk(d, l)
    BY <2>2 DEF Good
  <2>4. l \notin first .. last
    BY <2>1, <2>3
  <2> HIDE DEF l
  <2>5. \A o \in LineOff : d2[l * LineBytes + o] = d[l * LineBytes + o]
    <3> TAKE o \in LineOff
    <3>1. l * LineBytes + o \in Addr
      BY <2>2, LineBytesOnDisk DEF l
    <3>2. l * LineBytes + o \notin off .. off + n - 1
      BY <2>2, <2>4, UntouchedLine DEF l
    <3> QED BY <3>1, <3>2 DEF Overwrite
  <2>6. LineOnDisk(d2, l) = LineOnDisk(d, l)
    BY <2>5 DEF LineOnDisk
  <2> QED BY <2>1, <2>3, <2>6 DEF l
<1> QED BY <1>1, <1>4, <1>5 DEF Good

(* An access of at most a line ends in its first line or in the next one. *)
LEMMA TwoLines ==
    ASSUME NEW off \in Nat, NEW n \in 1 .. MaxAccess
    PROVE  /\ byte_to_line(off) \in Nat
           /\ LastLine(off, n) \in {byte_to_line(off), byte_to_line(off) + 1}
<1> DEFINE a == byte_to_line(off)  z == off + n - 1
<1>1. z \in Nat /\ off <= z /\ z < off + LineBytes
  BY AccessAssumption, LineAssumption
<1>2. a \in Nat /\ a * LineBytes <= off /\ off < a * LineBytes + LineBytes
  BY DivFacts
<1> HIDE DEF a
<1>3. CASE z < a * LineBytes + LineBytes
  <2>1. z - a * LineBytes \in 0 .. LineBytes - 1
    BY <1>1, <1>2, <1>3, LineAssumption
  <2>2. byte_to_line(a * LineBytes + (z - a * LineBytes)) = a
    BY <1>2, <2>1, DivUnique
  <2>3. a * LineBytes + (z - a * LineBytes) = z
    BY <1>1, <1>2, LineAssumption
  <2> QED BY <1>2, <2>2, <2>3 DEF a, LastLine
<1>4. CASE z >= a * LineBytes + LineBytes
  <2>1. (a + 1) * LineBytes = a * LineBytes + LineBytes
    BY <1>2, LineAssumption
  <2>2. z - (a + 1) * LineBytes \in 0 .. LineBytes - 1
    BY <1>1, <1>2, <1>4, <2>1, LineAssumption
  <2>3. byte_to_line((a + 1) * LineBytes + (z - (a + 1) * LineBytes)) = a + 1
    BY <1>2, <2>2, DivUnique
  <2>4. (a + 1) * LineBytes + (z - (a + 1) * LineBytes) = z
    BY <1>1, <1>2, <2>1, LineAssumption
  <2> QED BY <1>2, <2>3, <2>4 DEF a, LastLine
<1> QED BY <1>1, <1>2, <1>3, <1>4, LineAssumption

(* A cached read fills the slots it needs, keeps the table good and        *)
(* returns what the device holds.                                          *)
LEMMA GetCorrect ==
    ASSUME disk \in [Addr -> Byte], NEW c, Good(c, disk),
           NEW off \in Addr, NEW n \in 1 .. MaxAccess, off + n <= NBytes,
           ~GetFaults(c, off, n)
    PROVE  /\ Good(Filled(c, off, n), disk)
           /\ fsl_io_cache_get(Filled(c, off, n), off, n)
                 = [i \in 0 .. n - 1 |-> disk[off + i]]
<1> DEFINE a == byte_to_line(off)
           b == LastLine(off, n)
           c0 == fsl_io_cache_hitmiss(c, a)
           c2 == Filled(c, off, n)
<1>1. off \in Nat /\ off <= NBytes
  BY SizeAssumption DEF Addr
<1>2. a \in Nat /\ b \in {a, a + 1}
  BY <1>1, TwoLines
<1>3. ~Faults(c, a) /\ ~Faults(c, b)
  BY DEF GetFaults
<1>4. /\ Good(c0, disk) /\ c0[Slot(a)].data = LineOnDisk(disk, a)
      /\ \A s \in Slots \ {Slot(a)} : c0[s] = c[s]
  BY <1>2, <1>3, HitmissGood
<1>5. /\ a * LineBytes \in Nat /\ a * LineBytes <= off
      /\ off < a * LineBytes + LineBytes
      /\ off % LineBytes = off - a * LineBytes
  <2>1. /\ a * LineBytes <= off /\ off < a * LineBytes + LineBytes
        /\ off = a * LineBytes + (off % LineBytes)
    BY <1>1, DivFacts
  <2>2. off % LineBytes \in Int
    BY <1>1, LineAssumption
  <2> HIDE DEF a
  <2>3. a * LineBytes \in Nat
    BY <1>2, LineAssumption
  <2> QED BY <1>1, <2>1, <2>2, <2>3
<1>6. CASE b = a
  <2>1. c2 = c0
    BY <1>6 DEF Filled
  <2>2. fsl_io_cache_get(c2, off, n)
          = [i \in 0 .. n - 1 |-> c0[Slot(a)].data[(off % LineBytes) + i]]
    BY <1>6, <2>1 DEF fsl_io_cache_get
  <2>3. off + n - 1 < a * LineBytes + LineBytes
    <3>1. off + n - 1 \in Nat
      BY <1>1, AccessAssumption, LineAssumption
    <3>2. off + n - 1 < byte_to_line(off + n - 1) * LineBytes + LineBytes
      BY <3>1, DivFacts
    <3> QED BY <3>2, <1>6 DEF LastLine
  <2> HIDE DEF a, b, c0, c2
  <2>4. ASSUME NEW i \in 0 .. n - 1
        PROVE  c0[Slot(a)].data[(off % LineBytes) + i] = disk[off + i]
    <3>1. (off % LineBytes) + i \in LineOff
      BY <1>1, <1>5, <2>3, LineAssumption, AccessAssumption DEF LineOff
    <3>2. a * LineBytes + ((off % LineBytes) + i) = off + i
      BY <1>1, <1>2, <1>5, LineAssumption
    <3> QED BY <1>4, <3>1, <3>2 DEF LineOnDisk
  <2> QED BY <1>4, <2>1, <2>2, <2>4 DEF c2
<1>7. CASE b = a + 1
  <2>1. a # b /\ Slot(a) # Slot(b) /\ Slot(a) \in Slots /\ Slot(b) \in Slots
    BY <1>2, <1>7, NeighbourSlots, SlotType
  <2>2. c2 = fsl_io_cache_hitmiss(c0, b)
    BY <2>1 DEF Filled
  <2>3. ~Faults(c0, b)
    BY <1>3, <1>4, <2>1 DEF Faults, fsl_io_cache_find
  <2>4. /\ Good(c2, disk) /\ c2[Slot(b)].data = LineOnDisk(disk, b)
        /\ c2[Slot(a)] = c0[Slot(a)]
    BY <1>2, <1>4, <1>7, <2>1, <2>2, <2>3, HitmissGood
  <2> DEFINE len == LineBytes - (off - a * LineBytes)
  <2>5. fsl_io_cache_get(c2, off, n)
          = [i \in 0 .. n - 1 |->
                IF i < len
                THEN c2[Slot(a)].data[(off - a * LineBytes) + i]
                ELSE c2[Slot(b)].data[i - len]]
    BY <2>1 DEF fsl_io_cache_get, fsl_io_cache_get_unaligned
  <2> HIDE DEF a, b, c0, c2
  <2>6. b * LineBytes = a * LineBytes + LineBytes
    BY <1>2, <1>7, LineAssumption
  <2>7. ASSUME NEW i \in 0 .. n - 1, i < len
        PROVE  c2[Slot(a)].data[(off - a * LineBytes) + i] = disk[off + i]
    <3>1. (off - a * LineBytes) + i \in LineOff
      BY <1>1, <1>5, <2>7, LineAssumption, AccessAssumption DEF LineOff
    <3>2. a * LineBytes + ((off - a * LineBytes) + i) = off + i
      BY <1>1, <1>2, <1>5, LineAssumption
    <3> QED BY <1>4, <2>4, <3>1, <3>2 DEF LineOnDisk
  <2>8. ASSUME NEW i \in 0 .. n - 1, ~(i < len)
        PROVE  c2[Slot(b)].data[i - len] = disk[off + i]
    <3>1. i - len \in LineOff
      BY <1>1, <1>5, <2>8, LineAssumption, AccessAssumption DEF LineOff
    <3>2. b * LineBytes + (i - len) = off + i
      BY <1>1, <1>2, <1>5, <2>6, LineAssumption
    <3> QED BY <2>4, <3>1, <3>2 DEF LineOnDisk
  <2> QED BY <2>4, <2>5, <2>7, <2>8 DEF c2
<1> QED BY <1>2, <1>6, <1>7

-----------------------------------------------------------------------------
(* One lemma per action: it keeps IInv. *)

LEMMA EmptyGood == ASSUME NEW d PROVE Good(fsl_io_cache_init, d)
<1>1. EmptyLine \in [LineOff -> Byte]
  BY DEF EmptyLine, Byte, Bit
<1> QED BY <1>1 DEF Good, fsl_io_cache_init, Entry

LEMMA ResultType ==
    ASSUME disk \in [Addr -> Byte], NEW off \in Addr, NEW n \in Nat, off + n <= NBytes
    PROVE  /\ n \in 0 .. NBytes
           /\ [i \in 0 .. n - 1 |-> disk[off + i]] \in [0 .. n - 1 -> Byte]
BY SizeAssumption DEF Addr

LEMMA InitIInv == Init => IInv
<1> SUFFICES ASSUME Init PROVE IInv
  OBVIOUS
<1>1. ret \in [0 .. 0 - 1 -> Byte]
  BY DEF Init, NoBytes
<1> QED BY <1>1, EmptyGood, SizeAssumption DEF Init, IInv

LEMMA GetKeeps ==
    ASSUME IInv, NEW off \in Addr, NEW n \in 1 .. MaxAccess, GetLocalPhys(off, n)
    PROVE  IInv' /\ ret' = [i \in 0 .. n - 1 |-> disk[off + i]]
<1>1. disk \in [Addr -> Byte] /\ Good(ents, disk) /\ up \in BOOLEAN
  BY DEF IInv
<1>2. /\ off + n <= NBytes /\ ~GetFaults(ents, off, n)
      /\ ents' = Filled(ents, off, n) /\ ret' = fsl_io_cache_get(ents', off, n)
      /\ disk' = disk /\ up' = up
  BY DEF GetLocalPhys
<1>3. Good(ents', disk) /\ ret' = [i \in 0 .. n - 1 |-> disk[off + i]]
  BY <1>1, <1>2, GetCorrect
<1>4. n \in 0 .. NBytes /\ ret' \in [0 .. n - 1 -> Byte]
  BY <1>1, <1>2, <1>3, ResultType, AccessAssumption, LineAssumption
<1> QED BY <1>1, <1>2, <1>3, <1>4 DEF IInv

(* The byte a single-bit write puts back is the byte on the device with    *)
(* that bit changed.                                                       *)
LEMMA BitBufExact ==
    ASSUME IInv, NEW off \in Addr, NEW left \in BitPos, NEW val \in Word,
           ~GetFaults(ents, off, 1)
    PROVE  /\ Good(Filled(ents, off, 1), disk)
           /\ BitBuf(off, left, val) \in [0 .. 1 - 1 -> Byte]
           /\ Overwrite(disk, off, 1, BitBuf(off, left, val))
                = [disk EXCEPT ![off] = [disk[off] EXCEPT ![left] = val % 2]]
<1> DEFINE c == Filled(ents, off, 1)
           out_v == BitByte(off, left, val)
           buf == BitBuf(off, left, val)
<1>1. disk \in [Addr -> Byte] /\ Good(ents, disk)
  BY DEF IInv
<1>2. 1 \in 1 .. MaxAccess /\ off + 1 <= NBytes /\ off \in Nat
  BY AccessAssumption, LineAssumption, SizeAssumption DEF Addr
<1>3. Good(c, disk) /\ fsl_io_cache_get(c, off, 1) = [i \in 0 .. 1 - 1 |-> disk[off + i]]
  <2>1. ASSUME NEW n \in 1 .. MaxAccess, n = 1
        PROVE  /\ Good(Filled(ents, off, n), disk)
               /\ fsl_io_cache_get(Filled(ents, off, n), off, n) = [i \in 0 .. n - 1 |-> disk[off + i]]
    <3>1. off + n <= NBytes /\ ~GetFaults(ents, off, n)
      BY <1>2, <2>1
    <3> QED BY <1>1, <3>1, GetCorrect
  <2> QED BY <1>2, <2>1
<1>4. fsl_io_cache_get(c, off, 1)[0] = disk[off]
  <2>1. 0 \in 0 .. 1 - 1 /\ off + 0 = off
    BY <1>2
  <2>2. [i \in 0 .. 1 - 1 |-> disk[off + i]][0] = disk[off + 0]
    BY <2>1
  <2> QED BY <1>3, <2>1, <2>2
<1>5. out_v = [disk[off] EXCEPT ![left] = val % 2]
  BY <1>4 DEF BitByte
<1>6. val % 2 \in Bit
  BY DEF Word, Bit
<1>7. out_v \in Byte
  <2>1. disk[off] \in [BitPos -> Bit]
    BY <1>1 DEF Byte
  <2> HIDE DEF out_v
  <2> QED BY <1>5, <1>6, <2>1 DEF Byte
<1>8. buf = [i \in 0 .. 0 |-> out_v]
  BY DEF BitBuf
<1> HIDE DEF c, out_v, buf
<1>9. buf \in [0 .. 1 - 1 -> Byte] /\ buf[0] = out_v
  BY <1>7, <1>8
<1>10. Overwrite(disk, off, 1, buf) = [disk EXCEPT ![off] = out_v]
  <2>1. \A x \in Addr : x \in off .. off + 1 - 1 <=> x = off
    BY <1>2 DEF Addr
  <2>2. buf[off - off] = out_v
    BY <1>2, <1>9
  <2>3. Overwrite(disk, off, 1, buf) = [x \in Addr |-> IF x = off THEN out_v ELSE disk[x]]
    BY <2>1, <2>2 DEF Overwrite
  <2> QED BY <1>1, <2>3
<1> QED BY <1>3, <1>5, <1>9, <1>10 DEF c, buf

LEMMA WriteBitKeeps ==
    ASSUME IInv, NEW off \in Addr, NEW left \in BitPos, NEW val \in Word,
           fsl_io_write_bit(off, left, val)
    PROVE  IInv'
<1> DEFINE c == Filled(ents, off, 1)
           buf == BitBuf(off, left, val)
<1>1. disk \in [Addr -> Byte] /\ up \in BOOLEAN
  BY DEF IInv
<1>2. /\ ~GetFaults(ents, off, 1)
      /\ disk' = Overwrite(disk, off, 1, buf)
      /\ ents' = fsl_io_cache_drop_bytes(c, off, 1)
      /\ ret' = ret /\ up' = up
  BY DEF fsl_io_write_bit, pwrite
<1>3. off + 1 <= NBytes /\ off \in Nat
  BY SizeAssumption DEF Addr
<1>4. Good(c, disk) /\ buf \in [0 .. 1 - 1 -> Byte]
  BY <1>2, BitBufExact
<1> HIDE DEF c, buf
<1>5. disk' \in [Addr -> Byte] /\ Good(ents', disk')
  <2>1. 1 \in Nat /\ 1 <= 1
    OBVIOUS
  <2>2. /\ Overwrite(disk, off, 1, buf) \in [Addr -> Byte]
        /\ Good(fsl_io_cache_drop_bytes(c, off, 1), Overwrite(disk, off, 1, buf))
    BY <1>1, <1>3, <1>4, <2>1, DropGood
  <2> QED BY <1>2, <2>2
<1> QED BY <1>1, <1>2, <1>5 DEF IInv

(* Both kinds of write: at least the written bytes are dropped. *)
LEMMA WriteKeeps ==
    ASSUME IInv, NEW off \in Addr, NEW n \in Nat, NEW k \in {n, n + 1},
           NEW buf \in [0 .. n - 1 -> Byte],
           pwrite(off, n, buf), ents' = fsl_io_cache_drop_bytes(ents, off, k),
           UNCHANGED <<ret, up>>
    PROVE  IInv'
<1>1. disk \in [Addr -> Byte] /\ Good(ents, disk)
  BY DEF IInv
<1>2. off \in Nat /\ k \in Nat /\ n <= k
  BY SizeAssumption DEF Addr
<1>3. disk' \in [Addr -> Byte] /\ Good(ents', disk')
  BY <1>1, <1>2, DropGood DEF pwrite
<1> QED BY <1>3 DEF IInv

LEMMA NextIInv == IInv /\ [Next]_vars => IInv'
<1> SUFFICES ASSUME IInv, [Next]_vars PROVE IInv'
  OBVIOUS
<1>1. ASSUME NEW off \in Addr, NEW n \in 1 .. MaxAccess, GetLocalPhys(off, n)
      PROVE  IInv'
  BY <1>1, GetKeeps
<1>2. ASSUME NEW off \in Addr, NEW n \in 1 .. MaxAccess, GetLocalPhysFaults(off, n)
      PROVE  IInv'
  BY <1>2 DEF GetLocalPhysFaults, IInv
<1>3. ASSUME NEW off \in Addr, NEW n \in 1 .. MaxAccess,
             NEW buf \in [0 .. n - 1 -> Byte], fsl_io_write(off, n, buf)
      PROVE  IInv'
  <2>1. n \in Nat
    BY AccessAssumption, LineAssumption
  <2> QED BY <1>3, <2>1, WriteKeeps DEF fsl_io_write
<1>4. ASSUME NEW off \in Addr, NEW left \in BitPos, NEW val \in Word,
             fsl_io_write_bit(off, left, val)
      PROVE  IInv'
  BY <1>4, WriteBitKeeps
<1>5. ASSUME NEW off \in Addr, NEW n \in 1 .. MaxBulk, fsl_io_read_bytes(off, n)
      PROVE  IInv'
  <2>1. /\ n \in 0 .. NBytes
        /\ [i \in 0 .. n - 1 |-> disk[off + i]] \in [0 .. n - 1 -> Byte]
    BY <1>5, BulkAssumption, ResultType DEF IInv, fsl_io_read_bytes
  <2> QED BY <1>5, <2>1 DEF IInv, fsl_io_read_bytes
<1>6. ASSUME NEW off \in Addr, NEW n \in 1 .. MaxBulk,
             NEW buf \in [0 .. n - 1 -> Byte], fsl_io_write_bytes(off, n, buf)
      PROVE  IInv'
  <2>1. n \in Nat
    BY BulkAssumption
  <2> QED BY <1>6, <2>1, WriteKeeps DEF fsl_io_write_bytes
<1>7. CASE Reopen
  <2>1. ret' \in [0 .. 0 - 1 -> Byte] /\ 0 \in 0 .. NBytes
    BY <1>7, SizeAssumption DEF Reopen, NoBytes
  <2> QED BY <1>7, <2>1, EmptyGood DEF IInv, Reopen
<1>8. CASE UNCHANGED vars
  BY <1>8 DEF IInv, vars
<1> QED BY <1>1, <1>2, <1>3, <1>4, <1>5, <1>6, <1>7, <1>8 DEF Next

THEOREM Invariance == Spec => []IInv
BY InitIInv, NextIInv, PTL DEF Spec

-----------------------------------------------------------------------------
(* The device, the slots, the last result and the process state keep their *)
(* types through every operation of rt-pread, whatever the sizes.          *)
THEOREM TypeCorrectness == Spec => []TypeOK
<1>1. IInv => TypeOK
  BY DEF IInv, Good, TypeOK
<1> QED BY <1>1, Invariance, PTL

(* The cache is coherent: every valid slot holds the line its index asks   *)
(* for, as the device holds it, after any sequence of reads and writes.    *)
THEOREM CacheCoherence == Spec => [](Placed /\ Coherent)
<1>1. IInv => Placed /\ Coherent
  BY DEF IInv, Good, Placed, Coherent
<1> QED BY <1>1, Invariance, PTL

(* The read-modify-write of one bit through the cache is exact, in every   *)
(* reachable state of the slots and for every width of a byte.             *)
THEOREM BitWritesExact == Spec => []BitWriteExact
<1>1. IInv => BitWriteExact
  BY BitBufExact DEF BitWriteExact
<1> QED BY <1>1, Invariance, PTL

LEMMA FaultInTail ==
    ASSUME NEW off \in Addr, NEW n \in 1 .. MaxAccess, GetFaults(ents, off, n)
    PROVE  off + n > Tail
<1> DEFINE q == NBytes \div LineBytes
<1>1. q \in Nat /\ q * LineBytes <= NBytes
  BY SizeAssumption, LineAssumption
<1>2. PICK l \in {byte_to_line(off), LastLine(off, n)} : ~Readable(l)
  BY DEF GetFaults, Faults
<1>3. off \in Nat /\ n \in Nat /\ n >= 1 /\ off + n - 1 \in Nat
  BY SizeAssumption, AccessAssumption, LineAssumption DEF Addr
<1>4. l \in Nat /\ l * LineBytes <= off + n - 1
  <2>1. byte_to_line(off) \in Nat /\ byte_to_line(off) * LineBytes <= off
    BY <1>3, DivFacts
  <2>2. LastLine(off, n) \in Nat /\ LastLine(off, n) * LineBytes <= off + n - 1
    BY <1>3, DivFacts DEF LastLine
  <2>3. byte_to_line(off) * LineBytes \in Int
    BY <2>1, LineAssumption
  <2> QED BY <1>3, <2>1, <2>2, <2>3
<1> HIDE DEF q
<1> SUFFICES ASSUME off + n <= q * LineBytes PROVE FALSE
  BY <1>1, <1>3, LineAssumption DEF Tail, q
<1>5. l * LineBytes < q * LineBytes
  BY <1>1, <1>3, <1>4, LineAssumption
<1>6. l + 1 <= q
  <2>1. CASE l >= q
    <3>1. l * LineBytes >= q * LineBytes
      BY <1>1, <1>4, <2>1, LineAssumption
    <3> QED BY <1>1, <1>4, <1>5, <3>1, LineAssumption
  <2> QED BY <1>1, <1>4, <2>1
<1>7. (l + 1) * LineBytes <= q * LineBytes
  BY <1>1, <1>4, <1>6, LineAssumption
<1>8. (l + 1) * LineBytes \in Int /\ q * LineBytes \in Int
  BY <1>1, <1>4, LineAssumption
<1> QED BY <1>1, <1>2, <1>7, <1>8, SizeAssumption DEF Readable

LEMMA TailFaults ==
    ASSUME IInv, NEW off \in Addr, NEW n \in 1 .. MaxAccess, off + n > Tail
    PROVE  GetFaults(ents, off, n)
<1> DEFINE q == NBytes \div LineBytes  l == LastLine(off, n)
<1>1. q \in Nat /\ q * LineBytes \in Nat /\ NBytes < q * LineBytes + LineBytes
  BY SizeAssumption, LineAssumption
<1>2. off \in Nat /\ n \in Nat /\ n >= 1 /\ off + n - 1 \in Nat
  BY SizeAssumption, AccessAssumption, LineAssumption DEF Addr
<1>3. l \in Nat /\ off + n - 1 < l * LineBytes + LineBytes
  BY <1>2, DivFacts DEF LastLine
<1>4. q * LineBytes <= off + n - 1
  BY <1>1, <1>2 DEF Tail
<1> HIDE DEF q, l
<1>5. q <= l
  <2>1. CASE l + 1 <= q
    <3>1. (l + 1) * LineBytes <= q * LineBytes
      BY <1>1, <1>3, <2>1, LineAssumption
    <3>2. (l + 1) * LineBytes = l * LineBytes + LineBytes /\ l * LineBytes \in Nat
      BY <1>3, LineAssumption
    <3> QED BY <1>1, <1>2, <1>3, <1>4, <3>1, <3>2, LineAssumption
  <2> QED BY <1>1, <1>3, <2>1
<1>6. ~Readable(l)
  <2>1. (l + 1) * LineBytes >= (q + 1) * LineBytes
    BY <1>1, <1>3, <1>5, LineAssumption
  <2>2. (q + 1) * LineBytes = q * LineBytes + LineBytes /\ (l + 1) * LineBytes \in Nat
    BY <1>1, <1>3, LineAssumption
  <2> QED BY <1>1, <2>1, <2>2, SizeAssumption, LineAssumption DEF Readable
<1>7. ~fsl_io_cache_find(ents, l)
  <2>1. ents[Slot(l)] \in Entry
    BY <1>3, SlotType DEF IInv, Good
  <2>2. ents[Slot(l)].addr \in Lines \union {NoLine}
    BY <2>1 DEF Entry
  <2>3. l \notin Lines /\ l # NoLine
    BY <1>3, <1>6 DEF Lines, NoLine
  <2> QED BY <2>2, <2>3 DEF fsl_io_cache_find
<1> QED BY <1>6, <1>7 DEF GetFaults, Faults, l

(* A cached read ends the process exactly when it reaches into the bytes   *)
(* after the last whole line of the device.                                *)
THEOREM FaultsInTail == Spec => []FaultsOnlyInTail
<1>1. IInv => FaultsOnlyInTail
  <2> SUFFICES ASSUME IInv, NEW off \in Addr, NEW n \in 1 .. MaxAccess, off + n <= NBytes
               PROVE  GetFaults(ents, off, n) <=> off + n > Tail
    BY DEF FaultsOnlyInTail
  <2>1. GetFaults(ents, off, n) => off + n > Tail
    BY FaultInTail
  <2>2. off + n > Tail => GetFaults(ents, off, n)
    BY TailFaults
  <2> QED BY <2>1, <2>2
<1> QED BY <1>1, Invariance, PTL

-----------------------------------------------------------------------------
(* Every step is a step of the raw device or leaves it alone. *)

LEMMA WriteIsRaw ==
    ASSUME IInv, IInv', NEW off \in Addr, NEW n \in Nat \ {0}, off + n <= NBytes,
           NEW buf, pwrite(off, n, buf), up, UNCHANGED <<ret, up>>
    PROVE  Raw!Next
<1>1. n \in 1 .. NBytes
  BY SizeAssumption DEF Addr
<1>2. disk' \in [Raw!Addr -> Byte]
  BY DEF IInv, Raw!Addr, Addr
<1>3. \A a \in Raw!Addr : a \notin off .. off + n - 1 => disk'[a] = disk[a]
  BY DEF pwrite, Overwrite, Raw!Addr, Addr
<1>4. Raw!Write(off, n)
  BY <1>2, <1>3 DEF Raw!Write
<1> QED BY <1>1, <1>4 DEF Raw!Next, Raw!Addr, Addr

LEMMA ReadIsRaw ==
    ASSUME NEW off \in Addr, NEW n \in Nat \ {0}, off + n <= NBytes, up,
           ret' = [i \in 0 .. n - 1 |-> disk[off + i]], UNCHANGED <<disk, up>>
    PROVE  Raw!Next
<1>1. n \in 1 .. NBytes
  BY SizeAssumption DEF Addr
<1>2. Raw!Read(off, n)
  BY DEF Raw!Read
<1> QED BY <1>1, <1>2 DEF Raw!Next, Raw!Addr, Addr

LEMMA StepIsRaw == IInv /\ [Next]_vars => [Raw!Next]_(Raw!vars)
<1> SUFFICES ASSUME IInv, IInv', [Next]_vars PROVE [Raw!Next]_(Raw!vars)
  BY NextIInv
<1>1. ASSUME NEW off \in Addr, NEW n \in 1 .. MaxAccess, GetLocalPhys(off, n)
      PROVE  Raw!Next
  BY <1>1, GetKeeps, ReadIsRaw, AccessAssumption, LineAssumption DEF GetLocalPhys
<1>2. ASSUME NEW off \in Addr, NEW n \in 1 .. MaxAccess, GetLocalPhysFaults(off, n)
      PROVE  Raw!Next
  BY <1>2 DEF GetLocalPhysFaults, Raw!Next, Raw!Fail
<1>3. ASSUME NEW off \in Addr, NEW n \in 1 .. MaxAccess,
             NEW buf \in [0 .. n - 1 -> Byte], fsl_io_write(off, n, buf)
      PROVE  Raw!Next
  BY <1>3, WriteIsRaw, AccessAssumption, LineAssumption DEF fsl_io_write
<1>4. ASSUME NEW off \in Addr, NEW left \in BitPos, NEW val \in Word,
             fsl_io_write_bit(off, left, val)
      PROVE  Raw!Next
  <2>1. off + 1 <= NBytes
    BY SizeAssumption DEF Addr
  <2> QED BY <1>4, <2>1, WriteIsRaw DEF fsl_io_write_bit
<1>5. ASSUME NEW off \in Addr, NEW n \in 1 .. MaxBulk, fsl_io_read_bytes(off, n)
      PROVE  Raw!Next
  BY <1>5, ReadIsRaw, BulkAssumption DEF fsl_io_read_bytes
<1>6. ASSUME NEW off \in Addr, NEW n \in 1 .. MaxBulk,
             NEW buf \in [0 .. n - 1 -> Byte], fsl_io_write_bytes(off, n, buf)
      PROVE  Raw!Next
  BY <1>6, WriteIsRaw, BulkAssumption DEF fsl_io_write_bytes
<1>7. CASE Reopen
  BY <1>7 DEF Reopen, NoBytes, Raw!Next, Raw!Restart
<1>8. CASE UNCHANGED vars
  BY <1>8 DEF vars, Raw!vars
<1> QED BY <1>1, <1>2, <1>3, <1>4, <1>5, <1>6, <1>7, <1>8 DEF Next

(* The cache cannot be observed: every behaviour of the cached device is a *)
(* behaviour of the raw one, with the same reads and the same contents.    *)
THEOREM Refinement == Spec => Implements
<1>1. Init => Raw!Init
  BY DEF Init, Raw!Init, Raw!Addr, Addr, NoBytes
<1> QED BY <1>1, StepIsRaw, Invariance, PTL DEF Spec, Implements, Raw!Spec
=============================================================================
