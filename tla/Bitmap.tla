------------------------------- MODULE Bitmap -------------------------------
(***************************************************************************)
(* The bitmap of the runtime (runtime/bitmap.c) and the search the choice  *)
(* cache makes in it (choice_find_avail of runtime/choice.c).              *)
(*                                                                         *)
(* The bits are kept in bytes of W bits; when Size is no multiple of W the *)
(* last byte has bits that stand for nothing.  A byte is the set of its    *)
(* bits that are 1.                                                        *)
(***************************************************************************)
EXTENDS Integers, FiniteSets

CONSTANTS
    W,              \* bits in a byte, 8 in the code
    Size            \* bmp_size

VARIABLES
    data,           \* bmp_data
    aborted         \* an FSL_ASSERT failed

bmv == <<data, aborted>>

bmp_bytes == (Size + W - 1) \div W
Bytes     == 0 .. bmp_bytes - 1
Total     == bmp_bytes * W              \* bits in the bytes, padding included
Offsets   == 0 .. Size - 1

LeastOf(S) == CHOOSE x \in S : \A y \in S : x <= y

-----------------------------------------------------------------------------
(* Reading. *)

bmp_is_set(o) == (o % W) \in data[o \div W]

(* The search runs to the end of the last byte. *)
bmp_find_avail(o) ==
    LET F == {k \in o .. Total - 1 : ~bmp_is_set(k)}
    IN  IF F = {} THEN -1 ELSE LeastOf(F)

bmp_count_contig_set(o) ==
    LeastOf({k \in o .. Total : k = Total \/ ~bmp_is_set(k)}) - o

bmp_count_contig_avail(o) ==
    LeastOf({k \in o .. Total : k = Total \/ bmp_is_set(k)}) - o

\* Mutant: a run of exactly min_count bits is not taken.
FindWantsMore(offset, min_count) ==
    LET find[o \in 0 .. Total] ==
            IF o >= Size THEN -1
            ELSE IF bmp_is_set(o) /\ bmp_count_contig_set(o) > min_count THEN o
            ELSE find[o + 1]
    IN  find[offset]

(* From offset on, over runs of set and of clear bits, to the first run of *)
(* set bits that is long enough.                                           *)
choice_find_avail(offset, min_count) ==
    LET find[o \in 0 .. Total] ==
            IF o >= Size THEN -1
            ELSE IF bmp_is_set(o)
                 THEN IF bmp_count_contig_set(o) >= min_count
                      THEN o
                      ELSE find[o + bmp_count_contig_set(o)]
                 ELSE find[o + bmp_count_contig_avail(o)]
    IN  find[offset]

-----------------------------------------------------------------------------
(* Writing: the bits of byte b that bmp_set(o, n) and bmp_unset(o, n)      *)
(* touch: the rest of the first byte, whole bytes, the start of the last.  *)

\* Mutant: the part in the first byte is not cut to n.
MaskNotCut(o, n, b) ==
    LET left == IF o % W # 0 THEN W - (o % W) ELSE 0
        off  == o + left
        cnt  == n - left
        i    == cnt \div W
    IN  (IF left > 0 /\ b = o \div W THEN (o % W) .. (o % W) + left - 1 ELSE {})
        \union (IF b \in (off \div W) .. (off \div W) + i - 1 THEN 0 .. W - 1 ELSE {})
        \union (IF cnt % W # 0 /\ b = i + (off \div W) THEN 0 .. (cnt % W) - 1 ELSE {})

Mask(o, n, b) ==
    LET left == IF o % W = 0 THEN 0
                ELSE IF n < W - (o % W) THEN n ELSE W - (o % W)
        off  == o + left
        cnt  == n - left
        i    == cnt \div W
    IN  (IF left > 0 /\ b = o \div W THEN (o % W) .. (o % W) + left - 1 ELSE {})
        \union (IF b \in (off \div W) .. (off \div W) + i - 1 THEN 0 .. W - 1 ELSE {})
        \union (IF cnt % W # 0 /\ b = i + (off \div W) THEN 0 .. (cnt % W) - 1 ELSE {})

InBounds(o, n) == o + (n - 1) < Size        \* the FSL_ASSERT of both

bmp_set(o, n) ==
    /\ ~aborted
    /\ aborted' = ~InBounds(o, n)
    /\ data' = IF InBounds(o, n)
               THEN [b \in Bytes |-> data[b] \union Mask(o, n, b)] ELSE data

bmp_unset(o, n) ==
    /\ ~aborted
    /\ aborted' = ~InBounds(o, n)
    /\ data' = IF InBounds(o, n)
               THEN [b \in Bytes |-> data[b] \ Mask(o, n, b)] ELSE data

(* bmp_set_avail: the first run of n clear bits from o on is set.  The     *)
(* loop ends when fewer than n bits are left.                              *)
Avail(o, n) ==
    LET find[l \in 0 .. Total] ==
            LET loc == bmp_find_avail(l)
                cnt == bmp_count_contig_avail(loc)
            IN  IF loc = -1 THEN -1
                ELSE IF cnt >= n THEN loc
                ELSE IF loc + cnt <= Size - n THEN find[loc + cnt] ELSE -1
    IN  find[o]

bmp_set_avail(o, n) ==
    IF Avail(o, n) # -1
    THEN bmp_set(Avail(o, n), n)
    ELSE UNCHANGED bmv

(* bmp_init and bmp_clear. *)
BitmapInit ==
    /\ data = [b \in Bytes |-> {}]
    /\ aborted = FALSE

(* Callers name ranges of the bitmap. *)
BitmapNext ==
    \E o \in Offsets, n \in 1 .. Size :
        \/ InBounds(o, n) /\ bmp_set(o, n)
        \/ InBounds(o, n) /\ bmp_unset(o, n)
        \/ ~aborted /\ bmp_set_avail(o, n)

-----------------------------------------------------------------------------
Bits == {k \in 0 .. Total - 1 : bmp_is_set(k)}

(* The bits behind Size are never set: they are never offered as choices.  *)
PaddingClear == Bits \subseteq Offsets

(* Setting and clearing a range change the bits of the range and no other, *)
(* wherever it lies in the bytes.                                          *)
RangeStep ==
    \A o \in Offsets, n \in 1 .. Size :
        InBounds(o, n) =>
            /\ bmp_set(o, n) => Bits' = Bits \union (o .. o + n - 1)
            /\ bmp_unset(o, n) => Bits' = Bits \ (o .. o + n - 1)

(* choice_find_avail returns the first place from offset on where          *)
(* min_count choices in a row are available, and -1 only if there is none. *)
FindsFirst ==
    \A o \in Offsets, n \in 1 .. Size :
        LET fits == {k \in o .. Size - n : k .. k + n - 1 \subseteq Bits}
        IN  choice_find_avail(o, n) = IF fits = {} THEN -1 ELSE LeastOf(fits)

(* bmp_set_avail takes the first n clear bits in a row from o on whenever  *)
(* the map has such a row.  If it has none the search may still find one   *)
(* that reaches into the padding, and the assertion of bmp_set fails.      *)
AvailStep ==
    \A o \in Offsets, n \in 1 .. Size :
        LET fits == {k \in o .. Size - n : k .. k + n - 1 \intersect Bits = {}}
        IN  bmp_set_avail(o, n) /\ fits # {} =>
                /\ ~aborted'
                /\ Bits' = Bits \union (LeastOf(fits) .. LeastOf(fits) + n - 1)
=============================================================================
