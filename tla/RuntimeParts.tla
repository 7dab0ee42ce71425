---------------------------- MODULE RuntimeParts ----------------------------
(***************************************************************************)
(* Parts of the runtime that share no state: the bitmap, the reading and   *)
(* writing of words (BitAccess), the traces of accesses (Trace), and the   *)
(* mapping of one virtual type (Virt).  A behaviour puts one of them to    *)
(* work; the others stay as they begin.                                    *)
(***************************************************************************)
EXTENDS Integers, Sequences, FiniteSets, TLC

CONSTANTS W, Size
CONSTANTS ByteBits, WordBytes, LineBytes, DevBytes, AccessOffs, MaxElems
CONSTANTS Kinds, HitBits, ImageBits, BlkBits, UintMod, LOG_BUF_ENTS, TraceAddrs, Leftovers, MaxEvents
CONSTANTS Layouts, CacheEnts, DevSize, HdrSize, MaxIdx, Spare

ASSUME BitmapAssumption == W \in Nat \ {0} /\ Size \in Nat \ {0}
ASSUME AccessAssumption ==
    /\ ByteBits \in Nat \ {0} /\ WordBytes \in 1 .. 8 /\ LineBytes \in Nat \ {0}
    /\ DevBytes \in Nat /\ AccessOffs \subseteq Nat /\ MaxElems \in Nat
ASSUME TraceAssumption ==
    /\ HitBits \in Nat \ {0} /\ ImageBits \in Nat /\ BlkBits \in Nat \ {0} /\ UintMod \in Nat \ {0}
    /\ LOG_BUF_ENTS \in Nat \ {0} /\ TraceAddrs \subseteq Nat /\ Leftovers \subseteq Nat

VARIABLES part
VARIABLES data, aborted
VARIABLES mode, cells, mem, ret
VARIABLES env, main_at, io_cb, cb_prev, ev_log, was, cl_buf, cl_file, dump, seen, strays
VARIABLES lay, rtm, moved, last

Bmp == INSTANCE Bitmap
Acc == INSTANCE BitAccess
Tra == INSTANCE Trace
V   == INSTANCE Virt

(* Sources lie on the device, also where others may move them to.  A       *)
(* source has room for a header, or the first object has none in a piece.  *)
ASSUME VirtAssumption ==
    /\ DevSize \in Nat
    /\ CacheEnts \in Nat \ {0, 1} /\ HdrSize \in Nat \ {0} /\ MaxIdx \in Nat
    /\ Spare \subseteq 1 .. DevSize - 1
    /\ \A l \in Layouts :
          /\ l \in V!LayoutType
          /\ HdrSize <= l.srcsz
          /\ \A i \in DOMAIN l.bases : l.bases[i] + l.srcsz <= DevSize
          /\ \A b \in Spare : b + l.srcsz <= DevSize

bmpVars == <<data, aborted>>
accVars == <<mode, cells, mem, ret>>
traVars == <<env, main_at, io_cb, cb_prev, ev_log, was, cl_buf, cl_file, dump, seen, strays>>
virtVars == <<lay, rtm, moved, last>>
rtVars  == <<part, bmpVars, accVars, traVars, virtVars>>

RtInit ==
    /\ part \in {"bitmap", "access", "trace", "virt"}
    /\ Bmp!BitmapInit
    /\ Acc!AccessInit /\ (part # "access" => mode = "little")
    /\ Tra!TraceInit /\ (part # "trace" => env = {} /\ was = CHOOSE w \in Leftovers : TRUE)
    /\ V!VirtInit /\ (part # "virt" => lay = CHOOSE l \in Layouts : TRUE)

RtNext ==
    /\ UNCHANGED part
    /\ \/ part = "bitmap" /\ Bmp!BitmapNext /\ UNCHANGED <<accVars, traVars, virtVars>>
       \/ part = "access" /\ Acc!AccessNext /\ UNCHANGED <<bmpVars, traVars, virtVars>>
       \/ part = "trace" /\ Tra!TraceNext /\ UNCHANGED <<bmpVars, accVars, virtVars>>
       \/ part = "virt" /\ V!VirtNext /\ UNCHANGED <<bmpVars, accVars, traVars>>

RtSpec == RtInit /\ [][RtNext]_rtVars

-----------------------------------------------------------------------------
(* bmp_set and bmp_unset change the bits of their range and no other,      *)
(* wherever it lies in the bytes, and never the padding behind bmp_size;   *)
(* bmp_set_avail takes the first clear bits in a row that are enough,      *)
(* whenever the map has them (Bitmap).                                     *)
RangesExact == [][part = "bitmap" => Bmp!RangeStep /\ Bmp!AvailStep /\ Bmp!PaddingClear']_rtVars

(* choice_find_avail returns the first place where enough choices in a row *)
(* are available, and -1 only if there is none (Bitmap).                   *)
FindsFirst == part = "bitmap" => Bmp!FindsFirst

(* A word read is the bits of the description in the order of its mode,    *)
(* over every alignment, width and line boundary, and a read aborts only   *)
(* for the big-endian cases the swap does not know (BitAccess).            *)
WordsExact == part = "access" => Acc!WordsExact /\ Acc!AbortsOnlySwapped

(* The temporal trace has every access once and in order, and the counts   *)
(* of hits.c are those of the accesses, on top of what malloc left, for    *)
(* every line that has a counter, as long as no access lies behind the     *)
(* counters; where one does, the counts are too high by such accesses at   *)
(* most, until one of them brings the program astray (Trace).              *)
TraceExact == part = "trace" => Tra!TraceExact /\ Tra!HitsExact

(* A translation is the byte the concatenation of the sources has at the   *)
(* offset, whatever was cached or evicted; it is old only for a source     *)
(* that moved while the mapping lived.  Every slot of the translation      *)
(* cache that could answer belongs to its index and holds the base it had  *)
(* when the mapping was made, or has now (Virt).                           *)
XlateExact == part = "virt" => V!XlateExact /\ V!CacheSound

(* Objects of a virtual type found by index lie one behind the other in    *)
(* the range, and end in it.  Who asks for the elements 0, 1, 2, ... and   *)
(* stops at the first refusal never meets the assertion "Accessing past    *)
(* virt bits", and meets "Discontiguous getLocal" exactly at an object     *)
(* whose header is split, by two sources or by the end of the range        *)
(* (Virt).                                                                 *)
NthTiles == part = "virt" => V!NthTiles /\ V!SequentialWalkSafe

-----------------------------------------------------------------------------
(* The instance that is checked, of virtual types: whole objects in each   *)
(* source, an object over two sources, one behind the range, an endless    *)
(* one, an empty range.                                                    *)
mcCell(a, f, other) == IF a \in DOMAIN f THEN f[a] ELSE other
mcLayout(min, srcsz, bases, f, other) ==
    [min |-> min, srcsz |-> srcsz, bases |-> bases,
     cells |-> [a \in 0 .. 15 |-> mcCell(a, f, other)]]
mcLayouts ==
    {mcLayout(1, 3, <<7, 1, 4>>, (9 :> 4) @@ (3 :> 3), 2),
     mcLayout(0, 2, <<3, 5, 9>>, <<>>, 3),
     mcLayout(0, 2, <<3, 5, 9>>, (3 :> 2) @@ (5 :> 3), 1),
     mcLayout(0, 2, <<3, 5, 9>>, (3 :> 2), 0),
     mcLayout(0, 4, <<4, 8>>, (4 :> 2) @@ (6 :> 2) @@ (8 :> 4), 0),
     mcLayout(0, 4, <<4, 8>>, (4 :> 2) @@ (6 :> 2) @@ (8 :> 5), 0),
     mcLayout(-1, 2, <<>>, <<>>, 0)}
=============================================================================
