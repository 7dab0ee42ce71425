-------------------------------- MODULE Virt --------------------------------
(***************************************************************************)
(* The mapping of one virtual type (runtime/virt.c): source elements of    *)
(* equal size that lie anywhere on the device are read as one range, and   *)
(* objects of the virtual type, each as long as its own header says, lie   *)
(* in that range one after the other.                                      *)
(*                                                                         *)
(* The unit is a byte.  A cell of the device holds the size an object that *)
(* starts there would have.  Bases of source elements are cached, and the  *)
(* sources may be moved by others while the mapping is in use.             *)
(* The size of an object is one field at its front, the header; a type of  *)
(* fixed size reads nothing for its size and is left out.                  *)
(***************************************************************************)
EXTENDS Integers, Sequences

CONSTANTS
    Layouts,        \* what lies below the virtual type, see LayoutType
    CacheEnts,      \* VIRT_CACHE_ENTS
    DevSize,        \* bytes of the device
    HdrSize,        \* bytes the size of a virtual object is read from
    MaxIdx,         \* bound on the indices asked for
    Spare           \* where a source may be moved to

(* The first index, the size of a source, the bases of the sources and the *)
(* cells of the device.  A first index of -1 is the ~0 of an empty range.  *)
LayoutType ==
    [min : Nat \cup {-1}, srcsz : Nat \ {0}, bases : Seq(1 .. DevSize - 1),
     cells : [0 .. DevSize - 1 -> Nat]]

VARIABLES
    lay,            \* the device and the sources as they are now
    rtm,            \* the mapping: cached bounds, source size, cached bases
    moved,          \* the indices whose source moved since the mapping was made
    last            \* the last call and its answer

vvars == <<lay, rtm, moved, last>>

NoRtm == [live |-> FALSE]
Quiet == [call |-> "none"]

-----------------------------------------------------------------------------
(* it_range: where the source with an index begins. *)
it_range(idx) == lay.bases[idx - lay.min + 1]

(* fsl_virt_load_cache; FALSE for a range without elements. *)
LoadCache == lay.min # -1 /\ lay.bases # <<>>

(* A slot that holds the next slot's number matches no index of its own. *)
fsl_virt_init_cache == [s \in 0 .. CacheEnts - 1 |-> [idx |-> s + 1, off |-> 0]]

fsl_virt_total_bits == rtm.srcsz * (rtm.max - rtm.min + 1)

\* Mutant: whatever the slot holds answers.
CacheFindAny(c, idx) ==
    LET e == c[idx % CacheEnts] IN IF e.off # 0 THEN e.off ELSE -1

(* fsl_virt_cache_find; -1 is ~0, a miss. *)
CacheFind(c, idx) ==
    LET e == c[idx % CacheEnts] IN IF e.idx = idx THEN e.off ELSE -1

CacheUpdate(c, idx, v) == [c EXCEPT ![idx % CacheEnts] = [idx |-> idx, off |-> v]]

FromBase(c, idx, into, base, hit) ==
    [cache |-> IF hit THEN c ELSE CacheUpdate(c, idx, base), poff |-> base + into]
XlateIn(c, idx, into) ==
    IF CacheFind(c, idx) = -1 THEN FromBase(c, idx, into, it_range(idx), FALSE)
    ELSE FromBase(c, idx, into, CacheFind(c, idx), TRUE)

(* fsl_virt_xlate_rtm inside the range: the base of the source from the    *)
(* cache or from it_range, plus the offset into the source.                *)
Xlate(c, voff) ==
    XlateIn(c, (voff \div rtm.srcsz) + rtm.min, voff % rtm.srcsz)

(* __getLocal of the header of the object at voff: first and last byte are *)
(* translated and must be as far apart as they are in the range, or the    *)
(* assertion "Discontiguous getLocal not permitted" fails: "thin".  "past" *)
(* is a byte behind the range: the assertion "Accessing past virt bits"    *)
(* fails, unless an unsafe operation is under way.                         *)
Header(a, b) ==
    [cache |-> b.cache, size |-> lay.cells[a.poff],
     err |-> IF b.poff = a.poff + HdrSize - 1 THEN "ok" ELSE "thin"]
FromFirst(a, voff) ==
    IF voff + HdrSize - 1 >= fsl_virt_total_bits
    THEN [cache |-> a.cache, size |-> 0, err |-> "past"]
    ELSE Header(a, Xlate(a.cache, voff + HdrSize - 1))
GetSize(c, voff) ==
    IF voff >= fsl_virt_total_bits THEN [cache |-> c, size |-> 0, err |-> "past"]
    ELSE FromFirst(Xlate(c, voff), voff)

\* Mutant: an object may end behind the range.
BoundsUnchecked(g, w) ==
    [cache |-> g.cache, off |-> w.off, res |-> IF g.err # "ok" THEN "thin" ELSE "go"]

(* fsl_virt_nth_verify_bounds, the unsafe operation.  The walk has left    *)
(* w.off inside the range.  A last byte of the header behind it translates *)
(* to ~0 and sets the error of the unsafe operation, but __getLocal does   *)
(* not look at the error: ~0 is not where the first byte is plus the       *)
(* distance, and the program stops at "Discontiguous getLocal" before the  *)
(* error is read here.  Only an object with a whole header is refused.     *)
VerifyBounds(g, w) ==
    [cache |-> g.cache, off |-> w.off,
     res   |-> IF g.err # "ok" THEN "thin"
               ELSE IF w.off + g.size > fsl_virt_total_bits THEN "EOF" ELSE "go"]

(* One round of the loop of fsl_virt_get_nth: over the object at w.off. *)
NthStep(g, w) ==
    [cache |-> g.cache, off |-> w.off + g.size,
     res |-> IF g.err # "ok" THEN g.err
             ELSE IF w.off + g.size >= fsl_virt_total_bits THEN "INVALID"
             ELSE IF g.size = 0 THEN "EOF" ELSE "go"]
NthRound(w) == IF w.res = "go" THEN NthStep(GetSize(w.cache, w.off), w) ELSE w

(* The loop: where it is after so many rounds. *)
NthWalk(c) ==
    LET walk[n \in 0 .. MaxIdx] ==
            IF n = 0 THEN [cache |-> c, off |-> 0, res |-> "go"] ELSE NthRound(walk[n - 1])
    IN  walk

(* The check of the object it came to; none for the first one. *)
NthFound(w, target) ==
    IF target = 0 \/ w.res # "go" THEN w ELSE VerifyBounds(GetSize(w.cache, w.off), w)
fsl_virt_get_nth(c, target) == NthFound(NthWalk(c)[target], target)

-----------------------------------------------------------------------------
VirtInit ==
    /\ lay \in Layouts
    /\ rtm = NoRtm /\ moved = {} /\ last = Quiet

(* fsl_virt_alloc; the bounds and the source size are read once. *)
fsl_virt_alloc ==
    /\ ~rtm.live
    /\ IF LoadCache
       THEN rtm' = [live |-> TRUE, min |-> lay.min, max |-> lay.min + Len(lay.bases) - 1,
                    srcsz |-> lay.srcsz, cache |-> fsl_virt_init_cache]
       ELSE UNCHANGED rtm
    /\ moved' = {} /\ last' = [call |-> "alloc", ok |-> LoadCache]
    /\ UNCHANGED lay

fsl_virt_free ==
    /\ rtm.live
    /\ rtm' = NoRtm /\ last' = Quiet
    /\ UNCHANGED <<lay, moved>>

(* fsl_virt_xlate_safe: an offset behind the range is an error, not the    *)
(* failed assertion it is in fsl_virt_xlate.                               *)
fsl_virt_xlate_safe(voff) ==
    /\ rtm.live
    /\ IF voff >= fsl_virt_total_bits
       THEN last' = [call |-> "xlate", voff |-> voff, poff |-> -1] /\ UNCHANGED rtm
       ELSE LET x == Xlate(rtm.cache, voff)
            IN  /\ last' = [call |-> "xlate", voff |-> voff, poff |-> x.poff]
                /\ rtm' = [rtm EXCEPT !.cache = x.cache]
    /\ UNCHANGED <<lay, moved>>

GetNth(idx) ==
    /\ rtm.live
    /\ LET w == fsl_virt_get_nth(rtm.cache, idx)
       IN  /\ last' = [call |-> "nth", idx |-> idx, res |-> w.res, off |-> w.off]
           /\ rtm' = [rtm EXCEPT !.cache = w.cache]
    /\ UNCHANGED <<lay, moved>>

(* Someone else moves a source to bytes no source occupies: its cells are  *)
(* copied and the old ones are cleared.  The mapping is not told.          *)
Relocate(i, base) ==
    LET old   == lay.bases[i]
        bytes == 0 .. lay.srcsz - 1
        used  == UNION {{lay.bases[j] + k : k \in bytes} : j \in DOMAIN lay.bases}
    IN  /\ rtm.live /\ moved = {}
        /\ {base + k : k \in bytes} \intersect used = {}
        /\ lay' = [lay EXCEPT
              !.bases[i] = base,
              !.cells = [a \in DOMAIN @ |->
                            IF a - base \in bytes THEN @[old + a - base]
                            ELSE IF a - old \in bytes THEN 0 ELSE @[a]]]
        /\ moved' = {lay.min + i - 1} /\ last' = Quiet
        /\ UNCHANGED rtm

VirtNext ==
    \/ fsl_virt_alloc \/ fsl_virt_free
    \/ \E voff \in 0 .. DevSize : fsl_virt_xlate_safe(voff)
    \/ \E idx \in 0 .. MaxIdx : GetNth(idx)
    \/ \E i \in DOMAIN lay.bases, b \in Spare : Relocate(i, b)

-----------------------------------------------------------------------------
(* The bytes of the range in order: the sources put one after the other. *)
Range1 == [v \in 0 .. lay.srcsz * Len(lay.bases) - 1 |->
              lay.bases[(v \div lay.srcsz) + 1] + (v % lay.srcsz)]

(* A translation is the byte that the concatenation of the sources has at  *)
(* the offset, whatever was cached or evicted before; an answer may be old *)
(* only for a source that moved while the mapping lived.                   *)
XlateExact ==
    last.call = "xlate" =>
        \/ last.voff \notin DOMAIN Range1 /\ last.poff = -1
        \/ last.voff \in DOMAIN Range1 /\ last.poff = Range1[last.voff]
        \/ (last.voff \div lay.srcsz) + lay.min \in moved

(* Every slot of the cache that could answer belongs to its index and      *)
(* holds the base that index had when the mapping was made or has now.     *)
CacheSound ==
    rtm.live => \A s \in DOMAIN rtm.cache :
        LET e == rtm.cache[s]
        IN  e.idx % CacheEnts = s =>
                /\ e.idx \in rtm.min .. rtm.max
                /\ e.off = it_range(e.idx) \/ e.idx \in moved

(* Objects found by index lie in the range in the order of their indices   *)
(* and one behind the other; all but the first (which is not checked) end  *)
(* inside the range.                                                       *)
NthTiles ==
    rtm.live /\ moved = {} => \A nth \in {[k \in 0 .. MaxIdx |-> fsl_virt_get_nth(rtm.cache, k)]} :
        \A i, j \in 0 .. MaxIdx :
        LET a == nth[i]
            b == nth[j]
        IN  /\ i < j /\ b.res = "go" =>
                  a.res = "go" /\ a.off + lay.cells[Range1[a.off]] <= b.off
            /\ j > 0 /\ b.res = "go" =>
                  b.off + lay.cells[Range1[b.off]] <= lay.srcsz * Len(lay.bases)

(* The header of the object at voff lies in the range in one piece. *)
HeaderWhole(voff) ==
    /\ voff + HdrSize <= lay.srcsz * Len(lay.bases)
    /\ Range1[voff + HdrSize - 1] = Range1[voff] + HdrSize - 1

(* Who asks for the objects 0, 1, 2, ... and stops at the first refusal    *)
(* never meets the assertion "Accessing past virt bits", and meets         *)
(* "Discontiguous getLocal" exactly at an object that begins in the range  *)
(* with a header that does not lie in it in one piece: bytes left over     *)
(* behind the last object stop the program, they are not a refusal.        *)
SequentialWalkSafe ==
    rtm.live => \A nth \in {[k \in 0 .. MaxIdx |-> fsl_virt_get_nth(rtm.cache, k)]} :
        \A i \in 0 .. MaxIdx : (\A j \in 0 .. i - 1 : nth[j].res = "go") =>
            /\ nth[i].res # "past"
            /\ moved = {} =>
                  (nth[i].res = "thin" <=>
                      nth[i].off \in DOMAIN Range1 /\ ~HeaderWhole(nth[i].off))
=============================================================================
