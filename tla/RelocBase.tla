----------------------------- MODULE RelocBase -----------------------------
(***************************************************************************)
(* What the relocation tools (smush, thrashcopy, scatter, defrag and       *)
(* relocate) share: files whose blocks they move, and the choice cache     *)
(* that tells them which blocks they may move to.                          *)
(*                                                                         *)
(* The blocks of the files are numbered through, 1 .. Total, in the order  *)
(* the scan and the loop over rel_sel reach them.  A relocation is one     *)
(* step here: Relocate.tla takes it apart.                                 *)
(***************************************************************************)
EXTENDS Integers, Sequences, FiniteSets

CONSTANTS
    NBlk,           \* choices cc_min = 1 .. cc_max = NBlk
    Sizes,          \* the number of blocks of each file, in the scan's order
    Others          \* blocks that do not belong to the files

ASSUME BaseAssumption ==
    /\ NBlk \in Nat \ {0} /\ Sizes \in Seq(Nat \ {0})
    /\ Others \subseteq 1 .. NBlk

VARIABLES
    place,          \* the block of each position
    ccache,         \* the choices marked free in the choice cache
    cur             \* the position at hand; behind the last one the scan is over

basevars == <<place, ccache, cur>>

(* The first position of a file, and of the one behind the last. *)
First[f \in 1 .. Len(Sizes) + 1] == IF f = 1 THEN 1 ELSE First[f - 1] + Sizes[f - 1]

Blk     == 1 .. NBlk
Total   == First[Len(Sizes) + 1] - 1
Sel     == 1 .. Total
Done    == cur > Total

Used(p) == Others \union {p[s] : s \in Sel}
Free    == Blk \ Used(place)

choice_min == 1
choice_max == NBlk

(* Bitmap!choice_find_avail, as FindsFirst describes it. *)
choice_find_avail(cc, offset, min_count) ==
    LET fits == {k \in offset .. NBlk - min_count + 1 : k .. k + min_count - 1 \subseteq cc}
    IN  IF fits = {} THEN -1 ELSE CHOOSE k \in fits : \A x \in fits : k <= x

\* Mutant: the condition of a choice is not tested.
AllChoices == Blk

(* The choices whose rel_ccond holds on the device as it is. *)
choice_alloc == Free

BaseInit ==
    /\ place \in {p \in [Sel -> Blk \ Others] : \A s, t \in Sel : s # t => p[s] # p[t]}
    /\ ccache = choice_alloc    \* when the first inode is met
    /\ cur = 1

\* Mutant: the choice is not marked.
RelocateUnmarked(k) ==
    /\ place' = [place EXCEPT ![cur] = k]
    /\ ccache' = ccache

(* wpkt_relocate to a choice, which is marked afterwards. *)
Relocate(k) ==
    /\ place' = [place EXCEPT ![cur] = k]
    /\ ccache' = ccache \ {k}

NextPos == cur' = cur + 1

(* Every tool: blocks are never shared, and none of them is put where      *)
(* something else lives, though the choice cache is not refreshed between  *)
(* relocations.                                                            *)
NoOverlap ==
    /\ \A s, t \in Sel : s # t => place[s] # place[t]
    /\ \A s \in Sel : place[s] \notin Others
=============================================================================
