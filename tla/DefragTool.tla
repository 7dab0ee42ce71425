----------------------------- MODULE DefragTool -----------------------------
(***************************************************************************)
(* defragtool: move a fragmented file to a run of free blocks that is long *)
(* enough for all of it, block by block.                                   *)
(***************************************************************************)
EXTENDS RelocBase

VARIABLES
    ccache_cursor,
    moving,         \* the loop of do_defrag is running
    cc_begin        \* the run the file moves to

(* The file of a position and its positions sel_min .. sel_max. *)
Files      == 1 .. Len(Sizes)
PosOf(f)   == First[f] .. First[f + 1] - 1
File(s)    == CHOOSE f \in Files : s \in PosOf(f)
sel_min    == First[File(cur)]
sel_count  == Sizes[File(cur)]

is_fragmented(f) ==
    \E s \in PosOf(f) : s + 1 \in PosOf(f) /\ place[s + 1] # place[s] + 1

Init ==
    /\ BaseInit
    /\ ccache_cursor = choice_min
    /\ moving = FALSE /\ cc_begin = 0

(* Where the search starts: at the cursor, and if that finds nothing at    *)
(* the first choice.                                                       *)
SearchFrom ==
    IF choice_find_avail(ccache, ccache_cursor, sel_count) = -1
    THEN choice_min ELSE ccache_cursor

Room == choice_find_avail(ccache, SearchFrom, sel_count)

Start ==
    /\ ~Done /\ ~moving
    /\ sel_count > 1 /\ Room # -1 /\ is_fragmented(File(cur))
    /\ moving' = TRUE /\ cc_begin' = Room
    /\ ccache_cursor' = SearchFrom
    /\ UNCHANGED basevars

(* One block only, not enough room, or nothing to do. *)
Skip ==
    /\ ~Done /\ ~moving
    /\ sel_count = 1 \/ Room = -1 \/ ~is_fragmented(File(cur))
    /\ cur' = sel_min + sel_count
    /\ ccache_cursor' = IF sel_count = 1 THEN ccache_cursor ELSE SearchFrom
    /\ UNCHANGED <<place, ccache, moving, cc_begin>>

(* The cursor moves on by the length of the file, from where the search    *)
(* started and not from where it ended.                                    *)
Advanced(n) ==
    IF ccache_cursor + n > choice_max THEN choice_min ELSE ccache_cursor + n

\* Mutant: the run is filled from its end.
TargetReversed == cc_begin + (sel_min + sel_count - 1 - cur)

(* The choice for the block at hand. *)
Target == cc_begin + (cur - sel_min)

MoveOne ==
    /\ moving
    /\ Relocate(Target)
    /\ NextPos
    /\ LET last == cur = sel_min + sel_count - 1
       IN  /\ moving' = ~last
           /\ cc_begin' = IF last THEN 0 ELSE cc_begin
           /\ ccache_cursor' = IF last THEN Advanced(sel_count) ELSE ccache_cursor

Next == Start \/ Skip \/ MoveOne
=============================================================================
