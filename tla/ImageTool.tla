----------------------------- MODULE ImageTool -----------------------------
(***************************************************************************)
(* The relocate tool: arrange the blocks of the files to match an image    *)
(* whose pixels stand for regions of the device.  Blocks on unmarked       *)
(* pixels move to marked ones; the search for a choice and the cursor in   *)
(* the image advance together.  The steps are the rounds of the loop in    *)
(* choice_find.                                                            *)
(***************************************************************************)
EXTENDS RelocBase

CONSTANT BlksPerPx              \* blocks to a pixel

VARIABLES
    img,            \* the marked pixels
    reloc_cursor,   \* the pixel to fill next
    ccache_cursor,
    cur_choice      \* loop variable of choice_find; 0 outside of it

byte_to_imgidx(b) == b \div BlksPerPx
Pixels == {byte_to_imgidx(b) : b \in Blk}
NoPx   == byte_to_imgidx(NBlk) + 1         \* ~0, above every pixel

(* The next marked pixel behind i. *)
Advance(i) ==
    LET rest == {p \in img : p > i}
    IN  IF rest = {} THEN NoPx ELSE CHOOSE p \in rest : \A q \in rest : p <= q

reloc_img_advance == IF reloc_cursor = NoPx THEN NoPx ELSE Advance(reloc_cursor)

Init ==
    /\ BaseInit
    /\ img \in SUBSET Pixels
    /\ reloc_cursor = Advance(-1)
    /\ ccache_cursor = choice_min
    /\ cur_choice = 0

(* The block is on a marked pixel already. *)
InPlace ==
    /\ ~Done /\ cur_choice = 0
    /\ byte_to_imgidx(place[cur]) \in img
    /\ NextPos
    /\ UNCHANGED <<place, ccache, img, reloc_cursor, ccache_cursor, cur_choice>>

BeginSearch ==
    /\ ~Done /\ cur_choice = 0
    /\ byte_to_imgidx(place[cur]) \notin img
    /\ IF ccache_cursor > choice_max
       THEN NextPos /\ UNCHANGED cur_choice
       ELSE cur_choice' = ccache_cursor /\ UNCHANGED cur
    /\ UNCHANGED <<place, ccache, img, reloc_cursor, ccache_cursor>>

Searching == ~Done /\ cur_choice # 0

(* The search ends without a choice, or goes on with the next. *)
EndOrNext ==
    IF cur_choice = choice_max
    THEN cur_choice' = 0 /\ NextPos
    ELSE cur_choice' = cur_choice + 1 /\ UNCHANGED cur

(* In use, or in front of the pixel to fill. *)
Pass ==
    /\ Searching
    /\ cur_choice \notin ccache \/ byte_to_imgidx(cur_choice) < reloc_cursor
    /\ EndOrNext
    /\ UNCHANGED <<place, ccache, img, reloc_cursor, ccache_cursor>>

(* The choice falls on the pixel. *)
Hit ==
    /\ Searching
    /\ cur_choice \in ccache /\ byte_to_imgidx(cur_choice) = reloc_cursor
    /\ Relocate(cur_choice)
    /\ reloc_cursor' = reloc_img_advance
    /\ ccache_cursor' = IF reloc_cursor' = NoPx THEN choice_max + 1 ELSE cur_choice + 1
    /\ cur_choice' = 0 /\ NextPos
    /\ UNCHANGED img

\* Mutant: the choice that overshot is lost.
OvershootLosesChoice ==
    /\ Searching
    /\ cur_choice \in ccache /\ byte_to_imgidx(cur_choice) > reloc_cursor
    /\ reloc_cursor' = reloc_img_advance
    /\ EndOrNext
    /\ ccache_cursor' = cur_choice + 1
    /\ UNCHANGED <<place, ccache, img>>

(* The choice lies behind the pixel: the pixel cannot be filled, the same  *)
(* choice is tried for the next one.                                       *)
Overshoot ==
    /\ Searching
    /\ cur_choice \in ccache /\ byte_to_imgidx(cur_choice) > reloc_cursor
    /\ reloc_cursor' = reloc_img_advance
    /\ IF reloc_cursor' = NoPx
       THEN ccache_cursor' = choice_max + 1 /\ cur_choice' = 0 /\ NextPos
       ELSE UNCHANGED <<ccache_cursor, cur_choice, cur>>
    /\ UNCHANGED <<place, ccache, img>>

Next == InPlace \/ BeginSearch \/ Pass \/ Hit \/ Overshoot
=============================================================================
