------------------------------- MODULE Tools -------------------------------
(***************************************************************************)
(* One run of a relocation tool on a file system: smush, thrashcopy,       *)
(* scatter, defrag or the image relocator.  The tools share the files and  *)
(* the choice cache of RelocBase and have static variables of their own;   *)
(* those of the other tools stay at their initial values.                  *)
(***************************************************************************)
EXTENDS RelocBase

CONSTANTS
    MaxRefresh,     \* MAX_REFRESH
    MaxTries,       \* draws per block in scatter, 11 in the code
    BlksPerPx,      \* blocks to a pixel of the image
    Places          \* per tool, the placements of the files it may find

ASSUME ToolsAssumption ==
    /\ MaxRefresh \in Nat /\ MaxTries \in Nat \ {0} /\ BlksPerPx \in Nat \ {0}
    /\ NBlk > 1                 \* FSL_RAND() % (choice_max - choice_min)

VARIABLES
    tool,                                       \* the tool that runs
    ccache_cursor,                              \* all but scatter
    ccache_cursor_threshold,                    \* smush
    refresh_count,                              \* smush, thrashcopy, scatter
    tries,                                      \* scatter
    moving, cc_begin,                           \* defrag
    img, reloc_cursor, cur_choice               \* image

defragvars == <<moving, cc_begin>>
imagevars == <<img, reloc_cursor, cur_choice>>
vars == <<basevars, tool, ccache_cursor, ccache_cursor_threshold, refresh_count,
          tries, defragvars, imagevars>>

Smush == INSTANCE SmushTool
Thrash == INSTANCE ThrashTool
Scatter == INSTANCE ScatterTool
Defrag == INSTANCE DefragTool
Image == INSTANCE ImageTool

NoDefrag == moving = FALSE /\ cc_begin = 0
NoImage  == img = {} /\ reloc_cursor = 0 /\ cur_choice = 0

(* Which tool is run, on which file system. *)
Start(t) == tool = t /\ place \in Places[t]

Init ==
    \/ /\ Start("smush") /\ Smush!Init
       /\ tries = 0 /\ NoDefrag /\ NoImage
    \/ /\ Start("thrash") /\ Thrash!Init
       /\ ccache_cursor_threshold = 0 /\ tries = 0 /\ NoDefrag /\ NoImage
    \/ /\ Start("scatter") /\ Scatter!Init
       /\ ccache_cursor = 0 /\ ccache_cursor_threshold = 0 /\ NoDefrag /\ NoImage
    \/ /\ Start("defrag") /\ Defrag!Init
       /\ ccache_cursor_threshold = 0 /\ refresh_count = 0 /\ tries = 0 /\ NoImage
    \/ /\ Start("image") /\ Image!Init
       /\ ccache_cursor_threshold = 0 /\ refresh_count = 0 /\ tries = 0 /\ NoDefrag

SmushStep ==
    /\ tool = "smush" /\ Smush!Next
    /\ UNCHANGED <<tool, tries, defragvars, imagevars>>

ThrashStep ==
    /\ tool = "thrash" /\ Thrash!Next
    /\ UNCHANGED <<tool, ccache_cursor_threshold, tries, defragvars, imagevars>>

ScatterStep ==
    /\ tool = "scatter" /\ Scatter!Next
    /\ UNCHANGED <<tool, ccache_cursor, ccache_cursor_threshold, defragvars, imagevars>>

DefragStep ==
    /\ tool = "defrag" /\ Defrag!Next
    /\ UNCHANGED <<tool, ccache_cursor_threshold, refresh_count, tries, imagevars>>

ImageStep ==
    /\ tool = "image" /\ Image!Next
    /\ UNCHANGED <<tool, ccache_cursor_threshold, refresh_count, tries, defragvars>>

Finished == Done /\ UNCHANGED vars

Next == SmushStep \/ ThrashStep \/ ScatterStep \/ DefragStep \/ ImageStep \/ Finished
Spec == Init /\ [][Next]_vars /\ WF_vars(Next)

-----------------------------------------------------------------------------
(* Every tool: the choice cache lags behind the device in one direction    *)
(* only.  It never offers a block that is in use, though it learns of      *)
(* freed blocks only when it is reloaded.  So no block is ever put where   *)
(* something lives, and what defrag asserts holds (defragtool.c,           *)
(* FSL_ASSERT (choice_is_free(ccache, (cc_begin+i)))): the run it found    *)
(* stays free while the file moves into it, and its cursor stays in the    *)
(* bounds that choice_find_avail asserts.                                  *)
OffersFree ==
    /\ ccache \subseteq Free
    /\ NoOverlap
    /\ tool = "defrag" =>
          /\ moving => Defrag!Target \in ccache
          /\ ~Done => ccache_cursor \in choice_min .. choice_max

Moved == {s \in Sel : place'[s] # place[s]}

(* defrag: a file that was in one piece stays in one piece; one that was   *)
(* moved is in one piece when the tool turns to the next.                  *)
NeverWorse ==
    \A f \in Defrag!Files :
        LET current == f = Defrag!File(cur)
        IN  /\ ~Defrag!is_fragmented(f) /\ ~(moving /\ current) => ~Defrag!is_fragmented(f)'
            /\ moving /\ ~moving' /\ current => ~Defrag!is_fragmented(f)'

(* Every tool moves blocks only where it says it does.  smush, "try to     *)
(* smush as close to the top as possible": towards the start; thrashcopy,  *)
(* "always more toward end of disk": towards the end; image: from unmarked *)
(* pixels to marked ones; defrag: no file comes apart.                     *)
MovesAsTold ==
    [][/\ tool = "smush" => \A s \in Moved : place'[s] < place[s]
       /\ tool = "thrash" => \A s \in Moved : place'[s] > place[s]
       /\ tool = "image" => \A s \in Moved : /\ Image!byte_to_imgidx(place[s]) \notin img
                                             /\ Image!byte_to_imgidx(place'[s]) \in img
       /\ tool = "defrag" => NeverWorse]_vars

(* A tool gives up only what it cannot do.  image passes over a pixel only *)
(* when no block of it is free, so its two cursors never run past a choice *)
(* they could have used; defrag leaves a file in pieces only when no run   *)
(* of choices is long enough.                                              *)
GivesUpOnlyFull ==
    [][/\ tool = "image" /\ reloc_cursor' # reloc_cursor /\ place' = place =>
             \A b \in ccache : Image!byte_to_imgidx(b) # reloc_cursor
       /\ tool = "defrag" /\ ~moving /\ cur' > cur /\ Defrag!is_fragmented(Defrag!File(cur)) =>
             \A k \in Blk : ~(k .. k + Defrag!sel_count - 1 \subseteq ccache)]_vars

(* Every tool comes to an end, whatever the free map, the draws and the    *)
(* image: every return of a cursor is paid for by a counter or by the      *)
(* threshold.                                                              *)
Terminates == <>Done

(* Every step of every tool is a Move of BlockMap or moves nothing, so a   *)
(* tool does only what Relocate does write by write: it never moves two    *)
(* positions at once, or to a block in use.                                *)
Map == INSTANCE BlockMap WITH
    Pos <- Sel, Blocks <- Blk, Foreign <- Others, used <- Used(place), data <- Sel
StepsAreMoves == Map!MapSpec

-----------------------------------------------------------------------------
(* The instance for TLC: a file of three blocks and one of two. *)
MCSizes == <<3, 2>>

(* The blocks of each file in order, the files interleaved in every way. *)
InOrder ==
    {p \in [1 .. 5 -> Blk \ Others] :
        /\ p[1] < p[2] /\ p[2] < p[3] /\ p[4] < p[5]
        /\ {p[1], p[2], p[3]} \intersect {p[4], p[5]} = {}}

(* All blocks in order. *)
Sorted == {p \in InOrder : p[3] < p[4]}

(* One run of blocks; scatter leads from it to the others. *)
Compact == {p \in Sorted : p[5] = p[1] + 4}

MCPlaces ==
    [smush |-> InOrder, thrash |-> InOrder, defrag |-> InOrder,
     image |-> Sorted, scatter |-> Compact]
=============================================================================
