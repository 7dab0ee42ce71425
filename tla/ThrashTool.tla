----------------------------- MODULE ThrashTool -----------------------------
(***************************************************************************)
(* thrashcopy: move blocks towards the end of the device.  The cursor of   *)
(* the search runs down from the last choice and stays on the choice it    *)
(* found.                                                                  *)
(***************************************************************************)
EXTENDS RelocBase

CONSTANT MaxRefresh             \* MAX_REFRESH

VARIABLES ccache_cursor, refresh_count

Searching == ~Done /\ refresh_count # MaxRefresh

Init ==
    /\ BaseInit
    /\ ccache_cursor = choice_max
    /\ refresh_count = 0

NotFree ==
    /\ Searching /\ ccache_cursor >= choice_min
    /\ ccache_cursor \notin ccache
    /\ ccache_cursor' = ccache_cursor - 1
    /\ UNCHANGED <<basevars, refresh_count>>

(* swap_rel_sel: "always more toward end of disk". *)
Take ==
    /\ Searching /\ ccache_cursor >= choice_min
    /\ ccache_cursor \in ccache
    /\ IF place[cur] >= ccache_cursor
       THEN UNCHANGED <<place, ccache>>
       ELSE Relocate(ccache_cursor)
    /\ NextPos
    /\ UNCHANGED <<ccache_cursor, refresh_count>>

GiveUp ==
    /\ Searching /\ ccache_cursor < choice_min
    /\ ccache' = choice_alloc
    /\ ccache_cursor' = choice_max
    /\ refresh_count' = refresh_count + 1
    /\ NextPos
    /\ UNCHANGED place

(* The cache was reloaded often enough: nothing is moved any more. *)
NoMoreMoves ==
    /\ ~Done /\ refresh_count = MaxRefresh
    /\ NextPos
    /\ UNCHANGED <<place, ccache, ccache_cursor, refresh_count>>

Next == NotFree \/ Take \/ GiveUp \/ NoMoreMoves
=============================================================================
