----------------------------- MODULE SmushTool -----------------------------
(***************************************************************************)
(* smushtool: move blocks towards the start of the device.  The search for *)
(* a choice resumes where the last one ended; a choice behind the          *)
(* threshold makes it reload the cache and raise the threshold.  The steps *)
(* are the rounds of the loop in choice_find.                              *)
(***************************************************************************)
EXTENDS RelocBase

CONSTANT MaxRefresh             \* MAX_REFRESH

VARIABLES ccache_cursor, ccache_cursor_threshold, refresh_count

Found == choice_find_avail(ccache, ccache_cursor, 1)

Init ==
    /\ BaseInit
    /\ ccache_cursor = choice_min
    /\ ccache_cursor_threshold = (choice_max + choice_min) \div 2
    /\ refresh_count = 0

(* Nothing is free from here on: the loop counts up to the end. *)
NotFound ==
    /\ ~Done /\ ccache_cursor <= choice_max
    /\ Found = -1
    /\ ccache_cursor' = ccache_cursor + 1
    /\ UNCHANGED <<basevars, ccache_cursor_threshold, refresh_count>>

\* Mutant: the threshold is not raised.
KeepsThreshold ==
    /\ ~Done /\ ccache_cursor <= choice_max
    /\ Found > ccache_cursor_threshold
    /\ ccache' = choice_alloc
    /\ refresh_count' = refresh_count
    /\ ccache_cursor' = choice_min + 1
    /\ UNCHANGED <<place, cur, ccache_cursor_threshold>>

(* A choice behind the threshold: cache_refresh puts the cursor back to    *)
(* the start, where halving the distance moves it no further, and the loop *)
(* goes on with the choice after it.                                       *)
TooFar ==
    /\ ~Done /\ ccache_cursor <= choice_max
    /\ Found > ccache_cursor_threshold
    /\ ccache' = choice_alloc
    /\ refresh_count' = refresh_count + 1
    /\ ccache_cursor_threshold' = ccache_cursor_threshold + ccache_cursor_threshold \div 2
    /\ ccache_cursor' = choice_min + 1
    /\ UNCHANGED <<place, cur>>

(* swap_rel_sel with the choice found: not if it lies behind the block. *)
Take ==
    /\ ~Done /\ ccache_cursor <= choice_max
    /\ Found \in 1 .. ccache_cursor_threshold
    /\ IF Found > place[cur]
       THEN ccache_cursor' = Found /\ UNCHANGED <<place, ccache>>
       ELSE Relocate(Found) /\ ccache_cursor' = Found + 1
    /\ NextPos
    /\ UNCHANGED <<ccache_cursor_threshold, refresh_count>>

(* The loop ran out of choices; the cache is reloaded for the next block. *)
GiveUp ==
    /\ ~Done /\ ccache_cursor > choice_max
    /\ IF refresh_count = MaxRefresh
       THEN UNCHANGED <<ccache, ccache_cursor, refresh_count>>
       ELSE /\ ccache' = choice_alloc
            /\ ccache_cursor' = choice_min
            /\ refresh_count' = refresh_count + 1
    /\ NextPos
    /\ UNCHANGED <<place, ccache_cursor_threshold>>

Next == NotFound \/ TooFar \/ Take \/ GiveUp
=============================================================================
