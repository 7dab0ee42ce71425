---------------------------- MODULE ScatterTool ----------------------------
(***************************************************************************)
(* scattertool: move blocks to places drawn at random.  A draw that finds  *)
(* nothing free behind it is repeated a few times; then the cache is       *)
(* reloaded and the block stays.                                           *)
(***************************************************************************)
EXTENDS RelocBase

CONSTANTS
    MaxRefresh,     \* MAX_REFRESH
    MaxTries        \* draws per block, 11 in the code

VARIABLES tries, refresh_count

Init ==
    /\ BaseInit
    /\ tries = 0 /\ refresh_count = 0

(* frag_percent decides by lot that the block stays. *)
Spared ==
    /\ ~Done /\ tries = 0
    /\ NextPos
    /\ UNCHANGED <<place, ccache, tries, refresh_count>>

Draw(choice_base) ==
    /\ ~Done /\ tries < MaxTries
    /\ LET k == choice_find_avail(ccache, choice_base, 1)
       IN  IF k = -1
           THEN tries' = tries + 1 /\ UNCHANGED <<place, ccache, cur>>
           ELSE Relocate(k) /\ NextPos /\ tries' = 0
    /\ UNCHANGED refresh_count

GiveUp ==
    /\ ~Done /\ tries = MaxTries
    /\ IF refresh_count = MaxRefresh
       THEN UNCHANGED <<ccache, refresh_count>>
       ELSE ccache' = choice_alloc /\ refresh_count' = refresh_count + 1
    /\ NextPos
    /\ tries' = 0
    /\ UNCHANGED place

Next ==
    \/ Spared
    \/ \E b \in choice_min .. choice_max - 1 : Draw(b)
    \/ GiveUp
=============================================================================
