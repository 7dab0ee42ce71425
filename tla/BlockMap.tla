------------------------------ MODULE BlockMap ------------------------------
(***************************************************************************)
(* What a relocation promises, without the log, the cache and the order of *)
(* the writes: files are positions placed on blocks of a device.  A block  *)
(* is reserved before a position moves to it and released only when none   *)
(* is on it; what a position holds never changes.  A relocation seen as    *)
(* one step is a Move; taken apart it is Reserve, Point and Release, and   *)
(* one that is killed leaves at worst a reserved block.                    *)
(***************************************************************************)
CONSTANTS
    Pos,            \* the positions of the files
    Blocks,         \* the blocks of the device
    Foreign         \* blocks of somebody else

VARIABLES
    place,          \* the block of each position
    used,           \* the blocks that are not offered
    data            \* what is read at each position

mapVars == <<place, used, data>>

Referred == Foreign \union {place[p] : p \in Pos}

MapInit ==
    /\ place \in [Pos -> Blocks \ Foreign]
    /\ \A p, q \in Pos : p # q => place[p] # place[q]
    /\ used = Referred

Reserve(b) ==
    /\ b \notin used
    /\ used' = used \union {b} /\ UNCHANGED <<place, data>>

Point(p, b) ==
    /\ b \in used \ Referred
    /\ place' = [place EXCEPT ![p] = b] /\ UNCHANGED <<used, data>>

Release(b) ==
    /\ b \in used \ Referred
    /\ used' = used \ {b} /\ UNCHANGED <<place, data>>

Move(p, b) ==
    /\ b \notin used
    /\ place' = [place EXCEPT ![p] = b]
    /\ used' = (used \ {place[p]}) \union {b} /\ UNCHANGED data

MapNext ==
    \E b \in Blocks :
        \/ Reserve(b) \/ Release(b)
        \/ \E p \in Pos : Point(p, b) \/ Move(p, b)

MapSpec == MapInit /\ [][MapNext]_mapVars
=============================================================================
