------------------------------ MODULE Relocate ------------------------------
(***************************************************************************)
(* Relocation of the blocks of a file (runtime/writepkt.c), with the write *)
(* packets of the ext2 description (fs/ext2.fsl): allocate a free block,   *)
(* copy the contents, make the file point to the copy, give the old block  *)
(* back.                                                                   *)
(*                                                                         *)
(* The device is a block bitmap, a count of free blocks per group, the     *)
(* pointers of one inode and the contents of the blocks.  The inode has    *)
(* NDir direct pointers and one pointer to an indirect block, whose cells  *)
(* point to NInd further blocks; the file's blocks are numbered            *)
(* 0 .. NDir+NInd, NDir being the indirect block itself.  Blocks in Others *)
(* belong to somebody else.                                                *)
(*                                                                         *)
(* The process may be killed between any two writes; what was written      *)
(* stays.  A later run of a tool starts from what it finds.                *)
(***************************************************************************)
EXTENDS Integers, Sequences, FiniteSets

CONSTANTS
    NBlk,           \* blocks 1 .. NBlk
    BlksPerGrp,     \* s_blks_per_grp
    BitAddOffset,   \* bit_add_offset(): 1 when blocks are larger than 1024 bytes
    NDir, NInd,     \* direct pointers of the inode, pointers in the indirect block
    Others,         \* blocks in use that this file does not own
    MaxEntries,     \* entries a write log holds: IO_MAX_ACCESS
    MaxKills        \* bound on the kills in a behaviour

ASSUME MaxEntriesAssumption == MaxEntries \in Nat \ {0}
ASSUME ShapeAssumption ==
    /\ NBlk \in Nat \ {0} /\ BlksPerGrp \in Nat \ {0} /\ BitAddOffset \in 0 .. 1
    /\ NDir \in Nat /\ NInd \in Nat \ {0}
    /\ Others \subseteq 1 .. NBlk
    /\ MaxKills \in Nat

VARIABLES
    bmp,            \* block bitmaps, by bitmap index: 1 = in use
    free_block_c,   \* free block count per group
    ino,            \* the inode's pointers; ino[NDir] is i_block_indir
    blk,            \* contents of the blocks, cell by cell
    pc,             \* where wpkt_relocate stands; "idle" between relocations
    sel, choice,    \* sel_idx and choice_idx of the relocation under way
    src, dst,       \* the blocks rel_sel_ti and replace_choice_ti were found at
    wlog,           \* io_wlog
    wlog_replace,   \* the stolen log
    pos,            \* entries of the log under commit issued, cells copied
    ccache,         \* the choice cache: blocks the tool believes free
    aborted,        \* an FSL_ASSERT failed
    kills           \* runs that were killed in the middle of a relocation

fsvars == <<bmp, free_block_c, ino, blk>>
logvars == <<wlog, wlog_replace>>
vars == <<fsvars, pc, sel, choice, src, dst, logvars, pos, ccache, aborted, kills>>

Blk   == 1 .. NBlk
Meta  == 0 .. NDir + NInd           \* positions in the file, "fmeta" of the description
Cell  == 0 .. NInd - 1

(* The bitmaps count from 1, block numbers from 0 on file systems with     *)
(* large blocks.  Block 0, the super block there, is never relocated.      *)
bn2bmpidx(b) == b + BitAddOffset
BmpIdx == {bn2bmpidx(b) : b \in Blk}

blknum_to_grp(i) == (i - 1) \div BlksPerGrp
Grp   == {blknum_to_grp(i) : i \in BmpIdx}

is_blk_avail(i) == bmp[i] = 0
Avail == {b \in Blk : is_blk_avail(bn2bmpidx(b))}

(* Contents: a data block holds its own tag in every cell, a block of      *)
(* somebody else its own number, the indirect block the pointers.          *)
DataTag(m)  == NBlk + 1 + m
OtherTag(b) == -b
Filler      == 0

get_nth_meta_blknum(m) ==
    IF m <= NDir THEN ino[m] ELSE blk[ino[NDir]][m - (NDir + 1)]

-----------------------------------------------------------------------------
(* The write log (runtime/log.c): the writes of a packet are collected     *)
(* first and reach the device when the log is committed, one at a time and *)
(* in the order they were added.  idx is -1 while the log is stopped and   *)
(* the number of its entries otherwise; write holds these entries (what an *)
(* earlier use left in the table behind them is never read and left out).  *)
(* Each operation comes with the condition its FSL_ASSERT checks.          *)

fsl_wlog_init == [idx |-> -1, write |-> <<>>]

StartOK(wl)        == wl.idx = -1
fsl_wlog_start(wl) == [wl EXCEPT !.idx = 0]

(* fsl_wlog_add for each of the writes wes of a packet. *)
AddOK(wl, wes)        == wl.idx >= 0 /\ wl.idx + Len(wes) <= MaxEntries
fsl_wlog_add(wl, wes) == [idx |-> wl.idx + Len(wes), write |-> wl.write \o wes]

(* The commit loop issues entry i+1 after i entries have been issued, and  *)
(* empties the log behind the last one.                                    *)
CommitOK(wl)      == wl.idx >= 0
Issued(wl, i)     == wl.write[i + 1]
CommitDone(wl, i) == i >= wl.idx
Emptied(wl)       == [idx |-> 0, write |-> <<>>]

StopOK(wl)        == wl.idx = 0
fsl_wlog_stop(wl) == [wl EXCEPT !.idx = -1]

(* fsl_io_steal_wlog: the entries move to another log, the log of the I/O  *)
(* handle is stopped and empty.                                            *)
fsl_wlog_copy(wl) == wl

-----------------------------------------------------------------------------
(* The write packets of ext2.fsl, evaluated on the device as it is. *)

Write(fld, at, cell, val) == [fld |-> fld, at |-> at, cell |-> cell, val |-> val]

block_alloc(i) ==
    LET g == blknum_to_grp(i)
    IN  << Write("bmp", i, 0, 1), Write("free", g, 0, free_block_c[g] - 1) >>

\* Mutant: the count is the one from before the allocation was committed.
ReplaceStaleCount(i) ==
    LET g     == blknum_to_grp(i)
        stale == IF blknum_to_grp(bn2bmpidx(choice)) = g THEN free_block_c[g] + 1
                                                         ELSE free_block_c[g]
    IN  << Write("bmp", i, 0, 0), Write("free", g, 0, stale + 1) >>

block_replace(i) ==
    LET g == blknum_to_grp(i)
    IN  << Write("bmp", i, 0, 0), Write("free", g, 0, free_block_c[g] + 1) >>

\* Mutant: the clause of the direct pointers is not restricted to them.
RelinkBothClauses(m, b) ==
    IF m <= NDir
    THEN << Write("ino", m, 0, b) >>
    ELSE << Write("blk", ino[NDir], m - (NDir + 1), b), Write("ino", m - (NDir + 1), 0, b) >>

block_relink_meta(m, b) ==
    IF m <= NDir
    THEN << Write("ino", m, 0, b) >>
    ELSE << Write("blk", ino[NDir], m - (NDir + 1), b) >>

(* fsl_io_write of one entry. *)
Apply(we) ==
    /\ bmp' = IF we.fld = "bmp" THEN [bmp EXCEPT ![we.at] = we.val] ELSE bmp
    /\ free_block_c' = IF we.fld = "free"
                       THEN [free_block_c EXCEPT ![we.at] = we.val] ELSE free_block_c
    /\ ino' = IF we.fld = "ino" THEN [ino EXCEPT ![we.at] = we.val] ELSE ino
    /\ blk' = IF we.fld = "blk" THEN [blk EXCEPT ![we.at][we.cell] = we.val] ELSE blk

-----------------------------------------------------------------------------
(* A consistent file system: an injective placement of the file's blocks. *)
Placement == {p \in [Meta -> Blk \ Others] : \A m, n \in Meta : m # n => p[m] # p[n]}

FreeIn(g) == Cardinality({b \in Avail : blknum_to_grp(bn2bmpidx(b)) = g})

InitFS(p) ==
    /\ bmp = [i \in BmpIdx |->
                IF \E b \in Others \union {p[m] : m \in Meta} : bn2bmpidx(b) = i THEN 1 ELSE 0]
    /\ free_block_c = [g \in Grp |-> Cardinality({b \in Blk :
            b \notin Others /\ (\A m \in Meta : p[m] # b) /\ blknum_to_grp(bn2bmpidx(b)) = g})]
    /\ ino = [i \in 0 .. NDir |-> p[i]]
    /\ blk = [b \in Blk |->
                IF b \in Others THEN [c \in Cell |-> OtherTag(b)]
                ELSE IF b = p[NDir] THEN [c \in Cell |-> p[NDir + 1 + c]]
                ELSE IF \E m \in Meta : p[m] = b
                     THEN [c \in Cell |-> DataTag(CHOOSE m \in Meta : p[m] = b)]
                     ELSE [c \in Cell |-> Filler]]

Init ==
    /\ \E p \in Placement : InitFS(p)
    /\ pc = "idle" /\ sel = 0 /\ choice = 0 /\ src = 0 /\ dst = 0 /\ pos = 0
    /\ wlog = fsl_wlog_init /\ wlog_replace = fsl_wlog_init
    /\ ccache = Avail
    /\ aborted = FALSE /\ kills = 0

(* choice_alloc: the tool loads the choice cache from the bitmap, at its   *)
(* start and whenever it refreshes it.                                     *)
choice_alloc ==
    /\ pc = "idle"
    /\ ccache' = Avail
    /\ UNCHANGED <<fsvars, pc, sel, choice, src, dst, logvars, pos, aborted, kills>>

(* wpkt_relocate(sel, choice), up to the commit of the allocation: both    *)
(* blocks are looked up, the allocation is logged.                         *)
Begin(m, c) ==
    /\ pc = "idle"
    /\ sel' = m /\ choice' = c
    /\ src' = get_nth_meta_blknum(m) /\ dst' = c
    /\ LET wes == block_alloc(bn2bmpidx(c))
       IN  /\ wlog' = fsl_wlog_add(fsl_wlog_start(wlog), wes)
           /\ aborted' = (aborted \/ ~StartOK(wlog) \/ ~AddOK(fsl_wlog_start(wlog), wes))
    /\ pc' = "alloc" /\ pos' = 0
    /\ UNCHANGED <<fsvars, wlog_replace, ccache, kills>>

\* Mutant: the loop over the entries does not advance.
CommitNoAdvance(wl) ==
    /\ ~CommitDone(wl, pos)
    /\ Apply(Issued(wl, pos))
    /\ pos' = pos

(* One write of the log under commit. *)
CommitStep(wl) ==
    /\ ~CommitDone(wl, pos)
    /\ Apply(Issued(wl, pos))
    /\ pos' = pos + 1

AllocWrite ==
    /\ pc = "alloc"
    /\ CommitStep(wlog)
    /\ UNCHANGED <<pc, sel, choice, src, dst, logvars, ccache, aborted, kills>>

AllocComplete ==
    /\ pc = "alloc"
    /\ CommitDone(wlog, pos)
    /\ wlog' = fsl_wlog_stop(Emptied(wlog))
    /\ aborted' = (aborted \/ ~CommitOK(wlog) \/ ~StopOK(Emptied(wlog)))
    /\ pc' = "copy" /\ pos' = 0
    /\ UNCHANGED <<fsvars, sel, choice, src, dst, wlog_replace, ccache, kills>>

(* typeinfo_phys_copy moves the contents piece by piece. *)
typeinfo_phys_copy ==
    /\ pc = "copy"
    /\ pos < NInd
    /\ blk' = [blk EXCEPT ![dst][pos] = blk[src][pos]]
    /\ pos' = pos + 1
    /\ UNCHANGED <<bmp, free_block_c, ino, pc, sel, choice, src, dst, logvars, ccache, aborted, kills>>

\* Mutant: the packet frees the choice.
StealFreesChoice ==
    /\ pc = "copy"
    /\ pos = NInd
    /\ wlog_replace' = fsl_wlog_copy(fsl_wlog_add(fsl_wlog_start(wlog), block_replace(bn2bmpidx(choice))))
    /\ wlog' = fsl_wlog_init
    /\ pc' = "stolen" /\ pos' = 0
    /\ UNCHANGED <<fsvars, sel, choice, src, dst, ccache, aborted, kills>>

(* The packet that frees the old block is computed now, from the values    *)
(* before the relink, and put aside.                                       *)
StealReplace ==
    /\ pc = "copy"
    /\ pos = NInd
    /\ LET wes == block_replace(bn2bmpidx(get_nth_meta_blknum(sel)))
       IN  /\ wlog_replace' = fsl_wlog_copy(fsl_wlog_add(fsl_wlog_start(wlog), wes))
           /\ aborted' = (aborted \/ ~StartOK(wlog) \/ ~AddOK(fsl_wlog_start(wlog), wes))
    /\ wlog' = fsl_wlog_init
    /\ pc' = "stolen" /\ pos' = 0
    /\ UNCHANGED <<fsvars, sel, choice, src, dst, ccache, kills>>

LogRelink ==
    /\ pc = "stolen"
    /\ LET wes == block_relink_meta(sel, choice)
       IN  /\ wlog' = fsl_wlog_add(fsl_wlog_start(wlog), wes)
           /\ aborted' = (aborted \/ ~StartOK(wlog) \/ ~AddOK(fsl_wlog_start(wlog), wes))
    /\ pc' = "relink"
    /\ UNCHANGED <<fsvars, sel, choice, src, dst, wlog_replace, pos, ccache, kills>>

RelinkWrite ==
    /\ pc = "relink"
    /\ CommitStep(wlog)
    /\ UNCHANGED <<pc, sel, choice, src, dst, logvars, ccache, aborted, kills>>

RelinkComplete ==
    /\ pc = "relink"
    /\ CommitDone(wlog, pos)
    /\ wlog' = fsl_wlog_stop(Emptied(wlog))
    /\ aborted' = (aborted \/ ~CommitOK(wlog) \/ ~StopOK(Emptied(wlog)))
    /\ pc' = "replace" /\ pos' = 0
    /\ UNCHANGED <<fsvars, sel, choice, src, dst, wlog_replace, ccache, kills>>

ReplaceWrite ==
    /\ pc = "replace"
    /\ CommitStep(wlog_replace)
    /\ UNCHANGED <<pc, sel, choice, src, dst, logvars, ccache, aborted, kills>>

(* wpkt_relocate returns and the tool marks the block as taken. *)
choice_mark_alloc ==
    /\ pc = "replace"
    /\ CommitDone(wlog_replace, pos)
    /\ aborted' = (aborted \/ ~CommitOK(wlog_replace))
    /\ wlog_replace' = fsl_wlog_init
    /\ ccache' = ccache \ {choice}
    /\ pc' = "idle" /\ pos' = 0 /\ sel' = 0 /\ choice' = 0 /\ src' = 0 /\ dst' = 0
    /\ UNCHANGED <<fsvars, wlog, kills>>

(* The process is killed; the next one opens the device afresh. *)
Kill ==
    /\ pc # "idle"
    /\ kills < MaxKills
    /\ kills' = kills + 1
    /\ wlog' = fsl_wlog_init /\ wlog_replace' = fsl_wlog_init
    /\ pc' = "idle" /\ pos' = 0 /\ sel' = 0 /\ choice' = 0 /\ src' = 0 /\ dst' = 0
    /\ ccache' = Avail
    /\ UNCHANGED <<fsvars, aborted>>

(* The tools hand wpkt_relocate a block their choice cache calls free. *)
wpkt_relocate ==
    \/ AllocWrite \/ AllocComplete \/ typeinfo_phys_copy \/ StealReplace
    \/ LogRelink \/ RelinkWrite \/ RelinkComplete \/ ReplaceWrite \/ choice_mark_alloc

Next ==
    \/ choice_alloc
    \/ \E m \in Meta : \E c \in ccache : Begin(m, c)
    \/ wpkt_relocate
    \/ Kill

Spec == Init /\ [][Next]_vars /\ WF_vars(wpkt_relocate)

-----------------------------------------------------------------------------
(* No block the file refers to is ever marked free, wherever a relocation  *)
(* stands and wherever it is killed: the new block is marked before it is  *)
(* linked, the old one is freed after it is unlinked.  The worst a kill    *)
(* leaves behind is a block marked in use that nobody refers to.           *)
RefsAllocated == \A m \in Meta : get_nth_meta_blknum(m) \notin Avail

(* No two positions of the file, and no position and another owner, ever   *)
(* share a block.                                                          *)
NoSharing ==
    /\ \A m, n \in Meta : m # n => get_nth_meta_blknum(m) # get_nth_meta_blknum(n)
    /\ \A m \in Meta : get_nth_meta_blknum(m) \notin Others

(* The contents of the file read through its pointers never change, and    *)
(* neither do the blocks of others.                                        *)
DataIntact ==
    /\ \A m \in Meta \ {NDir}, c \in Cell : blk[get_nth_meta_blknum(m)][c] = DataTag(m)
    /\ \A b \in Others, c \in Cell : b \notin Avail /\ blk[b][c] = OtherTag(b)

(* At every moment, in the middle of a relocation and after a kill: all    *)
(* the file refers to is allocated, nothing is shared, the contents are    *)
(* the ones there were.                                                    *)
FileIntact == RefsAllocated /\ NoSharing /\ DataIntact

(* Between relocations what the tool thinks free is free on the device, so *)
(* that what it hands to the next relocation is.  As long as no run was    *)
(* killed, the group descriptors count the free blocks of the bitmap and   *)
(* no block is lost: the freeing packet saw the count the allocation left. *)
CountsAtRest ==
    pc = "idle" =>
        /\ ccache \subseteq Avail
        /\ kills = 0 =>
              /\ \A g \in Grp : free_block_c[g] = FreeIn(g)
              /\ Blk \ Avail = Others \union {get_nth_meta_blknum(m) : m \in Meta}

(* A relocation that is not killed comes to its end, and no assertion of   *)
(* the log fails on the way: it is started when stopped, stopped when      *)
(* empty, never fuller than its table.                                     *)
Finishes == (pc # "idle" ~> pc = "idle") /\ []~aborted

(* Every write of a relocation, killed or not, is a step of BlockMap or    *)
(* none: it reserves a free block, moves one position to a reserved block  *)
(* nobody is on, or releases a block nobody is on; no other write can be   *)
(* seen in the placement, and none in the contents.                        *)
Map == INSTANCE BlockMap WITH
    Pos <- Meta, Blocks <- Blk, Foreign <- Others,
    place <- [m \in Meta |-> get_nth_meta_blknum(m)],
    used <- Blk \ Avail,
    data <- [m \in Meta \ {NDir} |-> blk[get_nth_meta_blknum(m)]]
MovesSafely == Map!MapSpec
=============================================================================
