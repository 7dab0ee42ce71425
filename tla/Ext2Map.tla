------------------------------ MODULE Ext2Map ------------------------------
(***************************************************************************)
(* How the ext2 description (fs/ext2.fsl, fs/ext2_func.fsl) numbers the    *)
(* blocks of a file, and which pointer its relink packets write.           *)
(*                                                                         *)
(* A block of a file is named by the place of the pointer to it: a direct  *)
(* pointer of the inode, a cell of the indirect block, and so on.  The     *)
(* functions that look a block up and the packets that relink it compute   *)
(* this place separately; a relocation is right only when they agree.      *)
(*                                                                         *)
(* The tools walk the positions j = 1 .. count of a relocation: "reloc"    *)
(* goes over the data blocks, "defrag" over data and indirect blocks in    *)
(* the order a reader meets them.                                          *)
(***************************************************************************)
EXTENDS Integers, FiniteSets

CONSTANTS
    NDir,           \* EXT2_NDIR_BLOCKS
    Bpi,            \* blocks_per_indir()
    MaxBlocks,      \* bound on the blocks of a file
    Width           \* integers wrap at this value

ASSUME MapAssumption ==
    /\ NDir \in Nat \ {0} /\ Bpi \in Nat \ {0}
    /\ MaxBlocks \in 1 .. NDir + Bpi + Bpi * Bpi - 1     \* no triple indirection
    /\ Width \in Nat /\ Width > 2 * (NDir + Bpi + 2) * (Bpi + 2)

VARIABLES
    nblks,          \* size_to_blocks(i_size) of the inode under relocation
    rel,            \* the relocation of the inode the tool runs
    j               \* its loop variable

vars == <<nblks, rel, j>>

(* A place of a pointer: the table, the indirect block the table belongs   *)
(* to, and the cell.                                                       *)
Place(table, outer, cell) == <<table, outer, cell>>
Direct(i)     == Place("i_block_direct", 0, i)
Indir         == Place("i_block_indir", 0, 0)
InIndir(k)    == Place("indir", 0, k)
BiIndir       == Place("i_block_biindir", 0, 0)
InBi(q)       == Place("biindir", 0, q)
InBiIndir(q, k) == Place("indir_in_bi", q, k)
Nowhere       == Place("none", 0, 0)        \* the description's error values

Wrap(x) == x % Width
Error   == Width - 1                        \* and its error numbers

-----------------------------------------------------------------------------
(* Looking blocks up. *)

bi_index(n)             == Wrap(n - (NDir + Bpi)) \div Bpi
biindir_indir_offset(n) == Wrap(n - (NDir + Bpi)) % Bpi

ext2_indir_in_bi_lookupblk(n) == InBi(bi_index(n))

get_nth_blknum(n) ==
    IF n < NDir THEN Direct(n)
    ELSE IF n < NDir + Bpi THEN InIndir(n - NDir)
    ELSE IF n < Bpi * Bpi + NDir + Bpi THEN InBiIndir(bi_index(n), biindir_indir_offset(n))
    ELSE Nowhere

\* Mutant: the indirect block itself is not taken out of the count.
NthMetaKeepsIndir(n) ==
    IF n # NDir THEN get_nth_blknum(n) ELSE Indir

get_nth_meta_blknum(n) ==
    LET left == n - (NDir + 1)          \* blocks behind the indirect block
        bi   == left - (Bpi + 1)        \* blocks behind the double indirect one
        nth  == n - 2 - (bi \div Bpi + 1)
    IN  IF n < NDir THEN get_nth_blknum(n)
        ELSE IF n = NDir THEN Indir
        ELSE IF left < Bpi THEN get_nth_blknum(n - 1)
        ELSE IF left = Bpi THEN BiIndir
        ELSE IF bi >= Bpi + Bpi * Bpi THEN Nowhere
        ELSE IF bi % Bpi = 0 THEN ext2_indir_in_bi_lookupblk(nth)
        ELSE get_nth_blknum(nth)

size_to_metablocks(nb) ==
    LET bi == nb - NDir - Bpi
    IN  IF nb <= NDir THEN 0
        ELSE IF nb - NDir < Bpi THEN 1
        ELSE IF bi < Bpi * Bpi THEN 2 + (bi \div Bpi + 1)
        ELSE Error

-----------------------------------------------------------------------------
(* The places the relink packets write, one per clause whose condition     *)
(* holds.                                                                  *)

When(cond, place) == IF cond THEN {place} ELSE {}

ext2_block_relink(n) ==
    When(n < NDir, Direct(n))
    \union When(n >= NDir /\ n < Bpi + NDir, InIndir(n - NDir))
    \union When(n >= Bpi + NDir /\ n < Bpi * Bpi + NDir + Bpi,
                InBiIndir(bi_index(n), biindir_indir_offset(n)))

is_fmeta_meta(n) ==
    LET left == n - (NDir + 1)
        bi   == left - (Bpi + 1)
    IN  \/ n = NDir
        \/ n > NDir /\ left = Bpi
        \/ n > NDir /\ left > Bpi /\ bi <= Bpi * Bpi + Bpi /\ bi % (Bpi + 1) = 0

fmeta_to_fblk(n) ==
    LET m == Wrap(n - 1 - (Bpi + 1))
    IN  IF is_fmeta_meta(n) THEN Error
        ELSE IF n < NDir THEN n
        ELSE IF n - 1 < Bpi THEN n - 1
        ELSE IF m > Bpi * Bpi + Bpi THEN Error
        ELSE Wrap(m - (m \div Bpi + 1))

block_relink_meta(n) ==
    LET bi == NDir + 1 + Bpi
    IN  When(n < NDir, Direct(n))
        \union When(n = NDir, Indir)
        \union When(n > NDir /\ n < bi, InIndir(n - (NDir + 1)))
        \union When(n = bi, BiIndir)
        \union When(n > bi /\ is_fmeta_meta(n), InBi((n - (bi + 1)) \div Bpi))
        \union When(n > bi /\ ~is_fmeta_meta(n),
                    InBiIndir(bi_index(fmeta_to_fblk(n)),
                              biindir_indir_offset(fmeta_to_fblk(n))))

-----------------------------------------------------------------------------
(* The relocations of ext2_inode: how many positions, which block each     *)
(* selects, which pointers it relinks.                                     *)
it_max   == nblks + (IF rel = "defrag" THEN size_to_metablocks(nblks) ELSE 0)
Nth(i)   == IF rel = "defrag" THEN get_nth_meta_blknum(i - 1) ELSE get_nth_blknum(i - 1)
Selected == Nth(j)
Relinked == IF rel = "defrag" THEN block_relink_meta(j - 1) ELSE ext2_block_relink(j - 1)

Init ==
    /\ nblks \in 1 .. MaxBlocks
    /\ rel \in {"defrag", "reloc"}
    /\ j = 1

(* The tools go over the positions in order. *)
NextSel ==
    /\ j < it_max
    /\ j' = j + 1
    /\ UNCHANGED <<nblks, rel>>

(* The scan meets the next inode. *)
NextInode ==
    /\ j = it_max
    /\ \E n \in 1 .. MaxBlocks : nblks' = n
    /\ j' = 1
    /\ UNCHANGED rel

Next == NextSel \/ NextInode
Spec == Init /\ [][Next]_vars

-----------------------------------------------------------------------------
(* Reference: the pointers of a file of n blocks, those to its data and    *)
(* those to the indirect blocks its data need.                             *)
DataBlocks(n) ==
    {Direct(i) : i \in {i \in 0 .. NDir - 1 : i < n}}
    \union {InIndir(k) : k \in {k \in 0 .. Bpi - 1 : NDir + k < n}}
    \union {InBiIndir(c[1], c[2]) :
               c \in {c \in (0 .. Bpi - 1) \X (0 .. Bpi - 1) : NDir + Bpi + c[1] * Bpi + c[2] < n}}

Meta(n) ==
    When(NDir < n, Indir) \union When(NDir + Bpi < n, BiIndir)
    \union {InBi(q) : q \in {q \in 0 .. Bpi - 1 : NDir + Bpi + q * Bpi < n}}

Pointers(n) == DataBlocks(n) \union Meta(n)

(* A reader of the file meets them table by table, an indirect block       *)
(* before what it points to.                                               *)
Rank(p) ==
    CASE p[1] = "i_block_direct"  -> <<0, 0, p[3]>>
      [] p[1] = "i_block_indir"   -> <<1, 0, 0>>
      [] p[1] = "indir"           -> <<2, 0, p[3]>>
      [] p[1] = "i_block_biindir" -> <<3, 0, 0>>
      [] p[1] = "biindir"         -> <<4, p[3], 0>>
      [] p[1] = "indir_in_bi"     -> <<4, p[2], p[3] + 1>>

Before(p, q) ==
    LET a == Rank(p)
        b == Rank(q)
    IN  \/ a[1] < b[1]
        \/ a[1] = b[1] /\ a[2] < b[2]
        \/ a[1] = b[1] /\ a[2] = b[2] /\ a[3] < b[3]

(* The tool has met the pointers of a set up to the one it is at, each     *)
(* once, and at its last position all of them.                             *)
GoesOver(S) ==
    /\ {Nth(i) : i \in 1 .. j} = {p \in S : p = Selected \/ Before(p, Selected)}
    /\ \A i \in 1 .. j - 1 : Nth(i) # Selected
    /\ j = it_max => \A p \in S : \E i \in 1 .. j : Nth(i) = p

(* get_nth_blknum finds the blocks of a file in their order, also behind   *)
(* the double indirect block.                                              *)
DataInOrder == rel = "reloc" => GoesOver(DataBlocks(nblks))

(* As long as a file needs no double indirect block and does not fill the  *)
(* indirect one, defrag goes over its pointers in order, all and no other. *)
(* At NDir + Bpi blocks size_to_metablocks counts 3 where 1 is there.      *)
MetaInOrder ==
    rel = "defrag" /\ nblks < NDir + Bpi => GoesOver(Pointers(nblks))

(* The pointer a relocation rewrites is the one its block was found by:    *)
(* always for reloc, for defrag in files that need no double indirection.  *)
RelinksSelected ==
    rel = "reloc" \/ nblks < NDir + Bpi => Relinked = {Selected}

(* The three functions of the description that count blocks agree: lookup  *)
(* goes over the pointers of a file in its order, and the packet rewrites  *)
(* the pointer lookup found.                                               *)
MapExact == DataInOrder /\ MetaInOrder /\ RelinksSelected

(* wpkt_relocate: "relink newly allocated into rel_sel_ti reference", for  *)
(* every block a file has, indirect ones included.                         *)
RelinksEverySelected == j <= Cardinality(Pointers(nblks)) => Relinked = {Selected}
=============================================================================
