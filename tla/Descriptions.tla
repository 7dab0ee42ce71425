---------------------------- MODULE Descriptions ----------------------------
(***************************************************************************)
(* The file-system descriptions: a behaviour is one of the ext2 block      *)
(* mapping (Ext2Map) or one of a FAT volume (Vfat).                        *)
(***************************************************************************)
EXTENDS Ext2Map, Vfat, TLC

(* A volume has entries of every kind anywhere, and numbers of 16 bits. *)
ASSUME VfatAssumption ==
    /\ NClus \in Nat \ {0} /\ FatCount \in Nat \ {0} /\ DeC \in Nat \ {0} /\ RootC \in Nat
    /\ Bpc \in Nat \ {0} /\ LogEntries \in Nat
    /\ \A v \in Volumes : IsVolume(v)

(* Files lie apart, and a directory begins with '.' and '..'; one that was *)
(* not damaged is sound and has what is wanted.                            *)
ASSUME ContentAssumption ==
    /\ DeC > 1
    /\ \A v \in Volumes :
          /\ Unshared(v) /\ InOrder(v) /\ Dotted(v)
          /\ v.hurt \/ (SoundOf(v) /\ Fits(v) /\ NamesOf(v) = Wanted(v.want))

(* Before a tool runs '.' and '..' are right. *)
ASSUME DotsAssumption == \A v \in Volumes : Shallow(v) /\ DotsFit(v)

VARIABLE part

descVars == <<part, vars, vfv>>

DescInit ==
    /\ part \in {"ext2", "vfat"}
    /\ Init /\ (part = "vfat" => nblks = 1 /\ rel = "reloc")
    /\ VfatInit

DescNext ==
    /\ UNCHANGED part
    /\ \/ part = "ext2" /\ Next /\ UNCHANGED vfv
       \/ part = "vfat" /\ VfatNext /\ UNCHANGED vars

DescSpec == DescInit /\ [][DescNext]_descVars

-----------------------------------------------------------------------------
(* Volumes for TLC.  They have a file F of two clusters and a directory D  *)
(* of two, with a subdirectory S1 in its first cluster and S2 in its last. *)
Entry(k, nm, cn, sz) == [k |-> k, nm |-> nm, cn |-> cn, sz |-> sz]
None == Entry("none", "", 0, 0)

Slots(f) == [s \in 0 .. DeC - 1 |-> IF s \in DOMAIN f THEN f[s] ELSE None]
DirAt(c, up, f) ==
    Slots([s \in {0, 1} \cup DOMAIN f |->
        IF s = 0 THEN Entry("dot", "", c, 0) ELSE IF s = 1 THEN Entry("dotdot", "", up, 0) ELSE f[s]])
FileAt(nm, i) == [s \in 0 .. DeC - 1 |-> Entry("data", nm, i, 0)]

Fat(f) == [c \in 0 .. NClus + 1 |-> IF c < 2 THEN Eof ELSE IF c \in DOMAIN f THEN f[c] ELSE 0]

BaseFat == [c \in 2 .. 7 |-> IF c \in {2, 4} THEN c + 1 ELSE Eof]
BaseRoot == [s \in 0 .. RootC - 1 |->
    IF s = 0 THEN Entry("file", "F", 2, 3) ELSE IF s = 1 THEN Entry("dir", "D", 4, 0) ELSE None]
BaseBlk(D1, c8, c9) == [c \in 2 .. NClus + 1 |->
    CASE c \in {2, 3} -> FileAt("F", c - 1)
      [] c = 4 -> DirAt(4, 0, D1)
      [] c = 5 -> Slots([s \in {2} |-> Entry("dir", "S2", 7, 0)])
      [] c \in {6, 7} -> DirAt(c, 4, <<>>)
      [] c = 8 -> c8
      [] c = 9 -> c9
      [] OTHER -> Slots(<<>>)]
BaseWant == [nm \in {"F", "D", "S1", "S2"} |-> IF nm = "F" THEN 3 ELSE 0]

S1At == [s \in {2} |-> Entry("dir", "S1", 6, 0)]

(* No removed directory; one removed; a third subdirectory and a removed   *)
(* one, more than a log holds; F's chain leading out of the volume, by a   *)
(* number fsck repairs and one it does not; and F beginning outside.       *)
Plain == [fat |-> Fat(BaseFat), root |-> BaseRoot, blk |-> BaseBlk(S1At, Slots(<<>>), Slots(<<>>)),
          hurt |-> FALSE, want |-> BaseWant]
WithRemoved == [Plain EXCEPT !.blk =
    BaseBlk(S1At @@ [s \in {3} |-> Entry("deldir", "R", 8, 0)], DirAt(8, 4, <<>>), Slots(<<>>))]
Full == [fat |-> Fat([c \in {9} |-> Eof] @@ BaseFat), root |-> BaseRoot,
         blk |-> BaseBlk(S1At @@ [s \in {3} |-> Entry("dir", "S3", 9, 0)]
                              @@ [s \in {4} |-> Entry("deldir", "R", 8, 0)],
                         DirAt(8, 4, <<>>), DirAt(9, 4, <<>>)),
         hurt |-> FALSE, want |-> [nm \in {"S3"} |-> 0] @@ BaseWant]
Damaged(v) == [Plain EXCEPT !.fat[2] = v, !.hurt = TRUE]

Strayed == [Plain EXCEPT !.root[0].cn = NClus + 2, !.hurt = TRUE]

MCVolumes == {Plain, WithRemoved, Full, Damaged(1), Damaged(NClus + 2), Damaged(FatMax), Strayed}
=============================================================================
