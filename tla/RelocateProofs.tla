--------------------------- MODULE RelocateProofs ---------------------------
(***************************************************************************)
(* Proofs about Relocate for every size of the device, the group and the   *)
(* file, every set of foreign blocks and every number of kills.            *)
(*                                                                         *)
(* The argument goes through two views of the device: Place, the block of  *)
(* each position of the file, and Avail, the blocks the bitmap calls free. *)
(* Every write of a relocation changes at most one of them at one point.   *)
(***************************************************************************)
EXTENDS Relocate, FiniteSetTheorems, TLAPS

Place == [m \in Meta |-> get_nth_meta_blknum(m)]

GrpOf(b)    == blknum_to_grp(bn2bmpidx(b))
AvailIn(g)  == {b \in Avail : GrpOf(b) = g}

(* The old block has been replaced by the choice in the file's pointers. *)
Moved == (pc = "relink" /\ pos = 1) \/ pc = "replace"

-----------------------------------------------------------------------------
(* The inductive invariant. *)

TypeOK ==
    /\ bmp \in [BmpIdx -> {0, 1}]
    /\ free_block_c \in [Grp -> Int]
    /\ ino \in [0 .. NDir -> Blk]
    /\ blk \in [Blk -> [Cell -> Int]]
    /\ pc \in {"idle", "alloc", "copy", "stolen", "relink", "replace"}
    /\ sel \in Meta /\ pos \in Nat /\ kills \in Nat
    /\ ccache \subseteq Blk

(* A log that marks or frees block b and then writes the count n. *)
Packet(b, bit, n) ==
    [idx |-> 2, write |-> << Write("bmp", bn2bmpidx(b), 0, bit), Write("free", GrpOf(b), 0, n) >>]

Count(wl) == wl.write[2].val

(* The logs hold the packets of the relocation under way, and how far the  *)
(* commit or the copy can have come.                                       *)
LogShape ==
    /\ pc \in {"idle", "copy", "stolen", "replace"} => wlog = fsl_wlog_init
    /\ pc \in {"idle", "alloc", "copy"} => wlog_replace = fsl_wlog_init
    /\ pc = "alloc" => Count(wlog) \in Int /\ wlog = Packet(choice, 1, Count(wlog))
    /\ pc = "relink" => wlog = [idx |-> 1, write |-> block_relink_meta(sel, choice)]
    /\ pc \in {"stolen", "relink", "replace"} =>
          Count(wlog_replace) \in Int /\ wlog_replace = Packet(src, 0, Count(wlog_replace))
    /\ pc \in {"idle", "stolen"} => pos = 0
    /\ pc = "copy" => pos <= NInd
    /\ pc = "relink" => pos <= 1
    /\ pc \in {"alloc", "replace"} => pos <= 2

(* The file and the blocks of others, wherever a relocation stands. *)
FileShape ==
    /\ Place \in [Meta -> Blk \ Others]
    /\ \A m, n \in Meta : m # n => Place[m] # Place[n]
    /\ \A m \in Meta : Place[m] \notin Avail
    /\ \A m \in Meta \ {NDir}, c \in Cell : blk[Place[m]][c] = DataTag(m)
    /\ \A b \in Others : b \notin Avail
    /\ \A b \in Others, c \in Cell : blk[b][c] = OtherTag(b)

(* The two blocks of the relocation under way: which is referred to, and   *)
(* which is marked, at every stage.                                        *)
FlightShape ==
    pc # "idle" =>
        /\ choice \in Blk \ Others /\ src \in Blk \ Others /\ dst = choice
        /\ ~Moved => src = Place[sel] /\ \A m \in Meta : Place[m] # choice
        /\ Moved => Place[sel] = choice /\ \A m \in Meta : Place[m] # src
        /\ choice \in Avail <=> (pc = "alloc" /\ pos = 0)
        /\ src \in Avail <=> (pc = "replace" /\ pos > 0)

(* What has been copied so far; from "stolen" on, everything. *)
CopyShape ==
    pc \in {"copy", "stolen", "relink"} /\ ~Moved =>
        \A c \in Cell : (pc = "copy" => c < pos) => blk[choice][c] = blk[src][c]

(* What the tool still believes free, apart from the choice, is free. *)
CacheShape ==
    IF pc = "idle" THEN ccache \subseteq Avail ELSE ccache \ {choice} \subseteq Avail

(* Between the write to the bitmap and the one to the group descriptor the *)
(* count is off by one in the group of the block; as long as no run was    *)
(* killed it is exact everywhere else, and every block in use is referred  *)
(* to or one of the two of the relocation under way.                       *)
Due(g) ==
    IF pc = "alloc" /\ pos = 1 /\ g = GrpOf(choice) THEN 1
    ELSE IF pc = "replace" /\ pos = 1 /\ g = GrpOf(src) THEN -1
    ELSE 0

ExactCounts ==
    \A g \in Grp : free_block_c[g] = Cardinality(AvailIn(g)) + Due(g)

PacketCounts ==
    /\ pc = "alloc" /\ pos <= 1 => Count(wlog) = free_block_c[GrpOf(choice)] - 1
    /\ pc \in {"stolen", "relink"} \/ (pc = "replace" /\ pos <= 1) =>
          Count(wlog_replace) = free_block_c[GrpOf(src)] + 1

NothingLost ==
    \A b \in Blk \ Avail :
        \/ b \in Others \/ \E m \in Meta : Place[m] = b
        \/ pc # "idle" /\ b \in {choice, src}

CountInv == kills = 0 => ExactCounts /\ PacketCounts /\ NothingLost

SafeInv == TypeOK /\ LogShape /\ FileShape /\ FlightShape /\ CopyShape /\ CacheShape

-----------------------------------------------------------------------------
(* The log and its packets. *)

LEMMA LogOne ==
    ASSUME NEW x
    PROVE  fsl_wlog_add(fsl_wlog_start(fsl_wlog_init), <<x>>) = [idx |-> 1, write |-> <<x>>]
BY DEF fsl_wlog_add, fsl_wlog_start, fsl_wlog_init

LEMMA LogTwo ==
    ASSUME NEW x, NEW y
    PROVE  fsl_wlog_add(fsl_wlog_start(fsl_wlog_init), <<x, y>>) = [idx |-> 2, write |-> <<x, y>>]
BY DEF fsl_wlog_add, fsl_wlog_start, fsl_wlog_init

LEMMA LogStopped ==
    ASSUME NEW wl
    PROVE  fsl_wlog_stop(Emptied(wl)) = fsl_wlog_init
BY DEF fsl_wlog_stop, Emptied, fsl_wlog_init

LEMMA PacketFacts ==
    ASSUME NEW b, NEW bit, NEW n
    PROVE  /\ Packet(b, bit, n).idx = 2
           /\ Count(Packet(b, bit, n)) = n
           /\ Issued(Packet(b, bit, n), 0) = Write("bmp", bn2bmpidx(b), 0, bit)
           /\ Issued(Packet(b, bit, n), 1) = Write("free", GrpOf(b), 0, n)
BY DEF Packet, Count, Issued, Write

-----------------------------------------------------------------------------
(* The bitmap. *)

LEMMA BlockIndex ==
    ASSUME NEW b \in Blk
    PROVE  /\ bn2bmpidx(b) \in BmpIdx /\ GrpOf(b) \in Grp
           /\ \A d \in Blk : bn2bmpidx(d) = bn2bmpidx(b) => d = b
           /\ b \in Avail <=> bmp[bn2bmpidx(b)] = 0
<1>1. b \in Nat /\ \A d \in Blk : d \in Nat
  BY ShapeAssumption DEF Blk
<1>2. bn2bmpidx(b) \in BmpIdx
  BY DEF BmpIdx
<1>3. GrpOf(b) \in Grp
  BY <1>2 DEF Grp, GrpOf
<1>4. \A d \in Blk : bn2bmpidx(d) = bn2bmpidx(b) => d = b
  BY <1>1, ShapeAssumption DEF bn2bmpidx
<1> QED BY <1>2, <1>3, <1>4 DEF Avail, is_blk_avail

LEMMA AvailBlk == Avail \subseteq Blk
BY DEF Avail

LEMMA BitWritten ==
    ASSUME bmp \in [BmpIdx -> {0, 1}], NEW b \in Blk, NEW bit \in {0, 1},
           bmp' = [bmp EXCEPT ![bn2bmpidx(b)] = bit]
    PROVE  /\ bmp' \in [BmpIdx -> {0, 1}]
           /\ bit = 0 => Avail' = Avail \union {b}
           /\ bit = 1 => Avail' = Avail \ {b}
<1>1. bmp' \in [BmpIdx -> {0, 1}]
  OBVIOUS
<1>2. \A d \in Blk : d # b => bmp'[bn2bmpidx(d)] = bmp[bn2bmpidx(d)]
  BY BlockIndex
<1>3. bmp'[bn2bmpidx(b)] = bit
  BY BlockIndex
<1>4. \A d \in Blk : d \in Avail' <=> IF d = b THEN bit = 0 ELSE d \in Avail
  BY <1>2, <1>3 DEF Avail, is_blk_avail
<1>5. Avail' \subseteq Blk
  BY DEF Avail
<1> QED BY <1>1, <1>4, <1>5, AvailBlk

LEMMA BitmapKept == bmp' = bmp => Avail' = Avail
BY DEF Avail, is_blk_avail

-----------------------------------------------------------------------------
(* The pointers of the file. *)

LEMMA PlaceValue ==
    ASSUME NEW m \in Meta
    PROVE  /\ m <= NDir => Place[m] = ino[m]
           /\ m > NDir => Place[m] = blk[ino[NDir]][m - (NDir + 1)] /\ m - (NDir + 1) \in Cell
<1>1. m \in Nat /\ m <= NDir + NInd /\ NDir \in Nat /\ NInd \in Nat
  BY ShapeAssumption DEF Meta
<1> QED BY <1>1 DEF Place, get_nth_meta_blknum, Cell

LEMMA IndirectMeta == NDir \in Meta /\ Place[NDir] = ino[NDir]
<1>1. NDir \in Meta
  BY ShapeAssumption DEF Meta
<1> QED BY <1>1, PlaceValue, ShapeAssumption

(* The placement depends on the inode and on the indirect block alone. *)
LEMMA PlaceKept ==
    ASSUME ino' = ino, \A c \in Cell : blk'[ino[NDir]][c] = blk[ino[NDir]][c]
    PROVE  Place' = Place
<1>1. ASSUME NEW m \in Meta PROVE get_nth_meta_blknum(m)' = get_nth_meta_blknum(m)
  <2>1. m > NDir => m - (NDir + 1) \in Cell
    BY PlaceValue
  <2>2. m \in Nat /\ NDir \in Nat
    BY ShapeAssumption DEF Meta
  <2> QED BY <2>1, <2>2 DEF get_nth_meta_blknum
<1> QED BY <1>1 DEF Place

-----------------------------------------------------------------------------
(* What the writes of a commit do. *)

(* A packet first writes the bit, then the count. *)
LEMMA CommitPacket ==
    ASSUME TypeOK, NEW b \in Blk, NEW bit \in {0, 1}, NEW n \in Int,
           CommitStep(Packet(b, bit, n))
    PROVE  /\ pos \in {0, 1} /\ pos' = pos + 1
           /\ ino' = ino /\ blk' = blk
           /\ pos = 0 => bmp' = [bmp EXCEPT ![bn2bmpidx(b)] = bit] /\ free_block_c' = free_block_c
           /\ pos = 1 => bmp' = bmp /\ free_block_c' = [free_block_c EXCEPT ![GrpOf(b)] = n]
<1>1. pos \in {0, 1} /\ pos' = pos + 1
  BY PacketFacts DEF CommitStep, CommitDone, TypeOK
<1>2. CASE pos = 0
  <2>1. Apply(Write("bmp", bn2bmpidx(b), 0, bit))
    BY <1>2, PacketFacts DEF CommitStep
  <2> QED BY <1>1, <1>2, <2>1 DEF Apply, Write
<1>3. CASE pos = 1
  <2>1. Apply(Write("free", GrpOf(b), 0, n))
    BY <1>3, PacketFacts DEF CommitStep
  <2> QED BY <1>1, <1>3, <2>1 DEF Apply, Write
<1> QED BY <1>1, <1>2, <1>3

(* The relinking write moves the one position to the choice.  Outside the  *)
(* indirect block nothing is overwritten; moving the indirect block itself *)
(* keeps the pointers because the copy holds the same ones.                *)
LEMMA CommitRelink ==
    ASSUME SafeInv, RelinkWrite
    PROVE  /\ pos = 0 /\ pos' = 1 /\ bmp' = bmp /\ free_block_c' = free_block_c
           /\ ino' \in [0 .. NDir -> Blk] /\ blk' \in [Blk -> [Cell -> Int]]
           /\ Place' = [Place EXCEPT ![sel] = choice]
           /\ \A b \in Blk : b # Place[NDir] => blk'[b] = blk[b]
<1>1. /\ pc = "relink" /\ wlog = [idx |-> 1, write |-> block_relink_meta(sel, choice)]
      /\ pos \in Nat /\ sel \in Meta /\ choice \in Blk
  BY DEF SafeInv, TypeOK, LogShape, FlightShape, RelinkWrite
<1>2. pos = 0 /\ pos' = 1
  BY <1>1 DEF RelinkWrite, CommitStep, CommitDone
<1>3. sel \in Nat /\ NDir \in Nat /\ NInd \in Nat /\ choice \in Int
  BY <1>1, ShapeAssumption DEF Meta, Blk
<1>4. ino \in [0 .. NDir -> Blk] /\ blk \in [Blk -> [Cell -> Int]] /\ ino[NDir] \in Blk
  BY <1>3 DEF SafeInv, TypeOK
<1>5. CASE sel <= NDir
  <2>1. Apply(Write("ino", sel, 0, choice))
    BY <1>1, <1>2, <1>3, <1>5 DEF RelinkWrite, CommitStep, Issued, block_relink_meta
  <2>2. /\ bmp' = bmp /\ free_block_c' = free_block_c /\ blk' = blk
        /\ ino' = [ino EXCEPT ![sel] = choice]
    BY <2>1 DEF Apply, Write
  <2>3. sel \in 0 .. NDir
    BY <1>3, <1>5
  <2>4. ino' \in [0 .. NDir -> Blk]
    BY <1>1, <1>4, <2>2, <2>3
  <2>5. ASSUME NEW m \in Meta
        PROVE  get_nth_meta_blknum(m)' = IF m = sel THEN choice ELSE get_nth_meta_blknum(m)
    <3>1. m \in Nat
      BY DEF Meta
    <3>2. CASE m <= NDir
      BY <1>3, <1>4, <2>2, <2>3, <3>1, <3>2 DEF get_nth_meta_blknum
    <3>3. CASE m > NDir
      <4>1. m - (NDir + 1) \in Cell
        BY <3>3, PlaceValue
      <4>2. CASE sel = NDir
        <5>1. choice # src /\ src = ino[NDir]
          BY <1>1, <1>2, <4>2, IndirectMeta DEF SafeInv, FlightShape, Moved
        <5>2. blk[choice][m - (NDir + 1)] = blk[src][m - (NDir + 1)]
          BY <1>1, <1>2, <4>1 DEF SafeInv, CopyShape, Moved
        <5> QED BY <1>3, <1>4, <2>2, <2>3, <3>1, <3>3, <4>2, <5>1, <5>2 DEF get_nth_meta_blknum
      <4>3. CASE sel # NDir
        BY <1>3, <1>4, <1>5, <2>2, <2>3, <3>1, <3>3, <4>3 DEF get_nth_meta_blknum
      <4> QED BY <4>2, <4>3
    <3> QED BY <1>3, <3>1, <3>2, <3>3
  <2>6. Place' = [Place EXCEPT ![sel] = choice]
    BY <1>1, <2>5 DEF Place
  <2> QED BY <1>2, <1>4, <2>2, <2>4, <2>6
<1>6. CASE sel > NDir
  <2> DEFINE i == sel - (NDir + 1)
  <2>1. Apply(Write("blk", ino[NDir], i, choice))
    BY <1>1, <1>2, <1>3, <1>6 DEF RelinkWrite, CommitStep, Issued, block_relink_meta
  <2>2. /\ bmp' = bmp /\ free_block_c' = free_block_c /\ ino' = ino
        /\ blk' = [blk EXCEPT ![ino[NDir]][i] = choice]
    BY <2>1 DEF Apply, Write
  <2>3. i \in Cell
    BY <1>1, <1>6, PlaceValue
  <2>4. /\ blk' \in [Blk -> [Cell -> Int]]
        /\ \A b \in Blk : b # ino[NDir] => blk'[b] = blk[b]
        /\ \A c \in Cell : blk'[ino[NDir]][c] = IF c = i THEN choice ELSE blk[ino[NDir]][c]
    BY <1>3, <1>4, <2>2, <2>3
  <2>5. ASSUME NEW m \in Meta
        PROVE  get_nth_meta_blknum(m)' = IF m = sel THEN choice ELSE get_nth_meta_blknum(m)
    <3>1. m \in Nat /\ (m > NDir => m - (NDir + 1) \in Cell)
      BY PlaceValue DEF Meta
    <3> QED BY <1>3, <1>4, <1>6, <2>2, <2>4, <3>1 DEF get_nth_meta_blknum
  <2>6. Place' = [Place EXCEPT ![sel] = choice]
    BY <1>1, <2>5 DEF Place
  <2> QED BY <1>2, <1>4, <2>2, <2>4, <2>6, IndirectMeta
<1> QED BY <1>3, <1>5, <1>6

-----------------------------------------------------------------------------
(* SafeInv is inductive: one lemma per action that does more than move the *)
(* control.                                                                *)

LEMMA DeviceKept ==
    ASSUME SafeInv, UNCHANGED fsvars
    PROVE  /\ Place' = Place /\ Avail' = Avail /\ FileShape'
           /\ bmp' \in [BmpIdx -> {0, 1}] /\ free_block_c' \in [Grp -> Int]
           /\ ino' \in [0 .. NDir -> Blk] /\ blk' \in [Blk -> [Cell -> Int]]
<1>1. bmp' = bmp /\ free_block_c' = free_block_c /\ ino' = ino /\ blk' = blk
  BY DEF fsvars
<1>2. Place' = Place /\ Avail' = Avail
  BY <1>1, PlaceKept, BitmapKept
<1> QED BY <1>1, <1>2 DEF SafeInv, TypeOK, FileShape

LEMMA BeginLog ==
    ASSUME SafeInv, NEW m \in Meta, NEW c \in ccache, Begin(m, c)
    PROVE  /\ Count(wlog') \in Int /\ wlog' = Packet(c, 1, Count(wlog'))
           /\ Count(wlog') = free_block_c[GrpOf(c)] - 1
<1> DEFINE n == free_block_c[GrpOf(c)] - 1
<1>1. c \in Blk
  BY DEF SafeInv, TypeOK
<1>2. n \in Int
  BY <1>1, BlockIndex DEF SafeInv, TypeOK
<1>3. wlog = fsl_wlog_init
  BY DEF Begin, SafeInv, LogShape
<1>4. wlog' = Packet(c, 1, n)
  BY <1>3, LogTwo DEF Begin, block_alloc, Packet, GrpOf
<1> HIDE DEF n
<1>5. Count(wlog') = n
  BY <1>4, PacketFacts
<1> QED BY <1>2, <1>4, <1>5 DEF n

LEMMA BeginSafe ==
    ASSUME SafeInv, NEW m \in Meta, NEW c \in ccache, Begin(m, c)
    PROVE  SafeInv'
<1>1. UNCHANGED fsvars /\ pc = "idle" /\ pc' = "alloc" /\ pos' = 0 /\ sel' = m /\ choice' = c
  BY DEF Begin
<1>2. Place' = Place /\ Avail' = Avail /\ FileShape'
  BY <1>1, DeviceKept
<1>3. c \in Avail /\ c \in Blk
  BY <1>1 DEF SafeInv, CacheShape, TypeOK
<1>4. TypeOK'
  BY <1>1, DeviceKept DEF SafeInv, TypeOK, Begin
<1>5. src' = Place[m] /\ dst' = c
  BY DEF Begin, Place
<1>6. LogShape'
  <2>1. Count(wlog') \in Int /\ wlog' = Packet(choice', 1, Count(wlog'))
    BY <1>1, BeginLog
  <2>2. wlog_replace' = fsl_wlog_init
    BY <1>1 DEF Begin, SafeInv, LogShape
  <2> QED BY <1>1, <2>1, <2>2 DEF LogShape, Packet, Count, GrpOf, bn2bmpidx, blknum_to_grp, Write
<1>7. FlightShape'
  BY <1>1, <1>2, <1>3, <1>5 DEF FlightShape, SafeInv, FileShape, Moved
<1>8. CopyShape' /\ CacheShape'
  BY <1>1, <1>2 DEF CopyShape, CacheShape, SafeInv, Begin
<1> QED BY <1>2, <1>4, <1>6, <1>7, <1>8 DEF SafeInv

(* The first write of the allocation takes the choice, the second counts. *)
AllocEffect ==
    /\ pc = "alloc" /\ UNCHANGED <<pc, sel, choice, src, dst, wlog, wlog_replace, ccache, kills>>
    /\ pos \in {0, 1} /\ pos' = pos + 1
    /\ ino' = ino /\ blk' = blk /\ Place' = Place
    /\ bmp' \in [BmpIdx -> {0, 1}] /\ free_block_c' \in [Grp -> Int]
    /\ pos = 0 => Avail' = Avail \ {choice} /\ free_block_c' = free_block_c
    /\ pos = 1 => /\ Avail' = Avail
                  /\ free_block_c' = [free_block_c EXCEPT ![GrpOf(choice)] = Count(wlog)]

LEMMA AllocWriteEffect == SafeInv /\ AllocWrite => AllocEffect
<1> SUFFICES ASSUME SafeInv, AllocWrite PROVE AllocEffect
  OBVIOUS
<1>1. /\ pc = "alloc" /\ pc' = pc /\ sel' = sel /\ choice' = choice /\ src' = src /\ dst' = dst
      /\ wlog' = wlog /\ wlog_replace' = wlog_replace /\ ccache' = ccache /\ kills' = kills
  BY DEF AllocWrite, logvars
<1> DEFINE n == Count(wlog)
<1>2. choice \in Blk /\ n \in Int /\ CommitStep(Packet(choice, 1, n))
  BY <1>1 DEF SafeInv, LogShape, FlightShape, AllocWrite
<1> HIDE DEF n
<1>3. /\ pos \in {0, 1} /\ pos' = pos + 1 /\ ino' = ino /\ blk' = blk
      /\ pos = 0 => bmp' = [bmp EXCEPT ![bn2bmpidx(choice)] = 1] /\ free_block_c' = free_block_c
      /\ pos = 1 => bmp' = bmp /\ free_block_c' = [free_block_c EXCEPT ![GrpOf(choice)] = n]
  BY <1>2, CommitPacket DEF SafeInv
<1>4. /\ bmp' \in [BmpIdx -> {0, 1}] /\ free_block_c' \in [Grp -> Int]
      /\ pos = 0 => Avail' = Avail \ {choice}
      /\ pos = 1 => Avail' = Avail
  <2>1. TypeOK /\ GrpOf(choice) \in Grp
    BY <1>2, BlockIndex DEF SafeInv
  <2>2. CASE pos = 0
    <3>1. bmp' \in [BmpIdx -> {0, 1}] /\ Avail' = Avail \ {choice}
      BY <1>2, <1>3, <2>1, <2>2, BitWritten DEF TypeOK
    <3> QED BY <1>3, <2>1, <2>2, <3>1 DEF TypeOK
  <2>3. CASE pos = 1
    BY <1>2, <1>3, <2>1, <2>3, BitmapKept DEF TypeOK
  <2> QED BY <1>3, <2>2, <2>3
<1>5. Place' = Place
  BY <1>3, PlaceKept
<1> QED BY <1>1, <1>3, <1>4, <1>5 DEF n, AllocEffect

LEMMA AllocWriteSafe ==
    ASSUME SafeInv, AllocWrite
    PROVE  SafeInv'
<1>1. AllocEffect
  BY AllocWriteEffect
<1>2. TypeOK'
  BY <1>1 DEF SafeInv, TypeOK, AllocEffect
<1>3. LogShape'
  BY <1>1 DEF SafeInv, LogShape, Packet, Count, GrpOf, bn2bmpidx, blknum_to_grp, Write, AllocEffect
<1>4. FileShape'
  BY <1>1 DEF SafeInv, FileShape, AllocEffect
<1>5. FlightShape'
  BY <1>1 DEF SafeInv, FlightShape, Moved, AllocEffect
<1>6. CopyShape' /\ CacheShape'
  BY <1>1 DEF SafeInv, CopyShape, CacheShape, AllocEffect
<1> QED BY <1>2, <1>3, <1>4, <1>5, <1>6 DEF SafeInv

LEMMA AllocCompleteSafe ==
    ASSUME SafeInv, AllocComplete
    PROVE  SafeInv'
<1>1. /\ pc = "alloc" /\ pc' = "copy" /\ pos' = 0 /\ UNCHANGED fsvars
      /\ sel' = sel /\ choice' = choice /\ src' = src /\ dst' = dst
      /\ wlog_replace' = wlog_replace /\ ccache' = ccache /\ kills' = kills
  BY DEF AllocComplete
<1>2. pos = 2
  <2>1. wlog = Packet(choice, 1, Count(wlog)) /\ pos \in Nat /\ pos <= 2
    BY <1>1 DEF SafeInv, LogShape, TypeOK
  <2> QED BY <2>1, PacketFacts DEF AllocComplete, CommitDone
<1>3. Place' = Place /\ Avail' = Avail /\ FileShape' /\ blk' = blk
  BY <1>1, DeviceKept DEF fsvars
<1>4. TypeOK'
  BY <1>1, DeviceKept DEF SafeInv, TypeOK
<1>5. LogShape'
  <2>1. wlog' = fsl_wlog_init
    BY LogStopped DEF AllocComplete
  <2> QED BY <1>1, <2>1, ShapeAssumption DEF SafeInv, LogShape
<1>6. FlightShape'
  BY <1>1, <1>2, <1>3 DEF SafeInv, FlightShape, Moved
<1>7. CopyShape' /\ CacheShape'
  <2>1. \A c \in Cell : ~(c < 0)
    BY DEF Cell
  <2> QED BY <1>1, <1>3, <2>1 DEF SafeInv, CopyShape, CacheShape
<1> QED BY <1>3, <1>4, <1>5, <1>6, <1>7 DEF SafeInv

(* A copied cell is written to a block nobody refers to yet. *)
LEMMA CopyEffect ==
    ASSUME SafeInv, typeinfo_phys_copy
    PROVE  /\ Avail' = Avail /\ Place' = Place
           /\ src \in Blk \ Others /\ choice \in Blk \ Others /\ src # choice
           /\ \A m \in Meta : Place[m] # choice
           /\ pos \in Cell /\ pos \in Nat /\ blk' \in [Blk -> [Cell -> Int]]
           /\ \A b \in Blk : b # choice => blk'[b] = blk[b]
           /\ \A c \in Cell : blk'[choice][c] = IF c = pos THEN blk[src][pos] ELSE blk[choice][c]
<1>1. /\ pc = "copy" /\ pc' = pc /\ pos < NInd /\ pos' = pos + 1
      /\ bmp' = bmp /\ free_block_c' = free_block_c /\ ino' = ino
      /\ sel' = sel /\ choice' = choice /\ src' = src /\ dst' = dst
      /\ wlog' = wlog /\ wlog_replace' = wlog_replace /\ ccache' = ccache /\ kills' = kills
  BY DEF typeinfo_phys_copy, logvars
<1>2. /\ src \in Blk \ Others /\ choice \in Blk \ Others /\ src # choice
      /\ \A m \in Meta : Place[m] # choice
      /\ blk' = [blk EXCEPT ![choice][pos] = blk[src][pos]]
  BY <1>1 DEF SafeInv, FlightShape, TypeOK, Moved, typeinfo_phys_copy
<1>3. pos \in Cell /\ NInd \in Nat /\ pos \in Nat
  BY <1>1, ShapeAssumption DEF SafeInv, TypeOK, Cell
<1>4. /\ blk' \in [Blk -> [Cell -> Int]]
      /\ \A b \in Blk : b # choice => blk'[b] = blk[b]
      /\ \A c \in Cell : blk'[choice][c] = IF c = pos THEN blk[src][pos] ELSE blk[choice][c]
  BY <1>2, <1>3 DEF SafeInv, TypeOK
<1>5. Avail' = Avail
  BY <1>1, BitmapKept
<1>6. Place' = Place
  <2>1. ino[NDir] \in Blk /\ ino[NDir] # choice
    BY <1>2, IndirectMeta DEF SafeInv, FileShape
  <2> QED BY <1>1, <1>4, <2>1, PlaceKept
<1> QED BY <1>2, <1>3, <1>4, <1>5, <1>6

LEMMA CopySafe ==
    ASSUME SafeInv, typeinfo_phys_copy
    PROVE  SafeInv'
<1>1. /\ pc = "copy" /\ pc' = pc /\ pos < NInd /\ pos' = pos + 1
      /\ bmp' = bmp /\ free_block_c' = free_block_c /\ ino' = ino
      /\ sel' = sel /\ choice' = choice /\ src' = src /\ dst' = dst
      /\ wlog' = wlog /\ wlog_replace' = wlog_replace /\ ccache' = ccache /\ kills' = kills
  BY DEF typeinfo_phys_copy, logvars
<1>2. /\ Avail' = Avail /\ Place' = Place
      /\ src \in Blk \ Others /\ choice \in Blk \ Others /\ src # choice
      /\ \A m \in Meta : Place[m] # choice
      /\ pos \in Cell /\ pos \in Nat /\ blk' \in [Blk -> [Cell -> Int]]
      /\ \A b \in Blk : b # choice => blk'[b] = blk[b]
      /\ \A c \in Cell : blk'[choice][c] = IF c = pos THEN blk[src][pos] ELSE blk[choice][c]
  BY CopyEffect
<1>3. TypeOK'
  BY <1>1, <1>2 DEF SafeInv, TypeOK
<1>4. LogShape'
  BY <1>1, <1>2, ShapeAssumption DEF SafeInv, LogShape
<1>5. FileShape'
  <2>1. \A m \in Meta : Place[m] \in Blk /\ blk'[Place[m]] = blk[Place[m]]
    BY <1>2 DEF SafeInv, FileShape
  <2>2. \A b \in Others : blk'[b] = blk[b]
    BY <1>2, ShapeAssumption DEF Blk
  <2> QED BY <1>2, <2>1, <2>2 DEF SafeInv, FileShape
<1>6. FlightShape'
  BY <1>1, <1>2 DEF SafeInv, FlightShape, Moved
<1>7. CopyShape'
  <2>1. \A c \in Cell : c < pos + 1 => c < pos \/ c = pos
    BY <1>2 DEF Cell
  <2> QED BY <1>1, <1>2, <2>1 DEF SafeInv, CopyShape, Moved
<1>8. CacheShape'
  BY <1>1, <1>2 DEF SafeInv, CacheShape
<1> QED BY <1>3, <1>4, <1>5, <1>6, <1>7, <1>8 DEF SafeInv

(* The packet put aside frees the block the position is still on. *)
LEMMA StealLog ==
    ASSUME SafeInv, StealReplace
    PROVE  /\ Count(wlog_replace') \in Int /\ wlog_replace' = Packet(src, 0, Count(wlog_replace'))
           /\ Count(wlog_replace') = free_block_c[GrpOf(src)] + 1
<1> DEFINE n == free_block_c[GrpOf(src)] + 1
<1>1. src \in Blk /\ src = get_nth_meta_blknum(sel)
  BY DEF StealReplace, SafeInv, FlightShape, Moved, TypeOK, Place
<1>2. n \in Int
  BY <1>1, BlockIndex DEF SafeInv, TypeOK
<1>3. wlog = fsl_wlog_init
  BY DEF StealReplace, SafeInv, LogShape
<1>4. wlog_replace' = Packet(src, 0, n)
  BY <1>1, <1>3, LogTwo DEF StealReplace, block_replace, Packet, GrpOf, fsl_wlog_copy
<1> HIDE DEF n
<1>5. Count(wlog_replace') = n
  BY <1>4, PacketFacts
<1> QED BY <1>2, <1>4, <1>5 DEF n

LEMMA StealSafe ==
    ASSUME SafeInv, StealReplace
    PROVE  SafeInv'
<1>1. /\ pc = "copy" /\ pc' = "stolen" /\ pos = NInd /\ pos' = 0 /\ UNCHANGED fsvars
      /\ sel' = sel /\ choice' = choice /\ src' = src /\ dst' = dst
      /\ wlog' = fsl_wlog_init /\ ccache' = ccache /\ kills' = kills
  BY DEF StealReplace
<1>2. Place' = Place /\ Avail' = Avail /\ FileShape' /\ blk' = blk
  BY <1>1, DeviceKept DEF fsvars
<1>3. TypeOK'
  BY <1>1, DeviceKept DEF SafeInv, TypeOK
<1>4. LogShape'
  <2>1. Count(wlog_replace') \in Int /\ wlog_replace' = Packet(src', 0, Count(wlog_replace'))
    BY <1>1, StealLog
  <2> QED BY <1>1, <2>1 DEF LogShape, Packet, Count, GrpOf, bn2bmpidx, blknum_to_grp, Write
<1>5. FlightShape'
  BY <1>1, <1>2 DEF SafeInv, FlightShape, Moved
<1>6. CopyShape' /\ CacheShape'
  <2>1. \A c \in Cell : c < NInd
    BY ShapeAssumption DEF Cell
  <2> QED BY <1>1, <1>2, <2>1 DEF SafeInv, CopyShape, CacheShape, Moved
<1> QED BY <1>2, <1>3, <1>4, <1>5, <1>6 DEF SafeInv

LEMMA LogRelinkSafe ==
    ASSUME SafeInv, LogRelink
    PROVE  SafeInv'
<1>1. /\ pc = "stolen" /\ pc' = "relink" /\ pos = 0 /\ pos' = 0 /\ UNCHANGED fsvars
      /\ sel' = sel /\ choice' = choice /\ src' = src /\ dst' = dst
      /\ wlog_replace' = wlog_replace /\ ccache' = ccache /\ kills' = kills
  BY DEF LogRelink, SafeInv, LogShape
<1>2. Place' = Place /\ Avail' = Avail /\ FileShape' /\ blk' = blk /\ ino' = ino
  BY <1>1, DeviceKept DEF fsvars
<1>3. TypeOK'
  BY <1>1, DeviceKept DEF SafeInv, TypeOK
<1>4. LogShape'
  <2>1. wlog = fsl_wlog_init
    BY <1>1 DEF SafeInv, LogShape
  <2>2. \E x : block_relink_meta(sel, choice) = <<x>>
    BY DEF block_relink_meta
  <2>3. wlog' = [idx |-> 1, write |-> block_relink_meta(sel, choice)]
    BY <2>1, <2>2, LogOne DEF LogRelink
  <2>4. block_relink_meta(sel, choice)' = block_relink_meta(sel, choice)
    BY <1>1, <1>2 DEF block_relink_meta
  <2> QED BY <1>1, <2>3, <2>4 DEF SafeInv, LogShape, Packet, Count, GrpOf, bn2bmpidx, blknum_to_grp, Write
<1>5. FlightShape'
  BY <1>1, <1>2 DEF SafeInv, FlightShape, Moved
<1>6. CopyShape' /\ CacheShape'
  BY <1>1, <1>2 DEF SafeInv, CopyShape, CacheShape, Moved
<1> QED BY <1>2, <1>3, <1>4, <1>5, <1>6 DEF SafeInv

(* The one write that the file can see. *)
LEMMA RelinkWriteSafe ==
    ASSUME SafeInv, RelinkWrite
    PROVE  SafeInv'
<1>1. /\ pc = "relink" /\ pc' = pc
      /\ sel' = sel /\ choice' = choice /\ src' = src /\ dst' = dst
      /\ wlog' = wlog /\ wlog_replace' = wlog_replace /\ ccache' = ccache /\ kills' = kills
  BY DEF RelinkWrite, logvars
<1>2. /\ pos = 0 /\ pos' = 1 /\ bmp' = bmp /\ free_block_c' = free_block_c
      /\ ino' \in [0 .. NDir -> Blk] /\ blk' \in [Blk -> [Cell -> Int]]
      /\ Place' = [Place EXCEPT ![sel] = choice]
      /\ \A b \in Blk : b # Place[NDir] => blk'[b] = blk[b]
  BY CommitRelink
<1>3. Avail' = Avail
  BY <1>2, BitmapKept
<1>4. TypeOK'
  BY <1>1, <1>2 DEF SafeInv, TypeOK
<1>5. /\ sel \in Meta /\ src = Place[sel] /\ choice \in Blk \ Others /\ choice \notin Avail
      /\ \A m \in Meta : Place[m] # choice /\ Place[m] \in Blk \ Others
      /\ \A m, n \in Meta : m # n => Place[m] # Place[n]
      /\ Place'[sel] = choice /\ \A m \in Meta \ {sel} : Place'[m] = Place[m]
  BY <1>1, <1>2 DEF SafeInv, FlightShape, FileShape, TypeOK, Moved
<1>6. LogShape'
  <2>1. block_relink_meta(sel, choice)' = block_relink_meta(sel, choice)
    <3>1. sel > NDir => ino'[NDir] = ino[NDir]
      <4>1. NDir \in Meta /\ Place[NDir] = ino[NDir] /\ Place'[NDir] = ino'[NDir]
        <5>1. NDir \in Meta /\ Place[NDir] = ino[NDir]
          BY IndirectMeta
        <5>2. Place'[NDir] = ino'[NDir]
          BY <5>1, ShapeAssumption DEF Place, get_nth_meta_blknum
        <5> QED BY <5>1, <5>2
      <4> QED BY <1>5, <4>1, ShapeAssumption
    <3> QED BY <1>1, <3>1, <1>5, ShapeAssumption DEF block_relink_meta, Meta
  <2> QED BY <1>1, <1>2, <2>1 DEF SafeInv, LogShape, Packet, Count, GrpOf, bn2bmpidx, blknum_to_grp, Write
<1>7. FileShape'
  <2>1. \A m \in Meta \ {NDir}, c \in Cell : blk'[Place'[m]][c] = DataTag(m)
    <3> SUFFICES ASSUME NEW m \in Meta \ {NDir}, NEW c \in Cell
                 PROVE  blk'[Place'[m]][c] = DataTag(m)
      OBVIOUS
    <3>1. blk[Place[m]][c] = DataTag(m) /\ NDir \in Meta
      BY IndirectMeta DEF SafeInv, FileShape
    <3>2. CASE m = sel
      <4>1. blk[choice][c] = blk[src][c]
        BY <1>1, <1>2 DEF SafeInv, CopyShape, Moved
      <4> QED BY <1>2, <1>5, <3>1, <3>2, <4>1
    <3>3. CASE m # sel
      BY <1>2, <1>5, <3>1, <3>3
    <3> QED BY <3>2, <3>3
  <2>2. \A b \in Others : blk'[b] = blk[b]
    BY <1>2, <1>5, IndirectMeta, ShapeAssumption DEF Blk
  <2>3. Place' \in [Meta -> Blk \ Others]
    BY <1>2, <1>5 DEF SafeInv, FileShape
  <2> QED BY <1>3, <1>5, <2>1, <2>2, <2>3 DEF SafeInv, FileShape
<1>8. FlightShape'
  <2>1. \A m \in Meta : Place'[m] # src
    BY <1>5
  <2> QED BY <1>1, <1>2, <1>3, <1>5, <2>1 DEF SafeInv, FlightShape, Moved
<1>9. CopyShape' /\ CacheShape'
  BY <1>1, <1>2, <1>3 DEF SafeInv, CopyShape, CacheShape, Moved
<1> QED BY <1>4, <1>6, <1>7, <1>8, <1>9 DEF SafeInv

LEMMA RelinkCompleteSafe ==
    ASSUME SafeInv, RelinkComplete
    PROVE  SafeInv'
<1>1. /\ pc = "relink" /\ pc' = "replace" /\ pos' = 0 /\ UNCHANGED fsvars
      /\ sel' = sel /\ choice' = choice /\ src' = src /\ dst' = dst
      /\ wlog_replace' = wlog_replace /\ ccache' = ccache /\ kills' = kills
  BY DEF RelinkComplete
<1>2. pos = 1
  <2>1. wlog.idx = 1 /\ pos \in Nat /\ pos <= 1
    BY <1>1 DEF SafeInv, LogShape, TypeOK
  <2> QED BY <2>1 DEF RelinkComplete, CommitDone
<1>3. Place' = Place /\ Avail' = Avail /\ FileShape'
  BY <1>1, DeviceKept
<1>4. TypeOK'
  BY <1>1, DeviceKept DEF SafeInv, TypeOK
<1>5. LogShape'
  <2>1. wlog' = fsl_wlog_init
    BY LogStopped DEF RelinkComplete
  <2> QED BY <1>1, <2>1 DEF SafeInv, LogShape, Packet, Count, GrpOf, bn2bmpidx, blknum_to_grp, Write
<1>6. FlightShape'
  BY <1>1, <1>2, <1>3 DEF SafeInv, FlightShape, Moved
<1>7. CopyShape' /\ CacheShape'
  BY <1>1, <1>3 DEF SafeInv, CopyShape, CacheShape
<1> QED BY <1>3, <1>4, <1>5, <1>6, <1>7 DEF SafeInv

(* The first write of the replacement gives the old block back. *)
ReplaceEffect ==
    /\ pc = "replace" /\ UNCHANGED <<pc, sel, choice, src, dst, wlog, wlog_replace, ccache, kills>>
    /\ pos \in {0, 1} /\ pos' = pos + 1
    /\ ino' = ino /\ blk' = blk /\ Place' = Place
    /\ bmp' \in [BmpIdx -> {0, 1}] /\ free_block_c' \in [Grp -> Int]
    /\ pos = 0 => Avail' = Avail \union {src} /\ free_block_c' = free_block_c
    /\ pos = 1 => /\ Avail' = Avail
                  /\ free_block_c' = [free_block_c EXCEPT ![GrpOf(src)] = Count(wlog_replace)]

LEMMA ReplaceWriteEffect == SafeInv /\ ReplaceWrite => ReplaceEffect
<1> SUFFICES ASSUME SafeInv, ReplaceWrite PROVE ReplaceEffect
  OBVIOUS
<1>1. /\ pc = "replace" /\ pc' = pc /\ sel' = sel /\ choice' = choice /\ src' = src /\ dst' = dst
      /\ wlog' = wlog /\ wlog_replace' = wlog_replace /\ ccache' = ccache /\ kills' = kills
  BY DEF ReplaceWrite, logvars
<1> DEFINE n == Count(wlog_replace)
<1>2. src \in Blk \ Others /\ n \in Int /\ CommitStep(Packet(src, 0, n))
  BY <1>1 DEF SafeInv, LogShape, FlightShape, ReplaceWrite
<1> HIDE DEF n
<1>3. /\ pos \in {0, 1} /\ pos' = pos + 1 /\ ino' = ino /\ blk' = blk
      /\ pos = 0 => bmp' = [bmp EXCEPT ![bn2bmpidx(src)] = 0] /\ free_block_c' = free_block_c
      /\ pos = 1 => bmp' = bmp /\ free_block_c' = [free_block_c EXCEPT ![GrpOf(src)] = n]
  BY <1>2, CommitPacket DEF SafeInv
<1>4. /\ bmp' \in [BmpIdx -> {0, 1}] /\ free_block_c' \in [Grp -> Int]
      /\ pos = 0 => Avail' = Avail \union {src}
      /\ pos = 1 => Avail' = Avail
  <2>1. TypeOK /\ GrpOf(src) \in Grp
    BY <1>2, BlockIndex DEF SafeInv
  <2>2. CASE pos = 0
    <3>1. bmp' \in [BmpIdx -> {0, 1}] /\ Avail' = Avail \union {src}
      BY <1>2, <1>3, <2>1, <2>2, BitWritten DEF TypeOK
    <3> QED BY <1>3, <2>1, <2>2, <3>1 DEF TypeOK
  <2>3. CASE pos = 1
    BY <1>2, <1>3, <2>1, <2>3, BitmapKept DEF TypeOK
  <2> QED BY <1>3, <2>2, <2>3
<1>5. Place' = Place
  BY <1>3, PlaceKept
<1> QED BY <1>1, <1>3, <1>4, <1>5 DEF n, ReplaceEffect

LEMMA ReplaceWriteSafe ==
    ASSUME SafeInv, ReplaceWrite
    PROVE  SafeInv'
<1>1. ReplaceEffect
  BY ReplaceWriteEffect
<1>2. TypeOK'
  BY <1>1 DEF SafeInv, TypeOK, ReplaceEffect
<1>3. LogShape'
  BY <1>1 DEF SafeInv, LogShape, Packet, Count, GrpOf, bn2bmpidx, blknum_to_grp, Write, ReplaceEffect
<1>4. src \notin Others /\ \A m \in Meta : Place[m] # src
  BY <1>1 DEF SafeInv, FlightShape, Moved, ReplaceEffect
<1>5. FileShape'
  BY <1>1, <1>4 DEF SafeInv, FileShape, ReplaceEffect
<1>6. FlightShape'
  <2>1. choice # src /\ sel \in Meta
    BY <1>1, <1>4 DEF SafeInv, FlightShape, Moved, TypeOK, ReplaceEffect
  <2> QED BY <1>1, <2>1 DEF SafeInv, FlightShape, Moved, ReplaceEffect
<1>7. CopyShape' /\ CacheShape'
  BY <1>1 DEF SafeInv, CopyShape, CacheShape, ReplaceEffect
<1> QED BY <1>2, <1>3, <1>5, <1>6, <1>7 DEF SafeInv

(* Every step that ends a relocation or starts from rest. *)
LEMMA RestSafe ==
    ASSUME SafeInv, UNCHANGED fsvars, pc' = "idle", pos' = 0, sel' \in Meta, kills' \in Nat,
           wlog' = fsl_wlog_init, wlog_replace' = fsl_wlog_init, ccache' \subseteq Avail
    PROVE  SafeInv'
<1>1. Avail' = Avail /\ FileShape'
  BY DeviceKept
<1>2. TypeOK'
  BY DeviceKept, AvailBlk DEF SafeInv, TypeOK
<1>3. LogShape' /\ FlightShape' /\ CopyShape' /\ CacheShape'
  BY <1>1 DEF LogShape, FlightShape, CopyShape, CacheShape
<1> QED BY <1>1, <1>2, <1>3 DEF SafeInv

LEMMA NextSafe == SafeInv /\ [Next]_vars => SafeInv'
<1> SUFFICES ASSUME SafeInv, [Next]_vars PROVE SafeInv'
  OBVIOUS
<1>0. 0 \in Meta
  BY ShapeAssumption DEF Meta
<1>1. CASE choice_alloc
  BY <1>1, RestSafe DEF choice_alloc, logvars, SafeInv, TypeOK, LogShape
<1>2. ASSUME NEW m \in Meta, NEW c \in ccache, Begin(m, c) PROVE SafeInv'
  BY <1>2, BeginSafe
<1>3. CASE wpkt_relocate
  <2>1. CASE choice_mark_alloc
    BY <1>0, <2>1, RestSafe DEF choice_mark_alloc, SafeInv, TypeOK, LogShape, CacheShape
  <2> QED BY <1>3, <2>1, AllocWriteSafe, AllocCompleteSafe, CopySafe, StealSafe, LogRelinkSafe,
             RelinkWriteSafe, RelinkCompleteSafe, ReplaceWriteSafe DEF wpkt_relocate
<1>4. CASE Kill
  BY <1>0, <1>4, RestSafe DEF Kill, SafeInv, TypeOK
<1>5. CASE UNCHANGED vars
  <2>1. UNCHANGED fsvars
    BY <1>5 DEF vars
  <2>2. Place' = Place /\ Avail' = Avail /\ FileShape'
    BY <2>1, DeviceKept
  <2>3. UNCHANGED <<pc, sel, choice, src, dst, wlog, wlog_replace, pos, ccache, kills, ino, blk, bmp, free_block_c>>
    BY <1>5 DEF vars, fsvars, logvars
  <2>4. block_relink_meta(sel, choice)' = block_relink_meta(sel, choice)
    BY <2>3 DEF block_relink_meta
  <2>5. TypeOK' /\ LogShape'
    BY <2>3, <2>4 DEF SafeInv, TypeOK, LogShape, Packet, Count, GrpOf, bn2bmpidx, blknum_to_grp, Write
  <2>6. FlightShape' /\ CopyShape' /\ CacheShape'
    BY <2>2, <2>3 DEF SafeInv, FlightShape, CopyShape, CacheShape, Moved
  <2> QED BY <2>2, <2>5, <2>6 DEF SafeInv
<1> QED BY <1>1, <1>2, <1>3, <1>4, <1>5 DEF Next

(* The initial placement is the one that is read through the pointers, and *)
(* the bitmap marks exactly the blocks in use.                             *)
LEMMA InitPlace ==
    ASSUME Init
    PROVE  \E p \in Placement :
              /\ InitFS(p) /\ Place = p
              /\ Avail = {b \in Blk : b \notin Others /\ \A m \in Meta : p[m] # b}
<1> PICK p \in Placement : InitFS(p)
  BY DEF Init
<1>1. /\ p \in [Meta -> Blk \ Others] /\ NDir \in Meta /\ NDir \in Nat
      /\ \A m \in Meta : m \in Nat /\ (m <= NDir => m \in 0 .. NDir)
                     /\ (m > NDir => m - (NDir + 1) \in Cell /\ NDir + 1 + (m - (NDir + 1)) = m)
  <2>1. p \in [Meta -> Blk \ Others] /\ NDir \in Meta /\ NDir \in Nat
    BY IndirectMeta, ShapeAssumption DEF Placement
  <2>2. ASSUME NEW m \in Meta
        PROVE  m \in Nat /\ (m <= NDir => m \in 0 .. NDir)
                 /\ (m > NDir => m - (NDir + 1) \in Cell /\ NDir + 1 + (m - (NDir + 1)) = m)
    BY ShapeAssumption DEF Meta, Cell
  <2> QED BY <2>1, <2>2
<1>2. /\ ino[NDir] = p[NDir] /\ p[NDir] \in Blk /\ p[NDir] \notin Others
      /\ \A m \in 0 .. NDir : ino[m] = p[m]
  BY <1>1 DEF InitFS
<1>3. \A c \in Cell : blk[p[NDir]][c] = p[NDir + 1 + c]
  BY <1>2 DEF InitFS
<1>4. ASSUME NEW m \in Meta PROVE get_nth_meta_blknum(m) = p[m]
  BY <1>1, <1>2, <1>3 DEF get_nth_meta_blknum
<1>5. Place = p
  BY <1>1, <1>4 DEF Place
<1>6. ASSUME NEW b \in Blk
      PROVE  b \in Avail <=> b \notin Others /\ \A m \in Meta : p[m] # b
  <2>1. bn2bmpidx(b) \in BmpIdx /\ (b \in Avail <=> bmp[bn2bmpidx(b)] = 0)
    BY BlockIndex
  <2>2. bmp[bn2bmpidx(b)] = IF \E d \in Others \union {p[m] : m \in Meta} : bn2bmpidx(d) = bn2bmpidx(b)
                            THEN 1 ELSE 0
    BY <2>1 DEF InitFS
  <2>3. \A d \in Others \union {p[m] : m \in Meta} : d \in Blk
    BY <1>1, ShapeAssumption DEF Blk
  <2>4. (\E d \in Others \union {p[m] : m \in Meta} : bn2bmpidx(d) = bn2bmpidx(b))
           <=> b \in Others \/ \E m \in Meta : p[m] = b
    BY <2>3, BlockIndex
  <2> QED BY <2>1, <2>2, <2>4
<1> QED BY <1>5, <1>6, AvailBlk

LEMMA InitSafe == Init => SafeInv
<1> SUFFICES ASSUME Init PROVE SafeInv
  OBVIOUS
<1> PICK p \in Placement :
           /\ InitFS(p) /\ Place = p
           /\ Avail = {b \in Blk : b \notin Others /\ \A m \in Meta : p[m] # b}
  BY InitPlace
<1>1. /\ p \in [Meta -> Blk \ Others] /\ \A m, n \in Meta : m # n => p[m] # p[n]
      /\ NDir \in Meta /\ NDir \in Nat /\ NInd \in Nat /\ NBlk \in Nat /\ 0 \in Meta
      /\ \A m \in 0 .. NDir : m \in Meta
      /\ \A c \in Cell : NDir + 1 + c \in Meta
  BY IndirectMeta, ShapeAssumption DEF Placement, Meta, Cell
<1>2. TypeOK
  <2>1. bmp \in [BmpIdx -> {0, 1}]
    BY DEF InitFS
  <2>2. free_block_c \in [Grp -> Int]
    <3>1. IsFiniteSet(Blk)
      BY <1>1, FS_Interval DEF Blk
    <3>2. ASSUME NEW g \in Grp
          PROVE  Cardinality({b \in Blk : b \notin Others /\ (\A m \in Meta : p[m] # b)
                                            /\ blknum_to_grp(bn2bmpidx(b)) = g}) \in Nat
      BY <3>1, FS_Subset, FS_CardinalityType
    <3> QED BY <3>2 DEF InitFS
  <2>3. ino \in [0 .. NDir -> Blk]
    BY <1>1 DEF InitFS
  <2>4. blk \in [Blk -> [Cell -> Int]]
    <3>1. ASSUME NEW b \in Blk PROVE b \in Int /\ OtherTag(b) \in Int /\ Filler \in Int
      BY DEF Blk, OtherTag, Filler
    <3>2. ASSUME NEW b \in Blk, \E m \in Meta : p[m] = b
          PROVE  DataTag(CHOOSE m \in Meta : p[m] = b) \in Int
      <4>1. (CHOOSE m \in Meta : p[m] = b) \in Meta
        BY <3>2
      <4>2. \A m \in Meta : DataTag(m) \in Int
        BY <1>1 DEF DataTag, Meta
      <4> QED BY <4>1, <4>2
    <3>3. \A c \in Cell : p[NDir + 1 + c] \in Int
      BY <1>1, <3>1
    <3>4. ASSUME NEW b \in Blk
          PROVE  (IF b \in Others THEN [c \in Cell |-> OtherTag(b)]
                  ELSE IF b = p[NDir] THEN [c \in Cell |-> p[NDir + 1 + c]]
                  ELSE IF \E m \in Meta : p[m] = b
                       THEN [c \in Cell |-> DataTag(CHOOSE m \in Meta : p[m] = b)]
                       ELSE [c \in Cell |-> Filler]) \in [Cell -> Int]
      <4> DEFINE t == DataTag(CHOOSE m \in Meta : p[m] = b)
      <4>1. (\E m \in Meta : p[m] = b) => t \in Int
        BY <3>2
      <4> HIDE DEF t
      <4> QED BY <3>1, <3>3, <4>1 DEF t
    <3> QED BY <3>4 DEF InitFS
  <2> QED BY <1>1, <2>1, <2>2, <2>3, <2>4, AvailBlk DEF TypeOK, Init
<1>3. FileShape
  <2>1. \A b \in Others, c \in Cell : b \in Blk /\ blk[b][c] = OtherTag(b)
    BY ShapeAssumption DEF InitFS, Blk
  <2>2. ASSUME NEW m \in Meta \ {NDir}, NEW c \in Cell PROVE blk[p[m]][c] = DataTag(m)
    <3>1. p[m] \in Blk /\ p[m] \notin Others /\ p[m] # p[NDir]
      BY <1>1
    <3>2. (CHOOSE n \in Meta : p[n] = p[m]) = m
      BY <1>1
    <3>3. blk[p[m]] = [d \in Cell |-> DataTag(CHOOSE n \in Meta : p[n] = p[m])]
      BY <3>1 DEF InitFS
    <3> QED BY <3>2, <3>3
  <2> QED BY <1>1, <2>1, <2>2 DEF FileShape
<1>4. LogShape /\ FlightShape /\ CopyShape /\ CacheShape
  BY DEF Init, LogShape, FlightShape, CopyShape, CacheShape
<1> QED BY <1>2, <1>3, <1>4 DEF SafeInv

-----------------------------------------------------------------------------
LEMMA SafeInvariance == Spec => []SafeInv
BY InitSafe, NextSafe, PTL DEF Spec

LEMMA SafeFile == SafeInv => FileIntact
<1> SUFFICES ASSUME SafeInv PROVE FileIntact
  OBVIOUS
<1>1. \A m \in Meta : Place[m] = get_nth_meta_blknum(m)
  BY DEF Place
<1>2. RefsAllocated
  BY <1>1 DEF SafeInv, FileShape, RefsAllocated
<1>3. NoSharing
  BY <1>1 DEF SafeInv, FileShape, NoSharing
<1>4. DataIntact
  BY <1>1 DEF SafeInv, FileShape, DataIntact
<1> QED BY <1>2, <1>3, <1>4 DEF FileIntact

(* Wherever a relocation stands, is killed and is started again: what the  *)
(* file refers to is marked in use, no block is shared, and the contents   *)
(* read through the pointers, like those of the foreign blocks, are the    *)
(* ones there were.                                                        *)
THEOREM FileSafety == Spec => []FileIntact
BY SafeInvariance, SafeFile, PTL

-----------------------------------------------------------------------------
(* Counts. *)

LEMMA AvailFinite == ASSUME NEW g PROVE IsFiniteSet(AvailIn(g)) /\ Cardinality(AvailIn(g)) \in Nat
<1>1. IsFiniteSet(Blk)
  BY ShapeAssumption, FS_Interval DEF Blk
<1>2. AvailIn(g) \in SUBSET Blk
  BY AvailBlk DEF AvailIn
<1> QED BY <1>1, <1>2, FS_Subset, FS_CardinalityType

(* Taking a block from the free ones, or giving it back, changes the       *)
(* number of free blocks of its own group by one and of no other.          *)
LEMMA CountTaken ==
    ASSUME NEW b \in Avail, Avail' = Avail \ {b}, NEW g
    PROVE  Cardinality(AvailIn(g)') = Cardinality(AvailIn(g)) - (IF g = GrpOf(b) THEN 1 ELSE 0)
<1>1. IsFiniteSet(AvailIn(g)) /\ Cardinality(AvailIn(g)) \in Nat
  BY AvailFinite
<1>2. \A d : GrpOf(d)' = GrpOf(d)
  BY DEF GrpOf, blknum_to_grp, bn2bmpidx
<1>3. CASE g = GrpOf(b)
  <2>1. AvailIn(g)' = AvailIn(g) \ {b} /\ b \in AvailIn(g)
    BY <1>2, <1>3 DEF AvailIn
  <2> QED BY <1>1, <1>3, <2>1, FS_RemoveElement
<1>4. CASE g # GrpOf(b)
  <2>1. AvailIn(g)' = AvailIn(g)
    BY <1>2, <1>4 DEF AvailIn
  <2> QED BY <1>1, <1>4, <2>1
<1> QED BY <1>3, <1>4

LEMMA CountGiven ==
    ASSUME NEW b, b \notin Avail, Avail' = Avail \union {b}, NEW g
    PROVE  Cardinality(AvailIn(g)') = Cardinality(AvailIn(g)) + (IF g = GrpOf(b) THEN 1 ELSE 0)
<1>1. IsFiniteSet(AvailIn(g)) /\ Cardinality(AvailIn(g)) \in Nat
  BY AvailFinite
<1>2. \A d : GrpOf(d)' = GrpOf(d)
  BY DEF GrpOf, blknum_to_grp, bn2bmpidx
<1>3. CASE g = GrpOf(b)
  <2>1. AvailIn(g)' = AvailIn(g) \union {b} /\ b \notin AvailIn(g)
    BY <1>2, <1>3 DEF AvailIn
  <2> QED BY <1>1, <1>3, <2>1, FS_AddElement
<1>4. CASE g # GrpOf(b)
  <2>1. AvailIn(g)' = AvailIn(g)
    BY <1>2, <1>4 DEF AvailIn
  <2> QED BY <1>1, <1>4, <2>1
<1> QED BY <1>3, <1>4

LEMMA CountKept == ASSUME Avail' = Avail, NEW g PROVE AvailIn(g)' = AvailIn(g)
BY DEF AvailIn, GrpOf, blknum_to_grp, bn2bmpidx

(* The steps that write nothing keep the counts, unless they leave a       *)
(* relocation between its two writes.                                      *)
LEMMA CountFrame ==
    ASSUME SafeInv, ExactCounts, UNCHANGED fsvars, \A g \in Grp : Due(g)' = Due(g)
    PROVE  ExactCounts'
<1>1. free_block_c' = free_block_c /\ Avail' = Avail
  BY DeviceKept DEF fsvars
<1>2. \A g \in Grp : AvailIn(g)' = AvailIn(g)
  BY <1>1, CountKept
<1> QED BY <1>1, <1>2 DEF ExactCounts

LEMMA GrpOfConstant == ASSUME NEW b PROVE GrpOf(b)' = GrpOf(b)
BY DEF GrpOf, blknum_to_grp, bn2bmpidx

LEMMA AllocCounts ==
    ASSUME SafeInv, kills = 0, ExactCounts, PacketCounts, NothingLost, AllocWrite
    PROVE  ExactCounts' /\ PacketCounts' /\ NothingLost'
<1>1. AllocEffect
  BY AllocWriteEffect
<1>2. /\ pc = "alloc" /\ pc' = "alloc" /\ choice' = choice /\ src' = src /\ wlog' = wlog
      /\ GrpOf(choice)' = GrpOf(choice) /\ choice \in Blk /\ GrpOf(choice) \in Grp
      /\ free_block_c \in [Grp -> Int] /\ Count(wlog)' = Count(wlog)
  BY <1>1, BlockIndex DEF AllocEffect, SafeInv, TypeOK, FlightShape, GrpOf, blknum_to_grp, bn2bmpidx, Count
<1>3. \A g \in Grp : Cardinality(AvailIn(g)) \in Nat
  BY AvailFinite
<1>4. CASE pos = 0
  <2>1. /\ choice \in Avail /\ Avail' = Avail \ {choice} /\ free_block_c' = free_block_c
        /\ pos' = 1 /\ Place' = Place
    BY <1>1, <1>4 DEF AllocEffect, SafeInv, FlightShape
  <2>2. ExactCounts'
    <3> SUFFICES ASSUME NEW g \in Grp
                 PROVE  free_block_c'[g] = Cardinality(AvailIn(g)') + Due(g)'
      BY DEF ExactCounts
    <3>1. Cardinality(AvailIn(g)') = Cardinality(AvailIn(g)) - (IF g = GrpOf(choice) THEN 1 ELSE 0)
      BY <2>1, CountTaken
    <3>2. Due(g) = 0 /\ Due(g)' = IF g = GrpOf(choice) THEN 1 ELSE 0
      BY <1>2, <1>4, <2>1 DEF Due
    <3> QED BY <1>2, <1>3, <2>1, <3>1, <3>2 DEF ExactCounts
  <2>3. PacketCounts'
    BY <1>2, <1>4, <2>1 DEF PacketCounts
  <2>4. NothingLost'
    BY <1>2, <2>1 DEF NothingLost
  <2> QED BY <2>2, <2>3, <2>4
<1>5. CASE pos = 1
  <2>1. /\ Avail' = Avail /\ pos' = 2 /\ Place' = Place
        /\ free_block_c' = [free_block_c EXCEPT ![GrpOf(choice)] = Count(wlog)]
        /\ Count(wlog) = free_block_c[GrpOf(choice)] - 1
    BY <1>1, <1>2, <1>5 DEF AllocEffect, PacketCounts
  <2>2. ExactCounts'
    <3> SUFFICES ASSUME NEW g \in Grp
                 PROVE  free_block_c'[g] = Cardinality(AvailIn(g)') + Due(g)'
      BY DEF ExactCounts
    <3>1. AvailIn(g)' = AvailIn(g)
      BY <2>1, CountKept
    <3>2. Due(g)' = 0 /\ Due(g) = IF g = GrpOf(choice) THEN 1 ELSE 0
      BY <1>2, <1>5, <2>1 DEF Due
    <3> QED BY <1>2, <1>3, <2>1, <3>1, <3>2 DEF ExactCounts
  <2>3. PacketCounts'
    BY <1>2, <1>5, <2>1 DEF PacketCounts
  <2>4. NothingLost'
    BY <1>2, <2>1 DEF NothingLost
  <2> QED BY <2>2, <2>3, <2>4
<1> QED BY <1>1, <1>4, <1>5 DEF AllocEffect

LEMMA ReplaceCounts ==
    ASSUME SafeInv, kills = 0, ExactCounts, PacketCounts, NothingLost, ReplaceWrite
    PROVE  ExactCounts' /\ PacketCounts' /\ NothingLost'
<1>1. ReplaceEffect
  BY ReplaceWriteEffect
<1>2. /\ pc = "replace" /\ pc' = "replace" /\ choice' = choice /\ src' = src /\ wlog_replace' = wlog_replace
      /\ GrpOf(src)' = GrpOf(src) /\ src \in Blk /\ GrpOf(src) \in Grp
      /\ free_block_c \in [Grp -> Int] /\ Count(wlog_replace)' = Count(wlog_replace)
  BY <1>1, BlockIndex DEF ReplaceEffect, SafeInv, TypeOK, FlightShape, GrpOf, blknum_to_grp, bn2bmpidx, Count
<1>3. \A g \in Grp : Cardinality(AvailIn(g)) \in Nat
  BY AvailFinite
<1>4. CASE pos = 0
  <2>1. /\ src \notin Avail /\ Avail' = Avail \union {src} /\ free_block_c' = free_block_c
        /\ pos' = 1 /\ Place' = Place
    BY <1>1, <1>4 DEF ReplaceEffect, SafeInv, FlightShape
  <2>2. ExactCounts'
    <3> SUFFICES ASSUME NEW g \in Grp
                 PROVE  free_block_c'[g] = Cardinality(AvailIn(g)') + Due(g)'
      BY DEF ExactCounts
    <3>1. Cardinality(AvailIn(g)') = Cardinality(AvailIn(g)) + (IF g = GrpOf(src) THEN 1 ELSE 0)
      BY <2>1, CountGiven
    <3>2. Due(g) = 0 /\ Due(g)' = IF g = GrpOf(src) THEN -1 ELSE 0
      BY <1>2, <1>4, <2>1 DEF Due
    <3> QED BY <1>2, <1>3, <2>1, <3>1, <3>2 DEF ExactCounts
  <2>3. PacketCounts'
    BY <1>2, <1>4, <2>1 DEF PacketCounts
  <2>4. NothingLost'
    BY <1>2, <2>1 DEF NothingLost
  <2> QED BY <2>2, <2>3, <2>4
<1>5. CASE pos = 1
  <2>1. /\ Avail' = Avail /\ pos' = 2 /\ Place' = Place
        /\ free_block_c' = [free_block_c EXCEPT ![GrpOf(src)] = Count(wlog_replace)]
        /\ Count(wlog_replace) = free_block_c[GrpOf(src)] + 1
    BY <1>1, <1>2, <1>5 DEF ReplaceEffect, PacketCounts
  <2>2. ExactCounts'
    <3> SUFFICES ASSUME NEW g \in Grp
                 PROVE  free_block_c'[g] = Cardinality(AvailIn(g)') + Due(g)'
      BY DEF ExactCounts
    <3>1. AvailIn(g)' = AvailIn(g)
      BY <2>1, CountKept
    <3>2. Due(g)' = 0 /\ Due(g) = IF g = GrpOf(src) THEN -1 ELSE 0
      BY <1>2, <1>5, <2>1 DEF Due
    <3> QED BY <1>2, <1>3, <2>1, <3>1, <3>2 DEF ExactCounts
  <2>3. PacketCounts'
    BY <1>2, <1>5, <2>1 DEF PacketCounts
  <2>4. NothingLost'
    BY <1>2, <2>1 DEF NothingLost
  <2> QED BY <2>2, <2>3, <2>4
<1> QED BY <1>1, <1>4, <1>5 DEF ReplaceEffect

LEMMA CountNext == SafeInv /\ CountInv /\ [Next]_vars => CountInv'
<1> SUFFICES ASSUME SafeInv, CountInv, [Next]_vars, kills' = 0
             PROVE  ExactCounts' /\ PacketCounts' /\ NothingLost'
  BY DEF CountInv
<1>0. kills = 0 /\ ~Kill
  BY DEF Next, Kill, SafeInv, TypeOK, choice_alloc, Begin, wpkt_relocate, AllocWrite, AllocComplete,
     typeinfo_phys_copy, StealReplace, LogRelink, RelinkWrite, RelinkComplete, ReplaceWrite,
     choice_mark_alloc, vars
<1> USE <1>0
<1>1. ExactCounts /\ PacketCounts /\ NothingLost
  BY DEF CountInv
<1> USE DEF CountInv
<1>2. CASE choice_alloc
  <2>1. UNCHANGED fsvars /\ pc = "idle" /\ pc' = "idle"
    BY <1>2 DEF choice_alloc
  <2>2. \A g \in Grp : Due(g)' = Due(g)
    BY <2>1 DEF Due
  <2> QED BY <1>1, <2>1, <2>2, CountFrame, DeviceKept DEF PacketCounts, NothingLost
<1>3. ASSUME NEW m \in Meta, NEW c \in ccache, Begin(m, c)
      PROVE  ExactCounts' /\ PacketCounts' /\ NothingLost'
  <2>1. UNCHANGED fsvars /\ pc = "idle" /\ pc' = "alloc" /\ pos' = 0 /\ choice' = c
    BY <1>3 DEF Begin
  <2>2. \A g \in Grp : Due(g)' = Due(g)
    BY <2>1 DEF Due
  <2>3. PacketCounts'
    <3>1. Count(wlog)' = free_block_c[GrpOf(c)] - 1
      BY <1>3, BeginLog DEF Count
    <3>2. free_block_c' = free_block_c /\ GrpOf(choice)' = GrpOf(c)
      BY <2>1 DEF fsvars, GrpOf, blknum_to_grp, bn2bmpidx
    <3> QED BY <2>1, <3>1, <3>2 DEF PacketCounts
  <2> QED BY <1>1, <2>1, <2>2, <2>3, CountFrame, DeviceKept DEF NothingLost
<1>4. CASE AllocComplete
  <2>1. UNCHANGED fsvars /\ pc = "alloc" /\ pc' = "copy" /\ choice' = choice /\ src' = src
    BY <1>4 DEF AllocComplete
  <2>2. pos = 2
    <3>1. wlog = Packet(choice, 1, Count(wlog)) /\ pos \in Nat /\ pos <= 2
      BY <2>1 DEF SafeInv, LogShape, TypeOK
    <3> QED BY <1>4, <3>1, PacketFacts DEF AllocComplete, CommitDone
  <2>3. \A g \in Grp : Due(g)' = Due(g)
    BY <2>1, <2>2 DEF Due
  <2> QED BY <1>1, <2>1, <2>3, CountFrame, DeviceKept DEF PacketCounts, NothingLost
<1>5. CASE typeinfo_phys_copy
  <2>1. /\ pc = "copy" /\ pc' = "copy" /\ free_block_c' = free_block_c
        /\ choice' = choice /\ src' = src /\ Avail' = Avail /\ Place' = Place
    BY <1>5, CopyEffect DEF typeinfo_phys_copy
  <2>2. \A g \in Grp : Due(g)' = Due(g) /\ AvailIn(g)' = AvailIn(g)
    BY <2>1, CountKept DEF Due
  <2> QED BY <1>1, <2>1, <2>2 DEF ExactCounts, PacketCounts, NothingLost
<1>6. CASE StealReplace
  <2>1. UNCHANGED fsvars /\ pc = "copy" /\ pc' = "stolen" /\ choice' = choice /\ src' = src
    BY <1>6 DEF StealReplace
  <2>2. \A g \in Grp : Due(g)' = Due(g)
    BY <2>1 DEF Due
  <2>3. PacketCounts'
    <3>1. Count(wlog_replace)' = free_block_c[GrpOf(src)] + 1
      BY <1>6, StealLog DEF Count
    <3>2. free_block_c' = free_block_c /\ GrpOf(src)' = GrpOf(src)
      BY <2>1 DEF fsvars, GrpOf, blknum_to_grp, bn2bmpidx
    <3> QED BY <2>1, <3>1, <3>2 DEF PacketCounts
  <2> QED BY <1>1, <2>1, <2>2, <2>3, CountFrame, DeviceKept DEF NothingLost
<1>7. CASE LogRelink \/ RelinkComplete
  <2>1. /\ UNCHANGED fsvars /\ pc \in {"stolen", "relink"} /\ pc' \in {"relink", "replace"}
        /\ choice' = choice /\ src' = src /\ wlog_replace' = wlog_replace /\ (pc' = "replace" => pos' = 0)
    BY <1>7 DEF LogRelink, RelinkComplete
  <2>2. \A g \in Grp : Due(g)' = Due(g)
    BY <2>1 DEF Due
  <2>3. PacketCounts'
    <3>1. /\ Count(wlog_replace)' = Count(wlog_replace) /\ free_block_c' = free_block_c
          /\ GrpOf(src)' = GrpOf(src)
      BY <2>1 DEF fsvars, GrpOf, blknum_to_grp, bn2bmpidx, Count
    <3> QED BY <1>1, <2>1, <3>1 DEF PacketCounts
  <2> QED BY <1>1, <2>1, <2>2, <2>3, CountFrame, DeviceKept DEF NothingLost
<1>8. CASE RelinkWrite
  <2>1. /\ pc = "relink" /\ pc' = "relink" /\ choice' = choice /\ src' = src /\ wlog_replace' = wlog_replace
        /\ bmp' = bmp /\ free_block_c' = free_block_c /\ Place' = [Place EXCEPT ![sel] = choice]
    BY <1>8, CommitRelink DEF RelinkWrite, logvars
  <2>2. Avail' = Avail
    BY <2>1, BitmapKept
  <2>3. \A g \in Grp : Due(g)' = Due(g) /\ AvailIn(g)' = AvailIn(g)
    BY <2>1, <2>2, CountKept DEF Due
  <2>4. PacketCounts'
    <3>1. /\ Count(wlog_replace)' = Count(wlog_replace) /\ GrpOf(src)' = GrpOf(src)
      BY <2>1 DEF GrpOf, blknum_to_grp, bn2bmpidx, Count
    <3> QED BY <1>1, <2>1, <3>1 DEF PacketCounts
  <2>5. NothingLost'
    <3>1. pos = 0 /\ src = Place[sel] /\ sel \in Meta /\ Place \in [Meta -> Blk \ Others]
      BY <1>8, <2>1, CommitRelink DEF SafeInv, FlightShape, FileShape, Moved, TypeOK
    <3> QED BY <1>1, <2>1, <2>2, <3>1 DEF NothingLost
  <2> QED BY <1>1, <2>1, <2>3, <2>4, <2>5 DEF ExactCounts
<1>9. CASE choice_mark_alloc
  <2>1. UNCHANGED fsvars /\ pc = "replace" /\ pc' = "idle"
    BY <1>9 DEF choice_mark_alloc
  <2>2. pos = 2
    <3>1. wlog_replace = Packet(src, 0, Count(wlog_replace)) /\ pos \in Nat /\ pos <= 2
      BY <2>1 DEF SafeInv, LogShape, TypeOK
    <3> QED BY <1>9, <3>1, PacketFacts DEF choice_mark_alloc, CommitDone
  <2>3. \A g \in Grp : Due(g)' = Due(g)
    BY <2>1, <2>2 DEF Due
  <2>4. NothingLost'
    <3>1. src \in Avail /\ choice = Place[sel] /\ sel \in Meta
      BY <2>1, <2>2 DEF SafeInv, FlightShape, Moved, TypeOK
    <3> QED BY <1>1, <2>1, <3>1, DeviceKept DEF NothingLost
  <2> QED BY <1>1, <2>1, <2>3, <2>4, CountFrame DEF PacketCounts
<1>10. CASE UNCHANGED vars
  <2>1. UNCHANGED <<fsvars, pc, pos, choice, src, wlog, wlog_replace, free_block_c>>
    BY <1>10 DEF vars, logvars, fsvars
  <2>2. \A g \in Grp : Due(g)' = Due(g)
    BY <2>1 DEF Due, GrpOf, blknum_to_grp, bn2bmpidx
  <2>3. PacketCounts'
    BY <1>1, <2>1 DEF PacketCounts, GrpOf, blknum_to_grp, bn2bmpidx, Count
  <2> QED BY <1>1, <2>1, <2>2, <2>3, CountFrame, DeviceKept DEF NothingLost
<1> QED BY <1>1, <1>2, <1>3, <1>4, <1>5, <1>6, <1>7, <1>8, <1>9, <1>10, AllocCounts, ReplaceCounts
        DEF Next, wpkt_relocate

LEMMA InitCounts == Init => CountInv
<1> SUFFICES ASSUME Init PROVE ExactCounts /\ PacketCounts /\ NothingLost
  BY DEF CountInv
<1> PICK p \in Placement :
           /\ InitFS(p) /\ Place = p
           /\ Avail = {b \in Blk : b \notin Others /\ \A m \in Meta : p[m] # b}
  BY InitPlace
<1>1. pc = "idle"
  BY DEF Init
<1>2. ExactCounts
  <2> SUFFICES ASSUME NEW g \in Grp PROVE free_block_c[g] = Cardinality(AvailIn(g)) + Due(g)
    BY DEF ExactCounts
  <2> DEFINE F == {b \in Blk : b \notin Others /\ (\A m \in Meta : p[m] # b)
                                /\ blknum_to_grp(bn2bmpidx(b)) = g}
  <2>1. free_block_c[g] = Cardinality(F)
    BY DEF InitFS
  <2>2. F = AvailIn(g)
    BY DEF AvailIn, GrpOf
  <2> HIDE DEF F
  <2>3. Due(g) = 0 /\ Cardinality(AvailIn(g)) \in Nat
    BY <1>1, AvailFinite DEF Due
  <2> QED BY <2>1, <2>2, <2>3
<1>3. PacketCounts
  BY <1>1 DEF PacketCounts
<1>4. NothingLost
  BY DEF NothingLost
<1> QED BY <1>2, <1>3, <1>4

LEMMA SafeCounts == SafeInv /\ CountInv => CountsAtRest
<1> SUFFICES ASSUME SafeInv, CountInv, pc = "idle"
             PROVE  /\ ccache \subseteq Avail
                    /\ kills = 0 =>
                          /\ \A g \in Grp : free_block_c[g] = FreeIn(g)
                          /\ Blk \ Avail = Others \union {get_nth_meta_blknum(m) : m \in Meta}
  BY DEF CountsAtRest
<1>1. ccache \subseteq Avail
  BY DEF SafeInv, CacheShape
<1>2. ASSUME kills = 0, NEW g \in Grp PROVE free_block_c[g] = FreeIn(g)
  <2>1. FreeIn(g) = Cardinality(AvailIn(g)) /\ Cardinality(AvailIn(g)) \in Nat
    BY AvailFinite DEF FreeIn, AvailIn, GrpOf
  <2>2. Due(g) = 0
    BY DEF Due
  <2> QED BY <1>2, <2>1, <2>2 DEF CountInv, ExactCounts
<1>3. ASSUME kills = 0
      PROVE  Blk \ Avail = Others \union {get_nth_meta_blknum(m) : m \in Meta}
  <2>1. \A m \in Meta : Place[m] = get_nth_meta_blknum(m)
    BY DEF Place
  <2>2. \A m \in Meta : Place[m] \in Blk \ Avail
    BY DEF SafeInv, FileShape
  <2>3. Others \subseteq Blk \ Avail
    BY ShapeAssumption DEF SafeInv, FileShape, Blk
  <2>4. \A b \in Blk \ Avail : b \in Others \/ \E m \in Meta : Place[m] = b
    BY <1>3 DEF CountInv, NothingLost
  <2> QED BY <2>1, <2>2, <2>3, <2>4
<1> QED BY <1>1, <1>2, <1>3

(* Between relocations what the tool believes free is free; and as long as *)
(* no run was killed, every group descriptor counts the free blocks of its *)
(* bitmap and every block in use has an owner.                             *)
THEOREM CountSafety == Spec => []CountsAtRest
<1>1. Spec => []CountInv
  BY InitCounts, CountNext, SafeInvariance, PTL DEF Spec
<1> QED BY <1>1, SafeInvariance, SafeCounts, PTL

-----------------------------------------------------------------------------
(* The relocation implements the abstract placement of BlockMap.  What is  *)
(* read at a position is constant, the placement and the blocks in use are *)
(* changed by one write each.                                              *)

Used == Blk \ Avail
Held == [m \in Meta \ {NDir} |-> blk[get_nth_meta_blknum(m)]]

Tags == [m \in Meta \ {NDir} |-> [c \in Cell |-> DataTag(m)]]

LEMMA HeldConstant == SafeInv => Held = Tags
<1> SUFFICES ASSUME SafeInv, NEW m \in Meta \ {NDir}
             PROVE  blk[get_nth_meta_blknum(m)] = [c \in Cell |-> DataTag(m)]
  BY DEF Held, Tags
<1>1. Place[m] = get_nth_meta_blknum(m) /\ Place[m] \in Blk
  BY DEF Place, SafeInv, FileShape
<1>2. blk[Place[m]] \in [Cell -> Int] /\ \A c \in Cell : blk[Place[m]][c] = DataTag(m)
  BY <1>1 DEF SafeInv, TypeOK, FileShape
<1>3. blk[Place[m]] = [c \in Cell |-> DataTag(m)]
  BY <1>2
<1> QED BY <1>1, <1>3

LEMMA HeldKept == ASSUME SafeInv, SafeInv' PROVE Held' = Held
<1>1. Held = Tags
  BY HeldConstant
<1>2. SafeInv' => (Held = Tags)'
  BY HeldConstant, PTL
<1>3. Tags' = Tags
  BY DEF Tags, DataTag, Meta, Cell
<1> QED BY <1>1, <1>2, <1>3

(* A step that changes neither the placement nor the blocks in use. *)
LEMMA MapStutter ==
    ASSUME SafeInv, SafeInv', Place' = Place, Avail' = Avail
    PROVE  UNCHANGED Map!mapVars
<1>1. Used' = Used
  BY DEF Used, Blk
<1>2. Held' = Held
  BY HeldKept
<1> QED BY <1>1, <1>2 DEF Map!mapVars, Used, Held, Place

LEMMA StepIsMap == SafeInv /\ [Next]_vars => [Map!MapNext]_(Map!mapVars)
<1> SUFFICES ASSUME SafeInv, [Next]_vars PROVE [Map!MapNext]_(Map!mapVars)
  OBVIOUS
<1>0. SafeInv' /\ Held' = Held
  BY NextSafe, HeldKept
<1> USE <1>0
<1>1. ASSUME UNCHANGED fsvars PROVE UNCHANGED Map!mapVars
  BY <1>1, DeviceKept, MapStutter
<1>2. CASE AllocWrite
  <2>1. AllocEffect
    BY <1>2, AllocWriteEffect
  <2>2. CASE pos = 0
    <3>1. choice \in Blk /\ choice \in Avail /\ Avail' = Avail \ {choice} /\ Place' = Place
      BY <2>1, <2>2 DEF AllocEffect, SafeInv, FlightShape
    <3>2. choice \notin Used /\ Used' = Used \union {choice}
      BY <3>1 DEF Used, Blk
    <3>3. Map!Reserve(choice)
      BY <3>1, <3>2 DEF Map!Reserve, Used, Held, Place
    <3> QED BY <3>1, <3>3 DEF Map!MapNext
  <2>3. CASE pos = 1
    BY <2>1, <2>3, MapStutter DEF AllocEffect
  <2> QED BY <2>1, <2>2, <2>3 DEF AllocEffect
<1>3. CASE RelinkWrite
  <2>1. /\ pos = 0 /\ bmp' = bmp /\ Place' = [Place EXCEPT ![sel] = choice]
    BY <1>3, CommitRelink
  <2>2. Avail' = Avail /\ pc = "relink"
    BY <1>3, <2>1, BitmapKept DEF RelinkWrite
  <2>3. /\ sel \in Meta /\ choice \in Blk \ Others /\ choice \notin Avail
        /\ \A m \in Meta : Place[m] # choice
    BY <2>1, <2>2 DEF SafeInv, FlightShape, TypeOK, Moved
  <2>4. Used' = Used /\ choice \in Used
    BY <2>2, <2>3 DEF Used, Blk
  <2>5. choice \notin Others \union {Place[m] : m \in Meta}
    BY <2>3
  <2>6. Map!Point(sel, choice)
    BY <2>1, <2>4, <2>5 DEF Map!Point, Map!Referred, Used, Held, Place
  <2> QED BY <2>3, <2>6 DEF Map!MapNext
<1>4. CASE ReplaceWrite
  <2>1. ReplaceEffect
    BY <1>4, ReplaceWriteEffect
  <2>2. CASE pos = 0
    <3>1. /\ src \in Blk \ Others /\ src \notin Avail /\ Avail' = Avail \union {src} /\ Place' = Place
          /\ \A m \in Meta : Place[m] # src
      BY <2>1, <2>2 DEF ReplaceEffect, SafeInv, FlightShape, Moved
    <3>2. src \in Used /\ Used' = Used \ {src}
      BY <3>1 DEF Used, Blk
    <3>3. src \notin Others \union {Place[m] : m \in Meta}
      BY <3>1
    <3>4. Map!Release(src)
      BY <3>1, <3>2, <3>3 DEF Map!Release, Map!Referred, Used, Held, Place
    <3> QED BY <3>1, <3>4 DEF Map!MapNext
  <2>3. CASE pos = 1
    BY <2>1, <2>3, MapStutter DEF ReplaceEffect
  <2> QED BY <2>1, <2>2, <2>3 DEF ReplaceEffect
<1>5. CASE typeinfo_phys_copy
  BY <1>5, CopyEffect, MapStutter
<1>6. CASE UNCHANGED vars
  BY <1>1, <1>6 DEF vars
<1>7. ASSUME NEW m \in Meta, NEW c \in ccache, Begin(m, c) PROVE UNCHANGED fsvars
  BY <1>7 DEF Begin
<1>8. CASE choice_alloc \/ AllocComplete \/ StealReplace \/ LogRelink \/ RelinkComplete
           \/ choice_mark_alloc \/ Kill
  BY <1>1, <1>8 DEF choice_alloc, AllocComplete, StealReplace, LogRelink, RelinkComplete,
                    choice_mark_alloc, Kill
<1> QED BY <1>1, <1>2, <1>3, <1>4, <1>5, <1>6, <1>7, <1>8 DEF Next, wpkt_relocate

(* Every behaviour of the relocation, killed runs included, is a behaviour *)
(* of BlockMap: blocks are reserved before a position moves to them and    *)
(* released when none is on them, and nothing read through the file ever   *)
(* changes.                                                                *)
THEOREM MoveRefinement == Spec => MovesSafely
<1>1. Init => Map!MapInit
  <2> SUFFICES ASSUME Init PROVE Map!MapInit
    OBVIOUS
  <2> PICK p \in Placement :
             /\ InitFS(p) /\ Place = p
             /\ Avail = {b \in Blk : b \notin Others /\ \A m \in Meta : p[m] # b}
    BY InitPlace
  <2>1. Place \in [Meta -> Blk \ Others] /\ \A m, n \in Meta : m # n => Place[m] # Place[n]
    BY DEF Placement
  <2>2. Used = Others \union {Place[m] : m \in Meta}
    BY <2>1, ShapeAssumption DEF Used, Blk
  <2> QED BY <2>1, <2>2 DEF Map!MapInit, Map!Referred, Used, Place
<1> QED BY <1>1, StepIsMap, SafeInvariance, PTL DEF Spec, MovesSafely, Map!MapSpec

(* With a table of two entries or more (IO_MAX_ACCESS is far larger) no    *)
(* assertion of the log fails: it is started when stopped, committed when  *)
(* started, stopped when empty and never fuller than its table.            *)
THEOREM NoAbort ==
    ASSUME MaxEntries >= 2
    PROVE  Spec => []~aborted
<1>1. Init => ~aborted
  BY DEF Init
<1>2. SafeInv /\ ~aborted /\ [Next]_vars => ~aborted'
  <2> SUFFICES ASSUME SafeInv, ~aborted, [Next]_vars PROVE ~aborted'
    OBVIOUS
  <2> DEFINE started == fsl_wlog_start(fsl_wlog_init)
  <2>0. /\ StartOK(fsl_wlog_init) /\ started.idx = 0 /\ StopOK(Emptied(wlog))
        /\ \A x : AddOK(started, <<x>>)
        /\ \A x, y : AddOK(started, <<x, y>>)
    BY MaxEntriesAssumption
       DEF StartOK, fsl_wlog_init, fsl_wlog_start, AddOK, StopOK, Emptied
  <2> HIDE DEF started
  <2>1. ASSUME NEW m \in Meta, NEW c \in ccache, Begin(m, c) PROVE ~aborted'
    <3>1. wlog = fsl_wlog_init
      BY <2>1 DEF Begin, SafeInv, LogShape
    <3> QED BY <2>0, <2>1, <3>1 DEF Begin, block_alloc, started
  <2>2. CASE AllocComplete
    <3>1. wlog = Packet(choice, 1, Count(wlog))
      BY <2>2 DEF AllocComplete, SafeInv, LogShape
    <3>2. CommitOK(wlog)
      BY <3>1, PacketFacts DEF CommitOK
    <3> QED BY <2>0, <2>2, <3>2 DEF AllocComplete
  <2>3. CASE StealReplace
    <3>1. wlog = fsl_wlog_init
      BY <2>3 DEF StealReplace, SafeInv, LogShape
    <3> QED BY <2>0, <2>3, <3>1 DEF StealReplace, block_replace, started
  <2>4. CASE LogRelink
    <3>1. wlog = fsl_wlog_init
      BY <2>4 DEF LogRelink, SafeInv, LogShape
    <3>2. \E x : block_relink_meta(sel, choice) = <<x>>
      BY DEF block_relink_meta
    <3>3. AddOK(started, block_relink_meta(sel, choice))
      BY <2>0, <3>2
    <3> QED BY <2>0, <2>4, <3>1, <3>3 DEF LogRelink, started
  <2>5. CASE RelinkComplete
    <3>1. wlog.idx = 1
      BY <2>5 DEF RelinkComplete, SafeInv, LogShape
    <3>2. CommitOK(wlog)
      BY <3>1 DEF CommitOK
    <3> QED BY <2>0, <2>5, <3>2 DEF RelinkComplete
  <2>6. CASE choice_mark_alloc
    <3>1. wlog_replace = Packet(src, 0, Count(wlog_replace))
      BY <2>6 DEF choice_mark_alloc, SafeInv, LogShape
    <3>2. CommitOK(wlog_replace)
      BY <3>1, PacketFacts DEF CommitOK
    <3> QED BY <2>6, <3>2 DEF choice_mark_alloc
  <2>7. CASE choice_alloc \/ AllocWrite \/ typeinfo_phys_copy \/ RelinkWrite \/ ReplaceWrite \/ Kill
             \/ UNCHANGED vars
    BY <2>7 DEF choice_alloc, AllocWrite, typeinfo_phys_copy, RelinkWrite, ReplaceWrite, Kill, vars
  <2> QED BY <2>1, <2>2, <2>3, <2>4, <2>5, <2>6, <2>7 DEF Next, wpkt_relocate
<1> QED BY <1>1, <1>2, SafeInvariance, PTL DEF Spec
=============================================================================
