------------------------- MODULE DescriptionProofs -------------------------
(***************************************************************************)
(* Proofs about the file-system descriptions: the ext2 block numbers, for  *)
(* any number of direct pointers, any size of an indirect block and files  *)
(* of any size below triple indirection; what fsck leaves of a FAT volume, *)
(* for any geometry and whatever its table and entries hold; and that the  *)
(* files of a volume in order keep their data through relocations, kills   *)
(* and repairs.                                                            *)
(***************************************************************************)
EXTENDS Descriptions, WellFoundedInduction, FiniteSetTheorems, SequenceTheorems, TLAPS

-----------------------------------------------------------------------------
(* Arithmetic. *)

LEMMA Parts ==
    ASSUME NEW w \in Nat \ {0}, NEW k \in Nat
    PROVE  /\ k \div w \in Nat /\ k % w \in 0 .. w - 1 /\ (k \div w) * w \in Nat
           /\ k = (k \div w) * w + (k % w)
OBVIOUS

LEMMA PartsAre ==
    ASSUME NEW w \in Nat \ {0}, NEW q \in Nat, NEW r \in 0 .. w - 1
    PROVE  q * w + r \in Nat /\ (q * w + r) \div w = q /\ (q * w + r) % w = r
OBVIOUS

LEMMA Multiples ==
    ASSUME NEW w \in Nat \ {0}, NEW a \in Nat, NEW b \in Nat, a < b
    PROVE  a * w \in Nat /\ b * w \in Nat /\ a * w + w <= b * w
OBVIOUS

LEMMA Products ==
    ASSUME NEW a \in Nat, NEW b \in Nat, NEW c \in Nat, NEW d \in Nat, a <= c, b <= d
    PROVE  a * b \in Nat /\ c * d \in Nat /\ a * b <= c * d
OBVIOUS

LEMMA MapConsts ==
    /\ NDir \in Nat \ {0} /\ Bpi \in Nat \ {0} /\ Bpi * Bpi \in Nat \ {0} /\ MaxBlocks \in Nat \ {0}
    /\ MaxBlocks <= NDir + Bpi + Bpi * Bpi - 1 /\ Width \in Nat /\ Bpi * Bpi < Width
<1> DEFINE a == 2 * (NDir + Bpi + 2)
           b == Bpi + 2
<1>1. /\ NDir \in Nat \ {0} /\ Bpi \in Nat \ {0} /\ Width \in Nat /\ a * b < Width
      /\ MaxBlocks \in 1 .. NDir + Bpi + Bpi * Bpi - 1
  BY MapAssumption
<1>2. a \in Nat /\ b \in Nat /\ Bpi <= a /\ Bpi <= b
  BY <1>1
<1> HIDE DEF a, b
<1>3. Bpi * Bpi \in Nat /\ Bpi * Bpi <= a * b /\ a * b \in Nat
  BY <1>1, <1>2, Products
<1>4. Bpi * Bpi # 0
  BY <1>1
<1> QED BY <1>1, <1>3, <1>4

(* What lies behind the indirect block, by table and cell. *)
LEMMA CellsOf ==
    ASSUME NEW m \in 0 .. Bpi * Bpi - 1
    PROVE  /\ Wrap(m) = m /\ m \in Nat /\ m \div Bpi \in 0 .. Bpi - 1 /\ m % Bpi \in 0 .. Bpi - 1
           /\ m = (m \div Bpi) * Bpi + (m % Bpi)
<1>1. m \in Nat /\ m < Width /\ Width \in Nat \ {0}
  BY MapConsts
<1>2. m % Width = m
  BY <1>1
<1>3. m \div Bpi \in Nat /\ m % Bpi \in 0 .. Bpi - 1 /\ (m \div Bpi) * Bpi \in Nat /\ m = (m \div Bpi) * Bpi + (m % Bpi)
  BY <1>1, MapConsts, Parts
<1>4. m \div Bpi < Bpi
  <2>1. ASSUME Bpi <= m \div Bpi PROVE FALSE
    <3>1. Bpi * Bpi <= (m \div Bpi) * Bpi
      BY <1>3, <2>1, MapConsts, Products
    <3> QED BY <1>1, <1>3, <3>1, MapConsts
  <2> QED BY <1>3, <2>1, MapConsts
<1> QED BY <1>1, <1>2, <1>3, <1>4, MapConsts DEF Wrap

-----------------------------------------------------------------------------
(* The blocks by number. *)

Behind(n) == n - (NDir + Bpi)

LEMMA NthData ==
    ASSUME NEW n \in 0 .. MaxBlocks - 1
    PROVE  /\ n < NDir => get_nth_blknum(n) = Direct(n)
           /\ n >= NDir /\ n < NDir + Bpi => get_nth_blknum(n) = InIndir(n - NDir)
           /\ n >= NDir + Bpi =>
                /\ Behind(n) \in 0 .. Bpi * Bpi - 1
                /\ bi_index(n) = Behind(n) \div Bpi /\ biindir_indir_offset(n) = Behind(n) % Bpi
                /\ get_nth_blknum(n) = InBiIndir(Behind(n) \div Bpi, Behind(n) % Bpi)
<1>1. n \in Nat /\ n < NDir + Bpi + Bpi * Bpi - 1
  BY MapConsts
<1>2. CASE n < NDir
  BY <1>1, <1>2, MapConsts DEF get_nth_blknum
<1>3. CASE n >= NDir /\ n < NDir + Bpi
  BY <1>1, <1>3, MapConsts DEF get_nth_blknum
<1>4. CASE n >= NDir + Bpi
  <2>1. Behind(n) \in 0 .. Bpi * Bpi - 1
    BY <1>1, <1>4, MapConsts DEF Behind
  <2>2. Wrap(Behind(n)) = Behind(n)
    BY <2>1, CellsOf
  <2>3. bi_index(n) = Behind(n) \div Bpi /\ biindir_indir_offset(n) = Behind(n) % Bpi
    BY <2>2 DEF bi_index, biindir_indir_offset, Behind
  <2>4. ~(n < NDir) /\ ~(n < NDir + Bpi) /\ n < Bpi * Bpi + NDir + Bpi
    BY <1>1, <1>4, MapConsts
  <2> QED BY <1>4, <2>1, <2>3, <2>4, MapConsts DEF get_nth_blknum
<1> QED BY <1>1, <1>2, <1>3, <1>4, MapConsts

LEMMA Ranks ==
    /\ \A i : Rank(Direct(i)) = <<0, 0, i>>
    /\ Rank(Indir) = <<1, 0, 0>>
    /\ \A k : Rank(InIndir(k)) = <<2, 0, k>>
    /\ Rank(BiIndir) = <<3, 0, 0>>
    /\ \A q : Rank(InBi(q)) = <<4, q, 0>>
    /\ \A q, k : Rank(InBiIndir(q, k)) = <<4, q, k + 1>>
BY DEF Rank, Direct, Indir, InIndir, BiIndir, InBi, InBiIndir, Place

LEMMA Asymmetric ==
    ASSUME NEW p, NEW q, Rank(p) \in Nat \X Nat \X Nat, Rank(q) \in Nat \X Nat \X Nat, Before(p, q)
    PROVE  ~Before(q, p) /\ p # q
BY DEF Before

LEMMA DataRises ==
    ASSUME NEW a \in 0 .. MaxBlocks - 1, NEW b \in 0 .. MaxBlocks - 1, a < b
    PROVE  Before(get_nth_blknum(a), get_nth_blknum(b))
<1>1. CASE b < NDir
  <2>1. get_nth_blknum(a) = Direct(a) /\ get_nth_blknum(b) = Direct(b)
    BY <1>1, NthData, MapConsts
  <2> QED BY <2>1, Ranks DEF Before
<1>2. CASE b >= NDir /\ b < NDir + Bpi
  <2>1. get_nth_blknum(b) = InIndir(b - NDir)
    BY <1>2, NthData
  <2>2. CASE a < NDir
    BY <2>1, <2>2, NthData, Ranks DEF Before
  <2>3. CASE a >= NDir
    <3>1. get_nth_blknum(a) = InIndir(a - NDir) /\ a - NDir < b - NDir
      BY <1>2, <2>3, NthData, MapConsts
    <3> QED BY <2>1, <3>1, Ranks DEF Before
  <2> QED BY <2>2, <2>3, MapConsts
<1>3. CASE b >= NDir + Bpi
  <2>1. get_nth_blknum(b) = InBiIndir(Behind(b) \div Bpi, Behind(b) % Bpi) /\ Behind(b) \in 0 .. Bpi * Bpi - 1
    BY <1>3, NthData
  <2>2. CASE a < NDir
    BY <2>1, <2>2, NthData, Ranks DEF Before
  <2>3. CASE a >= NDir /\ a < NDir + Bpi
    BY <2>1, <2>3, NthData, Ranks DEF Before
  <2>4. CASE a >= NDir + Bpi
    <3>1. get_nth_blknum(a) = InBiIndir(Behind(a) \div Bpi, Behind(a) % Bpi) /\ Behind(a) \in 0 .. Bpi * Bpi - 1
      BY <2>4, NthData
    <3>2. Behind(a) < Behind(b) /\ Behind(a) \in Nat /\ Behind(b) \in Nat
      BY <2>1, <3>1, MapConsts DEF Behind
    <3> DEFINE qa == Behind(a) \div Bpi
               ka == Behind(a) % Bpi
               qb == Behind(b) \div Bpi
               kb == Behind(b) % Bpi
    <3>3. /\ qa \in Nat /\ ka \in 0 .. Bpi - 1 /\ qa * Bpi \in Nat /\ Behind(a) = qa * Bpi + ka
          /\ qb \in Nat /\ kb \in 0 .. Bpi - 1 /\ qb * Bpi \in Nat /\ Behind(b) = qb * Bpi + kb
      BY <3>2, Parts, MapConsts
    <3>4. get_nth_blknum(a) = InBiIndir(qa, ka) /\ get_nth_blknum(b) = InBiIndir(qb, kb)
      BY <2>1, <3>1
    <3> HIDE DEF qa, ka, qb, kb
    <3>5. ~(qb < qa)
      <4>1. qb < qa => qb * Bpi + Bpi <= qa * Bpi
        BY <3>3, Multiples, MapConsts
      <4> QED BY <3>2, <3>3, <4>1, MapConsts
    <3>6. qa = qb => ka < kb
      BY <3>2, <3>3, MapConsts
    <3>7. qa < qb \/ (qa = qb /\ ka + 1 < kb + 1)
      BY <3>3, <3>5, <3>6, MapConsts
    <3> HIDE DEF Behind
    <3>8. Rank(get_nth_blknum(a)) = <<4, qa, ka + 1>> /\ Rank(get_nth_blknum(b)) = <<4, qb, kb + 1>>
      BY <3>4, Ranks
    <3> QED BY <3>7, <3>8 DEF Before
  <2> QED BY <2>2, <2>3, <2>4, MapConsts
<1> QED BY <1>1, <1>2, <1>3, MapConsts

LEMMA DataMet ==
    ASSUME NEW n \in 1 .. MaxBlocks
    PROVE  /\ \A i \in 0 .. n - 1 : get_nth_blknum(i) \in DataBlocks(n)
           /\ \A p \in DataBlocks(n) : \E i \in 0 .. n - 1 : get_nth_blknum(i) = p
<1>0. n \in Nat /\ n <= MaxBlocks
  BY MapConsts
<1>1. ASSUME NEW i \in 0 .. n - 1 PROVE get_nth_blknum(i) \in DataBlocks(n)
  <2>0. i \in 0 .. MaxBlocks - 1 /\ i < n /\ i \in Nat
    BY <1>0, MapConsts
  <2>1. CASE i < NDir
    BY <2>0, <2>1, NthData, MapConsts DEF DataBlocks
  <2>2. CASE i >= NDir /\ i < NDir + Bpi
    <3>1. i - NDir \in 0 .. Bpi - 1 /\ NDir + (i - NDir) < n
      BY <2>0, <2>2, MapConsts
    <3> QED BY <2>0, <2>2, <3>1, NthData DEF DataBlocks
  <2>3. CASE i >= NDir + Bpi
    <3> DEFINE q == Behind(i) \div Bpi
               k == Behind(i) % Bpi
    <3>1. get_nth_blknum(i) = InBiIndir(q, k) /\ Behind(i) \in 0 .. Bpi * Bpi - 1
      BY <2>0, <2>3, NthData
    <3>2. q \in 0 .. Bpi - 1 /\ k \in 0 .. Bpi - 1 /\ Behind(i) = q * Bpi + k
      BY <3>1, CellsOf
    <3> HIDE DEF q, k
    <3>3. q * Bpi \in Nat
      BY <3>2, MapConsts
    <3>4. NDir + Bpi + q * Bpi + k < n
      BY <2>0, <3>2, <3>3, MapConsts DEF Behind
    <3>5. <<q, k>> \in {c \in (0 .. Bpi - 1) \X (0 .. Bpi - 1) : NDir + Bpi + c[1] * Bpi + c[2] < n}
      BY <3>2, <3>4
    <3> QED BY <3>1, <3>5 DEF DataBlocks
  <2> QED BY <2>0, <2>1, <2>2, <2>3, MapConsts
<1>2. ASSUME NEW p \in DataBlocks(n) PROVE \E i \in 0 .. n - 1 : get_nth_blknum(i) = p
  <2>1. CASE \E i \in 0 .. NDir - 1 : i < n /\ p = Direct(i)
    <3>1. PICK i \in 0 .. NDir - 1 : i < n /\ p = Direct(i)
      BY <2>1
    <3>2. i \in 0 .. n - 1 /\ i \in 0 .. MaxBlocks - 1 /\ i < NDir
      BY <1>0, <3>1, MapConsts
    <3> QED BY <3>1, <3>2, NthData
  <2>2. CASE \E k \in 0 .. Bpi - 1 : NDir + k < n /\ p = InIndir(k)
    <3>1. PICK k \in 0 .. Bpi - 1 : NDir + k < n /\ p = InIndir(k)
      BY <2>2
    <3>2. /\ NDir + k \in 0 .. n - 1 /\ NDir + k \in 0 .. MaxBlocks - 1
          /\ NDir + k >= NDir /\ NDir + k < NDir + Bpi /\ (NDir + k) - NDir = k
      BY <1>0, <3>1, MapConsts
    <3>3. get_nth_blknum(NDir + k) = InIndir(k)
      BY <3>2, NthData
    <3> QED BY <3>1, <3>2, <3>3
  <2>3. CASE \E q, k \in 0 .. Bpi - 1 : NDir + Bpi + q * Bpi + k < n /\ p = InBiIndir(q, k)
    <3>1. PICK q \in 0 .. Bpi - 1, k \in 0 .. Bpi - 1 : NDir + Bpi + q * Bpi + k < n /\ p = InBiIndir(q, k)
      BY <2>3
    <3>2. q \in Nat /\ k \in Nat /\ q * Bpi \in Nat /\ (q * Bpi + k) \div Bpi = q /\ (q * Bpi + k) % Bpi = k
      <4>1. q \in Nat /\ k \in 0 .. Bpi - 1 /\ Bpi \in Nat \ {0}
        BY <3>1, MapConsts
      <4>2. q * Bpi \in Nat
        BY <4>1
      <4>3. (q * Bpi + k) \div Bpi = q /\ (q * Bpi + k) % Bpi = k
        BY <4>1, PartsAre
      <4> QED BY <4>1, <4>2, <4>3
    <3> DEFINE i == NDir + Bpi + q * Bpi + k
    <3>3. i \in 0 .. n - 1 /\ i \in 0 .. MaxBlocks - 1 /\ i >= NDir + Bpi /\ Behind(i) = q * Bpi + k
      BY <1>0, <3>1, <3>2, MapConsts DEF Behind
    <3> HIDE DEF i
    <3>4. get_nth_blknum(i) = InBiIndir(q, k)
      BY <3>2, <3>3, NthData
    <3> QED BY <3>1, <3>3, <3>4
  <2> QED BY <2>1, <2>2, <2>3 DEF DataBlocks
<1> QED BY <1>1, <1>2

-----------------------------------------------------------------------------
(* Direct pointers and one indirect block. *)

Single(n) == n \in 1 .. NDir + Bpi - 1

LEMMA NthPointer ==
    ASSUME NEW n \in Nat, n < NDir + Bpi + 1
    PROVE  /\ n < NDir => get_nth_meta_blknum(n) = Direct(n)
           /\ n = NDir => get_nth_meta_blknum(n) = Indir
           /\ n > NDir => get_nth_meta_blknum(n) = InIndir(n - (NDir + 1))
<1>1. CASE n < NDir
  BY <1>1, MapConsts DEF get_nth_meta_blknum, get_nth_blknum
<1>2. CASE n = NDir
  BY <1>2, MapConsts DEF get_nth_meta_blknum
<1>3. CASE n > NDir
  <2>1. ~(n < NDir) /\ n # NDir /\ n - (NDir + 1) < Bpi
    BY <1>3, MapConsts
  <2>2. get_nth_meta_blknum(n) = get_nth_blknum(n - 1)
    BY <2>1 DEF get_nth_meta_blknum
  <2>3. ~(n - 1 < NDir) /\ n - 1 < NDir + Bpi /\ (n - 1) - NDir = n - (NDir + 1)
    BY <1>3, MapConsts
  <2>4. get_nth_blknum(n - 1) = InIndir(n - (NDir + 1))
    BY <2>3 DEF get_nth_blknum
  <2> QED BY <1>3, <2>2, <2>4, MapConsts
<1> QED BY <1>1, <1>2, <1>3, MapConsts

LEMMA PointersOf ==
    ASSUME NEW n, Single(n)
    PROVE  /\ Pointers(n) = {Direct(i) : i \in {i \in 0 .. NDir - 1 : i < n}} \union When(NDir < n, Indir)
                             \union {InIndir(k) : k \in {k \in 0 .. Bpi - 1 : NDir + k < n}}
           /\ size_to_metablocks(n) = IF n <= NDir THEN 0 ELSE 1
<1>1. n \in Nat /\ n < NDir + Bpi
  BY MapConsts DEF Single
<1>2. \A q, k \in 0 .. Bpi - 1 : q * Bpi \in Nat /\ ~(NDir + Bpi + q * Bpi + k < n) /\ ~(NDir + Bpi + q * Bpi < n)
  <2> SUFFICES ASSUME NEW q \in 0 .. Bpi - 1, NEW k \in 0 .. Bpi - 1
               PROVE  q * Bpi \in Nat /\ ~(NDir + Bpi + q * Bpi + k < n) /\ ~(NDir + Bpi + q * Bpi < n)
    OBVIOUS
  <2>1. q * Bpi \in Nat
    BY MapConsts
  <2> QED BY <1>1, <2>1, MapConsts
<1>3. {c \in (0 .. Bpi - 1) \X (0 .. Bpi - 1) : NDir + Bpi + c[1] * Bpi + c[2] < n} = {}
  BY <1>2
<1>4. {q \in 0 .. Bpi - 1 : NDir + Bpi + q * Bpi < n} = {}
  BY <1>2, MapConsts
<1>5. DataBlocks(n) = {Direct(i) : i \in {i \in 0 .. NDir - 1 : i < n}}
                \union {InIndir(k) : k \in {k \in 0 .. Bpi - 1 : NDir + k < n}}
  BY <1>3 DEF DataBlocks
<1>6. Meta(n) = When(NDir < n, Indir)
  BY <1>1, <1>4, MapConsts DEF Meta, When
<1>7. size_to_metablocks(n) = IF n <= NDir THEN 0 ELSE 1
  BY <1>1, MapConsts DEF size_to_metablocks
<1> QED BY <1>5, <1>6, <1>7 DEF Pointers

LEMMA PointersMet ==
    ASSUME NEW n, Single(n), NEW max, max = n + size_to_metablocks(n)
    PROVE  /\ max \in Nat
           /\ \A i \in 0 .. max - 1 : get_nth_meta_blknum(i) \in Pointers(n)
           /\ \A p \in Pointers(n) : \E i \in 0 .. max - 1 : get_nth_meta_blknum(i) = p
<1>0. n \in Nat /\ n < NDir + Bpi /\ max = IF n <= NDir THEN n ELSE n + 1
  BY PointersOf, MapConsts DEF Single
<1>1. ASSUME NEW i \in 0 .. max - 1 PROVE get_nth_meta_blknum(i) \in Pointers(n)
  <2>0. i \in Nat /\ i < NDir + Bpi + 1
    BY <1>0, MapConsts
  <2>1. CASE i < NDir
    <3>1. i \in 0 .. NDir - 1 /\ i < n
      BY <1>0, <2>0, <2>1, MapConsts
    <3> QED BY <2>0, <2>1, <3>1, NthPointer, PointersOf
  <2>2. CASE i = NDir
    <3>1. NDir < n
      BY <1>0, <2>2, MapConsts
    <3> QED BY <2>0, <2>2, <3>1, NthPointer, PointersOf DEF When
  <2>3. CASE i > NDir
    <3>1. i - (NDir + 1) \in 0 .. Bpi - 1 /\ NDir + (i - (NDir + 1)) < n
      BY <1>0, <2>0, <2>3, MapConsts
    <3> QED BY <2>0, <2>3, <3>1, NthPointer, PointersOf
  <2> QED BY <2>0, <2>1, <2>2, <2>3, MapConsts
<1>2. ASSUME NEW p \in Pointers(n) PROVE \E i \in 0 .. max - 1 : get_nth_meta_blknum(i) = p
  <2>1. CASE \E i \in 0 .. NDir - 1 : i < n /\ p = Direct(i)
    <3>1. PICK i \in 0 .. NDir - 1 : i < n /\ p = Direct(i)
      BY <2>1
    <3>2. i \in 0 .. max - 1 /\ i \in Nat /\ i < NDir + Bpi + 1 /\ i < NDir
      BY <1>0, <3>1, MapConsts
    <3> QED BY <3>1, <3>2, NthPointer
  <2>2. CASE NDir < n /\ p = Indir
    <3>1. NDir \in 0 .. max - 1 /\ NDir < NDir + Bpi + 1
      BY <1>0, <2>2, MapConsts
    <3> QED BY <2>2, <3>1, NthPointer, MapConsts
  <2>3. CASE \E k \in 0 .. Bpi - 1 : NDir + k < n /\ p = InIndir(k)
    <3>1. PICK k \in 0 .. Bpi - 1 : NDir + k < n /\ p = InIndir(k)
      BY <2>3
    <3> DEFINE i == NDir + 1 + k
    <3>2. i \in 0 .. max - 1 /\ i \in Nat /\ i < NDir + Bpi + 1 /\ i > NDir /\ i - (NDir + 1) = k
      BY <1>0, <3>1, MapConsts
    <3> HIDE DEF i
    <3>3. get_nth_meta_blknum(i) = InIndir(k)
      BY <3>2, NthPointer
    <3> QED BY <3>1, <3>2, <3>3
  <2> QED BY <2>1, <2>2, <2>3, PointersOf DEF When
<1> QED BY <1>0, <1>1, <1>2, MapConsts

LEMMA PointersRise ==
    ASSUME NEW a \in Nat, NEW b \in Nat, a < b, b < NDir + Bpi + 1
    PROVE  Before(get_nth_meta_blknum(a), get_nth_meta_blknum(b))
<1>0. a < NDir + Bpi + 1
  BY MapConsts
<1>1. CASE b < NDir
  <2>1. get_nth_meta_blknum(a) = Direct(a) /\ get_nth_meta_blknum(b) = Direct(b)
    BY <1>0, <1>1, NthPointer, MapConsts
  <2> QED BY <2>1, Ranks DEF Before
<1>2. CASE b = NDir
  <2>1. get_nth_meta_blknum(a) = Direct(a) /\ get_nth_meta_blknum(b) = Indir
    BY <1>0, <1>2, NthPointer, MapConsts
  <2> QED BY <2>1, Ranks DEF Before
<1>3. CASE b > NDir
  <2>1. get_nth_meta_blknum(b) = InIndir(b - (NDir + 1))
    BY <1>3, NthPointer
  <2>2. CASE a < NDir
    BY <1>0, <2>1, <2>2, NthPointer, Ranks DEF Before
  <2>3. CASE a = NDir
    BY <1>0, <2>1, <2>3, NthPointer, Ranks DEF Before
  <2>4. CASE a > NDir
    <3>1. get_nth_meta_blknum(a) = InIndir(a - (NDir + 1)) /\ a - (NDir + 1) < b - (NDir + 1)
      BY <1>0, <2>4, NthPointer, MapConsts
    <3> QED BY <2>1, <3>1, Ranks DEF Before
  <2> QED BY <2>2, <2>3, <2>4, MapConsts
<1> QED BY <1>1, <1>2, <1>3, MapConsts

LEMMA Ranked ==
    ASSUME NEW n \in Nat, NEW p \in Pointers(n)
    PROVE  Rank(p) \in Nat \X Nat \X Nat
<1>1. CASE \E i \in 0 .. NDir - 1 : p = Direct(i)
  BY <1>1, Ranks, MapConsts
<1>2. CASE \E k \in 0 .. Bpi - 1 : p = InIndir(k) \/ p = InBi(k)
  BY <1>2, Ranks, MapConsts
<1>3. CASE \E q, k \in 0 .. Bpi - 1 : p = InBiIndir(q, k)
  BY <1>3, Ranks, MapConsts
<1>4. CASE p = Indir \/ p = BiIndir
  BY <1>4, Ranks
<1> QED BY <1>1, <1>2, <1>3, <1>4 DEF Pointers, DataBlocks, Meta, When

-----------------------------------------------------------------------------
(* The tools' loops. *)

(* A loop whose pointers rise, are of the set and leave none of it out     *)
(* goes over the set.                                                      *)
LEMMA Loop ==
    ASSUME NEW S, it_max \in Nat, j \in 1 .. it_max,
           \A p \in S : Rank(p) \in Nat \X Nat \X Nat,
           \A i \in 1 .. it_max : Nth(i) \in S,
           \A p \in S : \E i \in 1 .. it_max : Nth(i) = p,
           \A i, k \in 1 .. it_max : i < k => Before(Nth(i), Nth(k))
    PROVE  GoesOver(S)
<1>1. Selected = Nth(j) /\ \A i \in 1 .. j : i \in 1 .. it_max
  BY DEF Selected
<1>2. ASSUME NEW i \in 1 .. j PROVE Nth(i) \in S /\ (Nth(i) = Selected \/ Before(Nth(i), Selected))
  BY <1>1
<1>3. ASSUME NEW p \in S, p = Selected \/ Before(p, Selected) PROVE \E i \in 1 .. j : Nth(i) = p
  <2>1. PICK i \in 1 .. it_max : Nth(i) = p
    OBVIOUS
  <2>2. CASE i > j
    <3>1. Before(Selected, p)
      BY <1>1, <2>1, <2>2
    <3>2. ~Before(p, Selected) /\ p # Selected
      BY <1>1, <3>1, Asymmetric
    <3> QED BY <1>3, <3>2
  <2>3. CASE i <= j
    BY <2>1, <2>3
  <2> QED BY <2>2, <2>3
<1>4. ASSUME NEW i \in 1 .. j - 1 PROVE Nth(i) # Selected
  <2>1. i \in 1 .. it_max /\ i < j
    OBVIOUS
  <2>2. Before(Nth(i), Selected)
    BY <1>1, <2>1
  <2> QED BY <1>1, <2>1, <2>2, Asymmetric
<1>5. j = it_max => \A p \in S : \E i \in 1 .. j : Nth(i) = p
  OBVIOUS
<1> QED BY <1>2, <1>3, <1>4, <1>5 DEF GoesOver

MapInv ==
    /\ nblks \in 1 .. MaxBlocks /\ rel \in {"defrag", "reloc"}
    /\ it_max \in Nat \ {0} /\ j \in 1 .. it_max

LEMMA Sized ==
    ASSUME NEW n \in 1 .. MaxBlocks
    PROVE  n + size_to_metablocks(n) \in Nat \ {0} /\ n \in Nat \ {0}
<1>1. n \in Nat \ {0} /\ n - NDir - Bpi < Bpi * Bpi
  BY MapConsts
<1>2. CASE n - NDir < Bpi
  BY <1>1, <1>2, MapConsts DEF size_to_metablocks
<1>3. CASE ~(n - NDir < Bpi)
  <2>1. n - NDir - Bpi \in Nat /\ (n - NDir - Bpi) \div Bpi \in Nat
    BY <1>1, <1>3, MapConsts, Parts
  <2>2. size_to_metablocks(n) = IF n <= NDir THEN 0 ELSE 2 + ((n - NDir - Bpi) \div Bpi + 1)
    BY <1>1, <1>3 DEF size_to_metablocks
  <2> QED BY <1>1, <2>1, <2>2
<1> QED BY <1>2, <1>3

LEMMA DataLoop ==
    ASSUME MapInv, rel = "reloc"
    PROVE  GoesOver(DataBlocks(nblks)) /\ Relinked = {Selected}
<1>1. /\ it_max = nblks /\ \A i : Nth(i) = get_nth_blknum(i - 1)
      /\ nblks \in Nat /\ nblks \in 1 .. MaxBlocks /\ j \in 1 .. nblks
  BY MapConsts DEF MapInv, it_max, Nth
<1>2. \A i \in 1 .. nblks : i - 1 \in 0 .. nblks - 1 /\ i - 1 \in 0 .. MaxBlocks - 1
  BY <1>1, MapConsts
<1>3. \A i \in 1 .. nblks : Nth(i) \in DataBlocks(nblks)
  BY <1>1, <1>2, DataMet
<1>4. ASSUME NEW p \in DataBlocks(nblks) PROVE \E i \in 1 .. nblks : Nth(i) = p
  <2>1. PICK i \in 0 .. nblks - 1 : get_nth_blknum(i) = p
    BY <1>1, DataMet
  <2>2. i + 1 \in 1 .. nblks /\ (i + 1) - 1 = i
    BY <1>1
  <2> QED BY <1>1, <2>1, <2>2
<1>5. ASSUME NEW i \in 1 .. nblks, NEW k \in 1 .. nblks, i < k PROVE Before(Nth(i), Nth(k))
  <2>1. i - 1 < k - 1
    BY <1>5
  <2> QED BY <1>1, <1>2, <2>1, DataRises
<1>6. \A p \in DataBlocks(nblks) : Rank(p) \in Nat \X Nat \X Nat
  BY <1>1, Ranked DEF Pointers
<1>7. GoesOver(DataBlocks(nblks))
  BY <1>1, <1>3, <1>4, <1>5, <1>6, Loop
<1>8. Relinked = {Selected}
  <2> DEFINE n == j - 1
  <2>1. Relinked = ext2_block_relink(n) /\ Selected = get_nth_blknum(n) /\ n \in 0 .. MaxBlocks - 1 /\ n \in Nat
    BY <1>1, <1>2 DEF Relinked, Selected
  <2> HIDE DEF n
  <2>2. n < Bpi * Bpi + NDir + Bpi
    BY <2>1, MapConsts
  <2>3. CASE n < NDir
    BY <2>1, <2>3, NthData, MapConsts DEF ext2_block_relink, When
  <2>4. CASE n >= NDir /\ n < NDir + Bpi
    BY <2>1, <2>4, NthData, MapConsts DEF ext2_block_relink, When
  <2>5. CASE n >= NDir + Bpi
    <3>1. Selected = InBiIndir(bi_index(n), biindir_indir_offset(n))
      BY <2>1, <2>5, NthData
    <3>2. ~(n < NDir) /\ ~(n < Bpi + NDir) /\ n >= Bpi + NDir
      BY <2>1, <2>5, MapConsts
    <3> QED BY <2>1, <2>2, <3>1, <3>2 DEF ext2_block_relink, When
  <2> QED BY <2>1, <2>3, <2>4, <2>5, MapConsts
<1> QED BY <1>7, <1>8

LEMMA PointerLoop ==
    ASSUME MapInv, rel = "defrag", nblks < NDir + Bpi
    PROVE  GoesOver(Pointers(nblks)) /\ Relinked = {Selected}
<1>1. /\ it_max = nblks + size_to_metablocks(nblks) /\ \A i : Nth(i) = get_nth_meta_blknum(i - 1)
      /\ Single(nblks) /\ nblks \in Nat
  BY MapConsts DEF MapInv, it_max, Nth, Single
<1>2. it_max \in Nat /\ it_max < NDir + Bpi + 1 /\ j \in 1 .. it_max
  BY <1>1, PointersOf, MapConsts DEF MapInv, Single
<1>3. \A i \in 1 .. it_max : i - 1 \in 0 .. it_max - 1 /\ i - 1 \in Nat /\ i - 1 < NDir + Bpi
  BY <1>2, MapConsts
<1>4. \A i \in 1 .. it_max : Nth(i) \in Pointers(nblks)
  BY <1>1, <1>3, PointersMet
<1>5. ASSUME NEW p \in Pointers(nblks) PROVE \E i \in 1 .. it_max : Nth(i) = p
  <2>1. PICK i \in 0 .. it_max - 1 : get_nth_meta_blknum(i) = p
    BY <1>1, PointersMet
  <2>2. i + 1 \in 1 .. it_max /\ (i + 1) - 1 = i
    BY <1>2
  <2> QED BY <1>1, <2>1, <2>2
<1>6. ASSUME NEW i \in 1 .. it_max, NEW k \in 1 .. it_max, i < k PROVE Before(Nth(i), Nth(k))
  <2>1. i - 1 \in Nat /\ k - 1 \in Nat /\ i - 1 < k - 1 /\ k - 1 < NDir + Bpi + 1
    BY <1>2, <1>3, <1>6, MapConsts
  <2> QED BY <1>1, <2>1, PointersRise
<1>7. \A p \in Pointers(nblks) : Rank(p) \in Nat \X Nat \X Nat
  BY <1>1, Ranked
<1>8. GoesOver(Pointers(nblks))
  BY <1>2, <1>4, <1>5, <1>6, <1>7, Loop
<1>9. Relinked = {Selected}
  <2> DEFINE n == j - 1
  <2>1. Relinked = block_relink_meta(n) /\ Selected = get_nth_meta_blknum(n) /\ n \in Nat /\ n < NDir + Bpi
    BY <1>1, <1>2, <1>3 DEF Relinked, Selected
  <2> HIDE DEF n
  <2>2. ~(n > NDir + 1 + Bpi) /\ n # NDir + 1 + Bpi
    BY <2>1, MapConsts
  <2>3. block_relink_meta(n) = When(n < NDir, Direct(n)) \union When(n = NDir, Indir)
                               \union When(n > NDir /\ n < NDir + 1 + Bpi, InIndir(n - (NDir + 1)))
    BY <2>2 DEF block_relink_meta, When
  <2> QED BY <2>1, <2>3, NthPointer, MapConsts DEF When
<1> QED BY <1>8, <1>9

LEMMA MapInvariance == DescSpec => []MapInv
<1>1. DescInit => MapInv
  <2> SUFFICES ASSUME DescInit PROVE MapInv
    OBVIOUS
  <2>1. nblks \in 1 .. MaxBlocks /\ rel \in {"defrag", "reloc"} /\ j = 1
    BY DEF DescInit, Init
  <2>2. it_max \in Nat \ {0}
    BY <2>1, Sized DEF it_max
  <2> QED BY <2>1, <2>2 DEF MapInv
<1>2. MapInv /\ [DescNext]_descVars => MapInv'
  <2> SUFFICES ASSUME MapInv, [DescNext]_descVars PROVE MapInv'
    OBVIOUS
  <2>1. CASE NextSel
    BY <2>1 DEF NextSel, MapInv, it_max, size_to_metablocks
  <2>2. CASE NextInode
    <3>1. nblks' \in 1 .. MaxBlocks /\ rel' = rel /\ j' = 1
      BY <2>2 DEF NextInode
    <3>2. PICK n \in 1 .. MaxBlocks : nblks' = n
      BY <3>1
    <3>3. it_max' = n + (IF rel = "defrag" THEN size_to_metablocks(n) ELSE 0)
      BY <3>1, <3>2 DEF it_max, size_to_metablocks
    <3>4. it_max' \in Nat \ {0}
      BY <3>3, Sized
    <3> QED BY <3>1, <3>4 DEF MapInv
  <2>3. CASE UNCHANGED vars
    BY <2>3 DEF vars, MapInv, it_max, size_to_metablocks
  <2> QED BY <2>1, <2>2, <2>3 DEF DescNext, descVars, Next
<1> QED BY <1>1, <1>2, PTL DEF DescSpec

(* For any number of direct pointers, any size of the indirect blocks and  *)
(* files of any size below triple indirection: get_nth_blknum of           *)
(* ext2_func.fsl goes over the data of a file in order, each block once,   *)
(* get_nth_meta_blknum does so for files of one indirect block that is not *)
(* full, and the packets of ext2.fsl rewrite the pointer that was found.   *)
THEOREM BlocksMapped == DescSpec => []MapExact
<1>1. MapInv => MapExact
  BY DataLoop, PointerLoop DEF MapInv, MapExact, DataInOrder, MetaInOrder, RelinksSelected
<1> QED BY <1>1, MapInvariance, PTL

-----------------------------------------------------------------------------
(* FAT volumes.  Chains are walks from number to number. *)

LEMMA Smallest ==
    ASSUME NEW T, T \subseteq Nat, T # {}
    PROVE  \E x \in T : \A y \in T : x <= y
<1> DEFINE R == {ss \in Nat \X Nat : ss[1] < ss[2]}
<1>1. IsWellFoundedOn(R, Nat)
  BY NatLessThanWellFounded DEF OpToRel
<1>2. \A x, y \in Nat : y < x => <<y, x>> \in R
  OBVIOUS
<1> HIDE DEF R
<1>3. \E x \in T : \A y \in T : <<y, x>> \notin R
  BY <1>1, WFMin
<1>4. PICK x \in T : \A y \in T : <<y, x>> \notin R
  BY <1>3
<1>5. \A y \in T : ~(y < x)
  BY <1>2, <1>4
<1> QED BY <1>5

(* The numbers there are, and the step from one to the next. *)
Nums == 0 .. Eof
Copies == 0 .. FatCount - 1

LEMMA VfatConsts ==
    /\ NClus \in Nat \ {0} /\ FatCount \in Nat \ {0} /\ DeC \in Nat \ {0} /\ RootC \in Nat
    /\ Bpc \in Nat \ {0} /\ LogEntries \in Nat
    /\ FatMax = NClus + 4 /\ Bad = NClus + 7 /\ Eof = NClus + 15
    /\ Clus = 2 .. NClus + 1 /\ Cells = 0 .. NClus + 1 /\ Offered = 2 .. NClus
    /\ Clus \subseteq Nums /\ Clus \subseteq Cells /\ Cells \subseteq Nums /\ Offered \subseteq Clus
    /\ 0 \in Nums /\ Bad \in Nums /\ Eof \in Nums /\ Bad \notin Clus /\ Eof \notin Clus /\ 0 \notin Clus
    /\ Eof \notin Cells /\ Nums \subseteq Nat /\ 0 \in Copies /\ Bad # 0 /\ Eof # 0 /\ Bad # Eof
<1>1. NClus \in Nat \ {0} /\ FatCount \in Nat \ {0} /\ DeC \in Nat \ {0} /\ RootC \in Nat
      /\ Bpc \in Nat \ {0} /\ LogEntries \in Nat
  BY VfatAssumption
<1>2. FatMax = NClus + 4 /\ Bad = NClus + 7 /\ Eof = NClus + 15
      /\ Clus = 2 .. NClus + 1 /\ Cells = 0 .. NClus + 1 /\ Offered = 2 .. NClus
  BY <1>1 DEF FatMax, Bad, Eof, Clus, Cells, Offered, FAT_START_ENT
<1> QED BY <1>1, <1>2 DEF Nums, Copies

Walk(f, g, c, n) == f = [k \in 1 .. n |-> IF k = 1 THEN c ELSE g[f[k - 1]]]

LEMMA WalkExists ==
    ASSUME NEW g, NEW c, NEW n \in Nat
    PROVE  \E f : Walk(f, g, c, n)
<1> DEFINE Lacks == {m \in Nat : ~\E f : Walk(f, g, c, m)}
<1>1. SUFFICES ASSUME Lacks # {} PROVE FALSE
  OBVIOUS
<1>2. PICK m \in Lacks : \A k \in Lacks : m <= k
  BY <1>1, Smallest
<1>3. m # 0
  <2>1. ASSUME m = 0 PROVE FALSE
    <3> DEFINE h == [k \in 1 .. 0 |-> c]
    <3>1. Walk(h, g, c, 0)
      BY DEF Walk
    <3> QED BY <1>2, <2>1, <3>1
  <2> QED BY <2>1
<1>4. m - 1 \in Nat /\ m - 1 \notin Lacks
  BY <1>2, <1>3
<1>5. PICK f : Walk(f, g, c, m - 1)
  BY <1>4
<1> DEFINE h == [k \in 1 .. m |-> IF k = 1 THEN c ELSE g[f[k - 1]]]
<1>6. \A k \in 1 .. m - 1 : h[k] = f[k]
  BY <1>4, <1>5 DEF Walk
<1>7. \A k \in 1 .. m : k # 1 => h[k - 1] = f[k - 1]
  BY <1>2, <1>6
<1>8. h = [k \in 1 .. m |-> IF k = 1 THEN c ELSE g[h[k - 1]]]
  BY <1>7
<1>9. Walk(h, g, c, m)
  BY <1>8 DEF Walk
<1> QED BY <1>2, <1>9

(* A walk stays in the set its step is on. *)
LEMMA WalkStays ==
    ASSUME NEW S, NEW g \in [S -> S], NEW c \in S, NEW n \in Nat, NEW f, Walk(f, g, c, n)
    PROVE  /\ f \in [1 .. n -> S]
           /\ n > 0 => f[1] = c
           /\ \A k \in 1 .. n - 1 : f[k + 1] = g[f[k]]
<1> DEFINE Out == {k \in 1 .. n : f[k] \notin S}
<1>1. f = [k \in 1 .. n |-> f[k]] /\ \A k \in 1 .. n : f[k] = IF k = 1 THEN c ELSE g[f[k - 1]]
  BY DEF Walk
<1>2. Out = {}
  <2>1. SUFFICES ASSUME Out # {} PROVE FALSE
    OBVIOUS
  <2>2. PICK m \in Out : \A k \in Out : m <= k
    <3>1. Out \subseteq Nat
      OBVIOUS
    <3> HIDE DEF Out
    <3> QED BY <2>1, <3>1, Smallest
  <2>3. m # 1
    BY <1>1, <2>2
  <2>4. m - 1 \in 1 .. n /\ m - 1 \notin Out
    BY <2>2, <2>3
  <2>5. f[m] = g[f[m - 1]]
    BY <1>1, <2>2, <2>3
  <2> QED BY <2>2, <2>4, <2>5
<1>3. f \in [1 .. n -> S]
  BY <1>1, <1>2
<1>4. ASSUME NEW k \in 1 .. n - 1 PROVE f[k + 1] = g[f[k]]
  <2>1. k + 1 \in 1 .. n /\ k + 1 # 1 /\ (k + 1) - 1 = k
    OBVIOUS
  <2> QED BY <1>1, <2>1
<1> QED BY <1>1, <1>3, <1>4

(* Two that begin alike go alike. *)
Follows(f, g, n) == \A k \in 1 .. n - 1 : f[k + 1] = g[f[k]]

LEMMA WalksAgree ==
    ASSUME NEW m \in Nat, NEW n \in Nat, m <= n, NEW f, NEW h, NEW g,
           m > 0 => f[1] = h[1], Follows(f, g, m), Follows(h, g, n)
    PROVE  \A k \in 1 .. m : f[k] = h[k]
<1> DEFINE D == {k \in 1 .. m : f[k] # h[k]}
<1>1. SUFFICES ASSUME D # {} PROVE FALSE
  OBVIOUS
<1>2. PICK k \in D : \A i \in D : k <= i
  <2>1. D \subseteq Nat
    OBVIOUS
  <2> HIDE DEF D
  <2> QED BY <1>1, <2>1, Smallest
<1>3. k # 1
  BY <1>2
<1>4. k - 1 \in 1 .. m - 1 /\ k - 1 \in 1 .. n - 1 /\ k - 1 \notin D /\ (k - 1) + 1 = k /\ k - 1 \in 1 .. m
  BY <1>2, <1>3
<1>5. f[k - 1] = h[k - 1]
  BY <1>4
<1> QED BY <1>2, <1>4, <1>5 DEF Follows

(* The chain of a table. *)
LinkStep(t) == [p \in Nums |-> IF p \in Clus THEN t[p] ELSE p]
Table(t) == t \in [Cells -> Nums]

LEMMA ChainIsOf == \A n, c : Chain(n, c) = ChainOf(fats[n], c)
BY DEF Chain

LEMMA StepIs ==
    ASSUME NEW t, Table(t)
    PROVE  LinkStep(t) \in [Nums -> Nums]
BY VfatConsts DEF LinkStep, Table

Steps(w, t, c) ==
    w = [k \in 1 .. NClus + 1 |-> IF k = 1 THEN c ELSE IF w[k - 1] \in Clus THEN t[w[k - 1]] ELSE w[k - 1]]

Numbers(w, t, c) ==
    /\ w[1] = c
    /\ \A k \in 1 .. NClus : w[k + 1] = IF w[k] \in Clus THEN t[w[k]] ELSE w[k]
    /\ ChainOf(t, c) = [k \in 1 .. Cardinality({k \in 1 .. NClus + 1 : w[k] \in Clus}) |-> w[k]]

LEMMA StepsIs ==
    ASSUME NEW t, Table(t), NEW c \in Nums
    PROVE  \E w \in [1 .. NClus + 1 -> Nums] : Numbers(w, t, c)
<1> DEFINE g == LinkStep(t)
           n == NClus + 1
           w == CHOOSE f : Steps(f, t, c)
<1>1. n \in Nat /\ n > 0 /\ n - 1 = NClus /\ g \in [Nums -> Nums]
  BY VfatConsts, StepIs
<1>2. PICK f : Walk(f, g, c, n)
  BY <1>1, WalkExists
<1>3. /\ f \in [1 .. n -> Nums] /\ f[1] = c
      /\ \A k \in 1 .. n - 1 : f[k + 1] = g[f[k]]
  <2> HIDE DEF g, n
  <2> QED BY <1>1, <1>2, WalkStays
<1>4. Steps(f, t, c)
  <2>1. f = [k \in 1 .. n |-> IF k = 1 THEN c ELSE g[f[k - 1]]]
    BY <1>2 DEF Walk
  <2>2. \A k \in 1 .. n : k # 1 => f[k - 1] \in Nums
    <3> HIDE DEF n, g
    <3>1. \A k \in 1 .. n : k # 1 => k - 1 \in 1 .. n
      BY <1>1
    <3> QED BY <1>3, <3>1
  <2>3. \A k \in 1 .. n : k # 1 => g[f[k - 1]] = IF f[k - 1] \in Clus THEN t[f[k - 1]] ELSE f[k - 1]
    BY <2>2 DEF LinkStep
  <2> HIDE DEF g
  <2>4. f = [k \in 1 .. n |-> IF k = 1 THEN c ELSE IF f[k - 1] \in Clus THEN t[f[k - 1]] ELSE f[k - 1]]
    BY <2>1, <2>3
  <2> QED BY <2>4 DEF Steps
<1>5. Steps(w, t, c)
  BY <1>4, Zenon
<1>6. ChainOf(t, c) = [k \in 1 .. Cardinality({k \in 1 .. NClus + 1 : w[k] \in Clus}) |-> w[k]]
  BY Zenon DEF ChainOf, Steps
<1> HIDE DEF w
<1>7. \A k \in 1 .. n : w[k] = IF k = 1 THEN c ELSE IF w[k - 1] \in Clus THEN t[w[k - 1]] ELSE w[k - 1]
  BY <1>5 DEF Steps
<1>8. w[1] = c
  BY <1>1, <1>7
<1>9. \A k \in 1 .. NClus : w[k + 1] = IF w[k] \in Clus THEN t[w[k]] ELSE w[k]
  <2>1. TAKE k \in 1 .. NClus
  <2>2. k + 1 \in 1 .. n /\ k + 1 # 1 /\ (k + 1) - 1 = k
    BY <1>1
  <2> QED BY <1>7, <2>2
<1>10. w \in [1 .. n -> Nums]
  <2> DEFINE Out == {k \in 1 .. n : w[k] \notin Nums}
  <2>1. Out = {}
    <3>1. SUFFICES ASSUME Out # {} PROVE FALSE
      OBVIOUS
    <3>2. PICK m \in Out : \A k \in Out : m <= k
      <4>1. Out \subseteq Nat
        BY <1>1
      <4> HIDE DEF Out
      <4> QED BY <3>1, <4>1, Smallest
    <3>3. m # 1
      BY <1>8, <3>2
    <3>4. m - 1 \in 1 .. n /\ m - 1 \notin Out
      BY <1>1, <3>2, <3>3
    <3>5. w[m - 1] \in Nums
      BY <3>4
    <3>6. w[m - 1] \in Clus => t[w[m - 1]] \in Nums
      BY VfatConsts DEF Table
    <3>7. w[m] \in Nums
      BY <1>7, <3>2, <3>3, <3>5, <3>6
    <3> QED BY <3>2, <3>7
  <2>2. w = [k \in 1 .. n |-> w[k]]
    BY <1>5 DEF Steps
  <2> QED BY <2>1, <2>2
<1> QED BY <1>6, <1>8, <1>9, <1>10 DEF Numbers

LEMMA Initial ==
    ASSUME NEW n \in Nat, NEW D, D \subseteq 1 .. n, \A k \in 1 .. n - 1 : k + 1 \in D => k \in D
    PROVE  \E m \in 0 .. n : D = 1 .. m /\ Cardinality(D) = m
<1> DEFINE T == {k \in 0 .. n : k + 1 \notin D}
<1>1. T \subseteq Nat /\ T # {}
  <2>1. n \in T
    OBVIOUS
  <2> QED BY <2>1
<1>2. PICK m \in T : \A k \in T : m <= k
  <2> HIDE DEF T
  <2> QED BY <1>1, Smallest
<1>3. m \in 0 .. n /\ m + 1 \notin D
  BY <1>2
<1>4. ASSUME NEW k \in 1 .. m PROVE k \in D
  <2>1. k - 1 \in 0 .. n /\ ~(m <= k - 1) /\ (k - 1) + 1 = k
    BY <1>3
  <2>2. k - 1 \notin T
    BY <1>2, <2>1
  <2> QED BY <2>1, <2>2
<1>5. ASSUME NEW x \in D, x > m PROVE FALSE
  <2> DEFINE E == {k \in D : k > m}
  <2>1. E \subseteq Nat /\ E # {}
    <3>1. \A k \in D : k \in Nat
      OBVIOUS
    <3> QED BY <1>5, <3>1
  <2>2. PICK e \in E : \A k \in E : e <= k
    <3> HIDE DEF E
    <3> QED BY <2>1, Smallest
  <2>3. e \in 1 .. n /\ e \in D /\ e > m /\ e # m + 1
    BY <1>3, <2>2
  <2>4. e - 1 \in 1 .. n - 1 /\ (e - 1) + 1 = e /\ e - 1 > m /\ ~(e <= e - 1)
    BY <1>3, <2>3
  <2>5. e - 1 \in D
    BY <2>3, <2>4
  <2> QED BY <2>2, <2>4, <2>5
<1>6. D = 1 .. m
  <2>1. ASSUME NEW x \in D PROVE x \in 1 .. m
    <3>1. x \in 1 .. n /\ ~(x > m)
      BY <1>5
    <3> QED BY <1>3, <3>1
  <2> QED BY <1>4, <2>1
<1>7. Cardinality(1 .. m) = m
  BY <1>3, FS_Interval
<1> QED BY <1>3, <1>6, <1>7

(* A sequence of clusters that follows the table, and one that follows it  *)
(* as far as the table goes or the loops of the description look.          *)
Path(p, t, c) ==
    /\ p \in Seq(Clus)
    /\ p # <<>> => p[1] = c
    /\ \A k \in 1 .. Len(p) - 1 : p[k + 1] = t[p[k]]

IsChain(p, t, c) ==
    /\ Path(p, t, c)
    /\ Len(p) \in 0 .. NClus + 1
    /\ p = <<>> <=> c \notin Clus
    /\ Len(p) \in 1 .. NClus => t[p[Len(p)]] \notin Clus

LEMMA ChainIs ==
    ASSUME NEW t, Table(t), NEW c \in Nums
    PROVE  IsChain(ChainOf(t, c), t, c)
<1>1. PICK w \in [1 .. NClus + 1 -> Nums] :
          Numbers(w, t, c)
  BY StepsIs
<1> USE DEF Numbers
<1> DEFINE D == {k \in 1 .. NClus + 1 : w[k] \in Clus}
<1>2. NClus \in Nat \ {0} /\ NClus + 1 \in Nat /\ (NClus + 1) - 1 = NClus /\ 1 \in 1 .. NClus + 1
  BY VfatConsts
<1>3. PICK m \in 0 .. NClus + 1 : D = 1 .. m /\ Cardinality(D) = m
  <2>1. D \subseteq 1 .. NClus + 1
    OBVIOUS
  <2>2. ASSUME NEW k \in 1 .. NClus, k + 1 \in D PROVE k \in D
    BY <1>1, <1>2, <2>2
  <2> HIDE DEF D
  <2> QED BY <1>2, <2>1, <2>2, Initial
<1> DEFINE p == ChainOf(t, c)
<1>4. p = [k \in 1 .. m |-> w[k]]
  BY <1>1, <1>3
<1>5. \A k \in 1 .. NClus + 1 : w[k] \in Clus <=> k \in 1 .. m
  BY <1>3
<1> HIDE DEF p, D
<1>6. p \in Seq(Clus) /\ Len(p) = m /\ \A k \in 1 .. m : p[k] = w[k]
  <2>1. p \in [1 .. m -> Clus]
    BY <1>2, <1>3, <1>4, <1>5
  <2> QED BY <1>2, <1>3, <1>4, <2>1
<1>7. p = <<>> <=> m = 0
  BY <1>6
<1>8. p = <<>> <=> c \notin Clus
  BY <1>1, <1>2, <1>5, <1>7
<1>9. p # <<>> => p[1] = c
  BY <1>1, <1>6, <1>7
<1>10. ASSUME NEW k \in 1 .. m - 1 PROVE p[k + 1] = t[p[k]]
  <2>1. k \in 1 .. NClus /\ k \in 1 .. m /\ k + 1 \in 1 .. m /\ k \in 1 .. NClus + 1
    BY <1>2, <1>3
  <2> QED BY <1>1, <1>5, <1>6, <2>1
<1>11. m \in 1 .. NClus => t[p[m]] \notin Clus
  <2> SUFFICES ASSUME m \in 1 .. NClus PROVE t[p[m]] \notin Clus
    OBVIOUS
  <2>1. m \in 1 .. NClus + 1 /\ m + 1 \in 1 .. NClus + 1 /\ m + 1 \notin 1 .. m /\ m \in 1 .. m
    BY <1>2
  <2>2. w[m + 1] = t[w[m]] /\ w[m + 1] \notin Clus
    BY <1>1, <1>5, <2>1
  <2> QED BY <1>6, <2>1, <2>2
<1>12. Path(p, t, c)
  BY <1>6, <1>9, <1>10 DEF Path
<1>13. IsChain(p, t, c)
  BY <1>6, <1>8, <1>11, <1>12 DEF IsChain
<1> QED BY <1>13 DEF p

LEMMA PathsAgree ==
    ASSUME NEW t, NEW c, NEW p, NEW q, Path(p, t, c), Path(q, t, c), Len(p) <= Len(q)
    PROVE  \A k \in 1 .. Len(p) : p[k] = q[k]
<1>1. p \in Seq(Clus) /\ q \in Seq(Clus) /\ Len(p) \in Nat /\ Len(q) \in Nat
  BY DEF Path
<1>2. Len(p) > 0 => p[1] = q[1]
  BY <1>1 DEF Path
<1>3. (\A k \in 1 .. Len(p) - 1 : p[k + 1] = t[p[k]]) /\ (\A k \in 1 .. Len(q) - 1 : q[k + 1] = t[q[k]])
  BY DEF Path
<1>4. PICK m, n : m = Len(p) /\ n = Len(q)
  OBVIOUS
<1>5. m \in Nat /\ n \in Nat /\ m <= n /\ (m > 0 => p[1] = q[1])
  BY <1>1, <1>2, <1>4
<1>6. Follows(p, t, m) /\ Follows(q, t, n)
  BY <1>3, <1>4 DEF Follows
<1>7. \A k \in 1 .. m : p[k] = q[k]
  BY <1>5, <1>6, WalksAgree
<1> QED BY <1>4, <1>7

LEMMA ChainUnique ==
    ASSUME NEW t, NEW c, NEW p, NEW q, IsChain(p, t, c), IsChain(q, t, c)
    PROVE  p = q
<1>1. ASSUME NEW a, NEW b, IsChain(a, t, c), IsChain(b, t, c), Len(a) < Len(b) PROVE FALSE
  <2>1. a \in Seq(Clus) /\ b \in Seq(Clus) /\ Len(a) \in Nat /\ Len(b) \in 0 .. NClus + 1 /\ NClus \in Nat
    BY <1>1, VfatConsts DEF IsChain, Path
  <2>2. b # <<>> /\ a # <<>>
    BY <1>1, <2>1 DEF IsChain
  <2>3. Len(a) \in 1 .. NClus /\ Len(a) \in 1 .. Len(b) - 1 /\ Len(a) + 1 \in 1 .. Len(b) /\ Len(a) \in 1 .. Len(a)
    BY <1>1, <2>1, <2>2
  <2>4. t[a[Len(a)]] \notin Clus
    BY <1>1, <2>3 DEF IsChain
  <2>5. a[Len(a)] = b[Len(a)]
    BY <1>1, <2>1, <2>3, PathsAgree DEF IsChain
  <2>6. b[Len(a) + 1] = t[b[Len(a)]]
    BY <1>1, <2>3 DEF IsChain, Path
  <2>7. b[Len(a) + 1] \in Clus
    BY <2>1, <2>3, ElementOfSeq
  <2> QED BY <2>4, <2>5, <2>6, <2>7
<1>2. p \in Seq(Clus) /\ q \in Seq(Clus) /\ Len(p) \in Nat /\ Len(q) \in Nat
  BY DEF IsChain, Path
<1>3. Len(p) = Len(q)
  <2>1. ~(Len(p) < Len(q)) /\ ~(Len(q) < Len(p))
    BY <1>1
  <2> QED BY <1>2, <2>1
<1>4. \A k \in 1 .. Len(p) : p[k] = q[k]
  BY <1>2, <1>3, PathsAgree DEF IsChain
<1> QED BY <1>2, <1>3, <1>4, SeqEqual

(* The number the description walks to. *)
NextNum(p) == IF p = Eof THEN Eof ELSE fat_next(p)
NextStep == [p \in Nums |-> NextNum(p)]

NthSteps(w, c, i) == w = [k \in 0 .. i |-> IF k <= 1 THEN c ELSE NextNum(w[k - 1])]

NthNumbers(w, c, i) ==
    /\ w[0] = c /\ (i > 0 => w[1] = c)
    /\ \A k \in 1 .. i - 1 : w[k + 1] = NextNum(w[k])
    /\ fat_chain_nth_cnum(c, i) = w[i]

LEMMA NextIs ==
    ASSUME Table(fats[0])
    PROVE  NextStep \in [Nums -> Nums] /\ \A p \in Nums : NextNum(p) \in Nums
<1>1. ASSUME NEW p \in Nums PROVE NextNum(p) \in Nums
  BY VfatConsts DEF NextNum, fat_next, Table
<1> QED BY <1>1 DEF NextStep

LEMMA NthIs ==
    ASSUME Table(fats[0]), NEW c \in Nums, NEW i \in Nat
    PROVE  \E w \in [0 .. i -> Nums] : NthNumbers(w, c, i)
<1> DEFINE g == NextStep
           w == CHOOSE f : NthSteps(f, c, i)
<1>1. g \in [Nums -> Nums] /\ \A p \in Nums : g[p] = NextNum(p)
  BY NextIs DEF NextStep
<1>2. PICK f : Walk(f, g, c, i)
  BY WalkExists
<1> DEFINE h == [k \in 0 .. i |-> IF k = 0 THEN c ELSE f[k]]
<1>3. f \in [1 .. i -> Nums] /\ (i > 0 => f[1] = c) /\ \A k \in 1 .. i - 1 : f[k + 1] = g[f[k]]
  <2> HIDE DEF g
  <2> QED BY <1>1, <1>2, WalkStays
<1>4. NthSteps(h, c, i)
  <2>1. \A k \in 0 .. i : h[k] = IF k <= 1 THEN c ELSE NextNum(h[k - 1])
    <3>1. TAKE k \in 0 .. i
    <3>2. CASE k = 0
      BY <3>2
    <3>3. CASE k = 1
      BY <1>3, <3>3
    <3>4. CASE k > 1
      <4>1. k - 1 \in 1 .. i - 1 /\ (k - 1) + 1 = k /\ ~(k <= 1) /\ k # 0 /\ k - 1 # 0 /\ k - 1 \in 0 .. i /\ k - 1 \in 1 .. i
        BY <3>4
      <4>2. f[k] = g[f[k - 1]] /\ f[k - 1] \in Nums
        BY <1>3, <4>1
      <4>3. h[k] = f[k] /\ h[k - 1] = f[k - 1]
        BY <4>1
      <4> QED BY <1>1, <4>1, <4>2, <4>3
    <3> QED BY <3>2, <3>3, <3>4
  <2>2. h = [k \in 0 .. i |-> h[k]]
    OBVIOUS
  <2> HIDE DEF h
  <2>3. h = [k \in 0 .. i |-> IF k <= 1 THEN c ELSE NextNum(h[k - 1])]
    BY <2>1, <2>2
  <2> QED BY <2>3 DEF NthSteps
<1>5. NthSteps(w, c, i)
  BY <1>4, Zenon
<1>6. fat_chain_nth_cnum(c, i) = w[i]
  BY Zenon DEF fat_chain_nth_cnum, NthSteps, NextNum
<1> HIDE DEF w
<1>7. \A k \in 0 .. i : w[k] = IF k <= 1 THEN c ELSE NextNum(w[k - 1])
  BY <1>5 DEF NthSteps
<1>8. w[0] = c /\ (i > 0 => w[1] = c)
  BY <1>7
<1>9. \A k \in 1 .. i - 1 : w[k + 1] = NextNum(w[k])
  <2>1. TAKE k \in 1 .. i - 1
  <2>2. k + 1 \in 0 .. i /\ ~(k + 1 <= 1) /\ (k + 1) - 1 = k
    OBVIOUS
  <2> QED BY <1>7, <2>2
<1>10. w \in [0 .. i -> Nums]
  <2> DEFINE Out == {k \in 0 .. i : w[k] \notin Nums}
  <2>1. Out = {}
    <3>1. SUFFICES ASSUME Out # {} PROVE FALSE
      OBVIOUS
    <3>2. PICK m \in Out : \A k \in Out : m <= k
      <4>1. Out \subseteq Nat
        OBVIOUS
      <4> HIDE DEF Out
      <4> QED BY <3>1, <4>1, Smallest
    <3>3. ~(m <= 1)
      BY <1>7, <3>2
    <3>4. m - 1 \in 0 .. i /\ m - 1 \notin Out /\ m \in 0 .. i
      BY <3>2, <3>3
    <3>5. w[m - 1] \in Nums
      BY <3>4
    <3>6. w[m] = NextNum(w[m - 1])
      BY <1>7, <3>3, <3>4
    <3>7. w[m] \in Nums
      BY <3>5, <3>6, NextIs
    <3> QED BY <3>2, <3>7
  <2>2. w = [k \in 0 .. i |-> w[k]]
    BY <1>5 DEF NthSteps
  <2> QED BY <2>1, <2>2
<1> QED BY <1>6, <1>8, <1>9, <1>10 DEF NthNumbers

LEMMA NthNum ==
    ASSUME Table(fats[0]), NEW c \in Nums, NEW i \in Nat
    PROVE  fat_chain_nth_cnum(c, i) \in Nums /\ (i <= 1 => fat_chain_nth_cnum(c, i) = c)
<1>1. PICK w \in [0 .. i -> Nums] : NthNumbers(w, c, i)
  BY NthIs
<1>2. w[i] \in Nums
  OBVIOUS
<1>3. i <= 1 => i = 0 \/ i = 1
  OBVIOUS
<1> QED BY <1>1, <1>2, <1>3 DEF NthNumbers

(* It is the cluster of the chain, and behind the chain what its last one  *)
(* says.                                                                   *)
LEMMA NthOnPath ==
    ASSUME Table(fats[0]), NEW c \in Nums, NEW p, Path(p, fats[0], c), NEW i \in 1 .. Len(p)
    PROVE  fat_chain_nth_cnum(c, i) = p[i] /\ p[i] \in Clus
           /\ fat_chain_nth_cnum(c, i + 1) = fats[0][p[i]]
<1>1. p \in Seq(Clus) /\ Len(p) \in Nat /\ i \in Nat /\ p # <<>> /\ p[1] = c
  BY DEF Path
<1>2. ASSUME NEW x \in Clus PROVE NextNum(x) = fats[0][x]
  BY VfatConsts DEF NextNum, fat_next
<1>3. ASSUME NEW n \in {i, i + 1}, NEW w \in [0 .. n -> Nums], NthNumbers(w, c, n)
      PROVE  w[i] = p[i]
  <2> DEFINE D == {k \in 1 .. i : w[k] # p[k]}
  <2>1. n \in Nat /\ i <= n /\ n > 0
    BY <1>1
  <2>2. D = {}
    <3>1. SUFFICES ASSUME D # {} PROVE FALSE
      OBVIOUS
    <3>2. PICK k \in D : \A j_ \in D : k <= j_
      <4>1. D \subseteq Nat
        BY <1>1
      <4> HIDE DEF D
      <4> QED BY <3>1, <4>1, Smallest
    <3>3. k # 1
      BY <1>1, <1>3, <2>1, <3>2 DEF NthNumbers
    <3>4. k - 1 \in 1 .. i /\ k - 1 \in 1 .. n - 1 /\ k - 1 \in 1 .. Len(p) - 1 /\ (k - 1) + 1 = k
          /\ k - 1 \in 1 .. Len(p) /\ ~(k <= k - 1)
      BY <1>1, <2>1, <3>2, <3>3
    <3>5. w[k - 1] = p[k - 1]
      BY <3>2, <3>4
    <3>6. w[k] = NextNum(w[k - 1])
      BY <1>3, <3>4 DEF NthNumbers
    <3>7. p[k] = fats[0][p[k - 1]]
      BY <3>4 DEF Path
    <3>8. p[k - 1] \in Clus
      BY <1>1, <3>4, ElementOfSeq
    <3> QED BY <1>2, <3>2, <3>5, <3>6, <3>7, <3>8
  <2> QED BY <1>1, <2>2
<1>4. p[i] \in Clus
  BY <1>1, ElementOfSeq
<1>5. fat_chain_nth_cnum(c, i) = p[i]
  <2>1. PICK w \in [0 .. i -> Nums] : NthNumbers(w, c, i)
    BY <1>1, NthIs
  <2> QED BY <1>3, <2>1 DEF NthNumbers
<1>6. fat_chain_nth_cnum(c, i + 1) = fats[0][p[i]]
  <2>1. i + 1 \in Nat
    BY <1>1
  <2>2. PICK w \in [0 .. i + 1 -> Nums] : NthNumbers(w, c, i + 1)
    BY <2>1, NthIs
  <2>3. w[i] = p[i]
    BY <1>3, <2>2
  <2>4. i \in 1 .. (i + 1) - 1
    BY <1>1
  <2>5. w[i + 1] = NextNum(w[i])
    BY <2>2, <2>4 DEF NthNumbers
  <2> QED BY <1>2, <1>4, <2>2, <2>3, <2>5 DEF NthNumbers
<1> QED BY <1>4, <1>5, <1>6

(* Concatenation. *)
Flat(f, s, n) == f = [i \in 1 .. n |-> IF i = 1 THEN s[i] ELSE f[i - 1] \o s[i]]

LEMMA FlatExists ==
    ASSUME NEW s, NEW n \in Nat
    PROVE  \E f : Flat(f, s, n)
<1> DEFINE Lacks == {m \in Nat : ~\E f : Flat(f, s, m)}
<1>1. SUFFICES ASSUME Lacks # {} PROVE FALSE
  OBVIOUS
<1>2. PICK m \in Lacks : \A k \in Lacks : m <= k
  BY <1>1, Smallest
<1>3. m # 0
  <2>1. ASSUME m = 0 PROVE FALSE
    <3> DEFINE h == [k \in 1 .. 0 |-> s]
    <3>1. Flat(h, s, 0)
      BY DEF Flat
    <3> QED BY <1>2, <2>1, <3>1
  <2> QED BY <2>1
<1>4. m - 1 \in Nat /\ m - 1 \notin Lacks
  BY <1>2, <1>3
<1>5. PICK f : Flat(f, s, m - 1)
  BY <1>4
<1> DEFINE h == [k \in 1 .. m |-> IF k = 1 THEN s[k] ELSE f[k - 1] \o s[k]]
<1>6. \A k \in 1 .. m : h[k] = IF k = 1 THEN s[k] ELSE f[k - 1] \o s[k]
  BY Zenon
<1>7. h = [k \in 1 .. m |-> h[k]]
  BY Zenon
<1> HIDE DEF h
<1>8. \A k \in 1 .. m - 1 : f[k] = IF k = 1 THEN s[k] ELSE f[k - 1] \o s[k]
  BY <1>5, Zenon DEF Flat
<1>9. ASSUME NEW k \in 1 .. m, k # 1 PROVE h[k - 1] = f[k - 1]
  <2>1. k - 1 \in 1 .. m /\ k - 1 \in 1 .. m - 1
    BY <1>2, <1>9
  <2> QED BY <1>6, <1>8, <2>1, Zenon
<1>10. \A k \in 1 .. m : h[k] = IF k = 1 THEN s[k] ELSE h[k - 1] \o s[k]
  <2>1. TAKE k \in 1 .. m
  <2>2. CASE k = 1
    BY <1>6, <2>2, Zenon
  <2>3. CASE k # 1
    BY <1>6, <1>9, <2>3, Zenon
  <2> QED BY <2>2, <2>3
<1>11. Flat(h, s, m)
  <2>1. [k \in 1 .. m |-> h[k]] = [k \in 1 .. m |-> IF k = 1 THEN s[k] ELSE h[k - 1] \o s[k]]
    BY <1>10, Zenon
  <2> QED BY <1>7, <2>1, Zenon DEF Flat
<1> QED BY <1>2, <1>11

LEMMA FlattenIs ==
    ASSUME NEW S, NEW s \in Seq(Seq(S))
    PROVE  FlattenSeq(s) \in Seq(S)
<1> DEFINE n == Len(s)
           f == CHOOSE f : Flat(f, s, n)
<1>1. n \in Nat
  OBVIOUS
<1>2. CASE n = 0
  <2>1. FlattenSeq(s) = s
    BY <1>2 DEF FlattenSeq
  <2>2. s = <<>>
    BY <1>2
  <2>3. <<>> \in Seq(S)
    OBVIOUS
  <2> QED BY <2>1, <2>2, <2>3
<1>3. CASE n # 0
  <2>1. FlattenSeq(s) = f[n]
    BY <1>3, Zenon DEF FlattenSeq, Flat
  <2>2. Flat(f, s, n)
    <3>1. \E h : Flat(h, s, n)
      BY <1>1, FlatExists
    <3> QED BY <3>1, Zenon
  <2> HIDE DEF f
  <2> DEFINE Out == {i \in 1 .. n : f[i] \notin Seq(S)}
  <2>3. \A i \in 1 .. n : f[i] = IF i = 1 THEN s[i] ELSE f[i - 1] \o s[i]
    BY <2>2 DEF Flat
  <2>4. \A i \in 1 .. n : s[i] \in Seq(S)
    OBVIOUS
  <2> HIDE DEF n
  <2>5. Out = {}
    <3>1. SUFFICES ASSUME Out # {} PROVE FALSE
      OBVIOUS
    <3>2. PICK m \in Out : \A k \in Out : m <= k
      <4>1. Out \subseteq Nat
        OBVIOUS
      <4> HIDE DEF Out
      <4> QED BY <3>1, <4>1, Smallest
    <3>3. m # 1
      BY <2>3, <2>4, <3>2
    <3>4. m - 1 \in 1 .. n /\ m - 1 \notin Out /\ m \in 1 .. n
      BY <3>2, <3>3, <1>1
    <3>5. f[m - 1] \in Seq(S)
      BY <3>4
    <3>6. f[m] = f[m - 1] \o s[m] /\ s[m] \in Seq(S)
      BY <2>3, <2>4, <3>3, <3>4
    <3>7. f[m] \in Seq(S)
      BY <3>5, <3>6, ConcatProperties
    <3> QED BY <3>2, <3>7
  <2>6. n \in 1 .. n
    BY <1>1, <1>3
  <2> QED BY <2>1, <2>5, <2>6
<1> QED BY <1>2, <1>3

(* The loop that counts the clusters of a chain. *)
CountSteps(f, c) ==
    f = [k \in 1 .. NClus + 1 |->
            IF k = 1 THEN c ELSE IF is_valid_cnum(f[k - 1]) THEN fat_next(f[k - 1]) ELSE f[k - 1]]

LEMMA CountNat == \A c : fat_chain_count(c) \in Nat
<1>1. SUFFICES ASSUME NEW c PROVE fat_chain_count(c) \in Nat
  OBVIOUS
<1> DEFINE w == CHOOSE f : CountSteps(f, c)
           D == {k \in 1 .. NClus + 1 : is_valid_cnum(w[k])}
<1>2. fat_chain_count(c) = Cardinality(D)
  BY Zenon DEF fat_chain_count, CountSteps
<1>3. 1 .. NClus + 1 \in SUBSET Int /\ IsFiniteSet(1 .. NClus + 1)
  BY VfatConsts, FS_Interval
<1>4. D \subseteq 1 .. NClus + 1
  OBVIOUS
<1> HIDE DEF D
<1> QED BY <1>2, <1>3, <1>4, FS_Subset, FS_CardinalityType

(* It counts the chain if this stays in a set where the two tell clusters  *)
(* alike.                                                                  *)
LEMMA CountIs ==
    ASSUME Table(fats[0]), NEW S \in SUBSET Nums, \A p \in S : is_valid_cnum(p) <=> p \in Clus,
           \A p \in S \cap Clus : fats[0][p] \in S, NEW c \in S
    PROVE  fat_chain_count(c) = Len(Chain(0, c))
<1> DEFINE n == NClus + 1
           w == CHOOSE f : CountSteps(f, c)
<1>1. PICK v \in [1 .. n -> Nums] : Numbers(v, fats[0], c)
  BY StepsIs
<1>2. n \in Nat /\ n > 0 /\ n - 1 = NClus /\ 1 \in 1 .. n
  BY VfatConsts
<1>3. \A p \in S : (IF is_valid_cnum(p) THEN fat_next(p) ELSE p) = IF p \in Clus THEN fats[0][p] ELSE p
  BY VfatConsts DEF fat_next
<1>4. \A k \in 1 .. n : k # 1 => v[k] = IF v[k - 1] \in Clus THEN fats[0][v[k - 1]] ELSE v[k - 1]
  <2>1. TAKE k \in 1 .. n
  <2>2. SUFFICES ASSUME k # 1 PROVE v[k] = IF v[k - 1] \in Clus THEN fats[0][v[k - 1]] ELSE v[k - 1]
    OBVIOUS
  <2>3. k - 1 \in 1 .. NClus /\ (k - 1) + 1 = k
    BY <1>2, <2>2
  <2> QED BY <1>1, <2>3 DEF Numbers
<1>5. ASSUME NEW k \in 1 .. n PROVE v[k] \in S
  <2> DEFINE Out == {i \in 1 .. n : v[i] \notin S}
  <2>1. SUFFICES ASSUME Out # {} PROVE FALSE
    OBVIOUS
  <2>2. PICK m \in Out : \A i \in Out : m <= i
    <3>1. Out \subseteq Nat
      BY <1>2
    <3> HIDE DEF Out
    <3> QED BY <2>1, <3>1, Smallest
  <2>3. m # 1
    BY <1>1, <2>2 DEF Numbers
  <2>4. m - 1 \in 1 .. n /\ m - 1 \notin Out /\ m \in 1 .. n
    BY <1>2, <2>2, <2>3
  <2>5. v[m - 1] \in S
    BY <2>4
  <2>6. v[m] \in S
    BY <1>4, <2>3, <2>4, <2>5
  <2> QED BY <2>2, <2>6
<1>6. CountSteps(v, c)
  <2>1. \A k \in 1 .. n :
          v[k] = IF k = 1 THEN c ELSE IF is_valid_cnum(v[k - 1]) THEN fat_next(v[k - 1]) ELSE v[k - 1]
    <3>1. TAKE k \in 1 .. n
    <3>2. CASE k = 1
      BY <1>1, <3>2 DEF Numbers
    <3>3. CASE k # 1
      <4>1. k - 1 \in 1 .. n
        BY <1>2, <3>3
      <4>2. v[k - 1] \in S
        BY <1>5, <4>1
      <4> QED BY <1>3, <1>4, <3>3, <4>2
    <3> QED BY <3>2, <3>3
  <2>2. v = [k \in 1 .. n |-> v[k]]
    OBVIOUS
  <2>3. v = [k \in 1 .. n |->
            IF k = 1 THEN c ELSE IF is_valid_cnum(v[k - 1]) THEN fat_next(v[k - 1]) ELSE v[k - 1]]
    BY <2>1, <2>2, Zenon
  <2> QED BY <2>3, Zenon DEF CountSteps
<1>7. CountSteps(w, c)
  BY <1>6, Zenon
<1>8. fat_chain_count(c) = Cardinality({k \in 1 .. n : is_valid_cnum(w[k])})
  BY Zenon DEF fat_chain_count, CountSteps
<1> HIDE DEF w
<1>9. \A k \in 1 .. n :
        w[k] = IF k = 1 THEN c ELSE IF is_valid_cnum(w[k - 1]) THEN fat_next(w[k - 1]) ELSE w[k - 1]
  BY <1>7, Zenon DEF CountSteps
<1>10. ASSUME NEW k \in 1 .. n PROVE w[k] = v[k]
  <2> DEFINE Out == {i \in 1 .. n : w[i] # v[i]}
  <2>1. SUFFICES ASSUME Out # {} PROVE FALSE
    OBVIOUS
  <2>2. PICK m \in Out : \A i \in Out : m <= i
    <3>1. Out \subseteq Nat
      BY <1>2
    <3> HIDE DEF Out
    <3> QED BY <2>1, <3>1, Smallest
  <2>3. m # 1
    BY <1>1, <1>9, <2>2 DEF Numbers
  <2>4. m - 1 \in 1 .. n /\ m - 1 \notin Out /\ m \in 1 .. n
    BY <1>2, <2>2, <2>3
  <2>5. w[m - 1] = v[m - 1] /\ v[m - 1] \in S
    BY <1>5, <2>4
  <2>6. w[m] = v[m]
    BY <1>3, <1>4, <1>9, <2>3, <2>4, <2>5
  <2> QED BY <2>2, <2>6
<1>11. {k \in 1 .. n : is_valid_cnum(w[k])} = {k \in 1 .. n : v[k] \in Clus}
  BY <1>5, <1>10
<1>12. ChainOf(fats[0], c) = [k \in 1 .. Cardinality({k \in 1 .. n : v[k] \in Clus}) |-> v[k]]
  BY <1>1 DEF Numbers
<1>13. Cardinality({k \in 1 .. n : v[k] \in Clus}) = fat_chain_count(c)
  BY <1>8, <1>11
<1>14. Len(ChainOf(fats[0], c)) = fat_chain_count(c)
  <2>1. PICK m : m = fat_chain_count(c)
    OBVIOUS
  <2>2. m \in Nat
    BY <2>1, CountNat
  <2>3. ChainOf(fats[0], c) = [k \in 1 .. m |-> v[k]]
    BY <1>12, <1>13, <2>1
  <2>4. Len([k \in 1 .. m |-> v[k]]) = m
    BY <2>2
  <2> QED BY <2>1, <2>3, <2>4
<1> QED BY <1>14, ChainIsOf

(* The device, and the places of its entries. *)
FatsOk == fats \in [Copies -> [Cells -> Nums]]
RootOk ==
    /\ root = [s \in 0 .. RootC - 1 |-> root[s]]
    /\ \A s \in 0 .. RootC - 1 : IsEntry(root[s])
BlkOk ==
    /\ blk = [c \in Clus |-> [s \in SlotsOf |-> blk[c][s]]]
    /\ \A c \in Clus, s \in SlotsOf : IsEntry(blk[c][s])
DevOk == FatsOk /\ RootOk /\ BlkOk

Places == ({0} \X (0 .. RootC - 1)) \cup (Clus \X SlotsOf)

(* Of any volume. *)
LEMMA EntryOf ==
    ASSUME NEW v, HasShape(v), NEW a \in Places
    PROVE  IsEntry(EntOf(v, a)) /\ EntOf(v, a).cn \in Nums /\ EntOf(v, a).sz \in Nat
<1>1. CASE a \in {0} \X (0 .. RootC - 1)
  BY <1>1 DEF HasShape, EntOf, IsEntry, Nums
<1>2. CASE a \in Clus \X SlotsOf
  <2>1. a[1] # 0 /\ a[1] \in Clus /\ a[2] \in SlotsOf
    BY <1>2, VfatConsts
  <2> QED BY <2>1 DEF HasShape, EntOf, IsEntry, Nums
<1> QED BY <1>1, <1>2 DEF Places

LEMMA ClustersIs ==
    ASSUME NEW v, HasShape(v), NEW a \in Places
    PROVE  /\ Table(v.fat)
           /\ IsChain(ClustersOf(v, a), v.fat, EntOf(v, a).cn)
           /\ ClustersOf(v, a) \in Seq(Clus)
<1>1. Table(v.fat)
  BY DEF HasShape, Table, Nums
<1>2. EntOf(v, a).cn \in Nums
  BY EntryOf
<1>3. IsChain(ClustersOf(v, a), v.fat, EntOf(v, a).cn)
  BY <1>1, <1>2, ChainIs DEF ClustersOf
<1> QED BY <1>1, <1>3 DEF IsChain, Path

(* What a reader finds is in such places. *)
LEMMA InsideAt ==
    ASSUME NEW v, HasShape(v), NEW A \in SUBSET Places
    PROVE  InsideOf(v, A) \subseteq Places
<1>1. SUFFICES ASSUME NEW a \in A, NEW x \in ToSet(ClustersOf(v, a)) \X SlotsOf PROVE x \in Places
  BY DEF InsideOf
<1>2. ClustersOf(v, a) \in Seq(Clus)
  BY ClustersIs
<1>3. ToSet(ClustersOf(v, a)) \subseteq Clus
  BY <1>2 DEF ToSet
<1> QED BY <1>1, <1>3 DEF Places

LEMMA LiveIn ==
    ASSUME NEW v, HasShape(v)
    PROVE  LiveOf(v) \subseteq Places
<1> DEFINE top == NamedOf(v, {0} \X (0 .. RootC - 1))
           mid == NamedOf(v, InsideOf(v, top))
<1>1. top \subseteq Places
  BY DEF NamedOf, Places
<1>2. InsideOf(v, top) \subseteq Places
  <2> HIDE DEF top
  <2> QED BY <1>1, InsideAt
<1>3. mid \subseteq Places
  <2> HIDE DEF top
  <2> QED BY <1>2 DEF NamedOf
<1>4. InsideOf(v, mid) \subseteq Places
  <2> HIDE DEF mid
  <2> QED BY <1>3, InsideAt
<1>5. NamedOf(v, InsideOf(v, mid)) \subseteq Places
  <2> HIDE DEF mid
  <2> QED BY <1>4 DEF NamedOf
<1>6. LiveOf(v) = top \cup mid \cup NamedOf(v, InsideOf(v, mid))
  BY Zenon DEF LiveOf
<1> HIDE DEF top, mid
<1> QED BY <1>1, <1>3, <1>5, <1>6

(* Of the one there is. *)
LEMMA VolShape == DevOk => HasShape(Vol) /\ Vol.fat = fats[0] /\ Vol.root = root /\ Vol.blk = blk
<1> SUFFICES ASSUME DevOk PROVE HasShape(Vol) /\ Vol.fat = fats[0] /\ Vol.root = root /\ Vol.blk = blk
  OBVIOUS
<1>1. Vol.fat = fats[0] /\ Vol.root = root /\ Vol.blk = blk
  BY DEF Vol
<1>2. fats[0] \in [Cells -> 0 .. Eof]
  BY VfatConsts DEF DevOk, FatsOk, Nums
<1> QED BY <1>1, <1>2 DEF HasShape, DevOk, RootOk, BlkOk

LEMMA EntryAt ==
    ASSUME DevOk, NEW a \in Places
    PROVE  IsEntry(Ent(a)) /\ Ent(a).cn \in Nums /\ Ent(a).sz \in Nat
BY VolShape, EntryOf DEF Ent

LEMMA ChainAt ==
    ASSUME FatsOk, NEW c \in Nums
    PROVE  /\ Table(fats[0])
           /\ Chain(0, c) = ChainOf(fats[0], c)
           /\ IsChain(Chain(0, c), fats[0], c)
           /\ Chain(0, c) \in Seq(Clus)
<1>1. Table(fats[0])
  BY VfatConsts DEF FatsOk, Table
<1>2. Chain(0, c) = ChainOf(fats[0], c)
  BY ChainIsOf
<1>3. IsChain(Chain(0, c), fats[0], c)
  BY <1>1, <1>2, ChainIs
<1> QED BY <1>1, <1>2, <1>3 DEF IsChain, Path

LEMMA LiveAt ==
    ASSUME DevOk
    PROVE  Live \subseteq Places
BY VolShape, LiveIn DEF Live

(* A write puts a number into the table or into an entry. *)
WriteOk(w) == w.op \in {"fat", "lo"} => w.val \in Nums
LogOk(l) == \E S : l \in Seq(S) /\ \A w \in S : WriteOk(w)

LEMMA LogNone == LogOk(<<>>)
<1>1. PICK S : S = {}
  OBVIOUS
<1>2. <<>> \in Seq(S) /\ \A w \in S : WriteOk(w)
  BY <1>1
<1> QED BY <1>2 DEF LogOk

LEMMA LogBoth ==
    ASSUME NEW k, NEW l, LogOk(k), LogOk(l)
    PROVE  LogOk(k \o l)
<1>1. PICK S : k \in Seq(S) /\ \A w \in S : WriteOk(w)
  BY DEF LogOk
<1>2. PICK T : l \in Seq(T) /\ \A w \in T : WriteOk(w)
  BY DEF LogOk
<1>3. PICK U : U = S \cup T
  OBVIOUS
<1>4. k \in Seq(U) /\ l \in Seq(U)
  BY <1>1, <1>2, <1>3
<1>5. k \o l \in Seq(U)
  BY <1>4, ConcatProperties
<1>6. \A w \in U : WriteOk(w)
  BY <1>1, <1>2, <1>3
<1> QED BY <1>5, <1>6 DEF LogOk

LEMMA LogHead ==
    ASSUME NEW l, LogOk(l), l # <<>>
    PROVE  WriteOk(Head(l)) /\ LogOk(Tail(l))
<1>1. PICK S : l \in Seq(S) /\ \A w \in S : WriteOk(w)
  BY DEF LogOk
<1>2. Head(l) \in S /\ Tail(l) \in Seq(S)
  BY <1>1, HeadTailProperties
<1> QED BY <1>1, <1>2 DEF LogOk

LEMMA FatWrites ==
    ASSUME NEW c, NEW v \in Nums
    PROVE  LogOk(write_fat(c, v)) /\ write_fat(c, v) \in Seq({Write("fat", <<n, c>>, v) : n \in Copies})
<1> DEFINE S == {Write("fat", <<n, c>>, v) : n \in Copies}
<1>1. \A n \in 1 .. FatCount : n - 1 \in Copies
  BY VfatConsts DEF Copies
<1>2. write_fat(c, v) \in [1 .. FatCount -> S]
  BY <1>1 DEF write_fat
<1>3. \A w \in S : WriteOk(w)
  BY DEF WriteOk, Write
<1>4. FatCount \in Nat
  BY VfatConsts
<1> HIDE DEF S
<1>5. write_fat(c, v) \in Seq(S)
  BY <1>2, <1>4
<1>6. LogOk(write_fat(c, v))
  BY <1>3, <1>5 DEF LogOk
<1> QED BY <1>5, <1>6 DEF S

LEMMA CnWrites ==
    ASSUME NEW a, NEW v \in Nums
    PROVE  LogOk(write_de_cn(a, v))
<1>1. write_de_cn(a, v) \in Seq({Write("lo", a, v), Write("hi", a, 0)})
  BY DEF write_de_cn
<1>2. \A w \in {Write("lo", a, v), Write("hi", a, 0)} : WriteOk(w)
  BY DEF WriteOk, Write
<1> QED BY <1>1, <1>2 DEF LogOk

LEMMA DotdotWrites ==
    ASSUME NEW a, NEW c \in Nums, de_children_count(Ent(a)) \in Nat
    PROVE  LogOk(write_fix_dotdot_n(a, c))
<1> DEFINE N == de_children_count(Ent(a))
           kid(n) == get_nth_de(Ent(a), n)
           fix(n) == IF is_good_dir(Ent(kid(n))) THEN write_de_cn(find_dotdot_de(kid(n)), c) ELSE <<>>
           s == [n \in 1 .. N |-> fix(n - 1)]
           W(n) == {Write("lo", find_dotdot_de(kid(n)), c), Write("hi", find_dotdot_de(kid(n)), 0)}
           S == UNION {W(n - 1) : n \in 1 .. N}
<1>1. write_fix_dotdot_n(a, c) = FlattenSeq(s)
  BY Zenon DEF write_fix_dotdot_n
<1>2. ASSUME NEW n PROVE fix(n) \in Seq(W(n))
  <2>1. PICK d : d = find_dotdot_de(kid(n))
    OBVIOUS
  <2>2. write_de_cn(d, c) \in Seq({Write("lo", d, c), Write("hi", d, 0)})
    BY DEF write_de_cn
  <2>3. write_de_cn(find_dotdot_de(kid(n)), c) \in Seq(W(n))
    BY <2>1, <2>2
  <2>4. <<>> \in Seq(W(n))
    OBVIOUS
  <2> HIDE DEF W, kid
  <2> QED BY <2>3, <2>4
<1>3. \A w \in S : WriteOk(w)
  <2>1. \A n : \A w \in W(n) : WriteOk(w)
    BY DEF WriteOk, Write
  <2> HIDE DEF W
  <2> QED BY <2>1
<1>4. ASSUME NEW n \in 1 .. N PROVE s[n] \in Seq(S)
  <2>1. s[n] = fix(n - 1)
    BY Zenon
  <2>2. W(n - 1) \subseteq S
    OBVIOUS
  <2>3. fix(n - 1) \in Seq(W(n - 1))
    BY <1>2
  <2> HIDE DEF W, S, s, fix
  <2> QED BY <2>1, <2>2, <2>3
<1>5. s = [n \in 1 .. N |-> s[n]]
  BY Zenon
<1> HIDE DEF s, S, N
<1>6. s \in [1 .. N -> Seq(S)]
  BY <1>4, <1>5
<1>7. s \in Seq(Seq(S))
  BY <1>6 DEF N
<1>8. FlattenSeq(s) \in Seq(S)
  BY <1>7, FlattenIs
<1> QED BY <1>1, <1>3, <1>8 DEF LogOk

LEMMA RelinkWrites ==
    ASSUME DevOk, NEW a \in Places, NEW c \in Nums, NEW i \in Nat
    PROVE  LogOk(block_relink(a, i, c)) /\ LogOk(block_replace(get_nth_cnum(Ent(a), i)))
<1>1. Ent(a).cn \in Nums /\ Ent(a).sz \in Nat
  BY EntryAt
<1>2. Table(fats[0])
  BY VfatConsts DEF DevOk, FatsOk, Table
<1>3. de_children_count(Ent(a)) \in Nat
  <2>1. fat_chain_count(Ent(a).cn) \in Nat
    BY CountNat
  <2>2. (Ent(a).sz + Bpc - 1) \div Bpc \in Nat
    <3>1. Ent(a).sz + Bpc - 1 \in Nat /\ Bpc \in Nat \ {0}
      BY <1>1, VfatConsts
    <3> QED BY <3>1, Parts
  <2>3. de_cluster_count(Ent(a)) \in Nat
    BY <2>1, <2>2 DEF de_cluster_count, file_cluster_count
  <2> QED BY <2>3, VfatConsts DEF de_children_count
<1>4. LogOk(block_rel_update_de(a, c))
  <2>1. LogOk(write_fix_dir_refs(a, c))
    BY <1>3, CnWrites, DotdotWrites, LogBoth DEF write_fix_dir_refs
  <2>2. LogOk(IF is_good_dir(Ent(a)) THEN write_fix_dir_refs(a, c) ELSE <<>>)
    BY <2>1, LogNone
  <2>3. LogOk(write_de_cn(a, c))
    BY CnWrites
  <2> QED BY <2>2, <2>3, LogBoth, Zenon DEF block_rel_update_de
<1>5. LogOk(IF i = 1 THEN block_rel_update_de(a, c) ELSE write_fat(get_nth_cnum(Ent(a), i - 1), c))
  BY <1>4, FatWrites
<1>6. get_nth_cnum(Ent(a), i + 1) \in Nums
  BY <1>1, <1>2, NthNum DEF get_nth_cnum
<1>7. LogOk(write_fat(c, get_nth_cnum(Ent(a), i + 1)))
  BY <1>6, FatWrites
<1>8. LogOk(block_relink(a, i, c))
  BY <1>5, <1>7, LogBoth, Zenon DEF block_relink
<1>9. LogOk(block_replace(get_nth_cnum(Ent(a), i)))
  BY FatWrites, VfatConsts DEF block_replace, FAT_ENT_FREE
<1> QED BY <1>8, <1>9

(* Until the copy is made the new cluster is in no chain; what the walk to *)
(* the old one finds is on the chain of its entry.                         *)
Moving == {"alloc", "copied", "relink", "replace"}
AllocLog == {Write("fat", <<n, new>>, Bad) : n \in Copies}
Avoids == \E p : /\ Path(p, fats[0], Ent(de).cn) /\ at \in 1 .. Len(p)
                 /\ \A k \in 1 .. Len(p) : p[k] # new

VfInv ==
    /\ pc \in Idle \cup {"fats", "entries"} \cup Moving
    /\ LogOk(log) /\ LogOk(replace)
    /\ pc \notin Moving => log = <<>>
    /\ pc \in Moving => new \in Offered /\ de \in Places /\ at \in Nat
    /\ pc = "alloc" => log \in Seq(AllocLog) /\ Avoids
    /\ pc \in {"entries", "clean"} => BadCells = {}
    /\ pc = "clean" => TooLong = {}
FsckInv == DevOk /\ VfInv

LEMMA FsckStarts == VfatInit => FsckInv
<1> SUFFICES ASSUME VfatInit PROVE FsckInv
  OBVIOUS
<1>1. PICK v \in Volumes : /\ fats = [n \in 0 .. FatCount - 1 |-> v.fat]
                           /\ root = v.root /\ blk = v.blk
  BY DEF VfatInit
<1>2. IsVolume(v)
  BY VfatAssumption
<1>3. FatsOk
  BY <1>1, <1>2 DEF IsVolume, HasShape, FatsOk, Nums, Copies
<1>4. RootOk
  BY <1>1, <1>2 DEF IsVolume, HasShape, RootOk
<1>5. BlkOk
  BY <1>1, <1>2 DEF IsVolume, HasShape, BlkOk
<1>6. VfInv
  <2>1. pc = "idle" /\ log = <<>> /\ replace = <<>>
    BY DEF VfatInit
  <2> QED BY <2>1, LogNone DEF VfInv, Idle, Moving
<1> QED BY <1>3, <1>4, <1>5, <1>6 DEF FsckInv, DevOk

(* A write leaves a device of the same shape. *)
LEMMA ApplyOk ==
    ASSUME DevOk, NEW w, WriteOk(w), Apply(w)
    PROVE  DevOk'
<1>1. FatsOk'
  <2>1. CASE w.op = "fat"
    <3>1. w.val \in Nums /\ fats' = [fats EXCEPT ![w.where[1]][w.where[2]] = w.val]
      BY <2>1 DEF WriteOk, Apply
    <3>2. PICK i, sl, v : i = w.where[1] /\ sl = w.where[2] /\ v = w.val
      OBVIOUS
    <3>3. fats \in [Copies -> [Cells -> Nums]] /\ v \in Nums /\ fats' = [fats EXCEPT ![i] = [fats[i] EXCEPT ![sl] = v]]
      BY <3>1, <3>2 DEF DevOk, FatsOk
    <3>4. fats' \in [Copies -> [Cells -> Nums]]
      BY <3>3
    <3> QED BY <3>4 DEF FatsOk, Nums, Copies, Eof, FatMax, Cells
  <2>2. CASE w.op # "fat"
    <3>1. fats' = fats
      BY <2>2 DEF Apply
    <3> QED BY <3>1 DEF DevOk, FatsOk, Nums, Copies, Eof, FatMax, Cells
  <2> QED BY <2>1, <2>2
<1>2. ASSUME NEW e, IsEntry(e), NEW v \in Nums PROVE IsEntry([e EXCEPT !.cn = v])
  <2>1. e = [k |-> e.k, nm |-> e.nm, cn |-> e.cn, sz |-> e.sz] /\ e.sz \in Nat
    BY <1>2 DEF IsEntry
  <2>2. [e EXCEPT !.cn = v] = [k |-> e.k, nm |-> e.nm, cn |-> v, sz |-> e.sz]
    BY <2>1
  <2>3. PICK x : x = [e EXCEPT !.cn = v]
    OBVIOUS
  <2>4. x = [k |-> e.k, nm |-> e.nm, cn |-> v, sz |-> e.sz]
    BY <2>2, <2>3
  <2>5. IsEntry(x)
    BY <2>1, <2>4 DEF IsEntry, Nums
  <2> QED BY <2>3, <2>5
<1>3. RootOk'
  <2>1. CASE w.op = "lo" /\ w.where[1] = 0
    <3>1. w.val \in Nums /\ root' = [root EXCEPT ![w.where[2]].cn = w.val]
      BY <2>1 DEF WriteOk, Apply
    <3>2. PICK sl, v : sl = w.where[2] /\ v = w.val
      OBVIOUS
    <3>3. v \in Nums /\ root' = [root EXCEPT ![sl] = [root[sl] EXCEPT !.cn = v]]
      BY <3>1, <3>2
    <3>4. root = [s \in 0 .. RootC - 1 |-> root[s]] /\ \A s \in 0 .. RootC - 1 : IsEntry(root[s])
      BY DEF DevOk, RootOk
    <3>5. root' = [s \in 0 .. RootC - 1 |-> root'[s]]
      BY <3>3, <3>4
    <3>6. \A s \in 0 .. RootC - 1 : root'[s] = IF s = sl THEN [root[sl] EXCEPT !.cn = v] ELSE root[s]
      BY <3>3, <3>4
    <3>7. \A s \in 0 .. RootC - 1 : IsEntry(root'[s])
      BY <1>2, <3>3, <3>4, <3>6
    <3> QED BY <3>5, <3>7 DEF RootOk, IsEntry, Eof, FatMax
  <2>2. CASE ~(w.op = "lo" /\ w.where[1] = 0)
    <3>1. root' = root
      BY <2>2 DEF Apply
    <3> QED BY <3>1 DEF DevOk, RootOk, IsEntry, Eof, FatMax
  <2> QED BY <2>1, <2>2
<1>4. BlkOk'
  <2>1. CASE w.op = "lo" /\ w.where[1] # 0
    <3>1. w.val \in Nums /\ blk' = [blk EXCEPT ![w.where[1]][w.where[2]].cn = w.val]
      BY <2>1 DEF WriteOk, Apply
    <3>2. PICK i, sl, v : i = w.where[1] /\ sl = w.where[2] /\ v = w.val
      OBVIOUS
    <3>3. v \in Nums /\ blk' = [blk EXCEPT ![i] = [blk[i] EXCEPT ![sl] = [blk[i][sl] EXCEPT !.cn = v]]]
      BY <3>1, <3>2
    <3>4. blk = [c \in Clus |-> [s \in SlotsOf |-> blk[c][s]]] /\ \A c \in Clus, s \in SlotsOf : IsEntry(blk[c][s])
      BY DEF DevOk, BlkOk
    <3>5. blk' = [c \in Clus |-> [s \in SlotsOf |-> blk'[c][s]]]
      BY <3>3, <3>4
    <3>6. \A c \in Clus, s \in SlotsOf :
            blk'[c][s] = IF c = i /\ s = sl THEN [blk[i][sl] EXCEPT !.cn = v] ELSE blk[c][s]
      BY <3>3, <3>4
    <3>7. \A c \in Clus, s \in SlotsOf : IsEntry(blk'[c][s])
      <4>1. TAKE c \in Clus, s \in SlotsOf
      <4>2. CASE c = i /\ s = sl
        <5>1. IsEntry(blk[i][sl])
          BY <3>4, <4>2
        <5>2. IsEntry([blk[i][sl] EXCEPT !.cn = v])
          BY <1>2, <3>3, <5>1
        <5> QED BY <3>6, <4>2, <5>2
      <4>3. CASE ~(c = i /\ s = sl)
        BY <3>4, <3>6, <4>3
      <4> QED BY <4>2, <4>3
    <3> QED BY <3>5, <3>7 DEF BlkOk, IsEntry, Eof, FatMax, Clus, SlotsOf
  <2>2. CASE ~(w.op = "lo" /\ w.where[1] # 0)
    <3>1. blk' = blk
      BY <2>2 DEF Apply
    <3> QED BY <3>1 DEF DevOk, BlkOk, IsEntry, Eof, FatMax, Clus, SlotsOf
  <2> QED BY <2>1, <2>2
<1> QED BY <1>1, <1>3, <1>4 DEF DevOk

DevSame == fats' = fats /\ root' = root /\ blk' = blk

LEMMA SameOk ==
    ASSUME DevOk, DevSame
    PROVE  DevOk'
<1>1. FatsOk'
  BY DEF DevOk, DevSame, FatsOk, Nums, Copies, Eof, FatMax, Cells
<1>2. RootOk'
  BY DEF DevOk, DevSame, RootOk, IsEntry, Eof, FatMax
<1>3. BlkOk'
  BY DEF DevOk, DevSame, BlkOk, IsEntry, Eof, FatMax, Clus, SlotsOf
<1> QED BY <1>1, <1>2, <1>3 DEF DevOk

LEMMA NewOffered == Offered \subseteq Clus /\ Clus \subseteq Nums
BY VfatConsts

(* The lists of damage depend on the device alone. *)
LEMMA BadCellsSame == fats' = fats => BadCells' = BadCells
BY DEF BadCells, cluster_bad_range, FAT_START_ENT, FatMax, Cells

LEMMA TooLongSame == DevSame => TooLong' = TooLong
BY DEF DevSame, TooLong, Live, LiveOf, NamedOf, InsideOf, ClustersOf, ChainOf, EntOf, Vol, Ent, SlotsOf, Clus, get_max_bytes, fat_chain_count,
       is_valid_cnum, fat_next, Cells, FatMax, FAT_START_ENT

(* The cluster to be moved is on the chain of its entry, and the new one   *)
(* on none: a sound chain ends with Eof and the table has 0 for the new.   *)
LEMMA BeginAvoids ==
    ASSUME DevOk, NEW a \in Live, NEW i \in 1 .. NClus, NEW c \in Offered,
           SoundVolume, is_cluster_avail(c), i <= de_cluster_count(Ent(a))
    PROVE  \E p : /\ Path(p, fats[0], Ent(a).cn) /\ i \in 1 .. Len(p)
                  /\ \A k \in 1 .. Len(p) : p[k] # c
<1>1. a \in Places /\ Ent(a).cn \in Nums
  BY LiveAt, EntryAt
<1> DEFINE p == Chain(0, Ent(a).cn)
<1>2. /\ Table(fats[0])
      /\ IsChain(p, fats[0], Ent(a).cn)
      /\ p \in Seq(Clus)
  BY <1>1, ChainAt DEF DevOk
<1>3. p # <<>> /\ fats[0][Last(p)] = Eof /\ (Ent(a).k = "file" => Len(p) = de_cluster_count(Ent(a)))
  BY DEF SoundVolume, SoundOf, Live, ClustersOf, Chain, Ent, Vol, de_cluster_count, is_de_dir
<1>4. Ent(a).k \in {"file", "dir"}
  BY DEF Live, LiveOf, NamedOf, Ent
<1>5. p[1] = Ent(a).cn /\ Len(p) \in Nat /\ Len(p) > 0 /\ Path(p, fats[0], Ent(a).cn)
      /\ \A k \in 1 .. Len(p) - 1 : p[k + 1] = fats[0][p[k]]
  BY <1>2, <1>3 DEF IsChain, Path
<1>6. \A k \in 1 .. Len(p) : p[k] \in Clus
  BY <1>2, ElementOfSeq
<1>7. ASSUME NEW k \in 1 .. Len(p) PROVE fats[0][p[k]] = IF k = Len(p) THEN Eof ELSE p[k + 1]
  <2>1. CASE k = Len(p)
    BY <1>3, <2>1 DEF Last
  <2>2. CASE k # Len(p)
    BY <1>5, <2>2
  <2> QED BY <2>1, <2>2
<1> HIDE DEF p
<1>8. Len(p) = de_cluster_count(Ent(a))
  <2>1. CASE Ent(a).k = "file"
    BY <1>3, <2>1
  <2>2. CASE Ent(a).k = "dir"
    <3> DEFINE S == {p[k] : k \in 1 .. Len(p)} \cup {Eof}
    <3>1. S \in SUBSET Nums
      BY <1>6, VfatConsts
    <3>2. \A x \in S : is_valid_cnum(x) <=> x \in Clus
      <4>1. \A x \in Clus : is_valid_cnum(x)
        BY VfatConsts DEF is_valid_cnum, FAT_START_ENT
      <4>2. ~is_valid_cnum(Eof) /\ Eof \notin Clus
        BY VfatConsts DEF is_valid_cnum, FAT_START_ENT
      <4> QED BY <1>6, <4>1, <4>2
    <3>3. \A x \in S \cap Clus : fats[0][x] \in S
      <4>1. TAKE x \in S \cap Clus
      <4>2. PICK k \in 1 .. Len(p) : x = p[k]
        BY VfatConsts
      <4>3. k # Len(p) => k + 1 \in 1 .. Len(p)
        BY <1>5
      <4> QED BY <1>7, <4>2, <4>3
    <3>4. Ent(a).cn \in S
      <4>1. 1 \in 1 .. Len(p)
        BY <1>5
      <4> QED BY <1>5, <4>1
    <3> HIDE DEF S
    <3>5. fat_chain_count(Ent(a).cn) = Len(Chain(0, Ent(a).cn))
      BY <1>2, <3>1, <3>2, <3>3, <3>4, CountIs
    <3> QED BY <2>2, <3>5 DEF de_cluster_count, is_de_dir, p
  <2> QED BY <1>4, <2>1, <2>2
<1>9. i \in 1 .. Len(p)
  BY <1>5, <1>8
<1>10. ASSUME NEW k \in 1 .. Len(p), p[k] = c PROVE FALSE
  <2>1. c \in Clus /\ c \in Cells /\ 0 \notin Clus /\ Eof # 0
    BY VfatConsts
  <2>2. fats[0][c] = 0
    BY <2>1 DEF is_cluster_avail, fat_next, FAT_ENT_FREE
  <2>3. fats[0][p[k]] = Eof \/ (k + 1 \in 1 .. Len(p) /\ fats[0][p[k]] = p[k + 1])
    BY <1>5, <1>7
  <2>4. k + 1 \in 1 .. Len(p) => p[k + 1] # 0
    BY <1>6, <2>1
  <2> QED BY <1>10, <2>1, <2>2, <2>3, <2>4
<1> QED BY <1>5, <1>9, <1>10

(* While the new number is written the path stays. *)
LEMMA AvoidsStays ==
    ASSUME DevOk, Avoids, NEW w \in AllocLog, Apply(w), new \in Offered, de \in Places,
           UNCHANGED <<de, at, new>>
    PROVE  Avoids'
<1>1. PICK p : /\ Path(p, fats[0], Ent(de).cn) /\ at \in 1 .. Len(p)
               /\ \A k \in 1 .. Len(p) : p[k] # new
  BY DEF Avoids
<1>2. PICK n \in Copies : w = Write("fat", <<n, new>>, Bad)
  BY DEF AllocLog
<1>3. root' = root /\ blk' = blk /\ fats' = [fats EXCEPT ![n][new] = Bad]
  BY <1>2 DEF Apply, Write
<1>4. Ent(de)' = Ent(de)
  BY <1>3 DEF Ent, EntOf, Vol
<1>5. \A x \in Clus : x # new => fats'[0][x] = fats[0][x]
  BY <1>3 DEF DevOk, FatsOk
<1>6. p \in Seq(Clus) /\ (p # <<>> => p[1] = Ent(de).cn) /\ \A k \in 1 .. Len(p) - 1 : p[k + 1] = fats[0][p[k]]
  BY <1>1 DEF Path
<1>7. \A k \in 1 .. Len(p) - 1 : p[k + 1] = fats'[0][p[k]]
  <2>1. TAKE k \in 1 .. Len(p) - 1
  <2>2. k \in 1 .. Len(p)
    BY <1>6
  <2>3. p[k] \in Clus
    BY <1>6, <2>2, ElementOfSeq
  <2> QED BY <1>1, <1>5, <1>6, <2>2, <2>3
<1>8. p \in Seq(Clus')
  BY <1>6 DEF Clus
<1>9. Path(p, fats[0], Ent(de).cn)'
  BY <1>4, <1>6, <1>7, <1>8 DEF Path
<1> QED BY <1>1, <1>9 DEF Avoids

ToldSame == pc' \in {"entries", "clean"} => pc = pc'

(* One step of a relocation or of fsck. *)
LEMMA FsckStep == FsckInv /\ VfatNext => FsckInv'
<1> SUFFICES ASSUME FsckInv, VfatNext PROVE FsckInv'
  OBVIOUS
<1>1. DevOk /\ VfInv
  BY DEF FsckInv
<1>2. LogOk(log) /\ LogOk(replace)
  BY <1>1 DEF VfInv
<1> DEFINE Logs == LogOk(log') /\ LogOk(replace')
           Unmoved == UNCHANGED <<de, at, new>>
<1>3. ASSUME SoundVolume, NEW a \in Live, NEW i \in 1 .. NClus, NEW c \in Offered, Begin(a, i, c) PROVE FsckInv'
  <2>1. /\ fats' = fats /\ root' = root /\ blk' = blk /\ replace' = replace
        /\ pc' = "alloc" /\ new' = c /\ de' = a /\ at' = i /\ log' = block_alloc(c)
        /\ is_cluster_avail(c) /\ i <= de_cluster_count(Ent(a))
    BY <1>3 DEF Begin
  <2>2. DevOk'
    BY <1>1, <2>1, SameOk DEF DevSame
  <2>3. LogOk(log') /\ log' \in Seq({Write("fat", <<n, c>>, Bad) : n \in Copies})
    BY <2>1, FatWrites, VfatConsts DEF block_alloc
  <2>4. AllocLog' = {Write("fat", <<n, c>>, Bad) : n \in Copies}
    BY <2>1 DEF AllocLog, Write, Bad, FatMax, Copies
  <2>5. a \in Places /\ i \in Nat
    BY <1>1, LiveAt
  <2>6. Avoids'
    <3>1. PICK p : /\ Path(p, fats[0], Ent(a).cn) /\ i \in 1 .. Len(p)
                   /\ \A k \in 1 .. Len(p) : p[k] # c
      BY <1>1, <1>3, <2>1, BeginAvoids
    <3>2. Ent(de)' = Ent(a)
      BY <2>1 DEF Ent, EntOf, Vol
    <3>3. Path(p, fats[0], Ent(de).cn)'
      BY <2>1, <3>1, <3>2 DEF Path, Clus
    <3> QED BY <2>1, <3>1, <3>3 DEF Avoids
  <2>7. new' \in Offered' /\ de' \in Places' /\ at' \in Nat
    BY <1>3, <2>1, <2>5 DEF Offered, Places, Clus, SlotsOf
  <2>8. VfInv'
    BY <1>2, <2>1, <2>3, <2>4, <2>6, <2>7 DEF VfInv, Moving
  <2> QED BY <2>2, <2>8 DEF FsckInv
<1>4. CASE Commit
  <2>1. /\ log # <<>> /\ Apply(Head(log)) /\ log' = Tail(log)
        /\ UNCHANGED <<pc, de, at, new, replace>>
    BY <1>4 DEF Commit
  <2>2. WriteOk(Head(log)) /\ LogOk(log') /\ LogOk(replace')
    BY <1>2, <2>1, LogHead
  <2>3. DevOk'
    BY <1>1, <2>1, <2>2, ApplyOk
  <2>4. pc \in Moving /\ new \in Offered /\ de \in Places /\ at \in Nat
    BY <1>1, <2>1 DEF VfInv
  <2>5. ASSUME pc = "alloc" PROVE log' \in Seq(AllocLog') /\ Avoids'
    <3>1. log \in Seq(AllocLog) /\ Avoids
      BY <1>1, <2>5 DEF VfInv
    <3>2. Head(log) \in AllocLog /\ Tail(log) \in Seq(AllocLog)
      BY <2>1, <3>1, HeadTailProperties
    <3>3. AllocLog' = AllocLog
      BY <2>1 DEF AllocLog, Write, Bad, FatMax, Copies
    <3>4. Avoids'
      BY <1>1, <2>1, <2>4, <3>1, <3>2, AvoidsStays
    <3> QED BY <2>1, <3>2, <3>3, <3>4
  <2>6. new' \in Offered' /\ de' \in Places' /\ at' \in Nat
    BY <2>1, <2>4 DEF Offered, Places, Clus, SlotsOf
  <2>7. VfInv'
    BY <2>1, <2>2, <2>4, <2>5, <2>6 DEF VfInv, Moving, Idle
  <2> QED BY <2>3, <2>7 DEF FsckInv
<1>5. CASE typeinfo_phys_copy
  <2>1. /\ pc = "alloc" /\ log = <<>> /\ blk' = [blk EXCEPT ![new] = blk[get_nth_cnum(Ent(de), at)]]
        /\ pc' = "copied" /\ UNCHANGED <<fats, root, de, at, new, log, replace>>
    BY <1>5 DEF typeinfo_phys_copy
  <2>2. new \in Offered /\ de \in Places /\ at \in Nat /\ Avoids
    BY <1>1, <2>1 DEF VfInv, Moving
  <2>3. get_nth_cnum(Ent(de), at) \in Clus
    <3>1. PICK p : Path(p, fats[0], Ent(de).cn) /\ at \in 1 .. Len(p)
      BY <2>2 DEF Avoids
    <3>2. Ent(de).cn \in Nums
      BY <1>1, <2>2, EntryAt
    <3>3. Table(fats[0])
      BY <1>1, VfatConsts DEF DevOk, FatsOk, Table
    <3> QED BY <3>1, <3>2, <3>3, NthOnPath DEF get_nth_cnum
  <2>4. FatsOk' /\ RootOk'
    BY <1>1, <2>1 DEF DevOk, FatsOk, RootOk, Nums, Copies, Eof, FatMax, Cells, IsEntry
  <2>5. BlkOk'
    <3>1. PICK o : o = get_nth_cnum(Ent(de), at)
      OBVIOUS
    <3>2. o \in Clus /\ blk' = [blk EXCEPT ![new] = blk[o]]
      BY <2>1, <2>3, <3>1
    <3>3. blk = [c \in Clus |-> [s \in SlotsOf |-> blk[c][s]]] /\ \A c \in Clus, s \in SlotsOf : IsEntry(blk[c][s])
      BY <1>1 DEF DevOk, BlkOk
    <3>4. \A c \in Clus : blk'[c] = IF c = new THEN blk[o] ELSE blk[c]
      BY <3>2, <3>3
    <3>5. blk' = [c \in Clus |-> [s \in SlotsOf |-> blk'[c][s]]]
      BY <3>2, <3>3
    <3>6. \A c \in Clus, s \in SlotsOf : IsEntry(blk'[c][s])
      BY <3>2, <3>3, <3>4
    <3> QED BY <3>5, <3>6 DEF BlkOk, IsEntry, Eof, FatMax, Clus, SlotsOf
  <2>6. new' \in Offered' /\ de' \in Places' /\ at' \in Nat
    BY <2>1, <2>2 DEF Offered, Places, Clus, SlotsOf
  <2>7. VfInv'
    BY <1>2, <2>1, <2>6 DEF VfInv, Moving, Idle
  <2> QED BY <2>4, <2>5, <2>7 DEF FsckInv, DevOk
<1>6. CASE Link
  <2>1. /\ pc = "copied" /\ log' = block_relink(de, at, new) /\ replace' = block_replace(get_nth_cnum(Ent(de), at))
        /\ pc' = "relink" /\ UNCHANGED <<fats, root, blk, de, at, new>>
    BY <1>6 DEF Link
  <2>2. DevOk'
    BY <1>1, <2>1, SameOk DEF DevSame
  <2>3. new \in Offered /\ de \in Places /\ at \in Nat
    BY <1>1, <2>1 DEF VfInv, Moving
  <2>4. LogOk(log') /\ LogOk(replace')
    BY <1>1, <2>1, <2>3, RelinkWrites, NewOffered
  <2>5. new' \in Offered' /\ de' \in Places' /\ at' \in Nat
    BY <2>1, <2>3 DEF Offered, Places, Clus, SlotsOf
  <2>6. VfInv'
    BY <2>1, <2>4, <2>5 DEF VfInv, Moving, Idle
  <2> QED BY <2>2, <2>6 DEF FsckInv
<1>7. CASE LinkAborts \/ Return \/ Kill
  <2>1. fats' = fats /\ root' = root /\ blk' = blk /\ pc' = "idle" /\ log' = <<>> /\ replace' = <<>>
    BY <1>7 DEF LinkAborts, Return, Kill, Rest
  <2>2. DevOk'
    BY <1>1, <2>1, SameOk DEF DevSame
  <2>3. VfInv'
    BY <2>1, LogNone DEF VfInv, Moving, Idle
  <2> QED BY <2>2, <2>3 DEF FsckInv
<1>8. CASE CommitReplace
  <2>1. /\ pc = "relink" /\ log' = replace /\ replace' = <<>> /\ pc' = "replace"
        /\ UNCHANGED <<fats, root, blk, de, at, new>>
    BY <1>8 DEF CommitReplace
  <2>2. DevOk'
    BY <1>1, <2>1, SameOk DEF DevSame
  <2>3. new \in Offered /\ de \in Places /\ at \in Nat
    BY <1>1, <2>1 DEF VfInv, Moving
  <2>4. new' \in Offered' /\ de' \in Places' /\ at' \in Nat
    BY <2>1, <2>3 DEF Offered, Places, Clus, SlotsOf
  <2>5. VfInv'
    BY <1>2, <2>1, <2>4, LogNone DEF VfInv, Moving, Idle
  <2> QED BY <2>2, <2>5 DEF FsckInv
<1>9. CASE FsckBegin \/ FatsDone
  <2>1. /\ DevSame /\ UNCHANGED <<log, replace>> /\ pc' \in {"fats", "entries"} /\ pc \notin Moving
        /\ pc' = "entries" => BadCells = {}
    BY <1>9 DEF FsckBegin, FatsDone, DevSame, Idle, Moving
  <2>2. DevOk'
    BY <1>1, <2>1, SameOk
  <2>3. BadCells' = BadCells
    BY <2>1, BadCellsSame DEF DevSame
  <2>4. log' = <<>>
    BY <1>1, <2>1 DEF VfInv
  <2>5. VfInv'
    BY <1>2, <2>1, <2>3, <2>4 DEF VfInv, Moving, Idle
  <2> QED BY <2>2, <2>5 DEF FsckInv
<1>10. CASE repair_fat16_bad_range
  <2>1. PICK u : u = CHOOSE x \in BadCells : \A y \in BadCells : x[1] < y[1] \/ (x[1] = y[1] /\ x[2] <= y[2])
    OBVIOUS
  <2>2. pc = "fats" /\ Apply(Write("fat", u, Eof)) /\ UNCHANGED <<pc, log, replace>>
    BY <1>10, <2>1 DEF repair_fat16_bad_range
  <2>3. WriteOk(Write("fat", u, Eof))
    BY VfatConsts DEF WriteOk, Write
  <2>4. DevOk'
    BY <1>1, <2>2, <2>3, ApplyOk
  <2>5. log' = <<>>
    BY <1>1, <2>2 DEF VfInv, Moving
  <2>6. VfInv'
    BY <1>2, <2>2, <2>5 DEF VfInv, Moving, Idle
  <2> QED BY <2>4, <2>6 DEF FsckInv
<1>11. CASE repair_trunc_file
  <2>1. PICK a \in TooLong :
            LET sz == get_max_bytes(Ent(a)) IN
            /\ root' = IF a[1] = 0 THEN [root EXCEPT ![a[2]].sz = sz] ELSE root
            /\ blk' = IF a[1] # 0 THEN [blk EXCEPT ![a[1]][a[2]].sz = sz] ELSE blk
    BY <1>11 DEF repair_trunc_file
  <2>2. PICK z : z = get_max_bytes(Ent(a))
    OBVIOUS
  <2>3. z \in Nat
    BY <2>2, CountNat, VfatConsts DEF get_max_bytes
  <2>4. /\ root' = IF a[1] = 0 THEN [root EXCEPT ![a[2]].sz = z] ELSE root
        /\ blk' = IF a[1] # 0 THEN [blk EXCEPT ![a[1]][a[2]].sz = z] ELSE blk
    BY <2>1, <2>2
  <2>5. pc = "entries" /\ UNCHANGED <<fats, pc, log, replace>>
    BY <1>11 DEF repair_trunc_file
  <2>6. ASSUME NEW e, IsEntry(e) PROVE IsEntry([e EXCEPT !.sz = z])
    <3>1. e = [k |-> e.k, nm |-> e.nm, cn |-> e.cn, sz |-> e.sz] /\ e.cn \in 0 .. Eof
      BY <2>6 DEF IsEntry
    <3>2. PICK x : x = [e EXCEPT !.sz = z]
      OBVIOUS
    <3>3. x = [k |-> e.k, nm |-> e.nm, cn |-> e.cn, sz |-> z]
      BY <3>1, <3>2
    <3>4. IsEntry(x)
      BY <2>3, <3>1, <3>3 DEF IsEntry
    <3> QED BY <3>2, <3>4
  <2>7. PICK i, sl : i = a[1] /\ sl = a[2]
    OBVIOUS
  <2>8. RootOk'
    <3>1. root = [s \in 0 .. RootC - 1 |-> root[s]] /\ \A s \in 0 .. RootC - 1 : IsEntry(root[s])
      BY <1>1 DEF DevOk, RootOk
    <3>2. CASE i = 0
      <4>1. root' = [root EXCEPT ![sl] = [root[sl] EXCEPT !.sz = z]]
        BY <2>4, <2>7, <3>2
      <4>2. root' = [s \in 0 .. RootC - 1 |-> root'[s]]
        BY <3>1, <4>1
      <4>3. \A s \in 0 .. RootC - 1 : root'[s] = IF s = sl THEN [root[sl] EXCEPT !.sz = z] ELSE root[s]
        BY <3>1, <4>1
      <4>4. \A s \in 0 .. RootC - 1 : IsEntry(root'[s])
        BY <2>6, <3>1, <4>3
      <4> QED BY <4>2, <4>4 DEF RootOk, IsEntry, Eof, FatMax
    <3>3. CASE i # 0
      <4>1. root' = root
        BY <2>4, <2>7, <3>3
      <4> QED BY <3>1, <4>1 DEF RootOk, IsEntry, Eof, FatMax
    <3> QED BY <3>2, <3>3
  <2>9. BlkOk'
    <3>1. blk = [c \in Clus |-> [s \in SlotsOf |-> blk[c][s]]] /\ \A c \in Clus, s \in SlotsOf : IsEntry(blk[c][s])
      BY <1>1 DEF DevOk, BlkOk
    <3>2. CASE i # 0
      <4>1. blk' = [blk EXCEPT ![i] = [blk[i] EXCEPT ![sl] = [blk[i][sl] EXCEPT !.sz = z]]]
        BY <2>4, <2>7, <3>2
      <4>2. blk' = [c \in Clus |-> [s \in SlotsOf |-> blk'[c][s]]]
        BY <3>1, <4>1
      <4>3. \A c \in Clus, s \in SlotsOf :
              blk'[c][s] = IF c = i /\ s = sl THEN [blk[i][sl] EXCEPT !.sz = z] ELSE blk[c][s]
        BY <3>1, <4>1
      <4>4. \A c \in Clus, s \in SlotsOf : IsEntry(blk'[c][s])
        <5>1. TAKE c \in Clus, s \in SlotsOf
        <5>2. CASE c = i /\ s = sl
          <6>1. IsEntry(blk[i][sl])
            BY <3>1, <5>2
          <6>2. IsEntry([blk[i][sl] EXCEPT !.sz = z])
            BY <2>6, <6>1
          <6> QED BY <4>3, <5>2, <6>2
        <5>3. CASE ~(c = i /\ s = sl)
          BY <3>1, <4>3, <5>3
        <5> QED BY <5>2, <5>3
      <4> QED BY <4>2, <4>4 DEF BlkOk, IsEntry, Eof, FatMax, Clus, SlotsOf
    <3>3. CASE i = 0
      <4>1. blk' = blk
        BY <2>4, <2>7, <3>3
      <4> QED BY <3>1, <4>1 DEF BlkOk, IsEntry, Eof, FatMax, Clus, SlotsOf
    <3> QED BY <3>2, <3>3
  <2>10. FatsOk'
    BY <1>1, <2>5 DEF DevOk, FatsOk, Nums, Copies, Eof, FatMax, Cells
  <2>11. BadCells' = BadCells
    BY <2>5, BadCellsSame
  <2>12. BadCells = {} /\ log = <<>>
    BY <1>1, <2>5 DEF VfInv, Moving
  <2>13. VfInv'
    BY <1>2, <2>5, <2>11, <2>12 DEF VfInv, Moving, Idle
  <2> QED BY <2>8, <2>9, <2>10, <2>13 DEF FsckInv, DevOk
<1>12. CASE EntriesDone
  <2>1. /\ DevSame /\ pc = "entries" /\ TooLong = {} /\ pc' = "clean" /\ log' = <<>> /\ replace' = <<>>
    BY <1>12 DEF EntriesDone, Rest, DevSame
  <2>2. DevOk'
    BY <1>1, <2>1, SameOk
  <2>3. BadCells' = {} /\ TooLong' = {}
    BY <1>1, <2>1, BadCellsSame, TooLongSame DEF VfInv, DevSame
  <2>4. VfInv'
    BY <2>1, <2>3, LogNone DEF VfInv, Moving, Idle
  <2> QED BY <2>2, <2>4 DEF FsckInv
<1> QED BY <1>3, <1>4, <1>5, <1>6, <1>7, <1>8, <1>9, <1>10, <1>11, <1>12 DEF VfatNext

LEMMA FsckStays == FsckInv /\ UNCHANGED vfv => FsckInv'
<1> SUFFICES ASSUME FsckInv, UNCHANGED vfv PROVE FsckInv'
  OBVIOUS
<1>1. /\ DevSame /\ UNCHANGED <<pc, de, at, new, log, replace>>
  BY DEF vfv, DevSame
<1>2. DevOk /\ VfInv
  BY DEF FsckInv
<1>3. DevOk'
  BY <1>1, <1>2, SameOk
<1>4. BadCells' = BadCells /\ TooLong' = TooLong
  BY <1>1, BadCellsSame, TooLongSame DEF DevSame
<1>5. AllocLog' = AllocLog /\ (Avoids <=> Avoids')
  BY <1>1 DEF AllocLog, Write, Bad, FatMax, Copies, Avoids, Path, Ent, EntOf, Vol, DevSame, Clus
<1>6. Offered' = Offered /\ Places' = Places
  BY DEF Offered, Places, Clus, SlotsOf
<1>7. VfInv'
  BY <1>1, <1>2, <1>4, <1>5, <1>6 DEF VfInv, Moving, Idle
<1> QED BY <1>3, <1>7 DEF FsckInv

(* What the invariant says of the end of fsck. *)
LEMMA FsckInvSettles == FsckInv => FsckSettles
<1> SUFFICES ASSUME FsckInv, pc = "clean" PROVE
        /\ \A n \in 0 .. FatCount - 1, c \in Cells : fats[n][c] \in Clus \cup {FAT_ENT_FREE} \cup (FatMax .. Eof)
        /\ (\A c \in Cells : fats[0][c] # FatMax) =>
              \A a \in Live : Ent(a).cn \notin NClus + 2 .. FatMax =>
                  Ent(a).sz <= Bpc * Len(Chain(0, Ent(a).cn))
  BY DEF FsckSettles
<1>1. DevOk /\ BadCells = {} /\ TooLong = {}
  BY DEF FsckInv, VfInv
<1>2. ASSUME NEW n \in 0 .. FatCount - 1, NEW c \in Cells
      PROVE  fats[n][c] \in Clus \cup {FAT_ENT_FREE} \cup (FatMax .. Eof)
  <2>1. fats[n][c] \in Nums
    BY <1>1 DEF DevOk, FatsOk, Copies
  <2>2. <<n, c>> \notin BadCells /\ <<n, c>> \in (0 .. FatCount - 1) \X Cells
    BY <1>1
  <2>3. ~cluster_bad_range(fats[n][c])
    BY <2>2 DEF BadCells
  <2> QED BY <2>1, <2>3, VfatConsts DEF cluster_bad_range, Nums, FAT_ENT_FREE, FAT_START_ENT
<1>3. ASSUME \A c \in Cells : fats[0][c] # FatMax, NEW a \in Live, Ent(a).cn \notin NClus + 2 .. FatMax
      PROVE  Ent(a).sz <= Bpc * Len(Chain(0, Ent(a).cn))
  <2>1. Ent(a).cn \in Nums /\ Ent(a).sz \in Nat
    BY <1>1, LiveAt, EntryAt
  <2> DEFINE S == Nums \ (NClus + 2 .. FatMax)
  <2>2. Table(fats[0])
    BY <1>1, VfatConsts DEF DevOk, FatsOk, Table
  <2>3. \A p \in S : is_valid_cnum(p) <=> p \in Clus
    BY VfatConsts DEF is_valid_cnum, FAT_START_ENT, Nums
  <2>4. \A p \in S \cap Clus : fats[0][p] \in S
    <3>1. TAKE p \in S \cap Clus
    <3>2. p \in Cells /\ 0 \in 0 .. FatCount - 1
      BY VfatConsts DEF Copies
    <3>3. fats[0][p] \in Clus \cup {FAT_ENT_FREE} \cup (FatMax .. Eof) /\ fats[0][p] # FatMax
      BY <1>2, <1>3, <3>2
    <3> QED BY <3>3, VfatConsts DEF Nums, FAT_ENT_FREE
  <2>5. Ent(a).cn \in S
    BY <1>3, <2>1
  <2>6. S \in SUBSET Nums
    OBVIOUS
  <2> HIDE DEF S
  <2>7. fat_chain_count(Ent(a).cn) = Len(Chain(0, Ent(a).cn))
    BY <2>2, <2>3, <2>4, <2>5, <2>6, CountIs
  <2>8. ~(get_max_bytes(Ent(a)) < Ent(a).sz)
    BY <1>1 DEF TooLong
  <2>9. fat_chain_count(Ent(a).cn) \in Nat
    BY CountNat
  <2> QED BY <2>1, <2>7, <2>8, <2>9, VfatConsts DEF get_max_bytes
<1> QED BY <1>2, <1>3

(* When fsck ends the numbers are of the volume and no file is longer than *)
(* its chain (cluster_bad_range and its repair, get_max_bytes,             *)
(* repair_trunc_file).                                                     *)
THEOREM FsckRepairs == DescSpec => []FsckSettles
<1>1. DescInit => FsckInv
  BY FsckStarts DEF DescInit
<1>2. FsckInv /\ [DescNext]_descVars => FsckInv'
  <2>1. ASSUME FsckInv, VfatNext PROVE FsckInv'
    BY <2>1, FsckStep
  <2>2. ASSUME FsckInv, UNCHANGED vfv PROVE FsckInv'
    BY <2>2, FsckStays
  <2>3. [DescNext]_descVars => VfatNext \/ UNCHANGED vfv
    BY DEF DescNext, descVars
  <2> QED BY <2>1, <2>2, <2>3
<1> QED BY <1>1, <1>2, FsckInvSettles, PTL DEF DescSpec

-----------------------------------------------------------------------------
(* What a relocation, a kill and a repair leave of the files.              *)
(*                                                                         *)
(* Nearly every step leaves a volume u that is the volume v there was with *)
(* one cluster o renamed to n, or with nothing renamed (n = o).            *)

LEMMA ContentConsts == DeC > 1 /\ 0 \in SlotsOf /\ 1 \in SlotsOf
BY ContentAssumption, VfatConsts DEF SlotsOf

Held(v) == UNION {ToSet(ClustersOf(v, a)) : a \in LiveOf(v)}

Sub(o, n, c) == IF c = o THEN n ELSE c
Put(o, n, a) == <<Sub(o, n, a[1]), a[2]>>

Renames(v, u, o, n) ==
    /\ o \in Clus /\ n \in Clus /\ (n = o \/ n \notin Held(v))
    /\ \A s \in 0 .. RootC - 1 : u.root[s].k = v.root[s].k
    /\ \A a \in LiveOf(v) : EntOf(v, a).k = "dir" =>
          \A c \in ToSet(ClustersOf(v, a)), s \in SlotsOf : u.blk[Sub(o, n, c)][s].k = v.blk[c][s].k
    /\ \A a \in LiveOf(v) :
          ClustersOf(u, Put(o, n, a)) = [k \in DOMAIN ClustersOf(v, a) |-> Sub(o, n, ClustersOf(v, a)[k])]

(* Files keep their names and data, ... *)
KeepsFiles(v, u, o, n) ==
    /\ \A c \in Held(v) : u.fat[Sub(o, n, c)] # FAT_ENT_FREE
    /\ \A a \in LiveOf(v) : EntOf(u, Put(o, n, a)).nm = EntOf(v, a).nm
    /\ \A a \in LiveOf(v) : EntOf(v, a).k = "file" =>
          \A c \in ToSet(ClustersOf(v, a)), s \in SlotsOf : u.blk[Sub(o, n, c)][s] = v.blk[c][s]

(* ... their sizes and the ends of their chains. *)
KeepsEnds(v, u, o, n) ==
    \A a \in LiveOf(v) :
        /\ EntOf(u, Put(o, n, a)).sz = EntOf(v, a).sz
        /\ ClustersOf(v, a) # <<>> => u.fat[Sub(o, n, Last(ClustersOf(v, a)))] = v.fat[Last(ClustersOf(v, a))]

Tops == {0} \X (0 .. RootC - 1)

LEMMA LiveWhere ==
    ASSUME NEW v
    PROVE  /\ LiveOf(v) = NamedOf(v, Tops) \cup NamedOf(v, InsideOf(v, NamedOf(v, Tops)))
                          \cup NamedOf(v, InsideOf(v, NamedOf(v, InsideOf(v, NamedOf(v, Tops)))))
           /\ LiveOf(v) \subseteq Tops \cup InsideOf(v, LiveOf(v))
           /\ \A a \in LiveOf(v) : EntOf(v, a).k \in {"file", "dir"}
<1> DEFINE top == NamedOf(v, Tops)
           mid == NamedOf(v, InsideOf(v, top))
           low == NamedOf(v, InsideOf(v, mid))
<1>1. LiveOf(v) = top \cup mid \cup low
  BY Zenon DEF LiveOf, Tops
<1>2. ASSUME NEW A, NEW B, A \subseteq B PROVE InsideOf(v, A) \subseteq InsideOf(v, B)
  BY <1>2 DEF InsideOf
<1>3. InsideOf(v, top) \subseteq InsideOf(v, LiveOf(v)) /\ InsideOf(v, mid) \subseteq InsideOf(v, LiveOf(v))
  <2> HIDE DEF top, mid, low
  <2> QED BY <1>1, <1>2
<1>4. \A A : NamedOf(v, A) \subseteq A /\ \A a \in NamedOf(v, A) : EntOf(v, a).k \in {"file", "dir"}
  BY DEF NamedOf
<1>5. top \subseteq Tops /\ mid \subseteq InsideOf(v, top) /\ low \subseteq InsideOf(v, mid)
  BY <1>4
<1>6. \A a \in top \cup mid \cup low : EntOf(v, a).k \in {"file", "dir"}
  BY <1>4
<1> HIDE DEF top, mid, low
<1>7. LiveOf(v) \subseteq Tops \cup InsideOf(v, LiveOf(v))
  BY <1>1, <1>3, <1>5
<1>8. \A a \in LiveOf(v) : EntOf(v, a).k \in {"file", "dir"}
  BY <1>1, <1>6
<1> QED BY <1>1, <1>7, <1>8 DEF top, mid, low

(* What a reader finds on u is what it finds on v, put elsewhere. *)
LEMMA LiveRenamed ==
    ASSUME NEW v, NEW u, HasShape(v), HasShape(u), NEW o, NEW n, Renames(v, u, o, n)
    PROVE  /\ LiveOf(u) = {Put(o, n, a) : a \in LiveOf(v)}
           /\ \A a \in LiveOf(v) : EntOf(u, Put(o, n, a)).k = EntOf(v, a).k
           /\ \A a \in LiveOf(v) : ToSet(ClustersOf(u, Put(o, n, a))) = {Sub(o, n, c) : c \in ToSet(ClustersOf(v, a))}
<1>1. o \in Clus /\ n \in Clus /\ o # 0 /\ n # 0 /\ \A c \in Clus : Sub(o, n, c) \in Clus /\ Sub(o, n, c) # 0 /\ c # 0
  BY VfatConsts DEF Renames, Sub
<1> DEFINE Image(A) == {Put(o, n, a) : a \in A}
           All == Tops \cup InsideOf(v, LiveOf(v))
<1>2. LiveOf(v) \subseteq Places /\ \A a \in LiveOf(v) : ClustersOf(v, a) \in Seq(Clus)
  BY LiveIn, ClustersIs
<1>3. ASSUME NEW x \in All PROVE EntOf(u, Put(o, n, x)).k = EntOf(v, x).k
  <2>1. CASE x \in Tops
    <3>1. x[1] = 0 /\ x[2] \in 0 .. RootC - 1 /\ Put(o, n, x) = <<0, x[2]>>
      BY <1>1, <2>1 DEF Tops, Put, Sub
    <3> QED BY <3>1 DEF EntOf, Renames
  <2>2. CASE x \in InsideOf(v, LiveOf(v))
    <3>1. PICK a \in LiveOf(v) : EntOf(v, a).k = "dir" /\ x \in ToSet(ClustersOf(v, a)) \X SlotsOf
      BY <2>2 DEF InsideOf
    <3>2. x[1] \in ToSet(ClustersOf(v, a)) /\ x[2] \in SlotsOf /\ x[1] \in Clus
      BY <1>2, <3>1 DEF ToSet
    <3>3. Put(o, n, x)[1] = Sub(o, n, x[1]) /\ Put(o, n, x)[2] = x[2] /\ Sub(o, n, x[1]) # 0 /\ x[1] # 0
      BY <1>1, <3>2 DEF Put
    <3>4. u.blk[Sub(o, n, x[1])][x[2]].k = v.blk[x[1]][x[2]].k
      BY <3>1, <3>2 DEF Renames
    <3> QED BY <3>3, <3>4 DEF EntOf
  <2> QED BY <1>3, <2>1, <2>2
<1>4. ASSUME NEW A \in SUBSET All PROVE NamedOf(u, Image(A)) = Image(NamedOf(v, A))
  <2>1. \A x \in A : EntOf(u, Put(o, n, x)).k = EntOf(v, x).k
    BY <1>3
  <2> QED BY <2>1 DEF NamedOf
<1>5. ASSUME NEW a \in LiveOf(v)
      PROVE  ToSet(ClustersOf(u, Put(o, n, a))) = {Sub(o, n, c) : c \in ToSet(ClustersOf(v, a))}
  <2>1. PICK p : p = ClustersOf(v, a)
    OBVIOUS
  <2>2. ClustersOf(u, Put(o, n, a)) = [k \in DOMAIN p |-> Sub(o, n, p[k])]
    BY <2>1 DEF Renames
  <2>3. PICK q : q = [k \in DOMAIN p |-> Sub(o, n, p[k])]
    OBVIOUS
  <2>4. DOMAIN q = DOMAIN p /\ \A k \in DOMAIN p : q[k] = Sub(o, n, p[k])
    BY <2>3
  <2>5. {q[k] : k \in DOMAIN q} = {Sub(o, n, p[k]) : k \in DOMAIN p}
    BY <2>4
  <2>6. ToSet(q) = {Sub(o, n, c) : c \in ToSet(p)}
    BY <2>5 DEF ToSet
  <2> QED BY <2>1, <2>2, <2>3, <2>6
<1>6. LiveOf(v) \subseteq All
  BY LiveWhere
<1>7. ASSUME NEW A \in SUBSET LiveOf(v) PROVE InsideOf(u, Image(A)) = Image(InsideOf(v, A))
  <2>1. \A a \in A : EntOf(u, Put(o, n, a)).k = EntOf(v, a).k
    BY <1>3, <1>6
  <2>2. ASSUME NEW x, x \in InsideOf(u, Image(A)) PROVE x \in Image(InsideOf(v, A))
    <3>1. PICK b \in Image(A) : EntOf(u, b).k = "dir" /\ x \in ToSet(ClustersOf(u, b)) \X SlotsOf
      BY <2>2 DEF InsideOf
    <3>2. PICK a \in A : b = Put(o, n, a)
      BY <3>1
    <3>3. EntOf(v, a).k = "dir" /\ x[1] \in {Sub(o, n, c) : c \in ToSet(ClustersOf(v, a))} /\ x[2] \in SlotsOf /\ x = <<x[1], x[2]>>
      BY <1>5, <2>1, <3>1, <3>2
    <3>4. PICK c \in ToSet(ClustersOf(v, a)) : x[1] = Sub(o, n, c)
      BY <3>3
    <3>5. <<c, x[2]>> \in InsideOf(v, A)
      BY <3>3, <3>4 DEF InsideOf
    <3>6. x = Put(o, n, <<c, x[2]>>)
      BY <3>3, <3>4 DEF Put
    <3> QED BY <3>5, <3>6
  <2>3. ASSUME NEW y \in InsideOf(v, A) PROVE Put(o, n, y) \in InsideOf(u, Image(A))
    <3>1. PICK a \in A : EntOf(v, a).k = "dir" /\ y \in ToSet(ClustersOf(v, a)) \X SlotsOf
      BY DEF InsideOf
    <3>2. Put(o, n, a) \in Image(A) /\ EntOf(u, Put(o, n, a)).k = "dir"
      BY <2>1, <3>1
    <3>3. Sub(o, n, y[1]) \in ToSet(ClustersOf(u, Put(o, n, a))) /\ y[2] \in SlotsOf
      BY <1>5, <3>1
    <3>4. Put(o, n, y) \in ToSet(ClustersOf(u, Put(o, n, a))) \X SlotsOf
      BY <3>3 DEF Put
    <3> HIDE DEF Image
    <3> QED BY <3>2, <3>4 DEF InsideOf
  <2> QED BY <2>2, <2>3
<1>8. Image(Tops) = Tops
  <2>1. \A x \in Tops : Put(o, n, x) = x
    BY <1>1 DEF Tops, Put, Sub
  <2> QED BY <2>1
<1> DEFINE top == NamedOf(v, Tops)
           mid == NamedOf(v, InsideOf(v, top))
           low == NamedOf(v, InsideOf(v, mid))
<1>9. LiveOf(v) = top \cup mid \cup low
  BY LiveWhere
<1>10. InsideOf(v, top) \subseteq All /\ InsideOf(v, mid) \subseteq All
  <2>1. top \subseteq LiveOf(v) /\ mid \subseteq LiveOf(v)
    BY <1>9
  <2> HIDE DEF top, mid, low
  <2> QED BY <2>1 DEF InsideOf
<1>11. NamedOf(u, Tops) = Image(top)
  BY <1>4, <1>8
<1>12. NamedOf(u, InsideOf(u, Image(top))) = Image(mid)
  <2>1. top \subseteq LiveOf(v)
    BY <1>9
  <2>2. InsideOf(u, Image(top)) = Image(InsideOf(v, top))
    BY <1>7, <2>1
  <2>3. NamedOf(u, Image(InsideOf(v, top))) = Image(NamedOf(v, InsideOf(v, top)))
    BY <1>4, <1>10
  <2> QED BY <2>2, <2>3
<1>13. NamedOf(u, InsideOf(u, Image(mid))) = Image(low)
  <2>1. mid \subseteq LiveOf(v)
    BY <1>9
  <2>2. InsideOf(u, Image(mid)) = Image(InsideOf(v, mid))
    BY <1>7, <2>1
  <2>3. NamedOf(u, Image(InsideOf(v, mid))) = Image(NamedOf(v, InsideOf(v, mid)))
    BY <1>4, <1>10
  <2> QED BY <2>2, <2>3
<1>14. LiveOf(u) = Image(top) \cup Image(mid) \cup Image(low)
  <2>1. LiveOf(u) = NamedOf(u, Tops) \cup NamedOf(u, InsideOf(u, NamedOf(u, Tops)))
                    \cup NamedOf(u, InsideOf(u, NamedOf(u, InsideOf(u, NamedOf(u, Tops)))))
    BY LiveWhere
  <2> HIDE DEF Image, top, mid, low
  <2> QED BY <1>11, <1>12, <1>13, <2>1
<1>15. Image(top) \cup Image(mid) \cup Image(low) = Image(top \cup mid \cup low)
  <2> HIDE DEF top, mid, low
  <2> QED OBVIOUS
<1>16. LiveOf(u) = Image(LiveOf(v))
  <2> HIDE DEF Image, top, mid, low
  <2> QED BY <1>9, <1>14, <1>15
<1>17. \A a \in LiveOf(v) : EntOf(u, Put(o, n, a)).k = EntOf(v, a).k
  BY <1>3, <1>6
<1> QED BY <1>5, <1>16, <1>17

Safe(v) == Unshared(v) /\ InOrder(v) /\ Dotted(v)

LEMMA HeldRenamed ==
    ASSUME NEW v, NEW u, HasShape(v), HasShape(u), NEW o, NEW n, Renames(v, u, o, n)
    PROVE  Held(u) = {Sub(o, n, c) : c \in Held(v)}
<1>1. LiveOf(u) = {Put(o, n, a) : a \in LiveOf(v)}
      /\ \A a \in LiveOf(v) : ToSet(ClustersOf(u, Put(o, n, a))) = {Sub(o, n, c) : c \in ToSet(ClustersOf(v, a))}
  BY LiveRenamed
<1>2. ASSUME NEW x \in Held(u) PROVE x \in {Sub(o, n, c) : c \in Held(v)}
  <2>1. PICK b \in LiveOf(u) : x \in ToSet(ClustersOf(u, b))
    BY DEF Held
  <2>2. PICK a \in LiveOf(v) : b = Put(o, n, a)
    BY <1>1
  <2>3. PICK c \in ToSet(ClustersOf(v, a)) : x = Sub(o, n, c)
    BY <1>1, <2>1, <2>2
  <2> QED BY <2>3 DEF Held
<1>3. ASSUME NEW c \in Held(v) PROVE Sub(o, n, c) \in Held(u)
  <2>1. PICK a \in LiveOf(v) : c \in ToSet(ClustersOf(v, a))
    BY DEF Held
  <2>2. Put(o, n, a) \in LiveOf(u) /\ Sub(o, n, c) \in ToSet(ClustersOf(u, Put(o, n, a)))
    BY <1>1, <2>1
  <2> QED BY <2>2 DEF Held
<1> QED BY <1>2, <1>3

LEMMA SafeKept ==
    ASSUME NEW v, NEW u, HasShape(v), HasShape(u), NEW o, NEW n, Renames(v, u, o, n), KeepsFiles(v, u, o, n),
           Safe(v)
    PROVE  Safe(u)
<1>1. /\ LiveOf(u) = {Put(o, n, a) : a \in LiveOf(v)}
      /\ \A a \in LiveOf(v) : EntOf(u, Put(o, n, a)).k = EntOf(v, a).k
      /\ \A a \in LiveOf(v) : ToSet(ClustersOf(u, Put(o, n, a))) = {Sub(o, n, c) : c \in ToSet(ClustersOf(v, a))}
  BY LiveRenamed
<1>2. \A c, d \in Held(v) : Sub(o, n, c) = Sub(o, n, d) => c = d
  BY DEF Renames, Sub
<1>3. \A a \in LiveOf(v) : ToSet(ClustersOf(v, a)) \subseteq Held(v)
  BY DEF Held
<1>4. \A a \in LiveOf(v) : ClustersOf(v, a) \in Seq(Clus)
  BY LiveIn, ClustersIs
<1>5. \A a \in LiveOf(v) :
        ClustersOf(u, Put(o, n, a)) = [k \in DOMAIN ClustersOf(v, a) |-> Sub(o, n, ClustersOf(v, a)[k])]
  BY DEF Renames
<1>6. \A a \in LiveOf(v) : \A k \in DOMAIN ClustersOf(v, a) : ClustersOf(v, a)[k] \in ToSet(ClustersOf(v, a))
  BY DEF ToSet
<1>7. Unshared(u)
  <2>1. ASSUME NEW a \in LiveOf(v), NEW x \in ToSet(ClustersOf(u, Put(o, n, a))) PROVE u.fat[x] # FAT_ENT_FREE
    <3>1. PICK c \in ToSet(ClustersOf(v, a)) : x = Sub(o, n, c)
      BY <1>1
    <3>2. c \in Held(v)
      BY <1>3
    <3> QED BY <3>1, <3>2 DEF KeepsFiles
  <2>2. ASSUME NEW a \in LiveOf(v), NEW b \in LiveOf(v), Put(o, n, a) # Put(o, n, b)
        PROVE  ToSet(ClustersOf(u, Put(o, n, a))) \cap ToSet(ClustersOf(u, Put(o, n, b))) = {}
    <3>1. a # b
      BY <2>2
    <3>2. ToSet(ClustersOf(v, a)) \cap ToSet(ClustersOf(v, b)) = {}
      BY <3>1 DEF Safe, Unshared
    <3> QED BY <1>1, <1>2, <1>3, <3>2
  <2> QED BY <1>1, <2>1, <2>2 DEF Unshared
<1>8. InOrder(u)
  <2>1. ASSUME NEW a \in LiveOf(v), EntOf(u, Put(o, n, a)).k = "file",
               NEW i \in DOMAIN ClustersOf(u, Put(o, n, a)), NEW s \in SlotsOf
        PROVE  u.blk[ClustersOf(u, Put(o, n, a))[i]][s] = Data(EntOf(u, Put(o, n, a)).nm, i)
    <3>1. EntOf(v, a).k = "file" /\ i \in DOMAIN ClustersOf(v, a)
      BY <1>1, <1>5, <2>1
    <3>2. ClustersOf(u, Put(o, n, a))[i] = Sub(o, n, ClustersOf(v, a)[i])
      BY <1>5, <3>1
    <3>3. v.blk[ClustersOf(v, a)[i]][s] = Data(EntOf(v, a).nm, i)
      BY <3>1 DEF Safe, InOrder
    <3> QED BY <1>6, <3>1, <3>2, <3>3 DEF KeepsFiles
  <2> QED BY <1>1, <2>1 DEF InOrder
<1>9. Dotted(u)
  <2>1. ASSUME NEW a \in LiveOf(v), EntOf(u, Put(o, n, a)).k = "dir", ClustersOf(u, Put(o, n, a)) # <<>>
        PROVE  /\ u.blk[ClustersOf(u, Put(o, n, a))[1]][0].k = "dot"
               /\ u.blk[ClustersOf(u, Put(o, n, a))[1]][1].k = "dotdot"
    <3>1. EntOf(v, a).k = "dir"
      BY <1>1, <2>1
    <3>2. PICK p : p = ClustersOf(v, a)
      OBVIOUS
    <3>3. p \in Seq(Clus) /\ ClustersOf(u, Put(o, n, a)) = [k \in DOMAIN p |-> Sub(o, n, p[k])]
      BY <1>4, <1>5, <3>2
    <3>4. p # <<>>
      BY <2>1, <3>3
    <3>5. 1 \in DOMAIN p /\ ClustersOf(u, Put(o, n, a))[1] = Sub(o, n, p[1])
      BY <3>3, <3>4
    <3>6. v.blk[p[1]][0].k = "dot" /\ v.blk[p[1]][1].k = "dotdot"
      BY <3>1, <3>2, <3>4 DEF Safe, Dotted
    <3>7. p[1] \in ToSet(ClustersOf(v, a))
      BY <1>6, <3>2, <3>5
    <3> QED BY <3>1, <3>5, <3>6, <3>7, ContentConsts DEF Renames
  <2> QED BY <1>1, <2>1 DEF Dotted
<1> QED BY <1>7, <1>8, <1>9 DEF Safe

LEMMA WholeKept ==
    ASSUME NEW v, NEW u, HasShape(v), HasShape(u), NEW o, NEW n, Renames(v, u, o, n), KeepsFiles(v, u, o, n),
           KeepsEnds(v, u, o, n)
    PROVE  /\ SoundOf(v) => SoundOf(u)
           /\ Fits(v) => Fits(u)
           /\ NamesOf(u) = NamesOf(v)
<1>1. /\ LiveOf(u) = {Put(o, n, a) : a \in LiveOf(v)}
      /\ \A a \in LiveOf(v) : EntOf(u, Put(o, n, a)).k = EntOf(v, a).k
  BY LiveRenamed
<1>2. ASSUME NEW a \in LiveOf(v)
      PROVE  /\ Len(ClustersOf(u, Put(o, n, a))) = Len(ClustersOf(v, a))
             /\ ClustersOf(v, a) # <<>> =>
                   /\ ClustersOf(u, Put(o, n, a)) # <<>>
                   /\ Last(ClustersOf(u, Put(o, n, a))) = Sub(o, n, Last(ClustersOf(v, a)))
  <2>1. PICK p : p = ClustersOf(v, a)
    OBVIOUS
  <2>2. p \in Seq(Clus)
    BY <2>1, LiveIn, ClustersIs
  <2>3. PICK q : q = ClustersOf(u, Put(o, n, a))
    OBVIOUS
  <2>4. q = [k \in DOMAIN p |-> Sub(o, n, p[k])]
    BY <2>1, <2>3 DEF Renames
  <2>5. DOMAIN p = 1 .. Len(p) /\ Len(p) \in Nat
    BY <2>2
  <2>6. Len(q) = Len(p)
    BY <2>4, <2>5
  <2>7. p # <<>> => Len(p) \in DOMAIN p
    BY <2>2, <2>5
  <2>8. p # <<>> => q[Len(q)] = Sub(o, n, p[Len(p)])
    BY <2>4, <2>6, <2>7
  <2>9. p # <<>> => q # <<>>
    BY <2>4, <2>5, <2>6, <2>7
  <2> QED BY <2>1, <2>3, <2>6, <2>8, <2>9 DEF Last
<1>3. \A a \in LiveOf(v) : EntOf(u, Put(o, n, a)).sz = EntOf(v, a).sz /\ EntOf(u, Put(o, n, a)).nm = EntOf(v, a).nm
  BY DEF KeepsEnds, KeepsFiles
<1>4. SoundOf(v) => SoundOf(u)
  <2>1. SUFFICES ASSUME SoundOf(v), NEW a \in LiveOf(v)
                 PROVE  LET ch == ClustersOf(u, Put(o, n, a)) IN
                        /\ ch # <<>> /\ u.fat[Last(ch)] = Eof
                        /\ EntOf(u, Put(o, n, a)).k = "file" => Len(ch) = file_cluster_count(EntOf(u, Put(o, n, a)))
    BY <1>1 DEF SoundOf
  <2>2. /\ ClustersOf(v, a) # <<>> /\ v.fat[Last(ClustersOf(v, a))] = Eof
        /\ EntOf(v, a).k = "file" => Len(ClustersOf(v, a)) = file_cluster_count(EntOf(v, a))
    BY <2>1 DEF SoundOf
  <2>3. file_cluster_count(EntOf(u, Put(o, n, a))) = file_cluster_count(EntOf(v, a))
    BY <1>3 DEF file_cluster_count
  <2>4. u.fat[Sub(o, n, Last(ClustersOf(v, a)))] = Eof
    BY <2>2 DEF KeepsEnds
  <2> QED BY <1>1, <1>2, <2>2, <2>3, <2>4
<1>5. Fits(v) => Fits(u)
  BY <1>1, <1>2, <1>3 DEF Fits
<1>6. NamesOf(u) = NamesOf(v)
  BY <1>1, <1>3 DEF NamesOf
<1> QED BY <1>4, <1>5, <1>6

(* Where nothing is renamed. *)
LEMMA PutSame ==
    ASSUME NEW o, NEW a \in Places
    PROVE  Put(o, o, a) = a /\ \A c : Sub(o, o, c) = c
BY DEF Put, Sub, Places

(* u differs from v only outside what its files and directories hold. *)
Beside(v, u) ==
    /\ \A a \in LiveOf(v) : EntOf(u, a) = EntOf(v, a)
    /\ \A c \in Held(v) : u.fat[c] = v.fat[c]
    /\ \A s \in 0 .. RootC - 1 : u.root[s].k = v.root[s].k
    /\ \A a \in LiveOf(v) : EntOf(v, a).k = "dir" =>
          \A c \in ToSet(ClustersOf(v, a)), s \in SlotsOf : u.blk[c][s].k = v.blk[c][s].k
    /\ \A a \in LiveOf(v) : EntOf(v, a).k = "file" =>
          \A c \in ToSet(ClustersOf(v, a)), s \in SlotsOf : u.blk[c][s] = v.blk[c][s]

LEMMA ChainBeside ==
    ASSUME NEW t, NEW r, Table(t), Table(r), NEW c \in Nums,
           \A x \in ToSet(ChainOf(t, c)) : r[x] = t[x]
    PROVE  ChainOf(r, c) = ChainOf(t, c)
<1>1. PICK p : p = ChainOf(t, c)
  OBVIOUS
<1>2. IsChain(p, t, c) /\ p \in Seq(Clus) /\ Len(p) \in Nat
  BY <1>1, ChainIs DEF IsChain, Path
<1>3. \A k \in 1 .. Len(p) : r[p[k]] = t[p[k]]
  BY <1>1, <1>2 DEF ToSet
<1>4. IsChain(p, r, c)
  BY <1>2, <1>3 DEF IsChain, Path
<1>5. IsChain(ChainOf(r, c), r, c)
  BY ChainIs
<1> QED BY <1>1, <1>4, <1>5, ChainUnique

LEMMA BesideSame ==
    ASSUME NEW v, NEW u, HasShape(v), HasShape(u), Beside(v, u)
    PROVE  /\ LiveOf(u) = LiveOf(v) /\ Held(u) = Held(v)
           /\ \A a \in LiveOf(v) : ClustersOf(u, a) = ClustersOf(v, a) /\ EntOf(u, a) = EntOf(v, a)
           /\ Safe(v) => Safe(u)
           /\ SoundOf(v) => SoundOf(u)
           /\ Fits(v) => Fits(u)
           /\ NamesOf(u) = NamesOf(v)
<1>1. PICK o \in Clus : TRUE
  <2>1. 2 \in Clus
    BY VfatConsts
  <2> QED BY <2>1
<1>2. LiveOf(v) \subseteq Places
  BY LiveIn
<1>3. \A a \in LiveOf(v) : Put(o, o, a) = a
  BY <1>2, PutSame
<1>4. \A c : Sub(o, o, c) = c
  BY DEF Sub
<1>5. ASSUME NEW a \in LiveOf(v) PROVE ClustersOf(u, a) = ClustersOf(v, a)
  <2>1. EntOf(v, a).cn \in Nums /\ EntOf(u, a) = EntOf(v, a)
    BY <1>2, EntryOf DEF Beside
  <2>2. \A x \in ToSet(ChainOf(v.fat, EntOf(v, a).cn)) : u.fat[x] = v.fat[x]
    BY DEF Beside, Held, ClustersOf
  <2>3. Table(v.fat) /\ Table(u.fat)
    BY DEF HasShape, Table, Nums
  <2> QED BY <2>1, <2>2, <2>3, ChainBeside DEF ClustersOf
<1>6. \A a \in LiveOf(v) : ClustersOf(v, a) = [k \in DOMAIN ClustersOf(v, a) |-> ClustersOf(v, a)[k]]
  <2>1. \A a \in LiveOf(v) : ClustersOf(v, a) \in Seq(Clus)
    BY <1>2, ClustersIs
  <2> QED BY <2>1
<1>7. Renames(v, u, o, o)
  BY <1>3, <1>4, <1>5, <1>6 DEF Renames, Beside
<1>8. Safe(v) => KeepsFiles(v, u, o, o)
  <2>1. SUFFICES ASSUME Unshared(v) PROVE KeepsFiles(v, u, o, o)
    BY DEF Safe
  <2>2. \A c \in Held(v) : v.fat[c] # FAT_ENT_FREE
    BY <2>1 DEF Held, Unshared
  <2>3. \A a \in LiveOf(v) : EntOf(u, a).nm = EntOf(v, a).nm
    BY DEF Beside
  <2> QED BY <1>3, <1>4, <2>2, <2>3 DEF KeepsFiles, Beside
<1>9. KeepsEnds(v, u, o, o)
  <2>1. ASSUME NEW a \in LiveOf(v), ClustersOf(v, a) # <<>> PROVE Last(ClustersOf(v, a)) \in Held(v)
    <3>1. ClustersOf(v, a) \in Seq(Clus)
      BY <1>2, ClustersIs
    <3>2. Len(ClustersOf(v, a)) \in DOMAIN ClustersOf(v, a)
      BY <2>1, <3>1
    <3> QED BY <3>2 DEF Last, Held, ToSet
  <2> QED BY <1>3, <1>4, <2>1 DEF KeepsEnds, Beside
<1>10. LiveOf(u) = LiveOf(v)
  <2>1. LiveOf(u) = {Put(o, o, a) : a \in LiveOf(v)}
    BY <1>7, LiveRenamed
  <2> QED BY <1>3, <2>1
<1>11. Held(u) = Held(v)
  <2>1. Held(u) = {Sub(o, o, c) : c \in Held(v)}
    BY <1>7, HeldRenamed
  <2> QED BY <1>4, <2>1
<1>12. Safe(v) => Safe(u)
  BY <1>7, <1>8, SafeKept
<1>13. (SoundOf(v) => SoundOf(u)) /\ (Fits(v) => Fits(u)) /\ NamesOf(u) = NamesOf(v)
  <2>2. \A a \in LiveOf(v) : EntOf(u, a).nm = EntOf(v, a).nm /\ EntOf(u, a).sz = EntOf(v, a).sz /\ EntOf(u, a).k = EntOf(v, a).k
    BY DEF Beside
  <2>3. \A a \in LiveOf(v) : ClustersOf(v, a) # <<>> => u.fat[Last(ClustersOf(v, a))] = v.fat[Last(ClustersOf(v, a))]
    BY <1>3, <1>4, <1>9 DEF KeepsEnds
  <2>4. NamesOf(u) = NamesOf(v)
    BY <1>10, <2>2 DEF NamesOf
  <2>5. Fits(v) => Fits(u)
    BY <1>5, <1>10, <2>2 DEF Fits
  <2>6. SoundOf(v) => SoundOf(u)
    <3>1. \A a \in LiveOf(v) : file_cluster_count(EntOf(u, a)) = file_cluster_count(EntOf(v, a))
      BY <2>2 DEF file_cluster_count
    <3> QED BY <1>5, <1>10, <2>2, <2>3, <3>1 DEF SoundOf
  <2> QED BY <2>4, <2>5, <2>6
<1> QED BY <1>5, <1>10, <1>11, <1>12, <1>13 DEF Beside

(* A chain that ends comes to no cluster twice. *)
LEMMA NoRepeat ==
    ASSUME NEW t, NEW c, NEW p, Path(p, t, c), p # <<>>, t[Last(p)] = Eof,
           NEW i \in 1 .. Len(p), NEW k \in 1 .. Len(p), p[i] = p[k]
    PROVE  i = k
<1>1. p \in Seq(Clus) /\ Len(p) \in Nat /\ \A l \in 1 .. Len(p) - 1 : p[l + 1] = t[p[l]]
  BY DEF Path
<1>2. ASSUME NEW x \in 1 .. Len(p), NEW y \in 1 .. Len(p), x < y, p[x] = p[y] PROVE FALSE
  <2> DEFINE n == Len(p)
             m == (n - y) + 1
             f == [l \in 1 .. m |-> p[x + l - 1]]
             h == [l \in 1 .. m |-> p[y + l - 1]]
  <2>1. n \in Nat /\ m \in Nat /\ m > 0
    BY <1>1, <1>2
  <2>2. \A l \in 1 .. m - 1 : x + l - 1 \in 1 .. n - 1 /\ y + l - 1 \in 1 .. n - 1
        /\ x + (l + 1) - 1 = (x + l - 1) + 1 /\ y + (l + 1) - 1 = (y + l - 1) + 1 /\ l + 1 \in 1 .. m /\ l \in 1 .. m
    BY <1>2, <2>1
  <2>3. \A l \in 1 .. m - 1 : f[l + 1] = t[f[l]] /\ h[l + 1] = t[h[l]]
    BY <1>1, <2>2
  <2>4. f[1] = p[x] /\ h[1] = p[y]
    BY <2>1
  <2>5. f[m] = p[x + m - 1] /\ h[m] = p[n] /\ y + m - 1 = n
    BY <1>2, <2>1
  <2> HIDE DEF f, h
  <2>6. Follows(f, t, m) /\ Follows(h, t, m)
    BY <2>3 DEF Follows
  <2>7. f[1] = h[1]
    BY <1>2, <2>4
  <2>8. \A l \in 1 .. m : f[l] = h[l]
    BY <2>1, <2>6, <2>7, WalksAgree
  <2>9. p[x + m - 1] = p[n]
    BY <2>1, <2>5, <2>8
  <2>10. x + m - 1 \in 1 .. n - 1 /\ (x + m - 1) + 1 \in 1 .. n
    BY <1>2, <2>1
  <2>11. p[(x + m - 1) + 1] = Eof
    BY <1>1, <2>9, <2>10 DEF Last
  <2>12. p[(x + m - 1) + 1] \in Clus
    BY <1>1, <2>10, ElementOfSeq
  <2> QED BY <2>11, <2>12, VfatConsts
<1>3. ~(i < k) /\ ~(k < i)
  BY <1>2
<1> QED BY <1>1, <1>3

(* Where an entry may be: in the root directory or in a cluster of another *)
(* directory.                                                              *)
LEMMA LivePlace ==
    ASSUME NEW v, HasShape(v), NEW a \in LiveOf(v), a \notin Tops
    PROVE  \E d \in LiveOf(v) : EntOf(v, d).k = "dir" /\ a[1] \in ToSet(ClustersOf(v, d)) /\ a[1] \in Clus /\ a[2] \in SlotsOf
<1>1. a \in InsideOf(v, LiveOf(v))
  BY LiveWhere
<1>2. PICK d \in LiveOf(v) : EntOf(v, d).k = "dir" /\ a \in ToSet(ClustersOf(v, d)) \X SlotsOf
  BY <1>1 DEF InsideOf
<1>3. ClustersOf(v, d) \in Seq(Clus)
  BY LiveIn, ClustersIs
<1>4. ToSet(ClustersOf(v, d)) \subseteq Clus
  BY <1>3 DEF ToSet
<1> QED BY <1>2, <1>4

LEMMA HeldWhere ==
    ASSUME NEW v, HasShape(v)
    PROVE  /\ Held(v) \subseteq Clus
           /\ \A a \in LiveOf(v) : a \in Places /\ (a[1] = 0 \/ a[1] \in Held(v))
           /\ \A a \in LiveOf(v) : ToSet(ClustersOf(v, a)) \subseteq Held(v)
<1>1. ASSUME NEW a \in LiveOf(v) PROVE ToSet(ClustersOf(v, a)) \subseteq Clus
  <2>1. ClustersOf(v, a) \in Seq(Clus)
    BY LiveIn, ClustersIs
  <2> QED BY <2>1 DEF ToSet
<1>2. ASSUME NEW a \in LiveOf(v) PROVE a[1] = 0 \/ a[1] \in Held(v)
  <2>1. CASE a \in Tops
    BY <2>1 DEF Tops
  <2>2. CASE a \notin Tops
    BY <2>2, LivePlace DEF Held
  <2> QED BY <2>1, <2>2
<1> QED BY <1>1, <1>2, LiveIn DEF Held

LEMMA OwnAway ==
    ASSUME NEW v, HasShape(v), Unshared(v), NEW a \in LiveOf(v)
    PROVE  a[1] \notin ToSet(ClustersOf(v, a))
<1> SUFFICES ASSUME a[1] \in ToSet(ClustersOf(v, a)) PROVE FALSE
  OBVIOUS
<1> DEFINE top == NamedOf(v, Tops)
           mid == NamedOf(v, InsideOf(v, top))
           low == NamedOf(v, InsideOf(v, mid))
<1>1. LiveOf(v) = top \cup mid \cup low
  BY LiveWhere
<1>2. a[1] \in Clus
  BY HeldWhere
<1>3. ASSUME NEW A, NEW b, b \in NamedOf(v, InsideOf(v, A)), A \subseteq LiveOf(v), b \in LiveOf(v),
             b[1] \in ToSet(ClustersOf(v, b))
      PROVE  b \in A
  <2>1. PICK d \in A : b \in ToSet(ClustersOf(v, d)) \X SlotsOf
    BY <1>3 DEF NamedOf, InsideOf
  <2>2. b[1] \in ToSet(ClustersOf(v, d))
    BY <2>1
  <2>3. ToSet(ClustersOf(v, d)) \cap ToSet(ClustersOf(v, b)) # {}
    BY <1>3, <2>2
  <2>4. d = b
    BY <1>3, <2>1, <2>3 DEF Unshared
  <2> QED BY <2>1, <2>4
<1>4. a \notin top
  <2>1. \A x \in top : x[1] = 0
    BY DEF NamedOf, Tops
  <2> HIDE DEF top
  <2> QED BY <1>2, <2>1, VfatConsts
<1>5. a \notin mid
  <2>1. top \subseteq LiveOf(v)
    BY <1>1
  <2> HIDE DEF top
  <2> QED BY <1>3, <1>4, <2>1
<1>6. a \notin low
  <2>1. mid \subseteq LiveOf(v)
    BY <1>1
  <2> HIDE DEF mid
  <2> QED BY <1>3, <1>5, <2>1
<1> HIDE DEF top, mid, low
<1> QED BY <1>1, <1>4, <1>5, <1>6

(* The pointer to the i-th cluster of a, o, becomes one to n, and n goes   *)
(* on where o did.                                                         *)
Moved(v, u, a, i, o, n) ==
    /\ \A x \in Places : EntOf(u, x) = IF i = 1 /\ x = a THEN [EntOf(v, a) EXCEPT !.cn = n] ELSE EntOf(v, x)
    /\ \A c \in Clus : u.fat[c] = IF c = n THEN v.fat[o]
                                  ELSE IF i > 1 /\ c = ClustersOf(v, a)[i - 1] THEN n ELSE v.fat[c]

LEMMA MovedKeeps ==
    ASSUME NEW v, NEW u, HasShape(v), HasShape(u), Safe(v), SoundOf(v),
           NEW a \in LiveOf(v), NEW i \in 1 .. Len(ClustersOf(v, a)), NEW o, o = ClustersOf(v, a)[i],
           NEW n \in Clus, n \notin Held(v), \A s \in SlotsOf : v.blk[n][s] = v.blk[o][s],
           Moved(v, u, a, i, o, n)
    PROVE  /\ Renames(v, u, o, n) /\ KeepsFiles(v, u, o, n) /\ KeepsEnds(v, u, o, n)
           /\ Put(o, n, a) = a /\ ClustersOf(u, a)[i] = n /\ o \in Held(v) /\ o # n
           /\ Len(ClustersOf(u, a)) = Len(ClustersOf(v, a))
<1>1. PICK p : p = ClustersOf(v, a)
  OBVIOUS
<1>2. /\ p \in Seq(Clus) /\ IsChain(p, v.fat, EntOf(v, a).cn) /\ Len(p) \in Nat /\ p # <<>>
      /\ Table(v.fat) /\ Table(u.fat) /\ a \in Places
  <2>1. a \in Places
    BY HeldWhere
  <2>2. p \in Seq(Clus) /\ IsChain(p, v.fat, EntOf(v, a).cn) /\ Table(v.fat) /\ Table(u.fat)
    BY <1>1, <2>1, ClustersIs
  <2>3. Len(p) \in Nat /\ p # <<>>
    BY <1>1, <2>2
  <2> QED BY <2>1, <2>2, <2>3
<1>3. i \in 1 .. Len(p) /\ o = p[i] /\ i \in Nat /\ \A k \in 1 .. Len(p) : p[k] \in Clus /\ p[k] \in Held(v)
  <2>1. \A k \in 1 .. Len(p) : p[k] \in ToSet(p)
    BY <1>2 DEF ToSet
  <2> QED BY <1>1, <1>2, <2>1, HeldWhere, ElementOfSeq
<1>4. o \in Held(v) /\ o \in Clus /\ o # n
  BY <1>3
<1>5. a[1] # o /\ a[1] # n
  <2>1. a[1] \notin ToSet(p)
    BY <1>1, OwnAway DEF Safe
  <2>2. o \in ToSet(p)
    BY <1>2, <1>3 DEF ToSet
  <2> QED BY <2>1, <2>2, HeldWhere, VfatConsts
<1>6. Put(o, n, a) = a
  BY <1>2, <1>5 DEF Put, Sub, Places
<1>7. v.fat[p[Len(p)]] = Eof
  BY <1>1 DEF Safe, SoundOf, Last
<1>8. \A k, l \in 1 .. Len(p) : p[k] = p[l] => k = l
  <2>1. Path(p, v.fat, EntOf(v, a).cn) /\ v.fat[Last(p)] = Eof
    BY <1>2, <1>7 DEF IsChain, Last
  <2> QED BY <1>2, <2>1, NoRepeat
(* What is where on u. *)
<1>9. ASSUME NEW b \in LiveOf(v)
      PROVE  EntOf(u, Put(o, n, b)) = IF i = 1 /\ b = a THEN [EntOf(v, a) EXCEPT !.cn = n] ELSE EntOf(v, b)
  <2>1. b \in Places /\ b[1] # n
    BY HeldWhere, VfatConsts
  <2>2. CASE b[1] = o
    <3>1. b[2] \in SlotsOf /\ b = <<o, b[2]>> /\ Put(o, n, b) = <<n, b[2]>> /\ o # 0 /\ n # 0
      BY <1>4, <2>1, <2>2, VfatConsts DEF Places, Put, Sub
    <3>2. Put(o, n, b) \in Places /\ Put(o, n, b) # a /\ b # a
      BY <1>5, <2>2, <3>1 DEF Places
    <3>3. EntOf(u, Put(o, n, b)) = EntOf(v, Put(o, n, b))
      BY <3>2 DEF Moved
    <3>4. EntOf(v, Put(o, n, b)) = v.blk[n][b[2]] /\ EntOf(v, b) = v.blk[o][b[2]]
      BY <2>2, <3>1 DEF EntOf
    <3> QED BY <3>1, <3>2, <3>3, <3>4
  <2>3. CASE b[1] # o
    <3>1. Put(o, n, b) = b
      BY <2>1, <2>3 DEF Put, Sub, Places
    <3> QED BY <2>1, <3>1 DEF Moved
  <2> QED BY <2>2, <2>3
<1>10. ASSUME NEW b \in LiveOf(v)
       PROVE  /\ EntOf(u, Put(o, n, b)).k = EntOf(v, b).k /\ EntOf(u, Put(o, n, b)).nm = EntOf(v, b).nm
              /\ EntOf(u, Put(o, n, b)).sz = EntOf(v, b).sz
              /\ EntOf(u, Put(o, n, b)).cn = IF i = 1 /\ b = a THEN n ELSE EntOf(v, b).cn
  <2>1. EntOf(v, b) = [k |-> EntOf(v, b).k, nm |-> EntOf(v, b).nm, cn |-> EntOf(v, b).cn, sz |-> EntOf(v, b).sz]
    BY HeldWhere, EntryOf DEF IsEntry
  <2> QED BY <1>9, <2>1
(* The chains. *)
<1>11. ASSUME NEW b \in LiveOf(v), b # a, NEW c \in ToSet(ClustersOf(v, b))
       PROVE  c # o /\ c # n /\ (i > 1 => c # p[i - 1]) /\ c \in Clus /\ u.fat[c] = v.fat[c]
  <2>1. c \in Held(v) /\ c \in Clus
    BY <1>11, HeldWhere
  <2>2. c \notin ToSet(p)
    BY <1>1, <1>11 DEF Safe, Unshared
  <2>3. o \in ToSet(p)
    BY <1>2, <1>3 DEF ToSet
  <2>4. i > 1 => p[i - 1] \in ToSet(p)
    <3>1. i > 1 => i - 1 \in 1 .. Len(p)
      BY <1>3
    <3> QED BY <1>2, <3>1 DEF ToSet
  <2>5. c # o /\ c # n /\ (i > 1 => c # p[i - 1])
    BY <2>1, <2>2, <2>3, <2>4
  <2> QED BY <1>1, <2>1, <2>5 DEF Moved
<1>12. ASSUME NEW b \in LiveOf(v), b # a
       PROVE  ClustersOf(u, Put(o, n, b)) = [k \in DOMAIN ClustersOf(v, b) |-> Sub(o, n, ClustersOf(v, b)[k])]
  <2>1. PICK q : q = ClustersOf(v, b)
    OBVIOUS
  <2>2. EntOf(v, b).cn \in Nums /\ q \in Seq(Clus)
    BY <2>1, HeldWhere, EntryOf, ClustersIs
  <2>3. \A x \in ToSet(ChainOf(v.fat, EntOf(v, b).cn)) : u.fat[x] = v.fat[x]
    BY <1>11, <1>12 DEF ClustersOf
  <2>4. ChainOf(u.fat, EntOf(v, b).cn) = ChainOf(v.fat, EntOf(v, b).cn)
    BY <1>2, <2>2, <2>3, ChainBeside
  <2>5. ClustersOf(u, Put(o, n, b)) = q
    BY <1>10, <1>12, <2>1, <2>4 DEF ClustersOf
  <2>6. \A k \in DOMAIN q : Sub(o, n, q[k]) = q[k]
    BY <1>11, <1>12, <2>1 DEF ToSet, Sub
  <2>7. q = [k \in DOMAIN q |-> q[k]]
    BY <2>2
  <2>8. q = [k \in DOMAIN q |-> Sub(o, n, q[k])]
    BY <2>6, <2>7
  <2> QED BY <2>1, <2>5, <2>8
<1>13. PICK q : q = [k \in DOMAIN p |-> Sub(o, n, p[k])]
  OBVIOUS
<1>14. q \in Seq(Clus) /\ Len(q) = Len(p) /\ \A k \in 1 .. Len(p) : q[k] = IF k = i THEN n ELSE p[k]
  <2>1. DOMAIN p = 1 .. Len(p)
    BY <1>2
  <2>2. \A k \in 1 .. Len(p) : q[k] = IF k = i THEN n ELSE p[k]
    BY <1>3, <1>8, <1>13, <2>1 DEF Sub
  <2>3. q \in [1 .. Len(p) -> Clus]
    BY <1>3, <1>13, <2>1, <2>2
  <2> QED BY <1>2, <2>2, <2>3
<1>15. ASSUME NEW k \in 1 .. Len(p)
       PROVE  u.fat[q[k]] = IF k = Len(p) THEN Eof ELSE q[k + 1]
  <2>1. \A l \in 1 .. Len(p) - 1 : p[l + 1] = v.fat[p[l]]
    BY <1>2 DEF IsChain, Path
  <2>2. v.fat[p[k]] = IF k = Len(p) THEN Eof ELSE p[k + 1]
    BY <1>7, <2>1
  <2>3. CASE k = i
    <3>1. u.fat[q[k]] = v.fat[p[k]]
      BY <1>3, <1>14, <2>3 DEF Moved
    <3>2. k # Len(p) => q[k + 1] = p[k + 1]
      BY <1>2, <1>14, <2>3
    <3> QED BY <2>2, <3>1, <3>2
  <2>4. CASE k # i /\ i > 1 /\ k = i - 1
    <3>1. q[k] = p[k] /\ p[k] # n /\ p[k] \in Clus
      BY <1>3, <1>14, <2>4
    <3>2. u.fat[q[k]] = n
      BY <1>1, <2>4, <3>1 DEF Moved
    <3>3. k # Len(p) /\ k + 1 \in 1 .. Len(p) /\ k + 1 = i
      BY <1>3, <2>4
    <3>4. q[k + 1] = n
      BY <1>14, <3>3
    <3> QED BY <3>2, <3>3, <3>4
  <2>5. CASE k # i /\ ~(i > 1 /\ k = i - 1)
    <3>1. q[k] = p[k] /\ p[k] # n /\ p[k] \in Clus
      BY <1>3, <1>14, <2>5
    <3>2. i > 1 => p[k] # p[i - 1]
      <4>1. i > 1 => i - 1 \in 1 .. Len(p)
        BY <1>3
      <4> QED BY <1>8, <2>5, <4>1
    <3>3. u.fat[q[k]] = v.fat[p[k]]
      BY <1>1, <3>1, <3>2 DEF Moved
    <3>4. k # Len(p) => k + 1 # i /\ k + 1 \in 1 .. Len(p)
      BY <1>2, <1>3, <2>5
    <3>5. k # Len(p) => q[k + 1] = p[k + 1]
      BY <1>14, <3>4
    <3> QED BY <2>2, <3>3, <3>5
  <2> QED BY <2>3, <2>4, <2>5
<1>16. EntOf(u, a).cn = q[1] /\ q # <<>>
  <2>1. 1 \in 1 .. Len(p) /\ q # <<>>
    BY <1>2, <1>3, <1>14
  <2>2. p[1] = EntOf(v, a).cn
    BY <1>2 DEF IsChain, Path
  <2>3. EntOf(u, a).cn = IF i = 1 THEN n ELSE EntOf(v, a).cn
    BY <1>6, <1>10
  <2> QED BY <1>14, <2>1, <2>2, <2>3
<1>17. ClustersOf(u, a) = q
  <2>1. Path(q, u.fat, EntOf(u, a).cn)
    <3>1. \A k \in 1 .. Len(q) - 1 : k \in 1 .. Len(p) /\ k # Len(p)
      BY <1>2, <1>14
    <3>2. \A k \in 1 .. Len(q) - 1 : q[k + 1] = u.fat[q[k]]
      BY <1>15, <3>1
    <3> QED BY <1>14, <1>16, <3>2 DEF Path
  <2>2. Len(q) \in 0 .. NClus + 1 /\ q # <<>> /\ q[1] \in Clus
    <3>1. Len(q) \in 0 .. NClus + 1
      BY <1>2, <1>14 DEF IsChain
    <3>2. 1 \in 1 .. Len(q)
      BY <1>3, <1>14
    <3> QED BY <1>14, <1>16, <3>1, <3>2, ElementOfSeq
  <2>3. u.fat[q[Len(q)]] \notin Clus
    <3>1. Len(p) \in 1 .. Len(p)
      BY <1>3
    <3> QED BY <1>14, <1>15, <3>1, VfatConsts
  <2>4. IsChain(q, u.fat, EntOf(u, a).cn)
    BY <1>16, <2>1, <2>2, <2>3 DEF IsChain
  <2>5. IsChain(ClustersOf(u, a), u.fat, EntOf(u, a).cn)
    BY <1>2, ClustersIs
  <2> QED BY <2>4, <2>5, ChainUnique
<1>18. \A b \in LiveOf(v) : ClustersOf(u, Put(o, n, b)) = [k \in DOMAIN ClustersOf(v, b) |-> Sub(o, n, ClustersOf(v, b)[k])]
  BY <1>1, <1>6, <1>12, <1>13, <1>17
<1>19. ASSUME NEW b \in LiveOf(v), NEW c \in ToSet(ClustersOf(v, b)), NEW s \in SlotsOf
       PROVE  /\ u.blk[Sub(o, n, c)][s].k = v.blk[c][s].k
              /\ EntOf(v, b).k = "file" => u.blk[Sub(o, n, c)][s] = v.blk[c][s]
  <2>1. c \in Clus /\ Sub(o, n, c) \in Clus /\ Sub(o, n, c) # 0
    BY <1>19, HeldWhere, VfatConsts DEF Sub
  <2>2. PICK x : x = <<Sub(o, n, c), s>>
    OBVIOUS
  <2>3. x \in Places /\ EntOf(u, x) = u.blk[Sub(o, n, c)][s] /\ EntOf(v, x) = v.blk[Sub(o, n, c)][s]
    BY <2>1, <2>2 DEF Places, EntOf
  <2>4. v.blk[Sub(o, n, c)][s] = v.blk[c][s]
    BY DEF Sub
  <2>5. EntOf(u, x).k = EntOf(v, x).k
    <3>1. EntOf(v, a) = [k |-> EntOf(v, a).k, nm |-> EntOf(v, a).nm, cn |-> EntOf(v, a).cn, sz |-> EntOf(v, a).sz]
      BY <1>2, EntryOf DEF IsEntry
    <3> QED BY <2>3, <3>1 DEF Moved
  <2>6. ASSUME EntOf(v, b).k = "file" PROVE x # a
    <3>1. PICK k \in DOMAIN ClustersOf(v, b) : c = ClustersOf(v, b)[k]
      BY DEF ToSet
    <3>2. v.blk[c][s] = Data(EntOf(v, b).nm, k)
      BY <2>6, <3>1 DEF Safe, InOrder
    <3>3. EntOf(v, x).k = "data"
      BY <2>3, <2>4, <3>2 DEF Data
    <3> QED BY <3>3, LiveWhere
  <2> QED BY <2>3, <2>4, <2>5, <2>6 DEF Moved
<1>20. Renames(v, u, o, n)
  <2>1. ASSUME NEW s \in 0 .. RootC - 1 PROVE u.root[s].k = v.root[s].k
    <3>1. PICK x : x = <<0, s>>
      OBVIOUS
    <3>2. x \in Places /\ EntOf(u, x) = u.root[s] /\ EntOf(v, x) = v.root[s]
      BY <3>1 DEF Places, EntOf
    <3>3. EntOf(v, a) = [k |-> EntOf(v, a).k, nm |-> EntOf(v, a).nm, cn |-> EntOf(v, a).cn, sz |-> EntOf(v, a).sz]
      BY <1>2, EntryOf DEF IsEntry
    <3>4. EntOf(u, x).k = EntOf(v, x).k
      BY <3>2, <3>3 DEF Moved
    <3> QED BY <3>2, <3>4
  <2> QED BY <1>4, <1>18, <1>19, <2>1 DEF Renames
<1>21. KeepsFiles(v, u, o, n)
  <2>1. ASSUME NEW c \in Held(v) PROVE u.fat[Sub(o, n, c)] # FAT_ENT_FREE
    <3>1. \A x \in Held(v) : v.fat[x] # FAT_ENT_FREE /\ x \in Clus /\ x # n
      BY HeldWhere DEF Held, Safe, Unshared
    <3>2. n # FAT_ENT_FREE
      BY VfatConsts DEF FAT_ENT_FREE
    <3>3. CASE c = o
      BY <1>4, <3>1, <3>3 DEF Sub, Moved
    <3>4. CASE c # o
      <4>1. Sub(o, n, c) = c /\ c # n /\ c \in Clus /\ v.fat[c] # FAT_ENT_FREE
        BY <3>1, <3>4 DEF Sub
      <4>2. u.fat[c] \in {n, v.fat[c]}
        BY <4>1 DEF Moved
      <4> QED BY <3>2, <4>1, <4>2
    <3> QED BY <3>3, <3>4
  <2> QED BY <1>10, <1>19, <2>1 DEF KeepsFiles
<1>22. KeepsEnds(v, u, o, n)
  <2>1. ASSUME NEW b \in LiveOf(v), ClustersOf(v, b) # <<>>
        PROVE  u.fat[Sub(o, n, Last(ClustersOf(v, b)))] = v.fat[Last(ClustersOf(v, b))]
    <3>1. CASE b # a
      <4>1. Last(ClustersOf(v, b)) \in ToSet(ClustersOf(v, b))
        <5>1. ClustersOf(v, b) \in Seq(Clus)
          BY HeldWhere, ClustersIs
        <5>2. Len(ClustersOf(v, b)) \in DOMAIN ClustersOf(v, b)
          BY <2>1, <5>1
        <5> QED BY <5>2 DEF Last, ToSet
      <4> QED BY <1>11, <3>1, <4>1 DEF Sub
    <3>2. CASE b = a
      <4>1. Len(p) \in 1 .. Len(p) /\ Len(p) \in DOMAIN p
        BY <1>2, <1>3
      <4>2. Last(ClustersOf(v, b)) = p[Len(p)] /\ Sub(o, n, p[Len(p)]) = q[Len(p)]
        BY <1>1, <1>13, <3>2, <4>1 DEF Last
      <4> QED BY <1>7, <1>15, <4>1, <4>2
    <3> QED BY <3>1, <3>2
  <2> QED BY <1>10, <2>1 DEF KeepsEnds
<1>23. ClustersOf(u, a)[i] = n /\ Len(ClustersOf(u, a)) = Len(ClustersOf(v, a))
  BY <1>1, <1>3, <1>14, <1>17
<1> QED BY <1>4, <1>6, <1>20, <1>21, <1>22, <1>23

(* A number that is no cluster's cuts the chains that come to its cell. *)
CutAt(v, u, n) ==
    /\ u.root = v.root /\ u.blk = v.blk
    /\ n \in Clus /\ u.fat[n] = Bad
    /\ \A c \in Clus : c # n => u.fat[c] = v.fat[c]

LEMMA CutChain ==
    ASSUME NEW v, NEW u, HasShape(v), HasShape(u), NEW n, CutAt(v, u, n), NEW a \in Places
    PROVE  /\ EntOf(u, a) = EntOf(v, a)
           /\ Len(ClustersOf(u, a)) <= Len(ClustersOf(v, a))
           /\ \A k \in 1 .. Len(ClustersOf(u, a)) : ClustersOf(u, a)[k] = ClustersOf(v, a)[k]
           /\ ToSet(ClustersOf(u, a)) \subseteq ToSet(ClustersOf(v, a))
<1>1. EntOf(u, a) = EntOf(v, a)
  BY DEF EntOf, CutAt
<1>2. PICK p : p = ClustersOf(v, a)
  OBVIOUS
<1>3. PICK c : c = EntOf(v, a).cn
  OBVIOUS
<1>4. /\ p \in Seq(Clus) /\ IsChain(p, v.fat, c) /\ Len(p) \in Nat /\ Table(v.fat) /\ Table(u.fat)
      /\ p = ChainOf(v.fat, c) /\ ClustersOf(u, a) = ChainOf(u.fat, c) /\ c \in Nums
  <2>1. p \in Seq(Clus) /\ IsChain(p, v.fat, c) /\ Table(v.fat) /\ Table(u.fat)
    BY <1>2, <1>3, ClustersIs
  <2>2. p = ChainOf(v.fat, c) /\ ClustersOf(u, a) = ChainOf(u.fat, c) /\ c \in Nums
    BY <1>1, <1>2, <1>3, EntryOf DEF ClustersOf
  <2> QED BY <2>1, <2>2
<1>5. CASE n \notin ToSet(p)
  <2>1. \A x \in ToSet(p) : x \in Clus /\ x # n
    BY <1>4, <1>5 DEF ToSet
  <2>2. \A x \in ToSet(p) : u.fat[x] = v.fat[x]
    BY <2>1 DEF CutAt
  <2>3. ClustersOf(u, a) = p
    BY <1>4, <2>2, ChainBeside
  <2> QED BY <1>1, <1>2, <1>4, <2>3
<1>6. CASE n \in ToSet(p)
  <2> DEFINE T == {k \in 1 .. Len(p) : p[k] = n}
  <2>1. T \subseteq Nat /\ T # {}
    BY <1>4, <1>6 DEF ToSet
  <2>2. PICK m \in T : \A k \in T : m <= k
    <3> HIDE DEF T
    <3> QED BY <2>1, Smallest
  <2>3. m \in 1 .. Len(p) /\ p[m] = n /\ m \in Nat /\ \A k \in 1 .. m - 1 : p[k] # n /\ k \in 1 .. Len(p)
    <3>1. m \in 1 .. Len(p) /\ p[m] = n /\ m \in Nat
      BY <1>4, <2>2
    <3>2. \A k \in 1 .. m - 1 : k \in 1 .. Len(p) /\ ~(m <= k)
      BY <1>4, <3>1
    <3> QED BY <2>2, <3>1, <3>2
  <2>4. PICK q : q = [k \in 1 .. m |-> p[k]]
    OBVIOUS
  <2>5. q \in Seq(Clus) /\ Len(q) = m /\ \A k \in 1 .. m : q[k] = p[k]
    <3>1. \A k \in 1 .. m : p[k] \in Clus
      BY <1>4, <2>3, ElementOfSeq
    <3>2. q \in [1 .. m -> Clus]
      BY <2>4, <3>1
    <3> QED BY <2>3, <2>4, <3>2
  <2>6. Path(q, u.fat, c)
    <3>1. \A k \in 1 .. Len(p) - 1 : p[k + 1] = v.fat[p[k]]
      BY <1>4 DEF IsChain, Path
    <3>2. \A k \in 1 .. m - 1 : k \in 1 .. Len(p) - 1 /\ k \in 1 .. m /\ k + 1 \in 1 .. m
      BY <1>4, <2>3
    <3>3. \A k \in 1 .. m - 1 : q[k] # n /\ q[k] \in Clus
      BY <2>3, <2>5, <3>2, ElementOfSeq
    <3>4. \A k \in 1 .. m - 1 : q[k + 1] = u.fat[q[k]]
      <4>1. TAKE k \in 1 .. m - 1
      <4>2. u.fat[q[k]] = v.fat[q[k]]
        BY <3>3 DEF CutAt
      <4>3. q[k] = p[k] /\ q[k + 1] = p[k + 1]
        BY <2>5, <3>2
      <4> QED BY <3>1, <3>2, <4>2, <4>3
    <3>5. q[1] = c
      <4>1. p # <<>> /\ 1 \in 1 .. m
        BY <1>4, <2>3
      <4> QED BY <1>4, <2>5, <4>1 DEF IsChain, Path
    <3>6. \A k \in 1 .. Len(q) - 1 : q[k + 1] = u.fat[q[k]]
      BY <2>5, <3>4
    <3>7. q \in Seq(Clus)
      BY <2>5
    <3> QED BY <3>5, <3>6, <3>7 DEF Path
  <2>7. IsChain(q, u.fat, c)
    <3>1. Len(q) \in 0 .. NClus + 1
      <4>1. Len(p) \in 0 .. NClus + 1 /\ NClus \in Nat
        BY <1>4, VfatConsts DEF IsChain
      <4>2. m \in 0 .. NClus + 1
        BY <2>3, <4>1
      <4> QED BY <2>5, <4>2
    <3>2. q # <<>> /\ c \in Clus
      <4>1. p # <<>>
        BY <1>4, <2>3
      <4>2. c \in Clus
        BY <1>4, <4>1 DEF IsChain
      <4> QED BY <2>3, <2>5, <4>2
    <3>3. u.fat[q[Len(q)]] \notin Clus
      <4>1. q[Len(q)] = n
        BY <2>3, <2>5
      <4> QED BY <4>1, VfatConsts DEF CutAt
    <3> QED BY <2>6, <3>1, <3>2, <3>3 DEF IsChain
  <2>8. ClustersOf(u, a) = q
    BY <1>4, <2>7, ChainIs, ChainUnique
  <2>9. ToSet(q) \subseteq ToSet(p)
    <3>1. \A k \in 1 .. m : k \in 1 .. Len(p)
      BY <1>4, <2>3
    <3>2. \A k \in DOMAIN q : k \in DOMAIN p /\ q[k] = p[k]
      BY <1>4, <2>5, <3>1
    <3> QED BY <3>2 DEF ToSet
  <2> QED BY <1>1, <1>2, <1>4, <2>3, <2>5, <2>8, <2>9
<1> QED BY <1>5, <1>6

LEMMA CutSafe ==
    ASSUME NEW v, NEW u, HasShape(v), HasShape(u), NEW n, CutAt(v, u, n), Safe(v)
    PROVE  Safe(u)
<1>1. ASSUME NEW A \in SUBSET Places, NEW B \in SUBSET Places, A \subseteq B
      PROVE  NamedOf(u, InsideOf(u, A)) \subseteq NamedOf(v, InsideOf(v, B)) /\ NamedOf(v, InsideOf(v, B)) \subseteq Places
  <2>1. \A a \in A : EntOf(u, a) = EntOf(v, a) /\ ToSet(ClustersOf(u, a)) \subseteq ToSet(ClustersOf(v, a))
    BY CutChain
  <2>2. InsideOf(u, A) \subseteq InsideOf(v, B)
    <3>1. SUFFICES ASSUME NEW x \in InsideOf(u, A) PROVE x \in InsideOf(v, B)
      OBVIOUS
    <3>2. PICK a \in A : EntOf(u, a).k = "dir" /\ x \in ToSet(ClustersOf(u, a)) \X SlotsOf
      BY DEF InsideOf
    <3>3. a \in B /\ EntOf(v, a).k = "dir" /\ x \in ToSet(ClustersOf(v, a)) \X SlotsOf
      BY <1>1, <2>1, <3>2
    <3> QED BY <3>3 DEF InsideOf
  <2>3. InsideOf(v, B) \subseteq Places
    BY InsideAt
  <2>4. \A x \in InsideOf(u, A) : EntOf(u, x) = EntOf(v, x)
    BY <2>2, <2>3, CutChain
  <2> QED BY <2>2, <2>3, <2>4 DEF NamedOf
<1>2. LiveOf(u) \subseteq LiveOf(v)
  <2> DEFINE topu == NamedOf(u, Tops)
             topv == NamedOf(v, Tops)
             midu == NamedOf(u, InsideOf(u, topu))
             midv == NamedOf(v, InsideOf(v, topv))
  <2>1. topu \subseteq topv /\ topv \subseteq Places
    <3>1. \A x \in Tops : EntOf(u, x) = EntOf(v, x) /\ x \in Places
      BY CutChain DEF Tops, Places
    <3> QED BY <3>1 DEF NamedOf
  <2>2. midu \subseteq midv /\ midv \subseteq Places
    <3> HIDE DEF topu, topv
    <3> QED BY <1>1, <2>1
  <2>3. NamedOf(u, InsideOf(u, midu)) \subseteq NamedOf(v, InsideOf(v, midv))
    <3> HIDE DEF midu, midv
    <3> QED BY <1>1, <2>2
  <2>4. /\ LiveOf(u) = topu \cup midu \cup NamedOf(u, InsideOf(u, midu))
        /\ LiveOf(v) = topv \cup midv \cup NamedOf(v, InsideOf(v, midv))
    BY LiveWhere
  <2> HIDE DEF topu, topv, midu, midv
  <2> QED BY <2>1, <2>2, <2>3, <2>4
<1>3. \A a \in LiveOf(u) :
        /\ a \in LiveOf(v) /\ a \in Places /\ EntOf(u, a) = EntOf(v, a)
        /\ ToSet(ClustersOf(u, a)) \subseteq ToSet(ClustersOf(v, a))
        /\ ToSet(ClustersOf(v, a)) \subseteq Clus
  <2>1. \A a \in LiveOf(u) : a \in LiveOf(v) /\ a \in Places
    BY <1>2, HeldWhere
  <2> QED BY <2>1, CutChain, HeldWhere
<1>4. ASSUME NEW a \in LiveOf(u)
      PROVE  /\ DOMAIN ClustersOf(u, a) \subseteq DOMAIN ClustersOf(v, a)
             /\ \A k \in DOMAIN ClustersOf(u, a) : ClustersOf(u, a)[k] = ClustersOf(v, a)[k]
             /\ ClustersOf(u, a) # <<>> => ClustersOf(v, a) # <<>> /\ 1 \in DOMAIN ClustersOf(u, a)
  <2>1. PICK p, q : p = ClustersOf(v, a) /\ q = ClustersOf(u, a)
    OBVIOUS
  <2>2. p \in Seq(Clus) /\ q \in Seq(Clus) /\ Len(q) <= Len(p) /\ \A k \in 1 .. Len(q) : q[k] = p[k]
    BY <1>3, <2>1, ClustersIs, CutChain
  <2>3. DOMAIN q = 1 .. Len(q) /\ DOMAIN p = 1 .. Len(p) /\ Len(p) \in Nat /\ Len(q) \in Nat
    BY <2>2
  <2>4. q # <<>> => Len(q) > 0
    BY <2>2
  <2>5. q # <<>> => p # <<>>
    BY <2>2, <2>3, <2>4
  <2> QED BY <2>1, <2>2, <2>3, <2>4, <2>5
<1>5. Unshared(u)
  <2>1. ASSUME NEW a \in LiveOf(u), NEW c \in ToSet(ClustersOf(u, a)) PROVE u.fat[c] # FAT_ENT_FREE
    <3>1. v.fat[c] # FAT_ENT_FREE /\ c \in Clus
      BY <1>3 DEF Safe, Unshared
    <3> QED BY <3>1, VfatConsts DEF CutAt, FAT_ENT_FREE
  <2>2. ASSUME NEW a \in LiveOf(u), NEW b \in LiveOf(u), a # b
        PROVE  ToSet(ClustersOf(u, a)) \cap ToSet(ClustersOf(u, b)) = {}
    <3>1. ToSet(ClustersOf(v, a)) \cap ToSet(ClustersOf(v, b)) = {}
      BY <1>3, <2>2 DEF Safe, Unshared
    <3> QED BY <1>3, <3>1
  <2> QED BY <2>1, <2>2 DEF Unshared
<1>6. InOrder(u)
  <2>1. ASSUME NEW a \in LiveOf(u), EntOf(u, a).k = "file", NEW i \in DOMAIN ClustersOf(u, a), NEW s \in SlotsOf
        PROVE  u.blk[ClustersOf(u, a)[i]][s] = Data(EntOf(u, a).nm, i)
    <3>1. a \in LiveOf(v) /\ EntOf(v, a).k = "file" /\ i \in DOMAIN ClustersOf(v, a)
      BY <1>3, <1>4, <2>1
    <3>2. v.blk[ClustersOf(v, a)[i]][s] = Data(EntOf(v, a).nm, i)
      BY <3>1 DEF Safe, InOrder
    <3> QED BY <1>3, <1>4, <3>2 DEF CutAt
  <2> QED BY <2>1 DEF InOrder
<1>7. Dotted(u)
  <2>1. ASSUME NEW a \in LiveOf(u), EntOf(u, a).k = "dir", ClustersOf(u, a) # <<>>
        PROVE  u.blk[ClustersOf(u, a)[1]][0].k = "dot" /\ u.blk[ClustersOf(u, a)[1]][1].k = "dotdot"
    <3>1. a \in LiveOf(v) /\ EntOf(v, a).k = "dir" /\ ClustersOf(v, a) # <<>> /\ ClustersOf(u, a)[1] = ClustersOf(v, a)[1]
      BY <1>3, <1>4, <2>1
    <3> QED BY <3>1 DEF Safe, Dotted, CutAt
  <2> QED BY <2>1 DEF Dotted
<1> QED BY <1>5, <1>6, <1>7 DEF Safe

-----------------------------------------------------------------------------
(* The logs, by what is in them and by what is behind their first write.   *)
LEMMA InLog ==
    ASSUME NEW S, NEW l \in Seq(S)
    PROVE  /\ ToSet(l) \subseteq S
           /\ l # <<>> => /\ Head(l) \in S /\ Head(l) = l[1] /\ Tail(l) \in Seq(S)
                          /\ ToSet(l) = {Head(l)} \cup ToSet(Tail(l))
<1>1. ToSet(l) \subseteq S
  BY DEF ToSet
<1>2. ASSUME l # <<>>
      PROVE  /\ Head(l) \in S /\ Head(l) = l[1] /\ Tail(l) \in Seq(S)
             /\ ToSet(l) = {Head(l)} \cup ToSet(Tail(l))
  <2>1. Head(l) \in S /\ Head(l) = l[1] /\ Tail(l) \in Seq(S) /\ Len(Tail(l)) = Len(l) - 1
        /\ \A i \in 1 .. Len(Tail(l)) : Tail(l)[i] = l[i + 1]
    BY <1>2, HeadTailProperties
  <2>2. PICK m : m = Tail(l)
    OBVIOUS
  <2>3. m \in Seq(S) /\ Len(m) = Len(l) - 1 /\ Len(l) \in Nat /\ Len(l) > 0
        /\ DOMAIN m = 1 .. Len(m) /\ DOMAIN l = 1 .. Len(l) /\ \A i \in 1 .. Len(m) : m[i] = l[i + 1]
    BY <1>2, <2>1, <2>2
  <2>4. \A i \in DOMAIN m : i + 1 \in DOMAIN l /\ l[i + 1] = m[i]
    BY <2>3
  <2>5. \A i \in DOMAIN l : i = 1 \/ (i - 1 \in DOMAIN m /\ m[i - 1] = l[i])
    BY <2>3
  <2>6. 1 \in DOMAIN l
    BY <2>3
  <2>7. ToSet(l) = {l[1]} \cup ToSet(m)
    BY <2>4, <2>5, <2>6 DEF ToSet
  <2> QED BY <2>1, <2>2, <2>7
<1> QED BY <1>1, <1>2

LEMMA InBoth ==
    ASSUME NEW S, NEW k \in Seq(S), NEW l \in Seq(S)
    PROVE  /\ k \o l \in Seq(S)
           /\ ToSet(k \o l) = ToSet(k) \cup ToSet(l)
           /\ k # <<>> => /\ k \o l # <<>> /\ Head(k \o l) = Head(k)
                          /\ ToSet(Tail(k \o l)) = ToSet(Tail(k)) \cup ToSet(l)
<1>1. PICK b : b = k \o l
  OBVIOUS
<1>2. /\ b \in Seq(S) /\ Len(b) = Len(k) + Len(l) /\ Len(k) \in Nat /\ Len(l) \in Nat
      /\ \A i \in 1 .. Len(k) + Len(l) : b[i] = IF i <= Len(k) THEN k[i] ELSE l[i - Len(k)]
  BY <1>1, ConcatProperties
<1>3. DOMAIN b = 1 .. Len(b) /\ DOMAIN k = 1 .. Len(k) /\ DOMAIN l = 1 .. Len(l)
  BY <1>2
<1>4. /\ \A i \in 1 .. Len(k) : i \in 1 .. Len(b) /\ b[i] = k[i]
      /\ \A i \in 1 .. Len(l) : i + Len(k) \in 1 .. Len(b) /\ b[i + Len(k)] = l[i]
      /\ \A i \in 1 .. Len(b) : (i \in 1 .. Len(k) /\ b[i] = k[i])
                                \/ (i - Len(k) \in 1 .. Len(l) /\ b[i] = l[i - Len(k)])
  <2>1. ASSUME NEW i \in 1 .. Len(k) PROVE i \in 1 .. Len(b) /\ b[i] = k[i]
    BY <1>2
  <2>2. ASSUME NEW i \in 1 .. Len(l) PROVE i + Len(k) \in 1 .. Len(b) /\ b[i + Len(k)] = l[i]
    <3>1. i + Len(k) \in 1 .. Len(k) + Len(l) /\ ~(i + Len(k) <= Len(k)) /\ (i + Len(k)) - Len(k) = i
      BY <1>2
    <3> QED BY <1>2, <3>1
  <2>3. ASSUME NEW i \in 1 .. Len(b)
        PROVE  (i \in 1 .. Len(k) /\ b[i] = k[i]) \/ (i - Len(k) \in 1 .. Len(l) /\ b[i] = l[i - Len(k)])
    <3>1. i \in 1 .. Len(k) + Len(l) /\ (i <= Len(k) => i \in 1 .. Len(k)) /\ (~(i <= Len(k)) => i - Len(k) \in 1 .. Len(l))
      BY <1>2
    <3> QED BY <1>2, <3>1
  <2> QED BY <2>1, <2>2, <2>3
<1>5. ToSet(b) = ToSet(k) \cup ToSet(l)
  <2>1. \A x \in ToSet(b) : x \in ToSet(k) \cup ToSet(l)
    BY <1>3, <1>4 DEF ToSet
  <2>2. \A x \in ToSet(k) : x \in ToSet(b)
    BY <1>3, <1>4 DEF ToSet
  <2>3. \A x \in ToSet(l) : x \in ToSet(b)
    BY <1>3, <1>4 DEF ToSet
  <2> QED BY <2>1, <2>2, <2>3
<1>6. ASSUME k # <<>>
      PROVE  b # <<>> /\ Head(b) = Head(k) /\ ToSet(Tail(b)) = ToSet(Tail(k)) \cup ToSet(l)
  <2>1. Len(k) > 0 /\ 1 \in 1 .. Len(k) /\ b # <<>>
    BY <1>2, <1>6
  <2>2. Head(b) = Head(k)
    BY <1>2, <1>4, <1>6, <2>1, InLog
  <2>3. PICK c, m : c = Tail(b) /\ m = Tail(k)
    OBVIOUS
  <2>4. /\ c \in Seq(S) /\ Len(c) = Len(b) - 1 /\ \A i \in 1 .. Len(c) : c[i] = b[i + 1]
        /\ m \in Seq(S) /\ Len(m) = Len(k) - 1 /\ \A i \in 1 .. Len(m) : m[i] = k[i + 1]
    BY <1>2, <1>6, <2>1, <2>3, HeadTailProperties
  <2>5. DOMAIN c = 1 .. Len(c) /\ DOMAIN m = 1 .. Len(m)
    BY <2>4
  <2>6. \A i \in 1 .. Len(m) : i \in 1 .. Len(c) /\ c[i] = m[i]
    BY <1>2, <1>4, <2>1, <2>4
  <2>7. \A i \in 1 .. Len(l) : (i + Len(k)) - 1 \in 1 .. Len(c) /\ c[(i + Len(k)) - 1] = l[i]
    <3>1. TAKE i \in 1 .. Len(l)
    <3>2. (i + Len(k)) - 1 \in 1 .. Len(c) /\ ((i + Len(k)) - 1) + 1 = i + Len(k)
      BY <1>2, <2>1, <2>4
    <3> QED BY <1>4, <2>4, <3>2
  <2>8. \A i \in 1 .. Len(c) : (i \in 1 .. Len(m) /\ c[i] = m[i]) \/ (\E q \in 1 .. Len(l) : c[i] = l[q])
    <3>1. TAKE i \in 1 .. Len(c)
    <3>2. i + 1 \in 1 .. Len(b) /\ c[i] = b[i + 1]
      <4>1. i + 1 \in 1 .. Len(b)
        BY <1>2, <2>4
      <4> QED BY <2>4, <4>1
    <3>3. CASE i + 1 \in 1 .. Len(k) /\ b[i + 1] = k[i + 1]
      <4>1. i \in 1 .. Len(m)
        BY <2>4, <3>1, <3>3, <1>2
      <4> QED BY <2>6, <4>1
    <3>4. CASE (i + 1) - Len(k) \in 1 .. Len(l) /\ b[i + 1] = l[(i + 1) - Len(k)]
      BY <3>2, <3>4
    <3> QED BY <1>4, <3>2, <3>3, <3>4
  <2>9. ToSet(c) = ToSet(m) \cup ToSet(l)
    <3>1. \A x \in ToSet(c) : x \in ToSet(m) \cup ToSet(l)
      BY <1>3, <2>5, <2>8 DEF ToSet
    <3>2. \A x \in ToSet(m) : x \in ToSet(c)
      BY <2>5, <2>6 DEF ToSet
    <3>3. \A x \in ToSet(l) : x \in ToSet(c)
      BY <1>3, <2>5, <2>7 DEF ToSet
    <3> QED BY <3>1, <3>2, <3>3
  <2> QED BY <2>1, <2>2, <2>3, <2>9
<1> QED BY <1>1, <1>2, <1>5, <1>6

(* What may be written beside the files: to the other copies, to entries   *)
(* that are no file or directory a reader finds, and the cell of n.        *)
Away(v, p) ==
    \A f \in LiveOf(v) :
        /\ f[1] # p[1] \/ f[2] # p[2]
        /\ EntOf(v, f).k = "file" => p[1] \notin ToSet(ClustersOf(v, f))
Harmless(v, n, nx, w) ==
    \/ w.op = "fat" /\ (w.where[1] # 0 \/ (w.where = <<0, n>> /\ w.val = nx))
    \/ w.op = "hi"
    \/ w.op = "lo" /\ Away(v, w.where)

LEMMA NotInFile ==
    ASSUME NEW v, HasShape(v), InOrder(v), NEW p, p[2] \in SlotsOf \/ p[1] \notin Clus,
           EntOf(v, p).k # "data", NEW f \in LiveOf(v), EntOf(v, f).k = "file"
    PROVE  p[1] \notin ToSet(ClustersOf(v, f))
<1> SUFFICES ASSUME p[1] \in ToSet(ClustersOf(v, f)) PROVE FALSE
  OBVIOUS
<1>1. p[1] \in Clus /\ p[1] # 0
  BY HeldWhere, VfatConsts
<1>2. PICK k \in DOMAIN ClustersOf(v, f) : p[1] = ClustersOf(v, f)[k]
  BY DEF ToSet
<1>3. v.blk[p[1]][p[2]] = Data(EntOf(v, f).nm, k)
  BY <1>1, <1>2 DEF InOrder
<1>4. EntOf(v, p).k = "data"
  BY <1>1, <1>3 DEF EntOf, Data
<1> QED BY <1>4

LEMMA AwayByKind ==
    ASSUME NEW v, HasShape(v), InOrder(v), NEW p, p[2] \in SlotsOf \/ p[1] \notin Clus,
           EntOf(v, p).k \notin {"file", "dir", "data"}
    PROVE  Away(v, p)
<1>1. \A f \in LiveOf(v) : f[1] # p[1] \/ f[2] # p[2]
  BY LiveWhere DEF EntOf
<1> QED BY <1>1, NotInFile DEF Away

(* The chain of a table is what the description counts and walks. *)
LEMMA CountSound ==
    ASSUME DevOk, NEW a \in Places, ClustersOf(Vol, a) # <<>>, fats[0][Last(ClustersOf(Vol, a))] = Eof
    PROVE  /\ fat_chain_count(Ent(a).cn) = Len(ClustersOf(Vol, a))
           /\ Path(ClustersOf(Vol, a), fats[0], Ent(a).cn)
<1>1. HasShape(Vol) /\ Vol.fat = fats[0] /\ Ent(a) = EntOf(Vol, a) /\ Ent(a).cn \in Nums
  BY VolShape, EntryAt DEF Ent
<1>2. PICK p : p = ClustersOf(Vol, a)
  OBVIOUS
<1>3. IsChain(p, fats[0], Ent(a).cn) /\ p \in Seq(Clus) /\ Table(fats[0])
  BY <1>1, <1>2, ClustersIs
<1>4. p[1] = Ent(a).cn /\ Len(p) \in Nat /\ Len(p) > 0 /\ Path(p, fats[0], Ent(a).cn)
      /\ (\A k \in 1 .. Len(p) - 1 : p[k + 1] = fats[0][p[k]]) /\ fats[0][p[Len(p)]] = Eof
  BY <1>2, <1>3 DEF IsChain, Path, Last
<1>5. \A k \in 1 .. Len(p) : p[k] \in Clus
  BY <1>3, ElementOfSeq
<1> DEFINE S == {p[k] : k \in 1 .. Len(p)} \cup {Eof}
<1>6. S \in SUBSET Nums
  BY <1>5, VfatConsts
<1>7. \A x \in S : is_valid_cnum(x) <=> x \in Clus
  <2>1. \A x \in Clus : is_valid_cnum(x)
    BY VfatConsts DEF is_valid_cnum, FAT_START_ENT
  <2>2. ~is_valid_cnum(Eof) /\ Eof \notin Clus
    BY VfatConsts DEF is_valid_cnum, FAT_START_ENT
  <2> QED BY <1>5, <2>1, <2>2
<1>8. \A x \in S \cap Clus : fats[0][x] \in S
  <2>1. TAKE x \in S \cap Clus
  <2>2. PICK k \in 1 .. Len(p) : x = p[k]
    BY VfatConsts
  <2>3. k # Len(p) => k + 1 \in 1 .. Len(p) /\ k \in 1 .. Len(p) - 1
    BY <1>4
  <2> QED BY <1>4, <2>2, <2>3
<1>9. Ent(a).cn \in S
  <2>1. 1 \in 1 .. Len(p)
    BY <1>4
  <2> QED BY <1>4, <2>1
<1> HIDE DEF S
<1>10. fat_chain_count(Ent(a).cn) = Len(Chain(0, Ent(a).cn))
  BY <1>3, <1>6, <1>7, <1>8, <1>9, CountIs
<1>11. Chain(0, Ent(a).cn) = p
  BY <1>1, <1>2, ChainIsOf DEF ClustersOf
<1> QED BY <1>2, <1>4, <1>10, <1>11

FatSet(c, v) == {Write("fat", <<n, c>>, v) : n \in Copies}

LEMMA FatLog ==
    ASSUME NEW c, NEW v
    PROVE  /\ write_fat(c, v) \in Seq(FatSet(c, v))
           /\ write_fat(c, v) # <<>> /\ Head(write_fat(c, v)) = Write("fat", <<0, c>>, v)
           /\ ToSet(write_fat(c, v)) = FatSet(c, v)
           /\ \A w \in ToSet(Tail(write_fat(c, v))) : w.op = "fat" /\ w.where[1] # 0
<1> DEFINE S == {Write("fat", <<n, c>>, v) : n \in Copies}
<1>1. PICK l : l = write_fat(c, v)
  OBVIOUS
<1>2. l = [n \in 1 .. FatCount |-> Write("fat", <<n - 1, c>>, v)]
  BY <1>1 DEF write_fat
<1>3. FatCount \in Nat /\ FatCount > 0
  BY VfatConsts
<1>4. \A n \in 1 .. FatCount : n - 1 \in Copies /\ l[n] = Write("fat", <<n - 1, c>>, v)
  BY <1>2, <1>3 DEF Copies
<1>5. \A n \in 1 .. FatCount : l[n] \in S
  BY <1>4
<1>6. l \in Seq(S) /\ Len(l) = FatCount /\ DOMAIN l = 1 .. FatCount
  <2>1. l \in [1 .. FatCount -> S]
    BY <1>2, <1>5
  <2> HIDE DEF S
  <2> QED BY <1>3, <2>1
<1>7. l # <<>> /\ Head(l) = Write("fat", <<0, c>>, v)
  <2>1. l # <<>>
    BY <1>3, <1>6
  <2>2. 1 \in 1 .. FatCount /\ 1 - 1 = 0
    BY <1>3
  <2>3. Head(l) = l[1]
    BY <1>6, <2>1, InLog
  <2> QED BY <1>4, <2>1, <2>2, <2>3
<1>8. ToSet(l) = S
  <2>1. \A n \in Copies : n + 1 \in DOMAIN l /\ (n + 1) - 1 = n
    BY <1>3, <1>6 DEF Copies
  <2>2. ASSUME NEW x \in S PROVE x \in ToSet(l)
    <3>1. PICK n \in Copies : x = Write("fat", <<n, c>>, v)
      BY <2>2
    <3>2. PICK k : k = n + 1
      OBVIOUS
    <3>3. k \in DOMAIN l /\ l[k] = x
      <4>1. k \in DOMAIN l /\ k - 1 = n
        BY <2>1, <3>2
      <4> QED BY <1>2, <1>6, <3>1, <4>1
    <3> QED BY <3>3 DEF ToSet
  <2> QED BY <1>6, <2>2, InLog
<1>9. ASSUME NEW w \in ToSet(Tail(l)) PROVE w.op = "fat" /\ w.where[1] # 0
  <2>1. PICK m : m = Tail(l)
    OBVIOUS
  <2>2. m \in Seq(S) /\ Len(m) = FatCount - 1 /\ \A i \in 1 .. Len(m) : m[i] = l[i + 1]
    BY <1>6, <1>7, <2>1, HeadTailProperties
  <2>3. PICK i \in 1 .. Len(m) : w = m[i]
    BY <1>9, <2>1, <2>2 DEF ToSet
  <2>4. i + 1 \in 1 .. FatCount /\ (i + 1) - 1 = i /\ i # 0
    BY <1>3, <2>2
  <2>5. w = Write("fat", <<i, c>>, v)
    BY <1>4, <2>2, <2>3, <2>4
  <2> QED BY <2>4, <2>5 DEF Write
<1> QED BY <1>1, <1>6, <1>7, <1>8, <1>9 DEF FatSet

(* All that is in a part is in the whole. *)
LEMMA FlattenHas ==
    ASSUME NEW S, NEW s \in Seq(Seq(S)), NEW i \in 1 .. Len(s), NEW x \in ToSet(s[i])
    PROVE  x \in ToSet(FlattenSeq(s))
<1> DEFINE n == Len(s)
           f == CHOOSE f : Flat(f, s, n)
<1>1. n \in Nat /\ i \in Nat /\ i <= n /\ i >= 1
  OBVIOUS
<1>3. n # 0
  BY <1>1
<1>2. FlattenSeq(s) = f[n]
  BY <1>3, Zenon DEF FlattenSeq, Flat
<1>10. Flat(f, s, n)
  <2>1. \E h : Flat(h, s, n)
    BY <1>1, FlatExists
  <2> QED BY <2>1, Zenon
<1> HIDE DEF f
<1>4. \A k \in 1 .. n : f[k] = IF k = 1 THEN s[k] ELSE f[k - 1] \o s[k]
  BY <1>10 DEF Flat
<1>5. \A k \in 1 .. n : s[k] \in Seq(S)
  OBVIOUS
<1> HIDE DEF n
<1>6. ASSUME NEW k \in 1 .. n PROVE f[k] \in Seq(S)
  <2> DEFINE Out == {k2 \in 1 .. n : f[k2] \notin Seq(S)}
  <2>1. SUFFICES ASSUME Out # {} PROVE FALSE
    OBVIOUS
  <2>2. PICK m \in Out : \A y \in Out : m <= y
    <3>1. Out \subseteq Nat
      OBVIOUS
    <3> HIDE DEF Out
    <3> QED BY <2>1, <3>1, Smallest
  <2>3. m # 1
    BY <1>4, <1>5, <2>2
  <2>4. m - 1 \in 1 .. n /\ m - 1 \notin Out /\ m \in 1 .. n
    BY <2>2, <2>3, <1>1
  <2>5. f[m - 1] \in Seq(S)
    BY <2>4
  <2>6. f[m] \in Seq(S)
    <3>1. f[m] = f[m - 1] \o s[m] /\ s[m] \in Seq(S)
      BY <1>4, <1>5, <2>3, <2>4
    <3>2. PICK p, q : p = f[m - 1] /\ q = s[m]
      OBVIOUS
    <3>3. p \o q \in Seq(S)
      BY <2>5, <3>1, <3>2
    <3> QED BY <3>1, <3>2, <3>3
  <2> QED BY <2>2, <2>6
<1>7. ASSUME NEW k \in 1 .. n, k # 1 PROVE ToSet(f[k]) = ToSet(f[k - 1]) \cup ToSet(s[k])
  <2>1. k - 1 \in 1 .. n
    BY <1>7, <1>1
  <2> QED BY <1>4, <1>5, <1>6, <1>7, <2>1, InBoth
<1> DEFINE Lost == {k \in i .. n : x \notin ToSet(f[k])}
<1>8. Lost = {}
  <2>1. SUFFICES ASSUME Lost # {} PROVE FALSE
    OBVIOUS
  <2>2. PICK m \in Lost : \A y \in Lost : m <= y
    <3>1. Lost \subseteq Nat
      BY <1>1
    <3> HIDE DEF Lost
    <3> QED BY <2>1, <3>1, Smallest
  <2>3. m \in 1 .. n /\ x \notin ToSet(f[m])
    BY <2>2, <1>1
  <2>4. CASE m = i
    <3>1. x \in ToSet(f[m])
      <4>1. CASE m = 1
        BY <1>4, <2>3, <2>4, <4>1
      <4>2. CASE m # 1
        BY <1>7, <2>3, <2>4, <4>2
      <4> QED BY <4>1, <4>2
    <3> QED BY <2>3, <3>1
  <2>5. CASE m # i
    <3>4. m \in i .. n
      BY <2>2
    <3>5. m - 1 \in i .. n /\ m # 1 /\ ~(m <= m - 1)
      BY <1>1, <2>5, <3>4
    <3>6. m - 1 \notin Lost
      <4> HIDE DEF Lost
      <4> QED BY <2>2, <3>5
    <3>1. m - 1 \in i .. n /\ m - 1 \notin Lost /\ m # 1
      BY <3>5, <3>6
    <3>2. x \in ToSet(f[m - 1])
      BY <3>1
    <3> QED BY <1>7, <2>3, <3>1, <3>2
  <2> QED BY <2>4, <2>5
<1>9. n \in i .. n
  BY <1>1
<1> QED BY <1>2, <1>8, <1>9

(* The parents written by the loop over the entries of a directory. *)
GoodKids(a) == {n \in 0 .. de_children_count(Ent(a)) - 1 : is_good_dir(Ent(get_nth_de(Ent(a), n)))}
KidWrites(a, c) ==
    UNION {{Write("lo", find_dotdot_de(get_nth_de(Ent(a), n)), c), Write("hi", find_dotdot_de(get_nth_de(Ent(a), n)), 0)}
           : n \in GoodKids(a)}

LEMMA DotdotLog ==
    ASSUME NEW a, NEW c, de_children_count(Ent(a)) \in Nat
    PROVE  /\ write_fix_dotdot_n(a, c) \in Seq(KidWrites(a, c))
           /\ \A n \in GoodKids(a) :
                 Write("lo", find_dotdot_de(get_nth_de(Ent(a), n)), c) \in ToSet(write_fix_dotdot_n(a, c))
<1> DEFINE N == de_children_count(Ent(a))
           kid(n) == get_nth_de(Ent(a), n)
           fix(n) == IF is_good_dir(Ent(kid(n))) THEN write_de_cn(find_dotdot_de(kid(n)), c) ELSE <<>>
           s == [n \in 1 .. N |-> fix(n - 1)]
           W(n) == {Write("lo", find_dotdot_de(kid(n)), c), Write("hi", find_dotdot_de(kid(n)), 0)}
           K == {n \in 0 .. N - 1 : is_good_dir(Ent(kid(n)))}
           S == UNION {W(n) : n \in K}
<1>1. write_fix_dotdot_n(a, c) = FlattenSeq(s)
  BY Zenon DEF write_fix_dotdot_n
<1>2. ASSUME NEW n \in 0 .. N - 1 PROVE fix(n) \in Seq(S)
  <2>1. PICK d : d = find_dotdot_de(kid(n))
    OBVIOUS
  <2>2. write_de_cn(d, c) \in Seq({Write("lo", d, c), Write("hi", d, 0)})
    BY DEF write_de_cn
  <2>3. write_de_cn(find_dotdot_de(kid(n)), c) \in Seq(W(n))
    BY <2>1, <2>2
  <2>4. is_good_dir(Ent(kid(n))) => n \in K
    OBVIOUS
  <2>5. is_good_dir(Ent(kid(n))) => W(n) \subseteq S
    <3> HIDE DEF W, K
    <3> QED BY <2>4
  <2>6. <<>> \in Seq(S)
    OBVIOUS
  <2>7. CASE is_good_dir(Ent(kid(n)))
    <3> HIDE DEF W, S, K
    <3>1. write_de_cn(find_dotdot_de(kid(n)), c) \in Seq(S)
      BY <2>3, <2>5, <2>7
    <3> QED BY <2>7, <3>1
  <2>8. CASE ~is_good_dir(Ent(kid(n)))
    BY <2>6, <2>8
  <2> QED BY <2>7, <2>8
<1>3. N \in Nat
  OBVIOUS
<1>4. ASSUME NEW n \in 1 .. N PROVE s[n] \in Seq(S)
  <2>1. s[n] = fix(n - 1)
    BY Zenon
  <2>2. n - 1 \in 0 .. N - 1
    BY <1>3
  <2>3. fix(n - 1) \in Seq(S)
    BY <1>2, <2>2
  <2> HIDE DEF S, s, fix
  <2> QED BY <2>1, <2>3
<1>5. s = [n \in 1 .. N |-> s[n]]
  BY Zenon
<1> HIDE DEF s, S, N
<1>6. s \in [1 .. N -> Seq(S)]
  BY <1>4, <1>5
<1>7. s \in Seq(Seq(S))
  BY <1>3, <1>6
<1>8. FlattenSeq(s) \in Seq(S)
  BY <1>7, FlattenIs
<1>9. write_fix_dotdot_n(a, c) \in Seq(S)
  BY <1>1, <1>8
<1>10. write_fix_dotdot_n(a, c) \in Seq(KidWrites(a, c))
  BY <1>9, Zenon DEF S, N, KidWrites, GoodKids
<1>11. ASSUME NEW n \in GoodKids(a)
       PROVE  Write("lo", find_dotdot_de(kid(n)), c) \in ToSet(write_fix_dotdot_n(a, c))
  <2>1. n \in 0 .. N - 1 /\ is_good_dir(Ent(kid(n)))
    BY DEF GoodKids, N
  <2>2. n + 1 \in 1 .. Len(s) /\ n + 1 \in 1 .. N
    BY <1>3, <1>6, <2>1
  <2>3. s[n + 1] = fix(n)
    <3>1. PICK k \in 1 .. N : k = n + 1
      BY <2>2
    <3>2. s[k] = fix(k - 1)
      BY Zenon DEF s
    <3>3. k - 1 = n
      BY <1>3, <2>1, <3>1
    <3> QED BY <3>1, <3>2, <3>3
  <2>4. PICK d : d = find_dotdot_de(kid(n))
    OBVIOUS
  <2>5. s[n + 1] = write_de_cn(d, c)
    BY <2>1, <2>3, <2>4, Zenon
  <2>6. s[n + 1] = <<Write("lo", d, c), Write("hi", d, 0)>>
    BY <2>5 DEF write_de_cn
  <2>7. Write("lo", d, c) \in ToSet(s[n + 1])
    BY <2>6 DEF ToSet
  <2> HIDE DEF fix, kid
  <2>8. Write("lo", d, c) \in ToSet(FlattenSeq(s))
    BY <1>7, <2>2, <2>7, FlattenHas
  <2> QED BY <1>1, <2>4, <2>8
<1> QED BY <1>10, <1>11

(* The slot with the first entry of a kind. *)
LEMMA FirstSlotIs ==
    ASSUME NEW S, S \subseteq SlotsOf, S # {}, NEW d
    PROVE  FirstSlot(S, d) \in S
<1>1. S \subseteq Nat
  BY VfatConsts DEF SlotsOf
<1>2. \E s \in S : \A t \in S : s <= t
  BY <1>1, Smallest
<1>3. PICK x : x = CHOOSE s \in S : \A t \in S : s <= t
  OBVIOUS
<1>4. x \in S
  BY <1>2, <1>3, Zenon
<1>5. FirstSlot(S, d) = x
  BY <1>3, Zenon DEF FirstSlot
<1> QED BY <1>4, <1>5

LEMMA FirstEntry ==
    ASSUME DevOk, NEW e, e.cn \in Nums, NEW s \in SlotsOf
    PROVE  get_nth_de(e, s) = <<e.cn, s>>
<1>1. s \div DeC = 0 /\ s % DeC = s
  <2>1. s \in Nat /\ s < DeC /\ DeC \in Nat \ {0} /\ s \in 0 .. DeC - 1
    BY VfatConsts DEF SlotsOf
  <2> QED BY <2>1, PartsAre
<1>2. Table(fats[0])
  BY VfatConsts DEF DevOk, FatsOk, Table
<1>3. fat_chain_nth_cnum(e.cn, 0) = e.cn
  BY <1>2, NthNum
<1> QED BY <1>1, <1>3 DEF get_nth_de, get_nth_cnum

(* Where the loop over the entries of a directory comes to. *)
LEMMA KidPlace ==
    ASSUME DevOk, NEW a \in LiveOf(Vol), Ent(a).k = "dir", SoundOf(Vol),
           NEW m \in 0 .. de_children_count(Ent(a)) - 1, NEW kid, kid = get_nth_de(Ent(a), m)
    PROVE  kid[1] \in ToSet(ClustersOf(Vol, a)) /\ kid \in Places /\ kid[1] \in Clus /\ kid[2] \in SlotsOf
<1>1. HasShape(Vol) /\ a \in Places /\ Ent(a).cn \in Nums /\ Table(fats[0])
  <2>1. HasShape(Vol)
    BY VolShape
  <2>2. a \in Places
    BY <2>1, LiveIn
  <2>3. Table(fats[0])
    BY VfatConsts DEF DevOk, FatsOk, Table
  <2> QED BY <2>1, <2>2, <2>3, EntryAt
<1>2. PICK p : p = ClustersOf(Vol, a)
  OBVIOUS
<1>3. p # <<>> /\ fats[0][Last(p)] = Eof
  BY <1>1, <1>2, VolShape DEF SoundOf
<1>4. fat_chain_count(Ent(a).cn) = Len(p) /\ Path(p, fats[0], Ent(a).cn)
  BY <1>1, <1>2, <1>3, CountSound
<1>5. p \in Seq(Clus) /\ Len(p) \in Nat /\ Len(p) > 0 /\ p[1] = Ent(a).cn
  BY <1>3, <1>4 DEF Path
<1>6. m \in 0 .. Len(p) * DeC - 1
  BY <1>4 DEF de_children_count, de_cluster_count, is_de_dir
<1>7. PICK q, r : q = m \div DeC /\ r = m % DeC
  OBVIOUS
<1>8. q \in 0 .. Len(p) - 1 /\ r \in SlotsOf
  <2>1. m \in Nat /\ m < Len(p) * DeC /\ DeC \in Nat \ {0}
    BY <1>5, <1>6, VfatConsts
  <2>2. q \in Nat /\ r \in 0 .. DeC - 1 /\ q * DeC \in Nat /\ m = q * DeC + r
    BY <1>7, <2>1, Parts
  <2>3. CASE q >= Len(p)
    <3>1. Len(p) * DeC <= q * DeC /\ Len(p) * DeC \in Nat
      BY <1>5, <2>1, <2>2, <2>3, Products
    <3> QED BY <2>1, <2>2, <3>1
  <2> QED BY <1>5, <2>2, <2>3 DEF SlotsOf
<1>9. fat_chain_nth_cnum(Ent(a).cn, q) \in ToSet(p)
  <2>1. \A k \in 1 .. Len(p) : p[k] \in ToSet(p)
    BY <1>5 DEF ToSet
  <2>2. CASE q = 0
    <3>1. fat_chain_nth_cnum(Ent(a).cn, q) = Ent(a).cn
      BY <1>1, <2>2, NthNum
    <3> QED BY <1>5, <2>1, <3>1
  <2>3. CASE q # 0
    <3>1. q \in 1 .. Len(p)
      BY <1>5, <1>8, <2>3
    <3>2. fat_chain_nth_cnum(Ent(a).cn, q) = p[q]
      BY <1>1, <1>4, <3>1, NthOnPath
    <3> QED BY <2>1, <3>1, <3>2
  <2> QED BY <2>2, <2>3
<1>10. ToSet(p) \subseteq Clus
  BY <1>5 DEF ToSet
<1>11. kid = <<fat_chain_nth_cnum(Ent(a).cn, q), r>>
  BY <1>7 DEF get_nth_de, get_nth_cnum
<1> QED BY <1>2, <1>8, <1>9, <1>10, <1>11 DEF Places

(* A relocation of the first cluster of a directory writes '..' of what    *)
(* the directory lists: no file, no directory and no file's data.          *)
LEMMA KidAway ==
    ASSUME DevOk, NEW a \in LiveOf(Vol), Ent(a).k = "dir", Safe(Vol), SoundOf(Vol),
           NEW o, NEW n \in Clus, n \notin Held(Vol), o = ClustersOf(Vol, a)[1],
           NEW u, HasShape(u), Safe(u), Moved(Vol, u, a, 1, o, n), LiveOf(u) = {Put(o, n, b) : b \in LiveOf(Vol)},
           NEW m \in 0 .. de_children_count(Ent(a)) - 1, NEW kid, kid = get_nth_de(Ent(a), m),
           is_good_dir(Ent(kid))
    PROVE  Away(u, find_dotdot_de(kid))
<1>1. HasShape(Vol) /\ a \in Places /\ Vol.blk = blk
  BY VolShape, LiveIn
<1>2. kid[1] \in ToSet(ClustersOf(Vol, a)) /\ kid \in Places /\ kid[1] \in Clus /\ kid[2] \in SlotsOf
  BY KidPlace
<1>3. kid # a /\ kid[1] # n
  <2>1. a[1] \notin ToSet(ClustersOf(Vol, a))
    BY <1>1, OwnAway DEF Safe
  <2> QED BY <1>1, <1>2, <2>1, HeldWhere
<1>4. \A x \in Places : x # a => EntOf(u, x) = Ent(x)
  BY DEF Moved, Ent
<1>5. Ent(kid).cn \in Nums
  BY <1>2, EntryAt
<1> DEFINE S == {i \in SlotsOf : Ent(get_nth_de(Ent(kid), i)).k = "dotdot"}
<1>6. CASE S # {}
  <2>1. PICK s : s = FirstSlot(S, 0)
    OBVIOUS
  <2>2. s \in S
    BY <1>6, <2>1, FirstSlotIs
  <2>3. PICK p : p = <<Ent(kid).cn, s>>
    OBVIOUS
  <2>4. get_nth_de(Ent(kid), s) = p
    BY <1>5, <2>2, <2>3, FirstEntry
  <2>5. find_dotdot_de(kid) = p
    BY <1>6, <2>1, <2>4, Zenon DEF find_dotdot_de
  <2>6. Ent(p).k = "dotdot" /\ s \in SlotsOf
    BY <2>2, <2>4
  <2>7. CASE p \in Places
    <3>1. EntOf(u, p).k = "dotdot"
      BY <1>4, <2>6, <2>7
    <3>2. Away(u, p)
      BY <2>3, <2>6, <3>1, AwayByKind DEF Safe
    <3> QED BY <2>5, <3>2
  <2>8. CASE p \notin Places
    <3>1. \A f \in LiveOf(u) : f[1] # p[1] \/ f[2] # p[2]
      <4>1. \A f \in LiveOf(u) : f \in Places /\ f # p
        BY <2>8, LiveIn
      <4> QED BY <2>3, <4>1 DEF Places
    <3>2. p[1] \notin Clus
      BY <2>3, <2>6, <2>8 DEF Places
    <3>3. \A f \in LiveOf(u) : ToSet(ClustersOf(u, f)) \subseteq Clus
      BY HeldWhere
    <3>4. Away(u, p)
      BY <3>1, <3>2, <3>3 DEF Away
    <3> QED BY <2>5, <3>4
  <2> QED BY <2>7, <2>8
<1>7. CASE S = {}
  <2>1. find_dotdot_de(kid) = kid
    BY <1>7, Zenon DEF find_dotdot_de
  <2>2. EntOf(u, kid) = Ent(kid)
    BY <1>2, <1>3, <1>4
  <2>3. CASE Ent(kid).k = "deldir"
    BY <1>2, <2>1, <2>2, <2>3, AwayByKind DEF Safe
  <2>4. CASE Ent(kid).k = "dir"
    <3>1. ASSUME kid \in LiveOf(u) PROVE FALSE
      <4>1. PICK b \in LiveOf(Vol) : kid = Put(o, n, b)
        BY <3>1
      <4>2. kid = b
        <5>1. b \in Places /\ kid[1] = Sub(o, n, b[1]) /\ kid[2] = b[2]
          BY <1>1, <4>1, LiveIn DEF Put
        <5>2. kid[1] = b[1]
          BY <1>3, <5>1 DEF Sub
        <5> QED BY <1>2, <5>1, <5>2 DEF Places
      <4>3. PICK ch : ch = ClustersOf(Vol, kid)
        OBVIOUS
      <4>4. ch # <<>> /\ blk[ch[1]][1].k = "dotdot"
        BY <1>1, <2>4, <4>2, <4>3 DEF SoundOf, Safe, Dotted, Ent
      <4>5. IsChain(ch, Vol.fat, Ent(kid).cn)
        BY <1>1, <1>2, <4>3, ClustersIs DEF Ent
      <4>6. ch[1] = Ent(kid).cn /\ Ent(kid).cn \in Clus
        BY <4>4, <4>5 DEF IsChain, Path
      <4>7. 1 \in SlotsOf
        BY ContentConsts
      <4>8. get_nth_de(Ent(kid), 1) = <<Ent(kid).cn, 1>>
        BY <1>5, <4>7, FirstEntry
      <4>9. Ent(<<Ent(kid).cn, 1>>).k = "dotdot"
        BY <1>1, <4>4, <4>6, VfatConsts DEF Ent, EntOf
      <4> QED BY <1>7, <4>7, <4>8, <4>9
    <3>2. \A f \in LiveOf(u) : f[1] # kid[1] \/ f[2] # kid[2]
      <4>1. \A f \in LiveOf(u) : f \in Places /\ f # kid
        BY <3>1, LiveIn
      <4> QED BY <1>2, <4>1 DEF Places
    <3>3. Away(u, kid)
      BY <1>2, <2>2, <2>4, <3>2, NotInFile DEF Safe, Away
    <3> QED BY <2>1, <3>3
  <2> QED BY <2>3, <2>4 DEF is_good_dir
<1> QED BY <1>6, <1>7

(* The packet that links a cluster in: it begins with the pointer, it has  *)
(* the number the new cluster goes on with, and else it writes beside the  *)
(* files.                                                                  *)
LEMMA UpdateLog ==
    ASSUME DevOk, NEW a \in LiveOf(Vol), Safe(Vol), SoundOf(Vol),
           NEW o, NEW n \in Clus, n \notin Held(Vol), o = ClustersOf(Vol, a)[1],
           \A s \in SlotsOf : blk[n][s] = blk[o][s],
           NEW k, k = block_rel_update_de(a, n)
    PROVE  /\ \E S : k \in Seq(S) 
           /\ k # <<>> /\ Head(k) = Write("lo", a, n) /\ \A w \in ToSet(k) : w.op \in {"lo", "hi"}
           /\ \A u : HasShape(u) /\ Safe(u) /\ Moved(Vol, u, a, 1, o, n) /\ LiveOf(u) = {Put(o, n, b) : b \in LiveOf(Vol)}
                => \A w \in ToSet(Tail(k)) : w.op = "hi" \/ (w.op = "lo" /\ Away(u, w.where))
<1> DEFINE D == {i \in SlotsOf : blk[n][i].k = "dot"}
           R == KidWrites(a, n)
           A == {Write("lo", a, n), Write("hi", a, 0)}
           B == {Write("lo", find_dot_de(n), n), Write("hi", find_dot_de(n), 0)}
<1>1. HasShape(Vol) /\ a \in Places /\ Vol.blk = blk
  BY VolShape, LiveIn
<1>2. Ent(a).k \in {"file", "dir"}
  BY LiveWhere DEF Ent
<1>3. de_children_count(Ent(a)) \in Nat
  <2>1. fat_chain_count(Ent(a).cn) \in Nat
    BY CountNat
  <2>2. (Ent(a).sz + Bpc - 1) \div Bpc \in Nat
    <3>1. Ent(a).sz + Bpc - 1 \in Nat /\ Bpc \in Nat \ {0}
      BY <1>1, EntryAt, VfatConsts
    <3> QED BY <3>1, Parts
  <2>3. de_cluster_count(Ent(a)) \in Nat
    BY <2>1, <2>2 DEF de_cluster_count, file_cluster_count
  <2> QED BY <2>3, VfatConsts DEF de_children_count
<1>4. PICK x : x = write_de_cn(a, n)
  OBVIOUS
<1>5. x = <<Write("lo", a, n), Write("hi", a, 0)>>
  BY <1>4 DEF write_de_cn
<1>6. x \in Seq(A) /\ x # <<>> /\ Head(x) = Write("lo", a, n) /\ Tail(x) = <<Write("hi", a, 0)>>
  BY <1>5
<1>7. \A w \in ToSet(Tail(x)) : w.op = "hi"
  <2>1. PICK h : h = Write("hi", a, 0)
    OBVIOUS
  <2>2. h.op = "hi" /\ <<h>> \in Seq({h}) /\ Tail(x) = <<h>>
    BY <1>6, <2>1 DEF Write
  <2>3. PICK t : t = Tail(x)
    OBVIOUS
  <2>4. t \in Seq({h})
    BY <2>2, <2>3
  <2>5. ToSet(t) \subseteq {h}
    BY <2>4, InLog
  <2> QED BY <2>2, <2>3, <2>5
<1>0. \A w \in A \cup B \cup R : w.op \in {"lo", "hi"}
  BY DEF Write, KidWrites
<1>8. CASE Ent(a).k = "file"
  <2>1. k = x \o <<>>
    BY <1>4, <1>8, Zenon DEF block_rel_update_de, is_good_dir
  <2>2. k = x
    BY <1>6, <2>1
  <2>3. \A w \in ToSet(x) : w.op \in {"lo", "hi"}
    <3> HIDE DEF A
    <3> QED BY <1>0, <1>6, InLog
  <2> QED BY <1>6, <1>7, <2>2, <2>3
<1>9. CASE Ent(a).k = "dir"
  <2>1. PICK y : y = write_de_cn(find_dot_de(n), n)
    OBVIOUS
  <2>2. y \in Seq(B)
    <3>1. PICK d : d = find_dot_de(n)
      OBVIOUS
    <3>2. write_de_cn(d, n) \in Seq({Write("lo", d, n), Write("hi", d, 0)})
      BY DEF write_de_cn
    <3> QED BY <2>1, <3>1, <3>2
  <2>3. PICK z : z = write_fix_dotdot_n(a, n)
    OBVIOUS
  <2>4. z \in Seq(R)
    BY <1>3, <2>3, DotdotLog
  <2>5. k = x \o (y \o z)
    BY <1>4, <1>9, <2>1, <2>3, Zenon DEF block_rel_update_de, is_good_dir, write_fix_dir_refs
  <2> HIDE DEF A, B, R
  <2>6. x \in Seq(A \cup B \cup R) /\ y \in Seq(A \cup B \cup R) /\ z \in Seq(A \cup B \cup R)
    BY <1>6, <2>2, <2>4
  <2>7. PICK t : t = y \o z
    OBVIOUS
  <2>8. t \in Seq(A \cup B \cup R) /\ ToSet(t) = ToSet(y) \cup ToSet(z)
    BY <2>6, <2>7, InBoth
  <2>9. /\ k \in Seq(A \cup B \cup R) /\ k # <<>> /\ Head(k) = Head(x)
        /\ ToSet(Tail(k)) = ToSet(Tail(x)) \cup ToSet(t)
    <3>1. k = x \o t
      BY <2>5, <2>7
    <3> QED BY <1>6, <2>6, <2>8, <3>1, InBoth
  <2>10. ToSet(y) \subseteq B /\ ToSet(z) \subseteq R
    BY <2>2, <2>4, InLog
  <2>11. ASSUME NEW u, HasShape(u), Safe(u), Moved(Vol, u, a, 1, o, n), LiveOf(u) = {Put(o, n, b) : b \in LiveOf(Vol)},
                NEW w \in ToSet(Tail(k))
         PROVE  w.op = "hi" \/ (w.op = "lo" /\ Away(u, w.where))
    <3>1. CASE w \in ToSet(Tail(x))
      BY <1>7, <3>1
    <3>2. CASE w \in B
      <4>1. Away(u, find_dot_de(n))
        <5>1. PICK ch : ch = ClustersOf(Vol, a)
          OBVIOUS
        <5>2. blk[o][0].k = "dot"
          BY <1>1, <1>9, <5>1 DEF SoundOf, Safe, Dotted, Ent
        <5>3. 0 \in D
          BY <5>2, ContentConsts
        <5>4. PICK s : s = FirstSlot(D, 0)
          OBVIOUS
        <5>5. s \in D
          BY <5>3, <5>4, FirstSlotIs
        <5>6. PICK p : p = <<n, s>>
          OBVIOUS
        <5>7. find_dot_de(n) = p
          BY <5>4, <5>6, Zenon DEF find_dot_de
        <5>8. p \in Places /\ p # a /\ p[2] \in SlotsOf
          <6>1. p \in Places
            BY <5>5, <5>6 DEF Places
          <6>2. a[1] # n
            BY <1>1, HeldWhere, VfatConsts
          <6> QED BY <5>5, <5>6, <6>1, <6>2
        <5>9. Ent(p).k = "dot"
          BY <1>1, <5>5, <5>6, VfatConsts DEF Ent, EntOf
        <5>10. EntOf(u, p).k = "dot"
          BY <2>11, <5>8, <5>9 DEF Moved, Ent
        <5> QED BY <2>11, <5>7, <5>8, <5>10, AwayByKind DEF Safe
      <4> QED BY <3>2, <4>1 DEF B, Write
    <3>3. CASE w \in R
      <4>1. PICK m \in GoodKids(a) :
               w \in {Write("lo", find_dotdot_de(get_nth_de(Ent(a), m)), n), Write("hi", find_dotdot_de(get_nth_de(Ent(a), m)), 0)}
        BY <3>3, Zenon DEF R, KidWrites
      <4>2. PICK kd : kd = get_nth_de(Ent(a), m)
        OBVIOUS
      <4>3. /\ m \in 0 .. de_children_count(Ent(a)) - 1 /\ is_good_dir(Ent(kd))
            /\ w \in {Write("lo", find_dotdot_de(kd), n), Write("hi", find_dotdot_de(kd), 0)}
        BY <4>1, <4>2 DEF GoodKids
      <4>4. Away(u, find_dotdot_de(kd))
        BY <1>9, <2>11, <4>2, <4>3, KidAway
      <4> QED BY <4>3, <4>4 DEF Write
    <3> QED BY <2>8, <2>9, <2>10, <2>11, <3>1, <3>2, <3>3
  <2>12. \A w \in ToSet(k) : w.op \in {"lo", "hi"}
    BY <1>0, <2>9, InLog
  <2> QED BY <1>6, <2>9, <2>11, <2>12
<1> QED BY <1>2, <1>8, <1>9

(* The FAT writes of a relink are those of the copy's entry and, when a     *)
(* cluster goes before it, those of that one's entry.                       *)
WritesBoth(l, a, i, o, n) ==
    /\ FatSet(n, fats[0][o]) \subseteq ToSet(l)
    /\ i > 1 => FatSet(ClustersOf(Vol, a)[i - 1], n) \subseteq ToSet(l)
    /\ \A w \in ToSet(l) : w.op = "fat" =>
         w \in FatSet(n, fats[0][o]) \/ (i > 1 /\ w \in FatSet(ClustersOf(Vol, a)[i - 1], n))

LEMMA RelinkIs ==
    ASSUME DevOk, NEW a \in LiveOf(Vol), Safe(Vol), SoundOf(Vol),
           NEW i \in 1 .. Len(ClustersOf(Vol, a)), NEW o, o = ClustersOf(Vol, a)[i],
           NEW n \in Clus, n \notin Held(Vol), \A s \in SlotsOf : blk[n][s] = blk[o][s],
           NEW l, l = block_relink(a, i, n)
    PROVE  /\ get_nth_cnum(Ent(a), i) = o /\ o \in Clus /\ fats[0][o] \in Clus \cup {Eof}
           /\ \E S : l \in Seq(S)
           /\ l # <<>>
           /\ Head(l) = IF i = 1 THEN Write("lo", a, n) ELSE Write("fat", <<0, ClustersOf(Vol, a)[i - 1]>>, n)
           /\ Write("fat", <<0, n>>, fats[0][o]) \in ToSet(Tail(l))
           /\ WritesBoth(l, a, i, o, n)
           /\ \A u : HasShape(u) /\ Moved(Vol, u, a, i, o, n) =>
                \A w \in ToSet(Tail(l)) : Harmless(u, n, fats[0][o], w)
<1>1. HasShape(Vol) /\ a \in Places /\ Ent(a).cn \in Nums /\ Table(fats[0]) /\ Vol.fat = fats[0] /\ Vol.blk = blk
  <2>1. HasShape(Vol) /\ Vol.fat = fats[0] /\ Vol.blk = blk
    BY VolShape
  <2>2. a \in Places
    BY <2>1, LiveIn
  <2>3. Table(fats[0])
    BY VfatConsts DEF DevOk, FatsOk, Table
  <2> QED BY <2>1, <2>2, <2>3, EntryAt
<1>2. PICK p : p = ClustersOf(Vol, a)
  OBVIOUS
<1>3. p # <<>> /\ fats[0][Last(p)] = Eof
  BY <1>1, <1>2 DEF SoundOf
<1>4. Path(p, fats[0], Ent(a).cn)
  BY <1>1, <1>2, <1>3, CountSound
<1>5. p \in Seq(Clus) /\ Len(p) \in Nat /\ i \in 1 .. Len(p) /\ o = p[i] /\ i \in Nat
      /\ \A k \in 1 .. Len(p) - 1 : p[k + 1] = fats[0][p[k]]
  BY <1>2, <1>4 DEF Path
<1>6. get_nth_cnum(Ent(a), i) = o /\ o \in Clus /\ get_nth_cnum(Ent(a), i + 1) = fats[0][o]
  BY <1>1, <1>4, <1>5, NthOnPath DEF get_nth_cnum
<1>7. i > 1 => get_nth_cnum(Ent(a), i - 1) = p[i - 1]
  <2> SUFFICES ASSUME i > 1 PROVE get_nth_cnum(Ent(a), i - 1) = p[i - 1]
    OBVIOUS
  <2>1. i - 1 \in 1 .. Len(p)
    BY <1>5
  <2> QED BY <1>1, <1>4, <2>1, NthOnPath DEF get_nth_cnum
<1>8. fats[0][o] \in Clus \cup {Eof}
  <2>1. CASE i = Len(p)
    BY <1>3, <1>5, <2>1 DEF Last
  <2>2. CASE i # Len(p)
    <3>1. i \in 1 .. Len(p) - 1 /\ i + 1 \in 1 .. Len(p)
      BY <1>5, <2>2
    <3> QED BY <1>5, <3>1, ElementOfSeq
  <2> QED BY <2>1, <2>2
<1>9. PICK nx : nx = fats[0][o]
  OBVIOUS
<1>10. PICK y : y = write_fat(n, nx)
  OBVIOUS
<1> DEFINE Y == FatSet(n, nx)
<1>11. y \in Seq(Y) /\ ToSet(y) = Y
  BY <1>10, FatLog
<1>12. Write("fat", <<0, n>>, nx) \in ToSet(y)
  BY <1>11, VfatConsts DEF FatSet
<1>13. ASSUME NEW u, NEW w \in ToSet(y) PROVE Harmless(u, n, nx, w)
  <2>1. PICK m \in Copies : w = Write("fat", <<m, n>>, nx)
    BY <1>11, <1>13 DEF FatSet
  <2> QED BY <2>1 DEF Harmless, Write
<1> HIDE DEF Y
<1>14. ASSUME NEW u, HasShape(u), Moved(Vol, u, a, i, o, n)
       PROVE  Safe(u) /\ LiveOf(u) = {Put(o, n, b) : b \in LiveOf(Vol)}
  <2>1. Renames(Vol, u, o, n) /\ KeepsFiles(Vol, u, o, n)
    BY <1>1, <1>14, MovedKeeps
  <2> QED BY <1>1, <1>14, <2>1, LiveRenamed, SafeKept
<1>15. CASE i = 1
  <2>1. PICK k : k = block_rel_update_de(a, n)
    OBVIOUS
  <2>2. l = k \o y
    BY <1>6, <1>9, <1>10, <1>15, <2>1, Zenon DEF block_relink
  <2>3. /\ \E S : k \in Seq(S)
        /\ k # <<>> /\ Head(k) = Write("lo", a, n) /\ \A w \in ToSet(k) : w.op \in {"lo", "hi"}
        /\ \A u : HasShape(u) /\ Safe(u) /\ Moved(Vol, u, a, 1, o, n) /\ LiveOf(u) = {Put(o, n, b) : b \in LiveOf(Vol)}
             => \A w \in ToSet(Tail(k)) : w.op = "hi" \/ (w.op = "lo" /\ Away(u, w.where))
    BY <1>15, <2>1, UpdateLog
  <2>4. PICK S : k \in Seq(S)
    BY <2>3
  <2>5. k \in Seq(S \cup Y) /\ y \in Seq(S \cup Y)
    BY <1>11, <2>4
  <2>6. l \in Seq(S \cup Y) /\ l # <<>> /\ Head(l) = Head(k) /\ ToSet(Tail(l)) = ToSet(Tail(k)) \cup ToSet(y)
        /\ ToSet(l) = ToSet(k) \cup Y
    BY <1>11, <2>2, <2>3, <2>5, InBoth
  <2>7. ASSUME NEW u, HasShape(u), Moved(Vol, u, a, i, o, n), NEW w \in ToSet(Tail(l))
        PROVE  Harmless(u, n, nx, w)
    <3>1. CASE w \in ToSet(y)
      BY <1>13, <3>1
    <3>2. CASE w \in ToSet(Tail(k))
      BY <1>14, <1>15, <2>3, <2>7, <3>2 DEF Harmless
    <3> QED BY <2>6, <2>7, <3>1, <3>2
  <2>8. /\ Y \subseteq ToSet(l) /\ ~(i > 1)
        /\ \A w \in ToSet(l) : w.op = "fat" => w \in Y
    BY <1>15, <2>3, <2>6
  <2>9. WritesBoth(l, a, i, o, n)
    BY <1>9, <2>8 DEF WritesBoth, Y
  <2> QED BY <1>6, <1>8, <1>9, <1>12, <1>15, <2>3, <2>6, <2>7, <2>9
<1>16. CASE i # 1
  <2>1. PICK c : c = p[i - 1]
    OBVIOUS
  <2>2. PICK k : k = write_fat(c, n)
    OBVIOUS
  <2>3. l = k \o y
    <3>1. get_nth_cnum(Ent(a), i - 1) = c
      BY <1>5, <1>7, <1>16, <2>1
    <3> QED BY <1>6, <1>9, <1>10, <1>16, <2>2, <3>1, Zenon DEF block_relink
  <2> DEFINE S == FatSet(c, n)
  <2>4. /\ k \in Seq(S) /\ k # <<>> /\ Head(k) = Write("fat", <<0, c>>, n)
        /\ \A w \in ToSet(Tail(k)) : w.op = "fat" /\ w.where[1] # 0
        /\ ToSet(k) = S
    BY <2>2, FatLog
  <2> HIDE DEF S
  <2>5. k \in Seq(S \cup Y) /\ y \in Seq(S \cup Y)
    BY <1>11, <2>4
  <2>6. l \in Seq(S \cup Y) /\ l # <<>> /\ Head(l) = Head(k) /\ ToSet(Tail(l)) = ToSet(Tail(k)) \cup ToSet(y)
        /\ ToSet(l) = ToSet(k) \cup Y
    BY <1>11, <2>3, <2>4, <2>5, InBoth
  <2>7. ASSUME NEW u, NEW w \in ToSet(Tail(l))
        PROVE  Harmless(u, n, nx, w)
    <3>1. CASE w \in ToSet(y)
      BY <1>13, <3>1
    <3>2. CASE w \in ToSet(Tail(k))
      BY <2>4, <3>2 DEF Harmless
    <3> QED BY <2>6, <2>7, <3>1, <3>2
  <2>8. /\ Y \subseteq ToSet(l) /\ S \subseteq ToSet(l) /\ i > 1
        /\ \A w \in ToSet(l) : w \in Y \/ w \in S
    BY <1>5, <1>16, <2>4, <2>6
  <2>9. WritesBoth(l, a, i, o, n)
    BY <1>2, <1>9, <2>1, <2>8 DEF WritesBoth, S, Y
  <2> QED BY <1>2, <1>6, <1>8, <1>9, <1>12, <1>16, <2>1, <2>4, <2>6, <2>7, <2>9
<1> QED BY <1>15, <1>16

-----------------------------------------------------------------------------
(* What one write does to the volume a reader finds. *)
LoOf(v, u, p, c) ==
    /\ u.fat = v.fat
    /\ \A x \in Places :
          EntOf(u, x) = IF x[1] = p[1] /\ x[2] = p[2] THEN [EntOf(v, x) EXCEPT !.cn = c] ELSE EntOf(v, x)
Aim(v, n, x) == [fat |-> [v.fat EXCEPT ![n] = x], root |-> v.root, blk |-> v.blk]

Wrote(v, u, w) ==
    /\ w.op = "hi" \/ (w.op = "fat" /\ w.where[1] # 0) => u = v
    /\ \A c \in Cells : w.op = "fat" /\ w.where = <<0, c>> => u = Aim(v, c, w.val)
    /\ w.op = "lo" => LoOf(v, u, w.where, w.val)

LEMMA ApplyVol ==
    ASSUME DevOk, NEW w, Apply(w)
    PROVE  Wrote(Vol, Vol', w)
<1>1. fats = [n \in Copies |-> fats[n]] /\ 0 \in Copies
  BY VfatConsts DEF DevOk, FatsOk
<1>2. CASE w.op = "hi"
  BY <1>2 DEF Apply, Vol, Wrote
<1>3. CASE w.op = "fat"
  <2>1. fats' = [fats EXCEPT ![w.where[1]][w.where[2]] = w.val] /\ root' = root /\ blk' = blk
    BY <1>3 DEF Apply
  <2>2. CASE w.where[1] # 0
    <3>1. fats'[0] = fats[0]
      BY <1>1, <2>1, <2>2
    <3>2. \A c : w.where # <<0, c>>
      BY <2>2
    <3>3. Vol' = Vol
      BY <2>1, <3>1 DEF Vol
    <3> QED BY <1>3, <3>2, <3>3 DEF Wrote
  <2>3. ASSUME NEW c \in Cells, w.where = <<0, c>> PROVE Vol' = Aim(Vol, c, w.val)
    <3>1. fats'[0] = [fats[0] EXCEPT ![c] = w.val]
      BY <1>1, <2>1, <2>3
    <3> QED BY <2>1, <3>1 DEF Vol, Aim
  <2> QED BY <1>3, <2>2, <2>3 DEF Wrote
<1>4. CASE w.op = "lo"
  <2>1. PICK i, s, c : i = w.where[1] /\ s = w.where[2] /\ c = w.val
    OBVIOUS
  <2>2. /\ fats' = fats
        /\ root' = IF i = 0 THEN [root EXCEPT ![s] = [root[s] EXCEPT !.cn = c]] ELSE root
        /\ blk' = IF i # 0 THEN [blk EXCEPT ![i] = [blk[i] EXCEPT ![s] = [blk[i][s] EXCEPT !.cn = c]]] ELSE blk
    BY <1>4, <2>1 DEF Apply
  <2>3. /\ root = [y \in 0 .. RootC - 1 |-> root[y]]
        /\ blk = [b \in Clus |-> [y \in SlotsOf |-> blk[b][y]]]
    BY DEF DevOk, RootOk, BlkOk
  <2>4. ASSUME NEW y \in 0 .. RootC - 1
        PROVE  root'[y] = IF 0 = i /\ y = s THEN [root[y] EXCEPT !.cn = c] ELSE root[y]
    BY <2>2, <2>3
  <2>5. ASSUME NEW b \in Clus, NEW y \in SlotsOf
        PROVE  blk'[b][y] = IF b = i /\ y = s THEN [blk[b][y] EXCEPT !.cn = c] ELSE blk[b][y]
    <3>1. b # 0
      BY VfatConsts
    <3>2. CASE i = b
      <4>1. blk'[b] = [blk[b] EXCEPT ![s] = [blk[b][s] EXCEPT !.cn = c]]
        BY <2>2, <2>3, <3>1, <3>2
      <4>2. blk[b] = [z \in SlotsOf |-> blk[b][z]]
        BY <2>3
      <4> QED BY <3>2, <4>1, <4>2
    <3>3. CASE i # b
      BY <2>2, <2>3, <3>3
    <3> QED BY <3>2, <3>3
  <2>6. ASSUME NEW x \in Places
        PROVE  EntOf(Vol', x) = IF x[1] = i /\ x[2] = s THEN [EntOf(Vol, x) EXCEPT !.cn = c] ELSE EntOf(Vol, x)
    <3>1. CASE x \in {0} \X (0 .. RootC - 1)
      BY <2>4, <3>1 DEF EntOf, Vol
    <3>2. CASE x \in Clus \X SlotsOf
      <4>1. x[1] \in Clus /\ x[1] # 0 /\ x[2] \in SlotsOf
        BY <3>2, VfatConsts
      <4> QED BY <2>5, <4>1 DEF EntOf, Vol
    <3> QED BY <3>1, <3>2 DEF Places
  <2>7. Vol'.fat = Vol.fat
    BY <2>2 DEF Vol
  <2> QED BY <1>4, <2>1, <2>6, <2>7 DEF LoOf, Wrote
<1> QED BY <1>2, <1>3, <1>4 DEF Wrote

(* A volume with a number in its table. *)
LEMMA AimShape ==
    ASSUME NEW v, HasShape(v), NEW n \in Clus \cup Cells, NEW x \in Nums
    PROVE  /\ HasShape(Aim(v, n, x))
           /\ Aim(v, n, x).root = v.root /\ Aim(v, n, x).blk = v.blk
           /\ \A c \in Cells : Aim(v, n, x).fat[c] = IF c = n THEN x ELSE v.fat[c]
           /\ \A a : EntOf(Aim(v, n, x), a) = EntOf(v, a)
<1>1. PICK t : t = Aim(v, n, x)
  OBVIOUS
<1>2. t.root = v.root /\ t.blk = v.blk /\ t.fat = [v.fat EXCEPT ![n] = x]
  BY <1>1 DEF Aim
<1>3. v.fat \in [Cells -> 0 .. Eof] /\ n \in Cells /\ x \in 0 .. Eof
  BY VfatConsts DEF HasShape, Nums
<1>4. t.fat \in [Cells -> 0 .. Eof] /\ \A c \in Cells : t.fat[c] = IF c = n THEN x ELSE v.fat[c]
  BY <1>2, <1>3
<1>5. HasShape(t)
  BY <1>2, <1>4 DEF HasShape
<1>6. \A a : EntOf(t, a) = EntOf(v, a)
  BY <1>2 DEF EntOf
<1> QED BY <1>1, <1>2, <1>4, <1>5, <1>6

(* Writes beside the files. *)
LEMMA LoBeside ==
    ASSUME NEW v, NEW u, HasShape(v), HasShape(u), NEW p, NEW c, LoOf(v, u, p, c), Away(v, p)
    PROVE  Beside(v, u)
<1>1. ASSUME NEW x \in Places PROVE EntOf(u, x).k = EntOf(v, x).k
  <2>1. IsEntry(EntOf(v, x))
    BY EntryOf
  <2>2. EntOf(v, x) = [k |-> EntOf(v, x).k, nm |-> EntOf(v, x).nm, cn |-> EntOf(v, x).cn, sz |-> EntOf(v, x).sz]
    BY <2>1 DEF IsEntry
  <2> QED BY <2>2 DEF LoOf
<1>2. \A a \in LiveOf(v) : EntOf(u, a) = EntOf(v, a)
  <2>1. \A a \in LiveOf(v) : a \in Places
    BY LiveIn
  <2> QED BY <2>1 DEF LoOf, Away
<1>3. ASSUME NEW s \in 0 .. RootC - 1 PROVE u.root[s].k = v.root[s].k
  <2>1. PICK x : x = <<0, s>>
    OBVIOUS
  <2>2. x \in Places /\ EntOf(u, x) = u.root[s] /\ EntOf(v, x) = v.root[s]
    BY <2>1 DEF Places, EntOf
  <2> QED BY <1>1, <2>2
<1>4. ASSUME NEW b \in Clus, NEW s \in SlotsOf
      PROVE  /\ u.blk[b][s].k = v.blk[b][s].k
             /\ b # p[1] => u.blk[b][s] = v.blk[b][s]
  <2>1. PICK x : x = <<b, s>>
    OBVIOUS
  <2>2. x \in Places /\ EntOf(u, x) = u.blk[b][s] /\ EntOf(v, x) = v.blk[b][s] /\ x[1] = b
    BY <2>1, VfatConsts DEF Places, EntOf
  <2> QED BY <1>1, <2>2 DEF LoOf
<1>5. \A a \in LiveOf(v) : ToSet(ClustersOf(v, a)) \subseteq Clus
  BY HeldWhere
<1>6. \A a \in LiveOf(v) : EntOf(v, a).k = "file" =>
          \A b \in ToSet(ClustersOf(v, a)), s \in SlotsOf : u.blk[b][s] = v.blk[b][s]
  BY <1>4, <1>5 DEF Away
<1> QED BY <1>2, <1>3, <1>4, <1>5, <1>6 DEF Beside, LoOf

LEMMA CellBeside ==
    ASSUME NEW v, HasShape(v), NEW n \in Clus, n \notin Held(v), NEW x \in Nums
    PROVE  Beside(v, Aim(v, n, x))
<1>1. PICK t : t = Aim(v, n, x)
  OBVIOUS
<1>2. /\ t.root = v.root /\ t.blk = v.blk
      /\ \A c \in Cells : t.fat[c] = IF c = n THEN x ELSE v.fat[c]
      /\ \A a : EntOf(t, a) = EntOf(v, a)
  BY <1>1, AimShape
<1>3. \A c \in Held(v) : c \in Cells /\ c # n
  BY HeldWhere, VfatConsts
<1>4. Beside(v, t)
  BY <1>2, <1>3 DEF Beside
<1> QED BY <1>1, <1>4

LEMMA AwayBeside ==
    ASSUME NEW v, NEW u, HasShape(v), HasShape(u), Beside(v, u), NEW p, Away(v, p)
    PROVE  Away(u, p)
<1>1. LiveOf(u) = LiveOf(v)
  BY BesideSame
<1>2. \A a \in LiveOf(v) : ClustersOf(u, a) = ClustersOf(v, a) /\ EntOf(u, a) = EntOf(v, a)
  BY BesideSame
<1> QED BY <1>1, <1>2 DEF Away

(* The files as they were wanted, or safe at least. *)
WholeAs(v, x) == SoundOf(v) /\ Fits(v) /\ NamesOf(v) = Wanted(x)
Keeps(v, h, x) == Safe(v) /\ (h \/ WholeAs(v, x))

LEMMA KeepsBeside ==
    ASSUME NEW v, NEW u, HasShape(v), HasShape(u), Beside(v, u), NEW h, NEW x, Keeps(v, h, x)
    PROVE  Keeps(u, h, x)
<1>1. /\ Safe(v) => Safe(u)
      /\ SoundOf(v) => SoundOf(u)
      /\ Fits(v) => Fits(u)
      /\ NamesOf(u) = NamesOf(v)
  BY BesideSame
<1> QED BY <1>1 DEF Keeps, WholeAs

LEMMA KeepsMoved ==
    ASSUME NEW v, NEW u, HasShape(v), HasShape(u), NEW o, NEW n, Renames(v, u, o, n), KeepsFiles(v, u, o, n),
           KeepsEnds(v, u, o, n), NEW h, NEW x, Keeps(v, h, x)
    PROVE  Keeps(u, h, x) /\ (SoundOf(v) => SoundOf(u))
<1>1. Safe(u)
  BY SafeKept DEF Keeps
<1>2. /\ SoundOf(v) => SoundOf(u)
      /\ Fits(v) => Fits(u)
      /\ NamesOf(u) = NamesOf(v)
  BY WholeKept
<1> QED BY <1>1, <1>2 DEF Keeps, WholeAs

(* A relocation: before the copy, with the copy, with the packet that is   *)
(* to link it in, and with the pointer to it written.  Aim(v, n, nx) is    *)
(* then the volume the relocation leads to.                                *)
IsLog(l) == \E S : l \in Seq(S)

Pre(v, a, i, n, h, x) ==
    /\ Keeps(v, h, x) /\ SoundOf(v)
    /\ a \in LiveOf(v) /\ i \in 1 .. Len(ClustersOf(v, a))
    /\ n \in Clus /\ n \notin Held(v)

HasCopy(v, a, i, n) ==
    /\ v.fat[n] = Bad
    /\ \A s \in SlotsOf : v.blk[n][s] = v.blk[ClustersOf(v, a)[i]][s]

Ready(v, a, i, n, o, l, r) ==
    /\ o = ClustersOf(v, a)[i] /\ v.fat[o] \in Clus \cup {Eof} /\ r = write_fat(o, FAT_ENT_FREE)
    /\ IsLog(l) /\ l # <<>>
    /\ Head(l) = IF i = 1 THEN Write("lo", a, n) ELSE Write("fat", <<0, ClustersOf(v, a)[i - 1]>>, n)
    /\ Write("fat", <<0, n>>, v.fat[o]) \in ToSet(Tail(l))
    /\ \A u : HasShape(u) /\ Moved(v, u, a, i, o, n) => \A w \in ToSet(Tail(l)) : Harmless(u, n, v.fat[o], w)

Arrives(t, a, i, n, o, h, x) ==
    /\ Keeps(t, h, x) /\ SoundOf(t) /\ o \in Clus /\ o \notin Held(t) /\ n \in Clus
    /\ a \in LiveOf(t) /\ i \in 1 .. Len(ClustersOf(t, a)) /\ ClustersOf(t, a)[i] = n

Linked(v, a, i, n, nx, o, l, r, h, x) ==
    /\ nx \in Clus \cup {Eof} /\ n \in Clus /\ r = write_fat(o, FAT_ENT_FREE)
    /\ Arrives(Aim(v, n, nx), a, i, n, o, h, x)
    /\ v.fat[n] = nx \/ (v.fat[n] = Bad /\ Write("fat", <<0, n>>, nx) \in ToSet(l))
    /\ IsLog(l) /\ \A w \in ToSet(l) : Harmless(Aim(v, n, nx), n, nx, w)

(* The first write of the packet links the copy in. *)
LEMMA ReadyLinks ==
    ASSUME NEW v, NEW u, HasShape(v), HasShape(u), NEW a, NEW i, NEW n, NEW o, NEW l, NEW r, NEW h, NEW x,
           Pre(v, a, i, n, h, x), HasCopy(v, a, i, n), Ready(v, a, i, n, o, l, r), Wrote(v, u, Head(l))
    PROVE  Linked(u, a, i, n, v.fat[o], o, Tail(l), r, h, x) /\ Moved(v, Aim(u, n, v.fat[o]), a, i, o, n)
<1>1. PICK p : p = ClustersOf(v, a)
  OBVIOUS
<1>2. /\ a \in Places /\ a \in LiveOf(v) /\ p \in Seq(Clus) /\ i \in 1 .. Len(p) /\ Len(p) \in Nat /\ i \in Nat /\ o = p[i]
      /\ n \in Clus /\ n \notin Held(v) /\ Safe(v) /\ SoundOf(v)
  <2>1. a \in Places /\ a \in LiveOf(v)
    BY LiveIn DEF Pre
  <2>2. p \in Seq(Clus)
    BY <1>1, <2>1, ClustersIs
  <2> QED BY <1>1, <2>1, <2>2 DEF Pre, Keeps, Ready
<1>3. PICK nx : nx = v.fat[o]
  OBVIOUS
<1>4. nx \in Clus \cup {Eof} /\ nx \in Nums
  BY <1>3, VfatConsts DEF Ready
<1>5. PICK t : t = Aim(u, n, nx)
  OBVIOUS
<1>6. /\ HasShape(t) /\ \A b : EntOf(t, b) = EntOf(u, b)
      /\ t.blk = u.blk /\ \A c \in Cells : t.fat[c] = IF c = n THEN nx ELSE u.fat[c]
  <2>1. n \in Clus \cup Cells
    BY <1>2
  <2> QED BY <1>4, <1>5, <2>1, AimShape
<1>7. Moved(v, t, a, i, o, n) /\ u.fat[n] = Bad
  <2>1. CASE i = 1
    <3>1. PICK w : w = Head(l)
      OBVIOUS
    <3>2. w.op = "lo" /\ w.where = a /\ w.val = n
      BY <2>1, <3>1 DEF Ready, Write
    <3>3. LoOf(v, u, a, n)
      BY <3>1, <3>2 DEF Wrote
    <3>4. \A b \in Places : b[1] = a[1] /\ b[2] = a[2] <=> b = a
      BY <1>2 DEF Places
    <3>5. \A b \in Places : EntOf(t, b) = IF b = a THEN [EntOf(v, a) EXCEPT !.cn = n] ELSE EntOf(v, b)
      BY <1>6, <3>3, <3>4 DEF LoOf
    <3>6. \A c \in Clus : t.fat[c] = IF c = n THEN v.fat[o] ELSE v.fat[c]
      BY <1>3, <1>6, <3>3, VfatConsts DEF LoOf
    <3> QED BY <2>1, <3>3, <3>5, <3>6 DEF Moved, LoOf, HasCopy
  <2>2. CASE i # 1
    <3>1. PICK w, c : w = Head(l) /\ c = p[i - 1]
      OBVIOUS
    <3>2. i - 1 \in 1 .. Len(p) /\ i > 1
      BY <1>2, <2>2
    <3>3. c \in Clus /\ c \in ToSet(p)
      BY <1>2, <3>1, <3>2, ElementOfSeq DEF ToSet
    <3>4. c # n /\ c \in Cells
      BY <1>1, <1>2, <3>3, VfatConsts DEF Held
    <3>5. w.op = "fat" /\ w.where = <<0, c>> /\ w.val = n
      BY <1>1, <2>2, <3>1 DEF Ready, Write
    <3>6. u = Aim(v, c, n)
      BY <3>1, <3>4, <3>5 DEF Wrote
    <3>7. /\ \A b : EntOf(u, b) = EntOf(v, b)
          /\ \A y \in Cells : u.fat[y] = IF y = c THEN n ELSE v.fat[y]
      <4>1. n \in Nums
        BY <1>2, VfatConsts
      <4> QED BY <3>3, <3>6, <4>1, AimShape
    <3>8. \A y \in Clus : t.fat[y] = IF y = n THEN v.fat[o] ELSE IF y = c THEN n ELSE v.fat[y]
      BY <1>3, <1>6, <3>7, VfatConsts
    <3>9. u.fat[n] = Bad
      BY <1>2, <3>4, <3>7, VfatConsts DEF HasCopy
    <3> QED BY <1>1, <1>6, <2>2, <3>1, <3>2, <3>7, <3>8, <3>9 DEF Moved
  <2> QED BY <2>1, <2>2
<1>8. \A s \in SlotsOf : v.blk[n][s] = v.blk[o][s]
  BY <1>1, <1>2 DEF HasCopy
<1>9. /\ Renames(v, t, o, n) /\ KeepsFiles(v, t, o, n) /\ KeepsEnds(v, t, o, n)
      /\ Put(o, n, a) = a /\ ClustersOf(t, a)[i] = n /\ o \in Held(v) /\ o # n
      /\ Len(ClustersOf(t, a)) = Len(p)
  BY <1>1, <1>2, <1>6, <1>7, <1>8, MovedKeeps
<1>10. Keeps(t, h, x) /\ SoundOf(t)
  BY <1>2, <1>6, <1>9, KeepsMoved DEF Pre
<1>11. o \notin Held(t)
  <2>1. Held(t) = {Sub(o, n, c) : c \in Held(v)}
    BY <1>6, <1>9, HeldRenamed
  <2> QED BY <1>9, <2>1 DEF Sub
<1>12. a \in LiveOf(t)
  <2>1. LiveOf(t) = {Put(o, n, b) : b \in LiveOf(v)}
    BY <1>6, <1>9, LiveRenamed
  <2> QED BY <1>2, <1>9, <2>1
<1>13. Arrives(t, a, i, n, o, h, x)
  <2>1. o \in Clus
    BY <1>9, HeldWhere
  <2> QED BY <1>2, <1>9, <1>10, <1>11, <1>12, <2>1 DEF Arrives
<1>14. PICK k : k = Tail(l)
  OBVIOUS
<1>15. IsLog(k)
  <2>1. PICK S : l \in Seq(S)
    BY DEF Ready, IsLog
  <2>2. k \in Seq(S)
    BY <1>14, <2>1, InLog DEF Ready
  <2> QED BY <2>2 DEF IsLog
<1>16. \A w \in ToSet(k) : Harmless(t, n, nx, w)
  BY <1>3, <1>6, <1>7, <1>14 DEF Ready
<1>17. Write("fat", <<0, n>>, nx) \in ToSet(k) /\ r = write_fat(o, FAT_ENT_FREE)
  BY <1>3, <1>14 DEF Ready
<1> QED BY <1>2, <1>3, <1>4, <1>5, <1>7, <1>13, <1>14, <1>15, <1>16, <1>17 DEF Linked

(* The others are harmless. *)
LEMMA LinkedStays ==
    ASSUME NEW v, NEW u, HasShape(v), HasShape(u),
           NEW a, NEW i, NEW n, NEW nx, NEW o, NEW l, NEW r, NEW h, NEW x,
           Linked(v, a, i, n, nx, o, l, r, h, x), l # <<>>, Wrote(v, u, Head(l))
    PROVE  Linked(u, a, i, n, nx, o, Tail(l), r, h, x)
<1>1. PICK w, k : w = Head(l) /\ k = Tail(l)
  OBVIOUS
<1>2. IsLog(k) /\ w \in ToSet(l) /\ ToSet(l) = {w} \cup ToSet(k)
  <2>1. PICK S : l \in Seq(S)
    BY DEF Linked, IsLog
  <2>2. k \in Seq(S) /\ ToSet(l) = {w} \cup ToSet(k)
    BY <1>1, <2>1, InLog
  <2> QED BY <2>2 DEF IsLog
<1>3. PICK t, y : t = Aim(v, n, nx) /\ y = Aim(u, n, nx)
  OBVIOUS
<1>4. n \in Clus /\ n \in Cells /\ nx \in Nums /\ nx \in Clus \cup {Eof} /\ r = write_fat(o, FAT_ENT_FREE)
  BY VfatConsts DEF Linked
<1>5. HasShape(t) /\ HasShape(y)
  BY <1>3, <1>4, AimShape
<1>6. /\ Arrives(t, a, i, n, o, h, x) /\ Harmless(t, n, nx, w) /\ \A z \in ToSet(k) : Harmless(t, n, nx, z)
      /\ v.fat[n] = nx \/ (v.fat[n] = Bad /\ Write("fat", <<0, n>>, nx) \in ToSet(l))
  BY <1>2, <1>3 DEF Linked
<1>7. CASE w.op = "hi" \/ (w.op = "fat" /\ w.where[1] # 0)
  <2>1. u = v
    BY <1>1, <1>7 DEF Wrote
  <2>2. w # Write("fat", <<0, n>>, nx)
    BY <1>7 DEF Write
  <2>3. Linked(u, a, i, n, nx, o, k, r, h, x)
    BY <1>2, <1>3, <1>4, <1>6, <2>1, <2>2 DEF Linked
  <2> QED BY <1>1, <2>3
<1>8. CASE w.op = "fat" /\ w.where = <<0, n>> /\ w.val = nx
  <2>1. u = t
    BY <1>1, <1>3, <1>4, <1>8 DEF Wrote
  <2>2. t.fat = [v.fat EXCEPT ![n] = nx] /\ t.root = v.root /\ t.blk = v.blk
    BY <1>3 DEF Aim
  <2>3. v.fat \in [Cells -> 0 .. Eof]
    BY DEF HasShape
  <2>4. t.fat[n] = nx /\ [t.fat EXCEPT ![n] = nx] = t.fat
    BY <1>4, <2>2, <2>3
  <2>5. y = t
    BY <1>3, <2>1, <2>2, <2>4 DEF Aim
  <2>6. Linked(u, a, i, n, nx, o, k, r, h, x)
    BY <1>2, <1>3, <1>4, <1>6, <2>1, <2>4, <2>5 DEF Linked
  <2> QED BY <1>1, <2>6
<1>9. CASE w.op = "lo" /\ Away(t, w.where)
  <2>1. LoOf(v, u, w.where, w.val)
    BY <1>1, <1>9 DEF Wrote
  <2>2. LoOf(t, y, w.where, w.val)
    <3>1. u.fat = v.fat
      BY <2>1 DEF LoOf
    <3>2. y.fat = t.fat
      BY <1>3, <3>1 DEF Aim
    <3>3. (\A b : EntOf(t, b) = EntOf(v, b)) /\ (\A b : EntOf(y, b) = EntOf(u, b))
      BY <1>3, <1>4, AimShape
    <3> QED BY <2>1, <3>2, <3>3 DEF LoOf
  <2>3. Beside(t, y)
    BY <1>5, <1>9, <2>2, LoBeside
  <2>4. LiveOf(y) = LiveOf(t) /\ Held(y) = Held(t) /\ (SoundOf(t) => SoundOf(y))
    BY <1>5, <2>3, BesideSame
  <2>5. \A b \in LiveOf(t) : ClustersOf(y, b) = ClustersOf(t, b)
    BY <1>5, <2>3, BesideSame
  <2>6. Keeps(t, h, x) => Keeps(y, h, x)
    BY <1>5, <2>3, KeepsBeside
  <2>7. Arrives(y, a, i, n, o, h, x)
    BY <1>6, <2>4, <2>5, <2>6 DEF Arrives
  <2>8. \A z \in ToSet(k) : Harmless(y, n, nx, z)
    <3>1. \A z \in ToSet(k) : Away(t, z.where) => Away(y, z.where)
      BY <1>5, <2>3, AwayBeside
    <3> QED BY <1>6, <3>1 DEF Harmless
  <2>9. w # Write("fat", <<0, n>>, nx) /\ u.fat = v.fat
    BY <1>9, <2>1 DEF Write, LoOf
  <2>10. Linked(u, a, i, n, nx, o, k, r, h, x)
    BY <1>2, <1>3, <1>4, <1>6, <2>7, <2>8, <2>9 DEF Linked
  <2> QED BY <1>1, <2>10
<1> QED BY <1>6, <1>7, <1>8, <1>9 DEF Harmless

(* At the end of the packet the volume is the one it leads to, ... *)
LEMMA LinkedDone ==
    ASSUME NEW v, HasShape(v),
           NEW a, NEW i, NEW n, NEW nx, NEW o, NEW l, NEW r, NEW h, NEW x,
           Linked(v, a, i, n, nx, o, l, r, h, x), v.fat[n] = nx \/ l = <<>>, v = [fat |-> v.fat, root |-> v.root, blk |-> v.blk]
    PROVE  Keeps(v, h, x) /\ o \in Clus /\ o \notin Held(v)
<1>1. v.fat[n] = nx
  <2>1. ASSUME l = <<>> PROVE v.fat[n] = nx
    <3>1. ToSet(l) = {}
      BY <2>1 DEF ToSet
    <3> QED BY <3>1 DEF Linked
  <2> QED BY <2>1
<1>2. v.fat \in [Cells -> 0 .. Eof] /\ n \in Cells
  BY VfatConsts DEF HasShape, Linked
<1>3. [v.fat EXCEPT ![n] = nx] = v.fat
  BY <1>1, <1>2
<1>4. Aim(v, n, nx) = v
  BY <1>3 DEF Aim
<1> QED BY <1>4 DEF Linked, Arrives

(* ... and until then its chains are cut where the new cluster is. *)
LEMMA LinkedSafe ==
    ASSUME NEW v, HasShape(v),
           NEW a, NEW i, NEW n, NEW nx, NEW o, NEW l, NEW r, NEW h, NEW x,
           Linked(v, a, i, n, nx, o, l, r, h, x), v.fat[n] = Bad
    PROVE  Safe(v)
<1>1. PICK t : t = Aim(v, n, nx)
  OBVIOUS
<1>2. n \in Clus /\ nx \in Nums /\ Safe(t)
  BY <1>1, VfatConsts DEF Linked, Arrives, Keeps
<1>3. /\ HasShape(t) /\ t.root = v.root /\ t.blk = v.blk
      /\ \A c \in Cells : t.fat[c] = IF c = n THEN nx ELSE v.fat[c]
  BY <1>1, <1>2, AimShape
<1>4. CutAt(t, v, n)
  BY <1>2, <1>3, VfatConsts DEF CutAt
<1> QED BY <1>2, <1>3, <1>4, CutSafe

LEMMA LinkedCut ==
    ASSUME DevOk, NEW a, NEW i, NEW n, NEW nx, NEW o, NEW l, NEW r, NEW h, NEW x,
           Linked(Vol, a, i, n, nx, o, l, r, h, x)
    PROVE  n = IF i = 1 THEN Ent(a).cn ELSE fat_next(get_nth_cnum(Ent(a), i - 1))
<1>1. PICK t : t = Aim(Vol, n, nx)
  OBVIOUS
<1>2. HasShape(Vol) /\ Vol.fat = fats[0] /\ n \in Clus /\ nx \in Nums /\ Table(fats[0])
  <2>1. Table(fats[0])
    BY VfatConsts DEF DevOk, FatsOk, Table
  <2> QED BY <2>1, VolShape, VfatConsts DEF Linked
<1>3. /\ HasShape(t) /\ \A b : EntOf(t, b) = Ent(b)
      /\ \A c \in Cells : t.fat[c] = IF c = n THEN nx ELSE fats[0][c]
  BY <1>1, <1>2, AimShape DEF Ent
<1>4. PICK p : p = ClustersOf(t, a)
  OBVIOUS
<1>5. a \in LiveOf(t) /\ i \in 1 .. Len(p) /\ p[i] = n /\ p # <<>> /\ t.fat[Last(p)] = Eof
  BY <1>1, <1>4 DEF Linked, Arrives, SoundOf
<1>6. a \in Places /\ Ent(a).cn \in Nums /\ Path(p, t.fat, Ent(a).cn)
  <2>1. a \in Places
    BY <1>3, <1>5, LiveIn
  <2>2. IsChain(p, t.fat, Ent(a).cn)
    BY <1>3, <1>4, <2>1, ClustersIs
  <2> QED BY <2>1, <2>2, EntryAt DEF IsChain
<1>7. /\ p \in Seq(Clus) /\ Len(p) \in Nat /\ p[1] = Ent(a).cn
      /\ \A k \in 1 .. Len(p) - 1 : p[k + 1] = t.fat[p[k]]
  BY <1>5, <1>6 DEF Path
<1>8. CASE i = 1
  BY <1>5, <1>7, <1>8
<1>9. CASE i # 1
  <2>1. i \in Nat /\ i > 1 /\ i <= Len(p)
    BY <1>5, <1>7, <1>9
  <2>2. PICK q : q = [k \in 1 .. i - 1 |-> p[k]]
    OBVIOUS
  <2>3. \A k \in 1 .. i - 1 : k \in 1 .. Len(p) /\ p[k] \in Clus
    BY <1>7, <2>1, ElementOfSeq
  <2>4. q \in Seq(Clus) /\ Len(q) = i - 1
    <3>1. i - 1 \in Nat
      BY <2>1
    <3>2. q \in [1 .. i - 1 -> Clus]
      BY <2>2, <2>3
    <3> QED BY <3>1, <3>2
  <2>5. ASSUME NEW k \in 1 .. i - 1 PROVE p[k + 1] = fats[0][p[k]] /\ p[k] \in Cells
    <3>1. k \in 1 .. Len(p) - 1 /\ k # i /\ k \in 1 .. Len(p) /\ p[k] \in Cells
      BY <2>1, <2>3, VfatConsts
    <3>2. p[k] # n
      BY <1>5, <1>6, <3>1, NoRepeat
    <3> QED BY <1>3, <1>7, <3>1, <3>2
  <2>6. Path(q, fats[0], Ent(a).cn)
    <3>1. 1 \in 1 .. i - 1
      BY <2>1
    <3>2. q[1] = Ent(a).cn
      BY <1>7, <2>2, <3>1
    <3>3. \A k \in 1 .. (i - 1) - 1 : q[k + 1] = fats[0][q[k]]
      <4>1. TAKE k \in 1 .. (i - 1) - 1
      <4>2. k \in 1 .. i - 1 /\ k + 1 \in 1 .. i - 1
        BY <2>1
      <4> QED BY <2>2, <2>5, <4>2
    <3> QED BY <2>4, <3>2, <3>3 DEF Path
  <2>7. i - 1 \in 1 .. Len(q) /\ q[i - 1] = p[i - 1] /\ i - 1 \in 1 .. i - 1 /\ (i - 1) + 1 = i
    BY <2>1, <2>2, <2>4
  <2>8. get_nth_cnum(Ent(a), i - 1) = p[i - 1]
    BY <1>2, <1>6, <2>6, <2>7, NthOnPath DEF get_nth_cnum
  <2>9. p[i] = fats[0][p[i - 1]] /\ p[i - 1] \in Cells
    BY <2>5, <2>7
  <2> QED BY <1>5, <1>9, <2>8, <2>9 DEF fat_next
<1> QED BY <1>8, <1>9

(* A number outside the volume is behind the end of a chain, or on none. *)
LEMMA RepairKeeps ==
    ASSUME NEW v, HasShape(v), NEW c \in Cells, cluster_bad_range(v.fat[c]), NEW h, NEW x, Keeps(v, h, x)
    PROVE  Keeps(Aim(v, c, Eof), h, x) /\ Renames(v, Aim(v, c, Eof), FAT_START_ENT, FAT_START_ENT)
<1>1. PICK u : u = Aim(v, c, Eof)
  OBVIOUS
<1>2. Eof \in Nums
  BY VfatConsts
<1>3. /\ HasShape(u) /\ u.root = v.root /\ u.blk = v.blk
      /\ \A y \in Cells : u.fat[y] = IF y = c THEN Eof ELSE v.fat[y]
      /\ \A b : EntOf(u, b) = EntOf(v, b)
  BY <1>1, <1>2, AimShape
<1>4. v.fat[c] \in Nat /\ v.fat[c] \notin Clus /\ v.fat[c] # Eof
  <2>1. v.fat[c] \in Nums
    BY DEF HasShape, Nums
  <2>2. PICK y : y = v.fat[c]
    OBVIOUS
  <2>3. y \in Nat /\ (y = 1 \/ (y >= NClus + 2 /\ y < NClus + 4))
    BY <2>1, <2>2, VfatConsts DEF cluster_bad_range, FAT_START_ENT
  <2>4. y \notin Clus /\ y # Eof
    BY <2>3, VfatConsts
  <2> QED BY <2>2, <2>3, <2>4
<1>5. ASSUME NEW a \in LiveOf(v) PROVE ClustersOf(u, a) = ClustersOf(v, a)
  <2>1. a \in Places
    BY LiveIn
  <2>2. PICK p, d : p = ClustersOf(v, a) /\ d = EntOf(v, a).cn
    OBVIOUS
  <2>3. IsChain(p, v.fat, d) /\ d \in Nums /\ Table(u.fat)
    BY <1>3, <2>1, <2>2, ClustersIs, EntryOf
  <2>4. p \in Seq(Clus) /\ \A k \in 1 .. Len(p) : p[k] \in Clus /\ p[k] \in Cells
    <3>1. p \in Seq(Clus)
      BY <2>3 DEF IsChain, Path
    <3> QED BY <3>1, ElementOfSeq, VfatConsts
  <2>5. \A k \in 1 .. Len(p) - 1 : p[k + 1] = u.fat[p[k]]
    <3>1. TAKE k \in 1 .. Len(p) - 1
    <3>2. k \in 1 .. Len(p) /\ k + 1 \in 1 .. Len(p)
      BY <2>4
    <3>3. p[k + 1] = v.fat[p[k]]
      BY <2>3 DEF IsChain, Path
    <3> QED BY <1>3, <1>4, <2>4, <3>2, <3>3
  <2>6. Len(p) \in 1 .. NClus => u.fat[p[Len(p)]] \notin Clus
    <3> SUFFICES ASSUME Len(p) \in 1 .. NClus PROVE u.fat[p[Len(p)]] \notin Clus
      OBVIOUS
    <3>1. v.fat[p[Len(p)]] \notin Clus /\ Len(p) \in 1 .. Len(p)
      BY <2>3 DEF IsChain
    <3> QED BY <1>3, <2>4, <3>1, VfatConsts
  <2>7. IsChain(p, u.fat, d)
    BY <2>3, <2>5, <2>6 DEF IsChain, Path
  <2>8. IsChain(ChainOf(u.fat, d), u.fat, d)
    BY <2>3, ChainIs
  <2>9. p = ChainOf(u.fat, d)
    BY <2>7, <2>8, ChainUnique
  <2> QED BY <1>3, <2>2, <2>9 DEF ClustersOf
<1>6. PICK o : o = FAT_START_ENT
  OBVIOUS
<1>7. o \in Clus /\ (\A y : Sub(o, o, y) = y) /\ \A a \in LiveOf(v) : Put(o, o, a) = a
  <2>1. \A a \in LiveOf(v) : a \in Places
    BY LiveIn
  <2>2. \A y : Sub(o, o, y) = y
    BY DEF Sub
  <2>3. o \in Clus
    BY <1>6, VfatConsts DEF FAT_START_ENT
  <2> QED BY <2>1, <2>2, <2>3, PutSame
<1>8. ASSUME NEW a \in LiveOf(v)
      PROVE  /\ [k \in DOMAIN ClustersOf(v, a) |-> Sub(o, o, ClustersOf(v, a)[k])] = ClustersOf(v, a)
             /\ \A y \in ToSet(ClustersOf(v, a)) : y \in Clus /\ y \in Cells
  <2>1. a \in Places /\ ClustersOf(v, a) \in Seq(Clus)
    BY LiveIn, ClustersIs
  <2>2. \A y \in ToSet(ClustersOf(v, a)) : y \in Clus
    BY <2>1 DEF ToSet
  <2>3. PICK p : p = ClustersOf(v, a)
    OBVIOUS
  <2>4. p \in Seq(Clus) /\ [k \in DOMAIN p |-> p[k]] = p
    BY <2>1, <2>3
  <2>5. [k \in DOMAIN p |-> Sub(o, o, p[k])] = [k \in DOMAIN p |-> p[k]]
    BY <1>7
  <2>6. \A y \in ToSet(p) : y \in Cells
    BY <2>2, <2>3, VfatConsts
  <2> QED BY <2>2, <2>3, <2>4, <2>5, <2>6
<1>9. Renames(v, u, o, o)
  BY <1>3, <1>5, <1>7, <1>8 DEF Renames
<1>10. KeepsFiles(v, u, o, o)
  <2>1. ASSUME NEW y \in Held(v) PROVE u.fat[y] # FAT_ENT_FREE
    <3>1. y \in Cells
      BY HeldWhere, VfatConsts
    <3>2. v.fat[y] # FAT_ENT_FREE
      BY DEF Held, Keeps, Safe, Unshared
    <3> QED BY <1>3, <3>1, <3>2, VfatConsts DEF FAT_ENT_FREE
  <2> QED BY <1>3, <1>7, <2>1 DEF KeepsFiles
<1>11. Safe(u)
  BY <1>3, <1>9, <1>10, SafeKept DEF Keeps
<1>12. ASSUME ~h PROVE WholeAs(u, x)
  <2>1. WholeAs(v, x)
    BY <1>12 DEF Keeps
  <2>2. ASSUME NEW a \in LiveOf(v), ClustersOf(v, a) # <<>>
        PROVE  u.fat[Last(ClustersOf(v, a))] = v.fat[Last(ClustersOf(v, a))]
    <3>1. v.fat[Last(ClustersOf(v, a))] = Eof
      BY <2>1 DEF WholeAs, SoundOf
    <3>2. Last(ClustersOf(v, a)) \in Cells
      <4>1. ClustersOf(v, a) \in Seq(Clus)
        BY LiveIn, ClustersIs
      <4>2. Last(ClustersOf(v, a)) \in Clus
        BY <2>2, <4>1 DEF Last
      <4> QED BY <4>2, VfatConsts
    <3> QED BY <1>3, <1>4, <3>1, <3>2
  <2>3. KeepsEnds(v, u, o, o)
    BY <1>3, <1>7, <2>2 DEF KeepsEnds
  <2> QED BY <1>3, <1>9, <1>10, <2>1, <2>3, WholeKept DEF WholeAs
<1> QED BY <1>1, <1>6, <1>9, <1>11, <1>12 DEF Keeps

(* What does not change a chain or a name. *)
LEMMA SizeSafe ==
    ASSUME NEW v, NEW u, HasShape(v), HasShape(u), Safe(v), NEW a \in LiveOf(v), NEW z, u.fat = v.fat,
           \A b \in Places : EntOf(u, b) = IF b = a THEN [EntOf(v, a) EXCEPT !.sz = z] ELSE EntOf(v, b)
    PROVE  Safe(u) /\ Renames(v, u, FAT_START_ENT, FAT_START_ENT)
<1>1. ASSUME NEW b \in Places
      PROVE  EntOf(u, b).k = EntOf(v, b).k /\ EntOf(u, b).nm = EntOf(v, b).nm /\ EntOf(u, b).cn = EntOf(v, b).cn
  <2>1. IsEntry(EntOf(v, b))
    BY EntryOf
  <2>2. EntOf(v, b) = [k |-> EntOf(v, b).k, nm |-> EntOf(v, b).nm, cn |-> EntOf(v, b).cn, sz |-> EntOf(v, b).sz]
    BY <2>1 DEF IsEntry
  <2> QED BY <2>2
<1>2. ASSUME NEW s \in 0 .. RootC - 1 PROVE u.root[s].k = v.root[s].k
  <2>1. PICK y : y = <<0, s>>
    OBVIOUS
  <2>2. y \in Places /\ EntOf(u, y) = u.root[s] /\ EntOf(v, y) = v.root[s]
    BY <2>1 DEF Places, EntOf
  <2> QED BY <1>1, <2>2
<1>3. ASSUME NEW b \in Clus, NEW s \in SlotsOf
      PROVE  /\ u.blk[b][s].k = v.blk[b][s].k
             /\ b # a[1] => u.blk[b][s] = v.blk[b][s]
  <2>1. PICK y : y = <<b, s>>
    OBVIOUS
  <2>2. y \in Places /\ EntOf(u, y) = u.blk[b][s] /\ EntOf(v, y) = v.blk[b][s] /\ y[1] = b
    BY <2>1, VfatConsts DEF Places, EntOf
  <2> QED BY <1>1, <2>2
<1>4. \A b \in LiveOf(v) : b \in Places /\ ToSet(ClustersOf(v, b)) \subseteq Clus
  <2>1. \A b \in LiveOf(v) : b \in Places
    BY HeldWhere
  <2>2. \A b \in LiveOf(v) : ToSet(ClustersOf(v, b)) \subseteq Clus
    BY HeldWhere
  <2> QED BY <2>1, <2>2
<1>5. \A b \in LiveOf(v) : ClustersOf(u, b) = ClustersOf(v, b)
  BY <1>1, <1>4 DEF ClustersOf
<1>6. ASSUME NEW f \in LiveOf(v), EntOf(v, f).k = "file"
      PROVE  \A b \in ToSet(ClustersOf(v, f)), s \in SlotsOf : u.blk[b][s] = v.blk[b][s]
  <2>1. a[2] \in SlotsOf \/ a[1] \notin Clus
    BY <1>4, VfatConsts DEF Places
  <2>2. EntOf(v, a).k # "data"
    BY LiveWhere
  <2>3. a[1] \notin ToSet(ClustersOf(v, f))
    BY <1>6, <2>1, <2>2, NotInFile DEF Safe
  <2> QED BY <1>3, <1>4, <2>3
<1>7. PICK o : o = FAT_START_ENT
  OBVIOUS
<1>8. o \in Clus /\ (\A y : Sub(o, o, y) = y) /\ \A b \in LiveOf(v) : Put(o, o, b) = b
  <2>1. \A y : Sub(o, o, y) = y
    BY DEF Sub
  <2>2. o \in Clus
    BY <1>7, VfatConsts DEF FAT_START_ENT
  <2> QED BY <1>4, <2>1, <2>2, PutSame
<1>9. ASSUME NEW b \in LiveOf(v)
      PROVE  [k \in DOMAIN ClustersOf(v, b) |-> Sub(o, o, ClustersOf(v, b)[k])] = ClustersOf(v, b)
  <2>1. ClustersOf(v, b) \in Seq(Clus)
    BY <1>4, ClustersIs
  <2> QED BY <1>8, <2>1
<1>10. Renames(v, u, o, o)
  BY <1>2, <1>3, <1>4, <1>5, <1>8, <1>9 DEF Renames
<1>11. KeepsFiles(v, u, o, o)
  <2>1. \A y \in Held(v) : u.fat[y] # FAT_ENT_FREE
    BY DEF Held, Safe, Unshared
  <2> QED BY <1>1, <1>4, <1>6, <1>8, <2>1 DEF KeepsFiles
<1> QED BY <1>7, <1>10, <1>11, SafeKept

-----------------------------------------------------------------------------
(* Where a relocation or fsck stands, and what that says of the volume. *)
LinkedIn == \E nx, o : Linked(Vol, de, at, new, nx, o, log, replace, hurt, want)
KeepInv ==
    /\ pc \in {"idle", "clean", "fats", "entries"} => Keeps(Vol, hurt, want)
    /\ pc = "alloc" => /\ Pre(Vol, de, at, new, hurt, want)
                       /\ Vol.fat[new] = Bad \/ Write("fat", <<0, new>>, Bad) \in ToSet(log)
    /\ pc = "copied" => Pre(Vol, de, at, new, hurt, want) /\ HasCopy(Vol, de, at, new) /\ log = <<>>
    /\ pc = "relink" =>
          \/ /\ Pre(Vol, de, at, new, hurt, want) /\ HasCopy(Vol, de, at, new)
             /\ \E o : Ready(Vol, de, at, new, o, log, replace)
          \/ LinkedIn
    /\ pc = "replace" => /\ Keeps(Vol, hurt, want)
                         /\ \E o \in Clus \ Held(Vol) : log \in Seq(FatSet(o, FAT_ENT_FREE))

LEMMA KeepStarts == VfatInit => KeepInv
<1> SUFFICES ASSUME VfatInit PROVE KeepInv
  OBVIOUS
<1>1. PICK v \in Volumes : /\ fats = [n \in 0 .. FatCount - 1 |-> v.fat]
                           /\ root = v.root /\ blk = v.blk /\ hurt = v.hurt /\ want = v.want
  BY DEF VfatInit
<1>2. /\ Unshared(v) /\ InOrder(v) /\ Dotted(v) /\ HasShape(v)
      /\ v.hurt \/ (SoundOf(v) /\ Fits(v) /\ NamesOf(v) = Wanted(v.want))
  BY VfatAssumption, ContentAssumption DEF IsVolume
<1>3. Keeps(v, hurt, want)
  BY <1>1, <1>2 DEF Keeps, WholeAs, Safe
<1>4. Vol.fat = v.fat /\ Vol.root = v.root /\ Vol.blk = v.blk
  BY <1>1, VfatConsts DEF Vol, Copies
<1>5. HasShape(Vol)
  BY <1>2, <1>4 DEF HasShape
<1>6. Beside(v, Vol)
  BY <1>4 DEF Beside, EntOf
<1>7. Keeps(Vol, hurt, want)
  BY <1>2, <1>3, <1>5, <1>6, KeepsBeside
<1>8. pc = "idle"
  BY DEF VfatInit
<1> QED BY <1>7, <1>8 DEF KeepInv

LEMMA VolShapeNext == DevOk' => HasShape(Vol)'
BY VolShape, PTL

(* What every step leaves where it stands. *)
LEMMA KeepSame ==
    ASSUME DevSame, hurt' = hurt, want' = want
    PROVE  Vol' = Vol /\ (Keeps(Vol, hurt, want)' <=> Keeps(Vol, hurt, want))
<1>1. Vol' = Vol
  BY DEF DevSame, Vol
<1>2. Keeps(Vol, hurt, want)' <=> Keeps(Vol', hurt', want')
  OBVIOUS
<1> QED BY <1>1, <1>2

(* The entry a relocation begins with. *)
LEMMA BeginPre ==
    ASSUME DevOk, Keeps(Vol, hurt, want), NEW a \in Live, NEW i \in 1 .. NClus, NEW c \in Offered,
           SoundVolume, is_cluster_avail(c), i <= de_cluster_count(Ent(a))
    PROVE  Pre(Vol, a, i, c, hurt, want)
<1>1. HasShape(Vol) /\ Vol.fat = fats[0] /\ a \in LiveOf(Vol) /\ SoundOf(Vol) /\ Ent(a) = EntOf(Vol, a) /\ a \in Places
  BY VolShape, LiveIn DEF Live, SoundVolume, Ent
<1>2. PICK p : p = ClustersOf(Vol, a)
  OBVIOUS
<1>3. /\ p # <<>> /\ fats[0][Last(p)] = Eof
      /\ Ent(a).k = "file" => Len(p) = file_cluster_count(Ent(a))
  BY <1>1, <1>2 DEF SoundOf
<1>4. fat_chain_count(Ent(a).cn) = Len(p)
  BY <1>1, <1>2, <1>3, CountSound
<1>5. de_cluster_count(Ent(a)) = Len(p)
  <2>1. Ent(a).k \in {"file", "dir"}
    BY <1>1, LiveWhere
  <2> QED BY <1>3, <1>4, <2>1 DEF de_cluster_count, is_de_dir
<1>6. Len(p) \in Nat
  BY <1>1, <1>2, ClustersIs
<1>7. i \in 1 .. Len(p)
  BY <1>5, <1>6
<1>8. c \in Clus /\ c \in Cells
  BY VfatConsts
<1>9. c \notin Held(Vol)
  <2>1. fats[0][c] = FAT_ENT_FREE
    BY <1>8 DEF is_cluster_avail, fat_next
  <2>2. \A y \in Held(Vol) : Vol.fat[y] # FAT_ENT_FREE
    BY DEF Held, Keeps, Safe, Unshared
  <2> QED BY <1>1, <2>1, <2>2
<1> QED BY <1>1, <1>2, <1>7, <1>8, <1>9 DEF Pre

(* Before the link the volume changes beside its files. *)
LEMMA PreBeside ==
    ASSUME NEW v, NEW u, HasShape(v), HasShape(u), Beside(v, u), NEW a, NEW i, NEW n, NEW h, NEW x,
           Pre(v, a, i, n, h, x)
    PROVE  Pre(u, a, i, n, h, x) /\ ClustersOf(u, a) = ClustersOf(v, a)
<1>1. LiveOf(u) = LiveOf(v) /\ Held(u) = Held(v) /\ (SoundOf(v) => SoundOf(u))
  BY BesideSame
<1>2. \A b \in LiveOf(v) : ClustersOf(u, b) = ClustersOf(v, b)
  BY BesideSame
<1>3. Keeps(u, h, x)
  BY KeepsBeside DEF Pre
<1> QED BY <1>1, <1>2, <1>3 DEF Pre

(* The chain of the entry is the one the description walks. *)
LEMMA PreOld ==
    ASSUME DevOk, NEW a, NEW i, NEW n, NEW h, NEW x, Pre(Vol, a, i, n, h, x)
    PROVE  /\ get_nth_cnum(Ent(a), i) = ClustersOf(Vol, a)[i]
           /\ ClustersOf(Vol, a)[i] \in Clus /\ ClustersOf(Vol, a)[i] \in Held(Vol)
<1>1. HasShape(Vol) /\ Vol.fat = fats[0] /\ a \in LiveOf(Vol) /\ SoundOf(Vol) /\ a \in Places /\ Ent(a).cn \in Nums
      /\ Table(fats[0])
  <2>1. HasShape(Vol) /\ Vol.fat = fats[0]
    BY VolShape
  <2>2. a \in LiveOf(Vol) /\ SoundOf(Vol) /\ a \in Places
    BY <2>1, LiveIn DEF Pre
  <2>3. Table(fats[0])
    BY VfatConsts DEF DevOk, FatsOk, Table
  <2> QED BY <2>1, <2>2, <2>3, EntryAt
<1>2. PICK p : p = ClustersOf(Vol, a)
  OBVIOUS
<1>3. p # <<>> /\ fats[0][Last(p)] = Eof /\ i \in 1 .. Len(p)
  BY <1>1, <1>2 DEF SoundOf, Pre
<1>4. Path(p, fats[0], Ent(a).cn)
  BY <1>1, <1>2, <1>3, CountSound
<1>5. get_nth_cnum(Ent(a), i) = p[i] /\ p[i] \in Clus
  BY <1>1, <1>3, <1>4, NthOnPath DEF get_nth_cnum
<1>6. p[i] \in ToSet(p)
  BY <1>3, <1>4 DEF Path, ToSet
<1> QED BY <1>1, <1>2, <1>5, <1>6 DEF Held

(* One write of a packet. *)
LEMMA KeepCommit ==
    ASSUME FsckInv, KeepInv, Commit, FsckInv'
    PROVE  KeepInv'
<1>1. /\ log # <<>> /\ Apply(Head(log)) /\ log' = Tail(log)
      /\ UNCHANGED <<pc, de, at, new, replace, want, hurt>>
  BY DEF Commit
<1>2. DevOk /\ DevOk' /\ VfInv
  BY DEF FsckInv
<1>3. PICK w, k : w = Head(log) /\ k = Tail(log)
  OBVIOUS
<1>4. PICK v, u : v = Vol /\ u = Vol'
  OBVIOUS
<1>5. Wrote(v, u, w)
  BY <1>1, <1>2, <1>3, <1>4, ApplyVol
<1>6. HasShape(v)
  BY <1>2, <1>4, VolShape
<1>7. HasShape(u)
  <2>1. HasShape(Vol)'
    BY <1>2, VolShapeNext
  <2> QED BY <1>4, <2>1
<1>8. v = [fat |-> v.fat, root |-> v.root, blk |-> v.blk]
  BY <1>4 DEF Vol
<1>9. CASE pc = "alloc"
  <2>1. Pre(v, de, at, new, hurt, want) /\ (v.fat[new] = Bad \/ Write("fat", <<0, new>>, Bad) \in ToSet(log))
    BY <1>4, <1>9 DEF KeepInv
  <2>2. log \in Seq(AllocLog)
    BY <1>2, <1>9 DEF VfInv
  <2>3. w \in AllocLog /\ ToSet(log) = {w} \cup ToSet(k)
    BY <1>1, <1>3, <2>2, InLog
  <2>4. PICK n \in Copies : w = Write("fat", <<n, new>>, Bad)
    BY <2>3 DEF AllocLog
  <2>5. CASE n # 0
    <3>1. w.op = "fat" /\ w.where[1] # 0 /\ w # Write("fat", <<0, new>>, Bad)
      BY <2>4, <2>5 DEF Write
    <3>2. u = v
      BY <1>5, <3>1 DEF Wrote
    <3>3. Pre(u, de, at, new, hurt, want) /\ (u.fat[new] = Bad \/ Write("fat", <<0, new>>, Bad) \in ToSet(k))
      BY <2>1, <2>3, <3>1, <3>2
    <3> QED BY <1>1, <1>3, <1>4, <1>9, <3>3 DEF KeepInv, Write, Bad, FatMax
  <2>6. CASE n = 0
    <3>1. new \in Clus /\ new \in Cells /\ new \notin Held(v) /\ Bad \in Nums
      BY <2>1, VfatConsts DEF Pre
    <3>2. w.op = "fat" /\ w.where = <<0, new>> /\ w.val = Bad
      BY <2>4, <2>6 DEF Write
    <3>3. u = Aim(v, new, Bad)
      BY <1>5, <3>1, <3>2 DEF Wrote
    <3>4. u.fat[new] = Bad
      BY <1>6, <3>1, <3>3, AimShape
    <3>5. Beside(v, u)
      BY <1>6, <3>1, <3>3, CellBeside
    <3>6. Pre(u, de, at, new, hurt, want)
      BY <1>6, <1>7, <2>1, <3>5, PreBeside
    <3> QED BY <1>1, <1>4, <1>9, <3>4, <3>6 DEF KeepInv, Bad, FatMax
  <2> QED BY <2>5, <2>6
<1>10. CASE pc = "relink"
  <2>1. \/ /\ Pre(v, de, at, new, hurt, want) /\ HasCopy(v, de, at, new)
           /\ \E o : Ready(v, de, at, new, o, log, replace)
        \/ \E nx, o : Linked(v, de, at, new, nx, o, log, replace, hurt, want)
    BY <1>4, <1>10 DEF KeepInv, LinkedIn
  <2>2. \E nx, o : Linked(u, de, at, new, nx, o, k, replace, hurt, want)
    BY <1>1, <1>3, <1>5, <1>6, <1>7, <2>1, ReadyLinks, LinkedStays
  <2>3. LinkedIn'
    BY <1>1, <1>3, <1>4, <2>2 DEF LinkedIn
  <2> QED BY <1>1, <1>10, <2>3 DEF KeepInv
<1>11. CASE pc = "replace"
  <2>1. Keeps(v, hurt, want)
    BY <1>4, <1>11 DEF KeepInv
  <2>2. PICK o \in Clus \ Held(v) : log \in Seq(FatSet(o, FAT_ENT_FREE))
    BY <1>4, <1>11 DEF KeepInv
  <2>3. w \in FatSet(o, FAT_ENT_FREE) /\ k \in Seq(FatSet(o, FAT_ENT_FREE))
    BY <1>1, <1>3, <2>2, InLog
  <2>4. PICK n \in Copies : w = Write("fat", <<n, o>>, FAT_ENT_FREE)
    BY <2>3 DEF FatSet
  <2>5. Beside(v, u)
    <3>1. CASE n # 0
      <4>1. w.op = "fat" /\ w.where[1] # 0
        BY <2>4, <3>1 DEF Write
      <4>2. u = v
        BY <1>5, <4>1 DEF Wrote
      <4> QED BY <4>2 DEF Beside
    <3>2. CASE n = 0
      <4>1. w.op = "fat" /\ w.where = <<0, o>> /\ w.val = FAT_ENT_FREE
        BY <2>4, <3>2 DEF Write
      <4>2. o \in Cells /\ FAT_ENT_FREE \in Nums
        BY <2>2, VfatConsts DEF FAT_ENT_FREE
      <4>3. u = Aim(v, o, FAT_ENT_FREE)
        BY <1>5, <4>1, <4>2 DEF Wrote
      <4> QED BY <1>6, <2>2, <4>2, <4>3, CellBeside
    <3> QED BY <3>1, <3>2
  <2>6. Keeps(u, hurt, want) /\ Held(u) = Held(v)
    BY <1>6, <1>7, <2>1, <2>5, KeepsBeside, BesideSame
  <2>7. /\ Keeps(Vol, hurt, want)'
        /\ (\E c \in Clus \ Held(Vol) : log \in Seq(FatSet(c, FAT_ENT_FREE)))'
    BY <1>1, <1>3, <1>4, <2>2, <2>3, <2>6 DEF Clus, FatSet, FAT_ENT_FREE, Copies, Write
  <2> QED BY <1>1, <1>11, <2>7 DEF KeepInv
<1>12. pc \in {"alloc", "relink", "replace"}
  <2>1. pc \in Moving
    BY <1>1, <1>2 DEF VfInv
  <2> QED BY <1>1, <2>1 DEF Moving, KeepInv
<1> QED BY <1>9, <1>10, <1>11, <1>12

(* The copy, and the packets that link it in and free the old cluster. *)
LEMMA KeepCopy ==
    ASSUME FsckInv, KeepInv, typeinfo_phys_copy, FsckInv'
    PROVE  KeepInv'
<1>1. /\ pc = "alloc" /\ log = <<>> /\ blk' = [blk EXCEPT ![new] = blk[get_nth_cnum(Ent(de), at)]]
      /\ pc' = "copied" /\ UNCHANGED <<fats, root, de, at, new, log, want, hurt>>
  BY DEF typeinfo_phys_copy
<1>2. DevOk /\ DevOk'
  BY DEF FsckInv
<1>3. PICK v, u, o : v = Vol /\ u = Vol' /\ o = ClustersOf(Vol, de)[at]
  OBVIOUS
<1>4. HasShape(v) /\ HasShape(u)
  <2>1. HasShape(Vol)'
    BY <1>2, VolShapeNext
  <2> QED BY <1>2, <1>3, <2>1, VolShape
<1>5. Pre(v, de, at, new, hurt, want) /\ v.fat[new] = Bad
  <2>1. ToSet(log) = {}
    BY <1>1 DEF ToSet
  <2> QED BY <1>1, <1>3, <2>1 DEF KeepInv
<1>6. get_nth_cnum(Ent(de), at) = o /\ o \in Clus /\ o \in Held(v)
  BY <1>2, <1>3, <1>5, PreOld
<1>7. /\ u.fat = v.fat /\ u.root = v.root
      /\ u.blk = [v.blk EXCEPT ![new] = v.blk[o]] /\ v.blk = [c \in Clus |-> [s \in SlotsOf |-> v.blk[c][s]]]
  <2>1. v.fat = fats[0] /\ v.root = root /\ v.blk = blk /\ u.fat = fats'[0] /\ u.root = root' /\ u.blk = blk'
    BY <1>3 DEF Vol
  <2>2. blk = [c \in Clus |-> [s \in SlotsOf |-> blk[c][s]]]
    BY <1>2 DEF DevOk, BlkOk
  <2> QED BY <1>1, <1>6, <2>1, <2>2
<1>8. new \in Clus /\ new \notin Held(v) /\ new # 0
  BY <1>5, VfatConsts DEF Pre
<1>9. \A c \in Clus : u.blk[c] = IF c = new THEN v.blk[o] ELSE v.blk[c]
  BY <1>7, <1>8
<1>10. Beside(v, u)
  <2>1. \A c \in Held(v) : c \in Clus /\ c # new
    BY <1>4, <1>8, HeldWhere
  <2>2. \A c \in Held(v) : u.blk[c] = v.blk[c]
    BY <1>9, <2>1
  <2>3. \A a \in LiveOf(v) : EntOf(u, a) = EntOf(v, a)
    <3>1. \A a \in LiveOf(v) : a[1] = 0 \/ a[1] \in Held(v)
      BY <1>4, HeldWhere
    <3> QED BY <1>7, <2>2, <3>1 DEF EntOf
  <2>4. \A a \in LiveOf(v) : ToSet(ClustersOf(v, a)) \subseteq Held(v)
    BY DEF Held
  <2> QED BY <1>7, <2>2, <2>3, <2>4 DEF Beside
<1>11. Pre(u, de, at, new, hurt, want) /\ ClustersOf(u, de) = ClustersOf(v, de)
  BY <1>4, <1>5, <1>10, PreBeside
<1>12. HasCopy(u, de, at, new)
  <2>1. o # new
    BY <1>6, <1>8
  <2> QED BY <1>3, <1>5, <1>6, <1>7, <1>8, <1>9, <1>11, <2>1 DEF HasCopy
<1>13. Pre(Vol, de, at, new, hurt, want)' /\ HasCopy(Vol, de, at, new)'
  BY <1>1, <1>3, <1>11, <1>12
<1> QED BY <1>1, <1>13 DEF KeepInv

(* What the writes of a relink are at the time the relocation makes them.   *)
LEMMA LinkIs ==
    ASSUME DevOk, Pre(Vol, de, at, new, hurt, want), HasCopy(Vol, de, at, new), Vol.blk = blk,
           NEW l, l = block_relink(de, at, new), NEW o, o = ClustersOf(Vol, de)[at]
    PROVE  /\ get_nth_cnum(Ent(de), at) = o /\ fats[0][o] \in Clus \cup {Eof}
           /\ \E S : l \in Seq(S)
           /\ l # <<>>
           /\ Head(l) = IF at = 1 THEN Write("lo", de, new) ELSE Write("fat", <<0, ClustersOf(Vol, de)[at - 1]>>, new)
           /\ Write("fat", <<0, new>>, fats[0][o]) \in ToSet(Tail(l))
           /\ WritesBoth(l, de, at, o, new)
           /\ \A u : HasShape(u) /\ Moved(Vol, u, de, at, o, new) =>
                \A w \in ToSet(Tail(l)) : Harmless(u, new, fats[0][o], w)
<1>1. /\ de \in LiveOf(Vol) /\ Safe(Vol) /\ SoundOf(Vol) /\ at \in 1 .. Len(ClustersOf(Vol, de))
      /\ new \in Clus /\ new \notin Held(Vol) /\ \A s \in SlotsOf : blk[new][s] = blk[o][s]
  BY DEF Pre, Keeps, HasCopy
<1> QED BY <1>1, RelinkIs

LEMMA KeepLink ==
    ASSUME FsckInv, KeepInv, Link
    PROVE  KeepInv'
<1>1. /\ pc = "copied" /\ log' = block_relink(de, at, new) /\ replace' = block_replace(get_nth_cnum(Ent(de), at))
      /\ pc' = "relink" /\ DevSame /\ UNCHANGED <<de, at, new, hurt, want>>
  BY DEF Link, DevSame
<1>2. DevOk /\ Pre(Vol, de, at, new, hurt, want) /\ HasCopy(Vol, de, at, new) /\ Vol.blk = blk /\ Vol.fat = fats[0]
  BY <1>1, VolShape DEF FsckInv, KeepInv
<1>3. PICK l, o : l = block_relink(de, at, new) /\ o = ClustersOf(Vol, de)[at]
  OBVIOUS
<1>5. /\ get_nth_cnum(Ent(de), at) = o /\ fats[0][o] \in Clus \cup {Eof}
      /\ \E S : l \in Seq(S)
      /\ l # <<>>
      /\ Head(l) = IF at = 1 THEN Write("lo", de, new) ELSE Write("fat", <<0, ClustersOf(Vol, de)[at - 1]>>, new)
      /\ Write("fat", <<0, new>>, fats[0][o]) \in ToSet(Tail(l))
      /\ \A u : HasShape(u) /\ Moved(Vol, u, de, at, o, new) =>
            \A w \in ToSet(Tail(l)) : Harmless(u, new, fats[0][o], w)
  BY <1>2, <1>3, LinkIs
<1>6. PICK r : r = write_fat(o, FAT_ENT_FREE)
  OBVIOUS
<1>7. Ready(Vol, de, at, new, o, l, r)
  BY <1>2, <1>3, <1>5, <1>6 DEF Ready, IsLog
<1>8. replace' = r
  BY <1>1, <1>5, <1>6 DEF block_replace
<1>9. PICK v : v = Vol
  OBVIOUS
<1>10. Vol' = v
  BY <1>1, <1>9 DEF DevSame, Vol
<1>11. /\ Pre(v, de, at, new, hurt, want) /\ HasCopy(v, de, at, new) /\ Ready(v, de, at, new, o, l, r)
  BY <1>2, <1>7, <1>9
<1>12. /\ Pre(Vol', de', at', new', hurt', want') /\ HasCopy(Vol', de', at', new')
       /\ Ready(Vol', de', at', new', o, log', replace')
  BY <1>1, <1>3, <1>8, <1>10, <1>11
<1>13. /\ Pre(Vol, de, at, new, hurt, want)' /\ HasCopy(Vol, de, at, new)'
       /\ (\E c : Ready(Vol, de, at, new, c, log, replace))'
  BY <1>12
<1> QED BY <1>1, <1>13 DEF KeepInv

LEMMA KeepReplace ==
    ASSUME FsckInv, KeepInv, CommitReplace
    PROVE  KeepInv'
<1>1. /\ pc = "relink" /\ log = <<>> /\ log' = replace /\ pc' = "replace"
      /\ DevSame /\ UNCHANGED <<hurt, want>>
  BY DEF CommitReplace, DevSame
<1>2. DevOk /\ HasShape(Vol)
  BY VolShape DEF FsckInv
<1>3. PICK nx, o : Linked(Vol, de, at, new, nx, o, log, replace, hurt, want)
  BY <1>1 DEF KeepInv, Ready, LinkedIn
<1>4. Vol = [fat |-> Vol.fat, root |-> Vol.root, blk |-> Vol.blk]
  BY DEF Vol
<1>5. Keeps(Vol, hurt, want) /\ o \in Clus /\ o \notin Held(Vol)
  BY <1>1, <1>2, <1>3, <1>4, LinkedDone
<1>6. replace \in Seq(FatSet(o, FAT_ENT_FREE))
  BY <1>3, FatLog DEF Linked
<1>7. PICK v : v = Vol
  OBVIOUS
<1>8. Vol' = v
  BY <1>1, <1>7 DEF DevSame, Vol
<1>9. Keeps(Vol', hurt', want') /\ o \in Clus /\ o \notin Held(Vol') /\ log' \in Seq(FatSet(o, FAT_ENT_FREE))
  BY <1>1, <1>5, <1>6, <1>7, <1>8
<1>10. /\ Keeps(Vol, hurt, want)'
       /\ (\E c \in Clus \ Held(Vol) : log \in Seq(FatSet(c, FAT_ENT_FREE)))'
  BY <1>9 DEF Clus, FatSet, FAT_ENT_FREE, Copies, Write
<1> QED BY <1>1, <1>10 DEF KeepInv

(* The ends of a relocation, and a kill. *)
LEMMA KeepEnd ==
    ASSUME FsckInv, KeepInv, LinkAborts \/ Return \/ Kill
    PROVE  KeepInv'
<1>1. DevSame /\ want' = want /\ pc' = "idle"
  BY DEF LinkAborts, Return, Kill, Rest, DevSame
<1>2. DevOk /\ HasShape(Vol) /\ Vol.fat = fats[0] /\ Vol = [fat |-> Vol.fat, root |-> Vol.root, blk |-> Vol.blk]
  BY VolShape DEF FsckInv, Vol
<1>3. Keeps(Vol, hurt', want)
  <2>1. CASE LinkAborts \/ Return
    BY <2>1 DEF LinkAborts, Return, KeepInv, Pre
  <2>2. CASE Kill
    <3>1. hurt' = (hurt \/ Cut) /\ pc \notin Idle
      BY <2>2 DEF Kill
    <3>2. ASSUME Keeps(Vol, hurt, want) PROVE Keeps(Vol, hurt', want)
      BY <3>1, <3>2 DEF Keeps
    <3>3. CASE pc = "relink" /\ LinkedIn
      <4>1. PICK nx, o : Linked(Vol, de, at, new, nx, o, log, replace, hurt, want)
        BY <3>3 DEF LinkedIn
      <4>2. CASE Vol.fat[new] = nx
        <5>1. Keeps(Vol, hurt, want)
          BY <1>2, <4>1, <4>2, LinkedDone
        <5> QED BY <3>2, <5>1
      <4>3. CASE Vol.fat[new] # nx
        <5>1. Vol.fat[new] = Bad
          BY <4>1, <4>3 DEF Linked
        <5>2. Safe(Vol)
          BY <1>2, <4>1, <5>1, LinkedSafe
        <5>3. new = IF at = 1 THEN Ent(de).cn ELSE fat_next(get_nth_cnum(Ent(de), at - 1))
          BY <1>2, <4>1, LinkedCut
        <5>4. Cut
          BY <1>2, <3>3, <5>1, <5>3 DEF Cut
        <5> QED BY <3>1, <5>2, <5>4 DEF Keeps
      <4> QED BY <4>2, <4>3
    <3>4. CASE ~(pc = "relink" /\ LinkedIn)
      <4>1. pc \in Idle \cup {"fats", "entries"} \cup Moving
        BY DEF FsckInv, VfInv
      <4>2. Keeps(Vol, hurt, want)
        BY <3>4, <4>1 DEF KeepInv, Pre, Moving, Idle
      <4> QED BY <3>2, <4>2
    <3> QED BY <3>3, <3>4
  <2> QED BY <2>1, <2>2
<1>4. Vol' = Vol
  BY <1>1 DEF DevSame, Vol
<1>5. Keeps(Vol', hurt', want')
  BY <1>1, <1>3, <1>4
<1>6. Keeps(Vol, hurt, want)'
  BY <1>5
<1> QED BY <1>1, <1>6 DEF KeepInv

(* The entry fsck comes to first. *)
LEMMA LeastBad ==
    ASSUME BadCells # {}, NEW y,
           y = CHOOSE x \in BadCells : \A z \in BadCells : x[1] < z[1] \/ (x[1] = z[1] /\ x[2] <= z[2])
    PROVE  y \in BadCells
<1> DEFINE Least(x) == \A z \in BadCells : x[1] < z[1] \/ (x[1] = z[1] /\ x[2] <= z[2])
<1>1. y = CHOOSE x \in BadCells : Least(x)
  OBVIOUS
<1>3. BadCells \subseteq Copies \X Cells /\ Copies \subseteq Nat /\ Cells \subseteq Nat
  BY VfatConsts DEF BadCells, Copies
<1>4. \E z \in BadCells : Least(z)
  <2> DEFINE M == {z[1] : z \in BadCells}
  <2>1. M \subseteq Nat /\ M # {}
    BY <1>3
  <2>2. PICK m \in M : \A q \in M : m <= q
    <3> HIDE DEF M
    <3> QED BY <2>1, Smallest
  <2> DEFINE N == {z[2] : z \in {z \in BadCells : z[1] = m}}
  <2>3. N \subseteq Nat /\ N # {}
    BY <1>3, <2>2
  <2>4. PICK n \in N : \A q \in N : n <= q
    <3> HIDE DEF N
    <3> QED BY <2>3, Smallest
  <2>5. PICK z \in BadCells : z[1] = m /\ z[2] = n
    BY <2>4
  <2>6. ASSUME NEW q \in BadCells PROVE z[1] < q[1] \/ (z[1] = q[1] /\ z[2] <= q[2])
    <3>1. m <= q[1] /\ q[1] \in Nat /\ m \in Nat
      BY <1>3, <2>1, <2>2
    <3>2. q[1] = m => n <= q[2]
      BY <2>4
    <3> QED BY <2>5, <3>1, <3>2
  <2>7. Least(z)
    BY <2>6
  <2> QED BY <2>7
<1>5. y \in BadCells
  <2> HIDE DEF Least
  <2> QED BY <1>1, <1>4, Zenon
<1> QED BY <1>5

(* The repairs. *)
LEMMA KeepRepair ==
    ASSUME FsckInv, KeepInv, repair_fat16_bad_range
    PROVE  KeepInv'
<1>1. PICK y : y = CHOOSE x \in BadCells : \A z \in BadCells : x[1] < z[1] \/ (x[1] = z[1] /\ x[2] <= z[2])
  OBVIOUS
<1>2. pc = "fats" /\ BadCells # {} /\ Apply(Write("fat", y, Eof)) /\ UNCHANGED <<pc, want, hurt>>
  BY <1>1 DEF repair_fat16_bad_range
<1>3. BadCells \subseteq Copies \X Cells /\ Copies \subseteq Nat /\ Cells \subseteq Nat
  BY VfatConsts DEF BadCells, Copies
<1>5. y \in BadCells
  BY <1>1, <1>2, LeastBad
<1>6. y = <<y[1], y[2]>> /\ y[1] \in Copies /\ y[2] \in Cells /\ cluster_bad_range(fats[y[1]][y[2]])
  BY <1>3, <1>5 DEF BadCells
<1>7. PICK w : w = Write("fat", y, Eof)
  OBVIOUS
<1>8. w.op = "fat" /\ w.where = y /\ w.val = Eof
  BY <1>7 DEF Write
<1>9. DevOk /\ HasShape(Vol) /\ Vol.fat = fats[0]
  BY VolShape DEF FsckInv
<1>10. Wrote(Vol, Vol', w)
  BY <1>2, <1>7, <1>9, ApplyVol
<1>11. Keeps(Vol, hurt, want)
  BY <1>2 DEF KeepInv
<1>12. Keeps(Vol', hurt, want)
  <2>1. CASE y[1] # 0
    <3>1. Vol' = Vol
      BY <1>8, <1>10, <2>1 DEF Wrote
    <3> QED BY <1>11, <3>1
  <2>2. CASE y[1] = 0
    <3>1. w.where = <<0, y[2]>>
      BY <1>6, <1>8, <2>2
    <3>2. Vol' = Aim(Vol, y[2], Eof)
      BY <1>6, <1>8, <1>10, <3>1 DEF Wrote
    <3>3. cluster_bad_range(Vol.fat[y[2]])
      BY <1>6, <1>9, <2>2
    <3>4. Keeps(Aim(Vol, y[2], Eof), hurt, want)
      BY <1>6, <1>9, <1>11, <3>3, RepairKeeps
    <3> QED BY <3>2, <3>4
  <2> QED BY <2>1, <2>2
<1>13. Keeps(Vol', hurt', want')
  BY <1>2, <1>12
<1>14. Keeps(Vol, hurt, want)'
  BY <1>13
<1> QED BY <1>2, <1>14 DEF KeepInv

(* A file is made as short as its chain: one size changes. *)
LEMMA TruncIs ==
    ASSUME DevOk, repair_trunc_file
    PROVE  \E a \in TooLong : \E z :
              /\ a \in LiveOf(Vol) /\ a \in Places /\ Vol'.fat = Vol.fat
              /\ \A b \in Places : EntOf(Vol', b) = IF b = a THEN [EntOf(Vol, a) EXCEPT !.sz = z] ELSE EntOf(Vol, b)
<1>1. PICK a \in TooLong :
          LET sz == get_max_bytes(Ent(a)) IN
          /\ root' = IF a[1] = 0 THEN [root EXCEPT ![a[2]].sz = sz] ELSE root
          /\ blk' = IF a[1] # 0 THEN [blk EXCEPT ![a[1]][a[2]].sz = sz] ELSE blk
  BY DEF repair_trunc_file
<1>2. PICK z : z = get_max_bytes(Ent(a))
  OBVIOUS
<1>3. /\ root' = IF a[1] = 0 THEN [root EXCEPT ![a[2]] = [root[a[2]] EXCEPT !.sz = z]] ELSE root
      /\ blk' = IF a[1] # 0 THEN [blk EXCEPT ![a[1]] = [blk[a[1]] EXCEPT ![a[2]] = [blk[a[1]][a[2]] EXCEPT !.sz = z]]] ELSE blk
  BY <1>1, <1>2
<1>4. UNCHANGED fats
  BY DEF repair_trunc_file
<1>5. HasShape(Vol)
  BY VolShape
<1>7. a \in LiveOf(Vol) /\ a \in Places
  <2>1. a \in LiveOf(Vol)
    BY DEF TooLong, Live
  <2> QED BY <1>5, <2>1, LiveIn
<1>9. ASSUME NEW b \in Places
      PROVE  EntOf(Vol', b) = IF b = a THEN [EntOf(Vol, a) EXCEPT !.sz = z] ELSE EntOf(Vol, b)
  <2>1. PICK i, s : i = a[1] /\ s = a[2]
    OBVIOUS
  <2>2. /\ root = [y \in 0 .. RootC - 1 |-> root[y]]
        /\ blk = [c \in Clus |-> [y \in SlotsOf |-> blk[c][y]]]
    BY <1>5 DEF DevOk, RootOk, BlkOk
  <2>3. b = a <=> b[1] = i /\ b[2] = s
    BY <1>7, <2>1 DEF Places
  <2>4. CASE b \in {0} \X (0 .. RootC - 1)
    <3>1. b[1] = 0 /\ b[2] \in 0 .. RootC - 1
      BY <2>4
    <3>2. root'[b[2]] = IF i = 0 /\ b[2] = s THEN [root[s] EXCEPT !.sz = z] ELSE root[b[2]]
      BY <1>3, <2>1, <2>2, <3>1
    <3> QED BY <2>1, <2>3, <3>1, <3>2 DEF EntOf, Vol
  <2>5. CASE b \in Clus \X SlotsOf
    <3>1. b[1] \in Clus /\ b[1] # 0 /\ b[2] \in SlotsOf
      BY <2>5, VfatConsts
    <3>2. blk'[b[1]][b[2]] = IF b[1] = i /\ b[2] = s THEN [blk[i][s] EXCEPT !.sz = z] ELSE blk[b[1]][b[2]]
      <4>1. CASE i = b[1]
        <5>1. blk'[i] = [blk[i] EXCEPT ![s] = [blk[i][s] EXCEPT !.sz = z]]
          BY <1>3, <2>1, <2>2, <3>1, <4>1
        <5>2. blk[i] = [y \in SlotsOf |-> blk[i][y]]
          BY <2>2, <3>1, <4>1
        <5> QED BY <3>1, <4>1, <5>1, <5>2
      <4>2. CASE i # b[1]
        BY <1>3, <2>1, <2>2, <3>1, <4>2
      <4> QED BY <4>1, <4>2
    <3> QED BY <2>1, <2>3, <3>1, <3>2 DEF EntOf, Vol
  <2> QED BY <2>4, <2>5 DEF Places
<1>10. Vol'.fat = Vol.fat
  BY <1>4 DEF Vol
<1>11. \A b \in Places : EntOf(Vol', b) = IF b = a THEN [EntOf(Vol, a) EXCEPT !.sz = z] ELSE EntOf(Vol, b)
  BY <1>9
<1> QED BY <1>7, <1>10, <1>11

LEMMA KeepTrunc ==
    ASSUME FsckInv, KeepInv, repair_trunc_file, FsckInv'
    PROVE  KeepInv'
<1>4. pc = "entries" /\ UNCHANGED <<fats, pc, want, hurt>>
  BY DEF repair_trunc_file
<1>5. DevOk /\ DevOk' /\ HasShape(Vol) /\ Vol.fat = fats[0] /\ HasShape(Vol')
  BY VolShape, VolShapeNext DEF FsckInv
<1>6. Keeps(Vol, hurt, want)
  BY <1>4 DEF KeepInv
<1>1. PICK a \in TooLong :
         \E z : /\ a \in LiveOf(Vol) /\ a \in Places /\ Vol'.fat = Vol.fat
                /\ \A b \in Places : EntOf(Vol', b) = IF b = a THEN [EntOf(Vol, a) EXCEPT !.sz = z] ELSE EntOf(Vol, b)
  BY <1>5, TruncIs
<1>2. PICK z : /\ Vol'.fat = Vol.fat
               /\ \A b \in Places : EntOf(Vol', b) = IF b = a THEN [EntOf(Vol, a) EXCEPT !.sz = z] ELSE EntOf(Vol, b)
  BY <1>1
<1>7. a \in LiveOf(Vol) /\ a \in Places /\ get_max_bytes(Ent(a)) < Ent(a).sz /\ Ent(a) = EntOf(Vol, a)
  BY <1>1 DEF TooLong, Ent
<1>8. hurt
  <2> SUFFICES ASSUME ~hurt PROVE FALSE
    OBVIOUS
  <2>1. WholeAs(Vol, want)
    BY <1>6 DEF Keeps
  <2>2. /\ ClustersOf(Vol, a) # <<>> /\ fats[0][Last(ClustersOf(Vol, a))] = Eof
        /\ Ent(a).sz <= Bpc * Len(ClustersOf(Vol, a))
    BY <1>5, <1>7, <2>1 DEF WholeAs, SoundOf, Fits
  <2>3. fat_chain_count(Ent(a).cn) = Len(ClustersOf(Vol, a))
    BY <1>5, <1>7, <2>2, CountSound
  <2>4. Ent(a).sz \in Nat /\ fat_chain_count(Ent(a).cn) \in Nat
    BY <1>5, <1>7, EntryAt, CountNat
  <2>5. get_max_bytes(Ent(a)) = Bpc * Len(ClustersOf(Vol, a)) /\ get_max_bytes(Ent(a)) \in Nat
    BY <2>3, <2>4, VfatConsts DEF get_max_bytes
  <2> QED BY <1>7, <2>2, <2>4, <2>5
<1>11. Safe(Vol')
  BY <1>2, <1>5, <1>6, <1>7, SizeSafe DEF Keeps
<1>12. Keeps(Vol', hurt', want')
  BY <1>4, <1>8, <1>11 DEF Keeps
<1>13. Keeps(Vol, hurt, want)'
  BY <1>12
<1> QED BY <1>4, <1>13 DEF KeepInv

LEMMA KeepStep == FsckInv /\ FsckInv' /\ KeepInv /\ VfatNext => KeepInv'
<1> SUFFICES ASSUME FsckInv, FsckInv', KeepInv, VfatNext PROVE KeepInv'
  OBVIOUS
<1>1. ASSUME SoundVolume, pc \in Idle, NEW a \in Live, NEW i \in 1 .. NClus, NEW c \in Offered, Begin(a, i, c)
      PROVE  KeepInv'
  <2>1. /\ DevSame /\ pc' = "alloc" /\ new' = c /\ de' = a /\ at' = i /\ log' = block_alloc(c)
        /\ is_cluster_avail(c) /\ i <= de_cluster_count(Ent(a)) /\ UNCHANGED <<hurt, want>>
    BY <1>1 DEF Begin, DevSame
  <2>2. Keeps(Vol, hurt, want)
    BY <1>1 DEF KeepInv, Idle
  <2>3. Pre(Vol, a, i, c, hurt, want)
    BY <1>1, <2>1, <2>2, BeginPre DEF FsckInv
  <2>4. PICK v : v = Vol
    OBVIOUS
  <2>5. Vol' = v
    BY <2>1, <2>4 DEF DevSame, Vol
  <2>6. Pre(Vol', de', at', new', hurt', want')
    BY <2>1, <2>3, <2>4, <2>5
  <2>7. Write("fat", <<0, c>>, Bad) \in ToSet(write_fat(c, Bad))
    <3>1. 0 \in Copies
      BY VfatConsts
    <3>2. Write("fat", <<0, c>>, Bad) \in FatSet(c, Bad)
      BY <3>1 DEF FatSet
    <3> QED BY <3>2, FatLog
  <2>8. Write("fat", <<0, new'>>, Bad) \in ToSet(log')
    BY <2>1, <2>7 DEF block_alloc
  <2>9. Pre(Vol, de, at, new, hurt, want)'
    BY <2>6
  <2> QED BY <2>1, <2>8, <2>9 DEF KeepInv, Write, Bad, FatMax
<1>2. CASE FsckBegin \/ FatsDone \/ EntriesDone
  <2>1. /\ DevSame /\ UNCHANGED <<hurt, want>> /\ pc \in {"idle", "clean", "fats", "entries"}
        /\ pc' \in {"idle", "clean", "fats", "entries"}
    BY <1>2 DEF FsckBegin, FatsDone, EntriesDone, Rest, DevSame, Idle
  <2>2. Keeps(Vol, hurt, want)'
    BY <2>1, KeepSame DEF KeepInv
  <2> QED BY <2>1, <2>2 DEF KeepInv
<1>3. SoundVolume /\ pc \in Idle /\ (\E a \in Live, i \in 1 .. NClus, c \in Offered : Begin(a, i, c)) => KeepInv'
  BY <1>1
<1> QED BY <1>2, <1>3, KeepCommit, KeepCopy, KeepLink, KeepReplace, KeepEnd, KeepRepair, KeepTrunc DEF VfatNext

LEMMA KeepStays == KeepInv /\ UNCHANGED vfv => KeepInv'
<1> SUFFICES ASSUME KeepInv, UNCHANGED vfv PROVE KeepInv'
  OBVIOUS
<1>1. DevSame /\ UNCHANGED <<pc, de, at, new, log, replace, hurt, want>>
  BY DEF vfv, DevSame
<1>2. PICK v : v = Vol
  OBVIOUS
<1>3. Vol' = v
  BY <1>1, <1>2 DEF DevSame, Vol
<1>4. /\ pc \in {"idle", "clean", "fats", "entries"} => Keeps(v, hurt, want)
      /\ pc = "alloc" => /\ Pre(v, de, at, new, hurt, want)
                         /\ v.fat[new] = Bad \/ Write("fat", <<0, new>>, Bad) \in ToSet(log)
      /\ pc = "copied" => Pre(v, de, at, new, hurt, want) /\ HasCopy(v, de, at, new) /\ log = <<>>
      /\ pc = "relink" =>
            \/ /\ Pre(v, de, at, new, hurt, want) /\ HasCopy(v, de, at, new)
               /\ \E o : Ready(v, de, at, new, o, log, replace)
            \/ \E nx, o : Linked(v, de, at, new, nx, o, log, replace, hurt, want)
      /\ pc = "replace" => /\ Keeps(v, hurt, want)
                           /\ \E o \in Clus \ Held(v) : log \in Seq(FatSet(o, FAT_ENT_FREE))
  BY <1>2 DEF KeepInv, LinkedIn
<1>5. KeepInv'
  BY <1>1, <1>3, <1>4 DEF KeepInv, LinkedIn, Clus, FatSet, FAT_ENT_FREE, Copies, Write, Bad, FatMax
<1> QED BY <1>5

-----------------------------------------------------------------------------
(* The copies of the table: each cell has the same number in all of them,  *)
(* or will have when the writes left in the log are made.                  *)
Hits(w, n, c) == w.op = "fat" /\ w.where[1] = n /\ w.where[2] = c
Agree(f, l) ==
    \A c \in Cells : \E x : \A n \in Copies :
        /\ \A w \in ToSet(l) : Hits(w, n, c) => w.val = x
        /\ (\A w \in ToSet(l) : ~Hits(w, n, c)) => f[n][c] = x

(* fsck mends one cell at a time. *)
Mend(x) == IF cluster_bad_range(x) THEN Eof ELSE x
Mended(f) == \A n \in Copies, c \in Cells : Mend(f[n][c]) = Mend(f[0][c])

AgreeInv ==
    /\ stops \in Nat
    /\ stops = 0 => /\ pc # "fats" => Agree(fats, log)
                    /\ pc = "fats" => Mended(fats)

LEMMA AgreeNone ==
    ASSUME NEW f
    PROVE  Agree(f, <<>>) <=> \A n \in Copies, c \in Cells : f[n][c] = f[0][c]
<1>1. ToSet(<<>>) = {}
  BY DEF ToSet
<1>2. 0 \in Copies
  BY VfatConsts
<1>3. Agree(f, <<>>) <=> \A c \in Cells : \E x : \A n \in Copies : f[n][c] = x
  BY <1>1 DEF Agree
<1> QED BY <1>2, <1>3

LEMMA AgreeWrite ==
    ASSUME DevOk, IsLog(log), log # <<>>, Agree(fats, log), Apply(Head(log))
    PROVE  Agree(fats', Tail(log))
<1>1. PICK w, k : w = Head(log) /\ k = Tail(log)
  OBVIOUS
<1>2. w \in ToSet(log) /\ ToSet(log) = {w} \cup ToSet(k)
  <2>1. PICK S : log \in Seq(S)
    BY DEF IsLog
  <2> QED BY <1>1, <2>1, InLog
<1>3. fats = [n \in Copies |-> [c \in Cells |-> fats[n][c]]]
  BY DEF DevOk, FatsOk
<1>4. ASSUME NEW n \in Copies, NEW c \in Cells
      PROVE  fats'[n][c] = IF Hits(w, n, c) THEN w.val ELSE fats[n][c]
  <2>1. CASE w.op = "fat"
    <3>1. PICK i, s, v : i = w.where[1] /\ s = w.where[2] /\ v = w.val
      OBVIOUS
    <3>2. fats' = [fats EXCEPT ![i] = [fats[i] EXCEPT ![s] = v]]
      BY <1>1, <2>1, <3>1 DEF Apply
    <3>3. fats'[n] = IF n = i THEN [fats[i] EXCEPT ![s] = v] ELSE fats[n]
      BY <1>3, <3>2
    <3>4. fats[n] = [y \in Cells |-> fats[n][y]]
      BY <1>3
    <3>5. fats'[n][c] = IF n = i /\ c = s THEN v ELSE fats[n][c]
      BY <3>3, <3>4
    <3> QED BY <2>1, <3>1, <3>5 DEF Hits
  <2>2. CASE w.op # "fat"
    BY <1>1, <2>2 DEF Apply, Hits
  <2> QED BY <2>1, <2>2
<1>5. ASSUME NEW c \in Cells
      PROVE  \E x : \A n \in Copies :
                /\ \A z \in ToSet(k) : Hits(z, n, c) => z.val = x
                /\ (\A z \in ToSet(k) : ~Hits(z, n, c)) => fats'[n][c] = x
  <2>1. PICK x : \A n \in Copies :
                    /\ \A z \in ToSet(log) : Hits(z, n, c) => z.val = x
                    /\ (\A z \in ToSet(log) : ~Hits(z, n, c)) => fats[n][c] = x
    BY DEF Agree
  <2>2. ASSUME NEW n \in Copies
        PROVE  /\ \A z \in ToSet(k) : Hits(z, n, c) => z.val = x
               /\ (\A z \in ToSet(k) : ~Hits(z, n, c)) => fats'[n][c] = x
    BY <1>2, <1>4, <2>1
  <2> QED BY <2>2
<1> QED BY <1>1, <1>5 DEF Agree

(* The packets write a number to every copy. *)
LEMMA AgreeLog ==
    ASSUME NEW f, Agree(f, <<>>), NEW l, NEW c1, NEW v1, NEW B \in BOOLEAN, NEW c2, NEW v2,
           B => c1 # c2, FatSet(c1, v1) \subseteq ToSet(l), B => FatSet(c2, v2) \subseteq ToSet(l),
           \A w \in ToSet(l) : w.op = "fat" => w \in FatSet(c1, v1) \/ (B /\ w \in FatSet(c2, v2))
    PROVE  Agree(f, l)
<1>1. ASSUME NEW c, NEW v, NEW w \in FatSet(c, v)
      PROVE  w.val = v /\ w.where[2] = c
  BY <1>1 DEF FatSet, Write
<1>2. ASSUME NEW c, NEW v, NEW n \in Copies
      PROVE  \E w \in FatSet(c, v) : Hits(w, n, c)
  <2>1. PICK w : w = Write("fat", <<n, c>>, v)
    OBVIOUS
  <2>2. w \in FatSet(c, v) /\ Hits(w, n, c)
    BY <2>1 DEF FatSet, Hits, Write
  <2> QED BY <2>2
<1>3. ASSUME NEW c \in Cells
      PROVE  \E x : \A n \in Copies :
                /\ \A w \in ToSet(l) : Hits(w, n, c) => w.val = x
                /\ (\A w \in ToSet(l) : ~Hits(w, n, c)) => f[n][c] = x
  <2>1. CASE c = c1
    <3>1. ASSUME NEW n \in Copies
          PROVE  /\ \A w \in ToSet(l) : Hits(w, n, c) => w.val = v1
                 /\ ~(\A w \in ToSet(l) : ~Hits(w, n, c))
      <4>1. \A w \in ToSet(l) : Hits(w, n, c) => w.val = v1
        BY <1>1, <2>1 DEF Hits
      <4>2. PICK w \in FatSet(c1, v1) : Hits(w, n, c1)
        BY <1>2
      <4> QED BY <2>1, <4>1, <4>2
    <3> QED BY <3>1
  <2>2. CASE c # c1 /\ B /\ c = c2
    <3>1. ASSUME NEW n \in Copies
          PROVE  /\ \A w \in ToSet(l) : Hits(w, n, c) => w.val = v2
                 /\ ~(\A w \in ToSet(l) : ~Hits(w, n, c))
      <4>1. \A w \in ToSet(l) : Hits(w, n, c) => w.val = v2
        BY <1>1, <2>2 DEF Hits
      <4>2. PICK w \in FatSet(c2, v2) : Hits(w, n, c2)
        BY <1>2
      <4> QED BY <2>2, <4>1, <4>2
    <3> QED BY <3>1
  <2>3. CASE c # c1 /\ ~(B /\ c = c2)
    <3>1. \A n \in Copies, w \in ToSet(l) : ~Hits(w, n, c)
      BY <1>1, <2>3 DEF Hits
    <3>2. \A n \in Copies : f[n][c] = f[0][c]
      BY AgreeNone
    <3> QED BY <3>1, <3>2
  <2> QED BY <2>1, <2>2, <2>3
<1> QED BY <1>3 DEF Agree

LEMMA AgreeFat ==
    ASSUME NEW f, Agree(f, <<>>), NEW c, NEW v
    PROVE  Agree(f, write_fat(c, v))
<1>1. PICK l : l = write_fat(c, v)
  OBVIOUS
<1>2. ToSet(l) = FatSet(c, v)
  BY <1>1, FatLog
<1>3. PICK B : B = FALSE
  OBVIOUS
<1>4. Agree(f, l)
  BY <1>2, <1>3, AgreeLog
<1> QED BY <1>1, <1>4

LEMMA AgreeStarts == VfatInit => AgreeInv
<1> SUFFICES ASSUME VfatInit PROVE AgreeInv
  OBVIOUS
<1>1. PICK v \in Volumes : fats = [n \in 0 .. FatCount - 1 |-> v.fat]
  BY DEF VfatInit
<1>2. \A n \in Copies : fats[n] = fats[0]
  BY <1>1, VfatConsts DEF Copies
<1>3. pc = "idle" /\ log = <<>> /\ stops = 0
  BY DEF VfatInit
<1>4. Agree(fats, <<>>)
  BY <1>2, AgreeNone
<1> QED BY <1>3, <1>4 DEF AgreeInv

(* The writes that make a chain go through the copy say the same to every   *)
(* FAT.                                                                     *)
LEMMA LinkAgrees ==
    ASSUME FsckInv, KeepInv, Link, Agree(fats, <<>>)
    PROVE  Agree(fats, block_relink(de, at, new))
<1>1. DevOk /\ Pre(Vol, de, at, new, hurt, want) /\ HasCopy(Vol, de, at, new) /\ HasShape(Vol) /\ Vol.blk = blk
  BY VolShape DEF FsckInv, KeepInv, Link
<1>2. PICK l, o : l = block_relink(de, at, new) /\ o = ClustersOf(Vol, de)[at]
  OBVIOUS
<1>3. /\ de \in LiveOf(Vol) /\ at \in 1 .. Len(ClustersOf(Vol, de)) /\ new \notin Held(Vol)
  BY <1>1 DEF Pre
<1>4. WritesBoth(l, de, at, o, new)
  BY <1>1, <1>2, LinkIs
<1>5. PICK d, B : d = ClustersOf(Vol, de)[at - 1] /\ B = (at > 1)
  OBVIOUS
<1>6. B => new # d
  <2> SUFFICES ASSUME at > 1 PROVE new # d
    BY <1>5
  <2>1. PICK p : p = ClustersOf(Vol, de)
    OBVIOUS
  <2>2. de \in Places /\ p \in Seq(Clus)
    BY <1>1, <1>3, <2>1, LiveIn, ClustersIs
  <2>3. at - 1 \in DOMAIN p
    BY <1>3, <2>1, <2>2
  <2>4. d \in ToSet(p)
    BY <1>5, <2>1, <2>3 DEF ToSet
  <2> QED BY <1>3, <2>1, <2>4 DEF Held
<1>7. B \in BOOLEAN
  BY <1>5
<1>8. /\ FatSet(new, fats[0][o]) \subseteq ToSet(l)
      /\ B => FatSet(d, new) \subseteq ToSet(l)
      /\ \A w \in ToSet(l) : w.op = "fat" => w \in FatSet(new, fats[0][o]) \/ (B /\ w \in FatSet(d, new))
  BY <1>4, <1>5 DEF WritesBoth
<1>9. Agree(fats, l)
  BY <1>6, <1>7, <1>8, AgreeLog
<1> QED BY <1>2, <1>9

LEMMA AgreeStep == FsckInv /\ KeepInv /\ AgreeInv /\ VfatNext => AgreeInv'
<1> SUFFICES ASSUME FsckInv, KeepInv, AgreeInv, VfatNext PROVE AgreeInv'
  OBVIOUS
<1>1. DevOk /\ VfInv /\ stops \in Nat /\ (pc \notin Moving => log = <<>>)
  BY DEF FsckInv, VfInv, AgreeInv
<1>2. CASE LinkAborts \/ Kill
  <2>1. stops' = stops + 1
    BY <1>2 DEF LinkAborts, Kill
  <2> QED BY <1>1, <2>1 DEF AgreeInv
<1> SUFFICES ASSUME stops' = stops, stops = 0, ~(LinkAborts \/ Kill) PROVE AgreeInv'
  <2>1. CASE ~(LinkAborts \/ Kill)
    <3>1. stops' = stops
      BY <2>1 DEF VfatNext, Begin, Commit, typeinfo_phys_copy, Link, CommitReplace, Return, FsckBegin, repair_fat16_bad_range,
                  FatsDone, repair_trunc_file, EntriesDone
    <3>2. stops # 0 => AgreeInv'
      BY <1>1, <3>1 DEF AgreeInv
    <3> QED BY <2>1, <3>1, <3>2
  <2> QED BY <1>2, <2>1
(* It is enough that the copies and the log agree afterwards. *)
<1>3. ASSUME NEW f, NEW l, Agree(f, l), fats' = f, log' = l, pc' # "fats" PROVE AgreeInv'
  <2>1. Agree(fats', log')
    BY <1>3
  <2>2. Agree(fats, log)'
    BY <2>1
  <2> QED BY <1>1, <1>3, <2>2 DEF AgreeInv
<1>4. pc # "fats" => Agree(fats, log)
  BY DEF AgreeInv
<1>5. ASSUME pc \in Idle, NEW a \in Live, NEW i \in 1 .. NClus, NEW c \in Offered, Begin(a, i, c) PROVE AgreeInv'
  <2>1. fats' = fats /\ log' = write_fat(c, Bad) /\ pc' = "alloc" /\ log = <<>>
    BY <1>1, <1>5 DEF Begin, Idle, Moving, block_alloc
  <2>2. Agree(fats, <<>>)
    BY <1>4, <1>5, <2>1 DEF Idle
  <2> QED BY <1>3, <2>1, <2>2, AgreeFat
<1>6. CASE Commit
  <2>1. log # <<>> /\ Apply(Head(log)) /\ log' = Tail(log) /\ pc' = pc
    BY <1>6 DEF Commit
  <2>2. pc # "fats"
    BY <1>1, <2>1 DEF Moving
  <2>3. IsLog(log)
    BY <1>1 DEF VfInv, LogOk, IsLog
  <2>4. Agree(fats', Tail(log))
    BY <1>1, <1>4, <2>1, <2>2, <2>3, AgreeWrite
  <2> QED BY <1>3, <2>1, <2>2, <2>4
<1>7. CASE typeinfo_phys_copy \/ Return
  <2>1. /\ fats' = fats /\ pc # "fats" /\ pc' # "fats" /\ log' = log
    BY <1>7 DEF typeinfo_phys_copy, Return, Rest
  <2> QED BY <1>3, <1>4, <2>1
<1>8. CASE Link
  <2>1. pc = "copied" /\ fats' = fats /\ log' = block_relink(de, at, new) /\ pc' = "relink"
    BY <1>8 DEF Link
  <2>2. Agree(fats, <<>>)
    BY <1>4, <2>1 DEF KeepInv
  <2> QED BY <1>3, <1>8, <2>1, <2>2, LinkAgrees
<1>9. CASE CommitReplace
  <2>1. pc = "relink" /\ log = <<>> /\ fats' = fats /\ log' = replace /\ pc' = "replace"
    BY <1>9 DEF CommitReplace
  <2>2. PICK o : replace = write_fat(o, FAT_ENT_FREE)
    BY <2>1 DEF KeepInv, Ready, LinkedIn, Linked
  <2>3. Agree(fats, <<>>)
    BY <1>4, <2>1
  <2> QED BY <1>3, <2>1, <2>2, <2>3, AgreeFat
<1>10. CASE FsckBegin
  <2>1. pc \in Idle /\ pc' = "fats" /\ fats' = fats
    BY <1>10 DEF FsckBegin
  <2>2. Agree(fats, <<>>)
    BY <1>1, <1>4, <2>1 DEF Idle, Moving
  <2>3. \A n \in Copies, c \in Cells : fats[n][c] = fats[0][c]
    BY <2>2, AgreeNone
  <2>4. Mended(fats')
    BY <2>1, <2>3 DEF Mended
  <2>5. Mended(fats)'
    BY <2>4
  <2> QED BY <1>1, <2>1, <2>5 DEF AgreeInv
<1>11. CASE repair_fat16_bad_range
  <2>1. PICK y : y = CHOOSE x \in BadCells : \A z \in BadCells : x[1] < z[1] \/ (x[1] = z[1] /\ x[2] <= z[2])
    OBVIOUS
  <2>2. pc = "fats" /\ BadCells # {} /\ Apply(Write("fat", y, Eof)) /\ pc' = pc
    BY <1>11, <2>1 DEF repair_fat16_bad_range
  <2>3. y \in BadCells
    BY <2>1, <2>2, LeastBad
  <2>4. PICK i, s : i \in Copies /\ s \in Cells /\ y = <<i, s>> /\ cluster_bad_range(fats[i][s])
    BY <2>3 DEF BadCells, Copies
  <2>5. fats' = [fats EXCEPT ![i] = [fats[i] EXCEPT ![s] = Eof]]
    BY <2>2, <2>4 DEF Apply, Write
  <2>6. fats = [n \in Copies |-> [c \in Cells |-> fats[n][c]]] /\ 0 \in Copies
    BY <1>1, VfatConsts DEF DevOk, FatsOk
  <2>7. ~cluster_bad_range(Eof)
    BY VfatConsts DEF cluster_bad_range, FAT_START_ENT
  <2>8. ASSUME NEW n \in Copies, NEW c \in Cells PROVE Mend(fats'[n][c]) = Mend(fats[n][c])
    <3>1. fats'[n] = IF n = i THEN [fats[i] EXCEPT ![s] = Eof] ELSE fats[n]
      BY <2>5, <2>6
    <3>2. fats[n] = [z \in Cells |-> fats[n][z]]
      BY <2>6
    <3>3. fats'[n][c] = IF n = i /\ c = s THEN Eof ELSE fats[n][c]
      BY <3>1, <3>2
    <3> QED BY <2>4, <2>7, <3>3 DEF Mend
  <2>9. Mended(fats)
    BY <2>2 DEF AgreeInv
  <2>10. Mended(fats')
    BY <2>6, <2>8, <2>9 DEF Mended
  <2>11. Mended(fats)'
    BY <2>10
  <2> QED BY <1>1, <2>2, <2>11 DEF AgreeInv
<1>12. CASE FatsDone
  <2>1. pc = "fats" /\ BadCells = {} /\ pc' = "entries" /\ fats' = fats /\ log' = log /\ log = <<>>
    BY <1>1, <1>12 DEF FatsDone, Moving
  <2>2. Mended(fats) /\ 0 \in Copies
    BY <2>1, VfatConsts DEF AgreeInv
  <2>3. \A n \in Copies, c \in Cells : ~cluster_bad_range(fats[n][c])
    <3>1. ASSUME NEW n \in Copies, NEW c \in Cells PROVE ~cluster_bad_range(fats[n][c])
      <4>1. <<n, c>> \in (0 .. FatCount - 1) \X Cells /\ <<n, c>> \notin BadCells
        BY <2>1 DEF Copies
      <4> QED BY <4>1 DEF BadCells
    <3> QED BY <3>1
  <2>4. \A n \in Copies, c \in Cells : fats[n][c] = fats[0][c]
    BY <2>2, <2>3 DEF Mended, Mend
  <2>5. Agree(fats, <<>>)
    BY <2>4, AgreeNone
  <2> QED BY <1>3, <2>1, <2>5
<1>13. CASE repair_trunc_file \/ EntriesDone
  <2>1. pc = "entries" /\ pc' # "fats" /\ fats' = fats /\ log' = log
    BY <1>1, <1>13 DEF repair_trunc_file, EntriesDone, Rest, Moving
  <2> QED BY <1>3, <1>4, <2>1
<1>14. SoundVolume /\ pc \in Idle /\ (\E a \in Live, i \in 1 .. NClus, c \in Offered : Begin(a, i, c)) => AgreeInv'
  BY <1>5
<1> QED BY <1>6, <1>7, <1>8, <1>9, <1>10, <1>11, <1>12, <1>13, <1>14 DEF VfatNext

LEMMA AgreeStays == AgreeInv /\ UNCHANGED vfv => AgreeInv'
<1> SUFFICES ASSUME AgreeInv, UNCHANGED vfv PROVE AgreeInv'
  OBVIOUS
<1>1. fats' = fats /\ log' = log /\ pc' = pc /\ stops' = stops
  BY DEF vfv
<1>2. (Agree(fats, log) => Agree(fats', log')) /\ (Mended(fats) => Mended(fats'))
  BY <1>1
<1>3. (Agree(fats, log) => Agree(fats, log)') /\ (Mended(fats) => Mended(fats)')
  BY <1>2
<1> QED BY <1>1, <1>3 DEF AgreeInv

(* What the invariants say of the files. *)
LEMMA InvKeepsData == FsckInv /\ KeepInv /\ AgreeInv => KeepsData
<1> SUFFICES ASSUME FsckInv, KeepInv, AgreeInv PROVE KeepsData
  OBVIOUS
<1>1. DevOk /\ VfInv /\ HasShape(Vol) /\ Vol = [fat |-> Vol.fat, root |-> Vol.root, blk |-> Vol.blk]
  BY VolShape DEF FsckInv, Vol
<1>2. DataKept
  <2> SUFFICES ASSUME pc \in Idle PROVE InOrder(Vol) /\ (hurt \/ (NamesOf(Vol) = Wanted(want) /\ SoundVolume))
    BY DEF DataKept
  <2>1. Keeps(Vol, hurt, want)
    BY DEF KeepInv, Idle
  <2> QED BY <2>1 DEF Keeps, WholeAs, Safe, SoundVolume
<1>3. Safe(Vol)
  <2>1. CASE pc = "relink" /\ LinkedIn
    <3>1. PICK nx, o : Linked(Vol, de, at, new, nx, o, log, replace, hurt, want)
      BY <2>1 DEF LinkedIn
    <3>2. CASE Vol.fat[new] = nx
      <4>1. Keeps(Vol, hurt, want)
        BY <1>1, <3>1, <3>2, LinkedDone
      <4> QED BY <4>1 DEF Keeps
    <3>3. CASE Vol.fat[new] # nx
      <4>1. Vol.fat[new] = Bad
        BY <3>1, <3>3 DEF Linked
      <4> QED BY <1>1, <3>1, <4>1, LinkedSafe
    <3> QED BY <3>2, <3>3
  <2>2. CASE ~(pc = "relink" /\ LinkedIn)
    <3>1. pc \in Idle \cup {"fats", "entries"} \cup Moving
      BY <1>1 DEF VfInv
    <3>2. Keeps(Vol, hurt, want)
      BY <2>2, <3>1 DEF KeepInv, Pre, Moving, Idle
    <3> QED BY <3>2 DEF Keeps
  <2> QED BY <2>1, <2>2
<1>4. NoSharing
  BY <1>3 DEF Safe, NoSharing
<1>5. CopiesAgree
  <2> SUFFICES ASSUME pc \in Idle, stops = 0, NEW n \in 1 .. FatCount - 1 PROVE fats[n] = fats[0]
    BY DEF CopiesAgree
  <2>1. Agree(fats, <<>>)
    BY <1>1 DEF AgreeInv, VfInv, Idle, Moving
  <2>2. n \in Copies /\ 0 \in Copies
    BY VfatConsts DEF Copies
  <2>3. \A c \in Cells : fats[n][c] = fats[0][c]
    BY <2>1, <2>2, AgreeNone
  <2>4. fats[n] \in [Cells -> Nums] /\ fats[0] \in [Cells -> Nums]
    BY <1>1, <2>2 DEF DevOk, FatsOk
  <2> QED BY <2>3, <2>4
<1> QED BY <1>2, <1>4, <1>5 DEF KeepsData

(* Relocations, kills between any two writes and repairs keep the files:   *)
(* none shares a cluster, what is at rest has its data in order, and what  *)
(* was not damaged or cut has its name, its size and all of its chain      *)
(* (block_alloc, block_relink, write_de_cn, block_replace, the repairs).   *)
THEOREM FilesSurvive == DescSpec => []KeepsData
<1> DEFINE I == FsckInv /\ KeepInv /\ AgreeInv
<1>1. DescInit => I
  BY FsckStarts, KeepStarts, AgreeStarts DEF DescInit
<1>2. I /\ [DescNext]_descVars => I'
  <2>1. ASSUME I, VfatNext PROVE I'
    BY <2>1, FsckStep, KeepStep, AgreeStep
  <2>2. ASSUME I, UNCHANGED vfv PROVE I'
    BY <2>2, FsckStays, KeepStays, AgreeStays
  <2>3. [DescNext]_descVars => VfatNext \/ UNCHANGED vfv
    BY DEF DescNext, descVars
  <2> QED BY <2>1, <2>2, <2>3
<1>3. I => KeepsData
  BY InvKeepsData
<1> HIDE DEF I
<1> QED BY <1>1, <1>2, <1>3, PTL DEF DescSpec

-----------------------------------------------------------------------------
(* '.' and '..' of the directories.                                        *)
(*                                                                         *)
(* What the number at q is, or will be when the writes of l are made.      *)
WritesTo(w, q) == w.op = "lo" /\ w.where[1] = q[1] /\ w.where[2] = q[2]
Settles(v, l, q, x) ==
    /\ \A w \in ToSet(l) : WritesTo(w, q) => w.val = x
    /\ (\A w \in ToSet(l) : ~WritesTo(w, q)) => EntOf(v, q).cn = x

Lists(v, d, b) == EntOf(v, d).k = "dir" /\ b[1] \in ToSet(ClustersOf(v, d))

(* A directory names itself and its parent, or will. *)
DotsAre(v, l) ==
    \A b \in Folders(v) :
        /\ Settles(v, l, <<EntOf(v, b).cn, 0>>, EntOf(v, b).cn)
        /\ b[1] = 0 => Settles(v, l, <<EntOf(v, b).cn, 1>>, 0)
        /\ \A d \in LiveOf(v) : Lists(v, d, b) /\ ~InLast(ClustersOf(v, d), b[1]) =>
              Settles(v, l, <<EntOf(v, b).cn, 1>>, EntOf(v, d).cn)
DotsIn(v, l) == Shallow(v) /\ (Removed(v) = {} => DotsAre(v, l))

LEMMA SettlesNext ==
    ASSUME NEW v, NEW u, NEW q, NEW x, NEW l, IsLog(l), l # <<>>, Settles(v, l, q, x),
           NEW w, w = Head(l),
           WritesTo(w, q) => EntOf(u, q).cn = w.val, ~WritesTo(w, q) => EntOf(u, q).cn = EntOf(v, q).cn
    PROVE  Settles(u, Tail(l), q, x)
<1>1. PICK S : l \in Seq(S)
  BY DEF IsLog
<1>2. PICK t : t = Tail(l)
  OBVIOUS
<1>3. ToSet(l) = {w} \cup ToSet(t)
  BY <1>1, <1>2, InLog
<1>4. Settles(u, t, q, x)
  BY <1>3 DEF Settles
<1> QED BY <1>2, <1>4

LEMMA SettlesStill ==
    ASSUME NEW v, NEW u, NEW q, NEW x, NEW l, NEW k, Settles(v, l, q, x), EntOf(u, q).cn = EntOf(v, q).cn,
           \A w \in ToSet(l) \cup ToSet(k) : w.op # "lo"
    PROVE  Settles(u, k, q, x)
BY DEF Settles, WritesTo

LEMMA FolderAt ==
    ASSUME NEW v, HasShape(v), NEW b \in Folders(v)
    PROVE  /\ b \in LiveOf(v) /\ b \in Places /\ EntOf(v, b).k = "dir" /\ EntOf(v, b).cn \in Clus
           /\ ClustersOf(v, b) # <<>> /\ ClustersOf(v, b)[1] = EntOf(v, b).cn
           /\ EntOf(v, b).cn \in ToSet(ClustersOf(v, b)) /\ EntOf(v, b).cn \in Held(v)
<1>1. b \in LiveOf(v) /\ EntOf(v, b).k = "dir" /\ EntOf(v, b).cn \in Clus
  BY DEF Folders
<1>2. b \in Places
  BY <1>1, LiveIn
<1>3. PICK p : p = ClustersOf(v, b)
  OBVIOUS
<1>4. p \in Seq(Clus) /\ p # <<>> /\ p[1] = EntOf(v, b).cn
  BY <1>1, <1>2, <1>3, ClustersIs DEF IsChain, Path
<1>5. p[1] \in ToSet(p)
  BY <1>4 DEF ToSet
<1> QED BY <1>1, <1>2, <1>3, <1>4, <1>5 DEF Held

(* A step that leaves the chains alone, and the kinds and numbers of what  *)
(* a reader finds.                                                         *)
LEMMA DotsKept ==
    ASSUME NEW v, NEW u, HasShape(v), HasShape(u), NEW l, NEW k, DotsIn(v, l),
           LiveOf(u) = LiveOf(v),
           \A a \in LiveOf(v) : /\ ClustersOf(u, a) = ClustersOf(v, a)
                                /\ EntOf(u, a).k = EntOf(v, a).k /\ EntOf(u, a).cn = EntOf(v, a).cn,
           \A p \in InsideOf(v, LiveOf(v)) : EntOf(u, p).k = EntOf(v, p).k,
           \A c \in Held(v), s \in SlotsOf : \A x : Settles(v, l, <<c, s>>, x) => Settles(u, k, <<c, s>>, x)
    PROVE  DotsIn(u, k)
<1>1. Folders(u) = Folders(v)
  BY DEF Folders
<1>2. InsideOf(u, LiveOf(u)) = InsideOf(v, LiveOf(v))
  <2>1. {a \in LiveOf(u) : EntOf(u, a).k = "dir"} = {a \in LiveOf(v) : EntOf(v, a).k = "dir"}
    OBVIOUS
  <2>2. \A a \in LiveOf(v) : ToSet(ClustersOf(u, a)) \X SlotsOf = ToSet(ClustersOf(v, a)) \X SlotsOf
    OBVIOUS
  <2> QED BY <2>1, <2>2 DEF InsideOf
<1>4. Removed(u) = Removed(v)
  BY <1>2 DEF Removed
<1>5. Shallow(u)
  BY <1>2 DEF DotsIn, Shallow, NamedOf
<1>6. ASSUME Removed(v) = {}, NEW b \in Folders(v)
      PROVE  /\ Settles(u, k, <<EntOf(u, b).cn, 0>>, EntOf(u, b).cn)
             /\ b[1] = 0 => Settles(u, k, <<EntOf(u, b).cn, 1>>, 0)
             /\ \A d \in LiveOf(u) : Lists(u, d, b) /\ ~InLast(ClustersOf(u, d), b[1]) =>
                   Settles(u, k, <<EntOf(u, b).cn, 1>>, EntOf(u, d).cn)
  <2>1. PICK c : c = EntOf(v, b).cn
    OBVIOUS
  <2>2. c \in Held(v) /\ b \in LiveOf(v) /\ EntOf(u, b).cn = c
    BY <2>1, FolderAt
  <2>3. 0 \in SlotsOf /\ 1 \in SlotsOf
    BY ContentConsts
  <2>4. /\ Settles(v, l, <<c, 0>>, c)
        /\ b[1] = 0 => Settles(v, l, <<c, 1>>, 0)
        /\ \A d \in LiveOf(v) : Lists(v, d, b) /\ ~InLast(ClustersOf(v, d), b[1]) =>
              Settles(v, l, <<c, 1>>, EntOf(v, d).cn)
    BY <1>6, <2>1 DEF DotsIn, DotsAre
  <2>5. \A d \in LiveOf(v) : Lists(u, d, b) => Lists(v, d, b)
    BY DEF Lists
  <2> QED BY <2>2, <2>3, <2>4, <2>5
<1>7. Removed(u) = {} => DotsAre(u, k)
  BY <1>1, <1>4, <1>6 DEF DotsAre
<1> QED BY <1>5, <1>7 DEF DotsIn

LEMMA SettlesNone == \A v, q, x : Settles(v, <<>>, q, x) <=> EntOf(v, q).cn = x
<1>1. ToSet(<<>>) = {}
  BY DEF ToSet
<1> QED BY <1>1 DEF Settles

LEMMA ParentIs ==
    ASSUME NEW v, Unshared(v), NEW b \in LiveOf(v), NEW d \in LiveOf(v), Lists(v, d, b)
    PROVE  ParentOf(v, b) = d
<1>1. PICK p : p = ParentOf(v, b)
  OBVIOUS
<1>2. p \in LiveOf(v) /\ b[1] \in ToSet(ClustersOf(v, p))
  <2>1. p = CHOOSE y \in LiveOf(v) : EntOf(v, y).k = "dir" /\ b[1] \in ToSet(ClustersOf(v, y))
    BY <1>1 DEF ParentOf
  <2>2. \E y \in LiveOf(v) : EntOf(v, y).k = "dir" /\ b[1] \in ToSet(ClustersOf(v, y))
    BY DEF Lists
  <2> QED BY <2>1, <2>2, Zenon
<1>3. ToSet(ClustersOf(v, p)) \cap ToSet(ClustersOf(v, d)) # {}
  BY <1>2 DEF Lists
<1>4. p = d
  BY <1>2, <1>3 DEF Unshared
<1> QED BY <1>1, <1>4

(* When nothing is left in the log they are right, and conversely. *)
LEMMA DotsAtRest ==
    ASSUME NEW v, HasShape(v), Unshared(v)
    PROVE  DotsIn(v, <<>>) <=> Shallow(v) /\ DotsFit(v)
<1>1. ASSUME NEW b \in Folders(v)
      PROVE  /\ \A x : Settles(v, <<>>, <<EntOf(v, b).cn, 0>>, x) <=> v.blk[EntOf(v, b).cn][0].cn = x
             /\ \A x : Settles(v, <<>>, <<EntOf(v, b).cn, 1>>, x) <=> v.blk[EntOf(v, b).cn][1].cn = x
  <2>1. PICK c : c = EntOf(v, b).cn
    OBVIOUS
  <2>2. c # 0
    BY <2>1, FolderAt, VfatConsts
  <2>3. EntOf(v, <<c, 0>>) = v.blk[c][0] /\ EntOf(v, <<c, 1>>) = v.blk[c][1]
    BY <2>2 DEF EntOf
  <2> QED BY <2>1, <2>3, SettlesNone
<1>2. ASSUME DotsIn(v, <<>>), Removed(v) = {}, NEW b \in Folders(v)
      PROVE  /\ DotFits(v, b)
             /\ (b[1] # 0 => ~InLast(ClustersOf(v, ParentOf(v, b)), b[1])) => DotdotFits(v, b)
  <2>1. b \in LiveOf(v)
    BY <1>2, FolderAt
  <2>2. DotFits(v, b)
    BY <1>1, <1>2 DEF DotsIn, DotsAre, DotFits
  <2>3. CASE b[1] = 0
    BY <1>1, <1>2, <2>2, <2>3 DEF DotsIn, DotsAre, DotdotFits
  <2>4. CASE b[1] # 0
    <3>1. b \notin Tops
      BY <2>4 DEF Tops
    <3>2. PICK d \in LiveOf(v) : Lists(v, d, b)
      BY <2>1, <3>1, LivePlace DEF Lists
    <3>3. ParentOf(v, b) = d
      BY <2>1, <3>2, ParentIs
    <3>4. ~InLast(ClustersOf(v, d), b[1]) => v.blk[EntOf(v, b).cn][1].cn = EntOf(v, d).cn
      BY <1>1, <1>2, <3>2 DEF DotsIn, DotsAre
    <3> QED BY <2>2, <2>4, <3>3, <3>4 DEF DotdotFits
  <2> QED BY <2>3, <2>4
<1>3. ASSUME DotsFit(v), Removed(v) = {}, NEW b \in Folders(v)
      PROVE  /\ Settles(v, <<>>, <<EntOf(v, b).cn, 0>>, EntOf(v, b).cn)
             /\ b[1] = 0 => Settles(v, <<>>, <<EntOf(v, b).cn, 1>>, 0)
             /\ \A d \in LiveOf(v) : Lists(v, d, b) /\ ~InLast(ClustersOf(v, d), b[1]) =>
                   Settles(v, <<>>, <<EntOf(v, b).cn, 1>>, EntOf(v, d).cn)
  <2>1. b \in LiveOf(v)
    BY <1>3, FolderAt
  <2>2. /\ DotFits(v, b)
        /\ (b[1] # 0 => ~InLast(ClustersOf(v, ParentOf(v, b)), b[1])) => DotdotFits(v, b)
    BY <1>3 DEF DotsFit
  <2>3. Settles(v, <<>>, <<EntOf(v, b).cn, 0>>, EntOf(v, b).cn)
    BY <1>1, <2>2 DEF DotFits
  <2>4. b[1] = 0 => Settles(v, <<>>, <<EntOf(v, b).cn, 1>>, 0)
    BY <1>1, <2>2 DEF DotdotFits
  <2>5. ASSUME NEW d \in LiveOf(v), Lists(v, d, b), ~InLast(ClustersOf(v, d), b[1])
        PROVE  Settles(v, <<>>, <<EntOf(v, b).cn, 1>>, EntOf(v, d).cn)
    <3>1. ParentOf(v, b) = d
      BY <2>1, <2>5, ParentIs
    <3>2. b[1] # 0
      <4>1. ToSet(ClustersOf(v, d)) \subseteq Clus
        BY <2>5, HeldWhere
      <4> QED BY <2>5, <4>1, VfatConsts DEF Lists
    <3> QED BY <1>1, <2>2, <2>5, <3>1, <3>2 DEF DotdotFits
  <2> QED BY <2>3, <2>4, <2>5
<1> QED BY <1>2, <1>3 DEF DotsIn, DotsAre, DotsFit

(* The first slot of a kind, and where '.' and '..' are. *)
LEMMA FirstSlotLeast ==
    ASSUME NEW S, S \subseteq SlotsOf, NEW x \in S, \A y \in S : x <= y, NEW d
    PROVE  FirstSlot(S, d) = x
<1>1. S \subseteq Nat
  BY VfatConsts DEF SlotsOf
<1>2. PICK z : z = CHOOSE s \in S : \A t \in S : s <= t
  OBVIOUS
<1>3. z \in S /\ \A t \in S : z <= t
  BY <1>2, Zenon
<1>4. z = x
  BY <1>1, <1>3
<1>5. FirstSlot(S, d) = z
  BY <1>2, Zenon DEF FirstSlot
<1> QED BY <1>4, <1>5

LEMMA FolderDots ==
    ASSUME DevOk, Safe(Vol), NEW b \in Folders(Vol)
    PROVE  /\ blk[Ent(b).cn][0].k = "dot" /\ blk[Ent(b).cn][1].k = "dotdot"
           /\ Ent(<<Ent(b).cn, 0>>).k = "dot" /\ Ent(<<Ent(b).cn, 1>>).k = "dotdot"
<1>1. HasShape(Vol) /\ Vol.blk = blk
  BY VolShape
<1>2. PICK c : c = Ent(b).cn
  OBVIOUS
<1>3. b \in LiveOf(Vol) /\ EntOf(Vol, b).k = "dir" /\ c \in Clus /\ ClustersOf(Vol, b) # <<>> /\ ClustersOf(Vol, b)[1] = c
  BY <1>1, <1>2, FolderAt DEF Ent
<1>4. blk[c][0].k = "dot" /\ blk[c][1].k = "dotdot"
  BY <1>1, <1>3 DEF Safe, Dotted
<1>5. Ent(<<c, 0>>) = blk[c][0] /\ Ent(<<c, 1>>) = blk[c][1]
  BY <1>1, <1>3, VfatConsts DEF Ent, EntOf
<1> QED BY <1>2, <1>4, <1>5

LEMMA KidDots ==
    ASSUME DevOk, Safe(Vol), NEW b \in Folders(Vol)
    PROVE  find_dotdot_de(b) = <<Ent(b).cn, 1>>
<1> DEFINE S == {i \in SlotsOf : Ent(get_nth_de(Ent(b), i)).k = "dotdot"}
<1>1. b \in Places /\ Ent(b).cn \in Nums /\ 0 \in SlotsOf /\ 1 \in SlotsOf
  <2>1. b \in Places
    BY VolShape, FolderAt
  <2> QED BY <2>1, EntryAt, ContentConsts
<1>2. \A s \in SlotsOf : get_nth_de(Ent(b), s) = <<Ent(b).cn, s>>
  BY <1>1, FirstEntry
<1>3. 1 \in S /\ 0 \notin S
  BY <1>1, <1>2, FolderDots
<1>4. \A y \in S : 1 <= y
  BY <1>3, VfatConsts DEF SlotsOf
<1>5. S \subseteq SlotsOf /\ S # {}
  BY <1>3
<1>6. find_dotdot_de(b) = get_nth_de(Ent(b), FirstSlot(S, 0))
  BY <1>5, Zenon DEF find_dotdot_de
<1> HIDE DEF S
<1>7. FirstSlot(S, 0) = 1
  BY <1>3, <1>4, <1>5, FirstSlotLeast
<1> QED BY <1>1, <1>2, <1>6, <1>7

LEMMA CopyDot ==
    ASSUME DevOk, Safe(Vol), NEW a \in Folders(Vol), NEW n \in Clus,
           \A s \in SlotsOf : blk[n][s] = blk[Ent(a).cn][s]
    PROVE  find_dot_de(n) = <<n, 0>>
<1> DEFINE S == {s \in SlotsOf : blk[n][s].k = "dot"}
<1>1. 0 \in S
  BY FolderDots, ContentConsts
<1>2. S \subseteq SlotsOf /\ \A y \in S : 0 <= y
  BY VfatConsts DEF SlotsOf
<1>3. find_dot_de(n) = <<n, FirstSlot(S, 0)>>
  BY Zenon DEF find_dot_de
<1> HIDE DEF S
<1> QED BY <1>1, <1>2, <1>3, FirstSlotLeast

(* The loop over the entries of a directory comes to all but those of the  *)
(* last of several clusters.                                               *)
LEMMA KidIndex ==
    ASSUME DevOk, NEW a \in LiveOf(Vol), Ent(a).k = "dir", SoundOf(Vol), NEW b \in Places,
           b[1] \in ToSet(ClustersOf(Vol, a)), ~InLast(ClustersOf(Vol, a), b[1])
    PROVE  \E m \in 0 .. de_children_count(Ent(a)) - 1 : get_nth_de(Ent(a), m) = b
<1>1. HasShape(Vol) /\ a \in Places /\ Ent(a).cn \in Nums /\ Table(fats[0])
  <2>1. HasShape(Vol)
    BY VolShape
  <2>2. a \in Places
    BY <2>1, LiveIn
  <2>3. Table(fats[0])
    BY VfatConsts DEF DevOk, FatsOk, Table
  <2> QED BY <2>1, <2>2, <2>3, EntryAt
<1>2. PICK p : p = ClustersOf(Vol, a)
  OBVIOUS
<1>3. p # <<>> /\ fats[0][Last(p)] = Eof
  BY <1>1, <1>2, VolShape DEF SoundOf
<1>4. fat_chain_count(Ent(a).cn) = Len(p) /\ Path(p, fats[0], Ent(a).cn)
  BY <1>1, <1>2, <1>3, CountSound
<1>5. p \in Seq(Clus) /\ Len(p) \in Nat /\ Len(p) > 0 /\ p[1] = Ent(a).cn
  BY <1>3, <1>4 DEF Path
<1>6. de_children_count(Ent(a)) = Len(p) * DeC
  BY <1>4 DEF de_children_count, de_cluster_count, is_de_dir
<1>7. PICK k \in 1 .. Len(p) : b[1] = p[k]
  BY <1>2, <1>5 DEF ToSet
<1>8. b[1] \in Clus /\ b[2] \in SlotsOf /\ b = <<b[1], b[2]>>
  <2>1. b[1] \in Clus
    BY <1>5, <1>7
  <2> QED BY <2>1, VfatConsts DEF Places
<1>9. PICK q : q = IF Len(p) = 1 THEN 0 ELSE k
  OBVIOUS
<1>10. q \in 0 .. Len(p) - 1
  <2>1. CASE Len(p) = 1
    BY <1>9, <2>1
  <2>2. CASE Len(p) # 1
    <3>1. k # Len(p)
      <4>1. ~InLast(p, b[1])
        BY <1>2
      <4>2. Len(p) > 1
        <5>1. \A x : x \in Nat /\ x > 0 /\ x # 1 => x > 1
          OBVIOUS
        <5>2. Len(p) \in Nat /\ Len(p) > 0 /\ Len(p) # 1
          BY <1>5, <2>2, Zenon
        <5> QED BY <5>1, <5>2, Zenon
      <4>3. b[1] # Last(p)
        BY <4>1, <4>2, Zenon DEF InLast
      <4> QED BY <1>7, <4>3 DEF Last
    <3> QED BY <1>5, <1>9, <2>2, <3>1
  <2> QED BY <2>1, <2>2
<1>11. fat_chain_nth_cnum(Ent(a).cn, q) = b[1]
  <2>1. CASE Len(p) = 1
    BY <1>1, <1>5, <1>7, <1>9, <2>1, NthNum
  <2>2. CASE Len(p) # 1
    BY <1>1, <1>4, <1>7, <1>9, <2>2, NthOnPath
  <2> QED BY <2>1, <2>2
<1>12. PICK r : r = b[2]
  OBVIOUS
<1>13. PICK m : m = q * DeC + r
  OBVIOUS
<1>14. q \in Nat /\ DeC \in Nat \ {0} /\ r \in 0 .. DeC - 1
  BY <1>8, <1>10, <1>12, VfatConsts DEF SlotsOf
<1>15. m \in Nat /\ m \div DeC = q /\ m % DeC = r
  BY <1>13, <1>14, PartsAre
<1>16. m <= Len(p) * DeC - 1
  <2>1. (q + 1) * DeC <= Len(p) * DeC /\ Len(p) * DeC \in Nat /\ (q + 1) * DeC \in Nat
    BY <1>5, <1>10, <1>14, Products
  <2>2. (q + 1) * DeC = q * DeC + DeC /\ q * DeC \in Nat
    BY <1>14
  <2> QED BY <1>13, <1>14, <2>1, <2>2
<1>17. Len(p) * DeC \in Nat
  BY <1>5, <1>14
<1>18. m \in 0 .. de_children_count(Ent(a)) - 1
  BY <1>6, <1>15, <1>16, <1>17
<1>19. get_nth_de(Ent(a), m) = b
  BY <1>8, <1>11, <1>12, <1>15 DEF get_nth_de, get_nth_cnum
<1> QED BY <1>18, <1>19

(* What the loop comes to is a directory with a cluster.                   *)
LEMMA KidLive ==
    ASSUME DevOk, Shallow(Vol), Removed(Vol) = {}, NEW a \in LiveOf(Vol), Ent(a).k = "dir", SoundOf(Vol),
           NEW m \in GoodKids(a), NEW kid, kid = get_nth_de(Ent(a), m)
    PROVE  kid \in Folders(Vol) /\ Lists(Vol, a, kid)
<1>1. HasShape(Vol)
  BY VolShape
<1>2. m \in 0 .. de_children_count(Ent(a)) - 1 /\ Ent(kid).k \in {"dir", "deldir"}
  BY DEF GoodKids, is_good_dir
<1>3. kid[1] \in ToSet(ClustersOf(Vol, a)) /\ kid \in Places /\ kid[1] \in Clus /\ kid[2] \in SlotsOf
  BY <1>2, KidPlace
<1>4. kid \in InsideOf(Vol, LiveOf(Vol))
  <2>1. kid = <<kid[1], kid[2]>>
    BY <1>3 DEF Places
  <2>2. kid \in ToSet(ClustersOf(Vol, a)) \X SlotsOf
    BY <1>3, <2>1
  <2> QED BY <2>2 DEF InsideOf, Ent
<1>5. EntOf(Vol, kid).k = "dir"
  BY <1>2, <1>4 DEF Removed, Ent
<1>6. kid \in LiveOf(Vol)
  BY <1>4, <1>5 DEF Shallow, NamedOf
<1>7. ClustersOf(Vol, kid) # <<>>
  BY <1>6 DEF SoundOf
<1>8. EntOf(Vol, kid).cn \in Clus
  BY <1>1, <1>3, <1>7, ClustersIs DEF IsChain
<1> QED BY <1>3, <1>5, <1>6, <1>8 DEF Folders, Lists, Ent

(* The first clusters the packet of a relocation writes: '.' of the copy   *)
(* and '..' of what the loop comes to.                                     *)
KidDot(a, m) == find_dotdot_de(get_nth_de(Ent(a), m))
LoWrites(l, a, n) ==
    /\ \A w \in ToSet(l) : w.op = "lo" =>
          w.val = n /\ (w.where = find_dot_de(n) \/ \E m \in GoodKids(a) : w.where = KidDot(a, m))
    /\ Write("lo", find_dot_de(n), n) \in ToSet(l)
    /\ \A m \in GoodKids(a) : Write("lo", KidDot(a, m), n) \in ToSet(l)

LEMMA UpdateLos ==
    ASSUME DevOk, NEW a \in LiveOf(Vol), NEW n, NEW k, k = block_rel_update_de(a, n)
    PROVE  /\ \E S : k \in Seq(S)
           /\ k # <<>>
           /\ Ent(a).k # "dir" => \A w \in ToSet(Tail(k)) : w.op # "lo"
           /\ Ent(a).k = "dir" => LoWrites(Tail(k), a, n)
<1> DEFINE R == KidWrites(a, n)
           A == {Write("lo", a, n), Write("hi", a, 0)}
           B == {Write("lo", find_dot_de(n), n), Write("hi", find_dot_de(n), 0)}
<1>1. HasShape(Vol) /\ a \in Places /\ Ent(a).k \in {"file", "dir"}
  <2>1. HasShape(Vol)
    BY VolShape
  <2> QED BY <2>1, LiveIn, LiveWhere DEF Ent
<1>3. de_children_count(Ent(a)) \in Nat
  <2>1. fat_chain_count(Ent(a).cn) \in Nat
    BY CountNat
  <2>2. (Ent(a).sz + Bpc - 1) \div Bpc \in Nat
    <3>1. Ent(a).sz + Bpc - 1 \in Nat /\ Bpc \in Nat \ {0}
      BY <1>1, EntryAt, VfatConsts
    <3> QED BY <3>1, Parts
  <2>3. de_cluster_count(Ent(a)) \in Nat
    BY <2>1, <2>2 DEF de_cluster_count, file_cluster_count
  <2> QED BY <2>3, VfatConsts DEF de_children_count
<1>4. PICK x : x = write_de_cn(a, n)
  OBVIOUS
<1>5. x = <<Write("lo", a, n), Write("hi", a, 0)>>
  BY <1>4 DEF write_de_cn
<1>6. x \in Seq(A) /\ x # <<>> /\ Tail(x) = <<Write("hi", a, 0)>>
  BY <1>5
<1>7. \A w \in ToSet(Tail(x)) : w.op = "hi"
  <2>1. PICK h : h = Write("hi", a, 0)
    OBVIOUS
  <2>2. h.op = "hi" /\ <<h>> \in Seq({h}) /\ Tail(x) = <<h>>
    BY <1>6, <2>1 DEF Write
  <2>3. PICK t : t = Tail(x)
    OBVIOUS
  <2>4. t \in Seq({h})
    BY <2>2, <2>3
  <2>5. ToSet(t) \subseteq {h}
    BY <2>4, InLog
  <2> QED BY <2>2, <2>3, <2>5
<1>8. CASE Ent(a).k = "file"
  <2>1. k = x \o <<>>
    BY <1>4, <1>8, Zenon DEF block_rel_update_de, is_good_dir
  <2>2. k = x
    BY <1>6, <2>1
  <2> QED BY <1>6, <1>7, <1>8, <2>2
<1>9. CASE Ent(a).k = "dir"
  <2>1. PICK y : y = write_de_cn(find_dot_de(n), n)
    OBVIOUS
  <2>2. y \in Seq(B) /\ ToSet(y) = B
    <3>1. PICK d : d = find_dot_de(n)
      OBVIOUS
    <3>2. PICK f, g : f = Write("lo", d, n) /\ g = Write("hi", d, 0)
      OBVIOUS
    <3>3. y = <<f, g>>
      BY <2>1, <3>1, <3>2 DEF write_de_cn
    <3>4. ToSet(y) = {f, g} /\ y \in Seq({f, g})
      BY <3>3 DEF ToSet
    <3> QED BY <3>1, <3>2, <3>4
  <2>3. PICK z : z = write_fix_dotdot_n(a, n)
    OBVIOUS
  <2>4. /\ z \in Seq(R)
        /\ \A m \in GoodKids(a) : Write("lo", KidDot(a, m), n) \in ToSet(z)
    BY <1>3, <2>3, DotdotLog DEF KidDot
  <2>5. k = x \o (y \o z)
    BY <1>4, <1>9, <2>1, <2>3, Zenon DEF block_rel_update_de, is_good_dir, write_fix_dir_refs
  <2> HIDE DEF A, B, R
  <2>6. x \in Seq(A \cup B \cup R) /\ y \in Seq(A \cup B \cup R) /\ z \in Seq(A \cup B \cup R)
    BY <1>6, <2>2, <2>4
  <2>7. PICK t : t = y \o z
    OBVIOUS
  <2>8. t \in Seq(A \cup B \cup R) /\ ToSet(t) = ToSet(y) \cup ToSet(z)
    BY <2>6, <2>7, InBoth
  <2>9. /\ k \in Seq(A \cup B \cup R) /\ k # <<>>
        /\ ToSet(Tail(k)) = ToSet(Tail(x)) \cup ToSet(t)
    <3>1. k = x \o t
      BY <2>5, <2>7
    <3> QED BY <1>6, <2>6, <2>8, <3>1, InBoth
  <2>10. ToSet(z) \subseteq R
    BY <2>4, InLog
  <2>11. ASSUME NEW w \in ToSet(Tail(k)), w.op = "lo"
         PROVE  w.val = n /\ (w.where = find_dot_de(n) \/ \E m \in GoodKids(a) : w.where = KidDot(a, m))
    <3>1. CASE w \in ToSet(Tail(x))
      BY <1>7, <2>11, <3>1
    <3>2. CASE w \in B
      BY <2>11, <3>2 DEF B, Write
    <3>3. CASE w \in R
      <4>1. PICK m \in GoodKids(a) : w \in {Write("lo", KidDot(a, m), n), Write("hi", KidDot(a, m), 0)}
        BY <3>3, Zenon DEF R, KidWrites, KidDot
      <4> QED BY <2>11, <4>1 DEF Write
    <3> QED BY <2>2, <2>8, <2>9, <2>10, <2>11, <3>1, <3>2, <3>3
  <2>12. Write("lo", find_dot_de(n), n) \in ToSet(Tail(k))
    BY <2>2, <2>8, <2>9 DEF B
  <2>13. \A m \in GoodKids(a) : Write("lo", KidDot(a, m), n) \in ToSet(Tail(k))
    BY <2>4, <2>8, <2>9
  <2>14. LoWrites(Tail(k), a, n)
    BY <2>11, <2>12, <2>13 DEF LoWrites
  <2> QED BY <1>9, <2>9, <2>14
<1> QED BY <1>1, <1>8, <1>9

LEMMA RelinkLos ==
    ASSUME DevOk, NEW a \in LiveOf(Vol), NEW i, NEW n, NEW l, l = block_relink(a, i, n)
    PROVE  /\ ~(i = 1 /\ Ent(a).k = "dir") => \A w \in ToSet(Tail(l)) : w.op # "lo"
           /\ i = 1 /\ Ent(a).k = "dir" => LoWrites(Tail(l), a, n)
<1>1. PICK nx : nx = get_nth_cnum(Ent(a), i + 1)
  OBVIOUS
<1>2. PICK y : y = write_fat(n, nx)
  OBVIOUS
<1> DEFINE Y == FatSet(n, nx)
<1>3. y \in Seq(Y) /\ ToSet(y) = Y
  BY <1>2, FatLog
<1>4. \A w \in Y : w.op = "fat"
  BY DEF FatSet, Write
<1> HIDE DEF Y
<1>5. CASE i = 1
  <2>1. PICK k : k = block_rel_update_de(a, n)
    OBVIOUS
  <2>2. l = k \o y
    BY <1>1, <1>2, <1>5, <2>1, Zenon DEF block_relink
  <2>3. /\ \E S : k \in Seq(S)
        /\ k # <<>>
        /\ Ent(a).k # "dir" => \A w \in ToSet(Tail(k)) : w.op # "lo"
        /\ Ent(a).k = "dir" => LoWrites(Tail(k), a, n)
    BY <2>1, UpdateLos
  <2>4. PICK S : k \in Seq(S)
    BY <2>3
  <2>5. k \in Seq(S \cup Y) /\ y \in Seq(S \cup Y)
    BY <1>3, <2>4
  <2>6. PICK t, r : t = Tail(l) /\ r = Tail(k)
    OBVIOUS
  <2>7. ToSet(t) = ToSet(r) \cup Y
    BY <1>3, <2>2, <2>3, <2>5, <2>6, InBoth
  <2>8. Ent(a).k # "dir" => \A w \in ToSet(t) : w.op # "lo"
    BY <1>4, <2>3, <2>6, <2>7
  <2>9. Ent(a).k = "dir" => LoWrites(t, a, n)
    BY <1>4, <2>3, <2>6, <2>7 DEF LoWrites
  <2> QED BY <1>5, <2>6, <2>8, <2>9
<1>6. CASE i # 1
  <2>1. PICK k : k = write_fat(get_nth_cnum(Ent(a), i - 1), n)
    OBVIOUS
  <2>2. l = k \o y
    BY <1>1, <1>2, <1>6, <2>1, Zenon DEF block_relink
  <2> DEFINE S == FatSet(get_nth_cnum(Ent(a), i - 1), n)
  <2>3. k \in Seq(S) /\ k # <<>> /\ \A w \in ToSet(Tail(k)) : w.op = "fat"
    BY <2>1, FatLog
  <2> HIDE DEF S
  <2>5. k \in Seq(S \cup Y) /\ y \in Seq(S \cup Y)
    BY <1>3, <2>3
  <2>6. PICK t : t = Tail(l)
    OBVIOUS
  <2>7. ToSet(t) = ToSet(Tail(k)) \cup Y
    BY <1>3, <2>2, <2>3, <2>5, <2>6, InBoth
  <2> QED BY <1>4, <1>6, <2>3, <2>6, <2>7
<1> QED BY <1>5, <1>6

(* What the directories list has the same kinds when a cluster is renamed. *)
LEMMA InsideRenamed ==
    ASSUME NEW v, NEW u, HasShape(v), HasShape(u), NEW o, NEW n, Renames(v, u, o, n)
    PROVE  /\ \A q \in InsideOf(v, LiveOf(v)) :
                 Put(o, n, q) \in InsideOf(u, LiveOf(u)) /\ EntOf(u, Put(o, n, q)).k = EntOf(v, q).k
           /\ \A p \in InsideOf(u, LiveOf(u)) : \E q \in InsideOf(v, LiveOf(v)) : p = Put(o, n, q)
<1>1. /\ LiveOf(u) = {Put(o, n, a) : a \in LiveOf(v)}
      /\ \A a \in LiveOf(v) : EntOf(u, Put(o, n, a)).k = EntOf(v, a).k
      /\ \A a \in LiveOf(v) : ToSet(ClustersOf(u, Put(o, n, a))) = {Sub(o, n, c) : c \in ToSet(ClustersOf(v, a))}
  BY LiveRenamed
<1>2. Held(v) \subseteq Clus /\ \A a \in LiveOf(v) : ToSet(ClustersOf(v, a)) \subseteq Held(v)
  BY HeldWhere
<1>3. ASSUME NEW q \in InsideOf(v, LiveOf(v))
      PROVE  Put(o, n, q) \in InsideOf(u, LiveOf(u)) /\ EntOf(u, Put(o, n, q)).k = EntOf(v, q).k
  <2>1. PICK a \in LiveOf(v) : EntOf(v, a).k = "dir" /\ q \in ToSet(ClustersOf(v, a)) \X SlotsOf
    BY <1>3 DEF InsideOf
  <2>2. PICK c \in ToSet(ClustersOf(v, a)), s \in SlotsOf : q = <<c, s>>
    BY <2>1
  <2>3. Put(o, n, q) = <<Sub(o, n, c), s>>
    BY <2>2 DEF Put
  <2>4. Sub(o, n, c) \in ToSet(ClustersOf(u, Put(o, n, a))) /\ Put(o, n, a) \in LiveOf(u)
        /\ EntOf(u, Put(o, n, a)).k = "dir"
    BY <1>1, <2>1, <2>2
  <2>5. Put(o, n, q) \in InsideOf(u, LiveOf(u))
    BY <2>3, <2>4 DEF InsideOf
  <2>6. c # 0 /\ Sub(o, n, c) # 0
    BY <1>2, <2>2, VfatConsts DEF Renames, Sub
  <2>7. EntOf(v, q) = v.blk[c][s] /\ EntOf(u, Put(o, n, q)) = u.blk[Sub(o, n, c)][s]
    BY <2>2, <2>3, <2>6 DEF EntOf
  <2>8. u.blk[Sub(o, n, c)][s].k = v.blk[c][s].k
    BY <2>1, <2>2 DEF Renames
  <2> QED BY <2>5, <2>7, <2>8
<1>4. ASSUME NEW p \in InsideOf(u, LiveOf(u))
      PROVE  \E q \in InsideOf(v, LiveOf(v)) : p = Put(o, n, q)
  <2>1. PICK x \in LiveOf(u) : EntOf(u, x).k = "dir" /\ p \in ToSet(ClustersOf(u, x)) \X SlotsOf
    BY <1>4 DEF InsideOf
  <2>2. PICK a \in LiveOf(v) : x = Put(o, n, a)
    BY <1>1, <2>1
  <2>3. PICK y \in ToSet(ClustersOf(u, x)), s \in SlotsOf : p = <<y, s>>
    BY <2>1
  <2>4. PICK c \in ToSet(ClustersOf(v, a)) : y = Sub(o, n, c)
    BY <1>1, <2>2, <2>3
  <2>5. PICK q : q = <<c, s>>
    OBVIOUS
  <2>6. p = Put(o, n, q)
    BY <2>3, <2>4, <2>5 DEF Put
  <2>7. q \in InsideOf(v, LiveOf(v))
    <3>1. EntOf(v, a).k = "dir"
      BY <1>1, <2>1, <2>2
    <3> QED BY <2>3, <2>4, <2>5, <3>1 DEF InsideOf
  <2> QED BY <2>6, <2>7
<1> QED BY <1>3, <1>4

LEMMA FolderRenamed ==
    ASSUME NEW v, NEW u, HasShape(v), HasShape(u), NEW o, NEW n, Renames(v, u, o, n), NEW b \in LiveOf(v)
    PROVE  /\ Put(o, n, b) \in Folders(u) <=> b \in Folders(v)
           /\ b \in Folders(v) => EntOf(u, Put(o, n, b)).cn = Sub(o, n, EntOf(v, b).cn)
<1>1. PICK x : x = Put(o, n, b)
  OBVIOUS
<1>2. /\ x \in LiveOf(u) /\ EntOf(u, x).k = EntOf(v, b).k
      /\ ClustersOf(u, x) = [k \in DOMAIN ClustersOf(v, b) |-> Sub(o, n, ClustersOf(v, b)[k])]
  BY <1>1, LiveRenamed DEF Renames
<1>3. x \in Places /\ b \in Places
  BY <1>2, LiveIn
<1>4. PICK p, q : p = ClustersOf(v, b) /\ q = ClustersOf(u, x)
  OBVIOUS
<1>5. p \in Seq(Clus) /\ q \in Seq(Clus) /\ q = [k \in 1 .. Len(p) |-> Sub(o, n, p[k])]
  BY <1>2, <1>3, <1>4, ClustersIs
<1>6. /\ p = <<>> <=> EntOf(v, b).cn \notin Clus
      /\ p # <<>> => p[1] = EntOf(v, b).cn
      /\ q = <<>> <=> EntOf(u, x).cn \notin Clus
      /\ q # <<>> => q[1] = EntOf(u, x).cn
  BY <1>3, <1>4, ClustersIs DEF IsChain, Path
<1>7. p = <<>> <=> q = <<>>
  BY <1>5
<1>8. p # <<>> => q[1] = Sub(o, n, p[1])
  BY <1>5
<1>9. Put(o, n, b) \in Folders(u) <=> b \in Folders(v)
  BY <1>1, <1>2, <1>6, <1>7 DEF Folders
<1>10. b \in Folders(v) => EntOf(v, b).cn \in Clus
  BY DEF Folders
<1> QED BY <1>1, <1>6, <1>7, <1>8, <1>9, <1>10

LEMMA MovedShallow ==
    ASSUME NEW v, NEW u, HasShape(v), HasShape(u), NEW o, NEW n, Renames(v, u, o, n), Shallow(v)
    PROVE  Shallow(u) /\ (Removed(u) = {} => Removed(v) = {})
<1>1. Removed(u) = {} => Removed(v) = {}
  BY InsideRenamed DEF Removed
<1>2. ASSUME NEW p \in InsideOf(u, LiveOf(u)), EntOf(u, p).k \in {"file", "dir"}
      PROVE  p \in LiveOf(u)
  <2>1. PICK q \in InsideOf(v, LiveOf(v)) : p = Put(o, n, q)
    BY <1>2, InsideRenamed
  <2>2. EntOf(v, q).k \in {"file", "dir"}
    BY <1>2, <2>1, InsideRenamed
  <2>3. q \in LiveOf(v)
    BY <2>2 DEF Shallow, NamedOf
  <2> QED BY <2>1, <2>3, LiveRenamed
<1> QED BY <1>1, <1>2 DEF Shallow, NamedOf

(* A folder by its first cluster. *)
LEMMA FolderBy ==
    ASSUME NEW v, HasShape(v), Unshared(v), NEW b \in Folders(v), NEW d \in LiveOf(v),
           EntOf(v, b).cn \in ToSet(ClustersOf(v, d))
    PROVE  b = d
BY FolderAt DEF Unshared

(* What stands, and what is written, where '.' and '..' of a directory are *)
(* after a cluster was relinked.                                           *)
DotsMove(u, o, n) ==
    \A b \in Folders(Vol), s \in {0, 1} :
        EntOf(u, <<Sub(o, n, Ent(b).cn), s>>).cn = Ent(<<Ent(b).cn, s>>).cn
DotsWritten(l, a, i, o, n) ==
    \A w \in ToSet(l), b \in Folders(Vol), s \in {0, 1} :
        WritesTo(w, <<Sub(o, n, Ent(b).cn), s>>) =>
            /\ i = 1 /\ Ent(a).k = "dir" /\ w.val = n
            /\ s = 0 => b = a
            /\ s = 1 => b # a /\ Lists(Vol, a, b)

LEMMA MovedNumber ==
    ASSUME DevOk, Safe(Vol), NEW a \in LiveOf(Vol), NEW i, NEW o, NEW n \in Clus, n \notin Held(Vol),
           \A s \in SlotsOf : blk[n][s] = blk[o][s],
           NEW u, Moved(Vol, u, a, i, o, n)
    PROVE  DotsMove(u, o, n)
<1>0. SUFFICES ASSUME NEW b \in Folders(Vol), NEW s \in {0, 1}
               PROVE  EntOf(u, <<Sub(o, n, Ent(b).cn), s>>).cn = Ent(<<Ent(b).cn, s>>).cn
  BY DEF DotsMove
<1>1. HasShape(Vol) /\ Vol.blk = blk
  BY VolShape
<1>2. PICK c : c = Ent(b).cn
  OBVIOUS
<1>3. c \in Clus /\ c # 0 /\ n # 0 /\ s \in SlotsOf
  BY <1>1, <1>2, FolderAt, VfatConsts, ContentConsts DEF Ent
<1>4. Ent(<<c, s>>) = blk[c][s] /\ Ent(<<n, s>>) = blk[n][s]
  BY <1>1, <1>3 DEF Ent, EntOf
<1>5. a[1] # n
  BY <1>1, <1>3, HeldWhere
<1>6. <<c, s>> # a
  <2>1. Ent(<<c, s>>).k \in {"dot", "dotdot"}
    BY <1>2, FolderDots
  <2>2. Ent(a).k \in {"file", "dir"}
    BY LiveWhere DEF Ent
  <2> QED BY <2>1, <2>2
<1>7. \A x \in Places : x # a => EntOf(u, x) = Ent(x)
  BY DEF Moved, Ent
<1>8. CASE c = o
  <2>1. PICK p : p = <<n, s>>
    OBVIOUS
  <2>2. p \in Places /\ p # a
    BY <1>3, <1>5, <2>1 DEF Places
  <2>3. EntOf(u, p) = blk[n][s]
    BY <1>4, <1>7, <2>1, <2>2
  <2>4. blk[n][s] = blk[c][s]
    BY <1>3, <1>8
  <2> QED BY <1>2, <1>4, <1>8, <2>1, <2>3, <2>4 DEF Sub
<1>9. CASE c # o
  <2>1. PICK p : p = <<c, s>>
    OBVIOUS
  <2>2. p \in Places /\ p # a
    BY <1>3, <1>6, <2>1 DEF Places
  <2> QED BY <1>2, <1>7, <1>9, <2>1, <2>2 DEF Sub
<1> QED BY <1>8, <1>9

LEMMA MovedFirst ==
    ASSUME DevOk, Safe(Vol), SoundOf(Vol), NEW a \in LiveOf(Vol), Ent(a).k = "dir",
           NEW o, o = ClustersOf(Vol, a)[1]
    PROVE  a \in Folders(Vol) /\ Ent(a).cn = o
<1>1. HasShape(Vol) /\ a \in Places /\ ClustersOf(Vol, a) # <<>>
  BY VolShape, LiveIn DEF SoundOf
<1>2. Ent(a).cn = o /\ Ent(a).cn \in Clus
  BY <1>1, ClustersIs DEF IsChain, Path, Ent
<1> QED BY <1>2 DEF Folders, Ent

LEMMA MovedWrites ==
    ASSUME DevOk, Safe(Vol), SoundOf(Vol), Shallow(Vol), Removed(Vol) = {},
           NEW a \in LiveOf(Vol), NEW i \in 1 .. Len(ClustersOf(Vol, a)), NEW o, o = ClustersOf(Vol, a)[i],
           NEW n \in Clus, n \notin Held(Vol), \A s \in SlotsOf : blk[n][s] = blk[o][s],
           NEW l, l = block_relink(a, i, n)
    PROVE  DotsWritten(Tail(l), a, i, o, n)
<1>0. SUFFICES ASSUME NEW w \in ToSet(Tail(l)), NEW b \in Folders(Vol), NEW s \in {0, 1},
                      WritesTo(w, <<Sub(o, n, Ent(b).cn), s>>)
               PROVE  /\ i = 1 /\ Ent(a).k = "dir" /\ w.val = n
                      /\ s = 0 => b = a
                      /\ s = 1 => b # a /\ Lists(Vol, a, b)
  BY Zenon DEF DotsWritten
<1>1. HasShape(Vol) /\ Unshared(Vol)
  BY VolShape DEF Safe
<1>2. w.op = "lo" /\ w.where[1] = Sub(o, n, Ent(b).cn) /\ w.where[2] = s
  <2>1. PICK q : q = <<Sub(o, n, Ent(b).cn), s>>
    OBVIOUS
  <2>2. w.op = "lo" /\ w.where[1] = q[1] /\ w.where[2] = q[2]
    BY <1>0, <2>1, Zenon DEF WritesTo
  <2> QED BY <2>1, <2>2
<1>3. i = 1 /\ Ent(a).k = "dir" /\ LoWrites(Tail(l), a, n)
  BY <1>2, RelinkLos
<1>4. w.val = n /\ (w.where = find_dot_de(n) \/ \E m \in GoodKids(a) : w.where = KidDot(a, m))
  BY <1>2, <1>3 DEF LoWrites
<1>5. a \in Folders(Vol) /\ Ent(a).cn = o
  BY <1>3, MovedFirst
<1>6. Ent(b).cn \in Held(Vol) /\ b \in LiveOf(Vol) /\ o \in ToSet(ClustersOf(Vol, a))
  BY <1>1, <1>5, FolderAt DEF Ent
<1>7. CASE w.where = find_dot_de(n)
  <2>1. w.where = <<n, 0>>
    BY <1>5, <1>7, CopyDot
  <2>2. s = 0 /\ Ent(b).cn = o
    BY <1>2, <1>6, <2>1 DEF Sub
  <2>3. b = a
    BY <1>1, <1>6, <2>2, FolderBy DEF Ent
  <2> QED BY <1>3, <1>4, <2>2, <2>3
<1>8. CASE \E m \in GoodKids(a) : w.where = KidDot(a, m)
  <2>1. PICK m \in GoodKids(a) : w.where = KidDot(a, m)
    BY <1>8
  <2>2. PICK kid : kid = get_nth_de(Ent(a), m)
    OBVIOUS
  <2>3. kid \in Folders(Vol) /\ Lists(Vol, a, kid)
    BY <1>3, <2>2, KidLive
  <2>4. w.where = <<Ent(kid).cn, 1>>
    BY <2>1, <2>2, <2>3, KidDots DEF KidDot
  <2>5. s = 1 /\ Ent(kid).cn = Sub(o, n, Ent(b).cn) /\ Ent(kid).cn \in Held(Vol)
        /\ Ent(kid).cn \in ToSet(ClustersOf(Vol, kid)) /\ kid \in LiveOf(Vol)
    BY <1>1, <1>2, <2>3, <2>4, FolderAt DEF Ent
  <2>6. Ent(b).cn \in ToSet(ClustersOf(Vol, kid))
    BY <2>5 DEF Sub
  <2>7. b = kid
    BY <1>1, <2>5, <2>6, FolderBy DEF Ent
  <2>8. b # a
    BY <1>1, <2>3, <2>7, OwnAway DEF Lists
  <2> QED BY <1>3, <1>4, <2>3, <2>5, <2>7, <2>8
<1> QED BY <1>4, <1>7, <1>8

(* Once the pointer to a new cluster is written, the rest of the packet    *)
(* makes '.' and '..' right.                                               *)
LEMMA MovedDots ==
    ASSUME DevOk, Safe(Vol), SoundOf(Vol), DotsIn(Vol, <<>>),
           NEW a \in LiveOf(Vol), NEW i \in 1 .. Len(ClustersOf(Vol, a)), NEW o, o = ClustersOf(Vol, a)[i],
           NEW n \in Clus, n \notin Held(Vol), \A s \in SlotsOf : blk[n][s] = blk[o][s],
           NEW l, l = block_relink(a, i, n), NEW u, HasShape(u), Moved(Vol, u, a, i, o, n)
    PROVE  DotsIn(u, Tail(l))
<1>1. HasShape(Vol) /\ Unshared(Vol) /\ Vol.blk = blk
  BY VolShape DEF Safe
<1>2. Renames(Vol, u, o, n) /\ o # n /\ o \in Held(Vol)
  BY <1>1, MovedKeeps
<1>3. /\ LiveOf(u) = {Put(o, n, b) : b \in LiveOf(Vol)}
      /\ \A b \in LiveOf(Vol) : EntOf(u, Put(o, n, b)).k = EntOf(Vol, b).k
      /\ \A b \in LiveOf(Vol) : ToSet(ClustersOf(u, Put(o, n, b))) = {Sub(o, n, c) : c \in ToSet(ClustersOf(Vol, b))}
  BY <1>1, <1>2, LiveRenamed
<1>4. Shallow(Vol) /\ Shallow(u) /\ (Removed(u) = {} => Removed(Vol) = {})
  BY <1>1, <1>2, MovedShallow DEF DotsIn
<1>5. PICK t : t = Tail(l)
  OBVIOUS
<1>6. SUFFICES ASSUME Removed(Vol) = {} PROVE DotsAre(u, t)
  BY <1>4, <1>5 DEF DotsIn
<1>7. DotsAre(Vol, <<>>)
  BY <1>6 DEF DotsIn
<1>8. o \in Clus /\ o # 0 /\ n # 0
  BY <1>1, <1>2, HeldWhere, VfatConsts
<1>9. DotsWritten(t, a, i, o, n)
  BY <1>4, <1>5, <1>6, MovedWrites
<1>10. DotsMove(u, o, n)
  BY MovedNumber
(* The first cluster that was moved is that of its own directory. *)
<1>11. ASSUME NEW b \in LiveOf(Vol), ClustersOf(Vol, b) # <<>>, ClustersOf(Vol, b)[1] = o PROVE b = a /\ i = 1
  <2>1. PICK p, q : p = ClustersOf(Vol, a) /\ q = ClustersOf(Vol, b)
    OBVIOUS
  <2>2. a \in Places /\ b \in Places
    BY <1>1, LiveIn
  <2>3. p \in Seq(Clus) /\ q \in Seq(Clus) /\ Path(p, Vol.fat, EntOf(Vol, a).cn) /\ p # <<>> /\ Vol.fat[Last(p)] = Eof
    BY <1>1, <2>1, <2>2, ClustersIs DEF IsChain, SoundOf
  <2>4. o \in ToSet(p) /\ o \in ToSet(q)
    BY <1>11, <2>1, <2>3 DEF ToSet
  <2>5. b = a
    BY <1>1, <2>1, <2>4 DEF Unshared
  <2>6. 1 \in 1 .. Len(p) /\ i \in 1 .. Len(p) /\ p[1] = p[i]
    BY <1>11, <2>1, <2>3, <2>5
  <2> QED BY <2>3, <2>5, <2>6, NoRepeat
<1>12. ASSUME NEW b \in Folders(Vol)
       PROVE  /\ Settles(u, t, <<Sub(o, n, Ent(b).cn), 0>>, Sub(o, n, Ent(b).cn))
              /\ b[1] = 0 => Settles(u, t, <<Sub(o, n, Ent(b).cn), 1>>, 0)
              /\ \A d \in LiveOf(Vol) : Lists(Vol, d, b) /\ ~InLast(ClustersOf(Vol, d), b[1]) =>
                    Settles(u, t, <<Sub(o, n, Ent(b).cn), 1>>, Sub(o, n, Ent(d).cn))
  <2>1. PICK c, e : c = Ent(b).cn /\ e = Sub(o, n, c)
    OBVIOUS
  <2>8. 0 \in {0, 1} /\ 1 \in {0, 1} /\ 1 # 0
    OBVIOUS
  <2>9. /\ EntOf(u, <<e, 0>>).cn = Ent(<<c, 0>>).cn
        /\ EntOf(u, <<e, 1>>).cn = Ent(<<c, 1>>).cn
    BY <1>10, <2>1, <2>8, Zenon DEF DotsMove
  <2>10. ASSUME NEW w \in ToSet(t), WritesTo(w, <<e, 0>>)
         PROVE  i = 1 /\ Ent(a).k = "dir" /\ w.val = n /\ b = a
    BY <1>9, <2>1, <2>8, <2>10, Zenon DEF DotsWritten
  <2>11. ASSUME NEW w \in ToSet(t), WritesTo(w, <<e, 1>>)
         PROVE  i = 1 /\ Ent(a).k = "dir" /\ w.val = n /\ b # a /\ Lists(Vol, a, b)
    BY <1>9, <2>1, <2>8, <2>11, Zenon DEF DotsWritten
  <2>2. b \in LiveOf(Vol) /\ Ent(b).k = "dir" /\ ClustersOf(Vol, b) # <<>> /\ ClustersOf(Vol, b)[1] = c
        /\ c \in Held(Vol) /\ c # n
    BY <1>1, <2>1, FolderAt DEF Ent
  <2>3. /\ Ent(<<c, 0>>).cn = c
        /\ b[1] = 0 => Ent(<<c, 1>>).cn = 0
        /\ \A d \in LiveOf(Vol) : Lists(Vol, d, b) /\ ~InLast(ClustersOf(Vol, d), b[1]) =>
              Ent(<<c, 1>>).cn = Ent(d).cn
    BY <1>7, <2>1, SettlesNone DEF DotsAre, Ent
  <2>4. EntOf(u, <<e, 0>>).cn = c /\ EntOf(u, <<e, 1>>).cn = Ent(<<c, 1>>).cn
    BY <2>3, <2>9
  <2>5. Settles(u, t, <<e, 0>>, e)
    <3>1. CASE c = o
      <4>1. b = a /\ i = 1 /\ e = n
        BY <1>11, <2>1, <2>2, <3>1 DEF Sub
      <4>2. a \in Folders(Vol) /\ LoWrites(t, a, n) /\ Ent(a).cn = o
        BY <1>5, <2>1, <2>2, <3>1, <4>1, RelinkLos
      <4>3. find_dot_de(n) = <<n, 0>>
        BY <4>2, CopyDot
      <4>4. PICK w : w = Write("lo", <<n, 0>>, n)
        OBVIOUS
      <4>5. w \in ToSet(t) /\ WritesTo(w, <<e, 0>>)
        BY <4>1, <4>2, <4>3, <4>4 DEF LoWrites, WritesTo, Write
      <4>6. \A x \in ToSet(t) : WritesTo(x, <<e, 0>>) => x.val = n
        BY <2>10
      <4> QED BY <4>1, <4>5, <4>6 DEF Settles
    <3>2. CASE c # o
      <4>1. e = c
        BY <2>1, <3>2 DEF Sub
      <4>2. \A x \in ToSet(t) : ~WritesTo(x, <<e, 0>>)
        <5> SUFFICES ASSUME NEW x \in ToSet(t), WritesTo(x, <<e, 0>>) PROVE FALSE
          OBVIOUS
        <5>1. i = 1 /\ Ent(a).k = "dir" /\ b = a
          BY <2>10
        <5>2. c = o
          BY <2>2, <5>1
        <5> QED BY <3>2, <5>2
      <4> QED BY <2>4, <4>1, <4>2 DEF Settles
    <3> QED BY <3>1, <3>2
  <2>6. ASSUME b[1] = 0 PROVE Settles(u, t, <<e, 1>>, 0)
    <3>1. \A x \in ToSet(t) : ~WritesTo(x, <<e, 1>>)
      <4> SUFFICES ASSUME NEW x \in ToSet(t), WritesTo(x, <<e, 1>>) PROVE FALSE
        OBVIOUS
      <4>1. Lists(Vol, a, b)
        BY <2>11
      <4>2. b[1] \in Clus
        BY <1>1, <4>1, HeldWhere DEF Lists
      <4> QED BY <2>6, <4>2, VfatConsts
    <3> QED BY <2>3, <2>4, <2>6, <3>1 DEF Settles
  <2>7. ASSUME NEW d \in LiveOf(Vol), Lists(Vol, d, b), ~InLast(ClustersOf(Vol, d), b[1])
        PROVE  Settles(u, t, <<e, 1>>, Sub(o, n, Ent(d).cn))
    <3>1. Ent(d).k = "dir" /\ ClustersOf(Vol, d) # <<>> /\ ClustersOf(Vol, d)[1] = Ent(d).cn
      <4>1. d \in Places /\ ClustersOf(Vol, d) # <<>>
        BY <1>1, LiveIn DEF SoundOf
      <4> QED BY <1>1, <2>7, <4>1, ClustersIs DEF IsChain, Path, Lists, Ent
    <3>2. CASE Ent(d).cn = o
      <4>1. d = a /\ i = 1 /\ Sub(o, n, Ent(d).cn) = n
        BY <1>11, <3>1, <3>2 DEF Sub
      <4>2. b # a
        BY <1>1, <2>7, <4>1, OwnAway DEF Lists
      <4>3. c # o /\ e = c
        BY <1>11, <2>1, <2>2, <4>2 DEF Sub
      <4>4. b \in Places
        BY <1>1, <2>2, LiveIn
      <4>5. PICK m \in 0 .. de_children_count(Ent(a)) - 1 : get_nth_de(Ent(a), m) = b
        BY <2>7, <3>1, <4>1, <4>4, KidIndex DEF Lists
      <4>6. m \in GoodKids(a) /\ KidDot(a, m) = <<c, 1>>
        BY <2>1, <2>2, <4>5, KidDots DEF GoodKids, is_good_dir, KidDot
      <4>7. LoWrites(t, a, n)
        BY <1>5, <3>1, <4>1, RelinkLos
      <4>8. PICK w : w = Write("lo", <<c, 1>>, n)
        OBVIOUS
      <4>9. w \in ToSet(t) /\ WritesTo(w, <<e, 1>>)
        BY <4>3, <4>6, <4>7, <4>8 DEF LoWrites, WritesTo, Write
      <4>10. \A x \in ToSet(t) : WritesTo(x, <<e, 1>>) => x.val = n
        BY <2>11
      <4> QED BY <4>1, <4>9, <4>10 DEF Settles
    <3>3. CASE Ent(d).cn # o
      <4>1. Sub(o, n, Ent(d).cn) = Ent(d).cn
        BY <3>3 DEF Sub
      <4>2. \A x \in ToSet(t) : ~WritesTo(x, <<e, 1>>)
        <5> SUFFICES ASSUME NEW x \in ToSet(t), WritesTo(x, <<e, 1>>) PROVE FALSE
          OBVIOUS
        <5>1. i = 1 /\ Lists(Vol, a, b)
          BY <2>11
        <5>2. a = d
          BY <1>1, <2>7, <5>1 DEF Lists, Unshared
        <5> QED BY <3>1, <3>3, <5>1, <5>2
      <4> QED BY <2>3, <2>4, <2>7, <4>1, <4>2 DEF Settles
    <3> QED BY <3>2, <3>3
  <2> QED BY <2>1, <2>5, <2>6, <2>7
<1>13. ASSUME NEW x \in Folders(u)
       PROVE  /\ Settles(u, t, <<EntOf(u, x).cn, 0>>, EntOf(u, x).cn)
              /\ x[1] = 0 => Settles(u, t, <<EntOf(u, x).cn, 1>>, 0)
              /\ \A y \in LiveOf(u) : Lists(u, y, x) /\ ~InLast(ClustersOf(u, y), x[1]) =>
                    Settles(u, t, <<EntOf(u, x).cn, 1>>, EntOf(u, y).cn)
  <2>1. PICK b \in LiveOf(Vol) : x = Put(o, n, b)
    BY <1>3, <1>13 DEF Folders
  <2>2. b \in Folders(Vol) /\ EntOf(u, x).cn = Sub(o, n, Ent(b).cn)
    BY <1>1, <1>2, <1>13, <2>1, FolderRenamed DEF Ent
  <2>3. b[1] = 0 \/ b[1] \in Held(Vol)
    BY <1>1, HeldWhere
  <2>4. x[1] = Sub(o, n, b[1]) /\ (x[1] = 0 => b[1] = 0)
    BY <1>8, <2>1 DEF Put, Sub
  <2>5. ASSUME NEW y \in LiveOf(u), Lists(u, y, x), ~InLast(ClustersOf(u, y), x[1])
        PROVE  Settles(u, t, <<EntOf(u, x).cn, 1>>, EntOf(u, y).cn)
    <3>1. PICK d \in LiveOf(Vol) : y = Put(o, n, d)
      BY <1>3
    <3>2. PICK p, q : p = ClustersOf(Vol, d) /\ q = ClustersOf(u, y)
      OBVIOUS
    <3>3. p \in Seq(Clus) /\ p # <<>> /\ q = [k \in 1 .. Len(p) |-> Sub(o, n, p[k])] /\ Len(p) \in Nat
      <4>1. d \in Places /\ p # <<>>
        BY <1>1, <3>2, LiveIn DEF SoundOf
      <4>2. p \in Seq(Clus)
        BY <1>1, <3>2, <4>1, ClustersIs
      <4>3. q = [k \in DOMAIN p |-> Sub(o, n, p[k])]
        BY <1>2, <3>1, <3>2 DEF Renames
      <4> QED BY <4>1, <4>2, <4>3
    <3>4. EntOf(Vol, d).k = "dir"
      BY <1>3, <2>5, <3>1 DEF Lists
    <3>5. PICK c \in ToSet(p) : x[1] = Sub(o, n, c)
      BY <1>3, <2>5, <3>1, <3>2 DEF Lists
    <3>6. c \in Held(Vol) /\ c # n /\ b[1] # n
      BY <1>1, <1>8, <2>3, <3>2, <3>5, HeldWhere
    <3>7. b[1] = c
      BY <2>4, <3>5, <3>6 DEF Sub
    <3>8. Lists(Vol, d, b)
      BY <3>2, <3>4, <3>5, <3>7 DEF Lists
    <3>9. Len(q) = Len(p) /\ q[Len(p)] = Sub(o, n, p[Len(p)])
      BY <3>3
    <3>10. ~InLast(p, b[1])
      <4>1. Last(p) = b[1] => Last(q) = x[1]
        BY <2>4, <3>9 DEF Last
      <4>2. ~InLast(q, x[1])
        BY <2>5, <3>2
      <4> QED BY <3>9, <4>1, <4>2, Zenon DEF InLast
    <3>11. Settles(u, t, <<EntOf(u, x).cn, 1>>, Sub(o, n, Ent(d).cn))
      BY <1>12, <2>2, <3>2, <3>8, <3>10
    <3>12. d \in Folders(Vol)
      <4>1. d \in Places
        BY <1>1, LiveIn
      <4>2. EntOf(Vol, d).cn \in Clus
        BY <1>1, <3>2, <3>3, <4>1, ClustersIs DEF IsChain
      <4> QED BY <3>4, <4>2 DEF Folders
    <3>13. EntOf(u, y).cn = Sub(o, n, Ent(d).cn)
      BY <1>1, <1>2, <3>1, <3>12, FolderRenamed DEF Ent
    <3> QED BY <3>11, <3>13
  <2> QED BY <1>12, <2>2, <2>4, <2>5
<1> QED BY <1>13 DEF DotsAre

(* A write into the table, or beside the files, leaves them as they are.   *)
FatOnly(l) == \A w \in ToSet(l) : w.op # "lo"

LEMMA DotsBeside ==
    ASSUME NEW v, NEW u, HasShape(v), HasShape(u), Beside(v, u), NEW l, NEW k, DotsIn(v, l), FatOnly(l), FatOnly(k),
           \A c \in Held(v), s \in SlotsOf : EntOf(u, <<c, s>>).cn = EntOf(v, <<c, s>>).cn
    PROVE  DotsIn(u, k)
<1>1. /\ LiveOf(u) = LiveOf(v)
      /\ \A a \in LiveOf(v) : ClustersOf(u, a) = ClustersOf(v, a) /\ EntOf(u, a) = EntOf(v, a)
  BY BesideSame
<1>2. ASSUME NEW p \in InsideOf(v, LiveOf(v)) PROVE EntOf(u, p).k = EntOf(v, p).k
  <2>1. PICK a \in LiveOf(v) : EntOf(v, a).k = "dir" /\ p \in ToSet(ClustersOf(v, a)) \X SlotsOf
    BY <1>2 DEF InsideOf
  <2>2. PICK c \in ToSet(ClustersOf(v, a)), s \in SlotsOf : p = <<c, s>>
    BY <2>1
  <2>3. c # 0
    BY <2>2, HeldWhere, VfatConsts
  <2> QED BY <2>1, <2>2, <2>3 DEF Beside, EntOf
<1>3. \A c \in Held(v), s \in SlotsOf : \A x : Settles(v, l, <<c, s>>, x) => Settles(u, k, <<c, s>>, x)
  <2> SUFFICES ASSUME NEW c \in Held(v), NEW s \in SlotsOf, NEW x, Settles(v, l, <<c, s>>, x)
               PROVE  Settles(u, k, <<c, s>>, x)
    OBVIOUS
  <2>1. PICK q : q = <<c, s>>
    OBVIOUS
  <2>2. EntOf(u, q).cn = EntOf(v, q).cn /\ Settles(v, l, q, x)
    BY <2>1
  <2>3. \A w \in ToSet(l) \cup ToSet(k) : w.op # "lo"
    BY DEF FatOnly
  <2>4. Settles(u, k, q, x)
    BY <2>2, <2>3, SettlesStill
  <2> QED BY <2>1, <2>4
<1> QED BY <1>1, <1>2, <1>3, DotsKept

LEMMA DotsSame ==
    ASSUME NEW v, NEW u, HasShape(v), HasShape(u), NEW o, Renames(v, u, o, o),
           \A x \in Places : EntOf(u, x).cn = EntOf(v, x).cn,
           NEW l, NEW k, DotsIn(v, l), FatOnly(l), FatOnly(k)
    PROVE  DotsIn(u, k)
<1>1. \A a \in LiveOf(v) : a \in Places /\ Put(o, o, a) = a
  BY LiveIn, PutSame
<1>2. \A c : Sub(o, o, c) = c
  BY DEF Sub
<1>3. LiveOf(u) = LiveOf(v)
  <2>1. LiveOf(u) = {Put(o, o, a) : a \in LiveOf(v)}
    BY LiveRenamed
  <2> QED BY <1>1, <2>1
<1>4. \A a \in LiveOf(v) : EntOf(u, a).k = EntOf(v, a).k
  BY <1>1, LiveRenamed
<1>5. ASSUME NEW a \in LiveOf(v) PROVE ClustersOf(u, a) = ClustersOf(v, a)
  <2>1. PICK p : p = ClustersOf(v, a)
    OBVIOUS
  <2>2. p \in Seq(Clus)
    BY <1>1, <2>1, ClustersIs
  <2>3. ClustersOf(u, a) = [i \in DOMAIN p |-> Sub(o, o, p[i])]
    BY <1>1, <2>1 DEF Renames
  <2>4. ClustersOf(u, a) = [i \in DOMAIN p |-> p[i]]
    BY <1>2, <2>3
  <2> QED BY <2>1, <2>2, <2>4
<1>6. ASSUME NEW p \in InsideOf(v, LiveOf(v)) PROVE EntOf(u, p).k = EntOf(v, p).k
  <2>1. LiveOf(v) \in SUBSET Places
    BY LiveIn
  <2>2. p \in Places
    BY <2>1, InsideAt
  <2>3. Put(o, o, p) = p
    BY <2>2, PutSame
  <2> QED BY <2>3, InsideRenamed
<1>7. \A a \in LiveOf(v) : EntOf(u, a).cn = EntOf(v, a).cn
  BY <1>1
<1>8. \A c \in Held(v), s \in SlotsOf : \A x : Settles(v, l, <<c, s>>, x) => Settles(u, k, <<c, s>>, x)
  <2> SUFFICES ASSUME NEW c \in Held(v), NEW s \in SlotsOf, NEW x, Settles(v, l, <<c, s>>, x)
               PROVE  Settles(u, k, <<c, s>>, x)
    OBVIOUS
  <2>1. PICK q : q = <<c, s>>
    OBVIOUS
  <2>2. q \in Places
    BY <2>1, HeldWhere DEF Places
  <2>3. EntOf(u, q).cn = EntOf(v, q).cn /\ Settles(v, l, q, x)
    BY <2>1, <2>2
  <2>4. \A w \in ToSet(l) \cup ToSet(k) : w.op # "lo"
    BY DEF FatOnly
  <2>5. Settles(u, k, q, x)
    BY <2>3, <2>4, SettlesStill
  <2> QED BY <2>1, <2>5
<1> QED BY <1>3, <1>4, <1>5, <1>6, <1>7, <1>8, DotsKept

LEMMA BesideItself == \A v : Beside(v, v)
BY DEF Beside

LEMMA DotsOther ==
    ASSUME NEW v, HasShape(v), NEW l, NEW k, DotsIn(v, l), FatOnly(l), FatOnly(k)
    PROVE  DotsIn(v, k)
BY BesideItself, DotsBeside

(* The next write of a log. *)
NumberNext(v, u, w) ==
    \A c \in Held(v), s \in SlotsOf :
        /\ WritesTo(w, <<c, s>>) => EntOf(u, <<c, s>>).cn = w.val
        /\ ~WritesTo(w, <<c, s>>) => EntOf(u, <<c, s>>).cn = EntOf(v, <<c, s>>).cn

LEMMA DotsNext ==
    ASSUME NEW v, NEW u, HasShape(v), HasShape(u), Beside(v, u), NEW l, IsLog(l), l # <<>>, DotsIn(v, l),
           NumberNext(v, u, Head(l))
    PROVE  DotsIn(u, Tail(l))
<1>1. /\ LiveOf(u) = LiveOf(v)
      /\ \A a \in LiveOf(v) : ClustersOf(u, a) = ClustersOf(v, a) /\ EntOf(u, a) = EntOf(v, a)
  BY BesideSame
<1>2. ASSUME NEW p \in InsideOf(v, LiveOf(v)) PROVE EntOf(u, p).k = EntOf(v, p).k
  <2>1. PICK a \in LiveOf(v) : EntOf(v, a).k = "dir" /\ p \in ToSet(ClustersOf(v, a)) \X SlotsOf
    BY <1>2 DEF InsideOf
  <2>2. PICK c \in ToSet(ClustersOf(v, a)), s \in SlotsOf : p = <<c, s>>
    BY <2>1
  <2>3. c # 0
    BY <2>2, HeldWhere, VfatConsts
  <2> QED BY <2>1, <2>2, <2>3 DEF Beside, EntOf
<1>3. PICK w, k : w = Head(l) /\ k = Tail(l)
  OBVIOUS
<1>4. \A c \in Held(v), s \in SlotsOf : \A x : Settles(v, l, <<c, s>>, x) => Settles(u, k, <<c, s>>, x)
  <2> SUFFICES ASSUME NEW c \in Held(v), NEW s \in SlotsOf, NEW x, Settles(v, l, <<c, s>>, x)
               PROVE  Settles(u, k, <<c, s>>, x)
    OBVIOUS
  <2>1. PICK q : q = <<c, s>>
    OBVIOUS
  <2>2. /\ WritesTo(w, q) => EntOf(u, q).cn = w.val
        /\ ~WritesTo(w, q) => EntOf(u, q).cn = EntOf(v, q).cn
    BY <1>3, <2>1, Zenon DEF NumberNext
  <2>3. Settles(v, l, q, x)
    BY <2>1
  <2>4. Settles(u, Tail(l), q, x)
    BY <1>3, <2>2, <2>3, SettlesNext
  <2> QED BY <1>3, <2>1, <2>4
<1>5. DotsIn(u, k)
  BY <1>1, <1>2, <1>4, DotsKept
<1> QED BY <1>3, <1>5

LEMMA NumberStill ==
    ASSUME NEW v, NEW w, w.op # "lo"
    PROVE  NumberNext(v, v, w)
BY DEF NumberNext, WritesTo

LEMMA NumberLo ==
    ASSUME NEW v, NEW u, HasShape(v), NEW w, w.op = "lo", LoOf(v, u, w.where, w.val)
    PROVE  NumberNext(v, u, w)
<1> SUFFICES ASSUME NEW c \in Held(v), NEW s \in SlotsOf
             PROVE  /\ WritesTo(w, <<c, s>>) => EntOf(u, <<c, s>>).cn = w.val
                    /\ ~WritesTo(w, <<c, s>>) => EntOf(u, <<c, s>>).cn = EntOf(v, <<c, s>>).cn
  BY Zenon DEF NumberNext
<1>1. PICK q : q = <<c, s>>
  OBVIOUS
<1>2. q \in Places
  BY <1>1, HeldWhere DEF Places
<1>3. EntOf(u, q) = IF q[1] = w.where[1] /\ q[2] = w.where[2] THEN [EntOf(v, q) EXCEPT !.cn = w.val] ELSE EntOf(v, q)
  BY <1>2 DEF LoOf
<1>4. PICK y : y = EntOf(v, q)
  OBVIOUS
<1>5. y = [k |-> y.k, nm |-> y.nm, cn |-> y.cn, sz |-> y.sz]
  BY <1>2, <1>4, EntryOf DEF IsEntry
<1>6. [y EXCEPT !.cn = w.val].cn = w.val
  BY <1>5
<1>7. WritesTo(w, q) <=> q[1] = w.where[1] /\ q[2] = w.where[2]
  BY DEF WritesTo
<1> QED BY <1>1, <1>3, <1>4, <1>6, <1>7

(* A write of a relink. *)
LEMMA LinkedDots ==
    ASSUME NEW v, NEW u, HasShape(v), HasShape(u),
           NEW a, NEW i, NEW n, NEW nx, NEW o, NEW l, NEW r, NEW h, NEW x,
           Linked(v, a, i, n, nx, o, l, r, h, x), l # <<>>, Wrote(v, u, Head(l)), DotsIn(Aim(v, n, nx), l)
    PROVE  DotsIn(Aim(u, n, nx), Tail(l))
<1>1. PICK w : w = Head(l)
  OBVIOUS
<1>2. IsLog(l) /\ w \in ToSet(l)
  <2>1. PICK S : l \in Seq(S)
    BY DEF Linked, IsLog
  <2>2. ToSet(l) = {w} \cup ToSet(Tail(l))
    BY <1>1, <2>1, InLog
  <2> QED BY <2>1, <2>2 DEF IsLog
<1>3. PICK t, y : t = Aim(v, n, nx) /\ y = Aim(u, n, nx)
  OBVIOUS
<1>4. n \in Clus /\ n \in Cells /\ nx \in Nums
  BY VfatConsts DEF Linked
<1>5. HasShape(t) /\ HasShape(y)
  BY <1>3, <1>4, AimShape
<1>6. Harmless(t, n, nx, w) /\ DotsIn(t, l)
  BY <1>2, <1>3 DEF Linked
<1>7. CASE y = t /\ w.op # "lo"
  <2>1. DotsIn(y, Tail(l))
    BY <1>1, <1>2, <1>5, <1>6, <1>7, BesideItself, NumberStill, DotsNext
  <2> QED BY <1>3, <2>1
<1>8. CASE w.op = "hi" \/ (w.op = "fat" /\ w.where[1] # 0)
  <2>1. u = v
    BY <1>1, <1>8 DEF Wrote
  <2> QED BY <1>3, <1>7, <1>8, <2>1
<1>9. CASE w.op = "fat" /\ w.where = <<0, n>> /\ w.val = nx
  <2>1. u = t
    BY <1>1, <1>3, <1>4, <1>9 DEF Wrote
  <2>2. t.fat = [v.fat EXCEPT ![n] = nx] /\ t.root = v.root /\ t.blk = v.blk
    BY <1>3 DEF Aim
  <2>3. v.fat \in [Cells -> 0 .. Eof]
    BY DEF HasShape
  <2>4. [t.fat EXCEPT ![n] = nx] = t.fat
    BY <1>4, <2>2, <2>3
  <2>5. y = t
    BY <1>3, <2>1, <2>2, <2>4 DEF Aim
  <2> QED BY <1>7, <1>9, <2>5
<1>10. CASE w.op = "lo" /\ Away(t, w.where)
  <2>1. LoOf(v, u, w.where, w.val)
    BY <1>1, <1>10 DEF Wrote
  <2>2. LoOf(t, y, w.where, w.val)
    <3>1. u.fat = v.fat
      BY <2>1 DEF LoOf
    <3>2. y.fat = t.fat
      BY <1>3, <3>1 DEF Aim
    <3>3. (\A b : EntOf(t, b) = EntOf(v, b)) /\ (\A b : EntOf(y, b) = EntOf(u, b))
      BY <1>3, <1>4, AimShape
    <3> QED BY <2>1, <3>2, <3>3 DEF LoOf
  <2>3. Beside(t, y)
    BY <1>5, <1>10, <2>2, LoBeside
  <2>4. NumberNext(t, y, w)
    BY <1>5, <1>10, <2>2, NumberLo
  <2>5. DotsIn(y, Tail(l))
    BY <1>1, <1>2, <1>5, <1>6, <2>3, <2>4, DotsNext
  <2> QED BY <1>3, <2>5
<1> QED BY <1>6, <1>8, <1>9, <1>10 DEF Harmless

(* As long as nothing was cut short: what the writes in the log leave.     *)
RelinkDots(v, a, i, n, l, r, h, x) ==
    \/ /\ Pre(v, a, i, n, h, x) /\ HasCopy(v, a, i, n)
       /\ \E o : /\ Ready(v, a, i, n, o, l, r)
                 /\ \A u : HasShape(u) /\ Moved(v, u, a, i, o, n) => DotsIn(u, Tail(l))
    \/ \E nx, o : Linked(v, a, i, n, nx, o, l, r, h, x) /\ DotsIn(Aim(v, n, nx), l)

DotInv ==
    stops = 0 => /\ pc # "relink" => DotsIn(Vol, log)
                 /\ pc = "relink" => RelinkDots(Vol, de, at, new, log, replace, hurt, want)

LEMMA DotStarts == VfatInit => DotInv
<1> SUFFICES ASSUME VfatInit PROVE DotInv
  OBVIOUS
<1>1. PICK v \in Volumes : /\ fats = [n \in 0 .. FatCount - 1 |-> v.fat]
                           /\ root = v.root /\ blk = v.blk /\ hurt = v.hurt /\ want = v.want
  BY DEF VfatInit
<1>2. HasShape(v) /\ Unshared(v) /\ Shallow(v) /\ DotsFit(v)
  BY VfatAssumption, ContentAssumption, DotsAssumption DEF IsVolume
<1>3. DotsIn(v, <<>>)
  BY <1>2, DotsAtRest
<1>4. Vol.fat = v.fat /\ Vol.root = v.root /\ Vol.blk = v.blk
  BY <1>1, VfatConsts DEF Vol, Copies
<1>5. HasShape(Vol) /\ \A b : EntOf(Vol, b) = EntOf(v, b)
  BY <1>2, <1>4 DEF HasShape, EntOf
<1>6. Beside(v, Vol)
  BY <1>4, <1>5 DEF Beside
<1>7. FatOnly(<<>>)
  BY DEF FatOnly, ToSet
<1>8. DotsIn(Vol, <<>>)
  BY <1>2, <1>3, <1>5, <1>6, <1>7, DotsBeside
<1>9. pc = "idle" /\ log = <<>>
  BY DEF VfatInit
<1> QED BY <1>8, <1>9 DEF DotInv

LEMMA RelinkWrite ==
    ASSUME NEW v, NEW u, HasShape(v), HasShape(u), NEW a, NEW i, NEW n, NEW l, NEW r, NEW h, NEW x,
           RelinkDots(v, a, i, n, l, r, h, x), l # <<>>, Wrote(v, u, Head(l))
    PROVE  RelinkDots(u, a, i, n, Tail(l), r, h, x)
<1>1. ASSUME Pre(v, a, i, n, h, x), HasCopy(v, a, i, n), NEW o, Ready(v, a, i, n, o, l, r),
             \A y : HasShape(y) /\ Moved(v, y, a, i, o, n) => DotsIn(y, Tail(l))
      PROVE  RelinkDots(u, a, i, n, Tail(l), r, h, x)
  <2>1. PICK nx : nx = v.fat[o]
    OBVIOUS
  <2>2. Linked(u, a, i, n, nx, o, Tail(l), r, h, x) /\ Moved(v, Aim(u, n, nx), a, i, o, n)
    BY <1>1, <2>1, ReadyLinks
  <2>3. n \in Clus /\ nx \in Nums
    BY <1>1, <2>1, VfatConsts DEF Pre, Ready
  <2>4. HasShape(Aim(u, n, nx))
    BY <2>3, AimShape
  <2>5. DotsIn(Aim(u, n, nx), Tail(l))
    BY <1>1, <2>2, <2>4
  <2> QED BY <2>2, <2>5 DEF RelinkDots
<1>2. ASSUME NEW nx, NEW o, Linked(v, a, i, n, nx, o, l, r, h, x), DotsIn(Aim(v, n, nx), l)
      PROVE  RelinkDots(u, a, i, n, Tail(l), r, h, x)
  <2>1. Linked(u, a, i, n, nx, o, Tail(l), r, h, x)
    BY <1>2, LinkedStays
  <2>2. DotsIn(Aim(u, n, nx), Tail(l))
    BY <1>2, LinkedDots
  <2> QED BY <2>1, <2>2 DEF RelinkDots
<1> QED BY <1>1, <1>2 DEF RelinkDots

(* A write of one cell of the table that no file has. *)
LEMMA CellDots ==
    ASSUME NEW v, NEW u, HasShape(v), HasShape(u), NEW c \in Clus, c \notin Held(v), NEW x \in Nums,
           NEW l \in Seq(FatSet(c, x)), l # <<>>, Wrote(v, u, Head(l)), DotsIn(v, l)
    PROVE  DotsIn(u, Tail(l))
<1>1. PICK w, k : w = Head(l) /\ k = Tail(l)
  OBVIOUS
<1>2. w \in FatSet(c, x) /\ ToSet(l) \subseteq FatSet(c, x) /\ ToSet(l) = {w} \cup ToSet(k)
  BY <1>1, InLog
<1>3. \A y \in FatSet(c, x) : y.op = "fat"
  BY DEF FatSet, Write
<1>4. FatOnly(l) /\ FatOnly(k)
  BY <1>2, <1>3 DEF FatOnly
<1>5. PICK n \in Copies : w = Write("fat", <<n, c>>, x)
  BY <1>2 DEF FatSet
<1>6. Beside(v, u) /\ \A b : EntOf(u, b) = EntOf(v, b)
  <2>1. CASE n # 0
    <3>1. w.op = "fat" /\ w.where[1] # 0
      BY <1>5, <2>1 DEF Write
    <3>2. u = v
      BY <1>1, <3>1 DEF Wrote
    <3> QED BY <3>2, BesideItself
  <2>2. CASE n = 0
    <3>1. w.op = "fat" /\ w.where = <<0, c>> /\ w.val = x
      BY <1>5, <2>2 DEF Write
    <3>2. c \in Cells
      BY VfatConsts
    <3>3. u = Aim(v, c, x)
      BY <1>1, <3>1, <3>2 DEF Wrote
    <3> QED BY <3>2, <3>3, CellBeside, AimShape
  <2> QED BY <2>1, <2>2
<1>7. DotsIn(u, k)
  BY <1>4, <1>6, DotsBeside
<1> QED BY <1>1, <1>7

LEMMA DotCommit ==
    ASSUME FsckInv, KeepInv, DotInv, Commit, FsckInv', stops = 0
    PROVE  DotInv'
<1>1. /\ log # <<>> /\ Apply(Head(log)) /\ log' = Tail(log)
      /\ UNCHANGED <<pc, de, at, new, replace, want, hurt, stops>>
  BY DEF Commit
<1>2. DevOk /\ DevOk' /\ VfInv
  BY DEF FsckInv
<1>3. PICK v, u : v = Vol /\ u = Vol'
  OBVIOUS
<1>4. Wrote(v, u, Head(log))
  BY <1>1, <1>2, <1>3, ApplyVol
<1>5. HasShape(v) /\ HasShape(u)
  <2>1. HasShape(Vol)'
    BY <1>2, VolShapeNext
  <2> QED BY <1>2, <1>3, <2>1, VolShape
<1>6. CASE pc = "relink"
  <2>1. RelinkDots(v, de, at, new, log, replace, hurt, want)
    BY <1>3, <1>6 DEF DotInv
  <2>2. RelinkDots(u, de, at, new, Tail(log), replace, hurt, want)
    BY <1>1, <1>4, <1>5, <2>1, RelinkWrite
  <2>3. RelinkDots(Vol', de', at', new', log', replace', hurt', want')
    BY <1>1, <1>3, <2>2
  <2> QED BY <1>1, <1>6, <2>3 DEF DotInv
<1>7. CASE pc # "relink"
  <2>1. DotsIn(v, log)
    BY <1>3, <1>7 DEF DotInv
  <2>2. \E c \in Clus, x \in Nums : c \notin Held(v) /\ log \in Seq(FatSet(c, x))
    <3>1. CASE pc = "alloc"
      <4>1. log \in Seq(FatSet(new, Bad))
        BY <1>2, <3>1 DEF VfInv, AllocLog, FatSet
      <4> QED BY <1>3, <3>1, <4>1, VfatConsts DEF KeepInv, Pre
    <3>2. CASE pc = "replace"
      <4>1. FAT_ENT_FREE \in Nums
        BY VfatConsts DEF FAT_ENT_FREE
      <4> QED BY <1>3, <3>2, <4>1 DEF KeepInv
    <3>3. pc \in {"alloc", "replace"}
      <4>1. pc \in Moving
        BY <1>1, <1>2 DEF VfInv
      <4> QED BY <1>1, <1>7, <4>1 DEF Moving, KeepInv
    <3> QED BY <3>1, <3>2, <3>3
  <2>3. DotsIn(u, Tail(log))
    BY <1>1, <1>4, <1>5, <2>1, <2>2, CellDots
  <2>4. DotsIn(Vol', log')
    BY <1>1, <1>3, <2>3
  <2> QED BY <1>1, <1>7, <2>4 DEF DotInv
<1> QED BY <1>6, <1>7

LEMMA DotCopy ==
    ASSUME FsckInv, KeepInv, DotInv, typeinfo_phys_copy, FsckInv', stops = 0
    PROVE  DotInv'
<1>1. /\ pc = "alloc" /\ log = <<>> /\ blk' = [blk EXCEPT ![new] = blk[get_nth_cnum(Ent(de), at)]]
      /\ pc' = "copied" /\ UNCHANGED <<fats, root, log>>
  BY DEF typeinfo_phys_copy
<1>2. DevOk /\ DevOk'
  BY DEF FsckInv
<1>3. PICK v, u : v = Vol /\ u = Vol'
  OBVIOUS
<1>4. HasShape(v) /\ HasShape(u)
  <2>1. HasShape(Vol)'
    BY <1>2, VolShapeNext
  <2> QED BY <1>2, <1>3, <2>1, VolShape
<1>5. new \in Clus /\ new \notin Held(v)
  BY <1>1, <1>3 DEF KeepInv, Pre
<1>6. u.fat = v.fat /\ u.root = v.root /\ \A c \in Clus : c # new => u.blk[c] = v.blk[c]
  <2>1. v.fat = fats[0] /\ v.root = root /\ v.blk = blk /\ u.fat = fats'[0] /\ u.root = root' /\ u.blk = blk'
    BY <1>3 DEF Vol
  <2>2. blk = [c \in Clus |-> [s \in SlotsOf |-> blk[c][s]]]
    BY <1>2 DEF DevOk, BlkOk
  <2> QED BY <1>1, <2>1, <2>2
<1>7. \A c \in Held(v) : u.blk[c] = v.blk[c] /\ c # 0
  BY <1>4, <1>5, <1>6, HeldWhere, VfatConsts
<1>8. Beside(v, u)
  <2>1. \A a \in LiveOf(v) : EntOf(u, a) = EntOf(v, a)
    <3>1. \A a \in LiveOf(v) : a[1] = 0 \/ a[1] \in Held(v)
      BY <1>4, HeldWhere
    <3> QED BY <1>6, <1>7, <3>1 DEF EntOf
  <2>2. \A a \in LiveOf(v) : ToSet(ClustersOf(v, a)) \subseteq Held(v)
    BY DEF Held
  <2> QED BY <1>6, <1>7, <2>1, <2>2 DEF Beside
<1>9. \A c \in Held(v), s \in SlotsOf : EntOf(u, <<c, s>>).cn = EntOf(v, <<c, s>>).cn
  BY <1>7 DEF EntOf
<1>10. FatOnly(<<>>)
  BY DEF FatOnly, ToSet
<1>11. DotsIn(v, <<>>)
  BY <1>1, <1>3 DEF DotInv
<1>12. DotsIn(u, <<>>)
  BY <1>4, <1>8, <1>9, <1>10, <1>11, DotsBeside
<1>13. DotsIn(Vol', log')
  BY <1>1, <1>3, <1>12
<1> QED BY <1>1, <1>13 DEF DotInv

LEMMA DotLink ==
    ASSUME FsckInv, KeepInv, DotInv, Link, stops = 0
    PROVE  DotInv'
<1>1. /\ pc = "copied" /\ log' = block_relink(de, at, new) /\ replace' = block_replace(get_nth_cnum(Ent(de), at))
      /\ pc' = "relink" /\ DevSame /\ UNCHANGED <<de, at, new, hurt, want>>
  BY DEF Link, DevSame
<1>2. DevOk /\ Pre(Vol, de, at, new, hurt, want) /\ HasCopy(Vol, de, at, new) /\ Vol.blk = blk /\ Vol.fat = fats[0]
      /\ log = <<>>
  BY <1>1, VolShape DEF FsckInv, KeepInv
<1>3. PICK l, o : l = block_relink(de, at, new) /\ o = ClustersOf(Vol, de)[at]
  OBVIOUS
<1>5. /\ get_nth_cnum(Ent(de), at) = o /\ fats[0][o] \in Clus \cup {Eof}
      /\ \E S : l \in Seq(S)
      /\ l # <<>>
      /\ Head(l) = IF at = 1 THEN Write("lo", de, new) ELSE Write("fat", <<0, ClustersOf(Vol, de)[at - 1]>>, new)
      /\ Write("fat", <<0, new>>, fats[0][o]) \in ToSet(Tail(l))
      /\ \A u : HasShape(u) /\ Moved(Vol, u, de, at, o, new) =>
            \A w \in ToSet(Tail(l)) : Harmless(u, new, fats[0][o], w)
  BY <1>2, <1>3, LinkIs
<1>6. PICK r : r = write_fat(o, FAT_ENT_FREE)
  OBVIOUS
<1>7. Ready(Vol, de, at, new, o, l, r)
  BY <1>2, <1>3, <1>5, <1>6 DEF Ready, IsLog
<1>8. replace' = r
  BY <1>1, <1>5, <1>6 DEF block_replace
<1>9. DotsIn(Vol, <<>>)
  BY <1>1, <1>2 DEF DotInv
<1>10. /\ de \in LiveOf(Vol) /\ Safe(Vol) /\ SoundOf(Vol) /\ at \in 1 .. Len(ClustersOf(Vol, de))
       /\ new \in Clus /\ new \notin Held(Vol) /\ \A s \in SlotsOf : blk[new][s] = blk[o][s]
  BY <1>2, <1>3 DEF Pre, Keeps, HasCopy
<1>11. \A u : HasShape(u) /\ Moved(Vol, u, de, at, o, new) => DotsIn(u, Tail(l))
  BY <1>2, <1>3, <1>9, <1>10, MovedDots
<1>12. PICK v : v = Vol
  OBVIOUS
<1>13. Vol' = v
  BY <1>1, <1>12 DEF DevSame, Vol
<1>14. RelinkDots(v, de, at, new, l, r, hurt, want)
  BY <1>2, <1>7, <1>11, <1>12 DEF RelinkDots
<1>15. RelinkDots(Vol', de', at', new', log', replace', hurt', want')
  BY <1>1, <1>3, <1>8, <1>13, <1>14
<1> QED BY <1>1, <1>15 DEF DotInv

LEMMA DotReplace ==
    ASSUME FsckInv, KeepInv, DotInv, CommitReplace, stops = 0
    PROVE  DotInv'
<1>1. /\ pc = "relink" /\ log = <<>> /\ log' = replace /\ pc' = "replace" /\ DevSame
  BY DEF CommitReplace, DevSame
<1>2. HasShape(Vol)
  BY VolShape DEF FsckInv
<1>3. PICK nx, o : Linked(Vol, de, at, new, nx, o, log, replace, hurt, want) /\ DotsIn(Aim(Vol, new, nx), log)
  BY <1>1 DEF DotInv, RelinkDots, Ready
<1>4. Vol.fat[new] = nx
  <2>1. ToSet(log) = {}
    BY <1>1 DEF ToSet
  <2> QED BY <1>3, <2>1 DEF Linked
<1>5. Vol.fat \in [Cells -> 0 .. Eof] /\ new \in Cells
  BY <1>2, <1>3, VfatConsts DEF HasShape, Linked
<1>6. [Vol.fat EXCEPT ![new] = nx] = Vol.fat
  BY <1>4, <1>5
<1>7. Aim(Vol, new, nx) = Vol
  BY <1>6 DEF Aim, Vol
<1>8. DotsIn(Vol, <<>>)
  BY <1>1, <1>3, <1>7
<1>9. FatOnly(<<>>) /\ FatOnly(replace)
  <2>1. replace \in Seq(FatSet(o, FAT_ENT_FREE))
    BY <1>3, FatLog DEF Linked
  <2>2. ToSet(replace) \subseteq FatSet(o, FAT_ENT_FREE)
    BY <2>1, InLog
  <2>3. \A y \in FatSet(o, FAT_ENT_FREE) : y.op = "fat"
    BY DEF FatSet, Write
  <2> QED BY <2>2, <2>3 DEF FatOnly, ToSet
<1>10. DotsIn(Vol, replace)
  BY <1>2, <1>8, <1>9, DotsOther
<1>11. Vol' = Vol
  BY <1>1 DEF DevSame, Vol
<1>12. DotsIn(Vol', log')
  BY <1>1, <1>10, <1>11
<1> QED BY <1>1, <1>12 DEF DotInv

LEMMA DotRepair ==
    ASSUME FsckInv, KeepInv, DotInv, repair_fat16_bad_range, FsckInv', stops = 0
    PROVE  DotInv'
<1>1. PICK y : y = CHOOSE x \in BadCells : \A z \in BadCells : x[1] < z[1] \/ (x[1] = z[1] /\ x[2] <= z[2])
  OBVIOUS
<1>2. pc = "fats" /\ BadCells # {} /\ Apply(Write("fat", y, Eof)) /\ UNCHANGED <<pc, log>>
  BY <1>1 DEF repair_fat16_bad_range
<1>3. BadCells \subseteq Copies \X Cells
  BY DEF BadCells, Copies
<1>5. y \in BadCells
  BY <1>1, <1>2, LeastBad
<1>6. y = <<y[1], y[2]>> /\ y[1] \in Copies /\ y[2] \in Cells /\ cluster_bad_range(fats[y[1]][y[2]])
  BY <1>3, <1>5 DEF BadCells
<1>7. PICK w : w = Write("fat", y, Eof)
  OBVIOUS
<1>8. w.op = "fat" /\ w.where = y /\ w.val = Eof
  BY <1>7 DEF Write
<1>9. DevOk /\ HasShape(Vol) /\ Vol.fat = fats[0] /\ log = <<>> /\ HasShape(Vol')
  <2>1. HasShape(Vol)'
    BY VolShapeNext DEF FsckInv
  <2> QED BY <1>2, <2>1, VolShape DEF FsckInv, VfInv, Moving
<1>10. Wrote(Vol, Vol', w)
  BY <1>2, <1>7, <1>9, ApplyVol
<1>11. Keeps(Vol, hurt, want) /\ DotsIn(Vol, <<>>)
  BY <1>2, <1>9 DEF KeepInv, DotInv
<1>12. FatOnly(<<>>)
  BY DEF FatOnly, ToSet
<1>13. DotsIn(Vol', <<>>)
  <2>1. CASE y[1] # 0
    <3>1. Vol' = Vol
      BY <1>8, <1>10, <2>1 DEF Wrote
    <3> QED BY <1>11, <3>1
  <2>2. CASE y[1] = 0
    <3>1. w.where = <<0, y[2]>>
      BY <1>6, <1>8, <2>2
    <3>2. Vol' = Aim(Vol, y[2], Eof)
      BY <1>6, <1>8, <1>10, <3>1 DEF Wrote
    <3>3. cluster_bad_range(Vol.fat[y[2]])
      BY <1>6, <1>9, <2>2
    <3>4. Renames(Vol, Vol', FAT_START_ENT, FAT_START_ENT)
      BY <1>6, <1>9, <1>11, <3>2, <3>3, RepairKeeps
    <3>5. \A b : EntOf(Vol', b) = EntOf(Vol, b)
      BY <3>2 DEF Aim, EntOf
    <3> QED BY <1>9, <1>11, <1>12, <3>4, <3>5, DotsSame
  <2> QED BY <2>1, <2>2
<1>14. DotsIn(Vol', log')
  BY <1>2, <1>9, <1>13
<1> QED BY <1>2, <1>14 DEF DotInv

LEMMA DotTrunc ==
    ASSUME FsckInv, KeepInv, DotInv, repair_trunc_file, FsckInv', stops = 0
    PROVE  DotInv'
<1>1. pc = "entries" /\ UNCHANGED <<pc, log>>
  BY DEF repair_trunc_file
<1>2. DevOk /\ HasShape(Vol) /\ log = <<>> /\ HasShape(Vol')
  <2>1. HasShape(Vol)'
    BY VolShapeNext DEF FsckInv
  <2> QED BY <1>1, <2>1, VolShape DEF FsckInv, VfInv, Moving
<1>3. Safe(Vol) /\ DotsIn(Vol, <<>>)
  BY <1>1, <1>2 DEF KeepInv, Keeps, DotInv
<1>4. PICK a \in TooLong :
         \E z : /\ a \in LiveOf(Vol) /\ a \in Places /\ Vol'.fat = Vol.fat
                /\ \A b \in Places : EntOf(Vol', b) = IF b = a THEN [EntOf(Vol, a) EXCEPT !.sz = z] ELSE EntOf(Vol, b)
  BY <1>2, TruncIs
<1>5. PICK z : /\ a \in LiveOf(Vol) /\ Vol'.fat = Vol.fat
               /\ \A b \in Places : EntOf(Vol', b) = IF b = a THEN [EntOf(Vol, a) EXCEPT !.sz = z] ELSE EntOf(Vol, b)
  BY <1>4
<1>6. Renames(Vol, Vol', FAT_START_ENT, FAT_START_ENT)
  BY <1>2, <1>3, <1>5, SizeSafe
<1>7. ASSUME NEW b \in Places PROVE EntOf(Vol', b).cn = EntOf(Vol, b).cn
  <2>1. PICK e : e = EntOf(Vol, b)
    OBVIOUS
  <2>2. e = [k |-> e.k, nm |-> e.nm, cn |-> e.cn, sz |-> e.sz]
    BY <1>2, <2>1, EntryOf DEF IsEntry
  <2>3. [e EXCEPT !.sz = z].cn = e.cn
    BY <2>2
  <2> QED BY <1>5, <2>1, <2>3
<1>8. FatOnly(<<>>)
  BY DEF FatOnly, ToSet
<1>9. DotsIn(Vol', <<>>)
  BY <1>2, <1>3, <1>6, <1>7, <1>8, DotsSame
<1>10. DotsIn(Vol', log')
  BY <1>1, <1>2, <1>9
<1> QED BY <1>1, <1>10 DEF DotInv

LEMMA DotStep == FsckInv /\ FsckInv' /\ KeepInv /\ AgreeInv /\ DotInv /\ VfatNext => DotInv'
<1> SUFFICES ASSUME FsckInv, FsckInv', KeepInv, AgreeInv, DotInv, VfatNext PROVE DotInv'
  OBVIOUS
<1>1. stops \in Nat
  BY DEF AgreeInv
<1>2. CASE LinkAborts \/ Kill
  <2>1. stops' = stops + 1
    BY <1>2 DEF LinkAborts, Kill
  <2> QED BY <1>1, <2>1 DEF DotInv
<1>3. FatOnly(<<>>) /\ HasShape(Vol)
  BY VolShape DEF FatOnly, ToSet, FsckInv
<1>4. ASSUME stops = 0, pc \in Idle, NEW a \in Live, NEW i \in 1 .. NClus, NEW c \in Offered, Begin(a, i, c)
      PROVE  DotInv'
  <2>1. DevSame /\ pc' = "alloc" /\ log' = block_alloc(c)
    BY <1>4 DEF Begin, DevSame
  <2>2. log = <<>> /\ pc # "relink"
    BY <1>4 DEF FsckInv, VfInv, Moving, Idle
  <2>3. DotsIn(Vol, <<>>)
    BY <1>4, <2>2 DEF DotInv
  <2>4. FatOnly(write_fat(c, Bad))
    <3>1. ToSet(write_fat(c, Bad)) = FatSet(c, Bad)
      BY FatLog
    <3> QED BY <3>1 DEF FatOnly, FatSet, Write
  <2>5. DotsIn(Vol, write_fat(c, Bad))
    BY <1>3, <2>3, <2>4, DotsOther
  <2>6. Vol' = Vol
    BY <2>1 DEF DevSame, Vol
  <2>7. DotsIn(Vol', log')
    BY <2>1, <2>5, <2>6 DEF block_alloc
  <2> QED BY <2>1, <2>7 DEF DotInv
<1>5. ASSUME stops = 0, Return \/ FsckBegin \/ FatsDone \/ EntriesDone PROVE DotInv'
  <2>1. DevSame /\ pc # "relink" /\ pc' # "relink" /\ log = <<>> /\ log' = <<>>
    BY <1>5 DEF Return, FsckBegin, FatsDone, EntriesDone, Rest, DevSame, Idle, FsckInv, VfInv, Moving
  <2>2. DotsIn(Vol, <<>>)
    BY <1>5, <2>1 DEF DotInv
  <2>3. Vol' = Vol
    BY <2>1 DEF DevSame, Vol
  <2>4. DotsIn(Vol', log')
    BY <2>1, <2>2, <2>3
  <2> QED BY <2>1, <2>4 DEF DotInv
<1>6. CASE stops # 0
  <2>1. stops' = stops \/ stops' = stops + 1
    BY DEF VfatNext, Begin, Commit, typeinfo_phys_copy, Link, LinkAborts, CommitReplace, Return, FsckBegin,
           repair_fat16_bad_range, FatsDone, repair_trunc_file, EntriesDone, Kill
  <2> QED BY <1>1, <1>6, <2>1 DEF DotInv
<1>7. CASE stops = 0
  BY <1>2, <1>4, <1>5, <1>7, DotCommit, DotCopy, DotLink, DotReplace, DotRepair, DotTrunc DEF VfatNext
<1> QED BY <1>6, <1>7

LEMMA DotStays == DotInv /\ UNCHANGED vfv => DotInv'
<1> SUFFICES ASSUME DotInv, UNCHANGED vfv PROVE DotInv'
  OBVIOUS
<1>1. DevSame /\ UNCHANGED <<pc, de, at, new, log, replace, hurt, want, stops>>
  BY DEF vfv, DevSame
<1>2. PICK v : v = Vol
  OBVIOUS
<1>3. Vol' = v
  BY <1>1, <1>2 DEF DevSame, Vol
<1>4. stops = 0 => /\ pc # "relink" => DotsIn(v, log)
                   /\ pc = "relink" => RelinkDots(v, de, at, new, log, replace, hurt, want)
  BY <1>2 DEF DotInv
<1>5. stops' = 0 => /\ pc' # "relink" => DotsIn(Vol', log')
                    /\ pc' = "relink" => RelinkDots(Vol', de', at', new', log', replace', hurt', want')
  BY <1>1, <1>3, <1>4
<1> QED BY <1>5 DEF DotInv

LEMMA InvDotsRight == FsckInv /\ KeepInv /\ DotInv => DotsRight
<1> SUFFICES ASSUME FsckInv, KeepInv, DotInv, pc \in Idle, stops = 0 PROVE DotsFit(Vol)
  BY DEF DotsRight
<1>1. log = <<>> /\ pc # "relink" /\ HasShape(Vol) /\ Unshared(Vol)
  <2>1. Keeps(Vol, hurt, want)
    BY DEF KeepInv, Idle
  <2> QED BY <2>1, VolShape DEF FsckInv, VfInv, Moving, Idle, Keeps, Safe
<1>2. DotsIn(Vol, <<>>)
  BY <1>1 DEF DotInv
<1> QED BY <1>1, <1>2, DotsAtRest

(* After whole relocations '.' of every directory names its first cluster  *)
(* and '..' its parent's (block_rel_update_de, write_fix_dir_refs,         *)
(* write_fix_dotdot_n).                                                    *)
THEOREM DotsStayRight == DescSpec => []DotsRight
<1> DEFINE I == FsckInv /\ KeepInv /\ AgreeInv /\ DotInv
<1>1. DescInit => I
  BY FsckStarts, KeepStarts, AgreeStarts, DotStarts DEF DescInit
<1>2. I /\ [DescNext]_descVars => I'
  <2>1. ASSUME I, VfatNext PROVE I'
    <3>1. FsckInv' /\ KeepInv' /\ AgreeInv'
      BY <2>1, FsckStep, KeepStep, AgreeStep
    <3>2. DotInv'
      BY <2>1, <3>1, DotStep
    <3> QED BY <3>1, <3>2
  <2>2. ASSUME I, UNCHANGED vfv PROVE I'
    BY <2>2, FsckStays, KeepStays, AgreeStays, DotStays
  <2>3. [DescNext]_descVars => VfatNext \/ UNCHANGED vfv
    BY DEF DescNext, descVars
  <2> QED BY <2>1, <2>2, <2>3
<1>3. I => DotsRight
  BY InvDotsRight
<1> HIDE DEF I
<1> QED BY <1>1, <1>2, <1>3, PTL DEF DescSpec
=============================================================================
