--------------------------- MODULE RuntimeProofs ---------------------------
(***************************************************************************)
(* Proofs about the parts below a tool, for every size of the device, the  *)
(* bytes, the words and the buffers.  The bitmap: writes touch their range *)
(* and searches find the first run.  The accessors: a word is read and     *)
(* written where it lies, in either byte order.  The tracers: what they    *)
(* write is what the tool has accessed.                                    *)
(***************************************************************************)
EXTENDS RuntimeParts, WellFoundedInduction, FiniteSetTheorems, SequenceTheorems, TLAPS

-----------------------------------------------------------------------------
(* Arithmetic of bytes and bits. *)

LEMMA Smallest ==
    ASSUME NEW T, T \subseteq Nat, T # {}
    PROVE  \E x \in T : \A y \in T : x <= y
<1> DEFINE R == {ss \in Nat \X Nat : ss[1] < ss[2]}
<1>1. IsWellFoundedOn(R, Nat)
  BY NatLessThanWellFounded DEF OpToRel
<1>2. \A x, y \in Nat : y < x => <<y, x>> \in R
  OBVIOUS
<1> HIDE DEF R
<1>3. \E x \in T : \A y \in T : <<y, x>> \notin R
  BY <1>1, WFMin
<1>4. PICK x \in T : \A y \in T : <<y, x>> \notin R
  BY <1>3
<1>5. \A y \in T : ~(y < x)
  BY <1>2, <1>4
<1> QED BY <1>5

LEMMA LeastIs ==
    ASSUME NEW T, T \subseteq Nat, T # {}
    PROVE  Bmp!LeastOf(T) \in T /\ \A y \in T : Bmp!LeastOf(T) <= y
BY Smallest DEF Bmp!LeastOf

LEMMA Times ==
    ASSUME NEW a \in Int, NEW b \in Int, a < b
    PROVE  a * W \in Int /\ b * W \in Int /\ a * W + W <= b * W
BY BitmapAssumption

LEMMA Split ==
    ASSUME NEW k \in Nat
    PROVE  /\ k \div W \in Nat /\ k % W \in 0 .. W - 1 /\ (k \div W) * W \in Nat
           /\ k = (k \div W) * W + (k % W)
BY BitmapAssumption

LEMMA SplitIs ==
    ASSUME NEW q \in Nat, NEW r \in 0 .. W - 1
    PROVE  q * W + r \in Nat /\ (q * W + r) \div W = q /\ (q * W + r) % W = r
BY BitmapAssumption

T == Bmp!Total

LEMMA TotalIs == T \in Nat /\ Size <= T /\ Size \in Nat \ {0} /\ W \in Nat \ {0} /\ Bmp!bmp_bytes \in Nat
<1> DEFINE q == (Size + W - 1) \div W
<1>1. Size \in Nat \ {0} /\ W \in Nat \ {0} /\ Size + W - 1 \in Nat
  BY BitmapAssumption
<1>2. q \in Nat /\ (Size + W - 1) % W \in 0 .. W - 1 /\ q * W \in Nat /\ Size + W - 1 = q * W + ((Size + W - 1) % W)
  BY <1>1, Split
<1>3. T = q * W /\ Bmp!bmp_bytes = q
  BY DEF T, Bmp!Total, Bmp!bmp_bytes
<1> HIDE DEF q
<1> QED BY <1>1, <1>2, <1>3

LEMMA ByteOf ==
    ASSUME NEW k \in 0 .. T - 1
    PROVE  k \in Nat /\ k \div W \in Bmp!Bytes
<1>1. k \in Nat /\ T = Bmp!bmp_bytes * W
  BY TotalIs DEF T, Bmp!Total
<1>2. k \div W \in Nat /\ k % W \in 0 .. W - 1 /\ k = (k \div W) * W + (k % W) /\ (k \div W) * W \in Nat
  BY <1>1, Split
<1>3. CASE k \div W < Bmp!bmp_bytes
  BY <1>2, <1>3, TotalIs DEF Bmp!Bytes
<1>4. CASE k \div W = Bmp!bmp_bytes
  BY <1>1, <1>2, <1>4, TotalIs
<1>5. CASE Bmp!bmp_bytes < k \div W
  <2>1. Bmp!bmp_bytes * W + W <= (k \div W) * W
    BY <1>2, <1>5, TotalIs, Times
  <2> QED BY <1>1, <1>2, <2>1, TotalIs
<1> QED BY <1>2, <1>3, <1>4, <1>5, TotalIs

-----------------------------------------------------------------------------
(* The three parts of a mask are a range. *)

(* Whole bytes from p on and the start of the one behind them. *)
LEMMA Aligned ==
    ASSUME NEW p \in Nat, NEW m \in Nat, NEW k \in Nat
    PROVE  (\/ k \div W \in p .. p + (m \div W) - 1
            \/ m % W # 0 /\ k \div W = (m \div W) + p /\ k % W \in 0 .. (m % W) - 1)
           <=> k \in p * W .. p * W + m - 1
<1> DEFINE b == k \div W
           s == k % W
           i == m \div W
           c == m % W
<1>1. b \in Nat /\ s \in 0 .. W - 1 /\ b * W \in Nat /\ k = b * W + s
  BY Split
<1>2. i \in Nat /\ c \in 0 .. W - 1 /\ i * W \in Nat /\ m = i * W + c
  BY Split
<1>3. W \in Nat \ {0} /\ p * W \in Nat /\ (p + i) * W = p * W + i * W /\ (p + i) * W \in Nat
  BY <1>2, BitmapAssumption
<1> HIDE DEF b, s, i, c
<1> DEFINE Claim == (b \in p .. p + i - 1 \/ (c # 0 /\ b = i + p /\ s \in 0 .. c - 1))
                     <=> k \in p * W .. p * W + m - 1
<1>4. ASSUME b < p PROVE Claim
  <2>1. b * W + W <= p * W
    BY <1>1, <1>4, Times
  <2> QED BY <1>1, <1>2, <1>3, <1>4, <2>1
<1>5. ASSUME p <= b /\ b < p + i PROVE Claim
  <2>1. b * W + W <= (p + i) * W
    BY <1>1, <1>2, <1>5, Times
  <2>2. p * W <= b * W
    <3>1. CASE p = b
      BY <3>1, <1>1
    <3>2. CASE p < b
      <4>1. p * W + W <= b * W
        BY <1>1, <3>2, Times
      <4> QED BY <1>1, <1>3, <4>1
    <3> QED BY <1>1, <1>5, <3>1, <3>2
  <2>3. p * W <= k /\ k < p * W + i * W
    BY <1>1, <1>2, <1>3, <2>1, <2>2
  <2>4. k \in p * W .. p * W + m - 1
    <3> DEFINE x == p * W
               y == i * W
    <3>1. x \in Nat /\ y \in Nat /\ x <= k /\ k < x + y /\ m = y + c
      BY <1>2, <1>3, <2>3
    <3> HIDE DEF x, y
    <3>2. k \in x .. x + m - 1
      BY <1>2, <3>1
    <3> QED BY <3>2 DEF x
  <2>5. b \in p .. p + i - 1
    BY <1>1, <1>2, <1>5
  <2> QED BY <2>4, <2>5
<1>6. ASSUME b = p + i PROVE Claim
  <2>1. b * W = p * W + i * W
    BY <1>3, <1>6
  <2> QED BY <1>1, <1>2, <1>3, <1>6, <2>1
<1>7. ASSUME p + i < b PROVE Claim
  <2>1. (p + i) * W + W <= b * W
    BY <1>1, <1>2, <1>7, Times
  <2> QED BY <1>1, <1>2, <1>3, <1>7, <2>1
<1>8. Claim
  BY <1>1, <1>2, <1>4, <1>5, <1>6, <1>7
<1> QED BY <1>8, Zenon DEF b, s, i, c

(* The bits bmp_set and bmp_unset touch are those of their range. *)
LEMMA MaskIs ==
    ASSUME NEW o \in Nat, NEW n \in Nat \ {0}, NEW k \in Nat
    PROVE  (k % W) \in Bmp!Mask(o, n, k \div W) <=> k \in o .. o + n - 1
<1> DEFINE q == o \div W
           r == o % W
           b == k \div W
           s == k % W
<1>1. q \in Nat /\ r \in 0 .. W - 1 /\ q * W \in Nat /\ o = q * W + r
  BY Split
<1>2. b \in Nat /\ s \in 0 .. W - 1 /\ b * W \in Nat /\ k = b * W + s
  BY Split
<1>3. W \in Nat \ {0} /\ (q + 1) * W = q * W + W
  BY <1>1, BitmapAssumption
<1>4. CASE r = 0
  <2>1. s \in Bmp!Mask(o, n, b) <=>
          (\/ b \in q .. q + (n \div W) - 1
           \/ n % W # 0 /\ b = (n \div W) + q /\ s \in 0 .. (n % W) - 1)
    <3>1. o + 0 = o /\ n - 0 = n
      BY <1>1, <1>3
    <3> HIDE DEF q, r, b, s
    <3>2. o % W = 0 /\ o \div W = q
      BY <1>4 DEF q, r
    <3> QED BY <3>1, <3>2, <1>2 DEF Bmp!Mask
  <2>2. o = q * W
    BY <1>1, <1>4
  <2> QED BY <1>1, <2>1, <2>2, Aligned
<1>5. CASE r # 0 /\ n < W - r
  <2>1. o + n = q * W + (r + n) /\ r + n \in 0 .. W - 1
    BY <1>1, <1>3, <1>5
  <2>2. (o + n) \div W = q
    BY <1>1, <2>1, SplitIs
  <2>3. 0 \div W = 0 /\ 0 % W = 0
    BY <1>3
  <2>4. s \in Bmp!Mask(o, n, b) <=> b = q /\ s \in r .. r + n - 1
    <3> HIDE DEF q, r, b, s
    <3>1. o % W = r /\ o \div W = q /\ n - n = 0 /\ ~(\E x \in Int : x \in q .. q + 0 - 1)
      BY <1>1 DEF q, r
    <3> QED BY <3>1, <1>1, <1>2, <1>5, <2>2, <2>3 DEF Bmp!Mask
  <2> HIDE DEF q, r, b, s
  <2>5. s \in Bmp!Mask(o, n, b) <=> k \in o .. o + n - 1
    <3>1. CASE b = q
      BY <1>1, <1>2, <1>3, <1>5, <2>4, <3>1
    <3>2. CASE b < q
      <4>1. b * W + W <= q * W
        BY <1>1, <1>2, <3>2, Times
      <4> QED BY <1>1, <1>2, <1>3, <1>5, <2>4, <3>2, <4>1
    <3>3. CASE q < b
      <4>1. q * W + W <= b * W
        BY <1>1, <1>2, <3>3, Times
      <4> QED BY <1>1, <1>2, <1>3, <1>5, <2>4, <3>3, <4>1
    <3> QED BY <1>1, <1>2, <3>1, <3>2, <3>3
  <2> QED BY <2>5 DEF b, s
<1>6. CASE r # 0 /\ ~(n < W - r)
  <2> DEFINE p == q + 1
             m == n - (W - r)
  <2>1. o + (W - r) = p * W + 0 /\ p \in Nat /\ m \in Nat /\ 0 \in 0 .. W - 1
    BY <1>1, <1>3, <1>6
  <2>2. (o + (W - r)) \div W = p
    BY <2>1, SplitIs
  <2>3. s \in Bmp!Mask(o, n, b) <=>
          \/ b = q /\ s \in r .. r + (W - r) - 1
          \/ b \in p .. p + (m \div W) - 1
          \/ m % W # 0 /\ b = (m \div W) + p /\ s \in 0 .. (m % W) - 1
    <3> HIDE DEF q, r, b, s, p
    <3>1. o % W = r /\ o \div W = q /\ W - r > 0
      BY <1>1, <1>3 DEF q, r
    <3>2. m = n - (W - r)
      OBVIOUS
    <3> HIDE DEF m
    <3> QED BY <3>1, <3>2, <1>1, <1>2, <1>6, <2>2 DEF Bmp!Mask
  <2>4. (\/ b \in p .. p + (m \div W) - 1
         \/ m % W # 0 /\ b = (m \div W) + p /\ s \in 0 .. (m % W) - 1)
        <=> k \in p * W .. p * W + m - 1
    BY <2>1, Aligned
  <2>5. p * W = q * W + W /\ m = n - (W - r)
    BY <1>3
  <2> HIDE DEF q, r, b, s, p, m
  <2>6. (b = q /\ s \in r .. r + (W - r) - 1) <=> k \in o .. q * W + W - 1
    <3>1. CASE b = q
      BY <1>1, <1>2, <1>3, <1>6, <3>1
    <3>2. CASE b < q
      <4>1. b * W + W <= q * W
        BY <1>1, <1>2, <3>2, Times
      <4> QED BY <1>1, <1>2, <1>3, <1>6, <3>2, <4>1
    <3>3. CASE q < b
      <4>1. q * W + W <= b * W
        BY <1>1, <1>2, <3>3, Times
      <4> QED BY <1>1, <1>2, <1>3, <1>6, <3>3, <4>1
    <3> QED BY <1>1, <1>2, <3>1, <3>2, <3>3
  <2>7. k \in o .. o + n - 1 <=> k \in o .. q * W + W - 1 \/ k \in p * W .. p * W + m - 1
    BY <1>1, <1>2, <1>3, <1>6, <2>1, <2>5
  <2>8. s \in Bmp!Mask(o, n, b) <=> k \in o .. o + n - 1
    BY <2>3, <2>4, <2>6, <2>7
  <2> QED BY <2>8 DEF b, s
<1> QED BY <1>4, <1>5, <1>6

(* bmp_set and bmp_unset change the bits of their range and no other. *)
LEMMA SetIs ==
    ASSUME NEW o \in Nat, NEW n \in 1 .. Size, Bmp!InBounds(o, n)
    PROVE  /\ Bmp!bmp_set(o, n) => Bmp!Bits' = Bmp!Bits \union (o .. o + n - 1)
           /\ Bmp!bmp_unset(o, n) => Bmp!Bits' = Bmp!Bits \ (o .. o + n - 1)
<1>1. n \in Nat \ {0} /\ o + n - 1 < T /\ o .. o + n - 1 \subseteq 0 .. T - 1
  BY TotalIs DEF Bmp!InBounds
<1>2. \A k \in 0 .. T - 1 : ((k % W) \in Bmp!Mask(o, n, k \div W)) <=> k \in o .. o + n - 1
  <2>1. \A k \in 0 .. T - 1 : k \in Nat
    BY TotalIs
  <2> QED BY <1>1, <2>1, MaskIs
<1>3. \A k \in 0 .. T - 1 : k \div W \in Bmp!Bytes
  BY ByteOf
<1>4. /\ Bmp!Bits = {k \in 0 .. T - 1 : (k % W) \in data[k \div W]}
      /\ Bmp!Bits' = {k \in 0 .. T - 1 : (k % W) \in data'[k \div W]}
  BY DEF Bmp!Bits, Bmp!bmp_is_set, T, Bmp!Total, Bmp!bmp_bytes
<1>5. ASSUME Bmp!bmp_set(o, n) PROVE Bmp!Bits' = Bmp!Bits \union (o .. o + n - 1)
  <2>1. data' = [b \in Bmp!Bytes |-> data[b] \union Bmp!Mask(o, n, b)]
    BY <1>5 DEF Bmp!bmp_set
  <2>2. \A k \in 0 .. T - 1 : (k % W) \in data'[k \div W] <=>
            (k % W) \in data[k \div W] \/ k \in o .. o + n - 1
    BY <1>2, <1>3, <2>1
  <2> QED BY <1>1, <1>4, <2>2
<1>6. ASSUME Bmp!bmp_unset(o, n) PROVE Bmp!Bits' = Bmp!Bits \ (o .. o + n - 1)
  <2>1. data' = [b \in Bmp!Bytes |-> data[b] \ Bmp!Mask(o, n, b)]
    BY <1>6 DEF Bmp!bmp_unset
  <2>2. \A k \in 0 .. T - 1 : (k % W) \in data'[k \div W] <=>
            (k % W) \in data[k \div W] /\ k \notin o .. o + n - 1
    BY <1>2, <1>3, <2>1
  <2> QED BY <1>1, <1>4, <2>2
<1> QED BY <1>5, <1>6

-----------------------------------------------------------------------------
(* Runs of set and of clear bits end at a bit of the other kind or at the  *)
(* end of the last byte.                                                   *)

LEMMA RunSet ==
    ASSUME NEW o \in 0 .. T
    PROVE  \E e \in o .. T : /\ Bmp!bmp_count_contig_set(o) = e - o
                             /\ o .. e - 1 \subseteq Bmp!Bits /\ e \notin Bmp!Bits
<1> DEFINE S == {k \in o .. T : k = T \/ ~Bmp!bmp_is_set(k)}
           e == Bmp!LeastOf(S)
<1>1. T \in S /\ S \subseteq Nat
  BY TotalIs
<1>2. e \in S /\ \A y \in S : e <= y
  <2> HIDE DEF S
  <2> QED BY <1>1, LeastIs
<1>3. Bmp!bmp_count_contig_set(o) = e - o
  BY DEF Bmp!bmp_count_contig_set, T
<1> HIDE DEF e
<1>4. e \in o .. T /\ (e = T \/ ~Bmp!bmp_is_set(e)) /\ \A k \in o .. e - 1 : k \notin S
  BY <1>1, <1>2, TotalIs
<1>5. \A k \in o .. e - 1 : k \in 0 .. T - 1 /\ Bmp!bmp_is_set(k)
  BY <1>4, TotalIs
<1> QED BY <1>3, <1>4, <1>5, TotalIs DEF Bmp!Bits, T

LEMMA RunAvail ==
    ASSUME NEW o \in 0 .. T
    PROVE  \E e \in o .. T : /\ Bmp!bmp_count_contig_avail(o) = e - o
                             /\ o .. e - 1 \intersect Bmp!Bits = {}
                             /\ e = T \/ e \in Bmp!Bits
<1> DEFINE S == {k \in o .. T : k = T \/ Bmp!bmp_is_set(k)}
           e == Bmp!LeastOf(S)
<1>1. T \in S /\ S \subseteq Nat
  BY TotalIs
<1>2. e \in S /\ \A y \in S : e <= y
  <2> HIDE DEF S
  <2> QED BY <1>1, LeastIs
<1>3. Bmp!bmp_count_contig_avail(o) = e - o
  BY DEF Bmp!bmp_count_contig_avail, T
<1> HIDE DEF e
<1>4. e \in o .. T /\ (e = T \/ Bmp!bmp_is_set(e)) /\ \A k \in o .. e - 1 : k \notin S
  BY <1>1, <1>2, TotalIs
<1>5. \A k \in o .. e - 1 : ~Bmp!bmp_is_set(k)
  BY <1>4, TotalIs
<1> QED BY <1>3, <1>4, <1>5, TotalIs DEF Bmp!Bits, T

LEMMA NextAvail ==
    ASSUME NEW l \in 0 .. T
    PROVE  \/ Bmp!bmp_find_avail(l) = -1 /\ l .. T - 1 \subseteq Bmp!Bits
           \/ /\ Bmp!bmp_find_avail(l) \in l .. T - 1
              /\ Bmp!bmp_find_avail(l) \notin Bmp!Bits
              /\ l .. Bmp!bmp_find_avail(l) - 1 \subseteq Bmp!Bits
<1> DEFINE F == {k \in l .. T - 1 : ~Bmp!bmp_is_set(k)}
           e == Bmp!LeastOf(F)
<1>1. F \subseteq Nat /\ \A k \in l .. T - 1 : k \in 0 .. T - 1
  BY TotalIs
<1>2. Bmp!bmp_find_avail(l) = IF F = {} THEN -1 ELSE e
  BY DEF Bmp!bmp_find_avail, T
<1>3. CASE F = {}
  BY <1>1, <1>2, <1>3 DEF Bmp!Bits, T
<1>4. CASE F # {}
  <2>1. e \in F /\ \A y \in F : e <= y
    <3> HIDE DEF F
    <3> QED BY <1>1, <1>4, LeastIs
  <2>2. Bmp!bmp_find_avail(l) = e
    BY <1>2, <1>4
  <2> HIDE DEF e
  <2>3. e \in l .. T - 1 /\ ~Bmp!bmp_is_set(e) /\ \A k \in l .. e - 1 : k \in l .. T - 1 /\ k \notin F
    BY <1>1, <2>1, TotalIs
  <2>4. \A k \in l .. e - 1 : k \in 0 .. T - 1 /\ Bmp!bmp_is_set(k)
    BY <1>1, <2>3
  <2> QED BY <2>2, <2>3, <2>4 DEF Bmp!Bits, T
<1> QED BY <1>3, <1>4

-----------------------------------------------------------------------------
(* choice_find_avail: what a step of the search returns if the rest of the *)
(* search is right.                                                        *)

Fits(o, n) == {k \in o .. Size - n : k .. k + n - 1 \subseteq Bmp!Bits}
Found(o, n) == IF Fits(o, n) = {} THEN -1 ELSE Bmp!LeastOf(Fits(o, n))

FindStep(f, o, n) ==
    IF o >= Size THEN -1
    ELSE IF Bmp!bmp_is_set(o)
         THEN IF Bmp!bmp_count_contig_set(o) >= n
              THEN o
              ELSE f[o + Bmp!bmp_count_contig_set(o)]
         ELSE f[o + Bmp!bmp_count_contig_avail(o)]

LEMMA FitsFrom ==
    ASSUME NEW o \in Nat, NEW e \in Nat, o < e, NEW n \in 1 .. Size,
           \A k \in Fits(o, n) : e <= k
    PROVE  Fits(o, n) = Fits(e, n)
<1>1. Size \in Nat /\ n \in Nat
  BY TotalIs
<1>2. ASSUME NEW k \in Fits(o, n) PROVE k \in Fits(e, n)
  <2>1. k \in o .. Size - n /\ e <= k
    BY DEF Fits
  <2>2. k \in e .. Size - n
    BY <1>1, <2>1
  <2> QED BY <2>2 DEF Fits
<1>3. ASSUME NEW k \in Fits(e, n) PROVE k \in Fits(o, n)
  <2>1. k \in e .. Size - n
    BY DEF Fits
  <2>2. k \in o .. Size - n
    BY <1>1, <2>1
  <2> QED BY <2>2 DEF Fits
<1> QED BY <1>2, <1>3

LEMMA FindStepIs ==
    ASSUME Bmp!PaddingClear, NEW o \in 0 .. T, NEW n \in 1 .. Size, NEW f,
           \A x \in o + 1 .. T : f[x] = Found(x, n)
    PROVE  FindStep(f, o, n) = Found(o, n)
<1>1. o \in Nat /\ n \in Nat \ {0} /\ Size \in Nat \ {0} /\ T \in Nat /\ Size <= T
  BY TotalIs
<1>2. CASE o >= Size
  <2>1. Fits(o, n) = {}
    BY <1>1, <1>2 DEF Fits
  <2> QED BY <1>2, <2>1 DEF Found, FindStep
<1>3. CASE o < Size /\ Bmp!bmp_is_set(o)
  <2>1. o \in Bmp!Bits
    BY <1>1, <1>3 DEF Bmp!Bits, T
  <2>2. PICK e \in o .. T : /\ Bmp!bmp_count_contig_set(o) = e - o
                            /\ o .. e - 1 \subseteq Bmp!Bits /\ e \notin Bmp!Bits
    BY RunSet
  <2>3. e \in Nat /\ o < e
    BY <1>1, <2>1, <2>2
  <2>4. CASE e - o >= n
    <3>1. o .. o + n - 1 \subseteq Bmp!Bits
      BY <1>1, <2>2, <2>3, <2>4
    <3>2. o + n - 1 \in Bmp!Bits /\ o + n - 1 < Size
      BY <1>1, <3>1 DEF Bmp!PaddingClear, Bmp!Offsets
    <3>3. o \in Fits(o, n) /\ \A k \in Fits(o, n) : o <= k
      BY <1>1, <3>1, <3>2 DEF Fits
    <3>4. Fits(o, n) \subseteq Nat
      BY <1>1 DEF Fits
    <3>5. Bmp!LeastOf(Fits(o, n)) = o
      BY <1>1, <3>3, <3>4, LeastIs
    <3>6. FindStep(f, o, n) = o
      BY <1>1, <1>3, <2>2, <2>4 DEF FindStep
    <3> QED BY <3>3, <3>5, <3>6 DEF Found
  <2>5. CASE e - o < n
    <3>1. \A k \in Fits(o, n) : e <= k
      <4>1. SUFFICES ASSUME NEW k \in Fits(o, n), k < e PROVE FALSE
        BY <1>1, <2>3 DEF Fits
      <4>2. k \in Nat /\ o <= k /\ k .. k + n - 1 \subseteq Bmp!Bits
        BY <1>1 DEF Fits
      <4>3. e \in k .. k + n - 1
        BY <1>1, <2>3, <2>5, <4>1, <4>2
      <4> QED BY <2>2, <4>2, <4>3
    <3>2. Fits(o, n) = Fits(e, n)
      BY <1>1, <2>3, <3>1, FitsFrom
    <3>3. f[e] = Found(e, n)
      BY <1>1, <2>2, <2>3
    <3>4. FindStep(f, o, n) = f[e]
      <4>1. o + (e - o) = e /\ ~(e - o >= n) /\ ~(o >= Size)
        BY <1>1, <1>3, <2>3, <2>5
      <4> QED BY <1>3, <2>2, <4>1 DEF FindStep
    <3> QED BY <3>2, <3>3, <3>4 DEF Found
  <2> QED BY <1>1, <2>3, <2>4, <2>5
<1>4. CASE o < Size /\ ~Bmp!bmp_is_set(o)
  <2>1. o \notin Bmp!Bits /\ o < T
    BY <1>1, <1>4 DEF Bmp!Bits
  <2>2. PICK e \in o .. T : /\ Bmp!bmp_count_contig_avail(o) = e - o
                            /\ o .. e - 1 \intersect Bmp!Bits = {}
                            /\ e = T \/ e \in Bmp!Bits
    BY RunAvail
  <2>3. e \in Nat /\ o < e
    BY <1>1, <2>1, <2>2
  <2>4. \A k \in Fits(o, n) : e <= k
    <3>1. SUFFICES ASSUME NEW k \in Fits(o, n), k < e PROVE FALSE
      BY <1>1, <2>3 DEF Fits
    <3>2. k \in Nat /\ o <= k /\ k \in k .. k + n - 1 /\ k .. k + n - 1 \subseteq Bmp!Bits
      BY <1>1 DEF Fits
    <3>3. k \in o .. e - 1
      BY <1>1, <2>3, <3>1, <3>2
    <3> QED BY <2>2, <3>2, <3>3
  <2>5. Fits(o, n) = Fits(e, n)
    BY <1>1, <2>3, <2>4, FitsFrom
  <2>6. f[e] = Found(e, n)
    BY <1>1, <2>2, <2>3
  <2>7. FindStep(f, o, n) = f[e]
    <3>1. o + (e - o) = e /\ ~(o >= Size)
      BY <1>1, <1>4, <2>3
    <3> QED BY <1>4, <2>2, <3>1 DEF FindStep
  <2> QED BY <2>5, <2>6, <2>7 DEF Found
<1> QED BY <1>1, <1>2, <1>3, <1>4

(* A function whose value follows from its values further on is known from *)
(* the end of the map backwards.                                           *)
LEMMA Backwards ==
    ASSUME NEW S, S \subseteq 0 .. T, S # {}
    PROVE  \E x \in S : \A y \in x + 1 .. T : y \notin S
<1> DEFINE R == {m \in 0 .. T : T - m \in S}
<1>1. PICK s \in S : TRUE
  OBVIOUS
<1>2. T - s \in R
  BY <1>1, TotalIs
<1>3. R \subseteq Nat
  BY TotalIs
<1>4. PICK m \in R : \A y \in R : m <= y
  <2> HIDE DEF R
  <2> QED BY <1>2, <1>3, Smallest
<1>5. T - m \in S /\ m \in 0 .. T
  OBVIOUS
<1>6. ASSUME NEW y \in (T - m) + 1 .. T, y \in S PROVE FALSE
  <2>1. T - y \in 0 .. T /\ T - (T - y) = y /\ T - y < m
    BY <1>5, <1>6, TotalIs
  <2>2. T - y \in R
    BY <1>6, <2>1
  <2> QED BY <1>4, <1>5, <2>1, <2>2, TotalIs
<1> QED BY <1>5, <1>6

(* choice_find_avail returns the first fitting run. *)
LEMMA FindIs ==
    ASSUME Bmp!PaddingClear, NEW o \in 0 .. T, NEW n \in 1 .. Size
    PROVE  Bmp!choice_find_avail(o, n) = Found(o, n)
<1> DEFINE Body(f) == [x \in 0 .. T |-> FindStep(f, x, n)]
           find == CHOOSE f : f = Body(f)
           g == [x \in 0 .. T |-> Found(x, n)]
<1>1. Bmp!choice_find_avail(o, n) = find[o]
  BY Zenon DEF Bmp!choice_find_avail, FindStep, T
<1>2. g = Body(g)
  <2>1. ASSUME NEW x \in 0 .. T PROVE FindStep(g, x, n) = Found(x, n)
    <3>1. \A y \in x + 1 .. T : g[y] = Found(y, n)
      BY TotalIs
    <3> HIDE DEF g
    <3> QED BY <3>1, FindStepIs
  <2> QED BY <2>1
<1>3. find = Body(find)
  <2> HIDE DEF g
  <2> QED BY <1>2
<1> HIDE DEF find
<1>4. \A x \in 0 .. T : find[x] = FindStep(find, x, n)
  BY <1>3
<1>5. \A x \in 0 .. T : find[x] = Found(x, n)
  <2> DEFINE S == {x \in 0 .. T : find[x] # Found(x, n)}
  <2>1. SUFFICES ASSUME S # {} PROVE FALSE
    OBVIOUS
  <2>2. PICK x \in S : \A y \in x + 1 .. T : y \notin S
    <3>1. S \subseteq 0 .. T
      OBVIOUS
    <3> HIDE DEF S
    <3> QED BY <2>1, <3>1, Backwards
  <2>3. x \in 0 .. T /\ \A y \in x + 1 .. T : find[y] = Found(y, n)
    BY <2>2, TotalIs
  <2>4. FindStep(find, x, n) = Found(x, n)
    BY <2>3, FindStepIs
  <2> QED BY <1>4, <2>3, <2>4
<1> QED BY <1>1, <1>5

-----------------------------------------------------------------------------
(* bmp_set_avail: the search ends with the first run of clear bits that is *)
(* long enough, padding included, unless it met the end of another run in  *)
(* the last n bits of the map before.                                      *)

Clear(o, n)  == {k \in o .. T - n : k .. k + n - 1 \intersect Bmp!Bits = {}}
Stops(o, k, n) == \E j \in o .. k - 1 : j \notin Bmp!Bits /\ Size - n <= j
Taken(o, n) ==
    IF Clear(o, n) = {} \/ Stops(o, Bmp!LeastOf(Clear(o, n)), n) THEN -1
    ELSE Bmp!LeastOf(Clear(o, n))

AvailStepOf(f, l, n) ==
    LET loc == Bmp!bmp_find_avail(l)
        cnt == Bmp!bmp_count_contig_avail(loc)
    IN  IF loc = -1 THEN -1
        ELSE IF cnt >= n THEN loc
        ELSE IF loc + cnt <= Size - n THEN f[loc + cnt] ELSE -1

LEMMA ClearFrom ==
    ASSUME NEW o \in Nat, NEW e \in Nat, o < e, NEW n \in 1 .. Size,
           \A k \in Clear(o, n) : e <= k
    PROVE  Clear(o, n) = Clear(e, n)
<1>1. T \in Nat /\ Size \in Nat /\ n \in Nat
  BY TotalIs
<1>2. ASSUME NEW k \in Clear(o, n) PROVE k \in Clear(e, n)
  <2>1. k \in o .. T - n /\ e <= k
    BY DEF Clear
  <2>2. k \in e .. T - n
    BY <1>1, <2>1
  <2> QED BY <2>2 DEF Clear
<1>3. ASSUME NEW k \in Clear(e, n) PROVE k \in Clear(o, n)
  <2>1. k \in e .. T - n
    BY DEF Clear
  <2>2. k \in o .. T - n
    BY <1>1, <2>1
  <2> QED BY <2>2 DEF Clear
<1> QED BY <1>2, <1>3

LEMMA AvailStepIs ==
    ASSUME NEW l \in 0 .. T, NEW n \in 1 .. Size, NEW f,
           \A x \in l + 1 .. T : f[x] = Taken(x, n)
    PROVE  AvailStepOf(f, l, n) = Taken(l, n)
<1> DEFINE loc == Bmp!bmp_find_avail(l)
<1>1. l \in Nat /\ n \in Nat \ {0} /\ Size \in Nat \ {0} /\ T \in Nat /\ Size <= T
  BY TotalIs
<1>2. \/ loc = -1 /\ l .. T - 1 \subseteq Bmp!Bits
      \/ loc \in l .. T - 1 /\ loc \notin Bmp!Bits /\ l .. loc - 1 \subseteq Bmp!Bits
  BY NextAvail
<1>3. AvailStepOf(f, l, n) = IF loc = -1 THEN -1
          ELSE IF Bmp!bmp_count_contig_avail(loc) >= n THEN loc
          ELSE IF loc + Bmp!bmp_count_contig_avail(loc) <= Size - n
               THEN f[loc + Bmp!bmp_count_contig_avail(loc)] ELSE -1
  BY DEF AvailStepOf
<1> HIDE DEF loc
<1>4. \A k \in Clear(l, n) : k \in Nat /\ l <= k /\ k <= T - n /\ k .. k + n - 1 \intersect Bmp!Bits = {} /\ k \notin Bmp!Bits
  BY <1>1 DEF Clear
<1>5. CASE loc = -1 /\ l .. T - 1 \subseteq Bmp!Bits
  <2>1. Clear(l, n) = {}
    <3>1. SUFFICES ASSUME NEW k \in Clear(l, n) PROVE FALSE
      OBVIOUS
    <3>2. k \in l .. T - 1
      BY <1>1, <1>4
    <3> QED BY <1>4, <1>5, <3>2
  <2> QED BY <1>3, <1>5, <2>1 DEF Taken
<1>6. CASE loc \in l .. T - 1 /\ loc \notin Bmp!Bits /\ l .. loc - 1 \subseteq Bmp!Bits
  <2>1. loc \in Nat /\ loc # -1 /\ loc \in 0 .. T /\ l <= loc /\ loc < T
    BY <1>1, <1>6
  <2>2. PICK e \in loc .. T : /\ Bmp!bmp_count_contig_avail(loc) = e - loc
                              /\ loc .. e - 1 \intersect Bmp!Bits = {}
                              /\ e = T \/ e \in Bmp!Bits
    BY <2>1, RunAvail
  <2>3. e \in Nat /\ loc < e /\ l < e /\ loc + (e - loc) = e
    BY <1>1, <1>6, <2>1, <2>2
  <2>4. \A k \in Clear(l, n) : loc <= k
    <3>1. SUFFICES ASSUME NEW k \in Clear(l, n), k < loc PROVE FALSE
      BY <1>4, <2>1
    <3>2. k \in l .. loc - 1
      BY <1>4, <2>1, <3>1
    <3> QED BY <1>4, <1>6, <3>2
  <2>5. CASE e - loc >= n
    <3>1. loc .. loc + n - 1 \subseteq loc .. e - 1 /\ loc <= T - n
      BY <1>1, <2>1, <2>2, <2>3, <2>5
    <3>2. loc \in Clear(l, n)
      BY <1>1, <2>1, <2>2, <3>1 DEF Clear
    <3>3. Clear(l, n) \subseteq Nat
      BY <1>4
    <3>4. Bmp!LeastOf(Clear(l, n)) = loc
      BY <2>1, <2>4, <3>2, <3>3, LeastIs
    <3>5. ~Stops(l, loc, n)
      BY <1>6 DEF Stops
    <3>6. AvailStepOf(f, l, n) = loc
      BY <1>3, <2>1, <2>2, <2>5
    <3> QED BY <3>2, <3>4, <3>5, <3>6 DEF Taken
  <2>6. CASE e - loc < n
    <3>1. \A k \in Clear(l, n) : e <= k
      <4>1. SUFFICES ASSUME NEW k \in Clear(l, n), k < e PROVE FALSE
        BY <1>4, <2>3
      <4>2. k \in Nat /\ loc <= k /\ k <= T - n
        BY <1>4, <2>4
      <4>3. e \in k .. k + n - 1
        BY <1>1, <2>1, <2>3, <2>6, <4>1, <4>2
      <4>4. e < T
        BY <1>1, <2>1, <2>3, <2>6, <4>1, <4>2
      <4> QED BY <1>4, <2>2, <4>3, <4>4, TotalIs
    <3>2. Clear(l, n) = Clear(e, n)
      BY <1>1, <2>3, <3>1, ClearFrom
    <3> DEFINE k == Bmp!LeastOf(Clear(l, n))
    <3>3. Clear(l, n) # {} => k \in Nat /\ e <= k
      <4>1. Clear(l, n) \subseteq Nat
        BY <1>4
      <4>2. Clear(l, n) # {} => k \in Clear(l, n)
        BY <4>1, LeastIs
      <4> QED BY <3>1, <4>1, <4>2
    <3>4. CASE e <= Size - n
      <4>1. AvailStepOf(f, l, n) = f[e]
        BY <1>3, <2>1, <2>2, <2>3, <2>6, <3>4
      <4>2. f[e] = Taken(e, n)
        BY <1>1, <2>2, <2>3
      <4>3. Clear(l, n) # {} => (Stops(l, k, n) <=> Stops(e, k, n))
        <5> HIDE DEF k
        <5> QED BY <1>1, <2>3, <3>3, <3>4 DEF Stops
      <4> QED BY <3>2, <4>1, <4>2, <4>3 DEF Taken
    <3>5. CASE ~(e <= Size - n)
      <4>1. AvailStepOf(f, l, n) = -1
        BY <1>3, <2>1, <2>2, <2>3, <2>6, <3>5
      <4>2. Clear(l, n) # {} => Stops(l, k, n)
        <5>1. SUFFICES ASSUME Clear(l, n) # {} PROVE Stops(l, k, n)
          OBVIOUS
        <5> HIDE DEF k
        <5>2. e - 1 \in l .. k - 1 /\ e - 1 \in loc .. e - 1 /\ Size - n <= e - 1
          BY <1>1, <2>1, <2>3, <3>3, <3>5, <5>1
        <5> QED BY <2>2, <5>2 DEF Stops
      <4> QED BY <4>1, <4>2 DEF Taken
    <3> QED BY <3>4, <3>5
  <2> QED BY <1>1, <2>1, <2>3, <2>5, <2>6
<1> QED BY <1>2, <1>5, <1>6

LEMMA AvailIs ==
    ASSUME NEW o \in 0 .. T, NEW n \in 1 .. Size
    PROVE  Bmp!Avail(o, n) = Taken(o, n)
<1> DEFINE Body(f) == [x \in 0 .. T |-> AvailStepOf(f, x, n)]
           find == CHOOSE f : f = Body(f)
           g == [x \in 0 .. T |-> Taken(x, n)]
<1>1. Bmp!Avail(o, n) = find[o]
  BY Zenon DEF Bmp!Avail, AvailStepOf, T
<1>2. g = Body(g)
  <2>1. ASSUME NEW x \in 0 .. T PROVE AvailStepOf(g, x, n) = Taken(x, n)
    <3>1. \A y \in x + 1 .. T : g[y] = Taken(y, n)
      BY TotalIs
    <3> HIDE DEF g
    <3> QED BY <3>1, AvailStepIs
  <2> QED BY <2>1
<1>3. find = Body(find)
  <2> HIDE DEF g
  <2> QED BY <1>2
<1> HIDE DEF find
<1>4. \A x \in 0 .. T : find[x] = AvailStepOf(find, x, n)
  BY <1>3
<1>5. \A x \in 0 .. T : find[x] = Taken(x, n)
  <2> DEFINE S == {x \in 0 .. T : find[x] # Taken(x, n)}
  <2>1. SUFFICES ASSUME S # {} PROVE FALSE
    OBVIOUS
  <2>2. PICK x \in S : \A y \in x + 1 .. T : y \notin S
    <3>1. S \subseteq 0 .. T
      OBVIOUS
    <3> HIDE DEF S
    <3> QED BY <2>1, <3>1, Backwards
  <2>3. x \in 0 .. T /\ \A y \in x + 1 .. T : find[y] = Taken(y, n)
    BY <2>2, TotalIs
  <2>4. AvailStepOf(find, x, n) = Taken(x, n)
    BY <2>3, AvailStepIs
  <2> QED BY <1>4, <2>3, <2>4
<1> QED BY <1>1, <1>5

(* What bmp_set_avail takes lies on the map, and is the first run in the   *)
(* map proper when there is one.                                           *)
LEMMA TakenIs ==
    ASSUME NEW o \in Bmp!Offsets, NEW n \in 1 .. Size
    PROVE  /\ Bmp!Avail(o, n) \in Nat \union {-1}
           /\ LET fits == {k \in o .. Size - n : k .. k + n - 1 \intersect Bmp!Bits = {}}
              IN  fits # {} => /\ Bmp!Avail(o, n) = Bmp!LeastOf(fits)
                               /\ Bmp!LeastOf(fits) \in o .. Size - n
<1> DEFINE fits == {k \in o .. Size - n : k .. k + n - 1 \intersect Bmp!Bits = {}}
           C == Clear(o, n)
           k == Bmp!LeastOf(C)
<1>1. o \in Nat /\ o \in 0 .. T /\ n \in Nat \ {0} /\ Size \in Nat \ {0} /\ T \in Nat /\ Size <= T
  BY TotalIs DEF Bmp!Offsets
<1>2. Bmp!Avail(o, n) = Taken(o, n)
  BY <1>1, AvailIs
<1>3. C \subseteq Nat /\ fits \subseteq Nat /\ fits \subseteq C
  BY <1>1 DEF Clear
<1>4. C # {} => k \in C /\ \A y \in C : k <= y
  BY <1>3, LeastIs
<1>5. Bmp!Avail(o, n) \in Nat \union {-1}
  BY <1>2, <1>3, <1>4 DEF Taken
<1>6. ASSUME fits # {} PROVE Bmp!Avail(o, n) = Bmp!LeastOf(fits) /\ Bmp!LeastOf(fits) \in o .. Size - n
  <2> DEFINE x == Bmp!LeastOf(fits)
  <2>1. x \in fits /\ \A y \in fits : x <= y
    <3> HIDE DEF fits
    <3> QED BY <1>3, <1>6, LeastIs
  <2>2. k \in C /\ k <= x
    BY <1>3, <1>4, <2>1
  <2>3. x \in o .. Size - n
    BY <2>1
  <2> HIDE DEF k, x
  <2>4. k \in fits
    <3>1. k \in o .. T - n /\ k .. k + n - 1 \intersect Bmp!Bits = {}
      BY <2>2 DEF Clear
    <3>2. k \in o .. Size - n
      BY <1>1, <2>2, <2>3, <3>1
    <3> QED BY <3>1, <3>2
  <2>5. k = x
    BY <1>1, <1>3, <2>1, <2>2, <2>3, <2>4
  <2>6. ~Stops(o, k, n)
    BY <1>1, <2>3, <2>5 DEF Stops
  <2>7. Taken(o, n) = k
    BY <2>2, <2>6 DEF Taken, k
  <2> QED BY <1>2, <2>3, <2>5, <2>7 DEF x
<1> QED BY <1>5, <1>6

-----------------------------------------------------------------------------
(* The steps of the bitmap. *)

LEMMA SameBits == data' = data => Bmp!Bits' = Bmp!Bits
BY DEF Bmp!Bits, Bmp!bmp_is_set, Bmp!Total, Bmp!bmp_bytes

LEMMA RangeHolds == Bmp!RangeStep
<1>1. SUFFICES ASSUME NEW o \in Bmp!Offsets, NEW n \in 1 .. Size, Bmp!InBounds(o, n)
               PROVE  /\ Bmp!bmp_set(o, n) => Bmp!Bits' = Bmp!Bits \union (o .. o + n - 1)
                      /\ Bmp!bmp_unset(o, n) => Bmp!Bits' = Bmp!Bits \ (o .. o + n - 1)
  BY DEF Bmp!RangeStep
<1>2. o \in Nat
  BY TotalIs DEF Bmp!Offsets
<1> QED BY <1>1, <1>2, SetIs

LEMMA AvailHolds == Bmp!AvailStep
<1> DEFINE fits(o, n) == {k \in o .. Size - n : k .. k + n - 1 \intersect Bmp!Bits = {}}
<1>1. ASSUME NEW o \in Bmp!Offsets, NEW n \in 1 .. Size, Bmp!bmp_set_avail(o, n), fits(o, n) # {}
      PROVE  /\ ~aborted'
             /\ Bmp!Bits' = Bmp!Bits \union
                    (Bmp!LeastOf(fits(o, n)) .. Bmp!LeastOf(fits(o, n)) + n - 1)
  <2> DEFINE x == Bmp!LeastOf(fits(o, n))
  <2>1. Bmp!Avail(o, n) = x /\ x \in o .. Size - n
    BY <1>1, TakenIs
  <2> HIDE DEF x
  <2>2. x \in Nat /\ x # -1 /\ n \in Nat /\ Bmp!InBounds(x, n)
    BY <2>1, TotalIs DEF Bmp!InBounds, Bmp!Offsets
  <2>3. Bmp!bmp_set(x, n)
    BY <1>1, <2>1, <2>2 DEF Bmp!bmp_set_avail
  <2>4. ~aborted' /\ Bmp!Bits' = Bmp!Bits \union (x .. x + n - 1)
    BY <2>2, <2>3, SetIs DEF Bmp!bmp_set
  <2> QED BY <2>4 DEF x
<1> HIDE DEF fits
<1>2. \A o \in Bmp!Offsets, n \in 1 .. Size :
        Bmp!bmp_set_avail(o, n) /\ fits(o, n) # {} =>
            /\ ~aborted'
            /\ Bmp!Bits' = Bmp!Bits \union
                   (Bmp!LeastOf(fits(o, n)) .. Bmp!LeastOf(fits(o, n)) + n - 1)
  BY <1>1
<1> QED BY <1>2, Zenon DEF Bmp!AvailStep, fits

LEMMA PaddingKept ==
    ASSUME Bmp!PaddingClear, Bmp!BitmapNext
    PROVE  Bmp!PaddingClear'
<1>1. Bmp!Bits \subseteq 0 .. Size - 1 /\ Size \in Nat
  BY TotalIs DEF Bmp!PaddingClear, Bmp!Offsets
<1>2. SUFFICES Bmp!Bits' \subseteq 0 .. Size - 1
  BY DEF Bmp!PaddingClear, Bmp!Offsets
<1>3. ASSUME NEW x \in Nat, NEW n \in 1 .. Size, Bmp!bmp_set(x, n) PROVE Bmp!Bits' \subseteq 0 .. Size - 1
  <2>1. CASE Bmp!InBounds(x, n)
    <3>1. Bmp!Bits' = Bmp!Bits \union (x .. x + n - 1)
      BY <1>3, <2>1, SetIs
    <3>2. x .. x + n - 1 \subseteq 0 .. Size - 1
      BY <1>1, <2>1 DEF Bmp!InBounds
    <3> QED BY <1>1, <3>1, <3>2
  <2>2. CASE ~Bmp!InBounds(x, n)
    <3>1. data' = data
      BY <1>3, <2>2 DEF Bmp!bmp_set
    <3> QED BY <1>1, <3>1, SameBits
  <2> QED BY <2>1, <2>2
<1>4. PICK o \in Bmp!Offsets, n \in 1 .. Size :
        \/ Bmp!InBounds(o, n) /\ Bmp!bmp_set(o, n)
        \/ Bmp!InBounds(o, n) /\ Bmp!bmp_unset(o, n)
        \/ ~aborted /\ Bmp!bmp_set_avail(o, n)
  BY DEF Bmp!BitmapNext
<1>5. o \in Nat
  BY <1>1 DEF Bmp!Offsets
<1>6. CASE Bmp!bmp_set(o, n)
  BY <1>3, <1>5, <1>6
<1>7. CASE Bmp!InBounds(o, n) /\ Bmp!bmp_unset(o, n)
  <2>1. Bmp!Bits' = Bmp!Bits \ (o .. o + n - 1)
    BY <1>5, <1>7, SetIs
  <2> QED BY <1>1, <2>1
<1>8. CASE Bmp!bmp_set_avail(o, n)
  <2>1. CASE Bmp!Avail(o, n) = -1
    <3>1. data' = data
      BY <1>8, <2>1 DEF Bmp!bmp_set_avail, Bmp!bmv
    <3> QED BY <1>1, <3>1, SameBits
  <2>2. CASE Bmp!Avail(o, n) # -1
    <3>1. Bmp!Avail(o, n) \in Nat /\ Bmp!bmp_set(Bmp!Avail(o, n), n)
      BY <1>8, <2>2, TakenIs DEF Bmp!bmp_set_avail
    <3> QED BY <1>3, <3>1
  <2> QED BY <2>1, <2>2
<1> QED BY <1>4, <1>6, <1>7, <1>8

(* The bits behind the map stay clear, which choice_find_avail relies on.  *)
LEMMA PaddingInvariance == RtSpec => []Bmp!PaddingClear
<1>1. RtInit => Bmp!PaddingClear
  <2> SUFFICES ASSUME RtInit PROVE Bmp!PaddingClear
    OBVIOUS
  <2>1. data = [b \in Bmp!Bytes |-> {}]
    BY DEF RtInit, Bmp!BitmapInit
  <2>2. ASSUME NEW k \in 0 .. T - 1 PROVE ~Bmp!bmp_is_set(k)
    <3>1. k \div W \in Bmp!Bytes
      BY ByteOf
    <3> QED BY <2>1, <3>1 DEF Bmp!bmp_is_set
  <2> QED BY <2>2 DEF Bmp!PaddingClear, Bmp!Bits, T
<1>2. Bmp!PaddingClear /\ [RtNext]_rtVars => Bmp!PaddingClear'
  <2> SUFFICES ASSUME Bmp!PaddingClear, [RtNext]_rtVars PROVE Bmp!PaddingClear'
    OBVIOUS
  <2>1. CASE Bmp!BitmapNext
    BY <2>1, PaddingKept
  <2>2. CASE data' = data
    BY <2>2, SameBits DEF Bmp!PaddingClear, Bmp!Offsets
  <2> QED BY <2>1, <2>2 DEF RtNext, rtVars, bmpVars
<1> QED BY <1>1, <1>2, PTL DEF RtSpec

(* For bytes and bitmaps of every size: bmp_set and bmp_unset (bitmap.c)   *)
(* change their range and nothing else, bmp_set_avail takes the first run  *)
(* of clear bits when the map has one, and the padding stays clear.        *)
THEOREM RangesAreExact == RtSpec => RangesExact
<1>1. Bmp!PaddingClear /\ [RtNext]_rtVars =>
        [part = "bitmap" => Bmp!RangeStep /\ Bmp!AvailStep /\ Bmp!PaddingClear']_rtVars
  <2> SUFFICES ASSUME Bmp!PaddingClear, RtNext, part = "bitmap"
               PROVE  Bmp!RangeStep /\ Bmp!AvailStep /\ Bmp!PaddingClear'
    OBVIOUS
  <2>1. Bmp!BitmapNext
    BY DEF RtNext
  <2> QED BY <2>1, PaddingKept, RangeHolds, AvailHolds
<1> QED BY <1>1, PaddingInvariance, PTL DEF RtSpec, RangesExact

(* choice_find_avail (choice.c) returns the first place from its offset on *)
(* where min_count choices in a row are available, and -1 only when there  *)
(* is none, for bytes and bitmaps of every size.                           *)
THEOREM SearchFindsFirst == RtSpec => []FindsFirst
<1>1. Bmp!PaddingClear => FindsFirst
  <2>1. SUFFICES ASSUME Bmp!PaddingClear PROVE Bmp!FindsFirst
    BY DEF FindsFirst
  <2>2. ASSUME NEW o \in Bmp!Offsets, NEW n \in 1 .. Size
        PROVE  Bmp!choice_find_avail(o, n) = Found(o, n)
    <3>1. o \in 0 .. T
      BY TotalIs DEF Bmp!Offsets
    <3> QED BY <2>1, <3>1, FindIs
  <2>3. \A o \in Bmp!Offsets, n \in 1 .. Size : Bmp!choice_find_avail(o, n) = Found(o, n)
    BY <2>2
  <2> QED BY <2>3, Zenon DEF Bmp!FindsFirst, Found, Fits
<1> QED BY <1>1, PaddingInvariance, PTL

-----------------------------------------------------------------------------
(* Bits and bytes of a word. *)

LEMMA Parts ==
    ASSUME NEW w \in Nat \ {0}, NEW k \in Nat
    PROVE  /\ k \div w \in Nat /\ k % w \in 0 .. w - 1 /\ (k \div w) * w \in Nat
           /\ k = (k \div w) * w + (k % w)
OBVIOUS

LEMMA PartsAre ==
    ASSUME NEW w \in Nat \ {0}, NEW q \in Nat, NEW r \in 0 .. w - 1
    PROVE  q * w + r \in Nat /\ (q * w + r) \div w = q /\ (q * w + r) % w = r
OBVIOUS

LEMMA Multiples ==
    ASSUME NEW w \in Nat \ {0}, NEW a \in Nat, NEW b \in Nat, a < b
    PROVE  a * w \in Nat /\ b * w \in Nat /\ a * w + w <= b * w
OBVIOUS

LEMMA DivRises ==
    ASSUME NEW w \in Nat \ {0}, NEW a \in Nat, NEW b \in Nat, a <= b
    PROVE  a \div w \in Nat /\ b \div w \in Nat /\ a \div w <= b \div w
<1>1. /\ a \div w \in Nat /\ a % w \in 0 .. w - 1 /\ (a \div w) * w \in Nat
      /\ a = (a \div w) * w + (a % w)
  BY Parts
<1>2. /\ b \div w \in Nat /\ b % w \in 0 .. w - 1 /\ (b \div w) * w \in Nat
      /\ b = (b \div w) * w + (b % w)
  BY Parts
<1>3. b \div w < a \div w => (b \div w) * w + w <= (a \div w) * w
  BY <1>1, <1>2, Multiples
<1> QED BY <1>1, <1>2, <1>3

B == ByteBits

LEMMA Widths ==
    /\ B \in Nat \ {0} /\ WordBytes \in 1 .. 8 /\ Acc!WordBits = WordBytes * B
    /\ Acc!WordBits \in Nat \ {0} /\ B <= Acc!WordBits /\ LineBytes * B \in Nat \ {0}
    /\ B % B = 0 /\ B \div B = 1 /\ 0 \div B = 0 /\ 0 % B = 0
BY AccessAssumption DEF B, Acc!WordBits

(* The m bits from g on. *)
Word(g, m) == [i \in Acc!Pos |-> IF i < m THEN cells[g + i] ELSE Acc!Zero]

(* The bytes that hold n bits. *)
LEMMA BytesOf ==
    ASSUME NEW n \in 1 .. Acc!WordBits
    PROVE  LET k == (n + B - 1) \div B
           IN  k \in 1 .. WordBytes /\ k * B \in Nat /\ n <= k * B
<1> DEFINE k == (n + B - 1) \div B
<1>1. B \in Nat \ {0} /\ n \in Nat \ {0} /\ n + B - 1 \in Nat /\ WordBytes \in Nat /\ n <= WordBytes * B
  BY Widths
<1>2. /\ k \in Nat /\ (n + B - 1) % B \in 0 .. B - 1 /\ k * B \in Nat
      /\ n + B - 1 = k * B + ((n + B - 1) % B)
  BY <1>1, Parts
<1> HIDE DEF k
<1>3. n <= k * B
  BY <1>1, <1>2
<1>4. k # 0
  BY <1>1, <1>2, <1>3
<1>5. ~(WordBytes < k)
  <2>1. WordBytes < k => WordBytes * B + B <= k * B
    BY <1>1, <1>2, Multiples
  <2>2. WordBytes * B \in Nat
    BY <1>1
  <2> QED BY <1>1, <1>2, <2>1, <2>2
<1>6. k \in 1 .. WordBytes /\ k * B \in Nat /\ n <= k * B
  BY <1>1, <1>2, <1>3, <1>4, <1>5
<1> QED BY <1>6 DEF k

(* A load of one line has the bits that are asked for. *)
LEMMA AlignedIs ==
    ASSUME NEW p \in Nat, NEW n \in 1 .. Acc!WordBits, ~Acc!Strad(p, n)
    PROVE  Acc!Aligned(p, n) = Word(p, n)
<1> DEFINE k == (n + B - 1) \div B
<1>1. k \in 1 .. WordBytes /\ k * B \in Nat /\ n <= k * B
  BY BytesOf
<1>2. B \in Nat \ {0} /\ WordBytes \in 1 .. 8 /\ n \in Nat \ {0} /\ n <= Acc!WordBits /\ Acc!WordBits \in Nat
  BY Widths
<1>3. Acc!Aligned(p, n) = Acc!Low(Acc!Low(Acc!Load(p, Acc!Loaded(k)), Acc!Kept(k)), n)
  BY DEF Acc!Aligned, B
<1> HIDE DEF k
<1>4. k \in 1 .. 8
  BY <1>1, <1>2
<1>5. Acc!Loaded(k) \in 1 .. 8 /\ k <= Acc!Loaded(k)
  BY <1>4 DEF Acc!Loaded
<1>6. Acc!Loaded(k) * B \in Nat /\ n <= Acc!Loaded(k) * B
  <2>1. k < Acc!Loaded(k) => k * B + B <= Acc!Loaded(k) * B
    BY <1>2, <1>4, <1>5, Multiples
  <2>2. Acc!Loaded(k) * B \in Nat
    BY <1>2, <1>5
  <2> QED BY <1>1, <1>2, <1>4, <1>5, <2>1, <2>2
<1>7. Acc!Kept(k) \in Nat /\ n <= Acc!Kept(k)
  <2>1. B \div 2 \in Nat
    BY <1>2
  <2> QED BY <1>1, <1>2, <1>4, <2>1 DEF Acc!Kept, B
<1>8. ASSUME NEW i \in Acc!Pos, i < n PROVE Acc!LineOf(p + i) = Acc!LineOf(p)
  <2>1. i \in Nat /\ p <= p + i /\ p + i <= p + n - 1 /\ p + i \in Nat /\ p + n - 1 \in Nat
    BY <1>2, <1>8 DEF Acc!Pos
  <2>2. LineBytes * ByteBits \in Nat \ {0}
    BY Widths DEF B
  <2>3. Acc!LineOf(p) <= Acc!LineOf(p + i) /\ Acc!LineOf(p + i) <= Acc!LineOf(p + n - 1)
    BY <2>1, <2>2, DivRises DEF Acc!LineOf
  <2>4. Acc!LineOf(p) \in Nat /\ Acc!LineOf(p + i) \in Nat
    BY <2>1, <2>2, DivRises DEF Acc!LineOf
  <2> QED BY <2>3, <2>4 DEF Acc!Strad
<1>9. ASSUME NEW i \in Acc!Pos
      PROVE  Acc!Low(Acc!Low(Acc!Load(p, Acc!Loaded(k)), Acc!Kept(k)), n)[i] = Word(p, n)[i]
  <2>1. i \in Nat
    BY <1>2 DEF Acc!Pos
  <2>2. CASE i < n
    <3>1. i < Acc!Kept(k) /\ ~(i >= Acc!Loaded(k) * ByteBits)
      BY <1>2, <1>6, <1>7, <2>1, <2>2 DEF B
    <3> QED BY <1>8, <2>2, <3>1 DEF Acc!Low, Acc!Load, Word
  <2>3. CASE ~(i < n)
    BY <2>3 DEF Acc!Low, Word
  <2> QED BY <2>2, <2>3
<1>10. Acc!Low(Acc!Low(Acc!Load(p, Acc!Loaded(k)), Acc!Kept(k)), n) = Word(p, n)
  BY <1>9 DEF Acc!Low, Word
<1> QED BY <1>3, <1>10

(* So has the cache, except for what is left of the last byte when a word  *)
(* straddles two lines.                                                    *)
LEMMA CacheGetIs ==
    ASSUME NEW p \in Nat, NEW n \in 1 .. Acc!WordBits, ~Acc!Strad(p, n) \/ Acc!Whole(n)
    PROVE  Acc!CacheGet(p, n) = Word(p, n)
<1>1. CASE ~Acc!Strad(p, n)
  BY <1>1, AlignedIs DEF Acc!CacheGet, Acc!Strad
<1>2. CASE Acc!Strad(p, n) /\ Acc!Whole(n)
  <2>1. n \in Nat /\ B \in Nat \ {0}
    BY Widths
  <2>2. (n \div ByteBits) * ByteBits = n
    <3>1. (n \div B) * B \in Nat /\ n = (n \div B) * B + (n % B)
      BY <2>1, Parts
    <3>2. n % B = 0
      BY <1>2 DEF Acc!Whole, B
    <3> QED BY <3>1, <3>2 DEF B
  <2> QED BY <1>2, <2>2 DEF Acc!CacheGet, Acc!Strad, Acc!Joined, Word
<1> QED BY <1>1, <1>2

LEMMA WordAt ==
    ASSUME NEW g, NEW m, NEW i \in Acc!Pos
    PROVE  /\ i < m => Word(g, m)[i] = cells[g + i]
           /\ ~(i < m) => Word(g, m)[i] = Acc!Zero
BY DEF Word

LEMMA OrIs ==
    ASSUME NEW v, NEW w, NEW i \in Acc!Pos
    PROVE  /\ w[i] = Acc!Zero => Acc!Or(v, w)[i] = v[i]
           /\ v[i] = Acc!Zero => Acc!Or(v, w)[i] = w[i]
BY DEF Acc!Or

LEMMA ShiftIs ==
    ASSUME NEW w, NEW n, NEW i \in Acc!Pos
    PROVE  /\ i >= n => Acc!Shl(w, n)[i] = w[i - n]
           /\ ~(i >= n) => Acc!Shl(w, n)[i] = Acc!Zero
           /\ i + n < Acc!WordBits => Acc!Shr(w, n)[i] = w[i + n]
           /\ ~(i + n < Acc!WordBits) => Acc!Shr(w, n)[i] = Acc!Zero
           /\ i < n => Acc!Low(w, n)[i] = w[i]
           /\ ~(i < n) => Acc!Low(w, n)[i] = Acc!Zero
BY DEF Acc!Shl, Acc!Shr, Acc!Low

(* The pieces of a misaligned field: what is left of its first byte, whole *)
(* bytes, and the start of its last.                                       *)
LEMMA Pieces ==
    ASSUME NEW off \in Nat, NEW n \in 1 .. Acc!WordBits, off % B # 0
    PROVE  LET x     == Acc!ByteAt(off)
               r     == off % B
               left  == Acc!LeftBits(off, n)
               full  == (n - left) \div B
               right == n - ((full * B) + left)
           IN  /\ x \in Nat /\ r \in 1 .. B - 1 /\ off = x + r /\ left \in 1 .. n
               /\ full \in 0 .. WordBytes - 1 /\ full * B \in Nat /\ right \in 0 .. B - 1
               /\ n = left + full * B + right
               /\ \/ left = n /\ r + n < B /\ full = 0 /\ full * B = 0 /\ right = 0
                  \/ left = B - r
<1> DEFINE x     == Acc!ByteAt(off)
           r     == off % B
           left  == Acc!LeftBits(off, n)
           full  == (n - left) \div B
           right == n - ((full * B) + left)
<1>1. B \in Nat \ {0} /\ n \in Nat \ {0} /\ n <= WordBytes * B /\ WordBytes \in Nat \ {0} /\ WordBytes * B \in Nat
  BY Widths
<1>2. x \in Nat /\ r \in 1 .. B - 1 /\ off = x + r
  <2>1. (off \div B) * B \in Nat /\ off % B \in 0 .. B - 1 /\ off = (off \div B) * B + (off % B)
    BY <1>1, Parts
  <2> QED BY <1>1, <2>1 DEF Acc!ByteAt, B
<1>3. left = IF B - r > n THEN n ELSE B - r
  BY DEF Acc!LeftBits, B
<1> HIDE DEF x, r, left
<1>4. left \in 1 .. n /\ n - left \in Nat
  BY <1>1, <1>2, <1>3
<1>5. full \in Nat /\ full * B \in Nat /\ (n - left) % B \in 0 .. B - 1 /\ n - left = full * B + ((n - left) % B)
  BY <1>1, <1>4, Parts
<1>6. B - r > n => full = 0
  <2>1. SUFFICES ASSUME B - r > n PROVE full = 0
    OBVIOUS
  <2>2. n - left = 0
    BY <1>1, <1>3, <1>4, <2>1
  <2> QED BY <2>2, Widths
<1> HIDE DEF full
<1>7. full < WordBytes
  <2>1. full * B < WordBytes * B
    BY <1>1, <1>4, <1>5
  <2>2. WordBytes < full => WordBytes * B + B <= full * B
    BY <1>1, <1>5, Multiples
  <2>3. WordBytes = full => WordBytes * B = full * B
    OBVIOUS
  <2> QED BY <1>1, <1>5, <2>1, <2>2, <2>3
<1>8. right = (n - left) % B /\ n = left + full * B + right
  BY <1>1, <1>4, <1>5
<1>9. \/ left = n /\ r + n < B /\ full = 0 /\ full * B = 0 /\ right = 0
      \/ left = B - r
  <2>1. CASE B - r > n
    <3>1. left = n /\ r + n < B /\ full = 0
      BY <1>1, <1>2, <1>3, <1>6, <2>1
    <3>2. full * B = 0
      BY <1>1, <3>1
    <3> QED BY <1>1, <3>1, <3>2
  <2>2. CASE ~(B - r > n)
    BY <1>3, <2>2
  <2> QED BY <2>1, <2>2
<1>10. full \in 0 .. WordBytes - 1 /\ right \in 0 .. B - 1
  BY <1>1, <1>5, <1>7, <1>8
<1> QED BY <1>2, <1>4, <1>5, <1>8, <1>9, <1>10 DEF x, r, left, full

(* Whole bytes. *)
LEMMA WholeBytes ==
    ASSUME NEW f \in 1 .. WordBytes
    PROVE  f * B \in 1 .. Acc!WordBits /\ Acc!Whole(f * B) /\ (f * B) \div B = f
<1>1. B \in Nat \ {0} /\ f \in Nat \ {0} /\ f <= WordBytes /\ WordBytes \in Nat /\ Acc!WordBits = WordBytes * B
  BY Widths
<1>2. f * B \in Nat /\ f * B # 0 /\ f * B <= WordBytes * B
  <2>1. f < WordBytes => f * B + B <= WordBytes * B
    BY <1>1, Multiples
  <2>2. f * B \in Nat /\ WordBytes * B \in Nat
    BY <1>1
  <2>3. 0 < f => 0 * B + B <= f * B
    BY <1>1, Multiples
  <2>4. 0 * B = 0
    BY <1>1
  <2> QED BY <1>1, <2>1, <2>2, <2>3, <2>4
<1>3. f * B + 0 = f * B /\ 0 \in 0 .. B - 1
  BY <1>1, <1>2
<1>4. (f * B) \div B = f /\ (f * B) % B = 0
  BY <1>1, <1>3, PartsAre
<1>5. f * B \in 1 .. Acc!WordBits
  <2> DEFINE y == f * B
             z == WordBytes * B
  <2>1. y \in Nat /\ z \in Nat /\ y # 0 /\ y <= z
    BY <1>1, <1>2
  <2> HIDE DEF y, z
  <2>2. y \in 1 .. z
    BY <2>1
  <2> QED BY <1>1, <2>2 DEF y, z
<1> QED BY <1>4, <1>5 DEF Acc!Whole, B

LEMMA OneByte ==
    /\ B \in 1 .. Acc!WordBits /\ Acc!Whole(B)
    /\ \A g \in Nat : Acc!CacheGet(g, B) = Word(g, B)
BY Widths, CacheGetIs DEF Acc!Whole, B

-----------------------------------------------------------------------------
(* Little endian. *)

LEMMA MisalignIs ==
    ASSUME mode # "big", NEW off \in Nat, NEW n \in 1 .. Acc!WordBits, n < Acc!WordBits,
           off % B # 0, NEW wide
    PROVE  Acc!Misalign(off, n, wide) = Word(off, n)
<1> DEFINE x     == Acc!ByteAt(off)
           r     == off % B
           left  == Acc!LeftBits(off, n)
           full  == (n - left) \div B
           F     == full * B
           right == n - (F + left)
           M     == Acc!AlignedPhys(x + B, F)
           R     == Acc!AlignedPhys(x + B + F, B)
           a     == Acc!Shr(Acc!AlignedPhys(x, B), r)
           b     == IF full = 0 THEN a ELSE Acc!Or(a, Acc!Shl(M, left))
           c     == Acc!Masked(b, n, wide)
           d     == Acc!Shl(Acc!Low(R, right), left + F)
<1>1. Acc!Misalign(off, n, wide) = IF right = 0 THEN c ELSE Acc!Or(c, d)
  BY DEF Acc!Misalign, B
<1>2. /\ x \in Nat /\ r \in 1 .. B - 1 /\ off = x + r /\ left \in 1 .. n
      /\ full \in 0 .. WordBytes - 1 /\ F \in Nat /\ right \in 0 .. B - 1
      /\ n = left + F + right
      /\ \/ left = n /\ r + n < B /\ full = 0 /\ F = 0 /\ right = 0
         \/ left = B - r
  BY Pieces
<1>3. B \in Nat \ {0} /\ n \in Nat \ {0} /\ Acc!WordBits \in Nat \ {0} /\ WordBytes \in Nat \ {0}
  BY Widths
<1>4. \A g \in Nat : Acc!AlignedPhys(g, B) = Word(g, B)
  BY OneByte DEF Acc!AlignedPhys
<1>5. full # 0 => M = Word(x + B, F)
  <2>1. SUFFICES ASSUME full # 0 PROVE M = Word(x + B, F)
    OBVIOUS
  <2> HIDE DEF x, left, full, right
  <2>2. full \in 1 .. WordBytes
    BY <1>2, <1>3, <2>1
  <2>3. F \in 1 .. Acc!WordBits /\ Acc!Whole(F)
    BY <2>2, WholeBytes
  <2> HIDE DEF F
  <2>4. x + B \in Nat
    BY <1>2, <1>3
  <2> QED BY <2>3, <2>4, CacheGetIs DEF Acc!AlignedPhys
<1>6. x + B + F \in Nat /\ R = Word(x + B + F, B) /\ Acc!AlignedPhys(x, B) = Word(x, B)
  <2> HIDE DEF x, F, left, full, right
  <2>1. x + B + F \in Nat
    BY <1>2, <1>3
  <2> QED BY <1>2, <1>4, <2>1
<1>7. full = 0 => F = 0
  BY <1>3
<1>8. c = Acc!Low(b, n)
  BY DEF Acc!Masked
<1> HIDE DEF x, r, left, full, F, right, M, R
<1>9. ASSUME NEW i \in Acc!Pos PROVE a[i] = IF i + r < B THEN cells[off + i] ELSE Acc!Zero
  <2>1. i \in Nat /\ i < Acc!WordBits
    BY <1>3 DEF Acc!Pos
  <2>2. CASE i + r < Acc!WordBits
    <3>1. i + r \in Acc!Pos /\ x + (i + r) = off + i
      BY <1>2, <1>3, <2>1, <2>2 DEF Acc!Pos
    <3>2. a[i] = Word(x, B)[i + r]
      BY <1>6, <2>2, ShiftIs
    <3> QED BY <3>1, <3>2, WordAt
  <2>3. CASE ~(i + r < Acc!WordBits)
    <3>1. ~(i + r < B)
      BY <1>2, <1>3, <2>1, <2>3, Widths
    <3> QED BY <2>3, <3>1, ShiftIs
  <2> QED BY <2>2, <2>3
<1> HIDE DEF a
<1>10. ASSUME NEW i \in Acc!Pos, left = B - r
       PROVE  b[i] = IF i < left + F THEN cells[off + i] ELSE Acc!Zero
  <2>1. i \in Nat /\ i < Acc!WordBits
    BY <1>3 DEF Acc!Pos
  <2>2. i + r < B <=> i < left
    BY <1>2, <1>3, <1>10, <2>1
  <2>3. CASE full = 0
    BY <1>2, <1>7, <1>9, <2>2, <2>3
  <2>4. CASE full # 0
    <3>1. b = Acc!Or(a, Acc!Shl(M, left))
      BY <2>4
    <3>2. CASE i < left
      <4>1. Acc!Shl(M, left)[i] = Acc!Zero
        BY <1>2, <2>1, <3>2, ShiftIs
      <4>2. b[i] = a[i]
        BY <3>1, <4>1, OrIs
      <4> QED BY <1>2, <1>9, <2>1, <2>2, <3>2, <4>2
    <3>3. CASE ~(i < left)
      <4>1. i - left \in Acc!Pos /\ i >= left /\ x + B + (i - left) = off + i /\ (i - left < F <=> i < left + F)
        BY <1>2, <1>3, <1>10, <2>1, <3>3 DEF Acc!Pos
      <4>2. Acc!Shl(M, left)[i] = Word(x + B, F)[i - left]
        BY <1>5, <2>4, <4>1, ShiftIs
      <4>3. a[i] = Acc!Zero
        BY <1>9, <2>2, <3>3
      <4>4. b[i] = Word(x + B, F)[i - left]
        BY <3>1, <4>2, <4>3, OrIs
      <4> QED BY <4>1, <4>4, WordAt
    <3> QED BY <3>2, <3>3
  <2> QED BY <2>3, <2>4
<1> HIDE DEF b
<1>11. ASSUME NEW i \in Acc!Pos PROVE (IF right = 0 THEN c ELSE Acc!Or(c, d))[i] = Word(off, n)[i]
  <2>1. i \in Nat /\ i < Acc!WordBits
    BY <1>3 DEF Acc!Pos
  <2>2. CASE left = n /\ r + n < B /\ full = 0 /\ F = 0 /\ right = 0
    <3>1. b[i] = a[i]
      BY <2>2 DEF b
    <3>2. CASE i < n
      <4>1. i + r < B
        BY <1>2, <1>3, <2>1, <2>2, <3>2
      <4> QED BY <1>8, <1>9, <2>2, <3>1, <3>2, <4>1, ShiftIs, WordAt
    <3>3. CASE ~(i < n)
      BY <1>8, <2>2, <3>3, ShiftIs, WordAt
    <3> QED BY <3>2, <3>3
  <2>3. CASE left = B - r
    <3>1. c[i] = IF i < left + F THEN cells[off + i] ELSE Acc!Zero
      <4>1. i < left + F => i < n
        BY <1>2, <1>3, <2>1
      <4>2. CASE i < n
        BY <1>8, <1>10, <2>3, <4>2, ShiftIs
      <4>3. CASE ~(i < n)
        BY <1>8, <4>1, <4>3, ShiftIs
      <4> QED BY <4>2, <4>3
    <3>2. CASE right = 0
      <4>1. n = left + F
        BY <1>2, <1>3, <3>2
      <4> QED BY <3>1, <3>2, <4>1, WordAt
    <3>3. CASE right # 0
      <4>1. CASE i < left + F
        <5>1. d[i] = Acc!Zero
          BY <1>2, <2>1, <4>1, ShiftIs
        <5>2. i < n
          BY <1>2, <1>3, <2>1, <4>1
        <5> HIDE DEF d, c
        <5> QED BY <3>1, <3>3, <4>1, <5>1, <5>2, OrIs, WordAt
      <4>2. CASE ~(i < left + F)
        <5> DEFINE m == i - (left + F)
        <5>1. m \in Acc!Pos /\ i >= left + F /\ x + B + F + m = off + i /\ (m < right <=> i < n) /\ (m < right => m < B)
          BY <1>2, <1>3, <2>1, <2>3, <4>2 DEF Acc!Pos
        <5>2. d[i] = Acc!Low(R, right)[m]
          BY <5>1, ShiftIs
        <5>3. c[i] = Acc!Zero
          BY <3>1, <4>2
        <5> HIDE DEF d, c, m
        <5>4. Acc!Or(c, d)[i] = Acc!Low(R, right)[m]
          BY <5>2, <5>3, OrIs
        <5>5. CASE m < right
          <6>1. Acc!Low(R, right)[m] = Word(x + B + F, B)[m]
            BY <1>6, <5>1, <5>5, ShiftIs
          <6>2. Word(x + B + F, B)[m] = cells[off + i]
            BY <5>1, <5>5, WordAt
          <6> QED BY <3>3, <5>1, <5>4, <5>5, <6>1, <6>2, WordAt
        <5>6. CASE ~(m < right)
          BY <3>3, <5>1, <5>4, <5>6, ShiftIs, WordAt
        <5> QED BY <5>5, <5>6
      <4> QED BY <4>1, <4>2
    <3> QED BY <3>2, <3>3
  <2> QED BY <1>2, <2>2, <2>3
<1>12. (IF right = 0 THEN c ELSE Acc!Or(c, d)) = Word(off, n)
  <2>1. c = Acc!Low(b, n)
    BY <1>8
  <2> HIDE DEF c, d
  <2> QED BY <1>11, <2>1 DEF Acc!Low, Acc!Or, Word
<1> QED BY <1>1, <1>12

LEMMA LittleIs ==
    ASSUME mode # "big", NEW off \in Nat, NEW n \in 1 .. Acc!WordBits, NEW wide,
           off % B # 0 => n # Acc!WordBits,
           off % B = 0 => Acc!Whole(n) \/ ~Acc!Strad(off, n)
    PROVE  Acc!getLocalPhys(off, n, wide) = Word(off, n)
<1>1. CASE off % B = 0
  <2>1. Acc!getLocalPhys(off, n, wide) = Acc!CacheGet(off, n)
    BY <1>1 DEF Acc!getLocalPhys, Acc!AlignedPhys, B
  <2> QED BY <1>1, <2>1, CacheGetIs
<1>2. CASE off % B # 0
  <2>1. Acc!getLocalPhys(off, n, wide) = Acc!Misalign(off, n, wide)
    BY <1>2 DEF Acc!getLocalPhys, B
  <2>2. n < Acc!WordBits
    BY <1>2, Widths
  <2> QED BY <1>2, <2>1, <2>2, MisalignIs
<1> QED BY <1>1, <1>2

-----------------------------------------------------------------------------
(* Big endian. *)

(* The n bits from g on, the first one in the highest place. *)
Rev(g, n) == [i \in Acc!Pos |-> IF i < n THEN cells[Acc!Place(g + n - 1 - i)] ELSE Acc!Zero]

LEMMA RevAt ==
    ASSUME NEW g, NEW m, NEW i \in Acc!Pos
    PROVE  /\ i < m => Rev(g, m)[i] = cells[Acc!Place(g + m - 1 - i)]
           /\ ~(i < m) => Rev(g, m)[i] = Acc!Zero
BY DEF Rev

LEMMA PlaceIs ==
    ASSUME mode = "big", NEW o \in Nat, NEW t \in 0 .. B - 1
    PROVE  Acc!Place(o * B + t) = o * B + B - 1 - t
<1>1. (o * B + t) \div B = o /\ (o * B + t) % B = t
  BY Widths, PartsAre
<1> QED BY <1>1 DEF Acc!Place, Acc!ByteAt, B

(* A word is no failed assertion. *)
LEMMA NoAbortAt ==
    ASSUME NEW w, DOMAIN w = Acc!Pos
    PROVE  w # Acc!Abort
<1>1. 0 \in Acc!Pos
  BY Widths DEF Acc!Pos
<1>2. DOMAIN <<>> = {}
  OBVIOUS
<1> QED BY <1>1, <1>2 DEF Acc!Abort

(* Swapping whole bytes reverses the bits of the description; three and    *)
(* seven bytes are not swapped.                                            *)
LEMMA SwapIs ==
    ASSUME mode = "big", NEW o \in Nat, NEW f \in 1 .. WordBytes
    PROVE  Acc!AlignedPhys(o * B, f * B) = IF f \in {3, 7} THEN Acc!Abort ELSE Rev(o * B, f * B)
<1> DEFINE w == Word(o * B, f * B)
           sw == [i \in Acc!Pos |-> IF i < f * ByteBits
                        THEN w[((f - 1 - (i \div ByteBits)) * ByteBits) + (i % ByteBits)] ELSE Acc!Zero]
<1>1. /\ B \in Nat \ {0} /\ f \in Nat \ {0} /\ f \in 1 .. 8 /\ o * B \in Nat /\ f * B \in 1 .. Acc!WordBits
      /\ Acc!Whole(f * B) /\ (f * B) \div B = f
  <2> HIDE DEF w, sw
  <2>1. B \in Nat \ {0} /\ WordBytes \in 1 .. 8
    BY Widths
  <2>2. f \in Nat \ {0} /\ f \in 1 .. 8
    BY <2>1
  <2>3. o * B \in Nat
    BY <2>1
  <2> QED BY <2>1, <2>2, <2>3, WholeBytes
<1>2. Acc!CacheGet(o * B, f * B) = w
  BY <1>1, CacheGetIs
<1>3. Acc!AlignedPhys(o * B, f * B) = IF f \in {1, 2, 4, 5, 6, 8} THEN sw ELSE Acc!Abort
  <2>1. Acc!AlignedPhys(o * B, f * B) = Acc!swapBytes(Acc!CacheGet(o * B, f * B), f)
    BY <1>1 DEF Acc!AlignedPhys, Acc!Whole, B
  <2>2. Acc!AlignedPhys(o * B, f * B) = Acc!swapBytes(w, f)
    BY <1>2, <2>1
  <2> HIDE DEF w
  <2> QED BY <2>2 DEF Acc!swapBytes
<1>4. ASSUME NEW i \in Acc!Pos PROVE sw[i] = Rev(o * B, f * B)[i]
  <2> DEFINE e == i \div B
             t == i % B
             g == f - 1 - e
  <2>1. i \in Nat /\ e \in Nat /\ t \in 0 .. B - 1 /\ e * B \in Nat /\ i = e * B + t
    <3>1. i \in Nat
      BY <1>1 DEF Acc!Pos
    <3> QED BY <1>1, <3>1, Parts
  <2>2. CASE ~(i < f * B)
    BY <2>2, RevAt DEF B
  <2>3. CASE i < f * B
    <3>1. sw[i] = w[(g * B) + t]
      BY <2>3 DEF B
    <3> HIDE DEF e, t, sw, w
    <3>2. e < f
      <4>1. f < e => f * B + B <= e * B
        BY <1>1, <2>1, Multiples
      <4>2. f = e => f * B = e * B
        OBVIOUS
      <4>3. f * B \in Nat
        BY <1>1
      <4> QED BY <1>1, <2>1, <2>3, <4>1, <4>2, <4>3
    <3>3. g \in Nat /\ g + e + 1 = f
      BY <1>1, <2>1, <3>2
    <3> HIDE DEF g
    <3>4. g * B \in Nat /\ f * B = g * B + e * B + B /\ (o + g) * B = o * B + g * B /\ o + g \in Nat
      BY <1>1, <2>1, <3>3
    <3> DEFINE m == g * B + t
    <3>5. m \in Acc!Pos /\ m < f * B
      <4> DEFINE y == g * B
                 z == e * B
                 u == f * B
      <4>1. y \in Nat /\ z \in Nat /\ u = y + z + B /\ t \in 0 .. B - 1 /\ u \in 1 .. Acc!WordBits
        BY <1>1, <2>1, <3>4
      <4> HIDE DEF y, z, u
      <4>2. y + t \in 0 .. Acc!WordBits - 1 /\ y + t < u
        BY <1>1, <4>1, Widths
      <4> QED BY <4>2 DEF y, u, Acc!Pos
    <3>6. w[m] = cells[o * B + m]
      <4> HIDE DEF m
      <4> QED BY <3>5, WordAt DEF w
    <3>7. o * B + f * B - 1 - i = (o + g) * B + (B - 1 - t) /\ B - 1 - t \in 0 .. B - 1
      BY <1>1, <2>1, <3>4
    <3>8. Acc!Place((o + g) * B + (B - 1 - t)) = (o + g) * B + B - 1 - (B - 1 - t)
      BY <3>4, <3>7, PlaceIs
    <3>9. (o + g) * B + B - 1 - (B - 1 - t) = o * B + m
      BY <1>1, <2>1, <3>4
    <3>10. Rev(o * B, f * B)[i] = cells[Acc!Place(o * B + f * B - 1 - i)]
      BY <2>3, RevAt
    <3> QED BY <3>1, <3>6, <3>7, <3>8, <3>9, <3>10
  <2> QED BY <2>2, <2>3
<1>5. sw = Rev(o * B, f * B)
  BY <1>4 DEF Rev
<1>6. f \in {1, 2, 4, 5, 6, 8} <=> f \notin {3, 7}
  BY <1>1
<1> HIDE DEF sw
<1> QED BY <1>3, <1>5, <1>6

(* A misaligned field, swapped. *)
LEMMA MisalignSwpIs ==
    ASSUME mode = "big", NEW off \in Nat, NEW n \in 1 .. Acc!WordBits, off % B # 0, NEW wide
    PROVE  LET v == Acc!MisalignSwp(off, n, wide)
           IN  /\ v = Acc!Abort <=> (off % B) + n < B \/ Acc!MiddleBytes(off, n) \in {3, 7}
               /\ v # Acc!Abort /\ n < Acc!WordBits => v = Rev(off, n)
<1> DEFINE x     == Acc!ByteAt(off)
           r     == off % B
           left  == Acc!LeftBits(off, n)
           right == (off + n) % B
           full  == (n - (left + right)) \div B
           F     == full * B
           M     == Acc!AlignedPhys(x + B, F)
           A     == Acc!AlignedPhys(x, B)
           L     == Acc!AlignedPhys(x + B + F, B)
           a     == Acc!Shl(Acc!Low(A, left), n - left)
           b     == IF full = 0 THEN a ELSE Acc!Or(a, Acc!Shl(M, right))
           c     == IF right = 0 THEN b ELSE Acc!Or(b, Acc!Shr(L, B - right))
           p     == (n - left) \div B
           rest  == n - ((p * B) + left)
           v     == Acc!MisalignSwp(off, n, wide)
<1>1. v = IF n < left + right \/ (full > 0 /\ M = Acc!Abort) THEN Acc!Abort ELSE Acc!Masked(c, n, wide)
  BY DEF Acc!MisalignSwp, B
<1>2. /\ x \in Nat /\ r \in 1 .. B - 1 /\ off = x + r /\ left \in 1 .. n
      /\ p \in 0 .. WordBytes - 1 /\ p * B \in Nat /\ rest \in 0 .. B - 1
      /\ n = left + p * B + rest
      /\ \/ left = n /\ r + n < B /\ p = 0 /\ p * B = 0 /\ rest = 0
         \/ left = B - r
  BY Pieces
<1>3. B \in Nat \ {0} /\ n \in Nat \ {0} /\ Acc!WordBits \in Nat \ {0} /\ WordBytes \in Nat \ {0}
  BY Widths
<1>4. Acc!MiddleBytes(off, n) = p
  BY DEF Acc!MiddleBytes, B
<1> DEFINE o == off \div B
<1>5. o \in Nat /\ x = o * B
  <2>1. o \in Nat
    BY <1>3, Parts
  <2> QED BY <2>1 DEF Acc!ByteAt, B
<1>6. CASE left = n /\ r + n < B /\ p = 0
  <2>1. right = r + n
    <3> HIDE DEF x, r, left, p, rest, o
    <3> DEFINE s == r + n
    <3>1. off + n = o * B + s /\ s \in 0 .. B - 1
      BY <1>2, <1>3, <1>5, <1>6
    <3> HIDE DEF s
    <3>2. (o * B + s) % B = s
      BY <1>3, <1>5, <3>1, PartsAre
    <3>3. (off + n) % B = s
      BY <3>1, <3>2
    <3> QED BY <3>3 DEF s
  <2> HIDE DEF right, left, r, full, M, c, v, p
  <2>2. v = Acc!Abort
    BY <1>1, <1>2, <1>3, <1>6, <2>1
  <2> QED BY <1>6, <2>2 DEF r, v
<1>7. CASE left = B - r
  <2>1. (o + 1 + p) * B = o * B + B + p * B /\ o + 1 + p \in Nat /\ o + 1 \in Nat /\ (o + 1) * B = o * B + B
    <3> HIDE DEF o, p
    <3> QED BY <1>2, <1>3, <1>5
  <2>2. right = rest
    <3> HIDE DEF x, r, left, p, rest, o
    <3>1. off + n = (o + 1 + p) * B + rest
      BY <1>2, <1>3, <1>5, <1>7, <2>1
    <3>2. ((o + 1 + p) * B + rest) % B = rest
      <4> DEFINE s == o + 1 + p
      <4>1. s \in Nat
        BY <2>1
      <4> HIDE DEF s
      <4>2. (s * B + rest) % B = rest
        BY <1>2, <1>3, <4>1, PartsAre
      <4> QED BY <4>2 DEF s
    <3> QED BY <3>1, <3>2
  <2>3. full = p /\ ~(n < left + right)
    <3> HIDE DEF x, r, left, p, rest, right, o
    <3>1. n - (left + right) = p * B + 0 /\ 0 \in 0 .. B - 1 /\ ~(n < left + right)
      BY <1>2, <1>3, <2>2
    <3>2. (p * B + 0) \div B = p
      BY <1>2, <1>3, <3>1, PartsAre
    <3> QED BY <3>1, <3>2
  <2> HIDE DEF full, right, left, p, rest, r
  <2>4. ~(r + n < B) /\ F \in Nat /\ n = left + F + right /\ right \in 0 .. B - 1 /\ full \in 0 .. WordBytes - 1
    BY <1>2, <1>3, <1>7, <2>2, <2>3
  <2>5. full > 0 => M = IF full \in {3, 7} THEN Acc!Abort ELSE Rev(x + B, F)
    <3>1. SUFFICES ASSUME full > 0 PROVE M = IF full \in {3, 7} THEN Acc!Abort ELSE Rev(x + B, F)
      OBVIOUS
    <3>2. full \in 1 .. WordBytes /\ x + B = (o + 1) * B
      BY <1>3, <1>5, <2>1, <2>4, <3>1
    <3> HIDE DEF x, o
    <3> QED BY <2>1, <3>2, SwapIs
  <2>6. A = Rev(x, B) /\ L = Rev(x + B + F, B)
    <3>1. 1 \in 1 .. WordBytes /\ 1 * B = B /\ x + B + F = (o + 1 + p) * B
      BY <1>3, <1>5, <2>1, <2>3
    <3> HIDE DEF x, o, F
    <3>2. Acc!AlignedPhys(o * B, 1 * B) = Rev(o * B, 1 * B)
      BY <1>5, <3>1, SwapIs
    <3>3. Acc!AlignedPhys((o + 1 + p) * B, 1 * B) = Rev((o + 1 + p) * B, 1 * B)
      BY <2>1, <3>1, SwapIs
    <3> QED BY <1>5, <3>1, <3>2, <3>3
  <2> HIDE DEF x, o, F, M, A, L, a, b, c, v
  <2>7. Acc!Masked(c, n, wide) # Acc!Abort
    <3>1. \A y, z : DOMAIN Acc!Low(y, z) = Acc!Pos
      BY DEF Acc!Low
    <3>2. \A y, z : Acc!Low(y, z) # Acc!Abort
      BY <3>1, NoAbortAt
    <3> QED BY <3>2 DEF Acc!Masked
  <2>8. full > 0 => (M = Acc!Abort <=> full \in {3, 7})
    <3>1. Rev(x + B, F) # Acc!Abort
      <4>1. DOMAIN Rev(x + B, F) = Acc!Pos
        BY DEF Rev
      <4> QED BY <4>1, NoAbortAt
    <3> QED BY <2>5, <3>1
  <2>9. v = Acc!Abort <=> full \in {3, 7}
    BY <1>1, <2>3, <2>4, <2>7, <2>8
  <2>10. ASSUME v # Acc!Abort, n < Acc!WordBits PROVE v = Rev(off, n)
    <3>1. v = Acc!Low(c, n)
      BY <1>1, <2>10 DEF Acc!Masked
    <3>2. full > 0 => M = Rev(x + B, F)
      BY <2>5, <2>9, <2>10
    <3>3. \A i \in Acc!Pos : i \in Nat /\ i < Acc!WordBits
      BY <1>3 DEF Acc!Pos
    <3>4. full = 0 => F = 0
      BY <1>3 DEF F
    <3>5. \A i \in Nat : i < Acc!WordBits => i \in Acc!Pos
      BY <1>3 DEF Acc!Pos
    <3>6. ASSUME NEW i \in Acc!Pos
          PROVE  a[i] = IF n - left <= i /\ i < n THEN cells[Acc!Place(off + n - 1 - i)] ELSE Acc!Zero
      <4> DEFINE m == i - (n - left)
      <4>1. CASE i >= n - left
        <5>1. m \in Acc!Pos /\ (m < left <=> i < n) /\ (m < left => m < B) /\ x + B - 1 - m = off + n - 1 - i
          BY <1>2, <1>3, <1>7, <2>4, <3>3, <3>5, <4>1
        <5>2. a[i] = Acc!Low(A, left)[m]
          BY <4>1, ShiftIs DEF a
        <5> HIDE DEF m
        <5>3. CASE m < left
          <6>1. Acc!Low(A, left)[m] = cells[Acc!Place(x + B - 1 - m)]
            BY <2>6, <5>1, <5>3, ShiftIs, RevAt
          <6> QED BY <1>2, <1>3, <3>3, <4>1, <5>1, <5>2, <5>3, <6>1
        <5>4. CASE ~(m < left)
          BY <5>1, <5>2, <5>4, ShiftIs
        <5> QED BY <5>3, <5>4
      <4>2. CASE ~(i >= n - left)
        <5>1. a[i] = Acc!Zero
          BY <4>2, ShiftIs DEF a
        <5>2. ~(n - left <= i)
          BY <4>2
        <5> QED BY <5>1, <5>2
      <4> QED BY <4>1, <4>2
    <3>7. ASSUME NEW i \in Acc!Pos
          PROVE  b[i] = IF right <= i /\ i < n THEN cells[Acc!Place(off + n - 1 - i)] ELSE Acc!Zero
      <4>1. CASE ~(full > 0)
        <5>1. full = 0 /\ n - left = right /\ b = a
          BY <1>2, <1>3, <2>4, <3>4, <4>1 DEF b
        <5> QED BY <3>6, <5>1
      <4>2. CASE full > 0
        <5>1. b = Acc!Or(a, Acc!Shl(M, right))
          BY <4>2 DEF b
        <5> DEFINE m == i - right
        <5>2. CASE i >= right /\ i < n - left
          <6>1. m \in Acc!Pos /\ m < F /\ (x + B) + F - 1 - m = off + n - 1 - i /\ ~(n - left <= i) /\ i < n /\ right <= i
            BY <1>2, <1>3, <1>7, <2>4, <3>3, <3>5, <5>2
          <6>2. Acc!Shl(M, right)[i] = M[m]
            BY <5>2, ShiftIs
          <6> HIDE DEF m
          <6>3. M[m] = cells[Acc!Place((x + B) + F - 1 - m)]
            BY <3>2, <4>2, <6>1, RevAt
          <6>4. a[i] = Acc!Zero
            BY <3>6, <6>1
          <6>5. b[i] = M[m]
            BY <5>1, <6>2, <6>4, OrIs
          <6> QED BY <6>1, <6>3, <6>5
        <5>3. CASE i >= right /\ ~(i < n - left)
          <6>1. m \in Acc!Pos /\ ~(m < F) /\ n - left <= i /\ right <= i
            BY <1>2, <1>3, <2>4, <3>3, <3>5, <5>3
          <6>2. Acc!Shl(M, right)[i] = M[m]
            BY <5>3, ShiftIs
          <6> HIDE DEF m
          <6>3. M[m] = Acc!Zero
            BY <3>2, <4>2, <6>1, RevAt
          <6>4. b[i] = a[i]
            BY <5>1, <6>2, <6>3, OrIs
          <6> QED BY <3>6, <6>1, <6>4
        <5>4. CASE ~(i >= right)
          <6>1. Acc!Shl(M, right)[i] = Acc!Zero
            BY <5>4, ShiftIs
          <6>2. b[i] = a[i]
            BY <5>1, <6>1, OrIs
          <6>3. ~(right <= i) /\ ~(n - left <= i)
            BY <1>2, <1>3, <2>4, <3>3, <5>4
          <6> QED BY <3>6, <6>2, <6>3
        <5> QED BY <5>2, <5>3, <5>4
      <4> QED BY <4>1, <4>2
    <3>8. ASSUME NEW i \in Acc!Pos, i < n PROVE c[i] = cells[Acc!Place(off + n - 1 - i)]
      <4>1. CASE right = 0
        <5>1. right <= i /\ c = b
          BY <3>3, <4>1 DEF c
        <5> QED BY <3>7, <3>8, <5>1
      <4>2. CASE right # 0
        <5>1. c = Acc!Or(b, Acc!Shr(L, B - right))
          BY <4>2 DEF c
        <5> DEFINE m == i + (B - right)
        <5>2. CASE i < right
          <6>1. m \in Acc!Pos /\ m < B /\ (x + B + F) + B - 1 - m = off + n - 1 - i /\ m < Acc!WordBits /\ ~(right <= i)
            <7>1. i \in Nat /\ right \in Nat /\ right < B /\ B \in Nat /\ i < right /\ B <= Acc!WordBits
              BY <1>3, <2>4, <3>3, <5>2, Widths
            <7>2. m \in Nat /\ m < B /\ m < Acc!WordBits /\ ~(right <= i)
              BY <1>3, <7>1
            <7>3. m \in Acc!Pos
              BY <3>5, <7>2
            <7>4. (x + B + F) + B - 1 - m = off + n - 1 - i
              BY <1>2, <1>3, <1>7, <2>4, <7>1
            <7> QED BY <7>2, <7>3, <7>4
          <6>2. Acc!Shr(L, B - right)[i] = L[m]
            BY <6>1, ShiftIs
          <6> HIDE DEF m
          <6>3. L[m] = cells[Acc!Place((x + B + F) + B - 1 - m)]
            BY <2>6, <6>1, RevAt
          <6>4. b[i] = Acc!Zero
            BY <3>7, <6>1
          <6>5. c[i] = L[m]
            BY <5>1, <6>2, <6>4, OrIs
          <6> QED BY <6>1, <6>3, <6>5
        <5>3. CASE ~(i < right)
          <6>1. Acc!Shr(L, B - right)[i] = Acc!Zero
            <7>1. CASE m < Acc!WordBits
              <8>1. m \in Acc!Pos /\ ~(m < B)
                BY <1>3, <2>4, <3>3, <3>5, <5>3, <7>1
              <8>2. Acc!Shr(L, B - right)[i] = L[m]
                BY <7>1, ShiftIs
              <8> HIDE DEF m
              <8> QED BY <2>6, <8>1, <8>2, RevAt
            <7>2. CASE ~(m < Acc!WordBits)
              BY <7>2, ShiftIs
            <7> QED BY <7>1, <7>2
          <6>2. c[i] = b[i]
            BY <5>1, <6>1, OrIs
          <6>3. right <= i
            BY <2>4, <3>3, <5>3
          <6> QED BY <3>7, <3>8, <6>2, <6>3
        <5> QED BY <5>2, <5>3
      <4> QED BY <4>1, <4>2
    <3>9. \A i \in Acc!Pos : Acc!Low(c, n)[i] = Rev(off, n)[i]
      BY <3>8, ShiftIs, RevAt
    <3> QED BY <3>1, <3>9 DEF Acc!Low, Rev
  <2> QED BY <1>4, <2>3, <2>4, <2>9, <2>10 DEF r, v
<1> QED BY <1>2, <1>6, <1>7

LEMMA BigIs ==
    ASSUME mode = "big", NEW off \in Nat, NEW n \in 1 .. Acc!WordBits, NEW wide
    PROVE  LET v == Acc!getLocalPhys(off, n, wide)
           IN  /\ v = Acc!Abort <=>
                    \/ off % B # 0 /\ (off % B) + n < B
                    \/ (off % B = 0 => Acc!Whole(n)) /\ Acc!MiddleBytes(off, n) \in {3, 7}
               /\ v # Acc!Abort /\ (off % B # 0 => n # Acc!WordBits) /\ (off % B = 0 => Acc!Whole(n))
                    => v = Rev(off, n)
<1> DEFINE v == Acc!getLocalPhys(off, n, wide)
<1>1. CASE off % B # 0
  <2>1. v = Acc!MisalignSwp(off, n, wide)
    BY <1>1 DEF Acc!getLocalPhys, B
  <2>2. n # Acc!WordBits => n < Acc!WordBits
    BY Widths
  <2>3. /\ v = Acc!Abort <=> (off % B) + n < B \/ Acc!MiddleBytes(off, n) \in {3, 7}
        /\ v # Acc!Abort /\ n < Acc!WordBits => v = Rev(off, n)
    BY <1>1, <2>1, MisalignSwpIs
  <2> HIDE DEF v
  <2> QED BY <1>1, <2>2, <2>3 DEF v
<1>2. CASE off % B = 0 /\ Acc!Whole(n)
  <2> DEFINE o == off \div B
             f == n \div B
  <2>1. B \in Nat \ {0} /\ n \in Nat \ {0} /\ n <= WordBytes * B /\ WordBytes \in Nat \ {0} /\ WordBytes * B \in Nat
    BY Widths
  <2>2. o \in Nat /\ off = o * B
    <3>1. o \in Nat /\ off = o * B + (off % B) /\ o * B \in Nat
      BY <2>1, Parts
    <3> HIDE DEF o
    <3> QED BY <1>2, <3>1
  <2>3. f \in Nat /\ n = f * B /\ f * B \in Nat
    <3>1. f \in Nat /\ n = f * B + (n % B) /\ f * B \in Nat
      BY <2>1, Parts
    <3>2. n % B = 0
      BY <1>2 DEF Acc!Whole, B
    <3> HIDE DEF f
    <3> QED BY <3>1, <3>2
  <2>4. v = Acc!AlignedPhys(off, n)
    BY <1>2 DEF Acc!getLocalPhys, B
  <2>5. Acc!MiddleBytes(off, n) = f
    BY <1>2 DEF Acc!MiddleBytes, B
  <2> HIDE DEF o, f, v
  <2>6. f \in 1 .. WordBytes
    <3>1. f # 0
      BY <2>1, <2>3
    <3>2. WordBytes < f => WordBytes * B + B <= f * B
      BY <2>1, <2>3, Multiples
    <3> QED BY <2>1, <2>3, <3>1, <3>2
  <2>7. v = IF f \in {3, 7} THEN Acc!Abort ELSE Rev(off, n)
    BY <2>2, <2>3, <2>4, <2>6, SwapIs
  <2>8. Rev(off, n) # Acc!Abort
    <3>1. DOMAIN Rev(off, n) = Acc!Pos
      BY DEF Rev
    <3> QED BY <3>1, NoAbortAt
  <2> QED BY <1>2, <2>5, <2>7, <2>8 DEF v
<1>3. CASE off % B = 0 /\ ~Acc!Whole(n)
  <2>1. v = Acc!CacheGet(off, n)
    BY <1>3 DEF Acc!getLocalPhys, Acc!AlignedPhys, Acc!Whole, B
  <2>2. DOMAIN Acc!CacheGet(off, n) = Acc!Pos
    BY DEF Acc!CacheGet, Acc!Aligned, Acc!Joined, Acc!Low
  <2>3. v # Acc!Abort
    BY <2>1, <2>2, NoAbortAt
  <2> HIDE DEF v
  <2> QED BY <1>3, <2>3 DEF v
<1> QED BY <1>1, <1>2, <1>3

(* The byte of a bit is on the device when the bit is. *)
LEMMA PlaceOnDev ==
    ASSUME mode = "big", NEW q \in Acc!DevBits
    PROVE  Acc!Place(q) \in Acc!DevBits
<1> DEFINE o == q \div B
           t == q % B
<1>1. B \in Nat \ {0} /\ DevBytes \in Nat /\ DevBytes * B \in Nat /\ q \in Nat /\ q < DevBytes * B
  BY Widths, AccessAssumption DEF Acc!DevBits, B
<1>2. o \in Nat /\ t \in 0 .. B - 1 /\ q = o * B + t /\ o * B \in Nat
  BY <1>1, Parts
<1> HIDE DEF o, t
<1>3. Acc!Place(q) = o * B + B - 1 - t
  BY <1>2, PlaceIs
<1>4. o < DevBytes
  <2>1. DevBytes < o => DevBytes * B + B <= o * B
    BY <1>1, <1>2, Multiples
  <2>2. DevBytes = o => DevBytes * B = o * B
    OBVIOUS
  <2> QED BY <1>1, <1>2, <2>1, <2>2
<1>5. o * B + B <= DevBytes * B
  BY <1>1, <1>2, <1>4, Multiples
<1>6. o * B + B - 1 - t \in 0 .. (DevBytes * B) - 1
  BY <1>1, <1>2, <1>5
<1> QED BY <1>3, <1>6 DEF Acc!DevBits, B

-----------------------------------------------------------------------------
(* The accesses. *)

(* What a read returns is what __getLocal made of the cells; what the user *)
(* wrote is on the device, in the order of a little-endian description.    *)
Answers ==
    ret # Acc!None =>
        /\ ret.off \in Nat /\ ret.n \in 1 .. Acc!WordBits /\ Acc!Fits(ret.off, ret.n)
        /\ \E wide \in {0, Acc!WordBits} : ret.val = Acc!getLocalPhys(ret.off, ret.n, wide)

AccInv ==
    /\ mode \in {"little", "big"}
    /\ mode # "big" => \A p \in Acc!DevBits : mem[p] = cells[p]
    /\ mode = "big" /\ ~Acc!WasWritten =>
            \A p \in Acc!DevBits : cells[p] = Acc!Disk(p) /\ mem[p] = Acc!Disk(Acc!Place(p))
    /\ Answers

LEMMA AccInit == RtInit => AccInv
<1> SUFFICES ASSUME RtInit PROVE AccInv
  OBVIOUS
<1>1. Acc!AccessInit
  BY DEF RtInit
<1>2. mode # "big" => \A p \in Acc!DevBits : Acc!Place(p) = p
  BY DEF Acc!Place
<1> QED BY <1>1, <1>2 DEF Acc!AccessInit, AccInv, Answers

LEMMA ReadKeeps ==
    ASSUME AccInv, NEW off \in Nat, NEW n, Acc!getLocal(off, n)
    PROVE  AccInv'
<1>1. n \in 1 .. Acc!WordBits /\ Acc!Fits(off, n) /\ UNCHANGED <<mode, cells, mem>>
  BY DEF Acc!getLocal
<1>2. PICK wide \in {0, Acc!WordBits} : ret' = [off |-> off, n |-> n, val |-> Acc!getLocalPhys(off, n, wide)]
  BY DEF Acc!getLocal
<1>3. Acc!getLocalPhys(off, n, wide)' = Acc!getLocalPhys(off, n, wide)
  BY <1>1 DEF Acc!getLocalPhys, Acc!AlignedPhys, Acc!CacheGet, Acc!Aligned, Acc!Joined, Acc!Load,
     Acc!Misalign, Acc!MisalignSwp
<1>4. ret'.off = off /\ ret'.n = n /\ ret'.val = Acc!getLocalPhys(off, n, wide)'
  BY <1>2, <1>3
<1>5. Answers'
  BY <1>1, <1>4 DEF Answers, Acc!WordBits, Acc!Fits
<1> QED BY <1>1, <1>5 DEF AccInv, Acc!WasWritten, Acc!Place, Acc!ByteAt

LEMMA WriteKeeps ==
    ASSUME AccInv, NEW off \in Nat, NEW n \in Nat \ {0}, Acc!fsl_io_write(off, n)
    PROVE  AccInv'
<1>1. /\ off + n <= DevBytes * ByteBits /\ ret' = Acc!None /\ mode' = mode
      /\ cells' = [p \in Acc!DevBits |-> IF p \in off .. off + n - 1 THEN Acc!Val(p - off) ELSE cells[p]]
      /\ mem' = [q \in Acc!DevBits |-> IF q \notin off .. off + n - 1 THEN mem[q]
                     ELSE IF mode = "big" THEN Acc!Val(n - 1 - (q - off)) ELSE Acc!Val(q - off)]
  BY DEF Acc!fsl_io_write, Acc!Fits, Acc!Meant
<1>2. off \in Acc!DevBits /\ off \in off .. off + n - 1
  <2>1. DevBytes * ByteBits \in Nat
    BY AccessAssumption
  <2> QED BY <1>1, <2>1 DEF Acc!DevBits
<1>3. Acc!WasWritten'
  <2>1. mem'[off].from = "val"
    BY <1>1, <1>2 DEF Acc!Val
  <2> QED BY <1>2, <2>1 DEF Acc!WasWritten, Acc!DevBits
<1>4. mode # "big" => \A p \in Acc!DevBits : mem'[p] = cells'[p]
  BY <1>1 DEF AccInv
<1> QED BY <1>1, <1>3, <1>4 DEF AccInv, Answers, Acc!DevBits, Acc!WasWritten

LEMMA AccessKeeps ==
    ASSUME AccInv, Acc!AccessNext
    PROVE  AccInv'
<1>1. AccessOffs \subseteq Nat /\ MaxElems \in Nat /\ ByteBits \in Nat \ {0} /\ WordBytes \in Nat
  BY AccessAssumption
<1>2. CASE Acc!Used
  BY <1>2 DEF Acc!Used, AccInv, Answers, Acc!WasWritten, Acc!Place, Acc!ByteAt
<1>3. ASSUME NEW off \in AccessOffs, NEW n \in 1 .. Acc!WordBits, Acc!getLocal(off, n) PROVE AccInv'
  BY <1>1, <1>3, ReadKeeps
<1>4. ASSUME NEW off \in AccessOffs, NEW n \in {1, ByteBits}, NEW idx \in 0 .. MaxElems, NEW elems \in 0 .. MaxElems,
             Acc!getLocalArray(off, n, idx, elems)
      PROVE  AccInv'
  <2>1. n \in Nat /\ idx \in Nat /\ off \in Nat
    BY <1>1
  <2>2. off + (n * idx) \in Nat
    BY <2>1
  <2> QED BY <1>4, <2>2, ReadKeeps DEF Acc!getLocalArray
<1>5. ASSUME NEW off \in AccessOffs, NEW n \in {1} \cup {k * ByteBits : k \in 1 .. WordBytes},
             Acc!fsl_io_write(off, n)
      PROVE  AccInv'
  <2>1. n \in Nat \ {0}
    BY <1>1, WholeBytes, Widths DEF B
  <2> QED BY <1>1, <1>5, <2>1, WriteKeeps
<1> QED BY <1>2, <1>3, <1>4, <1>5 DEF Acc!AccessNext

LEMMA AccInvariance == RtSpec => []AccInv
<1>1. AccInv /\ [RtNext]_rtVars => AccInv'
  <2> SUFFICES ASSUME AccInv, [RtNext]_rtVars PROVE AccInv'
    OBVIOUS
  <2>1. CASE Acc!AccessNext
    BY <2>1, AccessKeeps
  <2>2. CASE UNCHANGED accVars
    <3>1. \A off, n, wide : Acc!getLocalPhys(off, n, wide)' = Acc!getLocalPhys(off, n, wide)
      BY <2>2 DEF accVars, Acc!getLocalPhys, Acc!AlignedPhys, Acc!CacheGet, Acc!Aligned, Acc!Joined, Acc!Load,
         Acc!Misalign, Acc!MisalignSwp
    <3> QED BY <2>2, <3>1 DEF accVars, AccInv, Answers, Acc!WasWritten, Acc!Place, Acc!ByteAt
  <2> QED BY <2>1, <2>2 DEF RtNext, rtVars
<1> QED BY <1>1, AccInit, PTL DEF RtSpec

(* Words of every width at every bit, for bytes, lines and devices of      *)
(* every size: a read (io.c, cache.c) returns the bits of the description  *)
(* in its order, but for the cases Amiss names, and aborts only where the  *)
(* swap does not know what to do.                                          *)
THEOREM WordsAreExact == RtSpec => []WordsExact
<1>1. AccInv => Acc!WordsExact /\ Acc!AbortsOnlySwapped
  <2> SUFFICES ASSUME AccInv, ret # Acc!None
               PROVE  Acc!WordsExact /\ Acc!AbortsOnlySwapped
    BY DEF Acc!WordsExact, Acc!AbortsOnlySwapped
  <2> DEFINE off == ret.off
             n == ret.n
             v == ret.val
  <2>1. /\ off \in Nat /\ n \in 1 .. Acc!WordBits /\ off + n <= DevBytes * B
        /\ \E wide \in {0, Acc!WordBits} : v = Acc!getLocalPhys(off, n, wide)
    BY DEF AccInv, Answers, Acc!Fits, B
  <2>2. PICK wide \in {0, Acc!WordBits} : v = Acc!getLocalPhys(off, n, wide)
    BY <2>1
  <2>3. Acc!Amiss(ret) <=> \/ off % B = 0 /\ ~Acc!Whole(n) /\ (Acc!Strad(off, n) \/ mode = "big")
                           \/ off % B # 0 /\ n = Acc!WordBits
    BY DEF Acc!Amiss, B
  <2>4. Acc!AbortsOnlySwapped <=>
          (v = Acc!Abort <=>
              /\ mode = "big"
              /\ \/ off % B # 0 /\ (off % B) + n < B
                 \/ (off % B = 0 => Acc!Whole(n)) /\ Acc!MiddleBytes(off, n) \in {3, 7})
    BY DEF Acc!AbortsOnlySwapped, B
  <2>5. Acc!WordsExact <=>
          (v # Acc!Abort /\ ~Acc!Amiss(ret) /\ ~(mode = "big" /\ Acc!WasWritten) =>
             \A i \in Acc!Pos :
                v[i] = IF i >= n THEN Acc!Zero ELSE mem[IF mode = "big" THEN off + n - 1 - i ELSE off + i])
    BY DEF Acc!WordsExact
  <2> HIDE DEF off, n, v
  <2>6. \A i \in Acc!Pos : i \in Nat
    BY Widths DEF Acc!Pos
  <2>7. \A i \in Nat : i < n => off + i \in Acc!DevBits /\ off + n - 1 - i \in Acc!DevBits
    <3>1. DevBytes * B \in Nat
      BY AccessAssumption DEF B
    <3>2. n \in Nat
      BY <2>1
    <3> QED BY <2>1, <3>1, <3>2 DEF Acc!DevBits, B
  <2>8. CASE mode # "big"
    <3>1. v # Acc!Abort
      <4>1. DOMAIN v = Acc!Pos
        BY <2>2, <2>8 DEF Acc!getLocalPhys, Acc!AlignedPhys, Acc!CacheGet, Acc!Aligned, Acc!Joined,
           Acc!Misalign, Acc!Masked, Acc!Low, Acc!Or
      <4> QED BY <4>1, NoAbortAt
    <3>2. ASSUME ~Acc!Amiss(ret) PROVE v = Word(off, n)
      BY <2>1, <2>2, <2>3, <2>8, <3>2, LittleIs
    <3>3. ASSUME ~Acc!Amiss(ret), NEW i \in Acc!Pos
          PROVE  v[i] = IF i >= n THEN Acc!Zero ELSE mem[off + i]
      <4>1. i \in Nat /\ n \in Nat
        BY <2>1, <2>6
      <4>2. CASE i < n
        BY <2>7, <2>8, <3>2, <3>3, <4>1, <4>2, WordAt DEF AccInv
      <4>3. CASE ~(i < n)
        BY <3>2, <3>3, <4>1, <4>3, WordAt
      <4> QED BY <4>2, <4>3
    <3> QED BY <2>4, <2>5, <2>8, <3>1, <3>3
  <2>9. CASE mode = "big"
    <3>1. /\ v = Acc!Abort <=>
                \/ off % B # 0 /\ (off % B) + n < B
                \/ (off % B = 0 => Acc!Whole(n)) /\ Acc!MiddleBytes(off, n) \in {3, 7}
          /\ v # Acc!Abort /\ (off % B # 0 => n # Acc!WordBits) /\ (off % B = 0 => Acc!Whole(n))
                => v = Rev(off, n)
      BY <2>1, <2>2, <2>9, BigIs
    <3>2. ASSUME v # Acc!Abort, ~Acc!Amiss(ret), ~Acc!WasWritten, NEW i \in Acc!Pos
          PROVE  v[i] = IF i >= n THEN Acc!Zero ELSE mem[off + n - 1 - i]
      <4>1. i \in Nat /\ n \in Nat
        BY <2>1, <2>6
      <4>2. v = Rev(off, n)
        BY <2>3, <2>9, <3>1, <3>2
      <4>3. CASE i < n
        <5> DEFINE q == off + n - 1 - i
        <5>1. q \in Acc!DevBits
          BY <2>7, <4>1, <4>3
        <5> HIDE DEF q
        <5>2. Acc!Place(q) \in Acc!DevBits
          BY <2>9, <5>1, PlaceOnDev
        <5>3. cells[Acc!Place(q)] = Acc!Disk(Acc!Place(q)) /\ mem[q] = Acc!Disk(Acc!Place(q))
          BY <2>9, <3>2, <5>1, <5>2 DEF AccInv
        <5>4. v[i] = cells[Acc!Place(q)]
          BY <4>2, <4>3, RevAt DEF q
        <5> QED BY <4>1, <4>3, <5>3, <5>4 DEF q
      <4>4. CASE ~(i < n)
        BY <4>1, <4>2, <4>4, RevAt
      <4> QED BY <4>3, <4>4
    <3> QED BY <2>4, <2>5, <2>9, <3>1, <3>2
  <2> QED BY <2>8, <2>9
<1>2. AccInv => WordsExact
  BY <1>1 DEF WordsExact
<1> QED BY <1>2, AccInvariance, PTL

-----------------------------------------------------------------------------
(* The traces. *)

Hooked == {"tool_entry", "fsl_temporal_uninit", "fsl_hits_uninit", "astray"}

(* Once main() has come past the two inits, the callback of temporal.c is  *)
(* called first and calls that of hits.c.                                  *)
Hooks ==
    \A k \in Kinds :
        /\ io_cb[k] = IF main_at \in Hooked /\ Tra!On("temporal", k) THEN "temporal"
                      ELSE IF main_at # "fsl_rt_init" /\ Tra!On("hits", k) THEN "hits" ELSE Tra!Null
        /\ main_at \in Hooked /\ Tra!On("temporal", k) =>
              cb_prev[<<"temporal", k>>] = IF Tra!On("hits", k) THEN "hits" ELSE Tra!Identity
        /\ main_at # "fsl_rt_init" /\ Tra!On("hits", k) => cb_prev[<<"hits", k>>] = Tra!Identity

(* The file and the buffer make up what was seen; a counter has what was   *)
(* seen of its line, and not more on top than there are strays.            *)
Traced(k) ==
    /\ IF Tra!On("temporal", k) THEN cl_file[k] \o cl_buf[k] = seen[k] ELSE cl_buf[k] = <<>>
    /\ Len(cl_buf[k]) < LOG_BUF_ENTS
    /\ main_at \in {"fsl_rt_init", "fsl_hits_init"} => seen[k] = <<>> /\ cl_buf[k] = <<>>
    /\ main_at # "fsl_rt_init" /\ Tra!On("hits", k) =>
          \A c \in Tra!Counters :
             was + Tra!InLine(k, c) <= ev_log[k][c] /\ ev_log[k][c] <= was + Tra!InLine(k, c) + strays
    /\ main_at \in {"fsl_temporal_uninit", "fsl_hits_uninit"} => cl_buf[k] = <<>>

TraType ==
    /\ main_at \in Hooked \union {"fsl_rt_init", "fsl_hits_init"}
    /\ was \in Nat /\ strays \in Nat
    /\ io_cb \in [Kinds -> Tra!Tracers \union {Tra!Null}]
    /\ cb_prev \in [Tra!Tracers \X Kinds -> Tra!Tracers \union {Tra!Null, Tra!Identity}]
    /\ cl_buf \in [Kinds -> Seq(TraceAddrs)] /\ cl_file \in [Kinds -> Seq(TraceAddrs)]
    /\ seen \in [Kinds -> Seq(TraceAddrs)] /\ ev_log \in [Kinds -> [Tra!Counters -> Nat]]

TraInv == TraType /\ Hooks /\ (\A k \in Kinds : Traced(k)) /\ Tra!HitsExact

LEMMA LineIsNat == \A a \in TraceAddrs : a \in Nat /\ a \div HitBits \in Nat
<1>1. HitBits \in Nat \ {0} /\ TraceAddrs \subseteq Nat
  BY TraceAssumption
<1> QED BY <1>1, Parts

(* One more access. *)
CountIn(s, c) == Cardinality({i \in 1 .. Len(s) : s[i] \div HitBits = c})

LEMMA LineCount ==
    ASSUME NEW s \in Seq(TraceAddrs), NEW a \in TraceAddrs, NEW c
    PROVE  /\ CountIn(s, c) \in Nat
           /\ CountIn(Append(s, a), c) = CountIn(s, c) + (IF a \div HitBits = c THEN 1 ELSE 0)
<1> DEFINE t == Append(s, a)
           S == {i \in 1 .. Len(s) : s[i] \div HitBits = c}
           U == {i \in 1 .. Len(t) : t[i] \div HitBits = c}
<1>1. Len(s) \in Nat /\ Len(t) = Len(s) + 1 /\ t[Len(s) + 1] = a /\ \A i \in 1 .. Len(s) : t[i] = s[i]
  OBVIOUS
<1>2. IsFiniteSet(S) /\ Len(s) + 1 \notin S
  <2>1. IsFiniteSet(1 .. Len(s))
    BY <1>1, FS_Interval
  <2>2. S \subseteq 1 .. Len(s) /\ Len(s) + 1 \notin S
    BY <1>1
  <2> QED BY <2>1, <2>2, FS_Subset
<1>3. U = IF a \div HitBits = c THEN S \union {Len(s) + 1} ELSE S
  <2> HIDE DEF t
  <2> QED BY <1>1
<1>4. Cardinality(S) \in Nat
  BY <1>2, FS_CardinalityType
<1>6. CountIn(s, c) = Cardinality(S) /\ CountIn(t, c) = Cardinality(U)
  BY Zenon DEF CountIn
<1> HIDE DEF S, U, t
<1>5. Cardinality(U) = Cardinality(S) + (IF a \div HitBits = c THEN 1 ELSE 0)
  <2>1. CASE a \div HitBits = c
    <3>1. Cardinality(S \union {Len(s) + 1}) = Cardinality(S) + 1
      BY <1>2, FS_AddElement
    <3> QED BY <1>3, <2>1, <3>1
  <2>2. CASE a \div HitBits # c
    BY <1>3, <1>4, <2>2
  <2> QED BY <2>1, <2>2
<1>7. CountIn(s, c) \in Nat /\ CountIn(t, c) = CountIn(s, c) + (IF a \div HitBits = c THEN 1 ELSE 0)
  BY <1>4, <1>5, <1>6
<1> QED BY <1>7 DEF t

LEMMA SameCardinality == \A S : Tra!Cardinality(S) = Cardinality(S)
BY DEF Tra!Cardinality, Cardinality

LEMMA NoneInLine ==
    ASSUME NEW k, NEW c, seen[k] = <<>>
    PROVE  Tra!InLine(k, c) = 0
<1> DEFINE S == {i \in 1 .. Len(seen[k]) : seen[k][i] \div HitBits = c}
<1>1. S = {}
  OBVIOUS
<1>2. Tra!InLine(k, c) = Cardinality(S)
  BY SameCardinality DEF Tra!InLine
<1> HIDE DEF S
<1> QED BY <1>1, <1>2, FS_EmptySet

(* Filling and flushing the buffer appends to the file and it together.    *)
LEMMA UpdateIs ==
    ASSUME NEW buf \in Seq(TraceAddrs), NEW file \in Seq(TraceAddrs), NEW a \in TraceAddrs,
           Len(buf) < LOG_BUF_ENTS
    PROVE  LET u == Tra!log_update([buf |-> buf, file |-> file], a)
           IN  /\ u.buf \in Seq(TraceAddrs) /\ u.file \in Seq(TraceAddrs)
               /\ u.file \o u.buf = Append(file \o buf, a) /\ Len(u.buf) < LOG_BUF_ENTS
<1> DEFINE u == Tra!log_update([buf |-> buf, file |-> file], a)
           b == Append(buf, a)
<1>1. u = IF Len(b) = LOG_BUF_ENTS THEN [buf |-> <<>>, file |-> file \o b] ELSE [buf |-> b, file |-> file]
  <2> DEFINE m == [[buf |-> buf, file |-> file] EXCEPT !.buf = Append(@, a)]
  <2>1. m = [buf |-> b, file |-> file]
    <3>1. \A x, y, z : [[buf |-> x, file |-> y] EXCEPT !.buf = z] = [buf |-> z, file |-> y]
      OBVIOUS
    <3>2. [buf |-> buf, file |-> file].buf = buf
      OBVIOUS
    <3>3. m = [[buf |-> buf, file |-> file] EXCEPT !.buf = b]
      BY <3>2, Zenon
    <3> HIDE DEF m, b
    <3> QED BY <3>1, <3>3
  <2>2. u = IF Len(m.buf) = LOG_BUF_ENTS THEN Tra!log_flush(m) ELSE m
    BY DEF Tra!log_update
  <2>3. Tra!log_flush(m) = [m EXCEPT !.file = @ \o m.buf, !.buf = <<>>]
    BY DEF Tra!log_flush
  <2> HIDE DEF m, b, u
  <2>4. m.buf = b /\ Tra!log_flush(m) = [buf |-> <<>>, file |-> file \o b]
    BY <2>1, <2>3
  <2> QED BY <2>1, <2>2, <2>4
<1>2. b \in Seq(TraceAddrs) /\ Len(b) = Len(buf) + 1 /\ Len(buf) \in Nat /\ LOG_BUF_ENTS \in Nat \ {0}
  BY TraceAssumption
<1>3. file \o b = Append(file \o buf, a) /\ (file \o b) \o <<>> = file \o b /\ file \o b \in Seq(TraceAddrs)
  OBVIOUS
<1>4. <<>> \in Seq(TraceAddrs) /\ Len(<<>>) = 0
  OBVIOUS
<1> HIDE DEF b, u
<1>5. CASE Len(b) = LOG_BUF_ENTS
  <2>1. u.buf = <<>> /\ u.file = file \o b
    BY <1>1, <1>5
  <2>2. u.buf \in Seq(TraceAddrs) /\ u.file \in Seq(TraceAddrs) /\ u.file \o u.buf = Append(file \o buf, a)
    BY <1>3, <1>4, <2>1
  <2>3. Len(u.buf) < LOG_BUF_ENTS
    BY <1>2, <1>4, <2>1
  <2> QED BY <2>2, <2>3 DEF u
<1>6. CASE Len(b) # LOG_BUF_ENTS
  <2>1. u.buf = b /\ u.file = file
    BY <1>1, <1>6
  <2>2. u.buf \in Seq(TraceAddrs) /\ u.file \in Seq(TraceAddrs) /\ u.file \o u.buf = Append(file \o buf, a)
    BY <1>2, <1>3, <2>1
  <2>3. Len(u.buf) < LOG_BUF_ENTS
    BY <1>2, <1>6, <2>1
  <2> QED BY <2>2, <2>3 DEF u
<1> QED BY <1>5, <1>6

(* What the callbacks of a kind do to its logs. *)
LEMMA CalledIs ==
    ASSUME Hooks, main_at \in Hooked, NEW k \in Kinds, NEW a, NEW log, NEW l
    PROVE  LET s == Tra!Called([addr |-> a, log |-> log, stray |-> FALSE, l |-> l], k)
               o == a \div HitBits
           IN  /\ s.log = IF Tra!On("hits", k) /\ o \in Tra!Counters THEN [log EXCEPT ![o] = @ + 1] ELSE log
               /\ s.stray <=> Tra!On("hits", k) /\ o \notin Tra!Counters
               /\ s.l = IF Tra!On("temporal", k) THEN Tra!log_update(l, a) ELSE l
<1> DEFINE s0 == [addr |-> a, log |-> log, stray |-> FALSE, l |-> l]
           o    == a \div HitBits
           in   == o \in Tra!Counters
           more == [log EXCEPT ![o] = @ + 1]
           u    == Tra!log_update(l, a)
           r    == Tra!Called(s0, k)
           c(m) == Tra!Callback([addr |-> a, log |-> log, stray |-> FALSE, l |-> m], "hits")
<1>2. ASSUME NEW m
      PROVE  /\ c(m).log = IF in THEN more ELSE log
             /\ c(m).stray <=> ~in
             /\ c(m).l = m
  <2>1. c(m) = Tra!Count([addr |-> a, log |-> log, stray |-> FALSE, l |-> m], o)
    BY DEF Tra!Callback
  <2>2. CASE in
    <3>1. c(m) = [addr |-> o, log |-> more, stray |-> FALSE, l |-> m]
      BY <2>1, <2>2 DEF Tra!Count
    <3> HIDE DEF c, more, o, in
    <3> QED BY <2>2, <3>1
  <2>3. CASE ~in
    <3>1. c(m) = [addr |-> o, log |-> log, stray |-> TRUE, l |-> m]
      BY <2>1, <2>3 DEF Tra!Count
    <3> HIDE DEF c, more, o, in
    <3> QED BY <2>3, <3>1
  <2> QED BY <2>2, <2>3
<1>3. Tra!Callback(s0, "temporal") = [addr |-> a, log |-> log, stray |-> FALSE, l |-> u]
  BY DEF Tra!Callback
<1>4. CASE Tra!On("temporal", k)
  <2>1. io_cb[k] = "temporal" /\ cb_prev[<<"temporal", k>>] = IF Tra!On("hits", k) THEN "hits" ELSE Tra!Identity
    BY <1>4 DEF Hooks
  <2>2. r = IF Tra!On("hits", k) THEN Tra!Callback(Tra!Callback(s0, "temporal"), "hits")
            ELSE Tra!Callback(s0, "temporal")
    <3> HIDE DEF s0
    <3>1. Tra!Null # "temporal" /\ Tra!Identity # "hits"
      BY DEF Tra!Null, Tra!Identity
    <3> QED BY <2>1, <3>1 DEF Tra!Called
  <2>3. r = IF Tra!On("hits", k) THEN c(u) ELSE [addr |-> a, log |-> log, stray |-> FALSE, l |-> u]
    <3>1. Tra!Callback(Tra!Callback(s0, "temporal"), "hits") = c(u)
      BY <1>3, Zenon
    <3> HIDE DEF s0, r, more, u, c
    <3> QED BY <1>3, <2>2, <3>1
  <2>4. /\ r.log = IF Tra!On("hits", k) /\ in THEN more ELSE log
        /\ r.stray <=> Tra!On("hits", k) /\ ~in
        /\ r.l = u
    <3> HIDE DEF r, more, u, c, in
    <3>1. CASE Tra!On("hits", k)
      <4>1. r = c(u)
        BY <2>3, <3>1
      <4> QED BY <1>2, <3>1, <4>1
    <3>2. CASE ~Tra!On("hits", k)
      BY <2>3, <3>2
    <3> QED BY <3>1, <3>2
  <2> QED BY <1>4, <2>4
<1>5. CASE ~Tra!On("temporal", k)
  <2>1. /\ io_cb[k] = IF Tra!On("hits", k) THEN "hits" ELSE Tra!Null
        /\ Tra!On("hits", k) => cb_prev[<<"hits", k>>] = Tra!Identity
    BY <1>5 DEF Hooks, Hooked
  <2>2. r = IF Tra!On("hits", k) THEN Tra!Callback(s0, "hits") ELSE s0
    <3> HIDE DEF s0
    <3>1. Tra!Null # "hits"
      BY DEF Tra!Null
    <3> QED BY <2>1, <3>1 DEF Tra!Called
  <2>3. Tra!Callback(s0, "hits") = c(l)
    OBVIOUS
  <2>4. /\ r.log = IF Tra!On("hits", k) /\ in THEN more ELSE log
        /\ r.stray <=> Tra!On("hits", k) /\ ~in
        /\ r.l = l
    <3>1. CASE Tra!On("hits", k)
      <4> HIDE DEF r, more, c, in, s0
      <4>1. r = c(l)
        BY <2>2, <2>3, <3>1
      <4> QED BY <1>2, <3>1, <4>1
    <3>2. CASE ~Tra!On("hits", k)
      <4> HIDE DEF r, more, in
      <4>1. r = [addr |-> a, log |-> log, stray |-> FALSE, l |-> l]
        BY <2>2, <3>2
      <4> QED BY <3>2, <4>1
    <3> QED BY <3>1, <3>2
  <2> QED BY <1>5, <2>4
<1> QED BY <1>4, <1>5

LEMMA InLineIs == \A k, c : Tra!InLine(k, c) = CountIn(seen[k], c)
BY SameCardinality DEF Tra!InLine, CountIn

(* Whether an access lay behind the counters. *)
LEMMA BehindGrows ==
    ASSUME NEW s \in Seq(TraceAddrs), NEW a \in TraceAddrs
    PROVE  (\E i \in 1 .. Len(Append(s, a)) : Append(s, a)[i] \div HitBits \notin Tra!Counters)
              <=> (\E i \in 1 .. Len(s) : s[i] \div HitBits \notin Tra!Counters)
                  \/ a \div HitBits \notin Tra!Counters
<1> DEFINE t == Append(s, a)
<1>1. Len(s) \in Nat /\ Len(t) = Len(s) + 1 /\ t[Len(s) + 1] = a /\ \A i \in 1 .. Len(s) : t[i] = s[i]
  OBVIOUS
<1>2. 1 .. Len(t) = (1 .. Len(s)) \union {Len(s) + 1}
  BY <1>1
<1> HIDE DEF t
<1>3. (\E i \in 1 .. Len(t) : t[i] \div HitBits \notin Tra!Counters)
         <=> (\E i \in 1 .. Len(s) : s[i] \div HitBits \notin Tra!Counters)
             \/ a \div HitBits \notin Tra!Counters
  BY <1>1, <1>2
<1> QED BY <1>3 DEF t

(* A step without an access. *)
LEMMA NoAccess ==
    ASSUME TraInv, UNCHANGED <<env, was, seen, strays>>
    PROVE  /\ \A t, k : Tra!On(t, k)' <=> Tra!On(t, k)
           /\ \A k, c : Tra!InLine(k, c)' = Tra!InLine(k, c)
           /\ strays' # 0 <=> \E k \in Kinds : Tra!On("hits", k)' /\ Tra!Behind(k)'
<1>1. \A t, k : Tra!On(t, k)' <=> Tra!On(t, k)
  BY DEF Tra!On
<1>2. \A k : Tra!Behind(k)' <=> Tra!Behind(k)
  BY DEF Tra!Behind, Tra!Counters, Tra!byte_len, Tra!Lines, Tra!fsl_io_size
<1>3. strays # 0 <=> \E k \in Kinds : Tra!On("hits", k) /\ Tra!Behind(k)
  BY DEF TraInv, Tra!HitsExact
<1>4. \A k, c : Tra!InLine(k, c)' = Tra!InLine(k, c)
  BY DEF Tra!InLine
<1> QED BY <1>1, <1>2, <1>3, <1>4, Zenon

LEMMA TraInitial == RtInit => TraInv
<1> SUFFICES ASSUME RtInit PROVE TraInv
  OBVIOUS
<1>1. Tra!TraceInit
  BY DEF RtInit
<1>2. TraType
  <2>1. <<>> \in Seq(TraceAddrs) /\ was \in Nat
    BY <1>1, TraceAssumption DEF Tra!TraceInit
  <2> QED BY <1>1, <2>1 DEF Tra!TraceInit, TraType
<1>3. Hooks /\ Tra!HitsExact
  <2>1. strays = 0 /\ \A k \in Kinds : seen[k] = <<>>
    BY <1>1 DEF Tra!TraceInit
  <2>2. \A k \in Kinds : ~Tra!Behind(k)
    BY <2>1 DEF Tra!Behind
  <2> QED BY <1>1, <2>1, <2>2 DEF Tra!TraceInit, Hooks, Hooked, Tra!HitsExact
<1>4. ASSUME NEW k \in Kinds PROVE Traced(k)
  <2>1. cl_buf[k] = <<>> /\ cl_file[k] = <<>> /\ seen[k] = <<>> /\ main_at = "fsl_rt_init"
    BY <1>1 DEF Tra!TraceInit
  <2>2. Len(cl_buf[k]) = 0 /\ LOG_BUF_ENTS \in Nat \ {0}
    BY <2>1, TraceAssumption
  <2> QED BY <2>1, <2>2 DEF Traced
<1> QED BY <1>2, <1>3, <1>4 DEF TraInv

LEMMA HitsInitKeeps ==
    ASSUME TraInv, Tra!fsl_hits_init
    PROVE  TraInv'
<1>1. /\ main_at = "fsl_rt_init" /\ main_at' = "fsl_hits_init"
      /\ ev_log' = [k \in Kinds |-> IF Tra!On("hits", k) THEN [c \in Tra!Counters |-> was] ELSE ev_log[k]]
      /\ UNCHANGED <<env, was, cl_buf, cl_file, dump, seen, strays>> /\ Tra!HookAll("hits")
  BY DEF Tra!fsl_hits_init
<1>2. \A t, k : Tra!On(t, k)' <=> Tra!On(t, k)
  BY <1>1 DEF Tra!On
<1>3. /\ io_cb' = [k \in Kinds |-> IF Tra!On("hits", k) THEN "hits" ELSE io_cb[k]]
      /\ cb_prev' = [e \in Tra!Tracers \X Kinds |->
            IF e[1] = "hits" /\ e \in env THEN IF io_cb[e[2]] = Tra!Null THEN Tra!Identity ELSE io_cb[e[2]]
            ELSE cb_prev[e]]
  BY <1>1 DEF Tra!HookAll
<1>4. \A k \in Kinds : io_cb[k] = Tra!Null
  BY <1>1 DEF TraInv, Hooks, Hooked
<1>5. TraType'
  <2>1. \A k \in Kinds : [c \in Tra!Counters |-> was] \in [Tra!Counters -> Nat]
    BY DEF TraInv, TraType
  <2>2. ev_log' \in [Kinds -> [Tra!Counters -> Nat]]
    BY <1>1, <2>1 DEF TraInv, TraType
  <2>3. io_cb' \in [Kinds -> Tra!Tracers \union {Tra!Null}]
    BY <1>3 DEF TraInv, TraType, Tra!Tracers
  <2>4. cb_prev' \in [Tra!Tracers \X Kinds -> Tra!Tracers \union {Tra!Null, Tra!Identity}]
    BY <1>3, <1>4 DEF TraInv, TraType
  <2> QED BY <1>1, <2>2, <2>3, <2>4 DEF TraInv, TraType, Tra!Counters
<1>6. Hooks'
  <2>1. \A k \in Kinds : <<"hits", k>> \in Tra!Tracers \X Kinds
    BY DEF Tra!Tracers
  <2>2. ASSUME NEW k \in Kinds, Tra!On("hits", k) PROVE cb_prev'[<<"hits", k>>] = Tra!Identity
    BY <1>3, <1>4, <2>1, <2>2 DEF Tra!On
  <2> QED BY <1>1, <1>2, <1>3, <1>4, <2>2 DEF Hooks, Hooked
<1>7. ASSUME NEW k \in Kinds PROVE Traced(k)'
  <2>1. Traced(k) /\ seen[k] = <<>>
    BY <1>1 DEF TraInv, Traced
  <2>2. ASSUME Tra!On("hits", k), NEW c \in Tra!Counters
        PROVE  was' + Tra!InLine(k, c)' <= ev_log'[k][c] /\ ev_log'[k][c] <= was' + Tra!InLine(k, c)' + strays'
    <3>1. Tra!InLine(k, c)' = 0
      <4>1. Tra!InLine(k, c) = 0
        BY <2>1, NoneInLine
      <4> QED BY <1>1, <4>1, InLineIs DEF Tra!InLine
    <3>2. was \in Nat /\ was' = was /\ strays' = strays /\ strays \in Nat
      BY <1>1 DEF TraInv, TraType
    <3>3. ev_log'[k][c] = was
      BY <1>1, <2>2
    <3> QED BY <3>1, <3>2, <3>3
  <2> QED BY <1>1, <1>2, <2>1, <2>2 DEF Traced, Tra!Counters
<1>8. Tra!HitsExact'
  <2>1. strays' # 0 <=> \E k \in Kinds : Tra!On("hits", k)' /\ Tra!Behind(k)'
    BY <1>1, NoAccess
  <2> QED BY <1>1, <2>1 DEF Tra!HitsExact
<1> QED BY <1>5, <1>6, <1>7, <1>8 DEF TraInv

LEMMA TemporalInitKeeps ==
    ASSUME TraInv, Tra!fsl_temporal_init
    PROVE  TraInv'
<1>1. /\ main_at = "fsl_hits_init" /\ main_at' = "tool_entry"
      /\ UNCHANGED <<env, ev_log, was, cl_buf, cl_file, dump, seen, strays>> /\ Tra!HookAll("temporal")
  BY DEF Tra!fsl_temporal_init
<1>2. \A t, k : Tra!On(t, k)' <=> Tra!On(t, k)
  BY <1>1 DEF Tra!On
<1>3. /\ io_cb' = [k \in Kinds |-> IF Tra!On("temporal", k) THEN "temporal" ELSE io_cb[k]]
      /\ cb_prev' = [e \in Tra!Tracers \X Kinds |->
            IF e[1] = "temporal" /\ e \in env THEN IF io_cb[e[2]] = Tra!Null THEN Tra!Identity ELSE io_cb[e[2]]
            ELSE cb_prev[e]]
  BY <1>1 DEF Tra!HookAll
<1>4. ASSUME NEW k \in Kinds
      PROVE  /\ io_cb[k] = IF Tra!On("hits", k) THEN "hits" ELSE Tra!Null
             /\ Tra!On("hits", k) => cb_prev[<<"hits", k>>] = Tra!Identity
  BY <1>1 DEF TraInv, Hooks, Hooked
<1>5. TraType'
  <2>1. io_cb' \in [Kinds -> Tra!Tracers \union {Tra!Null}]
    BY <1>3 DEF TraInv, TraType, Tra!Tracers
  <2>2. cb_prev' \in [Tra!Tracers \X Kinds -> Tra!Tracers \union {Tra!Null, Tra!Identity}]
    BY <1>3 DEF TraInv, TraType
  <2> QED BY <1>1, <2>1, <2>2 DEF TraInv, TraType, Hooked, Tra!Counters
<1>6. Hooks'
  <2>1. ASSUME NEW k \in Kinds
        PROVE  <<"hits", k>> \in Tra!Tracers \X Kinds /\ <<"temporal", k>> \in Tra!Tracers \X Kinds
    BY DEF Tra!Tracers
  <2>2. ASSUME NEW k \in Kinds, Tra!On("hits", k) PROVE cb_prev'[<<"hits", k>>] = Tra!Identity
    BY <1>3, <1>4, <2>1, <2>2
  <2>3. ASSUME NEW k \in Kinds, Tra!On("temporal", k)
        PROVE  cb_prev'[<<"temporal", k>>] = IF Tra!On("hits", k) THEN "hits" ELSE Tra!Identity
    BY <1>3, <1>4, <2>1, <2>3 DEF Tra!On, Tra!Null
  <2> QED BY <1>1, <1>2, <1>3, <1>4, <2>2, <2>3 DEF Hooks, Hooked
<1>7. ASSUME NEW k \in Kinds PROVE Traced(k)'
  <2>1. Traced(k) /\ seen[k] = <<>> /\ cl_buf[k] = <<>>
    BY <1>1 DEF TraInv, Traced
  <2>2. \A c : Tra!InLine(k, c)' = Tra!InLine(k, c)
    BY <1>1 DEF Tra!InLine
  <2> QED BY <1>1, <1>2, <2>1, <2>2 DEF Traced, Tra!Counters
<1>8. Tra!HitsExact'
  <2>1. strays' # 0 <=> \E k \in Kinds : Tra!On("hits", k)' /\ Tra!Behind(k)'
    BY <1>1, NoAccess
  <2> QED BY <1>1, <2>1 DEF Tra!HitsExact
<1> QED BY <1>5, <1>6, <1>7, <1>8 DEF TraInv

LEMMA AccessTraced ==
    ASSUME TraInv, NEW k \in Kinds, NEW a \in TraceAddrs, Tra!Access(k, a)
    PROVE  TraInv'
<1> DEFINE s == Tra!Called([addr |-> a, log |-> ev_log[k], stray |-> FALSE,
                            l |-> [buf |-> cl_buf[k], file |-> cl_file[k]]], k)
           u == Tra!log_update([buf |-> cl_buf[k], file |-> cl_file[k]], a)
           o == a \div HitBits
           one(c) == IF o = c THEN 1 ELSE 0
<1>1. /\ main_at = "tool_entry"
      /\ IF s.stray THEN Tra!Stray ELSE ev_log' = [ev_log EXCEPT ![k] = s.log] /\ UNCHANGED <<main_at, strays>>
      /\ cl_buf' = [cl_buf EXCEPT ![k] = s.l.buf] /\ cl_file' = [cl_file EXCEPT ![k] = s.l.file]
      /\ seen' = [seen EXCEPT ![k] = Append(@, a)]
      /\ UNCHANGED <<env, io_cb, cb_prev, was, dump>>
  BY DEF Tra!Access
<1>2. /\ s.log = IF Tra!On("hits", k) /\ o \in Tra!Counters THEN [ev_log[k] EXCEPT ![o] = @ + 1] ELSE ev_log[k]
      /\ s.stray <=> Tra!On("hits", k) /\ o \notin Tra!Counters
      /\ s.l = IF Tra!On("temporal", k) THEN u ELSE [buf |-> cl_buf[k], file |-> cl_file[k]]
  <2>1. Hooks /\ main_at \in Hooked
    BY <1>1 DEF TraInv, Hooked
  <2>2. \A log, l : LET c == Tra!Called([addr |-> a, log |-> log, stray |-> FALSE, l |-> l], k)
                    IN  /\ c.log = IF Tra!On("hits", k) /\ a \div HitBits \in Tra!Counters
                                   THEN [log EXCEPT ![a \div HitBits] = @ + 1] ELSE log
                        /\ c.stray <=> Tra!On("hits", k) /\ a \div HitBits \notin Tra!Counters
                        /\ c.l = IF Tra!On("temporal", k) THEN Tra!log_update(l, a) ELSE l
    BY <2>1, CalledIs
  <2>3. PICK log, l : log = ev_log[k] /\ l = [buf |-> cl_buf[k], file |-> cl_file[k]]
    OBVIOUS
  <2>4. s = Tra!Called([addr |-> a, log |-> log, stray |-> FALSE, l |-> l], k) /\ u = Tra!log_update(l, a)
    BY <2>3
  <2> HIDE DEF s, u, o
  <2>5. /\ s.log = IF Tra!On("hits", k) /\ o \in Tra!Counters THEN [log EXCEPT ![o] = @ + 1] ELSE log
        /\ s.stray <=> Tra!On("hits", k) /\ o \notin Tra!Counters
        /\ s.l = IF Tra!On("temporal", k) THEN Tra!log_update(l, a) ELSE l
    BY <2>2, <2>4 DEF o
  <2> QED BY <2>3, <2>4, <2>5
<1>3. /\ u.buf \in Seq(TraceAddrs) /\ u.file \in Seq(TraceAddrs)
      /\ u.file \o u.buf = Append(cl_file[k] \o cl_buf[k], a) /\ Len(u.buf) < LOG_BUF_ENTS
  BY UpdateIs DEF TraInv, TraType, Traced
<1> HIDE DEF s, u
<1>4. \A t, m : Tra!On(t, m)' <=> Tra!On(t, m)
  BY <1>1 DEF Tra!On
<1>5. /\ was \in Nat /\ was' = was /\ strays \in Nat /\ ev_log \in [Kinds -> [Tra!Counters -> Nat]]
      /\ seen[k] \in Seq(TraceAddrs) /\ o \in Nat
  BY <1>1, LineIsNat DEF TraInv, TraType
<1>6. /\ s.l.buf = IF Tra!On("temporal", k) THEN u.buf ELSE cl_buf[k]
      /\ s.l.file = IF Tra!On("temporal", k) THEN u.file ELSE cl_file[k]
  BY <1>2
<1> HIDE DEF o
<1>7. /\ ev_log' \in [Kinds -> [Tra!Counters -> Nat]] /\ strays' \in Nat /\ strays <= strays'
      /\ main_at' \in {"tool_entry", "astray"}
      /\ strays' # 0 <=> strays # 0 \/ (Tra!On("hits", k) /\ o \notin Tra!Counters)
      /\ \A m \in Kinds, c \in Tra!Counters : Tra!On("hits", m) =>
            /\ ev_log[m][c] + (IF m = k THEN one(c) ELSE 0) <= ev_log'[m][c]
            /\ ev_log'[m][c] <= ev_log[m][c] + (IF m = k THEN one(c) ELSE 0) + (strays' - strays)
  <2>1. CASE ~s.stray
    <3>1. ev_log' = [ev_log EXCEPT ![k] = s.log] /\ main_at' = main_at /\ strays' = strays
      BY <1>1, <2>1
    <3>2. CASE Tra!On("hits", k)
      <4>1. s.log = [ev_log[k] EXCEPT ![o] = @ + 1] /\ o \in Tra!Counters
        BY <1>2, <2>1, <3>2
      <4>2. s.log \in [Tra!Counters -> Nat] /\ (\A c \in Tra!Counters : s.log[c] = ev_log[k][c] + one(c))
        BY <1>5, <4>1
      <4>3. ev_log' \in [Kinds -> [Tra!Counters -> Nat]]
        BY <1>5, <3>1, <4>2
      <4>4. \A m \in Kinds, c \in Tra!Counters :
                /\ ev_log'[m][c] = ev_log[m][c] + (IF m = k THEN one(c) ELSE 0)
                /\ ev_log[m][c] \in Nat
        BY <1>5, <3>1, <4>2
      <4> HIDE DEF one
      <4>5. \A c : one(c) \in Nat
        BY DEF one
      <4> QED BY <1>1, <1>5, <3>1, <3>2, <4>1, <4>3, <4>4, <4>5
    <3>3. CASE ~Tra!On("hits", k)
      <4>1. ev_log' = ev_log
        <5>1. s.log = ev_log[k]
          BY <1>2, <3>3
        <5> QED BY <1>5, <3>1, <5>1
      <4> QED BY <1>1, <1>5, <3>1, <3>3, <4>1
    <3> QED BY <3>2, <3>3
  <2>2. CASE s.stray
    <3>1. Tra!Stray /\ Tra!On("hits", k) /\ o \notin Tra!Counters /\ (\A c \in Tra!Counters : one(c) = 0)
      BY <1>1, <1>2, <2>2
    <3>2. strays' = strays + 1 /\ main_at' \in {"tool_entry", "astray"}
      BY <1>1, <3>1 DEF Tra!Stray
    <3>3. /\ ev_log' \in [Kinds -> [Tra!Counters -> Nat]]
          /\ \A m \in Kinds, c \in Tra!Counters : ev_log[m][c] <= ev_log'[m][c] /\ ev_log'[m][c] <= ev_log[m][c] + 1
      <4>1. CASE ev_log' = ev_log
        BY <1>5, <4>1
      <4>2. CASE \E m \in Kinds, c \in Tra!Counters : ev_log' = [ev_log EXCEPT ![m][c] = @ + 1]
        <5>1. PICK m \in Kinds, c \in Tra!Counters : ev_log' = [ev_log EXCEPT ![m][c] = @ + 1]
          BY <4>2
        <5> QED BY <1>5, <5>1
      <4> QED BY <3>1, <4>1, <4>2 DEF Tra!Stray
    <3>4. \A m \in Kinds, c \in Tra!Counters : ev_log[m][c] \in Nat /\ ev_log'[m][c] \in Nat
      BY <1>5, <3>3
    <3> HIDE DEF one
    <3> QED BY <1>5, <3>1, <3>2, <3>3, <3>4
  <2> QED BY <2>1, <2>2
<1>8. TraType'
  <2>1. s.l.buf \in Seq(TraceAddrs) /\ s.l.file \in Seq(TraceAddrs) /\ Append(seen[k], a) \in Seq(TraceAddrs)
    BY <1>3, <1>5, <1>6 DEF TraInv, TraType
  <2>2. cl_buf' \in [Kinds -> Seq(TraceAddrs)] /\ cl_file' \in [Kinds -> Seq(TraceAddrs)]
    BY <1>1, <2>1 DEF TraInv, TraType
  <2>3. seen' \in [Kinds -> Seq(TraceAddrs)]
    BY <1>1, <2>1 DEF TraInv, TraType
  <2> QED BY <1>1, <1>7, <2>2, <2>3 DEF TraInv, TraType, Hooked, Tra!Counters, Tra!byte_len, Tra!Lines, Tra!fsl_io_size
<1>9. Hooks'
  BY <1>1, <1>4, <1>7 DEF TraInv, Hooks, Hooked
<1>10. ASSUME NEW m \in Kinds PROVE Traced(m)'
  <2>1. Traced(m)
    BY DEF TraInv
  <2>2. ASSUME Tra!On("hits", m), NEW c \in Tra!Counters
        PROVE  was' + Tra!InLine(m, c)' <= ev_log'[m][c] /\ ev_log'[m][c] <= was' + Tra!InLine(m, c)' + strays'
    <3>1. was + Tra!InLine(m, c) <= ev_log[m][c] /\ ev_log[m][c] <= was + Tra!InLine(m, c) + strays
      BY <1>1, <2>1, <2>2 DEF Traced
    <3>2. Tra!InLine(m, c) = CountIn(seen[m], c) /\ Tra!InLine(m, c)' = CountIn(seen'[m], c)
      <4>1. Tra!InLine(m, c) = CountIn(seen[m], c)
        BY InLineIs
      <4>2. Tra!InLine(m, c)' = CountIn(seen'[m], c)
        BY SameCardinality DEF Tra!InLine, CountIn
      <4> QED BY <4>1, <4>2
    <3>3. CountIn(seen[m], c) \in Nat /\ CountIn(seen'[m], c) = CountIn(seen[m], c) + (IF m = k THEN one(c) ELSE 0)
      <4>1. seen[m] \in Seq(TraceAddrs)
        BY DEF TraInv, TraType
      <4>2. CountIn(seen[m], c) \in Nat /\ CountIn(Append(seen[m], a), c) = CountIn(seen[m], c) + one(c)
        BY <4>1, LineCount DEF o
      <4>3. seen'[m] = IF m = k THEN Append(seen[m], a) ELSE seen[m]
        BY <1>1 DEF TraInv, TraType
      <4> HIDE DEF one
      <4> QED BY <4>2, <4>3
    <3>4. /\ ev_log[m][c] + (IF m = k THEN one(c) ELSE 0) <= ev_log'[m][c]
          /\ ev_log'[m][c] <= ev_log[m][c] + (IF m = k THEN one(c) ELSE 0) + (strays' - strays)
          /\ ev_log[m][c] \in Nat /\ ev_log'[m][c] \in Nat /\ strays' \in Nat
      BY <1>5, <1>7, <2>2
    <3>5. PICK d : d = IF m = k THEN one(c) ELSE 0
      OBVIOUS
    <3>6. d \in Nat
      BY <3>5
    <3>7. PICK e, f, n : e = ev_log[m][c] /\ f = ev_log'[m][c] /\ n = CountIn(seen[m], c)
      OBVIOUS
    <3> HIDE DEF one
    <3>9. was + n <= e /\ e <= was + n + strays /\ n \in Nat
      BY <3>1, <3>2, <3>3, <3>7
    <3>10. e + d <= f /\ f <= e + d + (strays' - strays) /\ e \in Nat /\ f \in Nat /\ strays' \in Nat
      BY <3>4, <3>5, <3>7
    <3>11. was \in Nat /\ strays \in Nat
      BY <1>5
    <3>12. \A w, x, y, i, j, q \in Nat :
              w + n <= i /\ i <= w + n + x /\ i + q <= j /\ j <= i + q + (y - x) /\ n \in Nat
                 => w + (n + q) <= j /\ j <= w + (n + q) + y
      OBVIOUS
    <3>8. was + (n + d) <= f /\ f <= was + (n + d) + strays'
      BY <3>6, <3>9, <3>10, <3>11, <3>12
    <3> QED BY <1>5, <3>2, <3>3, <3>5, <3>7, <3>8
  <2>3. IF Tra!On("temporal", m) THEN cl_file'[m] \o cl_buf'[m] = seen'[m] ELSE cl_buf'[m] = <<>>
    <3>1. CASE m # k
      BY <1>1, <2>1, <3>1 DEF TraInv, TraType, Traced
    <3>2. CASE m = k
      BY <1>1, <1>3, <1>6, <2>1, <3>2 DEF TraInv, TraType, Traced
    <3> QED BY <3>1, <3>2
  <2>4. Len(cl_buf'[m]) < LOG_BUF_ENTS
    <3>1. CASE m # k
      BY <1>1, <2>1, <3>1 DEF TraInv, TraType, Traced
    <3>2. CASE m = k
      BY <1>1, <1>3, <1>6, <2>1, <3>2 DEF TraInv, TraType, Traced
    <3> QED BY <3>1, <3>2
  <2> QED BY <1>1, <1>4, <1>7, <2>2, <2>3, <2>4 DEF Traced, Tra!Counters, Tra!byte_len, Tra!Lines, Tra!fsl_io_size
<1>11. Tra!HitsExact'
  <2>1. strays # 0 <=> \E m \in Kinds : Tra!On("hits", m) /\ Tra!Behind(m)
    BY DEF TraInv, Tra!HitsExact
  <2>2. ASSUME NEW m \in Kinds
        PROVE  Tra!Behind(m)' <=> Tra!Behind(m) \/ (m = k /\ o \notin Tra!Counters)
    <3>1. Tra!Behind(m)' <=> \E i \in 1 .. Len(seen'[m]) : seen'[m][i] \div HitBits \notin Tra!Counters
      BY DEF Tra!Behind, Tra!Counters, Tra!byte_len, Tra!Lines, Tra!fsl_io_size
    <3>2. CASE m # k
      <4>1. seen'[m] = seen[m]
        BY <1>1, <3>2 DEF TraInv, TraType
      <4> QED BY <3>1, <3>2, <4>1 DEF Tra!Behind
    <3>3. CASE m = k
      <4>1. seen'[m] = Append(seen[m], a) /\ seen[m] \in Seq(TraceAddrs)
        BY <1>1, <3>3 DEF TraInv, TraType
      <4>2. PICK t : t = seen[m]
        OBVIOUS
      <4>3. (\E i \in 1 .. Len(seen'[m]) : seen'[m][i] \div HitBits \notin Tra!Counters)
               <=> (\E i \in 1 .. Len(t) : t[i] \div HitBits \notin Tra!Counters) \/ o \notin Tra!Counters
        <5>1. t \in Seq(TraceAddrs) /\ seen'[m] = Append(t, a)
          BY <4>1, <4>2
        <5>2. (\E i \in 1 .. Len(Append(t, a)) : Append(t, a)[i] \div HitBits \notin Tra!Counters)
                 <=> (\E i \in 1 .. Len(t) : t[i] \div HitBits \notin Tra!Counters)
                     \/ a \div HitBits \notin Tra!Counters
          BY <5>1, BehindGrows, Zenon
        <5> QED BY <5>1, <5>2, Zenon DEF o
      <4>4. Tra!Behind(m) <=> \E i \in 1 .. Len(t) : t[i] \div HitBits \notin Tra!Counters
        BY <4>2, Zenon DEF Tra!Behind
      <4> QED BY <3>1, <3>3, <4>3, <4>4
    <3> QED BY <3>2, <3>3
  <2>3. strays' # 0 <=> \E m \in Kinds : Tra!On("hits", m)' /\ Tra!Behind(m)'
    BY <1>4, <1>7, <2>1, <2>2
  <2>4. main_at' # "fsl_hits_uninit"
    BY <1>7
  <2> QED BY <2>3, <2>4 DEF Tra!HitsExact
<1> QED BY <1>8, <1>9, <1>10, <1>11 DEF TraInv

LEMMA TemporalUninitKeeps ==
    ASSUME TraInv, Tra!fsl_temporal_uninit
    PROVE  TraInv'
<1> DEFINE flushed(k) == Tra!log_flush([buf |-> cl_buf[k], file |-> cl_file[k]])
           l == [k \in Kinds |-> IF Tra!On("temporal", k) THEN flushed(k)
                                 ELSE [buf |-> cl_buf[k], file |-> cl_file[k]]]
<1>1. /\ main_at = "tool_entry" /\ main_at' = "fsl_temporal_uninit"
      /\ cl_buf' = [k \in Kinds |-> l[k].buf] /\ cl_file' = [k \in Kinds |-> l[k].file]
      /\ UNCHANGED <<env, io_cb, cb_prev, ev_log, was, dump, seen, strays>>
  BY DEF Tra!fsl_temporal_uninit
<1>2. ASSUME NEW k \in Kinds PROVE flushed(k).buf = <<>> /\ flushed(k).file = cl_file[k] \o cl_buf[k]
  BY DEF Tra!log_flush
<1>3. ASSUME NEW k \in Kinds
      PROVE  /\ cl_buf'[k] = IF Tra!On("temporal", k) THEN <<>> ELSE cl_buf[k]
             /\ cl_file'[k] = IF Tra!On("temporal", k) THEN cl_file[k] \o cl_buf[k] ELSE cl_file[k]
  <2>1. l[k] = IF Tra!On("temporal", k) THEN flushed(k) ELSE [buf |-> cl_buf[k], file |-> cl_file[k]]
    BY Zenon
  <2> HIDE DEF l, flushed
  <2>2. cl_buf'[k] = l[k].buf /\ cl_file'[k] = l[k].file
    <3>1. cl_buf' = [m \in Kinds |-> l[m].buf] /\ cl_file' = [m \in Kinds |-> l[m].file]
      BY <1>1
    <3> QED BY <3>1, Zenon
  <2>3. CASE Tra!On("temporal", k)
    <3>1. l[k] = flushed(k)
      BY <2>1, <2>3, Zenon
    <3> QED BY <1>2, <2>2, <2>3, <3>1, Zenon
  <2>4. CASE ~Tra!On("temporal", k)
    <3>1. l[k] = [buf |-> cl_buf[k], file |-> cl_file[k]]
      BY <2>1, <2>4, Zenon
    <3> QED BY <2>2, <2>4, <3>1
  <2> QED BY <2>3, <2>4
<1> HIDE DEF flushed, l
<1>4. \A t, m : Tra!On(t, m)' <=> Tra!On(t, m)
  BY <1>1 DEF Tra!On
<1>5. ASSUME NEW k \in Kinds PROVE Traced(k)'
  <2>1. Traced(k) /\ cl_buf[k] \in Seq(TraceAddrs) /\ cl_file[k] \in Seq(TraceAddrs)
    BY DEF TraInv, TraType
  <2>2. cl_buf'[k] = <<>>
    BY <1>3, <2>1 DEF Traced
  <2>3. (cl_file[k] \o cl_buf[k]) \o <<>> = cl_file[k] \o cl_buf[k]
    BY <2>1
  <2>4. Tra!On("temporal", k) => cl_file'[k] \o cl_buf'[k] = seen'[k]
    BY <1>1, <1>3, <2>1, <2>3 DEF Traced
  <2>5. Len(cl_buf'[k]) < LOG_BUF_ENTS
    BY <2>2, TraceAssumption
  <2>6. \A c : Tra!InLine(k, c)' = Tra!InLine(k, c)
    BY <1>1 DEF Tra!InLine
  <2> QED BY <1>1, <1>4, <2>1, <2>2, <2>4, <2>5, <2>6 DEF Traced, Tra!Counters
<1>6. TraType'
  <2>1. ASSUME NEW k \in Kinds PROVE cl_buf'[k] \in Seq(TraceAddrs) /\ cl_file'[k] \in Seq(TraceAddrs)
    <3>1. cl_buf[k] \in Seq(TraceAddrs) /\ cl_file[k] \in Seq(TraceAddrs) /\ <<>> \in Seq(TraceAddrs)
      BY DEF TraInv, TraType
    <3>2. cl_file[k] \o cl_buf[k] \in Seq(TraceAddrs)
      BY <3>1
    <3> QED BY <1>3, <3>1, <3>2
  <2>2. cl_buf' \in [Kinds -> Seq(TraceAddrs)] /\ cl_file' \in [Kinds -> Seq(TraceAddrs)]
    BY <1>1, <2>1
  <2> QED BY <1>1, <2>2 DEF TraInv, TraType, Hooked, Tra!Counters
<1>7. Hooks'
  BY <1>1, <1>4 DEF TraInv, Hooks, Hooked
<1>8. Tra!HitsExact'
  <2>1. strays' # 0 <=> \E k \in Kinds : Tra!On("hits", k)' /\ Tra!Behind(k)'
    BY <1>1, NoAccess
  <2> QED BY <1>1, <2>1 DEF Tra!HitsExact
<1> QED BY <1>5, <1>6, <1>7, <1>8 DEF TraInv

LEMMA HitsUninitKeeps ==
    ASSUME TraInv, Tra!fsl_hits_uninit
    PROVE  TraInv'
<1>1. /\ main_at = "fsl_temporal_uninit" /\ main_at' = "fsl_hits_uninit"
      /\ UNCHANGED <<env, io_cb, cb_prev, ev_log, was, cl_buf, cl_file, seen, strays>>
  BY DEF Tra!fsl_hits_uninit
<1>2. \A t, m : Tra!On(t, m)' <=> Tra!On(t, m)
  BY <1>1 DEF Tra!On
<1>3. \A k, c : Tra!InLine(k, c)' = Tra!InLine(k, c)
  BY <1>1 DEF Tra!InLine
<1>4. ASSUME NEW k \in Kinds PROVE Traced(k)'
  <2>1. Traced(k)
    BY DEF TraInv
  <2> QED BY <1>1, <1>2, <1>3, <2>1 DEF Traced, Tra!Counters
<1>5. TraType' /\ Hooks'
  BY <1>1, <1>2 DEF TraInv, TraType, Hooks, Hooked, Tra!Counters
<1>6. Tra!HitsExact'
  <2>1. ASSUME NEW k \in Kinds, Tra!On("hits", k), NEW c \in Tra!Counters \intersect Tra!Dumped
        PROVE  \E v \in was + Tra!InLine(k, c) .. was + Tra!InLine(k, c) + strays :
                  {e \in dump'[k] : e[1] = c} = IF v = 0 THEN {} ELSE {<<c, v>>}
    <3>1. PICK junk : dump' = [m \in Kinds |-> IF Tra!On("hits", m) THEN Tra!fsl_hits_dump(m, junk) ELSE {}]
      BY DEF Tra!fsl_hits_uninit
    <3> DEFINE at(d) == IF d \in Tra!Counters THEN ev_log[k][d] ELSE junk[d]
               v == ev_log[k][c]
    <3>2. dump'[k] = {<<d, at(d)>> : d \in {d \in Tra!Dumped : at(d) # 0}}
      BY <2>1, <3>1 DEF Tra!fsl_hits_dump
    <3>3. at(c) = v /\ c \in Tra!Dumped
      BY <2>1
    <3> HIDE DEF at, v
    <3>4. {e \in dump'[k] : e[1] = c} = IF v = 0 THEN {} ELSE {<<c, v>>}
      BY <3>2, <3>3
    <3>5. v \in was + Tra!InLine(k, c) .. was + Tra!InLine(k, c) + strays
      <4>1. was + Tra!InLine(k, c) <= v /\ v <= was + Tra!InLine(k, c) + strays
        BY <1>1, <2>1 DEF TraInv, Traced, v
      <4>2. v \in Nat /\ was \in Nat /\ strays \in Nat
        BY <2>1 DEF TraInv, TraType, v
      <4>3. Tra!InLine(k, c) \in Nat
        <5>1. seen[k] \in Seq(TraceAddrs)
          BY DEF TraInv, TraType
        <5>2. IsFiniteSet(1 .. Len(seen[k]))
          BY <5>1, FS_Interval
        <5>3. CountIn(seen[k], c) \in Nat
          BY <5>2, FS_Subset, FS_CardinalityType DEF CountIn
        <5> QED BY <5>3, InLineIs
      <4> QED BY <4>1, <4>2, <4>3
    <3> QED BY <3>4, <3>5
  <2>2. /\ strays' # 0 <=> \E k \in Kinds : Tra!On("hits", k)' /\ Tra!Behind(k)'
        /\ was' = was /\ strays' = strays
    BY <1>1, NoAccess
  <2>3. Tra!Counters' = Tra!Counters /\ Tra!Dumped' = Tra!Dumped
    BY DEF Tra!Counters, Tra!Dumped, Tra!byte_len, Tra!Lines, Tra!fsl_io_size
  <2> QED BY <1>2, <1>3, <2>1, <2>2, <2>3, Zenon DEF Tra!HitsExact
<1> QED BY <1>4, <1>5, <1>6 DEF TraInv

LEMMA TraInvariance == RtSpec => []TraInv
<1>1. TraInv /\ [RtNext]_rtVars => TraInv'
  <2> SUFFICES ASSUME TraInv, [RtNext]_rtVars PROVE TraInv'
    OBVIOUS
  <2>1. CASE Tra!TraceNext
    BY <2>1, HitsInitKeeps, TemporalInitKeeps, TemporalUninitKeeps, HitsUninitKeeps, AccessTraced
       DEF Tra!TraceNext
  <2>2. CASE UNCHANGED traVars
    <3>1. \A t, k : Tra!On(t, k)' <=> Tra!On(t, k)
      BY <2>2 DEF traVars, Tra!On
    <3>2. \A k, c : Tra!InLine(k, c)' = Tra!InLine(k, c)
      BY <2>2 DEF traVars, Tra!InLine
    <3>3. TraType' /\ Hooks'
      BY <2>2, <3>1 DEF traVars, TraInv, TraType, Hooks, Hooked, Tra!Counters
    <3>4. ASSUME NEW k \in Kinds PROVE Traced(k)'
      <4>1. Traced(k)
        BY DEF TraInv
      <4> QED BY <2>2, <3>1, <3>2, <4>1 DEF traVars, Traced, Tra!Counters
    <3>5. Tra!HitsExact'
      <4>1. Tra!HitsExact
        BY DEF TraInv
      <4>2. strays' # 0 <=> \E k \in Kinds : Tra!On("hits", k)' /\ Tra!Behind(k)'
        BY <2>2, NoAccess DEF traVars
      <4>3. Tra!Counters' = Tra!Counters /\ Tra!Dumped' = Tra!Dumped
        BY DEF Tra!Counters, Tra!Dumped, Tra!byte_len, Tra!Lines, Tra!fsl_io_size
      <4>4. main_at' = main_at /\ was' = was /\ strays' = strays /\ dump' = dump
        BY <2>2 DEF traVars
      <4> QED BY <3>1, <3>2, <4>1, <4>2, <4>3, <4>4, Zenon DEF Tra!HitsExact
    <3> QED BY <3>3, <3>4, <3>5 DEF TraInv
  <2> QED BY <2>1, <2>2 DEF RtNext, rtVars
<1> QED BY <1>1, TraInitial, PTL DEF RtSpec

(* For every set of tracers that is on, every buffer and every device: the *)
(* temporal trace (temporal.c) has each access once and in order, and the  *)
(* dump of hits.c counts them for every line that has a counter, on top of *)
(* what malloc left, too high by the accesses behind the counters at most, *)
(* until the program is astray.                                            *)
THEOREM TracesAreExact == RtSpec => []TraceExact
<1>1. TraInv => TraceExact
  <2> SUFFICES ASSUME TraInv PROVE Tra!TraceExact /\ Tra!HitsExact
    BY DEF TraceExact
  <2>1. ASSUME NEW k \in Kinds
        PROVE  /\ Tra!On("temporal", k) /\ main_at # "fsl_rt_init" => cl_file[k] \o cl_buf[k] = seen[k]
               /\ Len(cl_buf[k]) < LOG_BUF_ENTS
               /\ main_at = "fsl_hits_uninit" => cl_buf[k] = <<>>
    BY DEF TraInv, Traced
  <2> QED BY <2>1 DEF TraInv, Tra!TraceExact
<1> QED BY <1>1, TraInvariance, PTL
-----------------------------------------------------------------------------
(* Virtual types.  The mapping has the bounds of the layout, and a slot of *)
(* its cache that answers for its index has the base the source has now,   *)
(* or the source moved.                                                    *)

LastBase == DevSize - lay.srcsz

SlotsGood(c) ==
    /\ c \in [0 .. CacheEnts - 1 -> [idx : Nat, off : 0 .. LastBase]]
    /\ \A s \in 0 .. CacheEnts - 1 :
          c[s].idx % CacheEnts = s =>
              /\ c[s].idx - lay.min + 1 \in 1 .. Len(lay.bases)
              /\ c[s].off = lay.bases[c[s].idx - lay.min + 1] \/ c[s].idx \in moved

LayOk ==
    /\ lay = [min |-> lay.min, srcsz |-> lay.srcsz, bases |-> lay.bases, cells |-> lay.cells]
    /\ lay.min \in Nat \cup {-1} /\ lay.srcsz \in Nat \ {0}
    /\ lay.bases \in Seq(1 .. DevSize - 1)
    /\ lay.cells \in [0 .. DevSize - 1 -> Nat]
    /\ HdrSize <= lay.srcsz
    /\ \A i \in 1 .. Len(lay.bases) : lay.bases[i] + lay.srcsz <= DevSize
    /\ \A b \in Spare : b + lay.srcsz <= DevSize

Mapped ==
    /\ rtm = [live |-> TRUE, min |-> lay.min, max |-> lay.min + Len(lay.bases) - 1,
              srcsz |-> lay.srcsz, cache |-> rtm.cache]
    /\ lay.min \in Nat /\ Len(lay.bases) # 0

VirtInv ==
    /\ LayOk
    /\ rtm = V!NoRtm \/ (Mapped /\ SlotsGood(rtm.cache))
    /\ V!XlateExact

LEMMA TimesOf ==
    ASSUME NEW w \in Nat, NEW a \in Nat, NEW b \in Nat, a <= b
    PROVE  a * w <= b * w /\ a * w \in Nat /\ b * w \in Nat
OBVIOUS

(* An offset inside the range is in one of its sources. *)
LEMMA SourceOf ==
    ASSUME LayOk, Mapped, NEW v \in Nat, v < V!fsl_virt_total_bits
    PROVE  /\ V!fsl_virt_total_bits = lay.srcsz * Len(lay.bases)
           /\ v \div lay.srcsz \in Nat /\ (v \div lay.srcsz) + 1 \in 1 .. Len(lay.bases)
           /\ v % lay.srcsz \in 0 .. lay.srcsz - 1
           /\ v \in DOMAIN V!Range1
           /\ V!Range1[v] = lay.bases[(v \div lay.srcsz) + 1] + (v % lay.srcsz)
           /\ V!Range1[v] \in 0 .. DevSize - 1
<1> DEFINE q == v \div lay.srcsz
           r == v % lay.srcsz
           n == Len(lay.bases)
           z == lay.srcsz
<1>1. z \in Nat \ {0} /\ n \in Nat \ {0} /\ lay.min \in Nat /\ lay.bases \in Seq(1 .. DevSize - 1) /\ DevSize \in Nat
  BY VirtAssumption DEF LayOk, Mapped
<1>2. rtm.srcsz = z /\ rtm.max = lay.min + n - 1 /\ rtm.min = lay.min
  BY DEF Mapped
<1> HIDE DEF n, z
<1>3. V!fsl_virt_total_bits = z * n
  <2>1. V!fsl_virt_total_bits = z * ((lay.min + n - 1) - lay.min + 1)
    BY <1>2 DEF V!fsl_virt_total_bits
  <2>2. (lay.min + n - 1) - lay.min + 1 = n
    BY <1>1
  <2> QED BY <2>1, <2>2
<1>4. q \in Nat /\ r \in 0 .. z - 1 /\ q * z \in Nat /\ v = q * z + r
  BY <1>1, Parts DEF z
<1> HIDE DEF q, r
<1>5. q < n
  <2>1. SUFFICES ASSUME n <= q PROVE FALSE
    BY <1>1, <1>4
  <2>2. n * z <= q * z
    BY <1>1, <1>4, <2>1, TimesOf
  <2>3. n * z = z * n /\ z * n \in Nat
    BY <1>1
  <2> QED BY <1>3, <1>4, <2>2, <2>3
<1>6. q + 1 \in 1 .. n
  BY <1>1, <1>4, <1>5
<1>7. v \in 0 .. z * n - 1
  <2>1. z * n \in Nat
    BY <1>1
  <2> QED BY <1>3, <2>1
<1>8. V!Range1 = [x \in 0 .. z * n - 1 |-> lay.bases[(x \div lay.srcsz) + 1] + (x % lay.srcsz)]
  BY DEF V!Range1, n, z
<1>9. v \in DOMAIN V!Range1 /\ V!Range1[v] = lay.bases[q + 1] + r
  BY <1>7, <1>8 DEF q, r
<1>10. lay.bases[q + 1] + r \in 0 .. DevSize - 1
  <2>1. lay.bases[q + 1] \in 1 .. DevSize - 1
    BY <1>1, <1>6 DEF n
  <2>2. lay.bases[q + 1] + z <= DevSize
    BY <1>6 DEF LayOk, n, z
  <2>3. PICK b : b = lay.bases[q + 1]
    OBVIOUS
  <2>4. b \in 1 .. DevSize - 1 /\ b + z <= DevSize /\ z \in Nat /\ DevSize \in Nat /\ r \in 0 .. z - 1
    BY <1>1, <1>4, <2>1, <2>2, <2>3
  <2>5. b + r \in 0 .. DevSize - 1
    BY <2>4
  <2> QED BY <2>3, <2>5
<1> QED BY <1>3, <1>4, <1>6, <1>9, <1>10 DEF q, r, n, z

(* A translation keeps the slots good and is the byte of the range, unless *)
(* its source moved.                                                       *)
LEMMA XlateIs ==
    ASSUME LayOk, Mapped, NEW c, SlotsGood(c), NEW v \in Nat, v < V!fsl_virt_total_bits
    PROVE  /\ SlotsGood(V!Xlate(c, v).cache)
           /\ V!Xlate(c, v).poff \in 0 .. DevSize - 1
           /\ V!Xlate(c, v).poff = V!Range1[v] \/ (v \div lay.srcsz) + lay.min \in moved
<1> DEFINE q == v \div lay.srcsz
           r == v % lay.srcsz
           idx == q + lay.min
           s == idx % CacheEnts
           hit == V!CacheFind(c, idx) # -1
           base == V!it_range(idx)
           d == V!CacheUpdate(c, idx, base)
<1>1. /\ q \in Nat /\ q + 1 \in 1 .. Len(lay.bases) /\ r \in 0 .. lay.srcsz - 1
      /\ V!Range1[v] = lay.bases[q + 1] + r
  BY SourceOf
<1>2. /\ lay.min \in Nat /\ lay.srcsz \in Nat \ {0} /\ lay.bases \in Seq(1 .. DevSize - 1) /\ DevSize \in Nat
      /\ CacheEnts \in Nat \ {0} /\ rtm.min = lay.min /\ rtm.srcsz = lay.srcsz
      /\ \A i \in 1 .. Len(lay.bases) : lay.bases[i] + lay.srcsz <= DevSize /\ lay.bases[i] \in 1 .. DevSize - 1
  <2>1. /\ lay.min \in Nat /\ lay.srcsz \in Nat \ {0} /\ lay.bases \in Seq(1 .. DevSize - 1)
        /\ rtm.min = lay.min /\ rtm.srcsz = lay.srcsz
    BY DEF LayOk, Mapped
  <2>2. DevSize \in Nat /\ CacheEnts \in Nat \ {0}
    BY VirtAssumption
  <2>3. \A i \in 1 .. Len(lay.bases) : lay.bases[i] \in 1 .. DevSize - 1
    BY <2>1, ElementOfSeq
  <2>4. \A i \in 1 .. Len(lay.bases) : lay.bases[i] + lay.srcsz <= DevSize
    BY DEF LayOk
  <2> QED BY <2>1, <2>2, <2>3, <2>4
<1>12. lay.min \in Nat /\ lay.srcsz \in Nat /\ DevSize \in Nat
  BY <1>2
<1>13. q \in Nat /\ r \in 0 .. lay.srcsz - 1
  BY <1>1
<1>3. V!Xlate(c, v) = V!XlateIn(c, idx, r)
  BY <1>2 DEF V!Xlate
<1> HIDE DEF q, r
<1>4. idx \in Nat /\ s \in 0 .. CacheEnts - 1 /\ idx - lay.min + 1 = q + 1
  <2>1. idx \in Nat /\ idx - lay.min + 1 = q + 1
    BY <1>12, <1>13
  <2> HIDE DEF idx
  <2> QED BY <1>2, <2>1, Parts
<1>5. base = lay.bases[q + 1] /\ base \in 0 .. LastBase
  <2>1. base = lay.bases[q + 1]
    BY <1>4 DEF V!it_range
  <2>2. lay.bases[q + 1] + lay.srcsz <= DevSize /\ lay.bases[q + 1] \in 1 .. DevSize - 1
    BY <1>1, <1>2
  <2> QED BY <1>2, <2>1, <2>2 DEF LastBase
<1>6. c \in [0 .. CacheEnts - 1 -> [idx : Nat, off : 0 .. LastBase]]
  BY DEF SlotsGood
<1>7. /\ V!CacheFind(c, idx) = IF c[s].idx = idx THEN c[s].off ELSE -1
      /\ c[s] \in [idx : Nat, off : 0 .. LastBase]
  BY <1>4, <1>6 DEF V!CacheFind
<1>8. d = [c EXCEPT ![s] = [idx |-> idx, off |-> base]]
  BY DEF V!CacheUpdate
<1> HIDE DEF idx, s, base, d
<1>9. SlotsGood(d)
  <2>1. d \in [0 .. CacheEnts - 1 -> [idx : Nat, off : 0 .. LastBase]]
    BY <1>4, <1>5, <1>6, <1>8
  <2>2. ASSUME NEW t \in 0 .. CacheEnts - 1, d[t].idx % CacheEnts = t
        PROVE  /\ d[t].idx - lay.min + 1 \in 1 .. Len(lay.bases)
               /\ d[t].off = lay.bases[d[t].idx - lay.min + 1] \/ d[t].idx \in moved
    <3>1. CASE t = s
      <4>1. d[t].idx = idx /\ d[t].off = base
        BY <1>4, <1>6, <1>8, <3>1
      <4> QED BY <1>1, <1>4, <1>5, <4>1
    <3>2. CASE t # s
      <4>1. d[t] = c[t]
        BY <1>4, <1>6, <1>8, <3>2
      <4> QED BY <2>2, <4>1 DEF SlotsGood
    <3> QED BY <3>1, <3>2
  <2> QED BY <2>1, <2>2 DEF SlotsGood
<1>10. CASE ~hit
  <2>1. V!Xlate(c, v) = [cache |-> d, poff |-> base + r]
    BY <1>3, <1>10 DEF V!XlateIn, V!FromBase, d, base
  <2>2. base + r \in 0 .. DevSize - 1
    BY <1>5, <1>12, <1>13 DEF LastBase
  <2> QED BY <1>1, <1>5, <1>9, <2>1, <2>2
<1>11. CASE hit
  <2>1. c[s].idx = idx /\ V!CacheFind(c, idx) = c[s].off
    BY <1>7, <1>11
  <2>2. V!Xlate(c, v) = [cache |-> c, poff |-> c[s].off + r]
    BY <1>3, <1>11, <2>1 DEF V!XlateIn, V!FromBase
  <2>3. c[s].off + r \in 0 .. DevSize - 1
    <3>1. c[s].off \in 0 .. LastBase
      BY <1>7
    <3> QED BY <1>12, <1>13, <3>1 DEF LastBase
  <2>4. c[s].off = lay.bases[q + 1] \/ idx \in moved
    BY <1>4, <2>1 DEF SlotsGood, s
  <2> QED BY <1>1, <2>2, <2>3, <2>4 DEF idx, q
<1> QED BY <1>10, <1>11

LEMMA TotalInt ==
    ASSUME LayOk, Mapped
    PROVE  V!fsl_virt_total_bits \in Nat /\ V!fsl_virt_total_bits = lay.srcsz * Len(lay.bases)
           /\ lay.srcsz <= V!fsl_virt_total_bits /\ HdrSize <= lay.srcsz
<1> DEFINE z == lay.srcsz
           n == Len(lay.bases)
<1>1. z \in Nat \ {0} /\ n \in Nat \ {0} /\ lay.min \in Nat /\ HdrSize <= z
  BY DEF LayOk, Mapped
<1>2. rtm.srcsz = z /\ rtm.max = lay.min + n - 1 /\ rtm.min = lay.min
  BY DEF Mapped
<1>3. V!fsl_virt_total_bits = z * ((lay.min + n - 1) - lay.min + 1)
  BY <1>2 DEF V!fsl_virt_total_bits
<1> HIDE DEF n, z
<1>4. (lay.min + n - 1) - lay.min + 1 = n
  BY <1>1
<1>5. z * n \in Nat /\ 1 * z <= n * z
  BY <1>1, TimesOf
<1>6. n * z = z * n /\ 1 * z = z
  BY <1>1
<1> QED BY <1>1, <1>3, <1>4, <1>5, <1>6 DEF z, n

(* The size of an object is read where the range says it is; an access     *)
(* behind the range is one whose header does not fit, and the header is    *)
(* read without an error exactly where it lies in one piece.               *)
LEMMA GetSizeIs ==
    ASSUME LayOk, Mapped, NEW c, SlotsGood(c), NEW v \in Nat
    PROVE  /\ SlotsGood(V!GetSize(c, v).cache)
           /\ V!GetSize(c, v).size \in Nat
           /\ V!GetSize(c, v).err \in {"ok", "thin", "past"}
           /\ V!GetSize(c, v).err = "past" => v + HdrSize - 1 >= V!fsl_virt_total_bits
           /\ moved = {} /\ V!GetSize(c, v).err = "ok" =>
                 V!GetSize(c, v).size = lay.cells[V!Range1[v]]
           /\ moved = {} /\ v < V!fsl_virt_total_bits =>
                 (V!GetSize(c, v).err = "ok" <=> V!HeaderWhole(v))
<1> DEFINE total == V!fsl_virt_total_bits
           a == V!Xlate(c, v)
           u == v + HdrSize - 1
           b == V!Xlate(a.cache, u)
<1>1. HdrSize \in Nat \ {0} /\ u \in Nat /\ v <= u
  BY VirtAssumption
<1>2. total \in Nat
  <2>1. lay.srcsz \in Nat /\ Len(lay.bases) \in Nat /\ lay.min \in Nat
    BY DEF LayOk, Mapped
  <2>2. rtm.srcsz = lay.srcsz /\ rtm.max = lay.min + Len(lay.bases) - 1 /\ rtm.min = lay.min
    BY DEF Mapped
  <2>3. total = lay.srcsz * ((lay.min + Len(lay.bases) - 1) - lay.min + 1)
    BY <2>2 DEF V!fsl_virt_total_bits
  <2>4. (lay.min + Len(lay.bases) - 1) - lay.min + 1 \in Nat
    BY <2>1
  <2> QED BY <2>1, <2>3, <2>4
<1> HIDE DEF total, u
<1>3. CASE v >= total
  <2>1. V!GetSize(c, v) = [cache |-> c, size |-> 0, err |-> "past"]
    BY <1>3 DEF V!GetSize, total
  <2>2. v + HdrSize - 1 >= total
    BY <1>1, <1>2, <1>3 DEF u
  <2>3. ~(v < total)
    BY <1>2, <1>3
  <2> QED BY <2>1, <2>2, <2>3 DEF total
<1>5. V!HeaderWhole(v) <=> (u < total /\ V!Range1[u] = V!Range1[v] + HdrSize - 1)
  <2>1. v + HdrSize <= total <=> u < total
    BY <1>1, <1>2 DEF u
  <2>2. total = lay.srcsz * Len(lay.bases)
    BY TotalInt DEF total
  <2> QED BY <2>1, <2>2 DEF V!HeaderWhole, u
<1>4. CASE v < total
  <2>1. SlotsGood(a.cache) /\ a.poff \in 0 .. DevSize - 1
        /\ (a.poff = V!Range1[v] \/ (v \div lay.srcsz) + lay.min \in moved)
    BY <1>4, XlateIs DEF total
  <2> HIDE DEF a
  <2>2. V!GetSize(c, v) = V!FromFirst(a, v)
    BY <1>2, <1>4 DEF V!GetSize, total, a
  <2>3. CASE u >= total
    <3>1. V!GetSize(c, v) = [cache |-> a.cache, size |-> 0, err |-> "past"]
      BY <2>2, <2>3 DEF V!FromFirst, total, u
    <3>2. ~(u < total)
      BY <1>1, <1>2, <2>3
    <3> QED BY <1>5, <2>1, <2>3, <3>1, <3>2 DEF total, u
  <2>4. CASE u < total
    <3>1. SlotsGood(b.cache) /\ (b.poff = V!Range1[u] \/ (u \div lay.srcsz) + lay.min \in moved)
      BY <1>1, <2>1, <2>4, XlateIs DEF total
    <3>2. V!GetSize(c, v) = V!Header(a, b)
      BY <1>1, <1>2, <2>2, <2>4 DEF V!FromFirst, total, u
    <3> HIDE DEF b
    <3>3. lay.cells[a.poff] \in Nat
      BY <2>1 DEF LayOk
    <3>4. V!GetSize(c, v).err = "ok" <=> b.poff = a.poff + HdrSize - 1
      BY <3>2 DEF V!Header
    <3>5. moved = {} => (V!GetSize(c, v).err = "ok" <=> V!HeaderWhole(v))
      BY <1>5, <2>1, <2>4, <3>1, <3>4
    <3>6. V!GetSize(c, v).err # "past" /\ SlotsGood(V!GetSize(c, v).cache)
          /\ V!GetSize(c, v).size = lay.cells[a.poff] /\ V!GetSize(c, v).err \in {"ok", "thin"}
      BY <3>1, <3>2 DEF V!Header
    <3> HIDE DEF u
    <3> QED BY <2>1, <3>3, <3>5, <3>6
  <2> QED BY <1>1, <1>2, <2>3, <2>4
<1> QED BY <1>1, <1>2, <1>3, <1>4

(* The loop is the function its rounds make. *)
WalkTo(f, c, n) ==
    f = [k \in 0 .. n |-> IF k = 0 THEN [cache |-> c, off |-> 0, res |-> "go"]
                          ELSE V!NthRound(f[k - 1])]

LEMMA WalkExists ==
    ASSUME NEW c, NEW n \in Nat
    PROVE  \E f : WalkTo(f, c, n)
<1> DEFINE start == [cache |-> c, off |-> 0, res |-> "go"]
           Bad == {m \in Nat : ~\E f : WalkTo(f, c, m)}
<1>1. SUFFICES ASSUME Bad # {} PROVE FALSE
  OBVIOUS
<1>2. PICK m \in Bad : \A k \in Bad : m <= k
  BY <1>1, Smallest
<1>3. m # 0
  <2>1. ASSUME m = 0 PROVE FALSE
    <3> DEFINE g == [k \in 0 .. 0 |-> start]
    <3>1. WalkTo(g, c, 0)
      BY DEF WalkTo
    <3> QED BY <1>2, <2>1, <3>1
  <2> QED BY <2>1
<1>4. m - 1 \in Nat /\ m - 1 \notin Bad
  BY <1>2, <1>3
<1>5. PICK f : WalkTo(f, c, m - 1)
  BY <1>4
<1> DEFINE g == [k \in 0 .. m |-> IF k = 0 THEN start ELSE V!NthRound(f[k - 1])]
<1>6. \A k \in 0 .. m - 1 : g[k] = f[k]
  BY <1>4, <1>5 DEF WalkTo
<1>7. \A k \in 0 .. m : k # 0 => g[k - 1] = f[k - 1]
  BY <1>2, <1>6
<1>8. g = [k \in 0 .. m |-> IF k = 0 THEN start ELSE V!NthRound(g[k - 1])]
  BY <1>7
<1>9. WalkTo(g, c, m)
  BY <1>8 DEF WalkTo
<1> QED BY <1>2, <1>9

LEMMA WalkIs ==
    ASSUME NEW c
    PROVE  /\ V!NthWalk(c)[0] = [cache |-> c, off |-> 0, res |-> "go"]
           /\ \A k \in 1 .. MaxIdx : V!NthWalk(c)[k] = V!NthRound(V!NthWalk(c)[k - 1])
<1> DEFINE w == V!NthWalk(c)
<1>1. MaxIdx \in Nat
  BY VirtAssumption
<1>2. \E f : WalkTo(f, c, MaxIdx)
  BY <1>1, WalkExists
<1>3. w = CHOOSE f : WalkTo(f, c, MaxIdx)
  BY Zenon DEF V!NthWalk, WalkTo
<1>4. WalkTo(w, c, MaxIdx)
  BY <1>2, <1>3, Zenon
<1> HIDE DEF w
<1>5. w[0] = [cache |-> c, off |-> 0, res |-> "go"]
  BY <1>1, <1>4 DEF WalkTo
<1>6. ASSUME NEW k \in 1 .. MaxIdx PROVE w[k] = V!NthRound(w[k - 1])
  BY <1>1, <1>4 DEF WalkTo
<1> QED BY <1>5, <1>6 DEF w

(* A round keeps the slots good. *)
LEMMA RoundKeeps ==
    ASSUME LayOk, Mapped, NEW w, SlotsGood(w.cache), w.off \in Nat
    PROVE  SlotsGood(V!NthRound(w).cache) /\ V!NthRound(w).off \in Nat
<1> DEFINE g == V!GetSize(w.cache, w.off)
<1>1. SlotsGood(g.cache) /\ g.size \in Nat
  BY GetSizeIs
<1> HIDE DEF g
<1>2. CASE w.res = "go"
  <2>1. V!NthRound(w) = V!NthStep(g, w)
    BY <1>2 DEF V!NthRound, g
  <2> QED BY <1>1, <2>1 DEF V!NthStep
<1>3. CASE w.res # "go"
  BY <1>3 DEF V!NthRound
<1> QED BY <1>2, <1>3

LEMMA WalkGood ==
    ASSUME LayOk, Mapped, NEW c, SlotsGood(c), NEW k \in 0 .. MaxIdx
    PROVE  SlotsGood(V!NthWalk(c)[k].cache) /\ V!NthWalk(c)[k].off \in Nat
<1> DEFINE w == V!NthWalk(c)
           Good(i) == SlotsGood(w[i].cache) /\ w[i].off \in Nat
           Bad == {i \in 0 .. MaxIdx : ~Good(i)}
<1>1. Good(0)
  <2>1. w[0] = [cache |-> c, off |-> 0, res |-> "go"]
    BY WalkIs
  <2> HIDE DEF w
  <2>2. w[0].cache = c /\ w[0].off = 0
    BY <2>1
  <2> QED BY <2>2
<1>2. SUFFICES ASSUME Bad # {} PROVE FALSE
  BY Zenon
<1> HIDE DEF Good
<1>8. Bad \subseteq Nat
  OBVIOUS
<1>3. PICK m \in Bad : \A i \in Bad : m <= i
  <2> HIDE DEF Bad
  <2> QED BY <1>2, <1>8, Smallest
<1>4. m # 0 /\ m \in 1 .. MaxIdx /\ m - 1 \in 0 .. MaxIdx /\ ~(m <= m - 1)
  BY <1>1, <1>3, VirtAssumption
<1>5. Good(m - 1)
  BY <1>3, <1>4
<1>6. w[m] = V!NthRound(w[m - 1])
  BY <1>4, WalkIs
<1> HIDE DEF w
<1>7. Good(m)
  BY <1>5, <1>6, RoundKeeps DEF Good
<1> QED BY <1>3, <1>7

(* A walk still under way has found every object before, and each of them  *)
(* inside the range.                                                       *)
Passed(c, k) ==
    LET w == V!NthWalk(c)[k]
        g == V!GetSize(w.cache, w.off)
    IN  /\ w.res = "go" /\ g.err = "ok" /\ w.off + g.size < V!fsl_virt_total_bits
        /\ V!NthWalk(c)[k + 1].off = w.off + g.size

LEMMA PassedOne ==
    ASSUME LayOk, Mapped, NEW c, SlotsGood(c), NEW k \in 0 .. MaxIdx - 1,
           V!NthWalk(c)[k + 1].res = "go"
    PROVE  Passed(c, k)
<1> DEFINE w == V!NthWalk(c)[k]
           g == V!GetSize(w.cache, w.off)
<1>1. k + 1 \in 1 .. MaxIdx /\ (k + 1) - 1 = k /\ k \in 0 .. MaxIdx
  BY VirtAssumption
<1>2. V!NthWalk(c)[k + 1] = V!NthRound(w)
  BY <1>1, WalkIs
<1>3. w.res = "go"
  BY <1>2 DEF V!NthRound
<1>4. V!NthWalk(c)[k + 1] = V!NthStep(g, w)
  BY <1>2, <1>3 DEF V!NthRound
<1>5. w.off \in Nat /\ SlotsGood(w.cache)
  BY <1>1, WalkGood
<1>6. g.size \in Nat /\ g.err \in {"ok", "thin", "past"}
  BY <1>5, GetSizeIs
<1>7. V!fsl_virt_total_bits \in Nat
  BY TotalInt
<1> HIDE DEF g, w
<1>8. g.err = "ok" /\ ~(w.off + g.size >= V!fsl_virt_total_bits) /\ V!NthWalk(c)[k + 1].off = w.off + g.size
  BY <1>4, <1>6 DEF V!NthStep
<1>9. w.off + g.size < V!fsl_virt_total_bits
  BY <1>5, <1>6, <1>7, <1>8
<1> QED BY <1>3, <1>8, <1>9 DEF Passed, g, w

LEMMA PassedAll ==
    ASSUME LayOk, Mapped, NEW c, SlotsGood(c), NEW i \in 0 .. MaxIdx, NEW j \in 0 .. MaxIdx, i < j,
           V!NthWalk(c)[j].res = "go"
    PROVE  Passed(c, i) /\ V!NthWalk(c)[i + 1].off <= V!NthWalk(c)[j].off
<1> DEFINE w == V!NthWalk(c)
           Good(m) == Passed(c, m) /\ w[m + 1].off <= w[j].off
           Gap == {d \in Nat : d <= j - 1 /\ ~Good(j - 1 - d)}
<1>1. MaxIdx \in Nat /\ i \in Nat /\ j \in Nat /\ j - 1 \in 0 .. MaxIdx - 1 /\ (j - 1) + 1 = j
  BY VirtAssumption
<1>2. \A m \in 0 .. MaxIdx : w[m].off \in Nat
  BY WalkGood
<1>3. Good(j - 1)
  <2>1. w[(j - 1) + 1].res = "go"
    BY <1>1
  <2>2. Passed(c, j - 1)
    BY <1>1, <2>1, PassedOne
  <2> QED BY <1>1, <1>2, <2>2
<1>4. Gap = {}
  <2>1. SUFFICES ASSUME Gap # {} PROVE FALSE
    OBVIOUS
  <2>2. PICK d \in Gap : \A e \in Gap : d <= e
    BY <2>1, Smallest
  <2>3. d # 0
    <3>1. ASSUME d = 0 PROVE FALSE
      <4>1. j - 1 - d = j - 1
        BY <1>1, <3>1
      <4> QED BY <1>3, <2>2, <4>1
    <3> QED BY <3>1
  <2>4. d - 1 \in Nat /\ d - 1 \notin Gap /\ d - 1 <= j - 1 /\ d <= j - 1
    BY <1>1, <2>2, <2>3
  <2>5. PICK m : m = j - 1 - d
    OBVIOUS
  <2>6. m \in 0 .. MaxIdx - 1 /\ m + 1 = j - 1 - (d - 1) /\ m + 1 \in 0 .. MaxIdx /\ m \in 0 .. MaxIdx
        /\ m + 1 \in 0 .. MaxIdx - 1 /\ (m + 1) + 1 \in 0 .. MaxIdx
    BY <1>1, <2>2, <2>3, <2>4, <2>5
  <2>7. Good(m + 1)
    BY <2>4, <2>6
  <2>8. w[m + 1].res = "go" /\ w[m + 1].off <= w[(m + 1) + 1].off
    <3> DEFINE x == w[m + 1]
               g == V!GetSize(x.cache, x.off)
    <3>1. SlotsGood(x.cache) /\ x.off \in Nat
      BY <2>6, WalkGood
    <3>2. g.size \in Nat
      BY <3>1, GetSizeIs
    <3>3. x.res = "go" /\ w[(m + 1) + 1].off = x.off + g.size
      BY <2>7 DEF Passed
    <3> QED BY <3>1, <3>2, <3>3
  <2>9. Passed(c, m)
    BY <2>6, <2>8, PassedOne
  <2>10. w[m + 1].off <= w[j].off
    BY <1>1, <1>2, <2>6, <2>7, <2>8
  <2> QED BY <2>2, <2>5, <2>9, <2>10
<1>5. j - 1 - i \in Nat /\ j - 1 - i <= j - 1 /\ j - 1 - (j - 1 - i) = i
  BY <1>1
<1>6. Good(i)
  BY <1>4, <1>5
<1> QED BY <1>6

(* What a look-up answers behind the first object: the walk came there,    *)
(* and the object ends in the range.                                       *)
Verified(f, w, g) ==
    /\ f.off = w.off
    /\ f.res = "go" <=> w.res = "go" /\ g.err = "ok" /\ w.off + g.size <= V!fsl_virt_total_bits
    /\ f.res = "past" <=> w.res = "past"
    /\ f.res = "thin" <=> w.res = "thin" \/ (w.res = "go" /\ g.err # "ok")

LEMMA FoundIs ==
    ASSUME LayOk, Mapped, NEW c, SlotsGood(c), NEW k \in 1 .. MaxIdx
    PROVE  LET w == V!NthWalk(c)[k]
           IN  Verified(V!fsl_virt_get_nth(c, k), w, V!GetSize(w.cache, w.off))
<1> DEFINE w == V!NthWalk(c)[k]
           g == V!GetSize(w.cache, w.off)
           f == V!fsl_virt_get_nth(c, k)
<1>1. k \in 0 .. MaxIdx /\ k # 0
  BY VirtAssumption
<1>2. SlotsGood(w.cache) /\ w.off \in Nat
  BY <1>1, WalkGood
<1>3. g.size \in Nat /\ g.err \in {"ok", "thin", "past"}
  BY <1>2, GetSizeIs
<1>4. V!fsl_virt_total_bits \in Nat
  BY TotalInt
<1>5. f = IF w.res # "go" THEN w ELSE V!VerifyBounds(g, w)
  BY <1>1 DEF V!fsl_virt_get_nth, V!NthFound
<1> HIDE DEF w, g, f
<1>6. Verified(f, w, g)
  <2>1. CASE w.res # "go"
    BY <1>5, <2>1 DEF Verified
  <2>2. CASE w.res = "go"
    <3>1. f = [cache |-> g.cache, off |-> w.off,
               res   |-> IF g.err # "ok" THEN "thin"
                         ELSE IF w.off + g.size > V!fsl_virt_total_bits THEN "EOF" ELSE "go"]
      BY <1>5, <2>2 DEF V!VerifyBounds
    <3>2. (w.off + g.size > V!fsl_virt_total_bits) <=> ~(w.off + g.size <= V!fsl_virt_total_bits)
      BY <1>2, <1>3, <1>4
    <3> QED BY <1>3, <2>2, <3>1, <3>2 DEF Verified
  <2> QED BY <2>1, <2>2
<1> QED BY <1>6 DEF w, g, f

LEMMA FirstIs == \A c : V!fsl_virt_get_nth(c, 0) = V!NthWalk(c)[0]
BY DEF V!fsl_virt_get_nth, V!NthFound

(* Objects lie one behind the other. *)
LEMMA TilesHold ==
    ASSUME VirtInv
    PROVE  V!NthTiles
<1> DEFINE c == rtm.cache
           w == V!NthWalk(c)
           g(k) == V!GetSize(w[k].cache, w[k].off)
           nth(k) == V!fsl_virt_get_nth(c, k)
           obj(a) == lay.cells[V!Range1[a]]
<1>1. SUFFICES ASSUME rtm.live, moved = {}, NEW f, f = [k \in 0 .. MaxIdx |-> nth(k)],
                      NEW i \in 0 .. MaxIdx, NEW j \in 0 .. MaxIdx
               PROVE  /\ i < j /\ f[j].res = "go" =>
                             f[i].res = "go" /\ f[i].off + obj(f[i].off) <= f[j].off
                      /\ j > 0 /\ f[j].res = "go" =>
                             f[j].off + obj(f[j].off) <= lay.srcsz * Len(lay.bases)
  BY DEF V!NthTiles
<1>2. LayOk /\ Mapped /\ SlotsGood(c)
  BY <1>1 DEF VirtInv, V!NoRtm
<1>3. V!fsl_virt_total_bits \in Nat /\ V!fsl_virt_total_bits = lay.srcsz * Len(lay.bases)
  BY <1>2, TotalInt
<1>4. \A k \in 0 .. MaxIdx : w[k].off \in Nat /\ SlotsGood(w[k].cache)
  BY <1>2, WalkGood
<1>5. \A k \in 0 .. MaxIdx : g(k).size \in Nat /\ (g(k).err = "ok" => g(k).size = obj(w[k].off))
  <2>1. TAKE k \in 0 .. MaxIdx
  <2>2. w[k].off \in Nat /\ SlotsGood(w[k].cache)
    BY <1>4
  <2> HIDE DEF w
  <2> QED BY <1>1, <1>2, <2>2, GetSizeIs
<1>6. f[i] = nth(i) /\ f[j] = nth(j)
  BY <1>1
<1>7. ASSUME NEW k \in 1 .. MaxIdx
      PROVE  Verified(nth(k), w[k], g(k))
  BY <1>2, FoundIs
<1>8. nth(0) = w[0] /\ w[0].res = "go"
  <2>1. nth(0) = w[0]
    BY FirstIs
  <2>2. w[0] = [cache |-> c, off |-> 0, res |-> "go"]
    BY WalkIs
  <2> HIDE DEF w
  <2>3. w[0].res = "go"
    BY <2>2
  <2> QED BY <2>1, <2>3
<1>9. ASSUME j > 0, nth(j).res = "go"
      PROVE  w[j].res = "go" /\ nth(j).off = w[j].off /\ w[j].off + obj(w[j].off) <= V!fsl_virt_total_bits
  <2>1. j \in 1 .. MaxIdx
    BY <1>9
  <2>2. w[j].res = "go" /\ g(j).err = "ok" /\ w[j].off + g(j).size <= V!fsl_virt_total_bits /\ nth(j).off = w[j].off
    <3>1. Verified(nth(j), w[j], g(j))
      BY <1>7, <2>1
    <3> HIDE DEF nth, w, g
    <3> QED BY <1>9, <3>1 DEF Verified
  <2>3. g(j).size = obj(w[j].off)
    BY <1>5, <2>2
  <2> HIDE DEF g, w, nth
  <2> QED BY <2>2, <2>3
<1>10. ASSUME i < j, nth(j).res = "go"
       PROVE  nth(i).res = "go" /\ nth(i).off + obj(nth(i).off) <= nth(j).off
  <2>1. j > 0
    BY <1>10
  <2>2. w[j].res = "go" /\ nth(j).off = w[j].off
    BY <1>9, <1>10, <2>1
  <2>3. Passed(c, i) /\ w[i + 1].off <= w[j].off
    BY <1>2, <1>10, <2>2, PassedAll
  <2>4. /\ w[i].res = "go" /\ g(i).err = "ok" /\ w[i].off + g(i).size < V!fsl_virt_total_bits
        /\ w[i + 1].off = w[i].off + g(i).size
    BY <2>3 DEF Passed
  <2>5. g(i).size = obj(w[i].off) /\ g(i).size \in Nat /\ w[i].off \in Nat
    BY <1>4, <1>5, <2>4
  <2>6. nth(i).res = "go" /\ nth(i).off = w[i].off
    <3>1. CASE i = 0
      BY <1>8, <3>1
    <3>2. CASE i # 0
      <4>1. i \in 1 .. MaxIdx
        BY <3>2
      <4>2. w[i].off + g(i).size <= V!fsl_virt_total_bits
        <5>1. PICK s : s = g(i).size
          OBVIOUS
        <5>2. PICK o : o = w[i].off
          OBVIOUS
        <5>3. o + s < V!fsl_virt_total_bits /\ o \in Nat /\ s \in Nat
          BY <2>4, <2>5, <5>1, <5>2
        <5>4. o + s <= V!fsl_virt_total_bits
          BY <1>3, <5>3
        <5> QED BY <5>1, <5>2, <5>4
      <4>3. Verified(nth(i), w[i], g(i))
        BY <1>7, <4>1
      <4> HIDE DEF nth, w, g
      <4> QED BY <2>4, <4>2, <4>3 DEF Verified
    <3> QED BY <3>1, <3>2
  <2>7. nth(i).off + obj(nth(i).off) = w[i + 1].off
    BY <2>4, <2>5, <2>6
  <2> QED BY <2>2, <2>3, <2>6, <2>7
<1> HIDE DEF nth, w, obj, g
<1> QED BY <1>3, <1>6, <1>9, <1>10

(* The first header lies in the first source. *)
LEMMA FirstWhole ==
    ASSUME LayOk, Mapped
    PROVE  V!HeaderWhole(0)
<1> DEFINE h == HdrSize - 1
           z == lay.srcsz
           total == V!fsl_virt_total_bits
<1>1. HdrSize \in Nat \ {0} /\ h \in Nat /\ z \in Nat \ {0} /\ HdrSize <= z
  BY VirtAssumption DEF LayOk
<1>2. total \in Nat /\ total = z * Len(lay.bases) /\ z <= total
  BY TotalInt
<1> HIDE DEF total, z
<1>3. 0 < total /\ h < total /\ h < z /\ 0 < z /\ HdrSize <= total
  BY <1>1, <1>2
<1>4. ASSUME NEW v \in Nat, v < z PROVE v \div z = 0 /\ v % z = v
  <2>1. PICK q, r : q = v \div z /\ r = v % z
    OBVIOUS
  <2>2. q \in Nat /\ r \in 0 .. z - 1 /\ q * z \in Nat /\ v = q * z + r
    BY <1>1, <2>1, Parts
  <2>3. q = 0
    <3>1. SUFFICES ASSUME 1 <= q PROVE FALSE
      BY <2>2
    <3>2. 1 * z <= q * z
      BY <1>1, <2>2, <3>1, TimesOf
    <3>3. PICK p : p = q * z
      OBVIOUS
    <3> QED BY <1>1, <1>4, <2>2, <3>2, <3>3
  <2>4. 0 * z = 0
    BY <1>1
  <2> QED BY <2>1, <2>2, <2>3, <2>4
<1>5. V!Range1[0] = lay.bases[0 + 1] + 0 /\ V!Range1[h] = lay.bases[0 + 1] + h
  <2>1. V!Range1[0] = lay.bases[(0 \div z) + 1] + (0 % z)
    BY <1>3, SourceOf DEF total, z
  <2>2. V!Range1[h] = lay.bases[(h \div z) + 1] + (h % z)
    BY <1>1, <1>3, SourceOf DEF total, z
  <2>3. 0 \div z = 0 /\ 0 % z = 0 /\ h \div z = 0 /\ h % z = h
    BY <1>1, <1>3, <1>4
  <2> QED BY <2>1, <2>2, <2>3
<1>6. V!Range1[0 + HdrSize - 1] = V!Range1[0] + HdrSize - 1
  <2>1. lay.bases[0 + 1] \in 1 .. DevSize - 1 /\ DevSize \in Nat
    <3>1. lay.bases \in Seq(1 .. DevSize - 1) /\ 0 + 1 \in 1 .. Len(lay.bases)
      BY DEF LayOk, Mapped
    <3> QED BY <3>1, ElementOfSeq, VirtAssumption
  <2>2. PICK b : b = lay.bases[0 + 1]
    OBVIOUS
  <2>3. V!Range1[h] = b + h /\ V!Range1[0] = b + 0 /\ b \in Nat
    BY <1>5, <2>1, <2>2
  <2>4. 0 + HdrSize - 1 = h /\ (b + 0) + HdrSize - 1 = b + h
    BY <1>1, <2>3
  <2> QED BY <2>3, <2>4
<1>7. 0 + HdrSize <= lay.srcsz * Len(lay.bases)
  BY <1>1, <1>2, <1>3 DEF z
<1> QED BY <1>6, <1>7 DEF V!HeaderWhole

(* Behind found objects only: a look-up never runs behind the range, and   *)
(* fails on a split header alone.                                          *)
LEMMA WalkSafe ==
    ASSUME VirtInv
    PROVE  V!SequentialWalkSafe
<1> DEFINE c == rtm.cache
           w == V!NthWalk(c)
           g(k) == V!GetSize(w[k].cache, w[k].off)
           nth(k) == V!fsl_virt_get_nth(c, k)
           total == V!fsl_virt_total_bits
<1>1. SUFFICES ASSUME rtm.live, NEW f, f = [k \in 0 .. MaxIdx |-> nth(k)], NEW i \in 0 .. MaxIdx,
                      \A j \in 0 .. i - 1 : f[j].res = "go"
               PROVE  /\ f[i].res # "past"
                      /\ moved = {} =>
                            (f[i].res = "thin" <=> f[i].off \in DOMAIN V!Range1 /\ ~V!HeaderWhole(f[i].off))
  BY DEF V!SequentialWalkSafe
<1>2. LayOk /\ Mapped /\ SlotsGood(c) /\ MaxIdx \in Nat
  BY <1>1, VirtAssumption DEF VirtInv, V!NoRtm
<1>3. total \in Nat /\ HdrSize - 1 < total
  <2>1. total \in Nat /\ lay.srcsz <= total /\ HdrSize <= lay.srcsz
    BY <1>2, TotalInt
  <2>2. lay.srcsz \in Nat /\ HdrSize \in Nat
    BY <1>2, VirtAssumption DEF LayOk
  <2> QED BY <2>1, <2>2
<1>4. V!HeaderWhole(0)
  BY <1>2, FirstWhole
<1>5. w[0].res = "go" /\ w[0].off = 0 /\ w[0].cache = c /\ nth(0) = w[0]
  <2>1. w[0] = [cache |-> c, off |-> 0, res |-> "go"] /\ nth(0) = w[0]
    BY WalkIs, FirstIs
  <2> HIDE DEF w, nth
  <2> QED BY <2>1
<1>6. \A k \in 0 .. MaxIdx : w[k].off \in Nat /\ SlotsGood(w[k].cache)
  BY <1>2, WalkGood
<1>7. \A k \in 0 .. MaxIdx :
         /\ g(k).size \in Nat /\ g(k).err \in {"ok", "thin", "past"}
         /\ g(k).err = "past" => w[k].off + HdrSize - 1 >= total
         /\ moved = {} /\ w[k].off < total => (g(k).err = "ok" <=> V!HeaderWhole(w[k].off))
  <2>1. TAKE k \in 0 .. MaxIdx
  <2>2. w[k].off \in Nat /\ SlotsGood(w[k].cache)
    BY <1>6
  <2> HIDE DEF w
  <2> QED BY <1>2, <2>2, GetSizeIs
<1>8. \A k \in 1 .. MaxIdx : w[k] = V!NthRound(w[k - 1]) /\ Verified(nth(k), w[k], g(k))
  <2>1. TAKE k \in 1 .. MaxIdx
  <2>2. w[k] = V!NthRound(w[k - 1])
    BY WalkIs
  <2>3. Verified(nth(k), w[k], g(k))
    BY <1>2, FoundIs
  <2> QED BY <2>2, <2>3
<1>9. \A v \in Nat : v \in DOMAIN V!Range1 <=> v < total
  <2>1. DOMAIN V!Range1 = 0 .. total - 1
    BY <1>2, TotalInt DEF V!Range1
  <2> HIDE DEF total
  <2> QED BY <1>3, <2>1
<1>10. f[i] = nth(i)
  BY <1>1
<1>11. CASE i = 0
  <2> HIDE DEF w, nth
  <2> QED BY <1>4, <1>5, <1>10, <1>11
<1>12. CASE i # 0
  <2>1. i \in 1 .. MaxIdx /\ i - 1 \in 0 .. MaxIdx /\ i - 1 \in 0 .. i - 1
    BY <1>2, <1>12
  <2>2. nth(i - 1).res = "go"
    BY <1>1, <2>1
  <2>3. w[i] = V!NthRound(w[i - 1]) /\ Verified(nth(i), w[i], g(i))
    BY <1>8, <2>1
  <2>4. w[i - 1].res = "go" /\ g(i - 1).err # "past" /\ (moved = {} => g(i - 1).err = "ok")
    <3>1. CASE i - 1 = 0
      <4>1. w[i - 1].res = "go" /\ w[i - 1].off = 0
        BY <1>5, <3>1
      <4>2. HdrSize \in Nat /\ 0 + HdrSize - 1 < total /\ ~(0 + HdrSize - 1 >= total) /\ 0 < total
        BY <1>3, VirtAssumption
      <4> HIDE DEF w, g, total
      <4> QED BY <1>4, <1>7, <2>1, <4>1, <4>2
    <3>2. CASE i - 1 # 0
      <4>1. Verified(nth(i - 1), w[i - 1], g(i - 1))
        BY <1>8, <2>1, <3>2
      <4> HIDE DEF w, g, nth
      <4> QED BY <2>2, <4>1 DEF Verified
    <3> QED BY <3>1, <3>2
  <2>5. w[i] = V!NthStep(g(i - 1), w[i - 1])
    BY <2>3, <2>4 DEF V!NthRound
  <2>6. /\ w[i - 1].off \in Nat /\ w[i].off \in Nat /\ g(i - 1).size \in Nat
        /\ g(i - 1).err \in {"ok", "thin"}
        /\ moved = {} /\ w[i - 1].off < total => V!HeaderWhole(w[i - 1].off)
        /\ moved = {} /\ w[i].off < total => (g(i).err = "ok" <=> V!HeaderWhole(w[i].off))
    <3> HIDE DEF w, g, total
    <3> QED BY <1>6, <1>7, <2>1, <2>4
  <2> HIDE DEF w, g, nth, total
  <2>7. w[i].res # "past"
    BY <2>5, <2>6 DEF V!NthStep, total
  <2>8. nth(i).res # "past" /\ nth(i).off = w[i].off
        /\ (nth(i).res = "thin" <=> w[i].res = "thin" \/ (w[i].res = "go" /\ g(i).err # "ok"))
    BY <2>3, <2>7 DEF Verified
  <2>9. ASSUME moved = {}
        PROVE  nth(i).res = "thin" <=> w[i].off < total /\ ~V!HeaderWhole(w[i].off)
    <3>1. /\ w[i].off = w[i - 1].off + g(i - 1).size
          /\ w[i].res = IF w[i].off >= total THEN "INVALID" ELSE IF g(i - 1).size = 0 THEN "EOF" ELSE "go"
      BY <2>4, <2>5, <2>9 DEF V!NthStep, total
    <3>2. CASE w[i].off >= total
      BY <1>3, <2>6, <2>8, <3>1, <3>2
    <3>3. CASE w[i].off < total
      <4>1. ~(w[i].off >= total)
        BY <1>3, <2>6, <3>3
      <4>2. CASE g(i - 1).size = 0
        <5>1. w[i].off = w[i - 1].off /\ w[i].res = "EOF"
          BY <2>6, <3>1, <4>1, <4>2
        <5> QED BY <2>6, <2>8, <2>9, <3>3, <5>1
      <4>3. CASE g(i - 1).size # 0
        <5>1. w[i].res = "go"
          BY <3>1, <4>1, <4>3
        <5> QED BY <2>6, <2>8, <2>9, <3>3, <5>1
      <4> QED BY <4>2, <4>3
    <3> QED BY <1>3, <2>6, <3>2, <3>3
  <2> QED BY <1>9, <1>10, <2>6, <2>8, <2>9
<1> QED BY <1>11, <1>12

-----------------------------------------------------------------------------
(* The steps of one mapping. *)
LEMMA LayoutOk ==
    ASSUME NEW l \in Layouts, lay = l
    PROVE  LayOk
<1>1. l \in V!LayoutType /\ HdrSize <= l.srcsz
      /\ (\A i \in DOMAIN l.bases : l.bases[i] + l.srcsz <= DevSize)
      /\ (\A b \in Spare : b + l.srcsz <= DevSize)
  BY VirtAssumption
<1>2. l = [min |-> l.min, srcsz |-> l.srcsz, bases |-> l.bases, cells |-> l.cells]
      /\ l.min \in Nat \cup {-1} /\ l.srcsz \in Nat \ {0}
      /\ l.bases \in Seq(1 .. DevSize - 1) /\ l.cells \in [0 .. DevSize - 1 -> Nat]
  BY <1>1 DEF V!LayoutType
<1>3. DOMAIN l.bases = 1 .. Len(l.bases)
  BY <1>2
<1> QED BY <1>1, <1>2, <1>3 DEF LayOk

LEMMA VirtInitial == RtInit => VirtInv
<1>1. SUFFICES ASSUME RtInit PROVE VirtInv
  OBVIOUS
<1>2. lay \in Layouts /\ rtm = V!NoRtm /\ last = V!Quiet
  BY <1>1 DEF RtInit, V!VirtInit
<1>3. LayOk
  BY <1>2, LayoutOk
<1>4. V!XlateExact
  BY <1>2 DEF V!XlateExact, V!Quiet
<1> QED BY <1>2, <1>3, <1>4 DEF VirtInv

LEMMA AllocKeeps == ASSUME VirtInv, V!fsl_virt_alloc PROVE VirtInv'
<1>1. lay' = lay /\ moved' = {} /\ last'.call = "alloc"
  BY DEF V!fsl_virt_alloc
<1>2. LayOk'
  BY <1>1 DEF VirtInv, LayOk
<1>3. V!XlateExact'
  BY <1>1 DEF V!XlateExact
<1>4. CASE ~V!LoadCache
  <2>1. rtm' = rtm /\ rtm = V!NoRtm
    BY <1>4 DEF V!fsl_virt_alloc, VirtInv, Mapped
  <2> QED BY <1>2, <1>3, <2>1 DEF VirtInv, V!NoRtm
<1>5. CASE V!LoadCache
  <2>1. rtm' = [live |-> TRUE, min |-> lay.min, max |-> lay.min + Len(lay.bases) - 1,
                srcsz |-> lay.srcsz, cache |-> V!fsl_virt_init_cache]
    BY <1>5 DEF V!fsl_virt_alloc
  <2>2. LayOk
    BY DEF VirtInv
  <2>3. lay.min \in Nat /\ Len(lay.bases) # 0
    BY <1>5, <2>2 DEF V!LoadCache, LayOk
  <2>4. Mapped'
    BY <1>1, <2>1, <2>3 DEF Mapped
  <2> DEFINE c == V!fsl_virt_init_cache
  <2>5. CacheEnts \in Nat \ {0, 1} /\ DevSize \in Nat /\ lay.srcsz \in Nat \ {0}
    BY <2>2, VirtAssumption DEF LayOk
  <2>6. c = [s \in 0 .. CacheEnts - 1 |-> [idx |-> s + 1, off |-> 0]]
    BY DEF V!fsl_virt_init_cache
  <2>7. 0 \in 0 .. LastBase
    <3>1. lay.bases[1] + lay.srcsz <= DevSize /\ lay.bases[1] \in 1 .. DevSize - 1
      <4>1. lay.bases \in Seq(1 .. DevSize - 1) /\ 1 \in 1 .. Len(lay.bases)
        BY <2>2, <2>3 DEF LayOk
      <4>2. lay.bases[1] + lay.srcsz <= DevSize
        BY <2>2, <4>1 DEF LayOk
      <4>3. lay.bases[1] \in 1 .. DevSize - 1
        BY <4>1, ElementOfSeq
      <4> QED BY <4>2, <4>3
    <3>2. PICK b : b = lay.bases[1]
      OBVIOUS
    <3>3. PICK z : z = lay.srcsz
      OBVIOUS
    <3>4. b + z <= DevSize /\ b \in Nat /\ z \in Nat
      BY <2>5, <3>1, <3>2, <3>3
    <3>5. 0 \in 0 .. DevSize - z
      BY <2>5, <3>4
    <3> QED BY <3>3, <3>5 DEF LastBase
  <2> HIDE DEF c
  <2>8. c \in [0 .. CacheEnts - 1 -> [idx : Nat, off : 0 .. LastBase]]
    BY <2>5, <2>6, <2>7
  <2>9. ASSUME NEW s \in 0 .. CacheEnts - 1 PROVE c[s].idx % CacheEnts # s
    <3>1. c[s].idx = s + 1
      BY <2>6
    <3>2. (s + 1) % CacheEnts # s
      <4>1. PICK q : q = (s + 1) \div CacheEnts
        OBVIOUS
      <4>2. PICK r : r = (s + 1) % CacheEnts
        OBVIOUS
      <4>3. s + 1 \in Nat
        BY <2>5
      <4>4. q \in Nat /\ r \in 0 .. CacheEnts - 1 /\ s + 1 = q * CacheEnts + r
        BY <2>5, <4>1, <4>2, <4>3, Parts
      <4>5. ASSUME r = s PROVE FALSE
        <5>1. q * CacheEnts = 1
          <6>1. PICK p : p = q * CacheEnts
            OBVIOUS
          <6>2. p \in Nat /\ s + 1 = p + s
            BY <2>5, <4>4, <4>5, <6>1
          <6> QED BY <2>5, <6>1, <6>2
        <5>2. q # 0
          BY <2>5, <5>1
        <5>3. 1 * CacheEnts <= q * CacheEnts
          BY <2>5, <4>4, <5>2, TimesOf
        <5> QED BY <2>5, <5>1, <5>3
      <4> QED BY <4>2, <4>5
    <3> QED BY <3>1, <3>2
  <2>10. SlotsGood(c)
    BY <2>8, <2>9 DEF SlotsGood
  <2>11. SlotsGood(rtm.cache)'
    <3>1. rtm'.cache = c
      BY <2>1 DEF c
    <3>2. c \in [0 .. CacheEnts - 1 -> [idx : Nat, off : 0 .. LastBase']]
      BY <1>1, <2>8 DEF LastBase
    <3> QED BY <2>9, <3>1, <3>2 DEF SlotsGood
  <2> QED BY <1>2, <1>3, <2>4, <2>11 DEF VirtInv
<1> QED BY <1>4, <1>5

LEMMA FreeKeeps == ASSUME VirtInv, V!fsl_virt_free PROVE VirtInv'
<1>1. lay' = lay /\ moved' = moved /\ last' = V!Quiet /\ rtm' = V!NoRtm
  BY DEF V!fsl_virt_free
<1>2. LayOk'
  BY <1>1 DEF VirtInv, LayOk
<1>3. V!XlateExact'
  BY <1>1 DEF V!XlateExact, V!Quiet
<1> QED BY <1>1, <1>2, <1>3 DEF VirtInv, V!NoRtm

LEMMA NewCache ==
    ASSUME NEW live, NEW a, NEW b, NEW z, NEW e, NEW c, NEW r,
           r = [live |-> live, min |-> a, max |-> b, srcsz |-> z, cache |-> e]
    PROVE  [r EXCEPT !.cache = c] = [live |-> live, min |-> a, max |-> b, srcsz |-> z, cache |-> c]
OBVIOUS

LEMMA NewPlaces ==
    ASSUME NEW a, NEW z, NEW s, NEW t, NEW p, NEW q, NEW l,
           l = [min |-> a, srcsz |-> z, bases |-> s, cells |-> t]
    PROVE  [l EXCEPT !.bases = p, !.cells = q] = [min |-> a, srcsz |-> z, bases |-> p, cells |-> q]
<1>1. PICK m : m = [l EXCEPT !.bases = p]
  OBVIOUS
<1>2. [l EXCEPT !.bases = p, !.cells = q] = [m EXCEPT !.cells = q]
  BY <1>1
<1>3. m = [min |-> a, srcsz |-> z, bases |-> p, cells |-> t]
  BY <1>1
<1>4. [m EXCEPT !.cells = q] = [min |-> a, srcsz |-> z, bases |-> p, cells |-> q]
  BY <1>3
<1> QED BY <1>2, <1>4

(* A new cache with good slots is all that a translation changes. *)
LEMMA CacheKept ==
    ASSUME VirtInv, rtm.live, lay' = lay, moved' = moved,
           NEW c, SlotsGood(c), rtm' = [rtm EXCEPT !.cache = c], V!XlateExact'
    PROVE  VirtInv'
<1>1. LayOk /\ Mapped
  BY DEF VirtInv, V!NoRtm
<1>2. LayOk'
  BY <1>1 DEF LayOk
<1>3. rtm' = [live |-> TRUE, min |-> lay.min, max |-> lay.min + Len(lay.bases) - 1,
              srcsz |-> lay.srcsz, cache |-> c]
  <2>1. PICK e, a, b, z : e = rtm.cache /\ a = lay.min /\ b = lay.min + Len(lay.bases) - 1 /\ z = lay.srcsz
    OBVIOUS
  <2>2. PICK live : live = TRUE
    OBVIOUS
  <2>3. rtm = [live |-> live, min |-> a, max |-> b, srcsz |-> z, cache |-> e]
    BY <1>1, <2>1, <2>2, Zenon DEF Mapped
  <2>4. rtm' = [live |-> live, min |-> a, max |-> b, srcsz |-> z, cache |-> c]
    BY <2>3, NewCache
  <2> QED BY <2>1, <2>2, <2>4, Zenon
<1>4. Mapped' /\ rtm'.cache = c
  BY <1>1, <1>3 DEF Mapped
<1>5. SlotsGood(rtm.cache)'
  BY <1>4 DEF SlotsGood, LastBase
<1> QED BY <1>2, <1>4, <1>5 DEF VirtInv

LEMMA XlateKeeps ==
    ASSUME VirtInv, NEW voff \in 0 .. DevSize, V!fsl_virt_xlate_safe(voff)
    PROVE  VirtInv'
<1>1. LayOk /\ Mapped /\ rtm.live /\ SlotsGood(rtm.cache) /\ voff \in Nat
  BY VirtAssumption DEF VirtInv, V!NoRtm, V!fsl_virt_xlate_safe
<1>2. lay' = lay /\ moved' = moved
  BY DEF V!fsl_virt_xlate_safe
<1>3. V!Range1' = V!Range1
  BY <1>2 DEF V!Range1
<1>4. V!fsl_virt_total_bits \in Nat /\ V!fsl_virt_total_bits = lay.srcsz * Len(lay.bases)
  BY <1>1, TotalInt
<1>5. CASE voff >= V!fsl_virt_total_bits
  <2>1. last' = [call |-> "xlate", voff |-> voff, poff |-> -1] /\ rtm' = rtm
    BY <1>5 DEF V!fsl_virt_xlate_safe
  <2>2. voff \notin DOMAIN V!Range1
    <3>1. V!Range1 = [v \in 0 .. V!fsl_virt_total_bits - 1 |->
              lay.bases[(v \div lay.srcsz) + 1] + (v % lay.srcsz)]
      BY <1>4 DEF V!Range1
    <3>2. voff \notin 0 .. V!fsl_virt_total_bits - 1
      BY <1>1, <1>4, <1>5
    <3> QED BY <3>1, <3>2
  <2>3. V!XlateExact'
    BY <1>3, <2>1, <2>2 DEF V!XlateExact
  <2>4. LayOk'
    BY <1>1, <1>2 DEF LayOk
  <2>5. Mapped'
    BY <1>1, <1>2, <2>1 DEF Mapped
  <2>6. SlotsGood(rtm.cache)'
    BY <1>1, <1>2, <2>1 DEF SlotsGood, LastBase
  <2> QED BY <2>3, <2>4, <2>5, <2>6 DEF VirtInv
<1>6. CASE voff < V!fsl_virt_total_bits
  <2> DEFINE x == V!Xlate(rtm.cache, voff)
  <2>1. ~(voff >= V!fsl_virt_total_bits)
    BY <1>1, <1>4, <1>6
  <2>2. /\ last' = [call |-> "xlate", voff |-> voff, poff |-> x.poff]
        /\ rtm' = [rtm EXCEPT !.cache = x.cache]
    BY <2>1 DEF V!fsl_virt_xlate_safe
  <2>3. /\ SlotsGood(x.cache)
        /\ x.poff = V!Range1[voff] \/ (voff \div lay.srcsz) + lay.min \in moved
    BY <1>1, <1>6, XlateIs
  <2>4. voff \in DOMAIN V!Range1
    BY <1>1, <1>6, SourceOf
  <2> HIDE DEF x
  <2>5. V!XlateExact'
    BY <1>2, <1>3, <2>2, <2>3, <2>4 DEF V!XlateExact
  <2> QED BY <1>1, <1>2, <2>2, <2>3, <2>5, CacheKept
<1> QED BY <1>1, <1>4, <1>5, <1>6

LEMMA NthKeeps ==
    ASSUME VirtInv, NEW idx \in 0 .. MaxIdx, V!GetNth(idx)
    PROVE  VirtInv'
<1> DEFINE c == rtm.cache
           w == V!NthWalk(c)[idx]
           g == V!GetSize(w.cache, w.off)
           f == V!fsl_virt_get_nth(c, idx)
<1>1. LayOk /\ Mapped /\ rtm.live /\ SlotsGood(c)
  BY DEF VirtInv, V!NoRtm, V!GetNth
<1>2. lay' = lay /\ moved' = moved /\ last'.call = "nth" /\ rtm' = [rtm EXCEPT !.cache = f.cache]
  BY DEF V!GetNth
<1>3. V!XlateExact'
  BY <1>2 DEF V!XlateExact
<1>4. SlotsGood(w.cache) /\ w.off \in Nat
  BY <1>1, WalkGood
<1>5. SlotsGood(g.cache)
  BY <1>1, <1>4, GetSizeIs
<1>6. f = V!NthFound(w, idx)
  BY DEF V!fsl_virt_get_nth
<1>7. f = w \/ f = V!VerifyBounds(g, w)
  BY <1>6 DEF V!NthFound
<1> HIDE DEF f, w, g
<1>8. SlotsGood(f.cache)
  BY <1>4, <1>5, <1>7 DEF V!VerifyBounds
<1> QED BY <1>1, <1>2, <1>3, <1>8, CacheKept

LEMMA RelocateKeeps ==
    ASSUME VirtInv, NEW i \in DOMAIN lay.bases, NEW b \in Spare, V!Relocate(i, b)
    PROVE  VirtInv'
<1> DEFINE n == Len(lay.bases)
           B1 == [lay.bases EXCEPT ![i] = b]
           old == lay.bases[i]
           bytes == 0 .. lay.srcsz - 1
           C1 == [a \in DOMAIN lay.cells |->
                     IF a - b \in bytes THEN lay.cells[old + a - b]
                     ELSE IF a - old \in bytes THEN 0 ELSE lay.cells[a]]
<1>1. LayOk /\ Mapped /\ SlotsGood(rtm.cache)
  BY DEF VirtInv, V!NoRtm, V!Relocate
<1>2. /\ lay' = [lay EXCEPT !.bases = B1, !.cells = C1]
      /\ moved = {} /\ moved' = {lay.min + i - 1} /\ last' = V!Quiet /\ rtm' = rtm
  BY DEF V!Relocate
<1>3. /\ lay = [min |-> lay.min, srcsz |-> lay.srcsz, bases |-> lay.bases, cells |-> lay.cells]
      /\ lay.min \in Nat /\ lay.srcsz \in Nat \ {0} /\ lay.bases \in Seq(1 .. DevSize - 1)
      /\ lay.cells \in [0 .. DevSize - 1 -> Nat] /\ DevSize \in Nat
      /\ b \in 1 .. DevSize - 1 /\ b + lay.srcsz <= DevSize
  BY <1>1, VirtAssumption DEF LayOk, Mapped
<1>4. i \in 1 .. n /\ n \in Nat /\ old \in 1 .. DevSize - 1 /\ old + lay.srcsz <= DevSize
  <2>1. i \in 1 .. n /\ n \in Nat
    BY <1>3
  <2>2. old \in 1 .. DevSize - 1
    BY <1>3, <2>1
  <2>3. old + lay.srcsz <= DevSize
    BY <1>1, <2>1 DEF LayOk
  <2> QED BY <2>1, <2>2, <2>3
<1>5. B1 \in Seq(1 .. DevSize - 1) /\ Len(B1) = n /\ (\A k \in 1 .. n : B1[k] = IF k = i THEN b ELSE lay.bases[k])
  <2>1. lay.bases \in Seq(1 .. DevSize - 1) /\ b \in 1 .. DevSize - 1 /\ i \in 1 .. n
    BY <1>3, <1>4
  <2>2. PICK s : s = lay.bases
    OBVIOUS
  <2>3. s \in Seq(1 .. DevSize - 1) /\ i \in 1 .. Len(s) /\ B1 = [s EXCEPT ![i] = b]
    BY <2>1, <2>2
  <2>4. B1 \in Seq(1 .. DevSize - 1) /\ Len(B1) = Len(s) /\ (\A k \in 1 .. Len(s) : B1[k] = IF k = i THEN b ELSE s[k])
    BY <2>1, <2>3, ExceptSeq
  <2> QED BY <2>2, <2>4
<1>6. C1 \in [0 .. DevSize - 1 -> Nat]
  <2>1. ASSUME NEW a \in 0 .. DevSize - 1, a - b \in bytes PROVE old + a - b \in 0 .. DevSize - 1
    <3>1. PICK o : o = old
      OBVIOUS
    <3>2. PICK z : z = lay.srcsz
      OBVIOUS
    <3>3. o \in 1 .. DevSize - 1 /\ o + z <= DevSize /\ z \in Nat /\ a - b \in 0 .. z - 1 /\ b \in Nat /\ DevSize \in Nat
      BY <1>3, <1>4, <2>1, <3>1, <3>2
    <3>4. o + a - b \in 0 .. DevSize - 1
      BY <3>3
    <3> QED BY <3>1, <3>4
  <2> HIDE DEF old, bytes
  <2> QED BY <1>3, <2>1
<1> HIDE DEF B1, C1
<1>7. lay' = [min |-> lay.min, srcsz |-> lay.srcsz, bases |-> B1, cells |-> C1]
  <2>1. PICK a, z, s, t : a = lay.min /\ z = lay.srcsz /\ s = lay.bases /\ t = lay.cells
    OBVIOUS
  <2>2. lay = [min |-> a, srcsz |-> z, bases |-> s, cells |-> t]
    BY <1>3, <2>1
  <2>3. lay' = [min |-> a, srcsz |-> z, bases |-> B1, cells |-> C1]
    BY <1>2, <2>2, NewPlaces
  <2> QED BY <2>1, <2>3
<1>8. lay'.min = lay.min /\ lay'.srcsz = lay.srcsz /\ lay'.bases = B1 /\ lay'.cells = C1
  BY <1>7
<1>9. LayOk'
  <2>1. \A k \in 1 .. n : B1[k] + lay.srcsz <= DevSize
    BY <1>1, <1>3, <1>5 DEF LayOk
  <2> QED BY <1>1, <1>5, <1>6, <1>7, <1>8, <2>1 DEF LayOk
<1>10. Mapped'
  <2>1. rtm = [live |-> TRUE, min |-> lay.min, max |-> lay.min + n - 1,
               srcsz |-> lay.srcsz, cache |-> rtm.cache] /\ n # 0
    BY <1>1 DEF Mapped
  <2> QED BY <1>2, <1>3, <1>5, <1>8, <2>1 DEF Mapped
<1>11. SlotsGood(rtm.cache)'
  <2> DEFINE c == rtm.cache
  <2>1. c \in [0 .. CacheEnts - 1 -> [idx : Nat, off : 0 .. LastBase']]
    BY <1>1, <1>8 DEF SlotsGood, LastBase
  <2>2. ASSUME NEW s \in 0 .. CacheEnts - 1, c[s].idx % CacheEnts = s
        PROVE  /\ c[s].idx - lay.min + 1 \in 1 .. n
               /\ c[s].off = B1[c[s].idx - lay.min + 1] \/ c[s].idx \in moved'
    <3>1. PICK k : k = c[s].idx - lay.min + 1
      OBVIOUS
    <3>2. k \in 1 .. n /\ c[s].off = lay.bases[k]
      BY <1>1, <1>2, <2>2, <3>1 DEF SlotsGood
    <3>3. CASE k = i
      <4>1. c[s].idx \in Nat
        <5>1. c \in [0 .. CacheEnts - 1 -> [idx : Nat, off : 0 .. LastBase]]
          BY <1>1 DEF SlotsGood
        <5> HIDE DEF c
        <5> QED BY <2>2, <5>1
      <4>2. c[s].idx = lay.min + i - 1
        <5>1. PICK e : e = c[s].idx
          OBVIOUS
        <5>2. e \in Nat /\ lay.min \in Nat /\ i = e - lay.min + 1
          BY <1>3, <3>1, <3>3, <4>1, <5>1
        <5>3. e = lay.min + i - 1
          BY <5>2
        <5> QED BY <5>1, <5>3
      <4> QED BY <1>2, <3>1, <3>2, <4>2
    <3>4. CASE k # i
      BY <1>5, <3>1, <3>2, <3>4
    <3> QED BY <3>3, <3>4
  <2>3. rtm'.cache = c
    BY <1>2
  <2> QED BY <1>5, <1>8, <2>1, <2>2, <2>3 DEF SlotsGood
<1>12. V!XlateExact'
  BY <1>2 DEF V!XlateExact, V!Quiet
<1> QED BY <1>9, <1>10, <1>11, <1>12 DEF VirtInv

LEMMA VirtKeeps == VirtInv /\ [RtNext]_rtVars => VirtInv'
<1> SUFFICES ASSUME VirtInv, [RtNext]_rtVars PROVE VirtInv'
  OBVIOUS
<1>1. CASE UNCHANGED virtVars
  <2>1. lay' = lay /\ rtm' = rtm /\ moved' = moved /\ last' = last
    BY <1>1 DEF virtVars
  <2>2. LayOk'
    BY <2>1 DEF VirtInv, LayOk
  <2>3. V!XlateExact'
    BY <2>1 DEF VirtInv, V!XlateExact, V!Range1
  <2>4. rtm = V!NoRtm => rtm' = V!NoRtm
    BY <2>1
  <2>5. Mapped => Mapped'
    BY <2>1 DEF Mapped
  <2>6. SlotsGood(rtm.cache) => SlotsGood(rtm.cache)'
    BY <2>1 DEF SlotsGood, LastBase
  <2> QED BY <2>2, <2>3, <2>4, <2>5, <2>6 DEF VirtInv, V!NoRtm
<1>2. CASE V!VirtNext
  BY <1>2, AllocKeeps, FreeKeeps, XlateKeeps, NthKeeps, RelocateKeeps DEF V!VirtNext
<1> QED BY <1>1, <1>2 DEF RtNext, rtVars

LEMMA VirtInvariance == RtSpec => []VirtInv
<1> QED BY VirtInitial, VirtKeeps, PTL DEF RtSpec

(* Every slot that could answer is right. *)
LEMMA SlotsSound == VirtInv => V!CacheSound
<1>1. SUFFICES ASSUME VirtInv, rtm.live, NEW s \in DOMAIN rtm.cache, rtm.cache[s].idx % CacheEnts = s
               PROVE  /\ rtm.cache[s].idx \in rtm.min .. rtm.max
                      /\ rtm.cache[s].off = V!it_range(rtm.cache[s].idx) \/ rtm.cache[s].idx \in moved
  BY DEF V!CacheSound
<1>2. LayOk /\ Mapped /\ SlotsGood(rtm.cache)
  BY <1>1 DEF VirtInv, V!NoRtm
<1>3. s \in 0 .. CacheEnts - 1
  BY <1>1, <1>2 DEF SlotsGood
<1>4. PICK e : e = rtm.cache[s].idx
  OBVIOUS
<1>5. e \in Nat /\ e - lay.min + 1 \in 1 .. Len(lay.bases)
      /\ (rtm.cache[s].off = lay.bases[e - lay.min + 1] \/ e \in moved)
  BY <1>1, <1>2, <1>3, <1>4 DEF SlotsGood
<1>6. rtm.min = lay.min /\ rtm.max = lay.min + Len(lay.bases) - 1 /\ lay.min \in Nat /\ Len(lay.bases) \in Nat
  BY <1>2 DEF Mapped, LayOk
<1>7. e \in rtm.min .. rtm.max
  BY <1>5, <1>6
<1> QED BY <1>4, <1>5, <1>7 DEF V!it_range

(* XlateExact: a translation is the byte that the concatenation of the     *)
(* sources has at the offset, whatever fsl_virt_cache_find found or        *)
(* CacheUpdate evicted before.                                             *)
THEOREM TranslationsAreExact == RtSpec => []XlateExact
<1>1. VirtInv => XlateExact
  BY SlotsSound DEF VirtInv, XlateExact
<1> QED BY <1>1, VirtInvariance, PTL

(* NthTiles: the objects fsl_virt_get_nth finds lie one behind the other   *)
(* in the range; who asks in order never meets "Accessing past virt bits", *)
(* and meets "Discontiguous getLocal" exactly at a split header.           *)
THEOREM ObjectsTile == RtSpec => []NthTiles
<1>1. VirtInv => NthTiles
  BY TilesHold, WalkSafe DEF NthTiles
<1> QED BY <1>1, VirtInvariance, PTL
=============================================================================
