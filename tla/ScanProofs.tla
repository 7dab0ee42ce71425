----------------------------- MODULE ScanProofs -----------------------------
(***************************************************************************)
(* Proofs about the scanner: for any objects, however they contain and     *)
(* point to each other, and any verdicts of the callbacks, the stack       *)
(* machine accounts for its frames and its type_infos.                     *)
(***************************************************************************)
EXTENDS Scan, WellFoundedInduction, FiniteSetTheorems, SequenceTheorems, TLAPS

-----------------------------------------------------------------------------
(* Chains. *)

Pre(C, l) == SubSeq(C, 1, l)

(* A type_info and those it was reached through. *)
Above(C) == {Pre(C, l) : l \in 1 .. Len(C)}

LEMMA PreIs ==
    ASSUME NEW C \in Seq(Obj), NEW l \in 0 .. Len(C)
    PROVE  /\ Pre(C, l) \in Seq(Obj) /\ Len(Pre(C, l)) = l /\ l \in Nat
           /\ \A i \in 1 .. l : Pre(C, l)[i] = C[i]
           /\ l = 0 => Pre(C, l) = <<>>
           /\ l = Len(C) => Pre(C, l) = C
<1>1. \A i \in 1 .. l : C[i] \in Obj
  OBVIOUS
<1>2. /\ SubSeq(C, 1, l) \in Seq(Obj)
      /\ Len(SubSeq(C, 1, l)) = IF 1 <= l THEN l - 1 + 1 ELSE 0
      /\ \A i \in 1 .. l - 1 + 1 : SubSeq(C, 1, l)[i] = C[1 + i - 1]
  BY <1>1, SubSeqProperties
<1> QED BY <1>2, SubSeqFull, SubSeqEmpty DEF Pre

LEMMA SameSeq ==
    ASSUME NEW s \in Seq(Obj), NEW t \in Seq(Obj), Len(s) = Len(t), \A i \in 1 .. Len(s) : s[i] = t[i]
    PROVE  s = t
OBVIOUS

LEMMA PreOfPre ==
    ASSUME NEW C \in Seq(Obj), NEW l \in 0 .. Len(C), NEW k \in 0 .. l
    PROVE  Pre(Pre(C, l), k) = Pre(C, k)
<1>1. k \in 0 .. Len(C) /\ Pre(C, l) \in Seq(Obj) /\ Len(Pre(C, l)) = l /\ \A i \in 1 .. l : Pre(C, l)[i] = C[i]
  BY PreIs
<1>2. Pre(C, k) \in Seq(Obj) /\ Len(Pre(C, k)) = k /\ \A i \in 1 .. k : Pre(C, k)[i] = C[i]
  BY <1>1, PreIs
<1>3. /\ Pre(Pre(C, l), k) \in Seq(Obj) /\ Len(Pre(Pre(C, l), k)) = k
      /\ \A i \in 1 .. k : Pre(Pre(C, l), k)[i] = Pre(C, l)[i]
  BY <1>1, PreIs
<1>4. \A i \in 1 .. k : Pre(Pre(C, l), k)[i] = Pre(C, k)[i]
  BY <1>1, <1>2, <1>3
<1> QED BY <1>2, <1>3, <1>4, SameSeq

LEMMA FrontIs ==
    ASSUME NEW C \in Seq(Obj), C # <<>>
    PROVE  Front(C) = Pre(C, Len(C) - 1) /\ Front(C) \in Seq(Obj) /\ Len(Front(C)) = Len(C) - 1 /\ Len(C) \in Nat \ {0}
<1>1. Len(C) \in Nat \ {0}
  OBVIOUS
<1>2. Front(C) = Pre(C, Len(C) - 1)
  BY DEF Front, Pre
<1> QED BY <1>1, <1>2, PreIs

LEMMA Grown ==
    ASSUME NEW C \in Seq(Obj), NEW o \in Obj
    PROVE  /\ Append(C, o) \in Seq(Obj) /\ Len(Append(C, o)) = Len(C) + 1 /\ Append(C, o) # <<>>
           /\ Append(C, o)[Len(C) + 1] = o /\ \A i \in 1 .. Len(C) : Append(C, o)[i] = C[i]
           /\ \A l \in 0 .. Len(C) : Pre(Append(C, o), l) = Pre(C, l)
           /\ Front(Append(C, o)) = C
<1> DEFINE D == Append(C, o)
<1>1. /\ D \in Seq(Obj) /\ Len(D) = Len(C) + 1 /\ D[Len(C) + 1] = o
      /\ \A i \in 1 .. Len(C) : D[i] = C[i]
  OBVIOUS
<1>2. D # <<>> /\ Len(C) \in Nat
  BY <1>1
<1> HIDE DEF D
<1>3. ASSUME NEW l \in 0 .. Len(C) PROVE Pre(D, l) = Pre(C, l)
  <2>1. l \in 0 .. Len(D)
    BY <1>1, <1>2
  <2>2. Pre(D, l) \in Seq(Obj) /\ Len(Pre(D, l)) = l /\ \A i \in 1 .. l : Pre(D, l)[i] = D[i]
    BY <1>1, <2>1, PreIs
  <2>3. Pre(C, l) \in Seq(Obj) /\ Len(Pre(C, l)) = l /\ \A i \in 1 .. l : Pre(C, l)[i] = C[i]
    BY PreIs
  <2>4. \A i \in 1 .. l : Pre(D, l)[i] = Pre(C, l)[i]
    BY <1>1, <2>2, <2>3
  <2> QED BY <2>2, <2>3, <2>4, SameSeq
<1>4. Front(D) = Pre(D, Len(C)) /\ Pre(C, Len(C)) = C
  BY <1>1, <1>2, FrontIs, PreIs
<1> QED BY <1>1, <1>2, <1>3, <1>4 DEF D

Simple(C) == \A i, j \in 1 .. Len(C) : i # j => C[i] # C[j]

LEMMA UpTo ==
    ASSUME NEW n \in Nat
    PROVE  IsFiniteSet(1 .. n) /\ Cardinality(1 .. n) = n
<1>1. IsFiniteSet(1 .. n) /\ Cardinality(1 .. n) = IF 1 > n THEN 0 ELSE n - 1 + 1
  BY FS_Interval
<1>2. (IF 1 > n THEN 0 ELSE n - 1 + 1) = n
  OBVIOUS
<1> QED BY <1>1, <1>2

(* What never names an object twice is no longer than there are objects. *)
LEMMA Short ==
    ASSUME NEW C \in Seq(Obj), Simple(C)
    PROVE  Len(C) \in Nat /\ Len(C) <= Cardinality(Obj) /\ Cardinality(Obj) \in Nat
<1>1. Len(C) \in Nat /\ C \in [1 .. Len(C) -> Obj]
  OBVIOUS
<1>2. C \in Injection(1 .. Len(C), Obj)
  BY <1>1 DEF Simple, Injection, IsInjective
<1>3. IsFiniteSet(Obj)
  BY ScanAssumption
<1>4. Cardinality(1 .. Len(C)) <= Cardinality(Obj)
  BY <1>2, <1>3, FS_Injection
<1>5. Cardinality(1 .. Len(C)) = Len(C)
  BY <1>1, UpTo
<1> QED BY <1>1, <1>3, <1>4, <1>5, FS_CardinalityType

LEMMA Longer ==
    ASSUME NEW C \in Seq(Obj), Simple(C), NEW o \in Obj, ~ti_has_loop(Append(C, o))
    PROVE  Simple(Append(C, o))
<1> DEFINE D == Append(C, o)
<1>1. /\ Len(D) = Len(C) + 1 /\ D[Len(C) + 1] = o /\ \A i \in 1 .. Len(C) : D[i] = C[i]
      /\ Len(C) \in Nat
  BY Grown
<1>2. Last(D) = o
  BY <1>1 DEF Last
<1>3. \A i \in 1 .. Len(C) : D[i] # o
  BY <1>1, <1>2 DEF ti_has_loop
<1> HIDE DEF D
<1>4. \A i \in 1 .. Len(D) : i \in 1 .. Len(C) \/ i = Len(C) + 1
  BY <1>1
<1>5. Simple(D)
  BY <1>1, <1>3, <1>4 DEF Simple
<1> QED BY <1>5 DEF D

-----------------------------------------------------------------------------
(* Reference counts: every type_info a frame was made for has its frame    *)
(* and the type_info reached through it, the first one the caller too.     *)

Count(C, l) ==
    (IF l = 1 THEN 1 ELSE 0) + (IF l <= Len(C) THEN 1 ELSE 0) + (IF l < Len(C) THEN 1 ELSE 0)
RefsOf(C) == [t \in {RootTi} \cup Above(C) |-> Count(C, Len(t))]

(* A chain that starts with the root. *)
Rooted(C) == C \in Seq(Obj) /\ (C # <<>> => C[1] = Root)

LEMMA RootIs == RootTi \in Seq(Obj) /\ Len(RootTi) = 1 /\ Rooted(RootTi) /\ Rooted(<<>>) /\ Root \in Obj
BY ScanAssumption DEF RootTi, Rooted

LEMMA RootPrefix ==
    ASSUME NEW C, Rooted(C), C # <<>>
    PROVE  RootTi = Pre(C, 1) /\ RootTi \in Above(C) /\ Len(C) \in Nat \ {0}
<1>1. C \in Seq(Obj) /\ C[1] = Root /\ Len(C) \in Nat \ {0}
  BY DEF Rooted
<1>2. Pre(C, 1) \in Seq(Obj) /\ Len(Pre(C, 1)) = 1 /\ Pre(C, 1)[1] = C[1]
  <2>1. ASSUME NEW l \in 0 .. Len(C), l = 1
        PROVE  Pre(C, l) \in Seq(Obj) /\ Len(Pre(C, l)) = 1 /\ Pre(C, l)[1] = C[1]
    <3>1. Pre(C, l) \in Seq(Obj) /\ Len(Pre(C, l)) = l /\ \A i \in 1 .. l : Pre(C, l)[i] = C[i]
      BY <1>1, PreIs
    <3>2. 1 \in 1 .. l
      BY <2>1
    <3> QED BY <2>1, <3>1, <3>2
  <2>2. 1 \in 0 .. Len(C)
    BY <1>1
  <2> QED BY <2>1, <2>2
<1>3. RootTi[1] = Root
  BY DEF RootTi
<1>4. \A i \in 1 .. 1 : RootTi[i] = Pre(C, 1)[i]
  BY <1>1, <1>2, <1>3
<1>5. RootTi = Pre(C, 1)
  BY <1>2, <1>4, RootIs, SameSeq
<1> QED BY <1>1, <1>5 DEF Above

(* The members of a chain, by their length. *)
LEMMA PrefixIs ==
    ASSUME NEW C, Rooted(C), NEW t \in {RootTi} \cup Above(C)
    PROVE  /\ Len(t) \in Nat \ {0} /\ t \in Seq(Obj)
           /\ C # <<>> => Len(t) \in 1 .. Len(C) /\ t = Pre(C, Len(t))
           /\ C = <<>> => t = RootTi
<1>1. CASE C = <<>>
  <2>1. Above(C) = {}
    BY <1>1 DEF Above
  <2> QED BY <1>1, <2>1, RootIs
<1>2. CASE C # <<>>
  <2>1. t \in Above(C) /\ C \in Seq(Obj)
    BY <1>2, RootPrefix DEF Rooted
  <2>2. PICK l \in 1 .. Len(C) : t = Pre(C, l)
    BY <2>1 DEF Above
  <2>3. Len(t) = l /\ t \in Seq(Obj) /\ l \in Nat
    BY <2>1, <2>2, PreIs
  <2> QED BY <1>2, <2>2, <2>3
<1> QED BY <1>1, <1>2

LEMMA AboveGrows ==
    ASSUME NEW C \in Seq(Obj), NEW o \in Obj
    PROVE  Above(Append(C, o)) = Above(C) \cup {Append(C, o)}
<1> DEFINE D == Append(C, o)
<1>1. D \in Seq(Obj) /\ Len(D) = Len(C) + 1 /\ \A l \in 0 .. Len(C) : Pre(D, l) = Pre(C, l)
  BY Grown
<1>2. Pre(D, Len(C) + 1) = D /\ Len(C) \in Nat
  <2>1. Len(D) \in 0 .. Len(D) /\ Len(C) \in Nat
    BY <1>1
  <2>2. Pre(D, Len(D)) = D
    BY <1>1, <2>1, PreIs
  <2> QED BY <1>1, <2>1, <2>2
<1> HIDE DEF D
<1>3. ASSUME NEW t \in Above(D) PROVE t \in Above(C) \cup {D}
  <2>1. PICK l \in 1 .. Len(D) : t = Pre(D, l)
    BY <1>3 DEF Above
  <2>2. CASE l = Len(C) + 1
    BY <1>2, <2>1, <2>2
  <2>3. CASE l # Len(C) + 1
    <3>1. l \in 1 .. Len(C) /\ l \in 0 .. Len(C)
      BY <1>1, <1>2, <2>1, <2>3
    <3> QED BY <1>1, <2>1, <3>1 DEF Above
  <2> QED BY <2>2, <2>3
<1>4. ASSUME NEW t \in Above(C) PROVE t \in Above(D)
  <2>1. PICK l \in 1 .. Len(C) : t = Pre(C, l)
    BY <1>4 DEF Above
  <2>2. l \in 0 .. Len(C) /\ l \in 1 .. Len(D)
    BY <1>1, <1>2, <2>1
  <2>3. t = Pre(D, l)
    BY <1>1, <2>1, <2>2
  <2> QED BY <2>2, <2>3 DEF Above
<1>5. D \in Above(D)
  <2>1. Len(C) + 1 \in 1 .. Len(D)
    BY <1>1, <1>2
  <2> QED BY <1>2, <2>1 DEF Above
<1>6. Above(D) = Above(C) \cup {D}
  BY <1>3, <1>4, <1>5
<1> QED BY <1>6 DEF D

(* typeinfo_alloc_generic of a new object behind the chain. *)
LEMMA RefsGrow ==
    ASSUME NEW C, Rooted(C), C # <<>>, NEW o \in Obj
    PROVE  typeinfo_alloc_generic(RefsOf(C), Append(C, o)) = RefsOf(Append(C, o)) /\ Rooted(Append(C, o))
<1> DEFINE D == Append(C, o)
           P == {RootTi} \cup Above(C)
           Q == {RootTi} \cup Above(D)
           g == typeinfo_alloc_generic(RefsOf(C), D)
<1>1. /\ C \in Seq(Obj) /\ D \in Seq(Obj) /\ Len(D) = Len(C) + 1 /\ D # <<>> /\ Front(D) = C
      /\ \A i \in 1 .. Len(C) : D[i] = C[i]
  BY Grown DEF Rooted
<1>2. Above(D) = Above(C) \cup {D} /\ Len(C) \in Nat \ {0} /\ RootTi \in Above(C)
  BY <1>1, AboveGrows, RootPrefix
<1>3. C \in Above(C)
  <2>1. Pre(C, Len(C)) = C /\ Len(C) \in 1 .. Len(C)
    BY <1>1, <1>2, PreIs
  <2> QED BY <2>1 DEF Above
<1>4. Rooted(D)
  BY <1>1, <1>2 DEF Rooted
<1>5. \A t \in P : Len(t) \in 1 .. Len(C) /\ t \in Seq(Obj)
  BY PrefixIs
<1>6. DOMAIN RefsOf(C) = P /\ \A t \in P : RefsOf(C)[t] = Count(C, Len(t))
  BY DEF RefsOf
<1>7. DOMAIN SetToBag({D, C}) = {D, C} /\ \A t \in {D, C} : SetToBag({D, C})[t] = 1
  BY DEF SetToBag
<1> HIDE DEF D
<1>8. g = RefsOf(C) (+) SetToBag({D, C})
  BY <1>1 DEF typeinfo_alloc_generic
<1>9. g = [t \in P \cup {D, C} |-> (IF t \in P THEN Count(C, Len(t)) ELSE 0) + (IF t \in {D, C} THEN 1 ELSE 0)]
  BY <1>6, <1>7, <1>8 DEF (+)
<1>10. P \cup {D, C} = Q
  BY <1>2, <1>3
<1>11. ASSUME NEW t \in Q
       PROVE  (IF t \in P THEN Count(C, Len(t)) ELSE 0) + (IF t \in {D, C} THEN 1 ELSE 0) = Count(D, Len(t))
  <2>1. D \notin P
    BY <1>1, <1>2, <1>5
  <2>2. CASE t = D
    BY <1>1, <1>2, <2>1, <2>2 DEF Count
  <2>3. CASE t = C
    BY <1>1, <1>2, <1>3, <2>3 DEF Count
  <2>4. CASE t \notin {D, C}
    <3>1. t \in P
      BY <1>2, <2>4
    <3>2. Len(t) \in 1 .. Len(C) /\ Len(t) # Len(C)
      <4>1. Len(t) = Len(C) => t = Pre(C, Len(C))
        BY <1>2, <3>1, PrefixIs
      <4>2. Pre(C, Len(C)) = C
        BY <1>1, <1>2, PreIs
      <4> QED BY <1>5, <2>4, <3>1, <4>1, <4>2
    <3> QED BY <1>1, <1>2, <2>4, <3>1, <3>2 DEF Count
  <2> QED BY <2>2, <2>3, <2>4
<1>12. g = RefsOf(D)
  <2> HIDE DEF P, Q, g
  <2>1. RefsOf(D) = [t \in Q |-> Count(D, Len(t))]
    BY DEF RefsOf, Q
  <2> QED BY <1>9, <1>10, <1>11, <2>1
<1> QED BY <1>4, <1>12 DEF D

LEMMA AboveFront ==
    ASSUME NEW D \in Seq(Obj), D # <<>>
    PROVE  Above(D) = Above(Front(D)) \cup {D}
<1> DEFINE C == Front(D)
<1>1. C = Pre(D, Len(D) - 1) /\ C \in Seq(Obj) /\ Len(C) = Len(D) - 1 /\ Len(D) \in Nat \ {0}
  BY FrontIs
<1>2. D[Len(D)] \in Obj
  BY <1>1
<1> DEFINE E == Append(C, D[Len(D)])
<1>3. E \in Seq(Obj) /\ Len(E) = Len(D) /\ E[Len(D)] = D[Len(D)] /\ \A i \in 1 .. Len(C) : E[i] = C[i]
  <2> HIDE DEF C
  <2> QED BY <1>1, <1>2, Grown
<1>4. \A i \in 1 .. Len(C) : C[i] = D[i]
  <2>1. ASSUME NEW l \in 0 .. Len(D) PROVE \A i \in 1 .. l : Pre(D, l)[i] = D[i]
    BY PreIs
  <2>2. Len(D) - 1 \in 0 .. Len(D)
    BY <1>1
  <2> HIDE DEF C
  <2> QED BY <1>1, <2>1, <2>2
<1>5. \A i \in 1 .. Len(E) : E[i] = D[i]
  <2> HIDE DEF C, E
  <2>1. \A i \in 1 .. Len(E) : i \in 1 .. Len(C) \/ i = Len(D)
    BY <1>1, <1>3
  <2> QED BY <1>3, <1>4, <2>1
<1>6. E = D
  <2> HIDE DEF C, E
  <2> QED BY <1>3, <1>5, SameSeq
<1>7. Above(E) = Above(C) \cup {E}
  <2> HIDE DEF C
  <2> QED BY <1>1, <1>2, AboveGrows
<1> QED BY <1>6, <1>7

(* typeinfo_free of the last object of the chain. *)
LEMMA RefsShrink ==
    ASSUME NEW D, Rooted(D), D # <<>>
    PROVE  typeinfo_free(RefsOf(D), D) = RefsOf(Front(D)) /\ Rooted(Front(D))
<1> DEFINE C == Front(D)
           r == RefsOf(D)
           K == {k \in 1 .. Len(D) : \A m \in k + 1 .. Len(D) : r[Pre(D, m)] = 1}
           X == {Pre(D, k) : k \in K}
           P == {RootTi} \cup Above(C)
           Q == {RootTi} \cup Above(D)
<1>1. D \in Seq(Obj) /\ C = Pre(D, Len(D) - 1) /\ C \in Seq(Obj) /\ Len(C) = Len(D) - 1 /\ Len(D) \in Nat \ {0}
  BY FrontIs DEF Rooted
<1>2. Above(D) = Above(C) \cup {D} /\ RootTi \in Above(D)
  BY <1>1, AboveFront, RootPrefix
<1>3. \A l \in 1 .. Len(D) : /\ Pre(D, l) \in Seq(Obj) /\ Len(Pre(D, l)) = l /\ l \in Nat /\ Pre(D, l)[1] = D[1]
                            /\ Pre(D, l) \in Q /\ r[Pre(D, l)] = Count(D, l) /\ (l = Len(D) => Pre(D, l) = D)
  <2> SUFFICES ASSUME NEW l \in 1 .. Len(D)
               PROVE  /\ Pre(D, l) \in Seq(Obj) /\ Len(Pre(D, l)) = l /\ l \in Nat /\ Pre(D, l)[1] = D[1]
                      /\ Pre(D, l) \in Q /\ r[Pre(D, l)] = Count(D, l) /\ (l = Len(D) => Pre(D, l) = D)
    OBVIOUS
  <2>1. l \in 0 .. Len(D) /\ 1 \in 1 .. l
    BY <1>1
  <2>2. Pre(D, l) \in Seq(Obj) /\ Len(Pre(D, l)) = l /\ l \in Nat /\ Pre(D, l)[1] = D[1] /\ (l = Len(D) => Pre(D, l) = D)
    BY <1>1, <2>1, PreIs
  <2>3. Pre(D, l) \in Q
    BY DEF Above
  <2> QED BY <2>2, <2>3 DEF RefsOf
<1>4. Rooted(C)
  <2>1. ASSUME C # <<>> PROVE C[1] = Root
    <3>1. Len(D) - 1 \in 1 .. Len(D)
      BY <1>1, <2>1
    <3> QED BY <1>1, <1>3, <3>1 DEF Rooted
  <2> QED BY <1>1, <2>1 DEF Rooted
<1>5. K = {k \in 1 .. Len(D) : k >= Len(D) - 1}
  <2>1. ASSUME NEW k \in 1 .. Len(D), k >= Len(D) - 1, NEW m \in k + 1 .. Len(D) PROVE r[Pre(D, m)] = 1
    <3>1. m \in 1 .. Len(D) /\ m = Len(D) /\ m # 1
      BY <1>1, <2>1
    <3>2. r[Pre(D, m)] = Count(D, m)
      BY <1>3, <3>1
    <3> QED BY <1>1, <3>1, <3>2 DEF Count
  <2>2. ASSUME NEW k \in 1 .. Len(D), ~(k >= Len(D) - 1) PROVE \E m \in k + 1 .. Len(D) : r[Pre(D, m)] # 1
    <3>1. k + 1 \in 1 .. Len(D) /\ k + 1 < Len(D) /\ k + 1 \in k + 1 .. Len(D)
      BY <1>1, <2>2
    <3>2. r[Pre(D, k + 1)] = Count(D, k + 1)
      BY <1>3, <3>1
    <3>3. Count(D, k + 1) # 1
      BY <1>1, <3>1 DEF Count
    <3> QED BY <3>1, <3>2, <3>3
  <2> HIDE DEF r
  <2> QED BY <2>1, <2>2
<1>6. \A t \in Q : t \in X <=> Len(t) >= Len(D) - 1
  <2>1. ASSUME NEW t \in Q PROVE Len(t) \in 1 .. Len(D) /\ t = Pre(D, Len(t))
    BY PrefixIs
  <2>2. \A t \in X : t \in Q /\ Len(t) >= Len(D) - 1
    <3> HIDE DEF r, Q, K
    <3>1. \A k \in K : k \in 1 .. Len(D) /\ k >= Len(D) - 1
      BY <1>5
    <3> QED BY <1>3, <3>1
  <2>3. ASSUME NEW t \in Q, Len(t) >= Len(D) - 1 PROVE t \in X
    <3>1. Len(t) \in K
      BY <1>5, <2>1, <2>3
    <3> HIDE DEF K
    <3> QED BY <2>1, <2>3, <3>1
  <2> QED BY <2>2, <2>3
<1>7. typeinfo_free(r, D) = r (-) SetToBag(X)
  BY DEF typeinfo_free, Pre
<1>8. DOMAIN r = Q /\ \A t \in Q : r[t] = Count(D, Len(t))
  BY DEF RefsOf
<1>9. DOMAIN SetToBag(X) = X /\ \A t \in X : SetToBag(X)[t] = 1
  BY DEF SetToBag
<1>10. \A t \in Q : Len(t) \in 1 .. Len(D) /\ (Len(t) = Len(D) => t = D) /\ (Len(t) = 1 => t = RootTi)
  <2> SUFFICES ASSUME NEW t \in Q PROVE Len(t) \in 1 .. Len(D) /\ (Len(t) = Len(D) => t = D) /\ (Len(t) = 1 => t = RootTi)
    OBVIOUS
  <2>1. Len(t) \in 1 .. Len(D) /\ t = Pre(D, Len(t))
    BY PrefixIs
  <2>2. Len(D) \in 1 .. Len(D) /\ RootTi = Pre(D, 1)
    BY <1>1, RootPrefix
  <2> QED BY <1>3, <2>1, <2>2
<1> DEFINE B == [e \in DOMAIN r |-> IF e \in DOMAIN SetToBag(X) THEN r[e] - SetToBag(X)[e] ELSE r[e]]
<1>11. r (-) SetToBag(X) = [e \in {d \in DOMAIN B : B[d] > 0} |-> B[e]]
  BY DEF (-)
<1>12. DOMAIN B = Q /\ \A t \in Q : B[t] = Count(D, Len(t)) - (IF Len(t) >= Len(D) - 1 THEN 1 ELSE 0)
  <2> HIDE DEF r, X, Q
  <2>1. \A t \in Q : B[t] = IF t \in X THEN r[t] - 1 ELSE r[t]
    BY <1>8, <1>9
  <2>2. \A t \in Q : Count(D, Len(t)) \in Int
    BY DEF Count
  <2> QED BY <1>6, <1>8, <2>1, <2>2
<1>13. \A t \in Q : /\ (B[t] > 0 <=> t \in P) /\ (t \in P => B[t] = Count(C, Len(t)))
  <2> SUFFICES ASSUME NEW t \in Q PROVE (B[t] > 0 <=> t \in P) /\ (t \in P => B[t] = Count(C, Len(t)))
    OBVIOUS
  <2>1. Len(t) \in 1 .. Len(D) /\ (Len(t) = Len(D) => t = D) /\ (Len(t) = 1 => t = RootTi)
    BY <1>10
  <2>2. B[t] = Count(D, Len(t)) - (IF Len(t) >= Len(D) - 1 THEN 1 ELSE 0)
    BY <1>12
  <2>3. t \in P <=> Len(t) < Len(D) \/ Len(t) = 1
    <3>1. t \in Above(C) => Len(t) < Len(D)
      <4>1. \A l \in 1 .. Len(C) : l \in 0 .. Len(C) /\ l < Len(D)
        BY <1>1
      <4>2. \A l \in 1 .. Len(C) : Len(Pre(C, l)) = l
        BY <1>1, <4>1, PreIs
      <4> QED BY <4>1, <4>2 DEF Above
    <3>2. Len(RootTi) = 1
      BY RootIs
    <3> QED BY <1>1, <1>2, <2>1, <3>1, <3>2
  <2> HIDE DEF B, P, Q, C
  <2> QED BY <1>1, <2>1, <2>2, <2>3 DEF Count
<1>14. {d \in DOMAIN B : B[d] > 0} = P
  <2>1. P \subseteq Q
    BY <1>2
  <2> HIDE DEF B, P, Q
  <2> QED BY <1>12, <1>13, <2>1
<1>15. r (-) SetToBag(X) = [t \in P |-> Count(C, Len(t))]
  <2>1. P \subseteq Q
    BY <1>2
  <2> HIDE DEF B, P, Q, C, r, X
  <2> QED BY <1>11, <1>13, <1>14, <2>1
<1> QED BY <1>4, <1>7, <1>15 DEF RefsOf

(* A scan begins with the reference of the caller. *)
LEMMA RefsBegin ==
    /\ SetToBag({RootTi}) = RefsOf(<<>>)
    /\ RefsOf(<<>>) (+) SetToBag({RootTi}) = RefsOf(RootTi)
    /\ typeinfo_free(RefsOf(RootTi), RootTi) = RefsOf(<<>>)
<1>1. Above(<<>>) = {} /\ Len(<<>>) = 0
  BY DEF Above
<1>2. RootTi # <<>> /\ RootTi \in Seq(Obj) /\ Len(RootTi) = 1
  BY RootIs DEF RootTi
<1>3. Above(RootTi) = {RootTi} /\ Front(RootTi) = <<>>
  <2>1. Front(RootTi) = Pre(RootTi, 0) /\ 0 \in 0 .. 1
    BY <1>2, FrontIs
  <2>2. Front(RootTi) = <<>>
    BY <1>2, <2>1, PreIs
  <2> QED BY <1>1, <1>2, <2>2, AboveFront
<1>4. RefsOf(<<>>) = [t \in {RootTi} |-> 1]
  <2>1. \A t \in {RootTi} : Count(<<>>, Len(t)) = 1
    BY <1>1, <1>2 DEF Count
  <2> QED BY <1>1, <2>1 DEF RefsOf
<1>5. RefsOf(RootTi) = [t \in {RootTi} |-> 2]
  <2>1. Count(RootTi, 1) = 2
    BY <1>2 DEF Count
  <2> QED BY <1>2, <1>3, <2>1 DEF RefsOf
<1>6. RefsOf(<<>>) (+) SetToBag({RootTi}) = [t \in {RootTi} |-> 2]
  <2>1. DOMAIN RefsOf(<<>>) = {RootTi} /\ RefsOf(<<>>)[RootTi] = 1
    BY <1>4
  <2>2. DOMAIN SetToBag({RootTi}) = {RootTi} /\ SetToBag({RootTi})[RootTi] = 1
    BY DEF SetToBag
  <2> DEFINE a == RefsOf(<<>>)
             b == SetToBag({RootTi})
  <2>3. a (+) b = [e \in DOMAIN a \cup DOMAIN b |-> (IF e \in DOMAIN a THEN a[e] ELSE 0) + (IF e \in DOMAIN b THEN b[e] ELSE 0)]
    BY DEF (+)
  <2>4. DOMAIN a = {RootTi} /\ a[RootTi] = 1 /\ DOMAIN b = {RootTi} /\ b[RootTi] = 1
    BY <2>1, <2>2
  <2> HIDE DEF a, b
  <2>5. a (+) b = [t \in {RootTi} |-> 2]
    BY <2>3, <2>4
  <2> QED BY <2>5 DEF a, b
<1>7. typeinfo_free(RefsOf(RootTi), RootTi) = RefsOf(<<>>)
  BY <1>2, <1>3, RefsShrink, RootIs
<1> QED BY <1>4, <1>5, <1>6, <1>7 DEF SetToBag

-----------------------------------------------------------------------------
(* Frames. *)

LEMMA Smallest ==
    ASSUME NEW T, T \subseteq Nat, T # {}
    PROVE  \E x \in T : \A y \in T : x <= y
<1> DEFINE R == {ss \in Nat \X Nat : ss[1] < ss[2]}
<1>1. IsWellFoundedOn(R, Nat)
  BY NatLessThanWellFounded DEF OpToRel
<1>2. \A x, y \in Nat : y < x => <<y, x>> \in R
  OBVIOUS
<1> HIDE DEF R
<1>3. \E x \in T : \A y \in T : <<y, x>> \notin R
  BY <1>1, WFMin
<1>4. PICK x \in T : \A y \in T : <<y, x>> \notin R
  BY <1>3
<1>5. \A y \in T : ~(y < x)
  BY <1>2, <1>4
<1> QED BY <1>5

(* The n frames linked from one on, the last of them first. *)
IsList(q, n, first) ==
    /\ n \in Nat /\ q \in [1 .. n -> Ids]
    /\ \A i, j \in 1 .. n : i # j => q[i] # q[j]
    /\ first = IF n = 0 THEN 0 ELSE q[n]
    /\ \A i \in 1 .. n : mem[q[i]].next = IF i = 1 THEN 0 ELSE q[i - 1]

Members(q, n) == {q[i] : i \in 1 .. n}

(* Distinct frames are no more than the heap has. *)
LEMMA ListShort ==
    ASSUME NEW q, NEW n, NEW first, IsList(q, n, first)
    PROVE  n <= MaxFrames /\ n \in Nat /\ MaxFrames \in Nat
<1>1. n \in Nat /\ MaxFrames \in Nat /\ q \in [1 .. n -> 1 .. MaxFrames]
  BY ScanAssumption DEF IsList, Ids
<1>2. q \in Injection(1 .. n, 1 .. MaxFrames)
  BY <1>1 DEF IsList, Injection, IsInjective
<1>3. IsFiniteSet(1 .. MaxFrames) /\ Cardinality(1 .. MaxFrames) = MaxFrames /\ Cardinality(1 .. n) = n
  BY <1>1, UpTo
<1>4. Cardinality(1 .. n) <= Cardinality(1 .. MaxFrames)
  BY <1>2, <1>3, FS_Injection
<1> QED BY <1>1, <1>3, <1>4

(* Following the links of a list meets its members. *)
LEMMA ListLinked ==
    ASSUME NEW q, NEW n, NEW first, IsList(q, n, first)
    PROVE  Linked(first) = Members(q, n)
<1> DEFINE Visit(f, k) == IF k = 0 THEN first
                          ELSE LET i == f[k - 1] IN IF i = 0 THEN 0 ELSE mem[i].next
           Body(f) == [k \in 0 .. MaxFrames |-> Visit(f, k)]
           nth == CHOOSE f : f = Body(f)
           g == [k \in 0 .. MaxFrames |-> IF k < n THEN q[n - k] ELSE 0]
<1>1. Linked(first) = {nth[k] : k \in 0 .. MaxFrames} \ {0}
  BY Zenon DEF Linked
<1>2. n <= MaxFrames /\ n \in Nat /\ MaxFrames \in Nat
  BY ListShort
<1>3. \A i \in 1 .. n : q[i] \in 1 .. MaxFrames /\ q[i] # 0
  BY <1>2 DEF IsList, Ids
<1>4. ASSUME NEW k \in 0 .. MaxFrames, NEW f, k # 0 => f[k - 1] = g[k - 1] PROVE Visit(f, k) = g[k]
  <2>1. CASE k = 0
    BY <1>2, <2>1 DEF IsList
  <2>2. CASE k # 0 /\ k - 1 < n
    <3>1. f[k - 1] = q[n - (k - 1)] /\ n - (k - 1) \in 1 .. n
      BY <1>2, <1>4, <2>2
    <3>2. f[k - 1] # 0 /\ mem[f[k - 1]].next = IF n - (k - 1) = 1 THEN 0 ELSE q[n - (k - 1) - 1]
      BY <1>3, <3>1 DEF IsList
    <3>3. n - (k - 1) - 1 = n - k /\ (n - (k - 1) = 1 <=> ~(k < n))
      BY <1>2, <2>2
    <3>4. Visit(f, k) = IF k < n THEN q[n - k] ELSE 0
      BY <2>2, <3>2, <3>3
    <3> QED BY <3>4
  <2>3. CASE k # 0 /\ ~(k - 1 < n)
    <3>1. f[k - 1] = 0 /\ ~(k < n)
      BY <1>2, <1>4, <2>3
    <3> QED BY <2>3, <3>1
  <2> QED BY <2>1, <2>2, <2>3
<1>5. g = Body(g)
  <2> HIDE DEF g, Visit
  <2>1. \A k \in 0 .. MaxFrames : g[k] = Visit(g, k)
    BY <1>4
  <2>2. g = [k \in 0 .. MaxFrames |-> g[k]]
    BY DEF g
  <2> QED BY <2>1, <2>2
<1>6. nth = Body(nth)
  <2> HIDE DEF g, Visit
  <2> QED BY <1>5
<1> HIDE DEF nth, Visit
<1>7. \A k \in 0 .. MaxFrames : nth[k] = Visit(nth, k)
  BY <1>6
<1>8. \A k \in 0 .. MaxFrames : nth[k] = g[k]
  <2> DEFINE S == {k \in 0 .. MaxFrames : nth[k] # g[k]}
  <2>1. SUFFICES ASSUME S # {} PROVE FALSE
    OBVIOUS
  <2>2. PICK k \in S : \A j \in S : k <= j
    <3>1. S \subseteq Nat
      OBVIOUS
    <3> HIDE DEF S
    <3> QED BY <2>1, <3>1, Smallest
  <2> HIDE DEF g
  <2>3. k \in 0 .. MaxFrames /\ nth[k] # g[k]
    BY <2>2
  <2>4. k # 0 => nth[k - 1] = g[k - 1]
    <3>1. ASSUME k # 0 PROVE k - 1 \in 0 .. MaxFrames /\ ~(k <= k - 1)
      BY <1>2, <2>3, <3>1
    <3> QED BY <2>2, <3>1
  <2>5. Visit(nth, k) = g[k]
    BY <1>4, <2>3, <2>4
  <2> QED BY <1>7, <2>3, <2>5
<1>9. {nth[k] : k \in 0 .. MaxFrames} \ {0} = {g[k] : k \in 0 .. MaxFrames} \ {0}
  <2> HIDE DEF g
  <2> QED BY <1>8
<1>10. ASSUME NEW x \in {g[k] : k \in 0 .. MaxFrames} \ {0} PROVE x \in Members(q, n)
  <2>1. PICK k \in 0 .. MaxFrames : k < n /\ x = q[n - k]
    OBVIOUS
  <2>2. n - k \in 1 .. n
    BY <1>2, <2>1
  <2> QED BY <2>1, <2>2 DEF Members
<1>11. ASSUME NEW x \in Members(q, n) PROVE x \in {g[k] : k \in 0 .. MaxFrames} \ {0}
  <2>1. PICK i \in 1 .. n : x = q[i]
    BY <1>11 DEF Members
  <2>2. n - i \in 0 .. MaxFrames /\ n - i < n /\ n - (n - i) = i
    BY <1>2, <2>1
  <2>3. g[n - i] = x
    BY <2>1, <2>2
  <2>4. x # 0
    BY <1>3, <2>1
  <2> HIDE DEF g
  <2> QED BY <2>2, <2>3, <2>4
<1> QED BY <1>1, <1>9, <1>10, <1>11

IsRecord(r) == r = [ops |-> r.ops, ti |-> r.ti, idx |-> r.idx, arg |-> r.arg, next |-> r.next]

(* The frames of the stack, S from the bottom, those of the free list, F,  *)
(* and the spare one are distinct, and all there is.                       *)
InUse(n, S, k, F) == Members(S, n) \cup Members(F, k) \cup {buf}

Apart(n, S, k, F) ==
    /\ \A i \in 1 .. n, j \in 1 .. k : S[i] # F[j]
    /\ \A i \in 1 .. n : S[i] # buf
    /\ \A j \in 1 .. k : F[j] # buf

Filled(n, S, k, F) ==
    /\ DOMAIN mem = Ids
    /\ \A i \in Ids : /\ IsRecord(mem[i])
                      /\ i \in InUse(n, S, k, F) => mem[i].ops # "unused"
                      /\ i \notin InUse(n, S, k, F) => mem[i] = Unused

Heap(n, S, k, F) ==
    /\ IsList(S, n, head) /\ IsList(F, k, sctx_stk_free) /\ buf \in Ids
    /\ Apart(n, S, k, F)
    /\ Filled(n, S, k, F)
    /\ n + k <= 3 * Cardinality(Obj)

(* They are no more than the lists are long, so a frame is left for malloc *)
(* when the free list is empty.                                            *)
LEMMA InUseBound ==
    ASSUME NEW n, NEW S, NEW k, NEW F, Heap(n, S, k, F)
    PROVE  /\ IsFiniteSet(InUse(n, S, k, F)) /\ Cardinality(InUse(n, S, k, F)) <= n + k + 1
           /\ Cardinality(InUse(n, S, k, F)) \in Nat /\ InUse(n, S, k, F) \subseteq Ids
           /\ n \in Nat /\ k \in Nat
<1>1. /\ n \in Nat /\ k \in Nat /\ S \in [1 .. n -> Ids] /\ F \in [1 .. k -> Ids] /\ buf \in Ids
      /\ n + k + 1 \in Nat
  BY DEF Heap, IsList
<1> DEFINE f == [i \in 1 .. n + k + 1 |-> IF i <= n THEN S[i] ELSE IF i <= n + k THEN F[i - n] ELSE buf]
           U == InUse(n, S, k, F)
<1>2. \A i \in 1 .. n + k + 1 : f[i] \in U
  <2> SUFFICES ASSUME NEW i \in 1 .. n + k + 1 PROVE f[i] \in U
    OBVIOUS
  <2>1. CASE i <= n
    <3>1. i \in 1 .. n
      BY <1>1, <2>1
    <3> QED BY <2>1, <3>1 DEF InUse, Members
  <2>2. CASE ~(i <= n) /\ i <= n + k
    <3>1. i - n \in 1 .. k
      BY <1>1, <2>2
    <3> QED BY <2>2, <3>1 DEF InUse, Members
  <2>3. CASE ~(i <= n) /\ ~(i <= n + k)
    BY <2>3 DEF InUse
  <2> QED BY <2>1, <2>2, <2>3
<1>3. \A x \in U : \E i \in 1 .. n + k + 1 : f[i] = x
  <2>1. ASSUME NEW i \in 1 .. n PROVE i \in 1 .. n + k + 1 /\ f[i] = S[i]
    BY <1>1
  <2>2. ASSUME NEW j \in 1 .. k PROVE j + n \in 1 .. n + k + 1 /\ f[j + n] = F[j]
    <3>1. j + n \in 1 .. n + k + 1 /\ ~(j + n <= n) /\ j + n <= n + k /\ (j + n) - n = j
      BY <1>1
    <3> QED BY <3>1
  <2>3. n + k + 1 \in 1 .. n + k + 1 /\ f[n + k + 1] = buf
    BY <1>1
  <2> HIDE DEF f
  <2> QED BY <2>1, <2>2, <2>3 DEF InUse, Members
<1>4. f \in Surjection(1 .. n + k + 1, U)
  <2>1. f \in [1 .. n + k + 1 -> U]
    BY <1>2
  <2> HIDE DEF f, U
  <2> QED BY <1>3, <2>1 DEF Surjection
<1>5. IsFiniteSet(1 .. n + k + 1) /\ Cardinality(1 .. n + k + 1) = n + k + 1
  BY <1>1, UpTo
<1>6. IsFiniteSet(U) /\ Cardinality(U) <= n + k + 1
  <2> HIDE DEF f, U
  <2> QED BY <1>4, <1>5, FS_Surjection
<1>7. U \subseteq Ids
  BY <1>1 DEF InUse, Members
<1> QED BY <1>1, <1>6, <1>7, FS_CardinalityType

LEMMA FrameLeft ==
    ASSUME NEW n, NEW S, NEW k, NEW F, Heap(n, S, k, F), n + k < 3 * Cardinality(Obj)
    PROVE  \E i \in Ids : i \notin InUse(n, S, k, F)
<1>1. Cardinality(Obj) \in Nat /\ MaxFrames \in Nat
  BY ScanAssumption, FS_CardinalityType
<1>2. Cardinality(Ids) = MaxFrames
  BY <1>1, UpTo DEF Ids
<1>3. Cardinality(InUse(n, S, k, F)) < MaxFrames
  <2> DEFINE c == Cardinality(InUse(n, S, k, F))
  <2>1. c \in Nat /\ c <= n + k + 1 /\ n \in Nat /\ k \in Nat
    BY InUseBound
  <2> HIDE DEF c
  <2>2. c < MaxFrames
    BY <1>1, <2>1, HeapAssumption
  <2> QED BY <2>2 DEF c
<1>4. SUFFICES ASSUME \A i \in Ids : i \in InUse(n, S, k, F) PROVE FALSE
  OBVIOUS
<1>5. InUse(n, S, k, F) = Ids
  BY <1>4, InUseBound
<1> QED BY <1>1, <1>2, <1>3, <1>5

Down(q, n)  == [i \in 1 .. n - 1 |-> q[i]]
Up(q, n, x) == [i \in 1 .. n + 1 |-> IF i = n + 1 THEN x ELSE q[i]]

LEMMA HeadIs ==
    ASSUME NEW n, NEW S, NEW k, NEW F, Heap(n, S, k, F)
    PROVE  /\ n \in Nat /\ k \in Nat /\ Cardinality(Obj) \in Nat
           /\ \A i \in 1 .. n : S[i] \in Ids /\ S[i] \in InUse(n, S, k, F)
           /\ \A j \in 1 .. k : F[j] \in Ids /\ F[j] \in InUse(n, S, k, F)
           /\ buf \in Ids /\ buf \in InUse(n, S, k, F)
           /\ 0 \notin Ids
           /\ n # 0 => n \in 1 .. n /\ head = S[n] /\ head \in Ids
           /\ n = 0 <=> head = 0
           /\ k # 0 => k \in 1 .. k /\ sctx_stk_free = F[k] /\ sctx_stk_free \in Ids
           /\ k = 0 <=> sctx_stk_free = 0
<1>1. /\ n \in Nat /\ k \in Nat /\ S \in [1 .. n -> Ids] /\ F \in [1 .. k -> Ids] /\ buf \in Ids
      /\ head = (IF n = 0 THEN 0 ELSE S[n]) /\ sctx_stk_free = (IF k = 0 THEN 0 ELSE F[k])
  BY DEF Heap, IsList
<1>2. 0 \notin Ids /\ Cardinality(Obj) \in Nat
  BY ScanAssumption, FS_CardinalityType DEF Ids
<1>3. n # 0 => n \in 1 .. n
  BY <1>1
<1>4. k # 0 => k \in 1 .. k
  BY <1>1
<1>5. \A i \in 1 .. n : S[i] \in Ids
  BY <1>1
<1>6. \A j \in 1 .. k : F[j] \in Ids
  BY <1>1
<1> QED BY <1>1, <1>2, <1>3, <1>4, <1>5, <1>6 DEF InUse, Members

(* The frame below the top and all below it have what they had. *)
Below(S, n) ==
    \A i \in 1 .. n : /\ mem'[S[i]].ops = mem[S[i]].ops /\ mem'[S[i]].ti = mem[S[i]].ti
                      /\ mem'[S[i]].idx = mem[S[i]].idx

LEMMA PopStep ==
    ASSUME NEW n, NEW S, NEW k, NEW F, Heap(n, S, k, F), n # 0, Pop
    PROVE  \E S2, F2 : /\ Heap(n - 1, S2, k + 1, F2)' /\ Below(S, n - 1)
                       /\ \A i \in 1 .. n - 1 : S2[i] = S[i]
<1> DEFINE S2 == Down(S, n)
           F2 == Up(F, k, S[n])
           m == [mem EXCEPT ![S[n]].next = sctx_stk_free]
<1>1. /\ n \in Nat /\ k \in Nat /\ n \in 1 .. n /\ head = S[n] /\ buf \in Ids /\ Cardinality(Obj) \in Nat
      /\ \A i \in 1 .. n : S[i] \in Ids /\ S[i] \in InUse(n, S, k, F)
      /\ \A j \in 1 .. k : F[j] \in Ids /\ F[j] \in InUse(n, S, k, F)
      /\ n - 1 \in Nat /\ k + 1 \in Nat
  <2>1. n - 1 \in Nat /\ k + 1 \in Nat
    BY HeadIs
  <2> QED BY <2>1, HeadIs
<1>2. /\ \A i, j \in 1 .. n : i # j => S[i] # S[j]
      /\ \A i \in 1 .. n : mem[S[i]].next = IF i = 1 THEN 0 ELSE S[i - 1]
      /\ \A i, j \in 1 .. k : i # j => F[i] # F[j]
      /\ \A j \in 1 .. k : mem[F[j]].next = IF j = 1 THEN 0 ELSE F[j - 1]
      /\ sctx_stk_free = IF k = 0 THEN 0 ELSE F[k]
  BY DEF Heap, IsList
<1>3. /\ \A i \in 1 .. n, j \in 1 .. k : S[i] # F[j]
      /\ \A i \in 1 .. n : S[i] # buf
      /\ \A j \in 1 .. k : F[j] # buf
  BY DEF Heap, Apart
<1>4. /\ DOMAIN mem = Ids
      /\ \A i \in Ids : /\ IsRecord(mem[i])
                        /\ i \in InUse(n, S, k, F) => mem[i].ops # "unused"
                        /\ i \notin InUse(n, S, k, F) => mem[i] = Unused
  BY DEF Heap, Filled
<1>5. mem' = m /\ head' = mem[S[n]].next /\ sctx_stk_free' = S[n] /\ buf' = buf
  BY <1>1 DEF Pop, Top
<1>6. /\ DOMAIN m = Ids
      /\ \A i \in Ids : i # S[n] => m[i] = mem[i]
      /\ m[S[n]].next = sctx_stk_free /\ m[S[n]].ops = mem[S[n]].ops /\ IsRecord(m[S[n]])
  BY <1>1, <1>4 DEF IsRecord
<1> HIDE DEF m
<1>7. /\ S2 \in [1 .. n - 1 -> Ids] /\ F2 \in [1 .. k + 1 -> Ids]
      /\ \A i \in 1 .. n - 1 : S2[i] = S[i] /\ i \in 1 .. n /\ i # n
      /\ \A j \in 1 .. k : F2[j] = F[j] /\ j \in 1 .. k + 1 /\ j # k + 1
      /\ F2[k + 1] = S[n] /\ k + 1 \in 1 .. k + 1
      /\ \A j \in 1 .. k + 1 : j \in 1 .. k \/ j = k + 1
      /\ \A i \in 1 .. n : i \in 1 .. n - 1 \/ i = n
  <2>1. \A i \in 1 .. n - 1 : i \in 1 .. n /\ i # n
    BY <1>1
  <2>2. \A j \in 1 .. k : j \in 1 .. k + 1 /\ j # k + 1
    BY <1>1
  <2>3. \A j \in 1 .. k + 1 : j \in 1 .. k \/ j = k + 1
    BY <1>1
  <2>4. \A i \in 1 .. n : i \in 1 .. n - 1 \/ i = n
    BY <1>1
  <2>5. k + 1 \in 1 .. k + 1
    BY <1>1
  <2> QED BY <1>1, <2>1, <2>2, <2>3, <2>4, <2>5 DEF Down, Up
<1> HIDE DEF S2, F2
<1>8. IsList(S2, n - 1, head)'
  <2>1. head' = IF n - 1 = 0 THEN 0 ELSE S2[n - 1]
    <3>1. CASE n = 1
      BY <1>1, <1>2, <1>5, <3>1
    <3>2. CASE n # 1
      <4>1. n - 1 \in 1 .. n - 1
        BY <1>1, <3>2
      <4> QED BY <1>1, <1>2, <1>5, <1>7, <3>2, <4>1
    <3> QED BY <3>1, <3>2
  <2>2. \A i, j \in 1 .. n - 1 : i # j => S2[i] # S2[j]
    BY <1>2, <1>7
  <2>3. ASSUME NEW i \in 1 .. n - 1 PROVE mem'[S2[i]].next = IF i = 1 THEN 0 ELSE S2[i - 1]
    <3>1. S2[i] = S[i] /\ i \in 1 .. n /\ S[i] # S[n] /\ S[i] \in Ids
      BY <1>1, <1>2, <1>7
    <3>2. i # 1 => i - 1 \in 1 .. n - 1
      BY <1>1
    <3> QED BY <1>2, <1>5, <1>6, <1>7, <3>1, <3>2
  <2> QED BY <1>1, <1>7, <2>1, <2>2, <2>3 DEF IsList
<1>9. IsList(F2, k + 1, sctx_stk_free)'
  <2>1. sctx_stk_free' = IF k + 1 = 0 THEN 0 ELSE F2[k + 1]
    BY <1>1, <1>5, <1>7
  <2>2. ASSUME NEW i \in 1 .. k + 1, NEW j \in 1 .. k + 1, i # j PROVE F2[i] # F2[j]
    <3>1. CASE i \in 1 .. k /\ j \in 1 .. k
      BY <1>2, <1>7, <2>2, <3>1
    <3>2. CASE i \in 1 .. k /\ j = k + 1
      BY <1>1, <1>3, <1>7, <3>2
    <3>3. CASE i = k + 1 /\ j \in 1 .. k
      BY <1>1, <1>3, <1>7, <3>3
    <3> QED BY <1>7, <2>2, <3>1, <3>2, <3>3
  <2>3. ASSUME NEW j \in 1 .. k + 1 PROVE mem'[F2[j]].next = IF j = 1 THEN 0 ELSE F2[j - 1]
    <3>1. CASE j \in 1 .. k
      <4>1. F2[j] = F[j] /\ F[j] # S[n] /\ F[j] \in Ids
        BY <1>1, <1>3, <1>7, <3>1
      <4>2. j # 1 => j - 1 \in 1 .. k
        BY <1>1, <3>1
      <4> QED BY <1>2, <1>5, <1>6, <1>7, <3>1, <4>1, <4>2
    <3>2. CASE j = k + 1
      <4>1. F2[j] = S[n] /\ mem'[F2[j]].next = sctx_stk_free
        BY <1>5, <1>6, <1>7, <3>2
      <4>2. CASE k = 0
        BY <1>1, <1>2, <3>2, <4>1, <4>2
      <4>3. CASE k # 0
        <5>1. k \in 1 .. k /\ j - 1 = k /\ j # 1
          BY <1>1, <3>2, <4>3
        <5> QED BY <1>2, <1>7, <4>1, <4>3, <5>1
      <4> QED BY <4>2, <4>3
    <3> QED BY <1>7, <3>1, <3>2
  <2> QED BY <1>1, <1>7, <2>1, <2>2, <2>3 DEF IsList
<1>10. Apart(n - 1, S2, k + 1, F2)'
  <2>1. ASSUME NEW i \in 1 .. n - 1, NEW j \in 1 .. k + 1 PROVE S2[i] # F2[j]
    <3>1. S2[i] = S[i] /\ i \in 1 .. n /\ i # n
      BY <1>7
    <3>2. CASE j \in 1 .. k
      BY <1>3, <1>7, <3>1, <3>2
    <3>3. CASE j = k + 1
      BY <1>1, <1>2, <1>7, <3>1, <3>3
    <3> QED BY <1>7, <3>2, <3>3
  <2>2. \A i \in 1 .. n - 1 : S2[i] # buf'
    BY <1>3, <1>5, <1>7
  <2>3. \A j \in 1 .. k + 1 : F2[j] # buf'
    BY <1>1, <1>3, <1>5, <1>7
  <2> QED BY <2>1, <2>2, <2>3 DEF Apart
<1>11. InUse(n - 1, S2, k + 1, F2)' = InUse(n, S, k, F)
  <2>1. Members(S2, n - 1) = {S[i] : i \in 1 .. n - 1}
    BY <1>7 DEF Members
  <2>2. Members(F2, k + 1) = Members(F, k) \cup {S[n]}
    BY <1>7 DEF Members
  <2>3. Members(S, n) = {S[i] : i \in 1 .. n - 1} \cup {S[n]}
    BY <1>1, <1>7 DEF Members
  <2> QED BY <1>5, <2>1, <2>2, <2>3 DEF InUse
<1>12. Filled(n - 1, S2, k + 1, F2)'
  <2>1. ASSUME NEW i \in Ids
        PROVE  /\ IsRecord(mem'[i])
               /\ i \in InUse(n, S, k, F) => mem'[i].ops # "unused"
               /\ i \notin InUse(n, S, k, F) => mem'[i] = Unused
    <3>1. CASE i = S[n]
      BY <1>1, <1>4, <1>5, <1>6, <3>1
    <3>2. CASE i # S[n]
      BY <1>4, <1>5, <1>6, <3>2
    <3> QED BY <3>1, <3>2
  <2>2. DOMAIN mem' = Ids
    BY <1>5, <1>6
  <2>3. Ids' = Ids /\ Unused' = Unused
    BY DEF Ids, Unused
  <2> QED BY <1>11, <2>1, <2>2 DEF Filled, IsRecord, Ids, Unused
<1>13. (n - 1) + (k + 1) <= 3 * Cardinality(Obj)
  <2>1. n + k <= 3 * Cardinality(Obj)
    BY DEF Heap
  <2> QED BY <1>1, <2>1
<1>14. Heap(n - 1, S2, k + 1, F2)'
  BY <1>1, <1>5, <1>8, <1>9, <1>10, <1>12, <1>13 DEF Heap, Ids
<1>15. Below(S, n - 1)
  <2>1. ASSUME NEW i \in 1 .. n - 1 PROVE mem'[S[i]] = mem[S[i]]
    <3>1. i \in 1 .. n /\ S[i] # S[n] /\ S[i] \in Ids
      BY <1>1, <1>2, <1>7
    <3> QED BY <1>5, <1>6, <3>1
  <2> QED BY <2>1 DEF Below
<1> QED BY <1>7, <1>14, <1>15

(* A round that leaves the frame on top. *)
LEMMA StayStep ==
    ASSUME NEW n, NEW S, NEW k, NEW F, Heap(n, S, k, F), n # 0, Stay
    PROVE  /\ Heap(n, S, k, F)' /\ Below(S, n - 1)
           /\ mem'[S[n]].ops = mem[S[n]].ops /\ mem'[S[n]].ti = mem[S[n]].ti
<1> DEFINE m == [mem EXCEPT ![S[n]].idx = @ + 1]
<1>1. /\ n \in Nat /\ k \in Nat /\ n \in 1 .. n /\ head = S[n]
      /\ \A i \in 1 .. n : S[i] \in Ids /\ S[i] \in InUse(n, S, k, F)
      /\ \A j \in 1 .. k : F[j] \in Ids
      /\ \A i \in 1 .. n - 1 : i \in 1 .. n /\ i # n
  <2>1. n \in Nat
    BY HeadIs
  <2>2. \A i \in 1 .. n - 1 : i \in 1 .. n /\ i # n
    BY <2>1
  <2> QED BY <2>2, HeadIs
<1>2. mem' = m /\ head' = head /\ sctx_stk_free' = sctx_stk_free /\ buf' = buf
  BY <1>1 DEF Stay
<1>3. /\ DOMAIN mem = Ids
      /\ \A i \in Ids : /\ IsRecord(mem[i])
                        /\ i \in InUse(n, S, k, F) => mem[i].ops # "unused"
                        /\ i \notin InUse(n, S, k, F) => mem[i] = Unused
  BY DEF Heap, Filled
<1>4. /\ DOMAIN m = Ids
      /\ \A i \in Ids : i # S[n] => m[i] = mem[i]
      /\ m[S[n]].next = mem[S[n]].next /\ m[S[n]].ops = mem[S[n]].ops /\ m[S[n]].ti = mem[S[n]].ti
      /\ IsRecord(m[S[n]])
  BY <1>1, <1>3 DEF IsRecord
<1> HIDE DEF m
<1>5. \A i \in Ids : m[i].next = mem[i].next
  BY <1>4
<1>6. IsList(S, n, head)' /\ IsList(F, k, sctx_stk_free)'
  <2>1. IsList(S, n, head) /\ IsList(F, k, sctx_stk_free)
    BY DEF Heap
  <2> QED BY <1>1, <1>2, <1>5, <2>1 DEF IsList, Ids
<1>7. Filled(n, S, k, F)'
  <2>1. ASSUME NEW i \in Ids
        PROVE  /\ IsRecord(mem'[i])
               /\ i \in InUse(n, S, k, F) => mem'[i].ops # "unused"
               /\ i \notin InUse(n, S, k, F) => mem'[i] = Unused
    <3>1. CASE i = S[n]
      BY <1>1, <1>2, <1>3, <1>4, <3>1
    <3>2. CASE i # S[n]
      BY <1>2, <1>3, <1>4, <3>2
    <3> QED BY <3>1, <3>2
  <2>2. InUse(n, S, k, F)' = InUse(n, S, k, F)
    BY <1>2 DEF InUse, Members
  <2> QED BY <1>2, <1>4, <2>1, <2>2 DEF Filled, IsRecord, Ids, Unused
<1>8. Heap(n, S, k, F)'
  BY <1>2, <1>6, <1>7 DEF Heap, Apart, Ids
<1>9. Below(S, n - 1)
  <2>1. ASSUME NEW i \in 1 .. n - 1 PROVE mem'[S[i]] = mem[S[i]]
    <3>1. i \in 1 .. n /\ i # n /\ S[i] \in Ids
      BY <1>1
    <3>2. S[i] # S[n]
      BY <1>1, <3>1 DEF Heap, IsList
    <3> QED BY <1>2, <1>4, <3>1, <3>2
  <2> QED BY <2>1 DEF Below
<1> QED BY <1>2, <1>4, <1>8, <1>9

(* A frame pushed: the heap before a spare frame is found, ... *)
Pushing(f) == [mem EXCEPT ![head].idx = @ + 1, ![buf] = [f EXCEPT !.next = head]]

LEMMA PushingIs ==
    ASSUME NEW n, NEW S, NEW k, NEW F, Heap(n, S, k, F), n # 0, NEW f, IsRecord(f), f.ops # "unused"
    PROVE  LET m == Pushing(f)
           IN  /\ DOMAIN m = Ids
               /\ \A i \in Ids : i # S[n] /\ i # buf => m[i] = mem[i]
               /\ m[S[n]].next = mem[S[n]].next /\ m[S[n]].ops = mem[S[n]].ops
               /\ m[S[n]].ti = mem[S[n]].ti /\ m[S[n]].idx = mem[S[n]].idx + 1
               /\ m[buf].next = head /\ m[buf].ops = f.ops /\ m[buf].ti = f.ti /\ m[buf].idx = f.idx
               /\ \A i \in Ids : /\ IsRecord(m[i])
                                 /\ i \in InUse(n, S, k, F) => m[i].ops # "unused"
                                 /\ i \notin InUse(n, S, k, F) => m[i] = Unused
<1> DEFINE m == Pushing(f)
<1>1. /\ S[n] \in Ids /\ buf \in Ids /\ S[n] # buf /\ head = S[n]
      /\ S[n] \in InUse(n, S, k, F) /\ buf \in InUse(n, S, k, F)
  <2>1. n \in 1 .. n
    BY HeadIs
  <2> QED BY <2>1, HeadIs DEF Heap, Apart
<1>2. /\ DOMAIN mem = Ids
      /\ \A i \in Ids : /\ IsRecord(mem[i])
                        /\ i \in InUse(n, S, k, F) => mem[i].ops # "unused"
                        /\ i \notin InUse(n, S, k, F) => mem[i] = Unused
  BY DEF Heap, Filled
<1>3. /\ DOMAIN m = Ids
      /\ \A i \in Ids : i # S[n] /\ i # buf => m[i] = mem[i]
      /\ m[S[n]] = [mem[S[n]] EXCEPT !.idx = @ + 1]
      /\ m[buf] = [f EXCEPT !.next = head]
  BY <1>1, <1>2 DEF Pushing
<1>4. /\ m[S[n]].next = mem[S[n]].next /\ m[S[n]].ops = mem[S[n]].ops
      /\ m[S[n]].ti = mem[S[n]].ti /\ m[S[n]].idx = mem[S[n]].idx + 1 /\ IsRecord(m[S[n]])
  <2>1. IsRecord(mem[S[n]])
    BY <1>1, <1>2
  <2> HIDE DEF m
  <2> QED BY <1>3, <2>1 DEF IsRecord
<1>5. /\ m[buf].next = head /\ m[buf].ops = f.ops /\ m[buf].ti = f.ti /\ m[buf].idx = f.idx
      /\ IsRecord(m[buf])
  <2> HIDE DEF m
  <2> QED BY <1>3 DEF IsRecord
<1>6. ASSUME NEW i \in Ids
      PROVE  /\ IsRecord(m[i])
             /\ i \in InUse(n, S, k, F) => m[i].ops # "unused"
             /\ i \notin InUse(n, S, k, F) => m[i] = Unused
  <2> HIDE DEF m
  <2>1. CASE i = S[n]
    BY <1>1, <1>2, <1>4, <2>1
  <2>2. CASE i = buf
    BY <1>1, <1>5, <2>2
  <2>3. CASE i # S[n] /\ i # buf
    BY <1>2, <1>3, <2>3
  <2> QED BY <2>1, <2>2, <2>3
<1> HIDE DEF m
<1> QED BY <1>3, <1>4, <1>5, <1>6 DEF m

(* ... the stack after it, whatever the spare frame is, ... *)
LEMMA PushList ==
    ASSUME NEW n, NEW S, NEW k, NEW F, Heap(n, S, k, F), n # 0, NEW f, IsRecord(f), f.ops # "unused",
           NEW b, b = buf, head' = buf,
           \A i \in Members(S, n) \cup {buf} : mem'[i] = Pushing(f)[i]
    PROVE  /\ IsList(Up(S, n, b), n + 1, head)'
           /\ \A i \in 1 .. n : Up(S, n, b)[i] = S[i]
           /\ Up(S, n, b)[n + 1] = b
           /\ Below(S, n - 1)
           /\ mem'[S[n]].ops = mem[S[n]].ops /\ mem'[S[n]].ti = mem[S[n]].ti
           /\ mem'[S[n]].idx = mem[S[n]].idx + 1
           /\ mem'[b].ops = f.ops /\ mem'[b].ti = f.ti /\ mem'[b].idx = f.idx
<1> DEFINE S2 == Up(S, n, b)
<1>1. /\ n \in Nat /\ n \in 1 .. n /\ head = S[n] /\ b \in Ids
      /\ \A i \in 1 .. n : S[i] \in Ids
      /\ \A i \in 1 .. n : S[i] \in Members(S, n) /\ S[i] # b
      /\ \A i, j \in 1 .. n : i # j => S[i] # S[j]
      /\ \A i \in 1 .. n : mem[S[i]].next = IF i = 1 THEN 0 ELSE S[i - 1]
  BY HeadIs DEF Heap, Apart, IsList, Members
<1>2. /\ \A i \in Ids : i # S[n] /\ i # buf => Pushing(f)[i] = mem[i]
      /\ Pushing(f)[S[n]].next = mem[S[n]].next /\ Pushing(f)[S[n]].ops = mem[S[n]].ops
      /\ Pushing(f)[S[n]].ti = mem[S[n]].ti /\ Pushing(f)[S[n]].idx = mem[S[n]].idx + 1
      /\ Pushing(f)[buf].next = head /\ Pushing(f)[buf].ops = f.ops
      /\ Pushing(f)[buf].ti = f.ti /\ Pushing(f)[buf].idx = f.idx
  BY PushingIs
<1>3. /\ mem'[S[n]].next = mem[S[n]].next /\ mem'[S[n]].ops = mem[S[n]].ops
      /\ mem'[S[n]].ti = mem[S[n]].ti /\ mem'[S[n]].idx = mem[S[n]].idx + 1
      /\ mem'[b].next = S[n] /\ mem'[b].ops = f.ops
      /\ mem'[b].ti = f.ti /\ mem'[b].idx = f.idx
  BY <1>1, <1>2
<1>4. \A i \in 1 .. n - 1 : mem'[S[i]] = mem[S[i]] /\ i \in 1 .. n
  <2>1. ASSUME NEW i \in 1 .. n - 1 PROVE mem'[S[i]] = mem[S[i]] /\ i \in 1 .. n
    <3>1. i \in 1 .. n /\ i # n
      BY <1>1
    <3>2. S[i] # S[n] /\ S[i] # buf /\ S[i] \in Ids /\ S[i] \in Members(S, n)
      BY <1>1, <3>1
    <3> QED BY <1>2, <3>1, <3>2
  <2> QED BY <2>1
<1>5. /\ \A i \in 1 .. n : S2[i] = S[i] /\ S2[n + 1] = b /\ S2 \in [1 .. n + 1 -> Ids]
      /\ \A i \in 1 .. n + 1 : i \in 1 .. n \/ i = n + 1
      /\ \A i \in 1 .. n : i \in 1 .. n - 1 \/ i = n
      /\ n + 1 \in Nat /\ n + 1 \in 1 .. n + 1 /\ n + 1 # 0
  <2>1. \A i \in 1 .. n : i \in 1 .. n + 1 /\ i # n + 1
    BY <1>1
  <2>2. \A i \in 1 .. n + 1 : i \in 1 .. n \/ i = n + 1
    BY <1>1
  <2>3. \A i \in 1 .. n : i \in 1 .. n - 1 \/ i = n
    BY <1>1
  <2>4. n + 1 \in Nat /\ n + 1 \in 1 .. n + 1 /\ n + 1 # 0
    BY <1>1
  <2> QED BY <1>1, <2>1, <2>2, <2>3, <2>4 DEF Up
<1> HIDE DEF S2
<1>6. S2[n + 1] = b
  BY <1>1, <1>5
<1>7. ASSUME NEW i \in 1 .. n + 1, NEW j \in 1 .. n + 1, i # j PROVE S2[i] # S2[j]
  <2>1. CASE i \in 1 .. n /\ j \in 1 .. n
    BY <1>1, <1>5, <1>7, <2>1
  <2>2. CASE i \in 1 .. n /\ j = n + 1
    BY <1>1, <1>5, <1>6, <2>2
  <2>3. CASE i = n + 1 /\ j \in 1 .. n
    BY <1>1, <1>5, <1>6, <2>3
  <2> QED BY <1>5, <1>7, <2>1, <2>2, <2>3
<1>8. ASSUME NEW i \in 1 .. n + 1 PROVE mem'[S2[i]].next = IF i = 1 THEN 0 ELSE S2[i - 1]
  <2>1. CASE i \in 1 .. n
    <3>1. mem'[S[i]].next = mem[S[i]].next
      BY <1>3, <1>4, <1>5, <2>1
    <3>2. i # 1 => i - 1 \in 1 .. n
      BY <1>1, <2>1
    <3> QED BY <1>1, <1>5, <2>1, <3>1, <3>2
  <2>2. CASE i = n + 1
    <3>1. i # 1 /\ i - 1 = n
      BY <1>1, <2>2
    <3> QED BY <1>1, <1>3, <1>5, <1>6, <2>2, <3>1
  <2> QED BY <1>5, <2>1, <2>2
<1>9. IsList(S2, n + 1, head)'
  <2>1. head' = IF n + 1 = 0 THEN 0 ELSE S2[n + 1]
    BY <1>5, <1>6
  <2>2. S2 \in [1 .. n + 1 -> Ids]
    BY <1>1, <1>5
  <2> QED BY <1>5, <1>7, <1>8, <2>1, <2>2 DEF IsList, Ids
<1>10. Below(S, n - 1)
  BY <1>4 DEF Below
<1> QED BY <1>3, <1>5, <1>6, <1>9, <1>10 DEF S2

(* ... and the heap with a spare frame from the free list ... *)
LEMMA PushFree ==
    ASSUME NEW n, NEW S, NEW k, NEW F, Heap(n, S, k, F), n # 0, NEW f, IsRecord(f), f.ops # "unused",
           n + 1 <= 3 * Cardinality(Obj), k # 0, Push(f), NEW b, b = buf
    PROVE  /\ Heap(n + 1, Up(S, n, b), k - 1, Down(F, k))'
           /\ \A i \in Members(S, n) \cup {buf} : mem'[i] = Pushing(f)[i]
<1> DEFINE m == Pushing(f)
           S2 == Up(S, n, b)
           F2 == Down(F, k)
<1>1. /\ n \in Nat /\ k \in Nat /\ n \in 1 .. n /\ head = S[n] /\ b \in Ids /\ k \in 1 .. k
      /\ \A i \in 1 .. n : S[i] \in Ids
      /\ \A j \in 1 .. k : F[j] \in Ids
      /\ sctx_stk_free = F[k] /\ sctx_stk_free # 0 /\ F[k] \in Ids /\ Cardinality(Obj) \in Nat
      /\ k - 1 \in Nat /\ n + 1 \in Nat
  <2>1. k - 1 \in Nat /\ n + 1 \in Nat
    BY HeadIs
  <2> QED BY <2>1, HeadIs
<1>2. /\ \A i, j \in 1 .. k : i # j => F[i] # F[j]
      /\ \A j \in 1 .. k : mem[F[j]].next = IF j = 1 THEN 0 ELSE F[j - 1]
      /\ \A i \in 1 .. n, j \in 1 .. k : S[i] # F[j]
      /\ \A i \in 1 .. n : S[i] # b
      /\ \A j \in 1 .. k : F[j] # b
  BY DEF Heap, IsList, Apart
<1>3. /\ DOMAIN m = Ids
      /\ \A i \in Ids : i # S[n] /\ i # buf => m[i] = mem[i]
      /\ \A i \in Ids : /\ IsRecord(m[i])
                        /\ i \in InUse(n, S, k, F) => m[i].ops # "unused"
                        /\ i \notin InUse(n, S, k, F) => m[i] = Unused
  BY PushingIs
<1>4. /\ head' = b /\ buf' = F[k] /\ sctx_stk_free' = m[F[k]].next
      /\ mem' = [m EXCEPT ![F[k]].next = 0]
  BY <1>1 DEF Push, NextBuffer, Pushing
<1> HIDE DEF m
<1>5. /\ DOMAIN mem' = Ids
      /\ \A i \in Ids : i # F[k] => mem'[i] = m[i]
      /\ mem'[F[k]].ops = m[F[k]].ops /\ IsRecord(mem'[F[k]])
  BY <1>1, <1>3, <1>4 DEF IsRecord
<1>6. \A j \in 1 .. k : m[F[j]] = mem[F[j]]
  BY <1>1, <1>2, <1>3
<1>7. \A i \in Members(S, n) \cup {buf} : mem'[i] = m[i]
  BY <1>1, <1>2, <1>5 DEF Members
<1>8. /\ IsList(S2, n + 1, head)' /\ \A i \in 1 .. n : S2[i] = S[i]
      /\ S2[n + 1] = b
  BY <1>1, <1>4, <1>7, PushList DEF m
<1>9. /\ F2 \in [1 .. k - 1 -> Ids]
      /\ \A j \in 1 .. k - 1 : F2[j] = F[j] /\ j \in 1 .. k /\ j # k
      /\ \A j \in 1 .. k : j \in 1 .. k - 1 \/ j = k
      /\ \A i \in 1 .. n + 1 : i \in 1 .. n \/ i = n + 1
      /\ \A i \in 1 .. n : i \in 1 .. n + 1
      /\ n + 1 \in 1 .. n + 1
  <2>1. \A j \in 1 .. k - 1 : j \in 1 .. k /\ j # k
    BY <1>1
  <2>2. \A j \in 1 .. k : j \in 1 .. k - 1 \/ j = k
    BY <1>1
  <2>3. \A i \in 1 .. n + 1 : i \in 1 .. n \/ i = n + 1
    BY <1>1
  <2>4. \A i \in 1 .. n : i \in 1 .. n + 1
    BY <1>1
  <2>5. n + 1 \in 1 .. n + 1
    BY <1>1
  <2> QED BY <1>1, <2>1, <2>2, <2>3, <2>4, <2>5 DEF Down
<1> HIDE DEF S2, F2
<1>10. IsList(F2, k - 1, sctx_stk_free)'
  <2>1. sctx_stk_free' = IF k - 1 = 0 THEN 0 ELSE F2[k - 1]
    <3>1. sctx_stk_free' = IF k = 1 THEN 0 ELSE F[k - 1]
      BY <1>1, <1>2, <1>4, <1>6
    <3>2. k # 1 => k - 1 \in 1 .. k - 1 /\ k - 1 # 0
      BY <1>1
    <3>3. k = 1 <=> k - 1 = 0
      BY <1>1
    <3> QED BY <1>9, <3>1, <3>2, <3>3
  <2>2. \A i, j \in 1 .. k - 1 : i # j => F2[i] # F2[j]
    BY <1>2, <1>9
  <2>3. ASSUME NEW j \in 1 .. k - 1 PROVE mem'[F2[j]].next = IF j = 1 THEN 0 ELSE F2[j - 1]
    <3>1. F2[j] = F[j] /\ j \in 1 .. k /\ F[j] # F[k]
      BY <1>1, <1>2, <1>9
    <3>2. mem'[F[j]] = mem[F[j]]
      BY <1>1, <1>5, <1>6, <3>1
    <3>3. j # 1 => j - 1 \in 1 .. k - 1
      BY <1>1
    <3> QED BY <1>2, <1>9, <3>1, <3>2, <3>3
  <2> QED BY <1>1, <1>9, <2>1, <2>2, <2>3 DEF IsList, Ids
<1>11. Apart(n + 1, S2, k - 1, F2)'
  <2>1. ASSUME NEW i \in 1 .. n + 1 PROVE S2[i] # F[k] /\ \A j \in 1 .. k : S2[i] # F[j]
    <3>1. CASE i \in 1 .. n
      BY <1>1, <1>2, <1>8, <3>1
    <3>2. CASE i = n + 1
      BY <1>1, <1>2, <1>8, <3>2
    <3> QED BY <1>9, <3>1, <3>2
  <2>2. \A j \in 1 .. k - 1 : F2[j] # F[k]
    BY <1>1, <1>2, <1>9
  <2> QED BY <1>4, <1>9, <2>1, <2>2 DEF Apart
<1>12. InUse(n + 1, S2, k - 1, F2)' = InUse(n, S, k, F)
  <2>1. Members(S2, n + 1) = Members(S, n) \cup {b}
    BY <1>8, <1>9 DEF Members
  <2>2. Members(F, k) = Members(F2, k - 1) \cup {F[k]}
    BY <1>1, <1>9 DEF Members
  <2> QED BY <1>4, <2>1, <2>2 DEF InUse
<1>13. Filled(n + 1, S2, k - 1, F2)'
  <2>1. ASSUME NEW i \in Ids
        PROVE  /\ IsRecord(mem'[i])
               /\ i \in InUse(n, S, k, F) => mem'[i].ops # "unused"
               /\ i \notin InUse(n, S, k, F) => mem'[i] = Unused
    <3>1. CASE i = F[k]
      <4>1. i \in InUse(n, S, k, F)
        BY <1>1, <3>1, HeadIs
      <4> QED BY <1>1, <1>3, <1>5, <3>1, <4>1
    <3>2. CASE i # F[k]
      BY <1>3, <1>5, <3>2
    <3> QED BY <3>1, <3>2
  <2> QED BY <1>5, <1>12, <2>1 DEF Filled, IsRecord, Ids, Unused
<1>14. (n + 1) + (k - 1) <= 3 * Cardinality(Obj)
  <2>1. n + k <= 3 * Cardinality(Obj)
    BY DEF Heap
  <2> QED BY <1>1, <2>1
<1>15. Heap(n + 1, S2, k - 1, F2)'
  BY <1>1, <1>4, <1>8, <1>10, <1>11, <1>13, <1>14 DEF Heap, Ids
<1> QED BY <1>7, <1>15 DEF m, S2, F2

(* ... or one that malloc returns. *)
LEMMA PushFresh ==
    ASSUME NEW n, NEW S, NEW F, Heap(n, S, 0, F), n # 0, NEW f, IsRecord(f), f.ops # "unused",
           n + 1 <= 3 * Cardinality(Obj), Push(f), NEW b, b = buf
    PROVE  /\ Heap(n + 1, Up(S, n, b), 0, F)'
           /\ \A i \in Members(S, n) \cup {buf} : mem'[i] = Pushing(f)[i]
<1> DEFINE m == Pushing(f)
           S2 == Up(S, n, b)
           a == fsl_alloc(m)
<1>1. /\ n \in Nat /\ n \in 1 .. n /\ head = S[n] /\ b \in Ids /\ b \in InUse(n, S, 0, F)
      /\ \A i \in 1 .. n : S[i] \in Ids /\ S[i] \in InUse(n, S, 0, F)
      /\ sctx_stk_free = 0 /\ Cardinality(Obj) \in Nat
      /\ n + 1 \in Nat
  <2>1. n + 1 \in Nat
    BY HeadIs
  <2> QED BY <2>1, HeadIs
<1>2. \A i \in 1 .. n : S[i] # b
  BY DEF Heap, Apart
<1>3. /\ DOMAIN m = Ids
      /\ \A i \in Ids : /\ IsRecord(m[i])
                        /\ i \in InUse(n, S, 0, F) => m[i].ops # "unused"
                        /\ i \notin InUse(n, S, 0, F) => m[i] = Unused
  BY PushingIs
<1>4. /\ head' = b /\ buf' = a /\ sctx_stk_free' = 0
      /\ mem' = [m EXCEPT ![buf'] = Frame("fresh", <<>>, <<>>)]
  BY <1>1 DEF Push, NextBuffer, Pushing
<1>5. a \in Ids /\ a \notin InUse(n, S, 0, F)
  <2>1. \E i \in Ids : i \notin InUse(n, S, 0, F)
    <3>1. n + 0 < 3 * Cardinality(Obj)
      BY <1>1
    <3> QED BY <3>1, FrameLeft
  <2> HIDE DEF m
  <2>2. \E i \in Ids : m[i] = Unused
    BY <1>3, <2>1
  <2>3. a \in Ids /\ m[a] = Unused
    BY <2>2 DEF fsl_alloc
  <2> HIDE DEF a
  <2>4. m[a].ops = "unused"
    BY <2>3 DEF Unused
  <2> QED BY <1>3, <2>3, <2>4
<1> HIDE DEF m, a
<1>6. /\ DOMAIN mem' = Ids
      /\ \A i \in Ids : i # a => mem'[i] = m[i]
      /\ mem'[a] = Frame("fresh", <<>>, <<>>)
  BY <1>3, <1>4, <1>5
<1>7. \A i \in Members(S, n) \cup {buf} : mem'[i] = m[i]
  BY <1>1, <1>5, <1>6 DEF Members
<1>8. /\ IsList(S2, n + 1, head)' /\ \A i \in 1 .. n : S2[i] = S[i]
      /\ S2[n + 1] = b
  BY <1>1, <1>4, <1>7, PushList DEF m
<1>9. /\ \A i \in 1 .. n + 1 : i \in 1 .. n \/ i = n + 1
      /\ \A i \in 1 .. n : i \in 1 .. n + 1
      /\ n + 1 \in 1 .. n + 1
  BY <1>1
<1> HIDE DEF S2
<1>10. IsList(F, 0, sctx_stk_free)'
  <2>1. IsList(F, 0, sctx_stk_free)
    BY DEF Heap
  <2>2. \A i \in 1 .. 0 : FALSE
    OBVIOUS
  <2> QED BY <1>4, <2>1, <2>2 DEF IsList, Ids
<1>11. Apart(n + 1, S2, 0, F)'
  <2>1. ASSUME NEW i \in 1 .. n + 1 PROVE S2[i] # a
    <3>1. CASE i \in 1 .. n
      BY <1>1, <1>5, <1>8, <3>1
    <3>2. CASE i = n + 1
      BY <1>1, <1>5, <1>8, <3>2
    <3> QED BY <1>9, <3>1, <3>2
  <2>2. \A j \in 1 .. 0 : FALSE
    OBVIOUS
  <2> QED BY <1>4, <2>1, <2>2 DEF Apart
<1>12. InUse(n + 1, S2, 0, F)' = InUse(n, S, 0, F) \cup {a}
  <2>1. Members(S2, n + 1) = Members(S, n) \cup {b}
    BY <1>8, <1>9 DEF Members
  <2> QED BY <1>4, <2>1 DEF InUse
<1>13. Filled(n + 1, S2, 0, F)'
  <2>1. ASSUME NEW i \in Ids
        PROVE  /\ IsRecord(mem'[i])
               /\ i \in InUse(n, S, 0, F) \cup {a} => mem'[i].ops # "unused"
               /\ i \notin InUse(n, S, 0, F) \cup {a} => mem'[i] = Unused
    <3>1. CASE i = a
      BY <1>6, <3>1 DEF Frame, IsRecord
    <3>2. CASE i # a
      BY <1>3, <1>6, <3>2
    <3> QED BY <3>1, <3>2
  <2> QED BY <1>6, <1>12, <2>1 DEF Filled, IsRecord, Ids, Unused
<1>14. Heap(n + 1, S2, 0, F)'
  <2>1. (n + 1) + 0 <= 3 * Cardinality(Obj)
    BY <1>1
  <2> QED BY <1>4, <1>5, <1>8, <1>10, <1>11, <1>13, <2>1 DEF Heap, Ids
<1> QED BY <1>7, <1>14 DEF m, S2

LEMMA PushStep ==
    ASSUME NEW n, NEW S, NEW k, NEW F, Heap(n, S, k, F), n # 0, NEW f, IsRecord(f), f.ops # "unused",
           n + 1 <= 3 * Cardinality(Obj), Push(f)
    PROVE  \E S2, k2, F2 :
              /\ Heap(n + 1, S2, k2, F2)'
              /\ \A i \in 1 .. n : S2[i] = S[i]
              /\ Below(S, n - 1)
              /\ mem'[S[n]].ops = mem[S[n]].ops /\ mem'[S[n]].ti = mem[S[n]].ti
              /\ mem'[S[n]].idx = mem[S[n]].idx + 1
              /\ mem'[S2[n + 1]].ops = f.ops /\ mem'[S2[n + 1]].ti = f.ti /\ mem'[S2[n + 1]].idx = f.idx
<1>1. PICK b : b = buf
  OBVIOUS
<1>2. head' = buf
  BY DEF Push
<1>3. CASE k = 0
  <2>1. Heap(n + 1, Up(S, n, b), 0, F)' /\ \A i \in Members(S, n) \cup {buf} : mem'[i] = Pushing(f)[i]
    BY <1>1, <1>3, PushFresh
  <2> QED BY <1>1, <1>2, <2>1, PushList
<1>4. CASE k # 0
  <2>1. /\ Heap(n + 1, Up(S, n, b), k - 1, Down(F, k))'
        /\ \A i \in Members(S, n) \cup {buf} : mem'[i] = Pushing(f)[i]
    BY <1>1, <1>4, PushFree
  <2> QED BY <1>1, <1>2, <2>1, PushList
<1> QED BY <1>3, <1>4

-----------------------------------------------------------------------------
(* The stack: for every object of a chain the frame of its type_info, one  *)
(* for a table of its type, one for an entry of the table.                 *)

Tables == {"fieldstrong", "cond", "pointsto_all", "virt_all"}
Lists  == {"fieldarray", "pointsto", "virt"}

Fits(r, i, C) ==
    \E l \in 1 .. Len(C) :
        /\ r.ti = Pre(C, l)
        /\ \/ i = 3 * l - 2 /\ r.ops = "type" /\ r.idx \in 0 .. 4
           \/ i = 3 * l - 1 /\ r.ops \in Tables
           \/ i = 3 * l     /\ r.ops \in Lists

Shape(n, S, C) ==
    /\ Rooted(C) /\ Simple(C)
    /\ 3 * Len(C) - 2 <= n /\ n <= 3 * Len(C)
    /\ \A i \in 1 .. n : Fits(mem[S[i]], i, C)

InScan(n, S, k, F, C) == Heap(n, S, k, F) /\ Shape(n, S, C) /\ refs = RefsOf(C)
Scanning == \E n, S, k, F, C : InScan(n, S, k, F, C)

(* The top frame is of the last object. *)
LEMMA TopIs ==
    ASSUME NEW n, NEW S, NEW k, NEW F, NEW C, Heap(n, S, k, F), Shape(n, S, C), head # 0
    PROVE  /\ n # 0 /\ n \in 1 .. n /\ n \in Nat /\ Top = mem[S[n]] /\ Top.ti = C
           /\ C \in Seq(Obj) /\ Rooted(C) /\ Simple(C) /\ C # <<>> /\ Len(C) \in Nat \ {0}
           /\ Top.ops = "type" => n = 3 * Len(C) - 2 /\ Top.idx \in 0 .. 4
           /\ Top.ops \in Tables => n = 3 * Len(C) - 1
           /\ Top.ops \in Lists => n = 3 * Len(C)
           /\ Top.ops \in {"type"} \cup Tables \cup Lists
<1>1. n # 0 /\ n \in 1 .. n /\ n \in Nat /\ Top = mem[S[n]]
  BY HeadIs DEF Top
<1>2. /\ C \in Seq(Obj) /\ Rooted(C) /\ Simple(C) /\ Len(C) \in Nat
      /\ 3 * Len(C) - 2 <= n /\ n <= 3 * Len(C) /\ Fits(Top, n, C)
  BY <1>1 DEF Shape, Rooted
<1>3. PICK l \in 1 .. Len(C) :
        /\ Top.ti = Pre(C, l)
        /\ \/ n = 3 * l - 2 /\ Top.ops = "type" /\ Top.idx \in 0 .. 4
           \/ n = 3 * l - 1 /\ Top.ops \in Tables
           \/ n = 3 * l     /\ Top.ops \in Lists
  BY <1>2 DEF Fits
<1>4. l = Len(C) /\ Len(C) # 0
  BY <1>2, <1>3
<1>5. Pre(C, l) = C /\ C # <<>>
  <2>1. l \in 0 .. Len(C)
    BY <1>2, <1>4
  <2> QED BY <1>2, <1>4, <2>1, PreIs
<1>6. "type" \notin Tables \cup Lists /\ Tables \cap Lists = {}
  BY DEF Tables, Lists
<1> QED BY <1>1, <1>2, <1>3, <1>4, <1>5, <1>6

(* The frames under the top one when that is the frame of a type_info and  *)
(* goes, when it is another one, and when one more object follows.         *)
LEMMA FitsFront ==
    ASSUME NEW C, Rooted(C), C # <<>>, NEW r, NEW i \in Nat, Fits(r, i, C), i <= 3 * Len(C) - 3
    PROVE  Fits(r, i, Front(C))
<1>1. C \in Seq(Obj) /\ Len(C) \in Nat \ {0} /\ Front(C) = Pre(C, Len(C) - 1) /\ Len(Front(C)) = Len(C) - 1
  BY FrontIs DEF Rooted
<1>2. PICK l \in 1 .. Len(C) :
        /\ r.ti = Pre(C, l)
        /\ \/ i = 3 * l - 2 /\ r.ops = "type" /\ r.idx \in 0 .. 4
           \/ i = 3 * l - 1 /\ r.ops \in Tables
           \/ i = 3 * l     /\ r.ops \in Lists
  BY DEF Fits
<1>3. l \in 1 .. Len(C) - 1 /\ Len(C) - 1 \in 0 .. Len(C) /\ l \in 0 .. Len(C) - 1
  BY <1>1, <1>2
<1>4. ASSUME NEW h \in 0 .. Len(C), h = Len(C) - 1 PROVE Pre(Pre(C, h), l) = Pre(C, l)
  BY <1>1, <1>3, <1>4, PreOfPre
<1>5. Pre(Front(C), l) = Pre(C, l)
  BY <1>1, <1>3, <1>4
<1>6. l \in 1 .. Len(Front(C))
  BY <1>1, <1>3
<1> QED BY <1>2, <1>5, <1>6 DEF Fits

LEMMA FitsGrown ==
    ASSUME NEW C \in Seq(Obj), NEW o \in Obj, NEW r, NEW i, Fits(r, i, C)
    PROVE  Fits(r, i, Append(C, o))
<1>1. Len(Append(C, o)) = Len(C) + 1 /\ Len(C) \in Nat /\ \A l \in 0 .. Len(C) : Pre(Append(C, o), l) = Pre(C, l)
  BY Grown
<1>2. \A l \in 1 .. Len(C) : l \in 0 .. Len(C) /\ l \in 1 .. Len(Append(C, o))
  BY <1>1
<1> QED BY <1>1, <1>2 DEF Fits

LEMMA FitsAgain ==
    ASSUME NEW r, NEW s, NEW i, NEW C, Fits(r, i, C), s.ops = r.ops, s.ti = r.ti,
           s.idx = r.idx \/ (r.ops # "type")
    PROVE  Fits(s, i, C)
BY DEF Fits

LEMMA PopKeeps ==
    ASSUME Scanning, head # 0, Pop,
           refs' = IF Top.ops = "type" THEN typeinfo_free(refs, Top.ti) ELSE refs
    PROVE  Scanning'
<1>1. PICK n, S, k, F, C : InScan(n, S, k, F, C)
  BY DEF Scanning
<1>2. Heap(n, S, k, F) /\ Shape(n, S, C) /\ refs = RefsOf(C)
  BY <1>1 DEF InScan
<1>3. /\ n # 0 /\ n \in Nat /\ Top = mem[S[n]] /\ Top.ti = C
      /\ C \in Seq(Obj) /\ Rooted(C) /\ Simple(C) /\ C # <<>> /\ Len(C) \in Nat \ {0}
      /\ Top.ops = "type" => n = 3 * Len(C) - 2
      /\ Top.ops # "type" => n = 3 * Len(C) - 1 \/ n = 3 * Len(C)
  <2> HIDE DEF Top
  <2> QED BY <1>2, TopIs
<1>4. PICK S2, F2 : /\ Heap(n - 1, S2, k + 1, F2)' /\ Below(S, n - 1)
                    /\ \A i \in 1 .. n - 1 : S2[i] = S[i]
  BY <1>2, <1>3, PopStep
<1>5. \A i \in 1 .. n - 1 : i \in 1 .. n /\ i \in Nat /\ i <= n - 1
  BY <1>3
<1>6. ASSUME NEW i \in 1 .. n - 1 PROVE Fits(mem'[S[i]], i, C)
  <2>1. Fits(mem[S[i]], i, C)
    BY <1>2, <1>5 DEF Shape
  <2>2. /\ mem'[S[i]].ops = mem[S[i]].ops /\ mem'[S[i]].ti = mem[S[i]].ti
        /\ mem'[S[i]].idx = mem[S[i]].idx
    BY <1>4 DEF Below
  <2> QED BY <2>1, <2>2, FitsAgain
<1>7. CASE Top.ops = "type"
  <2>1. Len(Front(C)) = Len(C) - 1
    BY <1>3, FrontIs
  <2>2. refs' = RefsOf(Front(C)) /\ Rooted(Front(C))
    BY <1>2, <1>3, <1>7, RefsShrink
  <2>3. Simple(Front(C))
    <3>1. Front(C) = Pre(C, Len(C) - 1)
      BY <1>3, FrontIs
    <3>2. ASSUME NEW h \in 0 .. Len(C) PROVE \A i \in 1 .. h : Pre(C, h)[i] = C[i]
      BY <1>3, PreIs
    <3>3. Len(C) - 1 \in 0 .. Len(C) /\ \A i \in 1 .. Len(C) - 1 : i \in 1 .. Len(C)
      BY <1>3
    <3>4. \A i \in 1 .. Len(C) - 1 : Front(C)[i] = C[i]
      BY <3>1, <3>2, <3>3
    <3> QED BY <1>3, <2>1, <3>3, <3>4 DEF Simple
  <2>4. \A i \in 1 .. n - 1 : Fits(mem'[S2[i]], i, Front(C))
    <3>1. \A i \in 1 .. n - 1 : i <= 3 * Len(C) - 3
      BY <1>3, <1>5, <1>7
    <3> QED BY <1>3, <1>4, <1>5, <1>6, <3>1, FitsFront
  <2>5. 3 * Len(Front(C)) - 2 <= n - 1 /\ n - 1 <= 3 * Len(Front(C))
    BY <1>3, <1>7, <2>1
  <2>6. Shape(n - 1, S2, Front(C))'
    BY <2>2, <2>3, <2>4, <2>5 DEF Shape
  <2> QED BY <1>4, <2>2, <2>6 DEF Scanning, InScan
<1>8. CASE Top.ops # "type"
  <2>1. 3 * Len(C) - 2 <= n - 1 /\ n - 1 <= 3 * Len(C)
    BY <1>3, <1>8
  <2>2. Shape(n - 1, S2, C)'
    BY <1>3, <1>4, <1>6, <2>1 DEF Shape
  <2>3. refs' = RefsOf(C)
    BY <1>2, <1>8
  <2> QED BY <1>4, <2>2, <2>3 DEF Scanning, InScan
<1> QED BY <1>7, <1>8

LEMMA StayKeeps ==
    ASSUME Scanning, head # 0, Stay, Top.ops # "type", refs' = refs
    PROVE  Scanning'
<1>1. PICK n, S, k, F, C : InScan(n, S, k, F, C)
  BY DEF Scanning
<1>2. Heap(n, S, k, F) /\ Shape(n, S, C) /\ refs = RefsOf(C)
  BY <1>1 DEF InScan
<1>3. n # 0 /\ n \in Nat /\ Top = mem[S[n]]
  <2> HIDE DEF Top
  <2> QED BY <1>2, TopIs
<1>4. /\ Heap(n, S, k, F)' /\ Below(S, n - 1)
      /\ mem'[S[n]].ops = mem[S[n]].ops /\ mem'[S[n]].ti = mem[S[n]].ti
  BY <1>2, <1>3, StayStep
<1>5. ASSUME NEW i \in 1 .. n PROVE Fits(mem'[S[i]], i, C)
  <2>1. Fits(mem[S[i]], i, C)
    BY <1>2 DEF Shape
  <2>2. CASE i = n
    BY <1>3, <1>4, <2>1, <2>2, FitsAgain
  <2>3. CASE i # n
    <3>1. i \in 1 .. n - 1
      BY <1>3, <2>3
    <3>2. /\ mem'[S[i]].ops = mem[S[i]].ops /\ mem'[S[i]].ti = mem[S[i]].ti
          /\ mem'[S[i]].idx = mem[S[i]].idx
      BY <1>4, <3>1 DEF Below
    <3> QED BY <2>1, <3>2, FitsAgain
  <2> QED BY <2>2, <2>3
<1>6. Shape(n, S, C)'
  BY <1>2, <1>5 DEF Shape
<1> QED BY <1>2, <1>4, <1>6 DEF Scanning, InScan

LEMMA PushKeeps ==
    ASSUME NEW n, NEW S, NEW k, NEW F, NEW C, InScan(n, S, k, F, C), head # 0,
           NEW f, IsRecord(f), Push(f), NEW D, refs' = RefsOf(D),
           \/ Top.ops = "type" /\ Top.idx # 4 /\ f.ops \in Tables /\ f.ti = C /\ D = C
           \/ Top.ops \in Tables /\ f.ops \in Lists /\ f.ti = C /\ D = C
           \/ /\ Top.ops \in Lists /\ f.ops = "type" /\ f.idx = 0 /\ f.ti = D
              /\ \E o \in Obj : D = Append(C, o) /\ ~ti_has_loop(D)
    PROVE  Scanning'
<1>1. Heap(n, S, k, F) /\ Shape(n, S, C)
  BY DEF InScan
<1>2. /\ n # 0 /\ n \in 1 .. n /\ n \in Nat /\ Top = mem[S[n]] /\ Top.ti = C
      /\ C \in Seq(Obj) /\ Rooted(C) /\ Simple(C) /\ C # <<>> /\ Len(C) \in Nat \ {0}
      /\ Top.ops = "type" => n = 3 * Len(C) - 2 /\ Top.idx \in 0 .. 4
      /\ Top.ops \in Tables => n = 3 * Len(C) - 1
      /\ Top.ops \in Lists => n = 3 * Len(C)
  <2> HIDE DEF Top
  <2> QED BY <1>1, TopIs
<1>3. /\ Rooted(D) /\ Simple(D) /\ D \in Seq(Obj) /\ Len(D) \in Nat
      /\ 3 * Len(D) - 2 <= n + 1 /\ n + 1 <= 3 * Len(D)
  <2>1. CASE D = C /\ (Top.ops = "type" \/ Top.ops \in Tables)
    BY <1>2, <2>1
  <2>2. CASE Top.ops \in Lists /\ \E o \in Obj : D = Append(C, o) /\ ~ti_has_loop(D)
    <3>1. PICK o \in Obj : D = Append(C, o) /\ ~ti_has_loop(D)
      BY <2>2
    <3>2. Len(D) = Len(C) + 1 /\ D \in Seq(Obj)
      BY <1>2, <3>1, Grown
    <3>3. Simple(D)
      BY <1>2, <3>1, Longer
    <3>4. Rooted(D)
      BY <1>2, <3>1, RefsGrow
    <3> QED BY <1>2, <2>2, <3>2, <3>3, <3>4
  <2> QED BY <2>1, <2>2
<1>4. n + 1 <= 3 * Cardinality(Obj)
  BY <1>2, <1>3, Short
<1>5. f.ops # "unused"
  BY DEF Tables, Lists
<1>6. PICK S2, k2, F2 :
        /\ Heap(n + 1, S2, k2, F2)'
        /\ \A i \in 1 .. n : S2[i] = S[i]
        /\ Below(S, n - 1)
        /\ mem'[S[n]].ops = mem[S[n]].ops /\ mem'[S[n]].ti = mem[S[n]].ti
        /\ mem'[S[n]].idx = mem[S[n]].idx + 1
        /\ mem'[S2[n + 1]].ops = f.ops /\ mem'[S2[n + 1]].ti = f.ti /\ mem'[S2[n + 1]].idx = f.idx
  <2>1. Heap(n, S, k, F) /\ n # 0 /\ n + 1 <= 3 * Cardinality(Obj) /\ f.ops # "unused"
    BY <1>1, <1>2, <1>4, <1>5
  <2> QED BY <2>1, PushStep
<1>7. ASSUME NEW i \in 1 .. n PROVE Fits(mem'[S[i]], i, C)
  <2>1. Fits(mem[S[i]], i, C)
    BY <1>1 DEF Shape
  <2>2. CASE i = n
    <3>1. CASE Top.ops = "type"
      <4>1. /\ mem'[S[n]].ti = C /\ mem'[S[n]].ops = "type" /\ n = 3 * Len(C) - 2
            /\ Top.idx \in 0 .. 4 /\ mem'[S[n]].idx = Top.idx + 1
        BY <1>2, <1>6, <3>1
      <4>2. Top.idx # 4
        BY <3>1 DEF Tables, Lists
      <4>3. mem'[S[n]].idx \in 0 .. 4
        BY <4>1, <4>2
      <4>4. Len(C) \in 1 .. Len(C) /\ Len(C) \in 0 .. Len(C)
        BY <1>2
      <4>5. Pre(C, Len(C)) = C
        BY <1>2, <4>4, PreIs
      <4> QED BY <2>2, <4>1, <4>3, <4>4, <4>5 DEF Fits
    <3>2. CASE Top.ops # "type"
      BY <1>2, <1>6, <2>1, <2>2, <3>2, FitsAgain
    <3> QED BY <3>1, <3>2
  <2>3. CASE i # n
    <3>1. i \in 1 .. n - 1
      BY <1>2, <2>3
    <3>2. /\ mem'[S[i]].ops = mem[S[i]].ops /\ mem'[S[i]].ti = mem[S[i]].ti
          /\ mem'[S[i]].idx = mem[S[i]].idx
      BY <1>6, <3>1 DEF Below
    <3> QED BY <2>1, <3>2, FitsAgain
  <2> QED BY <2>2, <2>3
<1>8. ASSUME NEW i \in 1 .. n PROVE Fits(mem'[S[i]], i, D)
  <2>1. CASE D = C
    BY <1>7, <2>1
  <2>2. CASE \E o \in Obj : D = Append(C, o)
    BY <1>2, <1>7, <2>2, FitsGrown
  <2> QED BY <2>1, <2>2
<1>9. Fits(mem'[S2[n + 1]], n + 1, D)
  <2>1. Len(D) \in 1 .. Len(D) /\ Pre(D, Len(D)) = D
    <3>1. Len(D) \in 0 .. Len(D) /\ Len(D) \in 1 .. Len(D)
      BY <1>2, <1>3
    <3> QED BY <1>3, <3>1, PreIs
  <2>2. mem'[S2[n + 1]].ops = f.ops /\ mem'[S2[n + 1]].ti = f.ti /\ mem'[S2[n + 1]].idx = f.idx
    BY <1>6
  <2>3. CASE Top.ops = "type" /\ f.ops \in Tables /\ f.ti = C /\ D = C
    <3>1. n + 1 = 3 * Len(D) - 1
      BY <1>2, <2>3
    <3> QED BY <2>1, <2>2, <2>3, <3>1 DEF Fits
  <2>4. CASE Top.ops \in Tables /\ f.ops \in Lists /\ f.ti = C /\ D = C
    <3>1. n + 1 = 3 * Len(D)
      BY <1>2, <2>4
    <3> QED BY <2>1, <2>2, <2>4, <3>1 DEF Fits
  <2>5. CASE /\ Top.ops \in Lists /\ f.ops = "type" /\ f.idx = 0 /\ f.ti = D
             /\ \E o \in Obj : D = Append(C, o) /\ ~ti_has_loop(D)
    <3>1. n + 1 = 3 * Len(D) - 2
      <4>1. Len(D) = Len(C) + 1
        BY <1>2, <2>5, Grown
      <4> QED BY <1>2, <2>5, <4>1
    <3>2. mem'[S2[n + 1]].idx \in 0 .. 4
      BY <2>2, <2>5
    <3> QED BY <2>1, <2>2, <2>5, <3>1, <3>2 DEF Fits
  <2> QED BY <2>3, <2>4, <2>5
<1>10. ASSUME NEW i \in 1 .. n + 1 PROVE Fits(mem'[S2[i]], i, D)
  <2>1. i \in 1 .. n \/ i = n + 1
    BY <1>2
  <2> QED BY <1>6, <1>8, <1>9, <2>1
<1>11. Shape(n + 1, S2, D)'
  BY <1>3, <1>10 DEF Shape
<1> QED BY <1>6, <1>11 DEF Scanning, InScan

-----------------------------------------------------------------------------
(* The invariant. *)

ScanInv ==
    /\ good \subseteq Obj
    /\ pc \in {"begin", "scan", "done"}
    /\ pc = "scan" => Scanning
    /\ pc # "scan" => /\ mem = [i \in Ids |-> Unused]
                      /\ head = 0 /\ buf = 0 /\ sctx_stk_free = 0
                      /\ refs = RefsOf(<<>>)

LEMMA FrameIs ==
    ASSUME NEW o, NEW t, NEW a
    PROVE  IsRecord(Frame(o, t, a)) /\ Frame(o, t, a).ops = o /\ Frame(o, t, a).ti = t /\ Frame(o, t, a).idx = 0
BY DEF IsRecord, Frame

(* A round of NextElement. *)
LEMMA ElementKeeps ==
    ASSUME Scanning, good \subseteq Obj, head # 0, Top.ops \in Lists,
           NEW v, NEW size, NEW Other, NextElement(v, size, Other)
    PROVE  Scanning'
<1> DEFINE o == Top.arg[Top.idx + 1]
<1>1. Top.ops # "type"
  BY DEF Lists
<1>2. CASE Pop /\ refs' = refs
  BY <1>1, <1>2, PopKeeps
<1>3. CASE Stay /\ refs' = refs
  BY <1>1, <1>3, StayKeeps
<1>4. CASE CanFollow(Top.ti, o) /\ create_stk_type(Append(Top.ti, o), v)
  <2>1. PICK n, S, k, F, C : InScan(n, S, k, F, C)
    BY DEF Scanning
  <2>2. Heap(n, S, k, F) /\ Shape(n, S, C) /\ refs = RefsOf(C)
    BY <2>1 DEF InScan
  <2>3. Top.ti = C /\ C \in Seq(Obj) /\ Rooted(C) /\ C # <<>>
    <3> HIDE DEF Top
    <3> QED BY <2>2, TopIs
  <2>4. PICK x : x = o
    OBVIOUS
  <2>5. x \in Obj /\ ~ti_has_loop(Append(C, x))
    BY <1>4, <2>3, <2>4 DEF CanFollow
  <2> DEFINE D == Append(C, x)
  <2>6. typeinfo_alloc_generic(refs, D) = RefsOf(D) /\ Rooted(D)
    BY <2>2, <2>3, <2>5, RefsGrow
  <2>7. create_stk_type(D, v)
    BY <1>4, <2>3, <2>4
  <2>8. CASE is_ret_done(v)
    <3>1. Pop /\ refs' = typeinfo_free(RefsOf(D), D)
      BY <2>6, <2>7, <2>8 DEF create_stk_type
    <3>2. D # <<>> /\ Front(D) = C
      BY <2>3, <2>5, Grown
    <3>3. typeinfo_free(RefsOf(D), D) = RefsOf(C)
      BY <2>6, <3>2, RefsShrink
    <3> QED BY <1>1, <2>2, <3>1, <3>3, PopKeeps
  <2>9. CASE ~is_ret_done(v)
    <3>1. Push(Frame("type", D, <<>>)) /\ refs' = RefsOf(D)
      BY <2>6, <2>7, <2>9 DEF create_stk_type
    <3>2. PICK f : f = Frame("type", D, <<>>)
      OBVIOUS
    <3>3. IsRecord(f) /\ f.ops = "type" /\ f.ti = D /\ f.idx = 0
      <4> HIDE DEF D
      <4> QED BY <3>2, FrameIs
    <3>5. Push(f)
      BY <3>1, <3>2
    <3>4. \E y \in Obj : D = Append(C, y) /\ ~ti_has_loop(D)
      BY <2>5
    <3> HIDE DEF D
    <3> QED BY <2>1, <3>1, <3>3, <3>4, <3>5, PushKeeps
  <2> QED BY <2>8, <2>9
<1> QED BY <1>2, <1>3, <1>4 DEF NextElement

(* A table of a type: its end, an entry passed over, or a frame for one.   *)
LEMMA TableKeeps ==
    ASSUME Scanning, head # 0, Top.ops \in Tables, refs' = refs,
           \/ Pop
           \/ Stay
           \/ \E ops \in Lists : \E arg : Push(Frame(ops, Top.ti, arg))
    PROVE  Scanning'
<1>1. Top.ops # "type"
  BY DEF Tables
<1>2. CASE Pop
  BY <1>1, <1>2, PopKeeps
<1>3. CASE Stay
  BY <1>1, <1>3, StayKeeps
<1>4. CASE \E ops \in Lists : \E arg : Push(Frame(ops, Top.ti, arg))
  <2>1. PICK n, S, k, F, C : InScan(n, S, k, F, C)
    BY DEF Scanning
  <2>2. Heap(n, S, k, F) /\ Shape(n, S, C) /\ refs = RefsOf(C)
    BY <2>1 DEF InScan
  <2>3. Top.ti = C
    <3> HIDE DEF Top
    <3> QED BY <2>2, TopIs
  <2>8. PICK ops \in Lists : \E arg : Push(Frame(ops, Top.ti, arg))
    BY <1>4
  <2>4. PICK arg : Push(Frame(ops, Top.ti, arg))
    BY <2>8
  <2>5. PICK f : f = Frame(ops, Top.ti, arg)
    OBVIOUS
  <2>6. IsRecord(f) /\ f.ops \in Lists /\ f.ti = C /\ Push(f)
    BY <2>3, <2>4, <2>5, FrameIs
  <2>7. refs' = RefsOf(C)
    BY <2>2
  <2> QED BY <2>1, <2>6, <2>7, PushKeeps
<1> QED BY <1>2, <1>3, <1>4

(* The frame of a type_info: the next table, or the end of the type_info.  *)
LEMMA TypeKeeps ==
    ASSUME Scanning, stkop_type_next
    PROVE  Scanning'
<1>1. head # 0 /\ Top.ops = "type"
  BY DEF stkop_type_next, Running
<1>2. Len(scan_stkops_tab) = 4
  BY DEF scan_stkops_tab
<1>3. CASE Top.idx = 4
  <2>1. Pop /\ refs' = typeinfo_free(refs, Top.ti)
    BY <1>2, <1>3 DEF stkop_type_next
  <2> QED BY <1>1, <2>1, PopKeeps
<1>4. CASE Top.idx # 4
  <2>1. PICK n, S, k, F, C : InScan(n, S, k, F, C)
    BY DEF Scanning
  <2>2. Heap(n, S, k, F) /\ Shape(n, S, C) /\ refs = RefsOf(C)
    BY <2>1 DEF InScan
  <2>3. Top.ti = C /\ Top.idx \in 0 .. 4
    <3> HIDE DEF Top
    <3> QED BY <1>1, <2>2, TopIs
  <2>4. scan_stkops_tab[Top.idx + 1] \in Tables
    <3>1. PICK j : j = Top.idx
      OBVIOUS
    <3>2. j \in {0, 1, 2, 3}
      BY <1>4, <2>3, <3>1
    <3> QED BY <3>1, <3>2 DEF scan_stkops_tab, Tables
  <2>5. Push(Frame(scan_stkops_tab[Top.idx + 1], Top.ti, <<>>)) /\ refs' = refs
    BY <1>2, <1>4 DEF stkop_type_next
  <2>6. PICK f : f = Frame(scan_stkops_tab[Top.idx + 1], Top.ti, <<>>)
    OBVIOUS
  <2>7. IsRecord(f) /\ f.ops \in Tables /\ f.ti = C /\ Push(f)
    BY <2>3, <2>4, <2>5, <2>6, FrameIs
  <2>8. refs' = RefsOf(C)
    BY <2>2, <2>5
  <2> QED BY <1>1, <1>4, <2>1, <2>7, <2>8, PushKeeps
<1> QED BY <1>3, <1>4

(* The first two frames. *)
LEMMA BeginKeeps ==
    ASSUME ScanInv, NEW v, scan_type_ctx(v)
    PROVE  ScanInv'
<1>1. /\ mem = [i \in Ids |-> Unused] /\ head = 0 /\ buf = 0 /\ sctx_stk_free = 0 /\ refs = RefsOf(<<>>)
      /\ sctx_stk_free' = sctx_stk_free /\ good' \subseteq Obj
  BY DEF scan_type_ctx, ScanInv, device
<1>2. /\ RefsOf(<<>>) (+) SetToBag({RootTi}) = RefsOf(RootTi)
      /\ typeinfo_free(RefsOf(RootTi), RootTi) = RefsOf(<<>>)
  BY RefsBegin
<1>3. CASE is_ret_done(v)
  BY <1>1, <1>2, <1>3 DEF scan_type_ctx, ScanInv, Ids, Unused
<1>4. CASE ~is_ret_done(v)
  <2>1. /\ refs' = RefsOf(RootTi) /\ pc' = "scan" /\ head' = 1 /\ buf' = 2
        /\ mem' = [mem EXCEPT ![1] = Frame("type", RootTi, <<>>), ![2] = Frame("fresh", <<>>, <<>>)]
    BY <1>1, <1>2, <1>4 DEF scan_type_ctx
  <2>2. RootTi \in Seq(Obj) /\ Len(RootTi) = 1 /\ Rooted(RootTi) /\ Simple(RootTi)
    <3>1. RootTi \in Seq(Obj) /\ Len(RootTi) = 1 /\ Rooted(RootTi)
      BY RootIs
    <3> QED BY <3>1 DEF Simple
  <2>3. 1 <= Cardinality(Obj) /\ Cardinality(Obj) \in Nat /\ MaxFrames \in Nat /\ MaxFrames > 3
    <3>1. 1 <= Cardinality(Obj) /\ Cardinality(Obj) \in Nat
      BY <2>2, Short
    <3> QED BY <3>1, HeapAssumption, ScanAssumption
  <2>4. 1 \in Ids /\ 2 \in Ids
    BY <2>3 DEF Ids
  <2>5. /\ DOMAIN mem' = Ids /\ mem'[1] = Frame("type", RootTi, <<>>) /\ mem'[2] = Frame("fresh", <<>>, <<>>)
        /\ \A i \in Ids : i # 1 /\ i # 2 => mem'[i] = Unused
    BY <1>1, <2>1, <2>4
  <2> DEFINE S == [i \in 1 .. 1 |-> 1]
             F == [i \in 1 .. 0 |-> 0]
  <2>6. S \in [1 .. 1 -> Ids] /\ S[1] = 1 /\ F \in [1 .. 0 -> Ids] /\ (\A i \in 1 .. 1 : i = 1) /\ \A i \in 1 .. 0 : FALSE
    BY <2>4
  <2> HIDE DEF S, F
  <2>7. IsList(S, 1, head)'
    <3>1. mem'[1].next = 0
      BY <2>5 DEF Frame
    <3>2. head' = IF 1 = 0 THEN 0 ELSE S[1]
      BY <2>1, <2>6
    <3>3. \A i \in 1 .. 1 : mem'[S[i]].next = IF i = 1 THEN 0 ELSE S[i - 1]
      BY <2>6, <3>1
    <3>4. \A i, j \in 1 .. 1 : i # j => S[i] # S[j]
      BY <2>6
    <3> QED BY <2>6, <3>2, <3>3, <3>4 DEF IsList, Ids
  <2>8. IsList(F, 0, sctx_stk_free)'
    BY <1>1, <2>6 DEF IsList, Ids
  <2>9. Members(S, 1) = {1} /\ Members(F, 0) = {}
    BY <2>6 DEF Members
  <2>10. InUse(1, S, 0, F)' = {1, 2}
    BY <2>1, <2>9 DEF InUse
  <2>11. Filled(1, S, 0, F)'
    <3>1. ASSUME NEW i \in Ids
          PROVE  /\ IsRecord(mem'[i])
                 /\ i \in {1, 2} => mem'[i].ops # "unused"
                 /\ i \notin {1, 2} => mem'[i] = Unused
      <4>1. CASE i = 1
        BY <2>5, <4>1 DEF Frame, IsRecord
      <4>2. CASE i = 2
        BY <2>5, <4>2 DEF Frame, IsRecord
      <4>3. CASE i # 1 /\ i # 2
        BY <2>5, <4>3 DEF Unused, IsRecord
      <4> QED BY <4>1, <4>2, <4>3
    <3> QED BY <2>5, <2>10, <3>1 DEF Filled, IsRecord, Ids, Unused
  <2>12. Apart(1, S, 0, F)'
    BY <2>1, <2>6 DEF Apart
  <2>13. Heap(1, S, 0, F)'
    BY <2>1, <2>3, <2>4, <2>7, <2>8, <2>11, <2>12 DEF Heap, Ids
  <2>14. Fits(mem'[S[1]], 1, RootTi)
    <3>1. mem'[S[1]].ti = RootTi /\ mem'[S[1]].ops = "type" /\ mem'[S[1]].idx = 0
      BY <2>5, <2>6 DEF Frame
    <3>2. Pre(RootTi, Len(RootTi)) = RootTi
      <4>1. Len(RootTi) \in 0 .. Len(RootTi)
        BY <2>2
      <4> QED BY <2>2, <4>1, PreIs
    <3>3. 1 \in 1 .. Len(RootTi) /\ 1 = 3 * 1 - 2 /\ 0 \in 0 .. 4 /\ RootTi = Pre(RootTi, 1)
      BY <2>2, <3>2
    <3> QED BY <3>1, <3>3 DEF Fits
  <2>15. Shape(1, S, RootTi)'
    <3>1. 3 * Len(RootTi) - 2 <= 1 /\ 1 <= 3 * Len(RootTi)
      BY <2>2
    <3> QED BY <2>2, <2>6, <2>14, <3>1 DEF Shape
  <2>16. Scanning'
    BY <2>1, <2>13, <2>15 DEF Scanning, InScan
  <2> QED BY <1>1, <2>1, <2>16 DEF ScanInv
<1> QED BY <1>3, <1>4

(* The end of the loop. *)
LEMMA DrainKeeps ==
    ASSUME ScanInv, scan_ctx_drain_freelist
    PROVE  ScanInv'
<1>1. Scanning /\ head = 0 /\ good' = good /\ good \subseteq Obj
  BY DEF scan_ctx_drain_freelist, ScanInv, device
<1>2. PICK n, S, k, F, C : InScan(n, S, k, F, C)
  BY <1>1 DEF Scanning
<1>3. Heap(n, S, k, F) /\ Shape(n, S, C) /\ refs = RefsOf(C)
  BY <1>2 DEF InScan
<1>4. n = 0
  BY <1>1, <1>3, HeadIs
<1>5. C = <<>>
  <2>1. C \in Seq(Obj) /\ 3 * Len(C) - 2 <= 0
    BY <1>3, <1>4 DEF Shape, Rooted
  <2> QED BY <2>1
<1>6. Linked(sctx_stk_free) = Members(F, k)
  BY <1>3, ListLinked DEF Heap
<1>7. InUse(n, S, k, F) = {buf} \cup Linked(sctx_stk_free)
  <2>1. Members(S, n) = {}
    BY <1>4 DEF Members
  <2> QED BY <1>6, <2>1 DEF InUse
<1>8. mem' = [i \in Ids |-> IF i \in {buf} \cup Linked(sctx_stk_free) THEN Unused ELSE mem[i]]
  BY DEF scan_ctx_drain_freelist
<1>9. \A i \in Ids : i \notin {buf} \cup Linked(sctx_stk_free) => mem[i] = Unused
  BY <1>3, <1>7 DEF Heap, Filled
<1>10. mem' = [i \in Ids |-> Unused]
  BY <1>8, <1>9
<1>11. head' = 0 /\ buf' = 0 /\ sctx_stk_free' = 0 /\ pc' = "done" /\ refs' = RefsOf(<<>>)
  BY <1>1, <1>3, <1>5 DEF scan_ctx_drain_freelist
<1> QED BY <1>1, <1>10, <1>11 DEF ScanInv, Ids, Unused

-----------------------------------------------------------------------------
LEMMA ScanInit == Init => ScanInv
<1> SUFFICES ASSUME Init PROVE ScanInv
  OBVIOUS
<1>1. refs = RefsOf(<<>>)
  BY RefsBegin DEF Init
<1> QED BY <1>1 DEF Init, ScanInv

LEMMA ScanNext == ScanInv /\ [Next]_vars => ScanInv'
<1> SUFFICES ASSUME ScanInv, [Next]_vars PROVE ScanInv'
  OBVIOUS
<1>1. good \subseteq Obj
  BY DEF ScanInv
<1>2. ASSUME NEW ops, Running(ops), pc' = pc, good' = good, Scanning => Scanning' PROVE ScanInv'
  <2>1. pc = "scan" /\ Scanning
    BY <1>2 DEF Running, ScanInv
  <2> QED BY <1>1, <1>2, <2>1 DEF ScanInv
<1>3. ASSUME NEW ops, Running(ops) PROVE head # 0 /\ Top.ops = ops
  BY <1>3 DEF Running
<1>4. CASE stkop_type_next
  <2>1. Running("type") /\ pc' = pc /\ good' = good
    BY <1>4 DEF stkop_type_next, device
  <2> QED BY <1>2, <1>4, <2>1, TypeKeeps
<1>5. CASE stkop_pointsto_all_next
  <2>1. Running("pointsto_all") /\ pc' = pc /\ good' = good /\ refs' = refs
    BY <1>5 DEF stkop_pointsto_all_next, device
  <2>2. Pop \/ Stay \/ \E ops \in Lists : \E arg : Push(Frame(ops, Top.ti, arg))
    BY <1>5 DEF stkop_pointsto_all_next, Lists
  <2>3. Top.ops \in Tables
    BY <1>3, <2>1 DEF Tables
  <2> QED BY <1>2, <1>3, <2>1, <2>2, <2>3, TableKeeps
<1>6. CASE stkop_virt_all_next
  <2>1. Running("virt_all") /\ pc' = pc /\ good' = good /\ refs' = refs
    BY <1>6 DEF stkop_virt_all_next, device
  <2>2. Pop \/ Stay \/ \E ops \in Lists : \E arg : Push(Frame(ops, Top.ti, arg))
    BY <1>6 DEF stkop_virt_all_next, Lists
  <2>3. Top.ops \in Tables
    BY <1>3, <2>1 DEF Tables
  <2> QED BY <1>2, <1>3, <2>1, <2>2, <2>3, TableKeeps
<1>7. ASSUME NEW v \in verdicts, scan_type_ctx(v) PROVE ScanInv'
  BY <1>7, BeginKeeps
<1>8. ASSUME NEW v \in verdicts, stkop_fieldstrong_next(v) PROVE ScanInv'
  <2>1. Running("fieldstrong") /\ pc' = pc /\ good' = good /\ refs' = refs
    BY <1>8 DEF stkop_fieldstrong_next, device
  <2>2. Pop \/ Stay \/ \E ops \in Lists : \E arg : Push(Frame(ops, Top.ti, arg))
    BY <1>8 DEF stkop_fieldstrong_next, Lists
  <2>3. Top.ops \in Tables
    BY <1>3, <2>1 DEF Tables
  <2> QED BY <1>2, <1>3, <2>1, <2>2, <2>3, TableKeeps
<1>9. ASSUME NEW v \in verdicts, stkop_cond_next(v) PROVE ScanInv'
  <2>1. Running("cond") /\ pc' = pc /\ good' = good /\ refs' = refs
    BY <1>9 DEF stkop_cond_next, device
  <2>2. Pop \/ Stay \/ \E ops \in Lists : \E arg : Push(Frame(ops, Top.ti, arg))
    BY <1>9 DEF stkop_cond_next, Lists
  <2>3. Top.ops \in Tables
    BY <1>3, <2>1 DEF Tables
  <2> QED BY <1>2, <1>3, <2>1, <2>2, <2>3, TableKeeps
<1>10. ASSUME NEW v \in verdicts, stkop_fieldarray_next(v) PROVE ScanInv'
  <2>1. Running("fieldarray") /\ pc' = pc /\ good' = good /\ NextElement(v, Len(Top.arg), UNCHANGED calls)
    BY <1>10 DEF stkop_fieldarray_next, device
  <2>2. head # 0 /\ Top.ops \in Lists
    BY <1>3, <2>1 DEF Lists
  <2>3. Scanning => Scanning'
    BY <1>1, <2>1, <2>2, ElementKeeps
  <2> QED BY <1>2, <2>1, <2>3
<1>11. ASSUME NEW v \in verdicts, stkop_pointsto_next(v) PROVE ScanInv'
  <2>1. Running("pointsto") /\ pc' = pc /\ good' = good /\ NextElement(v, Len(Top.arg), UNCHANGED calls)
    BY <1>11 DEF stkop_pointsto_next, device
  <2>2. head # 0 /\ Top.ops \in Lists
    BY <1>3, <2>1 DEF Lists
  <2>3. Scanning => Scanning'
    BY <1>1, <2>1, <2>2, ElementKeeps
  <2> QED BY <1>2, <2>1, <2>3
<1>12. ASSUME NEW v \in verdicts, NEW w \in verdicts, stkop_virt_next(v, w) PROVE ScanInv'
  <2>1. Running("virt") /\ pc' = pc /\ good' = good
    BY <1>12 DEF stkop_virt_next, device
  <2>2. head # 0 /\ Top.ops \in Lists /\ Top.ops # "type"
    BY <1>3, <2>1 DEF Lists
  <2>3. \/ Pop /\ refs' = refs
        \/ NextElement(w, Len(Top.arg), Call("so_virt", Top.ti, v))
    BY <1>12 DEF stkop_virt_next
  <2>4. Scanning => Scanning'
    BY <1>1, <2>2, <2>3, PopKeeps, ElementKeeps
  <2> QED BY <1>2, <2>1, <2>4
<1>13. CASE scan_ctx_drain_freelist
  BY <1>13, DrainKeeps
<1>14. CASE UNCHANGED vars
  <2>1. ASSUME Scanning PROVE Scanning'
    <3>1. PICK n, S, k, F, C : InScan(n, S, k, F, C)
      BY <2>1 DEF Scanning
    <3>2. mem' = mem /\ head' = head /\ buf' = buf /\ sctx_stk_free' = sctx_stk_free /\ refs' = refs
      BY <1>14 DEF vars
    <3>3. IsList(S, n, head)' /\ IsList(F, k, sctx_stk_free)'
      BY <3>1, <3>2 DEF InScan, Heap, IsList, Ids
    <3>4. Apart(n, S, k, F)' /\ Filled(n, S, k, F)' /\ Shape(n, S, C)'
      BY <3>1, <3>2 DEF InScan, Heap, Apart, Filled, InUse, Ids, Unused, Shape, IsRecord
    <3>5. InScan(n, S, k, F, C)'
      BY <3>1, <3>2, <3>3, <3>4 DEF InScan, Heap, Ids
    <3> QED BY <3>5 DEF Scanning
  <2> QED BY <1>14, <2>1 DEF vars, calls, device, ScanInv, Ids, Unused
<1> QED BY <1>4, <1>5, <1>6, <1>7, <1>8, <1>9, <1>10, <1>11, <1>12, <1>13, <1>14 DEF Next, Step, Finished

-----------------------------------------------------------------------------
(* What the invariant says of frames, references and depth. *)

LEMMA FramesFollow ==
    ASSUME ScanInv
    PROVE  FramesAccounted
<1>1. 0 \notin Ids
  BY DEF Ids
<1>2. CASE pc = "scan"
  <2>1. PICK n, S, k, F, C : InScan(n, S, k, F, C)
    BY <1>2 DEF ScanInv, Scanning
  <2>2. Heap(n, S, k, F)
    BY <2>1 DEF InScan
  <2>3. Linked(head) = Members(S, n) /\ Linked(sctx_stk_free) = Members(F, k)
    BY <2>2, ListLinked DEF Heap
  <2>4. InUse(n, S, k, F) \subseteq Ids /\ buf \in Ids
    BY <2>2, InUseBound DEF Heap
  <2>5. Allocated = InUse(n, S, k, F)
    <3>1. \A i \in Ids : mem[i] # Unused <=> i \in InUse(n, S, k, F)
      BY <2>2 DEF Heap, Filled, Unused
    <3> QED BY <2>4, <3>1 DEF Allocated
  <2>6. /\ Members(S, n) \cap Members(F, k) = {}
        /\ buf \notin Members(S, n) \cup Members(F, k)
    BY <2>2 DEF Heap, Apart, Members
  <2> QED BY <1>1, <1>2, <2>3, <2>4, <2>5, <2>6 DEF FramesAccounted, OnStack, InUse
<1>3. CASE pc # "scan"
  <2>1. /\ mem = [i \in Ids |-> Unused] /\ head = 0 /\ buf = 0 /\ sctx_stk_free = 0
    BY <1>3 DEF ScanInv
  <2>2. Allocated = {}
    BY <2>1 DEF Allocated
  <2>3. Linked(0) = {}
    <3> DEFINE q == [i \in 1 .. 0 |-> 0]
    <3>1. IsList(q, 0, 0)
      <4>1. \A i \in 1 .. 0 : FALSE
        OBVIOUS
      <4>2. q \in [1 .. 0 -> Ids]
        BY <4>1
      <4> HIDE DEF q
      <4> QED BY <4>1, <4>2 DEF IsList
    <3>2. Members(q, 0) = {}
      BY DEF Members
    <3> HIDE DEF q
    <3> QED BY <3>1, <3>2, ListLinked
  <2> QED BY <2>1, <2>2, <2>3 DEF FramesAccounted, OnStack
<1> QED BY <1>2, <1>3

LEMMA DepthFollows ==
    ASSUME ScanInv
    PROVE  StackBounded
<1>1. CASE pc = "scan"
  <2>1. PICK n, S, k, F, C : InScan(n, S, k, F, C)
    BY <1>1 DEF ScanInv, Scanning
  <2>2. Heap(n, S, k, F)
    BY <2>1 DEF InScan
  <2>3. Allocated = InUse(n, S, k, F)
    <3>1. \A i \in Ids : mem[i] # Unused <=> i \in InUse(n, S, k, F)
      BY <2>2 DEF Heap, Filled, Unused
    <3> QED BY <2>2, <3>1, InUseBound DEF Allocated
  <2> DEFINE c == Cardinality(InUse(n, S, k, F))
  <2>4. c <= n + k + 1 /\ c \in Nat /\ n \in Nat /\ k \in Nat
    BY <2>2, InUseBound
  <2>5. n + k <= 3 * Cardinality(Obj) /\ Cardinality(Obj) \in Nat
    BY <2>2, HeadIs DEF Heap
  <2> HIDE DEF c
  <2>6. c <= 3 * Cardinality(Obj) + 1
    BY <2>4, <2>5
  <2> QED BY <2>3, <2>6 DEF StackBounded, c
<1>2. CASE pc # "scan"
  <2>1. Allocated = {}
    BY <1>2 DEF ScanInv, Allocated
  <2>2. Cardinality(Obj) \in Nat /\ Cardinality({}) = 0
    BY ScanAssumption, FS_CardinalityType, FS_EmptySet
  <2> QED BY <2>1, <2>2 DEF StackBounded
<1> QED BY <1>1, <1>2

LEMMA Once ==
    ASSUME NEW X, NEW x, X = {x}
    PROVE  Cardinality(X) = 1
BY FS_Singleton

LEMMA RefsFollow ==
    ASSUME ScanInv
    PROVE  RefsExact
<1> DEFINE frames(ti)   == {i \in OnStack : mem[i].ops = "type" /\ mem[i].ti = ti}
           children(ti) == {t \in DOMAIN refs : Len(t) = Len(ti) + 1 /\ Front(t) = ti}
<1>1. \E C : /\ Rooted(C) /\ refs = RefsOf(C)
             /\ \A i \in OnStack : mem[i].ti \in DOMAIN refs
             /\ \A ti \in DOMAIN refs :
                   Cardinality(frames(ti)) = IF Len(ti) <= Len(C) THEN 1 ELSE 0
  <2>1. CASE pc = "scan"
    <3>1. PICK n, S, k, F, C : InScan(n, S, k, F, C)
      BY <2>1 DEF ScanInv, Scanning
    <3>2. Heap(n, S, k, F) /\ Shape(n, S, C) /\ refs = RefsOf(C)
      BY <3>1 DEF InScan
    <3>3. OnStack = Members(S, n)
      BY <3>2, ListLinked DEF Heap, OnStack
    <3>4. /\ Rooted(C) /\ C \in Seq(Obj) /\ Len(C) \in Nat /\ n \in Nat
          /\ 3 * Len(C) - 2 <= n /\ n <= 3 * Len(C)
          /\ \A i \in 1 .. n : Fits(mem[S[i]], i, C)
      BY <3>2, HeadIs DEF Shape, Rooted
    <3>5. DOMAIN refs = {RootTi} \cup Above(C)
      BY <3>2 DEF RefsOf
    <3>6. ASSUME NEW i \in OnStack PROVE mem[i].ti \in DOMAIN refs
      <4>1. PICK x \in 1 .. n : i = S[x]
        BY <3>3 DEF Members
      <4>2. PICK l \in 1 .. Len(C) : mem[i].ti = Pre(C, l)
        BY <3>4, <4>1 DEF Fits
      <4> QED BY <3>5, <4>2 DEF Above
    <3>7. ASSUME NEW ti \in DOMAIN refs
          PROVE  Cardinality(frames(ti)) = IF Len(ti) <= Len(C) THEN 1 ELSE 0
      <4>1. CASE C = <<>>
        <5>1. Len(ti) \in Nat \ {0} /\ Len(C) = 0
          BY <3>4, <3>5, <4>1, PrefixIs
        <5>2. n = 0
          BY <3>4, <5>1
        <5>3. frames(ti) = {}
          BY <3>3, <5>2 DEF Members
        <5> QED BY <5>1, <5>3, FS_EmptySet
      <4>2. CASE C # <<>>
        <5>1. Len(ti) \in 1 .. Len(C) /\ ti = Pre(C, Len(ti))
          BY <3>4, <3>5, <4>2, PrefixIs
        <5>2. PICK l : l = Len(ti)
          OBVIOUS
        <5>3. 3 * l - 2 \in 1 .. n
          BY <3>4, <5>1, <5>2
        <5>4. \A h \in 1 .. Len(C) : Len(Pre(C, h)) = h
          <6>1. \A h \in 1 .. Len(C) : h \in 0 .. Len(C)
            BY <3>4
          <6> QED BY <3>4, <6>1, PreIs
        <5>5. "type" \notin Tables \cup Lists
          BY DEF Tables, Lists
        <5>6. ASSUME NEW x \in 1 .. n PROVE mem[S[x]].ops = "type" /\ mem[S[x]].ti = ti <=> x = 3 * l - 2
          <6>1. PICK h \in 1 .. Len(C) :
                  /\ mem[S[x]].ti = Pre(C, h)
                  /\ \/ x = 3 * h - 2 /\ mem[S[x]].ops = "type"
                     \/ x = 3 * h - 1 /\ mem[S[x]].ops \in Tables
                     \/ x = 3 * h     /\ mem[S[x]].ops \in Lists
            BY <3>4 DEF Fits
          <6>2. mem[S[x]].ti = ti <=> h = l
            BY <5>1, <5>2, <5>4, <6>1
          <6>3. h \in Nat /\ l \in Nat
            BY <3>4, <5>1, <5>2, <6>1
          <6> QED BY <5>5, <6>1, <6>2, <6>3
        <5>7. frames(ti) = {S[3 * l - 2]}
          <6>1. ASSUME NEW i \in frames(ti) PROVE i = S[3 * l - 2]
            <7>1. PICK x \in 1 .. n : i = S[x]
              BY <3>3 DEF Members
            <7> QED BY <5>6, <7>1
          <6>2. S[3 * l - 2] \in frames(ti)
            BY <3>3, <5>3, <5>6 DEF Members
          <6> HIDE DEF frames
          <6> QED BY <6>1, <6>2
        <5> HIDE DEF frames
        <5>8. Cardinality(frames(ti)) = 1
          BY <5>7, Once
        <5> QED BY <3>4, <5>1, <5>8
      <4> QED BY <4>1, <4>2
    <3> QED BY <3>2, <3>4, <3>6, <3>7
  <2>2. CASE pc # "scan"
    <3>1. refs = RefsOf(<<>>) /\ OnStack = {}
      <4>1. FramesAccounted
        BY FramesFollow
      <4>2. Allocated = {}
        BY <2>2 DEF ScanInv, Allocated
      <4> QED BY <2>2, <4>1, <4>2 DEF ScanInv, FramesAccounted
    <3>2. Rooted(<<>>)
      BY RootIs
    <3>3. ASSUME NEW ti \in DOMAIN refs PROVE Cardinality(frames(ti)) = IF Len(ti) <= Len(<<>>) THEN 1 ELSE 0
      <4>1. ti \in {RootTi} \cup Above(<<>>)
        BY <3>1 DEF RefsOf
      <4>2. Len(ti) \in Nat \ {0} /\ Len(<<>>) = 0
        BY <3>2, <4>1, PrefixIs
      <4>3. frames(ti) = {}
        BY <3>1
      <4> HIDE DEF frames
      <4> QED BY <4>2, <4>3, FS_EmptySet
    <3> QED BY <3>1, <3>2, <3>3
  <2> QED BY <2>1, <2>2
<1>2. PICK C : /\ Rooted(C) /\ refs = RefsOf(C)
               /\ \A i \in OnStack : mem[i].ti \in DOMAIN refs
               /\ \A ti \in DOMAIN refs :
                     Cardinality(frames(ti)) = IF Len(ti) <= Len(C) THEN 1 ELSE 0
  BY <1>1
<1>3. C \in Seq(Obj) /\ Len(C) \in Nat
  BY <1>2 DEF Rooted
<1>4. DOMAIN refs = {RootTi} \cup Above(C) /\ \A t \in DOMAIN refs : refs[t] = Count(C, Len(t))
  BY <1>2 DEF RefsOf
<1>5. ASSUME NEW ti \in DOMAIN refs
      PROVE  Cardinality(children(ti)) = IF Len(ti) < Len(C) THEN 1 ELSE 0
  <2>1. Len(ti) \in Nat \ {0}
    BY <1>2, <1>4, PrefixIs
  <2>2. CASE C = <<>>
    <3>1. \A t \in DOMAIN refs : t = RootTi
      BY <1>2, <1>4, <2>2, PrefixIs
    <3>2. Len(RootTi) = 1 /\ Len(C) = 0
      BY <2>2, RootIs
    <3>3. children(ti) = {}
      BY <3>1, <3>2
    <3> HIDE DEF children
    <3> QED BY <2>1, <3>2, <3>3, FS_EmptySet
  <2>3. CASE C # <<>>
    <3>1. \A t \in DOMAIN refs : Len(t) \in 1 .. Len(C) /\ t = Pre(C, Len(t))
      BY <1>2, <1>4, <2>3, PrefixIs
    <3>2. CASE Len(ti) < Len(C)
      <4>1. PICK l : l = Len(ti) + 1
        OBVIOUS
      <4>2. l \in 1 .. Len(C) /\ l \in 0 .. Len(C) /\ Len(ti) \in 0 .. l /\ Len(ti) = l - 1 /\ l # 0
        BY <1>3, <2>1, <3>2, <4>1
      <4>3. Pre(C, l) \in DOMAIN refs /\ Len(Pre(C, l)) = l /\ Pre(C, l) \in Seq(Obj)
        BY <1>3, <1>4, <4>2, PreIs DEF Above
      <4>4. Front(Pre(C, l)) = ti
        <5>1. Pre(C, l) # <<>>
          BY <4>2, <4>3
        <5>2. Front(Pre(C, l)) = Pre(Pre(C, l), Len(ti))
          BY <4>2, <4>3, <5>1, FrontIs
        <5>3. Pre(Pre(C, l), Len(ti)) = Pre(C, Len(ti))
          BY <1>3, <4>2, PreOfPre
        <5> QED BY <3>1, <5>2, <5>3
      <4>5. children(ti) = {Pre(C, l)}
        <5>1. ASSUME NEW t \in children(ti) PROVE t = Pre(C, l)
          BY <3>1, <4>1
        <5>2. Pre(C, l) \in children(ti)
          BY <4>1, <4>3, <4>4
        <5> HIDE DEF children
        <5> QED BY <5>1, <5>2
      <4> HIDE DEF children
      <4> QED BY <3>2, <4>5, Once
    <3>3. CASE ~(Len(ti) < Len(C))
      <4>1. children(ti) = {}
        <5>1. ASSUME NEW t \in DOMAIN refs PROVE Len(t) # Len(ti) + 1
          BY <1>3, <2>1, <3>1, <3>3
        <5> QED BY <5>1
      <4> HIDE DEF children
      <4> QED BY <3>3, <4>1, FS_EmptySet
    <3> QED BY <3>2, <3>3
  <2> QED BY <2>2, <2>3
<1>6. ASSUME NEW ti \in DOMAIN refs
      PROVE  refs[ti] = Cardinality(frames(ti)) + Cardinality(children(ti)) + (IF ti = RootTi THEN 1 ELSE 0)
  <2> DEFINE x == Cardinality(frames(ti))
             y == Cardinality(children(ti))
  <2>1. x = (IF Len(ti) <= Len(C) THEN 1 ELSE 0) /\ y = (IF Len(ti) < Len(C) THEN 1 ELSE 0)
    BY <1>2, <1>5
  <2>2. refs[ti] = Count(C, Len(ti))
    BY <1>4
  <2>3. Len(ti) = 1 <=> ti = RootTi
    <3>1. Len(ti) = 1 => ti = RootTi
      <4>1. CASE C = <<>>
        BY <1>2, <1>4, <4>1, PrefixIs
      <4>2. CASE C # <<>>
        <5>1. ti = Pre(C, Len(ti))
          BY <1>2, <1>4, <4>2, PrefixIs
        <5>2. RootTi = Pre(C, 1)
          BY <1>2, <4>2, RootPrefix
        <5> QED BY <5>1, <5>2
      <4> QED BY <4>1, <4>2
    <3> QED BY <3>1, RootIs
  <2> HIDE DEF x, y
  <2>4. refs[ti] = x + y + (IF ti = RootTi THEN 1 ELSE 0)
    BY <1>3, <2>1, <2>2, <2>3 DEF Count
  <2> QED BY <2>4 DEF x, y
<1> QED BY <1>2, <1>6 DEF RefsExact

-----------------------------------------------------------------------------
(* Every frame the scan allocated is on the stack, on the free list or the *)
(* spare one, and none is left in the end; every type_info is counted by   *)
(* its frame and the type_info reached through it, so it is freed with the *)
(* last of them and never before (type_info.c, typeinfo_free); the stack   *)
(* has at most three frames to an object, whatever circles the device and  *)
(* whatever verdicts the callbacks return (scan.c).                        *)
THEOREM ScanAccounted == Spec => []Accounted
<1>1. ScanInv => Accounted
  BY FramesFollow, RefsFollow, DepthFollows DEF Accounted
<1> QED BY <1>1, ScanInit, ScanNext, PTL DEF Spec
=============================================================================
